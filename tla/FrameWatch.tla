------------------------------ MODULE FrameWatch -------------------------------
(***************************************************************************)
(* One feature's frame and the host page that watches it: the frame's      *)
(* beats and visibility reports, the watchdog they feed, and the revival   *)
(* that replaces a frame gone silent (libs/features, hostee and host).     *)
(*                                                                         *)
(* Time is discrete: a unit is BEAT_INTERVAL_MS, in which the frame beats  *)
(* once and the watchdog ticks once, in either order.  The browser may     *)
(* stall a frame, kill it, or slow the timers of a page that has been      *)
(* hidden for longer than the watch of its visibility takes to notice.     *)
(***************************************************************************)
EXTENDS Heartbeat, Revival, Sequences

CONSTANTS
  Env,      \* what users and the browser do: hide, hideOwn, stall, kill, remove, reload
  InFlight  \* how many messages the frame may have in flight as a page returns to view

VARIABLES
  pages,    \* whether the frame is in the page, and which pages are hidden
  frame,    \* the frame's document, and the last visibility it reported
  wire,     \* control messages posted to the host and not yet handled
  session,  \* the mount: what it believes of both pages, and its watchdog
  revival,  \* the shell's revival policy
  clock,    \* what this unit still owes, and whose visibility watch is late
  past      \* history: whole units since a beat, a nap, a blindness, a verdict
vars == <<pages, frame, wire, session, revival, clock, past>>

\* A mount with no session yet, a session, a frame that hangs, one the browser
\* killed, one taken out of the page (or a window closed), and no mount at all.
Life == {"connecting", "live", "stalled", "dead", "removed", "none"}

\* A frame that will never beat again.
Lost == {"dead", "removed"}

\* The poll behind a lost announcement, in units: POLL_INTERVAL_MS.
PollInterval == 2

\* How far the histories are counted: the beats a frame in view needs to be
\* believed, and the longest a lost frame can go unanswered.
KeptAfter == 3
Patience  == PollInterval + MissThreshold + Grace * Backoff ^ Attempts
Cap(n, bound) == IF n < bound THEN n + 1 ELSE bound

Past == [silent : 0 .. MissThreshold + 1,  \* units since the frame last beat
         calm   : 0 .. KeptAfter,          \* units it has run with both pages shown
         sight  : 0 .. MissThreshold,      \* units the watchdog has been observing
         steady : 0 .. Stable,             \* units since a session opened or a verdict
         owed   : 0 .. Patience + 1,       \* units a page in view has lacked its frame
         brief  : BOOLEAN]  \* its page last returned before the mount knew of the hiding

\* An in-document frame's visibility is the browser's copy of its page's.
FrameHidden == IF pages.inPage THEN pages.host ELSE pages.own

\* A visibility watch that has not noticed yet: an announcement may be lost, and
\* the poll behind it reads the page within PollInterval.
HostUnaware  == frame.life # "none" /\ session.selfHidden # pages.host
FrameUnaware == frame.life = "live" /\ frame.said # FrameHidden
Unaware == {e \in {"host", "frame"} : IF e = "host" THEN HostUnaware ELSE FrameUnaware}

\* Whose timers the browser may slow down.
HostThrottled  == pages.host /\ ~HostUnaware
FrameThrottled == FrameHidden /\ frame.said

NoPast == [silent |-> 0, calm |-> 0, sight |-> 0, steady |-> 0, owed |-> 0, brief |-> FALSE]

NewSession == [selfHidden |-> FALSE, peerHidden |-> FALSE, monitor |-> NewMonitor]

\* applyObservability: the hidden flags of both pages, told to watchdog and revival.
Observing(s) == ~s.selfHidden /\ ~s.peerHidden
Observe(s, r) ==
  /\ session' = [s EXCEPT !.monitor = SetObservable(@, Observing(s))]
  /\ revival' = SetJudgeable(r, Observing(s))
  /\ past' = [past EXCEPT !.sight = IF Observing(s) THEN @ ELSE 0]

\* mountFeature, under the policy record r: the visibility watch reports at once.
Mount(r) ==
  /\ frame' = [life |-> "connecting", said |-> FALSE]
  /\ wire' = <<>>
  /\ Observe([NewSession EXCEPT !.selfHidden = pages.host], r)

\* teardown: channel, watchdog and visibility watch go.
Unmount(r) ==
  /\ frame' = [life |-> "none", said |-> FALSE]
  /\ wire' = <<>>
  /\ session' = NewSession
  /\ revival' = r
  /\ past' = NoPast

Init ==
  /\ pages \in [inPage : BOOLEAN, host : {FALSE}, own : {FALSE}]
  /\ frame = [life |-> "none", said |-> FALSE]
  /\ wire = <<>>
  /\ session = NewSession
  /\ revival = NewRevival
  /\ clock = [due |-> {}, late |-> {}]
  /\ past = NoPast

-----------------------------------------------------------------------------
(* The frame.                                                              *)

Beats ==
  /\ frame.life = "live" /\ "beat" \in clock.due
  /\ wire' = Append(wire, "beat")
  /\ clock' = [clock EXCEPT !.due = @ \ {"beat"}]
  /\ past' = [past EXCEPT !.silent = 0]
  /\ UNCHANGED <<pages, frame, session, revival>>

FrameSettles ==
  /\ FrameUnaware
  /\ frame' = [frame EXCEPT !.said = FrameHidden]
  /\ wire' = Append(wire, IF FrameHidden THEN "hidden" ELSE "visible")
  /\ clock' = [clock EXCEPT !.late = @ \ {"frame"}]
  /\ UNCHANGED <<pages, session, revival, past>>

-----------------------------------------------------------------------------
(* The host.                                                               *)

\* The application opens the feature: a fresh policy, whatever was pending.
Open ==
  /\ frame.life = "none"
  /\ Mount(NewRevival)
  /\ UNCHANGED <<pages, clock>>

\* The handshake completes and both ends' 'open' handlers run; the reporter
\* sends the frame's visibility at once.
ConnectOpens ==
  /\ frame.life = "connecting"
  /\ frame' = [life |-> "live", said |-> FrameHidden]
  /\ wire' = <<IF FrameHidden THEN "hidden" ELSE "visible">>
  /\ session' = [session EXCEPT !.monitor = Start(@)]
  /\ revival' = Opened(revival)
  /\ clock' = [clock EXCEPT !.due = {}]
  /\ past' = NoPast
  /\ UNCHANGED pages

\* 'connect-timeout': the mount is torn down, and a reopen's counts as a death.
ConnectFails ==
  /\ frame.life = "connecting"
  /\ Unmount(ConnectFailed(revival))
  /\ UNCHANGED <<pages, clock>>

Deliver ==
  /\ wire # <<>>
  /\ wire' = Tail(wire)
  /\ \/ /\ Head(wire) = "beat"
        /\ session' = [session EXCEPT !.monitor = Beat(@)]
        /\ UNCHANGED <<revival, past>>
     \/ /\ Head(wire) # "beat"
        /\ Observe([session EXCEPT !.peerHidden = Head(wire) = "hidden"], revival)
  /\ UNCHANGED <<pages, frame, clock>>

\* Mutant: the report of a hidden frame stands when its page returns to view.
HostSettles_Stands ==
  /\ HostUnaware
  /\ Observe([session EXCEPT !.selfHidden = pages.host], revival)
  /\ clock' = [clock EXCEPT !.late = @ \ {"host"}]
  /\ UNCHANGED <<pages, frame, wire>>

\* The mount's visibility watch reports; a frame in the page cannot still be
\* hidden once its page is not.
HostSettles ==
  /\ HostUnaware
  /\ Observe([session EXCEPT !.selfHidden = pages.host,
                             !.peerHidden = @ /\ (pages.host \/ ~pages.inPage)],
             revival)
  /\ clock' = [clock EXCEPT !.late = @ \ {"host"}]
  /\ UNCHANGED <<pages, frame, wire>>

\* The watchdog ticks.  A frame taken out on purpose ends the shell's session.
WatchTick ==
  /\ session.monitor.running /\ "watch" \in clock.due
  /\ clock' = [clock EXCEPT !.due = @ \ {"watch"}]
  /\ \/ /\ Unresponsive(session.monitor) /\ frame.life = "removed"
        /\ Unmount(NewRevival)
     \/ /\ Unresponsive(session.monitor) /\ frame.life # "removed"
        /\ session' = [session EXCEPT !.monitor = Watched(@)]
        /\ revival' = Schedule(revival)
        /\ past' = [past EXCEPT !.steady = 0]
        /\ UNCHANGED <<frame, wire>>
     \/ /\ ~Unresponsive(session.monitor)
        /\ session' = [session EXCEPT !.monitor = Watched(@)]
        /\ UNCHANGED <<frame, wire, revival, past>>
  /\ UNCHANGED pages

IsHealthy == session.monitor.state = "healthy"

\* The revival's grace timer fires and replaces the mount; a window may be
\* refused, and a container gone from the page throws: both stand down.
GraceReopens ==
  /\ revival.grace = 0 /\ Verdict(revival, IsHealthy) = "reopen"
  /\ \/ Mount(Fired(revival, FALSE))
     \/ Unmount(NewRevival)
  /\ UNCHANGED <<pages, clock>>

\* The budget is spent: the feature is torn down for good.
GraceGivesUp ==
  /\ revival.grace = 0 /\ Verdict(revival, IsHealthy) = "giveUp"
  /\ Unmount(NewRevival)
  /\ UNCHANGED <<pages, clock>>

\* The frame spoke again, or the page is hidden and the attempt is held.
GraceWaits ==
  /\ revival.grace = 0 /\ Verdict(revival, IsHealthy) \in {"stayed", "held"}
  /\ revival' = Fired(revival, IsHealthy)
  /\ UNCHANGED <<pages, frame, wire, session, clock, past>>

StabilityEnds ==
  /\ revival.stability = 0
  /\ revival' = Ended(revival)
  /\ UNCHANGED <<pages, frame, wire, session, clock, past>>

-----------------------------------------------------------------------------
(* The browser, its user and its clock.                                    *)

Hide(page, act) ==
  /\ act \in Env
  /\ pages' = [pages EXCEPT ![page] = TRUE]
  /\ past' = [past EXCEPT !.calm = 0, !.owed = IF page = "host" THEN 0 ELSE @]
  /\ UNCHANGED <<frame, wire, session, revival, clock>>

\* A page returns to view when it likes, even before the mount noticed that it was
\* hidden or handled what its frame reported of it.  InFlight bounds the flicker.
Show(page) ==
  /\ Len(wire) <= InFlight
  /\ pages' = [pages EXCEPT ![page] = FALSE]
  /\ past' = [past EXCEPT !.brief = IF page = "host" THEN HostUnaware \/ wire # <<>> ELSE @]
  /\ UNCHANGED <<frame, wire, session, revival, clock>>

HidePage == ~pages.host /\ Hide("host", "hide")
ShowPage == pages.host /\ Show("host")
HideOwn  == ~pages.inPage /\ ~pages.own /\ Hide("own", "hideOwn")
ShowOwn  == pages.own /\ Show("own")

\* What happens to the document: its main thread blocks or comes back, the
\* browser kills its process, the page removes the frame or the visitor closes
\* the window.
Fate(act, from, to) ==
  /\ act \in Env
  /\ frame.life \in from
  /\ frame' = [frame EXCEPT !.life = to]
  /\ past' = [past EXCEPT !.calm = 0, !.owed = 0]
  /\ UNCHANGED <<pages, wire, session, revival, clock>>

Stall   == Fate("stall", {"live"}, "stalled")
Recover == Fate("stall", {"stalled"}, "live")
Kill    == Fate("kill", {"live", "stalled"}, "dead")
Remove  == Fate("remove", {"live", "stalled", "dead"}, "removed")

\* The frame reloads itself and its new document handshakes on the same mount:
\* the close event of reason peer-reload.
Reload ==
  /\ "reload" \in Env /\ frame.life \in {"live", "stalled"}
  /\ frame' = [life |-> "connecting", said |-> FALSE]
  /\ wire' = <<>>
  /\ Observe([session EXCEPT !.monitor = Stop(@), !.peerHidden = FALSE], revival)
  /\ UNCHANGED <<pages, clock>>

\* Nothing due now is left undone: messages are handled within the unit, and
\* a timer is late only where the browser may slow it.
NothingOverdue ==
  /\ wire = <<>>
  /\ Unaware \cap clock.late = {}
  /\ "beat" \in clock.due => frame.life # "live" \/ FrameThrottled
  /\ "watch" \in clock.due => ~session.monitor.running \/ HostThrottled
  /\ revival.grace = 0 \/ revival.stability = 0 => HostThrottled

RunDown(c) == IF c > 0 THEN c - 1 ELSE c

Tick ==
  /\ NothingOverdue
  /\ revival' = [revival EXCEPT !.grace = RunDown(@), !.stability = RunDown(@)]
  /\ clock' = [due |-> {"beat", "watch"}, late |-> Unaware]
  /\ past' = [silent |-> Cap(past.silent, MissThreshold + 1),
              calm   |-> IF frame.life = "live" /\ ~FrameHidden /\ ~pages.host
                         THEN Cap(past.calm, KeptAfter) ELSE 0,
              sight  |-> IF session.monitor.running /\ session.monitor.observable
                         THEN Cap(past.sight, MissThreshold) ELSE 0,
              steady |-> IF frame.life # "none" THEN Cap(past.steady, Stable) ELSE 0,
              owed   |-> IF ~pages.host /\ (frame.life \in Lost \/ revival.held)
                         THEN Cap(past.owed, Patience + 1) ELSE 0,
              brief  |-> past.brief]
  /\ UNCHANGED <<pages, frame, wire, session>>

-----------------------------------------------------------------------------

Reopens == GraceReopens /\ frame'.life = "connecting"
Timers  == GraceReopens \/ GraceGivesUp \/ GraceWaits \/ StabilityEnds
Handshake == ConnectOpens \/ ConnectFails

Next ==
  \/ Beats \/ FrameSettles
  \/ Open \/ Handshake \/ Deliver \/ HostSettles \/ WatchTick \/ Timers
  \/ HidePage \/ ShowPage \/ HideOwn \/ ShowOwn
  \/ Stall \/ Recover \/ Kill \/ Remove \/ Reload
  \/ Tick

Spec == Init /\ [][Next]_vars

-----------------------------------------------------------------------------

TypeOK ==
  /\ pages \in [inPage : BOOLEAN, host : BOOLEAN, own : BOOLEAN]
  /\ frame \in [life : Life, said : BOOLEAN]
  /\ wire \in Seq({"beat", "hidden", "visible"})
  /\ session \in [selfHidden : BOOLEAN, peerHidden : BOOLEAN, monitor : Monitor]
  /\ revival \in Policy
  /\ clock \in [due : SUBSET {"beat", "watch"}, late : SUBSET {"host", "frame"}]
  /\ past \in Past

\* The revival never runs two of its clocks at once, nor holds an attempt beside
\* one: a stability window left running under a grace would refill the budget in
\* the middle of an episode, a second grace would replace a fresh mount.
OneClock ==
  /\ revival.grace # Off => revival.stability = Off /\ ~revival.held
  /\ revival.stability # Off => ~revival.held

\* 'healthy' is backed by a beat: a host is never told that a frame is healthy
\* which has been silent for longer than the miss budget, whichever page was
\* hidden meanwhile.
HealthyIsAlive == IsHealthy => past.silent <= MissThreshold

\* The verdict is never given on a frame that has been running in view for a
\* whole beat interval, nor on silence from before the watch resumed.
Suspects == session.monitor.state # "suspect" /\ session'.monitor.state = "suspect"
NoFalseVerdict ==
  [][ Suspects => past.calm = 0 /\ past.sight >= MissThreshold - 1 ]_vars

\* A reopen never replaces a frame that has been running in view for KeptAfter
\* units: by then the mount knows that it is in view, and has heard its beat.
LiveIsKept == [][ Reopens => frame.life # "live" \/ past.calm < KeptAfter ]_vars

\* An episode's budget is restored only by a session that stayed: a whole
\* stability window with no verdict in it, or a feature opened anew.
BudgetEarned ==
  [][ revival'.spent < revival.spent
        => past.steady >= Stable \/ frame.life = "none" \/ frame'.life = "none" ]_vars

\* A frame in the page that the browser killed or the page took out is replaced
\* or torn down within the poll, the miss budget and the grace of its episode,
\* counted from the page's return to view: neither the flags of a page whose
\* hiding the mount knew of, nor an attempt held for it, may keep the watchdog
\* blind.  Said only of a mount that had noticed the hiding and handled every
\* report when its page returned: after a briefer hiding the frame's last report
\* can stand for good, for no change of the host's own visibility clears it.
LostIsAnswered ==
  pages.inPage /\ frame.life \in Lost /\ ~past.brief
    => past.owed <= PollInterval + MissThreshold + Grace * Backoff ^ revival.spent
================================================================================
