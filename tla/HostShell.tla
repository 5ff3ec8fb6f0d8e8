------------------------------- MODULE HostShell -------------------------------
(***************************************************************************)
(* The host's shell handle (createShellHandle of libs/features): what an   *)
(* application does with it, the channel events and timers that reach it,  *)
(* and the request peers of the two ends of the session it carries.        *)
(*                                                                         *)
(* Both pages stay in view: visibility is FrameWatch's.  The revival's     *)
(* clocks are untimed here: they may fire whenever they are set.  The      *)
(* channel is the one NexusChannel models, reduced to the events its       *)
(* subscribers see; a message on an open channel is handled at once, one   *)
(* sent before that waits in the channel's queue.                          *)
(*                                                                         *)
(* The handle emits its events synchronously, and a subscriber may call it *)
(* back.  Where the closure goes on after the event, the action takes the  *)
(* call made inside it; anywhere else such a call is an action that        *)
(* follows.                                                                *)
(***************************************************************************)
EXTENDS Heartbeat, Revival, FiniteSets

CONSTANTS
  Policies,     \* onUnresponsive: emit, unmount, reopen, callback
  MaxMounts,    \* bound: mounts made over the life of the handle
  MaxReloads,   \* bound: documents the frames load after their first
  MaxAsks       \* bound: requests the host, and each document, makes

ASSUME ShellAssumption == /\ MaxMounts \in Nat /\ MaxReloads \in Nat /\ MaxAsks \in Nat
                          /\ Policies \subseteq {"emit", "unmount", "reopen", "callback"}

VARIABLES
  shell,    \* the closure of createShellHandle, with the current mount's channel
  feature,  \* the document in the mount, and its request peer
  answering,\* the host's handlers still computing an answer, and for whom
  said      \* history: the last call, whether a 'reopen' overruled it, and
            \* the answers that went astray
vars == <<shell, feature, answering, said>>

Options  == [policy : Policies, plugins : BOOLEAN]
NoOption == [policy |-> "none", plugins |-> FALSE]

\* The mount's channel: none yet or destroyed, handshaking, open, a polite close
\* under way, closed, or a handshake that was refused, cancelled or timed out.
Status == {"none", "connecting", "open", "closing", "closed", "failed"}

\* What a channel holds for its next open: a request of the host, or an answer
\* to one of a document of the frame.
Queued == [kind : {"ask"}, id : 1 .. MaxAsks, doc : {0}]
            \cup [kind : {"answer"}, id : 1 .. MaxAsks, doc : 1 .. MaxMounts + MaxReloads]

Shell ==
  [channel    : 0 .. MaxMounts,   \* the mount whose channel it is, 0 for null
   status     : Status,
   opened     : BOOLEAN,
   monitor    : BOOLEAN,          \* the handle knows the mount's watchdog
   watchdog   : Monitor,
   orphans    : SUBSET Policies,  \* watchdogs of earlier mounts still running
   concealed  : BOOLEAN,
   options    : Options \cup {NoOption},  \* of the current mount
   mounts     : 0 .. MaxMounts,   \* openCount
   cleanup    : 0 .. MaxMounts,   \* the mount whose release is kept, 0 for null
   dom        : SUBSET (1 .. MaxMounts), \* history: mounts not released yet
   plugins    : BOOLEAN,
   unmounting : {"no", "release", "cleanup"},  \* pendingUnmount, and its finish
   queuedOpen : Options \cup {NoOption},
   reviving   : BOOLEAN,
   revived    : Options \cup {NoOption},       \* the options a revival reopens with
   revival    : Policy,
   asks       : SUBSET ((1 .. MaxAsks) \X (1 .. MaxMounts)),  \* pending, by mount
   asked      : 0 .. MaxAsks,     \* nextCorrelation
   queue      : SUBSET Queued]

NewShell ==
  [channel |-> 0, status |-> "none", opened |-> FALSE, monitor |-> FALSE,
   watchdog |-> NewMonitor, orphans |-> {}, concealed |-> FALSE, options |-> NoOption,
   mounts |-> 0, cleanup |-> 0, dom |-> {}, plugins |-> FALSE, unmounting |-> "no",
   queuedOpen |-> NoOption, reviving |-> FALSE, revived |-> NoOption,
   revival |-> NewRevival, asks |-> {}, asked |-> 0, queue |-> {}]

\* A document of the frame: which one, its pending requests, those its channel
\* holds for the open, how many it made, and the host's it is answering.
NewDocument(n) == [doc |-> n, pending |-> {}, unsent |-> {}, asked |-> 0, working |-> {}]

Init ==
  /\ shell = NewShell
  /\ feature = NewDocument(0)
  /\ answering = {}
  /\ said = [call |-> "none", overruled |-> FALSE, astray |-> {}]

Active(s) == s.status \in {"open", "closing"}

\* The document of the channel is on the page: a mount that a call inside 'close'
\* made goes without its channel.
Framed(s) == s.channel # 0 /\ s.cleanup = s.channel

-----------------------------------------------------------------------------
(* The functions of the closure, each from shell record to shell record.   *)

RunCleanup(s) == [s EXCEPT !.cleanup = 0, !.dom = @ \ {s.cleanup}]

StopMonitor(s) ==
  IF s.monitor THEN [s EXCEPT !.monitor = FALSE, !.watchdog = Stop(@)] ELSE s

\* Mutant: the DOM is released only along with a channel.
ReleaseChannelAndCleanup_Channel(s) ==
  IF s.channel = 0
  THEN s
  ELSE RunCleanup([s EXCEPT !.channel = 0, !.status = "none", !.opened = FALSE,
                            !.queue = {}])

ReleaseChannelAndCleanup(s) ==
  RunCleanup([s EXCEPT !.channel = 0, !.status = "none", !.opened = FALSE, !.queue = {}])

StartUnmount(s, finish) == [s EXCEPT !.plugins = FALSE, !.unmounting = finish]

RejectAll(s) == [s EXCEPT !.asks = {}]

Teardown(s) ==
  LET t == [RejectAll(s) EXCEPT !.queuedOpen = NoOption]
      u == StopMonitor(t)
  IN  CASE s.unmounting # "no" -> t
        [] s.unmounting = "no" /\ s.plugins -> StartUnmount(u, "release")
        [] OTHER -> ReleaseChannelAndCleanup(u)

StandDown(s) ==
  [s EXCEPT !.reviving = FALSE, !.revived = NoOption, !.revival = NewRevival]

Destroy(s) == Teardown(StandDown(s))

\* Mutant: close() forgets the revival.
Close_Reviving(s) ==
  CASE s.channel = 0     -> RunCleanup(s)
    [] s.status = "open" -> [s EXCEPT !.status = "closing"]
    [] OTHER             -> s

\* A polite close of an open session, and nothing while it is still opening.
Close(s) ==
  LET t == StandDown(s)
  IN  CASE s.channel = 0    -> RunCleanup(t)
        [] s.status = "open" -> [t EXCEPT !.status = "closing"]
        [] OTHER            -> t

\* What mounting comes to: a frame, a window the browser refuses, or an error.
Outcomes == {"mounted", "refused", "throws"}

\* Mutant: a mount does not wait for the plugins of the one before.
MountFeature_Eager(s, o, outcome) ==
  LET t == Teardown(s)
      n == t.mounts + 1
      u == [t EXCEPT !.mounts = n, !.cleanup = n, !.dom = @ \cup {n},
                     !.orphans = IF t.watchdog.running THEN @ \cup {t.options.policy}
                                                       ELSE @,
                     !.watchdog = NewMonitor]
  IN  CASE outcome = "throws"  -> t
        [] outcome = "refused" -> StandDown(u)
        [] OTHER ->
             [u EXCEPT !.channel = n, !.status = "connecting",
                       !.plugins = o.plugins, !.options = o,
                       !.monitor = TRUE, !.concealed = FALSE]

\* mountFeature.  A watchdog still running here is one nobody will stop: the
\* handle stopped its own.
MountFeature(s, o, outcome) ==
  LET t == Teardown(s)
      n == t.mounts + 1
      u == [t EXCEPT !.mounts = n, !.cleanup = n, !.dom = @ \cup {n},
                     !.orphans = IF t.watchdog.running THEN @ \cup {t.options.policy}
                                                       ELSE @,
                     !.watchdog = NewMonitor]
  IN  CASE t.unmounting # "no"   -> [t EXCEPT !.queuedOpen = o]
        [] t.unmounting = "no" /\ outcome = "throws"  -> t
        [] t.unmounting = "no" /\ outcome = "refused" -> StandDown(u)
        [] OTHER ->
             [u EXCEPT !.channel = n, !.status = "connecting",
                       !.plugins = o.plugins, !.options = o,
                       !.monitor = TRUE, !.concealed = FALSE]

\* open(): the revival of its own that the policy asks for, and the mount.
Open(s, o, outcome) ==
  MountFeature([StandDown(s) EXCEPT
                  !.reviving = o.policy = "reopen",
                  !.revived = IF o.policy = "reopen" THEN o ELSE NoOption],
               o, outcome)

\* The calls a subscriber may make from inside an event.
Inner == [call : {"none", "close", "destroy"}, options : {NoOption}, outcome : {"mounted"}]
           \cup [call : {"open"}, options : Options, outcome : {"mounted", "refused"}]

Bounded(s, c) == c.call = "open" => s.mounts < MaxMounts

Within(s, c) ==
  CASE c.call = "none"    -> s
    [] c.call = "close"   -> Close(s)
    [] c.call = "destroy" -> Destroy(s)
    [] c.call = "open"    -> Open(s, c.options, c.outcome)

Called(h, call) == [h EXCEPT !.call = call, !.overruled = FALSE]

CalledWithin(h, c) == IF c.call = "none" THEN h ELSE Called(h, c.call)

\* applyUnresponsive, under the policy of the mount the verdict is about.
Apply(s, policy, gone) ==
  CASE policy \in {"emit", "callback"} -> s
    [] policy = "unmount" \/ (policy = "reopen" /\ gone) -> Destroy(s)
    [] OTHER -> IF s.reviving THEN [s EXCEPT !.revival = Schedule(@)] ELSE s

\* Mutant: a late conceal hides a frame that has beaten since.
Conceal_Late(s) == [s EXCEPT !.concealed = TRUE]

\* Hidden until it beats again; a frame that has already is left alone.
Conceal(s) == [s EXCEPT !.concealed = @ \/ s.watchdog.state # "healthy"]

-----------------------------------------------------------------------------
(* Calls of the application.                                               *)

\* A document is loaded by every mount; f is what the step makes of the last one.
Load(s, f) == IF s.mounts # shell.mounts /\ s.channel = s.mounts
              THEN NewDocument(f.doc + 1)
              ELSE f

OpenCall(o, outcome) ==
  /\ shell.mounts < MaxMounts
  /\ shell' = Open(shell, o, outcome)
  /\ feature' = Load(shell', feature)
  /\ said' = Called(said, "open")
  /\ UNCHANGED answering

\* close(), a dismiss signal of the feature, or the mount's own close control.
CloseCall ==
  /\ shell' = Close(shell)
  /\ said' = Called(said, "close")
  /\ UNCHANGED <<feature, answering>>

DestroyCall ==
  /\ shell' = Destroy(shell)
  /\ said' = Called(said, "destroy")
  /\ UNCHANGED <<feature, answering>>

\* A callback policy keeps its conceal() and may call it late.
ConcealCall ==
  /\ shell.options.policy = "callback" /\ shell.cleanup # 0
  /\ shell' = Conceal(shell)
  /\ UNCHANGED <<feature, answering, said>>

-----------------------------------------------------------------------------
(* Requests of either side.                                                *)

\* Mutant: a request without a channel waits for one.
HostAsks_Always ==
  /\ shell.asked < MaxAsks
  /\ LET id == shell.asked + 1
         s  == [shell EXCEPT !.asked = id, !.asks = @ \cup {<<id, shell.channel>>}]
     IN  shell' = [s EXCEPT !.queue = @ \cup {[kind |-> "ask", id |-> id, doc |-> 0]}]
  /\ UNCHANGED <<feature, answering, said>>

\* request(): rejected at once without a channel, sent or queued with one.
HostAsks ==
  /\ shell.channel # 0 /\ shell.asked < MaxAsks
  /\ LET id == shell.asked + 1
         s  == [shell EXCEPT !.asked = id, !.asks = @ \cup {<<id, shell.channel>>}]
     IN  IF shell.status = "open"
         THEN /\ shell' = s
              /\ feature' = [feature EXCEPT !.working = @ \cup {id}]
         ELSE /\ shell' = [s EXCEPT !.queue = @ \cup {[kind |-> "ask", id |-> id, doc |-> 0]}]
              /\ UNCHANGED feature
  /\ UNCHANGED <<answering, said>>

FeatureAnswers ==
  /\ Active(shell) /\ Framed(shell)
  /\ \E id \in feature.working :
       /\ feature' = [feature EXCEPT !.working = @ \ {id}]
       /\ shell' = [shell EXCEPT !.asks = {q \in @ : q[1] # id}]
       /\ said' = [said EXCEPT !.astray =
            IF \E q \in shell.asks : q[1] = id /\ q[2] # shell.channel
            THEN @ \cup {"host"} ELSE @]
  /\ UNCHANGED answering

HostTimesOut ==
  /\ \E q \in shell.asks : shell' = [shell EXCEPT !.asks = @ \ {q}]
  /\ UNCHANGED <<feature, answering, said>>

\* The feature's own peer: its ids start again with every document.
FeatureAsks ==
  /\ Framed(shell) /\ shell.status \in {"open", "connecting"}
  /\ feature.asked < MaxAsks
  /\ LET id == feature.asked + 1
         f  == [feature EXCEPT !.asked = id, !.pending = @ \cup {id}]
     IN  IF shell.status = "open"
         THEN /\ feature' = f
              /\ answering' = answering \cup {[id |-> id, doc |-> feature.doc]}
         ELSE /\ feature' = [f EXCEPT !.unsent = @ \cup {id}]
              /\ UNCHANGED answering
  /\ UNCHANGED <<shell, said>>

FeatureTimesOut ==
  /\ \E id \in feature.pending : feature' = [feature EXCEPT !.pending = @ \ {id}]
  /\ UNCHANGED <<shell, answering, said>>

\* An answer reaches the feature's peer, which knows it by its id alone.
Settled(f, ids) == [f EXCEPT !.pending = @ \ ids]
Astray(f, answers) ==
  IF \E w \in answers : w.id \in f.pending /\ w.doc # f.doc
  THEN [said EXCEPT !.astray = @ \cup {"feature"}]
  ELSE said

\* A handler of the host is done: its answer goes out on the channel of now.
HostAnswers ==
  \E w \in answering :
    /\ answering' = answering \ {w}
    /\ \/ /\ shell.status = "open"
          /\ feature' = Settled(feature, {w.id})
          /\ said' = Astray(feature, {w})
          /\ UNCHANGED shell
       \/ /\ shell.status # "open" /\ shell.channel # 0
          /\ shell' = [shell EXCEPT !.queue =
               @ \cup {[kind |-> "answer", id |-> w.id, doc |-> w.doc]}]
          /\ UNCHANGED <<feature, said>>
       \/ /\ shell.channel = 0
          /\ UNCHANGED <<shell, feature, said>>

-----------------------------------------------------------------------------
(* Events of the mount's channel.                                          *)

\* 'open': the document in the frame completes a handshake, be it one the shell
\* no longer waits for, and both ends flush what they queued.  The watchdog starts
\* after the event, be it one of a mount that a call inside it replaced.
OnOpen(c) ==
  /\ shell.status \in {"connecting", "failed"} /\ Framed(shell)
  /\ Bounded(shell, c)
  /\ LET s == [shell EXCEPT !.status = "open", !.opened = TRUE, !.queue = {},
                            !.revival = IF shell.reviving THEN Opened(@) ELSE @]
         t == Within(s, c)
     IN  shell' = IF t.mounts = s.mounts
                  THEN [t EXCEPT !.watchdog = Start(@), !.concealed = FALSE]
                  ELSE [t EXCEPT !.orphans = @ \cup {s.options.policy}]
  /\ LET asked    == {q.id : q \in {x \in shell.queue : x.kind = "ask"}}
         answered == {q \in shell.queue : q.kind = "answer"}
         f == [feature EXCEPT !.working = @ \cup asked, !.unsent = {}]
     IN  /\ feature' = Load(shell', Settled(f, {q.id : q \in answered}))
         /\ said' = CalledWithin(Astray(f, answered), c)
  /\ answering' = answering \cup {[id |-> i, doc |-> feature.doc] : i \in feature.unsent}

\* 'deny', a 'cancel' the feature sent, or the loss of a target before the open.
\* The 'error' of a denial comes before the teardown, which takes what a call
\* inside it mounted.
Refused(c) ==
  /\ shell.status = "connecting" /\ Bounded(shell, c)
  /\ shell' = Destroy(Within([shell EXCEPT !.status = "failed"], c))
  /\ feature' = Load(shell', feature)
  /\ said' = CalledWithin(said, c)
  /\ UNCHANGED answering

\* 'connect-timeout': the revival outlives the teardown.
TimesOut ==
  /\ shell.status = "connecting"
  /\ LET t == Teardown([shell EXCEPT !.status = "failed"])
     IN  shell' = IF t.reviving THEN [t EXCEPT !.revival = ConnectFailed(@)] ELSE t
  /\ UNCHANGED <<feature, answering, said>>

\* 'close': either side's, completed or timed out.  The mount of now goes with
\* it, a mount made inside the event included.
OnClose(c) ==
  /\ Active(shell) /\ Bounded(shell, c)
  /\ LET s == StandDown(RejectAll([shell EXCEPT !.status = "closed", !.opened = FALSE]))
         t == StopMonitor(Within(s, c))
     IN  shell' = CASE t.unmounting # "no" -> t
                    [] t.unmounting = "no" /\ t.plugins -> StartUnmount(t, "cleanup")
                    [] OTHER -> RunCleanup(t)
  /\ feature' = Load(shell', [feature EXCEPT !.pending = {}, !.working = {}])
  /\ said' = CalledWithin(Called(said, "close"), c)
  /\ UNCHANGED answering

\* Mutant: a reload leaves the handle open.
OnReload_Open ==
  /\ Active(shell) /\ Framed(shell) /\ feature.doc < shell.mounts + MaxReloads
  /\ feature' = NewDocument(feature.doc + 1)
  /\ shell' = RejectAll([shell EXCEPT !.status = "connecting", !.watchdog = Stop(@)])
  /\ UNCHANGED <<answering, said>>

\* Mutant: a reload leaves the requests of the document it replaces waiting.
OnReload_Waiting ==
  /\ Active(shell) /\ Framed(shell) /\ feature.doc < shell.mounts + MaxReloads
  /\ feature' = NewDocument(feature.doc + 1)
  /\ shell' = [shell EXCEPT !.status = "connecting", !.opened = FALSE,
                            !.watchdog = Stop(@)]
  /\ UNCHANGED <<answering, said>>

\* 'close' of reason peer-reload: the frame's next document handshakes on the
\* same mount, and only what belonged to the session is reset.
OnReload ==
  /\ Active(shell) /\ Framed(shell) /\ feature.doc < shell.mounts + MaxReloads
  /\ feature' = NewDocument(feature.doc + 1)
  /\ shell' = RejectAll([shell EXCEPT !.status = "connecting", !.opened = FALSE,
                                      !.watchdog = Stop(@)])
  /\ UNCHANGED <<answering, said>>

\* A frame without a session loads another document.  The channel stays ready
\* to answer its handshake, as long as the frame is on the page.
NextDocument ==
  /\ ~Active(shell) /\ Framed(shell)
  /\ feature.doc < shell.mounts + MaxReloads
  /\ feature' = NewDocument(feature.doc + 1)
  /\ shell' = [shell EXCEPT !.status = IF @ = "closed" THEN "failed" ELSE @]
  /\ UNCHANGED <<answering, said>>

\* The hooks of the plugins have settled.
FinishUnmount(outcome) ==
  /\ shell.unmounting # "no"
  /\ LET s == [IF shell.unmounting = "release" THEN ReleaseChannelAndCleanup(shell)
                                               ELSE RunCleanup(shell)
                 EXCEPT !.unmounting = "no", !.queuedOpen = NoOption]
     IN  IF shell.queuedOpen = NoOption
         THEN shell' = s
         ELSE /\ shell.mounts < MaxMounts \/ outcome = "throws"
              /\ shell' = MountFeature(s, shell.queuedOpen, outcome)
  /\ feature' = Load(shell', feature)
  /\ UNCHANGED <<answering, said>>

-----------------------------------------------------------------------------
(* The watchdog and the revival.                                           *)

OnBeat ==
  /\ Active(shell) /\ Framed(shell)
  /\ shell' = [shell EXCEPT !.watchdog = Beat(@),
                            !.concealed = @ /\ Beat(shell.watchdog).state # "healthy"]
  /\ UNCHANGED <<feature, answering, said>>

\* The verdict's 'error', or its callback, comes before the policy is applied.
WatchTick(gone, conceal, c) ==
  /\ shell.watchdog.running
  /\ shell.cleanup = 0 => gone
  /\ Bounded(shell, c)
  /\ c.call # "none" => Unresponsive(shell.watchdog)
  /\ LET s == [shell EXCEPT !.watchdog = Watched(@)]
         t == IF conceal THEN Conceal(s) ELSE s
     IN  shell' = IF Unresponsive(shell.watchdog)
                  THEN Apply(Within(t, c), shell.options.policy, gone)
                  ELSE s
  /\ feature' = Load(shell', feature)
  /\ said' = CalledWithin(said, c)
  /\ UNCHANGED answering

\* A watchdog whose mount was replaced hears no beats, and its frame is gone.
OrphanVerdict(c) ==
  /\ Bounded(shell, c)
  /\ \E p \in shell.orphans :
       shell' = Apply(Within([shell EXCEPT !.orphans = @ \ {p}], c), p, TRUE)
  /\ feature' = Load(shell', feature)
  /\ said' = CalledWithin(said, c)
  /\ UNCHANGED answering

IsHealthy == shell.monitor /\ shell.watchdog.state = "healthy"

\* The revival's grace.  What a call inside 'reopen' made of the handle, the mount
\* that follows overrules; a mount that throws is destroyed, and said so.
GraceFires(outcome, c) ==
  /\ shell.reviving /\ shell.revival.grace # Off
  /\ LET v == Verdict(shell.revival, IsHealthy)
         s == [shell EXCEPT !.revival = Fired(@, IsHealthy)]
         t == Within(s, c)
         u == MountFeature(t, shell.revived, outcome)
     IN  /\ c.call # "none" => v = "reopen"
         /\ Bounded(s, c)
         /\ CASE v = "reopen" ->
                   /\ t.mounts < MaxMounts \/ outcome = "throws"
                   /\ shell' = IF outcome = "throws" /\ u.unmounting = "no"
                               THEN Destroy(u) ELSE u
              [] v = "giveUp" -> shell' = Destroy(s)
              [] OTHER -> shell' = s
  /\ feature' = Load(shell', feature)
  /\ said' = [CalledWithin(said, c) EXCEPT !.overruled = @ \/ c.call \in {"close", "destroy"}]
  /\ UNCHANGED answering

StabilityEnds ==
  /\ shell.reviving /\ shell.revival.stability # Off
  /\ shell' = [shell EXCEPT !.revival = Ended(@)]
  /\ UNCHANGED <<feature, answering, said>>

-----------------------------------------------------------------------------

Calls == \/ \E o \in Options, r \in Outcomes : OpenCall(o, r)
         \/ CloseCall \/ DestroyCall \/ ConcealCall
Requests == \/ HostAsks \/ FeatureAnswers \/ HostTimesOut
            \/ FeatureAsks \/ FeatureTimesOut \/ HostAnswers
Events == \/ \E c \in Inner : OnOpen(c) \/ Refused(c) \/ OnClose(c)
          \/ TimesOut \/ OnReload \/ NextDocument \/ OnBeat
Timers == \/ \E gone, conceal \in BOOLEAN, c \in Inner : WatchTick(gone, conceal, c)
          \/ \E c \in Inner : OrphanVerdict(c)
          \/ \E r \in Outcomes, c \in Inner : GraceFires(r, c)
          \/ StabilityEnds
Unmounts == \E r \in Outcomes : FinishUnmount(r)

Next == Calls \/ Requests \/ Events \/ Timers \/ Unmounts

Spec == Init /\ [][Next]_vars

-----------------------------------------------------------------------------

TypeOK ==
  /\ shell \in Shell
  /\ feature \in [doc : 0 .. MaxMounts + MaxReloads, pending : SUBSET (1 .. MaxAsks),
                  unsent : SUBSET (1 .. MaxAsks), asked : 0 .. MaxAsks,
                  working : SUBSET (1 .. MaxAsks)]
  /\ answering \subseteq [id : 1 .. MaxAsks, doc : 0 .. MaxMounts + MaxReloads]
  /\ said \in [call : {"none", "open", "close", "destroy"}, overruled : BOOLEAN,
               astray : SUBSET {"host", "feature"}]

\* isOpen tells the truth, through reloads, closes that cross an unmount and
\* handshakes that complete late.
OpenIsActive == shell.opened <=> Active(shell)

\* No mount is left on the page: the only one not released is the one whose
\* release the handle keeps.
NothingLeaks == shell.dom = {shell.cleanup} \ {0}

\* While a mount's plugins are going, no other mount exists: what the unmount
\* releases when it ends is the mount it was begun for.
UnmountsAlone ==
  shell.unmounting # "no" => /\ ~shell.plugins /\ ~shell.monitor
                             /\ shell.cleanup \in {0, shell.mounts}

\* A frame that beats is never hidden, however late a callback conceals it.
ConcealedIsSilent == shell.concealed => shell.watchdog.state # "healthy"

\* While a session is open and its document on the page, each request the host
\* has pending is with that document, or queued for it: none waits for an answer
\* that a reload, a close or a new mount has made impossible.
AnswerComing ==
  Active(shell) /\ Framed(shell) =>
    \A q \in shell.asks :
      q[1] \in feature.working \/ [kind |-> "ask", id |-> q[1], doc |-> 0] \in shell.queue

\* After destroy(), and after a close, nothing is mounted until the application
\* opens the feature again: a revival's timer does not outlive them.  The one mount
\* it does not keep down is the mount a 'reopen' announces: a call from inside that
\* event comes too early to stop it, at once or when the plugins are done.
StaysDown ==
  [][ shell'.mounts # shell.mounts
        => \/ said'.call = "open"
           \/ said'.overruled /\ (~said.overruled \/ shell.queuedOpen # NoOption)
           \/ said.call = "close" /\ shell.queuedOpen # NoOption ]_vars

\* What shared/request.ts says of a correlation id: it pairs a response with the
\* request that caused it.
AnswersPair == said.astray = {}
================================================================================
