--------------------------- MODULE FrameWatch_proofs ---------------------------
(***************************************************************************)
(* Theorems about FrameWatch, for any reopen policy and any fates of the   *)
(* frame and its pages.                                                    *)
(*                                                                         *)
(* The watchdog and the policy are records their operators transform: the  *)
(* lemmas on those operators are Revival_proofs'.  Here is one per action, *)
(* and a second one for the invariant that says what a frame in view, and  *)
(* a lost one, are known by.                                               *)
(***************************************************************************)
EXTENDS FrameWatch, Revival_proofs

-----------------------------------------------------------------------------
(* The inductive invariant.                                                *)

Due(timer)  == IF timer \in clock.due THEN 1 ELSE 0
BeatInWire  == \E i \in DOMAIN wire : wire[i] = "beat"

\* The beat of this unit was sent, and it has been handled.
Heard == "beat" \notin clock.due /\ ~BeatInWire

\* What a mount's watchdog is told, and when it is healthy.
Told(s) == /\ s.monitor.observable <=> Observing(s)
           /\ s.monitor.state = "healthy" => s.monitor.running /\ s.monitor.observable

Watching == /\ Told(session)
            /\ frame.life = "none" => session = NewSession /\ wire = <<>>
            /\ frame.life = "connecting" => ~session.monitor.running

\* The misses a watchdog has counted, against the history p: `watch' is 1 while
\* the tick of this unit is still to come.
Budget(m, p, watch, heard, flying) ==
  /\ flying => p.silent = 0
  /\ m.state = "healthy" => m.missed < MissThreshold /\ p.silent <= m.missed + watch
  /\ m.running => /\ heard => m.missed + watch <= 1
                  /\ p.calm > 0 => m.missed + watch < MissThreshold
                  /\ m.observable => m.missed <= p.sight + 1 - watch

Counted == Budget(session.monitor, past, Due("watch"), Heard, BeatInWire)

\* A stability window measures the session it was opened for.
Measured == frame.life # "none" /\ revival.stability # Off
              => past.steady + revival.stability >= Stable

IInv == TypeOK /\ OneClock /\ Watching /\ Counted /\ Measured

-----------------------------------------------------------------------------
(* Clocks.                                                                 *)

\* A clock that runs down stays set, or not set.
LEMMA RunDownType ==
  ASSUME NEW c \in Clock
  PROVE  /\ RunDown(c) \in Clock
         /\ RunDown(c) # Off <=> c # Off
         /\ RunDown(c) >= c - 1
BY DEF RunDown, Clock, Off

-----------------------------------------------------------------------------
(* Sessions and histories.                                                 *)

SessionType == [selfHidden : BOOLEAN, peerHidden : BOOLEAN, monitor : Monitor]
FrameType   == [life : Life, said : BOOLEAN]
ClockType   == [due : SUBSET {"beat", "watch"}, late : SUBSET {"host", "frame"}]
PagesType   == [inPage : BOOLEAN, host : BOOLEAN, own : BOOLEAN]

LEMMA Parts ==
  ASSUME IInv
  PROVE  /\ pages \in PagesType /\ frame \in FrameType /\ clock \in ClockType
         /\ wire \in Seq({"beat", "hidden", "visible"})
         /\ session \in SessionType /\ session.monitor \in Monitor
         /\ revival \in Policy /\ Single(revival)
         /\ past \in Past
         /\ Watching /\ Told(session) /\ Counted /\ Measured
BY DEF IInv, TypeOK, OneClock, Single, Watching, SessionType, FrameType, ClockType, PagesType

LEMMA Whole ==
  ASSUME pages' \in PagesType, frame' \in FrameType, clock' \in ClockType,
         wire' \in Seq({"beat", "hidden", "visible"}), session' \in SessionType,
         revival' \in Policy, Single(revival'), past' \in Past,
         Watching', Counted', Measured'
  PROVE  IInv'
<1>1. TypeOK'
  BY DEF TypeOK, SessionType, FrameType, ClockType, PagesType
<1>2. OneClock'
  BY DEF OneClock, Single
<1>3. QED
  BY <1>1, <1>2 DEF IInv

LEMMA PatienceType == Patience \in Nat
<1>1. Attempts \in 0 .. Attempts
  BY PolicyAssumption
<1>2. Grace * Backoff ^ Attempts \in Nat
  BY <1>1, GraceAssumption
<1>3. QED
  BY <1>2 DEF Patience, PollInterval, MissThreshold

LEMMA CapType ==
  ASSUME NEW b \in Nat, NEW n \in 0 .. b
  PROVE  /\ Cap(n, b) \in 0 .. b /\ Cap(n, b) <= n + 1
         /\ Cap(n, b) = n + 1 \/ (n = b /\ Cap(n, b) = b)
BY DEF Cap

\* A history is a record of five counts and a flag.
LEMMA PastFields ==
  ASSUME NEW p \in Past
  PROVE  /\ p.silent \in 0 .. MissThreshold + 1 /\ p.calm \in 0 .. KeptAfter
         /\ p.sight \in 0 .. MissThreshold /\ p.steady \in 0 .. Stable
         /\ p.owed \in 0 .. Patience + 1 /\ p.brief \in BOOLEAN
         /\ p.silent \in Nat /\ p.calm \in Nat /\ p.sight \in Nat /\ p.steady \in Nat
BY PolicyAssumption DEF Past, MissThreshold, KeptAfter

LEMMA NoPastType ==
  /\ NoPast \in Past
  /\ NoPast.silent = 0 /\ NoPast.calm = 0 /\ NoPast.sight = 0 /\ NoPast.steady = 0
<1>1. /\ 0 \in 0 .. MissThreshold + 1 /\ 0 \in 0 .. KeptAfter /\ 0 \in 0 .. MissThreshold
      /\ 0 \in 0 .. Stable /\ 0 \in 0 .. Patience + 1
  BY PolicyAssumption, PatienceType DEF MissThreshold, KeptAfter
<1>2. QED
  BY <1>1 DEF NoPast, Past

LEMMA NewSessionType ==
  /\ NewSession \in SessionType /\ NewSession.monitor = NewMonitor
  /\ ~NewMonitor.running /\ NewMonitor.state = "gone" /\ NewMonitor.observable
  /\ Told(NewSession)
<1>1. ~NewMonitor.running /\ NewMonitor.state = "gone" /\ NewMonitor.observable
  BY DEF NewMonitor
<1>2. NewSession \in SessionType /\ NewSession.monitor = NewMonitor
  BY NewMonitorType DEF NewSession, SessionType
<1>3. Observing(NewSession)
  BY DEF NewSession, Observing
<1>4. QED
  BY <1>1, <1>2, <1>3 DEF Told

\* Telling the watchdog and the policy what the mount observes.
LEMMA ObserveType ==
  ASSUME NEW s \in SessionType, NEW r \in Policy, Single(r), past \in Past, Observe(s, r),
         s.monitor.state = "healthy" => s.monitor.running /\ s.monitor.observable
  PROVE  /\ session' \in SessionType
         /\ session'.selfHidden = s.selfHidden /\ session'.peerHidden = s.peerHidden
         /\ session'.monitor = SetObservable(s.monitor, Observing(s))
         /\ Told(session')
         /\ session'.monitor.running = s.monitor.running
         /\ revival' \in Policy /\ Single(revival')
         /\ revival'.stability = r.stability /\ revival'.spent = r.spent
         /\ past' \in Past
         /\ past'.silent = past.silent /\ past'.calm = past.calm
         /\ past'.steady = past.steady
         /\ Observing(s) => past'.sight = past.sight
<1> DEFINE seen == Observing(s)
           m == SetObservable(s.monitor, seen)
           n == IF seen THEN past.sight ELSE 0
<1>1. seen \in BOOLEAN /\ s.monitor \in Monitor
  BY DEF Observing, SessionType
<1>2. /\ m \in Monitor /\ m.running = s.monitor.running /\ m.observable = seen
      /\ m.state \in {s.monitor.state, "unobservable"}
      /\ s.monitor.running /\ s.monitor.observable /\ ~seen => m.state = "unobservable"
  BY <1>1, SetObservableType
<1>3. session' = [s EXCEPT !.monitor = m]
  BY DEF Observe, SessionType
<1>4. revival' = SetJudgeable(r, seen)
  BY DEF Observe
<1>5. /\ revival' \in Policy /\ Single(revival')
      /\ revival'.stability = r.stability /\ revival'.spent = r.spent
  BY <1>1, <1>4, SetJudgeableType
<1>6. n \in 0 .. MissThreshold
  BY PastFields DEF MissThreshold
<1>7. past' = [past EXCEPT !.sight = n]
  BY DEF Observe, Past
<1>8. seen => n = past.sight
  OBVIOUS
<1> HIDE DEF n, m
<1>9. /\ past' \in Past
      /\ past'.silent = past.silent /\ past'.calm = past.calm
      /\ past'.steady = past.steady /\ past'.sight = n
  BY <1>6, <1>7 DEF Past
<1>10. /\ session' \in SessionType /\ session'.monitor = m
       /\ session'.selfHidden = s.selfHidden /\ session'.peerHidden = s.peerHidden
  BY <1>2, <1>3 DEF SessionType
<1>11. Observing(session') <=> Observing(s)
  BY <1>10 DEF Observing
<1>12. Told(session')
  BY <1>2, <1>10, <1>11 DEF Told
<1>13. QED
  BY <1>2, <1>5, <1>8, <1>9, <1>10, <1>12 DEF m

\* What is observed only resets the misses, or ends the health they speak of.
LEMMA ObserveBudget ==
  ASSUME NEW m \in Monitor, NEW seen \in BOOLEAN, NEW p \in Past, NEW q \in Past,
         NEW watch \in {0, 1}, NEW heard \in BOOLEAN, NEW flying \in BOOLEAN,
         m.state = "healthy" => m.running /\ m.observable,
         q.silent = p.silent, q.calm = p.calm, seen => q.sight = p.sight,
         Budget(m, p, watch, heard, flying)
  PROVE  Budget(SetObservable(m, seen), q, watch, heard, flying)
<1> DEFINE n == SetObservable(m, seen)
<1>1. /\ n \in Monitor /\ n.running = m.running /\ n.observable = seen
      /\ n.missed \in {0, m.missed}
      /\ m.running /\ seen /\ ~m.observable => n.missed = 0
      /\ n.state \in {m.state, "unobservable"}
      /\ m.running /\ m.observable /\ ~seen => n.state = "unobservable"
  BY SetObservableType
<1>2. n.state = "healthy" => m.observable /\ seen
  BY <1>1
<1>3. m.observable /\ seen => n = m
  BY DEF SetObservable, Monitor
<1> HIDE DEF n
<1>4. m.missed \in Nat /\ n.missed <= m.missed /\ n.missed \in Nat
  BY <1>1 DEF Monitor, MissThreshold
<1>5. /\ p.silent \in Nat /\ p.calm \in Nat /\ p.sight \in Nat
      /\ q.silent \in Nat /\ q.calm \in Nat /\ q.sight \in Nat
  BY PastFields
<1>6. n.state = "healthy" => n.missed < MissThreshold /\ q.silent <= n.missed + watch
  BY <1>1, <1>2, <1>3 DEF Budget
<1>7. ASSUME n.running
      PROVE  /\ heard => n.missed + watch <= 1
             /\ q.calm > 0 => n.missed + watch < MissThreshold
             /\ n.observable => n.missed <= q.sight + 1 - watch
  BY <1>1, <1>3, <1>4, <1>5, <1>7 DEF Budget, MissThreshold
<1>8. QED
  BY <1>6, <1>7 DEF Budget, n

-----------------------------------------------------------------------------
(* The actions.                                                            *)

\* A message appended to those in flight, and the oldest one taken off.
LEMMA WireAppend ==
  ASSUME wire \in Seq({"beat", "hidden", "visible"}), NEW x \in {"beat", "hidden", "visible"},
         wire' = Append(wire, x)
  PROVE  /\ wire' \in Seq({"beat", "hidden", "visible"})
         /\ x = "beat" => BeatInWire'
         /\ x # "beat" => (BeatInWire' <=> BeatInWire)
<1>1. wire' \in Seq({"beat", "hidden", "visible"})
  OBVIOUS
<1>2. /\ Len(wire') = Len(wire) + 1 /\ wire'[Len(wire) + 1] = x
      /\ \A i \in 1 .. Len(wire) : wire'[i] = wire[i]
      /\ DOMAIN wire = 1 .. Len(wire) /\ DOMAIN wire' = 1 .. (Len(wire) + 1)
      /\ Len(wire) \in Nat
  OBVIOUS
<1>3. BeatInWire' <=> (BeatInWire \/ x = "beat")
  BY <1>2 DEF BeatInWire
<1>4. QED
  BY <1>1, <1>3

LEMMA WireTail ==
  ASSUME wire \in Seq({"beat", "hidden", "visible"}), wire # <<>>, wire' = Tail(wire)
  PROVE  /\ wire' \in Seq({"beat", "hidden", "visible"})
         /\ Head(wire) \in {"beat", "hidden", "visible"}
         /\ BeatInWire' => BeatInWire
         /\ Head(wire) = "beat" => BeatInWire
         /\ Head(wire) # "beat" => (BeatInWire' <=> BeatInWire)
<1>1. /\ wire' \in Seq({"beat", "hidden", "visible"})
      /\ Head(wire) = wire[1] /\ Head(wire) \in {"beat", "hidden", "visible"}
  OBVIOUS
<1>2. /\ Len(wire) \in Nat /\ Len(wire) >= 1 /\ Len(wire') = Len(wire) - 1
      /\ \A i \in 1 .. (Len(wire) - 1) : wire'[i] = wire[i + 1]
      /\ DOMAIN wire = 1 .. Len(wire) /\ DOMAIN wire' = 1 .. (Len(wire) - 1)
  OBVIOUS
<1>3. BeatInWire' => BeatInWire
  BY <1>2 DEF BeatInWire
<1>4. Head(wire) = "beat" => BeatInWire
  BY <1>1, <1>2 DEF BeatInWire
<1>5. ASSUME Head(wire) # "beat", BeatInWire PROVE BeatInWire'
  <2>1. PICK i \in 1 .. Len(wire) : wire[i] = "beat"
    BY <1>2, <1>5 DEF BeatInWire
  <2>2. i # 1
    BY <1>1, <1>5, <2>1
  <2>3. i - 1 \in 1 .. (Len(wire) - 1) /\ wire'[i - 1] = wire[(i - 1) + 1]
    BY <1>2, <2>1, <2>2
  <2>4. wire'[i - 1] = "beat"
    BY <2>1, <2>3
  <2>5. QED
    BY <1>2, <2>3, <2>4 DEF BeatInWire
<1>6. QED
  BY <1>1, <1>3, <1>4, <1>5

LEMMA NothingFlies == wire = <<>> => ~BeatInWire
BY DEF BeatInWire

LEMMA WatchingNew ==
  ASSUME session' \in SessionType, Told(session'), frame'.life \notin {"none", "connecting"}
  PROVE  Watching'
BY DEF Watching

\* A step that leaves the session and the counts alone.
LEMMA SameCounts ==
  ASSUME Counted, UNCHANGED <<session, wire>>, clock'.due = clock.due,
         past'.silent = past.silent, past'.sight = past.sight,
         past'.calm = past.calm \/ past'.calm = 0
  PROVE  Counted'
<1>1. Due("watch")' = Due("watch") /\ Heard' = Heard /\ BeatInWire' = BeatInWire
  BY DEF Due, Heard, BeatInWire
<1>2. QED
  BY <1>1 DEF Counted, Budget

LEMMA BeatsKeeps ==
  ASSUME IInv, Beats
  PROVE  IInv'
<1>1. /\ wire' = Append(wire, "beat") /\ frame.life = "live"
      /\ clock' = [clock EXCEPT !.due = @ \ {"beat"}]
      /\ past' = [past EXCEPT !.silent = 0]
      /\ UNCHANGED <<pages, frame, session, revival>>
  BY DEF Beats
<1>2. wire' \in Seq({"beat", "hidden", "visible"}) /\ BeatInWire'
  BY <1>1, Parts, WireAppend
<1>3. clock' \in ClockType /\ Due("watch")' = Due("watch")
  BY <1>1, Parts DEF ClockType, Due
<1>4. past' \in Past
  <2>1. 0 \in 0 .. MissThreshold + 1
    BY DEF MissThreshold
  <2>2. QED
    BY <1>1, <2>1, Parts DEF Past
<1>5. /\ past'.silent = 0 /\ past'.sight = past.sight /\ past'.calm = past.calm
      /\ past'.steady = past.steady
  BY <1>1, Parts DEF Past
<1>6. Watching'
  BY <1>1, Parts DEF Watching
<1>7. Counted'
  <2>1. ~Heard'
    BY <1>2 DEF Heard
  <2>2. session.monitor.missed \in Nat /\ Due("watch") \in {0, 1}
    BY Parts DEF Monitor, MissThreshold, Due
  <2>3. Budget(session.monitor, past, Due("watch"), Heard, BeatInWire)
    BY Parts DEF Counted
  <2>4. Budget(session.monitor, past', Due("watch"), FALSE, TRUE)
    BY <1>5, <2>2, <2>3 DEF Budget
  <2>5. QED
    BY <1>1, <1>2, <1>3, <2>1, <2>4 DEF Counted, Budget
<1>8. Measured'
  BY <1>1, <1>5, Parts DEF Measured
<1>9. pages' \in PagesType /\ frame' \in FrameType /\ session' \in SessionType
      /\ revival' \in Policy /\ Single(revival')
  BY <1>1, Parts
<1>10. QED
  BY <1>2, <1>3, <1>4, <1>6, <1>7, <1>8, <1>9, Whole

LEMMA FrameSettlesKeeps ==
  ASSUME IInv, FrameSettles
  PROVE  IInv'
<1> DEFINE x == IF FrameHidden THEN "hidden" ELSE "visible"
<1>1. /\ frame.life = "live" /\ frame' = [frame EXCEPT !.said = FrameHidden]
      /\ wire' = Append(wire, x)
      /\ clock' = [clock EXCEPT !.late = @ \ {"frame"}]
      /\ UNCHANGED <<pages, session, revival, past>>
  BY DEF FrameSettles, FrameUnaware
<1>2. FrameHidden \in BOOLEAN
  BY Parts DEF FrameHidden, PagesType
<1>3. x \in {"hidden", "visible"}
  OBVIOUS
<1> HIDE DEF x
<1>4. /\ wire' \in Seq({"beat", "hidden", "visible"})
      /\ BeatInWire' <=> BeatInWire
  BY <1>1, <1>3, Parts, WireAppend
<1>5. frame' \in FrameType /\ frame'.life = "live"
  BY <1>1, <1>2, Parts DEF FrameType
<1>6. clock' \in ClockType /\ clock'.due = clock.due
  BY <1>1, Parts DEF ClockType
<1>7. Due("watch")' = Due("watch") /\ (Heard' <=> Heard)
  BY <1>4, <1>6 DEF Due, Heard
<1>8. Counted'
  BY <1>1, <1>4, <1>7, Parts DEF Counted, Budget
<1>9. Watching' /\ Measured'
  BY <1>1, <1>5, Parts DEF Watching, Measured
<1>10. QED
  BY <1>1, <1>4, <1>5, <1>6, <1>8, <1>9, Parts, Whole

\* A fresh mount's watchdog is not running, whatever the page is.
LEMMA MountKeeps ==
  ASSUME IInv, NEW r \in Policy, Single(r), r.stability = Off, Mount(r),
         UNCHANGED <<pages, clock>>
  PROVE  IInv'
<1> DEFINE z == [NewSession EXCEPT !.selfHidden = pages.host]
<1>1. frame' = [life |-> "connecting", said |-> FALSE] /\ wire' = <<>> /\ Observe(z, r)
  BY DEF Mount
<1>2. z \in SessionType /\ z.monitor = NewMonitor
  BY NewSessionType, Parts DEF SessionType, PagesType
<1> HIDE DEF z
<1>3. z.monitor.state # "healthy" /\ ~z.monitor.running
  BY <1>2, NewSessionType
<1>4. /\ session' \in SessionType /\ Told(session') /\ ~session'.monitor.running
      /\ revival' \in Policy /\ Single(revival') /\ revival'.stability = Off
      /\ past' \in Past
  BY <1>1, <1>2, <1>3, Parts, ObserveType
<1>5. session'.monitor.state # "healthy"
  BY <1>4 DEF Told
<1>6. ~BeatInWire'
  BY <1>1 DEF BeatInWire
<1>7. frame' \in FrameType /\ frame'.life = "connecting"
  BY <1>1 DEF FrameType, Life
<1>8. Watching'
  BY <1>4, <1>7 DEF Watching
<1>9. Counted'
  BY <1>4, <1>5, <1>6 DEF Counted, Budget
<1>10. Measured'
  BY <1>4 DEF Measured
<1>11. wire' \in Seq({"beat", "hidden", "visible"})
  BY <1>1
<1>12. QED
  BY <1>4, <1>7, <1>8, <1>9, <1>10, <1>11, Parts, Whole

LEMMA UnmountKeeps ==
  ASSUME IInv, NEW r \in Policy, Single(r), Unmount(r),
         pages' = pages, clock' \in ClockType
  PROVE  IInv'
<1>1. /\ frame' = [life |-> "none", said |-> FALSE] /\ wire' = <<>>
      /\ session' = NewSession /\ revival' = r /\ past' = NoPast
  BY DEF Unmount
<1>2. frame' \in FrameType /\ frame'.life = "none"
  BY <1>1 DEF FrameType, Life
<1>3. ~BeatInWire'
  BY <1>1 DEF BeatInWire
<1>4. Watching' /\ Measured'
  BY <1>1, <1>2, NewSessionType DEF Watching, Measured
<1>5. Counted'
  BY <1>1, <1>3, NewSessionType DEF Counted, Budget
<1>6. wire' \in Seq({"beat", "hidden", "visible"})
  BY <1>1
<1>7. QED
  BY <1>1, <1>2, <1>4, <1>5, <1>6, NewSessionType, NoPastType, Parts, Whole

LEMMA OpenKeeps ==
  ASSUME IInv, Open
  PROVE  IInv'
BY NewRevivalType, MountKeeps DEF Open

LEMMA ConnectFailsKeeps ==
  ASSUME IInv, ConnectFails
  PROVE  IInv'
<1>1. ConnectFailed(revival) \in Policy /\ Single(ConnectFailed(revival))
  BY Parts, ConnectFailedType
<1>2. clock' \in ClockType
  BY Parts DEF ConnectFails
<1>3. QED
  BY <1>1, <1>2, UnmountKeeps DEF ConnectFails

LEMMA GraceReopensKeeps ==
  ASSUME IInv, GraceReopens
  PROVE  IInv'
<1>1. /\ revival.grace = 0 /\ Verdict(revival, IsHealthy) = "reopen"
      /\ Mount(Fired(revival, FALSE)) \/ Unmount(NewRevival)
      /\ UNCHANGED <<pages, clock>>
  BY DEF GraceReopens
<1>2. ~IsHealthy
  BY <1>1 DEF Verdict
<1>3. Verdict(revival, FALSE) = "reopen" /\ revival.grace # Off
  BY <1>1, <1>2, OffIsNone DEF Verdict
<1>4. /\ Fired(revival, FALSE) \in Policy /\ Single(Fired(revival, FALSE))
      /\ Fired(revival, FALSE).stability = Off
  BY <1>1, <1>3, Parts, FiredType
<1>5. clock' \in ClockType
  BY <1>1, Parts
<1>6. QED
  BY <1>1, <1>4, <1>5, MountKeeps, UnmountKeeps, NewRevivalType

LEMMA GraceGivesUpKeeps ==
  ASSUME IInv, GraceGivesUp
  PROVE  IInv'
<1>1. clock' \in ClockType
  BY Parts DEF GraceGivesUp
<1>2. QED
  BY <1>1, UnmountKeeps, NewRevivalType DEF GraceGivesUp

LEMMA GraceWaitsKeeps ==
  ASSUME IInv, GraceWaits
  PROVE  IInv'
<1>1. /\ revival.grace = 0 /\ revival' = Fired(revival, IsHealthy)
      /\ UNCHANGED <<pages, frame, wire, session, clock, past>>
  BY DEF GraceWaits
<1>2. IsHealthy \in BOOLEAN
  BY DEF IsHealthy
<1>3. revival' \in Policy /\ Single(revival') /\ revival'.stability \in {Off, Stable}
  BY <1>1, <1>2, Parts, FiredType, OffIsNone
<1>4. Watching'
  BY <1>1, Parts DEF Watching
<1>5. Counted'
  BY <1>1, SameCounts, Parts
<1>6. past'.steady \in Nat
  BY <1>1, Parts, PastFields
<1>7. Measured'
  BY <1>3, <1>6, PolicyAssumption DEF Measured
<1>8. QED
  BY <1>1, <1>3, <1>4, <1>5, <1>7, Parts, Whole

LEMMA StabilityEndsKeeps ==
  ASSUME IInv, StabilityEnds
  PROVE  IInv'
<1>1. revival' = Ended(revival) /\ UNCHANGED <<pages, frame, wire, session, clock, past>>
  BY DEF StabilityEnds
<1>2. revival' \in Policy /\ Single(revival') /\ revival'.stability = Off
  BY <1>1, Parts, EndedType
<1>3. Watching'
  BY <1>1, Parts DEF Watching
<1>4. Counted'
  BY <1>1, SameCounts, Parts
<1>5. Measured'
  BY <1>2 DEF Measured
<1>6. QED
  BY <1>1, <1>2, <1>3, <1>4, <1>5, Parts, Whole

LEMMA ConnectOpensKeeps ==
  ASSUME IInv, ConnectOpens
  PROVE  IInv'
<1> DEFINE x == IF FrameHidden THEN "hidden" ELSE "visible"
           m == Start(session.monitor)
<1>1. /\ frame.life = "connecting"
      /\ frame' = [life |-> "live", said |-> FrameHidden]
      /\ wire' = <<x>>
      /\ session' = [session EXCEPT !.monitor = m]
      /\ revival' = Opened(revival)
      /\ clock' = [clock EXCEPT !.due = {}]
      /\ past' = NoPast
      /\ pages' = pages
  BY Parts DEF ConnectOpens, SessionType
<1>2. ~session.monitor.running
  BY <1>1, Parts DEF Watching
<1>3. /\ m \in Monitor /\ m.running /\ m.observable = session.monitor.observable
      /\ m.missed = 0 /\ m.state = IF session.monitor.observable THEN "healthy" ELSE "unobservable"
  BY <1>2, Parts, StartType
<1>4. FrameHidden \in BOOLEAN
  BY Parts DEF FrameHidden, PagesType
<1>5. x \in {"hidden", "visible"}
  OBVIOUS
<1> HIDE DEF x, m
<1>6. wire' \in Seq({"beat", "hidden", "visible"}) /\ ~BeatInWire'
  BY <1>1, <1>5 DEF BeatInWire
<1>7. frame' \in FrameType /\ frame'.life = "live"
  BY <1>1, <1>4 DEF FrameType, Life
<1>8. /\ session' \in SessionType /\ session'.monitor = m
      /\ session'.selfHidden = session.selfHidden /\ session'.peerHidden = session.peerHidden
  BY <1>1, <1>3, Parts DEF SessionType
<1>9. Told(session')
  <2>1. Observing(session') <=> Observing(session)
    BY <1>8 DEF Observing
  <2>2. session.monitor.observable <=> Observing(session)
    BY Parts DEF Told
  <2>3. QED
    BY <1>3, <1>8, <2>1, <2>2 DEF Told
<1>10. Watching'
  BY <1>7, <1>9 DEF Watching
<1>11. clock' \in ClockType /\ clock'.due = {}
  BY <1>1, Parts DEF ClockType
<1>12. Counted'
  <2>1. Due("watch")' = 0
    BY <1>11 DEF Due
  <2>2. QED
    BY <1>1, <1>3, <1>6, <1>8, <2>1, NoPastType DEF Counted, Budget, MissThreshold
<1>13. /\ revival' \in Policy /\ Single(revival') /\ revival'.stability = Stable
  BY <1>1, Parts, OpenedType
<1>14. Measured'
  BY <1>1, <1>13, NoPastType, PolicyAssumption DEF Measured
<1>15. QED
  BY <1>1, <1>6, <1>7, <1>8, <1>10, <1>11, <1>12, <1>13, <1>14, NoPastType, Parts, Whole

LEMMA DueType == Due("watch") \in {0, 1}
BY DEF Due

\* What the mount observes changes: the session keeps its watchdog, the wire may
\* lose a message that was no beat.
LEMMA ObserveKeeps ==
  ASSUME IInv, NEW s \in SessionType, s.monitor = session.monitor, Observe(s, revival),
         wire' \in Seq({"beat", "hidden", "visible"}), BeatInWire' <=> BeatInWire,
         frame.life # "none", UNCHANGED <<pages, frame>>,
         clock' \in ClockType, clock'.due = clock.due
  PROVE  IInv'
<1>1. Told(session) /\ past \in Past /\ session.monitor \in Monitor
  BY Parts
<1>2. /\ session' \in SessionType /\ Told(session')
      /\ session'.monitor = SetObservable(session.monitor, Observing(s))
      /\ session'.monitor.running = session.monitor.running
      /\ revival' \in Policy /\ Single(revival')
      /\ revival'.stability = revival.stability
      /\ past' \in Past
      /\ past'.silent = past.silent /\ past'.calm = past.calm
      /\ past'.steady = past.steady
      /\ Observing(s) => past'.sight = past.sight
  BY <1>1, Parts, ObserveType DEF Told
<1>3. Watching'
  BY <1>2, Parts DEF Watching
<1>4. Observing(s) \in BOOLEAN /\ Heard \in BOOLEAN /\ BeatInWire \in BOOLEAN
  BY DEF Observing, Heard, BeatInWire
<1>5. Budget(session'.monitor, past', Due("watch"), Heard, BeatInWire)
  BY <1>1, <1>2, <1>4, Parts, DueType, ObserveBudget DEF Counted, Told
<1>6. Due("watch")' = Due("watch") /\ (Heard' <=> Heard)
  BY DEF Due, Heard
<1>7. Counted'
  BY <1>5, <1>6 DEF Counted, Budget
<1>8. Measured'
  BY <1>2, Parts DEF Measured
<1>9. QED
  BY <1>2, <1>3, <1>7, <1>8, Parts, Whole

LEMMA DeliverKeeps ==
  ASSUME IInv, Deliver
  PROVE  IInv'
<1>1. /\ wire # <<>> /\ wire' = Tail(wire) /\ UNCHANGED <<pages, frame, clock>>
  BY DEF Deliver
<1>2. frame.life # "none"
  BY <1>1, Parts DEF Watching
<1>3. /\ wire' \in Seq({"beat", "hidden", "visible"})
      /\ BeatInWire' => BeatInWire
      /\ Head(wire) = "beat" => BeatInWire
      /\ Head(wire) # "beat" => (BeatInWire' <=> BeatInWire)
  BY <1>1, Parts, WireTail
<1>4. clock' \in ClockType /\ clock'.due = clock.due
  BY <1>1, Parts
<1>5. CASE Head(wire) = "beat"
  <2> DEFINE m == Beat(session.monitor)
  <2>1. session' = [session EXCEPT !.monitor = m] /\ UNCHANGED <<revival, past>>
    BY <1>5, Parts DEF Deliver, SessionType
  <2>2. /\ m \in Monitor
        /\ m.running = session.monitor.running /\ m.observable = session.monitor.observable
        /\ m.missed = 0
        /\ m.state = IF session.monitor.running /\ session.monitor.observable
                     THEN "healthy" ELSE session.monitor.state
    BY Parts, BeatType
  <2> HIDE DEF m
  <2>3. /\ session' \in SessionType /\ session'.monitor = m
        /\ session'.selfHidden = session.selfHidden /\ session'.peerHidden = session.peerHidden
    BY <2>1, <2>2, Parts DEF SessionType
  <2>4. Observing(session') <=> Observing(session)
    BY <2>3 DEF Observing
  <2>5. Told(session') /\ Told(session)
    BY <2>2, <2>3, <2>4, Parts DEF Told
  <2>6. Watching'
    BY <1>1, <1>2, <2>2, <2>3, <2>5, Parts DEF Watching
  <2>7. past.silent = 0 /\ past.sight \in Nat
    BY <1>3, <1>5, Parts, PastFields DEF Counted, Budget
  <2>8. Due("watch")' = Due("watch")
    BY <1>4 DEF Due
  <2>9. Counted'
    BY <2>1, <2>2, <2>3, <2>7, <2>8, DueType DEF Counted, Budget, MissThreshold
  <2>10. Measured'
    BY <1>1, <2>1, Parts DEF Measured
  <2>11. QED
    BY <1>1, <1>3, <1>4, <2>1, <2>3, <2>6, <2>9, <2>10, Parts, Whole
<1>6. CASE Head(wire) # "beat"
  <2> DEFINE z == [session EXCEPT !.peerHidden = Head(wire) = "hidden"]
  <2>1. Observe(z, revival)
    BY <1>6 DEF Deliver
  <2>2. z \in SessionType /\ z.monitor = session.monitor
    BY Parts DEF SessionType
  <2> HIDE DEF z
  <2>3. QED
    BY <1>1, <1>2, <1>3, <1>4, <1>6, <2>1, <2>2, ObserveKeeps
<1>7. QED
  BY <1>5, <1>6

LEMMA HostSettlesKeeps ==
  ASSUME IInv, HostSettles
  PROVE  IInv'
<1> DEFINE h == session.peerHidden /\ (pages.host \/ ~pages.inPage)
           z == [session EXCEPT !.selfHidden = pages.host, !.peerHidden = h]
<1>1. /\ frame.life # "none" /\ Observe(z, revival)
      /\ clock' = [clock EXCEPT !.late = @ \ {"host"}]
      /\ UNCHANGED <<pages, frame, wire>>
  BY Parts DEF HostSettles, HostUnaware, SessionType
<1>2. z \in SessionType /\ z.monitor = session.monitor
  BY Parts DEF SessionType, PagesType
<1> HIDE DEF z
<1>3. clock' \in ClockType /\ clock'.due = clock.due
  BY <1>1, Parts DEF ClockType
<1>4. wire' \in Seq({"beat", "hidden", "visible"}) /\ (BeatInWire' <=> BeatInWire)
  BY <1>1, Parts DEF BeatInWire
<1>5. QED
  BY <1>1, <1>2, <1>3, <1>4, ObserveKeeps

\* The tick of the watchdog, whatever it does to the policy.
LEMMA WatchedKeeps ==
  ASSUME IInv, session.monitor.running, "watch" \in clock.due,
         clock' = [clock EXCEPT !.due = @ \ {"watch"}],
         session' = [session EXCEPT !.monitor = Watched(@)],
         UNCHANGED <<pages, frame, wire>>,
         revival' \in Policy, Single(revival'), past' \in Past, Measured',
         past'.silent = past.silent, past'.calm = past.calm, past'.sight = past.sight
  PROVE  IInv'
<1> DEFINE m == session.monitor
           n == Watched(m)
<1>1. /\ n \in Monitor /\ n.running = m.running /\ n.observable = m.observable
      /\ n.missed <= m.missed + 1
      /\ n.state \in {m.state, "suspect"}
      /\ m.running /\ m.observable /\ n.state = "healthy"
           => n.missed = m.missed + 1 /\ n.missed < MissThreshold
  BY Parts, WatchedType
<1>2. m \in Monitor /\ Told(session)
  BY Parts
<1>3. session' = [session EXCEPT !.monitor = n]
  BY Parts DEF SessionType
<1> HIDE DEF n
<1>4. /\ session' \in SessionType /\ session'.monitor = n
      /\ session'.selfHidden = session.selfHidden /\ session'.peerHidden = session.peerHidden
  BY <1>1, <1>3, Parts DEF SessionType
<1>5. Observing(session') <=> Observing(session)
  BY <1>4 DEF Observing
<1>6. Told(session')
  BY <1>1, <1>2, <1>4, <1>5 DEF Told
<1>7. Watching'
  BY <1>1, <1>4, <1>6, Parts, NewSessionType DEF Watching
<1>8. clock' \in ClockType /\ Due("watch") = 1 /\ Due("watch")' = 0
  BY Parts DEF ClockType, Due
<1>9. Heard' <=> Heard
  BY Parts DEF Heard, BeatInWire, ClockType
<1>10. BeatInWire' <=> BeatInWire
  BY DEF BeatInWire
<1>11. m.missed \in Nat /\ n.missed \in Nat
  BY <1>1, <1>2 DEF Monitor, MissThreshold
<1>12. past.silent \in Nat /\ past.sight \in Nat
  BY Parts, PastFields
<1>13. Counted'
  <2>1. Budget(m, past, 1, Heard, BeatInWire)
    BY <1>8, Parts DEF Counted
  <2>2. n.state = "healthy" => n.missed < MissThreshold /\ past'.silent <= n.missed
    BY <1>1, <1>2, <1>11, <1>12, <2>1 DEF Budget, Told
  <2>3. /\ Heard => n.missed <= 1
        /\ past'.calm > 0 => n.missed < MissThreshold
        /\ n.observable => n.missed <= past'.sight + 1
    BY <1>1, <1>11, <1>12, <2>1 DEF Budget, MissThreshold
  <2>4. BeatInWire => past'.silent = 0
    BY <2>1 DEF Budget
  <2>5. QED
    BY <1>4, <1>8, <1>9, <1>10, <1>11, <1>12, <2>2, <2>3, <2>4 DEF Counted, Budget
<1>14. QED
  BY <1>4, <1>7, <1>8, <1>13, Parts, Whole

LEMMA WatchTickKeeps ==
  ASSUME IInv, WatchTick
  PROVE  IInv'
<1>1. /\ session.monitor.running /\ "watch" \in clock.due
      /\ clock' = [clock EXCEPT !.due = @ \ {"watch"}]
      /\ pages' = pages
  BY DEF WatchTick
<1>2. clock' \in ClockType
  BY <1>1, Parts DEF ClockType
<1>3. CASE Unmount(NewRevival)
  BY <1>1, <1>2, <1>3, UnmountKeeps, NewRevivalType
<1>4. CASE /\ session' = [session EXCEPT !.monitor = Watched(@)]
           /\ revival' = Schedule(revival)
           /\ past' = [past EXCEPT !.steady = 0]
           /\ UNCHANGED <<frame, wire>>
  <2>1. revival' \in Policy /\ Single(revival') /\ revival'.stability = Off
    BY <1>4, Parts, ScheduleType
  <2>2. 0 \in 0 .. Stable
    BY PolicyAssumption
  <2>3. /\ past' \in Past /\ past'.silent = past.silent /\ past'.calm = past.calm
        /\ past'.sight = past.sight
    BY <1>4, <2>2, Parts DEF Past
  <2>4. Measured'
    BY <2>1 DEF Measured
  <2>5. QED
    BY <1>1, <1>4, <2>1, <2>3, <2>4, WatchedKeeps
<1>5. CASE /\ session' = [session EXCEPT !.monitor = Watched(@)]
           /\ UNCHANGED <<frame, wire, revival, past>>
  <2>1. Measured'
    BY <1>5, Parts DEF Measured
  <2>2. QED
    BY <1>1, <1>5, <2>1, Parts, WatchedKeeps
<1>6. QED
  BY <1>3, <1>4, <1>5 DEF WatchTick

LEMMA ZeroCounts ==
  0 \in 0 .. KeptAfter /\ 0 \in 0 .. Patience + 1 /\ 0 \in 0 .. MissThreshold
BY PatienceType DEF KeptAfter, MissThreshold

LEMMA HideKeeps ==
  ASSUME IInv, NEW p \in {"host", "own"}, NEW act, Hide(p, act)
  PROVE  IInv'
<1> DEFINE n == IF p = "host" THEN 0 ELSE past.owed
<1>1. /\ pages' = [pages EXCEPT ![p] = TRUE]
      /\ past' = [past EXCEPT !.calm = 0, !.owed = n]
      /\ UNCHANGED <<frame, wire, session, revival, clock>>
  BY Parts DEF Hide, Past
<1>2. n \in 0 .. Patience + 1
  BY ZeroCounts, Parts DEF Past
<1> HIDE DEF n
<1>3. past' \in Past
  BY <1>1, <1>2, ZeroCounts, Parts DEF Past
<1>4. /\ past'.silent = past.silent /\ past'.sight = past.sight /\ past'.calm = 0
      /\ past'.steady = past.steady
  BY <1>1, Parts DEF Past
<1>5. pages' \in PagesType
  BY <1>1, Parts DEF PagesType
<1>6. Counted'
  BY <1>1, <1>4, SameCounts, Parts
<1>7. Watching' /\ Measured'
  BY <1>1, <1>4, Parts DEF Watching, Measured
<1>8. QED
  BY <1>1, <1>3, <1>5, <1>6, <1>7, Parts, Whole

LEMMA ShowKeeps ==
  ASSUME IInv, NEW p \in {"host", "own"}, Show(p)
  PROVE  IInv'
<1> DEFINE b == IF p = "host" THEN HostUnaware \/ wire # <<>> ELSE past.brief
<1>1. /\ pages' = [pages EXCEPT ![p] = FALSE]
      /\ past' = [past EXCEPT !.brief = b]
      /\ UNCHANGED <<frame, wire, session, revival, clock>>
  BY Parts DEF Show, Past
<1>2. pages' \in PagesType
  BY <1>1, Parts DEF PagesType
<1>3. b \in BOOLEAN
  BY Parts, PastFields DEF HostUnaware
<1> HIDE DEF b
<1>4. /\ past' \in Past
      /\ past'.silent = past.silent /\ past'.sight = past.sight /\ past'.calm = past.calm
      /\ past'.steady = past.steady
  BY <1>1, <1>3, Parts DEF Past
<1>5. Counted'
  BY <1>1, <1>4, SameCounts, Parts
<1>6. Watching' /\ Measured'
  BY <1>1, <1>4, Parts DEF Watching, Measured
<1>7. QED
  BY <1>1, <1>2, <1>4, <1>5, <1>6, Parts, Whole

LEMMA FateKeeps ==
  ASSUME IInv, NEW act, NEW from \in SUBSET {"live", "stalled", "dead"},
         NEW to \in {"live", "stalled", "dead", "removed"}, Fate(act, from, to)
  PROVE  IInv'
<1>1. /\ frame.life \in from /\ frame' = [frame EXCEPT !.life = to]
      /\ past' = [past EXCEPT !.calm = 0, !.owed = 0]
      /\ UNCHANGED <<pages, wire, session, revival, clock>>
  BY DEF Fate
<1>2. past' \in Past
  BY <1>1, ZeroCounts, Parts DEF Past
<1>3. /\ past'.silent = past.silent /\ past'.sight = past.sight /\ past'.calm = 0
      /\ past'.steady = past.steady
  BY <1>1, Parts DEF Past
<1>4. frame.life # "none" /\ frame'.life = to /\ to \in Life
  BY <1>1, Parts DEF FrameType, Life
<1>5. frame' \in FrameType
  BY <1>1, <1>4, Parts DEF FrameType
<1>6. Counted'
  BY <1>1, <1>3, SameCounts, Parts
<1>7. Watching' /\ Measured'
  BY <1>1, <1>3, <1>4, Parts DEF Watching, Measured
<1>8. QED
  BY <1>1, <1>2, <1>5, <1>6, <1>7, Parts, Whole

LEMMA ReloadKeeps ==
  ASSUME IInv, Reload
  PROVE  IInv'
<1> DEFINE m == Stop(session.monitor)
           z == [session EXCEPT !.monitor = m, !.peerHidden = FALSE]
<1>1. /\ frame.life # "none"
      /\ frame' = [life |-> "connecting", said |-> FALSE] /\ wire' = <<>>
      /\ Observe(z, revival) /\ UNCHANGED <<pages, clock>>
  BY Parts DEF Reload, SessionType
<1>2. m \in Monitor /\ ~m.running /\ m.state = "gone"
  BY Parts, StopType
<1> HIDE DEF m
<1>3. z \in SessionType /\ z.monitor = m
  BY <1>2, Parts DEF SessionType
<1> HIDE DEF z
<1>4. /\ session' \in SessionType /\ Told(session') /\ ~session'.monitor.running
      /\ revival' \in Policy /\ Single(revival') /\ revival'.stability = revival.stability
      /\ past' \in Past /\ past'.steady = past.steady
  BY <1>1, <1>2, <1>3, Parts, ObserveType
<1>5. session'.monitor.state # "healthy"
  BY <1>4 DEF Told
<1>6. ~BeatInWire'
  BY <1>1 DEF BeatInWire
<1>7. frame' \in FrameType /\ frame'.life = "connecting"
  BY <1>1 DEF FrameType, Life
<1>8. Watching'
  BY <1>4, <1>7 DEF Watching
<1>9. Counted'
  BY <1>4, <1>5, <1>6 DEF Counted, Budget
<1>10. Measured'
  BY <1>1, <1>4, Parts DEF Measured
<1>11. wire' \in Seq({"beat", "hidden", "visible"})
  BY <1>1
<1>12. QED
  BY <1>1, <1>4, <1>7, <1>8, <1>9, <1>10, <1>11, Parts, Whole

\* Time passes only when everything due has been done: a watchdog that observes
\* has ticked, and a frame in view has been heard.
LEMMA TickKeeps ==
  ASSUME IInv, Tick
  PROVE  IInv'
<1> DEFINE m == session.monitor
           calm == IF frame.life = "live" /\ ~FrameHidden /\ ~pages.host
                   THEN Cap(past.calm, KeptAfter) ELSE 0
           sight == IF m.running /\ m.observable THEN Cap(past.sight, MissThreshold) ELSE 0
           steady == IF frame.life # "none" THEN Cap(past.steady, Stable) ELSE 0
           owed == IF ~pages.host /\ (frame.life \in Lost \/ revival.held)
                   THEN Cap(past.owed, Patience + 1) ELSE 0
           g == RunDown(revival.grace)
           b == RunDown(revival.stability)
<1>1. /\ NothingOverdue
      /\ revival' = [revival EXCEPT !.grace = g, !.stability = b]
      /\ clock' = [due |-> {"beat", "watch"}, late |-> Unaware]
      /\ past' = [silent |-> Cap(past.silent, MissThreshold + 1), calm |-> calm,
                  sight |-> sight, steady |-> steady, owed |-> owed, brief |-> past.brief]
      /\ UNCHANGED <<pages, frame, wire, session>>
  BY Parts DEF Tick, Policy
<1>2. /\ MissThreshold \in Nat /\ MissThreshold + 1 \in Nat /\ KeptAfter \in Nat
      /\ Stable \in Nat /\ Patience + 1 \in Nat /\ 0 \in 0 .. Stable
  BY PolicyAssumption, PatienceType DEF MissThreshold, KeptAfter
<1>3. /\ Cap(past.silent, MissThreshold + 1) \in 0 .. MissThreshold + 1
      /\ Cap(past.silent, MissThreshold + 1) <= past.silent + 1
      /\ calm \in 0 .. KeptAfter
      /\ sight \in 0 .. MissThreshold
      /\ m.running /\ m.observable => sight = past.sight + 1 \/ sight = MissThreshold
      /\ steady \in 0 .. Stable
      /\ frame.life # "none" => steady = past.steady + 1 \/ steady = Stable
      /\ owed \in 0 .. Patience + 1
  BY <1>2, ZeroCounts, Parts, PastFields, CapType
<1>4. calm > 0 => frame.life = "live" /\ ~FrameHidden
  OBVIOUS
<1> HIDE DEF calm, sight, steady, owed
<1>5. /\ past' \in Past
      /\ past'.silent <= past.silent + 1 /\ past'.calm = calm /\ past'.sight = sight
      /\ past'.steady = steady
  BY <1>1, <1>3, Parts, PastFields DEF Past
<1>6. /\ g \in Clock /\ (g # Off <=> revival.grace # Off)
      /\ b \in Clock /\ (b # Off <=> revival.stability # Off) /\ b >= revival.stability - 1
  BY Parts, RunDownType DEF Policy
<1> HIDE DEF g, b
<1>7. /\ revival' \in Policy /\ Single(revival')
      /\ revival'.stability = b
  BY <1>1, <1>6, Parts DEF Policy, Single
<1>8. clock' \in ClockType /\ Due("watch")' = 1 /\ ~Heard'
  BY <1>1 DEF ClockType, Unaware, Due, Heard
<1>9. Watching'
  BY <1>1, Parts DEF Watching
<1>10. wire = <<>> /\ ~BeatInWire /\ ~BeatInWire'
  BY <1>1 DEF NothingOverdue, BeatInWire
<1>11. m.running /\ m.observable => Due("watch") = 0
  <2>1. SUFFICES ASSUME m.running, m.observable, "watch" \in clock.due PROVE FALSE
    BY DEF Due
  <2>2. pages.host /\ ~HostUnaware
    BY <1>1, <2>1 DEF NothingOverdue, HostThrottled
  <2>3. frame.life # "none"
    BY <2>1, Parts, NewSessionType DEF Watching
  <2>4. session.selfHidden
    BY <2>2, <2>3, Parts DEF HostUnaware
  <2>5. QED
    BY <2>1, <2>4, Parts DEF Told, Observing
<1>12. calm > 0 => Heard
  BY <1>1, <1>4, <1>10 DEF NothingOverdue, FrameThrottled, Heard
<1>13. m \in Monitor /\ m.missed \in 0 .. MissThreshold /\ m.missed \in Nat
  BY Parts DEF Monitor, MissThreshold
<1>14. Budget(m, past, Due("watch"), Heard, BeatInWire)
  BY Parts DEF Counted
<1>15. m.state = "healthy" => m.running /\ m.observable
  BY Parts DEF Told
<1>16. past.silent \in Nat /\ past.sight \in Nat /\ past'.silent \in Nat
  BY <1>5, Parts, PastFields
<1>17. m.state = "healthy" => m.missed < MissThreshold /\ past'.silent <= m.missed + 1
  BY <1>5, <1>11, <1>13, <1>14, <1>15, <1>16 DEF Budget
<1>18. m.running => /\ calm > 0 => m.missed + 1 < MissThreshold
                    /\ m.observable => m.missed <= sight + 1 - 1
  BY <1>3, <1>11, <1>12, <1>13, <1>14, <1>16, DueType DEF Budget, MissThreshold
<1>19. Counted'
  BY <1>1, <1>5, <1>8, <1>10, <1>17, <1>18 DEF Counted, Budget
<1>20. Measured'
  <2>1. SUFFICES ASSUME frame.life # "none", b # Off PROVE steady + b >= Stable
    BY <1>1, <1>5, <1>7 DEF Measured
  <2>2. past.steady + revival.stability >= Stable
    BY <1>6, <2>1, Parts DEF Measured
  <2>3. b \in Nat /\ revival.stability \in Nat
    BY <1>6, <2>1, Parts DEF Policy, Clock
  <2>4. past.steady \in Nat /\ steady \in Nat
    BY <1>2, <1>3, Parts, PastFields
  <2>5. QED
    BY <1>2, <1>3, <1>6, <2>1, <2>2, <2>3, <2>4
<1>21. QED
  BY <1>1, <1>5, <1>7, <1>8, <1>9, <1>19, <1>20, Parts, Whole

-----------------------------------------------------------------------------
(* The theorems.                                                           *)

LEMMA InitIInv == Init => IInv
<1> SUFFICES ASSUME Init PROVE IInv
  OBVIOUS
<1>1. TypeOK
  <2>1. pages \in PagesType
    <3>1. FALSE \in BOOLEAN
      OBVIOUS
    <3>2. QED
      BY <3>1 DEF Init, PagesType
  <2>5. wire \in Seq({"beat", "hidden", "visible"}) /\ clock \in ClockType
    BY DEF Init, ClockType
  <2>2. frame \in FrameType
    BY DEF Init, FrameType, Life
  <2>3. session \in SessionType /\ revival \in Policy /\ past \in Past
    BY NewSessionType, NewRevivalType, NoPastType DEF Init
  <2>4. QED
    BY <2>1, <2>2, <2>3, <2>5 DEF TypeOK, PagesType, FrameType, SessionType, ClockType
<1>2. OneClock /\ Measured
  BY NewRevivalType DEF Init, OneClock, Single, Measured
<1>3. Watching
  BY NewSessionType DEF Init, Watching
<1>4. Counted
  BY NewSessionType, NothingFlies DEF Init, Counted, Budget
<1>5. QED
  BY <1>1, <1>2, <1>3, <1>4 DEF IInv

LEMMA StutterKeeps ==
  ASSUME IInv, UNCHANGED vars
  PROVE  IInv'
<1>1. UNCHANGED <<pages, frame, wire, session, revival, clock, past>>
  BY DEF vars
<1>2. Counted'
  BY <1>1, SameCounts, Parts
<1>3. Watching' /\ Measured'
  BY <1>1, Parts DEF Watching, Measured
<1>4. QED
  BY <1>1, <1>2, <1>3, Parts, Whole

LEMMA NextKeeps == IInv /\ [Next]_vars => IInv'
<1> SUFFICES ASSUME IInv, [Next]_vars PROVE IInv'
  OBVIOUS
<1>1. CASE Beats \/ FrameSettles \/ Open \/ Handshake \/ Deliver \/ HostSettles \/ WatchTick
  BY <1>1, BeatsKeeps, FrameSettlesKeeps, OpenKeeps, ConnectOpensKeeps, ConnectFailsKeeps,
     DeliverKeeps, HostSettlesKeeps, WatchTickKeeps DEF Handshake
<1>2. CASE Timers
  BY <1>2, GraceReopensKeeps, GraceGivesUpKeeps, GraceWaitsKeeps, StabilityEndsKeeps DEF Timers
<1>3. CASE HidePage \/ ShowPage \/ HideOwn \/ ShowOwn
  BY <1>3, HideKeeps, ShowKeeps DEF HidePage, ShowPage, HideOwn, ShowOwn
<1>4. CASE Stall \/ Recover \/ Kill \/ Remove \/ Reload
  BY <1>4, FateKeeps, ReloadKeeps DEF Stall, Recover, Kill, Remove
<1>5. CASE Tick
  BY <1>5, TickKeeps
<1>6. CASE UNCHANGED vars
  BY <1>6, StutterKeeps
<1>7. QED
  BY <1>1, <1>2, <1>3, <1>4, <1>5, <1>6 DEF Next

LEMMA Invariance == Spec => []IInv
<1>1. QED
  BY InitIInv, NextKeeps, PTL DEF Spec

\* Every variable keeps its type: the budget is never overspent, and no miss is
\* counted past the threshold.
THEOREM TypeCorrect == Spec => []TypeOK
<1>1. IInv => TypeOK
  BY DEF IInv
<1>2. QED
  BY <1>1, Invariance, PTL

\* The revival runs one clock at a time, and holds no attempt beside one,
\* whatever its graces and windows are.
THEOREM OneClockAtATime == Spec => []OneClock
<1>1. IInv => OneClock
  BY DEF IInv
<1>2. QED
  BY <1>1, Invariance, PTL

\* A host is never told that a frame is healthy which has been silent for longer
\* than the miss budget, whichever pages are hidden and however late the browser
\* runs their timers.
THEOREM HealthIsBackedByABeat == Spec => []HealthyIsAlive
<1>1. IInv => HealthyIsAlive
  <2> SUFFICES ASSUME IInv, session.monitor.state = "healthy"
               PROVE  past.silent <= MissThreshold
    BY DEF HealthyIsAlive, IsHealthy
  <2>1. /\ session.monitor.missed < MissThreshold
        /\ past.silent <= session.monitor.missed + Due("watch")
    BY Parts DEF Counted, Budget
  <2>2. session.monitor.missed \in Nat /\ past.silent \in Nat
    BY Parts, PastFields DEF Monitor, MissThreshold
  <2>3. QED
    BY <2>1, <2>2, DueType DEF MissThreshold
<1>2. QED
  BY <1>1, Invariance, PTL

-----------------------------------------------------------------------------
(* What a step may do to the watchdog's state and to the budget.           *)

LEMMA ObserveState ==
  ASSUME NEW s \in SessionType, NEW r, Observe(s, r)
  PROVE  session'.monitor.state \in {s.monitor.state, "unobservable"}
<1> DEFINE m == SetObservable(s.monitor, Observing(s))
<1>1. m \in Monitor /\ m.state \in {s.monitor.state, "unobservable"}
  BY SetObservableType DEF SessionType, Observing
<1>2. session' = [s EXCEPT !.monitor = m]
  BY DEF Observe, SessionType
<1> HIDE DEF m
<1>3. QED
  BY <1>1, <1>2 DEF SessionType

LEMMA MountState ==
  ASSUME IInv, NEW r \in Policy, Single(r), Mount(r)
  PROVE  session'.monitor.state # "suspect" /\ revival'.spent = r.spent
<1> DEFINE z == [NewSession EXCEPT !.selfHidden = pages.host]
<1>1. Observe(z, r)
  BY DEF Mount
<1>2. z \in SessionType /\ z.monitor = NewMonitor
  BY NewSessionType, Parts DEF SessionType, PagesType
<1> HIDE DEF z
<1>3. QED
  BY <1>1, <1>2, NewSessionType, Parts, ObserveState, ObserveType

\* Only the tick of the watchdog suspects a frame.
LEMMA OnlyTheTickSuspects ==
  ASSUME IInv, Next, ~WatchTick
  PROVE  ~Suspects
<1> SUFFICES ASSUME session.monitor.state # "suspect"
             PROVE  session'.monitor.state # "suspect"
  BY DEF Suspects
<1>1. CASE session' = session
  BY <1>1
<1>2. ASSUME NEW r, Unmount(r) PROVE session'.monitor.state # "suspect"
  BY <1>2, NewSessionType DEF Unmount
<1>3. CASE Open
  BY <1>3, NewRevivalType, MountState DEF Open
<1>4. CASE GraceReopens
  <2>1. IsHealthy \in BOOLEAN /\ revival.grace # Off
    BY <1>4, OffIsNone DEF IsHealthy, GraceReopens
  <2>2. Fired(revival, FALSE) \in Policy /\ Single(Fired(revival, FALSE))
    BY <2>1, Parts, FiredType
  <2>3. QED
    BY <1>2, <1>4, <2>2, MountState DEF GraceReopens
<1>5. CASE ConnectOpens
  <2> DEFINE m == Start(session.monitor)
  <2>1. session' = [session EXCEPT !.monitor = m] /\ ~session.monitor.running
    BY <1>5, Parts DEF ConnectOpens, SessionType, Watching
  <2>2. m.state # "suspect"
    BY <2>1, Parts, StartType
  <2> HIDE DEF m
  <2>3. QED
    BY <2>1, <2>2, Parts DEF SessionType
<1>6. CASE Deliver
  <2> DEFINE m == Beat(session.monitor)
             z == [session EXCEPT !.peerHidden = Head(wire) = "hidden"]
  <2>1. session' = [session EXCEPT !.monitor = m] \/ Observe(z, revival)
    BY <1>6, Parts DEF Deliver, SessionType
  <2>2. m.state # "suspect"
    BY Parts, BeatType
  <2>3. z \in SessionType /\ z.monitor = session.monitor
    BY Parts DEF SessionType
  <2> HIDE DEF m, z
  <2>4. CASE session' = [session EXCEPT !.monitor = m]
    BY <2>2, <2>4, Parts DEF SessionType
  <2>5. CASE Observe(z, revival)
    BY <2>3, <2>5, ObserveState
  <2>6. QED
    BY <2>1, <2>4, <2>5
<1>7. CASE HostSettles
  <2> DEFINE h == session.peerHidden /\ (pages.host \/ ~pages.inPage)
             z == [session EXCEPT !.selfHidden = pages.host, !.peerHidden = h]
  <2>1. Observe(z, revival)
    BY <1>7, Parts DEF HostSettles, SessionType
  <2>2. z \in SessionType /\ z.monitor = session.monitor
    BY Parts DEF SessionType, PagesType
  <2> HIDE DEF z
  <2>3. QED
    BY <2>1, <2>2, ObserveState
<1>8. CASE Reload
  <2> DEFINE m == Stop(session.monitor)
             z == [session EXCEPT !.monitor = m, !.peerHidden = FALSE]
  <2>1. Observe(z, revival)
    BY <1>8, Parts DEF Reload, SessionType
  <2>2. m \in Monitor /\ m.state = "gone"
    BY Parts, StopType
  <2> HIDE DEF m
  <2>3. z \in SessionType /\ z.monitor = m
    BY <2>2, Parts DEF SessionType
  <2> HIDE DEF z
  <2>4. QED
    BY <2>1, <2>2, <2>3, ObserveState
<1>9. CASE Beats \/ FrameSettles \/ GraceWaits \/ StabilityEnds \/ Tick
  BY <1>1, <1>9 DEF Beats, FrameSettles, GraceWaits, StabilityEnds, Tick
<1>10. CASE HidePage \/ ShowPage \/ HideOwn \/ ShowOwn
  BY <1>1, <1>10 DEF HidePage, ShowPage, HideOwn, ShowOwn, Hide, Show
<1>11. CASE Stall \/ Recover \/ Kill \/ Remove
  BY <1>1, <1>11 DEF Stall, Recover, Kill, Remove, Fate
<1>12. CASE ConnectFails \/ GraceGivesUp
  BY <1>2, <1>12 DEF ConnectFails, GraceGivesUp
<1>13. QED
  BY <1>3, <1>4, <1>5, <1>6, <1>7, <1>8, <1>9, <1>10, <1>11, <1>12
  DEF Next, Handshake, Timers

LEMMA TheTickIsFair ==
  ASSUME IInv, WatchTick, Suspects
  PROVE  past.calm = 0 /\ past.sight >= MissThreshold - 1
<1> DEFINE m == session.monitor
<1>1. m.running /\ Due("watch") = 1 /\ m.state # "suspect" /\ session'.monitor.state = "suspect"
  BY DEF WatchTick, Due, Suspects
<1>2. Unresponsive(m)
  <2>1. ASSUME ~Unresponsive(m) PROVE FALSE
    <3> DEFINE n == Watched(m)
    <3>1. session' = [session EXCEPT !.monitor = n]
      BY <2>1, Parts DEF WatchTick, SessionType
    <3>2. n.state = m.state
      BY <2>1, Parts, WatchedType
    <3> HIDE DEF n
    <3>3. QED
      BY <1>1, <3>1, <3>2, Parts DEF SessionType
  <2>2. QED
    BY <2>1
<1>3. m.observable /\ m.missed + 1 >= MissThreshold
  BY <1>2 DEF Unresponsive
<1>4. m.missed \in Nat /\ past.calm \in Nat /\ past.sight \in Nat
  BY Parts, PastFields DEF Monitor, MissThreshold
<1>5. Budget(m, past, 1, Heard, BeatInWire)
  BY <1>1, Parts DEF Counted
<1>6. QED
  BY <1>1, <1>3, <1>4, <1>5 DEF Budget, MissThreshold

LEMMA FairStep == IInv /\ [Next]_vars => [Suspects => /\ past.calm = 0
                                                       /\ past.sight >= MissThreshold - 1]_vars
BY OnlyTheTickSuspects, TheTickIsFair

\* The verdict is given on no frame that has run in view for a beat interval,
\* and on no silence from before the watch resumed.
THEOREM NoVerdictIsFalse == Spec => NoFalseVerdict
BY FairStep, Invariance, PTL DEF Spec, NoFalseVerdict

\* Only the end of a stability window restores the budget of a mount.
LEMMA BudgetStep ==
  ASSUME IInv, Next, revival'.spent < revival.spent
  PROVE  past.steady >= Stable \/ frame.life = "none" \/ frame'.life = "none"
<1>1. revival.spent \in Int /\ revival'.spent \in Int
  <2>1. IInv'
    BY NextKeeps
  <2>2. revival' \in Policy
    BY <2>1 DEF IInv, TypeOK
  <2>3. QED
    BY <2>2, Parts DEF Policy
<1>2. ASSUME revival'.spent >= revival.spent PROVE FALSE
  BY <1>1, <1>2
<1>3. ASSUME NEW r, Unmount(r) PROVE frame'.life = "none"
  BY <1>3 DEF Unmount
<1>4. CASE Open
  BY <1>4 DEF Open
<1>5. CASE StabilityEnds
  <2>1. frame.life = "none" \/ past.steady + revival.stability >= Stable
    BY <1>5, Parts DEF StabilityEnds, Measured, Off
  <2>2. past.steady \in Nat /\ revival.stability = 0
    BY <1>5, Parts, PastFields DEF StabilityEnds
  <2>3. QED
    BY <2>1, <2>2
<1>6. CASE GraceReopens
  <2>1. revival.grace # Off
    BY <1>6, OffIsNone DEF GraceReopens
  <2>2. /\ Fired(revival, FALSE) \in Policy /\ Single(Fired(revival, FALSE))
        /\ Fired(revival, FALSE).spent >= revival.spent
    BY <2>1, Parts, FiredType
  <2>3. QED
    BY <1>2, <1>3, <1>6, <2>2, MountState DEF GraceReopens
<1>7. CASE GraceWaits
  <2>1. revival.grace = 0 /\ IsHealthy \in BOOLEAN /\ revival' = Fired(revival, IsHealthy)
    BY <1>7 DEF GraceWaits, IsHealthy
  <2>2. QED
    BY <1>2, <2>1, Parts, FiredType, OffIsNone
<1>8. CASE ConnectOpens
  BY <1>1, <1>2, <1>8, Parts, OpenedType DEF ConnectOpens
<1>9. ASSUME NEW s \in SessionType, Observe(s, revival) PROVE FALSE
  <2>1. revival' = SetJudgeable(revival, Observing(s)) /\ Observing(s) \in BOOLEAN
    BY <1>9 DEF Observe, Observing
  <2>2. QED
    BY <1>1, <1>2, <2>1, Parts, SetJudgeableType
<1>10. CASE Deliver
  <2> DEFINE z == [session EXCEPT !.peerHidden = Head(wire) = "hidden"]
  <2>1. revival' = revival \/ Observe(z, revival)
    BY <1>10 DEF Deliver
  <2>2. z \in SessionType
    BY Parts DEF SessionType
  <2> HIDE DEF z
  <2>3. QED
    BY <1>1, <1>2, <1>9, <2>1, <2>2
<1>11. CASE HostSettles
  <2> DEFINE h == session.peerHidden /\ (pages.host \/ ~pages.inPage)
             z == [session EXCEPT !.selfHidden = pages.host, !.peerHidden = h]
  <2>1. Observe(z, revival)
    BY <1>11, Parts DEF HostSettles, SessionType
  <2>2. z \in SessionType
    BY Parts DEF SessionType, PagesType
  <2> HIDE DEF z
  <2>3. QED
    BY <1>9, <2>1, <2>2
<1>12. CASE Reload
  <2> DEFINE m == Stop(session.monitor)
             z == [session EXCEPT !.monitor = m, !.peerHidden = FALSE]
  <2>1. Observe(z, revival)
    BY <1>12, Parts DEF Reload, SessionType
  <2>2. m \in Monitor
    BY Parts, StopType
  <2> HIDE DEF m
  <2>3. z \in SessionType
    BY <2>2, Parts DEF SessionType
  <2> HIDE DEF z
  <2>4. QED
    BY <1>9, <2>1, <2>3
<1>13. CASE WatchTick
  <2>1. CASE revival' = Schedule(revival)
    BY <1>1, <1>2, <2>1, Parts, ScheduleType
  <2>2. CASE revival' = revival
    BY <1>1, <1>2, <2>2
  <2>3. QED
    BY <1>3, <1>13, <2>1, <2>2 DEF WatchTick
<1>14. CASE Tick
  BY <1>1, <1>2, <1>14, Parts DEF Tick, Policy
<1>15. CASE Beats \/ FrameSettles
  BY <1>1, <1>2, <1>15 DEF Beats, FrameSettles
<1>16. CASE HidePage \/ ShowPage \/ HideOwn \/ ShowOwn
  BY <1>1, <1>2, <1>16 DEF HidePage, ShowPage, HideOwn, ShowOwn, Hide, Show
<1>17. CASE Stall \/ Recover \/ Kill \/ Remove
  BY <1>1, <1>2, <1>17 DEF Stall, Recover, Kill, Remove, Fate
<1>18. CASE ConnectFails \/ GraceGivesUp
  BY <1>3, <1>18 DEF ConnectFails, GraceGivesUp
<1>19. QED
  BY <1>4, <1>5, <1>6, <1>7, <1>8, <1>10, <1>11, <1>12, <1>13, <1>14, <1>15, <1>16,
     <1>17, <1>18
  DEF Next, Handshake, Timers

\* An episode's budget comes back only to a session that stayed for a whole
\* stability window, or to a feature opened anew.
THEOREM BudgetIsEarned == Spec => BudgetEarned
<1>1. IInv /\ [Next]_vars =>
        [ revival'.spent < revival.spent
            => past.steady >= Stable \/ frame.life = "none" \/ frame'.life = "none" ]_vars
  BY BudgetStep
<1>2. QED
  BY <1>1, Invariance, PTL DEF Spec, BudgetEarned

-----------------------------------------------------------------------------
(* What a frame in view is known by, and when a lost one is answered.      *)

HiddenInWire  == \E i \in DOMAIN wire : wire[i] = "hidden"
VisibleInWire == \E i \in DOMAIN wire : wire[i] = "visible"

\* A report of a hidden page in flight is followed by one that takes it back.
Overtaken == \A i \in DOMAIN wire : wire[i] = "hidden"
               => \E j \in DOMAIN wire : j > i /\ wire[j] = "visible"

\* The last report is what the mount believes of the frame, once it is handled.
Reported == ~frame.said => (session.peerHidden => VisibleInWire) /\ Overtaken

\* While its page is in view after no brief hiding, a frame in it is believed
\* hidden only until the mount has noticed the page, and nothing in flight says it is.
Sighted == pages.inPage /\ ~pages.host /\ ~past.brief
             => (session.peerHidden => session.selfHidden) /\ ~HiddenInWire

\* A watchdog that cannot judge says so, and one that can has misses to spare
\* until it suspects.
Judges(m) == /\ m.running /\ ~m.observable => m.state = "unobservable"
             /\ m.running /\ m.observable /\ m.state # "suspect" => m.missed < MissThreshold
             /\ ~m.running => m.state = "gone"

\* An attempt is held only while nobody is observed, and no grace is longer than
\* its episode's.
Waits(r) == /\ r.held => ~r.observable
            /\ r.grace <= Grace * Backoff ^ r.spent

Established == frame.life \notin {"none", "connecting"}
Suspected   == session.monitor.state = "suspect"

Inspected == /\ Judges(session.monitor) /\ Waits(revival)
             /\ Established => session.monitor.running
             /\ frame.life = "connecting" => ~session.peerHidden /\ wire = <<>>
             /\ Suspected => revival.grace # Off
             /\ frame.life # "none" => (revival.observable <=> Observing(session))

\* A frame in view: its pages are shown; after a unit, whoever does not know is
\* late; after two, everybody does; and from then on its beats are heard.
InView ==
  /\ past.calm > 0 => ~FrameHidden /\ ~pages.host
  /\ frame.life = "live" /\ past.calm > 0 => /\ HostUnaware => "host" \in clock.late
                                             /\ FrameUnaware => "frame" \in clock.late
  /\ frame.life = "live" /\ past.calm > 1 => ~frame.said /\ Observing(session) /\ ~HiddenInWire
  /\ frame.life = "live" /\ past.calm > 1 /\ (Heard \/ past.calm > 2) => IsHealthy

\* What a lost frame is owed: the units before the mount notices its page, the
\* misses until the verdict, and then what is left of the grace.
OwedFor(m, r, owed, watch, flying, unaware, late) ==
  /\ unaware => owed <= 1 /\ (owed = 1 => late)
  /\ flying => owed = 0
  /\ m.state # "suspect" => owed <= 1 + m.missed + watch
  /\ m.state = "suspect" => owed + r.grace <= 4 + Grace * Backoff ^ r.spent

Answered ==
  /\ pages.host => past.owed = 0
  /\ pages.inPage /\ frame.life \in Lost /\ ~past.brief
       => OwedFor(session.monitor, revival, past.owed, Due("watch"), BeatInWire,
                  HostUnaware, "host" \in clock.late)

FInv == IInv /\ Reported /\ Sighted /\ Inspected /\ InView /\ Answered

\* The watchdog's and the policy's operators, as far as these go.
LEMMA SetObservableJudges ==
  ASSUME NEW m \in Monitor, NEW seen \in BOOLEAN, Judges(m)
  PROVE  /\ Judges(SetObservable(m, seen))
         /\ SetObservable(m, seen).state = "suspect" => m.state = "suspect"
         /\ m.observable = seen => SetObservable(m, seen) = m
<1> DEFINE x == IF m.running /\ ~seen THEN "unobservable" ELSE m.state
           k == IF m.running /\ seen THEN 0 ELSE m.missed
           n == [m EXCEPT !.observable = seen, !.state = x, !.missed = k]
<1>1. SetObservable(m, seen) = IF m.observable = seen THEN m ELSE n
  BY DEF SetObservable, Monitor
<1>2. /\ n.observable = seen /\ n.state = x /\ n.missed = k /\ n.running = m.running
  BY DEF Monitor
<1>3. Judges(n) /\ (x = "suspect" => m.state = "suspect")
  BY <1>2 DEF Judges, Monitor, MissThreshold
<1> HIDE DEF n, x, k
<1>4. QED
  BY <1>1, <1>2, <1>3

LEMMA BeatJudges ==
  ASSUME NEW m \in Monitor, Judges(m)
  PROVE  Judges(Beat(m)) /\ Beat(m).state # "suspect"
BY BeatType DEF Judges, MissThreshold

LEMMA StartJudges ==
  ASSUME NEW m \in Monitor, ~m.running
  PROVE  Judges(Start(m)) /\ Start(m).state # "suspect"
BY StartType DEF Judges, MissThreshold

LEMMA StopJudges ==
  ASSUME NEW m \in Monitor
  PROVE  Judges(Stop(m)) /\ Stop(m).state # "suspect"
BY StopType DEF Judges

LEMMA WatchedJudges ==
  ASSUME NEW m \in Monitor, Judges(m)
  PROVE  /\ Judges(Watched(m))
         /\ Watched(m).state # "suspect" /\ m.running /\ m.observable
              => Watched(m).missed = m.missed + 1
         /\ Unresponsive(m) => Watched(m).state = "suspect" /\ m.missed = 2
         /\ ~Unresponsive(m) => Watched(m).state = m.state
         /\ ~m.observable => Watched(m) = m
<1> DEFINE x == IF Unresponsive(m) THEN "suspect" ELSE m.state
           k == IF m.missed < MissThreshold THEN m.missed + 1 ELSE m.missed
           n == [m EXCEPT !.missed = k, !.state = x]
<1>1. Watched(m) = IF m.running /\ m.observable THEN n ELSE m
  BY DEF Watched, Monitor
<1>2. /\ n.observable = m.observable /\ n.state = x /\ n.missed = k /\ n.running = m.running
  BY DEF Monitor
<1>3. m.missed \in 0 .. 3
  BY DEF Monitor, MissThreshold
<1>4. Unresponsive(m) => /\ m.running /\ m.observable /\ m.missed = 2
  BY <1>3 DEF Unresponsive, Judges, MissThreshold
<1>5. m.running /\ m.observable /\ x # "suspect" => m.missed + 1 < 3
  BY <1>3 DEF Unresponsive, MissThreshold
<1>6. m.running /\ m.observable => Judges(n)
  BY <1>2, <1>3, <1>5 DEF Judges, MissThreshold
<1>7. x # "suspect" /\ m.running /\ m.observable => k = m.missed + 1
  BY <1>3, <1>5 DEF MissThreshold
<1>8. Unresponsive(m) => x = "suspect"
  OBVIOUS
<1>9. ~Unresponsive(m) => x = m.state
  OBVIOUS
<1> HIDE DEF n, x, k
<1>10. QED
  BY <1>1, <1>2, <1>4, <1>6, <1>7, <1>8, <1>9

LEMMA GraceBounds ==
  ASSUME NEW r \in Policy
  PROVE  /\ Grace * Backoff ^ r.spent \in Nat /\ Grace <= Grace * Backoff ^ r.spent
         /\ Grace \in Nat
         /\ r.grace \in Int /\ r.grace >= -1
BY PolicyAssumption, GraceAssumption, BackoffAssumption DEF Policy, Clock, Off

LEMMA NewRevivalWaits == Waits(NewRevival) /\ NewRevival.grace = Off
<1>1. NewRevival.grace = Off /\ ~NewRevival.held /\ NewRevival \in Policy
  BY NewRevivalType DEF NewRevival
<1>2. Grace * Backoff ^ NewRevival.spent \in Nat
  BY <1>1, GraceBounds
<1>3. QED
  BY <1>1, <1>2 DEF Waits, Off

LEMMA ScheduleWaits ==
  ASSUME NEW r \in Policy, Single(r), Waits(r)
  PROVE  /\ Waits(Schedule(r))
         /\ Schedule(r).observable = r.observable
         /\ r.observable => Schedule(r).grace # Off
<1> DEFINE g == Grace * Backoff ^ r.spent
           h == IF r.grace # Off \/ r.held THEN r.grace ELSE g
<1>1. g \in Nat /\ Off \notin Nat
  BY GraceBounds, OffIsNone
<1>2. Schedule(r) = [r EXCEPT !.stability = Off, !.grace = h]
  BY DEF Schedule, Policy
<1>3. h <= g /\ (h = Off => r.held)
  BY <1>1, GraceBounds DEF Waits
<1> HIDE DEF g, h
<1>4. /\ Schedule(r).grace = h /\ Schedule(r).spent = r.spent
      /\ Schedule(r).held = r.held /\ Schedule(r).observable = r.observable
  BY <1>2 DEF Policy
<1>5. QED
  BY <1>3, <1>4 DEF Waits, g

LEMMA SetJudgeableWaits ==
  ASSUME NEW r \in Policy, Single(r), NEW seen \in BOOLEAN, Waits(r)
  PROVE  /\ Waits(SetJudgeable(r, seen))
         /\ SetJudgeable(r, seen).observable = seen
         /\ r.grace # Off => SetJudgeable(r, seen).grace = r.grace
<1>1. CASE seen /\ r.held
  <2>1. SetJudgeable(r, seen) = [r EXCEPT !.observable = TRUE, !.held = FALSE, !.grace = Grace]
    BY <1>1 DEF SetJudgeable
  <2>2. r.grace = Off
    BY <1>1 DEF Single
  <2>3. QED
    BY <1>1, <2>1, <2>2, GraceBounds DEF Waits, Policy
<1>2. CASE ~(seen /\ r.held)
  <2>1. SetJudgeable(r, seen) = [r EXCEPT !.observable = seen]
    BY <1>2 DEF SetJudgeable
  <2>2. QED
    BY <1>2, <2>1 DEF Waits, Policy
<1>3. QED
  BY <1>1, <1>2

LEMMA ConnectFailedWaits ==
  ASSUME NEW r \in Policy, Single(r), Waits(r)
  PROVE  Waits(ConnectFailed(r))
<1> DEFINE q == [r EXCEPT !.reopening = FALSE]
<1>1. q \in Policy /\ Single(q) /\ Waits(q)
  BY DEF Policy, Single, Waits
<1> HIDE DEF q
<1>2. Waits(Schedule(q))
  BY <1>1, ScheduleWaits
<1>3. QED
  BY <1>2 DEF ConnectFailed, q

LEMMA FiredWaits ==
  ASSUME NEW r \in Policy, Single(r), r.grace # Off, NEW healthy \in BOOLEAN, Waits(r)
  PROVE  /\ Waits(Fired(r, healthy))
         /\ Fired(r, healthy).observable = r.observable
<1>1. Fired(r, healthy) \in Policy
  BY FiredType
<1>2. Grace * Backoff ^ Fired(r, healthy).spent \in Nat
  BY <1>1, GraceBounds
<1> DEFINE v == Verdict(r, healthy)
<1>3. /\ v \in {"stayed", "held", "giveUp", "reopen"}
      /\ v = "held" => ~r.observable
  BY DEF Verdict
<1>4. ~r.held
  BY DEF Single
<1>5. /\ Fired(r, healthy).grace = Off /\ Fired(r, healthy).observable = r.observable
      /\ Fired(r, healthy).held => ~r.observable
  <2>1. CASE v = "stayed"
    BY <1>4, <2>1 DEF Fired, Policy
  <2>2. CASE v = "held"
    BY <1>3, <2>2 DEF Fired, Policy
  <2>3. CASE v = "giveUp"
    BY <1>4, <2>3 DEF Fired, Policy
  <2>4. CASE v = "reopen"
    BY <1>4, <2>4 DEF Fired, Policy
  <2>5. QED
    BY <1>3, <2>1, <2>2, <2>3, <2>4
<1>6. QED
  BY <1>2, <1>5 DEF Waits, Off

LEMMA OpenedWaits ==
  ASSUME NEW r \in Policy
  PROVE  Waits(Opened(r)) /\ Opened(r).observable = r.observable
<1>1. Grace * Backoff ^ r.spent \in Nat
  BY GraceBounds
<1>2. /\ Opened(r).grace = Off /\ ~Opened(r).held /\ Opened(r).observable = r.observable
      /\ Opened(r).spent = r.spent
  BY DEF Opened, Policy
<1>3. QED
  BY <1>1, <1>2 DEF Waits, Off

LEMMA EndedWaits ==
  ASSUME NEW r \in Policy, Single(r), r.stability # Off, Waits(r)
  PROVE  Waits(Ended(r)) /\ Ended(r).observable = r.observable
<1>1. Ended(r) \in Policy
  BY EndedType
<1>2. Grace * Backoff ^ Ended(r).spent \in Nat
  BY <1>1, GraceBounds
<1>3. r.grace = Off
  BY DEF Single
<1>4. Ended(r).grace = Off /\ Ended(r).held = r.held /\ Ended(r).observable = r.observable
  BY <1>3 DEF Ended, Policy
<1>5. QED
  BY <1>2, <1>4 DEF Waits, Off

\* A message appended to those in flight, and the oldest one taken off.
LEMMA AppendReports ==
  ASSUME wire \in Seq({"beat", "hidden", "visible"}), NEW x \in {"beat", "hidden", "visible"},
         wire' = Append(wire, x)
  PROVE  /\ HiddenInWire' <=> (HiddenInWire \/ x = "hidden")
         /\ VisibleInWire' <=> (VisibleInWire \/ x = "visible")
         /\ x = "visible" => Overtaken'
         /\ x = "beat" /\ Overtaken => Overtaken'
<1>1. /\ Len(wire') = Len(wire) + 1 /\ wire'[Len(wire) + 1] = x
      /\ \A i \in 1 .. Len(wire) : wire'[i] = wire[i]
      /\ DOMAIN wire = 1 .. Len(wire) /\ DOMAIN wire' = 1 .. (Len(wire) + 1)
      /\ Len(wire) \in Nat
  OBVIOUS
<1>2. /\ HiddenInWire' <=> (HiddenInWire \/ x = "hidden")
      /\ VisibleInWire' <=> (VisibleInWire \/ x = "visible")
  BY <1>1 DEF HiddenInWire, VisibleInWire
<1>3. ASSUME x = "visible" PROVE Overtaken'
  BY <1>1, <1>3 DEF Overtaken
<1>4. ASSUME x = "beat", Overtaken PROVE Overtaken'
  <2>1. SUFFICES ASSUME NEW i \in DOMAIN wire', wire'[i] = "hidden"
                 PROVE  \E j \in DOMAIN wire' : j > i /\ wire'[j] = "visible"
    BY DEF Overtaken
  <2>2. i \in DOMAIN wire /\ wire[i] = "hidden"
    BY <1>1, <1>4, <2>1
  <2>3. PICK j \in DOMAIN wire : j > i /\ wire[j] = "visible"
    BY <1>4, <2>2 DEF Overtaken
  <2>4. QED
    BY <1>1, <2>3
<1>5. QED
  BY <1>2, <1>3, <1>4

LEMMA TailReports ==
  ASSUME wire \in Seq({"beat", "hidden", "visible"}), wire # <<>>, wire' = Tail(wire)
  PROVE  /\ HiddenInWire' => HiddenInWire
         /\ Head(wire) = "hidden" => HiddenInWire
         /\ Head(wire) # "visible" => (VisibleInWire' <=> VisibleInWire)
         /\ Overtaken => Overtaken'
         /\ Overtaken /\ Head(wire) = "hidden" => VisibleInWire'
<1>1. Head(wire) = wire[1]
  OBVIOUS
<1>2. /\ Len(wire) \in Nat /\ Len(wire) >= 1
      /\ \A i \in 1 .. (Len(wire) - 1) : wire'[i] = wire[i + 1]
      /\ DOMAIN wire = 1 .. Len(wire) /\ DOMAIN wire' = 1 .. (Len(wire) - 1)
  OBVIOUS
<1>3. \A j \in DOMAIN wire : j > 1 => j - 1 \in DOMAIN wire' /\ wire'[j - 1] = wire[j]
  <2> SUFFICES ASSUME NEW j \in DOMAIN wire, j > 1
               PROVE  j - 1 \in DOMAIN wire' /\ wire'[j - 1] = wire[j]
    OBVIOUS
  <2>1. j - 1 \in 1 .. (Len(wire) - 1) /\ (j - 1) + 1 = j
    BY <1>2
  <2>2. QED
    BY <1>2, <2>1
<1>4. /\ HiddenInWire' => HiddenInWire
      /\ VisibleInWire' => VisibleInWire
      /\ Head(wire) = "hidden" => HiddenInWire
  BY <1>1, <1>2 DEF HiddenInWire, VisibleInWire
<1>5. ASSUME Head(wire) # "visible", VisibleInWire PROVE VisibleInWire'
  <2>1. PICK j \in DOMAIN wire : wire[j] = "visible"
    BY <1>5 DEF VisibleInWire
  <2>2. j > 1
    BY <1>1, <1>2, <1>5, <2>1
  <2>3. QED
    BY <1>3, <2>1, <2>2 DEF VisibleInWire
<1>6. ASSUME Overtaken PROVE Overtaken'
  <2>1. SUFFICES ASSUME NEW i \in DOMAIN wire', wire'[i] = "hidden"
                 PROVE  \E j \in DOMAIN wire' : j > i /\ wire'[j] = "visible"
    BY DEF Overtaken
  <2>2. i + 1 \in DOMAIN wire /\ wire[i + 1] = "hidden"
    BY <1>2, <2>1
  <2>3. PICK j \in DOMAIN wire : j > i + 1 /\ wire[j] = "visible"
    BY <1>6, <2>2 DEF Overtaken
  <2>4. j - 1 \in DOMAIN wire' /\ wire'[j - 1] = "visible" /\ j - 1 > i
    BY <1>2, <1>3, <2>1, <2>3
  <2>5. QED
    BY <2>4
<1>7. ASSUME Overtaken, Head(wire) = "hidden" PROVE VisibleInWire'
  <2>1. PICK j \in DOMAIN wire : j > 1 /\ wire[j] = "visible"
    BY <1>1, <1>2, <1>7 DEF Overtaken
  <2>2. QED
    BY <1>3, <2>1 DEF VisibleInWire
<1>8. QED
  BY <1>4, <1>5, <1>6, <1>7

LEMMA EmptyReports == wire = <<>> => ~HiddenInWire /\ ~VisibleInWire /\ Overtaken
BY DEF HiddenInWire, VisibleInWire, Overtaken

LEMMA OneReport ==
  ASSUME NEW x \in {"hidden", "visible"}, wire = <<x>>
  PROVE  /\ HiddenInWire <=> x = "hidden"
         /\ VisibleInWire <=> x = "visible"
         /\ x = "visible" => Overtaken
         /\ ~BeatInWire
BY DEF HiddenInWire, VisibleInWire, Overtaken, BeatInWire

-----------------------------------------------------------------------------
(* Every action keeps these.                                               *)

Sharp == Reported /\ Sighted /\ Inspected /\ InView /\ Answered

LEMMA SharpParts ==
  ASSUME FInv
  PROVE  /\ IInv /\ Reported /\ Sighted /\ Inspected /\ InView /\ Answered
         /\ Judges(session.monitor) /\ Waits(revival)
         /\ past.owed \in 0 .. Patience + 1 /\ past.owed \in Nat
         /\ session.monitor.missed \in 0 .. 3
<1>1. IInv
  BY DEF FInv
<1>2. past.owed \in 0 .. Patience + 1 /\ Patience + 1 \in Nat
  BY <1>1, Parts, PastFields, PatienceType
<1>3. session.monitor.missed \in 0 .. 3
  BY <1>1, Parts DEF Monitor, MissThreshold
<1>4. QED
  BY <1>1, <1>2, <1>3 DEF FInv, Inspected

\* Telling the watchdog and the policy what the mount observes.
LEMMA ObserveInspects ==
  ASSUME NEW s \in SessionType, NEW r \in Policy, Single(r), past \in Past, Observe(s, r),
         Judges(s.monitor), Waits(r)
  PROVE  /\ session'.selfHidden = s.selfHidden /\ session'.peerHidden = s.peerHidden
         /\ Observing(session') <=> Observing(s)
         /\ session'.monitor.running = s.monitor.running
         /\ session'.monitor.missed \in {0, s.monitor.missed}
         /\ session'.monitor.observable <=> Observing(s)
         /\ session'.monitor.state \in {s.monitor.state, "unobservable"}
         /\ Judges(session'.monitor)
         /\ session'.monitor.state = "suspect" => s.monitor.state = "suspect"
         /\ (s.monitor.observable <=> Observing(s)) => session'.monitor = s.monitor
         /\ Waits(revival') /\ (revival'.observable <=> Observing(session'))
         /\ r.grace # Off => revival'.grace = r.grace
         /\ revival'.spent = r.spent
         /\ past'.owed = past.owed /\ past'.calm = past.calm /\ past'.brief = past.brief
<1> DEFINE seen == Observing(s)
           m == SetObservable(s.monitor, seen)
           n == IF seen THEN past.sight ELSE 0
<1>1. seen \in BOOLEAN /\ s.monitor \in Monitor
  BY DEF Observing, SessionType
<1>2. /\ m \in Monitor /\ m.running = s.monitor.running /\ m.observable = seen
      /\ m.missed \in {0, s.monitor.missed}
      /\ m.state \in {s.monitor.state, "unobservable"}
      /\ Judges(m) /\ (m.state = "suspect" => s.monitor.state = "suspect")
      /\ s.monitor.observable = seen => m = s.monitor
  BY <1>1, SetObservableType, SetObservableJudges
<1>3. session' = [s EXCEPT !.monitor = m] /\ revival' = SetJudgeable(r, seen)
  BY DEF Observe, SessionType
<1>4. /\ Waits(revival') /\ revival'.observable = seen /\ revival'.spent = r.spent
      /\ r.grace # Off => revival'.grace = r.grace
  BY <1>1, <1>3, SetJudgeableType, SetJudgeableWaits
<1>5. past' = [past EXCEPT !.sight = n]
  BY DEF Observe, Past
<1> HIDE DEF m, n
<1>6. /\ session'.monitor = m
      /\ session'.selfHidden = s.selfHidden /\ session'.peerHidden = s.peerHidden
  BY <1>3 DEF SessionType
<1>7. Observing(session') <=> Observing(s)
  BY <1>6 DEF Observing
<1>8. past'.owed = past.owed /\ past'.calm = past.calm /\ past'.brief = past.brief
  BY <1>5 DEF Past
<1>9. s.monitor.observable \in BOOLEAN
  BY <1>1 DEF Monitor
<1>10. /\ revival'.observable <=> Observing(session')
       /\ session'.monitor.observable <=> Observing(s)
       /\ (s.monitor.observable <=> Observing(s)) => session'.monitor = s.monitor
  BY <1>1, <1>2, <1>4, <1>6, <1>7, <1>9
<1>11. QED
  BY <1>2, <1>4, <1>6, <1>7, <1>8, <1>10

\* A mount starts with nothing reported and a watchdog that does not run.
LEMMA MountSharp ==
  ASSUME FInv, NEW r \in Policy, Single(r), Waits(r), Mount(r), UNCHANGED <<pages, clock>>
  PROVE  Sharp'
<1> DEFINE z == [NewSession EXCEPT !.selfHidden = pages.host]
<1>1. frame' = [life |-> "connecting", said |-> FALSE] /\ wire' = <<>> /\ Observe(z, r)
  BY DEF Mount
<1>2. z \in SessionType /\ z.monitor = NewMonitor /\ ~z.peerHidden
  BY NewSessionType, SharpParts, Parts DEF SessionType, PagesType, NewSession
<1> HIDE DEF z
<1>3. ~z.monitor.running /\ z.monitor.state = "gone" /\ Judges(z.monitor)
  BY <1>2, NewSessionType DEF Judges
<1>4. /\ ~session'.peerHidden /\ session'.monitor.state # "suspect"
      /\ Judges(session'.monitor)
      /\ Waits(revival') /\ (revival'.observable <=> Observing(session'))
      /\ past'.owed = past.owed /\ past'.calm = past.calm
  BY <1>1, <1>2, <1>3, SharpParts, Parts, ObserveInspects
<1>5. frame'.life = "connecting" /\ ~frame'.said
  BY <1>1
<1>6. ~HiddenInWire' /\ Overtaken'
  BY <1>1 DEF HiddenInWire, Overtaken
<1>7. Reported' /\ Sighted'
  BY <1>4, <1>6 DEF Reported, Sighted
<1>8. Inspected'
  BY <1>1, <1>4, <1>5 DEF Inspected, Established, Suspected
<1>9. FrameHidden' = FrameHidden
  BY DEF FrameHidden
<1>10. InView'
  BY <1>4, <1>5, <1>9, SharpParts DEF InView
<1>11. Answered'
  BY <1>4, <1>5, SharpParts DEF Answered, Lost
<1>12. QED
  BY <1>7, <1>8, <1>10, <1>11 DEF Sharp

LEMMA UnmountSharp ==
  ASSUME FInv, NEW r, Waits(r), Unmount(r), pages' = pages
  PROVE  Sharp'
<1>1. /\ frame' = [life |-> "none", said |-> FALSE] /\ wire' = <<>>
      /\ session' = NewSession /\ revival' = r /\ past' = NoPast
  BY DEF Unmount
<1>2. ~session'.peerHidden /\ Judges(session'.monitor) /\ session'.monitor.state = "gone"
  BY <1>1, NewSessionType DEF NewSession, Judges
<1>3. frame'.life = "none" /\ past'.calm = 0 /\ past'.owed = 0
  BY <1>1 DEF NoPast
<1>4. ~HiddenInWire' /\ Overtaken'
  BY <1>1 DEF HiddenInWire, Overtaken
<1>5. Reported' /\ Sighted'
  BY <1>2, <1>4 DEF Reported, Sighted
<1>6. Inspected'
  BY <1>1, <1>2, <1>3 DEF Inspected, Established, Suspected
<1>7. InView' /\ Answered'
  BY <1>3 DEF InView, Answered, Lost
<1>8. QED
  BY <1>5, <1>6, <1>7 DEF Sharp

\* A set watchdog that suspects can judge.
LEMMA SuspectsInView ==
  ASSUME FInv, Suspected
  PROVE  /\ session.monitor.running /\ session.monitor.observable /\ Observing(session)
         /\ revival.observable /\ revival.grace # Off /\ frame.life # "none"
<1>1. session.monitor.running /\ session.monitor.observable
  BY SharpParts DEF Judges, Suspected
<1>2. Observing(session) /\ frame.life # "none"
  BY <1>1, SharpParts, Parts, NewSessionType DEF Told, Watching
<1>3. QED
  BY <1>1, <1>2, SharpParts DEF Inspected

LEMMA BeatsSharp ==
  ASSUME FInv, Beats
  PROVE  Sharp'
<1>1. /\ wire' = Append(wire, "beat") /\ frame.life = "live"
      /\ clock' = [clock EXCEPT !.due = @ \ {"beat"}]
      /\ past' = [past EXCEPT !.silent = 0]
      /\ UNCHANGED <<pages, frame, session, revival>>
  BY DEF Beats
<1>2. clock'.late = clock.late
  BY <1>1, SharpParts, Parts DEF ClockType
<1>3. past'.calm = past.calm /\ past'.owed = past.owed /\ past'.brief = past.brief
  BY <1>1, SharpParts, Parts DEF Past
<1>4. /\ BeatInWire' /\ (HiddenInWire' <=> HiddenInWire) /\ (VisibleInWire' <=> VisibleInWire)
      /\ Overtaken => Overtaken'
  BY <1>1, SharpParts, Parts, WireAppend, AppendReports
<1>5. Reported' /\ Sighted'
  BY <1>1, <1>3, <1>4, SharpParts DEF Reported, Sighted
<1>6. Inspected'
  BY <1>1, SharpParts DEF Inspected, Judges, Waits, Established, Suspected, Observing
<1>7. /\ FrameHidden' = FrameHidden /\ HostUnaware' = HostUnaware
      /\ FrameUnaware' = FrameUnaware /\ Observing(session') = Observing(session)
      /\ IsHealthy' = IsHealthy /\ ~Heard'
  BY <1>1, <1>4 DEF FrameHidden, HostUnaware, FrameUnaware, Observing, IsHealthy, Heard
<1>8. InView'
  BY <1>1, <1>2, <1>3, <1>4, <1>7, SharpParts DEF InView
<1>9. Answered'
  BY <1>1, <1>3, SharpParts DEF Answered, Lost
<1>10. QED
  BY <1>5, <1>6, <1>8, <1>9 DEF Sharp

LEMMA FrameSettlesSharp ==
  ASSUME FInv, FrameSettles
  PROVE  Sharp'
<1> DEFINE x == IF FrameHidden THEN "hidden" ELSE "visible"
<1>1. /\ FrameUnaware /\ frame.life = "live"
      /\ frame' = [frame EXCEPT !.said = FrameHidden] /\ wire' = Append(wire, x)
      /\ clock' = [clock EXCEPT !.late = @ \ {"frame"}]
      /\ UNCHANGED <<pages, session, revival, past>>
  BY DEF FrameSettles, FrameUnaware
<1>2. /\ frame'.said = FrameHidden /\ frame'.life = "live"
      /\ clock'.late = clock.late \ {"frame"}
  BY <1>1, SharpParts, Parts DEF ClockType, FrameType
<1>3. /\ HiddenInWire' <=> (HiddenInWire \/ x = "hidden")
      /\ VisibleInWire' <=> (VisibleInWire \/ x = "visible")
      /\ x = "visible" => Overtaken'
  BY <1>1, SharpParts, Parts, AppendReports
<1>4. /\ FrameHidden' = FrameHidden /\ HostUnaware' = HostUnaware
      /\ Observing(session') = Observing(session)
  BY <1>1, <1>2 DEF FrameHidden, HostUnaware, Observing
<1>5. ~FrameUnaware'
  BY <1>2, <1>4 DEF FrameUnaware
<1>6. Reported'
  BY <1>2, <1>3 DEF Reported
<1>7. Sighted'
  BY <1>1, <1>3, SharpParts DEF Sighted, FrameHidden
<1>8. Inspected'
  BY <1>1, <1>2, <1>4, SharpParts DEF Inspected, Established, Suspected
<1>9. past.calm <= 1
  <2>1. ASSUME past.calm > 1 PROVE FALSE
    <3>1. past.calm > 0 /\ FrameHidden \in BOOLEAN
      BY <2>1, SharpParts, Parts, PastFields DEF FrameHidden, PagesType
    <3>2. ~FrameHidden /\ ~frame.said
      BY <1>1, <2>1, <3>1, SharpParts DEF InView
    <3>3. QED
      BY <1>1, <3>1, <3>2, SharpParts, Parts DEF FrameUnaware, FrameType
  <2>2. QED
    BY <2>1, SharpParts, Parts, PastFields
<1>10. /\ past'.calm > 0 => ~FrameHidden' /\ ~pages'.host
       /\ past'.calm > 0 => (HostUnaware' => "host" \in clock'.late)
  BY <1>1, <1>2, <1>4, SharpParts DEF InView
<1>11. InView'
  BY <1>1, <1>5, <1>9, <1>10, SharpParts, Parts, PastFields DEF InView
<1>12. Answered'
  BY <1>1, <1>2, SharpParts DEF Answered, Lost
<1>13. QED
  BY <1>6, <1>7, <1>8, <1>11, <1>12 DEF Sharp

LEMMA OpenSharp ==
  ASSUME FInv, Open
  PROVE  Sharp'
BY NewRevivalType, NewRevivalWaits, MountSharp DEF Open

LEMMA ConnectFailsSharp ==
  ASSUME FInv, ConnectFails
  PROVE  Sharp'
BY SharpParts, Parts, ConnectFailedWaits, UnmountSharp DEF ConnectFails

LEMMA GraceReopensSharp ==
  ASSUME FInv, GraceReopens
  PROVE  Sharp'
<1>1. /\ revival.grace = 0
      /\ Mount(Fired(revival, FALSE)) \/ Unmount(NewRevival)
      /\ UNCHANGED <<pages, clock>>
  BY DEF GraceReopens
<1>2. revival.grace # Off
  BY <1>1, OffIsNone
<1>3. /\ Fired(revival, FALSE) \in Policy /\ Single(Fired(revival, FALSE))
      /\ Waits(Fired(revival, FALSE))
  BY <1>2, SharpParts, Parts, FiredType, FiredWaits
<1>4. QED
  BY <1>1, <1>3, MountSharp, UnmountSharp, NewRevivalWaits

LEMMA GraceGivesUpSharp ==
  ASSUME FInv, GraceGivesUp
  PROVE  Sharp'
BY UnmountSharp, NewRevivalWaits DEF GraceGivesUp

\* A step of the policy alone, which a suspicion rules out.
LEMMA PolicySharp ==
  ASSUME FInv, ~Suspected, Waits(revival'), revival'.observable = revival.observable,
         UNCHANGED <<pages, frame, wire, session, clock, past>>
  PROVE  Sharp'
<1>1. Reported' /\ Sighted'
  BY SharpParts DEF Reported, Sighted, VisibleInWire, HiddenInWire, Overtaken
<1>2. ~Suspected' /\ Established' = Established
  BY DEF Suspected, Established
<1>3. Inspected'
  BY <1>2, SharpParts DEF Inspected, Observing
<1>4. InView'
  BY SharpParts DEF InView, FrameHidden, HostUnaware, FrameUnaware, Observing, IsHealthy,
     Heard, HiddenInWire, BeatInWire
<1>5. /\ HostUnaware' = HostUnaware /\ BeatInWire' = BeatInWire
      /\ Due("watch")' = Due("watch")
  BY DEF HostUnaware, BeatInWire, Due
<1>6. Answered'
  BY <1>2, <1>5, SharpParts DEF Answered, OwedFor, Suspected
<1>7. QED
  BY <1>1, <1>3, <1>4, <1>6 DEF Sharp

LEMMA GraceWaitsSharp ==
  ASSUME FInv, GraceWaits
  PROVE  Sharp'
<1>1. /\ revival.grace # Off /\ Verdict(revival, IsHealthy) \in {"stayed", "held"}
      /\ revival' = Fired(revival, IsHealthy) /\ IsHealthy \in BOOLEAN
      /\ UNCHANGED <<pages, frame, wire, session, clock, past>>
  BY OffIsNone DEF GraceWaits, IsHealthy
<1>2. Waits(revival') /\ revival'.observable = revival.observable
  BY <1>1, SharpParts, Parts, FiredWaits
<1>3. ~Suspected
  <2>1. ASSUME Suspected PROVE FALSE
    <3>1. revival.observable /\ ~IsHealthy
      BY <2>1, SuspectsInView DEF IsHealthy, Suspected
    <3>2. Verdict(revival, IsHealthy) \notin {"stayed", "held"}
      BY <3>1 DEF Verdict
    <3>3. QED
      BY <1>1, <3>2
  <2>2. QED
    BY <2>1
<1>4. QED
  BY <1>1, <1>2, <1>3, PolicySharp

LEMMA StabilityEndsSharp ==
  ASSUME FInv, StabilityEnds
  PROVE  Sharp'
<1>1. /\ revival.stability # Off /\ revival' = Ended(revival)
      /\ UNCHANGED <<pages, frame, wire, session, clock, past>>
  BY OffIsNone DEF StabilityEnds
<1>2. Waits(revival') /\ revival'.observable = revival.observable
  BY <1>1, SharpParts, Parts, EndedWaits
<1>3. ~Suspected
  BY <1>1, SuspectsInView, SharpParts, Parts DEF Single
<1>4. QED
  BY <1>1, <1>2, <1>3, PolicySharp

\* What the mount observes changes; what is owed is judged before the step.
LEMMA ObserveAnswers ==
  ASSUME FInv, NEW s \in SessionType, Observe(s, revival), s.monitor = session.monitor,
         s.peerHidden \in BOOLEAN, frame' = frame, frame.life # "none", pages' = pages,
         Due("watch")' = Due("watch"),
         frame.life = "connecting" => ~s.peerHidden /\ wire' = <<>>,
         frame.life \in Lost /\ pages.inPage /\ ~past.brief =>
           /\ HostUnaware' => HostUnaware /\ ("host" \in clock.late => "host" \in clock'.late)
           /\ BeatInWire' => BeatInWire
           /\ past.owed <= 1 \/ (Observing(s) <=> Observing(session))
  PROVE  Inspected' /\ Answered'
<1>1. /\ Observing(session') <=> Observing(s)
      /\ session'.monitor.running = session.monitor.running
      /\ Judges(session'.monitor)
      /\ session'.monitor.state = "suspect" => session.monitor.state = "suspect"
      /\ session'.monitor.missed \in {0, session.monitor.missed}
      /\ (session.monitor.observable <=> Observing(s)) => session'.monitor = session.monitor
      /\ Waits(revival') /\ (revival'.observable <=> Observing(session'))
      /\ revival.grace # Off => revival'.grace = revival.grace
      /\ revival'.spent = revival.spent
      /\ past'.owed = past.owed /\ past'.brief = past.brief
      /\ session'.peerHidden = s.peerHidden
  BY SharpParts, Parts, ObserveInspects
<1>2. Inspected'
  BY <1>1, SharpParts DEF Inspected, Established, Suspected
<1>3. pages'.host => past'.owed = 0
  BY <1>1, SharpParts DEF Answered
<1>4. ASSUME pages.inPage, frame.life \in Lost, ~past.brief
      PROVE  OwedFor(session'.monitor, revival', past'.owed, Due("watch")', BeatInWire',
                     HostUnaware', "host" \in clock'.late)
  <2>1. OwedFor(session.monitor, revival, past.owed, Due("watch"), BeatInWire,
                HostUnaware, "host" \in clock.late)
    BY <1>4, SharpParts DEF Answered
  <2>2. /\ HostUnaware' => past'.owed <= 1 /\ (past'.owed = 1 => "host" \in clock'.late)
        /\ BeatInWire' => past'.owed = 0
    BY <1>1, <1>4, <2>1 DEF OwedFor
  <2>3. CASE Observing(s) <=> Observing(session)
    <3>1. session'.monitor = session.monitor
      BY <1>1, <2>3, SharpParts, Parts DEF Told
    <3>2. session'.monitor.state = "suspect" => revival'.grace = revival.grace
      BY <1>1, SharpParts DEF Inspected, Suspected
    <3>3. QED
      BY <1>1, <2>1, <2>2, <3>1, <3>2 DEF OwedFor
  <2>4. CASE past.owed <= 1
    <3>1. session'.monitor.missed \in Nat /\ Due("watch") \in {0, 1}
      BY <1>1, DueType, SharpParts
    <3>2. /\ Grace * Backoff ^ revival'.spent \in Nat
          /\ revival'.grace <= Grace * Backoff ^ revival'.spent
      BY <1>1, SharpParts, Parts, GraceBounds DEF Waits
    <3>3. session'.monitor.state = "suspect" => revival'.grace \in Int
      BY <1>1, SharpParts, Parts, GraceBounds DEF Inspected, Suspected
    <3>4. past'.owed \in Nat /\ past'.owed <= 1
      BY <1>1, <2>4, SharpParts
    <3>5. session'.monitor.state # "suspect" => past'.owed <= 1 + session'.monitor.missed + Due("watch")
      BY <3>1, <3>4
    <3>6. session'.monitor.state = "suspect"
            => past'.owed + revival'.grace <= 4 + Grace * Backoff ^ revival'.spent
      BY <3>2, <3>3, <3>4
    <3>7. QED
      BY <2>2, <3>5, <3>6 DEF OwedFor
  <2>5. QED
    BY <1>4, <2>3, <2>4
<1>5. Answered'
  BY <1>1, <1>3, <1>4 DEF Answered
<1>6. QED
  BY <1>2, <1>5

LEMMA DeliverSharp ==
  ASSUME FInv, Deliver
  PROVE  Sharp'
<1>1. wire # <<>> /\ wire' = Tail(wire) /\ UNCHANGED <<pages, frame, clock>>
  BY DEF Deliver
<1>2. /\ HiddenInWire' => HiddenInWire
      /\ Head(wire) = "hidden" => HiddenInWire
      /\ Head(wire) # "visible" => (VisibleInWire' <=> VisibleInWire)
      /\ Overtaken => Overtaken'
      /\ Overtaken /\ Head(wire) = "hidden" => VisibleInWire'
      /\ Head(wire) \in {"beat", "hidden", "visible"}
      /\ BeatInWire' => BeatInWire
      /\ Head(wire) = "beat" => BeatInWire
      /\ Head(wire) # "beat" => (BeatInWire' <=> BeatInWire)
  BY <1>1, SharpParts, Parts, WireTail, TailReports
<1>3. frame.life # "none"
  BY <1>1, SharpParts, Parts DEF Watching
<1>4. FrameHidden' = FrameHidden /\ FrameUnaware' = FrameUnaware /\ Due("watch")' = Due("watch")
  BY <1>1 DEF FrameHidden, FrameUnaware, Due
<1>5. CASE Head(wire) = "beat"
  <2> DEFINE m == Beat(session.monitor)
  <2>1. session' = [session EXCEPT !.monitor = m] /\ UNCHANGED <<revival, past>>
    BY <1>5, SharpParts, Parts DEF Deliver, SessionType
  <2>2. /\ m \in Monitor /\ m.running = session.monitor.running
        /\ m.missed = 0 /\ Judges(m) /\ m.state # "suspect"
        /\ session.monitor.running /\ session.monitor.observable => m.state = "healthy"
    BY SharpParts, Parts, BeatType, BeatJudges
  <2> HIDE DEF m
  <2>3. /\ session'.monitor = m /\ session'.peerHidden = session.peerHidden
        /\ session'.selfHidden = session.selfHidden
    BY <2>1, SharpParts, Parts DEF SessionType
  <2>4. Observing(session') = Observing(session) /\ HostUnaware' = HostUnaware
    BY <1>1, <2>3 DEF Observing, HostUnaware
  <2>5. Reported' /\ Sighted'
    BY <1>1, <1>2, <1>5, <2>1, <2>3, SharpParts DEF Reported, Sighted
  <2>6. Inspected'
    BY <1>1, <2>1, <2>2, <2>3, <2>4, SharpParts DEF Inspected, Established, Suspected
  <2>7. ASSUME frame.life = "live", past.calm > 1 PROVE IsHealthy'
    <3>1. Observing(session) /\ session.monitor.running
      BY <2>7, SharpParts DEF InView, Inspected, Established
    <3>2. QED
      BY <2>2, <2>3, <3>1, SharpParts, Parts DEF Told, IsHealthy
  <2>8. InView'
    BY <1>1, <1>2, <1>4, <2>1, <2>4, <2>7, SharpParts DEF InView
  <2>9. Answered'
    BY <1>1, <1>2, <1>5, <2>1, <2>2, <2>3, <2>4, DueType, <1>4, SharpParts
    DEF Answered, OwedFor
  <2>10. QED
    BY <2>5, <2>6, <2>8, <2>9 DEF Sharp
<1>6. CASE Head(wire) # "beat"
  <2> DEFINE z == [session EXCEPT !.peerHidden = Head(wire) = "hidden"]
  <2>1. Observe(z, revival)
    BY <1>6 DEF Deliver
  <2>2. /\ z \in SessionType /\ z.monitor = session.monitor
        /\ z.selfHidden = session.selfHidden /\ z.peerHidden = (Head(wire) = "hidden")
    BY SharpParts, Parts DEF SessionType
  <2> HIDE DEF z
  <2>3. /\ session'.selfHidden = session.selfHidden
        /\ session'.peerHidden = (Head(wire) = "hidden")
        /\ Observing(session') <=> Observing(z)
        /\ (session.monitor.observable <=> Observing(z)) => session'.monitor = session.monitor
        /\ past'.calm = past.calm /\ past'.brief = past.brief
    BY <2>1, <2>2, SharpParts, Parts, ObserveInspects
  <2>4. HostUnaware' = HostUnaware
    BY <1>1, <2>3 DEF HostUnaware
  <2>5. Reported'
    BY <1>1, <1>2, <1>6, <2>3, SharpParts DEF Reported
  <2>6. Sighted'
    BY <1>1, <1>2, <2>3, SharpParts DEF Sighted
  <2>7. ASSUME pages.inPage, ~past.brief
        PROVE  past.owed <= 1 \/ (Observing(z) <=> Observing(session))
    <3>1. CASE pages.host
      BY <3>1, SharpParts DEF Answered
    <3>2. CASE ~pages.host
      BY <1>2, <2>2, <2>7, <3>2, SharpParts DEF Sighted, Observing
    <3>3. QED
      BY <3>1, <3>2
  <2>8. Inspected' /\ Answered'
    <3>1. z.peerHidden \in BOOLEAN /\ frame.life # "connecting"
      BY <1>1, <2>2, SharpParts DEF Inspected
    <3>2. QED
      BY <1>1, <1>2, <1>3, <1>4, <2>1, <2>2, <2>4, <2>7, <3>1, ObserveAnswers
  <2>9. ASSUME frame.life = "live", past.calm > 1
        PROVE  Observing(session') /\ session'.monitor = session.monitor
    <3>1. Observing(session) /\ ~HiddenInWire
      BY <2>9, SharpParts DEF InView
    <3>2. Observing(z)
      BY <1>2, <2>2, <3>1 DEF Observing
    <3>3. QED
      BY <2>3, <3>1, <3>2, SharpParts, Parts DEF Told
  <2>10. Heard' = Heard
    BY <1>1, <1>2, <1>6 DEF Heard
  <2>11. InView'
    BY <1>1, <1>2, <1>4, <2>3, <2>4, <2>9, <2>10, SharpParts DEF InView, IsHealthy
  <2>12. QED
    BY <2>5, <2>6, <2>8, <2>11 DEF Sharp
<1>7. QED
  BY <1>5, <1>6

LEMMA HostSettlesSharp ==
  ASSUME FInv, HostSettles
  PROVE  Sharp'
<1> DEFINE h == session.peerHidden /\ (pages.host \/ ~pages.inPage)
           z == [session EXCEPT !.selfHidden = pages.host, !.peerHidden = h]
<1>1. /\ HostUnaware /\ Observe(z, revival)
      /\ clock' = [clock EXCEPT !.late = @ \ {"host"}] /\ UNCHANGED <<pages, frame, wire>>
  BY SharpParts, Parts DEF HostSettles, SessionType
<1>2. /\ z \in SessionType /\ z.monitor = session.monitor
      /\ z.selfHidden = pages.host /\ z.peerHidden = h /\ h \in BOOLEAN
  BY SharpParts, Parts DEF SessionType, PagesType
<1> HIDE DEF z
<1>3. /\ session'.selfHidden = pages.host /\ session'.peerHidden = h
      /\ Observing(session') <=> Observing(z)
      /\ past'.calm = past.calm /\ past'.brief = past.brief
  BY <1>1, <1>2, SharpParts, Parts, ObserveInspects
<1>4. clock'.due = clock.due /\ clock'.late = clock.late \ {"host"}
  BY <1>1, SharpParts, Parts DEF ClockType
<1>5. /\ ~HostUnaware' /\ FrameUnaware' = FrameUnaware /\ FrameHidden' = FrameHidden
      /\ Due("watch")' = Due("watch")
      /\ HiddenInWire' = HiddenInWire /\ VisibleInWire' = VisibleInWire
      /\ Overtaken' = Overtaken /\ BeatInWire' = BeatInWire
  BY <1>1, <1>3, <1>4 DEF HostUnaware, FrameUnaware, FrameHidden, Due, HiddenInWire,
     VisibleInWire, Overtaken, BeatInWire
<1>6. Reported' /\ Sighted'
  BY <1>1, <1>3, <1>5, SharpParts DEF Reported, Sighted
<1>7. frame.life # "none"
  BY <1>1 DEF HostUnaware
<1>8. /\ frame.life \in Lost /\ pages.inPage /\ ~past.brief => past.owed <= 1
      /\ frame.life = "connecting" => ~z.peerHidden /\ wire' = <<>>
  BY <1>1, <1>2, SharpParts DEF Answered, OwedFor, Inspected
<1>9. Inspected' /\ Answered'
  BY <1>1, <1>2, <1>5, <1>7, <1>8, ObserveAnswers
<1>10. frame.life = "live" => past.calm <= 1
  <2>1. ASSUME frame.life = "live", past.calm > 1 PROVE FALSE
    <3>1. past.calm > 0
      BY <2>1, SharpParts, Parts, PastFields
    <3>2. Observing(session) /\ ~pages.host
      BY <2>1, <3>1, SharpParts DEF InView
    <3>3. QED
      BY <1>1, <3>2, SharpParts, Parts DEF HostUnaware, Observing, SessionType, PagesType
  <2>2. QED
    BY <2>1, SharpParts, Parts, PastFields
<1>11. ~(frame'.life = "live" /\ past'.calm > 1)
  BY <1>1, <1>3, <1>10, SharpParts, Parts, PastFields
<1>12. InView'
  BY <1>1, <1>3, <1>4, <1>5, <1>11, SharpParts DEF InView
<1>13. QED
  BY <1>6, <1>9, <1>12 DEF Sharp

LEMMA WatchTickSharp ==
  ASSUME FInv, WatchTick
  PROVE  Sharp'
<1> DEFINE m == session.monitor
           n == Watched(m)
<1>1. /\ m.running /\ "watch" \in clock.due /\ pages' = pages
      /\ clock' = [clock EXCEPT !.due = @ \ {"watch"}]
  BY DEF WatchTick
<1>2. clock'.late = clock.late /\ clock'.due = clock.due \ {"watch"}
  BY <1>1, SharpParts, Parts DEF ClockType
<1>3. Due("watch") = 1 /\ Due("watch")' = 0
  BY <1>1, <1>2 DEF Due
<1>4. CASE Unmount(NewRevival)
  BY <1>1, <1>4, NewRevivalWaits, UnmountSharp
<1>5. /\ n \in Monitor /\ n.running = m.running /\ n.observable = m.observable
      /\ Judges(n)
      /\ n.state # "suspect" /\ m.running /\ m.observable => n.missed = m.missed + 1
      /\ Unresponsive(m) => n.state = "suspect" /\ m.missed = 2
      /\ ~Unresponsive(m) => n.state = m.state
      /\ ~m.observable => n = m
  BY SharpParts, Parts, WatchedType, WatchedJudges
<1> HIDE DEF n
<1>6. ASSUME session' = [session EXCEPT !.monitor = n], UNCHANGED <<frame, wire>>,
             past'.owed = past.owed, past'.calm = past.calm, past'.brief = past.brief
      PROVE  /\ session'.monitor = n /\ Observing(session') = Observing(session)
             /\ HostUnaware' = HostUnaware /\ FrameUnaware' = FrameUnaware
             /\ FrameHidden' = FrameHidden /\ Heard' = Heard /\ Established' = Established
             /\ HiddenInWire' = HiddenInWire /\ BeatInWire' = BeatInWire
             /\ session'.peerHidden = session.peerHidden
             /\ Reported' /\ Sighted'
  <2>1. /\ session'.monitor = n /\ session'.selfHidden = session.selfHidden
        /\ session'.peerHidden = session.peerHidden
    BY <1>5, <1>6, SharpParts, Parts DEF SessionType
  <2>2. Observing(session') = Observing(session)
    BY <2>1 DEF Observing
  <2>3. /\ HostUnaware' = HostUnaware /\ FrameUnaware' = FrameUnaware
        /\ FrameHidden' = FrameHidden
    BY <1>1, <1>6, <2>1 DEF HostUnaware, FrameUnaware, FrameHidden
  <2>4. /\ HiddenInWire' = HiddenInWire /\ BeatInWire' = BeatInWire
        /\ VisibleInWire' = VisibleInWire /\ Overtaken' = Overtaken
        /\ Established' = Established
    BY <1>6 DEF HiddenInWire, BeatInWire, VisibleInWire, Overtaken, Established
  <2>5. Heard' = Heard
    BY <1>2, <2>4 DEF Heard
  <2>6. Reported' /\ Sighted'
    BY <1>1, <1>6, <2>1, <2>4, SharpParts DEF Reported, Sighted
  <2>7. QED
    BY <2>1, <2>2, <2>3, <2>4, <2>5, <2>6
<1>7. CASE /\ Unresponsive(m)
           /\ session' = [session EXCEPT !.monitor = n] /\ revival' = Schedule(revival)
           /\ past' = [past EXCEPT !.steady = 0] /\ UNCHANGED <<frame, wire>>
  <2>1. past'.owed = past.owed /\ past'.calm = past.calm /\ past'.brief = past.brief
    BY <1>7, SharpParts, Parts DEF Past
  <2>2. /\ session'.monitor = n /\ Observing(session') = Observing(session)
        /\ HostUnaware' = HostUnaware /\ FrameHidden' = FrameHidden
        /\ BeatInWire' = BeatInWire /\ Established' = Established
        /\ session'.peerHidden = session.peerHidden
        /\ Reported' /\ Sighted'
    BY <1>6, <1>7, <2>1
  <2>3. n.state = "suspect" /\ m.missed = 2 /\ m.state # "suspect" /\ m.observable
    BY <1>5, <1>7 DEF Unresponsive
  <2>4. Observing(session) /\ frame.life # "none"
    BY <1>1, <2>3, SharpParts, Parts, NewSessionType DEF Told, Watching
  <2>5. revival.observable
    BY <2>4, SharpParts DEF Inspected
  <2>6. /\ Waits(revival') /\ revival'.observable /\ revival'.grace # Off
        /\ revival' \in Policy
    BY <1>7, <2>5, SharpParts, Parts, ScheduleType, ScheduleWaits
  <2>7. Inspected'
    BY <1>1, <1>5, <1>7, <2>2, <2>4, <2>6, SharpParts DEF Inspected
  <2>8. past.calm = 0
    BY <2>2, <2>3, SharpParts, TheTickIsFair DEF Suspects
  <2>9. InView'
    BY <2>1, <2>8 DEF InView
  <2>10. /\ Grace * Backoff ^ revival'.spent \in Nat /\ revival'.grace \in Int
         /\ revival'.grace <= Grace * Backoff ^ revival'.spent
    BY <2>6, GraceBounds DEF Waits
  <2>11. ASSUME pages.inPage, frame.life \in Lost, ~past.brief
         PROVE  OwedFor(session'.monitor, revival', past'.owed, Due("watch")', BeatInWire',
                        HostUnaware', "host" \in clock'.late)
    <3>1. OwedFor(m, revival, past.owed, 1, BeatInWire, HostUnaware, "host" \in clock.late)
      BY <1>3, <2>11, SharpParts DEF Answered
    <3>2. past.owed <= 4 /\ past.owed \in Nat
      BY <2>3, <3>1, SharpParts DEF OwedFor
    <3>3. past.owed + revival'.grace <= 4 + Grace * Backoff ^ revival'.spent
      BY <2>10, <3>2
    <3>4. QED
      BY <1>2, <2>1, <2>2, <2>3, <3>1, <3>3 DEF OwedFor
  <2>12. Answered'
    BY <1>1, <1>7, <2>1, <2>11, SharpParts DEF Answered
  <2>13. QED
    BY <2>2, <2>7, <2>9, <2>12 DEF Sharp
<1>8. CASE /\ ~Unresponsive(m)
           /\ session' = [session EXCEPT !.monitor = n]
           /\ UNCHANGED <<frame, wire, revival, past>>
  <2>1. /\ session'.monitor = n /\ Observing(session') = Observing(session)
        /\ HostUnaware' = HostUnaware /\ FrameUnaware' = FrameUnaware
        /\ FrameHidden' = FrameHidden /\ Heard' = Heard /\ Established' = Established
        /\ HiddenInWire' = HiddenInWire /\ BeatInWire' = BeatInWire
        /\ session'.peerHidden = session.peerHidden
        /\ Reported' /\ Sighted'
    BY <1>6, <1>8
  <2>2. n.state = m.state
    BY <1>5, <1>8
  <2>3. Inspected'
    BY <1>5, <1>8, <2>1, <2>2, SharpParts DEF Inspected, Suspected
  <2>4. InView'
    BY <1>1, <1>2, <1>8, <2>1, <2>2, SharpParts DEF InView, IsHealthy
  <2>5. ASSUME pages.inPage, frame.life \in Lost, ~past.brief
        PROVE  OwedFor(n, revival, past.owed, 0, BeatInWire, HostUnaware, "host" \in clock.late)
    <3>1. OwedFor(m, revival, past.owed, 1, BeatInWire, HostUnaware, "host" \in clock.late)
      BY <1>3, <2>5, SharpParts DEF Answered
    <3>2. m.missed \in Nat /\ past.owed \in Nat
      BY SharpParts
    <3>3. ASSUME n.state # "suspect" PROVE past.owed <= 1 + n.missed + 0
      <4>1. CASE m.observable
        BY <1>1, <1>5, <2>2, <3>1, <3>2, <3>3, <4>1 DEF OwedFor
      <4>2. CASE ~m.observable
        <5>1. session.selfHidden \/ session.peerHidden
          BY <4>2, SharpParts, Parts DEF Told, Observing
        <5>2. pages.host \/ HostUnaware
          BY <2>5, <5>1, SharpParts DEF Sighted, HostUnaware, Lost
        <5>3. past.owed <= 1
          BY <3>1, <3>2, <5>2, SharpParts DEF Answered, OwedFor
        <5>4. QED
          BY <1>5, <3>2, <4>2, <5>3
      <4>3. QED
        BY <4>1, <4>2
    <3>4. QED
      BY <2>2, <3>1, <3>3 DEF OwedFor
  <2>6. Answered'
    BY <1>1, <1>2, <1>3, <1>8, <2>1, <2>5, SharpParts DEF Answered
  <2>7. QED
    BY <2>1, <2>3, <2>4, <2>6 DEF Sharp
<1>9. \/ Unmount(NewRevival)
      \/ /\ Unresponsive(m)
         /\ session' = [session EXCEPT !.monitor = n] /\ revival' = Schedule(revival)
         /\ past' = [past EXCEPT !.steady = 0] /\ UNCHANGED <<frame, wire>>
      \/ /\ ~Unresponsive(m)
         /\ session' = [session EXCEPT !.monitor = n]
         /\ UNCHANGED <<frame, wire, revival, past>>
  BY SharpParts, Parts DEF WatchTick, SessionType, n
<1>10. QED
  BY <1>4, <1>7, <1>8, <1>9

LEMMA ConnectOpensSharp ==
  ASSUME FInv, ConnectOpens
  PROVE  Sharp'
<1> DEFINE x == IF FrameHidden THEN "hidden" ELSE "visible"
           m == Start(session.monitor)
<1>1. /\ frame.life = "connecting"
      /\ frame' = [life |-> "live", said |-> FrameHidden] /\ wire' = <<x>>
      /\ session' = [session EXCEPT !.monitor = m]
      /\ revival' = Opened(revival) /\ past' = NoPast /\ pages' = pages
  BY SharpParts, Parts DEF ConnectOpens, SessionType
<1>2. past'.calm = 0 /\ past'.owed = 0 /\ frame'.life = "live" /\ frame'.said = FrameHidden
  BY <1>1 DEF NoPast
<1>3. m \in Monitor /\ Judges(m) /\ m.state # "suspect" /\ m.running
  BY <1>1, SharpParts, Parts, StartType, StartJudges DEF Watching
<1> HIDE DEF m
<1>4. /\ session'.monitor = m /\ session'.selfHidden = session.selfHidden
      /\ session'.peerHidden = session.peerHidden
  BY <1>1, <1>3, SharpParts, Parts DEF SessionType
<1>5. /\ HiddenInWire' <=> x = "hidden"
      /\ VisibleInWire' <=> x = "visible"
      /\ x = "visible" => Overtaken'
  BY <1>1 DEF HiddenInWire, VisibleInWire, Overtaken
<1>6. Reported'
  BY <1>2, <1>5 DEF Reported
<1>7. Sighted'
  BY <1>1, <1>4, <1>5, SharpParts DEF Sighted, Inspected, FrameHidden
<1>8. Waits(revival') /\ revival'.observable = revival.observable
  BY <1>1, SharpParts, Parts, OpenedWaits
<1>9. Inspected'
  BY <1>1, <1>2, <1>3, <1>4, <1>8, SharpParts DEF Inspected, Suspected, Observing
<1>10. InView'
  BY <1>2 DEF InView
<1>11. Answered'
  BY <1>2 DEF Answered, Lost
<1>12. QED
  BY <1>6, <1>7, <1>9, <1>10, <1>11 DEF Sharp

LEMMA ReloadSharp ==
  ASSUME FInv, Reload
  PROVE  Sharp'
<1> DEFINE m == Stop(session.monitor)
           z == [session EXCEPT !.monitor = m, !.peerHidden = FALSE]
<1>1. /\ frame' = [life |-> "connecting", said |-> FALSE] /\ wire' = <<>>
      /\ Observe(z, revival) /\ UNCHANGED <<pages, clock>>
  BY SharpParts, Parts DEF Reload, SessionType
<1>2. m \in Monitor /\ Judges(m) /\ m.state # "suspect"
  BY SharpParts, Parts, StopType, StopJudges
<1> HIDE DEF m
<1>3. z \in SessionType /\ z.monitor = m /\ ~z.peerHidden
  BY <1>2, SharpParts, Parts DEF SessionType
<1> HIDE DEF z
<1>4. /\ ~session'.peerHidden /\ session'.monitor.state # "suspect"
      /\ Judges(session'.monitor)
      /\ Waits(revival') /\ (revival'.observable <=> Observing(session'))
      /\ past'.owed = past.owed /\ past'.calm = past.calm
  BY <1>1, <1>2, <1>3, SharpParts, Parts, ObserveInspects
<1>5. frame'.life = "connecting" /\ ~frame'.said
  BY <1>1
<1>6. ~HiddenInWire' /\ Overtaken'
  BY <1>1 DEF HiddenInWire, Overtaken
<1>7. Reported' /\ Sighted'
  BY <1>4, <1>6 DEF Reported, Sighted
<1>8. Inspected'
  BY <1>1, <1>4, <1>5 DEF Inspected, Established, Suspected
<1>9. FrameHidden' = FrameHidden
  BY <1>1 DEF FrameHidden
<1>10. InView'
  BY <1>1, <1>4, <1>5, <1>9, SharpParts DEF InView
<1>11. Answered'
  BY <1>1, <1>4, <1>5, SharpParts DEF Answered, Lost
<1>12. QED
  BY <1>7, <1>8, <1>10, <1>11 DEF Sharp

\* A step after which nothing is owed.
LEMMA NothingOwed ==
  ASSUME FInv, past'.owed = 0, Waits(revival'), Judges(session'.monitor),
         session'.monitor.missed \in Nat, revival' \in Policy,
         pages.inPage' => ~(frame'.life \in Lost /\ BeatInWire' /\ past'.owed # 0)
  PROVE  Answered'
<1>1. Due("watch")' \in {0, 1}
  BY DEF Due
<1>2. /\ Grace * Backoff ^ revival'.spent \in Nat /\ revival'.grace \in Int
      /\ revival'.grace <= Grace * Backoff ^ revival'.spent
  BY GraceBounds DEF Waits
<1>3. /\ past'.owed <= 1 + session'.monitor.missed + Due("watch")'
      /\ past'.owed + revival'.grace <= 4 + Grace * Backoff ^ revival'.spent
      /\ past'.owed <= 1 /\ past'.owed # 1
  BY <1>1, <1>2
<1>4. QED
  BY <1>3 DEF Answered, OwedFor

\* A step that leaves the mount's own state alone.
LEMMA SameMount ==
  ASSUME FInv, UNCHANGED <<wire, session, revival>>
  PROVE  /\ Waits(revival') /\ Judges(session'.monitor) /\ session'.monitor.missed \in Nat
         /\ revival' \in Policy
         /\ Observing(session') = Observing(session) /\ Suspected' = Suspected
         /\ HiddenInWire' = HiddenInWire /\ VisibleInWire' = VisibleInWire
         /\ Overtaken' = Overtaken /\ BeatInWire' = BeatInWire
BY SharpParts, Parts DEF Waits, Judges, Observing, Suspected, HiddenInWire, VisibleInWire,
   Overtaken, BeatInWire

LEMMA HideSharp ==
  ASSUME FInv, NEW page \in {"host", "own"}, NEW act, Hide(page, act)
  PROVE  Sharp'
<1> DEFINE o == IF page = "host" THEN 0 ELSE past.owed
<1>1. /\ pages' = [pages EXCEPT ![page] = TRUE]
      /\ past' = [past EXCEPT !.calm = 0, !.owed = o]
      /\ UNCHANGED <<frame, wire, session, revival, clock>>
  BY SharpParts, Parts DEF Hide, Past
<1>2. past'.calm = 0 /\ past'.owed = o /\ past'.brief = past.brief
  BY <1>1, SharpParts, Parts DEF Past
<1>3. /\ pages'.inPage = pages.inPage
      /\ page = "own" => pages'.host = pages.host
      /\ page = "host" => pages'.host
  BY <1>1, SharpParts, Parts DEF PagesType
<1>4. Reported'
  BY <1>1, SameMount, SharpParts DEF Reported
<1>5. Sighted'
  BY <1>1, <1>2, <1>3, SameMount, SharpParts DEF Sighted
<1>6. Inspected'
  BY <1>1, SameMount, SharpParts DEF Inspected, Established
<1>7. InView'
  BY <1>2 DEF InView
<1>8. CASE page = "host"
  <2>1. Answered'
    BY <1>1, <1>2, <1>8, SameMount, NothingOwed
  <2>2. QED
    BY <1>4, <1>5, <1>6, <1>7, <2>1 DEF Sharp
<1>9. CASE page = "own"
  <2>1. past'.owed = past.owed
    BY <1>2, <1>9
  <2>2. HostUnaware' = HostUnaware /\ Due("watch")' = Due("watch")
    BY <1>1, <1>3, <1>9 DEF HostUnaware, Due
  <2>3. Answered'
    BY <1>1, <1>2, <1>3, <1>9, <2>1, <2>2, SameMount, SharpParts DEF Answered
  <2>4. QED
    BY <1>4, <1>5, <1>6, <1>7, <2>3 DEF Sharp
<1>10. QED
  BY <1>8, <1>9

LEMMA ShowSharp ==
  ASSUME FInv, NEW page \in {"host", "own"}, Show(page), pages[page]
  PROVE  Sharp'
<1> DEFINE b == IF page = "host" THEN HostUnaware \/ wire # <<>> ELSE past.brief
<1>1. /\ pages' = [pages EXCEPT ![page] = FALSE]
      /\ past' = [past EXCEPT !.brief = b]
      /\ UNCHANGED <<frame, wire, session, revival, clock>>
  BY SharpParts, Parts DEF Show, Past
<1>2. /\ past'.calm = past.calm /\ past'.owed = past.owed
      /\ page = "host" => (past'.brief <=> HostUnaware \/ wire # <<>>)
      /\ page = "own" => past'.brief = past.brief
  BY <1>1, SharpParts, Parts DEF Past
<1> HIDE DEF b
<1>3. /\ pages'.inPage = pages.inPage
      /\ page = "own" => pages'.host = pages.host /\ pages.own
      /\ page = "host" => ~pages'.host /\ pages.host
      /\ pages.host \in BOOLEAN
  BY <1>1, SharpParts, Parts DEF PagesType
<1>4. Reported'
  BY <1>1, SameMount, SharpParts DEF Reported
<1>5. page = "host" /\ ~past'.brief => ~HiddenInWire
  BY <1>2 DEF HiddenInWire
<1>6. page = "host" /\ ~past'.brief => (session.peerHidden => session.selfHidden)
  BY <1>2, <1>3, SharpParts, Parts DEF HostUnaware, Watching, NewSession
<1>7. Sighted'
  BY <1>1, <1>2, <1>3, <1>5, <1>6, SameMount, SharpParts DEF Sighted
<1>8. Inspected'
  BY <1>1, SameMount, SharpParts DEF Inspected, Established
<1>9. CASE page = "host"
  <2>1. past'.owed = 0
    BY <1>2, <1>3, <1>9, SharpParts DEF Answered
  <2>2. Answered'
    BY <1>1, <2>1, SameMount, NothingOwed
  <2>3. past'.calm = 0
    BY <1>2, <1>3, <1>9, SharpParts, Parts, PastFields DEF InView
  <2>4. InView'
    BY <2>3 DEF InView
  <2>5. QED
    BY <1>4, <1>7, <1>8, <2>2, <2>4 DEF Sharp
<1>10. CASE page = "own"
  <2>1. HostUnaware' = HostUnaware /\ Due("watch")' = Due("watch")
    BY <1>1, <1>3, <1>10 DEF HostUnaware, Due
  <2>2. Answered'
    BY <1>1, <1>2, <1>3, <1>10, <2>1, SameMount, SharpParts DEF Answered
  <2>3. CASE past.calm > 0
    <3>1. pages.inPage
      BY <1>3, <1>10, <2>3, SharpParts DEF InView, FrameHidden
    <3>2. FrameHidden' = FrameHidden
      BY <1>3, <1>10, <3>1 DEF FrameHidden
    <3>3. FrameUnaware' = FrameUnaware /\ Heard' = Heard /\ IsHealthy' = IsHealthy
      BY <1>1, <3>2, SameMount DEF FrameUnaware, Heard, IsHealthy
    <3>4. InView'
      BY <1>1, <1>2, <1>3, <1>10, <2>1, <3>2, <3>3, SameMount, SharpParts DEF InView
    <3>5. QED
      BY <1>4, <1>7, <1>8, <2>2, <3>4 DEF Sharp
  <2>4. CASE ~(past.calm > 0)
    <3>1. past'.calm = 0
      BY <1>2, <2>4, SharpParts, Parts, PastFields
    <3>2. InView'
      BY <3>1 DEF InView
    <3>3. QED
      BY <1>4, <1>7, <1>8, <2>2, <3>2 DEF Sharp
  <2>5. QED
    BY <2>3, <2>4
<1>11. QED
  BY <1>9, <1>10

LEMMA FateSharp ==
  ASSUME FInv, NEW act, NEW from \in SUBSET {"live", "stalled", "dead"},
         NEW to \in {"live", "stalled", "dead", "removed"}, Fate(act, from, to)
  PROVE  Sharp'
<1>1. /\ frame.life \in {"live", "stalled", "dead"}
      /\ frame' = [frame EXCEPT !.life = to]
      /\ past' = [past EXCEPT !.calm = 0, !.owed = 0]
      /\ UNCHANGED <<pages, wire, session, revival, clock>>
  BY DEF Fate
<1>2. /\ past'.calm = 0 /\ past'.owed = 0 /\ past'.brief = past.brief
      /\ frame'.life = to /\ frame'.said = frame.said
  BY <1>1, SharpParts, Parts DEF Past, FrameType
<1>3. Reported' /\ Sighted'
  BY <1>1, <1>2, SameMount, SharpParts DEF Reported, Sighted
<1>4. Inspected'
  BY <1>1, <1>2, SameMount, SharpParts DEF Inspected, Established
<1>5. InView'
  BY <1>2 DEF InView
<1>6. Answered'
  BY <1>1, <1>2, SameMount, NothingOwed
<1>7. QED
  BY <1>3, <1>4, <1>5, <1>6 DEF Sharp

LEMMA StutterSharp ==
  ASSUME FInv, UNCHANGED vars
  PROVE  Sharp'
<1>1. UNCHANGED <<pages, frame, wire, session, revival, clock, past>>
  BY DEF vars
<1>2. Reported' /\ Sighted' /\ Inspected'
  BY <1>1, SameMount, SharpParts DEF Reported, Sighted, Inspected, Established
<1>3. InView'
  BY <1>1, SharpParts DEF InView, FrameHidden, HostUnaware, FrameUnaware, Observing, IsHealthy,
     Heard, HiddenInWire, BeatInWire
<1>4. Answered'
  BY <1>1, SharpParts DEF Answered, HostUnaware, BeatInWire, Due
<1>5. QED
  BY <1>2, <1>3, <1>4 DEF Sharp

\* Time passes: whoever was late has settled, every beat of a frame in view was
\* heard, a watchdog that observes has ticked and a grace has run down by one.
LEMMA TickSharp ==
  ASSUME FInv, Tick
  PROVE  Sharp'
<1> DEFINE m == session.monitor
           calm == IF frame.life = "live" /\ ~FrameHidden /\ ~pages.host
                   THEN Cap(past.calm, KeptAfter) ELSE 0
           sight == IF m.running /\ m.observable THEN Cap(past.sight, MissThreshold) ELSE 0
           steady == IF frame.life # "none" THEN Cap(past.steady, Stable) ELSE 0
           owed == IF ~pages.host /\ (frame.life \in Lost \/ revival.held)
                   THEN Cap(past.owed, Patience + 1) ELSE 0
           g == RunDown(revival.grace)
           b == RunDown(revival.stability)
<1>1. /\ NothingOverdue
      /\ revival' = [revival EXCEPT !.grace = g, !.stability = b]
      /\ clock' = [due |-> {"beat", "watch"}, late |-> Unaware]
      /\ past' = [silent |-> Cap(past.silent, MissThreshold + 1), calm |-> calm,
                  sight |-> sight, steady |-> steady, owed |-> owed, brief |-> past.brief]
      /\ UNCHANGED <<pages, frame, wire, session>>
  BY SharpParts, Parts DEF Tick, Policy
<1>2. /\ wire = <<>> /\ Unaware \cap clock.late = {}
      /\ frame.life = "live" => "beat" \notin clock.due \/ FrameThrottled
      /\ m.running => "watch" \notin clock.due \/ HostThrottled
      /\ revival.grace = 0 => HostThrottled
  BY <1>1 DEF NothingOverdue
<1>3. /\ "host" \in Unaware <=> HostUnaware
      /\ "frame" \in Unaware <=> FrameUnaware
  BY DEF Unaware
<1>4. /\ calm \in Nat /\ calm <= past.calm + 1
      /\ owed \in Nat /\ owed <= past.owed + 1
      /\ past.calm \in Nat /\ past.owed \in Nat
  <2>1. Patience + 1 \in Nat /\ KeptAfter \in Nat
    BY PatienceType DEF KeptAfter
  <2>2. past.calm \in 0 .. KeptAfter /\ past.owed \in 0 .. Patience + 1
    BY SharpParts, Parts, PastFields
  <2>3. QED
    BY <2>1, <2>2 DEF Cap
<1>5. /\ calm > 0 => frame.life = "live" /\ ~FrameHidden /\ ~pages.host
      /\ pages.host => owed = 0
  OBVIOUS
<1> HIDE DEF calm, owed, sight, steady
<1>6. past'.calm = calm /\ past'.owed = owed /\ past'.brief = past.brief
  BY <1>1
<1>7. /\ g = (IF revival.grace > 0 THEN revival.grace - 1 ELSE revival.grace)
      /\ revival.grace \in Int /\ revival.grace >= -1
      /\ (g # Off <=> revival.grace # Off)
      /\ Grace * Backoff ^ revival.spent \in Nat
  BY SharpParts, Parts, RunDownType, GraceBounds DEF RunDown, Policy
<1> HIDE DEF g, b
<1>8. /\ revival'.grace = g /\ revival'.spent = revival.spent
      /\ revival'.held = revival.held /\ revival'.observable = revival.observable
  BY <1>1, SharpParts, Parts DEF Policy
<1>9. Waits(revival') /\ g <= Grace * Backoff ^ revival.spent
  BY <1>7, <1>8, SharpParts DEF Waits
<1>10. /\ Observing(session') = Observing(session) /\ Suspected' = Suspected
       /\ HiddenInWire' = HiddenInWire /\ VisibleInWire' = VisibleInWire
       /\ Overtaken' = Overtaken /\ ~BeatInWire /\ ~BeatInWire' /\ ~HiddenInWire
       /\ ~VisibleInWire
       /\ HostUnaware' = HostUnaware /\ FrameUnaware' = FrameUnaware
       /\ FrameHidden' = FrameHidden /\ IsHealthy' = IsHealthy
       /\ Established' = Established
  BY <1>1, <1>2 DEF Observing, Suspected, HiddenInWire, VisibleInWire, Overtaken, BeatInWire,
     HostUnaware, FrameUnaware, FrameHidden, IsHealthy, Established
<1>11. Reported' /\ Sighted'
  BY <1>1, <1>6, <1>10, SharpParts DEF Reported, Sighted
<1>12. Inspected'
  BY <1>1, <1>7, <1>8, <1>9, <1>10, SharpParts DEF Inspected
<1>13. clock'.late = Unaware /\ clock'.due = {"beat", "watch"}
  BY <1>1
<1>14. Due("watch")' = 1 /\ ~Heard'
  BY <1>13 DEF Due, Heard
<1>15. ASSUME frame.life = "live", calm > 1
       PROVE  ~frame.said /\ Observing(session)
  <2>1. past.calm > 0 /\ calm > 0
    BY <1>4, <1>15
  <2>2. ~HostUnaware /\ ~FrameUnaware
    BY <1>2, <1>3, <1>15, <2>1, SharpParts DEF InView
  <2>3. ~FrameHidden /\ ~pages.host
    BY <1>5, <2>1
  <2>4. ~session.selfHidden /\ ~frame.said
    BY <1>15, <2>2, <2>3, SharpParts, Parts DEF HostUnaware, FrameUnaware, SessionType, PagesType,
       FrameType, FrameHidden
  <2>5. ~session.peerHidden
    BY <1>10, <2>4, SharpParts DEF Reported
  <2>6. QED
    BY <2>4, <2>5 DEF Observing
<1>16. ASSUME frame.life = "live", calm > 2 PROVE IsHealthy
  <2>1. past.calm > 1 /\ calm > 0
    BY <1>4, <1>16
  <2>2. ~FrameThrottled
    BY <1>5, <2>1 DEF FrameThrottled
  <2>3. Heard
    BY <1>2, <1>10, <1>16, <2>2 DEF Heard
  <2>4. QED
    BY <1>16, <2>1, <2>3, SharpParts DEF InView
<1>17. InView'
  BY <1>1, <1>3, <1>5, <1>6, <1>10, <1>13, <1>14, <1>15, <1>16 DEF InView
<1>18. ASSUME pages.inPage, frame.life \in Lost, ~past.brief
       PROVE  OwedFor(m, revival', owed, 1, FALSE, HostUnaware, HostUnaware)
  <2>1. OwedFor(m, revival, past.owed, Due("watch"), BeatInWire, HostUnaware,
                "host" \in clock.late)
    BY <1>18, SharpParts DEF Answered
  <2>2. m.missed \in Nat /\ Due("watch") \in {0, 1}
    BY SharpParts, DueType
  <2>3. HostUnaware => past.owed = 0
    BY <1>2, <1>3, <1>4, <2>1 DEF OwedFor
  <2>4. CASE pages.host \/ HostUnaware
    <3>1. owed <= 1
      BY <1>4, <1>5, <2>3, <2>4
    <3>2. /\ owed <= 1 + m.missed + 1
          /\ owed + g <= 4 + Grace * Backoff ^ revival.spent
      <4>1. g \in Int
        BY <1>7
      <4>2. QED
        BY <1>4, <1>7, <1>9, <2>2, <3>1, <4>1
    <3>3. QED
      BY <1>8, <3>1, <3>2 DEF OwedFor
  <2>5. CASE ~pages.host /\ ~HostUnaware
    <3>1. m.running /\ frame.life # "none"
      BY <1>18, SharpParts DEF Inspected, Established, Lost
    <3>2. ~session.selfHidden
      BY <2>5, <3>1, SharpParts, Parts DEF HostUnaware, SessionType, PagesType
    <3>3. "watch" \notin clock.due /\ revival.grace # 0
      BY <1>2, <2>5, <3>1 DEF HostThrottled
    <3>4. Due("watch") = 0
      BY <3>3 DEF Due
    <3>5. m.state # "suspect" => owed <= 1 + m.missed + 1
      BY <1>4, <2>1, <2>2, <3>4 DEF OwedFor
    <3>6. ASSUME m.state = "suspect"
          PROVE  owed + g <= 4 + Grace * Backoff ^ revival.spent
      <4>1. revival.grace # Off
        BY <3>6, SharpParts DEF Inspected, Suspected
      <4>2. revival.grace > 0 /\ g = revival.grace - 1
        BY <1>7, <3>3, <4>1 DEF Off
      <4>3. past.owed + revival.grace <= 4 + Grace * Backoff ^ revival.spent
        BY <2>1, <3>6 DEF OwedFor
      <4>4. QED
        BY <1>4, <1>7, <4>2, <4>3
    <3>7. QED
      BY <1>8, <2>5, <3>5, <3>6 DEF OwedFor
  <2>6. QED
    BY <2>4, <2>5
<1>19. Answered'
  BY <1>1, <1>3, <1>5, <1>6, <1>10, <1>13, <1>14, <1>18 DEF Answered, OwedFor
<1>20. QED
  BY <1>11, <1>12, <1>17, <1>19 DEF Sharp

LEMMA InitSharp == Init => Sharp
<1> SUFFICES ASSUME Init PROVE Sharp
  OBVIOUS
<1>1. /\ frame.life = "none" /\ wire = <<>> /\ session = NewSession /\ revival = NewRevival
      /\ past.calm = 0 /\ past.owed = 0
  BY DEF Init, NoPast
<1>2. ~session.peerHidden /\ Judges(session.monitor) /\ session.monitor.state = "gone"
  BY <1>1, NewSessionType DEF NewSession, Judges
<1>3. Reported /\ Sighted
  BY <1>1, <1>2, EmptyReports DEF Reported, Sighted
<1>4. Inspected
  BY <1>1, <1>2, NewRevivalWaits DEF Inspected, Established, Suspected
<1>5. InView /\ Answered
  BY <1>1 DEF InView, Answered, Lost
<1>6. QED
  BY <1>3, <1>4, <1>5 DEF Sharp

LEMMA NextSharp == FInv /\ [Next]_vars => FInv'
<1> SUFFICES ASSUME FInv, [Next]_vars PROVE FInv'
  OBVIOUS
<1>1. IInv'
  BY SharpParts, NextKeeps
<1>2. Sharp'
  <2>1. CASE Beats \/ FrameSettles \/ Open \/ Handshake \/ Deliver \/ HostSettles \/ WatchTick
    BY <2>1, BeatsSharp, FrameSettlesSharp, OpenSharp, ConnectOpensSharp, ConnectFailsSharp,
       DeliverSharp, HostSettlesSharp, WatchTickSharp DEF Handshake
  <2>2. CASE Timers
    BY <2>2, GraceReopensSharp, GraceGivesUpSharp, GraceWaitsSharp, StabilityEndsSharp
    DEF Timers
  <2>3. CASE HidePage \/ ShowPage \/ HideOwn \/ ShowOwn
    BY <2>3, HideSharp, ShowSharp DEF HidePage, ShowPage, HideOwn, ShowOwn
  <2>4. CASE Stall \/ Recover \/ Kill \/ Remove
    BY <2>4, FateSharp DEF Stall, Recover, Kill, Remove
  <2>5. CASE Reload \/ Tick \/ UNCHANGED vars
    BY <2>5, ReloadSharp, TickSharp, StutterSharp
  <2>6. QED
    BY <2>1, <2>2, <2>3, <2>4, <2>5 DEF Next
<1>3. QED
  BY <1>1, <1>2 DEF FInv, Sharp

LEMMA SharpInvariance == Spec => []FInv
<1>1. Init => FInv
  BY InitIInv, InitSharp DEF FInv, Sharp
<1>2. QED
  BY <1>1, NextSharp, PTL DEF Spec

\* A reopen replaces no frame that has run in view for three beat intervals, for
\* every grace, even none: by then both pages' visibility is known to the mount,
\* a beat was heard, and the policy lets a healthy frame stay.
THEOREM FramesInViewAreKept == Spec => LiveIsKept
<1>1. FInv /\ [Next]_vars => [ Reopens => frame.life # "live" \/ past.calm < KeptAfter ]_vars
  <2>1. SUFFICES ASSUME FInv, GraceReopens, frame.life = "live", ~(past.calm < KeptAfter)
                 PROVE  FALSE
    BY DEF Reopens
  <2>2. past.calm > 1 /\ past.calm > 2
    BY <2>1, SharpParts, Parts, PastFields DEF KeptAfter
  <2>3. IsHealthy
    BY <2>1, <2>2, SharpParts DEF InView
  <2>4. QED
    BY <2>1, <2>3 DEF GraceReopens, Verdict
<1>2. QED
  BY <1>1, SharpInvariance, PTL DEF Spec, LiveIsKept

\* A lost frame in the page is replaced or torn down within the poll, the miss
\* budget and the grace of its episode, counted from its page's return to view,
\* provided that the mount knew of the hiding by then: it had noticed the page and
\* handled every report (~past.brief).  Without that the formula is false.
THEOREM LostFramesAreAnswered == Spec => []LostIsAnswered
<1>1. FInv => LostIsAnswered
  <2>1. SUFFICES ASSUME FInv, pages.inPage, frame.life \in Lost, ~past.brief
                 PROVE  past.owed <= PollInterval + MissThreshold + Grace * Backoff ^ revival.spent
    BY DEF LostIsAnswered
  <2>2. OwedFor(session.monitor, revival, past.owed, Due("watch"), BeatInWire,
                HostUnaware, "host" \in clock.late)
    BY <2>1, SharpParts DEF Answered
  <2>3. /\ Grace * Backoff ^ revival.spent \in Nat /\ revival.grace \in Int
        /\ revival.grace >= -1 /\ past.owed \in Nat
        /\ session.monitor.missed \in 0 .. 3 /\ Due("watch") \in {0, 1}
    BY <2>1, SharpParts, Parts, GraceBounds, DueType
  <2>4. CASE session.monitor.state = "suspect"
    BY <2>2, <2>3, <2>4 DEF OwedFor, PollInterval, MissThreshold
  <2>5. CASE session.monitor.state # "suspect"
    BY <2>2, <2>3, <2>5 DEF OwedFor, PollInterval, MissThreshold
  <2>6. QED
    BY <2>4, <2>5
<1>2. QED
  BY <1>1, SharpInvariance, PTL
================================================================================
