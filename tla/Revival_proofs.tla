----------------------------- MODULE Revival_proofs -----------------------------
(***************************************************************************)
(* Lemmas on the operators of Heartbeat and Revival, the two records that  *)
(* FrameWatch and HostShell keep: what each operator returns, field by     *)
(* field, and that it keeps its record's type.                             *)
(***************************************************************************)
EXTENDS Heartbeat, Revival, TLAPS

-----------------------------------------------------------------------------
(* The watchdog.                                                           *)

\* What the fields of a watchdog may be.
LEMMA Fields ==
  /\ "healthy" \in State /\ "unobservable" \in State /\ "suspect" \in State /\ "gone" \in State
  /\ 0 \in 0 .. MissThreshold
  /\ \A n \in 0 .. MissThreshold : n < MissThreshold => n + 1 \in 0 .. MissThreshold
BY DEF State, MissThreshold

LEMMA NewMonitorType == NewMonitor \in Monitor
BY Fields DEF NewMonitor, Monitor

LEMMA BeatType ==
  ASSUME NEW m \in Monitor
  PROVE  /\ Beat(m) \in Monitor
         /\ Beat(m).running = m.running /\ Beat(m).observable = m.observable
         /\ Beat(m).missed = 0
         /\ Beat(m).state = IF m.running /\ m.observable THEN "healthy" ELSE m.state
<1> DEFINE x == IF m.running /\ m.observable THEN "healthy" ELSE m.state
<1>1. x \in State
  BY Fields DEF Monitor
<1>2. Beat(m) = [m EXCEPT !.missed = 0, !.state = x]
  BY DEF Beat, Monitor
<1> HIDE DEF x
<1>3. Beat(m) \in Monitor
  BY <1>1, <1>2, Fields DEF Monitor
<1>4. /\ Beat(m).running = m.running /\ Beat(m).observable = m.observable
      /\ Beat(m).missed = 0 /\ Beat(m).state = x
  BY <1>2 DEF Monitor
<1>5. QED
  BY <1>3, <1>4 DEF x

LEMMA StartType ==
  ASSUME NEW m \in Monitor, ~m.running
  PROVE  /\ Start(m) \in Monitor
         /\ Start(m).running /\ Start(m).observable = m.observable
         /\ Start(m).missed = 0
         /\ Start(m).state = IF m.observable THEN "healthy" ELSE "unobservable"
<1> DEFINE x == IF m.observable THEN "healthy" ELSE "unobservable"
<1>1. x \in State
  BY Fields
<1>2. Start(m) = [m EXCEPT !.running = TRUE, !.missed = 0, !.state = x]
  BY DEF Start
<1> HIDE DEF x
<1>3. Start(m) \in Monitor
  BY <1>1, <1>2, Fields DEF Monitor
<1>4. /\ Start(m).running /\ Start(m).observable = m.observable
      /\ Start(m).missed = 0 /\ Start(m).state = x
  BY <1>2 DEF Monitor
<1>5. QED
  BY <1>3, <1>4 DEF x

LEMMA StopType ==
  ASSUME NEW m \in Monitor
  PROVE  /\ Stop(m) \in Monitor
         /\ ~Stop(m).running /\ Stop(m).observable = m.observable
         /\ Stop(m).state = "gone"
BY Fields DEF Stop, Monitor

LEMMA SetObservableType ==
  ASSUME NEW m \in Monitor, NEW seen \in BOOLEAN
  PROVE  /\ SetObservable(m, seen) \in Monitor
         /\ SetObservable(m, seen).running = m.running
         /\ SetObservable(m, seen).observable = seen
         /\ SetObservable(m, seen).missed \in {0, m.missed}
         /\ m.running /\ seen /\ ~m.observable => SetObservable(m, seen).missed = 0
         /\ SetObservable(m, seen).state \in {m.state, "unobservable"}
         /\ m.running /\ m.observable /\ ~seen => SetObservable(m, seen).state = "unobservable"
<1> DEFINE x == IF m.running /\ ~seen THEN "unobservable" ELSE m.state
           n == IF m.running /\ seen THEN 0 ELSE m.missed
<1>1. CASE m.observable = seen
  BY <1>1 DEF SetObservable
<1>2. CASE m.observable # seen
  <2>1. x \in State /\ n \in 0 .. MissThreshold
    BY Fields DEF Monitor
  <2>2. SetObservable(m, seen) = [m EXCEPT !.observable = seen, !.state = x, !.missed = n]
    BY <1>2 DEF SetObservable, Monitor
  <2> HIDE DEF x, n
  <2>3. SetObservable(m, seen) \in Monitor
    BY <2>1, <2>2 DEF Monitor
  <2>4. /\ SetObservable(m, seen).running = m.running
        /\ SetObservable(m, seen).observable = seen
        /\ SetObservable(m, seen).missed = n
        /\ SetObservable(m, seen).state = x
    BY <2>2 DEF Monitor
  <2>5. QED
    BY <1>2, <2>3, <2>4 DEF x, n
<1>3. QED
  BY <1>1, <1>2

LEMMA WatchedType ==
  ASSUME NEW m \in Monitor
  PROVE  /\ Watched(m) \in Monitor
         /\ Watched(m).running = m.running /\ Watched(m).observable = m.observable
         /\ Watched(m).missed <= m.missed + 1
         /\ Watched(m).state \in {m.state, "suspect"}
         /\ m.running /\ m.observable /\ Watched(m).state = "healthy"
              => Watched(m).missed = m.missed + 1 /\ Watched(m).missed < MissThreshold
         /\ Watched(m).state # m.state => Unresponsive(m)
<1> DEFINE x == IF Unresponsive(m) THEN "suspect" ELSE m.state
           n == IF m.missed < MissThreshold THEN m.missed + 1 ELSE m.missed
<1>1. CASE ~(m.running /\ m.observable)
  <2>1. Watched(m) = m
    BY <1>1 DEF Watched
  <2>2. m.missed <= m.missed + 1
    BY DEF Monitor
  <2>3. QED
    BY <1>1, <2>1, <2>2
<1>2. CASE m.running /\ m.observable
  <2>1. x \in State /\ n \in 0 .. MissThreshold
    BY Fields DEF Monitor
  <2>2. Watched(m) = [m EXCEPT !.missed = n, !.state = x]
    BY <1>2 DEF Watched, Monitor
  <2>3. n <= m.missed + 1
    BY DEF Monitor, MissThreshold
  <2>4. x = "healthy" => n = m.missed + 1 /\ n < MissThreshold
    BY <1>2 DEF Unresponsive, Monitor, MissThreshold
  <2>5. x # m.state => Unresponsive(m)
    OBVIOUS
  <2>6. x \in {m.state, "suspect"}
    OBVIOUS
  <2> HIDE DEF x, n
  <2>7. Watched(m) \in Monitor
    BY <2>1, <2>2 DEF Monitor
  <2>8. /\ Watched(m).running = m.running /\ Watched(m).observable = m.observable
        /\ Watched(m).missed = n /\ Watched(m).state = x
    BY <2>2 DEF Monitor
  <2>9. QED
    BY <2>3, <2>4, <2>5, <2>6, <2>7, <2>8
<1>3. QED
  BY <1>1, <1>2

-----------------------------------------------------------------------------
(* The policy.                                                             *)

Single(r) == /\ r.grace # Off => r.stability = Off /\ ~r.held
             /\ r.stability # Off => ~r.held

LEMMA OffIsNone == Off \in Int /\ Off \notin Nat
BY DEF Off

LEMMA NewRevivalType ==
  NewRevival \in Policy /\ Single(NewRevival) /\ NewRevival.stability = Off
BY PolicyAssumption DEF NewRevival, Policy, Clock, Single, Off

LEMMA ScheduleType ==
  ASSUME NEW r \in Policy, Single(r)
  PROVE  /\ Schedule(r) \in Policy /\ Single(Schedule(r))
         /\ Schedule(r).stability = Off
         /\ Schedule(r).spent = r.spent
<1> DEFINE g == Grace * Backoff ^ r.spent
<1>1. g \in Nat
  BY GraceAssumption DEF Policy
<1>2. Schedule(r) = [r EXCEPT !.stability = Off,
                              !.grace = IF @ # Off \/ r.held THEN @ ELSE g]
  BY DEF Schedule
<1> HIDE DEF g
<1>3. QED
  BY <1>1, <1>2 DEF Policy, Clock, Single, Off

LEMMA OpenedType ==
  ASSUME NEW r \in Policy
  PROVE  /\ Opened(r) \in Policy /\ Single(Opened(r))
         /\ Opened(r).stability = Stable
         /\ Opened(r).spent = r.spent
BY PolicyAssumption DEF Opened, Policy, Clock, Single, Off

LEMMA SetJudgeableType ==
  ASSUME NEW r \in Policy, Single(r), NEW seen \in BOOLEAN
  PROVE  /\ SetJudgeable(r, seen) \in Policy /\ Single(SetJudgeable(r, seen))
         /\ SetJudgeable(r, seen).stability = r.stability
         /\ SetJudgeable(r, seen).spent = r.spent
BY PolicyAssumption DEF SetJudgeable, Policy, Clock, Single, Off

LEMMA ConnectFailedType ==
  ASSUME NEW r \in Policy, Single(r)
  PROVE  /\ ConnectFailed(r) \in Policy /\ Single(ConnectFailed(r))
         /\ ConnectFailed(r).spent = r.spent
<1> DEFINE q == [r EXCEPT !.reopening = FALSE]
<1>1. q \in Policy /\ Single(q) /\ q.spent = r.spent
  BY DEF Policy, Single
<1> HIDE DEF q
<1>2. Schedule(q) \in Policy /\ Single(Schedule(q)) /\ Schedule(q).spent = r.spent
  BY <1>1, ScheduleType
<1>3. QED
  BY <1>2 DEF ConnectFailed, q

LEMMA FiredType ==
  ASSUME NEW r \in Policy, Single(r), r.grace # Off, NEW healthy \in BOOLEAN
  PROVE  /\ Fired(r, healthy) \in Policy /\ Single(Fired(r, healthy))
         /\ Fired(r, healthy).stability \in {Off, Stable}
         /\ Verdict(r, healthy) = "reopen" => Fired(r, healthy).stability = Off
         /\ Fired(r, healthy).spent >= r.spent
<1> DEFINE v == Verdict(r, healthy)
           n == r.spent + 1
<1>1. /\ Off \in Clock /\ Stable \in Clock
      /\ r.spent \in Int /\ n \in Int /\ n >= r.spent
  BY PolicyAssumption DEF Clock, Policy
<1>2. r.stability = Off /\ ~r.held
  BY DEF Single, Off
<1>3. v \in {"stayed", "held", "giveUp", "reopen"}
  BY DEF Verdict
<1>4. v = "reopen" => n \in 0 .. Attempts
  BY PolicyAssumption DEF Verdict, Policy
<1>5. CASE v = "stayed"
  <2>1. Fired(r, healthy) = [r EXCEPT !.grace = Off, !.stability = Stable]
    BY <1>5 DEF Fired, Policy
  <2>2. Fired(r, healthy) \in Policy
    BY <1>1, <2>1 DEF Policy
  <2>3. /\ Fired(r, healthy).grace = Off /\ Fired(r, healthy).spent = r.spent
        /\ Fired(r, healthy).stability = Stable /\ ~Fired(r, healthy).held
    BY <1>2, <2>1 DEF Policy
  <2>4. QED
    BY <1>1, <1>5, <2>2, <2>3 DEF Single
<1>6. CASE v = "held"
  <2>1. Fired(r, healthy) = [r EXCEPT !.grace = Off, !.held = TRUE]
    BY <1>6 DEF Fired, Policy
  <2>2. Fired(r, healthy) \in Policy
    BY <1>1, <2>1 DEF Policy
  <2>3. /\ Fired(r, healthy).grace = Off /\ Fired(r, healthy).spent = r.spent
        /\ Fired(r, healthy).held /\ Fired(r, healthy).stability = Off
    BY <1>2, <2>1 DEF Policy
  <2>4. QED
    BY <1>1, <1>6, <2>2, <2>3 DEF Single
<1>7. CASE v = "giveUp"
  <2>1. Fired(r, healthy) = [r EXCEPT !.grace = Off]
    BY <1>7 DEF Fired, Policy
  <2>2. QED
    BY <1>1, <1>2, <1>7, <2>1 DEF Policy, Single
<1>8. CASE v = "reopen"
  <2>1. Fired(r, healthy) = [r EXCEPT !.grace = Off, !.spent = n, !.reopening = TRUE]
    BY <1>8 DEF Fired, Policy
  <2> HIDE DEF n
  <2>2. Fired(r, healthy) \in Policy
    BY <1>1, <1>4, <1>8, <2>1 DEF Policy
  <2>3. /\ Fired(r, healthy).stability = Off /\ Fired(r, healthy).spent = n
        /\ Fired(r, healthy).grace = Off
    BY <1>2, <2>1 DEF Policy
  <2>4. QED
    BY <1>1, <2>2, <2>3 DEF Single
<1>9. QED
  BY <1>3, <1>5, <1>6, <1>7, <1>8

LEMMA EndedType ==
  ASSUME NEW r \in Policy, Single(r)
  PROVE  Ended(r) \in Policy /\ Single(Ended(r)) /\ Ended(r).stability = Off
<1>1. 0 \in 0 .. Attempts /\ Off \in Clock
  BY PolicyAssumption DEF Clock
<1>2. Ended(r) \in Policy
  BY <1>1 DEF Ended, Policy
<1>3. Single(Ended(r)) /\ Ended(r).stability = Off
  BY DEF Ended, Policy, Single
<1>4. QED
  BY <1>2, <1>3
=================================================================================
