------------------------------- MODULE Heartbeat -------------------------------
(***************************************************************************)
(* The host's heartbeat watchdog, createHeartbeatMonitor of                *)
(* libs/features: operators on the record its closure keeps, one for each  *)
(* method and one for the tick of its interval.  Its clock and its callers *)
(* are in the modules that use it.                                         *)
(***************************************************************************)
EXTENDS Naturals

\* MISS_THRESHOLD, and the cap of the count: above it every count is the same.
MissThreshold == 3

State == {"healthy", "unobservable", "suspect", "gone"}

Monitor == [running    : BOOLEAN,             \* the interval is set
            missed     : 0 .. MissThreshold,
            observable : BOOLEAN,
            state      : State]

NewMonitor == [running |-> FALSE, missed |-> 0, observable |-> TRUE, state |-> "gone"]

\* A beat fills the budget; it earns health only where silence means something.
Beat(m) ==
  [m EXCEPT !.missed = 0,
            !.state = IF m.running /\ m.observable THEN "healthy" ELSE @]

Start(m) ==
  IF m.running
  THEN m
  ELSE [m EXCEPT !.running = TRUE,
                 !.missed = 0,
                 !.state = IF m.observable THEN "healthy" ELSE "unobservable"]

Stop(m) == [m EXCEPT !.running = FALSE, !.state = "gone"]

\* Mutant: health is granted by looking again.
SetObservable_Healthy(m, seen) ==
  IF m.observable = seen
  THEN m
  ELSE [m EXCEPT !.observable = seen,
                 !.state = IF m.running THEN IF seen THEN "healthy" ELSE "unobservable" ELSE @,
                 !.missed = IF m.running /\ seen THEN 0 ELSE @]

\* Returning to observability grants a fresh budget, and no health.
SetObservable(m, seen) ==
  IF m.observable = seen
  THEN m
  ELSE [m EXCEPT !.observable = seen,
                 !.state = IF m.running /\ ~seen THEN "unobservable" ELSE @,
                 !.missed = IF m.running /\ seen THEN 0 ELSE @]

\* Mutant: the miss threshold is one short.
Unresponsive_Early(m) ==
  /\ m.running /\ m.observable
  /\ m.missed + 2 >= MissThreshold
  /\ m.state # "suspect"

\* The tick of the interval reaches a verdict: onUnresponsive is called.
Unresponsive(m) ==
  /\ m.running /\ m.observable
  /\ m.missed + 1 >= MissThreshold
  /\ m.state # "suspect"

\* The tick itself.
Watched(m) ==
  IF m.running /\ m.observable
  THEN [m EXCEPT !.missed = IF @ < MissThreshold THEN @ + 1 ELSE @,
                 !.state = IF Unresponsive(m) THEN "suspect" ELSE @]
  ELSE m
================================================================================
