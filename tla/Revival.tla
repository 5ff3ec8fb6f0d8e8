-------------------------------- MODULE Revival --------------------------------
(***************************************************************************)
(* The policy that brings a silent frame back, createRevival of            *)
(* libs/features: operators on the record its closure keeps, one for each  *)
(* method and one for each timer.  A clock is the time left on a timer.    *)
(***************************************************************************)
EXTENDS Integers

CONSTANTS
  Grace,     \* graceMs: the wait between a verdict and the reopen it calls for
  Backoff,   \* backoff: how much each further grace of an episode grows
  Attempts,  \* attempts: the reopens one episode may spend
  Stable     \* stableMs: how long a session stays before the budget is restored

\* What resolveReopenPolicy lets through.
ASSUME PolicyAssumption == /\ Grace \in Nat
                           /\ Backoff \in Nat \ {0}
                           /\ Attempts \in Nat \ {0}
                           /\ Stable \in Nat

\* The grace of every attempt of an episode is a number.
ASSUME GraceAssumption == \A n \in 0 .. Attempts : Grace * Backoff ^ n \in Nat

\* The backoff only ever lengthens a grace.
ASSUME BackoffAssumption == \A n \in 0 .. Attempts : Grace <= Grace * Backoff ^ n

\* A timer that is not set.
Off == -1
Clock == Nat \cup {Off}

Policy == [spent      : 0 .. Attempts,
           grace      : Clock,
           stability  : Clock,
           held       : BOOLEAN,   \* an attempt waits for the page to be watched
           reopening  : BOOLEAN,   \* the mount of a reopen has not opened yet
           observable : BOOLEAN]

\* A fresh policy.  It also stands for the revival a shell no longer has: a
\* shell that stood down has no mount, and no timer is left to act on it.
NewRevival == [spent |-> 0, grace |-> Off, stability |-> Off,
               held |-> FALSE, reopening |-> FALSE, observable |-> TRUE]

\* Mutant: the stability window outlives the death inside it.
Schedule_Stable(r) ==
  [r EXCEPT !.grace = IF @ # Off \/ r.held THEN @ ELSE Grace * Backoff ^ r.spent]

\* A verdict: a death inside the stability window belongs to the same episode.
Schedule(r) ==
  [r EXCEPT !.stability = Off,
            !.grace = IF @ # Off \/ r.held THEN @ ELSE Grace * Backoff ^ r.spent]

\* Mutant: a session that opens inherits the window of the one before.
Opened_Inherits(r) ==
  [r EXCEPT !.grace = Off, !.held = FALSE, !.reopening = FALSE,
            !.stability = IF @ = Off THEN Stable ELSE @]

\* A session that opened supersedes the reopen still waiting.
Opened(r) ==
  [r EXCEPT !.grace = Off, !.held = FALSE, !.reopening = FALSE, !.stability = Stable]

\* setObservable: watched again, a held attempt runs a fresh grace.
SetJudgeable(r, seen) ==
  IF seen /\ r.held
  THEN [r EXCEPT !.observable = TRUE, !.held = FALSE, !.grace = Grace]
  ELSE [r EXCEPT !.observable = seen]

ConnectFailed(r) ==
  IF r.reopening THEN Schedule([r EXCEPT !.reopening = FALSE]) ELSE r

\* Mutant: a frame that spoke again is replaced all the same.
Verdict_Deaf(r, healthy) ==
  CASE ~r.observable -> "held"
    [] r.observable /\ r.spent >= Attempts -> "giveUp"
    [] OTHER -> "reopen"

\* Mutant: the budget allows one reopen too many.
Verdict_Generous(r, healthy) ==
  CASE healthy -> "stayed"
    [] ~healthy /\ ~r.observable -> "held"
    [] ~healthy /\ r.observable /\ r.spent > Attempts -> "giveUp"
    [] OTHER -> "reopen"

\* What the grace timer does when it fires.
Verdict(r, healthy) ==
  CASE healthy -> "stayed"
    [] ~healthy /\ ~r.observable -> "held"
    [] ~healthy /\ r.observable /\ r.spent >= Attempts -> "giveUp"
    [] OTHER -> "reopen"

Fired(r, healthy) ==
  LET s == [r EXCEPT !.grace = Off]
      v == Verdict(r, healthy)
  IN  CASE v = "stayed" -> [s EXCEPT !.stability = Stable]
        [] v = "held"   -> [s EXCEPT !.held = TRUE]
        [] v = "giveUp" -> s
        [] v = "reopen" -> [s EXCEPT !.spent = @ + 1, !.reopening = TRUE]

\* The stability timer fires: the episode is over.
Ended(r) == [r EXCEPT !.stability = Off, !.spent = 0]
================================================================================
