--------------------------- MODULE SecureTransport ---------------------------
(***************************************************************************)
(* The two ends of one secured session: the transport libs/nexus attaches  *)
(* to a channel (hello exchange, confirmation, deadline) over the session  *)
(* protocol and the seal and open queues of libs/network-protocol.         *)
(*                                                                         *)
(* The queues are asynchronous: between the steps of a job other frames    *)
(* arrive, other messages are sent and timers fire.  Keys, hellos and      *)
(* ciphertexts are abstract: a hello stands for the material it carries,   *)
(* and a sealed frame authenticates exactly under the pair of materials it *)
(* was sealed for.                                                         *)
(***************************************************************************)
EXTENDS Integers, Sequences, SequencesExt

CONSTANTS
  End,          \* the two ends of the session, each for the material it mints
  Stray,        \* material of an earlier transport in the counterpart's window
  None,         \* no material
  Env,          \* what may happen at each end besides the session itself
  Unsealable,   \* messages that have no JSON form
  CounterLimit, \* the last counter the session may seal
  MaxMsg,       \* bound: messages the application of each end sends
  MaxWaiting    \* bound: a hello is retried only below this many frames in flight
                \* to an end, and a frame comes again or from elsewhere only
                \* while no more than these wait to be opened there

ASSUME EndsAssumption     == \E a, b \in End : a # b /\ End = {a, b}
ASSUME MaterialAssumption == Stray \notin End /\ None \notin End \cup {Stray}
ASSUME LimitsAssumption   == /\ CounterLimit \in Nat \ {0} /\ MaxWaiting \in Nat
                             /\ MaxMsg \in [End -> Nat]

Material == End \cup {Stray}

Other(e) == CHOOSE x \in End : x # e

\* What an end seals: its application's messages, and the transport's own
\* SECURITY_CONFIRMED.
Confirmation == 0
Msg == Nat

Hello  == [kind : {"hello"}, from : Material]
Sealed == [kind : {"sealed"}, from : Material, to : Material,
           counter : 1 .. CounterLimit, msg : Msg]
Frame  == Hello \cup Sealed

\* Jobs a queue has started.  One stays "refused" until its failure is
\* reported; the others wait for the keys, then for the cipher.
SealJob == [msg : Msg, stage : {"refused", "keys", "cipher"}, counter : 0 .. CounterLimit]
OpenJob == [frame : Sealed, stage : {"refused", "keys"}]

SealQueue == [items : Seq(Msg), jobs : Seq(SealJob)]
OpenQueue == [items : Seq(Sealed), jobs : Seq(OpenJob)]

Transport ==
  [attached  : BOOLEAN,
   started   : BOOLEAN,
   confirmed : BOOLEAN,
   disposed  : BOOLEAN,
   retrying  : BOOLEAN, \* helloTimer
   deadline  : BOOLEAN, \* deadlineTimer
   helloDue  : BOOLEAN, \* postHello awaits this end's material
   failed    : BOOLEAN] \* history: onFailed was called

VARIABLES
  transport, \* the transport of each end
  local,     \* its own key material: "minting", "ready" or "failed"
  peer,      \* acceptedHello: the material that keys the session
  keys,      \* the keys promise: "none", "ready" or "failed"
  next,      \* nextCounter
  last,      \* lastAccepted
  sealing,   \* the outbound queue
  opening,   \* the inbound queue
  stopped,   \* shouldStop, of both queues
  wire,      \* frames in flight to each end's window, oldest first
  posted,    \* history: the sealed frames posted to each end's window
  sent,      \* messages the application has passed to send()
  got,       \* history: messages delivered to the application
  reported   \* history: messages reported as dropped before they left

vars == <<transport, local, peer, keys, next, last, sealing, opening, stopped,
          wire, posted, sent, got, reported>>

TypeOK ==
  /\ transport \in [End -> Transport]
  /\ local     \in [End -> {"minting", "ready", "failed"}]
  /\ peer      \in [End -> Material \cup {None}]
  /\ keys      \in [End -> {"none", "ready", "failed"}]
  /\ next      \in [End -> 1 .. (CounterLimit + 1)]
  /\ last      \in [End -> 0 .. CounterLimit]
  /\ sealing   \in [End -> SealQueue]
  /\ opening   \in [End -> OpenQueue]
  /\ stopped   \in [End -> BOOLEAN]
  /\ wire      \in [End -> Seq(Frame)]
  /\ posted    \in [End -> SUBSET Sealed]
  /\ sent      \in [End -> Nat]
  /\ got       \in [End -> Seq(Nat \ {Confirmation})]
  /\ reported  \in [End -> SUBSET Msg]

Init ==
  /\ transport = [e \in End |->
       [attached |-> FALSE, started |-> FALSE, confirmed |-> FALSE, disposed |-> FALSE,
        retrying |-> FALSE, deadline |-> FALSE, helloDue |-> FALSE, failed |-> FALSE]]
  /\ local    = [e \in End |-> "minting"]
  /\ peer     = [e \in End |-> None]
  /\ keys     = [e \in End |-> "none"]
  /\ next     = [e \in End |-> 1]
  /\ last     = [e \in End |-> 0]
  /\ sealing  = [e \in End |-> [items |-> << >>, jobs |-> << >>]]
  /\ opening  = [e \in End |-> [items |-> << >>, jobs |-> << >>]]
  /\ stopped  = [e \in End |-> FALSE]
  /\ wire     = [e \in End |-> << >>]
  /\ posted   = [e \in End |-> {}]
  /\ sent     = [e \in End |-> 0]
  /\ got      = [e \in End |-> << >>]
  /\ reported = [e \in End |-> {}]

-----------------------------------------------------------------------------
(* The queues.  A job starts synchronously, with the checks seal() and     *)
(* open() make before they first wait.                                     *)

\* Mutant: no limit.
BeginSeal_Unlimited(m, counter) == [msg |-> m, stage |-> "keys", counter |-> 0]

BeginSeal(m, counter) ==
  [msg |-> m, stage |-> IF counter > CounterLimit THEN "refused" ELSE "keys", counter |-> 0]

BeginOpen(f, accepted) ==
  [frame |-> f, stage |-> IF f.counter <= accepted THEN "refused" ELSE "keys"]

\* processQueue: one job at a time, in order, unless the queue was stopped.
NextSeal(q, halted, counter) ==
  IF q.jobs = << >> /\ ~halted /\ q.items # << >>
  THEN [items |-> Tail(q.items), jobs |-> <<BeginSeal(Head(q.items), counter)>>]
  ELSE q

\* Mutant: a job starts although one is being processed.
NextOpen_Concurrent(q, halted, accepted) ==
  IF ~halted /\ q.items # << >>
  THEN [items |-> Tail(q.items), jobs |-> Append(q.jobs, BeginOpen(Head(q.items), accepted))]
  ELSE q

NextOpen(q, halted, accepted) ==
  IF q.jobs = << >> /\ ~halted /\ q.items # << >>
  THEN [items |-> Tail(q.items), jobs |-> <<BeginOpen(Head(q.items), accepted)>>]
  ELSE q

\* addMessage.
Enqueue(q, x) == [q EXCEPT !.items = Append(@, x)]

\* The job at i has settled.
Settle(q, i) == [q EXCEPT !.jobs = RemoveAt(@, i)]

\* notifyDrop: a message that does not leave is reported, unless the transport
\* was disposed.
Report(e, m) ==
  reported' = IF transport[e].disposed THEN reported ELSE [reported EXCEPT ![e] = @ \cup {m}]

\* Mutant: the timers are left running.
ClearTimers_None(t) == t

ClearTimers(t) == [t EXCEPT !.retrying = FALSE, !.deadline = FALSE]

\* dispose().
Dispose(t) == [ClearTimers(t) EXCEPT !.disposed = TRUE]

\* fail(): its owner's onFailed ends the connection, which disposes it.
Fail(t) == IF t.disposed THEN t ELSE [Dispose(t) EXCEPT !.failed = TRUE]

\* What a job whose keys never came does to the transport: material that cannot
\* key the session ends it, and an error of this end's own is only reported.
Unkeyed(e) == IF local[e] = "failed" THEN transport[e] ELSE Fail(transport[e])

-----------------------------------------------------------------------------
(* The transport's own steps.                                              *)

\* The handshake attaches it before ACCEPT or OPEN leaves, and starts it after.
Attach(e) ==
  /\ ~transport[e].attached
  /\ transport' = [transport EXCEPT ![e].attached = TRUE]
  /\ UNCHANGED <<local, peer, keys, next, last, sealing, opening, stopped, wire, posted,
                 sent, got, reported>>

\* postHello: the hello waits for this end's material, and leaves unless the
\* counterpart has confirmed or the transport is gone by then.
PostHello(e, t, material) ==
  /\ transport' = [transport EXCEPT ![e] =
       CASE material = "minting" -> [t EXCEPT !.helloDue = TRUE]
         [] material = "failed"  -> Fail(t)
         [] material = "ready"   -> t]
  /\ wire' = IF material = "ready" /\ ~t.disposed /\ ~t.confirmed
             THEN [wire EXCEPT ![Other(e)] = Append(@, [kind |-> "hello", from |-> e])]
             ELSE wire

Start(e) ==
  /\ transport[e].attached /\ ~transport[e].started /\ ~transport[e].disposed
  /\ PostHello(e, [transport[e] EXCEPT !.started = TRUE, !.retrying = TRUE, !.deadline = TRUE],
               local[e])
  /\ UNCHANGED <<local, peer, keys, next, last, sealing, opening, stopped, posted, sent,
                 got, reported>>

\* Mutant: an end that has the other's hello takes its own for received.
RetryHello_UntilKeyed(e) ==
  /\ transport[e].retrying /\ peer[e] = None
  /\ Len(wire[Other(e)]) < MaxWaiting
  /\ PostHello(e, transport[e], local[e])
  /\ UNCHANGED <<local, peer, keys, next, last, sealing, opening, stopped, posted, sent,
                 got, reported>>

RetryHello(e) ==
  /\ transport[e].retrying
  /\ Len(wire[Other(e)]) < MaxWaiting \* bound: while few frames are in flight
  /\ PostHello(e, transport[e], local[e])
  /\ UNCHANGED <<local, peer, keys, next, last, sealing, opening, stopped, posted, sent,
                 got, reported>>

\* This end's material is minted, or cannot be; a hello that waits leaves.
Mint(e) ==
  /\ transport[e].attached /\ local[e] = "minting"
  /\ \E material \in {"ready"} \cup (IF "mint" \in Env[e] THEN {"failed"} ELSE {}) :
       /\ local' = [local EXCEPT ![e] = material]
       /\ IF transport[e].helloDue
          THEN PostHello(e, [transport[e] EXCEPT !.helloDue = FALSE], material)
          ELSE UNCHANGED <<transport, wire>>
  /\ UNCHANGED <<peer, keys, next, last, sealing, opening, stopped, posted, sent, got,
                 reported>>

\* The counterpart did not confirm in time.
ConfirmTimeout(e) ==
  /\ "expire" \in Env[e]
  /\ transport[e].deadline
  /\ transport' = [transport EXCEPT ![e] = Fail(@)]
  /\ UNCHANGED <<local, peer, keys, next, last, sealing, opening, stopped, wire, posted,
                 sent, got, reported>>

\* The channel releases its transport.
DisposeCall(e) ==
  /\ "dispose" \in Env[e]
  /\ transport[e].attached /\ ~transport[e].disposed
  /\ transport' = [transport EXCEPT ![e] = Dispose(@)]
  /\ UNCHANGED <<local, peer, keys, next, last, sealing, opening, stopped, wire, posted,
                 sent, got, reported>>

\* The channel sends an action that must be sealed.
Send(e) ==
  /\ transport[e].attached /\ ~transport[e].disposed
  /\ sent[e] < MaxMsg[e]
  /\ sent' = [sent EXCEPT ![e] = @ + 1]
  /\ sealing' = [sealing EXCEPT ![e] = NextSeal(Enqueue(@, sent'[e]), stopped[e], next[e])]
  /\ UNCHANGED <<transport, local, peer, keys, next, last, opening, stopped, wire, posted,
                 got, reported>>

Stop(e) ==
  /\ "stop" \in Env[e]
  /\ transport[e].attached /\ ~stopped[e]
  /\ stopped' = [stopped EXCEPT ![e] = TRUE]
  /\ UNCHANGED <<transport, local, peer, keys, next, last, sealing, opening, wire, posted,
                 sent, got, reported>>

\* Mutant: the queues wait for the next message.
Resume_Idle(e) ==
  /\ stopped[e]
  /\ stopped' = [stopped EXCEPT ![e] = FALSE]
  /\ UNCHANGED <<transport, local, peer, keys, next, last, sealing, opening, wire, posted,
                 sent, got, reported>>

Resume(e) ==
  /\ stopped[e]
  /\ stopped' = [stopped EXCEPT ![e] = FALSE]
  /\ sealing' = [sealing EXCEPT ![e] = NextSeal(@, FALSE, next[e])]
  /\ opening' = [opening EXCEPT ![e] = NextOpen(@, FALSE, last[e])]
  /\ UNCHANGED <<transport, local, peer, keys, next, last, wire, posted, sent, got, reported>>

-----------------------------------------------------------------------------
(* Frames arrive.                                                          *)

\* acceptHello, and the sealed confirmation that answers the first.
ReceiveHello(e, f) ==
  /\ \/ /\ peer[e] = None
        /\ peer' = [peer EXCEPT ![e] = f.from]
        /\ sealing' = [sealing EXCEPT
             ![e] = NextSeal(Enqueue(@, Confirmation), stopped[e], next[e])]
     \/ /\ peer[e] # None
        /\ UNCHANGED <<peer, sealing>>
  /\ UNCHANGED opening

ReceiveSealed(e, f) ==
  /\ opening' = [opening EXCEPT ![e] = NextOpen(Enqueue(@, f), stopped[e], last[e])]
  /\ UNCHANGED <<peer, sealing>>

\* receive(); before the transport is attached and once it is disposed a frame
\* is dropped.
Receive(e, f) ==
  /\ IF ~transport[e].attached \/ transport[e].disposed
     THEN UNCHANGED <<peer, sealing, opening>>
     ELSE IF f.kind = "hello" THEN ReceiveHello(e, f) ELSE ReceiveSealed(e, f)
  /\ UNCHANGED <<transport, local, keys, next, last, stopped, posted, sent, got, reported>>

Deliver(e) ==
  /\ wire[e] # << >>
  /\ wire' = [wire EXCEPT ![e] = Tail(@)]
  /\ Receive(e, Head(wire[e]))

\* bound: while few frames wait to be opened.
Room(e) == Len(opening[e].items) + Len(opening[e].jobs) <= MaxWaiting

\* A sealed frame comes a second time.
Replay(e) ==
  /\ "replay" \in Env[e]
  /\ Room(e)
  /\ \E f \in posted[e] : /\ \A i \in DOMAIN wire[e] : wire[e][i] # f
                          /\ Receive(e, f)
  /\ UNCHANGED wire

\* A frame of the session that an earlier transport of that window was in.
StrayFrames ==
  {[kind |-> "hello", from |-> Stray]}
    \cup [kind : {"sealed"}, from : {Stray}, to : {Stray}, counter : {CounterLimit}, msg : {0}]

StrayFrame(e) ==
  /\ "stray" \in Env[e]
  /\ Room(e)
  /\ \E f \in StrayFrames : Receive(e, f)
  /\ UNCHANGED wire

-----------------------------------------------------------------------------
(* The jobs.                                                               *)

\* A job that waits for the keys.
Waiting(e) == \/ \E i \in DOMAIN sealing[e].jobs : sealing[e].jobs[i].stage = "keys"
              \/ \E i \in DOMAIN opening[e].jobs : opening[e].jobs[i].stage = "keys"

\* The keys are derived once, for the first job that needs them.  Foreign
\* material may be no public key at all.
Derive(e) ==
  /\ keys[e] = "none" /\ Waiting(e)
  /\ \/ /\ local[e] = "failed"
        /\ keys' = [keys EXCEPT ![e] = "failed"]
     \/ /\ local[e] = "ready" /\ peer[e] # None
        /\ keys' = [keys EXCEPT ![e] = "ready"]
     \/ /\ local[e] = "ready" /\ peer[e] = Stray
        /\ keys' = [keys EXCEPT ![e] = "failed"]
  /\ UNCHANGED <<transport, local, peer, next, last, sealing, opening, stopped, wire, posted,
                 sent, got, reported>>

\* Mutant: the counter is not advanced.
SealKeyed_Same(e, i) ==
  /\ sealing[e].jobs[i].stage = "keys" /\ keys[e] = "ready"
  /\ sealing' = [sealing EXCEPT ![e].jobs[i] = [@ EXCEPT !.stage = "cipher", !.counter = next[e]]]
  /\ UNCHANGED <<transport, local, peer, keys, next, last, opening, stopped, wire, posted,
                 sent, got, reported>>

\* The keys are there: the frame takes the next counter.
SealKeyed(e, i) ==
  /\ sealing[e].jobs[i].stage = "keys" /\ keys[e] = "ready"
  /\ sealing' = [sealing EXCEPT ![e].jobs[i] = [@ EXCEPT !.stage = "cipher", !.counter = next[e]]]
  /\ next' = [next EXCEPT ![e] = @ + 1]
  /\ UNCHANGED <<transport, local, peer, keys, last, opening, stopped, wire, posted, sent,
                 got, reported>>

\* The frame is sealed and posted, whether or not the transport was disposed.
SealDone(e, i) ==
  LET job   == sealing[e].jobs[i]
      frame == [kind |-> "sealed", from |-> e, to |-> peer[e],
                counter |-> job.counter, msg |-> job.msg]
  IN
  /\ job.stage = "cipher" /\ job.msg \notin Unsealable
  /\ wire'    = [wire EXCEPT ![Other(e)] = Append(@, frame)]
  /\ posted'  = [posted EXCEPT ![Other(e)] = @ \cup {frame}]
  /\ sealing' = [sealing EXCEPT ![e] = NextSeal(Settle(@, i), stopped[e], next[e])]
  /\ UNCHANGED <<transport, local, peer, keys, next, last, opening, stopped, sent, got,
                 reported>>

\* The job fails, and the queue moves on.
SealFailed(e, i) ==
  LET job == sealing[e].jobs[i]
      unkeyed == job.stage = "keys" /\ keys[e] = "failed"
  IN
  /\ \/ job.stage = "refused"
     \/ unkeyed
     \/ job.stage = "cipher" /\ job.msg \in Unsealable
  /\ Report(e, job.msg)
  /\ transport' = [transport EXCEPT ![e] = IF unkeyed THEN Unkeyed(e) ELSE @]
  /\ sealing' = [sealing EXCEPT ![e] = NextSeal(Settle(@, i), stopped[e], next[e])]
  /\ UNCHANGED <<local, peer, keys, next, last, opening, stopped, wire, posted, sent, got>>

\* Mutant: any material will do.
Authenticates_Any(e, f) == f.to = e

Authenticates(e, f) == f.from = peer[e] /\ f.to = e

\* The frame opens: the counter moves on, and the first one confirms.
OpenDone(e, i) ==
  LET f == opening[e].jobs[i].frame
      t == transport[e]
  IN
  /\ opening[e].jobs[i].stage = "keys" /\ keys[e] = "ready" /\ Authenticates(e, f)
  /\ last' = [last EXCEPT ![e] = f.counter]
  /\ opening' = [opening EXCEPT ![e] = NextOpen(Settle(@, i), stopped[e], f.counter)]
  /\ transport' = IF t.disposed \/ t.confirmed THEN transport
                  ELSE [transport EXCEPT ![e] = [ClearTimers(t) EXCEPT !.confirmed = TRUE]]
  /\ got' = IF t.disposed \/ f.msg = Confirmation THEN got
            ELSE [got EXCEPT ![e] = Append(@, f.msg)]
  /\ UNCHANGED <<local, peer, keys, next, sealing, stopped, wire, posted, sent, reported>>

OpenFailed(e, i) ==
  LET job == opening[e].jobs[i]
      unkeyed == job.stage = "keys" /\ keys[e] = "failed"
  IN
  /\ \/ job.stage = "refused"
     \/ unkeyed
     \/ job.stage = "keys" /\ keys[e] = "ready" /\ ~Authenticates(e, job.frame)
  /\ transport' = [transport EXCEPT ![e] = IF unkeyed THEN Unkeyed(e) ELSE @]
  /\ opening' = [opening EXCEPT ![e] = NextOpen(Settle(@, i), stopped[e], last[e])]
  /\ UNCHANGED <<local, peer, keys, next, last, sealing, stopped, wire, posted, sent, got,
                 reported>>

Seal(e) == \E i \in DOMAIN sealing[e].jobs : SealKeyed(e, i) \/ SealDone(e, i) \/ SealFailed(e, i)
Open(e) == \E i \in DOMAIN opening[e].jobs : OpenDone(e, i) \/ OpenFailed(e, i)

Next ==
  \E e \in End :
    \/ Attach(e) \/ Start(e) \/ Mint(e) \/ RetryHello(e)
    \/ ConfirmTimeout(e) \/ DisposeCall(e) \/ Send(e) \/ Stop(e) \/ Resume(e)
    \/ Deliver(e) \/ Replay(e) \/ StrayFrame(e)
    \/ Derive(e) \/ Seal(e) \/ Open(e)

Spec == Init /\ [][Next]_vars

\* What a side does a bounded number of times, while its promises settle.
Proceeds(e) == Attach(e) \/ Start(e) \/ Mint(e) \/ Derive(e) \/ Seal(e)

\* Promises settle, frames in flight are delivered, the retry interval fires,
\* and a queue that was stopped is resumed in the end.
Fairness ==
  \A e \in End : /\ WF_vars(Proceeds(e)) /\ WF_vars(RetryHello(e))
                 /\ WF_vars(Deliver(e)) /\ WF_vars(Open(e)) /\ WF_vars(Resume(e))

FairSpec == Spec /\ Fairness

-----------------------------------------------------------------------------
(* Properties.                                                             *)

\* The messages an end was given that can be sealed; they are numbered in the
\* order they were given.
Sealable(e) == (1 .. sent[e]) \ Unsealable

\* Each end delivers a prefix of what the other was given to send: frames that
\* are replayed, stray or refused, queues that stop and jobs that fail neither
\* repeat, reorder nor skip a message.
PrefixDelivered ==
  \A e \in End : \A i \in DOMAIN got[e] :
    /\ got[e][i] \in Sealable(Other(e))
    /\ \A j \in 1 .. (i - 1) : got[e][j] < got[e][i]
    /\ \A n \in Sealable(Other(e)) :
         n < got[e][i] => \E j \in 1 .. (i - 1) : got[e][j] = n

\* No two frames of a session carry one counter, so no nonce is used twice
\* under a key, and none passes the limit.
CountersFresh ==
  \A e \in End : \A f, g \in posted[e] : f.counter = g.counter => f = g

\* An end takes the session for confirmed only when both are keyed with each
\* other's material.
ConfirmedTogether ==
  \A e \in End : transport[e].confirmed => peer[e] = Other(e) /\ peer[Other(e)] = e

\* A session is told to be ready or to have failed, never both, and once it is
\* either no timer of it is left.
OneOutcome ==
  \A e \in End : LET t == transport[e] IN
    /\ ~(t.confirmed /\ t.failed)
    /\ t.confirmed \/ t.disposed => ~t.retrying /\ ~t.deadline

\* The session is over at one end, or never was one: an end that took an earlier
\* transport's hello for its counterpart's is keyed for nobody, and its deadline
\* is all that ends it.
Released == \E e \in End : transport[e].disposed \/ peer[e] = Stray

\* Both ends confirm the session, whichever was attached first and whichever
\* hello was lost for that, unless one releases it or a foreign hello keyed it.
Confirms == <>(Released \/ \A e \in End : transport[e].confirmed)

\* However often a queue stops and whatever fails, a session that lasts comes to
\* account for every message it was given: delivered, or reported as dropped.
Accounted ==
  []<>(Released \/ \A e \in End : \A n \in 1 .. sent[e] :
         n \in reported[e] \/ \E i \in DOMAIN got[Other(e)] : got[Other(e)][i] = n)

=============================================================================
