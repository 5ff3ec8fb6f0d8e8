------------------------- MODULE SecureTransport_proofs -------------------------
(***************************************************************************)
(* Theorems about SecureTransport, for any two ends, whatever may happen   *)
(* at either of them, any messages and any counter limit.                  *)
(*                                                                         *)
(* A wire is a sequence of frames that may fly, and a queue runs one job   *)
(* or none.  That is enough for the counters, the keys and the outcome.    *)
(* What an end delivers needs the order of both queues and the wire as     *)
(* well: the second half of the module proves it, as an invariant of two   *)
(* lines, that of the messages to seal and that of the frames to open.     *)
(***************************************************************************)
EXTENDS SecureTransport, TLAPS

-----------------------------------------------------------------------------
(* The inductive invariant.                                                *)

\* One job, or none.
One(S) == {<< >>} \cup {<<x>> : x \in S}

Shapes ==
  /\ transport \in [End -> Transport]
  /\ local     \in [End -> {"minting", "ready", "failed"}]
  /\ peer      \in [End -> Material \cup {None}]
  /\ keys      \in [End -> {"none", "ready", "failed"}]
  /\ next      \in [End -> 1 .. (CounterLimit + 1)]
  /\ last      \in [End -> 0 .. CounterLimit]
  /\ sealing   \in [End -> [items : Seq(Msg), jobs : One(SealJob)]]
  /\ opening   \in [End -> [items : Seq(Sealed), jobs : One(OpenJob)]]
  /\ stopped   \in [End -> BOOLEAN]
  /\ wire      \in [End -> Seq(Frame)]
  /\ posted    \in [End -> SUBSET Sealed]
  /\ sent      \in [End -> Nat]
  /\ got       \in [End -> Seq(Nat \ {Confirmation})]
  /\ reported  \in [End -> SUBSET Msg]

\* The timers of a transport, and what it told its owner.
Timed(t) == /\ t.confirmed \/ t.disposed => ~t.retrying /\ ~t.deadline
            /\ ~(t.confirmed /\ t.failed)
            /\ t.failed => t.disposed
            /\ t.retrying \/ t.helloDue \/ t.confirmed => t.started

\* Whose material an end may hold, and what holding it shows.
Keyed(e) == /\ peer[e] \in {None, Stray, Other(e)}
            /\ peer[e] = Other(e) => transport[Other(e)].started
            /\ keys[e] = "ready" => local[e] = "ready" /\ peer[e] # None
            /\ transport[e].confirmed => /\ keys[e] = "ready"
                                         /\ peer[e] = Other(e) /\ peer[Other(e)] = e

\* A frame in the cipher holds the counter no frame was posted with yet.
SealsFresh(e) ==
  \A j \in SealJob :
    sealing[e].jobs = <<j>> =>
      /\ j.stage = "keys" => next[e] <= CounterLimit
      /\ j.stage = "cipher" =>
           /\ keys[e] = "ready" /\ j.counter = next[e] - 1 /\ j.counter >= 1
           /\ \A f \in posted[Other(e)] : f.counter < j.counter

\* The sealed frames that can reach an end.
StraySealed == {[kind |-> "sealed", from |-> Stray, to |-> Stray,
                 counter |-> CounterLimit, msg |-> 0]}
Known(e) == posted[e] \cup StraySealed

OpensKnown(e) == /\ opening[e].items \in Seq(Known(e))
                 /\ \A j \in OpenJob : opening[e].jobs = <<j>> => j.frame \in Known(e)

Own(e) == Timed(transport[e]) /\ Keyed(e) /\ SealsFresh(e) /\ OpensKnown(e)

\* What was posted to e, and what flies to it.
PostedFresh(e) ==
  /\ \A f \in posted[e] : /\ f.from = Other(e) /\ f.to = peer[Other(e)]
                          /\ peer[Other(e)] # None
                          /\ f.counter < next[Other(e)]
  /\ \A f, g \in posted[e] : f.counter = g.counter => f = g

HelloOf(e) == [kind |-> "hello", from |-> e]
Flying(e)  == posted[e] \cup {h \in {HelloOf(Other(e))} : transport[Other(e)].started}

Sound(e) == Own(e) /\ PostedFresh(e) /\ wire[e] \in Seq(Flying(e))

IInv == Shapes /\ \A e \in End : Sound(e)

-----------------------------------------------------------------------------
(* Ends and sequences.                                                     *)

LEMMA Ends ==
  ASSUME NEW e \in End
  PROVE  /\ Other(e) \in End /\ Other(e) # e /\ Other(Other(e)) = e
         /\ End = {e, Other(e)}
         /\ e # Stray /\ e # None /\ Stray # None
<1>1. PICK a \in End, b \in End : a # b /\ End = {a, b}
  BY EndsAssumption
<1>2. Other(a) = b /\ Other(b) = a
  BY <1>1 DEF Other
<1>3. e \in {a, b}
  BY <1>1
<1>4. QED
  BY <1>1, <1>2, <1>3, MaterialAssumption

LEMMA OneType ==
  ASSUME NEW S
  PROVE  /\ << >> \in One(S) /\ \A x \in S : <<x>> \in One(S)
         /\ One(S) \subseteq Seq(S)
<1>1. ASSUME NEW q \in One(S) PROVE q \in Seq(S)
  <2>1. << >> \in Seq(S) /\ \A x \in S : <<x>> \in Seq(S)
    OBVIOUS
  <2>2. QED
    BY <2>1 DEF One
<1>2. QED
  BY <1>1 DEF One

\* The job at an index is the one job.
LEMMA OneJob ==
  ASSUME NEW S, NEW q \in One(S), NEW i \in DOMAIN q
  PROVE  i = 1 /\ q[i] \in S /\ q = <<q[i]>>
<1>1. q # << >>
  OBVIOUS
<1>2. PICK x \in S : q = <<x>>
  BY <1>1 DEF One
<1>3. QED
  BY <1>2

LEMMA OneRemoved ==
  ASSUME NEW x
  PROVE  RemoveAt(<<x>>, 1) = << >>
<1>1. SubSeq(<<x>>, 1, 0) = << >> /\ SubSeq(<<x>>, 2, 1) = << >>
  OBVIOUS
<1>2. QED
  BY <1>1 DEF RemoveAt

LEMMA OneReplaced ==
  ASSUME NEW x, NEW y
  PROVE  [<<x>> EXCEPT ![1] = y] = <<y>>
OBVIOUS

LEMMA MoreFrames ==
  ASSUME NEW S, NEW T, S \subseteq T, NEW q \in Seq(S)
  PROVE  q \in Seq(T)
OBVIOUS

LEMMA Appended ==
  ASSUME NEW S, NEW q \in Seq(S), NEW x \in S
  PROVE  Append(q, x) \in Seq(S)
OBVIOUS

LEMMA Rest ==
  ASSUME NEW S, NEW q \in Seq(S), q # << >>
  PROVE  Head(q) \in S /\ Tail(q) \in Seq(S)
OBVIOUS

-----------------------------------------------------------------------------
(* A step of one end, seen from both.                                      *)

\* Nothing of the end o changes but what flies to it.
Untouched(o) ==
  /\ transport'[o] = transport[o] /\ local'[o] = local[o] /\ peer'[o] = peer[o]
  /\ keys'[o] = keys[o] /\ next'[o] = next[o]
  /\ sealing'[o] = sealing[o] /\ opening'[o] = opening[o]

\* What the counterpart has seen of the end e stays.
Grows(e) ==
  /\ transport[e].started => transport'[e].started
  /\ peer[e] # None => peer'[e] = peer[e]
  /\ next'[e] >= next[e]

LEMMA StepKeeps ==
  ASSUME IInv, NEW e \in End, Shapes', Untouched(Other(e)), Grows(e), Own(e)',
         posted'[e] = posted[e],
         wire'[e] = wire[e] \/ (wire[e] # << >> /\ wire'[e] = Tail(wire[e])),
         posted[Other(e)] \subseteq posted'[Other(e)],
         PostedFresh(Other(e))',
         wire'[Other(e)] \in Seq(Flying(Other(e))')
  PROVE  IInv'
<1> DEFINE o == Other(e)
<1>1. /\ o \in End /\ o # e /\ Other(o) = e /\ End = {e, o}
      /\ o # None
  BY Ends
<1>2. Sound(e) /\ Sound(o)
  BY <1>1 DEF IInv
<1> HIDE DEF o
<1>3. Sound(e)'
  <2>1. PostedFresh(e)'
    BY <1>2 DEF Sound, PostedFresh, Untouched, o
  <2>2. Flying(e)' = Flying(e)
    BY DEF Flying, Untouched
  <2>3. wire'[e] \in Seq(Flying(e))
    BY <1>2, Rest DEF Sound
  <2>4. QED
    BY <2>1, <2>2, <2>3 DEF Sound
<1>4. Own(o)'
  <2>1. Timed(transport'[o])
    BY <1>2 DEF Sound, Own, Untouched, o
  <2>2. Keyed(o)'
    BY <1>1, <1>2 DEF Sound, Own, Keyed, Untouched, Grows, o
  <2>3. SealsFresh(o)'
    BY <1>1, <1>2 DEF Sound, Own, SealsFresh, Untouched, o
  <2>4. OpensKnown(o)'
    <3>1. Known(o) \subseteq Known(o)'
      BY DEF Known, o
    <3>2. opening[o].items \in Seq(Known(o)')
      BY <1>2, <3>1, MoreFrames DEF Sound, Own, OpensKnown
    <3>3. QED
      BY <1>2, <3>1, <3>2 DEF Sound, Own, OpensKnown, Untouched, o
  <2>5. QED
    BY <2>1, <2>2, <2>3, <2>4 DEF Own
<1>5. Sound(o)'
  BY <1>4 DEF Sound, o
<1>6. QED
  BY <1>1, <1>3, <1>5 DEF IInv

\* A step that posts nothing.
LEMMA QuietKeeps ==
  ASSUME IInv, NEW e \in End, Shapes', Untouched(Other(e)), Grows(e), Own(e)',
         UNCHANGED posted, wire'[Other(e)] = wire[Other(e)],
         wire'[e] = wire[e] \/ (wire[e] # << >> /\ wire'[e] = Tail(wire[e]))
  PROVE  IInv'
<1> DEFINE o == Other(e)
<1>1. /\ o \in End /\ o # e /\ Other(o) = e /\ e \in End
  BY Ends
<1>2. Sound(o) /\ posted \in [End -> SUBSET Sealed]
  BY <1>1 DEF IInv, Shapes
<1> HIDE DEF o
<1>3. PostedFresh(o)'
  <2>1. \A f \in posted[o] : f.counter \in Int
    BY <1>1, <1>2 DEF Sealed
  <2>2. next[e] \in Int /\ next'[e] \in Int
    BY <1>1 DEF IInv, Shapes
  <2>3. QED
    BY <1>1, <1>2, <2>1, <2>2 DEF Sound, PostedFresh, Grows
<1>4. Flying(o) \subseteq Flying(o)'
  BY <1>1 DEF Flying, Grows, HelloOf
<1>5. wire'[o] \in Seq(Flying(o)')
  BY <1>2, <1>4, MoreFrames DEF Sound, o
<1>6. QED
  BY <1>3, <1>5, StepKeeps DEF o

\* A step of an end that posts its hello, or nothing.
LEMMA HelloKeeps ==
  ASSUME IInv, NEW e \in End, Shapes', Untouched(Other(e)), Grows(e), Own(e)',
         UNCHANGED posted, wire'[e] = wire[e], transport'[e].started,
         wire'[Other(e)] = Append(wire[Other(e)], HelloOf(e))
  PROVE  IInv'
<1> DEFINE o == Other(e)
<1>1. /\ o \in End /\ o # e /\ Other(o) = e /\ e \in End
  BY Ends
<1>2. Sound(o) /\ posted \in [End -> SUBSET Sealed]
  BY <1>1 DEF IInv, Shapes
<1> HIDE DEF o
<1>3. PostedFresh(o)'
  <2>1. \A f \in posted[o] : f.counter \in Int
    BY <1>1, <1>2 DEF Sealed
  <2>2. next[e] \in Int /\ next'[e] \in Int
    BY <1>1 DEF IInv, Shapes
  <2>3. QED
    BY <1>1, <1>2, <2>1, <2>2 DEF Sound, PostedFresh, Grows
<1>4. Flying(o) \subseteq Flying(o)' /\ HelloOf(e) \in Flying(o)'
  BY <1>1 DEF Flying, Grows, HelloOf
<1>5. wire[o] \in Seq(Flying(o)')
  BY <1>2, <1>4, MoreFrames DEF Sound
<1>6. wire'[o] \in Seq(Flying(o)')
  BY <1>4, <1>5, Appended DEF o
<1>7. QED
  BY <1>3, <1>6, StepKeeps DEF o

-----------------------------------------------------------------------------
(* Transports and queues.                                                  *)

LEMMA DisposeType ==
  ASSUME NEW t \in Transport, Timed(t)
  PROVE  /\ Dispose(t) \in Transport /\ Timed(Dispose(t))
         /\ Dispose(t).started = t.started /\ Dispose(t).confirmed = t.confirmed
BY DEF Dispose, ClearTimers, Transport, Timed

LEMMA FailType ==
  ASSUME NEW t \in Transport, Timed(t), ~t.confirmed
  PROVE  /\ Fail(t) \in Transport /\ Timed(Fail(t))
         /\ Fail(t).started = t.started /\ ~Fail(t).confirmed
<1>1. /\ Dispose(t) \in Transport /\ Timed(Dispose(t))
      /\ Dispose(t).started = t.started /\ Dispose(t).confirmed = t.confirmed
  BY DisposeType
<1>2. Dispose(t).disposed
  BY DEF Dispose, ClearTimers, Transport
<1>3. QED
  BY <1>1, <1>2 DEF Fail, Transport, Timed

SealQ == [items : Seq(Msg), jobs : One(SealJob)]

\* The jobs a seal queue may start while the counter stands at c.
Begun(c) == {j \in SealJob : j.stage # "cipher" /\ (j.stage = "keys" => c <= CounterLimit)}

LEMMA NextSealType ==
  ASSUME NEW q \in SealQ, NEW halted \in BOOLEAN, NEW c \in 1 .. (CounterLimit + 1)
  PROVE  /\ NextSeal(q, halted, c) \in SealQ
         /\ \/ NextSeal(q, halted, c).jobs = q.jobs
            \/ \E j \in Begun(c) : NextSeal(q, halted, c).jobs = <<j>>
<1>1. CASE q.jobs = << >> /\ ~halted /\ q.items # << >>
  <2> DEFINE j == BeginSeal(Head(q.items), c)
  <2>1. Head(q.items) \in Msg /\ Tail(q.items) \in Seq(Msg)
    BY <1>1, Rest DEF SealQ
  <2>2. c \in Int /\ CounterLimit \in Int /\ 0 \in 0 .. CounterLimit
    BY LimitsAssumption
  <2>3. j \in Begun(c)
    BY <2>1, <2>2 DEF BeginSeal, Begun, SealJob
  <2>4. NextSeal(q, halted, c) = [items |-> Tail(q.items), jobs |-> <<j>>]
    BY <1>1 DEF NextSeal
  <2> HIDE DEF j
  <2>5. <<j>> \in One(SealJob)
    BY <2>3, OneType DEF Begun
  <2>6. QED
    BY <2>1, <2>3, <2>4, <2>5 DEF SealQ
<1>2. CASE ~(q.jobs = << >> /\ ~halted /\ q.items # << >>)
  BY <1>2 DEF NextSeal
<1>3. QED
  BY <1>1, <1>2

LEMMA SettleSealType ==
  ASSUME NEW q \in SealQ, NEW i \in DOMAIN q.jobs
  PROVE  Settle(q, i) \in SealQ /\ Settle(q, i).jobs = << >>
<1>1. i = 1 /\ q.jobs = <<q.jobs[1]>>
  BY OneJob DEF SealQ
<1>2. RemoveAt(q.jobs, i) = << >>
  BY <1>1, OneRemoved
<1>3. Settle(q, i) = [q EXCEPT !.jobs = << >>]
  BY <1>2 DEF Settle, SealQ
<1>4. << >> \in One(SealJob)
  BY OneType
<1>5. QED
  BY <1>3, <1>4 DEF SealQ

LEMMA EnqueueSealType ==
  ASSUME NEW q \in SealQ, NEW m \in Msg
  PROVE  Enqueue(q, m) \in SealQ /\ Enqueue(q, m).jobs = q.jobs
<1> DEFINE x == Append(q.items, m)
<1>1. x \in Seq(Msg)
  BY Appended DEF SealQ
<1>2. Enqueue(q, m) = [q EXCEPT !.items = x]
  BY DEF Enqueue, SealQ
<1> HIDE DEF x
<1>3. QED
  BY <1>1, <1>2 DEF SealQ

OpenQ == [items : Seq(Sealed), jobs : One(OpenJob)]

\* An open queue whose frames are all in K.
OpensIn(q, K) == /\ q \in OpenQ
                 /\ q.items \in Seq(K)
                 /\ \A j \in OpenJob : q.jobs = <<j>> => j.frame \in K

LEMMA NextOpenType ==
  ASSUME NEW K \in SUBSET Sealed, NEW q, OpensIn(q, K), NEW halted, NEW c \in Nat
  PROVE  OpensIn(NextOpen(q, halted, c), K)
<1>1. CASE q.jobs = << >> /\ ~halted /\ q.items # << >>
  <2> DEFINE j == BeginOpen(Head(q.items), c)
             r == NextOpen(q, halted, c)
  <2>1. Head(q.items) \in K /\ Tail(q.items) \in Seq(K) /\ Tail(q.items) \in Seq(Sealed)
    BY <1>1, Rest DEF OpensIn, OpenQ
  <2>2. j \in OpenJob /\ j.frame \in K
    BY <2>1 DEF BeginOpen, OpenJob
  <2>3. r = [items |-> Tail(q.items), jobs |-> <<j>>]
    BY <1>1 DEF NextOpen
  <2> HIDE DEF j
  <2>4. <<j>> \in One(OpenJob)
    BY <2>2, OneType
  <2>5. r.items = Tail(q.items) /\ r.jobs = <<j>>
    BY <2>3
  <2>6. r \in OpenQ
    BY <2>1, <2>3, <2>4 DEF OpenQ
  <2> HIDE DEF r
  <2>7. \A k \in OpenJob : <<j>> = <<k>> => k = j
    OBVIOUS
  <2>8. OpensIn(r, K)
    BY <2>1, <2>2, <2>5, <2>6, <2>7 DEF OpensIn
  <2>9. QED
    BY <2>8 DEF r
<1>2. CASE ~(q.jobs = << >> /\ ~halted /\ q.items # << >>)
  BY <1>2 DEF NextOpen
<1>3. QED
  BY <1>1, <1>2

LEMMA SettleOpenType ==
  ASSUME NEW K \in SUBSET Sealed, NEW q, OpensIn(q, K), NEW i \in DOMAIN q.jobs
  PROVE  OpensIn(Settle(q, i), K)
<1>1. i = 1 /\ q.jobs = <<q.jobs[1]>>
  BY OneJob DEF OpensIn, OpenQ
<1>2. RemoveAt(q.jobs, i) = << >>
  BY <1>1, OneRemoved
<1>3. Settle(q, i) = [q EXCEPT !.jobs = << >>]
  BY <1>2 DEF Settle, OpensIn, OpenQ
<1>4. << >> \in One(OpenJob)
  BY OneType
<1>5. /\ Settle(q, i) \in OpenQ /\ Settle(q, i).jobs = << >>
      /\ Settle(q, i).items = q.items
  BY <1>3, <1>4 DEF OpensIn, OpenQ
<1>6. \A j \in OpenJob : << >> # <<j>>
  OBVIOUS
<1>7. QED
  BY <1>5, <1>6 DEF OpensIn

LEMMA EnqueueOpenType ==
  ASSUME NEW K \in SUBSET Sealed, NEW q, OpensIn(q, K), NEW f \in K
  PROVE  OpensIn(Enqueue(q, f), K)
<1> DEFINE x == Append(q.items, f)
<1>1. x \in Seq(K) /\ x \in Seq(Sealed)
  BY Appended DEF OpensIn, OpenQ
<1>2. Enqueue(q, f) = [q EXCEPT !.items = x]
  BY DEF Enqueue, OpensIn, OpenQ
<1> HIDE DEF x
<1>3. Enqueue(q, f) \in OpenQ /\ Enqueue(q, f).items = x /\ Enqueue(q, f).jobs = q.jobs
  BY <1>1, <1>2 DEF OpensIn, OpenQ
<1>4. QED
  BY <1>1, <1>3 DEF OpensIn

-----------------------------------------------------------------------------
(* What a step has to show of its own end.                                 *)

\* The parts of the invariant at one end.
LEMMA Parts ==
  ASSUME IInv, NEW e \in End
  PROVE  /\ Shapes
         /\ transport[e] \in Transport /\ Timed(transport[e])
         /\ Keyed(e) /\ SealsFresh(e) /\ OpensKnown(e)
         /\ sealing[e] \in SealQ /\ OpensIn(opening[e], Known(e))
         /\ next[e] \in 1 .. (CounterLimit + 1) /\ last[e] \in Nat
         /\ Known(e) \in SUBSET Sealed
<1>1. Sound(e) /\ Shapes
  BY DEF IInv
<1>2. posted[e] \in SUBSET Sealed /\ sealing[e] \in SealQ /\ opening[e] \in OpenQ
  BY <1>1 DEF Shapes, SealQ, OpenQ
<1>3. StraySealed \in SUBSET Sealed
  BY LimitsAssumption DEF StraySealed, Sealed, Material, Msg
<1>4. /\ transport[e] \in Transport
      /\ next[e] \in 1 .. (CounterLimit + 1) /\ last[e] \in Nat
  BY <1>1, LimitsAssumption DEF Shapes
<1>5. OpensIn(opening[e], Known(e))
  BY <1>1, <1>2 DEF Sound, Own, OpensKnown, OpensIn
<1>6. QED
  BY <1>1, <1>2, <1>3, <1>4, <1>5 DEF Sound, Own, Known

\* A queue that keeps its job, ends it or starts one.
LEMMA SealsKeep ==
  ASSUME IInv, NEW e \in End, next'[e] = next[e],
         keys[e] = "ready" => keys'[e] = "ready",
         \/ sealing'[e].jobs = sealing[e].jobs /\ posted'[Other(e)] = posted[Other(e)]
         \/ sealing'[e].jobs = << >>
         \/ \E j \in Begun(next[e]) : sealing'[e].jobs = <<j>>
  PROVE  SealsFresh(e)'
<1>1. CASE sealing'[e].jobs = sealing[e].jobs /\ posted'[Other(e)] = posted[Other(e)]
  BY <1>1, Parts DEF SealsFresh
<1>2. CASE sealing'[e].jobs = << >>
  <2>1. \A j \in SealJob : << >> # <<j>>
    OBVIOUS
  <2>2. QED
    BY <1>2, <2>1 DEF SealsFresh
<1>3. CASE \E j \in Begun(next[e]) : sealing'[e].jobs = <<j>>
  <2>1. PICK j \in Begun(next[e]) : sealing'[e].jobs = <<j>>
    BY <1>3
  <2>2. \A k : <<j>> = <<k>> => k = j
    OBVIOUS
  <2>3. QED
    BY <2>1, <2>2 DEF SealsFresh, Begun
<1>4. QED
  BY <1>1, <1>2, <1>3

LEMMA OpensKeep ==
  ASSUME NEW e \in End, OpensIn(opening'[e], Known(e)), posted' = posted
  PROVE  OpensKnown(e)'
BY DEF OpensIn, OpensKnown, Known

\* A step of the transport, or of the material, of one end.
LEMMA TransportOwn ==
  ASSUME IInv, NEW e \in End,
         Timed(transport'[e]), transport'[e].confirmed => transport[e].confirmed,
         transport'[Other(e)] = transport[Other(e)],
         keys[e] = "ready" => local'[e] = "ready",
         UNCHANGED <<peer, keys, next, sealing, opening, posted>>
  PROVE  Own(e)'
<1>1. Keyed(e)'
  BY Parts DEF Keyed
<1>2. SealsFresh(e)'
  BY SealsKeep
<1>3. OpensKnown(e)'
  BY Parts, OpensKeep
<1>4. QED
  BY <1>1, <1>2, <1>3 DEF Own

\* The state of the two ends that a step of one leaves alone.
LEMMA TransportKeeps ==
  ASSUME IInv, NEW e \in End, NEW t \in Transport, Timed(t),
         transport[e].started => t.started, t.confirmed => transport[e].confirmed,
         transport' = [transport EXCEPT ![e] = t],
         UNCHANGED <<local, peer, keys, next, last, sealing, opening, stopped, wire, posted,
                     sent, got, reported>>
  PROVE  IInv'
<1>1. Shapes
  BY Parts
<1>2. transport' \in [End -> Transport] /\ transport'[e] = t
  BY <1>1 DEF Shapes
<1>3. Shapes'
  BY <1>1, <1>2 DEF Shapes
<1>4. Other(e) \in End /\ Other(e) # e
  BY Ends
<1>5. Untouched(Other(e)) /\ Grows(e)
  BY <1>1, <1>2, <1>4 DEF Untouched, Grows, Shapes
<1>6. keys[e] = "ready" => local'[e] = "ready"
  BY Parts DEF Keyed
<1>7. Own(e)'
  BY <1>2, <1>5, <1>6, TransportOwn DEF Untouched
<1>8. QED
  BY <1>3, <1>5, <1>7, QuietKeeps

LEMMA AttachKeeps ==
  ASSUME IInv, NEW e \in End, Attach(e)
  PROVE  IInv'
<1> DEFINE t == [transport[e] EXCEPT !.attached = TRUE]
<1>1. t \in Transport /\ Timed(t) /\ t.started = transport[e].started
      /\ t.confirmed = transport[e].confirmed
  BY Parts DEF Transport, Timed
<1>2. transport' = [transport EXCEPT ![e] = t]
  BY Parts DEF Attach, Shapes
<1> HIDE DEF t
<1>3. QED
  BY <1>1, <1>2, TransportKeeps DEF Attach

LEMMA ConfirmTimeoutKeeps ==
  ASSUME IInv, NEW e \in End, ConfirmTimeout(e)
  PROVE  IInv'
<1> DEFINE t == Fail(transport[e])
<1>1. ~transport[e].confirmed
  BY Parts DEF ConfirmTimeout, Timed
<1>2. t \in Transport /\ Timed(t) /\ t.started = transport[e].started /\ ~t.confirmed
  BY <1>1, Parts, FailType
<1>3. transport' = [transport EXCEPT ![e] = t]
  BY Parts DEF ConfirmTimeout, Shapes
<1> HIDE DEF t
<1>4. QED
  BY <1>2, <1>3, TransportKeeps DEF ConfirmTimeout

LEMMA DisposeCallKeeps ==
  ASSUME IInv, NEW e \in End, DisposeCall(e)
  PROVE  IInv'
<1> DEFINE t == Dispose(transport[e])
<1>1. t \in Transport /\ Timed(t) /\ t.started = transport[e].started
      /\ t.confirmed = transport[e].confirmed
  BY Parts, DisposeType
<1>2. transport' = [transport EXCEPT ![e] = t]
  BY Parts DEF DisposeCall, Shapes
<1> HIDE DEF t
<1>3. QED
  BY <1>1, <1>2, TransportKeeps DEF DisposeCall

\* An end that posts its hello, waits for its material or fails for lack of it.
LEMMA PostHelloKeeps ==
  ASSUME IInv, NEW e \in End, NEW t \in Transport, Timed(t), t.started,
         t.confirmed = transport[e].confirmed,
         NEW material \in {"minting", "ready", "failed"},
         local' = [local EXCEPT ![e] = material],
         keys[e] = "ready" => material = "ready",
         PostHello(e, t, material),
         UNCHANGED <<peer, keys, next, last, sealing, opening, stopped, posted, sent, got,
                     reported>>
  PROVE  IInv'
<1> DEFINE o == Other(e)
           u == CASE material = "minting" -> [t EXCEPT !.helloDue = TRUE]
                  [] material = "failed"  -> Fail(t)
                  [] material = "ready"   -> t
<1>1. Shapes
  BY Parts
<1>2. o \in End /\ o # e
  BY Ends
<1>3. transport[e].confirmed => material = "ready"
  BY Parts DEF Keyed
<1>4. u \in Transport /\ Timed(u) /\ u.started /\ u.confirmed = t.confirmed
  <2>1. CASE material = "minting"
    <3> DEFINE w == [t EXCEPT !.helloDue = TRUE]
    <3>1. u = w
      BY <2>1
    <3>2. w \in Transport /\ Timed(w) /\ w.started /\ w.confirmed = t.confirmed
      BY DEF Transport, Timed
    <3> HIDE DEF u, w
    <3>3. QED
      BY <3>1, <3>2
  <2>2. CASE material = "failed"
    <3>1. u = Fail(t) /\ ~t.confirmed
      BY <1>3, <2>2
    <3>2. Fail(t) \in Transport /\ Timed(Fail(t)) /\ Fail(t).started /\ ~Fail(t).confirmed
      BY <3>1, FailType
    <3>3. t.confirmed = FALSE /\ Fail(t).confirmed = FALSE
      BY <3>1, <3>2 DEF Transport
    <3> HIDE DEF u
    <3>4. QED
      BY <3>1, <3>2, <3>3
  <2>3. CASE material = "ready"
    BY <2>3
  <2>4. QED
    BY <2>1, <2>2, <2>3
<1>5. transport' = [transport EXCEPT ![e] = u]
  BY DEF PostHello
<1>6. \/ wire' = wire
      \/ wire' = [wire EXCEPT ![o] = Append(@, HelloOf(e))]
  BY DEF PostHello, HelloOf
<1> HIDE DEF u, o
<1>7. transport' \in [End -> Transport] /\ transport'[e] = u /\ transport'[o] = transport[o]
  BY <1>1, <1>2, <1>4, <1>5 DEF Shapes
<1>8. /\ local' \in [End -> {"minting", "ready", "failed"}]
      /\ local'[e] = material /\ local'[o] = local[o]
  BY <1>1, <1>2 DEF Shapes
<1>9. /\ wire' \in [End -> Seq(Frame)] /\ wire'[e] = wire[e]
      /\ wire'[o] \in {wire[o], Append(wire[o], HelloOf(e))}
  <2>1. HelloOf(e) \in Frame
    BY DEF HelloOf, Frame, Hello, Material
  <2>2. wire \in [End -> Seq(Frame)]
    BY <1>1 DEF Shapes
  <2>3. Append(wire[o], HelloOf(e)) \in Seq(Frame)
    BY <1>2, <2>1, <2>2, Appended
  <2>4. QED
    BY <1>2, <1>6, <2>2, <2>3
<1>10. Shapes'
  BY <1>1, <1>7, <1>8, <1>9 DEF Shapes
<1>11. Untouched(o) /\ Grows(e)
  BY <1>1, <1>4, <1>7, <1>8 DEF Untouched, Grows, Shapes
<1>12. Own(e)'
  BY <1>4, <1>7, <1>8, TransportOwn DEF o
<1>13. CASE wire'[o] = wire[o]
  BY <1>9, <1>10, <1>11, <1>12, <1>13, QuietKeeps DEF o
<1>14. CASE wire'[o] = Append(wire[o], HelloOf(e))
  BY <1>4, <1>7, <1>9, <1>10, <1>11, <1>12, <1>14, HelloKeeps DEF o
<1>15. QED
  BY <1>9, <1>13, <1>14

LEMMA StartKeeps ==
  ASSUME IInv, NEW e \in End, Start(e)
  PROVE  IInv'
<1> DEFINE t == [transport[e] EXCEPT !.started = TRUE, !.retrying = TRUE, !.deadline = TRUE]
<1>1. ~transport[e].confirmed /\ ~transport[e].disposed
  BY Parts DEF Start, Timed
<1>2. t \in Transport /\ Timed(t) /\ t.started /\ t.confirmed = transport[e].confirmed
  BY <1>1, Parts DEF Transport, Timed
<1>3. PostHello(e, t, local[e])
  BY DEF Start
<1> HIDE DEF t
<1>4. /\ local[e] \in {"minting", "ready", "failed"}
      /\ local' = [local EXCEPT ![e] = local[e]]
  BY Parts DEF Start, Shapes
<1>5. keys[e] = "ready" => local[e] = "ready"
  BY Parts DEF Keyed
<1>6. QED
  BY <1>2, <1>3, <1>4, <1>5, PostHelloKeeps DEF Start

LEMMA RetryHelloKeeps ==
  ASSUME IInv, NEW e \in End, RetryHello(e)
  PROVE  IInv'
<1>1. transport[e].started /\ transport[e] \in Transport /\ Timed(transport[e])
  BY Parts DEF RetryHello, Timed
<1>2. /\ local[e] \in {"minting", "ready", "failed"}
      /\ local' = [local EXCEPT ![e] = local[e]]
  BY Parts DEF RetryHello, Shapes
<1>3. keys[e] = "ready" => local[e] = "ready"
  BY Parts DEF Keyed
<1>4. QED
  BY <1>1, <1>2, <1>3, PostHelloKeeps DEF RetryHello

LEMMA MintKeeps ==
  ASSUME IInv, NEW e \in End, Mint(e)
  PROVE  IInv'
<1>1. PICK material \in {"ready", "failed"} :
        /\ local' = [local EXCEPT ![e] = material]
        /\ IF transport[e].helloDue
           THEN PostHello(e, [transport[e] EXCEPT !.helloDue = FALSE], material)
           ELSE UNCHANGED <<transport, wire>>
  BY DEF Mint
<1>2. /\ local[e] = "minting"
      /\ UNCHANGED <<peer, keys, next, last, sealing, opening, stopped, posted, sent, got,
                     reported>>
  BY DEF Mint
<1>3. keys[e] # "ready"
  BY <1>2, Parts DEF Keyed
<1>4. CASE transport[e].helloDue
  <2> DEFINE t == [transport[e] EXCEPT !.helloDue = FALSE]
  <2>1. t \in Transport /\ Timed(t) /\ t.started /\ t.confirmed = transport[e].confirmed
    BY <1>4, Parts DEF Transport, Timed
  <2>2. PostHello(e, t, material)
    BY <1>1, <1>4
  <2> HIDE DEF t
  <2>3. QED
    BY <1>1, <1>2, <1>3, <2>1, <2>2, PostHelloKeeps
<1>5. CASE ~transport[e].helloDue
  <2>1. UNCHANGED <<transport, wire>>
    BY <1>1, <1>5
  <2>2. Other(e) \in End /\ Other(e) # e
    BY Ends
  <2>3. /\ local' \in [End -> {"minting", "ready", "failed"}]
        /\ local'[Other(e)] = local[Other(e)]
    BY <1>1, <2>2, Parts DEF Shapes
  <2>4. Shapes'
    BY <1>2, <2>1, <2>3, Parts DEF Shapes
  <2>5. Untouched(Other(e)) /\ Grows(e)
    BY <1>2, <2>1, <2>3, Parts DEF Untouched, Grows
  <2>6. Own(e)'
    BY <1>2, <1>3, <2>1, Parts, TransportOwn
  <2>7. QED
    BY <1>2, <2>1, <2>4, <2>5, <2>6, QuietKeeps
<1>6. QED
  BY <1>4, <1>5

-----------------------------------------------------------------------------
(* What a step may do to one end, part by part, when it posts nothing.     *)

\* The seal queue keeps its job, ends it or starts one.
SealMoves(e) ==
  \E s \in SealQ :
    /\ sealing' = [sealing EXCEPT ![e] = s]
    /\ \/ s.jobs = sealing[e].jobs
       \/ s.jobs = << >>
       \/ \E j \in Begun(next[e]) : s.jobs = <<j>>

\* The open queue holds frames that can reach the end.
OpenMoves(e) ==
  \E q : OpensIn(q, Known(e)) /\ opening' = [opening EXCEPT ![e] = q]

\* The transport tells its owner what the keys show.
TransportMoves(e) ==
  \E t \in Transport :
    /\ transport' = [transport EXCEPT ![e] = t]
    /\ Timed(t) /\ t.started = transport[e].started
    /\ t.confirmed => /\ keys[e] = "ready"
                      /\ peer[e] = Other(e) /\ peer[Other(e)] = e

\* The end takes its first hello.
PeerMoves(e) ==
  \E p \in Material :
    /\ peer[e] = None /\ peer' = [peer EXCEPT ![e] = p]
    /\ p = Stray \/ (p = Other(e) /\ transport[Other(e)].started)

\* A frame is taken off the wire to the end, or none.
WireMoves(e) ==
  /\ wire' \in [End -> Seq(Frame)] /\ wire'[Other(e)] = wire[Other(e)]
  /\ wire'[e] = wire[e] \/ (wire[e] # << >> /\ wire'[e] = Tail(wire[e]))

\* What nothing else depends on.
Ledger ==
  /\ last' \in [End -> 0 .. CounterLimit] /\ stopped' \in [End -> BOOLEAN]
  /\ sent' \in [End -> Nat] /\ got' \in [End -> Seq(Nat \ {Confirmation})]
  /\ reported' \in [End -> SUBSET Msg]
  /\ UNCHANGED <<local, keys, next, posted>>

LEMMA SealsStep ==
  ASSUME IInv, NEW e \in End, UNCHANGED <<next, keys, posted>>,
         UNCHANGED sealing \/ SealMoves(e)
  PROVE  /\ sealing' \in [End -> [items : Seq(Msg), jobs : One(SealJob)]]
         /\ sealing'[Other(e)] = sealing[Other(e)]
         /\ SealsFresh(e)'
<1>1. sealing \in [End -> [items : Seq(Msg), jobs : One(SealJob)]]
  BY Parts DEF Shapes
<1>2. Other(e) \in End /\ Other(e) # e
  BY Ends
<1>3. CASE UNCHANGED sealing
  BY <1>1, <1>3, SealsKeep
<1>4. CASE SealMoves(e)
  <2>1. PICK s \in SealQ :
          /\ sealing' = [sealing EXCEPT ![e] = s]
          /\ \/ s.jobs = sealing[e].jobs
             \/ s.jobs = << >>
             \/ \E j \in Begun(next[e]) : s.jobs = <<j>>
    BY <1>4 DEF SealMoves
  <2>2. sealing'[e] = s /\ sealing'[Other(e)] = sealing[Other(e)]
    BY <1>1, <1>2, <2>1
  <2>3. SealsFresh(e)'
    BY <2>1, <2>2, SealsKeep
  <2>4. QED
    BY <1>1, <2>1, <2>2, <2>3 DEF SealQ
<1>5. QED
  BY <1>3, <1>4

LEMMA OpensStep ==
  ASSUME IInv, NEW e \in End, UNCHANGED posted, UNCHANGED opening \/ OpenMoves(e)
  PROVE  /\ opening' \in [End -> [items : Seq(Sealed), jobs : One(OpenJob)]]
         /\ opening'[Other(e)] = opening[Other(e)]
         /\ OpensKnown(e)'
<1>1. opening \in [End -> [items : Seq(Sealed), jobs : One(OpenJob)]]
  BY Parts DEF Shapes
<1>2. Other(e) \in End /\ Other(e) # e
  BY Ends
<1>3. CASE UNCHANGED opening
  BY <1>1, <1>3, Parts, OpensKeep
<1>4. CASE OpenMoves(e)
  <2>1. PICK q : OpensIn(q, Known(e)) /\ opening' = [opening EXCEPT ![e] = q]
    BY <1>4 DEF OpenMoves
  <2>2. opening'[e] = q /\ opening'[Other(e)] = opening[Other(e)]
    BY <1>1, <1>2, <2>1
  <2>3. q \in [items : Seq(Sealed), jobs : One(OpenJob)]
    BY <2>1 DEF OpensIn, OpenQ
  <2>4. OpensKnown(e)'
    BY <2>1, <2>2, OpensKeep
  <2>5. QED
    BY <1>1, <2>1, <2>2, <2>3, <2>4
<1>5. QED
  BY <1>3, <1>4

\* A step of the transport and the hello of one end, which posts nothing.
LEMMA HolderStep ==
  ASSUME IInv, NEW e \in End, UNCHANGED <<local, keys>>,
         UNCHANGED transport \/ TransportMoves(e),
         UNCHANGED peer \/ (PeerMoves(e) /\ UNCHANGED transport)
  PROVE  /\ transport' \in [End -> Transport] /\ peer' \in [End -> Material \cup {None}]
         /\ transport'[Other(e)] = transport[Other(e)]
         /\ peer'[Other(e)] = peer[Other(e)]
         /\ transport[e].started => transport'[e].started
         /\ peer[e] # None => peer'[e] = peer[e]
         /\ Timed(transport'[e]) /\ Keyed(e)'
<1> DEFINE o == Other(e)
<1>1. /\ transport \in [End -> Transport] /\ peer \in [End -> Material \cup {None}]
      /\ Timed(transport[e]) /\ Keyed(e)
  BY Parts DEF Shapes
<1>2. o \in End /\ o # e /\ o # None /\ o # Stray /\ Stray # None
  BY Ends
<1> HIDE DEF o
<1>3. CASE UNCHANGED transport /\ UNCHANGED peer
  BY <1>1, <1>3 DEF Keyed
<1>4. CASE TransportMoves(e) /\ UNCHANGED peer
  <2>1. PICK t \in Transport :
          /\ transport' = [transport EXCEPT ![e] = t]
          /\ Timed(t) /\ t.started = transport[e].started
          /\ t.confirmed => /\ keys[e] = "ready"
                            /\ peer[e] = Other(e) /\ peer[Other(e)] = e
    BY <1>4 DEF TransportMoves
  <2>2. /\ transport' \in [End -> Transport] /\ transport'[e] = t
        /\ transport'[o] = transport[o]
    BY <1>1, <1>2, <2>1
  <2>3. Keyed(e)'
    BY <1>1, <1>4, <2>1, <2>2 DEF Keyed, o
  <2>4. QED
    BY <1>1, <1>4, <2>1, <2>2, <2>3 DEF o
<1>5. CASE PeerMoves(e) /\ UNCHANGED transport
  <2>1. PICK p \in Material :
          /\ peer[e] = None /\ peer' = [peer EXCEPT ![e] = p]
          /\ p = Stray \/ (p = Other(e) /\ transport[Other(e)].started)
    BY <1>5 DEF PeerMoves
  <2>2. /\ peer' \in [End -> Material \cup {None}] /\ peer'[e] = p /\ peer'[o] = peer[o]
    BY <1>1, <1>2, <2>1
  <2>3. Keyed(e)'
    BY <1>1, <1>2, <1>5, <2>1, <2>2 DEF Keyed, o
  <2>4. QED
    BY <1>1, <1>5, <2>1, <2>2, <2>3 DEF o
<1>6. QED
  BY <1>3, <1>4, <1>5

LEMMA QueuesKeep ==
  ASSUME IInv, NEW e \in End, Ledger, WireMoves(e),
         UNCHANGED sealing \/ SealMoves(e), UNCHANGED opening \/ OpenMoves(e),
         UNCHANGED transport \/ TransportMoves(e),
         UNCHANGED peer \/ (PeerMoves(e) /\ UNCHANGED transport)
  PROVE  IInv'
<1>1. UNCHANGED <<local, keys, next, posted>>
  BY DEF Ledger
<1>2. /\ sealing' \in [End -> [items : Seq(Msg), jobs : One(SealJob)]]
      /\ sealing'[Other(e)] = sealing[Other(e)]
      /\ SealsFresh(e)'
  BY <1>1, SealsStep
<1>3. /\ opening' \in [End -> [items : Seq(Sealed), jobs : One(OpenJob)]]
      /\ opening'[Other(e)] = opening[Other(e)]
      /\ OpensKnown(e)'
  BY <1>1, OpensStep
<1>4. /\ transport' \in [End -> Transport] /\ peer' \in [End -> Material \cup {None}]
      /\ transport'[Other(e)] = transport[Other(e)]
      /\ peer'[Other(e)] = peer[Other(e)]
      /\ transport[e].started => transport'[e].started
      /\ peer[e] # None => peer'[e] = peer[e]
      /\ Timed(transport'[e]) /\ Keyed(e)'
  BY <1>1, HolderStep
<1>5. Shapes'
  BY <1>1, <1>2, <1>3, <1>4, Parts DEF Shapes, Ledger, WireMoves
<1>6. next[e] \in Int
  BY Parts
<1>7. Untouched(Other(e)) /\ Grows(e)
  BY <1>1, <1>2, <1>3, <1>4, <1>6 DEF Untouched, Grows
<1>8. Own(e)'
  BY <1>2, <1>3, <1>4 DEF Own
<1>9. QED
  BY <1>1, <1>5, <1>7, <1>8, QuietKeeps DEF WireMoves

\* What a step that leaves them alone keeps of the rest.
LEMMA Kept ==
  ASSUME IInv
  PROVE  /\ last \in [End -> 0 .. CounterLimit] /\ stopped \in [End -> BOOLEAN]
         /\ \A e \in End : stopped[e] \in BOOLEAN
         /\ sent \in [End -> Nat] /\ got \in [End -> Seq(Nat \ {Confirmation})]
         /\ reported \in [End -> SUBSET Msg] /\ wire \in [End -> Seq(Frame)]
         /\ \A e \in End : UNCHANGED wire => WireMoves(e)
<1>1. Shapes
  BY DEF IInv
<1>2. wire \in [End -> Seq(Frame)] /\ stopped \in [End -> BOOLEAN]
  BY <1>1 DEF Shapes
<1>3. \A e \in End : stopped[e] \in BOOLEAN
  BY <1>2
<1>4. \A e \in End : UNCHANGED wire => WireMoves(e)
  BY <1>2 DEF WireMoves
<1>5. QED
  BY <1>1, <1>2, <1>3, <1>4 DEF Shapes

-----------------------------------------------------------------------------
(* Sending, stopping and receiving.                                        *)

LEMMA SendKeeps ==
  ASSUME IInv, NEW e \in End, Send(e)
  PROVE  IInv'
<1> DEFINE q == Enqueue(sealing[e], sent'[e])
           s == NextSeal(q, stopped[e], next[e])
<1>1. sent' \in [End -> Nat] /\ sent'[e] \in Msg
  BY Kept DEF Send, Msg
<1>2. q \in SealQ /\ q.jobs = sealing[e].jobs
  BY <1>1, Parts, EnqueueSealType
<1> HIDE DEF q
<1>3. s \in SealQ /\ (s.jobs = q.jobs \/ \E j \in Begun(next[e]) : s.jobs = <<j>>)
  BY <1>2, Parts, Kept, NextSealType
<1>4. sealing' = [sealing EXCEPT ![e] = s]
  BY Parts DEF Send, Shapes, q
<1> HIDE DEF s
<1>5. SealMoves(e)
  BY <1>2, <1>3, <1>4 DEF SealMoves
<1>6. Ledger /\ WireMoves(e)
  BY <1>1, Kept DEF Send, Ledger
<1>7. QED
  BY <1>5, <1>6, QueuesKeep DEF Send

LEMMA StopKeeps ==
  ASSUME IInv, NEW e \in End, Stop(e)
  PROVE  IInv'
<1>1. stopped' \in [End -> BOOLEAN]
  BY Kept DEF Stop
<1>2. Ledger /\ WireMoves(e)
  BY <1>1, Kept DEF Stop, Ledger
<1>3. QED
  BY <1>2, QueuesKeep DEF Stop

LEMMA ResumeKeeps ==
  ASSUME IInv, NEW e \in End, Resume(e)
  PROVE  IInv'
<1> DEFINE s == NextSeal(sealing[e], FALSE, next[e])
           q == NextOpen(opening[e], FALSE, last[e])
<1>1. stopped' \in [End -> BOOLEAN]
  BY Kept DEF Resume
<1>2. s \in SealQ /\ (s.jobs = sealing[e].jobs \/ \E j \in Begun(next[e]) : s.jobs = <<j>>)
  <2>1. FALSE \in BOOLEAN
    OBVIOUS
  <2>2. QED
    BY <2>1, Parts, NextSealType
<1>3. OpensIn(q, Known(e))
  BY Parts, NextOpenType
<1>4. sealing' = [sealing EXCEPT ![e] = s] /\ opening' = [opening EXCEPT ![e] = q]
  BY Parts DEF Resume, Shapes
<1> HIDE DEF s, q
<1>5. SealMoves(e) /\ OpenMoves(e)
  BY <1>2, <1>3, <1>4 DEF SealMoves, OpenMoves
<1>6. Ledger /\ WireMoves(e)
  BY <1>1, Kept DEF Resume, Ledger
<1>7. QED
  BY <1>5, <1>6, QueuesKeep DEF Resume

\* A frame that flies to the end, or comes from an earlier session's.
LEMMA ReceiveKeeps ==
  ASSUME IInv, NEW e \in End, NEW f \in Flying(e) \cup StrayFrames, Receive(e, f),
         WireMoves(e)
  PROVE  IInv'
<1>1. UNCHANGED <<transport, local, keys, next, last, stopped, posted, sent, got, reported>>
  BY DEF Receive
<1>2. Ledger
  BY <1>1, Kept DEF Ledger
<1>3. /\ posted[e] \in SUBSET Sealed
      /\ f.kind = "hello" => f.from = Stray \/ (f.from = Other(e) /\ transport[Other(e)].started)
      /\ f.kind # "hello" => f \in Known(e)
  <2>1. posted[e] \in SUBSET Sealed
    BY Parts DEF Shapes
  <2>2. CASE f \in posted[e]
    BY <2>1, <2>2 DEF Known, Sealed
  <2>3. CASE f \in Flying(e) /\ f \notin posted[e]
    BY <2>1, <2>3 DEF Flying, HelloOf
  <2>4. CASE f \in StrayFrames
    BY <2>1, <2>4 DEF StrayFrames, Known, StraySealed
  <2>5. QED
    BY <2>1, <2>2, <2>3, <2>4
<1>4. CASE UNCHANGED <<peer, sealing, opening>>
  BY <1>1, <1>2, <1>4, QueuesKeep
<1>5. CASE /\ f.kind = "hello" /\ peer[e] = None /\ peer' = [peer EXCEPT ![e] = f.from]
           /\ sealing' = [sealing EXCEPT
                ![e] = NextSeal(Enqueue(@, Confirmation), stopped[e], next[e])]
           /\ UNCHANGED opening
  <2> DEFINE q == Enqueue(sealing[e], Confirmation)
             s == NextSeal(q, stopped[e], next[e])
  <2>1. Confirmation \in Msg
    BY DEF Confirmation, Msg
  <2>2. q \in SealQ /\ q.jobs = sealing[e].jobs
    BY <2>1, Parts, EnqueueSealType
  <2> HIDE DEF q
  <2>3. s \in SealQ /\ (s.jobs = q.jobs \/ \E j \in Begun(next[e]) : s.jobs = <<j>>)
    BY <2>2, Parts, Kept, NextSealType
  <2>4. sealing' = [sealing EXCEPT ![e] = s]
    BY <1>5, Parts DEF Shapes, q
  <2>5. f.from \in Material
    BY <1>3, <1>5, Ends DEF Material
  <2> HIDE DEF s
  <2>6. SealMoves(e)
    BY <2>2, <2>3, <2>4 DEF SealMoves
  <2>7. PeerMoves(e)
    BY <1>3, <1>5, <2>5 DEF PeerMoves
  <2>8. QED
    BY <1>1, <1>2, <1>5, <2>6, <2>7, QueuesKeep
<1>6. CASE f.kind # "hello" /\ ReceiveSealed(e, f)
  <2> DEFINE r == Enqueue(opening[e], f)
             q == NextOpen(r, stopped[e], last[e])
  <2>1. OpensIn(r, Known(e))
    BY <1>3, <1>6, Parts, EnqueueOpenType
  <2> HIDE DEF r
  <2>2. OpensIn(q, Known(e))
    BY <2>1, Parts, NextOpenType
  <2>3. opening' = [opening EXCEPT ![e] = q] /\ UNCHANGED <<peer, sealing>>
    BY <1>6, Parts DEF ReceiveSealed, Shapes, r
  <2> HIDE DEF q
  <2>4. OpenMoves(e)
    BY <2>2, <2>3 DEF OpenMoves
  <2>5. QED
    BY <1>1, <1>2, <2>3, <2>4, QueuesKeep
<1>7. QED
  BY <1>4, <1>5, <1>6 DEF Receive, ReceiveHello

LEMMA DeliverKeeps ==
  ASSUME IInv, NEW e \in End, Deliver(e)
  PROVE  IInv'
<1>1. /\ wire[e] # << >> /\ wire' = [wire EXCEPT ![e] = Tail(@)]
      /\ Receive(e, Head(wire[e]))
  BY DEF Deliver
<1>2. wire[e] \in Seq(Flying(e)) /\ wire \in [End -> Seq(Frame)]
  BY Kept DEF IInv, Sound
<1>3. Head(wire[e]) \in Flying(e)
  BY <1>1, <1>2, Rest
<1>4. wire[e] \in Seq(Frame)
  BY <1>2
<1>5. Tail(wire[e]) \in Seq(Frame)
  BY <1>1, <1>4, Rest
<1>6. Other(e) \in End /\ Other(e) # e
  BY Ends
<1>7. WireMoves(e)
  BY <1>1, <1>2, <1>5, <1>6 DEF WireMoves
<1>8. QED
  BY <1>1, <1>3, <1>7, ReceiveKeeps

LEMMA ReplayKeeps ==
  ASSUME IInv, NEW e \in End, Replay(e)
  PROVE  IInv'
<1>1. PICK f \in posted[e] : Receive(e, f)
  BY DEF Replay
<1>2. f \in Flying(e) /\ WireMoves(e)
  BY Kept DEF Flying, Replay
<1>3. QED
  BY <1>1, <1>2, ReceiveKeeps

LEMMA StrayFrameKeeps ==
  ASSUME IInv, NEW e \in End, StrayFrame(e)
  PROVE  IInv'
<1>1. PICK f \in StrayFrames : Receive(e, f)
  BY DEF StrayFrame
<1>2. WireMoves(e)
  BY Kept DEF StrayFrame
<1>3. QED
  BY <1>1, <1>2, ReceiveKeeps

-----------------------------------------------------------------------------
(* Deriving, sealing and opening.                                          *)

LEMMA DeriveKeeps ==
  ASSUME IInv, NEW e \in End, Derive(e)
  PROVE  IInv'
<1>1. PICK k \in {"ready", "failed"} :
        /\ keys' = [keys EXCEPT ![e] = k]
        /\ k = "ready" => local[e] = "ready" /\ peer[e] # None
  BY DEF Derive
<1>2. /\ keys[e] = "none"
      /\ UNCHANGED <<transport, local, peer, next, last, sealing, opening, stopped, wire,
                     posted, sent, got, reported>>
  BY DEF Derive
<1>3. Other(e) \in End /\ Other(e) # e
  BY Ends
<1>4. /\ keys' \in [End -> {"none", "ready", "failed"}]
      /\ keys'[e] = k /\ keys'[Other(e)] = keys[Other(e)]
  BY <1>1, <1>3, Parts DEF Shapes
<1>5. Shapes'
  BY <1>2, <1>4, Parts DEF Shapes
<1>6. Untouched(Other(e)) /\ Grows(e)
  BY <1>2, <1>4, Parts DEF Untouched, Grows
<1>7. Keyed(e)'
  BY <1>1, <1>2, <1>4, Parts DEF Keyed
<1>8. SealsFresh(e)'
  BY <1>2, SealsKeep
<1>9. OpensKnown(e)' /\ Timed(transport'[e])
  BY <1>2, Parts, OpensKeep
<1>10. QED
  BY <1>2, <1>5, <1>6, <1>7, <1>8, <1>9, QuietKeeps DEF Own

\* The one job of a seal queue.
LEMMA SealJobOf ==
  ASSUME IInv, NEW e \in End, NEW i \in DOMAIN sealing[e].jobs
  PROVE  /\ i = 1 /\ sealing[e].jobs[i] \in SealJob
         /\ sealing[e].jobs = <<sealing[e].jobs[i]>>
BY Parts, OneJob DEF SealQ

\* A job ends and the queue moves on.
LEMMA SealEnds ==
  ASSUME IInv, NEW e \in End, NEW i \in DOMAIN sealing[e].jobs,
         sealing' = [sealing EXCEPT ![e] = NextSeal(Settle(@, i), stopped[e], next[e])]
  PROVE  \E s \in SealQ : /\ sealing' = [sealing EXCEPT ![e] = s]
                          /\ s.jobs = << >> \/ \E j \in Begun(next[e]) : s.jobs = <<j>>
<1> DEFINE q == Settle(sealing[e], i)
           s == NextSeal(q, stopped[e], next[e])
<1>1. q \in SealQ /\ q.jobs = << >>
  BY Parts, SettleSealType
<1> HIDE DEF q
<1>2. s \in SealQ /\ (s.jobs = q.jobs \/ \E j \in Begun(next[e]) : s.jobs = <<j>>)
  BY <1>1, Parts, Kept, NextSealType
<1>3. sealing' = [sealing EXCEPT ![e] = s]
  BY Parts DEF Shapes, q
<1> HIDE DEF s
<1>4. QED
  BY <1>1, <1>2, <1>3

\* What a job whose keys never came leaves of the transport.
LEMMA UnkeyedMoves ==
  ASSUME IInv, NEW e \in End, keys[e] = "failed",
         transport' = [transport EXCEPT ![e] = Unkeyed(e)]
  PROVE  TransportMoves(e)
<1>1. ~transport[e].confirmed /\ transport[e] \in Transport /\ Timed(transport[e])
  BY Parts DEF Keyed
<1>2. /\ Fail(transport[e]) \in Transport /\ Timed(Fail(transport[e]))
      /\ Fail(transport[e]).started = transport[e].started /\ ~Fail(transport[e]).confirmed
  BY <1>1, FailType
<1> DEFINE t == Unkeyed(e)
<1>3. t \in Transport /\ Timed(t) /\ t.started = transport[e].started /\ ~t.confirmed
  BY <1>1, <1>2 DEF Unkeyed
<1> HIDE DEF t
<1>4. transport' = [transport EXCEPT ![e] = t]
  BY DEF t
<1>5. QED
  BY <1>3, <1>4 DEF TransportMoves

LEMMA SealFailedKeeps ==
  ASSUME IInv, NEW e \in End, NEW i \in DOMAIN sealing[e].jobs, SealFailed(e, i)
  PROVE  IInv'
<1>1. SealMoves(e)
  BY SealEnds DEF SealFailed, SealMoves
<1>2. UNCHANGED transport \/ TransportMoves(e)
  <2>1. CASE sealing[e].jobs[i].stage = "keys" /\ keys[e] = "failed"
    BY <2>1, UnkeyedMoves, Parts DEF SealFailed, Shapes
  <2>2. CASE ~(sealing[e].jobs[i].stage = "keys" /\ keys[e] = "failed")
    <3>1. transport' = [transport EXCEPT ![e] = transport[e]]
      BY <2>2, Parts DEF SealFailed, Shapes
    <3>2. transport \in [End -> Transport]
      BY Parts DEF Shapes
    <3>3. QED
      BY <3>1, <3>2
  <2>3. QED
    BY <2>1, <2>2
<1>3. reported' \in [End -> SUBSET Msg]
  <2>1. sealing[e].jobs[i].msg \in Msg
    BY SealJobOf DEF SealJob
  <2>2. reported' = reported \/
        reported' = [reported EXCEPT ![e] = reported[e] \cup {sealing[e].jobs[i].msg}]
    BY Kept DEF SealFailed, Report
  <2>3. reported[e] \cup {sealing[e].jobs[i].msg} \in SUBSET Msg
    BY <2>1, Kept
  <2>4. QED
    BY <2>2, <2>3, Kept
<1>4. Ledger /\ WireMoves(e)
  BY <1>3, Kept DEF SealFailed, Ledger
<1>5. QED
  BY <1>1, <1>2, <1>4, QueuesKeep DEF SealFailed

LEMMA SealKeyedKeeps ==
  ASSUME IInv, NEW e \in End, NEW i \in DOMAIN sealing[e].jobs, SealKeyed(e, i)
  PROVE  IInv'
<1> DEFINE o == Other(e)
           j == [sealing[e].jobs[i] EXCEPT !.stage = "cipher", !.counter = next[e]]
           q == [sealing[e] EXCEPT !.jobs = <<j>>]
<1>1. /\ Shapes /\ o \in End /\ o # e /\ Other(o) = e
      /\ next[e] \in 1 .. (CounterLimit + 1) /\ CounterLimit \in Nat
  BY Parts, Ends, LimitsAssumption
<1>2. /\ i = 1 /\ sealing[e].jobs[i] \in SealJob
      /\ sealing[e].jobs = <<sealing[e].jobs[i]>>
  BY SealJobOf
<1>3. next[e] <= CounterLimit /\ keys[e] = "ready" /\ peer[e] # None
  BY <1>2, Parts DEF SealKeyed, SealsFresh, Keyed
<1>4. j \in SealJob /\ j.stage = "cipher" /\ j.counter = next[e]
  <2>1. next[e] \in 0 .. CounterLimit
    BY <1>1, <1>3
  <2>2. "cipher" \in {"refused", "keys", "cipher"}
    OBVIOUS
  <2>3. QED
    BY <1>2, <2>1, <2>2 DEF SealJob
<1>5. sealing' = [sealing EXCEPT ![e] = q]
  <2>1. [sealing[e].jobs EXCEPT ![i] = j] = <<j>>
    BY <1>2, OneReplaced
  <2>2. sealing' = [sealing EXCEPT ![e].jobs[i] = j]
    BY DEF SealKeyed
  <2> HIDE DEF j
  <2>3. sealing' = [sealing EXCEPT ![e].jobs = [sealing[e].jobs EXCEPT ![i] = j]]
    BY <2>2
  <2>4. QED
    BY <2>1, <2>3
<1> HIDE DEF j, o
<1>6. q \in SealQ /\ q.jobs = <<j>>
  <2>1. <<j>> \in One(SealJob)
    BY <1>4, OneType
  <2>2. QED
    BY <2>1, Parts DEF SealQ
<1> HIDE DEF q
<1>7. /\ sealing' \in [End -> [items : Seq(Msg), jobs : One(SealJob)]]
      /\ sealing'[e] = q /\ sealing'[o] = sealing[o]
  BY <1>1, <1>5, <1>6 DEF Shapes, SealQ
<1>8. /\ next' \in [End -> 1 .. (CounterLimit + 1)]
      /\ next'[e] = next[e] + 1 /\ next'[o] = next[o]
  BY <1>1, <1>3 DEF SealKeyed, Shapes
<1>9. UNCHANGED <<transport, local, peer, keys, last, opening, stopped, wire, posted, sent,
                  got, reported>>
  BY DEF SealKeyed
<1>10. Shapes'
  BY <1>1, <1>7, <1>8, <1>9 DEF Shapes
<1>11. Untouched(o) /\ Grows(e)
  BY <1>1, <1>7, <1>8, <1>9 DEF Untouched, Grows
<1>12. SealsFresh(e)'
  <2>1. \A f \in posted[o] : f.counter < next[e]
    BY <1>1 DEF IInv, Sound, PostedFresh
  <2>2. \A k : <<j>> = <<k>> => k = j
    OBVIOUS
  <2>3. QED
    BY <1>1, <1>3, <1>4, <1>6, <1>7, <1>8, <1>9, <2>1, <2>2 DEF SealsFresh, o
<1>13. Keyed(e)' /\ OpensKnown(e)' /\ Timed(transport'[e])
  BY <1>9, Parts, OpensKeep DEF Keyed
<1>14. QED
  BY <1>9, <1>10, <1>11, <1>12, <1>13, QuietKeeps DEF Own, o

\* The frame goes out under a counter above all that were posted.
LEMMA SealDoneKeeps ==
  ASSUME IInv, NEW e \in End, NEW i \in DOMAIN sealing[e].jobs, SealDone(e, i)
  PROVE  IInv'
<1> DEFINE o == Other(e)
           job == sealing[e].jobs[i]
           frame == [kind |-> "sealed", from |-> e, to |-> peer[e],
                     counter |-> job.counter, msg |-> job.msg]
<1>1. /\ Shapes /\ o \in End /\ o # e /\ Other(o) = e
      /\ next[e] \in 1 .. (CounterLimit + 1) /\ CounterLimit \in Nat
  BY Parts, Ends, LimitsAssumption
<1>2. /\ job \in SealJob /\ sealing[e].jobs = <<job>> /\ job.stage = "cipher"
      /\ job.counter \in 0 .. CounterLimit /\ job.msg \in Msg
  BY SealJobOf DEF SealJob, SealDone
<1>3. /\ keys[e] = "ready" /\ job.counter = next[e] - 1 /\ job.counter >= 1
      /\ \A f \in posted[o] : f.counter < job.counter
  BY <1>2, Parts DEF SealsFresh
<1>4. peer[e] \in Material /\ peer[e] # None
  BY <1>1, <1>3, Parts DEF Keyed, Shapes
<1>5. /\ frame.from = e /\ frame.to = peer[e] /\ frame.counter = next[e] - 1
      /\ \A f \in posted[o] : f.counter < frame.counter
  BY <1>3
<1>6. frame \in Sealed
  <2>1. e \in Material /\ job.counter \in 1 .. CounterLimit
    BY <1>1, <1>2, <1>3 DEF Material
  <2>2. QED
    BY <1>2, <1>4, <2>1 DEF Sealed
<1>7. /\ wire'   = [wire EXCEPT ![o] = Append(@, frame)]
      /\ posted' = [posted EXCEPT ![o] = @ \cup {frame}]
      /\ UNCHANGED <<transport, local, peer, keys, next, last, opening, stopped, sent, got,
                     reported>>
  BY DEF SealDone
<1> HIDE DEF frame, job, o
<1>8. PICK s \in SealQ : /\ sealing' = [sealing EXCEPT ![e] = s]
                         /\ s.jobs = << >> \/ \E j \in Begun(next[e]) : s.jobs = <<j>>
  BY SealEnds DEF SealDone
<1>9. /\ sealing' \in [End -> [items : Seq(Msg), jobs : One(SealJob)]]
      /\ sealing'[e] = s /\ sealing'[o] = sealing[o]
  BY <1>1, <1>8 DEF Shapes, SealQ
<1>10. /\ posted' \in [End -> SUBSET Sealed] /\ posted'[e] = posted[e]
       /\ posted'[o] = posted[o] \cup {frame} /\ posted[o] \in SUBSET Sealed
  BY <1>1, <1>6, <1>7 DEF Shapes
<1>11. /\ wire' \in [End -> Seq(Frame)] /\ wire'[e] = wire[e]
       /\ wire'[o] = Append(wire[o], frame)
  <2>1. wire \in [End -> Seq(Frame)] /\ frame \in Frame
    BY <1>1, <1>6 DEF Shapes, Frame
  <2>2. Append(wire[o], frame) \in Seq(Frame)
    BY <1>1, <2>1, Appended
  <2>3. QED
    BY <1>1, <1>7, <2>1, <2>2
<1>12. Shapes'
  BY <1>1, <1>7, <1>9, <1>10, <1>11 DEF Shapes
<1>13. Untouched(o) /\ Grows(e)
  BY <1>1, <1>7, <1>9 DEF Untouched, Grows
<1>14. Own(e)'
  <2>1. SealsFresh(e)'
    BY <1>7, <1>8, <1>9, SealsKeep
  <2>2. Keyed(e)' /\ OpensKnown(e)' /\ Timed(transport'[e])
    BY <1>7, <1>10, Parts DEF Keyed, OpensKnown, Known
  <2>3. QED
    BY <2>1, <2>2 DEF Own
<1>15. Sound(o)
  BY <1>1 DEF IInv
<1>16. PostedFresh(o)'
  <2>1. \A f \in posted'[o] : /\ f.from = e /\ f.to = peer[e] /\ f.counter < next[e]
    BY <1>1, <1>5, <1>10, <1>15 DEF Sound, PostedFresh
  <2>2. \A f \in posted[o] : f.counter < frame.counter /\ f.counter \in Int
    BY <1>5, <1>10 DEF Sealed
  <2>3. \A f, g \in posted'[o] : f.counter = g.counter => f = g
    BY <1>1, <1>5, <1>10, <1>15, <2>2 DEF Sound, PostedFresh
  <2>4. QED
    BY <1>1, <1>4, <1>7, <2>1, <2>3 DEF PostedFresh
<1>17. wire'[o] \in Seq(Flying(o)')
  <2>1. Flying(o) \subseteq Flying(o)' /\ frame \in Flying(o)'
    BY <1>7, <1>10 DEF Flying
  <2>2. wire[o] \in Seq(Flying(o)')
    BY <1>15, <2>1, MoreFrames DEF Sound
  <2>3. QED
    BY <1>11, <2>1, <2>2, Appended
<1>18. QED
  BY <1>10, <1>11, <1>12, <1>13, <1>14, <1>16, <1>17, StepKeeps DEF o

\* The job at an index of an open queue is of a frame that can reach the end.
LEMMA OpenJobOf ==
  ASSUME IInv, NEW e \in End, NEW i \in DOMAIN opening[e].jobs
  PROVE  opening[e].jobs[i].frame \in Known(e)
<1>1. OpensIn(opening[e], Known(e))
  BY Parts
<1>2. opening[e].jobs \in One(OpenJob)
  BY <1>1 DEF OpensIn, OpenQ
<1>3. i = 1 /\ opening[e].jobs[i] \in OpenJob /\ opening[e].jobs = <<opening[e].jobs[i]>>
  BY <1>2, OneJob
<1>4. QED
  BY <1>1, <1>3 DEF OpensIn

LEMMA OpenEnds ==
  ASSUME IInv, NEW e \in End, NEW i \in DOMAIN opening[e].jobs, NEW c \in Nat,
         opening' = [opening EXCEPT ![e] = NextOpen(Settle(@, i), stopped[e], c)]
  PROVE  OpenMoves(e)
<1> DEFINE q == Settle(opening[e], i)
           r == NextOpen(q, stopped[e], c)
<1>1. OpensIn(q, Known(e))
  BY Parts, SettleOpenType
<1> HIDE DEF q
<1>2. OpensIn(r, Known(e))
  BY <1>1, Parts, NextOpenType
<1>3. opening' = [opening EXCEPT ![e] = r]
  BY Parts DEF Shapes, q
<1> HIDE DEF r
<1>4. QED
  BY <1>2, <1>3 DEF OpenMoves

\* A frame that authenticates was sealed by the counterpart, for this end.
LEMMA Authentic ==
  ASSUME IInv, NEW e \in End, NEW f \in Known(e), Authenticates(e, f)
  PROVE  peer[e] = Other(e) /\ peer[Other(e)] = e /\ transport[e].started
<1>1. f.from = peer[e] /\ f.to = e
  BY DEF Authenticates
<1>2. e # Stray /\ Other(e) \in End /\ Other(Other(e)) = e
  BY Ends
<1>3. f \in posted[e]
  BY <1>1, <1>2 DEF Known, StraySealed
<1>4. f.from = Other(e) /\ f.to = peer[Other(e)]
  BY <1>3 DEF IInv, Sound, PostedFresh
<1>5. Keyed(Other(e))
  BY <1>2, Parts
<1>6. QED
  BY <1>1, <1>2, <1>4, <1>5 DEF Keyed

LEMMA OpenDoneKeeps ==
  ASSUME IInv, NEW e \in End, NEW i \in DOMAIN opening[e].jobs, OpenDone(e, i)
  PROVE  IInv'
<1> DEFINE f == opening[e].jobs[i].frame
           t == transport[e]
           u == [ClearTimers(t) EXCEPT !.confirmed = TRUE]
<1>1. f \in Known(e) /\ f \in Sealed
  BY OpenJobOf, Parts
<1>2. f.counter \in 0 .. CounterLimit /\ f.counter \in Nat /\ f.msg \in Nat
  BY <1>1, LimitsAssumption DEF Sealed, Msg
<1>3. /\ keys[e] = "ready" /\ Authenticates(e, f)
      /\ last' = [last EXCEPT ![e] = f.counter]
      /\ opening' = [opening EXCEPT ![e] = NextOpen(Settle(@, i), stopped[e], f.counter)]
      /\ transport' = IF t.disposed \/ t.confirmed THEN transport
                      ELSE [transport EXCEPT ![e] = u]
      /\ got' = IF t.disposed \/ f.msg = Confirmation THEN got
                ELSE [got EXCEPT ![e] = Append(@, f.msg)]
      /\ UNCHANGED <<local, peer, keys, next, sealing, stopped, wire, posted, sent, reported>>
  BY DEF OpenDone
<1> HIDE DEF f
<1>4. peer[e] = Other(e) /\ peer[Other(e)] = e /\ t.started
  BY <1>1, <1>3, Authentic
<1>5. OpenMoves(e)
  BY <1>2, <1>3, OpenEnds
<1>6. UNCHANGED transport \/ TransportMoves(e)
  <2>1. CASE t.disposed \/ t.confirmed
    BY <1>3, <2>1
  <2>2. CASE ~(t.disposed \/ t.confirmed)
    <3>1. t \in Transport /\ Timed(t)
      BY Parts
    <3>2. u \in Transport /\ Timed(u) /\ u.started = t.started
      BY <1>4, <2>2, <3>1 DEF Transport, Timed, ClearTimers
    <3>3. transport' = [transport EXCEPT ![e] = u]
      BY <1>3, <2>2
    <3> HIDE DEF u
    <3>4. QED
      BY <1>3, <1>4, <3>2, <3>3 DEF TransportMoves
  <2>3. QED
    BY <2>1, <2>2
<1>7. last' \in [End -> 0 .. CounterLimit]
  BY <1>2, <1>3, Kept
<1>8. got' \in [End -> Seq(Nat \ {Confirmation})]
  <2>1. CASE f.msg = Confirmation
    BY <1>3, <2>1, Kept
  <2>2. CASE f.msg # Confirmation
    <3>1. f.msg \in Nat \ {Confirmation} /\ got[e] \in Seq(Nat \ {Confirmation})
      BY <1>2, <2>2, Kept
    <3>2. Append(got[e], f.msg) \in Seq(Nat \ {Confirmation})
      BY <3>1, Appended
    <3>3. QED
      BY <1>3, <3>2, Kept
  <2>3. QED
    BY <2>1, <2>2
<1>9. Ledger /\ WireMoves(e)
  BY <1>3, <1>7, <1>8, Kept DEF Ledger
<1>10. QED
  BY <1>3, <1>5, <1>6, <1>9, QueuesKeep

LEMMA OpenFailedKeeps ==
  ASSUME IInv, NEW e \in End, NEW i \in DOMAIN opening[e].jobs, OpenFailed(e, i)
  PROVE  IInv'
<1>1. OpenMoves(e)
  BY OpenEnds, Parts DEF OpenFailed
<1>2. UNCHANGED transport \/ TransportMoves(e)
  <2>1. CASE opening[e].jobs[i].stage = "keys" /\ keys[e] = "failed"
    BY <2>1, UnkeyedMoves, Parts DEF OpenFailed, Shapes
  <2>2. CASE ~(opening[e].jobs[i].stage = "keys" /\ keys[e] = "failed")
    <3>1. transport' = [transport EXCEPT ![e] = transport[e]]
      BY <2>2, Parts DEF OpenFailed, Shapes
    <3>2. transport \in [End -> Transport]
      BY Parts DEF Shapes
    <3>3. QED
      BY <3>1, <3>2
  <2>3. QED
    BY <2>1, <2>2
<1>3. Ledger /\ WireMoves(e)
  BY Kept DEF OpenFailed, Ledger
<1>4. QED
  BY <1>1, <1>2, <1>3, QueuesKeep DEF OpenFailed

-----------------------------------------------------------------------------
(* The invariant, and what it shows.                                       *)

LEMMA InitIInv == Init => IInv
<1> SUFFICES ASSUME Init PROVE IInv
  OBVIOUS
<1> DEFINE t == [attached |-> FALSE, started |-> FALSE, confirmed |-> FALSE,
                 disposed |-> FALSE, retrying |-> FALSE, deadline |-> FALSE,
                 helloDue |-> FALSE, failed |-> FALSE]
<1>1. t \in Transport /\ Timed(t) /\ ~t.confirmed
  BY DEF Transport, Timed
<1>2. transport = [e \in End |-> t]
  BY DEF Init
<1> HIDE DEF t
<1>3. \A S : << >> \in One(S)
  BY OneType
<1>4. 1 \in 1 .. (CounterLimit + 1) /\ 0 \in 0 .. CounterLimit
  BY LimitsAssumption
<1>5. Shapes
  <2>1. transport \in [End -> Transport]
    BY <1>1, <1>2
  <2>2. /\ next \in [End -> 1 .. (CounterLimit + 1)] /\ last \in [End -> 0 .. CounterLimit]
        /\ stopped \in [End -> BOOLEAN] /\ sent \in [End -> Nat]
    BY <1>4 DEF Init
  <2>3. \A S : << >> \in Seq(S)
    OBVIOUS
  <2>4. /\ sealing \in [End -> [items : Seq(Msg), jobs : One(SealJob)]]
        /\ opening \in [End -> [items : Seq(Sealed), jobs : One(OpenJob)]]
    BY <1>3, <2>3 DEF Init
  <2>5. /\ wire \in [End -> Seq(Frame)] /\ got \in [End -> Seq(Nat \ {Confirmation})]
        /\ posted \in [End -> SUBSET Sealed] /\ reported \in [End -> SUBSET Msg]
    BY <2>3 DEF Init
  <2>6. /\ local \in [End -> {"minting", "ready", "failed"}]
        /\ peer \in [End -> Material \cup {None}]
        /\ keys \in [End -> {"none", "ready", "failed"}]
    BY DEF Init
  <2>7. QED
    BY <2>1, <2>2, <2>4, <2>5, <2>6 DEF Shapes
<1>6. ASSUME NEW e \in End PROVE Sound(e)
  <2>1. Timed(transport[e]) /\ ~transport[e].confirmed
    BY <1>1, <1>2
  <2>2. Keyed(e)
    BY <2>1, Ends DEF Init, Keyed
  <2>3. \A j : << >> # <<j>>
    OBVIOUS
  <2>4. SealsFresh(e) /\ OpensKnown(e)
    <3>1. sealing[e].jobs = << >> /\ opening[e].jobs = << >> /\ opening[e].items = << >>
      BY DEF Init
    <3>2. << >> \in Seq(Known(e))
      OBVIOUS
    <3>3. QED
      BY <2>3, <3>1, <3>2 DEF SealsFresh, OpensKnown
  <2>5. PostedFresh(e) /\ wire[e] \in Seq(Flying(e))
    BY DEF Init, PostedFresh
  <2>6. QED
    BY <2>1, <2>2, <2>4, <2>5 DEF Sound, Own
<1>7. QED
  BY <1>5, <1>6 DEF IInv

LEMMA NextIInv == IInv /\ [Next]_vars => IInv'
<1> SUFFICES ASSUME IInv, [Next]_vars PROVE IInv'
  OBVIOUS
<1>1. CASE UNCHANGED vars
  <2>1. PICK e \in End : TRUE
    BY EndsAssumption
  <2>2. Ledger /\ WireMoves(e)
    BY <1>1, Kept DEF vars, Ledger
  <2>3. QED
    BY <1>1, <2>2, QueuesKeep DEF vars
<1>2. CASE Next
  <2>1. PICK e \in End :
          \/ Attach(e) \/ Start(e) \/ Mint(e) \/ RetryHello(e)
          \/ ConfirmTimeout(e) \/ DisposeCall(e) \/ Send(e) \/ Stop(e) \/ Resume(e)
          \/ Deliver(e) \/ Replay(e) \/ StrayFrame(e)
          \/ Derive(e) \/ Seal(e) \/ Open(e)
    BY <1>2 DEF Next
  <2>2. CASE Attach(e) \/ Start(e) \/ Mint(e) \/ RetryHello(e)
    BY <2>2, AttachKeeps, StartKeeps, MintKeeps, RetryHelloKeeps
  <2>3. CASE ConfirmTimeout(e) \/ DisposeCall(e) \/ Send(e) \/ Stop(e) \/ Resume(e)
    BY <2>3, ConfirmTimeoutKeeps, DisposeCallKeeps, SendKeeps, StopKeeps, ResumeKeeps
  <2>4. CASE Deliver(e) \/ Replay(e) \/ StrayFrame(e)
    BY <2>4, DeliverKeeps, ReplayKeeps, StrayFrameKeeps
  <2>5. CASE Derive(e)
    BY <2>5, DeriveKeeps
  <2>6. CASE Seal(e)
    BY <2>6, SealKeyedKeeps, SealDoneKeeps, SealFailedKeeps DEF Seal
  <2>7. CASE Open(e)
    BY <2>7, OpenDoneKeeps, OpenFailedKeeps DEF Open
  <2>8. QED
    BY <2>1, <2>2, <2>3, <2>4, <2>5, <2>6, <2>7
<1>3. QED
  BY <1>1, <1>2

LEMMA Invariance == Spec => []IInv
<1>1. IInv /\ [Next]_vars => IInv'
  BY NextIInv
<1>2. QED
  BY <1>1, InitIInv, PTL DEF Spec

\* The state of both ends is always of its type; each queue runs one job at
\* most, so processQueue never starts a job beside another.
THEOREM TypeCorrect == Spec => []TypeOK
<1>1. IInv => TypeOK
  <2> SUFFICES ASSUME IInv PROVE TypeOK
    OBVIOUS
  <2>1. Shapes
    BY DEF IInv
  <2>2. /\ [items : Seq(Msg), jobs : One(SealJob)] \subseteq SealQueue
        /\ [items : Seq(Sealed), jobs : One(OpenJob)] \subseteq OpenQueue
    <3>1. One(SealJob) \subseteq Seq(SealJob) /\ One(OpenJob) \subseteq Seq(OpenJob)
      BY OneType
    <3>2. QED
      BY <3>1 DEF SealQueue, OpenQueue
  <2>3. sealing \in [End -> SealQueue] /\ opening \in [End -> OpenQueue]
    BY <2>1, <2>2 DEF Shapes
  <2>4. QED
    BY <2>1, <2>3 DEF Shapes, TypeOK
<1>2. QED
  BY <1>1, Invariance, PTL

\* No counter of a session seals two frames, whatever fails, stops or is
\* disposed between the steps of a job: the counter a frame takes when its keys
\* are there is above every one already posted.
THEOREM CountersAreFresh == Spec => []CountersFresh
<1>1. IInv => CountersFresh
  BY DEF IInv, Sound, PostedFresh, CountersFresh
<1>2. QED
  BY <1>1, Invariance, PTL

\* An end confirms only a session both ends are keyed for, whatever strays in
\* from an earlier one: a frame that authenticates was sealed by a counterpart
\* that holds this end's hello.
THEOREM BothAreKeyed == Spec => []ConfirmedTogether
<1>1. IInv => ConfirmedTogether
  BY DEF IInv, Sound, Own, Keyed, ConfirmedTogether
<1>2. QED
  BY <1>1, Invariance, PTL

\* Whichever of the confirmation, the deadline, a failed derivation and a
\* release comes first, the transport tells its owner one outcome at most and
\* leaves no timer behind.
THEOREM OutcomeIsOne == Spec => []OneOutcome
<1>1. IInv => OneOutcome
  BY DEF IInv, Sound, Own, Timed, OneOutcome
<1>2. QED
  BY <1>1, Invariance, PTL

-----------------------------------------------------------------------------
(* What an end delivers: frames on their way, in line.  The frames posted  *)
(* to an end and not yet opened stand in the order of their counters: one  *)
(* in the job, the others in the queue and on the wire.  A frame that      *)
(* comes again, or strays in, gets in between and puts none out of order.  *)

\* Of the frames P, those of q come after all that are sealed before them: they
\* are in H, or earlier in q.
Follows(q, H, P) ==
  \A i \in DOMAIN q : q[i] \in P =>
    \A f \in P : f.counter < q[i].counter => f \in H \/ \E j \in 1 .. (i - 1) : q[j] = f

\* The frames an end that accepted the counter c has done with.
Passed(P, c) == {f \in P : f.counter <= c}

\* The frames P stand in line: past c, in a job of J, in the queue or on the wire.
Line(J, items, w, P, c) ==
  /\ \A f \in J \cap P : \A g \in P : g.counter < f.counter => g.counter <= c
  /\ Follows(items, Passed(P, c) \cup J, P)
  /\ Follows(w, Passed(P, c) \cup J \cup Range(items), P)
  /\ P \subseteq Passed(P, c) \cup J \cup Range(items) \cup Range(w)

LEMMA RangeEmpty == Range(<< >>) = {}
BY DEF Range

LEMMA RangeAppend ==
  ASSUME NEW S, NEW q \in Seq(S), NEW x \in S
  PROVE  Range(Append(q, x)) = Range(q) \cup {x}
<1>1. /\ DOMAIN q = 1 .. Len(q) /\ Len(q) \in Nat
      /\ DOMAIN Append(q, x) = 1 .. (Len(q) + 1)
  OBVIOUS
<1>2. /\ \A i \in 1 .. Len(q) : Append(q, x)[i] = q[i]
      /\ Append(q, x)[Len(q) + 1] = x
  OBVIOUS
<1>3. QED
  BY <1>1, <1>2 DEF Range

LEMMA RangeTail ==
  ASSUME NEW S, NEW q \in Seq(S), q # << >>
  PROVE  /\ Range(q) = {Head(q)} \cup Range(Tail(q))
         /\ Range(q) \subseteq S
<1>1. DOMAIN q = 1 .. Len(q) /\ Len(q) \in Nat \ {0}
  OBVIOUS
<1>2. DOMAIN Tail(q) = 1 .. (Len(q) - 1) /\ Head(q) = q[1]
  BY <1>1
<1>3. \A i \in 1 .. (Len(q) - 1) : Tail(q)[i] = q[i + 1]
  BY <1>1
<1>4. \A i \in 1 .. Len(q) : i = 1 \/ i - 1 \in 1 .. (Len(q) - 1)
  BY <1>1
<1>5. \A i \in 1 .. Len(q) : i # 1 => q[i] = Tail(q)[i - 1]
  BY <1>1, <1>3, <1>4
<1>6. \A i \in 1 .. (Len(q) - 1) : i + 1 \in 1 .. Len(q)
  BY <1>1
<1>7. \A i \in 1 .. Len(q) : q[i] \in S
  BY <1>1
<1>8. Range(q) \subseteq {Head(q)} \cup Range(Tail(q))
  BY <1>1, <1>2, <1>4, <1>5 DEF Range
<1>9. Range(Tail(q)) \subseteq Range(q) /\ Head(q) \in Range(q)
  BY <1>1, <1>2, <1>3, <1>6 DEF Range
<1>10. Range(q) \subseteq S
  BY <1>1, <1>7 DEF Range
<1>11. QED
  BY <1>8, <1>9, <1>10

LEMMA RangeIn ==
  ASSUME NEW S, NEW q \in Seq(S)
  PROVE  Range(q) \subseteq S
BY DEF Range

LEMMA FollowsMore ==
  ASSUME NEW q, NEW H, NEW K, NEW P, Follows(q, H, P), H \cap P \subseteq K
  PROVE  Follows(q, K, P)
BY DEF Follows

LEMMA FollowsEmpty ==
  ASSUME NEW H, NEW P
  PROVE  Follows(<< >>, H, P)
BY DEF Follows

LEMMA FollowsAppend ==
  ASSUME NEW S, NEW q \in Seq(S), NEW x \in S, NEW H, NEW P, Follows(q, H, P),
         x \in P => \A f \in P : f.counter < x.counter => f \in H \cup Range(q)
  PROVE  Follows(Append(q, x), H, P)
<1>1. /\ DOMAIN q = 1 .. Len(q) /\ Len(q) \in Nat
      /\ DOMAIN Append(q, x) = 1 .. (Len(q) + 1)
  OBVIOUS
<1>2. /\ \A i \in 1 .. Len(q) : Append(q, x)[i] = q[i]
      /\ Append(q, x)[Len(q) + 1] = x
  OBVIOUS
<1>3. ASSUME NEW i \in 1 .. (Len(q) + 1), Append(q, x)[i] \in P, NEW f \in P,
             f.counter < Append(q, x)[i].counter
      PROVE  f \in H \/ \E j \in 1 .. (i - 1) : Append(q, x)[j] = f
  <2>1. CASE i \in 1 .. Len(q)
    <3>1. f \in H \/ \E j \in 1 .. (i - 1) : q[j] = f
      BY <1>1, <1>2, <1>3, <2>1 DEF Follows
    <3>2. \A j \in 1 .. (i - 1) : j \in 1 .. Len(q)
      BY <1>1, <2>1
    <3>3. QED
      BY <1>2, <3>1, <3>2
  <2>2. CASE i = Len(q) + 1
    <3>1. f \in H \/ \E j \in 1 .. Len(q) : q[j] = f
      BY <1>1, <1>2, <1>3, <2>2 DEF Range
    <3>2. i - 1 = Len(q)
      BY <1>1, <2>2
    <3>3. QED
      BY <1>2, <3>1, <3>2
  <2>3. QED
    BY <1>1, <2>1, <2>2
<1>4. QED
  BY <1>1, <1>3 DEF Follows

LEMMA FollowsTail ==
  ASSUME NEW S, NEW q \in Seq(S), q # << >>, NEW H, NEW P, Follows(q, H, P)
  PROVE  /\ Follows(Tail(q), H \cup {Head(q)}, P)
         /\ Head(q) \in P => \A f \in P : f.counter < Head(q).counter => f \in H
<1>1. DOMAIN q = 1 .. Len(q) /\ Len(q) \in Nat \ {0}
  OBVIOUS
<1>2. DOMAIN Tail(q) = 1 .. (Len(q) - 1) /\ Head(q) = q[1]
  BY <1>1
<1>3. \A i \in 1 .. (Len(q) - 1) : Tail(q)[i] = q[i + 1] /\ i + 1 \in 1 .. Len(q)
  BY <1>1
<1>4. ASSUME NEW i \in 1 .. (Len(q) - 1), Tail(q)[i] \in P, NEW f \in P,
             f.counter < Tail(q)[i].counter
      PROVE  f \in H \cup {Head(q)} \/ \E j \in 1 .. (i - 1) : Tail(q)[j] = f
  <2>1. f \in H \/ \E k \in 1 .. i : q[k] = f
    <3>1. (i + 1) - 1 = i
      BY <1>1
    <3>2. f \in H \/ \E k \in 1 .. ((i + 1) - 1) : q[k] = f
      BY <1>1, <1>3, <1>4 DEF Follows
    <3>3. QED
      BY <3>1, <3>2
  <2>2. ASSUME NEW k \in 1 .. i, q[k] = f, k # 1
        PROVE  \E j \in 1 .. (i - 1) : Tail(q)[j] = f
    <3>1. k - 1 \in 1 .. (i - 1) /\ k - 1 \in 1 .. (Len(q) - 1) /\ (k - 1) + 1 = k
      BY <1>1, <2>2
    <3>2. QED
      BY <1>3, <2>2, <3>1
  <2>3. QED
    BY <1>2, <2>1, <2>2
<1>5. Follows(Tail(q), H \cup {Head(q)}, P)
  BY <1>2, <1>4 DEF Follows
<1>6. Head(q) \in P => \A f \in P : f.counter < Head(q).counter => f \in H
  <2>1. 1 \in DOMAIN q /\ 1 .. (1 - 1) = {}
    BY <1>1
  <2>2. QED
    BY <1>2, <2>1 DEF Follows
<1>7. QED
  BY <1>5, <1>6

LEMMA FollowsPosted ==
  ASSUME NEW q, NEW H, NEW P, NEW x, Follows(q, H, P), x \notin Range(q),
         \A f \in P : f.counter < x.counter, \A f \in P : f.counter \in Int,
         x.counter \in Int
  PROVE  Follows(q, H, P \cup {x})
<1>1. \A i \in DOMAIN q : q[i] # x
  BY DEF Range
<1>2. ASSUME NEW i \in DOMAIN q, q[i] \in P \cup {x}, NEW f \in P \cup {x},
             f.counter < q[i].counter
      PROVE  f \in H \/ \E j \in 1 .. (i - 1) : q[j] = f
  <2>1. q[i] \in P /\ f \in P
    BY <1>1, <1>2
  <2>2. QED
    BY <1>2, <2>1 DEF Follows
<1>3. QED
  BY <1>2 DEF Follows

LEMMA LineNone ==
  ASSUME NEW J, NEW items, NEW w, NEW c
  PROVE  Line(J, items, w, {}, c)
BY DEF Line, Follows

LEMMA LineNext ==
  ASSUME NEW S, NEW items \in Seq(S), items # << >>, NEW w, NEW P, NEW c,
         Line({}, items, w, P, c)
  PROVE  Line({Head(items)}, Tail(items), w, P, c)
<1>1. /\ Follows(Tail(items), Passed(P, c) \cup {Head(items)}, P)
      /\ Head(items) \in P =>
           \A f \in P : f.counter < Head(items).counter => f \in Passed(P, c)
  BY FollowsTail DEF Line
<1>2. Range(items) = {Head(items)} \cup Range(Tail(items))
  BY RangeTail
<1>3. Passed(P, c) \cup {} \cup Range(items)
        = Passed(P, c) \cup {Head(items)} \cup Range(Tail(items))
  BY <1>2
<1>4. QED
  BY <1>1, <1>3 DEF Line, Passed

LEMMA LineQueued ==
  ASSUME NEW S, NEW items \in Seq(S), NEW w \in Seq(S), w # << >>, NEW J, NEW P, NEW c,
         Line(J, items, w, P, c)
  PROVE  Line(J, Append(items, Head(w)), Tail(w), P, c)
<1> DEFINE I == Passed(P, c) \cup J \cup Range(items)
<1>1. Head(w) \in S
  BY Rest
<1>2. /\ Follows(Tail(w), I \cup {Head(w)}, P)
      /\ Head(w) \in P => \A f \in P : f.counter < Head(w).counter => f \in I
  BY FollowsTail DEF Line
<1>3. Follows(Append(items, Head(w)), Passed(P, c) \cup J, P)
  BY <1>1, <1>2, FollowsAppend DEF Line
<1>4. Range(Append(items, Head(w))) = Range(items) \cup {Head(w)}
  BY <1>1, RangeAppend
<1>5. I \cup {Head(w)} = Passed(P, c) \cup J \cup Range(Append(items, Head(w)))
  BY <1>4
<1>6. Range(w) = {Head(w)} \cup Range(Tail(w))
  BY RangeTail
<1>7. P \subseteq I \cup {Head(w)} \cup Range(Tail(w))
  BY <1>6 DEF Line
<1> HIDE DEF I
<1>8. QED
  BY <1>2, <1>3, <1>5, <1>7 DEF Line

\* A frame comes again, or strays in.
LEMMA LineAgain ==
  ASSUME NEW S, NEW items \in Seq(S), NEW w, NEW x \in S, NEW J, NEW P, NEW c,
         x \in P => x \notin Range(w),
         \A f \in P : f.counter \in Int, c \in Int,
         Line(J, items, w, P, c)
  PROVE  Line(J, Append(items, x), w, P, c)
<1> DEFINE H == Passed(P, c) \cup J
           I == H \cup Range(items)
<1>1. ASSUME x \in P, NEW f \in P, f.counter < x.counter
      PROVE  f \in I
  <2>1. x \in I
    BY <1>1 DEF Line
  <2>2. CASE x \in Passed(P, c)
    BY <1>1, <2>2 DEF Passed
  <2>3. CASE x \in J
    BY <1>1, <2>3 DEF Line, Passed
  <2>4. CASE x \in Range(items)
    <3>1. PICK i \in DOMAIN items : items[i] = x
      BY <2>4 DEF Range
    <3>2. f \in H \/ \E j \in 1 .. (i - 1) : items[j] = f
      BY <1>1, <3>1 DEF Line, Follows
    <3>3. \A j \in 1 .. (i - 1) : j \in DOMAIN items
      BY <3>1
    <3>4. QED
      BY <3>2, <3>3 DEF Range
  <2>5. QED
    BY <2>1, <2>2, <2>3, <2>4
<1>2. Follows(Append(items, x), H, P)
  BY <1>1, FollowsAppend DEF Line
<1>3. Range(Append(items, x)) = Range(items) \cup {x}
  BY RangeAppend
<1>4. Follows(w, H \cup Range(Append(items, x)), P)
  BY <1>3, FollowsMore DEF Line
<1>5. P \subseteq H \cup Range(Append(items, x)) \cup Range(w)
  BY <1>3 DEF Line
<1>6. QED
  BY <1>2, <1>4, <1>5 DEF Line

\* A hello is taken off the wire.
LEMMA LineGreeted ==
  ASSUME NEW S, NEW items, NEW w \in Seq(S), w # << >>, NEW J, NEW P, NEW c,
         Head(w) \notin P, Line(J, items, w, P, c)
  PROVE  Line(J, items, Tail(w), P, c)
<1> DEFINE I == Passed(P, c) \cup J \cup Range(items)
<1>1. Follows(Tail(w), I \cup {Head(w)}, P)
  BY FollowsTail DEF Line
<1>2. (I \cup {Head(w)}) \cap P \subseteq I
  OBVIOUS
<1>3. Follows(Tail(w), I, P)
  BY <1>1, <1>2, FollowsMore
<1>4. Range(w) = {Head(w)} \cup Range(Tail(w))
  BY RangeTail
<1>5. QED
  BY <1>3, <1>4 DEF Line

\* A hello is posted.
LEMMA LineGreets ==
  ASSUME NEW S, NEW items, NEW w \in Seq(S), NEW x \in S, NEW J, NEW P, NEW c,
         x \notin P, Line(J, items, w, P, c)
  PROVE  Line(J, items, Append(w, x), P, c)
<1>1. Follows(Append(w, x), Passed(P, c) \cup J \cup Range(items), P)
  BY FollowsAppend DEF Line
<1>2. Range(Append(w, x)) = Range(w) \cup {x}
  BY RangeAppend
<1>3. QED
  BY <1>1, <1>2 DEF Line

\* A job is refused, or fails.
LEMMA LineSettled ==
  ASSUME NEW items, NEW w, NEW J, NEW P, NEW c, \A f \in J \cap P : f.counter <= c,
         Line(J, items, w, P, c)
  PROVE  Line({}, items, w, P, c)
<1>1. J \cap P \subseteq Passed(P, c)
  BY DEF Passed
<1>2. /\ Follows(items, Passed(P, c) \cup {}, P)
      /\ Follows(w, Passed(P, c) \cup {} \cup Range(items), P)
  BY <1>1, FollowsMore DEF Line
<1>3. QED
  BY <1>1, <1>2 DEF Line

\* A frame opens, and the counter moves on to it.
LEMMA LineOpened ==
  ASSUME NEW items, NEW w, NEW P, NEW f \in P, NEW c \in Int,
         \A g \in P : g.counter \in Int, \A g \in P : g.counter = f.counter => g = f,
         c < f.counter, Line({f}, items, w, P, c)
  PROVE  /\ Line({}, items, w, P, f.counter)
         /\ Passed(P, f.counter) = Passed(P, c) \cup {f}
<1>1. \A g \in P : g.counter < f.counter => g.counter <= c
  BY DEF Line
<1>2. Passed(P, f.counter) = Passed(P, c) \cup {f}
  BY <1>1 DEF Passed
<1>3. QED
  BY <1>2 DEF Line

\* A frame is posted, under a counter above all others.
LEMMA LinePosted ==
  ASSUME NEW S, NEW items, NEW w \in Seq(S), NEW x \in S, NEW J, NEW P, NEW c,
         x \notin J \cup Range(items) \cup Range(w),
         \A f \in P : f.counter < x.counter, \A f \in P : f.counter \in Int,
         x.counter \in Int, c \in Int, c < x.counter, Line(J, items, w, P, c)
  PROVE  Line(J, items, Append(w, x), P \cup {x}, c)
<1> DEFINE Q == P \cup {x}
           I == Passed(P, c) \cup J \cup Range(items)
<1>1. Passed(Q, c) = Passed(P, c)
  BY DEF Passed
<1>2. Follows(items, Passed(P, c) \cup J, Q)
  BY FollowsPosted DEF Line
<1>3. Follows(w, I, Q)
  BY FollowsPosted DEF Line
<1>4. Follows(Append(w, x), I, Q)
  <2>1. \A f \in Q : f.counter < x.counter => f \in I \cup Range(w)
    BY DEF Line
  <2>2. QED
    BY <1>3, <2>1, FollowsAppend
<1>5. Range(Append(w, x)) = Range(w) \cup {x}
  BY RangeAppend
<1>6. Q \subseteq I \cup Range(Append(w, x))
  BY <1>5 DEF Line
<1>7. \A f \in J \cap Q : \A g \in Q : g.counter < f.counter => g.counter <= c
  <2>1. \A f \in J \cap Q : f \in P
    OBVIOUS
  <2>2. QED
    BY <2>1 DEF Line
<1>8. QED
  BY <1>1, <1>2, <1>4, <1>6, <1>7 DEF Line

-----------------------------------------------------------------------------
(* What an end was given to send, in line.  Messages are numbered as they  *)
(* are given; one is sealed under a counter that says where it stood.      *)

\* The messages that left in the frames P.
Said(P) == {f.msg : f \in P}

\* The messages of q are greater each than those before it and those of H, and
\* none is greater than n.  Confirmations count for nothing.
Climbs(q, H, n) ==
  \A i \in DOMAIN q : q[i] # Confirmation =>
    /\ q[i] <= n
    /\ \A h \in H : h < q[i]
    /\ \A j \in 1 .. (i - 1) : q[j] < q[i]

\* Of n messages those of H left, and the others stand in line: in a job of J
\* or in the queue.
Told(J, items, H, n) ==
  /\ \A m \in J \ {Confirmation} : m <= n /\ \A h \in H : h < m
  /\ Climbs(items, H \cup J, n)
  /\ (1 .. n) \ Unsealable \subseteq H \cup J \cup Range(items)

\* Of n messages the frames P carry the first that can be sealed, in order.
Numbered(P, n) ==
  /\ \A f \in P : f.msg <= n /\ f.msg \notin Unsealable
  /\ \A f, g \in P : f.counter < g.counter /\ g.msg # Confirmation => f.msg < g.msg
  /\ \A f \in P : \A m \in (1 .. f.msg) \ Unsealable : m \in Said(P)

\* g is a prefix of what is in S, in order.
Prefix(g, S) ==
  \A i \in DOMAIN g :
    /\ g[i] \in S
    /\ \A j \in 1 .. (i - 1) : g[j] < g[i]
    /\ \A n \in S : n < g[i] => \E j \in 1 .. (i - 1) : g[j] = n

LEMMA ToldGiven ==
  ASSUME NEW J \in SUBSET Nat, NEW items \in Seq(Nat), NEW H \in SUBSET Nat, NEW n \in Nat,
         \A h \in H : h <= n, Told(J, items, H, n)
  PROVE  Told(J, Append(items, n + 1), H, n + 1)
<1> DEFINE q == Append(items, n + 1)
<1>1. /\ DOMAIN items = 1 .. Len(items) /\ Len(items) \in Nat
      /\ DOMAIN q = 1 .. (Len(items) + 1)
      /\ \A i \in 1 .. Len(items) : q[i] = items[i] /\ items[i] \in Nat
      /\ q[Len(items) + 1] = n + 1
  OBVIOUS
<1>2. \A m \in J \ {Confirmation} : m <= n + 1 /\ \A h \in H : h < m
  BY DEF Told
<1>3. \A h \in H \cup J : h < n + 1
  BY DEF Told, Confirmation
<1>4. \A i \in 1 .. Len(items) : items[i] < n + 1
  BY <1>1 DEF Told, Climbs, Confirmation
<1>5. Climbs(q, H \cup J, n + 1)
  <2> SUFFICES ASSUME NEW i \in 1 .. (Len(items) + 1), q[i] # Confirmation
               PROVE  /\ q[i] <= n + 1
                      /\ \A h \in H \cup J : h < q[i]
                      /\ \A j \in 1 .. (i - 1) : q[j] < q[i]
    BY <1>1 DEF Climbs
  <2>1. CASE i \in 1 .. Len(items)
    <3>1. \A j \in 1 .. (i - 1) : j \in 1 .. Len(items)
      BY <1>1, <2>1
    <3>2. /\ items[i] <= n /\ \A h \in H \cup J : h < items[i]
          /\ \A j \in 1 .. (i - 1) : items[j] < items[i]
      BY <1>1, <2>1 DEF Told, Climbs
    <3>3. QED
      BY <1>1, <2>1, <3>1, <3>2
  <2>2. CASE i = Len(items) + 1
    <3>1. \A j \in 1 .. (i - 1) : j \in 1 .. Len(items)
      BY <1>1, <2>2
    <3>2. QED
      BY <1>1, <1>3, <1>4, <2>2, <3>1
  <2>3. QED
    BY <1>1, <2>1, <2>2
<1>6. Range(q) = Range(items) \cup {n + 1}
  BY RangeAppend
<1>7. (1 .. (n + 1)) \ Unsealable \subseteq H \cup J \cup Range(q)
  <2>1. 1 .. (n + 1) = (1 .. n) \cup {n + 1}
    OBVIOUS
  <2>2. QED
    BY <1>6, <2>1 DEF Told
<1>8. QED
  BY <1>2, <1>5, <1>7 DEF Told

\* The confirmation is queued.
LEMMA ToldConfirms ==
  ASSUME NEW J, NEW items \in Seq(Nat), NEW H, NEW n, Told(J, items, H, n)
  PROVE  Told(J, Append(items, Confirmation), H, n)
<1> DEFINE q == Append(items, Confirmation)
<1>1. /\ DOMAIN items = 1 .. Len(items) /\ Len(items) \in Nat
      /\ DOMAIN q = 1 .. (Len(items) + 1)
      /\ \A i \in 1 .. Len(items) : q[i] = items[i]
      /\ q[Len(items) + 1] = Confirmation
  BY DEF Confirmation
<1>2. Climbs(q, H \cup J, n)
  <2> SUFFICES ASSUME NEW i \in 1 .. (Len(items) + 1), q[i] # Confirmation
               PROVE  /\ q[i] <= n
                      /\ \A h \in H \cup J : h < q[i]
                      /\ \A j \in 1 .. (i - 1) : q[j] < q[i]
    BY <1>1 DEF Climbs
  <2>1. i \in 1 .. Len(items)
    BY <1>1
  <2>2. \A j \in 1 .. (i - 1) : j \in 1 .. Len(items)
    BY <1>1, <2>1
  <2>3. QED
    BY <1>1, <2>1, <2>2 DEF Told, Climbs
<1>3. Range(q) = Range(items) \cup {Confirmation}
  BY RangeAppend DEF Confirmation
<1>4. QED
  BY <1>2, <1>3 DEF Told

LEMMA ToldNext ==
  ASSUME NEW items \in Seq(Nat), items # << >>, NEW H, NEW n, Told({}, items, H, n)
  PROVE  Told({Head(items)}, Tail(items), H, n)
<1> DEFINE q == Tail(items)
           m == Head(items)
<1>1. DOMAIN items = 1 .. Len(items) /\ Len(items) \in Nat \ {0}
  OBVIOUS
<1>2. DOMAIN q = 1 .. (Len(items) - 1) /\ m = items[1]
  BY <1>1
<1>3. \A i \in 1 .. (Len(items) - 1) : q[i] = items[i + 1] /\ i + 1 \in 1 .. Len(items)
  BY <1>1
<1>4. m # Confirmation => m <= n /\ \A h \in H : h < m
  <2>1. 1 \in DOMAIN items
    BY <1>1
  <2>2. QED
    BY <1>2, <2>1 DEF Told, Climbs
<1>5. Climbs(q, H \cup {m}, n)
  <2> SUFFICES ASSUME NEW i \in 1 .. (Len(items) - 1), q[i] # Confirmation
               PROVE  /\ q[i] <= n
                      /\ \A h \in H \cup {m} : h < q[i]
                      /\ \A j \in 1 .. (i - 1) : q[j] < q[i]
    BY <1>2 DEF Climbs
  <2>1. (i + 1) - 1 = i
    BY <1>1
  <2>2. /\ items[i + 1] <= n
        /\ \A h \in H : h < items[i + 1]
        /\ \A j \in 1 .. ((i + 1) - 1) : items[j] < items[i + 1]
    BY <1>1, <1>3 DEF Told, Climbs
  <2>3. \A j \in 1 .. i : items[j] < items[i + 1]
    BY <2>1, <2>2
  <2>4. m < q[i]
    BY <1>2, <1>3, <2>3
  <2>5. \A j \in 1 .. (i - 1) : q[j] < q[i]
    <3>1. \A j \in 1 .. (i - 1) : j + 1 \in 1 .. i /\ j \in 1 .. (Len(items) - 1)
      BY <1>1
    <3>2. QED
      BY <1>3, <2>3, <3>1
  <2>6. QED
    BY <1>3, <2>2, <2>4, <2>5
<1>6. Range(items) = {m} \cup Range(q)
  BY RangeTail
<1> HIDE DEF q, m
<1>7. QED
  BY <1>4, <1>5, <1>6 DEF Told, q, m

LEMMA ToldSealed ==
  ASSUME NEW m, NEW items, NEW H, NEW n, Told({m}, items, H, n)
  PROVE  Told({}, items, H \cup {m}, n)
<1>1. H \cup {m} \cup {} = H \cup {m}
  OBVIOUS
<1>2. QED
  BY <1>1 DEF Told

\* A message that cannot be sealed leaves the line.
LEMMA ToldDropped ==
  ASSUME NEW J \in SUBSET Unsealable, NEW items, NEW H, NEW n, Told(J, items, H, n)
  PROVE  Told({}, items, H, n)
<1>1. Climbs(items, H \cup {}, n)
  BY DEF Told, Climbs
<1>2. QED
  BY <1>1 DEF Told

LEMMA SaidMore ==
  ASSUME NEW P, NEW x
  PROVE  Said(P \cup {x}) = Said(P) \cup {x.msg}
BY DEF Said

LEMMA NumberedMore ==
  ASSUME NEW P \in SUBSET Sealed, NEW n \in Nat, Numbered(P, n)
  PROVE  Numbered(P, n + 1)
<1>1. \A f \in P : f.msg \in Nat
  BY DEF Sealed, Msg
<1>2. QED
  BY <1>1 DEF Numbered

\* The frame that is posted carries the next message.
LEMMA NumberedPosted ==
  ASSUME NEW P \in SUBSET Sealed, NEW x \in Sealed, NEW items \in Seq(Nat), NEW n \in Nat,
         \A f \in P : f.counter < x.counter, x.msg \notin Unsealable,
         Numbered(P, n), Told({x.msg}, items, Said(P), n)
  PROVE  Numbered(P \cup {x}, n)
<1> DEFINE Q == P \cup {x}
<1>1. /\ \A f \in Q : f.msg \in Nat /\ f.counter \in Nat
      /\ x.msg \in Nat
  BY LimitsAssumption DEF Sealed, Msg
<1>2. x.msg <= n
  BY <1>1 DEF Told, Confirmation
<1>3. x.msg # Confirmation => \A f \in P : f.msg < x.msg
  BY DEF Told, Said
<1>4. \A f, g \in Q : f.counter < g.counter /\ g.msg # Confirmation => f.msg < g.msg
  BY <1>1, <1>3 DEF Numbered
<1>5. ASSUME NEW m \in (1 .. x.msg) \ Unsealable PROVE m \in Said(P) \cup {x.msg}
  <2>1. m \in 1 .. n /\ m \in Nat
    BY <1>1, <1>2
  <2>2. m \in Said(P) \cup {x.msg} \cup Range(items)
    BY <2>1 DEF Told
  <2>3. ASSUME NEW i \in DOMAIN items, items[i] = m PROVE FALSE
    <3>1. m # Confirmation
      BY DEF Confirmation
    <3>2. x.msg < items[i]
      BY <2>3, <3>1 DEF Told, Climbs
    <3>3. QED
      BY <1>1, <2>3, <3>2
  <2>4. m \notin Range(items)
    BY <2>3 DEF Range
  <2>5. QED
    BY <2>2, <2>4
<1>6. Said(Q) = Said(P) \cup {x.msg}
  BY SaidMore
<1>7. \A f \in Q : \A m \in (1 .. f.msg) \ Unsealable : m \in Said(Q)
  BY <1>5, <1>6 DEF Numbered
<1>8. \A f \in Q : f.msg <= n /\ f.msg \notin Unsealable
  BY <1>2 DEF Numbered
<1>9. QED
  BY <1>4, <1>7, <1>8 DEF Numbered

LEMMA PrefixMore ==
  ASSUME NEW g \in Seq(Nat), NEW n \in Nat, Prefix(g, (1 .. n) \ Unsealable)
  PROVE  Prefix(g, (1 .. (n + 1)) \ Unsealable)
<1> SUFFICES ASSUME NEW i \in DOMAIN g
             PROVE  /\ g[i] \in (1 .. (n + 1)) \ Unsealable
                    /\ \A j \in 1 .. (i - 1) : g[j] < g[i]
                    /\ \A m \in (1 .. (n + 1)) \ Unsealable :
                         m < g[i] => \E j \in 1 .. (i - 1) : g[j] = m
  BY DEF Prefix
<1>1. /\ g[i] \in (1 .. n) \ Unsealable
      /\ \A j \in 1 .. (i - 1) : g[j] < g[i]
      /\ \A m \in (1 .. n) \ Unsealable : m < g[i] => \E j \in 1 .. (i - 1) : g[j] = m
  BY DEF Prefix
<1>2. \A m \in 1 .. (n + 1) : m < g[i] => m \in 1 .. n
  BY <1>1
<1>3. QED
  BY <1>1, <1>2

\* The next frame in line carries the next message.
LEMMA PrefixGrows ==
  ASSUME NEW P \in SUBSET Sealed, NEW f \in P, NEW c \in Nat, NEW n \in Nat,
         NEW g \in Seq(Nat), Prefix(g, (1 .. n) \ Unsealable), Numbered(P, n),
         Range(g) = Said(Passed(P, c)) \ {Confirmation},
         c < f.counter, f.msg # Confirmation,
         \A h \in P : h.counter < f.counter => h.counter <= c,
         \A h \in P : h.counter = f.counter => h = f
  PROVE  Prefix(Append(g, f.msg), (1 .. n) \ Unsealable)
<1> DEFINE r == Append(g, f.msg)
           S == (1 .. n) \ Unsealable
<1>1. \A h \in P : h.msg \in Nat /\ h.counter \in Nat
  BY LimitsAssumption DEF Sealed, Msg
<1>2. /\ DOMAIN g = 1 .. Len(g) /\ Len(g) \in Nat
      /\ DOMAIN r = 1 .. (Len(g) + 1)
      /\ \A i \in 1 .. Len(g) : r[i] = g[i]
      /\ r[Len(g) + 1] = f.msg
  BY <1>1
<1>3. f.msg \in S
  BY <1>1 DEF Numbered, Confirmation
<1>4. \A i \in 1 .. Len(g) : g[i] < f.msg
  <2> SUFFICES ASSUME NEW i \in 1 .. Len(g) PROVE g[i] < f.msg
    OBVIOUS
  <2>1. g[i] \in Said(Passed(P, c))
    BY <1>2 DEF Range
  <2>2. PICK h \in P : h.counter <= c /\ h.msg = g[i]
    BY <2>1 DEF Said, Passed
  <2>3. h.counter < f.counter
    BY <1>1, <2>2
  <2>4. QED
    BY <2>2, <2>3 DEF Numbered
<1>5. \A m \in S : m < f.msg => \E j \in 1 .. Len(g) : g[j] = m
  <2> SUFFICES ASSUME NEW m \in S, m < f.msg PROVE \E j \in 1 .. Len(g) : g[j] = m
    OBVIOUS
  <2>1. m \in (1 .. f.msg) \ Unsealable /\ m # Confirmation
    BY <1>1 DEF Confirmation
  <2>2. PICK h \in P : h.msg = m
    BY <2>1 DEF Numbered, Said
  <2>3. ~(f.counter < h.counter)
    <3>1. f.counter < h.counter => f.msg < h.msg
      BY <2>1, <2>2 DEF Numbered
    <3>2. QED
      BY <1>1, <2>2, <3>1
  <2>4. h.counter # f.counter
    BY <1>1, <2>2
  <2>5. h.counter <= c
    BY <1>1, <2>3, <2>4
  <2>6. m \in Range(g)
    BY <2>1, <2>2, <2>5 DEF Said, Passed
  <2>7. QED
    BY <1>2, <2>6 DEF Range
<1> SUFFICES ASSUME NEW i \in 1 .. (Len(g) + 1)
             PROVE  /\ r[i] \in S
                    /\ \A j \in 1 .. (i - 1) : r[j] < r[i]
                    /\ \A m \in S : m < r[i] => \E j \in 1 .. (i - 1) : r[j] = m
  BY <1>2 DEF Prefix
<1>6. CASE i \in 1 .. Len(g)
  <2>1. \A j \in 1 .. (i - 1) : j \in 1 .. Len(g)
    BY <1>2, <1>6
  <2>2. /\ g[i] \in S
        /\ \A j \in 1 .. (i - 1) : g[j] < g[i]
        /\ \A m \in S : m < g[i] => \E j \in 1 .. (i - 1) : g[j] = m
    BY <1>2, <1>6 DEF Prefix
  <2> HIDE DEF r, S
  <2>3. QED
    BY <1>2, <1>6, <2>1, <2>2
<1>7. CASE i = Len(g) + 1
  <2>1. i - 1 = Len(g)
    BY <1>2, <1>7
  <2> HIDE DEF r, S
  <2>2. QED
    BY <1>2, <1>3, <1>4, <1>5, <1>7, <2>1
<1>8. QED
  BY <1>2, <1>6, <1>7

-----------------------------------------------------------------------------
(* The queues, and the lines they are part of.                             *)

InJob(q)  == {q.jobs[i].frame : i \in DOMAIN q.jobs}
InSeal(s) == {s.jobs[i].msg : i \in DOMAIN s.jobs}

\* A job was judged by the counter accepted when it began, which has not moved since.
Judges(q, c) ==
  \A i \in DOMAIN q.jobs :
    /\ q.jobs[i].stage = "keys" => q.jobs[i].frame.counter > c
    /\ q.jobs[i].stage = "refused" => q.jobs[i].frame.counter <= c

Refuses(s, c) ==
  \A i \in DOMAIN s.jobs : s.jobs[i].stage = "refused" => c > CounterLimit

LEMMA JobsOf ==
  /\ \A x : DOMAIN <<x>> = {1} /\ <<x>>[1] = x
  /\ DOMAIN << >> = {}
OBVIOUS

LEMMA NextOpenLine ==
  ASSUME NEW q \in OpenQ, NEW halted, NEW c \in Nat, NEW w, NEW P,
         Judges(q, c)
  PROVE  /\ Judges(NextOpen(q, halted, c), c)
         /\ Line(InJob(q), q.items, w, P, c) =>
              Line(InJob(NextOpen(q, halted, c)), NextOpen(q, halted, c).items, w, P, c)
<1> DEFINE r == NextOpen(q, halted, c)
<1>1. CASE q.jobs = << >> /\ ~halted /\ q.items # << >>
  <2> DEFINE f == Head(q.items)
             j == BeginOpen(f, c)
  <2>1. r.items = Tail(q.items) /\ r.jobs = <<j>>
    BY <1>1 DEF NextOpen
  <2>2. q.items \in Seq(Sealed)
    BY DEF OpenQ
  <2>3. f \in Sealed
    BY <1>1, <2>2, Rest
  <2>4. f.counter \in Nat
    BY <2>3, LimitsAssumption DEF Sealed
  <2>5. j.frame = f /\ j.stage = (IF f.counter <= c THEN "refused" ELSE "keys")
    BY DEF BeginOpen
  <2> HIDE DEF f, j, r
  <2>6. InJob(q) = {} /\ InJob(r) = {f}
    BY <1>1, <2>1, <2>5, JobsOf DEF InJob
  <2>7. Line(InJob(q), q.items, w, P, c) => Line({f}, Tail(q.items), w, P, c)
    BY <1>1, <2>2, <2>6, LineNext DEF f
  <2>8. Judges(r, c)
    BY <2>1, <2>4, <2>5, JobsOf DEF Judges
  <2>9. QED
    BY <2>1, <2>6, <2>7, <2>8 DEF r
<1>2. CASE ~(q.jobs = << >> /\ ~halted /\ q.items # << >>)
  BY <1>2 DEF NextOpen
<1>3. QED
  BY <1>1, <1>2

LEMMA EnqueueOpenParts ==
  ASSUME NEW q \in OpenQ, NEW f \in Sealed
  PROVE  /\ Enqueue(q, f) \in OpenQ
         /\ Enqueue(q, f).items = Append(q.items, f) /\ Enqueue(q, f).jobs = q.jobs
         /\ InJob(Enqueue(q, f)) = InJob(q)
         /\ \A c : Judges(q, c) => Judges(Enqueue(q, f), c)
<1> DEFINE x == Append(q.items, f)
<1>1. x \in Seq(Sealed)
  BY Appended DEF OpenQ
<1>2. Enqueue(q, f) = [q EXCEPT !.items = x]
  BY DEF Enqueue, OpenQ
<1> HIDE DEF x
<1>3. /\ Enqueue(q, f) \in OpenQ
      /\ Enqueue(q, f).items = x /\ Enqueue(q, f).jobs = q.jobs
  BY <1>1, <1>2 DEF OpenQ
<1>4. QED
  BY <1>3 DEF InJob, Judges, x

LEMMA SettleOpenParts ==
  ASSUME NEW q \in OpenQ, NEW i \in DOMAIN q.jobs
  PROVE  /\ Settle(q, i) \in OpenQ
         /\ Settle(q, i).items = q.items /\ Settle(q, i).jobs = << >>
         /\ InJob(Settle(q, i)) = {} /\ InJob(q) = {q.jobs[i].frame}
         /\ \A c : Judges(Settle(q, i), c)
<1>1. i = 1 /\ q.jobs = <<q.jobs[1]>>
  BY OneJob DEF OpenQ
<1>2. RemoveAt(q.jobs, i) = << >>
  BY <1>1, OneRemoved
<1>3. Settle(q, i) = [q EXCEPT !.jobs = << >>]
  BY <1>2 DEF Settle, OpenQ
<1>4. << >> \in One(OpenJob)
  BY OneType
<1>5. /\ Settle(q, i) \in OpenQ /\ Settle(q, i).items = q.items
      /\ Settle(q, i).jobs = << >>
  BY <1>3, <1>4 DEF OpenQ
<1>6. InJob(q) = {q.jobs[i].frame}
  BY <1>1, JobsOf DEF InJob
<1>7. QED
  BY <1>5, <1>6, JobsOf DEF InJob, Judges

LEMMA NextSealTold ==
  ASSUME NEW q \in SealQ, NEW halted, NEW c \in Nat, NEW H, NEW n,
         Told(InSeal(q), q.items, H, n)
  PROVE  Told(InSeal(NextSeal(q, halted, c)), NextSeal(q, halted, c).items, H, n)
<1> DEFINE r == NextSeal(q, halted, c)
<1>1. CASE q.jobs = << >> /\ ~halted /\ q.items # << >>
  <2> DEFINE m == Head(q.items)
             j == BeginSeal(m, c)
  <2>1. r.items = Tail(q.items) /\ r.jobs = <<j>>
    BY <1>1 DEF NextSeal
  <2>2. q.items \in Seq(Nat)
    BY DEF SealQ, Msg
  <2>3. j.msg = m
    BY DEF BeginSeal
  <2> HIDE DEF m, j, r
  <2>4. InSeal(q) = {} /\ InSeal(r) = {m}
    BY <1>1, <2>1, <2>3, JobsOf DEF InSeal
  <2>5. Told({m}, Tail(q.items), H, n)
    BY <1>1, <2>2, <2>4, ToldNext DEF m
  <2>6. QED
    BY <2>1, <2>4, <2>5 DEF r
<1>2. CASE ~(q.jobs = << >> /\ ~halted /\ q.items # << >>)
  BY <1>2 DEF NextSeal
<1>3. QED
  BY <1>1, <1>2

LEMMA NextSealRefuses ==
  ASSUME NEW q, NEW halted, NEW c \in Nat, Refuses(q, c)
  PROVE  /\ Refuses(NextSeal(q, halted, c), c)
         /\ \A i \in DOMAIN NextSeal(q, halted, c).jobs :
              NextSeal(q, halted, c).jobs[i].stage = "cipher" =>
                q.jobs # << >> /\ NextSeal(q, halted, c).jobs = q.jobs
<1> DEFINE r == NextSeal(q, halted, c)
<1>1. CASE q.jobs = << >> /\ ~halted /\ q.items # << >>
  <2> DEFINE j == BeginSeal(Head(q.items), c)
  <2>1. r.jobs = <<j>>
    BY <1>1 DEF NextSeal
  <2>2. j.stage = (IF c > CounterLimit THEN "refused" ELSE "keys")
    BY DEF BeginSeal
  <2> HIDE DEF j, r
  <2>3. Refuses(r, c)
    BY <2>1, <2>2, JobsOf DEF Refuses
  <2>4. \A i \in DOMAIN r.jobs : r.jobs[i].stage # "cipher"
    BY <2>1, <2>2, JobsOf
  <2>5. QED
    BY <2>3, <2>4 DEF r
<1>2. CASE ~(q.jobs = << >> /\ ~halted /\ q.items # << >>)
  <2>1. r = q
    BY <1>2 DEF NextSeal
  <2>2. \A i \in DOMAIN q.jobs : q.jobs # << >>
    OBVIOUS
  <2>3. QED
    BY <2>1, <2>2
<1>3. QED
  BY <1>1, <1>2

LEMMA EnqueueSealParts ==
  ASSUME NEW q \in SealQ, NEW m \in Msg
  PROVE  /\ Enqueue(q, m) \in SealQ
         /\ Enqueue(q, m).items = Append(q.items, m) /\ Enqueue(q, m).jobs = q.jobs
         /\ InSeal(Enqueue(q, m)) = InSeal(q)
         /\ \A c : Refuses(q, c) => Refuses(Enqueue(q, m), c)
<1> DEFINE x == Append(q.items, m)
<1>1. x \in Seq(Msg)
  BY Appended DEF SealQ
<1>2. Enqueue(q, m) = [q EXCEPT !.items = x]
  BY DEF Enqueue, SealQ
<1> HIDE DEF x
<1>3. /\ Enqueue(q, m) \in SealQ
      /\ Enqueue(q, m).items = x /\ Enqueue(q, m).jobs = q.jobs
  BY <1>1, <1>2 DEF SealQ
<1>4. QED
  BY <1>3 DEF InSeal, Refuses, x

LEMMA SettleSealParts ==
  ASSUME NEW q \in SealQ, NEW i \in DOMAIN q.jobs
  PROVE  /\ Settle(q, i) \in SealQ
         /\ Settle(q, i).items = q.items /\ Settle(q, i).jobs = << >>
         /\ InSeal(Settle(q, i)) = {} /\ InSeal(q) = {q.jobs[i].msg}
         /\ \A c : Refuses(Settle(q, i), c)
<1>1. i = 1 /\ q.jobs = <<q.jobs[1]>>
  BY OneJob DEF SealQ
<1>2. RemoveAt(q.jobs, i) = << >>
  BY <1>1, OneRemoved
<1>3. Settle(q, i) = [q EXCEPT !.jobs = << >>]
  BY <1>2 DEF Settle, SealQ
<1>4. << >> \in One(SealJob)
  BY OneType
<1>5. /\ Settle(q, i) \in SealQ /\ Settle(q, i).items = q.items
      /\ Settle(q, i).jobs = << >>
  BY <1>3, <1>4 DEF SealQ
<1>6. InSeal(q) = {q.jobs[i].msg}
  BY <1>1, JobsOf DEF InSeal
<1>7. QED
  BY <1>5, <1>6, JobsOf DEF InSeal, Refuses

LEMMA SealJobsAreMsgs ==
  ASSUME NEW q \in SealQ
  PROVE  InSeal(q) \in SUBSET Nat /\ q.items \in Seq(Nat)
<1>1. ASSUME NEW i \in DOMAIN q.jobs PROVE q.jobs[i].msg \in Nat
  <2>1. q.jobs[i] \in SealJob
    BY OneJob DEF SealQ
  <2>2. QED
    BY <2>1 DEF SealJob, Msg
<1>2. QED
  BY <1>1 DEF InSeal, SealQ, Msg

-----------------------------------------------------------------------------
(* The invariant of both lines.                                            *)

Attends(e) == transport[e].started => transport[e].attached

\* The end can open what was posted to it.
Live(e) == /\ ~transport[e].disposed /\ keys[e] # "failed"
           /\ peer[e] # Stray /\ peer[Other(e)] # Stray

InLine(e) ==
  Live(e) => Line(InJob(opening[e]), opening[e].items, wire[e], posted[e], last[e])

\* An end delivers what the frames it opened carried.
Heard(e) ==
  /\ last[e] = 0 \/ \E f \in posted[e] : f.counter = last[e]
  /\ ~transport[e].disposed =>
       Range(got[e]) = Said(Passed(posted[e], last[e])) \ {Confirmation}

Receives(e) == /\ Attends(e) /\ Judges(opening[e], last[e]) /\ InLine(e) /\ Heard(e)
               /\ Prefix(got[e], Sealable(Other(e)))

\* The end may seal another frame: once it cannot it never can again, and what
\* it is then given is lost.
Seals(e) ==
  \/ \E i \in DOMAIN sealing[e].jobs : sealing[e].jobs[i].stage = "cipher"
  \/ keys[e] # "failed" /\ next[e] <= CounterLimit

Telling(e) ==
  Seals(e) => Told(InSeal(sealing[e]), sealing[e].items, Said(posted[Other(e)]), sent[e])

Sends(e) == /\ Refuses(sealing[e], next[e]) /\ Telling(e)
            /\ Numbered(posted[Other(e)], sent[e])

LInv == IInv /\ \A e \in End : Receives(e) /\ Sends(e)

\* The types of what the lines are made of.
LEMMA LineParts ==
  ASSUME LInv, NEW e \in End
  PROVE  /\ IInv /\ Shapes /\ Receives(e) /\ Sends(e)
         /\ Other(e) \in End /\ Other(e) # e /\ Other(Other(e)) = e
         /\ transport[e] \in Transport
         /\ opening[e] \in OpenQ /\ sealing[e] \in SealQ
         /\ wire[e] \in Seq(Frame) /\ posted[e] \in SUBSET Sealed
         /\ last[e] \in Nat /\ next[e] \in Nat /\ sent[e] \in Nat
         /\ got[e] \in Seq(Nat)
         /\ \A f \in posted[e] : f.counter \in Nat /\ f.msg \in Nat /\ f.kind = "sealed"
<1>1. IInv /\ Receives(e) /\ Sends(e)
  BY DEF LInv
<1>2. Shapes
  BY <1>1 DEF IInv
<1>3. Other(e) \in End /\ Other(e) # e /\ Other(Other(e)) = e
  BY Ends
<1>4. /\ transport[e] \in Transport
      /\ opening[e] \in OpenQ /\ sealing[e] \in SealQ
      /\ wire[e] \in Seq(Frame) /\ posted[e] \in SUBSET Sealed
      /\ last[e] \in Nat /\ next[e] \in Nat /\ sent[e] \in Nat
  BY <1>2, LimitsAssumption DEF Shapes, OpenQ, SealQ
<1>5. got[e] \in Seq(Nat)
  <2>1. got[e] \in Seq(Nat \ {Confirmation})
    BY <1>2 DEF Shapes
  <2>2. QED
    BY <2>1
<1>6. \A f \in posted[e] : f.counter \in Nat /\ f.msg \in Nat /\ f.kind = "sealed"
  BY <1>4, LimitsAssumption DEF Sealed, Msg
<1>7. QED
  BY <1>1, <1>2, <1>3, <1>4, <1>5, <1>6

-----------------------------------------------------------------------------
(* What a step that posts and opens nothing has to show.                   *)

\* What ends an end's opening stays.
Sticks(e) == /\ peer[e] = Stray => peer'[e] = Stray
             /\ keys[e] = "failed" => keys'[e] = "failed"
             /\ transport[e].disposed => transport'[e].disposed

LEMMA ReceivesMove ==
  ASSUME LInv, NEW e \in End, Attends(e)', Sticks(e), Sticks(Other(e)),
         last'[e] = last[e], got'[e] = got[e], posted'[e] = posted[e],
         Judges(opening'[e], last[e]),
         Live(e) => Line(InJob(opening'[e]), opening'[e].items, wire'[e], posted[e], last[e]),
         sent'[Other(e)] \in {sent[Other(e)], sent[Other(e)] + 1}
  PROVE  Receives(e)'
<1>1. Receives(e) /\ got[e] \in Seq(Nat) /\ Other(e) \in End
  BY LineParts
<1>2. sent[Other(e)] \in Nat
  BY <1>1, LineParts
<1>3. Live(e)' => Live(e)
  BY DEF Live, Sticks
<1>4. InLine(e)'
  BY <1>3 DEF InLine
<1>5. Heard(e)'
  BY <1>1 DEF Receives, Heard, Sticks
<1>6. Prefix(got[e], Sealable(Other(e))')
  <2>1. Prefix(got[e], (1 .. sent[Other(e)]) \ Unsealable)
    BY <1>1 DEF Receives, Sealable
  <2>2. Prefix(got[e], (1 .. (sent[Other(e)] + 1)) \ Unsealable)
    BY <1>1, <1>2, <2>1, PrefixMore
  <2>3. QED
    BY <2>1, <2>2 DEF Sealable
<1>7. QED
  BY <1>4, <1>5, <1>6 DEF Receives

\* The wire to an end is as it was, but for a hello posted to it.
Greeted(e) ==
  \/ wire'[e] = wire[e]
  \/ \E h \in Frame : h.kind = "hello" /\ wire'[e] = Append(wire[e], h)

LEMMA ReceivesKept ==
  ASSUME LInv, NEW e \in End, Attends(e)', Sticks(e), Sticks(Other(e)),
         last'[e] = last[e], got'[e] = got[e], posted'[e] = posted[e],
         opening'[e] = opening[e], Greeted(e),
         sent'[Other(e)] \in {sent[Other(e)], sent[Other(e)] + 1}
  PROVE  Receives(e)'
<1>1. Receives(e)
  BY LineParts
<1>2. Judges(opening[e], last[e])
  BY <1>1 DEF Receives
<1>3. ASSUME Live(e)
      PROVE  Line(InJob(opening[e]), opening[e].items, wire'[e], posted[e], last[e])
  <2>1. Line(InJob(opening[e]), opening[e].items, wire[e], posted[e], last[e])
    BY <1>1, <1>3 DEF Receives, InLine
  <2>2. CASE wire'[e] = wire[e]
    BY <2>1, <2>2
  <2>3. CASE wire'[e] # wire[e]
    <3>1. PICK h \in Frame : h.kind = "hello" /\ wire'[e] = Append(wire[e], h)
      BY <2>3 DEF Greeted
    <3>2. h \notin posted[e]
      BY <3>1, LineParts
    <3>3. wire[e] \in Seq(Frame)
      BY LineParts
    <3>4. QED
      BY <2>1, <3>1, <3>2, <3>3, LineGreets
  <2>4. QED
    BY <2>2, <2>3
<1>4. QED
  BY <1>2, <1>3, ReceivesMove

LEMMA SendsMove ==
  ASSUME LInv, NEW e \in End, keys[e] = "failed" => keys'[e] = "failed",
         next'[e] = next[e], posted'[Other(e)] = posted[Other(e)],
         sent'[e] \in {sent[e], sent[e] + 1},
         Refuses(sealing'[e], next[e]),
         \A i \in DOMAIN sealing'[e].jobs : sealing'[e].jobs[i].stage = "cipher" => Seals(e),
         Seals(e) /\ Seals(e)' =>
           Told(InSeal(sealing'[e]), sealing'[e].items, Said(posted[Other(e)]), sent'[e])
  PROVE  Sends(e)'
<1>1. /\ Sends(e) /\ sent[e] \in Nat /\ Other(e) \in End
  BY LineParts
<1>2. posted[Other(e)] \in SUBSET Sealed
  BY <1>1, LineParts
<1>3. Seals(e)' => Seals(e)
  BY DEF Seals
<1>4. Telling(e)'
  BY <1>3 DEF Telling
<1>5. Numbered(posted[Other(e)], sent'[e])
  BY <1>1, <1>2, NumberedMore DEF Sends
<1>6. QED
  BY <1>4, <1>5 DEF Sends

\* Nothing of what an end seals moves.
LEMMA SendsKept ==
  ASSUME LInv, NEW e \in End, keys[e] = "failed" => keys'[e] = "failed",
         next'[e] = next[e], posted'[Other(e)] = posted[Other(e)],
         sent'[e] = sent[e], sealing'[e] = sealing[e]
  PROVE  Sends(e)'
<1>1. Sends(e)
  BY LineParts
<1>2. Refuses(sealing[e], next[e]) /\ Telling(e)
  BY <1>1 DEF Sends
<1>3. \A i \in DOMAIN sealing[e].jobs : sealing[e].jobs[i].stage = "cipher" => Seals(e)
  BY DEF Seals
<1>4. QED
  BY <1>2, <1>3, SendsMove DEF Telling

\* A step of e that posts nothing leaves of the other end all but the hellos that
\* fly to it.
Elsewhere(e) ==
  LET o == Other(e) IN
  /\ transport'[o] = transport[o] /\ peer'[o] = peer[o] /\ keys'[o] = keys[o]
  /\ next'[o] = next[o] /\ last'[o] = last[o] /\ got'[o] = got[o] /\ sent'[o] = sent[o]
  /\ sealing'[o] = sealing[o] /\ opening'[o] = opening[o] /\ posted' = posted
  /\ Greeted(o)
  /\ Sticks(e) /\ sent'[e] \in {sent[e], sent[e] + 1}

LEMMA StepLines ==
  ASSUME LInv, IInv', NEW e \in End, Elsewhere(e), Receives(e)', Sends(e)'
  PROVE  LInv'
<1> DEFINE o == Other(e)
<1>1. /\ o \in End /\ Other(o) = e /\ End = {e, o}
  BY Ends
<1>2. Receives(o)
  BY <1>1, LineParts
<1>3. Attends(o)'
  BY <1>2 DEF Receives, Attends, Elsewhere
<1>4. Sticks(o)
  BY DEF Sticks, Elsewhere
<1> HIDE DEF o
<1>5. /\ last'[o] = last[o] /\ got'[o] = got[o] /\ posted'[o] = posted[o]
      /\ opening'[o] = opening[o] /\ Greeted(o) /\ Sticks(Other(o))
      /\ sent'[Other(o)] \in {sent[Other(o)], sent[Other(o)] + 1}
  BY <1>1 DEF Elsewhere, o
<1>6. Receives(o)'
  BY <1>1, <1>3, <1>4, <1>5, ReceivesKept
<1>7. /\ keys'[o] = keys[o] /\ next'[o] = next[o] /\ posted' = posted
      /\ sent'[o] = sent[o] /\ sealing'[o] = sealing[o]
  BY DEF Elsewhere, o
<1>8. Sends(o)'
  BY <1>1, <1>7, SendsKept
<1>9. QED
  BY <1>1, <1>6, <1>8 DEF LInv

-----------------------------------------------------------------------------
(* Steps of the transport, of the material and of the keys.                *)

\* Disposing of a transport, in whichever way.
LEMMA ReleaseParts ==
  ASSUME NEW t \in Transport
  PROVE  /\ Dispose(t).attached = t.attached /\ Dispose(t).started = t.started
         /\ Fail(t).attached = t.attached /\ Fail(t).started = t.started
         /\ Dispose(t).disposed /\ Fail(t).disposed
BY DEF Dispose, Fail, ClearTimers, Transport

\* A step of an end that moves neither queue.
LEMMA IdleLines ==
  ASSUME LInv, IInv', NEW e \in End, Attends(e)', Sticks(e),
         transport'[Other(e)] = transport[Other(e)], peer' = peer,
         keys'[Other(e)] = keys[Other(e)],
         UNCHANGED <<next, last, sealing, opening, posted, sent, got>>,
         wire'[e] = wire[e], Greeted(Other(e))
  PROVE  LInv'
<1>1. sent[Other(e)] \in {sent[Other(e)], sent[Other(e)] + 1}
  OBVIOUS
<1>2. Sticks(Other(e)) /\ Greeted(e)
  BY DEF Sticks, Greeted
<1>3. Receives(e)'
  BY <1>1, <1>2, ReceivesKept
<1>4. Sends(e)'
  BY SendsKept DEF Sticks
<1>5. Elsewhere(e)
  BY DEF Elsewhere
<1>6. QED
  BY <1>3, <1>4, <1>5, StepLines

\* The end's transport becomes t, and its material what it may.
LEMMA TransportLines ==
  ASSUME LInv, IInv', NEW e \in End, NEW t \in Transport,
         transport' = [transport EXCEPT ![e] = t],
         t.started => t.attached, transport[e].disposed => t.disposed,
         UNCHANGED <<peer, keys, next, last, sealing, opening, posted, sent, got>>,
         wire'[e] = wire[e], Greeted(Other(e))
  PROVE  LInv'
<1>1. Other(e) \in End /\ Other(e) # e /\ transport \in [End -> Transport]
  BY LineParts DEF Shapes
<1>2. transport'[e] = t /\ transport'[Other(e)] = transport[Other(e)]
  BY <1>1
<1>3. Attends(e)' /\ Sticks(e)
  BY <1>2 DEF Attends, Sticks
<1>4. QED
  BY <1>2, <1>3, IdleLines

LEMMA AttachLines ==
  ASSUME LInv, IInv', NEW e \in End, Attach(e)
  PROVE  LInv'
<1> DEFINE t == [transport[e] EXCEPT !.attached = TRUE]
<1>1. /\ t \in Transport /\ t.attached /\ t.disposed = transport[e].disposed
  BY LineParts DEF Transport
<1>2. transport' = [transport EXCEPT ![e] = t]
  BY LineParts DEF Attach, Shapes
<1> HIDE DEF t
<1>3. Greeted(Other(e)) /\ wire' = wire
  BY DEF Attach, Greeted
<1>4. QED
  BY <1>1, <1>2, <1>3, TransportLines DEF Attach

LEMMA ReleaseLines ==
  ASSUME LInv, IInv', NEW e \in End, ConfirmTimeout(e) \/ DisposeCall(e)
  PROVE  LInv'
<1>1. PICK t \in {Fail(transport[e]), Dispose(transport[e])} :
        transport' = [transport EXCEPT ![e] = t]
  BY LineParts DEF ConfirmTimeout, DisposeCall, Shapes
<1>2. /\ t.attached = transport[e].attached /\ t.started = transport[e].started
      /\ t.disposed
  BY <1>1, LineParts, ReleaseParts
<1>3. t \in Transport
  BY <1>1, LineParts DEF Fail, Dispose, ClearTimers, Transport
<1>4. Attends(e)
  BY LineParts DEF Receives
<1>5. Greeted(Other(e)) /\ wire' = wire
  BY DEF ConfirmTimeout, DisposeCall, Greeted
<1>6. QED
  BY <1>1, <1>2, <1>3, <1>4, <1>5, TransportLines DEF Attends, ConfirmTimeout, DisposeCall

LEMMA PostHelloLines ==
  ASSUME LInv, IInv', NEW e \in End, NEW t \in Transport,
         t.attached, transport[e].disposed => t.disposed,
         NEW material \in {"minting", "ready", "failed"}, PostHello(e, t, material),
         UNCHANGED <<peer, keys, next, last, sealing, opening, posted, sent, got>>
  PROVE  LInv'
<1> DEFINE u == CASE material = "minting" -> [t EXCEPT !.helloDue = TRUE]
                  [] material = "failed"  -> Fail(t)
                  [] material = "ready"   -> t
<1>1. u \in Transport /\ u.attached /\ (t.disposed => u.disposed)
  <2>1. CASE material = "minting"
    <3> DEFINE w == [t EXCEPT !.helloDue = TRUE]
    <3>1. u = w
      BY <2>1
    <3>2. w \in Transport /\ w.attached /\ (t.disposed => w.disposed)
      BY DEF Transport
    <3> HIDE DEF u, w
    <3>3. QED
      BY <3>1, <3>2
  <2>2. CASE material = "failed"
    <3>1. u = Fail(t)
      BY <2>2
    <3>2. Fail(t) \in Transport /\ Fail(t).attached /\ (t.disposed => Fail(t).disposed)
      BY DEF Fail, Dispose, ClearTimers, Transport
    <3> HIDE DEF u
    <3>3. QED
      BY <3>1, <3>2
  <2>3. CASE material = "ready"
    BY <2>3
  <2>4. QED
    BY <2>1, <2>2, <2>3
<1>2. transport' = [transport EXCEPT ![e] = u]
  BY DEF PostHello
<1> HIDE DEF u
<1>3. Other(e) \in End /\ Other(e) # e /\ wire \in [End -> Seq(Frame)]
  BY LineParts DEF Shapes
<1>4. \/ wire' = wire
      \/ wire' = [wire EXCEPT ![Other(e)] = Append(@, HelloOf(e))]
  BY DEF PostHello, HelloOf
<1>5. HelloOf(e) \in Frame /\ HelloOf(e).kind = "hello"
  BY DEF HelloOf, Frame, Hello, Material
<1>6. wire'[e] = wire[e] /\ Greeted(Other(e))
  BY <1>3, <1>4, <1>5 DEF Greeted
<1>7. QED
  BY <1>1, <1>2, <1>6, TransportLines

LEMMA HelloLines ==
  ASSUME LInv, IInv', NEW e \in End, Start(e) \/ RetryHello(e) \/ Mint(e)
  PROVE  LInv'
<1>1. local[e] \in {"minting", "ready", "failed"} /\ transport[e] \in Transport
  BY LineParts DEF Shapes
<1>2. Timed(transport[e]) /\ Attends(e)
  BY LineParts, Parts DEF Receives
<1>3. UNCHANGED <<peer, keys, next, last, sealing, opening, posted, sent, got>>
  BY DEF Start, RetryHello, Mint
<1>4. CASE Start(e)
  <2> DEFINE t == [transport[e] EXCEPT !.started = TRUE, !.retrying = TRUE, !.deadline = TRUE]
  <2>1. t \in Transport /\ t.attached /\ (transport[e].disposed => t.disposed)
    BY <1>1, <1>4 DEF Start, Transport
  <2>2. PostHello(e, t, local[e])
    BY <1>4 DEF Start
  <2> HIDE DEF t
  <2>3. QED
    BY <1>1, <1>3, <2>1, <2>2, PostHelloLines
<1>5. CASE RetryHello(e)
  <2>1. transport[e].attached
    BY <1>2, <1>5 DEF RetryHello, Timed, Attends
  <2>2. PostHello(e, transport[e], local[e])
    BY <1>5 DEF RetryHello
  <2>3. QED
    BY <1>1, <1>3, <2>1, <2>2, PostHelloLines
<1>6. CASE Mint(e)
  <2>1. PICK material \in {"ready", "failed"} :
          IF transport[e].helloDue
          THEN PostHello(e, [transport[e] EXCEPT !.helloDue = FALSE], material)
          ELSE UNCHANGED <<transport, wire>>
    BY <1>6 DEF Mint
  <2>2. CASE transport[e].helloDue
    <3> DEFINE t == [transport[e] EXCEPT !.helloDue = FALSE]
    <3>1. t \in Transport /\ t.attached /\ (transport[e].disposed => t.disposed)
      BY <1>1, <1>6 DEF Mint, Transport
    <3>2. PostHello(e, t, material)
      BY <2>1, <2>2
    <3> HIDE DEF t
    <3>3. QED
      BY <1>3, <2>1, <3>1, <3>2, PostHelloLines
  <2>3. CASE ~transport[e].helloDue
    <3>1. UNCHANGED <<transport, wire>>
      BY <2>1, <2>3
    <3>2. Attends(e)' /\ Sticks(e) /\ Greeted(Other(e))
      BY <1>2, <1>3, <3>1 DEF Attends, Sticks, Greeted
    <3>3. QED
      BY <1>3, <3>1, <3>2, IdleLines
  <2>4. QED
    BY <2>2, <2>3
<1>7. QED
  BY <1>4, <1>5, <1>6

LEMMA DeriveLines ==
  ASSUME LInv, IInv', NEW e \in End, Derive(e) \/ Stop(e)
  PROVE  LInv'
<1>1. Other(e) \in End /\ Other(e) # e /\ keys \in [End -> {"none", "ready", "failed"}]
  BY LineParts DEF Shapes
<1>2. /\ UNCHANGED <<transport, peer, next, last, sealing, opening, wire, posted, sent, got>>
      /\ keys'[Other(e)] = keys[Other(e)] /\ (keys[e] = "failed" => keys'[e] = "failed")
  BY <1>1 DEF Derive, Stop
<1>3. Attends(e)
  BY LineParts DEF Receives
<1>4. Attends(e)' /\ Sticks(e) /\ Greeted(Other(e))
  BY <1>2, <1>3 DEF Attends, Sticks, Greeted
<1>5. QED
  BY <1>2, <1>4, IdleLines

-----------------------------------------------------------------------------
(* Sending, resuming and receiving.                                        *)

LEMMA SendLines ==
  ASSUME LInv, IInv', NEW e \in End, Send(e)
  PROVE  LInv'
<1> DEFINE q == Enqueue(sealing[e], sent[e] + 1)
           s == NextSeal(q, stopped[e], next[e])
           H == Said(posted[Other(e)])
<1>1. /\ sealing[e] \in SealQ /\ sent[e] \in Nat /\ next[e] \in Nat /\ Sends(e) /\ Receives(e)
      /\ Other(e) \in End /\ Other(e) # e
  BY LineParts
<1>2. /\ sent' = [sent EXCEPT ![e] = @ + 1]
      /\ sealing' = [sealing EXCEPT ![e] = NextSeal(Enqueue(@, sent'[e]), stopped[e], next[e])]
      /\ UNCHANGED <<transport, local, peer, keys, next, last, opening, stopped, wire, posted,
                     got, reported>>
  BY DEF Send
<1>3. sent'[e] = sent[e] + 1 /\ sent'[Other(e)] = sent[Other(e)]
  BY <1>1, <1>2, LineParts DEF Shapes
<1>4. sealing'[e] = s /\ sealing'[Other(e)] = sealing[Other(e)]
  BY <1>1, <1>2, <1>3, LineParts DEF Shapes
<1>5. /\ q \in SealQ /\ q.items = Append(sealing[e].items, sent[e] + 1)
      /\ q.jobs = sealing[e].jobs
      /\ InSeal(q) = InSeal(sealing[e]) /\ Refuses(q, next[e])
  <2>1. sent[e] + 1 \in Msg
    BY <1>1 DEF Msg
  <2>2. QED
    BY <1>1, <2>1, EnqueueSealParts DEF Sends
<1>6. ASSUME Seals(e) PROVE Told(InSeal(q), q.items, H, sent[e] + 1)
  <2>1. Told(InSeal(sealing[e]), sealing[e].items, H, sent[e])
    BY <1>1, <1>6 DEF Sends, Telling
  <2>2. InSeal(sealing[e]) \in SUBSET Nat /\ sealing[e].items \in Seq(Nat)
    BY <1>1, SealJobsAreMsgs
  <2>3. H \in SUBSET Nat /\ \A h \in H : h <= sent[e]
    BY <1>1, LineParts DEF Said, Sends, Numbered
  <2> HIDE DEF H
  <2>4. QED
    BY <1>1, <1>5, <2>1, <2>2, <2>3, ToldGiven
<1> HIDE DEF q, H
<1>7. Refuses(s, next[e])
  BY <1>1, <1>5, NextSealRefuses
<1>8. \A i \in DOMAIN s.jobs : s.jobs[i].stage = "cipher" => Seals(e)
  BY <1>1, <1>5, NextSealRefuses DEF Seals
<1>9. Seals(e) => Told(InSeal(s), s.items, H, sent[e] + 1)
  BY <1>1, <1>5, <1>6, NextSealTold
<1> HIDE DEF s
<1>10. Sends(e)'
  BY <1>2, <1>3, <1>4, <1>7, <1>8, <1>9, SendsMove DEF H
<1>11. Attends(e)' /\ Sticks(e) /\ Sticks(Other(e)) /\ Greeted(e) /\ Greeted(Other(e))
  BY <1>1, <1>2 DEF Attends, Sticks, Receives, Greeted
<1>12. Receives(e)'
  BY <1>2, <1>3, <1>11, ReceivesKept
<1>13. Elsewhere(e)
  BY <1>2, <1>3, <1>4, <1>11 DEF Elsewhere
<1>14. QED
  BY <1>10, <1>12, <1>13, StepLines

LEMMA ResumeLines ==
  ASSUME LInv, IInv', NEW e \in End, Resume(e)
  PROVE  LInv'
<1> DEFINE s == NextSeal(sealing[e], FALSE, next[e])
           q == NextOpen(opening[e], FALSE, last[e])
<1>1. /\ sealing[e] \in SealQ /\ opening[e] \in OpenQ
      /\ next[e] \in Nat /\ last[e] \in Nat /\ Sends(e) /\ Receives(e)
      /\ Other(e) \in End /\ Other(e) # e
  BY LineParts
<1>2. /\ sealing' = [sealing EXCEPT ![e] = NextSeal(@, FALSE, next[e])]
      /\ opening' = [opening EXCEPT ![e] = NextOpen(@, FALSE, last[e])]
      /\ UNCHANGED <<transport, local, peer, keys, next, last, wire, posted, sent, got, reported>>
  BY DEF Resume
<1>3. /\ sealing'[e] = s /\ sealing'[Other(e)] = sealing[Other(e)]
      /\ opening'[e] = q /\ opening'[Other(e)] = opening[Other(e)]
  BY <1>1, <1>2, LineParts DEF Shapes
<1>4. /\ Refuses(s, next[e])
      /\ \A i \in DOMAIN s.jobs : s.jobs[i].stage = "cipher" => Seals(e)
  BY <1>1, NextSealRefuses DEF Seals, Sends
<1>5. Seals(e) => Told(InSeal(s), s.items, Said(posted[Other(e)]), sent[e])
  BY <1>1, NextSealTold DEF Sends, Telling
<1>6. Judges(q, last[e])
  BY <1>1, NextOpenLine DEF Receives
<1>7. Live(e) => Line(InJob(q), q.items, wire[e], posted[e], last[e])
  BY <1>1, NextOpenLine DEF Receives, InLine
<1> HIDE DEF s, q
<1>8. Sends(e)'
  BY <1>2, <1>3, <1>4, <1>5, SendsMove
<1>9. Attends(e)' /\ Sticks(e) /\ Sticks(Other(e)) /\ Greeted(Other(e))
  BY <1>1, <1>2 DEF Attends, Sticks, Receives, Greeted
<1>10. Receives(e)'
  BY <1>2, <1>3, <1>6, <1>7, <1>9, ReceivesMove
<1>11. Elsewhere(e)
  BY <1>2, <1>3, <1>9 DEF Elsewhere
<1>12. QED
  BY <1>8, <1>10, <1>11, StepLines

\* A frame arrives from the wire, or from elsewhere if it is not on the wire.
Arrives(e, f) ==
  \/ wire[e] # << >> /\ f = Head(wire[e]) /\ wire' = [wire EXCEPT ![e] = Tail(@)]
  \/ wire' = wire /\ (f \in posted[e] => f \notin Range(wire[e]))

\* The line to an end, with a frame that is dropped or is a hello.
LEMMA ArrivesAside ==
  ASSUME LInv, NEW e \in End, NEW f, Arrives(e, f), f \notin posted[e] \/ posted[e] = {},
         Live(e)
  PROVE  Line(InJob(opening[e]), opening[e].items, wire'[e], posted[e], last[e])
<1>1. /\ Line(InJob(opening[e]), opening[e].items, wire[e], posted[e], last[e])
      /\ wire[e] \in Seq(Frame) /\ wire \in [End -> Seq(Frame)]
  BY LineParts DEF Receives, InLine, Shapes
<1>2. CASE posted[e] = {}
  BY <1>2, LineNone
<1>3. CASE f \notin posted[e]
  <2>1. CASE wire[e] # << >> /\ f = Head(wire[e]) /\ wire'[e] = Tail(wire[e])
    BY <1>1, <1>3, <2>1, LineGreeted
  <2>2. CASE wire'[e] = wire[e]
    BY <1>1, <2>2
  <2>3. QED
    BY <1>1, <2>1, <2>2 DEF Arrives
<1>4. QED
  BY <1>2, <1>3

LEMMA ReceiveLines ==
  ASSUME LInv, IInv', NEW e \in End, NEW f \in Flying(e) \cup StrayFrames, Receive(e, f),
         Arrives(e, f)
  PROVE  LInv'
<1>1. /\ sealing[e] \in SealQ /\ opening[e] \in OpenQ
      /\ next[e] \in Nat /\ last[e] \in Nat /\ Sends(e) /\ Receives(e)
      /\ Other(e) \in End /\ Other(e) # e /\ IInv
  BY LineParts
<1>2. UNCHANGED <<transport, local, keys, next, last, stopped, posted, sent, got, reported>>
  BY DEF Receive
<1>3. wire[e] \in Seq(Frame) /\ wire'[Other(e)] = wire[Other(e)]
  BY <1>1, LineParts DEF Arrives, Shapes
<1>4. Attends(e)' /\ Greeted(Other(e))
  BY <1>1, <1>2, <1>3 DEF Attends, Receives, Greeted
<1>5. /\ f.kind = "hello" => f \notin posted[e]
      /\ f.kind # "hello" => f \in Known(e) /\ f \in Sealed
  <2>1. posted[e] \in SUBSET Sealed /\ Known(e) \in SUBSET Sealed
    BY <1>1, LineParts, Parts
  <2>2. CASE f \in posted[e]
    BY <2>1, <2>2 DEF Known, Sealed
  <2>3. CASE f \in Flying(e) /\ f \notin posted[e]
    BY <2>3 DEF Flying, HelloOf
  <2>4. CASE f \in StrayFrames
    <3>1. f.kind = "hello" \/ f \in StraySealed
      BY <2>4 DEF StrayFrames, StraySealed
    <3>2. f.kind = "hello" => f \notin Sealed
      BY DEF Sealed
    <3>3. QED
      BY <2>1, <3>1, <3>2 DEF Known
  <2>5. QED
    BY <2>2, <2>3, <2>4
<1>6. CASE ~transport[e].attached \/ transport[e].disposed
  <2>1. UNCHANGED <<peer, sealing, opening>>
    BY <1>6 DEF Receive
  <2>2. Live(e) => posted[e] = {}
    <3>1. SUFFICES ASSUME Live(e) PROVE posted[e] = {}
      OBVIOUS
    <3>2. ~transport[e].started
      BY <1>1, <1>6, <3>1 DEF Live, Receives, Attends
    <3>3. Keyed(Other(e)) /\ Other(Other(e)) = e
      BY <1>1, Parts, Ends
    <3>4. peer[Other(e)] = None
      BY <3>1, <3>2, <3>3 DEF Keyed, Live
    <3>5. Sound(e)
      BY <1>1 DEF IInv
    <3>6. QED
      BY <3>4, <3>5 DEF Sound, PostedFresh
  <2>3. Sticks(e) /\ Sticks(Other(e))
    BY <1>2, <2>1 DEF Sticks
  <2>4. Live(e) => Line(InJob(opening[e]), opening[e].items, wire'[e], posted[e], last[e])
    BY <2>2, ArrivesAside
  <2>5. Receives(e)'
    BY <1>1, <1>2, <1>4, <2>1, <2>3, <2>4, ReceivesMove DEF Receives
  <2>6. Sends(e)'
    BY <1>2, <2>1, SendsKept
  <2>7. Elsewhere(e)
    BY <1>2, <1>4, <2>1, <2>3 DEF Elsewhere
  <2>8. QED
    BY <2>5, <2>6, <2>7, StepLines
<1>7. CASE ~(~transport[e].attached \/ transport[e].disposed) /\ f.kind = "hello"
  <2> DEFINE q == Enqueue(sealing[e], Confirmation)
             s == NextSeal(q, stopped[e], next[e])
             H == Said(posted[Other(e)])
  <2>1. ReceiveHello(e, f)
    BY <1>7 DEF Receive
  <2>2. /\ opening' = opening
        /\ peer[e] # None => peer'[e] = peer[e]
        /\ peer'[Other(e)] = peer[Other(e)] /\ sealing'[Other(e)] = sealing[Other(e)]
    BY <1>1, <2>1, LineParts DEF ReceiveHello, Shapes
  <2>3. Stray # None
    BY MaterialAssumption
  <2>4. Sticks(e) /\ Sticks(Other(e))
    BY <1>2, <2>2, <2>3 DEF Sticks
  <2>5. Live(e) => Line(InJob(opening[e]), opening[e].items, wire'[e], posted[e], last[e])
    BY <1>5, <1>7, ArrivesAside
  <2>6. Receives(e)'
    BY <1>1, <1>2, <1>4, <2>2, <2>4, <2>5, ReceivesMove DEF Receives
  <2>7. Sends(e)'
    <3>1. CASE sealing'[e] = sealing[e]
      BY <1>2, <3>1, SendsKept
    <3>2. CASE sealing'[e] = s
      <4>1. /\ q \in SealQ /\ q.items = Append(sealing[e].items, Confirmation)
            /\ q.jobs = sealing[e].jobs
            /\ InSeal(q) = InSeal(sealing[e]) /\ Refuses(q, next[e])
        <5>1. Confirmation \in Msg
          BY DEF Confirmation, Msg
        <5>2. QED
          BY <1>1, <5>1, EnqueueSealParts DEF Sends
      <4>2. sealing[e].items \in Seq(Nat)
        BY <1>1, SealJobsAreMsgs
      <4>3. Seals(e) => Told(InSeal(q), q.items, H, sent[e])
        BY <1>1, <4>1, <4>2, ToldConfirms DEF Sends, Telling
      <4> HIDE DEF q, H
      <4>4. /\ Refuses(s, next[e])
            /\ \A i \in DOMAIN s.jobs : s.jobs[i].stage = "cipher" => Seals(e)
        BY <1>1, <4>1, NextSealRefuses DEF Seals
      <4>5. Seals(e) => Told(InSeal(s), s.items, H, sent[e])
        BY <1>1, <4>1, <4>3, NextSealTold
      <4> HIDE DEF s
      <4>6. QED
        BY <1>2, <3>2, <4>4, <4>5, SendsMove DEF H
    <3>3. QED
      BY <1>1, <2>1, <3>1, <3>2, LineParts DEF ReceiveHello, Shapes
  <2>8. Elsewhere(e)
    BY <1>2, <1>4, <2>2, <2>4 DEF Elsewhere
  <2>9. QED
    BY <2>6, <2>7, <2>8, StepLines
<1>8. CASE ~(~transport[e].attached \/ transport[e].disposed) /\ f.kind # "hello"
  <2> DEFINE r == Enqueue(opening[e], f)
             q == NextOpen(r, stopped[e], last[e])
  <2>1. ReceiveSealed(e, f) /\ f \in Sealed
    BY <1>5, <1>8 DEF Receive
  <2>2. /\ opening'[e] = q /\ opening'[Other(e)] = opening[Other(e)]
        /\ UNCHANGED <<peer, sealing>>
    BY <1>1, <2>1, LineParts DEF ReceiveSealed, Shapes
  <2>3. Sticks(e) /\ Sticks(Other(e))
    BY <1>2, <2>2 DEF Sticks
  <2>4. /\ r \in OpenQ /\ r.items = Append(opening[e].items, f)
        /\ InJob(r) = InJob(opening[e]) /\ Judges(r, last[e])
    BY <1>1, <2>1, EnqueueOpenParts DEF Receives
  <2>5. ASSUME Live(e) PROVE Line(InJob(r), r.items, wire'[e], posted[e], last[e])
    <3>1. Line(InJob(opening[e]), opening[e].items, wire[e], posted[e], last[e])
      BY <1>1, <2>5 DEF Receives, InLine
    <3>2. opening[e].items \in Seq(Frame) /\ f \in Frame
      <4>1. opening[e].items \in Seq(Sealed) /\ Sealed \subseteq Frame
        BY <1>1 DEF OpenQ, Frame
      <4>2. QED
        BY <2>1, <4>1, MoreFrames
    <3>3. \A g \in posted[e] : g.counter \in Int
      BY LineParts
    <3>4. CASE wire[e] # << >> /\ f = Head(wire[e]) /\ wire'[e] = Tail(wire[e])
      BY <1>3, <2>4, <3>1, <3>2, <3>4, LineQueued
    <3>5. CASE wire'[e] = wire[e] /\ (f \in posted[e] => f \notin Range(wire[e]))
      <4>1. last[e] \in Int
        BY <1>1
      <4>2. Line(InJob(opening[e]), Append(opening[e].items, f), wire[e], posted[e], last[e])
        BY <3>1, <3>2, <3>3, <3>5, <4>1, LineAgain
      <4>3. QED
        BY <2>4, <3>5, <4>2
    <3>6. QED
      BY <3>4, <3>5, LineParts DEF Arrives, Shapes
  <2> HIDE DEF r
  <2>6. /\ Judges(q, last[e])
        /\ Live(e) => Line(InJob(q), q.items, wire'[e], posted[e], last[e])
    BY <1>1, <2>4, <2>5, NextOpenLine
  <2> HIDE DEF q
  <2>7. Receives(e)'
    BY <1>2, <1>4, <2>2, <2>3, <2>6, ReceivesMove
  <2>8. Sends(e)'
    BY <1>2, <2>2, SendsKept
  <2>9. Elsewhere(e)
    BY <1>2, <1>4, <2>2, <2>3 DEF Elsewhere
  <2>10. QED
    BY <2>7, <2>8, <2>9, StepLines
<1>9. QED
  BY <1>6, <1>7, <1>8

LEMMA ArrivalLines ==
  ASSUME LInv, IInv', NEW e \in End, Deliver(e) \/ Replay(e) \/ StrayFrame(e)
  PROVE  LInv'
<1>1. IInv /\ Shapes
  BY LineParts
<1>2. CASE Deliver(e)
  <2>1. wire[e] # << >> /\ wire[e] \in Seq(Flying(e))
    BY <1>1, <1>2 DEF Deliver, IInv, Sound
  <2>2. Head(wire[e]) \in Flying(e)
    BY <2>1, Rest
  <2>3. Arrives(e, Head(wire[e])) /\ Receive(e, Head(wire[e]))
    BY <1>2 DEF Deliver, Arrives
  <2>4. QED
    BY <2>2, <2>3, ReceiveLines
<1>3. CASE Replay(e)
  <2>1. PICK f \in posted[e] : (\A i \in DOMAIN wire[e] : wire[e][i] # f) /\ Receive(e, f)
    BY <1>3 DEF Replay
  <2>2. f \notin Range(wire[e]) /\ f \in Flying(e)
    BY <2>1 DEF Range, Flying
  <2>3. Arrives(e, f)
    BY <1>3, <2>2 DEF Replay, Arrives
  <2>4. QED
    BY <2>1, <2>2, <2>3, ReceiveLines
<1>4. CASE StrayFrame(e)
  <2>1. PICK f \in StrayFrames : Receive(e, f)
    BY <1>4 DEF StrayFrame
  <2>2. f \notin posted[e]
    <3>1. \A g \in posted[e] : g.from = Other(e) /\ g.kind = "sealed"
      BY <1>1, LineParts DEF IInv, Sound, PostedFresh
    <3>2. Other(e) # Stray
      BY Ends
    <3>3. f.kind = "hello" \/ f.from = Stray
      BY DEF StrayFrames
    <3>4. QED
      BY <3>1, <3>2, <3>3
  <2>3. Arrives(e, f)
    BY <1>4, <2>2 DEF StrayFrame, Arrives
  <2>4. QED
    BY <2>1, <2>3, ReceiveLines
<1>5. QED
  BY <1>2, <1>3, <1>4

-----------------------------------------------------------------------------
(* Sealing and opening.                                                    *)

LEMMA SealKeyedLines ==
  ASSUME LInv, IInv', NEW e \in End, NEW i \in DOMAIN sealing[e].jobs, SealKeyed(e, i)
  PROVE  LInv'
<1> DEFINE j == sealing[e].jobs[i]
           k == [j EXCEPT !.stage = "cipher", !.counter = next[e]]
           q == [sealing[e] EXCEPT !.jobs = <<k>>]
<1>1. /\ sealing[e] \in SealQ /\ next[e] \in Nat /\ Sends(e) /\ Receives(e) /\ IInv
      /\ Other(e) \in End /\ Other(e) # e
  BY LineParts
<1>2. i = 1 /\ j \in SealJob /\ sealing[e].jobs = <<j>>
  BY <1>1, SealJobOf
<1>3. /\ j.stage = "keys" /\ keys[e] = "ready"
      /\ sealing' = [sealing EXCEPT ![e].jobs[i] = k]
      /\ UNCHANGED <<transport, local, peer, keys, last, opening, stopped, wire, posted, sent,
                     got, reported>>
  BY DEF SealKeyed
<1>4. next'[Other(e)] = next[Other(e)]
  BY <1>1, LineParts DEF SealKeyed, Shapes
<1>5. next[e] <= CounterLimit
  BY <1>1, <1>2, <1>3, Parts DEF SealsFresh
<1>6. k.msg = j.msg /\ k.stage = "cipher"
  BY <1>2 DEF SealJob
<1>7. sealing' = [sealing EXCEPT ![e] = q]
  <2>1. [sealing[e].jobs EXCEPT ![i] = k] = <<k>>
    BY <1>2, OneReplaced
  <2> HIDE DEF k
  <2>2. sealing' = [sealing EXCEPT ![e].jobs = [sealing[e].jobs EXCEPT ![i] = k]]
    BY <1>3
  <2>3. QED
    BY <2>1, <2>2
<1> HIDE DEF j, k
<1>8. q.items = sealing[e].items /\ q.jobs = <<k>>
  BY <1>1 DEF SealQ
<1> HIDE DEF q
<1>9. sealing'[e] = q /\ sealing'[Other(e)] = sealing[Other(e)]
  BY <1>1, <1>7, LineParts DEF Shapes
<1>10. InSeal(q) = InSeal(sealing[e])
  BY <1>2, <1>6, <1>8, JobsOf DEF InSeal
<1>11. Seals(e)
  BY <1>3, <1>5 DEF Seals
<1>12. Refuses(q, next'[e])
  BY <1>6, <1>8, JobsOf DEF Refuses
<1>13. Sends(e)'
  BY <1>1, <1>3, <1>8, <1>9, <1>10, <1>11, <1>12 DEF Sends, Telling
<1>14. Attends(e)' /\ Sticks(e) /\ Sticks(Other(e)) /\ Greeted(e) /\ Greeted(Other(e))
  BY <1>1, <1>3 DEF Attends, Sticks, Receives, Greeted
<1>15. Receives(e)'
  BY <1>3, <1>14, ReceivesKept
<1>16. Elsewhere(e)
  BY <1>3, <1>4, <1>9, <1>14 DEF Elsewhere
<1>17. QED
  BY <1>13, <1>15, <1>16, StepLines

LEMMA SealFailedLines ==
  ASSUME LInv, IInv', NEW e \in End, NEW i \in DOMAIN sealing[e].jobs, SealFailed(e, i)
  PROVE  LInv'
<1> DEFINE j == sealing[e].jobs[i]
           q == Settle(sealing[e], i)
           s == NextSeal(q, stopped[e], next[e])
           H == Said(posted[Other(e)])
           unkeyed == j.stage = "keys" /\ keys[e] = "failed"
           t == IF unkeyed THEN Unkeyed(e) ELSE transport[e]
<1>1. /\ sealing[e] \in SealQ /\ next[e] \in Nat /\ Sends(e) /\ Receives(e) /\ IInv
      /\ Other(e) \in End /\ Other(e) # e
  BY LineParts
<1>2. j \in SealJob /\ sealing[e].jobs = <<j>>
  BY <1>1, SealJobOf
<1>3. /\ \/ j.stage = "refused"
         \/ unkeyed
         \/ j.stage = "cipher" /\ j.msg \in Unsealable
      /\ transport' = [transport EXCEPT ![e] = t]
      /\ sealing' = [sealing EXCEPT ![e] = NextSeal(Settle(@, i), stopped[e], next[e])]
      /\ UNCHANGED <<local, peer, keys, next, last, opening, stopped, wire, posted, sent, got>>
  BY LineParts DEF SealFailed, Shapes
<1>4. sealing'[e] = s /\ sealing'[Other(e)] = sealing[Other(e)]
  BY <1>1, <1>3, LineParts DEF Shapes
<1>5. /\ q \in SealQ /\ q.items = sealing[e].items /\ q.jobs = << >>
      /\ InSeal(q) = {} /\ InSeal(sealing[e]) = {j.msg}
      /\ Refuses(q, next[e])
  BY <1>1, SettleSealParts
<1> HIDE DEF q
<1>6. /\ Refuses(s, next[e])
      /\ \A k \in DOMAIN s.jobs : s.jobs[k].stage # "cipher"
  BY <1>1, <1>5, NextSealRefuses
<1>7. ASSUME Seals(e), Seals(e)' PROVE Told(InSeal(s), s.items, H, sent[e])
  <2>1. keys[e] # "failed" /\ next[e] <= CounterLimit
    BY <1>3, <1>4, <1>6, <1>7 DEF Seals
  <2>2. j.stage # "refused"
    BY <1>1, <2>1, LimitsAssumption DEF Sends, Refuses
  <2>3. j.msg \in Unsealable
    BY <1>3, <2>1, <2>2
  <2>4. Told({j.msg}, sealing[e].items, H, sent[e])
    BY <1>1, <1>5, <1>7 DEF Sends, Telling
  <2> HIDE DEF H
  <2>5. Told({}, q.items, H, sent[e])
    BY <1>5, <2>3, <2>4, ToldDropped
  <2>6. QED
    BY <1>1, <1>5, <2>5, NextSealTold
<1> HIDE DEF s
<1>8. Sends(e)'
  BY <1>3, <1>4, <1>6, <1>7, SendsMove DEF H
<1>9. /\ t.attached = transport[e].attached /\ t.started = transport[e].started
      /\ transport[e].disposed => t.disposed
  BY LineParts, ReleaseParts DEF Unkeyed
<1> HIDE DEF t
<1>10. transport'[e] = t /\ transport'[Other(e)] = transport[Other(e)]
  BY <1>1, <1>3, LineParts DEF Shapes
<1>11. Attends(e)' /\ Sticks(e) /\ Sticks(Other(e)) /\ Greeted(e) /\ Greeted(Other(e))
  BY <1>1, <1>3, <1>9, <1>10 DEF Attends, Sticks, Receives, Greeted
<1>12. Receives(e)'
  BY <1>3, <1>11, ReceivesKept
<1>13. Elsewhere(e)
  BY <1>3, <1>4, <1>10, <1>11 DEF Elsewhere
<1>14. QED
  BY <1>8, <1>12, <1>13, StepLines

LEMMA OpenFailedLines ==
  ASSUME LInv, IInv', NEW e \in End, NEW i \in DOMAIN opening[e].jobs, OpenFailed(e, i)
  PROVE  LInv'
<1> DEFINE j == opening[e].jobs[i]
           q == Settle(opening[e], i)
           r == NextOpen(q, stopped[e], last[e])
           unkeyed == j.stage = "keys" /\ keys[e] = "failed"
           t == IF unkeyed THEN Unkeyed(e) ELSE transport[e]
<1>1. /\ opening[e] \in OpenQ /\ last[e] \in Nat /\ Sends(e) /\ Receives(e) /\ IInv
      /\ Other(e) \in End /\ Other(e) # e
  BY LineParts
<1>2. /\ \/ j.stage = "refused"
         \/ unkeyed
         \/ j.stage = "keys" /\ keys[e] = "ready" /\ ~Authenticates(e, j.frame)
      /\ transport' = [transport EXCEPT ![e] = t]
      /\ opening' = [opening EXCEPT ![e] = NextOpen(Settle(@, i), stopped[e], last[e])]
      /\ UNCHANGED <<local, peer, keys, next, last, sealing, stopped, wire, posted, sent, got,
                     reported>>
  BY LineParts DEF OpenFailed, Shapes
<1>3. opening'[e] = r /\ opening'[Other(e)] = opening[Other(e)]
  BY <1>1, <1>2, LineParts DEF Shapes
<1>4. /\ q \in OpenQ /\ q.items = opening[e].items
      /\ InJob(q) = {} /\ InJob(opening[e]) = {j.frame}
      /\ Judges(q, last[e])
  BY <1>1, SettleOpenParts
<1> HIDE DEF q
<1>5. ASSUME Live(e) PROVE Line({}, q.items, wire[e], posted[e], last[e])
  <2>1. Line({j.frame}, q.items, wire[e], posted[e], last[e])
    BY <1>1, <1>4, <1>5 DEF Receives, InLine
  <2>2. \A f \in {j.frame} \cap posted[e] : f.counter <= last[e]
    <3> SUFFICES ASSUME j.frame \in posted[e], j.stage # "refused" PROVE FALSE
      BY <1>1 DEF Receives, Judges
    <3>1. keys[e] = "ready" /\ ~Authenticates(e, j.frame)
      BY <1>2, <1>5 DEF Live
    <3>2. j.frame.from = Other(e) /\ j.frame.to = peer[Other(e)] /\ peer[Other(e)] # None
      BY <1>1 DEF IInv, Sound, PostedFresh
    <3>3. Keyed(e) /\ Keyed(Other(e)) /\ Other(Other(e)) = e
      BY <1>1, Parts, Ends
    <3>4. peer[e] = Other(e) /\ peer[Other(e)] = e
      BY <1>5, <3>1, <3>2, <3>3 DEF Keyed, Live
    <3>5. QED
      BY <3>1, <3>2, <3>4 DEF Authenticates
  <2>3. QED
    BY <2>1, <2>2, LineSettled
<1>6. /\ Judges(r, last[e])
      /\ Live(e) => Line(InJob(r), r.items, wire[e], posted[e], last[e])
  BY <1>1, <1>4, <1>5, NextOpenLine
<1> HIDE DEF r
<1>7. /\ t.attached = transport[e].attached /\ t.started = transport[e].started
      /\ transport[e].disposed => t.disposed
  BY LineParts, ReleaseParts DEF Unkeyed
<1> HIDE DEF t
<1>8. transport'[e] = t /\ transport'[Other(e)] = transport[Other(e)]
  BY <1>1, <1>2, LineParts DEF Shapes
<1>9. Attends(e)' /\ Sticks(e) /\ Sticks(Other(e)) /\ Greeted(Other(e))
  BY <1>1, <1>2, <1>7, <1>8 DEF Attends, Sticks, Receives, Greeted
<1>10. Receives(e)'
  BY <1>2, <1>3, <1>6, <1>9, ReceivesMove
<1>11. Sends(e)'
  BY <1>2, SendsKept
<1>12. Elsewhere(e)
  BY <1>2, <1>3, <1>8, <1>9 DEF Elsewhere
<1>13. QED
  BY <1>10, <1>11, <1>12, StepLines

\* What an end heard, and delivered, when it opens the frame f.
LEMMA OpenedHeard ==
  ASSUME LInv, NEW e \in End, NEW f \in posted[e], Live(e), InJob(opening[e]) = {f},
         last[e] < f.counter
  PROVE  LET g == IF f.msg = Confirmation THEN got[e] ELSE Append(got[e], f.msg) IN
         /\ Line({}, opening[e].items, wire[e], posted[e], f.counter)
         /\ Range(g) = Said(Passed(posted[e], f.counter)) \ {Confirmation}
         /\ Prefix(g, Sealable(Other(e)))
<1> DEFINE P == posted[e]
           c == last[e]
           n == sent[Other(e)]
<1>1. /\ Receives(e) /\ Other(e) \in End /\ Other(Other(e)) = e /\ IInv
      /\ P \in SUBSET Sealed /\ c \in Nat /\ got[e] \in Seq(Nat)
      /\ \A g \in P : g.counter \in Nat /\ g.msg \in Nat
  BY LineParts
<1>2. n \in Nat /\ Numbered(P, n)
  BY <1>1, LineParts DEF Sends
<1>3. \A g \in P : g.counter = f.counter => g = f
  BY <1>1 DEF IInv, Sound, PostedFresh
<1>4. Line({f}, opening[e].items, wire[e], P, c)
  BY <1>1 DEF Receives, InLine
<1>5. /\ Range(got[e]) = Said(Passed(P, c)) \ {Confirmation}
      /\ Prefix(got[e], (1 .. n) \ Unsealable)
  BY <1>1 DEF Receives, Heard, Live, Sealable
<1>6. \A g \in P : g.counter < f.counter => g.counter <= c
  BY <1>4 DEF Line
<1>7. c \in Int /\ f \in P /\ c < f.counter /\ \A g \in P : g.counter \in Int
  BY <1>1
<1> HIDE DEF P, c, n
<1>8. /\ Line({}, opening[e].items, wire[e], P, f.counter)
      /\ Passed(P, f.counter) = Passed(P, c) \cup {f}
  BY <1>3, <1>4, <1>7, LineOpened
<1>9. Said(Passed(P, f.counter)) = Said(Passed(P, c)) \cup {f.msg}
  BY <1>8, SaidMore
<1>10. CASE f.msg = Confirmation
  BY <1>5, <1>8, <1>9, <1>10 DEF P, n, Sealable
<1>11. CASE f.msg # Confirmation
  <2>1. f \in P /\ f.msg \in Nat /\ c < f.counter
    BY <1>1 DEF P, c
  <2>2. Range(Append(got[e], f.msg)) = Range(got[e]) \cup {f.msg}
    BY <1>1, <2>1, RangeAppend
  <2>3. Prefix(Append(got[e], f.msg), (1 .. n) \ Unsealable)
    BY <1>1, <1>2, <1>3, <1>5, <1>6, <1>11, <2>1, PrefixGrows
  <2>4. QED
    BY <1>5, <1>8, <1>9, <1>11, <2>2, <2>3 DEF P, n, Sealable
<1>12. QED
  BY <1>10, <1>11

LEMMA OpenDoneLines ==
  ASSUME LInv, IInv', NEW e \in End, NEW i \in DOMAIN opening[e].jobs, OpenDone(e, i)
  PROVE  LInv'
<1> DEFINE f == opening[e].jobs[i].frame
           t == transport[e]
           u == [ClearTimers(t) EXCEPT !.confirmed = TRUE]
           q == Settle(opening[e], i)
           r == NextOpen(q, stopped[e], f.counter)
<1>1. /\ opening[e] \in OpenQ /\ last[e] \in Nat /\ Sends(e) /\ Receives(e) /\ IInv
      /\ Other(e) \in End /\ Other(e) # e /\ t \in Transport
  BY LineParts
<1>2. /\ opening[e].jobs[i].stage = "keys" /\ keys[e] = "ready" /\ Authenticates(e, f)
      /\ last' = [last EXCEPT ![e] = f.counter]
      /\ opening' = [opening EXCEPT ![e] = NextOpen(Settle(@, i), stopped[e], f.counter)]
      /\ transport' = IF t.disposed \/ t.confirmed THEN transport
                      ELSE [transport EXCEPT ![e] = u]
      /\ got' = IF t.disposed \/ f.msg = Confirmation THEN got
                ELSE [got EXCEPT ![e] = Append(@, f.msg)]
      /\ UNCHANGED <<local, peer, keys, next, sealing, stopped, wire, posted, sent, reported>>
  BY DEF OpenDone
<1>3. /\ u.attached = t.attached /\ u.started = t.started /\ u.disposed = t.disposed
  BY <1>1 DEF ClearTimers, Transport
<1>4. /\ transport'[e].attached = t.attached /\ transport'[e].started = t.started
      /\ transport'[e].disposed = t.disposed /\ transport'[Other(e)] = transport[Other(e)]
  <2> HIDE DEF u
  <2>1. transport \in [End -> Transport]
    BY LineParts DEF Shapes
  <2>2. QED
    BY <1>1, <1>2, <1>3, <2>1
<1> HIDE DEF u
<1>5. f \in Known(e)
  BY <1>1, OpenJobOf
<1> HIDE DEF f
<1>6. peer[e] = Other(e) /\ peer[Other(e)] = e
  BY <1>1, <1>2, <1>5, Authentic
<1>7. f \in posted[e] /\ e # Stray /\ Other(e) # Stray
  <2>1. e # Stray /\ Other(e) # Stray
    BY <1>1, Ends
  <2>2. f.from = Other(e)
    BY <1>2, <1>6 DEF Authenticates
  <2>3. QED
    BY <1>5, <2>1, <2>2 DEF Known, StraySealed
<1>8. f.counter \in Nat /\ last[e] < f.counter
  BY <1>1, <1>2, <1>7, LineParts DEF Receives, Judges, f
<1>9. /\ last'[e] = f.counter /\ last'[Other(e)] = last[Other(e)]
      /\ opening'[e] = r /\ opening'[Other(e)] = opening[Other(e)]
  BY <1>1, <1>2, LineParts DEF Shapes
<1>10. /\ got'[e] = IF t.disposed \/ f.msg = Confirmation THEN got[e]
                    ELSE Append(got[e], f.msg)
       /\ got'[Other(e)] = got[Other(e)]
  BY <1>1, <1>2, LineParts DEF Shapes
<1>11. /\ q \in OpenQ /\ q.items = opening[e].items
       /\ InJob(q) = {} /\ InJob(opening[e]) = {f}
       /\ Judges(q, f.counter)
  BY <1>1, SettleOpenParts DEF f
<1> HIDE DEF q, t
<1>12. /\ Judges(r, f.counter)
       /\ Line({}, q.items, wire[e], posted[e], f.counter) =>
            Line(InJob(r), r.items, wire[e], posted[e], f.counter)
  BY <1>8, <1>11, NextOpenLine
<1> HIDE DEF r
<1>13. ~t.disposed <=> Live(e)
  BY <1>2, <1>6, <1>7 DEF Live, t
<1>14. Live(e)' <=> Live(e)
  BY <1>2, <1>4 DEF Live, t
<1>15. Attends(e)'
  BY <1>1, <1>4 DEF Receives, Attends, t
<1>16. InLine(e)'
  BY <1>2, <1>7, <1>8, <1>9, <1>11, <1>12, <1>14, OpenedHeard DEF InLine
<1>17. Heard(e)' /\ Prefix(got'[e], Sealable(Other(e))')
  <2>1. last'[e] = 0 \/ \E g \in posted'[e] : g.counter = last'[e]
    BY <1>2, <1>7, <1>9
  <2>2. Sealable(Other(e))' = Sealable(Other(e))
    BY <1>2 DEF Sealable
  <2>3. CASE t.disposed
    BY <1>1, <1>4, <1>10, <2>1, <2>2, <2>3 DEF Heard, Receives, t
  <2>4. CASE ~t.disposed
    <3>1. /\ Range(got'[e]) = Said(Passed(posted[e], f.counter)) \ {Confirmation}
          /\ Prefix(got'[e], Sealable(Other(e)))
      BY <1>7, <1>8, <1>10, <1>11, <1>13, <2>4, OpenedHeard
    <3>2. QED
      BY <1>2, <1>9, <2>1, <2>2, <3>1 DEF Heard
  <2>5. QED
    BY <2>3, <2>4
<1>18. Receives(e)'
  BY <1>9, <1>12, <1>15, <1>16, <1>17 DEF Receives
<1>19. Sends(e)'
  BY <1>2, SendsKept
<1>20. Sticks(e) /\ Greeted(Other(e))
  BY <1>2, <1>4 DEF Sticks, Greeted, t
<1>21. Elsewhere(e)
  BY <1>2, <1>4, <1>9, <1>10, <1>20 DEF Elsewhere
<1>22. QED
  BY <1>18, <1>19, <1>21, StepLines

\* The frame that is posted comes last in both lines.
LEMMA SealDoneLines ==
  ASSUME LInv, IInv', NEW e \in End, NEW i \in DOMAIN sealing[e].jobs, SealDone(e, i)
  PROVE  LInv'
<1> DEFINE o == Other(e)
           j == sealing[e].jobs[i]
           x == [kind |-> "sealed", from |-> e, to |-> peer[e],
                 counter |-> j.counter, msg |-> j.msg]
           q == Settle(sealing[e], i)
           s == NextSeal(q, stopped[e], next[e])
           P == posted[o]
<1>1. /\ sealing[e] \in SealQ /\ next[e] \in Nat /\ sent[e] \in Nat
      /\ Sends(e) /\ Receives(e) /\ IInv
      /\ o \in End /\ o # e /\ Other(o) = e /\ End = {e, o}
      /\ e # Stray
  BY LineParts, Ends
<1>2. j \in SealJob /\ sealing[e].jobs = <<j>>
  BY <1>1, SealJobOf
<1>3. /\ j.stage = "cipher" /\ j.msg \notin Unsealable
      /\ wire'    = [wire EXCEPT ![o] = Append(@, x)]
      /\ posted'  = [posted EXCEPT ![o] = @ \cup {x}]
      /\ sealing' = [sealing EXCEPT ![e] = NextSeal(Settle(@, i), stopped[e], next[e])]
      /\ UNCHANGED <<transport, local, peer, keys, next, last, opening, stopped, sent, got,
                     reported>>
  BY DEF SealDone
<1>4. /\ x.counter >= 1 /\ x.counter \in Nat /\ x.msg = j.msg
      /\ x.kind = "sealed" /\ x.from = e
      /\ \A f \in P : f.counter < x.counter
  BY <1>1, <1>2, <1>3, Parts, LimitsAssumption DEF SealsFresh, SealJob
<1>5. /\ posted'[o] = P \cup {x} /\ posted'[e] = posted[e]
      /\ wire'[o] = Append(wire[o], x) /\ wire'[e] = wire[e]
      /\ sealing'[e] = s /\ sealing'[o] = sealing[o]
  BY <1>1, <1>3, LineParts DEF Shapes
<1>6. x \in Sealed
  <2>1. posted'[o] \in SUBSET Sealed
    BY <1>1 DEF IInv, Shapes
  <2>2. QED
    BY <1>5, <2>1
<1> HIDE DEF x
<1>7. /\ Receives(o) /\ P \in SUBSET Sealed /\ last[o] \in Nat /\ wire[o] \in Seq(Frame)
      /\ \A f \in P : f.counter \in Int
  BY <1>1, LineParts
<1> HIDE DEF P, o
<1>8. last[o] < x.counter
  BY <1>4, <1>7 DEF Receives, Heard, P
<1>9. x \notin InJob(opening[o]) \cup Range(opening[o].items) \cup Range(wire[o])
  <2>1. x \notin P
    BY <1>4, <1>7
  <2>2. x \notin Known(o)
    BY <1>1, <1>4, <2>1 DEF Known, StraySealed, P
  <2>3. x \notin Flying(o)
    BY <1>4, <2>1 DEF Flying, HelloOf, P
  <2>4. Range(opening[o].items) \subseteq Known(o) /\ Range(wire[o]) \subseteq Flying(o)
    <3>1. opening[o].items \in Seq(Known(o)) /\ wire[o] \in Seq(Flying(o))
      BY <1>1, Parts DEF OpensKnown, IInv, Sound
    <3>2. QED
      BY <3>1, RangeIn
  <2>5. InJob(opening[o]) \subseteq Known(o)
    BY <1>1, OpenJobOf DEF InJob
  <2>6. QED
    BY <2>2, <2>3, <2>4, <2>5
<1>10. Passed(P \cup {x}, last[o]) = Passed(P, last[o])
  BY <1>4, <1>7, <1>8 DEF Passed
<1>11. Receives(o)'
  <2>1. Live(o)' <=> Live(o)
    BY <1>3 DEF Live
  <2>2. ASSUME Live(o)
        PROVE  Line(InJob(opening[o]), opening[o].items, Append(wire[o], x), P \cup {x}, last[o])
    <3>1. Line(InJob(opening[o]), opening[o].items, wire[o], P, last[o])
      BY <1>7, <2>2 DEF Receives, InLine, P
    <3>2. x \in Frame /\ x.counter \in Int /\ last[o] \in Int
      BY <1>4, <1>6, <1>7 DEF Frame
    <3>3. QED
      BY <1>4, <1>7, <1>8, <1>9, <3>1, <3>2, LinePosted
  <2>3. InLine(o)'
    BY <1>3, <1>5, <2>1, <2>2 DEF InLine
  <2>4. Heard(o)'
    BY <1>3, <1>5, <1>7, <1>10 DEF Heard, Receives, P
  <2>5. QED
    BY <1>3, <1>7, <2>3, <2>4 DEF Receives, Attends, Sealable
<1>12. Sends(o)'
  BY <1>1, <1>3, <1>5, SendsKept
<1>13. Receives(e)'
  <2>1. Attends(e)' /\ Sticks(e) /\ Sticks(Other(e)) /\ Greeted(e)
    BY <1>1, <1>3, <1>5 DEF Attends, Sticks, Receives, Greeted
  <2>2. QED
    BY <1>3, <1>5, <2>1, ReceivesKept
<1>14. Sends(e)'
  <2>1. /\ q \in SealQ /\ q.items = sealing[e].items /\ q.jobs = << >>
        /\ InSeal(q) = {} /\ InSeal(sealing[e]) = {j.msg}
        /\ Refuses(q, next[e])
    BY <1>1, SettleSealParts
  <2>2. Seals(e)
    BY <1>3 DEF Seals
  <2>3. Told({j.msg}, sealing[e].items, Said(P), sent[e])
    BY <1>1, <2>1, <2>2 DEF Sends, Telling, P, o
  <2>4. sealing[e].items \in Seq(Nat)
    BY <1>1, SealJobsAreMsgs
  <2> HIDE DEF q
  <2>5. Told({}, q.items, Said(P) \cup {j.msg}, sent[e])
    BY <2>1, <2>3, ToldSealed
  <2>6. Said(P \cup {x}) = Said(P) \cup {j.msg}
    BY <1>4, SaidMore
  <2>7. /\ Refuses(s, next[e])
        /\ Told(InSeal(s), s.items, Said(P \cup {x}), sent[e])
    BY <1>1, <2>1, <2>5, <2>6, NextSealRefuses, NextSealTold
  <2> HIDE DEF s
  <2>8. Telling(e)'
    BY <1>3, <1>5, <2>7 DEF Telling, o
  <2>9. Numbered(P \cup {x}, sent[e])
    <3>1. Numbered(P, sent[e])
      BY <1>1 DEF Sends, P, o
    <3>2. QED
      BY <1>1, <1>3, <1>4, <1>6, <1>7, <2>3, <2>4, <3>1, NumberedPosted
  <2>10. QED
    BY <1>3, <1>5, <2>7, <2>8, <2>9 DEF Sends, o
<1>15. QED
  BY <1>1, <1>11, <1>12, <1>13, <1>14 DEF LInv

-----------------------------------------------------------------------------
(* The invariant of both lines, and what it shows.                         *)

LEMMA InitLInv == Init => LInv
<1> SUFFICES ASSUME Init PROVE LInv
  OBVIOUS
<1>1. ASSUME NEW e \in End PROVE Receives(e)
  <2>1. /\ ~transport[e].started /\ opening[e].jobs = << >> /\ last[e] = 0
        /\ posted[e] = {} /\ got[e] = << >>
    BY DEF Init
  <2>2. Attends(e) /\ Judges(opening[e], last[e])
    BY <2>1, JobsOf DEF Attends, Judges
  <2>3. InLine(e)
    BY <2>1, LineNone DEF InLine
  <2>4. Heard(e)
    <3>1. Range(<< >>) = {} /\ Said(Passed({}, 0)) = {}
      BY DEF Range, Said, Passed
    <3>2. QED
      BY <2>1, <3>1 DEF Heard
  <2>5. Prefix(got[e], Sealable(Other(e)))
    BY <2>1 DEF Prefix
  <2>6. QED
    BY <2>2, <2>3, <2>4, <2>5 DEF Receives
<1>2. ASSUME NEW e \in End PROVE Sends(e)
  <2>1. Other(e) \in End
    BY Ends
  <2>2. /\ sealing[e].jobs = << >> /\ sealing[e].items = << >> /\ sent[e] = 0
        /\ posted[Other(e)] = {}
    BY <2>1 DEF Init
  <2>3. Refuses(sealing[e], next[e]) /\ InSeal(sealing[e]) = {}
    BY <2>2, JobsOf DEF Refuses, InSeal
  <2>4. Told({}, << >>, Said({}), 0)
    BY DEF Told, Climbs
  <2>5. Numbered({}, 0)
    BY DEF Numbered
  <2>6. QED
    BY <2>2, <2>3, <2>4, <2>5 DEF Sends, Telling
<1>3. QED
  BY <1>1, <1>2, InitIInv DEF LInv

LEMMA NextLInv == LInv /\ [Next]_vars => LInv'
<1> SUFFICES ASSUME LInv, [Next]_vars PROVE LInv'
  OBVIOUS
<1>1. IInv'
  BY NextIInv DEF LInv
<1>2. CASE UNCHANGED vars
  <2>1. PICK e \in End : TRUE
    BY EndsAssumption
  <2>2. Attends(e)
    BY LineParts DEF Receives
  <2>3. Attends(e)' /\ Sticks(e) /\ Greeted(Other(e))
    BY <1>2, <2>2 DEF vars, Attends, Sticks, Greeted
  <2>4. QED
    BY <1>1, <1>2, <2>3, IdleLines DEF vars
<1>3. CASE Next
  <2>1. PICK e \in End :
          \/ Attach(e) \/ Start(e) \/ Mint(e) \/ RetryHello(e)
          \/ ConfirmTimeout(e) \/ DisposeCall(e) \/ Send(e) \/ Stop(e) \/ Resume(e)
          \/ Deliver(e) \/ Replay(e) \/ StrayFrame(e)
          \/ Derive(e) \/ Seal(e) \/ Open(e)
    BY <1>3 DEF Next
  <2>2. CASE Attach(e) \/ Start(e) \/ Mint(e) \/ RetryHello(e) \/ ConfirmTimeout(e)
             \/ DisposeCall(e)
    BY <1>1, <2>2, AttachLines, HelloLines, ReleaseLines
  <2>3. CASE Send(e) \/ Stop(e) \/ Resume(e) \/ Derive(e)
    BY <1>1, <2>3, SendLines, ResumeLines, DeriveLines
  <2>4. CASE Deliver(e) \/ Replay(e) \/ StrayFrame(e)
    BY <1>1, <2>4, ArrivalLines
  <2>5. CASE Seal(e)
    BY <1>1, <2>5, SealKeyedLines, SealDoneLines, SealFailedLines DEF Seal
  <2>6. CASE Open(e)
    BY <1>1, <2>6, OpenDoneLines, OpenFailedLines DEF Open
  <2>7. QED
    BY <2>1, <2>2, <2>3, <2>4, <2>5, <2>6
<1>4. QED
  BY <1>2, <1>3

\* Each end delivers a prefix, in order, of what the other was given and could
\* seal, whatever comes again or strays in, fails, stops or is disposed while
\* jobs wait: a message is sealed only when all before it were, under a greater
\* counter than theirs, and a frame is opened only when all before it were.
THEOREM DeliveryIsAPrefix == Spec => []PrefixDelivered
<1>1. LInv => PrefixDelivered
  BY DEF LInv, Receives, Prefix, PrefixDelivered
<1>2. LInv /\ [Next]_vars => LInv'
  BY NextLInv
<1>3. QED
  BY <1>1, <1>2, InitLInv, PTL DEF Spec
================================================================================
