------------------------ MODULE NexusSession_proofs ------------------------
(***************************************************************************)
(* Theorems about the sessions of NexusChannel, for any origins, refusing  *)
(* sides and bounds: which messages a page receives, with whom it is in    *)
(* session, and that the other side knows.                                 *)
(*                                                                         *)
(* The messages of a session (Order) and the consent of the two documents  *)
(* of one (Consents, which the refinement of Session rests on) are each an *)
(* invariant beside Routing, kept by the same few kinds of step.  That two *)
(* polite pages agree at rest (Accords) is one on the order of the frames  *)
(* in flight, what comes behind what, and on both channels.                *)
(***************************************************************************)
EXTENDS NexusChannel_proofs

-----------------------------------------------------------------------------
(* What a page says and whom it takes for its peer.  The two invariants    *)
(* below, the order of the messages and the consent to a session, rest on  *)
(* what an operator adds to the frames posted and on what it makes of the  *)
(* peers a channel names.                                                  *)

\* The frames a channel may post besides messages: it asks for a session and
\* accepts one only once its application has called connect().
Kinds(c) == IF c.ready THEN ProcessFrame ELSE ProcessFrame \ {"REQUEST", "ACCEPT"}

\* v posts what w does, then frames of the same page, of those kinds or of X.
Speaks(v, w, X) ==
  /\ v.id = w.id
  /\ Len(w.out) <= Len(v.out)
  /\ \A i \in 1 .. Len(w.out) : v.out[i] = w.out[i]
  /\ \A i \in (Len(w.out) + 1) .. Len(v.out) :
       v.out[i].from = w.id /\ v.out[i].type \in Kinds(v.ch) \cup X

\* d names no peer that c does not name, or that is not of F.
Calm(d, c, F) ==
  /\ c.ready => d.ready
  /\ d.active => c.active /\ d.peerId = c.peerId
  /\ d.awaiting.from \in {null, c.awaiting.from, c.scheduled.from} \cup F
  /\ d.scheduled.from \in {null, c.scheduled.from} \cup F

\* A session opens with a peer that c answered, or with one of F.
Opens(d, c, F) ==
  /\ ~c.active /\ c.ready /\ d.ready /\ d.active
  /\ d.peerId \in ({c.awaiting.from} \cup F) \ {null}
  /\ d.awaiting.from = null /\ d.scheduled.from = null

\* What waits to be sent is left alone, and no session opens.
SameQueue(d, c) ==
  /\ d.queue = c.queue
  /\ d.active /\ d.closing = null => c.active /\ c.closing = null

Gentle(v, w, F) ==
  /\ v \in WorkOK
  /\ Speaks(v, w, {})
  /\ Calm(v.ch, w.ch, F)
  /\ SameQueue(v.ch, w.ch)

\* A step that only writes the channel record.
LEMMA WriteGentle ==
  ASSUME NEW w \in WorkOK, NEW v \in WorkOK, v.id = w.id, v.out = w.out,
         NEW F, Calm(v.ch, w.ch, F), SameQueue(v.ch, w.ch)
  PROVE  Gentle(v, w, F)
<1>1. w.out \in Seq(Frame)
  BY DEF WorkOK
<1>2. Len(w.out) \in Nat
  BY <1>1
<1>3. \A i \in (Len(w.out) + 1) .. Len(w.out) : FALSE
  BY <1>2
<1>4. QED
  BY <1>2, <1>3 DEF Gentle, Speaks

\* Nothing is a step, and steps compose.
LEMMA GentleStarts ==
  ASSUME NEW w \in WorkOK, NEW F
  PROVE  Gentle(w, w, F)
BY WriteGentle DEF Calm, SameQueue

LEMMA SpeaksOn ==
  ASSUME NEW w \in WorkOK, NEW v \in WorkOK, NEW u \in WorkOK, NEW X,
         Speaks(v, w, X), Speaks(u, v, X), v.ch.ready => u.ch.ready
  PROVE  Speaks(u, w, X)
<1>1. /\ w.out \in Seq(Frame) /\ v.out \in Seq(Frame) /\ u.out \in Seq(Frame)
  BY DEF WorkOK
<1>2. Len(w.out) \in Nat /\ Len(v.out) \in Nat /\ Len(u.out) \in Nat
  BY <1>1
<1>3. Kinds(v.ch) \subseteq Kinds(u.ch)
  BY DEF Kinds
<1>4. ASSUME NEW i \in (Len(w.out) + 1) .. Len(u.out)
      PROVE  u.out[i].from = w.id /\ u.out[i].type \in Kinds(u.ch) \cup X
  <2>1. CASE i \in (Len(w.out) + 1) .. Len(v.out)
    <3>1. u.out[i] = v.out[i]
      BY <1>2, <2>1 DEF Speaks
    <3>2. QED
      BY <1>3, <2>1, <3>1 DEF Speaks
  <2>2. CASE i \in (Len(v.out) + 1) .. Len(u.out)
    BY <2>2 DEF Speaks
  <2>3. QED
    BY <1>2, <2>1, <2>2 DEF Speaks
<1>5. \A i \in 1 .. Len(w.out) : u.out[i] = w.out[i]
  BY <1>2 DEF Speaks
<1>6. QED
  BY <1>2, <1>4, <1>5 DEF Speaks

LEMMA GentleOn ==
  ASSUME NEW w \in WorkOK, NEW v, NEW u, NEW F, Gentle(v, w, F), Gentle(u, v, F)
  PROVE  Gentle(u, w, F)
<1>1. Speaks(u, w, {})
  BY SpeaksOn DEF Gentle, Calm
<1>2. Calm(u.ch, w.ch, F)
  BY DEF Gentle, Calm
<1>3. SameQueue(u.ch, w.ch)
  BY DEF Gentle, SameQueue
<1>4. QED
  BY <1>1, <1>2, <1>3 DEF Gentle

LEMMA GentleMore ==
  ASSUME NEW v, NEW w, NEW F, Gentle(v, w, {})
  PROVE  Gentle(v, w, F)
BY DEF Gentle, Calm

-----------------------------------------------------------------------------
(* The operators, one by one.                                              *)

LEMMA PostGentle ==
  ASSUME NEW w \in WorkOK, NEW type \in Kinds(w.ch), NEW p \in Pid
  PROVE  Gentle(Post(w, type, p), w, {}) /\ Post(w, type, p).ch = w.ch
<1> DEFINE f == [type |-> type, from |-> w.id, pid |-> p, msg |-> 0]
           v == [w EXCEPT !.out = Append(w.out, f)]
<1>1. type \in ProcessFrame
  BY DEF Kinds
<1>2. f \in Frame /\ f.from = w.id /\ f.type = type
  BY <1>1 DEF Frame, WorkOK
<1> HIDE DEF f
<1>3. w.out \in Seq(Frame) /\ Len(w.out) \in Nat
  BY DEF WorkOK
<1>4. v.id = w.id /\ v.ch = w.ch /\ v.out = Append(w.out, f)
  BY DEF WorkOK
<1>5. Post(w, type, p) = v \/ Post(w, type, p) = w
  BY DEF Post, f
<1>6. Post(w, type, p) \in WorkOK
  BY <1>1, PostDoes
<1> HIDE DEF v
<1>7. CASE Post(w, type, p) = v
  <2>1. /\ Len(v.out) = Len(w.out) + 1
        /\ \A i \in 1 .. Len(w.out) : v.out[i] = w.out[i]
        /\ v.out[Len(w.out) + 1] = f
    BY <1>2, <1>3, <1>4
  <2>2. \A i \in (Len(w.out) + 1) .. Len(v.out) : i = Len(w.out) + 1
    BY <1>3, <2>1
  <2>3. Speaks(v, w, {})
    BY <1>2, <1>3, <1>4, <2>1, <2>2 DEF Speaks
  <2>4. QED
    BY <1>4, <1>6, <1>7, <2>3 DEF Gentle, Calm, SameQueue
<1>8. CASE Post(w, type, p) = w
  BY <1>8, GentleStarts
<1>9. QED
  BY <1>5, <1>7, <1>8

LEMMA UntrackGentle ==
  ASSUME NEW w \in WorkOK, NEW p
  PROVE  Gentle(Untrack(w, p), w, {}) /\ Untrack(w, p).ch = w.ch
<1>1. Untrack(w, p) \in WorkOK /\ Untrack(w, p).ch = w.ch /\ Untrack(w, p).out = w.out
  BY UntrackDoes
<1>2. Untrack(w, p).id = w.id
  BY DEF Untrack, WorkOK
<1>3. QED
  BY <1>1, <1>2, WriteGentle DEF Calm, SameQueue

LEMMA TrackGentle ==
  ASSUME NEW w \in WorkOK, NEW p \in Pid
  PROVE  Gentle(Track(w, p), w, {}) /\ Track(w, p).ch = w.ch
<1>1. Track(w, p) \in WorkOK /\ Track(w, p).ch = w.ch /\ Track(w, p).out = w.out
  BY TrackDoes
<1>2. Track(w, p).id = w.id
  BY DEF Track, Untrack, WorkOK
<1>3. QED
  BY <1>1, <1>2, WriteGentle DEF Calm, SameQueue

LEMMA EndAttemptGentle ==
  ASSUME NEW w \in WorkOK, NEW outcome \in Outcome
  PROVE  /\ Gentle(EndAttempt(w, outcome), w, {})
         /\ EndAttempt(w, outcome).ch.ready = w.ch.ready
         /\ EndAttempt(w, outcome).ch.active = w.ch.active
         /\ EndAttempt(w, outcome).ch.peerId = w.ch.peerId
         /\ EndAttempt(w, outcome).ch.awaiting = w.ch.awaiting
         /\ EndAttempt(w, outcome).ch.scheduled = w.ch.scheduled
<1> DEFINE v == EndAttempt(w, outcome)
<1>1. v \in WorkOK /\ SameHandshake(w.ch, v.ch) /\ v.out = w.out
  BY EndAttemptDoes
<1>2. v.id = w.id /\ v.ch.peerId = w.ch.peerId /\ v.ch.queue = w.ch.queue
  BY DEF EndAttempt, WorkOK, Channel
<1> HIDE DEF v
<1>3. Calm(v.ch, w.ch, {}) /\ SameQueue(v.ch, w.ch)
  BY <1>1, <1>2 DEF SameHandshake, Calm, SameQueue
<1>4. QED
  BY <1>1, <1>2, <1>3, WriteGentle DEF SameHandshake, v

LEMMA DenyOnceGentle ==
  ASSUME NEW w \in WorkOK, NEW p \in Pid
  PROVE  Gentle(DenyOnce(w, p), w, {})
<1> DEFINE c == [w.ch EXCEPT !.denied = p]
           d == [w EXCEPT !.ch = c]
<1>1. w.ch \in Channel
  BY DEF WorkOK
<1>2. c \in Channel /\ Calm(c, w.ch, {}) /\ SameQueue(c, w.ch)
  BY <1>1 DEF Channel, Calm, SameQueue
<1>3. DenyOnce(w, p) = w \/ DenyOnce(w, p) = EndAttempt(d, "deny")
  BY DEF DenyOnce
<1> HIDE DEF c
<1>4. d \in WorkOK /\ d.ch = c /\ d.out = w.out /\ d.id = w.id
  BY <1>2, WriteDoes DEF WorkOK
<1> HIDE DEF d
<1>5. Gentle(d, w, {})
  BY <1>2, <1>4, WriteGentle
<1>6. Gentle(EndAttempt(d, "deny"), d, {})
  BY <1>4, EndAttemptGentle DEF Outcome
<1>7. QED
  BY <1>3, <1>5, <1>6, GentleOn, GentleStarts

LEMMA AbandonGentle ==
  ASSUME NEW w \in WorkOK, Sound(w.ch)
  PROVE  Gentle(AbandonRequest(w), w, {})
<1>1. /\ AbandonRequest(w) \in WorkOK /\ AbandonRequest(w).ch = Abandoned(w.ch)
      /\ AbandonRequest(w).out = w.out
  BY AbandonRequestDoes
<1>2. AbandonRequest(w).id = w.id
  BY DEF AbandonRequest, Untrack, ClearTimers, WorkOK
<1>3. Calm(Abandoned(w.ch), w.ch, {}) /\ SameQueue(Abandoned(w.ch), w.ch)
  BY DEF WorkOK, Channel, Abandoned, Calm, SameQueue
<1>4. QED
  BY <1>1, <1>2, <1>3, WriteGentle

LEMMA FinalizeCloseGentle ==
  ASSUME NEW w \in WorkOK, Roles(w.ch), OneClose(w.ch)
  PROVE  Gentle(FinalizeClose(w), w, {})
<1>1. CASE w.ch.active
  <2>1. /\ FinalizeClose(w) \in WorkOK /\ FinalizeClose(w).ch = Closed(w.ch)
        /\ FinalizeClose(w).out = w.out
    BY <1>1, FinalizeCloseDoes
  <2>2. FinalizeClose(w).id = w.id
    BY DEF FinalizeClose, Untrack, ClearTimers, WorkOK
  <2>3. Calm(Closed(w.ch), w.ch, {}) /\ SameQueue(Closed(w.ch), w.ch)
    BY DEF WorkOK, Channel, Closed, Calm, SameQueue, NoRequest
  <2>4. QED
    BY <2>1, <2>2, <2>3, WriteGentle
<1>2. CASE ~w.ch.active
  BY <1>2, GentleStarts DEF FinalizeClose
<1>3. QED
  BY <1>1, <1>2

LEMMA BeginResponseGentle ==
  ASSUME NEW w \in WorkOK, NEW r \in Request, w.ch.ready, ~w.ch.active
  PROVE  Gentle(BeginResponse(w, r), w, {r.from})
<1> DEFINE u == [w EXCEPT !.ch = Answering(w.ch, r)]
<1>1. r.pid \in Pid /\ w.ch \in Channel
  BY DEF Request, WorkOK
<1>2. Answering(w.ch, r) \in Channel
  BY <1>1, AnsweringChannel
<1>3. u \in WorkOK /\ u.ch = Answering(w.ch, r) /\ u.out = w.out /\ u.id = w.id
  BY <1>2, WriteDoes DEF WorkOK
<1>4. BeginResponse(w, r) = Post(u, "ACCEPT", r.pid)
  BY DEF BeginResponse, Answering
<1>5. /\ Calm(Answering(w.ch, r), w.ch, {r.from}) /\ SameQueue(Answering(w.ch, r), w.ch)
      /\ Answering(w.ch, r).ready
  BY <1>1 DEF Channel, Answering, Calm, SameQueue, NoRequest
<1> HIDE DEF u
<1>6. Gentle(u, w, {r.from})
  BY <1>3, <1>5, WriteGentle
<1>7. Gentle(Post(u, "ACCEPT", r.pid), u, {})
  BY <1>1, <1>3, <1>5, PostGentle DEF Kinds, ProcessFrame
<1>8. QED
  BY <1>4, <1>6, <1>7, GentleOn, GentleMore

LEMMA BeginRequestGentle ==
  ASSUME NEW w \in WorkOK, NEW p \in Pid, ~w.ch.active
  PROVE  Gentle(BeginRequest(w, p), w, {})
<1> DEFINE t == Track(w, p)
           c == Requesting(w.ch, p)
           u == [t EXCEPT !.ch = c]
<1>1. /\ t \in WorkOK /\ t.ch = w.ch /\ Gentle(t, w, {}) /\ w.ch \in Channel
  BY TrackDoes, TrackGentle DEF WorkOK
<1>2. c \in Channel
  BY <1>1, RequestingType
<1>3. BeginRequest(w, p) =
        Post([t EXCEPT !.ch.ready = TRUE, !.ch.pending = p,
                       !.ch.timer = [type |-> "REQUEST", pid |-> p],
                       !.ch.attempt = Begun(p)], "REQUEST", p)
  BY DEF BeginRequest
<1> HIDE DEF t
<1>4. [t EXCEPT !.ch.ready = TRUE, !.ch.pending = p,
                !.ch.timer = [type |-> "REQUEST", pid |-> p],
                !.ch.attempt = Begun(p)] = u
  BY <1>1 DEF Requesting
<1>5. c.ready /\ Calm(c, w.ch, {}) /\ SameQueue(c, w.ch)
  BY <1>1 DEF Channel, Requesting, Calm, SameQueue
<1> HIDE DEF c
<1>6. u \in WorkOK /\ u.ch = c /\ u.out = t.out /\ u.id = t.id
  BY <1>1, <1>2, WriteDoes DEF WorkOK
<1> HIDE DEF u
<1>7. Gentle(u, t, {})
  BY <1>1, <1>5, <1>6, WriteGentle
<1>8. Gentle(Post(u, "REQUEST", p), u, {})
  BY <1>5, <1>6, PostGentle DEF Kinds, ProcessFrame
<1>9. QED
  BY <1>1, <1>3, <1>4, <1>7, <1>8, GentleOn

LEMMA ProposeCloseGentle ==
  ASSUME NEW w \in WorkOK, NEW p \in Pid, Sound(w.ch), w.ch.active, w.ch.closing = null
  PROVE  Gentle(ProposeClose(w, p), w, {})
<1> DEFINE t == Track(ClearTimers(w), p)
           u == [t EXCEPT !.ch = Proposed(w.ch, p)]
<1>1. w.ch \in Channel /\ p # null
  BY NullIsNone DEF WorkOK
<1>2. /\ ClearTimers(w) \in WorkOK
      /\ ClearTimers(w).ch = [w.ch EXCEPT !.timer = NoTimer]
      /\ ClearTimers(w).out = w.out /\ ClearTimers(w).id = w.id
  BY ClearTimersType DEF ClearTimers, WorkOK
<1>3. /\ t \in WorkOK /\ t.ch = [w.ch EXCEPT !.timer = NoTimer]
      /\ t.out = w.out /\ t.id = w.id
  BY <1>2, TrackDoes DEF Track, Untrack, WorkOK
<1>4. Proposed(w.ch, p) \in Channel
  BY <1>1, ProposedType
<1>5. ProposeClose(w, p) =
        Post([t EXCEPT !.ch = [t.ch EXCEPT !.closing = p, !.closings = @ + 1]], "CLOSE", p)
  BY DEF ProposeClose
<1> HIDE DEF t
<1>6. [t.ch EXCEPT !.closing = p, !.closings = @ + 1] = Proposed(w.ch, p)
  BY <1>1, <1>3 DEF Proposed, Channel
<1>7. /\ u \in WorkOK /\ u.ch = Proposed(w.ch, p) /\ u.out = w.out /\ u.id = w.id
  BY <1>3, <1>4, WriteDoes DEF WorkOK
<1>8. ProposeClose(w, p) = Post(u, "CLOSE", p)
  BY <1>5, <1>6
<1>9. /\ Calm(Proposed(w.ch, p), w.ch, {}) /\ SameQueue(Proposed(w.ch, p), w.ch)
  BY <1>1 DEF Channel, Proposed, Calm, SameQueue
<1> HIDE DEF u
<1>10. Gentle(u, w, {})
  BY <1>7, <1>9, WriteGentle
<1>11. Gentle(Post(u, "CLOSE", p), u, {})
  BY <1>7, PostGentle DEF Kinds, ProcessFrame
<1>12. QED
  BY <1>8, <1>10, <1>11, GentleOn

LEMMA AbortAttemptGentle ==
  ASSUME NEW w \in WorkOK, Sound(w.ch)
  PROVE  Gentle(AbortAttempt(w), w, {})
<1> DEFINE t == Untrack(ClearTimers(w), w.ch.pending)
           c == [t.ch EXCEPT !.pending = null, !.awaiting = NoRequest, !.scheduled = NoRequest]
           u == [t EXCEPT !.ch = c]
<1>1. w.ch \in Channel
  BY DEF WorkOK
<1>2. t \in WorkOK /\ t.ch = [w.ch EXCEPT !.timer = NoTimer] /\ t.out = w.out
  BY StopDoes
<1>3. t.id = w.id
  BY DEF Untrack, ClearTimers, WorkOK
<1>4. AbortAttempt(w) = EndAttempt(u, "cancel")
  BY DEF AbortAttempt
<1> HIDE DEF t
<1>5. c = Given(w.ch, NoRequest) /\ c \in Channel
  BY <1>1, <1>2, GivenType DEF Given, Channel
<1>6. Calm(c, w.ch, {}) /\ SameQueue(c, w.ch)
  BY <1>1, <1>2 DEF Channel, Calm, SameQueue, NoRequest
<1> HIDE DEF c
<1>7. u \in WorkOK /\ u.ch = c /\ u.out = w.out /\ u.id = w.id
  BY <1>2, <1>3, <1>5, WriteDoes DEF WorkOK
<1> HIDE DEF u
<1>8. Gentle(u, w, {})
  BY <1>6, <1>7, WriteGentle
<1>9. Gentle(EndAttempt(u, "cancel"), u, {})
  BY <1>7, EndAttemptGentle DEF Outcome
<1>10. QED
  BY <1>4, <1>8, <1>9, GentleOn

-----------------------------------------------------------------------------
(* The steps of a page, as either invariant sees them.                     *)

\* The pages whose request or acceptance is in flight to a side.
Asking == {"REQUEST", "ACCEPT"}
Askers(s) == {net[s][i].from : i \in {j \in DOMAIN net[s] : net[s][j].type \in Asking}}

\* A commit by a call or a timer, or by a handler of the oldest frame.
Commits(s, w) == \/ Commit(s, w, net[s])
                 \/ net[s] # << >> /\ Commit(s, w, Tail(net[s]))

\* A page says no message and opens no session.
QuietStep(s) ==
  /\ Up(s)
  /\ \E w \in WorkOK : Gentle(w, Work(s), Askers(s)) /\ Commits(s, w)
  /\ UNCHANGED <<sent, got>>

\* Its session opens, and what was queued is sent.
OpenStep(s) ==
  /\ Up(s)
  /\ \E v, w \in WorkOK :
       /\ Speaks(v, Work(s), {}) /\ v.ch.queue = chan[s].queue
       /\ Opens(v.ch, chan[s], Askers(s))
       /\ Gentle(w, Flush(v), {})
       /\ Commits(s, w)
  /\ UNCHANGED <<sent, got>>

\* It sends one message on an open session, nothing being queued.
Upcoming(s) == sent[s] + 1

SayStep(s) ==
  /\ Up(s)
  /\ chan[s].active /\ chan[s].closing = null
  /\ \E v, w \in WorkOK :
       /\ Gentle(v, Work(s), {}) /\ v.out = Work(s).out
       /\ Gentle(w, PostMessages(v, <<Upcoming(s)>>), {})
       /\ Commits(s, w)
  /\ sent' = [sent EXCEPT ![s] = Upcoming(s)] /\ got' = got

\* Or queues one.
QueueStep(s) ==
  /\ Up(s)
  /\ ~(chan[s].active /\ chan[s].closing = null)
  /\ Commits(s, [Work(s) EXCEPT !.ch.queue = Append(@, Upcoming(s))])
  /\ sent' = [sent EXCEPT ![s] = Upcoming(s)] /\ got' = got

\* A message is delivered to it, or dropped.
HearStep(s) ==
  /\ Up(s) /\ net[s] # << >>
  /\ \/ got' = got
     \/ LET f == Head(net[s])
        IN  /\ f.type = "MESSAGE"
            /\ got' = [got EXCEPT ![s] = Append(@, [from |-> f.from, msg |-> f.msg])]
  /\ Commit(s, Work(s), Tail(net[s]))
  /\ sent' = sent

\* Its channel is destroyed.
DestroyStep(s) ==
  /\ Up(s)
  /\ "destroy" \in Env \/ (net[s] # << >> /\ Head(net[s]).type = "DESTROY")
  /\ \E notify \in BOOLEAN : Commits(s, Destroy(Work(s), notify))
  /\ UNCHANGED <<sent, got>>

LEMMA StepContext ==
  ASSUME RInv, NEW s \in Side, Up(s)
  PROVE  /\ Work(s) \in WorkOK /\ Work(s).ch = chan[s] /\ Work(s).id = broker[s]
         /\ Work(s).out = << >> /\ Sound(chan[s]) /\ Roles(chan[s]) /\ OneClose(chan[s])
         /\ Fit(chan[s]) /\ chan[s] \in Channel /\ net[s] \in Seq(Frame)
         /\ Gentle(Work(s), Work(s), Askers(s))
<1>1. /\ Work(s) \in WorkOK /\ Work(s).ch = chan[s] /\ Sound(chan[s]) /\ chan[s] \in Channel
      /\ Fit(chan[s])
  BY MoveContext DEF RInv
<1>2. Work(s).id = broker[s] /\ Work(s).out = << >>
  BY DEF Work
<1>3. net[s] \in Seq(Frame)
  BY DEF RInv, IInv, TypeOK
<1>4. QED
  BY <1>1, <1>2, <1>3, GentleStarts DEF Sound

LEMMA RegisteredIsUp ==
  ASSUME RInv, NEW s \in Side,
         \/ chan[s].registered \/ chan[s].active
         \/ chan[s].closing # null \/ chan[s].timer # NoTimer
  PROVE  Up(s)
BY DEF RInv, IInv, NoPageNoChannel, NewChannel

LEMMA ArrivingContext ==
  ASSUME RInv, NEW s \in Side, NEW type, Arriving(s, type)
  PROVE  /\ Up(s) /\ net[s] # << >>
         /\ Head(net[s]).from \in Id /\ Head(net[s]).msg \in Nat
         /\ type \in ProcessFrame => Head(net[s]).pid \in Pid
         /\ type \in Asking => Head(net[s]).from \in Askers(s)
<1>1. /\ Up(s) /\ net[s] # << >> /\ Head(net[s]).from \in Id /\ Head(net[s]).msg \in Nat
      /\ type \in ProcessFrame => Head(net[s]).pid \in Pid
  BY Arrives DEF RInv, Arriving
<1>2. net[s] \in Seq(Frame) /\ Head(net[s]).type = type
  BY DEF RInv, IInv, TypeOK, Arriving
<1>3. Head(net[s]) = net[s][1] /\ 1 \in DOMAIN net[s]
  BY <1>1, <1>2
<1>4. QED
  BY <1>1, <1>2, <1>3 DEF Askers

LEMMA HandledQuietly ==
  ASSUME NEW s \in Side, Up(s), net[s] # << >>,
         NEW w, Gentle(w, Work(s), Askers(s)), Handle(s, w)
  PROVE  QuietStep(s)
BY DEF QuietStep, Commits, Handle, Gentle

LEMMA CalledQuietly ==
  ASSUME NEW s \in Side, Up(s), NEW w, Gentle(w, Work(s), Askers(s)),
         Commit(s, w, net[s]), UNCHANGED <<sent, got>>
  PROVE  QuietStep(s)
BY DEF QuietStep, Commits, Gentle

-----------------------------------------------------------------------------
(* Calls and timers.                                                       *)

LEMMA ConnectRequestSteps ==
  ASSUME RInv, NEW s \in Side, ConnectRequest(s)
  PROVE  QuietStep(s)
<1>1. /\ Up(s) /\ ~chan[s].active /\ nextPid \in Pid
      /\ Commit(s, BeginRequest(Work(s), nextPid), net[s]) /\ UNCHANGED <<sent, got>>
  BY DEF ConnectRequest, Idle, Mint
<1>2. Gentle(BeginRequest(Work(s), nextPid), Work(s), Askers(s))
  BY <1>1, StepContext, BeginRequestGentle, GentleMore
<1>3. QED
  BY <1>1, <1>2, CalledQuietly

LEMMA ConnectAnswerSteps ==
  ASSUME RInv, NEW s \in Side, ConnectAnswer(s)
  PROVE  QuietStep(s)
<1> DEFINE c == [chan[s] EXCEPT !.ready = TRUE]
           u == [Work(s) EXCEPT !.ch = c]
           r == chan[s].scheduled
           b == BeginResponse(u, r)
<1>1. /\ Up(s) /\ ~chan[s].active /\ r # NoRequest
      /\ Commit(s, BeginResponse([Work(s) EXCEPT !.ch.ready = TRUE], r), net[s])
      /\ UNCHANGED <<sent, got>>
  BY DEF ConnectAnswer, Idle
<1>2. /\ Work(s) \in WorkOK /\ Work(s).ch = chan[s] /\ chan[s] \in Channel
  BY <1>1, StepContext
<1>3. [Work(s) EXCEPT !.ch.ready = TRUE] = u
  BY <1>2
<1>4. r \in Request
  BY <1>1, <1>2 DEF Channel
<1>5. /\ c \in Channel /\ c.ready /\ ~c.active /\ c.scheduled = r
      /\ Calm(c, chan[s], {}) /\ SameQueue(c, chan[s])
  BY <1>1, <1>2 DEF Channel, Calm, SameQueue
<1> HIDE DEF c
<1>6. u \in WorkOK /\ u.ch = c /\ u.out = Work(s).out /\ u.id = Work(s).id
  BY <1>2, <1>5, WriteDoes DEF WorkOK
<1> HIDE DEF u, r
<1>7. Gentle(u, Work(s), {})
  BY <1>2, <1>5, <1>6, WriteGentle
<1>8. Gentle(b, u, {r.from})
  BY <1>4, <1>5, <1>6, BeginResponseGentle
<1>9. r.from = c.scheduled.from
  BY <1>5
<1>10. Gentle(b, u, {})
  BY <1>6, <1>8, <1>9 DEF Gentle, Calm
<1>11. Gentle(b, Work(s), Askers(s))
  BY <1>2, <1>7, <1>10, GentleOn, GentleMore
<1>12. QED
  BY <1>1, <1>3, <1>11, CalledQuietly

LEMMA DisconnectSteps ==
  ASSUME RInv, NEW s \in Side, Disconnect(s)
  PROVE  QuietStep(s)
<1>1. /\ chan[s].active /\ chan[s].closing = null /\ nextPid \in Pid
      /\ Commit(s, ProposeClose(Work(s), nextPid), net[s]) /\ UNCHANGED <<sent, got>>
  BY DEF Disconnect, Mint
<1>2. Up(s)
  BY <1>1, RegisteredIsUp
<1>3. Gentle(ProposeClose(Work(s), nextPid), Work(s), Askers(s))
  BY <1>1, <1>2, StepContext, ProposeCloseGentle, GentleMore
<1>4. QED
  BY <1>1, <1>2, <1>3, CalledQuietly

\* disconnect(false), and the deadline of a polite close.
LEMMA FinalizeSteps ==
  ASSUME RInv, NEW s \in Side, DisconnectSilently(s) \/ CloseTimeout(s)
  PROVE  QuietStep(s)
<1>1. /\ chan[s].active \/ chan[s].closing # null
      /\ Commit(s, FinalizeClose(Work(s)), net[s]) /\ UNCHANGED <<sent, got>>
  BY DEF DisconnectSilently, CloseTimeout
<1>2. Up(s)
  BY <1>1, RegisteredIsUp
<1>3. Gentle(FinalizeClose(Work(s)), Work(s), Askers(s))
  BY <1>2, StepContext, FinalizeCloseGentle, GentleMore
<1>4. QED
  BY <1>1, <1>2, <1>3, CalledQuietly

LEMMA CancelSteps ==
  ASSUME RInv, NEW s \in Side, Cancel(s)
  PROVE  QuietStep(s)
<1> DEFINE inProgress == ~Idle(chan[s]) \/ chan[s].scheduled # NoRequest
           w == IF inProgress THEN AbortAttempt(Work(s)) ELSE Work(s)
           t == Track(w, nextPid)
           x == Post(t, "CANCEL", nextPid)
<1>1. /\ chan[s].registered
      /\ \/ nextPid \in Pid /\ Commit(s, x, net[s])
         \/ Commit(s, w, net[s])
      /\ UNCHANGED <<sent, got>>
  BY DEF Cancel, Mint
<1>2. Up(s)
  BY <1>1, RegisteredIsUp
<1>3. /\ Work(s) \in WorkOK /\ Sound(Work(s).ch)
  BY <1>2, StepContext
<1>4. Gentle(w, Work(s), Askers(s))
  BY <1>3, AbortAttemptGentle, GentleStarts, GentleMore
<1> HIDE DEF w
<1>5. CASE nextPid \in Pid /\ Commit(s, x, net[s])
  <2>1. Gentle(t, w, {}) /\ t \in WorkOK
    BY <1>4, <1>5, TrackGentle DEF Gentle
  <2> HIDE DEF t
  <2>2. Gentle(x, t, {})
    BY <1>5, <2>1, PostGentle DEF Kinds, ProcessFrame
  <2>3. Gentle(x, Work(s), Askers(s))
    BY <1>3, <1>4, <2>1, <2>2, GentleOn, GentleMore DEF Gentle
  <2>4. QED
    BY <1>1, <1>2, <1>5, <2>3, CalledQuietly
<1>6. CASE Commit(s, w, net[s])
  BY <1>1, <1>2, <1>4, <1>6, CalledQuietly
<1>7. QED
  BY <1>1, <1>5, <1>6

LEMMA DestroyCallSteps ==
  ASSUME RInv, NEW s \in Side, DestroyCall(s)
  PROVE  DestroyStep(s)
<1>1. PICK notify \in Notify : Commit(s, Destroy(Work(s), notify), net[s])
  BY DEF DestroyCall
<1>2. notify \in BOOLEAN
  BY <1>1 DEF Notify
<1>3. Up(s) /\ UNCHANGED <<sent, got>> /\ "destroy" \in Env
  BY RegisteredIsUp DEF DestroyCall
<1>4. QED
  BY <1>1, <1>2, <1>3 DEF DestroyStep, Commits

LEMMA SendSteps ==
  ASSUME RInv, NEW s \in Side, Send(s)
  PROVE  SayStep(s) \/ QueueStep(s)
<1> DEFINE n == Upcoming(s)
<1>1. chan[s].registered /\ sent' = [sent EXCEPT ![s] = n] /\ got' = got
  BY DEF Send, Upcoming
<1>2. Up(s)
  BY <1>1, RegisteredIsUp
<1>3. /\ Work(s) \in WorkOK /\ Work(s).ch = chan[s] /\ chan[s] \in Channel
      /\ Gentle(Work(s), Work(s), {})
  BY <1>2, StepContext, GentleStarts
<1>4. n \in Nat /\ sent'[s] = n
  BY <1>1 DEF RInv, IInv, TypeOK, Upcoming
<1>5. \/ /\ chan[s].active /\ chan[s].closing = null
         /\ Commit(s, PostMessages(Work(s), <<n>>), net[s])
      \/ /\ ~(chan[s].active /\ chan[s].closing = null)
         /\ Commit(s, [Work(s) EXCEPT !.ch.queue = Append(@, n)], net[s])
  BY <1>4 DEF Send
<1> HIDE DEF n
<1>6. CASE /\ chan[s].active /\ chan[s].closing = null
           /\ Commit(s, PostMessages(Work(s), <<n>>), net[s])
  <2>1. PostMessages(Work(s), <<n>>) \in WorkOK
    <3>1. <<n>> \in Seq(Nat)
      BY <1>4
    <3>2. QED
      BY <1>3, <3>1, PostMessagesDoes
  <2>2. Gentle(PostMessages(Work(s), <<n>>), PostMessages(Work(s), <<n>>), {})
    BY <2>1, GentleStarts
  <2>3. Commits(s, PostMessages(Work(s), <<n>>))
    BY <1>6 DEF Commits
  <2>4. QED
    BY <1>1, <1>2, <1>3, <1>6, <2>1, <2>2, <2>3 DEF SayStep, n
<1>7. CASE /\ ~(chan[s].active /\ chan[s].closing = null)
           /\ Commit(s, [Work(s) EXCEPT !.ch.queue = Append(@, n)], net[s])
  BY <1>1, <1>2, <1>7 DEF QueueStep, Commits, n
<1>8. QED
  BY <1>5, <1>6, <1>7

LEMMA RetrySteps ==
  ASSUME RInv, NEW s \in Side, Retry(s)
  PROVE  QuietStep(s)
<1> DEFINE t == chan[s].timer
<1>1. /\ t # NoTimer
      /\ Commit(s, Post(Work(s), t.type, t.pid), net[s])
      /\ UNCHANGED <<sent, got>>
  BY DEF Retry
<1>2. Up(s)
  BY <1>1, RegisteredIsUp
<1>3. /\ Work(s) \in WorkOK /\ Work(s).ch = chan[s] /\ chan[s] \in Channel
      /\ Roles(chan[s]) /\ Armed(chan[s])
  BY <1>2, StepContext DEF Fit
<1>4. t.type \in ProcessFrame /\ t.pid \in Pid
  BY <1>1, <1>3 DEF Channel, Timer, ProcessFrame
<1>5. chan[s].ready
  BY <1>1, <1>3 DEF Armed, Roles, Idle
<1> HIDE DEF t
<1>6. Gentle(Post(Work(s), t.type, t.pid), Work(s), Askers(s))
  BY <1>3, <1>4, <1>5, PostGentle, GentleMore DEF Kinds
<1>7. QED
  BY <1>1, <1>2, <1>6, CalledQuietly

LEMMA ExpireSteps ==
  ASSUME RInv, NEW s \in Side, Expire(s)
  PROVE  QuietStep(s)
<1> DEFINE t == Untrack(ClearTimers(Work(s)), chan[s].timer.pid)
           c == [t.ch EXCEPT !.pending = null, !.awaiting = NoRequest]
           u == [t EXCEPT !.ch = c]
           v == EndAttempt(u, "connect-timeout")
<1>1. /\ chan[s].timer # NoTimer
      /\ Commit(s, EndAttempt([t EXCEPT !.ch.pending = null, !.ch.awaiting = NoRequest],
                              "connect-timeout"), net[s])
      /\ UNCHANGED <<sent, got>>
  BY DEF Expire
<1>2. Up(s)
  BY <1>1, RegisteredIsUp
<1>3. /\ Work(s) \in WorkOK /\ Work(s).ch = chan[s] /\ chan[s] \in Channel
  BY <1>2, StepContext
<1>4. t \in WorkOK /\ t.ch = [chan[s] EXCEPT !.timer = NoTimer] /\ t.out = Work(s).out
  BY <1>3, StopDoes
<1>5. t.id = Work(s).id
  BY <1>3 DEF Untrack, ClearTimers, WorkOK
<1>6. [t EXCEPT !.ch.pending = null, !.ch.awaiting = NoRequest] = u
  OBVIOUS
<1> HIDE DEF t
<1>7. c \in Channel /\ Calm(c, chan[s], {}) /\ SameQueue(c, chan[s])
  BY <1>3, <1>4 DEF Channel, Calm, SameQueue, NoRequest
<1> HIDE DEF c
<1>8. u \in WorkOK /\ u.ch = c /\ u.out = Work(s).out /\ u.id = Work(s).id
  BY <1>4, <1>5, <1>7, WriteDoes DEF WorkOK
<1> HIDE DEF u
<1>9. Gentle(u, Work(s), {})
  BY <1>3, <1>7, <1>8, WriteGentle
<1>10. Gentle(v, u, {})
  BY <1>8, EndAttemptGentle DEF Outcome
<1>11. Gentle(v, Work(s), Askers(s))
  BY <1>3, <1>9, <1>10, GentleOn, GentleMore
<1>12. QED
  BY <1>1, <1>2, <1>6, <1>11, CalledQuietly

-----------------------------------------------------------------------------
(* Handlers.                                                               *)

LEMMA DroppedQuietly ==
  ASSUME RInv, NEW s \in Side, Up(s), net[s] # << >>, Handle(s, Work(s))
  PROVE  QuietStep(s)
BY StepContext, HandledQuietly

LEMMA RequestConsideredSteps ==
  ASSUME RInv, NEW s \in Side, Up(s), net[s] # << >>,
         NEW f, f.pid \in Pid, f.from \in Askers(s), f.from \in Id,
         NEW w, Gentle(w, Work(s), Askers(s)), Sound(w.ch), ~w.ch.active,
         RequestConsidered(s, f, w), UNCHANGED <<sent, got>>
  PROVE  QuietStep(s)
<1> DEFINE v == IF w.ch.pending # null THEN AbandonRequest(w) ELSE w
           r == [from |-> f.from, pid |-> f.pid]
           t == Track(v, f.pid)
           x == IF w.ch.scheduled.pid = f.pid THEN t ELSE Untrack(t, w.ch.scheduled.pid)
           y == [x EXCEPT !.ch = Scheduled(x.ch, r)]
           A == Askers(s)
<1>1. r \in Request /\ r.from = f.from
  BY DEF Request
<1>2. \/ Commit(s, w, Tail(net[s]))
      \/ Commit(s, DenyOnce(Post(v, "DENY", f.pid), f.pid), Tail(net[s]))
      \/ v.ch.ready /\ Commit(s, BeginResponse(t, r), Tail(net[s]))
      \/ ~v.ch.ready /\ Commit(s, [x EXCEPT !.ch.scheduled = r], Tail(net[s]))
  BY DEF RequestConsidered, MayAnswer
<1>3. [x EXCEPT !.ch.scheduled = r] = y
  BY DEF Scheduled
<1>4. w \in WorkOK /\ Work(s) \in WorkOK
  BY StepContext DEF Gentle
<1>5. Gentle(v, w, A)
  BY <1>4, AbandonGentle, GentleStarts, GentleMore
<1> HIDE DEF v, A
<1>6. v \in WorkOK /\ ~v.ch.active /\ Gentle(v, Work(s), A)
  BY <1>4, <1>5, GentleOn DEF Gentle, Calm, A
<1>7. t \in WorkOK /\ t.ch = v.ch /\ Gentle(t, v, {})
  BY <1>6, TrackGentle DEF Gentle
<1> HIDE DEF t
<1>8. Gentle(t, Work(s), A)
  BY <1>4, <1>6, <1>7, GentleOn, GentleMore
<1>9. ASSUME NEW u, Gentle(u, Work(s), A), Commit(s, u, Tail(net[s]))
      PROVE  QuietStep(s)
  BY <1>9 DEF QuietStep, Commits, Gentle, A
<1>10. CASE Commit(s, w, Tail(net[s]))
  BY <1>9, <1>10 DEF A
<1>11. CASE Commit(s, DenyOnce(Post(v, "DENY", f.pid), f.pid), Tail(net[s]))
  <2> DEFINE a == Post(v, "DENY", f.pid)
  <2>1. Gentle(a, v, {}) /\ a \in WorkOK
    BY <1>6, PostGentle DEF Kinds, ProcessFrame, Gentle
  <2>2. Gentle(DenyOnce(a, f.pid), a, {})
    BY <2>1, DenyOnceGentle
  <2> HIDE DEF a
  <2>3. Gentle(DenyOnce(a, f.pid), Work(s), A)
    BY <1>4, <1>6, <2>1, <2>2, GentleOn, GentleMore
  <2>4. QED
    BY <1>9, <1>11, <2>3 DEF a
<1>12. CASE v.ch.ready /\ Commit(s, BeginResponse(t, r), Tail(net[s]))
  <2>1. Gentle(BeginResponse(t, r), t, {r.from})
    BY <1>1, <1>6, <1>7, <1>12, BeginResponseGentle
  <2>2. Gentle(BeginResponse(t, r), t, A)
    BY <1>1, <2>1 DEF Gentle, Calm, A
  <2>3. Gentle(BeginResponse(t, r), Work(s), A)
    BY <1>4, <1>8, <2>2, GentleOn
  <2>4. QED
    BY <1>9, <1>12, <2>3
<1>13. CASE ~v.ch.ready /\ Commit(s, [x EXCEPT !.ch.scheduled = r], Tail(net[s]))
  <2>1. Gentle(x, t, {}) /\ x.ch = v.ch /\ x \in WorkOK
    BY <1>7, UntrackGentle, GentleStarts DEF Gentle
  <2> HIDE DEF x
  <2>2. v.ch \in Channel
    BY <1>6 DEF WorkOK
  <2> HIDE DEF r
  <2>3. /\ Scheduled(v.ch, r) \in Channel
        /\ Calm(Scheduled(v.ch, r), v.ch, A) /\ SameQueue(Scheduled(v.ch, r), v.ch)
    <3> DEFINE d == Scheduled(v.ch, r)
    <3>1. d \in Channel
      BY <1>1, <2>2 DEF Scheduled, Channel
    <3>2. /\ d.ready = v.ch.ready /\ d.active = v.ch.active /\ d.peerId = v.ch.peerId
          /\ d.awaiting = v.ch.awaiting /\ d.scheduled = r /\ d.queue = v.ch.queue
          /\ d.closing = v.ch.closing
      BY <2>2 DEF Scheduled, Channel
    <3> HIDE DEF d
    <3>3. r.from \in A
      BY <1>1 DEF A
    <3>4. Calm(d, v.ch, A) /\ SameQueue(d, v.ch)
      BY <3>2, <3>3 DEF Calm, SameQueue
    <3>5. QED
      BY <3>1, <3>4 DEF d
  <2>4. y \in WorkOK /\ y.ch = Scheduled(v.ch, r) /\ y.out = x.out /\ y.id = x.id
    BY <2>1, <2>3, WriteDoes DEF WorkOK
  <2> HIDE DEF y
  <2>5. Gentle(y, x, A)
    BY <2>1, <2>3, <2>4, WriteGentle
  <2>6. Gentle(y, Work(s), A)
    BY <1>4, <1>8, <2>1, <2>5, GentleOn, GentleMore
  <2>7. QED
    BY <1>3, <1>9, <1>13, <2>6
<1>14. QED
  BY <1>2, <1>10, <1>11, <1>12, <1>13

LEMMA HandleRequestSteps ==
  ASSUME RInv, NEW s \in Side, HandleRequest(s)
  PROVE  QuietStep(s)
<1> DEFINE f == Head(net[s])
           c == [chan[s] EXCEPT !.registered = TRUE]
           u == [Work(s) EXCEPT !.ch = c]
           w == FinalizeClose(u)
           b == BeginRequest(w, nextPid)
<1>1. Arriving(s, "REQUEST")
  BY DEF HandleRequest
<1>2. /\ Up(s) /\ net[s] # << >> /\ f.pid \in Pid /\ f.from \in Id /\ f.from \in Askers(s)
  BY <1>1, ArrivingContext DEF ProcessFrame, Asking
<1>3. /\ Work(s) \in WorkOK /\ Work(s).ch = chan[s]
      /\ Sound(chan[s]) /\ Roles(chan[s]) /\ chan[s] \in Channel
  BY <1>2, StepContext
<1>4. [Work(s) EXCEPT !.ch.registered = TRUE] = u
  BY <1>3
<1>5. \/ Handle(s, Work(s))
      \/ chan[s].active /\ Handle(s, Post(Work(s), "ACCEPT", f.pid))
      \/ RequestConsidered(s, f, w) /\ UNCHANGED <<sent, got>>
      \/ /\ chan[s].active /\ nextPid \in Pid
         /\ RequestConsidered(s, f, b) /\ UNCHANGED <<sent, got>>
  BY <1>4 DEF HandleRequest, RequestReplayed, Mint
<1>6. /\ c \in Channel /\ Sound(c) /\ c.active = chan[s].active
      /\ Calm(c, chan[s], {}) /\ SameQueue(c, chan[s])
  BY <1>3, RegisteredType DEF Channel, Calm, SameQueue
<1> HIDE DEF c
<1>7. u \in WorkOK /\ u.ch = c /\ u.out = Work(s).out /\ u.id = Work(s).id
  BY <1>3, <1>6, WriteDoes DEF WorkOK
<1> HIDE DEF u
<1>8. Gentle(u, Work(s), {})
  BY <1>3, <1>6, <1>7, WriteGentle
<1>9. /\ w \in WorkOK /\ Sound(w.ch) /\ ~w.ch.active /\ Gentle(w, u, {})
  BY <1>6, <1>7, FinalizeCloseType, FinalizeCloseGentle DEF Sound
<1>10. chan[s].active => Idle(w.ch) /\ w.ch.scheduled = NoRequest
  BY <1>6, <1>7, ClosedIsIdle
<1> HIDE DEF w, f
<1>11. Gentle(w, Work(s), {})
  BY <1>3, <1>8, <1>9, GentleOn
<1>12. CASE Handle(s, Work(s))
  BY <1>2, <1>12, DroppedQuietly
<1>13. CASE chan[s].active /\ Handle(s, Post(Work(s), "ACCEPT", f.pid))
  <2>1. Gentle(Post(Work(s), "ACCEPT", f.pid), Work(s), Askers(s))
    BY <1>2, <1>3, <1>13, PostGentle, GentleMore DEF Kinds, ProcessFrame, Roles, Idle
  <2>2. QED
    BY <1>2, <1>13, <2>1, HandledQuietly
<1>14. CASE RequestConsidered(s, f, w) /\ UNCHANGED <<sent, got>>
  BY <1>2, <1>9, <1>11, <1>14, RequestConsideredSteps, GentleMore
<1>15. CASE /\ chan[s].active /\ nextPid \in Pid
            /\ RequestConsidered(s, f, b) /\ UNCHANGED <<sent, got>>
  <2>1. Sound(b.ch) /\ ~b.ch.active
    BY <1>9, <1>10, <1>15, BeginRequestType
  <2>2. Gentle(b, w, {})
    BY <1>9, <1>15, BeginRequestGentle
  <2> HIDE DEF b
  <2>3. Gentle(b, Work(s), Askers(s))
    BY <1>3, <1>11, <2>2, GentleOn, GentleMore
  <2>4. QED
    BY <1>2, <1>15, <2>1, <2>3, RequestConsideredSteps
<1>16. QED
  BY <1>5, <1>12, <1>13, <1>14, <1>15

\* A session opens: what Activate makes of a channel without one.
LEMMA ActivateOpens ==
  ASSUME NEW w \in WorkOK, NEW i \in Id, NEW F, i \in {w.ch.awaiting.from} \cup F,
         ~w.ch.active, w.ch.ready
  PROVE  /\ Activate(w, i) \in WorkOK /\ Activate(w, i).id = w.id
         /\ Activate(w, i).out = w.out /\ Activate(w, i).ch.queue = w.ch.queue
         /\ Opens(Activate(w, i).ch, w.ch, F)
<1> DEFINE u == [w EXCEPT !.ch = Opened(w.ch, i)]
           v == EndAttempt(u, "open")
<1>1. w.ch \in Channel
  BY DEF WorkOK
<1>2. Opened(w.ch, i) \in Channel
  BY <1>1, OpenedChannel
<1>3. u \in WorkOK /\ u.ch = Opened(w.ch, i) /\ u.out = w.out /\ u.id = w.id
  BY <1>2, WriteDoes DEF WorkOK
<1>4. Activate(w, i) = v
  BY DEF Activate, Opened
<1>5. Opens(Opened(w.ch, i), w.ch, F) /\ Opened(w.ch, i).queue = w.ch.queue
  BY <1>1, NullIsNone DEF Opened, Channel, Opens, NoRequest
<1> HIDE DEF u
<1>6. /\ v \in WorkOK /\ v.out = u.out /\ Gentle(v, u, {}) /\ v.ch.queue = u.ch.queue
      /\ v.ch.ready = u.ch.ready /\ v.ch.active = u.ch.active /\ v.ch.peerId = u.ch.peerId
      /\ v.ch.awaiting = u.ch.awaiting /\ v.ch.scheduled = u.ch.scheduled
  BY <1>3, EndAttemptDoes, EndAttemptGentle DEF Outcome, Gentle, SameQueue
<1> HIDE DEF v
<1>7. Opens(v.ch, w.ch, F)
  BY <1>3, <1>5, <1>6 DEF Opens
<1>8. QED
  BY <1>3, <1>4, <1>5, <1>6, <1>7 DEF Gentle, Speaks

LEMMA HandleAcceptSteps ==
  ASSUME RInv, NEW s \in Side, HandleAccept(s)
  PROVE  QuietStep(s) \/ OpenStep(s)
<1> DEFINE f == Head(net[s])
           a == Activate(Work(s), f.from)
           o == Post(a, "OPEN", f.pid)
           w == Untrack(Flush(o), f.pid)
           b == AbandonRequest(Work(s))
           e == Post(b, "CANCEL", f.pid)
           x == DenyOnce(e, f.pid)
           expected == ~chan[s].active /\ chan[s].pending = f.pid
<1>1. Arriving(s, "ACCEPT")
  BY DEF HandleAccept, Expects
<1>2. /\ Up(s) /\ net[s] # << >> /\ f.pid \in Pid /\ f.from \in Id /\ f.from \in Askers(s)
  BY <1>1, ArrivingContext DEF ProcessFrame, Asking
<1>3. /\ Work(s) \in WorkOK /\ Work(s).ch = chan[s] /\ Sound(chan[s]) /\ Roles(chan[s])
  BY <1>2, StepContext
<1>4. \/ Handle(s, Post(Work(s), "OPEN", f.pid))
      \/ expected /\ Handle(s, w)
      \/ expected /\ Handle(s, x)
      \/ Handle(s, Work(s))
  BY DEF HandleAccept, Expects
<1> HIDE DEF f
<1>5. CASE Handle(s, Post(Work(s), "OPEN", f.pid))
  <2>1. Gentle(Post(Work(s), "OPEN", f.pid), Work(s), Askers(s))
    BY <1>2, <1>3, PostGentle, GentleMore DEF Kinds, ProcessFrame
  <2>2. QED
    BY <1>2, <1>5, <2>1, HandledQuietly
<1>6. CASE expected /\ Handle(s, w)
  <2>1. chan[s].ready /\ ~chan[s].active
    BY <1>2, <1>3, <1>6, NullIsNone DEF Roles, Idle
  <2>2. /\ a \in WorkOK /\ a.id = Work(s).id /\ a.out = Work(s).out
        /\ a.ch.queue = chan[s].queue /\ Opens(a.ch, chan[s], Askers(s))
    BY <1>2, <1>3, <2>1, ActivateOpens
  <2> HIDE DEF a
  <2>3. /\ o \in WorkOK /\ o.ch = a.ch /\ Gentle(o, a, {})
    BY <1>2, <2>2, PostGentle DEF Kinds, ProcessFrame, Gentle
  <2> HIDE DEF o
  <2>4. Speaks(o, Work(s), {})
    BY <2>2, <2>3 DEF Gentle, Speaks
  <2>5. Flush(o) \in WorkOK
    BY <2>3, FlushDoes
  <2>6. w \in WorkOK /\ Gentle(w, Flush(o), {})
    BY <2>5, UntrackGentle DEF Gentle
  <2> HIDE DEF w
  <2>7. Commits(s, w) /\ UNCHANGED <<sent, got>>
    BY <1>2, <1>6 DEF Commits, Handle
  <2>8. QED
    BY <1>2, <2>2, <2>3, <2>4, <2>6, <2>7 DEF OpenStep
<1>7. CASE expected /\ Handle(s, x)
  <2>1. Gentle(b, Work(s), {}) /\ b \in WorkOK
    BY <1>3, AbandonGentle DEF Gentle
  <2> HIDE DEF b
  <2>2. Gentle(e, b, {}) /\ e \in WorkOK
    BY <1>2, <2>1, PostGentle DEF Kinds, ProcessFrame, Gentle
  <2> HIDE DEF e
  <2>3. Gentle(x, e, {})
    BY <1>2, <2>2, DenyOnceGentle
  <2> HIDE DEF x
  <2>4. Gentle(x, Work(s), Askers(s))
    BY <1>3, <2>1, <2>2, <2>3, GentleOn, GentleMore
  <2>5. QED
    BY <1>2, <1>7, <2>4, HandledQuietly
<1>8. CASE Handle(s, Work(s))
  BY <1>2, <1>8, DroppedQuietly
<1>9. QED
  BY <1>4, <1>5, <1>6, <1>7, <1>8

LEMMA HandleOpenSteps ==
  ASSUME RInv, NEW s \in Side, HandleOpen(s)
  PROVE  QuietStep(s) \/ OpenStep(s)
<1> DEFINE f == Head(net[s])
           i == chan[s].awaiting.from
           u == Untrack(Work(s), f.pid)
           a == Activate(u, i)
           w == Flush(a)
<1>1. Arriving(s, "OPEN")
  BY DEF HandleOpen
<1>2. /\ Up(s) /\ net[s] # << >> /\ f.pid \in Pid
  BY <1>1, ArrivingContext DEF ProcessFrame
<1>3. /\ Work(s) \in WorkOK /\ Work(s).ch = chan[s] /\ Roles(chan[s]) /\ chan[s] \in Channel
  BY <1>2, StepContext
<1>4. \/ Handle(s, Work(s))
      \/ chan[s].awaiting.pid = f.pid /\ Handle(s, w)
      \/ Handle(s, u)
  BY DEF HandleOpen
<1> HIDE DEF f
<1>5. u \in WorkOK /\ u.ch = chan[s] /\ Gentle(u, Work(s), {})
  BY <1>3, UntrackGentle DEF Gentle
<1> HIDE DEF u
<1>6. CASE Handle(s, Work(s))
  BY <1>2, <1>6, DroppedQuietly
<1>7. CASE chan[s].awaiting.pid = f.pid /\ Handle(s, w)
  <2>1. chan[s].awaiting # NoRequest
    BY <1>2, <1>7, NullIsNone DEF NoRequest
  <2>2. i \in Id
    BY <1>3, <2>1 DEF Channel, Request
  <2>3. chan[s].ready /\ ~chan[s].active
    BY <1>3, <2>1 DEF Roles, Idle
  <2>4. /\ a \in WorkOK /\ a.id = u.id /\ a.out = u.out
        /\ a.ch.queue = chan[s].queue /\ Opens(a.ch, chan[s], Askers(s))
    BY <1>5, <2>2, <2>3, ActivateOpens
  <2> HIDE DEF a
  <2>5. Speaks(a, Work(s), {})
    <3>1. /\ Work(s).out \in Seq(Frame) /\ u.out \in Seq(Frame)
      BY <1>3, <1>5 DEF WorkOK
    <3>2. Kinds(u.ch) \subseteq Kinds(a.ch)
      BY <2>4 DEF Kinds, Opens
    <3>3. QED
      BY <1>5, <2>4, <3>1, <3>2 DEF Gentle, Speaks
  <2>6. w \in WorkOK /\ Gentle(w, w, {})
    BY <2>4, FlushDoes, GentleStarts
  <2>7. Commits(s, w) /\ UNCHANGED <<sent, got>>
    BY <1>2, <1>7 DEF Commits, Handle
  <2>8. QED
    BY <1>2, <2>4, <2>5, <2>6, <2>7 DEF OpenStep
<1>8. CASE Handle(s, u)
  BY <1>2, <1>5, <1>8, HandledQuietly, GentleMore
<1>9. QED
  BY <1>4, <1>6, <1>7, <1>8

LEMMA HandleDenySteps ==
  ASSUME RInv, NEW s \in Side, HandleDeny(s)
  PROVE  QuietStep(s)
<1> DEFINE f == Head(net[s])
           b == AbandonRequest(Work(s))
           u == Untrack(b, f.pid)
           v == EndAttempt(u, "deny")
<1>1. Arriving(s, "DENY")
  BY DEF HandleDeny
<1>2. Up(s) /\ net[s] # << >>
  BY <1>1, ArrivingContext
<1>3. Work(s) \in WorkOK /\ Work(s).ch = chan[s] /\ Sound(chan[s])
  BY <1>2, StepContext
<1>4. Handle(s, v) \/ Handle(s, Untrack(Work(s), f.pid))
  BY DEF HandleDeny
<1>5. Gentle(b, Work(s), {}) /\ b \in WorkOK
  BY <1>3, AbandonGentle DEF Gentle
<1> HIDE DEF b
<1>6. Gentle(u, b, {}) /\ u \in WorkOK
  BY <1>5, UntrackGentle DEF Gentle
<1> HIDE DEF u
<1>7. Gentle(v, u, {})
  BY <1>6, EndAttemptGentle DEF Outcome
<1> HIDE DEF v
<1>8. Gentle(v, Work(s), Askers(s))
  BY <1>3, <1>5, <1>6, <1>7, GentleOn, GentleMore
<1>9. Gentle(Untrack(Work(s), f.pid), Work(s), Askers(s))
  BY <1>3, UntrackGentle, GentleMore
<1>10. QED
  BY <1>2, <1>4, <1>8, <1>9, HandledQuietly

\* An orphan answers with its own pin, and the channel stays as it was.
LEMMA OrphanGentle ==
  ASSUME NEW w \in WorkOK, NEW o \in Orphan, NEW p \in Pid
  PROVE  LET v == Post([w EXCEPT !.ch.origin = o.origin], "CANCEL_ACK", p)
         IN  Gentle(Untrack([v EXCEPT !.ch = w.ch], p), w, {})
<1> DEFINE c == [w.ch EXCEPT !.origin = o.origin]
           u == [w EXCEPT !.ch = c]
           v == Post(u, "CANCEL_ACK", p)
           x == [v EXCEPT !.ch = w.ch]
<1>1. [w EXCEPT !.ch.origin = o.origin] = u
  OBVIOUS
<1>2. w.ch \in Channel /\ o.origin \in Origin \cup {null}
  BY DEF WorkOK, Orphan
<1>3. c \in Channel /\ c.ready = w.ch.ready
  BY <1>2 DEF Channel
<1> HIDE DEF c
<1>4. u \in WorkOK /\ u.ch = c /\ u.out = w.out /\ u.id = w.id
  BY <1>3, WriteDoes DEF WorkOK
<1> HIDE DEF u
<1>5. v \in WorkOK /\ v.ch = c /\ Gentle(v, u, {})
  BY <1>4, PostGentle DEF Kinds, ProcessFrame, Gentle
<1> HIDE DEF v
<1>6. x \in WorkOK /\ x.ch = w.ch /\ x.out = v.out /\ x.id = v.id
  BY <1>2, <1>5, WriteDoes DEF WorkOK
<1> HIDE DEF x
<1>7. Speaks(x, w, {})
  BY <1>3, <1>4, <1>5, <1>6 DEF Gentle, Speaks, Kinds
<1>8. Gentle(x, w, {})
  BY <1>6, <1>7 DEF Gentle, Calm, SameQueue
<1>9. Gentle(Untrack(x, p), x, {})
  BY <1>6, UntrackGentle
<1>10. QED
  BY <1>1, <1>8, <1>9, GentleOn DEF x, v

LEMMA HandleCancelSteps ==
  ASSUME RInv, NEW s \in Side, HandleCancel(s)
  PROVE  QuietStep(s)
<1> DEFINE f == Head(net[s])
           c == chan[s]
           e == IF c.active THEN FinalizeClose(Work(s)) ELSE AbortAttempt(Work(s))
           k == Post(e, "CANCEL_ACK", f.pid)
           w == Untrack(k, f.pid)
           x(o) == Untrack([Post([Work(s) EXCEPT !.ch.origin = o.origin], "CANCEL_ACK", f.pid)
                              EXCEPT !.ch = c], f.pid)
<1>1. Arriving(s, "CANCEL")
  BY DEF HandleCancel
<1>2. Up(s) /\ net[s] # << >> /\ f.pid \in Pid
  BY <1>1, ArrivingContext DEF ProcessFrame
<1>3. /\ Work(s) \in WorkOK /\ Work(s).ch = c /\ Sound(c) /\ Roles(c) /\ OneClose(c)
  BY <1>2, StepContext
<1>4. \/ Handle(s, w)
      \/ \E o \in OrphanOf(s, f) : Handle(s, x(o))
      \/ Handle(s, Work(s))
  BY DEF HandleCancel
<1> HIDE DEF f
<1>5. CASE Handle(s, w)
  <2>1. Gentle(e, Work(s), {}) /\ e \in WorkOK
    BY <1>3, FinalizeCloseGentle, AbortAttemptGentle DEF Gentle
  <2> HIDE DEF e
  <2>2. Gentle(k, e, {}) /\ k \in WorkOK
    BY <1>2, <2>1, PostGentle DEF Kinds, ProcessFrame, Gentle
  <2> HIDE DEF k
  <2>3. Gentle(w, k, {})
    BY <2>2, UntrackGentle
  <2>4. Gentle(w, Work(s), Askers(s))
    BY <1>3, <2>1, <2>2, <2>3, GentleOn, GentleMore
  <2>5. QED
    BY <1>2, <1>5, <2>4, HandledQuietly
<1>6. CASE \E o \in OrphanOf(s, f) : Handle(s, x(o))
  <2>1. PICK o \in OrphanOf(s, f) : Handle(s, x(o))
    BY <1>6
  <2>2. o \in Orphan
    BY DEF OrphanOf, RInv, IInv, TypeOK
  <2>3. Gentle(x(o), Work(s), {})
    BY <1>2, <1>3, <2>2, OrphanGentle
  <2> HIDE DEF x
  <2>4. QED
    BY <1>2, <2>1, <2>3, HandledQuietly, GentleMore
<1>7. CASE Handle(s, Work(s))
  BY <1>2, <1>7, DroppedQuietly
<1>8. QED
  BY <1>4, <1>5, <1>6, <1>7

LEMMA HandleCancelAcknowledgedSteps ==
  ASSUME RInv, NEW s \in Side, HandleCancelAcknowledged(s)
  PROVE  QuietStep(s)
<1> DEFINE p == Head(net[s]).pid
<1>1. Arriving(s, "CANCEL_ACK") /\ Handle(s, Untrack(Work(s), p))
  BY DEF HandleCancelAcknowledged
<1>2. Up(s) /\ net[s] # << >>
  BY <1>1, ArrivingContext
<1>3. Gentle(Untrack(Work(s), p), Work(s), Askers(s))
  BY <1>2, StepContext, UntrackGentle, GentleMore
<1>4. QED
  BY <1>1, <1>2, <1>3, HandledQuietly

LEMMA HandleCloseAcknowledgedSteps ==
  ASSUME RInv, NEW s \in Side, HandleCloseAcknowledged(s)
  PROVE  QuietStep(s)
<1>1. /\ Arriving(s, "CLOSE_ACK")
      /\ Handle(s, FinalizeClose(Work(s))) \/ Handle(s, Work(s))
  BY DEF HandleCloseAcknowledged
<1>2. Up(s) /\ net[s] # << >>
  BY <1>1, ArrivingContext
<1>3. Gentle(FinalizeClose(Work(s)), Work(s), Askers(s))
  BY <1>2, StepContext, FinalizeCloseGentle, GentleMore
<1>4. QED
  BY <1>1, <1>2, <1>3, HandledQuietly, DroppedQuietly

LEMMA HandleDestroySteps ==
  ASSUME RInv, NEW s \in Side, HandleDestroy(s)
  PROVE  QuietStep(s) \/ DestroyStep(s)
<1>1. /\ Arriving(s, "DESTROY")
      /\ Handle(s, Destroy(Work(s), FALSE)) \/ Handle(s, Work(s))
  BY DEF HandleDestroy
<1>2. Up(s) /\ net[s] # << >>
  BY <1>1, ArrivingContext
<1>3. CASE Handle(s, Destroy(Work(s), FALSE))
  BY <1>1, <1>2, <1>3 DEF Arriving, Handle, DestroyStep, Commits
<1>4. CASE Handle(s, Work(s))
  BY <1>2, <1>4, DroppedQuietly
<1>5. QED
  BY <1>1, <1>3, <1>4

LEMMA HandleMessageSteps ==
  ASSUME RInv, NEW s \in Side, HandleMessage(s)
  PROVE  HearStep(s)
<1>1. Up(s) /\ net[s] # << >>
  BY ArrivingContext DEF HandleMessage
<1>2. QED
  BY <1>1 DEF HandleMessage, HearStep, Arriving

\* A CLOSE ends the session, once the subscribers of 'closing' have had it.
LEMMA HandleCloseSteps ==
  ASSUME RInv, NEW s \in Side, HandleClose(s)
  PROVE  QuietStep(s) \/ SayStep(s)
<1> DEFINE f == Head(net[s])
           c == chan[s]
           told == IF c.closing = null THEN [Work(s) EXCEPT !.ch.closings = @ + 1] ELSE Work(s)
           n == Upcoming(s)
           last == PostMessages(told, <<n>>)
           ended(w) == FinalizeClose(Untrack(Post(w, "CLOSE_ACK", f.pid), f.pid))
<1>1. Arriving(s, "CLOSE")
  BY DEF HandleClose
<1>2. Up(s) /\ net[s] # << >> /\ f.pid \in Pid
  BY <1>1, ArrivingContext DEF ProcessFrame
<1>3. /\ Work(s) \in WorkOK /\ Work(s).ch = c /\ Sound(c) /\ Roles(c) /\ OneClose(c)
      /\ c \in Channel
  BY <1>2, StepContext
<1>4. n \in Nat /\ (sent' = [sent EXCEPT ![s] = n] => sent'[s] = n)
  BY DEF RInv, IInv, TypeOK, Upcoming
<1>5. \/ c.active /\ Handle(s, ended(told))
      \/ /\ c.active /\ c.closing = null
         /\ sent' = [sent EXCEPT ![s] = n] /\ got' = got
         /\ Commit(s, ended(last), Tail(net[s]))
      \/ Handle(s, Work(s))
  BY <1>4 DEF HandleClose, Upcoming
<1> HIDE DEF f, n
<1>6. ASSUME c.active
      PROVE  /\ told \in WorkOK /\ Roles(told.ch) /\ OneClose(told.ch)
             /\ Gentle(told, Work(s), {}) /\ told.out = Work(s).out
  <2>1. CASE c.closing # null
    BY <1>3, <2>1, GentleStarts
  <2>2. CASE c.closing = null
    <3> DEFINE d == [c EXCEPT !.closings = @ + 1]
    <3>1. d \in Channel /\ Roles(d) /\ OneClose(d)
      BY <1>3, <1>6, <2>2, ToldType
    <3>2. told = [Work(s) EXCEPT !.ch = d]
      BY <1>3, <2>2
    <3>3. Calm(d, c, {}) /\ SameQueue(d, c)
      BY <1>3 DEF Channel, Calm, SameQueue
    <3> HIDE DEF d, told
    <3>4. told \in WorkOK /\ told.ch = d /\ told.out = Work(s).out /\ told.id = Work(s).id
      BY <1>3, <3>1, <3>2, WriteDoes DEF WorkOK
    <3>5. QED
      BY <1>3, <3>1, <3>3, <3>4, WriteGentle
  <2>3. QED
    BY <2>1, <2>2
<1> HIDE DEF told
<1>7. ASSUME NEW w \in WorkOK, Roles(w.ch), OneClose(w.ch)
      PROVE  ended(w) \in WorkOK /\ Gentle(ended(w), w, {})
  <2> DEFINE k == Post(w, "CLOSE_ACK", f.pid)
             u == Untrack(k, f.pid)
  <2>1. k \in WorkOK /\ k.ch = w.ch /\ Gentle(k, w, {})
    BY <1>2, PostGentle DEF Kinds, ProcessFrame, Gentle
  <2> HIDE DEF k
  <2>2. u \in WorkOK /\ u.ch = w.ch /\ Gentle(u, k, {})
    BY <2>1, UntrackGentle DEF Gentle
  <2> HIDE DEF u
  <2>3. Gentle(FinalizeClose(u), u, {})
    BY <1>7, <2>2, FinalizeCloseGentle
  <2>4. Gentle(FinalizeClose(u), w, {})
    BY <2>1, <2>2, <2>3, GentleOn
  <2>5. QED
    BY <2>4 DEF Gentle, u, k
<1>8. ASSUME c.active
      PROVE  last \in WorkOK /\ last.ch = told.ch
  <2>1. <<n>> \in Seq(Nat)
    BY <1>4
  <2>2. QED
    BY <1>6, <1>8, <2>1, PostMessagesDoes
<1>9. ASSUME c.active
      PROVE  /\ ended(told) \in WorkOK /\ Gentle(ended(told), told, {})
             /\ ended(last) \in WorkOK /\ Gentle(ended(last), last, {})
  <2>1. told \in WorkOK /\ Roles(told.ch) /\ OneClose(told.ch)
    BY <1>6, <1>9
  <2>2. last \in WorkOK /\ Roles(last.ch) /\ OneClose(last.ch)
    BY <1>8, <1>9, <2>1
  <2> HIDE DEF ended, last
  <2>3. QED
    BY <1>7, <2>1, <2>2
<1> HIDE DEF ended
<1>10. CASE c.active /\ Handle(s, ended(told))
  <2>1. Gentle(ended(told), Work(s), Askers(s))
    BY <1>3, <1>6, <1>9, <1>10, GentleOn, GentleMore
  <2>2. QED
    BY <1>2, <1>10, <2>1, HandledQuietly
<1>11. CASE /\ c.active /\ c.closing = null
            /\ sent' = [sent EXCEPT ![s] = n] /\ got' = got
            /\ Commit(s, ended(last), Tail(net[s]))
  <2>1. Commits(s, ended(last))
    BY <1>2, <1>11 DEF Commits
  <2>2. QED
    BY <1>2, <1>6, <1>9, <1>11, <2>1 DEF SayStep, n
<1>12. CASE Handle(s, Work(s))
  BY <1>2, <1>12, DroppedQuietly
<1>13. QED
  BY <1>5, <1>10, <1>11, <1>12

LEMMA StepKinds ==
  ASSUME RInv, NEW s \in Side, Call(s) \/ Tick(s) \/ Deliver(s)
  PROVE  \/ Boot(s) \/ Unload(s) \/ AddChannel(s) \/ QuietStep(s) \/ OpenStep(s)
         \/ SayStep(s) \/ QueueStep(s) \/ HearStep(s) \/ DestroyStep(s)
<1>1. CASE Call(s)
  BY <1>1, ConnectRequestSteps, ConnectAnswerSteps, DisconnectSteps, FinalizeSteps,
     CancelSteps, DestroyCallSteps, SendSteps DEF Call
<1>2. CASE Tick(s)
  BY <1>2, RetrySteps, ExpireSteps, FinalizeSteps DEF Tick
<1>3. CASE Deliver(s)
  BY <1>3, HandleRequestSteps, HandleAcceptSteps, HandleOpenSteps, HandleDenySteps,
     HandleCancelSteps, HandleCancelAcknowledgedSteps, HandleCloseSteps,
     HandleCloseAcknowledgedSteps, HandleDestroySteps, HandleMessageSteps DEF Deliver
<1>4. QED
  BY <1>1, <1>2, <1>3

-----------------------------------------------------------------------------
(* Messages arrive in order, and once.                                     *)

\* What was heard, and what is in flight behind it, is in order for each sender.
Wired(q) == \A i, j \in DOMAIN q :
  /\ i < j /\ q[i].type = "MESSAGE" /\ q[j].type = "MESSAGE" /\ q[i].from = q[j].from
  => q[i].msg < q[j].msg

GotInOrder(g) == \A i, j \in DOMAIN g :
  i < j /\ g[i].from = g[j].from => g[i].msg < g[j].msg

Ahead(g, q) == \A i \in DOMAIN g, j \in DOMAIN q :
  q[j].type = "MESSAGE" /\ g[i].from = q[j].from => g[i].msg < q[j].msg

\* Message m was sent, and before what waits in the queue.
Before(m, c, n) == m <= n /\ \A k \in DOMAIN c.queue : m < c.queue[k]

\* The queue of a channel whose page has sent n messages.
Queued(c, n) ==
  /\ \A i, j \in DOMAIN c.queue : i < j => c.queue[i] < c.queue[j]
  /\ \A i \in DOMAIN c.queue : c.queue[i] <= n
  /\ c.active /\ c.closing = null => c.queue = << >>

\* g was heard and q is in flight from a window: i is its page, c its channel
\* and n what it has sent.
Ordered(g, q, i, c, n) ==
  /\ Wired(q) /\ GotInOrder(g) /\ Ahead(g, q)
  /\ \A k \in DOMAIN q : q[k].type = "MESSAGE" /\ q[k].from = i => Before(q[k].msg, c, n)
  /\ \A k \in DOMAIN g : g[k].from = i => Before(g[k].msg, c, n)
  /\ Queued(c, n)

\* Only pages that were loaded have spoken.
Known(g, q, i, ids) ==
  /\ i \in ids \cup {null}
  /\ \A k \in DOMAIN q : q[k].from \in ids
  /\ \A k \in DOMAIN g : g[k].from \in ids

OrderedTo(s) ==
  LET t == Other(s)
  IN  /\ Ordered(got[t], net[t], broker[s], chan[s], sent[s])
      /\ Known(got[t], net[t], broker[s], used)

Order == \A s \in Side : OrderedTo(s)

Heard == [from : Id, msg : Nat]

LEMMA ConcatOf ==
  ASSUME NEW S, NEW p \in Seq(S), NEW q \in Seq(S)
  PROVE  /\ p \o q \in Seq(S) /\ Len(p) \in Nat
         /\ \A k \in DOMAIN p : k \in DOMAIN (p \o q) /\ (p \o q)[k] = p[k]
         /\ \A k \in DOMAIN (p \o q) :
              \/ k \in DOMAIN p /\ (p \o q)[k] = p[k]
              \/ k - Len(p) \in DOMAIN q /\ (p \o q)[k] = q[k - Len(p)]
<1> DEFINE r == p \o q
<1>1. /\ Len(p) \in Nat /\ Len(q) \in Nat /\ r \in Seq(S)
      /\ DOMAIN p = 1 .. Len(p) /\ DOMAIN q = 1 .. Len(q)
      /\ DOMAIN r = 1 .. (Len(p) + Len(q))
      /\ \A k \in 1 .. Len(p) : r[k] = p[k]
      /\ \A k \in (Len(p) + 1) .. (Len(p) + Len(q)) : r[k] = q[k - Len(p)]
  OBVIOUS
<1> HIDE DEF r
<1>2. \A k \in DOMAIN r :
        \/ k \in 1 .. Len(p)
        \/ k \in (Len(p) + 1) .. (Len(p) + Len(q)) /\ k - Len(p) \in DOMAIN q
  BY <1>1
<1>3. \A k \in DOMAIN p : k \in DOMAIN r
  BY <1>1
<1>4. QED
  BY <1>1, <1>2, <1>3 DEF r

\* The oldest frame is dropped, or heard.
LEMMA HeardInOrder ==
  ASSUME NEW g \in Seq(Heard), NEW q \in Seq(Frame), q # << >>, NEW i, NEW c, NEW n,
         Ordered(g, q, i, c, n),
         NEW h, \/ h = g
                \/ /\ Head(q).type = "MESSAGE"
                   /\ h = Append(g, [from |-> Head(q).from, msg |-> Head(q).msg])
  PROVE  Ordered(h, Tail(q), i, c, n)
<1>1. /\ Len(q) \in Nat \ {0} /\ Len(Tail(q)) = Len(q) - 1
      /\ \A k \in DOMAIN Tail(q) : k \in 1 .. (Len(q) - 1) /\ Tail(q)[k] = q[k + 1]
  OBVIOUS
<1>2. \A k \in 1 .. (Len(q) - 1) : k + 1 \in DOMAIN q /\ k + 1 > 1
  BY <1>1
<1>3. Wired(Tail(q))
  BY <1>1, <1>2 DEF Ordered, Wired
<1>4. \A k \in DOMAIN Tail(q) :
        Tail(q)[k].type = "MESSAGE" /\ Tail(q)[k].from = i => Before(Tail(q)[k].msg, c, n)
  BY <1>1, <1>2 DEF Ordered
<1>5. CASE h = g
  <2>1. Ahead(g, Tail(q))
    BY <1>1, <1>2 DEF Ordered, Ahead
  <2>2. QED
    BY <1>3, <1>4, <1>5, <2>1 DEF Ordered
<1>6. CASE /\ Head(q).type = "MESSAGE"
           /\ h = Append(g, [from |-> Head(q).from, msg |-> Head(q).msg])
  <2> DEFINE m == [from |-> Head(q).from, msg |-> Head(q).msg]
  <2>1. /\ 1 \in DOMAIN q /\ Head(q) = q[1]
        /\ q[1].type = "MESSAGE" /\ m.from = q[1].from /\ m.msg = q[1].msg
    BY <1>1, <1>6
  <2> HIDE DEF m
  <2>2. /\ Len(g) \in Nat /\ DOMAIN h = 1 .. (Len(g) + 1)
        /\ h[Len(g) + 1] = m
        /\ \A k \in 1 .. Len(g) : k \in DOMAIN g /\ h[k] = g[k]
    BY <1>6 DEF m
  <2>3. \A k \in DOMAIN h : k \in 1 .. Len(g) \/ k = Len(g) + 1
    BY <2>2
  <2>4. \A k \in DOMAIN g : g[k].from = m.from => g[k].msg < m.msg
    BY <2>1 DEF Ordered, Ahead
  <2>5. \A k \in DOMAIN Tail(q) :
          Tail(q)[k].type = "MESSAGE" /\ Tail(q)[k].from = m.from => m.msg < Tail(q)[k].msg
    BY <1>1, <1>2, <2>1 DEF Ordered, Wired
  <2>6. Ahead(g, Tail(q)) /\ GotInOrder(g)
    BY <1>1, <1>2 DEF Ordered, Ahead
  <2>7. GotInOrder(h)
    <3>1. SUFFICES ASSUME NEW x \in DOMAIN h, NEW y \in DOMAIN h, x < y, h[x].from = h[y].from
                   PROVE  h[x].msg < h[y].msg
      BY DEF GotInOrder
    <3>2. x \in 1 .. Len(g)
      BY <2>2, <3>1
    <3>3. CASE y \in 1 .. Len(g)
      BY <2>2, <2>6, <3>1, <3>2, <3>3 DEF GotInOrder
    <3>4. CASE y = Len(g) + 1
      BY <2>2, <2>4, <3>1, <3>2, <3>4
    <3>5. QED
      BY <2>3, <3>3, <3>4
  <2>8. Ahead(h, Tail(q))
    BY <2>2, <2>3, <2>5, <2>6 DEF Ahead
  <2>9. \A k \in DOMAIN h : h[k].from = i => Before(h[k].msg, c, n)
    BY <2>1, <2>2, <2>3 DEF Ordered
  <2>10. QED
    BY <1>3, <1>4, <2>7, <2>8, <2>9 DEF Ordered
<1>7. QED
  BY <1>5, <1>6

\* o posts, as messages, those of msgs and no other.
Tells(o, i, msgs) ==
  \E h \in Nat : \A k \in DOMAIN o :
    /\ o[k].from = i
    /\ o[k].type = "MESSAGE" => k - h \in DOMAIN msgs /\ o[k].msg = msgs[k - h]

\* x waited in the queue of c, or is sent only now.
Unsaid(x, c, n) == x > n \/ \E j \in DOMAIN c.queue : x = c.queue[j]

\* The page goes on to have sent m messages, msgs posted and the queue of d left.
Says(msgs, c, n, d, m) ==
  /\ n <= m /\ Queued(d, m)
  /\ \A k \in DOMAIN msgs : Unsaid(msgs[k], c, n) /\ Before(msgs[k], d, m)
  /\ \A k \in DOMAIN d.queue : Unsaid(d.queue[k], c, n)
  /\ \A j, k \in DOMAIN msgs : j < k => msgs[j] < msgs[k]

LEMMA BeforeUnsaid ==
  ASSUME NEW c \in Channel, NEW n \in Nat, NEW x \in Nat, NEW y \in Nat,
         Before(x, c, n), Unsaid(y, c, n)
  PROVE  x < y
<1>1. c.queue \in Seq(Nat)
  BY DEF Channel
<1>2. QED
  BY <1>1 DEF Before, Unsaid

LEMMA StillBefore ==
  ASSUME NEW c \in Channel, NEW d \in Channel, NEW n \in Nat, NEW m \in Nat, NEW msgs,
         NEW x \in Nat, Before(x, c, n), Says(msgs, c, n, d, m)
  PROVE  Before(x, d, m)
<1>1. d.queue \in Seq(Nat)
  BY DEF Channel
<1>2. \A k \in DOMAIN d.queue : d.queue[k] \in Nat
  BY <1>1
<1>3. x <= m
  BY DEF Before, Says
<1>4. QED
  BY <1>2, <1>3, BeforeUnsaid DEF Before, Says

LEMMA SaidInOrder ==
  ASSUME NEW g \in Seq(Heard), NEW q \in Seq(Frame), NEW o \in Seq(Frame), NEW i,
         NEW c \in Channel, NEW d \in Channel, NEW n \in Nat, NEW m \in Nat,
         NEW msgs \in Seq(Nat),
         Ordered(g, q, i, c, n), Tells(o, i, msgs), Says(msgs, c, n, d, m)
  PROVE  Ordered(g, q \o o, i, d, m)
<1> DEFINE r == q \o o
<1>1. /\ Len(q) \in Nat /\ Len(o) \in Nat
      /\ DOMAIN q = 1 .. Len(q) /\ DOMAIN o = 1 .. Len(o)
      /\ DOMAIN r = 1 .. (Len(q) + Len(o))
      /\ \A k \in 1 .. Len(q) : r[k] = q[k]
      /\ \A k \in (Len(q) + 1) .. (Len(q) + Len(o)) : r[k] = o[k - Len(q)]
  OBVIOUS
<1>2. /\ \A k \in DOMAIN q : q[k].msg \in Nat
      /\ \A k \in DOMAIN o : o[k].msg \in Nat
      /\ \A k \in DOMAIN g : g[k].msg \in Nat
  <2>1. \A f \in Frame : f.msg \in Nat
    BY DEF Frame
  <2>2. \A f \in Heard : f.msg \in Nat
    BY DEF Heard
  <2> HIDE DEF r
  <2>3. QED
    BY <2>1, <2>2
<1>3. ASSUME NEW k \in DOMAIN r
      PROVE  \/ k \in DOMAIN q /\ r[k] = q[k]
             \/ /\ k - Len(q) \in DOMAIN o /\ r[k] = o[k - Len(q)] /\ k > Len(q)
                /\ r[k].from = i
  <2>1. CASE k <= Len(q)
    BY <1>1, <1>3, <2>1
  <2>2. CASE k > Len(q)
    BY <1>1, <1>3, <2>2 DEF Tells
  <2>3. QED
    BY <1>1, <1>3, <2>1, <2>2
<1>4. PICK h \in Nat : \A k \in DOMAIN o :
        o[k].type = "MESSAGE" => k - h \in DOMAIN msgs /\ o[k].msg = msgs[k - h]
  BY DEF Tells
<1>5. \A k \in DOMAIN o : o[k].type = "MESSAGE" => Unsaid(o[k].msg, c, n) /\ Before(o[k].msg, d, m)
  BY <1>4 DEF Says
<1>6. \A j, k \in DOMAIN o :
        j < k /\ o[j].type = "MESSAGE" /\ o[k].type = "MESSAGE" => o[j].msg < o[k].msg
  <2>1. SUFFICES ASSUME NEW j \in DOMAIN o, NEW k \in DOMAIN o, j < k,
                        o[j].type = "MESSAGE", o[k].type = "MESSAGE"
                 PROVE  o[j].msg < o[k].msg
    OBVIOUS
  <2>2. j - h < k - h
    BY <1>1, <1>4, <2>1
  <2>3. QED
    BY <1>4, <2>1, <2>2 DEF Says
<1> HIDE DEF r
<1>7. Wired(r)
  <2>1. SUFFICES ASSUME NEW j \in DOMAIN r, NEW k \in DOMAIN r, j < k,
                        r[j].type = "MESSAGE", r[k].type = "MESSAGE", r[j].from = r[k].from
                 PROVE  r[j].msg < r[k].msg
    BY DEF Wired
  <2>2. CASE k \in DOMAIN q /\ r[k] = q[k]
    <3>1. j \in DOMAIN q /\ r[j] = q[j]
      BY <1>1, <2>1, <2>2
    <3>2. QED
      BY <2>1, <2>2, <3>1 DEF Ordered, Wired
  <2>3. CASE k - Len(q) \in DOMAIN o /\ r[k] = o[k - Len(q)] /\ k > Len(q) /\ r[k].from = i
    <3>1. CASE j \in DOMAIN q /\ r[j] = q[j]
      <4>1. Before(r[j].msg, c, n)
        BY <2>1, <2>3, <3>1 DEF Ordered
      <4>2. Unsaid(r[k].msg, c, n)
        BY <1>5, <2>1, <2>3
      <4>3. QED
        BY <1>2, <2>3, <3>1, <4>1, <4>2, BeforeUnsaid
    <3>2. CASE j - Len(q) \in DOMAIN o /\ r[j] = o[j - Len(q)]
      <4>1. j - Len(q) < k - Len(q)
        BY <1>1, <2>1
      <4>2. QED
        BY <1>6, <2>1, <2>3, <3>2, <4>1
    <3>3. QED
      BY <1>3, <3>1, <3>2
  <2>4. QED
    BY <1>3, <2>2, <2>3
<1>8. Ahead(g, r)
  <2>1. SUFFICES ASSUME NEW j \in DOMAIN g, NEW k \in DOMAIN r,
                        r[k].type = "MESSAGE", g[j].from = r[k].from
                 PROVE  g[j].msg < r[k].msg
    BY DEF Ahead
  <2>2. CASE k \in DOMAIN q /\ r[k] = q[k]
    BY <2>1, <2>2 DEF Ordered, Ahead
  <2>3. CASE k - Len(q) \in DOMAIN o /\ r[k] = o[k - Len(q)] /\ r[k].from = i
    <3>1. Before(g[j].msg, c, n)
      BY <2>1, <2>3 DEF Ordered
    <3>2. Unsaid(r[k].msg, c, n)
      BY <1>5, <2>1, <2>3
    <3>3. QED
      BY <1>2, <2>3, <3>1, <3>2, BeforeUnsaid
  <2>4. QED
    BY <1>3, <2>2, <2>3
<1>9. \A k \in DOMAIN r : r[k].type = "MESSAGE" /\ r[k].from = i => Before(r[k].msg, d, m)
  <2>1. SUFFICES ASSUME NEW k \in DOMAIN r, r[k].type = "MESSAGE", r[k].from = i
                 PROVE  Before(r[k].msg, d, m)
    OBVIOUS
  <2>2. CASE k \in DOMAIN q /\ r[k] = q[k]
    <3>1. Before(q[k].msg, c, n)
      BY <2>1, <2>2 DEF Ordered
    <3>2. QED
      BY <1>2, <2>2, <3>1, StillBefore
  <2>3. CASE k - Len(q) \in DOMAIN o /\ r[k] = o[k - Len(q)]
    BY <1>5, <2>1, <2>3
  <2>4. QED
    BY <1>3, <2>2, <2>3
<1>10. \A k \in DOMAIN g : g[k].from = i => Before(g[k].msg, d, m)
  BY <1>2, StillBefore DEF Ordered
<1>11. QED
  BY <1>7, <1>8, <1>9, <1>10 DEF Ordered, Says, r

\* What a page without messages to say posts.
LEMMA QuietTells ==
  ASSUME NEW w \in WorkOK, NEW u, u.out = << >>, Speaks(w, u, {})
  PROVE  Tells(w.out, u.id, << >>)
<1>1. w.out \in Seq(Frame) /\ DOMAIN w.out = 1 .. Len(w.out) /\ Len(u.out) = 0
  BY DEF WorkOK
<1>2. \A k \in DOMAIN w.out : w.out[k].from = u.id /\ w.out[k].type \in ProcessFrame
  BY <1>1 DEF Speaks, Kinds
<1>3. QED
  BY <1>2 DEF Tells, ProcessFrame

\* And what it posts around its messages.
LEMMA PostedTells ==
  ASSUME NEW v \in WorkOK, NEW w \in WorkOK, NEW u, u.out = << >>, Speaks(v, u, {}),
         NEW msgs \in Seq(Nat), Speaks(w, PostMessages(v, msgs), {})
  PROVE  Tells(w.out, u.id, msgs)
<1> DEFINE p == PostMessages(v, msgs)
           fs == [i \in 1 .. Len(msgs) |->
                    [type |-> "MESSAGE", from |-> v.id, pid |-> null, msg |-> msgs[i]]]
<1>1. /\ v.out \in Seq(Frame) /\ w.out \in Seq(Frame) /\ Len(u.out) = 0
      /\ Len(v.out) \in Nat /\ Len(w.out) \in Nat /\ Len(msgs) \in Nat
      /\ DOMAIN v.out = 1 .. Len(v.out) /\ DOMAIN w.out = 1 .. Len(w.out)
      /\ DOMAIN msgs = 1 .. Len(msgs)
  BY DEF WorkOK
<1>2. p \in WorkOK
  BY PostMessagesDoes
<1>3. p.out \in Seq(Frame) /\ Len(p.out) \in Nat /\ DOMAIN p.out = 1 .. Len(p.out)
  BY <1>2 DEF WorkOK
<1>4. p.id = v.id /\ (p.out = v.out \o fs \/ p.out = v.out)
  BY DEF PostMessages, WorkOK
<1>5. /\ v.id = u.id
      /\ \A k \in DOMAIN v.out : v.out[k].from = u.id /\ v.out[k].type \in ProcessFrame
  BY <1>1 DEF Speaks, Kinds
<1>6. ASSUME NEW k \in DOMAIN p.out
      PROVE  /\ p.out[k].from = u.id
             /\ p.out[k].type = "MESSAGE" =>
                  k - Len(v.out) \in DOMAIN msgs /\ p.out[k].msg = msgs[k - Len(v.out)]
  <2>1. CASE p.out = v.out
    BY <1>5, <1>6, <2>1 DEF ProcessFrame
  <2>2. CASE p.out = v.out \o fs
    <3>1. Len(fs) = Len(msgs) /\ fs \in Seq(Frame)
      <4>1. \A i \in 1 .. Len(msgs) : fs[i] \in Frame
        BY DEF Frame, PlainFrame, WorkOK
      <4>2. fs \in Seq(Frame)
        BY <1>1, <4>1
      <4> HIDE DEF fs
      <4>3. DOMAIN fs = 1 .. Len(msgs)
        BY DEF fs
      <4>4. QED
        BY <1>1, <4>2, <4>3
    <3>2. DOMAIN fs = DOMAIN msgs
      BY <1>1
    <3>3. \A i \in DOMAIN msgs : fs[i].from = u.id /\ fs[i].msg = msgs[i]
      BY <1>1, <1>5
    <3> HIDE DEF fs, p
    <3>4. \/ k \in DOMAIN v.out /\ p.out[k] = v.out[k]
          \/ k - Len(v.out) \in DOMAIN fs /\ p.out[k] = fs[k - Len(v.out)]
      BY <1>1, <1>6, <2>2, <3>1, ConcatOf
    <3>5. QED
      BY <1>5, <3>2, <3>3, <3>4 DEF ProcessFrame
  <2>3. QED
    BY <1>4, <2>1, <2>2
<1> HIDE DEF p
<1>7. /\ Len(p.out) <= Len(w.out)
      /\ \A k \in 1 .. Len(p.out) : w.out[k] = p.out[k]
      /\ \A k \in (Len(p.out) + 1) .. Len(w.out) :
           w.out[k].from = u.id /\ w.out[k].type \in ProcessFrame
  BY <1>4, <1>5 DEF Speaks, Kinds, p
<1>8. ASSUME NEW k \in DOMAIN w.out
      PROVE  /\ w.out[k].from = u.id
             /\ w.out[k].type = "MESSAGE" =>
                  k - Len(v.out) \in DOMAIN msgs /\ w.out[k].msg = msgs[k - Len(v.out)]
  <2>1. CASE k \in 1 .. Len(p.out)
    BY <1>3, <1>6, <1>7, <2>1
  <2>2. CASE k \in (Len(p.out) + 1) .. Len(w.out)
    BY <1>7, <2>2 DEF ProcessFrame
  <2>3. QED
    BY <1>1, <1>3, <1>7, <2>1, <2>2
<1>9. QED
  BY <1>1, <1>8 DEF Tells

LEMMA KnownOn ==
  ASSUME NEW g, NEW q \in Seq(Frame), NEW o \in Seq(Frame), NEW i, NEW ids,
         Known(g, q, i, ids), \A k \in DOMAIN o : o[k].from \in ids
  PROVE  Known(g, q \o o, i, ids)
BY ConcatOf DEF Known

LEMMA KnownHeard ==
  ASSUME NEW g \in Seq(Heard), NEW q \in Seq(Frame), NEW i, NEW ids, Known(g, q, i, ids),
         NEW h, NEW rest,
         \/ h = g /\ rest = q
         \/ /\ q # << >> /\ rest = Tail(q)
            /\ \/ h = g
               \/ h = Append(g, [from |-> Head(q).from, msg |-> Head(q).msg])
  PROVE  Known(h, rest, i, ids)
<1>1. CASE h = g /\ rest = q
  BY <1>1
<1>2. CASE q # << >> /\ rest = Tail(q)
  <2>1. /\ Head(q) = q[1] /\ 1 \in DOMAIN q
        /\ \A k \in DOMAIN rest : k + 1 \in DOMAIN q /\ rest[k] = q[k + 1]
    BY <1>2
  <2>2. \A k \in DOMAIN rest : rest[k].from \in ids
    BY <2>1 DEF Known
  <2>3. CASE h = Append(g, [from |-> Head(q).from, msg |-> Head(q).msg])
    <3> DEFINE m == [from |-> Head(q).from, msg |-> Head(q).msg]
    <3>1. m.from \in ids
      BY <2>1 DEF Known
    <3> HIDE DEF m
    <3>2. \A k \in DOMAIN h : (k \in DOMAIN g /\ h[k] = g[k]) \/ h[k] = m
      BY <2>3 DEF m
    <3>3. QED
      BY <2>2, <3>1, <3>2 DEF Known
  <2>4. QED
    BY <1>2, <2>2, <2>3 DEF Known
<1>3. QED
  BY <1>1, <1>2

\* A page's step, and what it makes of the order in both directions.
LEMMA CommitOrders ==
  ASSUME RInv, Order, NEW s \in Side, Up(s), NEW w \in WorkOK,
         NEW msgs \in Seq(Nat), Tells(w.out, broker[s], msgs),
         NEW m \in Nat, Says(msgs, chan[s], sent[s], w.ch, m),
         sent' = [sent EXCEPT ![s] = m],
         NEW h, got' = [got EXCEPT ![s] = h],
         NEW rest, Commit(s, w, rest),
         \/ h = got[s] /\ rest = net[s]
         \/ /\ net[s] # << >> /\ rest = Tail(net[s])
            /\ \/ h = got[s]
               \/ /\ Head(net[s]).type = "MESSAGE"
                  /\ h = Append(got[s], [from |-> Head(net[s]).from, msg |-> Head(net[s]).msg])
  PROVE  Order'
<1> DEFINE t == Other(s)
<1>1. /\ t \in Side /\ t # s /\ Other(t) = s /\ \A u \in Side : u = s \/ u = t
  <2>1. t \in Side /\ t # s
    BY OtherSide
  <2> HIDE DEF t
  <2>2. Other(t) \in Side /\ Other(t) # t
    BY <2>1, OtherSide
  <2>3. QED
    BY <2>1, <2>2, SidesAssumption
<1>2. /\ net \in [Side -> Seq(Frame)] /\ got \in [Side -> Seq(Heard)]
      /\ chan \in [Side -> Channel] /\ sent \in [Side -> Nat]
      /\ broker \in [Side -> Id \cup {null}] /\ used \subseteq Id
  BY DEF RInv, IInv, TypeOK, Heard
<1>3. w.out \in Seq(Frame) /\ w.ch \in Channel
  BY DEF WorkOK
<1> HIDE DEF t
<1>4. /\ net'[s] = rest /\ net'[t] = net[t] \o w.out
      /\ chan'[s] = w.ch /\ chan'[t] = chan[t]
      /\ sent'[s] = m /\ sent'[t] = sent[t] /\ got'[s] = h /\ got'[t] = got[t]
      /\ broker' = broker /\ used' = used
  BY <1>1, <1>2 DEF Commit, t
<1>5. /\ Ordered(got[t], net[t], broker[s], chan[s], sent[s]) /\ Known(got[t], net[t], broker[s], used)
      /\ Ordered(got[s], net[s], broker[t], chan[t], sent[t]) /\ Known(got[s], net[s], broker[t], used)
  BY <1>1 DEF Order, OrderedTo, t
<1>6. /\ net[t] \in Seq(Frame) /\ got[t] \in Seq(Heard) /\ net[s] \in Seq(Frame)
      /\ got[s] \in Seq(Heard) /\ chan[s] \in Channel /\ sent[s] \in Nat
  BY <1>1, <1>2
<1>7. Ordered(got[t], net[t] \o w.out, broker[s], w.ch, m)
  BY <1>3, <1>5, <1>6, SaidInOrder
<1>8. Known(got[t], net[t] \o w.out, broker[s], used)
  <2>1. \A k \in DOMAIN w.out : w.out[k].from \in used
    BY <1>5 DEF Tells, Known, Up
  <2>2. QED
    BY <1>3, <1>5, <1>6, <2>1, KnownOn
<1>9. Ordered(h, rest, broker[t], chan[t], sent[t])
  BY <1>5, <1>6, HeardInOrder
<1>10. Known(h, rest, broker[t], used)
  BY <1>5, <1>6, KnownHeard
<1>11. OrderedTo(s)'
  <2>1. Ordered(got'[t], net'[t], broker'[s], chan'[s], sent'[s])
    BY <1>4, <1>7
  <2>2. Known(got'[t], net'[t], broker'[s], used')
    BY <1>4, <1>8
  <2>3. QED
    BY <2>1, <2>2 DEF OrderedTo, t
<1>12. OrderedTo(t)'
  <2>1. Ordered(got'[s], net'[s], broker'[t], chan'[t], sent'[t])
    BY <1>4, <1>9
  <2>2. Known(got'[s], net'[s], broker'[t], used')
    BY <1>4, <1>10
  <2>3. QED
    BY <1>1, <2>1, <2>2 DEF OrderedTo
<1>13. QED
  BY <1>1, <1>11, <1>12 DEF Order

LEMMA InitOrders == Init => Order
<1> SUFFICES ASSUME Init, NEW s \in Side
             PROVE  OrderedTo(s)
  BY DEF Order
<1> DEFINE c == NewChannel(FALSE)
           t == Other(s)
<1>1. t \in Side
  BY OtherSide
<1>2. c.queue = << >>
  BY DEF NewChannel
<1> HIDE DEF c, t
<1>3. /\ got[t] = << >> /\ net[t] = << >> /\ broker[s] = null /\ chan[s] = c
      /\ sent[s] = 0 /\ used = {}
  BY <1>1 DEF Init, c
<1>4. Ordered(<< >>, << >>, null, c, 0)
  BY <1>2 DEF Ordered, Wired, GotInOrder, Ahead, Queued
<1>5. Known(<< >>, << >>, null, {})
  BY DEF Known
<1>6. QED
  BY <1>3, <1>4, <1>5 DEF OrderedTo, t

LEMMA SaysNothing ==
  ASSUME NEW c \in Channel, NEW d \in Channel, NEW n \in Nat, Queued(c, n),
         \/ SameQueue(d, c)
         \/ d.queue = << >>
  PROVE  Says(<< >>, c, n, d, n)
<1>1. c.queue \in Seq(Nat) /\ d.queue \in Seq(Nat)
  BY DEF Channel
<1>2. CASE SameQueue(d, c)
  BY <1>1, <1>2 DEF SameQueue, Says, Queued, Unsaid
<1>3. CASE d.queue = << >>
  BY <1>1, <1>3 DEF Says, Queued
<1>4. QED
  BY <1>2, <1>3

\* What page s has sent and its queue, as the invariant has them.
LEMMA OrderContext ==
  ASSUME RInv, Order, NEW s \in Side, Up(s)
  PROVE  /\ Queued(chan[s], sent[s]) /\ sent[s] \in Nat /\ chan[s] \in Channel
         /\ chan[s].queue \in Seq(Nat)
         /\ sent = [sent EXCEPT ![s] = sent[s]] /\ got = [got EXCEPT ![s] = got[s]]
         /\ Work(s) \in WorkOK /\ Work(s).out = << >> /\ Work(s).id = broker[s]
         /\ Work(s).ch = chan[s] /\ << >> \in Seq(Nat)
<1>1. /\ chan[s] \in Channel /\ sent \in [Side -> Nat]
      /\ got \in [Side -> Seq([from : Id, msg : Nat])]
  BY DEF RInv, IInv, TypeOK
<1>2. chan[s].queue \in Seq(Nat) /\ << >> \in Seq(Nat)
  BY <1>1 DEF Channel
<1>3. sent = [sent EXCEPT ![s] = sent[s]]
  BY <1>1
<1>4. got = [got EXCEPT ![s] = got[s]]
  BY <1>1
<1>5. Queued(chan[s], sent[s])
  BY DEF Order, OrderedTo, Ordered
<1>6. QED
  BY <1>1, <1>2, <1>3, <1>4, <1>5, StepContext

\* A step that tells msgs, nothing being heard.
LEMMA TellingOrders ==
  ASSUME RInv, Order, NEW s \in Side, Up(s), NEW w \in WorkOK,
         NEW msgs \in Seq(Nat), Tells(w.out, broker[s], msgs),
         NEW m \in Nat, Says(msgs, chan[s], sent[s], w.ch, m),
         sent' = [sent EXCEPT ![s] = m], got' = got, Commits(s, w)
  PROVE  Order'
<1>1. PICK rest : /\ Commit(s, w, rest)
                  /\ rest = net[s] \/ (net[s] # << >> /\ rest = Tail(net[s]))
  BY DEF Commits
<1>2. got' = [got EXCEPT ![s] = got[s]]
  BY OrderContext
<1>3. QED
  BY <1>1, <1>2, CommitOrders

LEMMA QuietOrders ==
  ASSUME RInv, Order, NEW s \in Side, QuietStep(s)
  PROVE  Order'
<1>1. PICK w \in WorkOK : Gentle(w, Work(s), Askers(s)) /\ Commits(s, w)
  BY DEF QuietStep
<1>2. Up(s) /\ sent' = sent /\ got' = got
  BY DEF QuietStep
<1>3. Tells(w.out, broker[s], << >>)
  BY <1>1, <1>2, OrderContext, QuietTells DEF Gentle
<1>4. Says(<< >>, chan[s], sent[s], w.ch, sent[s])
  BY <1>1, <1>2, OrderContext, SaysNothing DEF Gentle, WorkOK
<1>5. QED
  BY <1>1, <1>2, <1>3, <1>4, OrderContext, TellingOrders

LEMMA OpenOrders ==
  ASSUME RInv, Order, NEW s \in Side, OpenStep(s)
  PROVE  Order'
<1>1. PICK v, w \in WorkOK :
        /\ Speaks(v, Work(s), {}) /\ v.ch.queue = chan[s].queue
        /\ Gentle(w, Flush(v), {}) /\ Commits(s, w)
  BY DEF OpenStep
<1>2. Up(s) /\ sent' = sent /\ got' = got
  BY DEF OpenStep
<1> DEFINE q == chan[s].queue
           c == [v.ch EXCEPT !.queue = << >>]
           u == [v EXCEPT !.ch = c]
<1>3. v.ch \in Channel /\ q \in Seq(Nat)
  BY <1>2, OrderContext DEF WorkOK
<1>4. c \in Channel /\ c.ready = v.ch.ready /\ c.queue = << >>
  <2>1. << >> \in Seq(Nat)
    OBVIOUS
  <2>2. QED
    BY <1>3, <2>1, QueueWrite DEF Channel
<1>5. [v EXCEPT !.ch.queue = << >>] = u
  OBVIOUS
<1> HIDE DEF c
<1>6. u \in WorkOK /\ u.ch = c /\ u.out = v.out /\ u.id = v.id
  BY <1>4, WriteDoes DEF WorkOK
<1>7. Flush(v) = PostMessages(u, q)
  BY <1>1, <1>5 DEF Flush
<1> HIDE DEF u, q
<1>8. Speaks(u, Work(s), {})
  BY <1>1, <1>4, <1>6 DEF Speaks, Kinds
<1>9. Tells(w.out, broker[s], q)
  BY <1>1, <1>2, <1>3, <1>6, <1>7, <1>8, OrderContext, PostedTells DEF Gentle
<1>10. w.ch.queue = << >>
  BY <1>1, <1>3, <1>4, <1>6, <1>7, PostMessagesDoes DEF Gentle, SameQueue
<1>11. Says(q, chan[s], sent[s], w.ch, sent[s])
  BY <1>2, <1>3, <1>10, OrderContext DEF Says, Queued, Unsaid, Before, q
<1>12. QED
  BY <1>1, <1>2, <1>3, <1>9, <1>11, OrderContext, TellingOrders

LEMMA SayOrders ==
  ASSUME RInv, Order, NEW s \in Side, SayStep(s)
  PROVE  Order'
<1> DEFINE n == Upcoming(s)
           msgs == <<n>>
<1>1. PICK v, w \in WorkOK :
        /\ Gentle(v, Work(s), {})
        /\ Gentle(w, PostMessages(v, msgs), {}) /\ Commits(s, w)
  BY DEF SayStep
<1>2. /\ Up(s) /\ sent' = [sent EXCEPT ![s] = n] /\ got' = got
      /\ chan[s].active /\ chan[s].closing = null
  BY DEF SayStep
<1>3. chan[s].queue = << >>
  BY <1>2, OrderContext DEF Queued
<1>4. n \in Nat /\ n = sent[s] + 1
  BY <1>2, OrderContext DEF Upcoming
<1> HIDE DEF n
<1>5. msgs \in Seq(Nat) /\ DOMAIN msgs = {1} /\ msgs[1] = n
  BY <1>4
<1> HIDE DEF msgs
<1>6. Tells(w.out, broker[s], msgs)
  BY <1>1, <1>2, <1>5, OrderContext, PostedTells DEF Gentle
<1>7. w.ch.queue = << >>
  BY <1>1, <1>2, <1>3, <1>5, OrderContext, PostMessagesDoes DEF Gentle, SameQueue
<1>8. Says(msgs, chan[s], sent[s], w.ch, n)
  BY <1>2, <1>4, <1>5, <1>7, OrderContext DEF Says, Queued, Unsaid, Before
<1>9. QED
  BY <1>1, <1>2, <1>4, <1>5, <1>6, <1>8, TellingOrders

LEMMA QueueOrders ==
  ASSUME RInv, Order, NEW s \in Side, QueueStep(s)
  PROVE  Order'
<1> DEFINE n == Upcoming(s)
           q == Append(chan[s].queue, n)
           c == [chan[s] EXCEPT !.queue = q]
           w == [Work(s) EXCEPT !.ch = c]
<1>1. /\ Up(s) /\ sent' = [sent EXCEPT ![s] = n] /\ got' = got
      /\ ~(chan[s].active /\ chan[s].closing = null)
      /\ Commits(s, [Work(s) EXCEPT !.ch.queue = Append(@, n)])
  BY DEF QueueStep
<1>2. n \in Nat /\ n = sent[s] + 1 /\ sent[s] \in Nat
  BY <1>1, OrderContext DEF Upcoming
<1>3. [Work(s) EXCEPT !.ch.queue = Append(@, n)] = w
  BY <1>1, OrderContext
<1> HIDE DEF n
<1>4. q \in Seq(Nat)
  BY <1>1, <1>2, OrderContext
<1>5. /\ c \in Channel /\ c.queue = q /\ c.active = chan[s].active
      /\ c.closing = chan[s].closing
  BY <1>1, <1>4, OrderContext, QueueWrite DEF Channel
<1> HIDE DEF c
<1>6. w \in WorkOK /\ w.ch = c /\ w.out = << >>
  BY <1>1, <1>5, OrderContext, WriteDoes
<1> HIDE DEF w
<1>7. Tells(w.out, broker[s], << >>)
  BY <1>6 DEF Tells
<1>8. Says(<< >>, chan[s], sent[s], w.ch, n)
  <2> DEFINE p == chan[s].queue
  <2>1. p \in Seq(Nat) /\ Queued(chan[s], sent[s])
    BY <1>1, OrderContext
  <2>2. /\ \A k \in DOMAIN q : (k \in DOMAIN p /\ q[k] = p[k]) \/ q[k] = n
        /\ \A j, k \in DOMAIN q : j < k => j \in DOMAIN p /\ q[j] = p[j]
    BY <1>2, <2>1
  <2>3. \A k \in DOMAIN p : p[k] <= sent[s] /\ p[k] \in Nat
    BY <2>1 DEF Queued
  <2> HIDE DEF q, p
  <2>4. \A k \in DOMAIN q : Unsaid(q[k], chan[s], sent[s]) /\ q[k] <= n
    BY <1>2, <2>2, <2>3 DEF Unsaid, p
  <2>5. \A j, k \in DOMAIN q : j < k => q[j] < q[k]
    BY <1>2, <2>1, <2>2, <2>3 DEF Queued, p
  <2>6. Queued(w.ch, n)
    BY <1>1, <1>5, <1>6, <2>4, <2>5 DEF Queued
  <2>7. QED
    BY <1>2, <1>5, <1>6, <2>4, <2>6 DEF Says
<1>9. Commits(s, w)
  BY <1>1, <1>3
<1>10. << >> \in Seq(Nat)
  OBVIOUS
<1>11. QED
  BY <1>1, <1>2, <1>6, <1>7, <1>8, <1>9, <1>10, TellingOrders

LEMMA HearOrders ==
  ASSUME RInv, Order, NEW s \in Side, HearStep(s)
  PROVE  Order'
<1>1. /\ Up(s) /\ net[s] # << >> /\ Commit(s, Work(s), Tail(net[s])) /\ sent' = sent
  BY DEF HearStep
<1>2. PICK h : /\ got' = [got EXCEPT ![s] = h]
               /\ \/ h = got[s]
                  \/ /\ Head(net[s]).type = "MESSAGE"
                     /\ h = Append(got[s], [from |-> Head(net[s]).from,
                                            msg |-> Head(net[s]).msg])
  BY <1>1, OrderContext DEF HearStep
<1>3. Tells(Work(s).out, broker[s], << >>)
  BY <1>1, OrderContext DEF Tells
<1>4. Says(<< >>, chan[s], sent[s], Work(s).ch, sent[s])
  BY <1>1, OrderContext, SaysNothing DEF SameQueue
<1>5. sent' = [sent EXCEPT ![s] = sent[s]]
  BY <1>1, OrderContext
<1>6. Work(s) \in WorkOK /\ << >> \in Seq(Nat) /\ sent[s] \in Nat
  BY <1>1, OrderContext
<1>7. QED
  BY <1>1, <1>2, <1>3, <1>4, <1>5, <1>6, CommitOrders

LEMMA DestroyOrders ==
  ASSUME RInv, Order, NEW s \in Side, DestroyStep(s)
  PROVE  Order'
<1>1. PICK notify \in BOOLEAN : Commits(s, Destroy(Work(s), notify))
  BY DEF DestroyStep
<1>2. Up(s) /\ sent' = sent /\ got' = got
  BY DEF DestroyStep
<1> DEFINE w == Destroy(Work(s), notify)
           f == [type |-> "DESTROY", from |-> Work(s).id, pid |-> null, msg |-> 0]
<1>3. Work(s) \in WorkOK
  BY <1>2, OrderContext
<1>4. w \in WorkOK /\ w.ch = NewChannel(FALSE)
  BY <1>3, DestroyDoes
<1>5. w.out = Work(s).out \/ w.out = Append(Work(s).out, f)
  BY <1>2, OrderContext DEF Destroy, Post, WorkOK
<1>6. \A k \in DOMAIN w.out : w.out[k] = f
  BY <1>2, <1>5, OrderContext
<1>7. f.from = broker[s] /\ f.type # "MESSAGE"
  BY <1>2, OrderContext
<1> HIDE DEF w, f
<1>8. Tells(w.out, broker[s], << >>)
  BY <1>6, <1>7 DEF Tells
<1>9. Says(<< >>, chan[s], sent[s], w.ch, sent[s])
  <2>1. w.ch \in Channel
    BY <1>4 DEF WorkOK
  <2>2. w.ch.queue = << >>
    BY <1>4 DEF NewChannel
  <2>3. QED
    BY <1>2, <2>1, <2>2, OrderContext, SaysNothing
<1>10. QED
  BY <1>1, <1>2, <1>8, <1>9, <1>4, OrderContext, TellingOrders DEF w

-----------------------------------------------------------------------------
(* Pages come and go.                                                      *)

LEMMA AddOrders ==
  ASSUME RInv, Order, NEW s \in Side, AddChannel(s)
  PROVE  Order'
<1>1. chan' = [chan EXCEPT ![s].registered = TRUE]
  BY DEF AddChannel
<1>2. UNCHANGED <<broker, used, sent, got, net>>
  BY DEF AddChannel
<1>3. chan \in [Side -> Channel]
  BY DEF RInv, IInv, TypeOK
<1>4. \A u \in Side : /\ chan'[u].queue = chan[u].queue /\ chan'[u].active = chan[u].active
                      /\ chan'[u].closing = chan[u].closing
  BY <1>1, <1>3 DEF Channel
<1>5. ASSUME NEW u \in Side
      PROVE  OrderedTo(u)'
  <2> DEFINE t == Other(u)
  <2>1. Ordered(got[t], net[t], broker[u], chan'[u], sent[u])
    BY <1>4 DEF Order, OrderedTo, Ordered, Before, Queued
  <2>2. Known(got[t], net[t], broker[u], used)
    BY DEF Order, OrderedTo
  <2>3. QED
    BY <1>2, <2>1, <2>2 DEF OrderedTo
<1>6. QED
  BY <1>5 DEF Order

LEMMA BootOrders ==
  ASSUME RInv, Order, NEW s \in Side, Boot(s)
  PROVE  Order'
<1>1. PICK i \in Id \ used : broker' = [broker EXCEPT ![s] = i] /\ used' = used \cup {i}
  BY DEF Boot
<1>2. UNCHANGED <<chan, sent, got, net>>
  BY DEF Boot, page
<1>3. broker \in [Side -> Id \cup {null}]
  BY DEF RInv, IInv, TypeOK
<1>4. ASSUME NEW u \in Side
      PROVE  OrderedTo(u)'
  <2> DEFINE t == Other(u)
  <2>1. /\ Ordered(got[t], net[t], broker[u], chan[u], sent[u])
        /\ Known(got[t], net[t], broker[u], used)
    BY DEF Order, OrderedTo
  <2>2. broker'[u] = i \/ broker'[u] = broker[u]
    BY <1>1, <1>3
  <2>3. Ordered(got[t], net[t], broker'[u], chan[u], sent[u])
    BY <1>1, <2>1, <2>2 DEF Ordered, Known
  <2>4. Known(got[t], net[t], broker'[u], used')
    BY <1>1, <2>1, <2>2 DEF Known
  <2>5. QED
    BY <1>2, <2>3, <2>4 DEF OrderedTo
<1>5. QED
  BY <1>4 DEF Order

LEMMA UnloadOrders ==
  ASSUME RInv, Order, NEW s \in Side, Unload(s)
  PROVE  Order'
<1> DEFINE t == Other(s)
           c == NewChannel(FALSE)
<1>1. /\ t \in Side /\ t # s /\ Other(t) = s /\ \A u \in Side : u = s \/ u = t
  <2>1. t \in Side /\ t # s
    BY OtherSide
  <2> HIDE DEF t
  <2>2. Other(t) \in Side /\ Other(t) # t
    BY <2>1, OtherSide
  <2>3. QED
    BY <2>1, <2>2, SidesAssumption
<1>2. /\ broker \in [Side -> Id \cup {null}] /\ used \subseteq Id
      /\ chan \in [Side -> Channel] /\ sent \in [Side -> Nat]
      /\ got \in [Side -> Seq(Heard)] /\ net \in [Side -> Seq(Frame)]
  BY DEF RInv, IInv, TypeOK, Heard
<1> HIDE DEF t
<1>3. /\ broker'[s] = null /\ broker'[t] = broker[t] /\ chan'[s] = c /\ chan'[t] = chan[t]
      /\ sent'[s] = 0 /\ sent'[t] = sent[t] /\ got'[s] = << >> /\ got'[t] = got[t]
      /\ net'[s] = << >> /\ net'[t] = net[t] /\ used' = used
  BY <1>1, <1>2 DEF Unload
<1>4. /\ Ordered(got[t], net[t], broker[s], chan[s], sent[s]) /\ Known(got[t], net[t], broker[s], used)
      /\ Ordered(got[s], net[s], broker[t], chan[t], sent[t]) /\ Known(got[s], net[s], broker[t], used)
  BY <1>1 DEF Order, OrderedTo, t
<1>5. null \notin used
  BY <1>2, NullIsNone
<1>6. c.queue = << >>
  BY DEF NewChannel
<1> HIDE DEF c
<1>7. Ordered(got[t], net[t], null, c, 0)
  BY <1>4, <1>5, <1>6 DEF Ordered, Known, Queued
<1>8. Known(got[t], net[t], null, used)
  BY <1>4 DEF Known
<1>9. Ordered(<< >>, << >>, broker[t], chan[t], sent[t])
  BY <1>4 DEF Ordered, Wired, GotInOrder, Ahead
<1>10. Known(<< >>, << >>, broker[t], used)
  BY <1>4 DEF Known
<1>11. OrderedTo(s)'
  BY <1>3, <1>7, <1>8 DEF OrderedTo, t
<1>12. OrderedTo(t)'
  BY <1>1, <1>3, <1>9, <1>10 DEF OrderedTo
<1>13. QED
  BY <1>1, <1>11, <1>12 DEF Order

LEMMA NextOrders == RInv /\ Order /\ [Next]_vars => Order'
<1> SUFFICES ASSUME RInv, Order, [Next]_vars
             PROVE  Order'
  OBVIOUS
<1>1. CASE UNCHANGED vars
  BY <1>1 DEF vars, Order, OrderedTo
<1>2. CASE Next
  <2>1. PICK s \in Side : Call(s) \/ Tick(s) \/ Deliver(s)
    BY <1>2 DEF Next
  <2>2. QED
    BY <2>1, StepKinds, BootOrders, UnloadOrders, AddOrders, QuietOrders, OpenOrders,
       SayOrders, QueueOrders, HearOrders, DestroyOrders
<1>3. QED
  BY <1>1, <1>2

\* Messages of one page reach the subscribers of the other in the order they
\* were sent and never twice, whatever is queued, flushed, closed, destroyed or
\* reloaded between: send() posts at once only while nothing is queued, and
\* what a session flushes when it opens is in flight before what follows it.
THEOREM MessagesInOrderOnce == Spec => []InOrderOnce
<1>1. Order => InOrderOnce
  <2>1. ASSUME Order, NEW s \in Side
        PROVE  GotInOrder(got[s])
    <3>1. Other(s) \in Side /\ Other(Other(s)) = s
      <4>1. Other(s) \in Side /\ Other(s) # s
        BY OtherSide
      <4>2. Other(Other(s)) \in Side /\ Other(Other(s)) # Other(s)
        BY <4>1, OtherSide
      <4>3. QED
        BY <4>1, <4>2, SidesAssumption
    <3>2. QED
      BY <2>1, <3>1 DEF Order, OrderedTo, Ordered
  <2>2. QED
    BY <2>1 DEF GotInOrder, InOrderOnce
<1>2. QED
  BY <1>1, InitOrders, NextOrders, RoutingInvariance, PTL DEF Spec

-----------------------------------------------------------------------------
(* The channels implement the abstract session.                            *)

\* A page may be taken for a peer: it was loaded, it is not this one, and if it
\* is still there it has called connect().
Consenting(s, i) ==
  /\ i \in used /\ i # broker[s]
  /\ i = broker[Other(s)] => chan[Other(s)].ready

\* Whom a channel names, and who spoke to it.
MeansConsent(s) ==
  LET c == chan[s]
  IN  /\ c.active => Consenting(s, c.peerId)
      /\ c.awaiting.from # null => Consenting(s, c.awaiting.from)
      /\ c.scheduled.from # null => Consenting(s, c.scheduled.from)

HearsConsent(s) ==
  \A k \in DOMAIN net[s] :
    /\ net[s][k].type # "DESTROY"
    /\ net[s][k].type \in Asking => Consenting(s, net[s][k].from)

Distinct(s) ==
  /\ broker[s] \in used \cup {null}
  /\ Up(s) => broker[s] # broker[Other(s)]

Consents == \A s \in Side : MeansConsent(s) /\ HearsConsent(s) /\ Distinct(s)

LEMMA InitConsents == Init => Consents
<1> SUFFICES ASSUME Init, NEW s \in Side
             PROVE  MeansConsent(s) /\ HearsConsent(s) /\ Distinct(s)
  BY DEF Consents
<1> DEFINE c == NewChannel(FALSE)
<1>1. ~c.active /\ c.awaiting.from = null /\ c.scheduled.from = null
  BY DEF NewChannel, NoRequest
<1> HIDE DEF c
<1>2. chan[s] = c /\ net[s] = << >> /\ broker[s] = null
  BY DEF Init, c
<1>3. QED
  BY <1>1, <1>2 DEF MeansConsent, HearsConsent, Distinct, Up

\* Consent outlives a step of either page that does not destroy its channel.
Lasts == \A s \in Side, i \in Id : Consenting(s, i) => Consenting(s, i)'

LEMMA LastingConsent ==
  ASSUME RInv, NEW p \in Side, Consents, broker' = broker, used' = used,
         chan[p].ready => chan'[p].ready, chan'[Other(p)].ready = chan[Other(p)].ready
  PROVE  Lasts
<1>1. ASSUME NEW s \in Side, NEW i \in Id, Consenting(s, i)
      PROVE  Consenting(s, i)'
  <2>1. Other(s) = p \/ Other(s) = Other(p)
    BY OtherSide, SidesAssumption
  <2>2. chan[Other(s)].ready => chan'[Other(s)].ready
    BY <2>1
  <2>3. QED
    BY <1>1, <2>2 DEF Consenting
<1>2. QED
  BY <1>1 DEF Lasts

\* Nor is a name given that was not given before.
Renames(d, c, F) ==
  /\ d.active => \/ c.active /\ d.peerId = c.peerId
                 \/ ~c.active /\ c.ready /\ d.peerId \in ({c.awaiting.from} \cup F) \ {null}
  /\ d.awaiting.from \in {null, c.awaiting.from, c.scheduled.from} \cup F
  /\ d.scheduled.from \in {null, c.scheduled.from} \cup F

\* A step of page p, as the session has it.
LEMMA ConsentingCommit ==
  ASSUME RInv, Consents, NEW p \in Side, Up(p), NEW w \in WorkOK,
         Speaks(w, Work(p), {"MESSAGE"}), chan[p].ready => w.ch.ready,
         Renames(w.ch, chan[p], Askers(p)), Commits(p, w)
  PROVE  Consents' /\ Lasts
<1> DEFINE t == Other(p)
           c == chan[p]
<1>1. /\ t \in Side /\ t # p /\ Other(t) = p /\ \A u \in Side : u = p \/ u = t
  <2>1. t \in Side /\ t # p
    BY OtherSide
  <2> HIDE DEF t
  <2>2. Other(t) \in Side /\ Other(t) # t
    BY <2>1, OtherSide
  <2>3. QED
    BY <2>1, <2>2, SidesAssumption
<1>2. /\ broker \in [Side -> Id \cup {null}] /\ used \subseteq Id
      /\ chan \in [Side -> Channel] /\ net \in [Side -> Seq(Frame)]
      /\ w.out \in Seq(Frame)
  BY DEF RInv, IInv, TypeOK, WorkOK
<1>3. PICK rest : /\ Commit(p, w, rest)
                  /\ rest = net[p] \/ (net[p] # << >> /\ rest = Tail(net[p]))
  BY DEF Commits
<1> HIDE DEF t
<1>4. /\ chan'[p] = w.ch /\ chan'[t] = chan[t] /\ broker' = broker /\ used' = used
      /\ net'[p] = rest /\ net'[t] = net[t] \o w.out
  BY <1>1, <1>2, <1>3 DEF Commit, t
<1>5. Lasts
  BY <1>1, <1>4, LastingConsent DEF t
<1>6. /\ MeansConsent(p) /\ HearsConsent(p) /\ Distinct(p)
      /\ MeansConsent(t) /\ HearsConsent(t) /\ Distinct(t)
  BY <1>1 DEF Consents
<1>7. Distinct(p)' /\ Distinct(t)'
  BY <1>1, <1>4, <1>6 DEF Distinct, Up, t
<1>8. w.ch \in Channel /\ c \in Channel /\ chan[t] \in Channel
  BY <1>1, <1>2 DEF WorkOK
<1>9. \A i \in Askers(p) : i \in Id /\ Consenting(p, i)
  <2>1. net[p] \in Seq(Frame)
    BY <1>2
  <2>2. \A k \in DOMAIN net[p] : net[p][k].from \in Id
    BY <2>1 DEF Frame
  <2>3. QED
    BY <1>6, <2>2 DEF Askers, HearsConsent
<1>10. \A i : i \in Id /\ Consenting(p, i) => Consenting(p, i)'
  BY <1>5 DEF Lasts
<1>11. MeansConsent(p)'
  <2>1. \A i : Consenting(p, i) => i \in Id
    BY <1>2 DEF Consenting
  <2>2. w.ch.active => Consenting(p, w.ch.peerId)
    BY <1>6, <1>9 DEF Renames, MeansConsent
  <2>3. w.ch.awaiting.from # null => Consenting(p, w.ch.awaiting.from)
    BY <1>6, <1>9 DEF Renames, MeansConsent
  <2>4. w.ch.scheduled.from # null => Consenting(p, w.ch.scheduled.from)
    BY <1>6, <1>9 DEF Renames, MeansConsent
  <2>5. QED
    BY <1>4, <1>10, <2>1, <2>2, <2>3, <2>4 DEF MeansConsent
<1>12. MeansConsent(t)'
  <2>1. \A i : Consenting(t, i) => Consenting(t, i)'
    BY <1>1, <1>2, <1>5 DEF Lasts, Consenting
  <2>2. QED
    BY <1>4, <1>6, <2>1 DEF MeansConsent
<1>13. HearsConsent(p)'
  <2>1. \A k \in DOMAIN rest : \E j \in DOMAIN net[p] : rest[k] = net[p][j]
    <3>1. net[p] \in Seq(Frame)
      BY <1>2
    <3>2. CASE net[p] # << >> /\ rest = Tail(net[p])
      <4>1. \A k \in DOMAIN rest : k + 1 \in DOMAIN net[p] /\ rest[k] = net[p][k + 1]
        BY <3>1, <3>2
      <4>2. QED
        BY <4>1
    <3>3. QED
      BY <1>3, <3>2
  <2>2. \A i : Consenting(p, i) => Consenting(p, i)'
    BY <1>2, <1>5 DEF Lasts, Consenting
  <2>3. QED
    BY <1>4, <1>6, <2>1, <2>2 DEF HearsConsent
<1>14. HearsConsent(t)'
  <2>1. \A i : Consenting(t, i) => Consenting(t, i)'
    BY <1>1, <1>2, <1>5 DEF Lasts, Consenting
  <2>2. Work(p).out = << >> /\ Work(p).id = broker[p]
    BY StepContext
  <2>3. \A k \in DOMAIN w.out : w.out[k].from = broker[p] /\ w.out[k].type \in Kinds(w.ch) \cup {"MESSAGE"}
    <3>1. DOMAIN w.out = 1 .. Len(w.out) /\ Len(Work(p).out) = 0
      BY <1>2, <2>2
    <3>2. QED
      BY <2>2, <3>1 DEF Speaks
  <2>4. w.ch.ready => Consenting(t, broker[p])'
    BY <1>1, <1>4, <1>6 DEF Consenting, Distinct, Up
  <2>5. \A k \in DOMAIN w.out : /\ w.out[k].type # "DESTROY"
                                /\ w.out[k].type \in Asking => Consenting(t, w.out[k].from)'
    BY <2>3, <2>4, <1>4 DEF Kinds, ProcessFrame, Asking, Consenting
  <2>6. net[t] \in Seq(Frame)
    BY <1>1, <1>2
  <2>7. \A k \in DOMAIN net'[t] :
          \/ \E j \in DOMAIN net[t] : net'[t][k] = net[t][j]
          \/ \E j \in DOMAIN w.out : net'[t][k] = w.out[j]
    <3> DEFINE q == net[t]
               o == w.out
               r == q \o o
    <3>1. q \in Seq(Frame) /\ o \in Seq(Frame) /\ net'[t] = r
      BY <1>2, <1>4, <2>6
    <3> HIDE DEF q, o
    <3>2. \A k \in DOMAIN r :
            \/ k \in DOMAIN q /\ r[k] = q[k]
            \/ k - Len(q) \in DOMAIN o /\ r[k] = o[k - Len(q)]
      BY <3>1, ConcatOf
    <3> HIDE DEF r
    <3>3. QED
      BY <3>1, <3>2 DEF q, o
  <2>8. QED
    BY <1>6, <2>1, <2>5, <2>7 DEF HearsConsent
<1>15. QED
  BY <1>1, <1>5, <1>7, <1>11, <1>12, <1>13, <1>14 DEF Consents

\* The peer of a session, as the abstract session has it.
Peer(c) == IF c.active THEN c.peerId ELSE null

\* A step of page p that leaves every other page, and the windows, alone.
LEMMA SessionStep ==
  ASSUME RInv, Consents, NEW p \in Side, Up(p), broker' = broker,
         NEW c \in Channel, chan' = [chan EXCEPT ![p] = c], chan[p].ready => c.ready,
         \/ c.active => chan[p].active /\ c.peerId = chan[p].peerId
         \/ /\ chan[p].ready /\ ~chan[p].active
            /\ c.active /\ Consenting(p, c.peerId)
  PROVE  [Sessions!Next]_(Sessions!vars)
<1> DEFINE willing == [s \in Side |-> chan[s].ready]
           peer == [s \in Side |-> IF chan[s].active THEN chan[s].peerId ELSE null]
           willing2 == [s \in Side |-> chan'[s].ready]
           peer2 == [s \in Side |-> IF chan'[s].active THEN chan'[s].peerId ELSE null]
<1>1. /\ chan \in [Side -> Channel] /\ broker \in [Side -> Id \cup {null}] /\ used \subseteq Id
  BY DEF RInv, IInv, TypeOK
<1>2. chan[p] \in Channel /\ Roles(chan[p])
  BY StepContext
<1>3. willing2 = [willing EXCEPT ![p] = c.ready]
  BY <1>1
<1>4. peer2 = [peer EXCEPT ![p] = Peer(c)]
  BY <1>1 DEF Peer
<1>5. willing[p] = chan[p].ready /\ peer[p] = Peer(chan[p]) /\ willing[Other(p)] = chan[Other(p)].ready
  BY OtherSide DEF Peer
<1>6. chan[p].active => chan[p].peerId \in Id
  BY <1>1 DEF Consents, MeansConsent, Consenting
<1>7. willing \in [Side -> BOOLEAN] /\ DOMAIN peer = Side
  BY <1>1 DEF Channel
<1>8. c.ready \in BOOLEAN
  BY DEF Channel
<1>9. CASE c.ready = chan[p].ready /\ Peer(c) = Peer(chan[p])
  <2>1. willing2 = willing
    BY <1>3, <1>5, <1>7, <1>9
  <2>2. peer2 = peer
    BY <1>4, <1>5, <1>7, <1>9
  <2>3. UNCHANGED Sessions!vars
    BY <2>1, <2>2 DEF Sessions!vars
  <2>4. QED
    BY <2>3
<1>10. CASE c.ready # chan[p].ready
  <2>1. ~chan[p].ready /\ c.ready
    BY <1>2, <1>8, <1>10 DEF Channel
  <2>2. ~c.active /\ ~chan[p].active
    BY <1>2, <2>1 DEF Roles, Idle
  <2>3. peer2 = peer
    BY <1>4, <1>5, <1>7, <2>2 DEF Peer
  <2>4. Sessions!Agree(p)
    BY <1>3, <1>5, <2>1, <2>3 DEF Sessions!Agree, Sessions!null, Up, null
  <2>5. QED
    BY <2>4 DEF Sessions!Next
<1>11. CASE c.ready = chan[p].ready /\ Peer(c) # Peer(chan[p])
  <2>1. willing2 = willing
    BY <1>3, <1>5, <1>7, <1>11
  <2>2. CASE c.active
    <3>1. /\ chan[p].ready /\ ~chan[p].active /\ Consenting(p, c.peerId)
      BY <1>11, <2>2 DEF Peer
    <3>2. c.peerId \in Id /\ c.peerId # broker[p]
      BY <1>1, <3>1 DEF Consenting
    <3>3. c.peerId = broker[Other(p)] => willing[Other(p)]
      BY <1>5, <3>1 DEF Consenting
    <3>4. peer[p] = null /\ Peer(c) = c.peerId
      BY <1>5, <2>2, <3>1 DEF Peer
    <3>5. Sessions!Open(p)
      BY <1>4, <1>5, <2>1, <3>1, <3>2, <3>3, <3>4 DEF Sessions!Open, Sessions!null, Sessions!Other, Other, null
    <3>6. QED
      BY <3>5 DEF Sessions!Next
  <2>3. CASE ~c.active
    <3>1. Peer(c) = null /\ peer[p] # null
      BY <1>5, <1>11, <2>3 DEF Peer
    <3>2. Sessions!Close(p)
      BY <1>4, <2>1, <3>1 DEF Sessions!Close, Sessions!null, null
    <3>3. QED
      BY <3>2 DEF Sessions!Next
  <2>4. QED
    BY <2>2, <2>3
<1>12. QED
  BY <1>9, <1>10, <1>11

\* The channel names a peer only as Renames allows, so its step is the session's.
LEMMA ConsentingStep ==
  ASSUME RInv, Consents, NEW p \in Side, Up(p), NEW w \in WorkOK,
         Speaks(w, Work(p), {"MESSAGE"}), chan[p].ready => w.ch.ready,
         Renames(w.ch, chan[p], Askers(p)), Commits(p, w)
  PROVE  Consents' /\ [Sessions!Next]_(Sessions!vars)
<1>1. Consents' /\ Lasts
  BY ConsentingCommit
<1>2. broker' = broker /\ chan' = [chan EXCEPT ![p] = w.ch] /\ used' = used
  BY DEF Commits, Commit
<1>3. w.ch \in Channel /\ chan[p] \in Channel
  BY StepContext DEF WorkOK
<1>4. \A i \in Askers(p) : Consenting(p, i)
  BY DEF Consents, HearsConsent, Askers
<1>5. chan[p].awaiting.from # null => Consenting(p, chan[p].awaiting.from)
  BY DEF Consents, MeansConsent
<1>6. \/ w.ch.active => chan[p].active /\ w.ch.peerId = chan[p].peerId
      \/ /\ chan[p].ready /\ ~chan[p].active
         /\ w.ch.active /\ Consenting(p, w.ch.peerId)
  BY <1>4, <1>5 DEF Renames
<1>7. [Sessions!Next]_(Sessions!vars)
  BY <1>2, <1>3, <1>6, SessionStep
<1>8. QED
  BY <1>1, <1>7

LEMMA CalmRenames ==
  ASSUME NEW c, NEW d, NEW F, Calm(d, c, F)
  PROVE  Renames(d, c, F)
BY DEF Calm, Renames

LEMMA SpeaksMore ==
  ASSUME NEW v, NEW w, NEW X, Speaks(v, w, {})
  PROVE  Speaks(v, w, X)
BY DEF Speaks

\* Posting messages adds messages, and leaves the channel as it is.
LEMMA PostMessagesSpeaks ==
  ASSUME NEW v \in WorkOK, NEW msgs \in Seq(Nat)
  PROVE  /\ Speaks(PostMessages(v, msgs), v, {"MESSAGE"})
         /\ PostMessages(v, msgs) \in WorkOK /\ PostMessages(v, msgs).ch = v.ch
<1> DEFINE p == PostMessages(v, msgs)
           fs == [i \in 1 .. Len(msgs) |->
                    [type |-> "MESSAGE", from |-> v.id, pid |-> null, msg |-> msgs[i]]]
<1>1. p \in WorkOK /\ p.ch = v.ch
  BY PostMessagesDoes
<1>2. p.id = v.id /\ (p.out = v.out \o fs \/ p.out = v.out)
  BY DEF PostMessages, WorkOK
<1>3. \A i \in DOMAIN fs : fs[i].type = "MESSAGE" /\ fs[i].from = v.id
  OBVIOUS
<1>4. fs \in Seq(Frame)
  <2>1. \A i \in 1 .. Len(msgs) : fs[i] \in Frame
    BY DEF Frame, PlainFrame, WorkOK
  <2>2. Len(msgs) \in Nat
    OBVIOUS
  <2>3. QED
    BY <2>1, <2>2
<1>5. v.out \in Seq(Frame)
  BY DEF WorkOK
<1> HIDE DEF fs, p
<1>6. CASE p.out = v.out
  <2>1. Len(v.out) \in Nat
    BY <1>5
  <2>2. \A i \in (Len(v.out) + 1) .. Len(v.out) : FALSE
    BY <2>1
  <2>3. QED
    BY <1>1, <1>2, <1>6, <2>1, <2>2 DEF Speaks, p
<1>7. CASE p.out = v.out \o fs
  <2> DEFINE o == v.out
             r == o \o fs
  <2>1. o \in Seq(Frame)
    BY <1>5
  <2> HIDE DEF o
  <2>2. /\ Len(o) \in Nat /\ Len(fs) \in Nat /\ Len(r) = Len(o) + Len(fs)
        /\ DOMAIN o = 1 .. Len(o) /\ DOMAIN r = 1 .. Len(r) /\ DOMAIN fs = 1 .. Len(fs)
    BY <1>4, <2>1
  <2>3. /\ \A k \in DOMAIN o : r[k] = o[k]
        /\ \A k \in DOMAIN r :
             \/ k \in DOMAIN o /\ r[k] = o[k]
             \/ k - Len(o) \in DOMAIN fs /\ r[k] = fs[k - Len(o)]
    BY <1>4, <2>1, ConcatOf
  <2> HIDE DEF r
  <2>4. \A k \in (Len(o) + 1) .. Len(r) : k \in DOMAIN r /\ k \notin DOMAIN o
    BY <2>2
  <2>5. \A k \in (Len(o) + 1) .. Len(r) : r[k].type = "MESSAGE" /\ r[k].from = v.id
    BY <1>3, <2>3, <2>4
  <2>6. p.out = r /\ v.out = o /\ Len(o) <= Len(r)
    BY <1>7, <2>2 DEF r, o
  <2>7. Speaks(p, v, {"MESSAGE"})
    BY <1>2, <2>2, <2>3, <2>5, <2>6 DEF Speaks
  <2>8. QED
    BY <1>1, <2>7 DEF p
<1>8. QED
  BY <1>2, <1>6, <1>7

\* A page is in a step that names and posts nothing its peer did not ask for.
ConsentingMove(s) ==
  /\ Up(s)
  /\ \E w \in WorkOK : /\ Speaks(w, Work(s), {"MESSAGE"}) /\ (chan[s].ready => w.ch.ready)
                       /\ Renames(w.ch, chan[s], Askers(s)) /\ Commits(s, w)

LEMMA QuietIsConsenting ==
  ASSUME RInv, NEW s \in Side, QuietStep(s)
  PROVE  ConsentingMove(s)
<1>1. PICK w \in WorkOK : Gentle(w, Work(s), Askers(s)) /\ Commits(s, w)
  BY DEF QuietStep
<1>2. Up(s)
  BY DEF QuietStep
<1>3. Work(s).ch = chan[s]
  BY <1>2, StepContext
<1>4. Renames(w.ch, chan[s], Askers(s)) /\ (chan[s].ready => w.ch.ready)
  BY <1>1, <1>3, CalmRenames DEF Gentle, Calm
<1>5. Speaks(w, Work(s), {"MESSAGE"})
  BY <1>1, SpeaksMore DEF Gentle
<1>6. QED
  BY <1>1, <1>2, <1>4, <1>5 DEF ConsentingMove

LEMMA OpenIsConsenting ==
  ASSUME RInv, NEW s \in Side, OpenStep(s)
  PROVE  ConsentingMove(s)
<1>1. PICK v, w \in WorkOK :
        /\ Speaks(v, Work(s), {}) /\ Opens(v.ch, chan[s], Askers(s))
        /\ Gentle(w, Flush(v), {}) /\ Commits(s, w)
  BY DEF OpenStep
<1>2. Up(s)
  BY DEF OpenStep
<1> DEFINE q == v.ch.queue
           c == [v.ch EXCEPT !.queue = << >>]
           u == [v EXCEPT !.ch = c]
           p == PostMessages(u, q)
<1>3. v.ch \in Channel /\ q \in Seq(Nat) /\ << >> \in Seq(Nat)
  BY DEF WorkOK, Channel
<1>4. /\ c \in Channel /\ c.ready = v.ch.ready /\ c.active = v.ch.active
      /\ c.peerId = v.ch.peerId /\ c.awaiting = v.ch.awaiting /\ c.scheduled = v.ch.scheduled
  BY <1>3, QueueWrite DEF Channel
<1>5. [v EXCEPT !.ch.queue = << >>] = u
  OBVIOUS
<1> HIDE DEF c
<1>6. u \in WorkOK /\ u.ch = c /\ u.out = v.out /\ u.id = v.id
  BY <1>4, WriteDoes DEF WorkOK
<1>7. Flush(v) = p
  BY <1>5 DEF Flush
<1> HIDE DEF u, q
<1>8. p \in WorkOK /\ p.ch = c /\ Speaks(p, u, {"MESSAGE"})
  BY <1>3, <1>6, PostMessagesSpeaks
<1> HIDE DEF p
<1>9. Speaks(u, Work(s), {"MESSAGE"})
  BY <1>1, <1>4, <1>6 DEF Speaks, Kinds
<1>10. Speaks(w, p, {"MESSAGE"}) /\ Calm(w.ch, c, {})
  BY <1>1, <1>7, <1>8, SpeaksMore DEF Gentle
<1>11. Work(s) \in WorkOK
  BY <1>2, StepContext
<1>12. Speaks(p, Work(s), {"MESSAGE"})
  BY <1>6, <1>8, <1>9, <1>11, SpeaksOn
<1>13. Speaks(w, Work(s), {"MESSAGE"})
  BY <1>8, <1>10, <1>11, <1>12, SpeaksOn DEF Calm
<1>14. Renames(w.ch, chan[s], Askers(s)) /\ w.ch.ready
  BY <1>1, <1>4, <1>10 DEF Opens, Calm, Renames
<1>15. QED
  BY <1>1, <1>2, <1>13, <1>14 DEF ConsentingMove

LEMMA SayIsConsenting ==
  ASSUME RInv, NEW s \in Side, SayStep(s)
  PROVE  ConsentingMove(s)
<1> DEFINE msgs == <<Upcoming(s)>>
<1>1. PICK v, w \in WorkOK :
        /\ Gentle(v, Work(s), {})
        /\ Gentle(w, PostMessages(v, msgs), {}) /\ Commits(s, w)
  BY DEF SayStep
<1>2. Up(s)
  BY DEF SayStep
<1>3. Upcoming(s) \in Nat
  BY DEF Upcoming, RInv, IInv, TypeOK
<1>4. msgs \in Seq(Nat)
  BY <1>3
<1> DEFINE p == PostMessages(v, msgs)
<1> HIDE DEF msgs
<1>5. p \in WorkOK /\ p.ch = v.ch /\ Speaks(p, v, {"MESSAGE"})
  BY <1>4, PostMessagesSpeaks
<1>6. Work(s) \in WorkOK /\ Work(s).ch = chan[s]
  BY <1>2, StepContext
<1>7. Speaks(v, Work(s), {"MESSAGE"}) /\ Speaks(w, p, {"MESSAGE"})
  BY <1>1, SpeaksMore DEF Gentle
<1>8. Calm(v.ch, chan[s], {}) /\ Calm(w.ch, p.ch, {})
  BY <1>1, <1>6 DEF Gentle
<1> HIDE DEF p
<1>9. Speaks(p, Work(s), {"MESSAGE"})
  BY <1>5, <1>6, <1>7, SpeaksOn
<1>10. Speaks(w, Work(s), {"MESSAGE"})
  BY <1>5, <1>6, <1>7, <1>8, <1>9, SpeaksOn DEF Calm
<1>11. Renames(w.ch, chan[s], Askers(s)) /\ (chan[s].ready => w.ch.ready)
  BY <1>5, <1>8 DEF Calm, Renames
<1>12. QED
  BY <1>1, <1>2, <1>10, <1>11 DEF ConsentingMove

\* So is what a page keeps to itself.
LEMMA SilentIsConsenting ==
  ASSUME RInv, NEW s \in Side, QueueStep(s) \/ HearStep(s)
  PROVE  ConsentingMove(s)
<1>1. Up(s)
  BY DEF QueueStep, HearStep
<1>2. /\ Work(s) \in WorkOK /\ Work(s).ch = chan[s] /\ chan[s] \in Channel
  BY <1>1, StepContext
<1>3. CASE HearStep(s)
  <2>1. Commits(s, Work(s))
    BY <1>3 DEF HearStep, Commits
  <2>2. Gentle(Work(s), Work(s), Askers(s))
    BY <1>2, GentleStarts
  <2>3. Renames(chan[s], chan[s], Askers(s)) /\ Speaks(Work(s), Work(s), {"MESSAGE"})
    BY <1>2, <2>2, CalmRenames, SpeaksMore DEF Gentle
  <2>4. QED
    BY <1>1, <1>2, <2>1, <2>3 DEF ConsentingMove
<1>4. CASE QueueStep(s)
  <2> DEFINE q == Append(chan[s].queue, Upcoming(s))
             c == [chan[s] EXCEPT !.queue = q]
             w == [Work(s) EXCEPT !.ch = c]
  <2>1. Commits(s, [Work(s) EXCEPT !.ch.queue = Append(@, Upcoming(s))])
    BY <1>4 DEF QueueStep
  <2>2. [Work(s) EXCEPT !.ch.queue = Append(@, Upcoming(s))] = w
    BY <1>2
  <2>3. Upcoming(s) \in Nat
    BY DEF Upcoming, RInv, IInv, TypeOK
  <2>4. q \in Seq(Nat)
    BY <1>2, <2>3 DEF Channel
  <2> HIDE DEF q
  <2>5. c \in Channel /\ Calm(c, chan[s], Askers(s))
    BY <1>2, <2>4, QueueWrite DEF Channel, Calm
  <2> HIDE DEF c
  <2>6. w \in WorkOK /\ w.ch = c /\ w.out = Work(s).out /\ w.id = Work(s).id
    BY <1>2, <2>5, WriteDoes DEF WorkOK
  <2>7. Commits(s, w)
    BY <2>1, <2>2
  <2> HIDE DEF w
  <2>8. Speaks(w, Work(s), {"MESSAGE"})
    <3>1. Work(s).out = << >>
      BY <1>1, StepContext
    <3>2. QED
      BY <2>6, <3>1 DEF Speaks
  <2>9. Renames(w.ch, chan[s], Askers(s)) /\ (chan[s].ready => w.ch.ready)
    BY <2>5, <2>6, CalmRenames DEF Calm
  <2>10. QED
    BY <1>1, <2>6, <2>7, <2>8, <2>9 DEF ConsentingMove
<1>5. QED
  BY <1>3, <1>4

\* Whatever a page does but load, unload, add its channel or destroy it.
LEMMA ConsentingKinds ==
  ASSUME RInv, NEW s \in Side, Call(s) \/ Tick(s) \/ Deliver(s)
  PROVE  Boot(s) \/ Unload(s) \/ AddChannel(s) \/ DestroyStep(s) \/ ConsentingMove(s)
BY StepKinds, QuietIsConsenting, OpenIsConsenting, SayIsConsenting, SilentIsConsenting

\* Without destroy() no channel is ever destroyed.
LEMMA NeverDestroyed ==
  ASSUME RInv, Consents, "destroy" \notin Env, NEW s \in Side
  PROVE  ~DestroyStep(s)
<1>1. ASSUME net[s] # << >>
      PROVE  1 \in DOMAIN net[s] /\ Head(net[s]) = net[s][1]
  <2>1. net[s] \in Seq(Frame)
    BY DEF RInv, IInv, TypeOK
  <2>2. QED
    BY <1>1, <2>1
<1>2. QED
  BY <1>1 DEF DestroyStep, Consents, HearsConsent

LEMMA AddConsents ==
  ASSUME RInv, Consents, NEW s \in Side, AddChannel(s)
  PROVE  Consents' /\ [Sessions!Next]_(Sessions!vars)
<1> DEFINE c == [chan[s] EXCEPT !.registered = TRUE]
<1>1. /\ Up(s) /\ chan' = [chan EXCEPT ![s] = c]
      /\ UNCHANGED <<broker, used, net>>
  BY DEF AddChannel
<1>2. chan \in [Side -> Channel]
  BY DEF RInv, IInv, TypeOK
<1>3. /\ c \in Channel /\ c.ready = chan[s].ready /\ c.active = chan[s].active
      /\ c.peerId = chan[s].peerId /\ c.awaiting = chan[s].awaiting
      /\ c.scheduled = chan[s].scheduled
  BY <1>2 DEF Channel
<1> HIDE DEF c
<1>4. [Sessions!Next]_(Sessions!vars)
  BY <1>1, <1>3, SessionStep
<1>5. \A u \in Side : /\ chan'[u].ready = chan[u].ready /\ chan'[u].active = chan[u].active
                      /\ chan'[u].peerId = chan[u].peerId
                      /\ chan'[u].awaiting = chan[u].awaiting
                      /\ chan'[u].scheduled = chan[u].scheduled
  BY <1>1, <1>2, <1>3
<1>6. ASSUME NEW u \in Side, NEW i, Consenting(u, i)
      PROVE  Consenting(u, i)'
  BY <1>1, <1>5, <1>6, OtherSide DEF Consenting
<1>7. ASSUME NEW u \in Side
      PROVE  (MeansConsent(u) /\ HearsConsent(u) /\ Distinct(u))'
  <2>1. MeansConsent(u) /\ HearsConsent(u) /\ Distinct(u)
    BY DEF Consents
  <2>2. MeansConsent(u)'
    BY <1>5, <1>6, <2>1 DEF MeansConsent
  <2>3. HearsConsent(u)'
    BY <1>1, <1>6, <2>1 DEF HearsConsent
  <2>4. Distinct(u)'
    BY <1>1, <2>1 DEF Distinct, Up
  <2>5. QED
    BY <2>2, <2>3, <2>4
<1>8. QED
  BY <1>4, <1>7 DEF Consents

LEMMA BootConsents ==
  ASSUME RInv, Consents, NEW s \in Side, Boot(s)
  PROVE  Consents' /\ [Sessions!Next]_(Sessions!vars)
<1>1. PICK i \in Id \ used : broker' = [broker EXCEPT ![s] = i] /\ used' = used \cup {i}
  BY DEF Boot
<1>2. ~Up(s) /\ UNCHANGED <<chan, net>>
  BY DEF Boot, page
<1>3. broker \in [Side -> Id \cup {null}] /\ used \subseteq Id
  BY DEF RInv, IInv, TypeOK
<1>4. \A u \in Side : broker'[u] = (IF u = s THEN i ELSE broker[u])
  BY <1>1, <1>3
<1>5. ASSUME NEW u \in Side, NEW j, Consenting(u, j)
      PROVE  Consenting(u, j)'
  BY <1>1, <1>2, <1>4, <1>5, OtherSide DEF Consenting
<1>6. ASSUME NEW u \in Side
      PROVE  (MeansConsent(u) /\ HearsConsent(u) /\ Distinct(u))'
  <2>1. MeansConsent(u) /\ HearsConsent(u) /\ Distinct(u) /\ Distinct(Other(u))
    BY OtherSide DEF Consents
  <2>2. MeansConsent(u)'
    BY <1>2, <1>5, <2>1 DEF MeansConsent
  <2>3. HearsConsent(u)'
    BY <1>2, <1>5, <2>1 DEF HearsConsent
  <2>4. i # null
    BY <1>1, NullIsNone
  <2>5. Distinct(u)'
    BY <1>1, <1>4, <2>1, <2>4, OtherSide DEF Distinct, Up
  <2>6. QED
    BY <2>2, <2>3, <2>5
<1>7. \A u \in Side : broker[u] # i /\ (chan[u].active => chan[u].peerId # i)
  <2>1. \A u \in Side : broker[u] # i
    BY <1>1, NullIsNone DEF Consents, Distinct
  <2>2. \A u \in Side : chan[u].active => chan[u].peerId # i
    BY <1>1 DEF Consents, MeansConsent, Consenting
  <2>3. QED
    BY <2>1, <2>2
<1>8. i \in Id /\ i # null
  BY <1>1, NullIsNone
<1>9. Sessions!Load(s)
  <2> DEFINE peer == [u \in Side |-> IF chan[u].active THEN chan[u].peerId ELSE null]
  <2>1. \A u \in Side : peer[u] # i
    BY <1>7, <1>8
  <2>2. broker[s] = 0
    BY <1>2 DEF Up, null
  <2>3. /\ [u \in Side |-> chan[u].ready]' = [u \in Side |-> chan[u].ready]
        /\ peer' = peer
    BY <1>2
  <2> HIDE DEF peer
  <2>4. QED
    BY <1>1, <1>7, <1>8, <2>1, <2>2, <2>3 DEF Sessions!Load, Sessions!null, peer
<1>10. QED
  BY <1>6, <1>9 DEF Consents, Sessions!Next

LEMMA UnloadConsents ==
  ASSUME RInv, Consents, NEW s \in Side, Unload(s)
  PROVE  Consents' /\ [Sessions!Next]_(Sessions!vars)
<1> DEFINE c == NewChannel(FALSE)
<1>1. /\ Up(s) /\ broker' = [broker EXCEPT ![s] = null] /\ chan' = [chan EXCEPT ![s] = c]
      /\ net' = [net EXCEPT ![s] = << >>] /\ used' = used
  BY DEF Unload
<1>2. /\ broker \in [Side -> Id \cup {null}] /\ used \subseteq Id
      /\ chan \in [Side -> Channel] /\ net \in [Side -> Seq(Frame)]
  BY DEF RInv, IInv, TypeOK
<1>3. ~c.active /\ c.ready = FALSE /\ c.awaiting.from = null /\ c.scheduled.from = null
  BY DEF NewChannel, NoRequest
<1> HIDE DEF c
<1>4. \A u \in Side : /\ broker'[u] = (IF u = s THEN null ELSE broker[u])
                      /\ chan'[u] = (IF u = s THEN c ELSE chan[u])
                      /\ net'[u] = (IF u = s THEN << >> ELSE net[u])
  BY <1>1, <1>2
<1>5. null \notin used
  BY <1>2, NullIsNone
<1>6. ASSUME NEW u \in Side, NEW j, Consenting(u, j)
      PROVE  Consenting(u, j)'
  BY <1>1, <1>4, <1>5, <1>6, OtherSide DEF Consenting
<1>7. ASSUME NEW u \in Side
      PROVE  (MeansConsent(u) /\ HearsConsent(u) /\ Distinct(u))'
  <2>1. MeansConsent(u) /\ HearsConsent(u) /\ Distinct(u)
    BY DEF Consents
  <2>2. MeansConsent(u)'
    BY <1>3, <1>4, <1>6, <2>1 DEF MeansConsent
  <2>3. HearsConsent(u)'
    BY <1>4, <1>6, <2>1 DEF HearsConsent
  <2>4. Distinct(u)'
    BY <1>1, <1>4, <2>1, OtherSide DEF Distinct, Up
  <2>5. QED
    BY <2>2, <2>3, <2>4
<1>8. Sessions!Leave(s)
  <2> DEFINE willing == [u \in Side |-> chan[u].ready]
             peer == [u \in Side |-> IF chan[u].active THEN chan[u].peerId ELSE null]
             willing2 == [u \in Side |-> chan'[u].ready]
             peer2 == [u \in Side |-> IF chan'[u].active THEN chan'[u].peerId ELSE null]
  <2>1. willing2 = [willing EXCEPT ![s] = FALSE]
    BY <1>3, <1>4 DEF null
  <2>2. peer2 = [peer EXCEPT ![s] = 0]
    BY <1>3, <1>4 DEF null
  <2>3. broker[s] # 0 /\ broker' = [broker EXCEPT ![s] = 0]
    BY <1>1 DEF Up, null
  <2> HIDE DEF willing, peer, willing2, peer2
  <2>4. QED
    BY <2>1, <2>2, <2>3 DEF Sessions!Leave, Sessions!null, willing, peer, willing2, peer2, null
<1>9. QED
  BY <1>7, <1>8 DEF Consents, Sessions!Next

LEMMA InitSessions == Init => Sessions!Init
<1> SUFFICES ASSUME Init
             PROVE  Sessions!Init
  OBVIOUS
<1> DEFINE c == NewChannel(FALSE)
<1>1. ~c.active /\ c.ready = FALSE
  BY DEF NewChannel
<1> HIDE DEF c
<1>2. \A s \in Side : chan[s] = c
  BY DEF Init, c
<1>3. broker = [s \in Side |-> 0]
  BY DEF Init, null
<1>4. [s \in Side |-> chan[s].ready] = [s \in Side |-> FALSE]
  BY <1>1, <1>2
<1>5. [s \in Side |-> IF chan[s].active THEN chan[s].peerId ELSE null] = [s \in Side |-> 0]
  BY <1>1, <1>2 DEF null
<1>6. QED
  BY <1>3, <1>4, <1>5 DEF Sessions!Init, Sessions!null

LEMMA NextConsents ==
  ASSUME "destroy" \notin Env
  PROVE  RInv /\ Consents /\ [Next]_vars => Consents' /\ [Sessions!Next]_(Sessions!vars)
<1> SUFFICES ASSUME RInv, Consents, [Next]_vars
             PROVE  Consents' /\ [Sessions!Next]_(Sessions!vars)
  OBVIOUS
<1>1. CASE UNCHANGED vars
  <2>1. broker' = broker /\ chan' = chan /\ used' = used /\ net' = net
    BY <1>1 DEF vars
  <2>2. Consents'
    BY <2>1 DEF Consents, MeansConsent, HearsConsent, Distinct, Consenting, Up
  <2>3. UNCHANGED Sessions!vars
    BY <2>1 DEF Sessions!vars
  <2>4. QED
    BY <2>2, <2>3
<1>2. CASE Next
  <2>1. PICK s \in Side : Call(s) \/ Tick(s) \/ Deliver(s)
    BY <1>2 DEF Next
  <2>2. QED
    BY <2>1, ConsentingKinds, BootConsents, UnloadConsents, AddConsents, ConsentingStep,
       NeverDestroyed DEF ConsentingMove
<1>3. QED
  BY <1>1, <1>2

\* The frames, timers and ids of the two brokers carry out the abstract session:
\* a channel opens only with a page that called connect(), however late, stale
\* or repeated the frame that opens it is, and closes before it opens again.
\* destroy() is left out: it resets readyToConnect, and the counterpart that was
\* promised a connection keeps its session.
THEOREM ChannelsImplementSession ==
  ASSUME "destroy" \notin Env
  PROVE  Spec => ImplementsSession
<1>1. RInv /\ Consents /\ [Next]_vars => Consents' /\ [Sessions!Next]_(Sessions!vars)
  BY NextConsents
<1>2. Spec => Sessions!Init /\ [][Sessions!Next]_(Sessions!vars)
  BY <1>1, InitConsents, InitSessions, RoutingInvariance, PTL DEF Spec
<1>3. QED
  BY <1>2 DEF ImplementsSession, Sessions!Spec

\* A page is only ever in session by the consent of both applications: its own
\* called connect(), and so did that of the page it is in session with, while
\* that one is loaded, whatever handle-request.ts and handle-accept.ts made of
\* retries, replays and late answers in between.
THEOREM ChannelsAreAgreed ==
  ASSUME "destroy" \notin Env
  PROVE  Spec => []Sessions!Consent
<1>1. RInv /\ Consents => Sessions!Consent
  <2> SUFFICES ASSUME RInv, Consents PROVE Sessions!Consent
    OBVIOUS
  <2>1. ASSUME NEW s \in Side, chan[s].active
        PROVE  /\ chan[s].ready
               /\ chan[s].peerId = broker[Other(s)] => chan[Other(s)].ready
    <3>1. chan[s].ready
      BY <2>1 DEF RInv, IInv, Sound, Roles, Idle
    <3>2. QED
      BY <2>1, <3>1 DEF Consents, MeansConsent, Consenting
  <2>2. QED
    BY <2>1, OtherSide DEF Sessions!Consent, Sessions!Other, Sessions!null, Other, null
<1>2. RInv /\ Consents /\ [Next]_vars => Consents'
  BY NextConsents
<1>3. QED
  BY <1>1, <1>2, InitConsents, RoutingInvariance, PTL DEF Spec

-----------------------------------------------------------------------------
(* The order of the frames in flight: what comes behind a frame.           *)

\* The process ids of each kind of frame that come behind a k-frame of process p.
Trail(q, k, p) ==
  [l \in ProcessFrame |->
     {q[j].pid : j \in {j \in DOMAIN q : /\ q[j].type = l
                                         /\ \E i \in DOMAIN q : /\ i < j
                                                                /\ q[i].type = k
                                                                /\ q[i].pid = p}}]

\* What a trail says of two frames.
LEMMA TrailMember ==
  ASSUME NEW q \in Seq(Frame), NEW k, NEW p, NEW l \in ProcessFrame, NEW x
  PROVE  x \in Trail(q, k, p)[l] <=>
           \E i, j \in 1 .. Len(q) : /\ i < j /\ q[i].type = k /\ q[i].pid = p
                                     /\ q[j].type = l /\ q[j].pid = x
<1>1. DOMAIN q = 1 .. Len(q)
  OBVIOUS
<1>2. QED
  BY <1>1 DEF Trail

\* What the wire says of one frame.
LEMMA WireMember ==
  ASSUME NEW q \in Seq(Frame), NEW l \in ProcessFrame, NEW x
  PROVE  x \in Wire(q)[l] <=> \E i \in 1 .. Len(q) : q[i].type = l /\ q[i].pid = x
<1>1. DOMAIN q = 1 .. Len(q)
  OBVIOUS
<1>2. QED
  BY <1>1 DEF Wire

\* What comes behind a frame of q \o r: it did in q, or in r, or it is of r
\* and the frame of q.
LEMMA TrailConcat ==
  ASSUME NEW q \in Seq(Frame), NEW r \in Seq(Frame), NEW k \in ProcessFrame, NEW p,
         NEW l \in ProcessFrame, NEW x \in Trail(q \o r, k, p)[l]
  PROVE  \/ x \in Trail(q, k, p)[l]
         \/ x \in Trail(r, k, p)[l]
         \/ x \in Wire(r)[l] /\ p \in Wire(q)[k]
<1> DEFINE v == q \o r
<1>1. v \in Seq(Frame) /\ Len(v) = Len(q) + Len(r) /\ Len(q) \in Nat /\ Len(r) \in Nat
  OBVIOUS
<1>2. ASSUME NEW i \in 1 .. Len(v)
      PROVE  \/ i \in 1 .. Len(q) /\ v[i] = q[i]
             \/ i > Len(q) /\ i - Len(q) \in 1 .. Len(r) /\ v[i] = r[i - Len(q)]
  BY <1>1
<1>0. x \in Trail(v, k, p)[l]
  OBVIOUS
<1> HIDE DEF v
<1>3. PICK i \in 1 .. Len(v), j \in 1 .. Len(v) :
        i < j /\ v[i].type = k /\ v[i].pid = p /\ v[j].type = l /\ v[j].pid = x
  BY <1>0, <1>1, TrailMember
<1>4. CASE j \in 1 .. Len(q) /\ v[j] = q[j]
  <2>1. i \in 1 .. Len(q) /\ v[i] = q[i]
    BY <1>1, <1>2, <1>3, <1>4
  <2>2. QED
    BY <1>3, <1>4, <2>1, TrailMember
<1>5. CASE j - Len(q) \in 1 .. Len(r) /\ v[j] = r[j - Len(q)]
  <2>1. x \in Wire(r)[l]
    BY <1>3, <1>5, WireMember
  <2>2. CASE i \in 1 .. Len(q) /\ v[i] = q[i]
    BY <1>3, <2>1, <2>2, WireMember
  <2>3. CASE i - Len(q) \in 1 .. Len(r) /\ v[i] = r[i - Len(q)]
    <3>1. i - Len(q) < j - Len(q)
      BY <1>1, <1>3
    <3>2. QED
      BY <1>3, <1>5, <2>3, <3>1, TrailMember
  <2>4. QED
    BY <1>2, <2>2, <2>3
<1>6. QED
  BY <1>2, <1>4, <1>5

\* What comes behind a frame flies, and so does the frame.
LEMMA TrailFlies ==
  ASSUME NEW q \in Seq(Frame), NEW k \in ProcessFrame, NEW p,
         NEW l \in ProcessFrame, NEW x \in Trail(q, k, p)[l]
  PROVE  x \in Wire(q)[l] /\ p \in Wire(q)[k]
BY TrailMember, WireMember

\* Nothing comes behind a single frame.
LEMMA TrailShort ==
  ASSUME NEW q \in Seq(Frame), Len(q) <= 1, NEW k, NEW p, NEW l \in ProcessFrame
  PROVE  Trail(q, k, p)[l] = {}
<1>1. Len(q) \in Nat
  OBVIOUS
<1>2. \A i, j \in 1 .. Len(q) : ~(i < j)
  BY <1>1
<1>3. QED
  BY <1>2, TrailMember

\* Once the first frame is taken, the others are what came behind it.
LEMMA TrailTail ==
  ASSUME NEW q \in Seq(Frame), q # << >>, NEW l \in ProcessFrame, NEW x
  PROVE  /\ \A k, p : x \in Trail(Tail(q), k, p)[l] => x \in Trail(q, k, p)[l]
         /\ x \in Wire(Tail(q))[l] => x \in Trail(q, Head(q).type, Head(q).pid)[l]
         /\ x \in Wire(q)[l] => \/ x \in Wire(Tail(q))[l]
                                \/ Head(q).type = l /\ Head(q).pid = x
<1> DEFINE r == Tail(q)
<1>1. /\ Len(q) \in Nat \ {0} /\ r \in Seq(Frame) /\ Len(r) = Len(q) - 1
      /\ Head(q) = q[1]
  OBVIOUS
<1>2. \A i \in 1 .. Len(r) : r[i] = q[i + 1] /\ i + 1 \in 1 .. Len(q)
  BY <1>1
<1> HIDE DEF r
<1>3. ASSUME NEW k, NEW p, x \in Trail(r, k, p)[l]
      PROVE  x \in Trail(q, k, p)[l]
  <2>1. PICK i \in 1 .. Len(r), j \in 1 .. Len(r) :
          /\ i < j /\ r[i].type = k /\ r[i].pid = p
          /\ r[j].type = l /\ r[j].pid = x
    BY <1>1, <1>3, TrailMember
  <2>2. i + 1 < j + 1
    BY <2>1
  <2>3. QED
    BY <1>2, <2>1, <2>2, TrailMember
<1>4. ASSUME x \in Wire(r)[l]
      PROVE  x \in Trail(q, Head(q).type, Head(q).pid)[l]
  <2>1. PICK i \in 1 .. Len(r) : r[i].type = l /\ r[i].pid = x
    BY <1>1, <1>4, WireMember
  <2>2. 1 < i + 1 /\ 1 \in 1 .. Len(q) /\ i + 1 \in 1 .. Len(q)
    BY <1>1, <1>2, <2>1
  <2>3. q[i + 1].type = l /\ q[i + 1].pid = x
    BY <1>2, <2>1
  <2> DEFINE k == Head(q).type
             p == Head(q).pid
  <2>4. q[1].type = k /\ q[1].pid = p
    BY <1>1
  <2> HIDE DEF k, p
  <2>5. x \in Trail(q, k, p)[l]
    BY <2>2, <2>3, <2>4, TrailMember
  <2>6. QED
    BY <2>5 DEF k, p
<1>5. ASSUME x \in Wire(q)[l]
      PROVE  x \in Wire(r)[l] \/ (Head(q).type = l /\ Head(q).pid = x)
  <2>1. PICK i \in 1 .. Len(q) : q[i].type = l /\ q[i].pid = x
    BY <1>5, WireMember
  <2>2. CASE i = 1
    BY <1>1, <2>1, <2>2
  <2>3. CASE i # 1
    <3>1. i - 1 \in 1 .. Len(r) /\ r[i - 1] = q[i]
      BY <1>1, <1>2, <2>3
    <3>2. QED
      BY <1>1, <2>1, <3>1, WireMember
  <2>4. QED
    BY <2>2, <2>3
<1>6. QED
  BY <1>3, <1>4, <1>5 DEF r

-----------------------------------------------------------------------------
(* What holds between a channel c and the channel d at the other end, where *)
(* `in' and `out' are the frames in flight to the side of c and from it, P  *)
(* and Q the process ids the brokers of c and d track.                      *)

\* A request that is being answered was asked last: no other follows it.
LastWord(c, d, out) ==
  c.pending \in Answers(d) => /\ Wire(out)["CANCEL"] = {}
                              /\ Wire(out)["REQUEST"] \subseteq {c.pending}

\* Nor does another follow a request in progress that still travels.
AskedLast(c, out) ==
  c.pending # null => /\ Trail(out, "REQUEST", c.pending)["CANCEL"] = {}
                      /\ Trail(out, "REQUEST", c.pending)["REQUEST"] \subseteq {c.pending}

\* The answer to it is awaited by who gave it, who has since said nothing else.
AcceptLast(c, d, in) ==
  c.pending # null /\ c.pending \in Wire(in)["ACCEPT"] =>
    /\ d.awaiting.pid = c.pending
    /\ \A k \in ProcessFrame \ {"ACCEPT", "DENY"} : Trail(in, "ACCEPT", c.pending)[k] = {}

\* A session that is open on the side of c alone is about to open at the other
\* end: the OPEN travels, will find its process, and nothing overtakes it.
Opening(d, Q, in, out) ==
  /\ d.awaiting.pid # null /\ d.awaiting.pid \in Q
  /\ d.awaiting.pid \in Wire(out)["OPEN"]
  /\ \A k \in ProcessFrame \ {"ACCEPT", "DENY"} : Wire(in)[k] = {}
  /\ Wire(out)["CANCEL"] = {} /\ Wire(out)["REQUEST"] \subseteq {d.awaiting.pid}
  /\ Trail(out, "OPEN", d.awaiting.pid)["REQUEST"] = {}
  /\ \A k \in ProcessFrame \ {"REQUEST", "OPEN"} : d.awaiting.pid \notin Wire(out)[k]

\* Or is about to end: the CLOSE_ACK travels, ahead of any other request.
Ending(c, d, in, out) ==
  /\ c.closing # null /\ c.closing \in Wire(in)["CLOSE_ACK"]
  /\ Wire(out)["CLOSE"] = {} /\ Wire(out)["REQUEST"] = {} /\ Wire(out)["CANCEL"] = {}
  /\ Answers(d) = {}
  /\ \A x \in Wire(in)["REQUEST"] : c.closing \notin Trail(in, "REQUEST", x)["CLOSE_ACK"]

HalfOpen(c, d, Q, in, out) ==
  c.active /\ ~d.active => Opening(d, Q, in, out) \/ Ending(c, d, in, out)

\* An OPEN of a process that is answered, or may be, is backed by a session.
OpenBacked(c, d, out) ==
  \A p \in Wire(out)["OPEN"] : p \in Answers(d) \cup Wire(out)["REQUEST"] => c.active

\* Both in session, neither has anything else to say.
NoneAsks(c, d, out) ==
  c.active /\ d.active => Wire(out)["REQUEST"] = {} /\ Wire(out)["CANCEL"] = {}

\* A CLOSE ends the session its sender is in, or one that it ended since by
\* acknowledging the CLOSE of the other side, which it sent earlier.
CloseBacked(c, d, out) ==
  \A x \in Wire(out)["CLOSE"] :
    /\ \/ c.active /\ c.closing = x
       \/ ~c.active /\ d.active /\ x \notin Trail(out, "CLOSE_ACK", d.closing)["CLOSE"]
    /\ Trail(out, "CLOSE", x)["CLOSE"] = {}

\* Who acknowledges a close has left the session.
AckedIsClosed(c, d, in) ==
  c.active /\ c.closing # null /\ c.closing \in Wire(in)["CLOSE_ACK"] => ~d.active

\* A CANCEL ends an answer that is awaited, and only one travels.
CancelBacked(c, d, out) ==
  /\ Wire(out)["CANCEL"] # {} => ~c.active /\ d.awaiting # NoRequest
  /\ \A x \in Wire(out)["CANCEL"] : Trail(out, "CANCEL", x)["CANCEL"] = {}

\* The process of a close is tracked by its proposer only while it closes.
CloseOwned(c, P, in, out) ==
  \A x \in Wire(out)["CLOSE"] \cup Wire(in)["CLOSE_ACK"] :
    /\ x \in P => x = c.closing
    /\ x \notin Wire(in)["REQUEST"]

Agreed(c, P, d, Q, in, out) ==
  /\ LastWord(c, d, out)
  /\ AskedLast(c, out)
  /\ AcceptLast(c, d, in)
  /\ HalfOpen(c, d, Q, in, out)
  /\ OpenBacked(c, d, out)
  /\ NoneAsks(c, d, out)
  /\ CloseBacked(c, d, out)
  /\ AckedIsClosed(c, d, in)
  /\ CancelBacked(c, d, out)
  /\ CloseOwned(c, P, in, out)

-----------------------------------------------------------------------------
(* A step of the side of c: the frames before and after it.                *)

\* A frame of kind k and process p was taken off the wire, the oldest one, or
\* one that belongs to no process, or none.
Took(in2, in, k, p) ==
  /\ k \in ProcessFrame \cup PlainFrame
  /\ \A l \in ProcessFrame :
       /\ Wire(in2)[l] \subseteq Wire(in)[l]
       /\ \A x \in Wire(in)[l] : x \in Wire(in2)[l] \/ (l = k /\ x = p)
  /\ \A m, x : \A l \in ProcessFrame : Trail(in2, m, x)[l] \subseteq Trail(in, m, x)[l]
  /\ k \in ProcessFrame => /\ p \in Wire(in)[k]
                           /\ \A l \in ProcessFrame : Wire(in2)[l] \subseteq Trail(in, k, p)[l]

\* Frames of kind k and process p may have been posted behind the others, and
\* at most one that says CLOSE or CANCEL.
Single == {"CLOSE", "CANCEL"}

Grew(out2, out, k, p) ==
  /\ \A l \in ProcessFrame :
       /\ Wire(out)[l] \subseteq Wire(out2)[l]
       /\ \A x \in Wire(out2)[l] : x \in Wire(out)[l] \/ (l = k /\ x = p)
  /\ \A m \in ProcessFrame : \A x : \A l \in ProcessFrame : \A y \in Trail(out2, m, x)[l] :
       \/ y \in Trail(out, m, x)[l]
       \/ /\ l = k /\ y = p
          /\ x \in Wire(out)[m] \/ (m = k /\ x = p /\ k \notin Single)

\* What comes behind a frame that does not fly does not, and null never flies.
Orderly(q) ==
  /\ \A k \in ProcessFrame : \A p : \A l \in ProcessFrame : \A x \in Trail(q, k, p)[l] :
       p \in Wire(q)[k] /\ x \in Wire(q)[l]
  /\ \A k \in ProcessFrame : null \notin Wire(q)[k]

Whole(c) == /\ c.awaiting = NoRequest <=> c.awaiting.pid = null
            /\ c.scheduled = NoRequest <=> c.scheduled.pid = null

Scene(c, P, d, Q, in, out, past) ==
  /\ Routed(c, P, d, Q, Wire(in), Wire(out), past)
  /\ Roles(c) /\ Roles(d) /\ Whole(c) /\ Whole(d)
  /\ Orderly(in) /\ Orderly(out)
  /\ Agreed(c, P, d, Q, in, out)
  /\ Agreed(d, Q, c, P, out, in)

-----------------------------------------------------------------------------
(* The steps of a side, one kind at a time: each keeps what both agree on.  *)
(* The step takes a frame of kind kk and process pp, if any, and posts one  *)
(* of kind k and process p, if any.                                         *)

\* Nothing begins or ends but, at most, a request that was given up: a frame is
\* repeated, refused or dropped, or its process is forgotten.
Rests(c, P, c2, P2, kk, pp, k, p) ==
  /\ c2.active <=> c.active
  /\ c2.closing = c.closing /\ c2.awaiting = c.awaiting /\ c2.scheduled = c.scheduled
  /\ c2.pending \in {null, c.pending}
  /\ P2 \subseteq P /\ P \subseteq P2 \cup {c.pending, pp}
  /\ kk \in PlainFrame \cup {"REQUEST"} => P \subseteq P2 \cup {c.pending}
  /\ kk = "OPEN" /\ pp = c.awaiting.pid => pp \notin P
  /\ kk = "CLOSE_ACK" => pp # c.closing
  /\ \/ k \in PlainFrame
     \/ k = "DENY" /\ ~c.active
     \/ k = "REQUEST" /\ p = c2.pending /\ p # null
     \/ k = "ACCEPT" /\ p = c.awaiting.pid /\ p # null
     \/ k = "OPEN" /\ c.active
     \/ k = "CANCEL_ACK" /\ kk = "CANCEL"

\* A step in which nothing begins or ends keeps what both agree on.
LEMMA RestAgrees ==
  ASSUME NEW c, NEW P, NEW d, NEW Q, NEW in, NEW out, NEW past,
         NEW c2, NEW P2, NEW in2, NEW out2, NEW kk, NEW pp, NEW k, NEW p,
         Scene(c, P, d, Q, in, out, past), Took(in2, in, kk, pp), Grew(out2, out, k, p),
         Rests(c, P, c2, P2, kk, pp, k, p)
  PROVE  Agreed(c2, P2, d, Q, in2, out2) /\ Agreed(d, Q, c2, P2, out2, in2)
<1>1. LastWord(c2, d, out2)
  BY DEF Scene, Agreed, Rests, PlainFrame, ProcessFrame, LastWord, Grew, Answers
<1>2. AskedLast(c2, out2)
  BY DEF Scene, Agreed, Rests, PlainFrame, ProcessFrame, AskedLast, Grew, Single
<1>3. AcceptLast(c2, d, in2)
  BY DEF Scene, Agreed, Rests, PlainFrame, ProcessFrame, AcceptLast, Took, Grew
<1>4. HalfOpen(c2, d, Q, in2, out2)
  BY DEF Scene, Agreed, Rests, PlainFrame, ProcessFrame, HalfOpen, Opening, Ending, Took,
         Grew, Roles, Whole, CancelBacked
<1>5. OpenBacked(c2, d, out2)
  BY DEF Scene, Agreed, Rests, PlainFrame, ProcessFrame, OpenBacked, Grew, Roles, Whole,
         Answers, Routed, Half, RequestKept
<1>6. NoneAsks(c2, d, out2)
  BY DEF Scene, Agreed, Rests, PlainFrame, ProcessFrame, NoneAsks, Grew, Roles
<1>7. CloseBacked(c2, d, out2)
  BY DEF Scene, Agreed, Rests, PlainFrame, ProcessFrame, CloseBacked, Grew, Single
<1>8. AckedIsClosed(c2, d, in2)
  BY DEF Scene, Agreed, Rests, PlainFrame, ProcessFrame, AckedIsClosed, Took
<1>9. CancelBacked(c2, d, out2)
  BY DEF Scene, Agreed, Rests, PlainFrame, ProcessFrame, CancelBacked, Grew, Single
<1>10. CloseOwned(c2, P2, in2, out2)
  BY DEF Scene, Agreed, Rests, PlainFrame, ProcessFrame, CloseOwned, Took, Grew
<1>11. LastWord(d, c2, in2)
  BY DEF Scene, Agreed, Rests, PlainFrame, ProcessFrame, LastWord, Took, Answers
<1>12. AskedLast(d, in2)
  BY DEF Scene, Agreed, Rests, PlainFrame, ProcessFrame, AskedLast, Took
<1>13. AcceptLast(d, c2, out2)
  BY DEF Scene, Agreed, Rests, PlainFrame, ProcessFrame, AcceptLast, Took, Grew, Orderly,
         Roles, Whole, LastWord, Answers, AskedLast
<1>14. HalfOpen(d, c2, P2, out2, in2)
  <2>1. ASSUME Opening(c, P, out, in), d.active
        PROVE  Opening(c2, P2, out2, in2)
    <3>1. c.awaiting.pid = c2.awaiting.pid /\ c.awaiting # NoRequest
      BY <2>1 DEF Opening, Rests, Scene, Whole
    <3>2. c.pending = null /\ ~c.active /\ Wire(in)["CANCEL"] = {}
      BY <3>1, <2>1 DEF Opening, Scene, Roles
    <3>3. c.awaiting.pid \in P2
      BY <2>1, <3>1, <3>2 DEF Opening, Rests, Took, PlainFrame, ProcessFrame
    <3>4. c.awaiting.pid \in Wire(in2)["OPEN"]
      BY <2>1, <3>1, <3>2 DEF Opening, Rests, Took, ProcessFrame
    <3>5. \A l \in ProcessFrame \ {"ACCEPT", "DENY"} : Wire(out2)[l] = {}
      BY <2>1, <3>2 DEF Opening, Rests, Took, Grew, PlainFrame, ProcessFrame
    <3>6. QED
      BY <2>1, <3>1, <3>3, <3>4, <3>5 DEF Opening, Took, ProcessFrame
  <2>2. ASSUME Ending(d, c, out, in)
        PROVE  Ending(d, c2, out2, in2)
    <3>1. \A x \in Wire(out2)["REQUEST"] : d.closing \notin Trail(out2, "REQUEST", x)["CLOSE_ACK"]
      BY <2>2 DEF Ending, Rests, Grew, Scene, Orderly, PlainFrame, ProcessFrame
    <3>2. QED
      BY <2>2, <3>1 DEF Ending, Rests, Took, Grew, Answers, ProcessFrame
  <2>3. QED
    BY <2>1, <2>2 DEF HalfOpen, Rests, Scene, Agreed
<1>15. OpenBacked(d, c2, in2)
  BY DEF Scene, Agreed, Rests, PlainFrame, ProcessFrame, OpenBacked, Took, Answers
<1>16. NoneAsks(d, c2, in2)
  BY DEF Scene, Agreed, Rests, PlainFrame, ProcessFrame, NoneAsks, Took
<1>17. CloseBacked(d, c2, in2)
  BY DEF Scene, Agreed, Rests, PlainFrame, ProcessFrame, CloseBacked, Took
<1>18. AckedIsClosed(d, c2, out2)
  BY DEF Scene, Agreed, Rests, PlainFrame, ProcessFrame, AckedIsClosed, Grew
<1>19. CancelBacked(d, c2, in2)
  BY DEF Scene, Agreed, Rests, PlainFrame, ProcessFrame, CancelBacked, Took
<1>20. CloseOwned(d, Q, out2, in2)
  BY DEF Scene, Agreed, Rests, PlainFrame, ProcessFrame, CloseOwned, Took, Grew, Routed,
         Half, RequestKept
<1>21. QED
  BY <1>1, <1>2, <1>3, <1>4, <1>5, <1>6, <1>7, <1>8, <1>9, <1>10, <1>11, <1>12, <1>13,
     <1>14, <1>15, <1>16, <1>17, <1>18, <1>19, <1>20 DEF Agreed

\* A channel in which nothing is in progress asks for a session.
Asks(c, P, past, c2, P2, kk, k, p) ==
  /\ kk \in PlainFrame
  /\ Idle(c) /\ c.scheduled = NoRequest
  /\ ~c2.active /\ c2.closing = c.closing
  /\ c2.awaiting = c.awaiting /\ c2.scheduled = c.scheduled
  /\ k = "REQUEST" /\ c2.pending = p /\ p # null /\ p \notin past
  /\ P2 = P \cup {p}

\* A new REQUEST follows whatever its side still had in flight, and nobody answers
\* it yet.
LEMMA AskAgrees ==
  ASSUME NEW c, NEW P, NEW d, NEW Q, NEW in, NEW out, NEW past,
         NEW c2, NEW P2, NEW in2, NEW out2, NEW kk, NEW pp, NEW k, NEW p,
         Scene(c, P, d, Q, in, out, past), Took(in2, in, kk, pp), Grew(out2, out, k, p),
         Asks(c, P, past, c2, P2, kk, k, p)
  PROVE  Agreed(c2, P2, d, Q, in2, out2) /\ Agreed(d, Q, c2, P2, out2, in2)
<1>1. LastWord(c2, d, out2)
  BY DEF Scene, Agreed, Asks, Idle, ProcessFrame, LastWord, Grew, Answers, Routed, Half,
         Minted
<1>2. AskedLast(c2, out2)
  BY DEF Scene, Agreed, Asks, Idle, ProcessFrame, AskedLast, Grew, Single, Orderly,
         Routed, Half, Minted
<1>3. AcceptLast(c2, d, in2)
  BY DEF Scene, Agreed, Asks, Idle, ProcessFrame, AcceptLast, Took, Routed, Half, Minted
<1>4. HalfOpen(c2, d, Q, in2, out2)
  BY DEF Scene, Agreed, Asks, Idle, ProcessFrame, HalfOpen
<1>5. OpenBacked(c2, d, out2)
  BY DEF Scene, Agreed, Asks, Idle, ProcessFrame, OpenBacked, Grew, Took, Routed, Half,
         Minted, Answers
<1>6. NoneAsks(c2, d, out2)
  BY DEF Scene, Agreed, Asks, Idle, ProcessFrame, NoneAsks
<1>7. CloseBacked(c2, d, out2)
  BY DEF Scene, Agreed, Asks, Idle, ProcessFrame, CloseBacked, Grew, Single
<1>8. AckedIsClosed(c2, d, in2)
  BY DEF Scene, Agreed, Asks, Idle, ProcessFrame, AckedIsClosed
<1>9. CancelBacked(c2, d, out2)
  BY DEF Scene, Agreed, Asks, Idle, ProcessFrame, CancelBacked, Grew, Single
<1>10. CloseOwned(c2, P2, in2, out2)
  BY DEF Scene, Agreed, Asks, Idle, ProcessFrame, CloseOwned, Took, Grew, Routed, Half,
         Minted
<1>11. LastWord(d, c2, in2)
  BY DEF Scene, Agreed, Asks, Idle, ProcessFrame, LastWord, Took, Answers
<1>12. AskedLast(d, in2)
  BY DEF Scene, Agreed, Asks, Idle, ProcessFrame, AskedLast, Took
<1>13. AcceptLast(d, c2, out2)
  BY DEF Scene, Agreed, Asks, Idle, ProcessFrame, AcceptLast, Took, Grew, Whole
<1>14. HalfOpen(d, c2, P2, out2, in2)
  BY DEF Scene, Agreed, Asks, Idle, ProcessFrame, HalfOpen, Opening, Ending, Took, Grew,
         Whole, Orderly, Answers
<1>15. OpenBacked(d, c2, in2)
  BY DEF Scene, Agreed, Asks, Idle, ProcessFrame, OpenBacked, Took, Answers
<1>16. NoneAsks(d, c2, in2)
  BY DEF Scene, Agreed, Asks, Idle, ProcessFrame, NoneAsks, Took
<1>17. CloseBacked(d, c2, in2)
  BY DEF Scene, Agreed, Asks, Idle, ProcessFrame, CloseBacked, Took, Roles
<1>18. AckedIsClosed(d, c2, out2)
  BY DEF Scene, Agreed, Asks, Idle, ProcessFrame, AckedIsClosed, Grew
<1>19. CancelBacked(d, c2, in2)
  BY DEF Scene, Agreed, Asks, Idle, ProcessFrame, CancelBacked, Took
<1>20. CloseOwned(d, Q, out2, in2)
  BY DEF Scene, Agreed, Asks, Idle, ProcessFrame, CloseOwned, Took, Grew, Routed, Half,
         Minted
<1>21. QED
  BY <1>1, <1>2, <1>3, <1>4, <1>5, <1>6, <1>7, <1>8, <1>9, <1>10, <1>11, <1>12, <1>13,
     <1>14, <1>15, <1>16, <1>17, <1>18, <1>19, <1>20 DEF Agreed

\* A connected channel answers the request that was scheduled.
Replies(c, P, c2, P2, kk, k, p) ==
  /\ kk \in PlainFrame
  /\ Idle(c) /\ c.scheduled # NoRequest
  /\ ~c2.active /\ c2.closing = c.closing /\ c2.pending = null
  /\ c2.awaiting = c.scheduled /\ c2.scheduled = NoRequest
  /\ k = "ACCEPT" /\ p = c.scheduled.pid
  /\ P2 = P

\* The ACCEPT of a scheduled request is the last thing its side said.
LEMMA ReplyAgrees ==
  ASSUME NEW c, NEW P, NEW d, NEW Q, NEW in, NEW out, NEW past,
         NEW c2, NEW P2, NEW in2, NEW out2, NEW kk, NEW pp, NEW k, NEW p,
         Scene(c, P, d, Q, in, out, past), Took(in2, in, kk, pp), Grew(out2, out, k, p),
         Replies(c, P, c2, P2, kk, k, p)
  PROVE  Agreed(c2, P2, d, Q, in2, out2) /\ Agreed(d, Q, c2, P2, out2, in2)
<1>1. LastWord(c2, d, out2)
  BY DEF Scene, Agreed, Replies, Idle, ProcessFrame, LastWord, Answers
<1>2. AskedLast(c2, out2)
  BY DEF Scene, Agreed, Replies, Idle, ProcessFrame, AskedLast
<1>3. AcceptLast(c2, d, in2)
  BY DEF Scene, Agreed, Replies, Idle, ProcessFrame, AcceptLast
<1>4. HalfOpen(c2, d, Q, in2, out2)
  BY DEF Scene, Agreed, Replies, Idle, ProcessFrame, HalfOpen
<1>5. OpenBacked(c2, d, out2)
  BY DEF Scene, Agreed, Replies, Idle, ProcessFrame, OpenBacked, Grew
<1>6. NoneAsks(c2, d, out2)
  BY DEF Scene, Agreed, Replies, Idle, ProcessFrame, NoneAsks
<1>7. CloseBacked(c2, d, out2)
  BY DEF Scene, Agreed, Replies, Idle, ProcessFrame, CloseBacked, Grew, Single
<1>8. AckedIsClosed(c2, d, in2)
  BY DEF Scene, Agreed, Replies, Idle, ProcessFrame, AckedIsClosed
<1>9. CancelBacked(c2, d, out2)
  BY DEF Scene, Agreed, Replies, Idle, ProcessFrame, CancelBacked, Grew, Single
<1>10. CloseOwned(c2, P2, in2, out2)
  BY DEF Scene, Agreed, Replies, Idle, ProcessFrame, CloseOwned, Took, Grew
<1>11. LastWord(d, c2, in2)
  BY DEF Scene, Agreed, Replies, Idle, ProcessFrame, LastWord, Took, Answers, Whole
<1>12. AskedLast(d, in2)
  BY DEF Scene, Agreed, Replies, Idle, ProcessFrame, AskedLast, Took
<1>13. AcceptLast(d, c2, out2)
  BY DEF Scene, Agreed, Replies, Idle, ProcessFrame, AcceptLast, Took, Grew, Whole,
         Orderly, Single
<1>14. HalfOpen(d, c2, P2, out2, in2)
  BY DEF Scene, Agreed, Replies, Idle, ProcessFrame, HalfOpen, Opening, Ending, Whole,
         Answers
<1>15. OpenBacked(d, c2, in2)
  BY DEF Scene, Agreed, Replies, Idle, ProcessFrame, OpenBacked, Took, Answers, Whole
<1>16. NoneAsks(d, c2, in2)
  BY DEF Scene, Agreed, Replies, Idle, ProcessFrame, NoneAsks, Took
<1>17. CloseBacked(d, c2, in2)
  BY DEF Scene, Agreed, Replies, Idle, ProcessFrame, CloseBacked, Took, Roles
<1>18. AckedIsClosed(d, c2, out2)
  BY DEF Scene, Agreed, Replies, Idle, ProcessFrame, AckedIsClosed, Grew
<1>19. CancelBacked(d, c2, in2)
  BY DEF Scene, Agreed, Replies, Idle, ProcessFrame, CancelBacked, Took, Whole
<1>20. CloseOwned(d, Q, out2, in2)
  BY DEF Scene, Agreed, Replies, Idle, ProcessFrame, CloseOwned, Took, Grew
<1>21. QED
  BY <1>1, <1>2, <1>3, <1>4, <1>5, <1>6, <1>7, <1>8, <1>9, <1>10, <1>11, <1>12, <1>13,
     <1>14, <1>15, <1>16, <1>17, <1>18, <1>19, <1>20 DEF Agreed

\* A request that arrives is answered at once, or when the application connects;
\* a request of the channel's own, or an answer to another, is given up for it.
TakesUp(c, P, c2, P2, kk, pp, k, p) ==
  /\ kk = "REQUEST" /\ pp # null
  /\ ~c.active /\ ~c2.active /\ c2.closing = c.closing /\ c2.pending = null
  /\ pp \in P2 /\ P2 \subseteq P \cup {pp}
  /\ \/ /\ c2.awaiting.pid = pp /\ c2.awaiting # NoRequest /\ c2.scheduled = NoRequest
        /\ k = "ACCEPT" /\ p = pp
     \/ /\ c.awaiting = NoRequest /\ c2.awaiting = NoRequest /\ c2.scheduled.pid = pp
        /\ k \in PlainFrame

\* So is that of a request that arrives; what the side had in progress it gives up.
LEMMA TakeUpAgrees ==
  ASSUME NEW c, NEW P, NEW d, NEW Q, NEW in, NEW out, NEW past,
         NEW c2, NEW P2, NEW in2, NEW out2, NEW kk, NEW pp, NEW k, NEW p,
         Scene(c, P, d, Q, in, out, past), Took(in2, in, kk, pp), Grew(out2, out, k, p),
         TakesUp(c, P, c2, P2, kk, pp, k, p)
  PROVE  Agreed(c2, P2, d, Q, in2, out2) /\ Agreed(d, Q, c2, P2, out2, in2)
<1>1. LastWord(c2, d, out2)
  BY DEF Scene, Agreed, TakesUp, PlainFrame, ProcessFrame, LastWord, Answers
<1>2. AskedLast(c2, out2)
  BY DEF Scene, Agreed, TakesUp, PlainFrame, ProcessFrame, AskedLast
<1>3. AcceptLast(c2, d, in2)
  BY DEF Scene, Agreed, TakesUp, PlainFrame, ProcessFrame, AcceptLast
<1>4. HalfOpen(c2, d, Q, in2, out2)
  BY DEF Scene, Agreed, TakesUp, PlainFrame, ProcessFrame, HalfOpen
<1>5. OpenBacked(c2, d, out2)
  BY DEF Scene, Agreed, TakesUp, PlainFrame, ProcessFrame, OpenBacked, Grew
<1>6. NoneAsks(c2, d, out2)
  BY DEF Scene, Agreed, TakesUp, PlainFrame, ProcessFrame, NoneAsks
<1>7. CloseBacked(c2, d, out2)
  BY DEF Scene, Agreed, TakesUp, PlainFrame, ProcessFrame, CloseBacked, Grew, Single
<1>8. AckedIsClosed(c2, d, in2)
  BY DEF Scene, Agreed, TakesUp, PlainFrame, ProcessFrame, AckedIsClosed
<1>9. CancelBacked(c2, d, out2)
  BY DEF Scene, Agreed, TakesUp, PlainFrame, ProcessFrame, CancelBacked, Grew, Single
<1>10. CloseOwned(c2, P2, in2, out2)
  BY DEF Scene, Agreed, TakesUp, PlainFrame, ProcessFrame, CloseOwned, Took, Grew
<1>11. LastWord(d, c2, in2)
  BY DEF Scene, Agreed, TakesUp, PlainFrame, ProcessFrame, LastWord, Took, Answers,
         AskedLast, Whole, NoRequest
<1>12. AskedLast(d, in2)
  BY DEF Scene, Agreed, TakesUp, PlainFrame, ProcessFrame, AskedLast, Took
<1>13. AcceptLast(d, c2, out2)
  BY DEF Scene, Agreed, TakesUp, PlainFrame, ProcessFrame, AcceptLast, LastWord, Answers,
         Took, Grew, Whole, Orderly, Single
<1>14. HalfOpen(d, c2, P2, out2, in2)
  BY DEF Scene, Agreed, TakesUp, PlainFrame, ProcessFrame, HalfOpen, Opening, Ending,
         Whole, Answers, Took, Grew
<1>15. OpenBacked(d, c2, in2)
  BY DEF Scene, Agreed, TakesUp, PlainFrame, ProcessFrame, OpenBacked, Took, Answers,
         Whole, NoRequest
<1>16. NoneAsks(d, c2, in2)
  BY DEF Scene, Agreed, TakesUp, PlainFrame, ProcessFrame, NoneAsks, Took
<1>17. CloseBacked(d, c2, in2)
  BY DEF Scene, Agreed, TakesUp, PlainFrame, ProcessFrame, CloseBacked, Took, Roles
<1>18. AckedIsClosed(d, c2, out2)
  BY DEF Scene, Agreed, TakesUp, PlainFrame, ProcessFrame, AckedIsClosed, Grew
<1>19. CancelBacked(d, c2, in2)
  BY DEF Scene, Agreed, TakesUp, PlainFrame, ProcessFrame, CancelBacked, Took, Whole
<1>20. CloseOwned(d, Q, out2, in2)
  BY DEF Scene, Agreed, TakesUp, PlainFrame, ProcessFrame, CloseOwned, Took, Grew
<1>21. QED
  BY <1>1, <1>2, <1>3, <1>4, <1>5, <1>6, <1>7, <1>8, <1>9, <1>10, <1>11, <1>12, <1>13,
     <1>14, <1>15, <1>16, <1>17, <1>18, <1>19, <1>20 DEF Agreed

\* A gate of the channel's own refuses the answer to its request.
Refuses(c, P, c2, P2, kk, pp, k, p) ==
  /\ kk = "ACCEPT" /\ pp = c.pending /\ pp # null
  /\ ~c.active /\ ~c2.active /\ c2.closing = c.closing /\ c2.pending = null
  /\ c2.awaiting = c.awaiting /\ c2.scheduled = c.scheduled
  /\ P2 \subseteq P
  /\ k = "CANCEL" /\ p = pp

\* A refused answer leaves both sides without a session: the CANCEL that follows
\* ends the answer that is awaited.
LEMMA RefuseAgrees ==
  ASSUME NEW c, NEW P, NEW d, NEW Q, NEW in, NEW out, NEW past,
         NEW c2, NEW P2, NEW in2, NEW out2, NEW kk, NEW pp, NEW k, NEW p,
         Scene(c, P, d, Q, in, out, past), Took(in2, in, kk, pp), Grew(out2, out, k, p),
         Refuses(c, P, c2, P2, kk, pp, k, p)
  PROVE  Agreed(c2, P2, d, Q, in2, out2) /\ Agreed(d, Q, c2, P2, out2, in2)
<1>1. LastWord(c2, d, out2)
  BY DEF Scene, Agreed, Refuses, ProcessFrame, LastWord, Answers
<1>2. AskedLast(c2, out2)
  BY DEF Scene, Agreed, Refuses, ProcessFrame, AskedLast
<1>3. AcceptLast(c2, d, in2)
  BY DEF Scene, Agreed, Refuses, ProcessFrame, AcceptLast
<1>4. HalfOpen(c2, d, Q, in2, out2)
  BY DEF Scene, Agreed, Refuses, ProcessFrame, HalfOpen
<1>5. OpenBacked(c2, d, out2)
  BY DEF Scene, Agreed, Refuses, ProcessFrame, OpenBacked, Grew
<1>6. NoneAsks(c2, d, out2)
  BY DEF Scene, Agreed, Refuses, ProcessFrame, NoneAsks
<1>7. CloseBacked(c2, d, out2)
  BY DEF Scene, Agreed, Refuses, ProcessFrame, CloseBacked, Grew, Single
<1>8. AckedIsClosed(c2, d, in2)
  BY DEF Scene, Agreed, Refuses, ProcessFrame, AckedIsClosed
<1>9. CancelBacked(c2, d, out2)
  BY DEF Scene, Agreed, Refuses, ProcessFrame, CancelBacked, AcceptLast, LastWord, Grew,
         Single, Took, Whole, Answers, Orderly
<1>10. CloseOwned(c2, P2, in2, out2)
  BY DEF Scene, Agreed, Refuses, ProcessFrame, CloseOwned, Took, Grew
<1>11. LastWord(d, c2, in2)
  BY DEF Scene, Agreed, Refuses, ProcessFrame, LastWord, Took, Answers
<1>12. AskedLast(d, in2)
  BY DEF Scene, Agreed, Refuses, ProcessFrame, AskedLast, Took
<1>13. AcceptLast(d, c2, out2)
  BY DEF Scene, Agreed, Refuses, ProcessFrame, AcceptLast, Grew, Roles, Whole
<1>14. HalfOpen(d, c2, P2, out2, in2)
  BY DEF Scene, Agreed, Refuses, ProcessFrame, HalfOpen, Roles, AcceptLast, Took, Whole
<1>15. OpenBacked(d, c2, in2)
  BY DEF Scene, Agreed, Refuses, ProcessFrame, OpenBacked, Took, Answers, Whole
<1>16. NoneAsks(d, c2, in2)
  BY DEF Scene, Agreed, Refuses, ProcessFrame, NoneAsks, Took
<1>17. CloseBacked(d, c2, in2)
  BY DEF Scene, Agreed, Refuses, ProcessFrame, CloseBacked, Took
<1>18. AckedIsClosed(d, c2, out2)
  BY DEF Scene, Agreed, Refuses, ProcessFrame, AckedIsClosed, AcceptLast, Took, Whole,
         Roles
<1>19. CancelBacked(d, c2, in2)
  BY DEF Scene, Agreed, Refuses, ProcessFrame, CancelBacked, Took
<1>20. CloseOwned(d, Q, out2, in2)
  BY DEF Scene, Agreed, Refuses, ProcessFrame, CloseOwned, Took, Grew
<1>21. QED
  BY <1>1, <1>2, <1>3, <1>4, <1>5, <1>6, <1>7, <1>8, <1>9, <1>10, <1>11, <1>12, <1>13,
     <1>14, <1>15, <1>16, <1>17, <1>18, <1>19, <1>20 DEF Agreed

\* The answer to the request in progress opens the session and is confirmed.
Confirms(c, P, c2, P2, out2, kk, pp, k, p) ==
  /\ kk = "ACCEPT" /\ pp = c.pending /\ pp # null
  /\ ~c.active /\ c2.active /\ c2.closing = null /\ c2.pending = null
  /\ c2.awaiting = NoRequest /\ c2.scheduled = NoRequest
  /\ P2 \subseteq P
  /\ k = "OPEN" /\ p = pp /\ p \in Wire(out2)["OPEN"]

\* The initiator is in session first, and its OPEN will find the responder waiting.
LEMMA ConfirmAgrees ==
  ASSUME NEW c, NEW P, NEW d, NEW Q, NEW in, NEW out, NEW past,
         NEW c2, NEW P2, NEW in2, NEW out2, NEW kk, NEW pp, NEW k, NEW p,
         Scene(c, P, d, Q, in, out, past), Took(in2, in, kk, pp), Grew(out2, out, k, p),
         Confirms(c, P, c2, P2, out2, kk, pp, k, p)
  PROVE  Agreed(c2, P2, d, Q, in2, out2) /\ Agreed(d, Q, c2, P2, out2, in2)
<1> DEFINE Still == ProcessFrame \ {"ACCEPT", "DENY"}
<1>22. /\ d.awaiting.pid = pp /\ d.awaiting # NoRequest /\ pp \in Answers(d) /\ pp \in Q
       /\ ~d.active /\ d.pending = null
  BY DEF Scene, Agreed, Confirms, AcceptLast, Took, Roles, Whole, Answers, Routed, Half,
         AnswersKept, ProcessFrame
<1>23. \A l \in Still : Wire(in2)[l] = {}
  BY DEF Scene, Agreed, Confirms, AcceptLast, Took, ProcessFrame
<1>24. Wire(out)["CANCEL"] = {} /\ Wire(out)["REQUEST"] \subseteq {pp} /\ Wire(out)["CLOSE"] = {}
  BY <1>22 DEF Scene, Agreed, Confirms, LastWord, CloseBacked
<1>25. \A l \in ProcessFrame \ {"REQUEST"} : pp \notin Wire(out)[l]
  BY DEF Scene, Confirms, Routed, Half, RequestKept
<1>1. LastWord(c2, d, out2)
  BY <1>22, <1>23, <1>24, <1>25 DEF Scene, Agreed, Confirms, ProcessFrame, LastWord, Answers
<1>2. AskedLast(c2, out2)
  BY <1>22, <1>23, <1>24, <1>25 DEF Scene, Agreed, Confirms, ProcessFrame, AskedLast
<1>3. AcceptLast(c2, d, in2)
  BY <1>22, <1>23, <1>24, <1>25 DEF Scene, Agreed, Confirms, ProcessFrame, AcceptLast
<1>4. HalfOpen(c2, d, Q, in2, out2)
  BY <1>22, <1>23, <1>24, <1>25 DEF Scene, Agreed, Confirms, ProcessFrame, HalfOpen,
     Opening, Grew, Orderly, Single
<1>5. OpenBacked(c2, d, out2)
  BY <1>22, <1>23, <1>24, <1>25 DEF Scene, Agreed, Confirms, ProcessFrame, OpenBacked
<1>6. NoneAsks(c2, d, out2)
  BY <1>22, <1>23, <1>24, <1>25 DEF Scene, Agreed, Confirms, ProcessFrame, NoneAsks
<1>7. CloseBacked(c2, d, out2)
  BY <1>22, <1>23, <1>24, <1>25 DEF Scene, Agreed, Confirms, ProcessFrame, CloseBacked, Grew
<1>8. AckedIsClosed(c2, d, in2)
  BY <1>22, <1>23, <1>24, <1>25 DEF Scene, Agreed, Confirms, ProcessFrame, AckedIsClosed
<1>9. CancelBacked(c2, d, out2)
  BY <1>22, <1>23, <1>24, <1>25 DEF Scene, Agreed, Confirms, ProcessFrame, CancelBacked,
     Grew, Orderly
<1>10. CloseOwned(c2, P2, in2, out2)
  BY <1>22, <1>23, <1>24, <1>25 DEF Scene, Agreed, Confirms, ProcessFrame, CloseOwned, Grew
<1>11. LastWord(d, c2, in2)
  BY <1>22, <1>23, <1>24, <1>25 DEF Scene, Agreed, Confirms, ProcessFrame, LastWord,
     Answers, Whole, Took
<1>12. AskedLast(d, in2)
  BY <1>22, <1>23, <1>24, <1>25 DEF Scene, Agreed, Confirms, ProcessFrame, AskedLast, Took
<1>13. AcceptLast(d, c2, out2)
  BY <1>22, <1>23, <1>24, <1>25 DEF Scene, Agreed, Confirms, ProcessFrame, AcceptLast
<1>14. HalfOpen(d, c2, P2, out2, in2)
  BY <1>22, <1>23, <1>24, <1>25 DEF Scene, Agreed, Confirms, ProcessFrame, HalfOpen
<1>15. OpenBacked(d, c2, in2)
  BY <1>22, <1>23, <1>24, <1>25 DEF Scene, Agreed, Confirms, ProcessFrame, OpenBacked
<1>16. NoneAsks(d, c2, in2)
  BY <1>22, <1>23, <1>24, <1>25 DEF Scene, Agreed, Confirms, ProcessFrame, NoneAsks
<1>17. CloseBacked(d, c2, in2)
  BY <1>22, <1>23, <1>24, <1>25 DEF Scene, Agreed, Confirms, ProcessFrame, CloseBacked
<1>18. AckedIsClosed(d, c2, out2)
  BY <1>22, <1>23, <1>24, <1>25 DEF Scene, Agreed, Confirms, ProcessFrame, AckedIsClosed
<1>19. CancelBacked(d, c2, in2)
  BY <1>22, <1>23, <1>24, <1>25 DEF Scene, Agreed, Confirms, ProcessFrame, CancelBacked
<1>20. CloseOwned(d, Q, out2, in2)
  BY <1>22, <1>23, <1>24, <1>25 DEF Scene, Agreed, Confirms, ProcessFrame, CloseOwned, Grew
<1>21. QED
  BY <1>1, <1>2, <1>3, <1>4, <1>5, <1>6, <1>7, <1>8, <1>9, <1>10, <1>11, <1>12, <1>13,
     <1>14, <1>15, <1>16, <1>17, <1>18, <1>19, <1>20 DEF Agreed

\* The confirmation of the answer that is awaited opens the session.
Settles(c, P, c2, P2, kk, pp, k) ==
  /\ kk = "OPEN" /\ pp = c.awaiting.pid /\ pp # null
  /\ c2.active /\ c2.closing = c.closing /\ c2.pending = null
  /\ c2.awaiting = NoRequest /\ c2.scheduled = NoRequest
  /\ P2 \subseteq P
  /\ k \in PlainFrame

\* The responder follows: whoever sent the OPEN is in the session still.
LEMMA SettleAgrees ==
  ASSUME NEW c, NEW P, NEW d, NEW Q, NEW in, NEW out, NEW past,
         NEW c2, NEW P2, NEW in2, NEW out2, NEW kk, NEW pp, NEW k, NEW p,
         Scene(c, P, d, Q, in, out, past), Took(in2, in, kk, pp), Grew(out2, out, k, p),
         Settles(c, P, c2, P2, kk, pp, k)
  PROVE  Agreed(c2, P2, d, Q, in2, out2) /\ Agreed(d, Q, c2, P2, out2, in2)
<1>22. ~c.active /\ c.closing = null /\ pp \in Answers(c) /\ pp \in Wire(in)["OPEN"]
  BY DEF Scene, Settles, Roles, Whole, Answers, Took, ProcessFrame
<1>23. d.active
  BY <1>22 DEF Scene, Agreed, OpenBacked
<1>24. Opening(c, P, out, in) /\ d.pending = null
  BY <1>22, <1>23 DEF Scene, Agreed, HalfOpen, Ending, Roles
<1>25. \A l \in ProcessFrame \ {"ACCEPT", "DENY"} : Wire(out2)[l] = {}
  BY <1>24 DEF Opening, Grew, Settles, PlainFrame, ProcessFrame
<1>26. Wire(in2)["REQUEST"] = {} /\ Wire(in2)["CANCEL"] = {}
  BY <1>24 DEF Opening, Took, Settles, ProcessFrame
<1>1. LastWord(c2, d, out2)
  BY <1>22, <1>23, <1>24, <1>25, <1>26 DEF Scene, Agreed, Settles, PlainFrame, ProcessFrame,
     LastWord, Answers
<1>2. AskedLast(c2, out2)
  BY <1>22, <1>23, <1>24, <1>25, <1>26 DEF Scene, Agreed, Settles, PlainFrame, ProcessFrame,
     AskedLast
<1>3. AcceptLast(c2, d, in2)
  BY <1>22, <1>23, <1>24, <1>25, <1>26 DEF Scene, Agreed, Settles, PlainFrame, ProcessFrame,
     AcceptLast
<1>4. HalfOpen(c2, d, Q, in2, out2)
  BY <1>22, <1>23, <1>24, <1>25, <1>26 DEF Scene, Agreed, Settles, PlainFrame, ProcessFrame,
     HalfOpen
<1>5. OpenBacked(c2, d, out2)
  BY <1>22, <1>23, <1>24, <1>25, <1>26 DEF Scene, Agreed, Settles, PlainFrame, ProcessFrame,
     OpenBacked
<1>6. NoneAsks(c2, d, out2)
  BY <1>22, <1>23, <1>24, <1>25, <1>26 DEF Scene, Agreed, Settles, PlainFrame, ProcessFrame,
     NoneAsks
<1>7. CloseBacked(c2, d, out2)
  BY <1>22, <1>23, <1>24, <1>25, <1>26 DEF Scene, Agreed, Settles, PlainFrame, ProcessFrame,
     CloseBacked
<1>8. AckedIsClosed(c2, d, in2)
  BY <1>22, <1>23, <1>24, <1>25, <1>26 DEF Scene, Agreed, Settles, PlainFrame, ProcessFrame,
     AckedIsClosed
<1>9. CancelBacked(c2, d, out2)
  BY <1>22, <1>23, <1>24, <1>25, <1>26 DEF Scene, Agreed, Settles, PlainFrame, ProcessFrame,
     CancelBacked
<1>10. CloseOwned(c2, P2, in2, out2)
  BY <1>22, <1>23, <1>24, <1>25, <1>26 DEF Scene, Agreed, Settles, PlainFrame, ProcessFrame,
     CloseOwned, Took
<1>11. LastWord(d, c2, in2)
  BY <1>22, <1>23, <1>24, <1>25, <1>26 DEF Scene, Agreed, Settles, PlainFrame, ProcessFrame,
     LastWord, Answers, Whole
<1>12. AskedLast(d, in2)
  BY <1>22, <1>23, <1>24, <1>25, <1>26 DEF Scene, Agreed, Settles, PlainFrame, ProcessFrame,
     AskedLast
<1>13. AcceptLast(d, c2, out2)
  BY <1>22, <1>23, <1>24, <1>25, <1>26 DEF Scene, Agreed, Settles, PlainFrame, ProcessFrame,
     AcceptLast
<1>14. HalfOpen(d, c2, P2, out2, in2)
  BY <1>22, <1>23, <1>24, <1>25, <1>26 DEF Scene, Agreed, Settles, PlainFrame, ProcessFrame,
     HalfOpen
<1>15. OpenBacked(d, c2, in2)
  BY <1>22, <1>23, <1>24, <1>25, <1>26 DEF Scene, Agreed, Settles, PlainFrame, ProcessFrame,
     OpenBacked
<1>16. NoneAsks(d, c2, in2)
  BY <1>22, <1>23, <1>24, <1>25, <1>26 DEF Scene, Agreed, Settles, PlainFrame, ProcessFrame,
     NoneAsks
<1>17. CloseBacked(d, c2, in2)
  BY <1>22, <1>23, <1>24, <1>25, <1>26 DEF Scene, Agreed, Settles, PlainFrame, ProcessFrame,
     CloseBacked, Took
<1>18. AckedIsClosed(d, c2, out2)
  BY <1>22, <1>23, <1>24, <1>25, <1>26 DEF Scene, Agreed, Settles, PlainFrame, ProcessFrame,
     AckedIsClosed
<1>19. CancelBacked(d, c2, in2)
  BY <1>22, <1>23, <1>24, <1>25, <1>26 DEF Scene, Agreed, Settles, PlainFrame, ProcessFrame,
     CancelBacked
<1>20. CloseOwned(d, Q, out2, in2)
  BY <1>22, <1>23, <1>24, <1>25, <1>26 DEF Scene, Agreed, Settles, PlainFrame, ProcessFrame,
     CloseOwned, Took
<1>21. QED
  BY <1>1, <1>2, <1>3, <1>4, <1>5, <1>6, <1>7, <1>8, <1>9, <1>10, <1>11, <1>12, <1>13,
     <1>14, <1>15, <1>16, <1>17, <1>18, <1>19, <1>20 DEF Agreed

\* A session proposes to close, under a process of its own.
Proposes(c, P, past, c2, P2, kk, k, p) ==
  /\ kk \in PlainFrame
  /\ c.active /\ c.closing = null
  /\ c2.active /\ c2.closing = p /\ c2.pending = c.pending
  /\ c2.awaiting = c.awaiting /\ c2.scheduled = c.scheduled
  /\ k = "CLOSE" /\ p # null /\ p \notin past
  /\ P2 = P \cup {p}

\* A CLOSE is proposed in a session whose other end is in it, or on its way in or
\* out of it.
LEMMA ProposeAgrees ==
  ASSUME NEW c, NEW P, NEW d, NEW Q, NEW in, NEW out, NEW past,
         NEW c2, NEW P2, NEW in2, NEW out2, NEW kk, NEW pp, NEW k, NEW p,
         Scene(c, P, d, Q, in, out, past), Took(in2, in, kk, pp), Grew(out2, out, k, p),
         Proposes(c, P, past, c2, P2, kk, k, p)
  PROVE  Agreed(c2, P2, d, Q, in2, out2) /\ Agreed(d, Q, c2, P2, out2, in2)
<1>1. LastWord(c2, d, out2)
  BY DEF Scene, Agreed, Proposes, ProcessFrame, LastWord, Roles, Answers
<1>2. AskedLast(c2, out2)
  BY DEF Scene, Agreed, Proposes, ProcessFrame, AskedLast, Roles
<1>3. AcceptLast(c2, d, in2)
  BY DEF Scene, Agreed, Proposes, ProcessFrame, AcceptLast, Roles
<1>4. HalfOpen(c2, d, Q, in2, out2)
  BY DEF Scene, Agreed, Proposes, ProcessFrame, HalfOpen, Opening, Ending, Took, Grew,
         Single, Answers, Whole, Routed, Half, Minted
<1>5. OpenBacked(c2, d, out2)
  BY DEF Scene, Agreed, Proposes, ProcessFrame, OpenBacked, Grew
<1>6. NoneAsks(c2, d, out2)
  BY DEF Scene, Agreed, Proposes, ProcessFrame, NoneAsks, Grew
<1>7. CloseBacked(c2, d, out2)
  BY DEF Scene, Agreed, Proposes, ProcessFrame, CloseBacked, Grew, Single, Orderly
<1>8. AckedIsClosed(c2, d, in2)
  BY DEF Scene, Agreed, Proposes, ProcessFrame, AckedIsClosed, Took, Routed, Half,
         Minted
<1>9. CancelBacked(c2, d, out2)
  BY DEF Scene, Agreed, Proposes, ProcessFrame, CancelBacked, Grew, Single
<1>10. CloseOwned(c2, P2, in2, out2)
  BY DEF Scene, Agreed, Proposes, ProcessFrame, CloseOwned, Took, Grew, Orderly, Routed,
         Half, Minted
<1>11. LastWord(d, c2, in2)
  BY DEF Scene, Agreed, Proposes, ProcessFrame, LastWord, Took, Answers
<1>12. AskedLast(d, in2)
  BY DEF Scene, Agreed, Proposes, ProcessFrame, AskedLast, Took
<1>13. AcceptLast(d, c2, out2)
  BY DEF Scene, Agreed, Proposes, ProcessFrame, AcceptLast, Grew, Whole, Roles
<1>14. HalfOpen(d, c2, P2, out2, in2)
  BY DEF Scene, Agreed, Proposes, ProcessFrame, HalfOpen
<1>15. OpenBacked(d, c2, in2)
  BY DEF Scene, Agreed, Proposes, ProcessFrame, OpenBacked, Took, Answers
<1>16. NoneAsks(d, c2, in2)
  BY DEF Scene, Agreed, Proposes, ProcessFrame, NoneAsks, Took
<1>17. CloseBacked(d, c2, in2)
  BY DEF Scene, Agreed, Proposes, ProcessFrame, CloseBacked, Took, Orderly, Routed, Half,
         Minted
<1>18. AckedIsClosed(d, c2, out2)
  BY DEF Scene, Agreed, Proposes, ProcessFrame, AckedIsClosed, Grew
<1>19. CancelBacked(d, c2, in2)
  BY DEF Scene, Agreed, Proposes, ProcessFrame, CancelBacked, Took
<1>20. CloseOwned(d, Q, out2, in2)
  BY DEF Scene, Agreed, Proposes, ProcessFrame, CloseOwned, Took, Grew
<1>21. QED
  BY <1>1, <1>2, <1>3, <1>4, <1>5, <1>6, <1>7, <1>8, <1>9, <1>10, <1>11, <1>12, <1>13,
     <1>14, <1>15, <1>16, <1>17, <1>18, <1>19, <1>20 DEF Agreed

\* The CLOSE of the other side ends the session and is acknowledged.
Hears(c, P, c2, P2, out2, kk, pp, k, p) ==
  /\ kk = "CLOSE" /\ pp # null
  /\ c.active /\ ~c2.active /\ c2.closing = null /\ c2.pending = null
  /\ c2.awaiting = NoRequest /\ c2.scheduled = NoRequest
  /\ P2 \subseteq P \ {c.closing}
  /\ k = "CLOSE_ACK" /\ p = pp /\ p \in Wire(out2)["CLOSE_ACK"]

\* Who hears a CLOSE is out first, and its CLOSE_ACK will find the proposer closing.
LEMMA HearAgrees ==
  ASSUME NEW c, NEW P, NEW d, NEW Q, NEW in, NEW out, NEW past,
         NEW c2, NEW P2, NEW in2, NEW out2, NEW kk, NEW pp, NEW k, NEW p,
         Scene(c, P, d, Q, in, out, past), Took(in2, in, kk, pp), Grew(out2, out, k, p),
         Hears(c, P, c2, P2, out2, kk, pp, k, p)
  PROVE  Agreed(c2, P2, d, Q, in2, out2) /\ Agreed(d, Q, c2, P2, out2, in2)
<1>22. /\ pp \in Wire(in)["CLOSE"] /\ Wire(in2)["CLOSE"] = {}
       /\ \A l \in ProcessFrame : Wire(in2)[l] \subseteq Wire(in)[l]
  BY DEF Scene, Agreed, Hears, Took, CloseBacked, ProcessFrame
<1>23. c.awaiting = NoRequest /\ c.awaiting.pid = null /\ Answers(c2) = {} /\ Wire(out)["CANCEL"] = {}
  BY DEF Scene, Agreed, Hears, Roles, Whole, Answers, CancelBacked
<1>24. \/ /\ d.active /\ d.closing = pp /\ Answers(d) = {}
          /\ Wire(in)["REQUEST"] = {} /\ Wire(in)["CANCEL"] = {} /\ Wire(out)["REQUEST"] = {}
       \/ ~d.active /\ Ending(c, d, in, out)
  <2>1. CASE d.active
    <3>1. Answers(d) = {}
      BY <2>1 DEF Scene, Roles, Whole, Answers, Idle
    <3>2. QED
      BY <2>1, <1>22, <3>1 DEF Scene, Agreed, Hears, NoneAsks, CloseBacked
  <2>2. CASE ~d.active
    <3>1. ~Opening(d, Q, in, out)
      BY <1>22 DEF Opening, ProcessFrame
    <3>2. QED
      BY <2>2, <3>1 DEF Scene, Agreed, Hears, HalfOpen
  <2>3. QED
    BY <2>1, <2>2
<1>1. LastWord(c2, d, out2)
  BY <1>22, <1>23, <1>24 DEF Scene, Agreed, Hears, ProcessFrame, LastWord, Answers
<1>2. AskedLast(c2, out2)
  BY <1>22, <1>23, <1>24 DEF Scene, Agreed, Hears, ProcessFrame, AskedLast
<1>3. AcceptLast(c2, d, in2)
  BY <1>22, <1>23, <1>24 DEF Scene, Agreed, Hears, ProcessFrame, AcceptLast
<1>4. HalfOpen(c2, d, Q, in2, out2)
  BY <1>22, <1>23, <1>24 DEF Scene, Agreed, Hears, ProcessFrame, HalfOpen
<1>5. OpenBacked(c2, d, out2)
  BY <1>22, <1>23, <1>24 DEF Scene, Agreed, Hears, ProcessFrame, OpenBacked, Grew, Ending
<1>6. NoneAsks(c2, d, out2)
  BY <1>22, <1>23, <1>24 DEF Scene, Agreed, Hears, ProcessFrame, NoneAsks
<1>7. CloseBacked(c2, d, out2)
  BY <1>22, <1>23, <1>24 DEF Scene, Agreed, Hears, ProcessFrame, CloseBacked, Grew, Single,
     Orderly,
         AckedIsClosed, Ending
<1>8. AckedIsClosed(c2, d, in2)
  BY <1>22, <1>23, <1>24 DEF Scene, Agreed, Hears, ProcessFrame, AckedIsClosed
<1>9. CancelBacked(c2, d, out2)
  BY <1>22, <1>23, <1>24 DEF Scene, Agreed, Hears, ProcessFrame, CancelBacked, Grew
<1>10. CloseOwned(c2, P2, in2, out2)
  BY <1>22, <1>23, <1>24 DEF Scene, Agreed, Hears, ProcessFrame, CloseOwned, Took, Grew
<1>11. LastWord(d, c2, in2)
  BY <1>22, <1>23, <1>24 DEF Scene, Agreed, Hears, ProcessFrame, LastWord, Answers
<1>12. AskedLast(d, in2)
  BY <1>22, <1>23, <1>24 DEF Scene, Agreed, Hears, ProcessFrame, AskedLast, Took
<1>13. AcceptLast(d, c2, out2)
  BY <1>22, <1>23, <1>24 DEF Scene, Agreed, Hears, ProcessFrame, AcceptLast, Grew
<1>14. HalfOpen(d, c2, P2, out2, in2)
  BY <1>22, <1>23, <1>24 DEF Scene, Agreed, Hears, ProcessFrame, HalfOpen, Ending, Grew
<1>15. OpenBacked(d, c2, in2)
  BY <1>22, <1>23, <1>24 DEF Scene, Agreed, Hears, ProcessFrame, OpenBacked, Took, Answers
<1>16. NoneAsks(d, c2, in2)
  BY <1>22, <1>23, <1>24 DEF Scene, Agreed, Hears, ProcessFrame, NoneAsks
<1>17. CloseBacked(d, c2, in2)
  BY <1>22, <1>23, <1>24 DEF Scene, Agreed, Hears, ProcessFrame, CloseBacked
<1>18. AckedIsClosed(d, c2, out2)
  BY <1>22, <1>23, <1>24 DEF Scene, Agreed, Hears, ProcessFrame, AckedIsClosed
<1>19. CancelBacked(d, c2, in2)
  BY <1>22, <1>23, <1>24 DEF Scene, Agreed, Hears, ProcessFrame, CancelBacked, Took
<1>20. CloseOwned(d, Q, out2, in2)
  BY <1>22, <1>23, <1>24 DEF Scene, Agreed, Hears, ProcessFrame, CloseOwned, Grew
<1>21. QED
  BY <1>1, <1>2, <1>3, <1>4, <1>5, <1>6, <1>7, <1>8, <1>9, <1>10, <1>11, <1>12, <1>13,
     <1>14, <1>15, <1>16, <1>17, <1>18, <1>19, <1>20 DEF Agreed

\* The acknowledgement of the close it proposed ends the session.
Closes(c, P, c2, P2, kk, pp, k) ==
  /\ kk = "CLOSE_ACK" /\ pp = c.closing /\ pp # null
  /\ c.active /\ ~c2.active /\ c2.closing = null /\ c2.pending = null
  /\ c2.awaiting = NoRequest /\ c2.scheduled = NoRequest
  /\ P2 \subseteq P \ {pp}
  /\ k \in PlainFrame

\* The proposer follows: whoever sent the CLOSE_ACK had left already.
LEMMA CloseAgrees ==
  ASSUME NEW c, NEW P, NEW d, NEW Q, NEW in, NEW out, NEW past,
         NEW c2, NEW P2, NEW in2, NEW out2, NEW kk, NEW pp, NEW k, NEW p,
         Scene(c, P, d, Q, in, out, past), Took(in2, in, kk, pp), Grew(out2, out, k, p),
         Closes(c, P, c2, P2, kk, pp, k)
  PROVE  Agreed(c2, P2, d, Q, in2, out2) /\ Agreed(d, Q, c2, P2, out2, in2)
<1>22. /\ pp \in Wire(in)["CLOSE_ACK"] /\ \A l \in ProcessFrame : Wire(in2)[l] \subseteq Wire(in)[l]
  BY DEF Closes, Took, ProcessFrame
<1>23. c.awaiting = NoRequest /\ c.awaiting.pid = null /\ Answers(c2) = {}
  BY DEF Scene, Closes, Roles, Whole, Answers
<1>24. ~d.active /\ Ending(c, d, in, out)
  <2>1. ~d.active
    BY <1>22 DEF Scene, Agreed, Closes, AckedIsClosed
  <2>2. ~Opening(d, Q, in, out)
    BY <1>22 DEF Opening, ProcessFrame
  <2>3. QED
    BY <2>1, <2>2 DEF Scene, Agreed, Closes, HalfOpen
<1>25. \A l \in ProcessFrame : Wire(out2)[l] = Wire(out)[l]
  BY DEF Grew, Closes, PlainFrame, ProcessFrame
<1>1. LastWord(c2, d, out2)
  BY <1>22, <1>23, <1>24, <1>25 DEF Scene, Agreed, Closes, PlainFrame, ProcessFrame,
     LastWord, Answers
<1>2. AskedLast(c2, out2)
  BY <1>22, <1>23, <1>24, <1>25 DEF Scene, Agreed, Closes, PlainFrame, ProcessFrame, AskedLast
<1>3. AcceptLast(c2, d, in2)
  BY <1>22, <1>23, <1>24, <1>25 DEF Scene, Agreed, Closes, PlainFrame, ProcessFrame, AcceptLast
<1>4. HalfOpen(c2, d, Q, in2, out2)
  BY <1>22, <1>23, <1>24, <1>25 DEF Scene, Agreed, Closes, PlainFrame, ProcessFrame, HalfOpen
<1>5. OpenBacked(c2, d, out2)
  BY <1>22, <1>23, <1>24, <1>25 DEF Scene, Agreed, Closes, PlainFrame, ProcessFrame,
     OpenBacked, Ending
<1>6. NoneAsks(c2, d, out2)
  BY <1>22, <1>23, <1>24, <1>25 DEF Scene, Agreed, Closes, PlainFrame, ProcessFrame, NoneAsks
<1>7. CloseBacked(c2, d, out2)
  BY <1>22, <1>23, <1>24, <1>25 DEF Scene, Agreed, Closes, PlainFrame, ProcessFrame,
     CloseBacked, Ending
<1>8. AckedIsClosed(c2, d, in2)
  BY <1>22, <1>23, <1>24, <1>25 DEF Scene, Agreed, Closes, PlainFrame, ProcessFrame,
     AckedIsClosed
<1>9. CancelBacked(c2, d, out2)
  BY <1>22, <1>23, <1>24, <1>25 DEF Scene, Agreed, Closes, PlainFrame, ProcessFrame,
     CancelBacked, Ending
<1>10. CloseOwned(c2, P2, in2, out2)
  BY <1>22, <1>23, <1>24, <1>25 DEF Scene, Agreed, Closes, PlainFrame, ProcessFrame,
     CloseOwned, Ending, Took
<1>11. LastWord(d, c2, in2)
  BY <1>22, <1>23, <1>24, <1>25 DEF Scene, Agreed, Closes, PlainFrame, ProcessFrame,
     LastWord, Answers
<1>12. AskedLast(d, in2)
  BY <1>22, <1>23, <1>24, <1>25 DEF Scene, Agreed, Closes, PlainFrame, ProcessFrame,
     AskedLast, Took
<1>13. AcceptLast(d, c2, out2)
  BY <1>22, <1>23, <1>24, <1>25 DEF Scene, Agreed, Closes, PlainFrame, ProcessFrame, AcceptLast
<1>14. HalfOpen(d, c2, P2, out2, in2)
  BY <1>22, <1>23, <1>24, <1>25 DEF Scene, Agreed, Closes, PlainFrame, ProcessFrame, HalfOpen
<1>15. OpenBacked(d, c2, in2)
  BY <1>22, <1>23, <1>24, <1>25 DEF Scene, Agreed, Closes, PlainFrame, ProcessFrame,
     OpenBacked, Answers
<1>16. NoneAsks(d, c2, in2)
  BY <1>22, <1>23, <1>24, <1>25 DEF Scene, Agreed, Closes, PlainFrame, ProcessFrame, NoneAsks
<1>17. CloseBacked(d, c2, in2)
  BY <1>22, <1>23, <1>24, <1>25 DEF Scene, Agreed, Closes, PlainFrame, ProcessFrame,
     CloseBacked, Took
<1>18. AckedIsClosed(d, c2, out2)
  BY <1>22, <1>23, <1>24, <1>25 DEF Scene, Agreed, Closes, PlainFrame, ProcessFrame,
     AckedIsClosed
<1>19. CancelBacked(d, c2, in2)
  BY <1>22, <1>23, <1>24, <1>25 DEF Scene, Agreed, Closes, PlainFrame, ProcessFrame,
     CancelBacked, Took
<1>20. CloseOwned(d, Q, out2, in2)
  BY <1>22, <1>23, <1>24, <1>25 DEF Scene, Agreed, Closes, PlainFrame, ProcessFrame, CloseOwned
<1>21. QED
  BY <1>1, <1>2, <1>3, <1>4, <1>5, <1>6, <1>7, <1>8, <1>9, <1>10, <1>11, <1>12, <1>13,
     <1>14, <1>15, <1>16, <1>17, <1>18, <1>19, <1>20 DEF Agreed

\* The CANCEL of the other side ends whatever is in progress.
Yields(c, P, c2, P2, kk, pp, k) ==
  /\ kk = "CANCEL"
  /\ ~c2.active /\ c2.closing = null /\ c2.pending = null
  /\ c2.awaiting = NoRequest /\ c2.scheduled = NoRequest
  /\ P2 \subseteq P
  /\ k = "CANCEL_ACK"

\* A CANCEL reaches a side that awaits, never one in session.
LEMMA YieldAgrees ==
  ASSUME NEW c, NEW P, NEW d, NEW Q, NEW in, NEW out, NEW past,
         NEW c2, NEW P2, NEW in2, NEW out2, NEW kk, NEW pp, NEW k, NEW p,
         Scene(c, P, d, Q, in, out, past), Took(in2, in, kk, pp), Grew(out2, out, k, p),
         Yields(c, P, c2, P2, kk, pp, k)
  PROVE  Agreed(c2, P2, d, Q, in2, out2) /\ Agreed(d, Q, c2, P2, out2, in2)
<1>22. /\ pp \in Wire(in)["CANCEL"] /\ Wire(in2)["CANCEL"] = {}
       /\ \A l \in ProcessFrame : Wire(in2)[l] \subseteq Wire(in)[l]
  BY DEF Scene, Agreed, Yields, Took, CancelBacked, ProcessFrame
<1>23. ~d.active /\ c.awaiting # NoRequest /\ ~c.active /\ c.closing = null
  BY <1>22 DEF Scene, Agreed, CancelBacked, Roles
<1>24. Answers(c2) = {}
  BY DEF Yields, Answers, NoRequest
<1>1. LastWord(c2, d, out2)
  BY <1>22, <1>23, <1>24 DEF Scene, Agreed, Yields, ProcessFrame, LastWord, Answers
<1>2. AskedLast(c2, out2)
  BY <1>22, <1>23, <1>24 DEF Scene, Agreed, Yields, ProcessFrame, AskedLast
<1>3. AcceptLast(c2, d, in2)
  BY <1>22, <1>23, <1>24 DEF Scene, Agreed, Yields, ProcessFrame, AcceptLast
<1>4. HalfOpen(c2, d, Q, in2, out2)
  BY <1>22, <1>23, <1>24 DEF Scene, Agreed, Yields, ProcessFrame, HalfOpen
<1>5. OpenBacked(c2, d, out2)
  BY <1>22, <1>23, <1>24 DEF Scene, Agreed, Yields, ProcessFrame, OpenBacked, Grew
<1>6. NoneAsks(c2, d, out2)
  BY <1>22, <1>23, <1>24 DEF Scene, Agreed, Yields, ProcessFrame, NoneAsks
<1>7. CloseBacked(c2, d, out2)
  BY <1>22, <1>23, <1>24 DEF Scene, Agreed, Yields, ProcessFrame, CloseBacked, Grew, Single
<1>8. AckedIsClosed(c2, d, in2)
  BY <1>22, <1>23, <1>24 DEF Scene, Agreed, Yields, ProcessFrame, AckedIsClosed
<1>9. CancelBacked(c2, d, out2)
  BY <1>22, <1>23, <1>24 DEF Scene, Agreed, Yields, ProcessFrame, CancelBacked, Grew, Single
<1>10. CloseOwned(c2, P2, in2, out2)
  BY <1>22, <1>23, <1>24 DEF Scene, Agreed, Yields, ProcessFrame, CloseOwned, Grew, Took
<1>11. LastWord(d, c2, in2)
  BY <1>22, <1>23, <1>24 DEF Scene, Agreed, Yields, ProcessFrame, LastWord
<1>12. AskedLast(d, in2)
  BY <1>22, <1>23, <1>24 DEF Scene, Agreed, Yields, ProcessFrame, AskedLast, Took
<1>13. AcceptLast(d, c2, out2)
  BY <1>22, <1>23, <1>24 DEF Scene, Agreed, Yields, ProcessFrame, AcceptLast, LastWord,
     Answers, Grew
<1>14. HalfOpen(d, c2, P2, out2, in2)
  BY <1>22, <1>23, <1>24 DEF Scene, Agreed, Yields, ProcessFrame, HalfOpen
<1>15. OpenBacked(d, c2, in2)
  BY <1>22, <1>23, <1>24 DEF Scene, Agreed, Yields, ProcessFrame, OpenBacked
<1>16. NoneAsks(d, c2, in2)
  BY <1>22, <1>23, <1>24 DEF Scene, Agreed, Yields, ProcessFrame, NoneAsks
<1>17. CloseBacked(d, c2, in2)
  BY <1>22, <1>23, <1>24 DEF Scene, Agreed, Yields, ProcessFrame, CloseBacked, Took
<1>18. AckedIsClosed(d, c2, out2)
  BY <1>22, <1>23, <1>24 DEF Scene, Agreed, Yields, ProcessFrame, AckedIsClosed
<1>19. CancelBacked(d, c2, in2)
  BY <1>22, <1>23, <1>24 DEF Scene, Agreed, Yields, ProcessFrame, CancelBacked, Took
<1>20. CloseOwned(d, Q, out2, in2)
  BY <1>22, <1>23, <1>24 DEF Scene, Agreed, Yields, ProcessFrame, CloseOwned, Grew
<1>21. QED
  BY <1>1, <1>2, <1>3, <1>4, <1>5, <1>6, <1>7, <1>8, <1>9, <1>10, <1>11, <1>12, <1>13,
     <1>14, <1>15, <1>16, <1>17, <1>18, <1>19, <1>20 DEF Agreed

-----------------------------------------------------------------------------
(* Every step of a side is of one of those kinds.                          *)

Agreeable(c, P, past, c2, P2, out2, kk, pp, k, p) ==
  \/ Rests(c, P, c2, P2, kk, pp, k, p)
  \/ Asks(c, P, past, c2, P2, kk, k, p)
  \/ Replies(c, P, c2, P2, kk, k, p)
  \/ TakesUp(c, P, c2, P2, kk, pp, k, p)
  \/ Refuses(c, P, c2, P2, kk, pp, k, p)
  \/ Confirms(c, P, c2, P2, out2, kk, pp, k, p)
  \/ Settles(c, P, c2, P2, kk, pp, k)
  \/ Proposes(c, P, past, c2, P2, kk, k, p)
  \/ Hears(c, P, c2, P2, out2, kk, pp, k, p)
  \/ Closes(c, P, c2, P2, kk, pp, k)
  \/ Yields(c, P, c2, P2, kk, pp, k)

\* A step of any kind keeps what both sides agree on.
LEMMA StepAgrees ==
  ASSUME NEW c, NEW P, NEW d, NEW Q, NEW in, NEW out, NEW past,
         NEW c2, NEW P2, NEW in2, NEW out2, NEW kk, NEW pp, NEW k, NEW p,
         Scene(c, P, d, Q, in, out, past), Took(in2, in, kk, pp), Grew(out2, out, k, p),
         Agreeable(c, P, past, c2, P2, out2, kk, pp, k, p)
  PROVE  Agreed(c2, P2, d, Q, in2, out2) /\ Agreed(d, Q, c2, P2, out2, in2)
<1> DEFINE Goal == Agreed(c2, P2, d, Q, in2, out2) /\ Agreed(d, Q, c2, P2, out2, in2)
<1>1. ASSUME Rests(c, P, c2, P2, kk, pp, k, p) PROVE Goal
  BY <1>1, RestAgrees
<1>2. ASSUME Asks(c, P, past, c2, P2, kk, k, p) PROVE Goal
  BY <1>2, AskAgrees
<1>3. ASSUME Replies(c, P, c2, P2, kk, k, p) PROVE Goal
  BY <1>3, ReplyAgrees
<1>4. ASSUME TakesUp(c, P, c2, P2, kk, pp, k, p) PROVE Goal
  BY <1>4, TakeUpAgrees
<1>5. ASSUME Refuses(c, P, c2, P2, kk, pp, k, p) PROVE Goal
  BY <1>5, RefuseAgrees
<1>6. ASSUME Confirms(c, P, c2, P2, out2, kk, pp, k, p) PROVE Goal
  BY <1>6, ConfirmAgrees
<1>7. ASSUME Settles(c, P, c2, P2, kk, pp, k) PROVE Goal
  BY <1>7, SettleAgrees
<1>8. ASSUME Proposes(c, P, past, c2, P2, kk, k, p) PROVE Goal
  BY <1>8, ProposeAgrees
<1>9. ASSUME Hears(c, P, c2, P2, out2, kk, pp, k, p) PROVE Goal
  BY <1>9, HearAgrees
<1>10. ASSUME Closes(c, P, c2, P2, kk, pp, k) PROVE Goal
  BY <1>10, CloseAgrees
<1>11. ASSUME Yields(c, P, c2, P2, kk, pp, k) PROVE Goal
  BY <1>11, YieldAgrees
<1> HIDE DEF Goal
<1>12. Goal
  BY <1>1, <1>2, <1>3, <1>4, <1>5, <1>6, <1>7, <1>8, <1>9, <1>10, <1>11 DEF Agreeable
<1>13. QED
  BY <1>12 DEF Goal

\* No REQUEST reaches a side that is in session.
LEMMA SessionIsUnasked ==
  ASSUME NEW c, NEW P, NEW d, NEW Q, NEW in, NEW out, NEW past, NEW in2, NEW pp,
         Scene(c, P, d, Q, in, out, past), Took(in2, in, "REQUEST", pp)
  PROVE  ~c.active
<1> SUFFICES ASSUME c.active PROVE FALSE
  OBVIOUS
<1>1. pp \in Wire(in)["REQUEST"]
  BY DEF Took, ProcessFrame
<1>2. ~d.active
  BY <1>1 DEF Scene, Agreed, NoneAsks
<1>3. ~Opening(d, Q, in, out)
  BY <1>1 DEF Opening, ProcessFrame
<1>4. Ending(c, d, in, out)
  BY <1>2, <1>3 DEF Scene, Agreed, HalfOpen
<1>5. c.closing \notin Trail(in, "REQUEST", pp)["CLOSE_ACK"]
  BY <1>1, <1>4 DEF Ending
<1>6. c.closing \in Wire(in2)["CLOSE_ACK"]
  BY <1>4 DEF Ending, Took, ProcessFrame
<1>7. QED
  BY <1>5, <1>6 DEF Took, ProcessFrame

-----------------------------------------------------------------------------
(* The state.                                                              *)

\* Only the pages that are loaded have ever been, and each frame in flight was
\* posted by the page in the other window.
Pages ==
  /\ used \subseteq {broker[s] : s \in Side}
  /\ \A s \in Side : \A i \in DOMAIN net[s] : net[s][i].from = broker[Other(s)]

\* A channel that answers names the requester.
Named(c) == c.awaiting # NoRequest => c.peerId = c.awaiting.from

AgreedAt(s) ==
  Agreed(chan[s], procs[s], chan[Other(s)], procs[Other(s)], net[s], net[Other(s)])

Accords == \A s \in Side : Named(chan[s]) /\ AgreedAt(s)

AInv == RInv /\ Consents /\ Pages /\ Accords

\* The kinds of the frames and the ids they carry make the wires orderly.
LEMMA WiresOrderly ==
  ASSUME NEW q \in Seq(Frame)
  PROVE  Orderly(q)
<1>1. ASSUME NEW k \in ProcessFrame PROVE null \notin Wire(q)[k]
  <2> SUFFICES ASSUME null \in Wire(q)[k] PROVE FALSE
    OBVIOUS
  <2>1. PICK i \in 1 .. Len(q) : q[i].type = k /\ q[i].pid = null
    BY WireMember
  <2>2. q[i] \in Frame
    OBVIOUS
  <2>3. q[i].pid \in Pid
    BY <2>1, <2>2 DEF Frame, ProcessFrame, PlainFrame
  <2>4. QED
    BY <2>1, <2>3, NullIsNone
<1>2. QED
  BY <1>1, TrailFlies DEF Orderly

\* A request is there or not, and its process id with it.
LEMMA ChannelIsWhole ==
  ASSUME NEW c \in Channel
  PROVE  Whole(c)
<1>1. \A r \in Request \cup {NoRequest} : r = NoRequest <=> r.pid = null
  BY NullIsNone DEF Request, NoRequest
<1>2. QED
  BY <1>1 DEF Channel, Whole

\* The invariant, as the steps of one side start from it.
LEMMA SceneAt ==
  ASSUME AInv, NEW s \in Side
  PROVE  Scene(chan[s], procs[s], chan[Other(s)], procs[Other(s)],
               net[s], net[Other(s)], Past)
<1>1. Other(s) \in Side /\ Other(Other(s)) = s
  BY OtherOther
<1>2. /\ chan[s] \in Channel /\ chan[Other(s)] \in Channel
      /\ net[s] \in Seq(Frame) /\ net[Other(s)] \in Seq(Frame)
      /\ Roles(chan[s]) /\ Roles(chan[Other(s)])
  BY <1>1 DEF AInv, RInv, IInv, TypeOK, Sound
<1>3. /\ Whole(chan[s]) /\ Whole(chan[Other(s)])
      /\ Orderly(net[s]) /\ Orderly(net[Other(s)])
  BY <1>2, ChannelIsWhole, WiresOrderly
<1>4. Routed(chan[s], procs[s], chan[Other(s)], procs[Other(s)],
             Wire(net[s]), Wire(net[Other(s)]), Past)
  BY DEF AInv, RInv, Routing, RoutedAt
<1>5. /\ Agreed(chan[s], procs[s], chan[Other(s)], procs[Other(s)], net[s], net[Other(s)])
      /\ Agreed(chan[Other(s)], procs[Other(s)], chan[s], procs[s], net[Other(s)], net[s])
  BY <1>1 DEF AInv, Accords, AgreedAt
<1>6. QED
  BY <1>2, <1>3, <1>4, <1>5 DEF Scene

-----------------------------------------------------------------------------
(* What a commit does to the frames in flight.                             *)

\* The process ids in flight once more frames are posted.
LEMMA WireGrows ==
  ASSUME NEW q \in Seq(Frame), NEW r \in Seq(Frame), NEW k \in ProcessFrame
  PROVE  Wire(q)[k] \subseteq Wire(q \o r)[k] /\ Wire(r)[k] \subseteq Wire(q \o r)[k]
<1> DEFINE v == q \o r
<1>1. /\ v \in Seq(Frame) /\ Len(v) = Len(q) + Len(r) /\ Len(q) \in Nat /\ Len(r) \in Nat
      /\ \A i \in 1 .. Len(q) : v[i] = q[i] /\ i \in 1 .. Len(v)
      /\ \A i \in 1 .. Len(r) : v[Len(q) + i] = r[i] /\ Len(q) + i \in 1 .. Len(v)
  OBVIOUS
<1> HIDE DEF v
<1>2. ASSUME NEW x \in Wire(q)[k] PROVE x \in Wire(v)[k]
  <2>1. PICK i \in 1 .. Len(q) : q[i].type = k /\ q[i].pid = x
    BY WireMember
  <2>2. i \in 1 .. Len(v) /\ v[i].type = k /\ v[i].pid = x
    BY <1>1, <2>1
  <2>3. QED
    BY <1>1, <2>2, WireMember
<1>3. ASSUME NEW x \in Wire(r)[k] PROVE x \in Wire(v)[k]
  <2>1. PICK i \in 1 .. Len(r) : r[i].type = k /\ r[i].pid = x
    BY WireMember
  <2>2. Len(q) + i \in 1 .. Len(v) /\ v[Len(q) + i].type = k /\ v[Len(q) + i].pid = x
    BY <1>1, <2>1
  <2>3. QED
    BY <1>1, <2>2, WireMember
<1>4. QED
  BY <1>2, <1>3 DEF v

\* Nothing is taken.
LEMMA TookNothing ==
  ASSUME NEW q
  PROVE  Took(q, q, "MESSAGE", null)
BY DEF Took, PlainFrame, ProcessFrame

\* The oldest frame is taken.
LEMMA TookOldest ==
  ASSUME NEW q \in Seq(Frame), q # << >>
  PROVE  Took(Tail(q), q, Head(q).type, Head(q).pid)
<1> DEFINE f == Head(q)
           r == Tail(q)
<1>1. f \in Frame
  OBVIOUS
<1>2. f.type \in ProcessFrame \cup PlainFrame
  BY <1>1 DEF Frame
<1> HIDE DEF f
<1>3. ASSUME NEW l \in ProcessFrame
      PROVE  /\ Wire(r)[l] \subseteq Wire(q)[l]
             /\ \A x \in Wire(q)[l] : x \in Wire(r)[l] \/ (l = f.type /\ x = f.pid)
             /\ \A m, x : Trail(r, m, x)[l] \subseteq Trail(q, m, x)[l]
             /\ Wire(r)[l] \subseteq Trail(q, f.type, f.pid)[l]
  <2>1. Wire(r)[l] \subseteq Wire(q)[l]
    BY WireTail
  <2>2. \A x : /\ \A k, p : x \in Trail(r, k, p)[l] => x \in Trail(q, k, p)[l]
               /\ x \in Wire(r)[l] => x \in Trail(q, f.type, f.pid)[l]
               /\ x \in Wire(q)[l] => x \in Wire(r)[l] \/ (f.type = l /\ f.pid = x)
    BY TrailTail DEF f
  <2> HIDE DEF r
  <2>3. QED
    BY <2>1, <2>2
<1>4. f.type \in ProcessFrame => f.pid \in Wire(q)[f.type]
  BY WireTail DEF f
<1> HIDE DEF r
<1>5. Took(r, q, f.type, f.pid)
  BY <1>2, <1>3, <1>4 DEF Took
<1>6. QED
  BY <1>5 DEF r, f

\* Frames are posted.
LEMMA GrewBy ==
  ASSUME NEW q \in Seq(Frame), NEW r \in Seq(Frame), NEW k, NEW p,
         \A l \in ProcessFrame : Wire(r)[l] \subseteq IF l = k THEN {p} ELSE {},
         k \in Single => Len(r) <= 1
  PROVE  Grew(q \o r, q, k, p)
<1> DEFINE v == q \o r
<1>1. ASSUME NEW l \in ProcessFrame
      PROVE  /\ Wire(q)[l] \subseteq Wire(v)[l]
             /\ \A x \in Wire(v)[l] : x \in Wire(q)[l] \/ (l = k /\ x = p)
  BY <1>1, WireGrows, WireConcat
<1>2. ASSUME NEW m \in ProcessFrame, NEW x, NEW l \in ProcessFrame,
             NEW y, y \in Trail(v, m, x)[l], y \notin Trail(q, m, x)[l]
      PROVE  /\ l = k /\ y = p
             /\ x \in Wire(q)[m] \/ (m = k /\ x = p /\ k \notin Single)
  <2>1. \/ y \in Trail(r, m, x)[l]
        \/ y \in Wire(r)[l] /\ x \in Wire(q)[m]
    BY <1>2, TrailConcat
  <2>2. CASE y \in Wire(r)[l] /\ x \in Wire(q)[m]
    BY <2>2
  <2>3. CASE y \in Trail(r, m, x)[l]
    <3>1. y \in Wire(r)[l] /\ x \in Wire(r)[m]
      BY <2>3, TrailFlies
    <3>2. k \notin Single
      BY <2>3, TrailShort
    <3>3. QED
      BY <3>1, <3>2
  <2>4. QED
    BY <2>1, <2>2, <2>3
<1> HIDE DEF v
<1>3. Grew(v, q, k, p)
  BY <1>1, <1>2 DEF Grew
<1>4. QED
  BY <1>3 DEF v

\* No frame with a process is posted.
LEMMA GrewNothing ==
  ASSUME NEW q
  PROVE  Grew(q, q, "MESSAGE", null)
BY DEF Grew

-----------------------------------------------------------------------------
(* What a step of a side leaves both agreed on.                            *)

\* A step that both agree on, taken by side s, leaves the state agreed on.
LEMMA AccordsAfter ==
  ASSUME AInv, NEW s \in Side, NEW c2, NEW P2, NEW in2, NEW out2,
         NEW kk, NEW pp, NEW k, NEW p,
         chan' = [chan EXCEPT ![s] = c2], procs' = [procs EXCEPT ![s] = P2],
         net'[s] = in2, net'[Other(s)] = out2,
         Took(in2, net[s], kk, pp), Grew(out2, net[Other(s)], k, p),
         Agreeable(chan[s], procs[s], Past, c2, P2, out2, kk, pp, k, p),
         Named(c2)
  PROVE  Accords'
<1> DEFINE t == Other(s)
<1>1. t \in Side /\ t # s /\ Other(t) = s /\ \A u \in Side : u = s \/ u = t
  BY OtherOther
<1>2. Scene(chan[s], procs[s], chan[t], procs[t], net[s], net[t], Past)
  BY SceneAt
<1>3. /\ Agreed(c2, P2, chan[t], procs[t], in2, out2)
      /\ Agreed(chan[t], procs[t], c2, P2, out2, in2)
  BY <1>2, StepAgrees
<1>4. chan \in [Side -> Channel] /\ procs \in [Side -> SUBSET Pid]
  BY DEF AInv, RInv, IInv, TypeOK
<1>5. net'[s] = in2 /\ net'[t] = out2
  OBVIOUS
<1>6. t = Other(s)
  OBVIOUS
<1> HIDE DEF t
<1>7. chan'[s] = c2 /\ chan'[t] = chan[t] /\ procs'[s] = P2 /\ procs'[t] = procs[t]
  BY <1>1, <1>4
<1>8. Named(chan[t])
  BY <1>1 DEF AInv, Accords
<1>9. AgreedAt(s)' /\ AgreedAt(t)'
  BY <1>1, <1>3, <1>5, <1>6, <1>7 DEF AgreedAt
<1>10. Named(chan'[s]) /\ Named(chan'[t])
  BY <1>7, <1>8
<1>11. QED
  BY <1>1, <1>9, <1>10 DEF Accords

\* Of the frames a step posts, only whether its own is among them matters.
LEMMA AgreeableMore ==
  ASSUME NEW c, NEW P, NEW past, NEW c2, NEW P2, NEW q \in Seq(Frame), NEW r \in Seq(Frame),
         NEW kk, NEW pp, NEW k, NEW p, Agreeable(c, P, past, c2, P2, r, kk, pp, k, p)
  PROVE  Agreeable(c, P, past, c2, P2, q \o r, kk, pp, k, p)
<1>1. /\ Wire(r)["OPEN"] \subseteq Wire(q \o r)["OPEN"]
      /\ Wire(r)["CLOSE_ACK"] \subseteq Wire(q \o r)["CLOSE_ACK"]
  BY WireGrows DEF ProcessFrame
<1> DEFINE v == q \o r
<1>2. /\ Wire(r)["OPEN"] \subseteq Wire(v)["OPEN"]
      /\ Wire(r)["CLOSE_ACK"] \subseteq Wire(v)["CLOSE_ACK"]
  BY <1>1
<1> HIDE DEF v
<1>3. Confirms(c, P, c2, P2, r, kk, pp, k, p) => Confirms(c, P, c2, P2, v, kk, pp, k, p)
  BY <1>2 DEF Confirms
<1>4. Hears(c, P, c2, P2, r, kk, pp, k, p) => Hears(c, P, c2, P2, v, kk, pp, k, p)
  BY <1>2 DEF Hears
<1>5. Agreeable(c, P, past, c2, P2, v, kk, pp, k, p)
  BY <1>3, <1>4 DEF Agreeable
<1>6. QED
  BY <1>5 DEF v

\* The work w of side s, which took a frame of kind kk and process pp and
\* posted, at most, one of kind k and process p besides messages.
Agrees(s, w, kk, pp, k, p) ==
  /\ Adds(w, Work(s), k, p)
  /\ k \in Single => Len(w.out) <= 1
  /\ Agreeable(chan[s], procs[s], Past, w.ch, w.procs, w.out, kk, pp, k, p)
  /\ Named(w.ch)

\* Committing such work leaves the state agreed on.
LEMMA CommitAccords ==
  ASSUME AInv, NEW s \in Side, Up(s), NEW w \in WorkOK, NEW rest \in Seq(Frame),
         NEW kk, NEW pp, NEW k, NEW p, Commit(s, w, rest),
         Took(rest, net[s], kk, pp), Agrees(s, w, kk, pp, k, p)
  PROVE  Accords'
<1>1. /\ Other(s) \in Side /\ Other(s) # s
      /\ net \in [Side -> Seq(Frame)] /\ w.out \in Seq(Frame)
  BY OtherSide DEF AInv, RInv, IInv, TypeOK, WorkOK
<1>2. net'[s] = rest /\ net'[Other(s)] = net[Other(s)] \o w.out
  BY <1>1 DEF Commit
<1>3. chan' = [chan EXCEPT ![s] = w.ch] /\ procs' = [procs EXCEPT ![s] = w.procs]
  BY DEF Commit
<1>4. \A l \in ProcessFrame : Wire(w.out)[l] \subseteq IF l = k THEN {p} ELSE {}
  <2>1. \A l \in ProcessFrame : Wire(Work(s).out)[l] = {}
    BY MoveContext DEF AInv, RInv
  <2>2. QED
    BY <2>1 DEF Agrees, Adds
<1> DEFINE q == net[Other(s)]
<1>5. q \in Seq(Frame)
  BY <1>1
<1>6. Grew(q \o w.out, q, k, p)
  BY <1>1, <1>4, <1>5, GrewBy DEF Agrees
<1>7. Agreeable(chan[s], procs[s], Past, w.ch, w.procs, q \o w.out, kk, pp, k, p)
  BY <1>1, <1>5, AgreeableMore DEF Agrees
<1>8. QED
  BY <1>2, <1>3, <1>6, <1>7, AccordsAfter DEF Agrees

\* A call or a timer takes nothing, a handler the oldest frame.
LEMMA CallAccords ==
  ASSUME AInv, NEW s \in Side, Up(s), NEW w \in WorkOK, NEW k, NEW p,
         Commit(s, w, net[s]), Agrees(s, w, "MESSAGE", null, k, p)
  PROVE  Accords'
<1>1. net[s] \in Seq(Frame)
  BY DEF AInv, RInv, IInv, TypeOK
<1>2. Took(net[s], net[s], "MESSAGE", null)
  BY TookNothing
<1>3. QED
  BY <1>1, <1>2, CommitAccords

LEMMA HandlerAccords ==
  ASSUME AInv, NEW s \in Side, NEW type, Arriving(s, type), NEW w \in WorkOK, NEW k, NEW p,
         Commit(s, w, Tail(net[s])), Agrees(s, w, type, Head(net[s]).pid, k, p)
  PROVE  Accords'
<1>1. net[s] \in Seq(Frame) /\ net[s] # << >> /\ Head(net[s]).type = type /\ Up(s)
  BY DEF AInv, RInv, IInv, TypeOK, Arriving
<1>2. Tail(net[s]) \in Seq(Frame)
  BY <1>1
<1>3. Took(Tail(net[s]), net[s], type, Head(net[s]).pid)
  BY <1>1, TookOldest
<1>4. QED
  BY <1>1, <1>2, <1>3, CommitAccords

\* Nothing happens.
LEMMA IdleAgrees ==
  ASSUME AInv, NEW s \in Side, Up(s), NEW kk, NEW pp,
         kk = "OPEN" /\ pp = chan[s].awaiting.pid => pp \notin procs[s],
         kk = "CLOSE_ACK" => pp # chan[s].closing
  PROVE  Work(s) \in WorkOK /\ Agrees(s, Work(s), kk, pp, "MESSAGE", null)
<1>1. Work(s) \in WorkOK /\ Work(s).ch = chan[s] /\ Work(s).procs = procs[s]
  BY MoveContext DEF AInv, RInv
<1>2. Adds(Work(s), Work(s), "MESSAGE", null)
  BY DEF Adds
<1>3. Rests(chan[s], procs[s], chan[s], procs[s], kk, pp, "MESSAGE", null)
  BY DEF Rests, PlainFrame
<1>4. Named(chan[s])
  BY DEF AInv, Accords
<1>5. QED
  BY <1>1, <1>2, <1>3, <1>4 DEF Agrees, Agreeable, Single

-----------------------------------------------------------------------------
(* Who speaks to whom.                                                     *)

\* Two pages are loaded at most: whoever is named besides this one is the other.
LEMMA OtherIsPeer ==
  ASSUME AInv, NEW s \in Side, NEW i, Consenting(s, i)
  PROVE  i = broker[Other(s)]
<1>1. PICK u \in Side : i = broker[u]
  BY DEF AInv, Pages, Consenting
<1>2. QED
  BY <1>1, OtherOther DEF Consenting

\* A frame that arrives was posted by the page in the other window.
LEMMA ArrivesFromOther ==
  ASSUME AInv, NEW s \in Side, NEW type, Arriving(s, type)
  PROVE  /\ Up(s) /\ net[s] # << >> /\ Head(net[s]).from \in Id
         /\ Head(net[s]).from = broker[Other(s)]
         /\ Work(s).at = OriginOf[Head(net[s]).from]
         /\ type \in ProcessFrame => /\ Head(net[s]).pid \in Pid
                                     /\ Head(net[s]).pid # null
                                     /\ Head(net[s]).pid \in Wire(net[s])[type]
<1>1. /\ Up(s) /\ net[s] # << >> /\ Head(net[s]).from \in Id
      /\ type \in ProcessFrame => Head(net[s]).pid \in Pid
  BY ArrivingContext DEF AInv
<1>2. net[s] \in Seq(Frame)
  BY DEF AInv, RInv, IInv, TypeOK
<1>3. 1 \in DOMAIN net[s] /\ Head(net[s]) = net[s][1]
  BY <1>1, <1>2
<1>4. Head(net[s]).from = broker[Other(s)]
  BY <1>3 DEF AInv, Pages
<1>5. Work(s).at = OriginOf[Head(net[s]).from]
  BY <1>1, <1>4, NullIsNone DEF Work, Up
<1>6. type \in ProcessFrame => Head(net[s]).pid \in Wire(net[s])[type]
  BY <1>1, <1>2, WireTail DEF Arriving
<1>7. QED
  BY <1>1, <1>4, <1>5, <1>6, NullIsNone

\* The page a step starts from.
LEMMA Stage ==
  ASSUME AInv, NEW s \in Side, Up(s)
  PROVE  /\ IInv /\ Routing
         /\ Work(s) \in WorkOK /\ Work(s).ch = chan[s] /\ Work(s).procs = procs[s]
         /\ Work(s).out = << >> /\ Work(s).id = broker[s]
         /\ chan[s] \in Channel /\ Sound(chan[s]) /\ Roles(chan[s]) /\ OneClose(chan[s])
         /\ Fit(chan[s]) /\ Named(chan[s]) /\ Whole(chan[s])
         /\ Routed(chan[s], procs[s], chan[Other(s)], procs[Other(s)],
                   Wire(net[s]), Wire(net[Other(s)]), Past)
<1>1. IInv /\ Routing /\ RInv /\ Named(chan[s])
  BY DEF AInv, RInv, Accords
<1>2. /\ Work(s).out = << >> /\ Work(s).id = broker[s] /\ OneClose(chan[s])
      /\ chan[s] \in Channel
  BY <1>1, StepContext
<1>3. QED
  BY <1>1, <1>2, MoveContext, ChannelIsWhole

-----------------------------------------------------------------------------
(* What is posted, and whether it is.                                      *)

\* A frame is posted for whoever is at the other end.
LEMMA PostSays ==
  ASSUME NEW w \in WorkOK, NEW type \in ProcessFrame, NEW p \in Pid
  PROVE  /\ Len(Post(w, type, p).out) <= Len(w.out) + 1
         /\ \A l \in ProcessFrame : Wire(w.out)[l] \subseteq Wire(Post(w, type, p).out)[l]
         /\ Delivers(w) => p \in Wire(Post(w, type, p).out)[type]
<1> DEFINE f == [type |-> type, from |-> w.id, pid |-> p, msg |-> 0]
           v == [w EXCEPT !.out = Append(w.out, f)]
<1>1. f \in Frame /\ f.type = type /\ f.pid = p
  BY DEF Frame, WorkOK
<1>2. w.out \in Seq(Frame)
  BY DEF WorkOK
<1>3. Post(w, type, p) = IF Delivers(w) THEN v ELSE w
  BY DEF Post
<1> HIDE DEF f
<1>4. v.out = Append(w.out, f)
  BY DEF WorkOK
<1>5. /\ Len(w.out) \in Nat /\ Len(Append(w.out, f)) = Len(w.out) + 1
      /\ \A l \in ProcessFrame :
           Wire(Append(w.out, f))[l] = Wire(w.out)[l] \cup (IF type = l THEN {p} ELSE {})
  BY <1>1, <1>2, WireAppend
<1> DEFINE q == Append(w.out, f)
<1> HIDE DEF v
<1>6. Post(w, type, p).out = IF Delivers(w) THEN q ELSE w.out
  BY <1>3, <1>4
<1>7. /\ Len(w.out) \in Nat /\ Len(q) = Len(w.out) + 1
      /\ \A l \in ProcessFrame : Wire(q)[l] = Wire(w.out)[l] \cup (IF type = l THEN {p} ELSE {})
  BY <1>5
<1> HIDE DEF q
<1>8. CASE Delivers(w)
  <2>1. Post(w, type, p).out = q
    BY <1>6, <1>8
  <2>2. Len(Post(w, type, p).out) = Len(w.out) + 1
    BY <1>7, <2>1
  <2>3. \A l \in ProcessFrame : Wire(w.out)[l] \subseteq Wire(Post(w, type, p).out)[l]
    BY <1>7, <2>1
  <2>4. p \in Wire(Post(w, type, p).out)[type]
    BY <1>7, <2>1
  <2>5. QED
    BY <1>7, <2>2, <2>3, <2>4
<1>9. CASE ~Delivers(w)
  BY <1>6, <1>7, <1>9
<1>10. QED
  BY <1>8, <1>9

\* Messages belong to no process.
LEMMA PostMessagesSays ==
  ASSUME NEW w \in WorkOK, NEW msgs \in Seq(Nat)
  PROVE  /\ \A l \in ProcessFrame : Wire(w.out)[l] \subseteq Wire(PostMessages(w, msgs).out)[l]
         /\ PostMessages(w, msgs).at = w.at
<1> DEFINE fs == [i \in 1 .. Len(msgs) |->
                    [type |-> "MESSAGE", from |-> w.id, pid |-> null, msg |-> msgs[i]]]
<1>1. \A i \in 1 .. Len(msgs) : fs[i] \in Frame
  BY DEF Frame, PlainFrame, WorkOK
<1>2. fs \in Seq(Frame)
  BY <1>1
<1>3. w.out \in Seq(Frame)
  BY DEF WorkOK
<1>4. /\ PostMessages(w, msgs).out = w.out \o fs \/ PostMessages(w, msgs).out = w.out
      /\ PostMessages(w, msgs).at = w.at
  BY DEF PostMessages, WorkOK
<1> HIDE DEF fs
<1>5. \A l \in ProcessFrame : Wire(w.out)[l] \subseteq Wire(w.out \o fs)[l]
  BY <1>2, <1>3, WireGrows
<1>6. QED
  BY <1>4, <1>5

\* Nor do those that waited in the queue.
LEMMA FlushSays ==
  ASSUME NEW w \in WorkOK
  PROVE  \A l \in ProcessFrame : Wire(w.out)[l] \subseteq Wire(Flush(w).out)[l]
<1> DEFINE c == [w.ch EXCEPT !.queue = << >>]
           u == [w EXCEPT !.ch = c]
<1>1. w.ch \in Channel /\ w.ch.queue \in Seq(Nat) /\ << >> \in Seq(Nat)
  BY DEF WorkOK, Channel
<1>2. c \in Channel
  BY <1>1, QueueWrite
<1> HIDE DEF c
<1>3. u \in WorkOK /\ u.out = w.out
  BY <1>2, WriteDoes
<1>4. Flush(w) = PostMessages(u, w.ch.queue)
  BY DEF Flush, c
<1> HIDE DEF u
<1>5. QED
  BY <1>1, <1>3, <1>4, PostMessagesSays

-----------------------------------------------------------------------------
(* The page's own calls and its timers.                                    *)

\* A page that boots has nothing in flight.
LEMMA BootAccords ==
  ASSUME AInv, NEW s \in Side, Boot(s)
  PROVE  Accords'
<1>1. UNCHANGED <<chan, procs, net>>
  BY DEF Boot, page
<1>2. QED
  BY <1>1 DEF AInv, Accords, AgreedAt

\* A channel that is added has nothing in progress.
LEMMA AddChannelAccords ==
  ASSUME AInv, NEW s \in Side, AddChannel(s)
  PROVE  Accords'
<1> DEFINE c == [chan[s] EXCEPT !.registered = TRUE]
<1>1. Up(s) /\ UNCHANGED <<procs, net>> /\ chan' = [chan EXCEPT ![s] = c]
  BY DEF AddChannel
<1>2. chan[s] \in Channel /\ Named(chan[s])
  BY <1>1, Stage
<1>3. /\ c.active = chan[s].active /\ c.pending = chan[s].pending
      /\ c.closing = chan[s].closing /\ c.awaiting = chan[s].awaiting
      /\ c.scheduled = chan[s].scheduled /\ c.peerId = chan[s].peerId
  BY <1>2 DEF Channel
<1> HIDE DEF c
<1>4. procs' = [procs EXCEPT ![s] = procs[s]]
  BY <1>1 DEF AInv, RInv, IInv, TypeOK
<1>5. Rests(chan[s], procs[s], c, procs[s], "MESSAGE", null, "MESSAGE", null)
  BY <1>3 DEF Rests, PlainFrame
<1>6. Agreeable(chan[s], procs[s], Past, c, procs[s], net[Other(s)],
                "MESSAGE", null, "MESSAGE", null)
  BY <1>5 DEF Agreeable
<1>7. Named(c)
  BY <1>2, <1>3 DEF Named
<1>8. QED
  BY <1>1, <1>4, <1>6, <1>7, TookNothing, GrewNothing, AccordsAfter

\* connect() as the initiator asks.
LEMMA ConnectRequestAccords ==
  ASSUME AInv, NEW s \in Side, ConnectRequest(s)
  PROVE  Accords'
<1> DEFINE v == BeginRequest(Work(s), nextPid)
           c == chan[s]
           d == Requesting(c, nextPid)
<1>1. /\ Up(s) /\ Idle(c) /\ c.scheduled = NoRequest /\ Mint /\ Commit(s, v, net[s])
  BY DEF ConnectRequest
<1>2. /\ IInv /\ Work(s) \in WorkOK /\ Work(s).ch = c /\ Work(s).procs = procs[s]
      /\ c \in Channel /\ Roles(c)
  BY <1>1, Stage
<1>3. nextPid \in Pid /\ nextPid \notin Past /\ nextPid # null
  BY <1>1, <1>2, MintIsFresh, NullIsNone
<1>4. /\ v \in WorkOK /\ v.ch = d /\ v.procs = procs[s] \cup {nextPid}
      /\ Adds(v, Work(s), "REQUEST", nextPid)
  BY <1>2, <1>3, BeginRequestDoes
<1>5. /\ ~d.active /\ d.closing = c.closing /\ d.pending = nextPid
      /\ d.awaiting = c.awaiting /\ d.scheduled = c.scheduled /\ c.awaiting = NoRequest
  BY <1>1, <1>2 DEF Requesting, Channel, Idle
<1> HIDE DEF v, d
<1>6. Asks(c, procs[s], Past, v.ch, v.procs, "MESSAGE", "REQUEST", nextPid)
  BY <1>1, <1>3, <1>4, <1>5 DEF Asks, PlainFrame
<1>7. Agrees(s, v, "MESSAGE", null, "REQUEST", nextPid)
  BY <1>4, <1>5, <1>6 DEF Agrees, Agreeable, Single, Named
<1>8. QED
  BY <1>1, <1>4, <1>7, CallAccords

\* connect() as the responder replies to the scheduled request.
LEMMA ConnectAnswerAccords ==
  ASSUME AInv, NEW s \in Side, ConnectAnswer(s)
  PROVE  Accords'
<1> DEFINE r == chan[s].scheduled
           c == [chan[s] EXCEPT !.ready = TRUE]
           u == [Work(s) EXCEPT !.ch = c]
           v == BeginResponse(u, r)
           d == Answering(c, r)
<1>1. /\ Up(s) /\ Idle(chan[s]) /\ r # NoRequest
      /\ Commit(s, BeginResponse([Work(s) EXCEPT !.ch.ready = TRUE], r), net[s])
  BY DEF ConnectAnswer
<1>2. /\ Work(s) \in WorkOK /\ Work(s).ch = chan[s] /\ Work(s).procs = procs[s]
      /\ chan[s] \in Channel
  BY <1>1, Stage
<1>3. [Work(s) EXCEPT !.ch.ready = TRUE] = u
  BY <1>2
<1>4. r \in Request
  BY <1>1, <1>2 DEF Channel
<1>5. c \in Channel
  BY <1>2 DEF Channel
<1>6. /\ ~d.active /\ d.closing = chan[s].closing /\ d.pending = null
      /\ d.awaiting = r /\ d.scheduled = NoRequest /\ d.peerId = r.from
  BY <1>1, <1>2 DEF Answering, Channel, Idle
<1> HIDE DEF c, d
<1>7. u \in WorkOK /\ u.ch = c /\ u.procs = procs[s] /\ u.out = Work(s).out
  BY <1>2, <1>5, WriteDoes
<1> HIDE DEF u
<1>8. v \in WorkOK /\ v.ch = d /\ v.procs = procs[s] /\ Adds(v, Work(s), "ACCEPT", r.pid)
  BY <1>4, <1>7, BeginResponseDoes DEF d, Adds
<1> HIDE DEF v
<1>9. Replies(chan[s], procs[s], v.ch, v.procs, "MESSAGE", "ACCEPT", r.pid)
  BY <1>1, <1>6, <1>8 DEF Replies, PlainFrame
<1>10. Agrees(s, v, "MESSAGE", null, "ACCEPT", r.pid)
  BY <1>6, <1>8, <1>9 DEF Agrees, Agreeable, Single, Named
<1>11. QED
  BY <1>1, <1>3, <1>8, <1>10, CallAccords DEF v

\* A close that is proposed posts one frame.
LEMMA ProposeCloseSays ==
  ASSUME NEW w \in WorkOK, NEW p \in Pid, Sound(w.ch), w.ch.active, w.ch.closing = null,
         w.out = << >>
  PROVE  Len(ProposeClose(w, p).out) <= 1
<1> DEFINE t == Track(ClearTimers(w), p)
           u == [t EXCEPT !.ch = Proposed(w.ch, p)]
<1>1. w.ch \in Channel
  BY DEF WorkOK
<1>2. /\ ClearTimers(w) \in WorkOK
      /\ ClearTimers(w).ch = [w.ch EXCEPT !.timer = NoTimer]
      /\ ClearTimers(w).out = w.out
  BY ClearTimersType DEF ClearTimers, WorkOK
<1>3. t \in WorkOK /\ t.ch = [w.ch EXCEPT !.timer = NoTimer] /\ t.out = w.out
  BY <1>2, TrackDoes
<1>4. Proposed(w.ch, p) \in Channel
  BY <1>1, ProposedType
<1>5. ProposeClose(w, p) =
        Post([t EXCEPT !.ch = [t.ch EXCEPT !.closing = p, !.closings = @ + 1]], "CLOSE", p)
  BY DEF ProposeClose
<1> HIDE DEF t
<1>6. [t.ch EXCEPT !.closing = p, !.closings = @ + 1] = Proposed(w.ch, p)
  BY <1>1, <1>3 DEF Proposed, Channel
<1>7. u \in WorkOK /\ u.out = << >>
  BY <1>3, <1>4, WriteDoes
<1>8. ProposeClose(w, p) = Post(u, "CLOSE", p)
  BY <1>5, <1>6
<1> HIDE DEF u
<1>9. "CLOSE" \in ProcessFrame
  BY DEF ProcessFrame
<1>10. Len(Post(u, "CLOSE", p).out) <= Len(u.out) + 1
  BY <1>7, <1>9, PostSays
<1>11. QED
  BY <1>7, <1>8, <1>10

\* disconnect() proposes a close, and only once.
LEMMA DisconnectAccords ==
  ASSUME AInv, NEW s \in Side, Disconnect(s)
  PROVE  Accords'
<1> DEFINE v == ProposeClose(Work(s), nextPid)
           c == chan[s]
           d == Proposed(c, nextPid)
<1>1. /\ c.active /\ c.closing = null /\ Mint /\ Commit(s, v, net[s])
  BY DEF Disconnect
<1>2. Up(s)
  BY <1>1, RegisteredIsUp DEF AInv
<1>3. /\ IInv /\ Work(s) \in WorkOK /\ Work(s).ch = c /\ Work(s).procs = procs[s]
      /\ c \in Channel /\ Roles(c) /\ Sound(c) /\ Work(s).out = << >>
  BY <1>2, Stage
<1>4. nextPid \in Pid /\ nextPid \notin Past /\ nextPid # null
  BY <1>1, <1>3, MintIsFresh, NullIsNone
<1>5. /\ v \in WorkOK /\ v.ch = d /\ v.procs = procs[s] \cup {nextPid}
      /\ Adds(v, Work(s), "CLOSE", nextPid)
  BY <1>1, <1>3, <1>4, ProposeCloseDoes
<1>6. Len(v.out) <= 1
  BY <1>1, <1>3, <1>4, ProposeCloseSays
<1>7. /\ d.active /\ d.closing = nextPid /\ d.pending = c.pending
      /\ d.awaiting = c.awaiting /\ d.scheduled = c.scheduled /\ c.awaiting = NoRequest
  BY <1>1, <1>3 DEF Proposed, Channel, Roles
<1> HIDE DEF v, d
<1>8. Proposes(c, procs[s], Past, v.ch, v.procs, "MESSAGE", "CLOSE", nextPid)
  BY <1>1, <1>4, <1>5, <1>7 DEF Proposes, PlainFrame
<1>9. Agrees(s, v, "MESSAGE", null, "CLOSE", nextPid)
  BY <1>5, <1>6, <1>7, <1>8 DEF Agrees, Agreeable, Named
<1>10. QED
  BY <1>1, <1>2, <1>5, <1>9, CallAccords

\* send() says a message at once or queues it.
LEMMA SendAccords ==
  ASSUME AInv, NEW s \in Side, Send(s)
  PROVE  Accords'
<1> DEFINE n == sent[s] + 1
           p == PostMessages(Work(s), <<n>>)
           c == [chan[s] EXCEPT !.queue = Append(@, n)]
           q == [Work(s) EXCEPT !.ch = c]
<1>1. chan[s].registered /\ sent' = [sent EXCEPT ![s] = n]
  BY DEF Send
<1>2. Up(s)
  BY <1>1, RegisteredIsUp DEF AInv
<1>3. /\ Work(s) \in WorkOK /\ Work(s).ch = chan[s] /\ Work(s).procs = procs[s]
      /\ chan[s] \in Channel /\ Named(chan[s])
  BY <1>2, Stage
<1>4. n \in Nat /\ sent'[s] = n
  BY <1>1 DEF AInv, RInv, IInv, TypeOK
<1>5. Commit(s, p, net[s]) \/ Commit(s, [Work(s) EXCEPT !.ch.queue = Append(@, n)], net[s])
  BY <1>4 DEF Send
<1>6. [Work(s) EXCEPT !.ch.queue = Append(@, n)] = q
  BY <1>3
<1> HIDE DEF n
<1>7. p \in WorkOK /\ Agrees(s, p, "MESSAGE", null, "MESSAGE", null)
  <2>1. <<n>> \in Seq(Nat)
    BY <1>4
  <2>2. /\ p \in WorkOK /\ p.ch = chan[s] /\ p.procs = procs[s]
        /\ Adds(p, Work(s), "MESSAGE", null)
    BY <1>3, <2>1, PostMessagesDoes
  <2> HIDE DEF p
  <2>3. Rests(chan[s], procs[s], p.ch, p.procs, "MESSAGE", null, "MESSAGE", null)
    BY <2>2 DEF Rests, PlainFrame
  <2>4. QED
    BY <1>3, <2>2, <2>3 DEF Agrees, Agreeable, Single
<1>8. q \in WorkOK /\ Agrees(s, q, "MESSAGE", null, "MESSAGE", null)
  <2>1. Append(chan[s].queue, n) \in Seq(Nat)
    BY <1>3, <1>4 DEF Channel
  <2>2. c \in Channel
    BY <1>3, <2>1, QueueWrite
  <2>3. /\ c.active = chan[s].active /\ c.pending = chan[s].pending
        /\ c.closing = chan[s].closing /\ c.awaiting = chan[s].awaiting
        /\ c.scheduled = chan[s].scheduled /\ c.peerId = chan[s].peerId
    BY <1>3 DEF Channel
  <2> HIDE DEF c
  <2>4. q \in WorkOK /\ q.ch = c /\ q.procs = procs[s] /\ q.out = Work(s).out
    BY <1>3, <2>2, WriteDoes
  <2> HIDE DEF q
  <2>5. Rests(chan[s], procs[s], q.ch, q.procs, "MESSAGE", null, "MESSAGE", null)
    BY <2>3, <2>4 DEF Rests, PlainFrame
  <2>6. Adds(q, Work(s), "MESSAGE", null) /\ Named(q.ch)
    BY <1>3, <2>3, <2>4 DEF Adds, Named
  <2>7. QED
    BY <2>4, <2>5, <2>6 DEF Agrees, Agreeable, Single
<1> HIDE DEF p, q
<1>9. QED
  BY <1>2, <1>5, <1>6, <1>7, <1>8, CallAccords

\* A retry repeats the frame of the handshake in progress.
LEMMA RetryAccords ==
  ASSUME AInv, NEW s \in Side, Retry(s)
  PROVE  Accords'
<1> DEFINE t == chan[s].timer
           c == chan[s]
           v == Post(Work(s), t.type, t.pid)
<1>1. t # NoTimer /\ Commit(s, v, net[s])
  BY DEF Retry
<1>2. Up(s)
  BY <1>1, RegisteredIsUp DEF AInv
<1>3. /\ Work(s) \in WorkOK /\ Work(s).ch = c /\ Work(s).procs = procs[s]
      /\ Fit(c) /\ Roles(c) /\ c \in Channel /\ Named(c)
  BY <1>2, Stage
<1>4. t.type \in ProcessFrame \ Single /\ t.pid \in Pid /\ t.pid # null
  BY <1>1, <1>3, NullIsNone DEF Channel, Timer, ProcessFrame, Single
<1>5. \/ t.type = "REQUEST" /\ t.pid = c.pending
      \/ t.type = "ACCEPT" /\ t.pid = c.awaiting.pid
  BY <1>1, <1>3 DEF Fit, Armed
<1> HIDE DEF t
<1>6. /\ v \in WorkOK /\ v.ch = c /\ v.procs = procs[s] /\ Adds(v, Work(s), t.type, t.pid)
  BY <1>3, <1>4, PostDoes
<1> HIDE DEF v
<1>7. Rests(c, procs[s], v.ch, v.procs, "MESSAGE", null, t.type, t.pid)
  BY <1>4, <1>5, <1>6 DEF Rests, PlainFrame
<1>8. Agrees(s, v, "MESSAGE", null, t.type, t.pid)
  BY <1>3, <1>4, <1>6, <1>7 DEF Agrees, Agreeable
<1>9. QED
  BY <1>1, <1>2, <1>6, <1>8, CallAccords

-----------------------------------------------------------------------------
(* The routing handlers.                                                   *)

\* A refusal tells nothing about the peer.
LEMMA DenyOnceNames ==
  ASSUME NEW w \in WorkOK, NEW p \in Pid
  PROVE  DenyOnce(w, p).ch.peerId = w.ch.peerId
BY DEF DenyOnce, EndAttempt, WorkOK, Channel

\* Of a REQUEST that reaches a side that is not in session.
LEMMA RequestConsideredAccords ==
  ASSUME NEW s \in Side, Work(s).out = << >>,
         NEW c \in Channel, Sound(c), Roles(c), Named(c), ~c.active, c = chan[s],
         NEW f, f.pid \in Pid, f.pid # null, f.from \in Id,
         NEW w \in WorkOK, Sound(w.ch), w.procs = procs[s], w.out = << >>,
         w.ch.active = c.active, w.ch.pending = c.pending, w.ch.closing = c.closing,
         w.ch.awaiting = c.awaiting, w.ch.scheduled = c.scheduled, w.ch.peerId = c.peerId,
         RequestConsidered(s, f, w)
  PROVE  \E x \in WorkOK : \E k, p : /\ Commit(s, x, Tail(net[s]))
                                     /\ Agrees(s, x, "REQUEST", f.pid, k, p)
<1> DEFINE v == IF w.ch.pending # null THEN AbandonRequest(w) ELSE w
           r == [from |-> f.from, pid |-> f.pid]
           t == Track(v, f.pid)
           x == IF w.ch.scheduled.pid = f.pid THEN t ELSE Untrack(t, w.ch.scheduled.pid)
           y == [x EXCEPT !.ch = Scheduled(x.ch, r)]
           P == procs[s]
<1>1. r \in Request /\ r.pid = f.pid /\ r.from = f.from /\ r # NoRequest
  BY DEF Request, NoRequest
<1>2. \/ Commit(s, w, Tail(net[s]))
      \/ Commit(s, DenyOnce(Post(v, "DENY", f.pid), f.pid), Tail(net[s]))
      \/ v.ch.ready /\ Commit(s, BeginResponse(t, r), Tail(net[s]))
      \/ ~v.ch.ready /\ Commit(s, [x EXCEPT !.ch.scheduled = r], Tail(net[s]))
  BY DEF RequestConsidered, MayAnswer
<1>3. [x EXCEPT !.ch.scheduled = r] = y
  BY DEF Scheduled
<1>4. w.ch \in Channel
  BY DEF WorkOK
<1>5. /\ v \in WorkOK /\ v.out = << >> /\ v.ch.pending = null /\ ~v.ch.active
      /\ v.ch.closing = c.closing /\ v.ch.awaiting = c.awaiting
      /\ v.ch.scheduled = c.scheduled /\ v.ch.peerId = c.peerId
      /\ v.procs \subseteq P /\ P \subseteq v.procs \cup {c.pending}
      /\ v.ch \in Channel /\ Sound(v.ch)
  <2>1. CASE w.ch.pending # null
    <3>1. /\ v \in WorkOK /\ v.ch = Abandoned(w.ch) /\ v.out = w.out
          /\ v.procs = w.procs \ {w.ch.pending}
      BY <2>1, AbandonRequestDoes
    <3> HIDE DEF v
    <3>2. /\ Abandoned(w.ch).pending = null /\ Abandoned(w.ch).active = w.ch.active
          /\ Abandoned(w.ch).closing = w.ch.closing /\ Abandoned(w.ch).awaiting = w.ch.awaiting
          /\ Abandoned(w.ch).scheduled = w.ch.scheduled
          /\ Abandoned(w.ch).peerId = w.ch.peerId
      BY <1>4 DEF Abandoned, Channel
    <3>3. Abandoned(w.ch) \in Channel /\ Sound(Abandoned(w.ch))
      BY <1>4, AbandonedType
    <3>4. QED
      BY <3>1, <3>2, <3>3
  <2>2. CASE w.ch.pending = null
    BY <1>4, <2>2
  <2>3. QED
    BY <2>1, <2>2
<1> HIDE DEF v
<1>6. /\ t \in WorkOK /\ t.ch = v.ch /\ t.procs = v.procs \cup {f.pid} /\ t.out = << >>
  BY <1>5, TrackDoes
<1> HIDE DEF t
<1>7. CASE Commit(s, w, Tail(net[s]))
  <2>1. Rests(c, P, w.ch, w.procs, "REQUEST", f.pid, "MESSAGE", null)
    BY DEF Rests, PlainFrame
  <2>2. Adds(w, Work(s), "MESSAGE", null) /\ Named(w.ch)
    BY DEF Adds, Named
  <2>3. Agrees(s, w, "REQUEST", f.pid, "MESSAGE", null)
    BY <2>1, <2>2 DEF Agrees, Agreeable, Single
  <2>4. QED
    BY <1>7, <2>3
<1>8. CASE Commit(s, DenyOnce(Post(v, "DENY", f.pid), f.pid), Tail(net[s]))
  <2> DEFINE a == Post(v, "DENY", f.pid)
             b == DenyOnce(a, f.pid)
  <2>1. /\ a \in WorkOK /\ a.ch = v.ch /\ a.procs = v.procs /\ Adds(a, v, "DENY", f.pid)
    BY <1>5, PostDoes DEF ProcessFrame
  <2> HIDE DEF a
  <2>2. /\ b \in WorkOK /\ SameHandshake(a.ch, b.ch) /\ b.procs = a.procs /\ b.out = a.out
        /\ b.ch.peerId = a.ch.peerId
    BY <2>1, DenyOnceDoes, DenyOnceNames
  <2> HIDE DEF b
  <2>3. Rests(c, P, b.ch, b.procs, "REQUEST", f.pid, "DENY", f.pid)
    BY <1>5, <2>1, <2>2 DEF Rests, SameHandshake
  <2>4. Adds(b, Work(s), "DENY", f.pid) /\ Named(b.ch)
    BY <1>5, <2>1, <2>2 DEF Adds, Named, SameHandshake
  <2>5. Agrees(s, b, "REQUEST", f.pid, "DENY", f.pid)
    BY <2>3, <2>4 DEF Agrees, Agreeable, Single
  <2>6. Commit(s, b, Tail(net[s]))
    BY <1>8 DEF a, b
  <2>7. QED
    BY <2>2, <2>5, <2>6
<1>9. CASE v.ch.ready /\ Commit(s, BeginResponse(t, r), Tail(net[s]))
  <2> DEFINE b == BeginResponse(t, r)
             g == Answering(v.ch, r)
  <2>1. /\ ~g.active /\ g.closing = c.closing /\ g.pending = null
        /\ g.awaiting = r /\ g.scheduled = NoRequest /\ g.peerId = r.from
    BY <1>5 DEF Answering, Channel
  <2>2. /\ b \in WorkOK /\ b.ch = g /\ b.procs = t.procs /\ Adds(b, t, "ACCEPT", f.pid)
    BY <1>1, <1>6, BeginResponseDoes
  <2> HIDE DEF b, g
  <2>3. f.pid \in b.procs /\ b.procs \subseteq P \cup {f.pid}
    BY <1>5, <1>6, <2>2
  <2> HIDE DEF r
  <2>4. TakesUp(c, P, b.ch, b.procs, "REQUEST", f.pid, "ACCEPT", f.pid)
    BY <1>1, <2>1, <2>2, <2>3 DEF TakesUp
  <2>5. Adds(b, Work(s), "ACCEPT", f.pid) /\ Named(b.ch)
    BY <1>6, <2>1, <2>2 DEF Adds, Named
  <2>6. Agrees(s, b, "REQUEST", f.pid, "ACCEPT", f.pid)
    BY <2>4, <2>5 DEF Agrees, Agreeable, Single
  <2>7. Commit(s, b, Tail(net[s]))
    BY <1>9 DEF b, r
  <2>8. QED
    BY <2>2, <2>6, <2>7
<1>10. CASE ~v.ch.ready /\ Commit(s, [x EXCEPT !.ch.scheduled = r], Tail(net[s]))
  <2> DEFINE g == Scheduled(v.ch, r)
             p == w.ch.scheduled.pid
  <2>1. c.awaiting = NoRequest
    BY <1>5, <1>10 DEF Sound, Roles, Idle
  <2>2. /\ ~g.active /\ g.closing = c.closing /\ g.pending = null
        /\ g.awaiting = NoRequest /\ g.scheduled = r /\ g \in Channel
    BY <1>1, <1>5, <2>1 DEF Scheduled, Channel
  <2> HIDE DEF g
  <2>3. /\ x \in WorkOK /\ x.ch = v.ch /\ x.out = t.out
        /\ x.procs = IF p = f.pid THEN t.procs ELSE t.procs \ {p}
    BY <1>6, UntrackDoes
  <2> HIDE DEF x
  <2>4. y \in WorkOK /\ y.ch = g /\ y.procs = x.procs /\ y.out = x.out
    BY <2>2, <2>3, WriteDoes DEF g
  <2> HIDE DEF y
  <2>5. f.pid \in y.procs /\ y.procs \subseteq P \cup {f.pid}
    BY <1>5, <1>6, <2>3, <2>4
  <2>6. y.out = Work(s).out
    BY <1>6, <2>3, <2>4
  <2>7. Commit(s, y, Tail(net[s]))
    BY <1>3, <1>10
  <2> HIDE DEF r
  <2>8. TakesUp(c, P, y.ch, y.procs, "REQUEST", f.pid, "MESSAGE", null)
    BY <1>1, <2>1, <2>2, <2>4, <2>5 DEF TakesUp, PlainFrame
  <2>9. Adds(y, Work(s), "MESSAGE", null) /\ Named(y.ch)
    BY <2>2, <2>4, <2>6 DEF Adds, Named
  <2>10. Agrees(s, y, "REQUEST", f.pid, "MESSAGE", null)
    BY <2>8, <2>9 DEF Agrees, Agreeable, Single
  <2>11. QED
    BY <2>4, <2>7, <2>10
<1>11. QED
  BY <1>2, <1>7, <1>8, <1>9, <1>10

\* handleRequest: a REQUEST is taken up, scheduled, refused or repeated.
LEMMA HandleRequestAccords ==
  ASSUME AInv, NEW s \in Side, HandleRequest(s)
  PROVE  Accords'
<1> DEFINE f == Head(net[s])
           c == [chan[s] EXCEPT !.registered = TRUE]
           u == [Work(s) EXCEPT !.ch = c]
<1>1. Arriving(s, "REQUEST")
  BY DEF HandleRequest
<1>2. /\ Up(s) /\ net[s] # << >> /\ f.pid \in Pid /\ f.pid # null /\ f.from \in Id
      /\ f.type = "REQUEST" /\ net[s] \in Seq(Frame)
  BY <1>1, ArrivesFromOther DEF ProcessFrame, Arriving, AInv, RInv, IInv, TypeOK
<1>3. /\ Work(s) \in WorkOK /\ Work(s).ch = chan[s] /\ Work(s).procs = procs[s]
      /\ Work(s).out = << >> /\ chan[s] \in Channel /\ Sound(chan[s]) /\ Roles(chan[s])
      /\ Named(chan[s])
  BY <1>2, Stage
<1>4. ~chan[s].active
  <2>1. Took(Tail(net[s]), net[s], "REQUEST", f.pid)
    BY <1>2, TookOldest
  <2>2. Scene(chan[s], procs[s], chan[Other(s)], procs[Other(s)],
              net[s], net[Other(s)], Past)
    BY SceneAt
  <2>3. QED
    BY <2>1, <2>2, SessionIsUnasked
<1>5. [Work(s) EXCEPT !.ch.registered = TRUE] = u
  BY <1>3
<1>6. /\ c \in Channel /\ Sound(c) /\ c.active = chan[s].active /\ c.pending = chan[s].pending
      /\ c.closing = chan[s].closing /\ c.awaiting = chan[s].awaiting
      /\ c.scheduled = chan[s].scheduled /\ c.peerId = chan[s].peerId
  BY <1>3, RegisteredType DEF Channel
<1> HIDE DEF c
<1>7. u \in WorkOK /\ u.ch = c /\ u.procs = procs[s] /\ u.out = << >>
  BY <1>3, <1>6, WriteDoes
<1> HIDE DEF u
<1>8. FinalizeClose(u) = u
  BY <1>4, <1>6, <1>7 DEF FinalizeClose
<1>9. Commit(s, Work(s), Tail(net[s])) \/ RequestConsidered(s, f, u)
  BY <1>4, <1>5, <1>8 DEF HandleRequest, Handle
<1> HIDE DEF f
<1>10. CASE Commit(s, Work(s), Tail(net[s]))
  <2>1. Agrees(s, Work(s), "REQUEST", f.pid, "MESSAGE", null)
    BY <1>2, IdleAgrees
  <2>2. QED
    BY <1>1, <1>3, <1>10, <2>1, HandlerAccords DEF f
<1>11. CASE RequestConsidered(s, f, u)
  <2>1. PICK x \in WorkOK : \E k, p : /\ Commit(s, x, Tail(net[s]))
                                      /\ Agrees(s, x, "REQUEST", f.pid, k, p)
    BY <1>2, <1>3, <1>4, <1>6, <1>7, <1>11, RequestConsideredAccords
  <2>2. PICK k, p : Commit(s, x, Tail(net[s])) /\ Agrees(s, x, "REQUEST", f.pid, k, p)
    BY <2>1
  <2>3. QED
    BY <1>1, <2>2, HandlerAccords DEF f
<1>12. QED
  BY <1>9, <1>10, <1>11

\* A channel that opens a session posts to the page it is in session with.
LEMMA ActivateReaches ==
  ASSUME NEW w \in WorkOK, NEW i \in Id, w.at = OriginOf[i]
  PROVE  Delivers(Activate(w, i))
<1> DEFINE a == Activate(w, i)
<1>1. SameHandshake(Opened(w.ch, i), a.ch)
  BY ActivateDoes
<1>2. a.at = w.at
  BY DEF Activate, EndAttempt, WorkOK
<1> HIDE DEF a
<1>3. Opened(w.ch, i).origin = OriginOf[i]
  BY DEF Opened, WorkOK, Channel
<1>4. OriginOf[i] # null
  BY IdAssumption
<1>5. Delivers(a)
  BY <1>1, <1>2, <1>3, <1>4 DEF Delivers, SameHandshake
<1>6. QED
  BY <1>5 DEF a

\* handleAccept: an ACCEPT confirms, is refused, or is confirmed again.
LEMMA HandleAcceptAccords ==
  ASSUME AInv, NEW s \in Side, HandleAccept(s)
  PROVE  Accords'
<1> DEFINE f == Head(net[s])
           c == chan[s]
           r == Post(Work(s), "OPEN", f.pid)
           a == Activate(Work(s), f.from)
           o == Post(a, "OPEN", f.pid)
           w == Untrack(Flush(o), f.pid)
           e == Post(AbandonRequest(Work(s)), "CANCEL", f.pid)
           x == DenyOnce(e, f.pid)
           expected == ~c.active /\ c.pending = f.pid
<1>1. Arriving(s, "ACCEPT")
  BY DEF HandleAccept, Expects
<1>2. /\ Up(s) /\ f.pid \in Pid /\ f.pid # null /\ f.from \in Id
      /\ Work(s).at = OriginOf[f.from]
  BY <1>1, ArrivesFromOther DEF ProcessFrame
<1>3. /\ Work(s) \in WorkOK /\ Work(s).ch = c /\ Work(s).procs = procs[s]
      /\ Work(s).out = << >> /\ c \in Channel /\ Sound(c) /\ Roles(c) /\ Named(c)
  BY <1>2, Stage
<1>4. \/ c.active /\ Commit(s, r, Tail(net[s]))
      \/ expected /\ Commit(s, w, Tail(net[s]))
      \/ expected /\ Commit(s, x, Tail(net[s]))
      \/ Commit(s, Work(s), Tail(net[s]))
  BY DEF HandleAccept, Expects, Handle
<1>5. /\ "OPEN" \in ProcessFrame /\ "CANCEL" \in ProcessFrame
  BY DEF ProcessFrame
<1>6. \A y \in WorkOK : \A k, p :
        Commit(s, y, Tail(net[s])) /\ Agrees(s, y, "ACCEPT", f.pid, k, p) => Accords'
  BY <1>1, HandlerAccords
<1> HIDE DEF f
<1>7. CASE c.active /\ Commit(s, r, Tail(net[s]))
  <2>1. /\ r \in WorkOK /\ r.ch = c /\ r.procs = procs[s]
        /\ Adds(r, Work(s), "OPEN", f.pid)
    BY <1>2, <1>3, <1>5, PostDoes
  <2> HIDE DEF r
  <2>2. Rests(c, procs[s], r.ch, r.procs, "ACCEPT", f.pid, "OPEN", f.pid)
    BY <1>7, <2>1 DEF Rests, PlainFrame
  <2>3. Agrees(s, r, "ACCEPT", f.pid, "OPEN", f.pid)
    BY <1>3, <2>1, <2>2 DEF Agrees, Agreeable, Single
  <2>4. QED
    BY <1>6, <1>7, <2>1, <2>3
<1>8. CASE expected /\ Commit(s, w, Tail(net[s]))
  <2>1. /\ a \in WorkOK /\ SameHandshake(Opened(c, f.from), a.ch)
        /\ a.procs = procs[s] /\ a.out = Work(s).out /\ Delivers(a)
    BY <1>2, <1>3, ActivateDoes, ActivateReaches
  <2> HIDE DEF a
  <2>2. /\ o \in WorkOK /\ o.ch = a.ch /\ o.procs = a.procs /\ Adds(o, a, "OPEN", f.pid)
        /\ f.pid \in Wire(o.out)["OPEN"]
    BY <1>2, <1>5, <2>1, PostDoes, PostSays
  <2> HIDE DEF o
  <2> DEFINE q == Flush(o)
  <2>3. /\ q \in WorkOK /\ SameHandshake(o.ch, q.ch) /\ q.procs = o.procs
        /\ Adds(q, o, "MESSAGE", null) /\ f.pid \in Wire(q.out)["OPEN"]
    BY <1>5, <2>2, FlushDoes, FlushSays
  <2> HIDE DEF q
  <2>4. w \in WorkOK /\ w.ch = q.ch /\ w.procs = q.procs \ {f.pid} /\ w.out = q.out
    BY <2>3, UntrackDoes DEF q
  <2> HIDE DEF w
  <2>5. /\ Opened(c, f.from).active /\ Opened(c, f.from).closing = c.closing
        /\ Opened(c, f.from).pending = null /\ Opened(c, f.from).awaiting = NoRequest
        /\ Opened(c, f.from).scheduled = NoRequest /\ c.closing = null
    BY <1>3, <1>8 DEF Opened, Channel, Roles
  <2>6. /\ w.ch.active /\ w.ch.closing = null /\ w.ch.pending = null
        /\ w.ch.awaiting = NoRequest /\ w.ch.scheduled = NoRequest
    BY <2>1, <2>2, <2>3, <2>4, <2>5 DEF SameHandshake
  <2>7. w.procs \subseteq procs[s] /\ f.pid \in Wire(w.out)["OPEN"]
    BY <2>1, <2>2, <2>3, <2>4
  <2>8. Adds(w, Work(s), "OPEN", f.pid)
    BY <2>1, <2>2, <2>3, <2>4 DEF Adds, ProcessFrame
  <2>9. Confirms(c, procs[s], w.ch, w.procs, w.out, "ACCEPT", f.pid, "OPEN", f.pid)
    BY <1>2, <1>8, <2>6, <2>7 DEF Confirms
  <2>10. Agrees(s, w, "ACCEPT", f.pid, "OPEN", f.pid)
    BY <2>6, <2>8, <2>9 DEF Agrees, Agreeable, Single, Named
  <2>11. QED
    BY <1>6, <1>8, <2>4, <2>10
<1>9. CASE expected /\ Commit(s, x, Tail(net[s]))
  <2> DEFINE b == AbandonRequest(Work(s))
  <2>1. /\ b \in WorkOK /\ b.ch = Abandoned(c) /\ b.out = << >>
        /\ b.procs = procs[s] \ {c.pending}
    BY <1>3, AbandonRequestDoes
  <2>2. /\ Abandoned(c).active = c.active /\ Abandoned(c).closing = c.closing
        /\ Abandoned(c).pending = null /\ Abandoned(c).awaiting = c.awaiting
        /\ Abandoned(c).scheduled = c.scheduled
    BY <1>3 DEF Abandoned, Channel
  <2> HIDE DEF b
  <2>3. /\ e \in WorkOK /\ e.ch = b.ch /\ e.procs = b.procs /\ Adds(e, b, "CANCEL", f.pid)
        /\ Len(e.out) <= Len(b.out) + 1
    BY <1>2, <1>5, <2>1, PostDoes, PostSays DEF b
  <2> HIDE DEF e
  <2>4. /\ x \in WorkOK /\ SameHandshake(e.ch, x.ch) /\ x.procs = e.procs /\ x.out = e.out
    BY <1>2, <2>3, DenyOnceDoes
  <2> HIDE DEF x
  <2>5. Len(x.out) <= 1
    BY <2>1, <2>3, <2>4
  <2>6. c.awaiting = NoRequest
    BY <1>2, <1>3, <1>9 DEF Roles
  <2>7. Refuses(c, procs[s], x.ch, x.procs, "ACCEPT", f.pid, "CANCEL", f.pid)
    BY <1>2, <1>9, <2>1, <2>2, <2>3, <2>4 DEF Refuses, SameHandshake
  <2>8. Adds(x, Work(s), "CANCEL", f.pid) /\ Named(x.ch)
    BY <1>3, <2>1, <2>2, <2>3, <2>4, <2>6 DEF Adds, Named, SameHandshake
  <2>9. Agrees(s, x, "ACCEPT", f.pid, "CANCEL", f.pid)
    BY <2>5, <2>7, <2>8 DEF Agrees, Agreeable
  <2>10. QED
    BY <1>6, <1>9, <2>4, <2>9
<1>10. CASE Commit(s, Work(s), Tail(net[s]))
  <2>1. Agrees(s, Work(s), "ACCEPT", f.pid, "MESSAGE", null)
    BY <1>2, IdleAgrees
  <2>2. QED
    BY <1>3, <1>6, <1>10, <2>1
<1>11. QED
  BY <1>4, <1>7, <1>8, <1>9, <1>10

\* handleOpen: an OPEN settles or comes too late.
LEMMA HandleOpenAccords ==
  ASSUME AInv, NEW s \in Side, HandleOpen(s)
  PROVE  Accords'
<1> DEFINE f == Head(net[s])
           c == chan[s]
           i == c.awaiting.from
           u == Untrack(Work(s), f.pid)
           a == Activate(u, i)
           w == Flush(a)
           mine == f.pid \in procs[s] /\ c.awaiting.pid = f.pid
<1>1. Arriving(s, "OPEN")
  BY DEF HandleOpen
<1>2. /\ Up(s) /\ f.pid \in Pid /\ f.pid # null /\ f.from = broker[Other(s)]
  BY <1>1, ArrivesFromOther DEF ProcessFrame
<1>3. /\ Work(s) \in WorkOK /\ Work(s).ch = c /\ Work(s).procs = procs[s]
      /\ Work(s).out = << >> /\ c \in Channel /\ Roles(c) /\ Named(c)
  BY <1>2, Stage
<1>4. \A y \in WorkOK : \A k, p :
        Commit(s, y, Tail(net[s])) /\ Agrees(s, y, "OPEN", f.pid, k, p) => Accords'
  BY <1>1, HandlerAccords
<1>5. c.awaiting.pid = f.pid => c.awaiting # NoRequest /\ i \in Id /\ c.peerId = i /\ i = f.from
  <2>1. SUFFICES ASSUME c.awaiting.pid = f.pid
                 PROVE  c.awaiting # NoRequest /\ i \in Id /\ c.peerId = i /\ i = f.from
    OBVIOUS
  <2>2. c.awaiting # NoRequest
    BY <1>2, <2>1 DEF NoRequest
  <2>3. i \in Id /\ i # null /\ c.peerId = i
    BY <1>3, <2>2, NullIsNone DEF Channel, Request, Named
  <2>4. Consenting(s, i)
    BY <2>3 DEF AInv, Consents, MeansConsent
  <2>5. QED
    BY <1>2, <2>2, <2>3, <2>4, OtherIsPeer
<1>6. \/ ~mine /\ Commit(s, Work(s), Tail(net[s]))
      \/ mine /\ Commit(s, w, Tail(net[s]))
      \/ ~mine /\ Commit(s, u, Tail(net[s]))
  BY <1>5 DEF HandleOpen, Handle, IsPeerInstance
<1> HIDE DEF f, i
<1>7. u \in WorkOK /\ u.ch = c /\ u.procs = procs[s] \ {f.pid} /\ u.out = Work(s).out
  BY <1>3, UntrackDoes
<1> HIDE DEF u
<1>8. CASE ~mine /\ Commit(s, Work(s), Tail(net[s]))
  <2>1. Agrees(s, Work(s), "OPEN", f.pid, "MESSAGE", null)
    BY <1>2, <1>8, IdleAgrees
  <2>2. QED
    BY <1>3, <1>4, <1>8, <2>1
<1>9. CASE ~mine /\ Commit(s, u, Tail(net[s]))
  <2>1. Rests(c, procs[s], u.ch, u.procs, "OPEN", f.pid, "MESSAGE", null)
    BY <1>7, <1>9 DEF Rests, PlainFrame
  <2>2. Agrees(s, u, "OPEN", f.pid, "MESSAGE", null)
    BY <1>3, <1>7, <2>1 DEF Agrees, Agreeable, Single, Adds
  <2>3. QED
    BY <1>4, <1>7, <1>9, <2>2
<1>10. CASE mine /\ Commit(s, w, Tail(net[s]))
  <2>1. /\ a \in WorkOK /\ SameHandshake(Opened(c, i), a.ch)
        /\ a.procs = u.procs /\ a.out = u.out
    BY <1>5, <1>7, <1>10, ActivateDoes
  <2> HIDE DEF a
  <2>2. /\ w \in WorkOK /\ SameHandshake(a.ch, w.ch) /\ w.procs = a.procs
        /\ Adds(w, a, "MESSAGE", null)
    BY <2>1, FlushDoes
  <2> HIDE DEF w
  <2>3. /\ Opened(c, i).active /\ Opened(c, i).closing = c.closing
        /\ Opened(c, i).pending = null /\ Opened(c, i).awaiting = NoRequest
        /\ Opened(c, i).scheduled = NoRequest
    BY <1>3 DEF Opened, Channel
  <2>4. /\ w.ch.active /\ w.ch.closing = c.closing /\ w.ch.pending = null
        /\ w.ch.awaiting = NoRequest /\ w.ch.scheduled = NoRequest
    BY <2>1, <2>2, <2>3 DEF SameHandshake
  <2>5. Settles(c, procs[s], w.ch, w.procs, "OPEN", f.pid, "MESSAGE")
    BY <1>2, <1>7, <1>10, <2>1, <2>2, <2>4 DEF Settles, PlainFrame
  <2>6. Adds(w, Work(s), "MESSAGE", null)
    BY <1>7, <2>1, <2>2 DEF Adds
  <2>7. Agrees(s, w, "OPEN", f.pid, "MESSAGE", null)
    BY <2>4, <2>5, <2>6 DEF Agrees, Agreeable, Single, Named
  <2>8. QED
    BY <1>4, <1>10, <2>2, <2>7
<1>11. QED
  BY <1>6, <1>8, <1>9, <1>10

\* handleDeny: a DENY ends the request it names and nothing else.
LEMMA HandleDenyAccords ==
  ASSUME AInv, NEW s \in Side, HandleDeny(s)
  PROVE  Accords'
<1> DEFINE f == Head(net[s])
           c == chan[s]
           b == AbandonRequest(Work(s))
           u == Untrack(b, f.pid)
           v == EndAttempt(u, "deny")
           x == Untrack(Work(s), f.pid)
<1>1. Arriving(s, "DENY")
  BY DEF HandleDeny
<1>2. Up(s) /\ f.pid \in Pid /\ f.pid # null /\ f.pid \in Wire(net[s])["DENY"]
  BY <1>1, ArrivesFromOther DEF ProcessFrame
<1>3. /\ Work(s) \in WorkOK /\ Work(s).ch = c /\ Work(s).procs = procs[s]
      /\ Work(s).out = << >> /\ c \in Channel /\ Sound(c) /\ Roles(c) /\ Named(c)
      /\ Routed(c, procs[s], chan[Other(s)], procs[Other(s)],
                Wire(net[s]), Wire(net[Other(s)]), Past)
  BY <1>2, Stage
<1>4. \A y \in WorkOK : \A k, p :
        Commit(s, y, Tail(net[s])) /\ Agrees(s, y, "DENY", f.pid, k, p) => Accords'
  BY <1>1, HandlerAccords
<1>5. \/ f.pid \in procs[s] /\ Commit(s, v, Tail(net[s]))
      \/ Commit(s, x, Tail(net[s]))
  BY DEF HandleDeny, Handle
<1> HIDE DEF f
<1>6. CASE f.pid \in procs[s] /\ Commit(s, v, Tail(net[s]))
  <2>1. c.pending = f.pid /\ c.awaiting = NoRequest
    BY <1>2, <1>3, <1>6 DEF Routed, Half, Refusable, Roles
  <2>2. /\ b \in WorkOK /\ b.ch = Abandoned(c) /\ b.out = << >>
        /\ b.procs = procs[s] \ {c.pending}
    BY <1>3, AbandonRequestDoes
  <2>3. /\ Abandoned(c).active = c.active /\ Abandoned(c).closing = c.closing
        /\ Abandoned(c).pending = null /\ Abandoned(c).awaiting = c.awaiting
        /\ Abandoned(c).scheduled = c.scheduled
    BY <1>3 DEF Abandoned, Channel
  <2> HIDE DEF b
  <2>4. u \in WorkOK /\ u.ch = b.ch /\ u.procs = b.procs \ {f.pid} /\ u.out = b.out
    BY <2>2, UntrackDoes
  <2> HIDE DEF u
  <2>5. /\ v \in WorkOK /\ SameHandshake(u.ch, v.ch) /\ v.procs = u.procs /\ v.out = u.out
    BY <2>4, EndAttemptDoes DEF Outcome
  <2> HIDE DEF v
  <2>6. v.procs = procs[s] \ {c.pending}
    BY <2>1, <2>2, <2>4, <2>5
  <2>7. Rests(c, procs[s], v.ch, v.procs, "DENY", f.pid, "MESSAGE", null)
    BY <2>2, <2>3, <2>4, <2>5, <2>6 DEF Rests, PlainFrame, SameHandshake
  <2>8. Adds(v, Work(s), "MESSAGE", null) /\ Named(v.ch)
    BY <1>3, <2>1, <2>2, <2>3, <2>4, <2>5 DEF Adds, Named, SameHandshake
  <2>9. Agrees(s, v, "DENY", f.pid, "MESSAGE", null)
    BY <2>7, <2>8 DEF Agrees, Agreeable, Single
  <2>10. QED
    BY <1>4, <1>6, <2>5, <2>9
<1>7. CASE Commit(s, x, Tail(net[s]))
  <2>1. x \in WorkOK /\ x.ch = c /\ x.procs = procs[s] \ {f.pid} /\ x.out = Work(s).out
    BY <1>3, UntrackDoes
  <2> HIDE DEF x
  <2>2. Rests(c, procs[s], x.ch, x.procs, "DENY", f.pid, "MESSAGE", null)
    BY <2>1 DEF Rests, PlainFrame
  <2>3. Agrees(s, x, "DENY", f.pid, "MESSAGE", null)
    BY <1>3, <2>1, <2>2 DEF Agrees, Agreeable, Single, Adds
  <2>4. QED
    BY <1>4, <1>7, <2>1, <2>3
<1>8. QED
  BY <1>5, <1>6, <1>7

\* A CANCEL whose process outlived its channel leaves the channel as it is.
LEMMA OrphanDoes ==
  ASSUME NEW w \in WorkOK, NEW o \in Orphan, NEW p \in Pid
  PROVE  LET v == Post([w EXCEPT !.ch.origin = o.origin], "CANCEL_ACK", p)
             x == Untrack([v EXCEPT !.ch = w.ch], p)
         IN  /\ x \in WorkOK /\ x.ch = w.ch /\ x.procs = w.procs \ {p}
             /\ Adds(x, w, "CANCEL_ACK", p)
<1> DEFINE d == [w.ch EXCEPT !.origin = o.origin]
           u == [w EXCEPT !.ch = d]
           v == Post(u, "CANCEL_ACK", p)
           y == [v EXCEPT !.ch = w.ch]
           x == Untrack(y, p)
<1>1. w.ch \in Channel /\ [w EXCEPT !.ch.origin = o.origin] = u
  BY DEF WorkOK
<1>2. d \in Channel
  BY <1>1 DEF Orphan, Channel
<1> HIDE DEF d
<1>3. u \in WorkOK /\ u.procs = w.procs /\ u.out = w.out
  BY <1>2, WriteDoes
<1> HIDE DEF u
<1>4. v \in WorkOK /\ v.procs = u.procs /\ Adds(v, u, "CANCEL_ACK", p)
  BY <1>3, PostDoes DEF ProcessFrame
<1> HIDE DEF v
<1>5. y \in WorkOK /\ y.ch = w.ch /\ y.procs = v.procs /\ y.out = v.out
  BY <1>1, <1>4, WriteDoes
<1> HIDE DEF y
<1>6. x \in WorkOK /\ x.ch = y.ch /\ x.procs = y.procs \ {p} /\ x.out = y.out
  BY <1>5, UntrackDoes
<1> HIDE DEF x
<1>7. Adds(x, w, "CANCEL_ACK", p)
  BY <1>3, <1>4, <1>5, <1>6 DEF Adds
<1>8. QED
  BY <1>1, <1>3, <1>4, <1>5, <1>6, <1>7 DEF x, y, v

\* handleCancel: a CANCEL ends what is in progress and is acknowledged.
LEMMA HandleCancelAccords ==
  ASSUME AInv, NEW s \in Side, HandleCancel(s)
  PROVE  Accords'
<1> DEFINE f == Head(net[s])
           c == chan[s]
           e == IF c.active THEN FinalizeClose(Work(s)) ELSE AbortAttempt(Work(s))
           a == Post(e, "CANCEL_ACK", f.pid)
           w == Untrack(a, f.pid)
           x(o) == Untrack([Post([Work(s) EXCEPT !.ch.origin = o.origin], "CANCEL_ACK", f.pid)
                              EXCEPT !.ch = c], f.pid)
<1>1. Arriving(s, "CANCEL")
  BY DEF HandleCancel
<1>2. Up(s) /\ f.pid \in Pid /\ f.pid # null /\ f.pid \in Wire(net[s])["CANCEL"]
  BY <1>1, ArrivesFromOther DEF ProcessFrame
<1>3. /\ Work(s) \in WorkOK /\ Work(s).ch = c /\ Work(s).procs = procs[s]
      /\ Work(s).out = << >> /\ c \in Channel /\ Sound(c) /\ Roles(c) /\ Named(c)
  BY <1>2, Stage
<1>4. \A y \in WorkOK : \A k, p :
        Commit(s, y, Tail(net[s])) /\ Agrees(s, y, "CANCEL", f.pid, k, p) => Accords'
  BY <1>1, HandlerAccords
<1>5. \/ Commit(s, w, Tail(net[s]))
      \/ \E o \in OrphanOf(s, f) : Commit(s, x(o), Tail(net[s]))
      \/ Commit(s, Work(s), Tail(net[s]))
  BY DEF HandleCancel, Handle
<1>6. ~c.active
  <2>1. Scene(c, procs[s], chan[Other(s)], procs[Other(s)], net[s], net[Other(s)], Past)
    BY SceneAt
  <2>2. CancelBacked(chan[Other(s)], c, net[s])
    BY <2>1 DEF Scene, Agreed
  <2> HIDE DEF c, f
  <2>3. c.awaiting # NoRequest
    BY <1>2, <2>2 DEF CancelBacked
  <2>4. QED
    BY <1>3, <2>3 DEF Roles
<1> HIDE DEF f
<1>7. CASE Commit(s, w, Tail(net[s]))
  <2>1. e = AbortAttempt(Work(s))
    BY <1>6
  <2> HIDE DEF e
  <2>2. /\ e \in WorkOK /\ SameHandshake(Given(c, NoRequest), e.ch)
        /\ e.procs = procs[s] \ {c.pending} /\ e.out = Work(s).out
    BY <1>3, <2>1, AbortAttemptDoes
  <2>3. /\ a \in WorkOK /\ a.ch = e.ch /\ a.procs = e.procs /\ Adds(a, e, "CANCEL_ACK", f.pid)
    BY <1>2, <2>2, PostDoes DEF ProcessFrame
  <2> HIDE DEF a
  <2>4. w \in WorkOK /\ w.ch = a.ch /\ w.procs = a.procs \ {f.pid} /\ w.out = a.out
    BY <2>3, UntrackDoes
  <2> HIDE DEF w
  <2>5. /\ ~Given(c, NoRequest).active /\ Given(c, NoRequest).closing = null
        /\ Given(c, NoRequest).pending = null /\ Given(c, NoRequest).awaiting = NoRequest
        /\ Given(c, NoRequest).scheduled = NoRequest
    BY <1>3, <1>6 DEF Given, Channel, Roles
  <2>6. /\ ~w.ch.active /\ w.ch.closing = null /\ w.ch.pending = null
        /\ w.ch.awaiting = NoRequest /\ w.ch.scheduled = NoRequest
    BY <2>2, <2>3, <2>4, <2>5 DEF SameHandshake
  <2>7. w.procs \subseteq procs[s]
    BY <2>2, <2>3, <2>4
  <2>8. Yields(c, procs[s], w.ch, w.procs, "CANCEL", f.pid, "CANCEL_ACK")
    BY <2>6, <2>7 DEF Yields
  <2>9. Adds(w, Work(s), "CANCEL_ACK", f.pid) /\ Named(w.ch)
    BY <2>2, <2>3, <2>4, <2>6 DEF Adds, Named
  <2>10. Agrees(s, w, "CANCEL", f.pid, "CANCEL_ACK", f.pid)
    BY <2>8, <2>9 DEF Agrees, Agreeable, Single
  <2>11. QED
    BY <1>4, <1>7, <2>4, <2>10
<1>8. CASE \E o \in OrphanOf(s, f) : Commit(s, x(o), Tail(net[s]))
  <2>1. PICK o \in OrphanOf(s, f) : Commit(s, x(o), Tail(net[s]))
    BY <1>8
  <2>2. o \in Orphan
    BY DEF OrphanOf, AInv, RInv, IInv, TypeOK
  <2> DEFINE z == x(o)
  <2>3. /\ z \in WorkOK /\ z.ch = c /\ z.procs = procs[s] \ {f.pid}
        /\ Adds(z, Work(s), "CANCEL_ACK", f.pid)
    BY <1>2, <1>3, <2>2, OrphanDoes
  <2>4. Commit(s, z, Tail(net[s]))
    BY <2>1
  <2> HIDE DEF z
  <2>5. Rests(c, procs[s], z.ch, z.procs, "CANCEL", f.pid, "CANCEL_ACK", f.pid)
    BY <2>3 DEF Rests, PlainFrame
  <2>6. Agrees(s, z, "CANCEL", f.pid, "CANCEL_ACK", f.pid)
    BY <1>3, <2>3, <2>5 DEF Agrees, Agreeable, Single
  <2>7. QED
    BY <1>4, <2>3, <2>4, <2>6
<1>9. CASE Commit(s, Work(s), Tail(net[s]))
  <2>1. Agrees(s, Work(s), "CANCEL", f.pid, "MESSAGE", null)
    BY <1>2, IdleAgrees
  <2>2. QED
    BY <1>3, <1>4, <1>9, <2>1
<1>10. QED
  BY <1>5, <1>7, <1>8, <1>9

\* handleCancelAcknowledged: its process is forgotten.
LEMMA HandleCancelAcknowledgedAccords ==
  ASSUME AInv, NEW s \in Side, HandleCancelAcknowledged(s)
  PROVE  Accords'
<1> DEFINE p == Head(net[s]).pid
           u == Untrack(Work(s), p)
           c == chan[s]
<1>1. Arriving(s, "CANCEL_ACK") /\ Commit(s, u, Tail(net[s]))
  BY DEF HandleCancelAcknowledged, Handle
<1>2. Up(s)
  BY <1>1, ArrivesFromOther
<1>3. /\ Work(s) \in WorkOK /\ Work(s).ch = c /\ Work(s).procs = procs[s] /\ Named(c)
  BY <1>2, Stage
<1> HIDE DEF p
<1>4. u \in WorkOK /\ u.ch = c /\ u.procs = procs[s] \ {p} /\ u.out = Work(s).out
  BY <1>3, UntrackDoes
<1> HIDE DEF u
<1>5. Rests(c, procs[s], u.ch, u.procs, "CANCEL_ACK", p, "MESSAGE", null)
  BY <1>4 DEF Rests, PlainFrame
<1>6. Agrees(s, u, "CANCEL_ACK", p, "MESSAGE", null)
  BY <1>3, <1>4, <1>5 DEF Agrees, Agreeable, Single, Adds
<1>7. QED
  BY <1>1, <1>4, <1>6, HandlerAccords DEF p

\* A close that is heard ends the session and is acknowledged.
LEMMA HeardCloseAgrees ==
  ASSUME AInv, NEW s \in Side, Up(s), chan[s].active, NEW p \in Pid, p # null,
         NEW w \in WorkOK, SameHandshake(chan[s], w.ch), Roles(w.ch), OneClose(w.ch),
         Delivers(w), w.procs = procs[s], Adds(w, Work(s), "MESSAGE", null)
  PROVE  LET v == FinalizeClose(Untrack(Post(w, "CLOSE_ACK", p), p))
         IN  v \in WorkOK /\ Agrees(s, v, "CLOSE", p, "CLOSE_ACK", p)
<1> DEFINE c == chan[s]
           a == Post(w, "CLOSE_ACK", p)
           u == Untrack(a, p)
           v == FinalizeClose(u)
<1>1. "CLOSE_ACK" \in ProcessFrame
  BY DEF ProcessFrame
<1>2. /\ a \in WorkOK /\ a.ch = w.ch /\ a.procs = w.procs /\ Adds(a, w, "CLOSE_ACK", p)
      /\ p \in Wire(a.out)["CLOSE_ACK"]
  BY <1>1, PostDoes, PostSays
<1> HIDE DEF a
<1>3. u \in WorkOK /\ u.ch = a.ch /\ u.procs = a.procs \ {p} /\ u.out = a.out
  BY <1>2, UntrackDoes
<1> HIDE DEF u
<1>4. w.ch.active /\ w.ch.closing = c.closing
  BY DEF SameHandshake
<1>5. v \in WorkOK /\ v.ch = Closed(w.ch) /\ v.procs = u.procs \ {c.closing} /\ v.out = u.out
  BY <1>2, <1>3, <1>4, FinalizeCloseDoes
<1> HIDE DEF v
<1>6. w.ch.scheduled = NoRequest
  BY <1>4 DEF Roles, Idle
<1>7. /\ ~Closed(w.ch).active /\ Closed(w.ch).closing = null /\ Closed(w.ch).pending = null
      /\ Closed(w.ch).awaiting = NoRequest /\ Closed(w.ch).scheduled = NoRequest
  BY <1>6 DEF Closed, Channel, WorkOK
<1>8. v.procs \subseteq procs[s] \ {c.closing} /\ p \in Wire(v.out)["CLOSE_ACK"]
  BY <1>2, <1>3, <1>5
<1>9. Hears(c, procs[s], v.ch, v.procs, v.out, "CLOSE", p, "CLOSE_ACK", p)
  BY <1>5, <1>7, <1>8 DEF Hears
<1>10. Adds(v, Work(s), "CLOSE_ACK", p)
  BY <1>2, <1>3, <1>5 DEF Adds, ProcessFrame
<1>11. Named(v.ch)
  BY <1>5, <1>7 DEF Named
<1>12. Agrees(s, v, "CLOSE", p, "CLOSE_ACK", p)
  BY <1>9, <1>10, <1>11 DEF Agrees, Agreeable, Single
<1>13. QED
  BY <1>5, <1>12 DEF v, u, a

\* handleClose: a CLOSE ends the session it belongs to, or is acknowledged in vain.
LEMMA HandleCloseAccords ==
  ASSUME AInv, NEW s \in Side, HandleClose(s)
  PROVE  Accords'
<1> DEFINE f == Head(net[s])
           c == chan[s]
           told == IF c.closing = null THEN [Work(s) EXCEPT !.ch.closings = @ + 1] ELSE Work(s)
           n == sent[s] + 1
           last == PostMessages(told, <<n>>)
           ended(w) == FinalizeClose(Untrack(Post(w, "CLOSE_ACK", f.pid), f.pid))
           heard == c.active /\ c.origin \in {null, OriginOf[f.from]}
<1>1. Arriving(s, "CLOSE")
  BY DEF HandleClose
<1>2. /\ Up(s) /\ f.pid \in Pid /\ f.pid # null /\ f.from \in Id
      /\ Work(s).at = OriginOf[f.from]
  BY <1>1, ArrivesFromOther DEF ProcessFrame
<1>3. /\ Work(s) \in WorkOK /\ Work(s).ch = c /\ Work(s).procs = procs[s]
      /\ c \in Channel /\ Sound(c) /\ Roles(c)
  BY <1>2, Stage
<1>4. \A y \in WorkOK : \A k, p :
        Commit(s, y, Tail(net[s])) /\ Agrees(s, y, "CLOSE", f.pid, k, p) => Accords'
  BY <1>1, HandlerAccords
<1>5. n \in Nat /\ (sent' = [sent EXCEPT ![s] = n] => sent'[s] = n)
  BY DEF AInv, RInv, IInv, TypeOK
<1>6. \/ heard /\ Commit(s, ended(told), Tail(net[s]))
      \/ heard /\ Commit(s, ended(last), Tail(net[s]))
      \/ Commit(s, Work(s), Tail(net[s]))
  BY <1>5 DEF HandleClose, Handle, Resolves, PinAllows
<1> HIDE DEF f, n
<1>7. ASSUME heard
      PROVE  /\ told \in WorkOK /\ SameHandshake(c, told.ch) /\ told.procs = procs[s]
             /\ Adds(told, Work(s), "MESSAGE", null)
             /\ Roles(told.ch) /\ OneClose(told.ch) /\ Delivers(told)
  <2>1. OriginOf[f.from] # null
    BY <1>2, IdAssumption
  <2>2. CASE c.closing # null
    <3>1. told = Work(s)
      BY <2>2
    <3> HIDE DEF told
    <3>2. Delivers(told)
      BY <1>2, <1>3, <1>7, <2>1, <3>1 DEF Delivers
    <3>3. QED
      BY <1>3, <3>1, <3>2 DEF Sound, SameHandshake, Adds
  <2>3. CASE c.closing = null
    <3> DEFINE d == [c EXCEPT !.closings = @ + 1]
    <3>1. d \in Channel /\ Roles(d) /\ OneClose(d)
      BY <1>3, <1>7, <2>3, ToldType
    <3>2. SameHandshake(c, d)
      BY <1>3 DEF SameHandshake, Channel
    <3>3. told = [Work(s) EXCEPT !.ch = d]
      BY <1>3, <2>3
    <3> HIDE DEF d, told
    <3>4. /\ told \in WorkOK /\ told.ch = d
          /\ told.procs = Work(s).procs /\ told.out = Work(s).out
      BY <1>3, <3>1, <3>3, WriteDoes
    <3>5. told.at = Work(s).at
      BY <1>3, <3>3 DEF WorkOK
    <3>6. Delivers(told)
      BY <1>2, <1>7, <2>1, <3>2, <3>4, <3>5 DEF Delivers, SameHandshake
    <3>7. QED
      BY <1>3, <3>1, <3>2, <3>4, <3>6 DEF Adds
  <2>4. QED
    BY <2>2, <2>3
<1> HIDE DEF told
<1>8. ASSUME heard
      PROVE  /\ last \in WorkOK /\ last.ch = told.ch /\ last.procs = procs[s]
             /\ Adds(last, Work(s), "MESSAGE", null) /\ Delivers(last)
  <2>1. <<n>> \in Seq(Nat)
    BY <1>5
  <2>2. /\ last \in WorkOK /\ last.ch = told.ch /\ last.procs = told.procs
        /\ Adds(last, told, "MESSAGE", null) /\ last.at = told.at
    BY <1>7, <1>8, <2>1, PostMessagesDoes, PostMessagesSays
  <2> HIDE DEF last
  <2>3. Delivers(last)
    BY <1>7, <1>8, <2>2 DEF Delivers
  <2>4. Adds(last, Work(s), "MESSAGE", null)
    BY <1>7, <1>8, <2>2 DEF Adds
  <2>5. QED
    BY <1>7, <1>8, <2>2, <2>3, <2>4
<1> HIDE DEF last
<1>9. CASE heard /\ Commit(s, ended(told), Tail(net[s]))
  <2>1. ended(told) \in WorkOK /\ Agrees(s, ended(told), "CLOSE", f.pid, "CLOSE_ACK", f.pid)
    BY <1>2, <1>7, <1>9, HeardCloseAgrees
  <2> HIDE DEF ended
  <2>2. QED
    BY <1>4, <1>9, <2>1
<1>10. CASE heard /\ Commit(s, ended(last), Tail(net[s]))
  <2>1. ended(last) \in WorkOK /\ Agrees(s, ended(last), "CLOSE", f.pid, "CLOSE_ACK", f.pid)
    BY <1>2, <1>7, <1>8, <1>10, HeardCloseAgrees
  <2> HIDE DEF ended
  <2>2. QED
    BY <1>4, <1>10, <2>1
<1>11. CASE Commit(s, Work(s), Tail(net[s]))
  <2>1. Agrees(s, Work(s), "CLOSE", f.pid, "MESSAGE", null)
    BY <1>2, IdleAgrees
  <2>2. QED
    BY <1>3, <1>4, <1>11, <2>1
<1>12. QED
  BY <1>6, <1>9, <1>10, <1>11

\* handleCloseAcknowledged: a CLOSE_ACK ends the session that closes under it.
LEMMA HandleCloseAcknowledgedAccords ==
  ASSUME AInv, NEW s \in Side, HandleCloseAcknowledged(s)
  PROVE  Accords'
<1> DEFINE p == Head(net[s]).pid
           c == chan[s]
           v == FinalizeClose(Work(s))
           mine == p \in procs[s] /\ c.closing # null
<1>1. /\ Arriving(s, "CLOSE_ACK")
      /\ \/ mine /\ Commit(s, v, Tail(net[s]))
         \/ ~mine /\ Commit(s, Work(s), Tail(net[s]))
  BY DEF HandleCloseAcknowledged, Handle
<1>2. Up(s) /\ p \in Pid /\ p # null /\ p \in Wire(net[s])["CLOSE_ACK"]
  BY <1>1, ArrivesFromOther DEF ProcessFrame
<1>3. /\ Work(s) \in WorkOK /\ Work(s).ch = c /\ Work(s).procs = procs[s]
      /\ c \in Channel /\ Roles(c) /\ OneClose(c)
      /\ Routed(c, procs[s], chan[Other(s)], procs[Other(s)],
                Wire(net[s]), Wire(net[Other(s)]), Past)
  BY <1>2, Stage
<1>4. \A y \in WorkOK : \A k, q :
        Commit(s, y, Tail(net[s])) /\ Agrees(s, y, "CLOSE_ACK", p, k, q) => Accords'
  BY <1>1, HandlerAccords
<1>5. CloseOwned(c, procs[s], net[s], net[Other(s)])
  <2>1. Scene(c, procs[s], chan[Other(s)], procs[Other(s)], net[s], net[Other(s)], Past)
    BY SceneAt
  <2>2. QED
    BY <2>1 DEF Scene, Agreed
<1> HIDE DEF p
<1>6. CASE mine /\ Commit(s, v, Tail(net[s]))
  <2>1. p = c.closing /\ c.active /\ c.scheduled = NoRequest
    BY <1>2, <1>3, <1>5, <1>6 DEF CloseOwned, Roles, Idle
  <2>2. /\ v \in WorkOK /\ v.ch = Closed(c) /\ v.procs = procs[s] \ {c.closing}
        /\ v.out = Work(s).out
    BY <1>3, <2>1, FinalizeCloseDoes
  <2> HIDE DEF v
  <2>3. /\ ~Closed(c).active /\ Closed(c).closing = null /\ Closed(c).pending = null
        /\ Closed(c).awaiting = NoRequest /\ Closed(c).scheduled = NoRequest
    BY <1>3, <2>1 DEF Closed, Channel
  <2>4. Closes(c, procs[s], v.ch, v.procs, "CLOSE_ACK", p, "MESSAGE")
    BY <1>2, <2>1, <2>2, <2>3 DEF Closes, PlainFrame
  <2>5. Adds(v, Work(s), "MESSAGE", null) /\ Named(v.ch)
    BY <2>2, <2>3 DEF Adds, Named
  <2>6. Agrees(s, v, "CLOSE_ACK", p, "MESSAGE", null)
    BY <2>4, <2>5 DEF Agrees, Agreeable, Single
  <2>7. QED
    BY <1>4, <1>6, <2>2, <2>6
<1>7. CASE ~mine /\ Commit(s, Work(s), Tail(net[s]))
  <2>1. p # c.closing
    BY <1>2, <1>3, <1>7 DEF Routed, Half, CloseKept
  <2>2. Agrees(s, Work(s), "CLOSE_ACK", p, "MESSAGE", null)
    BY <1>2, <2>1, IdleAgrees
  <2>3. QED
    BY <1>3, <1>4, <1>7, <2>2
<1>8. QED
  BY <1>1, <1>6, <1>7

\* No channel is destroyed by the other side.
LEMMA NotDestroyed ==
  ASSUME AInv, NEW s \in Side
  PROVE  ~HandleDestroy(s)
<1> SUFFICES ASSUME HandleDestroy(s) PROVE FALSE
  OBVIOUS
<1>1. net[s] # << >> /\ Head(net[s]).type = "DESTROY" /\ net[s] \in Seq(Frame)
  BY DEF HandleDestroy, Arriving, AInv, RInv, IInv, TypeOK
<1>2. 1 \in DOMAIN net[s] /\ Head(net[s]) = net[s][1]
  BY <1>1
<1>3. QED
  BY <1>1, <1>2 DEF AInv, Consents, HearsConsent

\* handleMessage: a message is delivered.
LEMMA HandleMessageAccords ==
  ASSUME AInv, NEW s \in Side, HandleMessage(s)
  PROVE  Accords'
<1>1. Arriving(s, "MESSAGE") /\ Commit(s, Work(s), Tail(net[s]))
  BY DEF HandleMessage
<1>2. Up(s)
  BY <1>1, ArrivesFromOther
<1>3. /\ Work(s) \in WorkOK
      /\ Agrees(s, Work(s), "MESSAGE", Head(net[s]).pid, "MESSAGE", null)
  BY <1>2, IdleAgrees
<1>4. QED
  BY <1>1, <1>3, HandlerAccords

-----------------------------------------------------------------------------
(* The pages that are loaded.                                              *)

\* Frames of one page behind others of it.
LEMMA ConcatFrom ==
  ASSUME NEW q \in Seq(Frame), NEW r \in Seq(Frame), NEW i,
         \A k \in DOMAIN q : q[k].from = i, \A k \in DOMAIN r : r[k].from = i
  PROVE  \A k \in DOMAIN (q \o r) : (q \o r)[k].from = i
<1> DEFINE v == q \o r
<1>1. /\ v \in Seq(Frame) /\ Len(v) = Len(q) + Len(r) /\ Len(q) \in Nat /\ Len(r) \in Nat
      /\ DOMAIN q = 1 .. Len(q) /\ DOMAIN r = 1 .. Len(r) /\ DOMAIN v = 1 .. Len(v)
      /\ \A k \in 1 .. Len(v) : v[k] = IF k <= Len(q) THEN q[k] ELSE r[k - Len(q)]
  OBVIOUS
<1> HIDE DEF v
<1>2. ASSUME NEW k \in 1 .. Len(v) PROVE v[k].from = i
  <2>1. CASE k <= Len(q)
    BY <1>1, <1>2, <2>1
  <2>2. CASE ~(k <= Len(q))
    <3>1. k - Len(q) \in 1 .. Len(r)
      BY <1>1, <1>2, <2>2
    <3>2. v[k] = r[k - Len(q)]
      BY <1>1, <1>2, <2>2
    <3>3. QED
      BY <1>1, <3>1, <3>2
  <2>3. QED
    BY <2>1, <2>2
<1>3. QED
  BY <1>1, <1>2 DEF v

\* A page that stays posts in its own name.
LEMMA ConsentingPages ==
  ASSUME AInv, NEW s \in Side, ConsentingMove(s)
  PROVE  Pages'
<1> DEFINE t == Other(s)
<1>1. PICK w \in WorkOK : Speaks(w, Work(s), {"MESSAGE"}) /\ Commits(s, w)
  BY DEF ConsentingMove
<1>2. Up(s) /\ t \in Side /\ t # s /\ Other(t) = s /\ \A u \in Side : u = s \/ u = t
  BY OtherOther DEF ConsentingMove
<1>3. net \in [Side -> Seq(Frame)] /\ w.out \in Seq(Frame)
  BY DEF AInv, RInv, IInv, TypeOK, WorkOK
<1>4. /\ broker' = broker /\ used' = used
      /\ \/ net'[s] = net[s]
         \/ net[s] # << >> /\ net'[s] = Tail(net[s])
      /\ net'[t] = net[t] \o w.out
  BY <1>1, <1>2, <1>3 DEF Commits, Commit
<1>5. \A k \in DOMAIN w.out : w.out[k].from = broker[s]
  <2>1. Work(s).out = << >> /\ Work(s).id = broker[s]
    BY <1>2, Stage
  <2>2. DOMAIN w.out = 1 .. Len(w.out) /\ Len(<< >>) = 0
    BY <1>3
  <2>3. QED
    BY <1>1, <2>1, <2>2 DEF Speaks
<1>6. \A u \in Side : \A k \in DOMAIN net[u] : net[u][k].from = broker[Other(u)]
  BY DEF AInv, Pages
<1> HIDE DEF t
<1>7. \A k \in DOMAIN net'[s] : net'[s][k].from = broker[Other(s)]
  <2>1. CASE net'[s] = net[s]
    BY <1>6, <2>1
  <2>2. CASE net[s] # << >> /\ net'[s] = Tail(net[s])
    <3> DEFINE q == net[s]
    <3>1. q \in Seq(Frame) /\ q # << >>
      BY <1>3, <2>2
    <3>2. \A k \in DOMAIN Tail(q) : k + 1 \in DOMAIN q /\ Tail(q)[k] = q[k + 1]
      <4> HIDE DEF q
      <4>1. QED
        BY <3>1
    <3>3. QED
      BY <1>6, <2>2, <3>2
  <2>3. QED
    BY <1>4, <2>1, <2>2
<1>8. \A k \in DOMAIN net'[t] : net'[t][k].from = broker[s]
  <2> DEFINE q == net[t]
             r == w.out
  <2>1. q \in Seq(Frame) /\ r \in Seq(Frame)
    BY <1>2, <1>3
  <2>2. /\ \A k \in DOMAIN q : q[k].from = broker[s]
        /\ \A k \in DOMAIN r : r[k].from = broker[s]
    BY <1>2, <1>5, <1>6
  <2>3. net'[t] = q \o r
    BY <1>4
  <2> HIDE DEF q, r
  <2>4. QED
    BY <2>1, <2>2, <2>3, ConcatFrom
<1>9. used \subseteq {broker[u] : u \in Side}
  BY DEF AInv, Pages
<1>10. \A u \in Side : \A k \in DOMAIN net'[u] : net'[u][k].from = broker'[Other(u)]
  BY <1>2, <1>4, <1>7, <1>8 DEF t
<1>11. QED
  BY <1>4, <1>9, <1>10 DEF Pages

\* The pages that boot are two at most, and different.
LEMMA BootPages ==
  ASSUME AInv, NEW s \in Side, Boot(s)
  PROVE  Pages'
<1> DEFINE t == Other(s)
<1>1. PICK i \in Id \ used : broker' = [broker EXCEPT ![s] = i] /\ used' = used \cup {i}
  BY DEF Boot
<1>2. broker[s] = null /\ net' = net
  BY DEF Boot, Up
<1>3. t \in Side /\ t # s /\ Other(t) = s /\ \A u \in Side : u = s \/ u = t
  BY OtherOther
<1>4. /\ broker \in [Side -> Id \cup {null}] /\ used \subseteq Id
      /\ net \in [Side -> Seq(Frame)]
  BY DEF AInv, RInv, IInv, TypeOK
<1>5. broker'[s] = i /\ broker'[t] = broker[t]
  BY <1>1, <1>3, <1>4
<1>6. /\ used \subseteq {broker[u] : u \in Side}
      /\ \A u \in Side : \A k \in DOMAIN net[u] : net[u][k].from = broker[Other(u)]
  BY DEF AInv, Pages
<1>7. used' \subseteq {broker'[u] : u \in Side}
  <2>1. ASSUME NEW j \in used' PROVE j \in {broker'[s], broker'[t]}
    BY <1>1, <1>2, <1>3, <1>4, <1>5, <1>6, NullIsNone
  <2>2. QED
    BY <1>3, <2>1
<1>8. ASSUME NEW k \in DOMAIN net[t] PROVE FALSE
  <2>1. net[t] \in Seq(Frame)
    BY <1>3, <1>4
  <2>2. net[t][k] \in Frame
    BY <1>8, <2>1
  <2>3. net[t][k].from \in Id
    BY <2>2 DEF Frame
  <2>4. net[t][k].from = null
    BY <1>2, <1>3, <1>6, <1>8
  <2>5. QED
    BY <2>3, <2>4, NullIsNone
<1>9. Other(s) = t
  OBVIOUS
<1> HIDE DEF t
<1>10. \A u \in Side : \A k \in DOMAIN net'[u] : net'[u][k].from = broker'[Other(u)]
  BY <1>2, <1>3, <1>5, <1>6, <1>8, <1>9
<1>11. QED
  BY <1>7, <1>10 DEF Pages

-----------------------------------------------------------------------------
(* Two pages that stay and close politely.                                 *)

\* No page is reloaded, no attempt cancelled, no deadline passes, no channel
\* is destroyed, and no close is silent.  Requests may cross, be refused and be
\* repeated, and sessions be closed, by one side or by both, and opened again.
Polite == Env \cap {"silent", "expire", "cancel", "destroy", "reload"} = {}

\* Two empty windows agree.
LEMMA InitAgrees == Init => AInv
<1> SUFFICES ASSUME Init PROVE AInv
  OBVIOUS
<1> DEFINE c == NewChannel(FALSE)
           W == Wire(<< >>)
           T == Trail(<< >>, "CANCEL", null)
<1>1. RInv /\ Consents
  BY InitIInv, InitRouting, InitConsents DEF RInv
<1>2. Pages
  BY OtherSide DEF Init, Pages
<1>3. \A s \in Side : /\ chan[s] = c /\ chan[Other(s)] = c
                      /\ procs[s] = {} /\ procs[Other(s)] = {}
                      /\ net[s] = << >> /\ net[Other(s)] = << >>
  BY OtherSide DEF Init
<1>4. /\ ~c.active /\ c.pending = null /\ c.closing = null /\ c.awaiting = NoRequest
      /\ c.scheduled = NoRequest
  BY DEF NewChannel
<1>5. \A k \in ProcessFrame : W[k] = {}
  BY WireEmpty
<1>6. Answers(c) = {}
  BY FreshFits
<1> HIDE DEF c, W
<1>7. Agreed(c, {}, c, {}, << >>, << >>)
  BY <1>4, <1>5, <1>6
     DEF Agreed, LastWord, AskedLast, AcceptLast, HalfOpen, OpenBacked, NoneAsks,
         CloseBacked, AckedIsClosed, CancelBacked, CloseOwned, ProcessFrame, W
<1>8. Accords
  BY <1>3, <1>4, <1>7 DEF Accords, AgreedAt, Named
<1>9. QED
  BY <1>1, <1>2, <1>8 DEF AInv

\* No page comes but the first two.
LEMMA NextPages ==
  ASSUME AInv, "destroy" \notin Env, "reload" \notin Env, [Next]_vars
  PROVE  Pages'
<1>1. CASE UNCHANGED vars
  BY <1>1 DEF vars, AInv, Pages
<1>2. CASE Next
  <2>1. PICK s \in Side : Call(s) \/ Tick(s) \/ Deliver(s)
    BY <1>2 DEF Next
  <2>2. Boot(s) \/ Unload(s) \/ AddChannel(s) \/ DestroyStep(s) \/ ConsentingMove(s)
    BY <2>1, ConsentingKinds DEF AInv
  <2>3. CASE AddChannel(s)
    BY <2>3 DEF AddChannel, AInv, Pages
  <2>4. ~DestroyStep(s) /\ ~Unload(s)
    BY NeverDestroyed DEF AInv, Unload
  <2>5. QED
    BY <2>2, <2>3, <2>4, BootPages, ConsentingPages
<1>3. QED
  BY <1>1, <1>2

\* Each action keeps both sides agreed.
LEMMA NextAccords ==
  ASSUME AInv, Polite, [Next]_vars
  PROVE  Accords'
<1>1. CASE UNCHANGED vars
  <2>1. chan' = chan /\ procs' = procs /\ net' = net
    BY <1>1 DEF vars
  <2>2. QED
    BY <2>1 DEF AInv, Accords, AgreedAt
<1>2. CASE Next
  <2>1. PICK s \in Side : Call(s) \/ Tick(s) \/ Deliver(s)
    BY <1>2 DEF Next
  <2>2. /\ ~Unload(s) /\ ~DisconnectSilently(s) /\ ~Cancel(s) /\ ~DestroyCall(s)
        /\ ~Expire(s) /\ ~CloseTimeout(s)
    BY DEF Polite, Unload, DisconnectSilently, Cancel, DestroyCall, Expire, CloseTimeout
  <2>3. CASE Call(s)
    BY <2>2, <2>3, BootAccords, AddChannelAccords, ConnectRequestAccords,
       ConnectAnswerAccords, DisconnectAccords, SendAccords DEF Call
  <2>4. CASE Tick(s)
    BY <2>2, <2>4, RetryAccords DEF Tick
  <2>5. CASE Deliver(s)
    BY <2>5, HandleRequestAccords, HandleAcceptAccords, HandleOpenAccords, HandleDenyAccords,
       HandleCancelAccords, HandleCancelAcknowledgedAccords, HandleCloseAccords,
       HandleCloseAcknowledgedAccords, NotDestroyed, HandleMessageAccords DEF Deliver
  <2>6. QED
    BY <2>1, <2>3, <2>4, <2>5
<1>3. QED
  BY <1>1, <1>2

\* The whole invariant is inductive.
LEMMA NextAgrees ==
  ASSUME Polite
  PROVE  AInv /\ [Next]_vars => AInv'
<1> SUFFICES ASSUME AInv, [Next]_vars PROVE AInv'
  OBVIOUS
<1>1. "destroy" \notin Env /\ "reload" \notin Env
  BY DEF Polite
<1>2. IInv' /\ Routing'
  BY NextKeeps, NextRoutes DEF AInv, RInv
<1>3. Consents'
  BY <1>1, NextConsents DEF AInv
<1>4. Pages' /\ Accords'
  BY <1>1, NextPages, NextAccords
<1>5. QED
  BY <1>2, <1>3, <1>4 DEF AInv, RInv

\* With nothing in flight, a session open on one side is open on the other.
LEMMA AgreedMeansAgreement == AInv => Agreement
<1> SUFFICES ASSUME AInv, Settled, NEW s \in Side, chan[s].active,
                    chan[s].peerId = broker[Other(s)]
             PROVE  chan[Other(s)].active /\ chan[Other(s)].peerId = broker[s]
  BY DEF Agreement
<1> DEFINE t == Other(s)
<1>1. t \in Side /\ Other(t) = s
  BY OtherOther
<1>2. net[s] = << >> /\ net[t] = << >>
  BY <1>1 DEF Settled
<1>3. HalfOpen(chan[s], chan[t], procs[t], net[s], net[t])
  BY DEF AInv, Accords, AgreedAt, Agreed
<1>4. \A k \in ProcessFrame : Wire(net[s])[k] = {} /\ Wire(net[t])[k] = {}
  BY <1>2, WireEmpty
<1> HIDE DEF t
<1>5. chan[t].active
  BY <1>3, <1>4 DEF HalfOpen, Opening, Ending, ProcessFrame
<1>6. chan[t].peerId = broker[s]
  BY <1>1, <1>5, OtherIsPeer DEF AInv, Consents, MeansConsent
<1>7. QED
  BY <1>5, <1>6 DEF t

\* Whatever crosses, is refused, repeated or closed by both sides at once, two
\* pages that stay and close politely never end up with one of them alone in a
\* session: the half-open channel that a late ACCEPT, OPEN or CLOSE_ACK could
\* leave behind does not arise.
THEOREM PoliteSessionsAgree ==
  ASSUME Polite
  PROVE  Spec => []Agreement
<1>1. AInv /\ [Next]_vars => AInv'
  BY NextAgrees
<1>2. QED
  BY <1>1, InitAgrees, AgreedMeansAgreement, PTL DEF Spec

=============================================================================
