------------------------ MODULE NexusChannel_proofs ------------------------
(***************************************************************************)
(* Theorems about NexusChannel, for any origins, refusing sides, bounds    *)
(* and behaviour of the environment: the roles of a channel, and what an   *)
(* answer finds when it arrives.                                           *)
(*                                                                         *)
(* A handler is a composition of operators on a page's work, so the proof  *)
(* has a lemma per operator (what it preserves and what it does to the     *)
(* channel record), a lemma for Commit, and a step per action.             *)
(*                                                                         *)
(* A process id is minted by one side and answered by the other, so where  *)
(* it may appear (as a request or a close in progress, tracked by a        *)
(* broker, held by an answer, in flight in either direction) is one        *)
(* invariant of both pages and both wires.  A handler or a call moves one  *)
(* page: Moves says what any of them may do to that page, one lemma per    *)
(* part of the invariant shows that such a move keeps it, and a lemma per  *)
(* action that it is such a move.                                          *)
(***************************************************************************)
EXTENDS NexusChannel, TLAPS

\* A page's work in progress.
WorkOK == [id : Id, at : Origin \cup {null}, ch : Channel, procs : SUBSET Pid,
           orphans : SUBSET Orphan, out : Seq(Frame)]

\* The two windows are each other's counterpart.
LEMMA OtherSide ==
  ASSUME NEW s \in Side
  PROVE  Other(s) \in Side /\ Other(s) # s
BY SidesAssumption DEF Other

\* null names no incarnation, no process and no origin.
LEMMA NullIsNone == null \notin Id /\ null \notin Pid /\ null \notin Origin
BY IdAssumption DEF null, Pid, Origin

\* An incarnation has an origin.
LEMMA OriginType == ASSUME NEW i \in Id PROVE OriginOf[i] \in Origin
BY DEF Origin

\* The work a running page starts from.
LEMMA WorkType ==
  ASSUME TypeOK, NEW s \in Side, Up(s)
  PROVE  /\ Work(s) \in WorkOK
         /\ Work(s).ch = chan[s]
         /\ Work(s).procs = procs[s]
         /\ Work(s).orphans = orphans[s]
BY OtherSide, OriginType DEF Work, WorkOK, TypeOK, Up

\* sendAction changes nothing but what is posted.
LEMMA PostType ==
  ASSUME NEW w \in WorkOK, NEW type, NEW p,
         \/ type \in ProcessFrame /\ p \in Pid
         \/ type \in PlainFrame /\ p = null
  PROVE  /\ Post(w, type, p) \in WorkOK
         /\ Post(w, type, p).ch = w.ch
<1> DEFINE f == [type |-> type, from |-> w.id, pid |-> p, msg |-> 0]
<1>1. f \in Frame
  BY DEF Frame, WorkOK
<1>2. Append(w.out, f) \in Seq(Frame)
  BY <1>1 DEF WorkOK
<1> HIDE DEF f
<1>3. [w EXCEPT !.out = Append(w.out, f)] \in WorkOK
  BY <1>2 DEF WorkOK
<1>4. [w EXCEPT !.out = Append(w.out, f)].ch = w.ch
  BY DEF WorkOK
<1>5. QED
  BY <1>3, <1>4 DEF Post, f

\* Neither does a run of messages.
LEMMA PostMessagesType ==
  ASSUME NEW w \in WorkOK, NEW msgs \in Seq(Nat)
  PROVE  /\ PostMessages(w, msgs) \in WorkOK
         /\ PostMessages(w, msgs).ch = w.ch
<1> DEFINE fs == [i \in 1 .. Len(msgs) |->
                    [type |-> "MESSAGE", from |-> w.id, pid |-> null, msg |-> msgs[i]]]
<1>1. \A i \in 1 .. Len(msgs) : fs[i] \in Frame
  BY DEF Frame, PlainFrame, WorkOK
<1>2. fs \in Seq(Frame)
  BY <1>1
<1> HIDE DEF fs
<1>3. w.out \o fs \in Seq(Frame)
  BY <1>2 DEF WorkOK
<1>4. [w EXCEPT !.out = w.out \o fs] \in WorkOK
  BY <1>3 DEF WorkOK
<1>5. [w EXCEPT !.out = w.out \o fs].ch = w.ch
  BY DEF WorkOK
<1>6. QED
  BY <1>4, <1>5 DEF PostMessages, fs

\* Forgetting and tracking processes leaves the channel alone.
LEMMA UntrackType ==
  ASSUME NEW w \in WorkOK, NEW p
  PROVE  /\ Untrack(w, p) \in WorkOK
         /\ Untrack(w, p).ch = w.ch
BY DEF Untrack, WorkOK

LEMMA TrackType ==
  ASSUME NEW w \in WorkOK, NEW p \in Pid
  PROVE  /\ Track(w, p) \in WorkOK
         /\ Track(w, p).ch = w.ch
<1>1. /\ Untrack(w, p) \in WorkOK
      /\ Untrack(w, p).ch = w.ch
  BY UntrackType
<1>2. QED
  BY <1>1 DEF Track, WorkOK

\* A channel record written back into the work.
LEMMA ChannelWrite ==
  ASSUME NEW w \in WorkOK, NEW c \in Channel
  PROVE  [w EXCEPT !.ch = c] \in WorkOK /\ [w EXCEPT !.ch = c].ch = c
BY DEF WorkOK

\* What the roles and the event counts of a session need to be inductive: a
\* session that no side has proposed to close has fired no 'closing'.
Sound(c) == /\ Roles(c)
            /\ OneClose(c)
            /\ c.active /\ c.closing = null => c.closings = 0

\* The parts of a channel record that Sound depends on.
SameRoles(c, d) ==
  /\ c.ready = d.ready /\ c.active = d.active /\ c.pending = d.pending
  /\ c.awaiting = d.awaiting /\ c.scheduled = d.scheduled /\ c.closing = d.closing
  /\ c.opens = d.opens /\ c.closings = d.closings

LEMMA SoundIsAboutRoles ==
  ASSUME NEW c, NEW d, Sound(c), SameRoles(c, d)
  PROVE  Sound(d)
BY DEF Sound, Roles, OneClose, Idle, SameRoles

\* Clearing the timers changes no role.
LEMMA ClearTimersType ==
  ASSUME NEW w \in WorkOK
  PROVE  /\ ClearTimers(w) \in WorkOK
         /\ ClearTimers(w).ch = [w.ch EXCEPT !.timer = NoTimer]
         /\ SameRoles(w.ch, ClearTimers(w).ch)
<1> DEFINE c == [w.ch EXCEPT !.timer = NoTimer]
<1>1. ClearTimers(w) = [w EXCEPT !.ch = c]
  BY DEF ClearTimers, WorkOK
<1>2. c \in Channel
  BY DEF WorkOK, Channel
<1>3. SameRoles(w.ch, c)
  BY DEF WorkOK, Channel, SameRoles
<1> HIDE DEF c
<1>4. [w EXCEPT !.ch = c] \in WorkOK /\ [w EXCEPT !.ch = c].ch = c
  BY <1>2, ChannelWrite
<1>5. QED
  BY <1>1, <1>3, <1>4 DEF c

\* The outcome of an attempt is history, and changes no role.
LEMMA EndAttemptType ==
  ASSUME NEW w \in WorkOK, NEW outcome \in Outcome
  PROVE  /\ EndAttempt(w, outcome) \in WorkOK
         /\ SameRoles(w.ch, EndAttempt(w, outcome).ch)
<1> DEFINE h == [w.ch.attempt EXCEPT !.outcome = outcome]
           c == [w.ch EXCEPT !.attempt = h]
<1>1. h \in Attempt
  BY DEF WorkOK, Channel, Attempt
<1>2. EndAttempt(w, outcome) = [w EXCEPT !.ch = c]
  BY DEF EndAttempt, WorkOK, Channel, Attempt
<1> HIDE DEF h
<1>3. c \in Channel
  BY <1>1 DEF WorkOK, Channel
<1>4. SameRoles(w.ch, c)
  BY DEF WorkOK, Channel, SameRoles
<1> HIDE DEF c
<1>5. QED
  BY <1>2, <1>3, <1>4, ChannelWrite

LEMMA DenyOnceType ==
  ASSUME NEW w \in WorkOK, NEW p \in Pid
  PROVE  /\ DenyOnce(w, p) \in WorkOK
         /\ SameRoles(w.ch, DenyOnce(w, p).ch)
<1> DEFINE d == [w EXCEPT !.ch.denied = p]
<1>1. d \in WorkOK /\ SameRoles(w.ch, d.ch)
  BY DEF WorkOK, Channel, SameRoles
<1> HIDE DEF d
<1>2. /\ EndAttempt(d, "deny") \in WorkOK
      /\ SameRoles(d.ch, EndAttempt(d, "deny").ch)
  BY <1>1, EndAttemptType DEF Outcome
<1>3. CASE w.ch.denied = p
  BY <1>3 DEF DenyOnce, SameRoles
<1>4. CASE w.ch.denied # p
  <2>1. DenyOnce(w, p) = EndAttempt(d, "deny")
    BY <1>4 DEF DenyOnce, d
  <2>2. QED
    BY <2>1, <1>1, <1>2 DEF SameRoles
<1>5. QED
  BY <1>3, <1>4

-----------------------------------------------------------------------------
(* What the operators do to the channel record.                            *)

Abandoned(c) == [c EXCEPT !.timer = NoTimer, !.pending = null]

LEMMA AbandonedType ==
  ASSUME NEW c \in Channel, Sound(c)
  PROVE  /\ Abandoned(c) \in Channel
         /\ Sound(Abandoned(c))
         /\ Abandoned(c).pending = null
         /\ Abandoned(c).active = c.active
         /\ Abandoned(c).ready = c.ready
<1>1. Abandoned(c) \in Channel
  BY DEF Channel, Abandoned
<1>2. Sound(Abandoned(c))
  BY DEF Channel, Abandoned, Sound, Roles, OneClose, Idle
<1>3. /\ Abandoned(c).pending = null
      /\ Abandoned(c).active = c.active
      /\ Abandoned(c).ready = c.ready
  BY DEF Channel, Abandoned
<1>4. QED
  BY <1>1, <1>2, <1>3

Closed(c) ==
  [c EXCEPT !.timer = NoTimer, !.active = FALSE, !.pending = null,
            !.awaiting = NoRequest, !.closing = null, !.opens = @ - 1]

LEMMA ClosedType ==
  ASSUME NEW c \in Channel, Roles(c), OneClose(c), c.active
  PROVE  /\ Closed(c) \in Channel
         /\ Sound(Closed(c))
         /\ ~Closed(c).active
<1> DEFINE n == c.opens - 1
<1>1. n \in Int
  BY DEF Channel
<1>2. Closed(c) = [c EXCEPT !.timer = NoTimer, !.active = FALSE, !.pending = null,
                            !.awaiting = NoRequest, !.closing = null, !.opens = n]
  BY DEF Closed
<1> HIDE DEF n
<1>3. Closed(c) \in Channel
  BY <1>1, <1>2 DEF Channel
<1>4. Sound(Closed(c))
  BY DEF Channel, Closed, Sound, Roles, OneClose, Idle
<1>5. ~Closed(c).active
  BY DEF Channel, Closed
<1>6. QED
  BY <1>3, <1>4, <1>5

Answering(c, r) ==
  [c EXCEPT !.origin = OriginOf[r.from], !.peerId = r.from,
            !.scheduled = NoRequest, !.awaiting = r,
            !.timer = [type |-> "ACCEPT", pid |-> r.pid],
            !.attempt = Begun(r.pid)]

LEMMA AnsweringChannel ==
  ASSUME NEW c \in Channel, NEW r \in Request
  PROVE  Answering(c, r) \in Channel
BY OriginType DEF Channel, Answering, Request, Timer, Attempt, Begun, Outcome

LEMMA AnsweringType ==
  ASSUME NEW c \in Channel, NEW r \in Request, Sound(c),
         c.ready, ~c.active, c.pending = null
  PROVE  Answering(c, r) \in Channel /\ Sound(Answering(c, r))
<1>1. Answering(c, r) \in Channel
  BY AnsweringChannel
<1>2. Sound(Answering(c, r))
  BY DEF Channel, Answering, Sound, Roles, OneClose, Idle
<1>3. QED
  BY <1>1, <1>2

Opened(c, i) ==
  [c EXCEPT !.active = TRUE, !.origin = OriginOf[i], !.peerId = i,
            !.scheduled = NoRequest, !.awaiting = NoRequest,
            !.pending = null, !.timer = NoTimer, !.opens = @ + 1, !.closings = 0]

LEMMA OpenedWrite ==
  ASSUME NEW c \in Channel, NEW i \in Id, NEW o \in Origin, NEW n \in Int
  PROVE  [c EXCEPT !.active = TRUE, !.origin = o, !.peerId = i,
                   !.scheduled = NoRequest, !.awaiting = NoRequest,
                   !.pending = null, !.timer = NoTimer, !.opens = n, !.closings = 0] \in Channel
BY DEF Channel

LEMMA OpenedChannel ==
  ASSUME NEW c \in Channel, NEW i \in Id
  PROVE  Opened(c, i) \in Channel
<1> DEFINE n == c.opens + 1
           o == OriginOf[i]
<1>1. n \in Int /\ o \in Origin
  BY OriginType DEF Channel
<1>2. Opened(c, i) = [c EXCEPT !.active = TRUE, !.origin = o, !.peerId = i,
                               !.scheduled = NoRequest, !.awaiting = NoRequest,
                               !.pending = null, !.timer = NoTimer, !.opens = n, !.closings = 0]
  BY DEF Opened
<1> HIDE DEF n, o
<1>3. [c EXCEPT !.active = TRUE, !.origin = o, !.peerId = i,
                !.scheduled = NoRequest, !.awaiting = NoRequest,
                !.pending = null, !.timer = NoTimer, !.opens = n, !.closings = 0] \in Channel
  BY <1>1, OpenedWrite
<1>4. QED
  BY <1>2, <1>3

LEMMA OpenedType ==
  ASSUME NEW c \in Channel, NEW i \in Id, Sound(c), c.ready, ~c.active
  PROVE  Opened(c, i) \in Channel /\ Sound(Opened(c, i))
<1>1. Opened(c, i) \in Channel
  BY OpenedChannel
<1>2. Roles(Opened(c, i))
  BY DEF Channel, Opened, Sound, Roles, Idle
<1>3. OneClose(Opened(c, i)) /\ Opened(c, i).closings = 0
  BY DEF Channel, Opened, Sound, OneClose
<1>4. QED
  BY <1>1, <1>2, <1>3 DEF Sound

Proposed(c, p) ==
  [c EXCEPT !.timer = NoTimer, !.closing = p, !.closings = @ + 1]

LEMMA ProposedType ==
  ASSUME NEW c \in Channel, NEW p \in Pid, Sound(c), c.active, c.closing = null
  PROVE  Proposed(c, p) \in Channel /\ Sound(Proposed(c, p))
<1> DEFINE n == c.closings + 1
<1>1. n \in Nat
  BY DEF Channel
<1>2. Proposed(c, p) = [c EXCEPT !.timer = NoTimer, !.closing = p, !.closings = n]
  BY DEF Proposed
<1> HIDE DEF n
<1>3. Proposed(c, p) \in Channel
  BY <1>1, <1>2 DEF Channel
<1>4. Roles(Proposed(c, p))
  BY DEF Channel, Proposed, Sound, Roles, Idle
<1>5. Proposed(c, p).closing = p /\ p # null
  BY NullIsNone DEF Channel, Proposed
<1>6. OneClose(Proposed(c, p))
  BY DEF Channel, Proposed, Sound, OneClose
<1>7. QED
  BY <1>3, <1>4, <1>5, <1>6 DEF Sound

\* An attempt that ends without a session: cancelled or timed out.
Given(c, request) ==
  [c EXCEPT !.timer = NoTimer, !.pending = null, !.awaiting = NoRequest,
            !.scheduled = request]

LEMMA GivenType ==
  ASSUME NEW c \in Channel, NEW r, Sound(c), r \in {NoRequest, c.scheduled}
  PROVE  Given(c, r) \in Channel /\ Sound(Given(c, r))
<1>1. r \in Request \cup {NoRequest}
  BY DEF Channel
<1>2. Given(c, r) \in Channel
  BY <1>1 DEF Channel, Given
<1>3. Sound(Given(c, r))
  BY DEF Channel, Given, Sound, Roles, OneClose, Idle
<1>4. QED
  BY <1>2, <1>3

LEMMA FreshType ==
  ASSUME NEW registered \in BOOLEAN
  PROVE  NewChannel(registered) \in Channel /\ Sound(NewChannel(registered))
BY DEF NewChannel, Channel, Sound, Roles, OneClose, Idle, NoAttempt, Attempt, Outcome

-----------------------------------------------------------------------------
(* The operators on a page's work.                                         *)

\* Clearing the timers and forgetting a process.
LEMMA StopType ==
  ASSUME NEW w \in WorkOK, NEW p
  PROVE  /\ Untrack(ClearTimers(w), p) \in WorkOK
         /\ Untrack(ClearTimers(w), p).ch = [w.ch EXCEPT !.timer = NoTimer]
BY ClearTimersType, UntrackType

LEMMA AbandonRequestType ==
  ASSUME NEW w \in WorkOK, Sound(w.ch)
  PROVE  /\ AbandonRequest(w) \in WorkOK
         /\ AbandonRequest(w).ch = Abandoned(w.ch)
<1> DEFINE u == Untrack(ClearTimers(w), w.ch.pending)
<1>1. u \in WorkOK /\ u.ch = [w.ch EXCEPT !.timer = NoTimer]
  BY StopType
<1>2. AbandonRequest(w) = [u EXCEPT !.ch = [u.ch EXCEPT !.pending = null]]
  BY DEF AbandonRequest
<1> HIDE DEF u
<1>3. [u.ch EXCEPT !.pending = null] = Abandoned(w.ch)
  BY <1>1 DEF Abandoned
<1>4. w.ch \in Channel
  BY DEF WorkOK
<1>5. Abandoned(w.ch) \in Channel
  BY <1>4, AbandonedType
<1>6. QED
  BY <1>1, <1>2, <1>3, <1>5, ChannelWrite

LEMMA FinalizeCloseType ==
  ASSUME NEW w \in WorkOK, Roles(w.ch), OneClose(w.ch)
  PROVE  /\ FinalizeClose(w) \in WorkOK
         /\ Sound(FinalizeClose(w).ch)
         /\ ~FinalizeClose(w).ch.active
<1> DEFINE u == Untrack(ClearTimers(w), w.ch.closing)
           c == [u.ch EXCEPT !.active = FALSE, !.pending = null, !.awaiting = NoRequest,
                             !.closing = null, !.opens = @ - 1]
<1>1. u \in WorkOK /\ u.ch = [w.ch EXCEPT !.timer = NoTimer]
  BY StopType
<1>2. w.ch \in Channel
  BY DEF WorkOK
<1>3. CASE ~w.ch.active
  <2>1. FinalizeClose(w) = w
    BY <1>3 DEF FinalizeClose
  <2>2. QED
    BY <2>1, <1>3 DEF Sound
<1>4. CASE w.ch.active
  <2>1. FinalizeClose(w) = [u EXCEPT !.ch = c]
    BY <1>4 DEF FinalizeClose
  <2> HIDE DEF u
  <2>2. c = Closed(w.ch)
    BY <1>1, <1>2 DEF Closed, Channel
  <2>3. Closed(w.ch) \in Channel /\ Sound(Closed(w.ch)) /\ ~Closed(w.ch).active
    BY <1>2, <1>4, ClosedType
  <2> HIDE DEF c
  <2>4. [u EXCEPT !.ch = c] \in WorkOK /\ [u EXCEPT !.ch = c].ch = c
    BY <1>1, <2>2, <2>3, ChannelWrite
  <2>5. QED
    BY <2>1, <2>2, <2>3, <2>4
<1>5. QED
  BY <1>3, <1>4

LEMMA BeginResponseType ==
  ASSUME NEW w \in WorkOK, NEW r \in Request, Sound(w.ch),
         w.ch.ready, ~w.ch.active, w.ch.pending = null
  PROVE  /\ BeginResponse(w, r) \in WorkOK
         /\ Sound(BeginResponse(w, r).ch)
<1> DEFINE u == [w EXCEPT !.ch = Answering(w.ch, r)]
<1>1. w.ch \in Channel /\ r.pid \in Pid
  BY DEF WorkOK, Request
<1>2. Answering(w.ch, r) \in Channel /\ Sound(Answering(w.ch, r))
  BY <1>1, AnsweringType
<1>3. u \in WorkOK /\ u.ch = Answering(w.ch, r)
  BY <1>2, ChannelWrite
<1>4. BeginResponse(w, r) = Post(u, "ACCEPT", r.pid)
  BY DEF BeginResponse, Answering
<1> HIDE DEF u
<1>5. /\ Post(u, "ACCEPT", r.pid) \in WorkOK
      /\ Post(u, "ACCEPT", r.pid).ch = u.ch
  BY <1>1, <1>3, PostType DEF ProcessFrame
<1>6. QED
  BY <1>2, <1>3, <1>4, <1>5

LEMMA ActivateType ==
  ASSUME NEW w \in WorkOK, NEW i \in Id, Sound(w.ch), w.ch.ready, ~w.ch.active
  PROVE  /\ Activate(w, i) \in WorkOK
         /\ Sound(Activate(w, i).ch)
<1> DEFINE u == [w EXCEPT !.ch = Opened(w.ch, i)]
<1>1. w.ch \in Channel
  BY DEF WorkOK
<1>2. Opened(w.ch, i) \in Channel /\ Sound(Opened(w.ch, i))
  BY <1>1, OpenedType
<1>3. u \in WorkOK /\ u.ch = Opened(w.ch, i)
  BY <1>2, ChannelWrite
<1>4. Activate(w, i) = EndAttempt(u, "open")
  BY DEF Activate, Opened
<1> HIDE DEF u
<1>5. EndAttempt(u, "open") \in WorkOK /\ SameRoles(u.ch, EndAttempt(u, "open").ch)
  BY <1>3, EndAttemptType DEF Outcome
<1>6. Sound(EndAttempt(u, "open").ch)
  BY <1>2, <1>3, <1>5, SoundIsAboutRoles
<1>7. QED
  BY <1>4, <1>5, <1>6

LEMMA QueueWrite ==
  ASSUME NEW c \in Channel, NEW q \in Seq(Nat)
  PROVE  /\ [c EXCEPT !.queue = q] \in Channel
         /\ SameRoles(c, [c EXCEPT !.queue = q])
<1>1. [c EXCEPT !.queue = q] \in Channel
  BY DEF Channel
<1>2. SameRoles(c, [c EXCEPT !.queue = q])
  BY DEF Channel, SameRoles
<1>3. QED
  BY <1>1, <1>2

LEMMA FlushType ==
  ASSUME NEW w \in WorkOK, Sound(w.ch)
  PROVE  /\ Flush(w) \in WorkOK
         /\ Sound(Flush(w).ch)
<1> DEFINE u == [w EXCEPT !.ch = [w.ch EXCEPT !.queue = << >>]]
<1>1. w.ch \in Channel /\ w.ch.queue \in Seq(Nat)
  BY DEF WorkOK, Channel
<1>2. << >> \in Seq(Nat)
  OBVIOUS
<1>3. /\ [w.ch EXCEPT !.queue = << >>] \in Channel
      /\ SameRoles(w.ch, [w.ch EXCEPT !.queue = << >>])
  BY <1>1, <1>2, QueueWrite
<1>4. u \in WorkOK /\ u.ch = [w.ch EXCEPT !.queue = << >>]
  BY <1>3, ChannelWrite
<1>5. Flush(w) = PostMessages(u, w.ch.queue)
  BY DEF Flush
<1> HIDE DEF u
<1>6. Sound(u.ch)
  BY <1>3, <1>4, SoundIsAboutRoles
<1>7. /\ PostMessages(u, w.ch.queue) \in WorkOK
      /\ PostMessages(u, w.ch.queue).ch = u.ch
  BY <1>1, <1>4, PostMessagesType
<1>8. QED
  BY <1>5, <1>6, <1>7

LEMMA ProposeCloseType ==
  ASSUME NEW w \in WorkOK, NEW p \in Pid, Sound(w.ch), w.ch.active, w.ch.closing = null
  PROVE  /\ ProposeClose(w, p) \in WorkOK
         /\ Sound(ProposeClose(w, p).ch)
<1> DEFINE t == Track(ClearTimers(w), p)
           u == [t EXCEPT !.ch = Proposed(w.ch, p)]
<1>1. w.ch \in Channel
  BY DEF WorkOK
<1>2. t \in WorkOK /\ t.ch = [w.ch EXCEPT !.timer = NoTimer]
  BY ClearTimersType, TrackType
<1>3. Proposed(w.ch, p) \in Channel /\ Sound(Proposed(w.ch, p))
  BY <1>1, ProposedType
<1>4. ProposeClose(w, p) =
        Post([t EXCEPT !.ch = [t.ch EXCEPT !.closing = p, !.closings = @ + 1]], "CLOSE", p)
  BY DEF ProposeClose
<1> HIDE DEF t
<1>5. [t.ch EXCEPT !.closing = p, !.closings = @ + 1] = Proposed(w.ch, p)
  BY <1>1, <1>2 DEF Proposed, Channel
<1>6. u \in WorkOK /\ u.ch = Proposed(w.ch, p)
  BY <1>2, <1>3, ChannelWrite
<1>7. ProposeClose(w, p) = Post(u, "CLOSE", p)
  BY <1>4, <1>5
<1> HIDE DEF u
<1>8. Post(u, "CLOSE", p) \in WorkOK /\ Post(u, "CLOSE", p).ch = u.ch
  BY <1>6, PostType DEF ProcessFrame
<1>9. QED
  BY <1>3, <1>6, <1>7, <1>8

LEMMA AbortAttemptType ==
  ASSUME NEW w \in WorkOK, Sound(w.ch)
  PROVE  /\ AbortAttempt(w) \in WorkOK
         /\ Sound(AbortAttempt(w).ch)
<1> DEFINE t == Untrack(ClearTimers(w), w.ch.pending)
           c == [t.ch EXCEPT !.pending = null, !.awaiting = NoRequest, !.scheduled = NoRequest]
           u == [t EXCEPT !.ch = c]
           e == "cancel"
<1>1. w.ch \in Channel
  BY DEF WorkOK
<1>2. t \in WorkOK /\ t.ch = [w.ch EXCEPT !.timer = NoTimer]
  BY StopType
<1>3. Given(w.ch, NoRequest) \in Channel /\ Sound(Given(w.ch, NoRequest))
  BY <1>1, GivenType
<1>4. AbortAttempt(w) = EndAttempt(u, e)
  BY DEF AbortAttempt
<1>5. e \in Outcome
  BY DEF Outcome
<1> HIDE DEF t, e
<1>6. c = Given(w.ch, NoRequest)
  BY <1>1, <1>2 DEF Given, Channel
<1> HIDE DEF c
<1>7. u \in WorkOK /\ u.ch = c
  BY <1>2, <1>3, <1>6, ChannelWrite
<1> HIDE DEF u
<1>8. EndAttempt(u, e) \in WorkOK /\ SameRoles(u.ch, EndAttempt(u, e).ch)
  BY <1>5, <1>7, EndAttemptType
<1>9. Sound(EndAttempt(u, e).ch)
  BY <1>3, <1>6, <1>7, <1>8, SoundIsAboutRoles
<1>10. QED
  BY <1>4, <1>8, <1>9

LEMMA DestroyType ==
  ASSUME NEW w \in WorkOK, NEW notify \in BOOLEAN
  PROVE  /\ Destroy(w, notify) \in WorkOK
         /\ Sound(Destroy(w, notify).ch)
<1> DEFINE g == IF notify THEN Post(w, "DESTROY", null) ELSE w
           h == {w.ch.pending, w.ch.awaiting.pid, w.ch.scheduled.pid, w.ch.closing}
           o == [pid : w.procs \ h, peerId : {w.ch.peerId}, origin : {w.ch.origin}]
<1>1. g \in WorkOK
  BY PostType DEF PlainFrame
<1>2. o \subseteq Orphan
  BY DEF WorkOK, Channel, Orphan
<1>3. NewChannel(FALSE) \in Channel /\ Sound(NewChannel(FALSE))
  BY FreshType
<1>4. Destroy(w, notify) = [g EXCEPT !.ch = NewChannel(FALSE), !.procs = {},
                                     !.orphans = @ \cup o]
  BY DEF Destroy
<1> HIDE DEF g, o
<1>5. [g EXCEPT !.ch = NewChannel(FALSE), !.procs = {}, !.orphans = @ \cup o] \in WorkOK
  BY <1>1, <1>2, <1>3 DEF WorkOK
<1>6. [g EXCEPT !.ch = NewChannel(FALSE), !.procs = {}, !.orphans = @ \cup o].ch = NewChannel(FALSE)
  BY <1>1 DEF WorkOK
<1>7. QED
  BY <1>3, <1>4, <1>5, <1>6

-----------------------------------------------------------------------------
(* The inductive invariant.  A window without a page has no channel, so a  *)
(* timer or a call that finds one finds a page too.                        *)

NoPageNoChannel == \A s \in Side : ~Up(s) => chan[s] = NewChannel(FALSE)

IInv == /\ TypeOK
        /\ \A s \in Side : Sound(chan[s])
        /\ NoPageNoChannel

LEMMA WorkSound ==
  ASSUME IInv, NEW s \in Side, Up(s)
  PROVE  /\ Work(s) \in WorkOK
         /\ Work(s).ch = chan[s]
         /\ Sound(Work(s).ch)
         /\ chan[s] \in Channel
         /\ net[s] \in Seq(Frame)
<1>1. /\ Work(s) \in WorkOK
      /\ Work(s).ch = chan[s]
  BY WorkType DEF IInv
<1>2. Sound(chan[s])
  BY DEF IInv
<1>3. chan[s] \in Channel /\ net[s] \in Seq(Frame)
  BY DEF IInv, TypeOK
<1>4. QED
  BY <1>1, <1>2, <1>3

\* Committing sound work preserves the invariant.
LEMMA CommitKeeps ==
  ASSUME IInv, NEW s \in Side, Up(s), NEW w \in WorkOK, Sound(w.ch),
         NEW rest \in Seq(Frame), Commit(s, w, rest),
         sent' \in [Side -> Nat],
         got' \in [Side -> Seq([from : Id, msg : Nat])],
         nextPid' \in 1 .. (MaxPid + 1)
  PROVE  IInv'
<1>1. /\ w.ch \in Channel /\ w.procs \in SUBSET Pid /\ w.orphans \in SUBSET Orphan
      /\ w.out \in Seq(Frame)
  BY DEF WorkOK
<1>2. /\ chan \in [Side -> Channel] /\ procs \in [Side -> SUBSET Pid]
      /\ orphans \in [Side -> SUBSET Orphan] /\ net \in [Side -> Seq(Frame)]
      /\ broker \in [Side -> Id \cup {null}] /\ used \subseteq Id
  BY DEF IInv, TypeOK
<1>3. /\ chan' = [chan EXCEPT ![s] = w.ch]
      /\ procs' = [procs EXCEPT ![s] = w.procs]
      /\ orphans' = [orphans EXCEPT ![s] = w.orphans]
      /\ net' = [net EXCEPT ![s] = rest, ![Other(s)] = @ \o w.out]
      /\ broker' = broker /\ used' = used
  BY DEF Commit
<1>4. chan' \in [Side -> Channel]
  BY <1>1, <1>2, <1>3
<1>5. procs' \in [Side -> SUBSET Pid]
  BY <1>1, <1>2, <1>3
<1>6. orphans' \in [Side -> SUBSET Orphan]
  BY <1>1, <1>2, <1>3
<1>7. net' \in [Side -> Seq(Frame)]
  <2>1. net[Other(s)] \in Seq(Frame)
    BY <1>2, OtherSide
  <2>2. net[Other(s)] \o w.out \in Seq(Frame)
    BY <1>1, <2>1
  <2>3. net' = [[net EXCEPT ![s] = rest] EXCEPT ![Other(s)] = net[Other(s)] \o w.out]
    BY <1>2, <1>3, OtherSide
  <2>4. QED
    BY <1>2, <2>2, <2>3, OtherSide
<1>8. TypeOK'
  BY <1>2, <1>3, <1>4, <1>5, <1>6, <1>7 DEF TypeOK
<1>9. \A t \in Side : Sound(chan'[t])
  BY <1>2, <1>3 DEF IInv
<1>10. NoPageNoChannel'
  BY <1>2, <1>3 DEF IInv, NoPageNoChannel, Up
<1>11. QED
  BY <1>8, <1>9, <1>10 DEF IInv

\* A call or a timer that leaves the messages and the process ids alone.
LEMMA QuietCommitKeeps ==
  ASSUME IInv, NEW s \in Side, Up(s), NEW w \in WorkOK, Sound(w.ch),
         Commit(s, w, net[s]), UNCHANGED <<sent, got, nextPid>>
  PROVE  IInv'
<1>1. net[s] \in Seq(Frame)
  BY DEF IInv, TypeOK
<1>2. /\ sent' \in [Side -> Nat]
      /\ got' \in [Side -> Seq([from : Id, msg : Nat])]
      /\ nextPid' \in 1 .. (MaxPid + 1)
  BY DEF IInv, TypeOK
<1>3. QED
  BY <1>1, <1>2, CommitKeeps

\* A call that mints a process id.
LEMMA MintCommitKeeps ==
  ASSUME IInv, NEW s \in Side, Up(s), NEW w \in WorkOK, Sound(w.ch),
         Commit(s, w, net[s]), Mint, UNCHANGED <<sent, got>>
  PROVE  IInv'
<1>1. net[s] \in Seq(Frame)
  BY DEF IInv, TypeOK
<1>2. /\ sent' \in [Side -> Nat]
      /\ got' \in [Side -> Seq([from : Id, msg : Nat])]
  BY DEF IInv, TypeOK
<1>3. nextPid' \in 1 .. (MaxPid + 1)
  BY BoundsAssumption DEF Mint, Pid
<1>4. QED
  BY <1>1, <1>2, <1>3, CommitKeeps

\* The frame a handler consumes.
LEMMA Arrives ==
  ASSUME IInv, NEW s \in Side, NEW type, Arriving(s, type)
  PROVE  /\ Up(s)
         /\ Head(net[s]) \in Frame
         /\ Tail(net[s]) \in Seq(Frame)
         /\ Head(net[s]).from \in Id
         /\ Head(net[s]).msg \in Nat
         /\ type \in ProcessFrame => Head(net[s]).pid \in Pid
<1>1. net[s] \in Seq(Frame) /\ net[s] # << >> /\ Head(net[s]).type = type /\ Up(s)
  BY DEF IInv, TypeOK, Arriving
<1>2. Head(net[s]) \in Frame /\ Tail(net[s]) \in Seq(Frame)
  BY <1>1
<1> DEFINE f == Head(net[s])
<1> HIDE DEF f
<1>3. ASSUME f \in Frame, f.type = type
      PROVE  f.from \in Id /\ f.msg \in Nat /\ (type \in ProcessFrame => f.pid \in Pid)
  BY <1>3 DEF Frame, ProcessFrame, PlainFrame
<1>4. QED
  BY <1>1, <1>2, <1>3 DEF f

\* The step of a handler.
LEMMA HandleKeeps ==
  ASSUME IInv, NEW s \in Side, Up(s), Tail(net[s]) \in Seq(Frame),
         NEW w \in WorkOK, Sound(w.ch), Handle(s, w)
  PROVE  IInv'
<1>1. /\ sent' \in [Side -> Nat]
      /\ got' \in [Side -> Seq([from : Id, msg : Nat])]
      /\ nextPid' \in 1 .. (MaxPid + 1)
  BY DEF IInv, TypeOK, Handle
<1>2. Commit(s, w, Tail(net[s]))
  BY DEF Handle
<1>3. QED
  BY <1>1, <1>2, CommitKeeps

-----------------------------------------------------------------------------
(* The page's own calls and its timers.                                    *)

LEMMA BootKeeps ==
  ASSUME IInv, NEW s \in Side, Boot(s)
  PROVE  IInv'
<1>1. PICK i \in Id \ used : broker' = [broker EXCEPT ![s] = i] /\ used' = used \cup {i}
  BY DEF Boot
<1>2. UNCHANGED <<chan, procs, orphans, sent, got, net, nextPid>>
  BY DEF Boot, page
<1>3. TypeOK'
  BY <1>1, <1>2 DEF IInv, TypeOK
<1>4. (\A t \in Side : Sound(chan[t]))'
  BY <1>2 DEF IInv
<1>5. NoPageNoChannel'
  BY <1>1, <1>2, NullIsNone DEF IInv, TypeOK, NoPageNoChannel, Up
<1>6. QED
  BY <1>3, <1>4, <1>5 DEF IInv

LEMMA UnloadKeeps ==
  ASSUME IInv, NEW s \in Side, Unload(s)
  PROVE  IInv'
<1>1. NewChannel(FALSE) \in Channel /\ Sound(NewChannel(FALSE))
  BY FreshType
<1>2. /\ broker' = [broker EXCEPT ![s] = null]
      /\ chan' = [chan EXCEPT ![s] = NewChannel(FALSE)]
      /\ procs' = [procs EXCEPT ![s] = {}]
      /\ orphans' = [orphans EXCEPT ![s] = {}]
      /\ sent' = [sent EXCEPT ![s] = 0]
      /\ got' = [got EXCEPT ![s] = << >>]
      /\ net' = [net EXCEPT ![s] = << >>]
      /\ UNCHANGED <<used, nextPid>>
  BY DEF Unload
<1>3. TypeOK'
  <2>1. /\ broker' \in [Side -> Id \cup {null}]
        /\ chan' \in [Side -> Channel]
        /\ procs' \in [Side -> SUBSET Pid]
        /\ orphans' \in [Side -> SUBSET Orphan]
        /\ sent' \in [Side -> Nat]
    BY <1>1, <1>2 DEF IInv, TypeOK
  <2>2. << >> \in Seq([from : Id, msg : Nat]) /\ << >> \in Seq(Frame)
    OBVIOUS
  <2>3. got' \in [Side -> Seq([from : Id, msg : Nat])]
    BY <1>2, <2>2 DEF IInv, TypeOK
  <2>4. net' \in [Side -> Seq(Frame)]
    BY <1>2, <2>2 DEF IInv, TypeOK
  <2>5. QED
    BY <1>2, <2>1, <2>3, <2>4 DEF IInv, TypeOK
<1>4. (\A t \in Side : Sound(chan[t]))'
  BY <1>1, <1>2 DEF IInv, TypeOK
<1>5. NoPageNoChannel'
  BY <1>2 DEF IInv, TypeOK, NoPageNoChannel, Up
<1>6. QED
  BY <1>3, <1>4, <1>5 DEF IInv

LEMMA AddChannelKeeps ==
  ASSUME IInv, NEW s \in Side, AddChannel(s)
  PROVE  IInv'
<1> DEFINE c == [chan[s] EXCEPT !.registered = TRUE]
<1>1. chan[s] \in Channel /\ Sound(chan[s])
  BY DEF IInv, TypeOK
<1>2. c \in Channel
  BY <1>1 DEF Channel
<1>3. SameRoles(chan[s], c)
  BY <1>1 DEF Channel, SameRoles
<1>4. Sound(c)
  BY <1>1, <1>3, SoundIsAboutRoles
<1>5. /\ chan' = [chan EXCEPT ![s] = c]
      /\ UNCHANGED <<broker, used, procs, orphans, sent, got, net, nextPid>>
      /\ Up(s)
  BY DEF AddChannel, IInv, TypeOK
<1> HIDE DEF c
<1>6. TypeOK'
  BY <1>2, <1>5 DEF IInv, TypeOK
<1>7. (\A t \in Side : Sound(chan[t]))'
  BY <1>4, <1>5 DEF IInv, TypeOK
<1>8. NoPageNoChannel'
  BY <1>5 DEF IInv, TypeOK, NoPageNoChannel, Up
<1>9. QED
  BY <1>6, <1>7, <1>8 DEF IInv

\* connect() as the initiator: the channel is connected with a request pending.
Requesting(c, p) ==
  [c EXCEPT !.ready = TRUE, !.pending = p,
            !.timer = [type |-> "REQUEST", pid |-> p], !.attempt = Begun(p)]

LEMMA RequestingType ==
  ASSUME NEW c \in Channel, NEW p \in Pid
  PROVE  Requesting(c, p) \in Channel
BY DEF Requesting, Channel, Timer, Begun, Attempt, Outcome

LEMMA RequestingSound ==
  ASSUME NEW c \in Channel, NEW p \in Pid, Sound(c), Idle(c), c.scheduled = NoRequest
  PROVE  Sound(Requesting(c, p))
BY DEF Requesting, Channel, Sound, Roles, OneClose, Idle

LEMMA BeginRequestType ==
  ASSUME NEW u \in WorkOK, NEW p \in Pid, Sound(u.ch), Idle(u.ch), u.ch.scheduled = NoRequest
  PROVE  /\ BeginRequest(u, p) \in WorkOK /\ Sound(BeginRequest(u, p).ch)
         /\ ~BeginRequest(u, p).ch.active
<1> DEFINE t == Track(u, p)
           c == Requesting(u.ch, p)
           w == [t EXCEPT !.ch = c]
<1>1. u.ch \in Channel
  BY DEF WorkOK
<1>2. t \in WorkOK /\ t.ch = u.ch
  BY TrackType
<1>3. c \in Channel /\ Sound(c) /\ ~c.active
  <2>1. c \in Channel /\ Sound(c)
    BY <1>1, RequestingType, RequestingSound
  <2>2. ~c.active
    BY <1>1 DEF Requesting, Channel, Idle
  <2>3. QED
    BY <2>1, <2>2
<1>4. BeginRequest(u, p) =
        Post([t EXCEPT !.ch.ready = TRUE, !.ch.pending = p,
                       !.ch.timer = [type |-> "REQUEST", pid |-> p],
                       !.ch.attempt = Begun(p)], "REQUEST", p)
  BY DEF BeginRequest
<1> HIDE DEF t
<1>5. [t EXCEPT !.ch.ready = TRUE, !.ch.pending = p,
                !.ch.timer = [type |-> "REQUEST", pid |-> p],
                !.ch.attempt = Begun(p)] = w
  BY <1>2 DEF Requesting
<1> HIDE DEF c
<1>6. w \in WorkOK /\ w.ch = c
  BY <1>2, <1>3, ChannelWrite
<1> HIDE DEF w
<1>7. Post(w, "REQUEST", p) \in WorkOK /\ Post(w, "REQUEST", p).ch = w.ch
  BY <1>6, PostType DEF ProcessFrame
<1>8. QED
  BY <1>3, <1>4, <1>5, <1>6, <1>7

LEMMA ConnectRequestKeeps ==
  ASSUME IInv, NEW s \in Side, ConnectRequest(s)
  PROVE  IInv'
<1> DEFINE w == BeginRequest(Work(s), nextPid)
<1>1. /\ Up(s) /\ Idle(chan[s]) /\ chan[s].scheduled = NoRequest /\ Mint
      /\ nextPid \in Pid /\ Commit(s, w, net[s]) /\ UNCHANGED <<sent, got>>
  BY DEF ConnectRequest, Mint
<1>2. Work(s) \in WorkOK /\ Work(s).ch = chan[s] /\ Sound(chan[s])
  BY <1>1, WorkSound
<1>3. w \in WorkOK /\ Sound(w.ch)
  BY <1>1, <1>2, BeginRequestType
<1> HIDE DEF w
<1>4. QED
  BY <1>1, <1>3, MintCommitKeeps

LEMMA ReadyType ==
  ASSUME NEW c \in Channel, Sound(c), NEW r \in Request, Idle(c), c.scheduled = r
  PROVE  Answering([c EXCEPT !.ready = TRUE], r) \in Channel
         /\ Sound(Answering([c EXCEPT !.ready = TRUE], r))
<1>1. [c EXCEPT !.ready = TRUE] \in Channel
  BY DEF Channel
<1>2. Answering([c EXCEPT !.ready = TRUE], r) \in Channel
  BY <1>1, AnsweringChannel
<1>3. Sound(Answering([c EXCEPT !.ready = TRUE], r))
  BY DEF Answering, Channel, Sound, Roles, OneClose, Idle
<1>4. QED
  BY <1>2, <1>3

LEMMA ConnectAnswerKeeps ==
  ASSUME IInv, NEW s \in Side, ConnectAnswer(s)
  PROVE  IInv'
<1> DEFINE r == chan[s].scheduled
           c == [chan[s] EXCEPT !.ready = TRUE]
           u == [Work(s) EXCEPT !.ch = c]
           v == [u EXCEPT !.ch = Answering(c, r)]
<1>1. Up(s) /\ Idle(chan[s]) /\ r # NoRequest
  BY DEF ConnectAnswer
<1>2. /\ Work(s) \in WorkOK /\ Work(s).ch = chan[s] /\ Sound(chan[s])
      /\ chan[s] \in Channel
  BY <1>1, WorkSound
<1>3. r \in Request
  BY <1>1, <1>2 DEF Channel
<1>4. Answering(c, r) \in Channel /\ Sound(Answering(c, r))
  BY <1>1, <1>2, <1>3, ReadyType
<1>5. c \in Channel
  BY <1>2 DEF Channel
<1>6. Commit(s, BeginResponse([Work(s) EXCEPT !.ch.ready = TRUE], r), net[s])
  BY DEF ConnectAnswer
<1>7. [Work(s) EXCEPT !.ch.ready = TRUE] = u
  BY <1>2
<1> HIDE DEF c, r
<1>8. u \in WorkOK /\ u.ch = c
  BY <1>2, <1>5, ChannelWrite
<1> HIDE DEF u
<1>9. v \in WorkOK /\ v.ch = Answering(c, r)
  BY <1>4, <1>8, ChannelWrite
<1>10. BeginResponse(u, r) = Post(v, "ACCEPT", r.pid)
  BY <1>8 DEF BeginResponse, Answering
<1> HIDE DEF v
<1>11. /\ Post(v, "ACCEPT", r.pid) \in WorkOK
       /\ Sound(Post(v, "ACCEPT", r.pid).ch)
  BY <1>3, <1>4, <1>9, PostType DEF ProcessFrame, Request
<1>12. UNCHANGED <<sent, got, nextPid>>
  BY DEF ConnectAnswer
<1>13. QED
  BY <1>1, <1>6, <1>7, <1>10, <1>11, <1>12, QuietCommitKeeps

LEMMA DisconnectKeeps ==
  ASSUME IInv, NEW s \in Side, Disconnect(s)
  PROVE  IInv'
<1>1. /\ chan[s].active /\ chan[s].closing = null /\ Mint /\ nextPid \in Pid
      /\ Commit(s, ProposeClose(Work(s), nextPid), net[s])
      /\ UNCHANGED <<sent, got>>
  BY DEF Disconnect, Mint
<1>2. Up(s)
  BY <1>1 DEF IInv, NoPageNoChannel, NewChannel
<1>3. /\ Work(s) \in WorkOK /\ Work(s).ch = chan[s] /\ Sound(Work(s).ch)
  BY <1>2, WorkSound
<1>4. /\ ProposeClose(Work(s), nextPid) \in WorkOK
      /\ Sound(ProposeClose(Work(s), nextPid).ch)
  BY <1>1, <1>3, ProposeCloseType
<1>5. QED
  BY <1>1, <1>2, <1>4, MintCommitKeeps

\* A session that ends on one side alone: disconnect(false), a close timeout.
LEMMA SilentCloseKeeps ==
  ASSUME IInv, NEW s \in Side, DisconnectSilently(s) \/ CloseTimeout(s)
  PROVE  IInv'
<1>1. /\ chan[s].active \/ chan[s].closing # null
      /\ Commit(s, FinalizeClose(Work(s)), net[s])
      /\ UNCHANGED <<sent, got, nextPid>>
  BY DEF DisconnectSilently, CloseTimeout
<1>2. Up(s)
  BY <1>1 DEF IInv, NoPageNoChannel, NewChannel
<1>3. /\ Work(s) \in WorkOK /\ Sound(Work(s).ch)
  BY <1>2, WorkSound
<1>4. /\ FinalizeClose(Work(s)) \in WorkOK
      /\ Sound(FinalizeClose(Work(s)).ch)
  BY <1>3, FinalizeCloseType DEF Sound
<1>5. QED
  BY <1>1, <1>2, <1>4, QuietCommitKeeps

LEMMA CancelKeeps ==
  ASSUME IInv, NEW s \in Side, Cancel(s)
  PROVE  IInv'
<1> DEFINE inProgress == ~Idle(chan[s]) \/ chan[s].scheduled # NoRequest
           w == IF inProgress THEN AbortAttempt(Work(s)) ELSE Work(s)
           t == Track(w, nextPid)
<1>1. /\ chan[s].registered /\ UNCHANGED <<sent, got>>
      /\ \/ Mint /\ Commit(s, Post(t, "CANCEL", nextPid), net[s])
         \/ Commit(s, w, net[s]) /\ UNCHANGED nextPid
  BY DEF Cancel
<1>2. Up(s)
  BY <1>1 DEF IInv, NoPageNoChannel, NewChannel
<1>3. /\ Work(s) \in WorkOK /\ Sound(Work(s).ch)
  BY <1>2, WorkSound
<1>4. /\ AbortAttempt(Work(s)) \in WorkOK
      /\ Sound(AbortAttempt(Work(s)).ch)
  BY <1>3, AbortAttemptType
<1> HIDE DEF inProgress
<1>5. w \in WorkOK /\ Sound(w.ch)
  BY <1>3, <1>4
<1> HIDE DEF w
<1>6. CASE Mint /\ Commit(s, Post(t, "CANCEL", nextPid), net[s])
  <2>1. nextPid \in Pid
    BY <1>6 DEF Mint
  <2>2. t \in WorkOK /\ Sound(t.ch)
    BY <1>5, <2>1, TrackType
  <2> HIDE DEF t
  <2>3. /\ Post(t, "CANCEL", nextPid) \in WorkOK
        /\ Sound(Post(t, "CANCEL", nextPid).ch)
    BY <2>1, <2>2, PostType DEF ProcessFrame
  <2>4. QED
    BY <1>1, <1>2, <1>6, <2>3, MintCommitKeeps
<1>7. CASE Commit(s, w, net[s]) /\ UNCHANGED nextPid
  BY <1>1, <1>2, <1>5, <1>7, QuietCommitKeeps
<1>8. QED
  BY <1>1, <1>6, <1>7

LEMMA DestroyCallKeeps ==
  ASSUME IInv, NEW s \in Side, DestroyCall(s)
  PROVE  IInv'
<1>1. PICK notify \in Notify : Commit(s, Destroy(Work(s), notify), net[s])
  BY DEF DestroyCall
<1>2. notify \in BOOLEAN
  BY <1>1 DEF Notify
<1>3. chan[s].registered /\ UNCHANGED <<sent, got, nextPid>>
  BY DEF DestroyCall
<1>4. Up(s)
  BY <1>3 DEF IInv, NoPageNoChannel, NewChannel
<1>5. Work(s) \in WorkOK
  BY <1>4, WorkSound
<1>6. /\ Destroy(Work(s), notify) \in WorkOK
      /\ Sound(Destroy(Work(s), notify).ch)
  BY <1>2, <1>5, DestroyType
<1>7. QED
  BY <1>1, <1>3, <1>4, <1>6, QuietCommitKeeps

LEMMA SendKeeps ==
  ASSUME IInv, NEW s \in Side, Send(s)
  PROVE  IInv'
<1> DEFINE n == sent[s] + 1
           p == PostMessages(Work(s), <<n>>)
           c == [chan[s] EXCEPT !.queue = Append(@, n)]
           q == [Work(s) EXCEPT !.ch = c]
<1>1. /\ chan[s].registered
      /\ sent' = [sent EXCEPT ![s] = n]
      /\ UNCHANGED <<got, nextPid>>
  BY DEF Send
<1>2. Up(s)
  BY <1>1 DEF IInv, NoPageNoChannel, NewChannel
<1>3. /\ Work(s) \in WorkOK /\ Work(s).ch = chan[s] /\ Sound(Work(s).ch)
      /\ chan[s] \in Channel /\ net[s] \in Seq(Frame)
  BY <1>2, WorkSound
<1>4. n \in Nat /\ sent' \in [Side -> Nat] /\ sent'[s] = n
  BY <1>1 DEF IInv, TypeOK
<1>5. /\ got' \in [Side -> Seq([from : Id, msg : Nat])]
      /\ nextPid' \in 1 .. (MaxPid + 1)
  BY <1>1 DEF IInv, TypeOK
<1>6. Commit(s, p, net[s]) \/ Commit(s, [Work(s) EXCEPT !.ch.queue = Append(@, n)], net[s])
  BY <1>4 DEF Send
<1>7. [Work(s) EXCEPT !.ch.queue = Append(@, n)] = q
  BY <1>3
<1> HIDE DEF n
<1>8. p \in WorkOK /\ Sound(p.ch)
  <2>1. <<n>> \in Seq(Nat)
    BY <1>4
  <2>2. QED
    BY <1>3, <2>1, PostMessagesType
<1>9. q \in WorkOK /\ Sound(q.ch)
  <2>1. Append(chan[s].queue, n) \in Seq(Nat)
    BY <1>3, <1>4 DEF Channel
  <2>2. c \in Channel /\ SameRoles(chan[s], c)
    BY <1>3, <2>1, QueueWrite
  <2>3. Sound(c)
    BY <1>3, <2>2, SoundIsAboutRoles
  <2>4. QED
    BY <1>3, <2>2, <2>3, ChannelWrite
<1> HIDE DEF p, q
<1>10. QED
  BY <1>2, <1>3, <1>4, <1>5, <1>6, <1>7, <1>8, <1>9, CommitKeeps

LEMMA RetryKeeps ==
  ASSUME IInv, NEW s \in Side, Retry(s)
  PROVE  IInv'
<1> DEFINE t == chan[s].timer
<1>1. /\ t # NoTimer
      /\ Commit(s, Post(Work(s), t.type, t.pid), net[s])
      /\ UNCHANGED <<sent, got, nextPid>>
  BY DEF Retry
<1>2. Up(s)
  BY <1>1 DEF IInv, NoPageNoChannel, NewChannel
<1>3. /\ Work(s) \in WorkOK /\ Sound(Work(s).ch) /\ chan[s] \in Channel
  BY <1>2, WorkSound
<1>4. t.type \in ProcessFrame /\ t.pid \in Pid
  BY <1>1, <1>3 DEF Channel, Timer, ProcessFrame
<1> HIDE DEF t
<1>5. /\ Post(Work(s), t.type, t.pid) \in WorkOK
      /\ Sound(Post(Work(s), t.type, t.pid).ch)
  BY <1>3, <1>4, PostType
<1>6. QED
  BY <1>1, <1>2, <1>5, QuietCommitKeeps

LEMMA ExpireKeeps ==
  ASSUME IInv, NEW s \in Side, Expire(s)
  PROVE  IInv'
<1> DEFINE t == Untrack(ClearTimers(Work(s)), chan[s].timer.pid)
           c == [t.ch EXCEPT !.pending = null, !.awaiting = NoRequest]
           u == [t EXCEPT !.ch = c]
<1>1. /\ chan[s].timer # NoTimer
      /\ Commit(s, EndAttempt([t EXCEPT !.ch.pending = null, !.ch.awaiting = NoRequest],
                              "connect-timeout"), net[s])
      /\ UNCHANGED <<sent, got, nextPid>>
  BY DEF Expire
<1>2. Up(s)
  BY <1>1 DEF IInv, NoPageNoChannel, NewChannel
<1>3. /\ Work(s) \in WorkOK /\ Work(s).ch = chan[s] /\ Sound(Work(s).ch) /\ chan[s] \in Channel
  BY <1>2, WorkSound
<1>4. t \in WorkOK /\ t.ch = [chan[s] EXCEPT !.timer = NoTimer]
  BY <1>3, StopType
<1>5. /\ Given(chan[s], chan[s].scheduled) \in Channel
      /\ Sound(Given(chan[s], chan[s].scheduled))
  BY <1>3, GivenType
<1> HIDE DEF t
<1>6. c = Given(chan[s], chan[s].scheduled)
  BY <1>3, <1>4 DEF Given, Channel
<1>7. [t EXCEPT !.ch.pending = null, !.ch.awaiting = NoRequest] = u
  OBVIOUS
<1> HIDE DEF c
<1>8. u \in WorkOK /\ u.ch = c
  BY <1>4, <1>5, <1>6, ChannelWrite
<1> HIDE DEF u
<1>9. /\ EndAttempt(u, "connect-timeout") \in WorkOK
      /\ SameRoles(u.ch, EndAttempt(u, "connect-timeout").ch)
  BY <1>8, EndAttemptType DEF Outcome
<1>10. Sound(EndAttempt(u, "connect-timeout").ch)
  BY <1>5, <1>6, <1>8, <1>9, SoundIsAboutRoles
<1>11. QED
  BY <1>1, <1>2, <1>7, <1>9, <1>10, QuietCommitKeeps

-----------------------------------------------------------------------------
(* The routing handlers.                                                   *)

\* The work a handler starts from, and the frame it consumes.
LEMMA HandlerStarts ==
  ASSUME IInv, NEW s \in Side, NEW type \in ProcessFrame, Arriving(s, type)
  PROVE  /\ Up(s)
         /\ Tail(net[s]) \in Seq(Frame)
         /\ Head(net[s]).pid \in Pid
         /\ Head(net[s]).from \in Id
         /\ Work(s) \in WorkOK
         /\ Work(s).ch = chan[s]
         /\ Sound(Work(s).ch)
         /\ chan[s] \in Channel
BY Arrives, WorkSound

LEMMA RegisteredType ==
  ASSUME NEW c \in Channel, Sound(c)
  PROVE  [c EXCEPT !.registered = TRUE] \in Channel /\ Sound([c EXCEPT !.registered = TRUE])
<1> DEFINE d == [c EXCEPT !.registered = TRUE]
<1>1. d \in Channel
  BY DEF Channel
<1>2. SameRoles(c, d)
  BY DEF Channel, SameRoles
<1> HIDE DEF d
<1>3. Sound(d)
  BY <1>2, SoundIsAboutRoles
<1>4. QED
  BY <1>1, <1>3 DEF d

\* A request scheduled on a channel nobody connected.
LEMMA ScheduledType ==
  ASSUME NEW c \in Channel, NEW r \in Request, Sound(c), ~c.ready
  PROVE  [c EXCEPT !.scheduled = r] \in Channel /\ Sound([c EXCEPT !.scheduled = r])
<1>1. [c EXCEPT !.scheduled = r] \in Channel
  BY DEF Channel
<1>2. Sound([c EXCEPT !.scheduled = r])
  BY DEF Channel, Sound, Roles, OneClose, Idle
<1>3. QED
  BY <1>1, <1>2

\* What a handler of a REQUEST commits is sound, if the page it starts from is
\* and has no session.
LEMMA RequestConsideredType ==
  ASSUME NEW s \in Side, NEW f, f.pid \in Pid, f.from \in Id,
         NEW w \in WorkOK, Sound(w.ch), ~w.ch.active,
         RequestConsidered(s, f, w)
  PROVE  \E d \in WorkOK : Sound(d.ch) /\ Commit(s, d, Tail(net[s]))
<1> DEFINE v == IF w.ch.pending # null THEN AbandonRequest(w) ELSE w
           r == [from |-> f.from, pid |-> f.pid]
           t == Track(v, f.pid)
           x == IF w.ch.scheduled.pid = f.pid THEN t ELSE Untrack(t, w.ch.scheduled.pid)
           y == [x EXCEPT !.ch = [x.ch EXCEPT !.scheduled = r]]
<1>1. r \in Request
  BY DEF Request
<1>2. \/ Commit(s, w, Tail(net[s]))
      \/ Commit(s, DenyOnce(Post(v, "DENY", f.pid), f.pid), Tail(net[s]))
      \/ v.ch.ready /\ Commit(s, BeginResponse(t, r), Tail(net[s]))
      \/ ~v.ch.ready /\ Commit(s, [x EXCEPT !.ch.scheduled = r], Tail(net[s]))
  BY DEF RequestConsidered, MayAnswer
<1>3. [x EXCEPT !.ch.scheduled = r] = y
  OBVIOUS
<1>4. v \in WorkOK /\ Sound(v.ch) /\ ~v.ch.active /\ v.ch.pending = null
  <2>1. w.ch \in Channel
    BY DEF WorkOK
  <2>2. CASE w.ch.pending # null
    BY <2>1, <2>2, AbandonRequestType, AbandonedType
  <2>3. CASE w.ch.pending = null
    BY <2>3
  <2>4. QED
    BY <2>2, <2>3
<1> HIDE DEF v
<1>5. t \in WorkOK /\ t.ch = v.ch
  BY <1>4, TrackType
<1> HIDE DEF t
<1>6. x \in WorkOK /\ x.ch = v.ch
  BY <1>5, UntrackType
<1> HIDE DEF x, r
<1>7. CASE Commit(s, w, Tail(net[s]))
  BY <1>7
<1>8. CASE Commit(s, DenyOnce(Post(v, "DENY", f.pid), f.pid), Tail(net[s]))
  <2> DEFINE d == Post(v, "DENY", f.pid)
  <2>1. d \in WorkOK /\ Sound(d.ch)
    BY <1>4, PostType DEF ProcessFrame
  <2> HIDE DEF d
  <2>2. DenyOnce(d, f.pid) \in WorkOK /\ Sound(DenyOnce(d, f.pid).ch)
    BY <2>1, DenyOnceType, SoundIsAboutRoles
  <2>3. QED
    BY <1>8, <2>2 DEF d
<1>9. CASE v.ch.ready /\ Commit(s, BeginResponse(t, r), Tail(net[s]))
  <2>1. BeginResponse(t, r) \in WorkOK /\ Sound(BeginResponse(t, r).ch)
    BY <1>1, <1>4, <1>5, <1>9, BeginResponseType
  <2>2. QED
    BY <1>9, <2>1
<1>10. CASE ~v.ch.ready /\ Commit(s, [x EXCEPT !.ch.scheduled = r], Tail(net[s]))
  <2>1. x.ch \in Channel
    BY <1>6 DEF WorkOK
  <2>2. /\ [x.ch EXCEPT !.scheduled = r] \in Channel
        /\ Sound([x.ch EXCEPT !.scheduled = r])
    BY <1>1, <1>4, <1>6, <1>10, <2>1, ScheduledType
  <2>3. y \in WorkOK /\ Sound(y.ch)
    BY <1>6, <2>2, ChannelWrite
  <2> HIDE DEF y
  <2>4. QED
    BY <1>3, <1>10, <2>3
<1>11. QED
  BY <1>2, <1>7, <1>8, <1>9, <1>10

\* A session that ends leaves a connected channel idle.
LEMMA ClosedIsIdle ==
  ASSUME NEW w \in WorkOK, Sound(w.ch), w.ch.active
  PROVE  Idle(FinalizeClose(w).ch) /\ FinalizeClose(w).ch.scheduled = NoRequest
<1> DEFINE u == Untrack(ClearTimers(w), w.ch.closing)
<1>1. u.ch = [w.ch EXCEPT !.timer = NoTimer] /\ w.ch \in Channel /\ u \in WorkOK
  BY StopType DEF WorkOK
<1>2. w.ch.scheduled = NoRequest
  BY DEF Sound, Roles, Idle
<1>3. FinalizeClose(w).ch = [u.ch EXCEPT !.active = FALSE, !.pending = null,
                               !.awaiting = NoRequest, !.closing = null, !.opens = @ - 1]
  <2>1. FinalizeClose(w) = [u EXCEPT !.ch.active = FALSE, !.ch.pending = null,
                               !.ch.awaiting = NoRequest, !.ch.closing = null,
                               !.ch.opens = @ - 1]
    BY DEF FinalizeClose
  <2> HIDE DEF u
  <2>2. QED
    BY <1>1, <2>1 DEF WorkOK
<1> HIDE DEF u
<1>4. QED
  BY <1>1, <1>2, <1>3 DEF Channel, Idle

LEMMA HandleRequestKeeps ==
  ASSUME IInv, NEW s \in Side, HandleRequest(s)
  PROVE  IInv'
<1> DEFINE f == Head(net[s])
           c == [chan[s] EXCEPT !.registered = TRUE]
           u == [Work(s) EXCEPT !.ch = c]
           w == FinalizeClose(u)
           b == BeginRequest(w, nextPid)
<1>1. Arriving(s, "REQUEST")
  BY DEF HandleRequest
<1>2. /\ Up(s) /\ Tail(net[s]) \in Seq(Frame) /\ f.pid \in Pid /\ f.from \in Id
      /\ Work(s) \in WorkOK /\ Sound(Work(s).ch)
      /\ Work(s).ch = chan[s] /\ chan[s] \in Channel
  BY <1>1, HandlerStarts DEF ProcessFrame
<1>3. [Work(s) EXCEPT !.ch.registered = TRUE] = u
  BY <1>2
<1>4. \/ Handle(s, Work(s)) \/ RequestReplayed(s, f)
      \/ RequestConsidered(s, f, w) /\ UNCHANGED <<sent, got, nextPid>>
      \/ /\ chan[s].active /\ Mint
         /\ RequestConsidered(s, f, b) /\ UNCHANGED <<sent, got>>
  BY <1>3 DEF HandleRequest
<1>5. c \in Channel /\ Sound(c) /\ c.active = chan[s].active
  BY <1>2, RegisteredType DEF Channel
<1> HIDE DEF c
<1>6. u \in WorkOK /\ u.ch = c /\ Sound(u.ch)
  BY <1>2, <1>5, ChannelWrite
<1> HIDE DEF u
<1>7. w \in WorkOK /\ Sound(w.ch) /\ ~w.ch.active
  BY <1>6, FinalizeCloseType DEF Sound
<1>8. chan[s].active => Idle(w.ch) /\ w.ch.scheduled = NoRequest
  BY <1>5, <1>6, ClosedIsIdle
<1> HIDE DEF w, f
<1>9. CASE Handle(s, Work(s))
  BY <1>2, <1>9, HandleKeeps DEF f
<1>10. CASE RequestReplayed(s, f)
  <2>1. Handle(s, Post(Work(s), "ACCEPT", f.pid))
    BY <1>10 DEF RequestReplayed
  <2>2. /\ Post(Work(s), "ACCEPT", f.pid) \in WorkOK
        /\ Sound(Post(Work(s), "ACCEPT", f.pid).ch)
    BY <1>2, PostType DEF ProcessFrame
  <2>3. QED
    BY <1>2, <2>1, <2>2, HandleKeeps
<1>11. sent \in [Side -> Nat] /\ got \in [Side -> Seq([from : Id, msg : Nat])]
       /\ nextPid \in 1 .. (MaxPid + 1)
  BY DEF IInv, TypeOK
<1>12. CASE RequestConsidered(s, f, w) /\ UNCHANGED <<sent, got, nextPid>>
  <2>1. PICK d \in WorkOK : Sound(d.ch) /\ Commit(s, d, Tail(net[s]))
    BY <1>2, <1>7, <1>12, RequestConsideredType
  <2>2. QED
    BY <1>2, <1>11, <1>12, <2>1, CommitKeeps
<1>13. CASE /\ chan[s].active /\ Mint
            /\ RequestConsidered(s, f, b) /\ UNCHANGED <<sent, got>>
  <2>1. nextPid \in Pid /\ nextPid' \in 1 .. (MaxPid + 1)
    BY <1>13, BoundsAssumption DEF Mint, Pid
  <2>2. b \in WorkOK /\ Sound(b.ch) /\ ~b.ch.active
    BY <1>7, <1>8, <1>13, <2>1, BeginRequestType
  <2> HIDE DEF b
  <2>3. PICK d \in WorkOK : Sound(d.ch) /\ Commit(s, d, Tail(net[s]))
    BY <1>2, <1>13, <2>2, RequestConsideredType
  <2>4. QED
    BY <1>2, <1>11, <1>13, <2>1, <2>3, CommitKeeps
<1>14. QED
  BY <1>4, <1>9, <1>10, <1>12, <1>13

LEMMA HandleAcceptKeeps ==
  ASSUME IInv, NEW s \in Side, HandleAccept(s)
  PROVE  IInv'
<1> DEFINE f == Head(net[s])
           o == Post(Activate(Work(s), f.from), "OPEN", f.pid)
           w == Untrack(Flush(o), f.pid)
           a == Post(AbandonRequest(Work(s)), "CANCEL", f.pid)
           expected == ~chan[s].active /\ chan[s].pending = f.pid
<1>1. Arriving(s, "ACCEPT")
  BY DEF HandleAccept, Expects
<1>2. /\ Up(s) /\ Tail(net[s]) \in Seq(Frame) /\ f.pid \in Pid /\ f.from \in Id
      /\ Work(s) \in WorkOK /\ Work(s).ch = chan[s] /\ Sound(Work(s).ch)
      /\ chan[s] \in Channel
  BY <1>1, HandlerStarts DEF ProcessFrame
<1>3. \/ Handle(s, Post(Work(s), "OPEN", f.pid))
      \/ expected /\ Handle(s, w)
      \/ expected /\ Handle(s, DenyOnce(a, f.pid))
      \/ Handle(s, Work(s))
  BY DEF HandleAccept, Expects
<1> HIDE DEF f
<1>4. CASE Handle(s, Post(Work(s), "OPEN", f.pid))
  <2>1. /\ Post(Work(s), "OPEN", f.pid) \in WorkOK
        /\ Sound(Post(Work(s), "OPEN", f.pid).ch)
    BY <1>2, PostType DEF ProcessFrame
  <2>2. QED
    BY <1>2, <1>4, <2>1, HandleKeeps
<1>5. CASE expected /\ Handle(s, w)
  <2>1. chan[s].ready /\ ~chan[s].active
    BY <1>2, <1>5, NullIsNone DEF Sound, Roles, Idle
  <2>2. Activate(Work(s), f.from) \in WorkOK /\ Sound(Activate(Work(s), f.from).ch)
    BY <1>2, <2>1, ActivateType
  <2>3. o \in WorkOK /\ Sound(o.ch)
    BY <1>2, <2>2, PostType DEF ProcessFrame
  <2> HIDE DEF o
  <2>4. Flush(o) \in WorkOK /\ Sound(Flush(o).ch)
    BY <2>3, FlushType
  <2>5. w \in WorkOK /\ Sound(w.ch)
    BY <2>4, UntrackType
  <2> HIDE DEF w
  <2>6. QED
    BY <1>2, <1>5, <2>5, HandleKeeps
<1>6. CASE expected /\ Handle(s, DenyOnce(a, f.pid))
  <2>1. AbandonRequest(Work(s)) \in WorkOK /\ Sound(AbandonRequest(Work(s)).ch)
    BY <1>2, AbandonRequestType, AbandonedType
  <2>2. a \in WorkOK /\ Sound(a.ch)
    BY <1>2, <2>1, PostType DEF ProcessFrame
  <2> HIDE DEF a
  <2>3. DenyOnce(a, f.pid) \in WorkOK /\ Sound(DenyOnce(a, f.pid).ch)
    BY <1>2, <2>2, DenyOnceType, SoundIsAboutRoles
  <2>4. QED
    BY <1>2, <1>6, <2>3, HandleKeeps
<1>7. CASE Handle(s, Work(s))
  BY <1>2, <1>7, HandleKeeps
<1>8. QED
  BY <1>3, <1>4, <1>5, <1>6, <1>7

LEMMA HandleOpenKeeps ==
  ASSUME IInv, NEW s \in Side, HandleOpen(s)
  PROVE  IInv'
<1> DEFINE f == Head(net[s])
           u == Untrack(Work(s), f.pid)
           a == Activate(u, chan[s].awaiting.from)
<1>1. Arriving(s, "OPEN")
  BY DEF HandleOpen
<1>2. /\ Up(s) /\ Tail(net[s]) \in Seq(Frame) /\ f.pid \in Pid
      /\ Work(s) \in WorkOK /\ Work(s).ch = chan[s] /\ Sound(Work(s).ch)
      /\ chan[s] \in Channel
  BY <1>1, HandlerStarts DEF ProcessFrame
<1>3. \/ Handle(s, Work(s))
      \/ chan[s].awaiting.pid = f.pid /\ Handle(s, Flush(a))
      \/ Handle(s, u)
  BY DEF HandleOpen
<1> HIDE DEF f
<1>4. u \in WorkOK /\ u.ch = chan[s] /\ Sound(u.ch)
  BY <1>2, UntrackType
<1> HIDE DEF u
<1>5. CASE Handle(s, Work(s))
  BY <1>2, <1>5, HandleKeeps
<1>6. CASE chan[s].awaiting.pid = f.pid /\ Handle(s, Flush(a))
  <2>1. chan[s].awaiting # NoRequest
    BY <1>2, <1>6, NullIsNone DEF NoRequest
  <2>2. chan[s].awaiting.from \in Id
    BY <1>2, <2>1 DEF Channel, Request
  <2>3. chan[s].ready /\ ~chan[s].active
    BY <1>2, <2>1 DEF Sound, Roles, Idle
  <2>4. a \in WorkOK /\ Sound(a.ch)
    BY <1>4, <2>2, <2>3, ActivateType
  <2> HIDE DEF a
  <2>5. Flush(a) \in WorkOK /\ Sound(Flush(a).ch)
    BY <2>4, FlushType
  <2>6. QED
    BY <1>2, <1>6, <2>5, HandleKeeps
<1>7. CASE Handle(s, u)
  BY <1>2, <1>4, <1>7, HandleKeeps
<1>8. QED
  BY <1>3, <1>5, <1>6, <1>7

LEMMA HandleDenyKeeps ==
  ASSUME IInv, NEW s \in Side, HandleDeny(s)
  PROVE  IInv'
<1> DEFINE f == Head(net[s])
           u == Untrack(AbandonRequest(Work(s)), f.pid)
<1>1. Arriving(s, "DENY")
  BY DEF HandleDeny
<1>2. /\ Up(s) /\ Tail(net[s]) \in Seq(Frame)
      /\ Work(s) \in WorkOK /\ Work(s).ch = chan[s] /\ Sound(Work(s).ch)
      /\ chan[s] \in Channel
  BY <1>1, HandlerStarts DEF ProcessFrame
<1>3. Handle(s, EndAttempt(u, "deny")) \/ Handle(s, Untrack(Work(s), f.pid))
  BY DEF HandleDeny
<1>4. AbandonRequest(Work(s)) \in WorkOK /\ Sound(AbandonRequest(Work(s)).ch)
  BY <1>2, AbandonRequestType, AbandonedType
<1>5. u \in WorkOK /\ Sound(u.ch)
  BY <1>4, UntrackType
<1> HIDE DEF u
<1>6. EndAttempt(u, "deny") \in WorkOK /\ Sound(EndAttempt(u, "deny").ch)
  BY <1>5, EndAttemptType, SoundIsAboutRoles DEF Outcome
<1>7. Untrack(Work(s), f.pid) \in WorkOK /\ Sound(Untrack(Work(s), f.pid).ch)
  BY <1>2, UntrackType
<1>8. QED
  BY <1>2, <1>3, <1>6, <1>7, HandleKeeps

\* An orphan answers a CANCEL with its own pin; the channel stays as it was.
LEMMA OrphanAnswers ==
  ASSUME NEW w \in WorkOK, NEW o \in Orphan, NEW p \in Pid
  PROVE  LET v == Post([w EXCEPT !.ch.origin = o.origin], "CANCEL_ACK", p)
         IN  /\ Untrack([v EXCEPT !.ch = w.ch], p) \in WorkOK
             /\ Untrack([v EXCEPT !.ch = w.ch], p).ch = w.ch
<1> DEFINE c == [w.ch EXCEPT !.origin = o.origin]
           u == [w EXCEPT !.ch = c]
           v == Post(u, "CANCEL_ACK", p)
           x == [v EXCEPT !.ch = w.ch]
<1>1. [w EXCEPT !.ch.origin = o.origin] = u
  OBVIOUS
<1>2. w.ch \in Channel /\ o.origin \in Origin \cup {null}
  BY DEF WorkOK, Orphan
<1>3. c \in Channel
  BY <1>2 DEF Channel
<1> HIDE DEF c
<1>4. u \in WorkOK
  BY <1>3, ChannelWrite
<1> HIDE DEF u
<1>5. v \in WorkOK
  BY <1>4, PostType DEF ProcessFrame
<1> HIDE DEF v
<1>6. x \in WorkOK /\ x.ch = w.ch
  BY <1>2, <1>5, ChannelWrite
<1> HIDE DEF x
<1>7. Untrack(x, p) \in WorkOK /\ Untrack(x, p).ch = w.ch
  BY <1>6, UntrackType
<1>8. QED
  BY <1>1, <1>7 DEF x, v

LEMMA HandleCancelKeeps ==
  ASSUME IInv, NEW s \in Side, HandleCancel(s)
  PROVE  IInv'
<1> DEFINE f == Head(net[s])
           c == chan[s]
           e == IF c.active THEN FinalizeClose(Work(s)) ELSE AbortAttempt(Work(s))
           w == Untrack(Post(e, "CANCEL_ACK", f.pid), f.pid)
           x(o) == Untrack([Post([Work(s) EXCEPT !.ch.origin = o.origin], "CANCEL_ACK", f.pid)
                              EXCEPT !.ch = c], f.pid)
<1>1. Arriving(s, "CANCEL")
  BY DEF HandleCancel
<1>2. /\ Up(s) /\ Tail(net[s]) \in Seq(Frame) /\ f.pid \in Pid
      /\ Work(s) \in WorkOK /\ Work(s).ch = chan[s] /\ Sound(Work(s).ch)
      /\ chan[s] \in Channel
  BY <1>1, HandlerStarts DEF ProcessFrame
<1>3. \/ Handle(s, w)
      \/ \E o \in OrphanOf(s, f) : Handle(s, x(o))
      \/ Handle(s, Work(s))
  BY DEF HandleCancel
<1> HIDE DEF f
<1>4. CASE Handle(s, w)
  <2>1. e \in WorkOK /\ Sound(e.ch)
    BY <1>2, FinalizeCloseType, AbortAttemptType DEF Sound
  <2> HIDE DEF e
  <2>2. /\ Post(e, "CANCEL_ACK", f.pid) \in WorkOK
        /\ Sound(Post(e, "CANCEL_ACK", f.pid).ch)
    BY <1>2, <2>1, PostType DEF ProcessFrame
  <2>3. w \in WorkOK /\ Sound(w.ch)
    BY <2>2, UntrackType
  <2> HIDE DEF w
  <2>4. QED
    BY <1>2, <1>4, <2>3, HandleKeeps
<1>5. CASE \E o \in OrphanOf(s, f) : Handle(s, x(o))
  <2>1. PICK o \in OrphanOf(s, f) : Handle(s, x(o))
    BY <1>5
  <2>2. o \in Orphan
    BY DEF OrphanOf, IInv, TypeOK
  <2>3. x(o) \in WorkOK /\ x(o).ch = chan[s]
    BY <1>2, <2>2, OrphanAnswers
  <2> HIDE DEF x
  <2>4. QED
    BY <1>2, <2>1, <2>3, HandleKeeps
<1>6. CASE Handle(s, Work(s))
  BY <1>2, <1>6, HandleKeeps
<1>7. QED
  BY <1>3, <1>4, <1>5, <1>6

LEMMA HandleCancelAcknowledgedKeeps ==
  ASSUME IInv, NEW s \in Side, HandleCancelAcknowledged(s)
  PROVE  IInv'
<1> DEFINE u == Untrack(Work(s), Head(net[s]).pid)
<1>1. Arriving(s, "CANCEL_ACK") /\ Handle(s, u)
  BY DEF HandleCancelAcknowledged
<1>2. /\ Up(s) /\ Tail(net[s]) \in Seq(Frame)
      /\ Work(s) \in WorkOK /\ Sound(Work(s).ch)
  BY <1>1, HandlerStarts DEF ProcessFrame
<1>3. u \in WorkOK /\ Sound(u.ch)
  BY <1>2, UntrackType
<1> HIDE DEF u
<1>4. QED
  BY <1>1, <1>2, <1>3, HandleKeeps

\* The subscribers of an open session hear that it is closing, once.
LEMMA ToldType ==
  ASSUME NEW c \in Channel, Sound(c), c.active, c.closing = null
  PROVE  /\ [c EXCEPT !.closings = @ + 1] \in Channel
         /\ Roles([c EXCEPT !.closings = @ + 1])
         /\ OneClose([c EXCEPT !.closings = @ + 1])
<1> DEFINE n == c.closings + 1
<1>1. n \in Nat /\ n <= 1
  BY DEF Channel, Sound
<1> HIDE DEF n
<1>2. [c EXCEPT !.closings = n] \in Channel
  BY <1>1 DEF Channel
<1>3. Roles([c EXCEPT !.closings = n])
  BY DEF Channel, Sound, Roles, Idle
<1>4. OneClose([c EXCEPT !.closings = n])
  BY <1>1 DEF Channel, Sound, OneClose
<1>5. QED
  BY <1>2, <1>3, <1>4 DEF n

LEMMA HandleCloseKeeps ==
  ASSUME IInv, NEW s \in Side, HandleClose(s)
  PROVE  IInv'
<1> DEFINE f == Head(net[s])
           c == chan[s]
           heard == c.active
           told == IF c.closing = null THEN [Work(s) EXCEPT !.ch.closings = @ + 1] ELSE Work(s)
           n == sent[s] + 1
           last == PostMessages(told, <<n>>)
           ended(w) == FinalizeClose(Untrack(Post(w, "CLOSE_ACK", f.pid), f.pid))
<1>1. Arriving(s, "CLOSE")
  BY DEF HandleClose
<1>2. /\ Up(s) /\ Tail(net[s]) \in Seq(Frame) /\ f.pid \in Pid
      /\ Work(s) \in WorkOK /\ Work(s).ch = chan[s] /\ Sound(Work(s).ch)
      /\ chan[s] \in Channel
  BY <1>1, HandlerStarts DEF ProcessFrame
<1>3. n \in Nat /\ (sent' = [sent EXCEPT ![s] = n] => sent' \in [Side -> Nat] /\ sent'[s] = n)
  BY DEF IInv, TypeOK
<1>4. \/ heard /\ Handle(s, ended(told))
      \/ /\ heard
         /\ sent' \in [Side -> Nat]
         /\ Commit(s, ended(last), Tail(net[s]))
         /\ UNCHANGED <<got, nextPid>>
      \/ Handle(s, Work(s))
  BY <1>3 DEF HandleClose
<1> HIDE DEF f, n
<1>5. ASSUME heard
      PROVE  told \in WorkOK /\ Roles(told.ch) /\ OneClose(told.ch)
  <2>1. CASE c.closing # null
    BY <1>2, <2>1 DEF Sound
  <2>2. CASE c.closing = null
    <3> DEFINE d == [c EXCEPT !.closings = @ + 1]
    <3>1. d \in Channel /\ Roles(d) /\ OneClose(d)
      BY <1>2, <1>5, <2>2, ToldType
    <3>2. told = [Work(s) EXCEPT !.ch = d]
      BY <1>2, <2>2
    <3> HIDE DEF d, told
    <3>3. [Work(s) EXCEPT !.ch = d] \in WorkOK /\ [Work(s) EXCEPT !.ch = d].ch = d
      BY <1>2, <3>1, ChannelWrite
    <3>4. told \in WorkOK /\ told.ch = d
      BY <3>2, <3>3
    <3>5. QED
      BY <3>1, <3>4
  <2>3. QED
    BY <2>1, <2>2
<1> HIDE DEF told
<1>6. ASSUME NEW w \in WorkOK, Roles(w.ch), OneClose(w.ch)
      PROVE  ended(w) \in WorkOK /\ Sound(ended(w).ch)
  <2>1. /\ Post(w, "CLOSE_ACK", f.pid) \in WorkOK
        /\ Post(w, "CLOSE_ACK", f.pid).ch = w.ch
    BY <1>2, PostType DEF ProcessFrame
  <2>2. /\ Untrack(Post(w, "CLOSE_ACK", f.pid), f.pid) \in WorkOK
        /\ Untrack(Post(w, "CLOSE_ACK", f.pid), f.pid).ch = w.ch
    BY <2>1, UntrackType
  <2>3. QED
    BY <1>6, <2>2, FinalizeCloseType
<1>7. ASSUME heard
      PROVE  last \in WorkOK /\ last.ch = told.ch
  <2>1. <<n>> \in Seq(Nat)
    BY <1>3
  <2>2. QED
    BY <1>5, <1>7, <2>1, PostMessagesType
<1> HIDE DEF last
<1>8. ASSUME heard
      PROVE  /\ ended(told) \in WorkOK /\ Sound(ended(told).ch)
             /\ ended(last) \in WorkOK /\ Sound(ended(last).ch)
  <2>1. told \in WorkOK /\ Roles(told.ch) /\ OneClose(told.ch)
    BY <1>5, <1>8
  <2>2. last \in WorkOK /\ Roles(last.ch) /\ OneClose(last.ch)
    BY <1>7, <1>8, <2>1
  <2> HIDE DEF ended
  <2>3. QED
    BY <1>6, <2>1, <2>2
<1> HIDE DEF ended
<1>9. CASE heard /\ Handle(s, ended(told))
  BY <1>2, <1>8, <1>9, HandleKeeps
<1>10. CASE /\ heard
            /\ sent' \in [Side -> Nat]
            /\ Commit(s, ended(last), Tail(net[s]))
            /\ UNCHANGED <<got, nextPid>>
  <2>1. /\ got' \in [Side -> Seq([from : Id, msg : Nat])]
        /\ nextPid' \in 1 .. (MaxPid + 1)
    BY <1>10 DEF IInv, TypeOK
  <2>2. QED
    BY <1>2, <1>8, <1>10, <2>1, CommitKeeps
<1>11. CASE Handle(s, Work(s))
  BY <1>2, <1>11, HandleKeeps
<1>12. QED
  BY <1>4, <1>9, <1>10, <1>11

LEMMA HandleCloseAcknowledgedKeeps ==
  ASSUME IInv, NEW s \in Side, HandleCloseAcknowledged(s)
  PROVE  IInv'
<1>1. /\ Arriving(s, "CLOSE_ACK")
      /\ Handle(s, FinalizeClose(Work(s))) \/ Handle(s, Work(s))
  BY DEF HandleCloseAcknowledged
<1>2. /\ Up(s) /\ Tail(net[s]) \in Seq(Frame)
      /\ Work(s) \in WorkOK /\ Sound(Work(s).ch)
  BY <1>1, HandlerStarts DEF ProcessFrame
<1>3. FinalizeClose(Work(s)) \in WorkOK /\ Sound(FinalizeClose(Work(s)).ch)
  BY <1>2, FinalizeCloseType DEF Sound
<1>4. QED
  BY <1>1, <1>2, <1>3, HandleKeeps

LEMMA HandleDestroyKeeps ==
  ASSUME IInv, NEW s \in Side, HandleDestroy(s)
  PROVE  IInv'
<1>1. /\ Arriving(s, "DESTROY")
      /\ Handle(s, Destroy(Work(s), FALSE)) \/ Handle(s, Work(s))
  BY DEF HandleDestroy
<1>2. Up(s) /\ Tail(net[s]) \in Seq(Frame)
  BY <1>1, Arrives
<1>3. Work(s) \in WorkOK /\ Sound(Work(s).ch)
  BY <1>2, WorkSound
<1>4. Destroy(Work(s), FALSE) \in WorkOK /\ Sound(Destroy(Work(s), FALSE).ch)
  BY <1>3, DestroyType
<1>5. QED
  BY <1>1, <1>2, <1>3, <1>4, HandleKeeps

LEMMA HandleMessageKeeps ==
  ASSUME IInv, NEW s \in Side, HandleMessage(s)
  PROVE  IInv'
<1> DEFINE f == Head(net[s])
           m == [from |-> f.from, msg |-> f.msg]
<1>1. /\ Arriving(s, "MESSAGE")
      /\ got' = [got EXCEPT ![s] = Append(@, m)] \/ got' = got
      /\ Commit(s, Work(s), Tail(net[s]))
      /\ UNCHANGED <<sent, nextPid>>
  BY DEF HandleMessage
<1>2. Up(s) /\ Tail(net[s]) \in Seq(Frame) /\ f.from \in Id /\ f.msg \in Nat
  BY <1>1, Arrives
<1>3. Work(s) \in WorkOK /\ Sound(Work(s).ch)
  BY <1>2, WorkSound
<1>4. m \in [from : Id, msg : Nat]
  BY <1>2
<1> HIDE DEF m
<1>5. got' \in [Side -> Seq([from : Id, msg : Nat])]
  <2>1. got[s] \in Seq([from : Id, msg : Nat])
    BY DEF IInv, TypeOK
  <2>2. Append(got[s], m) \in Seq([from : Id, msg : Nat])
    BY <1>4, <2>1
  <2>3. QED
    BY <1>1, <2>2 DEF IInv, TypeOK
<1>6. sent' \in [Side -> Nat] /\ nextPid' \in 1 .. (MaxPid + 1)
  BY <1>1 DEF IInv, TypeOK
<1>7. QED
  BY <1>1, <1>2, <1>3, <1>5, <1>6, CommitKeeps

-----------------------------------------------------------------------------
(* The theorems.                                                           *)

LEMMA InitIInv == Init => IInv
<1> SUFFICES ASSUME Init PROVE IInv
  OBVIOUS
<1>1. NewChannel(FALSE) \in Channel /\ Sound(NewChannel(FALSE))
  BY FreshType
<1>2. << >> \in Seq([from : Id, msg : Nat]) /\ << >> \in Seq(Frame)
  OBVIOUS
<1>3. 1 \in 1 .. (MaxPid + 1)
  BY BoundsAssumption
<1>4. TypeOK
  <2>1. got \in [Side -> Seq([from : Id, msg : Nat])] /\ net \in [Side -> Seq(Frame)]
    BY <1>2 DEF Init
  <2>2. QED
    BY <1>1, <1>3, <2>1 DEF Init, TypeOK
<1>5. QED
  BY <1>1, <1>4 DEF Init, IInv, NoPageNoChannel

LEMMA StutterKeeps == IInv /\ UNCHANGED vars => IInv'
BY DEF vars, page, IInv, TypeOK, NoPageNoChannel, Up

LEMMA NextKeeps == IInv /\ [Next]_vars => IInv'
<1> SUFFICES ASSUME IInv, [Next]_vars PROVE IInv'
  OBVIOUS
<1>1. CASE UNCHANGED vars
  BY <1>1, StutterKeeps
<1>2. ASSUME NEW s \in Side, Call(s) PROVE IInv'
  BY <1>2, BootKeeps, UnloadKeeps, AddChannelKeeps, ConnectRequestKeeps,
     ConnectAnswerKeeps, DisconnectKeeps, SilentCloseKeeps, CancelKeeps,
     DestroyCallKeeps, SendKeeps DEF Call
<1>3. ASSUME NEW s \in Side, Tick(s) PROVE IInv'
  BY <1>3, RetryKeeps, ExpireKeeps, SilentCloseKeeps DEF Tick
<1>4. ASSUME NEW s \in Side, Deliver(s) PROVE IInv'
  BY <1>4, HandleRequestKeeps, HandleAcceptKeeps, HandleOpenKeeps, HandleDenyKeeps,
     HandleCancelKeeps, HandleCancelAcknowledgedKeeps, HandleCloseKeeps,
     HandleCloseAcknowledgedKeeps, HandleDestroyKeeps, HandleMessageKeeps DEF Deliver
<1>5. QED
  BY <1>1, <1>2, <1>3, <1>4 DEF Next

LEMMA Invariance == Spec => []IInv
<1>1. QED
  BY InitIInv, NextKeeps, PTL DEF Spec

\* Every variable keeps its type: frames that belong to a process carry one,
\* and every handle, timer and handshake tuple is well formed.
THEOREM TypeCorrect == Spec => []TypeOK
<1>1. IInv => TypeOK
  BY DEF IInv
<1>2. QED
  BY <1>1, Invariance, PTL

\* A channel plays one part at a time, whatever connect(), cancel(),
\* disconnect(), destroy(), the timers and the counterpart's frames do.
THEOREM RolesStayExclusive == Spec => []RolesExclusive
<1>1. IInv => RolesExclusive
  BY DEF IInv, Sound, RolesExclusive
<1>2. QED
  BY <1>1, Invariance, PTL

\* The events of a session alternate: one 'open', at most one 'closing', and
\* one 'close' by whichever of a close, its acknowledgement, its timeout, a
\* cancel or a reload comes first.
THEOREM SessionsCloseOnce == Spec => []OneCloseEach
<1>1. IInv => OneCloseEach
  BY DEF IInv, Sound, OneCloseEach
<1>2. QED
  BY <1>1, Invariance, PTL

-----------------------------------------------------------------------------
(* Frames in flight, as the process ids each kind of frame carries.        *)

Wire(q) == [k \in ProcessFrame |-> {q[i].pid : i \in {j \in DOMAIN q : q[j].type = k}}]

LEMMA WireEmpty == \A k \in ProcessFrame : Wire(<< >>)[k] = {}
BY DEF Wire

LEMMA WireAppend ==
  ASSUME NEW q \in Seq(Frame), NEW f \in Frame, NEW k \in ProcessFrame
  PROVE  Wire(Append(q, f))[k] = Wire(q)[k] \cup (IF f.type = k THEN {f.pid} ELSE {})
<1>1. DOMAIN q = 1 .. Len(q) /\ Len(q) \in Nat
  OBVIOUS
<1>2. DOMAIN Append(q, f) = 1 .. (Len(q) + 1)
  OBVIOUS
<1>3. /\ \A i \in 1 .. Len(q) : Append(q, f)[i] = q[i]
      /\ Append(q, f)[Len(q) + 1] = f
  OBVIOUS
<1>4. QED
  BY <1>1, <1>2, <1>3 DEF Wire

LEMMA WireConcat ==
  ASSUME NEW q \in Seq(Frame), NEW r \in Seq(Frame), NEW k \in ProcessFrame
  PROVE  Wire(q \o r)[k] \subseteq Wire(q)[k] \cup Wire(r)[k]
<1>1. DOMAIN q = 1 .. Len(q) /\ DOMAIN r = 1 .. Len(r) /\ Len(q) \in Nat /\ Len(r) \in Nat
  OBVIOUS
<1>2. DOMAIN (q \o r) = 1 .. (Len(q) + Len(r))
  OBVIOUS
<1>3. ASSUME NEW i \in 1 .. (Len(q) + Len(r))
      PROVE  \/ i \in 1 .. Len(q) /\ (q \o r)[i] = q[i]
             \/ i - Len(q) \in 1 .. Len(r) /\ (q \o r)[i] = r[i - Len(q)]
  BY <1>1
<1>4. QED
  BY <1>1, <1>2, <1>3 DEF Wire

LEMMA WireTail ==
  ASSUME NEW q \in Seq(Frame), q # << >>, NEW k \in ProcessFrame
  PROVE  /\ Wire(Tail(q))[k] \subseteq Wire(q)[k]
         /\ Head(q).type = k => Head(q).pid \in Wire(q)[k]
<1>1. DOMAIN q = 1 .. Len(q) /\ Len(q) \in Nat \ {0}
  OBVIOUS
<1>2. DOMAIN Tail(q) = 1 .. (Len(q) - 1) /\ Head(q) = q[1]
  BY <1>1
<1>3. \A i \in 1 .. (Len(q) - 1) : Tail(q)[i] = q[i + 1] /\ i + 1 \in 1 .. Len(q)
  BY <1>1
<1>4. QED
  BY <1>1, <1>2, <1>3 DEF Wire

-----------------------------------------------------------------------------
(* Where a process id may be.  P is what the broker of channel c tracks, d *)
(* the channel at the other end, `in' and `out' the frames in flight to    *)
(* the side of c and from it, and `past' the ids minted so far.            *)

\* The request in progress is tracked here alone, it travels as a REQUEST, and
\* nothing but its answer travels back.
RequestKept(c, P, d, in, out) ==
  c.pending # null =>
    /\ c.pending \in P
    /\ c.pending \notin {d.pending, d.closing}
    /\ \A k \in ProcessFrame \ {"ACCEPT", "DENY"} : c.pending \notin in[k]
    /\ \A k \in ProcessFrame \ {"REQUEST"} : c.pending \notin out[k]

\* The processes a channel is answering, or will once it is connected.
Answers(c) == {c.awaiting.pid, c.scheduled.pid} \ {null}

\* So is the close in progress, and nothing but its acknowledgement travels back.
CloseKept(c, P, d, in, out) ==
  c.closing # null =>
    /\ c.closing \in P
    /\ c.closing \notin Answers(d) \cup {d.closing}
    /\ \A k \in ProcessFrame \ {"CLOSE_ACK"} : c.closing \notin in[k]
    /\ \A k \in ProcessFrame \ {"CLOSE"} : c.closing \notin out[k]

\* A tracked process that is still requested, or was refused, is the request
\* in progress: a DENY that finds its process ends no other attempt.
Refusable(c, P, in, out) ==
  \A p \in P : p \in out["REQUEST"] \cup in["DENY"] => c.pending = p

\* A requested process is requested by one side only, and not refused by it.
OneWay(in, out) ==
  \A p \in in["REQUEST"] : p \notin out["REQUEST"] \cup in["DENY"]

\* The OPEN of an answer finds its channel while the requester may send one.
AnswersKept(c, P, d) == \A p \in Answers(c) : p \in P \/ d.pending # p

\* Every process id in use has been minted.
Minted(c, P, in, past) ==
  /\ P \cup Answers(c) \cup {null, c.pending, c.closing} \subseteq past
  /\ \A k \in ProcessFrame : in[k] \subseteq past

Half(c, P, d, in, out, past) ==
  /\ RequestKept(c, P, d, in, out)
  /\ CloseKept(c, P, d, in, out)
  /\ Refusable(c, P, in, out)
  /\ OneWay(in, out)
  /\ AnswersKept(c, P, d)
  /\ Minted(c, P, in, past)

\* Both ends.
Routed(c, P, d, Q, in, out, past) ==
  Half(c, P, d, in, out, past) /\ Half(d, Q, c, out, in, past)

\* What a step of the side of channel c may do: to the channel, to the ids P
\* its broker tracks, in frames O it posts, with the ids M it mints.
MovesChannel(c, P, in, c2, P2, M) ==
  /\ P2 \subseteq P \cup M \cup in["REQUEST"]
  /\ c2.pending \in {null, c.pending} \cup M
  /\ c2.pending # null => c2.pending \in P2
  /\ c2.closing \in {null, c.closing} \cup M
  /\ c2.closing # null => c2.closing \in P2
  /\ c2.pending = null \/ c2.closing = null
  /\ c.pending # null /\ c2.pending # c.pending => c.pending \notin P2
  /\ Answers(c2) \subseteq Answers(c) \cup in["REQUEST"]

MovesFrames(c, in, c2, P2, O, M) ==
  /\ \A p \in O["REQUEST"] : /\ p \in M \cup ({c.pending} \ {null})
                             /\ p \in P2 => c2.pending = p
                             /\ p # c2.closing
  /\ O["ACCEPT"] \subseteq (Answers(c) \cup in["REQUEST"])
                         \ ({c2.pending, c2.closing} \ {null})
  /\ O["OPEN"] \subseteq in["ACCEPT"] \ ({c2.pending} \ {null})
  /\ O["DENY"] \subseteq in["REQUEST"]
  /\ O["CANCEL"] \subseteq (M \cup in["ACCEPT"]) \ ({c2.pending, c2.closing} \ {null})
  /\ O["CANCEL_ACK"] \subseteq in["CANCEL"]
  /\ O["CLOSE"] \subseteq M \cap ({c2.closing} \ {null})
  /\ O["CLOSE_ACK"] \subseteq in["CLOSE"]

Moves(c, P, d, in, c2, P2, O, M) ==
  /\ MovesChannel(c, P, in, c2, P2, M)
  /\ MovesFrames(c, in, c2, P2, O, M)
  /\ AnswersKept(c2, P2, d)

-----------------------------------------------------------------------------
(* A move of one side keeps both halves of the invariant.                  *)

\* The frames in flight after a move: fewer to its side, and those it posted.
Fewer(in2, in)       == \A k \in ProcessFrame : in2[k] \subseteq in[k]
Posted(out2, out, O) == \A k \in ProcessFrame : out2[k] \subseteq out[k] \cup O[k]

\* New process ids are new.
Fresh(past, past2, M) == M \cap past = {} /\ past \cup M \subseteq past2

LEMMA RequestKeptByMove ==
  ASSUME NEW c, NEW P, NEW d, NEW Q, NEW in, NEW out, NEW past,
         NEW c2, NEW P2, NEW O, NEW M, NEW in2, NEW out2, NEW past2,
         Routed(c, P, d, Q, in, out, past), Moves(c, P, d, in, c2, P2, O, M),
         Fewer(in2, in), Posted(out2, out, O), Fresh(past, past2, M)
  PROVE  RequestKept(c2, P2, d, in2, out2)
<1> SUFFICES ASSUME c2.pending # null
             PROVE  /\ c2.pending \in P2
                    /\ c2.pending \notin {d.pending, d.closing}
                    /\ \A k \in ProcessFrame \ {"ACCEPT", "DENY"} : c2.pending \notin in2[k]
                    /\ \A k \in ProcessFrame \ {"REQUEST"} : c2.pending \notin out2[k]
  BY DEF RequestKept
<1> DEFINE p == c2.pending
<1> USE DEF ProcessFrame
<1>1. p \in P2
  BY DEF Moves, MovesChannel
<1>2. p = c.pending \/ p \in M
  BY DEF Moves, MovesChannel
<1>3. p \notin {d.pending, d.closing}
  BY <1>2 DEF Routed, Half, RequestKept, Minted, Fresh
<1>4. \A k \in ProcessFrame \ {"ACCEPT", "DENY"} : p \notin in[k]
  BY <1>2 DEF Routed, Half, RequestKept, Minted, Fresh
<1>5. \A k \in ProcessFrame \ {"REQUEST"} : p \notin out[k]
  BY <1>2 DEF Routed, Half, RequestKept, Minted, Fresh
<1>6. \A k \in ProcessFrame \ {"REQUEST"} : p \notin O[k]
  <2>1. p \notin O["ACCEPT"] /\ p \notin O["OPEN"] /\ p \notin O["CANCEL"]
    BY DEF Moves, MovesFrames
  <2>2. p \notin O["DENY"] /\ p \notin O["CANCEL_ACK"] /\ p \notin O["CLOSE_ACK"]
    BY <1>4 DEF Moves, MovesFrames
  <2>3. p \notin O["CLOSE"]
    BY DEF Moves, MovesFrames, MovesChannel
  <2>4. QED
    BY <2>1, <2>2, <2>3
<1>7. QED
  BY <1>1, <1>3, <1>4, <1>5, <1>6 DEF Fewer, Posted

LEMMA OtherRequestKeptByMove ==
  ASSUME NEW c, NEW P, NEW d, NEW Q, NEW in, NEW out, NEW past,
         NEW c2, NEW P2, NEW O, NEW M, NEW in2, NEW out2, NEW past2,
         Routed(c, P, d, Q, in, out, past), Moves(c, P, d, in, c2, P2, O, M),
         Fewer(in2, in), Posted(out2, out, O), Fresh(past, past2, M)
  PROVE  RequestKept(d, Q, c2, out2, in2)
<1> SUFFICES ASSUME d.pending # null
             PROVE  /\ d.pending \in Q
                    /\ d.pending \notin {c2.pending, c2.closing}
                    /\ \A k \in ProcessFrame \ {"ACCEPT", "DENY"} : d.pending \notin out2[k]
                    /\ \A k \in ProcessFrame \ {"REQUEST"} : d.pending \notin in2[k]
  BY DEF RequestKept
<1> DEFINE p == d.pending
<1> USE DEF ProcessFrame
<1>1. p \in Q /\ p # c.pending /\ p # c.closing /\ p \notin M
  BY DEF Routed, Half, RequestKept, Minted, Fresh
<1>2. p # c2.pending /\ p # c2.closing
  BY <1>1 DEF Moves, MovesChannel
<1>3. /\ \A k \in ProcessFrame \ {"ACCEPT", "DENY"} : p \notin out[k]
      /\ \A k \in ProcessFrame \ {"REQUEST"} : p \notin in[k]
  BY DEF Routed, Half, RequestKept
<1>4. \A k \in ProcessFrame \ {"ACCEPT", "DENY"} : p \notin O[k]
  <2>1. p \notin O["REQUEST"] /\ p \notin O["CLOSE"]
    BY <1>1 DEF Moves, MovesFrames
  <2>2. p \notin O["OPEN"] /\ p \notin O["CANCEL"]
    BY <1>1, <1>3 DEF Moves, MovesFrames
  <2>3. p \notin O["CANCEL_ACK"] /\ p \notin O["CLOSE_ACK"]
    BY <1>3 DEF Moves, MovesFrames
  <2>4. QED
    BY <2>1, <2>2, <2>3
<1>5. QED
  BY <1>1, <1>2, <1>3, <1>4 DEF Fewer, Posted

LEMMA CloseKeptByMove ==
  ASSUME NEW c, NEW P, NEW d, NEW Q, NEW in, NEW out, NEW past,
         NEW c2, NEW P2, NEW O, NEW M, NEW in2, NEW out2, NEW past2,
         Routed(c, P, d, Q, in, out, past), Moves(c, P, d, in, c2, P2, O, M),
         Fewer(in2, in), Posted(out2, out, O), Fresh(past, past2, M)
  PROVE  CloseKept(c2, P2, d, in2, out2)
<1> SUFFICES ASSUME c2.closing # null
             PROVE  /\ c2.closing \in P2
                    /\ c2.closing \notin Answers(d) \cup {d.closing}
                    /\ \A k \in ProcessFrame \ {"CLOSE_ACK"} : c2.closing \notin in2[k]
                    /\ \A k \in ProcessFrame \ {"CLOSE"} : c2.closing \notin out2[k]
  BY DEF CloseKept
<1> DEFINE p == c2.closing
<1> USE DEF ProcessFrame
<1>1. p \in P2 /\ (p = c.closing \/ p \in M)
  BY DEF Moves, MovesChannel
<1>2. p \notin Answers(d) \cup {d.closing}
  BY <1>1 DEF Routed, Half, CloseKept, Minted, Fresh
<1>3. \A k \in ProcessFrame \ {"CLOSE_ACK"} : p \notin in[k]
  BY <1>1 DEF Routed, Half, CloseKept, Minted, Fresh
<1>4. \A k \in ProcessFrame \ {"CLOSE"} : p \notin out[k]
  BY <1>1 DEF Routed, Half, CloseKept, Minted, Fresh
<1>5. \A k \in ProcessFrame \ {"CLOSE"} : p \notin O[k]
  <2>1. p \notin O["REQUEST"] /\ p \notin O["ACCEPT"] /\ p \notin O["CANCEL"]
    BY DEF Moves, MovesFrames
  <2>2. p \notin O["OPEN"] /\ p \notin O["DENY"]
    BY <1>3 DEF Moves, MovesFrames
  <2>3. p \notin O["CANCEL_ACK"] /\ p \notin O["CLOSE_ACK"]
    BY <1>3 DEF Moves, MovesFrames
  <2>4. QED
    BY <2>1, <2>2, <2>3
<1>6. QED
  BY <1>1, <1>2, <1>3, <1>4, <1>5 DEF Fewer, Posted

LEMMA OtherCloseKeptByMove ==
  ASSUME NEW c, NEW P, NEW d, NEW Q, NEW in, NEW out, NEW past,
         NEW c2, NEW P2, NEW O, NEW M, NEW in2, NEW out2, NEW past2,
         Routed(c, P, d, Q, in, out, past), Moves(c, P, d, in, c2, P2, O, M),
         Fewer(in2, in), Posted(out2, out, O), Fresh(past, past2, M)
  PROVE  CloseKept(d, Q, c2, out2, in2)
<1> SUFFICES ASSUME d.closing # null
             PROVE  /\ d.closing \in Q
                    /\ d.closing \notin Answers(c2) \cup {c2.closing}
                    /\ \A k \in ProcessFrame \ {"CLOSE_ACK"} : d.closing \notin out2[k]
                    /\ \A k \in ProcessFrame \ {"CLOSE"} : d.closing \notin in2[k]
  BY DEF CloseKept
<1> DEFINE p == d.closing
<1> USE DEF ProcessFrame
<1>1. p \in Q /\ p \notin Answers(c) /\ p # c.closing /\ p \notin M
  BY DEF Routed, Half, CloseKept, Minted, Fresh
<1>2. /\ \A k \in ProcessFrame \ {"CLOSE_ACK"} : p \notin out[k]
      /\ \A k \in ProcessFrame \ {"CLOSE"} : p \notin in[k]
  BY DEF Routed, Half, CloseKept
<1>3. p \notin Answers(c2) /\ p # c2.closing
  BY <1>1, <1>2 DEF Moves, MovesChannel
<1>4. p # c.pending
  BY DEF Routed, Half, RequestKept
<1>5. \A k \in ProcessFrame \ {"CLOSE_ACK"} : p \notin O[k]
  <2>1. p \notin O["REQUEST"] /\ p \notin O["CLOSE"]
    BY <1>1, <1>4 DEF Moves, MovesFrames
  <2>2. p \notin O["ACCEPT"] /\ p \notin O["OPEN"] /\ p \notin O["CANCEL"]
    BY <1>1, <1>2 DEF Moves, MovesFrames
  <2>3. p \notin O["DENY"] /\ p \notin O["CANCEL_ACK"]
    BY <1>2 DEF Moves, MovesFrames
  <2>4. QED
    BY <2>1, <2>2, <2>3
<1>6. QED
  BY <1>1, <1>2, <1>3, <1>5 DEF Fewer, Posted

LEMMA RefusableByMove ==
  ASSUME NEW c, NEW P, NEW d, NEW Q, NEW in, NEW out, NEW past,
         NEW c2, NEW P2, NEW O, NEW M, NEW in2, NEW out2, NEW past2,
         Routed(c, P, d, Q, in, out, past), Moves(c, P, d, in, c2, P2, O, M),
         null \notin P,
         Fewer(in2, in), Posted(out2, out, O), Fresh(past, past2, M)
  PROVE  Refusable(c2, P2, in2, out2) /\ Refusable(d, Q, out2, in2)
<1> USE DEF ProcessFrame
<1>1. ASSUME NEW p \in P2, p \in out2["REQUEST"] \cup in2["DENY"]
      PROVE  c2.pending = p
  <2>1. CASE p \in O["REQUEST"]
    BY <2>1 DEF Moves, MovesFrames
  <2>2. CASE p \in out["REQUEST"] \cup in["DENY"]
    <3>1. p \in P
      BY <2>2 DEF Moves, MovesChannel, Routed, Half, Minted, OneWay, Fresh
    <3>2. c.pending = p /\ p # null
      BY <2>2, <3>1 DEF Routed, Half, Refusable
    <3>3. QED
      BY <3>2 DEF Moves, MovesChannel
  <2>3. QED
    BY <1>1, <2>1, <2>2 DEF Fewer, Posted
<1>2. ASSUME NEW p \in Q, p \in in2["REQUEST"] \cup out2["DENY"]
      PROVE  d.pending = p
  <2>1. p \in in["REQUEST"] \cup out["DENY"]
    BY <1>2 DEF Fewer, Posted, Moves, MovesFrames
  <2>2. QED
    BY <2>1 DEF Routed, Half, Refusable
<1>3. QED
  BY <1>1, <1>2 DEF Refusable

LEMMA OneWayByMove ==
  ASSUME NEW c, NEW P, NEW d, NEW Q, NEW in, NEW out, NEW past,
         NEW c2, NEW P2, NEW O, NEW M, NEW in2, NEW out2, NEW past2,
         Routed(c, P, d, Q, in, out, past), Moves(c, P, d, in, c2, P2, O, M),
         Fewer(in2, in), Posted(out2, out, O), Fresh(past, past2, M)
  PROVE  OneWay(in2, out2) /\ OneWay(out2, in2)
<1> USE DEF ProcessFrame
<1>1. ASSUME NEW p \in O["REQUEST"]
      PROVE  p \notin in["REQUEST"] /\ p \notin out["DENY"]
  <2>1. p \in M \/ (p = c.pending /\ c.pending # null)
    BY DEF Moves, MovesFrames
  <2>2. QED
    BY <2>1 DEF Routed, Half, RequestKept, Minted, Fresh
<1>2. ASSUME NEW p \in in2["REQUEST"]
      PROVE  p \notin out2["REQUEST"] \cup in2["DENY"]
  BY <1>1, <1>2 DEF Fewer, Posted, Routed, Half, OneWay
<1>3. ASSUME NEW p \in out2["REQUEST"]
      PROVE  p \notin in2["REQUEST"] \cup out2["DENY"]
  <2>1. O["DENY"] \subseteq in["REQUEST"]
    BY DEF Moves, MovesFrames
  <2>2. QED
    BY <1>1, <1>3, <2>1 DEF Fewer, Posted, Routed, Half, OneWay
<1>4. QED
  BY <1>2, <1>3 DEF OneWay

LEMMA AnswersKeptByMove ==
  ASSUME NEW c, NEW P, NEW d, NEW Q, NEW in, NEW out, NEW past,
         NEW c2, NEW P2, NEW O, NEW M, NEW past2,
         Routed(c, P, d, Q, in, out, past), Moves(c, P, d, in, c2, P2, O, M),
         Fresh(past, past2, M)
  PROVE  AnswersKept(d, Q, c2)
<1>1. ASSUME NEW p \in Answers(d), p \notin Q
      PROVE  c2.pending # p
  BY <1>1 DEF Routed, Half, AnswersKept, Minted, Fresh, Moves, MovesChannel, Answers
<1>2. QED
  BY <1>1 DEF AnswersKept

LEMMA MintedByMove ==
  ASSUME NEW c, NEW P, NEW d, NEW Q, NEW in, NEW out, NEW past,
         NEW c2, NEW P2, NEW O, NEW M, NEW in2, NEW out2, NEW past2,
         Routed(c, P, d, Q, in, out, past), Moves(c, P, d, in, c2, P2, O, M),
         Fewer(in2, in), Posted(out2, out, O), Fresh(past, past2, M)
  PROVE  Minted(c2, P2, in2, past2) /\ Minted(d, Q, out2, past2)
<1> USE DEF ProcessFrame
<1>1. P2 \cup Answers(c2) \cup {null, c2.pending, c2.closing} \subseteq past \cup M
  BY DEF Routed, Half, Minted, Moves, MovesChannel
<1>2. \A k \in ProcessFrame : O[k] \subseteq past \cup M
  <2>1. /\ O["REQUEST"] \subseteq past \cup M
        /\ O["ACCEPT"] \subseteq past \cup M
        /\ O["OPEN"] \subseteq past \cup M
        /\ O["DENY"] \subseteq past \cup M
        /\ O["CANCEL"] \subseteq past \cup M
        /\ O["CANCEL_ACK"] \subseteq past \cup M
        /\ O["CLOSE"] \subseteq past \cup M
        /\ O["CLOSE_ACK"] \subseteq past \cup M
    BY DEF Routed, Half, Minted, Moves, MovesFrames
  <2>2. QED
    BY <2>1
<1>3. QED
  BY <1>1, <1>2 DEF Routed, Half, Minted, Fewer, Posted, Fresh

LEMMA MoveKeepsRouted ==
  ASSUME NEW c, NEW P, NEW d, NEW Q, NEW in, NEW out, NEW past,
         NEW c2, NEW P2, NEW O, NEW M, NEW in2, NEW out2, NEW past2,
         Routed(c, P, d, Q, in, out, past), Moves(c, P, d, in, c2, P2, O, M),
         null \notin P,
         Fewer(in2, in), Posted(out2, out, O), Fresh(past, past2, M)
  PROVE  Routed(c2, P2, d, Q, in2, out2, past2)
<1>1. RequestKept(c2, P2, d, in2, out2) /\ RequestKept(d, Q, c2, out2, in2)
  BY RequestKeptByMove, OtherRequestKeptByMove
<1>2. CloseKept(c2, P2, d, in2, out2) /\ CloseKept(d, Q, c2, out2, in2)
  BY CloseKeptByMove, OtherCloseKeptByMove
<1>3. Refusable(c2, P2, in2, out2) /\ Refusable(d, Q, out2, in2)
  BY RefusableByMove
<1>4. OneWay(in2, out2) /\ OneWay(out2, in2)
  BY OneWayByMove
<1>5. AnswersKept(c2, P2, d)
  BY DEF Moves
<1>6. AnswersKept(d, Q, c2)
  BY AnswersKeptByMove
<1>7. Minted(c2, P2, in2, past2) /\ Minted(d, Q, out2, past2)
  BY MintedByMove
<1>8. QED
  BY <1>1, <1>2, <1>3, <1>4, <1>5, <1>6, <1>7 DEF Routed, Half

-----------------------------------------------------------------------------
(* What the operators on a page's work do to the channel, to the processes *)
(* tracked and to the frames posted.                                       *)

\* The parts of a channel record the invariant is about.
SameHandshake(c, d) ==
  /\ c.active = d.active /\ c.ready = d.ready /\ c.registered = d.registered
  /\ c.origin = d.origin /\ c.timer = d.timer
  /\ c.pending = d.pending /\ c.closing = d.closing
  /\ c.awaiting = d.awaiting /\ c.scheduled = d.scheduled

\* The frames of v are those of w and, at most, one of the kind for process p.
Adds(v, w, kind, p) ==
  \A k \in ProcessFrame :
    Wire(v.out)[k] \subseteq Wire(w.out)[k] \cup (IF k = kind THEN {p} ELSE {})

LEMMA PostDoes ==
  ASSUME NEW w \in WorkOK, NEW type, NEW p,
         \/ type \in ProcessFrame /\ p \in Pid
         \/ type \in PlainFrame /\ p = null
  PROVE  /\ Post(w, type, p) \in WorkOK
         /\ Post(w, type, p).ch = w.ch
         /\ Post(w, type, p).procs = w.procs
         /\ Adds(Post(w, type, p), w, type, p)
<1> DEFINE f == [type |-> type, from |-> w.id, pid |-> p, msg |-> 0]
<1>1. f \in Frame /\ f.type = type /\ f.pid = p
  BY DEF Frame, WorkOK
<1>2. w.out \in Seq(Frame)
  BY DEF WorkOK
<1> HIDE DEF f
<1> DEFINE v == [w EXCEPT !.out = Append(w.out, f)]
<1>3. v.procs = w.procs /\ v.out = Append(w.out, f)
  BY DEF WorkOK
<1>4. Post(w, type, p) = v \/ Post(w, type, p) = w
  BY DEF Post, f
<1> HIDE DEF v
<1>5. Adds(v, w, type, p)
  BY <1>1, <1>2, <1>3, WireAppend DEF Adds
<1>6. Adds(w, w, type, p)
  BY DEF Adds
<1>7. QED
  BY <1>3, <1>4, <1>5, <1>6, PostType

LEMMA PostMessagesDoes ==
  ASSUME NEW w \in WorkOK, NEW msgs \in Seq(Nat)
  PROVE  /\ PostMessages(w, msgs) \in WorkOK
         /\ PostMessages(w, msgs).ch = w.ch
         /\ PostMessages(w, msgs).procs = w.procs
         /\ Adds(PostMessages(w, msgs), w, "MESSAGE", null)
<1> DEFINE fs == [i \in 1 .. Len(msgs) |->
                    [type |-> "MESSAGE", from |-> w.id, pid |-> null, msg |-> msgs[i]]]
           v == [w EXCEPT !.out = w.out \o fs]
<1>1. \A i \in 1 .. Len(msgs) : fs[i] \in Frame /\ fs[i].type = "MESSAGE"
  BY DEF Frame, PlainFrame, WorkOK
<1>2. fs \in Seq(Frame) /\ DOMAIN fs = 1 .. Len(msgs)
  BY <1>1
<1> HIDE DEF fs
<1>3. w.out \in Seq(Frame)
  BY DEF WorkOK
<1>4. v.procs = w.procs /\ v.out = w.out \o fs
  BY DEF WorkOK
<1>5. \A k \in ProcessFrame : Wire(fs)[k] = {}
  BY <1>1, <1>2 DEF Wire, ProcessFrame
<1>6. PostMessages(w, msgs) = v \/ PostMessages(w, msgs) = w
  BY DEF PostMessages, fs
<1> HIDE DEF v
<1>7. Adds(v, w, "MESSAGE", null)
  BY <1>2, <1>3, <1>4, <1>5, WireConcat DEF Adds
<1>8. Adds(w, w, "MESSAGE", null)
  BY DEF Adds
<1>9. QED
  BY <1>4, <1>6, <1>7, <1>8, PostMessagesType

LEMMA UntrackDoes ==
  ASSUME NEW w \in WorkOK, NEW p
  PROVE  /\ Untrack(w, p) \in WorkOK
         /\ Untrack(w, p).ch = w.ch
         /\ Untrack(w, p).procs = w.procs \ {p}
         /\ Untrack(w, p).out = w.out
BY DEF Untrack, WorkOK

LEMMA TrackDoes ==
  ASSUME NEW w \in WorkOK, NEW p \in Pid
  PROVE  /\ Track(w, p) \in WorkOK
         /\ Track(w, p).ch = w.ch
         /\ Track(w, p).procs = w.procs \cup {p}
         /\ Track(w, p).out = w.out
<1>1. /\ Untrack(w, p) \in WorkOK
      /\ Untrack(w, p).procs = w.procs \ {p}
      /\ Untrack(w, p).out = w.out
  BY UntrackDoes
<1>2. /\ Track(w, p).procs = Untrack(w, p).procs \cup {p}
      /\ Track(w, p).out = Untrack(w, p).out
  BY <1>1 DEF Track, WorkOK
<1>3. QED
  BY <1>1, <1>2, TrackType

\* A channel record written back changes nothing else.
LEMMA WriteDoes ==
  ASSUME NEW w \in WorkOK, NEW c \in Channel
  PROVE  /\ [w EXCEPT !.ch = c] \in WorkOK
         /\ [w EXCEPT !.ch = c].ch = c
         /\ [w EXCEPT !.ch = c].procs = w.procs
         /\ [w EXCEPT !.ch = c].out = w.out
BY DEF WorkOK

LEMMA EndAttemptDoes ==
  ASSUME NEW w \in WorkOK, NEW outcome \in Outcome
  PROVE  /\ EndAttempt(w, outcome) \in WorkOK
         /\ SameHandshake(w.ch, EndAttempt(w, outcome).ch)
         /\ EndAttempt(w, outcome).procs = w.procs
         /\ EndAttempt(w, outcome).out = w.out
<1> DEFINE h == [w.ch.attempt EXCEPT !.outcome = outcome]
           c == [w.ch EXCEPT !.attempt = h]
<1>1. h \in Attempt
  BY DEF WorkOK, Channel, Attempt
<1>2. EndAttempt(w, outcome) = [w EXCEPT !.ch = c]
  BY DEF EndAttempt, WorkOK, Channel, Attempt
<1> HIDE DEF h
<1>3. c \in Channel
  BY <1>1 DEF WorkOK, Channel
<1>4. SameHandshake(w.ch, c)
  BY DEF WorkOK, Channel, SameHandshake
<1> HIDE DEF c
<1>5. QED
  BY <1>2, <1>3, <1>4, WriteDoes

LEMMA DenyOnceDoes ==
  ASSUME NEW w \in WorkOK, NEW p \in Pid
  PROVE  /\ DenyOnce(w, p) \in WorkOK
         /\ SameHandshake(w.ch, DenyOnce(w, p).ch)
         /\ DenyOnce(w, p).procs = w.procs
         /\ DenyOnce(w, p).out = w.out
<1> DEFINE d == [w EXCEPT !.ch.denied = p]
<1>1. d \in WorkOK /\ SameHandshake(w.ch, d.ch) /\ d.procs = w.procs /\ d.out = w.out
  BY DEF WorkOK, Channel, SameHandshake
<1> HIDE DEF d
<1>2. /\ EndAttempt(d, "deny") \in WorkOK
      /\ SameHandshake(d.ch, EndAttempt(d, "deny").ch)
      /\ EndAttempt(d, "deny").procs = d.procs
      /\ EndAttempt(d, "deny").out = d.out
  BY <1>1, EndAttemptDoes DEF Outcome
<1>3. CASE w.ch.denied = p
  BY <1>3 DEF DenyOnce, SameHandshake
<1>4. CASE w.ch.denied # p
  <2>1. DenyOnce(w, p) = EndAttempt(d, "deny")
    BY <1>4 DEF DenyOnce, d
  <2>2. QED
    BY <2>1, <1>1, <1>2 DEF SameHandshake
<1>5. QED
  BY <1>3, <1>4

\* Clearing the timers and forgetting a process.
LEMMA StopDoes ==
  ASSUME NEW w \in WorkOK, NEW p
  PROVE  /\ Untrack(ClearTimers(w), p) \in WorkOK
         /\ Untrack(ClearTimers(w), p).ch = [w.ch EXCEPT !.timer = NoTimer]
         /\ Untrack(ClearTimers(w), p).procs = w.procs \ {p}
         /\ Untrack(ClearTimers(w), p).out = w.out
<1>1. /\ ClearTimers(w) \in WorkOK
      /\ ClearTimers(w).ch = [w.ch EXCEPT !.timer = NoTimer]
  BY ClearTimersType
<1>2. ClearTimers(w).procs = w.procs /\ ClearTimers(w).out = w.out
  BY DEF ClearTimers, WorkOK
<1>3. QED
  BY <1>1, <1>2, UntrackDoes

LEMMA AbandonRequestDoes ==
  ASSUME NEW w \in WorkOK, Sound(w.ch)
  PROVE  /\ AbandonRequest(w) \in WorkOK
         /\ AbandonRequest(w).ch = Abandoned(w.ch)
         /\ AbandonRequest(w).procs = w.procs \ {w.ch.pending}
         /\ AbandonRequest(w).out = w.out
<1> DEFINE u == Untrack(ClearTimers(w), w.ch.pending)
           c == [u.ch EXCEPT !.pending = null]
<1>1. u \in WorkOK /\ u.procs = w.procs \ {w.ch.pending} /\ u.out = w.out
      /\ u.ch = [w.ch EXCEPT !.timer = NoTimer]
  BY StopDoes
<1>2. AbandonRequest(w) = [u EXCEPT !.ch = c]
  BY DEF AbandonRequest
<1> HIDE DEF u
<1>3. c = Abandoned(w.ch)
  BY <1>1 DEF Abandoned
<1>4. c \in Channel
  BY <1>3, AbandonedType DEF WorkOK
<1> HIDE DEF c
<1>5. QED
  BY <1>1, <1>2, <1>3, <1>4, WriteDoes

LEMMA FinalizeCloseDoes ==
  ASSUME NEW w \in WorkOK, Roles(w.ch), OneClose(w.ch), w.ch.active
  PROVE  /\ FinalizeClose(w) \in WorkOK
         /\ FinalizeClose(w).ch = Closed(w.ch)
         /\ FinalizeClose(w).procs = w.procs \ {w.ch.closing}
         /\ FinalizeClose(w).out = w.out
<1> DEFINE u == Untrack(ClearTimers(w), w.ch.closing)
           c == [u.ch EXCEPT !.active = FALSE, !.pending = null, !.awaiting = NoRequest,
                             !.closing = null, !.opens = @ - 1]
<1>1. u \in WorkOK /\ u.procs = w.procs \ {w.ch.closing} /\ u.out = w.out
      /\ u.ch = [w.ch EXCEPT !.timer = NoTimer]
  BY StopDoes
<1>2. w.ch \in Channel
  BY DEF WorkOK
<1>3. FinalizeClose(w) = [u EXCEPT !.ch = c]
  BY DEF FinalizeClose
<1> HIDE DEF u
<1>4. c = Closed(w.ch)
  BY <1>1, <1>2 DEF Closed, Channel
<1> HIDE DEF c
<1>5. Closed(w.ch) \in Channel
  BY <1>2, ClosedType
<1>6. QED
  BY <1>1, <1>3, <1>4, <1>5, WriteDoes

LEMMA BeginResponseDoes ==
  ASSUME NEW w \in WorkOK, NEW r \in Request
  PROVE  /\ BeginResponse(w, r) \in WorkOK
         /\ BeginResponse(w, r).ch = Answering(w.ch, r)
         /\ BeginResponse(w, r).procs = w.procs
         /\ Adds(BeginResponse(w, r), w, "ACCEPT", r.pid)
<1> DEFINE u == [w EXCEPT !.ch = Answering(w.ch, r)]
<1>1. r.pid \in Pid /\ w.ch \in Channel
  BY DEF Request, WorkOK
<1>2. Answering(w.ch, r) \in Channel
  BY <1>1, AnsweringChannel
<1>3. u \in WorkOK /\ u.ch = Answering(w.ch, r) /\ u.procs = w.procs /\ u.out = w.out
  BY <1>2, WriteDoes
<1>4. BeginResponse(w, r) = Post(u, "ACCEPT", r.pid)
  BY DEF BeginResponse, Answering
<1> HIDE DEF u
<1>5. /\ Post(u, "ACCEPT", r.pid) \in WorkOK
      /\ Post(u, "ACCEPT", r.pid).ch = u.ch
      /\ Post(u, "ACCEPT", r.pid).procs = u.procs
      /\ Adds(Post(u, "ACCEPT", r.pid), u, "ACCEPT", r.pid)
  BY <1>1, <1>3, PostDoes DEF ProcessFrame
<1>6. QED
  BY <1>3, <1>4, <1>5 DEF Adds

LEMMA ActivateDoes ==
  ASSUME NEW w \in WorkOK, NEW i \in Id
  PROVE  /\ Activate(w, i) \in WorkOK
         /\ SameHandshake(Opened(w.ch, i), Activate(w, i).ch)
         /\ Activate(w, i).procs = w.procs
         /\ Activate(w, i).out = w.out
<1> DEFINE u == [w EXCEPT !.ch = Opened(w.ch, i)]
<1>1. Opened(w.ch, i) \in Channel
  BY OpenedChannel DEF WorkOK
<1>2. u \in WorkOK /\ u.ch = Opened(w.ch, i) /\ u.procs = w.procs /\ u.out = w.out
  BY <1>1, WriteDoes
<1>3. Activate(w, i) = EndAttempt(u, "open")
  BY DEF Activate, Opened
<1> HIDE DEF u
<1>4. /\ EndAttempt(u, "open") \in WorkOK
      /\ SameHandshake(u.ch, EndAttempt(u, "open").ch)
      /\ EndAttempt(u, "open").procs = u.procs
      /\ EndAttempt(u, "open").out = u.out
  BY <1>2, EndAttemptDoes DEF Outcome
<1>5. QED
  BY <1>2, <1>3, <1>4

LEMMA FlushDoes ==
  ASSUME NEW w \in WorkOK
  PROVE  /\ Flush(w) \in WorkOK
         /\ SameHandshake(w.ch, Flush(w).ch)
         /\ Flush(w).procs = w.procs
         /\ Adds(Flush(w), w, "MESSAGE", null)
<1> DEFINE c == [w.ch EXCEPT !.queue = << >>]
           u == [w EXCEPT !.ch = c]
<1>1. w.ch \in Channel /\ w.ch.queue \in Seq(Nat)
  BY DEF WorkOK, Channel
<1>2. << >> \in Seq(Nat)
  OBVIOUS
<1>3. c \in Channel
  BY <1>1, <1>2, QueueWrite
<1>4. SameHandshake(w.ch, c)
  BY <1>1 DEF Channel, SameHandshake
<1>5. Flush(w) = PostMessages(u, w.ch.queue)
  BY DEF Flush
<1> HIDE DEF c
<1>6. u \in WorkOK /\ u.ch = c /\ u.procs = w.procs /\ u.out = w.out
  BY <1>3, WriteDoes
<1> HIDE DEF u
<1>7. /\ PostMessages(u, w.ch.queue) \in WorkOK
      /\ PostMessages(u, w.ch.queue).ch = u.ch
      /\ PostMessages(u, w.ch.queue).procs = u.procs
      /\ Adds(PostMessages(u, w.ch.queue), u, "MESSAGE", null)
  BY <1>1, <1>6, PostMessagesDoes
<1>8. QED
  BY <1>4, <1>5, <1>6, <1>7 DEF Adds

LEMMA ProposeCloseDoes ==
  ASSUME NEW w \in WorkOK, NEW p \in Pid, Sound(w.ch), w.ch.active, w.ch.closing = null
  PROVE  /\ ProposeClose(w, p) \in WorkOK
         /\ ProposeClose(w, p).ch = Proposed(w.ch, p)
         /\ ProposeClose(w, p).procs = w.procs \cup {p}
         /\ Adds(ProposeClose(w, p), w, "CLOSE", p)
<1> DEFINE t == Track(ClearTimers(w), p)
           u == [t EXCEPT !.ch = Proposed(w.ch, p)]
<1>1. w.ch \in Channel
  BY DEF WorkOK
<1>2. /\ ClearTimers(w) \in WorkOK
      /\ ClearTimers(w).ch = [w.ch EXCEPT !.timer = NoTimer]
      /\ ClearTimers(w).procs = w.procs
      /\ ClearTimers(w).out = w.out
  BY ClearTimersType DEF ClearTimers, WorkOK
<1>3. /\ t \in WorkOK /\ t.ch = [w.ch EXCEPT !.timer = NoTimer]
      /\ t.procs = w.procs \cup {p} /\ t.out = w.out
  BY <1>2, TrackDoes
<1>4. Proposed(w.ch, p) \in Channel
  BY <1>1, ProposedType
<1>5. ProposeClose(w, p) =
        Post([t EXCEPT !.ch = [t.ch EXCEPT !.closing = p, !.closings = @ + 1]], "CLOSE", p)
  BY DEF ProposeClose
<1> HIDE DEF t
<1>6. [t.ch EXCEPT !.closing = p, !.closings = @ + 1] = Proposed(w.ch, p)
  BY <1>1, <1>3 DEF Proposed, Channel
<1>7. /\ u \in WorkOK /\ u.ch = Proposed(w.ch, p)
      /\ u.procs = t.procs /\ u.out = t.out
  BY <1>3, <1>4, WriteDoes
<1>8. ProposeClose(w, p) = Post(u, "CLOSE", p)
  BY <1>5, <1>6
<1> HIDE DEF u
<1>9. /\ Post(u, "CLOSE", p) \in WorkOK /\ Post(u, "CLOSE", p).ch = u.ch
      /\ Post(u, "CLOSE", p).procs = u.procs /\ Adds(Post(u, "CLOSE", p), u, "CLOSE", p)
  BY <1>7, PostDoes DEF ProcessFrame
<1>10. QED
  BY <1>3, <1>7, <1>8, <1>9 DEF Adds

LEMMA AbortAttemptDoes ==
  ASSUME NEW w \in WorkOK, Sound(w.ch)
  PROVE  /\ AbortAttempt(w) \in WorkOK
         /\ SameHandshake(Given(w.ch, NoRequest), AbortAttempt(w).ch)
         /\ AbortAttempt(w).procs = w.procs \ {w.ch.pending}
         /\ AbortAttempt(w).out = w.out
<1> DEFINE t == Untrack(ClearTimers(w), w.ch.pending)
           c == [t.ch EXCEPT !.pending = null, !.awaiting = NoRequest, !.scheduled = NoRequest]
           u == [t EXCEPT !.ch = c]
<1>1. w.ch \in Channel
  BY DEF WorkOK
<1>2. /\ t \in WorkOK /\ t.ch = [w.ch EXCEPT !.timer = NoTimer]
      /\ t.procs = w.procs \ {w.ch.pending} /\ t.out = w.out
  BY StopDoes
<1>3. Given(w.ch, NoRequest) \in Channel
  BY <1>1, GivenType
<1>4. AbortAttempt(w) = EndAttempt(u, "cancel")
  BY DEF AbortAttempt
<1> HIDE DEF t
<1>5. c = Given(w.ch, NoRequest)
  BY <1>1, <1>2 DEF Given, Channel
<1> HIDE DEF c
<1>6. u \in WorkOK /\ u.ch = c /\ u.procs = t.procs /\ u.out = t.out
  BY <1>2, <1>3, <1>5, WriteDoes
<1> HIDE DEF u
<1>7. /\ EndAttempt(u, "cancel") \in WorkOK
      /\ SameHandshake(u.ch, EndAttempt(u, "cancel").ch)
      /\ EndAttempt(u, "cancel").procs = u.procs
      /\ EndAttempt(u, "cancel").out = u.out
  BY <1>6, EndAttemptDoes DEF Outcome
<1>8. QED
  BY <1>2, <1>4, <1>5, <1>6, <1>7

LEMMA DestroyDoes ==
  ASSUME NEW w \in WorkOK, NEW notify \in BOOLEAN
  PROVE  /\ Destroy(w, notify) \in WorkOK
         /\ Destroy(w, notify).ch = NewChannel(FALSE)
         /\ Destroy(w, notify).procs = {}
         /\ Adds(Destroy(w, notify), w, "DESTROY", null)
<1> DEFINE g == IF notify THEN Post(w, "DESTROY", null) ELSE w
           h == {w.ch.pending, w.ch.awaiting.pid, w.ch.scheduled.pid, w.ch.closing}
           o == [pid : w.procs \ h, peerId : {w.ch.peerId}, origin : {w.ch.origin}]
           x == [g EXCEPT !.ch = NewChannel(FALSE), !.procs = {}, !.orphans = @ \cup o]
<1>1. g \in WorkOK /\ Adds(g, w, "DESTROY", null)
  <2>1. /\ Post(w, "DESTROY", null) \in WorkOK
        /\ Adds(Post(w, "DESTROY", null), w, "DESTROY", null)
    BY PostDoes DEF PlainFrame
  <2>2. Adds(w, w, "DESTROY", null)
    BY DEF Adds
  <2>3. QED
    BY <2>1, <2>2
<1>2. Destroy(w, notify) = x
  BY DEF Destroy
<1> HIDE DEF g, o
<1>3. x.ch = NewChannel(FALSE) /\ x.procs = {} /\ x.out = g.out
  BY <1>1 DEF WorkOK
<1> HIDE DEF x
<1>4. QED
  BY <1>1, <1>2, <1>3, DestroyType DEF Adds

LEMMA BeginRequestDoes ==
  ASSUME NEW u \in WorkOK, NEW p \in Pid
  PROVE  /\ BeginRequest(u, p) \in WorkOK
         /\ BeginRequest(u, p).ch = Requesting(u.ch, p)
         /\ BeginRequest(u, p).procs = u.procs \cup {p}
         /\ Adds(BeginRequest(u, p), u, "REQUEST", p)
<1> DEFINE t == Track(u, p)
           c == Requesting(u.ch, p)
           w == [t EXCEPT !.ch = c]
<1>1. c \in Channel
  BY RequestingType DEF WorkOK
<1>2. t \in WorkOK /\ t.ch = u.ch /\ t.procs = u.procs \cup {p} /\ t.out = u.out
  BY TrackDoes
<1>3. BeginRequest(u, p) =
        Post([t EXCEPT !.ch.ready = TRUE, !.ch.pending = p,
                       !.ch.timer = [type |-> "REQUEST", pid |-> p],
                       !.ch.attempt = Begun(p)], "REQUEST", p)
  BY DEF BeginRequest
<1> HIDE DEF t
<1>4. [t EXCEPT !.ch.ready = TRUE, !.ch.pending = p,
                !.ch.timer = [type |-> "REQUEST", pid |-> p],
                !.ch.attempt = Begun(p)] = w
  BY <1>2 DEF Requesting
<1> HIDE DEF c
<1>5. w \in WorkOK /\ w.ch = c /\ w.procs = t.procs /\ w.out = t.out
  BY <1>1, <1>2, WriteDoes
<1> HIDE DEF w
<1>6. /\ Post(w, "REQUEST", p) \in WorkOK /\ Post(w, "REQUEST", p).ch = w.ch
      /\ Post(w, "REQUEST", p).procs = w.procs
      /\ Adds(Post(w, "REQUEST", p), w, "REQUEST", p)
  BY <1>5, PostDoes DEF ProcessFrame
<1>7. QED
  BY <1>2, <1>3, <1>4, <1>5, <1>6 DEF Adds, c

-----------------------------------------------------------------------------
(* What a handler does, piece by piece: each piece turns a move so far (w, *)
(* P1, O, M) into a move.                                                  *)

\* Before it has done anything.
LEMMA MoveStarts ==
  ASSUME NEW c, NEW P, NEW d, NEW Q, NEW in, NEW out, NEW past, NEW O,
         Roles(c), Routed(c, P, d, Q, in, out, past),
         \A k \in ProcessFrame : O[k] = {}
  PROVE  Moves(c, P, d, in, c, P, O, {})
<1>1. MovesChannel(c, P, in, c, P, {})
  BY DEF MovesChannel, Routed, Half, RequestKept, CloseKept, Roles
<1>2. MovesFrames(c, in, c, P, O, {})
  BY DEF MovesFrames, ProcessFrame
<1>3. AnswersKept(c, P, d)
  BY DEF Routed, Half
<1>4. QED
  BY <1>1, <1>2, <1>3 DEF Moves

\* It tells its subscribers, or picks up what it already answers.
LEMMA MoveTells ==
  ASSUME NEW c, NEW P, NEW d, NEW in, NEW w, NEW P1, NEW O, NEW M, NEW c2,
         Moves(c, P, d, in, w, P1, O, M),
         c2.pending = w.pending, c2.closing = w.closing, Answers(c2) \subseteq Answers(w)
  PROVE  Moves(c, P, d, in, c2, P1, O, M)
<1>1. MovesChannel(c, P, in, c2, P1, M)
  BY DEF Moves, MovesChannel
<1>2. MovesFrames(c, in, c2, P1, O, M)
  BY DEF Moves, MovesFrames
<1>3. AnswersKept(c2, P1, d)
  BY DEF Moves, AnswersKept
<1>4. QED
  BY <1>1, <1>2, <1>3 DEF Moves

\* It posts a frame.
LEMMA MovePosts ==
  ASSUME NEW c, NEW P, NEW d, NEW in, NEW w, NEW P1, NEW O, NEW M, NEW O2, NEW kind, NEW p,
         Moves(c, P, d, in, w, P1, O, M),
         \A k \in ProcessFrame : O2[k] \subseteq O[k] \cup (IF k = kind THEN {p} ELSE {}),
         \/ /\ kind = "REQUEST" /\ p = c.pending /\ p # null
            /\ w.pending = p /\ w.closing # p
         \/ /\ kind = "ACCEPT" /\ p \in Answers(c) \cup in["REQUEST"]
            /\ p \notin {w.pending, w.closing} \ {null}
         \/ kind = "OPEN" /\ p \in in["ACCEPT"] /\ p \notin {w.pending} \ {null}
         \/ kind = "DENY" /\ p \in in["REQUEST"]
         \/ /\ kind = "CANCEL" /\ p \in in["ACCEPT"]
            /\ p \notin {w.pending, w.closing} \ {null}
         \/ kind = "CANCEL_ACK" /\ p \in in["CANCEL"]
         \/ kind = "CLOSE_ACK" /\ p \in in["CLOSE"]
         \/ kind \in PlainFrame
  PROVE  Moves(c, P, d, in, w, P1, O2, M)
<1> USE DEF ProcessFrame
<1>1. MovesFrames(c, in, w, P1, O, M)
  BY DEF Moves
<1>2. ASSUME NEW k \in ProcessFrame, k # kind
      PROVE  O2[k] \subseteq O[k]
  BY <1>2
<1>3. \A q \in O2["REQUEST"] : /\ q \in M \cup ({c.pending} \ {null})
                               /\ q \in P1 => w.pending = q
                               /\ q # w.closing
  BY <1>1 DEF MovesFrames, PlainFrame
<1>4. O2["ACCEPT"] \subseteq (Answers(c) \cup in["REQUEST"])
                               \ ({w.pending, w.closing} \ {null})
  BY <1>1 DEF MovesFrames, PlainFrame
<1>5. O2["OPEN"] \subseteq in["ACCEPT"] \ ({w.pending} \ {null})
  BY <1>1 DEF MovesFrames, PlainFrame
<1>6. O2["DENY"] \subseteq in["REQUEST"]
  BY <1>1 DEF MovesFrames, PlainFrame
<1>7. O2["CANCEL"] \subseteq (M \cup in["ACCEPT"]) \ ({w.pending, w.closing} \ {null})
  BY <1>1 DEF MovesFrames, PlainFrame
<1>8. O2["CANCEL_ACK"] \subseteq in["CANCEL"] /\ O2["CLOSE_ACK"] \subseteq in["CLOSE"]
  BY <1>1 DEF MovesFrames, PlainFrame
<1>9. O2["CLOSE"] \subseteq M \cap ({w.closing} \ {null})
  BY <1>1, <1>2 DEF MovesFrames, PlainFrame
<1>10. MovesFrames(c, in, w, P1, O2, M)
  BY <1>3, <1>4, <1>5, <1>6, <1>7, <1>8, <1>9 DEF MovesFrames
<1>11. QED
  BY <1>10 DEF Moves

\* It forgets a process that neither a request, a close nor an answer needs.
LEMMA MoveForgets ==
  ASSUME NEW c, NEW P, NEW d, NEW in, NEW w, NEW P1, NEW O, NEW M, NEW p,
         Moves(c, P, d, in, w, P1, O, M),
         p \notin {w.pending, w.closing} \ {null},
         p \notin Answers(w) \/ d.pending # p
  PROVE  Moves(c, P, d, in, w, P1 \ {p}, O, M)
<1>1. MovesChannel(c, P, in, w, P1 \ {p}, M)
  BY DEF Moves, MovesChannel
<1>2. MovesFrames(c, in, w, P1 \ {p}, O, M)
  BY DEF Moves, MovesFrames
<1>3. AnswersKept(w, P1 \ {p}, d)
  BY DEF Moves, AnswersKept
<1>4. QED
  BY <1>1, <1>2, <1>3 DEF Moves

\* Whatever was in progress ends, and the request's process is forgotten.
LEMMA MoveEnds ==
  ASSUME NEW c, NEW P, NEW d, NEW in, NEW w, NEW P1, NEW O, NEW c2, NEW P2,
         Moves(c, P, d, in, w, P1, O, {}),
         c2.pending = null, c2.closing = null, Answers(c2) = {},
         P2 \subseteq P1, w.pending = null \/ w.pending \notin P2
  PROVE  Moves(c, P, d, in, c2, P2, O, {})
<1>1. MovesChannel(c, P, in, c2, P2, {})
  BY DEF Moves, MovesChannel
<1>2. \A q \in O["REQUEST"] : /\ q \in {} \cup ({c.pending} \ {null})
                              /\ q \in P2 => c2.pending = q
                              /\ q # c2.closing
  BY DEF Moves, MovesFrames
<1>3. MovesFrames(c, in, c2, P2, O, {})
  BY <1>2 DEF Moves, MovesFrames
<1>4. AnswersKept(c2, P2, d)
  BY DEF AnswersKept
<1>5. QED
  BY <1>1, <1>3, <1>4 DEF Moves

\* It asks for a session.
LEMMA MoveRequests ==
  ASSUME NEW c, NEW P, NEW d, NEW Q, NEW in, NEW out, NEW past,
         NEW w \in Channel, NEW P1, NEW O, NEW O2, NEW p \in Pid,
         Routed(c, P, d, Q, in, out, past), Moves(c, P, d, in, w, P1, O, {}),
         p \notin past, w.pending = null, w.closing = null,
         \A k \in ProcessFrame : O2[k] \subseteq O[k] \cup (IF k = "REQUEST" THEN {p} ELSE {})
  PROVE  Moves(c, P, d, in, Requesting(w, p), P1 \cup {p}, O2, {p})
<1> DEFINE c2 == Requesting(w, p)
<1> USE DEF ProcessFrame
<1>1. /\ c2.pending = p /\ c2.closing = null /\ Answers(c2) = Answers(w)
      /\ p # null
  BY NullIsNone DEF Requesting, Channel, Answers
<1> HIDE DEF c2
<1>2. p # c.pending /\ p # d.pending /\ \A k \in ProcessFrame : p \notin in[k]
  BY DEF Routed, Half, Minted
<1>3. p \notin Answers(c)
  BY DEF Routed, Half, Minted
<1>4. MovesChannel(c, P, in, c2, P1 \cup {p}, {p})
  BY <1>1, <1>2 DEF Moves, MovesChannel
<1>5. MovesFrames(c, in, c2, P1 \cup {p}, O2, {p})
  <2>1. \A q \in O2["REQUEST"] : /\ q \in {p} \cup ({c.pending} \ {null})
                                 /\ q \in P1 \cup {p} => c2.pending = q
                                 /\ q # c2.closing
    BY <1>1, <1>2 DEF Moves, MovesFrames
  <2>2. O2["ACCEPT"] \subseteq (Answers(c) \cup in["REQUEST"])
                                 \ ({c2.pending, c2.closing} \ {null})
    BY <1>1, <1>2, <1>3 DEF Moves, MovesFrames
  <2>3. /\ O2["OPEN"] \subseteq in["ACCEPT"] \ ({c2.pending} \ {null})
        /\ O2["CANCEL"] \subseteq ({p} \cup in["ACCEPT"]) \ ({c2.pending, c2.closing} \ {null})
    BY <1>1, <1>2 DEF Moves, MovesFrames
  <2>4. /\ O2["DENY"] \subseteq in["REQUEST"]
        /\ O2["CANCEL_ACK"] \subseteq in["CANCEL"]
        /\ O2["CLOSE_ACK"] \subseteq in["CLOSE"]
        /\ O2["CLOSE"] \subseteq {p} \cap ({c2.closing} \ {null})
    BY DEF Moves, MovesFrames
  <2>5. QED
    BY <2>1, <2>2, <2>3, <2>4 DEF MovesFrames
<1>6. AnswersKept(c2, P1 \cup {p}, d)
  BY <1>1 DEF Moves, AnswersKept
<1>7. QED
  BY <1>4, <1>5, <1>6 DEF Moves, c2

\* It gives the request in progress up.
LEMMA MoveAbandons ==
  ASSUME NEW c, NEW P, NEW d, NEW Q, NEW in, NEW out, NEW past,
         NEW w \in Channel, NEW P1, NEW O, NEW M,
         Routed(c, P, d, Q, in, out, past), Moves(c, P, d, in, w, P1, O, M),
         M \cap past = {}, w.pending # null
  PROVE  Moves(c, P, d, in, Abandoned(w), P1 \ {w.pending}, O, M)
<1> DEFINE c2 == Abandoned(w)
<1>1. /\ c2.pending = null /\ c2.closing = w.closing /\ Answers(c2) = Answers(w)
  BY DEF Abandoned, Channel, Answers
<1> HIDE DEF c2
<1>2. w.closing = null
  BY DEF Moves, MovesChannel
<1>3. w.pending # d.pending
  BY DEF Moves, MovesChannel, Routed, Half, RequestKept, Minted
<1>4. MovesChannel(c, P, in, c2, P1 \ {w.pending}, M)
  BY <1>1, <1>2 DEF Moves, MovesChannel
<1>5. MovesFrames(c, in, c2, P1 \ {w.pending}, O, M)
  <2>1. \A q \in O["REQUEST"] : /\ q \in M \cup ({c.pending} \ {null})
                                /\ q \in P1 \ {w.pending} => c2.pending = q
                                /\ q # c2.closing
    BY <1>1 DEF Moves, MovesFrames
  <2>2. QED
    BY <1>1, <1>2, <2>1 DEF Moves, MovesFrames
<1>6. AnswersKept(c2, P1 \ {w.pending}, d)
  BY <1>1, <1>3 DEF Moves, AnswersKept
<1>7. QED
  BY <1>4, <1>5, <1>6 DEF Moves, c2

\* It takes a request up: the process is tracked, to be answered now or later.
LEMMA MoveTakesUp ==
  ASSUME NEW c, NEW P, NEW d, NEW Q, NEW in, NEW out, NEW past,
         NEW w, NEW P1, NEW O, NEW M, NEW p \in in["REQUEST"], NEW c2,
         Routed(c, P, d, Q, in, out, past), Moves(c, P, d, in, w, P1, O, M),
         M \cap past = {}, w.pending = null, w.closing = null,
         c2.pending = null, c2.closing = null,
         Answers(c2) \subseteq Answers(w) \cup {p}
  PROVE  Moves(c, P, d, in, c2, P1 \cup {p}, O, M)
<1>1. p \notin M /\ (c.pending # null => p # c.pending)
  BY DEF Routed, Half, RequestKept, Minted, ProcessFrame
<1>2. null \notin M
  BY DEF Routed, Half, Minted
<1>3. MovesChannel(c, P, in, c2, P1 \cup {p}, M)
  BY <1>1 DEF Moves, MovesChannel
<1>4. \A q \in O["REQUEST"] : q \notin P1 \cup {p} /\ q # null
  BY <1>1, <1>2 DEF Moves, MovesFrames
<1>5. MovesFrames(c, in, c2, P1 \cup {p}, O, M)
  BY <1>4 DEF Moves, MovesFrames
<1>6. AnswersKept(c2, P1 \cup {p}, d)
  BY DEF Moves, AnswersKept
<1>7. QED
  BY <1>3, <1>5, <1>6 DEF Moves

\* It proposes a close.
LEMMA MoveProposes ==
  ASSUME NEW c \in Channel, NEW P, NEW d, NEW Q, NEW in, NEW out, NEW past,
         NEW O, NEW p \in Pid,
         Roles(c), Routed(c, P, d, Q, in, out, past), c.active, p \notin past,
         \A k \in ProcessFrame : O[k] \subseteq IF k = "CLOSE" THEN {p} ELSE {}
  PROVE  Moves(c, P, d, in, Proposed(c, p), P \cup {p}, O, {p})
<1> DEFINE c2 == Proposed(c, p)
<1> USE DEF ProcessFrame
<1>1. /\ c2.pending = null /\ c2.closing = p /\ Answers(c2) = Answers(c)
      /\ c.pending = null /\ p # null
  BY NullIsNone DEF Proposed, Channel, Answers, Roles
<1> HIDE DEF c2
<1>2. MovesChannel(c, P, in, c2, P \cup {p}, {p})
  BY <1>1 DEF MovesChannel
<1>3. MovesFrames(c, in, c2, P \cup {p}, O, {p})
  BY <1>1 DEF MovesFrames
<1>4. AnswersKept(c2, P \cup {p}, d)
  BY <1>1 DEF Routed, Half, AnswersKept
<1>5. QED
  BY <1>2, <1>3, <1>4 DEF Moves, c2

\* It cancels under a process of its own.
LEMMA MoveCancels ==
  ASSUME NEW c, NEW P, NEW d, NEW Q, NEW in, NEW out, NEW past,
         NEW w, NEW P1, NEW O, NEW O2, NEW p,
         Routed(c, P, d, Q, in, out, past), Moves(c, P, d, in, w, P1, O, {}),
         p \notin past,
         \A k \in ProcessFrame : O2[k] \subseteq O[k] \cup (IF k = "CANCEL" THEN {p} ELSE {})
  PROVE  Moves(c, P, d, in, w, P1 \cup {p}, O2, {p})
<1> USE DEF ProcessFrame
<1>1. p # null /\ p # c.pending /\ p # c.closing
  BY DEF Routed, Half, Minted
<1>2. MovesChannel(c, P, in, w, P1 \cup {p}, {p})
  BY <1>1 DEF Moves, MovesChannel
<1>3. p # w.pending /\ p # w.closing
  BY <1>1 DEF Moves, MovesChannel
<1>4. MovesFrames(c, in, w, P1 \cup {p}, O2, {p})
  BY <1>1, <1>3 DEF Moves, MovesFrames
<1>5. AnswersKept(w, P1 \cup {p}, d)
  BY DEF Moves, AnswersKept
<1>6. QED
  BY <1>2, <1>4, <1>5 DEF Moves

-----------------------------------------------------------------------------
(* The timer and the pinned origin of one channel.                         *)

\* The retry and the deadline that a channel should have armed.
Armed(c) ==
  c.timer = IF c.pending # null THEN [type |-> "REQUEST", pid |-> c.pending]
            ELSE IF c.awaiting # NoRequest THEN [type |-> "ACCEPT", pid |-> c.awaiting.pid]
            ELSE NoTimer

\* A request is scheduled or answered only from the origin that is pinned.
Pins(c) ==
  \A r \in {c.scheduled, c.awaiting} \ {NoRequest} : c.origin \in {null, OriginOf[r.from]}

Fit(c) == Armed(c) /\ Pins(c)

\* A pin is kept for as long as the broker knows the channel.
HoldsPin(c, c2) == c.origin # null /\ c2.registered => c2.origin = c.origin

LEMMA FitIsAboutHandshakes ==
  ASSUME NEW c, NEW d, Fit(c), SameHandshake(c, d)
  PROVE  Fit(d)
BY DEF Fit, Armed, Pins, SameHandshake

LEMMA AbandonedFits ==
  ASSUME NEW c \in Channel, Roles(c), Fit(c), c.pending # null
  PROVE  Fit(Abandoned(c)) /\ Abandoned(c).origin = c.origin
BY DEF Abandoned, Channel, Roles, Fit, Armed, Pins

LEMMA ClosedFits ==
  ASSUME NEW c \in Channel, Roles(c), Fit(c), c.active
  PROVE  /\ Fit(Closed(c)) /\ Closed(c).origin = c.origin
         /\ Closed(c).pending = null /\ Closed(c).closing = null
         /\ Answers(Closed(c)) = {} /\ Closed(c).awaiting = NoRequest
<1> DEFINE n == c.opens - 1
<1>1. Closed(c) = [c EXCEPT !.timer = NoTimer, !.active = FALSE, !.pending = null,
                            !.awaiting = NoRequest, !.closing = null, !.opens = n]
  BY DEF Closed
<1> HIDE DEF n
<1>2. /\ Closed(c).origin = c.origin /\ Closed(c).pending = null
      /\ Closed(c).closing = null /\ Closed(c).awaiting = NoRequest
      /\ Closed(c).timer = NoTimer /\ Closed(c).scheduled = c.scheduled
  BY <1>1 DEF Channel
<1>3. c.scheduled = NoRequest
  BY DEF Roles, Idle
<1>4. Answers(Closed(c)) = {}
  BY <1>2, <1>3 DEF Answers, NoRequest
<1>5. Fit(Closed(c))
  BY <1>2, <1>3 DEF Fit, Armed, Pins
<1>6. QED
  BY <1>2, <1>4, <1>5

LEMMA GivenFits ==
  ASSUME NEW c \in Channel, Roles(c), NEW r, r = NoRequest
  PROVE  /\ Fit(Given(c, r)) /\ Given(c, r).origin = c.origin
         /\ Given(c, r).pending = null /\ Given(c, r).closing = c.closing
         /\ Answers(Given(c, r)) = {}
BY DEF Given, Channel, Fit, Armed, Pins, Answers, NoRequest

LEMMA AnsweringFits ==
  ASSUME NEW c \in Channel, NEW r \in Request, c.pending = null,
         c.origin \in {null, OriginOf[r.from]}
  PROVE  /\ Fit(Answering(c, r)) /\ HoldsPin(c, Answering(c, r))
         /\ Answering(c, r).pending = null /\ Answering(c, r).closing = c.closing
         /\ Answers(Answering(c, r)) \subseteq {r.pid}
<1>1. /\ Answering(c, r).origin = OriginOf[r.from]
      /\ Answering(c, r).pending = null /\ Answering(c, r).closing = c.closing
      /\ Answering(c, r).scheduled = NoRequest /\ Answering(c, r).awaiting = r
      /\ Answering(c, r).timer = [type |-> "ACCEPT", pid |-> r.pid]
  BY DEF Answering, Channel
<1>2. r # NoRequest
  BY NullIsNone DEF Request, NoRequest
<1> HIDE DEF Answering
<1>3. Fit(Answering(c, r)) /\ HoldsPin(c, Answering(c, r))
  BY <1>1, <1>2 DEF Fit, Armed, Pins, HoldsPin
<1>4. Answers(Answering(c, r)) \subseteq {r.pid}
  BY <1>1 DEF Answers, NoRequest
<1>5. QED
  BY <1>1, <1>3, <1>4

LEMMA OpenedFits ==
  ASSUME NEW c \in Channel, NEW i \in Id, c.origin \in {null, OriginOf[i]}
  PROVE  /\ Fit(Opened(c, i)) /\ HoldsPin(c, Opened(c, i))
         /\ Opened(c, i).pending = null /\ Opened(c, i).closing = c.closing
         /\ Answers(Opened(c, i)) = {}
<1> DEFINE n == c.opens + 1
<1>1. Opened(c, i) = [c EXCEPT !.active = TRUE, !.origin = OriginOf[i], !.peerId = i,
                               !.scheduled = NoRequest, !.awaiting = NoRequest,
                               !.pending = null, !.timer = NoTimer, !.opens = n, !.closings = 0]
  BY DEF Opened
<1> HIDE DEF n
<1>2. /\ Opened(c, i).origin = OriginOf[i]
      /\ Opened(c, i).pending = null /\ Opened(c, i).closing = c.closing
      /\ Opened(c, i).scheduled = NoRequest /\ Opened(c, i).awaiting = NoRequest
      /\ Opened(c, i).timer = NoTimer
  BY <1>1 DEF Channel
<1>3. Fit(Opened(c, i)) /\ HoldsPin(c, Opened(c, i))
  BY <1>2 DEF Fit, Armed, Pins, HoldsPin
<1>4. Answers(Opened(c, i)) = {}
  BY <1>2 DEF Answers, NoRequest
<1>5. QED
  BY <1>2, <1>3, <1>4

LEMMA ProposedFits ==
  ASSUME NEW c \in Channel, NEW p \in Pid, Roles(c), Fit(c), c.active
  PROVE  Fit(Proposed(c, p)) /\ Proposed(c, p).origin = c.origin
<1> DEFINE n == c.closings + 1
<1>1. Proposed(c, p) = [c EXCEPT !.timer = NoTimer, !.closing = p, !.closings = n]
  BY DEF Proposed
<1> HIDE DEF n
<1>2. /\ Proposed(c, p).origin = c.origin /\ Proposed(c, p).pending = c.pending
      /\ Proposed(c, p).awaiting = c.awaiting /\ Proposed(c, p).scheduled = c.scheduled
      /\ Proposed(c, p).timer = NoTimer
  BY <1>1 DEF Channel
<1>3. c.pending = null /\ c.awaiting = NoRequest
  BY DEF Roles
<1>4. QED
  BY <1>2, <1>3 DEF Fit, Armed, Pins

LEMMA RequestingFits ==
  ASSUME NEW c \in Channel, NEW p \in Pid, Fit(c)
  PROVE  Fit(Requesting(c, p)) /\ Requesting(c, p).origin = c.origin
<1>1. /\ Requesting(c, p).origin = c.origin /\ Requesting(c, p).pending = p
      /\ Requesting(c, p).awaiting = c.awaiting /\ Requesting(c, p).scheduled = c.scheduled
      /\ Requesting(c, p).timer = [type |-> "REQUEST", pid |-> p]
  BY DEF Requesting, Channel
<1>2. QED
  BY <1>1, NullIsNone DEF Fit, Armed, Pins

\* A request that waits for connect().
Scheduled(c, r) == [c EXCEPT !.scheduled = r]

LEMMA ScheduledFits ==
  ASSUME NEW c \in Channel, NEW r \in Request, Fit(c), c.origin \in {null, OriginOf[r.from]}
  PROVE  /\ Fit(Scheduled(c, r)) /\ Scheduled(c, r).origin = c.origin
         /\ Scheduled(c, r).pending = c.pending /\ Scheduled(c, r).closing = c.closing
         /\ Answers(Scheduled(c, r)) \subseteq Answers(c) \cup {r.pid}
<1>1. /\ Scheduled(c, r).origin = c.origin /\ Scheduled(c, r).timer = c.timer
      /\ Scheduled(c, r).pending = c.pending /\ Scheduled(c, r).closing = c.closing
      /\ Scheduled(c, r).awaiting = c.awaiting /\ Scheduled(c, r).scheduled = r
  BY DEF Scheduled, Channel
<1>2. QED
  BY <1>1 DEF Fit, Armed, Pins, Answers

LEMMA FreshFits ==
  /\ Fit(NewChannel(FALSE)) /\ ~NewChannel(FALSE).registered
  /\ NewChannel(FALSE).pending = null /\ NewChannel(FALSE).closing = null
  /\ Answers(NewChannel(FALSE)) = {}
BY DEF NewChannel, Fit, Armed, Pins, Answers, NoRequest

-----------------------------------------------------------------------------
(* The invariant of both windows.                                          *)

\* The process ids minted, and null.
Past == 0 .. (nextPid - 1)

RoutedAt(s) ==
  Routed(chan[s], procs[s], chan[Other(s)], procs[Other(s)],
         Wire(net[s]), Wire(net[Other(s)]), Past)

Routing == \A s \in Side : Fit(chan[s]) /\ RoutedAt(s)

PinsHeld == \A s \in Side : HoldsPin(chan[s], chan'[s])

\* The work so far is a move of side s, and what remains to be shown of the
\* work a handler or a call commits.
MovedTo(s, w, M) ==
  Moves(chan[s], procs[s], chan[Other(s)], Wire(net[s]), w.ch, w.procs, Wire(w.out), M)

GoodMove(s, w, M) == MovedTo(s, w, M) /\ Fit(w.ch) /\ HoldsPin(chan[s], w.ch)

LEMMA OtherOther ==
  ASSUME NEW s \in Side
  PROVE  /\ Other(s) \in Side /\ Other(s) # s /\ Other(Other(s)) = s
         /\ \A t \in Side : t = s \/ t = Other(s)
<1>1. Other(s) \in Side /\ Other(s) # s
  BY OtherSide
<1>2. Other(Other(s)) \in Side /\ Other(Other(s)) # Other(s)
  BY <1>1, OtherSide
<1>3. QED
  BY <1>1, <1>2, SidesAssumption

LEMMA RoutedSymmetric ==
  ASSUME NEW c, NEW P, NEW d, NEW Q, NEW in, NEW out, NEW past,
         Routed(c, P, d, Q, in, out, past)
  PROVE  Routed(d, Q, c, P, out, in, past)
BY DEF Routed

\* The page a call or a handler starts from.
LEMMA MoveContext ==
  ASSUME IInv, Routing, NEW s \in Side, Up(s)
  PROVE  /\ chan[s] \in Channel /\ Sound(chan[s]) /\ Roles(chan[s]) /\ Fit(chan[s])
         /\ RoutedAt(s)
         /\ Routed(chan[s], procs[s], chan[Other(s)], procs[Other(s)],
                   Wire(net[s]), Wire(net[Other(s)]), Past)
         /\ Work(s) \in WorkOK /\ Work(s).ch = chan[s] /\ Work(s).procs = procs[s]
         /\ \A k \in ProcessFrame : Wire(Work(s).out)[k] = {}
         /\ MovedTo(s, Work(s), {}) /\ GoodMove(s, Work(s), {})
<1>1. /\ Work(s) \in WorkOK /\ Work(s).ch = chan[s] /\ Sound(chan[s]) /\ chan[s] \in Channel
  BY WorkSound
<1>2. Work(s).procs = procs[s]
  BY WorkType DEF IInv
<1>3. \A k \in ProcessFrame : Wire(Work(s).out)[k] = {}
  BY WireEmpty DEF Work
<1>4. Roles(chan[s]) /\ Fit(chan[s]) /\ RoutedAt(s)
  BY <1>1 DEF Sound, Routing
<1>5. Moves(chan[s], procs[s], chan[Other(s)], Wire(net[s]),
            chan[s], procs[s], Wire(Work(s).out), {})
  BY <1>3, <1>4, MoveStarts DEF RoutedAt
<1>6. HoldsPin(chan[s], chan[s])
  BY DEF HoldsPin
<1>7. QED
  BY <1>1, <1>2, <1>3, <1>4, <1>5, <1>6 DEF GoodMove, MovedTo, RoutedAt

\* A good move of one side keeps the invariant, and every pin.
LEMMA SideRoutes ==
  ASSUME IInv, Routing, NEW s \in Side, NEW w, NEW M, GoodMove(s, w, M),
         chan' = [chan EXCEPT ![s] = w.ch], procs' = [procs EXCEPT ![s] = w.procs],
         Fewer(Wire(net'[s]), Wire(net[s])),
         Posted(Wire(net'[Other(s)]), Wire(net[Other(s)]), Wire(w.out)),
         \/ M = {} /\ nextPid' = nextPid
         \/ M = {nextPid} /\ Mint
  PROVE  Routing' /\ PinsHeld
<1> DEFINE t == Other(s)
<1>1. /\ t \in Side /\ t # s /\ Other(t) = s /\ \A x \in Side : x = s \/ x = t
  BY OtherOther
<1>2. /\ chan \in [Side -> Channel] /\ procs \in [Side -> SUBSET Pid]
      /\ nextPid \in 1 .. (MaxPid + 1)
  BY DEF IInv, TypeOK
<1>3. Posted(Wire(net'[t]), Wire(net[t]), Wire(w.out))
  OBVIOUS
<1>4. Routed(chan[s], procs[s], chan[t], procs[t], Wire(net[s]), Wire(net[t]), Past)
  BY DEF Routing, RoutedAt
<1>5. Moves(chan[s], procs[s], chan[t], Wire(net[s]), w.ch, w.procs, Wire(w.out), M)
  BY DEF GoodMove, MovedTo
<1> HIDE DEF t
<1>6. /\ chan'[s] = w.ch /\ chan'[t] = chan[t]
      /\ procs'[s] = w.procs /\ procs'[t] = procs[t]
  BY <1>1, <1>2
<1>7. Fresh(Past, Past', M)
  <2>1. CASE M = {} /\ nextPid' = nextPid
    BY <2>1 DEF Fresh, Past
  <2>2. CASE M = {nextPid} /\ Mint
    BY <1>2, <2>2, BoundsAssumption DEF Fresh, Past, Mint
  <2>3. QED
    BY <2>1, <2>2
<1>8. null \notin procs[s]
  BY <1>2, NullIsNone
<1>9. Routed(w.ch, w.procs, chan[t], procs[t], Wire(net'[s]), Wire(net'[t]), Past')
  BY <1>3, <1>4, <1>5, <1>7, <1>8, MoveKeepsRouted
<1>10. RoutedAt(s)'
  BY <1>6, <1>9 DEF RoutedAt, t
<1>11. RoutedAt(t)'
  <2>1. Routed(chan[t], procs[t], w.ch, w.procs, Wire(net'[t]), Wire(net'[s]), Past')
    BY <1>9, RoutedSymmetric
  <2>2. QED
    BY <1>1, <1>6, <2>1 DEF RoutedAt
<1>12. Fit(chan'[s]) /\ Fit(chan'[t])
  BY <1>1, <1>6 DEF Routing, GoodMove
<1>13. HoldsPin(chan[s], chan'[s]) /\ HoldsPin(chan[t], chan'[t])
  BY <1>6 DEF GoodMove, HoldsPin
<1>14. Routing'
  BY <1>1, <1>10, <1>11, <1>12 DEF Routing
<1>15. PinsHeld
  BY <1>1, <1>13 DEF PinsHeld
<1>16. QED
  BY <1>14, <1>15

\* So does committing one.
LEMMA CommitRoutes ==
  ASSUME IInv, Routing, NEW s \in Side, NEW w \in WorkOK,
         NEW rest \in Seq(Frame), Fewer(Wire(rest), Wire(net[s])),
         Commit(s, w, rest), NEW M, GoodMove(s, w, M),
         \/ M = {} /\ nextPid' = nextPid
         \/ M = {nextPid} /\ Mint
  PROVE  Routing' /\ PinsHeld
<1>1. /\ Other(s) \in Side /\ Other(s) # s
      /\ net \in [Side -> Seq(Frame)] /\ w.out \in Seq(Frame)
  BY OtherSide DEF IInv, TypeOK, WorkOK
<1>2. net'[s] = rest /\ net'[Other(s)] = net[Other(s)] \o w.out
  BY <1>1 DEF Commit
<1>3. Posted(Wire(net'[Other(s)]), Wire(net[Other(s)]), Wire(w.out))
  BY <1>1, <1>2, WireConcat DEF Posted
<1>4. chan' = [chan EXCEPT ![s] = w.ch] /\ procs' = [procs EXCEPT ![s] = w.procs]
  BY DEF Commit
<1>5. QED
  BY <1>2, <1>3, <1>4, SideRoutes

\* A call or a timer leaves the frames in flight to its side alone.
LEMMA CallRoutes ==
  ASSUME IInv, Routing, NEW s \in Side, NEW w \in WorkOK,
         Commit(s, w, net[s]), NEW M, GoodMove(s, w, M),
         \/ M = {} /\ nextPid' = nextPid
         \/ M = {nextPid} /\ Mint
  PROVE  Routing' /\ PinsHeld
<1>1. net[s] \in Seq(Frame)
  BY DEF IInv, TypeOK
<1>2. Fewer(Wire(net[s]), Wire(net[s]))
  BY DEF Fewer
<1>3. QED
  BY <1>1, <1>2, CommitRoutes

\* A handler consumes the oldest.
LEMMA ArrivalRoutes ==
  ASSUME IInv, Routing, NEW s \in Side, net[s] # << >>, NEW w \in WorkOK,
         Commit(s, w, Tail(net[s])), NEW M, GoodMove(s, w, M),
         \/ M = {} /\ nextPid' = nextPid
         \/ M = {nextPid} /\ Mint
  PROVE  Routing' /\ PinsHeld
<1>1. net[s] \in Seq(Frame)
  BY DEF IInv, TypeOK
<1>2. Tail(net[s]) \in Seq(Frame)
  BY <1>1
<1>3. Fewer(Wire(Tail(net[s])), Wire(net[s]))
  BY <1>1, WireTail DEF Fewer
<1>4. QED
  BY <1>2, <1>3, CommitRoutes

\* The frame that arrives, and the page it arrives at.
LEMMA ArrivalContext ==
  ASSUME IInv, Routing, NEW s \in Side, NEW type \in ProcessFrame, Arriving(s, type)
  PROVE  /\ Up(s) /\ net[s] # << >>
         /\ Head(net[s]).pid \in Pid /\ Head(net[s]).from \in Id
         /\ Head(net[s]).pid \in Wire(net[s])[type]
<1>1. Up(s) /\ net[s] # << >> /\ Head(net[s]).pid \in Pid /\ Head(net[s]).from \in Id
  BY HandlerStarts DEF Arriving
<1>2. net[s] \in Seq(Frame) /\ Head(net[s]).type = type
  BY DEF IInv, TypeOK, Arriving
<1>3. QED
  BY <1>1, <1>2, WireTail

-----------------------------------------------------------------------------
(* Moves of a page's work.                                                 *)

LEMMA TellMoves ==
  ASSUME NEW s, NEW w, NEW v, NEW M, MovedTo(s, w, M),
         SameHandshake(w.ch, v.ch), v.procs = w.procs, v.out = w.out
  PROVE  MovedTo(s, v, M)
<1>1. /\ v.ch.pending = w.ch.pending /\ v.ch.closing = w.ch.closing
      /\ Answers(v.ch) \subseteq Answers(w.ch)
  BY DEF SameHandshake, Answers
<1>2. QED
  BY <1>1, MoveTells DEF MovedTo

LEMMA PostMoves ==
  ASSUME NEW s, NEW w, NEW v, NEW M, NEW kind, NEW p, MovedTo(s, w, M),
         v.ch = w.ch, v.procs = w.procs, Adds(v, w, kind, p),
         \/ /\ kind = "REQUEST" /\ p = chan[s].pending /\ p # null
            /\ w.ch.pending = p /\ w.ch.closing # p
         \/ /\ kind = "ACCEPT" /\ p \in Answers(chan[s]) \cup Wire(net[s])["REQUEST"]
            /\ p \notin {w.ch.pending, w.ch.closing} \ {null}
         \/ /\ kind = "OPEN" /\ p \in Wire(net[s])["ACCEPT"]
            /\ p \notin {w.ch.pending} \ {null}
         \/ kind = "DENY" /\ p \in Wire(net[s])["REQUEST"]
         \/ /\ kind = "CANCEL" /\ p \in Wire(net[s])["ACCEPT"]
            /\ p \notin {w.ch.pending, w.ch.closing} \ {null}
         \/ kind = "CANCEL_ACK" /\ p \in Wire(net[s])["CANCEL"]
         \/ kind = "CLOSE_ACK" /\ p \in Wire(net[s])["CLOSE"]
         \/ kind \in PlainFrame
  PROVE  MovedTo(s, v, M)
<1> DEFINE c == chan[s]
           P == procs[s]
           d == chan[Other(s)]
           in == Wire(net[s])
           O == Wire(w.out)
           O2 == Wire(v.out)
<1>1. Moves(c, P, d, in, w.ch, w.procs, O, M)
  BY DEF MovedTo
<1>2. \A k \in ProcessFrame : O2[k] \subseteq O[k] \cup (IF k = kind THEN {p} ELSE {})
  BY DEF Adds
<1>3. \/ /\ kind = "REQUEST" /\ p = c.pending /\ p # null
         /\ w.ch.pending = p /\ w.ch.closing # p
      \/ /\ kind = "ACCEPT" /\ p \in Answers(c) \cup in["REQUEST"]
         /\ p \notin {w.ch.pending, w.ch.closing} \ {null}
      \/ kind = "OPEN" /\ p \in in["ACCEPT"] /\ p \notin {w.ch.pending} \ {null}
      \/ kind = "DENY" /\ p \in in["REQUEST"]
      \/ /\ kind = "CANCEL" /\ p \in in["ACCEPT"]
         /\ p \notin {w.ch.pending, w.ch.closing} \ {null}
      \/ kind = "CANCEL_ACK" /\ p \in in["CANCEL"]
      \/ kind = "CLOSE_ACK" /\ p \in in["CLOSE"]
      \/ kind \in PlainFrame
  OBVIOUS
<1> HIDE DEF c, P, d, in, O, O2
<1>4. Moves(c, P, d, in, w.ch, w.procs, O2, M)
  BY <1>1, <1>2, <1>3, MovePosts
<1>5. QED
  BY <1>4 DEF MovedTo, c, P, d, in, O2

LEMMA ForgetMoves ==
  ASSUME NEW s, NEW w, NEW v, NEW M, NEW p, MovedTo(s, w, M),
         v.ch = w.ch, v.procs = w.procs \ {p}, v.out = w.out,
         p \notin {w.ch.pending, w.ch.closing} \ {null},
         p \notin Answers(w.ch) \/ chan[Other(s)].pending # p
  PROVE  MovedTo(s, v, M)
BY MoveForgets DEF MovedTo

LEMMA EndMoves ==
  ASSUME NEW s, NEW w, NEW v, MovedTo(s, w, {}), v.out = w.out,
         v.ch.pending = null, v.ch.closing = null, Answers(v.ch) = {},
         v.procs \subseteq w.procs, w.ch.pending = null \/ w.ch.pending \notin v.procs
  PROVE  MovedTo(s, v, {})
BY MoveEnds DEF MovedTo

\* The session ends.
LEMMA CloseMoves ==
  ASSUME NEW s, NEW w \in WorkOK, MovedTo(s, w, {}), Fit(w.ch),
         w.ch.origin = chan[s].origin, Roles(w.ch), OneClose(w.ch), w.ch.active
  PROVE  LET v == FinalizeClose(w)
         IN  /\ v \in WorkOK /\ MovedTo(s, v, {}) /\ Fit(v.ch)
             /\ v.ch.origin = chan[s].origin
             /\ v.ch.pending = null /\ v.ch.closing = null /\ Answers(v.ch) = {}
<1> DEFINE v == FinalizeClose(w)
<1>1. /\ v \in WorkOK /\ v.ch = Closed(w.ch)
      /\ v.procs = w.procs \ {w.ch.closing} /\ v.out = w.out
  BY FinalizeCloseDoes
<1> HIDE DEF v
<1>2. w.ch \in Channel /\ w.ch.pending = null
  BY DEF WorkOK, Roles
<1>3. /\ Fit(v.ch) /\ v.ch.origin = w.ch.origin
      /\ v.ch.pending = null /\ v.ch.closing = null /\ Answers(v.ch) = {}
  BY <1>1, <1>2, ClosedFits
<1>4. MovedTo(s, v, {})
  BY <1>1, <1>2, <1>3, EndMoves
<1>5. QED
  BY <1>1, <1>3, <1>4 DEF v

\* An attempt ends.
LEMMA AbortMoves ==
  ASSUME NEW s, NEW w \in WorkOK, MovedTo(s, w, {}), Sound(w.ch),
         w.ch.origin = chan[s].origin, ~w.ch.active
  PROVE  LET v == AbortAttempt(w)
         IN  /\ v \in WorkOK /\ MovedTo(s, v, {}) /\ Fit(v.ch)
             /\ v.ch.origin = chan[s].origin
             /\ v.ch.pending = null /\ v.ch.closing = null /\ Answers(v.ch) = {}
<1> DEFINE v == AbortAttempt(w)
           g == Given(w.ch, NoRequest)
<1>1. /\ v \in WorkOK /\ SameHandshake(g, v.ch)
      /\ v.procs = w.procs \ {w.ch.pending} /\ v.out = w.out
  BY AbortAttemptDoes
<1> HIDE DEF v
<1>2. w.ch \in Channel /\ Roles(w.ch) /\ w.ch.closing = null
  BY DEF WorkOK, Sound, Roles
<1>3. /\ Fit(g) /\ g.origin = w.ch.origin
      /\ g.pending = null /\ g.closing = null /\ Answers(g) = {}
  BY <1>2, GivenFits
<1> HIDE DEF g
<1>4. /\ Fit(v.ch) /\ v.ch.origin = w.ch.origin
      /\ v.ch.pending = null /\ v.ch.closing = null /\ Answers(v.ch) = {}
  BY <1>1, <1>3, FitIsAboutHandshakes DEF SameHandshake, Answers
<1>5. MovedTo(s, v, {})
  BY <1>1, <1>4, EndMoves
<1>6. QED
  BY <1>1, <1>4, <1>5 DEF v

\* A frame of a process that is neither requested nor refused nor accepted is
\* about no request in progress on either side, nor about a close of its own.
LEMMA StrayPid ==
  ASSUME NEW c, NEW P, NEW d, NEW Q, NEW in, NEW out, NEW past,
         Routed(c, P, d, Q, in, out, past),
         NEW k \in {"OPEN", "CANCEL", "CANCEL_ACK", "CLOSE"}, NEW p \in in[k], p # null
  PROVE  p # c.pending /\ p # c.closing /\ p # d.pending
<1>1. p # c.pending
  BY DEF Routed, Half, RequestKept, ProcessFrame
<1>2. p # c.closing
  BY DEF Routed, Half, CloseKept, ProcessFrame
<1>3. p # d.pending
  BY DEF Routed, Half, RequestKept, ProcessFrame
<1>4. QED
  BY <1>1, <1>2, <1>3

-----------------------------------------------------------------------------
(* The page's own calls and its timers.                                    *)

\* An id that was never minted.
LEMMA MintIsFresh ==
  ASSUME IInv, Mint
  PROVE  nextPid \in Pid /\ nextPid \notin Past /\ {nextPid} \cap Past = {}
BY DEF IInv, TypeOK, Mint, Past, Pid

LEMMA BootRoutes ==
  ASSUME IInv, Routing, NEW s \in Side, Boot(s)
  PROVE  Routing' /\ PinsHeld
<1>1. UNCHANGED <<chan, procs, net, nextPid>>
  BY DEF Boot, page
<1>2. Routing'
  BY <1>1 DEF Routing, RoutedAt, Past
<1>3. PinsHeld
  BY <1>1 DEF PinsHeld, HoldsPin
<1>4. QED
  BY <1>2, <1>3

LEMMA UnloadRoutes ==
  ASSUME IInv, Routing, NEW s \in Side, Unload(s)
  PROVE  Routing' /\ PinsHeld
<1> DEFINE w == [ch |-> NewChannel(FALSE), procs |-> {}, out |-> Work(s).out]
<1>1. /\ Up(s)
      /\ chan' = [chan EXCEPT ![s] = NewChannel(FALSE)]
      /\ procs' = [procs EXCEPT ![s] = {}]
      /\ net' = [net EXCEPT ![s] = << >>]
      /\ nextPid' = nextPid
  BY DEF Unload
<1>2. /\ Other(s) \in Side /\ Other(s) # s /\ net \in [Side -> Seq(Frame)]
  BY OtherSide DEF IInv, TypeOK
<1>3. MovedTo(s, Work(s), {})
  BY <1>1, MoveContext
<1>4. w.ch = NewChannel(FALSE) /\ w.procs = {} /\ w.out = Work(s).out
  OBVIOUS
<1> HIDE DEF w
<1>5. MovedTo(s, w, {})
  BY <1>3, <1>4, EndMoves, FreshFits
<1>6. GoodMove(s, w, {})
  BY <1>4, <1>5, FreshFits DEF GoodMove, HoldsPin
<1>7. Fewer(Wire(net'[s]), Wire(net[s]))
  BY <1>1, <1>2, WireEmpty DEF Fewer
<1>8. Posted(Wire(net'[Other(s)]), Wire(net[Other(s)]), Wire(w.out))
  BY <1>1, <1>2 DEF Posted
<1>9. QED
  BY <1>1, <1>4, <1>6, <1>7, <1>8, SideRoutes

LEMMA AddChannelRoutes ==
  ASSUME IInv, Routing, NEW s \in Side, AddChannel(s)
  PROVE  Routing' /\ PinsHeld
<1> DEFINE c == [chan[s] EXCEPT !.registered = TRUE]
           w == [ch |-> c, procs |-> procs[s], out |-> Work(s).out]
<1>1. Up(s) /\ UNCHANGED <<procs, net, nextPid>>
  BY DEF AddChannel
<1>2. /\ MovedTo(s, Work(s), {}) /\ Work(s).ch = chan[s] /\ Work(s).procs = procs[s]
      /\ chan[s] \in Channel /\ Fit(chan[s])
  BY <1>1, MoveContext
<1>3. /\ chan' = [chan EXCEPT ![s] = c]
      /\ procs' = [procs EXCEPT ![s] = procs[s]]
  BY <1>1 DEF AddChannel, IInv, TypeOK
<1>4. /\ c.origin = chan[s].origin /\ c.timer = chan[s].timer
      /\ c.pending = chan[s].pending /\ c.closing = chan[s].closing
      /\ c.awaiting = chan[s].awaiting /\ c.scheduled = chan[s].scheduled
  BY <1>2 DEF Channel
<1> HIDE DEF c
<1>5. w.ch = c /\ w.procs = procs[s] /\ w.out = Work(s).out
  OBVIOUS
<1> HIDE DEF w
<1>6. Answers(w.ch) = Answers(chan[s])
  BY <1>4, <1>5 DEF Answers
<1>7. MovedTo(s, w, {})
  BY <1>2, <1>4, <1>5, <1>6, MoveTells DEF MovedTo
<1>8. Fit(w.ch) /\ HoldsPin(chan[s], w.ch)
  BY <1>2, <1>4, <1>5 DEF Fit, Armed, Pins, HoldsPin
<1>9. /\ Fewer(Wire(net'[s]), Wire(net[s]))
      /\ Posted(Wire(net'[Other(s)]), Wire(net[Other(s)]), Wire(w.out))
  BY <1>1 DEF Fewer, Posted
<1>10. QED
  BY <1>1, <1>3, <1>5, <1>7, <1>8, <1>9, SideRoutes DEF GoodMove

\* A request of a page in which nothing is in progress.
LEMMA RequestMoves ==
  ASSUME IInv, Routing, NEW s \in Side, Up(s), Mint,
         NEW w \in WorkOK, MovedTo(s, w, {}), Fit(w.ch), w.ch.origin = chan[s].origin,
         w.ch.pending = null, w.ch.closing = null
  PROVE  LET v == BeginRequest(w, nextPid)
         IN  /\ v \in WorkOK /\ MovedTo(s, v, {nextPid}) /\ Fit(v.ch)
             /\ v.ch.origin = chan[s].origin
<1> DEFINE v == BeginRequest(w, nextPid)
           c == chan[s]
           P == procs[s]
           d == chan[Other(s)]
           in == Wire(net[s])
           O == Wire(w.out)
           O2 == Wire(v.out)
<1>1. nextPid \in Pid /\ nextPid \notin Past
  BY MintIsFresh
<1>2. /\ v \in WorkOK /\ v.ch = Requesting(w.ch, nextPid)
      /\ v.procs = w.procs \cup {nextPid} /\ Adds(v, w, "REQUEST", nextPid)
  BY <1>1, BeginRequestDoes
<1>3. w.ch \in Channel
  BY DEF WorkOK
<1>4. /\ Routed(c, P, d, procs[Other(s)], in, Wire(net[Other(s)]), Past)
      /\ Moves(c, P, d, in, w.ch, w.procs, O, {})
  BY MoveContext DEF MovedTo
<1> HIDE DEF v
<1>5. \A k \in ProcessFrame :
        O2[k] \subseteq O[k] \cup (IF k = "REQUEST" THEN {nextPid} ELSE {})
  BY <1>2 DEF Adds
<1> HIDE DEF c, P, d, in, O, O2
<1>6. Moves(c, P, d, in, Requesting(w.ch, nextPid), w.procs \cup {nextPid}, O2, {nextPid})
  BY <1>1, <1>3, <1>4, <1>5, MoveRequests
<1>7. MovedTo(s, v, {nextPid})
  BY <1>2, <1>6 DEF MovedTo, c, P, d, in, O2
<1>8. Fit(v.ch) /\ v.ch.origin = w.ch.origin
  BY <1>1, <1>2, <1>3, RequestingFits
<1>9. QED
  BY <1>2, <1>7, <1>8 DEF v

LEMMA ConnectRequestRoutes ==
  ASSUME IInv, Routing, NEW s \in Side, ConnectRequest(s)
  PROVE  Routing' /\ PinsHeld
<1> DEFINE v == BeginRequest(Work(s), nextPid)
<1>1. /\ Up(s) /\ Idle(chan[s]) /\ Mint /\ Commit(s, v, net[s])
  BY DEF ConnectRequest
<1>2. /\ Work(s) \in WorkOK /\ Work(s).ch = chan[s] /\ MovedTo(s, Work(s), {})
      /\ Fit(chan[s]) /\ Roles(chan[s])
  BY <1>1, MoveContext
<1>3. chan[s].pending = null /\ chan[s].closing = null
  BY <1>1, <1>2 DEF Idle, Roles
<1>4. /\ v \in WorkOK /\ MovedTo(s, v, {nextPid}) /\ Fit(v.ch)
      /\ v.ch.origin = chan[s].origin
  BY <1>1, <1>2, <1>3, RequestMoves
<1> HIDE DEF v
<1>5. QED
  BY <1>1, <1>4, CallRoutes DEF GoodMove, HoldsPin

LEMMA ConnectAnswerRoutes ==
  ASSUME IInv, Routing, NEW s \in Side, ConnectAnswer(s)
  PROVE  Routing' /\ PinsHeld
<1> DEFINE r == chan[s].scheduled
           c == [chan[s] EXCEPT !.ready = TRUE]
           u == [Work(s) EXCEPT !.ch = c]
           v == BeginResponse(u, r)
           x == [u EXCEPT !.ch = Answering(c, r)]
<1>1. /\ Up(s) /\ Idle(chan[s]) /\ r # NoRequest
      /\ Commit(s, BeginResponse([Work(s) EXCEPT !.ch.ready = TRUE], r), net[s])
      /\ nextPid' = nextPid
  BY DEF ConnectAnswer
<1>2. /\ Work(s) \in WorkOK /\ Work(s).ch = chan[s] /\ MovedTo(s, Work(s), {})
      /\ Fit(chan[s]) /\ Roles(chan[s]) /\ chan[s] \in Channel
  BY <1>1, MoveContext
<1>3. [Work(s) EXCEPT !.ch.ready = TRUE] = u
  BY <1>2
<1>4. /\ r \in Request /\ r.pid \in Answers(chan[s]) /\ chan[s].origin \in {null, OriginOf[r.from]}
  <2>1. r \in Request
    BY <1>1, <1>2 DEF Channel
  <2>2. r.pid \in Answers(chan[s])
    BY <2>1, NullIsNone DEF Answers, Request
  <2>3. chan[s].origin \in {null, OriginOf[r.from]}
    BY <1>1, <1>2 DEF Fit, Pins
  <2>4. QED
    BY <2>1, <2>2, <2>3
<1>5. /\ c \in Channel /\ c.pending = null /\ c.closing = null /\ c.origin = chan[s].origin
      /\ c.registered = chan[s].registered
  BY <1>1, <1>2 DEF Channel, Idle, Roles
<1> HIDE DEF c, r
<1>6. /\ u \in WorkOK /\ u.ch = c /\ u.procs = Work(s).procs /\ u.out = Work(s).out
  BY <1>2, <1>5, WriteDoes
<1>7. /\ Fit(Answering(c, r)) /\ HoldsPin(c, Answering(c, r))
      /\ Answering(c, r).pending = null /\ Answering(c, r).closing = null
      /\ Answers(Answering(c, r)) \subseteq Answers(chan[s])
      /\ Answering(c, r) \in Channel
  BY <1>4, <1>5, AnsweringFits, AnsweringChannel
<1>8. x.ch = Answering(c, r) /\ x.procs = Work(s).procs /\ x.out = Work(s).out
  BY <1>6, <1>7, WriteDoes
<1>9. /\ v \in WorkOK /\ v.ch = Answering(c, r) /\ v.procs = u.procs
      /\ Adds(v, u, "ACCEPT", r.pid)
  BY <1>4, <1>6, BeginResponseDoes
<1> HIDE DEF u, v, x
<1>10. chan[s].pending = null /\ chan[s].closing = null
  BY <1>1, <1>2 DEF Idle, Roles
<1>11. MovedTo(s, x, {})
  BY <1>2, <1>7, <1>8, <1>10, MoveTells DEF MovedTo
<1>12. Adds(v, x, "ACCEPT", r.pid)
  BY <1>6, <1>8, <1>9 DEF Adds
<1>13. MovedTo(s, v, {})
  BY <1>4, <1>6, <1>7, <1>8, <1>9, <1>11, <1>12, PostMoves
<1>14. HoldsPin(chan[s], v.ch)
  BY <1>5, <1>7, <1>9 DEF HoldsPin
<1>15. QED
  BY <1>1, <1>3, <1>7, <1>9, <1>13, <1>14, CallRoutes DEF GoodMove, v

LEMMA DisconnectRoutes ==
  ASSUME IInv, Routing, NEW s \in Side, Disconnect(s)
  PROVE  Routing' /\ PinsHeld
<1> DEFINE v == ProposeClose(Work(s), nextPid)
           c == chan[s]
           P == procs[s]
           d == chan[Other(s)]
           in == Wire(net[s])
           O == Wire(v.out)
<1>1. /\ chan[s].active /\ chan[s].closing = null /\ Mint /\ Commit(s, v, net[s])
  BY DEF Disconnect
<1>2. Up(s)
  BY <1>1 DEF IInv, NoPageNoChannel, NewChannel
<1>3. /\ Work(s) \in WorkOK /\ Work(s).ch = chan[s] /\ Work(s).procs = procs[s]
      /\ \A k \in ProcessFrame : Wire(Work(s).out)[k] = {}
      /\ Fit(c) /\ Sound(c) /\ Roles(c) /\ c \in Channel
      /\ Routed(c, P, d, procs[Other(s)], in, Wire(net[Other(s)]), Past)
  BY <1>2, MoveContext
<1>4. nextPid \in Pid /\ nextPid \notin Past
  BY <1>1, MintIsFresh
<1>5. /\ v \in WorkOK /\ v.ch = Proposed(c, nextPid) /\ v.procs = P \cup {nextPid}
      /\ Adds(v, Work(s), "CLOSE", nextPid)
  BY <1>1, <1>3, <1>4, ProposeCloseDoes
<1> HIDE DEF v
<1>6. \A k \in ProcessFrame : O[k] \subseteq IF k = "CLOSE" THEN {nextPid} ELSE {}
  BY <1>3, <1>5 DEF Adds
<1>7. c.active
  BY <1>1
<1>8. Fit(Proposed(c, nextPid)) /\ Proposed(c, nextPid).origin = c.origin
  BY <1>3, <1>4, <1>7, ProposedFits
<1> HIDE DEF c, P, d, in, O
<1>9. Moves(c, P, d, in, Proposed(c, nextPid), P \cup {nextPid}, O, {nextPid})
  BY <1>3, <1>4, <1>6, <1>7, MoveProposes
<1>10. MovedTo(s, v, {nextPid})
  BY <1>5, <1>9 DEF MovedTo, c, P, d, in, O
<1>11. HoldsPin(chan[s], v.ch)
  BY <1>5, <1>8 DEF HoldsPin, c
<1>12. QED
  BY <1>1, <1>5, <1>8, <1>10, <1>11, CallRoutes DEF GoodMove

\* A session that ends on one side alone: disconnect(false), a close timeout.
LEMMA SilentCloseRoutes ==
  ASSUME IInv, Routing, NEW s \in Side, DisconnectSilently(s) \/ CloseTimeout(s)
  PROVE  Routing' /\ PinsHeld
<1> DEFINE v == FinalizeClose(Work(s))
<1>1. /\ chan[s].active \/ chan[s].closing # null
      /\ Commit(s, v, net[s]) /\ nextPid' = nextPid
  BY DEF DisconnectSilently, CloseTimeout
<1>2. Up(s)
  BY <1>1 DEF IInv, NoPageNoChannel, NewChannel
<1>3. /\ Work(s) \in WorkOK /\ Work(s).ch = chan[s] /\ MovedTo(s, Work(s), {})
      /\ Fit(chan[s]) /\ Roles(chan[s]) /\ OneClose(chan[s])
  BY <1>2, MoveContext DEF Sound
<1>4. chan[s].active
  BY <1>1, <1>3 DEF Roles
<1>5. /\ v \in WorkOK /\ MovedTo(s, v, {}) /\ Fit(v.ch) /\ v.ch.origin = chan[s].origin
  BY <1>3, <1>4, CloseMoves
<1> HIDE DEF v
<1>6. QED
  BY <1>1, <1>5, CallRoutes DEF GoodMove, HoldsPin

LEMMA CancelRoutes ==
  ASSUME IInv, Routing, NEW s \in Side, Cancel(s)
  PROVE  Routing' /\ PinsHeld
<1> DEFINE inProgress == ~Idle(chan[s]) \/ chan[s].scheduled # NoRequest
           w == IF inProgress THEN AbortAttempt(Work(s)) ELSE Work(s)
           t == Track(w, nextPid)
           v == Post(t, "CANCEL", nextPid)
<1>1. /\ chan[s].registered /\ ~chan[s].active
      /\ \/ Mint /\ Commit(s, v, net[s])
         \/ Commit(s, w, net[s]) /\ nextPid' = nextPid
  BY DEF Cancel
<1>2. Up(s)
  BY <1>1 DEF IInv, NoPageNoChannel, NewChannel
<1>3. /\ Work(s) \in WorkOK /\ Work(s).ch = chan[s] /\ MovedTo(s, Work(s), {})
      /\ Fit(chan[s]) /\ Sound(chan[s])
      /\ Routed(chan[s], procs[s], chan[Other(s)], procs[Other(s)],
                Wire(net[s]), Wire(net[Other(s)]), Past)
  BY <1>2, MoveContext
<1> HIDE DEF inProgress
<1>4. /\ w \in WorkOK /\ MovedTo(s, w, {}) /\ Fit(w.ch) /\ w.ch.origin = chan[s].origin
  <2>1. /\ AbortAttempt(Work(s)) \in WorkOK /\ MovedTo(s, AbortAttempt(Work(s)), {})
        /\ Fit(AbortAttempt(Work(s)).ch)
        /\ AbortAttempt(Work(s)).ch.origin = chan[s].origin
    BY <1>1, <1>3, AbortMoves
  <2>2. QED
    BY <1>3, <2>1
<1> HIDE DEF w
<1>5. CASE Mint /\ Commit(s, v, net[s])
  <2> DEFINE c == chan[s]
             P == procs[s]
             d == chan[Other(s)]
             in == Wire(net[s])
             O == Wire(w.out)
             O2 == Wire(v.out)
  <2>1. nextPid \in Pid /\ nextPid \notin Past
    BY <1>5, MintIsFresh
  <2>2. /\ t \in WorkOK /\ t.ch = w.ch /\ t.procs = w.procs \cup {nextPid} /\ t.out = w.out
    BY <1>4, <2>1, TrackDoes
  <2> HIDE DEF t
  <2>3. /\ v \in WorkOK /\ v.ch = t.ch /\ v.procs = t.procs /\ Adds(v, t, "CANCEL", nextPid)
    BY <2>1, <2>2, PostDoes DEF ProcessFrame
  <2> HIDE DEF v
  <2>4. \A k \in ProcessFrame :
          O2[k] \subseteq O[k] \cup (IF k = "CANCEL" THEN {nextPid} ELSE {})
    BY <2>2, <2>3 DEF Adds
  <2>5. Moves(c, P, d, in, w.ch, w.procs, O, {})
    BY <1>4 DEF MovedTo
  <2> HIDE DEF c, P, d, in, O, O2
  <2>6. Moves(c, P, d, in, w.ch, w.procs \cup {nextPid}, O2, {nextPid})
    BY <1>3, <2>1, <2>4, <2>5, MoveCancels DEF c, P, d, in
  <2>7. MovedTo(s, v, {nextPid})
    BY <2>2, <2>3, <2>6 DEF MovedTo, c, P, d, in, O2
  <2>8. GoodMove(s, v, {nextPid})
    BY <1>4, <2>2, <2>3, <2>7 DEF GoodMove, HoldsPin
  <2>9. QED
    BY <1>5, <2>3, <2>8, CallRoutes
<1>6. CASE Commit(s, w, net[s]) /\ nextPid' = nextPid
  BY <1>4, <1>6, CallRoutes DEF GoodMove, HoldsPin
<1>7. QED
  BY <1>1, <1>5, <1>6

LEMMA DestroyMoves ==
  ASSUME IInv, Routing, NEW s \in Side, Up(s), NEW notify \in BOOLEAN
  PROVE  /\ Destroy(Work(s), notify) \in WorkOK
         /\ GoodMove(s, Destroy(Work(s), notify), {})
<1> DEFINE v == Destroy(Work(s), notify)
           x == [ch |-> NewChannel(FALSE), procs |-> {}, out |-> Work(s).out]
<1>1. /\ Work(s) \in WorkOK /\ MovedTo(s, Work(s), {})
  BY MoveContext
<1>2. /\ v \in WorkOK /\ v.ch = NewChannel(FALSE) /\ v.procs = {}
      /\ Adds(v, Work(s), "DESTROY", null)
  BY <1>1, DestroyDoes
<1>3. x.ch = NewChannel(FALSE) /\ x.procs = {} /\ x.out = Work(s).out
  OBVIOUS
<1> HIDE DEF v, x
<1>4. MovedTo(s, x, {})
  BY <1>1, <1>3, EndMoves, FreshFits
<1>5. Adds(v, x, "DESTROY", null)
  BY <1>2, <1>3 DEF Adds
<1>6. MovedTo(s, v, {})
  BY <1>2, <1>3, <1>4, <1>5, PostMoves DEF PlainFrame
<1>7. QED
  BY <1>2, <1>6, FreshFits DEF GoodMove, HoldsPin, v

LEMMA DestroyCallRoutes ==
  ASSUME IInv, Routing, NEW s \in Side, DestroyCall(s)
  PROVE  Routing' /\ PinsHeld
<1>1. PICK notify \in Notify : Commit(s, Destroy(Work(s), notify), net[s])
  BY DEF DestroyCall
<1>2. notify \in BOOLEAN
  BY <1>1 DEF Notify
<1>3. chan[s].registered /\ nextPid' = nextPid
  BY DEF DestroyCall
<1>4. Up(s)
  BY <1>3 DEF IInv, NoPageNoChannel, NewChannel
<1>5. QED
  BY <1>1, <1>2, <1>3, <1>4, DestroyMoves, CallRoutes

LEMMA SendRoutes ==
  ASSUME IInv, Routing, NEW s \in Side, Send(s)
  PROVE  Routing' /\ PinsHeld
<1> DEFINE n == sent[s] + 1
           p == PostMessages(Work(s), <<n>>)
           c == [chan[s] EXCEPT !.queue = Append(@, n)]
           q == [Work(s) EXCEPT !.ch = c]
<1>1. chan[s].registered /\ sent' = [sent EXCEPT ![s] = n] /\ nextPid' = nextPid
  BY DEF Send
<1>2. Up(s)
  BY <1>1 DEF IInv, NoPageNoChannel, NewChannel
<1>3. /\ Work(s) \in WorkOK /\ Work(s).ch = chan[s] /\ MovedTo(s, Work(s), {})
      /\ Fit(chan[s]) /\ chan[s] \in Channel
  BY <1>2, MoveContext
<1>4. n \in Nat /\ sent'[s] = n
  BY <1>1 DEF IInv, TypeOK
<1>5. Commit(s, p, net[s]) \/ Commit(s, [Work(s) EXCEPT !.ch.queue = Append(@, n)], net[s])
  BY <1>4 DEF Send
<1>6. [Work(s) EXCEPT !.ch.queue = Append(@, n)] = q
  BY <1>3
<1> HIDE DEF n
<1>7. p \in WorkOK /\ GoodMove(s, p, {})
  <2>1. <<n>> \in Seq(Nat)
    BY <1>4
  <2>2. /\ p \in WorkOK /\ p.ch = Work(s).ch /\ p.procs = Work(s).procs
        /\ Adds(p, Work(s), "MESSAGE", null)
    BY <1>3, <2>1, PostMessagesDoes
  <2> HIDE DEF p
  <2>3. MovedTo(s, p, {})
    BY <1>3, <2>2, PostMoves DEF PlainFrame
  <2>4. QED
    BY <1>3, <2>2, <2>3 DEF GoodMove, HoldsPin
<1>8. q \in WorkOK /\ GoodMove(s, q, {})
  <2>1. Append(chan[s].queue, n) \in Seq(Nat)
    BY <1>3, <1>4 DEF Channel
  <2>2. c \in Channel
    BY <1>3, <2>1, QueueWrite
  <2>3. SameHandshake(chan[s], c)
    BY <1>3 DEF Channel, SameHandshake
  <2> HIDE DEF c
  <2>4. q \in WorkOK /\ q.ch = c /\ q.procs = Work(s).procs /\ q.out = Work(s).out
    BY <1>3, <2>2, WriteDoes
  <2> HIDE DEF q
  <2>5. MovedTo(s, q, {})
    BY <1>3, <2>3, <2>4, TellMoves
  <2>6. Fit(q.ch) /\ q.ch.origin = chan[s].origin
    BY <1>3, <2>3, <2>4, FitIsAboutHandshakes DEF SameHandshake
  <2>7. QED
    BY <2>4, <2>5, <2>6 DEF GoodMove, HoldsPin
<1> HIDE DEF p, q
<1>9. QED
  BY <1>1, <1>5, <1>6, <1>7, <1>8, CallRoutes

LEMMA RetryRoutes ==
  ASSUME IInv, Routing, NEW s \in Side, Retry(s)
  PROVE  Routing' /\ PinsHeld
<1> DEFINE t == chan[s].timer
           c == chan[s]
           v == Post(Work(s), t.type, t.pid)
<1>1. t # NoTimer /\ Commit(s, v, net[s]) /\ nextPid' = nextPid
  BY DEF Retry
<1>2. Up(s)
  BY <1>1 DEF IInv, NoPageNoChannel, NewChannel
<1>3. /\ Work(s) \in WorkOK /\ Work(s).ch = c /\ MovedTo(s, Work(s), {})
      /\ Fit(c) /\ Roles(c) /\ c \in Channel
  BY <1>2, MoveContext
<1>4. t.type \in ProcessFrame /\ t.pid \in Pid
  BY <1>1, <1>3 DEF Channel, Timer, ProcessFrame
<1>5. \/ /\ t.type = "REQUEST" /\ t.pid = c.pending /\ t.pid # null /\ c.closing # t.pid
      \/ /\ t.type = "ACCEPT" /\ t.pid \in Answers(c)
         /\ c.pending = null /\ c.closing = null
  <2>1. CASE c.pending # null
    <3>1. t = [type |-> "REQUEST", pid |-> c.pending]
      BY <1>3, <2>1 DEF Fit, Armed
    <3>2. c.closing = null
      BY <1>3, <2>1 DEF Roles
    <3>3. QED
      BY <2>1, <3>1, <3>2
  <2>2. CASE c.pending = null /\ c.awaiting # NoRequest
    <3>1. t = [type |-> "ACCEPT", pid |-> c.awaiting.pid]
      BY <1>3, <2>2 DEF Fit, Armed
    <3>2. c.closing = null
      BY <1>3, <2>2 DEF Roles
    <3>3. c.awaiting.pid \in Answers(c)
      BY <1>4, <3>1, NullIsNone DEF Answers
    <3>4. QED
      BY <2>2, <3>1, <3>2, <3>3
  <2>3. CASE c.pending = null /\ c.awaiting = NoRequest
    BY <1>1, <1>3, <2>3 DEF Fit, Armed
  <2>4. QED
    BY <2>1, <2>2, <2>3
<1> HIDE DEF t
<1>6. /\ v \in WorkOK /\ v.ch = Work(s).ch /\ v.procs = Work(s).procs
      /\ Adds(v, Work(s), t.type, t.pid)
  BY <1>3, <1>4, PostDoes
<1> HIDE DEF v
<1>7. MovedTo(s, v, {})
  BY <1>3, <1>5, <1>6, PostMoves
<1>8. QED
  BY <1>1, <1>3, <1>6, <1>7, CallRoutes DEF GoodMove, HoldsPin

LEMMA ExpireRoutes ==
  ASSUME IInv, Routing, NEW s \in Side, Expire(s)
  PROVE  Routing' /\ PinsHeld
<1> DEFINE c == chan[s]
           t == Untrack(ClearTimers(Work(s)), c.timer.pid)
           g == [t.ch EXCEPT !.pending = null, !.awaiting = NoRequest]
           u == [t EXCEPT !.ch = g]
           v == EndAttempt(u, "connect-timeout")
<1>1. /\ c.timer # NoTimer
      /\ Commit(s, EndAttempt([t EXCEPT !.ch.pending = null, !.ch.awaiting = NoRequest],
                              "connect-timeout"), net[s])
      /\ nextPid' = nextPid
  BY DEF Expire
<1>2. Up(s)
  BY <1>1 DEF IInv, NoPageNoChannel, NewChannel
<1>3. /\ Work(s) \in WorkOK /\ Work(s).ch = c /\ MovedTo(s, Work(s), {})
      /\ Fit(c) /\ Roles(c) /\ Sound(c) /\ c \in Channel
  BY <1>2, MoveContext
<1>4. /\ t \in WorkOK /\ t.ch = [c EXCEPT !.timer = NoTimer]
      /\ t.procs = Work(s).procs \ {c.timer.pid} /\ t.out = Work(s).out
  BY <1>3, StopDoes
<1>5. [t EXCEPT !.ch.pending = null, !.ch.awaiting = NoRequest] = u
  OBVIOUS
<1>6. /\ c.pending = null \/ c.awaiting = NoRequest
      /\ c.pending # null => c.timer.pid = c.pending
      /\ c.scheduled = NoRequest /\ c.closing = null
  BY <1>1, <1>3 DEF Fit, Armed, Roles, Idle
<1> HIDE DEF t
<1>7. g = Given(c, NoRequest)
  BY <1>3, <1>4, <1>6 DEF Given, Channel
<1>8. /\ Fit(g) /\ g.origin = c.origin
      /\ g.pending = null /\ g.closing = null /\ Answers(g) = {} /\ g \in Channel
  <2>1. Given(c, NoRequest) \in Channel
    BY <1>3, GivenType
  <2>2. /\ Fit(Given(c, NoRequest)) /\ Given(c, NoRequest).origin = c.origin
        /\ Given(c, NoRequest).pending = null /\ Given(c, NoRequest).closing = c.closing
        /\ Answers(Given(c, NoRequest)) = {}
    BY <1>3, GivenFits
  <2> HIDE DEF g
  <2>3. QED
    BY <1>6, <1>7, <2>1, <2>2
<1> HIDE DEF g
<1>9. u \in WorkOK /\ u.ch = g /\ u.procs = t.procs /\ u.out = t.out
  BY <1>4, <1>8, WriteDoes
<1> HIDE DEF u
<1>10. /\ v \in WorkOK /\ SameHandshake(u.ch, v.ch) /\ v.procs = u.procs /\ v.out = u.out
  BY <1>9, EndAttemptDoes DEF Outcome
<1> HIDE DEF v
<1>11. MovedTo(s, u, {})
  BY <1>3, <1>4, <1>6, <1>8, <1>9, EndMoves
<1>12. MovedTo(s, v, {})
  BY <1>10, <1>11, TellMoves
<1>13. Fit(v.ch) /\ v.ch.origin = c.origin
  BY <1>8, <1>9, <1>10, FitIsAboutHandshakes DEF SameHandshake
<1>14. QED
  BY <1>1, <1>5, <1>10, <1>12, <1>13, CallRoutes DEF GoodMove, HoldsPin, v

-----------------------------------------------------------------------------
(* The routing handlers.                                                   *)

\* What a handler of a REQUEST commits is a good move, if what it did before
\* it settles the glare is a move.
LEMMA RequestConsideredMoves ==
  ASSUME IInv, Routing, NEW s \in Side, Up(s),
         NEW f, f.pid \in Pid, f.from \in Id, f.pid \in Wire(net[s])["REQUEST"],
         chan[s].origin \in {null, OriginOf[f.from]},
         NEW M, M \cap Past = {},
         NEW w \in WorkOK, Sound(w.ch), ~w.ch.active, MovedTo(s, w, M), Fit(w.ch),
         w.ch.origin = chan[s].origin,
         RequestConsidered(s, f, w)
  PROVE  \E x \in WorkOK : GoodMove(s, x, M) /\ Commit(s, x, Tail(net[s]))
<1> DEFINE v == IF w.ch.pending # null THEN AbandonRequest(w) ELSE w
           r == [from |-> f.from, pid |-> f.pid]
           t == Track(v, f.pid)
           x == IF w.ch.scheduled.pid = f.pid THEN t ELSE Untrack(t, w.ch.scheduled.pid)
           y == [x EXCEPT !.ch = Scheduled(x.ch, r)]
           c == chan[s]
           P == procs[s]
           d == chan[Other(s)]
           in == Wire(net[s])
<1>1. r \in Request /\ r.pid = f.pid /\ r.from = f.from
  BY DEF Request
<1>2. \/ Commit(s, w, Tail(net[s]))
      \/ Commit(s, DenyOnce(Post(v, "DENY", f.pid), f.pid), Tail(net[s]))
      \/ v.ch.ready /\ Commit(s, BeginResponse(t, r), Tail(net[s]))
      \/ ~v.ch.ready /\ Commit(s, [x EXCEPT !.ch.scheduled = r], Tail(net[s]))
  BY DEF RequestConsidered, MayAnswer
<1>3. [x EXCEPT !.ch.scheduled = r] = y
  BY DEF Scheduled
<1>4. /\ Routed(c, P, d, procs[Other(s)], in, Wire(net[Other(s)]), Past)
      /\ Moves(c, P, d, in, w.ch, w.procs, Wire(w.out), M)
      /\ f.pid \in in["REQUEST"] /\ f.pid # null
      /\ w.ch \in Channel /\ Roles(w.ch)
  BY MoveContext, NullIsNone DEF MovedTo, WorkOK, Sound
<1>5. /\ v \in WorkOK /\ MovedTo(s, v, M) /\ Sound(v.ch) /\ Fit(v.ch)
      /\ v.ch.origin = c.origin /\ v.ch.pending = null /\ ~v.ch.active
  <2>1. CASE w.ch.pending # null
    <3>1. /\ v \in WorkOK /\ v.ch = Abandoned(w.ch) /\ v.out = w.out
          /\ v.procs = w.procs \ {w.ch.pending}
      BY <2>1, AbandonRequestDoes
    <3> HIDE DEF v, c, P, d, in
    <3>2. Moves(c, P, d, in, Abandoned(w.ch), w.procs \ {w.ch.pending}, Wire(w.out), M)
      BY <1>4, <2>1, MoveAbandons
    <3>3. MovedTo(s, v, M)
      BY <3>1, <3>2 DEF MovedTo, c, P, d, in
    <3>4. /\ Fit(Abandoned(w.ch)) /\ Abandoned(w.ch).origin = w.ch.origin
          /\ Sound(Abandoned(w.ch)) /\ Abandoned(w.ch).pending = null
          /\ Abandoned(w.ch).active = w.ch.active
      BY <1>4, <2>1, AbandonedFits, AbandonedType
    <3>5. QED
      BY <3>1, <3>3, <3>4 DEF c
  <2>2. CASE w.ch.pending = null
    BY <2>2
  <2>3. QED
    BY <2>1, <2>2
<1>6. v.ch \in Channel /\ v.ch.closing = null /\ v.ch.scheduled = w.ch.scheduled
  <2>1. v.ch \in Channel /\ v.ch.closing = null
    BY <1>5 DEF WorkOK, Sound, Roles
  <2>2. v.ch.scheduled = w.ch.scheduled
    BY <1>4, AbandonRequestDoes DEF Abandoned, Channel
  <2>3. QED
    BY <2>1, <2>2
<1>7. Moves(c, P, d, in, v.ch, v.procs, Wire(v.out), M)
  BY <1>5 DEF MovedTo
<1> HIDE DEF v
<1>8. /\ t \in WorkOK /\ t.ch = v.ch /\ t.procs = v.procs \cup {f.pid} /\ t.out = v.out
  BY <1>5, TrackDoes
<1> HIDE DEF t
<1>9. CASE Commit(s, w, Tail(net[s]))
  BY <1>9 DEF GoodMove, HoldsPin
<1>10. CASE Commit(s, DenyOnce(Post(v, "DENY", f.pid), f.pid), Tail(net[s]))
  <2> DEFINE a == Post(v, "DENY", f.pid)
             b == DenyOnce(a, f.pid)
  <2>1. /\ a \in WorkOK /\ a.ch = v.ch /\ a.procs = v.procs /\ Adds(a, v, "DENY", f.pid)
    BY <1>5, PostDoes DEF ProcessFrame
  <2> HIDE DEF a
  <2>2. MovedTo(s, a, M)
    BY <1>4, <1>5, <2>1, PostMoves
  <2>3. /\ b \in WorkOK /\ SameHandshake(a.ch, b.ch) /\ b.procs = a.procs /\ b.out = a.out
    BY <2>1, DenyOnceDoes
  <2> HIDE DEF b
  <2>4. MovedTo(s, b, M)
    BY <2>2, <2>3, TellMoves
  <2>5. Fit(b.ch) /\ b.ch.origin = c.origin
    BY <1>5, <2>1, <2>3, FitIsAboutHandshakes DEF SameHandshake
  <2>6. Commit(s, b, Tail(net[s]))
    BY <1>10 DEF a, b
  <2>7. QED
    BY <2>3, <2>4, <2>5, <2>6 DEF GoodMove, HoldsPin
<1>11. CASE v.ch.ready /\ Commit(s, BeginResponse(t, r), Tail(net[s]))
  <2> DEFINE b == BeginResponse(t, r)
             g == Answering(v.ch, r)
             u == [t EXCEPT !.ch = g]
  <2>1. /\ Fit(g) /\ HoldsPin(v.ch, g) /\ g.pending = null /\ g.closing = null
        /\ Answers(g) \subseteq {f.pid} /\ g \in Channel
    BY <1>1, <1>5, <1>6, AnsweringFits, AnsweringChannel
  <2>2. /\ b \in WorkOK /\ b.ch = g /\ b.procs = t.procs /\ Adds(b, t, "ACCEPT", f.pid)
    BY <1>1, <1>8, BeginResponseDoes
  <2> HIDE DEF b, g
  <2>3. u.ch = g /\ u.procs = t.procs /\ u.out = t.out
    BY <1>8, <2>1, WriteDoes
  <2> HIDE DEF u, c, P, d, in
  <2>4. Moves(c, P, d, in, g, v.procs \cup {f.pid}, Wire(v.out), M)
    BY <1>4, <1>5, <1>6, <1>7, <2>1, MoveTakesUp
  <2>5. MovedTo(s, u, M)
    BY <1>8, <2>3, <2>4 DEF MovedTo, c, P, d, in
  <2>6. Adds(b, u, "ACCEPT", f.pid)
    BY <2>2, <2>3 DEF Adds
  <2>7. MovedTo(s, b, M)
    BY <1>4, <2>1, <2>2, <2>3, <2>5, <2>6, PostMoves DEF in
  <2>8. GoodMove(s, b, M)
    BY <1>5, <2>1, <2>2, <2>7 DEF GoodMove, HoldsPin, c
  <2>9. Commit(s, b, Tail(net[s]))
    BY <1>11 DEF b
  <2>10. QED
    BY <2>2, <2>8, <2>9
<1>12. CASE ~v.ch.ready /\ Commit(s, [x EXCEPT !.ch.scheduled = r], Tail(net[s]))
  <2> DEFINE g == Scheduled(v.ch, r)
             u == [t EXCEPT !.ch = g]
             p == w.ch.scheduled.pid
  <2>1. /\ Fit(g) /\ g.origin = v.ch.origin /\ g.pending = null /\ g.closing = null
        /\ Answers(g) \subseteq Answers(v.ch) \cup {f.pid}
    BY <1>1, <1>5, <1>6, ScheduledFits
  <2>2. g \in Channel /\ Answers(g) \subseteq {f.pid}
    <3>1. v.ch.awaiting = NoRequest
      BY <1>5, <1>12 DEF Sound, Roles, Idle
    <3>2. g \in Channel /\ g.awaiting = NoRequest /\ g.scheduled = r
      BY <1>1, <1>6, <3>1 DEF Scheduled, Channel
    <3> HIDE DEF r, g
    <3>3. QED
      BY <1>1, <3>2 DEF Answers, NoRequest
  <2> HIDE DEF g
  <2>3. u \in WorkOK /\ u.ch = g /\ u.procs = t.procs /\ u.out = t.out
    BY <1>8, <2>2, WriteDoes
  <2> HIDE DEF u
  <2>4. Moves(c, P, d, in, g, v.procs \cup {f.pid}, Wire(v.out), M)
    <3> HIDE DEF c, P, d, in
    <3>1. QED
      BY <1>4, <1>5, <1>6, <1>7, <2>1, MoveTakesUp
  <2>5. MovedTo(s, u, M)
    BY <1>8, <2>3, <2>4 DEF MovedTo
  <2>6. /\ x \in WorkOK /\ x.ch = v.ch /\ x.out = t.out
        /\ x.procs = IF p = f.pid THEN t.procs ELSE t.procs \ {p}
    BY <1>8, UntrackDoes
  <2> HIDE DEF x
  <2>7. y \in WorkOK /\ y.ch = g /\ y.procs = x.procs /\ y.out = x.out
    BY <2>2, <2>6, WriteDoes DEF g
  <2> HIDE DEF y
  <2>8. MovedTo(s, y, M)
    <3>1. CASE p = f.pid
      BY <2>3, <2>5, <2>6, <2>7, <3>1 DEF MovedTo
    <3>2. CASE p # f.pid
      <4>1. y.procs = u.procs \ {p} /\ y.ch = u.ch /\ y.out = u.out
        BY <2>3, <2>6, <2>7, <3>2
      <4>2. p \notin Answers(u.ch) /\ u.ch.pending = null /\ u.ch.closing = null
        BY <2>1, <2>2, <2>3, <3>2
      <4> HIDE DEF p
      <4>3. QED
        BY <2>5, <4>1, <4>2, ForgetMoves
    <3>3. QED
      BY <3>1, <3>2
  <2>9. GoodMove(s, y, M)
    BY <1>5, <2>1, <2>7, <2>8 DEF GoodMove, HoldsPin
  <2>10. QED
    BY <1>3, <1>12, <2>7, <2>9
<1>13. QED
  BY <1>2, <1>9, <1>10, <1>11, <1>12

LEMMA HandleRequestRoutes ==
  ASSUME IInv, Routing, NEW s \in Side, HandleRequest(s)
  PROVE  Routing' /\ PinsHeld
<1> DEFINE f == Head(net[s])
           c == [chan[s] EXCEPT !.registered = TRUE]
           u == [Work(s) EXCEPT !.ch = c]
           w == FinalizeClose(u)
           b == BeginRequest(w, nextPid)
<1>1. Arriving(s, "REQUEST")
  BY DEF HandleRequest
<1>2. /\ Up(s) /\ net[s] # << >> /\ f.pid \in Pid /\ f.from \in Id
      /\ f.pid \in Wire(net[s])["REQUEST"]
  BY <1>1, ArrivalContext DEF ProcessFrame
<1>3. /\ Work(s) \in WorkOK /\ Work(s).ch = chan[s] /\ MovedTo(s, Work(s), {})
      /\ GoodMove(s, Work(s), {}) /\ Fit(chan[s]) /\ Sound(chan[s]) /\ chan[s] \in Channel
      /\ Routed(chan[s], procs[s], chan[Other(s)], procs[Other(s)],
                Wire(net[s]), Wire(net[Other(s)]), Past)
  BY <1>2, MoveContext
<1>4. [Work(s) EXCEPT !.ch.registered = TRUE] = u
  BY <1>3
<1>5. \/ Handle(s, Work(s)) \/ RequestReplayed(s, f)
      \/ /\ chan[s].origin \in {null, OriginOf[f.from]}
         /\ RequestConsidered(s, f, w) /\ nextPid' = nextPid
      \/ /\ chan[s].origin \in {null, OriginOf[f.from]}
         /\ chan[s].active /\ Mint /\ RequestConsidered(s, f, b)
  BY <1>4 DEF HandleRequest, PinAllows
<1>6. c \in Channel /\ Sound(c) /\ c.active = chan[s].active /\ c.origin = chan[s].origin
  BY <1>3, RegisteredType DEF Channel
<1>7. /\ Fit(c) /\ c.pending = chan[s].pending /\ c.closing = chan[s].closing
      /\ Answers(c) = Answers(chan[s])
  BY <1>3 DEF Channel, Fit, Armed, Pins, Answers
<1> HIDE DEF c
<1>8. u \in WorkOK /\ u.ch = c /\ u.procs = Work(s).procs /\ u.out = Work(s).out
  BY <1>3, <1>6, WriteDoes
<1> HIDE DEF u
<1>9. MovedTo(s, u, {})
  BY <1>3, <1>7, <1>8, MoveTells DEF MovedTo
<1>10. /\ w \in WorkOK /\ Sound(w.ch) /\ ~w.ch.active /\ MovedTo(s, w, {}) /\ Fit(w.ch)
       /\ w.ch.origin = chan[s].origin
  <2>1. w \in WorkOK /\ Sound(w.ch) /\ ~w.ch.active
    BY <1>6, <1>8, FinalizeCloseType DEF Sound
  <2>2. CASE u.ch.active
    BY <1>6, <1>7, <1>8, <1>9, <2>1, <2>2, CloseMoves DEF Sound
  <2>3. CASE ~u.ch.active
    BY <1>6, <1>7, <1>8, <1>9, <2>1, <2>3 DEF FinalizeClose
  <2>4. QED
    BY <2>2, <2>3
<1>11. chan[s].active => w.ch.pending = null /\ w.ch.closing = null
                         /\ Idle(w.ch) /\ w.ch.scheduled = NoRequest
  <2>1. chan[s].active => Idle(w.ch) /\ w.ch.scheduled = NoRequest
    BY <1>6, <1>8, ClosedIsIdle
  <2>2. QED
    BY <1>10, <2>1 DEF Idle, Sound, Roles
<1> HIDE DEF w, f
<1>12. CASE Handle(s, Work(s))
  BY <1>2, <1>3, <1>12, ArrivalRoutes DEF Handle
<1>13. CASE RequestReplayed(s, f)
  <2> DEFINE v == Post(Work(s), "ACCEPT", f.pid)
  <2>1. Commit(s, v, Tail(net[s])) /\ nextPid' = nextPid
    BY <1>13 DEF RequestReplayed, Handle
  <2>2. /\ v \in WorkOK /\ v.ch = Work(s).ch /\ v.procs = Work(s).procs
        /\ Adds(v, Work(s), "ACCEPT", f.pid)
    BY <1>2, <1>3, PostDoes DEF ProcessFrame
  <2> HIDE DEF v
  <2>3. f.pid \notin {chan[s].pending, chan[s].closing} \ {null}
    <3>1. f.pid \notin {chan[s].pending} \ {null}
      BY <1>2, <1>3 DEF Routed, Half, RequestKept, ProcessFrame
    <3>2. f.pid \notin {chan[s].closing} \ {null}
      BY <1>2, <1>3 DEF Routed, Half, CloseKept, ProcessFrame
    <3>3. QED
      BY <3>1, <3>2
  <2>4. MovedTo(s, v, {})
    BY <1>2, <1>3, <2>2, <2>3, PostMoves
  <2>5. GoodMove(s, v, {})
    BY <1>3, <2>2, <2>4 DEF GoodMove, HoldsPin
  <2>6. QED
    BY <1>2, <2>1, <2>2, <2>5, ArrivalRoutes
<1>14. CASE /\ chan[s].origin \in {null, OriginOf[f.from]}
            /\ RequestConsidered(s, f, w) /\ nextPid' = nextPid
  <2>1. {} \cap Past = {}
    OBVIOUS
  <2>2. PICK x \in WorkOK : GoodMove(s, x, {}) /\ Commit(s, x, Tail(net[s]))
    BY <1>2, <1>10, <1>14, <2>1, RequestConsideredMoves
  <2>3. QED
    BY <1>2, <1>14, <2>2, ArrivalRoutes
<1>15. CASE /\ chan[s].origin \in {null, OriginOf[f.from]}
            /\ chan[s].active /\ Mint /\ RequestConsidered(s, f, b)
  <2>1. nextPid \in Pid /\ {nextPid} \cap Past = {}
    BY <1>15, MintIsFresh
  <2>2. b \in WorkOK /\ Sound(b.ch) /\ ~b.ch.active
    BY <1>10, <1>11, <1>15, <2>1, BeginRequestType
  <2>3. MovedTo(s, b, {nextPid}) /\ Fit(b.ch) /\ b.ch.origin = chan[s].origin
    BY <1>2, <1>10, <1>11, <1>15, RequestMoves
  <2> HIDE DEF b
  <2>4. PICK x \in WorkOK : GoodMove(s, x, {nextPid}) /\ Commit(s, x, Tail(net[s]))
    BY <1>2, <1>15, <2>1, <2>2, <2>3, RequestConsideredMoves
  <2>5. QED
    BY <1>2, <1>15, <2>4, ArrivalRoutes
<1>16. QED
  BY <1>5, <1>12, <1>13, <1>14, <1>15

\* The request in progress is given up.
LEMMA AbandonMoves ==
  ASSUME IInv, Routing, NEW s \in Side, Up(s), chan[s].pending # null
  PROVE  LET v == AbandonRequest(Work(s))
         IN  /\ v \in WorkOK /\ MovedTo(s, v, {}) /\ Fit(v.ch)
             /\ v.ch.origin = chan[s].origin
             /\ v.ch.pending = null /\ v.ch.closing = null
             /\ v.procs = procs[s] \ {chan[s].pending}
<1> DEFINE v == AbandonRequest(Work(s))
           c == chan[s]
<1>1. /\ Work(s) \in WorkOK /\ Work(s).ch = c /\ Work(s).procs = procs[s]
      /\ MovedTo(s, Work(s), {}) /\ Fit(c) /\ Sound(c) /\ Roles(c) /\ c \in Channel
  BY MoveContext
<1>2. /\ v \in WorkOK /\ v.ch = Abandoned(c) /\ v.out = Work(s).out
      /\ v.procs = procs[s] \ {c.pending}
  BY <1>1, AbandonRequestDoes
<1>3. c.closing = null /\ c.awaiting = NoRequest /\ c.scheduled = NoRequest
  BY <1>1 DEF Roles, Idle
<1>4. /\ Abandoned(c).pending = null /\ Abandoned(c).closing = null
      /\ Answers(Abandoned(c)) = {}
  BY <1>1, <1>3 DEF Abandoned, Channel, Answers, NoRequest
<1>5. Fit(Abandoned(c)) /\ Abandoned(c).origin = c.origin
  BY <1>1, AbandonedFits
<1> HIDE DEF v
<1>6. MovedTo(s, v, {})
  BY <1>1, <1>2, <1>4, EndMoves
<1>7. QED
  BY <1>2, <1>4, <1>5, <1>6 DEF v

\* A session opens: what was in progress ends, and OPEN and the queue travel.
LEMMA OpenMoves ==
  ASSUME NEW s, NEW w \in WorkOK, MovedTo(s, w, {}), NEW i \in Id, NEW v,
         w.ch.origin = chan[s].origin, w.ch.registered = chan[s].registered,
         w.ch.origin \in {null, OriginOf[i]}, w.ch.closing = null,
         SameHandshake(Opened(w.ch, i), v.ch), v.procs \subseteq w.procs,
         w.ch.pending = null \/ w.ch.pending \notin v.procs,
         NEW p, Adds(v, w, "OPEN", p), p \in Wire(net[s])["ACCEPT"]
  PROVE  GoodMove(s, v, {})
<1> DEFINE x == [ch |-> v.ch, procs |-> v.procs, out |-> w.out]
           g == Opened(w.ch, i)
<1>1. /\ Fit(g) /\ HoldsPin(w.ch, g) /\ g.pending = null
      /\ g.closing = null /\ Answers(g) = {} /\ g.registered = w.ch.registered
  BY OpenedFits DEF WorkOK, Opened, Channel
<1> HIDE DEF g
<1>2. /\ v.ch.pending = null /\ v.ch.closing = null /\ Answers(v.ch) = {}
      /\ v.ch.origin = g.origin /\ v.ch.registered = g.registered
  BY <1>1 DEF SameHandshake, Answers, g
<1>3. x.ch = v.ch /\ x.procs = v.procs /\ x.out = w.out
  OBVIOUS
<1> HIDE DEF x
<1>4. MovedTo(s, x, {})
  BY <1>2, <1>3, EndMoves
<1>5. Adds(v, x, "OPEN", p)
  BY <1>3 DEF Adds
<1>6. MovedTo(s, v, {})
  BY <1>2, <1>3, <1>4, <1>5, PostMoves
<1>7. Fit(v.ch)
  BY <1>1, FitIsAboutHandshakes DEF g
<1>8. HoldsPin(chan[s], v.ch)
  BY <1>1, <1>2 DEF HoldsPin
<1>9. QED
  BY <1>6, <1>7, <1>8 DEF GoodMove

LEMMA HandleAcceptRoutes ==
  ASSUME IInv, Routing, NEW s \in Side, HandleAccept(s)
  PROVE  Routing' /\ PinsHeld
<1> DEFINE f == Head(net[s])
           r == Post(Work(s), "OPEN", f.pid)
           a == Activate(Work(s), f.from)
           o == Post(a, "OPEN", f.pid)
           w == Untrack(Flush(o), f.pid)
           e == Post(AbandonRequest(Work(s)), "CANCEL", f.pid)
           x == DenyOnce(e, f.pid)
           expected == /\ ~chan[s].active /\ chan[s].pending = f.pid
                       /\ chan[s].origin \in {null, OriginOf[f.from]}
<1>1. Arriving(s, "ACCEPT")
  BY DEF HandleAccept, Expects
<1>2. /\ Up(s) /\ net[s] # << >> /\ f.pid \in Pid /\ f.from \in Id
      /\ f.pid \in Wire(net[s])["ACCEPT"]
  BY <1>1, ArrivalContext DEF ProcessFrame
<1>3. /\ Work(s) \in WorkOK /\ Work(s).ch = chan[s] /\ MovedTo(s, Work(s), {})
      /\ GoodMove(s, Work(s), {}) /\ Fit(chan[s]) /\ Roles(chan[s])
  BY <1>2, MoveContext
<1>4. \/ chan[s].active /\ Handle(s, r)
      \/ expected /\ Handle(s, w)
      \/ expected /\ Handle(s, x)
      \/ Handle(s, Work(s))
  BY DEF HandleAccept, Expects, PinAllows
<1> HIDE DEF f
<1>5. CASE chan[s].active /\ Handle(s, r)
  <2>1. /\ r \in WorkOK /\ r.ch = Work(s).ch /\ r.procs = Work(s).procs
        /\ Adds(r, Work(s), "OPEN", f.pid)
    BY <1>2, <1>3, PostDoes DEF ProcessFrame
  <2> HIDE DEF r
  <2>2. chan[s].pending = null
    BY <1>3, <1>5 DEF Roles
  <2>3. MovedTo(s, r, {})
    BY <1>2, <1>3, <2>1, <2>2, PostMoves
  <2>4. GoodMove(s, r, {})
    BY <1>3, <2>1, <2>3 DEF GoodMove, HoldsPin
  <2>5. QED
    BY <1>2, <1>5, <2>1, <2>4, ArrivalRoutes DEF Handle
<1>6. CASE expected /\ Handle(s, w)
  <2>1. /\ a \in WorkOK /\ SameHandshake(Opened(chan[s], f.from), a.ch)
        /\ a.procs = Work(s).procs /\ a.out = Work(s).out
    BY <1>2, <1>3, ActivateDoes
  <2> HIDE DEF a
  <2>2. /\ o \in WorkOK /\ o.ch = a.ch /\ o.procs = a.procs /\ Adds(o, a, "OPEN", f.pid)
    BY <1>2, <2>1, PostDoes DEF ProcessFrame
  <2> HIDE DEF o
  <2> DEFINE q == Flush(o)
  <2>3. /\ q \in WorkOK /\ SameHandshake(o.ch, q.ch) /\ q.procs = o.procs
        /\ Adds(q, o, "MESSAGE", null)
    BY <2>2, FlushDoes
  <2> HIDE DEF q
  <2>4. w \in WorkOK /\ w.ch = q.ch /\ w.procs = q.procs \ {f.pid} /\ w.out = q.out
    BY <2>3, UntrackDoes DEF q
  <2> HIDE DEF w
  <2>5. SameHandshake(Opened(Work(s).ch, f.from), w.ch)
    BY <1>3, <2>1, <2>2, <2>3, <2>4 DEF SameHandshake
  <2>6. Adds(w, Work(s), "OPEN", f.pid)
    BY <2>1, <2>2, <2>3, <2>4 DEF Adds, ProcessFrame
  <2>7. /\ w.procs \subseteq Work(s).procs /\ Work(s).ch.pending \notin w.procs
        /\ Work(s).ch.closing = null
    BY <1>3, <1>6, <2>1, <2>2, <2>3, <2>4 DEF Roles
  <2>8. /\ Work(s).ch.origin = chan[s].origin /\ Work(s).ch.registered = chan[s].registered
        /\ Work(s).ch.origin \in {null, OriginOf[f.from]}
    BY <1>3, <1>6
  <2>9. GoodMove(s, w, {})
    BY <1>2, <1>3, <2>5, <2>6, <2>7, <2>8, OpenMoves
  <2>10. QED
    BY <1>2, <1>6, <2>4, <2>9, ArrivalRoutes DEF Handle
<1>7. CASE expected /\ Handle(s, x)
  <2> DEFINE b == AbandonRequest(Work(s))
  <2>1. /\ b \in WorkOK /\ MovedTo(s, b, {}) /\ Fit(b.ch) /\ b.ch.origin = chan[s].origin
        /\ b.ch.pending = null /\ b.ch.closing = null
    BY <1>2, <1>7, NullIsNone, AbandonMoves
  <2> HIDE DEF b
  <2>2. /\ e \in WorkOK /\ e.ch = b.ch /\ e.procs = b.procs /\ Adds(e, b, "CANCEL", f.pid)
    BY <1>2, <2>1, PostDoes DEF ProcessFrame, b
  <2> HIDE DEF e
  <2>3. MovedTo(s, e, {})
    BY <1>2, <2>1, <2>2, PostMoves
  <2>4. /\ x \in WorkOK /\ SameHandshake(e.ch, x.ch) /\ x.procs = e.procs /\ x.out = e.out
    BY <1>2, <2>2, DenyOnceDoes
  <2> HIDE DEF x
  <2>5. MovedTo(s, x, {})
    BY <2>3, <2>4, TellMoves
  <2>6. Fit(x.ch) /\ x.ch.origin = chan[s].origin
    BY <2>1, <2>2, <2>4, FitIsAboutHandshakes DEF SameHandshake
  <2>7. QED
    BY <1>2, <1>7, <2>4, <2>5, <2>6, ArrivalRoutes DEF Handle, GoodMove, HoldsPin
<1>8. CASE Handle(s, Work(s))
  BY <1>2, <1>3, <1>8, ArrivalRoutes DEF Handle
<1>9. QED
  BY <1>4, <1>5, <1>6, <1>7, <1>8

\* A frame that only has its process forgotten.
LEMMA ForgottenMoves ==
  ASSUME IInv, Routing, NEW s \in Side, Up(s), NEW p \in Pid,
         NEW k \in {"OPEN", "CANCEL", "CANCEL_ACK", "CLOSE"}, p \in Wire(net[s])[k]
  PROVE  /\ Untrack(Work(s), p) \in WorkOK
         /\ Untrack(Work(s), p).ch = chan[s]
         /\ Untrack(Work(s), p).procs = procs[s] \ {p}
         /\ MovedTo(s, Untrack(Work(s), p), {})
         /\ GoodMove(s, Untrack(Work(s), p), {})
<1> DEFINE u == Untrack(Work(s), p)
<1>1. /\ Work(s) \in WorkOK /\ Work(s).ch = chan[s] /\ Work(s).procs = procs[s]
      /\ MovedTo(s, Work(s), {}) /\ Fit(chan[s])
      /\ Routed(chan[s], procs[s], chan[Other(s)], procs[Other(s)],
                Wire(net[s]), Wire(net[Other(s)]), Past)
  BY MoveContext
<1>2. p # chan[s].pending /\ p # chan[s].closing /\ p # chan[Other(s)].pending
  BY <1>1, NullIsNone, StrayPid
<1>3. u \in WorkOK /\ u.ch = Work(s).ch /\ u.procs = Work(s).procs \ {p} /\ u.out = Work(s).out
  BY <1>1, UntrackDoes
<1> HIDE DEF u
<1>4. MovedTo(s, u, {})
  BY <1>1, <1>2, <1>3, ForgetMoves
<1>5. QED
  BY <1>1, <1>3, <1>4 DEF GoodMove, HoldsPin, u

LEMMA HandleOpenRoutes ==
  ASSUME IInv, Routing, NEW s \in Side, HandleOpen(s)
  PROVE  Routing' /\ PinsHeld
<1> DEFINE f == Head(net[s])
           i == chan[s].awaiting.from
           u == Untrack(Work(s), f.pid)
           a == Activate(u, i)
           w == Flush(a)
<1>1. Arriving(s, "OPEN")
  BY DEF HandleOpen
<1>2. /\ Up(s) /\ net[s] # << >> /\ f.pid \in Pid /\ f.pid \in Wire(net[s])["OPEN"]
  BY <1>1, ArrivalContext DEF ProcessFrame
<1>3. /\ Work(s) \in WorkOK /\ GoodMove(s, Work(s), {})
      /\ Fit(chan[s]) /\ Roles(chan[s]) /\ chan[s] \in Channel
  BY <1>2, MoveContext
<1>4. \/ Handle(s, Work(s))
      \/ chan[s].awaiting.pid = f.pid /\ Handle(s, w)
      \/ Handle(s, u)
  BY DEF HandleOpen
<1> HIDE DEF f
<1>5. /\ u \in WorkOK /\ u.ch = chan[s] /\ MovedTo(s, u, {}) /\ GoodMove(s, u, {})
  BY <1>2, ForgottenMoves
<1> HIDE DEF u
<1>6. CASE Handle(s, Work(s))
  BY <1>2, <1>3, <1>6, ArrivalRoutes DEF Handle
<1>7. CASE Handle(s, u)
  BY <1>2, <1>5, <1>7, ArrivalRoutes DEF Handle
<1>8. CASE chan[s].awaiting.pid = f.pid /\ Handle(s, w)
  <2>1. chan[s].awaiting # NoRequest
    BY <1>2, <1>8, NullIsNone DEF NoRequest
  <2>2. i \in Id /\ chan[s].origin \in {null, OriginOf[i]}
    BY <1>3, <2>1 DEF Channel, Request, Fit, Pins
  <2>3. chan[s].pending = null /\ chan[s].closing = null
    BY <1>3, <2>1 DEF Roles
  <2> HIDE DEF i
  <2>4. /\ a \in WorkOK /\ SameHandshake(Opened(chan[s], i), a.ch)
        /\ a.procs = u.procs /\ a.out = u.out
    BY <1>5, <2>2, ActivateDoes
  <2> HIDE DEF a
  <2>5. /\ w \in WorkOK /\ SameHandshake(a.ch, w.ch) /\ w.procs = a.procs
        /\ Adds(w, a, "MESSAGE", null)
    BY <2>4, FlushDoes
  <2> HIDE DEF w
  <2> DEFINE g == Opened(chan[s], i)
             x == [ch |-> w.ch, procs |-> w.procs, out |-> u.out]
  <2>6. /\ Fit(g) /\ HoldsPin(chan[s], g) /\ g.pending = null
        /\ g.closing = null /\ Answers(g) = {} /\ SameHandshake(g, w.ch)
    BY <1>3, <2>2, <2>3, <2>4, <2>5, OpenedFits DEF SameHandshake
  <2> HIDE DEF g
  <2>7. /\ w.ch.pending = null /\ w.ch.closing = null /\ Answers(w.ch) = {}
        /\ HoldsPin(chan[s], w.ch) /\ Fit(w.ch)
    BY <2>6, FitIsAboutHandshakes DEF SameHandshake, Answers, HoldsPin
  <2>8. x.ch = w.ch /\ x.procs = w.procs /\ x.out = u.out
    OBVIOUS
  <2> HIDE DEF x
  <2>9. MovedTo(s, x, {})
    BY <1>5, <2>3, <2>4, <2>5, <2>7, <2>8, EndMoves
  <2>10. Adds(w, x, "MESSAGE", null)
    BY <2>4, <2>5, <2>8 DEF Adds
  <2>11. MovedTo(s, w, {})
    BY <2>8, <2>9, <2>10, PostMoves DEF PlainFrame
  <2>12. QED
    BY <1>2, <1>8, <2>5, <2>7, <2>11, ArrivalRoutes DEF Handle, GoodMove
<1>9. QED
  BY <1>4, <1>6, <1>7, <1>8

LEMMA HandleDenyRoutes ==
  ASSUME IInv, Routing, NEW s \in Side, HandleDeny(s)
  PROVE  Routing' /\ PinsHeld
<1> DEFINE f == Head(net[s])
           b == AbandonRequest(Work(s))
           u == Untrack(b, f.pid)
           v == EndAttempt(u, "deny")
           x == Untrack(Work(s), f.pid)
<1>1. Arriving(s, "DENY")
  BY DEF HandleDeny
<1>2. /\ Up(s) /\ net[s] # << >> /\ f.pid \in Pid /\ f.pid \in Wire(net[s])["DENY"]
  BY <1>1, ArrivalContext DEF ProcessFrame
<1>3. /\ Work(s) \in WorkOK /\ Work(s).ch = chan[s] /\ Work(s).procs = procs[s]
      /\ MovedTo(s, Work(s), {}) /\ Fit(chan[s])
      /\ Routed(chan[s], procs[s], chan[Other(s)], procs[Other(s)],
                Wire(net[s]), Wire(net[Other(s)]), Past)
  BY <1>2, MoveContext
<1>4. \/ f.pid \in procs[s] /\ Handle(s, v)
      \/ f.pid \notin procs[s] /\ Handle(s, x)
  BY DEF HandleDeny
<1> HIDE DEF f
<1>5. CASE f.pid \in procs[s] /\ Handle(s, v)
  <2>1. chan[s].pending = f.pid /\ chan[s].pending # null
    BY <1>2, <1>3, <1>5, NullIsNone DEF Routed, Half, Refusable
  <2>2. /\ b \in WorkOK /\ MovedTo(s, b, {}) /\ Fit(b.ch) /\ b.ch.origin = chan[s].origin
        /\ b.procs = procs[s] \ {chan[s].pending}
    BY <1>2, <2>1, AbandonMoves
  <2> HIDE DEF b
  <2>3. u \in WorkOK /\ u.ch = b.ch /\ u.procs = b.procs \ {f.pid} /\ u.out = b.out
    BY <2>2, UntrackDoes
  <2> HIDE DEF u
  <2>4. u.procs = b.procs
    BY <2>1, <2>2, <2>3
  <2>5. /\ v \in WorkOK /\ SameHandshake(u.ch, v.ch) /\ v.procs = u.procs /\ v.out = u.out
    BY <2>3, EndAttemptDoes DEF Outcome
  <2> HIDE DEF v
  <2>6. MovedTo(s, v, {})
    BY <2>2, <2>3, <2>4, <2>5, TellMoves
  <2>7. Fit(v.ch) /\ v.ch.origin = chan[s].origin
    BY <2>2, <2>3, <2>5, FitIsAboutHandshakes DEF SameHandshake
  <2>8. QED
    BY <1>2, <1>5, <2>5, <2>6, <2>7, ArrivalRoutes DEF Handle, GoodMove, HoldsPin
<1>6. CASE f.pid \notin procs[s] /\ Handle(s, x)
  <2>1. x \in WorkOK /\ x.ch = chan[s] /\ x.procs = procs[s] \ {f.pid} /\ x.out = Work(s).out
    BY <1>3, UntrackDoes
  <2> HIDE DEF x
  <2>2. x.procs = Work(s).procs
    BY <1>3, <1>6, <2>1
  <2>3. MovedTo(s, x, {})
    BY <1>3, <2>1, <2>2 DEF MovedTo
  <2>4. QED
    BY <1>2, <1>3, <1>6, <2>1, <2>3, ArrivalRoutes DEF Handle, GoodMove, HoldsPin
<1>7. QED
  BY <1>4, <1>5, <1>6

\* A CANCEL whose process outlived its channel is acknowledged to its origin.
LEMMA OrphanMoves ==
  ASSUME IInv, Routing, NEW s \in Side, Up(s), NEW o \in Orphan,
         NEW p \in Pid, p \in Wire(net[s])["CANCEL"]
  PROVE  LET v == Post([Work(s) EXCEPT !.ch.origin = o.origin], "CANCEL_ACK", p)
             x == Untrack([v EXCEPT !.ch = chan[s]], p)
         IN  x \in WorkOK /\ GoodMove(s, x, {})
<1> DEFINE d == [chan[s] EXCEPT !.origin = o.origin]
           u == [Work(s) EXCEPT !.ch = d]
           v == Post(u, "CANCEL_ACK", p)
           y == [v EXCEPT !.ch = chan[s]]
           x == Untrack(y, p)
<1>1. /\ Work(s) \in WorkOK /\ Work(s).ch = chan[s] /\ MovedTo(s, Work(s), {})
      /\ Fit(chan[s]) /\ chan[s] \in Channel
      /\ Routed(chan[s], procs[s], chan[Other(s)], procs[Other(s)],
                Wire(net[s]), Wire(net[Other(s)]), Past)
  BY MoveContext
<1>2. [Work(s) EXCEPT !.ch.origin = o.origin] = u
  BY <1>1
<1>3. d \in Channel
  BY <1>1 DEF Orphan, Channel
<1> HIDE DEF d
<1>4. u \in WorkOK /\ u.procs = Work(s).procs /\ u.out = Work(s).out
  BY <1>1, <1>3, WriteDoes
<1> HIDE DEF u
<1>5. v \in WorkOK /\ v.procs = u.procs /\ Adds(v, u, "CANCEL_ACK", p)
  BY <1>4, PostDoes DEF ProcessFrame
<1> HIDE DEF v
<1>6. y \in WorkOK /\ y.ch = chan[s] /\ y.procs = v.procs /\ y.out = v.out
  BY <1>1, <1>5, WriteDoes
<1> HIDE DEF y
<1>7. x \in WorkOK /\ x.ch = chan[s] /\ x.procs = y.procs \ {p} /\ x.out = y.out
  BY <1>6, UntrackDoes
<1> HIDE DEF x
<1>8. Adds(y, Work(s), "CANCEL_ACK", p)
  BY <1>4, <1>5, <1>6 DEF Adds
<1>9. MovedTo(s, y, {})
  BY <1>1, <1>4, <1>5, <1>6, <1>8, PostMoves
<1>10. p # chan[s].pending /\ p # chan[s].closing /\ p # chan[Other(s)].pending
  BY <1>1, NullIsNone, StrayPid
<1>11. MovedTo(s, x, {})
  BY <1>6, <1>7, <1>9, <1>10, ForgetMoves
<1>12. x \in WorkOK /\ GoodMove(s, x, {})
  BY <1>1, <1>7, <1>11 DEF GoodMove, HoldsPin
<1>13. QED
  BY <1>2, <1>12 DEF x, y, v

LEMMA HandleCancelRoutes ==
  ASSUME IInv, Routing, NEW s \in Side, HandleCancel(s)
  PROVE  Routing' /\ PinsHeld
<1> DEFINE f == Head(net[s])
           c == chan[s]
           e == IF c.active THEN FinalizeClose(Work(s)) ELSE AbortAttempt(Work(s))
           a == Post(e, "CANCEL_ACK", f.pid)
           w == Untrack(a, f.pid)
           x(o) == Untrack([Post([Work(s) EXCEPT !.ch.origin = o.origin], "CANCEL_ACK", f.pid)
                              EXCEPT !.ch = c], f.pid)
<1>1. Arriving(s, "CANCEL")
  BY DEF HandleCancel
<1>2. /\ Up(s) /\ net[s] # << >> /\ f.pid \in Pid /\ f.pid \in Wire(net[s])["CANCEL"]
  BY <1>1, ArrivalContext DEF ProcessFrame
<1>3. /\ Work(s) \in WorkOK /\ Work(s).ch = c /\ MovedTo(s, Work(s), {})
      /\ GoodMove(s, Work(s), {}) /\ Sound(c) /\ Fit(c)
  BY <1>2, MoveContext
<1>4. \/ Handle(s, w)
      \/ \E o \in OrphanOf(s, f) : Handle(s, x(o))
      \/ Handle(s, Work(s))
  BY DEF HandleCancel
<1> HIDE DEF f
<1>5. CASE Handle(s, w)
  <2>1. /\ e \in WorkOK /\ MovedTo(s, e, {}) /\ Fit(e.ch) /\ e.ch.origin = c.origin
        /\ e.ch.pending = null /\ e.ch.closing = null /\ Answers(e.ch) = {}
    BY <1>3, CloseMoves, AbortMoves DEF Sound
  <2> HIDE DEF e
  <2>2. /\ a \in WorkOK /\ a.ch = e.ch /\ a.procs = e.procs /\ Adds(a, e, "CANCEL_ACK", f.pid)
    BY <1>2, <2>1, PostDoes DEF ProcessFrame
  <2> HIDE DEF a
  <2>3. MovedTo(s, a, {})
    BY <1>2, <2>1, <2>2, PostMoves
  <2>4. w \in WorkOK /\ w.ch = a.ch /\ w.procs = a.procs \ {f.pid} /\ w.out = a.out
    BY <2>2, UntrackDoes
  <2> HIDE DEF w
  <2>5. MovedTo(s, w, {})
    BY <2>1, <2>2, <2>3, <2>4, ForgetMoves
  <2>6. QED
    BY <1>2, <1>5, <2>1, <2>2, <2>4, <2>5, ArrivalRoutes DEF Handle, GoodMove, HoldsPin
<1>6. CASE \E o \in OrphanOf(s, f) : Handle(s, x(o))
  <2>1. PICK o \in OrphanOf(s, f) : Handle(s, x(o))
    BY <1>6
  <2>2. o \in Orphan
    BY DEF OrphanOf, IInv, TypeOK
  <2>3. x(o) \in WorkOK /\ GoodMove(s, x(o), {})
    BY <1>2, <2>2, OrphanMoves
  <2> HIDE DEF x
  <2>4. QED
    BY <1>2, <2>1, <2>3, ArrivalRoutes DEF Handle
<1>7. CASE Handle(s, Work(s))
  BY <1>2, <1>3, <1>7, ArrivalRoutes DEF Handle
<1>8. QED
  BY <1>4, <1>5, <1>6, <1>7

LEMMA HandleCancelAcknowledgedRoutes ==
  ASSUME IInv, Routing, NEW s \in Side, HandleCancelAcknowledged(s)
  PROVE  Routing' /\ PinsHeld
<1> DEFINE p == Head(net[s]).pid
           u == Untrack(Work(s), p)
<1>1. Arriving(s, "CANCEL_ACK") /\ Handle(s, u)
  BY DEF HandleCancelAcknowledged
<1>2. /\ Up(s) /\ net[s] # << >> /\ p \in Pid /\ p \in Wire(net[s])["CANCEL_ACK"]
  BY <1>1, ArrivalContext DEF ProcessFrame
<1> HIDE DEF p
<1>3. u \in WorkOK /\ GoodMove(s, u, {})
  BY <1>2, ForgottenMoves
<1> HIDE DEF u
<1>4. QED
  BY <1>1, <1>2, <1>3, ArrivalRoutes DEF Handle

\* The end of a session the counterpart closed.
LEMMA HeardCloseMoves ==
  ASSUME IInv, Routing, NEW s \in Side, Up(s), NEW p \in Pid, p \in Wire(net[s])["CLOSE"],
         NEW w \in WorkOK, MovedTo(s, w, {}), Fit(w.ch), w.ch.origin = chan[s].origin,
         w.ch.closing = chan[s].closing,
         Roles(w.ch), OneClose(w.ch), w.ch.active
  PROVE  LET v == FinalizeClose(Untrack(Post(w, "CLOSE_ACK", p), p))
         IN  v \in WorkOK /\ GoodMove(s, v, {})
<1> DEFINE a == Post(w, "CLOSE_ACK", p)
           u == Untrack(a, p)
           v == FinalizeClose(u)
<1>1. Routed(chan[s], procs[s], chan[Other(s)], procs[Other(s)],
             Wire(net[s]), Wire(net[Other(s)]), Past)
  BY MoveContext
<1>2. a \in WorkOK /\ a.ch = w.ch /\ a.procs = w.procs /\ Adds(a, w, "CLOSE_ACK", p)
  BY PostDoes DEF ProcessFrame
<1> HIDE DEF a
<1>3. MovedTo(s, a, {})
  BY <1>2, PostMoves
<1>4. u \in WorkOK /\ u.ch = a.ch /\ u.procs = a.procs \ {p} /\ u.out = a.out
  BY <1>2, UntrackDoes
<1> HIDE DEF u
<1>5. p # chan[s].closing /\ p # chan[Other(s)].pending
  BY <1>1, NullIsNone, StrayPid
<1>6. w.ch.pending = null
  BY DEF Roles
<1>7. MovedTo(s, u, {})
  BY <1>2, <1>3, <1>4, <1>5, <1>6, ForgetMoves
<1>8. v \in WorkOK /\ MovedTo(s, v, {}) /\ Fit(v.ch) /\ v.ch.origin = chan[s].origin
  BY <1>2, <1>4, <1>7, CloseMoves
<1> HIDE DEF v
<1>9. v \in WorkOK /\ GoodMove(s, v, {})
  BY <1>8 DEF GoodMove, HoldsPin
<1>10. QED
  BY <1>9 DEF v, u, a

LEMMA HandleCloseRoutes ==
  ASSUME IInv, Routing, NEW s \in Side, HandleClose(s)
  PROVE  Routing' /\ PinsHeld
<1> DEFINE f == Head(net[s])
           c == chan[s]
           told == IF c.closing = null THEN [Work(s) EXCEPT !.ch.closings = @ + 1] ELSE Work(s)
           n == sent[s] + 1
           last == PostMessages(told, <<n>>)
           ended(w) == FinalizeClose(Untrack(Post(w, "CLOSE_ACK", f.pid), f.pid))
<1>1. Arriving(s, "CLOSE")
  BY DEF HandleClose
<1>2. /\ Up(s) /\ net[s] # << >> /\ f.pid \in Pid /\ f.pid \in Wire(net[s])["CLOSE"]
  BY <1>1, ArrivalContext DEF ProcessFrame
<1>3. /\ Work(s) \in WorkOK /\ Work(s).ch = c /\ MovedTo(s, Work(s), {})
      /\ GoodMove(s, Work(s), {}) /\ Sound(c) /\ Fit(c) /\ c \in Channel
  BY <1>2, MoveContext
<1>4. n \in Nat /\ (sent' = [sent EXCEPT ![s] = n] => sent'[s] = n)
  BY DEF IInv, TypeOK
<1>5. \/ c.active /\ Handle(s, ended(told))
      \/ c.active /\ Commit(s, ended(last), Tail(net[s])) /\ nextPid' = nextPid
      \/ Handle(s, Work(s))
  BY <1>4 DEF HandleClose
<1> HIDE DEF f, n
<1>6. ASSUME c.active
      PROVE  /\ told \in WorkOK /\ MovedTo(s, told, {}) /\ SameHandshake(c, told.ch)
             /\ Roles(told.ch) /\ OneClose(told.ch)
  <2>1. CASE c.closing # null
    BY <1>3, <2>1 DEF Sound, SameHandshake
  <2>2. CASE c.closing = null
    <3> DEFINE d == [c EXCEPT !.closings = @ + 1]
    <3>1. d \in Channel /\ Roles(d) /\ OneClose(d)
      BY <1>3, <1>6, <2>2, ToldType
    <3>2. SameHandshake(c, d)
      BY <1>3 DEF SameHandshake, Channel
    <3>3. told = [Work(s) EXCEPT !.ch = d]
      BY <1>3, <2>2
    <3> HIDE DEF d, told
    <3>4. /\ told \in WorkOK /\ told.ch = d
          /\ told.procs = Work(s).procs /\ told.out = Work(s).out
      BY <1>3, <3>1, <3>3, WriteDoes
    <3>5. MovedTo(s, told, {})
      BY <1>3, <3>2, <3>4, TellMoves
    <3>6. QED
      BY <3>1, <3>2, <3>4, <3>5
  <2>3. QED
    BY <2>1, <2>2
<1> HIDE DEF told
<1>7. ASSUME c.active
      PROVE  last \in WorkOK /\ MovedTo(s, last, {}) /\ last.ch = told.ch
  <2>1. <<n>> \in Seq(Nat)
    BY <1>4
  <2>2. /\ last \in WorkOK /\ last.ch = told.ch /\ last.procs = told.procs
        /\ Adds(last, told, "MESSAGE", null)
    BY <1>6, <1>7, <2>1, PostMessagesDoes
  <2> HIDE DEF last
  <2>3. QED
    BY <1>6, <1>7, <2>2, PostMoves DEF PlainFrame
<1> HIDE DEF last
<1>8. ASSUME NEW w \in WorkOK, MovedTo(s, w, {}), w.ch = told.ch, c.active
      PROVE  ended(w) \in WorkOK /\ GoodMove(s, ended(w), {})
  <2>1. /\ Fit(w.ch) /\ w.ch.origin = c.origin /\ w.ch.closing = c.closing
        /\ w.ch.active /\ Roles(w.ch) /\ OneClose(w.ch)
    BY <1>3, <1>6, <1>8, FitIsAboutHandshakes DEF SameHandshake
  <2>2. QED
    BY <1>2, <1>8, <2>1, HeardCloseMoves
<1> HIDE DEF ended
<1>9. CASE c.active /\ Handle(s, ended(told))
  BY <1>2, <1>6, <1>8, <1>9, ArrivalRoutes DEF Handle
<1>10. CASE c.active /\ Commit(s, ended(last), Tail(net[s])) /\ nextPid' = nextPid
  BY <1>2, <1>7, <1>8, <1>10, ArrivalRoutes
<1>11. CASE Handle(s, Work(s))
  BY <1>2, <1>3, <1>11, ArrivalRoutes DEF Handle
<1>12. QED
  BY <1>5, <1>9, <1>10, <1>11

LEMMA HandleCloseAcknowledgedRoutes ==
  ASSUME IInv, Routing, NEW s \in Side, HandleCloseAcknowledged(s)
  PROVE  Routing' /\ PinsHeld
<1> DEFINE v == FinalizeClose(Work(s))
<1>1. /\ Arriving(s, "CLOSE_ACK")
      /\ (chan[s].closing # null /\ Handle(s, v)) \/ Handle(s, Work(s))
  BY DEF HandleCloseAcknowledged
<1>2. Up(s) /\ net[s] # << >>
  BY <1>1, ArrivalContext DEF ProcessFrame
<1>3. /\ Work(s) \in WorkOK /\ Work(s).ch = chan[s] /\ MovedTo(s, Work(s), {})
      /\ GoodMove(s, Work(s), {}) /\ Fit(chan[s]) /\ Roles(chan[s]) /\ OneClose(chan[s])
  BY <1>2, MoveContext DEF Sound
<1>4. CASE chan[s].closing # null /\ Handle(s, v)
  <2>1. chan[s].active
    BY <1>3, <1>4 DEF Roles
  <2>2. /\ v \in WorkOK /\ MovedTo(s, v, {}) /\ Fit(v.ch) /\ v.ch.origin = chan[s].origin
    BY <1>3, <2>1, CloseMoves
  <2> HIDE DEF v
  <2>3. QED
    BY <1>2, <1>4, <2>2, ArrivalRoutes DEF Handle, GoodMove, HoldsPin
<1>5. CASE Handle(s, Work(s))
  BY <1>2, <1>3, <1>5, ArrivalRoutes DEF Handle
<1>6. QED
  BY <1>1, <1>4, <1>5

LEMMA HandleDestroyRoutes ==
  ASSUME IInv, Routing, NEW s \in Side, HandleDestroy(s)
  PROVE  Routing' /\ PinsHeld
<1> DEFINE v == Destroy(Work(s), FALSE)
<1>1. /\ Arriving(s, "DESTROY")
      /\ Handle(s, v) \/ Handle(s, Work(s))
  BY DEF HandleDestroy
<1>2. Up(s) /\ net[s] # << >>
  BY <1>1, Arrives DEF Arriving
<1>3. Work(s) \in WorkOK /\ GoodMove(s, Work(s), {})
  BY <1>2, MoveContext
<1>4. v \in WorkOK /\ GoodMove(s, v, {})
  BY <1>2, DestroyMoves
<1> HIDE DEF v
<1>5. QED
  BY <1>1, <1>2, <1>3, <1>4, ArrivalRoutes DEF Handle

LEMMA HandleMessageRoutes ==
  ASSUME IInv, Routing, NEW s \in Side, HandleMessage(s)
  PROVE  Routing' /\ PinsHeld
<1>1. /\ Arriving(s, "MESSAGE")
      /\ Commit(s, Work(s), Tail(net[s])) /\ nextPid' = nextPid
  BY DEF HandleMessage
<1>2. Up(s) /\ net[s] # << >>
  BY <1>1, Arrives DEF Arriving
<1>3. Work(s) \in WorkOK /\ GoodMove(s, Work(s), {})
  BY <1>2, MoveContext
<1>4. QED
  BY <1>1, <1>2, <1>3, ArrivalRoutes

-----------------------------------------------------------------------------
(* The theorems.                                                           *)

RInv == IInv /\ Routing

LEMMA InitRouting == Init => Routing
<1> SUFFICES ASSUME Init, NEW s \in Side
             PROVE  Fit(chan[s]) /\ RoutedAt(s)
  BY DEF Routing
<1> DEFINE c == NewChannel(FALSE)
           W == Wire(<< >>)
<1>1. Other(s) \in Side
  BY OtherSide
<1>2. /\ chan[s] = c /\ chan[Other(s)] = c
      /\ procs[s] = {} /\ procs[Other(s)] = {}
      /\ net[s] = << >> /\ net[Other(s)] = << >> /\ nextPid = 1
  BY <1>1 DEF Init
<1>3. Fit(c) /\ c.pending = null /\ c.closing = null /\ Answers(c) = {}
  BY FreshFits
<1>4. \A k \in ProcessFrame : W[k] = {}
  BY WireEmpty
<1>5. null \in Past
  BY <1>2 DEF Past, null
<1> HIDE DEF c, W
<1>6. Half(c, {}, c, W, W, Past)
  BY <1>3, <1>4, <1>5
     DEF Half, RequestKept, CloseKept, Refusable, OneWay, AnswersKept, Minted, ProcessFrame
<1>7. RoutedAt(s)
  BY <1>2, <1>6 DEF RoutedAt, Routed, W
<1>8. QED
  BY <1>2, <1>3, <1>7

LEMMA StutterRoutes ==
  ASSUME Routing, UNCHANGED vars
  PROVE  Routing' /\ PinsHeld
<1>1. PinsHeld
  BY DEF PinsHeld, HoldsPin, vars
<1>2. Routing'
  BY DEF Routing, RoutedAt, Past, vars
<1>3. QED
  BY <1>1, <1>2

LEMMA NextRoutes == RInv /\ [Next]_vars => Routing' /\ PinsHeld
<1> SUFFICES ASSUME IInv, Routing, [Next]_vars PROVE Routing' /\ PinsHeld
  BY DEF RInv
<1>1. CASE UNCHANGED vars
  BY <1>1, StutterRoutes
<1>2. ASSUME NEW s \in Side, Call(s) PROVE Routing' /\ PinsHeld
  BY <1>2, BootRoutes, UnloadRoutes, AddChannelRoutes, ConnectRequestRoutes,
     ConnectAnswerRoutes, DisconnectRoutes, SilentCloseRoutes, CancelRoutes,
     DestroyCallRoutes, SendRoutes DEF Call
<1>3. ASSUME NEW s \in Side, Tick(s) PROVE Routing' /\ PinsHeld
  BY <1>3, RetryRoutes, ExpireRoutes, SilentCloseRoutes DEF Tick
<1>4. ASSUME NEW s \in Side, Deliver(s) PROVE Routing' /\ PinsHeld
  BY <1>4, HandleRequestRoutes, HandleAcceptRoutes, HandleOpenRoutes, HandleDenyRoutes,
     HandleCancelRoutes, HandleCancelAcknowledgedRoutes, HandleCloseRoutes,
     HandleCloseAcknowledgedRoutes, HandleDestroyRoutes, HandleMessageRoutes DEF Deliver
<1>5. QED
  BY <1>1, <1>2, <1>3, <1>4 DEF Next

LEMMA RoutingInvariance == Spec => []RInv
<1>1. Init => RInv
  BY InitIInv, InitRouting DEF RInv
<1>2. RInv /\ [Next]_vars => RInv'
  BY NextKeeps, NextRoutes DEF RInv
<1>3. QED
  BY <1>1, <1>2, PTL DEF Spec

\* A handshake in progress always has the retry and deadline of its own frame
\* and process armed, and nothing else leaves one armed, whichever of connect(),
\* the counterpart's frames, cancel(), disconnect() and destroy() came last.
THEOREM DeadlinesArmed == Spec => []DeadlineArmed
<1>1. RInv => DeadlineArmed
  BY DEF RInv, Routing, Fit, Armed, DeadlineArmed
<1>2. QED
  BY <1>1, RoutingInvariance, PTL

\* The broker tracks the process of every request and every close in progress,
\* so that its ACCEPT, DENY or CLOSE_ACK finds the channel: no frame of another
\* process, however late or repeated, makes it forget that one.
THEOREM RequestsStayRoutable == Spec => []RequestsRoutable
<1>1. RInv => RequestsRoutable
  BY DEF RInv, Routing, RoutedAt, Routed, Half, RequestKept, CloseKept, RequestsRoutable
<1>2. QED
  BY <1>1, RoutingInvariance, PTL

\* While a requester may still confirm, the side that answered it, or that will
\* once its application connects, tracks the process of that answer.
THEOREM AnswersStayRoutable == Spec => []AnswersRoutable
<1>1. ASSUME RInv, NEW s \in Side,
             NEW r \in {chan[s].awaiting, chan[s].scheduled} \ {NoRequest}
      PROVE  r.pid \in procs[s] \/ chan[Other(s)].pending # r.pid
  <2>1. chan[s] \in Channel
    BY <1>1 DEF RInv, IInv, TypeOK
  <2>2. r.pid \in Pid
    BY <1>1, <2>1 DEF Channel, Request
  <2>3. r.pid \in Answers(chan[s])
    BY <1>1, <2>2, NullIsNone DEF Answers
  <2>4. AnswersKept(chan[s], procs[s], chan[Other(s)])
    BY <1>1 DEF RInv, Routing, RoutedAt, Routed, Half
  <2>5. QED
    BY <2>3, <2>4 DEF AnswersKept
<1>2. RInv => AnswersRoutable
  BY <1>1 DEF AnswersRoutable
<1>3. QED
  BY <1>2, RoutingInvariance, PTL

\* No step of a channel that stays registered changes the origin it pinned: no
\* second request, superseding answer, cancel or reload of the counterpart
\* hands the channel to another origin.
THEOREM OriginPinnedForLife == Spec => PinnedForLife
<1>1. RInv /\ [Next]_vars => [PinsHeld]_vars
  BY NextRoutes
<1>2. PinsHeld <=> \A s \in Side : chan[s].origin # null /\ chan'[s].registered
                                     => chan'[s].origin = chan[s].origin
  BY DEF PinsHeld, HoldsPin
<1>3. Spec => [][PinsHeld]_vars
  BY <1>1, RoutingInvariance, PTL DEF Spec
<1>4. QED
  BY <1>2, <1>3, PTL DEF PinnedForLife

=============================================================================
