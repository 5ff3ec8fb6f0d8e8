----------------------- MODULE SecureHandshake_proofs -----------------------
(***************************************************************************)
(* Theorems about SecureHandshake, for any protocols, key materials,       *)
(* settings, bounds and behaviour of the environment.                      *)
(*                                                                         *)
(* A step replaces one side's work, so the proof says of each operator on  *)
(* a work that it keeps the work Good, and of Commit that it keeps the     *)
(* invariant when the work is.                                             *)
(*                                                                         *)
(* What the two ends of an attempt know of each other is a second          *)
(* invariant, Linked.  Of each operator on a work the proof says what it   *)
(* Means to the counterpart, of a step that means no more that it keeps    *)
(* the ends linked, and of keying a transport the same.                    *)
(***************************************************************************)
EXTENDS SecureHandshake, TLAPS

WorkOK == [ch : Channel, procs : SUBSET Pid, out : Seq(Frame)]

\* A session has no handshake in progress, and only a side that called connect()
\* has sent or answered a request.
Settled(c) ==
  /\ c.active => c.awaiting = NoRequest /\ c.timer = NoFrame
  /\ ~c.ready => ~c.active /\ c.pending = 0 /\ c.awaiting = NoRequest

\* A transport belongs to a session or to an answer.
Owned(c) == c.transport # NoTransport => c.active \/ c.awaiting # NoRequest

\* Of a fail-closed channel: the only protocol it ever schedules or attaches is the
\* one it asks for, but for the request negotiated before it asked.
Sealed(t, c) ==
  t.strict =>
    /\ c.active => c.transport.protocol = t.asks \/ c.session = c.earlier
    /\ c.scheduled # NoRequest => c.scheduled.slot = t.asks \/ c.scheduled.pid = c.earlier
    /\ c.awaiting # NoRequest /\ c.negotiated \in Protocol =>
         c.transport.protocol = t.asks \/ c.awaiting.pid = c.earlier

Sound(t, c) == Settled(c) /\ Owned(c) /\ Sealed(t, c)

IInv == TypeOK /\ \A s \in Side : Sound(settings[s], chan[s])

\* A session keeps its transport.
Keeps(c, d) == c.active /\ d.active => d.transport.key = c.transport.key

-----------------------------------------------------------------------------
(* Works.                                                                  *)

LEMMA OtherSide == ASSUME NEW s \in Side PROVE Other(s) \in Side /\ Other(s) # s
BY DEF Side, Other

\* The plaintext slots are not protocols.
LEMMA PlaintextSlots == /\ "none" \notin Protocol
                        /\ "absent" \notin Protocol
                        /\ "null" \notin Protocol
BY PlaintextAssumption

\* No process is numbered 0, and none of the placeholders is a real one.
LEMMA Placeholders == 0 \notin Pid /\ NoRequest \notin Request /\ NoTransport \notin Transport
BY KeyAssumption DEF Pid, Request, NoRequest, Transport, NoTransport

LEMMA WorkType ==
  ASSUME TypeOK, NEW s \in Side
  PROVE  Work(s) \in WorkOK /\ Work(s).ch = chan[s] /\ chan[s] \in Channel
BY DEF TypeOK, Work, WorkOK

\* Posting changes nothing but what is posted.
LEMMA PostFrameType ==
  ASSUME NEW w \in WorkOK, NEW f \in Frame
  PROVE  PostFrame(w, f) \in WorkOK /\ PostFrame(w, f).ch = w.ch
<1>1. Append(w.out, f) \in Seq(Frame)
  BY DEF WorkOK
<1>2. QED
  BY <1>1 DEF PostFrame, WorkOK

LEMMA PostType ==
  ASSUME NEW w \in WorkOK, NEW p \in Pid, NEW slot \in Slot,
         NEW type \in {"REQUEST", "ACCEPT", "OPEN", "DENY", "CANCEL", "CANCEL_ACK"}
  PROVE  Post(w, type, p, slot) \in WorkOK /\ Post(w, type, p, slot).ch = w.ch
<1>1. [type |-> type, pid |-> p, slot |-> slot] \in Frame
  BY DEF Frame, Handshake
<1>2. QED
  BY <1>1, PostFrameType DEF Post

LEMMA UntrackType ==
  ASSUME NEW w \in WorkOK, NEW p
  PROVE  Untrack(w, p) \in WorkOK /\ Untrack(w, p).ch = w.ch
BY DEF Untrack, WorkOK

\* A channel record written back into the work.
LEMMA ChannelWrite ==
  ASSUME NEW w \in WorkOK, NEW c \in Channel
  PROVE  [w EXCEPT !.ch = c] \in WorkOK /\ [w EXCEPT !.ch = c].ch = c
BY DEF WorkOK

LEMMA DropTransportType ==
  ASSUME NEW w \in WorkOK
  PROVE  /\ DropTransport(w) \in WorkOK
         /\ DropTransport(w).ch = [w.ch EXCEPT !.transport = NoTransport]
<1> DEFINE c == [w.ch EXCEPT !.transport = NoTransport]
<1>1. DropTransport(w) = [w EXCEPT !.ch = c]
  BY DEF DropTransport, WorkOK
<1>2. c \in Channel
  BY DEF WorkOK, Channel
<1> HIDE DEF c
<1>3. QED
  BY <1>1, <1>2, ChannelWrite DEF c

LEMMA ReleaseType ==
  ASSUME NEW w \in WorkOK
  PROVE  /\ Release(w) \in WorkOK
         /\ Release(w).ch = [w.ch EXCEPT !.transport = NoTransport, !.timer = NoFrame,
                                         !.negotiated = "null"]
<1> DEFINE v == DropTransport(w)
           c == [w.ch EXCEPT !.transport = NoTransport, !.timer = NoFrame, !.negotiated = "null"]
<1>1. v \in WorkOK /\ v.ch = [w.ch EXCEPT !.transport = NoTransport]
  BY DropTransportType
<1> HIDE DEF v
<1>2. [v EXCEPT !.ch.timer = NoFrame, !.ch.negotiated = "null"] = [v EXCEPT !.ch = c]
  BY <1>1 DEF WorkOK, Channel
<1>3. c \in Channel
  BY DEF WorkOK, Channel
<1>4. Release(w) = [v EXCEPT !.ch.timer = NoFrame, !.ch.negotiated = "null"]
  BY DEF Release, v
<1> HIDE DEF c
<1>5. QED
  BY <1>1, <1>2, <1>3, <1>4, ChannelWrite DEF c

LEMMA AbandonRequestType ==
  ASSUME NEW w \in WorkOK
  PROVE  /\ AbandonRequest(w) \in WorkOK
         /\ AbandonRequest(w).ch = [w.ch EXCEPT !.timer = NoFrame, !.pending = 0]
<1> DEFINE v == Untrack(w, w.ch.pending)
           c == [w.ch EXCEPT !.timer = NoFrame, !.pending = 0]
<1>1. v \in WorkOK /\ v.ch = w.ch
  BY UntrackType
<1> HIDE DEF v
<1>2. [v EXCEPT !.ch.timer = NoFrame, !.ch.pending = 0] = [v EXCEPT !.ch = c]
  BY <1>1 DEF WorkOK, Channel
<1>3. c \in Channel
  BY DEF WorkOK, Channel
<1>4. AbandonRequest(w) = [v EXCEPT !.ch.timer = NoFrame, !.ch.pending = 0]
  BY DEF AbandonRequest, v
<1> HIDE DEF c
<1>5. QED
  BY <1>1, <1>2, <1>3, <1>4, ChannelWrite DEF c

-----------------------------------------------------------------------------
(* What the operators of the life cycle make of a channel.                 *)

\* Four fields written in place are one channel written back.
LEMMA EndedChannel ==
  ASSUME NEW w, NEW v \in WorkOK, v = Release(w)
  PROVE  FinalizeClose(w)
           = [v EXCEPT !.ch = [v.ch EXCEPT !.active = FALSE, !.pending = 0,
                                           !.awaiting = NoRequest, !.session = 0]]
<1>1. FinalizeClose(w) = [v EXCEPT !.ch.active = FALSE, !.ch.pending = 0,
                                   !.ch.awaiting = NoRequest, !.ch.session = 0]
  BY Zenon DEF FinalizeClose
<1>2. [v EXCEPT !.ch.active = FALSE, !.ch.pending = 0, !.ch.awaiting = NoRequest,
                !.ch.session = 0]
        = [v EXCEPT !.ch = [v.ch EXCEPT !.active = FALSE, !.pending = 0,
                                        !.awaiting = NoRequest, !.session = 0]]
  BY DEF WorkOK
<1>3. QED
  BY <1>1, <1>2, Zenon

LEMMA FinalizeCloseGood ==
  ASSUME NEW w \in WorkOK, NEW t, Sound(t, w.ch)
  PROVE  /\ FinalizeClose(w) \in WorkOK
         /\ Sound(t, FinalizeClose(w).ch)
         /\ ~FinalizeClose(w).ch.active
<1> DEFINE v == Release(w)
           c == [v.ch EXCEPT !.active = FALSE, !.pending = 0, !.awaiting = NoRequest, !.session = 0]
<1>1. v \in WorkOK /\ v.ch = [w.ch EXCEPT !.transport = NoTransport, !.timer = NoFrame,
                                          !.negotiated = "null"]
  BY ReleaseType
<1> HIDE DEF v
<1>2. v = Release(w)
  BY DEF v
<1>3. FinalizeClose(w) = [v EXCEPT !.ch = c]
  BY <1>1, <1>2, EndedChannel, Zenon
<1>4. c \in Channel
  <2>1. v.ch \in Channel
    BY <1>1 DEF WorkOK
  <2>2. QED
    BY <2>1 DEF Channel
<1>5. Sound(t, c)
  BY <1>1, PlaintextSlots DEF Sound, Settled, Owned, Sealed, WorkOK, Channel
<1>6. ~c.active
  BY <1>1 DEF WorkOK, Channel
<1> HIDE DEF c
<1>7. QED
  BY <1>1, <1>3, <1>4, <1>5, <1>6, ChannelWrite

LEMMA CancelQuietlyGood ==
  ASSUME NEW w \in WorkOK, NEW t, Sound(t, w.ch)
  PROVE  /\ CancelQuietly(w) \in WorkOK
         /\ Sound(t, CancelQuietly(w).ch)
         /\ ~CancelQuietly(w).ch.active
<1>1. CASE w.ch.active
  BY <1>1, FinalizeCloseGood DEF CancelQuietly
<1>2. CASE ~w.ch.active
  <2> DEFINE v == Untrack(Release(w), w.ch.pending)
             c == [v.ch EXCEPT !.pending = 0, !.awaiting = NoRequest, !.scheduled = NoRequest]
  <2>1. v \in WorkOK /\ v.ch = [w.ch EXCEPT !.transport = NoTransport, !.timer = NoFrame,
                                            !.negotiated = "null"]
    BY ReleaseType, UntrackType
  <2>2. CancelQuietly(w) = [v EXCEPT !.ch.pending = 0, !.ch.awaiting = NoRequest,
                                     !.ch.scheduled = NoRequest]
    BY <1>2 DEF CancelQuietly, v
  <2> HIDE DEF v
  <2>3. CancelQuietly(w) = [v EXCEPT !.ch = c]
    BY <2>1, <2>2 DEF WorkOK, Channel
  <2>4. c \in Channel
    BY <2>1 DEF WorkOK, Channel
  <2>5. Sound(t, c)
    BY <1>2, <2>1, PlaintextSlots DEF Sound, Settled, Owned, Sealed, WorkOK, Channel
  <2>6. ~c.active
    BY <1>2, <2>1 DEF WorkOK, Channel
  <2> HIDE DEF c
  <2>7. QED
    BY <2>1, <2>3, <2>4, <2>5, <2>6, ChannelWrite
<1>3. QED
  BY <1>1, <1>2

\* An answer leaves with the transport and the outcome the work already has.
LEMMA BeginResponseType ==
  ASSUME NEW w \in WorkOK, NEW r \in Request, NEW slot \in Slot
  PROVE  /\ BeginResponse(w, r, slot) \in WorkOK
         /\ BeginResponse(w, r, slot).ch =
              [w.ch EXCEPT !.scheduled = NoRequest, !.awaiting = r,
                           !.timer = [type |-> "ACCEPT", pid |-> r.pid, slot |-> slot]]
<1> DEFINE f == [type |-> "ACCEPT", pid |-> r.pid, slot |-> slot]
           c == [w.ch EXCEPT !.scheduled = NoRequest, !.awaiting = r, !.timer = f]
           v == [w EXCEPT !.ch.scheduled = NoRequest, !.ch.awaiting = r, !.ch.timer = f]
<1>1. f \in Handshake /\ r.pid \in Pid
  BY DEF Handshake, Request
<1> HIDE DEF f
<1>2. v = [w EXCEPT !.ch = c]
  BY DEF WorkOK, Channel
<1>3. c \in Channel
  BY <1>1 DEF WorkOK, Channel
<1>4. v \in WorkOK /\ v.ch = c
  BY <1>2, <1>3, ChannelWrite
<1>5. BeginResponse(w, r, slot) = Post(v, "ACCEPT", r.pid, slot)
  BY DEF BeginResponse, f
<1> HIDE DEF v, c
<1>6. Post(v, "ACCEPT", r.pid, slot) \in WorkOK /\ Post(v, "ACCEPT", r.pid, slot).ch = v.ch
  BY <1>1, <1>4, PostType
<1>7. QED
  BY <1>4, <1>5, <1>6 DEF c, f

LEMMA ActivateType ==
  ASSUME NEW w \in WorkOK, NEW p \in Pid
  PROVE  /\ Activate(w, p) \in WorkOK
         /\ Activate(w, p).ch =
              [w.ch EXCEPT !.active = TRUE, !.pending = 0, !.scheduled = NoRequest,
                           !.awaiting = NoRequest, !.timer = NoFrame, !.session = p]
<1> DEFINE c == [w.ch EXCEPT !.active = TRUE, !.pending = 0, !.scheduled = NoRequest,
                             !.awaiting = NoRequest, !.timer = NoFrame, !.session = p]
<1>1. Activate(w, p) = [w EXCEPT !.ch = c]
  BY DEF Activate, WorkOK, Channel
<1>2. c \in Channel
  BY DEF WorkOK, Channel
<1> HIDE DEF c
<1>3. QED
  BY <1>1, <1>2, ChannelWrite DEF c

\* A channel given a transport of the protocol, and one at most deprived of its own.
Attached(c, protocol, d) ==
  \E t \in Transport : t.protocol = protocol /\ d = [c EXCEPT !.transport = t]
Detached(c, d) == d = c \/ d = [c EXCEPT !.transport = NoTransport]

\* attachSecurityTransport ends with the protocol and a transport that runs it, or
\* with plaintext and at most the transport there was.
LEMMA AttachmentsType ==
  ASSUME NEW w \in WorkOK, NEW s \in Side, NEW protocol \in Protocol, NEW role \in Role,
         NEW a \in Attachments(w, s, protocol, role)
  PROVE  /\ a.w \in WorkOK
         /\ \/ a.slot = "none" /\ Detached(w.ch, a.w.ch)
            \/ a.slot = protocol /\ Attached(w.ch, protocol, a.w.ch)
<1>1. CASE protocol \notin settings[s].offers
  BY <1>1 DEF Attachments, Detached
<1>2. CASE /\ protocol \in settings[s].offers
           /\ a = [w |-> DropTransport(w), slot |-> "none"]
  BY <1>2, DropTransportType DEF Detached
<1>3. ASSUME NEW k \in Key \ InUse,
             a = [slot |-> protocol,
                  w |-> [w EXCEPT !.ch.transport =
                           [key |-> k, protocol |-> protocol, role |-> role, peer |-> None,
                            waiting |-> {}, confirmed |-> FALSE]]]
      PROVE  a.w \in WorkOK /\ a.slot = protocol /\ Attached(w.ch, protocol, a.w.ch)
  <2> DEFINE t == [key |-> k, protocol |-> protocol, role |-> role, peer |-> None,
                   waiting |-> {}, confirmed |-> FALSE]
             c == [w.ch EXCEPT !.transport = t]
  <2>1. t \in Transport /\ t.protocol = protocol
    BY DEF Transport
  <2>2. a.slot = protocol /\ a.w = [w EXCEPT !.ch.transport = t]
    BY <1>3
  <2> HIDE DEF t
  <2>3. a.w = [w EXCEPT !.ch = c]
    BY <2>2 DEF WorkOK, Channel
  <2>4. c \in Channel
    BY <2>1 DEF WorkOK, Channel
  <2>5. a.w \in WorkOK /\ a.w.ch = c
    BY <2>3, <2>4, ChannelWrite
  <2>6. QED
    BY <2>1, <2>2, <2>5 DEF Attached
<1>4. QED
  BY <1>1, <1>2, <1>3 DEF Attachments

-----------------------------------------------------------------------------
(* Committing a work.                                                      *)

\* A work that may become the next state of its side.
Good(s, w) == w \in WorkOK /\ Sound(settings[s], w.ch) /\ Keeps(chan[s], w.ch)

AllKeep == \A s \in Side : Keeps(chan[s], chan'[s])

LEMMA SettingType ==
  ASSUME IInv, NEW s \in Side
  PROVE  /\ settings[s] \in Setting
         /\ settings[s].strict => settings[s].asks \in Protocol
BY DEF IInv, TypeOK, Setting

LEMMA WorkGood ==
  ASSUME IInv, NEW s \in Side
  PROVE  Good(s, Work(s)) /\ Work(s).ch = chan[s] /\ chan[s] \in Channel
BY WorkType DEF IInv, Good, Keeps

LEMMA CommitKeeps ==
  ASSUME IInv, NEW s \in Side, NEW w, Good(s, w), NEW rest \in Seq(Frame), Commit(s, w, rest),
         nextPid' \in 1 .. MaxPid + 1
  PROVE  IInv' /\ AllKeep
<1>1. w.ch \in Channel /\ w.procs \in SUBSET Pid /\ w.out \in Seq(Frame)
  BY DEF Good, WorkOK
<1>2. /\ chan \in [Side -> Channel] /\ procs \in [Side -> SUBSET Pid]
      /\ net \in [Side -> Seq(Frame)] /\ settings \in [Side -> Setting]
  BY DEF IInv, TypeOK
<1>3. /\ chan' = [chan EXCEPT ![s] = w.ch]
      /\ procs' = [procs EXCEPT ![s] = w.procs]
      /\ net' = [net EXCEPT ![s] = rest, ![Other(s)] = @ \o w.out]
      /\ settings' = settings
  BY DEF Commit
<1>4. chan' \in [Side -> Channel] /\ procs' \in [Side -> SUBSET Pid]
  BY <1>1, <1>2, <1>3
<1>5. net' \in [Side -> Seq(Frame)]
  <2>1. net[Other(s)] \o w.out \in Seq(Frame)
    BY <1>1, <1>2, OtherSide
  <2>2. net' = [[net EXCEPT ![s] = rest] EXCEPT ![Other(s)] = net[Other(s)] \o w.out]
    BY <1>2, <1>3, OtherSide
  <2>3. QED
    BY <1>2, <2>1, <2>2, OtherSide
<1>6. TypeOK'
  BY <1>2, <1>3, <1>4, <1>5 DEF TypeOK
<1>7. \A x \in Side : chan'[x] = IF x = s THEN w.ch ELSE chan[x]
  BY <1>2, <1>3
<1>8. \A x \in Side : Sound(settings'[x], chan'[x])
  BY <1>3, <1>7 DEF IInv, Good
<1>9. AllKeep
  BY <1>7 DEF AllKeep, Good, Keeps
<1>10. QED
  BY <1>6, <1>8, <1>9 DEF IInv

\* A call or a timer that mints no process.
LEMMA QuietCommitKeeps ==
  ASSUME IInv, NEW s \in Side, NEW w, Good(s, w), Commit(s, w, net[s]), UNCHANGED nextPid
  PROVE  IInv' /\ AllKeep
<1>1. net[s] \in Seq(Frame) /\ nextPid' \in 1 .. MaxPid + 1
  BY DEF IInv, TypeOK
<1>2. QED
  BY <1>1, CommitKeeps

\* A call that mints one.
LEMMA MintCommitKeeps ==
  ASSUME IInv, NEW s \in Side, NEW w, Good(s, w), Commit(s, w, net[s]), Mint
  PROVE  IInv' /\ AllKeep
<1>1. net[s] \in Seq(Frame) /\ nextPid' \in 1 .. MaxPid + 1
  BY MaxPidAssumption DEF IInv, TypeOK, Mint, Pid
<1>2. QED
  BY <1>1, CommitKeeps

\* Posting or untracking leaves a good work good.
LEMMA PostGood ==
  ASSUME NEW s, NEW w, Good(s, w), NEW p \in Pid, NEW slot \in Slot,
         NEW type \in {"REQUEST", "ACCEPT", "OPEN", "DENY", "CANCEL", "CANCEL_ACK"}
  PROVE  Good(s, Post(w, type, p, slot))
<1>1. w \in WorkOK
  BY DEF Good
<1>2. Post(w, type, p, slot) \in WorkOK /\ Post(w, type, p, slot).ch = w.ch
  BY <1>1, PostType
<1>3. QED
  BY <1>2 DEF Good

LEMMA UntrackGood ==
  ASSUME NEW s, NEW w, Good(s, w), NEW p
  PROVE  Good(s, Untrack(w, p))
<1>1. Untrack(w, p) \in WorkOK /\ Untrack(w, p).ch = w.ch
  BY UntrackType DEF Good
<1>2. QED
  BY <1>1 DEF Good

\* An idle channel keeps no session.
LEMMA IdleKeeps ==
  ASSUME NEW s, NEW w \in WorkOK, Sound(settings[s], w.ch), ~w.ch.active
  PROVE  Good(s, w)
BY DEF Good, Keeps

LEMMA CancelGood ==
  ASSUME NEW s, NEW w, Good(s, w)
  PROVE  Good(s, CancelQuietly(w)) /\ Good(s, FinalizeClose(w))
<1>1. w \in WorkOK /\ Sound(settings[s], w.ch)
  BY DEF Good
<1>2. QED
  BY <1>1, CancelQuietlyGood, FinalizeCloseGood, IdleKeeps

-----------------------------------------------------------------------------
(* The calls and the timers.                                               *)

\* Settings applied to a channel that has not called connect(): what it has scheduled
\* was negotiated before them.
ApplyingTo(s, t) ==
  /\ ~chan[s].ready /\ settings[s].asks = "none"
  /\ t \in Setting /\ t.offers = settings[s].offers
  /\ settings' = [settings EXCEPT ![s] = t]
  /\ chan' = [chan EXCEPT ![s].earlier = chan[s].scheduled.pid]
  /\ UNCHANGED <<procs, net, nextPid>>

LEMMA ApplySecuritySettingsType ==
  ASSUME IInv, NEW s \in Side, ApplySecuritySettings(s)
  PROVE  \E t \in Setting : ApplyingTo(s, t)
<1>1. PICK asks \in Protocol, strict \in BOOLEAN :
        settings' = [settings EXCEPT ![s].asks = asks, ![s].strict = strict]
  BY DEF ApplySecuritySettings
<1> DEFINE t == [settings[s] EXCEPT !.asks = asks, !.strict = strict]
<1>2. settings[s] \in Setting /\ settings \in [Side -> Setting]
  BY DEF IInv, TypeOK
<1>3. t \in Setting /\ t.offers = settings[s].offers
  BY <1>1, <1>2, PlaintextSlots DEF Setting
<1>4. settings' = [settings EXCEPT ![s] = t]
  BY <1>1, <1>2 DEF Setting
<1> HIDE DEF t
<1>5. ApplyingTo(s, t)
  BY <1>3, <1>4 DEF ApplyingTo, ApplySecuritySettings
<1>6. QED
  BY <1>3, <1>5

LEMMA ApplySecuritySettingsKeeps ==
  ASSUME IInv, NEW s \in Side, ApplySecuritySettings(s)
  PROVE  IInv' /\ AllKeep
<1>1. PICK t \in Setting : ApplyingTo(s, t)
  BY ApplySecuritySettingsType
<1> DEFINE c == chan[s]
           d == [c EXCEPT !.earlier = c.scheduled.pid]
<1>2. /\ TypeOK /\ c \in Channel /\ Sound(settings[s], c)
      /\ chan \in [Side -> Channel] /\ settings \in [Side -> Setting]
  BY DEF IInv, TypeOK
<1>3. ~c.ready /\ ~c.active /\ c.awaiting = NoRequest
  BY <1>1, <1>2 DEF ApplyingTo, Sound, Settled
<1>4. /\ chan' = [chan EXCEPT ![s] = d] /\ settings' = [settings EXCEPT ![s] = t]
      /\ UNCHANGED <<procs, net, nextPid>>
  BY <1>1, <1>2 DEF ApplyingTo
<1>5. d \in Channel /\ Sound(t, d) /\ Keeps(c, d)
  <2>1. c.scheduled.pid \in Pid \cup {0}
    BY <1>2 DEF Channel, Request, NoRequest
  <2>2. d \in Channel
    BY <1>2, <2>1 DEF Channel
  <2>3. /\ d.ready = c.ready /\ d.active = c.active /\ d.pending = c.pending
        /\ d.scheduled = c.scheduled /\ d.awaiting = c.awaiting /\ d.timer = c.timer
        /\ d.transport = c.transport /\ d.earlier = c.scheduled.pid
    BY <1>2 DEF Channel
  <2> HIDE DEF d, c
  <2>4. QED
    BY <1>2, <1>3, <2>2, <2>3 DEF Sound, Settled, Owned, Sealed, Keeps
<1> HIDE DEF d
<1>6. TypeOK'
  BY <1>2, <1>4, <1>5 DEF TypeOK
<1>7. \A x \in Side : Sound(settings'[x], chan'[x])
  BY <1>2, <1>4, <1>5 DEF IInv
<1>8. AllKeep
  BY <1>2, <1>4, <1>5 DEF AllKeep, Keeps
<1>9. QED
  BY <1>6, <1>7, <1>8 DEF IInv

LEMMA ConnectRequestKeeps ==
  ASSUME IInv, NEW s \in Side, ConnectRequest(s)
  PROVE  IInv' /\ AllKeep
<1> DEFINE asks == settings[s].asks
           slot == IF asks = "none" THEN "absent" ELSE asks
           f == [type |-> "REQUEST", pid |-> nextPid, slot |-> slot]
           w == [Work(s) EXCEPT !.procs = @ \cup {nextPid},
                   !.ch.ready = TRUE, !.ch.pending = nextPid, !.ch.timer = f]
           c == [chan[s] EXCEPT !.ready = TRUE, !.pending = nextPid, !.timer = f]
<1>1. /\ Idle(chan[s]) /\ Mint
      /\ Commit(s, Post(w, "REQUEST", nextPid, slot), net[s])
  BY DEF ConnectRequest
<1>2. nextPid \in Pid /\ slot \in Slot
  BY <1>1, SettingType DEF Mint, Slot, Setting
<1>3. f \in Handshake
  BY <1>2 DEF Handshake
<1>4. Work(s) \in WorkOK /\ Work(s).ch = chan[s] /\ chan[s] \in Channel /\ Sound(settings[s], chan[s])
  BY WorkGood DEF Good
<1> HIDE DEF f, slot
<1>5. c \in Channel
  BY <1>2, <1>3, <1>4 DEF Channel
<1>6. w.ch = c /\ w.procs = Work(s).procs \cup {nextPid} /\ w = [w EXCEPT !.ch = c]
  BY <1>4 DEF WorkOK, Channel
<1>7. w \in WorkOK
  BY <1>2, <1>4, <1>5, <1>6 DEF WorkOK
<1>8. Sound(settings[s], c) /\ ~c.active
  BY <1>1, <1>4 DEF Idle, Sound, Settled, Owned, Sealed, Channel
<1> HIDE DEF c, w
<1>9. Good(s, w)
  BY <1>6, <1>7, <1>8, IdleKeeps
<1>10. Good(s, Post(w, "REQUEST", nextPid, slot))
  BY <1>2, <1>9, PostGood
<1>11. QED
  BY <1>1, <1>10, MintCommitKeeps

LEMMA CancelKeeps ==
  ASSUME IInv, NEW s \in Side, Cancel(s)
  PROVE  IInv' /\ AllKeep
<1> DEFINE v == CancelQuietly(Work(s))
           w == [v EXCEPT !.procs = @ \cup {nextPid}]
<1>1. Mint /\ nextPid \in Pid /\ Commit(s, Post(w, "CANCEL", nextPid, "absent"), net[s])
  BY DEF Cancel, Mint
<1>2. Good(s, v)
  BY WorkGood, CancelGood
<1> HIDE DEF v
<1>3. w \in WorkOK /\ w.ch = v.ch
  BY <1>1, <1>2 DEF Good, WorkOK
<1> HIDE DEF w
<1>4. Good(s, w)
  BY <1>2, <1>3 DEF Good
<1>5. Good(s, Post(w, "CANCEL", nextPid, "absent"))
  BY <1>1, <1>4, PostGood DEF Slot
<1>6. QED
  BY <1>1, <1>5, MintCommitKeeps

LEMMA CloseSilentlyKeeps ==
  ASSUME IInv, NEW s \in Side, CloseSilently(s)
  PROVE  IInv' /\ AllKeep
<1>1. Good(s, FinalizeClose(Work(s)))
  BY WorkGood, CancelGood
<1>2. QED
  BY <1>1, QuietCommitKeeps DEF CloseSilently

LEMMA RetryKeeps ==
  ASSUME IInv, NEW s \in Side, Retry(s)
  PROVE  IInv' /\ AllKeep
<1>1. Good(s, Work(s)) /\ Work(s).ch = chan[s] /\ chan[s].timer \in Frame
  BY WorkGood DEF Retry, Channel, Frame
<1>2. /\ PostFrame(Work(s), chan[s].timer) \in WorkOK
      /\ PostFrame(Work(s), chan[s].timer).ch = chan[s]
  BY <1>1, PostFrameType DEF Good
<1>3. Good(s, PostFrame(Work(s), chan[s].timer))
  BY <1>1, <1>2 DEF Good
<1>4. QED
  BY <1>3, QuietCommitKeeps DEF Retry

LEMMA PostHelloKeeps ==
  ASSUME IInv, NEW s \in Side, PostHello(s)
  PROVE  IInv' /\ AllKeep
<1> DEFINE t == chan[s].transport
           f == [type |-> "HELLO", protocol |-> t.protocol, key |-> t.key]
<1>1. Good(s, Work(s)) /\ Work(s).ch = chan[s] /\ chan[s] \in Channel
  BY WorkGood
<1>2. t \in Transport
  BY <1>1 DEF PostHello, Channel
<1>3. f \in Frame
  BY <1>2 DEF Transport, Hello, Frame
<1>4. Commit(s, PostFrame(Work(s), f), net[s]) /\ UNCHANGED nextPid
  BY DEF PostHello
<1> HIDE DEF f
<1>5. PostFrame(Work(s), f) \in WorkOK /\ PostFrame(Work(s), f).ch = chan[s]
  BY <1>1, <1>3, PostFrameType DEF Good
<1>6. Good(s, PostFrame(Work(s), f))
  BY <1>1, <1>5 DEF Good
<1>7. QED
  BY <1>4, <1>6, QuietCommitKeeps

LEMMA ExpireKeeps ==
  ASSUME IInv, NEW s \in Side, Expire(s)
  PROVE  IInv' /\ AllKeep
<1> DEFINE v == Untrack(Release(Work(s)), chan[s].timer.pid)
           w == [v EXCEPT !.ch.pending = 0, !.ch.awaiting = NoRequest]
           c == [v.ch EXCEPT !.pending = 0, !.awaiting = NoRequest]
<1>1. Work(s) \in WorkOK /\ Work(s).ch = chan[s] /\ chan[s] \in Channel /\ Sound(settings[s], chan[s])
  BY WorkGood DEF Good
<1>2. ~chan[s].active
  BY <1>1 DEF Expire, Sound, Settled
<1>3. v \in WorkOK /\ v.ch = [chan[s] EXCEPT !.transport = NoTransport, !.timer = NoFrame,
                                             !.negotiated = "null"]
  BY <1>1, ReleaseType, UntrackType
<1>4. Commit(s, w, net[s]) /\ UNCHANGED nextPid
  BY DEF Expire
<1> HIDE DEF v
<1>5. w = [v EXCEPT !.ch = c] /\ c \in Channel
  BY <1>3 DEF WorkOK, Channel
<1>6. Sound(settings[s], c) /\ ~c.active
  BY <1>1, <1>2, <1>3, PlaintextSlots DEF Sound, Settled, Owned, Sealed, Channel
<1> HIDE DEF w, c
<1>7. w \in WorkOK /\ w.ch = c
  BY <1>3, <1>5, ChannelWrite
<1>8. Good(s, w)
  BY <1>6, <1>7, IdleKeeps
<1>9. QED
  BY <1>4, <1>8, QuietCommitKeeps

LEMMA ConfirmTimeoutKeeps ==
  ASSUME IInv, NEW s \in Side, ConfirmTimeout(s)
  PROVE  IInv' /\ AllKeep
<1>1. Good(s, Work(s)) /\ Work(s).ch = chan[s] /\ chan[s] \in Channel /\ Work(s) \in WorkOK
  BY WorkGood DEF Good
<1>2. UNCHANGED nextPid
  BY DEF ConfirmTimeout
<1>3. CASE Commit(s, FinalizeClose(Work(s)), net[s])
  BY <1>1, <1>2, <1>3, CancelGood, QuietCommitKeeps
<1>4. CASE ~chan[s].active /\ chan[s].awaiting = NoRequest /\ Commit(s, DropTransport(Work(s)), net[s])
  <2> DEFINE c == [chan[s] EXCEPT !.transport = NoTransport]
  <2>1. DropTransport(Work(s)) \in WorkOK /\ DropTransport(Work(s)).ch = c
    BY <1>1, DropTransportType
  <2>2. Sound(settings[s], c) /\ ~c.active
    BY <1>1, <1>4 DEF Good, Sound, Settled, Owned, Sealed, Channel
  <2>3. Good(s, DropTransport(Work(s)))
    BY <2>1, <2>2, IdleKeeps
  <2>4. QED
    BY <1>2, <1>4, <2>3, QuietCommitKeeps
<1>5. CASE /\ chan[s].awaiting # NoRequest
           /\ Commit(s, Post(CancelQuietly(Work(s)), "CANCEL", chan[s].awaiting.pid, "absent"), net[s])
  <2>1. chan[s].awaiting.pid \in Pid
    BY <1>1, <1>5 DEF Channel, Request
  <2>2. Good(s, CancelQuietly(Work(s)))
    BY <1>1, CancelGood
  <2>3. Good(s, Post(CancelQuietly(Work(s)), "CANCEL", chan[s].awaiting.pid, "absent"))
    BY <2>1, <2>2, PostGood DEF Slot
  <2>4. QED
    BY <1>2, <1>5, <2>3, QuietCommitKeeps
<1>6. QED
  BY <1>3, <1>4, <1>5 DEF ConfirmTimeout

\* An idle work answers a request: with what it records, if it is fail-closed, and
\* a transport that runs it.
LEMMA AnswerGood ==
  ASSUME NEW s, NEW w \in WorkOK, NEW r \in Request, NEW slot \in Slot,
         ~w.ch.active, w.ch.ready,
         settings[s].strict /\ w.ch.negotiated \in Protocol =>
           w.ch.transport.protocol = settings[s].asks \/ r.pid = w.ch.earlier
  PROVE  Good(s, BeginResponse(w, r, slot))
<1> DEFINE f == [type |-> "ACCEPT", pid |-> r.pid, slot |-> slot]
           c == [w.ch EXCEPT !.scheduled = NoRequest, !.awaiting = r, !.timer = f]
<1>1. BeginResponse(w, r, slot) \in WorkOK /\ BeginResponse(w, r, slot).ch = c
  BY BeginResponseType
<1> HIDE DEF f
<1>2. Sound(settings[s], c) /\ ~c.active
  BY Placeholders DEF Sound, Settled, Owned, Sealed, WorkOK, Channel
<1> HIDE DEF c
<1>3. QED
  BY <1>1, <1>2, IdleKeeps

LEMMA ConnectAnswerKeeps ==
  ASSUME IInv, NEW s \in Side, ConnectAnswer(s)
  PROVE  IInv' /\ AllKeep
<1> DEFINE r == chan[s].scheduled
           w == [Work(s) EXCEPT !.ch.ready = TRUE]
           c == [chan[s] EXCEPT !.ready = TRUE]
           t == settings[s]
           refused(v) == [Untrack(v, r.pid) EXCEPT !.ch.scheduled = NoRequest, !.ch.negotiated = "null"]
           degraded(v) == [v EXCEPT !.ch.negotiated = "none"]
<1>1. /\ Idle(chan[s]) /\ r # NoRequest /\ UNCHANGED nextPid
      /\ \/ r.slot \notin Protocol /\ Commit(s, BeginResponse(w, r, r.slot), net[s])
         \/ /\ r.slot \in Protocol
            /\ \E a \in Attachments(w, s, r.slot, "responder") :
                 \/ /\ a.slot # "none"
                    /\ Commit(s, BeginResponse(a.w, r, a.slot), net[s])
                 \/ /\ a.slot = "none" /\ t.strict
                    /\ Commit(s, RefuseScheduled(a.w, r), net[s])
                 \/ /\ a.slot = "none" /\ ~t.strict
                    /\ Commit(s, BeginResponse(degraded(a.w), r, "none"), net[s])
  BY DEF ConnectAnswer
<1>2. Work(s) \in WorkOK /\ Work(s).ch = chan[s] /\ chan[s] \in Channel /\ Sound(t, chan[s])
  BY WorkGood DEF Good
<1>3. r \in Request /\ r.slot \in Slot /\ r.pid \in Pid
  BY <1>1, <1>2 DEF Channel, Request
<1>4. t.strict => t.asks \in Protocol
  BY SettingType
<1>5. w \in WorkOK /\ w.ch = c
  BY <1>2 DEF WorkOK, Channel
<1>6. Sound(t, c) /\ ~c.active /\ c.ready /\ c.awaiting = NoRequest /\ c.transport = NoTransport /\ c.scheduled = r
  BY <1>1, <1>2 DEF Idle, Sound, Settled, Owned, Sealed, Channel
<1>7. t.strict => r.slot = t.asks \/ r.pid = c.earlier
  BY <1>1, <1>6 DEF Sound, Sealed
<1> HIDE DEF w, c, t, r
<1>8. CASE r.slot \notin Protocol /\ Commit(s, BeginResponse(w, r, r.slot), net[s])
  <2>1. Good(s, BeginResponse(w, r, r.slot))
    BY <1>3, <1>4, <1>5, <1>6, <1>7, <1>8, AnswerGood DEF t
  <2>2. QED
    BY <1>1, <1>8, <2>1, QuietCommitKeeps
<1>9. ASSUME r.slot \in Protocol, NEW a \in Attachments(w, s, r.slot, "responder"),
             a.slot # "none", Commit(s, BeginResponse(a.w, r, a.slot), net[s])
      PROVE  IInv' /\ AllKeep
  <2>1. a.w \in WorkOK /\ a.slot = r.slot /\ Attached(c, r.slot, a.w.ch)
    <3>1. "responder" \in Role /\ w \in WorkOK /\ r.slot \in Protocol
      BY <1>5, <1>9 DEF Role
    <3>2. QED
      BY <1>5, <1>9, <3>1, AttachmentsType
  <2>2. c \in Channel
    BY <1>5 DEF WorkOK
  <2>3. /\ ~a.w.ch.active /\ a.w.ch.ready /\ a.w.ch.earlier = c.earlier
        /\ a.w.ch.transport.protocol = r.slot
    BY <1>6, <2>1, <2>2 DEF Channel, Attached
  <2>4. Good(s, BeginResponse(a.w, r, a.slot))
    BY <1>3, <1>7, <2>1, <2>3, AnswerGood DEF t
  <2>5. QED
    BY <1>1, <1>9, <2>4, QuietCommitKeeps
<1>10. ASSUME r.slot \in Protocol, NEW a \in Attachments(w, s, r.slot, "responder"), a.slot = "none"
       PROVE  a.w \in WorkOK /\ a.w.ch = c
  <2>1. a.w \in WorkOK /\ a.w.ch \in {c, [c EXCEPT !.transport = NoTransport]}
    <3>1. "responder" \in Role /\ w \in WorkOK /\ r.slot \in Protocol
      BY <1>5, <1>10 DEF Role
    <3>2. a.w \in WorkOK /\ Detached(w.ch, a.w.ch)
      BY <1>10, <3>1, AttachmentsType, PlaintextSlots
    <3>3. QED
      BY <1>5, <3>2 DEF Detached
  <2>2. c \in Channel
    BY <1>5 DEF WorkOK
  <2>3. [c EXCEPT !.transport = NoTransport] = c
    BY <1>6, <2>2 DEF Channel
  <2>4. QED
    BY <2>1, <2>3
<1>11. ASSUME r.slot \in Protocol, NEW a \in Attachments(w, s, r.slot, "responder"),
              a.slot = "none", Commit(s, RefuseScheduled(a.w, r), net[s])
       PROVE  IInv' /\ AllKeep
  <2> DEFINE d == [c EXCEPT !.scheduled = NoRequest, !.negotiated = "null"]
  <2>1. Untrack(a.w, r.pid) \in WorkOK /\ Untrack(a.w, r.pid).ch = c /\ c \in Channel
    BY <1>10, <1>11, UntrackType DEF WorkOK
  <2>2. refused(a.w) = [Untrack(a.w, r.pid) EXCEPT !.ch = d]
    BY <2>1 DEF WorkOK, Channel
  <2>3. d \in Channel /\ Sound(t, d) /\ ~d.active
    BY <1>6, <2>1, PlaintextSlots DEF Sound, Settled, Owned, Sealed, Channel
  <2> HIDE DEF d
  <2>4. refused(a.w) \in WorkOK /\ refused(a.w).ch = d
    BY <2>1, <2>2, <2>3, ChannelWrite
  <2>5. RefuseScheduled(a.w, r) = Post(refused(a.w), "DENY", r.pid, "absent")
    BY DEF RefuseScheduled
  <2> HIDE DEF refused
  <2>6. Good(s, refused(a.w))
    BY <2>3, <2>4, IdleKeeps DEF t
  <2>7. Good(s, RefuseScheduled(a.w, r))
    BY <1>3, <2>5, <2>6, PostGood DEF Slot
  <2>8. QED
    BY <1>1, <1>11, <2>7, QuietCommitKeeps
<1>12. ASSUME r.slot \in Protocol, NEW a \in Attachments(w, s, r.slot, "responder"),
              a.slot = "none", ~t.strict, Commit(s, BeginResponse(degraded(a.w), r, "none"), net[s])
       PROVE  IInv' /\ AllKeep
  <2> DEFINE d == [c EXCEPT !.negotiated = "none"]
  <2>1. a.w \in WorkOK /\ a.w.ch = c /\ c \in Channel
    BY <1>10, <1>12 DEF WorkOK
  <2>2. degraded(a.w) = [a.w EXCEPT !.ch = d] /\ d \in Channel
    BY <2>1 DEF WorkOK, Channel
  <2>3. ~d.active /\ d.ready
    BY <1>6, <2>1 DEF Channel
  <2> HIDE DEF d
  <2>4. degraded(a.w) \in WorkOK /\ degraded(a.w).ch = d
    BY <2>1, <2>2, ChannelWrite
  <2> HIDE DEF degraded
  <2>5. Good(s, BeginResponse(degraded(a.w), r, "none"))
    BY <1>3, <1>12, <2>3, <2>4, AnswerGood DEF t, Slot
  <2>6. QED
    BY <1>1, <1>12, <2>5, QuietCommitKeeps
<1>13. QED
  BY <1>1, <1>8, <1>9, <1>11, <1>12

-----------------------------------------------------------------------------
(* The handlers.                                                           *)

\* The frame a handler takes.
LEMMA Arrives ==
  ASSUME IInv, NEW s \in Side, net[s] # << >>
  PROVE  Head(net[s]) \in Frame /\ Tail(net[s]) \in Seq(Frame)
BY DEF IInv, TypeOK

LEMMA HandshakeFrame ==
  ASSUME NEW f \in Frame, f.type \notin {"HELLO", "CONFIRMED"}
  PROVE  f.pid \in Pid /\ f.slot \in Slot
BY DEF Frame, Handshake, Hello, Confirmed

LEMMA HelloFrame ==
  ASSUME NEW f \in Frame, f.type = "HELLO"
  PROVE  f \in Hello /\ f.key \in Key
BY DEF Frame, Handshake, Hello, Confirmed

LEMMA ConfirmedFrame ==
  ASSUME NEW f \in Frame, f.type = "CONFIRMED"
  PROVE  f \in Confirmed
BY DEF Frame, Handshake, Hello, Confirmed

LEMMA HandledKeeps ==
  ASSUME IInv, NEW s \in Side, NEW w, Good(s, w), NEW rest \in Seq(Frame), Commit(s, w, rest),
         UNCHANGED nextPid
  PROVE  IInv' /\ AllKeep
<1>1. nextPid' \in 1 .. MaxPid + 1
  BY DEF IInv, TypeOK
<1>2. QED
  BY <1>1, CommitKeeps

\* A channel that may answer a request with the slot.
Answerable(t, c, slot) ==
  /\ ~c.active /\ Settled(c)
  /\ slot \notin Protocol => Sound(t, c)
  /\ c.ready /\ t.strict /\ slot \in Protocol /\ c.negotiated \in Protocol =>
       c.transport.protocol = t.asks
  /\ ~c.ready => /\ Owned(c)
                 /\ t.strict /\ slot \in Protocol => slot = t.asks

LEMMA RequestAnswered ==
  ASSUME NEW s, NEW w \in WorkOK, NEW r \in Request, Answerable(settings[s], w.ch, r.slot)
  PROVE  Good(s, Answer(w, s, r))
<1> DEFINE t == settings[s]
           tracked == [w EXCEPT !.procs = @ \cup {r.pid}]
           v == [tracked EXCEPT !.ch.scheduled = r, !.procs = @ \ ({w.ch.scheduled.pid} \ {r.pid})]
           c == [w.ch EXCEPT !.scheduled = r]
<1>1. r.pid \in Pid /\ r.slot \in Slot
  BY DEF Request
<1>2. w.ch \in Channel /\ w.procs \subseteq Pid /\ ~w.ch.active
  BY DEF WorkOK, Answerable
<1>3. tracked \in WorkOK /\ tracked.ch = w.ch
  BY <1>1 DEF WorkOK
<1>4. CASE r.slot \notin Protocol /\ t.strict
  <2>1. Good(s, w)
    BY <1>2, <1>4, IdleKeeps DEF Answerable
  <2>2. Good(s, Post(w, "DENY", r.pid, "absent"))
    BY <1>1, <2>1, PostGood DEF Slot
  <2>3. QED
    BY <1>4, <2>2 DEF Answer
<1>5. CASE ~(r.slot \notin Protocol /\ t.strict) /\ w.ch.ready
  <2>1. t.strict /\ w.ch.negotiated \in Protocol => w.ch.transport.protocol = t.asks
    BY <1>5 DEF Answerable
  <2> HIDE DEF tracked
  <2>2. Good(s, BeginResponse(tracked, r, r.slot))
    BY <1>1, <1>2, <1>3, <1>5, <2>1, AnswerGood
  <2>3. QED
    BY <1>5, <2>2 DEF Answer, tracked
<1>6. CASE ~(r.slot \notin Protocol /\ t.strict) /\ ~w.ch.ready
  <2>1. v.ch = c /\ v.procs = tracked.procs \ ({w.ch.scheduled.pid} \ {r.pid}) /\ v = [v EXCEPT !.ch = c]
    BY <1>2, <1>3 DEF WorkOK, Channel
  <2>2. c \in Channel
    BY <1>2 DEF Channel
  <2>3. v \in WorkOK
    BY <1>2, <1>3, <2>1, <2>2 DEF WorkOK
  <2>4. Sound(t, c) /\ ~c.active
    BY <1>2, <1>6 DEF Answerable, Sound, Settled, Owned, Sealed, Channel
  <2>5. Answer(w, s, r) = v
    BY <1>6 DEF Answer
  <2> HIDE DEF v, c
  <2>6. QED
    BY <2>1, <2>3, <2>4, <2>5, IdleKeeps
<1>7. QED
  BY <1>4, <1>5, <1>6

\* The outcome of a negotiation is recorded.
LEMMA RecordType ==
  ASSUME NEW v \in WorkOK, NEW slot \in Protocol \cup {"none"}
  PROVE  LET n == [[w |-> v, slot |-> slot] EXCEPT !.w.ch.negotiated = slot] IN
         /\ n.w \in WorkOK /\ n.slot = slot
         /\ n.w.ch = [v.ch EXCEPT !.negotiated = slot]
<1> DEFINE n == [[w |-> v, slot |-> slot] EXCEPT !.w.ch.negotiated = slot]
           d == [v.ch EXCEPT !.negotiated = slot]
<1>1. n.w = [v EXCEPT !.ch.negotiated = slot] /\ n.slot = slot
  OBVIOUS
<1>2. [v EXCEPT !.ch.negotiated = slot] = [v EXCEPT !.ch = d] /\ d \in Channel
  BY DEF WorkOK, Channel
<1> HIDE DEF d, n
<1>3. [v EXCEPT !.ch = d] \in WorkOK /\ [v EXCEPT !.ch = d].ch = d
  BY <1>2, ChannelWrite
<1>4. n.w = [v EXCEPT !.ch = d]
  BY <1>1, <1>2
<1>5. n.w \in WorkOK /\ n.w.ch = d
  BY <1>3, <1>4
<1>6. QED
  BY <1>1, <1>5 DEF d, n

\* The channel is left ready to answer with what negotiateSecurity settled.
LEMMA NegotiationsType ==
  ASSUME IInv, NEW s \in Side, NEW w \in WorkOK, Sound(settings[s], w.ch), ~w.ch.active,
         NEW asked \in Slot, NEW n \in Negotiations(w, s, asked)
  PROVE  /\ n.w \in WorkOK /\ n.slot \in Slot
         /\ Answerable(settings[s], n.w.ch, n.slot)
<1> DEFINE t == settings[s]
           chosen == Negotiate(s, asked)
<1>1. t \in Setting /\ (t.strict => t.asks \in Protocol)
  BY SettingType
<1>2. \/ chosen = "none"
      \/ chosen \in Protocol /\ (t.strict => chosen = t.asks)
  BY <1>1, PlaintextSlots DEF Negotiate, Setting
<1>3. w.ch \in Channel
  BY DEF WorkOK
<1> HIDE DEF t, chosen
<1>4. ASSUME NEW a, a.w \in WorkOK, a.slot \in Protocol \cup {"none"}, n = [a EXCEPT !.w.ch.negotiated = a.slot],
             a = [w |-> a.w, slot |-> a.slot]
      PROVE  /\ n.w \in WorkOK /\ n.slot = a.slot
             /\ n.w.ch = [a.w.ch EXCEPT !.negotiated = a.slot]
  <2>1. n = [[w |-> a.w, slot |-> a.slot] EXCEPT !.w.ch.negotiated = a.slot]
    BY <1>4
  <2>2. QED
    BY <1>4, <2>1, RecordType
<1>5. CASE chosen = "none" \/ ~w.ch.ready
  <2> DEFINE a == [w |-> w, slot |-> chosen]
  <2>1. n = [a EXCEPT !.w.ch.negotiated = a.slot]
    BY <1>5 DEF Negotiations, chosen
  <2>2. a.w = w /\ a.slot = chosen /\ a = [w |-> a.w, slot |-> a.slot] /\ chosen \in Protocol \cup {"none"}
    BY <1>2
  <2> HIDE DEF a
  <2>3. n.w \in WorkOK /\ n.slot = chosen /\ n.w.ch = [w.ch EXCEPT !.negotiated = chosen]
    BY <1>4, <2>1, <2>2
  <2>4. CASE chosen = "none"
    <3>1. Sound(t, n.w.ch) /\ ~n.w.ch.active
      BY <1>3, <2>3, <2>4, PlaintextSlots DEF t, Sound, Settled, Owned, Sealed, Channel
    <3>2. QED
      BY <2>3, <2>4, <3>1, PlaintextSlots DEF t, Answerable, Slot, Sound, Sealed
  <2>5. CASE chosen \in Protocol /\ ~w.ch.ready
    <3>1. Owned(n.w.ch) /\ Settled(n.w.ch) /\ ~n.w.ch.active /\ ~n.w.ch.ready /\ n.w.ch.negotiated = chosen
      BY <1>3, <2>3, <2>5 DEF Sound, Settled, Owned, Channel
    <3>2. Answerable(t, n.w.ch, chosen)
      BY <1>2, <2>5, <3>1, PlaintextSlots DEF Answerable
    <3>3. QED
      BY <2>3, <2>5, <3>2 DEF t, Slot
  <2>6. QED
    BY <1>2, <1>5, <2>4, <2>5
<1>6. CASE chosen # "none" /\ w.ch.ready
  <2>1. PICK a \in Attachments(w, s, chosen, "responder") : n = [a EXCEPT !.w.ch.negotiated = a.slot]
    BY <1>6 DEF Negotiations, chosen
  <2>2. chosen \in Protocol /\ "responder" \in Role
    BY <1>2, <1>6 DEF Role
  <2>3. /\ a.w \in WorkOK
        /\ \/ a.slot = "none" /\ Detached(w.ch, a.w.ch)
           \/ a.slot = chosen /\ Attached(w.ch, chosen, a.w.ch)
    BY <2>2, AttachmentsType
  <2>4. a = [w |-> a.w, slot |-> a.slot]
    BY DEF Attachments
  <2>5. /\ n.w \in WorkOK /\ n.slot = a.slot
        /\ n.w.ch = [a.w.ch EXCEPT !.negotiated = a.slot]
    BY <1>4, <2>1, <2>2, <2>3, <2>4
  <2>6. CASE a.slot = "none" /\ Detached(w.ch, a.w.ch)
    <3>1. Sound(t, n.w.ch) /\ ~n.w.ch.active
      BY <1>3, <2>5, <2>6, PlaintextSlots DEF t, Sound, Settled, Owned, Sealed, Channel, Detached
    <3>2. QED
      BY <2>5, <2>6, <3>1, PlaintextSlots DEF t, Answerable, Slot, Sound, Sealed
  <2>7. CASE a.slot = chosen /\ Attached(w.ch, chosen, a.w.ch)
    <3>1. /\ n.w.ch.negotiated = chosen /\ n.w.ch.transport.protocol = chosen
          /\ Settled(n.w.ch) /\ ~n.w.ch.active /\ n.w.ch.ready
      BY <1>3, <1>6, <2>5, <2>7 DEF Sound, Settled, Channel, Attached
    <3>2. Answerable(t, n.w.ch, chosen)
      BY <1>2, <2>2, <3>1, PlaintextSlots DEF Answerable
    <3>3. QED
      BY <2>2, <2>5, <2>7, <3>2 DEF t, Slot
  <2>8. QED
    BY <2>3, <2>6, <2>7
<1>7. QED
  BY <1>5, <1>6

LEMMA AbandonGood ==
  ASSUME NEW s, NEW w, Good(s, w)
  PROVE  /\ Good(s, AbandonRequest(w))
         /\ AbandonRequest(w).ch.active = w.ch.active
<1> DEFINE c == [w.ch EXCEPT !.timer = NoFrame, !.pending = 0]
<1>1. w \in WorkOK /\ w.ch \in Channel /\ Sound(settings[s], w.ch) /\ Keeps(chan[s], w.ch)
  BY DEF Good, WorkOK
<1>2. AbandonRequest(w) \in WorkOK /\ AbandonRequest(w).ch = c
  BY <1>1, AbandonRequestType
<1>3. Sound(settings[s], c) /\ c.active = w.ch.active
  BY <1>1 DEF Sound, Settled, Owned, Sealed, Channel
<1>4. Keeps(chan[s], c)
  BY <1>1 DEF Keeps, Channel
<1> HIDE DEF c
<1>5. QED
  BY <1>2, <1>3, <1>4 DEF Good

LEMMA HandleRequestKeeps ==
  ASSUME IInv, NEW s \in Side, NEW f \in Frame, f.type = "REQUEST", NEW rest \in Seq(Frame),
         HandleRequest(s, f, rest), UNCHANGED nextPid
  PROVE  IInv' /\ AllKeep
<1> DEFINE c == chan[s]
           w == IF c.pending = 0 THEN Work(s) ELSE AbandonRequest(Work(s))
           plain == [pid |-> f.pid, slot |-> "absent"]
<1>1. f.pid \in Pid /\ f.slot \in Slot
  BY HandshakeFrame
<1>2. Good(s, Work(s)) /\ Work(s).ch = chan[s] /\ chan[s] \in Channel
  BY WorkGood
<1>3. CASE Replayed(c) /\ Commit(s, ReplayAccept(Work(s), f), rest)
  <2> DEFINE slot == IF f.slot = "absent" \/ Work(s).ch.negotiated = "null" THEN "absent"
                     ELSE Work(s).ch.negotiated
  <2>1. slot \in Slot
    BY <1>2 DEF Slot, Channel
  <2>2. ReplayAccept(Work(s), f) = Post(Work(s), "ACCEPT", f.pid, slot)
    BY DEF ReplayAccept
  <2> HIDE DEF slot
  <2>3. Good(s, ReplayAccept(Work(s), f))
    BY <1>1, <1>2, <2>1, <2>2, PostGood
  <2>4. QED
    BY <1>3, <2>3, HandledKeeps
<1>4. CASE Commit(s, Work(s), rest)
  BY <1>2, <1>4, HandledKeeps
<1>5. ASSUME ~Replayed(c)
      PROVE  Good(s, w) /\ w \in WorkOK /\ Sound(settings[s], w.ch) /\ ~w.ch.active
  BY <1>2, <1>5, AbandonGood DEF Replayed, Good
<1> HIDE DEF w
<1>6. CASE ~Replayed(c) /\ Commit(s, Answer(w, s, plain), rest)
  <2>1. plain \in Request /\ plain.slot = "absent"
    BY <1>1 DEF Request, Slot
  <2>2. Answerable(settings[s], w.ch, plain.slot)
    BY <1>5, <1>6, <2>1, PlaintextSlots DEF Answerable, Sound, Sealed
  <2> HIDE DEF plain
  <2>3. Good(s, Answer(w, s, plain))
    BY <1>5, <1>6, <2>1, <2>2, RequestAnswered
  <2>4. QED
    BY <1>6, <2>3, HandledKeeps
<1>7. ASSUME ~Replayed(c), NEW n \in Negotiations(w, s, f.slot),
             Commit(s, Answer(n.w, s, [pid |-> f.pid, slot |-> n.slot]), rest)
      PROVE  IInv' /\ AllKeep
  <2> DEFINE r == [pid |-> f.pid, slot |-> n.slot]
  <2>1. n.w \in WorkOK /\ n.slot \in Slot /\ Answerable(settings[s], n.w.ch, n.slot)
    BY <1>1, <1>5, <1>7, NegotiationsType
  <2>2. r \in Request /\ r.slot = n.slot
    BY <1>1, <2>1 DEF Request
  <2>3. Commit(s, Answer(n.w, s, r), rest)
    BY <1>7
  <2> HIDE DEF r
  <2>4. Good(s, Answer(n.w, s, r))
    BY <2>1, <2>2, RequestAnswered
  <2>5. QED
    BY <2>3, <2>4, HandledKeeps
<1>8. QED
  BY <1>3, <1>4, <1>6, <1>7 DEF HandleRequest, w

\* Confirming a request with a transport, or with none, opens a sound session.
LEMMA CompleteGood ==
  ASSUME NEW s, NEW w \in WorkOK, NEW p \in Pid, NEW slot \in Slot, ~chan[s].active, w.ch.ready,
         settings[s].strict => w.ch.transport.protocol = settings[s].asks
  PROVE  Good(s, Complete(w, p, slot))
<1> DEFINE v == [Untrack(w, p) EXCEPT !.ch = Activate(w, p).ch]
           c == [w.ch EXCEPT !.active = TRUE, !.pending = 0, !.scheduled = NoRequest,
                             !.awaiting = NoRequest, !.timer = NoFrame, !.session = p]
<1>1. Untrack(w, p) \in WorkOK /\ Activate(w, p) \in WorkOK /\ Activate(w, p).ch = c
  BY UntrackType, ActivateType
<1>2. c \in Channel
  BY <1>1 DEF WorkOK
<1>3. Sound(settings[s], c) /\ Keeps(chan[s], c)
  BY DEF Sound, Settled, Owned, Sealed, Keeps, WorkOK, Channel
<1> HIDE DEF c
<1>4. v \in WorkOK /\ v.ch = c
  BY <1>1, <1>2, ChannelWrite
<1> HIDE DEF v
<1>5. Good(s, v)
  BY <1>3, <1>4 DEF Good
<1>6. QED
  BY <1>5, PostGood DEF Complete, v

\* What an ACCEPT settles: plaintext, or the protocol asked for and a transport of it.
LEMMA SettlementsType ==
  ASSUME IInv, NEW s \in Side, NEW answered, NEW n \in Settlements(Work(s), s, answered),
         ~chan[s].active
  PROVE  /\ n.w \in WorkOK /\ n.slot \in Slot /\ n.w.ch.ready = chan[s].ready
         /\ n.slot = "none" => Good(s, n.w)
         /\ n.slot # "none" /\ settings[s].strict => n.w.ch.transport.protocol = settings[s].asks
<1> DEFINE w == Work(s)
<1>1. w \in WorkOK /\ w.ch = chan[s] /\ chan[s] \in Channel /\ Sound(settings[s], w.ch) /\ ~w.ch.active
  BY WorkGood DEF Good
<1> HIDE DEF w
<1>2. ASSUME NEW a, a.w \in WorkOK, a.slot \in Protocol \cup {"none"}, n = [a EXCEPT !.w.ch.negotiated = a.slot],
             a = [w |-> a.w, slot |-> a.slot]
      PROVE  /\ n.w \in WorkOK /\ n.slot = a.slot
             /\ n.w.ch = [a.w.ch EXCEPT !.negotiated = a.slot]
  <2>1. n = [[w |-> a.w, slot |-> a.slot] EXCEPT !.w.ch.negotiated = a.slot]
    BY <1>2
  <2>2. QED
    BY <1>2, <2>1, RecordType
<1>3. CASE answered \in Protocol /\ answered = settings[s].asks
  <2>1. PICK a \in Attachments(w, s, answered, "initiator") : n = [a EXCEPT !.w.ch.negotiated = a.slot]
    BY <1>3 DEF Settlements, w
  <2>2. /\ a.w \in WorkOK
        /\ \/ a.slot = "none" /\ Detached(w.ch, a.w.ch)
           \/ a.slot = answered /\ Attached(w.ch, answered, a.w.ch)
    BY <1>1, <1>3, AttachmentsType DEF Role
  <2>3. a = [w |-> a.w, slot |-> a.slot]
    BY DEF Attachments
  <2>4. /\ n.w \in WorkOK /\ n.slot = a.slot
        /\ n.w.ch = [a.w.ch EXCEPT !.negotiated = a.slot]
    BY <1>2, <1>3, <2>1, <2>2, <2>3
  <2>5. CASE a.slot = "none" /\ Detached(w.ch, a.w.ch)
    <3>1. Sound(settings[s], n.w.ch) /\ ~n.w.ch.active /\ n.w.ch.ready = chan[s].ready
      BY <1>1, <2>4, <2>5, PlaintextSlots DEF Sound, Settled, Owned, Sealed, Channel, Detached
    <3>2. QED
      BY <2>4, <2>5, <3>1, IdleKeeps DEF Slot
  <2>6. CASE a.slot = answered /\ Attached(w.ch, answered, a.w.ch)
    <3>1. n.w.ch.ready = chan[s].ready /\ n.w.ch.transport.protocol = answered
      BY <1>1, <2>4, <2>6 DEF Channel, Attached
    <3>2. QED
      BY <1>3, <2>4, <2>6, <3>1, PlaintextSlots DEF Slot
  <2>7. QED
    BY <2>2, <2>5, <2>6
<1>4. CASE ~(answered \in Protocol /\ answered = settings[s].asks)
  <2> DEFINE a == [w |-> w, slot |-> "none"]
  <2>1. n = [a EXCEPT !.w.ch.negotiated = a.slot]
    BY <1>4 DEF Settlements, w
  <2>2. a.w = w /\ a.slot = "none" /\ a = [w |-> a.w, slot |-> a.slot]
    OBVIOUS
  <2> HIDE DEF a
  <2>3. n.w \in WorkOK /\ n.slot = "none" /\ n.w.ch = [w.ch EXCEPT !.negotiated = "none"]
    BY <1>1, <1>2, <2>1, <2>2
  <2>4. Sound(settings[s], n.w.ch) /\ ~n.w.ch.active /\ n.w.ch.ready = chan[s].ready
    BY <1>1, <2>3, PlaintextSlots DEF Sound, Settled, Owned, Sealed, Channel
  <2>5. QED
    BY <2>3, <2>4, IdleKeeps DEF Slot
<1>5. QED
  BY <1>3, <1>4

LEMMA HandleAcceptKeeps ==
  ASSUME IInv, NEW s \in Side, NEW f \in Frame, f.type = "ACCEPT", NEW rest \in Seq(Frame),
         HandleAccept(s, f, rest), UNCHANGED nextPid
  PROVE  IInv' /\ AllKeep
<1> DEFINE c == chan[s]
           active == IF c.transport # NoTransport THEN c.negotiated ELSE "none"
           slot == IF c.negotiated = "null" THEN "absent" ELSE active
<1>1. f.pid \in Pid /\ f.slot \in Slot
  BY HandshakeFrame
<1>2. /\ Good(s, Work(s)) /\ Work(s).ch = chan[s] /\ chan[s] \in Channel
      /\ Work(s) \in WorkOK /\ Sound(settings[s], chan[s])
      /\ c.pending = f.pid => c.ready
  BY <1>1, WorkGood, Placeholders DEF Good, Sound, Settled
<1>3. \A w : Good(s, w) => Good(s, Abort(w, f.pid))
  BY <1>1, AbandonGood, PostGood DEF Abort, Slot
<1>4. CASE Commit(s, Post(Work(s), "OPEN", f.pid, slot), rest)
  <2>1. slot \in Slot
    BY <1>2 DEF Slot, Channel
  <2> HIDE DEF slot
  <2>2. Good(s, Post(Work(s), "OPEN", f.pid, slot))
    BY <1>1, <1>2, <2>1, PostGood
  <2>3. QED
    BY <1>4, <2>2, HandledKeeps
<1>5. CASE Commit(s, Work(s), rest)
  BY <1>2, <1>5, HandledKeeps
<1>6. CASE Commit(s, Abort(Work(s), f.pid), rest)
  BY <1>2, <1>3, <1>6, HandledKeeps
<1>7. CASE /\ ~c.active /\ c.pending = f.pid /\ ~settings[s].strict
           /\ Commit(s, Complete(Work(s), f.pid, "absent"), rest)
  <2>1. Good(s, Complete(Work(s), f.pid, "absent"))
    BY <1>1, <1>2, <1>7, CompleteGood DEF Slot
  <2>2. QED
    BY <1>7, <2>1, HandledKeeps
<1>8. ASSUME ~c.active, c.pending = f.pid, NEW n \in Settlements(Work(s), s, f.slot),
             Commit(s, IF n.slot = "none" /\ settings[s].strict
                       THEN Abort(n.w, f.pid) ELSE Complete(n.w, f.pid, n.slot), rest)
      PROVE  IInv' /\ AllKeep
  <2>1. /\ n.w \in WorkOK /\ n.slot \in Slot /\ n.w.ch.ready
        /\ n.slot = "none" => Good(s, n.w)
        /\ n.slot # "none" /\ settings[s].strict => n.w.ch.transport.protocol = settings[s].asks
    BY <1>2, <1>8, SettlementsType
  <2>2. CASE n.slot = "none" /\ settings[s].strict
    BY <1>3, <1>8, <2>1, <2>2, HandledKeeps
  <2>3. CASE ~(n.slot = "none" /\ settings[s].strict)
    <3>1. Good(s, Complete(n.w, f.pid, n.slot))
      BY <1>1, <1>8, <2>1, <2>3, CompleteGood
    <3>2. QED
      BY <1>8, <2>3, <3>1, HandledKeeps
  <2>4. QED
    BY <2>2, <2>3
<1>9. QED
  BY <1>4, <1>5, <1>6, <1>7, <1>8 DEF HandleAccept

LEMMA HandleOpenKeeps ==
  ASSUME IInv, NEW s \in Side, NEW f \in Frame, f.type = "OPEN", NEW rest \in Seq(Frame),
         HandleOpen(s, f, rest), UNCHANGED nextPid
  PROVE  IInv' /\ AllKeep
<1> DEFINE c == chan[s]
           t == settings[s]
           w == Untrack(Work(s), f.pid)
           plain == [DropTransport(w) EXCEPT !.ch.negotiated = "none"]
           settled == IF ConfirmsActive(c, f) THEN w ELSE plain
           d == [c EXCEPT !.transport = NoTransport, !.negotiated = "none"]
<1>1. f.pid \in Pid
  BY HandshakeFrame
<1>2. Good(s, w) /\ w \in WorkOK /\ w.ch = c /\ c \in Channel /\ Sound(t, c)
  BY WorkGood, UntrackGood, UntrackType DEF Good
<1>3. CASE Commit(s, w, rest)
  BY <1>2, <1>3, HandledKeeps
<1>4. CASE /\ c.awaiting.pid = f.pid
           /\ Commit(s, IF OpenAnyway(s, c, f) THEN Activate(settled, f.pid)
                        ELSE Post(CancelQuietly(settled), "CANCEL", f.pid, "absent"), rest)
  <2>1. c.awaiting # NoRequest /\ ~c.active
    BY <1>1, <1>2, <1>4, Placeholders DEF NoRequest, Sound, Settled
  <2>2. plain \in WorkOK /\ plain.ch = d /\ d \in Channel
    <3>1. DropTransport(w) \in WorkOK /\ DropTransport(w).ch = [c EXCEPT !.transport = NoTransport]
      BY <1>2, DropTransportType
    <3>2. plain = [DropTransport(w) EXCEPT !.ch = d] /\ d \in Channel
      BY <1>2, <3>1 DEF WorkOK, Channel
    <3> HIDE DEF d, plain
    <3>3. QED
      BY <3>1, <3>2, ChannelWrite
  <2>3. Sound(t, d) /\ ~d.active
    BY <1>2, <2>1, PlaintextSlots DEF Sound, Settled, Owned, Sealed, Channel
  <2> HIDE DEF w, plain, d
  <2>4. /\ settled \in WorkOK /\ Sound(t, settled.ch) /\ ~settled.ch.active
        /\ settled.ch.ready /\ settled.ch.earlier = c.earlier
    <3>1. c.ready /\ d.ready /\ d.earlier = c.earlier
      BY <1>2, <2>1 DEF Sound, Settled, Channel, d
    <3>2. QED
      BY <1>2, <2>1, <2>2, <2>3, <3>1
  <2>5. CASE OpenAnyway(s, c, f)
    <3>1. t.strict => settled.ch.transport.protocol = t.asks \/ f.pid = settled.ch.earlier
      BY <1>2, <1>4, <2>1, <2>4, <2>5 DEF OpenAnyway, ConfirmsActive, Sound, Sealed
    <3> HIDE DEF settled
    <3> DEFINE e == [settled.ch EXCEPT !.active = TRUE, !.pending = 0, !.scheduled = NoRequest,
                                       !.awaiting = NoRequest, !.timer = NoFrame, !.session = f.pid]
    <3>2. Activate(settled, f.pid) \in WorkOK /\ Activate(settled, f.pid).ch = e
      BY <1>1, <2>4, ActivateType
    <3>3. Sound(t, e)
      BY <2>4, <3>1 DEF Sound, Settled, Owned, Sealed, WorkOK, Channel
    <3> HIDE DEF e
    <3>4. Good(s, Activate(settled, f.pid))
      BY <2>1, <3>2, <3>3 DEF Good, Keeps
    <3>5. QED
      BY <1>4, <2>5, <3>4, HandledKeeps
  <2>6. CASE ~OpenAnyway(s, c, f)
    <3>1. Good(s, settled)
      BY <2>4, IdleKeeps
    <3> HIDE DEF settled
    <3>2. Good(s, CancelQuietly(settled))
      BY <3>1, CancelGood
    <3>3. Good(s, Post(CancelQuietly(settled), "CANCEL", f.pid, "absent"))
      BY <1>1, <3>2, PostGood DEF Slot
    <3>4. QED
      BY <1>4, <2>6, <3>3, HandledKeeps
  <2>7. QED
    BY <2>5, <2>6
<1>5. QED
  BY <1>3, <1>4 DEF HandleOpen

LEMMA HandleDenyKeeps ==
  ASSUME IInv, NEW s \in Side, NEW f \in Frame, f.type = "DENY", NEW rest \in Seq(Frame),
         HandleDeny(s, f, rest), UNCHANGED nextPid
  PROVE  IInv' /\ AllKeep
<1>1. Good(s, Work(s))
  BY WorkGood
<1>2. Good(s, Untrack(AbandonRequest(Work(s)), f.pid))
  BY <1>1, AbandonGood, UntrackGood
<1>3. QED
  BY <1>1, <1>2, HandledKeeps DEF HandleDeny

LEMMA HandleCancelKeeps ==
  ASSUME IInv, NEW s \in Side, NEW f \in Frame, f.type = "CANCEL", NEW rest \in Seq(Frame),
         HandleCancel(s, f, rest), UNCHANGED nextPid
  PROVE  IInv' /\ AllKeep
<1> DEFINE w == Post(CancelQuietly(Work(s)), "CANCEL_ACK", f.pid, "absent")
<1>1. Good(s, CancelQuietly(Work(s))) /\ f.pid \in Pid
  BY WorkGood, CancelGood, HandshakeFrame
<1>2. Good(s, w)
  BY <1>1, PostGood DEF Slot
<1>3. Good(s, Untrack(w, f.pid))
  BY <1>2, UntrackGood
<1>4. QED
  BY <1>3, HandledKeeps DEF HandleCancel

LEMMA HandleCancelAcknowledgedKeeps ==
  ASSUME IInv, NEW s \in Side, NEW f \in Frame, NEW rest \in Seq(Frame),
         HandleCancelAcknowledged(s, f, rest), UNCHANGED nextPid
  PROVE  IInv' /\ AllKeep
<1>1. Good(s, Untrack(Work(s), f.pid))
  BY WorkGood, UntrackGood
<1>2. QED
  BY <1>1, HandledKeeps DEF HandleCancelAcknowledged

\* A transport that is keyed or confirmed is the same transport.
LEMMA SameTransportGood ==
  ASSUME NEW s, NEW w, Good(s, w), w.ch.transport # NoTransport, NEW t \in Transport,
         t.key = w.ch.transport.key, t.protocol = w.ch.transport.protocol
  PROVE  Good(s, [w EXCEPT !.ch.transport = t])
<1> DEFINE c == [w.ch EXCEPT !.transport = t]
<1>1. w \in WorkOK /\ w.ch \in Channel /\ Sound(settings[s], w.ch) /\ Keeps(chan[s], w.ch)
  BY DEF Good, WorkOK
<1>2. [w EXCEPT !.ch.transport = t] = [w EXCEPT !.ch = c] /\ c \in Channel
  BY <1>1 DEF WorkOK, Channel
<1>3. Sound(settings[s], c)
  BY <1>1 DEF Sound, Settled, Owned, Sealed, Channel
<1>4. Keeps(chan[s], c)
  BY <1>1 DEF Keeps, Channel
<1> HIDE DEF c
<1>5. [w EXCEPT !.ch = c] \in WorkOK /\ [w EXCEPT !.ch = c].ch = c
  BY <1>1, <1>2, ChannelWrite
<1>6. QED
  BY <1>2, <1>3, <1>4, <1>5 DEF Good

LEMMA HandleHelloKeeps ==
  ASSUME IInv, NEW s \in Side, NEW f \in Frame, f.type = "HELLO", NEW rest \in Seq(Frame),
         HandleHello(s, f, rest), UNCHANGED nextPid
  PROVE  IInv' /\ AllKeep
<1> DEFINE t == chan[s].transport
           keyed == [t EXCEPT !.peer = f.key]
           opened == \E sealed \in t.waiting : Opens(keyed, sealed)
           u == [keyed EXCEPT !.waiting = {}, !.confirmed = opened]
           w == [Work(s) EXCEPT !.ch.transport = u]
           g == [type |-> "CONFIRMED", protocol |-> t.protocol, key |-> t.key,
                 to |-> f.key, role |-> t.role]
<1>1. Good(s, Work(s)) /\ Work(s).ch = chan[s] /\ chan[s] \in Channel /\ f.key \in Key
  BY WorkGood, HelloFrame
<1>2. CASE Commit(s, Work(s), rest)
  BY <1>1, <1>2, HandledKeeps
<1>3. CASE t # NoTransport /\ Commit(s, PostFrame(w, g), rest)
  <2>1. t \in Transport
    BY <1>1, <1>3 DEF Channel
  <2>2. opened \in BOOLEAN
    OBVIOUS
  <2> HIDE DEF opened
  <2>3. u \in Transport /\ u.key = t.key /\ u.protocol = t.protocol
    BY <1>1, <2>1, <2>2 DEF Transport
  <2> HIDE DEF u
  <2>4. Good(s, w)
    BY <1>1, <1>3, <2>3, SameTransportGood
  <2> HIDE DEF w
  <2>5. g \in Frame
    BY <1>1, <2>1 DEF Transport, Confirmed, Frame
  <2> HIDE DEF g
  <2>6. PostFrame(w, g) \in WorkOK /\ PostFrame(w, g).ch = w.ch
    BY <2>4, <2>5, PostFrameType DEF Good
  <2>7. Good(s, PostFrame(w, g))
    BY <2>4, <2>6 DEF Good
  <2>8. QED
    BY <1>3, <2>7, HandledKeeps
<1>4. QED
  BY <1>2, <1>3 DEF HandleHello

LEMMA HandleConfirmedKeeps ==
  ASSUME IInv, NEW s \in Side, NEW f \in Frame, f.type = "CONFIRMED", NEW rest \in Seq(Frame),
         HandleConfirmed(s, f, rest), UNCHANGED nextPid
  PROVE  IInv' /\ AllKeep
<1> DEFINE t == chan[s].transport
           kept == [t EXCEPT !.waiting = @ \cup {f}]
           known == [t EXCEPT !.confirmed = @ \/ Opens(t, f)]
           v == [Work(s) EXCEPT !.ch.transport.waiting = @ \cup {f}]
           w == [Work(s) EXCEPT !.ch.transport.confirmed = @ \/ Opens(t, f)]
<1>1. /\ Good(s, Work(s)) /\ Work(s) \in WorkOK /\ Work(s).ch = chan[s] /\ chan[s] \in Channel
      /\ f \in Confirmed
  BY WorkGood, ConfirmedFrame DEF Good
<1>2. CASE Commit(s, Work(s), rest)
  BY <1>1, <1>2, HandledKeeps
<1>3. CASE t # NoTransport /\ (Commit(s, v, rest) \/ Commit(s, w, rest))
  <2>1. t \in Transport
    BY <1>1, <1>3 DEF Channel
  <2>2. kept \in Transport /\ kept.key = t.key /\ kept.protocol = t.protocol
    BY <1>1, <2>1 DEF Transport
  <2>3. known \in Transport /\ known.key = t.key /\ known.protocol = t.protocol
    BY <2>1 DEF Transport
  <2>4. v = [Work(s) EXCEPT !.ch.transport = kept]
    BY <1>1, <2>1 DEF WorkOK, Channel, Transport
  <2>5. w = [Work(s) EXCEPT !.ch.transport = known]
    BY <1>1, <2>1 DEF WorkOK, Channel, Transport
  <2> HIDE DEF kept, known, v, w
  <2>6. Good(s, v) /\ Good(s, w)
    BY <1>1, <1>3, <2>2, <2>3, <2>4, <2>5, SameTransportGood
  <2>7. QED
    BY <1>3, <2>6, HandledKeeps
<1>4. QED
  BY <1>2, <1>3 DEF HandleConfirmed

-----------------------------------------------------------------------------
(* The theorems.                                                           *)

LEMMA DeliverKeeps ==
  ASSUME IInv, NEW s \in Side, Deliver(s)
  PROVE  IInv' /\ AllKeep
<1> DEFINE f == Head(net[s])
           rest == Tail(net[s])
<1>1. f \in Frame /\ rest \in Seq(Frame) /\ UNCHANGED nextPid
  BY Arrives DEF Deliver
<1>2. \/ f.type = "REQUEST"    /\ HandleRequest(s, f, rest)
      \/ f.type = "ACCEPT"     /\ HandleAccept(s, f, rest)
      \/ f.type = "OPEN"       /\ HandleOpen(s, f, rest)
      \/ f.type = "DENY"       /\ HandleDeny(s, f, rest)
      \/ f.type = "CANCEL"     /\ HandleCancel(s, f, rest)
      \/ f.type = "CANCEL_ACK" /\ HandleCancelAcknowledged(s, f, rest)
      \/ f.type = "HELLO"      /\ HandleHello(s, f, rest)
      \/ f.type = "CONFIRMED"  /\ HandleConfirmed(s, f, rest)
  BY DEF Deliver
<1> HIDE DEF f, rest
<1>3. QED
  BY <1>1, <1>2, HandleRequestKeeps, HandleAcceptKeeps, HandleOpenKeeps, HandleDenyKeeps,
     HandleCancelKeeps, HandleCancelAcknowledgedKeeps, HandleHelloKeeps, HandleConfirmedKeeps

LEMMA InitIInv == Init => IInv
<1> SUFFICES ASSUME Init PROVE IInv
  OBVIOUS
<1> DEFINE c == [ready |-> FALSE, active |-> FALSE, pending |-> 0, scheduled |-> NoRequest,
                 awaiting |-> NoRequest, timer |-> NoFrame, negotiated |-> "null",
                 transport |-> NoTransport, session |-> 0, earlier |-> 0]
<1>1. c \in Channel
  BY DEF Channel
<1>2. \A s \in Side : Sound(settings[s], c)
  BY PlaintextSlots DEF Sound, Settled, Owned, Sealed
<1>3. /\ settings \in [Side -> Setting]
      /\ chan = [s \in Side |-> c] /\ procs = [s \in Side |-> {}]
      /\ net = [s \in Side |-> << >>] /\ nextPid = 1
  BY SettingsAssumption DEF Init
<1> HIDE DEF c
<1>4. << >> \in Seq(Frame) /\ 1 \in 1 .. MaxPid + 1
  BY MaxPidAssumption
<1>5. TypeOK
  BY <1>1, <1>3, <1>4 DEF TypeOK
<1>6. QED
  BY <1>2, <1>3, <1>5 DEF IInv

\* Every step keeps the invariant, and every session its transport.
LEMMA NextKeeps == IInv /\ [Next]_vars => IInv' /\ AllKeep
<1> SUFFICES ASSUME IInv, [Next]_vars PROVE IInv' /\ AllKeep
  OBVIOUS
<1>1. CASE UNCHANGED vars
  BY <1>1 DEF vars, IInv, TypeOK, AllKeep, Keeps
<1>2. ASSUME NEW s \in Side,
             \/ ApplySecuritySettings(s)
             \/ ConnectRequest(s) \/ ConnectAnswer(s) \/ Cancel(s) \/ CloseSilently(s)
             \/ Retry(s) \/ Expire(s) \/ PostHello(s) \/ ConfirmTimeout(s)
             \/ Deliver(s)
      PROVE  IInv' /\ AllKeep
  BY <1>2, ApplySecuritySettingsKeeps, ConnectRequestKeeps, ConnectAnswerKeeps, CancelKeeps, CloseSilentlyKeeps, RetryKeeps,
     ExpireKeeps, PostHelloKeeps, ConfirmTimeoutKeeps, DeliverKeeps
<1>3. QED
  BY <1>1, <1>2 DEF Next

LEMMA Invariance == Spec => []IInv
<1>1. QED
  BY InitIInv, NextKeeps, PTL DEF Spec

\* Every channel, frame and transport stays well formed: a slot in flight is a
\* protocol, plaintext or absent, whatever the two sides could agree on.
THEOREM TypeCorrect == Spec => []TypeOK
<1>1. IInv => TypeOK
  BY DEF IInv
<1>2. QED
  BY <1>1, Invariance, PTL

\* No order of handshake frames, provider failures, closes, timeouts and settings
\* applied late leads a fail-closed channel into a session without the protocol it
\* asks for, but for the session of a request negotiated before those settings came.
THEOREM StrictStaysSealed == Spec => []StrictSealed
<1>1. IInv => StrictSealed
  BY DEF IInv, Sound, Sealed, StrictSealed
<1>2. QED
  BY <1>1, Invariance, PTL

\* No cancel, expiry, close or abandoned answer leaves a transport on a channel
\* that has neither a session nor an answer to be confirmed.
THEOREM TransportsAreOwned == Spec => []TransportOwned
<1>1. IInv => TransportOwned
  BY DEF IInv, Sound, Owned, TransportOwned
<1>2. QED
  BY <1>1, Invariance, PTL

\* While a session lasts, duplicate requests, answers and confirmations neither
\* replace nor drop the transport it opened with.
THEOREM SessionsKeepTransport == Spec => NeverRekeyed
<1>1. IInv /\ [Next]_vars =>
        [\A s \in Side : chan[s].active /\ chan'[s].active =>
           chan'[s].transport.key = chan[s].transport.key]_vars
  BY NextKeeps DEF AllKeep, Keeps
<1>2. QED
  BY <1>1, Invariance, PTL DEF Spec, NeverRekeyed

-----------------------------------------------------------------------------
(* Two sealed ends.  The invariant follows one attempt through the two     *)
(* channels: `own' says which side minted each process.                    *)

\* What a side's requests carry, and whether it may settle for what the other asks.
Asked(t) == IF t.asks = "none" THEN "absent" ELSE t.asks
Common(st, s) ==
  LET asks == st[Other(s)].asks IN asks \in st[s].offers /\ st[s].asks \in {"none", asks}

\* A request of its own excludes an answer, and only a side that may settle for a
\* protocol keeps one from answer to answer.
Fits(st, s, c) ==
  /\ c.active <=> c.session # 0
  /\ c.pending # 0 => ~c.active /\ c.awaiting = NoRequest
  /\ c.timer.type = "REQUEST" => c.timer.slot = Asked(st[s])
  /\ c.transport # NoTransport /\ c.awaiting # NoRequest => Common(st, s)
  /\ c.scheduled.slot \in Protocol => Common(st, s)
  /\ \A f \in c.transport.waiting : f.protocol = c.transport.protocol

\* A side requests under the processes it minted, and answers those of the other.
Of(own, s, p) == p < nextPid /\ own[p] = s
Directed(own, s) ==
  LET c == chan[s]
      o == Other(s)
  IN
  /\ c.session < nextPid
  /\ c.pending # 0 => Of(own, s, c.pending)
  /\ c.timer.type = "REQUEST" => Of(own, s, c.timer.pid)
  /\ c.scheduled # NoRequest => Of(own, o, c.scheduled.pid)
  /\ c.awaiting # NoRequest => Of(own, o, c.awaiting.pid)
  /\ \A f \in ToSet(net[s]) : f.type = "REQUEST" => Of(own, o, f.pid) /\ f.slot = Asked(settings[o])

\* While a side asks or runs what the other answers, every confirmation of the
\* answering transport comes from the asking one, keyed to it.
Vouched(own, i) ==
  LET c == chan[i]
      d == chan[Other(i)]
      t == c.transport
      u == d.transport
  IN \A p \in Pid :
       /\ own[p] = i /\ u # NoTransport
       /\ c.pending = p \/ c.session = p
       /\ d.awaiting.pid = p \/ d.session = p
       =>
       /\ \A f \in ToSet(net[Other(i)]) \cup u.waiting : f.type = "CONFIRMED" /\ f.to = u.key =>
            /\ t # NoTransport /\ t.peer = u.key
            /\ f.key = t.key /\ f.protocol = t.protocol
       /\ u.confirmed => /\ t # NoTransport /\ t.peer = u.key
                         /\ u.peer = t.key /\ u.protocol = t.protocol

\* Nobody has confirmed a side's transport.
Unheard(s) ==
  LET t == chan[s].transport IN
  ~t.confirmed /\ \A f \in ToSet(net[s]) \cup t.waiting : f.type = "CONFIRMED" => f.to # t.key

\* An OPEN of the process is in flight, ahead of every hello of the key material and
\* behind every request of the process.
Leading(q, p, k) ==
  \E n \in 1 .. Len(q) :
    /\ q[n].type = "OPEN" /\ q[n].pid = p
    /\ \A m \in 1 .. n : q[m].type = "HELLO" => q[m].key # k
    /\ \A m \in n .. Len(q) : q[m].type = "REQUEST" => q[m].pid # p

\* The OPEN of a session travels ahead of the hello of its transport ...
Ahead(i, p) == Unheard(i) /\ Leading(net[Other(i)], p, chan[i].transport.key)

\* ... and has ended the process where it arrived: a plaintext session found there
\* was opened before any confirmation.
Passed(i, p) ==
  LET o == Other(i) IN
  /\ p \notin procs[o]
  /\ \A f \in ToSet(net[o]) : f.type = "REQUEST" => f.pid # p
  /\ chan[o].session = p /\ chan[o].transport = NoTransport => Unheard(i)

Heralded(own, i) ==
  \A p \in Pid : own[p] = i /\ chan[i].session = p /\ chan[i].transport # NoTransport =>
    Ahead(i, p) \/ Passed(i, p)

Linked(own) ==
  /\ own \in [Pid -> Side]
  /\ \A s \in Side : /\ Fits(settings, s, chan[s])
                     /\ Directed(own, s) /\ Vouched(own, s) /\ Heralded(own, s)

-----------------------------------------------------------------------------
(* Steps of one side.                                                      *)

Fresh(t) == /\ t \in Transport /\ t.key \notin InUse
            /\ t.peer = None /\ t.waiting = {} /\ ~t.confirmed
Bare(t) == t = NoTransport \/ Fresh(t)

\* What a side, handling the frame h or none and minting the processes M, makes of
\* its channel ...
Leads(s, h, M, d) ==
  LET c == chan[s] IN
  /\ Fits(settings, s, d)
  /\ d.pending \in {0, c.pending} \cup M
  /\ d.timer.type = "REQUEST" => d.timer = c.timer \/ d.timer.pid \in M
  /\ \/ d.scheduled \in {NoRequest, c.scheduled}
     \/ h.type = "REQUEST" /\ d.scheduled.pid = h.pid
  /\ \/ d.awaiting \in {NoRequest, c.awaiting}
     \/ /\ d.awaiting = c.scheduled \/ (h.type = "REQUEST" /\ d.awaiting.pid = h.pid)
        /\ Bare(d.transport)
  /\ d.transport = c.transport \/ Bare(d.transport)

\* ... posts ...
Posts(s, M, out) ==
  \/ out = << >>
  \/ \E f \in Frame : /\ out = <<f>> /\ f.type # "CONFIRMED"
                      /\ f.type = "REQUEST" =>
                           f = chan[s].timer \/ (f.pid \in M /\ f.slot = Asked(settings[s]))

\* ... and tracks.
Tracks(s, h, M, ps) ==
  ps \subseteq procs[s] \cup M \cup (IF h.type = "REQUEST" THEN {h.pid} ELSE {})

\* The sessions it opens: of its own request, whose OPEN leaves, or of a process it
\* tracks, whose OPEN arrived.
Opening(s, h, w) ==
  \/ w.ch.session \in {0, chan[s].session}
  \/ /\ w.ch.session = chan[s].pending /\ Bare(w.ch.transport)
     /\ \E f \in Frame : f.type = "OPEN" /\ f.pid = w.ch.session /\ w.out = <<f>>
  \/ /\ h.type = "OPEN" /\ w.ch.session = chan[s].awaiting.pid
     /\ h.pid = w.ch.session /\ h.pid \in procs[s]

Meant(s, h, M, w) ==
  /\ Leads(s, h, M, w.ch)
  /\ Posts(s, M, w.out) /\ Tracks(s, h, M, w.procs) /\ Opening(s, h, w)

Taken(s, h, rest) ==
  \/ h = NoFrame /\ rest = net[s]
  \/ net[s] # << >> /\ h = Head(net[s]) /\ rest = Tail(net[s])

Step(s, h, M, w, rest) ==
  /\ Taken(s, h, rest) /\ Commit(s, w, rest)
  /\ \/ M = {} /\ UNCHANGED nextPid
     \/ M = {nextPid} /\ Mint
  /\ Meant(s, h, M, w)
  /\ h.type = "OPEN" => h.pid \notin w.procs
  /\ IInv' /\ AllKeep

-----------------------------------------------------------------------------
LEMMA OtherOther == ASSUME NEW s \in Side PROVE Other(Other(s)) = s
BY DEF Side, Other

\* Posting one frame.
Posted(q, f, v) ==
  /\ v \in Seq(Frame) /\ Len(v) = Len(q) + 1
  /\ \A n \in 1 .. Len(q) : v[n] = q[n]
  /\ v[Len(q) + 1] = f
  /\ ToSet(v) = ToSet(q) \cup {f}

LEMMA PostedFrame ==
  ASSUME NEW q \in Seq(Frame), NEW f \in Frame
  PROVE  Posted(q, f, q \o <<f>>)
<1> DEFINE v == q \o <<f>>
<1>1. /\ v \in Seq(Frame) /\ Len(v) = Len(q) + 1
      /\ \A n \in 1 .. Len(q) : v[n] = q[n]
      /\ v[Len(q) + 1] = f
  OBVIOUS
<1>2. DOMAIN v = 1 .. Len(q) + 1 /\ DOMAIN q = 1 .. Len(q)
  BY <1>1
<1> HIDE DEF v
<1>3. ToSet(v) = ToSet(q) \cup {f}
  BY <1>1, <1>2 DEF ToSet
<1>4. QED
  BY <1>1, <1>3 DEF Posted, v

\* Taking one.
Removed(q, f, v) ==
  /\ v \in Seq(Frame) /\ Len(q) \in Nat /\ Len(v) = Len(q) - 1
  /\ f \in Frame /\ f = q[1] /\ f \in ToSet(q)
  /\ \A n \in 1 .. Len(q) - 1 : v[n] = q[n + 1]
  /\ ToSet(v) \subseteq ToSet(q)

LEMMA RemovedFrame ==
  ASSUME NEW q \in Seq(Frame), q # << >>
  PROVE  Removed(q, Head(q), Tail(q))
<1>1. /\ Head(q) \in Frame /\ Head(q) = q[1] /\ Len(q) \in Nat \ {0}
      /\ Tail(q) \in Seq(Frame) /\ Len(Tail(q)) = Len(q) - 1
      /\ \A n \in 1 .. Len(q) - 1 : Tail(q)[n] = q[n + 1]
  OBVIOUS
<1>2. ToSet(Tail(q)) \subseteq ToSet(q)
  BY <1>1 DEF ToSet
<1>3. QED
  BY <1>1, <1>2 DEF ToSet, Removed

\* An OPEN that leads stays ahead of what is posted, until it is taken.
LEMMA LeadingPosted ==
  ASSUME NEW q \in Seq(Frame), NEW f \in Frame, NEW v, Posted(q, f, v), NEW p, NEW k,
         Leading(q, p, k), f.type = "REQUEST" => f.pid # p
  PROVE  Leading(v, p, k)
<1>1. PICK n \in 1 .. Len(q) :
        /\ q[n].type = "OPEN" /\ q[n].pid = p
        /\ \A m \in 1 .. n : q[m].type = "HELLO" => q[m].key # k
        /\ \A m \in n .. Len(q) : q[m].type = "REQUEST" => q[m].pid # p
  BY DEF Leading
<1>2. /\ Len(v) = Len(q) + 1 /\ v[Len(q) + 1] = f
      /\ \A m \in 1 .. Len(q) : v[m] = q[m]
  BY DEF Posted
<1>3. n \in 1 .. Len(v) /\ v[n] = q[n]
  BY <1>1, <1>2
<1>4. \A m \in 1 .. n : v[m] = q[m]
  BY <1>1, <1>2
<1>5. ASSUME NEW m \in n .. Len(v), v[m].type = "REQUEST" PROVE v[m].pid # p
  <2>1. CASE m = Len(q) + 1
    BY <1>2, <1>5, <2>1
  <2>2. CASE m # Len(q) + 1
    <3>1. m \in n .. Len(q) /\ v[m] = q[m]
      BY <1>1, <1>2, <1>5, <2>2
    <3>2. QED
      BY <1>1, <1>5, <3>1
  <2>3. QED
    BY <2>1, <2>2
<1>6. QED
  BY <1>1, <1>3, <1>4, <1>5 DEF Leading

LEMMA LeadingRemoved ==
  ASSUME NEW q \in Seq(Frame), NEW f, NEW v, Removed(q, f, v), NEW p, NEW k, Leading(q, p, k)
  PROVE  \/ /\ f.type = "OPEN" /\ f.pid = p
            /\ \A g \in ToSet(v) : g.type = "REQUEST" => g.pid # p
         \/ Leading(v, p, k) /\ (f.type = "HELLO" => f.key # k)
<1>1. PICK n \in 1 .. Len(q) :
        /\ q[n].type = "OPEN" /\ q[n].pid = p
        /\ \A m \in 1 .. n : q[m].type = "HELLO" => q[m].key # k
        /\ \A m \in n .. Len(q) : q[m].type = "REQUEST" => q[m].pid # p
  BY DEF Leading
<1>2. /\ f = q[1] /\ v \in Seq(Frame) /\ Len(q) \in Nat /\ Len(v) = Len(q) - 1
      /\ \A m \in 1 .. Len(q) - 1 : v[m] = q[m + 1]
  BY DEF Removed
<1>3. CASE n = 1
  <2> SUFFICES ASSUME NEW g \in ToSet(v), g.type = "REQUEST" PROVE g.pid # p
    BY <1>1, <1>2, <1>3
  <2>1. PICK m \in 1 .. Len(v) : g = v[m]
    BY <1>2 DEF ToSet
  <2>2. m + 1 \in n .. Len(q) /\ g = q[m + 1]
    BY <1>2, <1>3, <2>1
  <2>3. QED
    BY <1>1, <2>2
<1>4. CASE n # 1
  <2> DEFINE k1 == n - 1
  <2>1. k1 \in 1 .. Len(v) /\ v[k1] = q[n]
    BY <1>1, <1>2, <1>4
  <2>2. \A m \in 1 .. k1 : v[m].type = "HELLO" => v[m].key # k
    <3> SUFFICES ASSUME NEW m \in 1 .. k1 PROVE v[m].type = "HELLO" => v[m].key # k
      OBVIOUS
    <3>1. m + 1 \in 1 .. n /\ v[m] = q[m + 1]
      BY <1>1, <1>2
    <3>2. QED
      BY <1>1, <3>1
  <2>3. \A m \in k1 .. Len(v) : v[m].type = "REQUEST" => v[m].pid # p
    <3> SUFFICES ASSUME NEW m \in k1 .. Len(v) PROVE v[m].type = "REQUEST" => v[m].pid # p
      OBVIOUS
    <3>1. m + 1 \in n .. Len(q) /\ v[m] = q[m + 1]
      BY <1>1, <1>2, <1>4
    <3>2. QED
      BY <1>1, <3>1
  <2>4. f.type = "HELLO" => f.key # k
    BY <1>1, <1>2
  <2> HIDE DEF k1
  <2>5. QED
    BY <1>1, <2>1, <2>2, <2>3, <2>4 DEF Leading
<1>5. QED
  BY <1>3, <1>4

LEMMA CommitEffect ==
  ASSUME IInv, NEW s \in Side, NEW w, NEW rest, Commit(s, w, rest)
  PROVE  /\ chan'[s] = w.ch /\ chan'[Other(s)] = chan[Other(s)]
         /\ procs'[s] = w.procs /\ procs'[Other(s)] = procs[Other(s)]
         /\ net'[s] = rest /\ net'[Other(s)] = net[Other(s)] \o w.out
         /\ settings' = settings
<1>1. Other(s) \in Side /\ Other(s) # s
  BY OtherSide
<1>2. /\ chan \in [Side -> Channel] /\ procs \in [Side -> SUBSET Pid]
      /\ net \in [Side -> Seq(Frame)]
  BY DEF IInv, TypeOK
<1>3. QED
  BY <1>1, <1>2 DEF Commit

\* The minted process is the step's side's, and the others keep their owners.
Inherits(own, s, M, own2) ==
  /\ own2 \in [Pid -> Side]
  /\ \A p \in Pid : p < nextPid => own2[p] = own[p]
  /\ \A p \in M : own2[p] = s

LEMMA StepEffect ==
  ASSUME IInv, NEW s \in Side, NEW h, NEW M, NEW w, NEW rest, Step(s, h, M, w, rest)
  PROVE  /\ w.ch \in Channel /\ Keeps(chan[s], w.ch) /\ rest \in Seq(Frame) /\ settings' = settings
         /\ chan'[s] = w.ch /\ chan'[Other(s)] = chan[Other(s)]
         /\ procs'[s] = w.procs /\ procs'[Other(s)] = procs[Other(s)]
         /\ net'[s] = rest
         /\ ToSet(rest) \subseteq ToSet(net[s])
         /\ h.type # "none" => h \in ToSet(net[s]) /\ h \in Frame
         /\ nextPid \in Nat /\ nextPid' \in Nat /\ nextPid <= nextPid'
         /\ \A p \in M : p = nextPid /\ p \in Pid /\ p < nextPid'
<1>1. Commit(s, w, rest) /\ IInv' /\ AllKeep
  BY DEF Step
<1>2. net[s] \in Seq(Frame) /\ nextPid \in Nat
  BY DEF IInv, TypeOK
<1>3. /\ rest \in Seq(Frame) /\ ToSet(rest) \subseteq ToSet(net[s])
      /\ h.type # "none" => h \in ToSet(net[s]) /\ h \in Frame
  <2>1. CASE h = NoFrame /\ rest = net[s]
    BY <1>2, <2>1 DEF NoFrame
  <2>2. CASE net[s] # << >> /\ h = Head(net[s]) /\ rest = Tail(net[s])
    <3>1. Removed(net[s], h, rest)
      BY <1>2, <2>2, RemovedFrame
    <3>2. QED
      BY <3>1 DEF Removed
  <2>3. QED
    BY <2>1, <2>2 DEF Step, Taken
<1>4. w.ch \in Channel /\ Keeps(chan[s], w.ch)
  <2>1. chan'[s] = w.ch
    BY <1>1, CommitEffect
  <2>2. QED
    BY <1>1, <2>1 DEF IInv, TypeOK, AllKeep
<1>5. /\ nextPid' \in Nat /\ nextPid <= nextPid'
      /\ \A p \in M : p = nextPid /\ p \in Pid /\ p < nextPid'
  BY <1>2 DEF Step, Mint
<1>6. QED
  BY <1>1, <1>2, <1>3, <1>4, <1>5, CommitEffect

\* What the counterpart is left with in flight.
LEMMA StepPosts ==
  ASSUME IInv, NEW s \in Side, NEW h, NEW M, NEW w, NEW rest, Step(s, h, M, w, rest)
  PROVE  \/ net'[Other(s)] = net[Other(s)] /\ w.out = << >>
         \/ \E f \in Frame :
              /\ w.out = <<f>> /\ Posted(net[Other(s)], f, net'[Other(s)])
              /\ f.type # "CONFIRMED"
              /\ f.type = "REQUEST" =>
                   f = chan[s].timer \/ (f.pid \in M /\ f.slot = Asked(settings[s]))
<1>1. net'[Other(s)] = net[Other(s)] \o w.out /\ net[Other(s)] \in Seq(Frame)
  <2>1. Commit(s, w, rest)
    BY DEF Step
  <2>2. QED
    BY <2>1, CommitEffect, OtherSide DEF IInv, TypeOK
<1>2. CASE w.out = << >>
  BY <1>1, <1>2
<1>3. ASSUME NEW f \in Frame, w.out = <<f>>
      PROVE  Posted(net[Other(s)], f, net'[Other(s)])
  BY <1>1, <1>3, PostedFrame
<1>4. QED
  BY <1>2, <1>3 DEF Step, Meant, Posts

LEMMA DirectedKept ==
  ASSUME IInv, NEW own, Linked(own),
         NEW s \in Side, NEW h, NEW M, NEW w, NEW rest, Step(s, h, M, w, rest),
         NEW own2, Inherits(own, s, M, own2), NEW x \in Side
  PROVE  Directed(own2, x)'
<1> DEFINE o == Other(s)
           c == chan[s]
           d == w.ch
<1>1. o \in Side /\ o # s /\ Other(o) = s
  BY OtherSide, OtherOther
<1>2. /\ c \in Channel /\ chan[o] \in Channel /\ net[s] \in Seq(Frame) /\ net[o] \in Seq(Frame)
  BY <1>1 DEF IInv, TypeOK
<1>3. Directed(own, s) /\ Directed(own, o) /\ Fits(settings, s, c)
  BY <1>1 DEF Linked
<1>4. /\ d \in Channel /\ chan'[s] = d /\ chan'[o] = chan[o] /\ net'[s] = rest
      /\ settings' = settings /\ ToSet(rest) \subseteq ToSet(net[s])
      /\ h.type # "none" => h \in ToSet(net[s]) /\ h \in Frame
      /\ nextPid \in Nat /\ nextPid' \in Nat /\ nextPid <= nextPid'
      /\ \A p \in M : p = nextPid /\ p \in Pid /\ p < nextPid'
  BY StepEffect
<1>5. /\ Leads(s, h, M, d) /\ Opening(s, h, w)
  BY DEF Step, Meant
<1>6. \A p \in Pid, y \in Side : Of(own, y, p) => p < nextPid' /\ own2[p] = y
  BY <1>4 DEF Inherits, Of, Pid
<1>7. \A p \in M : p < nextPid' /\ own2[p] = s
  BY <1>4 DEF Inherits
<1>8. CASE x = s
  <2>1. d.session < nextPid'
    <3>1. c.pending \in Nat /\ c.awaiting.pid \in Nat /\ c.session \in Nat
      BY <1>2 DEF Channel, Pid, Request, NoRequest
    <3>2. c.pending < nextPid' /\ c.awaiting.pid < nextPid' /\ c.session < nextPid' /\ 0 < nextPid'
      BY <1>3, <1>4, <3>1, MaxPidAssumption DEF Directed, Of, NoRequest, IInv, TypeOK
    <3>3. QED
      BY <1>5, <3>2 DEF Opening
  <2>2. d.pending # 0 => d.pending < nextPid' /\ own2[d.pending] = s
    BY <1>2, <1>3, <1>5, <1>6, <1>7 DEF Leads, Directed, Channel
  <2>3. d.timer.type = "REQUEST" => d.timer.pid < nextPid' /\ own2[d.timer.pid] = s
    <3>1. c.timer.type = "REQUEST" => c.timer.pid \in Pid
      BY <1>2 DEF Channel, Handshake, NoFrame
    <3>2. QED
      BY <1>3, <1>5, <1>6, <1>7, <3>1 DEF Leads, Directed
  <2>4. h.type = "REQUEST" => h.pid \in Pid /\ h.pid < nextPid' /\ own2[h.pid] = o
    <3>1. h.type = "REQUEST" => h \in ToSet(net[s]) /\ h.pid \in Pid
      BY <1>4, HandshakeFrame
    <3>2. QED
      BY <1>1, <1>3, <1>6, <3>1 DEF Directed
  <2>5. c.scheduled # NoRequest => c.scheduled.pid < nextPid' /\ own2[c.scheduled.pid] = o
    BY <1>1, <1>2, <1>3, <1>6 DEF Directed, Channel, Request
  <2>6. c.awaiting # NoRequest => c.awaiting.pid < nextPid' /\ own2[c.awaiting.pid] = o
    BY <1>1, <1>2, <1>3, <1>6 DEF Directed, Channel, Request
  <2>7. d.scheduled # NoRequest => d.scheduled.pid < nextPid' /\ own2[d.scheduled.pid] = o
    BY <1>5, <2>4, <2>5 DEF Leads
  <2>8. d.awaiting # NoRequest => d.awaiting.pid < nextPid' /\ own2[d.awaiting.pid] = o
    BY <1>5, <2>4, <2>5, <2>6 DEF Leads
  <2>9. \A f \in ToSet(rest) : f.type = "REQUEST" =>
          f.pid < nextPid' /\ own2[f.pid] = o /\ f.slot = Asked(settings[o])
    <3> SUFFICES ASSUME NEW f \in ToSet(rest), f.type = "REQUEST"
                 PROVE  f.pid < nextPid' /\ own2[f.pid] = o /\ f.slot = Asked(settings[o])
      OBVIOUS
    <3>1. f \in ToSet(net[s]) /\ f \in Frame
      BY <1>2, <1>4 DEF ToSet
    <3>2. f.pid \in Pid
      BY <3>1, HandshakeFrame
    <3>3. QED
      BY <1>1, <1>3, <1>6, <3>1, <3>2 DEF Directed
  <2> HIDE DEF c, d, o
  <2>10. QED
    BY <1>4, <1>8, <2>1, <2>2, <2>3, <2>7, <2>8, <2>9 DEF Directed, Of, o
<1>9. CASE x = o
  <2> DEFINE e == chan[o]
  <2>1. /\ e.pending # 0 => e.pending < nextPid' /\ own2[e.pending] = o
        /\ e.timer.type = "REQUEST" => e.timer.pid < nextPid' /\ own2[e.timer.pid] = o
        /\ e.scheduled # NoRequest => e.scheduled.pid < nextPid' /\ own2[e.scheduled.pid] = s
        /\ e.awaiting # NoRequest => e.awaiting.pid < nextPid' /\ own2[e.awaiting.pid] = s
        /\ e.session < nextPid'
    <3>1. /\ e.pending \in Pid \cup {0} /\ e.session \in Nat
          /\ e.timer.type = "REQUEST" => e.timer.pid \in Pid
          /\ e.scheduled # NoRequest => e.scheduled.pid \in Pid
          /\ e.awaiting # NoRequest => e.awaiting.pid \in Pid
      BY <1>2 DEF Channel, Handshake, NoFrame, Request, Pid
    <3>2. e.session < nextPid'
      BY <1>3, <1>4, <3>1 DEF Directed
    <3>3. QED
      BY <1>1, <1>3, <1>6, <3>1, <3>2 DEF Directed
  <2>2. \A f \in ToSet(net'[o]) : f.type = "REQUEST" =>
          f.pid < nextPid' /\ own2[f.pid] = s /\ f.slot = Asked(settings[s])
    <3> SUFFICES ASSUME NEW f \in ToSet(net'[o]), f.type = "REQUEST"
                 PROVE  f.pid < nextPid' /\ own2[f.pid] = s /\ f.slot = Asked(settings[s])
      OBVIOUS
    <3>1. CASE f \in ToSet(net[o])
      <4>1. f \in Frame
        BY <1>2, <3>1 DEF ToSet
      <4>2. f.pid \in Pid
        BY <4>1, HandshakeFrame
      <4>3. QED
        BY <1>1, <1>3, <1>6, <3>1, <4>2 DEF Directed
    <3>2. CASE f = c.timer
      <4>1. f.pid \in Pid
        BY <1>2, <3>2 DEF Channel, Handshake, NoFrame
      <4>2. QED
        BY <1>3, <1>6, <3>2, <4>1 DEF Directed, Fits
    <3>3. CASE f.pid \in M /\ f.slot = Asked(settings[s])
      BY <1>7, <3>3
    <3>4. QED
      BY <3>1, <3>2, <3>3, StepPosts DEF Posted
  <2> HIDE DEF o, e
  <2>3. QED
    BY <1>1, <1>4, <1>9, <2>1, <2>2 DEF Directed, Of, e
<1>10. QED
  BY <1>8, <1>9 DEF Side, Other

\* Key material in use.
LEMMA TransportKeyInUse ==
  ASSUME NEW s \in Side PROVE chan[s].transport.key \in InUse
BY DEF InUse

LEMMA FrameKeyInUse ==
  ASSUME NEW s \in Side, NEW f \in ToSet(net[s])
  PROVE  /\ f.type = "CONFIRMED" => f.to \in InUse /\ f.key \in InUse
         /\ f.type = "HELLO" => f.key \in InUse
<1>1. KeysOf(f) \subseteq InUse
  BY DEF InUse
<1>2. QED
  BY <1>1 DEF KeysOf

\* A session that lasts keeps its transport.
LEMMA SessionTransport ==
  ASSUME IInv, NEW own, Linked(own),
         NEW s \in Side, NEW h, NEW M, NEW w, NEW rest, Step(s, h, M, w, rest),
         chan[s].session # 0, w.ch.session # 0
  PROVE  chan[s].active /\ w.ch.transport = chan[s].transport
<1> DEFINE c == chan[s]
           d == w.ch
<1>1. c \in Channel /\ Fits(settings, s, c)
  BY DEF IInv, TypeOK, Linked
<1>2. Leads(s, h, M, d) /\ Fits(settings, s, d) /\ Keeps(c, d)
  BY StepEffect DEF Step, Meant, Leads
<1>3. c.active /\ d.active
  BY <1>1, <1>2 DEF Fits
<1>4. d.transport.key = c.transport.key
  BY <1>2, <1>3 DEF Keeps
<1>5. ~Fresh(d.transport)
  BY <1>4, TransportKeyInUse DEF Fresh
<1>6. d.transport = NoTransport => c.transport = NoTransport
  <2>1. c.transport # NoTransport => c.transport.key \in Key
    BY <1>1 DEF Channel, Transport
  <2>2. NoTransport.key = None
    BY DEF NoTransport
  <2>3. QED
    BY <1>4, <2>1, <2>2, KeyAssumption
<1>7. QED
  BY <1>2, <1>3, <1>5, <1>6 DEF Leads, Bare

\* A side in session, or asking, keeps its transport or has none to lose.
LEMMA AskerKeeps ==
  ASSUME IInv, NEW own, Linked(own),
         NEW s \in Side, NEW h, NEW M, NEW w, NEW rest, Step(s, h, M, w, rest),
         NEW p \in Pid, p < nextPid, own[p] = s, w.ch.pending = p \/ w.ch.session = p
  PROVE  /\ chan[s].pending = p \/ chan[s].session = p
         /\ w.ch.transport = chan[s].transport \/ chan[s].transport = NoTransport
         /\ chan[s].session = p => chan[s].active /\ w.ch.session = p /\ w.ch.transport = chan[s].transport
<1> DEFINE c == chan[s]
           d == w.ch
<1>1. /\ c \in Channel /\ Sound(settings[s], c) /\ Fits(settings, s, c)
      /\ Directed(own, s) /\ Other(s) # s
  BY OtherSide DEF IInv, TypeOK, Linked
<1>2. /\ d \in Channel /\ Leads(s, h, M, d) /\ Opening(s, h, w) /\ Fits(settings, s, d)
      /\ Keeps(c, d) /\ \A m \in M : m = nextPid
  BY StepEffect DEF Step, Meant, Leads
<1>3. p # 0 /\ p \in Nat /\ nextPid \in Nat
  BY DEF Pid, IInv, TypeOK
<1>4. c.awaiting.pid # p
  BY <1>1, <1>3 DEF Directed, Of, NoRequest
<1>5. d.pending = p => c.pending = p
  BY <1>2, <1>3 DEF Leads
<1>6. d.session = p => c.session = p \/ c.pending = p
  BY <1>2, <1>3, <1>4 DEF Opening
<1>7. c.pending = p => c.transport = NoTransport
  BY <1>1, <1>3 DEF Fits, Sound, Owned
<1>8. ASSUME c.session = p PROVE c.active /\ d.session = p /\ d.transport = c.transport
  <2>1. c.active /\ c.pending = 0
    BY <1>1, <1>3, <1>8 DEF Fits
  <2>2. d.session = p /\ d.active
    BY <1>2, <1>3, <1>5, <2>1 DEF Fits
  <2>3. QED
    BY <1>3, <1>8, <2>1, <2>2, SessionTransport
<1>9. QED
  BY <1>5, <1>6, <1>7, <1>8

LEMMA AskerVouched ==
  ASSUME IInv, NEW own, Linked(own),
         NEW s \in Side, NEW h, NEW M, NEW w, NEW rest, Step(s, h, M, w, rest),
         NEW own2, Inherits(own, s, M, own2)
  PROVE  Vouched(own2, s)'
<1> DEFINE o == Other(s)
           c == chan[s]
           d == w.ch
           e == chan[o]
           t == c.transport
           v == d.transport
           u == e.transport
<1>1. o \in Side /\ o # s /\ Other(o) = s
  BY OtherSide, OtherOther
<1>2. chan'[s] = d /\ chan'[o] = e
  BY StepEffect
<1>3. ASSUME NEW p \in Pid, own2[p] = s, u # NoTransport,
             d.pending = p \/ d.session = p, e.awaiting.pid = p \/ e.session = p
      PROVE  /\ \A f \in ToSet(net'[o]) \cup u.waiting : f.type = "CONFIRMED" /\ f.to = u.key =>
                  /\ v # NoTransport /\ v.peer = u.key
                  /\ f.key = v.key /\ f.protocol = v.protocol
             /\ u.confirmed => /\ v # NoTransport /\ v.peer = u.key
                               /\ u.peer = v.key /\ u.protocol = v.protocol
  <2>1. p < nextPid
    BY <1>1, <1>3 DEF Linked, Directed, Of, Pid, NoRequest
  <2>2. own[p] = s
    BY <1>3, <2>1 DEF Inherits
  <2>3. (c.pending = p \/ c.session = p) /\ (v = t \/ t = NoTransport)
    BY <1>3, <2>1, <2>2, AskerKeeps
  <2>4. /\ \A f \in ToSet(net[o]) \cup u.waiting : f.type = "CONFIRMED" /\ f.to = u.key =>
             /\ t # NoTransport /\ t.peer = u.key
             /\ f.key = t.key /\ f.protocol = t.protocol
        /\ u.confirmed => /\ t # NoTransport /\ t.peer = u.key
                          /\ u.peer = t.key /\ u.protocol = t.protocol
    <3>1. Vouched(own, s)
      BY DEF Linked
    <3>2. QED
      BY <1>3, <2>2, <2>3, <3>1 DEF Vouched
  <2>5. \A f \in ToSet(net'[o]) : f.type = "CONFIRMED" => f \in ToSet(net[o])
    BY StepPosts DEF Posted
  <2> HIDE DEF c, d, e, o, t, u, v
  <2>6. QED
    BY <2>3, <2>4, <2>5
<1> HIDE DEF d, e, o
<1>4. QED
  BY <1>2, <1>3 DEF Vouched, o

LEMMA AnswererVouched ==
  ASSUME IInv, NEW own, Linked(own),
         NEW s \in Side, NEW h, NEW M, NEW w, NEW rest, Step(s, h, M, w, rest),
         NEW own2, Inherits(own, s, M, own2)
  PROVE  Vouched(own2, Other(s))'
<1> DEFINE o == Other(s)
           c == chan[s]
           d == w.ch
           e == chan[o]
           t == e.transport
           v == d.transport
<1>1. o \in Side /\ o # s /\ Other(o) = s
  BY OtherSide, OtherOther
<1>2. /\ chan'[s] = d /\ chan'[o] = e /\ net'[s] = rest /\ ToSet(rest) \subseteq ToSet(net[s])
      /\ Leads(s, h, M, d) /\ Opening(s, h, w)
  BY StepEffect DEF Step, Meant
<1>3. ASSUME NEW p \in Pid, own2[p] = o, v # NoTransport,
             e.pending = p \/ e.session = p, d.awaiting.pid = p \/ d.session = p
      PROVE  /\ \A f \in ToSet(rest) \cup v.waiting : f.type = "CONFIRMED" /\ f.to = v.key =>
                  /\ t # NoTransport /\ t.peer = v.key
                  /\ f.key = t.key /\ f.protocol = t.protocol
             /\ v.confirmed => /\ t # NoTransport /\ t.peer = v.key
                               /\ v.peer = t.key /\ v.protocol = t.protocol
  <2>1. p < nextPid /\ p # 0
    BY <1>1, <1>3 DEF Linked, Directed, Of, Pid
  <2>2. own[p] = o
    BY <1>3, <2>1 DEF Inherits
  <2>3. CASE Fresh(v)
    BY <1>2, <2>3, FrameKeyInUse DEF Fresh
  <2>4. CASE ~Fresh(v)
    <3>1. v = c.transport
      BY <1>2, <1>3, <2>4 DEF Leads, Bare
    <3>2. c.pending # p
      BY <1>1, <2>1, <2>2 DEF Linked, Directed, Of
    <3>3. c.awaiting.pid = p \/ c.session = p
      BY <1>2, <1>3, <2>1, <2>4, <3>2 DEF Leads, Opening, Bare, NoRequest
    <3>4. Vouched(own, o)
      BY <1>1 DEF Linked
    <3> HIDE DEF o
    <3>5. QED
      BY <1>1, <1>2, <1>3, <2>2, <3>1, <3>3, <3>4 DEF Vouched
  <2>5. QED
    BY <2>3, <2>4
<1> HIDE DEF d, e, o
<1>4. QED
  BY <1>1, <1>2, <1>3 DEF Vouched, o

\* A session opened by its own request, whose OPEN now leaves ahead of any hello.
LEMMA AskerOpens ==
  ASSUME IInv, NEW own, Linked(own),
         NEW s \in Side, NEW h, NEW M, NEW w, NEW rest, Step(s, h, M, w, rest),
         NEW p \in Pid, p < nextPid, own[p] = s,
         w.ch.session = p, chan[s].session # p, w.ch.transport # NoTransport
  PROVE  Ahead(s, p)'
<1> DEFINE o == Other(s)
           c == chan[s]
           d == w.ch
           v == d.transport
           q == net[o]
           n == Len(q) + 1
<1>1. /\ o \in Side /\ o # s /\ Other(o) = s
      /\ c \in Channel /\ q \in Seq(Frame)
  BY OtherSide, OtherOther DEF IInv, TypeOK
<1>2. /\ chan'[s] = d /\ net'[s] = rest /\ ToSet(rest) \subseteq ToSet(net[s])
  BY StepEffect
<1>3. p # 0 /\ c.awaiting.pid # p
  BY <1>1 DEF Pid, Linked, Directed, Of, NoRequest
<1>4. PICK f \in Frame : f.type = "OPEN" /\ f.pid = p /\ w.out = <<f>> /\ Bare(v)
  <2>1. Opening(s, h, w)
    BY DEF Step, Meant
  <2>2. QED
    BY <1>3, <2>1 DEF Opening
<1>5. Posted(q, f, net'[o])
  <2>1. w.out # << >> /\ \A g : w.out = <<g>> => g = f
    BY <1>4
  <2>2. QED
    BY <2>1, StepPosts
<1>6. Fresh(v)
  BY <1>4 DEF Bare
<1>7. ~v.confirmed /\ \A g \in ToSet(rest) \cup v.waiting : g.type = "CONFIRMED" => g.to # v.key
  BY <1>2, <1>6, FrameKeyInUse DEF Fresh
<1>8. \A m \in 1 .. n : net'[o][m].type = "HELLO" => net'[o][m].key # v.key
  <2> SUFFICES ASSUME NEW m \in 1 .. n, net'[o][m].type = "HELLO"
               PROVE  net'[o][m].key # v.key
    OBVIOUS
  <2>1. m \in 1 .. Len(q) /\ net'[o][m] = q[m]
    BY <1>1, <1>4, <1>5 DEF Posted
  <2>2. q[m] \in ToSet(net[o])
    BY <1>1, <2>1 DEF ToSet
  <2>3. q[m].key \in InUse
    BY <1>1, <2>1, <2>2, FrameKeyInUse
  <2>4. QED
    BY <1>6, <2>1, <2>3 DEF Fresh
<1>9. n \in 1 .. Len(net'[o]) /\ Len(net'[o]) = n /\ net'[o][n] = f /\ n \in Nat
  BY <1>1, <1>5 DEF Posted
<1>10. \A m \in n .. Len(net'[o]) : net'[o][m].type = "REQUEST" => net'[o][m].pid # p
  BY <1>4, <1>9
<1> HIDE DEF d, n, q, o
<1>11. QED
  BY <1>2, <1>4, <1>7, <1>8, <1>9, <1>10 DEF Ahead, Unheard, Leading, o, v

LEMMA AskerHeralded ==
  ASSUME IInv, NEW own, Linked(own),
         NEW s \in Side, NEW h, NEW M, NEW w, NEW rest, Step(s, h, M, w, rest),
         NEW own2, Inherits(own, s, M, own2)
  PROVE  Heralded(own2, s)'
<1> DEFINE o == Other(s)
           c == chan[s]
           d == w.ch
           t == c.transport
           q == net[o]
<1>1. /\ o \in Side /\ o # s /\ Other(o) = s
      /\ c \in Channel /\ q \in Seq(Frame)
  BY OtherSide, OtherOther DEF IInv, TypeOK
<1>2. /\ chan'[s] = d /\ chan'[o] = chan[o] /\ net'[s] = rest /\ ToSet(rest) \subseteq ToSet(net[s])
      /\ procs'[o] = procs[o] /\ nextPid \in Nat /\ nextPid <= nextPid'
      /\ \A m \in M : m = nextPid
      /\ Opening(s, h, w)
  BY StepEffect DEF Step, Meant
<1>3. ASSUME NEW p \in Pid, own2[p] = s, d.session = p, d.transport # NoTransport
      PROVE  (Ahead(s, p) \/ Passed(s, p))'
  <2>1. p < nextPid /\ p # 0
    <3>1. c.session < nextPid /\ (c.pending # 0 => c.pending < nextPid)
          /\ (c.awaiting # NoRequest => c.awaiting.pid < nextPid)
      BY DEF Linked, Directed, Of
    <3>2. QED
      BY <1>2, <1>3, <3>1 DEF Opening, Pid, NoRequest
  <2>2. own[p] = s
    BY <1>3, <2>1 DEF Inherits
  <2>3. CASE c.session # p
    BY <1>3, <2>1, <2>2, <2>3, AskerOpens
  <2>4. CASE c.session = p
    <3>1. c.active /\ d.transport = t
      BY <1>3, <2>1, <2>2, <2>4, AskerKeeps
    <3>2. c.timer.type # "REQUEST"
      BY <3>1 DEF IInv, Sound, Settled, NoFrame
    <3>3. \/ net'[o] = q
          \/ \E f \in Frame : /\ Posted(q, f, net'[o])
                              /\ f.type = "REQUEST" => f.pid # p
      BY <1>2, <2>1, <3>2, StepPosts
    <3>4. Unheard(s) => Unheard(s)'
      BY <1>2, <3>1 DEF Unheard
    <3>5. Ahead(s, p) \/ Passed(s, p)
      BY <1>3, <2>2, <2>4, <3>1 DEF Linked, Heralded
    <3>6. CASE Ahead(s, p)
      <4>1. Leading(net'[o], p, t.key)
        BY <1>1, <3>3, <3>6, LeadingPosted DEF Ahead
      <4> HIDE DEF q, d, c, t, o
      <4>2. Ahead(s, p)'
        BY <1>2, <3>1, <3>4, <3>6, <4>1 DEF Ahead, o
      <4>3. QED
        BY <4>2
    <3>7. CASE Passed(s, p)
      <4>1. \A f \in ToSet(net'[o]) : f.type = "REQUEST" => f.pid # p
        BY <3>3, <3>7 DEF Passed, Posted
      <4> HIDE DEF d, c, t, q
      <4>2. Passed(s, p)'
        BY <1>2, <3>4, <3>7, <4>1 DEF Passed
      <4>3. QED
        BY <4>2
    <3>8. QED
      BY <3>5, <3>6, <3>7
  <2>5. QED
    BY <2>3, <2>4
<1> HIDE DEF d, o
<1>4. QED
  BY <1>2, <1>3 DEF Heralded

LEMMA AnswererHeralded ==
  ASSUME IInv, NEW own, Linked(own),
         NEW s \in Side, NEW h, NEW M, NEW w, NEW rest, Step(s, h, M, w, rest),
         NEW own2, Inherits(own, s, M, own2)
  PROVE  Heralded(own2, Other(s))'
<1> DEFINE o == Other(s)
           c == chan[s]
           d == w.ch
           e == chan[o]
           q == net[s]
<1>1. /\ o \in Side /\ o # s /\ Other(o) = s
      /\ q \in Seq(Frame)
  BY OtherSide, OtherOther DEF IInv, TypeOK
<1>2. /\ chan'[s] = d /\ chan'[o] = e /\ net'[s] = rest /\ ToSet(rest) \subseteq ToSet(q)
      /\ procs'[s] = w.procs /\ \A m \in M : m = nextPid
      /\ h.type # "none" => h \in ToSet(q)
  BY StepEffect
<1>3. /\ Opening(s, h, w) /\ Tracks(s, h, M, w.procs) /\ Taken(s, h, rest)
      /\ h.type = "OPEN" => h.pid \notin w.procs
  BY DEF Step, Meant
<1>4. Unheard(o) => Unheard(o)'
  <2>1. \A f \in ToSet(net'[o]) : f.type = "CONFIRMED" => f \in ToSet(net[o])
    BY StepPosts DEF Posted
  <2> HIDE DEF o
  <2>2. QED
    BY <1>2, <2>1 DEF Unheard
<1>5. ASSUME NEW p \in Pid, own2[p] = o, e.session = p, e.transport # NoTransport
      PROVE  (Ahead(o, p) \/ Passed(o, p))'
  <2>1. p < nextPid /\ p # 0
    BY <1>1, <1>5 DEF Linked, Directed, Pid
  <2>2. own[p] = o
    BY <1>5, <2>1 DEF Inherits
  <2>3. Ahead(o, p) \/ Passed(o, p)
    BY <1>1, <1>5, <2>2 DEF Linked, Heralded
  <2>4. CASE Ahead(o, p)
    <3>1. Leading(q, p, e.transport.key) /\ Unheard(o)'
      BY <1>1, <1>4, <2>4 DEF Ahead
    <3>2. CASE Leading(rest, p, e.transport.key)
      <4>1. Ahead(o, p)'
        BY <1>1, <1>2, <3>1, <3>2 DEF Ahead
      <4>2. QED
        BY <4>1
    <3>3. CASE ~Leading(rest, p, e.transport.key)
      <4>1. Removed(q, h, rest)
        BY <1>1, <1>3, <3>1, <3>3, RemovedFrame DEF Taken
      <4>2. /\ h.type = "OPEN" /\ h.pid = p
            /\ \A f \in ToSet(rest) : f.type = "REQUEST" => f.pid # p
        BY <1>1, <3>1, <3>3, <4>1, LeadingRemoved
      <4>3. Passed(o, p)'
        BY <1>1, <1>2, <1>3, <3>1, <4>2 DEF Passed
      <4>4. QED
        BY <4>3
    <3>4. QED
      BY <3>2, <3>3
  <2>5. CASE Passed(o, p)
    <3>1. p \notin procs[s] /\ \A f \in ToSet(q) : f.type = "REQUEST" => f.pid # p
      BY <1>1, <2>5 DEF Passed
    <3>2. p \notin w.procs
      <4>1. p \notin M /\ (h.type = "REQUEST" => h.pid # p)
        <5>1. nextPid \in Nat
          BY DEF IInv, TypeOK
        <5>2. QED
          BY <1>2, <2>1, <3>1, <5>1 DEF Pid
      <4>2. QED
        BY <1>3, <3>1, <4>1 DEF Tracks
    <3>3. \A f \in ToSet(rest) : f.type = "REQUEST" => f.pid # p
      BY <1>2, <3>1
    <3>4. d.session = p /\ d.transport = NoTransport => Unheard(o)'
      <4> SUFFICES ASSUME d.session = p, d.transport = NoTransport PROVE Unheard(o)'
        OBVIOUS
      <4>1. c.pending # p
        BY <1>1, <2>1, <2>2 DEF Linked, Directed, Of
      <4>2. c.session = p
        BY <1>3, <2>1, <3>1, <4>1 DEF Opening
      <4>3. c.transport = NoTransport
        BY <2>1, <4>2, SessionTransport
      <4>4. QED
        BY <1>1, <1>4, <2>5, <4>2, <4>3 DEF Passed
    <3> HIDE DEF c, d, e, q, o
    <3>5. Passed(o, p)'
      BY <1>1, <1>2, <3>2, <3>3, <3>4 DEF Passed, d
    <3>6. QED
      BY <3>5
  <2>6. QED
    BY <2>3, <2>4, <2>5
<1> HIDE DEF d, e, o
<1>6. QED
  BY <1>2, <1>5 DEF Heralded, o

\* A step of the handshake keeps the two ends linked.
LEMMA StepLinked ==
  ASSUME IInv, NEW own, Linked(own),
         NEW s \in Side, NEW h, NEW M, NEW w, NEW rest, Step(s, h, M, w, rest)
  PROVE  \E own2 : Linked(own2)'
<1> DEFINE o == Other(s)
<1>1. PICK own2 : own2 = [p \in Pid |-> IF p \in M THEN s ELSE own[p]]
  OBVIOUS
<1>2. \A p \in M : p = nextPid /\ p \in Pid
  BY StepEffect
<1>3. nextPid \in Nat
  BY DEF IInv, TypeOK
<1>4. Inherits(own, s, M, own2)
  BY <1>1, <1>2, <1>3 DEF Inherits, Linked, Pid
<1>5. \A x \in Side : Directed(own2, x)'
  BY <1>4, DirectedKept
<1>6. \A x \in Side : Vouched(own2, x)' /\ Heralded(own2, x)'
  <2>1. Side = {s, o}
    BY DEF Side, Other
  <2>2. Vouched(own2, s)' /\ Heralded(own2, s)' /\ Vouched(own2, o)' /\ Heralded(own2, o)'
    BY <1>4, AskerVouched, AskerHeralded, AnswererVouched, AnswererHeralded
  <2> HIDE DEF o
  <2>3. QED
    BY <2>1, <2>2
<1>7. \A x \in Side : Fits(settings', x, chan'[x])
  <2>1. Fits(settings, s, w.ch) /\ Fits(settings, o, chan[o])
    BY OtherSide DEF Step, Meant, Leads, Linked
  <2>2. chan'[s] = w.ch /\ chan'[o] = chan[o] /\ settings' = settings /\ Side = {s, o}
    BY StepEffect DEF Side, Other
  <2> HIDE DEF o
  <2>3. QED
    BY <2>1, <2>2
<1>8. Linked(own2)'
  BY <1>4, <1>5, <1>6, <1>7 DEF Linked, Inherits
<1>9. QED
  BY <1>8

-----------------------------------------------------------------------------
(* Keying a transport and hearing from its counterpart.                    *)

\* A confirmation that answers the hello f for the transport it keys.
Confirms(s, f, u, g) ==
  LET t == chan[s].transport IN
  /\ f.type = "HELLO" /\ t.peer = None /\ u.peer = f.key
  /\ g.type = "CONFIRMED" /\ g.key = t.key /\ g.to = f.key /\ g.protocol = t.protocol

\* What a hello or a confirmation f makes of the transport of side s, and the
\* confirmation it may be answered with.
Keying(s, f, u, out) ==
  LET t == chan[s].transport IN
  /\ f.type \in {"HELLO", "CONFIRMED"}
  /\ t # NoTransport /\ u # NoTransport /\ u.key = t.key /\ u.protocol = t.protocol
  /\ u.peer = t.peer \/ t.peer = None
  /\ \A g \in u.waiting : g \in ToSet(net[s]) \cup t.waiting /\ g.protocol = t.protocol
  /\ u.confirmed =>
       \/ t.confirmed /\ u.peer = t.peer
       \/ \E g \in ToSet(net[s]) \cup t.waiting :
            g.type = "CONFIRMED" /\ g.to = t.key /\ g.key = u.peer /\ g.protocol = t.protocol
  /\ out = << >> \/ \E g \in Frame : out = <<g>> /\ Confirms(s, f, u, g)

\* A side, and what is in flight, after it.
Keyed(s, f, rest, u, out) ==
  /\ Keying(s, f, u, out)
  /\ net[s] # << >> /\ f = Head(net[s]) /\ rest = Tail(net[s])
  /\ \E w : /\ w.ch = [chan[s] EXCEPT !.transport = u]
            /\ w.procs = procs[s] /\ w.out = out
            /\ Commit(s, w, rest)
  /\ UNCHANGED nextPid

LEMMA KeyedEffect ==
  ASSUME IInv, NEW s \in Side, NEW f, NEW rest, NEW u, NEW out, Keyed(s, f, rest, u, out)
  PROVE  /\ chan'[s] = [chan[s] EXCEPT !.transport = u] /\ chan'[Other(s)] = chan[Other(s)]
         /\ procs'[s] = procs[s] /\ procs'[Other(s)] = procs[Other(s)]
         /\ settings' = settings /\ nextPid' = nextPid
         /\ Removed(net[s], f, rest) /\ net'[s] = rest
         /\ \/ net'[Other(s)] = net[Other(s)]
            \/ \E g \in Frame : Confirms(s, f, u, g) /\ Posted(net[Other(s)], g, net'[Other(s)])
<1>1. net[s] \in Seq(Frame) /\ net[Other(s)] \in Seq(Frame)
  BY OtherSide DEF IInv, TypeOK
<1>2. Removed(net[s], f, rest)
  BY <1>1, RemovedFrame DEF Keyed
<1>3. PICK w : /\ w.ch = [chan[s] EXCEPT !.transport = u]
               /\ w.procs = procs[s] /\ w.out = out
               /\ Commit(s, w, rest)
  BY DEF Keyed
<1>4. /\ chan'[s] = w.ch /\ chan'[Other(s)] = chan[Other(s)]
      /\ procs'[s] = w.procs /\ procs'[Other(s)] = procs[Other(s)]
      /\ net'[s] = rest /\ net'[Other(s)] = net[Other(s)] \o out
      /\ settings' = settings
  BY <1>3, CommitEffect
<1>5. \/ net'[Other(s)] = net[Other(s)]
      \/ \E g \in Frame : Confirms(s, f, u, g) /\ Posted(net[Other(s)], g, net'[Other(s)])
  <2>1. CASE out = << >>
    BY <1>1, <1>4, <2>1
  <2>2. ASSUME NEW g \in Frame, out = <<g>>
        PROVE  Posted(net[Other(s)], g, net'[Other(s)])
    BY <1>1, <1>4, <2>2, PostedFrame
  <2>3. QED
    BY <2>1, <2>2 DEF Keyed, Keying
<1>6. nextPid' = nextPid
  BY DEF Keyed
<1> HIDE DEF Removed
<1>7. QED
  BY <1>2, <1>3, <1>4, <1>5, <1>6

LEMMA KeyedLinked ==
  ASSUME IInv, NEW own, Linked(own),
         NEW s \in Side, NEW f, NEW rest, NEW u, NEW out, Keyed(s, f, rest, u, out)
  PROVE  Linked(own)'
<1> DEFINE o == Other(s)
           c == chan[s]
           t == c.transport
           e == chan[o]
           v == e.transport
           d == [c EXCEPT !.transport = u]
           q == net[s]
<1>1. /\ o \in Side /\ o # s /\ Other(o) = s /\ Side = {s, o}
      /\ c \in Channel /\ e \in Channel /\ net[o] \in Seq(Frame) /\ q \in Seq(Frame)
  BY OtherSide, OtherOther DEF IInv, TypeOK, Side, Other
<1>2. /\ chan'[s] = d /\ chan'[o] = e /\ procs'[s] = procs[s] /\ procs'[o] = procs[o]
      /\ settings' = settings /\ nextPid' = nextPid
      /\ Removed(q, f, rest) /\ net'[s] = rest
  BY KeyedEffect
<1>3. Keying(s, f, u, out)
  BY DEF Keyed
<1>4. /\ d.transport = u /\ d.active = c.active /\ d.session = c.session /\ d.pending = c.pending
      /\ d.awaiting = c.awaiting /\ d.scheduled = c.scheduled /\ d.timer = c.timer
  BY <1>1 DEF Channel
<1>5. /\ Directed(own, s) /\ Directed(own, o) /\ Vouched(own, s) /\ Vouched(own, o)
      /\ Heralded(own, s) /\ Heralded(own, o)
      /\ Fits(settings, s, c) /\ Fits(settings, o, e) /\ own \in [Pid -> Side]
  BY <1>1 DEF Linked
<1>6. \/ net'[o] = net[o]
      \/ \E g \in Frame : Confirms(s, f, u, g) /\ Posted(net[o], g, net'[o])
  BY KeyedEffect
<1> HIDE DEF d, o, e, c, t, v, q
<1>7. Fits(settings, s, d)
  BY <1>3, <1>4, <1>5 DEF Fits, Keying, t, c
<1>8. Directed(own, s)'
  BY <1>1, <1>2, <1>4, <1>5 DEF Directed, Of, Removed, c, q, o
<1>9. Directed(own, o)'
  <2>1. \A g \in ToSet(net'[o]) : g.type = "REQUEST" => g \in ToSet(net[o])
    BY <1>6 DEF Posted, Confirms
  <2>2. QED
    BY <1>1, <1>2, <1>5, <2>1 DEF Directed, Of, e
<1>10. Vouched(own, s)'
  <2> SUFFICES ASSUME NEW p \in Pid, own[p] = s, v # NoTransport,
                      c.pending = p \/ c.session = p, e.awaiting.pid = p \/ e.session = p
               PROVE  /\ \A g \in ToSet(net'[o]) \cup v.waiting : g.type = "CONFIRMED" /\ g.to = v.key =>
                           /\ u # NoTransport /\ u.peer = v.key
                           /\ g.key = u.key /\ g.protocol = u.protocol
                      /\ v.confirmed => /\ u # NoTransport /\ u.peer = v.key
                                        /\ v.peer = u.key /\ v.protocol = u.protocol
    BY <1>2, <1>4 DEF Vouched, o, v
  <2>1. /\ \A g \in ToSet(net[o]) \cup v.waiting : g.type = "CONFIRMED" /\ g.to = v.key =>
             t.peer = v.key /\ g.key = t.key /\ g.protocol = t.protocol
        /\ v.confirmed => t.peer = v.key /\ v.peer = t.key /\ v.protocol = t.protocol
    BY <1>5 DEF Vouched, o, v, e, t, c
  <2>2. v.key # None
    BY <1>1, KeyAssumption DEF Channel, Transport, v
  <2>3. \A g \in ToSet(net'[o]) : g \in ToSet(net[o]) \/ Confirms(s, f, u, g)
    BY <1>6 DEF Posted
  <2>4. /\ u # NoTransport /\ u.key = t.key /\ u.protocol = t.protocol
        /\ u.peer = t.peer \/ t.peer = None
    BY <1>3 DEF Keying, t, c
  <2>5. \A g : Confirms(s, f, u, g) => u.peer = g.to /\ g.key = t.key /\ g.protocol = t.protocol
    BY DEF Confirms, t, c
  <2>6. QED
    BY <2>1, <2>2, <2>3, <2>4, <2>5
<1>11. Vouched(own, o)'
  <2> SUFFICES ASSUME NEW p \in Pid, own[p] = o,
                      e.pending = p \/ e.session = p, c.awaiting.pid = p \/ c.session = p
               PROVE  /\ \A g \in ToSet(rest) \cup u.waiting : g.type = "CONFIRMED" /\ g.to = u.key =>
                           /\ v # NoTransport /\ v.peer = u.key
                           /\ g.key = v.key /\ g.protocol = v.protocol
                      /\ u.confirmed => /\ v # NoTransport /\ v.peer = u.key
                                        /\ u.peer = v.key /\ u.protocol = v.protocol
    BY <1>1, <1>2, <1>4 DEF Vouched, v
  <2>1. /\ t # NoTransport /\ u.key = t.key /\ u.protocol = t.protocol
        /\ \A g \in u.waiting : g \in ToSet(q) \cup t.waiting
        /\ u.confirmed =>
             \/ t.confirmed /\ u.peer = t.peer
             \/ \E g \in ToSet(q) \cup t.waiting :
                  g.type = "CONFIRMED" /\ g.to = t.key /\ g.key = u.peer /\ g.protocol = t.protocol
    BY <1>3 DEF Keying, t, c, q
  <2>2. /\ \A g \in ToSet(q) \cup t.waiting : g.type = "CONFIRMED" /\ g.to = t.key =>
             /\ v # NoTransport /\ v.peer = t.key
             /\ g.key = v.key /\ g.protocol = v.protocol
        /\ t.confirmed => /\ v # NoTransport /\ v.peer = t.key
                          /\ t.peer = v.key /\ t.protocol = v.protocol
    BY <1>1, <1>5, <2>1 DEF Vouched, v, e, t, c, q
  <2>3. ToSet(rest) \subseteq ToSet(q)
    BY <1>2 DEF Removed
  <2>4. QED
    BY <2>1, <2>2, <2>3
<1>12. Heralded(own, s)'
  <2> SUFFICES ASSUME NEW p \in Pid, own[p] = s, c.session = p
               PROVE  (Ahead(s, p) \/ Passed(s, p))'
    BY <1>2, <1>4 DEF Heralded
  <2>1. /\ t # NoTransport /\ u.key = t.key
        /\ \A g \in u.waiting : g \in ToSet(q) \cup t.waiting
        /\ u.confirmed =>
             \/ t.confirmed
             \/ \E g \in ToSet(q) \cup t.waiting : g.type = "CONFIRMED" /\ g.to = t.key
    BY <1>3 DEF Keying, t, c, q
  <2>2. Unheard(s) => Unheard(s)'
    <3>1. ToSet(rest) \subseteq ToSet(q)
      BY <1>2 DEF Removed
    <3>2. QED
      BY <1>2, <1>4, <2>1, <3>1 DEF Unheard, t, c, q
  <2>3. \/ net'[o] = net[o]
        \/ \E g \in Frame : Posted(net[o], g, net'[o]) /\ g.type # "REQUEST"
    BY <1>6 DEF Confirms
  <2>4. Ahead(s, p) \/ Passed(s, p)
    BY <1>5, <2>1 DEF Heralded, t, c
  <2>5. CASE Ahead(s, p)
    <3>1. Leading(net'[o], p, t.key)
      BY <1>1, <2>3, <2>5, LeadingPosted DEF Ahead, o, t, c
    <3>2. Ahead(s, p)'
      BY <1>2, <1>4, <2>1, <2>2, <2>5, <3>1 DEF Ahead, o
    <3>3. QED
      BY <3>2
  <2>6. CASE Passed(s, p)
    <3>1. \A g \in ToSet(net'[o]) : g.type = "REQUEST" => g.pid # p
      BY <2>3, <2>6 DEF Passed, Posted, o
    <3>2. Passed(s, p)'
      BY <1>2, <2>2, <2>6, <3>1 DEF Passed, o, e
    <3>3. QED
      BY <3>2
  <2>7. QED
    BY <2>4, <2>5, <2>6
<1>13. Heralded(own, o)'
  <2> SUFFICES ASSUME NEW p \in Pid, own[p] = o, e.session = p, v # NoTransport
               PROVE  (Ahead(o, p) \/ Passed(o, p))'
    BY <1>2 DEF Heralded, v
  <2>1. u # NoTransport /\ f.type # "OPEN"
    BY <1>3 DEF Keying
  <2>2. Ahead(o, p) \/ Passed(o, p)
    BY <1>5 DEF Heralded, e, v
  <2>3. CASE Ahead(o, p)
    <3>1. Leading(rest, p, v.key) /\ (f.type = "HELLO" => f.key # v.key)
      BY <1>1, <1>2, <2>1, <2>3, LeadingRemoved DEF Ahead, v, e, q
    <3>2. \A g \in ToSet(net'[o]) : g \in ToSet(net[o]) \/ (g.to = f.key /\ f.type = "HELLO")
      BY <1>6 DEF Posted, Confirms
    <3>3. Unheard(o)'
      BY <1>2, <2>3, <3>1, <3>2 DEF Ahead, Unheard, v, e
    <3>4. Ahead(o, p)'
      BY <1>1, <1>2, <3>1, <3>3 DEF Ahead, v
    <3>5. QED
      BY <3>4
  <2>4. CASE Passed(o, p)
    <3>1. ToSet(rest) \subseteq ToSet(q)
      BY <1>2 DEF Removed
    <3>2. Passed(o, p)'
      BY <1>1, <1>2, <1>4, <2>1, <2>4, <3>1 DEF Passed, q
    <3>3. QED
      BY <3>2
  <2>5. QED
    BY <2>2, <2>3, <2>4
<1>14. Linked(own)'
  BY <1>1, <1>2, <1>5, <1>7, <1>8, <1>9, <1>10, <1>11, <1>12, <1>13 DEF Linked
<1>15. QED
  BY <1>14

-----------------------------------------------------------------------------
(* What the operators post and track.                                      *)

\* A work that has posted nothing and tracks no more than its side, and what it
\* makes of the channel: less of a handshake, or of a session, than there was.
Less(c, d) ==
  /\ d.pending \in {0, c.pending} /\ d.awaiting \in {NoRequest, c.awaiting}
  /\ d.scheduled \in {NoRequest, c.scheduled} /\ d.timer \in {NoFrame, c.timer}
  /\ d.transport \in {NoTransport, c.transport}
  /\ \/ d.active = c.active /\ d.session = c.session
     \/ ~d.active /\ d.session = 0

Silent(s, w) == w \in WorkOK /\ w.out = << >> /\ w.procs \subseteq procs[s]
Calm(s, w) == Silent(s, w) /\ Less(chan[s], w.ch)

LEMMA WorkCalm ==
  ASSUME IInv, NEW s \in Side
  PROVE  Calm(s, Work(s)) /\ Work(s).ch = chan[s] /\ Work(s).procs = procs[s]
BY WorkGood DEF Good, Calm, Silent, Less, Work

LEMMA LessTransitive ==
  ASSUME NEW c, NEW d, NEW e, Less(c, d), Less(d, e)
  PROVE  Less(c, e)
BY DEF Less

LEMMA UntrackCalm ==
  ASSUME NEW s, NEW w, Calm(s, w), NEW p
  PROVE  /\ Calm(s, Untrack(w, p)) /\ Untrack(w, p).ch = w.ch
         /\ Untrack(w, p).procs = w.procs \ {p}
<1>1. w \in WorkOK
  BY DEF Calm, Silent
<1>2. Untrack(w, p) \in WorkOK /\ Untrack(w, p).ch = w.ch
  BY <1>1, UntrackType
<1>3. Untrack(w, p).out = w.out /\ Untrack(w, p).procs = w.procs \ {p}
  BY <1>1 DEF Untrack, WorkOK
<1>4. QED
  BY <1>2, <1>3 DEF Calm, Silent

LEMMA DropTransportCalm ==
  ASSUME NEW s, NEW w, Calm(s, w)
  PROVE  Calm(s, DropTransport(w)) /\ DropTransport(w).procs = w.procs
<1> DEFINE c == [w.ch EXCEPT !.transport = NoTransport]
<1>1. w \in WorkOK /\ w.ch \in Channel
  BY DEF Calm, Silent, WorkOK
<1>2. DropTransport(w) \in WorkOK /\ DropTransport(w).ch = c
  BY <1>1, DropTransportType
<1>3. DropTransport(w).out = w.out /\ DropTransport(w).procs = w.procs
  BY <1>1 DEF DropTransport, WorkOK
<1>4. Less(w.ch, c)
  BY <1>1 DEF Less, Channel
<1> HIDE DEF c
<1>5. QED
  BY <1>2, <1>3, <1>4, LessTransitive DEF Calm, Silent

LEMMA ReleaseCalm ==
  ASSUME NEW s, NEW w, Calm(s, w)
  PROVE  /\ Calm(s, Release(w)) /\ Release(w).procs = w.procs
         /\ Release(w).ch = [w.ch EXCEPT !.transport = NoTransport, !.timer = NoFrame,
                                         !.negotiated = "null"]
<1> DEFINE c == [w.ch EXCEPT !.transport = NoTransport, !.timer = NoFrame, !.negotiated = "null"]
           v == DropTransport(w)
<1>1. w \in WorkOK /\ w.ch \in Channel
  BY DEF Calm, Silent, WorkOK
<1>2. Release(w) \in WorkOK /\ Release(w).ch = c
  BY <1>1, ReleaseType
<1>3. v \in WorkOK /\ v.out = << >> /\ v.procs = w.procs
  BY DropTransportCalm DEF Calm, Silent
<1> HIDE DEF v
<1>4. Release(w).out = << >> /\ Release(w).procs = w.procs
  BY <1>3 DEF Release, WorkOK, v
<1>5. Less(w.ch, c)
  BY <1>1 DEF Less, Channel
<1> HIDE DEF c
<1>6. QED
  BY <1>2, <1>4, <1>5, LessTransitive DEF Calm, Silent, c

LEMMA AbandonRequestCalm ==
  ASSUME NEW s, NEW w, Calm(s, w)
  PROVE  /\ Calm(s, AbandonRequest(w))
         /\ AbandonRequest(w).ch = [w.ch EXCEPT !.timer = NoFrame, !.pending = 0]
<1> DEFINE c == [w.ch EXCEPT !.timer = NoFrame, !.pending = 0]
           v == Untrack(w, w.ch.pending)
<1>1. w \in WorkOK /\ w.ch \in Channel
  BY DEF Calm, Silent, WorkOK
<1>2. AbandonRequest(w) \in WorkOK /\ AbandonRequest(w).ch = c
  BY <1>1, AbandonRequestType
<1>3. v \in WorkOK /\ v.out = << >> /\ v.procs \subseteq procs[s]
  BY UntrackCalm DEF Calm, Silent
<1> HIDE DEF v
<1>4. AbandonRequest(w).out = << >> /\ AbandonRequest(w).procs \subseteq procs[s]
  BY <1>3 DEF AbandonRequest, WorkOK, v
<1>5. Less(w.ch, c)
  BY <1>1 DEF Less, Channel
<1> HIDE DEF c
<1>6. QED
  BY <1>2, <1>4, <1>5, LessTransitive DEF Calm, Silent, c

LEMMA FinalizeCloseCalm ==
  ASSUME NEW s, NEW w, Calm(s, w)
  PROVE  Calm(s, FinalizeClose(w)) /\ FinalizeClose(w).procs = w.procs
<1> DEFINE v == Release(w)
           c == [v.ch EXCEPT !.active = FALSE, !.pending = 0, !.awaiting = NoRequest, !.session = 0]
<1>1. Calm(s, v) /\ v \in WorkOK /\ v.ch \in Channel /\ v.procs = w.procs
  BY ReleaseCalm DEF Calm, Silent, WorkOK
<1>2. FinalizeClose(w) = [v EXCEPT !.ch.active = FALSE, !.ch.pending = 0,
                                   !.ch.awaiting = NoRequest, !.ch.session = 0]
  BY DEF FinalizeClose, v
<1> HIDE DEF v
<1>3. FinalizeClose(w) = [v EXCEPT !.ch = c] /\ c \in Channel
  BY <1>1, <1>2 DEF WorkOK, Channel
<1>4. Less(v.ch, c)
  BY <1>1 DEF Less, Channel
<1> HIDE DEF c
<1>5. /\ FinalizeClose(w) \in WorkOK /\ FinalizeClose(w).ch = c
      /\ FinalizeClose(w).out = v.out /\ FinalizeClose(w).procs = v.procs
  BY <1>1, <1>3 DEF WorkOK
<1>6. QED
  BY <1>1, <1>4, <1>5, LessTransitive DEF Calm, Silent

LEMMA CancelQuietlyCalm ==
  ASSUME NEW s, NEW w, Calm(s, w)
  PROVE  Calm(s, CancelQuietly(w)) /\ CancelQuietly(w).procs \subseteq w.procs
<1>1. CASE w.ch.active
  BY <1>1, FinalizeCloseCalm DEF CancelQuietly
<1>2. CASE ~w.ch.active
  <2> DEFINE v == Untrack(Release(w), w.ch.pending)
             c == [v.ch EXCEPT !.pending = 0, !.awaiting = NoRequest, !.scheduled = NoRequest]
  <2>1. Calm(s, v) /\ v \in WorkOK /\ v.ch \in Channel /\ v.procs \subseteq w.procs
    <3>1. Calm(s, Release(w)) /\ Release(w).procs = w.procs
      BY ReleaseCalm
    <3>2. Calm(s, v) /\ v.procs \subseteq w.procs
      BY <3>1, UntrackCalm
    <3> HIDE DEF v
    <3>3. QED
      BY <3>2 DEF Calm, Silent, WorkOK
  <2>2. CancelQuietly(w) = [v EXCEPT !.ch.pending = 0, !.ch.awaiting = NoRequest,
                                     !.ch.scheduled = NoRequest]
    BY <1>2 DEF CancelQuietly, v
  <2> HIDE DEF v
  <2>3. CancelQuietly(w) = [v EXCEPT !.ch = c] /\ c \in Channel
    BY <2>1, <2>2 DEF WorkOK, Channel
  <2>4. Less(v.ch, c)
    BY <2>1 DEF Less, Channel
  <2> HIDE DEF c
  <2>5. /\ CancelQuietly(w) \in WorkOK /\ CancelQuietly(w).ch = c
        /\ CancelQuietly(w).out = v.out /\ CancelQuietly(w).procs = v.procs
    BY <2>1, <2>3 DEF WorkOK
  <2>6. QED
    BY <2>1, <2>4, <2>5, LessTransitive DEF Calm, Silent
<1>3. QED
  BY <1>1, <1>2

\* Posting the only frame.
LEMMA PostFrameEffect ==
  ASSUME NEW w \in WorkOK, w.out = << >>, NEW f \in Frame
  PROVE  /\ PostFrame(w, f).out = <<f>> /\ PostFrame(w, f).procs = w.procs
         /\ PostFrame(w, f).ch = w.ch
<1>1. Append(w.out, f) = <<f>>
  OBVIOUS
<1>2. QED
  BY <1>1 DEF PostFrame, WorkOK

LEMMA PostEffect ==
  ASSUME NEW w \in WorkOK, w.out = << >>, NEW p \in Pid, NEW slot \in Slot,
         NEW type \in {"REQUEST", "ACCEPT", "OPEN", "DENY", "CANCEL", "CANCEL_ACK"}
  PROVE  /\ [type |-> type, pid |-> p, slot |-> slot] \in Frame
         /\ Post(w, type, p, slot).out = <<[type |-> type, pid |-> p, slot |-> slot]>>
         /\ Post(w, type, p, slot).procs = w.procs /\ Post(w, type, p, slot).ch = w.ch
<1> DEFINE f == [type |-> type, pid |-> p, slot |-> slot]
<1>1. f \in Frame
  BY DEF Frame, Handshake
<1> HIDE DEF f
<1>2. /\ PostFrame(w, f).out = <<f>> /\ PostFrame(w, f).procs = w.procs
      /\ PostFrame(w, f).ch = w.ch
  BY <1>1, PostFrameEffect
<1>3. QED
  BY <1>1, <1>2 DEF Post, f

-----------------------------------------------------------------------------
(* Steps that open nothing.                                                *)

LEMMA LessLeads ==
  ASSUME IInv, NEW own, Linked(own), NEW s \in Side, NEW h, NEW M, NEW d, Less(chan[s], d)
  PROVE  Leads(s, h, M, d) /\ d.session \in {0, chan[s].session}
<1>1. Fits(settings, s, chan[s])
  BY DEF Linked
<1>2. Fits(settings, s, d)
  <2> DEFINE c == chan[s]
  <2>1. NoRequest.slot \notin Protocol /\ NoFrame.type # "REQUEST" /\ NoTransport.waiting = {}
    BY PlaintextSlots DEF NoRequest, NoFrame, NoTransport
  <2>2. Less(c, d) /\ Fits(settings, s, c)
    BY <1>1
  <2> HIDE DEF c
  <2>3. d.active <=> d.session # 0
    BY <2>2 DEF Less, Fits
  <2>4. d.pending # 0 => ~d.active /\ d.awaiting = NoRequest
    BY <2>2 DEF Less, Fits
  <2>5. d.timer.type = "REQUEST" => d.timer.slot = Asked(settings[s])
    BY <2>1, <2>2 DEF Less, Fits
  <2>6. d.transport # NoTransport /\ d.awaiting # NoRequest => Common(settings, s)
    BY <2>2 DEF Less, Fits
  <2>7. d.scheduled.slot \in Protocol => Common(settings, s)
    BY <2>1, <2>2 DEF Less, Fits
  <2>8. \A f \in d.transport.waiting : f.protocol = d.transport.protocol
    BY <2>1, <2>2 DEF Less, Fits
  <2>9. QED
    BY <2>3, <2>4, <2>5, <2>6, <2>7, <2>8 DEF Fits
<1>3. d.timer.type = "REQUEST" => d.timer = chan[s].timer
  BY DEF Less, NoFrame
<1>4. QED
  BY <1>2, <1>3 DEF Less, Leads, Bare

LEMMA CalmMeant ==
  ASSUME IInv, NEW own, Linked(own), NEW s \in Side, NEW w, Calm(s, w), NEW h, NEW M
  PROVE  Meant(s, h, M, w)
BY LessLeads DEF Calm, Silent, Meant, Posts, Tracks, Opening

LEMMA PostFrameMeant ==
  ASSUME IInv, NEW own, Linked(own), NEW s \in Side, NEW w, Calm(s, w), NEW h, NEW M,
         NEW f \in Frame, f.type # "CONFIRMED", f.type = "REQUEST" => f = chan[s].timer
  PROVE  Meant(s, h, M, PostFrame(w, f))
<1> DEFINE v == PostFrame(w, f)
<1>1. w \in WorkOK /\ w.out = << >> /\ w.procs \subseteq procs[s] /\ Less(chan[s], w.ch)
  BY DEF Calm, Silent
<1>2. v.out = <<f>> /\ v.procs = w.procs /\ v.ch = w.ch
  BY <1>1, PostFrameEffect
<1> HIDE DEF v
<1>3. Posts(s, M, v.out)
  BY <1>2 DEF Posts
<1>4. QED
  BY <1>1, <1>2, <1>3, LessLeads DEF Meant, Tracks, Opening, v

LEMMA PostMeant ==
  ASSUME IInv, NEW own, Linked(own), NEW s \in Side, NEW w, Calm(s, w), NEW h, NEW M,
         NEW p \in Pid, NEW slot \in Slot, NEW type \in {"ACCEPT", "OPEN", "DENY", "CANCEL", "CANCEL_ACK"}
  PROVE  Meant(s, h, M, Post(w, type, p, slot)) /\ Post(w, type, p, slot) \in WorkOK
<1> DEFINE f == [type |-> type, pid |-> p, slot |-> slot]
<1>1. f \in Frame /\ f.type \notin {"CONFIRMED", "REQUEST"}
  BY DEF Frame, Handshake
<1> HIDE DEF f
<1>2. w \in WorkOK
  BY DEF Calm, Silent
<1>3. Meant(s, h, M, PostFrame(w, f)) /\ PostFrame(w, f) \in WorkOK
  BY <1>1, <1>2, PostFrameMeant, PostFrameType
<1>4. QED
  BY <1>3 DEF Post, f

LEMMA UntrackMeant ==
  ASSUME NEW s, NEW h, NEW M, NEW w \in WorkOK, Meant(s, h, M, w), NEW p
  PROVE  Meant(s, h, M, Untrack(w, p))
<1>1. /\ Untrack(w, p).ch = w.ch /\ Untrack(w, p).out = w.out
      /\ Untrack(w, p).procs \subseteq w.procs
  BY DEF Untrack, WorkOK
<1>2. QED
  BY <1>1 DEF Meant, Tracks, Opening

\* A step of one side that means its work keeps the ends linked.
LEMMA CallLinked ==
  ASSUME IInv, NEW own, Linked(own), NEW s \in Side, NEW w, Commit(s, w, net[s]),
         UNCHANGED nextPid, \A h, M : Meant(s, h, M, w), IInv', AllKeep
  PROVE  \E own2 : Linked(own2)'
<1>1. Step(s, NoFrame, {}, w, net[s])
  BY DEF Step, Taken, NoFrame
<1>2. QED
  BY <1>1, StepLinked

LEMMA HandledLinked ==
  ASSUME IInv, NEW own, Linked(own), NEW s \in Side, net[s] # << >>,
         NEW w, Commit(s, w, Tail(net[s])), UNCHANGED nextPid,
         Meant(s, Head(net[s]), {}, w),
         Head(net[s]).type = "OPEN" => Head(net[s]).pid \notin w.procs, IInv', AllKeep
  PROVE  \E own2 : Linked(own2)'
<1>1. Step(s, Head(net[s]), {}, w, Tail(net[s]))
  BY DEF Step, Taken
<1>2. QED
  BY <1>1, StepLinked

-----------------------------------------------------------------------------
(* The calls and the timers keep the ends linked.                          *)

LEMMA ConnectRequestLinked ==
  ASSUME IInv, NEW own, Linked(own), NEW s \in Side, ConnectRequest(s), IInv', AllKeep
  PROVE  \E own2 : Linked(own2)'
<1> DEFINE asks == settings[s].asks
           slot == IF asks = "none" THEN "absent" ELSE asks
           f == [type |-> "REQUEST", pid |-> nextPid, slot |-> slot]
           w == [Work(s) EXCEPT !.procs = @ \cup {nextPid},
                   !.ch.ready = TRUE, !.ch.pending = nextPid, !.ch.timer = f]
           c == chan[s]
           d == [c EXCEPT !.ready = TRUE, !.pending = nextPid, !.timer = f]
           v == Post(w, "REQUEST", nextPid, slot)
<1>1. Idle(c) /\ Mint /\ Commit(s, v, net[s])
  BY DEF ConnectRequest
<1>2. nextPid \in Pid /\ slot \in Slot /\ slot = Asked(settings[s])
  BY <1>1, SettingType DEF Mint, Slot, Setting, Asked
<1>3. f \in Handshake /\ f.type = "REQUEST" /\ f.pid = nextPid /\ f.slot = slot
  BY <1>2 DEF Handshake
<1>4. Work(s) \in WorkOK /\ Work(s).ch = c /\ c \in Channel /\ Work(s).procs = procs[s] /\ Work(s).out = << >>
  BY WorkCalm DEF Calm, Silent, WorkOK
<1> HIDE DEF slot
<1>5. v.out = <<f>> /\ v.procs = w.procs /\ v.ch = w.ch
  <2>1. w.out = << >> /\ DOMAIN w = {"ch", "procs", "out"}
    BY <1>4 DEF WorkOK
  <2>2. Append(<< >>, f) = <<f>>
    OBVIOUS
  <2>3. v = [w EXCEPT !.out = Append(@, f)]
    BY DEF Post, PostFrame
  <2> HIDE DEF w, f, v
  <2>4. QED
    BY <2>1, <2>2, <2>3
<1> HIDE DEF f
<1>6. w.ch = d /\ w.procs = procs[s] \cup {nextPid}
  BY <1>4 DEF WorkOK, Channel
<1> HIDE DEF v, w
<1>7. /\ d.pending = nextPid /\ d.timer = f /\ d.active = c.active /\ d.session = c.session
      /\ d.awaiting = c.awaiting /\ d.scheduled = c.scheduled /\ d.transport = c.transport
  BY <1>4 DEF Channel
<1> HIDE DEF d
<1>8. Fits(settings, s, d)
  <2>1. Fits(settings, s, c)
    BY DEF Linked
  <2>2. QED
    BY <1>1, <1>2, <1>3, <1>7, <2>1 DEF Fits, Idle
<1>9. Leads(s, NoFrame, {nextPid}, d)
  BY <1>3, <1>7, <1>8 DEF Leads
<1>10. Posts(s, {nextPid}, v.out)
  BY <1>2, <1>3, <1>5 DEF Posts, Frame
<1>11. Meant(s, NoFrame, {nextPid}, v)
  BY <1>5, <1>6, <1>7, <1>9, <1>10 DEF Meant, Tracks, Opening
<1>12. Step(s, NoFrame, {nextPid}, v, net[s])
  BY <1>1, <1>11 DEF Step, Taken, NoFrame
<1>13. QED
  BY <1>12, StepLinked

LEMMA CancelLinked ==
  ASSUME IInv, NEW own, Linked(own), NEW s \in Side, Cancel(s), IInv', AllKeep
  PROVE  \E own2 : Linked(own2)'
<1> DEFINE u == CancelQuietly(Work(s))
           w == [u EXCEPT !.procs = @ \cup {nextPid}]
           f == [type |-> "CANCEL", pid |-> nextPid, slot |-> "absent"]
           v == Post(w, "CANCEL", nextPid, "absent")
<1>1. Mint /\ nextPid \in Pid /\ Commit(s, v, net[s])
  BY DEF Cancel, Mint
<1>2. Calm(s, u)
  BY WorkCalm, CancelQuietlyCalm
<1> HIDE DEF u
<1>3. w \in WorkOK /\ w.ch = u.ch /\ w.out = << >> /\ w.procs = u.procs \cup {nextPid}
  BY <1>1, <1>2 DEF Calm, Silent, WorkOK
<1> HIDE DEF w
<1>4. f \in Frame /\ v.out = <<f>> /\ v.procs = w.procs /\ v.ch = w.ch
  BY <1>1, <1>3, PostEffect DEF Slot
<1>5. f.type \notin {"CONFIRMED", "REQUEST"}
  OBVIOUS
<1> HIDE DEF f, v
<1>6. Posts(s, {nextPid}, v.out)
  BY <1>4, <1>5 DEF Posts
<1>7. Meant(s, NoFrame, {nextPid}, v)
  BY <1>2, <1>3, <1>4, <1>6, LessLeads DEF Calm, Silent, Meant, Tracks, Opening
<1>8. Step(s, NoFrame, {nextPid}, v, net[s])
  BY <1>1, <1>7 DEF Step, Taken, NoFrame
<1>9. QED
  BY <1>8, StepLinked

LEMMA CloseSilentlyLinked ==
  ASSUME IInv, NEW own, Linked(own), NEW s \in Side, CloseSilently(s), IInv', AllKeep
  PROVE  \E own2 : Linked(own2)'
<1>1. \A h, M : Meant(s, h, M, FinalizeClose(Work(s)))
  BY WorkCalm, FinalizeCloseCalm, CalmMeant
<1>2. Commit(s, FinalizeClose(Work(s)), net[s]) /\ UNCHANGED nextPid
  BY DEF CloseSilently
<1>3. QED
  BY <1>1, <1>2, CallLinked

LEMMA RetryLinked ==
  ASSUME IInv, NEW own, Linked(own), NEW s \in Side, Retry(s), IInv', AllKeep
  PROVE  \E own2 : Linked(own2)'
<1> DEFINE f == chan[s].timer
<1>1. f \in Frame /\ f.type # "CONFIRMED"
  <2>1. f \in Handshake
    BY WorkCalm DEF Retry, IInv, TypeOK, Channel
  <2>2. QED
    BY <2>1 DEF Handshake, Frame
<1>2. \A h, M : Meant(s, h, M, PostFrame(Work(s), f))
  BY <1>1, WorkCalm, PostFrameMeant
<1>3. Commit(s, PostFrame(Work(s), f), net[s]) /\ UNCHANGED nextPid
  BY DEF Retry
<1>4. QED
  BY <1>2, <1>3, CallLinked

LEMMA PostHelloLinked ==
  ASSUME IInv, NEW own, Linked(own), NEW s \in Side, PostHello(s), IInv', AllKeep
  PROVE  \E own2 : Linked(own2)'
<1> DEFINE t == chan[s].transport
           f == [type |-> "HELLO", protocol |-> t.protocol, key |-> t.key]
<1>1. t \in Transport
  BY DEF PostHello, IInv, TypeOK, Channel
<1>2. f \in Frame /\ f.type \notin {"CONFIRMED", "REQUEST"}
  BY <1>1 DEF Transport, Hello, Frame
<1>3. Commit(s, PostFrame(Work(s), f), net[s]) /\ UNCHANGED nextPid
  BY DEF PostHello
<1> HIDE DEF f
<1>4. \A h, M : Meant(s, h, M, PostFrame(Work(s), f))
  BY <1>2, WorkCalm, PostFrameMeant
<1>5. QED
  BY <1>3, <1>4, CallLinked

LEMMA ExpireLinked ==
  ASSUME IInv, NEW own, Linked(own), NEW s \in Side, Expire(s), IInv', AllKeep
  PROVE  \E own2 : Linked(own2)'
<1> DEFINE v == Untrack(Release(Work(s)), chan[s].timer.pid)
           w == [v EXCEPT !.ch.pending = 0, !.ch.awaiting = NoRequest]
           c == [v.ch EXCEPT !.pending = 0, !.awaiting = NoRequest]
<1>1. Commit(s, w, net[s]) /\ UNCHANGED nextPid
  BY DEF Expire
<1>2. Calm(s, v)
  <2>1. Calm(s, Release(Work(s)))
    BY WorkCalm, ReleaseCalm
  <2>2. QED
    BY <2>1, UntrackCalm
<1>3. v \in WorkOK /\ v.ch \in Channel /\ v.out = << >> /\ v.procs \subseteq procs[s]
  BY <1>2 DEF Calm, Silent, WorkOK
<1> HIDE DEF v
<1>4. w = [v EXCEPT !.ch = c] /\ c \in Channel
  BY <1>3 DEF WorkOK, Channel
<1>5. Less(v.ch, c)
  BY <1>3 DEF Less, Channel
<1> HIDE DEF c, w
<1>6. w \in WorkOK /\ w.ch = c /\ w.out = v.out /\ w.procs = v.procs
  BY <1>3, <1>4 DEF WorkOK
<1>7. Calm(s, w)
  BY <1>2, <1>5, <1>6, LessTransitive DEF Calm, Silent
<1>8. \A h, M : Meant(s, h, M, w)
  BY <1>7, CalmMeant
<1>9. QED
  BY <1>1, <1>8, CallLinked

LEMMA ConfirmTimeoutLinked ==
  ASSUME IInv, NEW own, Linked(own), NEW s \in Side, ConfirmTimeout(s), IInv', AllKeep
  PROVE  \E own2 : Linked(own2)'
<1>1. Calm(s, Work(s)) /\ UNCHANGED nextPid
  BY WorkCalm DEF ConfirmTimeout
<1>2. CASE Commit(s, FinalizeClose(Work(s)), net[s])
  <2>1. \A h, M : Meant(s, h, M, FinalizeClose(Work(s)))
    BY <1>1, FinalizeCloseCalm, CalmMeant
  <2>2. QED
    BY <1>1, <1>2, <2>1, CallLinked
<1>3. CASE Commit(s, DropTransport(Work(s)), net[s])
  <2>1. \A h, M : Meant(s, h, M, DropTransport(Work(s)))
    BY <1>1, DropTransportCalm, CalmMeant
  <2>2. QED
    BY <1>1, <1>3, <2>1, CallLinked
<1>4. CASE /\ chan[s].awaiting # NoRequest
           /\ Commit(s, Post(CancelQuietly(Work(s)), "CANCEL", chan[s].awaiting.pid, "absent"), net[s])
  <2> DEFINE p == chan[s].awaiting.pid
  <2>1. p \in Pid /\ "absent" \in Slot
    BY <1>4 DEF IInv, TypeOK, Channel, Request, Slot
  <2> HIDE DEF p
  <2>2. Calm(s, CancelQuietly(Work(s)))
    BY <1>1, CancelQuietlyCalm
  <2>3. \A h, M : Meant(s, h, M, Post(CancelQuietly(Work(s)), "CANCEL", p, "absent"))
    BY <2>1, <2>2, PostMeant
  <2>4. QED
    BY <1>1, <1>4, <2>3, CallLinked DEF p
<1>5. QED
  BY <1>2, <1>3, <1>4 DEF ConfirmTimeout

-----------------------------------------------------------------------------
(* Answering a request.                                                    *)

\* A work from which a side, without a session or a request of its own, may answer:
\* the transport it has is one just attached.
Poised(s, h, w) ==
  LET c == chan[s]
      d == w.ch
  IN
  /\ w \in WorkOK /\ w.out = << >> /\ Tracks(s, h, {}, w.procs)
  /\ ~d.active /\ d.session = 0 /\ d.pending = 0
  /\ d.awaiting = c.awaiting /\ d.scheduled = c.scheduled /\ d.timer \in {NoFrame, c.timer}
  /\ Bare(d.transport)
  /\ d.transport # NoTransport => Common(settings, s)

LEMMA PoisedFits ==
  ASSUME NEW own, Linked(own), NEW s \in Side, NEW h, NEW w, Poised(s, h, w)
  PROVE  Fits(settings, s, w.ch)
<1> DEFINE c == chan[s]
           d == w.ch
<1>1. Fits(settings, s, c)
  BY DEF Linked
<1>2. /\ ~d.active /\ d.session = 0 /\ d.pending = 0
      /\ d.scheduled = c.scheduled /\ d.timer \in {NoFrame, c.timer}
      /\ d.transport # NoTransport => Common(settings, s)
  BY DEF Poised
<1>3. d.transport.waiting = {}
  BY DEF Poised, Bare, Fresh, NoTransport
<1>4. d.timer.type = "REQUEST" => d.timer.slot = Asked(settings[s])
  BY <1>1, <1>2 DEF Fits, NoFrame
<1> HIDE DEF c, d
<1>5. QED
  BY <1>1, <1>2, <1>3, <1>4 DEF Fits, d

\* What attachSecurityTransport posts and tracks, and whether it leaves a transport.
LEMMA AttachmentsPoise ==
  ASSUME NEW s \in Side, NEW w \in WorkOK, NEW protocol \in Protocol, NEW role \in Role,
         NEW a \in Attachments(w, s, protocol, role)
  PROVE  /\ a.w.out = w.out /\ a.w.procs = w.procs
         /\ \/ a.slot = "none" /\ (protocol \in settings[s].offers => a.w.ch.transport = NoTransport)
            \/ a.slot = protocol /\ Fresh(a.w.ch.transport)
<1>1. CASE a = [w |-> w, slot |-> "none"] /\ protocol \notin settings[s].offers
  BY <1>1
<1>2. CASE a = [w |-> DropTransport(w), slot |-> "none"]
  <2>1. a.w = DropTransport(w) /\ a.slot = "none"
    BY <1>2
  <2>2. DropTransport(w).ch.transport = NoTransport
    <3>1. DropTransport(w).ch = [w.ch EXCEPT !.transport = NoTransport] /\ w.ch \in Channel
      BY DropTransportType DEF WorkOK
    <3>2. QED
      BY <3>1 DEF Channel
  <2>3. DropTransport(w).out = w.out /\ DropTransport(w).procs = w.procs
    BY DEF DropTransport, WorkOK
  <2>4. QED
    BY <2>1, <2>2, <2>3
<1>3. ASSUME NEW k \in Key \ InUse,
             a = [slot |-> protocol,
                  w |-> [w EXCEPT !.ch.transport =
                           [key |-> k, protocol |-> protocol, role |-> role, peer |-> None,
                            waiting |-> {}, confirmed |-> FALSE]]]
      PROVE  /\ a.w.out = w.out /\ a.w.procs = w.procs
             /\ a.slot = protocol /\ Fresh(a.w.ch.transport)
  <2> DEFINE t == [key |-> k, protocol |-> protocol, role |-> role, peer |-> None,
                   waiting |-> {}, confirmed |-> FALSE]
  <2>1. Fresh(t)
    BY DEF Fresh, Transport
  <2>2. a.slot = protocol /\ a.w = [w EXCEPT !.ch.transport = t]
    BY <1>3
  <2> HIDE DEF t
  <2>3. a.w.out = w.out /\ a.w.procs = w.procs /\ a.w.ch.transport = t
    BY <2>2 DEF WorkOK, Channel
  <2>4. QED
    BY <2>1, <2>2, <2>3
<1>4. QED
  BY <1>1, <1>2, <1>3 DEF Attachments

\* The outcome recorded, or another field of the channel no link depends on.
LEMMA RecordPoised ==
  ASSUME NEW s, NEW h, NEW w, Poised(s, h, w), NEW x \in Protocol \cup {"none", "null"}
  PROVE  Poised(s, h, [w EXCEPT !.ch.negotiated = x])
<1> DEFINE d == [w.ch EXCEPT !.negotiated = x]
           v == [w EXCEPT !.ch.negotiated = x]
<1>1. w \in WorkOK /\ w.ch \in Channel
  BY DEF Poised, WorkOK
<1>2. v = [w EXCEPT !.ch = d] /\ d \in Channel
  BY <1>1 DEF WorkOK, Channel
<1>3. /\ d.active = w.ch.active /\ d.session = w.ch.session /\ d.pending = w.ch.pending
      /\ d.awaiting = w.ch.awaiting /\ d.scheduled = w.ch.scheduled /\ d.timer = w.ch.timer
      /\ d.transport = w.ch.transport
  BY <1>1 DEF Channel
<1> HIDE DEF d, v
<1>4. v \in WorkOK /\ v.ch = d /\ v.out = w.out /\ v.procs = w.procs
  BY <1>1, <1>2 DEF WorkOK
<1>5. QED
  BY <1>3, <1>4 DEF Poised, v

\* BeginResponse, to the request scheduled or the one at hand.
LEMMA BeginResponseMeant ==
  ASSUME IInv, NEW own, Linked(own), NEW s \in Side, NEW h, NEW w, Poised(s, h, w),
         NEW r \in Request, NEW slot \in Slot,
         r = chan[s].scheduled \/ (h.type = "REQUEST" /\ h.pid = r.pid)
  PROVE  Meant(s, h, {}, BeginResponse(w, r, slot))
<1> DEFINE f == [type |-> "ACCEPT", pid |-> r.pid, slot |-> slot]
           d == [w.ch EXCEPT !.scheduled = NoRequest, !.awaiting = r, !.timer = f]
           u == [w EXCEPT !.ch.scheduled = NoRequest, !.ch.awaiting = r, !.ch.timer = f]
           v == BeginResponse(w, r, slot)
<1>1. w \in WorkOK /\ w.ch \in Channel /\ r.pid \in Pid
  BY DEF Poised, WorkOK, Request
<1>2. v.ch = d
  BY <1>1, BeginResponseType
<1>3. f \in Handshake /\ f.type = "ACCEPT"
  BY <1>1 DEF Handshake
<1>4. v.out = <<f>> /\ v.procs = w.procs
  <2>1. v = Post(u, "ACCEPT", r.pid, slot)
    BY DEF BeginResponse
  <2> HIDE DEF f, v
  <2>2. u = [w EXCEPT !.ch = d] /\ d \in Channel
    BY <1>1, <1>3 DEF WorkOK, Channel
  <2>3. u \in WorkOK /\ u.out = << >> /\ u.procs = w.procs
    BY <1>1, <2>2 DEF WorkOK, Poised
  <2> HIDE DEF u
  <2>4. QED
    BY <1>1, <2>1, <2>3, PostEffect DEF f
<1> HIDE DEF f, v, u
<1>5. /\ d.active = w.ch.active /\ d.session = w.ch.session /\ d.pending = w.ch.pending
      /\ d.awaiting = r /\ d.scheduled = NoRequest /\ d.timer = f
      /\ d.transport = w.ch.transport
  BY <1>1 DEF Channel
<1> HIDE DEF d
<1>6. Fits(settings, s, d)
  <2>1. Fits(settings, s, w.ch) /\ NoRequest.slot \notin Protocol
    BY PoisedFits, PlaintextSlots DEF NoRequest
  <2>2. QED
    BY <1>3, <1>5, <2>1 DEF Fits, Poised
<1>7. Leads(s, h, {}, d)
  BY <1>3, <1>5, <1>6 DEF Leads, Poised
<1>8. Posts(s, {}, v.out)
  BY <1>3, <1>4 DEF Posts, Frame
<1>9. QED
  BY <1>2, <1>4, <1>5, <1>7, <1>8 DEF Meant, Opening, Poised, v

LEMMA ConnectAnswerLinked ==
  ASSUME IInv, NEW own, Linked(own), NEW s \in Side, ConnectAnswer(s), IInv', AllKeep
  PROVE  \E own2 : Linked(own2)'
<1> DEFINE r == chan[s].scheduled
           w == [Work(s) EXCEPT !.ch.ready = TRUE]
           c == chan[s]
           d == [c EXCEPT !.ready = TRUE]
           refused(v) == [Untrack(v, r.pid) EXCEPT !.ch.scheduled = NoRequest, !.ch.negotiated = "null"]
           degraded(v) == [v EXCEPT !.ch.negotiated = "none"]
<1>1. /\ Idle(c) /\ r # NoRequest /\ UNCHANGED nextPid
      /\ \/ r.slot \notin Protocol /\ Commit(s, BeginResponse(w, r, r.slot), net[s])
         \/ /\ r.slot \in Protocol
            /\ \E a \in Attachments(w, s, r.slot, "responder") :
                 \/ /\ a.slot # "none"
                    /\ Commit(s, BeginResponse(a.w, r, a.slot), net[s])
                 \/ /\ a.slot = "none"
                    /\ Commit(s, RefuseScheduled(a.w, r), net[s])
                 \/ /\ a.slot = "none"
                    /\ Commit(s, BeginResponse(degraded(a.w), r, "none"), net[s])
  BY DEF ConnectAnswer
<1>2. /\ Work(s) \in WorkOK /\ Work(s).ch = c /\ c \in Channel /\ Work(s).out = << >>
      /\ Work(s).procs = procs[s] /\ Sound(settings[s], c) /\ Fits(settings, s, c)
  BY WorkCalm DEF Calm, Silent, WorkOK, IInv, Linked
<1>3. r \in Request /\ r.slot \in Slot /\ r.pid \in Pid
  BY <1>1, <1>2 DEF Channel, Request
<1>4. w \in WorkOK /\ w.ch = d /\ w.out = << >> /\ w.procs = procs[s]
  BY <1>2 DEF WorkOK, Channel
<1>5. /\ d.active = c.active /\ d.session = c.session /\ d.pending = c.pending
      /\ d.awaiting = c.awaiting /\ d.scheduled = c.scheduled /\ d.timer = c.timer
      /\ d.transport = c.transport
  BY <1>2 DEF Channel
<1>6. c.transport = NoTransport /\ ~c.active /\ c.session = 0 /\ c.pending = 0
  BY <1>1, <1>2 DEF Idle, Sound, Owned, Fits
<1>7. r.slot \in Protocol => Common(settings, s)
  BY <1>2 DEF Fits
<1> HIDE DEF d, w, r
<1>8. \A h : Poised(s, h, w)
  BY <1>2, <1>4, <1>5, <1>6 DEF Poised, Tracks, Bare
<1>9. CASE r.slot \notin Protocol /\ Commit(s, BeginResponse(w, r, r.slot), net[s])
  <2>1. Meant(s, NoFrame, {}, BeginResponse(w, r, r.slot))
    BY <1>3, <1>8, BeginResponseMeant DEF r
  <2>2. Step(s, NoFrame, {}, BeginResponse(w, r, r.slot), net[s])
    BY <1>1, <1>9, <2>1 DEF Step, Taken, NoFrame
  <2>3. QED
    BY <2>2, StepLinked
<1>10. ASSUME r.slot \in Protocol, NEW a \in Attachments(w, s, r.slot, "responder")
       PROVE  /\ Poised(s, NoFrame, a.w) /\ a.slot \in Slot
              /\ a.slot = "none" => Calm(s, a.w)
  <2>1. "responder" \in Role
    BY DEF Role
  <2>2. /\ a.w \in WorkOK
        /\ \/ a.slot = "none" /\ Detached(w.ch, a.w.ch)
           \/ a.slot = r.slot /\ Attached(w.ch, r.slot, a.w.ch)
    BY <1>4, <1>10, <2>1, AttachmentsType
  <2>3. /\ a.w.out = w.out /\ a.w.procs = w.procs
        /\ \/ a.slot = "none"
           \/ a.slot = r.slot /\ Fresh(a.w.ch.transport)
    BY <1>4, <1>10, <2>1, AttachmentsPoise
  <2>4. w.ch \in Channel
    BY <1>4 DEF WorkOK
  <2>5. /\ a.w.ch.active = d.active /\ a.w.ch.session = d.session /\ a.w.ch.pending = d.pending
        /\ a.w.ch.awaiting = d.awaiting /\ a.w.ch.scheduled = d.scheduled /\ a.w.ch.timer = d.timer
        /\ a.w.ch.transport = NoTransport \/ (a.slot = r.slot /\ Fresh(a.w.ch.transport))
    <3>1. CASE a.slot = "none" /\ Detached(w.ch, a.w.ch)
      BY <1>4, <1>5, <1>6, <2>4, <3>1 DEF Detached, Channel
    <3>2. CASE a.slot = r.slot /\ Attached(w.ch, r.slot, a.w.ch)
      BY <1>4, <1>10, <2>3, <2>4, <3>2, PlaintextSlots DEF Attached, Channel
    <3>3. QED
      BY <2>2, <3>1, <3>2
  <2>6. Poised(s, NoFrame, a.w)
    BY <1>4, <1>5, <1>6, <1>7, <1>10, <2>2, <2>3, <2>5 DEF Poised, Tracks, Bare
  <2>7. a.slot = "none" => Calm(s, a.w)
    BY <1>4, <1>5, <1>6, <1>10, <2>2, <2>3, <2>5, PlaintextSlots DEF Calm, Silent, Less
  <2>8. QED
    BY <1>10, <2>2, <2>6, <2>7 DEF Slot
<1>11. ASSUME r.slot \in Protocol, NEW a \in Attachments(w, s, r.slot, "responder"),
              Commit(s, BeginResponse(a.w, r, a.slot), net[s])
       PROVE  \E own2 : Linked(own2)'
  <2>1. Meant(s, NoFrame, {}, BeginResponse(a.w, r, a.slot))
    BY <1>3, <1>10, <1>11, BeginResponseMeant DEF r
  <2>2. Step(s, NoFrame, {}, BeginResponse(a.w, r, a.slot), net[s])
    BY <1>1, <1>11, <2>1 DEF Step, Taken, NoFrame
  <2>3. QED
    BY <2>2, StepLinked
<1>12. ASSUME r.slot \in Protocol, NEW a \in Attachments(w, s, r.slot, "responder"),
              a.slot = "none", Commit(s, RefuseScheduled(a.w, r), net[s])
       PROVE  \E own2 : Linked(own2)'
  <2> DEFINE u == Untrack(a.w, r.pid)
             e == [u.ch EXCEPT !.scheduled = NoRequest, !.negotiated = "null"]
  <2>1. Calm(s, u) /\ u \in WorkOK /\ u.ch \in Channel
    <3>1. Calm(s, u)
      BY <1>10, <1>12, UntrackCalm
    <3> HIDE DEF u
    <3>2. QED
      BY <3>1 DEF Calm, Silent, WorkOK
  <2>2. RefuseScheduled(a.w, r) = Post(refused(a.w), "DENY", r.pid, "absent")
    BY DEF RefuseScheduled
  <2>3. refused(a.w) = [u EXCEPT !.ch.scheduled = NoRequest, !.ch.negotiated = "null"]
    OBVIOUS
  <2> HIDE DEF u, refused
  <2>4. refused(a.w) = [u EXCEPT !.ch = e] /\ e \in Channel /\ Less(u.ch, e)
    BY <2>1, <2>3 DEF WorkOK, Channel, Less
  <2> HIDE DEF e
  <2>5. /\ refused(a.w) \in WorkOK /\ refused(a.w).ch = e
        /\ refused(a.w).out = u.out /\ refused(a.w).procs = u.procs
    BY <2>1, <2>4 DEF WorkOK
  <2>6. Calm(s, refused(a.w))
    BY <2>1, <2>4, <2>5, LessTransitive DEF Calm, Silent
  <2>7. \A h, M : Meant(s, h, M, RefuseScheduled(a.w, r))
    BY <1>3, <2>2, <2>6, PostMeant DEF Slot
  <2>8. QED
    BY <1>1, <1>12, <2>7, CallLinked
<1>13. ASSUME r.slot \in Protocol, NEW a \in Attachments(w, s, r.slot, "responder"),
              Commit(s, BeginResponse(degraded(a.w), r, "none"), net[s])
       PROVE  \E own2 : Linked(own2)'
  <2>1. Poised(s, NoFrame, degraded(a.w))
    BY <1>10, <1>13, RecordPoised
  <2> HIDE DEF degraded
  <2>2. Meant(s, NoFrame, {}, BeginResponse(degraded(a.w), r, "none"))
    BY <1>3, <2>1, BeginResponseMeant DEF r, Slot
  <2>3. Step(s, NoFrame, {}, BeginResponse(degraded(a.w), r, "none"), net[s])
    BY <1>1, <1>13, <2>2 DEF Step, Taken, NoFrame
  <2>4. QED
    BY <2>3, StepLinked
<1>14. QED
  BY <1>1, <1>9, <1>11, <1>12, <1>13

\* The outcome of a negotiation, recorded.
LEMMA RecordEffect ==
  ASSUME NEW v \in WorkOK, NEW slot \in Protocol \cup {"none"},
         NEW n, n = [[w |-> v, slot |-> slot] EXCEPT !.w.ch.negotiated = slot]
  PROVE  /\ n.slot = slot /\ n.w = [v EXCEPT !.ch.negotiated = slot]
         /\ n.w \in WorkOK /\ n.w.out = v.out /\ n.w.procs = v.procs
         /\ n.w.ch.transport = v.ch.transport
<1> DEFINE d == [v.ch EXCEPT !.negotiated = slot]
<1>1. n.w = [v EXCEPT !.ch.negotiated = slot] /\ n.slot = slot
  OBVIOUS
<1>2. /\ [v EXCEPT !.ch.negotiated = slot] = [v EXCEPT !.ch = d]
      /\ d \in Channel /\ d.transport = v.ch.transport
  BY DEF WorkOK, Channel
<1> HIDE DEF d
<1>3. n.w = [v EXCEPT !.ch = d]
  BY <1>1, <1>2
<1>4. n.w \in WorkOK /\ n.w.ch = d /\ n.w.out = v.out /\ n.w.procs = v.procs
  BY <1>2, <1>3 DEF WorkOK
<1>5. QED
  BY <1>1, <1>2, <1>4

LEMMA RecordCalm ==
  ASSUME NEW s, NEW w, Calm(s, w), NEW x \in Protocol \cup {"none", "null"}
  PROVE  /\ Calm(s, [w EXCEPT !.ch.negotiated = x])
         /\ [w EXCEPT !.ch.negotiated = x].procs = w.procs
<1> DEFINE d == [w.ch EXCEPT !.negotiated = x]
           v == [w EXCEPT !.ch.negotiated = x]
<1>1. w \in WorkOK /\ w.ch \in Channel /\ w.out = << >> /\ w.procs \subseteq procs[s]
  BY DEF Calm, Silent, WorkOK
<1>2. v = [w EXCEPT !.ch = d] /\ d \in Channel /\ Less(w.ch, d)
  BY <1>1 DEF WorkOK, Channel, Less
<1> HIDE DEF d, v
<1>3. v \in WorkOK /\ v.ch = d /\ v.out = w.out /\ v.procs = w.procs
  BY <1>1, <1>2 DEF WorkOK
<1>4. Calm(s, v)
  BY <1>1, <1>2, <1>3, LessTransitive DEF Calm, Silent
<1>5. QED
  BY <1>3, <1>4 DEF v

\* A side that waits for no answer and is not in session, but for its transport.
Resting(s, w) ==
  LET c == chan[s]
      d == w.ch
  IN
  /\ w \in WorkOK /\ w.out = << >> /\ w.procs \subseteq procs[s]
  /\ ~d.active /\ d.session = 0 /\ d.pending = 0
  /\ d.awaiting = c.awaiting /\ d.scheduled = c.scheduled /\ d.timer \in {NoFrame, c.timer}

LEMMA RestingPoised ==
  ASSUME NEW s, NEW w, Resting(s, w), w.ch.transport = NoTransport, NEW h
  PROVE  Poised(s, h, w)
BY DEF Resting, Poised, Tracks, Bare

\* A provider registered for a protocol the two sides may settle for poises the side.
LEMMA AttachmentsPoised ==
  ASSUME NEW s \in Side, NEW w, Resting(s, w), Common(settings, s),
         NEW protocol \in settings[s].offers, protocol \in Protocol,
         NEW a \in Attachments(w, s, protocol, "responder"), NEW h
  PROVE  Poised(s, h, a.w) /\ a.w \in WorkOK /\ a.slot \in {"none", protocol}
<1>1. w \in WorkOK /\ "responder" \in Role /\ w.ch \in Channel
  BY DEF Resting, Role, WorkOK
<1>2. /\ a.w \in WorkOK /\ a.slot \in {"none", protocol}
      /\ Detached(w.ch, a.w.ch) \/ Attached(w.ch, protocol, a.w.ch)
  BY <1>1, AttachmentsType
<1>3. /\ a.w.out = w.out /\ a.w.procs = w.procs
      /\ Bare(a.w.ch.transport)
  BY <1>1, AttachmentsPoise DEF Bare
<1>4. /\ a.w.ch.active = w.ch.active /\ a.w.ch.session = w.ch.session
      /\ a.w.ch.pending = w.ch.pending /\ a.w.ch.awaiting = w.ch.awaiting
      /\ a.w.ch.scheduled = w.ch.scheduled /\ a.w.ch.timer = w.ch.timer
  BY <1>1, <1>2 DEF Detached, Attached, Channel
<1>5. QED
  BY <1>2, <1>3, <1>4 DEF Resting, Poised, Tracks

-----------------------------------------------------------------------------
(* The handlers keep the ends linked.                                      *)

LEMMA AnswerMeant ==
  ASSUME IInv, NEW own, Linked(own), NEW s \in Side, NEW h, NEW w, Poised(s, h, w),
         NEW r \in Request, h.type = "REQUEST", h.pid = r.pid,
         r.slot \in Protocol => Common(settings, s)
  PROVE  Meant(s, h, {}, Answer(w, s, r))
<1> DEFINE tracked == [w EXCEPT !.procs = @ \cup {r.pid}]
           v == [tracked EXCEPT !.ch.scheduled = r, !.procs = @ \ ({w.ch.scheduled.pid} \ {r.pid})]
           d == [w.ch EXCEPT !.scheduled = r]
           f == [type |-> "DENY", pid |-> r.pid, slot |-> "absent"]
<1>1. /\ w \in WorkOK /\ w.ch \in Channel /\ w.procs \subseteq Pid /\ w.out = << >>
      /\ Tracks(s, h, {}, w.procs)
      /\ r.pid \in Pid /\ r.slot \in Slot
  BY DEF Poised, WorkOK, Request
<1>2. Fits(settings, s, w.ch)
  BY PoisedFits
<1>3. Poised(s, h, tracked)
  <2>1. /\ tracked \in WorkOK /\ tracked.ch = w.ch /\ tracked.out = << >>
        /\ tracked.procs = w.procs \cup {r.pid}
    BY <1>1 DEF WorkOK
  <2> HIDE DEF tracked
  <2>2. QED
    BY <1>1, <2>1 DEF Poised, Tracks
<1>4. CASE Answer(w, s, r) = Post(w, "DENY", r.pid, "absent")
  <2>1. /\ f \in Frame /\ Post(w, "DENY", r.pid, "absent").out = <<f>>
        /\ Post(w, "DENY", r.pid, "absent").procs = w.procs
        /\ Post(w, "DENY", r.pid, "absent").ch = w.ch
    <3>1. "absent" \in Slot /\ "DENY" \in {"ACCEPT", "OPEN", "DENY", "CANCEL", "CANCEL_ACK"}
      BY DEF Slot
    <3>2. /\ [type |-> "DENY", pid |-> r.pid, slot |-> "absent"] \in Frame
          /\ Post(w, "DENY", r.pid, "absent").out = <<[type |-> "DENY", pid |-> r.pid, slot |-> "absent"]>>
          /\ Post(w, "DENY", r.pid, "absent").procs = w.procs
          /\ Post(w, "DENY", r.pid, "absent").ch = w.ch
      BY <1>1, <3>1, PostEffect
    <3>3. QED
      BY <3>2
  <2>2. f.type = "DENY"
    OBVIOUS
  <2> HIDE DEF f
  <2>3. Posts(s, {}, <<f>>)
    BY <2>1, <2>2 DEF Posts
  <2>4. Leads(s, h, {}, w.ch) /\ w.ch.session = 0
    BY <1>2 DEF Leads, Poised, NoFrame
  <2>5. QED
    BY <1>1, <1>4, <2>1, <2>3, <2>4 DEF Meant, Opening
<1>5. CASE Answer(w, s, r) = BeginResponse(tracked, r, r.slot)
  <2> HIDE DEF tracked
  <2>1. QED
    BY <1>1, <1>3, <1>5, BeginResponseMeant
<1>6. CASE Answer(w, s, r) = v
  <2>1. /\ v.ch = d /\ v.out = << >>
        /\ v.procs = (w.procs \cup {r.pid}) \ ({w.ch.scheduled.pid} \ {r.pid})
    BY <1>1 DEF WorkOK, Channel
  <2>2. /\ d.active = w.ch.active /\ d.session = w.ch.session /\ d.pending = w.ch.pending
        /\ d.awaiting = w.ch.awaiting /\ d.scheduled = r /\ d.timer = w.ch.timer
        /\ d.transport = w.ch.transport
    BY <1>1 DEF Channel
  <2> HIDE DEF d, v
  <2>3. Fits(settings, s, d)
    BY <1>2, <2>2 DEF Fits
  <2>4. Leads(s, h, {}, d) /\ d.session = 0
    BY <2>2, <2>3 DEF Leads, Poised, NoFrame
  <2>5. Tracks(s, h, {}, v.procs)
    BY <1>1, <2>1 DEF Tracks
  <2>6. QED
    BY <1>6, <2>1, <2>4, <2>5 DEF Meant, Posts, Opening
<1>7. QED
  BY <1>4, <1>5, <1>6 DEF Answer

\* The transport of a side that is not in session serves the protocol the two settle
\* for: a request they cannot settle for finds none, nor does a side not yet ready.
LEMMA RequestFindsNone ==
  ASSUME IInv, NEW own, Linked(own), NEW s \in Side, NEW f \in ToSet(net[s]), f.type = "REQUEST",
         ~chan[s].active
  PROVE  /\ f.slot = "absent" => chan[s].transport = NoTransport
         /\ f.slot # "absent" =>
              /\ Negotiate(s, f.slot) \in {"none", f.slot}
              /\ Negotiate(s, f.slot) # "none" =>
                   /\ Common(settings, s) /\ f.slot \in Protocol
                   /\ f.slot \in settings[s].offers
              /\ Negotiate(s, f.slot) = "none" \/ ~chan[s].ready => chan[s].transport = NoTransport
<1> DEFINE c == chan[s]
           asks == settings[Other(s)].asks
<1>1. settings[s] \in Setting /\ settings[Other(s)] \in Setting
  BY OtherSide, SettingType
<1>2. f.slot = IF asks = "none" THEN "absent" ELSE asks
  BY DEF Linked, Directed, Asked
<1>3. asks \in Protocol \cup {"none"} /\ settings[s].offers \subseteq Protocol
  BY <1>1 DEF Setting
<1>4. /\ Fits(settings, s, c) /\ Owned(c) /\ Settled(c)
  BY DEF Linked, IInv, Sound
<1>5. Common(settings, s) <=> asks \in settings[s].offers /\ settings[s].asks \in {"none", asks}
  BY DEF Common
<1> HIDE DEF asks, c
<1>6. ~Common(settings, s) \/ ~c.ready => c.transport = NoTransport
  BY <1>4 DEF Fits, Owned, Settled, c
<1>7. QED
  BY <1>2, <1>3, <1>5, <1>6, PlaintextSlots DEF Negotiate, c

LEMMA NegotiationsPoise ==
  ASSUME IInv, NEW own, Linked(own), NEW s \in Side, NEW f \in ToSet(net[s]), f.type = "REQUEST",
         f.slot # "absent", ~chan[s].active, NEW w, Resting(s, w),
         w.ch.transport = chan[s].transport, w.ch.ready = chan[s].ready,
         NEW n \in Negotiations(w, s, f.slot), NEW h
  PROVE  /\ Poised(s, h, n.w) /\ n.slot \in Slot
         /\ n.slot \in Protocol => Common(settings, s)
<1> DEFINE chosen == Negotiate(s, f.slot)
<1>1. /\ chosen \in {"none", f.slot}
      /\ chosen # "none" => /\ Common(settings, s) /\ f.slot \in Protocol
                            /\ f.slot \in settings[s].offers
      /\ chosen = "none" \/ ~chan[s].ready => chan[s].transport = NoTransport
  BY RequestFindsNone
<1>2. w \in WorkOK
  BY DEF Resting
<1> HIDE DEF chosen
<1>3. CASE chosen = "none" \/ ~w.ch.ready
  <2>1. n = [[w |-> w, slot |-> chosen] EXCEPT !.w.ch.negotiated = chosen]
    BY <1>3 DEF Negotiations, chosen
  <2>2. chosen \in Protocol \cup {"none"}
    BY <1>1
  <2>3. n.slot = chosen /\ n.w = [w EXCEPT !.ch.negotiated = chosen]
    BY <1>2, <2>1, <2>2, RecordEffect
  <2>4. Poised(s, h, w)
    BY <1>1, <1>3, RestingPoised
  <2>5. QED
    BY <1>1, <2>2, <2>3, <2>4, RecordPoised, PlaintextSlots DEF Slot
<1>4. CASE chosen # "none" /\ w.ch.ready
  <2>1. PICK a \in Attachments(w, s, chosen, "responder") : n = [a EXCEPT !.w.ch.negotiated = a.slot]
    BY <1>4 DEF Negotiations, chosen
  <2>2. Poised(s, h, a.w) /\ a.w \in WorkOK /\ a.slot \in {"none", chosen}
    BY <1>1, <1>4, AttachmentsPoised
  <2>3. a = [w |-> a.w, slot |-> a.slot]
    BY DEF Attachments
  <2>4. a.slot \in Protocol \cup {"none"}
    BY <1>1, <2>2
  <2>5. n = [[w |-> a.w, slot |-> a.slot] EXCEPT !.w.ch.negotiated = a.slot]
    BY <2>1, <2>3
  <2>6. n.slot = a.slot /\ n.w = [a.w EXCEPT !.ch.negotiated = a.slot]
    BY <2>2, <2>4, <2>5, RecordEffect
  <2>7. QED
    BY <1>1, <1>4, <2>2, <2>4, <2>6, RecordPoised DEF Slot
<1>5. QED
  BY <1>3, <1>4

LEMMA HandleRequestLinked ==
  ASSUME IInv, NEW own, Linked(own), NEW s \in Side, net[s] # << >>,
         NEW f, f = Head(net[s]), f.type = "REQUEST", HandleRequest(s, f, Tail(net[s])),
         UNCHANGED nextPid, IInv', AllKeep
  PROVE  \E own2 : Linked(own2)'
<1> DEFINE c == chan[s]
           w == IF c.pending = 0 THEN Work(s) ELSE AbandonRequest(Work(s))
           plain == [pid |-> f.pid, slot |-> "absent"]
           rest == Tail(net[s])
<1>1. f \in Frame /\ f.pid \in Pid /\ f.slot \in Slot
  BY Arrives, HandshakeFrame
<1>2. f \in ToSet(net[s])
  BY RemovedFrame DEF Removed, IInv, TypeOK
<1>3. /\ Calm(s, Work(s)) /\ Work(s).ch = c /\ c \in Channel
      /\ Fits(settings, s, c)
  BY WorkCalm DEF Linked, IInv, TypeOK
<1>4. ASSUME NEW v, Commit(s, v, rest), Meant(s, f, {}, v)
      PROVE  \E own2 : Linked(own2)'
  BY <1>4, HandledLinked
<1>5. CASE Commit(s, ReplayAccept(Work(s), f), rest)
  <2> DEFINE slot == IF f.slot = "absent" \/ Work(s).ch.negotiated = "null" THEN "absent"
                     ELSE Work(s).ch.negotiated
  <2>1. slot \in Slot
    BY <1>3 DEF Slot, Channel
  <2>2. ReplayAccept(Work(s), f) = Post(Work(s), "ACCEPT", f.pid, slot)
    BY DEF ReplayAccept
  <2> HIDE DEF slot, rest
  <2>3. Meant(s, f, {}, ReplayAccept(Work(s), f))
    BY <1>1, <1>3, <2>1, <2>2, PostMeant
  <2>4. QED
    BY <1>4, <1>5, <2>3
<1>6. CASE Commit(s, Work(s), rest)
  <2>1. Meant(s, f, {}, Work(s))
    BY <1>3, CalmMeant
  <2> HIDE DEF rest
  <2>2. QED
    BY <1>4, <1>6, <2>1
<1>7. ASSUME ~c.active
      PROVE  Resting(s, w) /\ w.ch.transport = c.transport /\ w.ch.ready = c.ready
  <2>1. /\ Calm(s, w)
        /\ (w.ch = c /\ c.pending = 0) \/ w.ch = [c EXCEPT !.timer = NoFrame, !.pending = 0]
    BY <1>3, AbandonRequestCalm
  <2> HIDE DEF w
  <2>2. /\ w.ch.active = c.active /\ w.ch.session = c.session /\ w.ch.pending = 0
        /\ w.ch.awaiting = c.awaiting /\ w.ch.scheduled = c.scheduled
        /\ w.ch.timer \in {NoFrame, c.timer}
        /\ w.ch.transport = c.transport /\ w.ch.ready = c.ready
    BY <1>3, <2>1 DEF Channel
  <2>3. c.session = 0
    BY <1>3, <1>7 DEF Fits
  <2>4. QED
    BY <1>7, <2>1, <2>2, <2>3 DEF Calm, Silent, Resting
<1> HIDE DEF w, rest
<1>8. CASE ~c.active /\ f.slot = "absent" /\ Commit(s, Answer(w, s, plain), rest)
  <2>1. plain \in Request /\ plain.pid = f.pid /\ plain.slot \notin Protocol
    BY <1>1, PlaintextSlots DEF Request, Slot
  <2>2. c.transport = NoTransport
    BY <1>2, <1>8, RequestFindsNone
  <2>3. Poised(s, f, w)
    BY <1>7, <1>8, <2>2, RestingPoised
  <2> HIDE DEF plain
  <2>4. Meant(s, f, {}, Answer(w, s, plain))
    BY <2>1, <2>3, AnswerMeant
  <2>5. QED
    BY <1>4, <1>8, <2>4
<1>9. ASSUME ~c.active, f.slot # "absent", NEW n \in Negotiations(w, s, f.slot),
             Commit(s, Answer(n.w, s, [pid |-> f.pid, slot |-> n.slot]), rest)
      PROVE  \E own2 : Linked(own2)'
  <2> DEFINE r == [pid |-> f.pid, slot |-> n.slot]
  <2>1. /\ Poised(s, f, n.w) /\ n.slot \in Slot
        /\ n.slot \in Protocol => Common(settings, s)
    BY <1>2, <1>7, <1>9, NegotiationsPoise
  <2>2. r \in Request /\ r.pid = f.pid /\ r.slot = n.slot
    BY <1>1, <2>1 DEF Request
  <2>3. Commit(s, Answer(n.w, s, r), rest)
    BY <1>9
  <2> HIDE DEF r
  <2>4. Meant(s, f, {}, Answer(n.w, s, r))
    BY <2>1, <2>2, AnswerMeant
  <2>5. QED
    BY <1>4, <2>3, <2>4
<1>10. QED
  BY <1>5, <1>6, <1>8, <1>9 DEF HandleRequest, Replayed, w, rest

\* A session opened on a work that has the transport there was, or a new one.
Activated(c, p) ==
  [c EXCEPT !.active = TRUE, !.pending = 0, !.scheduled = NoRequest,
            !.awaiting = NoRequest, !.timer = NoFrame, !.session = p]

LEMMA ActivateLeads ==
  ASSUME NEW s, NEW h, NEW M, NEW c \in Channel,
         c.transport = chan[s].transport \/ Bare(c.transport),
         \A f \in c.transport.waiting : f.protocol = c.transport.protocol,
         NEW p \in Pid
  PROVE  Leads(s, h, M, Activated(c, p)) /\ Activated(c, p).session = p
<1> DEFINE d == Activated(c, p)
<1>1. /\ d.active /\ d.pending = 0 /\ d.scheduled = NoRequest /\ d.awaiting = NoRequest
      /\ d.timer = NoFrame /\ d.session = p /\ d.transport = c.transport
  BY DEF Channel, Activated
<1> HIDE DEF d
<1>2. p # 0 /\ NoRequest.slot \notin Protocol /\ NoFrame.type # "REQUEST"
  BY Placeholders, PlaintextSlots DEF NoRequest, NoFrame
<1>3. Fits(settings, s, d)
  BY <1>1, <1>2 DEF Fits
<1>4. QED
  BY <1>1, <1>2, <1>3 DEF Leads, d

\* completeConnection, once the security is settled.
LEMMA CompleteMeant ==
  ASSUME NEW s \in Side, NEW h, NEW w \in WorkOK, w.out = << >>, w.procs \subseteq procs[s],
         Bare(w.ch.transport), NEW p \in Pid, p = chan[s].pending, NEW slot \in Slot
  PROVE  Meant(s, h, {}, Complete(w, p, slot))
<1> DEFINE f == [type |-> "OPEN", pid |-> p, slot |-> slot]
           d == Activated(w.ch, p)
           u == [Untrack(w, p) EXCEPT !.ch = d]
           v == Complete(w, p, slot)
<1>1. w.ch \in Channel /\ Activate(w, p).ch = d /\ Activate(w, p) \in WorkOK
  BY ActivateType DEF WorkOK, Activated
<1>2. v = Post(u, "OPEN", p, slot)
  BY <1>1 DEF Complete
<1>3. d \in Channel
  BY <1>1 DEF WorkOK
<1>4. f \in Frame /\ f.type = "OPEN" /\ f.pid = p
  BY DEF Frame, Handshake
<1>5. \A g \in w.ch.transport.waiting : g.protocol = w.ch.transport.protocol
  BY DEF Bare, Fresh, NoTransport
<1>6. Leads(s, h, {}, d) /\ d.session = p
  BY <1>1, <1>5, ActivateLeads
<1>7. d.transport = w.ch.transport
  BY <1>1 DEF Channel, Activated
<1> HIDE DEF d, v
<1>8. u \in WorkOK /\ u.ch = d /\ u.out = << >> /\ u.procs = w.procs \ {p}
  BY <1>3 DEF Untrack, WorkOK
<1> HIDE DEF u
<1>9. v.out = <<f>> /\ v.procs = u.procs /\ v.ch = d
  <2>1. PICK x : x = u
    OBVIOUS
  <2>2. x \in WorkOK /\ x.out = << >> /\ "OPEN" \in {"REQUEST", "ACCEPT", "OPEN", "DENY", "CANCEL", "CANCEL_ACK"}
    BY <1>8, <2>1
  <2>3. /\ Post(x, "OPEN", p, slot).out = <<[type |-> "OPEN", pid |-> p, slot |-> slot]>>
        /\ Post(x, "OPEN", p, slot).procs = x.procs /\ Post(x, "OPEN", p, slot).ch = x.ch
    BY <2>2, PostEffect
  <2>4. QED
    BY <1>2, <1>8, <2>1, <2>3
<1> HIDE DEF f
<1>10. Posts(s, {}, v.out)
  BY <1>4, <1>9 DEF Posts
<1>11. Opening(s, h, v)
  BY <1>4, <1>6, <1>7, <1>9 DEF Opening
<1>12. QED
  BY <1>6, <1>8, <1>9, <1>10, <1>11 DEF Meant, Tracks, v

\* What settleSecurity leaves an initiator with: a transport just attached, or none.
LEMMA SettlementsBare ==
  ASSUME IInv, NEW s \in Side, chan[s].transport = NoTransport,
         NEW answered \in Slot, NEW n \in Settlements(Work(s), s, answered)
  PROVE  /\ n.w \in WorkOK /\ n.slot \in Slot /\ Bare(n.w.ch.transport)
         /\ n.w.out = << >> /\ n.w.procs = procs[s]
         /\ n.slot = "none" => Calm(s, n.w)
<1> DEFINE w == Work(s)
<1>1. Calm(s, w) /\ w.ch = chan[s] /\ w.procs = procs[s] /\ w \in WorkOK /\ w.out = << >>
  BY WorkCalm DEF Calm, Silent
<1> HIDE DEF w
<1>2. ASSUME NEW a, a = [w |-> a.w, slot |-> a.slot], n = [a EXCEPT !.w.ch.negotiated = a.slot],
             a.w \in WorkOK, a.slot \in Protocol \cup {"none"}, Bare(a.w.ch.transport),
             a.w.out = << >>, a.w.procs = procs[s], a.slot = "none" => Calm(s, a.w)
      PROVE  /\ n.w \in WorkOK /\ n.slot \in Slot /\ Bare(n.w.ch.transport)
             /\ n.w.out = << >> /\ n.w.procs = procs[s]
             /\ n.slot = "none" => Calm(s, n.w)
  <2>1. n = [[w |-> a.w, slot |-> a.slot] EXCEPT !.w.ch.negotiated = a.slot]
    BY <1>2
  <2>2. /\ n.slot = a.slot /\ n.w = [a.w EXCEPT !.ch.negotiated = a.slot]
        /\ n.w \in WorkOK /\ n.w.out = a.w.out /\ n.w.procs = a.w.procs
        /\ n.w.ch.transport = a.w.ch.transport
    BY <1>2, <2>1, RecordEffect
  <2>3. a.slot = "none" => Calm(s, n.w)
    BY <1>2, <2>2, RecordCalm
  <2>4. QED
    BY <1>2, <2>2, <2>3 DEF Slot
<1>3. CASE answered \in Protocol /\ answered = settings[s].asks
  <2>1. PICK a \in Attachments(w, s, answered, "initiator") : n = [a EXCEPT !.w.ch.negotiated = a.slot]
    BY <1>3 DEF Settlements, w
  <2>2. "initiator" \in Role /\ w.ch \in Channel
    BY <1>1 DEF Role, WorkOK
  <2>3. /\ a.w \in WorkOK
        /\ \/ a.slot = "none" /\ Detached(w.ch, a.w.ch)
           \/ a.slot = answered /\ Attached(w.ch, answered, a.w.ch)
    BY <1>1, <1>3, <2>2, AttachmentsType
  <2>4. /\ a.w.out = w.out /\ a.w.procs = w.procs
        /\ a.slot = "none" \/ (a.slot = answered /\ Fresh(a.w.ch.transport))
    BY <1>1, <1>3, <2>2, AttachmentsPoise
  <2>5. a = [w |-> a.w, slot |-> a.slot]
    BY DEF Attachments
  <2>6. a.slot = "none" => a.w.ch.transport = NoTransport /\ Less(w.ch, a.w.ch)
    BY <1>1, <1>3, <2>2, <2>3, PlaintextSlots DEF Detached, Less, Channel
  <2>7. a.slot = "none" => Calm(s, a.w)
    BY <1>1, <2>3, <2>4, <2>6 DEF Calm, Silent
  <2>8. QED
    BY <1>1, <1>2, <1>3, <2>1, <2>3, <2>4, <2>5, <2>6, <2>7 DEF Bare
<1>4. CASE ~(answered \in Protocol /\ answered = settings[s].asks)
  <2> DEFINE a == [w |-> w, slot |-> "none"]
  <2>1. n = [a EXCEPT !.w.ch.negotiated = a.slot]
    BY <1>4 DEF Settlements, w
  <2>2. a.w = w /\ a.slot = "none" /\ a = [w |-> a.w, slot |-> a.slot]
    OBVIOUS
  <2> HIDE DEF a
  <2>3. QED
    BY <1>1, <1>2, <2>1, <2>2 DEF Bare
<1>5. QED
  BY <1>3, <1>4

LEMMA HandleAcceptLinked ==
  ASSUME IInv, NEW own, Linked(own), NEW s \in Side, net[s] # << >>,
         NEW f, f = Head(net[s]), f.type = "ACCEPT", HandleAccept(s, f, Tail(net[s])),
         UNCHANGED nextPid, IInv', AllKeep
  PROVE  \E own2 : Linked(own2)'
<1> DEFINE c == chan[s]
           active == IF c.transport # NoTransport THEN c.negotiated ELSE "none"
           slot == IF c.negotiated = "null" THEN "absent" ELSE active
           rest == Tail(net[s])
<1>1. f \in Frame /\ f.pid \in Pid /\ f.slot \in Slot /\ "absent" \in Slot
  BY Arrives, HandshakeFrame DEF Slot
<1>2. /\ Calm(s, Work(s)) /\ Work(s).ch = c /\ c \in Channel /\ Work(s) \in WorkOK
      /\ Work(s).out = << >> /\ Work(s).procs = procs[s]
      /\ Fits(settings, s, c) /\ Owned(c)
  BY WorkCalm DEF Linked, IInv, TypeOK, Calm, Silent, Sound
<1>3. ASSUME NEW v, Commit(s, v, rest), Meant(s, f, {}, v)
      PROVE  \E own2 : Linked(own2)'
  BY <1>3, HandledLinked
<1>4. ASSUME NEW w, Calm(s, w) PROVE Meant(s, f, {}, Abort(w, f.pid))
  BY <1>1, <1>4, AbandonRequestCalm, PostMeant DEF Abort
<1>5. ~c.active /\ c.pending = f.pid => c.transport = NoTransport
  BY <1>1, <1>2, Placeholders DEF Fits, Owned
<1>6. CASE Commit(s, Post(Work(s), "OPEN", f.pid, slot), rest)
  <2>1. slot \in Slot
    BY <1>2 DEF Slot, Channel
  <2> HIDE DEF slot, rest
  <2>2. Meant(s, f, {}, Post(Work(s), "OPEN", f.pid, slot))
    BY <1>1, <1>2, <2>1, PostMeant
  <2>3. QED
    BY <1>3, <1>6, <2>2
<1> HIDE DEF rest
<1>7. CASE Commit(s, Work(s), rest)
  BY <1>2, <1>3, <1>7, CalmMeant
<1>8. CASE Commit(s, Abort(Work(s), f.pid), rest)
  BY <1>2, <1>3, <1>4, <1>8
<1>9. CASE /\ ~c.active /\ c.pending = f.pid
           /\ Commit(s, Complete(Work(s), f.pid, "absent"), rest)
  <2>1. Bare(Work(s).ch.transport)
    BY <1>2, <1>5, <1>9 DEF Bare
  <2>2. Meant(s, f, {}, Complete(Work(s), f.pid, "absent"))
    BY <1>1, <1>2, <1>9, <2>1, CompleteMeant
  <2>3. QED
    BY <1>3, <1>9, <2>2
<1>10. ASSUME ~c.active, c.pending = f.pid, NEW n \in Settlements(Work(s), s, f.slot),
              Commit(s, IF n.slot = "none" /\ settings[s].strict
                        THEN Abort(n.w, f.pid) ELSE Complete(n.w, f.pid, n.slot), rest)
       PROVE  \E own2 : Linked(own2)'
  <2>1. /\ n.w \in WorkOK /\ n.slot \in Slot /\ Bare(n.w.ch.transport)
        /\ n.w.out = << >> /\ n.w.procs = procs[s]
        /\ n.slot = "none" => Calm(s, n.w)
    BY <1>1, <1>5, <1>10, SettlementsBare
  <2>2. CASE n.slot = "none" /\ Commit(s, Abort(n.w, f.pid), rest)
    BY <1>3, <1>4, <2>1, <2>2
  <2>3. CASE Commit(s, Complete(n.w, f.pid, n.slot), rest)
    <3>1. Meant(s, f, {}, Complete(n.w, f.pid, n.slot))
      BY <1>1, <1>10, <2>1, CompleteMeant
    <3>2. QED
      BY <1>3, <2>3, <3>1
  <2>4. QED
    BY <1>10, <2>2, <2>3
<1>11. QED
  BY <1>6, <1>7, <1>8, <1>9, <1>10 DEF HandleAccept, rest

\* activate, for the OPEN of a process the side tracks and awaits.
LEMMA ActivateMeant ==
  ASSUME IInv, NEW own, Linked(own), NEW s \in Side, NEW h, NEW w, Calm(s, w),
         NEW p \in Pid, h.type = "OPEN", h.pid = p, p \in procs[s], chan[s].awaiting.pid = p
  PROVE  Meant(s, h, {}, Activate(w, p)) /\ Activate(w, p).procs = w.procs
<1> DEFINE d == Activated(w.ch, p)
           v == Activate(w, p)
<1>1. w \in WorkOK /\ w.ch \in Channel /\ w.out = << >> /\ w.procs \subseteq procs[s]
  BY DEF Calm, Silent, WorkOK
<1>2. v.ch = d
  BY <1>1, ActivateType DEF Activated
<1>3. v.out = << >> /\ v.procs = w.procs
  BY <1>1 DEF Activate, WorkOK
<1>4. /\ w.ch.transport = chan[s].transport \/ Bare(w.ch.transport)
      /\ \A f \in w.ch.transport.waiting : f.protocol = w.ch.transport.protocol
  <2>1. Leads(s, h, {}, w.ch)
    BY LessLeads DEF Calm
  <2>2. QED
    BY <2>1 DEF Leads, Fits
<1> HIDE DEF v
<1>5. Leads(s, h, {}, d) /\ d.session = p
  BY <1>1, <1>4, ActivateLeads
<1> HIDE DEF d
<1>6. QED
  BY <1>1, <1>2, <1>3, <1>5 DEF Meant, Posts, Tracks, Opening, v

LEMMA HandleOpenLinked ==
  ASSUME IInv, NEW own, Linked(own), NEW s \in Side, net[s] # << >>,
         NEW f, f = Head(net[s]), f.type = "OPEN", HandleOpen(s, f, Tail(net[s])),
         UNCHANGED nextPid, IInv', AllKeep
  PROVE  \E own2 : Linked(own2)'
<1> DEFINE c == chan[s]
           w == Untrack(Work(s), f.pid)
           plain == [DropTransport(w) EXCEPT !.ch.negotiated = "none"]
           settled == IF ConfirmsActive(c, f) THEN w ELSE plain
           rest == Tail(net[s])
<1>1. f.pid \in Pid /\ "absent" \in Slot
  BY Arrives, HandshakeFrame DEF Slot
<1>2. Calm(s, w) /\ f.pid \notin w.procs
  <2>1. Calm(s, Work(s))
    BY WorkCalm
  <2>2. QED
    BY <2>1, UntrackCalm
<1>3. Calm(s, settled) /\ f.pid \notin settled.procs
  <2> HIDE DEF w
  <2>1. Calm(s, DropTransport(w)) /\ DropTransport(w).procs = w.procs
    BY <1>2, DropTransportCalm
  <2>2. Calm(s, plain) /\ plain.procs = w.procs
    BY <2>1, RecordCalm
  <2> HIDE DEF plain
  <2>3. QED
    BY <1>2, <2>2
<1>4. ASSUME NEW v, Commit(s, v, rest), Meant(s, f, {}, v), f.pid \notin v.procs
      PROVE  \E own2 : Linked(own2)'
  BY <1>4, HandledLinked
<1>5. \/ Commit(s, w, rest)
      \/ /\ f.pid \in procs[s] /\ c.awaiting.pid = f.pid
         /\ Commit(s, IF OpenAnyway(s, c, f) THEN Activate(settled, f.pid)
                      ELSE Post(CancelQuietly(settled), "CANCEL", f.pid, "absent"), rest)
  BY DEF HandleOpen
<1> HIDE DEF w, settled, rest
<1>6. CASE Commit(s, w, rest)
  <2>1. Meant(s, f, {}, w)
    BY <1>2, CalmMeant
  <2>2. QED
    BY <1>2, <1>4, <1>6, <2>1
<1>7. CASE /\ f.pid \in procs[s] /\ c.awaiting.pid = f.pid
           /\ Commit(s, Activate(settled, f.pid), rest)
  <2>1. Meant(s, f, {}, Activate(settled, f.pid)) /\ Activate(settled, f.pid).procs = settled.procs
    BY <1>1, <1>3, <1>7, ActivateMeant
  <2>2. QED
    BY <1>3, <1>4, <1>7, <2>1
<1>8. CASE Commit(s, Post(CancelQuietly(settled), "CANCEL", f.pid, "absent"), rest)
  <2> DEFINE x == CancelQuietly(settled)
  <2>1. Calm(s, x) /\ f.pid \notin x.procs
    BY <1>3, CancelQuietlyCalm
  <2> HIDE DEF x
  <2>2. Meant(s, f, {}, Post(x, "CANCEL", f.pid, "absent"))
    BY <1>1, <2>1, PostMeant
  <2>3. x \in WorkOK /\ x.out = << >>
    BY <2>1 DEF Calm, Silent
  <2>4. Post(x, "CANCEL", f.pid, "absent").procs = x.procs
    BY <1>1, <2>3, PostEffect
  <2>5. QED
    BY <1>4, <1>8, <2>1, <2>2, <2>4 DEF x
<1>9. QED
  BY <1>5, <1>6, <1>7, <1>8

LEMMA HandleDenyLinked ==
  ASSUME IInv, NEW own, Linked(own), NEW s \in Side, net[s] # << >>,
         NEW f, f = Head(net[s]), f.type = "DENY", HandleDeny(s, f, Tail(net[s])),
         UNCHANGED nextPid, IInv', AllKeep
  PROVE  \E own2 : Linked(own2)'
<1> DEFINE w == IF f.pid \in procs[s] THEN Untrack(AbandonRequest(Work(s)), f.pid) ELSE Work(s)
<1>1. Calm(s, Work(s)) /\ Calm(s, AbandonRequest(Work(s)))
  BY WorkCalm, AbandonRequestCalm
<1>2. Calm(s, w)
  BY <1>1, UntrackCalm
<1>3. Commit(s, w, Tail(net[s]))
  BY DEF HandleDeny
<1> HIDE DEF w
<1>4. Meant(s, f, {}, w)
  BY <1>2, CalmMeant
<1>5. QED
  BY <1>3, <1>4, HandledLinked

LEMMA HandleCancelLinked ==
  ASSUME IInv, NEW own, Linked(own), NEW s \in Side, net[s] # << >>,
         NEW f, f = Head(net[s]), f.type = "CANCEL", HandleCancel(s, f, Tail(net[s])),
         UNCHANGED nextPid, IInv', AllKeep
  PROVE  \E own2 : Linked(own2)'
<1> DEFINE w == Post(CancelQuietly(Work(s)), "CANCEL_ACK", f.pid, "absent")
<1>1. f.pid \in Pid /\ "absent" \in Slot
  BY Arrives, HandshakeFrame DEF Slot
<1>2. Calm(s, CancelQuietly(Work(s)))
  BY WorkCalm, CancelQuietlyCalm
<1>3. Meant(s, f, {}, w) /\ w \in WorkOK
  BY <1>1, <1>2, PostMeant
<1>4. Commit(s, Untrack(w, f.pid), Tail(net[s]))
  BY DEF HandleCancel
<1> HIDE DEF w
<1>5. Meant(s, f, {}, Untrack(w, f.pid))
  BY <1>3, UntrackMeant
<1>6. QED
  BY <1>4, <1>5, HandledLinked

LEMMA HandleCancelAcknowledgedLinked ==
  ASSUME IInv, NEW own, Linked(own), NEW s \in Side, net[s] # << >>,
         NEW f, f = Head(net[s]), f.type = "CANCEL_ACK",
         HandleCancelAcknowledged(s, f, Tail(net[s])), UNCHANGED nextPid, IInv', AllKeep
  PROVE  \E own2 : Linked(own2)'
<1>1. Calm(s, Work(s))
  BY WorkCalm
<1>2. Calm(s, Untrack(Work(s), f.pid))
  BY <1>1, UntrackCalm
<1>3. Meant(s, f, {}, Untrack(Work(s), f.pid))
  BY <1>2, CalmMeant
<1>4. QED
  BY <1>3, HandledLinked DEF HandleCancelAcknowledged

LEMMA HandleHelloLinked ==
  ASSUME IInv, NEW own, Linked(own), NEW s \in Side, net[s] # << >>,
         NEW f, f = Head(net[s]), f.type = "HELLO", HandleHello(s, f, Tail(net[s])),
         UNCHANGED nextPid, IInv', AllKeep
  PROVE  \E own2 : Linked(own2)'
<1> DEFINE t == chan[s].transport
           keyed == [t EXCEPT !.peer = f.key]
           opened == \E sealed \in t.waiting : Opens(keyed, sealed)
           u == [keyed EXCEPT !.waiting = {}, !.confirmed = opened]
           w == [Work(s) EXCEPT !.ch.transport = u]
           g == [type |-> "CONFIRMED", protocol |-> t.protocol, key |-> t.key,
                 to |-> f.key, role |-> t.role]
           rest == Tail(net[s])
<1>1. /\ Calm(s, Work(s)) /\ Work(s).ch = chan[s] /\ Work(s).procs = procs[s]
      /\ Work(s) \in WorkOK /\ Work(s).out = << >>
      /\ chan[s] \in Channel /\ Fits(settings, s, chan[s])
      /\ f \in Frame /\ f.key \in Key
  BY WorkCalm, Arrives, HelloFrame DEF Calm, Silent, Linked, IInv, TypeOK
<1>2. CASE Commit(s, Work(s), rest)
  <2>1. Meant(s, f, {}, Work(s))
    BY <1>1, CalmMeant
  <2>2. QED
    BY <1>2, <2>1, HandledLinked
<1>3. CASE t # NoTransport /\ t.peer = None /\ Commit(s, PostFrame(w, g), rest)
  <2>1. t \in Transport
    BY <1>1, <1>3 DEF Channel
  <2>2. opened => \E sealed \in t.waiting : /\ sealed.type = "CONFIRMED" /\ sealed.to = t.key
                                            /\ sealed.key = f.key /\ sealed.protocol = t.protocol
    <3>1. ASSUME NEW sealed \in t.waiting, Opens(keyed, sealed)
          PROVE  /\ sealed.type = "CONFIRMED" /\ sealed.to = t.key
                 /\ sealed.key = f.key /\ sealed.protocol = t.protocol
      <4>1. keyed.peer = f.key /\ keyed.key = t.key
        BY <2>1 DEF Transport
      <4>2. sealed \in Confirmed /\ sealed.protocol = t.protocol
        BY <1>1, <2>1 DEF Transport, Fits
      <4>3. QED
        BY <3>1, <4>1, <4>2 DEF Opens, Confirmed
    <3>2. QED
      BY <3>1
  <2>3. opened \in BOOLEAN
    OBVIOUS
  <2> HIDE DEF opened
  <2>4. /\ u \in Transport /\ u.key = t.key /\ u.protocol = t.protocol /\ u.peer = f.key
        /\ u.waiting = {} /\ u.confirmed = opened
    BY <1>1, <2>1, <2>3 DEF Transport
  <2> HIDE DEF u
  <2>5. u # NoTransport
    BY <2>4, Placeholders
  <2>6. g \in Frame
    BY <1>1, <2>1 DEF Transport, Confirmed, Frame
  <2>7. Confirms(s, f, u, g)
    BY <1>3, <2>4 DEF Confirms
  <2> HIDE DEF g
  <2>8. Keying(s, f, u, <<g>>)
    BY <1>3, <2>2, <2>4, <2>5, <2>6, <2>7 DEF Keying
  <2>9. /\ w \in WorkOK /\ w.ch = [chan[s] EXCEPT !.transport = u]
        /\ w.procs = procs[s] /\ w.out = << >>
    <3>1. PICK d : d = [chan[s] EXCEPT !.transport = u]
      OBVIOUS
    <3>2. w = [Work(s) EXCEPT !.ch = d]
      BY <1>1, <3>1 DEF WorkOK
    <3>3. d \in Channel
      BY <1>1, <2>4, <3>1 DEF Channel
    <3> HIDE DEF w
    <3>4. QED
      BY <1>1, <3>1, <3>2, <3>3 DEF WorkOK
  <2> HIDE DEF w
  <2>10. PICK v : v = PostFrame(w, g)
    OBVIOUS
  <2>11. v.out = <<g>> /\ v.procs = procs[s] /\ v.ch = [chan[s] EXCEPT !.transport = u]
    BY <2>6, <2>9, <2>10, PostFrameEffect
  <2>12. Keyed(s, f, rest, u, <<g>>)
    BY <1>3, <2>8, <2>10, <2>11 DEF Keyed
  <2>13. Linked(own)'
    BY <2>12, KeyedLinked
  <2>14. QED
    BY <2>13
<1>4. QED
  BY <1>2, <1>3 DEF HandleHello

LEMMA HandleConfirmedLinked ==
  ASSUME IInv, NEW own, Linked(own), NEW s \in Side, net[s] # << >>,
         NEW f, f = Head(net[s]), f.type = "CONFIRMED", HandleConfirmed(s, f, Tail(net[s])),
         UNCHANGED nextPid, IInv', AllKeep
  PROVE  \E own2 : Linked(own2)'
<1> DEFINE t == chan[s].transport
           kept == [t EXCEPT !.waiting = @ \cup {f}]
           known == [t EXCEPT !.confirmed = @ \/ Opens(t, f)]
           v == [Work(s) EXCEPT !.ch.transport.waiting = @ \cup {f}]
           w == [Work(s) EXCEPT !.ch.transport.confirmed = @ \/ Opens(t, f)]
           rest == Tail(net[s])
<1>1. /\ Calm(s, Work(s)) /\ Work(s).ch = chan[s] /\ Work(s).procs = procs[s]
      /\ Work(s) \in WorkOK /\ Work(s).out = << >>
      /\ chan[s] \in Channel /\ Fits(settings, s, chan[s])
      /\ f \in Frame /\ f \in Confirmed
  BY WorkCalm, Arrives, ConfirmedFrame DEF Calm, Silent, Linked, IInv, TypeOK
<1>2. f \in ToSet(net[s])
  BY RemovedFrame DEF Removed, IInv, TypeOK
<1>3. CASE Commit(s, Work(s), rest)
  <2>1. Meant(s, f, {}, Work(s))
    BY <1>1, CalmMeant
  <2>2. QED
    BY <1>3, <2>1, HandledLinked
<1>4. ASSUME t # NoTransport, NEW u \in Transport, u.key = t.key, u.protocol = t.protocol,
             u.peer = t.peer, u.waiting \subseteq t.waiting \cup {f}, t.protocol = f.protocol,
             u.confirmed => t.confirmed \/ Opens(t, f),
             NEW x, x = [Work(s) EXCEPT !.ch.transport = u], Commit(s, x, rest)
      PROVE  \E own2 : Linked(own2)'
  <2>1. Opens(t, f) => f.type = "CONFIRMED" /\ f.to = t.key /\ f.key = t.peer
    BY DEF Opens
  <2>2. \A g \in u.waiting : g \in ToSet(net[s]) \cup t.waiting /\ g.protocol = t.protocol
    BY <1>1, <1>2, <1>4 DEF Fits
  <2>3. u # NoTransport
    BY <1>4, Placeholders
  <2>4. Keying(s, f, u, << >>)
    BY <1>2, <1>4, <2>1, <2>2, <2>3 DEF Keying
  <2>5. x.ch = [chan[s] EXCEPT !.transport = u] /\ x.procs = procs[s] /\ x.out = << >>
    BY <1>1, <1>4 DEF WorkOK
  <2>6. Keyed(s, f, rest, u, << >>)
    BY <1>4, <2>4, <2>5 DEF Keyed
  <2>7. Linked(own)'
    BY <2>6, KeyedLinked
  <2>8. QED
    BY <2>7
<1>5. CASE /\ t # NoTransport /\ t.protocol = f.protocol
           /\ Commit(s, v, rest) \/ Commit(s, w, rest)
  <2>1. t \in Transport
    BY <1>1, <1>5 DEF Channel
  <2>2. /\ kept \in Transport /\ kept.key = t.key /\ kept.protocol = t.protocol
        /\ kept.peer = t.peer /\ kept.waiting = t.waiting \cup {f} /\ kept.confirmed = t.confirmed
    BY <1>1, <2>1 DEF Transport
  <2>3. /\ known \in Transport /\ known.key = t.key /\ known.protocol = t.protocol
        /\ known.peer = t.peer /\ known.waiting = t.waiting
        /\ known.confirmed = (t.confirmed \/ Opens(t, f))
    BY <2>1 DEF Transport
  <2>4. v = [Work(s) EXCEPT !.ch.transport = kept]
    BY <1>1, <2>1 DEF WorkOK, Channel, Transport
  <2>5. w = [Work(s) EXCEPT !.ch.transport = known]
    BY <1>1, <2>1 DEF WorkOK, Channel, Transport
  <2> HIDE DEF kept, known, v, w, rest, t
  <2>6. QED
    BY <1>4, <1>5, <2>2, <2>3, <2>4, <2>5
<1>6. QED
  BY <1>3, <1>5 DEF HandleConfirmed

LEMMA DeliverLinked ==
  ASSUME IInv, NEW own, Linked(own), NEW s \in Side, Deliver(s), IInv', AllKeep
  PROVE  \E own2 : Linked(own2)'
<1> DEFINE f == Head(net[s])
<1>1. net[s] # << >> /\ UNCHANGED nextPid
  BY DEF Deliver
<1>2. \/ f.type = "REQUEST"    /\ HandleRequest(s, f, Tail(net[s]))
      \/ f.type = "ACCEPT"     /\ HandleAccept(s, f, Tail(net[s]))
      \/ f.type = "OPEN"       /\ HandleOpen(s, f, Tail(net[s]))
      \/ f.type = "DENY"       /\ HandleDeny(s, f, Tail(net[s]))
      \/ f.type = "CANCEL"     /\ HandleCancel(s, f, Tail(net[s]))
      \/ f.type = "CANCEL_ACK" /\ HandleCancelAcknowledged(s, f, Tail(net[s]))
      \/ f.type = "HELLO"      /\ HandleHello(s, f, Tail(net[s]))
      \/ f.type = "CONFIRMED"  /\ HandleConfirmed(s, f, Tail(net[s]))
  BY DEF Deliver
<1>3. QED
  BY <1>1, <1>2, HandleRequestLinked, HandleAcceptLinked, HandleOpenLinked, HandleDenyLinked,
     HandleCancelLinked, HandleCancelAcknowledgedLinked, HandleHelloLinked, HandleConfirmedLinked

-----------------------------------------------------------------------------
(* The theorem of the two ends.                                            *)

Tied == \E own : Linked(own)

LEMMA InitTied == Init => Tied
<1> SUFFICES ASSUME Init PROVE Tied
  OBVIOUS
<1> DEFINE c == [ready |-> FALSE, active |-> FALSE, pending |-> 0, scheduled |-> NoRequest,
                 awaiting |-> NoRequest, timer |-> NoFrame, negotiated |-> "null",
                 transport |-> NoTransport, session |-> 0, earlier |-> 0]
<1>1. PICK own : own = [p \in Pid |-> 1]
  OBVIOUS
<1>2. own \in [Pid -> Side]
  BY <1>1 DEF Side
<1>3. /\ chan = [s \in Side |-> c] /\ net = [s \in Side |-> << >>] /\ nextPid = 1
  BY DEF Init
<1>4. /\ ~c.active /\ c.session = 0 /\ c.pending = 0 /\ c.timer = NoFrame
      /\ c.scheduled = NoRequest /\ c.awaiting = NoRequest /\ c.transport = NoTransport
  OBVIOUS
<1> HIDE DEF c
<1>5. ASSUME NEW s \in Side
      PROVE  chan[s] = c /\ chan[Other(s)] = c /\ ToSet(net[s]) = {}
  BY <1>3, OtherSide DEF ToSet
<1>6. ASSUME NEW s \in Side
      PROVE  /\ Fits(settings, s, chan[s])
             /\ Directed(own, s) /\ Vouched(own, s) /\ Heralded(own, s)
  <2>1. Fits(settings, s, chan[s])
    BY <1>4, <1>5, PlaintextSlots DEF Fits, NoFrame, NoRequest, NoTransport
  <2>2. Directed(own, s)
    BY <1>3, <1>4, <1>5 DEF Directed, NoFrame
  <2>3. Vouched(own, s) /\ Heralded(own, s)
    BY <1>4, <1>5 DEF Vouched, Heralded
  <2>4. QED
    BY <2>1, <2>2, <2>3
<1>7. Linked(own)
  BY <1>2, <1>6 DEF Linked
<1>8. QED
  BY <1>7 DEF Tied

LEMMA NextTied ==
  ASSUME "register" \notin Env
  PROVE  IInv /\ Tied /\ [Next]_vars => IInv' /\ Tied'
<1> SUFFICES ASSUME IInv, Tied, [Next]_vars PROVE IInv' /\ Tied'
  OBVIOUS
<1>1. IInv' /\ AllKeep
  BY NextKeeps
<1>2. PICK own : Linked(own)
  BY DEF Tied
<1>3. CASE UNCHANGED vars
  <2>1. Linked(own)'
    BY <1>2, <1>3 DEF vars, Linked, Fits, Directed, Vouched, Heralded, Ahead, Passed, Unheard,
                      Leading, Of
  <2>2. QED
    BY <1>1, <2>1 DEF Tied
<1>4. ASSUME NEW s \in Side,
             \/ ConnectRequest(s) \/ ConnectAnswer(s) \/ Cancel(s) \/ CloseSilently(s)
             \/ Retry(s) \/ Expire(s) \/ PostHello(s) \/ ConfirmTimeout(s)
             \/ Deliver(s)
      PROVE  Tied'
  <2>1. \E own2 : Linked(own2)'
    BY <1>1, <1>2, <1>4, ConnectRequestLinked, ConnectAnswerLinked, CancelLinked,
       CloseSilentlyLinked, RetryLinked, ExpireLinked, PostHelloLinked, ConfirmTimeoutLinked,
       DeliverLinked
  <2>2. QED
    BY <2>1 DEF Tied
<1>5. \A s \in Side : ~ApplySecuritySettings(s)
  BY DEF ApplySecuritySettings
<1>6. QED
  BY <1>1, <1>3, <1>4, <1>5 DEF Next

\* Two ends that are quiet in one session.
LEMMA LinkedSealed ==
  ASSUME IInv, NEW own, Linked(own), Quiet, OneSession, NEW i \in Side, own[chan[1].session] = i
  PROVE  LET t == chan[i].transport
             u == chan[Other(i)].transport
         IN t # NoTransport \/ u # NoTransport =>
              /\ t # NoTransport /\ u # NoTransport /\ t.protocol = u.protocol
              /\ t.peer = u.key /\ u.peer = t.key
<1> DEFINE o == Other(i)
           p == chan[1].session
           t == chan[i].transport
           u == chan[o].transport
<1>1. o \in Side /\ chan[i].session = p /\ chan[o].session = p /\ 1 \in Side
  BY OtherSide DEF OneSession, Side
<1>2. p \in Pid
  BY <1>1 DEF OneSession, Linked, Fits, IInv, TypeOK, Channel
<1>3. Vouched(own, i) /\ Heralded(own, i)
  BY DEF Linked
<1> HIDE DEF p
<1>4. u # NoTransport => /\ t # NoTransport /\ t.peer = u.key
                         /\ u.peer = t.key /\ u.protocol = t.protocol
  BY <1>1, <1>2, <1>3 DEF Vouched, Quiet, p
<1>5. t # NoTransport => u # NoTransport
  <2> SUFFICES ASSUME t # NoTransport, u = NoTransport PROVE FALSE
    OBVIOUS
  <2>1. t.confirmed /\ net[o] = << >>
    BY <1>1 DEF Quiet
  <2>2. ~Ahead(i, p)
    BY <2>1 DEF Ahead, Leading
  <2>3. ~Passed(i, p)
    BY <1>1, <2>1 DEF Passed, Unheard
  <2>4. QED
    BY <1>1, <1>2, <1>3, <2>2, <2>3 DEF Heralded, p
<1>6. QED
  BY <1>4, <1>5

\* Whichever hellos and confirmations of earlier attempts are late, and whichever
\* providers fail, two sides in one session end up either both in plaintext or over
\* one protocol, each keyed to the other.
THEOREM EndsSealTogether ==
  ASSUME "register" \notin Env
  PROVE  Spec => []SealedTogether
<1>1. IInv /\ Tied => SealedTogether
  <2> SUFFICES ASSUME IInv, NEW own, Linked(own), Quiet, OneSession
               PROVE  LET t == chan[1].transport
                          u == chan[2].transport
                      IN /\ t.protocol = u.protocol
                         /\ t # NoTransport => t.peer = u.key /\ u.peer = t.key
    BY DEF Tied, SealedTogether
  <2>1. 1 \in Side /\ 2 \in Side /\ Other(1) = 2 /\ Other(2) = 1
    BY DEF Side, Other
  <2>2. chan[1].session \in Pid
    BY <2>1 DEF OneSession, Linked, Fits, IInv, TypeOK, Channel
  <2>3. own[chan[1].session] \in Side
    BY <2>2 DEF Linked
  <2>4. QED
    BY <2>1, <2>3, LinkedSealed DEF Side
<1>2. QED
  BY <1>1, InitIInv, InitTied, NextTied, PTL DEF Spec

=============================================================================
