--------------------------- MODULE SecureHandshake ---------------------------
(***************************************************************************)
(* How the connection handshake of libs/nexus negotiates security, and     *)
(* what becomes of the transports it attaches.                             *)
(*                                                                         *)
(* The channel of NexusChannel is reduced to two windows that keep their   *)
(* documents, no contract gates and sessions that end silently; what it    *)
(* says of REQUEST, ACCEPT and OPEN is completed by their security slots.  *)
(* A transport of SecureTransport is reduced to the key material it minted,*)
(* the hello it accepted and whether a frame has confirmed it.             *)
(***************************************************************************)
EXTENDS Integers, Sequences, SequencesExt

CONSTANTS
  Protocol,  \* the encrypted protocols
  Key,       \* the key materials, one per transport in use
  Settings,  \* the settings the two channels may be created with
  None,      \* no key material
  Env,       \* what may happen besides the handshake itself
  MaxPid,    \* bound: process ids minted
  MaxFrames  \* bound: a frame is repeated only below this many in flight

ASSUME PlaintextAssumption == Protocol \cap {"none", "absent", "null"} = {}
ASSUME KeyAssumption       == None \notin Key
ASSUME MaxPidAssumption    == MaxPid \in Nat /\ MaxFrames \in Nat

\* The sides are numbered in the order of their broker ids.
Side     == {1, 2}
Other(s) == 3 - s
Pid      == 1 .. MaxPid

\* What a channel asks for ("none": no selection), whether it is fail-closed, and the
\* protocols its broker registered a provider for.
Setting == {t \in [asks : Protocol \cup {"none"}, strict : BOOLEAN, offers : SUBSET Protocol] :
              t.strict => t.asks # "none"}

ASSUME SettingsAssumption == Settings \subseteq [Side -> Setting]

\* A security slot: a protocol, plaintext or nothing.  REQUEST carries the
\* protocol asked for, ACCEPT the one negotiated, OPEN the one confirmed active.
Slot == Protocol \cup {"none", "absent"}

Role == {"initiator", "responder"}

Handshake == [type : {"REQUEST", "ACCEPT", "OPEN", "DENY", "CANCEL", "CANCEL_ACK"},
              pid : Pid, slot : Slot]
Hello     == [type : {"HELLO"}, protocol : Protocol, key : Key]
\* A sealed SECURITY_CONFIRMED.
Confirmed == [type : {"CONFIRMED"}, protocol : Protocol, key : Key, to : Key, role : Role]
Frame     == Handshake \cup Hello \cup Confirmed

Request   == [pid : Pid, slot : Slot]
NoRequest == [pid |-> 0, slot |-> "absent"]
NoFrame   == [type |-> "none", pid |-> 0, slot |-> "absent"]

Transport ==
  [key : Key, protocol : Protocol, role : Role,
   peer      : Key \cup {None}, \* the hello that keys the session
   waiting   : SUBSET Confirmed, \* sealed frames that wait for it
   confirmed : BOOLEAN]
NoTransport ==
  [key |-> None, protocol |-> "none", role |-> "responder", peer |-> None,
   waiting |-> {}, confirmed |-> FALSE]

Channel ==
  [ready      : BOOLEAN,
   active     : BOOLEAN,
   pending    : Pid \cup {0},
   scheduled  : Request \cup {NoRequest},
   awaiting   : Request \cup {NoRequest},   \* pendingAccept
   timer      : Handshake \cup {NoFrame},   \* the frame the retry interval repeats
   negotiated : Protocol \cup {"none", "null"},
   transport  : Transport \cup {NoTransport},
   session    : Pid \cup {0},               \* history: the process that opened it
   earlier    : Pid \cup {0}]               \* history: negotiated before its settings came

VARIABLES
  settings, \* the settings of each channel
  chan,     \* the channel of each side
  procs,    \* the processes each broker routes to it
  net,      \* frames in flight to each side, oldest first
  nextPid   \* the next process id

vars == <<settings, chan, procs, net, nextPid>>

TypeOK ==
  /\ settings \in [Side -> Setting]
  /\ chan    \in [Side -> Channel]
  /\ procs   \in [Side -> SUBSET Pid]
  /\ net     \in [Side -> Seq(Frame)]
  /\ nextPid \in 1 .. MaxPid + 1

Init ==
  /\ settings \in Settings
  /\ chan = [s \in Side |->
       [ready |-> FALSE, active |-> FALSE, pending |-> 0, scheduled |-> NoRequest,
        awaiting |-> NoRequest, timer |-> NoFrame, negotiated |-> "null",
        transport |-> NoTransport, session |-> 0, earlier |-> 0]]
  /\ procs   = [s \in Side |-> {}]
  /\ net     = [s \in Side |-> << >>]
  /\ nextPid = 1

-----------------------------------------------------------------------------
(* A step works on a side's channel, its processes and what it posts.      *)

Work(s) == [ch |-> chan[s], procs |-> procs[s], out |-> << >>]

Commit(s, w, rest) ==
  /\ chan'  = [chan EXCEPT ![s] = w.ch]
  /\ procs' = [procs EXCEPT ![s] = w.procs]
  /\ net'   = [net EXCEPT ![s] = rest, ![Other(s)] = @ \o w.out]
  /\ UNCHANGED settings

PostFrame(w, f) == [w EXCEPT !.out = Append(@, f)]

Post(w, type, pid, slot) == PostFrame(w, [type |-> type, pid |-> pid, slot |-> slot])

Untrack(w, p) == [w EXCEPT !.procs = @ \ {p}]

DropTransport(w) == [w EXCEPT !.ch.transport = NoTransport]

KeysOf(f) == CASE f.type = "HELLO"     -> {f.key}
               [] f.type = "CONFIRMED" -> {f.key, f.to}
               [] OTHER                -> {}

\* The key material a transport or a frame in flight holds.
InUse ==
  UNION {{chan[s].transport.key, chan[s].transport.peer}
           \cup UNION {KeysOf(f) : f \in chan[s].transport.waiting \cup ToSet(net[s])} : s \in Side}

\* attachSecurityTransport: the outcomes, each the protocol it leaves the side
\* with.  A provider that is not registered leaves an earlier transport as it is,
\* and one that refuses the session does not.
Attachments(w, s, protocol, role) ==
  IF protocol \notin settings[s].offers
  THEN {[w |-> w, slot |-> "none"]}
  ELSE {[w |-> DropTransport(w), slot |-> "none"] : x \in Env \cap {"fault"}}
         \cup {[slot |-> protocol,
                w |-> [w EXCEPT !.ch.transport =
                         [key |-> k, protocol |-> protocol, role |-> role, peer |-> None,
                          waiting |-> {}, confirmed |-> FALSE]]] : k \in Key \ InUse}

\* Mutant: the transport outlives the session or the attempt.
Release_Timers(w) == [w EXCEPT !.ch.timer = NoFrame, !.ch.negotiated = "null"]

\* What cancel(), expireHandshake and finalizeClose share.
Release(w) == [DropTransport(w) EXCEPT !.ch.timer = NoFrame, !.ch.negotiated = "null"]

\* abandonRequest.
AbandonRequest(w) ==
  [Untrack(w, w.ch.pending) EXCEPT !.ch.timer = NoFrame, !.ch.pending = 0]

\* finalizeClose.
FinalizeClose(w) ==
  [Release(w) EXCEPT !.ch.active = FALSE, !.ch.pending = 0, !.ch.awaiting = NoRequest,
                     !.ch.session = 0]

\* cancel(false): an open session is closed, an attempt in any stage is ended.
CancelQuietly(w) ==
  IF w.ch.active THEN FinalizeClose(w)
  ELSE [Untrack(Release(w), w.ch.pending) EXCEPT
          !.ch.pending = 0, !.ch.awaiting = NoRequest, !.ch.scheduled = NoRequest]

\* beginResponse: ACCEPT leaves, is repeated until OPEN comes, and the hello follows.
BeginResponse(w, r, slot) ==
  Post([w EXCEPT !.ch.scheduled = NoRequest, !.ch.awaiting = r,
                 !.ch.timer = [type |-> "ACCEPT", pid |-> r.pid, slot |-> slot]],
       "ACCEPT", r.pid, slot)

\* activate.
Activate(w, p) ==
  [w EXCEPT !.ch.active = TRUE, !.ch.pending = 0, !.ch.scheduled = NoRequest,
            !.ch.awaiting = NoRequest, !.ch.timer = NoFrame, !.ch.session = p]

-----------------------------------------------------------------------------
(* The applications' calls and the timers.                                 *)

\* addChannel for a window whose REQUEST already created the channel: its settings
\* are applied, the first alone, and what was negotiated stays scheduled.  A channel
\* that selects nothing stands for one without settings.
\* Bound: none is applied to a channel that connect() was called on.
ApplySecuritySettings(s) ==
  /\ "register" \in Env
  /\ ~chan[s].ready /\ settings[s].asks = "none"
  /\ \E asks \in Protocol, strict \in BOOLEAN :
       settings' = [settings EXCEPT ![s].asks = asks, ![s].strict = strict]
  /\ chan' = [chan EXCEPT ![s].earlier = chan[s].scheduled.pid]
  /\ UNCHANGED <<procs, net, nextPid>>

Idle(c) == ~c.active /\ c.pending = 0 /\ c.awaiting = NoRequest

Mint == nextPid \in Pid /\ nextPid' = nextPid + 1

\* connect() as the initiator: the protocol asked for is advertised.
ConnectRequest(s) ==
  LET asks == settings[s].asks
      slot == IF asks = "none" THEN "absent" ELSE asks
      w    == [Work(s) EXCEPT !.procs = @ \cup {nextPid},
                 !.ch.ready = TRUE, !.ch.pending = nextPid,
                 !.ch.timer = [type |-> "REQUEST", pid |-> nextPid, slot |-> slot]]
  IN
  /\ Idle(chan[s]) /\ chan[s].scheduled = NoRequest
  /\ Mint
  /\ Commit(s, Post(w, "REQUEST", nextPid, slot), net[s])

\* refuseScheduledActivation.
RefuseScheduled(w, r) ==
  Post([Untrack(w, r.pid) EXCEPT !.ch.scheduled = NoRequest, !.ch.negotiated = "null"],
       "DENY", r.pid, "absent")

\* connect() when a REQUEST came first: the transport negotiated then is
\* attached now, or the answer degrades or is refused.
ConnectAnswer(s) ==
  LET r == chan[s].scheduled
      w == [Work(s) EXCEPT !.ch.ready = TRUE]
  IN
  /\ Idle(chan[s]) /\ r # NoRequest
  /\ \/ /\ r.slot \notin Protocol
        /\ Commit(s, BeginResponse(w, r, r.slot), net[s])
     \/ /\ r.slot \in Protocol
        /\ \E a \in Attachments(w, s, r.slot, "responder") :
             \/ /\ a.slot # "none"
                /\ Commit(s, BeginResponse(a.w, r, a.slot), net[s])
             \/ /\ a.slot = "none" /\ settings[s].strict
                /\ Commit(s, RefuseScheduled(a.w, r), net[s])
             \/ /\ a.slot = "none" /\ ~settings[s].strict
                /\ Commit(s, BeginResponse([a.w EXCEPT !.ch.negotiated = "none"], r, "none"), net[s])
  /\ UNCHANGED nextPid

\* cancel(), with no session open.
Cancel(s) ==
  /\ "cancel" \in Env
  /\ ~chan[s].active
  /\ Mint
  /\ Commit(s, Post([CancelQuietly(Work(s)) EXCEPT !.procs = @ \cup {nextPid}],
                    "CANCEL", nextPid, "absent"), net[s])

\* disconnect(false).
CloseSilently(s) ==
  /\ "silent" \in Env
  /\ chan[s].active
  /\ Commit(s, FinalizeClose(Work(s)), net[s])
  /\ UNCHANGED nextPid

\* bound: a frame is repeated while few are in flight.
Room == Len(net[1]) + Len(net[2]) < MaxFrames

\* The retry interval repeats the frame composed when it was armed.
Retry(s) ==
  /\ chan[s].timer # NoFrame
  /\ Room
  /\ Commit(s, PostFrame(Work(s), chan[s].timer), net[s])
  /\ UNCHANGED nextPid

\* expireHandshake.
Expire(s) ==
  /\ "expire" \in Env
  /\ chan[s].timer # NoFrame
  /\ Commit(s, [Untrack(Release(Work(s)), chan[s].timer.pid) EXCEPT
                  !.ch.pending = 0, !.ch.awaiting = NoRequest], net[s])
  /\ UNCHANGED nextPid

\* A transport posts its hello until the counterpart confirms.
PostHello(s) ==
  LET t == chan[s].transport IN
  /\ t # NoTransport /\ ~t.confirmed
  /\ Room
  /\ Commit(s, PostFrame(Work(s), [type |-> "HELLO", protocol |-> t.protocol, key |-> t.key]),
            net[s])
  /\ UNCHANGED nextPid

\* failSecurity, when the confirmation deadline passes.
ConfirmTimeout(s) ==
  LET c == chan[s] IN
  /\ "expire" \in Env
  /\ c.transport # NoTransport /\ ~c.transport.confirmed
  /\ \/ /\ c.active
        /\ Commit(s, FinalizeClose(Work(s)), net[s])
     \/ /\ ~c.active /\ c.awaiting = NoRequest
        /\ Commit(s, DropTransport(Work(s)), net[s])
     \/ /\ ~c.active /\ c.awaiting # NoRequest
        /\ Commit(s, Post(CancelQuietly(Work(s)), "CANCEL", c.awaiting.pid, "absent"), net[s])
  /\ UNCHANGED nextPid

-----------------------------------------------------------------------------
(* The handlers: `rest' is what is left in flight to the side.             *)

\* Mutant: no protocol in common is no outcome.
Negotiate_NoFallback(s, asked) ==
  IF asked \in settings[s].offers /\ settings[s].asks \in {"none", asked} THEN asked ELSE "absent"

\* protocolsOfferedBy and negotiateProtocol.
Negotiate(s, asked) ==
  IF asked \in settings[s].offers /\ settings[s].asks \in {"none", asked} THEN asked ELSE "none"

\* negotiateSecurity: the transport is attached now if the side answers now.
Negotiations(w, s, asked) ==
  LET chosen == Negotiate(s, asked)
      outcomes == IF chosen # "none" /\ w.ch.ready
                  THEN Attachments(w, s, chosen, "responder")
                  ELSE {[w |-> w, slot |-> chosen]}
  IN {[a EXCEPT !.w.ch.negotiated = a.slot] : a \in outcomes}

\* A fail-closed side denies plaintext; the rest is scheduled until connect(),
\* or answered.
Answer(w, s, r) ==
  LET tracked == [w EXCEPT !.procs = @ \cup {r.pid}] IN
  IF r.slot \notin Protocol /\ settings[s].strict THEN Post(w, "DENY", r.pid, "absent")
  ELSE IF w.ch.ready THEN BeginResponse(tracked, r, r.slot)
  ELSE [tracked EXCEPT !.ch.scheduled = r, !.procs = @ \ ({w.ch.scheduled.pid} \ {r.pid})]

\* A request of the counterpart in session is answered by the ACCEPT that opened it.
ReplayAccept(w, f) ==
  Post(w, "ACCEPT", f.pid,
       IF f.slot = "absent" \/ w.ch.negotiated = "null" THEN "absent" ELSE w.ch.negotiated)

\* Mutant: a request in session is negotiated anew.
Replayed_Never(c) == FALSE

Replayed(c) == c.active

HandleRequest(s, f, rest) ==
  LET c == chan[s]
      w == IF c.pending = 0 THEN Work(s) ELSE AbandonRequest(Work(s))
  IN
  \/ /\ Replayed(c)
     /\ Commit(s, ReplayAccept(Work(s), f), rest)
  \/ /\ ~Replayed(c) /\ c.pending # 0 /\ s > Other(s) \* glare: its own request wins
     /\ Commit(s, Work(s), rest)
  \/ /\ ~Replayed(c) /\ (c.pending = 0 \/ s < Other(s))
     /\ \/ /\ f.slot = "absent"
           /\ Commit(s, Answer(w, s, [pid |-> f.pid, slot |-> "absent"]), rest)
        \/ /\ f.slot # "absent"
           /\ \E a \in Negotiations(w, s, f.slot) :
                Commit(s, Answer(a.w, s, [pid |-> f.pid, slot |-> a.slot]), rest)

\* completeConnection: OPEN confirms what the channel settled for.
Complete(w, p, slot) ==
  Post([Untrack(w, p) EXCEPT !.ch = Activate(w, p).ch], "OPEN", p, slot)

\* abortSecurityUnavailable.
Abort(w, p) == Post(AbandonRequest(w), "CANCEL", p, "absent")

\* settleSecurity: the protocol asked for, or plaintext.
Settlements(w, s, answered) ==
  LET outcomes == IF answered \in Protocol /\ answered = settings[s].asks
                  THEN Attachments(w, s, answered, "initiator")
                  ELSE {[w |-> w, slot |-> "none"]}
  IN {[a EXCEPT !.w.ch.negotiated = a.slot] : a \in outcomes}

HandleAccept(s, f, rest) ==
  LET c == chan[s]
      active == IF c.transport # NoTransport THEN c.negotiated ELSE "none"
  IN
  \/ /\ c.active \* the OPEN it answers was lost
     /\ Commit(s, Post(Work(s), "OPEN", f.pid,
                       IF c.negotiated = "null" THEN "absent" ELSE active), rest)
  \/ /\ ~c.active /\ c.pending # f.pid \* answers no request of this side's
     /\ Commit(s, Work(s), rest)
  \/ /\ ~c.active /\ c.pending = f.pid
     /\ \/ /\ f.slot = "absent" /\ settings[s].strict
           /\ Commit(s, Abort(Work(s), f.pid), rest)
        \/ /\ f.slot = "absent" /\ ~settings[s].strict
           /\ Commit(s, Complete(Work(s), f.pid, "absent"), rest)
        \/ /\ f.slot # "absent"
           /\ \E a \in Settlements(Work(s), s, f.slot) :
                Commit(s, IF a.slot = "none" /\ settings[s].strict
                          THEN Abort(a.w, f.pid) ELSE Complete(a.w, f.pid, a.slot), rest)

\* OPEN confirms that the initiator runs the protocol negotiated.
ConfirmsActive(c, f) == c.negotiated \in Protocol /\ f.slot = c.negotiated

\* Mutant: a fail-closed responder opens in plaintext.
OpenAnyway_Always(s, c, f) == TRUE

\* A fail-closed responder opens only a confirmed protocol.
OpenAnyway(s, c, f) == ConfirmsActive(c, f) \/ ~settings[s].strict

HandleOpen(s, f, rest) ==
  LET c == chan[s]
      w == Untrack(Work(s), f.pid)
      plain == [DropTransport(w) EXCEPT !.ch.negotiated = "none"]
      settled == IF ConfirmsActive(c, f) THEN w ELSE plain
  IN
  \/ /\ f.pid \notin procs[s] \/ c.awaiting.pid # f.pid
     /\ Commit(s, w, rest)
  \/ /\ f.pid \in procs[s] /\ c.awaiting.pid = f.pid
     /\ Commit(s, IF OpenAnyway(s, c, f) THEN Activate(settled, f.pid)
                  ELSE Post(CancelQuietly(settled), "CANCEL", f.pid, "absent"), rest)

HandleDeny(s, f, rest) ==
  Commit(s, IF f.pid \in procs[s] THEN Untrack(AbandonRequest(Work(s)), f.pid) ELSE Work(s), rest)

HandleCancel(s, f, rest) ==
  Commit(s, Untrack(Post(CancelQuietly(Work(s)), "CANCEL_ACK", f.pid, "absent"), f.pid), rest)

HandleCancelAcknowledged(s, f, rest) == Commit(s, Untrack(Work(s), f.pid), rest)

\* Mutant: any sealed frame of the other role opens.
Opens_Any(t, f) == f.role # t.role

\* A sealed frame opens under the keys both ends derive from one pair of
\* materials, in opposite roles.
Opens(t, f) == f.key = t.peer /\ f.to = t.key /\ f.role # t.role

\* The first hello keys the transport and is answered by a sealed confirmation;
\* what waited for the keys is opened.
HandleHello(s, f, rest) ==
  LET t     == chan[s].transport
      keyed == [t EXCEPT !.peer = f.key]
      w     == [Work(s) EXCEPT !.ch.transport =
                  [keyed EXCEPT !.waiting = {},
                                !.confirmed = \E sealed \in t.waiting : Opens(keyed, sealed)]]
  IN
  IF t = NoTransport \/ t.protocol # f.protocol \/ t.peer # None
  THEN Commit(s, Work(s), rest)
  ELSE Commit(s, PostFrame(w, [type |-> "CONFIRMED", protocol |-> t.protocol, key |-> t.key,
                               to |-> f.key, role |-> t.role]), rest)

HandleConfirmed(s, f, rest) ==
  LET t == chan[s].transport IN
  Commit(s, IF t = NoTransport \/ t.protocol # f.protocol THEN Work(s)
            ELSE IF t.peer = None THEN [Work(s) EXCEPT !.ch.transport.waiting = @ \cup {f}]
            ELSE [Work(s) EXCEPT !.ch.transport.confirmed = @ \/ Opens(t, f)], rest)

Deliver(s) ==
  /\ net[s] # << >>
  /\ LET f == Head(net[s])
         rest == Tail(net[s])
     IN
     \/ f.type = "REQUEST"    /\ HandleRequest(s, f, rest)
     \/ f.type = "ACCEPT"     /\ HandleAccept(s, f, rest)
     \/ f.type = "OPEN"       /\ HandleOpen(s, f, rest)
     \/ f.type = "DENY"       /\ HandleDeny(s, f, rest)
     \/ f.type = "CANCEL"     /\ HandleCancel(s, f, rest)
     \/ f.type = "CANCEL_ACK" /\ HandleCancelAcknowledged(s, f, rest)
     \/ f.type = "HELLO"      /\ HandleHello(s, f, rest)
     \/ f.type = "CONFIRMED"  /\ HandleConfirmed(s, f, rest)
  /\ UNCHANGED nextPid

Next ==
  \E s \in Side :
    \/ ApplySecuritySettings(s)
    \/ ConnectRequest(s) \/ ConnectAnswer(s) \/ Cancel(s) \/ CloseSilently(s)
    \/ Retry(s) \/ Expire(s) \/ PostHello(s) \/ ConfirmTimeout(s)
    \/ Deliver(s)

Spec == Init /\ [][Next]_vars

-----------------------------------------------------------------------------
(* Properties.                                                             *)

\* A fail-closed channel is in session only over the protocol it asked for,
\* whatever its counterpart asks, whichever provider fails and when, and whether
\* its settings came with it or were applied to it later.  The one exception is
\* the session of a request that was negotiated before they were applied.
StrictSealed ==
  \A s \in Side : settings[s].strict /\ chan[s].active /\ chan[s].session # chan[s].earlier =>
    chan[s].transport.protocol = settings[s].asks

\* A transport lives no longer than the session or the answer it was attached
\* for: one left behind would have every later plaintext message dropped.
TransportOwned ==
  \A s \in Side : chan[s].transport # NoTransport =>
    chan[s].active \/ chan[s].awaiting # NoRequest

\* Nothing is in flight, and nothing waits for an answer or a confirmation.
Quiet ==
  /\ \A s \in Side : /\ net[s] = << >> /\ chan[s].timer = NoFrame
                     /\ chan[s].transport # NoTransport => chan[s].transport.confirmed

OneSession == /\ chan[1].active /\ chan[2].active /\ chan[1].session = chan[2].session

\* When all is quiet, two sides that one attempt brought into session run it
\* alike: both in plaintext, or both over one protocol and each keyed to the
\* other's transport.
SealedTogether ==
  Quiet /\ OneSession =>
    LET t == chan[1].transport
        u == chan[2].transport
    IN /\ t.protocol = u.protocol
       /\ t # NoTransport => t.peer = u.key /\ u.peer = t.key

\* A session is never rekeyed, nor is plaintext made of it or of plaintext a
\* sealed session, while it lasts.
NeverRekeyed ==
  [][\A s \in Side : chan[s].active /\ chan'[s].active =>
       chan'[s].transport.key = chan[s].transport.key]_vars

\* The two transports of a session that one attempt opened can still confirm
\* each other: neither was keyed with material the other does not hold.
Confirmable ==
  OneSession =>
    \A s \in Side : chan[s].transport.peer \in {None, chan[Other(s)].transport.key}

=============================================================================
