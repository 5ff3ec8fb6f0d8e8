---------------------------- MODULE NexusChannel ----------------------------
(***************************************************************************)
(* The connection protocol of libs/nexus between two windows: the broker's *)
(* routing handlers and the channel life cycle on each side, joined by the *)
(* frames postMessage carries.                                             *)
(*                                                                         *)
(* A window outlives the documents loaded into it, so a side is a window   *)
(* and a broker id names one incarnation of the page in it.  postMessage   *)
(* is reliable and ordered between two live documents; a frame posted to a *)
(* window whose document has gone, or which is not of the target origin    *)
(* the sender pinned, is lost.  The retry and deadline timers of the       *)
(* channel are actions that may happen whenever they are armed.            *)
(*                                                                         *)
(* The channels are plaintext: neither side asks for a security protocol,  *)
(* so no transport is attached and every frame travels as it is.           *)
(***************************************************************************)
EXTENDS Integers, Sequences

CONSTANTS
  Side,      \* the two windows
  Id,        \* broker ids: a fresh one is minted on every boot of a page
  OriginOf,  \* the origin each incarnation is served from
  Refusers,  \* sides whose contract or policy gates may refuse the counterpart
  Env,       \* what applications, users and clocks do besides connecting
  MaxPid,    \* bound: process ids minted by both sides together
  MaxFrames, \* bound: a retry timer fires, and a channel is destroyed, only
             \* while fewer frames (for destroy(), no more) are in flight
  MaxSends   \* bound: messages one incarnation of a page sends

\* JavaScript's null, for process ids, broker ids and origins alike.
null == 0

Pid    == 1 .. MaxPid
Origin == { OriginOf[i] : i \in Id }

ASSUME SidesAssumption == \E a, b \in Side : a # b /\ Side = {a, b}
ASSUME IdAssumption == /\ Id \subseteq Nat \ {null}
                       /\ OriginOf \in [Id -> Nat \ {null}]
ASSUME BoundsAssumption == /\ MaxPid \in Nat \ {0}
                           /\ MaxFrames \in Nat
                           /\ MaxSends \in Nat
ASSUME EnvAssumption == Refusers \subseteq Side

\* The window at the other end.
Other(s) == CHOOSE t \in Side : t # s

-----------------------------------------------------------------------------
(* Frames, handshake tuples and the channel record.                        *)

\* Frames that belong to a handshake, cancel or close process, and the others.
ProcessFrame == {"REQUEST", "ACCEPT", "OPEN", "DENY", "CANCEL", "CANCEL_ACK",
                 "CLOSE", "CLOSE_ACK"}
PlainFrame   == {"DESTROY", "MESSAGE"}

\* senderId, processId and, on a MESSAGE, which of its sender's it is.
Frame == [type : ProcessFrame, from : Id, pid : Pid, msg : {0}]
           \cup [type : PlainFrame, from : Id, pid : {null}, msg : Nat]

\* A request being answered: who asked, under which process.
NoRequest == [from |-> null, pid |-> null]
Request   == [from : Id, pid : Pid]

\* The frame the retry timer re-sends, and the process its deadline drops.
NoTimer == [type |-> "none", pid |-> null]
Timer   == [type : {"REQUEST", "ACCEPT"}, pid : Pid]

\* History: the last attempt of a side to open its channel, and the event that
\* told its subscribers how it ended.
Outcome == {"none", "trying", "open", "cancel", "deny", "connect-timeout"}
Attempt == [pid : Pid \cup {null}, outcome : Outcome]
NoAttempt == [pid |-> null, outcome |-> "none"]
Begun(p)  == [pid |-> p, outcome |-> "trying"]

Channel ==
  [registered : BOOLEAN,                 \* the broker routes to this handle
   ready      : BOOLEAN,                 \* readyToConnect: connect() was called
   active     : BOOLEAN,
   origin     : Origin \cup {null},      \* pinned origin
   peerId     : Id \cup {null},
   pending    : Pid \cup {null},         \* pendingProcessId
   awaiting   : Request \cup {NoRequest},\* pendingAccept
   scheduled  : Request \cup {NoRequest},\* scheduledActivation
   closing    : Pid \cup {null},         \* closingProcessId, and its timer
   timer      : Timer \cup {NoTimer},    \* retryTimer and deadlineTimer
   denied     : Pid \cup {null},         \* notifiedDenyProcessId
   queue      : Seq(Nat),                \* queuedMessages
   attempt    : Attempt,                 \* history: the last attempt's outcome
   opens      : Int,                     \* history: 'open' less 'close' events
   closings   : Nat]                     \* history: 'closing' in this session

NewChannel(registered) ==
  [registered |-> registered, ready |-> FALSE, active |-> FALSE,
   origin |-> null, peerId |-> null, pending |-> null,
   awaiting |-> NoRequest, scheduled |-> NoRequest, closing |-> null,
   timer |-> NoTimer, denied |-> null, queue |-> << >>, attempt |-> NoAttempt,
   opens |-> 0, closings |-> 0]

VARIABLES
  broker,   \* id of the page loaded in each window, null while none is
  used,     \* the ids minted so far
  chan,     \* each side's channel to the other window
  procs,    \* process ids each broker routes to that channel
  orphans,  \* process ids it still routes to a channel that was destroyed
  sent,     \* messages the page has passed to send()
  got,      \* messages delivered to the page's subscribers
  net,      \* frames in flight to each window, oldest first
  nextPid   \* the next fresh process id

page == <<chan, procs, orphans, sent, got>>
vars == <<broker, used, chan, procs, orphans, sent, got, net, nextPid>>

Up(s) == broker[s] # null

\* A destroyed channel keeps its peer id and origin pin.
Orphan == [pid : Pid, peerId : Id \cup {null}, origin : Origin \cup {null}]

TypeOK ==
  /\ broker  \in [Side -> Id \cup {null}]
  /\ used    \subseteq Id
  /\ chan    \in [Side -> Channel]
  /\ procs   \in [Side -> SUBSET Pid]
  /\ orphans \in [Side -> SUBSET Orphan]
  /\ sent    \in [Side -> Nat]
  /\ got     \in [Side -> Seq([from : Id, msg : Nat])]
  /\ net     \in [Side -> Seq(Frame)]
  /\ nextPid \in 1 .. (MaxPid + 1)

Init ==
  /\ broker  = [s \in Side |-> null]
  /\ used    = {}
  /\ chan    = [s \in Side |-> NewChannel(FALSE)]
  /\ procs   = [s \in Side |-> {}]
  /\ orphans = [s \in Side |-> {}]
  /\ sent    = [s \in Side |-> 0]
  /\ got     = [s \in Side |-> << >>]
  /\ net     = [s \in Side |-> << >>]
  /\ nextPid = 1

-----------------------------------------------------------------------------
(* A handler or a call runs to completion on one page.  Work on side s is  *)
(* the part of the state it may change, with the frames it posts; `at' is  *)
(* the origin of the page in the other window, null when there is none.    *)

Work(s) ==
  [id |-> broker[s], at |-> IF Up(Other(s)) THEN OriginOf[broker[Other(s)]] ELSE null,
   ch |-> chan[s], procs |-> procs[s], orphans |-> orphans[s], out |-> << >>]

\* The page's new state, and the frames it posted behind those in flight to
\* the other window; `rest' is what remains in flight to this one.
Commit(s, w, rest) ==
  /\ chan'    = [chan EXCEPT ![s] = w.ch]
  /\ procs'   = [procs EXCEPT ![s] = w.procs]
  /\ orphans' = [orphans EXCEPT ![s] = w.orphans]
  /\ net'     = [net EXCEPT ![s] = rest, ![Other(s)] = @ \o w.out]
  /\ UNCHANGED <<broker, used>>

\* sendAction: postMessage reaches the page in the other window unless the
\* channel has pinned an origin that page is not of.
Delivers(w) == w.at # null /\ w.ch.origin \in {null, w.at}

Post(w, type, pid) ==
  IF Delivers(w)
  THEN [w EXCEPT !.out = Append(@, [type |-> type, from |-> w.id, pid |-> pid, msg |-> 0])]
  ELSE w

PostMessages(w, msgs) ==
  IF Delivers(w)
  THEN [w EXCEPT !.out = @ \o [i \in 1 .. Len(msgs) |->
          [type |-> "MESSAGE", from |-> w.id, pid |-> null, msg |-> msgs[i]]]]
  ELSE w

\* Forget a process, whichever handle it routes to.
Untrack(w, p) == [w EXCEPT !.procs = @ \ {p}, !.orphans = {o \in @ : o.pid # p}]
Track(w, p)   == [Untrack(w, p) EXCEPT !.procs = @ \cup {p}]

\* Mutant: the deadline of the handshake keeps running.
ClearTimers_RetryOnly(w) == [w EXCEPT !.ch.timer.type = "none"]

\* clearHandshakeTimers: the retry and the deadline stop together.
ClearTimers(w) == [w EXCEPT !.ch.timer = NoTimer]

\* The outcome of an attempt reaches the subscribers.
EndAttempt(w, outcome) == [w EXCEPT !.ch.attempt.outcome = outcome]

\* Mutant: the abandoned request stays in the state.
AbandonRequest_Kept(w) == Untrack(ClearTimers(w), w.ch.pending)

\* Stop the request in progress: its retries, its deadline, its process.
AbandonRequest(w) ==
  [Untrack(ClearTimers(w), w.ch.pending) EXCEPT !.ch.pending = null]

\* Mutant: no check that a session is open.
FinalizeClose_Unguarded(w) ==
  [Untrack(ClearTimers(w), w.ch.closing) EXCEPT
     !.ch.active = FALSE, !.ch.pending = null, !.ch.awaiting = NoRequest,
     !.ch.closing = null, !.ch.opens = @ - 1]

\* The single 'close' of a session; a no-op when none is open.
FinalizeClose(w) ==
  IF w.ch.active
  THEN [Untrack(ClearTimers(w), w.ch.closing) EXCEPT
          !.ch.active = FALSE, !.ch.pending = null, !.ch.awaiting = NoRequest,
          !.ch.closing = null, !.ch.opens = @ - 1]
  ELSE w

\* Mutant: the process is forgotten once ACCEPT is sent, before OPEN comes.
BeginResponse_Forgets(w, r) ==
  Post([Untrack(w, r.pid) EXCEPT
          !.ch.origin = OriginOf[r.from], !.ch.peerId = r.from,
          !.ch.scheduled = NoRequest, !.ch.awaiting = r,
          !.ch.timer = [type |-> "ACCEPT", pid |-> r.pid],
          !.ch.attempt = Begun(r.pid)],
       "ACCEPT", r.pid)

\* Answer a request: pin the requester, arm the ACCEPT retry, send ACCEPT.
BeginResponse(w, r) ==
  Post([w EXCEPT !.ch.origin = OriginOf[r.from], !.ch.peerId = r.from,
                 !.ch.scheduled = NoRequest, !.ch.awaiting = r,
                 !.ch.timer = [type |-> "ACCEPT", pid |-> r.pid],
                 !.ch.attempt = Begun(r.pid)],
       "ACCEPT", r.pid)

\* The local 'deny' fires once per handshake process.
DenyOnce(w, p) ==
  IF w.ch.denied = p THEN w ELSE EndAttempt([w EXCEPT !.ch.denied = p], "deny")

\* Mutant: the peer of an earlier session is kept.
Activate_KeepsPeer(w, id) ==
  EndAttempt([w EXCEPT !.ch.active = TRUE, !.ch.origin = OriginOf[id],
                       !.ch.peerId = IF @ = null THEN id ELSE @,
                       !.ch.scheduled = NoRequest, !.ch.awaiting = NoRequest,
                       !.ch.pending = null, !.ch.timer = NoTimer,
                       !.ch.opens = @ + 1, !.ch.closings = 0], "open")

\* The session opens with incarnation `id' of the other page.
Activate(w, id) ==
  EndAttempt([w EXCEPT !.ch.active = TRUE, !.ch.origin = OriginOf[id], !.ch.peerId = id,
                       !.ch.scheduled = NoRequest, !.ch.awaiting = NoRequest,
                       !.ch.pending = null, !.ch.timer = NoTimer,
                       !.ch.opens = @ + 1, !.ch.closings = 0], "open")

\* Mutants: the queue is sent from its end; cleared before it is read.
Flush_Reversed(w) ==
  PostMessages([w EXCEPT !.ch.queue = << >>],
               [i \in DOMAIN w.ch.queue |-> w.ch.queue[Len(w.ch.queue) + 1 - i]])
Flush_Drops(w) == [w EXCEPT !.ch.queue = << >>]

\* Everything queued while there was no session, in order.
Flush(w) ==
  PostMessages([w EXCEPT !.ch.queue = << >>], w.ch.queue)

\* Mutant: the close process is not tracked.
ProposeClose_Untracked(w, p) ==
  Post([ClearTimers(w) EXCEPT !.ch.closing = p, !.ch.closings = @ + 1], "CLOSE", p)

\* The close a side proposes politely: it stays active until acknowledged.
ProposeClose(w, p) ==
  Post([Track(ClearTimers(w), p) EXCEPT !.ch.closing = p, !.ch.closings = @ + 1],
       "CLOSE", p)

\* Mutant: the timers of the attempt keep running.
AbortAttempt_Ticking(w) ==
  EndAttempt([Untrack(w, w.ch.pending) EXCEPT
                !.ch.pending = null, !.ch.awaiting = NoRequest,
                !.ch.scheduled = NoRequest], "cancel")

\* cancel() when no session is open.  Only the process of its own request is
\* dropped; one it was answering stays tracked.
AbortAttempt(w) ==
  EndAttempt([Untrack(ClearTimers(w), w.ch.pending) EXCEPT
                !.ch.pending = null, !.ch.awaiting = NoRequest,
                !.ch.scheduled = NoRequest], "cancel")

\* The handle's tracked processes are dropped and the broker forgets it.  What
\* it did not hold in its own state keeps routing to it.
Destroy(w, notify) ==
  LET c    == w.ch
      gone == IF notify THEN Post(w, "DESTROY", null) ELSE w
      held == {c.pending, c.awaiting.pid, c.scheduled.pid, c.closing}
  IN  [gone EXCEPT
         !.ch = NewChannel(FALSE),
         !.procs = {},
         !.orphans = @ \cup [pid : w.procs \ held, peerId : {c.peerId}, origin : {c.origin}]]

-----------------------------------------------------------------------------
(* The page's own calls.                                                   *)

\* A page loads: its broker mints an id and listens.
Boot(s) ==
  /\ ~Up(s)
  /\ \E i \in Id \ used : /\ broker' = [broker EXCEPT ![s] = i]
                          /\ used' = used \cup {i}
  /\ UNCHANGED <<page, net, nextPid>>

\* The document is replaced or navigated away: what was posted to it is lost.
Unload(s) ==
  /\ "reload" \in Env
  /\ Up(s)
  /\ \E i, j \in Id \ used : i # j \/ Up(Other(s)) \* bound: an id per window without a page
  /\ broker'  = [broker EXCEPT ![s] = null]
  /\ chan'    = [chan EXCEPT ![s] = NewChannel(FALSE)]
  /\ procs'   = [procs EXCEPT ![s] = {}]
  /\ orphans' = [orphans EXCEPT ![s] = {}]
  /\ sent'    = [sent EXCEPT ![s] = 0]
  /\ got'     = [got EXCEPT ![s] = << >>]
  /\ net'     = [net EXCEPT ![s] = << >>]
  /\ UNCHANGED <<used, nextPid>>

AddChannel(s) ==
  /\ Up(s)
  /\ ~chan[s].registered
  /\ chan' = [chan EXCEPT ![s].registered = TRUE]
  /\ UNCHANGED <<broker, used, procs, orphans, sent, got, net, nextPid>>

\* A fresh process id; the caller tracks it.
Mint == nextPid \in Pid /\ nextPid' = nextPid + 1

Idle(c) == ~c.active /\ c.pending = null /\ c.awaiting = NoRequest

\* connect() as the initiator.
BeginRequest(w, p) ==
  Post([Track(w, p) EXCEPT !.ch.ready = TRUE, !.ch.pending = p,
                           !.ch.timer = [type |-> "REQUEST", pid |-> p],
                           !.ch.attempt = Begun(p)],
       "REQUEST", p)

ConnectRequest(s) ==
  /\ Up(s) /\ chan[s].registered /\ Idle(chan[s])
  /\ chan[s].scheduled = NoRequest
  /\ Mint
  /\ Commit(s, BeginRequest(Work(s), nextPid), net[s])
  /\ UNCHANGED <<sent, got>>

\* connect() when a REQUEST came first: answer it.
ConnectAnswer(s) ==
  /\ Up(s) /\ chan[s].registered /\ Idle(chan[s])
  /\ chan[s].scheduled # NoRequest
  /\ Commit(s, BeginResponse([Work(s) EXCEPT !.ch.ready = TRUE], chan[s].scheduled), net[s])
  /\ UNCHANGED <<sent, got, nextPid>>

\* disconnect(): propose a close; repeated while one is in flight it does nothing.
Disconnect(s) ==
  /\ "close" \in Env
  /\ chan[s].active /\ chan[s].closing = null
  /\ Mint
  /\ Commit(s, ProposeClose(Work(s), nextPid), net[s])
  /\ UNCHANGED <<sent, got>>

\* disconnect(false): end the session without telling the counterpart.
DisconnectSilently(s) ==
  /\ "silent" \in Env
  /\ chan[s].active
  /\ nextPid \in Pid \* bound: while an id is left for the next attempt
  /\ Commit(s, FinalizeClose(Work(s)), net[s])
  /\ UNCHANGED <<sent, got, nextPid>>

\* What a call made with `notify' may be: quiet calls are the environment's.
Notify == IF "silent" \in Env THEN BOOLEAN ELSE {TRUE}

\* cancel() without a session (on an open channel it is disconnect()).  With no
\* attempt in progress there is nothing to end, and the CANCEL still travels.
Cancel(s) ==
  /\ "cancel" \in Env
  /\ chan[s].registered /\ ~chan[s].active
  /\ LET inProgress == ~Idle(chan[s]) \/ chan[s].scheduled # NoRequest
         w == IF inProgress THEN AbortAttempt(Work(s)) ELSE Work(s)
     IN  \E notify \in Notify :
           \/ /\ notify /\ Mint
              /\ Commit(s, Post(Track(w, nextPid), "CANCEL", nextPid), net[s])
           \/ /\ ~notify /\ inProgress
              /\ Commit(s, w, net[s])
              /\ UNCHANGED nextPid
  /\ UNCHANGED <<sent, got>>

\* destroy(), and the application may add a new channel to the window later.
DestroyCall(s) ==
  /\ "destroy" \in Env
  /\ chan[s].registered
  /\ Len(net[Other(s)]) <= MaxFrames \* bound: while few frames are in flight
  /\ \E notify \in Notify : Commit(s, Destroy(Work(s), notify), net[s])
  /\ UNCHANGED <<sent, got, nextPid>>

\* send(): with no session, or once a close was proposed, the message queues.
Send(s) ==
  /\ "send" \in Env
  /\ chan[s].registered /\ sent[s] < MaxSends
  /\ sent' = [sent EXCEPT ![s] = @ + 1]
  /\ \/ /\ chan[s].active /\ chan[s].closing = null
        /\ Commit(s, PostMessages(Work(s), <<sent'[s]>>), net[s])
     \/ /\ ~(chan[s].active /\ chan[s].closing = null)
        /\ Commit(s, [Work(s) EXCEPT !.ch.queue = Append(@, sent'[s])], net[s])
  /\ UNCHANGED <<got, nextPid>>

-----------------------------------------------------------------------------
(* Timers.                                                                 *)

\* Mutant: only an ACCEPT is ever re-sent.
Retry_Accepts(s) ==
  /\ chan[s].timer # NoTimer
  /\ chan[s].timer.type = "ACCEPT"
  /\ Len(net[s]) + Len(net[Other(s)]) < MaxFrames
  /\ Commit(s, Post(Work(s), chan[s].timer.type, chan[s].timer.pid), net[s])
  /\ UNCHANGED <<sent, got, nextPid>>

\* Re-send the pending REQUEST or ACCEPT.
Retry(s) ==
  /\ chan[s].timer # NoTimer
  /\ Len(net[s]) + Len(net[Other(s)]) < MaxFrames
  /\ Commit(s, Post(Work(s), chan[s].timer.type, chan[s].timer.pid), net[s])
  /\ UNCHANGED <<sent, got, nextPid>>

\* expireHandshake: 'connect-timeout'; the counterpart is not told.
Expire(s) ==
  /\ "expire" \in Env
  /\ chan[s].timer # NoTimer
  /\ nextPid \in Pid \* bound: while an id is left for the next attempt
  /\ LET w == Untrack(ClearTimers(Work(s)), chan[s].timer.pid)
     IN  Commit(s, EndAttempt([w EXCEPT !.ch.pending = null, !.ch.awaiting = NoRequest],
                          "connect-timeout"), net[s])
  /\ UNCHANGED <<sent, got, nextPid>>

\* The acknowledgement of a polite close did not come in time.
CloseTimeout(s) ==
  /\ "expire" \in Env
  /\ chan[s].closing # null
  /\ Commit(s, FinalizeClose(Work(s)), net[s])
  /\ UNCHANGED <<sent, got, nextPid>>

-----------------------------------------------------------------------------
(* Routing handlers.  Each consumes the oldest frame in flight to the side.*)

Arriving(s, type) == /\ Up(s)
                     /\ net[s] # << >>
                     /\ Head(net[s]).type = type

\* The step of a handler: its work, with the frame taken off the wire.
Handle(s, w) == /\ Commit(s, w, Tail(net[s]))
                /\ UNCHANGED <<sent, got, nextPid>>

\* Mutant: a pinned origin admits any other.
PinAllows_Any(c, f) == TRUE

PinAllows(c, f) == c.origin \in {null, OriginOf[f.from]}
Resolves(c, f)  == c.registered /\ PinAllows(c, f)
IsPeerInstance(peerId, f) == peerId \in {null, f.from}

OrphanOf(s, f) == {o \in orphans[s] : o.pid = f.pid}

\* Mutant: no answer, since the session is open already.
RequestReplayed_Dropped(s, f) ==
  /\ chan[s].active /\ chan[s].peerId = f.from
  /\ Handle(s, Work(s))

\* REQUEST replayed by the peer of the open session: repeat the ACCEPT.
RequestReplayed(s, f) ==
  /\ chan[s].active /\ chan[s].peerId = f.from
  /\ Handle(s, Post(Work(s), "ACCEPT", f.pid))

\* Mutant: a request is answered before the application asked for a connection.
MayAnswer_Always(w) == TRUE

\* Only a channel its application has connected answers a request at once.
MayAnswer(w) == w.ch.ready

\* Any other REQUEST, once a session of an instance that is gone has ended and
\* left the page at w: settle glare by id, then refuse, schedule or answer.
RequestConsidered(s, f, w) ==
  LET v == IF w.ch.pending # null THEN AbandonRequest(w) ELSE w
      r == [from |-> f.from, pid |-> f.pid]
      t == Track(v, f.pid)
      superseded == w.ch.scheduled.pid
  IN  \/ /\ w.ch.pending # null /\ ~(broker[s] < f.from)
         /\ Commit(s, w, Tail(net[s]))
      \/ /\ w.ch.pending # null => broker[s] < f.from
         /\ \/ /\ s \in Refusers
               /\ Commit(s, DenyOnce(Post(v, "DENY", f.pid), f.pid), Tail(net[s]))
            \/ /\ MayAnswer(v)
               /\ Commit(s, BeginResponse(t, r), Tail(net[s]))
            \/ /\ ~MayAnswer(v)
               /\ Commit(s, [IF superseded = f.pid THEN t ELSE Untrack(t, superseded)
                               EXCEPT !.ch.scheduled = r], Tail(net[s]))

\* Its 'close' fires inside the handler, and a subscriber may connect() there:
\* the handler goes on with a request of its own page before it.
HandleRequest(s) ==
  /\ Arriving(s, "REQUEST")
  /\ LET f == Head(net[s])
         c == chan[s]
         replayed == c.active /\ c.peerId = f.from
         ended == FinalizeClose([Work(s) EXCEPT !.ch.registered = TRUE])
     IN  \/ /\ ~PinAllows(c, f)
            /\ Handle(s, Work(s))
         \/ /\ PinAllows(c, f) /\ replayed
            /\ RequestReplayed(s, f)
         \/ /\ PinAllows(c, f) /\ ~replayed
            /\ RequestConsidered(s, f, ended)
            /\ UNCHANGED <<sent, got, nextPid>>
         \/ /\ PinAllows(c, f) /\ ~replayed /\ c.active
            /\ "reconnect" \in Env /\ Mint
            /\ RequestConsidered(s, f, BeginRequest(ended, nextPid))
            /\ UNCHANGED <<sent, got>>

\* Mutant: an ACCEPT of any earlier request will do.
Expects_AnyProcess(c, f) == ~c.active /\ PinAllows(c, f)

\* The ACCEPT that answers the request in progress.
Expects(c, f) == ~c.active /\ PinAllows(c, f) /\ c.pending = f.pid

\* The initiator: replay OPEN, open the session, abort at a gate, or drop.
HandleAccept(s) ==
  /\ Arriving(s, "ACCEPT")
  /\ LET f == Head(net[s])
         c == chan[s]
         live == OrphanOf(s, f) = {} /\ (f.pid \in procs[s] \/ Resolves(c, f))
         expected == live /\ Expects(c, f)
     IN  \/ /\ live /\ c.active /\ c.peerId = f.from
            /\ Handle(s, Post(Work(s), "OPEN", f.pid))
         \/ /\ expected
            /\ LET w == Flush(Post(Activate(Work(s), f.from), "OPEN", f.pid))
               IN  Handle(s, Untrack(w, f.pid))
         \/ /\ expected /\ s \in Refusers
            /\ Handle(s, DenyOnce(Post(AbandonRequest(Work(s)), "CANCEL", f.pid), f.pid))
         \/ /\ ~expected /\ ~(live /\ c.active /\ c.peerId = f.from)
            /\ Handle(s, Work(s))

\* The responder: the session opens if this answer is still awaited.
HandleOpen(s) ==
  /\ Arriving(s, "OPEN")
  /\ LET f == Head(net[s])
         c == chan[s]
         routed == \/ f.pid \in procs[s] /\ IsPeerInstance(c.peerId, f)
                   \/ \E o \in OrphanOf(s, f) : IsPeerInstance(o.peerId, f)
     IN  \/ /\ ~routed
            /\ Handle(s, Work(s))
         \/ /\ routed /\ f.pid \in procs[s] /\ c.awaiting.pid = f.pid
            /\ Handle(s, Flush(Activate(Untrack(Work(s), f.pid), c.awaiting.from)))
         \/ /\ routed /\ ~(f.pid \in procs[s] /\ c.awaiting.pid = f.pid)
            /\ Handle(s, Untrack(Work(s), f.pid))

\* A denied request stops retrying.
HandleDeny(s) ==
  /\ Arriving(s, "DENY")
  /\ LET f == Head(net[s])
     IN  \/ /\ f.pid \in procs[s]
            /\ Handle(s, EndAttempt(Untrack(AbandonRequest(Work(s)), f.pid), "deny"))
         \/ /\ f.pid \notin procs[s]
            /\ Handle(s, Untrack(Work(s), f.pid))

\* The counterpart cancelled: whatever is in progress here ends, an open
\* session included, and the CANCEL is acknowledged.
HandleCancel(s) ==
  /\ Arriving(s, "CANCEL")
  /\ LET f == Head(net[s])
         c == chan[s]
         live == Resolves(c, f) \/ f.pid \in procs[s]
         ended == IF c.active THEN FinalizeClose(Work(s)) ELSE AbortAttempt(Work(s))
     IN  \/ /\ live /\ IsPeerInstance(c.peerId, f)
            /\ Handle(s, Untrack(Post(ended, "CANCEL_ACK", f.pid), f.pid))
         \/ /\ ~live
            /\ \E o \in OrphanOf(s, f) :
                 /\ IsPeerInstance(o.peerId, f)
                 /\ LET w == Post([Work(s) EXCEPT !.ch.origin = o.origin], "CANCEL_ACK", f.pid)
                    IN  Handle(s, Untrack([w EXCEPT !.ch = c], f.pid))
         \/ /\ IF live THEN ~IsPeerInstance(c.peerId, f)
               ELSE \A o \in OrphanOf(s, f) : ~IsPeerInstance(o.peerId, f)
            /\ Handle(s, Work(s))

HandleCancelAcknowledged(s) ==
  /\ Arriving(s, "CANCEL_ACK")
  /\ Handle(s, Untrack(Work(s), Head(net[s]).pid))

\* 'closing' fires while the channel still delivers, and its subscribers may
\* send once more; then the CLOSE is acknowledged and the session ends.
HandleClose(s) ==
  /\ Arriving(s, "CLOSE")
  /\ LET f == Head(net[s])
         c == chan[s]
         heard == Resolves(c, f) /\ c.active /\ IsPeerInstance(c.peerId, f)
         told == IF c.closing = null THEN [Work(s) EXCEPT !.ch.closings = @ + 1] ELSE Work(s)
         ended(w) == FinalizeClose(Untrack(Post(w, "CLOSE_ACK", f.pid), f.pid))
     IN  \/ /\ heard
            /\ Handle(s, ended(told))
         \/ /\ heard /\ c.closing = null
            /\ "send" \in Env /\ sent[s] < MaxSends
            /\ sent' = [sent EXCEPT ![s] = @ + 1]
            /\ Commit(s, ended(PostMessages(told, <<sent'[s]>>)), Tail(net[s]))
            /\ UNCHANGED <<got, nextPid>>
         \/ /\ ~heard
            /\ Handle(s, Work(s))

\* Only a channel that proposed a close is ended by an acknowledgement.
HandleCloseAcknowledged(s) ==
  /\ Arriving(s, "CLOSE_ACK")
  /\ \/ /\ Head(net[s]).pid \in procs[s] /\ chan[s].closing # null
        /\ Handle(s, FinalizeClose(Work(s)))
     \/ /\ ~(Head(net[s]).pid \in procs[s] /\ chan[s].closing # null)
        /\ Handle(s, Work(s))

HandleDestroy(s) ==
  /\ Arriving(s, "DESTROY")
  /\ LET heard == Resolves(chan[s], Head(net[s])) /\ IsPeerInstance(chan[s].peerId, Head(net[s]))
     IN  \/ /\ heard /\ Handle(s, Destroy(Work(s), FALSE))
         \/ /\ ~heard /\ Handle(s, Work(s))

\* A message reaches the subscribers of an open session with its sender.
HandleMessage(s) ==
  /\ Arriving(s, "MESSAGE")
  /\ LET f == Head(net[s])
         heard == Resolves(chan[s], f) /\ chan[s].active /\ IsPeerInstance(chan[s].peerId, f)
     IN  got' = IF heard THEN [got EXCEPT ![s] = Append(@, [from |-> f.from, msg |-> f.msg])]
                ELSE got
  /\ Commit(s, Work(s), Tail(net[s]))
  /\ UNCHANGED <<sent, nextPid>>

Deliver(s) ==
  \/ HandleRequest(s) \/ HandleAccept(s) \/ HandleOpen(s) \/ HandleDeny(s)
  \/ HandleCancel(s) \/ HandleCancelAcknowledged(s)
  \/ HandleClose(s) \/ HandleCloseAcknowledged(s)
  \/ HandleDestroy(s) \/ HandleMessage(s)

Call(s) ==
  \/ Boot(s) \/ Unload(s) \/ AddChannel(s)
  \/ ConnectRequest(s) \/ ConnectAnswer(s)
  \/ Disconnect(s) \/ DisconnectSilently(s) \/ Cancel(s) \/ DestroyCall(s) \/ Send(s)

Tick(s) == Retry(s) \/ Expire(s) \/ CloseTimeout(s)

Next == \E s \in Side : Call(s) \/ Tick(s) \/ Deliver(s)

Spec == Init /\ [][Next]_vars

\* Frames in flight are delivered and an armed retry timer keeps firing: the
\* interval fires whatever is in flight, and only the bound on frames ever
\* withholds it, so its fairness is strong.
NetFairness == \A s \in Side : WF_vars(Deliver(s)) /\ SF_vars(Retry(s))

\* Both pages load, and both applications call connect() while they have no
\* connection, again after a 'connect-timeout'.
AppFairness == \A s \in Side : /\ WF_vars(Boot(s))
                               /\ WF_vars(AddChannel(s))
                               /\ WF_vars(ConnectRequest(s))
                               /\ WF_vars(ConnectAnswer(s))

NetSpec  == Spec /\ NetFairness
FairSpec == Spec /\ NetFairness /\ AppFairness

-----------------------------------------------------------------------------
(* Safety.                                                                 *)

\* A channel plays one part at a time, whatever the calls, frames and timers
\* that reach it: an open session has no handshake of its own in progress, its
\* own request and an answer never coexist, only a channel nobody connected
\* holds a scheduled request, and only an open session is closing.
Roles(c) ==
  /\ c.active => c.pending = null /\ c.awaiting = NoRequest
  /\ c.pending # null => c.awaiting = NoRequest
  /\ c.scheduled # NoRequest => ~c.ready
  /\ ~c.ready => Idle(c)
  /\ c.closing # null => c.active

RolesExclusive == \A s \in Side : Roles(chan[s])

\* A handshake in progress has the retry and deadline of its own frame and
\* process armed, so that it cannot wait forever; nothing else leaves one armed.
DeadlineArmed ==
  \A s \in Side : LET c == chan[s] IN
    c.timer = IF c.pending # null THEN [type |-> "REQUEST", pid |-> c.pending]
              ELSE IF c.awaiting # NoRequest THEN [type |-> "ACCEPT", pid |-> c.awaiting.pid]
              ELSE NoTimer

\* The answer to a request or a close that is in progress finds its channel.
RequestsRoutable ==
  \A s \in Side : {chan[s].pending, chan[s].closing} \ {null} \subseteq procs[s]

\* So does the OPEN of a request this side answered or will answer, for as
\* long as the requester may send one.
AnswersRoutable ==
  \A s \in Side : \A r \in {chan[s].awaiting, chan[s].scheduled} \ {NoRequest} :
    \/ r.pid \in procs[s]
    \/ chan[Other(s)].pending # r.pid

\* Each session fires one 'open', then at most one 'closing', then one 'close':
\* a polite close that meets the counterpart's, a timeout, a reload or a
\* cancel never closes a session twice or leaves one unclosed.
OneClose(c) == /\ c.opens = IF c.active THEN 1 ELSE 0
               /\ c.closings <= 1

OneCloseEach == \A s \in Side : OneClose(chan[s])

\* Messages of one instance reach the counterpart in the order they were sent
\* and never twice, however they queued between sessions.
InOrderOnce ==
  \A s \in Side : \A i, j \in DOMAIN got[s] :
    i < j /\ got[s][i].from = got[s][j].from => got[s][i].msg < got[s][j].msg

\* Nothing is in flight and nothing is in progress.
Settled == \A s \in Side : /\ Up(s) /\ net[s] = << >>
                           /\ chan[s].timer = NoTimer /\ chan[s].closing = null

\* Then no side believes in a session its counterpart is not in.
Agreement ==
  Settled => \A s \in Side : LET t == Other(s) IN
    chan[s].active /\ chan[s].peerId = broker[t]
      => chan[t].active /\ chan[t].peerId = broker[s]

\* An attempt of a channel to open is in progress until its outcome is told.
AttemptsEnd ==
  \A s \in Side : chan[s].attempt.outcome = "trying"
                    => chan[s].pending # null \/ chan[s].awaiting # NoRequest

\* An origin, once pinned, is the origin of every peer the channel ever has.
PinnedForLife ==
  [][\A s \in Side : chan[s].origin # null /\ chan'[s].registered
                       => chan'[s].origin = chan[s].origin]_vars

\* The channels of two pages implement the abstract session: whatever frames
\* are replayed, left over or answered late, no session opens that both
\* applications did not ask for, and none replaces another before it closed.
Sessions == INSTANCE Session WITH
  loaded  <- broker,
  willing <- [s \in Side |-> chan[s].ready],
  peer    <- [s \in Side |-> IF chan[s].active THEN chan[s].peerId ELSE null]

ImplementsSession == Sessions!Spec

-----------------------------------------------------------------------------
(* Liveness.                                                               *)

\* In session with each other's current instance.
Connected == \A s \in Side : chan[s].active /\ chan[s].peerId = broker[Other(s)]

\* Two pages that both keep trying end up connected, whatever glare, repeated or
\* superseded requests and silently closed sessions do to them.  Handshakes that
\* expire over and over, or a page that is replaced, are not part of it.
Converges == <>[]Connected

\* A message handed to send() reaches the other application, one sent from a
\* 'closing' subscriber included, unless it still waits for a session to open
\* or its sender proposes the close itself.
Delivered ==
  \A s \in Side, n \in 1 .. MaxSends :
    sent[s] = n ~> \/ \E i \in DOMAIN got[Other(s)] : got[Other(s)][i].msg = n
                   \/ ~chan[s].active /\ \E i \in DOMAIN chan[s].queue : chan[s].queue[i] = n
                   \/ chan[s].closing # null

\* A polite close ends the session on both sides without its timer.
CloseCompletes ==
  \A s \in Side : chan[s].closing # null ~> \A t \in Side : ~chan[t].active

=============================================================================
