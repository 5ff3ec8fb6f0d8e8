# Verification of hyperfrontend

TLA+ models, TLC runs and TLAPS proofs about the parts of hyperfrontend that are
hardest to test: the code by which two windows that share nothing but
`postMessage` agree that they are connected, and the code by which a host page
keeps the feature in such a window alive.  Source paths below are relative to the
repository.

    tlc -workers 4 -config nexus_sessions.cfg MC_NexusChannel.tla
    tlc -workers 4 -config transport_session.cfg MC_SecureTransport.tla
    tlc -workers 4 -config secure_settles.cfg MC_SecureHandshake.tla
    tlc -workers 4 -config frame_watch.cfg MC_FrameWatch.tla
    tlc -workers 4 -config host_shell.cfg MC_HostShell.tla
    for m in *_proofs.tla; do tlapm $m; done

## 1. The system

hyperfrontend embeds web applications ("features") in iframes or popups of a host
page.  Its libraries stack as follows.

    features (host shell, hostee)     heartbeat, revival, request/response
        |  calls, event callbacks
    nexus (broker, channels)          one broker per page, one channel per window
        |  send / receive, callbacks
    network-protocol (sealed session) hello exchange, seal and open queues
        |
    cryptography                      pure functions on bytes
        |
    window.postMessage                the wire

Everything on a page runs on one JavaScript thread: a handler, a timer callback
or a call runs to its end before another begins, except across an `await`.  The
concurrency is between two pages (and, on a page, between an `await` and what
happens meanwhile).  Nothing is persisted; a crash is a reload, which replaces
the document in a window and everything it knew.

### Inventory

| component | state | operations | hard behaviour | what makes it correct |
|---|---|---|---|---|
| **nexus channel** (`libs/nexus/src/channel`) | `ChannelState`: active, origin, peerId, pendingProcessId, pendingAccept, scheduledActivation, closingProcessId, readyToConnect, queuedMessages; three timers | connect, disconnect (polite or silent), cancel, destroy, send, retry and deadline callbacks | retries racing answers, crossing closes, a silent close, calls from inside event callbacks | one `open` and one `close` per session; no session its counterpart never enters; messages in order and once |
| **nexus broker routing** (`libs/nexus/src/broker`) | channel registry, process table (process id to channel) | ten `handle-*` functions, one per action; `resolve-channel`, `peer-instance` | glare, frames of a replaced document, late and repeated frames, channels that are gone | every answer finds its channel; nothing is routed to the wrong session |
| **nexus security** (`libs/nexus/src/channel/security`, `security/transport`) | one transport per channel: provider session, confirmed, disposed, two timers | attach, start, send, receive, fail, drop; plaintext guard | confirmation racing its deadline; a duplicate REQUEST replacing the transport; failures after `await` | a secured channel never acts on plaintext; it ends closed, never silently open |
| **sealed session** (`libs/network-protocol/.../session`) | peer hello, keys, next and last-accepted counter | createHello, acceptHello, seal, open | the replay check and the counter update are separated by `await` | no frame is accepted twice; no counter is used twice |
| **seal and open queues** (`.../queue`) | FIFO, processing and stopped flags | addMessage, stop, resume, processQueue | stop and resume inside a job; a job that rejects | one job at a time, in order, none lost |
| **host heartbeat** (`libs/features/src/host/heartbeat.ts`) | missed beats, observable, state, interval | start, stop, beat, setObservable, tick | late beats racing ticks, hidden pages and slowed timers, lost visibility reports | no verdict on a frame that runs in view; every loss noticed |
| **host revival** (`.../host/revival.ts`) | reopens spent, grace and stability timers, held attempt, observable | schedule, opened, setObservable, connectFailed, the two timers | a grace that outlives the session it waited for; a budget refilled inside an episode | never more reopens than the budget; a live frame is left alone |
| **host shell** (`.../host/lifecycle.ts`) | the current mount: channel, watchdog, release, plugins; queued open; revival | open, close, destroy, conceal, request, every channel event | unmounts that wait for plugins, events of an outgoing mount, late handshakes | one mount at a time, each released; what the handle says is true |
| **hostee** (`.../hostee/lifecycle.ts`, `heartbeat.ts`, `visibility.ts`) | session, beat interval, last visibility reported | beat, report, request | a document hidden, stalled, killed or reloaded | it beats while it runs |
| **page visibility** (`.../shared/page-visibility.ts`) | last state reported, poll | watch, poll | an announcement the browser never makes | each change noticed within the poll |
| **request peer** (`.../shared/request.ts`) | table of pending requests, correlation counter | request, answer, timeout, reject all | an answer after its timeout or after its asker was replaced | each request settles once, with its own answer |
| contracts, validation, filters | none | predicates on data | none | (a gate's verdict is a nondeterministic refusal) |
| cryptography, state-machine, web-worker, logging, utils | none or the user's | pure functions, wrappers | none | unit tests suit them |
| builder, versioning, project-scope, linter, workspace, questions, CLI, apps | files | sequential transformations of text | none | out of scope |

`PROJECT.json` lists each of them with its sources, and every hazard met while
reading with the line where it bites and the property that covers it.

### How they interact

* An application calls a channel; the channel posts actions to the other window;
  the other page's router decodes the action, resolves a channel from the source
  window, the origin and the process id, and runs one handler.
* Handlers call back into the channel's life-cycle functions, which emit events
  synchronously.  A channel event drives the feature layer (heartbeat start and
  stop, revival, readiness).
* With a security protocol agreed, REQUEST, ACCEPT, OPEN, DENY, CANCEL and
  CANCEL_ACK stay plaintext, and CLOSE, CLOSE_ACK, DESTROY and MESSAGE travel
  sealed through the session and its queues.

## 2. Plan

| module | content | state |
|---|---|---|
| `NexusChannel` | the connection protocol of two windows, plaintext | done |
| `Session` | what it promises the applications; refined by it | done |
| `SecureTransport` | both ends of one secured session: transport, session protocol, seal and open queues | done |
| `SecureHandshake` | negotiation on REQUEST/ACCEPT/OPEN; transports attached, confirmed, failed and dropped, each reduced to its material | done |
| `Heartbeat`, `Revival` | the watchdog and the reopen policy, as operators on the records their closures keep | done |
| `FrameWatch` | both, timed, against one frame, two page visibilities and the browser | done |
| `HostShell` | both, untimed, inside the shell handle, with the request peers of the two ends | done |
| `*_proofs` | one for each of the above but `Heartbeat`, whose lemmas are in `Revival_proofs`; `NexusSession_proofs` adds the theorems of `NexusChannel` about sessions | done |
| later | calls on a handle kept past `destroy()`, origins pinned in the settings; `Agreement` as a theorem where pages reload or cancel without retries | planned |

`NexusChannel` is the component the others rest on: `SecureHandshake` composes it
with `SecureTransport`, and `FrameWatch` and `HostShell` see of it the events its
subscribers see.  `FrameWatch` and `HostShell` EXTEND `Heartbeat` and `Revival` and
divide what uses them: time and visibility in one, the handle's life in the other.

`Session` is stated as an abstract specification.  What `SecureTransport` promises is
stated as `PrefixDelivered`, an invariant on the two histories, and what the request
peers promise as `AnswerComing` and `AnswersPair` of `HostShell`.

## 3. `NexusChannel`

### State

A *side* is a window; a window outlives the documents loaded in it.  A broker id
(`Id`, minted by `createBroker`) is one incarnation of the page.  `broker[s]` is
the id of the loaded page or `null`; `used` keeps ids fresh.  `chan[s]` is the
page's channel to the other window, one field per field of `ChannelState`
(names above), with the retry and handshake-deadline timers folded into `timer`
(they are armed and cleared together by `armHandshakeTimers` and
`clearHandshakeTimers`) and the close deadline into `closing` (armed and cleared
with `closingProcessId`).  `procs[s]` is the part of the broker's process table
that leads to that channel.  `orphans[s]` is the part that leads to a channel
already destroyed, with the peer id and origin its handle keeps.  `net[s]` is the
sequence of frames in flight to window `s`.  `sent` and `got` record what the
application passed to `send()` and what its subscribers received; `attempt`,
`opens` and `closings` count the events a channel has told.  These are history:
no guard that stands for code reads them, except the bound on `sent`.

### Actions

| action | code |
|---|---|
| `Boot`, `Unload` | `createBroker`; navigation or reload (external) |
| `AddChannel` | `broker.addChannel` |
| `ConnectRequest`, `ConnectAnswer` | `connect()`: the two ends of its branch on `scheduledActivation` |
| `Disconnect`, `DisconnectSilently` | `disconnect()`, `disconnect(false)` |
| `Cancel`, `DestroyCall`, `Send` | `cancel(notify)`, `destroy(notify)`, `send()` |
| `Retry`, `Expire`, `CloseTimeout` | callbacks of the retry interval, the handshake deadline, the close deadline |
| `HandleX` | `broker/routing/handle-x.ts`, from `route-message.ts` on |

A handler works on the record `Work(s)` of its side: the channel, the process
table entries and the frames it posts.  Each life-cycle helper (`Activate`,
`FinalizeClose`, `AbandonRequest`, `Untrack`, ...) is a function on that record
with the name of the code's function, and `Commit` makes the result the next
state, so a step is the whole handler in the order of the code.

Life-cycle functions emit events synchronously, so a subscriber may call back into
the channel in the middle of a handler.  Two such calls are modelled, those that
find a handler half done: `send()` in `closing`, before the acknowledgement leaves
(`HandleClose`), and `connect()` in the `close` that the REQUEST of a reloaded page
causes (the last disjunct of `HandleRequest`, with `"reconnect"` in `Env`): the rest
of the handler then meets a request of its own page, which it abandons or keeps by
the glare rule.

`postMessage` between two loaded documents is reliable and ordered.  A frame is
lost when the target has no document, when the sender pinned an origin the
target is not of (`Delivers`), or when the target's document is replaced before
the frame is handled (`Unload` empties `net`).  Nothing duplicates a frame but
the retry timer.  Frames a document posted before it went are still delivered.

Gates (`Refusers`): contract and policy checks on the data of a REQUEST or an
ACCEPT; on a side in `Refusers` the gate admits or refuses, freely each time.

### Properties

* `RolesExclusive`: an open session, a request of one's own and an answer to the
  other's never coexist; a scheduled request means `connect()` was not called;
  only an open session is closing.
* `DeadlineArmed`: a handshake in progress has its own retry and deadline, and
  nothing else has one.
* `RequestsRoutable`, `AnswersRoutable`: the process table leads every answer that
  may still come to the channel that waits for it.
* `OneCloseEach`: one `open`, at most one `closing`, one `close` per session.
* `InOrderOnce`: messages of an incarnation arrive in order, none twice.
* `Agreement`: once nothing is in flight and nothing in progress, a side in
  session with the other's current document has that document in session with it.
* `PinnedForLife`: a pinned origin never changes while the handle lives.
* `ImplementsSession`: refinement of `Session`.
* `Converges` (without expired deadlines and replaced pages), `Delivered`,
  `CloseCompletes`: liveness.
* `AttemptsEnd`: an attempt's subscribers are told how it ended (violated, see section 10).

### Fairness

`Deliver` is weakly fair: a browser dispatches the messages of a loaded document.
`Retry` is strongly fair: the interval fires whatever is in flight, and only the
model's bound on frames withholds it, repeatedly.  `CloseCompletes` needs no more.  `Converges` and `Delivered`
also assume weak fairness of `Boot`, `AddChannel` and the two halves of
`connect()`: an application that keeps wanting a connection.  Nothing is assumed
of closes, cancels, expiries or reloads: they may or may not happen.

### Bounds

| bound | meaning | why it is enough |
|---|---|---|
| `MaxPid` 2 to 4 | process ids both sides mint together | a glare (two), a third attempt or a close or cancel after it, a fourth for healing |
| `MaxFrames` 0 to 2 | a retry fires only below this many frames in flight (other frames are never withheld); `destroy()` only up to it | one: each retry may race each answer; two: a retry behind a retry |
| `MaxSends` 0 to 2 | messages per incarnation | one suffices to be lost or doubled; two (`nexus_sessions`) to be overtaken, and the incarnation before adds its own |
| `Id` 2 or 3 | documents loaded in both windows | three: one reload; `Unload` waits until each empty window may get a page |
| `Expire`, `DisconnectSilently` | only while a process id is left | otherwise every behaviour could end in the bound; the steps themselves are unrestricted |

`Origin` differs between documents only in `nexus_quiet` (`MixedOrigins`: the
second document of a window may come from elsewhere).

### Runs

| run | question |
|---|---|
| `nexus_sessions` | reloads, reconnects from inside `close`, silent and polite closes, expiries, two sends a document, a retry: does the protocol implement `Session`, keep the roles exclusive, close each session once, deliver in order and once? |
| `nexus_quiet` | reloads, changed origins, cancels, destroys, reconnects, no retries: when all is quiet do both sides agree; is every wait bounded and every answer routable; is a pin for life? |
| `nexus_close` | refusing gates, retries, sends and polite closes: do closes complete without their timer, do messages arrive, is there agreement at rest? |
| `nexus_heals` | glare, repeated and superseded requests, silent closes at any point: do two pages that keep trying end up connected?  No deadline expires and no page is replaced in it: then each side may be left awaiting an OPEN (section 10) |
| `nexus_refused_glare` | violated: see finding 1 in section 10 |
| `nexus_reload_replay` | violated: see finding 2 in section 10 |

Symmetry of the two windows is used in the runs that check safety properties
(or a refinement without fairness) and treat both sides alike; ids are ordered
by the glare tie-break and are never symmetric.  Deadlock is not checked: with
the process ids spent and the channels open, nothing is left to do.

## 4. `SecureTransport`

### State

An *end* is one transport of an agreed session, and stands for the key material it
mints.  `transport[e]` holds the flags and timers of `createSecureTransport`;
`local`, `peer`, `keys`, `next` and `last` the closure of `createSessionProtocol`
(`local`, `acceptedHello` with the promise it resolves, `keys`, `nextCounter`,
`lastAccepted`); `sealing` and `opening` the two `createQueue` closures, with the
job each is running; `wire[e]` the frames on their way to `e`'s window.  `posted`,
`got`, `reported` and the field `failed` are history.

### Actions

| action | code |
|---|---|
| `Attach`, `Start`, `DisposeCall` | what the handshake and the channel do to the transport |
| `Mint` | `mintLocalMaterial` settles, or rejects |
| `RetryHello`, `ConfirmTimeout` | callbacks of the retry interval and the deadline |
| `Send`, `Stop`, `Resume` | the transport's operations of that name |
| `Deliver` | a frame arrives: `receive` with `acceptHello`, or the open queue |
| `Derive` | the keys promise settles, or rejects |
| `SealKeyed`, `SealDone`, `SealFailed` | `seal()` after its first `await`; the job's success; its failures |
| `OpenDone`, `OpenFailed` | `open()` after its awaits: the frame is delivered or dropped |
| `Replay`, `StrayFrame` | a sealed frame comes twice; frames of a transport since replaced |

Each `await` on a platform promise (minting, deriving, the cipher) ends a step:
anything may happen before the next.  A continuation that only waits for a promise
already settled runs before the next task, so it is part of the step that settles
it; that is why a hello whose material is there is posted in the step that asks
for it.  Opening a frame needs no step between the keys and the cipher: nothing
reads or writes what the other steps of that end share in between, but for
disposal, which is checked after.  A job's checks before its first `await` are made
when the queue takes it up (`BeginSeal`, `BeginOpen`), and that is where the two
queues could break a session: the checks are made against counters that move
later.

`onFailed` always ends in `dispose()` (`channel/security/fail.ts`: a silent close
of an open channel drops the transport, and so does the other branch), so `Fail`
includes it.  A sealed frame authenticates exactly when it was sealed for the pair
of materials the receiver holds.  Two frames only come from elsewhere: a transport
the same window had before, whose counterpart never accepted this end's hello, so
nothing it sealed is for this end; and a hello of it, which is taken if it comes
first.  Its key may be unusable, hence the second outcome of `Derive`.

### Properties

* `PrefixDelivered`: each end delivers a prefix of the messages the other was given
  and could seal.
* `CountersFresh`: no counter seals two frames; none passes the limit (`TypeOK`).
* `ConfirmedTogether`: a confirmed end and its counterpart hold each other's material.
* `OneOutcome`: ready or failed, not both, and no timer after either.
* `Confirms`, `Accounted`: liveness, unless an end is disposed.

`ConfirmedTogether` is not "both confirmed": one end confirms before the other, and
its counterpart may yet fail.

### Fairness

Promises settle, messages are dispatched and timers fire, and weak fairness is enough
to say so.  `Proceeds` joins the steps an end takes a bounded number of times
(`Attach`, `Start`, `Mint`, `Derive` and those of `Seal`), for which fairness of the
whole is fairness of each; the handshake has agreed on a session and attaches both
ends.  `Resume` is fair: whoever stops the queues resumes them.  Nothing in `libs/nexus` calls `stop()` or
`resume()`; they are offered to an application.  Disposal, failures and deadlines
are not fair.  `Confirms` and `Accounted` hold unless an end was released: disposed,
which a deadline or a failed derivation ends in, or keyed by a hello of an earlier
transport, which only its deadline ends.

### Bounds and runs

`MaxMsg` is 3 for one end and 0 for the other, which still sends its confirmation.
The second message has no JSON form, so the third must get past a failed job, and
the first and the third are both delivered: their order, or what lies between them,
can be wrong.  `CounterLimit` 3 lets the sender seal its
confirmation and those two, so the limit is met, and passed by whatever spends a
counter too many.  `MaxWaiting` bounds only retried hellos, replays and stray frames.
The two ends meet different faults: the sender's queues stop and its material may
fail to be minted; the other end receives replayed and stray frames, its deadline
passes and it may be disposed.

| run | question |
|---|---|
| `transport_session` | under all of those faults: do the five invariants hold, do both ends confirm, and is every message accounted for? |

## 5. `SecureHandshake`

### What it adds and what it leaves to the others

`NexusChannel` says how a connection is made, `SecureTransport` how one secured
session runs.  This module says how the first attaches the second: what the
security slots of REQUEST, ACCEPT and OPEN carry, when a transport is attached,
kept, replaced or dropped, and whether the two ends come out alike.  To keep the
product small it takes from each only what the other can see.

* Of the channel: two documents that are never replaced, no contract gates, no
  events, and sessions that end silently (`disconnect(false)`, a missed
  confirmation, a CANCEL).  A silent close is the hard case for security, for the
  counterpart keeps its transport; polite closes are in `NexusChannel`.  A side that
  gets REQUEST from a peer in session replays ACCEPT, as there.
* Of the transport: the key material it minted, the hello it accepted (`peer`),
  sealed frames that wait for the keys (`waiting`, what the open queue holds) and
  whether one has opened.  Key derivation is immediate and a hello is answered by
  a sealed confirmation in the step that takes it: the awaits in between are
  `SecureTransport`'s.  A sealed frame opens when the two materials match and the
  roles are opposite, because salt and directions of `deriveSessionKeys` are
  ordered by role.

### State and actions

`settings` are what the channel asks for, whether it is fail-closed, and the providers
its broker registered.  A REQUEST that comes before `addChannel()` creates the channel
without settings; they are then applied to it (`ApplySecuritySettings`), once, and what
was negotiated meanwhile stays scheduled.  `earlier` is history: the process of a
request that was scheduled when they came.  `chan[s]` has the fields of
`ChannelState` that the handshake and the negotiation read; `timer` is the frame the
retry interval repeats, composed when it was armed, with its security slot.  The
slot's three values in the code (absent, plaintext, a protocol) are kept apart,
because a REQUEST without one is answered without one.  `session` is history: the
process that opened the session a channel is in.  A `Key` is used again once no
transport and no frame in flight holds it, so four suffice for any number of
transports.

| action | code |
|---|---|
| `ConnectRequest`, `ConnectAnswer`, `Cancel`, `CloseSilently`, `Retry`, `Expire` | as in `NexusChannel`, with what each does to the transport and the recorded protocol |
| `ApplySecuritySettings` | `addChannel()` for a window that already has a channel |
| `PostHello` | `start()` and its retry interval |
| `ConfirmTimeout` | the confirmation deadline, and `failSecurity` whole |
| `HandleRequest` | with `negotiateSecurity`: attach now, schedule, or deny |
| `HandleAccept` | with `settleSecurity` and `abortSecurityUnavailable` |
| `HandleOpen` | with `refuseSecurityUnavailable` |
| `HandleHello`, `HandleConfirmed` | `route-encrypted-message.ts` into the transport |

`Attachments` gives the outcomes of `attachSecurityTransport`: no provider leaves an
earlier transport in place; a provider that throws (`"fault"`) does so after the
earlier one was dropped.

### Properties

* `StrictSealed`: a fail-closed channel is in session only over the protocol it
  selected, settings that were applied later included.  A session that answers a
  request negotiated before they came (`earlier`) is excepted: the code does not check
  it again (section 10).
* `TransportOwned`: a transport exists only in a session or while its ACCEPT awaits
  OPEN.  One left on an idle channel would make the plaintext guard drop the next
  plaintext session's messages.
* `SealedTogether`: when nothing is in flight and nothing waits, the two ends of
  one attempt run one protocol, each keyed to the other.  The premise includes that
  every transport has confirmed: before, the ends may differ, until a deadline.
* `NeverRekeyed`: a session keeps its transport, or stays without one.
* `Confirmable`: the two ends of one attempt can still confirm each other
  (violated, see finding 3 in section 10).

### Bounds and runs

`MaxPid` 2: two attempts, glare included, or an attempt and a cancel.  `MaxFrames` 3
withholds only retries and repeated hellos: a REQUEST retry may be behind an ACCEPT
and a hello.  The six pairs of settings (`Pairs`) cover agreement, one side that
requires what the other merely provides, both directions, a pair with nothing
in common, and a side that selects one protocol opposite one that has no settings yet
and may be given any.  Settings are not applied to a channel that `connect()` was called
on.  Materials are symmetric; the sides are not, the tie-break orders them.

| run | question |
|---|---|
| `secure_settles` | late settings, cancels, silent closes, expiries, failing providers, missed confirmations: do the properties above hold? |
| `secure_retry` | violated: see finding 3 in section 10 |

Deadlock is not checked, for the reason given in section 3.

## 6. `FrameWatch`, with `Heartbeat` and `Revival`

### State and actions

`Heartbeat` and `Revival` hold no variables: `Monitor` and `Policy` are the records
of the two closures, and each method and timer callback is a function on them, so
that `FrameWatch` and `HostShell` use the same translation.  `FrameWatch` is the rest of
what those closures need to be judged: a frame, the two pages' visibility, the
control messages on their way to the host, and a clock.

A unit of time is `BEAT_INTERVAL_MS`.  In each, a running frame beats once and a
running watchdog ticks once, in either order (`clock.due`); `Tick` starts the next
unit and runs the revival's clocks down.  `NothingOverdue` is what a browser promises:
messages are handled within the unit, a timer of a page in view is punctual, the poll
of `page-visibility.ts` notices a change within its interval of two units.  Of a hidden
page it promises nothing: any timer may be late, once the page has been hidden for
longer than its watch takes to notice.

| action | code |
|---|---|
| `Beats`, `FrameSettles` | the hostee's beat emitter; its visibility reporter |
| `Open`, `ConnectOpens`, `ConnectFails` | `open()`; the two ends' `open` events; `connect-timeout` |
| `Deliver` | the host's control handlers: a beat, a visibility report |
| `HostSettles` | the mount's own visibility watch, through `applyObservability` |
| `WatchTick` | the heartbeat's interval, with `applyUnresponsive` of the reopen policy |
| `GraceReopens`, `GraceGivesUp`, `GraceWaits`, `StabilityEnds` | the revival's timers |
| `HidePage`, `ShowPage`, `HideOwn`, `ShowOwn` | a user and a browser; a feature is a frame in the page or a window of its own |
| `Stall`, `Recover`, `Kill`, `Remove`, `Reload` | what becomes of the document |
| `Tick` | a unit passes |

### Properties

* `OneClock`: grace, stability window and held attempt exclude each other.
* `HealthyIsAlive`: no frame is called healthy that has been silent for longer than
  the miss budget, whatever was hidden meanwhile.
* `NoFalseVerdict`: a verdict never falls on a frame that has run in view for a whole
  interval, nor on silence from before the watch resumed.
* `LiveIsKept`: no reopen replaces a frame that has run in view for `KeptAfter` = 3
  units.  With 2 TLC finds a reopen: a frame that recovers just before its grace ends.
* `BudgetEarned`: the budget comes back only to a session that stayed for the whole
  stability window, or with a feature opened anew.
* `LostIsAnswered`: a lost frame is replaced or torn down within the poll, the miss
  budget and the grace of its episode, counted from its page's return to view.  It is
  said of a mount that had noticed the hiding and handled every report when the page
  returned (`~past.brief`).  Without that premise TLC finds the frame of section 10
  that is never answered.

`LostIsAnswered` is a deadline, so it is an invariant and needs no fairness: `Tick`
cannot happen while something of a page in view is overdue.  That is also why a
liveness property would say less here.

The histories in `past` are capped where the properties stop telling values apart.

### Bounds and run

`frame_watch` has `Grace` 2, `Backoff` 2, `Attempts` 2, so graces of 2, 4 and 8 units and
an exhausted budget, `Stable` 3 and every fate.  A page comes back to view when it
likes, noticed or not; `InFlight` 2 withholds its return only while the frame has more
than two messages under way, for each flicker adds a report to them and two are a
hiding reported and taken back.

## 7. `HostShell`

### State and actions

`shell` is the closure of `createShellHandle` with its current mount's channel, one
field for each variable; `feature` is the document in that mount and its request
peer; `answering` the host's request handlers that are still computing.  Each
function of the closure (`teardown`, `standDown`, `destroy`, `close`, `startUnmount`,
`releaseChannelAndCleanup`, `mountFeature`, `applyUnresponsive`) is an operator of its
name from record to record, and an event runs several of them in the code's order.

Both pages stay in view, for visibility is `FrameWatch`'s, and the revival's clocks may
fire whenever they are set, so nothing here rests on how long anything takes.  Plugins
may answer an unmount with a promise: then `unmounting` records what its end will do,
and anything may happen before `FinishUnmount`.  A channel is what `NexusChannel` lets
its subscribers see: `Status`.  In particular a channel whose attempt has failed stays
ready to answer, so a document may yet open it (`OnOpen`), and `NextDocument` says that
a frame without a session may load another document.

The handle emits its events synchronously, and a subscriber may call `open()`,
`close()` or `destroy()` from inside one.  Where the closure goes on after the event,
the action takes such a call (`c \in Inner`, made by `Within`) and goes on with what it
left: in `open` (the watchdog is started after it), in the `error` of a denial or of a
verdict and its callback (the teardown or the policy follows), in `close` (monitor and
release follow) and in `reopen` (the mount follows).  Everywhere else the event is the
last thing done, or what follows it reads nothing a call could have changed, so the
call is an action of its own right after.

| action | code |
|---|---|
| `OpenCall`, `CloseCall`, `DestroyCall`, `ConcealCall` | the handle's methods; `conceal()` of a callback policy, called late |
| `HostAsks`, `FeatureAnswers`, `HostTimesOut` | `request()` of the host and what settles it |
| `FeatureAsks`, `HostAnswers`, `FeatureTimesOut` | the same of the feature's peer |
| `OnOpen`, `Refused`, `TimesOut`, `OnClose`, `OnReload`, `OnBeat` | the subscriptions of `mountFeature`, with the call made from inside their event |
| `WatchTick`, `GraceFires`, `StabilityEnds` | the watchdog's and the revival's timers |
| `OrphanVerdict` | a watchdog that the `open` of an outgoing mount started, or of one replaced from inside that event, and nobody stops |
| `FinishUnmount` | the plugins' promises have settled |

### Properties

* `OpenIsActive`: `isOpen` is true exactly while the channel is in session.
* `NothingLeaks`: the only mount on the page is the one whose release is kept.
* `UnmountsAlone`: while plugins are going no other mount exists.
* `ConcealedIsSilent`: a frame that beats is never hidden.
* `AnswerComing`: while a session is open, each pending request of the host is with
  its document or queued for it; a reload leaves none behind.
* `StaysDown`: after `destroy()`, or a close with no open queued, nothing is mounted
  until the application opens.  One mount is excepted, the one a `reopen` event
  announces: a call made from inside that event is overruled by it, at once or when the
  plugins are done (`said.overruled`; section 10).
* `AnswersPair`: an answer settles the request that caused it (violated, finding 4).

They are safety properties only: whether a handshake completes or a plugin settles is
not this component's to promise, and a deadline of its own is `FrameWatch`'s
`LostIsAnswered`.

### Bounds and run

`host_shell` has two mounts (an overlap needs two, and a third adds none: `mountFeature`
releases the one before or waits for it), one reload, one request of the host and of
each document, every policy but `emit`, for which a callback that only listens
stands, one call from inside each event (a deeper one finds the closure where the
first left it), and mounts that succeed, are refused or throw.  `MaxMounts` withholds `open()`
and a queued open once it is reached, so deadlock is not checked.

| run | question |
|---|---|
| `host_shell` | do the six invariants and `StaysDown` hold? |
| `answers_pair` | violated: see finding 4 in section 10 |

## 8. What is proved

All theorems hold for every value of the constants that the named assumptions allow.

**`NexusChannel_proofs`** (`SidesAssumption`, two sides; the types of the other
constants; `BoundsAssumption` for the routing): `TypeCorrect`, `RolesStayExclusive`,
`SessionsCloseOnce`, `DeadlinesArmed`, `RequestsStayRoutable`, `AnswersStayRoutable`,
`OriginPinnedForLife`.

The first three follow from one inductive invariant,
`IInv == TypeOK /\ Sound /\ NoPageNoChannel`.  `Sound` adds to `Roles` and
`OneClose` that an open session for which no close was proposed has fired no
`closing`: without it the `closing` of a CLOSE handler could be a second one.
`NoPageNoChannel` (a window without a page has an unregistered, fresh channel) is
what lets `Boot` preserve the rest.  The proof goes helper by helper: each
life-cycle function is shown to keep a work record well typed and its channel
sound, under the condition its callers establish, and each action is then a
composition of those lemmas.

That an answer finds its channel is a fact about both pages and both wires at once: a
process id is minted by one side and answered by the other, and `RequestsRoutable` alone
is not inductive, for nothing in it says that an old CANCEL with the same id is not on
its way.  `Routed` says where an id may be, for both ends:

* `RequestKept`: the request in progress is tracked here alone, travels as a REQUEST
  only, and only an ACCEPT or a DENY of it travels back; `CloseKept` the same of a close
  and its CLOSE_ACK.
* `Refusable`, `OneWay`: a tracked id that is still requested or was refused is the
  request in progress, so the DENY that `handleDeny` takes by its process id alone ends
  no other attempt; and both sides never request one id.
* `AnswersKept` is `AnswersRoutable`, and `Minted` bounds every id in use by the next one.

`Moves` says what any handler or call may do to its page, in terms of what was there and
what had arrived; `MoveKeepsRouted` shows, one lemma per part and per end, that such a
move keeps `Routed`, and each action is then shown to be one, through a lemma for each
life-cycle function (`CloseMoves`, `AbortMoves`, `AbandonMoves`, ...) and for each kind of
step (a frame posted, a process forgotten, a request taken up).  Beside it each channel is
`Fit`: `Armed` is `DeadlineArmed`, and `Pins` (a request is scheduled or answered only
from the origin that is pinned) is why opening an answered session moves no pin.

**`NexusSession_proofs`** (the same assumptions): `MessagesInOrderOnce`,
`ChannelsImplementSession`, `ChannelsAreAgreed`, `PoliteSessionsAgree`.

Two more invariants stand beside `Routed`, each kept by the same few kinds of step (`StepKinds`).
`Order` is what `InOrderOnce` needs: what was delivered from an instance, then what of it is
in flight (`Ordered`), then what is queued (`Before`) increases, and nothing in flight or
delivered carries a number not yet given out (`Unsaid`) or an id not yet minted (`Known`).
A flush posts the queue in order and empties it; `send()` posts at once only while it is
empty; a reload starts a new instance, of which nothing is in flight.

`Consents` makes the abstract step of an opening possible: a channel whose peer, awaited
requester or scheduled requester is the document now loaded in the other window
(`MeansConsent`), and a handshake frame in flight from that document (`HearsConsent`), imply
that it called `connect()`; two windows never hold one id (`Distinct`).
`ChannelsAreAgreed` is what it says of a channel that is open.  Both theorems assume
`"destroy" \notin Env`, as the run does: `destroy()` resets `readyToConnect` while its
REQUEST or ACCEPT is in flight, and the counterpart that opens on it is then in session
with a page that no longer wants one, which `Session` has no step for.

`PoliteSessionsAgree` is `Agreement` where `Env` has no `reload`, `cancel`, `destroy`,
`silent` or `expire` (`Polite`), whatever the origins, the refusing sides, the retries, the
polite closes and reconnects, and the bounds; the environment of `nexus_close` is one of these.
At rest an open channel could face a closed one only if something was still to come, so
the invariant says what is, in terms of what is behind what in flight (`Trail`), for each end:

* `HalfOpen`: a session open on one side alone is `Opening` (its OPEN travels, finds
  its process, and nothing the responder sent before can undo it) or `Ending` (the
  CLOSE_ACK travels, ahead of any request that would open another).
* `LastWord`, `AskedLast`, `AcceptLast`: a request that is answered, or still travels, was
  asked last, and an ACCEPT for it is the last thing its responder said, refusals and
  repetitions aside.  This is why a session never opens on an attempt that was given up.
* `OpenBacked`, `CloseBacked`, `AckedIsClosed`, `CancelBacked`, `CloseOwned`: who sent the OPEN, CLOSE,
  CLOSE_ACK or CANCEL in flight is where that frame supposes it, and `NoneAsks`: two sides
  in session have no request on its way.

A step is one of eleven kinds (`Rests`, `Asks`, `Replies`, `TakesUp`, `Refuses`, `Confirms`,
`Settles`, `Proposes`, `Hears`, `Closes`, `Yields`); one lemma per kind shows that it
keeps all ten parts at both ends, from what it took and posted alone, and one per action
that it is of a kind.  `Pages` (two documents at most) turns "someone is in session" into
"with this page".  The hypothesis is no convenience: with retries TLC finds `Agreement` violated once
a page may reload, cancel or destroy its channel (finding 2 is the case of a reload), and an expired
deadline or a silent close leaves the other side alone by design.

**`Session_proofs`**: `SessionsAreAgreed`.  In `Session`, a page is in session
only when it called `connect()`, and with a document whose page called it too; `ChannelsAreAgreed`
says it of the protocol.

**`SecureHandshake_proofs`** (`PlaintextAssumption`, `KeyAssumption`,
`SettingsAssumption`: plaintext is no protocol, "no material" is no material, a
fail-closed channel selects a protocol; `MaxPidAssumption`, that the bounds are
numbers, which says nothing of their size): `TypeCorrect`, `StrictStaysSealed`,
`TransportsAreOwned`, `SessionsKeepTransport`, `EndsSealTogether`.

`StrictStaysSealed` covers settings that are applied later, with the exception
`StrictSealed` states: what a scheduled request negotiated before they came is
recorded as `earlier`, and `Sealed` binds every other request the side may answer.
`EndsSealTogether` assumes that none are (`"register" \notin Env`), for what a side may
settle for is then the same all along; with them `SealedTogether` is model-checked
(`secure_settles`).

The first four follow from `IInv == TypeOK /\ \A s \in Side : Sound(settings[s], chan[s])`.
`StrictSealed` alone is not inductive: an OPEN activates what was attached for an
ACCEPT long before.  `Sealed` therefore says that the protocol a fail-closed
channel has recorded, has scheduled or has a transport for while it awaits OPEN is
the one it selected.  `Settled` (a session has no timer and awaits nothing; a channel
nobody connected awaits nothing) is why an expiry or an OPEN cannot touch a session,
and why a transport is never attached before `connect()`.  The action property needs
no more: each step is shown to keep the invariant and, of a session that survives
it, the transport.

`EndsSealTogether` follows one attempt through the two channels and what flies between
them.  Nothing in a state says which side began it, so the invariant, `Linked(own)`, is
about some assignment `own` of the processes to the sides that minted them, and each step
extends the assignment by what it mints.  For each side:

* `Fits`: what its channel holds at once, and that only a side that may settle for the
  protocol the other asks (`Common`) keeps a transport from one answer to the next.
* `Directed`: it requests under its own processes and answers those of the other, and the
  requests on their way to it carry what the other asks.
* `Vouched`: while it asks, or runs, what the other answers, every confirmation the other
  has, keeps or will receive for its transport was sealed by this side's, keyed to it.
  This is why a late hello or confirmation of another attempt confirms nothing.
* `Heralded`: the OPEN of its sealed session is still ahead of the hello of its transport
  (`Ahead`), or has ended the process at the other end (`Passed`), where a plaintext session
  opened before anybody confirmed.  Without it a responder in plaintext could be
  quiet opposite a sealed initiator.

`Meant` says what a step that may open a session, answer or drop a transport makes of all
this, `Step` adds what it takes and mints, and `StepLinked` that it keeps the ends linked;
`Keyed` and `KeyedLinked` are the same for a hello and a confirmation.  The lemmas on the
operators show each action to be one of the two.  Keys matter through
`InUse` alone: a transport is minted with a material no channel and no frame holds.

**`SecureTransport_proofs`** (`EndsAssumption`, `MaterialAssumption`,
`LimitsAssumption`: two ends, a stray material that is neither's, at least one counter):
`TypeCorrect`, `CountersAreFresh`, `BothAreKeyed`, `OutcomeIsOne`, `DeliveryIsAPrefix`.

The invariant is `Shapes` (types, and that a queue runs one job or none) with, for
each end, what it owns (`Timed`, `Keyed`, `SealsFresh`, `OpensKnown`), what was posted to
it (`PostedFresh`) and what flies to it (`Flying`).  A confirmation is a frame that
opened, a frame that opens was posted by the counterpart, and a frame is posted only
by an end that is keyed: so both are keyed with each other.  A job in the cipher holds
the counter below `next`, and every frame posted is below that.  A step of an end is
proved as moves of its parts (`SealMoves`, `OpenMoves`, `TransportMoves`, `PeerMoves`), and
one lemma, `StepKeeps`, joins them; the other end is only seen to keep or to grow.

`PrefixDelivered` needs the whole pipeline, so `LInv` adds to that invariant two lines
for each end.  *Receives*: while the end can still open frames, those posted to it that it
has not passed stand in counter order in its job, its queue and on the wire, none missing
(`InLine`), and what it delivered is the messages of the frames it passed (`Heard`); a
frame that comes again stands outside the line and is judged stale (`Judges`).  *Sends*:
while the end can still seal, the messages in its job and queue follow, in the order they
were given, the last one posted (`Telling`); the numbers of the frames posted climb with
their counters (`Numbered`); once a seal is refused no later one succeeds (`Refuses`).
Both lines are stated with indices and `<`, never by recursion over a sequence, so no induction is needed.

**`Revival_proofs`** holds the lemmas on the operators of `Heartbeat` and `Revival` that
the next two share (`PolicyAssumption`; `GraceAssumption` and `BackoffAssumption`, that the
graces of an episode are numbers and none is shorter than the first: facts about powers of
a positive number, which no installed prover can show by induction).

**`FrameWatch_proofs`**: `TypeCorrect`, `OneClockAtATime`, `HealthIsBackedByABeat`,
`NoVerdictIsFalse`, `BudgetIsEarned`, `FramesInViewAreKept`, `LostFramesAreAnswered`, for
any policy and any set of fates.

The invariant relates what a closure counts to the history: `Budget` says that the
misses of the watchdog are no more than the units of silence and of sight, less the
tick still due; `Told` and `Watching` that the watchdog has been told what the mount
believes of both pages, and that a frame without a session has a stopped one;
`Measured` that a running stability window and the time since its session opened add
up to the whole window.  `Due` and `Heard` are what makes `Budget` inductive within a
unit, for beat and tick come in either order.

The last two theorems add who knows what (`FInv`).  `Reported`: what the mount believes of
its frame is the frame's last report, once those in flight are handled.  `Sighted`: of a
frame in a page in view it believes nothing stale but what its own visibility watch will
correct.  `Inspected`: a watchdog that cannot judge suspects nothing, one that suspects has
a grace running, and no grace is longer than its episode's.  `InView` follows a frame that
stays in view unit by unit: whoever has not noticed is late, then everybody has, then its
beat was heard; so `LiveIsKept` holds for every grace, even none.  `Answered` is a budget of
three parts that a lost frame spends in turn: one unit until the mount knows its page is in
view, the misses left until the verdict, what is left of the grace.  It holds unless the
page's last hiding was `brief`: a mount that knew of it clears the frame's report when
the page returns, and one that did not may be left with a report nobody takes back.

**`HostShell_proofs`** (`ShellAssumption`): `TypeCorrect`, `OpenIsTrue`, `NothingIsLeaked`,
`UnmountsStayAlone`, `ConcealedStaySilent`, `AnswersCanCome`, `DownStaysDown`.

`Sane` is a closure whatever function of it runs next: it adds to the properties that
a release is that of the last mount and that the options a watchdog, a channel and a
revival go by are there.  Each function keeps it and undoes nothing of what the
functions after it rely on (`Lesser`; `Mounted` for the one that mounts).  `Waiting` is `AnswerComing` for any status,
`Loaded` that whoever asks is a document, and `Wanted`, that a shell which would mount
again was last asked to, or was overruled, carries `StaysDown`.  `Later` says what a call
from inside an event leaves alone, so that the function which follows finds what it
needs (`WithinSane`).

**Model-checked only.**  `Agreement` among pages that reload, cancel or destroy their
channel and retry nothing (`nexus_quiet`); `PoliteSessionsAgree` covers pages that retry and do none of these.
Liveness (`Converges`, `Delivered`, `CloseCompletes`, `Confirms`, `Accounted`) is outside
the prover's reach and stays with TLC.

## 9. What is not modelled

* Of nexus: the plaintext guard (in `SecureHandshake` only frames it lets through are
  plaintext); security together with reloads, polite closes and contract gates;
  providers registered or removed while a handshake is in progress; calls on a handle
  kept after `destroy()`; origins pinned in the channel's settings before the first
  handshake; calls from inside a subscriber other than the two in section 3; settings
  applied to a channel `connect()` was already called on; more than two windows (a broker's channels share only the process table, whose ids are
  unique); the relative length of the handshake timers, which may expire at any time
  they are armed.
* Of cryptography: a frame that does not authenticate, or that was never sealed, is
  dropped; nothing is said about why it cannot be forged.
* Of features: the dirty flag and the guarded close, the DOM of the display modes,
  viewport and sizing, the dismiss options, `ready()`, the registration of request
  handlers, messages other than beats, reports, requests and answers; of the shell,
  calls from inside its `status` event, which a watchdog emits as it starts and stops,
  and from inside the plugins' hooks.  `FrameWatch` has
  one mount's frame and the reopen policy; `HostShell` has the others and no time.
* The rest of the repository: state-machine and web-worker are generic wrappers whose
  behaviour is their user's; builder, versioning, project-scope, linter, workspace,
  questions and the command line transform files and text one step after another; the
  apps use the libraries.  `PROJECT.json` gives the reason for each.

## 10. Findings

1. *An attempt that ends in silence* (`nexus_refused_glare`).  A side that denied
   a request and then calls `connect()` yields the glare to a retry of that very
   request.  `abandonRequest()` stops its own timers; the gate refuses again;
   `markDenyNotified` suppresses the second denial of that process.  Its
   `connect()` ends with no event.  `libs/nexus/ARCHITECTURE.md:331` says a denying
   side is never left waiting.
2. *A reload between REQUEST and OPEN* (`nexus_reload_replay`).  The old document
   of the responder left an ACCEPT in flight.  The requester's retry carries the
   same process id to the new document, which answers it; the requester opens on
   the old document's ACCEPT, and its OPEN opens the new document's session.  The
   requester keeps the old document's id as its peer and drops the new one's
   messages.  It needs a REQUEST retry, so `nexus_quiet`, which has none, holds.

3. *A retried REQUEST replaces the transport* (`secure_retry`).  A REQUEST sent again
   before its ACCEPT arrives reaches a responder that awaits OPEN; it negotiates
   anew and attaches a transport with new material
   (`broker/routing/handle-request.ts:110`).  The initiator was keyed by the hello of
   the first and ignores the second.  Both open; neither can confirm, and the
   deadline closes the session.  `libs/nexus/ARCHITECTURE.md:230` calls the three
   handshake messages idempotent under replay.

4. *An answer to a question nobody asked* (`answers_pair`).  A document's peer counts
   its correlation ids from 1, and a handler's answer goes out on the channel of the
   moment it is done (`shared/request.ts:152`).  The feature is opened again while the
   host's handler for its first request is still computing: the answer settles the
   first request of the new document, which may have asked something else.
   `shared/request.ts:73` says the correlation id pairs a response with the request
   that caused it.

Other behaviours worth a maintainer's look, without a run of their own:

* A side that selects no protocol, in a session its counterpart selected one for,
  closes silently and connects again: its REQUEST carries no security slot, so the
  replayed ACCEPT carries none (`broker/routing/handle-request.ts:216`).  It opens
  in plaintext, the counterpart still runs sealed, and neither hears the other.  When
  it does select one, it attaches a new transport that the counterpart's, already
  keyed, cannot confirm; the deadline closes it.
* A fail-closed refusal of OPEN fires `cancel`, then `deny`
  (`broker/routing/handle-open.ts:24`).
* CANCELs that cross fire `cancel` twice for one attempt (`types/events.ts:66`
  promises one).
* A retried REQUEST in flight when its responder cancels is answered at once:
  `readyToConnect` is never reset (`libs/nexus/README.md:209`).
* `destroy()` drops the processes its state names; the process of an answer that a
  newer request superseded keeps routing to the destroyed handle
  (`channel/lifecycle/destroy.ts:11`).  The model carries these as `orphans`.
* After an expiry or a reload both sides may answer a stale REQUEST of the other;
  both await an OPEN until a deadline ends the wait.
* A responder's deadline that expires while its ACCEPT is being confirmed leaves
  the initiator open alone.
* `destroy()` on a handle kept past an earlier `destroy()` unregisters whatever
  channel the window has been given since (`broker/channels/add.ts:82`).
* *Held for ever.*  A mount torn down by `connect-timeout` while its page is believed
  hidden stops its visibility watch (`host/lifecycle.ts:173`, `:447`), so the revival
  stays unobservable; the grace fires, the attempt is held, and nothing reports the
  page's return.  `host/README.md:68` says a held attempt runs when the page returns.
  `LostIsAnswered` is about a frame that was there and died, not about a reopen that
  never connected.
* A frame taken out on purpose after its verdict, during the grace, is brought back:
  `gone` is read only with the verdict (`host/lifecycle.ts:283`).
* The handlers of an outgoing mount stay live while its plugins unmount.  Its `deny`,
  `cancel` or `connect-timeout` clears the open queued behind it, though
  `host/types.ts:14` says the latest open call wins; its `open` starts a watchdog that
  nobody stops, whose verdict can destroy the next session (`OrphanVerdict`); its
  `close` stands down the new revival.
* `close()` while the channel is connecting does nothing to it, so the mount still
  opens (`channel/lifecycle/disconnect.ts:98`); nor does it clear a queued open.
* After a close `request()` is accepted until the channel is released
  (`shared/channel-wiring.ts:163`), and one made during a pending unmount waits for
  its timeout.
* A feature that reloads itself during the revival's grace is torn down while its new
  document connects.
* A frame that reports a hiding too brief for the host's own watch, and is killed
  before it can report its return, stays believed hidden, and its loss is never
  noticed: the host clears the report only on a change of its own visibility
  (`host/lifecycle.ts:385`).  The comment above that line means to exclude this;
  `LostIsAnswered` is stated for hidings the host knew of.
* *Reopened all the same.*  `destroy()` or `close()` called from inside `reopen` stands
  the revival down, and the mount that follows the event is made without a look at it
  (`host/lifecycle.ts:507`): the feature the application has just closed is mounted
  again.  `host/README.md:68` says the policy stands down when they are called.  `StaysDown`
  excepts this mount.
* `open()` from inside `close` makes a mount that the rest of the same handler takes
  off the page (`host/lifecycle.ts:435`), channel and revival left behind; from inside
  the `error` of a denial or of an `unmount` verdict it makes one that is destroyed
  right after (`host/lifecycle.ts:279`, `:410`).
* *Settings too late.*  `addChannel()` applies its settings to a channel that an inbound
  REQUEST has created, "fail-closed included" (`broker/channels/add.ts:61`), but the
  answer to that REQUEST was negotiated and scheduled without them, and `connect()`
  sends it unchecked (`channel/lifecycle/connect.ts:44`).  A fail-closed channel may so
  run over a protocol it does not select, or in plaintext, though `types/security.ts:431`
  says the handshake accepts no other encrypted outcome.  `StrictSealed` excepts that
  session.
