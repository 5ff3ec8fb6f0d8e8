---------------------------- MODULE HostShell_proofs ----------------------------
(***************************************************************************)
(* Theorems about HostShell, for any policies, any bounds on the mounts,   *)
(* reloads and requests, and any revival policy.                           *)
(*                                                                         *)
(* The closure is a record its functions transform, and an event runs      *)
(* several of them, so the proof has a lemma per function: it keeps the    *)
(* record sane, and undoes nothing of what the next function relies on.    *)
(***************************************************************************)
EXTENDS HostShell, Revival_proofs

-----------------------------------------------------------------------------
(* A sane closure, whatever function of it runs next.                      *)

\* No mount but the current one is on the page, and its release is kept.
Released(s) == /\ s.dom = {s.cleanup} \ {0}
               /\ s.cleanup \in {0, s.mounts}

\* What an unmount under way leaves to the next mount.
Alone(s) == s.unmounting # "no" => ~s.plugins /\ ~s.monitor

\* The options a watchdog, a channel and a revival go by.
Governed(s) == /\ s.status # "none" \/ s.watchdog.running => s.options \in Options
               /\ s.reviving => s.revived \in Options

Sane(s) == /\ s \in Shell
           /\ s.opened <=> Active(s)
           /\ Released(s)
           /\ Alone(s)
           /\ s.concealed => s.watchdog.state # "healthy"
           /\ Governed(s)
           /\ Single(s.revival)

\* The requests that wait for an answer, while a document answers those in W.
Ask(id) == [kind |-> "ask", id |-> id, doc |-> 0]
Waiting(s, W) ==
  s.status # "none" =>
    \A q \in s.asks : Ask(q[1]) \in s.queue \/ (Active(s) /\ q[1] \in W)

\* t is s after functions that mount nothing and ask for nothing.
Lesser(s, t) ==
  /\ t.mounts = s.mounts /\ t.options = s.options
  /\ t.channel \in {0, s.channel}
  /\ t.reviving => s.reviving /\ t.revived = s.revived
  /\ t.queuedOpen \in {NoOption, s.queuedOpen}
  /\ \/ t.status = "none" \/ t.asks = {}
     \/ /\ s.status # "none" /\ t.asks = s.asks /\ t.queue = s.queue
        /\ Active(t) <=> Active(s)

\* t is s after functions that may also have mounted.
Later(s, t) ==
  /\ s.mounts <= t.mounts
  /\ t.mounts = s.mounts => t.channel \in {0, s.channel} /\ t.options = s.options
  /\ t.mounts # s.mounts => t.channel \in {0, t.mounts}
  /\ \/ t.status = "none" \/ t.asks = {}
     \/ /\ t.mounts = s.mounts
        /\ s.status # "none" /\ t.asks = s.asks /\ t.queue = s.queue
        /\ Active(t) <=> Active(s)

LEMMA LesserSelf == ASSUME NEW s PROVE Lesser(s, s)
BY DEF Lesser

LEMMA LesserTwice ==
  ASSUME NEW r, NEW s, NEW t, Lesser(r, s), Lesser(s, t)
  PROVE  Lesser(r, t)
BY DEF Lesser

LEMMA LesserWaits ==
  ASSUME NEW s, NEW t, NEW W, Lesser(s, t), Waiting(s, W)
  PROVE  Waiting(t, W)
BY DEF Lesser, Waiting

LEMMA LesserLater ==
  ASSUME NEW s, NEW t, s \in Shell, Lesser(s, t)
  PROVE  Later(s, t)
<1>1. s.mounts \in Nat
  BY ShellAssumption DEF Shell
<1>2. QED
  BY <1>1 DEF Lesser, Later

LEMMA LaterTwice ==
  ASSUME NEW r, NEW s, NEW t, r \in Shell, s \in Shell, t \in Shell,
         Later(r, s), Later(s, t)
  PROVE  Later(r, t)
<1>1. r.mounts \in Nat /\ s.mounts \in Nat /\ t.mounts \in Nat
  BY ShellAssumption DEF Shell
<1>2. CASE s.mounts = r.mounts /\ t.mounts = s.mounts
  BY <1>2 DEF Later
<1>3. CASE s.mounts # r.mounts \/ t.mounts # s.mounts
  <2>1. r.mounts <= s.mounts /\ s.mounts <= t.mounts
    BY DEF Later
  <2>2. t.mounts # r.mounts /\ r.mounts <= t.mounts
    BY <1>1, <1>3, <2>1
  <2>3. t.channel \in {0, t.mounts}
    BY <1>3 DEF Later
  <2>4. t.status = "none" \/ t.asks = {}
    BY <1>3 DEF Later
  <2>5. QED
    BY <2>2, <2>3, <2>4 DEF Later
<1>4. QED
  BY <1>2, <1>3

LEMMA LaterWaits ==
  ASSUME NEW s, NEW t, NEW W, Later(s, t), Waiting(s, W)
  PROVE  Waiting(t, W)
BY DEF Later, Waiting

-----------------------------------------------------------------------------
(* Bounds.                                                                 *)

LEMMA Zero == 0 \in 0 .. MaxMounts
BY ShellAssumption

LEMMA NoOptionType == NoOption \notin Options /\ NoOption.plugins = FALSE
BY ShellAssumption DEF NoOption, Options

-----------------------------------------------------------------------------
(* The functions of the closure.                                           *)

LEMMA RunCleanupSane ==
  ASSUME NEW s, Sane(s)
  PROVE  Sane(RunCleanup(s)) /\ Lesser(s, RunCleanup(s)) /\ RunCleanup(s).cleanup = 0
<1> DEFINE t == RunCleanup(s)
<1>1. t = [s EXCEPT !.cleanup = 0, !.dom = @ \ {s.cleanup}]
  BY DEF RunCleanup
<1>2. t \in Shell
  BY <1>1, Zero DEF Sane, Shell
<1>3. /\ t.cleanup = 0 /\ t.dom = s.dom \ {s.cleanup}
      /\ t.opened = s.opened /\ t.status = s.status /\ t.mounts = s.mounts
      /\ t.unmounting = s.unmounting /\ t.plugins = s.plugins /\ t.monitor = s.monitor
      /\ t.concealed = s.concealed /\ t.watchdog = s.watchdog /\ t.options = s.options
      /\ t.reviving = s.reviving /\ t.revived = s.revived /\ t.channel = s.channel
      /\ t.queuedOpen = s.queuedOpen /\ t.asks = s.asks /\ t.queue = s.queue
      /\ t.revival = s.revival
  BY <1>1 DEF Sane, Shell
<1> HIDE DEF t
<1>4. Sane(t)
  BY <1>2, <1>3 DEF Sane, Active, Released, Alone, Governed
<1>5. Lesser(s, t)
  BY <1>3 DEF Lesser, Active
<1>6. QED
  BY <1>3, <1>4, <1>5 DEF t

LEMMA ReleaseSane ==
  ASSUME NEW s, Sane(s)
  PROVE  Sane(ReleaseChannelAndCleanup(s)) /\ Lesser(s, ReleaseChannelAndCleanup(s))
         /\ LET t == ReleaseChannelAndCleanup(s)
            IN  t.status = "none" /\ t.cleanup = 0 /\ t.channel = 0
                /\ t.unmounting = s.unmounting
                /\ t.asks = s.asks /\ t.queuedOpen = s.queuedOpen
<1> DEFINE t == ReleaseChannelAndCleanup(s)
<1>1. t = [s EXCEPT !.channel = 0, !.status = "none", !.opened = FALSE, !.queue = {},
                    !.cleanup = 0, !.dom = @ \ {s.cleanup}]
  BY DEF ReleaseChannelAndCleanup, RunCleanup, Sane, Shell
<1>2. t \in Shell
  <2> DEFINE r == [s EXCEPT !.channel = 0, !.status = "none", !.opened = FALSE, !.queue = {}]
  <2>1. "none" \in Status
    BY DEF Status
  <2>2. r \in Shell
    BY <2>1, Zero DEF Sane, Shell
  <2>3. t = [r EXCEPT !.cleanup = 0, !.dom = @ \ {s.cleanup}]
    BY <1>1 DEF Sane, Shell
  <2> HIDE DEF r
  <2>4. QED
    BY <2>2, <2>3, Zero DEF Shell
<1>3. /\ t.channel = 0 /\ t.status = "none" /\ ~t.opened /\ t.queue = {}
      /\ t.cleanup = 0 /\ t.dom = s.dom \ {s.cleanup}
      /\ t.mounts = s.mounts /\ t.unmounting = s.unmounting /\ t.plugins = s.plugins
      /\ t.monitor = s.monitor /\ t.concealed = s.concealed /\ t.watchdog = s.watchdog
      /\ t.options = s.options /\ t.reviving = s.reviving /\ t.revived = s.revived
      /\ t.queuedOpen = s.queuedOpen /\ t.asks = s.asks /\ t.orphans = s.orphans
      /\ t.revival = s.revival /\ t.asked = s.asked
  BY <1>1 DEF Sane, Shell
<1> HIDE DEF t
<1>4. Sane(t)
  BY <1>2, <1>3 DEF Sane, Active, Released, Alone, Governed
<1>5. Lesser(s, t)
  BY <1>3 DEF Lesser, Active
<1>6. QED
  BY <1>3, <1>4, <1>5 DEF t

LEMMA StartUnmountSane ==
  ASSUME NEW s, Sane(s), ~s.monitor, NEW finish \in {"release", "cleanup"}
  PROVE  Sane(StartUnmount(s, finish)) /\ Lesser(s, StartUnmount(s, finish))
         /\ StartUnmount(s, finish).unmounting = finish
<1> DEFINE t == StartUnmount(s, finish)
<1>1. t = [s EXCEPT !.plugins = FALSE, !.unmounting = finish]
  BY DEF StartUnmount, Sane, Shell
<1>2. t \in Shell
  BY <1>1 DEF Sane, Shell
<1>3. /\ ~t.plugins /\ t.unmounting = finish
      /\ t.opened = s.opened /\ t.status = s.status /\ t.mounts = s.mounts
      /\ t.cleanup = s.cleanup /\ t.dom = s.dom /\ t.monitor = s.monitor
      /\ t.concealed = s.concealed /\ t.watchdog = s.watchdog /\ t.options = s.options
      /\ t.reviving = s.reviving /\ t.revived = s.revived /\ t.channel = s.channel
      /\ t.queuedOpen = s.queuedOpen /\ t.asks = s.asks /\ t.queue = s.queue
      /\ t.orphans = s.orphans /\ t.revival = s.revival /\ t.asked = s.asked
  BY <1>1 DEF Sane, Shell
<1> HIDE DEF t
<1>4. Sane(t)
  BY <1>2, <1>3 DEF Sane, Active, Released, Alone, Governed
<1>5. Lesser(s, t)
  BY <1>3 DEF Lesser, Active
<1>6. QED
  BY <1>3, <1>4, <1>5 DEF t

LEMMA RejectAllSane ==
  ASSUME NEW s, Sane(s)
  PROVE  Sane(RejectAll(s)) /\ Lesser(s, RejectAll(s))
         /\ RejectAll(s).asks = {} /\ RejectAll(s).unmounting = s.unmounting
         /\ RejectAll(s).plugins = s.plugins /\ RejectAll(s).queuedOpen = s.queuedOpen
<1> DEFINE t == RejectAll(s)
<1>1. t = [s EXCEPT !.asks = {}]
  BY DEF RejectAll, Sane, Shell
<1>2. t \in Shell
  BY <1>1 DEF Sane, Shell
<1>3. /\ t.asks = {}
      /\ t.opened = s.opened /\ t.status = s.status /\ t.mounts = s.mounts
      /\ t.cleanup = s.cleanup /\ t.dom = s.dom /\ t.unmounting = s.unmounting
      /\ t.plugins = s.plugins /\ t.monitor = s.monitor /\ t.concealed = s.concealed
      /\ t.watchdog = s.watchdog /\ t.options = s.options /\ t.reviving = s.reviving
      /\ t.revived = s.revived /\ t.channel = s.channel /\ t.queuedOpen = s.queuedOpen
      /\ t.queue = s.queue /\ t.orphans = s.orphans /\ t.revival = s.revival
      /\ t.asked = s.asked
  BY <1>1 DEF Sane, Shell
<1> HIDE DEF t
<1>4. Sane(t)
  BY <1>2, <1>3 DEF Sane, Active, Released, Alone, Governed
<1>5. Lesser(s, t)
  BY <1>3 DEF Lesser, Active
<1>6. QED
  BY <1>3, <1>4, <1>5 DEF t

LEMMA StandDownSane ==
  ASSUME NEW s, Sane(s)
  PROVE  Sane(StandDown(s)) /\ Lesser(s, StandDown(s))
         /\ ~StandDown(s).reviving /\ StandDown(s).queuedOpen = s.queuedOpen
         /\ StandDown(s).status = s.status /\ StandDown(s).channel = s.channel
<1> DEFINE t == StandDown(s)
<1>1. t = [s EXCEPT !.reviving = FALSE, !.revived = NoOption, !.revival = NewRevival]
  BY DEF StandDown, Sane, Shell
<1>2. t \in Shell
  BY <1>1, NewRevivalType DEF Sane, Shell
<1>3. /\ ~t.reviving /\ t.revival = NewRevival
      /\ t.opened = s.opened /\ t.status = s.status /\ t.mounts = s.mounts
      /\ t.cleanup = s.cleanup /\ t.dom = s.dom /\ t.unmounting = s.unmounting
      /\ t.plugins = s.plugins /\ t.monitor = s.monitor /\ t.concealed = s.concealed
      /\ t.watchdog = s.watchdog /\ t.options = s.options /\ t.channel = s.channel
      /\ t.queuedOpen = s.queuedOpen /\ t.asks = s.asks /\ t.queue = s.queue
      /\ t.orphans = s.orphans /\ t.asked = s.asked
  BY <1>1 DEF Sane, Shell
<1> HIDE DEF t
<1>4. Sane(t)
  BY <1>2, <1>3, NewRevivalType DEF Sane, Active, Released, Alone, Governed
<1>5. Lesser(s, t)
  BY <1>3 DEF Lesser, Active
<1>6. QED
  BY <1>3, <1>4, <1>5 DEF t

LEMMA StopMonitorSane ==
  ASSUME NEW s, Sane(s)
  PROVE  /\ Sane(StopMonitor(s)) /\ Lesser(s, StopMonitor(s))
         /\ ~StopMonitor(s).monitor /\ StopMonitor(s).asks = s.asks
         /\ StopMonitor(s).plugins = s.plugins
         /\ StopMonitor(s).unmounting = s.unmounting
         /\ StopMonitor(s).queuedOpen = s.queuedOpen
         /\ StopMonitor(s).reviving = s.reviving
<1>1. CASE ~s.monitor
  <2>1. StopMonitor(s) = s
    BY <1>1 DEF StopMonitor
  <2>2. QED
    BY <1>1, <2>1, LesserSelf
<1>2. CASE s.monitor
  <2> DEFINE m == Stop(s.watchdog)
             t == StopMonitor(s)
  <2>1. m \in Monitor /\ m.state = "gone" /\ ~m.running
    BY StopType DEF Sane, Shell
  <2>2. t = [s EXCEPT !.monitor = FALSE, !.watchdog = m]
    BY <1>2 DEF StopMonitor, Sane, Shell
  <2> HIDE DEF m
  <2>3. t \in Shell
    BY <2>1, <2>2 DEF Sane, Shell
  <2>4. /\ ~t.monitor /\ t.watchdog = m
        /\ t.opened = s.opened /\ t.status = s.status /\ t.mounts = s.mounts
        /\ t.cleanup = s.cleanup /\ t.dom = s.dom /\ t.unmounting = s.unmounting
        /\ t.plugins = s.plugins /\ t.concealed = s.concealed /\ t.options = s.options
        /\ t.reviving = s.reviving /\ t.revived = s.revived /\ t.channel = s.channel
        /\ t.queuedOpen = s.queuedOpen /\ t.asks = s.asks /\ t.queue = s.queue
        /\ t.orphans = s.orphans /\ t.revival = s.revival /\ t.asked = s.asked
    BY <2>2 DEF Sane, Shell
  <2> HIDE DEF t
  <2>5. Sane(t)
    BY <2>1, <2>3, <2>4 DEF Sane, Active, Released, Alone, Governed
  <2>6. Lesser(s, t)
    BY <2>4 DEF Lesser, Active
  <2>7. QED
    BY <2>4, <2>5, <2>6 DEF t
<1>3. QED
  BY <1>1, <1>2

\* A mount torn down: its channel, watchdog and page are gone, or its plugins
\* are still going and the rest waits for them.
LEMMA TeardownSane ==
  ASSUME NEW s, Sane(s)
  PROVE  /\ Sane(Teardown(s)) /\ Lesser(s, Teardown(s))
         /\ Teardown(s).asks = {} /\ Teardown(s).queuedOpen = NoOption
         /\ Teardown(s).unmounting = "no" => /\ Teardown(s).status = "none"
                                             /\ Teardown(s).cleanup = 0
                                             /\ Teardown(s).channel = 0
<1> DEFINE r == RejectAll(s)
           t == [r EXCEPT !.queuedOpen = NoOption]
           u == StopMonitor(t)
<1>1. /\ Sane(r) /\ Lesser(s, r) /\ r.asks = {}
      /\ r.unmounting = s.unmounting /\ r.plugins = s.plugins
  BY RejectAllSane
<1> HIDE DEF r
<1>2. t \in Shell
  BY <1>1 DEF Sane, Shell
<1>3. /\ t.queuedOpen = NoOption
      /\ t.opened = r.opened /\ t.status = r.status /\ t.mounts = r.mounts
      /\ t.cleanup = r.cleanup /\ t.dom = r.dom /\ t.unmounting = r.unmounting
      /\ t.plugins = r.plugins /\ t.monitor = r.monitor /\ t.concealed = r.concealed
      /\ t.watchdog = r.watchdog /\ t.options = r.options /\ t.reviving = r.reviving
      /\ t.revived = r.revived /\ t.channel = r.channel /\ t.asks = r.asks
      /\ t.queue = r.queue /\ t.orphans = r.orphans /\ t.revival = r.revival
      /\ t.asked = r.asked
  BY <1>1 DEF Sane, Shell
<1> HIDE DEF t
<1>4. Sane(t)
  BY <1>1, <1>2, <1>3 DEF Sane, Active, Released, Alone, Governed
<1>5. Lesser(s, t)
  BY <1>1, <1>3 DEF Lesser, Active
<1>6. /\ Sane(u) /\ Lesser(t, u) /\ ~u.monitor /\ u.asks = {} /\ u.queuedOpen = NoOption
      /\ u.unmounting = t.unmounting
  BY <1>1, <1>3, <1>4, StopMonitorSane
<1> HIDE DEF u
<1>7. /\ Sane(StartUnmount(u, "release")) /\ Lesser(u, StartUnmount(u, "release"))
      /\ StartUnmount(u, "release").unmounting = "release"
      /\ StartUnmount(u, "release").asks = {}
      /\ StartUnmount(u, "release").queuedOpen = NoOption
  BY <1>6, StartUnmountSane DEF StartUnmount, Sane, Shell
<1>8. /\ Sane(ReleaseChannelAndCleanup(u)) /\ Lesser(u, ReleaseChannelAndCleanup(u))
      /\ ReleaseChannelAndCleanup(u).status = "none"
      /\ ReleaseChannelAndCleanup(u).cleanup = 0
      /\ ReleaseChannelAndCleanup(u).channel = 0
      /\ ReleaseChannelAndCleanup(u).asks = {}
      /\ ReleaseChannelAndCleanup(u).queuedOpen = NoOption
  BY <1>6, ReleaseSane
<1>9. CASE s.unmounting # "no"
  <2>1. Teardown(s) = t
    BY <1>9 DEF Teardown, r, t
  <2>2. QED
    BY <1>1, <1>3, <1>4, <1>5, <1>9, <2>1
<1>10. CASE s.unmounting = "no" /\ s.plugins
  <2>1. Teardown(s) = StartUnmount(u, "release")
    BY <1>10 DEF Teardown, r, t, u
  <2>2. QED
    BY <1>5, <1>6, <1>7, <2>1, LesserTwice
<1>11. CASE s.unmounting = "no" /\ ~s.plugins
  <2>1. Teardown(s) = ReleaseChannelAndCleanup(u)
    BY <1>11 DEF Teardown, r, t, u
  <2>2. QED
    BY <1>5, <1>6, <1>8, <2>1, LesserTwice
<1>12. QED
  BY <1>9, <1>10, <1>11

LEMMA DestroySane ==
  ASSUME NEW s, Sane(s)
  PROVE  /\ Sane(Destroy(s)) /\ Lesser(s, Destroy(s))
         /\ ~Destroy(s).reviving /\ Destroy(s).queuedOpen = NoOption
<1> DEFINE t == StandDown(s)
<1>1. Sane(t) /\ Lesser(s, t) /\ ~t.reviving
  BY StandDownSane
<1> HIDE DEF t
<1>2. Sane(Teardown(t)) /\ Lesser(t, Teardown(t)) /\ Teardown(t).queuedOpen = NoOption
  BY <1>1, TeardownSane
<1>3. ~Teardown(t).reviving
  BY <1>1, <1>2 DEF Lesser
<1>4. QED
  BY <1>1, <1>2, <1>3, LesserTwice DEF Destroy, t

LEMMA CloseSane ==
  ASSUME NEW s, Sane(s)
  PROVE  Sane(Close(s)) /\ Lesser(s, Close(s)) /\ ~Close(s).reviving
<1> DEFINE d == StandDown(s)
           t == [d EXCEPT !.status = "closing"]
<1>1. Sane(d) /\ Lesser(s, d) /\ ~d.reviving /\ d.status = s.status
  BY StandDownSane
<1> HIDE DEF d
<1>2. CASE Close(s) = RunCleanup(d)
  <2>1. Sane(RunCleanup(d)) /\ Lesser(d, RunCleanup(d))
    BY <1>1, RunCleanupSane
  <2>2. ~RunCleanup(d).reviving
    BY <1>1, <2>1 DEF Lesser
  <2>3. QED
    BY <1>1, <1>2, <2>1, <2>2, LesserTwice
<1>3. CASE Close(s) = d
  BY <1>1, <1>3
<1>4. CASE Close(s) = t /\ s.status = "open"
  <2>1. "closing" \in Status
    BY DEF Status
  <2>2. t \in Shell
    BY <1>1, <2>1 DEF Sane, Shell
  <2>3. /\ t.status = "closing"
        /\ t.opened = d.opened /\ t.mounts = d.mounts /\ t.cleanup = d.cleanup
        /\ t.dom = d.dom /\ t.unmounting = d.unmounting /\ t.plugins = d.plugins
        /\ t.monitor = d.monitor /\ t.concealed = d.concealed /\ t.watchdog = d.watchdog
        /\ t.options = d.options /\ t.reviving = d.reviving /\ t.revived = d.revived
        /\ t.channel = d.channel /\ t.queuedOpen = d.queuedOpen /\ t.asks = d.asks
        /\ t.queue = d.queue /\ t.orphans = d.orphans /\ t.revival = d.revival
        /\ t.asked = d.asked
    BY <1>1 DEF Sane, Shell
  <2> HIDE DEF t
  <2>4. Sane(t)
    BY <1>1, <1>4, <2>2, <2>3 DEF Sane, Active, Released, Alone, Governed
  <2>5. Lesser(d, t)
    BY <1>1, <1>4, <2>3 DEF Lesser, Active
  <2>6. QED
    BY <1>1, <1>4, <2>3, <2>4, <2>5, LesserTwice
<1>5. QED
  BY <1>2, <1>3, <1>4 DEF Close, d, t

\* What a mount comes to: the shell s, or another mount on the page.
Mounted(s, o, r) ==
  /\ r.status = "none" \/ r.asks = {}
  /\ r.queuedOpen \in {NoOption, o}
  /\ r.reviving => s.reviving /\ r.revived = s.revived
  /\ \/ r.mounts = s.mounts /\ r.channel \in {0, s.channel} /\ r.options = s.options
     \/ r.mounts = s.mounts + 1 /\ r.channel \in {0, r.mounts}

\* The page of the next mount, and its release.
NextPage(t) == [t EXCEPT !.mounts = t.mounts + 1, !.cleanup = t.mounts + 1,
                         !.dom = @ \cup {t.mounts + 1},
                         !.orphans = IF t.watchdog.running
                                     THEN @ \cup {t.options.policy} ELSE @,
                         !.watchdog = NewMonitor]

LEMMA NextPageSane ==
  ASSUME NEW t, Sane(t), t.mounts < MaxMounts,
         t.unmounting = "no", t.status = "none", t.cleanup = 0
  PROVE  LET u == NextPage(t)
         IN  /\ Sane(u) /\ u.mounts = t.mounts + 1 /\ u.asks = t.asks
             /\ u.channel = t.channel /\ u.queuedOpen = t.queuedOpen
             /\ u.reviving = t.reviving /\ u.revived = t.revived
             /\ u.unmounting = "no" /\ u.status = "none" /\ u.cleanup = u.mounts
<1> DEFINE n == t.mounts + 1
           d == t.dom \cup {n}
           w == IF t.watchdog.running THEN t.orphans \cup {t.options.policy} ELSE t.orphans
           u == NextPage(t)
<1>1. n \in 1 .. MaxMounts /\ n \in 0 .. MaxMounts
  BY ShellAssumption DEF Sane, Shell
<1>2. d = {n} \ {0} /\ d \in SUBSET (1 .. MaxMounts)
  BY <1>1 DEF Sane, Released
<1>3. w \in SUBSET Policies
  <2>1. t.watchdog.running => t.options.policy \in Policies
    BY DEF Sane, Governed, Options
  <2>2. t.orphans \in SUBSET Policies
    BY DEF Sane, Shell
  <2>3. QED
    BY <2>1, <2>2
<1>4. u = [t EXCEPT !.mounts = n, !.cleanup = n, !.dom = d, !.orphans = w,
                    !.watchdog = NewMonitor]
  BY DEF NextPage, Sane, Shell
<1> HIDE DEF n, d, w, u
<1>5. u \in Shell
  <2> DEFINE x == [t EXCEPT !.mounts = n, !.cleanup = n, !.dom = d]
  <2>1. x \in Shell
    BY <1>1, <1>2 DEF Sane, Shell
  <2>2. u = [x EXCEPT !.orphans = w, !.watchdog = NewMonitor]
    BY <1>4 DEF Sane, Shell
  <2> HIDE DEF x
  <2>3. QED
    BY <1>3, <2>1, <2>2, NewMonitorType DEF Shell
<1>6. /\ u.mounts = n /\ u.cleanup = n /\ u.dom = d /\ u.watchdog = NewMonitor
      /\ u.opened = t.opened /\ u.status = t.status /\ u.unmounting = t.unmounting
      /\ u.plugins = t.plugins /\ u.monitor = t.monitor /\ u.options = t.options
      /\ u.reviving = t.reviving /\ u.revived = t.revived /\ u.channel = t.channel
      /\ u.queuedOpen = t.queuedOpen /\ u.asks = t.asks /\ u.revival = t.revival
  BY <1>4 DEF Sane, Shell
<1>7. Sane(u)
  <2>1. NewMonitor.state = "gone" /\ ~NewMonitor.running
    BY DEF NewMonitor
  <2>2. QED
    BY <1>1, <1>2, <1>5, <1>6, <2>1 DEF Sane, Active, Released, Alone, Governed
<1>8. QED
  BY <1>6, <1>7 DEF u, n

\* The channel and the watchdog of a mount on the page.
Connected(u, o) == [u EXCEPT !.channel = u.mounts, !.status = "connecting",
                             !.plugins = o.plugins, !.options = o,
                             !.monitor = TRUE, !.concealed = FALSE]

LEMMA ConnectedSane ==
  ASSUME NEW u, Sane(u), u.unmounting = "no", u.status = "none", NEW o \in Options
  PROVE  LET v == Connected(u, o)
         IN  /\ Sane(v) /\ v.mounts = u.mounts /\ v.asks = u.asks
             /\ v.channel = v.mounts /\ v.queuedOpen = u.queuedOpen
             /\ v.reviving = u.reviving /\ v.revived = u.revived
<1> DEFINE v == Connected(u, o)
           x == [u EXCEPT !.channel = u.mounts, !.status = "connecting", !.monitor = TRUE]
<1>1. "connecting" \in Status /\ o.plugins \in BOOLEAN
  BY DEF Status, Options
<1>2. x \in Shell
  BY <1>1 DEF Sane, Shell
<1>3. v = [x EXCEPT !.plugins = o.plugins, !.options = o, !.concealed = FALSE]
  BY DEF Connected, Sane, Shell
<1>4. /\ v.channel = u.mounts /\ v.status = "connecting" /\ v.options = o /\ ~v.concealed
      /\ v.mounts = u.mounts /\ v.cleanup = u.cleanup /\ v.dom = u.dom
      /\ v.watchdog = u.watchdog /\ v.opened = u.opened /\ v.unmounting = u.unmounting
      /\ v.reviving = u.reviving /\ v.revived = u.revived
      /\ v.queuedOpen = u.queuedOpen /\ v.asks = u.asks /\ v.revival = u.revival
  BY DEF Connected, Sane, Shell
<1> HIDE DEF v, x
<1>5. v \in Shell
  BY <1>1, <1>2, <1>3 DEF Shell
<1>6. Sane(v)
  BY <1>4, <1>5 DEF Sane, Active, Released, Alone, Governed
<1>7. QED
  BY <1>4, <1>6 DEF v

LEMMA MountFeatureSane ==
  ASSUME NEW s, Sane(s), NEW o \in Options, NEW outcome \in Outcomes,
         s.mounts < MaxMounts \/ outcome = "throws"
  PROVE  Sane(MountFeature(s, o, outcome)) /\ Mounted(s, o, MountFeature(s, o, outcome))
<1> DEFINE t == Teardown(s)
           r == MountFeature(s, o, outcome)
           u == NextPage(t)
           v == Connected(u, o)
<1>1. /\ Sane(t) /\ Lesser(s, t) /\ t.asks = {} /\ t.queuedOpen = NoOption
      /\ t.unmounting = "no" => t.status = "none" /\ t.cleanup = 0 /\ t.channel = 0
  BY TeardownSane
<1>2. /\ t.mounts = s.mounts /\ t.options = s.options /\ t.channel \in {0, s.channel}
      /\ t.reviving => s.reviving /\ t.revived = s.revived
  BY <1>1 DEF Lesser
<1>3. /\ t.unmounting # "no" => r = [t EXCEPT !.queuedOpen = o]
      /\ t.unmounting = "no" /\ outcome = "throws" => r = t
      /\ t.unmounting = "no" /\ outcome = "refused" => r = StandDown(u)
      /\ t.unmounting = "no" /\ outcome = "mounted" => r = v
  <2>1. v = [u EXCEPT !.channel = t.mounts + 1, !.status = "connecting",
                      !.plugins = o.plugins, !.options = o,
                      !.monitor = TRUE, !.concealed = FALSE]
    BY <1>1 DEF Connected, NextPage, Sane, Shell
  <2>2. QED
    BY <2>1 DEF MountFeature, NextPage
<1> HIDE DEF t, r, u, v
<1>4. CASE t.unmounting # "no"
  <2>1. r = [t EXCEPT !.queuedOpen = o]
    BY <1>3, <1>4
  <2>2. r \in Shell
    BY <1>1, <2>1 DEF Sane, Shell
  <2>3. /\ r.queuedOpen = o
        /\ r.opened = t.opened /\ r.status = t.status /\ r.mounts = t.mounts
        /\ r.cleanup = t.cleanup /\ r.dom = t.dom /\ r.unmounting = t.unmounting
        /\ r.plugins = t.plugins /\ r.monitor = t.monitor /\ r.concealed = t.concealed
        /\ r.watchdog = t.watchdog /\ r.options = t.options /\ r.reviving = t.reviving
        /\ r.revived = t.revived /\ r.channel = t.channel /\ r.asks = t.asks
        /\ r.revival = t.revival
    BY <1>1, <2>1 DEF Sane, Shell
  <2>4. Sane(r)
    BY <1>1, <2>2, <2>3 DEF Sane, Active, Released, Alone, Governed
  <2>5. Mounted(s, o, r)
    BY <1>1, <1>2, <2>3 DEF Mounted
  <2>6. QED
    BY <2>4, <2>5 DEF r
<1>5. CASE t.unmounting = "no" /\ outcome = "throws"
  <2>1. r = t
    BY <1>3, <1>5
  <2>2. Mounted(s, o, t)
    BY <1>1, <1>2 DEF Mounted
  <2>3. QED
    BY <1>1, <2>1, <2>2 DEF r
<1>6. CASE t.unmounting = "no" /\ outcome # "throws"
  <2>1. /\ Sane(u) /\ u.mounts = t.mounts + 1 /\ u.asks = {}
        /\ u.channel = t.channel /\ u.queuedOpen = t.queuedOpen /\ u.reviving = t.reviving
        /\ Sane(v) /\ v.mounts = t.mounts + 1 /\ v.asks = {}
        /\ v.channel = v.mounts /\ v.queuedOpen = t.queuedOpen
        /\ v.reviving = t.reviving /\ v.revived = t.revived
    <3>1. t.mounts < MaxMounts
      BY <1>2, <1>6
    <3>2. QED
      BY <1>1, <1>6, <3>1, NextPageSane, ConnectedSane DEF u, v
  <2>2. CASE outcome = "mounted"
    <3>1. r = v
      BY <1>3, <1>6, <2>2
    <3>2. Mounted(s, o, v)
      BY <1>1, <1>2, <2>1 DEF Mounted
    <3>3. QED
      BY <2>1, <3>1, <3>2 DEF r
  <2>3. CASE outcome = "refused"
    <3>1. r = StandDown(u)
      BY <1>3, <1>6, <2>3
    <3>2. /\ Sane(r) /\ Lesser(u, r) /\ ~r.reviving /\ r.queuedOpen = u.queuedOpen
          /\ r.channel = u.channel
      BY <2>1, <3>1, StandDownSane
    <3>3. r.mounts = u.mounts /\ r.asks = {}
      BY <2>1, <3>1 DEF StandDown, Sane, Shell
    <3>4. Mounted(s, o, r)
      BY <1>1, <1>2, <1>6, <2>1, <3>2, <3>3 DEF Mounted
    <3>5. QED
      BY <3>2, <3>4 DEF r
  <2>4. QED
    BY <1>6, <2>2, <2>3 DEF Outcomes
<1>7. QED
  BY <1>4, <1>5, <1>6

LEMMA MountedLesser ==
  ASSUME NEW s, NEW o, NEW r, NEW q, Mounted(s, o, r), Lesser(r, q)
  PROVE  Mounted(s, o, q)
BY DEF Mounted, Lesser

LEMMA MountedLater ==
  ASSUME NEW s, NEW o, NEW r, s \in Shell, Mounted(s, o, r)
  PROVE  Later(s, r)
<1>1. s.mounts \in Nat
  BY ShellAssumption DEF Shell
<1>2. QED
  BY <1>1 DEF Mounted, Later

\* open(), wherever it is called from.
LEMMA OpenSane ==
  ASSUME NEW s, Sane(s), NEW o \in Options, NEW outcome \in Outcomes,
         s.mounts < MaxMounts \/ outcome = "throws"
  PROVE  Sane(Open(s, o, outcome)) /\ Later(s, Open(s, o, outcome))
<1> DEFINE d == StandDown(s)
           t == [d EXCEPT !.reviving = o.policy = "reopen",
                          !.revived = IF o.policy = "reopen" THEN o ELSE NoOption]
<1>1. Open(s, o, outcome) = MountFeature(t, o, outcome)
  BY DEF Open
<1>2. Sane(d) /\ Lesser(s, d)
  BY StandDownSane
<1>3. PICK b \in BOOLEAN, w \in Options \cup {NoOption} :
        /\ b = (o.policy = "reopen")
        /\ w = IF o.policy = "reopen" THEN o ELSE NoOption
  OBVIOUS
<1> HIDE DEF d
<1>4. t = [d EXCEPT !.reviving = b, !.revived = w]
  BY <1>3
<1> HIDE DEF t
<1>5. t \in Shell
  BY <1>2, <1>4 DEF Sane, Shell
<1>6. /\ t.reviving = b /\ t.revived = w
      /\ t.opened = d.opened /\ t.status = d.status /\ t.mounts = d.mounts
      /\ t.cleanup = d.cleanup /\ t.dom = d.dom /\ t.unmounting = d.unmounting
      /\ t.plugins = d.plugins /\ t.monitor = d.monitor /\ t.concealed = d.concealed
      /\ t.watchdog = d.watchdog /\ t.options = d.options /\ t.channel = d.channel
      /\ t.queuedOpen = d.queuedOpen /\ t.asks = d.asks /\ t.queue = d.queue
      /\ t.revival = d.revival
  BY <1>2, <1>4 DEF Sane, Shell
<1>7. Sane(t)
  BY <1>2, <1>3, <1>6, <1>5 DEF Sane, Active, Released, Alone, Governed
<1>8. Later(s, t)
  <2>1. Later(s, d)
    BY <1>2, LesserLater DEF Sane
  <2>2. QED
    BY <1>6, <2>1 DEF Later, Active
<1>9. t.mounts = s.mounts
  BY <1>2, <1>6 DEF Lesser
<1>10. Sane(MountFeature(t, o, outcome)) /\ Mounted(t, o, MountFeature(t, o, outcome))
  BY <1>7, <1>9, MountFeatureSane
<1>11. Later(t, MountFeature(t, o, outcome))
  BY <1>7, <1>10, MountedLater DEF Sane
<1>12. QED
  BY <1>1, <1>7, <1>8, <1>10, <1>11, LaterTwice DEF Sane

\* A call from inside an event: what it leaves is sane, and mounts only by open().
LEMMA WithinSane ==
  ASSUME NEW s, Sane(s), NEW c \in Inner, Bounded(s, c)
  PROVE  /\ Sane(Within(s, c)) /\ Later(s, Within(s, c))
         /\ c.call # "open" => Lesser(s, Within(s, c))
         /\ c.call \in {"close", "destroy"} => ~Within(s, c).reviving
         /\ c.call = "destroy" => Within(s, c).queuedOpen = NoOption
<1>1. CASE c.call = "none"
  <2>1. Within(s, c) = s
    BY <1>1 DEF Within
  <2>2. QED
    BY <1>1, <2>1, LesserSelf, LesserLater DEF Sane
<1>2. CASE c.call = "close"
  <2>1. Within(s, c) = Close(s)
    BY <1>2 DEF Within
  <2>2. QED
    BY <1>2, <2>1, CloseSane, LesserLater DEF Sane
<1>3. CASE c.call = "destroy"
  <2>1. Within(s, c) = Destroy(s)
    BY <1>3 DEF Within
  <2>2. QED
    BY <1>3, <2>1, DestroySane, LesserLater DEF Sane
<1>4. CASE c.call = "open"
  <2>1. Within(s, c) = Open(s, c.options, c.outcome)
    BY <1>4 DEF Within
  <2>2. /\ c.options \in Options /\ c.outcome \in Outcomes /\ s.mounts < MaxMounts
    BY <1>4 DEF Inner, Bounded, Outcomes
  <2>3. QED
    BY <1>4, <2>1, <2>2, OpenSane
<1>5. QED
  BY <1>1, <1>2, <1>3, <1>4 DEF Inner

LEMMA RevivalSane ==
  ASSUME NEW s, Sane(s), NEW q \in Policy, Single(q)
  PROVE  LET t == [s EXCEPT !.revival = q]
         IN  Sane(t) /\ Lesser(s, t) /\ t.reviving = s.reviving /\ t.revived = s.revived
<1> DEFINE t == [s EXCEPT !.revival = q]
<1>1. t \in Shell
  BY DEF Sane, Shell
<1>2. /\ t.revival = q
      /\ t.opened = s.opened /\ t.status = s.status /\ t.mounts = s.mounts
      /\ t.cleanup = s.cleanup /\ t.dom = s.dom /\ t.unmounting = s.unmounting
      /\ t.plugins = s.plugins /\ t.monitor = s.monitor /\ t.concealed = s.concealed
      /\ t.watchdog = s.watchdog /\ t.options = s.options /\ t.reviving = s.reviving
      /\ t.revived = s.revived /\ t.channel = s.channel
      /\ t.queuedOpen = s.queuedOpen /\ t.asks = s.asks /\ t.queue = s.queue
  BY DEF Sane, Shell
<1> HIDE DEF t
<1>3. Sane(t)
  BY <1>1, <1>2 DEF Sane, Active, Released, Alone, Governed
<1>4. Lesser(s, t)
  BY <1>2 DEF Lesser, Active
<1>5. QED
  BY <1>2, <1>3, <1>4 DEF t

\* A watchdog the handle lets run goes by the options of its mount, and a frame
\* it has heard is not hidden.
LEMMA WatchdogSane ==
  ASSUME NEW s, Sane(s), NEW m \in Monitor, NEW c \in BOOLEAN,
         m.running => s.watchdog.running,
         c => m.state # "healthy"
  PROVE  LET t == [s EXCEPT !.watchdog = m, !.concealed = c]
         IN  Sane(t) /\ Lesser(s, t)
<1> DEFINE t == [s EXCEPT !.watchdog = m, !.concealed = c]
<1>1. t \in Shell
  BY DEF Sane, Shell
<1>2. /\ t.watchdog = m /\ t.concealed = c
      /\ t.opened = s.opened /\ t.status = s.status /\ t.mounts = s.mounts
      /\ t.cleanup = s.cleanup /\ t.dom = s.dom /\ t.unmounting = s.unmounting
      /\ t.plugins = s.plugins /\ t.monitor = s.monitor
      /\ t.options = s.options /\ t.reviving = s.reviving
      /\ t.revived = s.revived /\ t.channel = s.channel /\ t.revival = s.revival
      /\ t.queuedOpen = s.queuedOpen /\ t.asks = s.asks /\ t.queue = s.queue
  BY DEF Sane, Shell
<1> HIDE DEF t
<1>3. Sane(t)
  BY <1>1, <1>2 DEF Sane, Active, Released, Alone, Governed
<1>4. Lesser(s, t)
  BY <1>2 DEF Lesser, Active
<1>5. QED
  BY <1>3, <1>4 DEF t

LEMMA ConcealSane ==
  ASSUME NEW s, Sane(s)
  PROVE  Sane(Conceal(s)) /\ Lesser(s, Conceal(s))
<1>1. s.watchdog \in Monitor /\ s.concealed \in BOOLEAN
  BY DEF Sane, Shell
<1>2. \E c \in BOOLEAN : c = (s.concealed \/ s.watchdog.state # "healthy")
  OBVIOUS
<1>3. PICK c \in BOOLEAN : c = (s.concealed \/ s.watchdog.state # "healthy")
  BY <1>2
<1>4. Conceal(s) = [s EXCEPT !.watchdog = s.watchdog, !.concealed = c]
  BY <1>3 DEF Conceal, Sane, Shell
<1>5. c => s.watchdog.state # "healthy"
  BY <1>3 DEF Sane
<1>6. s.watchdog.running => s.watchdog.running
  OBVIOUS
<1>7. LET t == [s EXCEPT !.watchdog = s.watchdog, !.concealed = c]
      IN  Sane(t) /\ Lesser(s, t)
  BY <1>1, <1>5, <1>6, WatchdogSane
<1>8. QED
  BY <1>4, <1>7

LEMMA ApplySane ==
  ASSUME NEW s, Sane(s), NEW policy, NEW gone
  PROVE  Sane(Apply(s, policy, gone)) /\ Lesser(s, Apply(s, policy, gone))
<1>1. Sane(Destroy(s)) /\ Lesser(s, Destroy(s))
  BY DestroySane
<1>2. LET t == [s EXCEPT !.revival = Schedule(s.revival)] IN Sane(t) /\ Lesser(s, t)
  <2>1. Schedule(s.revival) \in Policy /\ Single(Schedule(s.revival))
    BY ScheduleType DEF Sane, Shell
  <2>2. QED
    BY <2>1, RevivalSane
<1>3. Apply(s, policy, gone) \in {s, Destroy(s), [s EXCEPT !.revival = Schedule(s.revival)]}
  BY DEF Apply
<1>4. QED
  BY <1>1, <1>2, <1>3, LesserSelf

-----------------------------------------------------------------------------
(* The inductive invariant.                                                *)

FeatureType == [doc : 0 .. MaxMounts + MaxReloads, pending : SUBSET (1 .. MaxAsks),
                unsent : SUBSET (1 .. MaxAsks), asked : 0 .. MaxAsks,
                working : SUBSET (1 .. MaxAsks)]
Answer      == [id : 1 .. MaxAsks, doc : 1 .. MaxMounts + MaxReloads]
\* Only a close or a destroy is overruled.
SaidType    == {h \in [call : {"none", "open", "close", "destroy"}, overruled : BOOLEAN,
                       astray : SUBSET {"host", "feature"}] :
                  h.overruled => h.call # "open"}

\* Who speaks and who is asked is a document that was loaded.
Loaded == /\ feature.doc <= shell.mounts + MaxReloads
          /\ shell.channel # 0 => feature.doc >= 1
          /\ feature.unsent # {} => feature.doc >= 1

\* A shell that will mount again was last asked to, had an open to keep, or was
\* overruled by a reopen.
Wanted(s, h) == /\ s.reviving => h.call = "open"
                /\ s.queuedOpen # NoOption => h.call \in {"open", "close"} \/ h.overruled

IInv == /\ Sane(shell)
        /\ Waiting(shell, feature.working)
        /\ feature \in FeatureType /\ answering \in SUBSET Answer /\ said \in SaidType
        /\ Loaded
        /\ Wanted(shell, said)

LEMMA LesserKeeps ==
  ASSUME IInv, Sane(shell'), Lesser(shell, shell'), UNCHANGED <<feature, answering>>,
         said' \in SaidType, Wanted(shell', said')
  PROVE  IInv' /\ shell'.mounts = shell.mounts
<1>1. Waiting(shell', feature.working)
  BY LesserWaits DEF IInv
<1>2. Loaded'
  BY DEF IInv, Loaded, Lesser
<1>3. QED
  BY <1>1, <1>2 DEF IInv, Lesser

LEMMA QuietKeeps ==
  ASSUME IInv, Sane(shell'), Lesser(shell, shell'), UNCHANGED <<feature, answering, said>>
  PROVE  IInv' /\ shell'.mounts = shell.mounts
<1>1. Wanted(shell', said')
  BY DEF IInv, Wanted, Lesser
<1>2. QED
  BY <1>1, LesserKeeps DEF IInv

LEMMA NewDocumentType ==
  ASSUME NEW n \in 0 .. MaxMounts + MaxReloads
  PROVE  /\ NewDocument(n) \in FeatureType
         /\ NewDocument(n).doc = n /\ NewDocument(n).unsent = {}
BY ShellAssumption DEF NewDocument, FeatureType

LEMMA LaterKeeps ==
  ASSUME IInv, NEW s, s \in Shell, s.mounts = shell.mounts, s.channel = shell.channel,
         Sane(shell'), Later(s, shell'),
         NEW f \in FeatureType, f.doc = feature.doc, f.unsent # {} => f.doc >= 1,
         Waiting(s, f.working), feature' = Load(shell', f),
         answering' \in SUBSET Answer, said' \in SaidType, Wanted(shell', said')
  PROVE  IInv'
<1>1. /\ shell.mounts \in Nat /\ shell'.mounts \in Nat /\ shell'.mounts <= MaxMounts
      /\ feature.doc \in Nat /\ MaxMounts \in Nat /\ MaxReloads \in Nat
      /\ feature.doc <= shell.mounts + MaxReloads
  BY ShellAssumption DEF IInv, Sane, Shell, FeatureType, Loaded
<1>2. shell.mounts <= shell'.mounts
  BY DEF Later
<1>3. CASE shell'.mounts # shell.mounts /\ shell'.channel = shell'.mounts
  <2>1. feature' = NewDocument(f.doc + 1)
    BY <1>3 DEF Load
  <2>2. f.doc + 1 \in 0 .. MaxMounts + MaxReloads
    BY <1>1, <1>2, <1>3
  <2>3. /\ feature' \in FeatureType /\ feature'.doc = f.doc + 1
        /\ feature'.unsent = {}
    BY <2>1, <2>2, NewDocumentType
  <2>4. Loaded'
    BY <1>1, <1>2, <1>3, <2>3 DEF Loaded
  <2>5. Waiting(shell', feature'.working)
    BY <1>3 DEF Later, Waiting
  <2>6. QED
    BY <2>3, <2>4, <2>5 DEF IInv
<1>4. CASE ~(shell'.mounts # shell.mounts /\ shell'.channel = shell'.mounts)
  <2>1. feature' = f
    BY <1>4 DEF Load
  <2>2. shell'.channel \in {0, shell.channel}
    BY <1>4 DEF Later
  <2>3. Loaded'
    BY <1>1, <1>2, <2>1, <2>2 DEF Loaded, IInv
  <2>4. Waiting(shell', feature'.working)
    BY <2>1, LaterWaits
  <2>5. QED
    BY <2>1, <2>3, <2>4 DEF IInv
<1>5. QED
  BY <1>3, <1>4

\* The document's part of it, where the event says nothing to the document.
LEMMA LaterKeepsDocument ==
  ASSUME IInv, Sane(shell'), Later(shell, shell'), feature' = Load(shell', feature),
         UNCHANGED answering, said' \in SaidType, Wanted(shell', said')
  PROVE  IInv'
<1>1. /\ shell \in Shell /\ feature \in FeatureType
      /\ feature.unsent # {} => feature.doc >= 1
      /\ Waiting(shell, feature.working) /\ answering' \in SUBSET Answer
  BY DEF IInv, Sane, Loaded
<1>2. QED
  BY <1>1, LaterKeeps

\* What a call from inside an event says is wanted of what it leaves.
LEMMA WithinWanted ==
  ASSUME NEW s, Sane(s), NEW c \in Inner, Bounded(s, c),
         NEW h \in SaidType, Wanted(s, h)
  PROVE  /\ CalledWithin(h, c) \in SaidType
         /\ Wanted(Within(s, c), CalledWithin(h, c))
         /\ c.call # "none" => CalledWithin(h, c).call = c.call
<1> DEFINE w == Within(s, c)
<1>1. /\ c.call # "open" => Lesser(s, w)
      /\ c.call \in {"close", "destroy"} => ~w.reviving
      /\ c.call = "destroy" => w.queuedOpen = NoOption
  BY WithinSane
<1> HIDE DEF w
<1>2. CASE c.call = "none"
  <2>1. CalledWithin(h, c) = h
    BY <1>2 DEF CalledWithin
  <2>2. Wanted(w, h)
    BY <1>1, <1>2 DEF Wanted, Lesser
  <2>3. QED
    BY <1>2, <2>1, <2>2 DEF w
<1>3. CASE c.call # "none"
  <2>1. c.call \in {"open", "close", "destroy"}
    BY <1>3 DEF Inner
  <2>2. CalledWithin(h, c) = [h EXCEPT !.call = c.call, !.overruled = FALSE]
    BY <1>3 DEF CalledWithin, Called
  <2>3. CalledWithin(h, c) \in SaidType /\ CalledWithin(h, c).call = c.call
    BY <2>1, <2>2 DEF SaidType
  <2>4. Wanted(w, CalledWithin(h, c))
    BY <1>1, <2>1, <2>3 DEF Wanted
  <2>5. QED
    BY <2>3, <2>4 DEF w
<1>4. QED
  BY <1>2, <1>3

LEMMA WantedLesser ==
  ASSUME NEW s, NEW t, NEW h, Lesser(s, t), Wanted(s, h)
  PROVE  Wanted(t, h)
BY DEF Wanted, Lesser

-----------------------------------------------------------------------------
(* Calls of the application.                                               *)

LEMMA InitIInv == Init => IInv
<1> SUFFICES ASSUME Init PROVE IInv
  OBVIOUS
<1> DEFINE x == [shell EXCEPT !.watchdog = NewMonitor]
<1>1. /\ "none" \in Status /\ "no" \in {"no", "release", "cleanup"}
      /\ 0 \in 0 .. MaxMounts /\ 0 \in 0 .. MaxAsks /\ 0 \in 0 .. MaxMounts + MaxReloads
      /\ NewMonitor \in Monitor /\ NewRevival \in Policy
  BY ShellAssumption, NewMonitorType, NewRevivalType DEF Status
<1>2. shell = NewShell /\ feature = NewDocument(0) /\ answering = {}
      /\ said = [call |-> "none", overruled |-> FALSE, astray |-> {}]
  BY DEF Init
<1>3. shell \in Shell
  BY <1>1, <1>2 DEF NewShell, Shell
<1>4. /\ shell.channel = 0 /\ shell.status = "none" /\ ~shell.opened
      /\ shell.mounts = 0 /\ shell.cleanup = 0 /\ shell.dom = {} /\ shell.asks = {}
      /\ shell.unmounting = "no" /\ ~shell.concealed /\ ~shell.reviving
      /\ shell.queuedOpen = NoOption /\ shell.revival = NewRevival
      /\ shell.watchdog = NewMonitor
  BY <1>2 DEF NewShell
<1>5. Sane(shell)
  <2>1. ~NewMonitor.running
    BY DEF NewMonitor
  <2>2. QED
    BY <1>3, <1>4, <2>1, NewRevivalType DEF Sane, Active, Released, Alone, Governed
<1>6. Waiting(shell, feature.working)
  BY <1>4 DEF Waiting
<1>7. feature \in FeatureType /\ feature.doc = 0 /\ feature.unsent = {}
  BY <1>1, <1>2, NewDocumentType
<1>8. said \in SaidType
  BY <1>2 DEF SaidType
<1>9. Loaded
  BY <1>4, <1>7, ShellAssumption DEF Loaded
<1>10. Wanted(shell, said)
  BY <1>4 DEF Wanted
<1>11. QED
  BY <1>2, <1>5, <1>6, <1>7, <1>8, <1>9, <1>10 DEF IInv

\* What the history says after a call.
LEMMA CalledType ==
  ASSUME IInv, NEW call \in {"open", "close", "destroy"},
         said' = Called(said, call)
  PROVE  said' \in SaidType /\ said'.call = call
BY DEF IInv, SaidType, Called

LEMMA OpenCallKeeps ==
  ASSUME IInv, NEW o \in Options, NEW outcome \in Outcomes, OpenCall(o, outcome)
  PROVE  IInv'
<1>1. /\ shell' = Open(shell, o, outcome) /\ shell.mounts < MaxMounts
      /\ feature' = Load(shell', feature) /\ said' = Called(said, "open")
      /\ UNCHANGED answering
  BY DEF OpenCall
<1>2. Sane(shell') /\ Later(shell, shell')
  BY <1>1, OpenSane DEF IInv
<1>3. said' \in SaidType /\ said'.call = "open"
  BY <1>1, CalledType
<1>4. Wanted(shell', said')
  BY <1>3 DEF Wanted
<1>5. QED
  BY <1>1, <1>2, <1>3, <1>4, LaterKeepsDocument

LEMMA CloseCallKeeps ==
  ASSUME IInv, CloseCall
  PROVE  IInv' /\ shell'.mounts = shell.mounts
<1>1. Sane(shell') /\ Lesser(shell, shell') /\ ~shell'.reviving
  BY CloseSane DEF CloseCall, IInv
<1>2. said' \in SaidType /\ said'.call = "close"
  BY CalledType DEF CloseCall
<1>3. Wanted(shell', said')
  BY <1>1, <1>2 DEF Wanted
<1>4. QED
  BY <1>1, <1>2, <1>3, LesserKeeps DEF CloseCall

LEMMA DestroyCallKeeps ==
  ASSUME IInv, DestroyCall
  PROVE  IInv' /\ shell'.mounts = shell.mounts
<1>1. /\ Sane(shell') /\ Lesser(shell, shell')
      /\ ~shell'.reviving /\ shell'.queuedOpen = NoOption
  BY DestroySane DEF DestroyCall, IInv
<1>2. said' \in SaidType /\ said'.call = "destroy"
  BY CalledType DEF DestroyCall
<1>3. Wanted(shell', said')
  BY <1>1, <1>2 DEF Wanted
<1>4. QED
  BY <1>1, <1>2, <1>3, LesserKeeps DEF DestroyCall

LEMMA ConcealCallKeeps ==
  ASSUME IInv, ConcealCall
  PROVE  IInv' /\ shell'.mounts = shell.mounts
<1>1. Sane(shell') /\ Lesser(shell, shell')
  BY ConcealSane DEF ConcealCall, IInv
<1>2. QED
  BY <1>1, QuietKeeps DEF ConcealCall

-----------------------------------------------------------------------------
(* Requests.                                                               *)

\* A change of the host's requests and of its channel's queue alone.
Requested(s, n, a, q) == [s EXCEPT !.asked = n, !.asks = a, !.queue = q]

LEMMA RequestsSane ==
  ASSUME NEW s, Sane(s), NEW n \in 0 .. MaxAsks,
         NEW a \in SUBSET ((1 .. MaxAsks) \X (1 .. MaxMounts)), NEW q \in SUBSET Queued,
         NEW t, t = Requested(s, n, a, q)
  PROVE  /\ Sane(t) /\ t.status = s.status /\ t.asks = a /\ t.queue = q
         /\ t.mounts = s.mounts /\ t.channel = s.channel
         /\ t.reviving = s.reviving /\ t.queuedOpen = s.queuedOpen
<1>1. t \in Shell
  BY DEF Requested, Sane, Shell
<1>2. /\ t.asks = a /\ t.queue = q
      /\ t.opened = s.opened /\ t.status = s.status /\ t.mounts = s.mounts
      /\ t.cleanup = s.cleanup /\ t.dom = s.dom /\ t.unmounting = s.unmounting
      /\ t.plugins = s.plugins /\ t.monitor = s.monitor /\ t.concealed = s.concealed
      /\ t.watchdog = s.watchdog /\ t.options = s.options /\ t.reviving = s.reviving
      /\ t.revived = s.revived /\ t.channel = s.channel /\ t.revival = s.revival
      /\ t.queuedOpen = s.queuedOpen
  BY DEF Requested, Sane, Shell
<1>3. Sane(t)
  BY <1>1, <1>2 DEF Sane, Active, Released, Alone, Governed
<1>4. QED
  BY <1>2, <1>3

\* A step that leaves the mount, the calls and the document as they are.
LEMMA RequestsKeep ==
  ASSUME IInv, Sane(shell'), shell'.mounts = shell.mounts, shell'.channel = shell.channel,
         shell'.reviving = shell.reviving, shell'.queuedOpen = shell.queuedOpen,
         Waiting(shell', feature'.working),
         feature' \in FeatureType, feature'.doc = feature.doc,
         feature'.unsent # {} => feature.doc >= 1,
         answering' \in SUBSET Answer, said' \in SaidType,
         said'.call = said.call /\ said'.overruled = said.overruled
  PROVE  IInv' /\ shell'.mounts = shell.mounts
<1>1. Loaded'
  BY DEF IInv, Loaded
<1>2. Wanted(shell', said')
  BY DEF IInv, Wanted
<1>3. QED
  BY <1>1, <1>2 DEF IInv

LEMMA HostAsksKeeps ==
  ASSUME IInv, HostAsks
  PROVE  IInv' /\ shell'.mounts = shell.mounts
<1> DEFINE id == shell.asked + 1
           a  == shell.asks \cup {<<id, shell.channel>>}
           q  == shell.queue \cup {Ask(id)}
<1>1. /\ Sane(shell) /\ shell \in Shell /\ Waiting(shell, feature.working)
      /\ feature \in FeatureType
  BY DEF IInv, Sane
<1>2. shell.channel # 0 /\ shell.asked < MaxAsks /\ UNCHANGED <<answering, said>>
  BY DEF HostAsks
<1>3. id \in 1 .. MaxAsks /\ id \in 0 .. MaxAsks /\ shell.channel \in 1 .. MaxMounts
  BY <1>1, <1>2, ShellAssumption DEF Shell
<1>4. a \in SUBSET ((1 .. MaxAsks) \X (1 .. MaxMounts))
  BY <1>1, <1>3 DEF Shell
<1>5. q \in SUBSET Queued
  BY <1>1, <1>3 DEF Shell, Queued, Ask
<1>6. CASE shell.status = "open"
  <2>1. /\ shell' = Requested(shell, id, a, shell.queue)
        /\ feature' = [feature EXCEPT !.working = @ \cup {id}]
    BY <1>1, <1>6 DEF HostAsks, Requested, Shell
  <2> HIDE DEF id, a, q
  <2>2. shell.queue \in SUBSET Queued
    BY <1>1 DEF Shell
  <2>3. /\ Sane(shell') /\ shell'.status = shell.status /\ shell'.asks = a
        /\ shell'.queue = shell.queue
        /\ shell'.mounts = shell.mounts /\ shell'.channel = shell.channel
        /\ shell'.reviving = shell.reviving /\ shell'.queuedOpen = shell.queuedOpen
    BY <1>1, <1>3, <1>4, <2>1, <2>2, RequestsSane
  <2>4. /\ feature' \in FeatureType /\ feature'.doc = feature.doc
        /\ feature'.unsent = feature.unsent
        /\ feature'.working = feature.working \cup {id}
    BY <1>1, <1>3, <2>1 DEF FeatureType
  <2>5. Waiting(shell', feature'.working)
    BY <1>1, <1>6, <2>3, <2>4 DEF Waiting, Active, a
  <2>6. QED
    BY <1>2, <2>3, <2>4, <2>5, RequestsKeep DEF IInv, Loaded
<1>7. CASE shell.status # "open"
  <2>1. /\ shell' = Requested(shell, id, a, q)
        /\ feature' = feature
    BY <1>1, <1>7 DEF HostAsks, Requested, Shell, Ask
  <2> HIDE DEF id, a, q
  <2>2. /\ Sane(shell') /\ shell'.status = shell.status /\ shell'.asks = a
        /\ shell'.queue = q
        /\ shell'.mounts = shell.mounts /\ shell'.channel = shell.channel
        /\ shell'.reviving = shell.reviving /\ shell'.queuedOpen = shell.queuedOpen
    BY <1>1, <1>3, <1>4, <1>5, <2>1, RequestsSane
  <2>3. Waiting(shell', feature.working)
    BY <1>1, <2>2 DEF Waiting, Active, a, q
  <2>4. QED
    BY <1>1, <1>2, <2>1, <2>2, <2>3, RequestsKeep DEF IInv, Loaded
<1>8. QED
  BY <1>6, <1>7

LEMMA FewerAsks ==
  ASSUME IInv, NEW a \in SUBSET shell.asks, shell' = [shell EXCEPT !.asks = a]
  PROVE  /\ Sane(shell') /\ shell'.status = shell.status /\ shell'.asks = a
         /\ shell'.queue = shell.queue
         /\ shell'.mounts = shell.mounts /\ shell'.channel = shell.channel
         /\ shell'.reviving = shell.reviving /\ shell'.queuedOpen = shell.queuedOpen
<1>1. shell \in Shell /\ Sane(shell)
  BY DEF IInv, Sane
<1>2. shell' = Requested(shell, shell.asked, a, shell.queue)
  BY <1>1 DEF Requested, Shell
<1>3. /\ shell.asked \in 0 .. MaxAsks /\ shell.queue \in SUBSET Queued
      /\ a \in SUBSET ((1 .. MaxAsks) \X (1 .. MaxMounts))
  BY <1>1 DEF Shell
<1>4. QED
  BY <1>1, <1>2, <1>3, RequestsSane

LEMMA FeatureAnswersKeeps ==
  ASSUME IInv, FeatureAnswers
  PROVE  IInv' /\ shell'.mounts = shell.mounts
<1>1. PICK id \in feature.working :
        /\ feature' = [feature EXCEPT !.working = @ \ {id}]
        /\ shell' = [shell EXCEPT !.asks = {q \in shell.asks : q[1] # id}]
        /\ said' = [said EXCEPT !.astray =
             IF \E q \in shell.asks : q[1] = id /\ q[2] # shell.channel
             THEN @ \cup {"host"} ELSE @]
  BY DEF FeatureAnswers, IInv, Sane, Shell
<1>2. Active(shell) /\ UNCHANGED answering
  BY DEF FeatureAnswers
<1> DEFINE a == {q \in shell.asks : q[1] # id}
<1>3. a \in SUBSET shell.asks
  OBVIOUS
<1>4. /\ Sane(shell') /\ shell'.status = shell.status /\ shell'.asks = a
      /\ shell'.queue = shell.queue
      /\ shell'.mounts = shell.mounts /\ shell'.channel = shell.channel
      /\ shell'.reviving = shell.reviving /\ shell'.queuedOpen = shell.queuedOpen
  BY <1>1, <1>3, FewerAsks
<1>5. /\ feature' \in FeatureType /\ feature'.doc = feature.doc
      /\ feature'.unsent = feature.unsent
      /\ feature'.working = feature.working \ {id}
  BY <1>1 DEF IInv, FeatureType
<1>6. Waiting(shell', feature'.working)
  BY <1>2, <1>4, <1>5 DEF IInv, Waiting, Active
<1>7. said' \in SaidType /\ said'.call = said.call /\ said'.overruled = said.overruled
  BY <1>1 DEF IInv, SaidType
<1>8. QED
  BY <1>2, <1>4, <1>5, <1>6, <1>7, RequestsKeep DEF IInv, Loaded

LEMMA HostTimesOutKeeps ==
  ASSUME IInv, HostTimesOut
  PROVE  IInv' /\ shell'.mounts = shell.mounts
<1>1. PICK q \in shell.asks : shell' = [shell EXCEPT !.asks = shell.asks \ {q}]
  BY DEF HostTimesOut, IInv, Sane, Shell
<1>2. UNCHANGED <<feature, answering, said>>
  BY DEF HostTimesOut
<1>3. shell.asks \ {q} \in SUBSET shell.asks
  OBVIOUS
<1>4. /\ Sane(shell') /\ shell'.status = shell.status /\ shell'.asks = shell.asks \ {q}
      /\ shell'.queue = shell.queue
      /\ shell'.mounts = shell.mounts /\ shell'.channel = shell.channel
      /\ shell'.reviving = shell.reviving /\ shell'.queuedOpen = shell.queuedOpen
  BY <1>1, <1>3, FewerAsks
<1>5. Waiting(shell', feature.working)
  BY <1>4 DEF IInv, Waiting, Active
<1>6. QED
  BY <1>2, <1>4, <1>5, RequestsKeep DEF IInv, Loaded

LEMMA FeatureAsksKeeps ==
  ASSUME IInv, FeatureAsks
  PROVE  IInv' /\ shell'.mounts = shell.mounts
<1> DEFINE id == feature.asked + 1
           f  == [feature EXCEPT !.asked = id, !.pending = @ \cup {id}]
<1>1. /\ shell.channel # 0 /\ feature.asked < MaxAsks /\ UNCHANGED <<shell, said>>
      /\ \/ feature' = f /\ answering' = answering \cup {[id |-> id, doc |-> feature.doc]}
         \/ feature' = [f EXCEPT !.unsent = @ \cup {id}] /\ answering' = answering
  BY DEF FeatureAsks, Framed
<1>2. feature \in FeatureType /\ feature.doc >= 1 /\ answering \in SUBSET Answer
  BY <1>1 DEF IInv, Loaded
<1>3. id \in 1 .. MaxAsks /\ id \in 0 .. MaxAsks
  BY <1>1, <1>2, ShellAssumption DEF FeatureType
<1>4. feature.doc \in 1 .. MaxMounts + MaxReloads
  BY <1>2, ShellAssumption DEF FeatureType
<1> HIDE DEF id
<1>5. /\ f \in FeatureType /\ f.doc = feature.doc /\ f.working = feature.working
      /\ f.unsent = feature.unsent
  BY <1>2, <1>3 DEF FeatureType
<1> HIDE DEF f
<1>6. /\ feature' \in FeatureType /\ feature'.doc = feature.doc
      /\ feature'.working = feature.working
  BY <1>1, <1>3, <1>5 DEF FeatureType
<1>7. answering' \in SUBSET Answer
  <2>1. [id |-> id, doc |-> feature.doc] \in Answer
    BY <1>3, <1>4 DEF Answer
  <2>2. QED
    BY <1>1, <1>2, <2>1
<1>8. QED
  BY <1>1, <1>2, <1>6, <1>7, RequestsKeep DEF IInv

LEMMA FeatureTimesOutKeeps ==
  ASSUME IInv, FeatureTimesOut
  PROVE  IInv' /\ shell'.mounts = shell.mounts
<1>1. PICK id \in feature.pending : feature' = [feature EXCEPT !.pending = @ \ {id}]
  BY DEF FeatureTimesOut
<1>2. /\ feature' \in FeatureType /\ feature'.doc = feature.doc
      /\ feature'.working = feature.working /\ feature'.unsent = feature.unsent
  BY <1>1 DEF IInv, FeatureType
<1>3. QED
  BY <1>2, RequestsKeep DEF FeatureTimesOut, IInv, Loaded

LEMMA SettledType ==
  ASSUME NEW f \in FeatureType, NEW ids
  PROVE  /\ Settled(f, ids) \in FeatureType /\ Settled(f, ids).doc = f.doc
         /\ Settled(f, ids).working = f.working /\ Settled(f, ids).unsent = f.unsent
<1> DEFINE p == f.pending \ ids
<1>1. p \in SUBSET (1 .. MaxAsks)
  BY DEF FeatureType
<1>2. Settled(f, ids) = [f EXCEPT !.pending = p]
  BY DEF Settled, FeatureType
<1> HIDE DEF p
<1>3. QED
  BY <1>1, <1>2 DEF FeatureType

LEMMA AstrayType ==
  ASSUME said \in SaidType, NEW f, NEW answers
  PROVE  /\ Astray(f, answers) \in SaidType /\ Astray(f, answers).call = said.call
         /\ Astray(f, answers).overruled = said.overruled
BY DEF Astray, SaidType

LEMMA HostAnswersKeeps ==
  ASSUME IInv, HostAnswers
  PROVE  IInv' /\ shell'.mounts = shell.mounts
<1>1. PICK w \in answering :
        /\ answering' = answering \ {w}
        /\ \/ /\ feature' = Settled(feature, {w.id})
              /\ said' = Astray(feature, {w})
              /\ UNCHANGED shell
           \/ /\ shell.status # "open"
              /\ shell' = [shell EXCEPT !.queue =
                   @ \cup {[kind |-> "answer", id |-> w.id, doc |-> w.doc]}]
              /\ UNCHANGED <<feature, said>>
           \/ UNCHANGED <<shell, feature, said>>
  BY DEF HostAnswers
<1>2. /\ answering' \in SUBSET Answer /\ w \in Answer
      /\ shell \in Shell /\ Sane(shell) /\ Waiting(shell, feature.working)
      /\ feature \in FeatureType /\ said \in SaidType
  BY <1>1 DEF IInv, Sane
<1>3. feature.unsent # {} => feature.doc >= 1
  BY DEF IInv, Loaded
<1>4. CASE feature' = Settled(feature, {w.id}) /\ said' = Astray(feature, {w})
           /\ UNCHANGED shell
  <2>1. /\ feature' \in FeatureType /\ feature'.doc = feature.doc
        /\ feature'.working = feature.working /\ feature'.unsent = feature.unsent
    BY <1>2, <1>4, SettledType
  <2>2. /\ said' \in SaidType /\ said'.call = said.call
        /\ said'.overruled = said.overruled
    BY <1>2, <1>4, AstrayType
  <2>3. QED
    BY <1>2, <1>3, <1>4, <2>1, <2>2, RequestsKeep
<1>5. CASE /\ shell' = [shell EXCEPT !.queue =
                @ \cup {[kind |-> "answer", id |-> w.id, doc |-> w.doc]}]
           /\ UNCHANGED <<feature, said>>
  <2> DEFINE q == shell.queue \cup {[kind |-> "answer", id |-> w.id, doc |-> w.doc]}
  <2>1. q \in SUBSET Queued
    BY <1>2 DEF Shell, Queued, Answer
  <2>2. shell' = Requested(shell, shell.asked, shell.asks, q)
    BY <1>2, <1>5 DEF Requested, Shell
  <2>3. shell.queue \subseteq q
    OBVIOUS
  <2> HIDE DEF q
  <2>4. /\ shell.asked \in 0 .. MaxAsks
        /\ shell.asks \in SUBSET ((1 .. MaxAsks) \X (1 .. MaxMounts))
    BY <1>2 DEF Shell
  <2>5. /\ Sane(shell') /\ shell'.status = shell.status /\ shell'.asks = shell.asks
        /\ shell'.queue = q
        /\ shell'.mounts = shell.mounts /\ shell'.channel = shell.channel
        /\ shell'.reviving = shell.reviving /\ shell'.queuedOpen = shell.queuedOpen
    BY <1>2, <2>1, <2>2, <2>4, RequestsSane
  <2>6. Waiting(shell', feature.working)
    BY <1>2, <2>3, <2>5 DEF Waiting, Active
  <2>7. QED
    BY <1>2, <1>3, <1>5, <2>5, <2>6, RequestsKeep
<1>6. CASE UNCHANGED <<shell, feature, said>>
  BY <1>2, <1>3, <1>6, RequestsKeep
<1>7. QED
  BY <1>1, <1>4, <1>5, <1>6

-----------------------------------------------------------------------------
(* Events of the channel.                                                  *)

\* A session that begins, before its watchdog does.
Begun(s, q) == [s EXCEPT !.status = "open", !.opened = TRUE, !.queue = {}, !.revival = q]

LEMMA OpenedSane ==
  ASSUME NEW s, Sane(s), s.status \in {"connecting", "failed"},
         NEW q \in Policy, Single(q), NEW t, t = Begun(s, q)
  PROVE  /\ Sane(t) /\ t.status = "open" /\ t.asks = s.asks
         /\ t.mounts = s.mounts /\ t.channel = s.channel /\ t.options = s.options
         /\ t.reviving = s.reviving /\ t.queuedOpen = s.queuedOpen
<1>1. "open" \in Status
  BY DEF Status
<1>2. t \in Shell
  BY <1>1 DEF Begun, Sane, Shell
<1>3. /\ t.status = "open" /\ t.opened /\ t.revival = q
      /\ t.mounts = s.mounts /\ t.cleanup = s.cleanup /\ t.dom = s.dom
      /\ t.unmounting = s.unmounting /\ t.plugins = s.plugins /\ t.monitor = s.monitor
      /\ t.concealed = s.concealed /\ t.watchdog = s.watchdog /\ t.options = s.options
      /\ t.reviving = s.reviving /\ t.revived = s.revived /\ t.channel = s.channel
      /\ t.queuedOpen = s.queuedOpen /\ t.asks = s.asks
  BY DEF Begun, Sane, Shell
<1>4. Sane(t)
  BY <1>2, <1>3 DEF Sane, Active, Released, Alone, Governed
<1>5. QED
  BY <1>3, <1>4

\* The watchdog of the mount that opened starts, shown again.
LEMMA WatchedSane ==
  ASSUME NEW s, Sane(s), s.options \in Options, NEW m \in Monitor
  PROVE  LET t == [s EXCEPT !.watchdog = m, !.concealed = FALSE]
         IN  Sane(t) /\ Lesser(s, t)
<1> DEFINE t == [s EXCEPT !.watchdog = m, !.concealed = FALSE]
<1>1. t \in Shell
  BY DEF Sane, Shell
<1>2. /\ t.watchdog = m /\ ~t.concealed
      /\ t.opened = s.opened /\ t.status = s.status /\ t.mounts = s.mounts
      /\ t.cleanup = s.cleanup /\ t.dom = s.dom /\ t.unmounting = s.unmounting
      /\ t.plugins = s.plugins /\ t.monitor = s.monitor
      /\ t.options = s.options /\ t.reviving = s.reviving
      /\ t.revived = s.revived /\ t.channel = s.channel /\ t.revival = s.revival
      /\ t.queuedOpen = s.queuedOpen /\ t.asks = s.asks /\ t.queue = s.queue
  BY DEF Sane, Shell
<1> HIDE DEF t
<1>3. Sane(t)
  BY <1>1, <1>2 DEF Sane, Active, Released, Alone, Governed
<1>4. Lesser(s, t)
  BY <1>2 DEF Lesser, Active
<1>5. QED
  BY <1>3, <1>4 DEF t

LEMMA OrphansSane ==
  ASSUME NEW s, Sane(s), NEW w \in SUBSET Policies
  PROVE  LET t == [s EXCEPT !.orphans = w] IN Sane(t) /\ Lesser(s, t)
<1> DEFINE t == [s EXCEPT !.orphans = w]
<1>1. t \in Shell
  BY DEF Sane, Shell
<1>2. /\ t.opened = s.opened /\ t.status = s.status /\ t.mounts = s.mounts
      /\ t.cleanup = s.cleanup /\ t.dom = s.dom
      /\ t.unmounting = s.unmounting /\ t.plugins = s.plugins
      /\ t.monitor = s.monitor /\ t.concealed = s.concealed
      /\ t.watchdog = s.watchdog /\ t.options = s.options
      /\ t.reviving = s.reviving /\ t.revived = s.revived
      /\ t.channel = s.channel /\ t.queuedOpen = s.queuedOpen
      /\ t.asks = s.asks /\ t.queue = s.queue /\ t.revival = s.revival
  BY DEF Sane, Shell
<1> HIDE DEF t
<1>3. Sane(t)
  BY <1>1, <1>2 DEF Sane, Active, Released, Alone, Governed
<1>4. Lesser(s, t)
  BY <1>2 DEF Lesser, Active
<1>5. QED
  BY <1>3, <1>4 DEF t

LEMMA OnOpenKeeps ==
  ASSUME IInv, NEW c \in Inner, OnOpen(c)
  PROVE  IInv' /\ (shell'.mounts = shell.mounts \/ said'.call = "open")
<1> DEFINE asked    == {q.id : q \in {x \in shell.queue : x.kind = "ask"}}
           answered == {q \in shell.queue : q.kind = "answer"}
           f == [feature EXCEPT !.working = @ \cup asked, !.unsent = {}]
           g == Settled(f, {q.id : q \in answered})
           h == Astray(f, answered)
           r == IF shell.reviving THEN Opened(shell.revival) ELSE shell.revival
           s == [shell EXCEPT !.status = "open", !.opened = TRUE, !.queue = {},
                              !.revival = r]
           t == Within(s, c)
           m == Start(t.watchdog)
<1>1. /\ shell \in Shell /\ Sane(shell) /\ Waiting(shell, feature.working)
      /\ feature \in FeatureType /\ said \in SaidType /\ answering \in SUBSET Answer
      /\ shell.revival \in Policy /\ Single(shell.revival) /\ Wanted(shell, said)
  BY DEF IInv, Sane, Shell
<1>2. /\ shell.status \in {"connecting", "failed"} /\ Bounded(shell, c)
      /\ feature' = Load(shell', g)
      /\ said' = CalledWithin(h, c)
      /\ answering' = answering \cup {[id |-> i, doc |-> feature.doc] : i \in feature.unsent}
      /\ shell' = IF t.mounts = s.mounts
                  THEN [t EXCEPT !.watchdog = m, !.concealed = FALSE]
                  ELSE [t EXCEPT !.orphans = @ \cup {s.options.policy}]
  <2>1. s = [shell EXCEPT !.status = "open", !.opened = TRUE, !.queue = {},
                          !.revival = IF shell.reviving THEN Opened(@) ELSE @]
    BY <1>1 DEF Shell
  <2>2. [t EXCEPT !.watchdog = m, !.concealed = FALSE]
          = [t EXCEPT !.watchdog = Start(@), !.concealed = FALSE]
    OBVIOUS
  <2> HIDE DEF s, m
  <2>3. QED
    BY <2>1, <2>2 DEF OnOpen
<1>3. r \in Policy /\ Single(r)
  BY <1>1, OpenedType
<1> HIDE DEF r
<1>4. /\ Sane(s) /\ s.status = "open" /\ s.asks = shell.asks
      /\ s.mounts = shell.mounts /\ s.channel = shell.channel
      /\ s.options = shell.options
      /\ s.reviving = shell.reviving /\ s.queuedOpen = shell.queuedOpen
  <2>1. s = Begun(shell, r)
    BY DEF Begun
  <2> HIDE DEF s
  <2>2. QED
    BY <1>1, <1>2, <1>3, <2>1, OpenedSane
<1> HIDE DEF s
<1>5. Bounded(s, c) /\ s.options \in Options
  BY <1>2, <1>4 DEF Bounded, Sane, Governed
<1>6. Sane(t) /\ Later(s, t) /\ (c.call # "open" => Lesser(s, t))
  BY <1>4, <1>5, WithinSane
<1>7. h \in SaidType /\ h.call = said.call /\ h.overruled = said.overruled
  BY <1>1, AstrayType
<1> HIDE DEF h
<1>8. Wanted(s, h)
  BY <1>1, <1>4, <1>7 DEF Wanted
<1>9. /\ said' \in SaidType /\ Wanted(t, said')
      /\ c.call # "none" => said'.call = c.call
  BY <1>2, <1>4, <1>5, <1>7, <1>8, WithinWanted
<1> HIDE DEF t
<1>10. Sane(shell') /\ Lesser(t, shell')
  <2>1. CASE t.mounts = s.mounts
    <3>1. m \in Monitor
      <4>1. t.watchdog \in Monitor
        BY <1>6 DEF Sane, Shell
      <4>2. CASE t.watchdog.running
        BY <4>1, <4>2 DEF Start
      <4>3. CASE ~t.watchdog.running
        BY <4>1, <4>3, StartType
      <4>4. QED
        BY <4>2, <4>3
    <3> HIDE DEF m
    <3>2. t.options \in Options
      BY <1>5, <1>6, <2>1 DEF Later
    <3>3. QED
      BY <1>2, <1>6, <2>1, <3>1, <3>2, WatchedSane
  <2>2. CASE t.mounts # s.mounts
    <3> DEFINE w == t.orphans \cup {s.options.policy}
    <3>1. w \in SUBSET Policies
      BY <1>5, <1>6 DEF Options, Sane, Shell
    <3>2. shell' = [t EXCEPT !.orphans = w]
      BY <1>2, <1>6, <2>2 DEF Sane, Shell
    <3> HIDE DEF w
    <3>3. QED
      BY <1>6, <3>1, <3>2, OrphansSane
  <2>3. QED
    BY <2>1, <2>2
<1>11. Later(s, shell')
  BY <1>4, <1>6, <1>10, LesserLater, LaterTwice DEF Sane
<1>12. Wanted(shell', said')
  BY <1>9, <1>10, WantedLesser
<1>13. asked \in SUBSET (1 .. MaxAsks)
  BY <1>1 DEF Shell, Queued
<1>14. \A id : Ask(id) \in shell.queue => id \in asked
  BY DEF Ask
<1> HIDE DEF asked
<1>15. /\ f \in FeatureType /\ f.doc = feature.doc /\ f.unsent = {}
       /\ f.working = feature.working \cup asked
  BY <1>1, <1>13 DEF FeatureType
<1> HIDE DEF f, answered
<1>16. /\ g \in FeatureType /\ g.doc = feature.doc /\ g.unsent = {}
       /\ g.working = feature.working \cup asked
  BY <1>15, SettledType
<1> HIDE DEF g
<1>17. Waiting(s, g.working)
  BY <1>1, <1>2, <1>4, <1>14, <1>16 DEF Waiting, Active
<1>18. answering' \in SUBSET Answer
  <2>1. ASSUME NEW i \in feature.unsent
        PROVE  [id |-> i, doc |-> feature.doc] \in Answer
    <3>1. feature.doc >= 1
      BY DEF IInv, Loaded
    <3>2. feature.doc \in 1 .. MaxMounts + MaxReloads /\ i \in 1 .. MaxAsks
      BY <1>1, <3>1, ShellAssumption DEF FeatureType
    <3>3. QED
      BY <3>2 DEF Answer
  <2>2. QED
    BY <1>1, <1>2, <2>1
<1>19. IInv'
  BY <1>2, <1>4, <1>9, <1>10, <1>11, <1>12, <1>16, <1>17, <1>18, LaterKeeps DEF Sane
<1>20. shell'.mounts = shell.mounts \/ said'.call = "open"
  BY <1>4, <1>6, <1>9, <1>10 DEF Lesser
<1>21. QED
  BY <1>19, <1>20

\* A channel that was not open is no more open when its handshake failed.
LEMMA FailedSane ==
  ASSUME NEW s, Sane(s), s.status \in {"connecting", "closed"}
  PROVE  LET t == [s EXCEPT !.status = "failed"] IN Sane(t) /\ Lesser(s, t)
<1> DEFINE t == [s EXCEPT !.status = "failed"]
<1>1. "failed" \in Status
  BY DEF Status
<1>2. t \in Shell
  BY <1>1 DEF Sane, Shell
<1>3. /\ t.status = "failed"
      /\ t.opened = s.opened /\ t.mounts = s.mounts /\ t.cleanup = s.cleanup
      /\ t.dom = s.dom /\ t.unmounting = s.unmounting /\ t.plugins = s.plugins
      /\ t.monitor = s.monitor /\ t.concealed = s.concealed /\ t.watchdog = s.watchdog
      /\ t.options = s.options /\ t.reviving = s.reviving /\ t.revived = s.revived
      /\ t.channel = s.channel /\ t.queuedOpen = s.queuedOpen /\ t.asks = s.asks
      /\ t.queue = s.queue /\ t.revival = s.revival
  BY DEF Sane, Shell
<1> HIDE DEF t
<1>4. Sane(t)
  BY <1>2, <1>3 DEF Sane, Active, Released, Alone, Governed
<1>5. Lesser(s, t)
  BY <1>3 DEF Lesser, Active
<1>6. QED
  BY <1>4, <1>5 DEF t

LEMMA RefusedKeeps ==
  ASSUME IInv, NEW c \in Inner, Refused(c)
  PROVE  IInv' /\ (shell'.mounts = shell.mounts \/ said'.call = "open")
<1> DEFINE s == [shell EXCEPT !.status = "failed"]
           t == Within(s, c)
<1>1. Sane(s) /\ Lesser(shell, s) /\ s.mounts = shell.mounts
  BY FailedSane DEF Refused, IInv, Lesser
<1>2. /\ shell' = Destroy(t) /\ said' = CalledWithin(said, c) /\ Bounded(shell, c)
      /\ feature' = Load(shell', feature) /\ UNCHANGED answering
  BY DEF Refused
<1> HIDE DEF s
<1>3. Bounded(s, c) /\ Wanted(s, said) /\ said \in SaidType
  BY <1>1, <1>2, WantedLesser DEF Bounded, IInv
<1>4. Sane(t) /\ Later(s, t) /\ (c.call # "open" => Lesser(s, t))
  BY <1>1, <1>3, WithinSane
<1>5. /\ said' \in SaidType /\ Wanted(t, said')
      /\ c.call # "none" => said'.call = c.call
  BY <1>1, <1>2, <1>3, WithinWanted
<1> HIDE DEF t
<1>6. Sane(shell') /\ Lesser(t, shell')
  BY <1>2, <1>4, DestroySane
<1>7. Later(shell, shell')
  BY <1>1, <1>4, <1>6, LesserLater, LaterTwice DEF Sane, IInv
<1>8. Wanted(shell', said')
  BY <1>5, <1>6, WantedLesser
<1>9. IInv'
  BY <1>2, <1>5, <1>6, <1>7, <1>8, LaterKeepsDocument
<1>10. QED
  BY <1>1, <1>4, <1>5, <1>6, <1>9 DEF Lesser

LEMMA TimesOutKeeps ==
  ASSUME IInv, TimesOut
  PROVE  IInv' /\ shell'.mounts = shell.mounts
<1> DEFINE s == [shell EXCEPT !.status = "failed"]
           t == Teardown(s)
           q == ConnectFailed(t.revival)
<1>1. Sane(s) /\ Lesser(shell, s)
  BY FailedSane DEF TimesOut, IInv
<1>2. /\ shell' = IF t.reviving THEN [t EXCEPT !.revival = ConnectFailed(@)] ELSE t
      /\ UNCHANGED <<feature, answering, said>>
  BY DEF TimesOut
<1> HIDE DEF s
<1>3. Sane(t) /\ Lesser(s, t)
  BY <1>1, TeardownSane
<1> HIDE DEF t
<1>4. q \in Policy /\ Single(q)
  BY <1>3, ConnectFailedType DEF Sane, Shell
<1>5. shell' \in {t, [t EXCEPT !.revival = q]}
  BY <1>2, <1>3 DEF Sane, Shell
<1> HIDE DEF q
<1>6. Sane(shell') /\ Lesser(t, shell')
  BY <1>3, <1>4, <1>5, RevivalSane, LesserSelf
<1>7. QED
  BY <1>1, <1>2, <1>3, <1>6, LesserTwice, QuietKeeps

\* The end of a session, before what its subscribers make of it.
Over(s, x, m) == [s EXCEPT !.status = x, !.opened = FALSE, !.watchdog = m]

LEMMA OverSane ==
  ASSUME NEW s, Sane(s), Active(s), NEW x \in {"closed", "connecting"},
         NEW m \in Monitor, m.running => s.watchdog.running,
         s.concealed => m.state # "healthy"
  PROVE  LET t == RejectAll(Over(s, x, m))
         IN  Sane(t) /\ Lesser(s, t) /\ t.mounts = s.mounts /\ t.channel = s.channel
             /\ t.asks = {} /\ t.reviving = s.reviving /\ t.queuedOpen = s.queuedOpen
             /\ t.options = s.options
<1> DEFINE u == Over(s, x, m)
           t == RejectAll(u)
<1>1. x \in Status
  BY DEF Status
<1>2. u \in Shell
  BY <1>1 DEF Over, Sane, Shell
<1>3. /\ u.status = x /\ ~u.opened /\ u.watchdog = m
      /\ u.mounts = s.mounts /\ u.cleanup = s.cleanup
      /\ u.dom = s.dom /\ u.unmounting = s.unmounting /\ u.plugins = s.plugins
      /\ u.monitor = s.monitor /\ u.concealed = s.concealed
      /\ u.options = s.options /\ u.reviving = s.reviving /\ u.revived = s.revived
      /\ u.channel = s.channel /\ u.queuedOpen = s.queuedOpen
      /\ u.revival = s.revival
  BY DEF Over, Sane, Shell
<1> HIDE DEF u
<1>4. Sane(u)
  BY <1>2, <1>3 DEF Sane, Active, Released, Alone, Governed
<1>5. /\ Sane(t) /\ t.asks = {}
      /\ t.mounts = u.mounts /\ t.channel = u.channel /\ t.reviving = u.reviving
      /\ t.revived = u.revived /\ t.queuedOpen = u.queuedOpen /\ t.options = u.options
  BY <1>2, <1>4, RejectAllSane DEF RejectAll, Shell
<1>6. Lesser(s, t)
  BY <1>3, <1>5 DEF Lesser
<1>7. QED
  BY <1>3, <1>5, <1>6 DEF u

LEMMA OnCloseKeeps ==
  ASSUME IInv, NEW c \in Inner, OnClose(c)
  PROVE  IInv' /\ (shell'.mounts = shell.mounts \/ said'.call = "open")
<1> DEFINE r == RejectAll(Over(shell, "closed", shell.watchdog))
           s == StandDown(r)
           w == Within(s, c)
           t == StopMonitor(w)
           f == [feature EXCEPT !.pending = {}, !.working = {}]
           h == Called(said, "close")
<1>1. /\ Active(shell) /\ Bounded(shell, c)
      /\ \/ shell' = t
         \/ shell' = StartUnmount(t, "cleanup")
         \/ shell' = RunCleanup(t)
      /\ feature' = Load(shell', f)
      /\ said' = CalledWithin(h, c) /\ UNCHANGED answering
  <2>1. Over(shell, "closed", shell.watchdog)
          = [shell EXCEPT !.status = "closed", !.opened = FALSE]
    BY DEF Over, IInv, Sane, Shell
  <2>2. QED
    BY <2>1 DEF OnClose
<1>2. /\ Sane(r) /\ Lesser(shell, r) /\ r.asks = {} /\ r.channel = shell.channel
  <2>1. /\ Sane(shell) /\ shell.watchdog \in Monitor
        /\ shell.concealed => shell.watchdog.state # "healthy"
    BY DEF IInv, Sane, Shell
  <2>2. "closed" \in {"closed", "connecting"}
    OBVIOUS
  <2>3. QED
    BY <1>1, <2>1, <2>2, OverSane
<1> HIDE DEF r
<1>3. /\ Sane(s) /\ Lesser(r, s) /\ ~s.reviving /\ s.channel = shell.channel
      /\ s.asks = {} /\ s.mounts = shell.mounts
  BY <1>2, StandDownSane DEF StandDown, Sane, Shell, Lesser
<1> HIDE DEF s
<1>4. h \in SaidType /\ h.call = "close"
  BY DEF h, Called, IInv, SaidType
<1> HIDE DEF h
<1>5. Wanted(s, h) /\ Bounded(s, c)
  BY <1>1, <1>3, <1>4 DEF Wanted, Bounded
<1>6. Sane(w) /\ Later(s, w) /\ (c.call # "open" => Lesser(s, w))
  BY <1>3, <1>5, WithinSane
<1>7. /\ said' \in SaidType /\ Wanted(w, said')
      /\ c.call # "none" => said'.call = c.call
  BY <1>1, <1>3, <1>4, <1>5, WithinWanted
<1> HIDE DEF w
<1>8. Sane(t) /\ Lesser(w, t) /\ ~t.monitor
  BY <1>6, StopMonitorSane
<1> HIDE DEF t
<1>9. Sane(shell') /\ Lesser(t, shell')
  <2>1. CASE shell' = t
    BY <1>8, <2>1, LesserSelf
  <2>2. CASE shell' = StartUnmount(t, "cleanup")
    BY <1>8, <2>2, StartUnmountSane
  <2>3. CASE shell' = RunCleanup(t)
    BY <1>8, <2>3, RunCleanupSane
  <2>4. QED
    BY <1>1, <2>1, <2>2, <2>3
<1>10. Lesser(w, shell')
  BY <1>8, <1>9, LesserTwice
<1>11. Later(s, shell')
  BY <1>3, <1>6, <1>9, <1>10, LesserLater, LaterTwice DEF Sane
<1>12. Wanted(shell', said')
  BY <1>7, <1>10, WantedLesser
<1>13. /\ f \in FeatureType /\ f.doc = feature.doc
       /\ f.unsent = feature.unsent /\ f.working = {}
  BY DEF IInv, FeatureType
<1> HIDE DEF f
<1>14. Waiting(s, f.working)
  BY <1>3 DEF Waiting
<1>15. IInv'
  <2>1. f.unsent # {} => f.doc >= 1
    BY <1>13 DEF IInv, Loaded
  <2>2. answering' \in SUBSET Answer
    BY <1>1 DEF IInv
  <2>3. QED
    BY <1>1, <1>3, <1>7, <1>9, <1>11, <1>12, <1>13, <1>14, <2>1, <2>2, LaterKeeps
    DEF Sane
<1>16. QED
  BY <1>3, <1>6, <1>7, <1>10, <1>15 DEF Lesser

\* Another document in the frame, whose requests are none.
LEMMA NextDocumentType ==
  ASSUME IInv, feature.doc < shell.mounts + MaxReloads,
         feature' = NewDocument(feature.doc + 1), shell'.mounts = shell.mounts
  PROVE  feature' \in FeatureType /\ Loaded'
<1>1. /\ shell.mounts \in Nat /\ shell.mounts <= MaxMounts
      /\ feature.doc \in Nat /\ MaxMounts \in Nat /\ MaxReloads \in Nat
  BY ShellAssumption DEF IInv, Sane, Shell, FeatureType
<1>2. feature.doc + 1 \in 0 .. MaxMounts + MaxReloads
  BY <1>1
<1>3. feature' \in FeatureType /\ feature'.doc = feature.doc + 1 /\ feature'.unsent = {}
  BY <1>2, NewDocumentType
<1>4. QED
  BY <1>1, <1>3 DEF Loaded

LEMMA OnReloadKeeps ==
  ASSUME IInv, OnReload
  PROVE  IInv' /\ shell'.mounts = shell.mounts
<1> DEFINE m == Stop(shell.watchdog)
           r == RejectAll(Over(shell, "connecting", m))
<1>1. /\ Active(shell) /\ feature.doc < shell.mounts + MaxReloads
      /\ feature' = NewDocument(feature.doc + 1)
      /\ shell' = r /\ UNCHANGED <<answering, said>>
  <2>1. Over(shell, "connecting", m)
          = [shell EXCEPT !.status = "connecting", !.opened = FALSE, !.watchdog = Stop(@)]
    BY DEF Over, IInv, Sane, Shell
  <2>2. QED
    BY <2>1 DEF OnReload
<1>2. Sane(shell) /\ shell.watchdog \in Monitor
  BY DEF IInv, Sane, Shell
<1>3. m \in Monitor /\ m.state = "gone" /\ ~m.running
  BY <1>2, StopType
<1> HIDE DEF m
<1>4. /\ Sane(r) /\ r.asks = {} /\ r.mounts = shell.mounts
      /\ r.reviving = shell.reviving /\ r.queuedOpen = shell.queuedOpen
  <2>1. "connecting" \in {"closed", "connecting"}
    OBVIOUS
  <2>2. QED
    BY <1>1, <1>2, <1>3, <2>1, OverSane
<1> HIDE DEF r
<1>5. feature' \in FeatureType /\ Loaded'
  BY <1>1, <1>4, NextDocumentType
<1>6. Waiting(shell', feature'.working)
  BY <1>1, <1>4 DEF Waiting
<1>7. Wanted(shell', said')
  BY <1>1, <1>4 DEF IInv, Wanted
<1>8. QED
  BY <1>1, <1>4, <1>5, <1>6, <1>7 DEF IInv

LEMMA NextDocumentKeeps ==
  ASSUME IInv, NextDocument
  PROVE  IInv' /\ shell'.mounts = shell.mounts
<1>1. /\ ~Active(shell) /\ feature.doc < shell.mounts + MaxReloads
      /\ feature' = NewDocument(feature.doc + 1)
      /\ shell' = [shell EXCEPT !.status = IF @ = "closed" THEN "failed" ELSE @]
      /\ UNCHANGED <<answering, said>>
  BY DEF NextDocument
<1>2. Sane(shell') /\ Lesser(shell, shell')
  <2>1. CASE shell.status = "closed"
    <3>1. shell' = [shell EXCEPT !.status = "failed"]
      BY <1>1, <2>1 DEF IInv, Sane, Shell
    <3>2. QED
      BY <2>1, <3>1, FailedSane DEF IInv
  <2>2. CASE shell.status # "closed"
    <3>1. shell' = shell
      BY <1>1, <2>2 DEF IInv, Sane, Shell
    <3>2. QED
      BY <3>1, LesserSelf DEF IInv
  <2>3. QED
    BY <2>1, <2>2
<1>3. shell'.mounts = shell.mounts
  BY <1>2 DEF Lesser
<1>4. feature' \in FeatureType /\ Loaded'
  BY <1>1, <1>3, NextDocumentType
<1>5. Waiting(shell', feature'.working)
  BY <1>1, <1>2 DEF IInv, Waiting, Lesser
<1>6. Wanted(shell', said')
  BY <1>1, <1>2 DEF IInv, Wanted, Lesser
<1>7. QED
  BY <1>1, <1>2, <1>3, <1>4, <1>5, <1>6 DEF IInv

LEMMA OnBeatKeeps ==
  ASSUME IInv, OnBeat
  PROVE  IInv' /\ shell'.mounts = shell.mounts
<1> DEFINE m == Beat(shell.watchdog)
<1>1. /\ shell' = [shell EXCEPT !.watchdog = m,
                                !.concealed = shell.concealed /\ m.state # "healthy"]
      /\ UNCHANGED <<feature, answering, said>>
  BY DEF OnBeat, IInv, Sane, Shell
<1>2. Sane(shell) /\ shell.watchdog \in Monitor
  BY DEF IInv, Sane, Shell
<1>3. m \in Monitor /\ m.running = shell.watchdog.running
  BY <1>2, BeatType
<1> HIDE DEF m
<1>4. PICK c \in BOOLEAN : c = (shell.concealed /\ m.state # "healthy")
  OBVIOUS
<1>5. shell' = [shell EXCEPT !.watchdog = m, !.concealed = c]
  BY <1>1, <1>4
<1>6. c => m.state # "healthy"
  BY <1>4
<1>7. LET t == [shell EXCEPT !.watchdog = m, !.concealed = c]
      IN  Sane(t) /\ Lesser(shell, t)
  BY <1>2, <1>3, <1>6, WatchdogSane
<1>8. QED
  BY <1>1, <1>5, <1>7, QuietKeeps

-----------------------------------------------------------------------------
(* Timers.                                                                 *)

LEMMA WatchTickKeeps ==
  ASSUME IInv, NEW gone \in BOOLEAN, NEW conceal \in BOOLEAN, NEW c \in Inner,
         WatchTick(gone, conceal, c)
  PROVE  IInv' /\ (shell'.mounts = shell.mounts \/ said'.call = "open")
<1> DEFINE m == Watched(shell.watchdog)
           s == [shell EXCEPT !.watchdog = m, !.concealed = shell.concealed]
           t == IF conceal THEN Conceal(s) ELSE s
           w == Within(t, c)
           p == shell.options.policy
<1>1. /\ \/ shell' = s /\ c.call = "none"
         \/ shell' = Apply(w, p, gone)
      /\ Bounded(shell, c) /\ feature' = Load(shell', feature)
      /\ said' = CalledWithin(said, c) /\ UNCHANGED answering
  <2>1. s = [shell EXCEPT !.watchdog = Watched(@)]
    BY DEF IInv, Sane, Shell
  <2> HIDE DEF s, m
  <2>2. QED
    BY <2>1 DEF WatchTick
<1>2. /\ Sane(shell) /\ shell.watchdog \in Monitor /\ shell.concealed \in BOOLEAN
      /\ shell.concealed => shell.watchdog.state # "healthy"
  BY DEF IInv, Sane, Shell
<1>3. /\ m \in Monitor /\ m.running = shell.watchdog.running
      /\ m.state \in {shell.watchdog.state, "suspect"}
  BY <1>2, WatchedType
<1> HIDE DEF m
<1>4. shell.concealed => m.state # "healthy"
  BY <1>2, <1>3
<1>5. Sane(s) /\ Lesser(shell, s)
  BY <1>2, <1>3, <1>4, WatchdogSane
<1> HIDE DEF s, p
<1>6. Sane(t) /\ Lesser(s, t)
  BY <1>5, ConcealSane, LesserSelf
<1> HIDE DEF t
<1>7. Lesser(shell, t)
  BY <1>5, <1>6, LesserTwice
<1>8. Bounded(t, c) /\ Wanted(t, said) /\ said \in SaidType
  BY <1>1, <1>7, WantedLesser DEF Bounded, Lesser, IInv
<1>9. Sane(w) /\ Later(t, w) /\ (c.call # "open" => Lesser(t, w))
  BY <1>6, <1>8, WithinSane
<1>10. /\ said' \in SaidType /\ Wanted(w, said')
       /\ c.call # "none" => said'.call = c.call
  BY <1>1, <1>6, <1>8, WithinWanted
<1> HIDE DEF w
<1>11. CASE shell' = s /\ c.call = "none"
  <2>1. said' = said
    BY <1>1, <1>11 DEF CalledWithin
  <2>2. Wanted(shell', said')
    BY <1>5, <1>11, <2>1, WantedLesser DEF IInv
  <2>3. Later(shell, shell') /\ shell'.mounts = shell.mounts
    BY <1>2, <1>5, <1>11, LesserLater DEF Sane, Lesser
  <2>4. QED
    BY <1>1, <1>5, <1>10, <1>11, <2>2, <2>3, LaterKeepsDocument
<1>12. CASE shell' = Apply(w, p, gone)
  <2>1. Sane(shell') /\ Lesser(w, shell')
    BY <1>9, <1>12, ApplySane
  <2>2. Later(shell, shell')
    BY <1>2, <1>6, <1>7, <1>9, <2>1, LesserLater, LaterTwice DEF Sane
  <2>3. Wanted(shell', said')
    BY <1>10, <2>1, WantedLesser
  <2>4. IInv'
    BY <1>1, <1>10, <2>1, <2>2, <2>3, LaterKeepsDocument
  <2>5. QED
    BY <1>7, <1>9, <1>10, <2>1, <2>4 DEF Lesser
<1>13. QED
  BY <1>1, <1>11, <1>12

LEMMA OrphanVerdictKeeps ==
  ASSUME IInv, NEW c \in Inner, OrphanVerdict(c)
  PROVE  IInv' /\ (shell'.mounts = shell.mounts \/ said'.call = "open")
<1>1. PICK p \in shell.orphans :
        shell' = Apply(Within([shell EXCEPT !.orphans = shell.orphans \ {p}], c), p, TRUE)
  BY DEF OrphanVerdict, IInv, Sane, Shell
<1> DEFINE o == shell.orphans \ {p}
           s == [shell EXCEPT !.orphans = o]
           w == Within(s, c)
<1>2. /\ Bounded(shell, c) /\ feature' = Load(shell', feature)
      /\ said' = CalledWithin(said, c) /\ UNCHANGED answering
  BY DEF OrphanVerdict
<1>3. o \in SUBSET Policies /\ Sane(shell) /\ shell \in Shell
  BY DEF IInv, Sane, Shell
<1>4. shell' = Apply(w, p, TRUE)
  BY <1>1
<1> HIDE DEF o
<1>5. Sane(s) /\ Lesser(shell, s)
  BY <1>3, OrphansSane
<1> HIDE DEF s
<1>6. Bounded(s, c) /\ Wanted(s, said) /\ said \in SaidType
  BY <1>2, <1>5, WantedLesser DEF Bounded, Lesser, IInv
<1>7. Sane(w) /\ Later(s, w) /\ (c.call # "open" => Lesser(s, w))
  BY <1>5, <1>6, WithinSane
<1>8. /\ said' \in SaidType /\ Wanted(w, said')
      /\ c.call # "none" => said'.call = c.call
  BY <1>2, <1>5, <1>6, WithinWanted
<1> HIDE DEF w
<1>9. Sane(shell') /\ Lesser(w, shell')
  BY <1>4, <1>7, ApplySane
<1>10. Later(shell, shell')
  BY <1>3, <1>5, <1>7, <1>9, LesserLater, LaterTwice DEF Sane
<1>11. Wanted(shell', said')
  BY <1>8, <1>9, WantedLesser
<1>12. IInv'
  BY <1>2, <1>8, <1>9, <1>10, <1>11, LaterKeepsDocument
<1>13. QED
  BY <1>5, <1>7, <1>8, <1>9, <1>12 DEF Lesser

LEMMA StabilityEndsKeeps ==
  ASSUME IInv, StabilityEnds
  PROVE  IInv' /\ shell'.mounts = shell.mounts
<1> DEFINE q == Ended(shell.revival)
<1>1. shell' = [shell EXCEPT !.revival = q] /\ UNCHANGED <<feature, answering, said>>
  BY DEF StabilityEnds, IInv, Sane, Shell
<1>2. q \in Policy /\ Single(q)
  BY EndedType DEF IInv, Sane, Shell
<1> HIDE DEF q
<1>3. Sane(shell') /\ Lesser(shell, shell')
  BY <1>1, <1>2, RevivalSane DEF IInv
<1>4. QED
  BY <1>1, <1>3, QuietKeeps

LEMMA GraceFiresKeeps ==
  ASSUME IInv, NEW outcome \in Outcomes, NEW c \in Inner, GraceFires(outcome, c)
  PROVE  /\ IInv'
         /\ \/ shell'.mounts = shell.mounts \/ said'.call = "open"
            \/ said'.overruled /\ ~said.overruled
<1> DEFINE q == Fired(shell.revival, IsHealthy)
           s == [shell EXCEPT !.revival = q]
           o == shell.revived
           w == Within(s, c)
           t == MountFeature(w, o, outcome)
           h == CalledWithin(said, c)
<1>1. /\ shell.reviving /\ shell.revival.grace # Off /\ Bounded(s, c)
      /\ feature' = Load(shell', feature)
      /\ said' = [h EXCEPT !.overruled = @ \/ c.call \in {"close", "destroy"}]
      /\ UNCHANGED answering
      /\ \/ /\ w.mounts < MaxMounts \/ outcome = "throws"
            /\ shell' \in {t, Destroy(t)}
         \/ c.call = "none" /\ shell' \in {s, Destroy(s)}
  <2>1. s = [shell EXCEPT !.revival = Fired(@, IsHealthy)]
    BY DEF IInv, Sane, Shell
  <2> HIDE DEF s
  <2>2. QED
    BY <2>1 DEF GraceFires
<1>2. Sane(shell) /\ shell.revival \in Policy /\ Single(shell.revival) /\ o \in Options
  BY <1>1 DEF IInv, Sane, Shell, Governed
<1>3. q \in Policy /\ Single(q)
  <2>1. IsHealthy \in BOOLEAN
    BY DEF IsHealthy
  <2>2. QED
    BY <1>1, <1>2, <2>1, FiredType
<1> HIDE DEF q
<1>4. Sane(s) /\ Lesser(shell, s)
  BY <1>2, <1>3, RevivalSane
<1> HIDE DEF s, o
<1>5. said.call = "open" /\ ~said.overruled /\ said \in SaidType /\ Wanted(s, said)
  BY <1>1, <1>4, WantedLesser DEF IInv, Wanted, SaidType
<1>6. Sane(w) /\ Later(s, w) /\ (c.call \in {"close", "destroy"} => ~w.reviving)
  BY <1>1, <1>4, WithinSane
<1>7. /\ h \in SaidType
      /\ c.call # "none" => h.call = c.call
      /\ c.call = "none" => h = said
  BY <1>1, <1>4, <1>5, WithinWanted DEF CalledWithin
<1> HIDE DEF h, w
<1>8. /\ said' \in SaidType /\ said'.call = h.call
      /\ said'.overruled <=> h.overruled \/ c.call \in {"close", "destroy"}
  <2>1. PICK b \in BOOLEAN : b <=> h.overruled \/ c.call \in {"close", "destroy"}
    OBVIOUS
  <2>2. said' = [h EXCEPT !.overruled = b]
    BY <1>1, <1>7, <2>1 DEF SaidType
  <2>3. c.call \in {"close", "destroy"} => h.call # "open"
    BY <1>7
  <2>4. QED
    BY <1>7, <2>1, <2>2, <2>3 DEF SaidType
<1>9. \/ said'.call = "open"
      \/ said'.overruled /\ c.call \in {"close", "destroy"}
  <2>1. c.call \in {"none", "open", "close", "destroy"}
    BY DEF Inner
  <2>2. QED
    BY <1>5, <1>7, <1>8, <2>1
<1>10. CASE /\ w.mounts < MaxMounts \/ outcome = "throws"
            /\ shell' \in {t, Destroy(t)}
  <2>1. Sane(t) /\ Mounted(w, o, t)
    BY <1>2, <1>6, <1>10, MountFeatureSane
  <2> HIDE DEF t
  <2>2. Sane(Destroy(t)) /\ Lesser(t, Destroy(t))
    BY <2>1, DestroySane
  <2>3. Sane(shell') /\ Mounted(w, o, shell')
    BY <1>10, <2>1, <2>2, MountedLesser
  <2>4. Later(shell, shell')
    BY <1>2, <1>4, <1>6, <2>3, LesserLater, LaterTwice, MountedLater DEF Sane
  <2>5. Wanted(shell', said')
    BY <1>6, <1>9, <2>3 DEF Mounted, Wanted
  <2>6. IInv'
    BY <1>1, <1>8, <2>3, <2>4, <2>5, LaterKeepsDocument
  <2>7. QED
    BY <1>5, <1>9, <2>6
<1>11. CASE c.call = "none" /\ shell' \in {s, Destroy(s)}
  <2>1. Sane(Destroy(s)) /\ Lesser(s, Destroy(s))
    BY <1>4, DestroySane
  <2>2. Sane(shell') /\ Lesser(shell, shell')
    BY <1>4, <1>11, <2>1, LesserTwice
  <2>3. Later(shell, shell')
    BY <1>2, <2>2, LesserLater DEF Sane
  <2>4. Wanted(shell', said')
    BY <1>9, <1>11 DEF Wanted
  <2>5. QED
    BY <1>1, <1>8, <1>9, <1>11, <2>2, <2>3, <2>4, LaterKeepsDocument
<1>12. QED
  BY <1>1, <1>10, <1>11

LEMMA FinishUnmountKeeps ==
  ASSUME IInv, NEW outcome \in Outcomes, FinishUnmount(outcome)
  PROVE  IInv'
<1> DEFINE x == IF shell.unmounting = "release" THEN ReleaseChannelAndCleanup(shell)
                                                ELSE RunCleanup(shell)
           s == [x EXCEPT !.unmounting = "no", !.queuedOpen = NoOption]
           o == shell.queuedOpen
<1>1. /\ feature' = Load(shell', feature) /\ UNCHANGED <<answering, said>>
      /\ \/ o = NoOption /\ shell' = s
         \/ /\ o # NoOption
            /\ shell.mounts < MaxMounts \/ outcome = "throws"
            /\ shell' = MountFeature(s, o, outcome)
  BY DEF FinishUnmount
<1>2. Sane(x) /\ Lesser(shell, x)
  BY ReleaseSane, RunCleanupSane DEF IInv
<1> HIDE DEF x
<1>3. s \in Shell
  BY <1>2 DEF Sane, Shell
<1>4. /\ s.unmounting = "no" /\ s.queuedOpen = NoOption
      /\ s.opened = x.opened /\ s.status = x.status /\ s.mounts = x.mounts
      /\ s.cleanup = x.cleanup /\ s.dom = x.dom /\ s.plugins = x.plugins
      /\ s.monitor = x.monitor /\ s.concealed = x.concealed
      /\ s.watchdog = x.watchdog /\ s.options = x.options /\ s.reviving = x.reviving
      /\ s.revived = x.revived /\ s.channel = x.channel /\ s.asks = x.asks
      /\ s.queue = x.queue /\ s.revival = x.revival
  BY <1>2 DEF Sane, Shell
<1> HIDE DEF s
<1>5. Sane(s)
  BY <1>2, <1>3, <1>4 DEF Sane, Active, Released, Alone, Governed
<1>6. Lesser(shell, s)
  BY <1>2, <1>4 DEF Lesser, Active
<1>7. CASE shell' = s
  <2>1. UNCHANGED feature
    BY <1>1, <1>6, <1>7 DEF Load, Lesser
  <2>2. QED
    BY <1>1, <1>5, <1>6, <1>7, <2>1, QuietKeeps
<1>8. CASE /\ o # NoOption /\ shell' = MountFeature(s, o, outcome)
           /\ shell.mounts < MaxMounts \/ outcome = "throws"
  <2>1. o \in Options
    BY <1>8 DEF IInv, Sane, Shell
  <2>2. s.mounts = shell.mounts /\ s.channel \in {0, shell.channel}
        /\ (s.reviving => shell.reviving)
    BY <1>6 DEF Lesser
  <2>3. Sane(shell') /\ Mounted(s, o, shell')
    BY <1>5, <1>8, <2>1, <2>2, MountFeatureSane
  <2>4. Wanted(shell', said')
    <3>1. /\ shell'.reviving => shell.reviving
          /\ shell'.queuedOpen # NoOption => shell.queuedOpen # NoOption
      BY <1>8, <2>2, <2>3 DEF Mounted
    <3>2. QED
      BY <1>1, <3>1 DEF IInv, Wanted
  <2>5. Later(shell, shell')
    <3>1. Later(shell, s)
      BY <1>6, LesserLater DEF IInv, Sane
    <3>2. Later(s, shell')
      BY <1>5, <2>3, MountedLater DEF Sane
    <3>3. QED
      BY <1>5, <2>3, <3>1, <3>2, LaterTwice DEF IInv, Sane
  <2>6. QED
    BY <1>1, <2>3, <2>4, <2>5, LaterKeepsDocument DEF IInv
<1>9. QED
  BY <1>1, <1>7, <1>8

-----------------------------------------------------------------------------
(* The theorems.                                                           *)

LEMMA StutterKeeps ==
  ASSUME IInv, UNCHANGED vars
  PROVE  IInv' /\ shell'.mounts = shell.mounts
BY LesserSelf, QuietKeeps DEF vars, IInv

LEMMA NextKeeps == IInv /\ [Next]_vars => IInv'
<1> SUFFICES ASSUME IInv, [Next]_vars PROVE IInv'
  OBVIOUS
<1>1. CASE Calls
  BY <1>1, OpenCallKeeps, CloseCallKeeps, DestroyCallKeeps, ConcealCallKeeps DEF Calls
<1>2. CASE Requests
  BY <1>2, HostAsksKeeps, FeatureAnswersKeeps, HostTimesOutKeeps, FeatureAsksKeeps,
     FeatureTimesOutKeeps, HostAnswersKeeps DEF Requests
<1>3. CASE Events
  BY <1>3, OnOpenKeeps, RefusedKeeps, TimesOutKeeps, OnCloseKeeps, OnReloadKeeps,
     NextDocumentKeeps, OnBeatKeeps DEF Events
<1>4. CASE Timers
  BY <1>4, WatchTickKeeps, OrphanVerdictKeeps, StabilityEndsKeeps, GraceFiresKeeps DEF Timers
<1>5. CASE Unmounts
  BY <1>5, FinishUnmountKeeps DEF Unmounts
<1>6. CASE UNCHANGED vars
  BY <1>6, StutterKeeps
<1>7. QED
  BY <1>1, <1>2, <1>3, <1>4, <1>5, <1>6 DEF Next

LEMMA Invariance == Spec => []IInv
<1>1. IInv /\ [Next]_vars => IInv'
  BY NextKeeps
<1>2. QED
  BY <1>1, InitIInv, PTL DEF Spec

\* Every field of the closure, of the document and of the requests keeps its type.
THEOREM TypeCorrect == Spec => []TypeOK
<1>1. IInv => TypeOK
  <2> SUFFICES ASSUME IInv PROVE TypeOK
    OBVIOUS
  <2>1. answering \subseteq [id : 1 .. MaxAsks, doc : 0 .. MaxMounts + MaxReloads]
    BY ShellAssumption DEF IInv, Answer
  <2>2. QED
    BY <2>1 DEF IInv, TypeOK, Sane, FeatureType, SaidType
<1>2. QED
  BY <1>1, Invariance, PTL

\* isOpen is true exactly while the mount's channel is active.
THEOREM OpenIsTrue == Spec => []OpenIsActive
<1>1. IInv => OpenIsActive
  BY DEF IInv, Sane, OpenIsActive
<1>2. QED
  BY <1>1, Invariance, PTL

\* Whatever order opens, closes, unmounts and timers come in, the only mount on
\* the page is the one whose release the handle still keeps.
THEOREM NothingIsLeaked == Spec => []NothingLeaks
<1>1. IInv => NothingLeaks
  BY DEF IInv, Sane, Released, NothingLeaks
<1>2. QED
  BY <1>1, Invariance, PTL

\* An unmount that waits for its plugins releases the mount it was begun for.
THEOREM UnmountsStayAlone == Spec => []UnmountsAlone
<1>1. IInv => UnmountsAlone
  BY DEF IInv, Sane, Released, Alone, UnmountsAlone
<1>2. QED
  BY <1>1, Invariance, PTL

\* A frame that beats is never concealed.
THEOREM ConcealedStaySilent == Spec => []ConcealedIsSilent
<1>1. IInv => ConcealedIsSilent
  BY DEF IInv, Sane, ConcealedIsSilent
<1>2. QED
  BY <1>1, Invariance, PTL

\* In an open session no request of the host waits on a document that is gone.
THEOREM AnswersCanCome == Spec => []AnswerComing
<1>1. IInv => AnswerComing
  BY DEF IInv, Waiting, Ask, Active, AnswerComing
<1>2. QED
  BY <1>1, Invariance, PTL

\* What a step may mount, and on whose word.
ToldTo == \/ said'.call = "open"
          \/ said'.overruled /\ (~said.overruled \/ shell.queuedOpen # NoOption)
          \/ said.call = "close" /\ shell.queuedOpen # NoOption

LEMMA MountsWhenTold ==
  ASSUME IInv, [Next]_vars, shell'.mounts # shell.mounts
  PROVE  ToldTo
<1>1. CASE \E o \in Options, r \in Outcomes : OpenCall(o, r)
  BY <1>1, CalledType DEF OpenCall, ToldTo
<1>2. CASE \E r \in Outcomes, c \in Inner : GraceFires(r, c)
  BY <1>2, GraceFiresKeeps DEF ToldTo
<1>3. ASSUME NEW outcome \in Outcomes, FinishUnmount(outcome)
      PROVE  shell.queuedOpen # NoOption
  <2> DEFINE x == IF shell.unmounting = "release" THEN ReleaseChannelAndCleanup(shell)
                                                  ELSE RunCleanup(shell)
  <2> SUFFICES ASSUME shell.queuedOpen = NoOption PROVE FALSE
    OBVIOUS
  <2>1. shell' = [x EXCEPT !.unmounting = "no", !.queuedOpen = NoOption]
    BY <1>3 DEF FinishUnmount
  <2>2. Sane(x) /\ Lesser(shell, x)
    BY ReleaseSane, RunCleanupSane DEF IInv
  <2> HIDE DEF x
  <2>3. QED
    BY <2>1, <2>2 DEF Sane, Shell, Lesser
<1>4. CASE \E r \in Outcomes : FinishUnmount(r)
  <2>1. shell.queuedOpen # NoOption /\ said' = said
    BY <1>3, <1>4 DEF FinishUnmount
  <2>2. QED
    BY <2>1 DEF IInv, Wanted, ToldTo
<1>5. CASE Requests
  BY <1>5, HostAsksKeeps, FeatureAnswersKeeps, HostTimesOutKeeps, FeatureAsksKeeps,
     FeatureTimesOutKeeps, HostAnswersKeeps DEF Requests
<1>6. CASE Events
  BY <1>6, OnOpenKeeps, RefusedKeeps, TimesOutKeeps,
     OnCloseKeeps, OnReloadKeeps, NextDocumentKeeps, OnBeatKeeps DEF Events, ToldTo
<1>7. CASE CloseCall \/ DestroyCall \/ ConcealCall
  BY <1>7, CloseCallKeeps, DestroyCallKeeps, ConcealCallKeeps
<1>8. CASE \/ \E gone, conceal \in BOOLEAN, c \in Inner : WatchTick(gone, conceal, c)
           \/ \E c \in Inner : OrphanVerdict(c)
           \/ StabilityEnds
  BY <1>8, WatchTickKeeps, OrphanVerdictKeeps, StabilityEndsKeeps DEF ToldTo
<1>9. CASE UNCHANGED vars
  BY <1>9, StutterKeeps
<1>10. QED
  BY <1>1, <1>2, <1>4, <1>5, <1>6, <1>7, <1>8, <1>9 DEF Next, Calls, Timers, Unmounts

\* A shell that was destroyed, or closed with no open waiting, mounts nothing until
\* the application opens it again, but for the mount a 'reopen' announces when the
\* call was made from inside that event.
THEOREM DownStaysDown == Spec => StaysDown
<1>1. IInv /\ [Next]_vars
        => [ shell'.mounts # shell.mounts
               => \/ said'.call = "open"
                  \/ said'.overruled /\ (~said.overruled \/ shell.queuedOpen # NoOption)
                  \/ said.call = "close" /\ shell.queuedOpen # NoOption ]_vars
  BY MountsWhenTold DEF ToldTo
<1>2. QED
  BY <1>1, Invariance, PTL DEF Spec, StaysDown
================================================================================
