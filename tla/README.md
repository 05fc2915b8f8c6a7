# A TLA+ verification of qWDTT-linux

qWDTT-linux is a VPN client in Go. It carries WireGuard packets (or raw IP packets) over
TURN relays that belong to VK's call service: it logs in to VK for TURN credentials, opens
many relay sessions in parallel, disguises the traffic as RTP and spreads the packets over
the sessions. Daemons started by `qwdtt connect` run this core and set up the kernel's
interfaces and routes.

This directory models the concurrent and failure-prone parts of it in TLA+, checks them with
TLC on small instances and proves the most important invariants with TLAPS for every value of
the constants. `PROJECT.json` names, for every definition, the source lines it translates,
and lists the runs, the hazards of the code with the properties that answer them, the
findings and the theorems.

Contents: 1 inventory, 2 modules and the code, 3 runs, 4 fairness, 5 proofs, 6 findings and
other observations, 7 what is not modelled, 8 plan.

## 1. Inventory

| Component | State | Operations | Meets |
|---|---|---|---|
| Dispatcher (`internal/core/dispatcher.go`) | `workers`, `rrIndex`, `rrCount`, chunk times, `SendCh`/`PrioCh` of each slot, `ReturnCh`, the buffer pool | `Register`, `Unregister`, `readLoop`, `writeLoop` | sessions register slots and read their channels; Core closes its socket |
| RTP obfuscation (`obfs.go`) | the send counter, initial sequence number and timestamp, the receiver's `replayWindow` | seal, open, `accept` | writer, keepalive and the goodbye of a session share one state |
| Session (`session.go`) | contexts, deadlines, wait groups, the connection, `handshakeSem`, `ActiveConnections` | `RunSession` and its seven goroutines | dispatcher, obfuscation, worker group |
| Worker group (`group.go`) | `configSent`, `configRequestInFlight`, credentials, `lastCredRefresh`, the ready signals | start in cascade, a retry loop per worker, `refreshCreds` | Core, sessions, credentials |
| Core (`core.go`) | `events`, `configCh`, `shutdownCh`, the wait group | `Start`, `Stop`, `emit`, statistics, the configuration reader | groups, dispatcher, the daemon that reads the events |
| VK credentials and captcha (`creds.go`, `captcha_v2.go`) | caches with mutex and error count, `vkRequestMu`, request throttle, captcha lockout, the captcha result channel | `GetCreds`, the token chain, `handleAuthError`, WebView captcha | all groups of all Cores in the process (package variables) |
| Daemon and auto-switch (`connect.go`, `suspend.go`, `daemon.go`) | per process: `wgConfigured`, `splitRoutes`, `routedTurnIPs`, stop and switch channels; on disk: `active_profile`, `autoswitch_current_profile`, state files | `connectCmd`, the profile loop, `tryConnectProfile` | Core, kernel, control socket, signals, other daemons |
| Network set-up (`wireguard_linux.go`, `tun_linux.go`, `bypass_routes_linux.go`) | the kernel's interfaces and routes | `applyWGConfig`, `teardownWG`, `setupRawTUN`, `reloadSplitRoutes`, ... | every daemon and command on the machine |
| Control socket (`captcha_socket.go`) | the router for `GET_BL` | `CAPTCHA_RESULT`, `BL_RELOAD`, `GET_BL` | commands, credentials, daemon |
| Profiles and subscriptions (`profile.go`, `subscription.go`, `config.go`) | one JSON file per profile and per subscription (with the list of its profiles), `status.json`, `active_profile`, `autoswitch_current_profile` | `saveProfile`, `renameProfile`, `setProfileEnabled`, `applySubscription` | every command and daemon of the user, through files nobody locks |
| Commands (`commands.go`) | - | `disconnect`, `switch`; `add`, `edit`, `rm`, `mv`, `import`, `enable`, `disable`, `sub`; black lists, `list`, `test` | daemons by signal, kernel, files |
| SOCKS5 mode, DoH, statistics | caches, counters | | |

What is hard in this code, and what correctness means there:

* *Interleavings.* Slots leave the dispatcher while it sends (no send on a closed channel, no
  buffer with two owners or none). Sessions are torn down by a web of contexts, `AfterFunc`s
  and wait groups (nothing is used after it was closed, everything is joined, every token
  comes back). `emit` and `close(events)` race. Nine workers race for one configuration
  request. A Core that stops and the one that replaces it share the credential cache. The
  daemon's event loop, the socket's goroutines and other processes change one kernel. Two
  commands read, decide and write the same profiles, lists and flags.
* *Failure in the middle.* `RunSession` has some twenty ways out and `tryConnectProfile` over
  a dozen, some of which skip the deferred calls with `os.Exit`; `disconnect` kills a daemon
  that does not leave within two seconds. A command that changes several files may be
  interrupted between any two of them, or in the middle of one (a file is truncated first).
* *Ordering and the network.* Datagrams are lost, reordered and duplicated; sequence numbers
  and timestamps wrap; packets of one flow move between relays.
* *Liveness.* A cancelled slot, session, group or Core must end; a credential call must return
  although VK, the solver and the user may never answer; a stop signal must end a daemon.

## 2. Modules and the code

Goroutines are processes, channel operations and critical sections are steps. A step is as
large as the code's locks make it: what runs under `d.mu` is one step, `emit` is three,
because it holds no lock. Durations are reduced to their order: a timer may fire whenever it
is armed.

**Dispatcher** (`Dispatcher.tla`). Uplink scheduling. `workers`, `rrIndex`, `rrCount`,
`chunkAge`, `sendCh`, `prioCh`, `pool` are the code's variables; `slot`, `writer` and `hand`
are the life of a slot, its writer goroutine and the packet that holds; `lastBulk` is history. A
packet is named by its pooled buffer, and buffers go back to the pool, so traffic never runs
out. Small packets (ACKs) go to `PrioCh`, bulk packets in chunks to one worker, with fallback
to others and a drop when all are full.

**RtpObfs** (`RtpObfs.tla`). Nonces from a shared counter and the replay window. Field widths,
the timestamp step and the window are constants, so that wrap-around is within TLC's reach
and the proof covers the real widths. AEAD is external: what opens was sealed by the peer.
A failed seal is a lost packet. A packet from before the window's first packet may have been
sealed in another epoch of the 32-bit timestamp, which `accept` cannot tell; `epochKnown`
excludes it from `AcceptedOnce`.

**Session** (`Session.tla`). Every stage of `RunSession` in its three modes (DTLS inside the
relay, direct obfuscation, raw), its goroutines, the two `AfterFunc`s, the deferred calls in
their order, and the counters it shares with other sessions. The deferred calls are steps of
their own (`StopConn`, `DropSlot`, `Discount`, `HangUp`); `NextDeferred` is the order in which
they were deferred, and other sessions and the dispatcher act between them. `WrapKey` is always derived from
the password, so the modes without DTLS always use the direct obfuscation.

**WorkerGroup** (`WorkerGroup.tla`). The group's goroutine, its ready signal, the workers'
retry loops, `configSent`/`configRequestInFlight`, `refreshCreds` under `refreshMu`. A session
is its contract with the group: it may get a configuration answer and ends with a class of
error.

**Core** (`Core.tla`). The cascade of groups (`signalReady`'s look at the context and its close
are two steps), `emit` on the bounded event channel (its
non-blocking send, the removal of an old entry and the second try are separate steps), the
statistics ticker, the configuration reader, `main` with Start's deferred calls, the
dispatcher's loops and the caller.

**CoreService** (`CoreService.tla`). The Core its caller can count on, without goroutines,
locks or deferred calls: a group begins when all before it have credentials; the events form a
queue that loses only its oldest entry; the end is announced when every group is over; the
socket and the services go in their order and the queue is closed last. Core shows that it
implements this (`ImplementsService`): a group is at work from its start to its end, whatever
it emits; the two halves of `emit` map to a `Take` and a `Post`; `CloseEvents` is `Close`.

**Creds** (`Creds.tla`). `GetCreds` with the cache, both mutexes, the throttle, the credential
sets, the captcha loop with its modes and WebView stages, and the 60 s lockout. A WebView
request empties the result channel, emits and waits in three steps; `SolveCaptcha` empties it
and sends in two, whoever waits; both meet in any order. The atomics of `handleAuthError` (the
look at the window, `Store(0)`, `Add`, the `Store` of the time, the invalidation) are five
steps, so that sessions which fail together undo each other's counts as in the code. `setup`
says who shares a cache and a Core with whom, and with which link. VK, the solver and the user
are inputs: any answer, failure or silence.

**Network** (`Network.tla`). The kernel state the daemons share and what the program's
functions do to it, as operators from one state to the next: two interfaces, the two halves of
the default route, host routes past the tunnel. The program refers to all of them by name or
destination, never by owner; that is what makes several daemons hard.

**Daemon** (`Daemon.tla`, extends Network). The daemons, their files and the commands
`disconnect`, `disconnect --all`, `connect --toggle` and `switch`. A daemon's `pc` is where the profile loop is (`loop`, `again` after
a resume, `open` in the event loop, `probe` in the connectivity test, which the event loop
waits for, `ret`, `exiting`). One handler of an event is one step, except where the code waits
(the probe) or another goroutine can come between (a reload, a Core that goes down in raw
mode). A profile is named by the daemon of its own that it can have; auto-switch's own name
stands for the profiles without one. So `cur`, the profile auto-switch is on, may be one for which
`connect` has started another daemon, and `disconnect` and `disconnect --all` treat that daemon
as the code does (`skipKill`). Auto-switch is started without naming a profile, and goes through
its list in any order. A default gateway is assumed. At most one `BL_RELOAD` handler per daemon and one command that stops
daemons at a time; nobody reconnects a profile while such a command is about it. A bare SIGINT
is a disconnect command that never gets past its two seconds. `--toggle` comes with the flags
the daemon was started with.

**Profiles** (`Profiles.tla`). The user's files and the commands that change them. A command is
a process: `job` holds its arguments, how far it is and what it has read so far. A file is
absent, torn (truncated, not yet written) or has contents; reading, removing and each half of
`os.WriteFile` are steps, so that two commands meet at every point at which they can, and
`Kill` ends one at any of them. Names keep their shape (`x`, `x_sub0`, `x(1)`) because the code
makes them that way to avoid collisions; the rest of a profile is reduced to its subscription,
its groups and who made it. A subscription's server answers with any of a set of lists,
differently each time. `told` (what enable and disable last reported of the profile, which
goes along with `mv`; "leftover" if `mv` gave it a name whose old flag was still there) and
`spoilt` (the files that a killed or overtaken command left inconsistent) are history.
`pointer` (`active_profile` and `autoswitch_current_profile`) is there because `mv` changes it;
only its type is checked. A command has been overtaken if another changed a file between its own look at it and its
write; the new list of `sub update`, and the removal of a list by `sub rm`, rely also on the
profiles that they leave without a list.

The modules meet as the code does, by contract: WorkerGroup uses "a session ends after
cancellation", which Session checks; Core uses the same of a group, which WorkerGroup checks;
Daemon uses Core's events in any order the caller may see. Session takes it from Dispatcher
that a cancelled session's writer ends (`WF(Done /\ WriterEnds)`): that is `CancelledSlotLeaves`,
and so holds with the same exception, a slot flooded with small packets. That exception and
Session's finding `StopEnds` are the cases in which these contracts fail in the code.

The `MC*` modules give the constants values; each `.cfg` is one run.

## 3. Runs

| Run | Instance | What it shows |
|---|---|---|
| `dispatcher` | 2 slots, `SendCh` and `PrioCh` of 1, endless packets of 2 sizes in 2 buffers, 3 gaps | `NoSendOnClosed`, `RRInRange`, `BufferOwnedOnce` (a buffer is in exactly one place), `ChunkAffinity` (a chunk begun with one relay is never continued on another, whoever comes and goes), `DropOnlyWhenFull`, `SmallNotBehindBulk`, `CancelledSlotLeaves` (a cancelled slot leaves although packets keep coming, except when it is flooded) |
| `obfs` | 4 sequence numbers, 84 timestamps, 13 packets, window of 2 entries | `NonceUnique`, `AcceptedOnce`, `InWindowAccepted`; the timestamp wraps in mid-run, and without the `c >> 16` term the 13th nonce would repeat |
| `session` | 1 session in detail in each mode, 1 handshake token, other sessions compete | `Balanced`, `SlotUsable`, `JoinedOnReturn`, `SessionEnds` |
| `group` | 2 workers, first group or a later one | `ConfigSingleFlight`, `RefreshOnce`, `GroupStops` |
| `core` | 2 groups, an event channel of 1 | `ImplementsService` (the refinement of CoreService), `PanicOnlyUnjoined`, `ShutdownCompletes` |
| `creds` | a caller of the old Core and one of the new Core, with two links or one; two groups of one Core with a cache each; a caller and a failing session; two failing sessions; 3 attempts, 1 captcha, 2 errors | `LockoutQuiet`, `FetchNeeded` (VK is asked only for what the cache does not have, to the end of the fetch), `NoLeftover` (no request takes a captcha result from before it emptied the channel), `ErrorsInvalidate` (sessions that go on failing get the credentials thrown away, whatever counts the separate atomics lose), `CallsReturn` |
| `daemon` | 2 daemons in four pairs: tun + socks, tun + socks auto-switch, tun + tun auto-switch, raw + socks; a TURN server and a bypassed site | `RoutesTracked` (a route past the tunnel is on the list of some process), `ExitClean`, `DisconnectFrees` (but for the daemon that `skipKill` spares) |
| `daemon_stop` | 1 daemon of each of the three modes, with and without auto-switch | `StopExits` (a daemon that was told to stop ends by itself; nothing another daemon does is needed for it or assumed, and the killing command has no fairness) |
| `profiles` | any 3 commands, 2 at a time and each killed anywhere, 2 names typed, 2 subscriptions that can be renamed into each other, 1 numbered variant of a name, with or without the flag of a disabled profile that is gone; the server's list is empty, or has an unnamed entry and one that collides with the user's | `ManagedListed` (a managed profile is in its subscription's group and on its list), `StatusTold` (what enable and disable reported of a profile stays true, under its new name too), `OwnKept` (what can take a profile from the user) |
| `session_stop`, `group_retry`, `daemon_socks` | as above, one property each | violated: section 6 |

Each passing run also checks its module's `TypeOK`. Every property has a mutant in
`PROJECT.json`, a plausible bug in the mapped code that makes the run fail.

*Why the bounds are enough.* Two of a kind are what the interleavings need: one slot, worker,
group, caller or daemon acts while the other is between two of its steps. Channels of
capacity 1 are full after one step and so reach the fallback and drop paths; with the code's
128 or 256 nothing else happens, only later. The buffers of `dispatcher` circulate, so a slot
can be kept busy for ever. A drop with *two* full workers needs more buffers than that run
has; `DropOnlyWhenFull` is therefore also proved for all constants. The window and the field widths of `obfs` keep the code's proportions: the
window is a small part of the timestamp circle, and several sequence-number cycles fit in one
of timestamps. With one captcha per chain and three attempts, every retry loop of `creds` is
entered again after each kind of failure. Three commands are what the longest chain in
`profiles` needs: one that sets something up, one that changes it, and one that acts on the
change while the second still runs; there is no profile at first, but a daemon and an
auto-switch daemon run, and a flag may stand in `status.json`, which all outlive the removal of
their profile. Daemons meet pairwise: what one takes from another
needs no third.

*Deadlock* is not checked in most runs, because their systems are meant to end. In `daemon`
they can also stop unintentionally: see the orphaned interface in section 6.

## 4. Fairness

* A goroutine that can take a step of its own eventually does (WF): Go's scheduler is
  preemptive. Nothing is assumed of the network, the server, VK, the captcha solver or the
  user, except that time passes: deadlines and context timeouts expire.
* SF stands for the two places where Go promises more than that. A `select` picks among its
  ready cases at random, so a case that is ready again and again is not passed over forever
  (`StopSeen`, `TickerEnds`, `ReaderSeesDone`, `WriterSeesDone`). A semaphore channel and a
  `sync.Mutex` serve waiters in order (the mutex through its starvation mode), so a goroutine
  that waits for one that is released again and again gets it (`AcquireSem`, `Refresh`,
  `CallStep`, `AuthWipe`).
* Dispatcher: the writer polls `PrioCh` before it comes to the `select` with `sessCtx.Done()`, and
  drains both channels before it ends. No fairness helps a writer that always finds another
  packet where it looks first; `CancelledSlotLeaves` excepts such a slot (`Flooded`) by what the
  writer does, not by a bound on the packets.
* In Session a read times out unless packets keep coming. With DTLS they cannot keep coming
  once `pumpIn` has ended, hence `SF(mode = "dtls" /\ ReaderTimeout)`; there is no such
  assumption in the other modes, and `SessionEnds` excludes exactly the deadline race that
  `StopEnds` shows.
  `WF(Done /\ WriterEnds)` is the Dispatcher's `CancelledSlotLeaves`, with its exception.
* Creds: `WF(CtxEnds)` are the 20 s and 30 s timeouts of the callers' contexts; nothing makes
  VK or the user answer. `handleAuthError` runs to its end (`WF(AuthStep)`); nothing makes a
  session fail.
* Daemon: WF on the control flow between tries, SF on the stop channel. Nothing is assumed of
  Core's events, of resumes or of the commands.

## 5. Proofs

Safety is proved for every value of the constants that satisfies the named assumptions.
Each proof module extends its component and has one lemma per action (or group of actions with
one shape) and per conjunct of the inductive invariant.

* `DispatcherProofs`: `TypeCorrect`, `SendsAreSafe`, `PointerInRange`, `ChunksStayTogether`,
  `DropsAreForced`, `BuffersOwnedOnce`, `SmallFirst`: every safety property of the module, for
  any slots, buffers and capacities. The first invariant is `TypeOK /\ Registered /\
  NoSendOnClosed /\ RRInRange`; `Registered` (a slot that is up or stopping is in the list, one
  that is new has no writer yet) is needed because `Unregister` removes a slot under the lock and
  closes its channel after unlocking. `ChunkAffinity` is inductive together with it: whenever the
  count is not zero, the pointer is at the worker of the last bulk packet, because `Unregister`
  resets the count whenever it moves the list. The second invariant, `Flow`, is about the
  buffers: the holders (each channel, each writer's hand, the pool) partition them. "In one
  place" is a cardinality in the property and disjointness in the invariant, which is what a
  step can be seen to preserve.
* `RtpObfsProofs`: `NoncesNeverRepeat`, `TypeCorrect`, `NeverReplayed`, `NothingInWindowLost`:
  every property of the module. On the sender's side the invariant `Drawn` says that every
  counter value in use, in a goroutine's hands or sealed, was drawn below the current count and
  is in one place only; the heart is `NonceInjective`: two counters
  below 2^48 with equal sequence number and timestamp are equal, because Step * SeqMod + 1 is
  invertible modulo TsMod. For the code's values 62914561 * 4232052737 = 61992961 * 2^32 + 1.
  On the receiver's side it is `RInv`: there are an epoch K (how often the timestamp had wrapped
  when the window was initialized) and a packet m, whose time is `highestTime`, such that every
  packet let in is either in the table, K epochs off its true time, or too old for the window,
  and every entry of the table is of a packet that was let in. With that, extending a 32-bit
  timestamp to the value nearest `highestTime` is exact, because what is on its way is less than
  half a circle away. A purge removes only what is too old: the table has room for a whole
  window, 4096 * 961 < 960 * 8192 in the code (`WindowAssumption`).
* `SessionProofs`: `TypeCorrect`, `BalancedAlways`, `SlotUsableAlways`, `JoinedAlways`, for any
  number of sessions in any mode. `Staged` says what is open where main is: the connection from
  the end of the handshake to the deferred `Close`, the slot from its registration to the
  deferred `Unregister`, which comes before, the proxy goroutines only while the proxy runs, and
  none after they have been joined. `Balanced` then follows
  session by session: a step moves at most one of them into or out of the sets it counts.
* `WorkerGroupProofs`: `TypeCorrect`, `SingleFlight`, `OneRenewal`, for any number of workers.
  The invariant is `TypeOK /\ ConfigInv /\ RefreshInv /\ StartInv`: `ConfigInv` says that the
  flag is up exactly while one worker's session is the asking one or after the delivery, and
  where that worker can be; `RefreshInv` that a renewing worker holds `refreshMu` and is alone;
  `StartInv` that no worker runs before the group started it.
* `CoreProofs`: `TypeCorrect`, `OnlyUnjoinedPanic`, and `Implementation`, the refinement of
  CoreService, for any number of groups and any capacity. The invariant adds to the types
  `WayDown` (how far main has come decides which groups and loops are over), `Speakers` (who can
  be inside `emit`, and that the last event is main's alone) and `Cascade` (the groups that were
  granted credentials are a prefix). The refinement has one lemma per action that names its step
  of the service or shows that it stutters.
* `CredsProofs`: `CredsTypes`, `LockoutIsQuiet`, `FetchOnlyNeeded`, `CaptchaNoLeftover`: every
  safety property of the module, for any callers, sessions, Cores, caches and links. The
  invariant is `TypeOK /\ Serialized /\ RoomLeft /\ LockoutQuiet /\ Held /\ FetchNeeded /\
  WaitsFresh /\ NoLeftover`: `Serialized` and `Held` (whoever is past a mutex holds it) are what
  makes the others inductive, and `WaitsFresh` says that from its drain on a request's channel
  is empty or holds something sent since. The many steps of a fetch are reduced to three shapes
  (it goes on, asks, ends), and each conjunct is proved once per shape.
* `DaemonProofs`: `TypeCorrect` and the action properties `RoutesAreTracked`, `ExitsAreClean`,
  `DisconnectsFree`, for any number of daemons with any flags. First come lemmas on what each
  function of Network does to the four fields of the kernel. The invariant has three parts.
  `Settled`: a process whose tunnel is not configured keeps no TURN route, and no bypass route
  but a late reload's; a dead one keeps nothing. `Linked`: `wg-qwdtt` is that of a tun daemon
  which is configured or dead (after SIGKILL), `raw-qwdtt` that of a living one; the conflict
  checks of `connect` are what preserves the first when a killed daemon comes back.
  `Commanding`: of the daemons a command is about, those it has come to are dead, but for the
  one whose two seconds it waits and the one it does not kill (`skipKill`). Every step of a process is shown to be a `ProcStep`, from
  which the invariant and the three properties follow once; the commands have four more shapes.
* `ProfilesProofs`: `TypeCorrect`, `ListedAlways`, `ToldAlways`, `OwnAlways`: every property of
  the module, for any number of commands, any names, subscriptions and server answers.
  `ProfilesAssumption` says that users type names and groups that exist, that subscriptions are
  named as profiles are (an unnamed entry gets its subscription's name) and that the empty
  name is none. The invariant has four parts. `Typing`: also which arguments a command has and
  what it holds where it is. `Informed`: what a command has read and nobody changed since is
  still as it read it; each command relies on different files (`KnowsOne`, `KnowsMv`,
  `KnowsList`, `KnowsSubMv`). `Accounted`: every managed profile, stored or half written, is on
  its list, or the list is spoilt, or a `sub update` has yet to write the list or a `sub mv` to
  take the profile along. `Truthful`: `status.json` says what was reported of every profile that
  did not inherit a flag, and what a command holds to be written there says it too; a `mv` that
  finds no flag leaves less to be said, never something else (`FewerWords`). `OwnKept` follows from the first two, step by step.
  Looking for the invariant showed that `ManagedListed` and `OwnKept` had been stated too
  strongly: directed runs with four commands, three at a time, found an overtaken `sub rm`
  that leaves a member without a list, and a `sub update` that replaces a profile which `sub mv`
  took over. Both properties now name these cases.

Only model-checked: all liveness properties (`CancelledSlotLeaves`, `SessionEnds`, `GroupStops`,
`ShutdownCompletes`, `ErrorsInvalidate`, `CallsReturn`, `StopExits`), because TLAPS has no support for ENABLED and
fairness here. Every invariant and action property of every passing run is proved. Facts that
need induction over data are out of the prover's reach, and no module a proof uses declares a
RECURSIVE operator.

## 6. Findings and other observations

Three runs show that the code does not do what it says:

* `session_stop` / `StopEnds`: in the modes without DTLS the reader can overwrite the deadline
  with which cancellation wakes it (`session.go:644`); while the server sends keepalives the
  session, and with it `Stop`, does not end.
* `group_retry` / `ConfigRetried`: after NOCONF the message says "we will repeat later", but
  the in-flight flag stays up for as long as the session lives (`group.go:220`).
* `daemon_socks` / `SocksNoConflict`: a socks daemon that stops or fails deletes the tun
  daemon's `wg-qwdtt` and routes (`connect.go:821`, `798`), although "socks mode does not
  conflict with it" (`connect.go:437`).

Met while modelling, described by properties or by the hazards in `PROJECT.json`:

* `PanicOnlyUnjoined` is as strong as the code allows: the statistics ticker (`core.go:300`)
  and the configuration reader (`core.go:337`) are not waited for and may send on the closed
  event channel, which panics. The property says nobody else can.
* A slot can be starved. The writer looks into `PrioCh` before it can see `sessCtx.Done()`
  (`session.go:604`), and its deferred drain goes on for as long as it finds packets, while
  `readLoop` keeps filling the channels of a slot that is still registered. A stream of small
  packets that never lets `PrioCh` run empty keeps a cancelled session alive.
  `CancelledSlotLeaves` holds for all other slots.
* The goroutine that should announce a deliberate disconnect in raw mode ("so that the server
  frees the slot at once", `session.go:528`) selects between a context and its child
  (`session.go:533`), both of which are then ready, and nobody waits for it: it may say nothing.
* A `BL_RELOAD` that ends outside the configured time of a daemon adds routes that `os.Exit`
  leaves behind; `ExitClean` excludes exactly those.
* A tun auto-switch daemon clears `active_profile` after its first failed profile and never
  sets it again. If `disconnect` has to kill it later, `wg-qwdtt` stays: `connect` then refuses
  because of it and `disconnect` finds no process. `DisconnectFrees` is stated for daemons
  that `active_profile` names, and for those that `connect --toggle` stops. `disconnect --all`
  skips the auto-switch daemon when it looks for the active profile, with the same result.
  `connect --toggle` asks for auto-switch's current profile after clearing it, so the state
  file and the saved routes stay.
* `disconnect` and the profile auto-switch is on. A socks auto-switch daemon is on profile x, and
  the user starts `connect x` in tun mode beside it. `disconnect x` then only sends SIGUSR1 to
  auto-switch and returns (`commands.go:1571-1583`): the daemon of x keeps running.
  `disconnect --all` stops auto-switch and, because x was its current profile, skips the kill of
  x's own daemon too (`commands.go:1760`), although it removes x's state file.
  `DisconnectFrees` excepts exactly this daemon; without the exception TLC finds the trace in
  eleven states.
* Two tun daemons started together both pass the check for an existing interface; the second
  takes the interface from the first.
* Bypass routes are added for the TURN servers known when the configuration came; those of
  later groups are not bypassed.
* SIGKILL during the connectivity test leaves the routes to TURN servers and the split routes
  that were not yet saved.
* A context cancelled while a captcha is being solved sets the 60 s lockout; a captcha result
  does not say which request it answers, so a late answer to an earlier captcha that is sent
  after the next request's drain (`creds.go:1218`) is taken for its answer; `NoLeftover` is about
  what was sent before the drain. The branch for `errCaptchaSessionExpired` is never
  taken.
* Two sessions that fail together can both find the error window over and both reset the count,
  so that one of the errors is not counted (`creds.go:347-352`). It costs an error, never the
  invalidation, as long as they go on failing (`ErrorsInvalidate`).
* Subscriptions and the user's own profiles. `sub update` and `sub rm` delete every name on the
  stored list, in both branches of the test for the owner (`subscription.go:267-275`): a
  profile that the user put there with `add` since goes too. `sub mv` makes such a profile
  the subscription's, and a later `sub update` that offers its name replaces it. `OwnKept`
  excuses these. "Other profiles cannot be added to the
  subscription's group" (the repository's README, 625) holds for `edit -groups` only: `import`
  takes any `groupName`, and `add` over a managed profile keeps its groups.
* `sub update` killed after its first profile, and `sub mv` killed before its last, leave managed
  profiles that no list names; `rm` and `mv` refuse them. `ManagedListed` excludes exactly what a
  killed or overtaken command left. `rm` looks for managed profiles before it asks the
  user: one that `sub add` creates during the question is removed (README, 626).
* `sub mv` skips a profile that does not load at that moment, and an `edit` that had read a profile
  before writes it back with the old subscription's name: both end with a managed profile that
  no list names. `ManagedListed` counts these lists as spoilt and says that there is no other way.
* `rm` leaves a profile's entry in `status.json`. `disable x`, `rm x`, `mv a x` makes `a`
  disabled when `a` has no entry of its own, although `renameProfile` says that it updates
  `status.json` (`profile.go:166`). `StatusTold` excepts the profile that inherited such a flag,
  until enable or disable speaks of it again, and no other.
* `status.json` is read, changed and written as a whole by commands that know nothing of each
  other: of `disable a` and `disable b` at the same time one may be lost, and a command that reads
  the file while another is writing it sees "everything is enabled" and, with `enable`,
  `disable` or `mv`, makes that permanent. `StatusTold` excuses exactly these two cases and a kill
  in the middle of writing.

## 7. Not modelled

* AEAD, DTLS, TURN, WireGuard, gVisor and wireproxy: external. The HTTP exchanges with VK,
  their JSON and the automatic captcha solver: only their outcomes.
* SOCKS5 mode beyond its effect on kernel and files, DNS over HTTPS, statistics, key
  derivation, wording of errors; the byte layouts.
* `RunPing` (used by `test` only), the nftables rule, addresses and MTU, IPv6.
* In Profiles: parsing of links, priorities, device ids, read-only (`ro-`) profiles, which every
  command refuses first, and failing disks. Daemons that start or stop during a command: `mv`
  looks for one once, and a profile's daemon does not change its file.
* The commands that change nothing (`list`, `info`, `log`, completion), `test`, and the black-list
  editor, which is an interactive loop over one text file.

## 8. Plan

Done, in the order of importance: the data path (Dispatcher, RtpObfs), the session, the group
and the Core around it with the service it implements, the credentials, the daemons and their
kernel state, the stored profiles; proofs of the safety properties of all of them.

Next:

1. The registration of TURN servers per group, so that the missing bypass routes of later
   groups can be stated.
2. Pure functions checked against reference definitions: `ParseHashes`, the split of workers
   into groups in `Start`, `patchWGConfig`, the order of profiles.
