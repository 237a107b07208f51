# IntranetProxy: TLA+ specifications

IntranetProxy exposes servers behind a NAT. A *proxy client* beside the private
servers keeps a control connection to a public *proxy server*. A *user* who
connects to a public port of the proxy server is tunnelled, over a pooled data
connection between server and client, to the *backend* the configuration gives
for the port.

    user --TCP--> proxy server ==control/data connections==> proxy client --TCP--> backend

This directory models that protocol, checks it with TLC on small instances and
proves part of it with TLAPS for every instance. `S/` below stands for
`src/proxy-server/src/main/java/com/hklh8/server/`, `C/` for
`src/proxy-client/src/main/java/com/hklh8/client/` and `P/` for
`src/proxy-common/src/main/java/com/hklh8/common/protocol/`.

## Inventory

| component | source | state | operations |
|---|---|---|---|
| server channel handlers | `S/handlers/` | attributes of the channels: NEXT_CHANNEL, USER_ID, CLIENT_KEY | AUTH, CONNECT, DISCONNECT, TRANSFER from the client; active, read, inactive of users; inactive of control and data connections; back-pressure |
| server registries | `S/ProxyChannelManager.java` | `cmdChannels` (key to control connection), `portCmdChannelMapping` (port to control connection), per control connection CHANNEL_PORT, CHANNEL_CLIENT_KEY, USER_CHANNELS | `addCmdChannel`, `removeCmdChannel`, `onChanged` with `checkAndClearUserChannels`, add, remove and get a user |
| configuration store | `S/config/ProxyConfig.java` | three maps, a JSON file, listeners | `update`, queries |
| server bootstrap | `S/ProxyServer.java` | bound ports | start, bind the user ports again when the configuration changes |
| page templates | `src/proxy-server/src/main/resources/static/template/template.js` | options, modifiers, functions shared by all pages | `template(text, data)` compiles and renders; configure, register |
| client channel handlers | `C/handlers/` | NEXT_CHANNEL of data and backend connections | CONNECT, DISCONNECT, TRANSFER from the server; connect callbacks; read, inactive of backends; inactive of control and data connections; back-pressure |
| client registries and pool | `C/ClientChannelManager.java` | `proxyChannelPool`, `realServerChannels`, `cmdChannel` | borrow, return, remove a data connection; clear the backends |
| client control session | `C/ProxyClient.java` | back-off time | connect and authenticate, reconnect |
| messages, codec, idle check | `P/` | the undecoded bytes; timers | encode, decode; heartbeat, close when idle |
| traffic metrics | `S/metrics/` | a collector per port with five atomic counters | count, report, report and reset |
| Go client | `src/go/src/main/` | read buffer, heartbeat timer, connection pool under a mutex, `NextConn` links | the same protocol as the Java client |
| web administration, TLS contexts, client bootstrap, pages | the rest | none of the protocol's | reads and updates the configuration |

How they interact. A user's `channelActive` finds the control connection of its
port, registers itself in its USER_CHANNELS, stops being read and sends CONNECT.
The client connects to the backend, borrows a data connection from its pool (or
opens one), binds the two and sends CONNECT with the user's id on the data
connection. The server then binds user and data connection and reads the user
again. TRANSFER carries data both ways. When either side leaves, DISCONNECT on
the data connection unbinds the other side, and the client returns the data
connection to the pool for the next user. Losing the control connection closes
the users at the server and the backends at the client, and the client connects
and authenticates again. Saving a configuration swaps the maps and calls
`onChanged` on the thread of the web request, which moves routes, removes
clients and closes users whose backend changed.

What is hard:

* Handlers of different channels run on different event loops and share the
  registries; only `addCmdChannel` and `onChanged` take a lock, and a user, its
  control connection and its data connection are three channels.
* Data connections are reused: messages of an old session and of a new one
  follow each other on one connection, and the two ends are bound and unbound at
  different times.
* Either end of a connection may fail at any time; what was in flight is lost,
  the other end notices later, and the client may be back with a new control
  connection before the server has cleaned up after the old one.
* A user waits unread for a round trip through three other channels.
* The configuration changes under all of this, from several threads, and is read
  more than once by one handler.
* The file of the configuration is emptied before it is written, and listeners
  may throw half way.
* A byte stream is cut anywhere, one length is a single byte that the two
  clients read differently, and messages are decoded from what is left over.
* Whether an idle connection stays up depends on four timers, a round trip, and
  a `wait()` on an event loop that other connections need.

What makes each component correct: at the server, a port leads to the registered
live connection of its key, every open user is supervised by it, and a change of
the configuration closes whoever it makes outdated; at the client, a pooled data
connection is idle and in the pool once; between them, the two ends of a data
connection are never in different sessions, a session's bytes reach that
session's backend in order and nobody else's, users end up bound or closed, and
what a departed user held is released. The store's maps, file and listeners
agree; every byte counted is reported once; every message that fits arrives as
it was sent; an idle connection stays up and a dead one is noticed; a page shows
the data it was given.

## Modules

| module | models | correspondence |
|---|---|---|
| `Links` | the connections between client and server | One FIFO queue per direction; `sEnd`, `cEnd` are the two ends: `open`, then `dead` (inactive, its `channelInactive` still to run), then `closed`. Writing to a connection with an end gone is lost (`SendToC`, `SendToS`), closing drops what was unread, end-of-stream comes after the queue. Netty and TCP are external: the module says what the handlers rely on. |
| `ServerSide` | `ServerChannelHandler`, `UserChannelHandler` and the calls they make to `ProxyChannelManager`, for one key and one port | One action per handler and outcome: `UserActive`, `RecvAuth`, `ServerCtlInactive`..., and two for CONNECT on a data connection: `GetUser` looks the user up, `BindUser` binds it, and `looked` is who is in between. `cmd` is `cmdChannels[key]`, `portCmd` is `portCmdChannelMapping[port]`, `granted` says whether the configuration gives the port to the key. |
| `ClientSide` | `ClientChannelHandler`, `RealServerChannelHandler`, `ClientChannelManager`, the connect callback of `ProxyClient` | One action per handler or callback, and two for the borrow of a pooled connection, which `poll()` (`RealConnectedPooled`) and `success` (`BindPolled`) take on the loop of the backend while the connection has its own. The backend connection made for user `u` is named `u`; user ids are never reused (`newUserId`) and CONNECT makes one backend connection. |
| `Tunnel` | the composition | `EventLoops` is what the Netty loops run; users, backends, operators (`ConfigStep`) and failures (`BreakStep`) are the environment. Properties of the tunnel. |
| `BytePipe` | the abstract promise of one direction of a tunnel | Each session's chunks come out in the order they went in, without gap, duplicate or stranger; perhaps not all. `Tunnel!UpstreamPipe` is `BytePipe!Spec` with `sent <- uSent`, `got <- gotReal`. |
| `Registry` | `handleAuthMessage`, `addCmdChannel`, `removeCmdChannel`, `onChanged` for several keys, ports and connections | One step per access to a shared map, the lock where the code takes it. `pc`, `ch`, `rest`, `list`, `held` are the locals of the thread, one thread per control connection and `Web` for the thread that saves configurations. |
| `UserChannels` | `UserChannelHandler`, the rest of `ServerChannelHandler` and of `ProxyChannelManager`: users against data connections, sweeps and `onChanged` | One step per access to USER_CHANNELS, to a registry, to the attributes of another channel or to the configuration. One thread per user, data connection and control connection, and `Web`; `pc` of a user is also its life cycle. `close()` by another thread is a request (`closing`) that the user's own loop carries out between two handlers. The client is what it may send: CONNECT on a data connection it uses for nobody, DISCONNECT when a backend is not reached, and DISCONNECT when a backend closes, on the data connection that backend had, whoever uses it by then. A configuration moves the port, takes it away, or takes the key away (`NoKey`), which runs `removeCmdChannel` on `Web`. `checked` is auxiliary: who was registered when the last check of `onChanged` began. |
| `Store` | `ProxyConfig.update` on several threads, `config.json`, the listeners `ProxyServer.onChanged` and (as one step that reads and one that applies) `ProxyChannelManager.onChanged`, start, crash | A configuration is a sequence of mappings; `keysOf`, `lansOf`, `clientsOf` say from which one each of the three maps is made. |
| `Metrics` | `MetricsCollector`, `BytesMetricsHandler` for one port | One step per access to the map of collectors or to a counter; collectors are objects, so that a second one for the port could exist. |
| `Framing` | `ProxyMessageEncoder`, `ProxyMessageDecoder`; `Encode`, `Decode`, `Listen` and `start` of the Go client | A message is its two lengths; the stream and the buffers are numbers of bytes; `frmSpare` is the capacity behind the Go slice. |
| `KeepAlive` | `IdleCheckHandler` at both ends, the heartbeat answer, `startHeartbeat` of the Go client, `reconnectWait` | Time is counted in ticks; a tick waits until what is due has been done. |
| `Template` | `template(text, data)` of `template.js` with the options it starts with, as the pages call it | A text is a sequence of tokens; `parse` makes instructions of it, `Page` what they render for the data. |
| `MCTunnel`, `MCRegistry`, `MCUserChannels` | instances for TLC | symmetry sets, keys and configurations, the view and the bounds of `users` |
| `MCParts` | the composition of `Store`, `Metrics`, `Framing`, `KeepAlive` and `Template` for TLC | they share no state: `part` chooses one of them and the others stutter |
| `TunnelProofs`, `TunnelBindingProofs`, `RegistryProofs`, `UserChannelsProofs`, `StoreProofs`, `MetricsProofs`, `WireProofs` (of `Framing` and `KeepAlive`) | proofs | see below |

`Tunnel`, `Registry` and `UserChannels` look at the same calls at different
grains. In `Tunnel` a handler is one step, except for the two that another loop
can enter with effect (above), so that sessions, failures and the client fit in.
In `Registry` it is split at every shared access, with several keys and ports
and without users. `UserChannels` has one key with one port, and splits what
happens to its users as finely.

Operators such as `RoutesKept`, `RealInactiveReturns` or `AmpersandLast` beside a
definition are variants of it with a plausible mistake. No action uses them;
they are there to see that the properties notice.

### What the models leave out

* **Interleavings inside a handler of `Tunnel`.** `UserActive` takes its two
  lookups, the registration and CONNECT in one step, `PortRevoked` and
  `LanChanged` the swap of the configuration and all of `onChanged`, `RecvAuth` and
  `ServerCtlInactive` all of `addCmdChannel` and `removeCmdChannel`. Three of its
  properties are true between handlers and not inside of them:
  `OpenUserSupervised` and `WaitingUserPending` (a user that registers behind the
  sweep, `users_sweep`), and `RouteIsRegistered` (`addCmdChannel` publishes the
  route before the registration; `Registry` has the steps). For the same reason
  `Tunnel` makes no claim about who is served on a revoked port: a user inside
  `channelActive` when the port is revoked registers after the check and is served
  on it. What the code does provide is `CheckedUsersAreCurrent`, stated and proved
  in `UserChannels`, where all of this is taken apart.
* **The backends of `UserChannels`** are known by their DISCONNECTs only: TRANSFER
  changes nothing at the server and is in `Tunnel`. `BackendReachesItsUser` says to
  whom it would go.
* **Payloads** are ordinals, user ids and keys are model values. Messages the
  handlers refuse before they change anything (no uri, no `@`) are left out.
* **Back-pressure**, `channelWritabilityChanged`, which also toggles AUTO_READ. It
  delays reads, except that at a user without a route it closes the user.
* **Lists of ports** are sets. `addCmdChannel` stores the list of the
  configuration itself in CHANNEL_PORT, and `onChanged` changes it in place; the
  models give every connection a list of its own, which is the same as long as
  the connections of one key do not overlap with a change.
* **Iterators** over `ConcurrentHashMap` see every entry once, in any order; in
  `UserChannels` also entries that are added meanwhile, or not. The
  iterator over CHANNEL_PORT throws or ends when the list changes under it
  (`UnrouteThrows`, `UnrouteDone`).
* **Time**: outside of `KeepAlive`, an idle time-out is a failure that may come at
  any time, back-off a delay of any length, and heartbeats change no state.
* **Overlapping updates** of the configuration may leave the three maps and the
  file with different configurations (nothing orders them). `Store` models it;
  `QuietStoreAgrees` is claimed for updates that ran alone, `ListenersFollow` for
  all that did not throw.
* **The goroutines of the Go client**: its pool and the links between connections
  are changed by several goroutines without synchronization
  (`proxy_conn_pool.go:28`, `main.go:225-237`). At the grain of single accesses
  hardly any property of sessions survives, and neither code nor docs promise one;
  its codec and its heartbeat, which run on one goroutine each, are modelled.
* **After the Go client reconnects with undecoded bytes** in `readBuf`, its
  stream is shifted (`GoReconnect`) and what it decodes is arbitrary: the model
  stops there.
* **Templates**: JavaScript in a text is the output of a name, the head of a loop
  over rows and its end; the one `if` of a page is left out, loops are not nested.
  Of the library, `config`, registered functions and modifiers, compression and the
  checks of argument types are left out: no page uses them. The escaped form
  `<%=name%>` is kept, since it is the default of the syntax; the pages print with
  `<%:=name%>`.
* A backend connect that never completes: the connect callback always runs
  (Netty's connect time-out).

## Runs

A bound is a constant of the run: `MaxBreaks` failures, `MaxUp` chunks per user,
`MaxDown` chunks per backend, `MaxReconfigs` configuration changes, `PoolMax` for
MAX_POOL_SIZE. `Ctls` bounds the client's sessions (one more than the number of
reconnects), `Versions` lists the configurations in the order they are saved.
Users, connections and sessions are used up in every run, so it may stop: the
runs do not check for deadlock, and liveness is checked as properties instead.

| run | instance | shows |
|---|---|---|
| `tunnel_stable` | 2 users, 2 data connections, 1 session, no failure, 1 chunk each way, pool bound 0, fair | `WaitingUserResolved`, `BackendReleased`, `ProxyReleased`: whatever users and backends do, a waiting user is bound or closed, and what a departed user held is released. The second return finds the pool full, so both ways out of it occur. |
| `tunnel_faults` | 2 users, 2 data connections, 2 sessions, 1 failure, 2 chunks up, pool bound 0 | `TypeOK`, `BindingAgreement`, `PoolExclusive`, `OneUserPerProxy`, `OpenUserSupervised`, `LeftUserAnnounced`, `NothingAbandoned`, `UpstreamPipe` with the failure of any connection end or of a borrow at any point, between `poll()` and the binding too, and a reconnect. |
| `tunnel_reconfig` | the same with 2 configuration changes, 1 failure, no data, pool bound 1 | `RouteIsRegistered`, `WaitingUserPending`, `BindOnceWhileOpen` while the port is revoked, given back or pointed at another backend, between the lookup of a user and its binding too. |
| `tunnel_reuse` | 2 users, no failure, fair | violates `DisconnectedByItsBackend` (below) |
| `tunnel_revoked` | 1 user, 1 change, fair | violates `ClientNotified` (below) |
| `registry_reconfig` | 2 keys, 1 port, 3 sessions, 4 configurations that move the port there and back, then again with one key taken out | `TypeOK`, `RegisteredReady`, `RoutesExact` over every interleaving of authentication, removal and `onChanged` |
| `registry_putback` | 1 key, 2 ports, 3 sessions, 1 configuration | violates `RouteAlive` (below) |
| `registry_resurrect` | 2 keys, 1 connection, 3 configurations | violates `RegisteredAlive` (below) |
| `users` | 2 users, 1 data connection, 2 control connections, 1 change: the port moved, revoked, or its key removed | `TypeOK`, `SettledUserRegistered`, `BoundPairAgree`, `BackendReachesItsUser`, `CheckedUsersAreCurrent`: whatever interleaves, no user leaves the registry without being closed, the two ends of a binding agree while the user is open, what a backend sends goes to its own user or nobody as long as that user is not gone, and whoever `onChanged` found registered is closed or current |
| `users_sweep` | 2 users, 1 data connection, 1 control connection | violates `SweptUsersClosed` (below) |
| `users_stale` | 1 user, 1 change | violates `KeptUserIsCurrent` (below) |
| `components` | see below | one part after the other: `PartsTypeOK`; `Store`: `ListenersFollow`, `QuietStoreAgrees`; `Metrics`: `MetricsConserved`, `GaugeIsOpenChannels`; `Framing`: `MessagesArrive`, `NothingHeldBack`; `KeepAlive`: `IdleStaysUp`, `SilenceDetected`; `Template`: `EscapedValueIsShown`, `TextIsKept` |

Why the bounds are enough. Mixing up sessions needs two users and one data
connection used twice, with a second one to tell "reused" from "the only one".
A late clean-up needs two sessions; a third one at the registry lets two removals
overlap with an authentication. Order, gap and duplicate show with two chunks.
One failure already loses messages in either direction at every point; two
changes take the port away and give it back. `PoolMax` 0 reaches the full pool
with two data connections (the code lets one more in than the bound), 1 leaves
room for both. The ports of a connection are treated one after the other by the
same code, so one is enough to find a wrong route; `registry_putback` has two.
`registry_reconfig` moves its port back because only then can the removal of an
old session meet the route of another connection while the next session of its own
key takes the port. Its constraint `LastBySecond` lets the last configuration come
only while one session of the first key has not begun.

In `users`, the constraint `OneDisturbance` keeps one thing at a time difficult.
With one control connection, up to three handlers run at once while the first
configuration is in force or the port is revoked, two when it is moved or the key
removed; or the first configuration stays, a second control connection comes, and
up to two run. `OneSave` lets one configuration be saved, any of the three. Data
connections and users are interchangeable, and so are control connections
(`Symmetric`). The view `Live` leaves out
locals of handlers that have ended and attributes of closed connections, on which
neither later steps nor the invariants of the run depend. One data connection
that two users use in turn is the case in which bindings could be mixed up.

The bounds of `components`:

* `Store`: two savers, three documents (one of them uses a port twice), a port
  another program has (2) and a port that cannot be bound (3). Two savers overlap
  at every point, and a crash comes at any.
* `Metrics`: two channels, one reporter, three messages of two bytes. Two channels
  race for the collector; a report of four reads meets both halves of a count.
* `Framing`: two messages per connection, reads of 1, 3 and 8 bytes, a read
  buffer of 8 bytes for 8192, MAX_FRAME_LENGTH of 264 bytes for 2 MB: large
  enough for every length of a uri byte, and reached by one message. Uris are at
  0, 1, 127, 128, 254 and 256 bytes.
* `KeepAlive`: a tick is 10 s, a message takes one at most, one application
  message is under way at a time. `LongWait` is 8 s: the back-off waits up to it
  do no harm to a connection of the same loop, the longer ones can.
* `Template`: four texts with the constructs of the pages (one does not compile),
  values of up to two tokens for the escaping, and rows with and without a name.

`RoutesExact` is claimed only when nothing *disturbed* the registries: no two
AUTHs of one key, no two removals and no configuration change with either have
overlapped, and no removal has put back the channel it removes, or a route over a
newer one. The code coordinates none of these, and each breaks the exactness of
the routes (`registry_putback` and `registry_resurrect` are two such histories).
What is left, a removal with the next session's AUTH, is what the put-back in
`removeCmdChannel` is written for.

The overwritten route came out of the attempt to prove `RoutesExact` without
that condition. A port moves from client A to client B and back while A's
connection is down but not yet removed, so that A's CHANNEL_PORT still has the port,
and B has closed too. The removal of A's old session takes out B's route and is
about to put it back; A's next session authenticates and routes the port to
itself; the put-back overwrites that, and B's own removal then deletes it. A is
connected and registered, and its port leads nowhere until it connects again. No
comment of the code speaks of this case, so it is not among the disagreements
below; `Reroute` records it.

### Fairness

`FairSpec` adds weak fairness of `EventLoops` as a whole: as long as some handler
or callback is ready, one runs in the end. That is what a Netty event loop does,
and nothing is assumed of users, backends, operators and failures. Since every
instance is finite and its handlers only consume (a message, a connection, a
callback), running some ready handler over and over runs each of them, so no
fairness per handler is needed.

The other specifications state no fairness, and their properties are safety.
`SilenceDetected` and `IdleStaysUp` bound times as invariants: in `KeepAlive` a
tick comes only when nothing is overdue, which is the promise of a timer.

### Disagreements with the comments

* `tunnel_reuse`: the client returns a data connection to the pool before the
  backend it served has closed (`C/handlers/ClientChannelHandler.java:64-66`).
  When the backend then closes, its DISCONNECT goes out on that connection
  (`C/handlers/RealServerChannelHandler.java:51-57`) and closes the user who uses
  it by now, although that user's backend is connected.
* `tunnel_revoked`: `UserChannelHandler.channelInactive` ("notify the proxy
  client") tells nobody when the port has lost its route, so the backend and the
  data connection of every user closed by a revocation stay open.
* `registry_putback`: `removeCmdChannel` takes routes out and puts them back
  without the lock. A connection that closes and is removed in between gets its
  route back for good.
* `registry_resurrect`: `removeCmdChannel` called twice for one connection, as
  happens when its key is removed from the configuration, registers the closed
  connection; the key is refused from then on.
* `users_sweep`: `removeCmdChannel` "clears the user channels", but a user that
  found the connection before its route was taken out registers behind the sweep,
  and a user that is removed during the sweep ends it with a NullPointerException
  (`S/ProxyChannelManager.java:181-182`). What is left open is not read and belongs
  to nobody.
* `users_stale`: `channelActive` reads the lan address for CONNECT
  (`S/handlers/UserChannelHandler.java:60`) and `addUserChannelToCmdChannel`
  again for REQUEST_LAN_INFO (`S/ProxyChannelManager.java:202`). With a
  configuration saved in between, the check for outdated users keeps one that is
  connected to the old backend.

`users_sweep` is also the limit of `OpenUserSupervised`: at the grain of `Tunnel`,
where finding the connection and registering with it are one step, every open user
is supervised; step by step a late one is not.

Four more ends are left loose by the code, and no comment speaks of them; the
properties are stated so that they hold around them.

* A late TRANSFER of an old backend takes the way of the late DISCONNECT of
  `tunnel_reuse` and is written to the next user. `BackendReachesItsUser` ends where
  the user of the backend is gone, and `UpstreamPipe` is about the other direction.
* CONNECT on a data connection looks the user up and then binds it
  (`S/handlers/ServerChannelHandler.java:104`, `106-109`). A user that is closed in
  between, because a control connection failed or the configuration changed, is
  bound nevertheless, and its data connection is not used again.
  `BindOnceWhileOpen` promises an open user for `FirstSession` only: there nobody
  closes a user that waits, and it cannot leave because it is not read.
* A pooled connection may fail after `poll()` and before it is bound
  (`C/ClientChannelManager.java:41`, `C/handlers/ClientChannelHandler.java:89`). Its
  `channelInactive` then finds no backend to close (`139-142`), the backend stays
  open, and the user, whose CONNECT is lost, waits for the end of the control
  connection. `NothingAbandoned` says that this is the only such backend, and that
  its user is not bound to it.
* A user inside `channelActive` when its port is revoked is served on it
  (`S/handlers/UserChannelHandler.java:63`), see `CheckedUsersAreCurrent`.

## Proofs

`tlapm` checks every step; nothing is assumed but the named ASSUMEs on the
constants (`LinksAssumption`, `ServerAssumption`, `ClientAssumption`,
`RegistryAssumption`, `UserChannelsAssumption`, `StoreAssumption`,
`MetricsAssumption`, `FramingAssumption`, `KeepAliveAssumption`: disjoint names,
natural bounds and lengths, configurations of known keys and ports), which TLC
evaluates in the runs. `RegistryAssumption` also says that no
configuration gives a port to two keys, which `ProxyConfig.update` refuses.

* `TunnelProofs!TypeCorrect`: `Spec => []TypeOK`, by one lemma per group of
  actions, over lemmas on what sending, reading and closing do to the queues.
* `TunnelProofs` also: `OpenUsersAreSupervised` and `RouteLeadsToRegistered`.
  Neither is inductive alone. The strengthening is `SInv`, their conjunction
  with `RegisteredIsCmd`: every control connection that ever authenticated is
  `closed`, except the registered one, which is not. It is what makes
  `channelInactive` of a control connection clear exactly what is registered: a
  connection with its attributes set whose handler has not run is the registered
  one, so the put-back branch of `removeCmdChannel` is dead here, its routes are
  the routes, its users all the open users. AUTH is accepted only when nothing
  is registered, hence when no user is open and no route is left. `EndStep` and
  `CloseKeeps` reduce the client, the network and the user handlers to two
  facts: server ends only go `unused`, `open`, `dead`, and a user leaves its
  USER_CHANNELS only by being closed.
* `TunnelBindingProofs`: `BindingsAgree`, `PoolIsExclusive`, `ProxiesHaveOneUser`,
  `UsersBindOnceWhileOpen`, the refinement `UpstreamIsPipe` and what it means for a
  session, `ChunksArriveInOrder`; for any users, control and data connections, with
  failures at any moment. They have one inductive invariant, `BInv`, because none
  holds without the others: that two ends agree depends on no CONNECT of an
  earlier session being on its way, that depends on the pool, and the pool on how
  sessions end. `BInv` starts from what happens once: a user is supervised by one
  control connection (`SupervisedOnce`), its CONNECT reaches the client once
  (`AskedBackend`), its backend gets one data connection (`BackendOnce`), and
  that connection asks the server once and is the only one either end is ever
  bound to (`BoundOnce`). On top of it, a live data connection is in one of four
  phases (`Session`): *asked*, with its CONNECT on the way up and nothing on the
  way down; *used*, bound at both ends to one user; *ending*, DISCONNECT being the
  last message on its way down and the server's end already free; *idle*. `Down`
  says what its queue to the client holds: the chunks the backend lacks, in
  order, also when the server's end is gone. Most steps touch one connection or
  one user; `Quiet` says what the others leave alone, and `QuietOrLoud` splits
  `Next` along it, so that each of the loud actions has one lemma. TLC checked
  `BInv` on the constants of `tunnel_faults` and `tunnel_reconfig` before it was
  proved.
* `TunnelBindingProofs` also proves that nothing is forgotten on the way, which is
  what the liveness properties rest on; for any users, sessions, failures and
  configuration changes unless said otherwise.
  * `ClientAbandonsNothing`: the invariant is `AInv`. A data connection of the
    client that is open and bound to nobody is in the pool or polled for one
    backend (`Kept`; `BInv` has the converse), and an open backend is bound to a
    data connection that is open or whose `channelInactive` will run, or to one that
    had failed before (`Attached`), and then its user is not bound to it.
  * `UsersBindOnceWhileOpen`: at most once follows from `BInv`, and that the user is
    open from `LInv` below, while no control connection has failed and the
    configuration stays.
  * `WaitingUsersArePending`: the invariant is `WInv`. `StepStays` says that what
    is on its way stays until it is read or an end closes, `OpenStep`, `AskedStep`
    and `BackendMoves` where each handler takes the CONNECT of a user next, and
    `CurrentSession` that the control connection it goes over is the registered
    one. The case `~Linked(rNext[u])` is not slack: without it TLC finds, in eight
    steps, a data connection that fails with the CONNECT on it. Its user stays
    open and unbound: the server does not know yet that they belong together, and
    only the end of the control connection closes that user. `WaitingUserResolved`
    is therefore checked without failures.
  * `LeftUsersAreAnnounced`, and for the backends `LeftBackendsHaveAnEnd`: the
    invariant is `LInv`. Its heart, `Announced`, follows a data connection that the
    client has bound to a user through three phases with no gap between them:
    CONNECT on the way up, bound at the server, DISCONNECT on the way down. It needs
    that a user whose backend is still to come (`Underway`) is open, since a late
    CONNECT is refused without an answer on the data connection; that who is bound
    is bound at both sides of the server (`BoundBothWays`); and that a backend
    reported as failed is never used (`FailedForGood`). The condition
    `FirstSession` (no control connection has failed, no reconfiguration) is where
    the code stops telling: `channelInactive` of a user whose route is gone
    unbinds nobody, which `tunnel_revoked` shows.

  TLC checked the three invariants on the constants of `tunnel_faults` and
  `tunnel_reconfig` first.
* `RegistryProofs`: `TypeCorrect` and `RegisteredConnectionsAreReady` for any
  keys, ports, connections and configurations, with no condition on races. The
  inductive invariant `IInv` adds that a thread past `AuthAttrs` or inside a
  removal works on a connection with attributes (`WorksOnReady`), that a thread
  of a connection works on that one (`OwnChannel`), and that a removal about to
  put a route back holds one (`HoldsRoute`).
* `RegistryProofs` also: `RoutesAreExact` for any keys, ports, connections and
  configurations. `RoutesExact` speaks of quiet moments only; the inductive
  invariant `RInv` says what holds in between, as long as nothing has been
  disturbed and no removal is about to put back its own channel (`Doomed`): which
  operations overlap (`Alone`), how far the connection of a key is (`Life`), that
  nobody changes a list under a loop (`Lists`). The heart is `Leading`, every route
  leads to a connection whose removal will still take it out, and `AuthRoutes`
  with `Served`, a connection being authenticated, or alive and registered, has
  its ports: it has the route, or a removal holds it to put it back (`Has`).
  `Updating` says how far `updateCmdChannel` is. There is one lemma per part, with
  one step per action; `HasMoves` is what makes taking out and putting back
  another's route invisible.
* `UserChannelsProofs`: `UserTypesCorrect`, `SettledUsersAreRegistered`,
  `BoundPairsAgree`, `BackendsReachTheirUsers` and `CheckedUsersCurrent`, for any
  users, data connections, control connections and configurations, with everything
  at once. `Registered` strengthens the second: a user that is out of USER_CHANNELS
  before its own close is in the hands of a thread that will close it. For the next
  two, `Bindings` follows a data connection from CONNECT to its return: no two
  connections are used for one user (`OneSession`), who is being bound has no
  connection yet (`Binding`), a connection points to the user the client uses it for
  or to nobody (`UserIsSession`), the client uses the connection of a backend for
  the user of that backend until that user is gone (`ServesUser`), and only the user
  a connection is bound to, or the DISCONNECT for it, takes the attributes away
  (`Dropping`, `Releasing`). For the last, `Checked`: each user that the check of
  `onChanged` found is still ahead of it (in `rest`), current, or being closed.
  `Steady` is what keeps it so: REQUEST_LAN_INFO of a registered user never changes.
* `StoreProofs`: `ListenersFollowConfiguration` and `QuietStoresAgree`, for any
  savers and documents, with crashes and failing files and listeners.
  `PortsFollow` and `RoutesFollow` say that what is not yet done for the
  configuration in force has a thread that will still look at it; `OneUpdate` is
  how far the three maps and the file are when nothing has overlapped. The lock of
  `ProxyChannelManager.onChanged` is needed: without it `RoutesFollow` fails.
* `MetricsProofs`: `MetricsAreConserved` and `GaugeIsExact` for any channels,
  reporters and messages. The inductive invariant `MInv` says that there is no
  collector or one (`OneCollector`), that whoever is about to count or to report
  has it (`AtWork`), and that a channel is in `mOpen` exactly between its two
  changes of the gauge, also while it is on its way to a collector (`Opened`).
  Creation under the lock needs the second look at the map: without it a second
  collector replaces the first, and what was counted in it is lost.
* `WireProofs`, the codec: `CodecsAgree` and `NoFrameWaits` for any messages, any
  read sizes and any length limit. `FrmInv` says that each frame was decoded once,
  in order, into what its message decodes to (`InOrder`), that what was sent and
  not decoded is on the wire or in the buffer (`Conserved`), and that `Listen`
  waits only with no whole frame in its buffer (`Waits`). The bytes are counted
  with the positions at which frames end (`Ends`) and not with the fold of
  `FramingTypeOK`, which would take induction over the sequence. `ShortUri` holds
  the arithmetic of the decoders: where eight bits wrap around and a byte turns
  negative.
* `WireProofs`, the idle checks: `SilenceIsDetected` for every length of a tick,
  delay and traffic: a side that is open has been silent for no longer than what
  it last heard is old (`NothingHeard`), and that age is bounded by its own timers
  and the wait of its loop (`HeardLast`). `IdleConnectionStaysUp` has a hypothesis,
  `ShortWay`: the longest delay of a message and, at least, one tick fit into the
  60 s of the read timers beside the 40 s after which the server writes and the 8 s
  that its client's loop may be held (12 s in ticks of one second, one tick of ten
  as in the run). The invariant `IdleInv` bounds what each side last heard by the
  longest pause between two writes of the other (`Pauses`) and the age of the
  oldest message on its way (`ServerHears`, `ClientHears`). The hypothesis is
  tight where it was tried: TLC finds `IdleStaysUp` violated with `Unit = 10`,
  `Lag = 2` and with `Unit = 15`, `Lag = 1`, which are just beyond it.

Only model-checked: `EscapedValueIsShown` and `TextIsKept` of `Template` and the
sum of bytes in `PartsTypeOK`, which are about what folds over sequences compute and
would need induction over data; and the liveness properties `WaitingUserResolved`,
`BackendReleased` and `ProxyReleased`, which are out of the prover's reach: of
these, the safety half (there is always a message, a callback or a failure that
leads on) is proved above, and that it is taken in the end is left to TLC. The six
properties that runs refute have no theorem. Every other property of a passing run
is a theorem.

## Plan

Done: `Tunnel` and its parts, `Registry`, `UserChannels`, `Store`, `Metrics`,
`Framing`, `KeepAlive`, `Template`, and the proofs above. What is left, in order:

1. The server's half of the tunnel at the grain of `UserChannels` as an
   implementation of the bindings of `ServerSide`, as far as the races that
   `users_sweep` and `users_stale` show allow it.
2. Back-pressure (`channelWritabilityChanged`), which shares AUTO_READ with the
   round trip of CONNECT.

## Not modelled

Web administration, TLS contexts, the client's bootstrap and the pages keep no
state of the protocol; the threads of the web administration appear as savers and
reporters. The scripts of other projects that the pages come with (layui, ace)
are not part of this program; `template.js` is small, renders the lists of the
administration and is modelled. The pool and the links of the Go client are left
out for the reason given above.
