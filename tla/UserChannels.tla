---------------------------- MODULE UserChannels ----------------------------
(***************************************************************************)
(* The life of user connections at the proxy server, one shared access at  *)
(* a time: UserChannelHandler on the event loop of each user,              *)
(* ServerChannelHandler on those of the data and control connections, and  *)
(* onChanged on the thread that saves a configuration, over the registries *)
(* of ProxyChannelManager.  One key with one port; the configuration gives *)
(* the port to the key together with a lan address, or not at all, or it   *)
(* has no such key.                                                        *)
(*                                                                         *)
(* A thread runs one handler at a time.  close() of a user by another      *)
(* thread is carried out by the user's own event loop, between two of its  *)
(* handlers (Netty).  Tunnel has the same handlers as single steps, with   *)
(* the proxy client; here the client is what it may send.                  *)
(***************************************************************************)
EXTENDS Naturals, Sequences

CONSTANTS Users, Proxies, Ctls,
          Web,      \* the thread that saves configurations
          None,
          NoKey,
          Lans      \* the configurations that may be saved, one after the other: the lan
                    \* address of the port, None (no port), or NoKey (nor the key)

ASSUME UserChannelsAssumption ==
  /\ Users \cap Proxies = {} /\ Users \cap Ctls = {} /\ Proxies \cap Ctls = {}
  /\ {Web, None} \cap (Users \cup Proxies \cup Ctls) = {} /\ Web # None
  /\ {"none", "asked", "left"} \cap Proxies = {}
  /\ Len(Lans) \in Nat \ {0} /\ DOMAIN Lans = 1..Len(Lans) /\ Lans[1] \notin {None, NoKey}

Handlers == Proxies \cup Ctls \cup {Web}
Removers == Ctls \cup {Web}      \* the threads that run removeCmdChannel
Threads  == Users \cup Handlers

VARIABLES
  pc,           \* what each thread does next; for users also their life cycle
  at,           \* local channel of each handler; of AUTH, the port it was granted
  took,         \* the route that a removeCmdChannel took out of portCmdChannelMapping
  who,          \* user the handler of a thread that is not a user's is about
  asked,        \* lanInfo that channelActive of a user read and sends in CONNECT
  reqLan,       \* REQUEST_LAN_INFO of a user
  closing,      \* users and control connections closed by another thread's close()
  uNext,        \* NEXT_CHANNEL of a user; set together with AUTO_READ true
  pUser,        \* NEXT_CHANNEL (USER_ID, CLIENT_KEY) of a data connection
  pAlive, cAlive,
  cmd,          \* cmdChannels[key]
  portCmd,      \* portCmdChannelMapping[port]
  attrs,        \* control connections whose attributes are set
  hasPort,      \* ... whose CHANNEL_PORT contains the port
  userChannels, \* USER_CHANNELS of each control connection
  keyVersion,   \* configuration clientInetPortMapping is of
  lanVersion,   \* configuration inetPortLanInfoMapping is of
  rest,         \* users a sweep or a check has still to visit
  checked,      \* auxiliary: USER_CHANNELS when the last check of onChanged began
  session,      \* the client: user a data connection was last sent CONNECT for
  request       \* the client: "none", "asked" (CONNECT arrived), "left", or the data
                \* connection the backend is bound to

vars == <<pc, at, took, who, asked, reqLan, closing, uNext, pUser, pAlive, cAlive, cmd, portCmd,
          attrs, hasPort, userChannels, keyVersion, lanVersion, rest, checked, session, request>>

HasKey  == Lans[keyVersion] # NoKey
Granted == Lans[keyVersion] \notin {None, NoKey}
Lan     == IF Lans[lanVersion] = NoKey THEN None ELSE Lans[lanVersion]

UserOpen == {"lan", "request", "register", "ask", "open"}
UserPC   == {"unused", "inactive", "unlist", "next", "unbind", "tell", "gone"} \cup UserOpen
ProxyPC  == {"idle", "find", "get", "bind", "read", "drop", "remove", "close", "unbind",
             "lost", "forget", "end", "closed"}
RemovePC == {"remove", "restore", "unroute", "reroute", "sweep", "visit"}
CtlPC    == {"idle", "route", "attrs", "publish", "close", "done"} \cup RemovePC
WebPC    == {"idle", "lans", "cmds", "ports", "clear", "evict"} \cup RemovePC

Open(u) == pc[u] \in UserOpen

Init == /\ pc = [t \in Threads |-> IF t \in Users THEN "unused" ELSE "idle"]
        /\ at = [t \in Threads |-> None]
        /\ took = [t \in Removers |-> None]
        /\ who = [t \in Handlers |-> None]
        /\ asked = [u \in Users |-> None]
        /\ reqLan = [u \in Users |-> None]
        /\ closing = {}
        /\ uNext = [u \in Users |-> None]
        /\ pUser = [p \in Proxies |-> None]
        /\ pAlive = [p \in Proxies |-> TRUE]
        /\ cAlive = [c \in Ctls |-> TRUE]
        /\ cmd = None /\ portCmd = None
        /\ attrs = {} /\ hasPort = {}
        /\ userChannels = [c \in Ctls |-> {}]
        /\ keyVersion = 1 /\ lanVersion = 1
        /\ rest = [t \in Removers |-> {}]
        /\ checked = {}
        /\ session = [p \in Proxies |-> None]
        /\ request = [u \in Users |-> "none"]

LanSet == {Lans[i] : i \in DOMAIN Lans} \cup {None}
PcTypeOK == /\ \A u \in Users : pc[u] \in UserPC
            /\ \A p \in Proxies : pc[p] \in ProxyPC
            /\ \A c \in Ctls : pc[c] \in CtlPC
            /\ pc[Web] \in WebPC
LocalTypeOK == /\ at \in [Threads -> Ctls \cup {None}]
               /\ who \in [Handlers -> Users \cup {None}]
               /\ took \in [Removers -> Ctls \cup {None}]
               /\ rest \in [Removers -> SUBSET Users] /\ checked \subseteq Users
UserTypeOK == /\ asked \in [Users -> LanSet] /\ reqLan \in [Users -> LanSet]
              /\ closing \subseteq Users \cup Ctls
              /\ uNext \in [Users -> Proxies \cup {None}]
              /\ pUser \in [Proxies -> Users \cup {None}]
              /\ session \in [Proxies -> Users \cup {None}]
              /\ request \in [Users -> Proxies \cup {"none", "asked", "left"}]
RegistryTypeOK == /\ pAlive \in [Proxies -> BOOLEAN] /\ cAlive \in [Ctls -> BOOLEAN]
                  /\ cmd \in Ctls \cup {None} /\ portCmd \in Ctls \cup {None}
                  /\ attrs \subseteq Ctls /\ hasPort \subseteq attrs
                  /\ userChannels \in [Ctls -> SUBSET Users]
                  /\ keyVersion \in DOMAIN Lans /\ lanVersion \in DOMAIN Lans
TypeOK == PcTypeOK /\ LocalTypeOK /\ UserTypeOK /\ RegistryTypeOK

Goto(t, l) == pc' = [pc EXCEPT ![t] = l]
Let(t, c)  == at' = [at EXCEPT ![t] = c]

config   == <<keyVersion, lanVersion>>
registry == <<cmd, portCmd, attrs, hasPort>>
links    == <<pAlive, cAlive>>
client   == <<session, request>>
locals   == <<at, who, rest>>
noted    == <<took, checked>>
users    == <<asked, reqLan, uNext>>
------------------------------------------------------------------------------
(* UserChannelHandler.channelActive                                        *)

(* getCmdChannel(port)                                                     *)
FindRoute(u) == /\ pc[u] = "unused"
                /\ Let(u, portCmd)
                /\ Goto(u, IF portCmd = None THEN "inactive" ELSE "lan")
                /\ UNCHANGED <<noted, who, rest, asked, reqLan, closing, uNext, pUser, links,
                               registry, userChannels, config, client>>

(* getLanInfo(port), sent later; AUTO_READ false                           *)
ReadLan(u) == /\ pc[u] = "lan"
              /\ asked' = [asked EXCEPT ![u] = Lan]
              /\ Goto(u, "request")
              /\ UNCHANGED <<noted, locals, reqLan, closing, uNext, pUser, links, registry,
                             userChannels, config, client>>

(* addUserChannelToCmdChannel reads it again.                              *)
RequestLan(u) == /\ pc[u] = "request"
                 /\ reqLan' = [reqLan EXCEPT ![u] = Lan]
                 /\ Goto(u, "register")
                 /\ UNCHANGED <<noted, locals, asked, closing, uNext, pUser, links, registry,
                                userChannels, config, client>>

(* ... and puts the user into USER_CHANNELS.  A route is published before  *)
(* the attributes: without them this throws, and exceptionCaught closes.   *)
RegisterUser(u) == /\ pc[u] = "register" /\ at[u] \in attrs
                   /\ userChannels' = [userChannels EXCEPT ![at[u]] = @ \cup {u}]
                   /\ Goto(u, "ask")
                   /\ UNCHANGED <<noted, locals, asked, reqLan, closing, uNext, pUser, links,
                                  registry, config, client>>

RegisterThrows(u) == /\ pc[u] = "register" /\ at[u] \notin attrs
                     /\ Goto(u, "inactive")
                     /\ UNCHANGED <<noted, locals, asked, reqLan, closing, uNext, pUser, links,
                                    registry, userChannels, config, client>>

(* CONNECT on the control connection; lanInfo.getBytes() of null throws.   *)
AskBackend(u) == /\ pc[u] = "ask"
                 /\ Goto(u, IF asked[u] = None THEN "inactive" ELSE "open")
                 /\ request' = IF asked[u] # None /\ cAlive[at[u]]
                               THEN [request EXCEPT ![u] = "asked"] ELSE request
                 /\ UNCHANGED <<noted, locals, asked, reqLan, closing, uNext, pUser, links,
                                registry, userChannels, config, session>>
------------------------------------------------------------------------------
(* channelInactive: the user left (seen only while it is read), or its     *)
(* event loop carries out a close().                                       *)
UserLeaves(u) == /\ pc[u] = "open" /\ (uNext[u] # None \/ u \in closing)
                 /\ Goto(u, "inactive")
                 /\ UNCHANGED <<noted, locals, asked, reqLan, closing, uNext, pUser, links,
                                registry, userChannels, config, client>>

InactiveRoute(u) == /\ pc[u] = "inactive"
                    /\ Let(u, portCmd)
                    /\ Goto(u, IF portCmd = None THEN "gone" ELSE "unlist")
                    /\ UNCHANGED <<noted, who, rest, asked, reqLan, closing, uNext, pUser, links,
                                   registry, userChannels, config, client>>

(* removeUserChannelFromCmdChannel: from whatever connection has the port. *)
(* A user that was never registered has no id: remove(null) throws.        *)
Unlist(u) == /\ pc[u] = "unlist"
             /\ userChannels' = [userChannels EXCEPT ![at[u]] = @ \ {u}]
             /\ Goto(u, "next")
             /\ UNCHANGED <<noted, locals, asked, reqLan, closing, uNext, pUser, links, registry,
                            config, client>>

InactiveNext(u) == /\ pc[u] = "next"
                   /\ Goto(u, IF uNext[u] # None /\ pAlive[uNext[u]] THEN "unbind" ELSE "gone")
                   /\ UNCHANGED <<noted, locals, asked, reqLan, closing, uNext, pUser, links,
                                  registry, userChannels, config, client>>

(* The attributes of the data connection are removed, then DISCONNECT is   *)
(* sent on it, and the client may use the connection for another user.     *)
Forget(u) == /\ pUser' = [pUser EXCEPT ![uNext[u]] = None]
             /\ UNCHANGED session
Inform(u) == /\ session' = IF pAlive[uNext[u]] THEN [session EXCEPT ![uNext[u]] = None]
                                               ELSE session
             /\ UNCHANGED pUser
Release(u, first, last) == \/ pc[u] = "unbind" /\ Goto(u, "tell") /\ first
                           \/ pc[u] = "tell" /\ Goto(u, "gone") /\ last

TellFirst(u) == /\ Release(u, Inform(u), Forget(u))
                /\ UNCHANGED <<noted, locals, asked, reqLan, closing, uNext, links, registry,
                               userChannels, config, request>>
OnlyTell(u) == /\ Release(u, UNCHANGED <<pUser, session>>, Inform(u))
               /\ UNCHANGED <<noted, locals, asked, reqLan, closing, uNext, links, registry,
                              userChannels, config, request>>
Unbind(u) == /\ Release(u, Forget(u), Inform(u))
             /\ UNCHANGED <<noted, locals, asked, reqLan, closing, uNext, links, registry,
                            userChannels, config, request>>

UserStep(u) == \/ FindRoute(u) \/ ReadLan(u) \/ RequestLan(u)
               \/ RegisterUser(u) \/ RegisterThrows(u) \/ AskBackend(u) \/ UserLeaves(u)
               \/ InactiveRoute(u) \/ Unlist(u) \/ InactiveNext(u) \/ Unbind(u)
------------------------------------------------------------------------------
(* Data connections.  CONNECT: the client has a backend for u and a data   *)
(* connection that it uses for nobody: one of the pool, where a backend    *)
(* that was bound to it may not have closed yet, or a new one.             *)

ClientBinds(u, p) == /\ request[u] = "asked" /\ session[p] = None
                     /\ pAlive[p] /\ pc[p] = "idle"
                     /\ request' = [request EXCEPT ![u] = p]
                     /\ session' = [session EXCEPT ![p] = u]
                     /\ who' = [who EXCEPT ![p] = u]
                     /\ Goto(p, "find")
                     /\ UNCHANGED <<noted, at, rest, users, closing, pUser, links, registry,
                                    userChannels, config>>

FindCmd(p) == /\ pc[p] = "find"
              /\ Let(p, cmd)
              /\ Goto(p, IF cmd = None THEN "lost" ELSE "get")
              /\ pAlive' = [pAlive EXCEPT ![p] = cmd # None]
              /\ UNCHANGED <<noted, who, rest, users, closing, pUser, cAlive, registry, userChannels,
                             config, client>>

GetUser(p) == /\ pc[p] = "get"
              /\ Goto(p, IF who[p] \in userChannels[at[p]] THEN "bind" ELSE "idle")
              /\ UNCHANGED <<noted, locals, users, closing, pUser, links, registry, userChannels,
                             config, client>>

BindProxy(p) == /\ pc[p] = "bind"
                /\ pUser' = [pUser EXCEPT ![p] = who[p]]
                /\ Goto(p, "read")
                /\ UNCHANGED <<noted, locals, users, closing, links, registry, userChannels, config,
                               client>>

BindUser(p) == /\ pc[p] = "read"
               /\ uNext' = [uNext EXCEPT ![who[p]] = p]
               /\ Goto(p, "idle")
               /\ UNCHANGED <<noted, locals, asked, reqLan, closing, pUser, links, registry,
                              userChannels, config, client>>

(* DISCONNECT, sent once when the backend of u closes, on the data         *)
(* connection it was bound to, whoever the client uses that for now.       *)
BackendLeaves(u) == /\ request[u] \in Proxies
                    /\ pAlive[request[u]] /\ pc[request[u]] = "idle"
                    /\ request' = [request EXCEPT ![u] = "left"]
                    /\ Goto(request[u], "drop")
                    /\ UNCHANGED <<noted, locals, users, closing, pUser, links, registry,
                                   userChannels, config, session>>

(* Without CLIENT_KEY, or when no control connection has the key, it is    *)
(* ignored; otherwise it closes the user the connection is bound to.       *)
DropFindCmd(p) == /\ pc[p] = "drop"
                  /\ Let(p, cmd)
                  /\ Goto(p, IF pUser[p] = None \/ cmd = None THEN "idle" ELSE "remove")
                  /\ UNCHANGED <<noted, who, rest, users, closing, pUser, links, registry,
                                 userChannels, config, client>>

DropRemove(p) == /\ pc[p] = "remove"
                 /\ who' = [who EXCEPT ![p] = pUser[p]]
                 /\ userChannels' = [userChannels EXCEPT ![at[p]] = @ \ {pUser[p]}]
                 /\ Goto(p, IF pUser[p] \in userChannels[at[p]] THEN "close" ELSE "idle")
                 /\ UNCHANGED <<noted, at, rest, users, closing, pUser, links, registry, config,
                                client>>

DropClose(p) == /\ pc[p] = "close"
                /\ closing' = closing \cup {who[p]}
                /\ Goto(p, "unbind")
                /\ UNCHANGED <<noted, locals, users, pUser, links, registry, userChannels, config,
                               client>>

DropUnbind(p) == /\ pc[p] = "unbind"
                 /\ pUser' = [pUser EXCEPT ![p] = None]
                 /\ Goto(p, "idle")
                 /\ UNCHANGED <<noted, locals, users, closing, links, registry, userChannels, config,
                                client>>

(* channelInactive of a data connection.                                   *)
ProxyFails(p) == /\ pAlive[p] /\ pc[p] = "idle"
                 /\ pAlive' = [pAlive EXCEPT ![p] = FALSE]
                 /\ Goto(p, "lost")
                 /\ UNCHANGED <<noted, locals, users, closing, pUser, cAlive, registry, userChannels,
                                config, client>>

LostUser(p) == /\ pc[p] = "lost"
               /\ who' = [who EXCEPT ![p] = pUser[p]]
               /\ Goto(p, IF pUser[p] # None /\ Open(pUser[p]) THEN "forget" ELSE "closed")
               /\ UNCHANGED <<noted, at, rest, users, closing, pUser, links, registry, userChannels,
                              config, client>>

LostRemove(p) == /\ pc[p] = "forget"
                 /\ userChannels' = [c \in Ctls |-> IF c = cmd THEN userChannels[c] \ {who[p]}
                                                               ELSE userChannels[c]]
                 /\ Goto(p, "end")
                 /\ UNCHANGED <<noted, locals, users, closing, pUser, links, registry, config, client>>

LostWithoutClose(p) == /\ pc[p] = "end"
                       /\ Goto(p, "closed")
                       /\ UNCHANGED <<noted, locals, users, closing, pUser, links, registry,
                                      userChannels, config, client>>
LostClose(p) == /\ pc[p] = "end"
                /\ closing' = closing \cup {who[p]}
                /\ Goto(p, "closed")
                /\ UNCHANGED <<noted, locals, users, pUser, links, registry, userChannels, config,
                               client>>

ProxyStep(p) == \/ FindCmd(p) \/ GetUser(p) \/ BindProxy(p) \/ BindUser(p)
                \/ DropFindCmd(p) \/ DropRemove(p) \/ DropClose(p) \/ DropUnbind(p)
                \/ LostUser(p) \/ LostRemove(p) \/ LostClose(p)
------------------------------------------------------------------------------
(* Control connections.  AUTH: the ports of the key are read before        *)
(* addCmdChannel, which routes them, sets the attributes and publishes.    *)
(* An unknown key, or one that is in use, closes the connection.           *)
Auth(c) == /\ pc[c] = "idle" /\ cAlive[c] /\ c \notin attrs
           /\ Let(c, IF Granted THEN c ELSE None)
           /\ Goto(c, CASE ~HasKey \/ cmd # None -> "done"
                        [] Granted /\ cmd = None -> "route"
                        [] OTHER -> "attrs")
           /\ cAlive' = [cAlive EXCEPT ![c] = HasKey /\ cmd = None]
           /\ UNCHANGED <<noted, who, rest, users, closing, pUser, pAlive, registry, userChannels,
                          config, client>>

(* Under the lock that onChanged holds while it changes one connection.    *)
RoutePort(c) == /\ pc[c] = "route" /\ pc[Web] \notin {"clear", "evict"}
                /\ portCmd' = c
                /\ Goto(c, "attrs")
                /\ UNCHANGED <<noted, locals, users, closing, pUser, links, cmd, attrs, hasPort,
                               userChannels, config, client>>

SetPortFirst(c) == /\ pc[c] = "attrs"
                   /\ hasPort' = IF at[c] = c THEN hasPort \cup {c} ELSE hasPort
                   /\ Goto(c, "publish")
                   /\ UNCHANGED <<noted, locals, users, closing, pUser, links, cmd, portCmd, attrs,
                                  userChannels, config, client>>
SetAttrs(c) == /\ pc[c] = "attrs"
               /\ attrs' = attrs \cup {c}
               /\ hasPort' = IF at[c] = c THEN hasPort \cup {c} ELSE hasPort
               /\ Goto(c, "publish")
               /\ UNCHANGED <<noted, locals, users, closing, pUser, links, cmd, portCmd,
                              userChannels, config, client>>

Publish(c) == /\ pc[c] = "publish"
              /\ cmd' = c
              /\ Goto(c, "idle")
              /\ UNCHANGED <<noted, locals, users, closing, pUser, links, portCmd, attrs, hasPort,
                             userChannels, config, client>>

(* DISCONNECT on a control connection: the backend could not be reached.   *)
BackendRefused(c, u) == /\ pc[c] = "idle" /\ cAlive[c] /\ c \in attrs
                        /\ request[u] = "asked"
                        /\ request' = [request EXCEPT ![u] = "left"]
                        /\ userChannels' = [userChannels EXCEPT ![c] = @ \ {u}]
                        /\ who' = [who EXCEPT ![c] = u]
                        /\ Goto(c, IF u \in userChannels[c] THEN "close" ELSE "idle")
                        /\ UNCHANGED <<noted, at, rest, users, closing, pUser, links, registry,
                                       config, session>>

RefusedClose(c) == /\ pc[c] = "close"
                   /\ closing' = closing \cup {who[c]}
                   /\ Goto(c, "idle")
                   /\ UNCHANGED <<noted, locals, users, pUser, links, registry, userChannels,
                                  config, client>>

(* channelInactive of a control connection: removeCmdChannel of it.        *)
CtlFails(c) == /\ pc[c] = "idle" /\ cAlive[c]
               /\ cAlive' = [cAlive EXCEPT ![c] = FALSE]
               /\ Let(c, c)
               /\ Goto(c, IF c \in attrs THEN "remove" ELSE "done")
               /\ UNCHANGED <<noted, who, rest, users, closing, pUser, pAlive, registry,
                              userChannels, config, client>>

CtlStep(c) == \/ RoutePort(c) \/ SetAttrs(c) \/ Publish(c) \/ RefusedClose(c)
------------------------------------------------------------------------------
(* removeCmdChannel(at[t]) on thread t, the event loop of that connection  *)
(* or the thread of a configuration change that took the key away.         *)

(* Whatever is taken out and is not this connection is put back; for the   *)
(* key it is this connection that is put, see Registry.                    *)
TakeCmd(t) == /\ pc[t] = "remove"
              /\ cmd' = None
              /\ Goto(t, IF cmd # at[t] THEN "restore" ELSE "unroute")
              /\ UNCHANGED <<noted, locals, users, closing, pUser, links, portCmd, attrs,
                             hasPort, userChannels, config, client>>

RestoreCmd(t) == /\ pc[t] = "restore"
                 /\ cmd' = at[t]
                 /\ Goto(t, "unroute")
                 /\ UNCHANGED <<noted, locals, users, closing, pUser, links, portCmd, attrs,
                                hasPort, userChannels, config, client>>

TakePort(t) == /\ pc[t] = "unroute"
               /\ IF at[t] \in hasPort
                  THEN /\ portCmd' = None
                       /\ took' = [took EXCEPT ![t] = portCmd]
                       /\ Goto(t, IF portCmd \in {None, at[t]} THEN "sweep" ELSE "reroute")
                  ELSE /\ Goto(t, "sweep")
                       /\ UNCHANGED <<portCmd, took>>
               /\ UNCHANGED <<checked, locals, users, closing, pUser, links, cmd, attrs, hasPort,
                              userChannels, config, client>>

RestorePort(t) == /\ pc[t] = "reroute"
                  /\ portCmd' = took[t]
                  /\ Goto(t, "sweep")
                  /\ UNCHANGED <<noted, locals, users, closing, pUser, links, cmd, attrs,
                                 hasPort, userChannels, config, client>>

(* A connection that is still open is closed, before its users are: its    *)
(* own event loop will go through CtlFails.                                *)
(* The sweep over USER_CHANNELS is weakly consistent.  get(key) of a user  *)
(* that was removed after the iterator reached it is null: isActive() then *)
(* throws, and the rest is not visited.  No entry is removed.              *)
StartSweep(t) == /\ pc[t] = "sweep"
                 /\ closing' = IF cAlive[at[t]] THEN closing \cup {at[t]} ELSE closing
                 /\ rest' = [rest EXCEPT ![t] = userChannels[at[t]]]
                 /\ Goto(t, "visit")
                 /\ UNCHANGED <<noted, at, who, users, pUser, links, registry, userChannels,
                                config, client>>

SweepUser(t) == /\ pc[t] = "visit"
                /\ \E u \in rest[t] : /\ rest' = [rest EXCEPT ![t] = @ \ {u}]
                                      /\ closing' = IF u \in userChannels[at[t]] /\ Open(u)
                                                    THEN closing \cup {u} ELSE closing
                /\ UNCHANGED <<noted, pc, at, who, users, pUser, links, registry, userChannels,
                               config, client>>

(* A user that was registered while the sweep ran, if it sees the user.    *)
SweepNewUser(t) == /\ pc[t] = "visit" /\ rest[t] # {}
                   /\ \E u \in userChannels[at[t]] \ rest[t] : Open(u) /\ closing' = closing \cup {u}
                   /\ UNCHANGED <<noted, pc, locals, users, pUser, links, registry,
                                  userChannels, config, client>>

EndSweep(t) == /\ pc[t] = "visit" /\ (rest[t] = {} \/ ~ rest[t] \subseteq userChannels[at[t]])
               /\ rest' = [rest EXCEPT ![t] = {}]
               /\ Goto(t, IF t = Web THEN "idle" ELSE "done")
               /\ UNCHANGED <<noted, at, who, users, closing, pUser, links, registry,
                              userChannels, config, client>>

RemoveStep(t) == \/ TakeCmd(t) \/ RestoreCmd(t) \/ TakePort(t) \/ RestorePort(t)
                 \/ StartSweep(t) \/ SweepUser(t) \/ SweepNewUser(t) \/ EndSweep(t)
------------------------------------------------------------------------------
(* A configuration is saved: ProxyConfig.update replaces the maps one by   *)
(* one, then onChanged of ProxyChannelManager runs.                        *)

SaveKeys == /\ pc[Web] = "idle"
            /\ \E v \in DOMAIN Lans : v > keyVersion /\ keyVersion' = v
            /\ checked' = {}
            /\ Goto(Web, "lans")
            /\ UNCHANGED <<took, locals, users, closing, pUser, links, registry, userChannels,
                           lanVersion, client>>

SaveLans == /\ pc[Web] = "lans"
            /\ lanVersion' = keyVersion
            /\ Goto(Web, "cmds")
            /\ UNCHANGED <<noted, locals, users, closing, pUser, links, registry, userChannels,
                           keyVersion, client>>

(* The entry of cmdChannels: removed with its key, or changed if active.   *)
VisitCmd == /\ pc[Web] = "cmds"
            /\ Let(Web, cmd)
            /\ Goto(Web, CASE cmd = None -> "idle"
                           [] cmd # None /\ ~HasKey -> "remove"
                           [] cmd # None /\ HasKey -> IF cAlive[cmd] THEN "ports" ELSE "idle")
            /\ UNCHANGED <<noted, who, rest, users, closing, pUser, links, registry,
                           userChannels, config, client>>

(* The port is routed to c, or taken away if it has it.  The lock is held  *)
(* from here; only RoutePort waits for it.                                 *)
ChangePort == LET c == at[Web]
                  holds == c \in hasPort /\ portCmd = c
              IN /\ pc[Web] = "ports"
                 /\ portCmd' = CASE Granted -> c
                                 [] ~Granted /\ holds -> None
                                 [] OTHER -> portCmd
                 /\ hasPort' = CASE Granted -> hasPort \cup {c}
                                 [] ~Granted /\ holds -> hasPort \ {c}
                                 [] OTHER -> hasPort
                 /\ rest' = [rest EXCEPT ![Web] = userChannels[c]]
                 /\ checked' = userChannels[c]
                 /\ Goto(Web, "clear")
                 /\ UNCHANGED <<took, at, who, users, closing, pUser, links, cmd, attrs,
                                userChannels, config, client>>

(* checkAndClearUserChannels, as weakly consistent as the sweep.           *)
StaleWhenMoved(u) == Lan # None /\ reqLan[u] # Lan
Stale(u)          == Lan = None \/ reqLan[u] # Lan

CheckUser == /\ pc[Web] = "clear"
             /\ \E u \in rest[Web] \cup userChannels[at[Web]] :
                  /\ rest' = [rest EXCEPT ![Web] = @ \ {u}]
                  /\ who' = [who EXCEPT ![Web] = u]
                  /\ closing' = IF Stale(u) THEN closing \cup {u} ELSE closing
                  /\ Goto(Web, IF Stale(u) THEN "evict" ELSE "clear")
             /\ UNCHANGED <<noted, at, users, pUser, links, registry, userChannels, config,
                            client>>

SkipUser == /\ pc[Web] = "clear"
            /\ \E u \in rest[Web] \ userChannels[at[Web]] : rest' = [rest EXCEPT ![Web] = @ \ {u}]
            /\ UNCHANGED <<noted, pc, at, who, users, closing, pUser, links, registry,
                           userChannels, config, client>>

EvictUser == /\ pc[Web] = "evict"
             /\ userChannels' = [userChannels EXCEPT ![at[Web]] = @ \ {who[Web]}]
             /\ Goto(Web, "clear")
             /\ UNCHANGED <<noted, locals, users, closing, pUser, links, registry, config,
                            client>>

CheckDone == /\ pc[Web] = "clear" /\ rest[Web] = {}
             /\ Goto(Web, "idle")
             /\ UNCHANGED <<noted, locals, users, closing, pUser, links, registry,
                            userChannels, config, client>>

WebStep == \/ SaveKeys \/ SaveLans \/ VisitCmd \/ ChangePort
           \/ CheckUser \/ SkipUser \/ EvictUser \/ CheckDone

Next == \/ \E u \in Users : UserStep(u) \/ BackendLeaves(u)
        \/ \E p \in Proxies : ProxyStep(p) \/ ProxyFails(p)
        \/ \E u \in Users, p \in Proxies : ClientBinds(u, p)
        \/ \E c \in Ctls : CtlStep(c) \/ Auth(c) \/ CtlFails(c)
        \/ \E c \in Ctls, u \in Users : BackendRefused(c, u)
        \/ \E t \in Removers : RemoveStep(t)
        \/ WebStep

Spec == Init /\ [][Next]_vars
------------------------------------------------------------------------------
(* A user that no handler is busy taking out of the registry.              *)
Settled(u) == /\ pc[u] = "open"
              /\ \A t \in Handlers : who[t] = u => pc[t] \notin {"close", "end", "evict"}

(* A settled open user is either found in the USER_CHANNELS it was put     *)
(* into or on its way to be closed: a user that left the registry without  *)
(* being closed could never be closed by anybody (its reading may be off). *)
SettledUserRegistered ==
  \A u \in Users : Settled(u) /\ u \notin closing => u \in userChannels[at[u]]

(* While a user is open and nobody asked to close it, the data connection  *)
(* it sends on sends back to it: the attributes that channelInactive of an *)
(* earlier user removes are never those of this user.                      *)
BoundPairAgree ==
  \A u \in Users : /\ Open(u) /\ u \notin closing /\ uNext[u] # None
                   /\ pAlive[uNext[u]]
                   => pUser[uNext[u]] = u

(* What a backend sends goes to its own user or to nobody, until that      *)
(* user's channelInactive is through.  No more: a backend that closes      *)
(* later than its user still writes to the data connection it had, and     *)
(* whoever the client uses that for by then gets it (see tunnel_reuse).    *)
BackendReachesItsUser ==
  \A u \in Users, p \in Proxies : request[u] = p /\ pAlive[p] /\ pc[u] # "gone"
                                  => pUser[p] \in {None, u}

(* Who was in USER_CHANNELS when onChanged came to check them is either    *)
(* closed or has the lan address configured now, once onChanged is         *)
(* through: a revoked or moved port goes on serving only users that were   *)
(* inside channelActive, not yet registered, when the check began.         *)
CheckedUsersAreCurrent ==
  pc[Web] = "idle" => \A u \in checked : Settled(u) /\ u \notin closing => reqLan[u] = Lan

(* removeCmdChannel "clears the user channels" (its log) of a control      *)
(* connection and "the relations when the client is gone" (its comment):   *)
(* once it is through, each user of the connection is closed or asked to.  *)
SweptUsersClosed ==
  \A c \in Ctls : \A u \in userChannels[c] :
    pc[c] = "done" /\ pc[u] = "open" => u \in closing

(* checkAndClearUserChannels closes a connection whose lan address is not  *)
(* the one configured now (its comment): a user that the check keeps has   *)
(* the backend of the current configuration.                               *)
KeptUserIsCurrent ==
  [][\A u \in Users : pc[Web] = "clear" /\ pc'[Web] = "clear" /\ u \in rest[Web] \ rest'[Web]
                      /\ u \in userChannels[at[Web]]
                      => asked[u] = Lan]_vars
==============================================================================
