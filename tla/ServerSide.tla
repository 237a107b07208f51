------------------------------ MODULE ServerSide ------------------------------
(***************************************************************************)
(* The proxy server: ServerChannelHandler (control and data connections),  *)
(* UserChannelHandler (connections accepted on the public port) and the    *)
(* parts of ProxyChannelManager they call, for one client key with one     *)
(* public port.  One action per handler call, except that                  *)
(* handleConnectMessage looks its user up in one step and binds it in      *)
(* another.  Registry and UserChannels look inside the other calls, access *)
(* by access: what is false at that grain (a user registered behind a      *)
(* sweep or a revocation, a route before its registration) is theirs.      *)
(*                                                                         *)
(* A user channel is not read (AUTO_READ false) from channelActive until   *)
(* handleConnectMessage binds it; back-pressure, which also toggles        *)
(* AUTO_READ, is left out, so a user is readable iff uNext[u] # None.      *)
(***************************************************************************)
EXTENDS Links

CONSTANTS MaxUp,        \* bound: chunks a user sends
          MaxReconfigs  \* bound: configuration changes

ASSUME ServerAssumption == MaxUp \in Nat /\ MaxReconfigs \in Nat

VARIABLES
  uEnd,          \* user channel; "closing" = closed by the server, handler not run
  uNext,         \* its NEXT_CHANNEL attribute: the data connection it is bound to
  uSent,         \* chunks the user has sent and the server has read
  gotUser,       \* chunks written to the user, with the user they came back for
  pNext,         \* NEXT_CHANNEL of a data connection (CLIENT_KEY, USER_ID likewise)
  looked,        \* data connections whose handleConnectMessage has found its user
  cmd,           \* cmdChannels[key]
  portCmd,       \* portCmdChannelMapping[port]
  registered,    \* control connections whose attributes addCmdChannel has set
  userChannels,  \* USER_CHANNELS attribute of each control connection
  granted,       \* the configuration gives the port to the key
  reconfigs      \* configuration changes so far

serverVars == <<uEnd, uNext, uSent, gotUser, pNext, looked, cmd, portCmd, registered,
                userChannels, granted, reconfigs>>

UserStates == {"unused", "open", "closing", "closed"}
Chunk == Users \X Nat

ServerInit == /\ uEnd = [u \in Users |-> "unused"]
              /\ uNext = [u \in Users |-> None]
              /\ uSent = [u \in Users |-> 0]
              /\ gotUser = [u \in Users |-> <<>>]
              /\ pNext = [p \in Proxies |-> None]
              /\ looked = {}
              /\ cmd = None
              /\ portCmd = None
              /\ registered = {}
              /\ userChannels = [c \in Ctls |-> {}]
              /\ granted = TRUE
              /\ reconfigs = 0

ServerTypeOK == /\ uEnd \in [Users -> UserStates]
                /\ uNext \in [Users -> Proxies \cup {None}]
                /\ uSent \in [Users -> Nat]
                /\ gotUser \in [Users -> Seq(Chunk)]
                /\ pNext \in [Proxies -> Users \cup {None}]
                /\ looked \subseteq Proxies
                /\ cmd \in Ctls \cup {None}
                /\ portCmd \in Ctls \cup {None}
                /\ registered \subseteq Ctls
                /\ userChannels \in [Ctls -> SUBSET Users]
                /\ granted \in BOOLEAN
                /\ reconfigs \in Nat

(* close(), or write-then-close, of a set of user channels.                *)
ClosingUsers(U) == [u \in Users |-> IF u \in U /\ uEnd[u] = "open"
                                    THEN "closing" ELSE uEnd[u]]

(* removeUserChannelFromCmdChannel(c, u): no effect without a map.         *)
WithoutUsers(c, U) == IF c = None THEN userChannels
                      ELSE [userChannels EXCEPT ![c] = @ \ U]

CmdActive == cmd # None /\ sEnd[cmd] = "open"
------------------------------------------------------------------------------
(* UserChannelHandler                                                      *)

(* channelActive, no control connection for the port.                      *)
UserRefused(u) == /\ uEnd[u] = "unused" /\ portCmd = None
                  /\ uEnd' = [uEnd EXCEPT ![u] = "closing"]
                  /\ UNCHANGED <<linkVars, uNext, uSent, gotUser, pNext, looked, cmd, portCmd,
                                 registered, userChannels, granted, reconfigs>>

(* channelActive: remember the user, ask the client for a backend.  A sweep *)
(* or a revocation may come between its lookups and the registration: see  *)
(* UserChannels, which takes it apart.                                     *)
UserActive(u) == /\ uEnd[u] = "unused" /\ portCmd # None
                 /\ uEnd' = [uEnd EXCEPT ![u] = "open"]
                 /\ userChannels' = [userChannels EXCEPT ![portCmd] = @ \cup {u}]
                 /\ SendToC(portCmd, ConnectMsg(u))
                 /\ UNCHANGED <<sEnd, cEnd, toS, breaks, uNext, uSent, gotUser, pNext, looked,
                                cmd, portCmd, registered, granted, reconfigs>>

(* channelRead0.  An unbound user is not readable, so the branch that      *)
(* closes it is never taken.                                               *)
UserRead(u) == /\ uEnd[u] \in {"open", "closing"} /\ uNext[u] # None
               /\ uSent[u] < MaxUp
               /\ uSent' = [uSent EXCEPT ![u] = @ + 1]
               /\ SendToC(uNext[u], TransferMsg(u, uSent[u] + 1))
               /\ UNCHANGED <<sEnd, cEnd, toS, breaks, uEnd, uNext, gotUser, pNext, looked, cmd,
                              portCmd, registered, userChannels, granted, reconfigs>>

(* channelInactive: the user left, or the server closed it.  Without a     *)
(* control connection for the port nothing is cleared and nobody is told.  *)
UserGoneUnread(u) == uEnd[u] \in {"open", "closing"}
UserGone(u) == uEnd[u] = "closing" \/ (uEnd[u] = "open" /\ uNext[u] # None)

UserInactiveUnrouted(u) ==
  /\ UserGone(u) /\ portCmd = None
  /\ uEnd' = [uEnd EXCEPT ![u] = "closed"]
  /\ UNCHANGED <<linkVars, uNext, uSent, gotUser, pNext, looked, cmd, portCmd,
                 registered, userChannels, granted, reconfigs>>

(* Its data connection, if still active, is unbound and the client told.   *)
ReleaseProxyKeepsBinding(u) ==
  /\ IF uNext[u] # None /\ sEnd[uNext[u]] = "open"
     THEN SendToC(uNext[u], DisconnectMsg(u)) ELSE UNCHANGED toC
  /\ UNCHANGED pNext

ReleaseProxySilently(u) ==
  /\ pNext' = [p \in Proxies |-> IF p = uNext[u] THEN None ELSE pNext[p]]
  /\ UNCHANGED toC

ReleaseProxy(u) == LET p == uNext[u] IN
  IF p # None /\ sEnd[p] = "open"
  THEN /\ pNext' = [pNext EXCEPT ![p] = None]
       /\ SendToC(p, DisconnectMsg(u))
  ELSE UNCHANGED <<pNext, toC>>

UserInactive(u) == /\ UserGone(u) /\ portCmd # None
                   /\ uEnd' = [uEnd EXCEPT ![u] = "closed"]
                   /\ userChannels' = WithoutUsers(portCmd, {u})
                   /\ ReleaseProxy(u)
                   /\ UNCHANGED <<sEnd, cEnd, toS, breaks, uNext, uSent, gotUser, looked, cmd,
                                  portCmd, registered, granted, reconfigs>>
------------------------------------------------------------------------------
(* ServerChannelHandler                                                    *)

(* handleAuthMessage: refused when the key already has a channel.          *)
RecvAuthRefused(c) == /\ AtServer(c, "auth") /\ cmd # None
                      /\ sEnd' = CloseEnd(sEnd, c)
                      /\ toS' = Dropped(toS, c)
                      /\ UNCHANGED <<cEnd, toC, breaks, serverVars>>

RecvAuth(c) == /\ AtServer(c, "auth") /\ cmd = None
               /\ toS' = Read(toS, c)
               /\ cmd' = c
               /\ portCmd' = IF granted THEN c ELSE portCmd
               /\ registered' = registered \cup {c}
               /\ userChannels' = [userChannels EXCEPT ![c] = {}]
               /\ UNCHANGED <<sEnd, cEnd, toC, breaks, uEnd, uNext, uSent, gotUser,
                              pNext, looked, granted, reconfigs>>

(* handleConnectMessage on a data connection.                              *)
RecvConnectNoCtl(p) == /\ AtServer(p, "connect") /\ p \notin looked /\ cmd = None
                       /\ sEnd' = CloseEnd(sEnd, p)
                       /\ toS' = Dropped(toS, p)
                       /\ UNCHANGED <<cEnd, toC, breaks, serverVars>>

RecvConnectGone(p) == /\ AtServer(p, "connect") /\ p \notin looked /\ cmd # None
                      /\ Head(toS[p]).user \notin userChannels[cmd]
                      /\ toS' = Read(toS, p)
                      /\ UNCHANGED <<sEnd, cEnd, toC, breaks, serverVars>>

(* The user is found; it is bound even if it is gone by then.  The message *)
(* stays at the head of the queue as long as the handler works on it.      *)
GetUser(p) == /\ AtServer(p, "connect") /\ p \notin looked /\ cmd # None
              /\ Head(toS[p]).user \in userChannels[cmd]
              /\ looked' = looked \cup {p}
              /\ UNCHANGED <<linkVars, uEnd, uNext, uSent, gotUser, pNext, cmd, portCmd,
                             registered, userChannels, granted, reconfigs>>

BindUser(p) == LET u == Head(toS[p]).user IN
  /\ AtServer(p, "connect") /\ p \in looked
  /\ looked' = looked \ {p}
  /\ toS' = Read(toS, p)
  /\ pNext' = [pNext EXCEPT ![p] = u]
  /\ uNext' = [uNext EXCEPT ![u] = p]
  /\ UNCHANGED <<sEnd, cEnd, toC, breaks, uEnd, uSent, gotUser, cmd, portCmd,
                 registered, userChannels, granted, reconfigs>>

(* handleTransferMessage: to whatever user the connection is bound to.     *)
RecvTransferAtServer(p) == LET u == pNext[p]
                               m == Head(toS[p]) IN
  /\ AtServer(p, "transfer")
  /\ toS' = Read(toS, p)
  /\ gotUser' = IF u # None /\ uEnd[u] = "open"
                THEN [gotUser EXCEPT ![u] = Append(@, <<m.user, m.n>>)] ELSE gotUser
  /\ UNCHANGED <<sEnd, cEnd, toC, breaks, uEnd, uNext, uSent, pNext, looked, cmd, portCmd,
                 registered, userChannels, granted, reconfigs>>

(* handleDisconnectMessage on a control connection: the user is named.     *)
RecvDisconnectOnCtl(c) == LET u == Head(toS[c]).user IN
  /\ AtServer(c, "disconnect")
  /\ toS' = Read(toS, c)
  /\ userChannels' = WithoutUsers(c, {u})
  /\ uEnd' = IF u \in userChannels[c] THEN ClosingUsers({u}) ELSE uEnd
  /\ UNCHANGED <<sEnd, cEnd, toC, breaks, uNext, uSent, gotUser, pNext, looked, cmd, portCmd,
                 registered, granted, reconfigs>>

(* ... on a data connection: the user is the one it is bound to.           *)
RecvDisconnectAtServer(p) == LET u == pNext[p]
                                 found == u # None /\ cmd # None /\ u \in userChannels[cmd] IN
  /\ AtServer(p, "disconnect")
  /\ toS' = Read(toS, p)
  /\ IF found THEN /\ userChannels' = WithoutUsers(cmd, {u})
                   /\ uEnd' = ClosingUsers({u})
                   /\ pNext' = [pNext EXCEPT ![p] = None]
              ELSE UNCHANGED <<userChannels, uEnd, pNext>>
  /\ UNCHANGED <<sEnd, cEnd, toC, breaks, uNext, uSent, gotUser, looked, cmd, portCmd,
                 registered, granted, reconfigs>>

(* channelInactive of a data connection.                                   *)
ServerProxyInactive(p) == LET u == pNext[p]
                              active == u # None /\ uEnd[u] \in {"open", "closing"} IN
  /\ sEnd[p] = "dead"
  /\ sEnd' = [sEnd EXCEPT ![p] = "closed"]
  /\ IF active THEN /\ userChannels' = WithoutUsers(cmd, {u})
                    /\ uEnd' = ClosingUsers({u})
               ELSE UNCHANGED <<userChannels, uEnd>>
  /\ UNCHANGED <<cEnd, toS, toC, breaks, uNext, uSent, gotUser, pNext, looked, cmd, portCmd,
                 registered, granted, reconfigs>>

(* removeCmdChannel: the routes of the connection, then its users.         *)
RoutesKept(c) == portCmd
RoutesWithout(c) == IF portCmd = c THEN None ELSE portCmd

NoUserSwept(c) == uEnd
SweptUsers(c) == ClosingUsers(userChannels[c])

(* channelInactive of a control connection: removeCmdChannel, which puts a *)
(* connection back that it finds not registered.                           *)
ServerCtlInactive(c) ==
  /\ sEnd[c] = "dead"
  /\ sEnd' = [sEnd EXCEPT ![c] = "closed"]
  /\ IF c \in registered
     THEN /\ cmd' = IF cmd = c THEN None ELSE c
          /\ portCmd' = RoutesWithout(c)
          /\ uEnd' = SweptUsers(c)
     ELSE UNCHANGED <<cmd, portCmd, uEnd>>
  /\ UNCHANGED <<cEnd, toS, toC, breaks, uNext, uSent, gotUser, pNext, looked, registered,
                 userChannels, granted, reconfigs>>
------------------------------------------------------------------------------
(* The configuration listener, onChanged, for a live control connection:   *)
(* the port is taken from the key, given to it, or leads to another        *)
(* backend.  checkAndClearUserChannels closes the users of a port whose    *)
(* lan address is not the one they were connected to.  The change and the  *)
(* listener are one step here; UserChannels takes them apart.              *)
CheckAndClearUsers == /\ uEnd' = ClosingUsers(userChannels[cmd])
                      /\ userChannels' = [userChannels EXCEPT ![cmd] = {}]

PortRevoked == /\ granted /\ reconfigs < MaxReconfigs
               /\ granted' = FALSE /\ reconfigs' = reconfigs + 1
               /\ IF CmdActive
                  THEN portCmd' = RoutesWithout(cmd) /\ CheckAndClearUsers
                  ELSE UNCHANGED <<portCmd, uEnd, userChannels>>
               /\ UNCHANGED <<linkVars, uNext, uSent, gotUser, pNext, looked, cmd, registered>>

PortGranted == /\ ~granted /\ reconfigs < MaxReconfigs
               /\ granted' = TRUE /\ reconfigs' = reconfigs + 1
               /\ portCmd' = IF CmdActive THEN cmd ELSE portCmd
               /\ UNCHANGED <<linkVars, uEnd, uNext, uSent, gotUser, pNext, looked, cmd,
                              registered, userChannels>>

LanChanged == /\ granted /\ CmdActive /\ reconfigs < MaxReconfigs
              /\ reconfigs' = reconfigs + 1
              /\ CheckAndClearUsers
              /\ UNCHANGED <<linkVars, uNext, uSent, gotUser, pNext, looked, cmd, portCmd,
                             registered, granted>>
==============================================================================
