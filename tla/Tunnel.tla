-------------------------------- MODULE Tunnel --------------------------------
(***************************************************************************)
(* The whole tunnel for one client key and one public port: users, proxy   *)
(* server, TCP connections, proxy client, backends.  Handlers of different *)
(* channels interleave freely.  Each handler is one step, except where a   *)
(* connection of its own event loop can come between (RealConnectedPooled, *)
(* GetUser); UserChannels takes the server's handlers apart further.       *)
(***************************************************************************)
EXTENDS ServerSide, ClientSide

vars == <<linkVars, serverVars, clientVars>>

Init == LinksInit /\ ServerInit /\ ClientInit

ServerUnchanged == UNCHANGED serverVars
ClientUnchanged == UNCHANGED clientVars

(* What users, backends, operators and the network may do.                 *)
UserStep(u) == /\ UserRefused(u) \/ UserActive(u) \/ UserRead(u)
                  \/ (uEnd[u] = "open" /\ (UserInactive(u) \/ UserInactiveUnrouted(u)))
               /\ ClientUnchanged

BackendStep(u) == /\ RealRead(u) \/ (rEnd[u] = "open" /\ RealInactive(u))
                  /\ ServerUnchanged

ConfigStep == (PortRevoked \/ PortGranted \/ LanChanged) /\ ClientUnchanged

(* The channelInactive of a connection waits for the handler it is in.     *)
BreakStep == /\ \E x \in Conns : (x \notin looked /\ ServerBreak(x)) \/ ClientBreak(x)
             /\ ServerUnchanged /\ ClientUnchanged

(* What the event loops of the server run.                                 *)
ServerUserHandler(u) == /\ uEnd[u] = "closing"
                        /\ UserInactive(u) \/ UserInactiveUnrouted(u)
                        /\ ClientUnchanged

ServerCtlHandler(c) == /\ RecvAuth(c) \/ RecvAuthRefused(c)
                          \/ RecvDisconnectOnCtl(c) \/ ServerCtlInactive(c)
                       /\ ClientUnchanged

ServerProxyHandler(p) == /\ RecvConnectNoCtl(p) \/ RecvConnectGone(p)
                            \/ GetUser(p) \/ BindUser(p)
                            \/ RecvTransferAtServer(p) \/ RecvDisconnectAtServer(p)
                            \/ ServerProxyInactive(p)
                         /\ ClientUnchanged

(* What the event loops of the client run.                                 *)
ClientCtlHandler(c) == /\ CtlConnect(c) \/ RecvConnectOnCtl(c) \/ ClientCtlInactive(c)
                       /\ ServerUnchanged

ClientProxyHandler(p) == /\ RecvTransferAtClient(p) \/ RecvDisconnectAtClient(p)
                            \/ ClientProxyInactive(p)
                         /\ ServerUnchanged

BackendHandler(u) == /\ \/ RealFailed(u) \/ RealConnectedPooled(u) \/ BindPolled(u)
                        \/ RealConnectedNew(u)
                        \/ (\E p \in Proxies : ProxyConnected(u, p)) \/ ProxyFailed(u)
                        \/ (rEnd[u] = "closing" /\ RealInactive(u))
                     /\ ServerUnchanged

EofStep(x) == /\ ServerEof(x) \/ ClientEof(x)
              /\ ServerUnchanged /\ ClientUnchanged

EventLoops == \/ \E u \in Users : ServerUserHandler(u) \/ BackendHandler(u)
              \/ \E c \in Ctls : ServerCtlHandler(c) \/ ClientCtlHandler(c)
              \/ \E p \in Proxies : ServerProxyHandler(p) \/ ClientProxyHandler(p)
              \/ \E x \in Conns : EofStep(x)

Next == \/ EventLoops
        \/ \E u \in Users : UserStep(u) \/ BackendStep(u)
        \/ ConfigStep
        \/ BreakStep

Spec == Init /\ [][Next]_vars

(* The event loops keep running what is ready.  Nothing is assumed of      *)
(* users, backends, operators or the network.                              *)
FairSpec == Spec /\ WF_vars(EventLoops)
------------------------------------------------------------------------------
TypeOK == LinksTypeOK /\ ServerTypeOK /\ ClientTypeOK

(* A data connection that the server has bound to a user is bound to the   *)
(* backend of the same user at the client: CONNECT, DISCONNECT and the     *)
(* pool never leave the two ends in different sessions while both live.    *)
BindingAgreement ==
  \A p \in Proxies : Linked(p) /\ pNext[p] # None => cNext[p] = pNext[p]

(* A data connection waiting in proxyChannelPool is idle at both ends: not *)
(* pooled twice, bound to no backend, to no user, and with no CONNECT or   *)
(* DISCONNECT still to come that would change that behind the borrower.    *)
PoolExclusive ==
  /\ \A i, j \in DOMAIN pool : pool[i] = pool[j] => i = j
  /\ \A i \in DOMAIN pool : LET p == pool[i] IN
       /\ cNext[p] = None /\ cEnd[p] \in {"open", "dead"}
       /\ Linked(p) =>
            /\ pNext[p] = None
            /\ \A k \in DOMAIN toS[p] : toS[p][k].type # "connect"
            /\ \A k \in DOMAIN toC[p] : toC[p][k].type # "disconnect"

(* Two users never share a live data connection, even while one is being   *)
(* closed and the other already uses the returned connection.              *)
OneUserPerProxy ==
  \A u, v \in Users : /\ uNext[u] # None /\ uNext[u] = uNext[v]
                      /\ uEnd[u] # "closed" /\ uEnd[v] # "closed"
                      /\ Linked(uNext[u])
                      => u = v

(* Every open user is in the USER_CHANNELS of the registered control       *)
(* connection, so whoever closes that connection closes the user too.      *)
(* (Between handlers: UserChannels has the user that comes too late.)      *)
OpenUserSupervised ==
  \A u \in Users : uEnd[u] = "open" => cmd # None /\ u \in userChannels[cmd]

(* The route of a port leads to the registered control connection (between *)
(* handlers: addCmdChannel publishes the route first, see Registry).       *)
RouteIsRegistered == portCmd # None => portCmd = cmd

(* Towards the backend the tunnel is a BytePipe for each session.          *)
Upstream == INSTANCE BytePipe WITH Sessions <- Users, sent <- uSent, got <- gotReal
UpstreamPipe == Upstream!Spec

(* A user that waits unread for its backend waits for something: CONNECT on *)
(* its way down, a connect callback, DISCONNECT or CONNECT on its way back, *)
(* or the end of a connection one of them was on.  A data connection that  *)
(* fails with the CONNECT makes it wait for the next control connection.   *)
Sent(q, m) == \E k \in DOMAIN q : q[k] = m

WaitingUserPending ==
  \A u \in Users : uEnd[u] = "open" /\ uNext[u] = None =>
    \/ ~Linked(cmd)
    \/ Sent(toC[cmd], ConnectMsg(u))
    \/ rEnd[u] \in {"connecting", "polled", "borrowing"}
    \/ Sent(toS[cmd], DisconnectMsg(u))
    \/ /\ rNext[u] # None
       /\ ~Linked(rNext[u]) \/ Sent(toS[rNext[u]], ConnectMsg(u))

(* As long as the client has kept its control connection and the           *)
(* configuration has not changed, what the client holds for a user that    *)
(* has left is told so: DISCONNECT is on its way, or the data connection   *)
(* has failed.  (A lost route tells nobody: ClientNotified.)               *)
FirstSession ==
  /\ reconfigs = 0
  /\ \A c \in Ctls : sEnd[c] \in {"unused", "open"} /\ cEnd[c] \in {"unused", "open"}

LeftUserAnnounced ==
  FirstSession => \A p \in Proxies, u \in Users :
    cNext[p] = u /\ uEnd[u] = "closed" /\ Linked(p)
      => \E k \in DOMAIN toC[p] : toC[p][k].type = "disconnect"

(* handleConnectMessage binds a user at most once, however late the        *)
(* CONNECT comes.  As long as no control connection has failed and the     *)
(* configuration has not changed, it binds none that has left or is being  *)
(* closed: nobody else closes a user that waits, and unread it cannot      *)
(* leave.  After that, one closed between lookup and binding is bound.     *)
BindOnceWhileOpen ==
  [][\A u \in Users : uNext'[u] # uNext[u]
       => uNext[u] = None /\ (FirstSession => uEnd[u] = "open")]_vars

(* The client loses track of no data connection: an open one is bound, in  *)
(* the pool, or on its way from the pool to one backend.  An open backend  *)
(* has one that is bound to it, whose DISCONNECT or channelInactive will   *)
(* close the backend; only if the connection failed after poll() and       *)
(* before it was bound is it closed already.  Then nothing closes the      *)
(* backend any more, but its user was never bound to it.                   *)
Polled(p) == {u \in Users : rEnd[u] = "polled" /\ rNext[u] = p}
Pooled(p) == \E i \in DOMAIN pool : pool[i] = p

NothingAbandoned ==
  /\ \A p \in Proxies : cEnd[p] = "open" =>
       /\ cNext[p] = None <=> Pooled(p) \/ Polled(p) # {}
       /\ \A u, v \in Polled(p) : u = v /\ ~Pooled(p)
  /\ \A u \in Users : rEnd[u] = "open" =>
       /\ cNext[rNext[u]] = u
       /\ cEnd[rNext[u]] \in {"open", "dead"} \/ uNext[u] = None

(* A user that waits for its backend is bound or closed in the end.        *)
WaitingUserResolved ==
  \A u \in Users : uEnd[u] = "open" /\ uNext[u] = None ~> uEnd[u] # "open" \/ uNext[u] # None

(* The connection to the backend of a user that has left is closed.        *)
BackendReleased ==
  \A u \in Users : rEnd[u] = "open" /\ uEnd[u] = "closed" ~> rEnd[u] = "closed"

(* The data connection of a user that has left is unbound again at the     *)
(* client: back in the pool, or closed when the pool is full.              *)
ProxyReleased ==
  \A p \in Proxies, u \in Users :
    cNext[p] = u /\ uEnd[u] = "closed" ~> cNext[p] # u \/ cEnd[p] = "closed"

(* "Notify the proxy client" (UserChannelHandler.channelInactive): when a  *)
(* user that was bound has left, its backend connection is closed.         *)
ClientNotified ==
  \A u \in Users : uNext[u] # None /\ uEnd[u] = "closed" ~> rEnd[u] = "closed"

(* A DISCONNECT on a data connection says that the backend has closed      *)
(* ("the backend server's disconnect message", ServerChannelHandler): the  *)
(* user it closes has no open backend.                                     *)
DisconnectedByItsBackend ==
  [][\A p \in Proxies : RecvDisconnectAtServer(p) /\ uEnd' # uEnd
                          => rEnd[pNext[p]] = "closed"]_vars
==============================================================================
