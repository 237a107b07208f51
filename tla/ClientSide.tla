------------------------------ MODULE ClientSide ------------------------------
(***************************************************************************)
(* The proxy client: ClientChannelHandler (control and data connections),  *)
(* RealServerChannelHandler (connections to the backend), the pool and the *)
(* registries of ClientChannelManager, and the connect callback of         *)
(* ProxyClient.  One action per handler or callback; the one that borrows  *)
(* from the pool is two, because the data connection it takes has an event *)
(* loop of its own, which may end the connection in between.               *)
(*                                                                         *)
(* The backend connection made for user u is named u: handleConnectMessage *)
(* makes exactly one for each CONNECT, and user ids are never reused.      *)
(***************************************************************************)
EXTENDS Links

CONSTANTS MaxDown,  \* bound: chunks a backend sends on one connection
          PoolMax   \* MAX_POOL_SIZE

ASSUME ClientAssumption == MaxDown \in Nat /\ PoolMax \in Nat

VARIABLES
  rEnd,       \* backend connection: see RealStates
  rCtl,       \* the control connection its CONNECT came on
  rNext,      \* its NEXT_CHANNEL attribute: the borrowed data connection; from poll()
              \* to the binding, the local channel of borrowProxyChanel
  rSent,      \* chunks read from the backend
  gotReal,    \* chunks written to the backend, with the user they came from
  cNext,      \* NEXT_CHANNEL of a data connection
  pool,       \* proxyChannelPool
  realChans,  \* realServerChannels
  cCmd        \* cmdChannel

clientVars == <<rEnd, rCtl, rNext, rSent, gotReal, cNext, pool, realChans, cCmd>>

(* connecting: to the backend; polled: took a data connection out of the   *)
(* pool, not bound to it yet; borrowing: connected, waiting for a new data *)
(* connection; closing: close requested, handler not run; stranded: no     *)
(* data connection could be made and nothing closes the backend connection *)
RealStates == {"unused", "connecting", "polled", "borrowing", "open", "closing", "closed", "stranded"}

ClientInit == /\ rEnd = [u \in Users |-> "unused"]
              /\ rCtl = [u \in Users |-> None]
              /\ rNext = [u \in Users |-> None]
              /\ rSent = [u \in Users |-> 0]
              /\ gotReal = [u \in Users |-> <<>>]
              /\ cNext = [p \in Proxies |-> None]
              /\ pool = <<>>
              /\ realChans = {}
              /\ cCmd = None

ClientTypeOK == /\ rEnd \in [Users -> RealStates]
                /\ rCtl \in [Users -> Ctls \cup {None}]
                /\ rNext \in [Users -> Proxies \cup {None}]
                /\ rSent \in [Users -> Nat]
                /\ gotReal \in [Users -> Seq(Users \X Nat)]
                /\ cNext \in [Proxies -> Users \cup {None}]
                /\ pool \in Seq(Proxies)
                /\ realChans \subseteq Users
                /\ cCmd \in Ctls \cup {None}

RealsKept(R) == rEnd
ClosingReals(R) == [u \in Users |-> IF u \in R /\ rEnd[u] = "open"
                                    THEN "closing" ELSE rEnd[u]]
------------------------------------------------------------------------------
(* ProxyClient: the connect callback, at start and after the channelInactive *)
(* of the control connection before; reconnectWait only delays it.         *)
CtlConnect(c) == /\ cCmd = None /\ sEnd[c] = "unused"
                 /\ cCmd' = c
                 /\ sEnd' = [sEnd EXCEPT ![c] = "open"]
                 /\ cEnd' = [cEnd EXCEPT ![c] = "open"]
                 /\ toS' = [toS EXCEPT ![c] = <<AuthMsg>>]
                 /\ UNCHANGED <<toC, breaks, rEnd, rCtl, rNext, rSent, gotReal, cNext,
                                pool, realChans>>
------------------------------------------------------------------------------
(* ClientChannelHandler                                                    *)

(* handleConnectMessage: start connecting to the backend.                  *)
RecvConnectOnCtl(c) == LET u == Head(toC[c]).user IN
  /\ AtClient(c, "connect")
  /\ toC' = Read(toC, c)
  /\ rEnd' = [rEnd EXCEPT ![u] = "connecting"]
  /\ rCtl' = [rCtl EXCEPT ![u] = c]
  /\ UNCHANGED <<sEnd, cEnd, toS, breaks, rNext, rSent, gotReal, cNext, pool,
                 realChans, cCmd>>

(* ... its callback on failure: DISCONNECT on the control connection.      *)
FailSilently(u) == UNCHANGED toS
TellFailed(u) == SendToS(rCtl[u], DisconnectMsg(u))

RealFailed(u) == /\ rEnd[u] = "connecting"
                 /\ rEnd' = [rEnd EXCEPT ![u] = "closed"]
                 /\ TellFailed(u)
                 /\ UNCHANGED <<sEnd, cEnd, toC, breaks, rCtl, rNext, rSent, gotReal,
                                cNext, pool, realChans, cCmd>>

(* ... and on success: borrow a data connection, from the pool or new.     *)
(* ProxyChannelBorrowListener.success binds the two and tells the server,  *)
(* without asking whether the connection is still active.                  *)
Bind(u, p) == /\ cNext' = [cNext EXCEPT ![p] = u]
              /\ rNext' = [rNext EXCEPT ![u] = p]
              /\ rEnd' = [rEnd EXCEPT ![u] = "open"]
              /\ realChans' = realChans \cup {u}

RealConnectedPooled(u) ==
  /\ rEnd[u] = "connecting" /\ pool # <<>>
  /\ pool' = Tail(pool)
  /\ rNext' = [rNext EXCEPT ![u] = Head(pool)]
  /\ rEnd' = [rEnd EXCEPT ![u] = "polled"]
  /\ UNCHANGED <<linkVars, rCtl, rSent, gotReal, cNext, realChans, cCmd>>

BindPolled(u) ==
  /\ rEnd[u] = "polled"
  /\ Bind(u, rNext[u])
  /\ SendToS(rNext[u], ConnectMsg(u))
  /\ UNCHANGED <<sEnd, cEnd, toC, breaks, rCtl, rSent, gotReal, pool, cCmd>>

RealConnectedNew(u) ==
  /\ rEnd[u] = "connecting" /\ pool = <<>>
  /\ rEnd' = [rEnd EXCEPT ![u] = "borrowing"]
  /\ UNCHANGED <<linkVars, rCtl, rNext, rSent, gotReal, cNext, pool, realChans, cCmd>>

ProxyConnected(u, p) ==
  /\ rEnd[u] = "borrowing" /\ sEnd[p] = "unused"
  /\ sEnd' = [sEnd EXCEPT ![p] = "open"]
  /\ cEnd' = [cEnd EXCEPT ![p] = "open"]
  /\ toS' = [toS EXCEPT ![p] = <<ConnectMsg(u)>>]
  /\ Bind(u, p)
  /\ UNCHANGED <<toC, breaks, rCtl, rSent, gotReal, pool, cCmd>>

ProxyFailed(u) == /\ rEnd[u] = "borrowing" /\ breaks < MaxBreaks
                  /\ breaks' = breaks + 1
                  /\ rEnd' = [rEnd EXCEPT ![u] = "stranded"]
                  /\ TellFailed(u)
                  /\ UNCHANGED <<sEnd, cEnd, toC, rCtl, rNext, rSent, gotReal, cNext,
                                 pool, realChans, cCmd>>

(* handleTransferMessage.                                                  *)
RecvTransferAtClient(p) == LET u == cNext[p]
                               m == Head(toC[p]) IN
  /\ AtClient(p, "transfer")
  /\ toC' = Read(toC, p)
  /\ gotReal' = IF u # None /\ rEnd[u] = "open"
                THEN [gotReal EXCEPT ![u] = Append(@, <<m.user, m.n>>)] ELSE gotReal
  /\ UNCHANGED <<sEnd, cEnd, toS, breaks, rEnd, rCtl, rNext, rSent, cNext, pool,
                 realChans, cCmd>>

(* handleDisconnectMessage: unbind, return to the pool (closed instead when*)
(* size() > MAX_POOL_SIZE), then close the backend once it has flushed.    *)
ReturnBackend(p) == /\ pool' = Append(pool, cNext[p])
                    /\ toC' = Read(toC, p)
                    /\ UNCHANGED cEnd

ReturnProxyChannel(p) == IF Len(pool) > PoolMax
                         THEN /\ cEnd' = CloseEnd(cEnd, p)
                              /\ toC' = Dropped(toC, p)
                              /\ UNCHANGED pool
                         ELSE /\ pool' = Append(pool, p)
                              /\ toC' = Read(toC, p)
                              /\ UNCHANGED cEnd

RecvDisconnectAtClient(p) ==
  /\ AtClient(p, "disconnect")
  /\ IF cNext[p] = None
     THEN toC' = Read(toC, p) /\ UNCHANGED <<cEnd, rEnd, cNext, pool>>
     ELSE /\ cNext' = [cNext EXCEPT ![p] = None]
          /\ ReturnProxyChannel(p)
          /\ rEnd' = ClosingReals({cNext[p]})
  /\ UNCHANGED <<sEnd, toS, breaks, rCtl, rNext, rSent, gotReal, realChans, cCmd>>

(* channelInactive of a data connection; it leaves the pool if it was there*)
StaysPooled(p) == UNCHANGED pool
RemoveProxyChannel(p) ==
  \/ /\ \A i \in DOMAIN pool : pool[i] # p
     /\ UNCHANGED pool
  \/ \E i \in DOMAIN pool :
       /\ pool[i] = p
       /\ pool' = SubSeq(pool, 1, i - 1) \o SubSeq(pool, i + 1, Len(pool))

ClientProxyInactive(p) == /\ cEnd[p] = "dead"
                          /\ cEnd' = [cEnd EXCEPT ![p] = "closed"]
                          /\ rEnd' = ClosingReals({cNext[p]})
                          /\ RemoveProxyChannel(p)
                          /\ UNCHANGED <<sEnd, toS, toC, breaks, rCtl, rNext, rSent,
                                         gotReal, cNext, realChans, cCmd>>

(* channelInactive of the control connection: clearRealServerChannels.     *)
ClientCtlInactive(c) ==
  /\ cEnd[c] = "dead"
  /\ cEnd' = [cEnd EXCEPT ![c] = "closed"]
  /\ cCmd' = None
  /\ rEnd' = ClosingReals(realChans)
  /\ realChans' = {}
  /\ UNCHANGED <<sEnd, toS, toC, breaks, rCtl, rNext, rSent, gotReal, cNext, pool>>
------------------------------------------------------------------------------
(* RealServerChannelHandler                                                *)

(* channelRead0: NEXT_CHANNEL stays set for good once bound, so a backend  *)
(* that is being closed is still read and forwarded.                       *)
RealRead(u) == /\ rEnd[u] \in {"open", "closing"} /\ rSent[u] < MaxDown
               /\ rSent' = [rSent EXCEPT ![u] = @ + 1]
               /\ SendToS(rNext[u], TransferMsg(u, rSent[u] + 1))
               /\ UNCHANGED <<sEnd, cEnd, toC, breaks, rEnd, rCtl, rNext, gotReal,
                              cNext, pool, realChans, cCmd>>

(* channelInactive: the backend closed (open), or the client did (closing) *)
RealInactiveReturns(u) == /\ rEnd[u] \in {"open", "closing"}
                          /\ rEnd' = [rEnd EXCEPT ![u] = "closed"]
                          /\ realChans' = realChans \ {u}
                          /\ SendToS(rNext[u], DisconnectMsg(u))
                          /\ pool' = Append(pool, rNext[u])
                          /\ UNCHANGED <<sEnd, cEnd, toC, breaks, rCtl, rNext, rSent,
                                         gotReal, cNext, cCmd>>

RealInactive(u) == /\ rEnd[u] \in {"open", "closing"}
                   /\ rEnd' = [rEnd EXCEPT ![u] = "closed"]
                   /\ realChans' = realChans \ {u}
                   /\ SendToS(rNext[u], DisconnectMsg(u))
                   /\ UNCHANGED <<sEnd, cEnd, toC, breaks, rCtl, rNext, rSent,
                                  gotReal, cNext, pool, cCmd>>
==============================================================================
