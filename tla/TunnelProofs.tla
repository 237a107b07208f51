----------------------------- MODULE TunnelProofs -----------------------------
(***************************************************************************)
(* Type correctness of Tunnel and the invariants of the server's           *)
(* registrations, for any users, connections and bounds.                   *)
(***************************************************************************)
EXTENDS Tunnel, SequenceTheorems, TLAPS

LEMMA MessageTypes ==
  /\ AuthMsg \in Message
  /\ \A u \in Users : ConnectMsg(u) \in Message /\ DisconnectMsg(u) \in Message
  /\ \A u \in Users, n \in Nat : TransferMsg(u, n) \in Message
BY DEF AuthMsg, ConnectMsg, DisconnectMsg, TransferMsg, Message

(* Writing to, reading from and closing a connection keeps its type.       *)
LEMMA SendTyped ==
  ASSUME LinksTypeOK, NEW x, NEW m \in Message
  PROVE  /\ SendToC(x, m) => toC' \in [Conns -> Seq(Message)]
         /\ SendToS(x, m) => toS' \in [Conns -> Seq(Message)]
<1>1. ASSUME NEW q \in [Conns -> Seq(Message)]
      PROVE  [q EXCEPT ![x] = Append(@, m)] \in [Conns -> Seq(Message)]
  <2>1. CASE x \in Conns
    <3>1. Append(q[x], m) \in Seq(Message) BY <2>1, AppendProperties
    <3> QED BY <3>1
  <2>2. CASE x \notin Conns BY <2>2
  <2> QED BY <2>1, <2>2
<1> QED BY <1>1 DEF LinksTypeOK, SendToC, SendToS

LEMMA ReadTyped ==
  ASSUME NEW q \in [Conns -> Seq(Message)], NEW x \in Conns, q[x] # <<>>
  PROVE  /\ Head(q[x]) \in Message
         /\ Read(q, x) \in [Conns -> Seq(Message)]
BY DEF Read

LEMMA CloseTyped ==
  ASSUME NEW e \in [Conns -> EndStates], NEW q \in [Conns -> Seq(Message)], NEW x
  PROVE  /\ CloseEnd(e, x) \in [Conns -> EndStates]
         /\ Dropped(q, x) \in [Conns -> Seq(Message)]
<1>1. <<>> \in Seq(Message) OBVIOUS
<1> QED BY <1>1 DEF CloseEnd, Dropped, EndStates

LEMMA UserMessage ==
  ASSUME NEW m \in Message, m.type # "auth"
  PROVE  m.user \in Users /\ m.n \in Nat
BY DEF Message, AuthMsg

LEMMA InitTypeOK == Init => TypeOK
BY LinksAssumption DEF Init, LinksInit, ServerInit, ClientInit, TypeOK, LinksTypeOK,
   ServerTypeOK, ClientTypeOK, EndStates, UserStates, RealStates, Conns

LEMMA LinkStepTyped ==
  ASSUME TypeOK, NEW x \in Conns, UNCHANGED <<serverVars, clientVars>>,
         ServerEof(x) \/ ClientEof(x) \/ ServerBreak(x) \/ ClientBreak(x)
  PROVE  TypeOK'
<1> USE DEF TypeOK, LinksTypeOK, ServerTypeOK, ClientTypeOK, serverVars, clientVars
<1>1. CASE ServerEof(x) BY <1>1, CloseTyped DEF ServerEof
<1>2. CASE ClientEof(x) BY <1>2, CloseTyped DEF ClientEof
<1>3. CASE ServerBreak(x)
  <2>1. sEnd' \in [Conns -> EndStates] /\ toS' \in [Conns -> Seq(Message)]
    BY <1>3, CloseTyped DEF ServerBreak
  <2>2. breaks' \in Nat BY <1>3 DEF ServerBreak
  <2> QED BY <1>3, <2>1, <2>2 DEF ServerBreak
<1>4. CASE ClientBreak(x)
  <2>1. cEnd' \in [Conns -> EndStates] /\ toC' \in [Conns -> Seq(Message)]
    BY <1>4, CloseTyped DEF ClientBreak
  <2>2. breaks' \in Nat BY <1>4 DEF ClientBreak
  <2> QED BY <1>4, <2>1, <2>2 DEF ClientBreak
<1> QED BY <1>1, <1>2, <1>3, <1>4

LEMMA ClosingTyped ==
  ASSUME ServerTypeOK, ClientTypeOK, NEW U
  PROVE  /\ ClosingUsers(U) \in [Users -> UserStates]
         /\ ClosingReals(U) \in [Users -> RealStates]
         /\ \A c \in Ctls \cup {None} : WithoutUsers(c, U) \in [Ctls -> SUBSET Users]
BY DEF ServerTypeOK, ClientTypeOK, ClosingUsers, ClosingReals, UserStates, RealStates,
       WithoutUsers

LEMMA UserStepTyped ==
  ASSUME TypeOK, NEW u \in Users, ClientUnchanged,
         \/ UserRefused(u) \/ UserActive(u) \/ UserRead(u)
         \/ UserInactive(u) \/ UserInactiveUnrouted(u)
  PROVE  TypeOK'
<1> USE DEF TypeOK, LinksTypeOK, ServerTypeOK, ClientTypeOK, linkVars, clientVars,
            ClientUnchanged
<1>1. CASE UserRefused(u) BY <1>1 DEF UserRefused, UserStates
<1>2. CASE UserActive(u) BY <1>2, SendTyped, MessageTypes DEF UserActive, UserStates
<1>3. CASE UserRead(u)
  <2>1. uSent[u] + 1 \in Nat /\ uSent' \in [Users -> Nat] BY <1>3 DEF UserRead
  <2>2. SendToC(uNext[u], TransferMsg(u, uSent[u] + 1)) BY <1>3 DEF UserRead
  <2>3. toC' \in [Conns -> Seq(Message)] BY <2>1, <2>2, SendTyped, MessageTypes
  <2> QED BY <1>3, <2>1, <2>3 DEF UserRead
<1>4. CASE UserInactive(u)
  <2>1. toC' \in [Conns -> Seq(Message)] /\ pNext' \in [Proxies -> Users \cup {None}]
    BY <1>4, SendTyped, MessageTypes DEF UserInactive, ReleaseProxy
  <2> QED BY <1>4, <2>1, ClosingTyped DEF UserInactive, UserStates
<1>5. CASE UserInactiveUnrouted(u) BY <1>5 DEF UserInactiveUnrouted, UserStates
<1> QED BY <1>1, <1>2, <1>3, <1>4, <1>5

LEMMA ConfigStepTyped == ASSUME TypeOK, ConfigStep PROVE TypeOK'
<1> USE DEF TypeOK, LinksTypeOK, ServerTypeOK, ClientTypeOK, linkVars, clientVars,
            ClientUnchanged
<1>0. ClientUnchanged BY DEF ConfigStep
<1>1. ASSUME CheckAndClearUsers
      PROVE  uEnd' \in [Users -> UserStates] /\ userChannels' \in [Ctls -> SUBSET Users]
  BY <1>1, ClosingTyped DEF CheckAndClearUsers
<1>2. CASE PortRevoked
  <2>1. /\ uEnd' \in [Users -> UserStates] /\ userChannels' \in [Ctls -> SUBSET Users]
        /\ portCmd' \in Ctls \cup {None}
    BY <1>1, <1>2 DEF PortRevoked, RoutesWithout
  <2>2. granted' \in BOOLEAN /\ reconfigs' \in Nat
    <3>1. granted' = FALSE /\ reconfigs' = reconfigs + 1 BY <1>2 DEF PortRevoked
    <3>2. granted' \in BOOLEAN BY <3>1, Zenon
    <3>3. reconfigs' \in Nat BY <3>1
    <3> QED BY <3>2, <3>3
  <2>3. LinksTypeOK' /\ ClientTypeOK' BY <1>0, <1>2 DEF PortRevoked
  <2>4. ServerTypeOK' BY <1>2, <2>1, <2>2 DEF PortRevoked
  <2> QED BY <2>3, <2>4
<1>3. CASE PortGranted
  <2>1. portCmd' \in Ctls \cup {None} BY <1>3 DEF PortGranted
  <2>2. granted' \in BOOLEAN /\ reconfigs' \in Nat BY <1>3 DEF PortGranted
  <2>3. LinksTypeOK' /\ ClientTypeOK' BY <1>0, <1>3 DEF PortGranted
  <2>4. ServerTypeOK' BY <1>3, <2>1, <2>2 DEF PortGranted
  <2> QED BY <2>3, <2>4
<1>4. CASE LanChanged
  <2>1. reconfigs' \in Nat BY <1>4 DEF LanChanged
  <2>2. uEnd' \in [Users -> UserStates] /\ userChannels' \in [Ctls -> SUBSET Users]
    BY <1>1, <1>4 DEF LanChanged
  <2> QED BY <1>0, <1>4, <2>1, <2>2 DEF LanChanged
<1> QED BY <1>2, <1>3, <1>4 DEF ConfigStep

LEMMA ServerCtlStepTyped ==
  ASSUME TypeOK, NEW c \in Ctls, ServerCtlHandler(c) PROVE TypeOK'
<1> USE DEF TypeOK, LinksTypeOK, ServerTypeOK, ClientTypeOK, serverVars, clientVars,
            ClientUnchanged, Conns
<1>0. ClientUnchanged BY DEF ServerCtlHandler
<1>1. CASE RecvAuth(c) BY <1>0, <1>1, ReadTyped DEF RecvAuth, AtServer
<1>2. CASE RecvAuthRefused(c) BY <1>0, <1>2, CloseTyped DEF RecvAuthRefused
<1>3. CASE RecvDisconnectOnCtl(c)
  BY <1>0, <1>3, ReadTyped, ClosingTyped DEF RecvDisconnectOnCtl, AtServer
<1>4. CASE ServerCtlInactive(c)
  BY <1>0, <1>4, ClosingTyped, SMTT(60)
     DEF ServerCtlInactive, RoutesWithout, SweptUsers, EndStates
<1> QED BY <1>1, <1>2, <1>3, <1>4 DEF ServerCtlHandler

LEMMA ServerProxyStepTyped ==
  ASSUME TypeOK, NEW p \in Proxies, ServerProxyHandler(p) PROVE TypeOK'
<1> USE DEF TypeOK, LinksTypeOK, ServerTypeOK, ClientTypeOK, serverVars, clientVars,
            ClientUnchanged, Conns
<1>0. ClientUnchanged BY DEF ServerProxyHandler
<1>1. CASE GetUser(p) BY <1>0, <1>1 DEF GetUser, linkVars
<1>7. CASE BindUser(p)
  <2> DEFINE m == Head(toS[p])
  <2>1. m \in Message /\ m.type # "auth" /\ toS' \in [Conns -> Seq(Message)]
    BY <1>7, ReadTyped DEF BindUser, AtServer
  <2>2. m.user \in Users BY <2>1, UserMessage
  <2> HIDE DEF m
  <2>3. /\ pNext' \in [Proxies -> Users \cup {None}]
        /\ uNext' \in [Users -> Proxies \cup {None}]
    BY <1>7, <2>2 DEF BindUser, m
  <2> QED BY <1>0, <1>7, <2>1, <2>3 DEF BindUser
<1>2. CASE RecvConnectNoCtl(p) BY <1>0, <1>2, CloseTyped DEF RecvConnectNoCtl
<1>3. CASE RecvConnectGone(p) BY <1>0, <1>3, ReadTyped DEF RecvConnectGone, AtServer
<1>4. CASE RecvTransferAtServer(p)
  <2> DEFINE m == Head(toS[p])
  <2>1. m \in Message /\ m.type # "auth" /\ toS' \in [Conns -> Seq(Message)]
    BY <1>4, ReadTyped DEF RecvTransferAtServer, AtServer
  <2>2. <<m.user, m.n>> \in Chunk BY <2>1, UserMessage DEF Chunk
  <2> HIDE DEF m
  <2>3. gotUser' \in [Users -> Seq(Chunk)]
    BY <1>4, <2>2, AppendProperties DEF RecvTransferAtServer, m
  <2> QED BY <1>0, <1>4, <2>1, <2>3 DEF RecvTransferAtServer
<1>5. CASE RecvDisconnectAtServer(p)
  <2>1. toS' \in [Conns -> Seq(Message)]
    BY <1>5, ReadTyped DEF RecvDisconnectAtServer, AtServer
  <2>2. uEnd' \in [Users -> UserStates] /\ userChannels' \in [Ctls -> SUBSET Users]
    BY <1>5, ClosingTyped, SMTT(60) DEF RecvDisconnectAtServer
  <2>3. pNext' \in [Proxies -> Users \cup {None}] BY <1>5 DEF RecvDisconnectAtServer
  <2> QED BY <1>0, <1>5, <2>1, <2>2, <2>3 DEF RecvDisconnectAtServer
<1>6. CASE ServerProxyInactive(p)
  <2>1. uEnd' \in [Users -> UserStates] /\ userChannels' \in [Ctls -> SUBSET Users]
    BY <1>6, ClosingTyped DEF ServerProxyInactive
  <2>2. sEnd' \in [Conns -> EndStates] BY <1>6 DEF ServerProxyInactive, EndStates
  <2> QED BY <1>0, <1>6, <2>1, <2>2 DEF ServerProxyInactive
<1> QED BY <1>1, <1>2, <1>3, <1>4, <1>5, <1>6, <1>7 DEF ServerProxyHandler

(* Removing one element of a sequence of S leaves a sequence of S.         *)
LEMMA CutTyped ==
  ASSUME NEW S, NEW s \in Seq(S), NEW i \in DOMAIN s
  PROVE  SubSeq(s, 1, i - 1) \o SubSeq(s, i + 1, Len(s)) \in Seq(S)
<1>1. i \in 1..Len(s) BY LenProperties
<1>2. SubSeq(s, 1, i - 1) \in Seq(S) BY <1>1, LenProperties, SubSeqProperties
<1>3. SubSeq(s, i + 1, Len(s)) \in Seq(S) BY <1>1, LenProperties, SubSeqProperties
<1> QED BY <1>2, <1>3, ConcatProperties

LEMMA ClientCtlStepTyped ==
  ASSUME TypeOK, NEW c \in Ctls, ClientCtlHandler(c) PROVE TypeOK'
<1> USE DEF TypeOK, LinksTypeOK, ServerTypeOK, ClientTypeOK, serverVars, ServerUnchanged, Conns
<1>0. ServerUnchanged BY DEF ClientCtlHandler
<1>1. CASE CtlConnect(c)
  <2>1. <<AuthMsg>> \in Seq(Message) BY MessageTypes
  <2> QED BY <1>0, <1>1, <2>1 DEF CtlConnect, EndStates
<1>2. CASE RecvConnectOnCtl(c)
  BY <1>0, <1>2, ReadTyped DEF RecvConnectOnCtl, AtClient, RealStates
<1>3. CASE ClientCtlInactive(c)
  BY <1>0, <1>3, ClosingTyped DEF ClientCtlInactive, EndStates
<1> QED BY <1>1, <1>2, <1>3 DEF ClientCtlHandler

LEMMA ClientProxyStepTyped ==
  ASSUME TypeOK, NEW p \in Proxies, ClientProxyHandler(p) PROVE TypeOK'
<1> USE DEF TypeOK, LinksTypeOK, ServerTypeOK, ClientTypeOK, serverVars, ServerUnchanged, Conns
<1>0. ServerUnchanged BY DEF ClientProxyHandler
<1>1. CASE RecvTransferAtClient(p)
  <2> DEFINE m == Head(toC[p])
  <2>1. m \in Message /\ m.type # "auth" /\ toC' \in [Conns -> Seq(Message)]
    BY <1>1, ReadTyped DEF RecvTransferAtClient, AtClient
  <2>2. <<m.user, m.n>> \in Users \X Nat BY <2>1, UserMessage
  <2> HIDE DEF m
  <2>3. gotReal' \in [Users -> Seq(Users \X Nat)]
    BY <1>1, <2>2, AppendProperties DEF RecvTransferAtClient, m
  <2> QED BY <1>0, <1>1, <2>1, <2>3 DEF RecvTransferAtClient
<1>2. CASE RecvDisconnectAtClient(p)
  <2>1. Read(toC, p) \in [Conns -> Seq(Message)]
    BY <1>2, ReadTyped DEF RecvDisconnectAtClient, AtClient
  <2>2. Append(pool, p) \in Seq(Proxies) BY AppendProperties
  <2>3. /\ toC' \in [Conns -> Seq(Message)]
        /\ cEnd' \in [Conns -> EndStates]
        /\ pool' \in Seq(Proxies)
    <3>1. CASE cNext[p] = None BY <1>2, <2>1, <3>1 DEF RecvDisconnectAtClient
    <3>2. CASE cNext[p] # None /\ Len(pool) > PoolMax
      <4>1. pool' = pool /\ toC' = Dropped(toC, p) /\ cEnd' = CloseEnd(cEnd, p)
        BY <1>2, <3>2 DEF RecvDisconnectAtClient, ReturnProxyChannel
      <4>2. toC' \in [Conns -> Seq(Message)] /\ cEnd' \in [Conns -> EndStates]
        BY <4>1, CloseTyped
      <4>3. pool' \in Seq(Proxies) BY <4>1
      <4> QED BY <4>2, <4>3
    <3>3. CASE cNext[p] # None /\ ~(Len(pool) > PoolMax)
      <4>1. pool' = Append(pool, p) /\ toC' = Read(toC, p) /\ cEnd' = cEnd
        BY <1>2, <3>3 DEF RecvDisconnectAtClient, ReturnProxyChannel
      <4>2. cEnd' \in [Conns -> EndStates] BY <4>1
      <4> HIDE DEF Conns
      <4> QED BY <4>1, <4>2, <2>1, <2>2
    <3> QED BY <3>1, <3>2, <3>3
  <2>4. cNext' \in [Proxies -> Users \cup {None}] BY <1>2 DEF RecvDisconnectAtClient
  <2>5. rEnd' \in [Users -> RealStates]
    <3>1. ClosingReals({cNext[p]}) \in [Users -> RealStates] BY ClosingTyped
    <3> QED BY <1>2, <3>1 DEF RecvDisconnectAtClient
  <2> QED BY <1>0, <1>2, <2>3, <2>4, <2>5 DEF RecvDisconnectAtClient
<1>3. CASE ClientProxyInactive(p)
  <2>1. pool' \in Seq(Proxies)
    <3>1. CASE UNCHANGED pool BY <3>1
    <3>2. ASSUME NEW i \in DOMAIN pool,
                 pool' = SubSeq(pool, 1, i - 1) \o SubSeq(pool, i + 1, Len(pool))
          PROVE  pool' \in Seq(Proxies)
      BY <3>2, CutTyped
    <3> QED BY <1>3, <3>1, <3>2 DEF ClientProxyInactive, RemoveProxyChannel
  <2>2. rEnd' \in [Users -> RealStates] BY <1>3, ClosingTyped DEF ClientProxyInactive
  <2>3. cEnd' \in [Conns -> EndStates] BY <1>3 DEF ClientProxyInactive, EndStates
  <2> QED BY <1>0, <1>3, <2>1, <2>2, <2>3 DEF ClientProxyInactive
<1> QED BY <1>1, <1>2, <1>3 DEF ClientProxyHandler

LEMMA BackendStepTyped ==
  ASSUME TypeOK, NEW u \in Users, ServerUnchanged,
         \/ RealFailed(u) \/ RealConnectedPooled(u) \/ BindPolled(u) \/ RealConnectedNew(u)
         \/ (\E p \in Proxies : ProxyConnected(u, p)) \/ ProxyFailed(u)
         \/ RealRead(u) \/ RealInactive(u)
  PROVE  TypeOK'
<1> USE DEF TypeOK, LinksTypeOK, ServerTypeOK, ClientTypeOK, linkVars, serverVars,
            ServerUnchanged, Conns, RealStates
<1>1. CASE RealFailed(u) BY <1>1, SendTyped, MessageTypes DEF RealFailed, TellFailed
<1>2. CASE RealConnectedPooled(u)
  <2>1. Head(pool) \in Proxies /\ Tail(pool) \in Seq(Proxies)
    BY <1>2 DEF RealConnectedPooled
  <2> QED BY <1>2, <2>1 DEF RealConnectedPooled
<1>8. CASE BindPolled(u)
  <2>1. toS' \in [Conns -> Seq(Message)] BY <1>8, SendTyped, MessageTypes DEF BindPolled
  <2>2. cNext' \in [Proxies -> Users \cup {None}] /\ rEnd' \in [Users -> RealStates]
    BY <1>8 DEF BindPolled, Bind
  <2>3. rNext' \in [Users -> Proxies \cup {None}] /\ realChans' \subseteq Users
    BY <1>8 DEF BindPolled, Bind
  <2> QED BY <1>8, <2>1, <2>2, <2>3 DEF BindPolled
<1>3. CASE RealConnectedNew(u) BY <1>3 DEF RealConnectedNew
<1>4. ASSUME NEW p \in Proxies, ProxyConnected(u, p) PROVE TypeOK'
  <2>1. <<ConnectMsg(u)>> \in Seq(Message) BY MessageTypes
  <2>2. toS' \in [Conns -> Seq(Message)] BY <1>4, <2>1 DEF ProxyConnected
  <2> QED BY <1>4, <2>2 DEF ProxyConnected, Bind, EndStates
<1>5. CASE ProxyFailed(u)
  <2>1. toS' \in [Conns -> Seq(Message)]
    BY <1>5, SendTyped, MessageTypes DEF ProxyFailed, TellFailed
  <2>2. breaks' \in Nat BY <1>5 DEF ProxyFailed
  <2>3. rEnd' \in [Users -> RealStates] BY <1>5 DEF ProxyFailed
  <2> QED BY <1>5, <2>1, <2>2, <2>3 DEF ProxyFailed
<1>6. CASE RealRead(u)
  <2> DEFINE m == TransferMsg(u, rSent[u] + 1)
  <2>1. toS' \in [Conns -> Seq(Message)]
    <3>1. rSent[u] + 1 \in Nat OBVIOUS
    <3>2. m \in Message BY <3>1, MessageTypes
    <3>3. SendToS(rNext[u], m) BY <1>6 DEF RealRead
    <3> HIDE DEF m
    <3> QED BY <3>2, <3>3, SendTyped
  <2>2. rSent' \in [Users -> Nat] BY <1>6 DEF RealRead
  <2> QED BY <1>6, <2>1, <2>2 DEF RealRead
<1>7. CASE RealInactive(u)
  <2>1. toS' \in [Conns -> Seq(Message)]
    BY <1>7, SendTyped, MessageTypes DEF RealInactive
  <2>2. rEnd' \in [Users -> RealStates] /\ realChans' \subseteq Users
    BY <1>7 DEF RealInactive
  <2> QED BY <1>7, <2>1, <2>2 DEF RealInactive
<1> QED BY <1>1, <1>2, <1>3, <1>4, <1>5, <1>6, <1>7, <1>8

LEMMA StepTyped == TypeOK /\ [Next]_vars => TypeOK'
<1> SUFFICES ASSUME TypeOK, [Next]_vars PROVE TypeOK' OBVIOUS
<1>1. CASE UNCHANGED vars
  BY <1>1 DEF vars, linkVars, serverVars, clientVars, TypeOK, LinksTypeOK, ServerTypeOK,
              ClientTypeOK
<1>2. ASSUME NEW u \in Users, ServerUserHandler(u) \/ UserStep(u) PROVE TypeOK'
  BY <1>2, UserStepTyped DEF ServerUserHandler, UserStep
<1>3. ASSUME NEW u \in Users, BackendHandler(u) \/ BackendStep(u) PROVE TypeOK'
  BY <1>3, BackendStepTyped DEF BackendHandler, BackendStep
<1>4. ASSUME NEW x \in Conns, EofStep(x) PROVE TypeOK'
  BY <1>4, LinkStepTyped DEF EofStep, ServerUnchanged, ClientUnchanged
<1>5. CASE BreakStep BY <1>5, LinkStepTyped DEF BreakStep, ServerUnchanged, ClientUnchanged
<1>6. CASE EventLoops
  BY <1>2, <1>3, <1>4, <1>6, ServerCtlStepTyped, ServerProxyStepTyped,
     ClientCtlStepTyped, ClientProxyStepTyped DEF EventLoops
<1>7. CASE Next BY <1>2, <1>3, <1>5, <1>6, <1>7, ConfigStepTyped DEF Next
<1> QED BY <1>1, <1>7

(* Every variable keeps its type: messages are well formed in every queue, *)
(* chunks carry the user and ordinal of a real chunk, the pool holds data  *)
(* connections only.                                                       *)
THEOREM TypeCorrect == Spec => []TypeOK
BY InitTypeOK, StepTyped, PTL DEF Spec
------------------------------------------------------------------------------
(* The server's registrations: which control connection is registered,     *)
(* where the port leads, and who supervises the open users.  The           *)
(* strengthening is RegisteredIsCmd: of all control connections that ever  *)
(* authenticated, the registered one is the only one whose channelInactive *)
(* has not run.  The client and the network enter only through the life    *)
(* cycle of the connections' server ends (EndStep).                        *)
RegisteredIsCmd ==
  /\ cmd # None => cmd \in registered /\ sEnd[cmd] \in {"open", "dead"}
  /\ \A c \in registered : /\ sEnd[c] # "unused"
                           /\ sEnd[c] # "closed" => cmd = c

SInv == RegisteredIsCmd /\ OpenUserSupervised /\ RouteIsRegistered

registrationVars == <<uEnd, cmd, portCmd, registered, userChannels, granted>>

(* What a step other than channelInactive does to the server's end of the  *)
(* control connections: nothing, open a new one, or let one die.           *)
EndStep == \A c \in Ctls : \/ sEnd'[c] = sEnd[c]
                           \/ sEnd[c] = "unused" /\ sEnd'[c] = "open"
                           \/ sEnd[c] = "open" /\ sEnd'[c] = "dead"

LEMMA InitSInv == Init => SInv
BY DEF Init, LinksInit, ServerInit, SInv, RegisteredIsCmd, OpenUserSupervised,
       RouteIsRegistered

(* A step that opens no user, and that takes no user that stays open out   *)
(* of a USER_CHANNELS.                                                     *)
LEMMA CloseKeeps ==
  ASSUME TypeOK, SInv, EndStep, UNCHANGED <<cmd, portCmd, registered, granted>>,
         \A u \in Users : uEnd'[u] = "open" => uEnd[u] = "open",
         \A u \in Users, d \in Ctls :
           uEnd'[u] = "open" /\ u \in userChannels[d] => u \in userChannels'[d]
  PROVE  SInv'
<1> USE DEF SInv
<1>0. registered \subseteq Ctls /\ (cmd # None => cmd \in Ctls)
  BY DEF TypeOK, ServerTypeOK
<1>1. cmd # None => cmd \in registered /\ sEnd'[cmd] \in {"open", "dead"}
  BY <1>0 DEF RegisteredIsCmd, EndStep
<1>2. ASSUME NEW d \in registered
      PROVE  sEnd'[d] # "unused" /\ (sEnd'[d] # "closed" => cmd = d)
  BY <1>0 DEF RegisteredIsCmd, EndStep
<1>3. RegisteredIsCmd' BY <1>1, <1>2 DEF RegisteredIsCmd
<1>4. OpenUserSupervised'
  <2> SUFFICES ASSUME NEW u \in Users, uEnd'[u] = "open"
               PROVE  cmd # None /\ u \in userChannels'[cmd]
    BY DEF OpenUserSupervised
  <2> QED BY <1>0 DEF OpenUserSupervised
<1>5. RouteIsRegistered' BY DEF RouteIsRegistered
<1> QED BY <1>3, <1>4, <1>5

LEMMA EndStepKeeps ==
  ASSUME TypeOK, SInv, EndStep, UNCHANGED registrationVars
  PROVE  SInv'
<1>1. UNCHANGED <<cmd, portCmd, registered, granted>> BY DEF registrationVars
<1>2. UNCHANGED <<uEnd, userChannels>> BY DEF registrationVars
<1> QED BY <1>1, <1>2, CloseKeeps

LEMMA LinkStepKeeps ==
  ASSUME TypeOK, SInv, ServerUnchanged, NEW x \in Conns,
         ServerEof(x) \/ ClientEof(x) \/ ServerBreak(x) \/ ClientBreak(x)
  PROVE  SInv'
<1>1. EndStep
  BY DEF ServerEof, ClientEof, ServerBreak, ClientBreak, EndStep, CloseEnd, TypeOK,
         LinksTypeOK, Conns
<1>2. UNCHANGED registrationVars BY DEF ServerUnchanged, serverVars, registrationVars
<1> QED BY <1>1, <1>2, EndStepKeeps

LEMMA ClientStepKeeps ==
  ASSUME TypeOK, SInv, ServerUnchanged,
         \/ \E c \in Ctls : ClientCtlHandler(c)
         \/ \E p \in Proxies : ClientProxyHandler(p)
         \/ \E u \in Users : BackendHandler(u) \/ BackendStep(u)
  PROVE  SInv'
<1>1. UNCHANGED registrationVars BY DEF ServerUnchanged, serverVars, registrationVars
<1>2. CASE UNCHANGED sEnd BY <1>1, <1>2, EndStepKeeps DEF EndStep
<1>3. ASSUME NEW c \in Ctls, CtlConnect(c) PROVE SInv'
  <2>1. EndStep BY <1>3 DEF CtlConnect, EndStep, TypeOK, LinksTypeOK, Conns
  <2> QED BY <1>1, <2>1, EndStepKeeps
<1>4. ASSUME NEW u \in Users, NEW p \in Proxies, ProxyConnected(u, p) PROVE SInv'
  <2>1. EndStep
    BY <1>4, LinksAssumption DEF ProxyConnected, EndStep, TypeOK, LinksTypeOK, Conns
  <2> QED BY <1>1, <2>1, EndStepKeeps
<1>5. ASSUME NEW c \in Ctls, ClientCtlHandler(c) PROVE SInv'
  BY <1>2, <1>3, <1>5 DEF ClientCtlHandler, RecvConnectOnCtl, ClientCtlInactive
<1>6. ASSUME NEW p \in Proxies, ClientProxyHandler(p) PROVE SInv'
  BY <1>2, <1>6 DEF ClientProxyHandler, RecvTransferAtClient, RecvDisconnectAtClient,
                    ClientProxyInactive
<1>7. ASSUME NEW u \in Users, BackendHandler(u) \/ BackendStep(u) PROVE SInv'
  BY <1>2, <1>4, <1>7
     DEF BackendHandler, BackendStep, RealFailed, RealConnectedPooled, BindPolled, RealConnectedNew,
         ProxyFailed, RealRead, RealInactive, linkVars
<1> QED BY <1>5, <1>6, <1>7

LEMMA UserStepKeeps ==
  ASSUME TypeOK, SInv, NEW u \in Users,
         \/ UserRefused(u) \/ UserActive(u) \/ UserRead(u)
         \/ UserInactive(u) \/ UserInactiveUnrouted(u)
  PROVE  SInv'
<1> USE DEF TypeOK, ServerTypeOK, EndStep
<1>1. CASE UserRefused(u)
  <2>1. \A v \in Users : uEnd'[v] = "open" => uEnd[v] = "open" BY <1>1 DEF UserRefused
  <2> QED BY <1>1, <2>1, CloseKeeps DEF UserRefused, linkVars
<1>2. CASE UserActive(u)
  <2>1. portCmd = cmd /\ cmd # None /\ cmd \in Ctls
    BY <1>2 DEF UserActive, SInv, RouteIsRegistered
  <2>2. RegisteredIsCmd' /\ RouteIsRegistered'
    BY <1>2 DEF UserActive, SInv, RegisteredIsCmd, RouteIsRegistered
  <2>3. \A v \in Users : uEnd'[v] = "open" => v \in userChannels'[cmd]
    BY <1>2, <2>1 DEF UserActive, SInv, OpenUserSupervised
  <2>4. OpenUserSupervised' BY <1>2, <2>1, <2>3 DEF UserActive, OpenUserSupervised
  <2> QED BY <2>2, <2>4 DEF SInv
<1>3. CASE UserRead(u)
  BY <1>3, EndStepKeeps DEF UserRead, registrationVars
<1>4. CASE UserInactive(u)
  <2>1. \A v \in Users : uEnd'[v] = "open" => uEnd[v] = "open" /\ v # u
    BY <1>4 DEF UserInactive
  <2>2. \A v \in Users, d \in Ctls :
          v # u /\ v \in userChannels[d] => v \in userChannels'[d]
    BY <1>4 DEF UserInactive, WithoutUsers
  <2> QED BY <1>4, <2>1, <2>2, CloseKeeps DEF UserInactive
<1>5. CASE UserInactiveUnrouted(u)
  <2>1. \A v \in Users : uEnd'[v] = "open" => uEnd[v] = "open"
    BY <1>5 DEF UserInactiveUnrouted
  <2> QED BY <1>5, <2>1, CloseKeeps DEF UserInactiveUnrouted, linkVars
<1> QED BY <1>1, <1>2, <1>3, <1>4, <1>5

LEMMA ConfigStepKeeps == ASSUME TypeOK, SInv, ConfigStep PROVE SInv'
<1> USE DEF TypeOK, ServerTypeOK, SInv
<1>1. ASSUME CheckAndClearUsers, CmdActive
      PROVE  \A u \in Users : uEnd'[u] # "open"
  BY <1>1 DEF CheckAndClearUsers, ClosingUsers, OpenUserSupervised
<1>2. UNCHANGED <<sEnd, cmd, registered>>
  BY DEF ConfigStep, PortRevoked, PortGranted, LanChanged, linkVars
<1>3. RegisteredIsCmd' BY <1>2 DEF RegisteredIsCmd
<1>4. CmdActive' = CmdActive BY <1>2 DEF CmdActive
<1>5. CASE PortRevoked /\ CmdActive
  <2>1. \A u \in Users : uEnd'[u] # "open" BY <1>1, <1>5 DEF PortRevoked
  <2>2. portCmd' = None
    BY <1>5 DEF PortRevoked, RoutesWithout, RouteIsRegistered
  <2> QED BY <1>3, <2>1, <2>2
             DEF OpenUserSupervised, RouteIsRegistered
<1>6. CASE PortRevoked /\ ~CmdActive
  <2>1. UNCHANGED <<uEnd, userChannels, portCmd>> BY <1>6 DEF PortRevoked
  <2> QED BY <1>2, <1>3, <1>4, <1>6, <2>1
             DEF OpenUserSupervised, RouteIsRegistered
<1>7. CASE PortGranted
  <2>1. granted' = TRUE /\ UNCHANGED <<uEnd, userChannels>> BY <1>7 DEF PortGranted
  <2>2. RouteIsRegistered' BY <1>2, <1>7 DEF PortGranted, RouteIsRegistered, CmdActive
  <2> QED BY <1>2, <1>3, <2>1, <2>2 DEF OpenUserSupervised
<1>8. CASE LanChanged
  <2>1. \A u \in Users : uEnd'[u] # "open" BY <1>1, <1>8 DEF LanChanged
  <2>2. UNCHANGED <<portCmd, granted>> /\ granted BY <1>8 DEF LanChanged
  <2> QED BY <1>2, <1>3, <2>1, <2>2
             DEF OpenUserSupervised, RouteIsRegistered
<1> QED BY <1>5, <1>6, <1>7, <1>8 DEF ConfigStep

LEMMA ServerProxyStepKeeps ==
  ASSUME TypeOK, SInv, NEW p \in Proxies, ServerProxyHandler(p) PROVE SInv'
<1> USE DEF TypeOK, ServerTypeOK
<1>0. p \notin Ctls /\ \A c \in Ctls : c \in Conns BY LinksAssumption DEF Conns
<1>1. EndStep
  <2>1. CASE RecvConnectNoCtl(p)
    BY <1>0, <2>1 DEF RecvConnectNoCtl, AtServer, CloseEnd, EndStep, LinksTypeOK
  <2>2. CASE ServerProxyInactive(p)
    BY <1>0, <2>2 DEF ServerProxyInactive, EndStep, LinksTypeOK
  <2>3. CASE UNCHANGED sEnd BY <2>3 DEF EndStep
  <2> QED BY <2>1, <2>2, <2>3
             DEF ServerProxyHandler, RecvConnectGone, GetUser, BindUser, linkVars,
                 RecvTransferAtServer, RecvDisconnectAtServer
<1>2. CASE GetUser(p) \/ BindUser(p) \/ RecvConnectNoCtl(p) \/ RecvConnectGone(p)
           \/ RecvTransferAtServer(p)
  <2>1. UNCHANGED registrationVars
    BY <1>2 DEF GetUser, BindUser, RecvConnectNoCtl, RecvConnectGone, RecvTransferAtServer,
       serverVars, registrationVars
  <2> QED BY <1>1, <2>1, EndStepKeeps
<1>3. ASSUME NEW u \in Users, uEnd' = ClosingUsers({u}), userChannels' = WithoutUsers(cmd, {u}),
             UNCHANGED <<cmd, portCmd, registered, granted>>
      PROVE  SInv'
  <2>1. \A v \in Users : uEnd'[v] = "open" => uEnd[v] = "open" /\ v # u
    BY <1>3 DEF ClosingUsers
  <2>2. \A v \in Users, d \in Ctls :
          v # u /\ v \in userChannels[d] => v \in userChannels'[d]
    BY <1>3 DEF WithoutUsers
  <2> QED BY <1>1, <1>3, <2>1, <2>2, CloseKeeps
<1>4. CASE RecvDisconnectAtServer(p)
  <2>1. CASE UNCHANGED <<uEnd, userChannels>>
    BY <1>1, <1>4, <2>1, EndStepKeeps DEF RecvDisconnectAtServer, registrationVars
  <2> QED BY <1>3, <1>4, <2>1 DEF RecvDisconnectAtServer
<1>5. CASE ServerProxyInactive(p)
  <2>1. CASE UNCHANGED <<uEnd, userChannels>>
    BY <1>1, <1>5, <2>1, EndStepKeeps DEF ServerProxyInactive, registrationVars
  <2> QED BY <1>3, <1>5, <2>1 DEF ServerProxyInactive
<1> QED BY <1>2, <1>4, <1>5 DEF ServerProxyHandler

LEMMA ServerCtlStepKeeps ==
  ASSUME TypeOK, SInv, NEW c \in Ctls, ServerCtlHandler(c) PROVE SInv'
<1> USE DEF TypeOK, ServerTypeOK
<1>0. c \in Conns /\ c # None BY LinksAssumption DEF Conns
<1>1. CASE RecvAuth(c)
  <2>1. /\ sEnd[c] = "open" /\ cmd = None /\ portCmd = None
        /\ \A u \in Users : uEnd[u] # "open"
        /\ \A d \in registered : sEnd[d] = "closed"
    BY <1>1, LinksAssumption
       DEF RecvAuth, AtServer, SInv, RouteIsRegistered, OpenUserSupervised, RegisteredIsCmd
  <2>2. /\ cmd' = c /\ registered' = registered \cup {c}
        /\ UNCHANGED <<sEnd, uEnd, granted>>
        /\ portCmd' = IF granted THEN c ELSE portCmd
    BY <1>1 DEF RecvAuth
  <2>3. RegisteredIsCmd' BY <2>1, <2>2 DEF RegisteredIsCmd
  <2>4. OpenUserSupervised' BY <2>1, <2>2 DEF OpenUserSupervised
  <2>5. RouteIsRegistered' BY <2>1, <2>2 DEF RouteIsRegistered
  <2> QED BY <2>3, <2>4, <2>5 DEF SInv
<1>2. CASE RecvAuthRefused(c)
  <2>1. EndStep BY <1>2 DEF RecvAuthRefused, AtServer, EndStep, CloseEnd, LinksTypeOK, Conns
  <2> QED BY <1>2, <2>1, EndStepKeeps DEF RecvAuthRefused, serverVars, registrationVars
<1>3. CASE RecvDisconnectOnCtl(c)
  <2> DEFINE u == Head(toS[c]).user
  <2>1. EndStep BY <1>3 DEF RecvDisconnectOnCtl, EndStep
  <2>2. \A v \in Users : uEnd'[v] = "open" =>
          uEnd[v] = "open" /\ (v = u => u \notin userChannels[c])
    BY <1>3 DEF RecvDisconnectOnCtl, ClosingUsers
  <2>3. userChannels' = [userChannels EXCEPT ![c] = @ \ {u}]
    BY <1>0, <1>3 DEF RecvDisconnectOnCtl, WithoutUsers
  <2>4. UNCHANGED <<cmd, portCmd, registered, granted>> BY <1>3 DEF RecvDisconnectOnCtl
  <2> HIDE DEF u
  <2> QED BY <2>1, <2>2, <2>3, <2>4, CloseKeeps
<1>4. CASE ServerCtlInactive(c)
  <2>1. sEnd' = [sEnd EXCEPT ![c] = "closed"] /\ UNCHANGED <<registered, userChannels, granted>>
    BY <1>4 DEF ServerCtlInactive
  <2>2. CASE c \in registered
    <3>1. cmd = c BY <1>4, <2>2 DEF ServerCtlInactive, SInv, RegisteredIsCmd
    <3>2. cmd' = None /\ portCmd' = None
      BY <1>4, <2>2, <3>1 DEF ServerCtlInactive, RoutesWithout, SInv, RouteIsRegistered
    <3>3. \A u \in Users : uEnd'[u] # "open"
      BY <1>4, <2>2, <3>1
         DEF ServerCtlInactive, SweptUsers, ClosingUsers, SInv, OpenUserSupervised
    <3>4. RegisteredIsCmd'
      BY <1>0, <2>1, <3>1, <3>2 DEF RegisteredIsCmd, SInv, LinksTypeOK, Conns
    <3> QED BY <3>2, <3>3, <3>4
               DEF SInv, OpenUserSupervised, RouteIsRegistered
  <2>3. CASE c \notin registered
    <3>1. cmd # c BY <1>0, <2>3 DEF SInv, RegisteredIsCmd
    <3>2. UNCHANGED <<cmd, portCmd, uEnd>> BY <1>4, <2>3 DEF ServerCtlInactive
    <3>3. RegisteredIsCmd'
      BY <1>0, <2>1, <2>3, <3>1, <3>2 DEF RegisteredIsCmd, SInv, LinksTypeOK, Conns
    <3> QED BY <2>1, <3>2, <3>3
               DEF SInv, OpenUserSupervised, RouteIsRegistered
  <2> QED BY <2>2, <2>3
<1> QED BY <1>1, <1>2, <1>3, <1>4 DEF ServerCtlHandler

LEMMA StepSInv == TypeOK /\ SInv /\ [Next]_vars => SInv'
<1> SUFFICES ASSUME TypeOK, SInv, [Next]_vars PROVE SInv' OBVIOUS
<1>1. CASE UNCHANGED vars
  <2>1. UNCHANGED registrationVars /\ UNCHANGED sEnd
    BY <1>1 DEF vars, linkVars, serverVars, registrationVars
  <2> QED BY <2>1, EndStepKeeps DEF EndStep
<1>2. ASSUME NEW u \in Users, ServerUserHandler(u) \/ UserStep(u) PROVE SInv'
  BY <1>2, UserStepKeeps DEF ServerUserHandler, UserStep
<1>3. ASSUME NEW u \in Users, BackendHandler(u) \/ BackendStep(u) PROVE SInv'
  <2>1. ServerUnchanged BY <1>3 DEF BackendHandler, BackendStep
  <2> QED BY <1>3, <2>1, ClientStepKeeps
<1>4. ASSUME NEW c \in Ctls, ClientCtlHandler(c) PROVE SInv'
  <2>1. ServerUnchanged BY <1>4 DEF ClientCtlHandler
  <2> QED BY <1>4, <2>1, ClientStepKeeps
<1>5. ASSUME NEW p \in Proxies, ClientProxyHandler(p) PROVE SInv'
  <2>1. ServerUnchanged BY <1>5 DEF ClientProxyHandler
  <2> QED BY <1>5, <2>1, ClientStepKeeps
<1>6. ASSUME NEW x \in Conns, EofStep(x) PROVE SInv' BY <1>6, LinkStepKeeps DEF EofStep
<1>7. CASE BreakStep BY <1>7, LinkStepKeeps DEF BreakStep
<1>8. CASE EventLoops
  BY <1>2, <1>3, <1>4, <1>5, <1>6, <1>8, ServerCtlStepKeeps, ServerProxyStepKeeps
     DEF EventLoops
<1>9. CASE Next BY <1>2, <1>3, <1>7, <1>8, <1>9, ConfigStepKeeps DEF Next
<1> QED BY <1>1, <1>9

LEMMA SpecSInv == Spec => []SInv
BY InitSInv, StepSInv, TypeCorrect, PTL DEF Spec

(* removeCmdChannel sweeps the users of the connection it removes; since   *)
(* every open user is among those of the registered connection, however    *)
(* messages and failures interleave, no user outlives its client session.  *)
THEOREM OpenUsersAreSupervised == Spec => []OpenUserSupervised
BY SpecSInv, PTL DEF SInv

(* portCmdChannelMapping never leads to a connection other than the one    *)
(* cmdChannels has for the key, across sessions and reconfigurations.      *)
THEOREM RouteLeadsToRegistered == Spec => []RouteIsRegistered
BY SpecSInv, PTL DEF SInv
==============================================================================
