-------------------------- MODULE TunnelBindingProofs -------------------------
(***************************************************************************)
(* Which user a data connection serves, at both of its ends.  A user gets  *)
(* one CONNECT, its backend one data connection, and that connection one   *)
(* CONNECT back; while it lives, it is in one phase of one session:        *)
(*   asked   its CONNECT is on the way to the server, nothing to the client*)
(*   used    the server has bound it to the user its client end is bound to*)
(*   ending  DISCONNECT is the last message on the way to the client       *)
(*   idle    unbound at the client: nothing is on the way in either        *)
(*           direction that would bind or unbind it; it is in the pool, or *)
(*           a backend has polled it                                       *)
(* Every invariant below is about one connection or one user, so a step on *)
(* one connection leaves it true of the others (Quiet).                    *)
(***************************************************************************)
EXTENDS TunnelProofs

(* What a queue says: the users whose CONNECT it holds, ...                *)
Asked(q) == {q[k].user : k \in {i \in DOMAIN q : q[i].type = "connect"}}

AskedOnce(q) == \A k, l \in DOMAIN q :
  q[k].type = "connect" /\ q[l].type = "connect" /\ q[k].user = q[l].user => k = l

(* ... a DISCONNECT, after which nothing is sent, ...                      *)
Ends(q) == \E k \in DOMAIN q : q[k].type = "disconnect"
EndsLast(q) == \A k \in DOMAIN q : q[k].type = "disconnect" => k = Len(q)

(* ... and before it the chunks n + 1, n + 2, ... of user u, up to last.   *)
Chunks(q, u, n, last) == \A k \in DOMAIN q :
  q[k].type # "disconnect" => q[k] = TransferMsg(u, n + k) /\ n + k <= last

Uses(u, p) == uNext[u] = p /\ uEnd[u] # "closed"

(* A user is in the USER_CHANNELS of one control connection; in those of   *)
(* the registered one only while it is open, and then the port has a route.*)
SupervisedOnce == \A u \in Users :
  /\ \A c, d \in Ctls : u \in userChannels[c] /\ u \in userChannels[d] => c = d
  /\ uEnd[u] = "unused" => \A c \in Ctls : u \notin userChannels[c]
  /\ cmd # None /\ u \in userChannels[cmd] => uEnd[u] = "open"
  /\ uEnd[u] = "open" => portCmd # None

(* A CONNECT is asked of the client once, for a user that was accepted and *)
(* has no backend yet.                                                     *)
AskedBackend == \A c \in Ctls :
  /\ AskedOnce(toC[c])
  /\ \A u \in Asked(toC[c]) : /\ rEnd[u] = "unused" /\ uEnd[u] # "unused"
                              /\ \A d \in Ctls : u \in Asked(toC[d]) => c = d

(* The backend of a user gets a data connection once, when it is open.     *)
BackendOnce == \A u \in Users :
  /\ uEnd[u] = "unused" => rEnd[u] = "unused" /\ rNext[u] = None
  /\ rEnd[u] \in {"unused", "connecting", "borrowing"} => rNext[u] = None
  /\ rEnd[u] \in {"connecting", "borrowing"} => rCtl[u] # None
  /\ rEnd[u] \in {"polled", "open", "closing"} => rNext[u] # None

(* CONNECT goes up once for a user, on the data connection of its backend; *)
(* neither end is ever bound to another connection than that.              *)
BoundOnce ==
  /\ \A p \in Proxies : /\ AskedOnce(toS[p])
                        /\ \A u \in Asked(toS[p]) : rNext[u] = p /\ uNext[u] = None
  /\ \A u \in Users : uNext[u] # None => uNext[u] = rNext[u]
  /\ \A p \in Proxies : cNext[p] # None => rNext[cNext[p]] = p

(* Nobody knows of a connection that has not been made.                    *)
FreshConn == \A p \in Proxies :
  /\ sEnd[p] = "unused" <=> cEnd[p] = "unused"
  /\ sEnd[p] = "unused" => /\ toC[p] = <<>> /\ pNext[p] = None /\ cNext[p] = None
                           /\ \A u \in Users : rNext[u] # p

PoolIdle ==
  /\ \A i, j \in DOMAIN pool : pool[i] = pool[j] => i = j
  /\ \A i \in DOMAIN pool : cNext[pool[i]] = None /\ cEnd[pool[i]] \in {"open", "dead"}

(* Between poll() and the binding the connection is that backend's alone,  *)
(* and unbound; its user is bound nowhere and nobody asks for it.          *)
PolledIdle == \A u \in Users : rEnd[u] = "polled" =>
  /\ uNext[u] = None /\ \A p \in Proxies : u \notin Asked(toS[p])
  /\ cNext[rNext[u]] = None /\ cEnd[rNext[u]] # "unused"
  /\ \A i \in DOMAIN pool : pool[i] # rNext[u]
  /\ \A v \in Users : rEnd[v] = "polled" /\ rNext[v] = rNext[u] => v = u

(* The phases of a live data connection.                                   *)
Session(p) == Linked(p) =>
  /\ \A u \in Users : Uses(u, p) => cNext[p] = u
  /\ pNext[p] # None => cNext[p] = pNext[p]
  /\ \A u \in Asked(toS[p]) : cNext[p] = u
  /\ Asked(toS[p]) # {} => toC[p] = <<>>
  /\ Asked(toS[p]) # {} \/ Ends(toC[p]) => /\ pNext[p] = None
                                           /\ \A u \in Users : ~Uses(u, p)

(* What is on the way to the client, also from a server end that is gone:  *)
(* the chunks its open backend lacks; all of them while the connection and *)
(* the binding of the user live.                                           *)
Down(p) ==
  /\ cNext[p] = None => toC[p] = <<>>
  /\ EndsLast(toC[p])
  /\ \A u \in Users : cNext[p] = u /\ rEnd[u] = "open" =>
       /\ Chunks(toC[p], u, Len(gotReal[u]), uSent[u])
       /\ Linked(p) /\ Uses(u, p) => uSent[u] = Len(gotReal[u]) + Len(toC[p])

Counted == \A u \in Users : /\ uNext[u] = None => uSent[u] = 0
                            /\ Len(gotReal[u]) <= uSent[u]

PInv == /\ AskedBackend /\ BackendOnce /\ BoundOnce /\ FreshConn /\ PoolIdle
        /\ PolledIdle /\ Counted
        /\ \A p \in Proxies : Session(p) /\ Down(p)

BInv == SupervisedOnce /\ PInv
------------------------------------------------------------------------------
(* How reading and writing change what a queue says.                       *)
LEMMA AppendedQueue ==
  ASSUME NEW q \in Seq(Message), NEW m \in Message
  PROVE  LET r == Append(q, m) IN
         /\ Len(r) = Len(q) + 1 /\ DOMAIN r = 1..Len(q) + 1 /\ DOMAIN q = 1..Len(q)
         /\ \A k \in DOMAIN q : r[k] = q[k]
         /\ r[Len(q) + 1] = m
BY AppendProperties, LenProperties

LEMMA ReadQueue ==
  ASSUME NEW q \in Seq(Message), q # <<>>
  PROVE  LET r == Tail(q) IN
         /\ Len(q) \in Nat \ {0} /\ Len(r) = Len(q) - 1
         /\ DOMAIN q = 1..Len(q) /\ DOMAIN r = 1..Len(q) - 1
         /\ \A k \in DOMAIN r : k + 1 \in DOMAIN q /\ r[k] = q[k + 1]
         /\ 1 \in DOMAIN q /\ Head(q) = q[1]
BY HeadTailProperties, LenProperties, EmptySeq

LEMMA AskedInMessages ==
  ASSUME NEW q \in Seq(Message)
  PROVE  Asked(q) \subseteq Users
<1>1. ASSUME NEW k \in DOMAIN q, q[k].type = "connect" PROVE q[k].user \in Users
  <2>1. q[k] \in Message BY ElementOfSeq, LenProperties
  <2> QED BY <1>1, <2>1, UserMessage
<1> QED BY <1>1 DEF Asked

LEMMA AskedEmpty == Asked(<<>>) = {} /\ AskedOnce(<<>>) /\ ~Ends(<<>>) /\ EndsLast(<<>>)
BY DEF Asked, AskedOnce, Ends, EndsLast

LEMMA AskedNothing ==
  ASSUME NEW q \in Seq(Message), NEW m \in Message, m.type # "connect"
  PROVE  /\ Asked(Append(q, m)) = Asked(q)
         /\ AskedOnce(q) => AskedOnce(Append(q, m))
<1> DEFINE r == Append(q, m)
<1>1. /\ DOMAIN r = 1..Len(q) + 1 /\ DOMAIN q = 1..Len(q) /\ Len(q) \in Nat
      /\ \A k \in DOMAIN q : r[k] = q[k]
      /\ r[Len(q) + 1] = m
  BY AppendedQueue, LenProperties
<1> HIDE DEF r
<1>2. \A k \in DOMAIN r : r[k].type = "connect" => k \in DOMAIN q BY <1>1
<1>3. Asked(r) = Asked(q) BY <1>1, <1>2 DEF Asked
<1>4. AskedOnce(q) => AskedOnce(r) BY <1>1, <1>2 DEF AskedOnce
<1> QED BY <1>3, <1>4 DEF r

LEMMA AskedMore ==
  ASSUME NEW q \in Seq(Message), NEW u \in Users
  PROVE  /\ Asked(Append(q, ConnectMsg(u))) = Asked(q) \cup {u}
         /\ AskedOnce(q) /\ u \notin Asked(q) => AskedOnce(Append(q, ConnectMsg(u)))
<1> DEFINE m == ConnectMsg(u)
           r == Append(q, m)
<1>0. m \in Message /\ m.type = "connect" /\ m.user = u
  BY MessageTypes DEF ConnectMsg
<1> HIDE DEF m
<1>1. /\ DOMAIN r = 1..Len(q) + 1 /\ DOMAIN q = 1..Len(q) /\ Len(q) \in Nat
      /\ \A k \in DOMAIN q : r[k] = q[k]
      /\ r[Len(q) + 1] = m
  BY <1>0, AppendedQueue, LenProperties
<1> HIDE DEF r
<1>2. Asked(r) = Asked(q) \cup {u}
  <2>1. Asked(q) \subseteq Asked(r) BY <1>1 DEF Asked
  <2>2. u \in Asked(r) BY <1>0, <1>1 DEF Asked
  <2>3. Asked(r) \subseteq Asked(q) \cup {u}
    <3> SUFFICES ASSUME NEW k \in DOMAIN r, r[k].type = "connect"
                 PROVE  r[k].user \in Asked(q) \cup {u}
      BY DEF Asked
    <3>1. CASE k \in DOMAIN q BY <1>1, <3>1 DEF Asked
    <3>2. CASE k = Len(q) + 1 BY <1>0, <1>1, <3>2
    <3> QED BY <1>1, <3>1, <3>2
  <2> QED BY <2>1, <2>2, <2>3
<1>3. ASSUME AskedOnce(q), u \notin Asked(q) PROVE AskedOnce(r)
  <2>1. \A k \in DOMAIN q : q[k].type = "connect" => q[k].user # u BY <1>3 DEF Asked
  <2> QED BY <1>0, <1>1, <1>3, <2>1 DEF AskedOnce
<1> QED BY <1>2, <1>3 DEF r, m

LEMMA AskedLess ==
  ASSUME NEW q \in Seq(Message), q # <<>>
  PROVE  /\ Asked(Tail(q)) \subseteq Asked(q)
         /\ AskedOnce(q) => AskedOnce(Tail(q))
         /\ Head(q).type = "connect" =>
              /\ Head(q).user \in Asked(q)
              /\ AskedOnce(q) => Head(q).user \notin Asked(Tail(q))
         /\ EndsLast(q) => EndsLast(Tail(q))
         /\ Ends(Tail(q)) => Ends(q)
<1> DEFINE r == Tail(q)
<1>1. /\ Len(q) \in Nat \ {0} /\ Len(r) = Len(q) - 1
      /\ DOMAIN q = 1..Len(q) /\ DOMAIN r = 1..Len(q) - 1
      /\ \A k \in DOMAIN r : k + 1 \in DOMAIN q /\ r[k] = q[k + 1]
      /\ 1 \in DOMAIN q /\ Head(q) = q[1]
  BY ReadQueue
<1> HIDE DEF r
<1>2. Asked(r) \subseteq Asked(q) BY <1>1 DEF Asked
<1>3. AskedOnce(q) => AskedOnce(r)
  <2> SUFFICES ASSUME AskedOnce(q), NEW k \in DOMAIN r, NEW l \in DOMAIN r,
                      r[k].type = "connect", r[l].type = "connect", r[k].user = r[l].user
               PROVE  k = l
    BY DEF AskedOnce
  <2>1. k + 1 = l + 1 BY <1>1 DEF AskedOnce
  <2> QED BY <1>1, <2>1
<1>4. ASSUME Head(q).type = "connect"
      PROVE  /\ Head(q).user \in Asked(q)
             /\ AskedOnce(q) => Head(q).user \notin Asked(r)
  <2>1. Head(q).user \in Asked(q) BY <1>1, <1>4 DEF Asked
  <2>2. ASSUME AskedOnce(q), Head(q).user \in Asked(r) PROVE FALSE
    <3>1. PICK k \in DOMAIN r : r[k].type = "connect" /\ r[k].user = q[1].user
      BY <1>1, <2>2 DEF Asked
    <3>2. k + 1 = 1 BY <1>1, <1>4, <2>2, <3>1 DEF AskedOnce
    <3> QED BY <1>1, <3>2
  <2> QED BY <2>1, <2>2
<1>5. EndsLast(q) => EndsLast(r)
  <2> SUFFICES ASSUME EndsLast(q), NEW k \in DOMAIN r, r[k].type = "disconnect"
               PROVE  k = Len(r)
    BY DEF EndsLast
  <2>1. k + 1 = Len(q) BY <1>1 DEF EndsLast
  <2> QED BY <1>1, <2>1
<1>6. Ends(r) => Ends(q) BY <1>1 DEF Ends
<1> QED BY <1>2, <1>3, <1>4, <1>5, <1>6 DEF r

(* After the DISCONNECT nothing is left to read.                           *)
LEMMA EndIsLast ==
  ASSUME NEW q \in Seq(Message), q # <<>>, EndsLast(q), Head(q).type = "disconnect"
  PROVE  Tail(q) = <<>> /\ Ends(q)
<1>1. Len(q) = 1 /\ 1 \in DOMAIN q BY ReadQueue DEF EndsLast
<1>2. Tail(q) \in Seq(Message) /\ Len(Tail(q)) = 0 BY <1>1, HeadTailProperties
<1> QED BY <1>1, <1>2, EmptySeq, ReadQueue DEF Ends
------------------------------------------------------------------------------
(* A step that neither binds nor feeds a connection may still let its ends *)
(* die, drop or read what is on the way to the server, write there what is *)
(* not a CONNECT, and unbind its server end.                               *)
QuietConn(p) ==
  /\ sEnd'[p] = "open" => sEnd[p] = "open"
  /\ cEnd'[p] = "open" => cEnd[p] = "open"
  /\ sEnd'[p] = "unused" <=> sEnd[p] = "unused"
  /\ cEnd'[p] = "unused" <=> cEnd[p] = "unused"
  /\ pNext'[p] \in {pNext[p], None}
  /\ toC'[p] = toC[p] \/ (toC'[p] = <<>> /\ cEnd'[p] # "open")
  /\ Asked(toS'[p]) \subseteq Asked(toS[p])
  /\ AskedOnce(toS[p]) => AskedOnce(toS'[p])

RealStep(u) ==
  \/ rEnd'[u] = rEnd[u]
  \/ rEnd[u] \in {"connecting", "borrowing"} /\ rEnd'[u] \in {"borrowing", "closed", "stranded"}
  \/ rEnd[u] \in {"open", "closing"} /\ rEnd'[u] \in {"closing", "closed"}

UserStepOn(u) == /\ uEnd[u] = "closed" => uEnd'[u] = "closed"
                 /\ uEnd'[u] = "unused" => uEnd[u] = "unused"

Quiet == /\ UNCHANGED <<uNext, uSent, gotReal, rNext, rCtl, cNext, pool>>
         /\ \A u \in Users : RealStep(u) /\ UserStepOn(u)
         /\ \A p \in Proxies : /\ QuietConn(p)
                               /\ cEnd[p] \in {"open", "dead"} => cEnd'[p] \in {"open", "dead"}

LEMMA QuietSession ==
  ASSUME NEW p \in Proxies, Session(p), QuietConn(p), cNext'[p] = cNext[p],
         \A u \in Users : Uses(u, p)' => Uses(u, p)
  PROVE  Session(p)'
<1> SUFFICES ASSUME Linked(p)' PROVE Session(p)' BY DEF Session
<1>1. Linked(p) /\ toC'[p] = toC[p] BY DEF Linked, QuietConn
<1> QED BY <1>1 DEF Session, QuietConn

LEMMA QuietDown ==
  ASSUME NEW p \in Proxies, Down(p), QuietConn(p), cNext'[p] = cNext[p],
         \A u \in Users : Uses(u, p)' => Uses(u, p),
         \A u \in Users : cNext[p] = u => /\ rEnd'[u] = "open" => rEnd[u] = "open"
                                          /\ uSent'[u] = uSent[u] /\ gotReal'[u] = gotReal[u]
  PROVE  Down(p)'
<1>1. CASE toC'[p] = toC[p]
  <2>1. Linked(p)' => Linked(p) BY DEF Linked, QuietConn
  <2> QED BY <1>1, <2>1 DEF Down
<1>2. CASE toC'[p] = <<>> /\ cEnd'[p] # "open"
  BY <1>2, AskedEmpty DEF Down, Linked, Chunks
<1> QED BY <1>1, <1>2 DEF QuietConn

AskedQuietly == /\ \A c \in Ctls : toC'[c] = toC[c] \/ toC'[c] = <<>>
                /\ \A u \in Users : /\ rEnd[u] = "unused" => rEnd'[u] = "unused"
                                    /\ uEnd'[u] = "unused" => uEnd[u] = "unused"

LEMMA AskedKeeps == ASSUME TypeOK, AskedBackend, AskedQuietly PROVE AskedBackend'
<1>1. \A c \in Ctls : Asked(toC[c]) \subseteq Users
  BY AskedInMessages DEF TypeOK, LinksTypeOK, Conns
<1>2. \A c \in Ctls : /\ Asked(toC'[c]) \subseteq Asked(toC[c])
                      /\ AskedOnce(toC'[c])
  BY AskedEmpty DEF AskedQuietly, AskedBackend
<1>3. \A c \in Ctls : \A u \in Asked(toC'[c]) : rEnd'[u] = "unused" /\ uEnd'[u] # "unused"
  BY <1>1, <1>2 DEF AskedQuietly, AskedBackend
<1> QED BY <1>2, <1>3 DEF AskedBackend

LEMMA BackendKeeps ==
  ASSUME BackendOnce, UNCHANGED <<rNext, rCtl>>, \A u \in Users : RealStep(u) /\ UserStepOn(u)
  PROVE  BackendOnce'
<1> SUFFICES ASSUME NEW u \in Users PROVE
      /\ uEnd'[u] = "unused" => rEnd'[u] = "unused" /\ rNext'[u] = None
      /\ rEnd'[u] \in {"unused", "connecting", "borrowing"} => rNext'[u] = None
      /\ rEnd'[u] \in {"connecting", "borrowing"} => rCtl'[u] # None
      /\ rEnd'[u] \in {"polled", "open", "closing"} => rNext'[u] # None
  BY DEF BackendOnce
<1> QED BY DEF BackendOnce, RealStep, UserStepOn

LEMMA QuietKeeps ==
  ASSUME TypeOK, PInv, Quiet, AskedBackend'
  PROVE  PInv'
<1>2. BackendOnce' BY BackendKeeps DEF PInv, Quiet
<1>3. BoundOnce' BY DEF PInv, Quiet, BoundOnce, QuietConn
<1>4. FreshConn' BY DEF PInv, Quiet, FreshConn, QuietConn
<1>5. PoolIdle'
  <2>1. \A i \in DOMAIN pool : pool[i] \in Proxies
    BY ElementOfSeq, LenProperties DEF TypeOK, ClientTypeOK
  <2> QED BY <2>1 DEF PInv, Quiet, PoolIdle
<1>6. Counted' BY DEF PInv, Quiet, Counted
<1>7. ASSUME NEW p \in Proxies PROVE Session(p)' /\ Down(p)'
  <2>1. \A u \in Users : Uses(u, p)' => Uses(u, p) BY DEF Quiet, UserStepOn, Uses
  <2>2. \A u \in Users : rEnd'[u] = "open" => rEnd[u] = "open" BY DEF Quiet, RealStep
  <2>3. QuietConn(p) /\ cNext'[p] = cNext[p] /\ uSent' = uSent /\ gotReal' = gotReal
    BY DEF Quiet
  <2>4. Session(p) /\ Down(p) BY DEF PInv
  <2> QED BY <2>1, <2>2, <2>3, <2>4, QuietSession, QuietDown
<1>8. PolledIdle'
  <2>1. \A u \in Users : rEnd'[u] = "polled" => rEnd[u] = "polled" BY DEF Quiet, RealStep
  <2>2. \A u \in Users : rEnd[u] = "polled" => rNext[u] \in Proxies
    BY DEF PInv, BackendOnce, TypeOK, ClientTypeOK
  <2>3. UNCHANGED <<uNext, rNext, cNext, pool>> BY DEF Quiet
  <2>4. \A p \in Proxies : /\ Asked(toS'[p]) \subseteq Asked(toS[p])
                           /\ cEnd'[p] = "unused" <=> cEnd[p] = "unused"
    BY DEF Quiet, QuietConn
  <2> QED BY <2>1, <2>2, <2>3, <2>4 DEF PInv, PolledIdle
<1> QED BY <1>2, <1>3, <1>4, <1>5, <1>6, <1>7, <1>8 DEF PInv

AskedNoMore == \A p \in Proxies : /\ Asked(toS'[p]) \subseteq Asked(toS[p])
                                  /\ AskedOnce(toS[p]) => AskedOnce(toS'[p])

LEMMA ReadAsksNoMore ==
  ASSUME LinksTypeOK, NEW x \in Conns, toS[x] # <<>>, toS' = Read(toS, x)
  PROVE  AskedNoMore
<1> SUFFICES ASSUME NEW p \in Proxies
             PROVE  /\ Asked(toS'[p]) \subseteq Asked(toS[p])
                    /\ AskedOnce(toS[p]) => AskedOnce(toS'[p])
  BY DEF AskedNoMore
<1>1. toS'[p] = IF p = x THEN Tail(toS[p]) ELSE toS[p] BY DEF Read, LinksTypeOK, Conns
<1>2. toS[p] \in Seq(Message) BY DEF LinksTypeOK, Conns
<1> QED BY <1>1, <1>2, AskedLess

LEMMA WriteAsksNoMore ==
  ASSUME LinksTypeOK, NEW x, NEW m \in Message, m.type # "connect", SendToS(x, m)
  PROVE  AskedNoMore
<1> SUFFICES ASSUME NEW p \in Proxies
             PROVE  /\ Asked(toS'[p]) \subseteq Asked(toS[p])
                    /\ AskedOnce(toS[p]) => AskedOnce(toS'[p])
  BY DEF AskedNoMore
<1>1. toS'[p] = toS[p] \/ toS'[p] = Append(toS[p], m) BY DEF SendToS, LinksTypeOK, Conns
<1>2. toS[p] \in Seq(Message) BY DEF LinksTypeOK, Conns
<1> QED BY <1>1, <1>2, AskedNothing

LEMMA DropAsksNoMore ==
  ASSUME LinksTypeOK, NEW x, toS' = Dropped(toS, x)
  PROVE  AskedNoMore
<1>1. \A p \in Proxies : toS'[p] = toS[p] \/ toS'[p] = <<>>
  BY DEF Dropped, LinksTypeOK, Conns
<1> QED BY <1>1, AskedEmpty DEF AskedNoMore

LEMMA MessageKinds ==
  /\ AuthMsg.type = "auth"
  /\ \A u : ConnectMsg(u).type = "connect" /\ DisconnectMsg(u).type = "disconnect"
  /\ \A u, n : TransferMsg(u, n).type = "transfer"
BY DEF AuthMsg, ConnectMsg, DisconnectMsg, TransferMsg

(* The parts of Quiet, gathered for a step that leaves some of them alone. *)
LEMMA QuietFrom ==
  ASSUME UNCHANGED <<uNext, uSent, gotReal, rNext, rCtl, cNext, pool>>, AskedNoMore,
         \A u \in Users : RealStep(u) /\ UserStepOn(u),
         \A p \in Proxies : pNext'[p] \in {pNext[p], None},
         \A p \in Proxies : toC'[p] = toC[p] \/ (toC'[p] = <<>> /\ cEnd'[p] # "open"),
         \A p \in Proxies :
           sEnd'[p] = sEnd[p] \/ (sEnd[p] # "unused" /\ sEnd'[p] \in {"dead", "closed"}),
         \A p \in Proxies : cEnd'[p] = cEnd[p] \/ (cEnd[p] = "open" /\ cEnd'[p] = "dead")
  PROVE  Quiet
BY DEF Quiet, QuietConn, AskedNoMore
------------------------------------------------------------------------------
(* The quiet steps.                                                        *)
LEMMA LinkStepQuiet ==
  ASSUME TypeOK, NEW x \in Conns, UNCHANGED <<serverVars, clientVars>>,
         ServerEof(x) \/ ClientEof(x) \/ ServerBreak(x) \/ ClientBreak(x)
  PROVE  Quiet /\ AskedQuietly
<1>1. /\ UNCHANGED <<uNext, uSent, gotReal, rNext, rCtl, cNext, pool, pNext, uEnd, rEnd>>
      /\ \A u \in Users : RealStep(u) /\ UserStepOn(u)
  BY DEF serverVars, clientVars, RealStep, UserStepOn
<1>2. /\ \A y \in Conns : sEnd'[y] = sEnd[y] \/ (sEnd[y] = "open" /\ sEnd'[y] = "dead")
      /\ \A y \in Conns : cEnd'[y] = cEnd[y] \/ (cEnd[y] = "open" /\ cEnd'[y] = "dead")
      /\ \A y \in Conns : toC'[y] = toC[y] \/ (toC'[y] = <<>> /\ cEnd'[y] # "open")
  BY DEF ServerEof, ClientEof, ServerBreak, ClientBreak, CloseEnd, Dropped, TypeOK,
         LinksTypeOK
<1>3. AskedNoMore
  <2>1. UNCHANGED toS \/ toS' = Dropped(toS, x)
    BY DEF ServerEof, ClientEof, ServerBreak, ClientBreak
  <2> QED BY <2>1, DropAsksNoMore DEF AskedNoMore, TypeOK
<1>4. Proxies \subseteq Conns /\ Ctls \subseteq Conns BY DEF Conns
<1> QED BY <1>1, <1>2, <1>3, <1>4, QuietFrom DEF AskedQuietly

(* A step that changes no queue and no end of a connection.                *)
LEMMA LinksUnchangedQuiet ==
  ASSUME UNCHANGED linkVars,
         UNCHANGED <<uNext, uSent, gotReal, rNext, rCtl, cNext, pool, pNext>>,
         \A u \in Users : RealStep(u) /\ UserStepOn(u)
  PROVE  Quiet /\ AskedQuietly
<1>1. AskedNoMore BY DEF linkVars, AskedNoMore
<1>2. Quiet BY <1>1, QuietFrom DEF linkVars
<1>3. \A u \in Users : rEnd[u] = "unused" => rEnd'[u] = "unused" BY DEF RealStep
<1> QED BY <1>2, <1>3 DEF AskedQuietly, linkVars, UserStepOn

LEMMA UserStepQuiet ==
  ASSUME TypeOK, NEW u \in Users, ClientUnchanged
  PROVE  /\ UserRefused(u) \/ UserInactiveUnrouted(u) => Quiet /\ AskedQuietly
         /\ UserActive(u) /\ portCmd \in Ctls => Quiet
<1>1. UNCHANGED <<gotReal, rNext, rCtl, cNext, pool, rEnd>> /\ \A v \in Users : RealStep(v)
  BY DEF ClientUnchanged, clientVars, RealStep
<1>2. ASSUME UserRefused(u) \/ UserInactiveUnrouted(u) PROVE Quiet /\ AskedQuietly
  <2>1. /\ UNCHANGED linkVars /\ UNCHANGED <<uNext, uSent, pNext>>
        /\ \A v \in Users : UserStepOn(v)
    BY <1>2 DEF UserRefused, UserInactiveUnrouted, UserStepOn, TypeOK, ServerTypeOK
  <2> QED BY <1>1, <2>1, LinksUnchangedQuiet
<1>3. ASSUME UserActive(u), portCmd \in Ctls PROVE Quiet
  <2>1. UNCHANGED <<sEnd, cEnd, toS, uNext, uSent, pNext>> BY <1>3 DEF UserActive
  <2>2. \A v \in Users : UserStepOn(v)
    BY <1>3 DEF UserActive, UserStepOn, TypeOK, ServerTypeOK
  <2>3. \A p \in Proxies : toC'[p] = toC[p]
    BY <1>3, LinksAssumption DEF UserActive, SendToC, TypeOK, LinksTypeOK, Conns
  <2>4. AskedNoMore BY <2>1 DEF AskedNoMore
  <2> QED BY <1>1, <2>1, <2>2, <2>3, <2>4, QuietFrom
<1> QED BY <1>2, <1>3

LEMMA ConfigStepQuiet == ASSUME TypeOK, ConfigStep PROVE Quiet /\ AskedQuietly
<1>1. UNCHANGED <<gotReal, rNext, rCtl, cNext, pool, rEnd>> /\ \A v \in Users : RealStep(v)
  BY DEF ConfigStep, ClientUnchanged, clientVars, RealStep
<1>2. UNCHANGED linkVars /\ UNCHANGED <<uNext, uSent, pNext>>
  BY DEF ConfigStep, PortRevoked, PortGranted, LanChanged
<1>3. UNCHANGED uEnd \/ \E U : uEnd' = ClosingUsers(U)
  BY DEF ConfigStep, PortRevoked, PortGranted, LanChanged, CheckAndClearUsers
<1>4. \A v \in Users : UserStepOn(v) BY <1>3 DEF ClosingUsers, UserStepOn
<1> QED BY <1>1, <1>2, <1>4, LinksUnchangedQuiet

LEMMA ServerCtlStepQuiet ==
  ASSUME TypeOK, NEW c \in Ctls, ServerCtlHandler(c)
  PROVE  Quiet /\ AskedQuietly
<1>0. c \in Conns /\ c \notin Proxies BY LinksAssumption DEF Conns
<1>1. UNCHANGED <<gotReal, rNext, rCtl, cNext, pool, rEnd>> /\ \A v \in Users : RealStep(v)
  BY DEF ServerCtlHandler, ClientUnchanged, clientVars, RealStep
<1>2. UNCHANGED <<cEnd, toC, uNext, uSent, pNext>>
  BY DEF ServerCtlHandler, RecvAuth, RecvAuthRefused, RecvDisconnectOnCtl,
         ServerCtlInactive, serverVars
<1>3. \A p \in Proxies : sEnd'[p] = sEnd[p]
  <2>1. \/ UNCHANGED sEnd
        \/ sEnd' = CloseEnd(sEnd, c)
        \/ sEnd' = [sEnd EXCEPT ![c] = "closed"]
    BY DEF ServerCtlHandler, RecvAuth, RecvAuthRefused, RecvDisconnectOnCtl,
           ServerCtlInactive
  <2> QED BY <1>0, <2>1 DEF CloseEnd, TypeOK, LinksTypeOK, Conns
<1>4. AskedNoMore
  <2>1. \/ UNCHANGED toS \/ toS' = Dropped(toS, c)
        \/ toS[c] # <<>> /\ toS' = Read(toS, c)
    BY DEF ServerCtlHandler, RecvAuth, RecvAuthRefused, RecvDisconnectOnCtl,
           ServerCtlInactive, AtServer
  <2> QED BY <1>0, <2>1, DropAsksNoMore, ReadAsksNoMore DEF AskedNoMore, TypeOK
<1>5. UNCHANGED uEnd \/ \E U : uEnd' = ClosingUsers(U)
  BY DEF ServerCtlHandler, RecvAuth, RecvAuthRefused, RecvDisconnectOnCtl,
         ServerCtlInactive, serverVars, SweptUsers
<1>6. \A v \in Users : UserStepOn(v) BY <1>5 DEF ClosingUsers, UserStepOn
<1>7. Quiet BY <1>1, <1>2, <1>3, <1>4, <1>6, QuietFrom
<1> QED BY <1>1, <1>2, <1>6, <1>7 DEF AskedQuietly, UserStepOn

LEMMA ServerProxyStepQuiet ==
  ASSUME TypeOK, NEW p \in Proxies, ServerProxyHandler(p), ~BindUser(p)
  PROVE  Quiet /\ AskedQuietly
<1>0. p \in Conns BY DEF Conns
<1>1. UNCHANGED <<gotReal, rNext, rCtl, cNext, pool, rEnd>> /\ \A v \in Users : RealStep(v)
  BY DEF ServerProxyHandler, ClientUnchanged, clientVars, RealStep
<1>2. UNCHANGED <<cEnd, toC, uNext, uSent>>
  BY DEF ServerProxyHandler, RecvConnectNoCtl, RecvConnectGone, GetUser,
         RecvTransferAtServer, RecvDisconnectAtServer, ServerProxyInactive, linkVars, serverVars
<1>3. \A q \in Proxies :
        sEnd'[q] = sEnd[q] \/ (sEnd[q] # "unused" /\ sEnd'[q] \in {"dead", "closed"})
  <2>1. \/ UNCHANGED sEnd
        \/ sEnd[p] = "open" /\ sEnd' = CloseEnd(sEnd, p)
        \/ sEnd[p] = "dead" /\ sEnd' = [sEnd EXCEPT ![p] = "closed"]
    BY DEF ServerProxyHandler, RecvConnectNoCtl, RecvConnectGone, GetUser,
           RecvTransferAtServer, RecvDisconnectAtServer, ServerProxyInactive, linkVars, AtServer
  <2> QED BY <1>0, <2>1 DEF CloseEnd, TypeOK, LinksTypeOK, Conns
<1>4. AskedNoMore
  <2>1. \/ UNCHANGED toS \/ toS' = Dropped(toS, p)
        \/ toS[p] # <<>> /\ toS' = Read(toS, p)
    BY DEF ServerProxyHandler, RecvConnectNoCtl, RecvConnectGone, GetUser,
           RecvTransferAtServer, RecvDisconnectAtServer, ServerProxyInactive, linkVars, AtServer
  <2> QED BY <1>0, <2>1, DropAsksNoMore, ReadAsksNoMore DEF AskedNoMore, TypeOK
<1>5. UNCHANGED uEnd \/ \E U : uEnd' = ClosingUsers(U)
  BY DEF ServerProxyHandler, RecvConnectNoCtl, RecvConnectGone, GetUser,
         RecvTransferAtServer, RecvDisconnectAtServer, ServerProxyInactive, linkVars, serverVars
<1>6. \A v \in Users : UserStepOn(v) BY <1>5 DEF ClosingUsers, UserStepOn
<1>7. \A q \in Proxies : pNext'[q] \in {pNext[q], None}
  <2>1. UNCHANGED pNext \/ pNext' = [pNext EXCEPT ![p] = None]
    BY DEF ServerProxyHandler, RecvConnectNoCtl, RecvConnectGone, GetUser,
           RecvTransferAtServer, RecvDisconnectAtServer, ServerProxyInactive, linkVars, serverVars
  <2> QED BY <2>1 DEF TypeOK, ServerTypeOK
<1>8. Quiet BY <1>1, <1>2, <1>3, <1>4, <1>6, <1>7, QuietFrom
<1> QED BY <1>1, <1>2, <1>6, <1>8 DEF AskedQuietly, UserStepOn

LEMMA ClientCtlStepQuiet ==
  ASSUME TypeOK, NEW c \in Ctls, ServerUnchanged, CtlConnect(c) \/ ClientCtlInactive(c)
  PROVE  Quiet /\ AskedQuietly
<1>0. c \in Conns /\ c \notin Proxies BY LinksAssumption DEF Conns
<1>1. UNCHANGED <<uNext, uSent, uEnd, pNext>> /\ \A v \in Users : UserStepOn(v)
  BY DEF ServerUnchanged, serverVars, UserStepOn
<1>2. UNCHANGED <<toC, gotReal, rNext, rCtl, cNext, pool>>
  BY DEF CtlConnect, ClientCtlInactive
<1>3. \A p \in Proxies : sEnd'[p] = sEnd[p] /\ cEnd'[p] = cEnd[p] /\ toS'[p] = toS[p]
  <2>1. CASE CtlConnect(c)
    BY <1>0, <2>1 DEF CtlConnect, TypeOK, LinksTypeOK, Conns
  <2>2. CASE ClientCtlInactive(c)
    BY <1>0, <2>2 DEF ClientCtlInactive, TypeOK, LinksTypeOK, Conns
  <2> QED BY <2>1, <2>2
<1>4. UNCHANGED rEnd \/ \E R : rEnd' = ClosingReals(R) BY DEF CtlConnect, ClientCtlInactive
<1>5. \A v \in Users : RealStep(v) BY <1>4 DEF ClosingReals, RealStep
<1>6. Quiet BY <1>1, <1>2, <1>3, <1>5, QuietFrom DEF AskedNoMore
<1> QED BY <1>1, <1>2, <1>5, <1>6 DEF AskedQuietly, RealStep

LEMMA BackendStepQuiet ==
  ASSUME TypeOK, NEW u \in Users, ServerUnchanged,
         \/ RealFailed(u) \/ RealConnectedNew(u) \/ ProxyFailed(u)
         \/ RealRead(u) \/ RealInactive(u)
  PROVE  Quiet /\ AskedQuietly
<1>1. UNCHANGED <<uNext, uSent, uEnd, pNext>> /\ \A v \in Users : UserStepOn(v)
  BY DEF ServerUnchanged, serverVars, UserStepOn
<1>2. UNCHANGED <<sEnd, cEnd, toC, gotReal, rNext, rCtl, cNext, pool>>
  BY DEF RealFailed, RealConnectedNew, ProxyFailed, RealRead, RealInactive, linkVars
<1>3. \A v \in Users : RealStep(v)
  BY DEF RealFailed, RealConnectedNew, ProxyFailed, RealRead, RealInactive, RealStep,
         TypeOK, ClientTypeOK
<1>4. AskedNoMore
  <2>1. \/ UNCHANGED toS
        \/ \E x : SendToS(x, DisconnectMsg(u))
        \/ \E x : SendToS(x, TransferMsg(u, rSent[u] + 1))
    BY DEF RealFailed, RealConnectedNew, ProxyFailed, RealRead, RealInactive, linkVars,
           TellFailed
  <2>2. rSent[u] + 1 \in Nat BY DEF TypeOK, ClientTypeOK
  <2>3. DisconnectMsg(u) \in Message /\ TransferMsg(u, rSent[u] + 1) \in Message
    BY <2>2, MessageTypes
  <2> QED BY <2>1, <2>3, MessageKinds, WriteAsksNoMore DEF AskedNoMore, TypeOK
<1>5. Quiet BY <1>1, <1>2, <1>3, <1>4, QuietFrom
<1> QED BY <1>1, <1>2, <1>3, <1>5 DEF AskedQuietly, RealStep
------------------------------------------------------------------------------
(* Who supervises a user.  A step that adds nobody to a USER_CHANNELS and  *)
(* takes the users it closes out of the registered one's.                  *)
LEMMA SupervisedFrame ==
  ASSUME SupervisedOnce, UNCHANGED <<cmd, portCmd>>, cmd # None => cmd \in Ctls,
         \A u \in Users, c \in Ctls : u \in userChannels'[c] => u \in userChannels[c],
         \A u \in Users : /\ uEnd'[u] = "unused" => uEnd[u] = "unused"
                          /\ uEnd'[u] = "open" => uEnd[u] = "open",
         \A u \in Users : cmd # None /\ u \in userChannels'[cmd] => uEnd'[u] = uEnd[u]
  PROVE  SupervisedOnce'
BY DEF SupervisedOnce

LEMMA UserStepSupervised ==
  ASSUME TypeOK, SInv, SupervisedOnce, NEW u \in Users,
         \/ UserRefused(u) \/ UserActive(u) \/ UserRead(u)
         \/ UserInactive(u) \/ UserInactiveUnrouted(u)
  PROVE  SupervisedOnce'
<1> USE DEF TypeOK, ServerTypeOK
<1>0. cmd # None => cmd \in Ctls OBVIOUS
<1>1. CASE UserRefused(u)
  <2>1. cmd # None => u \notin userChannels[cmd] BY <1>1 DEF UserRefused, SupervisedOnce
  <2> QED BY <1>0, <1>1, <2>1, SupervisedFrame DEF UserRefused
<1>2. CASE UserActive(u)
  <2>1. portCmd = cmd /\ cmd \in Ctls /\ UNCHANGED <<cmd, portCmd>>
    BY <1>2 DEF UserActive, SInv, RouteIsRegistered
  <2>2. /\ \A v \in Users : uEnd'[v] = IF v = u THEN "open" ELSE uEnd[v]
        /\ \A c \in Ctls : userChannels'[c] = IF c = cmd THEN userChannels[c] \cup {u}
                                              ELSE userChannels[c]
        /\ \A c \in Ctls : u \notin userChannels[c]
    BY <1>2, <2>1 DEF UserActive, SupervisedOnce
  <2>3. portCmd # None BY <1>2 DEF UserActive
  <2> SUFFICES ASSUME NEW v \in Users PROVE
        /\ \A c, d \in Ctls : v \in userChannels'[c] /\ v \in userChannels'[d] => c = d
        /\ uEnd'[v] = "unused" => \A c \in Ctls : v \notin userChannels'[c]
        /\ cmd' # None /\ v \in userChannels'[cmd'] => uEnd'[v] = "open"
        /\ uEnd'[v] = "open" => portCmd' # None
    BY DEF SupervisedOnce
  <2>4. CASE v = u BY <2>1, <2>2, <2>3, <2>4
  <2>5. CASE v # u
    <3>1. uEnd'[v] = uEnd[v] BY <2>2, <2>5
    <3>2. \A c \in Ctls : v \in userChannels'[c] <=> v \in userChannels[c] BY <2>2, <2>5
    <3> QED BY <2>1, <3>1, <3>2 DEF SupervisedOnce
  <2> QED BY <2>4, <2>5
<1>3. CASE UserRead(u) BY <1>3 DEF UserRead, SupervisedOnce
<1>4. CASE UserInactive(u)
  <2>1. portCmd = cmd /\ cmd \in Ctls BY <1>4 DEF UserInactive, SInv, RouteIsRegistered
  <2>2. \A c \in Ctls : userChannels'[c] = IF c = cmd THEN userChannels[c] \ {u}
                                           ELSE userChannels[c]
    BY <1>4, <2>1 DEF UserInactive, WithoutUsers
  <2>3. \A v \in Users : uEnd'[v] = IF v = u THEN "closed" ELSE uEnd[v]
    BY <1>4 DEF UserInactive
  <2>4. UNCHANGED <<cmd, portCmd>> BY <1>4 DEF UserInactive
  <2> QED BY <1>0, <2>1, <2>2, <2>3, <2>4, SupervisedFrame
<1>5. CASE UserInactiveUnrouted(u)
  <2>1. uEnd[u] # "open" BY <1>5 DEF UserInactiveUnrouted, SupervisedOnce
  <2>2. cmd # None => u \notin userChannels[cmd] BY <2>1 DEF SupervisedOnce
  <2> QED BY <1>0, <1>5, <2>2, SupervisedFrame DEF UserInactiveUnrouted
<1> QED BY <1>1, <1>2, <1>3, <1>4, <1>5

LEMMA ConfigStepSupervised ==
  ASSUME TypeOK, SInv, SupervisedOnce, ConfigStep
  PROVE  SupervisedOnce'
<1> USE DEF TypeOK, ServerTypeOK
<1>1. ASSUME CheckAndClearUsers, CmdActive
      PROVE  /\ cmd \in Ctls
             /\ \A u \in Users : /\ uEnd'[u] # "open"
                                 /\ uEnd'[u] = "unused" => uEnd[u] = "unused"
                                 /\ u \notin userChannels'[cmd]
             /\ \A u \in Users, c \in Ctls : u \in userChannels'[c] => u \in userChannels[c]
  BY <1>1 DEF CheckAndClearUsers, CmdActive, ClosingUsers, SInv, OpenUserSupervised
<1>2. UNCHANGED cmd BY DEF ConfigStep, PortRevoked, PortGranted, LanChanged
<1>3. CASE CheckAndClearUsers /\ CmdActive BY <1>1, <1>2, <1>3 DEF SupervisedOnce
<1>4. CASE UNCHANGED <<uEnd, userChannels>> /\ (portCmd # None => portCmd' # None)
  BY <1>2, <1>4 DEF SupervisedOnce
<1>5. CmdActive => cmd # None BY DEF CmdActive
<1> QED BY <1>3, <1>4, <1>5 DEF ConfigStep, PortRevoked, PortGranted, LanChanged

LEMMA ServerCtlStepSupervised ==
  ASSUME TypeOK, SInv, SupervisedOnce, NEW c \in Ctls, ServerCtlHandler(c)
  PROVE  SupervisedOnce'
<1> USE DEF TypeOK, ServerTypeOK
<1>0. cmd # None => cmd \in Ctls OBVIOUS
<1>1. CASE RecvAuth(c)
  <2>1. \A u \in Users : uEnd[u] # "open" BY <1>1 DEF RecvAuth, SInv, OpenUserSupervised
  <2>2. /\ \A u \in Users : u \notin userChannels'[c]
        /\ \A u \in Users, d \in Ctls : u \in userChannels'[d] => u \in userChannels[d]
        /\ cmd' = c /\ UNCHANGED uEnd
    BY <1>1 DEF RecvAuth
  <2> QED BY <2>1, <2>2 DEF SupervisedOnce
<1>2. CASE RecvAuthRefused(c) BY <1>2 DEF RecvAuthRefused, serverVars, SupervisedOnce
<1>3. CASE RecvDisconnectOnCtl(c)
  <2> DEFINE u == Head(toS[c]).user
  <2>1. /\ \A d \in Ctls : userChannels'[d] = IF d = c THEN userChannels[d] \ {u}
                                              ELSE userChannels[d]
        /\ uEnd' = IF u \in userChannels[c] THEN ClosingUsers({u}) ELSE uEnd
        /\ UNCHANGED <<cmd, portCmd>>
    BY <1>3, LinksAssumption DEF RecvDisconnectOnCtl, WithoutUsers
  <2> HIDE DEF u
  <2>2. \A v \in Users : uEnd'[v] # uEnd[v] =>
          v = u /\ u \in userChannels[c] /\ uEnd[v] = "open" /\ uEnd'[v] = "closing"
    BY <2>1 DEF ClosingUsers
  <2>3. \A v \in Users : uEnd'[v] # uEnd[v] => cmd # None /\ c = cmd
    BY <1>0, <2>2 DEF SInv, OpenUserSupervised, SupervisedOnce
  <2>4. \A v \in Users : cmd # None /\ v \in userChannels'[cmd] => uEnd'[v] = uEnd[v]
    BY <1>0, <2>1, <2>2, <2>3
  <2> QED BY <1>0, <2>1, <2>2, <2>4, SupervisedFrame
<1>4. CASE ServerCtlInactive(c)
  <2>1. CASE c \notin registered BY <1>4, <2>1 DEF ServerCtlInactive, SupervisedOnce
  <2>2. CASE c \in registered
    <3>1. cmd = c BY <1>4, <2>2 DEF ServerCtlInactive, SInv, RegisteredIsCmd
    <3>2. cmd' = None /\ uEnd' = ClosingUsers(userChannels[c]) /\ UNCHANGED userChannels
      BY <1>4, <2>2, <3>1 DEF ServerCtlInactive, SweptUsers
    <3>3. \A u \in Users : /\ uEnd'[u] # "open"
                           /\ uEnd'[u] = "unused" => uEnd[u] = "unused"
      BY <3>1, <3>2 DEF ClosingUsers, SInv, OpenUserSupervised
    <3> QED BY <3>2, <3>3 DEF SupervisedOnce
  <2> QED BY <2>1, <2>2
<1> QED BY <1>1, <1>2, <1>3, <1>4 DEF ServerCtlHandler

LEMMA ServerProxyStepSupervised ==
  ASSUME TypeOK, SupervisedOnce, NEW p \in Proxies, ServerProxyHandler(p)
  PROVE  SupervisedOnce'
<1> USE DEF TypeOK, ServerTypeOK
<1>0. cmd # None => cmd \in Ctls OBVIOUS
<1>1. UNCHANGED <<cmd, portCmd>>
  BY DEF ServerProxyHandler, GetUser, BindUser, RecvConnectNoCtl, RecvConnectGone,
         RecvTransferAtServer, RecvDisconnectAtServer, ServerProxyInactive, serverVars
<1>2. CASE UNCHANGED <<uEnd, userChannels>> BY <1>1, <1>2 DEF SupervisedOnce
<1>3. ASSUME uEnd' = ClosingUsers({pNext[p]}),
             userChannels' = WithoutUsers(cmd, {pNext[p]})
      PROVE  SupervisedOnce'
  <2>1. \A v \in Users : uEnd'[v] # uEnd[v] =>
          v = pNext[p] /\ uEnd[v] = "open" /\ uEnd'[v] = "closing"
    BY <1>3 DEF ClosingUsers
  <2>2. \A v \in Users, d \in Ctls : v \in userChannels'[d] => v \in userChannels[d]
    BY <1>3 DEF WithoutUsers
  <2>3. cmd # None => pNext[p] \notin userChannels'[cmd] BY <1>0, <1>3 DEF WithoutUsers
  <2> QED BY <1>0, <1>1, <2>1, <2>2, <2>3, SupervisedFrame
<1> QED BY <1>2, <1>3 DEF ServerProxyHandler, GetUser, BindUser, RecvConnectNoCtl,
           RecvConnectGone, RecvTransferAtServer, RecvDisconnectAtServer,
           ServerProxyInactive, serverVars
------------------------------------------------------------------------------
(* The steps that bind, feed or unbind a data connection.                  *)
LEMMA SentOn ==
  ASSUME LinksTypeOK, NEW x \in Conns, NEW m
  PROVE  /\ SendToC(x, m) =>
              /\ toC'[x] = IF Linked(x) THEN Append(toC[x], m) ELSE toC[x]
              /\ \A y \in Conns : y # x => toC'[y] = toC[y]
         /\ SendToS(x, m) =>
              /\ toS'[x] = IF Linked(x) THEN Append(toS[x], m) ELSE toS[x]
              /\ \A y \in Conns : y # x => toS'[y] = toS[y]
BY DEF SendToC, SendToS, LinksTypeOK

LEMMA ChunkSent ==
  ASSUME NEW q \in Seq(Message), NEW u \in Users, NEW n \in Nat, ~Ends(q),
         Chunks(q, u, n, n + Len(q)),
         NEW r, r = Append(q, TransferMsg(u, n + Len(q) + 1))
  PROVE  Len(r) = Len(q) + 1 /\ Chunks(r, u, n, n + Len(q) + 1)
<1> DEFINE m == TransferMsg(u, n + Len(q) + 1)
<1>0. Len(q) \in Nat /\ n + Len(q) + 1 \in Nat BY LenProperties
<1>1. m \in Message /\ m.type = "transfer" BY <1>0, MessageTypes, MessageKinds
<1>2. m = TransferMsg(u, n + (Len(q) + 1)) /\ r = Append(q, m) BY <1>0
<1> HIDE DEF m
<1>3. /\ Len(r) = Len(q) + 1 /\ DOMAIN r = 1..Len(q) + 1 /\ DOMAIN q = 1..Len(q)
      /\ \A k \in DOMAIN q : r[k] = q[k]
      /\ r[Len(q) + 1] = m
  BY <1>1, <1>2, AppendedQueue
<1>4. ASSUME NEW k \in DOMAIN r
      PROVE  r[k] = TransferMsg(u, n + k) /\ n + k <= n + Len(q) + 1
  <2>1. CASE k \in DOMAIN q BY <1>0, <1>3, <2>1, SMTT(60) DEF Chunks, Ends
  <2>2. CASE k = Len(q) + 1 BY <1>0, <1>2, <1>3, <2>2
  <2> QED BY <1>0, <1>3, <2>1, <2>2
<1> QED BY <1>3, <1>4 DEF Chunks

LEMMA EndSent ==
  ASSUME NEW q \in Seq(Message), NEW v \in Users, ~Ends(q)
  PROVE  LET r == Append(q, DisconnectMsg(v)) IN
         /\ EndsLast(r)
         /\ \A u, n, last : Chunks(q, u, n, last) => Chunks(r, u, n, last)
<1> DEFINE m == DisconnectMsg(v)
           r == Append(q, m)
<1>1. m \in Message /\ m.type = "disconnect" BY MessageTypes, MessageKinds
<1> HIDE DEF m
<1>2. /\ Len(r) = Len(q) + 1 /\ DOMAIN r = 1..Len(q) + 1 /\ DOMAIN q = 1..Len(q)
      /\ \A k \in DOMAIN q : r[k] = q[k]
      /\ r[Len(q) + 1] = m /\ Len(q) \in Nat
  BY <1>1, AppendedQueue, LenProperties
<1> HIDE DEF r
<1>3. EndsLast(r) BY <1>2 DEF Ends, EndsLast
<1>4. \A k \in DOMAIN r : r[k].type # "disconnect" => k \in DOMAIN q BY <1>1, <1>2
<1>5. \A u, n, last : Chunks(q, u, n, last) => Chunks(r, u, n, last)
  BY <1>2, <1>4 DEF Chunks
<1> QED BY <1>3, <1>5 DEF r, m

LEMMA ChunkRead ==
  ASSUME NEW q \in Seq(Message), q # <<>>, Head(q).type # "disconnect",
         NEW u, NEW n \in Nat, NEW last, Chunks(q, u, n, last)
  PROVE  /\ Head(q) = TransferMsg(u, n + 1) /\ n + 1 <= last
         /\ Chunks(Tail(q), u, n + 1, last)
<1> DEFINE r == Tail(q)
<1>1. /\ Len(q) \in Nat \ {0} /\ Len(r) = Len(q) - 1
      /\ DOMAIN q = 1..Len(q) /\ DOMAIN r = 1..Len(q) - 1
      /\ \A k \in DOMAIN r : k + 1 \in DOMAIN q /\ r[k] = q[k + 1]
      /\ 1 \in DOMAIN q /\ Head(q) = q[1]
  BY ReadQueue
<1> HIDE DEF r
<1>2. Head(q) = TransferMsg(u, n + 1) /\ n + 1 <= last BY <1>1 DEF Chunks
<1>3. Chunks(r, u, n + 1, last)
  <2> SUFFICES ASSUME NEW k \in DOMAIN r, r[k].type # "disconnect"
               PROVE  r[k] = TransferMsg(u, n + 1 + k) /\ n + 1 + k <= last
    BY DEF Chunks
  <2>1. k \in Nat /\ n + (k + 1) = n + 1 + k BY <1>1
  <2>2. r[k] = TransferMsg(u, n + (k + 1)) /\ n + (k + 1) <= last BY <1>1 DEF Chunks
  <2> QED BY <2>1, <2>2
<1> QED BY <1>2, <1>3 DEF r

LEMMA UserReadKeeps ==
  ASSUME TypeOK, PInv, NEW u \in Users, UserRead(u), ClientUnchanged
  PROVE  PInv'
<1> DEFINE m == TransferMsg(u, uSent[u] + 1)
<1>p. PICK p \in Proxies : p = uNext[u] BY DEF UserRead, TypeOK, ServerTypeOK
<1>0. /\ p \in Conns /\ Ctls \subseteq Conns /\ Proxies \subseteq Conns
      /\ p \notin Ctls /\ Uses(u, p) /\ rNext[u] = p
  BY <1>p, LinksAssumption DEF UserRead, Conns, Uses, PInv, BoundOnce
<1>1. UNCHANGED <<sEnd, cEnd, toS, pNext, uNext, uEnd, cmd, gotReal, rEnd, rNext, rCtl,
                  cNext, pool>>
  BY DEF UserRead, ClientUnchanged, clientVars
<1>2. /\ toC'[p] = IF Linked(p) THEN Append(toC[p], m) ELSE toC[p]
      /\ \A x \in Conns : x # p => toC'[x] = toC[x]
  BY <1>p, <1>0, SentOn DEF UserRead, TypeOK
<1>3. /\ uSent'[u] = uSent[u] + 1 /\ uSent[u] \in Nat
      /\ \A v \in Users : v # u => uSent'[v] = uSent[v]
  BY DEF UserRead, TypeOK, ServerTypeOK
<1> HIDE DEF m
<1>4. AskedBackend'
  BY <1>0, <1>1, <1>2, AskedKeeps DEF PInv, AskedQuietly
<1>5. BackendOnce' /\ BoundOnce' /\ PoolIdle' /\ PolledIdle'
  BY <1>1 DEF PInv, BackendOnce, BoundOnce, PoolIdle, PolledIdle
<1>6. FreshConn'
  <2>1. sEnd[p] = "unused" => toC'[p] = toC[p] BY <1>2 DEF Linked
  <2> QED BY <1>0, <1>1, <1>2, <2>1 DEF PInv, FreshConn
<1>7. Counted'
  <2>1. \A v \in Users : gotReal[v] \in Seq(Users \X Nat) /\ Len(gotReal[v]) \in Nat
    BY LenProperties DEF TypeOK, ClientTypeOK
  <2>2. uNext[u] # None BY DEF UserRead
  <2> QED BY <1>1, <1>3, <2>1, <2>2 DEF PInv, Counted
<1>8. ASSUME NEW q \in Proxies, q # p PROVE Session(q)' /\ Down(q)'
  <2>1. QuietConn(q) BY <1>0, <1>1, <1>2, <1>8 DEF QuietConn
  <2>2. \A v \in Users : Uses(v, q)' => Uses(v, q) BY <1>1 DEF Uses
  <2>3. cNext[q] # u BY <1>0, <1>8, LinksAssumption DEF PInv, BoundOnce
  <2>4. Session(q) /\ Down(q) BY DEF PInv
  <2>5. \A v \in Users : cNext[q] = v => /\ rEnd'[v] = "open" => rEnd[v] = "open"
                                         /\ uSent'[v] = uSent[v] /\ gotReal'[v] = gotReal[v]
    BY <1>1, <1>3, <2>3
  <2>6. Session(q)' BY <1>1, <2>1, <2>2, <2>4, QuietSession
  <2>7. Down(q)' BY <1>1, <2>1, <2>2, <2>4, <2>5, QuietDown
  <2> QED BY <2>6, <2>7
<1>9. Session(p)' /\ Down(p)'
  <2>0. Session(p) /\ Down(p) /\ toC[p] \in Seq(Message)
    BY <1>0 DEF PInv, TypeOK, LinksTypeOK
  <2>1. CASE ~Linked(p)
    <3>1. ~Linked(p)' /\ toC'[p] = toC[p] BY <1>1, <1>2, <2>1 DEF Linked
    <3>2. ASSUME NEW v \in Users, NEW n, Chunks(toC[p], v, n, uSent[v]), n \in Nat
          PROVE  Chunks(toC[p], v, n, uSent'[v])
      <4>1. \A k \in DOMAIN toC[p] : k \in Nat BY <2>0, LenProperties
      <4>2. uSent'[v] \in Nat /\ uSent[v] \in Nat /\ uSent[v] <= uSent'[v]
        BY <1>3 DEF TypeOK, ServerTypeOK
      <4> QED BY <3>2, <4>1, <4>2 DEF Chunks
    <3>3. \A v \in Users : Len(gotReal[v]) \in Nat
      BY LenProperties DEF TypeOK, ClientTypeOK
    <3>4. Down(p)' BY <1>1, <2>0, <3>1, <3>2, <3>3 DEF Down
    <3> QED BY <3>1, <3>4 DEF Session
  <2>2. CASE Linked(p)
    <3>1. toC'[p] = Append(toC[p], m) BY <1>2, <2>2
    <3>2. /\ cNext[p] = u /\ ~Ends(toC[p]) /\ Asked(toS[p]) = {}
          /\ \A v \in Users : Uses(v, p) => v = u
      BY <1>0, <2>0, <2>2 DEF Session
    <3>3. ~Ends(toC'[p]) /\ EndsLast(toC'[p])
      <4>1. uSent[u] = 0 + uSent[u] /\ m = TransferMsg(u, uSent[u] + 1) BY <1>3 DEF m
      <4>2. m \in Message /\ m.type = "transfer" BY <1>3, MessageTypes, MessageKinds DEF m
      <4>3. /\ Len(toC'[p]) = Len(toC[p]) + 1 /\ DOMAIN toC'[p] = 1..Len(toC[p]) + 1
            /\ DOMAIN toC[p] = 1..Len(toC[p]) /\ Len(toC[p]) \in Nat
            /\ \A k \in DOMAIN toC[p] : toC'[p][k] = toC[p][k]
            /\ toC'[p][Len(toC[p]) + 1] = m
        BY <2>0, <3>1, <4>2, AppendedQueue, LenProperties
      <4>4. \A k \in DOMAIN toC'[p] : toC'[p][k].type # "disconnect"
        BY <3>2, <4>2, <4>3 DEF Ends
      <4> QED BY <4>4 DEF Ends, EndsLast
    <3>4. Session(p)' BY <1>1, <2>0, <2>2, <3>2, <3>3 DEF Session, Linked, Uses
    <3>5. ASSUME rEnd[u] = "open"
          PROVE  /\ Chunks(toC'[p], u, Len(gotReal[u]), uSent'[u])
                 /\ uSent'[u] = Len(gotReal[u]) + Len(toC'[p])
      <4> DEFINE n == Len(gotReal[u])
      <4>1. n \in Nat /\ Len(toC[p]) \in Nat
        BY <2>0, LenProperties DEF TypeOK, ClientTypeOK
      <4>2. uSent[u] = n + Len(toC[p]) /\ Chunks(toC[p], u, n, uSent[u])
        BY <1>0, <2>0, <2>2, <3>2, <3>5 DEF Down
      <4> HIDE DEF n
      <4>3. toC'[p] = Append(toC[p], TransferMsg(u, n + Len(toC[p]) + 1))
        BY <3>1, <4>2 DEF m
      <4>4. Chunks(toC[p], u, n, n + Len(toC[p])) BY <4>2
      <4>5. /\ Len(toC'[p]) = Len(toC[p]) + 1
            /\ Chunks(toC'[p], u, n, n + Len(toC[p]) + 1)
        <5>1. ASSUME NEW k \in Nat, NEW q \in Seq(Message), k = n, q = toC[p], NEW r, r = toC'[p]
              PROVE  /\ Len(r) = Len(q) + 1
                     /\ Chunks(r, u, k, k + Len(q) + 1)
          <6>1. ~Ends(q) /\ Chunks(q, u, k, k + Len(q)) BY <3>2, <4>4, <5>1
          <6>2. r = Append(q, TransferMsg(u, k + Len(q) + 1)) BY <4>3, <5>1
          <6> QED BY <6>1, <6>2, ChunkSent, ZenonT(40)
        <5> QED BY <2>0, <4>1, <5>1
      <4>6. uSent'[u] = n + Len(toC[p]) + 1 /\ uSent'[u] = n + Len(toC'[p])
        BY <1>3, <4>1, <4>2, <4>5
      <4> QED BY <4>5, <4>6 DEF n
    <3>6. Down(p)' BY <1>1, <3>2, <3>3, <3>5, LinksAssumption DEF Down
    <3> QED BY <3>4, <3>6
  <2> QED BY <2>1, <2>2
<1> QED BY <1>4, <1>5, <1>6, <1>7, <1>8, <1>9 DEF PInv

LEMMA UserInactiveKeeps ==
  ASSUME TypeOK, PInv, NEW u \in Users, UserInactive(u), ClientUnchanged
  PROVE  PInv'
<1>0. Ctls \subseteq Conns /\ Proxies \subseteq Conns /\ Ctls \cap Proxies = {}
  BY LinksAssumption DEF Conns
<1>1. UNCHANGED <<sEnd, cEnd, toS, uNext, uSent, gotReal, rEnd, rNext, rCtl, cNext, pool>>
  BY DEF UserInactive, ClientUnchanged, clientVars
<1>2. uEnd' = [uEnd EXCEPT ![u] = "closed"] /\ uEnd[u] \in {"open", "closing"}
  BY DEF UserInactive, UserGone
<1>3. \A v \in Users : UserStepOn(v) /\ RealStep(v)
  BY <1>1, <1>2 DEF UserStepOn, RealStep, TypeOK, ServerTypeOK
<1>4. ASSUME NEW p \in Proxies, p = uNext[u], Linked(p) PROVE PInv'
  <2>0. p \in Conns /\ Uses(u, p) /\ Session(p) /\ Down(p) /\ toC[p] \in Seq(Message)
    BY <1>0, <1>2, <1>4 DEF Uses, PInv, TypeOK, LinksTypeOK
  <2>1. /\ pNext' = [pNext EXCEPT ![p] = None]
        /\ toC'[p] = Append(toC[p], DisconnectMsg(u))
        /\ \A x \in Conns : x # p => toC'[x] = toC[x]
    BY <1>4, <2>0, LinksAssumption, SentOn
       DEF UserInactive, ReleaseProxy, Linked, TypeOK
  <2>2. AskedBackend'
    BY <1>0, <1>3, <1>4, <2>1, AskedKeeps DEF PInv, AskedQuietly, RealStep, UserStepOn
  <2>3. BackendOnce'
    BY <1>1, <1>3 DEF PInv, BackendOnce, UserStepOn
  <2>4. BoundOnce' /\ PoolIdle' /\ PolledIdle' /\ Counted'
    BY <1>1 DEF PInv, BoundOnce, PoolIdle, PolledIdle, Counted
  <2>5. FreshConn'
    <3>1. sEnd[p] # "unused" BY <1>4 DEF Linked
    <3> QED BY <1>0, <1>1, <1>4, <2>1, <3>1 DEF PInv, FreshConn, TypeOK, ServerTypeOK
  <2>6. ASSUME NEW q \in Proxies, q # p PROVE Session(q)' /\ Down(q)'
    <3>1. QuietConn(q) BY <1>0, <1>1, <2>1, <2>6 DEF QuietConn, TypeOK, ServerTypeOK
    <3>2. \A v \in Users : Uses(v, q)' => Uses(v, q) BY <1>1, <1>3 DEF Uses, UserStepOn
    <3>3. Session(q) /\ Down(q) BY DEF PInv
    <3>4. Session(q)' BY <1>1, <3>1, <3>2, <3>3, QuietSession
    <3>5. Down(q)' BY <1>1, <3>1, <3>2, <3>3, QuietDown
    <3> QED BY <3>4, <3>5
  <2>7. \A v \in Users : ~Uses(v, p)'
    BY <1>1, <1>2, <1>4, <2>0 DEF Uses, Session, TypeOK, ServerTypeOK
  <2>8. Asked(toS[p]) = {} /\ ~Ends(toC[p]) BY <1>4, <2>0 DEF Session
  <2>9. Session(p)'
    BY <1>1, <1>4, <2>1, <2>7, <2>8 DEF Session, TypeOK, ServerTypeOK
  <2>10. Down(p)'
    <3>1. cNext[p] = u BY <1>4, <2>0 DEF Session
    <3>2. EndsLast(toC'[p]) BY <2>0, <2>1, <2>8, EndSent
    <3>3. \A v, n, last : Chunks(toC[p], v, n, last) => Chunks(toC'[p], v, n, last)
      BY <2>0, <2>1, <2>8, EndSent
    <3> QED BY <1>1, <2>0, <2>7, <3>1, <3>2, <3>3, LinksAssumption DEF Down
  <2> QED BY <2>2, <2>3, <2>4, <2>5, <2>6, <2>9, <2>10, <1>4 DEF PInv
<1>5. CASE ~\E p \in Proxies : p = uNext[u] /\ Linked(p)
  <2>1. UNCHANGED toC
    BY <1>5 DEF UserInactive, ReleaseProxy, SendToC, TypeOK, ServerTypeOK
  <2>2. \A q \in Proxies : pNext'[q] \in {pNext[q], None}
    BY DEF UserInactive, ReleaseProxy, TypeOK, ServerTypeOK
  <2>3. Quiet BY <1>1, <1>3, <2>1, <2>2, QuietFrom DEF AskedNoMore
  <2>4. AskedBackend'
    BY <1>3, <2>1, AskedKeeps DEF PInv, AskedQuietly, RealStep, UserStepOn
  <2> QED BY <2>3, <2>4, QuietKeeps
<1> QED BY <1>4, <1>5

LEMMA BindUserKeeps ==
  ASSUME TypeOK, PInv, NEW p \in Proxies, BindUser(p), ClientUnchanged
  PROVE  PInv'
<1>0. /\ p \in Conns /\ Proxies \subseteq Conns
      /\ toS[p] \in Seq(Message) /\ toS[p] # <<>> /\ Head(toS[p]).type = "connect"
  BY DEF BindUser, AtServer, TypeOK, LinksTypeOK, Conns
<1>u. PICK u \in Users : u = Head(toS[p]).user
  BY <1>0, HeadTailProperties, UserMessage
<1>1. UNCHANGED <<sEnd, cEnd, toC, uEnd, uSent, gotReal, rEnd, rNext, rCtl, cNext, pool>>
  BY DEF BindUser, ClientUnchanged, clientVars
<1>2. /\ toS'[p] = Tail(toS[p]) /\ \A q \in Proxies : q # p => toS'[q] = toS[q]
      /\ pNext' = [pNext EXCEPT ![p] = u] /\ uNext' = [uNext EXCEPT ![u] = p]
      /\ sEnd[p] = "open"
  BY <1>0, <1>u DEF BindUser, AtServer, Read, TypeOK, LinksTypeOK
<1>3. /\ Asked(toS'[p]) \subseteq Asked(toS[p]) /\ AskedOnce(toS'[p])
      /\ u \in Asked(toS[p]) /\ u \notin Asked(toS'[p])
      /\ Asked(toS[p]) \subseteq Users
  BY <1>0, <1>u, <1>2, AskedLess, AskedInMessages DEF PInv, BoundOnce
<1>4. /\ \A v \in Users : uNext'[v] = IF v = u THEN p ELSE uNext[v]
      /\ \A q \in Proxies : pNext'[q] = IF q = p THEN u ELSE pNext[q]
  BY <1>2 DEF TypeOK, ServerTypeOK
<1>5. rNext[u] = p /\ uNext[u] = None BY <1>3 DEF PInv, BoundOnce
<1>6. AskedBackend' BY <1>1, AskedKeeps DEF PInv, AskedQuietly
<1>7. BackendOnce' /\ PoolIdle' /\ PolledIdle'
  <2>1. rEnd[u] # "polled" BY <1>0, <1>3 DEF PInv, PolledIdle
  <2>2. \A v \in Users, q \in Proxies : v \in Asked(toS'[q]) => v \in Asked(toS[q])
    BY <1>2, <1>3
  <2> QED BY <1>1, <1>4, <2>1, <2>2 DEF PInv, BackendOnce, PoolIdle, PolledIdle
<1>8. BoundOnce'
  <2>1. ASSUME NEW q \in Proxies
        PROVE  /\ AskedOnce(toS'[q])
               /\ \A v \in Asked(toS'[q]) : rNext'[v] = q /\ uNext'[v] = None
    <3>1. CASE q = p BY <1>1, <1>3, <1>4, <3>1 DEF PInv, BoundOnce
    <3>2. CASE q # p
      <4>1. Asked(toS[q]) \subseteq Users BY AskedInMessages DEF TypeOK, LinksTypeOK, Conns
      <4>2. u \notin Asked(toS[q]) BY <1>5, <3>2 DEF PInv, BoundOnce
      <4> QED BY <1>1, <1>2, <1>4, <3>2, <4>1, <4>2 DEF PInv, BoundOnce
    <3> QED BY <3>1, <3>2
  <2>2. \A v \in Users : uNext'[v] # None => uNext'[v] = rNext'[v]
    BY <1>1, <1>4, <1>5 DEF PInv, BoundOnce
  <2> QED BY <1>1, <2>1, <2>2 DEF PInv, BoundOnce
<1>9. FreshConn' BY <1>1, <1>2, <1>4 DEF PInv, FreshConn
<1>10. Counted' BY <1>1, <1>4, LinksAssumption DEF PInv, Counted
<1>11. ASSUME NEW q \in Proxies, q # p PROVE Session(q)' /\ Down(q)'
  <2>1. QuietConn(q) BY <1>1, <1>2, <1>4, <1>11 DEF QuietConn
  <2>2. \A v \in Users : Uses(v, q)' => Uses(v, q) BY <1>1, <1>4, <1>11 DEF Uses
  <2>3. Session(q) /\ Down(q) BY DEF PInv
  <2>4. Session(q)' BY <1>1, <2>1, <2>2, <2>3, QuietSession
  <2>5. Down(q)' BY <1>1, <2>1, <2>2, <2>3, QuietDown
  <2> QED BY <2>4, <2>5
<1>12. Session(p)' /\ Down(p)'
  <2>0. Session(p) /\ Down(p) BY DEF PInv
  <2>1. CASE ~Linked(p)
    <3>1. ~Linked(p)' BY <1>1, <2>1 DEF Linked
    <3> QED BY <1>1, <2>0, <3>1 DEF Session, Down
  <2>2. CASE Linked(p)
    <3>1. /\ cNext[p] = u /\ toC[p] = <<>> /\ Asked(toS'[p]) = {}
          /\ \A v \in Users : ~Uses(v, p)
      BY <1>3, <2>0, <2>2 DEF Session
    <3>2. \A v \in Users : Uses(v, p)' => v = u BY <1>1, <1>4, <3>1 DEF Uses
    <3>3. Session(p)' BY <1>1, <1>4, <3>1, <3>2, AskedEmpty DEF Session
    <3>4. uSent[u] = 0 /\ Len(gotReal[u]) = 0 /\ Len(<<>>) = 0
      BY <1>5, LenProperties, EmptySeq DEF PInv, Counted, TypeOK, ClientTypeOK
    <3>5. Down(p)' BY <1>1, <2>0, <3>1, <3>2, <3>4 DEF Down
    <3> QED BY <3>3, <3>5
  <2> QED BY <2>1, <2>2
<1> QED BY <1>6, <1>7, <1>8, <1>9, <1>10, <1>11, <1>12 DEF PInv

(* Binding a backend to an idle or new data connection.                    *)
LEMMA BindKeeps ==
  ASSUME TypeOK, PInv, NEW u \in Users, NEW p \in Proxies, Bind(u, p),
         rEnd[u] \in {"polled", "borrowing"}, cNext[p] = None, PoolIdle',
         \A v \in Users : v # u /\ rEnd[v] = "polled" => rNext[v] # p,
         UNCHANGED <<toC, uEnd, uNext, uSent, gotReal, pNext, rCtl, pool>>,
         \A q \in Proxies : q # p => /\ sEnd'[q] = sEnd[q] /\ cEnd'[q] = cEnd[q]
                                     /\ toS'[q] = toS[q],
         sEnd'[p] # "unused", cEnd'[p] # "unused",
         Asked(toS'[p]) \subseteq Asked(toS[p]) \cup {u}, AskedOnce(toS'[p]),
         Linked(p)' => /\ pNext[p] = None /\ Asked(toS'[p]) = {u}
                       /\ \A v \in Users : ~Uses(v, p)
  PROVE  PInv'
<1>1. /\ \A v \in Users : /\ rNext'[v] = IF v = u THEN p ELSE rNext[v]
                          /\ rEnd'[v] = IF v = u THEN "open" ELSE rEnd[v]
      /\ \A q \in Proxies : cNext'[q] = IF q = p THEN u ELSE cNext[q]
  BY DEF Bind, TypeOK, ClientTypeOK
<1>2. /\ uEnd[u] # "unused" /\ uNext[u] = None
      /\ \A q \in Proxies : cNext[q] # u /\ u \notin Asked(toS[q])
  <2>1. BackendOnce /\ BoundOnce /\ PolledIdle BY DEF PInv
  <2>2. CASE rEnd[u] = "polled"
    BY <2>1, <2>2, LinksAssumption DEF BackendOnce, BoundOnce, PolledIdle
  <2>3. CASE rEnd[u] = "borrowing" BY <2>1, <2>3, LinksAssumption DEF BackendOnce, BoundOnce
  <2> QED BY <2>2, <2>3
<1>3. AskedBackend' BY <1>1, AskedKeeps DEF PInv, AskedQuietly
<1>4. BackendOnce'
  <2> SUFFICES ASSUME NEW v \in Users PROVE
        /\ uEnd'[v] = "unused" => rEnd'[v] = "unused" /\ rNext'[v] = None
        /\ rEnd'[v] \in {"unused", "connecting", "borrowing"} => rNext'[v] = None
        /\ rEnd'[v] \in {"connecting", "borrowing"} => rCtl'[v] # None
        /\ rEnd'[v] \in {"polled", "open", "closing"} => rNext'[v] # None
    BY DEF BackendOnce
  <2>1. CASE v = u BY <1>1, <1>2, <2>1, LinksAssumption
  <2>2. CASE v # u BY <1>1, <2>2 DEF PInv, BackendOnce
  <2> QED BY <2>1, <2>2
<1>5. BoundOnce'
  <2>1. ASSUME NEW q \in Proxies
        PROVE  /\ AskedOnce(toS'[q])
               /\ \A v \in Asked(toS'[q]) : rNext'[v] = q /\ uNext'[v] = None
    <3>1. /\ Asked(toS[q]) \subseteq Users /\ AskedOnce(toS[q])
          /\ \A v \in Asked(toS[q]) : v # u /\ rNext[v] = q /\ uNext[v] = None
      BY <1>2, AskedInMessages, LinksAssumption
         DEF TypeOK, LinksTypeOK, Conns, PInv, BoundOnce
    <3>2. CASE q = p BY <1>1, <1>2, <3>1, <3>2
    <3>3. CASE q # p BY <1>1, <3>1, <3>3
    <3> QED BY <3>2, <3>3
  <2>2. \A v \in Users : uNext'[v] # None => uNext'[v] = rNext'[v]
    BY <1>1, <1>2 DEF PInv, BoundOnce
  <2>3. ASSUME NEW q \in Proxies, cNext'[q] # None PROVE rNext'[cNext'[q]] = q
    <3>1. CASE q = p BY <1>1, <3>1
    <3>2. CASE q # p
      <4>1. cNext'[q] = cNext[q] /\ cNext[q] \in Users /\ cNext[q] # u
        BY <1>1, <1>2, <2>3, <3>2 DEF TypeOK, ClientTypeOK
      <4>2. rNext'[cNext[q]] = rNext[cNext[q]] BY <1>1, <4>1
      <4> QED BY <2>3, <4>1, <4>2 DEF PInv, BoundOnce
    <3> QED BY <3>1, <3>2
  <2> QED BY <2>1, <2>2, <2>3 DEF BoundOnce
<1>6. FreshConn' BY <1>1 DEF PInv, FreshConn
<1>7. Counted' BY DEF PInv, Counted
<1>8. ASSUME NEW q \in Proxies, q # p PROVE Session(q)' /\ Down(q)'
  <2>0. Session(q) /\ Down(q) BY DEF PInv
  <2>1. QuietConn(q) /\ cNext'[q] = cNext[q] BY <1>1, <1>8 DEF QuietConn
  <2>2. \A v \in Users : Uses(v, q)' => Uses(v, q) BY DEF Uses
  <2>3. \A v \in Users : cNext[q] = v => /\ rEnd'[v] = "open" => rEnd[v] = "open"
                                         /\ uSent'[v] = uSent[v] /\ gotReal'[v] = gotReal[v]
    BY <1>1, <1>2
  <2>4. Session(q)' BY <2>0, <2>1, <2>2, QuietSession
  <2>5. Down(q)' BY <2>0, <2>1, <2>2, <2>3, QuietDown
  <2> QED BY <2>4, <2>5
<1>9. toC'[p] = <<>> BY DEF PInv, Down
<1>10. \A v \in Users : Uses(v, p)' <=> Uses(v, p) BY DEF Uses
<1>11. Session(p)' BY <1>1, <1>9, <1>10 DEF Session
<1>12. Down(p)' BY <1>1, <1>9, <1>10, AskedEmpty, LinksAssumption DEF Down, Chunks
<1>13. PolledIdle'
  <2> SUFFICES ASSUME NEW v \in Users, rEnd'[v] = "polled" PROVE
        /\ uNext'[v] = None /\ \A q \in Proxies : v \notin Asked(toS'[q])
        /\ cNext'[rNext'[v]] = None /\ cEnd'[rNext'[v]] # "unused"
        /\ \A i \in DOMAIN pool' : pool'[i] # rNext'[v]
        /\ \A w \in Users : rEnd'[w] = "polled" /\ rNext'[w] = rNext'[v] => w = v
    BY DEF PolledIdle
  <2>1. v # u /\ rEnd[v] = "polled" /\ rNext'[v] = rNext[v] BY <1>1
  <2>2. rNext[v] \in Proxies /\ rNext[v] # p
    BY <2>1 DEF PInv, BackendOnce, TypeOK, ClientTypeOK
  <2>3. \A q \in Proxies : v \notin Asked(toS'[q]) BY <2>1 DEF PInv, PolledIdle
  <2>4. cNext'[rNext[v]] = cNext[rNext[v]] /\ cEnd'[rNext[v]] = cEnd[rNext[v]]
    BY <1>1, <2>2
  <2>5. \A w \in Users : rEnd'[w] = "polled" /\ rNext'[w] = rNext'[v] =>
          rEnd[w] = "polled" /\ rNext[w] = rNext[v]
    BY <1>1, <2>1
  <2> QED BY <2>1, <2>3, <2>4, <2>5 DEF PInv, PolledIdle
<1> QED BY <1>3, <1>4, <1>5, <1>6, <1>7, <1>8, <1>11, <1>12, <1>13 DEF PInv

(* poll() makes an idle connection the backend's own, and says nothing.    *)
LEMMA RealConnectedPooledKeeps ==
  ASSUME TypeOK, PInv, NEW u \in Users, RealConnectedPooled(u), ServerUnchanged
  PROVE  PInv'
<1>p. PICK p \in Proxies : p = Head(pool) /\ p = pool[1] /\ 1 \in DOMAIN pool
  BY HeadTailProperties, LenProperties, EmptySeq
     DEF RealConnectedPooled, TypeOK, ClientTypeOK
<1>1. /\ UNCHANGED <<linkVars, uEnd, uNext, uSent, gotReal, pNext, rCtl, cNext>>
      /\ UNCHANGED <<sEnd, cEnd, toS, toC>>
      /\ rEnd[u] = "connecting"
      /\ \A v \in Users : /\ rNext'[v] = IF v = u THEN p ELSE rNext[v]
                          /\ rEnd'[v] = IF v = u THEN "polled" ELSE rEnd[v]
  BY <1>p DEF RealConnectedPooled, ServerUnchanged, serverVars, linkVars, TypeOK,
              ClientTypeOK
<1>2. /\ rNext[u] = None /\ uEnd[u] # "unused" /\ uNext[u] = None
      /\ rCtl[u] # None
      /\ \A q \in Proxies : cNext[q] # u /\ u \notin Asked(toS[q])
  BY <1>1, LinksAssumption DEF PInv, BackendOnce, BoundOnce
<1>3. /\ cNext[p] = None /\ cEnd[p] \in {"open", "dead"} /\ sEnd[p] # "unused"
  BY <1>p DEF PInv, PoolIdle, FreshConn
<1>4. /\ \A i \in DOMAIN pool' : pool'[i] # p
      /\ \A i \in DOMAIN pool' : \E j \in DOMAIN pool : pool'[i] = pool[j]
      /\ PoolIdle'
  <2>1. /\ pool' = Tail(pool) /\ pool # <<>> /\ pool \in Seq(Proxies)
        /\ Len(pool) \in Nat \ {0} /\ DOMAIN pool = 1..Len(pool)
    BY LenProperties, EmptySeq DEF RealConnectedPooled, TypeOK, ClientTypeOK
  <2>2. /\ DOMAIN pool' = 1..Len(pool) - 1
        /\ \A i \in DOMAIN pool' : i + 1 \in DOMAIN pool /\ pool'[i] = pool[i + 1]
    BY <2>1, HeadTailProperties, LenProperties
  <2>3. \A i \in DOMAIN pool' : pool'[i] # p
    <3> SUFFICES ASSUME NEW i \in DOMAIN pool' PROVE pool'[i] # p OBVIOUS
    <3>1. i + 1 # 1 /\ i + 1 \in DOMAIN pool BY <2>1, <2>2
    <3>2. pool[i + 1] # pool[1] BY <1>p, <3>1 DEF PInv, PoolIdle
    <3> QED BY <1>p, <2>2, <3>2
  <2>4. ASSUME NEW i \in DOMAIN pool', NEW j \in DOMAIN pool', pool'[i] = pool'[j]
        PROVE  i = j
    <3>1. i + 1 = j + 1 BY <2>2, <2>4 DEF PInv, PoolIdle
    <3> QED BY <2>1, <2>2, <3>1
  <2>5. ASSUME NEW i \in DOMAIN pool'
        PROVE  cNext'[pool'[i]] = None /\ cEnd'[pool'[i]] \in {"open", "dead"}
    BY <1>1, <2>2 DEF PInv, PoolIdle
  <2>6. PoolIdle' BY <2>4, <2>5 DEF PoolIdle
  <2>7. \A i \in DOMAIN pool' : \E j \in DOMAIN pool : pool'[i] = pool[j] BY <2>2
  <2> QED BY <2>3, <2>6, <2>7
<1>5. AskedBackend' BY <1>1, AskedKeeps DEF PInv, AskedQuietly
<1>6. BackendOnce' BY <1>1, <1>2, LinksAssumption DEF PInv, BackendOnce
<1>7. BoundOnce'
  <2>1. ASSUME NEW q \in Proxies, NEW v \in Asked(toS[q])
        PROVE  v \in Users /\ v # u
    <3>1. Asked(toS[q]) \subseteq Users BY AskedInMessages DEF TypeOK, LinksTypeOK, Conns
    <3> QED BY <1>2, <3>1
  <2>2. ASSUME NEW q \in Proxies, cNext[q] # None PROVE cNext[q] \in Users /\ cNext[q] # u
    BY <1>2, <2>2 DEF TypeOK, ClientTypeOK
  <2> QED BY <1>1, <1>2, <2>1, <2>2 DEF PInv, BoundOnce
<1>8. FreshConn' BY <1>1, <1>3 DEF PInv, FreshConn
<1>9. Counted' BY <1>1 DEF PInv, Counted
<1>10. PolledIdle'
  <2> SUFFICES ASSUME NEW v \in Users, rEnd'[v] = "polled" PROVE
        /\ uNext'[v] = None /\ \A q \in Proxies : v \notin Asked(toS'[q])
        /\ cNext'[rNext'[v]] = None /\ cEnd'[rNext'[v]] # "unused"
        /\ \A i \in DOMAIN pool' : pool'[i] # rNext'[v]
        /\ \A w \in Users : rEnd'[w] = "polled" /\ rNext'[w] = rNext'[v] => w = v
    BY DEF PolledIdle
  <2>1. \A w \in Users : rEnd[w] = "polled" => rNext[w] # p
    BY <1>p DEF PInv, PolledIdle
  <2>2. CASE v = u BY <1>1, <1>2, <1>3, <1>4, <2>1, <2>2
  <2>3. CASE v # u
    <3>1. rEnd[v] = "polled" /\ rNext'[v] = rNext[v] /\ rNext[v] # p BY <1>1, <2>1, <2>3
    <3>2. \A w \in Users : rEnd'[w] = "polled" /\ rNext'[w] = rNext'[v] =>
            rEnd[w] = "polled" /\ rNext[w] = rNext[v]
      BY <1>1, <3>1
    <3>3. \A i \in DOMAIN pool' : pool'[i] # rNext[v] BY <1>4, <3>1 DEF PInv, PolledIdle
    <3> QED BY <1>1, <3>1, <3>2, <3>3 DEF PInv, PolledIdle
  <2> QED BY <2>2, <2>3
<1>11. ASSUME NEW q \in Proxies PROVE Session(q)' /\ Down(q)'
  <2>0. Session(q) /\ Down(q) BY DEF PInv
  <2>1. QuietConn(q) /\ cNext'[q] = cNext[q] BY <1>1 DEF QuietConn
  <2>2. \A v \in Users : Uses(v, q)' => Uses(v, q) BY <1>1 DEF Uses
  <2>3. \A v \in Users : cNext[q] = v => /\ rEnd'[v] = "open" => rEnd[v] = "open"
                                         /\ uSent'[v] = uSent[v] /\ gotReal'[v] = gotReal[v]
    BY <1>1
  <2>4. Session(q)' BY <2>0, <2>1, <2>2, QuietSession
  <2>5. Down(q)' BY <2>0, <2>1, <2>2, <2>3, QuietDown
  <2> QED BY <2>4, <2>5
<1> QED BY <1>4, <1>5, <1>6, <1>7, <1>8, <1>9, <1>10, <1>11 DEF PInv

LEMMA BindPolledKeeps ==
  ASSUME TypeOK, PInv, NEW u \in Users, BindPolled(u), ServerUnchanged
  PROVE  PInv'
<1>p. PICK p \in Proxies : p = rNext[u]
  BY DEF BindPolled, PInv, BackendOnce, TypeOK, ClientTypeOK
<1>0. p \in Conns /\ Proxies \subseteq Conns /\ toS[p] \in Seq(Message)
  BY DEF Conns, TypeOK, LinksTypeOK
<1>1. /\ UNCHANGED <<sEnd, cEnd, toC, uEnd, uNext, uSent, gotReal, pNext, rCtl, pool>>
      /\ rEnd[u] = "polled" /\ Bind(u, p)
      /\ SendToS(p, ConnectMsg(u))
  BY <1>p DEF BindPolled, ServerUnchanged, serverVars
<1>2. /\ cNext[p] = None /\ cEnd[p] # "unused" /\ sEnd[p] # "unused"
      /\ \A v \in Users : v # u /\ rEnd[v] = "polled" => rNext[v] # p
      /\ \A i \in DOMAIN pool : pool[i] # p
  BY <1>p, <1>1 DEF PInv, PolledIdle, FreshConn
<1>3. /\ toS'[p] = IF Linked(p) THEN Append(toS[p], ConnectMsg(u)) ELSE toS[p]
      /\ \A q \in Proxies : q # p => toS'[q] = toS[q]
  BY <1>0, <1>1, SentOn DEF TypeOK
<1>4. AskedOnce(toS[p]) /\ u \notin Asked(toS[p])
  BY <1>1 DEF PInv, BoundOnce, PolledIdle
<1>5. PoolIdle'
  <2>1. \A i \in DOMAIN pool : pool[i] \in Proxies
    BY ElementOfSeq, LenProperties DEF TypeOK, ClientTypeOK
  <2>2. \A q \in Proxies : q # p => cNext'[q] = cNext[q]
    BY <1>1 DEF Bind, TypeOK, ClientTypeOK
  <2> QED BY <1>1, <1>2, <2>1, <2>2 DEF PInv, PoolIdle
<1>6. Asked(toS'[p]) \subseteq Asked(toS[p]) \cup {u} /\ AskedOnce(toS'[p])
  BY <1>0, <1>3, <1>4, AskedMore
<1>7. ASSUME Linked(p)'
      PROVE  /\ pNext[p] = None /\ Asked(toS'[p]) = {u}
             /\ \A v \in Users : ~Uses(v, p)
  <2>1. Linked(p) /\ Session(p) BY <1>1, <1>7 DEF Linked, PInv
  <2>2. \A v \in Asked(toS[p]) : v \in Users BY <1>0, AskedInMessages
  <2>3. /\ pNext[p] = None /\ Asked(toS[p]) = {} /\ \A v \in Users : ~Uses(v, p)
    BY <1>2, <2>1, <2>2, LinksAssumption DEF Session
  <2> QED BY <1>0, <1>3, <2>1, <2>3, AskedMore
<1>8. sEnd'[p] # "unused" /\ cEnd'[p] # "unused" BY <1>1, <1>2
<1>9. \A q \in Proxies : q # p => /\ sEnd'[q] = sEnd[q] /\ cEnd'[q] = cEnd[q]
                                  /\ toS'[q] = toS[q]
  BY <1>1, <1>3
<1> QED BY <1>1, <1>2, <1>5, <1>6, <1>7, <1>8, <1>9, BindKeeps

LEMMA ProxyConnectedKeeps ==
  ASSUME TypeOK, PInv, NEW u \in Users, NEW p \in Proxies, ProxyConnected(u, p),
         ServerUnchanged
  PROVE  PInv'
<1>1. /\ UNCHANGED <<toC, uEnd, uNext, uSent, gotReal, pNext, rCtl, pool>>
      /\ rEnd[u] = "borrowing" /\ Bind(u, p) /\ sEnd[p] = "unused"
  BY DEF ProxyConnected, ServerUnchanged, serverVars
<1>2. /\ toS'[p] = <<ConnectMsg(u)>> /\ sEnd'[p] = "open" /\ cEnd'[p] = "open"
      /\ \A q \in Proxies : q # p => /\ sEnd'[q] = sEnd[q] /\ cEnd'[q] = cEnd[q]
                                     /\ toS'[q] = toS[q]
  BY DEF ProxyConnected, TypeOK, LinksTypeOK, Conns
<1>3. /\ cNext[p] = None /\ pNext[p] = None /\ cEnd[p] = "unused"
      /\ \A v \in Users : rNext[v] # p
  BY <1>1 DEF PInv, FreshConn
<1>4. \A v \in Users : ~Uses(v, p)
  <2>1. \A v \in Users : uNext[v] # None => uNext[v] = rNext[v] BY DEF PInv, BoundOnce
  <2> QED BY <1>3, <2>1, LinksAssumption DEF Uses
<1>5. Asked(toS'[p]) = {u} /\ AskedOnce(toS'[p])
  <2>1. <<ConnectMsg(u)>> = Append(<<>>, ConnectMsg(u)) /\ <<>> \in Seq(Message)
    OBVIOUS
  <2> QED BY <1>2, <2>1, AskedEmpty, AskedMore, ZenonT(60)
<1>6. PoolIdle'
  <2>1. \A i \in DOMAIN pool : pool[i] \in Proxies /\ pool[i] # p
    <3> SUFFICES ASSUME NEW i \in DOMAIN pool PROVE pool[i] \in Proxies /\ pool[i] # p
      OBVIOUS
    <3>1. pool[i] \in Proxies BY ElementOfSeq, LenProperties DEF TypeOK, ClientTypeOK
    <3>2. cEnd[pool[i]] \in {"open", "dead"} BY DEF PInv, PoolIdle
    <3> QED BY <1>3, <3>1, <3>2
  <2>2. \A q \in Proxies : q # p => cNext'[q] = cNext[q]
    BY <1>1 DEF Bind, TypeOK, ClientTypeOK
  <2> QED BY <1>1, <1>2, <2>1, <2>2 DEF PInv, PoolIdle
<1> QED BY <1>1, <1>2, <1>3, <1>4, <1>5, <1>6, BindKeeps

LEMMA RecvTransferAtClientKeeps ==
  ASSUME TypeOK, PInv, NEW p \in Proxies, RecvTransferAtClient(p), ServerUnchanged
  PROVE  PInv'
<1>0. /\ p \in Conns /\ Ctls \cap Proxies = {} /\ Ctls \cup Proxies \subseteq Conns
      /\ toC[p] \in Seq(Message) /\ toC[p] # <<>> /\ Head(toC[p]).type = "transfer"
      /\ cEnd[p] = "open"
  BY LinksAssumption DEF RecvTransferAtClient, AtClient, TypeOK, LinksTypeOK, Conns
<1>u. PICK u \in Users : u = cNext[p]
  BY <1>0 DEF PInv, Down, TypeOK, ClientTypeOK
<1>1. UNCHANGED <<sEnd, cEnd, toS, uEnd, uNext, uSent, pNext, rEnd, rNext, rCtl, cNext, pool>>
  BY DEF RecvTransferAtClient, ServerUnchanged, serverVars
<1>2. toC'[p] = Tail(toC[p]) /\ \A x \in Conns : x # p => toC'[x] = toC[x]
  BY <1>0 DEF RecvTransferAtClient, Read, TypeOK, LinksTypeOK
<1>3. /\ \A v \in Users : v # u => gotReal'[v] = gotReal[v]
      /\ rEnd[u] # "open" => gotReal'[u] = gotReal[u]
      /\ rEnd[u] = "open" => Len(gotReal'[u]) = Len(gotReal[u]) + 1
  <2> DEFINE m == Head(toC[p])
  <2>1. m \in Message /\ m.type # "auth" BY <1>0, HeadTailProperties
  <2>2. <<m.user, m.n>> \in Users \X Nat BY <2>1, UserMessage
  <2>3. gotReal' = IF rEnd[u] = "open"
                   THEN [gotReal EXCEPT ![u] = Append(@, <<m.user, m.n>>)] ELSE gotReal
    BY <1>u, LinksAssumption DEF RecvTransferAtClient
  <2> HIDE DEF m
  <2>4. \A v \in Users : gotReal[v] \in Seq(Users \X Nat) BY DEF TypeOK, ClientTypeOK
  <2>5. Len(Append(gotReal[u], <<m.user, m.n>>)) = Len(gotReal[u]) + 1
    BY <2>2, <2>4, AppendProperties
  <2> QED BY <2>3, <2>5 DEF TypeOK, ClientTypeOK
<1>4. Session(p) /\ Down(p) /\ Len(gotReal[u]) \in Nat
  BY LenProperties DEF PInv, TypeOK, ClientTypeOK
<1>5. ASSUME rEnd[u] = "open"
      PROVE  /\ Len(gotReal[u]) + 1 <= uSent[u]
             /\ Chunks(toC'[p], u, Len(gotReal'[u]), uSent[u])
  <2>1. Chunks(toC[p], u, Len(gotReal[u]), uSent[u]) BY <1>u, <1>4, <1>5 DEF Down
  <2>2. /\ Len(gotReal[u]) + 1 <= uSent[u]
        /\ Chunks(Tail(toC[p]), u, Len(gotReal[u]) + 1, uSent[u])
    BY <1>0, <1>4, <2>1, ChunkRead
  <2> QED BY <1>2, <1>3, <1>5, <2>2
<1>6. AskedBackend' BY <1>0, <1>1, <1>2, AskedKeeps DEF PInv, AskedQuietly
<1>7. BackendOnce' /\ BoundOnce' /\ PoolIdle' /\ PolledIdle'
  BY <1>1 DEF PInv, BackendOnce, BoundOnce, PoolIdle, PolledIdle
<1>8. FreshConn' BY <1>0, <1>1, <1>2 DEF PInv, FreshConn
<1>9. Counted'
  <2> SUFFICES ASSUME NEW v \in Users
               PROVE  /\ uNext'[v] = None => uSent'[v] = 0
                      /\ Len(gotReal'[v]) <= uSent'[v]
    BY DEF Counted
  <2>1. CASE v = u /\ rEnd[u] = "open" BY <1>1, <1>3, <1>5, <2>1 DEF PInv, Counted
  <2>2. CASE ~(v = u /\ rEnd[u] = "open") BY <1>1, <1>3, <2>2 DEF PInv, Counted
  <2> QED BY <2>1, <2>2
<1>10. ASSUME NEW q \in Proxies, q # p PROVE Session(q)' /\ Down(q)'
  <2>0. Session(q) /\ Down(q) BY DEF PInv
  <2>1. QuietConn(q) BY <1>0, <1>1, <1>2, <1>10 DEF QuietConn
  <2>2. \A v \in Users : Uses(v, q)' => Uses(v, q) BY <1>1 DEF Uses
  <2>3. cNext[q] # u BY <1>u, <1>10, LinksAssumption DEF PInv, BoundOnce
  <2>4. \A v \in Users : cNext[q] = v => /\ rEnd'[v] = "open" => rEnd[v] = "open"
                                         /\ uSent'[v] = uSent[v] /\ gotReal'[v] = gotReal[v]
    BY <1>1, <1>3, <2>3
  <2>5. Session(q)' BY <1>1, <2>0, <2>1, <2>2, QuietSession
  <2>6. Down(q)' BY <1>1, <2>0, <2>1, <2>2, <2>4, QuietDown
  <2> QED BY <2>5, <2>6
<1>11. EndsLast(toC'[p]) /\ (Ends(toC'[p]) => Ends(toC[p]))
  BY <1>0, <1>2, <1>4, AskedLess DEF Down
<1>12. Session(p)' BY <1>0, <1>1, <1>4, <1>11 DEF Session, Linked, Uses
<1>13. Down(p)'
  <2>1. Len(toC'[p]) = Len(toC[p]) - 1 /\ Len(toC[p]) \in Nat BY <1>0, <1>2, ReadQueue
  <2>2. ASSUME rEnd[u] = "open", Linked(p), Uses(u, p)
        PROVE  uSent[u] = Len(gotReal'[u]) + Len(toC'[p])
    <3>1. uSent[u] = Len(gotReal[u]) + Len(toC[p]) BY <1>u, <1>4, <2>2 DEF Down
    <3>2. Len(gotReal'[u]) = Len(gotReal[u]) + 1 BY <1>3, <2>2
    <3>3. Len(gotReal[u]) \in Nat BY <1>4
    <3>4. \A m, n \in Nat : m + n = (m + 1) + (n - 1) OBVIOUS
    <3>5. uSent[u] = (Len(gotReal[u]) + 1) + (Len(toC[p]) - 1) BY <2>1, <3>1, <3>3, <3>4
    <3> QED BY <2>1, <3>2, <3>5
  <2>3. cNext'[p] = u /\ u # None BY <1>1, <1>u, LinksAssumption
  <2>4. (Linked(p)' <=> Linked(p)) /\ (Uses(u, p)' <=> Uses(u, p))
    BY <1>1 DEF Linked, Uses
  <2> QED BY <1>1, <1>5, <1>11, <2>2, <2>3, <2>4 DEF Down
<1> QED BY <1>6, <1>7, <1>8, <1>9, <1>10, <1>12, <1>13 DEF PInv

LEMMA RecvDisconnectAtClientKeeps ==
  ASSUME TypeOK, PInv, NEW p \in Proxies, RecvDisconnectAtClient(p), ServerUnchanged
  PROVE  PInv'
<1>0. /\ p \in Conns /\ Ctls \cap Proxies = {} /\ Ctls \cup Proxies \subseteq Conns
      /\ toC[p] \in Seq(Message) /\ toC[p] # <<>> /\ Head(toC[p]).type = "disconnect"
      /\ cEnd[p] = "open" /\ Session(p) /\ Down(p) /\ cNext[p] # None
  BY LinksAssumption DEF RecvDisconnectAtClient, AtClient, TypeOK, LinksTypeOK, Conns,
     PInv, Down
<1>1. UNCHANGED <<sEnd, toS, uEnd, uNext, uSent, gotReal, pNext, rNext, rCtl>>
  BY DEF RecvDisconnectAtClient, ServerUnchanged, serverVars
<1>2. /\ cNext' = [cNext EXCEPT ![p] = None]
      /\ rEnd' = ClosingReals({cNext[p]}) /\ ReturnProxyChannel(p)
  BY <1>0 DEF RecvDisconnectAtClient
<1>3. /\ toC'[p] = <<>> /\ \A x \in Conns : x # p => toC'[x] = toC[x]
  <2>1. Tail(toC[p]) = <<>> BY <1>0, EndIsLast DEF Down
  <2>2. toC' = Read(toC, p) \/ toC' = Dropped(toC, p) BY <1>2 DEF ReturnProxyChannel
  <2> QED BY <1>0, <2>1, <2>2 DEF Read, Dropped, TypeOK, LinksTypeOK
<1>4. /\ cEnd'[p] \in {"open", "dead"} /\ \A q \in Proxies : q # p => cEnd'[q] = cEnd[q]
  BY <1>0, <1>2 DEF ReturnProxyChannel, CloseEnd, TypeOK, LinksTypeOK
<1>5. /\ cNext'[p] = None /\ \A q \in Proxies : q # p => cNext'[q] = cNext[q]
      /\ \A v \in Users : RealStep(v) /\ UserStepOn(v)
  BY <1>1, <1>2 DEF ClosingReals, RealStep, UserStepOn, TypeOK, ClientTypeOK
<1>6. AskedBackend'
  BY <1>0, <1>1, <1>3, <1>5, AskedKeeps DEF PInv, AskedQuietly, RealStep
<1>7. BackendOnce' BY <1>1, <1>5, BackendKeeps DEF PInv
<1>8. BoundOnce' /\ Counted' BY <1>1, <1>5 DEF PInv, BoundOnce, Counted
<1>9. FreshConn' BY <1>0, <1>1, <1>3, <1>4, <1>5 DEF PInv, FreshConn
<1>10. PoolIdle'
  <2>1. pool \in Seq(Proxies) /\ DOMAIN pool = 1..Len(pool) /\ Len(pool) \in Nat
    BY LenProperties DEF TypeOK, ClientTypeOK
  <2>2. \A i \in DOMAIN pool : pool[i] \in Proxies /\ pool[i] # p
    BY <1>0, <2>1, ElementOfSeq DEF PInv, PoolIdle
  <2>3. \A i \in DOMAIN pool : /\ cNext'[pool[i]] = None
                               /\ cEnd'[pool[i]] \in {"open", "dead"}
    BY <1>4, <1>5, <2>2 DEF PInv, PoolIdle
  <2>4. CASE pool' = pool BY <2>3, <2>4 DEF PInv, PoolIdle
  <2>5. CASE pool' = Append(pool, p)
    <3>1. /\ DOMAIN pool' = 1..Len(pool) + 1 /\ pool'[Len(pool) + 1] = p
          /\ \A i \in DOMAIN pool : pool'[i] = pool[i]
      BY <2>1, <2>5, AppendProperties, LenProperties
    <3>2. \A i \in DOMAIN pool' : i \in DOMAIN pool \/ i = Len(pool) + 1 BY <2>1, <3>1
    <3>3. ASSUME NEW i \in DOMAIN pool', NEW j \in DOMAIN pool', pool'[i] = pool'[j]
          PROVE  i = j
      BY <2>2, <3>1, <3>2, <3>3 DEF PInv, PoolIdle
    <3>4. ASSUME NEW i \in DOMAIN pool'
          PROVE  cNext'[pool'[i]] = None /\ cEnd'[pool'[i]] \in {"open", "dead"}
      BY <1>4, <1>5, <2>3, <3>1, <3>2
    <3> QED BY <3>3, <3>4 DEF PoolIdle
  <2> QED BY <1>2, <2>4, <2>5 DEF ReturnProxyChannel
<1>11. ASSUME NEW q \in Proxies, q # p PROVE Session(q)' /\ Down(q)'
  <2>0. Session(q) /\ Down(q) BY DEF PInv
  <2>1. QuietConn(q) BY <1>0, <1>1, <1>3, <1>4, <1>11 DEF QuietConn
  <2>2. \A v \in Users : Uses(v, q)' => Uses(v, q) BY <1>1 DEF Uses
  <2>3. \A v \in Users : cNext[q] = v => /\ rEnd'[v] = "open" => rEnd[v] = "open"
                                         /\ uSent'[v] = uSent[v] /\ gotReal'[v] = gotReal[v]
    BY <1>1, <1>5 DEF RealStep
  <2>4. Session(q)' BY <1>5, <1>11, <2>0, <2>1, <2>2, QuietSession
  <2>5. Down(q)' BY <1>5, <1>11, <2>0, <2>1, <2>2, <2>3, QuietDown
  <2> QED BY <2>4, <2>5
<1>12. Session(p)'
  <2> SUFFICES ASSUME Linked(p)' PROVE Session(p)' BY DEF Session
  <2>1. Linked(p) BY <1>0, <1>1 DEF Linked
  <2>2. Ends(toC[p]) BY <1>0, EndIsLast DEF Down
  <2>3. /\ pNext[p] = None /\ \A u \in Users : ~Uses(u, p)
        /\ Asked(toS[p]) = {}
    BY <1>0, <2>1, <2>2 DEF Session
  <2> QED BY <1>1, <1>3, <2>3, AskedEmpty DEF Session, Uses
<1>13. Down(p)' BY <1>3, <1>5, AskedEmpty, LinksAssumption DEF Down
<1>14. PolledIdle'
  <2>1. \A i \in DOMAIN pool' : pool'[i] = p \/ \E j \in DOMAIN pool : pool'[i] = pool[j]
    <3>1. CASE pool' = pool BY <3>1
    <3>2. CASE pool' = Append(pool, p)
      <4>1. /\ DOMAIN pool' = 1..Len(pool) + 1 /\ pool'[Len(pool) + 1] = p
            /\ DOMAIN pool = 1..Len(pool) /\ Len(pool) \in Nat
            /\ \A i \in DOMAIN pool : pool'[i] = pool[i]
        BY <3>2, AppendProperties, LenProperties DEF TypeOK, ClientTypeOK
      <4>2. \A i \in DOMAIN pool' : i \in DOMAIN pool \/ i = Len(pool) + 1 BY <4>1
      <4> QED BY <4>1, <4>2
    <3> QED BY <1>2, <3>1, <3>2 DEF ReturnProxyChannel
  <2>2. \A v \in Users : rEnd'[v] = "polled" =>
          rEnd[v] = "polled" /\ rNext[v] \in Proxies /\ rNext[v] # p
    <3>1. \A v \in Users : rEnd'[v] = "polled" => rEnd[v] = "polled" BY <1>5 DEF RealStep
    <3>2. \A v \in Users : rEnd[v] = "polled" => rNext[v] \in Proxies
      BY DEF PInv, BackendOnce, TypeOK, ClientTypeOK
    <3>3. \A v \in Users : rEnd[v] = "polled" => rNext[v] # p
      BY <1>0 DEF PInv, PolledIdle
    <3> QED BY <3>1, <3>2, <3>3
  <2>3. \A q \in Proxies : Asked(toS'[q]) = Asked(toS[q]) BY <1>1
  <2> QED BY <1>1, <1>4, <1>5, <2>1, <2>2, <2>3 DEF PInv, PolledIdle
<1> QED BY <1>6, <1>7, <1>8, <1>9, <1>10, <1>11, <1>12, <1>13, <1>14 DEF PInv

LEMMA Joined ==
  ASSUME NEW S, NEW a \in Seq(S), NEW b \in Seq(S)
  PROVE  /\ DOMAIN (a \o b) = 1..Len(a) + Len(b)
         /\ \A k \in 1..Len(a) + Len(b) :
              (a \o b)[k] = IF k <= Len(a) THEN a[k] ELSE b[k - Len(a)]
<1>1. a \o b \in Seq(S) /\ Len(a \o b) = Len(a) + Len(b) BY ConcatProperties
<1>2. DOMAIN (a \o b) = 1..Len(a) + Len(b) BY <1>1, LenProperties
<1> QED BY <1>2, ConcatProperties

(* Taking one element out of a sequence without repetitions.               *)
Cut(s, i) == SubSeq(s, 1, i - 1) \o SubSeq(s, i + 1, Len(s))

LEMMA CutElements ==
  ASSUME NEW S, NEW s \in Seq(S), NEW i \in 1..Len(s),
         \A j, k \in 1..Len(s) : s[j] = s[k] => j = k
  PROVE  /\ \A j, k \in DOMAIN Cut(s, i) : Cut(s, i)[j] = Cut(s, i)[k] => j = k
         /\ \A k \in DOMAIN Cut(s, i) :
              \E j \in 1..Len(s) : Cut(s, i)[k] = s[j] /\ s[j] # s[i]
         /\ \A j \in 1..Len(s) : j # i => \E k \in DOMAIN Cut(s, i) : Cut(s, i)[k] = s[j]
<1> DEFINE a == SubSeq(s, 1, i - 1)
           b == SubSeq(s, i + 1, Len(s))
<1>0. /\ Len(s) \in Nat /\ DOMAIN s = 1..Len(s)
      /\ \A k \in 1..Len(s) : s[k] \in S
  BY LenProperties, ElementOfSeq
<1>1. PICK m \in Nat, n \in Nat : i = m + 1 /\ Len(s) = m + n + 1
  <2>1. ASSUME NEW l \in Nat, NEW k \in 1..l
        PROVE  k - 1 \in Nat /\ l - k \in Nat /\ k = (k - 1) + 1 /\ l = (k - 1) + (l - k) + 1
    OBVIOUS
  <2> QED BY <1>0, <2>1
<1>2. a \in Seq(S) /\ Len(a) = m /\ \A k \in 1..m : a[k] = s[k]
  <2>1. \A k \in 1..i - 1 : s[k] \in S BY <1>0
  <2>2. i - 1 \in Int /\ 1 \in Int BY <1>0
  <2>3. /\ a \in Seq(S) /\ Len(a) = IF 1 <= i - 1 THEN (i - 1) - 1 + 1 ELSE 0
        /\ \A k \in 1..(i - 1) - 1 + 1 : a[k] = s[1 + k - 1]
    BY <2>1, <2>2, SubSeqProperties
  <2>4. /\ (i - 1) - 1 + 1 = m /\ (~(1 <= i - 1) => m = 0)
        /\ \A k \in 1..m : 1 + k - 1 = k
    BY <1>1
  <2> QED BY <2>3, <2>4
<1>3. b \in Seq(S) /\ Len(b) = n /\ \A k \in 1..n : b[k] = s[m + 1 + k]
  <2>1. \A k \in i + 1..Len(s) : s[k] \in S BY <1>0
  <2>2. i + 1 \in Int /\ Len(s) \in Int BY <1>0
  <2>3. /\ b \in Seq(S) /\ Len(b) = IF i + 1 <= Len(s) THEN Len(s) - (i + 1) + 1 ELSE 0
        /\ \A k \in 1..Len(s) - (i + 1) + 1 : b[k] = s[(i + 1) + k - 1]
    BY <2>1, <2>2, SubSeqProperties
  <2>4. /\ Len(s) - (i + 1) + 1 = n /\ (~(i + 1 <= Len(s)) => n = 0)
        /\ \A k \in 1..n : (i + 1) + k - 1 = m + 1 + k
    BY <1>1
  <2> QED BY <2>3, <2>4
<1> DEFINE t == a \o b
<1> HIDE DEF a, b
<1>4. DOMAIN t = 1..m + n /\ \A k \in 1..m + n : t[k] = IF k <= m THEN a[k] ELSE b[k - m]
  <2>1. a \in Seq(S) /\ b \in Seq(S) /\ Len(a) = m /\ Len(b) = n BY <1>2, <1>3
  <2>2. ASSUME NEW x \in Seq(S), NEW y \in Seq(S)
        PROVE  /\ DOMAIN (x \o y) = 1..Len(x) + Len(y)
               /\ \A k \in 1..Len(x) + Len(y) :
                    (x \o y)[k] = IF k <= Len(x) THEN x[k] ELSE y[k - Len(x)]
    BY Joined
  <2>3. /\ DOMAIN (a \o b) = 1..Len(a) + Len(b)
        /\ \A k \in 1..Len(a) + Len(b) :
             (a \o b)[k] = IF k <= Len(a) THEN a[k] ELSE b[k - Len(a)]
    BY <2>1, <2>2, Zenon
  <2>4. /\ DOMAIN t = 1..m + n
        /\ \A k \in 1..m + n : t[k] = IF k <= m THEN a[k] ELSE b[k - m]
    BY <2>1, <2>3, Zenon DEF t
  <2> QED BY <2>4
<1> HIDE DEF t
<1>5. ASSUME NEW k \in 1..m + n
      PROVE  \E j \in 1..Len(s) : /\ t[k] = s[j] /\ j # i
                                  /\ k = IF j < i THEN j ELSE j - 1
  <2>1. CASE k <= m
    <3>1. k \in 1..m /\ k \in 1..Len(s) /\ k < i BY <1>1, <2>1
    <3> QED BY <1>2, <1>4, <2>1, <3>1
  <2>2. CASE ~(k <= m)
    <3>1. k - m \in 1..n /\ m + 1 + (k - m) = k + 1 BY <2>2
    <3>2. k + 1 \in 1..Len(s) /\ ~(k + 1 < i) /\ k + 1 # i /\ k = (k + 1) - 1 BY <1>1, <2>2
    <3>3. t[k] = s[k + 1] BY <1>3, <1>4, <2>2, <3>1
    <3> QED BY <3>2, <3>3
  <2> QED BY <2>1, <2>2
<1>6. ASSUME NEW j \in 1..m + n, NEW k \in 1..m + n, t[j] = t[k] PROVE j = k
  <2>1. PICK p \in 1..Len(s) : t[j] = s[p] /\ j = IF p < i THEN p ELSE p - 1 BY <1>5
  <2>2. PICK q \in 1..Len(s) : t[k] = s[q] /\ k = IF q < i THEN q ELSE q - 1 BY <1>5
  <2>3. p = q BY <1>6, <2>1, <2>2
  <2> QED BY <2>1, <2>2, <2>3
<1>7. ASSUME NEW k \in 1..m + n PROVE \E j \in 1..Len(s) : t[k] = s[j] /\ s[j] # s[i]
  BY <1>5
<1>8. ASSUME NEW j \in 1..Len(s), j # i PROVE \E k \in 1..m + n : t[k] = s[j]
  <2>1. CASE j < i
    <3>1. j \in 1..m /\ j \in 1..m + n /\ j <= m BY <1>1, <2>1
    <3> QED BY <1>2, <1>4, <3>1
  <2>2. CASE ~(j < i)
    <3>1. PICK k \in 1..n : j = m + 1 + k
      <4>1. j - (m + 1) \in 1..n /\ j = m + 1 + (j - (m + 1)) BY <1>1, <1>8, <2>2
      <4> QED BY <4>1
    <3>2. m + k \in 1..m + n /\ ~(m + k <= m) /\ (m + k) - m = k BY <1>1
    <3>3. t[m + k] = s[j] BY <1>3, <1>4, <3>1, <3>2
    <3> QED BY <3>2, <3>3
  <2> QED BY <2>1, <2>2
<1>9. Cut(s, i) = t BY DEF Cut, t, a, b
<1> QED BY <1>4, <1>6, <1>7, <1>8, <1>9

LEMMA ClientProxyInactiveKeeps ==
  ASSUME TypeOK, PInv, NEW p \in Proxies, ClientProxyInactive(p), ServerUnchanged
  PROVE  PInv'
<1>1. UNCHANGED <<sEnd, toS, toC, uEnd, uNext, uSent, gotReal, pNext, rNext, rCtl, cNext>>
  BY DEF ClientProxyInactive, ServerUnchanged, serverVars
<1>2. /\ cEnd[p] = "dead" /\ cEnd'[p] = "closed"
      /\ \A q \in Proxies : q # p => cEnd'[q] = cEnd[q]
      /\ \A v \in Users : RealStep(v) /\ UserStepOn(v)
  BY <1>1 DEF ClientProxyInactive, ClosingReals, RealStep, UserStepOn, TypeOK, LinksTypeOK, Conns
<1>3. AskedBackend' BY <1>1, <1>2, AskedKeeps DEF PInv, AskedQuietly, RealStep
<1>4. BackendOnce' BY <1>1, <1>2, BackendKeeps DEF PInv
<1>5. BoundOnce' /\ Counted' BY <1>1 DEF PInv, BoundOnce, Counted
<1>6. FreshConn' BY <1>1, <1>2 DEF PInv, FreshConn
<1>7. PoolIdle' /\ \A k \in DOMAIN pool' : \E j \in DOMAIN pool : pool'[k] = pool[j]
  <2>0. \A i \in DOMAIN pool : pool[i] \in Proxies
    BY ElementOfSeq, LenProperties DEF TypeOK, ClientTypeOK
  <2>1. CASE UNCHANGED pool /\ \A i \in DOMAIN pool : pool[i] # p
    BY <1>1, <1>2, <2>0, <2>1 DEF PInv, PoolIdle
  <2>2. ASSUME NEW i \in DOMAIN pool, pool[i] = p,
               pool' = SubSeq(pool, 1, i - 1) \o SubSeq(pool, i + 1, Len(pool))
        PROVE  /\ PoolIdle'
               /\ \A k \in DOMAIN pool' : \E j \in DOMAIN pool : pool'[k] = pool[j]
    <3>1. pool \in Seq(Proxies) /\ \A j, k \in DOMAIN pool : pool[j] = pool[k] => j = k
      BY DEF TypeOK, ClientTypeOK, PInv, PoolIdle
    <3>2. /\ \A j, k \in DOMAIN pool' : pool'[j] = pool'[k] => j = k
          /\ \A k \in DOMAIN pool' : \E j \in DOMAIN pool : pool'[k] = pool[j] /\ pool[j] # p
      <4>1. pool \in Seq(Proxies) /\ i \in 1..Len(pool) /\ DOMAIN pool = 1..Len(pool)
        BY <3>1, LenProperties
      <4>2. \A j, k \in 1..Len(pool) : pool[j] = pool[k] => j = k BY <3>1, <4>1
      <4>3. /\ \A j, k \in DOMAIN Cut(pool, i) : Cut(pool, i)[j] = Cut(pool, i)[k] => j = k
            /\ \A k \in DOMAIN Cut(pool, i) :
                 \E j \in 1..Len(pool) : Cut(pool, i)[k] = pool[j] /\ pool[j] # pool[i]
        BY <4>1, <4>2, CutElements, Zenon
      <4>4. pool' = Cut(pool, i) BY <2>2 DEF Cut
      <4> QED BY <2>2, <4>1, <4>3, <4>4
    <3>3. ASSUME NEW k \in DOMAIN pool'
          PROVE  cNext'[pool'[k]] = None /\ cEnd'[pool'[k]] \in {"open", "dead"}
      <4>1. PICK j \in DOMAIN pool : pool'[k] = pool[j] /\ pool[j] # p BY <3>2
      <4> QED BY <1>1, <1>2, <2>0, <4>1 DEF PInv, PoolIdle
    <3> QED BY <3>2, <3>3 DEF PoolIdle
  <2> QED BY <2>1, <2>2 DEF ClientProxyInactive, RemoveProxyChannel
<1>8. ASSUME NEW q \in Proxies PROVE Session(q)' /\ Down(q)'
  <2>0. Session(q) /\ Down(q) BY DEF PInv
  <2>1. QuietConn(q) BY <1>1, <1>2 DEF QuietConn
  <2>2. \A v \in Users : Uses(v, q)' => Uses(v, q) BY <1>1 DEF Uses
  <2>3. \A v \in Users : rEnd'[v] = "open" => rEnd[v] = "open" BY <1>2 DEF RealStep
  <2>4. Session(q)' BY <1>1, <2>0, <2>1, <2>2, QuietSession
  <2>5. Down(q)' BY <1>1, <2>0, <2>1, <2>2, <2>3, QuietDown
  <2> QED BY <2>4, <2>5
<1>9. PolledIdle'
  <2>1. \A v \in Users : rEnd'[v] = "polled" => rEnd[v] = "polled" /\ rNext[v] \in Proxies
    BY <1>2 DEF RealStep, PInv, BackendOnce, TypeOK, ClientTypeOK
  <2>2. \A q \in Proxies : cEnd[q] # "unused" => cEnd'[q] # "unused" BY <1>2
  <2> QED BY <1>1, <1>7, <2>1, <2>2 DEF PInv, PolledIdle
<1> QED BY <1>3, <1>4, <1>5, <1>6, <1>7, <1>8, <1>9 DEF PInv

(* A CONNECT sent to the client and read by it.                            *)
LEMMA UserActiveKeeps ==
  ASSUME TypeOK, PInv, NEW u \in Users, UserActive(u), ClientUnchanged
  PROVE  PInv'
<1>0. portCmd \in Ctls /\ portCmd \in Conns /\ Ctls \subseteq Conns
  BY DEF UserActive, TypeOK, ServerTypeOK, Conns
<1>1. /\ uEnd[u] = "unused" /\ \A v \in Users : uEnd'[v] = IF v = u THEN "open" ELSE uEnd[v]
      /\ UNCHANGED rEnd
  BY DEF UserActive, ClientUnchanged, clientVars, TypeOK, ServerTypeOK
<1>2. \A c \in Ctls :
        toC'[c] = toC[c] \/ (c = portCmd /\ toC'[c] = Append(toC[c], ConnectMsg(u)))
  BY <1>0, SentOn DEF UserActive, TypeOK
<1>3. \A c \in Ctls : toC[c] \in Seq(Message) /\ Asked(toC[c]) \subseteq Users
  BY <1>0, AskedInMessages DEF TypeOK, LinksTypeOK
<1>4. /\ rEnd[u] = "unused" /\ \A c \in Ctls : u \notin Asked(toC[c])
  BY <1>1 DEF PInv, AskedBackend, BackendOnce
<1>5. ASSUME NEW c \in Ctls
      PROVE  /\ AskedOnce(toC'[c])
             /\ \/ Asked(toC'[c]) = Asked(toC[c])
                \/ c = portCmd /\ Asked(toC'[c]) = Asked(toC[c]) \cup {u}
  <2>1. AskedOnce(toC[c]) BY DEF PInv, AskedBackend
  <2>2. ASSUME NEW q \in Seq(Message), q = toC[c], NEW r, r = toC'[c],
               r = Append(q, ConnectMsg(u)), c = portCmd
        PROVE  AskedOnce(r) /\ Asked(r) = Asked(q) \cup {u}
    <3>1. AskedOnce(q) /\ u \notin Asked(q) BY <1>4, <2>1, <2>2
    <3> QED BY <2>2, <3>1, AskedMore
  <2> QED BY <1>2, <1>3, <2>1, <2>2
<1>6. ASSUME NEW c \in Ctls, NEW v \in Asked(toC'[c])
      PROVE  /\ rEnd'[v] = "unused" /\ uEnd'[v] # "unused"
             /\ \A d \in Ctls : v \in Asked(toC'[d]) => c = d
  <2>1. CASE v = u BY <1>1, <1>4, <1>5, <2>1
  <2>2. CASE v # u
    <3>1. v \in Users /\ \A d \in Ctls : v \in Asked(toC'[d]) <=> v \in Asked(toC[d])
      <4>1. Asked(toC[c]) \subseteq Users BY <1>3
      <4>2. \A d \in Ctls : v \in Asked(toC'[d]) <=> v \in Asked(toC[d]) BY <1>5, <2>2
      <4> QED BY <4>1, <4>2
    <3> QED BY <1>1, <2>2, <3>1 DEF PInv, AskedBackend
  <2> QED BY <2>1, <2>2
<1>7. AskedBackend' BY <1>5, <1>6 DEF AskedBackend
<1>8. Quiet BY <1>0, UserStepQuiet
<1> QED BY <1>7, <1>8, QuietKeeps

LEMMA RecvConnectOnCtlKeeps ==
  ASSUME TypeOK, PInv, NEW c \in Ctls, RecvConnectOnCtl(c), ServerUnchanged
  PROVE  PInv'
<1>0. /\ c \in Conns /\ c \notin Proxies /\ Ctls \cup Proxies \subseteq Conns
      /\ toC[c] \in Seq(Message) /\ toC[c] # <<>> /\ Head(toC[c]).type = "connect"
  BY LinksAssumption DEF RecvConnectOnCtl, AtClient, TypeOK, LinksTypeOK, Conns
<1>u. PICK u \in Users : u = Head(toC[c]).user
  BY <1>0, HeadTailProperties, UserMessage
<1>1. UNCHANGED <<sEnd, cEnd, toS, uEnd, uNext, uSent, gotReal, pNext, rNext, cNext, pool>>
  BY DEF RecvConnectOnCtl, ServerUnchanged, serverVars
<1>2. /\ toC'[c] = Tail(toC[c]) /\ \A x \in Conns : x # c => toC'[x] = toC[x]
      /\ \A v \in Users : /\ rEnd'[v] = IF v = u THEN "connecting" ELSE rEnd[v]
                          /\ rCtl'[v] = IF v = u THEN c ELSE rCtl[v]
  BY <1>0, <1>u DEF RecvConnectOnCtl, Read, TypeOK, LinksTypeOK, ClientTypeOK
<1>3. /\ u \in Asked(toC[c]) /\ u \notin Asked(toC'[c]) /\ AskedOnce(toC'[c])
      /\ Asked(toC'[c]) \subseteq Asked(toC[c])
  BY <1>0, <1>u, <1>2, AskedLess DEF PInv, AskedBackend
<1>4. /\ rEnd[u] = "unused" /\ uEnd[u] # "unused" /\ rNext[u] = None
      /\ \A d \in Ctls : u \notin Asked(toC'[d])
  BY <1>0, <1>2, <1>3 DEF PInv, AskedBackend, BackendOnce
<1>5. AskedBackend'
  <2>1. \A d \in Ctls : /\ AskedOnce(toC'[d]) /\ Asked(toC'[d]) \subseteq Asked(toC[d])
                        /\ Asked(toC[d]) \subseteq Users
    BY <1>0, <1>2, <1>3, AskedInMessages DEF PInv, AskedBackend, TypeOK, LinksTypeOK
  <2>2. ASSUME NEW d \in Ctls, NEW v \in Asked(toC'[d])
        PROVE  /\ rEnd'[v] = "unused" /\ uEnd'[v] # "unused"
               /\ \A e \in Ctls : v \in Asked(toC'[e]) => d = e
    BY <1>1, <1>2, <1>4, <2>1 DEF PInv, AskedBackend
  <2> QED BY <2>1, <2>2 DEF AskedBackend
<1>6. BackendOnce'
  <2> SUFFICES ASSUME NEW v \in Users PROVE
        /\ uEnd'[v] = "unused" => rEnd'[v] = "unused" /\ rNext'[v] = None
        /\ rEnd'[v] \in {"unused", "connecting", "borrowing"} => rNext'[v] = None
        /\ rEnd'[v] \in {"connecting", "borrowing"} => rCtl'[v] # None
        /\ rEnd'[v] \in {"polled", "open", "closing"} => rNext'[v] # None
    BY DEF BackendOnce
  <2>1. CASE v = u BY <1>1, <1>2, <1>4, <2>1, LinksAssumption
  <2>2. CASE v # u BY <1>1, <1>2, <2>2 DEF PInv, BackendOnce
  <2> QED BY <2>1, <2>2
<1>7. \A q \in Proxies : toC'[q] = toC[q] BY <1>0, <1>2
<1>8. BoundOnce' /\ PoolIdle' /\ PolledIdle' /\ Counted'
  <2>1. \A v \in Users : rEnd'[v] = "polled" => rEnd[v] = "polled" BY <1>2
  <2> QED BY <1>1, <2>1 DEF PInv, BoundOnce, PoolIdle, PolledIdle, Counted
<1>9. FreshConn' BY <1>1, <1>7 DEF PInv, FreshConn
<1>10. ASSUME NEW q \in Proxies PROVE Session(q)' /\ Down(q)'
  <2>0. Session(q) /\ Down(q) BY DEF PInv
  <2>1. QuietConn(q) BY <1>1, <1>7 DEF QuietConn
  <2>2. \A v \in Users : Uses(v, q)' => Uses(v, q) BY <1>1 DEF Uses
  <2>3. \A v \in Users : rEnd'[v] = "open" => rEnd[v] = "open" BY <1>2
  <2>4. Session(q)' BY <1>1, <2>0, <2>1, <2>2, QuietSession
  <2>5. Down(q)' BY <1>1, <2>0, <2>1, <2>2, <2>3, QuietDown
  <2> QED BY <2>4, <2>5
<1> QED BY <1>5, <1>6, <1>8, <1>9, <1>10 DEF PInv
------------------------------------------------------------------------------
(* Every other step is quiet.                                              *)
Loud == \/ \E u \in Users : /\ UserActive(u) \/ UserRead(u) \/ UserInactive(u)
                            /\ ClientUnchanged
        \/ \E p \in Proxies : BindUser(p) /\ ClientUnchanged
        \/ \E c \in Ctls : RecvConnectOnCtl(c) /\ ServerUnchanged
        \/ \E u \in Users : /\ \/ RealConnectedPooled(u) \/ BindPolled(u)
                               \/ \E p \in Proxies : ProxyConnected(u, p)
                            /\ ServerUnchanged
        \/ \E p \in Proxies : /\ \/ RecvTransferAtClient(p) \/ RecvDisconnectAtClient(p)
                                 \/ ClientProxyInactive(p)
                              /\ ServerUnchanged

LEMMA QuietOrLoud == ASSUME TypeOK, [Next]_vars PROVE (Quiet /\ AskedQuietly) \/ Loud
<1>1. ASSUME NEW u \in Users, ServerUserHandler(u) \/ UserStep(u)
      PROVE  (Quiet /\ AskedQuietly) \/ Loud
  <2>1. /\ ClientUnchanged
        /\ \/ UserRefused(u) \/ UserInactiveUnrouted(u)
           \/ UserActive(u) \/ UserRead(u) \/ UserInactive(u)
    BY <1>1 DEF ServerUserHandler, UserStep
  <2>2. CASE UserRefused(u) \/ UserInactiveUnrouted(u) BY <2>1, <2>2, UserStepQuiet
  <2>3. CASE UserActive(u) \/ UserRead(u) \/ UserInactive(u) BY <2>1, <2>3 DEF Loud
  <2> QED BY <2>1, <2>2, <2>3
<1>2. ASSUME NEW u \in Users, BackendHandler(u) \/ BackendStep(u)
      PROVE  (Quiet /\ AskedQuietly) \/ Loud
  <2>1. /\ ServerUnchanged
        /\ \/ RealFailed(u) \/ RealConnectedNew(u) \/ ProxyFailed(u)
           \/ RealRead(u) \/ RealInactive(u)
           \/ RealConnectedPooled(u) \/ BindPolled(u)
           \/ (\E p \in Proxies : ProxyConnected(u, p))
    BY <1>2 DEF BackendHandler, BackendStep
  <2>2. CASE \/ RealConnectedPooled(u) \/ BindPolled(u)
             \/ \E p \in Proxies : ProxyConnected(u, p)
    BY <2>1, <2>2 DEF Loud
  <2> QED BY <2>1, <2>2, BackendStepQuiet
<1>3. ASSUME NEW c \in Ctls, ClientCtlHandler(c) PROVE (Quiet /\ AskedQuietly) \/ Loud
  <2>1. /\ ServerUnchanged
        /\ CtlConnect(c) \/ ClientCtlInactive(c) \/ RecvConnectOnCtl(c)
    BY <1>3 DEF ClientCtlHandler
  <2>2. CASE RecvConnectOnCtl(c) BY <2>1, <2>2 DEF Loud
  <2> QED BY <2>1, <2>2, ClientCtlStepQuiet
<1>4. ASSUME NEW p \in Proxies, ClientProxyHandler(p) PROVE Loud
  BY <1>4 DEF ClientProxyHandler, Loud
<1>5. ASSUME NEW p \in Proxies, ServerProxyHandler(p) PROVE (Quiet /\ AskedQuietly) \/ Loud
  <2>1. CASE BindUser(p) BY <1>5, <2>1 DEF ServerProxyHandler, Loud
  <2> QED BY <1>5, <2>1, ServerProxyStepQuiet
<1>6. ASSUME NEW x \in Conns, EofStep(x) PROVE Quiet /\ AskedQuietly
  BY <1>6, LinkStepQuiet DEF EofStep, ServerUnchanged, ClientUnchanged
<1>7. CASE BreakStep BY <1>7, LinkStepQuiet DEF BreakStep, ServerUnchanged, ClientUnchanged
<1>8. CASE EventLoops
  BY <1>1, <1>2, <1>3, <1>4, <1>5, <1>6, <1>8, ServerCtlStepQuiet DEF EventLoops
<1>9. CASE UNCHANGED vars
  <2>1. UNCHANGED linkVars /\ UNCHANGED serverVars /\ UNCHANGED clientVars BY <1>9 DEF vars
  <2>2. /\ UNCHANGED <<uNext, uSent, gotReal, rNext, rCtl, cNext, pool, pNext>>
        /\ \A u \in Users : RealStep(u) /\ UserStepOn(u)
    BY <2>1 DEF serverVars, clientVars, RealStep, UserStepOn
  <2> QED BY <2>1, <2>2, LinksUnchangedQuiet
<1> QED BY <1>1, <1>2, <1>7, <1>8, <1>9, ConfigStepQuiet DEF Next

LEMMA StepPInv == ASSUME TypeOK, PInv, [Next]_vars PROVE PInv'
<1>1. CASE Quiet /\ AskedQuietly
  <2>1. AskedBackend' BY <1>1, AskedKeeps DEF PInv
  <2> QED BY <1>1, <2>1, QuietKeeps
<1>2. ASSUME NEW u \in Users, ClientUnchanged, UserActive(u) \/ UserRead(u) \/ UserInactive(u)
      PROVE  PInv'
  BY <1>2, UserActiveKeeps, UserReadKeeps, UserInactiveKeeps
<1>3. ASSUME NEW p \in Proxies, ClientUnchanged, BindUser(p) PROVE PInv'
  BY <1>3, BindUserKeeps
<1>4. ASSUME NEW c \in Ctls, ServerUnchanged, RecvConnectOnCtl(c) PROVE PInv'
  BY <1>4, RecvConnectOnCtlKeeps
<1>5. ASSUME NEW u \in Users, ServerUnchanged,
             \/ RealConnectedPooled(u) \/ BindPolled(u)
             \/ \E p \in Proxies : ProxyConnected(u, p)
      PROVE  PInv'
  BY <1>5, RealConnectedPooledKeeps, BindPolledKeeps, ProxyConnectedKeeps
<1>6. ASSUME NEW p \in Proxies, ServerUnchanged,
             \/ RecvTransferAtClient(p) \/ RecvDisconnectAtClient(p)
             \/ ClientProxyInactive(p)
      PROVE  PInv'
  BY <1>6, RecvTransferAtClientKeeps, RecvDisconnectAtClientKeeps, ClientProxyInactiveKeeps
<1> QED BY <1>1, <1>2, <1>3, <1>4, <1>5, <1>6, QuietOrLoud DEF Loud

LEMMA StepSupervised ==
  ASSUME TypeOK, SInv, SupervisedOnce, [Next]_vars PROVE SupervisedOnce'
<1>1. CASE ServerUnchanged BY <1>1 DEF ServerUnchanged, serverVars, SupervisedOnce
<1>2. ASSUME NEW u \in Users, ServerUserHandler(u) \/ UserStep(u) PROVE SupervisedOnce'
  BY <1>2, UserStepSupervised DEF ServerUserHandler, UserStep
<1>3. CASE EventLoops
  BY <1>1, <1>2, <1>3, ServerCtlStepSupervised, ServerProxyStepSupervised
     DEF EventLoops, BackendHandler, ClientCtlHandler, ClientProxyHandler, EofStep
<1> QED BY <1>1, <1>2, <1>3, ConfigStepSupervised
        DEF Next, BackendStep, BreakStep, vars, ServerUnchanged

LEMMA InitBInv == Init => BInv
<1> SUFFICES ASSUME Init PROVE BInv OBVIOUS
<1>1. Proxies \subseteq Conns /\ Ctls \subseteq Conns /\ None \notin Users \cup Proxies \cup Ctls
  BY LinksAssumption DEF Conns
<1>2. SupervisedOnce BY DEF Init, ServerInit, SupervisedOnce
<1>3. AskedBackend /\ BackendOnce /\ BoundOnce
  BY <1>1, AskedEmpty DEF Init, LinksInit, ServerInit, ClientInit, AskedBackend, BackendOnce,
     BoundOnce
<1>4. FreshConn /\ PoolIdle /\ PolledIdle
  BY <1>1 DEF Init, LinksInit, ServerInit, ClientInit, FreshConn, PoolIdle, PolledIdle
<1>5. Counted
  <2>1. \A u \in Users : uSent[u] = 0 /\ gotReal[u] = <<>>
    BY DEF Init, ServerInit, ClientInit
  <2>2. Len(<<>>) <= 0 OBVIOUS
  <2> QED BY <2>1, <2>2 DEF Counted
<1>6. ASSUME NEW p \in Proxies PROVE Session(p) /\ Down(p)
  <2>1. sEnd[p] = "unused" /\ toC[p] = <<>> /\ cNext[p] = None
    BY <1>1 DEF Init, LinksInit, ClientInit
  <2> QED BY <1>1, <2>1, AskedEmpty DEF Session, Down, Linked
<1> QED BY <1>2, <1>3, <1>4, <1>5, <1>6 DEF BInv, PInv

LEMMA StepBInv == TypeOK /\ SInv /\ BInv /\ [Next]_vars => BInv'
BY StepPInv, StepSupervised DEF BInv

LEMMA SpecBInv == Spec => []BInv
BY InitBInv, StepBInv, SpecSInv, TypeCorrect, PTL DEF Spec
------------------------------------------------------------------------------
(* NEXT_CHANNEL of a data connection names the same session at the server  *)
(* and at the client as long as both ends live, whatever is on the way.    *)
THEOREM BindingsAgree == Spec => []BindingAgreement
<1>1. BInv => BindingAgreement BY DEF BInv, PInv, Session, BindingAgreement
<1> QED BY <1>1, SpecBInv, PTL

(* borrowProxyChanel never takes a data connection that somebody still uses*)
(* or is about to change: the pool holds each once, and idle at both ends. *)
THEOREM PoolIsExclusive == Spec => []PoolExclusive
<1>1. TypeOK /\ BInv => PoolExclusive
  <2> SUFFICES ASSUME TypeOK, BInv PROVE PoolExclusive OBVIOUS
  <2>1. /\ \A i, j \in DOMAIN pool : pool[i] = pool[j] => i = j
        /\ \A i \in DOMAIN pool : cNext[pool[i]] = None /\ cEnd[pool[i]] \in {"open", "dead"}
    BY DEF BInv, PInv, PoolIdle
  <2>2. ASSUME NEW i \in DOMAIN pool, NEW p \in Proxies, p = pool[i], Linked(p)
        PROVE  /\ pNext[p] = None
               /\ \A k \in DOMAIN toS[p] : toS[p][k].type # "connect"
               /\ \A k \in DOMAIN toC[p] : toC[p][k].type # "disconnect"
    <3>1. Session(p) /\ Down(p) /\ cNext[p] = None /\ toS[p] \in Seq(Message)
      BY <2>1, <2>2 DEF BInv, PInv, TypeOK, LinksTypeOK, Conns
    <3>2. Asked(toS[p]) = {}
      BY <2>2, <3>1, AskedInMessages, LinksAssumption DEF Session
    <3>3. toC[p] = <<>> BY <3>1 DEF Down
    <3>4. pNext[p] = None BY <2>2, <3>1 DEF Session
    <3>5. \A k \in DOMAIN toS[p] : toS[p][k].type # "connect" BY <3>2 DEF Asked
    <3>6. \A k \in DOMAIN toC[p] : toC[p][k].type # "disconnect"
      BY <3>3, AskedEmpty DEF Ends
    <3> QED BY <3>4, <3>5, <3>6
  <2>3. \A i \in DOMAIN pool : pool[i] \in Proxies
    BY ElementOfSeq, LenProperties DEF TypeOK, ClientTypeOK
  <2> QED BY <2>1, <2>2, <2>3 DEF PoolExclusive
<1> QED BY <1>1, SpecBInv, TypeCorrect, PTL

(* A data connection that is returned and borrowed again while its last    *)
(* user is still being closed is never that user's any more.               *)
THEOREM ProxiesHaveOneUser == Spec => []OneUserPerProxy
<1>1. TypeOK /\ BInv => OneUserPerProxy
  <2> SUFFICES ASSUME TypeOK, BInv, NEW u \in Users, NEW v \in Users,
                      uNext[u] # None, uNext[u] = uNext[v],
                      uEnd[u] # "closed", uEnd[v] # "closed", Linked(uNext[u])
               PROVE  u = v
    BY DEF OneUserPerProxy
  <2>1. PICK p \in Proxies : p = uNext[u] BY DEF TypeOK, ServerTypeOK
  <2>2. Session(p) BY DEF BInv, PInv
  <2> QED BY <2>1, <2>2 DEF Session, Uses
<1> QED BY <1>1, SpecBInv, TypeCorrect, PTL

(* A user is bound by the one CONNECT that comes back for it.              *)
LEMMA BindsOnce ==
  ASSUME TypeOK, BInv, [Next]_vars, NEW u \in Users, uNext'[u] # uNext[u]
  PROVE  /\ uNext[u] = None
         /\ \E p \in Proxies : BindUser(p) /\ u \in Asked(toS[p])
<1>1. CASE Quiet BY <1>1 DEF Quiet
<1>2. CASE ClientUnchanged /\ \E v \in Users : UserActive(v) \/ UserRead(v) \/ UserInactive(v)
  BY <1>2 DEF UserActive, UserRead, UserInactive
<1>3. CASE ServerUnchanged BY <1>3 DEF ServerUnchanged, serverVars
<1>4. ASSUME NEW p \in Proxies, BindUser(p)
      PROVE  uNext[u] = None /\ u \in Asked(toS[p])
  <2>1. toS[p] \in Seq(Message) /\ toS[p] # <<>> /\ Head(toS[p]).type = "connect"
    BY <1>4 DEF BindUser, AtServer, TypeOK, LinksTypeOK, Conns
  <2>2. PICK v \in Users : v = Head(toS[p]).user BY <2>1, HeadTailProperties, UserMessage
  <2>3. u = v BY <1>4, <2>2 DEF BindUser, TypeOK, ServerTypeOK
  <2>4. u \in Asked(toS[p]) BY <2>1, <2>2, <2>3, AskedLess
  <2> QED BY <2>4 DEF BInv, PInv, BoundOnce
<1> QED BY <1>1, <1>2, <1>3, <1>4, QuietOrLoud DEF Loud

(* The chunk a backend gets is the next one its user sent.                 *)
LEMMA Delivery ==
  ASSUME TypeOK, BInv, NEW p \in Proxies, RecvTransferAtClient(p), ServerUnchanged
  PROVE  UNCHANGED <<uSent, gotReal>> \/ \E u \in Users : Upstream!Deliver(u)
<1> DEFINE m == Head(toC[p])
<1>0. /\ toC[p] \in Seq(Message) /\ toC[p] # <<>> /\ m.type = "transfer" /\ UNCHANGED uSent
  BY DEF RecvTransferAtClient, AtClient, TypeOK, LinksTypeOK, Conns, ServerUnchanged, serverVars
<1>1. CASE cNext[p] = None \/ rEnd[cNext[p]] # "open"
  BY <1>0, <1>1 DEF RecvTransferAtClient
<1>2. ASSUME NEW u \in Users, cNext[p] = u, rEnd[u] = "open" PROVE Upstream!Deliver(u)
  <2>1. Chunks(toC[p], u, Len(gotReal[u]), uSent[u]) /\ Len(gotReal[u]) \in Nat
    BY <1>2, LenProperties DEF BInv, PInv, Down, TypeOK, ClientTypeOK
  <2>2. m = TransferMsg(u, Len(gotReal[u]) + 1) /\ Len(gotReal[u]) + 1 <= uSent[u]
    BY <1>0, <2>1, ChunkRead
  <2>3. m.user = u /\ m.n = Len(gotReal[u]) + 1 BY <2>2 DEF TransferMsg
  <2>4. gotReal' = [gotReal EXCEPT ![u] = Append(@, <<m.user, m.n>>)]
    BY <1>2, LinksAssumption DEF RecvTransferAtClient
  <2>5. Len(gotReal[u]) < uSent[u] BY <2>1, <2>2 DEF TypeOK, ServerTypeOK
  <2> QED BY <1>0, <2>3, <2>4, <2>5 DEF Upstream!Deliver
<1> QED BY <1>1, <1>2 DEF TypeOK, ClientTypeOK

(* From its user to the backend, through queues, pooled connections and    *)
(* rebinding, each session is a BytePipe: in order, without gap, duplicate *)
(* or another session's chunk.                                             *)
THEOREM UpstreamIsPipe == Spec => UpstreamPipe
<1>1. Init => Upstream!Init BY DEF Init, ServerInit, ClientInit, Upstream!Init
<1>2. TypeOK /\ BInv /\ [Next]_vars => [Upstream!Next]_(Upstream!pipeVars)
  <2> SUFFICES ASSUME TypeOK, BInv, [Next]_vars
               PROVE  UNCHANGED <<uSent, gotReal>> \/ Upstream!Next
    BY DEF Upstream!pipeVars
  <2>1. CASE Quiet BY <2>1 DEF Quiet
  <2>2. ASSUME NEW u \in Users, ClientUnchanged,
               UserActive(u) \/ UserRead(u) \/ UserInactive(u)
        PROVE  UNCHANGED <<uSent, gotReal>> \/ Upstream!Put(u)
    BY <2>2 DEF ClientUnchanged, clientVars, UserActive, UserRead, UserInactive, Upstream!Put
  <2>3. ASSUME NEW p \in Proxies, ClientUnchanged, BindUser(p)
        PROVE  UNCHANGED <<uSent, gotReal>>
    BY <2>3 DEF ClientUnchanged, clientVars, BindUser
  <2>4. ASSUME ServerUnchanged,
               \/ \E c \in Ctls : RecvConnectOnCtl(c)
               \/ \E u \in Users : RealConnectedPooled(u) \/ BindPolled(u)
               \/ \E u \in Users, p \in Proxies : ProxyConnected(u, p)
               \/ \E p \in Proxies : RecvDisconnectAtClient(p) \/ ClientProxyInactive(p)
        PROVE  UNCHANGED <<uSent, gotReal>>
    BY <2>4 DEF ServerUnchanged, serverVars, RecvConnectOnCtl, RealConnectedPooled,
                BindPolled, ProxyConnected, RecvDisconnectAtClient, ClientProxyInactive
  <2> QED BY <2>1, <2>2, <2>3, <2>4, Delivery, QuietOrLoud DEF Loud, Upstream!Next
<1> QED BY <1>1, <1>2, SpecBInv, TypeCorrect, PTL DEF Spec, UpstreamPipe, Upstream!Spec

(* What a BytePipe promises, said of the chunks: the n-th that the backend *)
(* of a user got is the n-th the user sent, and it got no more than that.  *)
ArriveInOrder ==
  \A u \in Users : /\ Len(gotReal[u]) <= uSent[u]
                   /\ \A n \in 1..Len(gotReal[u]) : gotReal[u][n] = <<u, n>>

PipeInv == /\ uSent \in [Users -> Nat] /\ gotReal \in [Users -> Seq(Users \X Nat)]
           /\ ArriveInOrder

(* A consequence of the refinement alone: whoever implements BytePipe has  *)
(* this, so it is proved on the abstract steps Put and Deliver.            *)
THEOREM ChunksArriveInOrder == Spec => []ArriveInOrder
<1>1. Upstream!Init => PipeInv
  BY DEF Upstream!Init, PipeInv, ArriveInOrder
<1>2. PipeInv /\ [Upstream!Next]_(Upstream!pipeVars) => PipeInv'
  <2> SUFFICES ASSUME PipeInv, [Upstream!Next]_(Upstream!pipeVars) PROVE PipeInv' OBVIOUS
  <2>1. CASE UNCHANGED Upstream!pipeVars BY <2>1 DEF Upstream!pipeVars, PipeInv, ArriveInOrder
  <2>2. ASSUME NEW u \in Users, Upstream!Put(u) PROVE PipeInv'
    <3>1. /\ uSent' \in [Users -> Nat] /\ gotReal' = gotReal
          /\ \A v \in Users : uSent[v] \in Nat /\ uSent[v] <= uSent'[v]
                            /\ Len(gotReal[v]) \in Nat /\ Len(gotReal[v]) <= uSent[v]
      BY <2>2, LenProperties DEF Upstream!Put, PipeInv, ArriveInOrder
    <3>2. \A v \in Users : Len(gotReal[v]) <= uSent'[v] BY <3>1
    <3> QED BY <3>1, <3>2 DEF PipeInv, ArriveInOrder
  <2>3. ASSUME NEW u \in Users, Upstream!Deliver(u) PROVE PipeInv'
    <3> DEFINE chunk == <<u, Len(gotReal[u]) + 1>>
    <3>1. /\ gotReal[u] \in Seq(Users \X Nat) /\ Len(gotReal[u]) \in Nat /\ uSent[u] \in Nat
          /\ Len(gotReal[u]) < uSent[u] /\ uSent' = uSent
          /\ gotReal' = [gotReal EXCEPT ![u] = Append(@, chunk)]
      BY <2>3 DEF Upstream!Deliver, PipeInv
    <3>2. chunk \in Users \X Nat BY <3>1
    <3>3. /\ Append(gotReal[u], chunk) \in Seq(Users \X Nat)
          /\ Len(Append(gotReal[u], chunk)) = Len(gotReal[u]) + 1
          /\ \A n \in 1..Len(gotReal[u]) : Append(gotReal[u], chunk)[n] = gotReal[u][n]
          /\ Append(gotReal[u], chunk)[Len(gotReal[u]) + 1] = <<u, Len(gotReal[u]) + 1>>
      BY <3>1, <3>2, AppendProperties
    <3> HIDE DEF chunk
    <3>4. gotReal' \in [Users -> Seq(Users \X Nat)] BY <3>1, <3>3 DEF PipeInv
    <3>5. gotReal'[u] = Append(gotReal[u], chunk)
          /\ \A v \in Users : v # u => gotReal'[v] = gotReal[v]
      BY <3>1 DEF PipeInv
    <3>6. ASSUME NEW v \in Users
          PROVE  /\ Len(gotReal'[v]) <= uSent[v]
                 /\ \A n \in 1..Len(gotReal'[v]) : gotReal'[v][n] = <<v, n>>
      <4>1. CASE v # u BY <3>5, <4>1 DEF PipeInv, ArriveInOrder
      <4>2. CASE v = u
        <5>1. Len(gotReal'[u]) <= uSent[u] BY <3>1, <3>3, <3>5
        <5>2. ASSUME NEW n \in 1..Len(gotReal'[u]) PROVE gotReal'[u][n] = <<u, n>>
          <6>1. CASE n \in 1..Len(gotReal[u])
            BY <3>3, <3>5, <6>1 DEF PipeInv, ArriveInOrder
          <6>2. CASE n = Len(gotReal[u]) + 1 BY <3>3, <3>5, <6>2
          <6> QED BY <3>1, <3>3, <3>5, <6>1, <6>2
        <5> QED BY <4>2, <5>1, <5>2
      <4> QED BY <4>1, <4>2
    <3> QED BY <3>1, <3>4, <3>6 DEF PipeInv, ArriveInOrder
  <2> QED BY <2>1, <2>2, <2>3 DEF Upstream!Next
<1>3. PipeInv => ArriveInOrder BY DEF PipeInv
<1> QED BY <1>1, <1>2, <1>3, UpstreamIsPipe, PTL DEF UpstreamPipe, Upstream!Spec
------------------------------------------------------------------------------
(* What the client still has, it has in its pool, on the way from there to *)
(* a backend, or bound: every step that unbinds a data connection pools or *)
(* closes it, and a backend loses the connection bound to it only with a   *)
(* step that closes the backend.  One that is bound to a connection closed *)
(* after poll() stays open; but its CONNECT is lost and never sent again.  *)

Kept == \A p \in Proxies : cEnd[p] = "open" /\ cNext[p] = None =>
          Pooled(p) \/ Polled(p) # {}

Unasked(u) == uNext[u] = None /\ u \notin Asked(toS[rNext[u]])

Attached == \A u \in Users : rEnd[u] = "open" =>
  cNext[rNext[u]] = u /\ (cEnd[rNext[u]] \in {"open", "dead"} \/ Unasked(u))

AInv == Kept /\ Attached

LEMMA InitAInv == Init => AInv
BY DEF Init, LinksInit, ClientInit, AInv, Kept, Attached, Conns

LEMMA StillAttached ==
  ASSUME TypeOK, PInv, Attached, UNCHANGED <<rNext, cNext>>,
         \A u \in Users : rEnd'[u] = "open" => rEnd[u] = "open",
         \A u \in Users : rEnd[u] = "open" /\ Unasked(u) => Unasked(u)',
         \A p \in Proxies : cEnd[p] \in {"open", "dead"} => cEnd'[p] \in {"open", "dead"}
  PROVE  Attached'
<1>1. \A u \in Users : rEnd[u] = "open" => rNext[u] \in Proxies
  BY DEF PInv, BackendOnce, TypeOK, ClientTypeOK
<1> QED BY <1>1 DEF Attached

LEMMA StillUnasked ==
  ASSUME TypeOK, PInv, UNCHANGED <<uNext, rNext>>, NEW u \in Users, rEnd[u] = "open",
         \A p \in Proxies : Asked(toS'[p]) \subseteq Asked(toS[p])
  PROVE  Unasked(u) => Unasked(u)'
<1>1. rNext[u] \in Proxies BY DEF PInv, BackendOnce, TypeOK, ClientTypeOK
<1> QED BY <1>1 DEF Unasked

LEMMA ClientUnchangedKeeps ==
  ASSUME AInv, UNCHANGED <<cEnd, cNext, pool, rNext, rEnd>>,
         \A u \in Users : rEnd[u] = "open" /\ Unasked(u) => Unasked(u)'
  PROVE  AInv'
<1>1. Kept' BY DEF AInv, Kept, Pooled, Polled
<1>2. Attached' BY DEF AInv, Attached
<1> QED BY <1>1, <1>2 DEF AInv

LEMMA QuietAttached == ASSUME TypeOK, PInv, AInv, Quiet PROVE AInv'
<1>1. Kept'
  <2>1. \A u \in Users : rEnd[u] = "polled" => rEnd'[u] = "polled" BY DEF Quiet, RealStep
  <2> QED BY <2>1 DEF AInv, Kept, Pooled, Polled, Quiet, QuietConn
<1>2. \A u \in Users : rEnd[u] = "open" /\ Unasked(u) => Unasked(u)'
  BY StillUnasked DEF Quiet, QuietConn
<1>3. Attached' BY <1>2, StillAttached DEF AInv, Quiet, RealStep
<1> QED BY <1>1, <1>3 DEF AInv

(* A backend that is bound was bound to nothing, and nothing to it.        *)
LEMMA BoundAttached ==
  ASSUME TypeOK, PInv, AInv, NEW u \in Users, NEW p \in Proxies,
         rEnd[u] \in {"polled", "borrowing"}, rEnd[u] = "polled" => rNext[u] = p,
         cNext[p] = None, Bind(u, p),
         UNCHANGED <<pool, uNext>>, cEnd'[p] \in {"open", "dead"} \/ Unasked(u)',
         \A q \in Proxies : q # p => cEnd'[q] = cEnd[q] /\ toS'[q] = toS[q]
  PROVE  AInv'
<1>1. /\ \A q \in Proxies : cNext'[q] = IF q = p THEN u ELSE cNext[q]
      /\ \A v \in Users : rNext'[v] = IF v = u THEN p ELSE rNext[v]
      /\ \A v \in Users : rEnd'[v] = IF v = u THEN "open" ELSE rEnd[v]
  BY DEF Bind, TypeOK, ClientTypeOK
<1>2. Kept'
  <2> SUFFICES ASSUME NEW q \in Proxies, cEnd'[q] = "open", cNext'[q] = None
               PROVE  Pooled(q)' \/ Polled(q)' # {}
    BY DEF Kept
  <2>1. q # p /\ cEnd[q] = "open" /\ cNext[q] = None BY <1>1, LinksAssumption
  <2>2. CASE Pooled(q) BY <2>2 DEF Pooled
  <2>3. ASSUME NEW v \in Users, rEnd[v] = "polled", rNext[v] = q PROVE Polled(q)' # {}
    <3>1. v # u BY <2>1, <2>3
    <3>2. rEnd'[v] = "polled" /\ rNext'[v] = q BY <1>1, <2>3, <3>1
    <3> QED BY <3>2 DEF Polled
  <2> QED BY <2>1, <2>2, <2>3 DEF AInv, Kept, Polled
<1>3. ASSUME NEW v \in Users, rEnd'[v] = "open"
      PROVE  /\ cNext'[rNext'[v]] = v
             /\ cEnd'[rNext'[v]] \in {"open", "dead"} \/ Unasked(v)'
  <2>1. CASE v = u BY <1>1, <2>1
  <2>2. CASE v # u
    <3>1. /\ rEnd[v] = "open" /\ rNext'[v] = rNext[v] /\ cNext[rNext[v]] = v
          /\ cEnd[rNext[v]] \in {"open", "dead"} \/ Unasked(v)
      BY <1>1, <1>3, <2>2 DEF AInv, Attached
    <3>2. rNext[v] \in Proxies /\ rNext[v] # p
      BY <3>1, LinksAssumption DEF PInv, BackendOnce, TypeOK, ClientTypeOK
    <3> QED BY <1>1, <3>1, <3>2 DEF Unasked
  <2> QED BY <2>1, <2>2
<1> QED BY <1>2, <1>3 DEF AInv, Attached

LEMMA StepAInv == TypeOK /\ BInv /\ AInv /\ [Next]_vars => AInv'
<1> SUFFICES ASSUME TypeOK, PInv, AInv, [Next]_vars PROVE AInv' BY DEF BInv
<1> USE DEF TypeOK, ClientTypeOK
<1>0. Proxies \subseteq Conns /\ Proxies \cap Ctls = {} BY LinksAssumption DEF Conns
<1>1. CASE Quiet BY <1>1, QuietAttached
<1>s. ASSUME UNCHANGED <<uNext, toS, rNext>>, NEW u \in Users, rEnd[u] = "open", Unasked(u)
      PROVE  Unasked(u)'
  BY <1>s DEF Unasked
<1>2. ASSUME NEW u \in Users, ClientUnchanged, UserActive(u) \/ UserRead(u) \/ UserInactive(u)
      PROVE  AInv'
  <2>1. UNCHANGED <<cEnd, cNext, pool, rNext, rEnd, uNext, toS>>
    BY <1>2 DEF ClientUnchanged, clientVars, UserActive, UserRead, UserInactive
  <2> QED BY <1>s, <2>1, ClientUnchangedKeeps
<1>3. ASSUME NEW p \in Proxies, ClientUnchanged, BindUser(p) PROVE AInv'
  <2>1. UNCHANGED <<cEnd, cNext, pool, rNext, rEnd>> /\ toS' = Read(toS, p)
    BY <1>3 DEF ClientUnchanged, clientVars, BindUser
  <2>2. AskedNoMore BY <1>0, <1>3, <2>1, ReadAsksNoMore DEF BindUser, AtServer
  <2>3. ASSUME NEW v \in Users, rEnd[v] = "open", Unasked(v) PROVE Unasked(v)'
    <3>1. toS[p] \in Seq(Message) /\ toS[p] # <<>> /\ Head(toS[p]).type = "connect"
      BY <1>0, <1>3 DEF BindUser, AtServer, LinksTypeOK
    <3>2. Head(toS[p]).user \in Asked(toS[p]) BY <3>1, AskedLess
    <3>3. rNext[v] \in Proxies BY <2>3 DEF PInv, BackendOnce
    <3>4. Head(toS[p]).user # v BY <2>3, <3>2 DEF Unasked, PInv, BoundOnce
    <3>5. uNext'[v] = uNext[v] BY <1>3, <3>4 DEF BindUser, ServerTypeOK
    <3> QED BY <2>1, <2>2, <2>3, <3>3, <3>5 DEF Unasked, AskedNoMore
  <2> QED BY <2>1, <2>3, ClientUnchangedKeeps
<1>4. ASSUME NEW c \in Ctls, RecvConnectOnCtl(c), ServerUnchanged PROVE AInv'
  <2>0. toC[c] \in Seq(Message) /\ toC[c] # <<>> /\ Head(toC[c]).type = "connect"
    BY <1>4 DEF RecvConnectOnCtl, AtClient, LinksTypeOK, Conns
  <2>1. Head(toC[c]).user \in Asked(toC[c]) BY <2>0, AskedLess
  <2>2. rEnd[Head(toC[c]).user] = "unused" BY <2>1 DEF PInv, AskedBackend
  <2>3. /\ UNCHANGED <<cEnd, cNext, pool, rNext, uNext, toS>>
        /\ \A u \in Users : rEnd'[u] = "open" => rEnd[u] = "open"
        /\ \A u \in Users : rEnd[u] = "polled" => rEnd'[u] = "polled"
    BY <1>4, <2>2 DEF RecvConnectOnCtl, ServerUnchanged, serverVars
  <2>4. Attached' BY <1>s, <2>3, StillAttached DEF AInv
  <2> QED BY <2>3, <2>4 DEF AInv, Kept, Pooled, Polled
<1>5. ASSUME NEW u \in Users, RealConnectedPooled(u), ServerUnchanged PROVE AInv'
  <2>1. /\ pool # <<>> /\ pool' = Tail(pool) /\ UNCHANGED <<cEnd, cNext, toS, uNext>>
        /\ rEnd[u] = "connecting"
    BY <1>5 DEF RealConnectedPooled, linkVars, ServerUnchanged, serverVars
  <2>2. PICK p \in Proxies : p = Head(pool) BY <2>1
  <2>3. \A v \in Users : /\ rNext'[v] = IF v = u THEN p ELSE rNext[v]
                         /\ rEnd'[v] = IF v = u THEN "polled" ELSE rEnd[v]
    BY <1>5, <2>2 DEF RealConnectedPooled
  <2>4. /\ Len(pool) \in Nat \ {0} /\ Len(pool') = Len(pool) - 1
        /\ \A i \in 1..Len(pool) : i # 1 => pool'[i - 1] = pool[i]
        /\ DOMAIN pool = 1..Len(pool) /\ DOMAIN pool' = 1..Len(pool) - 1
        /\ 1 \in DOMAIN pool /\ p = pool[1]
    BY <2>1, <2>2, HeadTailProperties, LenProperties, EmptySeq
  <2>5. ASSUME NEW q \in Proxies, q # p, Pooled(q) PROVE Pooled(q)'
    <3>1. PICK i \in 1..Len(pool) : pool[i] = q BY <2>4, <2>5 DEF Pooled
    <3>2. i # 1 BY <2>4, <2>5, <3>1
    <3>3. i - 1 \in 1..Len(pool) - 1 BY <2>4, <3>2
    <3>4. i - 1 \in DOMAIN pool' /\ pool'[i - 1] = q BY <2>4, <3>1, <3>2, <3>3
    <3> QED BY <3>4 DEF Pooled
  <2>6. \A q \in Proxies : Polled(q) \subseteq Polled(q)'
    BY <2>1, <2>3 DEF Polled
  <2>7. u \in Polled(p)' BY <2>3 DEF Polled
  <2>8. Kept'
    <3> SUFFICES ASSUME NEW q \in Proxies, cEnd'[q] = "open", cNext'[q] = None
                 PROVE  Pooled(q)' \/ Polled(q)' # {}
      BY DEF Kept
    <3>1. CASE q = p BY <2>7, <3>1
    <3>2. CASE q # p BY <2>1, <2>5, <2>6, <3>2 DEF AInv, Kept
    <3> QED BY <3>1, <3>2
  <2>9. Attached' BY <2>1, <2>3 DEF AInv, Attached, Unasked
  <2> QED BY <2>8, <2>9 DEF AInv
<1>p. ASSUME NEW u \in Users, BindPolled(u), ServerUnchanged PROVE AInv'
  <2>1. PICK p \in Proxies : p = rNext[u] BY <1>p DEF BindPolled, PInv, BackendOnce
  <2>2. /\ rEnd[u] = "polled" /\ Bind(u, p) /\ SendToS(p, ConnectMsg(u))
        /\ UNCHANGED <<cEnd, sEnd, pool, uNext>>
    BY <1>p, <2>1 DEF BindPolled, ServerUnchanged, serverVars
  <2>3. /\ cNext[p] = None /\ cEnd[p] # "unused" /\ uNext[u] = None
        /\ u \notin Asked(toS[p])
    BY <2>1, <2>2 DEF PInv, PolledIdle
  <2>4. /\ \A q \in Proxies : q # p => toS'[q] = toS[q]
        /\ ~Linked(p) => toS'[p] = toS[p]
    BY <1>0, <2>2, SentOn
  <2>5. cEnd'[p] \in {"open", "dead"} \/ Unasked(u)'
    <3>1. rNext'[u] = p BY <2>2 DEF Bind
    <3>2. cEnd[p] \in EndStates BY <1>0 DEF LinksTypeOK
    <3> QED BY <2>2, <2>3, <2>4, <3>1, <3>2 DEF EndStates, Linked, Unasked
  <2> QED BY <2>1, <2>2, <2>3, <2>4, <2>5, BoundAttached
<1>6. ASSUME NEW u \in Users, NEW p \in Proxies, ProxyConnected(u, p), ServerUnchanged
      PROVE  AInv'
  <2>1. /\ rEnd[u] = "borrowing" /\ sEnd[p] = "unused" /\ Bind(u, p)
        /\ cEnd' = [cEnd EXCEPT ![p] = "open"] /\ toS' = [toS EXCEPT ![p] = <<ConnectMsg(u)>>]
        /\ UNCHANGED <<pool, uNext>>
    BY <1>6 DEF ProxyConnected, ServerUnchanged, serverVars
  <2>2. cNext[p] = None BY <2>1 DEF PInv, FreshConn
  <2>3. \A q \in Proxies : /\ cEnd'[q] = IF q = p THEN "open" ELSE cEnd[q]
                           /\ q # p => toS'[q] = toS[q]
    BY <1>0, <2>1 DEF LinksTypeOK
  <2>4. cEnd'[p] \in {"open", "dead"} /\ \A q \in Proxies : q # p => cEnd'[q] = cEnd[q]
    BY <2>3
  <2> QED BY <2>1, <2>2, <2>3, <2>4, BoundAttached
<1>7. ASSUME NEW p \in Proxies, RecvTransferAtClient(p), ServerUnchanged PROVE AInv'
  <2>1. UNCHANGED <<cEnd, cNext, pool, rNext, rEnd, uNext, toS>>
    BY <1>7 DEF RecvTransferAtClient, ServerUnchanged, serverVars
  <2> QED BY <1>s, <2>1, ClientUnchangedKeeps
<1>8. ASSUME NEW p \in Proxies, RecvDisconnectAtClient(p), ServerUnchanged PROVE AInv'
  <2>0. UNCHANGED <<uNext, toS, rNext>>
    BY <1>8 DEF RecvDisconnectAtClient, ServerUnchanged, serverVars
  <2>1. CASE cNext[p] = None
    BY <1>8, <1>s, <2>0, <2>1, ClientUnchangedKeeps DEF RecvDisconnectAtClient
  <2>2. CASE cNext[p] # None
    <3>1. /\ \A q \in Proxies : cNext'[q] = IF q = p THEN None ELSE cNext[q]
          /\ rNext' = rNext /\ ReturnProxyChannel(p)
          /\ \A v \in Users : /\ rEnd'[v] = "open" => rEnd[v] = "open" /\ v # cNext[p]
                              /\ rEnd[v] = "polled" => rEnd'[v] = "polled"
      BY <1>8, <2>2 DEF RecvDisconnectAtClient, ClosingReals
    <3>2. \A q \in Proxies : cEnd'[q] = cEnd[q] \/ (q = p /\ cEnd'[q] = "dead")
      BY <1>0, <3>1 DEF ReturnProxyChannel, CloseEnd, LinksTypeOK
    <3>3. \A q \in Proxies : Pooled(q) => Pooled(q)'
      <4>1. pool' = pool \/ pool' = Append(pool, p) BY <3>1 DEF ReturnProxyChannel
      <4>2. \A i \in DOMAIN pool : Append(pool, p)[i] = pool[i] /\ i \in DOMAIN Append(pool, p)
        BY AppendProperties, LenProperties
      <4> QED BY <4>1, <4>2 DEF Pooled
    <3>4. cEnd'[p] = "open" => Pooled(p)'
      <4>1. cEnd'[p] = "open" => pool' = Append(pool, p)
        BY <1>0, <3>1 DEF ReturnProxyChannel, CloseEnd, LinksTypeOK
      <4>2. /\ Len(pool) + 1 \in DOMAIN Append(pool, p)
            /\ Append(pool, p)[Len(pool) + 1] = p
        BY AppendProperties, LenProperties
      <4> QED BY <4>1, <4>2 DEF Pooled
    <3>5. Kept'
      <4> SUFFICES ASSUME NEW q \in Proxies, cEnd'[q] = "open", cNext'[q] = None
                   PROVE  Pooled(q)' \/ Polled(q)' # {}
        BY DEF Kept
      <4>1. CASE q = p BY <3>4, <4>1
      <4>2. CASE q # p BY <3>1, <3>2, <3>3, <4>2 DEF AInv, Kept, Polled
      <4> QED BY <4>1, <4>2
    <3>6. Attached'
      <4> SUFFICES ASSUME NEW v \in Users, rEnd'[v] = "open"
                   PROVE  /\ cNext'[rNext[v]] = v
                          /\ cEnd'[rNext[v]] \in {"open", "dead"} \/ Unasked(v)'
        BY <3>1 DEF Attached
      <4>1. /\ rEnd[v] = "open" /\ v # cNext[p] /\ cNext[rNext[v]] = v
            /\ cEnd[rNext[v]] \in {"open", "dead"} \/ Unasked(v)
        BY <3>1 DEF AInv, Attached
      <4>2. rNext[v] \in Proxies /\ rNext[v] # p BY <4>1 DEF PInv, BackendOnce
      <4> QED BY <1>s, <2>0, <3>1, <3>2, <4>1, <4>2
    <3> QED BY <3>5, <3>6 DEF AInv
  <2> QED BY <2>1, <2>2
<1>9. ASSUME NEW p \in Proxies, ClientProxyInactive(p), ServerUnchanged PROVE AInv'
  <2>1. /\ cEnd[p] = "dead" /\ cEnd' = [cEnd EXCEPT ![p] = "closed"]
        /\ rEnd' = ClosingReals({cNext[p]}) /\ RemoveProxyChannel(p)
        /\ UNCHANGED <<rNext, cNext, uNext, toS>>
    BY <1>9 DEF ClientProxyInactive, ServerUnchanged, serverVars
  <2>2. \A q \in Proxies : cEnd'[q] = IF q = p THEN "closed" ELSE cEnd[q]
    BY <1>0, <2>1 DEF LinksTypeOK
  <2>3. \A v \in Users : /\ rEnd'[v] = "open" => rEnd[v] = "open" /\ v # cNext[p]
                         /\ rEnd[v] = "polled" => rEnd'[v] = "polled"
    BY <2>1 DEF ClosingReals
  <2>4. ASSUME NEW q \in Proxies, q # p, Pooled(q) PROVE Pooled(q)'
    <3>1. PICK i \in DOMAIN pool : pool[i] = q BY <2>4 DEF Pooled
    <3>2. CASE UNCHANGED pool BY <2>4, <3>2 DEF Pooled
    <3>3. ASSUME NEW j \in DOMAIN pool, pool[j] = p, pool' = Cut(pool, j) PROVE Pooled(q)'
      <4>1. i # j BY <2>4, <3>1, <3>3
      <4>2. /\ pool \in Seq(Proxies) /\ i \in 1..Len(pool) /\ j \in 1..Len(pool)
            /\ \A k, l \in 1..Len(pool) : pool[k] = pool[l] => k = l
        BY <3>1, <3>3, LenProperties DEF PInv, PoolIdle
      <4> HIDE DEF TypeOK, ClientTypeOK
      <4>3. \A k \in 1..Len(pool) : k # j =>
              \E l \in DOMAIN Cut(pool, j) : Cut(pool, j)[l] = pool[k]
        BY <4>2, CutElements, ZenonT(60)
      <4> QED BY <3>1, <3>3, <4>1, <4>2, <4>3 DEF Pooled
    <3> QED BY <2>1, <3>2, <3>3 DEF RemoveProxyChannel, Cut
  <2>5. Kept'
    <3>1. \A q \in Proxies : Polled(q) \subseteq Polled(q)' BY <2>1, <2>3 DEF Polled
    <3>2. \A q \in Proxies : cEnd'[q] = "open" => q # p /\ cEnd[q] = "open" BY <2>2
    <3> QED BY <2>1, <2>4, <3>1, <3>2 DEF AInv, Kept
  <2>6. Attached'
    <3> SUFFICES ASSUME NEW v \in Users, rEnd'[v] = "open"
                 PROVE  /\ cNext[rNext[v]] = v
                        /\ cEnd'[rNext[v]] \in {"open", "dead"} \/ Unasked(v)'
      BY <2>1 DEF Attached
    <3>1. /\ rEnd[v] = "open" /\ v # cNext[p] /\ cNext[rNext[v]] = v
          /\ cEnd[rNext[v]] \in {"open", "dead"} \/ Unasked(v)
      BY <2>3 DEF AInv, Attached
    <3>2. rNext[v] \in Proxies /\ rNext[v] # p BY <3>1 DEF PInv, BackendOnce
    <3> QED BY <1>s, <2>1, <2>2, <3>1, <3>2
  <2> QED BY <2>5, <2>6 DEF AInv
<1> HIDE DEF TypeOK, ClientTypeOK
<1> QED BY <1>1, <1>2, <1>3, <1>4, <1>5, <1>p, <1>6, <1>7, <1>8, <1>9, QuietOrLoud DEF Loud

LEMMA SpecAInv == Spec => []AInv
BY InitAInv, StepAInv, SpecBInv, TypeCorrect, PTL DEF Spec

(* The client loses track of no data connection, and an open backend has   *)
(* one that is bound to it and whose end will close the backend; the only  *)
(* backends without are those of users that were never bound to them.      *)
THEOREM ClientAbandonsNothing == Spec => []NothingAbandoned
<1>1. TypeOK /\ BInv /\ AInv => NothingAbandoned
  <2> SUFFICES ASSUME TypeOK, BInv, AInv PROVE NothingAbandoned OBVIOUS
  <2>1. ASSUME NEW p \in Proxies, cEnd[p] = "open"
        PROVE  /\ cNext[p] = None <=> Pooled(p) \/ Polled(p) # {}
               /\ \A u, v \in Polled(p) : u = v /\ ~Pooled(p)
    <3>1. Pooled(p) => cNext[p] = None BY DEF BInv, PInv, PoolIdle, Pooled
    <3>2. ASSUME NEW u \in Polled(p)
          PROVE  cNext[p] = None /\ ~Pooled(p) /\ \A v \in Polled(p) : v = u
      BY DEF Polled, Pooled, BInv, PInv, PolledIdle
    <3> QED BY <2>1, <3>1, <3>2 DEF AInv, Kept
  <2> QED BY <2>1 DEF AInv, Attached, Unasked, NothingAbandoned
<1> QED BY <1>1, SpecAInv, SpecBInv, TypeCorrect, PTL
------------------------------------------------------------------------------
(* What is on its way stays there until it is read or one end is closed    *)
(* (StepStays); the two theorems below follow CONNECT and DISCONNECT with  *)
(* it from handler to handler.                                             *)
StaysToC(x, m) == Linked(x)' => Linked(x) /\ (Sent(toC[x], m) => Sent(toC[x], m)')
StaysToS(x, m) == Linked(x)' => Linked(x) /\ (Sent(toS[x], m) => Sent(toS[x], m)')

ReadsAtClient(x) == \/ x \in Ctls /\ RecvConnectOnCtl(x)
                    \/ x \in Proxies /\ RecvTransferAtClient(x)
                    \/ x \in Proxies /\ RecvDisconnectAtClient(x)

ReadsAtServer(x) == \/ x \in Ctls /\ (RecvAuth(x) \/ RecvDisconnectOnCtl(x))
                    \/ x \in Proxies /\ \/ BindUser(x) \/ RecvConnectGone(x)
                                        \/ RecvTransferAtServer(x)
                                        \/ RecvDisconnectAtServer(x)

LEMMA SentMore ==
  ASSUME NEW q \in Seq(Message), NEW n \in Message
  PROVE  /\ Sent(Append(q, n), n)
         /\ \A m : Sent(q, m) => Sent(Append(q, n), m)
<1> DEFINE r == Append(q, n)
<1>1. /\ DOMAIN r = 1..Len(q) + 1 /\ DOMAIN q = 1..Len(q) /\ Len(q) \in Nat
      /\ \A k \in DOMAIN q : r[k] = q[k]
      /\ r[Len(q) + 1] = n
  BY AppendedQueue, LenProperties
<1> HIDE DEF r
<1>2. Sent(r, n) BY <1>1 DEF Sent
<1>3. \A m : Sent(q, m) => Sent(r, m) BY <1>1 DEF Sent
<1> QED BY <1>2, <1>3 DEF r

LEMMA SentLess ==
  ASSUME NEW q \in Seq(Message), q # <<>>, NEW m, m # Head(q), Sent(q, m)
  PROVE  Sent(Tail(q), m)
<1> DEFINE r == Tail(q)
<1>1. /\ Len(q) \in Nat \ {0} /\ Len(r) = Len(q) - 1
      /\ DOMAIN q = 1..Len(q) /\ DOMAIN r = 1..Len(q) - 1
      /\ \A k \in DOMAIN r : k + 1 \in DOMAIN q /\ r[k] = q[k + 1]
      /\ 1 \in DOMAIN q /\ Head(q) = q[1]
  BY ReadQueue
<1> HIDE DEF r
<1>2. PICK k \in DOMAIN q : q[k] = m BY DEF Sent
<1>3. k # 1 BY <1>1, <1>2
<1>4. k - 1 \in DOMAIN r /\ (k - 1) + 1 = k BY <1>1, <1>3
<1>5. r[k - 1] = m BY <1>1, <1>2, <1>4
<1> QED BY <1>4, <1>5 DEF Sent, r

(* Writing and reading, seen from one connection.                          *)
LEMMA WriteStays ==
  ASSUME TypeOK, UNCHANGED <<sEnd, cEnd>>, NEW x \in Conns, NEW m
  PROVE  /\ UNCHANGED toC => StaysToC(x, m)
         /\ UNCHANGED toS => StaysToS(x, m)
         /\ \A y \in Conns, n \in Message : SendToC(y, n) => StaysToC(x, m)
         /\ \A y \in Conns, n \in Message : SendToS(y, n) => StaysToS(x, m)
<1>0. Linked(x)' <=> Linked(x) BY DEF Linked
<1>1. toC[x] \in Seq(Message) /\ toS[x] \in Seq(Message) BY DEF TypeOK, LinksTypeOK
<1>2. ASSUME NEW y \in Conns, NEW n \in Message, SendToC(y, n)
      PROVE  toC'[x] = toC[x] \/ toC'[x] = Append(toC[x], n)
  BY <1>2, SentOn DEF TypeOK
<1>3. ASSUME NEW y \in Conns, NEW n \in Message, SendToS(y, n)
      PROVE  toS'[x] = toS[x] \/ toS'[x] = Append(toS[x], n)
  BY <1>3, SentOn DEF TypeOK
<1>4. \A n \in Message : Sent(toC[x], m) => Sent(Append(toC[x], n), m) BY <1>1, SentMore
<1>5. \A n \in Message : Sent(toS[x], m) => Sent(Append(toS[x], n), m) BY <1>1, SentMore
<1>6. ASSUME toC'[x] = toC[x] PROVE Sent(toC[x], m) => Sent(toC[x], m)' BY <1>6 DEF Sent
<1>7. ASSUME toS'[x] = toS[x] PROVE Sent(toS[x], m) => Sent(toS[x], m)' BY <1>7 DEF Sent
<1>8. ASSUME NEW n \in Message, toC'[x] = Append(toC[x], n)
      PROVE  Sent(toC[x], m) => Sent(toC[x], m)'
  BY <1>4, <1>8 DEF Sent
<1>9. ASSUME NEW n \in Message, toS'[x] = Append(toS[x], n)
      PROVE  Sent(toS[x], m) => Sent(toS[x], m)'
  BY <1>5, <1>9 DEF Sent
<1> QED BY <1>0, <1>2, <1>3, <1>6, <1>7, <1>8, <1>9 DEF StaysToC, StaysToS

LEMMA ReadStays ==
  ASSUME TypeOK, UNCHANGED <<sEnd, cEnd>>, NEW x \in Conns, NEW m, NEW y \in Conns
  PROVE  /\ toC[y] # <<>> /\ toC' = Read(toC, y) /\ (x # y \/ Head(toC[y]) # m)
              => StaysToC(x, m)
         /\ toS[y] # <<>> /\ toS' = Read(toS, y) /\ (x # y \/ Head(toS[y]) # m)
              => StaysToS(x, m)
<1>0. Linked(x)' <=> Linked(x) BY DEF Linked
<1>1. toC[x] \in Seq(Message) /\ toS[x] \in Seq(Message) BY DEF TypeOK, LinksTypeOK
<1>2. ASSUME toC[y] # <<>>, toC' = Read(toC, y), x # y \/ Head(toC[y]) # m, Sent(toC[x], m)
      PROVE  Sent(toC[x], m)'
  <2>1. toC'[x] = IF x = y THEN Tail(toC[x]) ELSE toC[x] BY <1>2 DEF Read, TypeOK, LinksTypeOK
  <2>2. CASE x = y
    <3>1. Sent(Tail(toC[x]), m) BY <1>1, <1>2, <2>2, SentLess
    <3>2. toC'[x] = Tail(toC[x]) BY <2>1, <2>2
    <3> QED BY <3>1, <3>2 DEF Sent
  <2>3. CASE x # y BY <1>2, <2>1, <2>3 DEF Sent
  <2> QED BY <2>2, <2>3
<1>3. ASSUME toS[y] # <<>>, toS' = Read(toS, y), x # y \/ Head(toS[y]) # m, Sent(toS[x], m)
      PROVE  Sent(toS[x], m)'
  <2>1. toS'[x] = IF x = y THEN Tail(toS[x]) ELSE toS[x] BY <1>3 DEF Read, TypeOK, LinksTypeOK
  <2>2. CASE x = y
    <3>1. Sent(Tail(toS[x]), m) BY <1>1, <1>3, <2>2, SentLess
    <3>2. toS'[x] = Tail(toS[x]) BY <2>1, <2>2
    <3> QED BY <3>1, <3>2 DEF Sent
  <2>3. CASE x # y BY <1>3, <2>1, <2>3 DEF Sent
  <2> QED BY <2>2, <2>3
<1> QED BY <1>0, <1>2, <1>3 DEF StaysToC, StaysToS

(* A step that leaves the queues of the others alone and breaks or opens   *)
(* the link of one connection.                                             *)
LEMMA EndStays ==
  ASSUME NEW x \in Conns, NEW m, NEW y,
         ~Linked(y)' \/ sEnd[y] = "unused", sEnd[x] # "unused",
         x # y => /\ sEnd'[x] = sEnd[x] /\ cEnd'[x] = cEnd[x]
                  /\ toC'[x] = toC[x] /\ toS'[x] = toS[x]
  PROVE  StaysToC(x, m) /\ StaysToS(x, m)
<1>1. CASE x = y BY <1>1 DEF StaysToC, StaysToS
<1>2. CASE x # y BY <1>2 DEF StaysToC, StaysToS, Linked, Sent
<1> QED BY <1>1, <1>2

(* Every step writes to one connection, reads one, or opens or closes one. *)
Writes == /\ UNCHANGED <<sEnd, cEnd>>
          /\ UNCHANGED toC \/ \E y \in Conns, n \in Message : SendToC(y, n)
          /\ UNCHANGED toS \/ \E y \in Conns, n \in Message : SendToS(y, n)

Reads(y) == /\ UNCHANGED <<sEnd, cEnd>>
            /\ \/ UNCHANGED toC
               \/ ReadsAtClient(y) /\ toC[y] # <<>> /\ toC' = Read(toC, y)
            /\ \/ UNCHANGED toS
               \/ ReadsAtServer(y) /\ toS[y] # <<>> /\ toS' = Read(toS, y)

Turns(y) == /\ ~Linked(y)' \/ sEnd[y] = "unused"
            /\ \A x \in Conns : x # y => /\ sEnd'[x] = sEnd[x] /\ cEnd'[x] = cEnd[x]
                                        /\ toC'[x] = toC[x] /\ toS'[x] = toS[x]

LinkMoves == Writes \/ \E y \in Conns : Reads(y) \/ Turns(y)

LEMMA UserStepMoves ==
  ASSUME TypeOK, NEW u \in Users,
         \/ UserRefused(u) \/ UserActive(u) \/ UserRead(u)
         \/ UserInactive(u) \/ UserInactiveUnrouted(u)
  PROVE  Writes
<1> USE DEF TypeOK, ServerTypeOK
<1>0. Proxies \subseteq Conns /\ Ctls \subseteq Conns BY DEF Conns
<1>1. CASE UserRefused(u) \/ UserInactiveUnrouted(u)
  BY <1>1 DEF UserRefused, UserInactiveUnrouted, linkVars, Writes
<1>2. CASE UserActive(u)
  <2>1. portCmd \in Conns /\ ConnectMsg(u) \in Message /\ SendToC(portCmd, ConnectMsg(u))
        /\ UNCHANGED <<sEnd, cEnd, toS>>
    BY <1>0, <1>2, MessageTypes DEF UserActive
  <2> QED BY <2>1 DEF Writes
<1>3. CASE UserRead(u)
  <2>1. uSent[u] + 1 \in Nat OBVIOUS
  <2>2. uNext[u] \in Conns /\ TransferMsg(u, uSent[u] + 1) \in Message
    BY <1>0, <1>3, <2>1, MessageTypes DEF UserRead
  <2>3. SendToC(uNext[u], TransferMsg(u, uSent[u] + 1)) /\ UNCHANGED <<sEnd, cEnd, toS>>
    BY <1>3 DEF UserRead
  <2> QED BY <2>2, <2>3 DEF Writes
<1>4. CASE UserInactive(u)
  <2>1. DisconnectMsg(u) \in Message BY MessageTypes
  <2>2. UNCHANGED toC \/ (uNext[u] \in Conns /\ SendToC(uNext[u], DisconnectMsg(u)))
    BY <1>0, <1>4 DEF UserInactive, ReleaseProxy
  <2>3. UNCHANGED <<sEnd, cEnd, toS>> BY <1>4 DEF UserInactive
  <2> QED BY <2>1, <2>2, <2>3 DEF Writes
<1> QED BY <1>1, <1>2, <1>3, <1>4

LEMMA BackendStepMoves ==
  ASSUME TypeOK, PInv, NEW u \in Users,
         \/ RealFailed(u) \/ RealConnectedPooled(u) \/ BindPolled(u) \/ RealConnectedNew(u)
         \/ (\E p \in Proxies : ProxyConnected(u, p)) \/ ProxyFailed(u)
         \/ RealRead(u) \/ RealInactive(u)
  PROVE  LinkMoves
<1> USE DEF TypeOK, ClientTypeOK
<1>0. Proxies \subseteq Conns /\ Ctls \subseteq Conns BY DEF Conns
<1>1. /\ ConnectMsg(u) \in Message /\ DisconnectMsg(u) \in Message
      /\ TransferMsg(u, rSent[u] + 1) \in Message
  <2>1. rSent[u] + 1 \in Nat OBVIOUS
  <2> QED BY <2>1, MessageTypes
<1>2. CASE RealFailed(u) \/ ProxyFailed(u)
  <2>1. rCtl[u] \in Conns BY <1>0, <1>2 DEF RealFailed, ProxyFailed, PInv, BackendOnce
  <2>2. SendToS(rCtl[u], DisconnectMsg(u)) /\ UNCHANGED <<sEnd, cEnd, toC>>
    BY <1>2 DEF RealFailed, ProxyFailed, TellFailed
  <2>3. Writes BY <1>1, <2>1, <2>2 DEF Writes
  <2> QED BY <2>3 DEF LinkMoves
<1>3. CASE RealRead(u) \/ RealInactive(u)
  <2>1. rNext[u] \in Conns BY <1>0, <1>3 DEF RealRead, RealInactive, PInv, BackendOnce
  <2>2. /\ \/ SendToS(rNext[u], DisconnectMsg(u))
           \/ SendToS(rNext[u], TransferMsg(u, rSent[u] + 1))
        /\ UNCHANGED <<sEnd, cEnd, toC>>
    BY <1>3 DEF RealRead, RealInactive
  <2>3. Writes BY <1>1, <2>1, <2>2 DEF Writes
  <2> QED BY <2>3 DEF LinkMoves
<1>4. CASE RealConnectedNew(u) \/ RealConnectedPooled(u)
  BY <1>4 DEF RealConnectedNew, RealConnectedPooled, linkVars, Writes, LinkMoves
<1>5. CASE BindPolled(u)
  <2>1. rNext[u] \in Conns BY <1>0, <1>5 DEF BindPolled, PInv, BackendOnce
  <2>2. SendToS(rNext[u], ConnectMsg(u)) /\ UNCHANGED <<sEnd, cEnd, toC>>
    BY <1>5 DEF BindPolled
  <2>3. Writes BY <1>1, <2>1, <2>2 DEF Writes
  <2> QED BY <2>3 DEF LinkMoves
<1>6. ASSUME NEW p \in Proxies, ProxyConnected(u, p) PROVE LinkMoves
  <2>1. Turns(p) BY <1>6 DEF ProxyConnected, Turns, LinksTypeOK
  <2> QED BY <1>0, <2>1 DEF LinkMoves
<1> QED BY <1>2, <1>3, <1>4, <1>5, <1>6

LEMMA ServerStepMoves ==
  ASSUME TypeOK
  PROVE  /\ \A c \in Ctls : ServerCtlHandler(c) => LinkMoves
         /\ \A p \in Proxies : ServerProxyHandler(p) => LinkMoves
<1> USE DEF TypeOK, LinksTypeOK
<1>0. Proxies \subseteq Conns /\ Ctls \subseteq Conns BY DEF Conns
<1>1. ASSUME NEW c \in Ctls, RecvAuth(c) \/ RecvDisconnectOnCtl(c) PROVE LinkMoves
  <2>1. Reads(c)
    BY <1>1 DEF RecvAuth, RecvDisconnectOnCtl, AtServer, Reads, ReadsAtServer
  <2> QED BY <1>0, <2>1 DEF LinkMoves
<1>2. ASSUME NEW c \in Ctls, RecvAuthRefused(c) \/ ServerCtlInactive(c) PROVE LinkMoves
  <2>1. Turns(c)
    BY <1>0, <1>2 DEF RecvAuthRefused, ServerCtlInactive, Turns, CloseEnd, Dropped, Linked
  <2> QED BY <1>0, <2>1 DEF LinkMoves
<1>3. ASSUME NEW p \in Proxies,
             \/ BindUser(p) \/ RecvConnectGone(p) \/ RecvTransferAtServer(p)
             \/ RecvDisconnectAtServer(p)
      PROVE  LinkMoves
  <2>1. Reads(p)
    BY <1>3 DEF BindUser, RecvConnectGone, RecvTransferAtServer, RecvDisconnectAtServer,
       AtServer, Reads, ReadsAtServer
  <2> QED BY <1>0, <2>1 DEF LinkMoves
<1>4. ASSUME NEW p \in Proxies, RecvConnectNoCtl(p) \/ ServerProxyInactive(p) PROVE LinkMoves
  <2>1. Turns(p)
    BY <1>0, <1>4 DEF RecvConnectNoCtl, ServerProxyInactive, Turns, CloseEnd, Dropped, Linked
  <2> QED BY <1>0, <2>1 DEF LinkMoves
<1>5. ASSUME NEW p \in Proxies, GetUser(p) PROVE LinkMoves
  BY <1>5 DEF GetUser, linkVars, Writes, LinkMoves
<1> QED BY <1>1, <1>2, <1>3, <1>4, <1>5 DEF ServerCtlHandler, ServerProxyHandler

LEMMA ClientStepMoves ==
  ASSUME TypeOK
  PROVE  /\ \A c \in Ctls : ClientCtlHandler(c) => LinkMoves
         /\ \A p \in Proxies : ClientProxyHandler(p) => LinkMoves
<1> USE DEF TypeOK, LinksTypeOK
<1>0. Proxies \subseteq Conns /\ Ctls \subseteq Conns BY DEF Conns
<1>1. ASSUME NEW c \in Ctls, RecvConnectOnCtl(c) PROVE LinkMoves
  <2>1. Reads(c) BY <1>1 DEF RecvConnectOnCtl, AtClient, Reads, ReadsAtClient
  <2> QED BY <1>0, <2>1 DEF LinkMoves
<1>2. ASSUME NEW c \in Ctls, CtlConnect(c) \/ ClientCtlInactive(c) PROVE LinkMoves
  <2>1. Turns(c) BY <1>0, <1>2 DEF CtlConnect, ClientCtlInactive, Turns, Linked
  <2> QED BY <1>0, <2>1 DEF LinkMoves
<1>3. ASSUME NEW p \in Proxies, RecvTransferAtClient(p) PROVE LinkMoves
  <2>1. Reads(p) BY <1>3 DEF RecvTransferAtClient, AtClient, Reads, ReadsAtClient
  <2> QED BY <1>0, <2>1 DEF LinkMoves
<1>4. ASSUME NEW p \in Proxies, RecvDisconnectAtClient(p) PROVE LinkMoves
  <2>1. UNCHANGED <<sEnd, toS>> /\ toC[p] # <<>> BY <1>4 DEF RecvDisconnectAtClient, AtClient
  <2>2. \/ toC' = Read(toC, p) /\ cEnd' = cEnd
        \/ toC' = Dropped(toC, p) /\ cEnd' = CloseEnd(cEnd, p)
    BY <1>4 DEF RecvDisconnectAtClient, ReturnProxyChannel
  <2>3. CASE toC' = Read(toC, p) /\ cEnd' = cEnd
    <3>1. Reads(p) BY <1>4, <2>1, <2>3 DEF Reads, ReadsAtClient
    <3> QED BY <1>0, <3>1 DEF LinkMoves
  <2>4. CASE toC' = Dropped(toC, p) /\ cEnd' = CloseEnd(cEnd, p)
    <3>1. Turns(p) BY <1>0, <2>1, <2>4 DEF Turns, CloseEnd, Dropped, Linked
    <3> QED BY <1>0, <3>1 DEF LinkMoves
  <2> QED BY <2>2, <2>3, <2>4
<1>5. ASSUME NEW p \in Proxies, ClientProxyInactive(p) PROVE LinkMoves
  <2>1. Turns(p) BY <1>0, <1>5 DEF ClientProxyInactive, Turns, Linked
  <2> QED BY <1>0, <2>1 DEF LinkMoves
<1> QED BY <1>1, <1>2, <1>3, <1>4, <1>5 DEF ClientCtlHandler, ClientProxyHandler

LEMMA StepMoves == ASSUME TypeOK, PInv, [Next]_vars PROVE LinkMoves
<1>1. ASSUME NEW u \in Users, ServerUserHandler(u) \/ UserStep(u) PROVE LinkMoves
  BY <1>1, UserStepMoves DEF ServerUserHandler, UserStep, LinkMoves
<1>2. ASSUME NEW u \in Users, BackendHandler(u) \/ BackendStep(u) PROVE LinkMoves
  BY <1>2, BackendStepMoves DEF BackendHandler, BackendStep
<1>3. ASSUME NEW x \in Conns,
             ServerEof(x) \/ ClientEof(x) \/ ServerBreak(x) \/ ClientBreak(x)
      PROVE  LinkMoves
  <2>1. Turns(x)
    BY <1>3 DEF ServerEof, ClientEof, ServerBreak, ClientBreak, Turns, CloseEnd, Dropped,
       Linked, TypeOK, LinksTypeOK
  <2> QED BY <2>1 DEF LinkMoves
<1>4. CASE UNCHANGED linkVars BY <1>4 DEF linkVars, LinkMoves, Writes
<1>5. CASE EventLoops
  BY <1>1, <1>2, <1>3, <1>5, ServerStepMoves, ClientStepMoves DEF EventLoops, EofStep
<1>6. CASE ConfigStep
  BY <1>4, <1>6 DEF ConfigStep, PortRevoked, PortGranted, LanChanged
<1> QED BY <1>1, <1>2, <1>3, <1>4, <1>5, <1>6 DEF Next, BreakStep, vars

LEMMA StepStays ==
  ASSUME TypeOK, PInv, [Next]_vars, NEW x \in Conns, sEnd[x] # "unused", NEW m
  PROVE  /\ StaysToC(x, m) \/ (ReadsAtClient(x) /\ Head(toC[x]) = m)
         /\ StaysToS(x, m) \/ (ReadsAtServer(x) /\ Head(toS[x]) = m)
<1>1. CASE Writes BY <1>1, WriteStays DEF Writes
<1>2. ASSUME NEW y \in Conns, Reads(y)
      PROVE  /\ StaysToC(x, m) \/ (ReadsAtClient(x) /\ Head(toC[x]) = m)
             /\ StaysToS(x, m) \/ (ReadsAtServer(x) /\ Head(toS[x]) = m)
  BY <1>2, WriteStays, ReadStays DEF Reads
<1>3. ASSUME NEW y \in Conns, Turns(y) PROVE StaysToC(x, m) /\ StaysToS(x, m)
  BY <1>3, EndStays DEF Turns
<1> QED BY <1>1, <1>2, <1>3, StepMoves DEF LinkMoves
------------------------------------------------------------------------------
(* What an open user waits for comes through the registered connection:    *)
(* the strengthening that makes WaitingUserPending inductive.              *)
CurrentSession ==
  /\ \A u \in Users : rEnd[u] = "unused" => rCtl[u] = None
  /\ \A u \in Users : uEnd[u] = "open" =>
       /\ \A c \in Ctls : u \in Asked(toC[c]) => c = cmd
       /\ rCtl[u] # None => rCtl[u] = cmd

WInv == CurrentSession /\ WaitingUserPending

LEMMA InitWInv == Init => WInv
<1> SUFFICES ASSUME Init PROVE WInv OBVIOUS
<1> QED BY DEF Init, ServerInit, ClientInit, WInv, CurrentSession, WaitingUserPending

(* A link that was made is never made again.                               *)
LEMMA LinkedBefore ==
  ASSUME TypeOK, PInv, [Next]_vars, NEW x \in Conns, sEnd[x] # "unused", Linked(x)'
  PROVE  Linked(x)
BY StepMoves DEF LinkMoves, Writes, Reads, Turns, Linked

(* Only UserActive opens a user, and no user stays open when the           *)
(* registered connection changes.                                          *)
LEMMA OpenStep ==
  ASSUME TypeOK, SInv, SInv', [Next]_vars, NEW u \in Users, uEnd'[u] = "open"
  PROVE  \/ uEnd[u] = "open" /\ cmd' = cmd
         \/ uEnd[u] = "unused" /\ UserActive(u)
<1> USE DEF TypeOK, ServerTypeOK
<1>1. CASE ServerUnchanged \/ UNCHANGED vars
  BY <1>1 DEF ServerUnchanged, serverVars, vars
<1>2. ASSUME NEW v \in Users, ServerUserHandler(v) \/ UserStep(v)
      PROVE  (uEnd[u] = "open" /\ cmd' = cmd) \/ (uEnd[u] = "unused" /\ UserActive(u))
  BY <1>2 DEF ServerUserHandler, UserStep, UserRefused, UserActive, UserRead, UserInactive,
     UserInactiveUnrouted
<1>3. ASSUME NEW c \in Ctls, ServerCtlHandler(c) PROVE uEnd[u] = "open" /\ cmd' = cmd
  <2>1. cmd' # None BY DEF SInv, OpenUserSupervised
  <2>2. uEnd[u] = "open"
    BY <1>3 DEF ServerCtlHandler, RecvAuth, RecvAuthRefused, RecvDisconnectOnCtl,
       ServerCtlInactive, SweptUsers, ClosingUsers, serverVars
  <2>3. cmd # None BY <2>2 DEF SInv, OpenUserSupervised
  <2>4. CASE RecvAuth(c) BY <2>3, <2>4 DEF RecvAuth
  <2>5. CASE RecvAuthRefused(c) \/ RecvDisconnectOnCtl(c)
    BY <2>2, <2>5 DEF RecvAuthRefused, RecvDisconnectOnCtl, serverVars
  <2>6. CASE ServerCtlInactive(c)
    <3>1. c \in registered => cmd = c BY <2>6 DEF ServerCtlInactive, SInv, RegisteredIsCmd
    <3> QED BY <2>1, <2>2, <2>6, <3>1 DEF ServerCtlInactive
  <2> QED BY <1>3, <2>4, <2>5, <2>6 DEF ServerCtlHandler
<1>4. ASSUME NEW p \in Proxies, ServerProxyHandler(p) PROVE uEnd[u] = "open" /\ cmd' = cmd
  BY <1>4 DEF ServerProxyHandler, GetUser, BindUser, RecvConnectNoCtl, RecvConnectGone,
     RecvTransferAtServer, RecvDisconnectAtServer, ServerProxyInactive, ClosingUsers, serverVars
<1>5. CASE ConfigStep
  BY <1>5 DEF ConfigStep, PortRevoked, PortGranted, LanChanged, CheckAndClearUsers, ClosingUsers
<1> QED BY <1>1, <1>2, <1>3, <1>4, <1>5
        DEF Next, EventLoops, BackendHandler, ClientCtlHandler, ClientProxyHandler, EofStep,
            BackendStep, BreakStep

(* CONNECT reaches a control connection only by channelActive of a user.   *)
LEMMA AskedStep ==
  ASSUME TypeOK, [Next]_vars, NEW c \in Ctls, NEW u \in Users, u \in Asked(toC'[c])
  PROVE  u \in Asked(toC[c]) \/ (UserActive(u) /\ c = portCmd)
<1>0. /\ toC[c] \in Seq(Message) /\ c \in Conns /\ Ctls \subseteq Conns
      /\ Proxies \subseteq Conns /\ c \notin Proxies /\ c # None
  BY LinksAssumption DEF TypeOK, LinksTypeOK, Conns
<1>1. CASE AskedQuietly BY <1>1, AskedEmpty DEF AskedQuietly
<1>2. ASSUME NEW v \in Users, UserActive(v)
      PROVE  u \in Asked(toC[c]) \/ (UserActive(u) /\ c = portCmd)
  <2>1. portCmd \in Ctls /\ SendToC(portCmd, ConnectMsg(v))
    BY <1>2 DEF UserActive, TypeOK, ServerTypeOK
  <2>2. toC'[c] = toC[c] \/ (c = portCmd /\ toC'[c] = Append(toC[c], ConnectMsg(v)))
    BY <1>0, <2>1, SentOn DEF TypeOK
  <2>3. Asked(Append(toC[c], ConnectMsg(v))) = Asked(toC[c]) \cup {v} BY <1>0, AskedMore
  <2> QED BY <1>2, <2>2, <2>3
<1>3. ASSUME NEW v \in Users, UserRead(v) \/ UserInactive(v) PROVE toC'[c] = toC[c]
  <2>1. UNCHANGED toC \/ \E p \in Proxies : \E m : SendToC(p, m)
    BY <1>3 DEF UserRead, UserInactive, ReleaseProxy, TypeOK, ServerTypeOK
  <2> QED BY <1>0, <2>1, SentOn DEF TypeOK
<1>4. ASSUME NEW p \in Proxies,
             \/ BindUser(p) \/ RecvTransferAtClient(p) \/ RecvDisconnectAtClient(p)
             \/ ClientProxyInactive(p)
      PROVE  toC'[c] = toC[c]
  BY <1>0, <1>4 DEF BindUser, RecvTransferAtClient, RecvDisconnectAtClient,
     ReturnProxyChannel, ClientProxyInactive, Read, Dropped, TypeOK, LinksTypeOK
<1>5. ASSUME NEW d \in Ctls, RecvConnectOnCtl(d) PROVE u \in Asked(toC[c])
  <2>1. toC[d] # <<>> /\ toC' = Read(toC, d) BY <1>5 DEF RecvConnectOnCtl, AtClient
  <2>2. toC'[c] = IF c = d THEN Tail(toC[c]) ELSE toC[c]
    BY <1>0, <2>1 DEF Read, TypeOK, LinksTypeOK
  <2>3. CASE c = d
    <3>1. Asked(Tail(toC[c])) \subseteq Asked(toC[c]) BY <1>0, <2>1, <2>3, AskedLess
    <3> QED BY <2>2, <2>3, <3>1
  <2>4. CASE c # d BY <2>2, <2>4
  <2> QED BY <2>3, <2>4
<1>6. ASSUME NEW v \in Users,
             \/ RealConnectedPooled(v) \/ BindPolled(v)
             \/ \E p \in Proxies : ProxyConnected(v, p)
      PROVE  toC' = toC
  BY <1>6 DEF RealConnectedPooled, BindPolled, ProxyConnected, linkVars
<1> QED BY <1>1, <1>2, <1>3, <1>4, <1>5, <1>6, QuietOrLoud DEF Loud

(* What one step may do to the backend of one user.                        *)
LEMMA BackendMoves ==
  ASSUME TypeOK, [Next]_vars, NEW u \in Users
  PROVE  /\ rEnd'[u] = "unused" => rEnd[u] = "unused" /\ rCtl'[u] = rCtl[u]
         /\ \/ rCtl'[u] = rCtl[u]
            \/ \E c \in Ctls : RecvConnectOnCtl(c) /\ Head(toC[c]).user = u /\ rCtl'[u] = c
         /\ rEnd[u] \in {"connecting", "polled", "borrowing"} =>
              \/ rEnd'[u] \in {"connecting", "polled", "borrowing"}
              \/ RealFailed(u) \/ ProxyFailed(u) \/ BindPolled(u)
              \/ \E p \in Proxies : ProxyConnected(u, p)
         /\ \/ rNext'[u] = rNext[u]
            \/ rEnd[u] \in {"connecting", "polled", "borrowing"}
<1> DEFINE Moves ==
      /\ rEnd'[u] = "unused" => rEnd[u] = "unused" /\ rCtl'[u] = rCtl[u]
      /\ \/ rCtl'[u] = rCtl[u]
         \/ \E c \in Ctls : RecvConnectOnCtl(c) /\ Head(toC[c]).user = u /\ rCtl'[u] = c
      /\ rEnd[u] \in {"connecting", "polled", "borrowing"} =>
           \/ rEnd'[u] \in {"connecting", "polled", "borrowing"}
           \/ RealFailed(u) \/ ProxyFailed(u) \/ BindPolled(u)
           \/ \E p \in Proxies : ProxyConnected(u, p)
      /\ \/ rNext'[u] = rNext[u]
         \/ rEnd[u] \in {"connecting", "polled", "borrowing"}
<1> USE DEF TypeOK, ClientTypeOK
<1>1. CASE ClientUnchanged \/ UNCHANGED vars
  BY <1>1 DEF ClientUnchanged, clientVars, vars
<1>2. ASSUME NEW v \in Users, BackendHandler(v) \/ BackendStep(v) PROVE Moves
  <2>1. CASE RealFailed(v) BY <2>1 DEF RealFailed
  <2>2. CASE RealConnectedNew(v) BY <2>2 DEF RealConnectedNew
  <2>3. CASE ProxyFailed(v) BY <2>3 DEF ProxyFailed
  <2>4. CASE RealRead(v) BY <2>4 DEF RealRead
  <2>5. CASE RealInactive(v) BY <2>5 DEF RealInactive
  <2>6. CASE RealConnectedPooled(v) BY <2>6 DEF RealConnectedPooled
  <2>7. ASSUME NEW p \in Proxies, ProxyConnected(v, p) PROVE Moves
    BY <2>7 DEF ProxyConnected, Bind
  <2>8. CASE BindPolled(v) BY <2>8 DEF BindPolled, Bind
  <2> QED BY <1>2, <2>1, <2>2, <2>3, <2>4, <2>5, <2>6, <2>7, <2>8 DEF BackendHandler, BackendStep
<1>3. ASSUME NEW c \in Ctls, ClientCtlHandler(c) PROVE Moves
  BY <1>3 DEF ClientCtlHandler, CtlConnect, RecvConnectOnCtl, ClientCtlInactive, ClosingReals
<1>4. ASSUME NEW p \in Proxies, ClientProxyHandler(p) PROVE Moves
  BY <1>4 DEF ClientProxyHandler, RecvTransferAtClient, RecvDisconnectAtClient,
     ClientProxyInactive, ClosingReals
<1> HIDE DEF Moves
<1>5. Moves
  <2>1. CASE ClientUnchanged \/ UNCHANGED vars BY <1>1, <2>1 DEF Moves
  <2> QED BY <1>2, <1>3, <1>4, <2>1
          DEF Next, EventLoops, UserStep, ConfigStep, BreakStep, EofStep, ServerUserHandler,
              ServerCtlHandler, ServerProxyHandler
<1> QED BY <1>5 DEF Moves

LEMMA StepCurrent ==
  ASSUME TypeOK, SInv, SInv', PInv, CurrentSession, [Next]_vars
  PROVE  CurrentSession'
<1>1. ASSUME NEW u \in Users, rEnd'[u] = "unused" PROVE rCtl'[u] = None
  BY <1>1, BackendMoves DEF CurrentSession
<1>2. ASSUME NEW u \in Users, uEnd'[u] = "open", NEW c \in Ctls, u \in Asked(toC'[c])
      PROVE  c = cmd'
  <2>1. CASE uEnd[u] = "open" /\ cmd' = cmd
    <3>1. ~UserActive(u) BY <2>1 DEF UserActive
    <3> QED BY <1>2, <2>1, <3>1, AskedStep DEF CurrentSession
  <2>2. CASE uEnd[u] = "unused" /\ UserActive(u)
    <3>1. u \notin Asked(toC[c]) BY <2>2 DEF PInv, AskedBackend
    <3>2. c = portCmd BY <1>2, <3>1, AskedStep
    <3>3. portCmd = cmd /\ cmd' = cmd BY <2>2 DEF UserActive, SInv, RouteIsRegistered
    <3> QED BY <3>2, <3>3
  <2> QED BY <1>2, <2>1, <2>2, OpenStep
<1>3. ASSUME NEW u \in Users, uEnd'[u] = "open", rCtl'[u] # None PROVE rCtl'[u] = cmd'
  <2>1. CASE uEnd[u] = "open" /\ cmd' = cmd
    <3>1. CASE rCtl'[u] = rCtl[u] BY <1>3, <2>1, <3>1 DEF CurrentSession
    <3>2. ASSUME NEW c \in Ctls, RecvConnectOnCtl(c), Head(toC[c]).user = u, rCtl'[u] = c
          PROVE  rCtl'[u] = cmd'
      <4>1. toC[c] \in Seq(Message) /\ toC[c] # <<>> /\ Head(toC[c]).type = "connect"
        BY <3>2 DEF RecvConnectOnCtl, AtClient, TypeOK, LinksTypeOK, Conns
      <4>2. u \in Asked(toC[c]) BY <3>2, <4>1, AskedLess
      <4> QED BY <2>1, <3>2, <4>2 DEF CurrentSession
    <3> QED BY <3>1, <3>2, BackendMoves
  <2>2. CASE uEnd[u] = "unused" /\ UserActive(u)
    <3>1. rCtl[u] = None BY <2>2 DEF PInv, BackendOnce, CurrentSession
    <3>2. \A c \in Ctls : u \notin Asked(toC[c]) BY <2>2 DEF PInv, AskedBackend
    <3>3. \A c \in Ctls : RecvConnectOnCtl(c) => Head(toC[c]).user \in Asked(toC[c])
      <4> SUFFICES ASSUME NEW c \in Ctls, RecvConnectOnCtl(c)
                   PROVE  Head(toC[c]).user \in Asked(toC[c])
        OBVIOUS
      <4>1. toC[c] \in Seq(Message) /\ toC[c] # <<>> /\ Head(toC[c]).type = "connect"
        BY DEF RecvConnectOnCtl, AtClient, TypeOK, LinksTypeOK, Conns
      <4> QED BY <4>1, AskedLess
    <3> QED BY <1>3, <3>1, <3>2, <3>3, BackendMoves
  <2> QED BY <1>3, <2>1, <2>2, OpenStep
<1> QED BY <1>1, <1>2, <1>3 DEF CurrentSession

(* The body of WaitingUserPending, for one user.                           *)
Pending(u) ==
  \/ ~Linked(cmd)
  \/ Sent(toC[cmd], ConnectMsg(u))
  \/ rEnd[u] \in {"connecting", "polled", "borrowing"}
  \/ Sent(toS[cmd], DisconnectMsg(u))
  \/ /\ rNext[u] # None
     /\ ~Linked(rNext[u]) \/ Sent(toS[rNext[u]], ConnectMsg(u))

(* channelActive: CONNECT is on its way, or the connection just broke.     *)
LEMMA AskedPending ==
  ASSUME TypeOK, SInv, NEW u \in Users, UserActive(u)
  PROVE  Pending(u)'
<1>1. PICK c \in Ctls : c = cmd /\ c = portCmd
  BY DEF UserActive, SInv, RouteIsRegistered, TypeOK, ServerTypeOK
<1>2. c \in Conns /\ toC[c] \in Seq(Message) /\ ConnectMsg(u) \in Message
  BY MessageTypes DEF Conns, TypeOK, LinksTypeOK
<1>3. /\ SendToC(c, ConnectMsg(u)) /\ cmd' = c
      /\ sEnd' = sEnd /\ cEnd' = cEnd
  BY <1>1 DEF UserActive
<1>4. toC'[c] = IF Linked(c) THEN Append(toC[c], ConnectMsg(u)) ELSE toC[c]
  BY <1>2, <1>3, SentOn DEF TypeOK
<1>5. CASE Linked(c)
  <2>1. Sent(Append(toC[c], ConnectMsg(u)), ConnectMsg(u)) BY <1>2, SentMore
  <2>2. Sent(toC'[cmd'], ConnectMsg(u)) BY <1>3, <1>4, <1>5, <2>1
  <2> QED BY <2>2 DEF Pending, Sent
<1>6. CASE ~Linked(c) BY <1>3, <1>6 DEF Pending, Linked
<1> QED BY <1>5, <1>6

(* The connect callbacks: a data connection gets the CONNECT, or the       *)
(* control connection the DISCONNECT.                                      *)
LEMMA FailedPending ==
  ASSUME TypeOK, PInv, CurrentSession, NEW u \in Users, uEnd[u] = "open", cmd' = cmd,
         RealFailed(u) \/ ProxyFailed(u)
  PROVE  Pending(u)'
<1>1. PICK c \in Ctls : c = cmd /\ c = rCtl[u]
  BY DEF RealFailed, ProxyFailed, PInv, BackendOnce, CurrentSession, TypeOK, ClientTypeOK
<1>2. c \in Conns /\ toS[c] \in Seq(Message) /\ DisconnectMsg(u) \in Message
  BY MessageTypes DEF Conns, TypeOK, LinksTypeOK
<1>3. /\ SendToS(c, DisconnectMsg(u)) /\ cmd' = c
      /\ sEnd' = sEnd /\ cEnd' = cEnd
  BY <1>1 DEF RealFailed, ProxyFailed, TellFailed
<1>4. toS'[c] = IF Linked(c) THEN Append(toS[c], DisconnectMsg(u)) ELSE toS[c]
  BY <1>2, <1>3, SentOn DEF TypeOK
<1>5. CASE Linked(c)
  <2>1. Sent(Append(toS[c], DisconnectMsg(u)), DisconnectMsg(u)) BY <1>2, SentMore
  <2>2. Sent(toS'[cmd'], DisconnectMsg(u)) BY <1>3, <1>4, <1>5, <2>1
  <2> QED BY <2>2 DEF Pending, Sent
<1>6. CASE ~Linked(c) BY <1>3, <1>6 DEF Pending, Linked
<1> QED BY <1>5, <1>6

LEMMA BoundPending ==
  ASSUME TypeOK, PInv, NEW u \in Users,
         BindPolled(u) \/ \E p \in Proxies : ProxyConnected(u, p)
  PROVE  Pending(u)'
<1>0. ConnectMsg(u) \in Message BY MessageTypes
<1>1. CASE BindPolled(u)
  <2>1. PICK p \in Proxies : p = rNext[u]
    BY <1>1 DEF BindPolled, PInv, BackendOnce, TypeOK, ClientTypeOK
  <2>2. p \in Conns /\ toS[p] \in Seq(Message) /\ p # None
    BY LinksAssumption DEF Conns, TypeOK, LinksTypeOK
  <2>3. SendToS(p, ConnectMsg(u)) /\ rNext'[u] = p /\ sEnd' = sEnd /\ cEnd' = cEnd
    BY <1>1, <2>1 DEF BindPolled, Bind, TypeOK, ClientTypeOK
  <2>4. toS'[p] = IF Linked(p) THEN Append(toS[p], ConnectMsg(u)) ELSE toS[p]
    BY <2>2, <2>3, SentOn DEF TypeOK
  <2>5. CASE Linked(p)
    <3>1. Sent(Append(toS[p], ConnectMsg(u)), ConnectMsg(u)) BY <1>0, <2>2, SentMore
    <3>2. Sent(toS'[rNext'[u]], ConnectMsg(u)) BY <2>3, <2>4, <2>5, <3>1
    <3> QED BY <2>2, <2>3, <3>2 DEF Pending, Sent
  <2>6. CASE ~Linked(p) BY <2>2, <2>3, <2>6 DEF Pending, Linked
  <2> QED BY <2>5, <2>6
<1>2. ASSUME NEW p \in Proxies, ProxyConnected(u, p) PROVE Pending(u)'
  <2>1. p # None /\ rNext'[u] = p /\ toS'[p] = <<ConnectMsg(u)>>
    BY <1>2, LinksAssumption DEF ProxyConnected, Bind, TypeOK, ClientTypeOK, LinksTypeOK, Conns
  <2>2. Sent(toS'[rNext'[u]], ConnectMsg(u)) BY <2>1 DEF Sent
  <2> QED BY <2>1, <2>2 DEF Pending, Sent
<1> QED BY <1>1, <1>2

LEMMA StillPending ==
  ASSUME TypeOK, SInv, BInv, CurrentSession, [Next]_vars, NEW u \in Users,
         uEnd[u] = "open", uEnd'[u] = "open", uNext'[u] = None, cmd' = cmd, Pending(u)
  PROVE  Pending(u)'
<1>0. TypeOK /\ PInv /\ SupervisedOnce BY DEF BInv
<1>1. PICK c \in Ctls : c = cmd /\ u \in userChannels[c] /\ sEnd[c] # "unused"
  BY DEF SInv, OpenUserSupervised, RegisteredIsCmd, TypeOK, ServerTypeOK
<1>2. c \in Conns /\ c \notin Proxies BY <1>1, LinksAssumption DEF Conns
<1>3. SUFFICES ASSUME Linked(c)' PROVE Pending(u)'
  BY <1>1 DEF Pending
<1>4. Linked(c) BY <1>0, <1>1, <1>2, <1>3, LinkedBefore
<1>5. CASE Sent(toC[c], ConnectMsg(u))
  <2>1. CASE StaysToC(c, ConnectMsg(u))
    <3>1. Sent(toC[c], ConnectMsg(u))' BY <1>3, <1>5, <2>1 DEF StaysToC
    <3> QED BY <1>1, <3>1 DEF Pending, Sent
  <2>2. CASE ReadsAtClient(c) /\ Head(toC[c]) = ConnectMsg(u)
    <3>1. RecvConnectOnCtl(c) BY <1>2, <2>2 DEF ReadsAtClient
    <3>2. rEnd'[u] = "connecting"
      BY <2>2, <3>1 DEF RecvConnectOnCtl, ConnectMsg, TypeOK, ClientTypeOK
    <3> QED BY <3>2 DEF Pending
  <2> QED BY <1>0, <1>1, <1>2, <2>1, <2>2, StepStays
<1>6. CASE rEnd[u] \in {"connecting", "polled", "borrowing"}
  <2>1. CASE rEnd'[u] \in {"connecting", "polled", "borrowing"} BY <2>1 DEF Pending
  <2> QED BY <1>0, <1>6, <2>1, BackendMoves, FailedPending, BoundPending
<1>7. CASE Sent(toS[c], DisconnectMsg(u))
  <2>1. CASE StaysToS(c, DisconnectMsg(u))
    <3>1. Sent(toS[c], DisconnectMsg(u))' BY <1>3, <1>7, <2>1 DEF StaysToS
    <3> QED BY <1>1, <3>1 DEF Pending, Sent
  <2>2. ASSUME ReadsAtServer(c), Head(toS[c]) = DisconnectMsg(u) PROVE FALSE
    <3>1. Head(toS[c]).user = u /\ Head(toS[c]).type # "auth" BY <2>2 DEF DisconnectMsg
    <3>2. RecvDisconnectOnCtl(c)
      BY <1>2, <2>2, <3>1 DEF ReadsAtServer, RecvAuth, AtServer
    <3>3. uEnd'[u] = "closing"
      BY <1>1, <3>1, <3>2 DEF RecvDisconnectOnCtl, ClosingUsers
    <3> QED BY <3>3
  <2> QED BY <1>0, <1>1, <1>2, <2>1, <2>2, StepStays
<1>8. CASE rNext[u] # None /\ (~Linked(rNext[u]) \/ Sent(toS[rNext[u]], ConnectMsg(u)))
  <2>0. SUFFICES ASSUME rEnd[u] \notin {"connecting", "polled", "borrowing"} PROVE Pending(u)'
    BY <1>6
  <2>1. PICK p \in Proxies : p = rNext[u] BY <1>8 DEF TypeOK, ClientTypeOK
  <2>2. p \in Conns /\ p \notin Ctls /\ p # None /\ sEnd[p] # "unused"
    BY <1>0, <2>1, LinksAssumption DEF Conns, PInv, FreshConn
  <2>3. rNext'[u] = p BY <1>0, <2>0, <2>1, BackendMoves
  <2>4. SUFFICES ASSUME Linked(p)' PROVE Sent(toS[p], ConnectMsg(u))'
    BY <2>2, <2>3 DEF Pending, Sent
  <2>5. Linked(p) BY <1>0, <2>2, <2>4, LinkedBefore
  <2>6. Sent(toS[p], ConnectMsg(u)) BY <1>8, <2>1, <2>5
  <2>7. ASSUME ReadsAtServer(p), Head(toS[p]) = ConnectMsg(u) PROVE FALSE
    <3>1. Head(toS[p]).user = u /\ Head(toS[p]).type = "connect" BY <2>7 DEF ConnectMsg
    <3>2. BindUser(p) \/ RecvConnectGone(p)
      BY <2>2, <2>7, <3>1
         DEF ReadsAtServer, RecvTransferAtServer, RecvDisconnectAtServer, AtServer
    <3>3. ~RecvConnectGone(p) BY <1>1, <3>1 DEF RecvConnectGone
    <3>4. uNext'[u] = p BY <3>1, <3>2, <3>3 DEF BindUser, TypeOK, ServerTypeOK
    <3> QED BY <2>2, <3>4
  <2>8. StaysToS(p, ConnectMsg(u)) BY <1>0, <2>2, <2>7, StepStays
  <2> QED BY <2>4, <2>6, <2>8 DEF StaysToS
<1> QED BY <1>1, <1>4, <1>5, <1>6, <1>7, <1>8 DEF Pending

LEMMA StepWInv == TypeOK /\ SInv /\ SInv' /\ BInv /\ WInv /\ [Next]_vars => WInv'
<1> SUFFICES ASSUME TypeOK, SInv, SInv', BInv, WInv, [Next]_vars PROVE WInv' OBVIOUS
<1>1. CurrentSession' BY StepCurrent DEF WInv, BInv
<1>2. ASSUME NEW u \in Users, uEnd'[u] = "open", uNext'[u] = None PROVE Pending(u)'
  <2>1. CASE uEnd[u] = "open" /\ cmd' = cmd
    <3>1. uNext[u] = None BY <1>2, BindsOnce
    <3>2. Pending(u) BY <2>1, <3>1 DEF WInv, WaitingUserPending, Pending
    <3> QED BY <1>2, <2>1, <3>2, StillPending DEF WInv
  <2> QED BY <1>2, <2>1, AskedPending, OpenStep
<1> QED BY <1>1, <1>2 DEF WInv, WaitingUserPending, Pending

LEMMA SpecWInv == Spec => []WInv
BY InitWInv, StepWInv, SpecBInv, SpecSInv, TypeCorrect, PTL DEF Spec

(* No interleaving of CONNECT, connect callbacks, failures and sweeps lets *)
(* a user wait, unread, for an answer that is no longer under way: what    *)
(* handleConnectMessage, its callbacks and ServerChannelHandler must not   *)
(* forget, whatever breaks in between.                                     *)
THEOREM WaitingUsersArePending == Spec => []WaitingUserPending
BY SpecWInv, PTL DEF WInv
------------------------------------------------------------------------------
(* Who closes a user.                                                      *)
LEMMA CloseStep ==
  ASSUME TypeOK, [Next]_vars, NEW u \in Users, uEnd'[u] # uEnd[u]
  PROVE  /\ uEnd'[u] = "closed" => UserInactive(u) \/ UserInactiveUnrouted(u)
         /\ uEnd[u] = "open" =>
              \/ UserInactive(u) \/ UserInactiveUnrouted(u)
              \/ \E c \in Ctls : \/ RecvDisconnectOnCtl(c) /\ Head(toS[c]).user = u
                                 \/ ServerCtlInactive(c)
              \/ \E p \in Proxies : /\ RecvDisconnectAtServer(p) \/ ServerProxyInactive(p)
                                    /\ pNext[p] = u
              \/ ConfigStep
<1> DEFINE Closes ==
      /\ uEnd'[u] = "closed" => UserInactive(u) \/ UserInactiveUnrouted(u)
      /\ uEnd[u] = "open" =>
           \/ UserInactive(u) \/ UserInactiveUnrouted(u)
           \/ \E c \in Ctls : \/ RecvDisconnectOnCtl(c) /\ Head(toS[c]).user = u
                              \/ ServerCtlInactive(c)
           \/ \E p \in Proxies : /\ RecvDisconnectAtServer(p) \/ ServerProxyInactive(p)
                                 /\ pNext[p] = u
           \/ ConfigStep
<1> USE DEF TypeOK, ServerTypeOK
<1>1. CASE ServerUnchanged \/ UNCHANGED vars
  BY <1>1 DEF ServerUnchanged, serverVars, vars
<1>2. ASSUME NEW v \in Users, ServerUserHandler(v) \/ UserStep(v) PROVE Closes
  BY <1>2 DEF ServerUserHandler, UserStep, UserRefused, UserActive, UserRead, UserInactive,
     UserInactiveUnrouted
<1>3. ASSUME NEW c \in Ctls, ServerCtlHandler(c) PROVE Closes
  <2>1. CASE RecvAuth(c) \/ RecvAuthRefused(c)
    BY <2>1 DEF RecvAuth, RecvAuthRefused, serverVars
  <2>2. CASE RecvDisconnectOnCtl(c) BY <2>2 DEF RecvDisconnectOnCtl, ClosingUsers
  <2>3. CASE ServerCtlInactive(c) BY <2>3 DEF ServerCtlInactive, SweptUsers, ClosingUsers
  <2> QED BY <1>3, <2>1, <2>2, <2>3 DEF ServerCtlHandler
<1>4. ASSUME NEW p \in Proxies, ServerProxyHandler(p) PROVE Closes
  <2>1. CASE \/ GetUser(p) \/ BindUser(p) \/ RecvConnectNoCtl(p) \/ RecvConnectGone(p)
             \/ RecvTransferAtServer(p)
    BY <2>1 DEF GetUser, BindUser, RecvConnectNoCtl, RecvConnectGone, RecvTransferAtServer,
       serverVars
  <2>2. CASE RecvDisconnectAtServer(p) BY <2>2 DEF RecvDisconnectAtServer, ClosingUsers
  <2>3. CASE ServerProxyInactive(p) BY <2>3 DEF ServerProxyInactive, ClosingUsers
  <2> QED BY <1>4, <2>1, <2>2, <2>3 DEF ServerProxyHandler
<1>5. CASE ConfigStep
  BY <1>5 DEF ConfigStep, PortRevoked, PortGranted, LanChanged, CheckAndClearUsers, ClosingUsers
<1> HIDE DEF Closes
<1>6. Closes
  <2>1. CASE ServerUnchanged \/ UNCHANGED vars BY <1>1, <2>1 DEF Closes
  <2>2. CASE ConfigStep BY <1>5, <2>2 DEF Closes
  <2> QED BY <1>2, <1>3, <1>4, <2>1, <2>2
          DEF Next, EventLoops, BackendHandler, ClientCtlHandler, ClientProxyHandler, EofStep,
              BackendStep, BreakStep
<1> QED BY <1>6 DEF Closes

(* CONNECT goes up for a user whose backend has just connected.            *)
LEMMA AskedUpStep ==
  ASSUME TypeOK, PInv, [Next]_vars, NEW p \in Proxies, NEW u \in Users, u \in Asked(toS'[p])
  PROVE  u \in Asked(toS[p]) \/ rEnd[u] \in {"connecting", "polled", "borrowing"}
<1>0. toS[p] \in Seq(Message) /\ Proxies \subseteq Conns /\ p \in Conns
  BY DEF TypeOK, LinksTypeOK, Conns
<1>1. CASE Quiet BY <1>1 DEF Quiet, QuietConn
<1>2. ASSUME NEW v \in Users, UserActive(v) \/ UserRead(v) \/ UserInactive(v)
      PROVE  u \in Asked(toS[p])
  BY <1>2 DEF UserActive, UserRead, UserInactive
<1>3. ASSUME NEW q \in Proxies, BindUser(q) PROVE u \in Asked(toS[p])
  <2>1. toS[q] # <<>> /\ toS' = Read(toS, q) BY <1>3 DEF BindUser, AtServer
  <2>2. AskedNoMore BY <1>0, <2>1, ReadAsksNoMore DEF TypeOK
  <2> QED BY <2>2 DEF AskedNoMore
<1>4. ASSUME NEW c \in Ctls, RecvConnectOnCtl(c) PROVE u \in Asked(toS[p])
  BY <1>4 DEF RecvConnectOnCtl
<1>5. ASSUME NEW v \in Users, BindPolled(v)
      PROVE  u \in Asked(toS[p]) \/ rEnd[u] \in {"connecting", "polled", "borrowing"}
  <2>1. PICK q \in Proxies : q = rNext[v]
    BY <1>5 DEF BindPolled, PInv, BackendOnce, TypeOK, ClientTypeOK
  <2>2. SendToS(q, ConnectMsg(v)) /\ rEnd[v] = "polled"
    BY <1>5, <2>1 DEF BindPolled
  <2>3. toS'[p] = toS[p] \/ toS'[p] = Append(toS[p], ConnectMsg(v))
    BY <1>0, <2>2, SentOn DEF TypeOK
  <2>4. Asked(Append(toS[p], ConnectMsg(v))) = Asked(toS[p]) \cup {v} BY <1>0, AskedMore
  <2> QED BY <2>2, <2>3, <2>4
<1>6. ASSUME NEW v \in Users, NEW q \in Proxies, ProxyConnected(v, q)
      PROVE  u \in Asked(toS[p]) \/ rEnd[u] \in {"connecting", "polled", "borrowing"}
  <2>1. toS'[p] = (IF p = q THEN <<ConnectMsg(v)>> ELSE toS[p]) /\ rEnd[v] = "borrowing"
    BY <1>0, <1>6 DEF ProxyConnected, TypeOK, LinksTypeOK
  <2>2. Asked(<<ConnectMsg(v)>>) = {v}
    <3>1. <<ConnectMsg(v)>>[1].user = v BY DEF ConnectMsg
    <3>2. \A k \in DOMAIN <<ConnectMsg(v)>> : k = 1 BY DEF ConnectMsg
    <3>3. <<ConnectMsg(v)>>[1].type = "connect" /\ 1 \in DOMAIN <<ConnectMsg(v)>>
      BY DEF ConnectMsg
    <3> QED BY <3>1, <3>2, <3>3 DEF Asked
  <2> QED BY <2>1, <2>2
<1>7. ASSUME NEW q \in Proxies,
             RecvTransferAtClient(q) \/ RecvDisconnectAtClient(q) \/ ClientProxyInactive(q)
      PROVE  u \in Asked(toS[p])
  BY <1>7 DEF RecvTransferAtClient, RecvDisconnectAtClient, ClientProxyInactive
<1>8. ASSUME NEW v \in Users, RealConnectedPooled(v) PROVE u \in Asked(toS[p])
  BY <1>8 DEF RealConnectedPooled, linkVars
<1> QED BY <1>1, <1>2, <1>3, <1>4, <1>5, <1>6, <1>7, <1>8, QuietOrLoud DEF Loud

(* A backend starts to connect when CONNECT is read, and when it has       *)
(* failed it is never used again.                                          *)
LEMMA BackendStarts ==
  ASSUME TypeOK, PInv, [Next]_vars, NEW u \in Users
  PROVE  /\ rEnd'[u] \in {"connecting", "polled", "borrowing"} =>
              \/ rEnd[u] \in {"connecting", "polled", "borrowing"}
              \/ \E c \in Ctls : u \in Asked(toC[c])
         /\ rEnd[u] \in {"closed", "stranded"} => rEnd'[u] = rEnd[u] /\ rNext'[u] = rNext[u]
<1> DEFINE Starts ==
      /\ rEnd'[u] \in {"connecting", "polled", "borrowing"} =>
           \/ rEnd[u] \in {"connecting", "polled", "borrowing"}
           \/ \E c \in Ctls : u \in Asked(toC[c])
      /\ rEnd[u] \in {"closed", "stranded"} => rEnd'[u] = rEnd[u] /\ rNext'[u] = rNext[u]
<1> USE DEF TypeOK, ClientTypeOK
<1>1. CASE ClientUnchanged \/ UNCHANGED vars
  BY <1>1 DEF ClientUnchanged, clientVars, vars
<1>2. ASSUME NEW v \in Users, BackendHandler(v) \/ BackendStep(v) PROVE Starts
  <2>1. CASE RealFailed(v) BY <2>1 DEF RealFailed
  <2>2. CASE RealConnectedNew(v) BY <2>2 DEF RealConnectedNew
  <2>3. CASE ProxyFailed(v) BY <2>3 DEF ProxyFailed
  <2>4. CASE RealRead(v) BY <2>4 DEF RealRead
  <2>5. CASE RealInactive(v) BY <2>5 DEF RealInactive
  <2>6. CASE RealConnectedPooled(v) BY <2>6 DEF RealConnectedPooled
  <2>7. ASSUME NEW p \in Proxies, ProxyConnected(v, p) PROVE Starts
    BY <2>7 DEF ProxyConnected, Bind
  <2>8. CASE BindPolled(v) BY <2>8 DEF BindPolled, Bind
  <2> QED BY <1>2, <2>1, <2>2, <2>3, <2>4, <2>5, <2>6, <2>7, <2>8 DEF BackendHandler, BackendStep
<1>3. ASSUME NEW c \in Ctls, RecvConnectOnCtl(c) PROVE Starts
  <2>1. toC[c] \in Seq(Message) /\ toC[c] # <<>> /\ Head(toC[c]).type = "connect"
    BY <1>3 DEF RecvConnectOnCtl, AtClient, LinksTypeOK, Conns
  <2>2. Head(toC[c]).user \in Asked(toC[c]) BY <2>1, AskedLess
  <2>3. /\ \A v \in Users : rEnd'[v] # rEnd[v] => v = Head(toC[c]).user
        /\ rNext' = rNext
    BY <1>3 DEF RecvConnectOnCtl
  <2>4. rEnd[u] \in {"closed", "stranded"} => u # Head(toC[c]).user
    BY <2>2 DEF PInv, AskedBackend
  <2> QED BY <2>2, <2>3, <2>4
<1>4. ASSUME NEW c \in Ctls, CtlConnect(c) \/ ClientCtlInactive(c) PROVE Starts
  BY <1>4 DEF CtlConnect, ClientCtlInactive, ClosingReals
<1>5. ASSUME NEW p \in Proxies, ClientProxyHandler(p) PROVE Starts
  BY <1>5 DEF ClientProxyHandler, RecvTransferAtClient, RecvDisconnectAtClient,
     ClientProxyInactive, ClosingReals
<1> HIDE DEF Starts
<1>6. Starts
  <2>1. CASE ClientUnchanged \/ UNCHANGED vars BY <1>1, <2>1 DEF Starts
  <2> QED BY <1>2, <1>3, <1>4, <1>5, <2>1
          DEF Next, EventLoops, UserStep, ConfigStep, BreakStep, EofStep, ServerUserHandler,
              ServerCtlHandler, ServerProxyHandler, ClientCtlHandler
<1> QED BY <1>6 DEF Starts

(* A data connection bound at the server is bound both ways.               *)
BoundBothWays == \A p \in Proxies, u \in Users : pNext[p] = u => uNext[u] = p

(* A backend that the client reports as failed is never used.              *)
Reports(q, u) == \E k \in DOMAIN q : q[k].type = "disconnect" /\ q[k].user = u

FailedForGood == \A c \in Ctls, u \in Users :
  Reports(toS[c], u) => rEnd[u] \in {"closed", "stranded"} /\ rNext[u] = None

(* A user whose backend is still to come.                                  *)
Underway(u) == \/ \E c \in Ctls : u \in Asked(toC[c])
               \/ rEnd[u] \in {"connecting", "polled", "borrowing"}
               \/ \E p \in Proxies : u \in Asked(toS[p])

(* In the first session only the user itself closes it, once it is bound;  *)
(* its data connection then goes through the phases CONNECT, bound,        *)
(* DISCONNECT without a gap.                                               *)
Announced ==
  /\ granted /\ portCmd = cmd
  /\ \A u \in Users : uNext[u] # None => cmd # None
  /\ \A u \in Users : Underway(u) => uEnd[u] = "open"
  /\ \A p \in Proxies, u \in Users : cNext[p] = u /\ Linked(p) =>
       u \in Asked(toS[p]) \/ Uses(u, p) \/ Ends(toC[p])

LEMMA StepBothWays ==
  ASSUME TypeOK, BInv, BoundBothWays, [Next]_vars PROVE BoundBothWays'
<1> SUFFICES ASSUME NEW p \in Proxies, NEW u \in Users, pNext'[p] = u PROVE uNext'[u] = p
  BY DEF BoundBothWays
<1>0. p # None /\ u # None BY LinksAssumption
<1>1. pNext[p] = u => uNext'[u] = p BY <1>0, BindsOnce DEF BoundBothWays
<1>2. CASE Quiet BY <1>0, <1>1, <1>2 DEF Quiet, QuietConn
<1>3. ASSUME NEW v \in Users, UserActive(v) \/ UserRead(v) \/ UserInactive(v)
      PROVE  uNext'[u] = p
  <2>1. pNext'[p] \in {pNext[p], None}
    BY <1>3 DEF UserActive, UserRead, UserInactive, ReleaseProxy, TypeOK, ServerTypeOK
  <2> QED BY <1>0, <1>1, <2>1
<1>4. ASSUME NEW q \in Proxies, BindUser(q) PROVE uNext'[u] = p
  BY <1>1, <1>4 DEF BindUser, TypeOK, ServerTypeOK
<1>5. CASE ServerUnchanged BY <1>1, <1>5 DEF ServerUnchanged, serverVars
<1> QED BY <1>2, <1>3, <1>4, <1>5, QuietOrLoud DEF Loud

(* DISCONNECT reaches a control connection only by a callback that failed. *)
LEMMA ReportStep ==
  ASSUME TypeOK, PInv, [Next]_vars, NEW c \in Ctls, NEW u \in Users, Reports(toS'[c], u)
  PROVE  Reports(toS[c], u) \/ RealFailed(u) \/ ProxyFailed(u)
<1>0. /\ toS[c] \in Seq(Message) /\ c \in Conns /\ c \notin Proxies /\ c # None
      /\ Ctls \subseteq Conns /\ Proxies \subseteq Conns /\ Proxies \cap Ctls = {}
  BY LinksAssumption DEF TypeOK, LinksTypeOK, Conns
<1>1. CASE toS'[c] = toS[c] BY <1>1 DEF Reports
<1>2. CASE toS'[c] = <<>> BY <1>2 DEF Reports
<1>3. ASSUME NEW d \in Conns, toS[d] # <<>>, toS' = Read(toS, d) PROVE Reports(toS[c], u)
  <2>1. toS'[c] = IF c = d THEN Tail(toS[c]) ELSE toS[c]
    BY <1>0, <1>3 DEF Read, TypeOK, LinksTypeOK
  <2>2. CASE c = d
    <3>1. \A k \in DOMAIN Tail(toS[c]) :
            k + 1 \in DOMAIN toS[c] /\ Tail(toS[c])[k] = toS[c][k + 1]
      BY <1>0, <1>3, <2>2, ReadQueue
    <3>2. PICK k \in DOMAIN Tail(toS[c]) :
            Tail(toS[c])[k].type = "disconnect" /\ Tail(toS[c])[k].user = u
      BY <2>1, <2>2 DEF Reports
    <3> QED BY <3>1, <3>2 DEF Reports
  <2>3. CASE c # d BY <2>1, <2>3 DEF Reports
  <2> QED BY <2>2, <2>3
<1>4. CASE UNCHANGED toS BY <1>1, <1>4
<1>5. ASSUME NEW v \in Users, BackendHandler(v) \/ BackendStep(v)
      PROVE  Reports(toS[c], u) \/ RealFailed(u) \/ ProxyFailed(u)
  <2>1. CASE RealFailed(v) \/ ProxyFailed(v)
    <3>1. rCtl[v] \in Conns BY <1>0, <2>1 DEF RealFailed, ProxyFailed, PInv, BackendOnce,
                               TypeOK, ClientTypeOK
    <3>2. DisconnectMsg(v) \in Message BY MessageTypes
    <3>3. SendToS(rCtl[v], DisconnectMsg(v)) BY <2>1 DEF RealFailed, ProxyFailed, TellFailed
    <3>4. toS'[c] = toS[c] \/ toS'[c] = Append(toS[c], DisconnectMsg(v))
      <4>1. PICK x \in Conns : x = rCtl[v] BY <3>1
      <4>2. SendToS(x, DisconnectMsg(v)) BY <3>3, <4>1
      <4> QED BY <1>0, <4>2, SentOn DEF TypeOK
    <3>5. CASE toS'[c] = Append(toS[c], DisconnectMsg(v)) /\ u # v
      <4> DEFINE r == Append(toS[c], DisconnectMsg(v))
      <4>1. /\ DOMAIN r = 1..Len(toS[c]) + 1 /\ DOMAIN toS[c] = 1..Len(toS[c])
            /\ \A k \in DOMAIN toS[c] : r[k] = toS[c][k]
            /\ r[Len(toS[c]) + 1] = DisconnectMsg(v) /\ Len(toS[c]) \in Nat
        BY <1>0, <3>2, AppendedQueue, LenProperties
      <4>2. PICK k \in DOMAIN r : r[k].type = "disconnect" /\ r[k].user = u
        BY <3>5 DEF Reports
      <4> HIDE DEF r
      <4>3. DisconnectMsg(v).user = v BY DEF DisconnectMsg
      <4>4. k # Len(toS[c]) + 1 BY <3>5, <4>1, <4>2, <4>3
      <4>5. k \in DOMAIN toS[c] BY <4>1, <4>4
      <4> QED BY <4>1, <4>2, <4>5 DEF Reports
    <3> QED BY <1>1, <2>1, <3>4, <3>5
  <2>2. CASE RealConnectedNew(v) \/ RealConnectedPooled(v)
    BY <1>4, <2>2 DEF RealConnectedNew, RealConnectedPooled, linkVars
  <2>3. CASE RealRead(v) \/ RealInactive(v)
    <3>1. rNext[v] \in Conns /\ rNext[v] # c
      BY <1>0, <2>3 DEF RealRead, RealInactive, PInv, BackendOnce, TypeOK, ClientTypeOK
    <3>2. \E m : SendToS(rNext[v], m) BY <2>3 DEF RealRead, RealInactive
    <3> QED BY <1>0, <1>1, <3>1, <3>2, SentOn DEF TypeOK
  <2>4. CASE BindPolled(v)
    <3>1. rNext[v] \in Conns /\ rNext[v] # c
      BY <1>0, <2>4 DEF BindPolled, PInv, BackendOnce, TypeOK, ClientTypeOK
    <3>2. SendToS(rNext[v], ConnectMsg(v)) BY <2>4 DEF BindPolled
    <3> QED BY <1>0, <1>1, <3>1, <3>2, SentOn DEF TypeOK
  <2>5. ASSUME NEW p \in Proxies, ProxyConnected(v, p) PROVE toS'[c] = toS[c]
    BY <1>0, <2>5 DEF ProxyConnected, TypeOK, LinksTypeOK
  <2> QED BY <1>1, <1>5, <2>1, <2>2, <2>3, <2>4, <2>5 DEF BackendHandler, BackendStep
<1>6. ASSUME NEW d \in Ctls, ServerCtlHandler(d) PROVE Reports(toS[c], u)
  <2>1. CASE RecvAuth(d) \/ RecvDisconnectOnCtl(d)
    BY <1>0, <1>3, <2>1 DEF RecvAuth, RecvDisconnectOnCtl, AtServer
  <2>2. CASE RecvAuthRefused(d)
    <3>1. toS'[c] = toS[c] \/ toS'[c] = <<>>
      BY <1>0, <2>2 DEF RecvAuthRefused, Dropped, TypeOK, LinksTypeOK
    <3> QED BY <1>2, <3>1 DEF Reports
  <2>3. CASE ServerCtlInactive(d) BY <2>3 DEF ServerCtlInactive, Reports
  <2> QED BY <1>6, <2>1, <2>2, <2>3 DEF ServerCtlHandler
<1>7. ASSUME NEW p \in Proxies, ServerProxyHandler(p) PROVE Reports(toS[c], u)
  <2>1. CASE GetUser(p) BY <2>1 DEF GetUser, linkVars, Reports
  <2>2. CASE BindUser(p) \/ RecvConnectNoCtl(p) \/ RecvConnectGone(p)
    <3>1. toS' = Read(toS, p) \/ toS' = Dropped(toS, p)
      BY <2>2 DEF BindUser, RecvConnectNoCtl, RecvConnectGone
    <3>2. toS'[c] = toS[c] BY <1>0, <3>1 DEF Read, Dropped, TypeOK, LinksTypeOK
    <3> QED BY <3>2 DEF Reports
  <2>3. CASE RecvTransferAtServer(p) \/ RecvDisconnectAtServer(p) \/ ServerProxyInactive(p)
    <3>1. toS' = Read(toS, p) \/ toS' = toS
      BY <2>3 DEF RecvTransferAtServer, RecvDisconnectAtServer, ServerProxyInactive
    <3>2. toS'[c] = toS[c] BY <1>0, <3>1 DEF Read, TypeOK, LinksTypeOK
    <3> QED BY <3>2 DEF Reports
  <2> QED BY <1>7, <2>1, <2>2, <2>3 DEF ServerProxyHandler
<1>8. ASSUME NEW d \in Ctls, ClientCtlHandler(d) PROVE Reports(toS[c], u)
  <2>1. CASE CtlConnect(d)
    <3>1. toS'[c] = toS[c] \/ toS'[c] = <<AuthMsg>>
      BY <1>0, <2>1 DEF CtlConnect, TypeOK, LinksTypeOK
    <3>2. ~Reports(<<AuthMsg>>, u)
      <4>1. \A k \in DOMAIN <<AuthMsg>> : k = 1 BY DEF AuthMsg
      <4>2. <<AuthMsg>>[1].type = "auth" BY DEF AuthMsg
      <4> QED BY <4>1, <4>2 DEF Reports
    <3> QED BY <3>1, <3>2 DEF Reports
  <2>2. CASE RecvConnectOnCtl(d) \/ ClientCtlInactive(d)
    BY <2>2 DEF RecvConnectOnCtl, ClientCtlInactive, Reports
  <2> QED BY <1>8, <2>1, <2>2 DEF ClientCtlHandler
<1>9. ASSUME NEW p \in Proxies, ClientProxyHandler(p) PROVE UNCHANGED toS
  BY <1>9 DEF ClientProxyHandler, RecvTransferAtClient, RecvDisconnectAtClient,
     ClientProxyInactive
<1>10. ASSUME NEW v \in Users, ServerUserHandler(v) \/ UserStep(v) PROVE UNCHANGED toS
  BY <1>10 DEF ServerUserHandler, UserStep, UserRefused, UserActive, UserRead, UserInactive,
     UserInactiveUnrouted, linkVars
<1>11. ASSUME NEW x \in Conns,
              ServerEof(x) \/ ClientEof(x) \/ ServerBreak(x) \/ ClientBreak(x)
       PROVE  toS'[c] = toS[c] \/ toS'[c] = <<>>
  BY <1>0, <1>11 DEF ServerEof, ClientEof, ServerBreak, ClientBreak, Dropped, TypeOK, LinksTypeOK
<1>12. CASE ConfigStep \/ UNCHANGED vars
  BY <1>4, <1>12 DEF ConfigStep, PortRevoked, PortGranted, LanChanged, vars, linkVars
<1>13. CASE EventLoops
  BY <1>1, <1>2, <1>4, <1>5, <1>6, <1>7, <1>8, <1>9, <1>10, <1>11, <1>13
     DEF EventLoops, EofStep
<1> QED BY <1>1, <1>2, <1>4, <1>5, <1>10, <1>11, <1>12, <1>13 DEF Next, BreakStep

LEMMA StepFailed ==
  ASSUME TypeOK, PInv, FailedForGood, [Next]_vars PROVE FailedForGood'
<1> SUFFICES ASSUME NEW c \in Ctls, NEW u \in Users, Reports(toS'[c], u)
             PROVE  rEnd'[u] \in {"closed", "stranded"} /\ rNext'[u] = None
  BY DEF FailedForGood, Reports
<1>1. CASE Reports(toS[c], u) BY <1>1, BackendStarts DEF FailedForGood
<1>2. CASE RealFailed(u) \/ ProxyFailed(u)
  BY <1>2 DEF RealFailed, ProxyFailed, PInv, BackendOnce, TypeOK, ClientTypeOK
<1> QED BY <1>1, <1>2, ReportStep

LEMMA UnderwayUnbound ==
  ASSUME PInv, NEW u \in Users, Underway(u) PROVE uNext[u] = None
BY DEF Underway, PInv, AskedBackend, BackendOnce, BoundOnce, PolledIdle

LEMMA UnderwayStep ==
  ASSUME TypeOK, PInv, [Next]_vars, NEW u \in Users, Underway(u)'
  PROVE  Underway(u) \/ UserActive(u)
<1>1. ASSUME NEW c \in Ctls, u \in Asked(toC'[c]) PROVE Underway(u) \/ UserActive(u)
  BY <1>1, AskedStep DEF Underway
<1>2. CASE rEnd'[u] \in {"connecting", "polled", "borrowing"} BY <1>2, BackendStarts DEF Underway
<1>3. ASSUME NEW p \in Proxies, u \in Asked(toS'[p]) PROVE Underway(u)
  BY <1>3, AskedUpStep DEF Underway
<1> QED BY <1>1, <1>2, <1>3 DEF Underway

(* The life of a connection: made at once at both ends, each end dies and  *)
(* runs its channelInactive once.                                          *)
EndMove(x) ==
  \/ sEnd[x] = "unused" /\ sEnd'[x] = "open" /\ cEnd'[x] = "open"
  \/ /\ \/ sEnd'[x] = sEnd[x]
        \/ sEnd[x] = "open" /\ sEnd'[x] = "dead"
        \/ sEnd[x] = "dead" /\ sEnd'[x] = "closed"
     /\ \/ cEnd'[x] = cEnd[x]
        \/ cEnd[x] = "open" /\ cEnd'[x] = "dead"
        \/ cEnd[x] = "dead" /\ cEnd'[x] = "closed"

LEMMA EndMoves == ASSUME TypeOK, [Next]_vars, NEW x \in Conns PROVE EndMove(x)
<1> USE DEF TypeOK, LinksTypeOK
<1>0. Proxies \subseteq Conns /\ Ctls \subseteq Conns BY DEF Conns
<1>1. CASE UNCHANGED <<sEnd, cEnd>> BY <1>1 DEF EndMove
<1>2. ASSUME NEW y \in Conns,
             ServerEof(y) \/ ClientEof(y) \/ ServerBreak(y) \/ ClientBreak(y)
      PROVE  EndMove(x)
  BY <1>2 DEF ServerEof, ClientEof, ServerBreak, ClientBreak, CloseEnd, EndMove
<1>3. ASSUME NEW c \in Ctls, ServerCtlHandler(c) PROVE EndMove(x)
  BY <1>0, <1>3 DEF ServerCtlHandler, RecvAuth, RecvAuthRefused, RecvDisconnectOnCtl,
     ServerCtlInactive, AtServer, CloseEnd, EndMove
<1>4. ASSUME NEW p \in Proxies, ServerProxyHandler(p) PROVE EndMove(x)
  <2>1. CASE GetUser(p) \/ BindUser(p) \/ RecvConnectGone(p)
    BY <1>1, <2>1 DEF GetUser, BindUser, RecvConnectGone, linkVars
  <2>2. CASE RecvTransferAtServer(p) \/ RecvDisconnectAtServer(p)
    BY <1>1, <2>2 DEF RecvTransferAtServer, RecvDisconnectAtServer
  <2>3. CASE RecvConnectNoCtl(p) \/ ServerProxyInactive(p)
    BY <1>0, <2>3 DEF RecvConnectNoCtl, ServerProxyInactive, AtServer, CloseEnd, EndMove
  <2> QED BY <1>4, <2>1, <2>2, <2>3 DEF ServerProxyHandler
<1>5. ASSUME NEW c \in Ctls, ClientCtlHandler(c) PROVE EndMove(x)
  BY <1>0, <1>5 DEF ClientCtlHandler, CtlConnect, RecvConnectOnCtl, ClientCtlInactive, EndMove
<1>6. ASSUME NEW p \in Proxies, ClientProxyHandler(p) PROVE EndMove(x)
  BY <1>0, <1>6 DEF ClientProxyHandler, RecvTransferAtClient, RecvDisconnectAtClient,
     ReturnProxyChannel, ClientProxyInactive, AtClient, CloseEnd, EndMove
<1>7. ASSUME NEW u \in Users, BackendHandler(u) \/ BackendStep(u) PROVE EndMove(x)
  <2>1. CASE UNCHANGED <<sEnd, cEnd>> BY <1>1, <2>1
  <2>2. ASSUME NEW p \in Proxies, ProxyConnected(u, p) PROVE EndMove(x)
    BY <1>0, <2>2 DEF ProxyConnected, EndMove
  <2> QED BY <1>7, <2>1, <2>2 DEF BackendHandler, BackendStep, RealFailed, RealConnectedNew,
             RealConnectedPooled, BindPolled, ProxyFailed, RealRead, RealInactive, linkVars
<1>8. ASSUME NEW u \in Users, ServerUserHandler(u) \/ UserStep(u) PROVE UNCHANGED <<sEnd, cEnd>>
  BY <1>8 DEF ServerUserHandler, UserStep, UserRefused, UserActive, UserRead, UserInactive,
     UserInactiveUnrouted, linkVars
<1>9. CASE ConfigStep \/ UNCHANGED vars
  BY <1>1, <1>9 DEF ConfigStep, PortRevoked, PortGranted, LanChanged, vars, linkVars
<1>10. CASE EventLoops
  BY <1>1, <1>2, <1>3, <1>4, <1>5, <1>6, <1>7, <1>8, <1>10 DEF EventLoops, EofStep
<1> QED BY <1>1, <1>2, <1>7, <1>8, <1>9, <1>10 DEF Next, BreakStep

FreshCtl == \A c \in Ctls : sEnd[c] = "unused" => cEnd[c] = "unused"

(* The first session is over for good when a connection of it breaks.      *)
LEMMA SessionBefore ==
  ASSUME TypeOK, FreshCtl, [Next]_vars, FirstSession'
  PROVE  FirstSession /\ ~ConfigStep /\ \A c \in Ctls : ~ServerCtlInactive(c)
<1> USE DEF TypeOK, LinksTypeOK, ServerTypeOK, Conns
<1>1. reconfigs' = 0 /\ \A c \in Ctls : /\ sEnd'[c] \in {"unused", "open"}
                                        /\ cEnd'[c] \in {"unused", "open"}
  BY DEF FirstSession
<1>2. ~ConfigStep
  BY <1>1 DEF ConfigStep, PortRevoked, PortGranted, LanChanged
<1>3. \A c \in Ctls : ~ServerCtlInactive(c) BY <1>1 DEF ServerCtlInactive
<1>4. reconfigs' = reconfigs
  BY <1>2 DEF Next, vars, serverVars, EventLoops, BackendHandler, ClientCtlHandler,
         ClientProxyHandler, EofStep, BackendStep, BreakStep, ServerUnchanged,
         ServerUserHandler, UserStep, UserRefused, UserActive, UserRead, UserInactive,
         UserInactiveUnrouted, ServerCtlHandler, RecvAuth, RecvAuthRefused,
         RecvDisconnectOnCtl, ServerCtlInactive, ServerProxyHandler, GetUser, BindUser,
         RecvConnectNoCtl, RecvConnectGone, RecvTransferAtServer, RecvDisconnectAtServer,
         ServerProxyInactive
<1>5. ASSUME NEW c \in Ctls
      PROVE  sEnd[c] \in {"unused", "open"} /\ cEnd[c] \in {"unused", "open"}
  <2>1. EndMove(c) BY EndMoves
  <2> QED BY <1>1, <2>1 DEF EndMove, FreshCtl
<1> QED BY <1>1, <1>2, <1>3, <1>4, <1>5 DEF FirstSession

LEMMA StepFreshCtl == ASSUME TypeOK, FreshCtl, [Next]_vars PROVE FreshCtl'
<1> SUFFICES ASSUME NEW c \in Ctls, sEnd'[c] = "unused" PROVE cEnd'[c] = "unused"
  BY DEF FreshCtl
<1>1. EndMove(c) BY EndMoves DEF Conns
<1> QED BY <1>1 DEF EndMove, FreshCtl

(* The route stays, and who is bound has a registered connection.          *)
LEMMA RouteStays ==
  ASSUME TypeOK, SInv, SInv', FirstSession, FirstSession', FreshCtl, Announced, [Next]_vars
  PROVE  /\ granted' /\ portCmd' = cmd'
         /\ \A u \in Users : uNext'[u] # None => cmd' # None
<1> USE DEF Announced
<1>0. ~ConfigStep /\ \A c \in Ctls : ~ServerCtlInactive(c) BY SessionBefore
<1>1. CASE UNCHANGED <<granted, portCmd, cmd>> /\ UNCHANGED uNext BY <1>1, Zenon
<1>2. ASSUME NEW u \in Users, ServerUserHandler(u) \/ UserStep(u)
      PROVE  UNCHANGED <<granted, portCmd, cmd>> /\ UNCHANGED uNext
  BY <1>2 DEF ServerUserHandler, UserStep, UserRefused, UserActive, UserRead, UserInactive,
     UserInactiveUnrouted
<1>3. ASSUME NEW c \in Ctls, ServerCtlHandler(c)
      PROVE  \/ UNCHANGED <<granted, portCmd, cmd>> /\ UNCHANGED uNext
             \/ RecvAuth(c)
  BY <1>0, <1>3 DEF ServerCtlHandler, RecvAuthRefused, RecvDisconnectOnCtl, serverVars
<1>4. ASSUME NEW c \in Ctls, RecvAuth(c)
      PROVE  /\ granted' /\ portCmd' = cmd'
             /\ \A u \in Users : uNext'[u] # None => cmd' # None
  <2>1. granted' = granted /\ cmd' = c /\ c # None /\ uNext' = uNext
        /\ portCmd' = IF granted THEN c ELSE portCmd
    BY <1>4, LinksAssumption DEF RecvAuth
  <2> QED BY <2>1, Zenon
<1>5. ASSUME NEW p \in Proxies, ServerProxyHandler(p)
      PROVE  /\ UNCHANGED <<granted, portCmd, cmd>>
             /\ UNCHANGED uNext \/ cmd # None
  <2>1. CASE GetUser(p) \/ RecvConnectNoCtl(p) \/ RecvConnectGone(p)
    BY <2>1 DEF GetUser, RecvConnectNoCtl, RecvConnectGone, serverVars
  <2>2. CASE RecvTransferAtServer(p) \/ RecvDisconnectAtServer(p) \/ ServerProxyInactive(p)
    BY <2>2 DEF RecvTransferAtServer, RecvDisconnectAtServer, ServerProxyInactive
  <2>3. CASE BindUser(p)
    <3>1. toS[p] \in Seq(Message) /\ toS[p] # <<>> /\ Head(toS[p]).type = "connect"
      BY <2>3 DEF BindUser, AtServer, TypeOK, LinksTypeOK, Conns
    <3>2. PICK u \in Users : u = Head(toS[p]).user BY <3>1, HeadTailProperties, UserMessage
    <3>3. Underway(u) BY <3>1, <3>2, AskedLess DEF Underway
    <3>4. cmd # None BY <3>3 DEF SInv, OpenUserSupervised
    <3> QED BY <2>3, <3>4 DEF BindUser
  <2> QED BY <1>5, <2>1, <2>2, <2>3 DEF ServerProxyHandler
<1>6. CASE UNCHANGED <<granted, portCmd, cmd>> /\ cmd # None BY <1>6, Zenon
<1>7. CASE ServerUnchanged \/ UNCHANGED vars
  <2>1. UNCHANGED <<granted, portCmd, cmd>> /\ UNCHANGED uNext
    BY <1>7 DEF ServerUnchanged, serverVars, vars
  <2> QED BY <1>1, <2>1
<1>8. CASE EventLoops
  BY <1>1, <1>2, <1>3, <1>4, <1>5, <1>6, <1>7, <1>8
     DEF EventLoops, BackendHandler, ClientCtlHandler, ClientProxyHandler, EofStep
<1> QED BY <1>0, <1>1, <1>2, <1>7, <1>8 DEF Next, BackendStep, BreakStep

(* FreshCtl: a control connection that was never made has no client end.   *)
LInv == BoundBothWays /\ FailedForGood /\ FreshCtl /\ (FirstSession => Announced)

LEMMA InitLInv == Init => LInv
<1> SUFFICES ASSUME Init PROVE LInv OBVIOUS
<1>1. \A x \in Conns : toS[x] = <<>> /\ toC[x] = <<>> /\ cEnd[x] = "unused"
  BY DEF Init, LinksInit
<1>2. Proxies \subseteq Conns /\ Ctls \subseteq Conns /\ None \notin Users
  BY LinksAssumption DEF Conns
<1>3. BoundBothWays BY <1>2 DEF Init, ServerInit, BoundBothWays
<1>4. FailedForGood BY <1>1, <1>2 DEF FailedForGood, Reports
<1>5. \A u \in Users : ~Underway(u)
  BY <1>1, <1>2, AskedEmpty DEF Underway, Init, ClientInit
<1>6. Announced BY <1>2, <1>5 DEF Init, ServerInit, ClientInit, Announced
<1> QED BY <1>1, <1>2, <1>3, <1>4, <1>6 DEF LInv, FreshCtl

(* Nobody closes a user whose backend is still to come.                    *)
LEMMA UnderwayStaysOpen ==
  ASSUME TypeOK, PInv, BoundBothWays, FailedForGood, FirstSession', FreshCtl, Announced,
         [Next]_vars, NEW u \in Users, Underway(u)'
  PROVE  uEnd'[u] = "open"
<1>1. CASE UserActive(u) BY <1>1 DEF UserActive, TypeOK, ServerTypeOK
<1>2. CASE Underway(u)
  <2>1. uEnd[u] = "open" /\ uNext[u] = None BY <1>2, UnderwayUnbound DEF Announced
  <2>2. ~ConfigStep /\ \A c \in Ctls : ~ServerCtlInactive(c) BY SessionBefore
  <2>3. ~UserInactive(u) /\ ~UserInactiveUnrouted(u)
    BY <2>1 DEF UserInactive, UserInactiveUnrouted, UserGone
  <2>4. ASSUME NEW p \in Proxies, pNext[p] = u PROVE FALSE
    BY <2>1, <2>4, LinksAssumption DEF BoundBothWays
  <2>5. ASSUME NEW c \in Ctls, RecvDisconnectOnCtl(c), Head(toS[c]).user = u PROVE FALSE
    <3>1. /\ toS[c] \in Seq(Message) /\ toS[c] # <<>>
          /\ Head(toS[c]).type = "disconnect" /\ Head(toS[c]).user = u
      BY <2>5 DEF RecvDisconnectOnCtl, AtServer, TypeOK, LinksTypeOK, Conns
    <3>2. 1 \in DOMAIN toS[c] /\ Head(toS[c]) = toS[c][1] BY <3>1, ReadQueue
    <3>3. rEnd[u] \in {"closed", "stranded"} /\ rNext[u] = None
      BY <3>1, <3>2 DEF FailedForGood, Reports
    <3>4. \A p \in Proxies : rNext[u] # p BY <3>3, LinksAssumption
    <3> QED BY <1>2, <3>3, <3>4 DEF Underway, PInv, AskedBackend, BoundOnce
  <2> QED BY <2>1, <2>2, <2>3, <2>4, <2>5, CloseStep
<1> QED BY <1>1, <1>2, UnderwayStep

LEMMA DisconnectSent ==
  ASSUME TypeOK, NEW u \in Users, NEW p \in Proxies, UserInactive(u), uNext[u] = p, Linked(p)
  PROVE  Ends(toC'[p])
<1>1. p # None /\ p \in Conns /\ toC[p] \in Seq(Message) /\ DisconnectMsg(u) \in Message
  BY LinksAssumption, MessageTypes DEF Conns, TypeOK, LinksTypeOK
<1>2. SendToC(p, DisconnectMsg(u)) BY <1>1 DEF UserInactive, ReleaseProxy, Linked
<1>3. toC'[p] = Append(toC[p], DisconnectMsg(u)) BY <1>1, <1>2, SentOn DEF TypeOK
<1>4. Sent(Append(toC[p], DisconnectMsg(u)), DisconnectMsg(u)) BY <1>1, SentMore
<1>5. DisconnectMsg(u).type = "disconnect" BY DEF DisconnectMsg
<1> QED BY <1>3, <1>4, <1>5 DEF Sent, Ends

(* The phases of a data connection at the client, one step on.             *)
LEMMA StillAnnounced ==
  ASSUME TypeOK, SInv, BInv, BoundBothWays, Announced, [Next]_vars,
         NEW p \in Proxies, NEW u \in Users, cNext[p] = u, cNext'[p] = u, Linked(p)'
  PROVE  u \in Asked(toS'[p]) \/ Uses(u, p)' \/ Ends(toC'[p])
<1>0. /\ PInv /\ SupervisedOnce /\ p \in Conns /\ p \notin Ctls /\ p # None /\ u # None
      /\ toS[p] \in Seq(Message) /\ toC[p] \in Seq(Message)
  BY LinksAssumption DEF BInv, Conns, TypeOK, LinksTypeOK
<1>1. sEnd[p] # "unused" BY <1>0 DEF PInv, FreshConn
<1>2. Linked(p) BY <1>0, <1>1, LinkedBefore
<1>3. CASE u \in Asked(toS[p])
  <2>1. PICK m \in Message : Sent(toS[p], m) /\ m.type = "connect" /\ m.user = u
    <3>1. PICK k \in DOMAIN toS[p] : toS[p][k].type = "connect" /\ toS[p][k].user = u
      BY <1>3 DEF Asked
    <3>2. toS[p][k] \in Message BY <1>0, LenProperties, ElementOfSeq
    <3> QED BY <3>1, <3>2 DEF Sent
  <2>2. CASE StaysToS(p, m)
    <3>1. Sent(toS'[p], m) BY <2>1, <2>2 DEF StaysToS, Sent
    <3> QED BY <2>1, <3>1 DEF Sent, Asked
  <2>3. CASE ReadsAtServer(p) /\ Head(toS[p]) = m
    <3>1. Head(toS[p]).user = u /\ Head(toS[p]).type = "connect" BY <2>1, <2>3
    <3>2. BindUser(p) \/ RecvConnectGone(p)
      BY <1>0, <2>3, <3>1
         DEF ReadsAtServer, RecvTransferAtServer, RecvDisconnectAtServer, AtServer
    <3>3. uEnd[u] = "open" BY <1>3 DEF Announced, Underway
    <3>4. ~RecvConnectGone(p)
      BY <3>1, <3>3 DEF RecvConnectGone, SInv, OpenUserSupervised
    <3>5. uNext'[u] = p /\ uEnd'[u] = "open"
      BY <3>1, <3>2, <3>3, <3>4 DEF BindUser, TypeOK, ServerTypeOK
    <3> QED BY <3>5 DEF Uses
  <2> QED BY <1>0, <1>1, <2>2, <2>3, StepStays
<1>4. CASE Uses(u, p)
  <2>1. uNext[u] = p /\ uNext'[u] = p /\ uEnd[u] # "closed"
    BY <1>0, <1>4, BindsOnce DEF Uses
  <2>2. CASE uEnd'[u] # "closed" BY <2>1, <2>2 DEF Uses
  <2>3. CASE UserInactive(u) BY <1>2, <2>1, <2>3, DisconnectSent
  <2>4. ~UserInactiveUnrouted(u)
    BY <1>0, <2>1 DEF Announced, UserInactiveUnrouted
  <2> QED BY <2>1, <2>2, <2>3, <2>4, CloseStep
<1>5. CASE Ends(toC[p])
  <2>1. PICK m \in Message : Sent(toC[p], m) /\ m.type = "disconnect"
    <3>1. PICK k \in DOMAIN toC[p] : toC[p][k].type = "disconnect" BY <1>5 DEF Ends
    <3>2. toC[p][k] \in Message BY <1>0, LenProperties, ElementOfSeq
    <3> QED BY <3>1, <3>2 DEF Sent
  <2>2. CASE StaysToC(p, m)
    <3>1. Sent(toC'[p], m) BY <2>1, <2>2 DEF StaysToC, Sent
    <3> QED BY <2>1, <3>1 DEF Sent, Ends
  <2>3. ASSUME ReadsAtClient(p), Head(toC[p]) = m PROVE FALSE
    <3>1. RecvDisconnectAtClient(p)
      BY <1>0, <2>1, <2>3 DEF ReadsAtClient, RecvTransferAtClient, AtClient
    <3>2. cNext'[p] = None
      BY <1>0, <3>1 DEF RecvDisconnectAtClient, TypeOK, ClientTypeOK
    <3> QED BY <1>0, <3>2
  <2> QED BY <1>0, <1>1, <2>2, <2>3, StepStays
<1> QED BY <1>0, <1>2, <1>3, <1>4, <1>5 DEF Announced

(* ... and its first.                                                      *)
LEMMA BoundAnnounced ==
  ASSUME TypeOK, [Next]_vars,
         NEW p \in Proxies, NEW u \in Users, cNext[p] # u, cNext'[p] = u, Linked(p)'
  PROVE  u \in Asked(toS'[p])
<1>0. p \in Conns /\ u # None /\ toS[p] \in Seq(Message)
  BY LinksAssumption DEF Conns, TypeOK, LinksTypeOK
<1> USE DEF TypeOK, ClientTypeOK
<1>1. CASE UNCHANGED cNext BY <1>1
<1>2. ASSUME NEW v \in Users, BindPolled(v) PROVE u \in Asked(toS'[p])
  <2>1. v = u /\ p = rNext[v] /\ SendToS(p, ConnectMsg(u)) /\ Linked(p)
    BY <1>2 DEF BindPolled, Bind, Linked
  <2>2. toS'[p] = Append(toS[p], ConnectMsg(u)) BY <1>0, <2>1, SentOn
  <2>3. Asked(Append(toS[p], ConnectMsg(u))) = Asked(toS[p]) \cup {u} BY <1>0, AskedMore
  <2> QED BY <2>2, <2>3
<1>3. ASSUME NEW v \in Users, NEW q \in Proxies, ProxyConnected(v, q) PROVE u \in Asked(toS'[p])
  <2>1. v = u /\ p = q /\ toS'[p] = <<ConnectMsg(u)>>
    BY <1>0, <1>3 DEF ProxyConnected, Bind, LinksTypeOK
  <2>2. /\ 1 \in DOMAIN <<ConnectMsg(u)>>
        /\ <<ConnectMsg(u)>>[1].type = "connect" /\ <<ConnectMsg(u)>>[1].user = u
    BY DEF ConnectMsg
  <2> QED BY <2>1, <2>2 DEF Asked
<1>4. ASSUME NEW q \in Proxies, RecvDisconnectAtClient(q) PROVE cNext'[p] \in {cNext[p], None}
  BY <1>4 DEF RecvDisconnectAtClient
<1>5. CASE Quiet BY <1>1, <1>5 DEF Quiet
<1>6. CASE ClientUnchanged BY <1>1, <1>6 DEF ClientUnchanged, clientVars
<1>7. ASSUME NEW q \in Proxies, RecvTransferAtClient(q) \/ ClientProxyInactive(q)
      PROVE  UNCHANGED cNext
  BY <1>7 DEF RecvTransferAtClient, ClientProxyInactive
<1>8. ASSUME NEW c \in Ctls, RecvConnectOnCtl(c) PROVE UNCHANGED cNext
  BY <1>8 DEF RecvConnectOnCtl
<1>9. ASSUME NEW v \in Users, RealConnectedPooled(v) PROVE UNCHANGED cNext
  BY <1>9 DEF RealConnectedPooled
<1> QED BY <1>0, <1>1, <1>2, <1>3, <1>4, <1>5, <1>6, <1>7, <1>8, <1>9, QuietOrLoud DEF Loud

(* One step of the invariant, inside the first session and out of it.      *)
LEMMA StepLInv == TypeOK /\ SInv /\ SInv' /\ BInv /\ LInv /\ [Next]_vars => LInv'
<1> SUFFICES ASSUME TypeOK, SInv, SInv', BInv, LInv, [Next]_vars PROVE LInv' OBVIOUS
<1>0. PInv /\ BoundBothWays /\ FailedForGood /\ FreshCtl BY DEF BInv, LInv
<1>1. BoundBothWays' /\ FailedForGood' /\ FreshCtl'
  BY <1>0, StepBothWays, StepFailed, StepFreshCtl
<1>2. ASSUME FirstSession' PROVE Announced'
  <2>1. FirstSession BY <1>0, <1>2, SessionBefore
  <2>2. Announced BY <2>1 DEF LInv
  <2>3. /\ granted' /\ portCmd' = cmd'
        /\ \A u \in Users : uNext'[u] # None => cmd' # None
    BY <1>0, <1>2, <2>1, <2>2, RouteStays
  <2>4. \A u \in Users : Underway(u)' => uEnd'[u] = "open"
    BY <1>0, <1>2, <2>2, UnderwayStaysOpen
  <2>5. ASSUME NEW p \in Proxies, NEW u \in Users, cNext'[p] = u, Linked(p)'
        PROVE  u \in Asked(toS'[p]) \/ Uses(u, p)' \/ Ends(toC'[p])
    BY <1>0, <2>2, <2>5, StillAnnounced, BoundAnnounced
  <2> QED BY <2>3, <2>4, <2>5 DEF Announced, Zenon
<1> QED BY <1>1, <1>2 DEF LInv

LEMMA SpecLInv == Spec => []LInv
BY InitLInv, StepLInv, SpecBInv, SpecSInv, TypeCorrect, PTL DEF Spec

(* handleConnectMessage binds a user at most once, and in the first        *)
(* session never one that has left or is being closed, however the lookup  *)
(* and the binding interleave with the handlers of the user.               *)
THEOREM UsersBindOnceWhileOpen == Spec => BindOnceWhileOpen
<1> DEFINE Once == \A u \in Users : uNext'[u] # uNext[u]
                     => uNext[u] = None /\ (FirstSession => uEnd[u] = "open")
<1>1. TypeOK /\ BInv /\ LInv /\ [Next]_vars => Once
  <2> SUFFICES ASSUME TypeOK, BInv, LInv, [Next]_vars, NEW u \in Users, uNext'[u] # uNext[u]
               PROVE  uNext[u] = None /\ (FirstSession => uEnd[u] = "open")
    OBVIOUS
  <2>1. uNext[u] = None /\ \E p \in Proxies : u \in Asked(toS[p]) BY BindsOnce
  <2> QED BY <2>1 DEF LInv, Announced, Underway
<1>2. [Next]_vars /\ UNCHANGED vars => Once BY DEF vars, serverVars
<1> QED BY <1>1, <1>2, TypeCorrect, SpecBInv, SpecLInv, PTL DEF Spec, BindOnceWhileOpen

(* UserChannelHandler.channelInactive tells the client of every user that  *)
(* has left, on the data connection the client has bound to it, as long as *)
(* no control connection has failed and no port was reconfigured.          *)
THEOREM LeftUsersAreAnnounced == Spec => []LeftUserAnnounced
<1>1. LInv => LeftUserAnnounced
  <2> SUFFICES ASSUME LInv, FirstSession, NEW p \in Proxies, NEW u \in Users,
                      cNext[p] = u, uEnd[u] = "closed", Linked(p)
               PROVE  Ends(toC[p])
    BY DEF LeftUserAnnounced, Ends
  <2>1. u \in Asked(toS[p]) \/ Uses(u, p) \/ Ends(toC[p]) BY DEF LInv, Announced
  <2>2. ~Underway(u) BY DEF LInv, Announced
  <2> QED BY <2>1, <2>2 DEF Underway, Uses
<1> QED BY <1>1, SpecLInv, PTL

(* What BackendReleased rests on: a backend that is still open although    *)
(* its user has left has an event to come that will close it: DISCONNECT   *)
(* is on its way on its own data connection, or that connection has failed *)
(* and the client's channelInactive of it will run.                        *)
LeftBackendHasAnEnd == FirstSession => \A u \in Users :
  rEnd[u] = "open" /\ uEnd[u] = "closed" =>
    /\ cNext[rNext[u]] = u
    /\ ~Linked(rNext[u]) \/ Ends(toC[rNext[u]])

(* A user that leaves (UserChannelHandler.channelInactive) leaves no       *)
(* backend connection open that nothing will close.                        *)
THEOREM LeftBackendsHaveAnEnd == Spec => []LeftBackendHasAnEnd
<1>1. TypeOK /\ PInv /\ AInv /\ LeftUserAnnounced => LeftBackendHasAnEnd
  <2> SUFFICES ASSUME TypeOK, PInv, AInv, LeftUserAnnounced, FirstSession,
                      NEW u \in Users, rEnd[u] = "open", uEnd[u] = "closed"
               PROVE  /\ cNext[rNext[u]] = u
                      /\ ~Linked(rNext[u]) \/ Ends(toC[rNext[u]])
    BY DEF LeftBackendHasAnEnd
  <2>1. rNext[u] \in Proxies BY DEF PInv, BackendOnce, TypeOK, ClientTypeOK
  <2>2. cNext[rNext[u]] = u BY DEF AInv, Attached
  <2> QED BY <2>1, <2>2 DEF LeftUserAnnounced, Ends
<1>2. BInv => PInv BY DEF BInv
<1> QED BY <1>1, <1>2, TypeCorrect, SpecBInv, SpecAInv, LeftUsersAreAnnounced, PTL
==============================================================================
