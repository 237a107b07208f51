---------------------------- MODULE RegistryProofs ----------------------------
(***************************************************************************)
(* Type correctness, RegisteredReady and RoutesExact of Registry, for any  *)
(* keys, ports, connections and configurations in which no two keys have a *)
(* port in common.                                                         *)
(***************************************************************************)
EXTENDS Registry, TLAPS

(* A thread that removes or updates a connection works on one whose        *)
(* attributes are set; so does the thread that is about to publish one.    *)
WorksOnReady ==
  /\ \A t \in Threads : pc[t] \in RemovalPC \cup {"update", "drop", "add"} => ch[t] \in attrs
  /\ \A c \in Chans : pc[c] = "publish" => c \in attrs

OwnChannel == \A c \in Chans : ch[c] = c

HoldsRoute == \A t \in Threads : pc[t] = "reroute" => held[t] # <<>>

IInv == TypeOK /\ RegisteredReady /\ WorksOnReady /\ OwnChannel /\ HoldsRoute

USE RegistryAssumption DEF Threads, AuthPC, RemovalPC, ChangePC

LEMMA InitIInv == Init => IInv
<1> SUFFICES ASSUME Init PROVE IInv OBVIOUS
<1> USE DEF Init
<1>1. version \in 1..Len(Versions) BY RegistryAssumption
<1>2. ch \in [Threads -> Chans \cup {None}] OBVIOUS
<1>3. held \in [Threads -> {<<>>} \cup (Ports \X Chans)] OBVIOUS
<1>4. TypeOK BY <1>1, <1>2, <1>3 DEF TypeOK
<1>5. RegisteredReady /\ WorksOnReady /\ HoldsRoute
  BY DEF RegisteredReady, WorksOnReady, HoldsRoute
<1>6. OwnChannel BY RegistryAssumption DEF OwnChannel
<1> QED BY <1>4, <1>5, <1>6 DEF IInv

(* What a configuration gives a key is a set of ports.                     *)
LEMMA ConfigPorts == ASSUME TypeOK, NEW k \in DOMAIN Config
                     PROVE k \in Keys /\ Config[k] \subseteq Ports
BY DEF TypeOK, Config

LEMMA AuthStep == ASSUME IInv, NEW c \in Chans, Auth(c) PROVE IInv'
<1> USE DEF IInv, TypeOK, RegisteredReady, WorksOnReady, OwnChannel, HoldsRoute, Goto
<1>1. CASE AuthRejected(c) BY <1>1 DEF AuthRejected
<1>2. CASE AuthBegin(c)
  <2>1. Config[KeyOf[c]] \subseteq Ports BY <1>2, ConfigPorts DEF AuthBegin
  <2> QED BY <1>2, <2>1 DEF AuthBegin
<1>3. CASE AuthExists(c) BY <1>3 DEF AuthExists
<1>4. CASE AuthFree(c) BY <1>4 DEF AuthFree
<1>5. CASE AuthLock(c) BY <1>5 DEF AuthLock
<1>6. CASE AuthRoute(c) BY <1>6 DEF AuthRoute
<1>7. CASE AuthUnlock(c) BY <1>7 DEF AuthUnlock
<1>8. CASE AuthAttrs(c) BY <1>8 DEF AuthAttrs
<1>9. CASE AuthPublish(c) BY <1>9 DEF AuthPublish
<1> QED BY <1>1, <1>2, <1>3, <1>4, <1>5, <1>6, <1>7, <1>8, <1>9 DEF Auth

LEMMA ConnectionStep ==
  ASSUME IInv, NEW c \in Chans, Disconnect(c) \/ InactiveUnknown(c) \/ Inactive(c)
  PROVE  IInv'
<1> USE DEF IInv, TypeOK, RegisteredReady, WorksOnReady, OwnChannel, HoldsRoute, Goto
<1>1. CASE Disconnect(c) BY <1>1 DEF Disconnect
<1>2. CASE InactiveUnknown(c) BY <1>2 DEF InactiveUnknown
<1>3. CASE Inactive(c) BY <1>3 DEF Inactive
<1> QED BY <1>1, <1>2, <1>3

(* removeCmdChannel puts a connection back under its own key, with its     *)
(* attributes set.                                                         *)
LEMMA RemovalStep == ASSUME IInv, NEW t \in Threads, Removal(t) PROVE IInv'
<1> USE DEF IInv, TypeOK, RegisteredReady, WorksOnReady, OwnChannel, HoldsRoute, Goto,
            After, Key
<1>1. ch[t] \in attrs /\ ch[t] \in Chans /\ KeyOf[ch[t]] \in Keys
  BY DEF Removal, Deregister, Restore, Unroute, Reroute, UnrouteDone, UnrouteThrows,
         CloseChannel
<1>2. CASE Deregister(t) BY <1>1, <1>2, SMTT(60) DEF Deregister, StartUnroute
<1>3. CASE Restore(t) BY <1>1, <1>3 DEF Restore, StartUnroute
<1>4. CASE Unroute(t)
  <2> PICK p \in rest[t] :
        /\ portCmd' = [portCmd EXCEPT ![p] = None]
        /\ rest' = [rest EXCEPT ![t] = @ \ {p}]
        /\ IF Foreign(t, p)
           THEN /\ held' = [held EXCEPT ![t] = <<p, portCmd[p]>>]
                /\ Goto(t, "reroute")
           ELSE UNCHANGED <<pc, held>>
    BY <1>4 DEF Unroute
  <2>1. p \in Ports /\ portCmd[p] \in Chans \cup {None} OBVIOUS
  <2>2. CASE Foreign(t, p)
    <3>1. <<p, portCmd[p]>> \in Ports \X Chans /\ <<p, portCmd[p]>> # <<>>
      BY <2>1, <2>2 DEF Foreign
    <3>2. /\ held' \in [Threads -> {<<>>} \cup (Ports \X Chans)]
          /\ held'[t] # <<>>
          /\ \A s \in Threads \ {t} : held'[s] = held[s]
      <4> DEFINE r == <<p, portCmd[p]>>
      <4>1. held' = [held EXCEPT ![t] = r] BY <2>2
      <4>2. r \in Ports \X Chans /\ r # <<>> BY <3>1
      <4> HIDE DEF r
      <4> QED BY <4>1, <4>2
    <3>3. HoldsRoute' BY <1>4, <2>2, <3>2 DEF Unroute
    <3>4. TypeOK' BY <1>4, <2>1, <2>2, <3>2 DEF Unroute
    <3>5. RegisteredReady' /\ WorksOnReady' /\ OwnChannel'
      BY <1>1, <1>4, <2>2 DEF Unroute
    <3> QED BY <3>3, <3>4, <3>5
  <2>3. CASE ~Foreign(t, p) BY <1>1, <1>4, <2>1, <2>3 DEF Unroute
  <2> QED BY <2>2, <2>3
<1>5. CASE Reroute(t)
  <2>1. held[t] \in Ports \X Chans BY <1>5 DEF Reroute
  <2>2. held[t][1] \in Ports /\ held[t][2] \in Chans BY <2>1
  <2> QED BY <1>1, <1>5, <2>2 DEF Reroute
<1>6. CASE UnrouteDone(t) BY <1>1, <1>6 DEF UnrouteDone
<1>7. CASE UnrouteThrows(t) BY <1>1, <1>7 DEF UnrouteThrows
<1>8. CASE CloseChannel(t) BY <1>1, <1>8 DEF CloseChannel
<1> QED BY <1>2, <1>3, <1>4, <1>5, <1>6, <1>7, <1>8 DEF Removal

LEMMA ChangeStep == ASSUME IInv, Change PROVE IInv'
<1> USE DEF IInv, TypeOK, RegisteredReady, WorksOnReady, OwnChannel, HoldsRoute, Goto
<1>1. CASE ConfigSave BY <1>1 DEF ConfigSave
<1>2. ASSUME NEW k \in Keys, VisitSkip(k) PROVE IInv' BY <1>2 DEF VisitSkip
<1>3. ASSUME NEW k \in Keys, VisitRemoved(k) PROVE IInv' BY <1>3 DEF VisitRemoved
<1>4. ASSUME NEW k \in Keys, VisitKept(k) PROVE IInv'
  <2>1. Config[k] \subseteq Ports BY <1>4, ConfigPorts DEF VisitKept
  <2> QED BY <1>4, <2>1 DEF VisitKept
<1>5. CASE VisitEnd BY <1>5 DEF VisitEnd
<1>6. CASE UpdateLock BY <1>6 DEF UpdateLock
<1>7. ASSUME NEW p \in Ports, DropPort(p) PROVE IInv' BY <1>7 DEF DropPort
<1>8. CASE DropEnd BY <1>8 DEF DropEnd
<1>9. ASSUME NEW p \in Ports, AddPort(p) PROVE IInv' BY <1>9 DEF AddPort
<1>10. CASE AddEnd BY <1>10 DEF AddEnd
<1> QED BY <1>1, <1>2, <1>3, <1>4, <1>5, <1>6, <1>7, <1>8, <1>9, <1>10, Change DEF Change

LEMMA StepIInv == IInv /\ [Next]_vars => IInv'
<1> SUFFICES ASSUME IInv, [Next]_vars PROVE IInv' OBVIOUS
<1>1. CASE UNCHANGED vars
  BY <1>1 DEF vars, IInv, TypeOK, RegisteredReady, WorksOnReady, OwnChannel, HoldsRoute
<1>2. CASE Next BY <1>2, AuthStep, ConnectionStep, RemovalStep, ChangeStep DEF Next
<1> QED BY <1>1, <1>2

THEOREM SpecIInv == Spec => []IInv
BY InitIInv, StepIInv, PTL DEF Spec

(* Every variable of the registries keeps its type.                        *)
THEOREM TypeCorrect == Spec => []TypeOK
<1>1. IInv => TypeOK BY DEF IInv
<1> QED BY <1>1, SpecIInv, PTL

(* Whatever onChanged or a data connection finds in cmdChannels has its    *)
(* attributes set and is the connection of that key, in every interleaving *)
(* of AUTHs, disconnects and configuration changes.                        *)
THEOREM RegisteredConnectionsAreReady == Spec => []RegisteredReady
<1>1. IInv => RegisteredReady BY DEF IInv
<1> QED BY <1>1, SpecIInv, PTL
------------------------------------------------------------------------------
(* removeCmdChannel is about to put back the connection it removes.        *)
Doomed == disturbed \/ \E t \in Threads : pc[t] = "restore"

(* What `disturbed' leaves out.                                            *)
Alone == /\ pc[Web] \in {"idle"} \cup RemovalPC \cup ChangePC
         /\ Busy(Web) => \A c \in Chans : ~Busy(c)
         /\ \A c, d \in Chans : pc[c] \in RemovalPC /\ pc[d] \in RemovalPC => c = d
         /\ \A c, d \in Chans : /\ pc[c] \in AuthPC /\ pc[d] \in AuthPC
                                /\ KeyOf[c] = KeyOf[d]
                                => c = d

Authing == {"lock", "route", "attrs", "publish"}
Losing  == {"unroute", "reroute", "close"}

(* Where the connection of a key is in its life.                           *)
Life ==
  /\ \A c \in attrs : pc[c] \in {"publish", "ready", "done"} \cup RemovalPC
  /\ \A c \in Chans : cmd[KeyOf[c]] = c => pc[c] \in {"ready", "deregister"}
  /\ \A c \in Chans : pc[c] \in Authing => cmd[KeyOf[c]] = None
  /\ \A t \in Threads : pc[t] \in Losing => cmd[KeyOf[ch[t]]] # ch[t]
  /\ pc[Web] \in {"deregister", "update", "drop", "add"} => cmd[KeyOf[ch[Web]]] = ch[Web]
  /\ pc[Web] \in {"update", "drop", "add"} => KeyOf[ch[Web]] \in DOMAIN Config

(* The lists of ports that the loops run over.                             *)
Lists ==
  /\ \A c \in Chans : /\ pc[c] \in AuthPC => KeyOf[c] \in DOMAIN Config
                      /\ pc[c] \in {"check", "lock", "route", "attrs"}
                         => list[c] = Config[KeyOf[c]]
                      /\ pc[c] \in {"check", "lock"} => rest[c] = list[c]
                      /\ pc[c] = "route" => rest[c] \subseteq list[c]
                      /\ pc[c] = "publish" => chanPorts[c] = Config[KeyOf[c]]
  /\ \A t \in Threads : pc[t] \in {"unroute", "reroute"} => list[t] = chanPorts[ch[t]]

(* A port leads to a connection that has it and that somebody will remove. *)
Leads(p, d) ==
  \/ pc[d] \in {"route", "attrs"} /\ p \in list[d]
  \/ /\ d \in attrs /\ p \in chanPorts[d]
     /\ \/ pc[d] = "publish"
        \/ cmd[KeyOf[d]] = d
        \/ \E t \in Threads : ch[t] = d /\ pc[t] \in {"unroute", "reroute"} /\ p \in rest[t]

Leading ==
  /\ \A p \in Ports : portCmd[p] # None => Leads(p, portCmd[p])
  /\ \A t \in Threads : pc[t] = "reroute" => /\ Leads(held[t][1], held[t][2])
                                             /\ held[t][2] # ch[t]

(* A connection has a route, or removeCmdChannel holds it to put it back.  *)
Has(c, p) == portCmd[p] = c \/ \E t \in Threads : pc[t] = "reroute" /\ held[t] = <<p, c>>

AuthRoutes ==
  \A c \in Chans : /\ pc[c] = "route" => \A p \in list[c] : p \in rest[c] \/ Has(c, p)
                   /\ pc[c] \in {"attrs", "publish"} => \A p \in Config[KeyOf[c]] : Has(c, p)

(* onChanged has brought the routes of the key up to date.                 *)
Visited(k) == \/ pc[Web] = "idle"
              \/ /\ k \notin todo
                 /\ pc[Web] \in {"update", "drop", "add", "deregister"} => KeyOf[ch[Web]] # k

Served ==
  \A k \in Keys : cmd[k] # None /\ alive[cmd[k]] /\ Visited(k)
                  => k \in DOMAIN Config /\ \A p \in Ports : p \in Config[k] <=> Has(cmd[k], p)

Updating ==
  LET c == ch[Web]  ports == Config[KeyOf[ch[Web]]] IN
  /\ pc[Web] \in {"update", "drop", "add"}
     => adds \subseteq ports /\ \A p \in ports : p \in adds \/ portCmd[p] = c
  /\ pc[Web] \in {"update", "drop"}
     => \A p \in Ports : portCmd[p] = c => p \in rest[Web] \cup ports
  /\ pc[Web] = "add" => \A p \in Ports : portCmd[p] = c => p \in ports

RInv == ~Doomed => Alone /\ Life /\ Lists /\ Leading /\ AuthRoutes /\ Served /\ Updating
------------------------------------------------------------------------------

LEMMA PortsDisjoint ==
  ASSUME TypeOK, NEW j \in DOMAIN Config, NEW k \in DOMAIN Config, j # k
  PROVE  Config[j] \cap Config[k] = {}
BY DEF TypeOK, Config

(* Steps that neither move a route nor begin or end to hold one.           *)
LEMMA SameHas ==
  ASSUME UNCHANGED <<portCmd, held>>,
         \A t \in Threads : pc'[t] = "reroute" <=> pc[t] = "reroute"
  PROVE  \A c \in Chans, p \in Ports : Has(c, p)' <=> Has(c, p)
BY DEF Has

(* Nobody has or loses a route while removeCmdChannel holds it, or when it  *)
(* takes or puts back another connection's.                                *)
LEMMA HasMoves ==
  ASSUME TypeOK, NEW t \in Threads, NEW p \in Ports, NEW e \in Chans,
         \A s \in Threads \ {t} : pc[s] # "reroute" /\ pc'[s] # "reroute",
         \/ /\ portCmd[p] = e /\ portCmd' = [portCmd EXCEPT ![p] = None]
            /\ pc[t] # "reroute" /\ pc'[t] = "reroute" /\ held'[t] = <<p, e>>
         \/ /\ portCmd[p] = None /\ portCmd' = [portCmd EXCEPT ![p] = e]
            /\ pc[t] = "reroute" /\ pc'[t] # "reroute" /\ held[t] = <<p, e>>
  PROVE  \A d \in Chans, q \in Ports : Has(d, q)' <=> Has(d, q)
<1> TAKE d \in Chans, q \in Ports
<1>1. portCmd \in [Ports -> Chans \cup {None}] /\ None \notin Chans BY DEF TypeOK
<1>2. CASE q # p
  <2>1. portCmd'[q] = portCmd[q] BY <1>1, <1>2
  <2>2. <<p, e>> # <<q, d>> BY <1>2
  <2> QED BY <2>1, <2>2 DEF Has
<1>3. CASE q = p /\ d # e
  <2>1. <<p, e>> # <<q, d>> BY <1>3
  <2>2. portCmd[q] # d /\ portCmd'[q] # d BY <1>1, <1>3
  <2> QED BY <2>1, <2>2 DEF Has
<1>4. CASE q = p /\ d = e
  <2>1. \/ portCmd[p] = e /\ pc'[t] = "reroute" /\ held'[t] = <<p, e>>
        \/ portCmd'[p] = e /\ pc[t] = "reroute" /\ held[t] = <<p, e>>
    BY <1>1
  <2>2. Has(e, p) /\ Has(e, p)' BY <2>1 DEF Has
  <2> QED BY <1>4, <2>2
<1> QED BY <1>2, <1>3, <1>4

(* Operations that may disturb each other do not overlap.                  *)
LEMMA AloneStep ==
  ASSUME IInv, RInv, ~Doomed, ~Doomed', [Next]_vars
  PROVE  Alone'
<1> USE DEF IInv, TypeOK, WorksOnReady, OwnChannel, HoldsRoute, RegisteredReady, RInv,
    Doomed, Goto, Busy, Alone
<1>1. ASSUME NEW c \in Chans, AuthRejected(c) PROVE Alone'
  <2>1. Config' = Config BY <1>1 DEF AuthRejected, Config
  <2> QED BY <1>1, <2>1 DEF AuthRejected
<1>2. ASSUME NEW c \in Chans, AuthBegin(c) PROVE Alone'
  <2>1. Config' = Config BY <1>2 DEF AuthBegin, Config
  <2> QED BY <1>2, <2>1 DEF AuthBegin, AuthClash
<1>3. ASSUME NEW c \in Chans, AuthExists(c) PROVE Alone'
  <2>1. Config' = Config BY <1>3 DEF AuthExists, Config
  <2> QED BY <1>3, <2>1 DEF AuthExists
<1>4. ASSUME NEW c \in Chans, AuthFree(c) PROVE Alone'
  <2>1. Config' = Config BY <1>4 DEF AuthFree, Config
  <2> QED BY <1>4, <2>1 DEF AuthFree
<1>5. ASSUME NEW c \in Chans, AuthLock(c) PROVE Alone'
  <2>1. Config' = Config BY <1>5 DEF AuthLock, Config
  <2> QED BY <1>5, <2>1 DEF AuthLock
<1>6. ASSUME NEW c \in Chans, AuthRoute(c) PROVE Alone'
  <2>1. Config' = Config BY <1>6 DEF AuthRoute, Config
  <2> QED BY <1>6, <2>1 DEF AuthRoute
<1>7. ASSUME NEW c \in Chans, AuthUnlock(c) PROVE Alone'
  <2>1. Config' = Config BY <1>7 DEF AuthUnlock, Config
  <2> QED BY <1>7, <2>1 DEF AuthUnlock
<1>8. ASSUME NEW c \in Chans, AuthAttrs(c) PROVE Alone'
  <2>1. Config' = Config BY <1>8 DEF AuthAttrs, Config
  <2> QED BY <1>8, <2>1 DEF AuthAttrs
<1>9. ASSUME NEW c \in Chans, AuthPublish(c) PROVE Alone'
  <2>1. Config' = Config BY <1>9 DEF AuthPublish, Config
  <2> QED BY <1>9, <2>1 DEF AuthPublish
<1>10. ASSUME NEW c \in Chans, Disconnect(c) PROVE Alone'
  <2>1. Config' = Config BY <1>10 DEF Disconnect, Config
  <2> QED BY <1>10, <2>1 DEF Disconnect
<1>11. ASSUME NEW c \in Chans, InactiveUnknown(c) PROVE Alone'
  <2>1. Config' = Config BY <1>11 DEF InactiveUnknown, Config
  <2> QED BY <1>11, <2>1 DEF InactiveUnknown
<1>12. ASSUME NEW c \in Chans, Inactive(c) PROVE Alone'
  <2>1. ~Busy(Web) /\ \A d \in Chans \ {c} : pc[d] \notin RemovalPC
    BY <1>12 DEF Inactive, RemovalClash
  <2>2. pc' = [pc EXCEPT ![c] = "deregister"] /\ c # Web BY <1>12 DEF Inactive
  <2> QED BY <2>1, <2>2
<1>13. ASSUME NEW t \in Threads, Deregister(t) PROVE Alone'
  <2>1. Config' = Config BY <1>13 DEF Deregister, Config
  <2> QED BY <1>13, <2>1 DEF Deregister, StartUnroute, Key
<1>14. ASSUME NEW t \in Threads, Restore(t) PROVE Alone'
  <2>1. Config' = Config BY <1>14 DEF Restore, Config
  <2> QED BY <1>14, <2>1 DEF Restore, StartUnroute, Key
<1>15. ASSUME NEW t \in Threads, Unroute(t) PROVE Alone'
  <2>1. Config' = Config BY <1>15 DEF Unroute, Config
  <2> QED BY <1>15, <2>1 DEF Unroute, Foreign
<1>16. ASSUME NEW t \in Threads, Reroute(t) PROVE Alone'
  <2>1. Config' = Config BY <1>16 DEF Reroute, Config
  <2> QED BY <1>16, <2>1 DEF Reroute
<1>17. ASSUME NEW t \in Threads, UnrouteDone(t) PROVE Alone'
  <2>1. Config' = Config BY <1>17 DEF UnrouteDone, Config
  <2> QED BY <1>17, <2>1 DEF UnrouteDone
<1>18. ASSUME NEW t \in Threads, UnrouteThrows(t) PROVE Alone'
  <2>1. Config' = Config BY <1>18 DEF UnrouteThrows, Config
  <2> QED BY <1>18, <2>1 DEF UnrouteThrows, After
<1>19. ASSUME NEW t \in Threads, CloseChannel(t) PROVE Alone'
  <2>1. Config' = Config BY <1>19 DEF CloseChannel, Config
  <2> QED BY <1>19, <2>1 DEF CloseChannel, After
<1>20. ASSUME NEW k \in Keys, VisitSkip(k) PROVE Alone'
  <2>1. Config' = Config BY <1>20 DEF VisitSkip, Config
  <2> QED BY <1>20, <2>1 DEF VisitSkip
<1>21. ASSUME NEW k \in Keys, VisitRemoved(k) PROVE Alone'
  <2>1. Config' = Config BY <1>21 DEF VisitRemoved, Config
  <2> QED BY <1>21, <2>1 DEF VisitRemoved
<1>22. ASSUME NEW k \in Keys, VisitKept(k) PROVE Alone'
  <2>1. Config' = Config BY <1>22 DEF VisitKept, Config
  <2> QED BY <1>22, <2>1 DEF VisitKept
<1>23. ASSUME NEW p \in Ports, DropPort(p) PROVE Alone'
  <2>1. Config' = Config BY <1>23 DEF DropPort, Config
  <2> QED BY <1>23, <2>1 DEF DropPort, Mine
<1>24. ASSUME NEW p \in Ports, AddPort(p) PROVE Alone'
  <2>1. Config' = Config BY <1>24 DEF AddPort, Config
  <2> QED BY <1>24, <2>1 DEF AddPort
<1>25. CASE VisitEnd
  <2>1. Config' = Config BY <1>25 DEF VisitEnd, Config
  <2> QED BY <1>25, <2>1 DEF VisitEnd
<1>26. CASE UpdateLock
  <2>1. Config' = Config BY <1>26 DEF UpdateLock, Config
  <2> QED BY <1>26, <2>1 DEF UpdateLock
<1>27. CASE DropEnd
  <2>1. Config' = Config BY <1>27 DEF DropEnd, Config
  <2> QED BY <1>27, <2>1 DEF DropEnd
<1>28. CASE AddEnd
  <2>1. Config' = Config BY <1>28 DEF AddEnd, Config
  <2> QED BY <1>28, <2>1 DEF AddEnd
<1>29. CASE ConfigSave
  <2>1. \A c \in Chans : ~Busy(c) BY <1>29 DEF ConfigSave
  <2>2. pc' = [pc EXCEPT ![Web] = "visit"] BY <1>29 DEF ConfigSave
  <2> QED BY <2>1, <2>2
<1>30. CASE UNCHANGED vars
  BY <1>30 DEF vars, Config
<1> HIDE DEF Alone, IInv, RInv, TypeOK
<1> QED BY <1>1, <1>2, <1>3, <1>4, <1>5, <1>6, <1>7, <1>8, <1>9, <1>10, <1>11, <1>12,
    <1>13, <1>14, <1>15, <1>16, <1>17, <1>18, <1>19, <1>20, <1>21, <1>22, <1>23, <1>24,
    <1>25, <1>26, <1>27, <1>28, <1>29, <1>30 DEF Next, Auth, Removal, Change

(* A removal deregisters the connection first, an AUTH registers it last.   *)
LEMMA LifeStep ==
  ASSUME IInv, RInv, ~Doomed, ~Doomed', Alone', [Next]_vars
  PROVE  Life'
<1> USE DEF IInv, TypeOK, WorksOnReady, OwnChannel, HoldsRoute, RegisteredReady, RInv,
    Doomed, Goto, Busy, Alone, Life, Losing, Authing
<1>1. ASSUME NEW c \in Chans, AuthRejected(c) PROVE Life'
  <2>1. Config' = Config BY <1>1 DEF AuthRejected, Config
  <2> QED BY <1>1, <2>1 DEF AuthRejected
<1>2. ASSUME NEW c \in Chans, AuthBegin(c) PROVE Life'
  <2>1. Config' = Config BY <1>2 DEF AuthBegin, Config
  <2> QED BY <1>2, <2>1 DEF AuthBegin, AuthClash
<1>3. ASSUME NEW c \in Chans, AuthExists(c) PROVE Life'
  <2>1. Config' = Config BY <1>3 DEF AuthExists, Config
  <2> QED BY <1>3, <2>1 DEF AuthExists
<1>4. ASSUME NEW c \in Chans, AuthFree(c) PROVE Life'
  <2>1. Config' = Config BY <1>4 DEF AuthFree, Config
  <2> QED BY <1>4, <2>1 DEF AuthFree
<1>5. ASSUME NEW c \in Chans, AuthLock(c) PROVE Life'
  <2>1. Config' = Config BY <1>5 DEF AuthLock, Config
  <2> QED BY <1>5, <2>1 DEF AuthLock
<1>6. ASSUME NEW c \in Chans, AuthRoute(c) PROVE Life'
  <2>1. Config' = Config BY <1>6 DEF AuthRoute, Config
  <2> QED BY <1>6, <2>1 DEF AuthRoute
<1>7. ASSUME NEW c \in Chans, AuthUnlock(c) PROVE Life'
  <2>1. Config' = Config BY <1>7 DEF AuthUnlock, Config
  <2> QED BY <1>7, <2>1 DEF AuthUnlock
<1>8. ASSUME NEW c \in Chans, AuthAttrs(c) PROVE Life'
  <2>1. Config' = Config BY <1>8 DEF AuthAttrs, Config
  <2> QED BY <1>8, <2>1 DEF AuthAttrs
<1>9. ASSUME NEW c \in Chans, AuthPublish(c) PROVE Life'
  <2>1. Config' = Config BY <1>9 DEF AuthPublish, Config
  <2> QED BY <1>9, <2>1 DEF AuthPublish
<1>10. ASSUME NEW c \in Chans, Disconnect(c) PROVE Life'
  <2>1. Config' = Config BY <1>10 DEF Disconnect, Config
  <2> QED BY <1>10, <2>1 DEF Disconnect
<1>11. ASSUME NEW c \in Chans, InactiveUnknown(c) PROVE Life'
  <2>1. Config' = Config BY <1>11 DEF InactiveUnknown, Config
  <2> QED BY <1>11, <2>1 DEF InactiveUnknown
<1>12. ASSUME NEW c \in Chans, Inactive(c) PROVE Life'
  <2>1. Config' = Config BY <1>12 DEF Inactive, Config
  <2> QED BY <1>12, <2>1 DEF Inactive, RemovalClash
<1>13. ASSUME NEW t \in Threads, Deregister(t) PROVE Life'
  <2>1. Config' = Config BY <1>13 DEF Deregister, Config
  <2> QED BY <1>13, <2>1, SMTT(40) DEF Deregister, StartUnroute, Key
<1>14. ASSUME NEW t \in Threads, Restore(t) PROVE Life'
  <2>1. Config' = Config BY <1>14 DEF Restore, Config
  <2> QED BY <1>14, <2>1 DEF Restore, StartUnroute, Key
<1>15. ASSUME NEW t \in Threads, Unroute(t) PROVE Life'
  <2>1. Config' = Config BY <1>15 DEF Unroute, Config
  <2> PICK p \in rest[t] :
        /\ portCmd' = [portCmd EXCEPT ![p] = None]
        /\ rest' = [rest EXCEPT ![t] = @ \ {p}]
        /\ IF Foreign(t, p)
           THEN /\ held' = [held EXCEPT ![t] = <<p, portCmd[p]>>]
                /\ Goto(t, "reroute")
           ELSE UNCHANGED <<pc, held>>
    BY <1>15 DEF Unroute

  <2>2. CASE Foreign(t, p) BY <1>15, <2>1, <2>2, SMTT(60) DEF Unroute
  <2>3. CASE ~Foreign(t, p) BY <1>15, <2>1, <2>3 DEF Unroute
  <2> QED BY <2>2, <2>3
<1>16. ASSUME NEW t \in Threads, Reroute(t) PROVE Life'
  <2>1. Config' = Config BY <1>16 DEF Reroute, Config
  <2> QED BY <1>16, <2>1 DEF Reroute
<1>17. ASSUME NEW t \in Threads, UnrouteDone(t) PROVE Life'
  <2>1. Config' = Config BY <1>17 DEF UnrouteDone, Config
  <2> QED BY <1>17, <2>1 DEF UnrouteDone
<1>18. ASSUME NEW t \in Threads, UnrouteThrows(t) PROVE Life'
  <2>1. Config' = Config BY <1>18 DEF UnrouteThrows, Config
  <2> QED BY <1>18, <2>1 DEF UnrouteThrows, After
<1>19. ASSUME NEW t \in Threads, CloseChannel(t) PROVE Life'
  <2>1. Config' = Config BY <1>19 DEF CloseChannel, Config
  <2> QED BY <1>19, <2>1 DEF CloseChannel, After
<1>20. ASSUME NEW k \in Keys, VisitSkip(k) PROVE Life'
  <2>1. Config' = Config BY <1>20 DEF VisitSkip, Config
  <2> QED BY <1>20, <2>1 DEF VisitSkip
<1>21. ASSUME NEW k \in Keys, VisitRemoved(k) PROVE Life'
  <2>1. Config' = Config BY <1>21 DEF VisitRemoved, Config
  <2> QED BY <1>21, <2>1 DEF VisitRemoved
<1>22. ASSUME NEW k \in Keys, VisitKept(k) PROVE Life'
  <2>1. Config' = Config BY <1>22 DEF VisitKept, Config
  <2> QED BY <1>22, <2>1 DEF VisitKept
<1>23. ASSUME NEW p \in Ports, DropPort(p) PROVE Life'
  <2>1. Config' = Config BY <1>23 DEF DropPort, Config
  <2> QED BY <1>23, <2>1 DEF DropPort, Mine
<1>24. ASSUME NEW p \in Ports, AddPort(p) PROVE Life'
  <2>1. Config' = Config BY <1>24 DEF AddPort, Config
  <2> QED BY <1>24, <2>1 DEF AddPort
<1>25. CASE VisitEnd
  <2>1. Config' = Config BY <1>25 DEF VisitEnd, Config
  <2> QED BY <1>25, <2>1 DEF VisitEnd
<1>26. CASE UpdateLock
  <2>1. Config' = Config BY <1>26 DEF UpdateLock, Config
  <2> QED BY <1>26, <2>1 DEF UpdateLock
<1>27. CASE DropEnd
  <2>1. Config' = Config BY <1>27 DEF DropEnd, Config
  <2> QED BY <1>27, <2>1 DEF DropEnd
<1>28. CASE AddEnd
  <2>1. Config' = Config BY <1>28 DEF AddEnd, Config
  <2> QED BY <1>28, <2>1 DEF AddEnd
<1>29. CASE ConfigSave
  BY <1>29 DEF ConfigSave
<1>30. CASE UNCHANGED vars
  BY <1>30 DEF vars, Config
<1> HIDE DEF Life, IInv, RInv, TypeOK
<1> QED BY <1>1, <1>2, <1>3, <1>4, <1>5, <1>6, <1>7, <1>8, <1>9, <1>10, <1>11, <1>12,
    <1>13, <1>14, <1>15, <1>16, <1>17, <1>18, <1>19, <1>20, <1>21, <1>22, <1>23, <1>24,
    <1>25, <1>26, <1>27, <1>28, <1>29, <1>30 DEF Next, Auth, Removal, Change

(* Nobody changes the lists that the loops of an AUTH or a removal run over. *)
LEMMA ListsStep ==
  ASSUME IInv, RInv, ~Doomed, ~Doomed', Alone', [Next]_vars
  PROVE  Lists'
<1> USE DEF IInv, TypeOK, WorksOnReady, OwnChannel, HoldsRoute, RegisteredReady, RInv,
    Doomed, Goto, Busy, Alone, Life, Lists, StartUnroute
<1>1. ASSUME NEW c \in Chans, AuthRejected(c) PROVE Lists'
  <2>1. Config' = Config BY <1>1 DEF AuthRejected, Config
  <2> QED BY <1>1, <2>1 DEF AuthRejected
<1>2. ASSUME NEW c \in Chans, AuthBegin(c) PROVE Lists'
  <2>1. Config' = Config BY <1>2 DEF AuthBegin, Config
  <2> QED BY <1>2, <2>1 DEF AuthBegin, AuthClash
<1>3. ASSUME NEW c \in Chans, AuthExists(c) PROVE Lists'
  <2>1. Config' = Config BY <1>3 DEF AuthExists, Config
  <2> QED BY <1>3, <2>1 DEF AuthExists
<1>4. ASSUME NEW c \in Chans, AuthFree(c) PROVE Lists'
  <2>1. Config' = Config BY <1>4 DEF AuthFree, Config
  <2> QED BY <1>4, <2>1 DEF AuthFree
<1>5. ASSUME NEW c \in Chans, AuthLock(c) PROVE Lists'
  <2>1. Config' = Config BY <1>5 DEF AuthLock, Config
  <2> QED BY <1>5, <2>1 DEF AuthLock
<1>6. ASSUME NEW c \in Chans, AuthRoute(c) PROVE Lists'
  <2>1. Config' = Config BY <1>6 DEF AuthRoute, Config
  <2> QED BY <1>6, <2>1 DEF AuthRoute
<1>7. ASSUME NEW c \in Chans, AuthUnlock(c) PROVE Lists'
  <2>1. Config' = Config BY <1>7 DEF AuthUnlock, Config
  <2> QED BY <1>7, <2>1 DEF AuthUnlock
<1>8. ASSUME NEW c \in Chans, AuthAttrs(c) PROVE Lists'
  <2>1. Config' = Config BY <1>8 DEF AuthAttrs, Config
  <2> QED BY <1>8, <2>1 DEF AuthAttrs
<1>9. ASSUME NEW c \in Chans, AuthPublish(c) PROVE Lists'
  <2>1. Config' = Config BY <1>9 DEF AuthPublish, Config
  <2> QED BY <1>9, <2>1 DEF AuthPublish
<1>10. ASSUME NEW c \in Chans, Disconnect(c) PROVE Lists'
  <2>1. Config' = Config BY <1>10 DEF Disconnect, Config
  <2> QED BY <1>10, <2>1 DEF Disconnect
<1>11. ASSUME NEW c \in Chans, InactiveUnknown(c) PROVE Lists'
  <2>1. Config' = Config BY <1>11 DEF InactiveUnknown, Config
  <2> QED BY <1>11, <2>1 DEF InactiveUnknown
<1>12. ASSUME NEW c \in Chans, Inactive(c) PROVE Lists'
  <2>1. Config' = Config BY <1>12 DEF Inactive, Config
  <2> QED BY <1>12, <2>1 DEF Inactive, RemovalClash
<1>13. ASSUME NEW t \in Threads, Deregister(t) PROVE Lists'
  <2>1. Config' = Config BY <1>13 DEF Deregister, Config
  <2> QED BY <1>13, <2>1, SMTT(40) DEF Deregister, StartUnroute, Key
<1>14. ASSUME NEW t \in Threads, Restore(t) PROVE Lists'
  <2>1. Config' = Config BY <1>14 DEF Restore, Config
  <2> QED BY <1>14, <2>1 DEF Restore, StartUnroute, Key
<1>15. ASSUME NEW t \in Threads, Unroute(t) PROVE Lists'
  <2>1. Config' = Config BY <1>15 DEF Unroute, Config
  <2> QED BY <1>15, <2>1 DEF Unroute, Foreign
<1>16. ASSUME NEW t \in Threads, Reroute(t) PROVE Lists'
  <2>1. Config' = Config BY <1>16 DEF Reroute, Config
  <2> QED BY <1>16, <2>1 DEF Reroute
<1>17. ASSUME NEW t \in Threads, UnrouteDone(t) PROVE Lists'
  <2>1. Config' = Config BY <1>17 DEF UnrouteDone, Config
  <2> QED BY <1>17, <2>1 DEF UnrouteDone
<1>18. ASSUME NEW t \in Threads, UnrouteThrows(t) PROVE Lists'
  <2>1. Config' = Config BY <1>18 DEF UnrouteThrows, Config
  <2> QED BY <1>18, <2>1 DEF UnrouteThrows, After
<1>19. ASSUME NEW t \in Threads, CloseChannel(t) PROVE Lists'
  <2>1. Config' = Config BY <1>19 DEF CloseChannel, Config
  <2> QED BY <1>19, <2>1 DEF CloseChannel, After
<1>20. ASSUME NEW k \in Keys, VisitSkip(k) PROVE Lists'
  <2>1. Config' = Config BY <1>20 DEF VisitSkip, Config
  <2> QED BY <1>20, <2>1 DEF VisitSkip
<1>21. ASSUME NEW k \in Keys, VisitRemoved(k) PROVE Lists'
  <2>1. Config' = Config BY <1>21 DEF VisitRemoved, Config
  <2> QED BY <1>21, <2>1 DEF VisitRemoved
<1>22. ASSUME NEW k \in Keys, VisitKept(k) PROVE Lists'
  <2>1. Config' = Config BY <1>22 DEF VisitKept, Config
  <2> QED BY <1>22, <2>1 DEF VisitKept
<1>23. ASSUME NEW p \in Ports, DropPort(p) PROVE Lists'
  <2>1. Config' = Config BY <1>23 DEF DropPort, Config
  <2> QED BY <1>23, <2>1 DEF DropPort, Mine
<1>24. ASSUME NEW p \in Ports, AddPort(p) PROVE Lists'
  <2>1. Config' = Config BY <1>24 DEF AddPort, Config
  <2> QED BY <1>24, <2>1 DEF AddPort
<1>25. CASE VisitEnd
  <2>1. Config' = Config BY <1>25 DEF VisitEnd, Config
  <2> QED BY <1>25, <2>1 DEF VisitEnd
<1>26. CASE UpdateLock
  <2>1. Config' = Config BY <1>26 DEF UpdateLock, Config
  <2> QED BY <1>26, <2>1 DEF UpdateLock
<1>27. CASE DropEnd
  <2>1. Config' = Config BY <1>27 DEF DropEnd, Config
  <2> QED BY <1>27, <2>1 DEF DropEnd
<1>28. CASE AddEnd
  <2>1. Config' = Config BY <1>28 DEF AddEnd, Config
  <2> QED BY <1>28, <2>1 DEF AddEnd
<1>29. CASE ConfigSave
  BY <1>29 DEF ConfigSave
<1>30. CASE UNCHANGED vars
  BY <1>30 DEF vars, Config
<1> HIDE DEF Lists, IInv, RInv, TypeOK
<1> QED BY <1>1, <1>2, <1>3, <1>4, <1>5, <1>6, <1>7, <1>8, <1>9, <1>10, <1>11, <1>12,
    <1>13, <1>14, <1>15, <1>16, <1>17, <1>18, <1>19, <1>20, <1>21, <1>22, <1>23, <1>24,
    <1>25, <1>26, <1>27, <1>28, <1>29, <1>30 DEF Next, Auth, Removal, Change

(* Every route is one that the removal of its connection will take out.     *)
LEMMA LeadingStep ==
  ASSUME IInv, RInv, ~Doomed, ~Doomed', Alone', [Next]_vars
  PROVE  Leading'
<1> USE DEF IInv, TypeOK, WorksOnReady, OwnChannel, HoldsRoute, RegisteredReady, RInv,
    Doomed, Goto, Busy, Alone, Life, Losing, Authing, Lists, Leading, Leads
<1>1. ASSUME NEW c \in Chans, AuthRejected(c) PROVE Leading'
  <2>1. Config' = Config BY <1>1 DEF AuthRejected, Config
  <2> QED BY <1>1, <2>1 DEF AuthRejected
<1>2. ASSUME NEW c \in Chans, AuthBegin(c) PROVE Leading'
  <2>1. Config' = Config BY <1>2 DEF AuthBegin, Config
  <2>2. \A q \in Ports, d \in Chans : Leads(q, d) => Leads(q, d)' BY <1>2, <2>1 DEF AuthBegin
  <2>3. /\ portCmd' = portCmd /\ held' = held /\ ch' = ch
        /\ \A t \in Threads : pc'[t] = "reroute" => pc[t] = "reroute"
    BY <1>2 DEF AuthBegin
  <2>4. ASSUME NEW q \in Ports, portCmd'[q] # None PROVE Leads(q, portCmd[q])'
    <3> PICK d \in Chans : d = portCmd[q] BY <2>3, <2>4
    <3>1. Leads(q, d)' BY <2>2, <2>3, <2>4
    <3> QED BY <2>3, <3>1 DEF Leads
  <2>5. ASSUME NEW t \in Threads, pc'[t] = "reroute"
        PROVE  Leads(held[t][1], held[t][2])' /\ held'[t][2] # ch'[t]
    <3>1. PICK q \in Ports, d \in Chans : held[t] = <<q, d>> BY <2>3, <2>5
    <3>2. held[t][1] = q /\ held[t][2] = d BY <3>1
    <3>3. Leads(q, d)' /\ d # ch[t]
      <4>1. Leads(q, d) /\ d # ch[t]
        <5> HIDE DEF Leads
        <5> QED BY <2>3, <2>5, <3>2
      <4> HIDE DEF Leads
      <4> QED BY <2>2, <4>1
    <3> QED BY <2>3, <3>2, <3>3 DEF Leads
  <2> QED BY <2>4, <2>5
<1>3. ASSUME NEW c \in Chans, AuthExists(c) PROVE Leading'
  <2>1. Config' = Config BY <1>3 DEF AuthExists, Config
  <2> QED BY <1>3, <2>1 DEF AuthExists
<1>4. ASSUME NEW c \in Chans, AuthFree(c) PROVE Leading'
  <2>1. Config' = Config BY <1>4 DEF AuthFree, Config
  <2> QED BY <1>4, <2>1 DEF AuthFree
<1>5. ASSUME NEW c \in Chans, AuthLock(c) PROVE Leading'
  <2>1. Config' = Config BY <1>5 DEF AuthLock, Config
  <2> QED BY <1>5, <2>1 DEF AuthLock
<1>6. ASSUME NEW c \in Chans, AuthRoute(c) PROVE Leading'
  <2>1. Config' = Config BY <1>6 DEF AuthRoute, Config
  <2> QED BY <1>6, <2>1 DEF AuthRoute
<1>7. ASSUME NEW c \in Chans, AuthUnlock(c) PROVE Leading'
  <2>1. Config' = Config BY <1>7 DEF AuthUnlock, Config
  <2> QED BY <1>7, <2>1 DEF AuthUnlock
<1>8. ASSUME NEW c \in Chans, AuthAttrs(c) PROVE Leading'
  <2>1. Config' = Config BY <1>8 DEF AuthAttrs, Config
  <2> QED BY <1>8, <2>1 DEF AuthAttrs
<1>9. ASSUME NEW c \in Chans, AuthPublish(c) PROVE Leading'
  <2>1. Config' = Config BY <1>9 DEF AuthPublish, Config
  <2> QED BY <1>9, <2>1 DEF AuthPublish
<1>10. ASSUME NEW c \in Chans, Disconnect(c) PROVE Leading'
  <2>1. Config' = Config BY <1>10 DEF Disconnect, Config
  <2> QED BY <1>10, <2>1 DEF Disconnect
<1>11. ASSUME NEW c \in Chans, InactiveUnknown(c) PROVE Leading'
  <2>1. Config' = Config BY <1>11 DEF InactiveUnknown, Config
  <2> QED BY <1>11, <2>1 DEF InactiveUnknown
<1>12. ASSUME NEW c \in Chans, Inactive(c) PROVE Leading'
  <2>1. Config' = Config BY <1>12 DEF Inactive, Config
  <2>2. \A q \in Ports, d \in Chans : Leads(q, d) => Leads(q, d)' BY <1>12, <2>1 DEF Inactive
  <2>3. /\ portCmd' = portCmd /\ held' = held /\ ch' = ch
        /\ \A t \in Threads : pc'[t] = "reroute" => pc[t] = "reroute"
    BY <1>12 DEF Inactive
  <2>4. ASSUME NEW q \in Ports, portCmd'[q] # None PROVE Leads(q, portCmd[q])'
    <3> PICK d \in Chans : d = portCmd[q] BY <2>3, <2>4
    <3>1. Leads(q, d)' BY <2>2, <2>3, <2>4
    <3> QED BY <2>3, <3>1 DEF Leads
  <2>5. ASSUME NEW t \in Threads, pc'[t] = "reroute"
        PROVE  Leads(held[t][1], held[t][2])' /\ held'[t][2] # ch'[t]
    <3>1. PICK q \in Ports, d \in Chans : held[t] = <<q, d>> BY <2>3, <2>5
    <3>2. held[t][1] = q /\ held[t][2] = d BY <3>1
    <3>3. Leads(q, d)' /\ d # ch[t]
      <4>1. Leads(q, d) /\ d # ch[t]
        <5> HIDE DEF Leads
        <5> QED BY <2>3, <2>5, <3>2
      <4> HIDE DEF Leads
      <4> QED BY <2>2, <4>1
    <3> QED BY <2>3, <3>2, <3>3 DEF Leads
  <2> QED BY <2>4, <2>5
<1>13. ASSUME NEW t \in Threads, Deregister(t) PROVE Leading'
  <2>1. Config' = Config BY <1>13 DEF Deregister, Config
  <2> QED BY <1>13, <2>1, SMTT(40) DEF Deregister, StartUnroute, Key
<1>14. ASSUME NEW t \in Threads, Restore(t) PROVE Leading'
  <2>1. Config' = Config BY <1>14 DEF Restore, Config
  <2> QED BY <1>14, <2>1 DEF Restore, StartUnroute, Key
<1>15. ASSUME NEW t \in Threads, Unroute(t) PROVE Leading'
  <2>1. Config' = Config BY <1>15 DEF Unroute, Config
  <2> PICK p \in rest[t] :
        /\ portCmd' = [portCmd EXCEPT ![p] = None]
        /\ rest' = [rest EXCEPT ![t] = @ \ {p}]
        /\ IF Foreign(t, p)
           THEN /\ held' = [held EXCEPT ![t] = <<p, portCmd[p]>>]
                /\ Goto(t, "reroute")
           ELSE UNCHANGED <<pc, held>>
    BY <1>15 DEF Unroute

  <2>2. CASE Foreign(t, p)
    <3> DEFINE e == portCmd[p]
    <3>1. e \in Chans /\ e # ch[t] /\ p \in Ports BY <1>15, <2>2 DEF Unroute, Foreign
    <3>2. \A s \in Threads \ {t} : pc[s] # "reroute" BY <1>15 DEF Unroute
    <3>3. /\ held'[t] = <<p, e>> /\ \A s \in Threads \ {t} : held'[s] = held[s]
          /\ pc' = [pc EXCEPT ![t] = "reroute"]
      <4> DEFINE r == <<p, e>>
      <4>1. held' = [held EXCEPT ![t] = r] /\ pc' = [pc EXCEPT ![t] = "reroute"] BY <2>2
      <4> HIDE DEF r
      <4>2. held'[t] = r /\ \A s \in Threads \ {t} : held'[s] = held[s] BY <4>1
      <4> QED BY <4>1, <4>2 DEF r
    <3>4. \A q \in Ports, d \in Chans :
            Leads(q, d) /\ ~(q = p /\ d = ch[t]) => Leads(q, d)'
      BY <1>15, <3>1, <3>2, <3>3 DEF Unroute
    <3>5. ASSUME NEW q \in Ports, portCmd'[q] # None PROVE Leads(q, portCmd[q])'
      <4>1. q # p /\ portCmd'[q] = portCmd[q] BY <1>15, <3>1, <3>5 DEF Unroute
      <4> PICK d \in Chans : d = portCmd[q] BY <3>5, <4>1
      <4>2. Leads(q, d) BY <3>5, <4>1
      <4>3. Leads(q, d)' BY <3>4, <4>1, <4>2, SMTT(40)
      <4> QED BY <4>1, <4>3 DEF Leads
    <3>6. ASSUME NEW s \in Threads, pc'[s] = "reroute"
          PROVE  Leads(held[s][1], held[s][2])' /\ held'[s][2] # ch'[s]
      <4> PICK d \in Chans : d = e BY <3>1
      <4>1. s = t /\ held'[s] = <<p, d>> BY <3>2, <3>3, <3>6
      <4>2. held'[s][1] = p /\ held'[s][2] = d BY <4>1
      <4>3. Leads(p, d) /\ d # ch[t] BY <3>1
      <4>4. Leads(p, d)' BY <3>1, <3>4, <4>3
      <4> QED BY <1>15, <4>1, <4>2, <4>3, <4>4 DEF Unroute, Leads
    <3> QED BY <3>5, <3>6
  <2>3. CASE ~Foreign(t, p) BY <1>15, <2>1, <2>3, SMTT(40) DEF Unroute, Foreign
  <2> QED BY <2>2, <2>3
<1>16. ASSUME NEW t \in Threads, Reroute(t) PROVE Leading'
  <2>1. Config' = Config BY <1>16 DEF Reroute, Config
  <2>2. PICK p \in Ports, e \in Chans : held[t] = <<p, e>> BY <1>16 DEF Reroute
  <2>3. Leads(p, e) /\ e # ch[t] BY <1>16, <2>2 DEF Reroute
  <2>4. portCmd' = [portCmd EXCEPT ![p] = e] /\ pc' = [pc EXCEPT ![t] = "unroute"]
    BY <1>16, <2>2 DEF Reroute
  <2>5. \A q \in Ports, d \in Chans : Leads(q, d) => Leads(q, d)' BY <1>16, <2>1, <2>4
      DEF Reroute
  <2>6. \A s \in Threads : pc'[s] # "reroute" BY <1>16, <2>4 DEF Reroute
  <2>7. ASSUME NEW q \in Ports, portCmd'[q] # None PROVE Leads(q, portCmd[q])'
    <3>1. PICK d \in Chans : d = portCmd'[q] BY <2>4, <2>7
    <3>2. Leads(q, d) BY <2>3, <2>4, <2>7, <3>1
    <3>3. Leads(q, d)' BY <2>5, <3>2
    <3> QED BY <3>1, <3>3 DEF Leads
  <2> QED BY <2>6, <2>7
<1>17. ASSUME NEW t \in Threads, UnrouteDone(t) PROVE Leading'
  <2>1. Config' = Config BY <1>17 DEF UnrouteDone, Config
  <2> QED BY <1>17, <2>1 DEF UnrouteDone
<1>18. ASSUME NEW t \in Threads, UnrouteThrows(t) PROVE Leading'
  <2>1. Config' = Config BY <1>18 DEF UnrouteThrows, Config
  <2> QED BY <1>18, <2>1 DEF UnrouteThrows, After
<1>19. ASSUME NEW t \in Threads, CloseChannel(t) PROVE Leading'
  <2>1. Config' = Config BY <1>19 DEF CloseChannel, Config
  <2> QED BY <1>19, <2>1 DEF CloseChannel, After
<1>20. ASSUME NEW k \in Keys, VisitSkip(k) PROVE Leading'
  <2>1. Config' = Config BY <1>20 DEF VisitSkip, Config
  <2> QED BY <1>20, <2>1 DEF VisitSkip
<1>21. ASSUME NEW k \in Keys, VisitRemoved(k) PROVE Leading'
  <2>1. Config' = Config BY <1>21 DEF VisitRemoved, Config
  <2> QED BY <1>21, <2>1 DEF VisitRemoved
<1>22. ASSUME NEW k \in Keys, VisitKept(k) PROVE Leading'
  <2>1. Config' = Config BY <1>22 DEF VisitKept, Config
  <2> QED BY <1>22, <2>1 DEF VisitKept
<1>23. ASSUME NEW p \in Ports, DropPort(p) PROVE Leading'
  <2>1. Config' = Config BY <1>23 DEF DropPort, Config
  <2> QED BY <1>23, <2>1, SMTT(90) DEF DropPort, Mine
<1>24. ASSUME NEW p \in Ports, AddPort(p) PROVE Leading'
  <2>1. Config' = Config BY <1>24 DEF AddPort, Config
  <2> QED BY <1>24, <2>1 DEF AddPort
<1>25. CASE VisitEnd
  <2>1. Config' = Config BY <1>25 DEF VisitEnd, Config
  <2> QED BY <1>25, <2>1 DEF VisitEnd
<1>26. CASE UpdateLock
  <2>1. Config' = Config BY <1>26 DEF UpdateLock, Config
  <2> QED BY <1>26, <2>1 DEF UpdateLock
<1>27. CASE DropEnd
  <2>1. Config' = Config BY <1>27 DEF DropEnd, Config
  <2> QED BY <1>27, <2>1 DEF DropEnd
<1>28. CASE AddEnd
  <2>1. Config' = Config BY <1>28 DEF AddEnd, Config
  <2> QED BY <1>28, <2>1 DEF AddEnd
<1>29. CASE ConfigSave
  BY <1>29 DEF ConfigSave
<1>30. CASE UNCHANGED vars
  BY <1>30 DEF vars, Config
<1> HIDE DEF Leading, IInv, RInv, TypeOK
<1> QED BY <1>1, <1>2, <1>3, <1>4, <1>5, <1>6, <1>7, <1>8, <1>9, <1>10, <1>11, <1>12,
    <1>13, <1>14, <1>15, <1>16, <1>17, <1>18, <1>19, <1>20, <1>21, <1>22, <1>23, <1>24,
    <1>25, <1>26, <1>27, <1>28, <1>29, <1>30 DEF Next, Auth, Removal, Change

(* An AUTH gives its connection the ports of its key.                       *)
LEMMA AuthRoutesStep ==
  ASSUME IInv, RInv, ~Doomed, ~Doomed', Alone', [Next]_vars
  PROVE  AuthRoutes'
<1> USE PortsDisjoint DEF IInv, TypeOK, WorksOnReady, OwnChannel, HoldsRoute,
    RegisteredReady, RInv, Doomed, Goto, Busy, Alone, Life, Losing, Authing, Lists, Leading,
    AuthRoutes, Has
<1>1. ASSUME NEW c \in Chans, AuthRejected(c) PROVE AuthRoutes'
  <2>1. Config' = Config BY <1>1 DEF AuthRejected, Config
  <2>2. \A d \in Chans, q \in Ports : Has(d, q)' <=> Has(d, q) BY <1>1, SameHas DEF
      AuthRejected
  <2> HIDE DEF Has
  <2> QED BY <1>1, <2>1, <2>2 DEF AuthRejected
<1>2. ASSUME NEW c \in Chans, AuthBegin(c) PROVE AuthRoutes'
  <2>1. Config' = Config BY <1>2 DEF AuthBegin, Config
  <2> QED BY <1>2, <2>1 DEF AuthBegin, AuthClash
<1>3. ASSUME NEW c \in Chans, AuthExists(c) PROVE AuthRoutes'
  <2>1. Config' = Config BY <1>3 DEF AuthExists, Config
  <2> QED BY <1>3, <2>1, SMTT(40) DEF AuthExists
<1>4. ASSUME NEW c \in Chans, AuthFree(c) PROVE AuthRoutes'
  <2>1. Config' = Config BY <1>4 DEF AuthFree, Config
  <2>2. \A d \in Chans, q \in Ports : Has(d, q)' <=> Has(d, q) BY <1>4, SameHas DEF AuthFree
  <2> HIDE DEF Has
  <2> QED BY <1>4, <2>1, <2>2 DEF AuthFree
<1>5. ASSUME NEW c \in Chans, AuthLock(c) PROVE AuthRoutes'
  <2>1. Config' = Config BY <1>5 DEF AuthLock, Config
  <2>2. \A d \in Chans, q \in Ports : Has(d, q)' <=> Has(d, q) BY <1>5, SameHas DEF AuthLock
  <2> HIDE DEF Has
  <2> QED BY <1>5, <2>1, <2>2 DEF AuthLock
<1>6. ASSUME NEW c \in Chans, AuthRoute(c) PROVE AuthRoutes'
  <2>1. Config' = Config BY <1>6 DEF AuthRoute, Config
  <2> PICK p \in rest[c] : /\ portCmd' = [portCmd EXCEPT ![p] = c]
                           /\ rest' = [rest EXCEPT ![c] = @ \ {p}]
    BY <1>6 DEF AuthRoute
  <2>2. p \in Ports /\ p \in Config[KeyOf[c]] /\ KeyOf[c] \in DOMAIN Config BY <1>6 DEF
      AuthRoute
  <2>3. \A d \in Chans, q \in Ports :
          IF q = p THEN (d = c => Has(d, q)') /\ (d # c /\ Has(d, q)' => Has(d, q))
                   ELSE Has(d, q)' <=> Has(d, q)
    BY <1>6, <2>2 DEF AuthRoute
  <2> HIDE DEF Has
  <2> QED BY <1>6, <2>1, <2>2, <2>3 DEF AuthRoute
<1>7. ASSUME NEW c \in Chans, AuthUnlock(c) PROVE AuthRoutes'
  <2>1. Config' = Config BY <1>7 DEF AuthUnlock, Config
  <2>2. \A d \in Chans, q \in Ports : Has(d, q)' <=> Has(d, q) BY <1>7, SameHas DEF
      AuthUnlock
  <2> HIDE DEF Has
  <2> QED BY <1>7, <2>1, <2>2 DEF AuthUnlock
<1>8. ASSUME NEW c \in Chans, AuthAttrs(c) PROVE AuthRoutes'
  <2>1. Config' = Config BY <1>8 DEF AuthAttrs, Config
  <2>2. \A d \in Chans, q \in Ports : Has(d, q)' <=> Has(d, q) BY <1>8, SameHas DEF AuthAttrs
  <2> HIDE DEF Has
  <2> QED BY <1>8, <2>1, <2>2 DEF AuthAttrs
<1>9. ASSUME NEW c \in Chans, AuthPublish(c) PROVE AuthRoutes'
  <2>1. Config' = Config BY <1>9 DEF AuthPublish, Config
  <2>2. \A d \in Chans, q \in Ports : Has(d, q)' <=> Has(d, q) BY <1>9, SameHas DEF
      AuthPublish
  <2> HIDE DEF Has
  <2> QED BY <1>9, <2>1, <2>2 DEF AuthPublish
<1>10. ASSUME NEW c \in Chans, Disconnect(c) PROVE AuthRoutes'
  <2>1. Config' = Config BY <1>10 DEF Disconnect, Config
  <2>2. \A d \in Chans, q \in Ports : Has(d, q)' <=> Has(d, q) BY <1>10, SameHas DEF
      Disconnect
  <2> HIDE DEF Has
  <2> QED BY <1>10, <2>1, <2>2 DEF Disconnect
<1>11. ASSUME NEW c \in Chans, InactiveUnknown(c) PROVE AuthRoutes'
  <2>1. Config' = Config BY <1>11 DEF InactiveUnknown, Config
  <2>2. \A d \in Chans, q \in Ports : Has(d, q)' <=> Has(d, q) BY <1>11, SameHas DEF
      InactiveUnknown
  <2> HIDE DEF Has
  <2> QED BY <1>11, <2>1, <2>2 DEF InactiveUnknown
<1>12. ASSUME NEW c \in Chans, Inactive(c) PROVE AuthRoutes'
  <2>1. Config' = Config BY <1>12 DEF Inactive, Config
  <2>2. \A d \in Chans, q \in Ports : Has(d, q)' <=> Has(d, q) BY <1>12, SameHas DEF Inactive
  <2> HIDE DEF Has
  <2> QED BY <1>12, <2>1, <2>2 DEF Inactive, RemovalClash
<1>13. ASSUME NEW t \in Threads, Deregister(t) PROVE AuthRoutes'
  <2>1. Config' = Config BY <1>13 DEF Deregister, Config
  <2> QED BY <1>13, <2>1, SMTT(40) DEF Deregister, StartUnroute, Key
<1>14. ASSUME NEW t \in Threads, Restore(t) PROVE AuthRoutes'
  <2>1. Config' = Config BY <1>14 DEF Restore, Config
  <2> QED BY <1>14, <2>1 DEF Restore, StartUnroute, Key
<1>15. ASSUME NEW t \in Threads, Unroute(t) PROVE AuthRoutes'
  <2>1. Config' = Config BY <1>15 DEF Unroute, Config
  <2> PICK p \in rest[t] :
        /\ portCmd' = [portCmd EXCEPT ![p] = None]
        /\ rest' = [rest EXCEPT ![t] = @ \ {p}]
        /\ IF Foreign(t, p)
           THEN /\ held' = [held EXCEPT ![t] = <<p, portCmd[p]>>]
                /\ Goto(t, "reroute")
           ELSE UNCHANGED <<pc, held>>
    BY <1>15 DEF Unroute

  <2>2. CASE Foreign(t, p)
    <3> DEFINE e == portCmd[p]
    <3>1. e \in Chans /\ e # ch[t] /\ p \in Ports BY <1>15, <2>2 DEF Unroute, Foreign
    <3>2. \A s \in Threads \ {t} : pc[s] # "reroute" BY <1>15 DEF Unroute
    <3>3. /\ held'[t] = <<p, e>> /\ \A s \in Threads \ {t} : held'[s] = held[s]
          /\ pc' = [pc EXCEPT ![t] = "reroute"]
      <4> DEFINE r == <<p, e>>
      <4>1. held' = [held EXCEPT ![t] = r] /\ pc' = [pc EXCEPT ![t] = "reroute"] BY <2>2
      <4> HIDE DEF r
      <4>2. held'[t] = r /\ \A s \in Threads \ {t} : held'[s] = held[s] BY <4>1
      <4> QED BY <4>1, <4>2 DEF r
    <3>4. \A d \in Chans, q \in Ports : Has(d, q)' <=> Has(d, q)
      <4>1. portCmd[p] = e /\ pc[t] # "reroute" /\ pc'[t] = "reroute" BY <1>15, <3>3 DEF
          Unroute
      <4>2. \A s \in Threads \ {t} : pc[s] # "reroute" /\ pc'[s] # "reroute" BY <3>2, <3>3
      <4>3. TypeOK OBVIOUS
      <4>4. PICK f \in Chans : f = e BY <3>1
      <4>5. portCmd[p] = f /\ held'[t] = <<p, f>> /\ p \in Ports BY <3>1, <3>3, <4>1, <4>4
      <4>6. portCmd' = [portCmd EXCEPT ![p] = None] OBVIOUS
      <4> HIDE DEF Has, TypeOK, IInv, RInv, e, Goto, Busy, Doomed, Alone, Life, Lists,
          Leading,
                   AuthRoutes, OwnChannel, WorksOnReady, RegisteredReady, HoldsRoute
      <4> QED BY <4>1, <4>2, <4>3, <4>5, <4>6, HasMoves
    <3> HIDE DEF Has, e
    <3> QED BY <1>15, <2>1, <3>3, <3>4 DEF Unroute
  <2>3. CASE ~Foreign(t, p)
    <3>1. \A d \in Chans, q \in Ports : d # ch[t] => (Has(d, q)' <=> Has(d, q))
      BY <1>15, <2>3 DEF Unroute, Foreign
    <3> HIDE DEF Has
    <3> QED BY <1>15, <2>1, <2>3, <3>1 DEF Unroute
  <2> QED BY <2>2, <2>3
<1>16. ASSUME NEW t \in Threads, Reroute(t) PROVE AuthRoutes'
  <2>1. Config' = Config BY <1>16 DEF Reroute, Config
  <2>2. held[t] \in Ports \X Chans BY <1>16 DEF Reroute
  <2>3. PICK p \in Ports, e \in Chans : held[t] = <<p, e>> BY <2>2
  <2>5. held[t][1] = p /\ held[t][2] = e BY <2>3
  <2>6. pc[t] = "reroute" /\ pc' = [pc EXCEPT ![t] = "unroute"] BY <1>16 DEF Reroute
  <2>7. portCmd[p] = None /\ portCmd' = [portCmd EXCEPT ![p] = e] BY <1>16, <2>5 DEF Reroute
  <2>8. pc'[t] # "reroute" /\ \A s \in Threads \ {t} : pc[s] # "reroute" /\ pc'[s] #
      "reroute"
    BY <2>6
  <2>4. \A d \in Chans, q \in Ports : Has(d, q)' <=> Has(d, q)
    <3>1. TypeOK OBVIOUS
    <3> HIDE DEF Has, TypeOK, IInv, RInv
    <3> QED BY <2>3, <2>6, <2>7, <2>8, <3>1, HasMoves
  <2> HIDE DEF Has
  <2> QED BY <1>16, <2>1, <2>4 DEF Reroute
<1>17. ASSUME NEW t \in Threads, UnrouteDone(t) PROVE AuthRoutes'
  <2>1. Config' = Config BY <1>17 DEF UnrouteDone, Config
  <2> QED BY <1>17, <2>1, SMTT(40) DEF UnrouteDone
<1>18. ASSUME NEW t \in Threads, UnrouteThrows(t) PROVE AuthRoutes'
  <2>1. Config' = Config BY <1>18 DEF UnrouteThrows, Config
  <2> QED BY <1>18, <2>1 DEF UnrouteThrows, After
<1>19. ASSUME NEW t \in Threads, CloseChannel(t) PROVE AuthRoutes'
  <2>1. Config' = Config BY <1>19 DEF CloseChannel, Config
  <2>2. \A d \in Chans, q \in Ports : Has(d, q)' <=> Has(d, q) BY <1>19, SameHas DEF
      CloseChannel, After
  <2> HIDE DEF Has
  <2> QED BY <1>19, <2>1, <2>2 DEF CloseChannel, After
<1>20. ASSUME NEW k \in Keys, VisitSkip(k) PROVE AuthRoutes'
  <2>1. Config' = Config BY <1>20 DEF VisitSkip, Config
  <2> QED BY <1>20, <2>1 DEF VisitSkip
<1>21. ASSUME NEW k \in Keys, VisitRemoved(k) PROVE AuthRoutes'
  <2>1. Config' = Config BY <1>21 DEF VisitRemoved, Config
  <2> QED BY <1>21, <2>1 DEF VisitRemoved
<1>22. ASSUME NEW k \in Keys, VisitKept(k) PROVE AuthRoutes'
  <2>1. Config' = Config BY <1>22 DEF VisitKept, Config
  <2> QED BY <1>22, <2>1 DEF VisitKept
<1>23. ASSUME NEW p \in Ports, DropPort(p) PROVE AuthRoutes'
  <2>1. Config' = Config BY <1>23 DEF DropPort, Config
  <2> QED BY <1>23, <2>1 DEF DropPort, Mine
<1>24. ASSUME NEW p \in Ports, AddPort(p) PROVE AuthRoutes'
  <2>1. Config' = Config BY <1>24 DEF AddPort, Config
  <2> QED BY <1>24, <2>1 DEF AddPort
<1>25. CASE VisitEnd
  <2>1. Config' = Config BY <1>25 DEF VisitEnd, Config
  <2> QED BY <1>25, <2>1 DEF VisitEnd
<1>26. CASE UpdateLock
  <2>1. Config' = Config BY <1>26 DEF UpdateLock, Config
  <2> QED BY <1>26, <2>1 DEF UpdateLock
<1>27. CASE DropEnd
  <2>1. Config' = Config BY <1>27 DEF DropEnd, Config
  <2> QED BY <1>27, <2>1 DEF DropEnd
<1>28. CASE AddEnd
  <2>1. Config' = Config BY <1>28 DEF AddEnd, Config
  <2> QED BY <1>28, <2>1 DEF AddEnd
<1>29. CASE ConfigSave
  BY <1>29 DEF ConfigSave
<1>30. CASE UNCHANGED vars
  BY <1>30, SMTT(60) DEF vars, Config
<1> HIDE DEF AuthRoutes, IInv, RInv, TypeOK
<1> QED BY <1>1, <1>2, <1>3, <1>4, <1>5, <1>6, <1>7, <1>8, <1>9, <1>10, <1>11, <1>12,
    <1>13, <1>14, <1>15, <1>16, <1>17, <1>18, <1>19, <1>20, <1>21, <1>22, <1>23, <1>24,
    <1>25, <1>26, <1>27, <1>28, <1>29, <1>30 DEF Next, Auth, Removal, Change

(* A live registered connection has the ports of its key and no others.     *)
LEMMA ServedStep ==
  ASSUME IInv, RInv, ~Doomed, ~Doomed', Alone', [Next]_vars
  PROVE  Served'
<1> USE PortsDisjoint DEF IInv, TypeOK, WorksOnReady, OwnChannel, HoldsRoute,
    RegisteredReady, RInv, Doomed, Goto, Busy, Alone, Life, Losing, Authing, Lists, Leading,
    Leads, AuthRoutes, Served, Updating, Visited, Has
<1>1. ASSUME NEW c \in Chans, AuthRejected(c) PROVE Served'
  <2>1. Config' = Config BY <1>1 DEF AuthRejected, Config
  <2>2. \A d \in Chans, q \in Ports : Has(d, q)' <=> Has(d, q) BY <1>1, SameHas DEF
      AuthRejected
  <2> HIDE DEF Has
  <2> QED BY <1>1, <2>1, <2>2 DEF AuthRejected
<1>2. ASSUME NEW c \in Chans, AuthBegin(c) PROVE Served'
  <2>1. Config' = Config BY <1>2 DEF AuthBegin, Config
  <2>2. \A d \in Chans, q \in Ports : Has(d, q)' <=> Has(d, q) BY <1>2, SameHas DEF AuthBegin
  <2> HIDE DEF Has
  <2> QED BY <1>2, <2>1, <2>2 DEF AuthBegin, AuthClash
<1>3. ASSUME NEW c \in Chans, AuthExists(c) PROVE Served'
  <2>1. Config' = Config BY <1>3 DEF AuthExists, Config
  <2>2. \A d \in Chans, q \in Ports : Has(d, q)' <=> Has(d, q) BY <1>3, SameHas DEF
      AuthExists
  <2> HIDE DEF Has
  <2> QED BY <1>3, <2>1, <2>2 DEF AuthExists
<1>4. ASSUME NEW c \in Chans, AuthFree(c) PROVE Served'
  <2>1. Config' = Config BY <1>4 DEF AuthFree, Config
  <2>2. \A d \in Chans, q \in Ports : Has(d, q)' <=> Has(d, q) BY <1>4, SameHas DEF AuthFree
  <2> HIDE DEF Has
  <2> QED BY <1>4, <2>1, <2>2 DEF AuthFree
<1>5. ASSUME NEW c \in Chans, AuthLock(c) PROVE Served'
  <2>1. Config' = Config BY <1>5 DEF AuthLock, Config
  <2>2. \A d \in Chans, q \in Ports : Has(d, q)' <=> Has(d, q) BY <1>5, SameHas DEF AuthLock
  <2> HIDE DEF Has
  <2> QED BY <1>5, <2>1, <2>2 DEF AuthLock
<1>6. ASSUME NEW c \in Chans, AuthRoute(c) PROVE Served'
  <2>1. Config' = Config BY <1>6 DEF AuthRoute, Config
  <2> PICK p \in rest[c] : /\ portCmd' = [portCmd EXCEPT ![p] = c]
                           /\ rest' = [rest EXCEPT ![c] = @ \ {p}]
    BY <1>6 DEF AuthRoute
  <2>2. p \in Ports /\ p \in Config[KeyOf[c]] /\ KeyOf[c] \in DOMAIN Config BY <1>6 DEF
      AuthRoute
  <2>3. \A d \in Chans, q \in Ports :
          IF q = p THEN (d = c => Has(d, q)') /\ (d # c /\ Has(d, q)' => Has(d, q))
                   ELSE Has(d, q)' <=> Has(d, q)
    BY <1>6, <2>2 DEF AuthRoute
  <2> HIDE DEF Has
  <2> QED BY <1>6, <2>1, <2>2, <2>3 DEF AuthRoute
<1>7. ASSUME NEW c \in Chans, AuthUnlock(c) PROVE Served'
  <2>1. Config' = Config BY <1>7 DEF AuthUnlock, Config
  <2> QED BY <1>7, <2>1, SMTT(40) DEF AuthUnlock
<1>8. ASSUME NEW c \in Chans, AuthAttrs(c) PROVE Served'
  <2>1. Config' = Config BY <1>8 DEF AuthAttrs, Config
  <2> QED BY <1>8, <2>1, SMTT(40) DEF AuthAttrs
<1>9. ASSUME NEW c \in Chans, AuthPublish(c) PROVE Served'
  <2>1. Config' = Config BY <1>9 DEF AuthPublish, Config
  <2>2. \A d \in Chans, q \in Ports : Has(d, q)' <=> Has(d, q) BY <1>9, SameHas DEF
      AuthPublish
  <2>3. \A p \in Ports : Has(c, p) => p \in Config[KeyOf[c]] BY <1>9 DEF AuthPublish
  <2>4. KeyOf[c] \in DOMAIN Config /\ \A p \in Config[KeyOf[c]] : Has(c, p) BY <1>9 DEF
      AuthPublish
  <2> HIDE DEF Has
  <2> QED BY <1>9, <2>1, <2>2, <2>3, <2>4 DEF AuthPublish
<1>10. ASSUME NEW c \in Chans, Disconnect(c) PROVE Served'
  <2>1. Config' = Config BY <1>10 DEF Disconnect, Config
  <2>2. \A d \in Chans, q \in Ports : Has(d, q)' <=> Has(d, q) BY <1>10, SameHas DEF
      Disconnect
  <2> HIDE DEF Has
  <2> QED BY <1>10, <2>1, <2>2 DEF Disconnect
<1>11. ASSUME NEW c \in Chans, InactiveUnknown(c) PROVE Served'
  <2>1. Config' = Config BY <1>11 DEF InactiveUnknown, Config
  <2>2. \A d \in Chans, q \in Ports : Has(d, q)' <=> Has(d, q) BY <1>11, SameHas DEF
      InactiveUnknown
  <2> HIDE DEF Has
  <2> QED BY <1>11, <2>1, <2>2 DEF InactiveUnknown
<1>12. ASSUME NEW c \in Chans, Inactive(c) PROVE Served'
  <2>1. Config' = Config BY <1>12 DEF Inactive, Config
  <2>2. \A d \in Chans, q \in Ports : Has(d, q)' <=> Has(d, q) BY <1>12, SameHas DEF Inactive
  <2> HIDE DEF Has
  <2> QED BY <1>12, <2>1, <2>2 DEF Inactive, RemovalClash
<1>13. ASSUME NEW t \in Threads, Deregister(t) PROVE Served'
  <2>1. Config' = Config BY <1>13 DEF Deregister, Config
  <2> QED BY <1>13, <2>1, SMTT(40) DEF Deregister, StartUnroute, Key
<1>14. ASSUME NEW t \in Threads, Restore(t) PROVE Served'
  <2>1. Config' = Config BY <1>14 DEF Restore, Config
  <2> QED BY <1>14, <2>1, SMTT(40) DEF Restore, StartUnroute, Key
<1>15. ASSUME NEW t \in Threads, Unroute(t) PROVE Served'
  <2>1. Config' = Config BY <1>15 DEF Unroute, Config
  <2> PICK p \in rest[t] :
        /\ portCmd' = [portCmd EXCEPT ![p] = None]
        /\ rest' = [rest EXCEPT ![t] = @ \ {p}]
        /\ IF Foreign(t, p)
           THEN /\ held' = [held EXCEPT ![t] = <<p, portCmd[p]>>]
                /\ Goto(t, "reroute")
           ELSE UNCHANGED <<pc, held>>
    BY <1>15 DEF Unroute

  <2>2. CASE Foreign(t, p)
    <3> DEFINE e == portCmd[p]
    <3>1. e \in Chans /\ e # ch[t] /\ p \in Ports BY <1>15, <2>2 DEF Unroute, Foreign
    <3>2. \A s \in Threads \ {t} : pc[s] # "reroute" BY <1>15 DEF Unroute
    <3>3. /\ held'[t] = <<p, e>> /\ \A s \in Threads \ {t} : held'[s] = held[s]
          /\ pc' = [pc EXCEPT ![t] = "reroute"]
      <4> DEFINE r == <<p, e>>
      <4>1. held' = [held EXCEPT ![t] = r] /\ pc' = [pc EXCEPT ![t] = "reroute"] BY <2>2
      <4> HIDE DEF r
      <4>2. held'[t] = r /\ \A s \in Threads \ {t} : held'[s] = held[s] BY <4>1
      <4> QED BY <4>1, <4>2 DEF r
    <3>4. \A d \in Chans, q \in Ports : Has(d, q)' <=> Has(d, q)
      <4>1. portCmd[p] = e /\ pc[t] # "reroute" /\ pc'[t] = "reroute" BY <1>15, <3>3 DEF
          Unroute
      <4>2. \A s \in Threads \ {t} : pc[s] # "reroute" /\ pc'[s] # "reroute" BY <3>2, <3>3
      <4>3. TypeOK OBVIOUS
      <4>4. PICK f \in Chans : f = e BY <3>1
      <4>5. portCmd[p] = f /\ held'[t] = <<p, f>> /\ p \in Ports BY <3>1, <3>3, <4>1, <4>4
      <4>6. portCmd' = [portCmd EXCEPT ![p] = None] OBVIOUS
      <4> HIDE DEF Has, TypeOK, IInv, RInv, e, Goto, Busy, Doomed, Alone, Life, Lists,
          Leading,
                   AuthRoutes, OwnChannel, WorksOnReady, RegisteredReady, HoldsRoute
      <4> QED BY <4>1, <4>2, <4>3, <4>5, <4>6, HasMoves
    <3> HIDE DEF Has, e
    <3> QED BY <1>15, <2>1, <3>3, <3>4 DEF Unroute
  <2>3. CASE ~Foreign(t, p)
    <3>1. \A d \in Chans, q \in Ports : d # ch[t] => (Has(d, q)' <=> Has(d, q))
      BY <1>15, <2>3 DEF Unroute, Foreign
    <3> HIDE DEF Has
    <3> QED BY <1>15, <2>1, <2>3, <3>1 DEF Unroute
  <2> QED BY <2>2, <2>3
<1>16. ASSUME NEW t \in Threads, Reroute(t) PROVE Served'
  <2>1. Config' = Config BY <1>16 DEF Reroute, Config
  <2>2. held[t] \in Ports \X Chans BY <1>16 DEF Reroute
  <2>3. PICK p \in Ports, e \in Chans : held[t] = <<p, e>> BY <2>2
  <2>5. held[t][1] = p /\ held[t][2] = e BY <2>3
  <2>6. pc[t] = "reroute" /\ pc' = [pc EXCEPT ![t] = "unroute"] BY <1>16 DEF Reroute
  <2>7. portCmd[p] = None /\ portCmd' = [portCmd EXCEPT ![p] = e] BY <1>16, <2>5 DEF Reroute
  <2>8. pc'[t] # "reroute" /\ \A s \in Threads \ {t} : pc[s] # "reroute" /\ pc'[s] #
      "reroute"
    BY <2>6
  <2>4. \A d \in Chans, q \in Ports : Has(d, q)' <=> Has(d, q)
    <3>1. TypeOK OBVIOUS
    <3> HIDE DEF Has, TypeOK, IInv, RInv
    <3> QED BY <2>3, <2>6, <2>7, <2>8, <3>1, HasMoves
  <2> HIDE DEF Has
  <2> QED BY <1>16, <2>1, <2>4 DEF Reroute
<1>17. ASSUME NEW t \in Threads, UnrouteDone(t) PROVE Served'
  <2>1. Config' = Config BY <1>17 DEF UnrouteDone, Config
  <2> QED BY <1>17, <2>1, SMTT(40) DEF UnrouteDone
<1>18. ASSUME NEW t \in Threads, UnrouteThrows(t) PROVE Served'
  <2>1. Config' = Config BY <1>18 DEF UnrouteThrows, Config
  <2> QED BY <1>18, <2>1, SMTT(40) DEF UnrouteThrows, After
<1>19. ASSUME NEW t \in Threads, CloseChannel(t) PROVE Served'
  <2>1. Config' = Config BY <1>19 DEF CloseChannel, Config
  <2> QED BY <1>19, <2>1, SMTT(40) DEF CloseChannel, After
<1>20. ASSUME NEW k \in Keys, VisitSkip(k) PROVE Served'
  <2>1. Config' = Config BY <1>20 DEF VisitSkip, Config
  <2> QED BY <1>20, <2>1, SMTT(40) DEF VisitSkip
<1>21. ASSUME NEW k \in Keys, VisitRemoved(k) PROVE Served'
  <2>1. Config' = Config BY <1>21 DEF VisitRemoved, Config
  <2> QED BY <1>21, <2>1, SMTT(40) DEF VisitRemoved
<1>22. ASSUME NEW k \in Keys, VisitKept(k) PROVE Served'
  <2>1. Config' = Config BY <1>22 DEF VisitKept, Config
  <2> QED BY <1>22, <2>1, SMTT(40) DEF VisitKept
<1>23. ASSUME NEW p \in Ports, DropPort(p) PROVE Served'
  <2>1. Config' = Config BY <1>23 DEF DropPort, Config
  <2> QED BY <1>23, <2>1, SMTT(40) DEF DropPort, Mine
<1>24. ASSUME NEW p \in Ports, AddPort(p) PROVE Served'
  <2>1. Config' = Config BY <1>24 DEF AddPort, Config
  <2> QED BY <1>24, <2>1, SMTT(40) DEF AddPort
<1>25. CASE VisitEnd
  <2>1. Config' = Config BY <1>25 DEF VisitEnd, Config
  <2> QED BY <1>25, <2>1, SMTT(40) DEF VisitEnd
<1>26. CASE UpdateLock
  <2>1. Config' = Config BY <1>26 DEF UpdateLock, Config
  <2> QED BY <1>26, <2>1, SMTT(40) DEF UpdateLock
<1>27. CASE DropEnd
  <2>1. Config' = Config BY <1>27 DEF DropEnd, Config
  <2> QED BY <1>27, <2>1, SMTT(40) DEF DropEnd
<1>28. CASE AddEnd
  <2>1. Config' = Config BY <1>28 DEF AddEnd, Config
  <2> QED BY <1>28, <2>1, SMTT(40) DEF AddEnd
<1>29. CASE ConfigSave
  BY <1>29 DEF ConfigSave
<1>30. CASE UNCHANGED vars
  BY <1>30, SMTT(40) DEF vars, Config
<1> HIDE DEF Served, IInv, RInv, TypeOK
<1> QED BY <1>1, <1>2, <1>3, <1>4, <1>5, <1>6, <1>7, <1>8, <1>9, <1>10, <1>11, <1>12,
    <1>13, <1>14, <1>15, <1>16, <1>17, <1>18, <1>19, <1>20, <1>21, <1>22, <1>23, <1>24,
    <1>25, <1>26, <1>27, <1>28, <1>29, <1>30 DEF Next, Auth, Removal, Change

(* What updateCmdChannel has done so far for the connection it works on.    *)
LEMMA UpdatingStep ==
  ASSUME IInv, RInv, ~Doomed, ~Doomed', Alone', [Next]_vars
  PROVE  Updating'
<1> USE PortsDisjoint DEF IInv, TypeOK, WorksOnReady, OwnChannel, HoldsRoute,
    RegisteredReady, RInv, Doomed, Goto, Busy, Alone, Life, Losing, Authing, Lists, Leading,
    Leads, Updating
<1>1. ASSUME NEW c \in Chans, AuthRejected(c) PROVE Updating'
  <2>1. Config' = Config BY <1>1 DEF AuthRejected, Config
  <2> QED BY <1>1, <2>1 DEF AuthRejected
<1>2. ASSUME NEW c \in Chans, AuthBegin(c) PROVE Updating'
  <2>1. Config' = Config BY <1>2 DEF AuthBegin, Config
  <2> QED BY <1>2, <2>1 DEF AuthBegin, AuthClash
<1>3. ASSUME NEW c \in Chans, AuthExists(c) PROVE Updating'
  <2>1. Config' = Config BY <1>3 DEF AuthExists, Config
  <2> QED BY <1>3, <2>1 DEF AuthExists
<1>4. ASSUME NEW c \in Chans, AuthFree(c) PROVE Updating'
  <2>1. Config' = Config BY <1>4 DEF AuthFree, Config
  <2> QED BY <1>4, <2>1 DEF AuthFree
<1>5. ASSUME NEW c \in Chans, AuthLock(c) PROVE Updating'
  <2>1. Config' = Config BY <1>5 DEF AuthLock, Config
  <2> QED BY <1>5, <2>1 DEF AuthLock
<1>6. ASSUME NEW c \in Chans, AuthRoute(c) PROVE Updating'
  <2>1. Config' = Config BY <1>6 DEF AuthRoute, Config
  <2> QED BY <1>6, <2>1 DEF AuthRoute
<1>7. ASSUME NEW c \in Chans, AuthUnlock(c) PROVE Updating'
  <2>1. Config' = Config BY <1>7 DEF AuthUnlock, Config
  <2> QED BY <1>7, <2>1 DEF AuthUnlock
<1>8. ASSUME NEW c \in Chans, AuthAttrs(c) PROVE Updating'
  <2>1. Config' = Config BY <1>8 DEF AuthAttrs, Config
  <2> QED BY <1>8, <2>1 DEF AuthAttrs
<1>9. ASSUME NEW c \in Chans, AuthPublish(c) PROVE Updating'
  <2>1. Config' = Config BY <1>9 DEF AuthPublish, Config
  <2> QED BY <1>9, <2>1 DEF AuthPublish
<1>10. ASSUME NEW c \in Chans, Disconnect(c) PROVE Updating'
  <2>1. Config' = Config BY <1>10 DEF Disconnect, Config
  <2> QED BY <1>10, <2>1 DEF Disconnect
<1>11. ASSUME NEW c \in Chans, InactiveUnknown(c) PROVE Updating'
  <2>1. Config' = Config BY <1>11 DEF InactiveUnknown, Config
  <2> QED BY <1>11, <2>1 DEF InactiveUnknown
<1>12. ASSUME NEW c \in Chans, Inactive(c) PROVE Updating'
  <2>1. Config' = Config BY <1>12 DEF Inactive, Config
  <2> QED BY <1>12, <2>1 DEF Inactive, RemovalClash
<1>13. ASSUME NEW t \in Threads, Deregister(t) PROVE Updating'
  <2>1. Config' = Config BY <1>13 DEF Deregister, Config
  <2> QED BY <1>13, <2>1 DEF Deregister, StartUnroute, Key
<1>14. ASSUME NEW t \in Threads, Restore(t) PROVE Updating'
  <2>1. Config' = Config BY <1>14 DEF Restore, Config
  <2> QED BY <1>14, <2>1 DEF Restore, StartUnroute, Key
<1>15. ASSUME NEW t \in Threads, Unroute(t) PROVE Updating'
  <2>1. Config' = Config BY <1>15 DEF Unroute, Config
  <2> QED BY <1>15, <2>1 DEF Unroute, Foreign
<1>16. ASSUME NEW t \in Threads, Reroute(t) PROVE Updating'
  <2>1. Config' = Config BY <1>16 DEF Reroute, Config
  <2> QED BY <1>16, <2>1 DEF Reroute
<1>17. ASSUME NEW t \in Threads, UnrouteDone(t) PROVE Updating'
  <2>1. Config' = Config BY <1>17 DEF UnrouteDone, Config
  <2> QED BY <1>17, <2>1 DEF UnrouteDone
<1>18. ASSUME NEW t \in Threads, UnrouteThrows(t) PROVE Updating'
  <2>1. Config' = Config BY <1>18 DEF UnrouteThrows, Config
  <2> QED BY <1>18, <2>1 DEF UnrouteThrows, After
<1>19. ASSUME NEW t \in Threads, CloseChannel(t) PROVE Updating'
  <2>1. Config' = Config BY <1>19 DEF CloseChannel, Config
  <2> QED BY <1>19, <2>1 DEF CloseChannel, After
<1>20. ASSUME NEW k \in Keys, VisitSkip(k) PROVE Updating'
  <2>1. Config' = Config BY <1>20 DEF VisitSkip, Config
  <2> QED BY <1>20, <2>1 DEF VisitSkip
<1>21. ASSUME NEW k \in Keys, VisitRemoved(k) PROVE Updating'
  <2>1. Config' = Config BY <1>21 DEF VisitRemoved, Config
  <2> QED BY <1>21, <2>1 DEF VisitRemoved
<1>22. ASSUME NEW k \in Keys, VisitKept(k) PROVE Updating'
  <2>1. Config' = Config BY <1>22 DEF VisitKept, Config
  <2> QED BY <1>22, <2>1 DEF VisitKept
<1>23. ASSUME NEW p \in Ports, DropPort(p) PROVE Updating'
  <2>1. Config' = Config BY <1>23 DEF DropPort, Config
  <2> QED BY <1>23, <2>1 DEF DropPort, Mine
<1>24. ASSUME NEW p \in Ports, AddPort(p) PROVE Updating'
  <2>1. Config' = Config BY <1>24 DEF AddPort, Config
  <2> QED BY <1>24, <2>1 DEF AddPort
<1>25. CASE VisitEnd
  <2>1. Config' = Config BY <1>25 DEF VisitEnd, Config
  <2> QED BY <1>25, <2>1 DEF VisitEnd
<1>26. CASE UpdateLock
  <2>1. Config' = Config BY <1>26 DEF UpdateLock, Config
  <2> QED BY <1>26, <2>1 DEF UpdateLock
<1>27. CASE DropEnd
  <2>1. Config' = Config BY <1>27 DEF DropEnd, Config
  <2> QED BY <1>27, <2>1 DEF DropEnd
<1>28. CASE AddEnd
  <2>1. Config' = Config BY <1>28 DEF AddEnd, Config
  <2> QED BY <1>28, <2>1 DEF AddEnd
<1>29. CASE ConfigSave
  BY <1>29 DEF ConfigSave
<1>30. CASE UNCHANGED vars
  BY <1>30 DEF vars, Config
<1> HIDE DEF Updating, IInv, RInv, TypeOK
<1> QED BY <1>1, <1>2, <1>3, <1>4, <1>5, <1>6, <1>7, <1>8, <1>9, <1>10, <1>11, <1>12,
    <1>13, <1>14, <1>15, <1>16, <1>17, <1>18, <1>19, <1>20, <1>21, <1>22, <1>23, <1>24,
    <1>25, <1>26, <1>27, <1>28, <1>29, <1>30 DEF Next, Auth, Removal, Change

(* What is disturbed remains so, and a connection put back has disturbed.   *)
LEMMA DoomedStays == ASSUME TypeOK, Doomed, [Next]_vars PROVE Doomed'
<1>1. CASE disturbed
  <2>1. CASE UNCHANGED vars BY <1>1, <2>1 DEF vars, Doomed
  <2>2. CASE \E c \in Chans : Auth(c) \/ Disconnect(c) \/ InactiveUnknown(c) \/ Inactive(c)
    BY <1>1, <2>2 DEF Doomed, Auth, AuthRejected, AuthBegin, AuthExists, AuthFree, AuthLock,
       AuthRoute, AuthUnlock, AuthAttrs, AuthPublish, Disconnect, InactiveUnknown, Inactive
  <2>3. CASE \E t \in Threads : Removal(t)
    BY <1>1, <2>3 DEF Doomed, Removal, Deregister, Restore, Unroute, Reroute, UnrouteDone,
       UnrouteThrows, CloseChannel
  <2>4. CASE Change
    BY <1>1, <2>4 DEF Doomed, Change, ConfigSave, VisitEnd, UpdateLock, DropEnd, AddEnd,
       VisitSkip, VisitRemoved, VisitKept, DropPort, AddPort
  <2> QED BY <2>1, <2>2, <2>3, <2>4 DEF Next
<1>2. ASSUME NEW s \in Threads, pc[s] = "restore" PROVE Doomed'
  <2> USE <1>2 DEF TypeOK, Goto
  <2> SUFFICES ASSUME ~disturbed' PROVE pc'[s] = "restore" BY DEF Doomed
  <2>1. CASE UNCHANGED vars BY <2>1 DEF vars
  <2>2. CASE \E c \in Chans : Auth(c) \/ Disconnect(c) \/ InactiveUnknown(c) \/ Inactive(c)
    BY <2>2 DEF Auth, AuthRejected, AuthBegin, AuthExists, AuthFree, AuthLock, AuthRoute,
       AuthUnlock, AuthAttrs, AuthPublish, Disconnect, InactiveUnknown, Inactive
  <2>3. CASE \E t \in Threads : Removal(t)
    <3> PICK t \in Threads : Removal(t) BY <2>3
    <3>1. CASE Deregister(t) BY <3>1 DEF Deregister, StartUnroute
    <3>2. CASE Restore(t) BY <3>2 DEF Restore
    <3>3. CASE Unroute(t) BY <3>3 DEF Unroute
    <3>4. CASE Reroute(t) BY <3>4 DEF Reroute
    <3>5. CASE UnrouteDone(t) BY <3>5 DEF UnrouteDone
    <3>6. CASE UnrouteThrows(t) BY <3>6 DEF UnrouteThrows
    <3>7. CASE CloseChannel(t) BY <3>7 DEF CloseChannel
    <3> QED BY <3>1, <3>2, <3>3, <3>4, <3>5, <3>6, <3>7 DEF Removal
  <2>4. CASE Change
    BY <2>4 DEF Change, ConfigSave, VisitEnd, UpdateLock, DropEnd, AddEnd, VisitSkip,
       VisitRemoved, VisitKept, DropPort, AddPort
  <2> QED BY <2>1, <2>2, <2>3, <2>4 DEF Next
<1> QED BY <1>1, <1>2 DEF Doomed

LEMMA InitRoutes == Init => RInv
<1> SUFFICES ASSUME Init PROVE Alone /\ Life /\ Lists /\ Leading /\ AuthRoutes /\ Served
    /\ Updating
  BY DEF RInv
<1> USE DEF Init
<1>1. Alone BY DEF Alone, Busy
<1>2. Life BY DEF Life, Losing, Authing
<1>3. Lists BY DEF Lists
<1>4. Leading BY DEF Leading
<1>5. AuthRoutes BY DEF AuthRoutes
<1>6. Served BY DEF Served
<1>7. Updating BY DEF Updating
<1> QED BY <1>1, <1>2, <1>3, <1>4, <1>5, <1>6, <1>7

LEMMA NextRoutes == ASSUME IInv, RInv, [Next]_vars PROVE RInv'
<1> SUFFICES ASSUME ~Doomed'
             PROVE  (Alone /\ Life /\ Lists /\ Leading /\ AuthRoutes /\ Served /\ Updating)'
  BY DEF RInv
<1>1. ~Doomed BY DoomedStays DEF IInv
<1>2. Alone' BY <1>1, AloneStep
<1> QED BY <1>1, <1>2, LifeStep, ListsStep, LeadingStep, AuthRoutesStep, ServedStep,
    UpdatingStep

(* The registered live connection of a key has its ports, every other route *)
(* would wait for a removal, and at rest no removal is going on.            *)
LEMMA RoutesAtRest == ASSUME IInv, RInv PROVE RoutesExact
<1> SUFFICES ASSUME Quiescent, ~disturbed, NEW p \in Ports
             PROVE  LET live == {c \in Serving(p) : alive[c]} IN
                    IF live = {} THEN portCmd[p] = None ELSE portCmd[p] \in live
  BY DEF RoutesExact
<1> DEFINE live == {c \in Serving(p) : alive[c]}
<1>1. \A t \in Threads : pc[t] \in {"idle", "ready", "done"}
  BY DEF IInv, TypeOK, Quiescent, Busy
<1>2. Life /\ Leading /\ Served /\ pc[Web] = "idle"
  BY <1>1 DEF RInv, Doomed, Alone
<1>3. ASSUME NEW k \in Keys, cmd[k] # None
      PROVE  alive[cmd[k]] /\ cmd[k] \in Chans /\ KeyOf[cmd[k]] = k
  BY <1>1, <1>2, <1>3 DEF IInv, TypeOK, RegisteredReady, Life, Quiescent
<1>4. \A d \in Chans, q \in Ports : Has(d, q) <=> portCmd[q] = d BY <1>1 DEF Has
<1>5. ASSUME NEW k \in Keys, cmd[k] # None
      PROVE  k \in DOMAIN Config /\ (p \in Config[k] <=> portCmd[p] = cmd[k])
  BY <1>2, <1>3, <1>4, <1>5 DEF Served, Visited
<1>6. CASE live = {}
  <2> SUFFICES ASSUME portCmd[p] # None PROVE FALSE BY <1>6
  <2> DEFINE d == portCmd[p]
  <2>1. d \in Chans BY DEF IInv, TypeOK
  <2>2. Leads(p, d) BY <1>2 DEF Leading
  <2>3. cmd[KeyOf[d]] = d BY <1>1, <2>1, <2>2 DEF Leads
  <2>4. KeyOf[d] \in Keys BY <2>1
  <2>5. KeyOf[d] \in Owner(p) /\ alive[d] BY <1>3, <1>5, <2>1, <2>3, <2>4 DEF Owner
  <2>6. d \in Serving(p) BY <2>1, <2>3, <2>5 DEF Serving
  <2> QED BY <1>6, <2>5, <2>6
<1>7. CASE live # {}
  <2>1. PICK k \in Owner(p) : cmd[k] # None BY <1>7 DEF Serving
  <2>2. k \in Keys /\ p \in Config[k] BY <2>1 DEF Owner, Config, IInv, TypeOK
  <2>3. portCmd[p] = cmd[k] /\ alive[cmd[k]] BY <1>3, <1>5, <2>1, <2>2
  <2> QED BY <2>1, <2>3 DEF Serving
<1> QED BY <1>6, <1>7

(* As long as no operations that do not exclude each other disturb each    *)
(* other, a port leads to the live registered connection of its key, and   *)
(* nowhere when there is none.                                             *)
THEOREM RoutesAreExact == Spec => []RoutesExact
<1>1. IInv /\ RInv /\ [Next]_vars => RInv' BY NextRoutes
<1>2. IInv /\ RInv => RoutesExact BY RoutesAtRest
<1> QED BY <1>1, <1>2, InitRoutes, SpecIInv, PTL DEF Spec
==============================================================================
