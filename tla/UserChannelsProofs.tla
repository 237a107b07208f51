-------------------------- MODULE UserChannelsProofs --------------------------
(***************************************************************************)
(* User connections at the proxy server, for any users, data connections,  *)
(* control connections and configurations, and whatever runs at once.      *)
(***************************************************************************)
EXTENDS UserChannels, TLAPS

PCs == UserPC \cup ProxyPC \cup CtlPC \cup WebPC

(* What the local variables of the handlers hold where they are used.      *)
Locals ==
  /\ pc \in [Threads -> PCs]
  /\ cmd # None => cmd \in attrs
  /\ \A u \in Users : pc[u] \in UserOpen \cup {"unlist"} => at[u] \in Ctls
  /\ \A c \in Ctls : pc[c] = "publish" => c \in attrs
  /\ \A c \in Ctls : pc[c] = "close" => who[c] \in Users
  /\ \A t \in Removers : pc[t] \in RemovePC => at[t] \in attrs
  /\ \A p \in Proxies :
       /\ pc[p] \in {"get", "remove"} => at[p] \in Ctls
       /\ pc[p] \in {"find", "get", "bind", "read", "close", "unbind", "forget", "end"}
          => who[p] \in Users
  /\ pc[Web] \in {"ports", "clear", "evict"} => at[Web] \in attrs
  /\ pc[Web] = "evict" => who[Web] \in Users

(* A handler took the user out of the registry and is about to close it.   *)
BeingClosed(u) == \E t \in Proxies \cup Ctls : who[t] = u /\ pc[t] \in {"close", "end"}

Registered ==
  /\ \A u \in Users : pc[u] \in {"ask", "open"}
       => u \in closing \/ u \in userChannels[at[u]] \/ BeingClosed(u)
  /\ pc[Web] = "evict" => who[Web] \in closing

(* The client uses a data connection for the user it was last bound for,   *)
(* until that user's channelInactive has told it.                          *)
Early == {"unused", "lan", "request", "register", "ask"}
Binds == {"find", "get", "bind", "read"}

AskedOnce    == \A u \in Users : pc[u] \in Early => request[u] = "none"
NotYetBound  == \A u \in Users : request[u] \in {"none", "asked"}
                  => uNext[u] = None /\ \A p \in Proxies : session[p] # u
OneSession   == \A p, q \in Proxies : session[p] # None /\ session[p] = session[q] => p = q
Binding      == \A p \in Proxies : pc[p] \in Binds
                  => pAlive[p] /\ session[p] = who[p] /\ uNext[who[p]] = None
HoldsSession == \A u \in Users : uNext[u] # None /\ pAlive[uNext[u]] /\ pc[u] # "gone"
                  => session[uNext[u]] = u
ServesUser   == \A u \in Users, p \in Proxies : request[u] = p /\ pAlive[p] /\ pc[u] # "gone"
                                             => session[p] = u
Dropping     == \A p \in Proxies : /\ pc[p] \in {"close", "unbind"} => pUser[p] \in {None, who[p]}
                                   /\ pc[p] = "unbind" => who[p] \in closing
HalfBound    == \A p \in Proxies : pc[p] = "read" => pUser[p] = who[p]
UserIsSession == \A p \in Proxies : pAlive[p] /\ pUser[p] # None => session[p] = pUser[p]
Releasing    == \A u \in Users : /\ pc[u] \in {"unbind", "tell"} => uNext[u] # None
                                 /\ pc[u] = "tell" /\ pAlive[uNext[u]] => pUser[uNext[u]] = None

Bindings == /\ AskedOnce /\ NotYetBound /\ OneSession /\ Binding /\ HoldsSession
            /\ ServesUser /\ Dropping /\ HalfBound /\ UserIsSession /\ Releasing
            /\ BoundPairAgree

(* USER_CHANNELS holds users that are through with its registration, of    *)
(* which REQUEST_LAN_INFO does not change any more; the check of onChanged *)
(* has still to come to a user it found, or the user is fine.              *)
Unlisted == {"unused", "lan", "request", "register"}
Listed   == {"ask", "open"}
Listings == \A c \in Ctls : \A u \in userChannels[c] :
              pc[u] \notin Unlisted /\ (pc[u] \in Listed => at[u] = c)
Fine(u)  == pc[u] \in Listed => reqLan[u] = Lan \/ u \in closing \/ BeingClosed(u)
Checking == pc[Web] \in {"clear", "evict"}
Checked  == /\ pc[Web] = "idle" \/ Checking \/ checked = {}
            /\ \A u \in checked : pc[u] \notin Unlisted
            /\ \A u \in checked : Checking /\ pc[u] \in Listed => at[u] = at[Web]
            /\ \A u \in checked : (Checking /\ u \in rest[Web]) \/ Fine(u)
UInv == TypeOK /\ Locals /\ Registered /\ Bindings /\ Listings /\ Checked

USE UserChannelsAssumption
------------------------------------------------------------------------------
LEMMA InitInv == Init => UInv
<1> SUFFICES ASSUME Init PROVE UInv OBVIOUS
<1> USE DEF Init, Threads, Handlers, Removers
<1>1. PcTypeOK BY DEF PcTypeOK, UserPC, UserOpen, ProxyPC, CtlPC, WebPC, RemovePC
<1>2. LocalTypeOK BY DEF LocalTypeOK
<1>3. UserTypeOK BY DEF UserTypeOK, LanSet
<1>4. RegistryTypeOK BY DEF RegistryTypeOK
<1>5. Locals BY DEF Locals, PCs, UserPC, UserOpen, ProxyPC, RemovePC
<1>6. Registered BY DEF Registered
<1>7. AskedOnce /\ NotYetBound /\ OneSession /\ Binding
  BY DEF AskedOnce, NotYetBound, OneSession, Binding, Binds
<1>8. /\ HoldsSession /\ ServesUser /\ Dropping /\ HalfBound
     /\ UserIsSession /\ Releasing /\ BoundPairAgree
  BY DEF HoldsSession, ServesUser, Dropping, HalfBound, UserIsSession, Releasing,
    BoundPairAgree
<1>9. Listings /\ Checked BY DEF Listings, Checked
<1> QED BY <1>1, <1>2, <1>3, <1>4, <1>5, <1>6, <1>7, <1>8, <1>9 DEF UInv, TypeOK, Bindings
------------------------------------------------------------------------------
(* Each variable stays in its type.                                        *)
LEMMA TypeStep == ASSUME TypeOK, Locals, [Next]_vars PROVE TypeOK'
<1> USE DEF Goto, Let, config, registry, links, client, locals, users, noted, vars,
    Removers, RemovePC, Handlers, Threads, TypeOK, PcTypeOK, LocalTypeOK, UserTypeOK, RegistryTypeOK,
    UserPC, UserOpen,
    ProxyPC, CtlPC, WebPC, Locals, Lan, LanSet
<1>1. ASSUME NEW u \in Users, UserStep(u) \/ BackendLeaves(u) PROVE TypeOK'
  <2>1. CASE FindRoute(u) BY <2>1 DEF FindRoute
  <2>2. CASE ReadLan(u) BY <2>2 DEF ReadLan
  <2>3. CASE RequestLan(u) BY <2>3 DEF RequestLan
  <2>4. CASE RegisterUser(u) BY <2>4 DEF RegisterUser
  <2>5. CASE RegisterThrows(u) BY <2>5 DEF RegisterThrows
  <2>6. CASE AskBackend(u) BY <2>6 DEF AskBackend
  <2>7. CASE UserLeaves(u) BY <2>7 DEF UserLeaves
  <2>8. CASE InactiveRoute(u) BY <2>8 DEF InactiveRoute
  <2>9. CASE Unlist(u) BY <2>9 DEF Unlist
  <2>10. CASE InactiveNext(u) BY <2>10 DEF InactiveNext
  <2>11. CASE Unbind(u)
    <3>0. UNCHANGED <<at, took, who, rest, checked, asked, reqLan, closing, uNext, cmd, portCmd,
                      pAlive, cAlive, attrs, hasPort, userChannels,
                      keyVersion, lanVersion, request>>
      BY <2>11 DEF Unbind
    <3>1. CASE pc[u] = "unbind" /\ Goto(u, "tell") /\ Forget(u)
      <4>1. PcTypeOK' BY <3>0, <3>1
      <4>2. UserTypeOK' BY <3>0, <3>1 DEF Forget
      <4>3. LocalTypeOK' /\ RegistryTypeOK' BY <3>0
      <4> QED BY <4>1, <4>2, <4>3
    <3>2. CASE pc[u] = "tell" /\ Goto(u, "gone") /\ Inform(u)
      BY <3>0, <3>2 DEF Inform
    <3> QED BY <2>11, <3>1, <3>2 DEF Unbind, Release
  <2>12. CASE BackendLeaves(u) BY <2>12 DEF BackendLeaves
  <2> QED BY <1>1, <2>1, <2>2, <2>3, <2>4, <2>5, <2>6, <2>7, <2>8, <2>9, <2>10, <2>11, <2>12
    DEF UserStep
<1>2. ASSUME NEW p \in Proxies, ProxyStep(p) \/ ProxyFails(p) PROVE TypeOK'
  <2>1. CASE FindCmd(p) BY <2>1 DEF FindCmd
  <2>2. CASE GetUser(p) BY <2>2 DEF GetUser
  <2>3. CASE BindProxy(p) BY <2>3 DEF BindProxy
  <2>4. CASE BindUser(p) BY <2>4 DEF BindUser
  <2>5. CASE DropFindCmd(p) BY <2>5 DEF DropFindCmd
  <2>6. CASE DropRemove(p) BY <2>6 DEF DropRemove
  <2>7. CASE DropClose(p) BY <2>7 DEF DropClose
  <2>8. CASE DropUnbind(p) BY <2>8 DEF DropUnbind
  <2>9. CASE LostUser(p) BY <2>9 DEF LostUser, Open, UserOpen
  <2>10. CASE LostRemove(p) BY <2>10 DEF LostRemove
  <2>11. CASE LostClose(p) BY <2>11 DEF LostClose
  <2>12. CASE ProxyFails(p) BY <2>12 DEF ProxyFails
  <2> QED BY <1>2, <2>1, <2>2, <2>3, <2>4, <2>5, <2>6, <2>7, <2>8, <2>9, <2>10, <2>11, <2>12
    DEF ProxyStep
<1>3. ASSUME NEW u \in Users, NEW p \in Proxies, ClientBinds(u, p) PROVE TypeOK'
  BY <1>3 DEF ClientBinds
<1>4. ASSUME NEW c \in Ctls, CtlStep(c) \/ Auth(c) \/ CtlFails(c) PROVE TypeOK'
  <2>1. CASE RoutePort(c) BY <2>1 DEF RoutePort
  <2>2. CASE SetAttrs(c) BY <2>2 DEF SetAttrs
  <2>3. CASE Publish(c) BY <2>3 DEF Publish
  <2>4. CASE RefusedClose(c) BY <2>4 DEF RefusedClose
  <2>5. CASE Auth(c) BY <2>5 DEF Auth, Granted
  <2>6. CASE CtlFails(c) BY <2>6 DEF CtlFails
  <2> QED BY <1>4, <2>1, <2>2, <2>3, <2>4, <2>5, <2>6 DEF CtlStep
<1>5. ASSUME NEW c \in Ctls, NEW u \in Users, BackendRefused(c, u) PROVE TypeOK'
  BY <1>5 DEF BackendRefused
<1>6. CASE WebStep
  <2>1. CASE SaveLans BY <2>1 DEF SaveLans
  <2>2. CASE VisitCmd BY <2>2 DEF VisitCmd
  <2>3. CASE ChangePort BY <2>3 DEF ChangePort, Granted
  <2>4. CASE CheckUser BY <2>4 DEF CheckUser, Stale
  <2>5. CASE EvictUser BY <2>5 DEF EvictUser
  <2>6. CASE CheckDone BY <2>6 DEF CheckDone
  <2>7. CASE SaveKeys BY <2>7 DEF SaveKeys
  <2>8. CASE SkipUser BY <2>8 DEF SkipUser
  <2> QED BY <1>6, <2>1, <2>2, <2>3, <2>4, <2>5, <2>6, <2>7, <2>8 DEF WebStep
<1>7. ASSUME NEW t \in Removers, RemoveStep(t) PROVE TypeOK'
  <2>1. CASE TakeCmd(t) BY <2>1 DEF TakeCmd
  <2>2. CASE RestoreCmd(t) BY <2>2 DEF RestoreCmd
  <2>3. CASE TakePort(t) BY <2>3, SMTT(40) DEF TakePort
  <2>4. CASE RestorePort(t) BY <2>4 DEF RestorePort
  <2>5. CASE StartSweep(t) BY <2>5 DEF StartSweep
  <2>6. CASE SweepUser(t) BY <2>6 DEF SweepUser
  <2>7. CASE SweepNewUser(t) BY <2>7 DEF SweepNewUser
  <2>8. CASE EndSweep(t) BY <2>8 DEF EndSweep
  <2> QED BY <1>7, <2>1, <2>2, <2>3, <2>4, <2>5, <2>6, <2>7, <2>8 DEF RemoveStep
<1>8. CASE UNCHANGED vars
  BY <1>8
<1> QED BY <1>1, <1>2, <1>3, <1>4, <1>5, <1>6, <1>7, <1>8 DEF Next

(* A handler that goes on has set what it goes on with.                     *)
LEMMA LocalsStep == ASSUME TypeOK, Locals, [Next]_vars PROVE Locals'
<1> USE DEF Goto, Let, config, registry, links, client, locals, users, noted, vars,
    Removers, RemovePC, Handlers, Threads, TypeOK, PcTypeOK, LocalTypeOK, UserTypeOK, RegistryTypeOK,
    UserPC, UserOpen,
    ProxyPC, CtlPC, WebPC, Locals, PCs
<1>1. ASSUME NEW u \in Users, UserStep(u) \/ BackendLeaves(u) PROVE Locals'
  <2>1. CASE FindRoute(u) BY <2>1 DEF FindRoute
  <2>2. CASE ReadLan(u) BY <2>2 DEF ReadLan
  <2>3. CASE RequestLan(u) BY <2>3 DEF RequestLan
  <2>4. CASE RegisterUser(u) BY <2>4 DEF RegisterUser
  <2>5. CASE RegisterThrows(u) BY <2>5 DEF RegisterThrows
  <2>6. CASE AskBackend(u) BY <2>6 DEF AskBackend
  <2>7. CASE UserLeaves(u) BY <2>7 DEF UserLeaves
  <2>8. CASE InactiveRoute(u) BY <2>8 DEF InactiveRoute
  <2>9. CASE Unlist(u) BY <2>9 DEF Unlist
  <2>10. CASE InactiveNext(u) BY <2>10 DEF InactiveNext
  <2>11. CASE Unbind(u)
    <3>0. UNCHANGED <<at, took, who, rest, checked, asked, reqLan, closing, uNext, cmd, portCmd,
                      pAlive, cAlive, attrs, hasPort, userChannels,
                      keyVersion, lanVersion, request>>
      BY <2>11 DEF Unbind
    <3>1. CASE pc[u] = "unbind" /\ Goto(u, "tell") /\ Forget(u)
      BY <3>0, <3>1 DEF Forget
    <3>2. CASE pc[u] = "tell" /\ Goto(u, "gone") /\ Inform(u)
      BY <3>0, <3>2 DEF Inform
    <3> QED BY <2>11, <3>1, <3>2 DEF Unbind, Release
  <2>12. CASE BackendLeaves(u) BY <2>12 DEF BackendLeaves
  <2> QED BY <1>1, <2>1, <2>2, <2>3, <2>4, <2>5, <2>6, <2>7, <2>8, <2>9, <2>10, <2>11, <2>12
    DEF UserStep
<1>2. ASSUME NEW p \in Proxies, ProxyStep(p) \/ ProxyFails(p) PROVE Locals'
  <2>1. CASE FindCmd(p) BY <2>1 DEF FindCmd
  <2>2. CASE GetUser(p) BY <2>2 DEF GetUser
  <2>3. CASE BindProxy(p) BY <2>3 DEF BindProxy
  <2>4. CASE BindUser(p) BY <2>4 DEF BindUser
  <2>5. CASE DropFindCmd(p) BY <2>5 DEF DropFindCmd
  <2>6. CASE DropRemove(p) BY <2>6 DEF DropRemove
  <2>7. CASE DropClose(p) BY <2>7 DEF DropClose
  <2>8. CASE DropUnbind(p) BY <2>8 DEF DropUnbind
  <2>9. CASE LostUser(p) BY <2>9 DEF LostUser, Open, UserOpen
  <2>10. CASE LostRemove(p) BY <2>10 DEF LostRemove
  <2>11. CASE LostClose(p) BY <2>11 DEF LostClose
  <2>12. CASE ProxyFails(p) BY <2>12 DEF ProxyFails
  <2> QED BY <1>2, <2>1, <2>2, <2>3, <2>4, <2>5, <2>6, <2>7, <2>8, <2>9, <2>10, <2>11, <2>12
    DEF ProxyStep
<1>3. ASSUME NEW u \in Users, NEW p \in Proxies, ClientBinds(u, p) PROVE Locals'
  BY <1>3 DEF ClientBinds
<1>4. ASSUME NEW c \in Ctls, CtlStep(c) \/ Auth(c) \/ CtlFails(c) PROVE Locals'
  <2>1. CASE RoutePort(c) BY <2>1 DEF RoutePort
  <2>2. CASE SetAttrs(c) BY <2>2 DEF SetAttrs
  <2>3. CASE Publish(c) BY <2>3 DEF Publish
  <2>4. CASE RefusedClose(c) BY <2>4 DEF RefusedClose
  <2>5. CASE Auth(c) BY <2>5 DEF Auth, Granted
  <2>6. CASE CtlFails(c) BY <2>6 DEF CtlFails
  <2> QED BY <1>4, <2>1, <2>2, <2>3, <2>4, <2>5, <2>6 DEF CtlStep
<1>5. ASSUME NEW c \in Ctls, NEW u \in Users, BackendRefused(c, u) PROVE Locals'
  BY <1>5 DEF BackendRefused
<1>6. CASE WebStep
  <2>1. CASE SaveLans BY <2>1 DEF SaveLans
  <2>2. CASE VisitCmd BY <2>2 DEF VisitCmd
  <2>3. CASE ChangePort BY <2>3 DEF ChangePort, Granted
  <2>4. CASE CheckUser BY <2>4 DEF CheckUser, Stale
  <2>5. CASE EvictUser BY <2>5 DEF EvictUser
  <2>6. CASE CheckDone BY <2>6 DEF CheckDone
  <2>7. CASE SaveKeys BY <2>7 DEF SaveKeys
  <2>8. CASE SkipUser BY <2>8 DEF SkipUser
  <2> QED BY <1>6, <2>1, <2>2, <2>3, <2>4, <2>5, <2>6, <2>7, <2>8 DEF WebStep
<1>7. ASSUME NEW t \in Removers, RemoveStep(t) PROVE Locals'
  <2>1. CASE TakeCmd(t) BY <2>1 DEF TakeCmd
  <2>2. CASE RestoreCmd(t) BY <2>2 DEF RestoreCmd
  <2>3. CASE TakePort(t) BY <2>3, SMTT(40) DEF TakePort
  <2>4. CASE RestorePort(t) BY <2>4 DEF RestorePort
  <2>5. CASE StartSweep(t) BY <2>5 DEF StartSweep
  <2>6. CASE SweepUser(t) BY <2>6 DEF SweepUser
  <2>7. CASE SweepNewUser(t) BY <2>7 DEF SweepNewUser
  <2>8. CASE EndSweep(t) BY <2>8 DEF EndSweep
  <2> QED BY <1>7, <2>1, <2>2, <2>3, <2>4, <2>5, <2>6, <2>7, <2>8 DEF RemoveStep
<1>8. CASE UNCHANGED vars
  BY <1>8
<1> QED BY <1>1, <1>2, <1>3, <1>4, <1>5, <1>6, <1>7, <1>8 DEF Next

(* Who takes an open user out of its USER_CHANNELS closes it, in the same   *)
(* handler: between the two steps that thread is the witness.               *)
LEMMA RegisteredStep == ASSUME TypeOK, Locals, Registered, [Next]_vars PROVE Registered'
<1> USE DEF Goto, Let, config, registry, links, client, locals, users, noted, vars,
    Removers, RemovePC, Handlers, Threads, TypeOK, LocalTypeOK, RegistryTypeOK, PCs, UserPC, UserOpen, ProxyPC,
    CtlPC,
    WebPC, Locals, Registered, BeingClosed
<1>1. ASSUME NEW u \in Users, UserStep(u) \/ BackendLeaves(u) PROVE Registered'
  <2>1. CASE FindRoute(u) BY <2>1 DEF FindRoute
  <2>2. CASE ReadLan(u) BY <2>2 DEF ReadLan
  <2>3. CASE RequestLan(u) BY <2>3 DEF RequestLan
  <2>4. CASE RegisterUser(u) BY <2>4 DEF RegisterUser
  <2>5. CASE RegisterThrows(u) BY <2>5 DEF RegisterThrows
  <2>6. CASE AskBackend(u) BY <2>6 DEF AskBackend
  <2>7. CASE UserLeaves(u) BY <2>7 DEF UserLeaves
  <2>8. CASE InactiveRoute(u) BY <2>8 DEF InactiveRoute
  <2>9. CASE Unlist(u) BY <2>9 DEF Unlist
  <2>10. CASE InactiveNext(u) BY <2>10 DEF InactiveNext
  <2>11. CASE Unbind(u)
    <3>0. UNCHANGED <<at, took, who, rest, checked, asked, reqLan, closing, uNext, cmd, portCmd,
                      pAlive, cAlive, attrs, hasPort, userChannels,
                      keyVersion, lanVersion, request>>
      BY <2>11 DEF Unbind
    <3>1. CASE pc[u] = "unbind" /\ Goto(u, "tell") /\ Forget(u)
      BY <3>0, <3>1 DEF Forget
    <3>2. CASE pc[u] = "tell" /\ Goto(u, "gone") /\ Inform(u)
      BY <3>0, <3>2 DEF Inform
    <3> QED BY <2>11, <3>1, <3>2 DEF Unbind, Release
  <2>12. CASE BackendLeaves(u) BY <2>12 DEF BackendLeaves
  <2> QED BY <1>1, <2>1, <2>2, <2>3, <2>4, <2>5, <2>6, <2>7, <2>8, <2>9, <2>10, <2>11, <2>12
    DEF UserStep
<1>2. ASSUME NEW p \in Proxies, ProxyStep(p) \/ ProxyFails(p) PROVE Registered'
  <2>1. CASE FindCmd(p) BY <2>1 DEF FindCmd
  <2>2. CASE GetUser(p) BY <2>2 DEF GetUser
  <2>3. CASE BindProxy(p) BY <2>3 DEF BindProxy
  <2>4. CASE BindUser(p) BY <2>4 DEF BindUser
  <2>5. CASE DropFindCmd(p) BY <2>5 DEF DropFindCmd
  <2>6. CASE DropRemove(p) BY <2>6, SMTT(40) DEF DropRemove
  <2>7. CASE DropClose(p) BY <2>7 DEF DropClose
  <2>8. CASE DropUnbind(p) BY <2>8 DEF DropUnbind
  <2>9. CASE LostUser(p) BY <2>9, SMTT(60) DEF LostUser, Open, UserOpen
  <2>10. CASE LostRemove(p) BY <2>10 DEF LostRemove
  <2>11. CASE LostClose(p) BY <2>11 DEF LostClose
  <2>12. CASE ProxyFails(p) BY <2>12 DEF ProxyFails
  <2> QED BY <1>2, <2>1, <2>2, <2>3, <2>4, <2>5, <2>6, <2>7, <2>8, <2>9, <2>10, <2>11, <2>12
    DEF ProxyStep
<1>3. ASSUME NEW u \in Users, NEW p \in Proxies, ClientBinds(u, p) PROVE Registered'
  BY <1>3, SMTT(60) DEF ClientBinds
<1>4. ASSUME NEW c \in Ctls, CtlStep(c) \/ Auth(c) \/ CtlFails(c) PROVE Registered'
  <2>1. CASE RoutePort(c) BY <2>1 DEF RoutePort
  <2>2. CASE SetAttrs(c) BY <2>2 DEF SetAttrs
  <2>3. CASE Publish(c) BY <2>3 DEF Publish
  <2>4. CASE RefusedClose(c) BY <2>4 DEF RefusedClose
  <2>5. CASE Auth(c) BY <2>5, SMTT(60) DEF Auth, Granted
  <2>6. CASE CtlFails(c) BY <2>6 DEF CtlFails
  <2> QED BY <1>4, <2>1, <2>2, <2>3, <2>4, <2>5, <2>6 DEF CtlStep
<1>5. ASSUME NEW c \in Ctls, NEW u \in Users, BackendRefused(c, u) PROVE Registered'
  BY <1>5, SMTT(60) DEF BackendRefused
<1>6. CASE WebStep
  <2>1. CASE SaveLans BY <2>1 DEF SaveLans
  <2>2. CASE VisitCmd BY <2>2 DEF VisitCmd
  <2>3. CASE ChangePort BY <2>3 DEF ChangePort, Granted
  <2>4. CASE CheckUser BY <2>4 DEF CheckUser, Stale
  <2>5. CASE EvictUser BY <2>5 DEF EvictUser
  <2>6. CASE CheckDone BY <2>6 DEF CheckDone
  <2>7. CASE SaveKeys BY <2>7 DEF SaveKeys
  <2>8. CASE SkipUser BY <2>8 DEF SkipUser
  <2> QED BY <1>6, <2>1, <2>2, <2>3, <2>4, <2>5, <2>6, <2>7, <2>8 DEF WebStep
<1>7. ASSUME NEW t \in Removers, RemoveStep(t) PROVE Registered'
  <2>1. CASE TakeCmd(t) BY <2>1 DEF TakeCmd
  <2>2. CASE RestoreCmd(t) BY <2>2 DEF RestoreCmd
  <2>3. CASE TakePort(t) BY <2>3, SMTT(40) DEF TakePort
  <2>4. CASE RestorePort(t) BY <2>4 DEF RestorePort
  <2>5. CASE StartSweep(t) BY <2>5 DEF StartSweep
  <2>6. CASE SweepUser(t) BY <2>6 DEF SweepUser
  <2>7. CASE SweepNewUser(t) BY <2>7 DEF SweepNewUser
  <2>8. CASE EndSweep(t) BY <2>8 DEF EndSweep
  <2> QED BY <1>7, <2>1, <2>2, <2>3, <2>4, <2>5, <2>6, <2>7, <2>8 DEF RemoveStep
<1>8. CASE UNCHANGED vars
  BY <1>8
<1> QED BY <1>1, <1>2, <1>3, <1>4, <1>5, <1>6, <1>7, <1>8 DEF Next

(* Once registered, a user keeps its REQUEST_LAN_INFO; who took it out of   *)
(* its USER_CHANNELS goes on to close it.                                   *)
Steady ==
  /\ closing \subseteq closing'
  /\ \A t \in Proxies \cup Ctls : pc[t] \in {"close", "end"}
       => (pc'[t] = pc[t] /\ who'[t] = who[t]) \/ who[t] \in closing'
  /\ \A u \in Users : pc[u] \notin Unlisted => pc'[u] \notin Unlisted /\ reqLan'[u] = reqLan[u]
  /\ \A u \in Users : pc[u] \notin Unlisted /\ pc'[u] \in Listed
       => pc[u] \in Listed /\ at'[u] = at[u]

LEMMA SteadyStep == ASSUME TypeOK, Locals, Listings, [Next]_vars PROVE Steady /\ Listings'
<1> USE DEF Goto, Let, config, registry, links, client, locals, users, noted, vars, Removers,
    RemovePC, Handlers, Threads, TypeOK, LocalTypeOK, UserTypeOK, RegistryTypeOK, Locals,
    Listings, Steady, Unlisted, Listed, UserOpen
<1>1. ASSUME NEW u \in Users, UserStep(u) \/ BackendLeaves(u) PROVE Steady /\ Listings'
  <2>1. CASE FindRoute(u) BY <2>1 DEF FindRoute
  <2>2. CASE ReadLan(u) BY <2>2 DEF ReadLan
  <2>3. CASE RequestLan(u) BY <2>3 DEF RequestLan
  <2>4. CASE RegisterUser(u) BY <2>4 DEF RegisterUser
  <2>5. CASE RegisterThrows(u) BY <2>5 DEF RegisterThrows
  <2>6. CASE AskBackend(u) BY <2>6 DEF AskBackend
  <2>7. CASE UserLeaves(u) BY <2>7 DEF UserLeaves
  <2>8. CASE InactiveRoute(u) BY <2>8 DEF InactiveRoute
  <2>9. CASE Unlist(u) BY <2>9 DEF Unlist
  <2>10. CASE InactiveNext(u) BY <2>10 DEF InactiveNext
  <2>11. CASE Unbind(u)
    <3>0. UNCHANGED <<at, took, who, rest, checked, asked, reqLan, closing, uNext, cmd, portCmd,
                      pAlive, cAlive, attrs, hasPort, userChannels,
                      keyVersion, lanVersion, request>>
      BY <2>11 DEF Unbind
    <3>1. CASE pc[u] = "unbind" /\ Goto(u, "tell") /\ Forget(u)
      BY <3>0, <3>1 DEF Forget
    <3>2. CASE pc[u] = "tell" /\ Goto(u, "gone") /\ Inform(u)
      BY <3>0, <3>2 DEF Inform
    <3> QED BY <2>11, <3>1, <3>2 DEF Unbind, Release
  <2>12. CASE BackendLeaves(u) BY <2>12 DEF BackendLeaves
  <2> QED BY <1>1, <2>1, <2>2, <2>3, <2>4, <2>5, <2>6, <2>7, <2>8, <2>9, <2>10, <2>11, <2>12
    DEF UserStep
<1>2. ASSUME NEW p \in Proxies, ProxyStep(p) \/ ProxyFails(p) PROVE Steady /\ Listings'
  <2>1. CASE FindCmd(p) BY <2>1 DEF FindCmd
  <2>2. CASE GetUser(p) BY <2>2 DEF GetUser
  <2>3. CASE BindProxy(p) BY <2>3 DEF BindProxy
  <2>4. CASE BindUser(p) BY <2>4 DEF BindUser
  <2>5. CASE DropFindCmd(p) BY <2>5 DEF DropFindCmd
  <2>6. CASE DropRemove(p) BY <2>6, SMTT(40) DEF DropRemove
  <2>7. CASE DropClose(p) BY <2>7 DEF DropClose
  <2>8. CASE DropUnbind(p) BY <2>8 DEF DropUnbind
  <2>9. CASE LostUser(p) BY <2>9 DEF LostUser, Open, UserOpen
  <2>10. CASE LostRemove(p) BY <2>10 DEF LostRemove
  <2>11. CASE LostClose(p) BY <2>11 DEF LostClose
  <2>12. CASE ProxyFails(p) BY <2>12 DEF ProxyFails
  <2> QED BY <1>2, <2>1, <2>2, <2>3, <2>4, <2>5, <2>6, <2>7, <2>8, <2>9, <2>10, <2>11, <2>12
    DEF ProxyStep
<1>3. ASSUME NEW u \in Users, NEW p \in Proxies, ClientBinds(u, p) PROVE Steady /\ Listings'
  BY <1>3 DEF ClientBinds
<1>4. ASSUME NEW c \in Ctls, CtlStep(c) \/ Auth(c) \/ CtlFails(c) PROVE Steady /\ Listings'
  <2>1. CASE RoutePort(c) BY <2>1 DEF RoutePort
  <2>2. CASE SetAttrs(c) BY <2>2 DEF SetAttrs
  <2>3. CASE Publish(c) BY <2>3 DEF Publish
  <2>4. CASE RefusedClose(c) BY <2>4 DEF RefusedClose
  <2>5. CASE Auth(c) BY <2>5 DEF Auth, Granted
  <2>6. CASE CtlFails(c) BY <2>6 DEF CtlFails
  <2> QED BY <1>4, <2>1, <2>2, <2>3, <2>4, <2>5, <2>6 DEF CtlStep
<1>5. ASSUME NEW c \in Ctls, NEW u \in Users, BackendRefused(c, u) PROVE Steady /\ Listings'
  BY <1>5 DEF BackendRefused
<1>6. CASE WebStep
  <2>1. CASE SaveLans BY <2>1 DEF SaveLans
  <2>2. CASE VisitCmd BY <2>2 DEF VisitCmd
  <2>3. CASE ChangePort BY <2>3 DEF ChangePort, Granted
  <2>4. CASE CheckUser BY <2>4 DEF CheckUser, Stale
  <2>5. CASE EvictUser BY <2>5 DEF EvictUser
  <2>6. CASE CheckDone BY <2>6 DEF CheckDone
  <2>7. CASE SaveKeys BY <2>7 DEF SaveKeys
  <2>8. CASE SkipUser BY <2>8 DEF SkipUser
  <2> QED BY <1>6, <2>1, <2>2, <2>3, <2>4, <2>5, <2>6, <2>7, <2>8 DEF WebStep
<1>7. ASSUME NEW t \in Removers, RemoveStep(t) PROVE Steady /\ Listings'
  <2>1. CASE TakeCmd(t) BY <2>1 DEF TakeCmd
  <2>2. CASE RestoreCmd(t) BY <2>2 DEF RestoreCmd
  <2>3. CASE TakePort(t) BY <2>3, SMTT(40) DEF TakePort
  <2>4. CASE RestorePort(t) BY <2>4 DEF RestorePort
  <2>5. CASE StartSweep(t) BY <2>5 DEF StartSweep
  <2>6. CASE SweepUser(t) BY <2>6 DEF SweepUser
  <2>7. CASE SweepNewUser(t) BY <2>7 DEF SweepNewUser
  <2>8. CASE EndSweep(t) BY <2>8 DEF EndSweep
  <2> QED BY <1>7, <2>1, <2>2, <2>3, <2>4, <2>5, <2>6, <2>7, <2>8 DEF RemoveStep
<1>8. CASE UNCHANGED vars
  BY <1>8
<1> QED BY <1>1, <1>2, <1>3, <1>4, <1>5, <1>6, <1>7, <1>8 DEF Next

(* A user that is fine stays so while the configuration does.               *)
LEMMA FineStep == ASSUME UInv, Steady, lanVersion' = lanVersion, NEW u \in checked
                  PROVE  /\ Fine(u) => Fine(u)'
                         /\ pc'[u] \notin Unlisted
                         /\ pc'[u] \in Listed => pc[u] \in Listed /\ at'[u] = at[u]
<1>1. u \in Users /\ pc[u] \notin Unlisted
  BY DEF UInv, TypeOK, LocalTypeOK, Checked
<1>2. ASSUME Fine(u), pc'[u] \in Listed PROVE reqLan'[u] = Lan' \/ u \in closing' \/ BeingClosed(u)'
  <2>1. pc[u] \in Listed /\ reqLan'[u] = reqLan[u] BY <1>1, <1>2 DEF Steady
  <2>2. CASE reqLan[u] = Lan BY <2>1, <2>2 DEF Lan
  <2>3. CASE u \in closing BY <2>3 DEF Steady
  <2>4. CASE BeingClosed(u) BY <2>4 DEF Steady, BeingClosed
  <2> QED BY <1>2, <2>1, <2>2, <2>3, <2>4 DEF Fine
<1> QED BY <1>1, <1>2 DEF Fine, Steady

(* The other threads leave to the check what it works on.                   *)
Aside == /\ checked' = checked /\ lanVersion' = lanVersion
         /\ pc[Web] = "idle" \/ Checking
            => pc'[Web] = pc[Web] /\ at'[Web] = at[Web] /\ rest'[Web] = rest[Web]

LEMMA AsideStep == ASSUME TypeOK, [Next]_vars PROVE Aside \/ WebStep
<1> USE DEF Aside, Checking, Goto, Let, config, registry, locals, noted, vars, Removers,
    RemovePC, Handlers, Threads, TypeOK, PcTypeOK, LocalTypeOK
<1>1. ASSUME NEW u \in Users, UserStep(u) \/ BackendLeaves(u) PROVE Aside
  <2>1. CASE FindRoute(u) BY <2>1 DEF FindRoute
  <2>2. CASE ReadLan(u) BY <2>2 DEF ReadLan
  <2>3. CASE RequestLan(u) BY <2>3 DEF RequestLan
  <2>4. CASE RegisterUser(u) BY <2>4 DEF RegisterUser
  <2>5. CASE RegisterThrows(u) BY <2>5 DEF RegisterThrows
  <2>6. CASE AskBackend(u) BY <2>6 DEF AskBackend
  <2>7. CASE UserLeaves(u) BY <2>7 DEF UserLeaves
  <2>8. CASE InactiveRoute(u) BY <2>8 DEF InactiveRoute
  <2>9. CASE Unlist(u) BY <2>9 DEF Unlist
  <2>10. CASE InactiveNext(u) BY <2>10 DEF InactiveNext
  <2>11. CASE Unbind(u)
    <3>1. UNCHANGED <<at, rest, checked, lanVersion>> BY <2>11 DEF Unbind
    <3>2. \E l \in {"tell", "gone"} : Goto(u, l) BY <2>11 DEF Unbind, Release
    <3> QED BY <3>1, <3>2
  <2>12. CASE BackendLeaves(u) BY <2>12 DEF BackendLeaves
  <2> QED BY <1>1, <2>1, <2>2, <2>3, <2>4, <2>5, <2>6, <2>7, <2>8, <2>9, <2>10, <2>11,
    <2>12 DEF UserStep
<1>2. ASSUME NEW p \in Proxies, ProxyStep(p) \/ ProxyFails(p) PROVE Aside
  <2>1. CASE FindCmd(p) BY <2>1 DEF FindCmd
  <2>2. CASE GetUser(p) BY <2>2 DEF GetUser
  <2>3. CASE BindProxy(p) BY <2>3 DEF BindProxy
  <2>4. CASE BindUser(p) BY <2>4 DEF BindUser
  <2>5. CASE DropFindCmd(p) BY <2>5 DEF DropFindCmd
  <2>6. CASE DropRemove(p) BY <2>6 DEF DropRemove
  <2>7. CASE DropClose(p) BY <2>7 DEF DropClose
  <2>8. CASE DropUnbind(p) BY <2>8 DEF DropUnbind
  <2>9. CASE LostUser(p) BY <2>9 DEF LostUser
  <2>10. CASE LostRemove(p) BY <2>10 DEF LostRemove
  <2>11. CASE LostClose(p) BY <2>11 DEF LostClose
  <2>12. CASE ProxyFails(p) BY <2>12 DEF ProxyFails
  <2> QED BY <1>2, <2>1, <2>2, <2>3, <2>4, <2>5, <2>6, <2>7, <2>8, <2>9, <2>10, <2>11,
    <2>12 DEF ProxyStep
<1>3. ASSUME NEW u \in Users, NEW p \in Proxies, ClientBinds(u, p) PROVE Aside
  BY <1>3 DEF ClientBinds
<1>4. ASSUME NEW c \in Ctls, CtlStep(c) \/ Auth(c) \/ CtlFails(c) PROVE Aside
  <2>1. CASE RoutePort(c) BY <2>1 DEF RoutePort
  <2>2. CASE SetAttrs(c) BY <2>2 DEF SetAttrs
  <2>3. CASE Publish(c) BY <2>3 DEF Publish
  <2>4. CASE RefusedClose(c) BY <2>4 DEF RefusedClose
  <2>5. CASE Auth(c) BY <2>5 DEF Auth
  <2>6. CASE CtlFails(c) BY <2>6 DEF CtlFails
  <2> QED BY <1>4, <2>1, <2>2, <2>3, <2>4, <2>5, <2>6 DEF CtlStep
<1>5. ASSUME NEW c \in Ctls, NEW u \in Users, BackendRefused(c, u) PROVE Aside
  BY <1>5 DEF BackendRefused
<1>6. ASSUME NEW t \in Removers, RemoveStep(t) PROVE Aside
  <2>1. CASE TakeCmd(t) BY <2>1 DEF TakeCmd
  <2>2. CASE RestoreCmd(t) BY <2>2 DEF RestoreCmd
  <2>3. CASE TakePort(t)
    <3>1. UNCHANGED <<at, rest, checked, lanVersion>> /\ pc[t] = "unroute" BY <2>3 DEF TakePort
    <3>2. \E l \in {"sweep", "reroute"} : Goto(t, l) BY <2>3 DEF TakePort
    <3> QED BY <3>1, <3>2
  <2>4. CASE RestorePort(t) BY <2>4 DEF RestorePort
  <2>5. CASE StartSweep(t) BY <2>5 DEF StartSweep
  <2>6. CASE SweepUser(t) BY <2>6 DEF SweepUser
  <2>7. CASE SweepNewUser(t) BY <2>7 DEF SweepNewUser
  <2>8. CASE EndSweep(t) BY <2>8 DEF EndSweep
  <2> QED BY <1>6, <2>1, <2>2, <2>3, <2>4, <2>5, <2>6, <2>7, <2>8 DEF RemoveStep
<1>7. CASE UNCHANGED vars
  BY <1>7
<1> QED BY <1>1, <1>2, <1>3, <1>4, <1>5, <1>6, <1>7 DEF Next

(* The check skips only users that another handler took out, and closes.    *)
LEMMA CheckedStep == ASSUME UInv, [Next]_vars, Steady PROVE Checked'
<1>1. TypeOK /\ Registered /\ Checked /\ checked \subseteq Users
  BY DEF UInv, TypeOK, LocalTypeOK
<1>2. ASSUME lanVersion' = lanVersion, checked' = checked, NEW u \in checked
      PROVE  /\ Fine(u) => Fine(u)'
             /\ pc'[u] \notin Unlisted
             /\ pc'[u] \in Listed => pc[u] \in Listed /\ at'[u] = at[u]
  BY <1>2, FineStep
<1> USE DEF Goto, Let, config, locals, noted, Handlers, Threads, Removers, TypeOK, PcTypeOK,
    LocalTypeOK, Checked, Checking
<1>3. CASE Aside BY <1>1, <1>2, <1>3 DEF Aside
<1>4. CASE SaveKeys BY <1>1, <1>4 DEF SaveKeys
<1>5. CASE SaveLans BY <1>1, <1>5 DEF SaveLans
<1>6. CASE VisitCmd BY <1>1, <1>6 DEF VisitCmd
<1>7. CASE ChangePort
  <2>1. /\ checked' = userChannels[at[Web]] /\ rest'[Web] = userChannels[at[Web]]
        /\ at' = at /\ pc'[Web] = "clear" /\ at[Web] \in Ctls
        /\ \A u \in Users : pc'[u] = pc[u]
    BY <1>1, <1>7, UserChannelsAssumption DEF ChangePort, UInv, Locals, RegistryTypeOK
  <2> QED BY <2>1 DEF UInv, Listings, RegistryTypeOK
<1>8. CASE CheckUser
  <2>1. PICK u \in rest[Web] \cup userChannels[at[Web]] :
          /\ rest' = [rest EXCEPT ![Web] = @ \ {u}]
          /\ closing' = IF Stale(u) THEN closing \cup {u} ELSE closing
    BY <1>8 DEF CheckUser
  <2>2. lanVersion' = lanVersion /\ checked' = checked /\ at' = at /\ reqLan' = reqLan
    BY <1>8 DEF CheckUser, users
  <2>3. Checking /\ Checking' BY <1>1, <1>8 DEF CheckUser
  <2>4. Fine(u)' BY <2>1, <2>2 DEF Fine, Stale, Lan
  <2>5. ASSUME NEW v \in checked PROVE (v \in rest'[Web]) \/ Fine(v)'
    BY <1>1, <1>2, <2>1, <2>2, <2>3, <2>4, <2>5
  <2> QED BY <1>1, <1>2, <2>2, <2>3, <2>5
<1>9. CASE SkipUser
  <2>1. PICK u \in rest[Web] \ userChannels[at[Web]] : rest' = [rest EXCEPT ![Web] = @ \ {u}]
    BY <1>9 DEF SkipUser
  <2>2. /\ lanVersion' = lanVersion /\ checked' = checked /\ at' = at /\ pc' = pc
        /\ pc[Web] = "clear"
    BY <1>9 DEF SkipUser
  <2>3. u \in checked => Fine(u) BY <1>1, <2>1, <2>2 DEF Registered, Fine, Listed
  <2> QED BY <1>1, <1>2, <2>1, <2>2, <2>3
<1>10. CASE EvictUser BY <1>1, <1>2, <1>10 DEF EvictUser
<1>11. CASE CheckDone BY <1>1, <1>2, <1>11 DEF CheckDone
<1> QED BY <1>1, <1>3, <1>4, <1>5, <1>6, <1>7, <1>8, <1>9, <1>10, <1>11, AsideStep DEF WebStep

(* CONNECT binds a connection that the client uses for nobody, to a user    *)
(* that has none (Binding, NotYetBound); what a user's channelInactive      *)
(* removes are its own attributes (HoldsSession), and DISCONNECT removes    *)
(* those of the user that it closed (Dropping).                             *)
LEMMA BindingsStep == ASSUME UInv, [Next]_vars PROVE Bindings'
<1> USE DEF Goto, Let, config, registry, links, client, locals, users, noted, vars,
    Removers, RemovePC, Handlers, Threads, UInv, TypeOK, PcTypeOK, LocalTypeOK, UserTypeOK, RegistryTypeOK, UserPC,
    UserOpen, ProxyPC, CtlPC, WebPC, Locals, Registered, Open, Early, Binds, Bindings,
    AskedOnce, NotYetBound, OneSession, Binding, HoldsSession, ServesUser, Dropping, HalfBound,
    UserIsSession, Releasing, BoundPairAgree
<1>1. ASSUME NEW u \in Users, UserStep(u) \/ BackendLeaves(u) PROVE Bindings'
  <2>1. CASE FindRoute(u) BY <2>1 DEF FindRoute
  <2>2. CASE ReadLan(u) BY <2>2 DEF ReadLan
  <2>3. CASE RequestLan(u) BY <2>3 DEF RequestLan
  <2>4. CASE RegisterUser(u) BY <2>4 DEF RegisterUser
  <2>5. CASE RegisterThrows(u) BY <2>5 DEF RegisterThrows
  <2>6. CASE AskBackend(u) BY <2>6 DEF AskBackend
  <2>7. CASE UserLeaves(u) BY <2>7 DEF UserLeaves
  <2>8. CASE InactiveRoute(u) BY <2>8 DEF InactiveRoute
  <2>9. CASE Unlist(u) BY <2>9 DEF Unlist
  <2>10. CASE InactiveNext(u) BY <2>10 DEF InactiveNext
  <2>11. CASE Unbind(u)
    <3>0. UNCHANGED <<at, took, who, rest, checked, asked, reqLan, closing, uNext, cmd, portCmd,
                      pAlive, cAlive, attrs, hasPort, userChannels,
                      keyVersion, lanVersion, request>>
      BY <2>11 DEF Unbind
    <3>1. CASE pc[u] = "unbind" /\ Goto(u, "tell") /\ Forget(u)
      <4>1. uNext[u] # None /\ (pAlive[uNext[u]] => session[uNext[u]] = u) BY <3>1
      <4> QED BY <3>0, <3>1, <4>1 DEF Forget
    <3>2. CASE pc[u] = "tell" /\ Goto(u, "gone") /\ Inform(u)
      <4>1. uNext[u] # None /\ (pAlive[uNext[u]] => pUser[uNext[u]] = None) BY <3>2
      <4> QED BY <3>0, <3>2, <4>1 DEF Inform
    <3> QED BY <2>11, <3>1, <3>2 DEF Unbind, Release
  <2>12. CASE BackendLeaves(u) BY <2>12 DEF BackendLeaves
  <2> QED BY <1>1, <2>1, <2>2, <2>3, <2>4, <2>5, <2>6, <2>7, <2>8, <2>9, <2>10, <2>11, <2>12
    DEF UserStep
<1>2. ASSUME NEW p \in Proxies, ProxyStep(p) \/ ProxyFails(p) PROVE Bindings'
  <2>1. CASE FindCmd(p) BY <2>1 DEF FindCmd
  <2>2. CASE GetUser(p) BY <2>2 DEF GetUser
  <2>3. CASE BindProxy(p) BY <2>3, SMTT(40) DEF BindProxy
  <2>4. CASE BindUser(p)
    <3>1. pAlive[p] /\ session[p] = who[p] /\ uNext[who[p]] = None /\ pUser[p] = who[p]
      BY <2>4 DEF BindUser
    <3> QED BY <2>4, <3>1 DEF BindUser
  <2>5. CASE DropFindCmd(p) BY <2>5 DEF DropFindCmd
  <2>6. CASE DropRemove(p) BY <2>6 DEF DropRemove
  <2>7. CASE DropClose(p) BY <2>7 DEF DropClose
  <2>8. CASE DropUnbind(p)
    <3>1. who[p] \in closing /\ pUser[p] \in {None, who[p]} BY <2>8 DEF DropUnbind
    <3>2. pc[p] \notin Binds BY <2>8 DEF DropUnbind
    <3> QED BY <2>8, <3>1, <3>2 DEF DropUnbind
  <2>9. CASE LostUser(p) BY <2>9 DEF LostUser, Open, UserOpen
  <2>10. CASE LostRemove(p) BY <2>10 DEF LostRemove
  <2>11. CASE LostClose(p) BY <2>11 DEF LostClose
  <2>12. CASE ProxyFails(p) BY <2>12 DEF ProxyFails
  <2> QED BY <1>2, <2>1, <2>2, <2>3, <2>4, <2>5, <2>6, <2>7, <2>8, <2>9, <2>10, <2>11, <2>12
    DEF ProxyStep
<1>3. ASSUME NEW u \in Users, NEW p \in Proxies, ClientBinds(u, p) PROVE Bindings'
  <2>1. uNext[u] = None /\ \A q \in Proxies : session[q] # u BY <1>3 DEF ClientBinds
  <2>2. pUser[p] = None BY <1>3 DEF ClientBinds
  <2>3. \A v \in Users : uNext[v] = p => pc[v] = "gone" BY <1>3 DEF ClientBinds
  <2> QED BY <1>3, <2>1, <2>2, <2>3 DEF ClientBinds
<1>4. ASSUME NEW c \in Ctls, CtlStep(c) \/ Auth(c) \/ CtlFails(c) PROVE Bindings'
  <2>1. CASE RoutePort(c) BY <2>1 DEF RoutePort
  <2>2. CASE SetAttrs(c) BY <2>2 DEF SetAttrs
  <2>3. CASE Publish(c) BY <2>3 DEF Publish
  <2>4. CASE RefusedClose(c) BY <2>4 DEF RefusedClose
  <2>5. CASE Auth(c) BY <2>5 DEF Auth, Granted
  <2>6. CASE CtlFails(c) BY <2>6 DEF CtlFails
  <2> QED BY <1>4, <2>1, <2>2, <2>3, <2>4, <2>5, <2>6 DEF CtlStep
<1>5. ASSUME NEW c \in Ctls, NEW u \in Users, BackendRefused(c, u) PROVE Bindings'
  BY <1>5 DEF BackendRefused
<1>6. CASE WebStep
  <2>1. CASE SaveLans BY <2>1 DEF SaveLans
  <2>2. CASE VisitCmd BY <2>2 DEF VisitCmd
  <2>3. CASE ChangePort BY <2>3 DEF ChangePort, Granted
  <2>4. CASE CheckUser BY <2>4 DEF CheckUser, Stale
  <2>5. CASE EvictUser BY <2>5 DEF EvictUser
  <2>6. CASE CheckDone BY <2>6 DEF CheckDone
  <2>7. CASE SaveKeys BY <2>7 DEF SaveKeys
  <2>8. CASE SkipUser BY <2>8 DEF SkipUser
  <2> QED BY <1>6, <2>1, <2>2, <2>3, <2>4, <2>5, <2>6, <2>7, <2>8 DEF WebStep
<1>7. ASSUME NEW t \in Removers, RemoveStep(t) PROVE Bindings'
  <2>1. CASE TakeCmd(t) BY <2>1 DEF TakeCmd
  <2>2. CASE RestoreCmd(t) BY <2>2 DEF RestoreCmd
  <2>3. CASE TakePort(t) BY <2>3, SMTT(40) DEF TakePort
  <2>4. CASE RestorePort(t) BY <2>4 DEF RestorePort
  <2>5. CASE StartSweep(t) BY <2>5 DEF StartSweep
  <2>6. CASE SweepUser(t) BY <2>6 DEF SweepUser
  <2>7. CASE SweepNewUser(t) BY <2>7 DEF SweepNewUser
  <2>8. CASE EndSweep(t) BY <2>8 DEF EndSweep
  <2> QED BY <1>7, <2>1, <2>2, <2>3, <2>4, <2>5, <2>6, <2>7, <2>8 DEF RemoveStep
<1>8. CASE UNCHANGED vars
  BY <1>8
<1> QED BY <1>1, <1>2, <1>3, <1>4, <1>5, <1>6, <1>7, <1>8 DEF Next
------------------------------------------------------------------------------
(* UInv is an invariant, whatever the threads do at once.                   *)
THEOREM UserInvariant == Spec => []UInv
<1>1. UInv /\ [Next]_vars => UInv'
  BY TypeStep, LocalsStep, RegisteredStep, BindingsStep, SteadyStep, CheckedStep DEF UInv
<1> QED BY InitInv, <1>1, PTL DEF Spec

(* The variables of the handlers and of the registries keep their types.    *)
THEOREM UserTypesCorrect == Spec => []TypeOK
<1>1. UInv => TypeOK BY DEF UInv
<1> QED BY UserInvariant, <1>1, PTL

(* An open user that no handler is busy with is registered, or about to be  *)
(* closed: it can never be lost with its reading switched off.              *)
THEOREM SettledUsersAreRegistered == Spec => []SettledUserRegistered
<1>1. UInv => SettledUserRegistered
  BY DEF UInv, Registered, SettledUserRegistered, Settled, BeingClosed, Handlers
<1> QED BY UserInvariant, <1>1, PTL

(* A user and its data connection name each other while the user is open.   *)
THEOREM BoundPairsAgree == Spec => []BoundPairAgree
<1>1. UInv => BoundPairAgree BY DEF UInv, Bindings
<1> QED BY UserInvariant, <1>1, PTL

(* What a backend sends reaches its user or nobody, until the               *)
(* channelInactive of that user is through.                                 *)
THEOREM BackendsReachTheirUsers == Spec => []BackendReachesItsUser
<1>1. UInv => BackendReachesItsUser
  BY DEF UInv, Bindings, UserIsSession, ServesUser, BackendReachesItsUser
<1> QED BY UserInvariant, <1>1, PTL

(* Whoever onChanged found registered is closed, or runs to the lan address *)
(* configured now, whatever else happens while it looks.                    *)
THEOREM CheckedUsersCurrent == Spec => []CheckedUsersAreCurrent
<1>1. UInv => CheckedUsersAreCurrent
  BY DEF UInv, Checked, Checking, Fine, Listed, BeingClosed, CheckedUsersAreCurrent, Settled,
    Handlers
<1> QED BY UserInvariant, <1>1, PTL
==============================================================================
