------------------------------- MODULE Store --------------------------------
(***************************************************************************)
(* The configuration of the proxy server: ProxyConfig.update on the        *)
(* threads that save, its file, and the listeners it notifies              *)
(* (ProxyServer binds the user ports, ProxyChannelManager changes routes). *)
(* Nothing orders the updates of two threads.  The server may crash at any *)
(* point; started again it loads the file.                                 *)
(*                                                                         *)
(* A configuration is a sequence of mappings [key, port, lan], one client  *)
(* each.                                                                   *)
(***************************************************************************)
EXTENDS Naturals, Sequences

CONSTANTS Savers,       \* threads of the administration pages
          Boot,         \* the thread that starts the server
          Documents,    \* configurations that are saved
          Torn,         \* content of the file after a broken write, or two at once
          TakenPorts,   \* ports another program listens on: BindException
          BadPorts      \* ports bind() refuses otherwise (no such port, no permission)

ASSUME StoreAssumption == Boot \notin Savers /\ Torn \notin Documents \cup {<<>>}

Threads == Savers \cup {Boot}

VARIABLES storePc, storeDoc,
          keysOf,       \* configuration clientInetPortMapping is made from
          lansOf,       \* configuration inetPortLanInfoMapping is made from
          clientsOf,    \* clients
          file,         \* content of config.json; <<>> is an empty file, and none
          writers,      \* threads that have the file open
          bound,        \* user ports that are listened on
          routed,       \* <<keysOf, lansOf>> that the routes were last changed for
          failed,       \* an update threw after it replaced the maps, and ...
          overlapped    \* ... two ran at once, since one had the maps to itself

storeVars == <<storePc, storeDoc, keysOf, lansOf, clientsOf, file, writers, bound, routed,
               failed, overlapped>>
memory == <<keysOf, lansOf, clientsOf>>
notes  == <<failed, overlapped>>

Keys(d)  == {d[i].key : i \in DOMAIN d}
Ports(d) == {d[i].port : i \in DOMAIN d}

(* The loop over the clients throws at a second key or a second port.      *)
Valid(d) == \A i, j \in DOMAIN d : i # j => d[i].key # d[j].key /\ d[i].port # d[j].port

Busy == {t \in Threads : storePc[t] \notin {"idle", "down"}}

StoreInit == /\ storePc = [t \in Threads |-> IF t = Boot THEN "read" ELSE "down"]
             /\ storeDoc = [t \in Threads |-> <<>>]
             /\ keysOf = <<>> /\ lansOf = <<>> /\ clientsOf = <<>>
             /\ file = <<>> /\ writers = {}
             /\ bound = {} /\ routed = <<(<<>>), <<>>>>
             /\ failed = FALSE /\ overlapped = FALSE

Ended(t) == IF t = Boot THEN "down" ELSE "idle"

Step(t, from, to) == storePc[t] = from /\ storePc' = [storePc EXCEPT ![t] = to]
------------------------------------------------------------------------------
(* update                                                                  *)

Save(t) == /\ Step(t, "idle", "parse")
           /\ \E d \in Documents : storeDoc' = [storeDoc EXCEPT ![t] = d]
           /\ overlapped' = (overlapped \/ Busy # {})
           /\ UNCHANGED <<memory, file, writers, bound, routed, failed>>

Reject(t) == /\ Step(t, "parse", "idle") /\ ~Valid(storeDoc[t])
             /\ UNCHANGED <<storeDoc, memory, file, writers, bound, routed, notes>>

(* The maps are built aside and then replace those in force, one by one.   *)
ReplaceKeys(t) == /\ Step(t, "parse", "lans") /\ Valid(storeDoc[t])
                  /\ keysOf' = storeDoc[t]
                  /\ failed' = (failed /\ Busy # {t})
                  /\ overlapped' = (overlapped /\ Busy # {t})
                  /\ UNCHANGED <<storeDoc, lansOf, clientsOf, file, writers, bound, routed>>

ReplaceLans(t) == /\ Step(t, "lans", "clients")
                  /\ lansOf' = storeDoc[t]
                  /\ UNCHANGED <<storeDoc, keysOf, clientsOf, file, writers, bound, routed,
                                 notes>>

ForgetClients(t) == /\ Step(t, "clients", "open")
                    /\ UNCHANGED <<storeDoc, memory, file, writers, bound, routed, notes>>
ReplaceClients(t) == /\ Step(t, "clients", "open")
                     /\ clientsOf' = storeDoc[t]
                     /\ UNCHANGED <<storeDoc, keysOf, lansOf, file, writers, bound, routed,
                                    notes>>

(* Opening the file empties it.                                            *)
OpenFile(t) == /\ Step(t, "open", "write")
               /\ file' = <<>> /\ writers' = writers \cup {t}
               /\ UNCHANGED <<storeDoc, memory, bound, routed, notes>>

(* Two writers write from the start of the same file.                      *)
WriteFile(t) == /\ Step(t, "write", IF t = Boot THEN "bind" ELSE "listeners")
                /\ \E content \in {storeDoc[t]} \cup (IF file \in {<<>>, storeDoc[t]} THEN {}
                                                      ELSE {Torn}) : file' = content
                /\ writers' = writers \ {t}
                /\ UNCHANGED <<storeDoc, memory, bound, routed, notes>>

(* Opening or writing throws: no listener is notified.                     *)
FileFails(t) == /\ \/ Step(t, "open", Ended(t)) /\ UNCHANGED file
                   \/ Step(t, "write", Ended(t)) /\ file' \in {file, Torn}
                /\ writers' = writers \ {t}
                /\ failed' = TRUE
                /\ UNCHANGED <<storeDoc, memory, bound, routed, overlapped>>

(* First listener, startUserPort: the ports of the configuration in force  *)
(* are bound one by one; BindException is taken for a port that is bound   *)
(* already, anything else throws and the second listener is not called.    *)
SnapshotPorts(t) == /\ Step(t, "listeners", "bind")
                    /\ storeDoc' = [storeDoc EXCEPT ![t] = lansOf]
                    /\ UNCHANGED <<memory, file, writers, bound, routed, notes>>

BindPorts(t) == /\ t # Boot /\ Step(t, "bind", "routes")
                /\ Ports(storeDoc[t]) \cap BadPorts = {}
                /\ bound' = bound \cup (Ports(storeDoc[t]) \ TakenPorts)
                /\ UNCHANGED <<storeDoc, memory, file, writers, routed, notes>>

BindSome(t) == /\ Ports(storeDoc[t]) \cap BadPorts # {}
               /\ \E some \in SUBSET (Ports(storeDoc[t]) \ (BadPorts \cup TakenPorts)) :
                    bound' = bound \cup some
               /\ UNCHANGED <<storeDoc, memory, file, writers, routed, overlapped>>
BindThrows(t)  == Step(t, "bind", Ended(t)) /\ BindSome(t) /\ failed' = TRUE

(* Second listener: onChanged is synchronized; it reads the configuration  *)
(* and then changes the routes.                                            *)
NotSynchronized(t) == /\ Step(t, "routes", "apply")
                      /\ storeDoc' = [storeDoc EXCEPT ![t] = keysOf]
                      /\ UNCHANGED <<memory, file, writers, bound, routed, notes>>
SnapshotKeys(t) == /\ Step(t, "routes", "apply")
                   /\ \A other \in Threads : storePc[other] # "apply"
                   /\ storeDoc' = [storeDoc EXCEPT ![t] = keysOf]
                   /\ UNCHANGED <<memory, file, writers, bound, routed, notes>>

ChangeRoutes(t) == /\ Step(t, "apply", "idle")
                   /\ routed' = <<storeDoc[t], lansOf>>
                   /\ UNCHANGED <<storeDoc, memory, file, writers, bound, notes>>
------------------------------------------------------------------------------
(* Starting: the file is the argument of update, which writes it back; no  *)
(* listener is registered yet.  Then start() binds the ports.              *)

Load == /\ storePc[Boot] = "read"
        /\ storePc' = [storePc EXCEPT ![Boot] = IF file = Torn THEN "down" ELSE "parse"]
        /\ storeDoc' = [storeDoc EXCEPT ![Boot] = file]
        /\ UNCHANGED <<memory, file, writers, bound, routed, notes>>

Start == /\ storePc[Boot] = "bind"
         /\ Ports(storeDoc[Boot]) \cap BadPorts = {}
         /\ bound' = Ports(storeDoc[Boot]) \ TakenPorts
         /\ routed' = <<keysOf, lansOf>>
         /\ storePc' = [t \in Threads |-> "idle"]
         /\ UNCHANGED <<storeDoc, memory, file, writers, notes>>

(* What was written to the file is there after a crash.                    *)
CrashStore == /\ storePc' = [t \in Threads |-> IF t = Boot THEN "read" ELSE "down"]
              /\ storeDoc' = [t \in Threads |-> <<>>]
              /\ keysOf' = <<>> /\ lansOf' = <<>> /\ clientsOf' = <<>>
              /\ writers' = {} /\ bound' = {} /\ routed' = <<(<<>>), <<>>>>
              /\ failed' = FALSE /\ overlapped' = FALSE
              /\ UNCHANGED file

StoreNext == \/ \E t \in Threads : \/ Save(t) /\ t # Boot
                                   \/ Reject(t) \/ ReplaceKeys(t) \/ ReplaceLans(t)
                                   \/ ReplaceClients(t) \/ OpenFile(t) \/ WriteFile(t)
                                   \/ FileFails(t) \/ SnapshotPorts(t) \/ BindPorts(t)
                                   \/ BindThrows(t) \/ SnapshotKeys(t) \/ ChangeRoutes(t)
             \/ Load \/ Start \/ CrashStore
------------------------------------------------------------------------------
(* The configuration in force, in each of its three maps, has no key and   *)
(* no port twice (update throws before it replaces anything), nor has what *)
(* is in the file, so that the server can start with it.                   *)
StoreTypeOK == /\ DOMAIN storePc = Threads /\ DOMAIN storeDoc = Threads
               /\ \A d \in {keysOf, lansOf, clientsOf} \cup ({file} \ {Torn}) : Valid(d)
               /\ writers \subseteq {t \in Threads : storePc[t] = "write"}
               /\ bound \cap (TakenPorts \cup BadPorts) = {}

Quiet == Busy = {} /\ storePc[Boot] = "idle"

(* When all updates are through and none threw, in whatever order two ran, *)
(* every user port of the configuration in force that can be bound is      *)
(* listened on, and the routes were last changed for that configuration:   *)
(* each listener works on what is in force when it runs, not on what its   *)
(* own update has put there.                                               *)
ListenersFollow == Quiet /\ ~failed => /\ Ports(lansOf) \ TakenPorts \subseteq bound
                                      /\ routed = <<keysOf, lansOf>>

(* After an update that ran alone and did not throw, the three maps and    *)
(* the file hold the same configuration: the server that is started again  *)
(* has the one that was in force.                                          *)
QuietStoreAgrees == Quiet /\ ~failed /\ ~overlapped
                    => keysOf = lansOf /\ lansOf = clientsOf /\ clientsOf = file
==============================================================================
