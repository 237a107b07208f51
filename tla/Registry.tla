------------------------------- MODULE Registry -------------------------------
(***************************************************************************)
(* The registries of the proxy server, step by step: cmdChannels (client   *)
(* key to control connection) and portCmdChannelMapping (public port to    *)
(* control connection), as handleAuthMessage/addCmdChannel and             *)
(* removeCmdChannel change them on the event loops of the control          *)
(* connections and onChanged does on the thread that saves a configuration.*)
(*                                                                         *)
(* Each access to a ConcurrentHashMap is a step.  Only addCmdChannel and   *)
(* onChanged synchronize, on the port mapping; removeCmdChannel does not.  *)
(* A control connection closes only between two handlers of its own event  *)
(* loop.  The lists of ports are sets here, a key has one list.            *)
(***************************************************************************)
EXTENDS Naturals, Sequences

CONSTANTS Keys, Ports, Chans,
          KeyOf,     \* [Chans -> Keys] the key each connection authenticates with
          Web,       \* the thread that saves configurations
          None,
          Versions   \* the configurations, in the order they are saved: each
                     \* gives every key it names its set of ports

Threads == Chans \cup {Web}

ASSUME RegistryAssumption ==
  /\ KeyOf \in [Chans -> Keys]
  /\ Web \notin Chans /\ None \notin Threads
  /\ Len(Versions) \in Nat \ {0}
  /\ \A v \in 1..Len(Versions) : /\ DOMAIN Versions[v] \subseteq Keys
                                 /\ \A k \in DOMAIN Versions[v] : Versions[v][k] \subseteq Ports
                                 /\ \A j, k \in DOMAIN Versions[v] :   \* see Store
                                      j # k => Versions[v][j] \cap Versions[v][k] = {}

VARIABLES
  version,     \* the configuration in force
  cmd,         \* cmdChannels: [Keys -> Chans or None]
  portCmd,     \* portCmdChannelMapping: [Ports -> Chans or None]
  alive,       \* channel.isActive()
  attrs,       \* connections whose CHANNEL_PORT and CHANNEL_CLIENT_KEY are set
  chanPorts,   \* CHANNEL_PORT of each connection
  lock,        \* the thread in synchronized (portCmdChannelMapping)
  pc,          \* what each thread does next
  ch,          \* the connection it does it to
  rest,        \* the ports its loop has still to visit
  list,        \* CHANNEL_PORT as it was when the loop of removeCmdChannel began
  held,        \* the route removeCmdChannel took out and has to put back
  adds,        \* onChanged: the ports of the new configuration not yet routed
  todo,        \* onChanged: the keys it has still to visit
  disturbed    \* history: two operations that do not exclude each other disturbed

vars == <<version, cmd, portCmd, alive, attrs, chanPorts, lock, pc, ch, rest, list,
          held, adds, todo, disturbed>>

Config == Versions[version]

AuthPC    == {"check", "lock", "route", "attrs", "publish"}
RemovalPC == {"deregister", "restore", "unroute", "reroute", "close"}
ChangePC  == {"visit", "update", "drop", "add"}

Init == /\ version = 1
        /\ cmd = [k \in Keys |-> None]
        /\ portCmd = [p \in Ports |-> None]
        /\ alive = [c \in Chans |-> TRUE]
        /\ attrs = {}
        /\ chanPorts = [c \in Chans |-> {}]
        /\ lock = None
        /\ pc = [t \in Threads |-> "idle"]
        /\ ch = [t \in Threads |-> IF t = Web THEN None ELSE t]
        /\ rest = [t \in Threads |-> {}]
        /\ list = [t \in Threads |-> {}]
        /\ held = [t \in Threads |-> <<>>]
        /\ adds = {}
        /\ todo = {}
        /\ disturbed = FALSE

TypeOK == /\ version \in 1..Len(Versions)
          /\ cmd \in [Keys -> Chans \cup {None}]
          /\ portCmd \in [Ports -> Chans \cup {None}]
          /\ alive \in [Chans -> BOOLEAN]
          /\ attrs \subseteq Chans
          /\ chanPorts \in [Chans -> SUBSET Ports]
          /\ lock \in Threads \cup {None}
          /\ pc \in [Threads -> {"idle", "ready", "done"} \cup AuthPC \cup RemovalPC \cup ChangePC]
          /\ ch \in [Threads -> Chans \cup {None}]
          /\ rest \in [Threads -> SUBSET Ports]
          /\ list \in [Threads -> SUBSET Ports]
          /\ held \in [Threads -> {<<>>} \cup (Ports \X Chans)]
          /\ adds \subseteq Ports
          /\ todo \subseteq Keys
          /\ disturbed \in BOOLEAN

Goto(t, l) == pc' = [pc EXCEPT ![t] = l]

Busy(t) == pc[t] \in AuthPC \cup RemovalPC \cup ChangePC
------------------------------------------------------------------------------
(* handleAuthMessage and addCmdChannel                                     *)

(* A second AUTH of the key, or a configuration change, in progress.       *)
AuthClash(c) == \/ Busy(Web)
                \/ \E d \in Chans \ {c} : KeyOf[d] = KeyOf[c] /\ pc[d] \in AuthPC

AuthRejected(c) == /\ pc[c] = "idle" /\ alive[c] /\ KeyOf[c] \notin DOMAIN Config
                   /\ alive' = [alive EXCEPT ![c] = FALSE]
                   /\ Goto(c, "ready")
                   /\ UNCHANGED <<version, cmd, portCmd, attrs, chanPorts, lock, ch, rest,
                                  list, held, adds, todo, disturbed>>

(* getClientInetPorts                                                      *)
AuthBegin(c) == /\ pc[c] = "idle" /\ alive[c] /\ KeyOf[c] \in DOMAIN Config
                /\ rest' = [rest EXCEPT ![c] = Config[KeyOf[c]]]
                /\ list' = [list EXCEPT ![c] = Config[KeyOf[c]]]
                /\ disturbed' = (disturbed \/ AuthClash(c))
                /\ Goto(c, "check")
                /\ UNCHANGED <<version, cmd, portCmd, alive, attrs, chanPorts, lock, ch,
                               held, adds, todo>>

(* getCmdChannel(clientKey): the key already has a channel, or not.        *)
AuthExists(c) == /\ pc[c] = "check" /\ cmd[KeyOf[c]] # None
                 /\ alive' = [alive EXCEPT ![c] = FALSE]
                 /\ Goto(c, "ready")
                 /\ UNCHANGED <<version, cmd, portCmd, attrs, chanPorts, lock, ch, rest,
                                list, held, adds, todo, disturbed>>

AuthFree(c) == /\ pc[c] = "check" /\ cmd[KeyOf[c]] = None
               /\ Goto(c, "lock")
               /\ UNCHANGED <<version, cmd, portCmd, alive, attrs, chanPorts, lock, ch,
                              rest, list, held, adds, todo, disturbed>>

AuthLock(c) == /\ pc[c] = "lock" /\ lock = None
               /\ lock' = c
               /\ Goto(c, "route")
               /\ UNCHANGED <<version, cmd, portCmd, alive, attrs, chanPorts, ch, rest,
                              list, held, adds, todo, disturbed>>

AuthRoute(c) == /\ pc[c] = "route"
                /\ \E p \in rest[c] :
                     /\ portCmd' = [portCmd EXCEPT ![p] = c]
                     /\ rest' = [rest EXCEPT ![c] = @ \ {p}]
                /\ UNCHANGED <<version, cmd, alive, attrs, chanPorts, lock, pc, ch, list,
                               held, adds, todo, disturbed>>

AuthUnlock(c) == /\ pc[c] = "route" /\ rest[c] = {}
                 /\ lock' = None
                 /\ Goto(c, "attrs")
                 /\ UNCHANGED <<version, cmd, portCmd, alive, attrs, chanPorts, ch, rest,
                                list, held, adds, todo, disturbed>>

AuthAttrs(c) == /\ pc[c] = "attrs"
                /\ attrs' = attrs \cup {c}
                /\ chanPorts' = [chanPorts EXCEPT ![c] = list[c]]
                /\ Goto(c, "publish")
                /\ UNCHANGED <<version, cmd, portCmd, alive, lock, ch, rest, list, held,
                               adds, todo, disturbed>>

AuthPublishEarly(c) == /\ pc[c] = "attrs"
                       /\ cmd' = [cmd EXCEPT ![KeyOf[c]] = c]
                       /\ Goto(c, "publish")
                       /\ UNCHANGED <<version, portCmd, alive, attrs, chanPorts, lock, ch,
                                      rest, list, held, adds, todo, disturbed>>

AuthPublish(c) == /\ pc[c] = "publish"
                  /\ cmd' = [cmd EXCEPT ![KeyOf[c]] = c]
                  /\ Goto(c, "ready")
                  /\ UNCHANGED <<version, portCmd, alive, attrs, chanPorts, lock, ch, rest,
                                 list, held, adds, todo, disturbed>>
------------------------------------------------------------------------------
(* The client, the network or an idle timeout ends the connection.         *)
Disconnect(c) == /\ pc[c] \in {"idle", "ready"} /\ alive[c]
                 /\ alive' = [alive EXCEPT ![c] = FALSE]
                 /\ Goto(c, "ready")
                 /\ UNCHANGED <<version, cmd, portCmd, attrs, chanPorts, lock, ch, rest,
                                list, held, adds, todo, disturbed>>

(* Another removal, or a configuration change, in progress.                *)
RemovalClash(c) == \/ Busy(Web)
                   \/ \E d \in Chans \ {c} : pc[d] \in RemovalPC

(* channelInactive calls removeCmdChannel: nothing to do without           *)
(* CHANNEL_PORT, otherwise the steps below.                                *)
InactiveUnknown(c) == /\ pc[c] = "ready" /\ ~alive[c] /\ c \notin attrs
                      /\ Goto(c, "done")
                      /\ UNCHANGED <<version, cmd, portCmd, alive, attrs, chanPorts, lock,
                                     ch, rest, list, held, adds, todo, disturbed>>

Inactive(c) == /\ pc[c] = "ready" /\ ~alive[c] /\ c \in attrs
               /\ disturbed' = (disturbed \/ RemovalClash(c))
               /\ Goto(c, "deregister")
               /\ UNCHANGED <<version, cmd, portCmd, alive, attrs, chanPorts, lock, ch,
                              rest, list, held, adds, todo>>

(* removeCmdChannel(ch[t]), run by thread t.  A removal by onChanged goes  *)
(* on to its next key, one by channelInactive ends the connection.         *)
Key(t) == KeyOf[ch[t]]
After(t) == IF t = Web THEN "visit" ELSE "done"

(* The loop over CHANNEL_PORT starts.                                      *)
StartUnroute(t) == /\ rest' = [rest EXCEPT ![t] = chanPorts[ch[t]]]
                   /\ list' = [list EXCEPT ![t] = chanPorts[ch[t]]]
                   /\ Goto(t, "unroute")

(* channel0 = cmdChannels.remove(clientKey)                                *)
Deregister(t) == /\ pc[t] = "deregister"
                 /\ cmd' = [cmd EXCEPT ![Key(t)] = None]
                 /\ IF cmd[Key(t)] = ch[t] THEN StartUnroute(t)
                                           ELSE Goto(t, "restore") /\ UNCHANGED <<rest, list>>
                 /\ UNCHANGED <<version, portCmd, alive, attrs, chanPorts, lock, ch, held,
                                adds, todo, disturbed>>

(* if (channel != channel0) cmdChannels.put(clientKey, channel)            *)
Restore(t) == /\ pc[t] = "restore"
              /\ cmd' = [cmd EXCEPT ![Key(t)] = ch[t]]
              /\ disturbed' = TRUE
              /\ StartUnroute(t)
              /\ UNCHANGED <<version, portCmd, alive, attrs, chanPorts, lock, ch, held,
                             adds, todo>>

(* proxyChannel != channel: the route taken out is another connection's.   *)
ForeignOrNone(t, p) == portCmd[p] # ch[t]
Foreign(t, p)       == portCmd[p] \notin {None, ch[t]}

(* proxyChannel = portCmdChannelMapping.remove(port), for the next port    *)
Unroute(t) == /\ pc[t] = "unroute" /\ list[t] = chanPorts[ch[t]]
              /\ \E p \in rest[t] :
                   /\ portCmd' = [portCmd EXCEPT ![p] = None]
                   /\ rest' = [rest EXCEPT ![t] = @ \ {p}]
                   /\ IF Foreign(t, p)
                      THEN /\ held' = [held EXCEPT ![t] = <<p, portCmd[p]>>]
                           /\ Goto(t, "reroute")
                      ELSE UNCHANGED <<pc, held>>
              /\ UNCHANGED <<version, cmd, alive, attrs, chanPorts, lock, ch, list, adds,
                             todo, disturbed>>

(* ... put(port, proxyChannel): it belongs to another connection.  Nothing *)
(* keeps an AUTH from routing the port between the two: its route is lost. *)
Reroute(t) == /\ pc[t] = "reroute"
              /\ portCmd' = [portCmd EXCEPT ![held[t][1]] = held[t][2]]
              /\ held' = [held EXCEPT ![t] = <<>>]
              /\ disturbed' = (disturbed \/ portCmd[held[t][1]] # None)
              /\ Goto(t, "unroute")
              /\ UNCHANGED <<version, cmd, alive, attrs, chanPorts, lock, ch, rest, list,
                             adds, todo>>

UnrouteDone(t) == /\ pc[t] = "unroute"
                  /\ rest[t] = {} \/ list[t] # chanPorts[ch[t]]
                  /\ Goto(t, "close")
                  /\ UNCHANGED <<version, cmd, portCmd, alive, attrs, chanPorts, lock, ch,
                                 rest, list, held, adds, todo, disturbed>>

(* onChanged changed the list under the loop: the iterator throws (or, as  *)
(* UnrouteDone, finds itself at the end).                                  *)
UnrouteThrows(t) == /\ pc[t] = "unroute" /\ list[t] # chanPorts[ch[t]]
                    /\ Goto(t, After(t))
                    /\ UNCHANGED <<version, cmd, portCmd, alive, attrs, chanPorts, lock,
                                   ch, rest, list, held, adds, todo, disturbed>>

(* if (channel.isActive()) channel.close()                                 *)
CloseChannel(t) == /\ pc[t] = "close"
                   /\ alive' = [alive EXCEPT ![ch[t]] = FALSE]
                   /\ Goto(t, After(t))
                   /\ UNCHANGED <<version, cmd, portCmd, attrs, chanPorts, lock, ch, rest,
                                  list, held, adds, todo, disturbed>>

Removal(t) == \/ Deregister(t) \/ Restore(t) \/ Unroute(t) \/ Reroute(t)
              \/ UnrouteDone(t) \/ UnrouteThrows(t) \/ CloseChannel(t)
------------------------------------------------------------------------------
(* ProxyConfig.update swaps the configuration and calls onChanged.         *)
ConfigSave == /\ pc[Web] = "idle" /\ version < Len(Versions)
              /\ version' = version + 1
              /\ todo' = Keys
              /\ disturbed' = (disturbed \/ \E c \in Chans : Busy(c))
              /\ Goto(Web, "visit")
              /\ UNCHANGED <<cmd, portCmd, alive, attrs, chanPorts, lock, ch, rest, list,
                             held, adds>>

(* The next entry of cmdChannels: none or inactive, of a key the           *)
(* configuration no longer has, or to be given its new ports.              *)
VisitSkip(k) == /\ pc[Web] = "visit" /\ k \in todo
                /\ cmd[k] # None => k \in DOMAIN Config /\ ~alive[cmd[k]]
                /\ todo' = todo \ {k}
                /\ UNCHANGED <<version, cmd, portCmd, alive, attrs, chanPorts, lock, pc,
                               ch, rest, list, held, adds, disturbed>>

VisitRemoved(k) == /\ pc[Web] = "visit" /\ k \in todo
                   /\ cmd[k] # None /\ k \notin DOMAIN Config
                   /\ todo' = todo \ {k}
                   /\ ch' = [ch EXCEPT ![Web] = cmd[k]]
                   /\ Goto(Web, "deregister")
                   /\ UNCHANGED <<version, cmd, portCmd, alive, attrs, chanPorts, lock,
                                  rest, list, held, adds, disturbed>>

VisitKept(k) == /\ pc[Web] = "visit" /\ k \in todo
                /\ cmd[k] # None /\ k \in DOMAIN Config /\ alive[cmd[k]]
                /\ todo' = todo \ {k}
                /\ ch' = [ch EXCEPT ![Web] = cmd[k]]
                /\ adds' = Config[k]
                /\ rest' = [rest EXCEPT ![Web] = chanPorts[cmd[k]]]
                /\ Goto(Web, "update")
                /\ UNCHANGED <<version, cmd, portCmd, alive, attrs, chanPorts, lock, list,
                               held, disturbed>>

VisitEnd == /\ pc[Web] = "visit" /\ todo = {}
            /\ Goto(Web, "idle")
            /\ UNCHANGED <<version, cmd, portCmd, alive, attrs, chanPorts, lock, ch, rest,
                           list, held, adds, todo, disturbed>>

UpdateLock == /\ pc[Web] = "update" /\ lock = None
              /\ lock' = Web
              /\ Goto(Web, "drop")
              /\ UNCHANGED <<version, cmd, portCmd, alive, attrs, chanPorts, ch, rest,
                             list, held, adds, todo, disturbed>>

(* proxyChannel == channel: the port has not gone to another connection.   *)
Routed(p) == portCmd[p] # None
Mine(p)   == portCmd[p] = ch[Web]

(* One port the connection had: kept, dropped, or of another one by now.   *)
DropPort(p) == LET c == ch[Web]
                   gone == Mine(p) /\ p \notin Config[KeyOf[c]] IN
  /\ pc[Web] = "drop" /\ p \in rest[Web]
  /\ rest' = [rest EXCEPT ![Web] = @ \ {p}]
  /\ portCmd' = IF gone THEN [portCmd EXCEPT ![p] = None] ELSE portCmd
  /\ chanPorts' = IF gone THEN [chanPorts EXCEPT ![c] = @ \ {p}] ELSE chanPorts
  /\ adds' = IF Mine(p) THEN adds \ {p} ELSE adds
  /\ UNCHANGED <<version, cmd, alive, attrs, lock, pc, ch, list, held, todo, disturbed>>

DropEnd == /\ pc[Web] = "drop" /\ rest[Web] = {}
           /\ Goto(Web, "add")
           /\ UNCHANGED <<version, cmd, portCmd, alive, attrs, chanPorts, lock, ch, rest,
                          list, held, adds, todo, disturbed>>

(* One port of the new configuration.                                      *)
AddPort(p) == /\ pc[Web] = "add" /\ p \in adds
              /\ adds' = adds \ {p}
              /\ portCmd' = [portCmd EXCEPT ![p] = ch[Web]]
              /\ chanPorts' = [chanPorts EXCEPT ![ch[Web]] = @ \cup {p}]
              /\ UNCHANGED <<version, cmd, alive, attrs, lock, pc, ch, rest, list, held,
                             todo, disturbed>>

AddEnd == /\ pc[Web] = "add" /\ adds = {}
          /\ lock' = None
          /\ Goto(Web, "visit")
          /\ UNCHANGED <<version, cmd, portCmd, alive, attrs, chanPorts, ch, rest, list,
                         held, adds, todo, disturbed>>
------------------------------------------------------------------------------
Auth(c) == \/ AuthRejected(c) \/ AuthBegin(c) \/ AuthExists(c) \/ AuthFree(c)
           \/ AuthLock(c) \/ AuthRoute(c) \/ AuthUnlock(c) \/ AuthAttrs(c) \/ AuthPublish(c)

Change == \/ ConfigSave \/ VisitEnd \/ UpdateLock \/ DropEnd \/ AddEnd
          \/ \E k \in Keys : VisitSkip(k) \/ VisitRemoved(k) \/ VisitKept(k)
          \/ \E p \in Ports : DropPort(p) \/ AddPort(p)

Next == \/ \E c \in Chans : Auth(c) \/ Disconnect(c) \/ InactiveUnknown(c) \/ Inactive(c)
        \/ \E t \in Threads : Removal(t)
        \/ Change

Spec == Init /\ [][Next]_vars
------------------------------------------------------------------------------
(* No operation is in progress and no closed connection waits for its      *)
(* channelInactive.                                                        *)
Quiescent == /\ \A t \in Threads : ~Busy(t)
             /\ \A c \in Chans : pc[c] = "ready" => alive[c]

(* onChanged and the data connections read CHANNEL_PORT, CHANNEL_CLIENT_KEY*)
(* and USER_CHANNELS of whatever they find in cmdChannels without a null   *)
(* check: a connection is in cmdChannels only under its own key and once   *)
(* addCmdChannel has set its attributes.                                   *)
RegisteredReady ==
  \A k \in Keys : cmd[k] # None => cmd[k] \in attrs /\ KeyOf[cmd[k]] = k

(* What the registries promise as long as no two AUTHs of a key, no two    *)
(* removals, and no change of configuration with either of them overlap,   *)
(* and removeCmdChannel has put back neither the channel it removes nor a  *)
(* route over a newer one (all that disturbed records): a port leads to    *)
(* the live registered connection of the key it is configured for and      *)
(* nowhere otherwise, although a removal may interleave with the next      *)
(* session's AUTH, and ports and clients come and go with the              *)
(* configuration.                                                          *)
Owner(p) == {k \in DOMAIN Config : p \in Config[k]}
Serving(p) == {cmd[k] : k \in {j \in Owner(p) : cmd[j] # None}}
RoutesExact ==
  Quiescent /\ ~disturbed =>
    \A p \in Ports : LET live == {c \in Serving(p) : alive[c]} IN
      IF live = {} THEN portCmd[p] = None ELSE portCmd[p] \in live

(* "clear the relations once the client's connection has gone" (comment of *)
(* removeCmdChannel): a closed connection is not registered.               *)
RegisteredAlive ==
  Quiescent => \A k \in Keys : cmd[k] # None => alive[cmd[k]]

(* "make sure that the relation of ports and connections is right when     *)
(* removeChannel is called in critical cases" (comment of addCmdChannel):  *)
(* a port never leads to a closed connection.                              *)
RouteAlive ==
  Quiescent => \A p \in Ports : portCmd[p] # None => alive[portCmd[p]]
==============================================================================
