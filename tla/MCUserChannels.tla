--------------------------- MODULE MCUserChannels ---------------------------
(* Finite instances of UserChannels for TLC.                               *)
EXTENDS UserChannels, FiniteSets, TLC

CONSTANTS lan1, lan2

LansMoved == <<lan1, lan2>>
LansAny   == <<lan1, lan2, None, NoKey>>

(* What the rest of a behaviour depends on: locals of a handler that has   *)
(* ended, and the attributes of a connection that is closed, are left out. *)
LiveIn == {"lan", "request", "register", "ask", "open", "unlist",       \* user
           "get", "remove",                                           \* data connection
           "route", "attrs", "ports", "clear", "evict"} \cup RemovePC
WhoIn  == {"find", "get", "bind", "read", "close", "forget", "end", "evict"}
Listed == UNION {userChannels[c] : c \in Ctls}
Live == <<pc,
          [t \in Threads |-> IF pc[t] \in LiveIn THEN at[t] ELSE None],
          [t \in Removers |-> IF pc[t] = "reroute" THEN took[t] ELSE None],
          [t \in Handlers |-> IF pc[t] \in WhoIn THEN who[t] ELSE None],
          [u \in Users |-> IF pc[u] \in {"request", "register", "ask"} THEN asked[u] ELSE None],
          [u \in Users |-> IF u \in Listed \cup checked \/ pc[u] = "register" THEN reqLan[u] ELSE None],
          {u \in Users : u \in closing /\ Open(u)}, {u \in checked : Open(u)},
          [u \in Users |-> IF pc[u] = "gone" THEN None ELSE uNext[u]],
          [p \in Proxies |-> IF pc[p] = "closed" THEN None ELSE pUser[p]],
          [p \in Proxies |-> IF pAlive[p] THEN session[p] ELSE None],
          [u \in Users |-> IF request[u] \in Proxies /\ ~pAlive[request[u]]
                           THEN "left" ELSE request[u]],
          pAlive, cAlive, cmd, portCmd, attrs,
          {c \in hasPort : pc[c] # "done"}, userChannels, config, rest>>

(* With one control connection, at most three handlers run at once while   *)
(* nothing was saved or the port is revoked, two when it is moved or the   *)
(* key removed; or a second control connection comes, with at most two.    *)
AtRest   == {"unused", "open", "gone", "idle", "closed", "done"}
Running  == Cardinality({t \in Threads : pc[t] \notin AtRest})
UsedCtls == Cardinality({c \in Ctls : pc[c] # "idle" \/ c \in attrs})
OneDisturbance == \/ UsedCtls <= 1 /\ keyVersion \in {1, 3} /\ Running <= 3
                  \/ UsedCtls <= 1 /\ Running <= 2
                  \/ keyVersion = 1 /\ Running <= 2

(* One configuration is saved, any of the later ones.                      *)
OneSave == keyVersion' = keyVersion \/ keyVersion = 1

Symmetric == Permutations(Users) \cup Permutations(Proxies) \cup Permutations(Ctls)
=============================================================================
