------------------------------ MODULE MCRegistry ------------------------------
(* Finite instances of Registry for TLC.                                   *)
EXTENDS Registry, TLC

CONSTANTS k1, k2, p1, p2, c1, c2, c3

(* Sessions of one client, one configuration.                              *)
OneKey       == [c \in Chans |-> k1]
OneConfig    == <<(k1 :> {p1, p2})>>

(* Two clients.                                                            *)
TwoKeys == [c \in Chans |-> IF c = c3 THEN k2 ELSE k1]

(* c1 and c2 are interchangeable: both are sessions of k1.                 *)
Sessions == Permutations({c1, c2})

(* The port moves from k1 to k2 and back, so that a removal may find the   *)
(* route of another connection and a newer session of its own key; then it *)
(* moves again and k1 is taken out.                                        *)
PortMoved == << (k1 :> {p1} @@ k2 :> {}), (k1 :> {} @@ k2 :> {p1}),
                (k1 :> {p1} @@ k2 :> {}), (k2 :> {p1}) >>

(* Bound: in the last configuration one session of k1 has not begun.       *)
LastBySecond == version = 4 => \E c \in {c1, c2} : pc[c] = "idle"

(* The client k1 is taken out while its port moves to k2, and comes back.  *)
ClientRemoved == << (k1 :> {p1} @@ k2 :> {}), (k2 :> {p1}), (k1 :> {p1} @@ k2 :> {}) >>
==============================================================================
