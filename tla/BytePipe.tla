------------------------------- MODULE BytePipe -------------------------------
(***************************************************************************)
(* What a tunnel promises one direction of each session, whatever happens  *)
(* to the connections in between: the receiver of session s gets the       *)
(* chunks the sender of s put in, in order, without gap or duplicate, and  *)
(* never a chunk of another session.  It may get fewer than were sent.     *)
(***************************************************************************)
EXTENDS Naturals, Sequences

CONSTANTS Sessions

VARIABLES sent,   \* chunks put in, per session
          got     \* chunks taken out, as <<session, ordinal>>

pipeVars == <<sent, got>>

Init == /\ sent = [s \in Sessions |-> 0]
        /\ got = [s \in Sessions |-> <<>>]

Put(s) == /\ sent' = [sent EXCEPT ![s] = @ + 1]
          /\ UNCHANGED got

Deliver(s) == /\ Len(got[s]) < sent[s]
              /\ got' = [got EXCEPT ![s] = Append(@, <<s, Len(got[s]) + 1>>)]
              /\ UNCHANGED sent

Next == \E s \in Sessions : Put(s) \/ Deliver(s)

Spec == Init /\ [][Next]_pipeVars
==============================================================================
