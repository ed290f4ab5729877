------------------------------- MODULE IdPool -------------------------------
(***************************************************************************)
(* What a number manager promises its callers, with no bit array and no    *)
(* scan: a caller is handed an identifier that no caller holds, and gives  *)
(* back one that it holds, or passes it on to another caller.  A refused   *)
(* allocation changes nothing.                                             *)
(***************************************************************************)
EXTENDS Naturals

CONSTANTS Ids,      \* the identifiers that can be handed out
          Callers   \* the threads that allocate and release

VARIABLE held       \* held[c]: the identifiers caller c was given

Init == held = [c \in Callers |-> {}]

Allocate(c) == \E i \in Ids \ UNION {held[d] : d \in Callers} :
                  held' = [held EXCEPT ![c] = @ \cup {i}]

Release(c) == \E i \in held[c] : held' = [held EXCEPT ![c] = @ \ {i}]

Pass(c, d) == /\ c # d
              /\ \E i \in held[c] :
                   held' = [held EXCEPT ![c] = @ \ {i}, ![d] = @ \cup {i}]

Next == \/ \E c \in Callers : Allocate(c) \/ Release(c)
        \/ \E c, d \in Callers : Pass(c, d)

Spec == Init /\ [][Next]_held

=============================================================================
