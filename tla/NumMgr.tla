------------------------------- MODULE NumMgr -------------------------------
(***************************************************************************)
(* The number manager of Common/num_mgr.c: it hands out the port ids and   *)
(* the ids of the IPC processes from a bit array, scanning on from the     *)
(* last id it gave.  Neither the manager nor its users take a lock, and    *)
(* the bit is tested and set in two steps, so a call is a sequence of      *)
(* steps of its caller.                                                    *)
(***************************************************************************)
EXTENDS Naturals

CONSTANTS NumCnt,   \* how many ids there are, as given to pxNumMgrCreate
          Callers   \* the threads that call the manager

ASSUME NumMgrAssumption == NumCnt \in Nat \ {0}

Ids == 1 .. NumCnt

VARIABLES bits,            \* the ids whose bit is set in ba
          lastAllocated,
          pc,              \* pc[c]: where caller c is in ulNumMgrAllocate
          p,               \* p[c]: the local variable of that call
          held             \* held[c]: the ids returned to c, not yet released

vars == <<bits, lastAllocated, pc, p, held>>

TypeOK == /\ bits \subseteq Ids
          /\ lastAllocated \in Ids \cup {0}
          /\ pc \in [Callers -> {"idle", "loop", "mark"}]
          /\ p \in [Callers -> 0 .. NumCnt + 1]
          /\ held \in [Callers -> SUBSET Ids]

-----------------------------------------------------------------------------
(* xNumMgrInit: no bit is set, and nothing was allocated yet. *)
Init == /\ bits = {}
        /\ lastAllocated = 0
        /\ pc = [c \in Callers |-> "idle"]
        /\ p = [c \in Callers |-> 0]
        /\ held = [c \in Callers |-> {}]

(* Mutant of Call: one id is skipped. *)
CallSkips(c) == /\ pc[c] = "idle"
                /\ pc' = [pc EXCEPT ![c] = "loop"]
                /\ p' = [p EXCEPT ![c] = lastAllocated + 2]
                /\ UNCHANGED <<bits, lastAllocated, held>>

(* Entry of ulNumMgrAllocate: start next to the last allocated id. *)
Call(c) == /\ pc[c] = "idle"
           /\ pc' = [pc EXCEPT ![c] = "loop"]
           /\ p' = [p EXCEPT ![c] = lastAllocated + 1]
           /\ UNCHANGED <<bits, lastAllocated, held>>

(* Mutants of Wrap: to the id 0, and one id early. *)
WrapToZero(n) == IF n = NumCnt + 1 THEN 0 ELSE n
WrapEarly(n) == IF n >= NumCnt THEN 1 ELSE n

(* The scan wraps over the largest id; im->numCnt is NumCnt + 1. *)
Wrap(n) == IF n = NumCnt + 1 THEN 1 ELSE n

(* Mutant of Overflow: the test is not made. *)
NoOverflow(c) == FALSE /\ UNCHANGED vars

(* Back at the last allocated id: the call returns UINT_MAX.  The test is  *)
(* made before the wrap, so it never sees the id 1 of a wrapped scan.      *)
Overflow(c) == /\ pc[c] = "loop"
               /\ p[c] = lastAllocated
               /\ pc' = [pc EXCEPT ![c] = "idle"]
               /\ UNCHANGED <<bits, lastAllocated, p, held>>

(* One turn of the loop: on to the next id, or out of it with a free one. *)
Probe(c) == /\ pc[c] = "loop"
            /\ p[c] # lastAllocated
            /\ LET n == Wrap(p[c]) IN
                 \/ /\ n \in bits
                    /\ p' = [p EXCEPT ![c] = n + 1]
                    /\ UNCHANGED pc
                 \/ /\ n \notin bits
                    /\ p' = [p EXCEPT ![c] = n]
                    /\ pc' = [pc EXCEPT ![c] = "mark"]
            /\ UNCHANGED <<bits, lastAllocated, held>>

(* vBitArraySetBit, the assignment of lastAllocated, and the return. *)
Mark(c) == /\ pc[c] = "mark"
           /\ bits' = bits \cup {p[c]}
           /\ lastAllocated' = p[c]
           /\ held' = [held EXCEPT ![c] = @ \cup {p[c]}]
           /\ pc' = [pc EXCEPT ![c] = "idle"]
           /\ UNCHANGED p

(* xNumMgrRelease of an id the caller was given. *)
Release(c) == /\ pc[c] = "idle"
              /\ \E n \in held[c] \cap bits :
                   /\ bits' = bits \ {n}
                   /\ held' = [held EXCEPT ![c] = @ \ {n}]
              /\ UNCHANGED <<lastAllocated, pc, p>>

Step(c) == Overflow(c) \/ Probe(c) \/ Mark(c)

Next == \E c \in Callers : Call(c) \/ Step(c) \/ Release(c)

Spec == Init /\ [][Next]_vars

(* A call, once made, is executed by a running thread; nothing obliges a   *)
(* thread to allocate or to release.                                       *)
FairSpec == Spec /\ \A c \in Callers : WF_vars(Step(c))

-----------------------------------------------------------------------------
(* How far id i is ahead of l, going up and wrapping over NumCnt. *)
Distance(l, i) == IF i > l THEN i - l ELSE (i + NumCnt) - l

(* The id that is handed out is the free one closest ahead of the last     *)
(* allocated: ids rotate, and one just released is reused as late as can   *)
(* be.  The loop of ulNumMgrAllocate computes this minimum.                *)
NextFit == \A c \in Callers : pc[c] = "mark" =>
              /\ p[c] \in Ids \ bits
              /\ \A i \in Ids \ bits :
                    Distance(lastAllocated, p[c]) <= Distance(lastAllocated, i)

(* UINT_MAX comes back only when every id but the last allocated is taken: *)
(* the scan passes over none of the others.                                *)
OverflowOnlyWhenTaken ==
  [][\A c \in Callers : pc[c] = "loop" /\ pc'[c] = "idle"
                          => Ids \ {lastAllocated} \subseteq bits]_vars

(* Every allocation is one of the abstract pool of ids: fresh, and held    *)
(* until released.                                                         *)
Pool == INSTANCE IdPool
PoolSpec == Pool!Spec

(* A call of ulNumMgrAllocate returns when an id is free, and when none is *)
(* it returns too unless the last id allocated is 1.                       *)
AllocateReturns ==
  \A c \in Callers :
    (pc[c] = "loop" /\ (bits # Ids \/ lastAllocated # 1)) ~> pc[c] = "idle"

(* num_mgr.c:66 and :70: the loop ends at the last allocated id again, and *)
(* UINT_MAX is returned on overflow: every call returns.                   *)
EveryCallReturns == \A c \in Callers : pc[c] = "loop" ~> pc[c] = "idle"

=============================================================================
