--------------------------- MODULE NumMgr_proofs ---------------------------
(***************************************************************************)
(* Proofs about NumMgr, for any number of ids, while its calls do not      *)
(* overlap.                                                                *)
(***************************************************************************)
EXTENDS NumMgr, TLAPS

(* One thread at most uses the manager. *)
SerialUse == \A c, d \in Callers : c = d

(* A scan of the ids has passed over no free one: the id it looks at next  *)
(* is at most as far ahead as any that is free.                            *)
Scanning(c) == /\ p[c] \in 1 .. NumCnt + 1
               /\ \A i \in Ids \ bits :
                     Distance(lastAllocated, Wrap(p[c])) <= Distance(lastAllocated, i)

(* The id that a scan has settled on. *)
Settled(c) == /\ p[c] \in Ids \ bits
              /\ \A i \in Ids \ bits :
                    Distance(lastAllocated, p[c]) <= Distance(lastAllocated, i)

IInv == /\ TypeOK
        /\ \A c \in Callers : /\ held[c] = bits
                              /\ pc[c] = "loop" => Scanning(c)
                              /\ pc[c] = "mark" => Settled(c)

-----------------------------------------------------------------------------
(* The next id is one further ahead than this one, unless this one is the  *)
(* last allocated, which is the furthest.                                  *)
LEMMA DistanceStep ==
  ASSUME NEW l \in Ids \cup {0}, NEW n \in Ids, NEW i \in Ids \ {n},
         Distance(l, n) <= Distance(l, i)
  PROVE  Distance(l, Wrap(n + 1)) <= Distance(l, i)
BY NumMgrAssumption DEF Distance, Wrap, Ids

(* The id after the last allocated is the closest ahead. *)
LEMMA DistanceFirst ==
  ASSUME NEW l \in Ids \cup {0}, NEW i \in Ids
  PROVE  Distance(l, Wrap(l + 1)) <= Distance(l, i)
BY NumMgrAssumption DEF Distance, Wrap, Ids

(* No other id is as far ahead as the last allocated. *)
LEMMA DistanceLast ==
  ASSUME NEW l \in Ids, NEW i \in Ids, Distance(l, l) <= Distance(l, i)
  PROVE  i = l
BY NumMgrAssumption DEF Distance, Ids

LEMMA WrapId == \A n \in 1 .. NumCnt + 1 : Wrap(n) \in Ids
BY NumMgrAssumption DEF Wrap, Ids

-----------------------------------------------------------------------------
LEMMA InitIInv == Init => IInv
BY NumMgrAssumption DEF Init, IInv, TypeOK, Ids

(* Every step of the manager preserves the invariant. *)
LEMMA NextIInv == ASSUME SerialUse, IInv, [Next]_vars PROVE IInv'
<1> USE NumMgrAssumption DEF IInv
<1>1. CASE UNCHANGED vars
  BY <1>1 DEF vars, TypeOK, Scanning, Settled, Wrap, Distance, Ids
<1>2. ASSUME NEW c \in Callers, Call(c) \/ Step(c) \/ Release(c) PROVE IInv'
  <2>0. \A d \in Callers : d = c  BY DEF SerialUse
  <2>1. CASE Call(c)
    <3>1. p'[c] = lastAllocated + 1 /\ p'[c] \in 1 .. NumCnt + 1
      BY <2>1 DEF Call, TypeOK, Ids
    <3>2. \A i \in Ids : Distance(lastAllocated, Wrap(lastAllocated + 1)) <= Distance(lastAllocated, i)
      BY DistanceFirst DEF TypeOK
    <3>3. Scanning(c)'
      BY <2>1, <3>1, <3>2 DEF Call, Scanning, Distance, Wrap, Ids
    <3>4. TypeOK'  BY <2>1 DEF Call, TypeOK, Ids
    <3> QED  BY <2>0, <2>1, <3>3, <3>4 DEF Call, TypeOK
  <2>2. CASE Overflow(c)
    <3>1. TypeOK'  BY <2>2 DEF Overflow, TypeOK
    <3> QED  BY <2>0, <2>2, <3>1 DEF Overflow, TypeOK
  <2>3. CASE Probe(c)
    <3> DEFINE n == Wrap(p[c])
    <3>1. Scanning(c) /\ n \in Ids  BY <2>3, WrapId DEF Probe, Scanning
    <3>2. CASE n \in bits
      <4>1. p' = [p EXCEPT ![c] = n + 1] /\ UNCHANGED <<pc, bits, lastAllocated, held>>
        BY <2>3, <3>2 DEF Probe
      <4>2. \A i \in Ids \ bits : Distance(lastAllocated, Wrap(n + 1)) <= Distance(lastAllocated, i)
        BY <3>1, <3>2, DistanceStep DEF Scanning, TypeOK
      <4>3. p'[c] = n + 1 /\ n + 1 \in 1 .. NumCnt + 1
        BY <3>1, <4>1 DEF TypeOK, Ids
      <4>4. Scanning(c)'  BY <4>1, <4>2, <4>3 DEF Scanning, Distance, Wrap, Ids
      <4>5. TypeOK'  BY <4>1, <4>3 DEF TypeOK
      <4>6. pc'[c] = "loop"  BY <2>3, <4>1 DEF Probe
      <4> QED  BY <2>0, <4>1, <4>4, <4>5, <4>6
    <3>3. CASE n \notin bits
      <4>1. /\ p' = [p EXCEPT ![c] = n] /\ pc' = [pc EXCEPT ![c] = "mark"]
            /\ UNCHANGED <<bits, lastAllocated, held>>
        BY <2>3, <3>3 DEF Probe
      <4>2. p'[c] = n /\ pc'[c] = "mark"  BY <4>1 DEF TypeOK
      <4>3. Settled(c)'
        BY <3>1, <3>3, <4>1, <4>2 DEF Scanning, Settled, Distance, Ids
      <4>4. TypeOK'  BY <3>1, <4>1 DEF TypeOK, Ids
      <4> QED  BY <2>0, <4>1, <4>2, <4>3, <4>4
    <3> QED  BY <3>2, <3>3
  <2>4. CASE Mark(c)
    <3>1. p[c] \in Ids  BY <2>4 DEF Mark, Settled
    <3>2. TypeOK'  BY <2>4, <3>1 DEF Mark, TypeOK
    <3>3. held'[c] = bits' /\ pc'[c] = "idle"  BY <2>4 DEF Mark, TypeOK
    <3> QED  BY <2>0, <3>2, <3>3
  <2>5. CASE Release(c)
    <3>1. TypeOK'  BY <2>5 DEF Release, TypeOK
    <3>2. held'[c] = bits' /\ pc'[c] = "idle"  BY <2>5 DEF Release, TypeOK
    <3> QED  BY <2>0, <3>1, <3>2
  <2> QED  BY <1>2, <2>1, <2>2, <2>3, <2>4, <2>5 DEF Step
<1> QED  BY <1>1, <1>2 DEF Next

-----------------------------------------------------------------------------
(* However calls overlap, the scan stays within the ids: what it settles   *)
(* on, and so what is handed out, is the number of a bit.                  *)
InRange == /\ TypeOK
           /\ \A c \in Callers : /\ pc[c] = "loop" => p[c] \in 1 .. NumCnt + 1
                                 /\ pc[c] = "mark" => p[c] \in Ids

THEOREM ScanStaysInRange == Spec => []TypeOK
<1>1. Init => InRange
  BY NumMgrAssumption DEF Init, InRange, TypeOK, Ids
<1>2. ASSUME InRange, [Next]_vars PROVE InRange'
  <2> USE NumMgrAssumption DEF InRange, TypeOK
  <2>1. CASE UNCHANGED vars  BY <1>2, <2>1 DEF vars
  <2>2. ASSUME NEW c \in Callers, Call(c) PROVE InRange'
    BY <1>2, <2>2 DEF Call, Ids
  <2>3. ASSUME NEW c \in Callers, Overflow(c) PROVE InRange'
    BY <1>2, <2>3 DEF Overflow
  <2>4. ASSUME NEW c \in Callers, Probe(c) PROVE InRange'
    <3>1. Wrap(p[c]) \in Ids  BY <1>2, <2>4, WrapId DEF Probe
    <3> QED  BY <1>2, <2>4, <3>1 DEF Probe, Ids
  <2>5. ASSUME NEW c \in Callers, Mark(c) PROVE InRange'
    BY <1>2, <2>5 DEF Mark
  <2>6. ASSUME NEW c \in Callers, Release(c) PROVE InRange'
    BY <1>2, <2>6 DEF Release
  <2> QED  BY <1>2, <2>1, <2>2, <2>3, <2>4, <2>5, <2>6 DEF Next, Step
<1> QED  BY <1>1, <1>2, PTL DEF Spec, InRange

(* With calls that do not overlap, ids rotate: the one handed out is the   *)
(* free one closest ahead of the last.                                     *)
THEOREM SerialNextFit == SerialUse => (Spec => []NextFit)
<1> SUFFICES ASSUME SerialUse PROVE Spec => []NextFit
  OBVIOUS
<1>1. Spec => []IInv  BY InitIInv, NextIInv, PTL DEF Spec
<1>2. IInv => NextFit  BY DEF IInv, NextFit, Settled
<1> QED  BY <1>1, <1>2, PTL

(* With calls that do not overlap, UINT_MAX is returned only when every id *)
(* but the last allocated is taken.                                        *)
THEOREM SerialOverflow == SerialUse => (Spec => OverflowOnlyWhenTaken)
<1> SUFFICES ASSUME SerialUse PROVE Spec => OverflowOnlyWhenTaken
  OBVIOUS
<1> DEFINE A == \A c \in Callers : pc[c] = "loop" /\ pc'[c] = "idle"
                                     => Ids \ {lastAllocated} \subseteq bits
<1>1. Spec => []IInv  BY InitIInv, NextIInv, PTL DEF Spec
<1>2. ASSUME IInv, [Next]_vars PROVE [A]_vars
  <2> SUFFICES ASSUME Next, NEW c \in Callers, pc[c] = "loop", pc'[c] = "idle"
               PROVE  Ids \ {lastAllocated} \subseteq bits
    BY <1>2 DEF vars
  <2>1. Overflow(c)
    BY <1>2 DEF Next, Step, Call, Probe, Mark, Release, SerialUse, IInv, TypeOK
  <2>2. p[c] = lastAllocated /\ lastAllocated \in Ids /\ Wrap(p[c]) = lastAllocated
    BY <1>2, <2>1, NumMgrAssumption DEF Overflow, IInv, Scanning, TypeOK, Ids, Wrap
  <2>3. \A i \in Ids \ bits : Distance(lastAllocated, lastAllocated) <= Distance(lastAllocated, i)
    BY <1>2, <2>2 DEF IInv, Scanning
  <2> QED  BY <2>2, <2>3, DistanceLast
<1> QED  BY <1>1, <1>2, PTL DEF Spec, OverflowOnlyWhenTaken

(* With calls that do not overlap, the manager implements the pool of ids: *)
(* the step that marks an id allocates it, and the others are stutters or  *)
(* releases.                                                               *)
THEOREM SerialPool == SerialUse => (Spec => PoolSpec)
<1> SUFFICES ASSUME SerialUse PROVE Spec => PoolSpec
  OBVIOUS
<1>1. Spec => []IInv  BY InitIInv, NextIInv, PTL DEF Spec
<1>2. Init => Pool!Init  BY DEF Init, Pool!Init
<1>3. ASSUME IInv, [Next]_vars PROVE [Pool!Next]_held
  <2>1. CASE UNCHANGED vars  BY <2>1 DEF vars
  <2>2. ASSUME NEW c \in Callers, Call(c) \/ Step(c) \/ Release(c) PROVE [Pool!Next]_held
    <3>0. held[c] = bits /\ UNION {held[d] : d \in Callers} = bits
      BY <1>3 DEF IInv, SerialUse
    <3>1. CASE Call(c) \/ Overflow(c) \/ Probe(c)
      BY <3>1 DEF Call, Overflow, Probe
    <3>2. CASE Mark(c)
      <4>1. p[c] \in Ids \ UNION {held[d] : d \in Callers}
        BY <1>3, <3>0, <3>2 DEF Mark, IInv, Settled
      <4>2. held' = [held EXCEPT ![c] = @ \cup {p[c]}]  BY <3>2 DEF Mark
      <4>3. Pool!Allocate(c)  BY <4>1, <4>2 DEF Pool!Allocate
      <4> QED  BY <4>3 DEF Pool!Next
    <3>3. CASE Release(c)
      <4>1. Pool!Release(c)  BY <3>3 DEF Release, Pool!Release
      <4> QED  BY <4>1 DEF Pool!Next
    <3> QED  BY <2>2, <3>1, <3>2, <3>3 DEF Step
  <2> QED  BY <1>3, <2>1, <2>2 DEF Next
<1> QED  BY <1>1, <1>2, <1>3, PTL DEF Spec, PoolSpec, Pool!Spec

-----------------------------------------------------------------------------
(* What the loop of a call leaves behind it: the scan is never at the id 1 *)
(* once an id was allocated, for it starts next to that id and wraps only  *)
(* after the test; and no bit is set before the first allocation.          *)
PastFirst == /\ lastAllocated = 0 => bits = {}
             /\ \A c \in Callers : pc[c] = "loop" /\ lastAllocated # 0 => p[c] >= 2

LEMMA SerialPastFirst == SerialUse => (Spec => [](IInv /\ PastFirst))
<1> SUFFICES ASSUME SerialUse PROVE Spec => [](IInv /\ PastFirst)
  OBVIOUS
<1>1. Spec => []IInv  BY InitIInv, NextIInv, PTL DEF Spec
<1>2. Init => PastFirst  BY DEF Init, PastFirst
<1>3. ASSUME IInv, PastFirst, [Next]_vars PROVE PastFirst'
  <2> USE NumMgrAssumption DEF PastFirst
  <2>1. CASE UNCHANGED vars  BY <1>3, <2>1 DEF vars
  <2>2. ASSUME NEW c \in Callers, Call(c) \/ Step(c) \/ Release(c) PROVE PastFirst'
    <3>0. TypeOK /\ \A d \in Callers : d = c  BY <1>3 DEF SerialUse, IInv
    <3>1. CASE Call(c)  BY <1>3, <3>0, <3>1 DEF Call, TypeOK, Ids
    <3>2. CASE Overflow(c)  BY <1>3, <3>0, <3>2 DEF Overflow, TypeOK
    <3>3. CASE Probe(c)
      <4>1. Wrap(p[c]) \in Ids  BY <1>3, <3>3, WrapId DEF Probe, IInv, Scanning
      <4> QED  BY <1>3, <3>0, <3>3, <4>1 DEF Probe, TypeOK, Ids
    <3>4. CASE Mark(c)
      <4>1. p[c] \in Ids  BY <1>3, <3>4 DEF Mark, IInv, Settled
      <4> QED  BY <1>3, <3>0, <3>4, <4>1 DEF Mark, TypeOK, Ids
    <3>5. CASE Release(c)  BY <1>3, <3>0, <3>5 DEF Release, TypeOK
    <3> QED  BY <2>2, <3>1, <3>2, <3>3, <3>4, <3>5 DEF Step
  <2> QED  BY <1>3, <2>1, <2>2 DEF Next
<1> QED  BY <1>1, <1>2, <1>3, PTL DEF Spec

(* The state in which every id is taken and the last one given is 1.       *)
AllTaken(c) == pc[c] = "loop" /\ bits = Ids /\ lastAllocated = 1

(* A turn of the loop that finds its id taken. *)
TurnsNearer ==
  [][\A c \in Callers : pc[c] = "loop" /\ pc'[c] = "loop" /\ p' # p =>
        \/ Distance(lastAllocated, Wrap(p'[c])) = Distance(lastAllocated, Wrap(p[c])) + 1
        \/ AllTaken(c)]_vars

(* The id after n is one further ahead than n, unless n is the furthest.   *)
LEMMA DistanceNext ==
  ASSUME NEW l \in Ids \cup {0}, NEW n \in Ids, n # l, l = 0 => n # NumCnt
  PROVE  Distance(l, Wrap(n + 1)) = Distance(l, n) + 1
BY NumMgrAssumption DEF Distance, Wrap, Ids

(* The loop of ulNumMgrAllocate ends: with calls that do not overlap,      *)
(* every turn that stays in it takes the scan one id further from the last *)
(* allocated, and no id is further than NumCnt; only when every id is      *)
(* taken and the last one given is 1 does a turn gain nothing.             *)
THEOREM SerialCallEnds ==
  SerialUse => (Spec => /\ TurnsNearer
                        /\ [](\A c \in Callers : pc[c] = "loop" =>
                                Distance(lastAllocated, Wrap(p[c])) \in 1 .. NumCnt))
<1> SUFFICES ASSUME SerialUse
             PROVE  Spec => /\ TurnsNearer
                            /\ [](\A c \in Callers : pc[c] = "loop" =>
                                   Distance(lastAllocated, Wrap(p[c])) \in 1 .. NumCnt)
  OBVIOUS
<1> DEFINE A == \A c \in Callers : pc[c] = "loop" /\ pc'[c] = "loop" /\ p' # p =>
              \/ Distance(lastAllocated, Wrap(p'[c])) = Distance(lastAllocated, Wrap(p[c])) + 1
              \/ AllTaken(c)
           B == \A c \in Callers : pc[c] = "loop" =>
                   Distance(lastAllocated, Wrap(p[c])) \in 1 .. NumCnt
<1>1. IInv => B
  <2> SUFFICES ASSUME IInv, NEW c \in Callers, pc[c] = "loop"
               PROVE  Distance(lastAllocated, Wrap(p[c])) \in 1 .. NumCnt
    OBVIOUS
  <2>1. Wrap(p[c]) \in Ids  BY WrapId DEF IInv, Scanning
  <2> QED  BY <2>1, NumMgrAssumption DEF IInv, TypeOK, Distance, Ids
<1>2. ASSUME IInv, PastFirst, [Next]_vars PROVE [A]_vars
  <2> SUFFICES ASSUME Next, NEW c \in Callers, pc[c] = "loop", pc'[c] = "loop", p' # p
               PROVE  \/ Distance(lastAllocated, Wrap(p'[c])) = Distance(lastAllocated, Wrap(p[c])) + 1
                      \/ AllTaken(c)
    BY <1>2 DEF vars
  <2> DEFINE n == Wrap(p[c])
  <2>1. Probe(c)
    BY <1>2 DEF Next, Step, Call, Overflow, Mark, Release, SerialUse, IInv, TypeOK
  <2>2. /\ n \in Ids /\ lastAllocated \in Ids \cup {0} /\ p[c] \in 1 .. NumCnt + 1
        /\ p[c] # lastAllocated
    BY <1>2, <2>1, WrapId DEF Probe, IInv, Scanning, TypeOK
  <2>3. n \in bits /\ p'[c] = n + 1
    BY <1>2, <2>1 DEF Probe, IInv, TypeOK
  <2>4. lastAllocated # 0  BY <1>2, <2>3 DEF PastFirst
  <2>5. CASE n # lastAllocated
    <3>1. Distance(lastAllocated, Wrap(n + 1)) = Distance(lastAllocated, n) + 1
      BY <2>2, <2>4, <2>5, DistanceNext
    <3> QED  BY <2>3, <3>1
  <2>6. CASE n = lastAllocated
    <3>1. lastAllocated = 1  BY <2>2, <2>6, NumMgrAssumption DEF Wrap
    <3>2. \A i \in Ids \ bits : Distance(lastAllocated, lastAllocated) <= Distance(lastAllocated, i)
      BY <1>2, <2>6 DEF IInv, Scanning
    <3>3. \A i \in Ids \ bits : i = lastAllocated
      BY <2>2, <2>6, <3>2, DistanceLast
    <3>4. bits = Ids  BY <1>2, <2>3, <2>6, <3>3 DEF IInv, TypeOK
    <3> QED  BY <3>1, <3>4 DEF AllTaken
  <2> QED  BY <2>5, <2>6
<1> QED  BY <1>1, <1>2, SerialPastFirst, PTL DEF Spec, TurnsNearer

(* The call that never returns, for any number of ids: with every id taken *)
(* and the last one given the id 1, the scan passes 1 right after the      *)
(* wrap, where the test for the overflow does not see it, and goes round   *)
(* for ever.                                                               *)
THEOREM SerialAllTakenSpins ==
  ASSUME SerialUse, NEW c \in Callers
  PROVE  Spec => [](AllTaken(c) => [](pc[c] = "loop"))
<1>1. ASSUME IInv, PastFirst, AllTaken(c), [Next]_vars PROVE AllTaken(c)'
  <2>1. CASE UNCHANGED vars  BY <1>1, <2>1 DEF vars, AllTaken
  <2>2. CASE Next
    <3>1. TypeOK /\ \A d \in Callers : d = c  BY <1>1 DEF SerialUse, IInv
    <3>2. p[c] >= 2  BY <1>1 DEF PastFirst, AllTaken
    <3>3. Probe(c) /\ p[c] \in 1 .. NumCnt + 1
      BY <1>1, <2>2, <3>1, <3>2
      DEF Next, Step, Call, Overflow, Mark, Release, AllTaken, IInv, Scanning
    <3>4. Wrap(p[c]) \in bits  BY <1>1, <3>3, WrapId DEF AllTaken
    <3> QED  BY <1>1, <3>3, <3>4 DEF Probe, AllTaken
  <2> QED  BY <1>1, <2>1, <2>2
<1>2. AllTaken(c) => pc[c] = "loop"  BY DEF AllTaken
<1> QED  BY <1>1, <1>2, SerialPastFirst, PTL DEF Spec
=============================================================================
