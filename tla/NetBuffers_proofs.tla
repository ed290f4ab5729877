-------------------------- MODULE NetBuffers_proofs --------------------------
(***************************************************************************)
(* Proofs about NetBuffers, for any threads and descriptors.               *)
(*                                                                         *)
(* First the balance of the semaphore and the free list, which holds       *)
(* whatever the threads do, double releases included; then the ownership   *)
(* of the descriptors, when no thread releases a buffer twice; last what   *)
(* the payload pool counts until two threads meet in it.                   *)
(***************************************************************************)
EXTENDS NetBuffers, FiniteSetTheorems, TLAPS

(* Where a thread has a descriptor that it has not been given yet, or has  *)
(* released.                                                               *)
Working == Using \cup {"check", "none", "freePayload", "freeDesc"}
Labels  == Working \cup {"idle", "take", "desc", "post", "wake"}

Word == 0 .. Counter - 1

(* A counter that has been loaded is a word, and the list of a thread that *)
(* unlinks a payload was not empty.                                        *)
CopyAt(t) == /\ pc[t] \in {"limit", "freed", "taken", "attach", "useDown"} => reg[t] \in Word
             /\ pc[t] = "unlink" => reg[t] > 0

Types == /\ value \in Int /\ xSemaphore \in Nat
         /\ freeDesc \subseteq Descs /\ attached \subseteq Descs
         /\ pxFreelist \in Nat /\ uiNumFree \in Word /\ uiNumInUse \in Word
         /\ pc \in [Threads -> Labels]
         /\ cur \in [Threads -> Descs]
         /\ reg \in [Threads -> Nat]
         /\ \A t \in Threads : CopyAt(t)
         /\ held \in [Threads -> SUBSET Descs]
         /\ stale \in [Threads -> SUBSET Descs]
         /\ overlapped \in BOOLEAN /\ crashed \in BOOLEAN

(* The threads that the semaphore has admitted and that have no descriptor *)
(* yet, and those that have put one back and not posted the semaphore, or  *)
(* not woken anybody.                                                      *)
Admitted == At({"desc"})
Posting  == At({"post", "wake"})

(* A free descriptor is counted by the semaphore, promised to a thread, or *)
(* not announced yet.                                                      *)
Balance == Cardinality(freeDesc) = Permits + (Cardinality(Admitted) + Cardinality(Posting))

Counted == Types /\ Balance

-----------------------------------------------------------------------------
LEMMA CountsFinite ==
  ASSUME Types
  PROVE  /\ IsFiniteSet(Admitted) /\ Cardinality(Admitted) \in Nat
         /\ IsFiniteSet(Posting) /\ Cardinality(Posting) \in Nat
         /\ IsFiniteSet(freeDesc) /\ Cardinality(freeDesc) \in Nat
         /\ Cardinality(freeDesc) <= N /\ N \in Nat
<1>1. /\ Admitted \subseteq Threads /\ Posting \subseteq Threads
      /\ freeDesc \subseteq Descs
  BY DEF Admitted, Posting, At, Types
<1>2. IsFiniteSet(Admitted) /\ IsFiniteSet(Posting) /\ IsFiniteSet(freeDesc)
      /\ IsFiniteSet(Descs)
  BY <1>1, FS_Subset, NetBuffersAssumption
<1> QED  BY <1>1, <1>2, FS_CardinalityType, FS_Subset DEF N

(* A step of a thread that is neither of the two before nor after it. *)
LEMMA ElsewhereBalance ==
  ASSUME Counted, NEW t \in Threads, NEW l \in Labels \ {"desc", "post", "wake"},
         pc[t] \notin {"desc", "post", "wake"}, pc' = [pc EXCEPT ![t] = l],
         UNCHANGED <<semaphore, freeDesc>>
  PROVE  Balance'
<1>1. Admitted' = Admitted /\ Posting' = Posting
  BY DEF Counted, Types, Labels, Working, Using, Admitted, Posting, At
<1> QED  BY <1>1 DEF Counted, Balance, Permits, semaphore

LEMMA StutterBalance ==
  ASSUME Counted, UNCHANGED <<semaphore, freeDesc, pc>>
  PROVE  Balance'
BY DEF Counted, Balance, Admitted, Posting, At, Permits, semaphore

LEMMA PermitsType == ASSUME Types PROVE Permits \in Nat
BY DEF Types, Permits

(* A thread is admitted for a permit. *)
LEMMA AdmitBalance ==
  ASSUME Counted, NEW t \in Threads, pc[t] \in {"idle", "take"}, Goto(t, "desc"),
         Permits' = Permits - 1, UNCHANGED freeDesc
  PROVE  Balance'
<1>1. Admitted' = Admitted \cup {t} /\ t \notin Admitted /\ Posting' = Posting
  BY DEF Goto, Counted, Types, Labels, Working, Using, Admitted, Posting, At
<1>2. Cardinality(Admitted') = Cardinality(Admitted) + 1
  BY <1>1, CountsFinite, FS_AddElement DEF Counted
<1>3. Permits \in Nat  BY PermitsType DEF Counted
<1>4. Cardinality(Admitted) \in Nat /\ Cardinality(Posting) \in Nat
  BY CountsFinite DEF Counted
<1> QED  BY <1>1, <1>2, <1>3, <1>4 DEF Counted, Balance

LEMMA GetBalance == ASSUME Counted, NEW t \in Threads, Get(t) PROVE Balance'
<1>1. value \in Int /\ value' = value - 1 /\ xSemaphore' = xSemaphore /\ xSemaphore \in Nat
  BY DEF Get, Decrement, Counted, Types
<1>2. pc[t] = "idle" /\ UNCHANGED freeDesc  BY DEF Get, In
<1>3. CASE Immediate
  <2>1. Permits' = Permits - 1  BY <1>1, <1>3 DEF Permits, Immediate
  <2>2. Goto(t, "desc")  BY <1>3 DEF Get
  <2> QED  BY <1>2, <2>1, <2>2, AdmitBalance
<1>4. CASE ~Immediate
  <2>1. Permits' = Permits  BY <1>1, <1>4 DEF Permits, Immediate
  <2>2. Goto(t, "take")  BY <1>4 DEF Get
  <2>3. Admitted' = Admitted /\ Posting' = Posting
    BY <1>2, <2>2 DEF Goto, Counted, Types, Labels, Working, Using, Admitted, Posting, At
  <2> QED  BY <1>2, <2>1, <2>3 DEF Counted, Balance
<1> QED  BY <1>3, <1>4

LEMMA WaitBalance == ASSUME Counted, NEW t \in Threads, Wait(t) PROVE Balance'
<1>1. value \in Int /\ xSemaphore \in Nat  BY DEF Counted, Types
<1>2. pc[t] = "take" /\ UNCHANGED freeDesc  BY DEF Wait, In
<1>3. CASE Take /\ Goto(t, "desc")
  <2>1. Permits' = Permits - 1  BY <1>1, <1>3 DEF Permits, Take
  <2> QED  BY <1>2, <1>3, <2>1, AdmitBalance
<1>4. CASE TakeFails /\ Goto(t, "idle")
  BY <1>2, <1>4, ElsewhereBalance DEF TakeFails, Goto, Labels, Working, Using
<1> QED  BY <1>3, <1>4 DEF Wait

LEMMA AllocDescBalance ==
  ASSUME Counted, NEW t \in Threads, AllocDesc(t)
  PROVE  Balance'
<1>1. Admitted' = Admitted \ {t} /\ t \in Admitted /\ Posting' = Posting
  BY DEF AllocDesc, Got, In, Goto, Counted, Types, Labels, Working, Using, Admitted, Posting, At
<1>2. Cardinality(Admitted') = Cardinality(Admitted) - 1
  BY <1>1, CountsFinite, FS_RemoveElement DEF Counted
<1>3. PICK d \in freeDesc : freeDesc' = freeDesc \ {d}  BY DEF AllocDesc
<1>4. Cardinality(freeDesc') = Cardinality(freeDesc) - 1
  BY <1>3, CountsFinite, FS_RemoveElement DEF Counted
<1>5. Permits' = Permits  BY DEF AllocDesc, Permits, semaphore
<1>6. Permits \in Nat  BY PermitsType DEF Counted
<1> QED  BY <1>1, <1>2, <1>4, <1>5, <1>6, CountsFinite DEF Counted, Balance

LEMMA FreeDescBalance ==
  ASSUME Counted, NEW t \in Threads, FreeDesc(t), cur[t] \notin freeDesc
  PROVE  Balance'
<1>1. Posting' = Posting \cup {t} /\ t \notin Posting /\ Admitted' = Admitted
  BY DEF FreeDesc, In, Goto, Counted, Types, Labels, Working, Using, Admitted, Posting, At
<1>2. Cardinality(Posting') = Cardinality(Posting) + 1
  BY <1>1, CountsFinite, FS_AddElement DEF Counted
<1>3. cur[t] \notin freeDesc /\ freeDesc' = freeDesc \cup {cur[t]}  BY DEF FreeDesc
<1>4. Cardinality(freeDesc') = Cardinality(freeDesc) + 1
  BY <1>3, CountsFinite, FS_AddElement DEF Counted
<1>5. Permits' = Permits  BY DEF FreeDesc, Permits, semaphore
<1>6. Permits \in Nat  BY PermitsType DEF Counted
<1> QED  BY <1>1, <1>2, <1>4, <1>5, <1>6, CountsFinite DEF Counted, Balance

(* A thread gives a permit back. *)
LEMMA ReturnBalance ==
  ASSUME Counted, NEW t \in Threads, pc[t] \in {"post", "wake"}, Goto(t, "idle"),
         Permits' = Permits + 1, UNCHANGED freeDesc
  PROVE  Balance'
<1>1. Posting' = Posting \ {t} /\ t \in Posting /\ Admitted' = Admitted
  BY DEF Goto, Counted, Types, Labels, Working, Using, Admitted, Posting, At
<1>2. Cardinality(Posting') = Cardinality(Posting) - 1
  BY <1>1, CountsFinite, FS_RemoveElement DEF Counted
<1>3. Permits \in Nat  BY PermitsType DEF Counted
<1>4. Cardinality(Admitted) \in Nat /\ Cardinality(Posting) \in Nat
  BY CountsFinite DEF Counted
<1> QED  BY <1>1, <1>2, <1>3, <1>4 DEF Counted, Balance

LEMMA PostBalance == ASSUME Counted, NEW t \in Threads, Post(t) PROVE Balance'
<1>1. value \in Int /\ value' = value + 1 /\ xSemaphore' = xSemaphore /\ xSemaphore \in Nat
  BY DEF Post, Increment, Counted, Types
<1>2. pc[t] = "post" /\ UNCHANGED freeDesc  BY DEF Post, In
<1>3. CASE Waited
  <2>1. Permits' = Permits  BY <1>1, <1>3 DEF Permits, Waited
  <2>2. Goto(t, "wake")  BY <1>3 DEF Post
  <2>3. Admitted' = Admitted /\ Posting' = Posting
    BY <1>2, <2>2 DEF Goto, Counted, Types, Labels, Working, Using, Admitted, Posting, At
  <2> QED  BY <1>2, <2>1, <2>3 DEF Counted, Balance
<1>4. CASE ~Waited
  <2>1. Permits' = Permits + 1  BY <1>1, <1>4 DEF Permits, Waited
  <2>2. Goto(t, "idle")  BY <1>4 DEF Post
  <2> QED  BY <1>2, <2>1, <2>2, ReturnBalance
<1> QED  BY <1>3, <1>4

LEMMA WakeBalance == ASSUME Counted, NEW t \in Threads, WakeOne(t) PROVE Balance'
<1>1. Permits' = Permits + 1  BY DEF WakeOne, Wake, Permits, Counted, Types
<1> QED  BY <1>1, ReturnBalance DEF WakeOne, In

-----------------------------------------------------------------------------
LEMMA InitCounted == Init => Counted
<1> SUFFICES ASSUME Init PROVE Counted  OBVIOUS
<1>1. N \in Nat  BY NetBuffersAssumption, FS_CardinalityType DEF N
<1>2. Types
  <2>1. cur \in [Threads -> Descs]  BY DEF Init
  <2>2. pc \in [Threads -> Labels] /\ \A t \in Threads : CopyAt(t)
    BY DEF Init, Labels, CopyAt
  <2>3. /\ reg \in [Threads -> Nat]
        /\ held \in [Threads -> SUBSET Descs] /\ stale \in [Threads -> SUBSET Descs]
    BY DEF Init
  <2>4. pxFreelist \in Nat /\ uiNumFree \in Word /\ uiNumInUse \in Word
    BY <1>1, NetBuffersAssumption DEF Init, InitPool, Word
  <2>5. /\ value \in Int /\ xSemaphore \in Nat
        /\ freeDesc \subseteq Descs /\ attached \subseteq Descs
    BY <1>1 DEF Init, SemInit, NewPool
  <2>6. overlapped \in BOOLEAN /\ crashed \in BOOLEAN  BY DEF Init
  <2> QED  BY <2>1, <2>2, <2>3, <2>4, <2>5, <2>6 DEF Types
<1>3. Admitted = {} /\ Posting = {}  BY DEF Init, Admitted, Posting, At
<1>4. Cardinality(Admitted) = 0 /\ Cardinality(Posting) = 0  BY <1>3, FS_EmptySet
<1>5. Cardinality(freeDesc) = N /\ Permits = N
  BY <1>1 DEF Init, SemInit, NewPool, Permits, N
<1> QED  BY <1>1, <1>2, <1>4, <1>5 DEF Counted, Balance

(* The label of t changes, and so does nothing but its own variables. *)
LEMMA OnlyMoves ==
  ASSUME Types, NEW t \in Threads, NEW l \in Labels, Goto(t, l)
  PROVE  /\ pc' \in [Threads -> Labels]
         /\ pc'[t] = l /\ \A u \in Threads \ {t} : pc'[u] = pc[u]
BY DEF Types, Goto

LEMMA GiveType ==
  ASSUME Types, NEW t \in Threads, NEW d \in Descs, Give(t, d)
  PROVE  held' \in [Threads -> SUBSET Descs] /\ stale' \in [Threads -> SUBSET Descs]
<1>1. held' \in [Threads -> SUBSET Descs]  BY DEF Types, Give
<1>2. stale' \in [Threads -> SUBSET Descs]  BY DEF Types, Give
<1> QED  BY <1>1, <1>2

LEMMA WordTypes == Counter \in Nat /\ \A n \in Word : Inc(n) \in Word /\ Dec(n) \in Word
<1>1. N \in Nat  BY NetBuffersAssumption, FS_CardinalityType DEF N
<1> QED  BY <1>1, NetBuffersAssumption DEF Word, Inc, Dec

(* The copies stay good when t moves to a label that needs none, and       *)
(* nobody else's copy changes.                                             *)
LEMMA SameCopies ==
  ASSUME Types, NEW t \in Threads, NEW l \in Labels, Goto(t, l),
         \A u \in Threads \ {t} : reg'[u] = reg[u],
         l \notin {"limit", "freed", "taken", "attach", "useDown", "unlink"}
  PROVE  pc' \in [Threads -> Labels] /\ \A u \in Threads : CopyAt(u)'
<1>1. pc'[t] = l /\ \A u \in Threads \ {t} : pc'[u] = pc[u]  BY OnlyMoves
<1>2. CopyAt(t)'  BY <1>1 DEF CopyAt
<1>3. \A u \in Threads \ {t} : CopyAt(u)'  BY <1>1 DEF CopyAt, Types
<1> QED  BY <1>2, <1>3, OnlyMoves

LEMMA LoadTypes ==
  ASSUME Types, overlapped' \in BOOLEAN, NEW t \in Threads, NEW l, NEW m \in Labels,
         NEW word \in Nat, Load(t, l, word, m),
         m \in {"limit", "freed", "taken", "attach", "useDown"} => word \in Word,
         m = "unlink" => word > 0
  PROVE  Types'
<1>1. /\ Goto(t, m) /\ reg' = [reg EXCEPT ![t] = word]
      /\ UNCHANGED <<semaphore, freeDesc, attached, words, cur, held, stale, crashed>>
  BY DEF Load, Step
<1>2. /\ pc' \in [Threads -> Labels]
      /\ pc'[t] = m /\ \A u \in Threads \ {t} : pc'[u] = pc[u]
  BY <1>1, OnlyMoves
<1>3. /\ reg' \in [Threads -> Nat] /\ reg'[t] = word
      /\ \A u \in Threads \ {t} : reg'[u] = reg[u]
  BY <1>1 DEF Types
<1>4. CopyAt(t)'  BY <1>2, <1>3 DEF CopyAt
<1>5. \A u \in Threads \ {t} : CopyAt(u)'  BY <1>2, <1>3 DEF CopyAt, Types
<1> QED  BY <1>1, <1>2, <1>3, <1>4, <1>5 DEF Types, semaphore, words

LEMMA UseTypes ==
  ASSUME Types, overlapped' \in BOOLEAN, NEW t \in Threads, NEW l, NEW m \in Labels,
         Use(t, l, m),
         m \notin {"limit", "freed", "taken", "attach", "useDown", "unlink"},
         pxFreelist' \in Nat, uiNumFree' \in Word, uiNumInUse' \in Word
  PROVE  Types'
<1>1. /\ Goto(t, m) /\ reg' = [reg EXCEPT ![t] = 0]
      /\ UNCHANGED <<semaphore, freeDesc, attached, cur, held, stale, crashed>>
  BY DEF Use, Step
<1>2. reg' \in [Threads -> Nat] /\ \A u \in Threads \ {t} : reg'[u] = reg[u]
  BY <1>1 DEF Types
<1> QED  BY <1>1, <1>2, SameCopies DEF Types, semaphore

(* The steps of pxRsrcVarAlloc. *)
LEMMA PoolTypes ==
  ASSUME Types, overlapped' \in BOOLEAN, NEW t \in Threads,
         Check(t) \/ Grow(t) \/ Unlink(t) \/ CountFree(t), ~Crash
  PROVE  Types'
<1> USE DEF Labels, Working, Using
<1>0. /\ pxFreelist \in Nat /\ uiNumFree \in Word /\ uiNumInUse \in Word
      /\ Word \subseteq Nat /\ reg[t] \in Nat /\ CopyAt(t)
  BY WordTypes DEF Types, Word
<1>1. CASE Check(t)
  <2>1. CASE Load(t, "check", uiNumInUse, "limit")  BY <1>0, <2>1, LoadTypes
  <2>2. CASE /\ Use(t, "limit", IF reg[t] + uiNumFree >= Limit THEN "none" ELSE "empty")
             /\ UNCHANGED words
    <3>1. Use(t, "limit", "none") \/ Use(t, "limit", "empty")
      BY <2>2
    <3> QED  BY <1>0, <2>2, <3>1, UseTypes DEF words
  <2>3. CASE /\ Step(t, "empty", IF pxFreelist = 0 THEN "link" ELSE "head")
             /\ UNCHANGED <<words, reg>>
    <3>1. /\ Goto(t, "link") \/ Goto(t, "head")
          /\ UNCHANGED <<semaphore, freeDesc, attached, words, reg, cur, held, stale, crashed>>
      BY <2>3 DEF Step
    <3>2. pc' \in [Threads -> Labels] /\ \A u \in Threads : CopyAt(u)'
      BY <3>1, SameCopies
    <3> QED  BY <3>1, <3>2 DEF Types, semaphore, words
  <2> QED  BY <1>1, <2>1, <2>2, <2>3 DEF Check
<1>2. CASE Grow(t)
  <2>1. CASE Load(t, "link", pxFreelist, "publish")  BY <1>0, <2>1, LoadTypes
  <2>2. CASE Load(t, "freeUp", uiNumFree, "freed")  BY <1>0, <2>2, LoadTypes
  <2>3. CASE /\ Use(t, "publish", "freeUp") /\ pxFreelist' = reg[t] + 1
             /\ UNCHANGED <<uiNumFree, uiNumInUse>>
    BY <1>0, <2>3, UseTypes
  <2>4. CASE /\ Use(t, "freed", "head") /\ uiNumFree' = Inc(reg[t])
             /\ UNCHANGED <<pxFreelist, uiNumInUse>>
    <3>1. reg[t] \in Word  BY <1>0, <2>4 DEF Use, Step, In, CopyAt
    <3> QED  BY <1>0, <2>4, <3>1, WordTypes, UseTypes
  <2> QED  BY <1>2, <2>1, <2>2, <2>3, <2>4 DEF Grow
<1>3. CASE Unlink(t)
  <2>1. CASE pxFreelist > 0 /\ Load(t, "head", pxFreelist, "unlink")
    BY <1>0, <2>1, LoadTypes
  <2>2. CASE /\ Use(t, "unlink", "freeDown") /\ pxFreelist' = reg[t] - 1
             /\ UNCHANGED <<uiNumFree, uiNumInUse>>
    <3>1. reg[t] > 0  BY <1>0, <2>2 DEF Use, Step, In, CopyAt
    <3>2. pxFreelist' \in Nat  BY <1>0, <2>2, <3>1
    <3> QED  BY <1>0, <2>2, <3>2, UseTypes
  <2> QED  BY <1>3, <2>1, <2>2 DEF Unlink
<1>4. CASE CountFree(t)
  <2>1. CASE Load(t, "freeDown", uiNumFree, "taken")  BY <1>0, <2>1, LoadTypes
  <2>2. CASE /\ Use(t, "taken", "useUp") /\ uiNumFree' = Dec(reg[t])
             /\ UNCHANGED <<pxFreelist, uiNumInUse>>
    <3>1. reg[t] \in Word  BY <1>0, <2>2 DEF Use, Step, In, CopyAt
    <3> QED  BY <1>0, <2>2, <3>1, WordTypes, UseTypes
  <2> QED  BY <1>4, <2>1, <2>2 DEF CountFree
<1> QED  BY <1>1, <1>2, <1>3, <1>4

LEMMA AttachTypes ==
  ASSUME Types, overlapped' \in BOOLEAN, NEW t \in Threads, Attach(t) \/ Detach(t)
  PROVE  Types'
<1> USE DEF Labels, Working, Using
<1>0. uiNumInUse \in Word /\ Word \subseteq Nat /\ cur[t] \in Descs /\ CopyAt(t)
  BY WordTypes DEF Types, Word
<1>1. CASE Load(t, "useUp", uiNumInUse, "attach")  BY <1>0, <1>1, LoadTypes
<1>2. CASE Attach(t) /\ pc[t] = "attach"
  <2>1. /\ Goto(t, "idle") /\ uiNumInUse' = Inc(reg[t]) /\ Give(t, cur[t])
        /\ reg' = [reg EXCEPT ![t] = 0]
        /\ attached' = attached \cup {cur[t]}
        /\ UNCHANGED <<semaphore, freeDesc, pxFreelist, uiNumFree, cur, crashed>>
    BY <1>2 DEF Attach, Load, Step, In
  <2>2. uiNumInUse' \in Word  BY <1>0, <1>2, <2>1, WordTypes DEF CopyAt
  <2>3. reg' \in [Threads -> Nat] /\ \A u \in Threads \ {t} : reg'[u] = reg[u]
    BY <2>1 DEF Types
  <2>4. pc' \in [Threads -> Labels] /\ \A u \in Threads : CopyAt(u)'
    BY <2>1, <2>3, SameCopies
  <2>5. held' \in [Threads -> SUBSET Descs] /\ stale' \in [Threads -> SUBSET Descs]
    BY <1>0, <2>1, GiveType
  <2> QED  BY <1>0, <2>1, <2>2, <2>3, <2>4, <2>5 DEF Types, semaphore
<1>3. CASE Detach(t)
  <2>1. /\ pc[t] = "useDown" /\ Goto(t, "freeDesc") /\ uiNumInUse' = Dec(reg[t])
        /\ reg' = [reg EXCEPT ![t] = 0]
        /\ attached' = attached \ {cur[t]}
        /\ UNCHANGED <<semaphore, freeDesc, pxFreelist, uiNumFree, cur, held, stale, crashed>>
    BY <1>3 DEF Detach, In
  <2>2. uiNumInUse' \in Word  BY <1>0, <2>1, WordTypes DEF CopyAt
  <2>3. reg' \in [Threads -> Nat] /\ \A u \in Threads \ {t} : reg'[u] = reg[u]
    BY <2>1 DEF Types
  <2>4. pc' \in [Threads -> Labels] /\ \A u \in Threads : CopyAt(u)'
    BY <2>1, <2>3, SameCopies
  <2> QED  BY <2>1, <2>2, <2>3, <2>4 DEF Types, semaphore
<1> QED  BY <1>1, <1>2, <1>3 DEF Attach, In

(* A step that stays away from the payload pool. *)
LEMMA ElsewhereTypes ==
  ASSUME Types, overlapped' \in BOOLEAN, crashed' = crashed, NEW t \in Threads,
         NEW l \in Labels \ {"limit", "freed", "taken", "attach", "useDown", "unlink"},
         Goto(t, l), UNCHANGED <<words, reg>>, attached' \subseteq attached,
         value' \in Int, xSemaphore' \in Nat, freeDesc' \subseteq Descs,
         cur' \in [Threads -> Descs],
         held' \in [Threads -> SUBSET Descs], stale' \in [Threads -> SUBSET Descs]
  PROVE  Types'
<1>1. pc' \in [Threads -> Labels] /\ \A u \in Threads : CopyAt(u)'  BY SameCopies
<1> QED  BY <1>1 DEF Types, words

(* Only the thread that moves changes, and the history of overlaps grows. *)
LEMMA SameTypes ==
  ASSUME Types, overlapped' \in BOOLEAN, crashed' \in BOOLEAN,
         UNCHANGED <<pools, pc, cur, reg>>,
         held' \in [Threads -> SUBSET Descs], stale' \in [Threads -> SUBSET Descs]
  PROVE  Types'
BY DEF Types, CopyAt, pools, semaphore, words

LEMMA NextTypes == ASSUME Types, [Next]_vars PROVE Types'
<1> USE DEF Labels, Working, Using
<1>0. overlapped' \in BOOLEAN  BY DEF Next, Overlap, vars, Types
<1>1. CASE UNCHANGED vars  BY <1>0, <1>1, SameTypes DEF vars, callers, Types
<1>2. CASE Crash  BY <1>0, <1>2, SameTypes DEF Crash, callers, Types
<1>3. ASSUME NEW t \in Threads, Allocate(t), ~Crash PROVE Types'
  <2>1. CASE Get(t)
    <3>1. Goto(t, "desc") \/ Goto(t, "take")  BY <2>1 DEF Get
    <3> QED  BY <1>0, <2>1, <3>1, ElsewhereTypes DEF Get, Decrement, Types
  <2>2. CASE Wait(t)
    <3>1. Goto(t, "desc") \/ Goto(t, "idle")  BY <2>2 DEF Wait
    <3>2. value' \in Int /\ xSemaphore' \in Nat
      BY <2>2 DEF Wait, Take, TakeFails, Types, semaphore
    <3> QED  BY <1>0, <2>2, <3>1, <3>2, ElsewhereTypes DEF Wait, Types
  <2>3. CASE AllocDesc(t)
    <3>1. PICK d \in freeDesc : /\ freeDesc' = freeDesc \ {d} /\ attached' = attached \ {d}
                                /\ cur' = [cur EXCEPT ![t] = d] /\ Got(t, d)
      BY <2>3 DEF AllocDesc
    <3>2. /\ held' \in [Threads -> SUBSET Descs]
          /\ stale' \in [Threads -> SUBSET Descs]
      BY <3>1, GiveType DEF Got, Types
    <3>3. Goto(t, "check") \/ Goto(t, "idle")  BY <3>1 DEF Got
    <3>4. cur' \in [Threads -> Descs] /\ freeDesc' \subseteq Descs /\ attached' \subseteq attached
      BY <3>1 DEF Types
    <3>5. UNCHANGED <<words, reg, semaphore, crashed>>  BY <2>3 DEF AllocDesc
    <3> QED  BY <1>0, <3>2, <3>3, <3>4, <3>5, ElsewhereTypes DEF Types, semaphore
  <2>4. CASE Check(t) \/ Grow(t) \/ Unlink(t) \/ CountFree(t)
    BY <1>0, <1>3, <2>4, PoolTypes
  <2>5. CASE Attach(t)  BY <1>0, <2>5, AttachTypes
  <2>6. CASE NoPayload(t)
    BY <1>0, <1>3, <2>6, ElsewhereTypes DEF NoPayload, Step, Types, semaphore
  <2> QED  BY <1>3, <2>1, <2>2, <2>3, <2>4, <2>5, <2>6 DEF Allocate
<1>4. ASSUME NEW t \in Threads, Free(t), ~Crash PROVE Types'
  <2>1. CASE Release(t)
    <3>1. /\ cur' \in [Threads -> Descs]
          /\ held' \in [Threads -> SUBSET Descs] /\ stale' \in [Threads -> SUBSET Descs]
      BY <2>1 DEF Release, Types
    <3> QED  BY <1>0, <2>1, <3>1, ElsewhereTypes DEF Release, Types, pools, semaphore
  <2>2. CASE FreePayload(t)
    <3>1. CASE Step(t, "freePayload", "freeDesc") /\ UNCHANGED <<words, reg>>
      BY <1>0, <3>1, ElsewhereTypes DEF Step, Types, semaphore
    <3>2. CASE Load(t, "freePayload", uiNumInUse, "useDown")
      <4>1. uiNumInUse \in Word /\ uiNumInUse \in Nat  BY WordTypes DEF Types, Word
      <4> QED  BY <1>0, <3>2, <4>1, LoadTypes
    <3> QED  BY <1>4, <2>2, <3>1, <3>2 DEF FreePayload
  <2>3. CASE Detach(t)  BY <1>0, <2>3, AttachTypes
  <2>4. CASE FreeDesc(t)
    BY <1>0, <1>4, <2>4, ElsewhereTypes DEF FreeDesc, Types, semaphore
  <2>5. CASE Post(t)
    <3>1. Goto(t, "wake") \/ Goto(t, "idle")  BY <2>5 DEF Post
    <3> QED  BY <1>0, <2>5, <3>1, ElsewhereTypes DEF Post, Increment, Types
  <2>6. CASE WakeOne(t)
    BY <1>0, <2>6, ElsewhereTypes DEF WakeOne, Wake, Types
  <2> QED  BY <1>4, <2>1, <2>2, <2>3, <2>4, <2>5, <2>6 DEF Free
<1>5. ASSUME NEW t \in Threads, NEW u \in Threads, HandOver(t, u) PROVE Types'
  <2>1. PICK d \in held[t] :
          /\ held' = [held EXCEPT ![t] = @ \ {d}, ![u] = @ \cup {d}]
          /\ stale' = [stale EXCEPT ![u] = @ \ {d}]
    BY <1>5 DEF HandOver
  <2>2. d \in Descs  BY DEF Types
  <2>3. held' \in [Threads -> SUBSET Descs]  BY <2>1, <2>2 DEF Types
  <2>4. stale' \in [Threads -> SUBSET Descs]  BY <2>1, <2>2 DEF Types
  <2> QED  BY <1>0, <1>5, <2>3, <2>4, SameTypes DEF HandOver, Types
<1> QED  BY <1>1, <1>2, <1>3, <1>4, <1>5 DEF Next, Damage

-----------------------------------------------------------------------------
(* A step in the payload pool, or on the way there and back, touches       *)
(* neither the semaphore nor the descriptors.                              *)
LEMMA PoolSteps ==
  ASSUME NEW t \in Threads, ~Crash,
         \/ Check(t) \/ Grow(t) \/ Unlink(t) \/ CountFree(t)
         \/ NoPayload(t)
         \/ Attach(t) /\ pc[t] = "useUp"
         \/ FreePayload(t)
  PROVE  \E l, m \in Working : Step(t, l, m)
<1> USE DEF Load, Use, Working, Using
<1>1. CASE Check(t)
  <2>1. CASE \E m \in {"none", "empty"} : Step(t, "limit", m)  BY <2>1
  <2>2. CASE \E m \in {"link", "head"} : Step(t, "empty", m)  BY <2>2
  <2>3. CASE Step(t, "check", "limit")  BY <2>3
  <2> QED  BY <1>1, <2>1, <2>2, <2>3 DEF Check
<1>2. CASE Grow(t)  BY <1>2 DEF Grow
<1>3. CASE Unlink(t)  BY <1>3 DEF Unlink
<1>4. CASE CountFree(t)  BY <1>4 DEF CountFree
<1>5. CASE NoPayload(t)  BY <1>5 DEF NoPayload
<1>6. CASE Attach(t) /\ pc[t] = "useUp"  BY <1>6 DEF Attach, In
<1>7. CASE FreePayload(t)  BY <1>7 DEF FreePayload
<1> QED  BY <1>1, <1>2, <1>3, <1>4, <1>5, <1>6, <1>7

LEMMA AttachSteps ==
  ASSUME NEW t \in Threads, Attach(t), pc[t] # "useUp"
  PROVE  /\ pc[t] = "attach" /\ Goto(t, "idle") /\ Give(t, cur[t])
         /\ uiNumInUse' = Inc(reg[t]) /\ attached' = attached \cup {cur[t]}
         /\ UNCHANGED <<semaphore, freeDesc, pxFreelist, uiNumFree, cur, crashed>>
BY DEF Attach, Load, Step, In

LEMMA NextCounted == ASSUME Counted, [Next]_vars PROVE Counted'
<1> USE DEF Labels, Working, Using
<1>0. Types'  BY NextTypes DEF Counted
<1>1. CASE UNCHANGED vars \/ Crash
  BY <1>0, <1>1, StutterBalance DEF vars, pools, callers, Counted, Crash
<1>2. ASSUME NEW t \in Threads, NEW l \in Working, NEW m \in Working, Step(t, l, m)
      PROVE  Balance'
  BY <1>2, ElsewhereBalance DEF Step, In, Goto
<1>3. ASSUME NEW t \in Threads, Allocate(t), ~Crash PROVE Balance'
  <2>1. CASE Attach(t) /\ pc[t] # "useUp"
    BY <2>1, AttachSteps, ElsewhereBalance DEF Goto
  <2>2. CASE \E l, m \in Working : Step(t, l, m)  BY <1>2, <2>2
  <2> QED
    BY <1>3, <2>1, <2>2, PoolSteps, GetBalance, WaitBalance, AllocDescBalance DEF Allocate
<1>4. ASSUME NEW t \in Threads, Free(t), ~Crash PROVE Balance'
  <2>1. CASE Release(t)  BY <2>1, ElsewhereBalance DEF Release, In, Goto, pools
  <2>2. CASE FreePayload(t)  BY <1>2, <1>4, <2>2, PoolSteps
  <2>3. CASE Detach(t)  BY <2>3, ElsewhereBalance DEF Detach, In, Goto
  <2>4. CASE FreeDesc(t)  BY <1>4, <2>4, FreeDescBalance DEF FreeDesc
  <2> QED  BY <1>4, <2>1, <2>2, <2>3, <2>4, PostBalance, WakeBalance DEF Free
<1>5. ASSUME NEW t \in Threads, NEW u \in Threads, HandOver(t, u) PROVE Balance'
  BY <1>5, StutterBalance DEF HandOver, pools
<1> QED  BY <1>0, <1>1, <1>3, <1>4, <1>5 DEF Next, Damage, Counted

(* Types, and never more permits of the semaphore than descriptors.        *)
LEMMA CountedTypeOK == Counted => TypeOK
<1> SUFFICES ASSUME Counted PROVE TypeOK  OBVIOUS
<1>1. Permits <= N /\ Permits \in Nat /\ N \in Nat
  <2>1. /\ Cardinality(Admitted) \in Nat /\ Cardinality(Posting) \in Nat
        /\ Cardinality(freeDesc) <= N /\ N \in Nat
    BY CountsFinite DEF Counted
  <2>2. Permits \in Nat  BY PermitsType DEF Counted
  <2> QED  BY <2>1, <2>2 DEF Counted, Balance
<1>2. value \in Int /\ value <= N /\ xSemaphore \in 0 .. N
  BY <1>1 DEF Counted, Types, Permits
<1> QED  BY <1>1, <1>2 DEF Counted, Types, TypeOK, Labels, Working, Word

(* Whoever the semaphore admits finds a descriptor, with any number of     *)
(* threads and descriptors, even when buffers are released twice.          *)
THEOREM SemaphoreGuardsPool == Spec => [](TypeOK /\ DescriptorAfterSem)
<1>1. Spec => []Counted  BY InitCounted, NextCounted, PTL DEF Spec
<1>2. ASSUME Counted, NEW t \in At({"desc"}) PROVE freeDesc # {}
  <2>1. Admitted # {}  BY <1>2 DEF Admitted
  <2>2. Cardinality(Admitted) # 0  BY <2>1, CountsFinite, FS_EmptySet, <1>2 DEF Counted
  <2>3. Cardinality(freeDesc) # 0
    <3>1. /\ Cardinality(Admitted) \in Nat /\ Cardinality(Posting) \in Nat
          /\ Permits \in Nat
      BY CountsFinite, PermitsType, <1>2 DEF Counted
    <3> QED  BY <1>2, <2>2, <3>1 DEF Counted, Balance
  <2> QED  BY <2>3, FS_EmptySet
<1>3. Counted => DescriptorAfterSem  BY <1>2 DEF DescriptorAfterSem
<1> QED  BY <1>1, <1>3, CountedTypeOK, PTL

(* The variables keep their types, and there are never more permits than   *)
(* descriptors.                                                            *)
THEOREM BuffersTyped == Spec => []TypeOK
BY SemaphoreGuardsPool, PTL

-----------------------------------------------------------------------------
(* What a thread works on it has not been given yet, or holds no more,     *)
(* and, without double releases, nobody points to one it has released.     *)
Giving == \A t \in Threads : /\ pc[t] \in Working => cur[t] \notin held[t]
                             /\ stale[t] = {}

Owners == Types /\ SingleOwner /\ Giving

(* A step of t that touches no other thread, and moves descriptors between *)
(* t and the free list only.                                               *)
LEMMA MoveSingleOwner ==
  ASSUME Owners, NEW t \in Threads,
         \A u \in Threads \ {t} : pc'[u] = pc[u] /\ cur'[u] = cur[u] /\ held'[u] = held[u],
         Owned(t)' \subseteq Owned(t) \cup (freeDesc \ freeDesc'),
         freeDesc' \subseteq freeDesc \cup (Owned(t) \ Owned(t)')
  PROVE  SingleOwner'
<1>1. \A u \in Threads \ {t} : Owned(u)' = Owned(u)  BY DEF Owned, At
<1> QED  BY <1>1 DEF Owners, SingleOwner

(* Giving a descriptor to t leaves no stale pointer where there was none. *)
LEMMA GiveStale ==
  ASSUME Types, Giving, NEW t \in Threads, NEW d, Give(t, d)
  PROVE  \A u \in Threads : stale'[u] = {}
BY DEF Types, Giving, Give

(* What a thread that works on a descriptor owns, and what others do.      *)
LEMMA OwnedWorking ==
  \A t \in Threads : Owned(t) = held[t] \cup IF pc[t] \in Working THEN {cur[t]} ELSE {}
BY DEF Owned, At, Working

LEMMA OwnedWorkingNext ==
  \A t \in Threads : Owned(t)' = held'[t] \cup IF pc'[t] \in Working THEN {cur'[t]} ELSE {}
BY DEF Owned, At, Working

LEMMA AllocSteps ==
  ASSUME Owners, NEW t \in Threads, AllocDesc(t)
  PROVE  \E d \in freeDesc :
           /\ freeDesc' = freeDesc \ {d} /\ cur'[t] = d /\ d \notin held[t] /\ pc[t] = "desc"
           /\ \/ pc'[t] = "check" /\ held'[t] = held[t]
              \/ pc'[t] = "idle" /\ held'[t] = held[t] \cup {d}
           /\ \A u \in Threads \ {t} : pc'[u] = pc[u] /\ cur'[u] = cur[u] /\ held'[u] = held[u]
           /\ \A u \in Threads : stale'[u] = {}
<1> USE DEF Owners, Labels, Working, Using
<1>1. PICK d \in freeDesc : /\ freeDesc' = freeDesc \ {d}
                            /\ cur' = [cur EXCEPT ![t] = d] /\ Got(t, d)
  BY DEF AllocDesc
<1>2. cur'[t] = d /\ \A u \in Threads \ {t} : cur'[u] = cur[u]  BY <1>1 DEF Types
<1>3. d \notin held[t]  BY DEF SingleOwner, Owned
<1>4. pc[t] = "desc"  BY DEF AllocDesc, In
<1>5. CASE Goto(t, "check") /\ UNCHANGED <<held, stale>>
  <2>1. pc'[t] = "check" /\ \A u \in Threads \ {t} : pc'[u] = pc[u]  BY <1>5, OnlyMoves
  <2> QED  BY <1>1, <1>2, <1>3, <1>4, <1>5, <2>1 DEF Giving
<1>6. CASE Goto(t, "idle") /\ Give(t, d)
  <2>1. pc'[t] = "idle" /\ \A u \in Threads \ {t} : pc'[u] = pc[u]  BY <1>6, OnlyMoves
  <2>2. held'[t] = held[t] \cup {d} /\ \A u \in Threads \ {t} : held'[u] = held[u]
    BY <1>6 DEF Give, Types
  <2>3. \A u \in Threads : stale'[u] = {}  BY <1>6, GiveStale
  <2> QED  BY <1>1, <1>2, <1>3, <1>4, <2>1, <2>2, <2>3
<1> QED  BY <1>1, <1>5, <1>6 DEF Got

LEMMA ReleaseSteps ==
  ASSUME Owners, NEW t \in Threads, Release(t), DoubleReleasers = {}
  PROVE  \E d \in held[t] :
           /\ pc[t] = "idle" /\ pc'[t] = "freePayload" /\ cur'[t] = d
           /\ held' = [held EXCEPT ![t] = @ \ {d}] /\ held'[t] = held[t] \ {d}
           /\ \A u \in Threads \ {t} : pc'[u] = pc[u] /\ cur'[u] = cur[u] /\ held'[u] = held[u]
           /\ freeDesc' = freeDesc /\ stale' = stale
<1> USE DEF Owners
<1>1. PICK d \in held[t] : /\ cur' = [cur EXCEPT ![t] = d]
                           /\ held' = [held EXCEPT ![t] = @ \ {d}] /\ stale' = stale
  BY DEF Release, Giving
<1>2. pc'[t] = "freePayload" /\ \A u \in Threads \ {t} : pc'[u] = pc[u]
  BY OnlyMoves DEF Release, Labels, Working
<1>3. /\ cur'[t] = d /\ held'[t] = held[t] \ {d}
      /\ \A u \in Threads \ {t} : cur'[u] = cur[u] /\ held'[u] = held[u]
  BY <1>1 DEF Types
<1>4. pc[t] = "idle" /\ freeDesc' = freeDesc  BY DEF Release, In, pools
<1> QED  BY <1>1, <1>2, <1>3, <1>4

LEMMA PassSteps ==
  ASSUME Owners, NEW t \in Threads, NEW u \in Threads, t # u, HandOver(t, u)
  PROVE  \E d \in held[t] :
           /\ held' = [held EXCEPT ![t] = @ \ {d}, ![u] = @ \cup {d}]
           /\ held'[t] = held[t] \ {d} /\ held'[u] = held[u] \cup {d}
           /\ \A v \in Threads \ {t, u} : held'[v] = held[v]
           /\ pc[t] = "idle" /\ pc[u] = "idle" /\ UNCHANGED <<pc, cur, freeDesc>>
           /\ \A v \in Threads : stale'[v] = {}
<1> USE DEF Owners
<1>1. PICK d \in held[t] : /\ held' = [held EXCEPT ![t] = @ \ {d}, ![u] = @ \cup {d}]
                           /\ stale' = [stale EXCEPT ![u] = @ \ {d}]
  BY DEF HandOver
<1>2. /\ held'[t] = held[t] \ {d} /\ held'[u] = held[u] \cup {d}
      /\ \A v \in Threads \ {t, u} : held'[v] = held[v]
  BY <1>1 DEF Types
<1>3. pc[t] = "idle" /\ pc[u] = "idle" /\ UNCHANGED <<pc, cur, freeDesc>>
  BY DEF HandOver, In, pools
<1>4. \A v \in Threads : stale'[v] = {}  BY <1>1 DEF Types, Giving
<1> QED  BY <1>1, <1>2, <1>3, <1>4

LEMMA NextOwners ==
  ASSUME Owners, Types', DoubleReleasers = {}, [Next]_vars
  PROVE  SingleOwner' /\ Giving'
<1> USE DEF Owners
<1>1. CASE UNCHANGED <<pc, cur, held, stale, freeDesc>>
  BY <1>1 DEF SingleOwner, Giving, Owned, At
<1>2. ASSUME NEW t \in Threads, NEW l \in Labels, Goto(t, l),
             pc[t] \notin Working, l \notin Working, UNCHANGED <<cur, held, stale, freeDesc>>
      PROVE  SingleOwner' /\ Giving'
  <2>1. pc'[t] = l /\ \A u \in Threads \ {t} : pc'[u] = pc[u]  BY <1>2, OnlyMoves
  <2>2. Owned(t)' = Owned(t)  BY <1>2, <2>1, OwnedWorking, OwnedWorkingNext
  <2> QED  BY <1>2, <2>1, <2>2, MoveSingleOwner DEF Giving
<1>3. ASSUME NEW t \in Threads, Get(t) \/ Wait(t) \/ Post(t) \/ WakeOne(t)
      PROVE  SingleOwner' /\ Giving'
  <2>1. /\ \E l \in {"idle", "take", "desc", "wake"} : Goto(t, l)
        /\ pc[t] \in {"idle", "take", "post", "wake"} /\ UNCHANGED <<cur, held, stale, freeDesc>>
    BY <1>3 DEF Get, Wait, Post, WakeOne, In
  <2> QED  BY <1>2, <2>1 DEF Labels, Working, Using
<1>4. ASSUME NEW t \in Threads, AllocDesc(t) PROVE SingleOwner' /\ Giving'
  <2>1. PICK d \in freeDesc :
           /\ freeDesc' = freeDesc \ {d} /\ cur'[t] = d /\ d \notin held[t] /\ pc[t] = "desc"
           /\ \/ pc'[t] = "check" /\ held'[t] = held[t]
              \/ pc'[t] = "idle" /\ held'[t] = held[t] \cup {d}
           /\ \A u \in Threads \ {t} : pc'[u] = pc[u] /\ cur'[u] = cur[u] /\ held'[u] = held[u]
           /\ \A u \in Threads : stale'[u] = {}
    BY <1>4, AllocSteps
  <2>2. Owned(t)' \subseteq Owned(t) \cup {d}  BY <2>1, OwnedWorking, OwnedWorkingNext
  <2>3. SingleOwner'  BY <2>1, <2>2, MoveSingleOwner
  <2> QED  BY <2>1, <2>3 DEF Giving, Working, Using
<1>5. ASSUME NEW t \in Threads, NEW l \in Working, NEW m \in Working, Step(t, l, m)
      PROVE  SingleOwner' /\ Giving'
  <2>1. pc'[t] = m /\ \A u \in Threads \ {t} : pc'[u] = pc[u]
    BY <1>5, OnlyMoves DEF Step, Labels
  <2>2. pc[t] = l /\ UNCHANGED <<cur, held, stale, freeDesc>>  BY <1>5 DEF Step, In
  <2>3. Owned(t)' = Owned(t)  BY <2>1, <2>2, OwnedWorking, OwnedWorkingNext
  <2> QED  BY <2>1, <2>2, <2>3, MoveSingleOwner DEF Giving
<1>6. ASSUME NEW t \in Threads, Attach(t), pc[t] # "useUp" PROVE SingleOwner' /\ Giving'
  <2>1. /\ pc[t] = "attach" /\ UNCHANGED <<freeDesc, cur>> /\ Goto(t, "idle") /\ Give(t, cur[t])
    BY <1>6, AttachSteps
  <2>2. pc'[t] = "idle" /\ \A u \in Threads \ {t} : pc'[u] = pc[u]
    BY <2>1, OnlyMoves DEF Labels
  <2>3. /\ \A u \in Threads \ {t} : held'[u] = held[u]
        /\ held'[t] = held[t] \cup {cur[t]}
    BY <2>1 DEF Give, Types
  <2>4. \A u \in Threads : stale'[u] = {}  BY <2>1, GiveStale
  <2>5. pc[t] \in Working /\ pc'[t] \notin Working  BY <2>1, <2>2 DEF Working, Using
  <2>6. Owned(t)' = Owned(t)  BY <2>1, <2>3, <2>5, OwnedWorking, OwnedWorkingNext
  <2>7. SingleOwner'  BY <2>1, <2>2, <2>3, <2>6, MoveSingleOwner
  <2> QED  BY <2>1, <2>2, <2>3, <2>4, <2>5, <2>7 DEF Giving
<1>7. ASSUME NEW t \in Threads, Release(t) PROVE SingleOwner' /\ Giving'
  <2>1. PICK d \in held[t] :
           /\ pc[t] = "idle" /\ pc'[t] = "freePayload" /\ cur'[t] = d
           /\ held' = [held EXCEPT ![t] = @ \ {d}] /\ held'[t] = held[t] \ {d}
           /\ \A u \in Threads \ {t} : pc'[u] = pc[u] /\ cur'[u] = cur[u] /\ held'[u] = held[u]
           /\ freeDesc' = freeDesc /\ stale' = stale
    BY <1>7, ReleaseSteps
  <2>2. Owned(t)' \subseteq Owned(t)  BY <2>1, OwnedWorking, OwnedWorkingNext
  <2>3. SingleOwner'  BY <2>1, <2>2, MoveSingleOwner
  <2> QED  BY <2>1, <2>3 DEF Giving
<1>8. ASSUME NEW t \in Threads, Detach(t) PROVE SingleOwner' /\ Giving'
  <2>1. pc[t] = "useDown" /\ Goto(t, "freeDesc") /\ UNCHANGED <<cur, held, stale, freeDesc>>
    BY <1>8 DEF Detach, In
  <2>2. pc'[t] = "freeDesc" /\ \A u \in Threads \ {t} : pc'[u] = pc[u]
    BY <2>1, OnlyMoves DEF Labels, Working
  <2>3. pc[t] \in Working /\ pc'[t] \in Working  BY <2>1, <2>2 DEF Working, Using
  <2>4. Owned(t)' = Owned(t)  BY <2>1, <2>3, OwnedWorking, OwnedWorkingNext
  <2> QED  BY <2>1, <2>2, <2>3, <2>4, MoveSingleOwner DEF Giving
<1>9. ASSUME NEW t \in Threads, FreeDesc(t), ~Crash PROVE SingleOwner' /\ Giving'
  <2>1. /\ pc[t] = "freeDesc" /\ UNCHANGED <<cur, held, stale>>
        /\ freeDesc' = freeDesc \cup {cur[t]} /\ Goto(t, "post")
    BY <1>9 DEF FreeDesc, In
  <2>2. pc'[t] = "post" /\ \A u \in Threads \ {t} : pc'[u] = pc[u]
    BY <2>1, OnlyMoves DEF Labels
  <2>3. pc[t] \in Working /\ pc'[t] \notin Working  BY <2>1, <2>2 DEF Working, Using
  <2>4. Owned(t)' = held[t] /\ Owned(t) = held[t] \cup {cur[t]} /\ cur[t] \notin held[t]
    BY <2>1, <2>3, OwnedWorking, OwnedWorkingNext DEF Giving
  <2> QED  BY <2>1, <2>2, <2>3, <2>4, MoveSingleOwner DEF Giving
<1>10. ASSUME NEW t \in Threads, NEW u \in Threads, t # u, HandOver(t, u)
       PROVE  SingleOwner' /\ Giving'
  <2>1. PICK d \in held[t] :
           /\ held' = [held EXCEPT ![t] = @ \ {d}, ![u] = @ \cup {d}]
           /\ held'[t] = held[t] \ {d} /\ held'[u] = held[u] \cup {d}
           /\ \A v \in Threads \ {t, u} : held'[v] = held[v]
           /\ pc[t] = "idle" /\ pc[u] = "idle" /\ UNCHANGED <<pc, cur, freeDesc>>
           /\ \A v \in Threads : stale'[v] = {}
    BY <1>10, PassSteps
  <2>2. "idle" \notin Working  BY DEF Working, Using
  <2>3. /\ Owned(t)' = Owned(t) \ {d} /\ Owned(u)' = Owned(u) \cup {d} /\ d \in Owned(t)
        /\ \A v \in Threads \ {t, u} : Owned(v)' = Owned(v)
    <3>1. Owned(t) = held[t] /\ Owned(u) = held[u]  BY <2>1, <2>2, OwnedWorking
    <3>2. pc' = pc /\ cur' = cur  BY <2>1
    <3>3. Owned(t)' = held'[t] /\ Owned(u)' = held'[u]
      BY <2>1, <3>2 DEF Owned, At, Using
    <3>4. \A v \in Threads \ {t, u} : Owned(v)' = Owned(v)
      BY <2>1, <3>2 DEF Owned, At
    <3> QED  BY <2>1, <3>1, <3>3, <3>4
  <2>4. SingleOwner'  BY <2>1, <2>3 DEF SingleOwner
  <2> QED  BY <2>1, <2>2, <2>4 DEF Giving
<1>11. CASE Crash \/ UNCHANGED vars
  BY <1>1, <1>11 DEF Crash, vars, pools, callers
<1>12. ASSUME NEW t \in Threads, Allocate(t) PROVE SingleOwner' /\ Giving'
  BY <1>3, <1>4, <1>5, <1>6, <1>11, <1>12, PoolSteps DEF Allocate
<1>13. ASSUME NEW t \in Threads, Free(t) PROVE SingleOwner' /\ Giving'
  BY <1>3, <1>5, <1>7, <1>8, <1>9, <1>11, <1>13, PoolSteps DEF Free
<1> QED  BY <1>10, <1>11, <1>12, <1>13 DEF Next, Damage

LEMMA InitOwners == Init => SingleOwner /\ Giving
<1> SUFFICES ASSUME Init PROVE SingleOwner /\ Giving  OBVIOUS
<1>1. \A t \in Threads : pc[t] \notin Working /\ held[t] = {} /\ stale[t] = {}
  BY DEF Init, Working, Using
<1> QED  BY <1>1, OwnedWorking DEF SingleOwner, Giving

LEMMA OwnersAlways == DoubleReleasers = {} => (Spec => []Owners)
<1> SUFFICES ASSUME DoubleReleasers = {} PROVE Spec => []Owners  OBVIOUS
<1>1. Init => Owners  BY InitOwners, InitCounted DEF Owners, Counted
<1>2. Owners /\ [Next]_vars => Owners'  BY NextOwners, NextTypes DEF Owners
<1> QED  BY <1>1, <1>2, PTL DEF Spec

(* Without double releases a descriptor has one owner, or is free, however *)
(* the calls, the hand-overs and the failed allocations interleave.        *)
THEOREM DescriptorOwnership == DoubleReleasers = {} => (Spec => []SingleOwner)
<1> SUFFICES ASSUME DoubleReleasers = {} PROVE Spec => []SingleOwner  OBVIOUS
<1>1. Owners => SingleOwner  BY DEF Owners
<1> QED  BY <1>1, OwnersAlways, PTL

-----------------------------------------------------------------------------
(* A thread is given a descriptor that it does not own alone already only  *)
(* if nobody holds it.                                                     *)
LEMMA GiveIsAllocate ==
  ASSUME Owners, NEW t \in Threads, NEW d \in Descs, Give(t, d),
         d \in freeDesc \/ (d \in Owned(t) /\ d \notin held[t])
  PROVE  Pool!Allocate(t)
<1>1. \A u \in Threads : d \notin held[u]
  BY DEF Owners, SingleOwner, Owned
<1>2. held' = [held EXCEPT ![t] = @ \cup {d}]  BY DEF Give
<1> QED  BY <1>1, <1>2 DEF Pool!Allocate

(* A step of a thread other than handing over is a stutter of the pool, or *)
(* takes or gives up a descriptor.                                         *)
LEMMA ThreadSteps ==
  ASSUME Owners, DoubleReleasers = {}, NEW t \in Threads, Allocate(t) \/ Free(t)
  PROVE  UNCHANGED held \/ Pool!Allocate(t) \/ Pool!Release(t)
<1>1. ASSUME AllocDesc(t), ~UNCHANGED held PROVE Pool!Allocate(t)
  <2>1. PICK d \in freeDesc : Give(t, d)  BY <1>1 DEF AllocDesc, Got
  <2> QED  BY <2>1, GiveIsAllocate DEF Owners, Types
<1>2. ASSUME Attach(t), ~UNCHANGED held PROVE Pool!Allocate(t)
  <2>1. pc[t] = "attach" /\ Give(t, cur[t])  BY <1>2 DEF Attach, Load, Step, In
  <2>2. /\ cur[t] \in Owned(t) /\ cur[t] \notin held[t] /\ cur[t] \in Descs
    BY <2>1, OwnedWorking DEF Working, Using, Owners, Giving, Types
  <2> QED  BY <2>1, <2>2, GiveIsAllocate
<1>3. ASSUME Release(t) PROVE Pool!Release(t)
  BY <1>3, ReleaseSteps DEF Pool!Release
<1>4. CASE Crash  BY <1>4 DEF Crash, callers
<1>5. ASSUME NEW l \in Working, NEW m \in Working, Step(t, l, m) PROVE UNCHANGED held
  BY <1>5 DEF Step
<1>6. ASSUME \/ Get(t) \/ Wait(t) \/ WakeOne(t) \/ Detach(t) \/ FreeDesc(t) \/ Post(t)
      PROVE  UNCHANGED held
  BY <1>6 DEF Get, Wait, WakeOne, Detach, FreeDesc, Post, Crash, callers
<1> QED  BY <1>1, <1>2, <1>3, <1>4, <1>5, <1>6, PoolSteps DEF Allocate, Free

(* Threads are clients of the abstract pool: each descriptor is given to   *)
(* one thread, which gives it up or passes it on through the event queue.  *)
THEOREM DescriptorsRefinePool == DoubleReleasers = {} => (Spec => DescriptorPool)
<1> SUFFICES ASSUME DoubleReleasers = {} PROVE Spec => DescriptorPool  OBVIOUS
<1>1. Init => Pool!Init  BY DEF Init, Pool!Init
<1>2. ASSUME Owners, [Next]_vars PROVE [Pool!Next]_held
  <2>1. CASE UNCHANGED vars \/ Crash  BY <2>1 DEF vars, callers, Crash
  <2>2. ASSUME NEW t \in Threads, Allocate(t) \/ Free(t) PROVE [Pool!Next]_held
    <3>1. UNCHANGED held \/ Pool!Allocate(t) \/ Pool!Release(t)
      BY <1>2, <2>2, ThreadSteps
    <3> QED  BY <3>1 DEF Pool!Next
  <2>3. ASSUME NEW t \in Threads, NEW u \in Threads, t # u, HandOver(t, u)
        PROVE  Pool!Pass(t, u)
    BY <2>3 DEF HandOver, Pool!Pass
  <2> QED  BY <1>2, <2>1, <2>2, <2>3 DEF Next, Damage, Pool!Next
<1> QED  BY <1>1, <1>2, OwnersAlways, PTL DEF Spec, DescriptorPool, Pool!Spec

-----------------------------------------------------------------------------
(* No descriptor is lost on the way: it is free or somebody's. *)
Covered == \A d \in Descs : d \in freeDesc \/ \E t \in Threads : d \in Owned(t)

(* A step of t that moves descriptors between t and the free list only. *)
LEMMA MoveCovered ==
  ASSUME Covered, NEW t \in Threads,
         \A u \in Threads \ {t} : pc'[u] = pc[u] /\ cur'[u] = cur[u] /\ held'[u] = held[u],
         Owned(t) \subseteq Owned(t)' \cup freeDesc',
         freeDesc \subseteq Owned(t)' \cup freeDesc'
  PROVE  Covered'
<1>1. \A u \in Threads \ {t} : Owned(u)' = Owned(u)  BY DEF Owned, At
<1> QED  BY <1>1 DEF Covered

LEMMA NextCovered == ASSUME Owners, Covered, DoubleReleasers = {}, [Next]_vars PROVE Covered'
<1> USE DEF Owners
<1>1. CASE UNCHANGED <<pc, cur, held, freeDesc>>
  BY <1>1 DEF Covered, Owned, At
<1>2. ASSUME NEW t \in Threads, NEW l \in Labels, Goto(t, l), UNCHANGED <<cur, held, freeDesc>>,
             pc[t] \in Working => l \in Working
      PROVE  Covered'
  <2>1. pc'[t] = l /\ \A u \in Threads \ {t} : pc'[u] = pc[u]  BY <1>2, OnlyMoves
  <2>2. Owned(t) \subseteq Owned(t)'  BY <1>2, <2>1, OwnedWorking, OwnedWorkingNext
  <2> QED  BY <1>2, <2>1, <2>2, MoveCovered
<1>3. ASSUME NEW t \in Threads, Get(t) \/ Wait(t) \/ Post(t) \/ WakeOne(t) PROVE Covered'
  <2>1. /\ \E l \in {"idle", "take", "desc", "wake"} : Goto(t, l)
        /\ pc[t] \in {"idle", "take", "post", "wake"} /\ UNCHANGED <<cur, held, freeDesc>>
    BY <1>3 DEF Get, Wait, Post, WakeOne, In
  <2> QED  BY <1>2, <2>1 DEF Labels, Working, Using
<1>4. ASSUME NEW t \in Threads, AllocDesc(t) PROVE Covered'
  <2>1. PICK d \in freeDesc :
           /\ freeDesc' = freeDesc \ {d} /\ cur'[t] = d /\ d \notin held[t] /\ pc[t] = "desc"
           /\ \/ pc'[t] = "check" /\ held'[t] = held[t]
              \/ pc'[t] = "idle" /\ held'[t] = held[t] \cup {d}
           /\ \A u \in Threads \ {t} : pc'[u] = pc[u] /\ cur'[u] = cur[u] /\ held'[u] = held[u]
           /\ \A u \in Threads : stale'[u] = {}
    BY <1>4, AllocSteps
  <2>2. "desc" \notin Working /\ "check" \in Working  BY DEF Working, Using
  <2>3. Owned(t)' = Owned(t) \cup {d}
    BY <2>1, <2>2, OwnedWorking, OwnedWorkingNext DEF Working, Using
  <2> QED  BY <2>1, <2>3, MoveCovered
<1>5. ASSUME NEW t \in Threads, NEW l \in Working, NEW m \in Working, Step(t, l, m)
      PROVE  Covered'
  BY <1>2, <1>5 DEF Step, Labels
<1>6. ASSUME NEW t \in Threads, Attach(t), pc[t] # "useUp" PROVE Covered'
  <2>1. /\ UNCHANGED <<freeDesc, cur>> /\ Goto(t, "idle") /\ Give(t, cur[t])
    BY <1>6, AttachSteps
  <2>2. \A u \in Threads \ {t} : pc'[u] = pc[u]  BY <2>1, OnlyMoves DEF Labels
  <2>3. /\ \A u \in Threads \ {t} : held'[u] = held[u]
        /\ held'[t] = held[t] \cup {cur[t]}
    BY <2>1 DEF Give, Types
  <2>4. Owned(t) \subseteq Owned(t)'  BY <2>3, OwnedWorking, OwnedWorkingNext
  <2> QED  BY <2>1, <2>2, <2>3, <2>4, MoveCovered
<1>7. ASSUME NEW t \in Threads, Release(t) PROVE Covered'
  <2>1. PICK d \in held[t] :
           /\ pc[t] = "idle" /\ pc'[t] = "freePayload" /\ cur'[t] = d
           /\ held' = [held EXCEPT ![t] = @ \ {d}] /\ held'[t] = held[t] \ {d}
           /\ \A u \in Threads \ {t} : pc'[u] = pc[u] /\ cur'[u] = cur[u] /\ held'[u] = held[u]
           /\ freeDesc' = freeDesc /\ stale' = stale
    BY <1>7, ReleaseSteps
  <2>2. pc[t] \notin Working /\ pc'[t] \in Working  BY <2>1 DEF Working, Using
  <2>3. Owned(t) = held[t] /\ Owned(t)' = held'[t] \cup {d}
    BY <2>1, <2>2, OwnedWorking, OwnedWorkingNext
  <2>4. Owned(t)' = Owned(t)  BY <2>1, <2>3
  <2> QED  BY <2>1, <2>4, MoveCovered
<1>8. ASSUME NEW t \in Threads, Detach(t) PROVE Covered'
  <2>1. Goto(t, "freeDesc") /\ UNCHANGED <<cur, held, freeDesc>>  BY <1>8 DEF Detach
  <2> QED  BY <1>2, <2>1 DEF Labels, Working
<1>9. ASSUME NEW t \in Threads, FreeDesc(t), ~Crash PROVE Covered'
  <2>1. /\ pc[t] = "freeDesc" /\ UNCHANGED <<cur, held>>
        /\ freeDesc' = freeDesc \cup {cur[t]} /\ Goto(t, "post")
    BY <1>9 DEF FreeDesc, In
  <2>2. \A u \in Threads \ {t} : pc'[u] = pc[u]  BY <2>1, OnlyMoves DEF Labels
  <2>3. Owned(t) \subseteq Owned(t)' \cup freeDesc'
    BY <2>1, OwnedWorking, OwnedWorkingNext
  <2> QED  BY <2>1, <2>2, <2>3, MoveCovered
<1>10. ASSUME NEW t \in Threads, NEW u \in Threads, t # u, HandOver(t, u) PROVE Covered'
  <2>1. PICK d \in held[t] :
           /\ held' = [held EXCEPT ![t] = @ \ {d}, ![u] = @ \cup {d}]
           /\ held'[t] = held[t] \ {d} /\ held'[u] = held[u] \cup {d}
           /\ \A v \in Threads \ {t, u} : held'[v] = held[v]
           /\ pc[t] = "idle" /\ pc[u] = "idle" /\ UNCHANGED <<pc, cur, freeDesc>>
           /\ \A v \in Threads : stale'[v] = {}
    BY <1>10, PassSteps
  <2>2. pc' = pc /\ cur' = cur /\ freeDesc' = freeDesc  BY <2>1
  <2>3. Owned(t) \subseteq Owned(t)' \cup {d}
    BY <2>1, <2>2 DEF Owned, At
  <2>4. Owned(u) \cup {d} \subseteq Owned(u)'
    BY <2>1, <2>2 DEF Owned, At
  <2>5. \A v \in Threads \ {t, u} : Owned(v)' = Owned(v)
    BY <2>1, <2>2 DEF Owned, At
  <2> QED  BY <2>2, <2>3, <2>4, <2>5 DEF Covered
<1>11. CASE Crash \/ UNCHANGED vars
  BY <1>1, <1>11 DEF Crash, vars, pools, callers
<1>12. ASSUME NEW t \in Threads, Allocate(t) PROVE Covered'
  BY <1>3, <1>4, <1>5, <1>6, <1>11, <1>12, PoolSteps DEF Allocate
<1>13. ASSUME NEW t \in Threads, Free(t) PROVE Covered'
  BY <1>3, <1>5, <1>7, <1>8, <1>9, <1>11, <1>13, PoolSteps DEF Free
<1> QED  BY <1>10, <1>11, <1>12, <1>13 DEF Next, Damage

(* With no call under way the free descriptors are those that nobody       *)
(* holds, and the semaphore has a permit for each.                         *)
LEMMA NobodyLost ==
  ASSUME Counted, SingleOwner, Covered, At({"idle"}) = Threads
  PROVE  Permits = N - Cardinality(UNION {held[t] : t \in Threads})
<1> DEFINE inUse == UNION {held[t] : t \in Threads}
<1>1. Admitted = {} /\ Posting = {}  BY DEF Admitted, Posting, At
<1>2. \A t \in Threads : Owned(t) = held[t]
  <2>1. \A t \in Threads : pc[t] \notin Working  BY DEF At, Working, Using
  <2> QED  BY <2>1, OwnedWorking
<1>3. inUse = Descs \ freeDesc
  <2>1. \A d \in Descs \ freeDesc : d \in inUse  BY <1>2 DEF Covered
  <2>2. \A d \in inUse : d \in Descs \ freeDesc  BY <1>2 DEF SingleOwner, Counted, Types
  <2> QED  BY <2>1, <2>2
<1>4. Cardinality(freeDesc) = Permits
  <2>1. Cardinality(Admitted) = 0 /\ Cardinality(Posting) = 0  BY <1>1, FS_EmptySet
  <2>2. Permits \in Nat  BY PermitsType DEF Counted
  <2> QED  BY <2>1, <2>2 DEF Counted, Balance
<1>5. Cardinality(Descs \ freeDesc) = N - Cardinality(freeDesc)
  <2>1. IsFiniteSet(Descs) /\ freeDesc \subseteq Descs
    BY NetBuffersAssumption DEF Counted, Types
  <2>2. Cardinality(Descs \ freeDesc) = Cardinality(Descs) - Cardinality(Descs \cap freeDesc)
    BY <2>1, FS_Difference
  <2>3. Descs \cap freeDesc = freeDesc  BY <2>1
  <2> QED  BY <2>2, <2>3 DEF N
<1>6. Cardinality(inUse) \in Nat /\ Cardinality(freeDesc) \in Nat /\ N \in Nat
  <2>1. IsFiniteSet(Descs \ freeDesc)
    BY NetBuffersAssumption, FS_Subset
  <2> QED  BY <1>3, <2>1, FS_CardinalityType, CountsFinite DEF Counted
<1>7. Cardinality(inUse) = N - Cardinality(freeDesc)  BY <1>3, <1>5
<1>8. Permits = N - Cardinality(inUse)
  <2> HIDE DEF inUse
  <2> QED  BY <1>4, <1>6, <1>7
<1> QED  BY <1>8

(* No failed allocation and no failed wait costs the semaphore a permit or *)
(* the pool a descriptor, for any number of threads and descriptors.       *)
THEOREM DescriptorsKept == DoubleReleasers = {} => (Spec => []NothingLeaks)
<1> SUFFICES ASSUME DoubleReleasers = {} PROVE Spec => []NothingLeaks  OBVIOUS
<1> DEFINE Inv == Counted /\ SingleOwner /\ Giving /\ Covered
<1>1. Init => Inv
  <2>1. Init => Covered  BY DEF Init, NewPool, Covered
  <2> QED  BY <2>1, InitOwners, InitCounted
<1>2. ASSUME Inv, [Next]_vars PROVE Inv'
  <2>1. Counted' /\ Types'  BY <1>2, NextCounted, NextTypes DEF Counted
  <2>2. SingleOwner' /\ Giving'  BY <1>2, <2>1, NextOwners DEF Owners, Counted
  <2>3. Covered'  BY <1>2, NextCovered DEF Counted, Owners
  <2> QED  BY <2>1, <2>2, <2>3
<1>3. Inv => NothingLeaks  BY NobodyLost DEF NothingLeaks
<1> QED  BY <1>1, <1>2, <1>3, PTL DEF Spec

-----------------------------------------------------------------------------
(* A descriptor has a payload only while somebody holds it or frees it.    *)
AttachedAt(t) ==
  /\ pc[t] \in (Using \ {"useDown"}) \cup {"check", "none", "freeDesc"} => cur[t] \notin attached
  /\ pc[t] = "useDown" => cur[t] \in attached

Attachments == /\ freeDesc \cap attached = {}
               /\ \A t \in Threads : AttachedAt(t)

(* What the payload pool and the copy of the only thread in it are then.   *)
ExactAt(t) ==
  /\ pc[t] \in {"limit", "empty", "link", "publish", "freeUp", "freed", "useUp", "attach",
                "useDown"} => uiNumFree = 0
  /\ pc[t] \in {"head", "unlink", "freeDown", "taken"} => uiNumFree = 1
  /\ pc[t] \in {"limit", "empty", "link", "publish", "freeDown", "taken", "useUp", "attach",
                "useDown"} => pxFreelist = 0
  /\ pc[t] \in {"freeUp", "freed", "head", "unlink"} => pxFreelist = 1
  /\ pc[t] \in {"publish", "freed"} => reg[t] = 0
  /\ pc[t] \in {"unlink", "taken"} => reg[t] = 1
  /\ pc[t] \in {"limit", "attach", "useDown"} => reg[t] = uiNumInUse

Exact == /\ \A t, u \in At(Using) : t = u
         /\ \A t \in Threads : ExactAt(t)
         /\ At(Using) = {} => uiNumFree = 0 /\ pxFreelist = 0
         /\ uiNumInUse = Cardinality(attached)
         /\ \A t \in Threads : pc[t] # "none"
         /\ ~crashed

(* What a thread does with its own descriptor is no matter of the others.  *)
LEMMA OthersAttached ==
  ASSUME Owners, Attachments, NEW t \in Threads,
         \A u \in Threads \ {t} : pc'[u] = pc[u] /\ cur'[u] = cur[u],
         \A d \in Descs \ (Owned(t) \cup freeDesc) : d \in attached' <=> d \in attached,
         attached' \cap freeDesc = {}, freeDesc' \cap attached' = {}, AttachedAt(t)'
  PROVE  Attachments'
<1> SUFFICES ASSUME NEW u \in Threads \ {t} PROVE AttachedAt(u)'  BY DEF Attachments
<1>1. CASE pc[u] \in Working
  <2>1. cur[u] \in Owned(u) /\ cur[u] \in Descs
    BY <1>1, OwnedWorking DEF Owners, Types
  <2>2. cur[u] \notin Owned(t) \cup freeDesc  BY <2>1 DEF Owners, SingleOwner
  <2>3. cur'[u] \in attached' <=> cur[u] \in attached  BY <2>1, <2>2
  <2> QED  BY <2>3 DEF Attachments, AttachedAt
<1>2. CASE pc[u] \notin Working  BY <1>2 DEF AttachedAt, Working, Using
<1> QED  BY <1>1, <1>2

LEMMA NextAttachments ==
  ASSUME Owners, Attachments, DoubleReleasers = {}, [Next]_vars
  PROVE  Attachments'
<1> USE DEF Owners
<1>1. CASE UNCHANGED <<pc, cur, attached, freeDesc>>
  BY <1>1 DEF Attachments, AttachedAt
<1>2. CASE Crash \/ UNCHANGED vars
  BY <1>1, <1>2 DEF Crash, vars, pools, callers
<1>3. ASSUME NEW t \in Threads, NEW l \in Labels, Goto(t, l), UNCHANGED <<attached, freeDesc>>,
             \A u \in Threads \ {t} : cur'[u] = cur[u],
             l \in Labels \ ((Using \ {"useDown"}) \cup {"check", "none", "freeDesc", "useDown"})
      PROVE  Attachments'
  <2>1. pc'[t] = l /\ \A u \in Threads \ {t} : pc'[u] = pc[u]  BY <1>3, OnlyMoves
  <2>2. AttachedAt(t)'  BY <1>3, <2>1 DEF AttachedAt
  <2> QED  BY <1>3, <2>1, <2>2, OthersAttached DEF Attachments
<1>4. ASSUME NEW t \in Threads, Get(t) \/ Wait(t) \/ Post(t) \/ WakeOne(t) \/ Release(t)
      PROVE  Attachments'
  <2>1. \E l \in {"idle", "take", "desc", "wake", "freePayload"} : Goto(t, l)
    BY <1>4 DEF Get, Wait, Post, WakeOne, Release
  <2>2. /\ UNCHANGED <<attached, freeDesc>> /\ \A u \in Threads \ {t} : cur'[u] = cur[u]
    BY <1>4 DEF Get, Wait, Post, WakeOne, Release, Types, pools
  <2> QED  BY <1>3, <2>1, <2>2 DEF Labels, Working, Using
<1>5. ASSUME NEW t \in Threads, AllocDesc(t) PROVE Attachments'
  <2>1. PICK d \in freeDesc : /\ freeDesc' = freeDesc \ {d} /\ attached' = attached \ {d}
                              /\ cur' = [cur EXCEPT ![t] = d] /\ Got(t, d)
    BY <1>5 DEF AllocDesc
  <2>2. attached' = attached  BY <2>1 DEF Attachments
  <2>3. cur'[t] = d /\ \A u \in Threads \ {t} : cur'[u] = cur[u]  BY <2>1 DEF Types
  <2>4. /\ pc'[t] \in {"check", "idle"} /\ \A u \in Threads \ {t} : pc'[u] = pc[u]
    BY <2>1, OnlyMoves DEF Got, Labels, Working
  <2>5. AttachedAt(t)'  BY <2>1, <2>2, <2>3, <2>4 DEF AttachedAt, Attachments
  <2> QED  BY <2>1, <2>2, <2>3, <2>4, <2>5, OthersAttached DEF Attachments
<1>6. ASSUME NEW t \in Threads, NEW l \in Working, NEW m \in Working, Step(t, l, m),
             m \in (Using \ {"useDown"}) \cup {"none", "freeDesc"} => cur[t] \notin attached,
             m = "useDown" => cur[t] \in attached, m # "check"
      PROVE  Attachments'
  <2>1. pc'[t] = m /\ \A u \in Threads \ {t} : pc'[u] = pc[u]
    BY <1>6, OnlyMoves DEF Step, Labels
  <2>2. UNCHANGED <<attached, freeDesc, cur>>  BY <1>6 DEF Step
  <2>3. AttachedAt(t)'  BY <1>6, <2>1, <2>2 DEF AttachedAt
  <2> QED  BY <2>1, <2>2, <2>3, OthersAttached DEF Attachments
<1>7. ASSUME NEW t \in Threads, ~Crash,
             \/ Check(t) \/ Grow(t) \/ Unlink(t) \/ CountFree(t)
             \/ NoPayload(t)
             \/ Attach(t) /\ pc[t] = "useUp"
      PROVE  Attachments'
  <2>1. PICK l, m \in Working : Step(t, l, m)  BY <1>7, PoolSteps
  <2>2. /\ l \in (Using \ {"useDown"}) \cup {"check", "none"}
        /\ m \in (Using \ {"useDown"}) \cup {"none", "freePayload"}
    <3>1. pc[t] = l /\ pc'[t] = m  BY <2>1, OnlyMoves DEF Step, In, Labels
    <3>2. CASE Check(t)
      <4>1. /\ pc[t] \in {"check", "limit", "empty"}
            /\ \E k \in {"limit", "none", "empty", "link", "head"} : Goto(t, k)
        BY <3>2 DEF Check, Load, Use, Step, In
      <4>2. pc'[t] \in {"limit", "none", "empty", "link", "head"}
        BY <4>1, OnlyMoves DEF Labels, Working, Using
      <4> QED  BY <3>1, <4>1, <4>2 DEF Using
    <3>3. CASE Grow(t) \/ Unlink(t) \/ CountFree(t) \/ (Attach(t) /\ pc[t] = "useUp")
      <4>1. /\ pc[t] \in Using \ {"useDown"}
            /\ \E k \in Using \ {"useDown"} : Goto(t, k)
        BY <1>7, <3>3 DEF Grow, Unlink, CountFree, Attach, Load, Use, Step, In, Using
      <4>2. pc'[t] \in Using \ {"useDown"}
        BY <4>1, OnlyMoves DEF Labels, Working
      <4> QED  BY <3>1, <4>1, <4>2
    <3>4. CASE NoPayload(t)
      <4>1. pc[t] = "none" /\ Goto(t, "freePayload")  BY <1>7, <3>4 DEF NoPayload, Step, In
      <4>2. pc'[t] = "freePayload"  BY <4>1, OnlyMoves DEF Labels, Working
      <4> QED  BY <3>1, <4>1, <4>2
    <3> QED  BY <1>7, <3>2, <3>3, <3>4
  <2>3. pc[t] = l  BY <2>1 DEF Step, In
  <2>4. cur[t] \notin attached  BY <2>2, <2>3 DEF Attachments, AttachedAt
  <2>5. m # "useDown" /\ m # "check"  BY <2>2 DEF Using
  <2> QED  BY <1>6, <2>1, <2>4, <2>5
<1>8. ASSUME NEW t \in Threads, Attach(t), pc[t] # "useUp" PROVE Attachments'
  <2>1. /\ pc[t] = "attach" /\ Goto(t, "idle")
        /\ attached' = attached \cup {cur[t]} /\ UNCHANGED <<freeDesc, cur>>
    BY <1>8, AttachSteps
  <2>2. pc'[t] = "idle" /\ \A u \in Threads \ {t} : pc'[u] = pc[u]
    BY <2>1, OnlyMoves DEF Labels
  <2>3. cur[t] \in Owned(t)  BY <2>1, OwnedWorking DEF Working, Using
  <2>4. cur[t] \notin freeDesc  BY <2>3 DEF SingleOwner
  <2>5. AttachedAt(t)'  BY <2>2 DEF AttachedAt, Using
  <2> QED  BY <2>1, <2>2, <2>3, <2>4, <2>5, OthersAttached DEF Attachments
<1>9. ASSUME NEW t \in Threads, FreePayload(t), ~Crash PROVE Attachments'
  <2>1. \/ cur[t] \notin attached /\ Step(t, "freePayload", "freeDesc")
        \/ cur[t] \in attached /\ Step(t, "freePayload", "useDown")
    BY <1>9 DEF FreePayload, Load
  <2> QED  BY <1>6, <2>1 DEF Working, Using
<1>10. ASSUME NEW t \in Threads, Detach(t) PROVE Attachments'
  <2>1. /\ pc[t] = "useDown" /\ Goto(t, "freeDesc")
        /\ attached' = attached \ {cur[t]} /\ UNCHANGED <<freeDesc, cur>>
    BY <1>10 DEF Detach, In
  <2>2. pc'[t] = "freeDesc" /\ \A u \in Threads \ {t} : pc'[u] = pc[u]
    BY <2>1, OnlyMoves DEF Labels, Working
  <2>3. cur[t] \in Owned(t)  BY <2>1, OwnedWorking DEF Working, Using
  <2>4. AttachedAt(t)'  BY <2>1, <2>2 DEF AttachedAt
  <2> QED  BY <2>1, <2>2, <2>3, <2>4, OthersAttached DEF Attachments
<1>11. ASSUME NEW t \in Threads, FreeDesc(t), ~Crash PROVE Attachments'
  <2>1. /\ pc[t] = "freeDesc" /\ UNCHANGED <<cur, attached>>
        /\ freeDesc' = freeDesc \cup {cur[t]} /\ Goto(t, "post")
    BY <1>11 DEF FreeDesc, In
  <2>2. pc'[t] = "post" /\ \A u \in Threads \ {t} : pc'[u] = pc[u]
    BY <2>1, OnlyMoves DEF Labels
  <2>3. cur[t] \notin attached  BY <2>1 DEF Attachments, AttachedAt
  <2>4. AttachedAt(t)'  BY <2>2 DEF AttachedAt, Using
  <2> QED  BY <2>1, <2>2, <2>3, <2>4, OthersAttached DEF Attachments
<1>12. ASSUME NEW t \in Threads, NEW u \in Threads, HandOver(t, u) PROVE Attachments'
  BY <1>1, <1>12 DEF HandOver, pools
<1>13. ASSUME NEW t \in Threads, Allocate(t) PROVE Attachments'
  BY <1>2, <1>4, <1>5, <1>7, <1>8, <1>13 DEF Allocate
<1>14. ASSUME NEW t \in Threads, Free(t) PROVE Attachments'
  BY <1>2, <1>4, <1>9, <1>10, <1>11, <1>14 DEF Free
<1> QED  BY <1>2, <1>12, <1>13, <1>14 DEF Next, Damage

-----------------------------------------------------------------------------
(* The payloads that are counted are at most as many as the descriptors,   *)
(* and the counters are far from wrapping.                                 *)
LEMMA AttachedFits ==
  ASSUME Types, uiNumInUse = Cardinality(attached)
  PROVE  /\ IsFiniteSet(attached) /\ N \in Nat
         /\ uiNumInUse \in 0 .. N
         /\ Inc(0) = 1 /\ Dec(1) = 0
         /\ Inc(uiNumInUse) = uiNumInUse + 1
         /\ attached # {} => Dec(uiNumInUse) = uiNumInUse - 1
<1>1. IsFiniteSet(attached) /\ Cardinality(attached) \in Nat /\ Cardinality(attached) <= N
  BY NetBuffersAssumption, FS_Subset, FS_CardinalityType DEF Types, N
<1>2. N \in Nat  BY NetBuffersAssumption, FS_CardinalityType DEF N
<1>3. attached # {} => uiNumInUse # 0  BY <1>1, FS_EmptySet
<1> QED  BY <1>1, <1>2, <1>3, NetBuffersAssumption DEF Inc, Dec

(* A step of t leaves the pool exact if t was alone in it, or only looks.  *)
LEMMA MoveExact ==
  ASSUME Types, Exact, NEW t \in Threads, ~Overlap', ~crashed', pc'[t] # "none",
         \A u \in Threads \ {t} : pc'[u] = pc[u] /\ reg'[u] = reg[u],
         pc[t] \notin Using => UNCHANGED words,
         ExactAt(t)',
         pc[t] \in Using /\ pc'[t] \notin Using => uiNumFree' = 0 /\ pxFreelist' = 0,
         uiNumInUse' = Cardinality(attached')
  PROVE  Exact'
<1>1. \A u, v \in At(Using)' : u = v  BY DEF Overlap
<1>2. \A u \in Threads : pc'[u] # "none"  BY DEF Exact
<1>3. CASE pc[t] \in Using
  <2>1. \A u \in Threads \ {t} : pc'[u] \notin Using  BY <1>3 DEF Exact, At
  <2>2. \A u \in Threads \ {t} : ExactAt(u)'  BY <2>1 DEF ExactAt, Using
  <2>3. At(Using)' = {} => uiNumFree' = 0 /\ pxFreelist' = 0  BY <1>3 DEF At
  <2> QED  BY <1>1, <1>2, <2>2, <2>3 DEF Exact
<1>4. CASE pc[t] \notin Using
  <2>1. UNCHANGED words  BY <1>4
  <2>2. \A u \in Threads \ {t} : ExactAt(u)'  BY <2>1 DEF Exact, ExactAt, words
  <2>3. At(Using)' = {} => At(Using) = {}  BY <1>4 DEF At
  <2>4. At(Using)' = {} => uiNumFree' = 0 /\ pxFreelist' = 0
    BY <2>1, <2>3 DEF Exact, words
  <2> QED  BY <1>1, <1>2, <2>2, <2>4 DEF Exact
<1> QED  BY <1>3, <1>4

(* Who enters the pool alone finds it empty. *)
LEMMA EnterExact ==
  ASSUME Exact, NEW t \in Threads, pc[t] \notin Using, pc'[t] \in Using, ~Overlap',
         \A u \in Threads \ {t} : pc'[u] = pc[u]
  PROVE  uiNumFree = 0 /\ pxFreelist = 0
<1>1. At(Using) = {}  BY DEF Overlap, At
<1> QED  BY <1>1 DEF Exact

LEMMA LoadExact ==
  ASSUME Types, Exact, NEW t \in Threads, NEW l, NEW m \in Using, NEW word \in Nat,
         Load(t, l, word, m), ~Overlap',
         \/ /\ word = uiNumInUse
            /\ <<l, m>> \in {<<"check", "limit">>, <<"useUp", "attach">>,
                             <<"freePayload", "useDown">>}
         \/ /\ word = pxFreelist
            /\ <<l, m>> \in {<<"link", "publish">>, <<"head", "unlink">>}
         \/ /\ word = uiNumFree
            /\ <<l, m>> \in {<<"freeUp", "freed">>, <<"freeDown", "taken">>}
  PROVE  Exact'
<1>1. /\ pc[t] = l /\ Goto(t, m) /\ reg' = [reg EXCEPT ![t] = word]
      /\ UNCHANGED <<attached, words>> /\ ~crashed'
  BY DEF Load, Step, In
<1>2. m \in Labels /\ m # "none"  BY DEF Labels, Working, Using
<1>3. pc'[t] = m /\ \A u \in Threads \ {t} : pc'[u] = pc[u]  BY <1>1, <1>2, OnlyMoves
<1>4. reg'[t] = word /\ \A u \in Threads \ {t} : reg'[u] = reg[u]  BY <1>1 DEF Types
<1>5. ExactAt(t)  BY DEF Exact
<1>6. pc[t] \notin Using => uiNumFree = 0 /\ pxFreelist = 0  BY <1>3, EnterExact
<1>7. ExactAt(t)'
  BY <1>1, <1>3, <1>4, <1>5, <1>6 DEF ExactAt, words, Using
<1>8. uiNumInUse' = Cardinality(attached')  BY <1>1 DEF Exact, words
<1> QED  BY <1>1, <1>2, <1>3, <1>4, <1>7, <1>8, MoveExact

(* A thread in the pool goes on there. *)
LEMMA StayExact ==
  ASSUME Types, Exact, NEW t \in Threads, NEW l \in Using, NEW m \in Using, Step(t, l, m),
         \A u \in Threads \ {t} : reg'[u] = reg[u],
         uiNumInUse' = uiNumInUse, ~Overlap', pc'[t] = m => ExactAt(t)'
  PROVE  Exact'
<1>1. pc[t] = l /\ Goto(t, m) /\ UNCHANGED attached /\ ~crashed'  BY DEF Step, In
<1>2. m \in Labels /\ m # "none"  BY DEF Labels, Working, Using
<1>3. pc'[t] = m /\ \A u \in Threads \ {t} : pc'[u] = pc[u]  BY <1>1, <1>2, OnlyMoves
<1>4. uiNumInUse' = Cardinality(attached')  BY <1>1 DEF Exact
<1> QED  BY <1>1, <1>2, <1>3, <1>4, MoveExact

(* pxRsrcVarAlloc of the only thread in the pool makes the payload that it *)
(* takes; the limit of one more payload than there are descriptors is      *)
(* never reached.                                                          *)
LEMMA AllocateExact ==
  ASSUME Types, Exact, NEW t \in Threads, ~Overlap',
         Check(t) \/ Grow(t) \/ Unlink(t) \/ CountFree(t)
  PROVE  Exact'
<1> USE DEF Using
<1>1. ExactAt(t) /\ ~crashed /\ pc[t] # "none"  BY DEF Exact
<1>2. /\ uiNumInUse \in 0 .. N /\ N \in Nat /\ Inc(0) = 1 /\ Dec(1) = 0
      /\ pxFreelist \in Nat /\ uiNumFree \in Nat /\ uiNumInUse \in Nat
  BY AttachedFits, WordTypes DEF Exact, Types, Word
<1>3. CASE Check(t)
  <2>1. CASE Load(t, "check", uiNumInUse, "limit")  BY <1>2, <2>1, LoadExact
  <2>2. CASE /\ Use(t, "limit", IF reg[t] + uiNumFree >= Limit THEN "none" ELSE "empty")
             /\ UNCHANGED words
    <3>1. reg[t] = uiNumInUse /\ uiNumFree = 0 /\ pxFreelist = 0
      BY <1>1, <2>2 DEF Use, Step, In, ExactAt
    <3>2. ~(reg[t] + uiNumFree >= Limit)  BY <1>2, <3>1 DEF Limit
    <3>3. Step(t, "limit", "empty") /\ reg' = [reg EXCEPT ![t] = 0]
      BY <2>2, <3>2 DEF Use
    <3>4. \A u \in Threads \ {t} : reg'[u] = reg[u]  BY <3>3 DEF Types
    <3>5. pc'[t] = "empty" => ExactAt(t)'  BY <2>2, <3>1 DEF ExactAt, words
    <3> QED  BY <2>2, <3>3, <3>4, <3>5, StayExact DEF words
  <2>3. CASE /\ Step(t, "empty", IF pxFreelist = 0 THEN "link" ELSE "head")
             /\ UNCHANGED <<words, reg>>
    <3>1. uiNumFree = 0 /\ pxFreelist = 0  BY <1>1, <2>3 DEF Step, In, ExactAt
    <3>2. Step(t, "empty", "link")  BY <2>3, <3>1
    <3>3. pc'[t] = "link" => ExactAt(t)'  BY <2>3, <3>1 DEF ExactAt, words
    <3> QED  BY <2>3, <3>2, <3>3, StayExact DEF words
  <2> QED  BY <1>3, <2>1, <2>2, <2>3 DEF Check
<1>4. ASSUME NEW l \in Using, NEW m \in Using, Use(t, l, m), uiNumInUse' = uiNumInUse,
             pc'[t] = m => ExactAt(t)'
      PROVE  Exact'
  <2>1. \A u \in Threads \ {t} : reg'[u] = reg[u]  BY <1>4 DEF Use, Types
  <2> QED  BY <1>4, <2>1, StayExact DEF Use
<1>5. CASE Grow(t)
  <2>1. CASE Load(t, "link", pxFreelist, "publish")  BY <1>2, <2>1, LoadExact
  <2>2. CASE Load(t, "freeUp", uiNumFree, "freed")  BY <1>2, <2>2, LoadExact
  <2>3. CASE /\ Use(t, "publish", "freeUp") /\ pxFreelist' = reg[t] + 1
             /\ UNCHANGED <<uiNumFree, uiNumInUse>>
    <3>1. pxFreelist' = 1 /\ uiNumFree' = 0  BY <1>1, <2>3 DEF Use, Step, In, ExactAt
    <3>2. pc'[t] = "freeUp" => ExactAt(t)'  BY <3>1 DEF ExactAt
    <3> QED  BY <1>4, <2>3, <3>2
  <2>4. CASE /\ Use(t, "freed", "head") /\ uiNumFree' = Inc(reg[t])
             /\ UNCHANGED <<pxFreelist, uiNumInUse>>
    <3>1. pxFreelist' = 1 /\ uiNumFree' = 1
      BY <1>1, <1>2, <2>4 DEF Use, Step, In, ExactAt
    <3>2. pc'[t] = "head" => ExactAt(t)'  BY <3>1 DEF ExactAt
    <3> QED  BY <1>4, <2>4, <3>2
  <2> QED  BY <1>5, <2>1, <2>2, <2>3, <2>4 DEF Grow
<1>6. CASE Unlink(t)
  <2>1. CASE In(t, "head") /\ pxFreelist = 0  BY <1>1, <2>1 DEF In, ExactAt
  <2>2. CASE Load(t, "head", pxFreelist, "unlink")  BY <1>2, <2>2, LoadExact
  <2>3. CASE /\ Use(t, "unlink", "freeDown") /\ pxFreelist' = reg[t] - 1
             /\ UNCHANGED <<uiNumFree, uiNumInUse>>
    <3>1. pxFreelist' = 0 /\ uiNumFree' = 1  BY <1>1, <2>3 DEF Use, Step, In, ExactAt
    <3>2. pc'[t] = "freeDown" => ExactAt(t)'  BY <3>1 DEF ExactAt
    <3> QED  BY <1>4, <2>3, <3>2
  <2> QED  BY <1>6, <2>1, <2>2, <2>3 DEF Unlink
<1>7. CASE CountFree(t)
  <2>1. CASE Load(t, "freeDown", uiNumFree, "taken")  BY <1>2, <2>1, LoadExact
  <2>2. CASE /\ Use(t, "taken", "useUp") /\ uiNumFree' = Dec(reg[t])
             /\ UNCHANGED <<pxFreelist, uiNumInUse>>
    <3>1. pxFreelist' = 0 /\ uiNumFree' = 0
      BY <1>1, <1>2, <2>2 DEF Use, Step, In, ExactAt
    <3>2. pc'[t] = "useUp" => ExactAt(t)'  BY <3>1 DEF ExactAt
    <3> QED  BY <1>4, <2>2, <3>2
  <2> QED  BY <1>7, <2>1, <2>2 DEF CountFree
<1> QED  BY <1>3, <1>5, <1>6, <1>7

(* A payload is counted when it is attached and when it is taken off. *)
LEMMA AttachExact ==
  ASSUME Owners, Attachments, Exact, NEW t \in Threads, ~Overlap', Attach(t) \/ Detach(t)
  PROVE  Exact'
<1> USE DEF Owners, Using
<1>1. ExactAt(t) /\ ~crashed /\ AttachedAt(t)  BY DEF Exact, Attachments
<1>2. IsFiniteSet(attached) /\ uiNumInUse = Cardinality(attached) /\ uiNumInUse \in Nat
  BY AttachedFits, WordTypes DEF Exact, Types, Word
<1>3. CASE Attach(t) /\ pc[t] = "useUp"
  <2>1. Load(t, "useUp", uiNumInUse, "attach")  BY <1>3 DEF Attach, In
  <2> QED  BY <1>2, <2>1, LoadExact
<1>4. ASSUME NEW l \in {"idle", "freeDesc"}, pc[t] \in Using, Goto(t, l),
             reg' = [reg EXCEPT ![t] = 0],
             uiNumFree = 0, pxFreelist = 0, UNCHANGED <<pxFreelist, uiNumFree, crashed>>,
             uiNumInUse' = Cardinality(attached')
      PROVE  Exact'
  <2>1. pc'[t] = l /\ \A u \in Threads \ {t} : pc'[u] = pc[u]
    BY <1>4, OnlyMoves DEF Labels, Working
  <2>2. \A u \in Threads \ {t} : reg'[u] = reg[u]  BY <1>4 DEF Types
  <2>3. ExactAt(t)'  BY <2>1 DEF ExactAt
  <2> QED  BY <1>1, <1>4, <2>1, <2>2, <2>3, MoveExact
<1>5. CASE Attach(t) /\ pc[t] # "useUp"
  <2>1. /\ pc[t] = "attach" /\ Goto(t, "idle") /\ reg' = [reg EXCEPT ![t] = 0]
        /\ uiNumInUse' = Inc(reg[t]) /\ attached' = attached \cup {cur[t]}
        /\ UNCHANGED <<pxFreelist, uiNumFree, crashed>>
    BY <1>5 DEF Attach, Load, Step, In
  <2>2. cur[t] \notin attached /\ reg[t] = uiNumInUse /\ uiNumFree = 0 /\ pxFreelist = 0
    BY <1>1, <2>1 DEF AttachedAt, ExactAt
  <2>3. Cardinality(attached') = uiNumInUse + 1  BY <1>2, <2>1, <2>2, FS_AddElement
  <2>4. Inc(uiNumInUse) = uiNumInUse + 1  BY AttachedFits DEF Exact
  <2> QED  BY <1>4, <2>1, <2>2, <2>3, <2>4
<1>6. CASE Detach(t)
  <2>1. /\ pc[t] = "useDown" /\ Goto(t, "freeDesc") /\ reg' = [reg EXCEPT ![t] = 0]
        /\ uiNumInUse' = Dec(reg[t]) /\ attached' = attached \ {cur[t]}
        /\ UNCHANGED <<pxFreelist, uiNumFree, crashed>>
    BY <1>6 DEF Detach, In
  <2>2. cur[t] \in attached /\ reg[t] = uiNumInUse /\ uiNumFree = 0 /\ pxFreelist = 0
    BY <1>1, <2>1 DEF AttachedAt, ExactAt
  <2>3. Cardinality(attached') = uiNumInUse - 1  BY <1>2, <2>1, <2>2, FS_RemoveElement
  <2>4. Dec(uiNumInUse) = uiNumInUse - 1  BY <2>2, AttachedFits DEF Exact
  <2> QED  BY <1>4, <2>1, <2>2, <2>3, <2>4
<1> QED  BY <1>3, <1>5, <1>6

(* Steps of t that have nothing to do with the payload pool. *)
LEMMA ElsewhereExact ==
  ASSUME Types, Exact, NEW t \in Threads, NEW l \in Labels \ (Using \cup {"none"}),
         pc[t] \notin Using, Goto(t, l), UNCHANGED <<words, attached, reg, crashed>>, ~Overlap'
  PROVE  Exact'
<1>1. pc'[t] = l /\ \A u \in Threads \ {t} : pc'[u] = pc[u]  BY OnlyMoves
<1>2. ExactAt(t)'  BY <1>1 DEF ExactAt, Using
<1>3. /\ \A u \in Threads \ {t} : reg'[u] = reg[u]
      /\ ~crashed' /\ uiNumInUse' = Cardinality(attached')
  BY DEF Exact, words
<1> QED  BY <1>1, <1>2, <1>3, MoveExact

(* As long as two threads have not been in the payload pool at once. *)
Kept == Owners /\ Attachments /\ (~overlapped => Exact)

LEMMA NextExact ==
  ASSUME Kept, DoubleReleasers = {}, [Next]_vars, ~overlapped'
  PROVE  Exact'
<1> USE DEF Owners, Kept
<1>1. CASE UNCHANGED vars
  BY <1>1 DEF vars, pools, callers, words, Exact, ExactAt, At
<1>2. SUFFICES ASSUME Next PROVE Exact'  BY <1>1
<1>3. ~overlapped /\ ~Overlap' /\ Exact /\ ~Damage  BY <1>2 DEF Next, Damage
<1>4. ASSUME NEW t \in Threads, NEW l \in {"idle", "take", "desc", "check", "wake", "post",
                                            "freePayload", "freeDesc"},
             pc[t] \notin Using, Goto(t, l), UNCHANGED <<words, attached, reg, crashed>>
      PROVE  Exact'
  BY <1>3, <1>4, ElsewhereExact DEF Labels, Working, Using
<1>5. ASSUME NEW t \in Threads, Get(t) \/ Wait(t) \/ Post(t) \/ WakeOne(t) \/ Release(t)
      PROVE  Exact'
  <2>1. \E l \in {"idle", "take", "desc", "wake", "freePayload"} : Goto(t, l)
    BY <1>5 DEF Get, Wait, Post, WakeOne, Release
  <2>2. /\ pc[t] \notin Using /\ UNCHANGED <<words, attached, reg, crashed>>
    BY <1>5 DEF Get, Wait, Post, WakeOne, Release, In, pools, Using
  <2> QED  BY <1>4, <2>1, <2>2
<1>6. ASSUME NEW t \in Threads, AllocDesc(t) PROVE Exact'
  <2>1. PICK d \in freeDesc : attached' = attached \ {d} /\ Got(t, d)
    BY <1>6 DEF AllocDesc
  <2>2. attached' = attached  BY <2>1 DEF Attachments
  <2>3. Goto(t, "check") \/ Goto(t, "idle")  BY <2>1 DEF Got
  <2>4. pc[t] \notin Using /\ UNCHANGED <<words, reg, crashed>>
    BY <1>6 DEF AllocDesc, In, Using
  <2> QED  BY <1>4, <2>2, <2>3, <2>4
<1>7. ASSUME NEW t \in Threads, NoPayload(t) PROVE Exact'
  BY <1>3, <1>7 DEF NoPayload, Step, In, Exact
<1>8. ASSUME NEW t \in Threads, pc[t] \in {"freePayload", "freeDesc"} PROVE cur[t] \notin freeDesc
  BY <1>8, OwnedWorking DEF SingleOwner, Working
<1>9. ASSUME NEW t \in Threads, FreePayload(t) PROVE Exact'
  <2>1. pc[t] = "freePayload"  BY <1>9 DEF FreePayload, Step, Load, In
  <2>2. CASE Step(t, "freePayload", "freeDesc") /\ UNCHANGED <<words, reg>>
    BY <1>4, <2>1, <2>2 DEF Step, Using
  <2>3. CASE Load(t, "freePayload", uiNumInUse, "useDown")
    <3>1. uiNumInUse \in Nat  BY WordTypes DEF Types, Word
    <3> QED  BY <1>3, <2>3, <3>1, LoadExact DEF Using
  <2> QED  BY <1>8, <1>9, <2>1, <2>2, <2>3 DEF FreePayload
<1>10. ASSUME NEW t \in Threads, FreeDesc(t) PROVE Exact'
  <2>1. pc[t] = "freeDesc"  BY <1>10 DEF FreeDesc, In
  <2>2. Goto(t, "post") /\ UNCHANGED <<words, attached, reg, crashed>>
    BY <1>8, <1>10, <2>1 DEF FreeDesc
  <2> QED  BY <1>4, <2>1, <2>2 DEF Using
<1>11. ASSUME NEW t \in Threads, NEW u \in Threads, t # u, HandOver(t, u) PROVE Exact'
  <2>1. UNCHANGED <<words, attached, reg, crashed, pc>>  BY <1>11 DEF HandOver, pools
  <2> QED  BY <1>3, <2>1 DEF Exact, ExactAt, At, words
<1>12. ASSUME NEW t \in Threads, Allocate(t) PROVE Exact'
  BY <1>3, <1>5, <1>6, <1>7, <1>12, AllocateExact, AttachExact DEF Allocate
<1>13. ASSUME NEW t \in Threads, Free(t) PROVE Exact'
  BY <1>3, <1>5, <1>9, <1>10, <1>13, AttachExact DEF Free
<1> QED  BY <1>2, <1>3, <1>11, <1>12, <1>13 DEF Next

LEMMA KeptAlways == DoubleReleasers = {} => (Spec => []Kept)
<1> SUFFICES ASSUME DoubleReleasers = {} PROVE Spec => []Kept  OBVIOUS
<1>1. ASSUME Init PROVE Kept
  <2>1. Owners  BY <1>1, InitOwners, InitCounted DEF Owners, Counted
  <2>2. \A t \in Threads : pc[t] = "idle"  BY <1>1 DEF Init
  <2>3. Attachments  BY <1>1, <2>2 DEF Init, Attachments, AttachedAt, Using
  <2>4. \A t \in Threads : t \notin At(Using) /\ ExactAt(t)  BY <2>2 DEF At, ExactAt, Using
  <2>5. uiNumInUse = Cardinality(attached) /\ uiNumFree = 0 /\ pxFreelist = 0 /\ ~crashed
    BY <1>1, FS_EmptySet DEF Init, InitPool
  <2>6. Exact  BY <2>2, <2>4, <2>5 DEF Exact, At
  <2> QED  BY <2>1, <2>3, <2>6 DEF Kept
<1>2. ASSUME Kept, [Next]_vars PROVE Kept'
  <2>1. Owners'  BY <1>2, NextOwners, NextTypes DEF Kept, Owners
  <2>2. Attachments'  BY <1>2, NextAttachments DEF Kept
  <2> QED  BY <1>2, <2>1, <2>2, NextExact DEF Kept
<1> QED  BY <1>1, <1>2, PTL DEF Spec

(* Until two threads meet in it the payload pool, which no lock protects,  *)
(* counts what it has given out exactly, for any number of threads and     *)
(* descriptors: no path through a failed call loses a count.               *)
THEOREM PayloadsInUse == DoubleReleasers = {} => (Spec => []PayloadsCounted)
<1> SUFFICES ASSUME DoubleReleasers = {} PROVE Spec => []PayloadsCounted  OBVIOUS
<1>1. Kept => PayloadsCounted  BY DEF Kept, Exact, PayloadsCounted
<1> QED  BY <1>1, KeptAlways, PTL

(* A thread that the semaphore has admitted gets its payload, and the      *)
(* program goes on, as long as no two threads are in the payload pool at   *)
(* once.                                                                   *)
THEOREM AdmittedAlone == DoubleReleasers = {} => (Spec => []AdmittedUntilOverlap)
<1> SUFFICES ASSUME DoubleReleasers = {} PROVE Spec => []AdmittedUntilOverlap  OBVIOUS
<1>1. ASSUME Kept, ~overlapped PROVE BufferAfterSem /\ ~crashed
  <2>1. At({"none"}) = {}  BY <1>1 DEF Kept, Exact, At
  <2>2. \A t \in At({"head"}) : pxFreelist = 1  BY <1>1 DEF Kept, Exact, ExactAt, At
  <2> QED  BY <1>1, <2>1, <2>2 DEF Kept, Exact, BufferAfterSem
<1>2. Kept => AdmittedUntilOverlap  BY <1>1 DEF AdmittedUntilOverlap
<1> QED  BY <1>2, KeptAlways, PTL

=============================================================================
