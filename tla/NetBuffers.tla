----------------------------- MODULE NetBuffers -----------------------------
(***************************************************************************)
(* The network buffers of BufferManagement.c over the resource pools of    *)
(* Common/rsrc.c.  A counting semaphore admits a caller, a pool of         *)
(* preallocated descriptors gives it one under a mutex, and a pool of      *)
(* payloads of variable length, which no lock protects, gives the storage. *)
(*                                                                         *)
(* A call is a sequence of steps of its thread.  The mutex makes one step  *)
(* of each use of the descriptor pool.  A use of the payload pool is split *)
(* into its single loads and stores: of the free list, which stands for    *)
(* its length, and of the two counters, which are words that wrap.         *)
(***************************************************************************)
EXTENDS Semaphore, FiniteSets

CONSTANTS Threads,          \* application, driver and IPCP threads
          Descs,            \* the NetworkBufferDescriptor_t's
          DoubleReleasers,  \* threads that may release a buffer twice
          Counter,          \* values of a uint16_t: 65536 in the code
          NDebug,           \* the build defines NDEBUG
          MaxFailed         \* bound: nobody asks for a buffer once so many waits
                            \* for the semaphore have failed

N == Cardinality(Descs)     \* NUM_NETWORK_BUFFER_DESCRIPTORS

(* pxRsrcNewPool aborts when the limit of a pool does not fit a counter. *)
ASSUME NetBuffersAssumption ==
         /\ IsFiniteSet(Threads) /\ IsFiniteSet(Descs) /\ Descs # {}
         /\ DoubleReleasers \subseteq Threads
         /\ Counter \in Nat /\ Counter > N + 1
         /\ NDebug \in BOOLEAN
         /\ MaxFailed \in Nat

VARIABLES
  freeDesc,       \* free list of xNetworkBufferDescriptorPool
  attached,       \* the descriptors whose pucEthernetBuffer is not NULL
  pxFreelist,     \* of xNetworkBufferPool: how many payloads are linked there
  uiNumFree,      \* of xNetworkBufferPool
  uiNumInUse,     \* of xNetworkBufferPool
  pc, cur,        \* where a thread is, and the descriptor its call is about
  reg,            \* reg[t]: what t has loaded from the payload pool, else 0
  held,           \* held[t]: the buffers t was given and has not released
  stale,          \* stale[t]: those t has released and still points to
  overlapped,     \* history: two threads have been in the payload pool at once
  crashed         \* the program has ended, or anything may follow

words   == <<pxFreelist, uiNumFree, uiNumInUse>>
pools   == <<semaphore, freeDesc, attached, words>>
callers == <<pc, cur, reg, held, stale>>
vars    == <<pools, callers, overlapped, crashed>>

(* In pxRsrcVarAlloc or vRsrcFree of a payload, after the first access *)
Using == {"limit", "empty", "link", "publish", "freeUp", "freed", "head", "unlink",
          "freeDown", "taken", "useUp", "attach", "useDown"}

TypeOK == /\ value \in Int /\ value <= N
          /\ xSemaphore \in 0 .. N
          /\ Permits <= N
          /\ freeDesc \subseteq Descs /\ attached \subseteq Descs
          /\ pxFreelist \in Nat
          /\ uiNumFree \in 0 .. Counter - 1 /\ uiNumInUse \in 0 .. Counter - 1
          /\ pc \in [Threads -> Using \cup {"idle", "take", "desc", "check", "none",
                                            "freePayload", "freeDesc", "post", "wake"}]
          /\ cur \in [Threads -> Descs]
          /\ reg \in [Threads -> Nat]
          /\ held \in [Threads -> SUBSET Descs]
          /\ stale \in [Threads -> SUBSET Descs]
          /\ overlapped \in BOOLEAN /\ crashed \in BOOLEAN

-----------------------------------------------------------------------------
(* pxRsrcNewPool: every descriptor is allocated at once. *)
NewPool == freeDesc = Descs

(* prviRsrcInitPool, of a pool to which nothing is added yet. *)
InitPool == pxFreelist = 0 /\ uiNumFree = 0 /\ uiNumInUse = 0

(* xNetworkBuffersInitialise, before any thread calls. *)
Init == /\ SemInit(N)
        /\ NewPool /\ InitPool
        /\ attached = {}
        /\ pc = [t \in Threads |-> "idle"]
        /\ cur \in {[t \in Threads |-> d] : d \in Descs}
        /\ reg = [t \in Threads |-> 0]
        /\ held = [t \in Threads |-> {}]
        /\ stale = [t \in Threads |-> {}]
        /\ overlapped = FALSE /\ crashed = FALSE

At(labels) == {t \in Threads : pc[t] \in labels}

In(t, l) == ~crashed /\ pc[t] = l

Goto(t, l) == pc' = [pc EXCEPT ![t] = l]

(* NULL or garbage is dereferenced, or abort() is called. *)
Crash == crashed' = TRUE /\ UNCHANGED <<pools, callers>>

(* The call of t returns its new descriptor to it. *)
Give(t, d) == /\ held' = [held EXCEPT ![t] = @ \cup {d}]
              /\ stale' = [stale EXCEPT ![t] = @ \ {d}]

-----------------------------------------------------------------------------
(* Mutant of Get: the descriptor is taken without asking the semaphore. *)
GetNoWait(t) == /\ In(t, "idle")
                /\ Goto(t, "desc")
                /\ UNCHANGED <<pools, cur, reg, held, stale, crashed>>

(* pxGetNetworkBufferWithDescriptorFor: sem_timedwait, or sem_trywait when *)
(* there is no time to wait.                                               *)
Get(t) == /\ In(t, "idle")
          /\ value > -MaxFailed
          /\ Decrement
          /\ Goto(t, IF Immediate THEN "desc" ELSE "take")
          /\ UNCHANGED <<freeDesc, attached, words, cur, reg, held, stale, crashed>>

(* The call goes on, or returns NULL. *)
Wait(t) == /\ In(t, "take")
           /\ \/ Take /\ Goto(t, "desc")
              \/ TakeFails /\ Goto(t, "idle")
           /\ UNCHANGED <<freeDesc, attached, words, cur, reg, held, stale, crashed>>

(* What follows the descriptor: the payload, or, when none is asked for,   *)
(* the return.                                                             *)
Got(t, d) == \/ Goto(t, "check") /\ UNCHANGED <<held, stale>>
             \/ Goto(t, "idle") /\ Give(t, d)

(* Mutant of AllocDesc: the descriptor stays on the free list. *)
AllocDescLinked(t) ==
  /\ In(t, "desc")
  /\ \E d \in freeDesc : cur' = [cur EXCEPT ![t] = d] /\ Got(t, d)
  /\ UNCHANGED <<pools, reg, crashed>>

(* pxRsrcAlloc of the descriptor, under the mutex, which fills it with     *)
(* zeros.  The pool never grows: were its free list empty, NULL would be   *)
(* returned and dereferenced.                                              *)
AllocDesc(t) ==
  /\ In(t, "desc")
  /\ \E d \in freeDesc :
       /\ freeDesc' = freeDesc \ {d}
       /\ attached' = attached \ {d}
       /\ cur' = [cur EXCEPT ![t] = d]
       /\ Got(t, d)
  /\ UNCHANGED <<semaphore, words, reg, crashed>>

-----------------------------------------------------------------------------
(* uiMaxNumRes of the payload pool. *)
Limit == N + 1

(* ++ and -- of a counter *)
Inc(n) == IF n = Counter - 1 THEN 0 ELSE n + 1
Dec(n) == IF n = 0 THEN Counter - 1 ELSE n - 1

(* A step of t that is no concern of anybody else's. *)
Step(t, l, m) == /\ In(t, l) /\ Goto(t, m)
                 /\ UNCHANGED <<semaphore, freeDesc, attached, cur, held, stale, crashed>>

(* It loads a word of the pool, or uses the copy, most often to store the  *)
(* next value, and needs it no more.                                       *)
Load(t, l, word, m) == /\ Step(t, l, m)
                       /\ reg' = [reg EXCEPT ![t] = word]
                       /\ UNCHANGED words
Use(t, l, m) == Step(t, l, m) /\ reg' = [reg EXCEPT ![t] = 0]

(* pxRsrcVarAlloc: the limit, and whether the free list is empty. *)
Check(t) == \/ Load(t, "check", uiNumInUse, "limit")
            \/ /\ Use(t, "limit", IF reg[t] + uiNumFree >= Limit THEN "none" ELSE "empty")
               /\ UNCHANGED words
            \/ /\ Step(t, "empty", IF pxFreelist = 0 THEN "link" ELSE "head")
               /\ UNCHANGED <<words, reg>>

(* prviRsrcAdd2Pool: a new payload is linked before the first one. *)
Grow(t) == \/ Load(t, "link", pxFreelist, "publish")
           \/ /\ Use(t, "publish", "freeUp")
              /\ pxFreelist' = reg[t] + 1
              /\ UNCHANGED <<uiNumFree, uiNumInUse>>
           \/ Load(t, "freeUp", uiNumFree, "freed")
           \/ /\ Use(t, "freed", "head")
              /\ uiNumFree' = Inc(reg[t])
              /\ UNCHANGED <<pxFreelist, uiNumInUse>>

(* The first payload is unlinked: an empty free list is dereferenced. *)
Unlink(t) == \/ In(t, "head") /\ pxFreelist = 0 /\ Crash
             \/ pxFreelist > 0 /\ Load(t, "head", pxFreelist, "unlink")
             \/ /\ Use(t, "unlink", "freeDown")
                /\ pxFreelist' = reg[t] - 1
                /\ UNCHANGED <<uiNumFree, uiNumInUse>>

(* Mutant of CountFree: --uiNumFree is missing. *)
CountFreeNot(t) == \/ Load(t, "freeDown", uiNumFree, "taken")
                   \/ Use(t, "taken", "useUp") /\ UNCHANGED words

CountFree(t) == \/ Load(t, "freeDown", uiNumFree, "taken")
                \/ /\ Use(t, "taken", "useUp")
                   /\ uiNumFree' = Dec(reg[t])
                   /\ UNCHANGED <<pxFreelist, uiNumInUse>>

(* It is counted and linked to the active ones, and what                   *)
(* pxGetNetworkBufferWithDescriptorFor does with it.                       *)
Attach(t) == \/ Load(t, "useUp", uiNumInUse, "attach")
             \/ /\ In(t, "attach") /\ Goto(t, "idle")
                /\ uiNumInUse' = Inc(reg[t])
                /\ reg' = [reg EXCEPT ![t] = 0]
                /\ attached' = attached \cup {cur[t]}
                /\ Give(t, cur[t])
                /\ UNCHANGED <<semaphore, freeDesc, pxFreelist, uiNumFree, cur, crashed>>

(* No payload: memset(NULL) unless NDEBUG; else the descriptor is released *)
(* and NULL returned.                                                      *)
NoPayload(t) == \/ ~NDebug /\ In(t, "none") /\ Crash
                \/ NDebug /\ Step(t, "none", "freePayload") /\ UNCHANGED <<words, reg>>

-----------------------------------------------------------------------------
(* vReleaseNetworkBufferAndDescriptor of a buffer that t holds, or, by a   *)
(* careless thread, of one that it has released already.                   *)
Release(t) ==
  /\ In(t, "idle")
  /\ \E d \in held[t] \cup stale[t] :
       /\ cur' = [cur EXCEPT ![t] = d]
       /\ held' = [held EXCEPT ![t] = @ \ {d}]
       /\ stale' = IF t \in DoubleReleasers
                   THEN [stale EXCEPT ![t] = @ \cup {d}] ELSE stale
  /\ Goto(t, "freePayload")
  /\ UNCHANGED <<pools, reg, crashed>>

(* vReleaseNetworkBuffer, of a payload if there is one.  The pool has      *)
(* overwritten a descriptor on its free list with ones, and freeing that   *)
(* pointer is a fault.                                                     *)
FreePayload(t) ==
  LET d == cur[t] IN
    \/ In(t, "freePayload") /\ d \in freeDesc /\ Crash
    \/ /\ d \notin freeDesc \cup attached
       /\ Step(t, "freePayload", "freeDesc")
       /\ UNCHANGED <<words, reg>>
    \/ d \in attached \ freeDesc /\ Load(t, "freePayload", uiNumInUse, "useDown")

(* Mutant of Detach: the payload is freed and stays counted. *)
DetachCounted(t) ==
  /\ In(t, "useDown") /\ Goto(t, "freeDesc")
  /\ reg' = [reg EXCEPT ![t] = 0]
  /\ attached' = attached \ {cur[t]}
  /\ UNCHANGED <<semaphore, freeDesc, words, cur, held, stale, crashed>>

(* The rest of vRsrcFree of the payload, and NULL in its descriptor *)
Detach(t) == /\ In(t, "useDown") /\ Goto(t, "freeDesc")
             /\ uiNumInUse' = Dec(reg[t])
             /\ reg' = [reg EXCEPT ![t] = 0]
             /\ attached' = attached \ {cur[t]}
             /\ UNCHANGED <<semaphore, freeDesc, pxFreelist, uiNumFree, cur, held, stale, crashed>>

(* vRsrcFree of the descriptor, under the mutex: abort() when it is on the *)
(* free list already.                                                      *)
FreeDesc(t) ==
  /\ In(t, "freeDesc")
  /\ \/ cur[t] \in freeDesc /\ Crash
     \/ /\ cur[t] \notin freeDesc
        /\ freeDesc' = freeDesc \cup {cur[t]}
        /\ Goto(t, "post")
        /\ UNCHANGED <<semaphore, attached, words, cur, reg, held, stale, crashed>>

(* Mutant of Post: nobody is woken. *)
PostSilent(t) == /\ In(t, "post")
                 /\ Increment
                 /\ Goto(t, "idle")
                 /\ UNCHANGED <<freeDesc, attached, words, cur, reg, held, stale, crashed>>

(* sem_post *)
Post(t) == /\ In(t, "post")
           /\ Increment
           /\ Goto(t, IF Waited THEN "wake" ELSE "idle")
           /\ UNCHANGED <<freeDesc, attached, words, cur, reg, held, stale, crashed>>

WakeOne(t) == /\ In(t, "wake")
              /\ Wake
              /\ Goto(t, "idle")
              /\ UNCHANGED <<freeDesc, attached, words, cur, reg, held, stale, crashed>>

(* The pointer is sent through the event queue of the IPCP task and taken  *)
(* over by the thread that receives it.                                    *)
HandOver(t, u) ==
  /\ In(t, "idle") /\ In(u, "idle")
  /\ \E d \in held[t] :
       /\ held' = [held EXCEPT ![t] = @ \ {d}, ![u] = @ \cup {d}]
       /\ stale' = [stale EXCEPT ![u] = @ \ {d}]
  /\ UNCHANGED <<pools, pc, cur, reg, crashed>>

(* Threads that link, unlink and count payloads at the same time may give  *)
(* one payload to two callers, or leave a broken list of free or active    *)
(* ones: from then on a fault, the abort() of vRsrcFree or worse may come  *)
(* at any time.                                                            *)
Damage == overlapped /\ ~crashed /\ Crash

Allocate(t) == \/ Get(t) \/ Wait(t) \/ AllocDesc(t) \/ Check(t) \/ Grow(t)
               \/ Unlink(t) \/ CountFree(t) \/ Attach(t) \/ NoPayload(t)
Free(t) == \/ Release(t) \/ FreePayload(t) \/ Detach(t) \/ FreeDesc(t)
           \/ Post(t) \/ WakeOne(t)

Overlap == \E t, u \in At(Using) : t # u

Next == /\ \/ \E t \in Threads : Allocate(t) \/ Free(t)
           \/ \E t, u \in Threads : t # u /\ HandOver(t, u)
           \/ Damage
        /\ overlapped' = (overlapped \/ Overlap')

Spec == Init /\ [][Next]_vars

-----------------------------------------------------------------------------
(* The descriptors that t holds or that its call is working on. *)
Owned(t) == held[t] \cup
            IF t \in At(Using \cup {"check", "none", "freePayload", "freeDesc"})
            THEN {cur[t]} ELSE {}

(* Whoever the semaphore has admitted finds a descriptor on the free list. *)
(* The semaphore is posted outside the mutex, after the descriptor is      *)
(* back: this holds because of that order, and even after double releases. *)
DescriptorAfterSem == \A t \in At({"desc"}) : freeDesc # {}

(* A descriptor is free or has one owner: nobody is given a buffer that is *)
(* in use, and none is freed under its owner, whatever becomes of the      *)
(* payloads.                                                               *)
SingleOwner == \A t \in Threads :
                 /\ Owned(t) \cap freeDesc = {}
                 /\ \A u \in Threads \ {t} : Owned(t) \cap Owned(u) = {}

(* When no call is under way the semaphore has a permit for every          *)
(* descriptor that nobody holds: no path through a failed allocation leaks *)
(* one, nor does a failed wait, which leaves the counter decremented       *)
(* (FreeRTOS_POSIX_semaphore.c:138).                                       *)
NothingLeaks == At({"idle"}) = Threads =>
                  Permits = N - Cardinality(UNION {held[t] : t \in Threads})

(* As long as no two threads have been in the payload pool at once, it     *)
(* counts the payloads that are attached, and keeps none for later: every  *)
(* payload on the free list was made for the thread that is about to take  *)
(* it (rsrc.c:215-231, 314-322).  Threads that were there at once lose     *)
(* counts for good.                                                        *)
PayloadsCounted ==
  ~overlapped => /\ uiNumInUse = Cardinality(attached)
                 /\ At(Using) = {} => uiNumFree = 0 /\ pxFreelist = 0

(* BufferManagement.c:251: a caller that the semaphore admits gets its     *)
(* buffer: it is not refused the payload and does not find that another    *)
(* thread has taken it.                                                    *)
BufferAfterSem == At({"none"}) = {} /\ (At({"head"}) # {} => pxFreelist > 0)

(* It is the threads that use the payload pool at the same time, and       *)
(* nothing else in the order of semaphore, descriptors and payloads, that  *)
(* make this fail or end the program.                                      *)
AdmittedUntilOverlap == ~overlapped => BufferAfterSem /\ ~crashed

(* Descriptors are handed out as ids are from a pool of ids: a thread is   *)
(* given one that no thread holds, gives one up or passes one on.          *)
Pool == INSTANCE IdPool WITH Ids <- Descs, Callers <- Threads
DescriptorPool == Pool!Spec

=============================================================================
