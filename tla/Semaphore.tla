----------------------------- MODULE Semaphore -----------------------------
(***************************************************************************)
(* The counting semaphore of FreeRTOS+POSIX (FreeRTOS_POSIX_semaphore.c).  *)
(* An atomic counter decides whether a thread gets by at once; a semaphore *)
(* of FreeRTOS, which starts at zero, queues those that do not.  A wait    *)
(* that fails leaves the counter decremented: it does not count permits    *)
(* once that has happened.                                                 *)
(***************************************************************************)
EXTENDS Integers

VARIABLES value,        \* of sem_internal_t
          xSemaphore    \* count of its FreeRTOS semaphore

semaphore == <<value, xSemaphore>>

(* The permits that are left, wherever they are. *)
Permits == (IF value > 0 THEN value ELSE 0) + xSemaphore

(* sem_init *)
SemInit(n) == value = n /\ xSemaphore = 0

(* sem_timedwait: the counter, by one atomic instruction.  The thread has  *)
(* its permit when the counter was positive.                               *)
Decrement == value' = value - 1 /\ UNCHANGED xSemaphore
Immediate == value > 0

(* Otherwise it waits for the FreeRTOS semaphore, for as long as it may. *)
Take == /\ xSemaphore > 0 /\ xSemaphore' = xSemaphore - 1
        /\ UNCHANGED value

(* The delay is over (Timespec), or was none from the start: sem_trywait.  *)
TakeFails == xSemaphore = 0 /\ UNCHANGED semaphore

(* sem_post: the counter, and a wake-up for the FreeRTOS semaphore when it *)
(* was negative.                                                           *)
Increment == value' = value + 1 /\ UNCHANGED xSemaphore
Waited == value < 0
Wake == xSemaphore' = xSemaphore + 1 /\ UNCHANGED value
=============================================================================
