------------------------------ MODULE Timespec ------------------------------
(***************************************************************************)
(* From a timeout in microseconds to the ticks of FreeRTOS: an absolute    *)
(* time is made of it (posix_rstime.c) and, when the thread is about to    *)
(* wait, a number of ticks of that (FreeRTOS_POSIX_utils.c).  In between   *)
(* the clock goes on.                                                      *)
(*                                                                         *)
(* The microseconds are 32 bits wide where the program runs, as is the     *)
(* product that rstime.h makes of them; seconds are 64 bits wide and are   *)
(* not taken to overflow.                                                  *)
(***************************************************************************)
EXTENDS Integers

NANOSECONDS_PER_SECOND == 1000000000
configTICK_RATE_HZ == 100
NANOSECONDS_PER_TICK == 10000000       \* NANOSECONDS_PER_SECOND / configTICK_RATE_HZ
Width == 4294967296                    \* of useconds_t and TickType_t

(* UTILS_ValidateTimespec *)
Timespecs == [tv_sec : Int, tv_nsec : {n \in Nat : n < NANOSECONDS_PER_SECOND}]

Nanoseconds(t) == t.tv_sec * NANOSECONDS_PER_SECOND + t.tv_nsec

(* rstime_waitusec: the product wraps. *)
Product(us) == (us * 1000) % Width

(* rstime_waitnsec, at time now *)
WaitNsec(now, n) ==
  LET nsec == now.tv_nsec + (n % NANOSECONDS_PER_SECOND)
      carry == IF nsec >= NANOSECONDS_PER_SECOND THEN 1 ELSE 0 IN
  [tv_sec |-> now.tv_sec + (n \div NANOSECONDS_PER_SECOND) + carry,
   tv_nsec |-> nsec - carry * NANOSECONDS_PER_SECOND]

(* UTILS_TimespecCompare gives -1. *)
Before(x, y) == \/ x.tv_sec < y.tv_sec
                \/ x.tv_sec = y.tv_sec /\ x.tv_nsec < y.tv_nsec

(* UTILS_TimespecSubtract, of what is not before y *)
Subtract(x, y) ==
  LET borrow == IF x.tv_nsec < y.tv_nsec THEN 1 ELSE 0 IN
  [tv_sec |-> x.tv_sec - y.tv_sec - borrow,
   tv_nsec |-> x.tv_nsec - y.tv_nsec + borrow * NANOSECONDS_PER_SECOND]

(* UTILS_TimespecToTicks: a tick that has begun counts. *)
ToTicks(t) ==
  configTICK_RATE_HZ * t.tv_sec + (t.tv_nsec \div NANOSECONDS_PER_TICK)
    + (IF t.tv_nsec % NANOSECONDS_PER_TICK # 0 THEN 1 ELSE 0)

(* UTILS_AbsoluteTimespecToDeltaTicks: a time that is over, or further off *)
(* than a TickType_t can say, is refused; callers make ETIMEDOUT of both.  *)
Refuses(absolute, now) ==
  Before(absolute, now) \/ ToTicks(Subtract(absolute, now)) >= Width
DeltaTicks(absolute, now) == ToTicks(Subtract(absolute, now))

(* xRsTimeCheckTimeOut: what is left, in microseconds, of those left when  *)
(* it was called before                                                    *)
TimeLeft(then, left, now) ==
  LET ns == Nanoseconds(then) + Product(left) - Nanoseconds(now) IN
  IF ns > 0 THEN ns \div 1000 ELSE 0
=============================================================================
