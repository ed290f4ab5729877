--------------------------- MODULE Timespec_proofs ---------------------------
(***************************************************************************)
(* What a timeout becomes, for every time and every timeout.               *)
(***************************************************************************)
EXTENDS Timespec, TLAPS

(* rstime_waitnsec makes a valid time, n nanoseconds from now. *)
LEMMA Waited ==
  ASSUME NEW now \in Timespecs, NEW n \in Nat
  PROVE  /\ WaitNsec(now, n) \in Timespecs
         /\ Nanoseconds(WaitNsec(now, n)) = Nanoseconds(now) + n
<1> DEFINE s == n \div NANOSECONDS_PER_SECOND
           r == n % NANOSECONDS_PER_SECOND
<1>1. s \in Nat /\ r \in Nat /\ r < NANOSECONDS_PER_SECOND /\ n = s * NANOSECONDS_PER_SECOND + r
  BY SMT DEF NANOSECONDS_PER_SECOND
<1>2. now.tv_sec \in Int /\ now.tv_nsec \in Nat /\ now.tv_nsec < NANOSECONDS_PER_SECOND
  BY SMT DEF Timespecs
<1> HIDE DEF s, r
<1>3. CASE now.tv_nsec + r >= NANOSECONDS_PER_SECOND
  <2>1. WaitNsec(now, n) = [tv_sec |-> now.tv_sec + s + 1,
                            tv_nsec |-> now.tv_nsec + r - NANOSECONDS_PER_SECOND]
    BY SMT, <1>1, <1>2, <1>3 DEF WaitNsec, s, r, NANOSECONDS_PER_SECOND
  <2> QED
    BY SMT, <1>1, <1>2, <1>3, <2>1 DEF Timespecs, Nanoseconds, NANOSECONDS_PER_SECOND
<1>4. CASE ~(now.tv_nsec + r >= NANOSECONDS_PER_SECOND)
  <2>1. WaitNsec(now, n) = [tv_sec |-> now.tv_sec + s, tv_nsec |-> now.tv_nsec + r]
    BY SMT, <1>1, <1>2, <1>4 DEF WaitNsec, s, r, NANOSECONDS_PER_SECOND
  <2> QED
    BY SMT, <1>1, <1>2, <1>4, <2>1 DEF Timespecs, Nanoseconds, NANOSECONDS_PER_SECOND
<1> QED
  BY SMT, <1>3, <1>4

(* Times are compared as numbers of nanoseconds are. *)
LEMMA Compared ==
  ASSUME NEW x \in Timespecs, NEW y \in Timespecs
  PROVE  Before(x, y) <=> Nanoseconds(x) < Nanoseconds(y)
<1>1. /\ x.tv_sec \in Int /\ x.tv_nsec \in Nat /\ x.tv_nsec < NANOSECONDS_PER_SECOND
      /\ y.tv_sec \in Int /\ y.tv_nsec \in Nat /\ y.tv_nsec < NANOSECONDS_PER_SECOND
  BY SMT DEF Timespecs
<1>2. CASE x.tv_sec < y.tv_sec
  <2>1. x.tv_sec + 1 <= y.tv_sec
    BY SMT, <1>1, <1>2
  <2> QED
    BY SMT, <1>1, <1>2, <2>1 DEF Before, Nanoseconds, NANOSECONDS_PER_SECOND
<1>3. CASE x.tv_sec > y.tv_sec
  BY SMT, <1>1, <1>3 DEF Before, Nanoseconds, NANOSECONDS_PER_SECOND
<1>4. CASE x.tv_sec = y.tv_sec
  BY SMT, <1>1, <1>4 DEF Before, Nanoseconds, NANOSECONDS_PER_SECOND
<1> QED
  BY SMT, <1>1, <1>2, <1>3, <1>4

(* Their difference is a valid time. *)
LEMMA Subtracted ==
  ASSUME NEW x \in Timespecs, NEW y \in Timespecs, ~Before(x, y)
  PROVE  /\ Subtract(x, y) \in Timespecs
         /\ Subtract(x, y).tv_sec >= 0
         /\ Nanoseconds(Subtract(x, y)) = Nanoseconds(x) - Nanoseconds(y)
<1>1. /\ x.tv_sec \in Int /\ x.tv_nsec \in Nat /\ x.tv_nsec < NANOSECONDS_PER_SECOND
      /\ y.tv_sec \in Int /\ y.tv_nsec \in Nat /\ y.tv_nsec < NANOSECONDS_PER_SECOND
  BY SMT DEF Timespecs
<1>2. CASE x.tv_nsec < y.tv_nsec
  <2>1. Subtract(x, y) = [tv_sec |-> x.tv_sec - y.tv_sec - 1,
                          tv_nsec |-> x.tv_nsec - y.tv_nsec + NANOSECONDS_PER_SECOND]
    BY SMT, <1>1, <1>2 DEF Subtract, NANOSECONDS_PER_SECOND
  <2> QED
    BY SMT, <1>1, <1>2, <2>1 DEF Timespecs, Nanoseconds, Before, NANOSECONDS_PER_SECOND
<1>3. CASE ~(x.tv_nsec < y.tv_nsec)
  <2>1. Subtract(x, y) = [tv_sec |-> x.tv_sec - y.tv_sec, tv_nsec |-> x.tv_nsec - y.tv_nsec]
    BY SMT, <1>1, <1>3 DEF Subtract, NANOSECONDS_PER_SECOND
  <2> QED
    BY SMT, <1>1, <1>3, <2>1 DEF Timespecs, Nanoseconds, Before, NANOSECONDS_PER_SECOND
<1> QED
  BY SMT, <1>2, <1>3

(* The ticks of a time cover it, and no whole tick more. *)
LEMMA Rounded ==
  ASSUME NEW t \in Timespecs
  PROVE  /\ ToTicks(t) \in Int
         /\ ToTicks(t) * NANOSECONDS_PER_TICK >= Nanoseconds(t)
         /\ ToTicks(t) * NANOSECONDS_PER_TICK < Nanoseconds(t) + NANOSECONDS_PER_TICK
<1> DEFINE q == t.tv_nsec \div NANOSECONDS_PER_TICK
           r == t.tv_nsec % NANOSECONDS_PER_TICK
<1>1. t.tv_sec \in Int /\ t.tv_nsec \in Nat /\ t.tv_nsec < NANOSECONDS_PER_SECOND
  BY SMT DEF Timespecs
<1>2. q \in Int /\ r \in Nat /\ r < NANOSECONDS_PER_TICK /\ t.tv_nsec = q * NANOSECONDS_PER_TICK + r
  BY SMT, <1>1 DEF NANOSECONDS_PER_TICK, NANOSECONDS_PER_SECOND
<1>3. ToTicks(t) = 100 * t.tv_sec + q + (IF r # 0 THEN 1 ELSE 0)
  BY SMT DEF ToTicks, configTICK_RATE_HZ
<1> HIDE DEF q, r
<1> QED
  BY SMT, <1>1, <1>2, <1>3 DEF Nanoseconds, NANOSECONDS_PER_TICK, NANOSECONDS_PER_SECOND

(* A wait for n nanoseconds, whose ticks are counted a while later, is     *)
(* refused if and only if the time is over by then; otherwise it is for as *)
(* long as is left, and less than a tick longer.                           *)
LEMMA Waits ==
  ASSUME NEW now \in Timespecs, NEW later \in Timespecs, NEW n \in Nat, n < Width,
         Nanoseconds(now) <= Nanoseconds(later)
  PROVE  LET absolute == WaitNsec(now, n)
             elapsed == Nanoseconds(later) - Nanoseconds(now)
             ticks == DeltaTicks(absolute, later) IN
         /\ Refuses(absolute, later) <=> elapsed > n
         /\ ~Refuses(absolute, later) =>
              /\ ticks * NANOSECONDS_PER_TICK >= n - elapsed
              /\ ticks * NANOSECONDS_PER_TICK < n - elapsed + NANOSECONDS_PER_TICK
<1> DEFINE absolute == WaitNsec(now, n)
           elapsed == Nanoseconds(later) - Nanoseconds(now)
           ticks == DeltaTicks(absolute, later)
<1>1. absolute \in Timespecs /\ Nanoseconds(absolute) = Nanoseconds(now) + n
  BY SMT, Waited
<1>2. Nanoseconds(now) \in Int /\ Nanoseconds(later) \in Int
  BY SMT DEF Nanoseconds, Timespecs, NANOSECONDS_PER_SECOND
<1> HIDE DEF absolute
<1>3. Before(absolute, later) <=> elapsed > n
  BY SMT, <1>1, <1>2, Compared
<1>4. ASSUME ~Before(absolute, later)
      PROVE  /\ ticks \in Int
             /\ ticks * NANOSECONDS_PER_TICK >= n - elapsed
             /\ ticks * NANOSECONDS_PER_TICK < n - elapsed + NANOSECONDS_PER_TICK
             /\ ticks < Width
  <2> DEFINE d == Subtract(absolute, later)
  <2>1. d \in Timespecs /\ Nanoseconds(d) = Nanoseconds(absolute) - Nanoseconds(later)
    BY SMT, <1>1, <1>4, Subtracted
  <2>2. Nanoseconds(d) = n - elapsed
    BY SMT, <1>1, <1>2, <2>1
  <2> HIDE DEF d
  <2>3. /\ ToTicks(d) \in Int
        /\ ToTicks(d) * NANOSECONDS_PER_TICK >= n - elapsed
        /\ ToTicks(d) * NANOSECONDS_PER_TICK < n - elapsed + NANOSECONDS_PER_TICK
    BY SMT, <2>1, <2>2, Rounded
  <2>4. ToTicks(d) < Width
    BY SMT, <1>2, <2>3 DEF Width, NANOSECONDS_PER_TICK
  <2>5. ticks = ToTicks(d)
    BY SMT DEF DeltaTicks, d
  <2> QED
    BY SMT, <2>3, <2>4, <2>5
<1>5. Refuses(absolute, later) <=> elapsed > n
  BY SMT, <1>3, <1>4 DEF Refuses, DeltaTicks, Width
<1>6. ~Refuses(absolute, later) => ~Before(absolute, later)
  BY SMT DEF Refuses
<1> QED
  BY SMT, <1>4, <1>5, <1>6 DEF absolute

(* A wait of a network buffer, a queue or a semaphore for us microseconds  *)
(* is given up neither before its time nor a tick after it, provided that  *)
(* the product does not wrap (posix_rstime.c:24-42,                        *)
(* FreeRTOS_POSIX_utils.c:62-159).                                         *)
THEOREM WaitsAsAsked ==
  ASSUME NEW now \in Timespecs, NEW later \in Timespecs, NEW us \in Nat,
         us * 1000 < Width,
         Nanoseconds(now) <= Nanoseconds(later)
  PROVE  LET absolute == WaitNsec(now, Product(us))
             elapsed == Nanoseconds(later) - Nanoseconds(now)
             ticks == DeltaTicks(absolute, later) IN
         /\ Refuses(absolute, later) <=> elapsed > us * 1000
         /\ ~Refuses(absolute, later) =>
              /\ ticks * NANOSECONDS_PER_TICK >= us * 1000 - elapsed
              /\ ticks * NANOSECONDS_PER_TICK < us * 1000 - elapsed + NANOSECONDS_PER_TICK
<1>1. Product(us) = us * 1000
  BY SMT DEF Product, Width
<1>2. Product(us) \in Nat /\ Product(us) < Width
  BY SMT, <1>1
<1> QED
  BY SMT, <1>1, <1>2, Waits

(* The event of RINA_flow_alloc is sent with portMAX_DELAY, to wait for    *)
(* ever (rina_api.c:339).  The product wraps, and the wait is for 4.3      *)
(* seconds and refused when those are over.                                *)
THEOREM ForEverEnds ==
  ASSUME NEW now \in Timespecs, NEW later \in Timespecs,
         Nanoseconds(now) <= Nanoseconds(later)
  PROVE  LET absolute == WaitNsec(now, Product(Width - 1)) IN
         /\ Nanoseconds(later) - Nanoseconds(now) > Width - 1000 <=> Refuses(absolute, later)
         /\ ~Refuses(absolute, later) => DeltaTicks(absolute, later) <= 430
<1> DEFINE absolute == WaitNsec(now, Width - 1000)
           ticks == DeltaTicks(absolute, later)
<1>1. Product(Width - 1) = Width - 1000
  BY SMT DEF Product, Width
<1>2. Width - 1000 \in Nat /\ Width - 1000 < Width
  BY SMT DEF Width
<1>3. /\ Refuses(absolute, later) <=> Nanoseconds(later) - Nanoseconds(now) > Width - 1000
      /\ ~Refuses(absolute, later) =>
           ticks * NANOSECONDS_PER_TICK < Width - 1000 - (Nanoseconds(later) - Nanoseconds(now))
                                            + NANOSECONDS_PER_TICK
  BY SMT, <1>2, Waits
<1>4. Nanoseconds(now) \in Int /\ Nanoseconds(later) \in Int
  BY SMT DEF Nanoseconds, Timespecs, NANOSECONDS_PER_SECOND
<1>5. ~Refuses(absolute, later) => ticks \in Int
  <2>1. absolute \in Timespecs
    BY SMT, <1>2, Waited
  <2> HIDE DEF absolute
  <2>2. ~Refuses(absolute, later) => Subtract(absolute, later) \in Timespecs
    BY SMT, <2>1, Subtracted DEF Refuses
  <2> QED
    BY SMT, <2>2, Rounded DEF DeltaTicks
<1> HIDE DEF absolute, ticks
<1>6. ~Refuses(absolute, later) => ticks <= 430
  BY SMT, <1>3, <1>4, <1>5 DEF Width, NANOSECONDS_PER_TICK
<1> QED
  BY SMT, <1>1, <1>3, <1>6 DEF absolute, ticks

(* Whatever is asked, product wrapped or not, what is left of a timeout is *)
(* never more than was left before: RINA_flow_write, which waits for a     *)
(* buffer and then for a place in the queue, waits no longer for both than *)
(* it would for one (posix_rstime.c:52-84, rina_api.c:460-491).            *)
THEOREM TimeRunsOut ==
  ASSUME NEW then \in Timespecs, NEW now \in Timespecs, NEW left \in Nat,
         Nanoseconds(then) <= Nanoseconds(now)
  PROVE  TimeLeft(then, left, now) \in 0 .. left
<1> DEFINE ns == Nanoseconds(then) + Product(left) - Nanoseconds(now)
<1>1. Product(left) \in Nat /\ Product(left) <= left * 1000
  BY SMT DEF Product, Width
<1>2. Nanoseconds(then) \in Int /\ Nanoseconds(now) \in Int
  BY SMT DEF Nanoseconds, Timespecs, NANOSECONDS_PER_SECOND
<1>3. ns \in Int /\ ns <= left * 1000
  BY SMT, <1>1, <1>2
<1>4. TimeLeft(then, left, now) = IF ns > 0 THEN ns \div 1000 ELSE 0
  BY SMT DEF TimeLeft
<1> HIDE DEF ns
<1>5. ns > 0 => ns \div 1000 \in 0 .. left
  BY SMT, <1>3
<1> QED
  BY SMT, <1>4, <1>5
=============================================================================
