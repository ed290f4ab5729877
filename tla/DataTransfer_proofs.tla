------------------------ MODULE DataTransfer_proofs ------------------------
(***************************************************************************)
(* Proofs about DataTransfer, for any size of the numbers, of the queue    *)
(* and of the traffic.                                                     *)
(***************************************************************************)
EXTENDS DataTransfer, SequenceTheorems, TLAPS

(* A header is of a PDU of the flow, of a stray, or torn. *)
LEMMA CopyNumbers ==
  \A c \in Copies : /\ c.n \in Int /\ c.sdu \in Nat
                    /\ c = [n |-> c.n, sdu |-> c.sdu]
                    /\ c.n > 0 \/ c.n = Stray \/ c.n \in TornHeaders
                    /\ c.n > 0 => c.n \in Nat \ {0}
<1> SUFFICES ASSUME NEW c \in Copies
             PROVE  /\ c.n \in Int /\ c.sdu \in Nat
                    /\ c = [n |-> c.n, sdu |-> c.sdu]
                    /\ c.n > 0 \/ c.n = Stray \/ c.n \in TornHeaders
                    /\ c.n > 0 => c.n \in Nat \ {0}
  OBVIOUS
<1>1. /\ c.n \in Ordinals \cup {Stray} \cup TornHeaders
      /\ c.sdu \in Ordinals \cup {Stray} /\ c = [n |-> c.n, sdu |-> c.sdu]
  BY DEF Copies
<1> QED  BY <1>1, DataTransferAssumption DEF Ordinals, Stray, TornHeaders

LEMMA OrdinalsPositive == \A n \in Ordinals : n \in Nat /\ n > 0
BY DataTransferAssumption DEF Ordinals

LEMMA TornNegative == \A n \in TornHeaders : n \in Int /\ n < 0
BY DataTransferAssumption DEF TornHeaders

(* A copy has a part of the PDU n. *)
Part(n, p) == n \in {p.n, p.sdu}

(* Of a line of copies: a copy comes after all that it follows, with its   *)
(* data and with a header that is not torn, and no header comes after two  *)
(* parts of its PDU.                                                       *)
Ordered(s) == \A i, j \in DOMAIN s : i < j =>
                /\ s[j].n > 0 => s[i].n <= s[j].n /\ s[i].sdu <= s[j].n
                /\ s[j].sdu # Stray => s[i].n <= s[j].sdu /\ s[i].sdu <= s[j].sdu
AtMostTwo(s) == \A i, j, k \in DOMAIN s :
                  i < j /\ j < k /\ s[k].n > 0
                    => ~(Part(s[k].n, s[i]) /\ Part(s[k].n, s[j]))
Whole(s) == \A i \in DOMAIN s : s[i].sdu # Stray => s[i].n <= s[i].sdu
Good(s) == Ordered(s) /\ AtMostTwo(s) /\ Whole(s)

(* How the PDU n relates to a line of copies. *)
UpTo(n, s) == \A i \in DOMAIN s : s[i].n <= n /\ s[i].sdu <= n
Below(n, s) == \A i \in DOMAIN s : s[i].n < n /\ s[i].sdu < n
Never(n, s) == \A i \in DOMAIN s : ~Part(n, s[i])
Once(n, s) == \A i, j \in DOMAIN s : Part(n, s[i]) /\ Part(n, s[j]) => i = j

(* The line t is the line s with some copies left out. *)
Within(t, s) == \E g \in [DOMAIN t -> DOMAIN s] :
                   /\ \A i \in DOMAIN t : t[i] = s[g[i]]
                   /\ \A i, j \in DOMAIN t : i < j => g[i] < g[j]

-----------------------------------------------------------------------------
(* What is left of a line is no worse than the line. *)
LEMMA WithinGood ==
  ASSUME NEW s \in Seq(Copies), NEW t \in Seq(Copies), Within(t, s)
  PROVE  /\ Good(s) => Good(t)
         /\ \A n \in Nat : /\ UpTo(n, s) => UpTo(n, t)
                           /\ Below(n, s) => Below(n, t)
                           /\ Never(n, s) => Never(n, t)
                           /\ Once(n, s) => Once(n, t)
<1>1. PICK g \in [DOMAIN t -> DOMAIN s] :
        /\ \A i \in DOMAIN t : t[i] = s[g[i]]
        /\ \A i, j \in DOMAIN t : i < j => g[i] < g[j]
  BY DEF Within
<1>2. Ordered(s) => Ordered(t)  BY <1>1 DEF Ordered
<1>3. ASSUME AtMostTwo(s) PROVE AtMostTwo(t)
  <2> SUFFICES ASSUME NEW i \in DOMAIN t, NEW j \in DOMAIN t, NEW k \in DOMAIN t,
                      i < j, j < k, t[k].n > 0
               PROVE  ~(Part(t[k].n, t[i]) /\ Part(t[k].n, t[j]))
    BY DEF AtMostTwo
  <2>1. /\ g[i] \in DOMAIN s /\ g[j] \in DOMAIN s /\ g[k] \in DOMAIN s
        /\ g[i] < g[j] /\ g[j] < g[k]
        /\ t[i] = s[g[i]] /\ t[j] = s[g[j]] /\ t[k] = s[g[k]]
    BY <1>1
  <2> QED  BY <1>3, <2>1 DEF AtMostTwo
<1>4. Whole(s) => Whole(t)  BY <1>1 DEF Whole
<1>5. ASSUME NEW n \in Nat
      PROVE  /\ UpTo(n, s) => UpTo(n, t)
             /\ Below(n, s) => Below(n, t)
             /\ Never(n, s) => Never(n, t)
  BY <1>1 DEF UpTo, Below, Never
<1>6. ASSUME NEW n \in Nat, Once(n, s) PROVE Once(n, t)
  <2> SUFFICES ASSUME NEW i \in DOMAIN t, NEW j \in DOMAIN t,
                      Part(n, t[i]), Part(n, t[j])
               PROVE  i = j
    BY DEF Once
  <2>1. g[i] = g[j]  BY <1>1, <1>6 DEF Once
  <2>2. i \in Nat /\ j \in Nat  BY LenProperties
  <2>3. ~(i < j) /\ ~(j < i)
    <3>1. g[i] \in Nat /\ g[j] \in Nat  BY <1>1, LenProperties
    <3> QED  BY <1>1, <2>1, <3>1
  <2> QED  BY <2>2, <2>3
<1> QED  BY <1>2, <1>3, <1>4, <1>5, <1>6 DEF Good

(* The first copy of the queue is left out. *)
LEMMA WithinTail ==
  ASSUME NEW a \in Seq(Copies), NEW q \in Seq(Copies), q # <<>>
  PROVE  /\ a \o q \in Seq(Copies) /\ a \o Tail(q) \in Seq(Copies)
         /\ Within(a \o Tail(q), a \o q)
<1> DEFINE s == a \o q
           t == a \o Tail(q)
           g == [i \in DOMAIN t |-> IF i <= Len(a) THEN i ELSE i + 1]
<1>1. /\ Tail(q) \in Seq(Copies) /\ Len(Tail(q)) = Len(q) - 1
      /\ \A i \in 1 .. Len(Tail(q)) : Tail(q)[i] = q[i + 1]
  BY HeadTailProperties
<1>2. /\ s \in Seq(Copies) /\ Len(s) = Len(a) + Len(q)
      /\ \A i \in 1 .. Len(a) + Len(q) : s[i] = IF i <= Len(a) THEN a[i] ELSE q[i - Len(a)]
  BY ConcatProperties
<1>3. /\ t \in Seq(Copies) /\ Len(t) = Len(a) + Len(Tail(q))
      /\ \A i \in 1 .. Len(a) + Len(Tail(q)) :
            t[i] = IF i <= Len(a) THEN a[i] ELSE Tail(q)[i - Len(a)]
  BY <1>1, ConcatProperties
<1>4. Len(a) \in Nat /\ Len(q) \in Nat  BY LenProperties
<1>5. DOMAIN t = 1 .. (Len(a) + Len(q)) - 1 /\ DOMAIN s = 1 .. Len(a) + Len(q)
  BY <1>1, <1>2, <1>3, <1>4, LenProperties
<1> HIDE DEF s, t
<1>6. g \in [DOMAIN t -> DOMAIN s]  BY <1>4, <1>5
<1>7. ASSUME NEW i \in DOMAIN t PROVE t[i] = s[g[i]]
  <2>1. CASE i <= Len(a)  BY <1>1, <1>2, <1>3, <1>4, <1>5, <2>1
  <2>2. CASE i > Len(a)
    <3>0. i \in 1 .. Len(a) + Len(Tail(q)) /\ ~(i <= Len(a))
      BY <1>1, <1>4, <1>5, <2>2
    <3>1. t[i] = Tail(q)[i - Len(a)]  BY <1>3, <3>0
    <3>2. Tail(q)[i - Len(a)] = q[(i - Len(a)) + 1]  BY <1>1, <1>4, <1>5, <2>2
    <3>3. g[i] = i + 1 /\ s[i + 1] = q[(i + 1) - Len(a)]  BY <1>2, <1>4, <1>5, <2>2
    <3>4. (i + 1) - Len(a) = (i - Len(a)) + 1  BY <1>4, <1>5
    <3> QED  BY <3>1, <3>2, <3>3, <3>4
  <2> QED  BY <1>4, <1>5, <2>1, <2>2
<1>8. \A i, j \in DOMAIN t : i < j => g[i] < g[j]  BY <1>4, <1>5
<1>9. Within(t, s)  BY <1>6, <1>7, <1>8 DEF Within
<1> QED  BY <1>2, <1>3, <1>9 DEF s, t

(* The first copy of the queue is delivered: the line is the same. *)
LEMMA LineDelivered ==
  ASSUME NEW a \in Seq(Copies), NEW q \in Seq(Copies), q # <<>>
  PROVE  Append(a, Head(q)) \o Tail(q) = a \o q
<1> DEFINE b == Append(a, Head(q))
           s == a \o q
           t == b \o Tail(q)
<1>1. /\ Head(q) \in Copies /\ Tail(q) \in Seq(Copies) /\ Len(Tail(q)) = Len(q) - 1
      /\ \A i \in 1 .. Len(Tail(q)) : Tail(q)[i] = q[i + 1]
      /\ Head(q) = q[1]
  BY HeadTailProperties
<1>2. b \in Seq(Copies) /\ Len(b) = Len(a) + 1 /\ b[Len(a) + 1] = Head(q)
      /\ \A i \in 1 .. Len(a) : b[i] = a[i]
  BY <1>1
<1>3. /\ s \in Seq(Copies) /\ Len(s) = Len(a) + Len(q)
      /\ \A i \in 1 .. Len(a) + Len(q) : s[i] = IF i <= Len(a) THEN a[i] ELSE q[i - Len(a)]
  BY ConcatProperties
<1> HIDE DEF b
<1>4. /\ t \in Seq(Copies) /\ Len(t) = Len(b) + Len(Tail(q))
      /\ \A i \in 1 .. Len(b) + Len(Tail(q)) :
            t[i] = IF i <= Len(b) THEN b[i] ELSE Tail(q)[i - Len(b)]
  BY <1>1, <1>2, ConcatProperties
<1>5. Len(a) \in Nat /\ Len(q) \in Nat  BY LenProperties
<1> HIDE DEF s, t
<1>6. ASSUME NEW i \in 1 .. Len(t) PROVE t[i] = s[i]
  <2>0. i \in 1 .. Len(a) + Len(q) /\ Len(t) = Len(a) + Len(q)
    BY <1>1, <1>2, <1>4, <1>5
  <2>1. CASE i <= Len(a)
    <3>1. t[i] = b[i]  BY <1>1, <1>2, <1>4, <1>5, <2>0, <2>1
    <3>2. s[i] = a[i]  BY <1>3, <2>0, <2>1
    <3>3. b[i] = a[i]  BY <1>2, <1>5, <2>0, <2>1
    <3> QED  BY <3>1, <3>2, <3>3
  <2>2. CASE i = Len(a) + 1  BY <1>1, <1>2, <1>3, <1>4, <1>5, <2>0, <2>2
  <2>3. CASE i > Len(a) + 1
    <3>1. t[i] = Tail(q)[i - Len(b)]  BY <1>1, <1>2, <1>4, <1>5, <2>0, <2>3
    <3>2. Tail(q)[i - Len(b)] = q[(i - Len(b)) + 1]  BY <1>1, <1>2, <1>5, <2>0, <2>3
    <3>3. s[i] = q[i - Len(a)]  BY <1>3, <1>5, <2>0, <2>3
    <3>4. (i - Len(b)) + 1 = i - Len(a)  BY <1>2, <1>5, <2>0
    <3> QED  BY <3>1, <3>2, <3>3, <3>4
  <2> QED  BY <1>5, <2>0, <2>1, <2>2, <2>3
<1>7. Len(t) = Len(s)  BY <1>1, <1>2, <1>3, <1>4, <1>5
<1> QED  BY <1>3, <1>4, <1>6, <1>7, SeqEqual DEF b, s, t

(* The order of arrival of the packets of a list. *)
ByArrival(list) == IF list = <<>> THEN <<>> ELSE <<Head(list)>> \o Reverse(Tail(list))

LEMMA ArrivedDef == Arrived = ByArrival(xListWaitingPackets)
BY DEF Arrived, ByArrival

LEMMA ReverseSeq ==
  ASSUME NEW s \in Seq(Copies)
  PROVE  /\ Reverse(s) \in Seq(Copies) /\ Len(Reverse(s)) = Len(s)
         /\ \A i \in 1 .. Len(s) : Reverse(s)[i] = s[(Len(s) - i) + 1]
<1>1. Len(s) \in Nat /\ \A i \in 1 .. Len(s) : s[i] \in Copies
  BY LenProperties
<1>2. \A i \in 1 .. Len(s) : (Len(s) - i) + 1 \in 1 .. Len(s)  BY <1>1
<1>3. Reverse(s) \in [1 .. Len(s) -> Copies]  BY <1>1, <1>2 DEF Reverse
<1> QED  BY <1>1, <1>3 DEF Reverse

LEMMA ByArrivalSeq == \A list \in Seq(Copies) : ByArrival(list) \in Seq(Copies)
<1> SUFFICES ASSUME NEW list \in Seq(Copies), list # <<>>
             PROVE  <<Head(list)>> \o Reverse(Tail(list)) \in Seq(Copies)
  BY DEF ByArrival
<1>1. Head(list) \in Copies /\ Tail(list) \in Seq(Copies)  BY HeadTailProperties
<1>2. Reverse(Tail(list)) \in Seq(Copies)  BY <1>1, ReverseSeq
<1>3. <<Head(list)>> \in Seq(Copies)  BY <1>1
<1> QED  BY <1>2, <1>3, ConcatProperties

(* A packet that is inserted after the first one has arrived last. *)
LEMMA InsertArrives ==
  ASSUME NEW list \in Seq(Copies), NEW p \in Copies
  PROVE  /\ Insert(list, p) \in Seq(Copies)
         /\ ByArrival(Insert(list, p)) = Append(ByArrival(list), p)
<1>1. CASE list = <<>>
  <2>1. Insert(list, p) = <<p>>  BY <1>1 DEF Insert
  <2>2. Tail(<<p>>) = <<>> /\ Head(<<p>>) = p /\ <<p>> # <<>> /\ <<p>> \in Seq(Copies)
    OBVIOUS
  <2>3. Reverse(<<>>) = <<>>
    <3>1. <<>> \in Seq(Copies) /\ Len(<<>>) = 0  BY EmptySeq
    <3>2. Reverse(<<>>) \in Seq(Copies) /\ Len(Reverse(<<>>)) = 0  BY <3>1, ReverseSeq
    <3> QED  BY <3>2, EmptySeq
  <2>4. ByArrival(<<p>>) = <<p>> \o <<>>  BY <2>2, <2>3 DEF ByArrival
  <2>5. <<p>> \o <<>> = <<p>>  BY <2>2, ConcatEmptySeq
  <2>6. Append(<<>>, p) = <<p>>  OBVIOUS
  <2> QED  BY <1>1, <2>1, <2>2, <2>4, <2>5, <2>6 DEF ByArrival
<1>2. CASE list # <<>>
  <2> DEFINE h == Head(list)  t == Tail(list)  u == <<h, p>> \o t  v == <<p>> \o t
             r == Reverse(t)  w == Reverse(v)
  <2>1. h \in Copies /\ t \in Seq(Copies)  BY <1>2, HeadTailProperties
  <2>2. Insert(list, p) = u  BY <1>2 DEF Insert
  <2>3. Len(t) \in Nat  BY <2>1, LenProperties
  <2>4. <<h, p>> \in Seq(Copies) /\ Len(<<h, p>>) = 2
        /\ <<h, p>>[1] = h /\ <<h, p>>[2] = p
    BY <2>1
  <2>5. <<p>> \in Seq(Copies) /\ Len(<<p>>) = 1 /\ <<p>>[1] = p  OBVIOUS
  <2> HIDE DEF h, t
  <2>6. /\ u \in Seq(Copies) /\ Len(u) = 2 + Len(t)
        /\ \A i \in 1 .. 2 + Len(t) : u[i] = IF i <= 2 THEN <<h, p>>[i] ELSE t[i - 2]
    BY <2>1, <2>4, ConcatProperties
  <2>7. /\ v \in Seq(Copies) /\ Len(v) = 1 + Len(t)
        /\ \A i \in 1 .. 1 + Len(t) : v[i] = IF i <= 1 THEN <<p>>[i] ELSE t[i - 1]
    BY <2>1, <2>5, ConcatProperties
  <2>8. u # <<>>  BY <2>3, <2>6
  <2> HIDE DEF u, v
  <2>9. /\ Tail(u) \in Seq(Copies) /\ Len(Tail(u)) = Len(u) - 1
        /\ \A i \in 1 .. Len(Tail(u)) : Tail(u)[i] = u[i + 1]
    BY <2>6, <2>8, HeadTailProperties
  <2>10. Head(u) = h  BY <2>3, <2>4, <2>6, <2>8
  <2>11. Tail(u) = v
    <3>1. Len(Tail(u)) = Len(v)  BY <2>3, <2>6, <2>7, <2>9
    <3>2. ASSUME NEW i \in 1 .. Len(v) PROVE Tail(u)[i] = v[i]
      <4>1. Tail(u)[i] = u[i + 1] /\ i + 1 \in 1 .. 2 + Len(t) /\ i \in 1 .. 1 + Len(t)
        BY <2>3, <2>7, <2>9, <3>1
      <4>2. CASE i = 1  BY <2>3, <2>4, <2>5, <2>6, <2>7, <4>1, <4>2
      <4>3. CASE i # 1
        <5>1. u[i + 1] = t[(i + 1) - 2] /\ v[i] = t[i - 1]
          BY <2>3, <2>6, <2>7, <4>1, <4>3
        <5>2. (i + 1) - 2 = i - 1  BY <2>3
        <5> QED  BY <4>1, <5>1, <5>2
      <4> QED  BY <4>2, <4>3
    <3> QED  BY <2>7, <2>9, <3>1, <3>2, SeqEqual
  <2>12. /\ r \in Seq(Copies) /\ Len(r) = Len(t)
         /\ \A i \in 1 .. Len(t) : r[i] = t[(Len(t) - i) + 1]
    BY <2>1, ReverseSeq
  <2>13. /\ w \in Seq(Copies) /\ Len(w) = Len(v)
         /\ \A i \in 1 .. Len(v) : w[i] = v[(Len(v) - i) + 1]
    BY <2>7, ReverseSeq
  <2> HIDE DEF r, w
  <2>14. w = Append(r, p)
    <3>1. Append(r, p) \in Seq(Copies) /\ Len(Append(r, p)) = Len(r) + 1
          /\ Append(r, p)[Len(r) + 1] = p
          /\ \A i \in 1 .. Len(r) : Append(r, p)[i] = r[i]
      BY <2>12
    <3>2. ASSUME NEW i \in 1 .. Len(w) PROVE w[i] = Append(r, p)[i]
      <4>1. w[i] = v[(Len(v) - i) + 1] /\ (Len(v) - i) + 1 = (Len(t) - i) + 2
            /\ (Len(t) - i) + 2 \in 1 .. 1 + Len(t) /\ i \in 1 .. 1 + Len(t)
        BY <2>3, <2>7, <2>13
      <4>2. CASE i = Len(t) + 1
        BY <2>3, <2>5, <2>7, <2>12, <3>1, <4>1, <4>2
      <4>3. CASE i # Len(t) + 1
        <5>1. i \in 1 .. Len(t) /\ ~((Len(t) - i) + 2 <= 1)  BY <2>3, <4>1, <4>3
        <5>2. v[(Len(t) - i) + 2] = t[((Len(t) - i) + 2) - 1]  BY <2>7, <4>1, <5>1
        <5>3. Append(r, p)[i] = t[(Len(t) - i) + 1]  BY <2>12, <3>1, <5>1
        <5>4. ((Len(t) - i) + 2) - 1 = (Len(t) - i) + 1  BY <2>3, <5>1
        <5> QED  BY <4>1, <5>2, <5>3, <5>4
      <4> QED  BY <4>2, <4>3
    <3> QED  BY <2>3, <2>7, <2>12, <2>13, <3>1, <3>2, SeqEqual
  <2>15. ByArrival(u) = <<h>> \o Append(r, p)
    BY <2>8, <2>10, <2>11, <2>14 DEF ByArrival, w
  <2>16. ByArrival(list) = <<h>> \o r  BY <1>2 DEF ByArrival, h, t, r
  <2>17. <<h>> \o Append(r, p) = Append(<<h>> \o r, p)
    <3>1. <<h>> \in Seq(Copies) /\ <<p>> \in Seq(Copies)  BY <2>1
    <3>2. \A s \in Seq(Copies) : Append(s, p) = s \o <<p>>
      BY <3>1, AppendIsConcat
    <3>3. <<h>> \o r \in Seq(Copies)  BY <2>12, <3>1, ConcatProperties
    <3> QED  BY <2>12, <3>1, <3>2, <3>3, ConcatAssociative
  <2> QED  BY <2>2, <2>6, <2>15, <2>16, <2>17
<1> QED  BY <1>1, <1>2

(* A copy joins the end of a line. *)
LEMMA AppendGood ==
  ASSUME NEW s \in Seq(Copies), NEW p \in Copies, Good(s),
         p.n > 0 => UpTo(p.n, s) /\ Once(p.n, s),
         p.sdu # Stray => UpTo(p.sdu, s) /\ p.n <= p.sdu
  PROVE  Good(Append(s, p))
<1> DEFINE t == Append(s, p)
<1>1. /\ Len(s) \in Nat /\ DOMAIN s = 1 .. Len(s) /\ DOMAIN t = 1 .. Len(s) + 1
      /\ t[Len(s) + 1] = p /\ \A i \in 1 .. Len(s) : t[i] = s[i]
  BY LenProperties
<1> HIDE DEF t
<1>2. Ordered(t)
  <2> SUFFICES ASSUME NEW i \in DOMAIN t, NEW j \in DOMAIN t, i < j
               PROVE  /\ t[j].n > 0 => t[i].n <= t[j].n /\ t[i].sdu <= t[j].n
                      /\ t[j].sdu # Stray => t[i].n <= t[j].sdu /\ t[i].sdu <= t[j].sdu
    BY DEF Ordered
  <2>1. i \in 1 .. Len(s) /\ t[i] = s[i]  BY <1>1
  <2>2. CASE j \in 1 .. Len(s)  BY <1>1, <2>1, <2>2 DEF Good, Ordered
  <2>3. CASE j = Len(s) + 1  BY <1>1, <2>1, <2>3 DEF UpTo
  <2> QED  BY <1>1, <2>2, <2>3
<1>3. AtMostTwo(t)
  <2> SUFFICES ASSUME NEW i \in DOMAIN t, NEW j \in DOMAIN t, NEW k \in DOMAIN t,
                      i < j, j < k, t[k].n > 0, Part(t[k].n, t[i]), Part(t[k].n, t[j])
               PROVE  FALSE
    BY DEF AtMostTwo
  <2>1. /\ i \in 1 .. Len(s) /\ t[i] = s[i] /\ j \in 1 .. Len(s) /\ t[j] = s[j]
    BY <1>1
  <2>2. CASE k \in 1 .. Len(s)  BY <1>1, <2>1, <2>2 DEF Good, AtMostTwo
  <2>3. CASE k = Len(s) + 1  BY <1>1, <2>1, <2>3 DEF Once
  <2> QED  BY <1>1, <2>2, <2>3
<1>4. Whole(t)
  <2> SUFFICES ASSUME NEW i \in DOMAIN t, t[i].sdu # Stray PROVE t[i].n <= t[i].sdu
    BY DEF Whole
  <2>1. CASE i \in 1 .. Len(s)  BY <1>1, <2>1 DEF Good, Whole
  <2>2. CASE i = Len(s) + 1  BY <1>1, <2>2
  <2> QED  BY <1>1, <2>1, <2>2
<1> QED  BY <1>2, <1>3, <1>4 DEF Good, t

LEMMA AppendRelates ==
  ASSUME NEW s \in Seq(Copies), NEW p \in Copies, NEW n \in Nat
  PROVE  /\ UpTo(n, s) /\ p.n <= n /\ p.sdu <= n => UpTo(n, Append(s, p))
         /\ Below(n, s) /\ p.n < n /\ p.sdu < n => Below(n, Append(s, p))
         /\ Never(n, s) => Once(n, Append(s, p))
<1> DEFINE t == Append(s, p)
<1>1. /\ Len(s) \in Nat /\ DOMAIN s = 1 .. Len(s) /\ DOMAIN t = 1 .. Len(s) + 1
      /\ t[Len(s) + 1] = p /\ \A i \in 1 .. Len(s) : t[i] = s[i]
  BY LenProperties
<1>2. \A i \in DOMAIN t : i \in DOMAIN s \/ i = Len(s) + 1  BY <1>1
<1> HIDE DEF t
<1>3. UpTo(n, s) /\ p.n <= n /\ p.sdu <= n => UpTo(n, t)  BY <1>1, <1>2 DEF UpTo
<1>4. Below(n, s) /\ p.n < n /\ p.sdu < n => Below(n, t)  BY <1>1, <1>2 DEF Below
<1>5. Never(n, s) => Once(n, t)  BY <1>1, <1>2 DEF Never, Once
<1> QED  BY <1>3, <1>4, <1>5 DEF t

(* Below is stronger than the other relations. *)
LEMMA BelowRelates ==
  ASSUME NEW s \in Seq(Copies), NEW n \in Nat, Below(n, s)
  PROVE  UpTo(n, s) /\ Never(n, s) /\ Once(n, s)
<1>1. \A i \in DOMAIN s : s[i] \in Copies  BY LenProperties
<1>2. \A i \in DOMAIN s : s[i].n \in Int /\ s[i].sdu \in Nat
  BY <1>1, CopyNumbers
<1> QED  BY <1>2 DEF Below, UpTo, Never, Once, Part

-----------------------------------------------------------------------------
LEMMA NumberType ==
  \A n \in Ordinals \cup {Stray} \cup TornHeaders : SN(n) \in 0 .. SeqSize - 1
<1>1. \A n \in Ordinals \cup {Stray} : n \in Nat
  BY DataTransferAssumption DEF Ordinals, Stray
<1>2. \A n \in Nat : ~(n < 0) /\ n % SeqSize \in 0 .. SeqSize - 1
  BY DataTransferAssumption
<1>3. \A n \in TornHeaders : n < 0 /\ -1 - n \in 0 .. SeqSize - 1
  BY DataTransferAssumption DEF TornHeaders
<1> QED  BY <1>1, <1>2, <1>3 DEF SN, Torn

(* The rest of a header from the frame in the buffer: it stays as it is,   *)
(* is the header of that frame, or is torn, if that is another frame.      *)
LEMMA HeadersOf ==
  ASSUME NEW a, NEW b, NEW h \in Headers(a, b)
  PROVE  h = a \/ h = b \/ (a # b /\ h \in TornHeaders)
<1>1. \A x \in Mixes(a, b) : x \in 0 .. SeqSize - 1  BY DEF Mixes
<1>2. \A x \in 0 .. SeqSize - 1 : Torn(x) \in TornHeaders
  BY DataTransferAssumption DEF Torn, TornHeaders
<1> QED  BY <1>1, <1>2 DEF Headers

LEMMA InitType == Init => TypeOK
<1> SUFFICES ASSUME Init PROVE TypeOK  OBVIOUS
<1>1. <<>> \in Seq(Copies) /\ <<>> \in Seq(Ordinals) /\ Len(<<>>) = 0  OBVIOUS
<1>2. [n |-> Stray, sdu |-> Stray] \in Copies  BY DEF Copies
<1>3. /\ 0 \in 0 .. MaxSent /\ 0 \in 0 .. MaxStrays /\ 0 \in 0 .. SeqSize - 1
      /\ 0 <= Flight /\ 0 <= Length
  BY DataTransferAssumption
<1>4. /\ out \in Seq(Ordinals) /\ Len(out) <= Flight
      /\ queue \in Seq(Copies) /\ Len(queue) <= Length
      /\ xListWaitingPackets \in Seq(Copies)
  BY <1>1, <1>3 DEF Init
<1> QED  BY <1>2, <1>3, <1>4 DEF Init, StateVectorInit, TypeOK

LEMMA NextType == ASSUME TypeOK, [Next]_vars PROVE TypeOK'
<1>0. /\ xNextSeqNumberToSend \in 0 .. MaxSent /\ strays \in 0 .. MaxStrays
      /\ MaxSent \in Nat /\ MaxStrays \in Nat
  BY DataTransferAssumption DEF TypeOK
<1> USE DataTransferAssumption
<1>1. CASE UNCHANGED vars
  BY <1>1 DEF TypeOK, vars, sender, driver, dtp
<1>2. CASE UpdateFlowStatus
  BY <1>2 DEF TypeOK, UpdateFlowStatus, driver, dtp
<1>3. CASE DuWrite
  <2>0. Sequencing  BY <1>3 DEF DuWrite, DtpWrite
  <2>1. xNextSeqNumberToSend' \in 0 .. MaxSent /\ xNextSeqNumberToSend' \in Ordinals
    BY <1>0, <2>0 DEF Sequencing, Ordinals
  <2>2. out' \in Seq(Ordinals) /\ Len(out') <= Flight
    <3>1. out \in Seq(Ordinals) /\ Len(out) <= Flight  BY DEF TypeOK
    <3>2. CASE UNCHANGED out  BY <3>1, <3>2
    <3>3. CASE Len(out) < Flight /\ out' = Append(out, xNextSeqNumberToSend')
      BY <2>1, <3>1, <3>3
    <3> QED  BY <1>3, <3>2, <3>3 DEF DuWrite, DtpWrite, PduSend, RmtSend
  <2> QED  BY <1>3, <2>1, <2>2 DEF DuWrite, TypeOK, driver, dtp
<1>4. CASE Lose \/ ReceiveData
  <2>1. Head(out) \in Ordinals /\ Tail(out) \in Seq(Ordinals) /\ Len(Tail(out)) <= Flight
    <3>1. out \in Seq(Ordinals) /\ out # <<>> /\ Len(out) <= Flight
      BY <1>4 DEF Lose, ReceiveData, TypeOK
    <3>2. Head(out) \in Ordinals /\ Tail(out) \in Seq(Ordinals) /\ Len(Tail(out)) = Len(out) - 1
      BY <3>1, HeadTailProperties
    <3>3. Len(out) \in Nat  BY <3>1, LenProperties
    <3> QED  BY <3>1, <3>2, <3>3
  <2> QED  BY <1>4, <2>1 DEF Lose, ReceiveData, ReceiveDone, TypeOK, sender, driver, dtp
<1>5. CASE ReceiveStray \/ Take
  <2>1. CASE ReceiveStray
    <3>1. strays' \in 0 .. MaxStrays  BY <1>0, <2>1 DEF ReceiveStray
    <3> QED  BY <2>1, <3>1 DEF ReceiveStray, ReceiveDone, TypeOK, sender, dtp
  <2>2. CASE Take  BY <2>2 DEF Take, TypeOK, sender, dtp
  <2> QED  BY <1>5, <2>1, <2>2
<1>6. CASE CopyHeader \/ CopyNumber
  <2>1. CASE CopyHeader  BY <2>1 DEF CopyHeader, TypeOK, Copies, sender, dtp
  <2>2. CASE CopyNumber
    <3>1. PICK h \in Headers(frame.n, rx_temp_buffer) :
            frame' = [n |-> h, sdu |-> rx_temp_buffer]
      BY <2>2 DEF CopyNumber
    <3>2. h \in Ordinals \cup {Stray} \cup TornHeaders
      BY <3>1, HeadersOf DEF TypeOK, Copies
    <3>3. frame' \in Copies  BY <3>1, <3>2 DEF TypeOK, Copies
    <3>4. torn' \in BOOLEAN  BY <2>2 DEF CopyNumber
    <3> QED  BY <2>2, <3>3, <3>4 DEF CopyNumber, TypeOK, sender, dtp
  <2> QED  BY <1>6, <2>1, <2>2
<1>7. CASE CopyRest
  <2>1. frame' \in Copies  BY <1>7 DEF CopyRest, TypeOK, Copies
  <2>2. queue' \in Seq(Copies) /\ Len(queue') <= Length
    <3>1. queue \in Seq(Copies) /\ Len(queue) <= Length  BY DEF TypeOK
    <3>2. CASE Len(queue) < Length
      <4>1. queue' = Append(queue, frame')  BY <1>7, <3>2 DEF CopyRest
      <4> QED  BY <2>1, <3>1, <3>2, <4>1
    <3>3. CASE ~(Len(queue) < Length)
      BY <1>7, <3>1, <3>3 DEF CopyRest
    <3> QED  BY <3>2, <3>3
  <2> QED  BY <1>7, <2>1, <2>2 DEF CopyRest, TypeOK, sender, dtp
<1>8. ASSUME NEW p \in Copies, StrayPdu(p) \/ ReceiveFirst(p) \/ ReceiveOld(p) \/ ReceiveNew(p)
      PROVE  TypeOK'
  <2>1. Received(p)  BY <1>8 DEF StrayPdu, ReceiveFirst, ReceiveOld, ReceiveNew, Receive
  <2>2. queue' \in Seq(Copies) /\ Len(queue') <= Length
    <3>1. queue \in Seq(Copies) /\ queue # <<>> /\ Len(queue) <= Length /\ queue' = Tail(queue)
      BY <2>1 DEF Received, TypeOK
    <3>2. Tail(queue) \in Seq(Copies) /\ Len(Tail(queue)) = Len(queue) - 1
      BY <3>1, HeadTailProperties
    <3>3. Len(queue) \in Nat  BY <3>1, LenProperties
    <3> QED  BY <3>1, <3>2, <3>3
  <2>3. UNCHANGED <<sender, out, driver, allocated>>  BY <2>1 DEF Received
  <2>4. Insert(xListWaitingPackets, p) \in Seq(Copies)  BY InsertArrives DEF TypeOK
  <2>5. SN(p.n) \in 0 .. SeqSize - 1  BY NumberType DEF Copies
  <2>6. /\ xDrfRequired' \in BOOLEAN /\ xRcvLeftWindowEdge' \in 0 .. SeqSize - 1
        /\ xListWaitingPackets' \in Seq(Copies)
        /\ fault' \in {"none", "released twice", "null"}
    <3>1. CASE StrayPdu(p) \/ ReceiveOld(p)
      BY <3>1 DEF StrayPdu, ReceiveOld, TypeOK, dtp
    <3>2. CASE ReceiveFirst(p) \/ ReceiveNew(p)
      BY <2>4, <2>5, <3>2 DEF ReceiveFirst, ReceiveNew, EfcpEnqueue, DuPost, TypeOK
    <3> QED  BY <1>8, <3>1, <3>2
  <2> QED  BY <2>2, <2>3, <2>6 DEF TypeOK, sender, driver
<1>9. CASE Allocate \/ FlowRead
  BY <1>9 DEF Allocate, FlowRead, TypeOK, sender, driver, dtp
<1> QED  BY <1>1, <1>2, <1>3, <1>4, <1>5, <1>6, <1>7, <1>8, <1>9 DEF Next

(* Every variable keeps its type, the window edge that of a number. *)
THEOREM StreamTyped == Spec => []TypeOK
BY InitType, NextType, PTL DEF Spec

(* The receive task loses no wake-up, though several interrupts give one:  *)
(* what it copies without a new notice is the frame in the buffer.         *)
Busy == rxPc \in {"header", "copy"}
CopyCurrent == Busy /\ ~notified => frame.n = rx_temp_buffer

LEMMA NextCopied ==
  ASSUME TypeOK, LastFrameTaken, CopyCurrent, [Next]_vars
  PROVE  LastFrameTaken' /\ CopyCurrent'
<1>1. CASE UNCHANGED <<driver>>
  BY <1>1 DEF LastFrameTaken, CopyCurrent, Busy, driver
<1>2. CASE ReceiveData \/ ReceiveStray \/ Take
  BY <1>2 DEF LastFrameTaken, CopyCurrent, Busy, ReceiveData, ReceiveStray, ReceiveDone,
              Take, At
<1>3. CASE CopyHeader
  BY <1>3 DEF LastFrameTaken, CopyCurrent, Busy, CopyHeader, At
<1>4. CASE CopyRest
  BY <1>4 DEF LastFrameTaken, CopyCurrent, Busy, CopyRest, At, TypeOK, Copies
<1>5. CASE UNCHANGED vars \/ UpdateFlowStatus \/ DuWrite \/ Lose \/ Allocate \/ FlowRead
  BY <1>1, <1>5 DEF vars, UpdateFlowStatus, DuWrite, Lose, Allocate, FlowRead
<1>6. ASSUME NEW p \in Copies, StrayPdu(p) \/ ReceiveFirst(p) \/ ReceiveOld(p) \/ ReceiveNew(p)
      PROVE  UNCHANGED driver
  BY <1>6 DEF StrayPdu, ReceiveFirst, ReceiveOld, ReceiveNew, Receive, Received
<1>7. CASE CopyNumber
  <2>1. PICK h \in Headers(frame.n, rx_temp_buffer) :
          /\ frame' = [n |-> h, sdu |-> rx_temp_buffer]
          /\ UNCHANGED <<notified, rx_temp_buffer>> /\ rxPc = "header"
          /\ rxPc' \in {"header", "copy"}
    BY <1>7 DEF CopyNumber, At
  <2>2. frame.n = rx_temp_buffer => h = rx_temp_buffer  BY <2>1, HeadersOf
  <2> QED  BY <2>1, <2>2 DEF LastFrameTaken, CopyCurrent, Busy
<1> QED  BY <1>1, <1>2, <1>3, <1>4, <1>5, <1>6, <1>7 DEF Next

(* A receive task that waits has copied the last frame, and whole. *)
THEOREM LastFrame == Spec => []LastFrameTaken
<1>1. Init => LastFrameTaken /\ CopyCurrent
  BY DEF Init, LastFrameTaken, CopyCurrent, Busy
<1> QED  BY <1>1, StreamTyped, NextCopied, PTL DEF Spec

-----------------------------------------------------------------------------
(* The copies that have been made, from those that have arrived to those   *)
(* that wait in the queue of events.                                       *)
Line == Arrived \o queue

(* Frames are sent in order, and come after all that has been received.    *)
Sendable == /\ \A i \in DOMAIN out : out[i] <= xNextSeqNumberToSend
            /\ \A i, j \in DOMAIN out : i < j => out[i] < out[j]
Behind == \A i \in DOMAIN out :
             /\ Below(out[i], Line)
             /\ rx_temp_buffer < out[i]
             /\ Busy => frame.n < out[i]
Bounded == /\ UpTo(xNextSeqNumberToSend, Line)
           /\ rx_temp_buffer <= xNextSeqNumberToSend
           /\ Busy => frame.n <= xNextSeqNumberToSend

(* A frame in the buffer comes after all copies; it has a part in one at   *)
(* most when its header is still to be copied, and in none if that will    *)
(* happen twice.                                                           *)
Coming == rx_temp_buffer # Stray =>
            /\ UpTo(rx_temp_buffer, Line)
            /\ rxPc = "wait" /\ notified => Once(rx_temp_buffer, Line)
            /\ rxPc = "input" => Once(rx_temp_buffer, Line)
            /\ rxPc # "wait" /\ notified => Never(rx_temp_buffer, Line)

(* So does the header that has been copied, before the frame in the buffer. *)
Copying == Busy /\ frame.n > 0 =>
             /\ UpTo(frame.n, Line) /\ Once(frame.n, Line)
             /\ rx_temp_buffer # Stray => frame.n <= rx_temp_buffer

Chain == /\ Good(Line)
         /\ Sendable /\ Behind /\ Bounded
         /\ Coming /\ Copying /\ CopyCurrent

LEMMA LineSeq == TypeOK => Arrived \in Seq(Copies) /\ queue \in Seq(Copies) /\ Line \in Seq(Copies)
<1> SUFFICES ASSUME TypeOK PROVE Arrived \in Seq(Copies) /\ queue \in Seq(Copies) /\ Line \in Seq(Copies)
  OBVIOUS
<1>1. xListWaitingPackets \in Seq(Copies) /\ queue \in Seq(Copies)  BY DEF TypeOK
<1>2. Arrived \in Seq(Copies)  BY <1>1, ArrivedDef, ByArrivalSeq
<1> QED  BY <1>1, <1>2, ConcatProperties DEF Line

LEMMA LineSame ==
  UNCHANGED <<xListWaitingPackets, queue>> => Line' = Line /\ Arrived' = Arrived
BY DEF Line, Arrived

LEMMA Numbers ==
  TypeOK => /\ rx_temp_buffer \in Nat /\ frame.n \in Int /\ frame.sdu \in Nat
            /\ xNextSeqNumberToSend \in Nat
            /\ \A i \in DOMAIN out : out[i] \in Nat \ {0} /\ i \in Nat
            /\ \A i \in DOMAIN Line : Line[i] \in Copies /\ Line[i].n \in Int /\ Line[i].sdu \in Nat
<1> SUFFICES ASSUME TypeOK
             PROVE  /\ rx_temp_buffer \in Nat /\ frame.n \in Int /\ frame.sdu \in Nat
                    /\ xNextSeqNumberToSend \in Nat
                    /\ \A i \in DOMAIN out : out[i] \in Nat \ {0} /\ i \in Nat
                    /\ \A i \in DOMAIN Line : Line[i] \in Copies /\ Line[i].n \in Int /\ Line[i].sdu \in Nat
  OBVIOUS
<1>1. Ordinals \subseteq Nat \ {0} /\ Stray \in Nat
  BY DataTransferAssumption DEF Ordinals, Stray
<1>2. \A c \in Copies : c.n \in Int /\ c.sdu \in Nat  BY CopyNumbers
<1>3. rx_temp_buffer \in Nat /\ frame \in Copies /\ out \in Seq(Ordinals)
      /\ xNextSeqNumberToSend \in Nat
  <2>1. rx_temp_buffer \in Ordinals \cup {Stray} /\ xNextSeqNumberToSend \in 0 .. MaxSent
        /\ frame \in Copies /\ out \in Seq(Ordinals)
    BY DEF TypeOK
  <2>2. MaxSent \in Nat  BY DataTransferAssumption
  <2> QED  BY <1>1, <2>1, <2>2
<1>4. \A i \in DOMAIN out : out[i] \in Ordinals /\ i \in Nat  BY <1>3, LenProperties
<1>5. \A i \in DOMAIN Line : Line[i] \in Copies  BY LineSeq, LenProperties
<1> QED  BY <1>1, <1>2, <1>3, <1>4, <1>5

LEMMA InitChain == Init => Chain
<1> SUFFICES ASSUME Init PROVE Chain  OBVIOUS
<1>1. out = <<>> /\ queue = <<>> /\ Arrived = <<>>
  BY DEF Init, Arrived
<1>2. <<>> \o <<>> = <<>>  OBVIOUS
<1>3. Line = <<>>  BY <1>1, <1>2 DEF Line
<1>4. DOMAIN <<>> = {}  OBVIOUS
<1>5. Good(Line) /\ \A n \in Nat : UpTo(n, Line)
  BY <1>3, <1>4 DEF Good, Ordered, AtMostTwo, Whole, UpTo
<1>6. Sendable /\ Behind  BY <1>1, <1>4 DEF Sendable, Behind
<1> QED
  BY <1>5, <1>6 DEF Init, StateVectorInit, Chain, Bounded, Coming, Copying, CopyCurrent, Busy, Stray

(* Where only the line changes, and only loses copies. *)
LEMMA ShrinkChain ==
  ASSUME TypeOK, TypeOK', Chain, Within(Line', Line) \/ Line' = Line,
         UNCHANGED <<xNextSeqNumberToSend, out, driver>>
  PROVE  Chain'
<1>0. /\ out' = out /\ rx_temp_buffer' = rx_temp_buffer /\ notified' = notified
      /\ rxPc' = rxPc /\ frame' = frame /\ xNextSeqNumberToSend' = xNextSeqNumberToSend
  BY DEF driver
<1>1. Line \in Seq(Copies) /\ Line' \in Seq(Copies)
  <2>1. xListWaitingPackets' \in Seq(Copies) /\ queue' \in Seq(Copies)  BY DEF TypeOK
  <2>2. Line' = ByArrival(xListWaitingPackets') \o queue'  BY DEF Line, Arrived, ByArrival
  <2>3. ByArrival(xListWaitingPackets') \in Seq(Copies)  BY <2>1, ByArrivalSeq
  <2> QED  BY <2>1, <2>2, <2>3, LineSeq, ConcatProperties
<1>2. /\ Good(Line) => Good(Line')
      /\ \A n \in Nat : /\ UpTo(n, Line) => UpTo(n, Line')
                        /\ Below(n, Line) => Below(n, Line')
                        /\ Never(n, Line) => Never(n, Line')
                        /\ Once(n, Line) => Once(n, Line')
  BY <1>1, WithinGood
<1>3. Good(Line)' <=> Good(Line')  BY DEF Good, Ordered, AtMostTwo, Whole, Part
<1>4. Good(Line)'  BY <1>2, <1>3 DEF Chain
<1>5. Sendable' /\ CopyCurrent'  BY <1>0 DEF Chain, Sendable, CopyCurrent, Busy
<1>6. Behind'
  <2>1. \A i \in DOMAIN out : Below(out[i], Line')  BY <1>2, Numbers DEF Chain, Behind
  <2> QED  BY <1>0, <2>1 DEF Chain, Behind, Below, Busy
<1>7. Bounded'
  BY <1>0, <1>2, Numbers DEF Chain, Bounded, UpTo, Busy
<1>8. Coming'
  BY <1>0, <1>2, Numbers DEF Chain, Coming, UpTo, Once, Never, Part
<1>9. Copying'
  BY <1>0, <1>2, Numbers DEF Chain, Copying, UpTo, Once, Part, Busy
<1> QED  BY <1>4, <1>5, <1>6, <1>7, <1>8, <1>9 DEF Chain

(* The next frame leaves the air. *)
LEMMA OutTail ==
  ASSUME TypeOK, Chain, out # <<>>
  PROVE  /\ Head(out) \in Nat \ {0} /\ Head(out) <= xNextSeqNumberToSend
         /\ Below(Head(out), Line)
         /\ rx_temp_buffer < Head(out) /\ (Busy => frame.n < Head(out))
         /\ \A i \in DOMAIN Tail(out) :
               /\ Tail(out)[i] \in Nat \ {0}
               /\ Tail(out)[i] <= xNextSeqNumberToSend
               /\ Below(Tail(out)[i], Line)
               /\ rx_temp_buffer < Tail(out)[i] /\ (Busy => frame.n < Tail(out)[i])
               /\ Head(out) < Tail(out)[i]
         /\ \A i, j \in DOMAIN Tail(out) : i < j => Tail(out)[i] < Tail(out)[j]
<1>1. out \in Seq(Ordinals)  BY DEF TypeOK
<1>2. /\ Tail(out) \in Seq(Ordinals) /\ Len(Tail(out)) = Len(out) - 1
      /\ \A i \in 1 .. Len(Tail(out)) : Tail(out)[i] = out[i + 1]
  BY <1>1, HeadTailProperties
<1>3. Head(out) = out[1]  BY <1>1
<1>4. /\ Len(out) \in Nat /\ DOMAIN out = 1 .. Len(out) /\ Len(out) > 0
      /\ DOMAIN Tail(out) = 1 .. Len(Tail(out))
  BY <1>1, <1>2, LenProperties, EmptySeq
<1>5. 1 \in DOMAIN out /\ \A i \in DOMAIN Tail(out) : i + 1 \in DOMAIN out /\ i \in Nat \ {0}
  BY <1>2, <1>4
<1>6. \A i \in DOMAIN Tail(out) : Tail(out)[i] = out[i + 1]  BY <1>2, <1>4
<1>7. \A i \in DOMAIN Tail(out) : out[1] < out[i + 1]
  BY <1>5 DEF Chain, Sendable
<1>8. \A i, j \in DOMAIN Tail(out) : i < j => out[i + 1] < out[j + 1]
  BY <1>5 DEF Chain, Sendable
<1> QED  BY <1>3, <1>5, <1>6, <1>7, <1>8, Numbers DEF Chain, Sendable, Behind

LEMMA LoseChain ==
  ASSUME TypeOK, Chain, out # <<>>, out' = Tail(out),
         UNCHANGED <<xNextSeqNumberToSend, driver, queue, xListWaitingPackets>>
  PROVE  Chain'
<1>1. Line' = Line  BY LineSame
<1>2. Good(Line)'  BY <1>1 DEF Chain, Good, Ordered, AtMostTwo, Whole, Part
<1>3. Sendable'  BY OutTail DEF Sendable
<1>4. Behind'  BY <1>1, OutTail DEF Behind, Below, Busy, driver
<1>5. Bounded' /\ Coming' /\ Copying' /\ CopyCurrent'
  BY <1>1 DEF Chain, Bounded, Coming, Copying, CopyCurrent, Busy, UpTo, Once, Never, Part, driver
<1> QED  BY <1>2, <1>3, <1>4, <1>5 DEF Chain

LEMMA SendChain == ASSUME TypeOK, Chain, DuWrite PROVE Chain'
<1>0. /\ Line' = Line /\ UNCHANGED driver
      /\ xNextSeqNumberToSend' = xNextSeqNumberToSend + 1
  BY LineSame DEF DuWrite, DtpWrite, Sequencing
<1> DEFINE m == xNextSeqNumberToSend + 1
<1>1. m \in Nat /\ Below(m, Line)
  BY Numbers DEF Chain, Bounded, UpTo, Busy, Below
<1>2. Good(Line)'  BY <1>0 DEF Chain, Good, Ordered, AtMostTwo, Whole, Part
<1>3. Bounded'  BY <1>0, Numbers DEF Chain, Bounded, UpTo, Busy, driver
<1>4. Coming' /\ Copying' /\ CopyCurrent'
  BY <1>0 DEF Chain, Coming, Copying, CopyCurrent, Busy, UpTo, Once, Never, Part, driver
<1>5. CASE UNCHANGED out
  <2>1. Sendable'  BY <1>0, <1>5, Numbers DEF Chain, Sendable
  <2>2. Behind'  BY <1>0, <1>5 DEF Chain, Behind, Below, Busy, driver
  <2> QED  BY <1>2, <1>3, <1>4, <2>1, <2>2 DEF Chain
<1>6. CASE out' = Append(out, m)
  <2>1. out \in Seq(Ordinals)  BY DEF TypeOK
  <2>2. /\ Len(out) \in Nat /\ DOMAIN out = 1 .. Len(out)
        /\ DOMAIN out' = 1 .. Len(out) + 1 /\ out'[Len(out) + 1] = m
        /\ \A i \in 1 .. Len(out) : out'[i] = out[i]
    BY <1>6, <2>1, LenProperties
  <2>3. \A i \in DOMAIN out' : (i \in DOMAIN out /\ out'[i] = out[i]) \/ (i = Len(out) + 1 /\ out'[i] = m)
    <3> SUFFICES ASSUME NEW i \in DOMAIN out'
                 PROVE  (i \in DOMAIN out /\ out'[i] = out[i]) \/ (i = Len(out) + 1 /\ out'[i] = m)
      OBVIOUS
    <3>1. i \in 1 .. Len(out) \/ i = Len(out) + 1  BY <2>2
    <3>2. CASE i \in 1 .. Len(out)  BY <2>2, <3>2
    <3>3. CASE i = Len(out) + 1  BY <2>2, <3>3
    <3> QED  BY <3>1, <3>2, <3>3
  <2>4. Sendable'
    <3>1. \A i \in DOMAIN out' : out'[i] <= m  BY <2>3, Numbers DEF Chain, Sendable
    <3>2. ASSUME NEW i \in DOMAIN out', NEW j \in DOMAIN out', i < j PROVE out'[i] < out'[j]
      <4>1. i \in DOMAIN out /\ out'[i] = out[i]  BY <2>2, <3>2
      <4>2. CASE j \in DOMAIN out /\ out'[j] = out[j]
        BY <3>2, <4>1, <4>2 DEF Chain, Sendable
      <4>3. CASE out'[j] = m  BY <4>1, <4>3, Numbers DEF Chain, Sendable
      <4> QED  BY <2>3, <4>2, <4>3
    <3> QED  BY <1>0, <3>1, <3>2 DEF Sendable
  <2>5. Behind'
    <3>1. rx_temp_buffer < m /\ (Busy => frame.n < m)
      BY Numbers DEF Chain, Bounded
    <3>2. \A i \in DOMAIN out' :
             /\ Below(out'[i], Line)
             /\ rx_temp_buffer < out'[i] /\ (Busy => frame.n < out'[i])
      BY <1>1, <2>3, <3>1 DEF Chain, Behind
    <3> QED  BY <1>0, <3>2 DEF Behind, Below, Busy, driver
  <2> QED  BY <1>2, <1>3, <1>4, <2>4, <2>5 DEF Chain
<1> QED  BY <1>0, <1>5, <1>6 DEF DuWrite, DtpWrite, PduSend, RmtSend

(* The interrupt: a new frame, which notified' announces. *)
LEMMA InterruptChain ==
  ASSUME TypeOK, Chain, ReceiveData \/ ReceiveStray
  PROVE  Chain'
<1>0. /\ Line' = Line /\ rxPc' = rxPc /\ frame' = frame /\ notified' = TRUE
      /\ xNextSeqNumberToSend' = xNextSeqNumberToSend
  BY LineSame DEF ReceiveData, ReceiveStray, ReceiveDone, sender
<1>1. Good(Line)'  BY <1>0 DEF Chain, Good, Ordered, AtMostTwo, Whole, Part
<1>2. CopyCurrent'  BY <1>0 DEF CopyCurrent
<1>3. CASE ReceiveData
  <2>0. out # <<>> /\ rx_temp_buffer' = Head(out) /\ out' = Tail(out)
    BY <1>3 DEF ReceiveData, ReceiveDone
  <2> DEFINE f == Head(out)
  <2>1. /\ f \in Nat \ {0} /\ f <= xNextSeqNumberToSend
        /\ Below(f, Line) /\ (Busy => frame.n < f)
    BY <2>0, OutTail
  <2>2. UpTo(f, Line) /\ Never(f, Line) /\ Once(f, Line)
    BY <2>1, LineSeq, BelowRelates
  <2>3. Sendable'  BY <1>0, <2>0, OutTail DEF Sendable
  <2>4. Behind'  BY <1>0, <2>0, OutTail DEF Behind, Below, Busy
  <2> HIDE DEF f
  <2>5. rx_temp_buffer' = f  BY <2>0 DEF f
  <2>6. Bounded'  BY <1>0, <2>1, <2>5 DEF Chain, Bounded, UpTo, Busy
  <2>7. Coming'  BY <1>0, <2>2, <2>5 DEF Coming, UpTo, Never, Once, Part
  <2>8. Copying'
    BY <1>0, <2>1, <2>5, Numbers DEF Chain, Copying, UpTo, Once, Part, Busy
  <2> QED  BY <1>1, <1>2, <2>3, <2>4, <2>6, <2>7, <2>8 DEF Chain
<1>4. CASE ReceiveStray
  <2>0. out' = out /\ rx_temp_buffer' = Stray
    BY <1>4 DEF ReceiveStray, ReceiveDone
  <2>1. Sendable'  BY <1>0, <2>0 DEF Chain, Sendable
  <2>2. Behind'  BY <1>0, <2>0, Numbers DEF Chain, Behind, Below, Busy, Stray
  <2>3. Bounded'  BY <1>0, <2>0, Numbers DEF Chain, Bounded, UpTo, Busy, Stray
  <2>4. Coming'  BY <2>0 DEF Coming
  <2>5. Copying'  BY <1>0, <2>0 DEF Chain, Copying, UpTo, Once, Part, Busy
  <2> QED  BY <1>1, <1>2, <2>1, <2>2, <2>3, <2>4, <2>5 DEF Chain
<1> QED  BY <1>3, <1>4

LEMMA TakeChain ==
  ASSUME TypeOK, Chain, Take \/ CopyHeader \/ CopyNumber PROVE Chain'
<1>0. /\ Line' = Line /\ rx_temp_buffer' = rx_temp_buffer /\ out' = out
      /\ xNextSeqNumberToSend' = xNextSeqNumberToSend
  BY LineSame DEF Take, CopyHeader, CopyNumber, sender
<1>1. Good(Line)' /\ Sendable'
  BY <1>0 DEF Chain, Good, Ordered, AtMostTwo, Whole, Part, Sendable
<1>2. CASE Take
  <2>1. rxPc = "wait" /\ notified /\ rxPc' = "input" /\ notified' = FALSE
    BY <1>2 DEF Take, At
  <2>2. Behind' /\ Bounded'
    BY <1>0, <2>1 DEF Chain, Behind, Bounded, Busy, Below, UpTo
  <2>3. Coming'  BY <1>0, <2>1 DEF Chain, Coming, UpTo, Never, Once, Part
  <2>4. Copying' /\ CopyCurrent'  BY <2>1 DEF Copying, CopyCurrent, Busy
  <2> QED  BY <1>1, <2>2, <2>3, <2>4 DEF Chain
<1>3. CASE CopyHeader
  <2>1. /\ rxPc = "input" /\ rxPc' = "header" /\ notified' = notified
        /\ frame'.n = rx_temp_buffer
    BY <1>3 DEF CopyHeader, At
  <2>2. Behind' /\ Bounded'
    BY <1>0, <2>1 DEF Chain, Behind, Bounded, Busy, Below, UpTo
  <2>3. Coming'  BY <1>0, <2>1 DEF Chain, Coming, UpTo, Never, Once, Part
  <2>4. Copying'
    BY <1>0, <2>1, Numbers DEF Chain, Coming, Copying, Busy, UpTo, Once, Part, Stray
  <2>5. CopyCurrent'  BY <1>0, <2>1 DEF CopyCurrent
  <2> QED  BY <1>1, <2>2, <2>3, <2>4, <2>5 DEF Chain
<1>4. CASE CopyNumber
  <2>1. PICK h \in Headers(frame.n, rx_temp_buffer) :
          /\ frame' = [n |-> h, sdu |-> rx_temp_buffer]
          /\ rxPc = "header" /\ rxPc' \in {"header", "copy"} /\ notified' = notified
    BY <1>4 DEF CopyNumber, At
  <2>2. /\ frame'.n = h /\ Busy /\ Busy'
        /\ h = frame.n \/ h = rx_temp_buffer \/ (frame.n # rx_temp_buffer /\ h < 0 /\ h \in Int)
    BY <2>1, HeadersOf, TornNegative DEF Busy
  <2>3. h \in Int /\ rx_temp_buffer \in Nat /\ frame.n \in Int  BY <2>2, Numbers
  <2>4. Behind'
    <3>1. \A i \in DOMAIN out : h < out[i]
      <4> SUFFICES ASSUME NEW i \in DOMAIN out PROVE h < out[i]  OBVIOUS
      <4>1. frame.n < out[i] /\ rx_temp_buffer < out[i] /\ out[i] \in Nat
        BY <2>2, Numbers DEF Chain, Behind
      <4> QED  BY <2>2, <2>3, <4>1
    <3> QED  BY <1>0, <2>2, <3>1 DEF Chain, Behind, Below
  <2>5. Bounded'
    <3>1. h <= xNextSeqNumberToSend
      <4>1. /\ frame.n <= xNextSeqNumberToSend /\ rx_temp_buffer <= xNextSeqNumberToSend
            /\ xNextSeqNumberToSend \in Nat
        BY <2>2, Numbers DEF Chain, Bounded
      <4> QED  BY <2>2, <2>3, <4>1
    <3> QED  BY <1>0, <2>2, <3>1 DEF Chain, Bounded, UpTo
  <2>6. Coming'  BY <1>0, <2>1 DEF Chain, Coming, UpTo, Never, Once, Part
  <2>7. CopyCurrent'  BY <1>0, <2>1, <2>2 DEF Chain, CopyCurrent
  <2>8. Copying'
    <3> SUFFICES ASSUME h > 0
                 PROVE  /\ UpTo(h, Line) /\ Once(h, Line)
                        /\ rx_temp_buffer # Stray => h <= rx_temp_buffer
      BY <1>0, <2>2 DEF Copying, UpTo, Once, Part
    <3>1. CASE h = frame.n  BY <2>2, <3>1 DEF Chain, Copying
    <3>2. CASE h = rx_temp_buffer /\ h # frame.n
      <4>1. notified /\ rxPc # "wait"  BY <2>1, <2>2, <3>2 DEF Chain, CopyCurrent
      <4>2. rx_temp_buffer # Stray  BY <3>2 DEF Stray
      <4>3. UpTo(h, Line) /\ Never(h, Line)  BY <3>2, <4>1, <4>2 DEF Chain, Coming
      <4> QED  BY <2>3, <3>2, <4>3 DEF Never, Once
    <3> QED  BY <2>2, <2>3, <3>1, <3>2
  <2> QED  BY <1>1, <2>4, <2>5, <2>6, <2>7, <2>8 DEF Chain
<1> QED  BY <1>2, <1>3, <1>4

(* The copy is finished, and joins the line unless the queue is full. *)
LEMMA CopyChain == ASSUME TypeOK, TypeOK', Chain, CopyRest PROVE Chain'
<1>0. /\ rx_temp_buffer' = rx_temp_buffer /\ out' = out /\ notified' = notified
      /\ xNextSeqNumberToSend' = xNextSeqNumberToSend
      /\ rxPc = "copy" /\ Busy /\ rxPc' = "wait" /\ Arrived' = Arrived
  BY DEF CopyRest, At, Busy, sender, Arrived
<1>1. /\ frame'.n = frame.n /\ frame'.sdu = rx_temp_buffer /\ frame' \in Copies
  BY DEF CopyRest, TypeOK, Copies
<1>2. Sendable' /\ Copying' /\ CopyCurrent'
  BY <1>0 DEF Chain, Sendable, Copying, CopyCurrent, Busy
<1>3. CASE queue' = queue
  <2>1. Line' = Line  BY <1>0, <1>3 DEF Line
  <2>2. Good(Line)'  BY <2>1 DEF Chain, Good, Ordered, AtMostTwo, Whole, Part
  <2>3. Behind' /\ Bounded'  BY <1>0, <2>1 DEF Chain, Behind, Bounded, Busy, Below, UpTo
  <2>4. Coming'
    BY <1>0, <2>1 DEF Chain, Coming, UpTo, Never, Once, Part
  <2> QED  BY <1>2, <2>2, <2>3, <2>4 DEF Chain
<1>4. CASE queue' = Append(queue, frame')
  <2> DEFINE p == frame'  s == Line
  <2>1. p \in Copies /\ s \in Seq(Copies)  BY <1>1, LineSeq
  <2>2. Line' = Append(s, p)
    <3>1. Line' = Arrived \o Append(queue, p)  BY <1>0, <1>4 DEF Line
    <3>2. Arrived \in Seq(Copies) /\ queue \in Seq(Copies) /\ <<p>> \in Seq(Copies)
      BY <2>1, LineSeq
    <3> HIDE DEF p
    <3>3. Append(queue, p) = queue \o <<p>> /\ Append(s, p) = s \o <<p>>
      BY <2>1, <3>2, AppendIsConcat
    <3>4. (Arrived \o queue) \o <<p>> = Arrived \o (queue \o <<p>>)
      BY <3>2, ConcatAssociative
    <3> QED  BY <3>1, <3>3, <3>4 DEF Line
  <2>3. p.n = frame.n /\ p.sdu = rx_temp_buffer  BY <1>1
  <2> HIDE DEF p, s
  <2>4. Good(Append(s, p))
    <3>1. p.n > 0 => UpTo(p.n, s) /\ Once(p.n, s)
      BY <1>0, <2>3 DEF Chain, Copying, s
    <3>2. p.sdu # Stray => UpTo(p.sdu, s) /\ p.n <= p.sdu
      <4>0. p.sdu # Stray => UpTo(p.sdu, s)  BY <2>3 DEF Chain, Coming, s
      <4>1. CASE ~(frame.n > 0)  BY <2>3, <4>0, <4>1, Numbers
      <4>2. CASE frame.n > 0  BY <4>0, <1>0, <2>3, <4>2 DEF Chain, Copying
      <4> QED  BY <4>1, <4>2
    <3>3. Good(s)  BY DEF Chain, s
    <3> QED  BY <2>1, <3>1, <3>2, <3>3, AppendGood
  <2>5. Good(Line)'
    <3>1. Good(Line)' <=> Good(Line')  BY DEF Good, Ordered, AtMostTwo, Whole, Part
    <3> QED  BY <2>2, <2>4, <3>1
  <2>6. Behind'
    <3>1. ASSUME NEW i \in DOMAIN out PROVE Below(out[i], Append(s, p)) /\ rx_temp_buffer < out[i]
      <4>1. /\ out[i] \in Nat /\ Below(out[i], s)
            /\ p.n < out[i] /\ p.sdu < out[i] /\ rx_temp_buffer < out[i]
        BY <1>0, <2>3, Numbers DEF Chain, Behind, s
      <4> QED  BY <2>1, <4>1, AppendRelates
    <3> QED  BY <1>0, <2>2, <3>1 DEF Behind, Below, Busy
  <2>7. Bounded'
    <3>1. UpTo(xNextSeqNumberToSend, Append(s, p))
      <4>1. /\ xNextSeqNumberToSend \in Nat /\ UpTo(xNextSeqNumberToSend, s)
            /\ p.n <= xNextSeqNumberToSend /\ p.sdu <= xNextSeqNumberToSend
        BY <1>0, <2>3, Numbers DEF Chain, Bounded, s
      <4> QED  BY <2>1, <4>1, AppendRelates
    <3> QED  BY <1>0, <2>2, <3>1 DEF Chain, Bounded, UpTo, Busy
  <2>8. Coming'
    <3> DEFINE f == rx_temp_buffer
    <3>1. ASSUME f # Stray
          PROVE  UpTo(f, Append(s, p)) /\ (notified => Once(f, Append(s, p)))
      <4>1. f \in Nat /\ UpTo(f, s) /\ (notified => Never(f, s))
        BY <1>0, <3>1, Numbers DEF Chain, Coming, s
      <4>2. p.n <= f /\ p.sdu <= f
        <5>1. CASE ~(frame.n > 0)  BY <2>3, <5>1, Numbers
        <5>2. CASE frame.n > 0  BY <1>0, <2>3, <3>1, <5>2, Numbers DEF Chain, Copying
        <5> QED  BY <5>1, <5>2
      <4> QED  BY <2>1, <4>1, <4>2, AppendRelates
    <3> QED  BY <1>0, <2>2, <3>1 DEF Coming, UpTo, Once, Part
  <2> QED  BY <1>2, <2>5, <2>6, <2>7, <2>8 DEF Chain
<1> QED  BY <1>3, <1>4 DEF CopyRest

(* A packet that is posted arrives last; any other leaves the line. *)
LEMMA PostArrives ==
  ASSUME TypeOK, NEW p \in Copies, xListWaitingPackets' = Insert(xListWaitingPackets, p)
  PROVE  Arrived' = Append(Arrived, p)
<1>1. xListWaitingPackets \in Seq(Copies)  BY DEF TypeOK
<1>2. Arrived' = ByArrival(xListWaitingPackets')  BY DEF Arrived, ByArrival
<1> QED  BY <1>1, <1>2, ArrivedDef, InsertArrives

LEMMA ReceiveLine ==
  ASSUME TypeOK, NEW p \in Copies, Received(p),
         \/ xListWaitingPackets' = xListWaitingPackets
         \/ xListWaitingPackets' = Insert(xListWaitingPackets, p)
  PROVE  Within(Line', Line) \/ Line' = Line
<1>1. queue # <<>> /\ p = Head(queue) /\ queue' = Tail(queue)  BY DEF Received
<1>2. Arrived \in Seq(Copies) /\ queue \in Seq(Copies)  BY LineSeq
<1>3. CASE xListWaitingPackets' = xListWaitingPackets
  <2>1. Line' = Arrived \o Tail(queue)  BY <1>1, <1>3 DEF Line, Arrived
  <2>2. Within(Arrived \o Tail(queue), Arrived \o queue)  BY <1>1, <1>2, WithinTail
  <2> QED  BY <2>1, <2>2 DEF Line
<1>4. CASE xListWaitingPackets' = Insert(xListWaitingPackets, p)
  <2>1. Arrived' = Append(Arrived, Head(queue))  BY <1>1, <1>4, PostArrives
  <2>2. Line' = Append(Arrived, Head(queue)) \o Tail(queue)  BY <1>1, <2>1 DEF Line
  <2>3. Append(Arrived, Head(queue)) \o Tail(queue) = Arrived \o queue
    BY <1>1, <1>2, LineDelivered
  <2> QED  BY <2>2, <2>3 DEF Line
<1> QED  BY <1>3, <1>4

LEMMA NextChain == ASSUME TypeOK, TypeOK', Chain, [Next]_vars PROVE Chain'
<1>1. CASE UNCHANGED vars \/ UpdateFlowStatus \/ Allocate \/ FlowRead
  <2>1. UNCHANGED <<xNextSeqNumberToSend, out, driver, queue, xListWaitingPackets>>
    BY <1>1 DEF vars, sender, UpdateFlowStatus, Allocate, FlowRead
  <2> QED  BY <2>1, LineSame, ShrinkChain
<1>2. CASE DuWrite  BY <1>2, SendChain
<1>3. CASE Lose  BY <1>3, LoseChain DEF Lose, sender
<1>4. CASE ReceiveData \/ ReceiveStray  BY <1>4, InterruptChain
<1>5. CASE Take \/ CopyHeader \/ CopyNumber  BY <1>5, TakeChain
<1>6. CASE CopyRest  BY <1>6, CopyChain
<1>7. ASSUME NEW p \in Copies, StrayPdu(p) \/ ReceiveFirst(p) \/ ReceiveOld(p) \/ ReceiveNew(p)
      PROVE  Chain'
  <2>1. Received(p)  BY <1>7 DEF StrayPdu, ReceiveFirst, ReceiveOld, ReceiveNew, Receive
  <2>2. \/ xListWaitingPackets' = xListWaitingPackets
        \/ xListWaitingPackets' = Insert(xListWaitingPackets, p)
    BY <1>7 DEF StrayPdu, ReceiveFirst, ReceiveOld, ReceiveNew, EfcpEnqueue, DuPost
  <2>3. UNCHANGED <<xNextSeqNumberToSend, out, driver>>  BY <2>1 DEF Received, sender
  <2> QED  BY <2>1, <2>2, <2>3, ReceiveLine, ShrinkChain
<1> QED  BY <1>1, <1>2, <1>3, <1>4, <1>5, <1>6, <1>7 DEF Next

(* The next copy in the queue, if it is data of the flow, may come after   *)
(* what has arrived.                                                       *)
LEMMA HeadComes ==
  ASSUME TypeOK, Chain, NEW p \in Copies, Receive(p)
  PROVE  /\ p \in Stream!Packets
         /\ p.n \in TornHeaders \/ p.n > 0
         /\ p.sdu # 0 =>
              /\ p.n <= p.sdu
              /\ \A i \in DOMAIN Arrived : Arrived[i].n <= p.sdu /\ Arrived[i].sdu <= p.sdu
         /\ p.n > 0 =>
              /\ \A i \in DOMAIN Arrived : Arrived[i].n <= p.n /\ Arrived[i].sdu <= p.n
              /\ \A i, j \in DOMAIN Arrived :
                    Part(p.n, Arrived[i]) /\ Part(p.n, Arrived[j]) => i = j
<1> DEFINE k == Len(Arrived) + 1
<1>1. /\ Arrived \in Seq(Copies) /\ queue \in Seq(Copies) /\ queue # <<>> /\ p = Head(queue)
      /\ p.n # Stray /\ (p.n \in TornHeaders \/ p.n > 0)
  BY LineSeq, CopyNumbers DEF Receive, Received
<1>2. /\ Len(Arrived) \in Nat /\ DOMAIN Arrived = 1 .. Len(Arrived)
      /\ Len(queue) \in Nat \ {0} /\ Head(queue) = queue[1]
  BY <1>1, LenProperties, EmptySeq
<1>3. /\ Line \in Seq(Copies) /\ Len(Line) = Len(Arrived) + Len(queue)
      /\ \A i \in 1 .. Len(Arrived) + Len(queue) :
            Line[i] = IF i <= Len(Arrived) THEN Arrived[i] ELSE queue[i - Len(Arrived)]
  BY <1>1, ConcatProperties DEF Line
<1>4. DOMAIN Line = 1 .. Len(Arrived) + Len(queue)  BY <1>3, LenProperties
<1>5. k \in DOMAIN Line /\ Line[k] = p
  <2>1. k \in 1 .. Len(Arrived) + Len(queue) /\ ~(k <= Len(Arrived)) /\ k - Len(Arrived) = 1
    BY <1>2
  <2> QED  BY <1>1, <1>2, <1>3, <1>4, <2>1
<1>6. \A i \in DOMAIN Arrived : i \in DOMAIN Line /\ Line[i] = Arrived[i] /\ i < k
  BY <1>2, <1>3, <1>4
<1>7. Good(Line) /\ UpTo(xNextSeqNumberToSend, Line)  BY DEF Chain, Bounded
<1>8. p \in Stream!Packets
  <2>1. p.n \in Int /\ p.sdu \in Nat /\ p = [n |-> p.n, sdu |-> p.sdu]
    BY CopyNumbers
  <2>2. p.n <= xNextSeqNumberToSend /\ p.sdu <= xNextSeqNumberToSend
    BY <1>5, <1>7 DEF UpTo
  <2>3. xNextSeqNumberToSend \in Nat  BY Numbers
  <2>4. /\ p.n \in (1 .. xNextSeqNumberToSend) \cup TornHeaders
        /\ p.sdu \in 0 .. xNextSeqNumberToSend
    BY <1>1, <2>1, <2>2, <2>3
  <2> QED  BY <2>1, <2>4 DEF Stream!Packets
<1>9. p.sdu # 0 => p.n <= p.sdu  BY <1>5, <1>7 DEF Good, Whole, Stray
<1> HIDE DEF k
<1>10. /\ p.n > 0 => \A i \in DOMAIN Arrived : Arrived[i].n <= p.n /\ Arrived[i].sdu <= p.n
       /\ p.sdu # 0 =>
            \A i \in DOMAIN Arrived : Arrived[i].n <= p.sdu /\ Arrived[i].sdu <= p.sdu
  BY <1>1, <1>5, <1>6, <1>7 DEF Good, Ordered, Stray
<1>11. ASSUME p.n > 0, NEW i \in DOMAIN Arrived, NEW j \in DOMAIN Arrived,
              Part(p.n, Arrived[i]), Part(p.n, Arrived[j])
       PROVE  i = j
  <2>1. ~(i < j) /\ ~(j < i)  BY <1>5, <1>6, <1>7, <1>11 DEF Good, AtMostTwo
  <2> QED  BY <1>2, <2>1
<1> QED  BY <1>1, <1>8, <1>9, <1>10, <1>11

(* Whatever the interrupt overwrites, the radio loses and the queue        *)
(* refuses, and even as the numbers wrap: packets arrive in order, and the *)
(* header of a PDU comes after one part of it at most.  A packet with a    *)
(* torn header has data that keeps the order too.                          *)
THEOREM StreamKept == Spec => StreamSpec
<1>1. Spec => [](TypeOK /\ Chain)
  <2>1. Init => TypeOK /\ Chain  BY InitType, InitChain
  <2>2. ASSUME TypeOK /\ Chain, [Next]_vars PROVE (TypeOK /\ Chain)'
    BY <2>2, NextType, NextChain
  <2> QED  BY <2>1, <2>2, PTL DEF Spec
<1>2. Init => Stream!Init
  BY DEF Init, StateVectorInit, Arrived, Stream!Init
<1>3. ASSUME TypeOK /\ Chain, [Next]_vars
      PROVE  [Stream!Next]_<<xNextSeqNumberToSend, Arrived>>
  <2>1. CASE DuWrite
    <3>1. xNextSeqNumberToSend' = xNextSeqNumberToSend + 1 /\ Arrived' = Arrived
      BY <2>1 DEF DuWrite, DtpWrite, Sequencing, Arrived
    <3> QED  BY <3>1 DEF Stream!Next, Stream!Send
  <2>2. ASSUME NEW p \in Copies, ReceiveFirst(p) \/ ReceiveNew(p)
        PROVE  [Stream!Next]_<<xNextSeqNumberToSend, Arrived>>
    <3>1. Receive(p) /\ xNextSeqNumberToSend' = xNextSeqNumberToSend
      BY <2>2 DEF ReceiveFirst, ReceiveNew, Receive, Received, sender
    <3>2. CASE xListWaitingPackets' = xListWaitingPackets
      BY <3>1, <3>2 DEF Arrived
    <3>3. CASE xListWaitingPackets' = Insert(xListWaitingPackets, p)
      <4>1. Arrived' = Append(Arrived, p)  BY <1>3, <3>3, PostArrives
      <4>2. p \in Stream!Packets  BY <1>3, <3>1, HeadComes
      <4>3. p.sdu # 0 => Stream!InOrder(p.sdu) /\ p.n <= p.sdu
        BY <1>3, <3>1, HeadComes DEF Stream!InOrder, Stream!Parts
      <4>4. ASSUME p.n \notin TornHeaders
            PROVE  /\ Stream!InOrder(p.n)
                   /\ \A i, j \in DOMAIN Arrived :
                        p.n \in Stream!Parts(i) /\ p.n \in Stream!Parts(j) => i = j
        <5>1. p.n > 0  BY <1>3, <3>1, <4>4, HeadComes
        <5>2. Stream!InOrder(p.n)
          BY <1>3, <3>1, <5>1, HeadComes DEF Stream!InOrder, Stream!Parts
        <5>3. \A i, j \in DOMAIN Arrived :
                Part(p.n, Arrived[i]) /\ Part(p.n, Arrived[j]) => i = j
          BY <1>3, <3>1, <5>1, HeadComes
        <5> QED  BY <5>2, <5>3 DEF Part, Stream!Parts
      <4>5. Stream!Get(p)  BY <3>1, <4>1, <4>3, <4>4 DEF Stream!Get
      <4> QED  BY <4>2, <4>5 DEF Stream!Next
    <3> QED  BY <2>2, <3>2, <3>3 DEF ReceiveFirst, ReceiveNew, EfcpEnqueue, DuPost
  <2>3. CASE \/ UNCHANGED vars \/ UpdateFlowStatus \/ Lose \/ ReceiveData \/ ReceiveStray
             \/ Take \/ CopyHeader \/ CopyNumber \/ CopyRest \/ Allocate \/ FlowRead
             \/ \E p \in Copies : StrayPdu(p) \/ ReceiveOld(p)
    <3>1. xNextSeqNumberToSend' = xNextSeqNumberToSend /\ xListWaitingPackets' = xListWaitingPackets
      BY <2>3 DEF vars, sender, UpdateFlowStatus, Lose, ReceiveData, ReceiveStray, ReceiveDone,
                  Take, CopyHeader, CopyNumber, CopyRest, Allocate, FlowRead, StrayPdu,
                  ReceiveOld, Receive, Received
    <3> QED  BY <3>1 DEF Arrived
  <2> QED  BY <1>3, <2>1, <2>2, <2>3 DEF Next
<1> QED  BY <1>1, <1>2, <1>3, PTL DEF Spec, StreamSpec, Stream!Spec

-----------------------------------------------------------------------------
(* While numbers have not wrapped a PDU has its ordinal for a number. *)
LEMMA NotWrapped == \A n \in Nat : n < SeqSize => SN(n) = n
<1>1. \A n \in Nat : ~(n < 0) /\ (n < SeqSize => n % SeqSize = n)
  BY DataTransferAssumption
<1> QED  BY <1>1 DEF SN

(* Of the packets that have been posted, as long as none has a torn        *)
(* header: the edge of the window is in the midst of a gap, and of PDUs    *)
(* repeated some gap comes before.                                         *)
First == Arrived[1].n
Repeats == \A i, j \in DOMAIN Arrived :
             i < j /\ Arrived[i].n = Arrived[j].n => ~(First .. Arrived[i].n \subseteq Posted)
Window == /\ Arrived # <<>> => allocated /\ ~xDrfRequired
          /\ Arrived # <<>> /\ xNextSeqNumberToSend < SeqSize /\ Posted \subseteq Ordinals =>
               /\ First .. xRcvLeftWindowEdge \subseteq Posted
               /\ xRcvLeftWindowEdge + 1 \notin Posted
               /\ First <= xRcvLeftWindowEdge => Repeats

LEMMA ArrivedEmpty == TypeOK => (Arrived = <<>> <=> xListWaitingPackets = <<>>)
<1> SUFFICES ASSUME TypeOK, xListWaitingPackets # <<>> PROVE Arrived # <<>>
  BY DEF Arrived
<1> DEFINE h == Head(xListWaitingPackets)  r == Reverse(Tail(xListWaitingPackets))
<1>1. h \in Copies /\ r \in Seq(Copies)
  BY HeadTailProperties, ReverseSeq DEF TypeOK
<1>2. Arrived = <<h>> \o r  BY DEF Arrived
<1> HIDE DEF h, r
<1>3. <<h>> \in Seq(Copies) /\ Len(<<h>>) = 1 /\ Len(r) \in Nat  BY <1>1, LenProperties
<1>4. Len(<<h>> \o r) = 1 + Len(r)  BY <1>1, <1>3, ConcatProperties
<1> QED  BY <1>2, <1>3, <1>4, EmptySeq

LEMMA WindowImplies ==
  TypeOK /\ Window => NothingMissingBelowEdge /\ DuplicateOnlyAfterGap
BY ArrivedEmpty
   DEF Window, Repeats, First, NothingMissingBelowEdge, DuplicateOnlyAfterGap, InWindow

LEMMA PostWindow ==
  ASSUME TypeOK, Chain, Window, NEW p \in Copies, Receive(p), allocated,
         Arrived' = Append(Arrived, p), UNCHANGED <<xNextSeqNumberToSend, allocated>>,
         ~xDrfRequired', xNextSeqNumberToSend < SeqSize,
         Posted \subseteq Ordinals, p.n > 0,
         xRcvLeftWindowEdge \in Nat,
         \/ Arrived = <<>> /\ xRcvLeftWindowEdge' = p.n
         \/ /\ p.n > xRcvLeftWindowEdge
            /\ xRcvLeftWindowEdge' = IF p.n = xRcvLeftWindowEdge + 1 THEN p.n
                                     ELSE xRcvLeftWindowEdge
  PROVE  Window'
<1> DEFINE e == xRcvLeftWindowEdge  f == xRcvLeftWindowEdge'  n == p.n  l == Len(Arrived) + 1
<1>1. /\ Arrived \in Seq(Copies) /\ Len(Arrived) \in Nat /\ DOMAIN Arrived = 1 .. Len(Arrived)
      /\ DOMAIN Arrived' = 1 .. l /\ Arrived'[l] = p
      /\ \A i \in DOMAIN Arrived : Arrived'[i] = Arrived[i]
  BY LineSeq, LenProperties
<1>2. /\ n \in Nat \ {0} /\ \A i \in DOMAIN Arrived : Arrived[i].n <= n /\ Arrived[i].n \in Nat
  <2>1. p.n \in Nat \ {0}  BY CopyNumbers
  <2>2. \A i \in DOMAIN Arrived : Arrived[i].n \in Nat
    <3>1. \A i \in DOMAIN Arrived : Arrived[i].n \in Posted  BY DEF Posted
    <3> QED  BY <3>1, OrdinalsPositive
  <2> QED  BY <2>1, <2>2, HeadComes
<1>3. \A i \in DOMAIN Arrived' : i \in DOMAIN Arrived \/ i = l  BY <1>1
<1>4. Posted' = Posted \cup {n}  BY <1>1, <1>3 DEF Posted
<1>5. Posted \subseteq {x \in Nat : x <= n}  BY <1>2 DEF Posted
<1>6. Arrived' # <<>>  BY <1>1
<1> HIDE DEF e, f, n, l
<1>7. CASE Arrived = <<>>
  <2>1. Posted = {} /\ First' = n /\ \A i, j \in DOMAIN Arrived' : ~(i < j)
    BY <1>1, <1>7 DEF Posted, First, l, n
  <2>2. f \in Nat /\ (f = n \/ (n > f /\ f + 1 # n))  BY <1>2 DEF e, f, n
  <2>3. First' .. f \subseteq Posted'
    <3>1. \A x \in n .. f : x = n  BY <1>2, <2>2
    <3> QED  BY <1>4, <2>1, <3>1
  <2>4. f + 1 \notin Posted'  BY <1>2, <1>4, <2>1, <2>2
  <2>5. Repeats'  BY <2>1 DEF Repeats
  <2> QED  BY <1>6, <2>3, <2>4, <2>5 DEF Window, f
<1>8. CASE Arrived # <<>>
  <2>0. 1 \in DOMAIN Arrived /\ First' = First /\ First \in Nat /\ First \in Posted
    BY <1>1, <1>2, <1>8, EmptySeq DEF First, Posted
  <2>1. /\ First .. e \subseteq Posted /\ e + 1 \notin Posted /\ (First <= e => Repeats)
    BY <1>8 DEF Window, e
  <2>2. e \in Nat /\ n > e /\ f = IF n = e + 1 THEN n ELSE e
    BY <1>8 DEF e, f, n
  <2>3. First .. f \subseteq Posted'
    <3>1. CASE n = e + 1
      <4>1. \A x \in First .. f : x \in First .. e \/ x = n  BY <1>2, <2>0, <2>2, <3>1
      <4> QED  BY <1>4, <2>1, <4>1
    <3>2. CASE n # e + 1  BY <1>4, <2>1, <2>2, <3>2
    <3> QED  BY <3>1, <3>2
  <2>4. f + 1 \notin Posted'
    BY <1>2, <1>4, <1>5, <2>1, <2>2
  <2>5. ASSUME First <= f PROVE Repeats'
    <3>1. First <= e
      <4>1. CASE n = e + 1
        <5>1. First # e + 1  BY <2>0, <2>1
        <5> QED  BY <2>0, <2>2, <2>5, <4>1, <5>1
      <4>2. CASE n # e + 1  BY <2>2, <2>5, <4>2
      <4> QED  BY <4>1, <4>2
    <3> SUFFICES ASSUME NEW i \in DOMAIN Arrived', NEW j \in DOMAIN Arrived',
                        i < j, Arrived'[i].n = Arrived'[j].n,
                        First .. Arrived'[i].n \subseteq Posted'
                 PROVE  FALSE
      BY <2>0 DEF Repeats
    <3>2. i \in DOMAIN Arrived /\ Arrived'[i] = Arrived[i] /\ Arrived[i].n \in Posted
      BY <1>1, <1>3 DEF l, Posted
    <3>3. First .. Arrived[i].n \subseteq Posted
      <4>1. \A x \in First .. Arrived[i].n : x \in Posted \/ x = n  BY <1>4, <3>2
      <4>2. ASSUME n \in First .. Arrived[i].n PROVE n \in Posted
        <5>1. n = Arrived[i].n  BY <1>2, <2>0, <3>2, <4>2 DEF n
        <5> QED  BY <3>2, <5>1
      <4> QED  BY <4>1, <4>2
    <3>4. CASE j \in DOMAIN Arrived
      BY <1>1, <2>1, <3>1, <3>2, <3>3, <3>4 DEF Repeats
    <3>5. CASE j = l
      <4>1. Arrived[i].n = n /\ n \in Posted  BY <1>1, <3>2, <3>5 DEF n
      <4>2. e + 1 \in First .. n  BY <1>2, <2>0, <2>2, <3>1
      <4> QED  BY <2>1, <3>3, <4>1, <4>2
    <3> QED  BY <1>3, <3>4, <3>5
  <2> QED  BY <2>0, <2>3, <2>4, <2>5 DEF Window, f
<1> QED  BY <1>7, <1>8

(* The packets that have been posted and the window are as they were. *)
LEMMA SameWindow ==
  ASSUME TypeOK, TypeOK', Window, UNCHANGED <<xListWaitingPackets, dtp>>,
         allocated => allocated', xNextSeqNumberToSend <= xNextSeqNumberToSend'
  PROVE  Window'
<1>1. /\ Arrived' = Arrived /\ xDrfRequired' = xDrfRequired
      /\ xRcvLeftWindowEdge' = xRcvLeftWindowEdge
  BY DEF Arrived, dtp
<1>2. Posted' = Posted /\ First' = First  BY <1>1 DEF Posted, First
<1>3. Repeats' = Repeats  BY <1>1, <1>2 DEF Repeats
<1>4. xNextSeqNumberToSend' < SeqSize => xNextSeqNumberToSend < SeqSize
  <2>1. xNextSeqNumberToSend \in 0 .. MaxSent /\ xNextSeqNumberToSend' \in 0 .. MaxSent
    BY DEF TypeOK
  <2> QED  BY <2>1, DataTransferAssumption
<1> QED  BY <1>1, <1>2, <1>3, <1>4 DEF Window

LEMMA ReceiveWindow ==
  ASSUME TypeOK, Chain, Window, NEW p \in Copies, ReceiveFirst(p) \/ ReceiveNew(p)
  PROVE  Window'
<1>1. /\ Receive(p) /\ ~xDrfRequired' /\ DuPost(p)
      /\ UNCHANGED <<xNextSeqNumberToSend, allocated>>
  BY DEF ReceiveFirst, ReceiveNew, Receive, Received, EfcpEnqueue, sender
<1>2. CASE ~allocated
  <2>1. Arrived = <<>> /\ xListWaitingPackets' = xListWaitingPackets
    BY <1>1, <1>2 DEF Window, DuPost
  <2>2. Arrived' = <<>>  BY <2>1 DEF Arrived
  <2> QED  BY <2>2 DEF Window
<1>3. CASE allocated
  <2>1. Arrived' = Append(Arrived, p)  BY <1>1, <1>3, PostArrives DEF DuPost
  <2>2. CASE xNextSeqNumberToSend < SeqSize /\ Posted' \subseteq Ordinals
    <3>0. Posted \subseteq Ordinals /\ p.n > 0
      <4>1. Arrived \in Seq(Copies)  BY LineSeq
      <4>2. /\ DOMAIN Arrived' = 1 .. Len(Arrived) + 1 /\ DOMAIN Arrived = 1 .. Len(Arrived)
            /\ Len(Arrived) \in Nat /\ Arrived'[Len(Arrived) + 1] = p
            /\ \A i \in DOMAIN Arrived : Arrived'[i] = Arrived[i]
        BY <2>1, <4>1, LenProperties
      <4>3. Posted \subseteq Posted' /\ p.n \in Posted'  BY <4>2 DEF Posted
      <4> QED  BY <2>2, <4>3, OrdinalsPositive
    <3>1. SN(p.n) = p.n
      <4>1. p \in Stream!Packets  BY <1>1, HeadComes
      <4>2. p.n \in Nat /\ p.n <= xNextSeqNumberToSend
        BY <3>0, <4>1, Numbers, TornNegative DEF Stream!Packets
      <4>3. p.n < SeqSize  BY <2>2, <4>2, Numbers, DataTransferAssumption
      <4> QED  BY <4>2, <4>3, NotWrapped
    <3>2. xRcvLeftWindowEdge \in Nat
      <4>1. xRcvLeftWindowEdge \in 0 .. SeqSize - 1  BY DEF TypeOK
      <4> QED  BY <4>1
    <3>3. \/ Arrived = <<>> /\ xRcvLeftWindowEdge' = p.n
          \/ /\ p.n > xRcvLeftWindowEdge
             /\ xRcvLeftWindowEdge' = IF p.n = xRcvLeftWindowEdge + 1 THEN p.n
                                      ELSE xRcvLeftWindowEdge
      <4>1. CASE ReceiveFirst(p)  BY <3>1, <4>1 DEF ReceiveFirst, Window
      <4>2. CASE ReceiveNew(p)  BY <3>1, <4>2 DEF ReceiveNew
      <4> QED  BY <4>1, <4>2
    <3> QED  BY <1>1, <1>3, <2>1, <2>2, <3>0, <3>2, <3>3, PostWindow
  <2>3. CASE ~(xNextSeqNumberToSend < SeqSize /\ Posted' \subseteq Ordinals)
    BY <1>1, <1>3, <2>3 DEF Window
  <2> QED  BY <2>2, <2>3
<1> QED  BY <1>2, <1>3

LEMMA NextWindow ==
  ASSUME TypeOK, TypeOK', Chain, Window, [Next]_vars PROVE Window'
<1>1. CASE \/ UNCHANGED vars \/ UpdateFlowStatus \/ DuWrite \/ Lose
           \/ ReceiveData \/ ReceiveStray \/ Take \/ CopyHeader \/ CopyNumber \/ CopyRest
           \/ Allocate \/ FlowRead \/ \E p \in Copies : StrayPdu(p) \/ ReceiveOld(p)
  <2>1. /\ UNCHANGED <<xListWaitingPackets, dtp>>
        /\ allocated' = allocated \/ allocated' = TRUE
    BY <1>1 DEF vars, UpdateFlowStatus, DuWrite, Lose, ReceiveData, ReceiveStray,
                ReceiveDone, Take, CopyHeader, CopyNumber, CopyRest, Allocate, FlowRead,
                StrayPdu, ReceiveOld, Receive, Received
  <2>2. \/ xNextSeqNumberToSend' = xNextSeqNumberToSend
        \/ xNextSeqNumberToSend' = xNextSeqNumberToSend + 1
    BY <1>1 DEF vars, sender, UpdateFlowStatus, DuWrite, DtpWrite, Sequencing, Lose,
                ReceiveData, ReceiveStray, ReceiveDone, Take, CopyHeader, CopyNumber, CopyRest,
                Allocate, FlowRead, StrayPdu, ReceiveOld, Receive, Received
  <2>3. xNextSeqNumberToSend <= xNextSeqNumberToSend'  BY <2>2, Numbers
  <2> QED  BY <2>1, <2>3, SameWindow
<1>2. ASSUME NEW p \in Copies, ReceiveFirst(p) \/ ReceiveNew(p) PROVE Window'
  BY <1>2, ReceiveWindow
<1> QED  BY <1>1, <1>2 DEF Next

LEMMA WindowInvariant == Spec => [](TypeOK /\ Chain /\ Window)
<1>1. Init => TypeOK /\ Chain /\ Window
  <2>1. Init => Arrived = <<>>  BY DEF Init, Arrived
  <2> QED  BY <2>1, InitType, InitChain DEF Window
<1>2. ASSUME TypeOK /\ Chain /\ Window, [Next]_vars PROVE (TypeOK /\ Chain /\ Window)'
  BY <1>2, NextType, NextChain, NextWindow
<1> QED  BY <1>1, <1>2, PTL DEF Spec

(* While numbers have not wrapped and until a packet with a torn header    *)
(* arrives: the left edge of the receive window never passes a PDU that    *)
(* has not arrived.                                                        *)
THEOREM WindowHolds == Spec => []NothingMissingBelowEdge
<1>1. TypeOK /\ Chain /\ Window => NothingMissingBelowEdge  BY WindowImplies
<1> QED  BY <1>1, WindowInvariant, PTL

(* While numbers have not wrapped, until a packet with a torn header       *)
(* arrives and until a PDU is missing, the receiver delivers no PDU twice, *)
(* though its driver may copy a frame twice.                               *)
THEOREM NoEarlyDuplicate == Spec => []DuplicateOnlyAfterGap
<1>1. TypeOK /\ Chain /\ Window => DuplicateOnlyAfterGap  BY WindowImplies
<1> QED  BY <1>1, WindowInvariant, PTL

-----------------------------------------------------------------------------
(* What ends the receiver: the edge is behind every copy to come, while    *)
(* numbers have not wrapped and none has been torn, and no stray is copied *)
(* before one has come.                                                    *)
NoneTorn == ~torn => /\ \A i \in DOMAIN queue : queue[i].n >= 0
                     /\ frame.n >= 0
EdgeBehind == ~torn /\ ~xDrfRequired /\ xNextSeqNumberToSend < SeqSize =>
                /\ xRcvLeftWindowEdge <= xNextSeqNumberToSend
                /\ \A i \in DOMAIN queue :
                      queue[i].n > 0 => xRcvLeftWindowEdge <= queue[i].n
                /\ Busy /\ frame.n > 0 => xRcvLeftWindowEdge <= frame.n
                /\ rx_temp_buffer # Stray => xRcvLeftWindowEdge <= rx_temp_buffer
                /\ \A i \in DOMAIN out : xRcvLeftWindowEdge < out[i]
StraysCounted == strays = 0 =>
                   /\ \A i \in DOMAIN queue : queue[i].n # Stray
                   /\ Busy => frame.n # Stray
                   /\ rxPc = "input" \/ notified => rx_temp_buffer # Stray

(* A stray has come, a number has been torn or has wrapped, or the PDU is  *)
(* the one at the edge of the window, which the driver has copied a second *)
(* time.                                                                   *)
Provoked == \/ strays > 0
            \/ torn
            \/ xNextSeqNumberToSend >= SeqSize
            \/ ~xDrfRequired /\ Head(queue).n = xRcvLeftWindowEdge
FaultCaused == fault' # fault =>
            \/ fault' = "null" /\ allocated /\ xListWaitingPackets # <<>>
            \/ fault' = "released twice" /\ queue # <<>> /\ Provoked

(* What comes after the next copy in the queue is not before it. *)
LEMMA HeadBefore ==
  ASSUME TypeOK, Chain, queue # <<>>
  PROVE  /\ Head(queue) \in Copies
         /\ \A i \in DOMAIN Tail(queue) : /\ i + 1 \in DOMAIN queue
                                          /\ Tail(queue)[i] = queue[i + 1]
                                          /\ queue[i + 1].n > 0
                                               => Head(queue).n <= queue[i + 1].n
         /\ Head(queue).n <= xNextSeqNumberToSend
         /\ Busy /\ frame.n > 0 => Head(queue).n <= frame.n
         /\ rx_temp_buffer # Stray => Head(queue).n <= rx_temp_buffer
         /\ \A i \in DOMAIN out : Head(queue).n < out[i]
<1> DEFINE l == Len(Arrived)
<1>1. Arrived \in Seq(Copies) /\ queue \in Seq(Copies)  BY LineSeq
<1>2. /\ l \in Nat /\ Len(queue) \in Nat \ {0} /\ DOMAIN queue = 1 .. Len(queue)
      /\ Head(queue) = queue[1] /\ Head(queue) \in Copies
  BY <1>1, LenProperties, EmptySeq
<1>3. /\ Tail(queue) \in Seq(Copies) /\ Len(Tail(queue)) = Len(queue) - 1
      /\ \A i \in 1 .. Len(Tail(queue)) : Tail(queue)[i] = queue[i + 1]
  BY <1>1, HeadTailProperties
<1>4. DOMAIN Tail(queue) = 1 .. Len(queue) - 1  BY <1>3, LenProperties
<1>5. /\ DOMAIN Line = 1 .. l + Len(queue)
      /\ \A i \in 1 .. l + Len(queue) : Line[i] = IF i <= l THEN Arrived[i] ELSE queue[i - l]
  BY <1>1, ConcatProperties, LenProperties DEF Line
<1> HIDE DEF l
<1>6. \A i \in DOMAIN queue : l + i \in DOMAIN Line /\ Line[l + i] = queue[i]
  <2> SUFFICES ASSUME NEW i \in DOMAIN queue
               PROVE  l + i \in DOMAIN Line /\ Line[l + i] = queue[i]
    OBVIOUS
  <2>1. l + i \in 1 .. l + Len(queue) /\ ~(l + i <= l) /\ (l + i) - l = i  BY <1>2
  <2> QED  BY <1>5, <2>1
<1>7. l + 1 \in DOMAIN Line /\ Line[l + 1] = Head(queue)  BY <1>2, <1>6
<1>8. \A i \in DOMAIN Tail(queue) : /\ i + 1 \in DOMAIN queue
                                    /\ Tail(queue)[i] = queue[i + 1]
                                    /\ queue[i + 1].n > 0
                                         => Head(queue).n <= queue[i + 1].n
  <2> SUFFICES ASSUME NEW i \in DOMAIN Tail(queue)
               PROVE  /\ i + 1 \in DOMAIN queue
                      /\ Tail(queue)[i] = queue[i + 1]
                      /\ queue[i + 1].n > 0 => Head(queue).n <= queue[i + 1].n
    OBVIOUS
  <2>1. i + 1 \in DOMAIN queue /\ Tail(queue)[i] = queue[i + 1] /\ i \in Nat \ {0}
    BY <1>2, <1>3, <1>4
  <2>2. l + (i + 1) \in DOMAIN Line /\ Line[l + (i + 1)] = queue[i + 1]  BY <1>6, <2>1
  <2>3. l + 1 < l + (i + 1)  BY <1>2, <2>1
  <2> QED  BY <1>7, <2>1, <2>2, <2>3 DEF Chain, Good, Ordered
<1>9. Head(queue).n <= xNextSeqNumberToSend  BY <1>7 DEF Chain, Bounded, UpTo
<1>10. Busy /\ frame.n > 0 => Head(queue).n <= frame.n
  BY <1>7 DEF Chain, Copying, UpTo
<1>11. rx_temp_buffer # Stray => Head(queue).n <= rx_temp_buffer
  BY <1>7 DEF Chain, Coming, UpTo
<1>12. \A i \in DOMAIN out : Head(queue).n < out[i]
  BY <1>7 DEF Chain, Behind, Below
<1> QED  BY <1>2, <1>8, <1>9, <1>10, <1>11, <1>12

LEMMA HeadNumber ==
  ASSUME TypeOK, Chain, queue # <<>>
  PROVE  /\ 1 \in DOMAIN queue /\ Head(queue) = queue[1]
         /\ xNextSeqNumberToSend < SeqSize /\ Head(queue).n > 0
              => Head(queue).n \in Nat /\ SN(Head(queue).n) = Head(queue).n
<1>1. 1 \in DOMAIN queue /\ Head(queue) = queue[1]
  <2>1. queue \in Seq(Copies)  BY DEF TypeOK
  <2>2. Len(queue) \in Nat \ {0} /\ DOMAIN queue = 1 .. Len(queue)
    BY <2>1, LenProperties, EmptySeq
  <2> QED  BY <2>1, <2>2
<1>2. Head(queue).n \in Int /\ Head(queue).n <= xNextSeqNumberToSend
  BY HeadBefore, CopyNumbers
<1>3. xNextSeqNumberToSend \in Nat /\ SeqSize \in Nat  BY Numbers, DataTransferAssumption
<1>4. xNextSeqNumberToSend < SeqSize /\ Head(queue).n > 0
        => Head(queue).n \in Nat /\ Head(queue).n < SeqSize
  BY <1>2, <1>3
<1> QED  BY <1>1, <1>4, NotWrapped

(* The IPCP task takes a copy; the edge stays, or moves to its number. *)
LEMMA TakenEdge ==
  ASSUME TypeOK, Chain, NoneTorn, EdgeBehind, NEW p \in Copies, Received(p),
         \/ UNCHANGED dtp
         \/ /\ p.n # Stray
            /\ \/ xRcvLeftWindowEdge' = SN(p.n)
               \/ xRcvLeftWindowEdge' = xRcvLeftWindowEdge /\ ~xDrfRequired
  PROVE  NoneTorn' /\ EdgeBehind'
<1>1. /\ queue # <<>> /\ p = Head(queue) /\ queue' = Tail(queue)
      /\ UNCHANGED <<xNextSeqNumberToSend, out, strays, rx_temp_buffer, notified, rxPc,
                     frame, torn>>
  BY DEF Received, sender, driver
<1>2. NoneTorn'  BY <1>1, HeadBefore DEF NoneTorn
<1>3. CASE xRcvLeftWindowEdge' = xRcvLeftWindowEdge /\ (xDrfRequired' \/ ~xDrfRequired)
  BY <1>1, <1>2, <1>3, HeadBefore DEF EdgeBehind, Busy
<1>4. CASE xRcvLeftWindowEdge' = SN(p.n) /\ p.n # Stray
  <2> SUFFICES ASSUME xNextSeqNumberToSend < SeqSize, ~torn PROVE EdgeBehind'
    BY <1>1, <1>2 DEF EdgeBehind
  <2>1. p.n > 0
    <3>1. p.n >= 0  BY <1>1, HeadNumber DEF NoneTorn
    <3> QED  BY <1>4, <3>1, CopyNumbers DEF Stray
  <2>2. xRcvLeftWindowEdge' = p.n  BY <1>1, <1>4, <2>1, HeadNumber
  <2>3. EdgeBehind'  BY <1>1, <2>1, <2>2, HeadBefore DEF EdgeBehind, Busy
  <2> QED  BY <2>3
<1> QED  BY <1>2, <1>3, <1>4 DEF dtp

(* The receive task ends its copy: its event is the last, or was refused. *)
LEMMA CopyEnds ==
  ASSUME TypeOK, CopyRest
  PROVE  /\ UNCHANGED <<xNextSeqNumberToSend, out, strays, rx_temp_buffer, notified, torn, dtp>>
         /\ Busy /\ rxPc = "copy" /\ rxPc' = "wait" /\ ~Busy' /\ frame'.n = frame.n
         /\ \A i \in DOMAIN queue' : \/ i \in DOMAIN queue /\ queue'[i] = queue[i]
                                     \/ queue'[i].n = frame.n
<1>1. /\ UNCHANGED <<xNextSeqNumberToSend, out, strays, rx_temp_buffer, notified, torn, dtp>>
      /\ Busy /\ rxPc = "copy" /\ rxPc' = "wait" /\ ~Busy'
      /\ queue' = queue \/ queue' = Append(queue, frame')
      /\ frame' = [frame EXCEPT !.sdu = rx_temp_buffer]
  BY DEF CopyRest, At, Busy, sender
<1>2. frame'.n = frame.n /\ frame' \in Copies  BY <1>1 DEF TypeOK, Copies
<1>3. CASE queue' = queue  BY <1>1, <1>3
<1>4. CASE queue' = Append(queue, frame')
  <2>0. queue \in Seq(Copies)  BY DEF TypeOK
  <2>1. /\ DOMAIN queue = 1 .. Len(queue) /\ DOMAIN queue' = 1 .. Len(queue) + 1
        /\ Len(queue) \in Nat
        /\ queue'[Len(queue) + 1] = frame'
        /\ \A i \in 1 .. Len(queue) : queue'[i] = queue[i]
    BY <1>2, <1>4, <2>0, LenProperties
  <2>2. \A i \in 1 .. Len(queue) + 1 : i \in 1 .. Len(queue) \/ i = Len(queue) + 1
    BY <2>1
  <2> QED  BY <1>1, <1>2, <2>1, <2>2
<1> QED  BY <1>1, <1>3, <1>4

LEMMA NextEdge ==
  ASSUME TypeOK, TypeOK', Chain, NoneTorn, EdgeBehind, [Next]_vars
  PROVE  NoneTorn' /\ EdgeBehind'
<1>0. /\ xNextSeqNumberToSend \in Nat /\ xRcvLeftWindowEdge \in Nat /\ SeqSize \in Nat
      /\ out \in Seq(Ordinals) /\ queue \in Seq(Copies)
  <2>1. /\ xRcvLeftWindowEdge \in 0 .. SeqSize - 1
        /\ out \in Seq(Ordinals) /\ queue \in Seq(Copies)
    BY DEF TypeOK
  <2>2. SeqSize \in Nat /\ xNextSeqNumberToSend \in Nat  BY Numbers, DataTransferAssumption
  <2> QED  BY <2>1, <2>2
<1>1. CASE UNCHANGED vars \/ UpdateFlowStatus \/ Allocate \/ FlowRead \/ Take
  <2>1. /\ UNCHANGED <<xNextSeqNumberToSend, out, queue, frame, rx_temp_buffer, torn, dtp>>
        /\ Busy' => Busy
    BY <1>1 DEF vars, sender, driver, Busy, UpdateFlowStatus, Allocate, FlowRead, Take
  <2> QED  BY <2>1 DEF NoneTorn, EdgeBehind, dtp
<1>2. CASE DuWrite
  <2>1. /\ xNextSeqNumberToSend' = xNextSeqNumberToSend + 1
        /\ UNCHANGED <<queue, frame, rx_temp_buffer, rxPc, torn, dtp>>
        /\ out' = out \/ out' = Append(out, xNextSeqNumberToSend + 1)
    BY <1>2 DEF DuWrite, DtpWrite, Sequencing, PduSend, RmtSend, driver
  <2>2. \A i \in DOMAIN out' : \/ i \in DOMAIN out /\ out'[i] = out[i]
                               \/ out'[i] = xNextSeqNumberToSend + 1
    <3>1. CASE out' = out  BY <3>1
    <3>2. CASE out' = Append(out, xNextSeqNumberToSend + 1)
      <4>1. /\ DOMAIN out = 1 .. Len(out) /\ DOMAIN out' = 1 .. Len(out) + 1
            /\ Len(out) \in Nat
            /\ out'[Len(out) + 1] = xNextSeqNumberToSend + 1
            /\ \A i \in 1 .. Len(out) : out'[i] = out[i]
        BY <1>0, <3>2, LenProperties
      <4>2. \A i \in 1 .. Len(out) + 1 : i \in 1 .. Len(out) \/ i = Len(out) + 1  BY <4>1
      <4> QED  BY <4>1, <4>2
    <3> QED  BY <2>1, <3>1, <3>2
  <2>3. SUFFICES ASSUME ~torn, ~xDrfRequired, xNextSeqNumberToSend + 1 < SeqSize
                 PROVE EdgeBehind'
    BY <2>1 DEF NoneTorn, EdgeBehind, dtp
  <2>4. /\ xNextSeqNumberToSend < SeqSize
        /\ xRcvLeftWindowEdge <= xNextSeqNumberToSend
    BY <1>0, <2>3 DEF EdgeBehind
  <2>5. \A i \in DOMAIN out' : xRcvLeftWindowEdge < out'[i]
    BY <1>0, <2>2, <2>3, <2>4 DEF EdgeBehind
  <2>6. xRcvLeftWindowEdge <= xNextSeqNumberToSend'  BY <1>0, <2>1, <2>4
  <2> QED  BY <2>1, <2>3, <2>4, <2>5, <2>6 DEF EdgeBehind, Busy, dtp
<1>3. CASE Lose \/ ReceiveData
  <2>1. /\ UNCHANGED <<xNextSeqNumberToSend, queue, frame, rxPc, torn, dtp>>
        /\ out # <<>> /\ out' = Tail(out)
        /\ rx_temp_buffer' = rx_temp_buffer \/ rx_temp_buffer' = Head(out)
    BY <1>3 DEF Lose, ReceiveData, ReceiveDone, sender, driver
  <2>2. /\ 1 \in DOMAIN out /\ Head(out) = out[1]
        /\ \A i \in DOMAIN Tail(out) : i + 1 \in DOMAIN out /\ Tail(out)[i] = out[i + 1]
    <3>1. /\ Tail(out) \in Seq(Ordinals) /\ Len(Tail(out)) = Len(out) - 1
          /\ \A i \in 1 .. Len(Tail(out)) : Tail(out)[i] = out[i + 1]
      BY <1>0, <2>1, HeadTailProperties
    <3>2. Len(out) \in Nat \ {0} /\ DOMAIN out = 1 .. Len(out)
      BY <1>0, <2>1, LenProperties, EmptySeq
    <3>3. DOMAIN Tail(out) = 1 .. Len(out) - 1  BY <3>1, LenProperties
    <3> QED  BY <1>0, <3>1, <3>2, <3>3
  <2>3. ~torn /\ ~xDrfRequired /\ xNextSeqNumberToSend < SeqSize
          => /\ xRcvLeftWindowEdge < Head(out)
             /\ \A i \in DOMAIN Tail(out) : xRcvLeftWindowEdge < Tail(out)[i]
    BY <2>2 DEF EdgeBehind
  <2>4. Head(out) \in Nat  BY <2>1, Numbers, <2>2
  <2>5. xRcvLeftWindowEdge < Head(out) => xRcvLeftWindowEdge <= Head(out)  BY <1>0, <2>4
  <2> QED  BY <2>1, <2>3, <2>5 DEF NoneTorn, EdgeBehind, Busy, dtp
<1>4. CASE ReceiveStray
  <2>1. /\ UNCHANGED <<xNextSeqNumberToSend, out, queue, frame, rxPc, torn, dtp>>
        /\ rx_temp_buffer' = Stray
    BY <1>4 DEF ReceiveStray, ReceiveDone, sender
  <2> QED  BY <2>1 DEF NoneTorn, EdgeBehind, Busy, dtp
<1>5. CASE CopyHeader \/ CopyNumber
  <2>1. /\ UNCHANGED <<xNextSeqNumberToSend, out, queue, rx_temp_buffer, dtp>>
        /\ torn => torn'
        /\ \/ frame'.n = rx_temp_buffer
           \/ frame'.n = frame.n /\ Busy
           \/ frame'.n < 0 /\ torn'
    <3>1. CASE CopyHeader  BY <3>1 DEF CopyHeader, sender
    <3>2. CASE CopyNumber
      <4>1. PICK h \in Headers(frame.n, rx_temp_buffer) :
              frame' = [n |-> h, sdu |-> rx_temp_buffer]
        BY <3>2 DEF CopyNumber
      <4>2. h = frame.n \/ h = rx_temp_buffer \/ h < 0
        BY <4>1, HeadersOf, TornNegative
      <4> QED  BY <3>2, <4>1, <4>2 DEF CopyNumber, At, Busy, sender
    <3> QED  BY <1>5, <3>1, <3>2
  <2>2. rx_temp_buffer >= 0  BY Numbers
  <2>3. NoneTorn'  BY <2>1, <2>2 DEF NoneTorn
  <2>4. EdgeBehind'  BY <2>1, Numbers DEF EdgeBehind, Stray, dtp
  <2> QED  BY <2>3, <2>4
<1>6. CASE CopyRest
  <2>1. NoneTorn'  BY <1>6, CopyEnds DEF NoneTorn
  <2>2. EdgeBehind'  BY <1>6, CopyEnds DEF EdgeBehind, dtp
  <2> QED  BY <2>1, <2>2
<1>7. ASSUME NEW p \in Copies, StrayPdu(p) \/ ReceiveFirst(p) \/ ReceiveOld(p) \/ ReceiveNew(p)
      PROVE  NoneTorn' /\ EdgeBehind'
  <2>1. Received(p)  BY <1>7 DEF StrayPdu, ReceiveFirst, ReceiveOld, ReceiveNew, Receive
  <2>2. \/ UNCHANGED dtp
        \/ /\ p.n # Stray
           /\ \/ xRcvLeftWindowEdge' = SN(p.n)
              \/ xRcvLeftWindowEdge' = xRcvLeftWindowEdge /\ ~xDrfRequired
    BY <1>7 DEF StrayPdu, ReceiveFirst, ReceiveOld, ReceiveNew, Receive
  <2> QED  BY <2>1, <2>2, TakenEdge
<1> QED  BY <1>1, <1>2, <1>3, <1>4, <1>5, <1>6, <1>7 DEF Next

LEMMA NextStrays ==
  ASSUME TypeOK, Chain, StraysCounted, [Next]_vars PROVE StraysCounted'
<1>0. strays \in Nat /\ queue \in Seq(Copies) /\ out \in Seq(Ordinals)
  <2>1. /\ strays \in 0 .. MaxStrays
        /\ queue \in Seq(Copies) /\ out \in Seq(Ordinals)
    BY DEF TypeOK
  <2> QED  BY <2>1
<1>1. CASE \/ UNCHANGED vars \/ UpdateFlowStatus \/ DuWrite \/ Lose \/ Allocate \/ FlowRead
           \/ Take
  <2>1. /\ UNCHANGED <<strays, queue, frame, rx_temp_buffer>>
        /\ rxPc' = rxPc \/ (rxPc' = "input" /\ notified)
        /\ notified' => notified
        /\ Busy' => Busy
    BY <1>1 DEF vars, driver, Busy, UpdateFlowStatus, DuWrite, Lose, Allocate, FlowRead, Take
  <2> QED  BY <2>1 DEF StraysCounted
<1>2. CASE ReceiveData
  <2>1. /\ UNCHANGED <<strays, queue, frame, rxPc>> /\ rx_temp_buffer' = Head(out)
        /\ out # <<>>
    BY <1>2 DEF ReceiveData, ReceiveDone
  <2>2. Head(out) # Stray  BY <2>1, OutTail DEF Stray
  <2> QED  BY <2>1, <2>2 DEF StraysCounted, Busy
<1>3. CASE ReceiveStray
  <2>1. strays' # 0  BY <1>0, <1>3 DEF ReceiveStray
  <2> QED  BY <2>1 DEF StraysCounted
<1>4. CASE CopyHeader \/ CopyNumber
  <2>1. CASE CopyHeader  BY <2>1 DEF CopyHeader, At, StraysCounted
  <2>2. CASE CopyNumber
    <3>1. PICK h \in Headers(frame.n, rx_temp_buffer) :
            /\ frame' = [n |-> h, sdu |-> rx_temp_buffer] /\ Busy
            /\ rxPc = "header" /\ rxPc' \in {"header", "copy"}
            /\ UNCHANGED <<strays, queue, rx_temp_buffer, notified>>
      BY <2>2 DEF CopyNumber, At, Busy
    <3>2. h = frame.n \/ (h = rx_temp_buffer /\ notified) \/ h < 0
      BY <3>1, HeadersOf, TornNegative DEF Chain, CopyCurrent
    <3>3. strays = 0 => h # Stray  BY <3>1, <3>2 DEF StraysCounted, Stray
    <3>4. frame'.n = h  BY <3>1
    <3> QED  BY <3>1, <3>3, <3>4 DEF StraysCounted
  <2> QED  BY <1>4, <2>1, <2>2
<1>5. CASE CopyRest
  BY <1>5, CopyEnds DEF StraysCounted
<1>6. ASSUME NEW p \in Copies, StrayPdu(p) \/ ReceiveFirst(p) \/ ReceiveOld(p) \/ ReceiveNew(p)
      PROVE  StraysCounted'
  <2>1. Received(p)  BY <1>6 DEF StrayPdu, ReceiveFirst, ReceiveOld, ReceiveNew, Receive
  <2>2. /\ queue # <<>> /\ queue' = Tail(queue)
        /\ UNCHANGED <<strays, rx_temp_buffer, notified, rxPc, frame>>
    BY <2>1 DEF Received, driver
  <2> QED  BY <2>2, HeadBefore DEF StraysCounted, Busy
<1> QED  BY <1>1, <1>2, <1>3, <1>4, <1>5, <1>6 DEF Next

(* How the receiver comes to its end.  NULL is dereferenced by a reader    *)
(* that finds a packet waiting (RINA_flow_read), and only then.  A buffer  *)
(* is released twice (by the handler of frames, after xDtpReceive or the   *)
(* RMT has destroyed the PDU) only if a frame came that is not data of the *)
(* flow, or a copy was torn inside the sequence number, or the 32 bits of  *)
(* the numbers have wrapped, or the PDU is the one at the left edge of the *)
(* window, which the receive task has copied a second time, since an       *)
(* interrupt has come between: frames that the radio loses and events that *)
(* the full queue refuses never lead there.                                *)
THEOREM EndsHaveCauses == Spec => [][FaultCaused]_vars
<1>1. Spec => [](TypeOK /\ Chain /\ NoneTorn /\ EdgeBehind /\ StraysCounted)
  <2>1. Init => NoneTorn /\ EdgeBehind /\ StraysCounted
    <3>1. DOMAIN <<>> = {}  OBVIOUS
    <3> QED  BY <3>1 DEF Init, StateVectorInit, NoneTorn, EdgeBehind, StraysCounted, Busy, Stray
  <2>2. TypeOK /\ TypeOK' /\ Chain /\ NoneTorn /\ EdgeBehind /\ StraysCounted /\ [Next]_vars
          => NoneTorn' /\ EdgeBehind' /\ StraysCounted'
    BY NextEdge, NextStrays
  <2> QED  BY <2>1, <2>2, WindowInvariant, PTL DEF Spec
<1>2. ASSUME TypeOK, Chain, NoneTorn, EdgeBehind, StraysCounted, [Next]_vars, fault' # fault
      PROVE  \/ fault' = "null" /\ allocated /\ xListWaitingPackets # <<>>
             \/ fault' = "released twice" /\ queue # <<>> /\ Provoked
  <2>1. CASE FlowRead  BY <2>1 DEF FlowRead
  <2>2. ASSUME NEW p \in Copies, StrayPdu(p)
        PROVE  fault' = "released twice" /\ queue # <<>> /\ Provoked
    <3>1. fault' = "released twice" /\ queue # <<>> /\ p = Head(queue) /\ p.n = Stray
      BY <1>2, <2>2 DEF StrayPdu, Received
    <3>2. 1 \in DOMAIN queue /\ Head(queue) = queue[1]  BY <1>2, <3>1, HeadNumber
    <3>3. strays # 0  BY <1>2, <3>1, <3>2 DEF StraysCounted
    <3>4. strays \in 0 .. MaxStrays  BY <1>2 DEF TypeOK
    <3>5. strays > 0  BY <3>3, <3>4
    <3> QED  BY <3>1, <3>5 DEF Provoked
  <2>3. ASSUME NEW p \in Copies, ReceiveOld(p)
        PROVE  fault' = "released twice" /\ queue # <<>> /\ Provoked
    <3>1. /\ fault' = "released twice" /\ queue # <<>> /\ p = Head(queue) /\ p.n # Stray
          /\ ~xDrfRequired /\ SN(p.n) <= xRcvLeftWindowEdge
      BY <2>3 DEF ReceiveOld, Receive, Received
    <3>2. CASE xNextSeqNumberToSend < SeqSize /\ ~torn
      <4>0. p.n > 0
        <5>1. p.n >= 0  BY <1>2, <3>1, <3>2, HeadNumber DEF NoneTorn
        <5>2. p.n \in Int  BY <2>3, CopyNumbers
        <5>3. p.n # 0  BY <3>1 DEF Stray
        <5> QED  BY <5>1, <5>2, <5>3
      <4>1. /\ 1 \in DOMAIN queue /\ p = queue[1]
            /\ SN(p.n) = p.n /\ p.n \in Nat
        BY <1>2, <3>1, <3>2, <4>0, HeadNumber
      <4>2. xRcvLeftWindowEdge <= p.n  BY <1>2, <3>1, <3>2, <4>0, <4>1 DEF EdgeBehind
      <4>3. xRcvLeftWindowEdge \in 0 .. SeqSize - 1  BY <1>2 DEF TypeOK
      <4>4. xRcvLeftWindowEdge \in Nat  BY <4>3
      <4>5. p.n <= xRcvLeftWindowEdge  BY <3>1, <4>1
      <4>6. p.n = xRcvLeftWindowEdge  BY <4>1, <4>2, <4>4, <4>5
      <4> QED  BY <3>1, <4>6 DEF Provoked
    <3>3. CASE xNextSeqNumberToSend >= SeqSize \/ torn  BY <3>1, <3>3 DEF Provoked
    <3>4. xNextSeqNumberToSend \in Nat  BY <1>2, Numbers
    <3>5. SeqSize \in Nat  BY DataTransferAssumption
    <3>6. xNextSeqNumberToSend < SeqSize \/ xNextSeqNumberToSend >= SeqSize  BY <3>4, <3>5
    <3> QED  BY <3>2, <3>3, <3>6
  <2>4. ASSUME NEW p \in Copies, ReceiveFirst(p) \/ ReceiveNew(p) PROVE fault' = fault
    BY <2>4 DEF ReceiveFirst, ReceiveNew, EfcpEnqueue
  <2>5. CASE \/ UNCHANGED vars \/ UpdateFlowStatus \/ DuWrite \/ Lose \/ ReceiveData
             \/ ReceiveStray \/ Take \/ CopyHeader \/ CopyNumber \/ CopyRest \/ Allocate
    BY <1>2, <2>5 DEF vars, UpdateFlowStatus, DuWrite, Lose, ReceiveData, ReceiveStray,
                      ReceiveDone, Take, CopyHeader, CopyNumber, CopyRest, Allocate
  <2> QED  BY <1>2, <2>1, <2>2, <2>3, <2>4, <2>5 DEF Next
<1>3. TypeOK /\ Chain /\ NoneTorn /\ EdgeBehind /\ StraysCounted /\ [Next]_vars
        => [FaultCaused]_vars
  BY <1>2 DEF FaultCaused
<1> QED  BY <1>1, <1>3, PTL DEF Spec
=============================================================================
