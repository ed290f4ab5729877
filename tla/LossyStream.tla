----------------------------- MODULE LossyStream -----------------------------
(***************************************************************************)
(* What the data transfer of one direction of a flow promises: SDUs are    *)
(* numbered 1, 2, 3, ... as they are sent; what arrives keeps their order, *)
(* and each comes in at most two packets.  Any may be lost.  A packet has  *)
(* the header of one SDU, and the data of that SDU, of a later one, or of  *)
(* none at all (0).  A packet with a torn header has that of no SDU, but   *)
(* its data keeps the order as well.                                       *)
(***************************************************************************)
EXTENDS Integers, Sequences

CONSTANT TornHeaders

VARIABLES sent,  \* how many SDUs have been sent
          got    \* the packets that have arrived, in order

Packets == [n : (1 .. sent) \cup TornHeaders, sdu : 0 .. sent]

Init == sent = 0 /\ got = <<>>

Send == sent' = sent + 1 /\ UNCHANGED got

(* The SDUs that have a part in the k-th packet. *)
Parts(k) == {got[k].n, got[k].sdu} \ TornHeaders

(* Nothing of a later SDU than n has arrived. *)
InOrder(n) == \A k \in DOMAIN got : \A m \in Parts(k) : m <= n

Get(p) == /\ p.sdu # 0 => InOrder(p.sdu) /\ p.n <= p.sdu
          /\ p.n \notin TornHeaders =>
               /\ InOrder(p.n)
               /\ \A j, k \in DOMAIN got : p.n \in Parts(j) /\ p.n \in Parts(k) => j = k
          /\ got' = Append(got, p)
          /\ UNCHANGED sent

Next == Send \/ \E p \in Packets : Get(p)

Spec == Init /\ [][Next]_<<sent, got>>
=============================================================================
