---------------------------- MODULE Association ----------------------------
(***************************************************************************)
(* What enrolment promises: the association with the neighbour's DIF goes  *)
(* through its phases in order, once, and is never set back; it may end at *)
(* any time with the program.                                              *)
(***************************************************************************)
VARIABLE phase

Phases == {"down", "connecting", "connected", "enrolled", "ended"}

Init == phase = "down"

Initiate == phase = "down" /\ phase' = "connecting"
Establish == phase = "connecting" /\ phase' = "connected"
Complete == phase = "connected" /\ phase' = "enrolled"
End == phase # "ended" /\ phase' = "ended"

Next == Initiate \/ Establish \/ Complete \/ End

Spec == Init /\ [][Next]_phase
=============================================================================
