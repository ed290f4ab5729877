------------------------------ MODULE RinaName ------------------------------
(***************************************************************************)
(* Names of applications and DIFs (rina_name.c): four strings, any of      *)
(* which may be missing, made from texts and turned into texts.            *)
(*                                                                         *)
(* A text is the sequence of its parts between the separators, "|" in a    *)
(* text that an application gives and "/" in one that is made of a name.   *)
(* Memory for strings is taken to suffice: without it pcRstrDup clears     *)
(* through NULL before it looks.                                           *)
(***************************************************************************)
EXTENDS Integers, Sequences

Missing == "NULL"    \* no string
NoText == <<>>       \* NULL instead of a text, which has at least one part

(* Process name and instance, entity name and instance *)
Fields == 1 .. 4

(* pxRStrNameCreate *)
NameCreate == [f \in Fields |-> Missing]

(* vRstrNameFini: every string is freed and forgotten. *)
NameFini(name) == [f \in DOMAIN name |-> Missing]

(* xRstringDup copies a missing string as well, and says that it has done. *)
StringDup(s) == [done |-> TRUE, pxDst |-> s]

(* xRstrNameCpy takes a string that was copied for one that was not.       *)
NameCpy(src, dst) ==
  IF \E f \in Fields : StringDup(src[f]).done
  THEN [done |-> FALSE, pxDst |-> NameFini(dst)]
  ELSE [done |-> TRUE, pxDst |-> [f \in Fields |-> StringDup(src[f]).pxDst]]

(* pxRstrNameDup takes a name that was copied for one that was not: given  *)
(* memory for a name, it returns the empty one.                            *)
NameDup(src, memory) ==
  LET copy == NameCpy(src, NameCreate) IN
  IF memory /\ ~copy.done THEN {copy.pxDst} ELSE {}

(* pcNameToString *)
NameToString(name) == [f \in Fields |-> IF name[f] = Missing THEN "" ELSE name[f]]

(* xRinaNameFromString: parts past the fourth are ignored. *)
NameFromString(text) ==
  IF text = NoText THEN [done |-> FALSE, pxName |-> NameCreate]
  ELSE [done |-> TRUE,
        pxName |-> [f \in Fields |-> IF f \in DOMAIN text THEN text[f] ELSE ""]]
=============================================================================
