-------------------------------- MODULE Texts --------------------------------
(***************************************************************************)
(* Texts, as sequences of characters of which "space" stands for all white *)
(* space.                                                                  *)
(***************************************************************************)
EXTENDS Integers, Sequences, FiniteSetsExt

Trim(text) ==
  LET solid == {i \in DOMAIN text : text[i] # "space"}
  IN  IF solid = {} THEN <<>> ELSE SubSeq(text, Min(solid), Max(solid))
=============================================================================
