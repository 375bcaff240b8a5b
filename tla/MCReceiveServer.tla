--------------------------- MODULE MCReceiveServer ---------------------------
(***************************************************************************)
(* ReceiveServer on small sets of requests, addresses (a known one and     *)
(* none) and file ids.                                                     *)
(***************************************************************************)
EXTENDS ReceiveServer, TLC

\* Nothing tells one request, known address or file id from another.
Symmetry ==
  Permutations(Requests) \cup Permutations(Addresses \ {None}) \cup Permutations(FileIds)
=============================================================================
