---------------------------- MODULE MCUploadStore ----------------------------
(***************************************************************************)
(* UploadStore on one or two stems, with and without ".part" in a name.    *)
(***************************************************************************)
EXTENDS UploadStore, TLC

CONSTANTS a, b  \* stems

OneName    == {<<a, 0>>}
ManyNames  == {<<a, 0>>, <<b, 0>>, <<b, 1>>}
OldFiles   == {<<a, 1, 0>>, <<b, 1, 1>>}
OldPartial == {<<a, 1, 1>>}

\* Nothing tells one upload from another.
Symmetry == Permutations(Uploads)
=============================================================================
