---------------------------- MODULE MCReceiveTool ----------------------------
(***************************************************************************)
(* One session of one file or two, with two uploads of one name.           *)
(***************************************************************************)
EXTENDS ReceiveTool

CONSTANTS a, f1, f2  \* a stem and two files

OneName  == {<<a, 0>>}
OneOrTwo == {{f1}, {f1, f2}}
=============================================================================
