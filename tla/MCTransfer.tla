------------------------------ MODULE MCTransfer ------------------------------
(***************************************************************************)
(* Two senders and two files: one sends both, or each sends one.           *)
(***************************************************************************)
EXTENDS Transfer, TLC

CONSTANTS s1, s2, f1, f2, a1, a2

MCOffers == {s1 :> {f1, f2} @@ s2 :> {}, s1 :> {} @@ s2 :> {f1, f2},
             s1 :> {f1} @@ s2 :> {f2}}
MCHome   == s1 :> a1 @@ s2 :> a2
MCAbroad == {{}, {s1}, {s2}}

\* The two senders differ in nothing but their names, files and addresses.
Swap == {s1 :> s2 @@ s2 :> s1 @@ f1 :> f2 @@ f2 :> f1 @@ a1 :> a2 @@ a2 :> a1}
=============================================================================
