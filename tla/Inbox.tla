-------------------------------- MODULE Inbox --------------------------------
(***************************************************************************)
(* What a user may expect of the download directory, whatever goes on      *)
(* under the ".part" names: a file that is there stays as it is, and all   *)
(* that ever happens is that the complete body of one upload appears under *)
(* a name that was free, once per upload.                                  *)
(***************************************************************************)
CONSTANTS Uploads, Places, Old, None

VARIABLES
  shelf,      \* place -> the upload whose complete body it holds, Old or None
  delivered   \* the uploads that have been told their file is there

vars == <<shelf, delivered>>

Init ==
  /\ shelf \in [Places -> {Old, None}]
  /\ delivered = {}

Deliver(u) ==
  /\ u \notin delivered
  /\ \E p \in Places :
       /\ shelf[p] = None
       /\ shelf' = [shelf EXCEPT ![p] = u]
  /\ delivered' = delivered \cup {u}

Next == \E u \in Uploads : Deliver(u)

Spec == Init /\ [][Next]_vars
=============================================================================
