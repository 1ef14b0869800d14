------------------------------ MODULE WriteOnce ------------------------------
(***************************************************************************)
(* What a directory of published evidence promises its readers, whoever    *)
(* creates it (PROTOCOL.md, "Procedure" 8, and the refusals to overwrite   *)
(* in the programs that publish): it appears once, whole, and for good.    *)
(***************************************************************************)

CONSTANTS
  Nothing,   \* the directory is not there
  Whole(_)   \* is this a complete and consistent content?

VARIABLE published

Init == published = Nothing

Publish ==
  /\ published = Nothing
  /\ published' # Nothing
  /\ Whole(published')

Spec == Init /\ [][Publish]_published
=============================================================================
