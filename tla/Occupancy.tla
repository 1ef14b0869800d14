------------------------------ MODULE Occupancy ------------------------------
(***************************************************************************)
(* What the execution boundary promises of the one untrusted uid that the  *)
(* commands of a case share (_execute and the supervisor below it): they   *)
(* take turns.  A command is admitted only to a uid without processes, is  *)
(* entered once, and none but its own processes appear until its turn has  *)
(* ended; what it leaves behind can only leave.                            *)
(***************************************************************************)
EXTENDS Integers

VARIABLES
  started,   \* number of the command last asked for
  turn,      \* "over", or how far that command has come
  present    \* commands that processes of the uid belong to

uid == <<started, turn, present>>

Init == started = 0 /\ turn = "over" /\ present = {}

(* The next command is asked for, and maybe refused at once.                 *)
Ask ==
  /\ turn = "over" /\ turn' \in {"over", "asked"}
  /\ started' = started + 1
  /\ present' = present

Admit ==
  /\ turn = "asked" /\ turn' = "admitted"
  /\ present = {}
  /\ UNCHANGED <<started, present>>

(* Its first process appears, or it fails before it has any.                 *)
Enter ==
  /\ turn = "admitted" /\ turn' = "entered"
  /\ present = {} /\ present' \in {{}, {started}}
  /\ started' = started

Leave ==
  /\ present' \in SUBSET present
  /\ UNCHANGED <<started, turn>>

(* The turn ends, whoever is still present.                                  *)
End ==
  /\ turn # "over" /\ turn' = "over"
  /\ UNCHANGED <<started, present>>

Next == Ask \/ Admit \/ Enter \/ Leave \/ End

Spec == Init /\ [][Next]_uid
=============================================================================
