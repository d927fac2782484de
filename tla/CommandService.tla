---------------------------- MODULE CommandService ----------------------------
(***************************************************************************)
(* What the command queue of powersensordaemon promises: commands are      *)
(* numbered as they arrive, wait in that order, and are handed to the      *)
(* firmware one at a time, each at most once.  How a command ends (by an   *)
(* answer or by running out of time) is left open; a waiting command may   *)
(* also be given up without having been handed over, and a lost serial     *)
(* line drops everything.                                                  *)
(***************************************************************************)
EXTENDS Naturals, Sequences

VARIABLES
  waiting,   \* numbers of the commands not yet handed over, oldest first
  current,   \* the command the firmware works on, 0 if there is none
  next       \* number of the next command

vars == <<waiting, current, next>>

Init == waiting = <<>> /\ current = 0 /\ next = 1

Submit ==
  /\ waiting' = Append(waiting, next)
  /\ next' = next + 1
  /\ UNCHANGED current

HandOver ==
  /\ current = 0 /\ waiting # <<>>
  /\ current' = Head(waiting)
  /\ waiting' = Tail(waiting)
  /\ UNCHANGED next

Finish ==
  /\ current # 0
  /\ current' = 0
  /\ UNCHANGED <<waiting, next>>

GiveUp ==
  /\ current = 0 /\ waiting # <<>>
  /\ waiting' = Tail(waiting)
  /\ UNCHANGED <<current, next>>

DropAll ==
  /\ waiting' = <<>> /\ current' = 0
  /\ UNCHANGED next

Next == Submit \/ HandOver \/ Finish \/ GiveUp \/ DropAll

Spec == Init /\ [][Next]_vars

=============================================================================
