----------------------------- MODULE SampleSource -----------------------------
(* What the daemon relies on in its autosample child: it follows the orders  *)
(* it is given one by one, never asks for a sample while it is switched off, *)
(* and once it has died it neither obeys nor asks.                           *)
EXTENDS Sequences

CONSTANT Lines      \* the lines it may write

VARIABLES alive, enabled, orders, lines

TypeOK ==
  /\ alive \in BOOLEAN /\ enabled \in BOOLEAN
  /\ orders \in Seq(BOOLEAN) /\ lines \in Seq(Lines)

Init ==
  /\ alive \in BOOLEAN /\ enabled = FALSE
  /\ orders = <<>> /\ lines = <<>>

Order(on) ==
  /\ orders' = Append(orders, on)
  /\ UNCHANGED <<alive, enabled, lines>>

Obey ==
  /\ alive /\ orders # <<>>
  /\ enabled' = Head(orders) /\ orders' = Tail(orders)
  /\ UNCHANGED <<alive, lines>>

Sample(line) ==
  /\ alive /\ enabled
  /\ lines' = Append(lines, line)
  /\ UNCHANGED <<alive, enabled, orders>>

(* The daemon reads a line, or empties the pipe before a new main loop. *)
Take ==
  /\ lines # <<>>
  /\ lines' \in {Tail(lines), <<>>}
  /\ UNCHANGED <<alive, enabled, orders>>

(* Orders on their way go with it. *)
Die ==
  /\ alive /\ alive' = FALSE
  /\ orders' \in {orders, <<>>}
  /\ UNCHANGED <<enabled, lines>>

Next ==
  \/ \E on \in BOOLEAN : Order(on)
  \/ \E line \in Lines : Sample(line)
  \/ Obey \/ Take \/ Die

Spec == Init /\ [][Next]_<<alive, enabled, orders, lines>>

=============================================================================
