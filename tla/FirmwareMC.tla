------------------------------- MODULE FirmwareMC -------------------------------
(* Instances of Firmware for TLC. *)
EXTENDS Firmware

BitsOf(n) == [i \in 0 .. ByteBits - 1 |-> (n \div 2 ^ i) % 2]
Signal(a, b, c) == [k \in 0 .. 2 |-> BitsOf(CASE k = 0 -> a [] k = 1 -> b [] OTHER -> c)]

(* "pollin 00101 a", as the sketch has it: with bytes of one bit the two    *)
(* commands differ in the last bit only.                                    *)
Pollin == [c \in {"A", "a"} |-> IF c = "A" THEN Signal(138, 160, 139) ELSE Signal(138, 160, 42)]

(* The first of them alone; the other code on the air is a raw one.         *)
OneCode == [c \in {"A"} |-> Pollin[c]]

AllOk == {"&"}
Nothing == {}
Values == [c \in Chars |-> BitsOf(IF c \in {"A", ">"} THEN 65 ELSE 62)]

Free == BOOLEAN

(* Bound: inputs and radio share no state but printed, so they are explored  *)
(* one at a time, each with the other at rest.                               *)
InputsAtRest ==
  ir_count = 0 /\ ir_count2 = 0 /\ ~pb_last_state /\ ~pb_postth_state
OneAtATime == chars = 0 \/ InputsAtRest

=============================================================================
