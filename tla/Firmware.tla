-------------------------------- MODULE Firmware --------------------------------
(***************************************************************************)
(* The Arduino sketch rf433ctl.pde: loop() samples the movement sensors    *)
(* and the panic button, acknowledges finished radio transmissions and     *)
(* executes one character of the serial line per pass, while the handler   *)
(* of timer 1 shifts the current code out to the 433 MHz sender, one edge  *)
(* or one count-down per interrupt.                                        *)
(*                                                                         *)
(* Interrupts come between any two steps of loop().  The light level and   *)
(* the flashing of the LEDs share no state with what is modelled here, and *)
(* printing is not broken up into characters.                              *)
(*                                                                         *)
(* held, rested, owed, sending, rep, position and ticks are history: no    *)
(* guard reads them.  A definition whose name begins with Mutant_ is a broken    *)
(* variant of the definition that follows it, used by nothing here.        *)
(***************************************************************************)
EXTENDS Integers, Sequences

CONSTANTS
  IR_SAMPLE_DURATION, IR_TRESHOLD, PB_TRESHOLD,
  ByteBits,             \* bits of a byte
  NUM_REPEAT_SIGNAL,
  RF_TIME_SHORT, RF_TIME_LONG, RF_TIME_SNYC,
  Code,                 \* [characters that send a code -> their three bytes]
  OkChars, SensorChars, \* characters answered at once
  RawChar,              \* ">": the next three characters are the code
  OtherChars,           \* characters loop() does not know
  Byte,                 \* [characters -> their bits]
  NoChar,
  ButtonLevels, MovementLevels,  \* levels the input pins may have
  MaxChars,             \* bound: characters the host sends
  MaxLag                \* bound: interrupts until loop() has caught up, see Interrupt

RF_SIGNAL_BYTES == 3
RF_SIGNAL_BITS == RF_SIGNAL_BYTES * ByteBits
Bytes == [0 .. ByteBits - 1 -> {0, 1}]
Signals == [0 .. RF_SIGNAL_BYTES - 1 -> Bytes]
Chars == DOMAIN Code \cup OkChars \cup SensorChars \cup {RawChar} \cup OtherChars
Reports == {"movement", "PanicButton", "Ok", "Sensor", "Error"}

ASSUME InputAssumption ==
  /\ {IR_SAMPLE_DURATION, IR_TRESHOLD, PB_TRESHOLD} \subseteq Nat \ {0}
  /\ ButtonLevels \subseteq BOOLEAN /\ MovementLevels \subseteq BOOLEAN
ASSUME RfAssumption ==
  /\ {ByteBits, NUM_REPEAT_SIGNAL} \subseteq Nat \ {0}
  /\ {RF_TIME_SHORT, RF_TIME_LONG, RF_TIME_SNYC} \subseteq Nat \ {0}
  /\ MaxLag \in Nat \ {0} /\ MaxChars \in Nat
(* loop() catches up before a transmission is through.                      *)
FrameTicks ==
  RF_TIME_SHORT + RF_TIME_SNYC + 2 + RF_SIGNAL_BITS * (RF_TIME_SHORT + RF_TIME_LONG + 2)
ASSUME TimingAssumption == MaxLag <= NUM_REPEAT_SIGNAL * FrameTicks
ASSUME CharAssumption ==
  /\ Code \in [DOMAIN Code -> Signals]
  /\ Byte \in [Chars -> Bytes]
  /\ NoChar \notin Chars

VARIABLES
  pc,                        \* where loop() stands
  printed,                   \* what the last step printed
  (* inputs *)
  ir_time, ir_count, ir_count2,
  pb_time, pb_last_state, pb_postth_state,
  (* the serial line *)
  serialIn,                  \* characters received and not yet read
  char,                      \* the character being executed
  chr,                       \* bytes of a raw code read so far
  chars,                     \* characters the host has sent
  (* current_signal, current_state and the rest of the radio *)
  signal, atime, bit, repeatc, state,
  running,                   \* TIMER_RUNNING
  rf_on,                     \* the data pin is LOW
  to_acknowledge,            \* rf_num_transmissions_to_acknowledge
  register,                  \* its value as loop() read it to decrement it
  lag,                       \* interrupts since start_timer that loop() has yet to catch up
  (* history *)
  held, rested,              \* how long the button has its level, see Sense
  owed,                      \* codes accepted and not yet acknowledged
  sending, rep, position, ticks  \* the transmission as the receiver counts it

inputs == <<ir_time, ir_count, ir_count2, pb_time, pb_last_state, pb_postth_state, held, rested>>
serial == <<serialIn, char, chr>>
frame == <<signal, repeatc, running, sending>>
radio == <<frame, atime, bit, state, rf_on, rep, position, ticks>>
vars == <<pc, printed, inputs, serial, chars, radio, to_acknowledge, register, lag, owed>>

-----------------------------------------------------------------------------
(* The inputs. *)

Min2(a, b) == IF a < b THEN a ELSE b

(* The second counter is not reset. *)
Mutant_CountMovement(ir, ir2) ==
  LET over == ir_time = 1
      seen == ir_count + IF ir THEN 1 ELSE 0
      seen2 == ir_count2 + IF ir2 THEN 1 ELSE 0
  IN /\ ir_time' = IF over THEN IR_SAMPLE_DURATION ELSE ir_time - 1
     /\ ir_count' = IF over THEN 0 ELSE seen
     /\ ir_count2' = seen2

CountMovement(ir, ir2) ==
  LET over == ir_time = 1
      seen == ir_count + IF ir THEN 1 ELSE 0
      seen2 == ir_count2 + IF ir2 THEN 1 ELSE 0
  IN /\ ir_time' = IF over THEN IR_SAMPLE_DURATION ELSE ir_time - 1
     /\ ir_count' = IF over THEN 0 ELSE seen
     /\ ir_count2' = IF over THEN 0 ELSE seen2

Moved(ir, ir2) ==
  /\ ir_time = 1
  /\ \/ ir_count + (IF ir THEN 1 ELSE 0) >= IR_TRESHOLD
     \/ ir_count2 + (IF ir2 THEN 1 ELSE 0) >= IR_TRESHOLD

(* The level of the button did not change for PB_TRESHOLD passes. *)
Settled(button) == button = pb_last_state /\ pb_time + 1 >= PB_TRESHOLD

(* Takes a level that did not last. *)
Mutant_Debounce(button) ==
  /\ pb_time' = IF button # pb_last_state THEN 0 ELSE Min2(pb_time + 1, PB_TRESHOLD)
  /\ pb_last_state' = button
  /\ pb_postth_state' = IF button = pb_last_state /\ ~button THEN FALSE
                        ELSE IF Settled(button) THEN button ELSE pb_postth_state

Debounce(button) ==
  /\ pb_time' = IF button # pb_last_state THEN 0 ELSE Min2(pb_time + 1, PB_TRESHOLD)
  /\ pb_last_state' = button
  /\ pb_postth_state' = IF Settled(button) THEN button ELSE pb_postth_state

Pressed(button) == Settled(button) /\ button /\ ~pb_postth_state

(* The first half of a pass.  history: held counts the samples with the     *)
(* present level, up to PB_TRESHOLD + 1; rested says that the button was    *)
(* released for longer than PB_TRESHOLD samples since the last report.      *)
Sense(button, ir, ir2) ==
  /\ pc = "sense"
  /\ pc' = "acknowledge"
  /\ CountMovement(ir, ir2)
  /\ Debounce(button)
  /\ printed' = (IF Moved(ir, ir2) THEN {"movement"} ELSE {})
                  \cup (IF Pressed(button) THEN {"PanicButton"} ELSE {})
  /\ held' = IF button = pb_last_state THEN Min2(held + 1, PB_TRESHOLD + 1) ELSE 1
  /\ rested' = IF Pressed(button) THEN FALSE
               ELSE rested \/ (~button /\ held' > PB_TRESHOLD)
  /\ UNCHANGED <<serial, chars, radio, to_acknowledge, register, lag, owed>>

-----------------------------------------------------------------------------
(* Acknowledgements: check_frame_done. *)

(* The counter has two bytes: it is read, and written back one smaller; an  *)
(* interrupt may come in between.                                           *)
ReadCounter ==
  /\ pc = "acknowledge"
  /\ to_acknowledge > 0
  /\ register' = to_acknowledge
  /\ pc' = "decrement"
  /\ printed' = {}
  /\ UNCHANGED <<inputs, serial, chars, radio, to_acknowledge, lag, owed>>

Acknowledge ==
  /\ pc = "decrement"
  /\ to_acknowledge' = register - 1
  /\ printed' = {"Ok"}
  /\ owed' = owed - 1
  /\ pc' = "acknowledge"
  /\ UNCHANGED <<inputs, serial, chars, radio, register, lag>>

AllAcknowledged ==
  /\ pc = "acknowledge"
  /\ to_acknowledge = 0
  /\ lag' = 0
  /\ pc' = "command"
  /\ printed' = {}
  /\ UNCHANGED <<inputs, serial, chars, radio, to_acknowledge, register, owed>>

-----------------------------------------------------------------------------
(* Commands. *)

NoCommand ==
  /\ pc = "command"
  /\ serialIn = <<>>
  /\ pc' = "sense"
  /\ printed' = {}
  /\ UNCHANGED <<inputs, serial, chars, radio, to_acknowledge, register, lag, owed>>

ReadChar(answer, next, accepted) ==
  /\ pc = "command"
  /\ serialIn # <<>>
  /\ serialIn' = Tail(serialIn)
  /\ printed' = answer
  /\ pc' = next
  /\ owed' = owed + accepted
  /\ UNCHANGED <<inputs, chars, radio, to_acknowledge, register, lag>>

SendCommand ==
  /\ ReadChar({}, "wait", 1)
  /\ Head(serialIn) \in DOMAIN Code \cup {RawChar}
  /\ char' = Head(serialIn)
  /\ chr' = 0

ShortCommand ==
  \E c \in OkChars \cup SensorChars \cup OtherChars :
    /\ ReadChar(IF c \in OkChars THEN {"Ok"} ELSE IF c \in SensorChars THEN {"Sensor"}
                ELSE {"Error"}, "sense", 0)
    /\ Head(serialIn) = c
    /\ UNCHANGED <<char, chr>>

(* repeatc and the timer are set once the whole code is in place. *)
Start(code) ==
  /\ signal' = code /\ sending' = code
  /\ repeatc' = NUM_REPEAT_SIGNAL
  /\ running' = TRUE
  /\ lag' = 1
  /\ rep' = 0 /\ position' = RF_SIGNAL_BITS /\ ticks' = 0
  /\ pc' = "sense"
  /\ char' = NoChar

(* Does not wait for the timer to stop. *)
Mutant_SendCode ==
  /\ pc = "wait" /\ char \in DOMAIN Code
  /\ Start(Code[char])
  /\ printed' = {}
  /\ UNCHANGED <<inputs, serialIn, chr, chars, atime, bit, state, rf_on, to_acknowledge,
                 register, owed>>

(* send_rf_cmd: busy until the last transmission is through. *)
SendCode ==
  /\ pc = "wait" /\ char \in DOMAIN Code
  /\ ~running
  /\ Start(Code[char])
  /\ printed' = {}
  /\ UNCHANGED <<inputs, serialIn, chr, chars, atime, bit, state, rf_on, to_acknowledge,
                 register, owed>>

(* serial_read_send_rf_cmd: busy until three more characters arrived. *)
ReadRaw ==
  /\ pc = "wait" /\ char = RawChar
  /\ ~running
  /\ pc' = "raw"
  /\ printed' = {}
  /\ UNCHANGED <<inputs, serial, chars, radio, to_acknowledge, register, lag, owed>>

RawByte ==
  /\ pc = "raw"
  /\ serialIn # <<>>
  /\ LET code == [signal EXCEPT ![chr] = Byte[Head(serialIn)]]
     IN IF chr = RF_SIGNAL_BYTES - 1
          THEN Start(code)
          ELSE /\ signal' = code
               /\ UNCHANGED <<pc, char, repeatc, running, sending, lag, rep, position,
                              ticks>>
  /\ chr' = chr + 1
  /\ serialIn' = Tail(serialIn)
  /\ printed' = {}
  /\ UNCHANGED <<inputs, chars, atime, bit, state, rf_on, to_acknowledge, register, owed>>

(* loop() turns in one of its two busy waits. *)
Busy ==
  /\ \/ pc = "wait" /\ running
     \/ pc = "raw" /\ serialIn = <<>>
  /\ UNCHANGED vars

-----------------------------------------------------------------------------
(* The interrupt handler of timer 1. *)

CURRENT_BIT(b) ==
  LET cnt == RF_SIGNAL_BITS - b - 1
  IN signal[cnt \div ByteBits][cnt % ByteBits]

CountDown ==
  /\ atime > 0
  /\ atime' = atime - 1
  /\ UNCHANGED <<bit, state, repeatc, rf_on, running, to_acknowledge>>

(* The short and the long pause mixed up. *)
Mutant_PulseEnds ==
  /\ atime = 0 /\ state # 0
  /\ rf_on' = FALSE
  /\ atime' = IF state = 2 THEN RF_TIME_SNYC
              ELSE IF CURRENT_BIT(bit) = 1 THEN RF_TIME_LONG ELSE RF_TIME_SHORT
  /\ state' = 0
  /\ UNCHANGED <<bit, repeatc, running, to_acknowledge>>

PulseEnds ==
  /\ atime = 0 /\ state # 0
  /\ rf_on' = FALSE
  /\ atime' = IF state = 2 THEN RF_TIME_SNYC
              ELSE IF CURRENT_BIT(bit) = 1 THEN RF_TIME_SHORT ELSE RF_TIME_LONG
  /\ state' = 0
  /\ UNCHANGED <<bit, repeatc, running, to_acknowledge>>

NextBit ==
  /\ atime = 0 /\ state = 0 /\ bit > 0
  /\ bit' = bit - 1
  /\ state' = 1
  /\ atime' = IF CURRENT_BIT(bit - 1) = 1 THEN RF_TIME_LONG ELSE RF_TIME_SHORT
  /\ rf_on' = TRUE
  /\ UNCHANGED <<repeatc, running, to_acknowledge>>

NextRepetition ==
  /\ atime = 0 /\ state = 0 /\ bit = 0 /\ repeatc > 0
  /\ bit' = RF_SIGNAL_BITS
  /\ repeatc' = repeatc - 1
  /\ state' = 2
  /\ rf_on' = TRUE
  /\ atime' = RF_TIME_SHORT
  /\ UNCHANGED <<running, to_acknowledge>>

(* Stops the timer and tells nobody. *)
Mutant_FrameDone ==
  /\ atime = 0 /\ state = 0 /\ bit = 0 /\ repeatc = 0
  /\ running' = FALSE
  /\ rf_on' = FALSE
  /\ UNCHANGED <<atime, bit, state, repeatc, to_acknowledge>>

FrameDone ==
  /\ atime = 0 /\ state = 0 /\ bit = 0 /\ repeatc = 0
  /\ running' = FALSE
  /\ rf_on' = FALSE
  /\ to_acknowledge' = to_acknowledge + 1
  /\ UNCHANGED <<atime, bit, state, repeatc>>

(* History: a sync pulse and RF_SIGNAL_BITS others make a repetition, the   *)
(* sync pulse is in position 0; ticks are the interrupts since an edge.     *)
Receive ==
  LET rising == rf_on' /\ ~rf_on
  IN /\ ticks' = IF rf_on' = rf_on THEN ticks + 1 ELSE 0
     /\ position' = IF ~rising THEN position
                    ELSE IF position = RF_SIGNAL_BITS THEN 0 ELSE position + 1
     /\ rep' = IF rising /\ position = RF_SIGNAL_BITS THEN rep + 1 ELSE rep

(* An interrupt every 0.08 ms.  From start_timer loop() goes on to          *)
(* check_frame_done without waiting for anything but its own output (some   *)
(* 25 ms at 9600 baud), which MaxLag bounds in interrupts.                  *)
Interrupt ==
  /\ running
  /\ lag < MaxLag
  /\ lag' = IF lag > 0 THEN lag + 1 ELSE 0
  /\ CountDown \/ PulseEnds \/ NextBit \/ NextRepetition \/ FrameDone
  /\ Receive
  /\ printed' = {}
  /\ UNCHANGED <<pc, inputs, serial, chars, signal, sending, register, owed>>

-----------------------------------------------------------------------------

(* The serial line delivers a character. *)
HostSends ==
  /\ chars < MaxChars
  /\ chars' = chars + 1
  /\ \E c \in Chars : serialIn' = Append(serialIn, c)
  /\ printed' = {}
  /\ UNCHANGED <<pc, inputs, char, chr, radio, to_acknowledge, register, lag, owed>>

Init ==
  /\ pc = "sense" /\ printed = {}
  /\ ir_time = IR_SAMPLE_DURATION /\ ir_count = 0 /\ ir_count2 = 0
  /\ pb_time = 0 /\ pb_last_state = FALSE /\ pb_postth_state = FALSE
  /\ serialIn = <<>> /\ char = NoChar /\ chr = 0 /\ chars = 0
  /\ signal = [k \in 0 .. RF_SIGNAL_BYTES - 1 |-> [i \in 0 .. ByteBits - 1 |-> 0]]
  /\ atime = 0 /\ bit = 0 /\ repeatc = 0 /\ state = 0
  /\ running = FALSE /\ rf_on = FALSE
  /\ to_acknowledge = 0 /\ register = 0 /\ lag = 0
  /\ held = 0 /\ rested = TRUE
  /\ owed = 0 /\ sending = signal
  /\ rep = 0 /\ position = RF_SIGNAL_BITS /\ ticks = 0

LoopStep ==
  \/ \E button \in ButtonLevels, ir, ir2 \in MovementLevels : Sense(button, ir, ir2)
  \/ ReadCounter \/ Acknowledge \/ AllAcknowledged
  \/ NoCommand \/ SendCommand \/ ShortCommand
  \/ SendCode \/ ReadRaw \/ RawByte

Next == LoopStep \/ Busy \/ Interrupt \/ HostSends

Spec == Init /\ [][Next]_vars

(* The processor executes loop() and the timer interrupts it; nothing is    *)
(* assumed of the host.                                                     *)
FairSpec == Spec /\ WF_vars(LoopStep) /\ WF_vars(Interrupt)

-----------------------------------------------------------------------------
(* Properties. *)

(* Every variable keeps its type. *)
TypeOK ==
  /\ pc \in {"sense", "acknowledge", "decrement", "command", "wait", "raw"}
  /\ printed \subseteq Reports
  /\ ir_time \in 1 .. IR_SAMPLE_DURATION /\ ir_count \in Nat /\ ir_count2 \in Nat
  /\ pb_time \in 0 .. PB_TRESHOLD
  /\ pb_last_state \in BOOLEAN /\ pb_postth_state \in BOOLEAN
  /\ serialIn \in Seq(Chars) /\ char \in Chars \cup {NoChar} /\ chr \in Nat /\ chars \in Nat
  /\ signal \in Signals /\ sending \in Signals
  /\ atime \in Nat /\ bit \in 0 .. RF_SIGNAL_BITS /\ repeatc \in Nat /\ state \in 0 .. 2
  /\ running \in BOOLEAN /\ rf_on \in BOOLEAN
  /\ to_acknowledge \in Int /\ register \in Int /\ lag \in 0 .. MaxLag
  /\ held \in 0 .. PB_TRESHOLD + 1 /\ rested \in BOOLEAN
  /\ owed \in Int
  /\ rep \in Nat /\ position \in 0 .. RF_SIGNAL_BITS /\ ticks \in Nat

(* rf433ctl.pde:21: "for two PanicButton Reports, the buttons needs to be   *)
(* pressed 1000 cycles, releases 1000 cycles and again pressed 1000 cycles".*)
(* The button is reported exactly when it has been held for more than       *)
(* PB_TRESHOLD samples, and was at rest that long after the last report:    *)
(* bouncing neither repeats a report nor swallows one (loop, 429-461).      *)
PanicReports ==
  [][ pc = "sense" /\ pc' = "acknowledge" =>
        ("PanicButton" \in printed' <=> pb_last_state' /\ held' > PB_TRESHOLD /\ rested) ]_vars

(* A window of movement samples is judged by its own samples only, and      *)
(* every window has IR_SAMPLE_DURATION of them (loop, 425-443).             *)
WindowsAreSeparate ==
  /\ ir_count <= IR_SAMPLE_DURATION - ir_time
  /\ ir_count2 <= IR_SAMPLE_DURATION - ir_time

(* Every code taken from the serial line is acknowledged exactly once: it   *)
(* is being prepared, on the air, or counted, although the handler          *)
(* increments the counter that loop() decrements without protection.        *)
NoAckLost ==
  owed = to_acknowledge + (IF running THEN 1 ELSE 0) + (IF pc \in {"wait", "raw"} THEN 1 ELSE 0)

(* What the receiver sees of a transmission is the code that was asked for, *)
(* NUM_REPEAT_SIGNAL times, each bit of it and the sync pulse with its      *)
(* length, whatever loop() does meanwhile (ISR, send_rf_cmd).               *)
SentBit(k) == sending[k \div ByteBits][k % ByteBits]
On == IF position > 0 /\ SentBit(position - 1) = 1 THEN RF_TIME_LONG ELSE RF_TIME_SHORT
Off == IF position = 0 THEN RF_TIME_SNYC
       ELSE IF SentBit(position - 1) = 1 THEN RF_TIME_SHORT ELSE RF_TIME_LONG

FramesAreSentWhole ==
  [][ /\ rf_on /\ ~rf_on' => ticks = On
      /\ ~rf_on /\ rf_on' => rep = 0 \/ ticks = Off
      /\ running /\ ~running' =>
           rep = NUM_REPEAT_SIGNAL /\ position = RF_SIGNAL_BITS /\ ticks = Off ]_vars

(* Every code is acknowledged in the end, unless loop() waits for the bytes *)
(* of a raw code that never arrive.                                         *)
CodesAreAcknowledged == owed > 0 ~> owed = 0 \/ (pc = "raw" /\ serialIn = <<>>)

=============================================================================
