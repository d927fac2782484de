----------------------------- MODULE Firmware_proofs -----------------------------
(***************************************************************************)
(* Theorems about Firmware, for all thresholds, codes and durations.       *)
(***************************************************************************)
EXTENDS Firmware, TLAPS

(* The constants as numbers. *)
LEMMA Numbers ==
  /\ IR_SAMPLE_DURATION \in Nat /\ IR_SAMPLE_DURATION > 0
  /\ PB_TRESHOLD \in Nat /\ PB_TRESHOLD > 0
  /\ ByteBits \in Nat /\ ByteBits > 0
  /\ RF_SIGNAL_BITS \in Nat /\ RF_SIGNAL_BITS > 0
  /\ NUM_REPEAT_SIGNAL \in Nat /\ NUM_REPEAT_SIGNAL > 0
  /\ RF_TIME_SHORT \in Nat /\ RF_TIME_LONG \in Nat /\ RF_TIME_SNYC \in Nat
  /\ MaxLag \in Nat /\ MaxLag > 0
  BY InputAssumption, RfAssumption DEF RF_SIGNAL_BITS, RF_SIGNAL_BYTES

(* A code is in place after Start, and its transmission is under way. *)
LEMMA StartType ==
  ASSUME TypeOK, NEW code \in Signals, Start(code)
  PROVE  /\ signal' \in Signals /\ sending' \in Signals /\ repeatc' \in Nat
         /\ running' \in BOOLEAN /\ lag' \in 0 .. MaxLag
         /\ rep' \in Nat /\ position' \in 0 .. RF_SIGNAL_BITS /\ ticks' \in Nat
         /\ pc' = "sense" /\ char' = NoChar
  BY Numbers DEF Start

LEMMA InputType ==
  ASSUME TypeOK, NEW button \in BOOLEAN, NEW ir \in BOOLEAN, NEW ir2 \in BOOLEAN,
         Sense(button, ir, ir2)
  PROVE  /\ ir_time' \in 1 .. IR_SAMPLE_DURATION /\ ir_count' \in Nat /\ ir_count2' \in Nat
         /\ pb_time' \in 0 .. PB_TRESHOLD
         /\ pb_last_state' \in BOOLEAN /\ pb_postth_state' \in BOOLEAN
         /\ held' \in 0 .. PB_TRESHOLD + 1 /\ rested' \in BOOLEAN
         /\ printed' \subseteq Reports
<1>1. /\ ir_time' \in 1 .. IR_SAMPLE_DURATION /\ ir_count' \in Nat /\ ir_count2' \in Nat
  BY Numbers DEF TypeOK, Sense, CountMovement
<1>2. pb_time' \in 0 .. PB_TRESHOLD /\ pb_last_state' \in BOOLEAN
  BY Numbers DEF TypeOK, Sense, Debounce, Min2
<1>3. pb_postth_state' \in BOOLEAN
  BY DEF TypeOK, Sense, Debounce
<1>4. held' \in 0 .. PB_TRESHOLD + 1
  BY Numbers DEF TypeOK, Sense, Min2
<1>5. rested' \in BOOLEAN
  BY DEF TypeOK, Sense
<1>6. printed' \subseteq Reports
  BY DEF Sense, Reports
<1> QED
  BY <1>1, <1>2, <1>3, <1>4, <1>5, <1>6

LEMMA TypeInvariant == TypeOK /\ [Next]_vars => TypeOK'
<1> SUFFICES ASSUME TypeOK, [Next]_vars PROVE TypeOK'
  OBVIOUS
<1> USE Numbers
<1>1. ASSUME NEW button \in ButtonLevels, NEW ir \in MovementLevels, NEW ir2 \in MovementLevels,
             Sense(button, ir, ir2)
      PROVE  TypeOK'
  <2>1. button \in BOOLEAN /\ ir \in BOOLEAN /\ ir2 \in BOOLEAN
    BY InputAssumption
  <2> QED
    BY <1>1, <2>1, InputType DEF TypeOK, Sense, serial, radio, frame
<1>2. ASSUME ReadCounter PROVE TypeOK'
  BY <1>2 DEF TypeOK, ReadCounter, inputs, serial, radio, frame
<1>3. ASSUME Acknowledge PROVE TypeOK'
  BY <1>3 DEF TypeOK, Acknowledge, inputs, serial, radio, frame, Reports
<1>4. ASSUME AllAcknowledged PROVE TypeOK'
  BY <1>4 DEF TypeOK, AllAcknowledged, inputs, serial, radio, frame
<1>5. ASSUME NoCommand PROVE TypeOK'
  BY <1>5 DEF TypeOK, NoCommand, inputs, serial, radio, frame
<1>6. ASSUME SendCommand PROVE TypeOK'
  <2>1. Head(serialIn) \in Chars /\ Tail(serialIn) \in Seq(Chars)
    BY <1>6 DEF TypeOK, SendCommand, ReadChar
  <2> QED
    BY <1>6, <2>1 DEF TypeOK, SendCommand, ReadChar, inputs, radio, frame
<1>7. ASSUME ShortCommand PROVE TypeOK'
  <2>1. Tail(serialIn) \in Seq(Chars)
    BY <1>7 DEF TypeOK, ShortCommand, ReadChar
  <2>2. printed' \subseteq Reports /\ owed' = owed /\ pc' = "sense"
    BY <1>7 DEF TypeOK, ShortCommand, ReadChar, Reports
  <2> QED
    BY <1>7, <2>1, <2>2 DEF TypeOK, ShortCommand, ReadChar, inputs, radio, frame
<1>8. ASSUME SendCode PROVE TypeOK'
  <2>1. Code[char] \in Signals
    BY <1>8, CharAssumption DEF SendCode
  <2>2. Start(Code[char])
    BY <1>8 DEF SendCode
  <2> QED
    BY <1>8, <2>1, <2>2, StartType DEF TypeOK, SendCode, inputs
<1>9. ASSUME ReadRaw PROVE TypeOK'
  BY <1>9 DEF TypeOK, ReadRaw, inputs, serial, radio, frame
<1>10. ASSUME RawByte PROVE TypeOK'
  <2> DEFINE code == [signal EXCEPT ![chr] = Byte[Head(serialIn)]]
  <2>1. Head(serialIn) \in Chars /\ Tail(serialIn) \in Seq(Chars)
    BY <1>10 DEF TypeOK, RawByte
  <2>2. code \in Signals
    BY <2>1, CharAssumption DEF TypeOK, Signals
  <2>3. \/ Start(code)
        \/ /\ signal' = code
           /\ UNCHANGED <<pc, char, repeatc, running, sending, lag, rep, position, ticks>>
    BY <1>10 DEF RawByte
  <2>4. /\ chr' = chr + 1 /\ serialIn' = Tail(serialIn) /\ printed' = {}
        /\ UNCHANGED <<inputs, chars, atime, bit, state, rf_on, to_acknowledge, register, owed>>
    BY <1>10 DEF RawByte
  <2> HIDE DEF code
  <2>5. CASE Start(code)
    BY <2>1, <2>2, <2>4, <2>5, StartType DEF TypeOK, inputs
  <2>6. CASE /\ signal' = code
             /\ UNCHANGED <<pc, char, repeatc, running, sending, lag, rep, position, ticks>>
    BY <2>1, <2>2, <2>4, <2>6 DEF TypeOK, inputs
  <2> QED
    BY <2>3, <2>5, <2>6
<1>11. ASSUME Interrupt PROVE TypeOK'
  <2>1. /\ atime' \in Nat /\ bit' \in 0 .. RF_SIGNAL_BITS /\ repeatc' \in Nat /\ state' \in 0 .. 2
        /\ running' \in BOOLEAN /\ rf_on' \in BOOLEAN /\ to_acknowledge' \in Int
    <3>1. CASE CountDown
      BY <3>1 DEF TypeOK, CountDown
    <3>2. CASE PulseEnds
      <4>1. rf_on' \in BOOLEAN
        BY <3>2 DEF PulseEnds
      <4>2. atime' \in Nat
        BY <3>2 DEF PulseEnds
      <4> QED
        BY <3>2, <4>1, <4>2 DEF TypeOK, PulseEnds
    <3>3. CASE NextBit
      BY <3>3 DEF TypeOK, NextBit
    <3>4. CASE NextRepetition
      BY <3>4 DEF TypeOK, NextRepetition
    <3>5. CASE FrameDone
      <4>1. running' \in BOOLEAN /\ rf_on' \in BOOLEAN
        BY <3>5 DEF FrameDone
      <4> QED
        BY <3>5, <4>1 DEF TypeOK, FrameDone
    <3> QED
      BY <1>11, <3>1, <3>2, <3>3, <3>4, <3>5 DEF Interrupt
  <2>2. rep' \in Nat /\ position' \in 0 .. RF_SIGNAL_BITS /\ ticks' \in Nat
    <3>1. Receive
      BY <1>11 DEF Interrupt
    <3>2. rep \in Nat /\ position \in 0 .. RF_SIGNAL_BITS /\ ticks \in Nat
      BY DEF TypeOK
    <3>3. ticks' \in Nat
      BY <3>1, <3>2 DEF Receive
    <3>4. rep' \in Nat
      BY <3>1, <3>2 DEF Receive
    <3>5. position' \in 0 .. RF_SIGNAL_BITS
      BY <3>1, <3>2 DEF Receive
    <3> QED
      BY <3>3, <3>4, <3>5
  <2>3. lag' \in 0 .. MaxLag
    BY <1>11 DEF TypeOK, Interrupt
  <2>4. /\ printed' = {}
        /\ UNCHANGED <<pc, inputs, serial, chars, signal, sending, register, owed>>
    BY <1>11 DEF Interrupt
  <2> QED
    BY <2>1, <2>2, <2>3, <2>4 DEF TypeOK, inputs, serial
<1>12. ASSUME HostSends PROVE TypeOK'
  BY <1>12 DEF TypeOK, HostSends, inputs, radio, frame
<1>13. ASSUME UNCHANGED vars PROVE TypeOK'
  BY <1>13 DEF TypeOK, vars, inputs, serial, radio, frame
<1> QED
  BY <1>1, <1>2, <1>3, <1>4, <1>5, <1>6, <1>7, <1>8, <1>9, <1>10, <1>11, <1>12, <1>13
     DEF Next, LoopStep, Busy

LEMMA InitialType == Init => TypeOK
<1> SUFFICES ASSUME Init PROVE TypeOK
  OBVIOUS
<1>1. signal \in Signals
  BY DEF Init, Signals, Bytes
<1>2. /\ ir_time \in 1 .. IR_SAMPLE_DURATION /\ ir_count \in Nat /\ ir_count2 \in Nat
      /\ pb_time \in 0 .. PB_TRESHOLD /\ held \in 0 .. PB_TRESHOLD + 1
  BY Numbers DEF Init
<1>3. /\ pb_last_state \in BOOLEAN /\ pb_postth_state \in BOOLEAN /\ rested \in BOOLEAN
      /\ running \in BOOLEAN /\ rf_on \in BOOLEAN
  BY DEF Init
<1>4. /\ serialIn \in Seq(Chars) /\ char \in Chars \cup {NoChar} /\ chr \in Nat /\ chars \in Nat
      /\ atime \in Nat /\ repeatc \in Nat /\ state \in 0 .. 2
      /\ to_acknowledge \in Int /\ register \in Int /\ owed \in Int
      /\ rep \in Nat /\ ticks \in Nat
  BY DEF Init
<1>5. /\ bit \in 0 .. RF_SIGNAL_BITS /\ position \in 0 .. RF_SIGNAL_BITS /\ lag \in 0 .. MaxLag
  BY Numbers DEF Init
<1>6. sending \in Signals /\ pc = "sense" /\ printed = {}
  BY <1>1 DEF Init
<1> QED
  BY <1>1, <1>2, <1>3, <1>4, <1>5, <1>6 DEF TypeOK

(* Every variable keeps its type (the whole of loop() and the handler). *)
THEOREM TypeCorrect == Spec => []TypeOK
  BY InitialType, TypeInvariant, PTL DEF Spec

-----------------------------------------------------------------------------
(* The inputs: what the debouncing variables say about the samples.         *)

ButtonInv ==
  /\ rested <=> ~pb_postth_state
  /\ pb_last_state \/ pb_postth_state => pb_time = held - 1

InputInv == ButtonInv /\ WindowsAreSeparate

(* The button is settled exactly when it was held long enough. *)
LEMMA SenseButton ==
  ASSUME TypeOK, ButtonInv, NEW button \in BOOLEAN, NEW ir \in BOOLEAN, NEW ir2 \in BOOLEAN,
         Sense(button, ir, ir2)
  PROVE  /\ ButtonInv'
         /\ Pressed(button) <=> pb_last_state' /\ held' > PB_TRESHOLD /\ rested
<1> USE Numbers
<1>1. /\ pb_time \in 0 .. PB_TRESHOLD /\ held \in 0 .. PB_TRESHOLD + 1
      /\ pb_last_state \in BOOLEAN /\ pb_postth_state \in BOOLEAN /\ rested \in BOOLEAN
  BY DEF TypeOK
<1>2. /\ pb_last_state' = button
      /\ pb_time' = IF button # pb_last_state THEN 0 ELSE Min2(pb_time + 1, PB_TRESHOLD)
      /\ held' = IF button = pb_last_state THEN Min2(held + 1, PB_TRESHOLD + 1) ELSE 1
  BY DEF Sense, Debounce
<1>3. CASE button # pb_last_state
  <2>1. pb_time' = 0 /\ held' = 1 /\ ~Settled(button)
    BY <1>2, <1>3 DEF Settled
  <2>2. pb_postth_state' = pb_postth_state
    BY <2>1 DEF Sense, Debounce
  <2>3. ~Pressed(button)
    BY <2>1 DEF Pressed
  <2>4. rested' = rested
    <3>1. rested' = (rested \/ (~button /\ held' > PB_TRESHOLD))
      BY <2>3 DEF Sense
    <3>2. ~(held' > PB_TRESHOLD)
      BY <2>1
    <3> QED
      BY <1>1, <3>1, <3>2
  <2>5. ~(held' > PB_TRESHOLD)
    BY <2>1
  <2> QED
    BY <2>1, <2>2, <2>3, <2>4, <2>5 DEF ButtonInv
<1>4. CASE button = pb_last_state
  <2>1. /\ pb_time' = Min2(pb_time + 1, PB_TRESHOLD)
        /\ held' = Min2(held + 1, PB_TRESHOLD + 1)
        /\ Settled(button) <=> pb_time + 1 >= PB_TRESHOLD
    BY <1>2, <1>4 DEF Settled
  <2>2. CASE pb_last_state \/ pb_postth_state
    <3>1. pb_time = held - 1
      BY <2>2 DEF ButtonInv
    <3>2. pb_time' = held' - 1 /\ (Settled(button) <=> held' > PB_TRESHOLD)
      BY <1>1, <2>1, <3>1 DEF Min2
    <3>3. Pressed(button) <=> pb_last_state' /\ held' > PB_TRESHOLD /\ rested
      BY <1>2, <3>2 DEF Pressed, ButtonInv
    <3>4. CASE Settled(button)
      <4>1. pb_postth_state' = button
        BY <3>4 DEF Sense, Debounce
      <4>2. CASE button
        <5>1. ~rested'
          <6>1. CASE Pressed(button)
            BY <6>1 DEF Sense
          <6>2. CASE ~Pressed(button)
            <7>1. rested' = (rested \/ (~button /\ held' > PB_TRESHOLD))
              BY <6>2 DEF Sense
            <7>2. ~rested
              BY <3>4, <4>2, <6>2 DEF Pressed, ButtonInv
            <7> QED
              BY <4>2, <7>1, <7>2
          <6> QED
            BY <6>1, <6>2
        <5> QED
          BY <3>2, <3>3, <4>1, <4>2, <5>1 DEF ButtonInv
      <4>3. CASE ~button
        <5>1. ~Pressed(button)
          BY <4>3 DEF Pressed
        <5>2. rested' = (rested \/ (~button /\ held' > PB_TRESHOLD))
          BY <5>1 DEF Sense
        <5>3. rested'
          BY <3>2, <3>4, <4>3, <5>2
        <5> QED
          BY <3>2, <3>3, <4>1, <4>3, <5>3 DEF ButtonInv
      <4> QED
        BY <4>2, <4>3
    <3>5. CASE ~Settled(button)
      <4>1. pb_postth_state' = pb_postth_state /\ ~Pressed(button)
        BY <3>5 DEF Sense, Debounce, Pressed
      <4>2. rested' = (rested \/ (~button /\ held' > PB_TRESHOLD))
        BY <4>1 DEF Sense
      <4>3. rested' = rested
        BY <1>1, <3>2, <3>5, <4>2
      <4> QED
        BY <3>2, <3>3, <4>1, <4>3 DEF ButtonInv
    <3> QED
      BY <3>4, <3>5
  <2>3. CASE ~pb_last_state /\ ~pb_postth_state
    <3>1. ~button /\ ~Pressed(button) /\ rested
      BY <1>4, <2>3 DEF Pressed, ButtonInv
    <3>2. ~pb_postth_state'
      BY <2>3, <3>1 DEF Sense, Debounce
    <3>3. rested' = (rested \/ (~button /\ held' > PB_TRESHOLD))
      BY <3>1 DEF Sense
    <3> QED
      BY <1>2, <3>1, <3>2, <3>3 DEF ButtonInv
  <2> QED
    BY <1>1, <2>2, <2>3
<1> QED
  BY <1>3, <1>4

LEMMA InputInvariant == TypeOK /\ InputInv /\ [Next]_vars => InputInv'
<1> SUFFICES ASSUME TypeOK, InputInv, [Next]_vars PROVE InputInv'
  OBVIOUS
<1>1. CASE \E button \in ButtonLevels, ir, ir2 \in MovementLevels : Sense(button, ir, ir2)
  <2>1. PICK button \in BOOLEAN, ir \in BOOLEAN, ir2 \in BOOLEAN : Sense(button, ir, ir2)
    BY <1>1, InputAssumption
  <2>2. ButtonInv'
    BY <2>1, SenseButton DEF InputInv
  <2>3. WindowsAreSeparate'
    BY <2>1, Numbers DEF InputInv, WindowsAreSeparate, TypeOK, Sense, CountMovement
  <2> QED
    BY <2>2, <2>3 DEF InputInv
<1>2. CASE UNCHANGED inputs
  BY <1>2 DEF inputs, InputInv, ButtonInv, WindowsAreSeparate
<1> QED
  BY <1>1, <1>2 DEF Next, LoopStep, Busy, ReadCounter, Acknowledge, AllAcknowledged, NoCommand,
     SendCommand, ShortCommand, ReadChar, SendCode, ReadRaw, RawByte, Interrupt, HostSends, vars

LEMMA InputsInvariant == Spec => [](TypeOK /\ InputInv)
<1>1. Init => InputInv
  BY Numbers DEF Init, InputInv, ButtonInv, WindowsAreSeparate
<1> QED
  BY <1>1, InitialType, TypeInvariant, InputInvariant, PTL DEF Spec

(* A window of movement samples is judged by its own samples only (loop,    *)
(* 425-443), for every length of the window and every threshold.            *)
THEOREM WindowsSeparate == Spec => []WindowsAreSeparate
<1>1. InputInv => WindowsAreSeparate
  BY DEF InputInv
<1> QED
  BY <1>1, InputsInvariant, PTL

(* The panic button is reported exactly when it was held for more than      *)
(* PB_TRESHOLD samples after it had been at rest for as long (loop,         *)
(* 429-461), for every threshold and however the contact bounces.           *)
THEOREM PanicReported == Spec => PanicReports
<1> DEFINE Exactly ==
      pc = "sense" /\ pc' = "acknowledge" =>
        ("PanicButton" \in printed' <=> pb_last_state' /\ held' > PB_TRESHOLD /\ rested)
<1>1. ASSUME TypeOK, InputInv, [Next]_vars PROVE [Exactly]_vars
  <2> SUFFICES ASSUME pc = "sense", pc' = "acknowledge" PROVE Exactly
    OBVIOUS
  <2>1. \E button \in ButtonLevels, ir, ir2 \in MovementLevels : Sense(button, ir, ir2)
    BY <1>1 DEF Next, LoopStep, Busy, ReadCounter, Acknowledge, AllAcknowledged, NoCommand,
       SendCommand, ShortCommand, ReadChar, SendCode, ReadRaw, RawByte, Interrupt, HostSends, vars
  <2>2. PICK button \in BOOLEAN, ir \in BOOLEAN, ir2 \in BOOLEAN : Sense(button, ir, ir2)
    BY <2>1, InputAssumption
  <2>3. "PanicButton" \in printed' <=> Pressed(button)
    BY <2>2 DEF Sense
  <2> QED
    BY <1>1, <2>2, <2>3, SenseButton DEF InputInv
<1> QED
  BY <1>1, InputsInvariant, PTL DEF Spec, PanicReports

-----------------------------------------------------------------------------
(* Acknowledgements.  loop() decrements the counter in two steps, and an    *)
(* increment of the handler in between would be lost.  There is none:       *)
(* while the counter is positive and the timer runs, loop() has not caught  *)
(* up since start_timer, and by then the transmission is far from its end.  *)

BitTicks == RF_TIME_SHORT + RF_TIME_LONG + 2

(* Interrupts until the pulse on the air and the pause behind it are over.  *)
PulseTicks ==
  IF state = 0 THEN 0
  ELSE 1 + (IF state = 2 THEN RF_TIME_SNYC
            ELSE IF CURRENT_BIT(bit) = 1 THEN RF_TIME_SHORT ELSE RF_TIME_LONG)

(* Interrupts that the transmission still takes. *)
Remaining == atime + PulseTicks + bit * BitTicks + repeatc * FrameTicks

(* What runs out while loop() catches up. *)
Progress == running /\ lag > 0 => lag + Remaining >= 1 + NUM_REPEAT_SIGNAL * FrameTicks

Owing == (IF running THEN 1 ELSE 0) + (IF pc \in {"wait", "raw"} THEN 1 ELSE 0)

AckInv ==
  /\ ~running => atime = 0 /\ bit = 0 /\ state = 0
  /\ pc = "raw" => ~running
  /\ Progress
  /\ running /\ to_acknowledge > 0 => lag > 0
  /\ to_acknowledge >= 0
  /\ pc = "decrement" => register = to_acknowledge /\ to_acknowledge > 0
  /\ owed = to_acknowledge + Owing

LEMMA Ticks ==
  /\ BitTicks \in Nat /\ FrameTicks \in Nat
  /\ FrameTicks = RF_TIME_SHORT + RF_TIME_SNYC + 2 + RF_SIGNAL_BITS * BitTicks
  /\ NUM_REPEAT_SIGNAL * FrameTicks \in Nat
<1>1. BitTicks \in Nat
  BY Numbers DEF BitTicks
<1>2. \A m, n \in Nat : m * n \in Nat
  OBVIOUS
<1>3. FrameTicks = RF_TIME_SHORT + RF_TIME_SNYC + 2 + RF_SIGNAL_BITS * BitTicks
  BY DEF FrameTicks, BitTicks
<1>4. RF_SIGNAL_BITS * BitTicks \in Nat
  BY <1>1, <1>2, Numbers
<1>5. FrameTicks \in Nat
  BY <1>3, <1>4, Numbers
<1> QED
  BY <1>1, <1>2, <1>3, <1>5, Numbers

LEMMA OneLess ==
  ASSUME NEW n \in Nat, n > 0, NEW k \in Nat
  PROVE  (n - 1) * k + k = n * k
  OBVIOUS

(* An interrupt takes one off what remains, until nothing does. *)
LEMMA InterruptProgress ==
  ASSUME TypeOK, Interrupt
  PROVE  /\ CountDown \/ PulseEnds \/ NextBit \/ NextRepetition => Remaining' = Remaining - 1
         /\ FrameDone => Remaining = 0
         /\ Remaining \in Nat
<1> DEFINE b == bit * BitTicks
           r == repeatc * FrameTicks
<1>1. /\ atime \in Nat /\ bit \in Nat /\ repeatc \in Nat /\ state \in 0 .. 2
  BY Numbers DEF TypeOK
<1>2. b \in Nat /\ r \in Nat /\ PulseTicks \in Nat
  BY <1>1, Ticks, Numbers DEF PulseTicks
<1>3. signal' = signal
  BY DEF Interrupt
<1>4. Remaining = atime + PulseTicks + b + r
  BY DEF Remaining
<1>5. ASSUME CountDown PROVE Remaining' = Remaining - 1
  <2>1. PulseTicks' = PulseTicks /\ atime' = atime - 1 /\ b' = b /\ r' = r
    BY <1>3, <1>5 DEF CountDown, PulseTicks, CURRENT_BIT
  <2>2. Remaining' = atime' + PulseTicks' + b' + r'
    BY DEF Remaining
  <2> HIDE DEF b, r
  <2> QED
    BY <1>1, <1>2, <1>4, <2>1, <2>2
<1>6. ASSUME PulseEnds PROVE Remaining' = Remaining - 1
  <2>1. atime = 0 /\ PulseTicks = 1 + atime' /\ PulseTicks' = 0 /\ b' = b /\ r' = r
    BY <1>6 DEF PulseEnds, PulseTicks
  <2>2. Remaining' = atime' + PulseTicks' + b' + r'
    BY DEF Remaining
  <2>3. atime' \in Nat
    BY <1>6, Numbers DEF PulseEnds
  <2> HIDE DEF b, r
  <2> QED
    BY <1>1, <1>2, <1>4, <2>1, <2>2, <2>3
<1>7. ASSUME NextBit PROVE Remaining' = Remaining - 1
  <2>1. atime = 0 /\ PulseTicks = 0 /\ bit > 0 /\ bit' = bit - 1 /\ state' = 1 /\ r' = r
    BY <1>7 DEF NextBit, PulseTicks
  <2>2. atime' + PulseTicks' = BitTicks - 1
    <3>1. CURRENT_BIT(bit)' = CURRENT_BIT(bit - 1)
      BY <1>3, <2>1 DEF CURRENT_BIT
    <3>2. atime' = IF CURRENT_BIT(bit - 1) = 1 THEN RF_TIME_LONG ELSE RF_TIME_SHORT
      BY <1>7 DEF NextBit
    <3>3. PulseTicks' = 1 + IF CURRENT_BIT(bit - 1) = 1 THEN RF_TIME_SHORT ELSE RF_TIME_LONG
      BY <2>1, <3>1 DEF PulseTicks
    <3> QED
      BY <3>2, <3>3, Numbers DEF BitTicks
  <2>3. b' + BitTicks = b
    BY <1>1, <2>1, Ticks, OneLess
  <2>4. Remaining' = atime' + PulseTicks' + b' + r'
    BY DEF Remaining
  <2>5. atime' \in Nat /\ PulseTicks' \in Nat /\ b' \in Nat
    <3>1. atime' \in Nat
      BY <1>7, Numbers DEF NextBit
    <3>2. PulseTicks' \in Nat
      BY <2>1, Numbers DEF PulseTicks
    <3>3. b' \in Nat
      BY <1>1, <2>1, Ticks
    <3> QED
      BY <3>1, <3>2, <3>3
  <2>6. BitTicks \in Nat
    BY Ticks
  <2> HIDE DEF b, r
  <2>7. Remaining = b' + BitTicks + r
    BY <1>2, <1>4, <2>1, <2>3
  <2>8. Remaining' = BitTicks - 1 + b' + r
    BY <2>1, <2>2, <2>4
  <2>9. \A l, m, n \in Nat : l - 1 + m + n = (m + l + n) - 1
    OBVIOUS
  <2>10. b' \in Nat /\ r \in Nat
    BY <1>2, <2>5
  <2> QED
    BY <2>6, <2>7, <2>8, <2>9, <2>10, Zenon
<1>8. ASSUME NextRepetition PROVE Remaining' = Remaining - 1
  <2>1. /\ atime = 0 /\ PulseTicks = 0 /\ bit = 0 /\ repeatc > 0
        /\ atime' = RF_TIME_SHORT /\ PulseTicks' = 1 + RF_TIME_SNYC
        /\ bit' = RF_SIGNAL_BITS /\ repeatc' = repeatc - 1
    BY <1>8 DEF NextRepetition, PulseTicks
  <2>2. b = 0 /\ b' = RF_SIGNAL_BITS * BitTicks /\ b' \in Nat
    BY <2>1, Ticks, Numbers
  <2>3. r' + FrameTicks = r /\ r' \in Nat
    BY <1>1, <2>1, Ticks, OneLess
  <2>4. Remaining' = atime' + PulseTicks' + b' + r'
    BY DEF Remaining
  <2>5. FrameTicks = RF_TIME_SHORT + RF_TIME_SNYC + 2 + b'
    BY <2>2, Ticks
  <2> HIDE DEF b, r
  <2> QED
    BY <1>2, <1>4, <2>1, <2>2, <2>3, <2>4, <2>5, Numbers
<1>9. ASSUME FrameDone PROVE Remaining = 0
  <2>1. atime = 0 /\ PulseTicks = 0 /\ bit = 0 /\ repeatc = 0
    BY <1>9 DEF FrameDone, PulseTicks
  <2>2. b = 0 /\ r = 0
    BY <2>1, Ticks
  <2> QED
    BY <1>4, <2>1, <2>2
<1>10. Remaining \in Nat
  <2> HIDE DEF b, r
  <2> QED
    BY <1>1, <1>2, <1>4
<1> QED
  BY <1>5, <1>6, <1>7, <1>8, <1>9, <1>10

(* A transmission starts with all its interrupts ahead. *)
LEMMA StartAcks ==
  ASSUME TypeOK, AckInv, ~running, NEW code, Start(code),
         UNCHANGED <<atime, bit, state, to_acknowledge, register, owed>>,
         pc \in {"wait", "raw"}
  PROVE  AckInv'
<1>1. /\ atime' = 0 /\ bit' = 0 /\ state' = 0 /\ repeatc' = NUM_REPEAT_SIGNAL
      /\ lag' = 1 /\ running' = TRUE /\ pc' = "sense"
  BY DEF AckInv, Start
<1>2. PulseTicks' = 0
  BY <1>1 DEF PulseTicks
<1>3. bit' * BitTicks = 0
  BY <1>1, Ticks
<1>4. Remaining' = NUM_REPEAT_SIGNAL * FrameTicks
  BY <1>1, <1>2, <1>3, Ticks DEF Remaining
<1>5. Progress'
  BY <1>1, <1>4, Ticks DEF Progress
<1>6. Owing' = Owing
  BY <1>1 DEF Owing
<1> QED
  BY <1>1, <1>5, <1>6 DEF AckInv

(* The radio at rest, or going on with what it sends. *)
LEMMA AcksKept ==
  ASSUME AckInv, UNCHANGED <<atime, bit, state, repeatc, running, to_acknowledge, register>>,
         running => signal' = signal,
         lag' = lag \/ (lag' = 0 /\ to_acknowledge = 0),
         pc' = "raw" => ~running, pc' = "decrement" => pc = "decrement",
         owed' = to_acknowledge + Owing'
  PROVE  AckInv'
<1>1. Progress'
  BY DEF AckInv, Progress, Remaining, PulseTicks, CURRENT_BIT
<1> QED
  BY <1>1 DEF AckInv

LEMMA AckInvariant == TypeOK /\ AckInv /\ [Next]_vars => AckInv'
<1> SUFFICES ASSUME TypeOK, AckInv, [Next]_vars PROVE AckInv'
  OBVIOUS
<1> USE DEF inputs, serial, radio, frame
<1>0. to_acknowledge \in Int /\ owed \in Int /\ owed = to_acknowledge + Owing
  BY DEF TypeOK, AckInv
<1>1. CASE \E button \in ButtonLevels, ir, ir2 \in MovementLevels : Sense(button, ir, ir2)
  <2>1. /\ pc = "sense" /\ pc' = "acknowledge"
        /\ UNCHANGED <<serial, chars, radio, to_acknowledge, register, lag, owed>>
    BY <1>1, Zenon DEF Sense
  <2>2. Owing' = Owing
    BY <2>1 DEF Owing
  <2> QED
    BY <1>0, <2>1, <2>2, AcksKept
<1>2. CASE ReadCounter
  <2>1. /\ pc = "acknowledge" /\ pc' = "decrement" /\ to_acknowledge > 0
        /\ register' = to_acknowledge
        /\ UNCHANGED <<serial, chars, radio, to_acknowledge, lag, owed>>
    BY <1>2 DEF ReadCounter
  <2>2. Owing' = Owing /\ Progress'
    BY <2>1 DEF Owing, AckInv, Progress, Remaining, PulseTicks, CURRENT_BIT
  <2> QED
    BY <2>1, <2>2 DEF AckInv
<1>3. CASE Acknowledge
  <2>1. /\ pc = "decrement" /\ pc' = "acknowledge" /\ to_acknowledge' = register - 1
        /\ owed' = owed - 1
        /\ UNCHANGED <<serial, chars, radio, lag>>
    BY <1>3 DEF Acknowledge
  <2>2. Owing' = Owing /\ Progress' /\ Owing \in Int
    BY <2>1 DEF Owing, AckInv, Progress, Remaining, PulseTicks, CURRENT_BIT
  <2>3. to_acknowledge' = to_acknowledge - 1 /\ to_acknowledge > 0
    BY <2>1 DEF AckInv
  <2> QED
    BY <1>0, <2>1, <2>2, <2>3 DEF AckInv
<1>4. CASE AllAcknowledged
  <2>1. /\ pc = "acknowledge" /\ pc' = "command" /\ to_acknowledge = 0 /\ lag' = 0
        /\ UNCHANGED <<serial, chars, radio, to_acknowledge, register, owed>>
    BY <1>4 DEF AllAcknowledged
  <2>2. Owing' = Owing
    BY <2>1 DEF Owing
  <2> QED
    BY <1>0, <2>1, <2>2, AcksKept
<1>5. CASE NoCommand \/ ShortCommand
  <2>1. /\ pc = "command" /\ pc' = "sense" /\ owed' = owed
        /\ UNCHANGED <<radio, to_acknowledge, register, lag>>
    BY <1>0, <1>5 DEF NoCommand, ShortCommand, ReadChar
  <2>2. Owing' = Owing
    BY <2>1 DEF Owing
  <2> QED
    BY <1>0, <2>1, <2>2, AcksKept
<1>6. CASE SendCommand
  <2>1. /\ pc = "command" /\ pc' = "wait" /\ owed' = owed + 1
        /\ UNCHANGED <<radio, to_acknowledge, register, lag>>
    BY <1>6 DEF SendCommand, ReadChar
  <2>2. Owing' = Owing + 1 /\ Owing \in Int
    BY <2>1 DEF Owing
  <2>3. owed' = to_acknowledge + Owing'
    BY <1>0, <2>1, <2>2
  <2> QED
    BY <2>1, <2>3, AcksKept
<1>7. CASE SendCode
  BY <1>7, StartAcks DEF SendCode
<1>8. CASE ReadRaw
  <2>1. /\ pc = "wait" /\ pc' = "raw" /\ ~running
        /\ UNCHANGED <<radio, to_acknowledge, register, lag, owed>>
    BY <1>8 DEF ReadRaw
  <2>2. Owing' = Owing
    BY <2>1 DEF Owing
  <2> QED
    BY <1>0, <2>1, <2>2, AcksKept
<1>9. CASE RawByte
  <2>1. pc = "raw" /\ ~running /\ UNCHANGED <<atime, bit, state, to_acknowledge, register, owed>>
    BY <1>9 DEF RawByte, AckInv
  <2>2. CASE chr = RF_SIGNAL_BYTES - 1
    BY <1>9, <2>1, <2>2, StartAcks DEF RawByte
  <2>3. CASE chr # RF_SIGNAL_BYTES - 1
    <3>1. UNCHANGED <<pc, repeatc, running, lag>>
      BY <1>9, <2>3 DEF RawByte
    <3>2. Owing' = Owing
      BY <3>1 DEF Owing
    <3> QED
      BY <1>0, <2>1, <3>1, <3>2, AcksKept
  <2> QED
    BY <2>2, <2>3
<1>10. CASE Interrupt
  <2>1. /\ running /\ lag < MaxLag /\ lag' = (IF lag > 0 THEN lag + 1 ELSE 0)
        /\ UNCHANGED <<pc, register, owed>>
    BY <1>10 DEF Interrupt
  <2>2. lag \in Nat /\ MaxLag \in Nat /\ Remaining \in Nat
    BY <1>10, InterruptProgress, Numbers DEF TypeOK
  <2>3. CASE FrameDone
    <3>1. Remaining = 0
      BY <1>10, <2>3, InterruptProgress
    <3>2. lag = 0
      BY <2>1, <2>2, <3>1, TimingAssumption, Ticks DEF AckInv, Progress
    <3>3. to_acknowledge = 0 /\ pc \notin {"raw", "decrement"}
      BY <1>0, <2>1, <3>2 DEF AckInv
    <3>4. /\ running' = FALSE /\ to_acknowledge' = to_acknowledge + 1
          /\ atime' = 0 /\ bit' = 0 /\ state' = 0
      BY <2>3 DEF FrameDone
    <3>5. Owing = Owing' + 1 /\ Owing' \in Int
      BY <2>1, <3>4 DEF Owing
    <3>6. owed' = to_acknowledge' + Owing'
      BY <1>0, <2>1, <3>4, <3>5
    <3> QED
      BY <2>1, <3>3, <3>4, <3>6 DEF AckInv, Progress
  <2>4. CASE CountDown \/ PulseEnds \/ NextBit \/ NextRepetition
    <3>1. Remaining' = Remaining - 1
      BY <1>10, <2>4, InterruptProgress
    <3>2. UNCHANGED <<running, to_acknowledge>>
      BY <2>4 DEF CountDown, PulseEnds, NextBit, NextRepetition
    <3>3. Owing' = Owing
      BY <2>1, <3>2 DEF Owing
    <3>4. Progress'
      BY <2>1, <2>2, <3>1, <3>2, Ticks DEF AckInv, Progress
    <3> QED
      BY <2>1, <2>2, <3>2, <3>3, <3>4 DEF AckInv
  <2> QED
    BY <1>10, <2>3, <2>4 DEF Interrupt
<1>11. CASE HostSends \/ UNCHANGED vars
  <2>1. UNCHANGED <<pc, radio, to_acknowledge, register, lag, owed>>
    BY <1>11 DEF HostSends, vars
  <2>2. Owing' = Owing /\ (pc' = "raw" => ~running)
    BY <2>1 DEF Owing, AckInv
  <2> QED
    BY <1>0, <2>1, <2>2, AcksKept
<1> QED
  BY <1>1, <1>2, <1>3, <1>4, <1>5, <1>6, <1>7, <1>8, <1>9, <1>10, <1>11
  DEF Next, LoopStep, Busy

LEMMA AcksInvariant == Spec => [](TypeOK /\ AckInv)
<1>1. Init => AckInv
  BY DEF Init, AckInv, Progress, Owing
<1> QED
  BY <1>1, InitialType, TypeInvariant, AckInvariant, PTL DEF Spec

(* No acknowledgement is lost to the interrupt that comes between the read  *)
(* and the write of the counter (check_frame_done, ISR), for all codes,     *)
(* durations and repetitions, as long as loop() catches up before a whole   *)
(* transmission is through (TimingAssumption).                              *)
THEOREM AcksAreKept == Spec => []NoAckLost
<1>1. TypeOK /\ AckInv => NoAckLost
  BY DEF TypeOK, AckInv, NoAckLost, Owing
<1> QED
  BY <1>1, AcksInvariant, PTL

-----------------------------------------------------------------------------
(* The transmission.  What the receiver has counted agrees with what the    *)
(* handler has left to do, and the time since the last edge with the time   *)
(* until the next one.                                                      *)

FrameInv ==
  /\ ~running => ~rf_on
  /\ running =>
       /\ signal = sending
       /\ rep + repeatc = NUM_REPEAT_SIGNAL
       /\ rf_on <=> state # 0
       /\ rep = 0 => state = 0 /\ bit = 0
       /\ position + bit = RF_SIGNAL_BITS
       /\ state = 2 => position = 0
       /\ state = 1 => position > 0
       /\ state # 0 => ticks + atime = On
       /\ state = 0 /\ rep > 0 => ticks + atime = Off

(* The handler and the receiver mean the same bit.                          *)
LEMMA SameBit ==
  ASSUME TypeOK, signal = sending, NEW b \in Nat, NEW p \in Nat, p + b = RF_SIGNAL_BITS
  PROVE  CURRENT_BIT(b) = SentBit(p - 1)
<1>1. RF_SIGNAL_BITS - b - 1 = p - 1
  BY Numbers
<1> QED
  BY <1>1 DEF CURRENT_BIT, SentBit

(* What an interrupt does, and what the receiver may then say of it. *)
Edges ==
  /\ rf_on /\ ~rf_on' => ticks = On
  /\ ~rf_on /\ rf_on' => rep = 0 \/ ticks = Off
  /\ running /\ ~running' =>
       rep = NUM_REPEAT_SIGNAL /\ position = RF_SIGNAL_BITS /\ ticks = Off

LEMMA FrameInterrupt ==
  ASSUME TypeOK, FrameInv, Interrupt
  PROVE  FrameInv' /\ Edges
<1>1. /\ atime \in Nat /\ bit \in Nat /\ repeatc \in Nat /\ state \in 0 .. 2
      /\ rep \in Nat /\ position \in Nat /\ ticks \in Nat /\ rf_on \in BOOLEAN
  BY Numbers DEF TypeOK
<1>2. /\ running /\ Receive /\ UNCHANGED <<signal, sending>>
      /\ signal = sending
      /\ rep + repeatc = NUM_REPEAT_SIGNAL
      /\ rf_on <=> state # 0
      /\ rep = 0 => state = 0 /\ bit = 0
      /\ position + bit = RF_SIGNAL_BITS
      /\ state = 2 => position = 0
      /\ state = 1 => position > 0
      /\ state # 0 => ticks + atime = On
      /\ state = 0 /\ rep > 0 => ticks + atime = Off
  BY DEF FrameInv, Interrupt
<1>3. CASE CountDown
  <2>1. atime > 0 /\ atime' = atime - 1 /\ UNCHANGED <<bit, state, repeatc, rf_on, running>>
    BY <1>3 DEF CountDown
  <2>2. ticks' = ticks + 1 /\ position' = position /\ rep' = rep
    BY <1>2, <2>1 DEF Receive
  <2>3. On' = On /\ Off' = Off
    BY <1>2, <2>2 DEF On, Off, SentBit
  <2>4. ticks' + atime' = ticks + atime
    BY <1>1, <2>1, <2>2
  <2> QED
    BY <1>2, <2>1, <2>2, <2>3, <2>4 DEF FrameInv, Edges
<1>4. CASE PulseEnds
  <2>1. /\ atime = 0 /\ state # 0 /\ rf_on' = FALSE /\ state' = 0
        /\ UNCHANGED <<bit, repeatc, running>>
    BY <1>4 DEF PulseEnds
  <2>2. ticks' = 0 /\ position' = position /\ rep' = rep
    BY <1>1, <1>2, <2>1 DEF Receive
  <2>3. On' = On /\ Off' = Off
    BY <1>2, <2>2 DEF On, Off, SentBit
  <2>4. atime' = Off
    <3>1. CASE state = 2
      BY <1>2, <1>4, <3>1 DEF PulseEnds, Off
    <3>2. CASE state # 2
      <4>1. state = 1 /\ position > 0
        BY <1>1, <1>2, <2>1, <3>2
      <4>2. CURRENT_BIT(bit) = SentBit(position - 1)
        BY <1>1, <1>2, SameBit
      <4>3. atime' = IF CURRENT_BIT(bit) = 1 THEN RF_TIME_SHORT ELSE RF_TIME_LONG
        BY <1>4, <3>2 DEF PulseEnds
      <4>4. position # 0
        BY <1>1, <4>1
      <4> QED
        BY <4>2, <4>3, <4>4 DEF Off
    <3> QED
      BY <3>1, <3>2
  <2>5. ticks' + atime' = Off /\ ticks = On
    <3>1. Off \in Nat
      BY Numbers DEF Off
    <3> QED
      BY <1>1, <1>2, <2>1, <2>2, <2>4, <3>1
  <2> QED
    BY <1>2, <2>1, <2>2, <2>3, <2>5 DEF FrameInv, Edges
<1>5. CASE NextBit
  <2>1. /\ atime = 0 /\ state = 0 /\ bit > 0 /\ bit' = bit - 1 /\ state' = 1 /\ rf_on' = TRUE
        /\ UNCHANGED <<repeatc, running>>
    BY <1>5 DEF NextBit
  <2>2. position # RF_SIGNAL_BITS /\ rep > 0
    BY <1>1, <1>2, <2>1, Numbers
  <2>3. ticks' = 0 /\ position' = position + 1 /\ rep' = rep
    BY <1>1, <1>2, <2>1, <2>2 DEF Receive
  <2>4. position' + bit' = RF_SIGNAL_BITS /\ position' \in Nat /\ position' > 0 /\ bit' \in Nat
    BY <1>1, <1>2, <2>1, <2>3
  <2>5. CURRENT_BIT(bit') = SentBit(position' - 1)
    BY <1>2, <2>4, SameBit
  <2>6. On' = IF SentBit(position' - 1) = 1 THEN RF_TIME_LONG ELSE RF_TIME_SHORT
    BY <1>2, <2>4 DEF On, SentBit
  <2>7. atime' = IF CURRENT_BIT(bit') = 1 THEN RF_TIME_LONG ELSE RF_TIME_SHORT
    BY <1>5, <2>1 DEF NextBit
  <2>8. ticks' + atime' = On'
    <3>1. atime' \in Nat
      BY <2>7, Numbers
    <3> QED
      BY <2>3, <2>5, <2>6, <2>7, <3>1
  <2>9. ticks = Off
    BY <1>1, <1>2, <2>1, <2>2
  <2> QED
    BY <1>2, <2>1, <2>2, <2>3, <2>4, <2>8, <2>9 DEF FrameInv, Edges
<1>6. CASE NextRepetition
  <2>1. /\ atime = 0 /\ state = 0 /\ bit = 0 /\ repeatc > 0 /\ repeatc' = repeatc - 1
        /\ bit' = RF_SIGNAL_BITS /\ state' = 2 /\ rf_on' = TRUE /\ atime' = RF_TIME_SHORT
        /\ running' = running
    BY <1>6 DEF NextRepetition
  <2>2. position = RF_SIGNAL_BITS
    BY <1>1, <1>2, <2>1, Numbers
  <2>3. ticks' = 0 /\ position' = 0 /\ rep' = rep + 1
    BY <1>1, <1>2, <2>1, <2>2 DEF Receive
  <2>4. ticks' + atime' = On'
    BY <2>1, <2>3, Numbers DEF On
  <2>5. rep = 0 \/ ticks = Off
    BY <1>1, <1>2, <2>1
  <2>6. rep' + repeatc' = NUM_REPEAT_SIGNAL /\ rep' # 0 /\ position' + bit' = RF_SIGNAL_BITS
    BY <1>1, <1>2, <2>1, <2>3, Numbers
  <2> QED
    BY <1>2, <2>1, <2>3, <2>4, <2>5, <2>6 DEF FrameInv, Edges
<1>7. CASE FrameDone
  <2>1. /\ atime = 0 /\ state = 0 /\ bit = 0 /\ repeatc = 0 /\ running' = FALSE /\ rf_on' = FALSE
    BY <1>7 DEF FrameDone
  <2>2. rep = NUM_REPEAT_SIGNAL /\ rep > 0 /\ position = RF_SIGNAL_BITS
    BY <1>1, <1>2, <2>1, Numbers
  <2>3. ticks = Off
    BY <1>1, <1>2, <2>1, <2>2
  <2> QED
    BY <1>2, <2>1, <2>2, <2>3 DEF FrameInv, Edges
<1> QED
  BY <1>3, <1>4, <1>5, <1>6, <1>7 DEF Interrupt

(* A transmission starts where the receiver expects a sync pulse. *)
LEMMA FrameStart ==
  ASSUME TypeOK, AckInv, FrameInv, ~running, NEW code, Start(code),
         UNCHANGED <<atime, bit, state, rf_on>>
  PROVE  FrameInv' /\ Edges
<1>1. /\ bit' = 0 /\ state' = 0 /\ repeatc' = NUM_REPEAT_SIGNAL /\ running' = TRUE
      /\ signal' = sending' /\ rep' = 0 /\ position' = RF_SIGNAL_BITS /\ rf_on' = rf_on /\ ~rf_on
  BY DEF AckInv, FrameInv, Start
<1>2. rep' + repeatc' = NUM_REPEAT_SIGNAL /\ position' + bit' = RF_SIGNAL_BITS
  BY <1>1, Numbers
<1> QED
  BY <1>1, <1>2 DEF FrameInv, Edges

LEMMA FrameStep ==
  ASSUME TypeOK, AckInv, FrameInv, [Next]_vars
  PROVE  FrameInv' /\ Edges
<1> USE DEF inputs, serial, radio, frame
<1>1. CASE Interrupt
  BY <1>1, FrameInterrupt
<1>2. CASE SendCode
  BY <1>2, FrameStart DEF SendCode
<1>3. CASE RawByte
  <2>1. ~running /\ UNCHANGED <<atime, bit, state, rf_on>>
    BY <1>3 DEF RawByte, AckInv
  <2>2. CASE chr = RF_SIGNAL_BYTES - 1
    BY <1>3, <2>1, <2>2, FrameStart DEF RawByte
  <2>3. CASE chr # RF_SIGNAL_BYTES - 1
    BY <1>3, <2>1, <2>3 DEF RawByte, FrameInv, Edges
  <2> QED
    BY <2>2, <2>3
<1>4. CASE UNCHANGED radio
  BY <1>4 DEF FrameInv, Edges, On, Off, SentBit
<1> QED
  BY <1>1, <1>2, <1>3, <1>4 DEF Next, LoopStep, Busy, Sense, ReadCounter, Acknowledge,
     AllAcknowledged, NoCommand, SendCommand, ShortCommand, ReadChar, ReadRaw, HostSends, vars

(* The receiver gets the code that was asked for, NUM_REPEAT_SIGNAL times,  *)
(* every pulse and every pause with its length (ISR, send_rf_cmd), for all  *)
(* codes and durations.                                                     *)
THEOREM FramesWhole == Spec => FramesAreSentWhole
<1>1. Init => FrameInv
  BY DEF Init, FrameInv
<1>2. TypeOK /\ AckInv /\ FrameInv /\ [Next]_vars => FrameInv' /\ [Edges]_vars
  BY FrameStep
<1>3. [Edges]_vars => [ /\ rf_on /\ ~rf_on' => ticks = On
                        /\ ~rf_on /\ rf_on' => rep = 0 \/ ticks = Off
                        /\ running /\ ~running' =>
                             rep = NUM_REPEAT_SIGNAL /\ position = RF_SIGNAL_BITS
                               /\ ticks = Off ]_vars
  BY DEF Edges
<1> QED
  BY <1>1, <1>2, <1>3, AcksInvariant, PTL DEF Spec, FramesAreSentWhole

=============================================================================
