--------------------------- MODULE Autosample_proofs ---------------------------
(***************************************************************************)
(* Theorems about the autosample child, for any number of devices, any     *)
(* rates, any sets of signals and a pipe of any size.                      *)
(***************************************************************************)
EXTENDS Autosample, TLAPS

USE DEF Devices, Signals

-----------------------------------------------------------------------------
(* Sequences. *)

LEMMA SeqAppend ==
  ASSUME NEW S, NEW s \in Seq(S), NEW e \in S
  PROVE  /\ Append(s, e) \in Seq(S)
         /\ Append(s, e) # s
         /\ \A f \in S : Append(s, e) = Append(s, f) => e = f
<1>1. Append(s, e) \in Seq(S) /\ Len(Append(s, e)) = Len(s) + 1
  OBVIOUS
<1>2. \A f \in S : Append(s, f)[Len(s) + 1] = f
  OBVIOUS
<1> QED
  BY <1>1, <1>2

LEMMA SeqTail ==
  ASSUME NEW S, NEW s \in Seq(S), s # <<>>
  PROVE  Tail(s) \in Seq(S) /\ <<>> \in Seq(S)
  OBVIOUS

LEMMA FunctionIsSeq ==
  ASSUME NEW S, NEW k \in Nat, NEW f \in [1 .. k -> S]
  PROVE  f \in Seq(S) /\ Len(f) = k
  OBVIOUS

-----------------------------------------------------------------------------
(* Types. *)

LEMMA InitTyped ==
  ASSUME Init
  PROVE  TypeOK
<1>1. next \in 1 .. DeviceNum + 1
  BY DevicesAssumption DEF Init
<1>2. cnt \in [Devices -> Nat] /\ elapsed \in [Devices -> Nat]
  BY DEF Init
<1>3. \A d \in Devices : cnt[d] < Delay[d]
  BY DevicesAssumption DEF Init
<1>4. control \in Seq({0, 1}) /\ data \in Seq(Devices) /\ sig_pipe \in Seq(SUBSET Signals)
  BY DEF Init
<1> QED
  BY <1>1, <1>2, <1>3, <1>4 DEF Init, TypeOK

(* An element of a singleton makes a sequence of one set.                   *)
LEMMA OneSet ==
  ASSUME NEW S, NEW x \in S
  PROVE  <<x>> \in Seq(S) /\ Len(<<x>>) = 1 /\ <<x>>[1] = x
  OBVIOUS

(* The handler leaves at most one set more than there was.                  *)
LEMMA HandlerTyped ==
  ASSUME TypeOK, NEW s \in Signals, Handler(s)
  PROVE  TypeOK'
<1>1. sig_pipe' \in Seq(SUBSET Signals)
  <2>1. CASE sig_pipe = <<>>
    <3>1. {s} \in SUBSET Signals
      OBVIOUS
    <3> QED
      BY <2>1, <3>1, OneSet DEF Handler
  <2>2. CASE sig_pipe # <<>>
    <3>1. Head(sig_pipe) \in SUBSET Signals /\ Tail(sig_pipe) \in Seq(SUBSET Signals)
      BY <2>2 DEF TypeOK
    <3>2. Head(sig_pipe) \cup {s} \in SUBSET Signals
      BY <3>1
    <3>3. sig_pipe' = Append(Tail(sig_pipe), Head(sig_pipe) \cup {s})
      BY <2>2 DEF Handler
    <3> QED
      BY <3>1, <3>2, <3>3
  <2> QED
    BY <2>1, <2>2
<1>2. pending' \in SUBSET Signals /\ caught' \in SUBSET Signals
  BY DEF TypeOK, Handler
<1> QED
  BY <1>1, <1>2 DEF TypeOK, Handler, peer, pipes, timer

LEMMA ReadSetTyped ==
  ASSUME TypeOK, ReadSet
  PROVE  TypeOK'
<1>1. set' \in SUBSET Signals /\ sig_pipe' \in Seq(SUBSET Signals)
  BY DEF TypeOK, ReadSet
<1>2. caught' \in SUBSET Signals
  BY DEF TypeOK, ReadSet
<1> QED
  BY <1>1, <1>2 DEF TypeOK, ReadSet, peer, pipes, timer

LEMMA TickTyped ==
  ASSUME TypeOK, Tick
  PROVE  TypeOK'
<1>1. next \in Devices /\ next' \in 1 .. DeviceNum + 1
  BY DevicesAssumption DEF TypeOK, Tick
<1>2. cnt' \in [Devices -> Nat] /\ \A d \in Devices : cnt'[d] < Delay[d]
  <2>1. cnt \in [Devices -> Nat] /\ \A d \in Devices : cnt[d] < Delay[d]
    BY DEF TypeOK
  <2>2. Delay[next] \in Nat \ {0} /\ cnt[next] \in Nat /\ cnt[next] < Delay[next]
    BY <1>1, <2>1, DevicesAssumption
  <2>3. Counted(next) \in Nat /\ Counted(next) < Delay[next]
    BY <2>2 DEF Counted
  <2>4. cnt' = [cnt EXCEPT ![next] = Counted(next)]
    BY DEF Tick
  <2> QED
    BY <1>1, <2>1, <2>3, <2>4
<1>3. data' \in Seq(Devices)
  <2>1. data \in Seq(Devices)
    BY DEF TypeOK
  <2>2. data' = data \/ data' = Append(data, next)
    BY DEF Tick
  <2>3. Append(data, next) \in Seq(Devices)
    BY <1>1, <2>1, SeqAppend
  <2> QED
    BY <2>1, <2>2, <2>3
<1>4. elapsed' \in [Devices -> Nat]
  <2>1. elapsed \in [Devices -> Nat]
    BY DEF TypeOK
  <2>2. elapsed' = elapsed \/ elapsed' = [elapsed EXCEPT ![next] = 0]
    BY DEF Tick
  <2> QED
    BY <1>1, <2>1, <2>2
<1> QED
  BY <1>1, <1>2, <1>3, <1>4 DEF TypeOK, Tick, peer, sig

LEMMA TimeoutTyped ==
  ASSUME TypeOK, SelectTimeout
  PROVE  TypeOK'
<1>1. elapsed' \in [Devices -> Nat] /\ next' \in 1 .. DeviceNum + 1
  BY DevicesAssumption DEF TypeOK, SelectTimeout
<1> QED
  BY <1>1 DEF TypeOK, SelectTimeout, peer, pipes, sig

LEMMA ReadOrderTyped ==
  ASSUME TypeOK, ReadOrder
  PROVE  TypeOK'
<1>1. sample_enabled' \in {0, 1} /\ control' \in Seq({0, 1})
  BY DEF TypeOK, ReadOrder
<1> QED
  BY <1>1 DEF TypeOK, ReadOrder, peer, sig, timer, Turn

LEMMA OrderTyped ==
  ASSUME TypeOK, Order
  PROVE  TypeOK'
<1>1. told' \in {0, 1} /\ orders' \in Nat
  BY DEF TypeOK, Order
<1>2. control' \in Seq({0, 1})
  <2>1. 1 - told \in {0, 1} /\ control \in Seq({0, 1})
    BY DEF TypeOK
  <2>2. control' = control \/ control' = Append(control, 1 - told)
    BY DEF Order
  <2> QED
    BY <2>1, <2>2
<1>3. UNCHANGED <<pc, ready, next, cnt, elapsed, sample_enabled, data, sig_pipe, blocked, pending,
                  set, caught, signals, daemon>>
  BY DEF Order, sig, timer
<1> QED
  BY <1>1, <1>2, <1>3 DEF TypeOK

LEMMA TakeTyped ==
  ASSUME TypeOK, Take
  PROVE  TypeOK'
<1>1. data' \in Seq(Devices)
  <2>1. data \in Seq(Devices) /\ data # <<>>
    BY DEF TypeOK, Take
  <2>2. data' = Tail(data) \/ data' = <<>>
    BY DEF Take
  <2> QED
    BY <2>1, <2>2, SeqTail
<1>2. UNCHANGED <<pc, ready, next, cnt, elapsed, sample_enabled, control, sig_pipe, blocked,
                  pending, set, caught, signals, daemon, told, orders>>
  BY DEF Take, peer, sig, timer
<1> QED
  BY <1>1, <1>2 DEF TypeOK

LEMMA StepTyped ==
  ASSUME TypeOK, [Next]_vars
  PROVE  TypeOK'
<1>1. CASE Start \/ TickDone \/ Block \/ Restore \/ Killed
  BY <1>1 DEF TypeOK, Start, TickDone, Block, Restore, Killed, Turn, peer, pipes, timer, sig
<1>7. CASE Stop
  <2>1. sig_pipe' \in Seq(SUBSET Signals)
    BY <1>7 DEF Stop
  <2> QED
    BY <1>7, <2>1 DEF TypeOK, Stop, peer, pipes, timer
<1>2. CASE Select
  BY <1>2 DEF TypeOK, Select, Readable, Turn, peer, pipes, timer, sig
<1>3. CASE DaemonEnds
  <2>1. pending' \in SUBSET Signals
    BY <1>3, SignalsAssumption DEF TypeOK, DaemonEnds
  <2> QED
    BY <1>3, <2>1 DEF TypeOK, DaemonEnds, pipes, timer
<1>4. CASE DaemonGone
  BY <1>4 DEF TypeOK, DaemonGone, pipes, timer, sig
<1>5. ASSUME NEW s \in Signals, Raise(s)
      PROVE  TypeOK'
  <2>1. pending' \in SUBSET Signals /\ signals' \in Nat
    BY <1>5 DEF TypeOK, Raise
  <2> QED
    BY <1>5, <2>1 DEF TypeOK, Raise, pipes, timer, peer
<1>6. CASE UNCHANGED vars
  BY <1>6 DEF TypeOK, vars, pipes, timer, sig, peer
<1> QED
  BY <1>1, <1>2, <1>3, <1>4, <1>5, <1>6, <1>7, HandlerTyped, ReadSetTyped, TickTyped, TimeoutTyped,
     ReadOrderTyped, OrderTyped, TakeTyped
  DEF Next, ChildStep, Delivery, Outside, Spin, Ended

(* Every variable of the child keeps its type, and no counter reaches the   *)
(* rate of its device (autosample.c:177-189).                               *)
THEOREM TypeCorrect == Spec => []TypeOK
<1> QED
  BY InitTyped, StepTyped, PTL DEF Spec

-----------------------------------------------------------------------------
(* Signals. *)

LEMMA StepLosesNoSignal ==
  ASSUME TypeOK, NoSignalLost, [Next]_vars
  PROVE  NoSignalLost'
<1>1. ASSUME NEW s \in Signals, Handler(s)
      PROVE  NoSignalLost'
  <2>1. pc # "ended" /\ caught' = caught \cup {s} /\ caught' # {}
    BY <1>1 DEF Handler
  <2>2. CASE sig_pipe = <<>>
    <3>1. caught = {}
      BY <2>1, <2>2 DEF NoSignalLost
    <3> QED
      BY <1>1, <2>1, <2>2, <3>1 DEF NoSignalLost, Handler
  <2>3. CASE sig_pipe # <<>>
    <3>1. sig_pipe = <<caught>>
      BY <2>1, <2>3 DEF NoSignalLost
    <3>2. Head(sig_pipe) = caught /\ Tail(sig_pipe) = <<>>
      BY <3>1
    <3>3. sig_pipe' = Append(<<>>, caught \cup {s})
      BY <1>1, <2>3, <3>2 DEF Handler
    <3>4. Append(<<>>, caught \cup {s}) = <<caught \cup {s}>>
      OBVIOUS
    <3> QED
      BY <2>1, <3>3, <3>4 DEF NoSignalLost
  <2> QED
    BY <2>2, <2>3
<1>2. CASE ReadSet
  <2>1. pc # "ended" /\ caught' = caught \ set'
    BY <1>2 DEF ReadSet
  <2>2. CASE sig_pipe = <<>>
    <3>1. caught = {} /\ sig_pipe' = <<>>
      BY <1>2, <2>1, <2>2 DEF NoSignalLost, ReadSet
    <3>2. caught' = {}
      BY <2>1, <3>1
    <3> QED
      BY <3>1, <3>2 DEF NoSignalLost
  <2>3. CASE sig_pipe # <<>>
    <3>1. sig_pipe = <<caught>>
      BY <2>1, <2>3 DEF NoSignalLost
    <3>2. Head(sig_pipe) = caught /\ Tail(sig_pipe) = <<>>
      BY <3>1
    <3>3. set' = caught /\ sig_pipe' = <<>>
      BY <1>2, <2>3, <3>2 DEF ReadSet
    <3>4. caught' = {}
      BY <2>1, <3>3
    <3> QED
      BY <3>3, <3>4 DEF NoSignalLost
  <2> QED
    BY <2>2, <2>3
<1>3. CASE Stop \/ Killed
  BY <1>3 DEF Stop, Killed, NoSignalLost
<1>4. CASE Start \/ Select \/ SelectTimeout \/ Tick \/ TickDone \/ ReadOrder \/ Block \/ Restore
  BY <1>4 DEF Start, Select, SelectTimeout, Tick, TickDone, ReadOrder, Block, Restore, sig,
              NoSignalLost
<1>5. CASE Order \/ Take \/ DaemonEnds \/ DaemonGone \/ \E s \in Signals : Raise(s)
  BY <1>5 DEF Order, Take, DaemonEnds, DaemonGone, Raise, sig, NoSignalLost
<1>6. CASE UNCHANGED vars
  BY <1>6 DEF vars, sig, NoSignalLost
<1> QED
  BY <1>1, <1>2, <1>3, <1>4, <1>5, <1>6 DEF Next, ChildStep, Delivery, Outside, Spin, Ended

(* Wherever a signal interrupts the child, or its handler another one, the  *)
(* signals caught and not yet looked at are the one set in the pipe, or the *)
(* pipe is empty (sig_handler.c:53-62, 121-144).                            *)
THEOREM NoneLost == Spec => []NoSignalLost
<1>1. Init => NoSignalLost
  BY DEF Init, NoSignalLost
<1> QED
  BY <1>1, StepLosesNoSignal, TypeCorrect, PTL DEF Spec

-----------------------------------------------------------------------------
(* Rates. *)

(* The code's counter never runs ahead of the seconds there were; while the *)
(* devices are looked at, those from next on have not counted the last one. *)
CountsSeconds ==
  \A d \in Devices :
    elapsed[d] >= cnt[d] + (IF pc = "tick" /\ next <= d THEN 1 ELSE 0)

LEMMA StepCounts ==
  ASSUME TypeOK, CountsSeconds, [Next]_vars
  PROVE  CountsSeconds'
<1>1. CASE SelectTimeout
  <2> SUFFICES ASSUME NEW d \in Devices
               PROVE  elapsed'[d] >= cnt'[d] + 1
    BY <1>1 DEF CountsSeconds, SelectTimeout, TypeOK
  <2>1. elapsed[d] \in Nat /\ cnt[d] \in Nat /\ Delay[d] \in Nat /\ cnt[d] < Delay[d]
    BY DevicesAssumption DEF TypeOK
  <2>2. elapsed[d] >= cnt[d]
    BY <1>1, <2>1 DEF CountsSeconds, SelectTimeout
  <2>3. elapsed'[d] = (IF elapsed[d] < Delay[d] THEN elapsed[d] + 1 ELSE elapsed[d])
    BY <1>1 DEF SelectTimeout
  <2> QED
    BY <1>1, <2>1, <2>2, <2>3 DEF SelectTimeout
<1>2. CASE Tick
  <2>1. next \in Devices
    BY <1>2, DevicesAssumption DEF TypeOK, Tick
  <2> SUFFICES ASSUME NEW d \in Devices
               PROVE  elapsed'[d] >= cnt'[d] + (IF next + 1 <= d THEN 1 ELSE 0)
    BY <1>2 DEF CountsSeconds, Tick
  <2>2. elapsed[d] \in Nat /\ cnt[d] \in Nat
    BY DEF TypeOK
  <2>3. elapsed[d] >= cnt[d] + (IF next <= d THEN 1 ELSE 0)
    BY <1>2 DEF CountsSeconds, Tick
  <2>4. CASE d # next
    <3>1. elapsed'[d] = elapsed[d] /\ cnt'[d] = cnt[d]
      BY <1>2, <2>4 DEF Tick, TypeOK
    <3> QED
      BY <2>1, <2>2, <2>3, <2>4, <3>1, DevicesAssumption
  <2>5. CASE d = next
    <3>1. cnt'[d] = Counted(d)
      BY <1>2, <2>5 DEF Tick, TypeOK
    <3>2. elapsed'[d] = elapsed[d] \/ (Wanted /\ elapsed'[d] = 0)
      BY <1>2, <2>5 DEF Tick, TypeOK
    <3>3. Counted(d) \in Nat /\ Counted(d) <= cnt[d] + 1 /\ (Wanted => Counted(d) = 0)
      BY <2>2, <2>5 DEF Counted, Wanted
    <3> QED
      BY <2>1, <2>2, <2>3, <2>5, <3>1, <3>2, <3>3, DevicesAssumption
  <2> QED
    BY <2>4, <2>5
<1>3. CASE TickDone
  BY <1>3, DevicesAssumption DEF TickDone, CountsSeconds, TypeOK, timer, Turn
<1>4. CASE Start \/ Select \/ ReadOrder \/ Block \/ ReadSet \/ Restore \/ Stop \/ Killed
  BY <1>4 DEF Start, Select, ReadOrder, Block, ReadSet, Restore, Stop, Killed, CountsSeconds,
              TypeOK, timer, Turn
<1>5. CASE \E s \in Signals : Handler(s) \/ Raise(s)
  BY <1>5 DEF Handler, Raise, CountsSeconds, timer
<1>6. CASE Order \/ Take \/ DaemonEnds \/ DaemonGone
  BY <1>6 DEF Order, Take, DaemonEnds, DaemonGone, CountsSeconds, timer
<1>7. CASE UNCHANGED vars
  BY <1>7 DEF vars, timer, CountsSeconds
<1> QED
  BY <1>1, <1>2, <1>3, <1>4, <1>5, <1>6, <1>7
  DEF Next, ChildStep, Delivery, Outside, Spin, Ended

(* Only Tick appends to the pipe.                                           *)
LEMMA OnlyTickAppends ==
  ASSUME TypeOK, [Next]_vars, NEW d \in Devices, data' = Append(data, d)
  PROVE  Tick
<1>1. data' # data /\ data' # <<>> /\ (data # <<>> => data' # Tail(data))
  <2>1. data \in Seq(Devices)
    BY DEF TypeOK
  <2>2. Len(data') = Len(data) + 1
    BY <2>1
  <2> QED
    BY <2>1, <2>2
<1>2. ~Take
  BY <1>1 DEF Take
<1> QED
  BY <1>1, <1>2 DEF Next, ChildStep, Delivery, Outside, Spin, Ended, Start, Select, SelectTimeout,
     TickDone, ReadOrder, Block, ReadSet, Restore, Stop, Killed, Handler, Raise, Order, DaemonEnds,
     DaemonGone, vars, pipes

(* Whatever wakes the child up, it asks for a device again only after as    *)
(* many quiet seconds as its rate says (autosample.c:177-189).              *)
THEOREM SamplesAreSpaced == Spec => SpacedSamples
<1>1. Init => CountsSeconds
  BY DEF Init, CountsSeconds
<1>2. ASSUME TypeOK, CountsSeconds, [Next]_vars, NEW d \in Devices, data' = Append(data, d)
      PROVE  elapsed[d] >= Delay[d]
  <2>1. Tick
    BY <1>2, OnlyTickAppends
  <2>2. next \in Devices
    BY <1>2, <2>1, DevicesAssumption DEF TypeOK, Tick
  <2>3. data \in Seq(Devices)
    BY <1>2 DEF TypeOK
  <2>4. data' # data
    BY <1>2, <2>3
  <2>5. Wanted /\ data' = Append(data, next)
    BY <2>1, <2>4 DEF Tick
  <2>6. d = next
    BY <1>2, <2>2, <2>3, <2>5, SeqAppend
  <2>7. elapsed[d] \in Nat /\ cnt[d] \in Nat /\ Delay[d] \in Nat
    BY <1>2, DevicesAssumption DEF TypeOK
  <2> QED
    BY <1>2, <2>1, <2>5, <2>6, <2>7 DEF CountsSeconds, Wanted, Tick
<1>3. TypeOK /\ CountsSeconds /\ [Next]_vars =>
        [\A d \in Devices : data' = Append(data, d) => elapsed[d] >= Delay[d]]_vars
  BY <1>2
<1> QED
  BY <1>1, <1>3, StepCounts, TypeCorrect, PTL DEF Spec, SpacedSamples

-----------------------------------------------------------------------------
(* The child is a SampleSource. *)

Bits(s) == [n \in DOMAIN s |-> s[n] = 1]

LEMMA BitsAreASequence ==
  ASSUME NEW s \in Seq({0, 1})
  PROVE  Bits(s) \in Seq(BOOLEAN) /\ Len(Bits(s)) = Len(s)
<1>1. Len(s) \in Nat /\ DOMAIN s = 1 .. Len(s)
  OBVIOUS
<1>2. Bits(s) \in [1 .. Len(s) -> BOOLEAN]
  BY <1>1, Zenon DEF Bits
<1> QED
  BY <1>1, <1>2, FunctionIsSeq

LEMMA BitsOfTail ==
  ASSUME NEW s \in Seq({0, 1}), s # <<>>
  PROVE  /\ Bits(s) # <<>>
         /\ Head(Bits(s)) = (Head(s) = 1)
         /\ Tail(Bits(s)) = Bits(Tail(s))
<1>1. Bits(s) \in Seq(BOOLEAN) /\ Len(Bits(s)) = Len(s) /\ Len(s) > 0
  BY BitsAreASequence
<1>2. Head(Bits(s)) = (Head(s) = 1)
  BY <1>1 DEF Bits
<1>3. Tail(Bits(s)) \in Seq(BOOLEAN) /\ Bits(Tail(s)) \in Seq(BOOLEAN)
  BY <1>1 DEF Bits
<1>4. Len(Tail(Bits(s))) = Len(Bits(Tail(s)))
  BY <1>1 DEF Bits
<1>5. \A n \in 1 .. Len(s) - 1 : Tail(Bits(s))[n] = Bits(Tail(s))[n]
  BY <1>1 DEF Bits
<1> QED
  BY <1>1, <1>2, <1>3, <1>4, <1>5

LEMMA BitsOfAppend ==
  ASSUME NEW s \in Seq({0, 1}), NEW b \in {0, 1}
  PROVE  Bits(Append(s, b)) = Append(Bits(s), b = 1)
<1>1. Bits(s) \in Seq(BOOLEAN) /\ Len(Bits(s)) = Len(s)
  BY BitsAreASequence
<1>2. Append(s, b) \in Seq({0, 1}) /\ Len(Append(s, b)) = Len(s) + 1
  OBVIOUS
<1>3. Bits(Append(s, b)) \in Seq(BOOLEAN) /\ Len(Bits(Append(s, b))) = Len(s) + 1
  BY <1>2 DEF Bits
<1>4. \A n \in 1 .. Len(s) + 1 : Bits(Append(s, b))[n] = Append(Bits(s), b = 1)[n]
  BY <1>1, <1>2 DEF Bits
<1> QED
  BY <1>1, <1>3, <1>4

SourceVars == <<pc # "ended", sample_enabled = 1, Bits(control), data>>

LEMMA StepRefines ==
  ASSUME TypeOK, [Next]_vars
  PROVE  Source!Next \/ UNCHANGED SourceVars
<1>1. CASE ReadOrder
  <2>1. control \in Seq({0, 1})
    BY DEF TypeOK
  <2>2. /\ Bits(control) # <<>>
        /\ Head(Bits(control)) = (Head(control) = 1)
        /\ Tail(Bits(control)) = Bits(Tail(control))
    BY <1>1, <2>1, BitsOfTail DEF ReadOrder
  <2>3. (sample_enabled = 1)' = Head(Bits(control)) /\ Bits(control)' = Tail(Bits(control))
    BY <1>1, <2>2 DEF ReadOrder, Bits
  <2>4. pc # "ended" /\ pc' # "ended" /\ data' = data
    BY <1>1 DEF ReadOrder, Turn
  <2>5. Source!Obey
    BY <2>2, <2>3, <2>4 DEF Source!Obey, Bits
  <2> QED
    BY <2>5 DEF Source!Next
<1>2. CASE Order
  <2>1. control \in Seq({0, 1}) /\ 1 - told \in {0, 1}
    BY DEF TypeOK
  <2>2. UNCHANGED <<pc, sample_enabled, data>>
    BY <1>2 DEF Order
  <2>3. CASE control' = control
    BY <2>2, <2>3 DEF SourceVars, Bits
  <2>4. CASE control' = Append(control, 1 - told)
    <3>1. Bits(control)' = Append(Bits(control), 1 - told = 1)
      BY <2>1, <2>4, BitsOfAppend DEF Bits
    <3>2. PICK on \in BOOLEAN : on = (1 - told = 1)
      OBVIOUS
    <3>3. Bits(control)' = Append(Bits(control), on)
      BY <3>1, <3>2
    <3>4. Source!Order(on)
      BY <2>2, <3>3 DEF Source!Order, Bits
    <3> QED
      BY <3>4, Zenon DEF Source!Next
  <2> QED
    BY <1>2, <2>3, <2>4 DEF Order
<1>3. CASE Tick
  <2>1. next \in Devices
    BY <1>3, DevicesAssumption DEF TypeOK, Tick
  <2>2. UNCHANGED <<pc, sample_enabled, control>> /\ pc # "ended"
    BY <1>3 DEF Tick
  <2>3. CASE data' = data
    BY <2>2, <2>3 DEF SourceVars, Bits
  <2>4. CASE sample_enabled = 1 /\ data' = Append(data, next)
    <3>1. Source!Sample(next)
      BY <2>2, <2>4 DEF Source!Sample
    <3> QED
      BY <2>1, <3>1 DEF Source!Next
  <2> QED
    BY <1>3, <2>3, <2>4 DEF Tick, Wanted
<1>4. CASE Take
  <2>1. Source!Take
    BY <1>4 DEF Take, Source!Take, sig
  <2> QED
    BY <2>1 DEF Source!Next
<1>5. CASE Start \/ Stop \/ Killed
  <2>1. pc # "ended" /\ UNCHANGED <<sample_enabled, control, data>>
    BY <1>5 DEF Start, Stop, Killed, pipes
  <2>2. CASE pc' = "ended"
    <3>1. Source!Die
      BY <2>1, <2>2 DEF Source!Die
    <3> QED
      BY <3>1 DEF Source!Next
  <2>3. CASE pc' # "ended"
    BY <2>1, <2>3 DEF SourceVars, Bits
  <2> QED
    BY <2>2, <2>3
<1>6. CASE Select \/ SelectTimeout \/ TickDone \/ Block \/ ReadSet \/ Restore
  <2>1. pc # "ended" /\ pc' # "ended"
    BY <1>6 DEF Select, SelectTimeout, TickDone, Block, ReadSet, Restore, Turn
  <2>2. UNCHANGED <<sample_enabled, control, data>>
    BY <1>6 DEF Select, SelectTimeout, TickDone, Block, ReadSet, Restore, pipes
  <2> QED
    BY <2>1, <2>2 DEF SourceVars, Bits
<1>7. CASE DaemonEnds \/ DaemonGone \/ (\E s \in Signals : Handler(s) \/ Raise(s)) \/ UNCHANGED vars
  <2>1. UNCHANGED <<pc, sample_enabled, control, data>>
    BY <1>7 DEF DaemonEnds, DaemonGone, Handler, Raise, pipes, vars
  <2> QED
    BY <2>1 DEF SourceVars, Bits
<1> QED
  BY <1>1, <1>2, <1>3, <1>4, <1>5, <1>6, <1>7
  DEF Next, ChildStep, Delivery, Outside, Spin, Ended

(* With all its timers, pipes and signals the child is what the daemon      *)
(* takes it for: it obeys orders one by one, never asks for a sample while  *)
(* it is switched off, and is silent once it has died.                      *)
THEOREM Refinement == Spec => ImplementsSource
<1>1. Init => Source!Init
  BY DEF Init, Source!Init
<1>2. TypeOK /\ [Next]_vars =>
        [Source!Next]_<<pc # "ended", sample_enabled = 1,
                        [n \in DOMAIN control |-> control[n] = 1], data>>
  BY StepRefines DEF SourceVars, Bits
<1> QED
  BY <1>1, <1>2, TypeCorrect, PTL DEF Spec, ImplementsSource, Source!Spec

=============================================================================
