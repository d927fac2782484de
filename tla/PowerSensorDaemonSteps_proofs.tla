--------------------- MODULE PowerSensorDaemonSteps_proofs ---------------------
(***************************************************************************)
(* More proofs about the main loop of powersensordaemon: what single steps *)
(* never do (to listeners and to commands), and the child's orders.        *)
(***************************************************************************)
EXTENDS PowerSensorDaemon_proofs, FiniteSetTheorems

-----------------------------------------------------------------------------
(* A tty that has hung up says nothing, and between two loops there is      *)
(* neither a command nor a client nor a tty.                                *)
TtyInv ==
  /\ ~ttyUp => tty = <<>> /\ wire = <<>>
  /\ pc = "reopen" => ~ttyUp /\ cmd_q = <<>> /\ clients = <<>>

LEMMA TtyStep ==
  ASSUME TypeOK, TtyInv, [Next]_vars
  PROVE  TtyInv'
<1> USE DEF daemon, sockets, serial, child, bounds, history
<1>1. CASE Select \/ SelectTimeout \/ Control \/ Accept \/ ClientClosed \/ ClientReset
             \/ AutosampleVanished
  BY <1>1 DEF Select, SelectTimeout, Control, Accept, ClientClosed, ClientReset,
              AutosampleVanished, Turn, ClientsTurn, TtyInv
<1>2. CASE HandleSignal \/ AcceptFails \/ LoopEnds
  BY <1>2 DEF HandleSignal, AcceptFails, LoopEnds, LeaveLoop, TtyInv
<1>3. CASE TtyVanished
  BY <1>3 DEF TtyVanished, LeaveLoop, TtyInv
<1>4. CASE ProcessTtyLine
  BY <1>4 DEF ProcessTtyLine, Turn, TtyInv
<1>5. CASE AutosampleLine \/ ClientLine
  BY <1>5 DEF AutosampleLine, ClientLine, Turn, ClientsTurn, TtyInv
<1>6. CASE Send
  <2>1. UNCHANGED <<tty, ttyUp>> /\ pc' # "reopen"
    BY <1>6 DEF Send
  <2>2. ~ttyUp => wire' = wire
    BY <1>6 DEF Send, SendHead
  <2> QED
    BY <2>1, <2>2 DEF TtyInv
<1>7. CASE Reopen
  BY <1>7 DEF Reopen, TtyInv
<1>8. CASE ClientStep
  BY <1>8 DEF ClientStep, Connect, WriteLine, ReadLines, Close, TtyInv
<1>9. CASE FirmwareAnswers
  <2>1. wire # <<>> /\ pc # "reopen" /\ UNCHANGED <<pc, ttyUp, cmd_q, clients>>
    BY <1>9 DEF FirmwareAnswers, InLoop
  <2> QED
    BY <2>1 DEF TtyInv
<1>10. CASE FirmwareSpeaks
  BY <1>10 DEF FirmwareSpeaks, TtyInv
<1>11. CASE Hangup
  BY <1>11 DEF Hangup, InLoop, TtyInv
<1>12. CASE ChildStep
  BY <1>12 DEF ChildStep, ChildObeys, ChildSamples, ChildDies, TtyInv
<1>13. CASE Age \/ Signal
  BY <1>13 DEF Age, Signal, InLoop, TtyInv
<1>14. CASE UNCHANGED vars
  BY <1>14 DEF vars, TtyInv
<1> QED
  BY <1>1, <1>2, <1>3, <1>4, <1>5, <1>6, <1>7, <1>8, <1>9, <1>10, <1>11, <1>12, <1>13, <1>14
  DEF Next, LoopStep, FirmwareStep, Idle, Terminated

LEMMA TtyInvariant == Spec => []TtyInv
<1>1. Init => TtyInv
  BY DEF Init, TtyInv
<1>2. TypeOK /\ TtyInv /\ [Next]_vars => TtyInv'
  BY TtyStep
<1> QED
  BY <1>1, <1>2, TypeCorrect, PTL DEF Spec

-----------------------------------------------------------------------------
(* The child. *)

(* autosample_enabled is the last order the child was given, unless that    *)
(* was given over an earlier tty; and between iterations it says whether    *)
(* anybody listens.                                                         *)
OrderInv ==
  HasAutosample /\ alive =>
    /\ LastOrder <=> autosample_enabled \/ inherited
    /\ pc = "select" => (autosample_enabled <=> SensorListeners # {})

LEMMA LastOfAppend ==
  ASSUME NEW S, NEW s \in Seq(S), NEW e \in S
  PROVE  Append(s, e) # <<>> /\ Append(s, e)[Len(Append(s, e))] = e
  BY AppendProperties

(* The last order stays the last one while the child reads those before it. *)
LEMMA LastOfTail ==
  ASSUME NEW S, NEW s \in Seq(S), s # <<>>
  PROVE  /\ Tail(s) = <<>> => Head(s) = s[Len(s)]
         /\ Tail(s) # <<>> => Tail(s)[Len(Tail(s))] = s[Len(s)]
<1>1. /\ Tail(s) \in Seq(S) /\ Len(s) \in Nat \ {0} /\ Len(Tail(s)) = Len(s) - 1
      /\ \A i \in 1 .. Len(Tail(s)) : Tail(s)[i] = s[i + 1]
      /\ Head(s) = s[1]
  BY HeadTailProperties, LenProperties, EmptySeq
<1>2. CASE Tail(s) = <<>>
  <2>1. Len(Tail(s)) = 0
    BY <1>1, <1>2, EmptySeq
  <2>2. Len(s) = 1
    <3>1. Len(s) \in Nat /\ Len(Tail(s)) = Len(s) - 1
      BY <1>1
    <3> QED
      BY <2>1, <3>1
  <2>3. Head(s) = s[Len(s)]
    BY <1>1, <2>2
  <2> QED
    BY <1>2, <2>3
<1>3. CASE Tail(s) # <<>>
  <2>1. Len(Tail(s)) \in 1 .. Len(Tail(s))
    BY <1>1, <1>3, LenProperties, EmptySeq
  <2> QED
    BY <1>1, <1>3, <2>1
<1> QED
  BY <1>2, <1>3

LEMMA OrderKept ==
  ASSUME OrderInv, UNCHANGED <<alive, inherited, sampling, ctl, autosample_enabled>>,
         pc' = "select" => pc = "select" /\ SensorListeners' = SensorListeners
  PROVE  OrderInv'
  BY DEF OrderInv, LastOrder

LEMMA OrderStep ==
  ASSUME TypeOK, TtyInv, OrderInv, [Next]_vars
  PROVE  OrderInv'
<1> USE DEF daemon, sockets, serial, child, bounds, history
<1>1. CASE Control
  <2>1. pc' = "select" /\ UNCHANGED <<clients, alive, sampling>>
    BY <1>1 DEF Control
  <2>2. autosample_enabled' = (SensorListeners # {}) /\ autosample_enabled' \in BOOLEAN
    BY <1>1 DEF Control
  <2>3. SensorListeners' = SensorListeners
    BY <2>1 DEF SensorListeners
  <2>0. inherited' = (inherited /\ autosample_enabled' = autosample_enabled)
          /\ autosample_enabled \in BOOLEAN /\ inherited \in BOOLEAN
    BY <1>1 DEF Control, TypeOK
  <2>4. CASE alive /\ autosample_enabled' # autosample_enabled
    <3>1. ctl' = Append(ctl, autosample_enabled') /\ ctl \in Seq(BOOLEAN)
      BY <1>1, <2>4 DEF Control, TypeOK
    <3>2. ctl' # <<>> /\ ctl'[Len(ctl')] = autosample_enabled'
      BY <2>2, <3>1, LastOfAppend
    <3>3. LastOrder' = autosample_enabled'
      BY <3>2 DEF LastOrder
    <3>4. ~inherited'
      BY <2>0, <2>4
    <3>5. autosample_enabled' <=> SensorListeners' # {}
      BY <2>2, <2>3, Zenon
    <3> QED
      BY <3>3, <3>4, <3>5, Zenon DEF OrderInv
  <2>5. CASE alive /\ autosample_enabled' = autosample_enabled
    <3>1. ctl' = ctl
      BY <1>1, <2>5 DEF Control
    <3>2. LastOrder' = LastOrder /\ autosample_enabled' = autosample_enabled
      BY <2>1, <2>5, <3>1 DEF LastOrder
    <3>5. inherited' <=> inherited
      BY <2>0, <2>5
    <3>3. HasAutosample /\ alive' => (LastOrder' <=> autosample_enabled' \/ inherited')
      BY <2>1, <3>2, <3>5, Zenon DEF OrderInv
    <3>4. autosample_enabled' <=> SensorListeners' # {}
      BY <2>2, <2>3, Zenon
    <3> QED
      BY <3>3, <3>4, Zenon DEF OrderInv
  <2>6. CASE ~alive
    BY <2>1, <2>6 DEF OrderInv
  <2> QED
    BY <2>4, <2>5, <2>6
<1>2. CASE ChildObeys
  <2>1. ctl \in Seq(BOOLEAN) /\ ctl # <<>> /\ sampling' = Head(ctl) /\ ctl' = Tail(ctl)
    BY <1>2 DEF ChildObeys, TypeOK
  <2>2. LastOrder' = LastOrder
    BY <2>1, LastOfTail DEF LastOrder
  <2>3. UNCHANGED <<pc, clients, alive, inherited, autosample_enabled>>
    BY <1>2 DEF ChildObeys
  <2>4. SensorListeners' = SensorListeners
    BY <2>3 DEF SensorListeners
  <2> QED
    BY <2>2, <2>3, <2>4 DEF OrderInv
<1>3. CASE ChildDies \/ AutosampleVanished
  BY <1>3 DEF ChildDies, AutosampleVanished, OrderInv
<1>4. CASE Reopen
  <2>1. /\ UNCHANGED <<clients, alive, sampling, ctl>> /\ clients = <<>>
        /\ autosample_enabled' = FALSE /\ inherited' = (alive /\ LastOrder)
    BY <1>4 DEF Reopen, TtyInv
  <2>2. LastOrder' = LastOrder
    BY <2>1 DEF LastOrder
  <2>3. SensorListeners' = {}
    BY <2>1 DEF SensorListeners
  <2>4. ~autosample_enabled'
    BY <2>1
  <2>5. alive => (inherited' <=> LastOrder)
    BY <2>1
  <2> QED
    BY <2>1, <2>2, <2>3, <2>4, <2>5, Zenon DEF OrderInv
<1>6. CASE Send
  <2>1. UNCHANGED <<alive, inherited, sampling, ctl, autosample_enabled>>
    BY <1>6 DEF Send
  <2>2. HasAutosample => pc' # "select"
    BY <1>6 DEF Send
  <2>3. LastOrder' = LastOrder
    BY <2>1 DEF LastOrder
  <2> QED
    BY <2>1, <2>2, <2>3 DEF OrderInv
<1>7. CASE Select \/ SelectTimeout \/ ProcessTtyLine \/ Accept \/ AutosampleLine \/ ClientLine
             \/ ClientClosed \/ ClientReset
  <2>1. UNCHANGED <<alive, inherited, sampling, ctl, autosample_enabled>> /\ pc' # "select"
    BY <1>7 DEF Select, SelectTimeout, ProcessTtyLine, Accept, AutosampleLine, ClientLine,
                ClientClosed, ClientReset, Turn, ClientsTurn
  <2> QED
    BY <2>1, OrderKept
<1>8. CASE HandleSignal \/ TtyVanished \/ AcceptFails \/ LoopEnds
  <2>1. UNCHANGED <<alive, inherited, sampling, ctl, autosample_enabled>> /\ pc' # "select"
    BY <1>8 DEF HandleSignal, TtyVanished, AcceptFails, LoopEnds, LeaveLoop
  <2> QED
    BY <2>1, OrderKept
<1>9. CASE ClientStep \/ FirmwareStep \/ ChildSamples \/ Age \/ Signal \/ UNCHANGED vars
  <2>1. UNCHANGED <<clients, alive, inherited, sampling, ctl, autosample_enabled>>
    BY <1>9 DEF ClientStep, Connect, WriteLine, ReadLines, Close, FirmwareStep, FirmwareAnswers,
                FirmwareSpeaks, Hangup, ChildSamples, Age, Signal, vars
  <2>2. pc' = pc \/ pc' = "signalled"
    BY <1>9 DEF ClientStep, Connect, WriteLine, ReadLines, Close, FirmwareStep, FirmwareAnswers,
                FirmwareSpeaks, Hangup, ChildSamples, Age, Signal, vars
  <2>3. SensorListeners' = SensorListeners
    BY <2>1 DEF SensorListeners
  <2> QED
    BY <2>1, <2>2, <2>3, OrderKept
<1> QED
  BY <1>1, <1>2, <1>3, <1>4, <1>6, <1>7, <1>8, <1>9
  DEF Next, LoopStep, ChildStep, Idle, Terminated

(* Between two iterations the last order the child was given says whether   *)
(* anybody listens to sensor data (main_loop 552-569), for any number of    *)
(* clients, however late it obeys and however often the tty hangs up; a     *)
(* child that an earlier main_loop left sampling goes on as the only one.   *)
THEOREM ChildIsTold == Spec => []ChildInStep
<1>1. Init => OrderInv
  BY DEF Init, OrderInv, LastOrder, SensorListeners
<1>2. TypeOK /\ TtyInv /\ OrderInv /\ [Next]_vars => OrderInv'
  BY OrderStep
<1>3. OrderInv => ChildInStep
  BY DEF OrderInv, ChildInStep
<1> QED
  BY <1>1, <1>2, <1>3, TypeCorrect, TtyInvariant, PTL DEF Spec

-----------------------------------------------------------------------------
(* The head of the queue. *)

(* A head that may go unwritten: it has no parameter, or there was no tty,  *)
(* or the last iteration was cut short by the dead child.                   *)
NothingToWrite ==
  cmd_q = <<>> \/ Head(cmd_q).sent \/ Head(cmd_q).param = NoParam \/ ~ttyUp

Excused == NothingToWrite \/ cut

(* Wherever the head can be taken off the queue, it was written or excused. *)
HeadInv ==
  pc \in {"select", "control"} \/ (pc = "dispatch" /\ TtyFd \in ready) => Excused

(* Writing the head, or letting time pass for it, leaves it in its place. *)
LEMMA HeadOfExcept ==
  ASSUME NEW S, NEW s \in Seq(S), s # <<>>, NEW e
  PROVE  /\ [s EXCEPT ![1] = e] # <<>> /\ Head([s EXCEPT ![1] = e]) = e
         /\ Len([s EXCEPT ![1] = e]) = Len(s)
<1>1. Len(s) \in Nat \ {0} /\ DOMAIN s = 1 .. Len(s) /\ s \in Seq(S \cup {e})
  <2>1. Len(s) \in Nat \ {0} /\ DOMAIN s = 1 .. Len(s)
    BY LenProperties, EmptySeq
  <2>2. s \in [1 .. Len(s) -> S \cup {e}]
    BY LenProperties
  <2> QED
    BY <2>1, <2>2, SeqDef
<1>2. [s EXCEPT ![1] = e] \in Seq(S \cup {e}) /\ Len([s EXCEPT ![1] = e]) = Len(s)
  BY <1>1, ExceptSeq
<1>3. [s EXCEPT ![1] = e][1] = e
  BY <1>1
<1>4. [s EXCEPT ![1] = e] # <<>>
  BY <1>1, <1>2, EmptySeq
<1> QED
  BY <1>2, <1>3, <1>4, HeadTailProperties

LEMMA ExcusedKept ==
  ASSUME HeadInv, UNCHANGED <<cmd_q, ttyUp, cut>>,
         \/ pc' \notin {"select", "control", "dispatch"}
         \/ pc' = "dispatch" /\ TtyFd \notin ready'
         \/ UNCHANGED <<pc, ready>>
         \/ pc \in {"select", "control"}
  PROVE  HeadInv'
  BY DEF HeadInv, Excused, NothingToWrite

LEMMA HeadStep ==
  ASSUME TypeOK, TtyInv, HeadInv, [Next]_vars
  PROVE  HeadInv'
<1> USE DEF daemon, sockets, serial, child, bounds, history
<1>1. CASE Select \/ Control
  BY <1>1, ExcusedKept DEF Select, Control
<1>2. CASE SelectTimeout
  BY <1>2 DEF SelectTimeout, HeadInv
<1>3. CASE HandleSignal \/ TtyVanished \/ AcceptFails \/ LoopEnds
  BY <1>3 DEF HandleSignal, TtyVanished, AcceptFails, LoopEnds, LeaveLoop, HeadInv
<1>4. CASE ProcessTtyLine \/ Accept \/ AutosampleLine \/ ClientLine \/ ClientClosed
             \/ ClientReset
  <2>1. pc' = "dispatch" /\ TtyFd \notin ready'
    <3>1. CASE ProcessTtyLine
      BY <3>1 DEF ProcessTtyLine, Turn
    <3>2. CASE Accept \/ AutosampleLine
      <4>1. PICK fd \in {ListenFd, AutoFd} : Turn(fd)
        BY <3>2 DEF Accept, AutosampleLine
      <4>2. TtyFd \notin ready
        BY <4>1 DEF Turn, LoopFds, SigFd, TtyFd, ListenFd, AutoFd
      <4> QED
        BY <3>2, <4>2 DEF Accept, AutosampleLine, Turn
    <3>3. CASE ClientLine \/ ClientClosed \/ ClientReset
      <4>1. TtyFd \notin ready
        BY <3>3 DEF ClientLine, ClientClosed, ClientReset, ClientsTurn, LoopFds, SigFd,
           TtyFd, AutoFd
      <4> QED
        BY <3>3, <4>1 DEF ClientLine, ClientClosed, ClientReset, ClientsTurn
    <3> QED
      BY <1>4, <3>1, <3>2, <3>3
  <2> QED
    BY <2>1 DEF HeadInv
<1>5. CASE AutosampleVanished
  BY <1>5 DEF AutosampleVanished, HeadInv, Excused
<1>6. CASE Send
  <2>1. ttyUp' = ttyUp /\ pc' \in {"spinning", "control", "select"}
        /\ (WritesNothing => pc' = "spinning")
    BY <1>6 DEF Send
  <2>2. cmd_q \in Seq(Cmd)
    BY DEF TypeOK
  <2>3. CASE cmd_q # <<>> /\ ~Head(cmd_q).sent /\ Head(cmd_q).param > 0 /\ ttyUp
    <3>1. cmd_q' = [cmd_q EXCEPT ![1].sent = TRUE, ![1].tv_start = "recent"]
      BY <1>6, <2>3 DEF Send, SendHead
    <3>2. cmd_q[1] \in Cmd /\ 1 \in DOMAIN cmd_q
      BY <2>2, <2>3, EmptySeq, LenProperties, ElementOfSeq
    <3> DEFINE head == [cmd_q[1] EXCEPT !.sent = TRUE, !.tv_start = "recent"]
    <3>3. cmd_q' = [cmd_q EXCEPT ![1] = head]
      BY <3>1, <3>2
    <3>4. head.sent
      BY <3>2 DEF Cmd
    <3> HIDE DEF head
    <3>5. Head(cmd_q') = head
      BY <2>2, <2>3, <3>3, HeadOfExcept
    <3> QED
      BY <3>4, <3>5 DEF HeadInv, Excused, NothingToWrite
  <2>4. CASE ~(cmd_q # <<>> /\ ~Head(cmd_q).sent /\ Head(cmd_q).param > 0 /\ ttyUp)
    <3>1. cmd_q' = cmd_q
      BY <1>6, <2>4 DEF Send, SendHead
    <3>2. cmd_q # <<>> => Head(cmd_q).param \in Nat \cup {NoParam}
      <4> SUFFICES ASSUME cmd_q # <<>> PROVE Head(cmd_q).param \in Nat \cup {NoParam}
        OBVIOUS
      <4>1. Head(cmd_q) \in Cmd
        BY <2>2, HeadTailProperties
      <4> QED
        BY <4>1 DEF Cmd
    <3>3. ~WritesNothing => NothingToWrite
      BY <2>4, <3>2 DEF WritesNothing, NothingToWrite, NoParam
    <3>4. NothingToWrite' <=> NothingToWrite
      BY <2>1, <3>1 DEF NothingToWrite
    <3>5. WritesNothing => HeadInv'
      BY <2>1 DEF HeadInv
    <3> QED
      BY <3>3, <3>4, <3>5 DEF HeadInv, Excused
  <2> QED
    BY <2>3, <2>4
<1>7. CASE Reopen
  BY <1>7 DEF Reopen, TtyInv, HeadInv, Excused, NothingToWrite
<1>8. CASE Hangup
  BY <1>8 DEF Hangup, HeadInv, Excused, NothingToWrite
<1>9. CASE ClientStep \/ FirmwareAnswers \/ FirmwareSpeaks \/ ChildStep \/ UNCHANGED vars
  <2>1. UNCHANGED <<pc, ready, cmd_q, ttyUp, cut>>
    BY <1>9 DEF ClientStep, Connect, WriteLine, ReadLines, Close, FirmwareAnswers, FirmwareSpeaks,
                ChildStep, ChildObeys, ChildSamples, ChildDies, vars
  <2> QED
    BY <2>1, ExcusedKept
<1>10. CASE Age
  <2>1. cmd_q \in Seq(Cmd) /\ cmd_q # <<>> /\ Head(cmd_q).sent
    BY <1>10 DEF Age, TypeOK
  <2>2. cmd_q[1] \in Cmd /\ cmd_q[1] = Head(cmd_q) /\ 1 \in DOMAIN cmd_q
    BY <2>1, EmptySeq, LenProperties, ElementOfSeq, HeadTailProperties
  <2> DEFINE head == [cmd_q[1] EXCEPT !.tv_start = "passed"]
  <2>3. cmd_q' = [cmd_q EXCEPT ![1] = head]
    BY <1>10, <2>2 DEF Age
  <2>4. head.sent
    BY <2>1, <2>2 DEF Cmd
  <2> HIDE DEF head
  <2>5. Head(cmd_q') = head
    BY <2>1, <2>3, HeadOfExcept
  <2> QED
    BY <2>4, <2>5 DEF HeadInv, Excused, NothingToWrite
<1>11. CASE Signal
  <2>1. UNCHANGED <<ready, cmd_q, ttyUp, cut>> /\ (pc' = pc \/ pc' = "signalled")
    BY <1>11 DEF Signal
  <2> QED
    BY <2>1, ExcusedKept
<1> QED
  BY <1>1, <1>2, <1>3, <1>4, <1>5, <1>6, <1>7, <1>8, <1>9, <1>10, <1>11
  DEF Next, LoopStep, FirmwareStep, Idle, Terminated

LEMMA HeadInvariant == Spec => []HeadInv
<1>1. Init => HeadInv
  BY DEF Init, HeadInv, Excused, NothingToWrite
<1>2. TypeOK /\ TtyInv /\ HeadInv /\ [Next]_vars => HeadInv'
  BY HeadStep
<1> QED
  BY <1>1, <1>2, TypeCorrect, TtyInvariant, PTL DEF Spec

(* A queue whose head was not taken off did not lose its head. *)
LEMMA HeadStays ==
  ASSUME TypeOK, QPush \/ QSend \/ QAge \/ QSame, cmd_q # <<>>
  PROVE  cmd_q' # Tail(cmd_q)
<1>1. cmd_q \in Seq(Cmd) /\ Len(cmd_q) \in Nat \ {0}
  BY LenProperties, EmptySeq DEF TypeOK
<1>2. Len(Tail(cmd_q)) = Len(cmd_q) - 1
  BY <1>1, HeadTailProperties
<1>3. Len(cmd_q') \in {Len(cmd_q), Len(cmd_q) + 1}
  <2>1. CASE QPush
    BY <1>1, <2>1, AppendProperties DEF QPush
  <2>2. CASE QSend \/ QAge
    <3>1. PICK e : cmd_q' = [cmd_q EXCEPT ![1] = e]
      BY <2>2 DEF QSend, QAge
    <3> QED
      BY <1>1, <3>1, HeadOfExcept
  <2>3. CASE QSame
    BY <2>3 DEF QSame
  <2> QED
    BY <2>1, <2>2, <2>3
<1> QED
  BY <1>1, <1>2, <1>3

(* The head of the queue is taken off for an answer, because it expired, or *)
(* when the loop is left.                                                   *)
LEMMA HeadTaken ==
  ASSUME TypeOK, [Next]_vars, cmd_q # <<>>, cmd_q' = Tail(cmd_q)
  PROVE  SelectTimeout \/ ProcessTtyLine \/ ~InLoop'
<1> USE DEF daemon, sockets, serial, child, bounds, history
<1>1. CASE HandleSignal \/ TtyVanished \/ AcceptFails \/ LoopEnds
  BY <1>1 DEF HandleSignal, TtyVanished, AcceptFails, LoopEnds, LeaveLoop, InLoop
<1>2. CASE AutosampleLine
  <2>1. autoPipe \in Seq(SampleLines) /\ autoPipe # <<>>
    BY <1>2 DEF AutosampleLine, TypeOK
  <2>2. Head(autoPipe) \in Line
    BY <2>1, HeadTailProperties, LinesAssumption
  <2> QED
    BY <1>2, <2>2, ProcessCmdQueue, HeadStays DEF AutosampleLine
<1>3. CASE ClientLine
  <2>1. PICK i \in DOMAIN clients :
          /\ inbox[clients[i].conn] # <<>>
          /\ ProcessCmd(Head(inbox[clients[i].conn]), clients[i].fd, clients[i].conn)
          /\ UNCHANGED lastSent
    BY <1>3 DEF ClientLine
  <2>2. clients[i].conn \in Conns /\ clients[i].fd \in ClientFds
    BY <2>1, ClientType
  <2>3. inbox[clients[i].conn] \in Seq(Lines)
    BY <2>2 DEF TypeOK
  <2>4. Head(inbox[clients[i].conn]) \in Line
    BY <2>1, <2>3, HeadTailProperties, LinesAssumption
  <2> QED
    BY <2>1, <2>2, <2>4, ProcessCmdQueue, HeadStays
<1>4. CASE Send
  <2>1. cmd_q \in Seq(Cmd) /\ cmd_q[1] = Head(cmd_q) /\ Len(cmd_q) \in Nat \ {0}
    BY LenProperties, EmptySeq, HeadTailProperties DEF TypeOK
  <2>2. QSend \/ cmd_q' = cmd_q
    BY <1>4, <2>1 DEF Send, SendHead, QSend
  <2>3. cmd_q' # cmd_q
    BY <2>1, HeadTailProperties
  <2> QED
    BY <2>2, <2>3, HeadStays
<1>5. CASE Age
  <2>1. cmd_q \in Seq(Cmd) /\ cmd_q[1] = Head(cmd_q)
    BY HeadTailProperties DEF TypeOK
  <2>2. QAge
    BY <1>5, <2>1 DEF Age, QAge
  <2> QED
    BY <2>2, HeadStays
<1>6. CASE \/ Select \/ Accept \/ AutosampleVanished \/ ClientClosed \/ ClientReset \/ Control
           \/ Reopen \/ Signal \/ UNCHANGED vars
  <2>1. cmd_q' = cmd_q
    BY <1>6 DEF Select, Accept, AutosampleVanished, ClientClosed, ClientReset, Control, Reopen,
       Signal, vars
  <2>2. cmd_q \in Seq(Cmd) /\ Len(cmd_q) \in Nat \ {0} /\ Len(Tail(cmd_q)) = Len(cmd_q) - 1
    BY LenProperties, EmptySeq, HeadTailProperties DEF TypeOK
  <2> QED
    BY <2>1, <2>2
<1>7. CASE ClientStep \/ FirmwareStep \/ ChildStep
  <2>1. cmd_q' = cmd_q
    BY <1>7 DEF ClientStep, FirmwareStep, ChildStep, Connect, WriteLine, ReadLines, Close,
       FirmwareAnswers, FirmwareSpeaks, Hangup, ChildObeys, ChildSamples, ChildDies
  <2>2. cmd_q \in Seq(Cmd) /\ Len(cmd_q) \in Nat \ {0} /\ Len(Tail(cmd_q)) = Len(cmd_q) - 1
    BY LenProperties, EmptySeq, HeadTailProperties DEF TypeOK
  <2> QED
    BY <2>1, <2>2
<1> QED
  BY <1>1, <1>2, <1>3, <1>4, <1>5, <1>6, <1>7 DEF Next, LoopStep, Idle, Terminated

(* A command with a parameter is not dropped unwritten (main_loop 481, 522, *)
(* send_command), except right after an iteration the dead child cut short, *)
(* before any write was tried again: for any number of clients, and         *)
(* whatever the tty does.                                                   *)
THEOREM CommandsAreWritten == Spec => ValidCommandsAreWritten
<1> DEFINE Taken == cmd_q # <<>> /\ cmd_q' = Tail(cmd_q) /\ ~Head(cmd_q).sent /\ InLoop'
           Fine == Head(cmd_q).param = NoParam \/ cut
<1>1. TypeOK /\ TtyInv /\ HeadInv /\ [Next]_vars => [Taken => Fine]_vars
  <2> SUFFICES ASSUME TypeOK, TtyInv, HeadInv, [Next]_vars, Taken
               PROVE  Fine
    OBVIOUS
  <2>1. SelectTimeout \/ ProcessTtyLine
    BY HeadTaken
  <2>2. CASE SelectTimeout
    <3>1. pc = "select" /\ TtyFd \notin ReadableNow
      BY <2>2 DEF SelectTimeout
    <3>2. ~Readable(TtyFd)
      BY <3>1 DEF ReadableNow, Watched
    <3>3. ttyUp
      BY <3>2 DEF Readable
    <3> QED
      BY <3>1, <3>3 DEF HeadInv, Excused, NothingToWrite
  <2>3. CASE ProcessTtyLine
    <3>1. pc = "dispatch" /\ TtyFd \in ready /\ tty # <<>>
      BY <2>3 DEF ProcessTtyLine, Turn
    <3> QED
      BY <3>1 DEF HeadInv, Excused, NothingToWrite, TtyInv
  <2> QED
    BY <2>1, <2>2, <2>3
<1> QED
  BY <1>1, TypeCorrect, TtyInvariant, HeadInvariant, PTL DEF Spec, ValidCommandsAreWritten

-----------------------------------------------------------------------------
(* The lines of the firmware. *)

(* A line is taken from the tty by process_tty only. *)
LEMMA LineTaken ==
  ASSUME TypeOK, TtyInv, [Next]_vars, tty # <<>>, tty' = Tail(tty), UNCHANGED ttyUp
  PROVE  ProcessTtyLine
<1> USE DEF daemon, sockets, serial, child, bounds, history
<1>1. tty \in Seq(FwLine)
  BY DEF TypeOK
<1>a. Len(tty) - 1 # Len(tty) /\ Len(tty) - 1 # Len(tty) + 1
  BY <1>1, LenProperties
<1>b. Len(tty') = Len(tty) - 1
  BY <1>1, HeadTailProperties
<1>2. tty' # tty
  BY <1>a, <1>b, Zenon
<1>3. ASSUME NEW line \in FwLine PROVE tty' # Append(tty, line)
  <2>1. Len(Append(tty, line)) = Len(tty) + 1
    BY <1>1, AppendProperties
  <2> QED
    BY <1>a, <1>b, <2>1, Zenon
<1>4. ~FirmwareAnswers
  <2> SUFFICES ASSUME FirmwareAnswers PROVE FALSE
    OBVIOUS
  <2>1. wire \in Seq(Char)
    BY DEF TypeOK
  <2>2. PICK i \in DOMAIN wire :
          \E kind \in Replies[wire[i].op] :
            tty' = Append(tty, [kind |-> kind, cause |-> wire[i].cause])
    BY DEF FirmwareAnswers
  <2>3. wire[i] \in Char
    BY <2>1, <2>2, ElementType
  <2>4. wire[i].op \in {"power", "sample"} /\ wire[i].cause \in Nat
    BY <2>3 DEF Char, Ids
  <2>5. PICK kind \in Kinds : tty' = Append(tty, [kind |-> kind, cause |-> wire[i].cause])
    BY <2>2, <2>4, FirmwareAssumption
  <2> QED
    BY <1>3, <2>4, <2>5 DEF FwLine
<1>5. ~FirmwareSpeaks
  BY <1>3, FirmwareAssumption DEF FirmwareSpeaks, FwLine
<1>6. ~Reopen /\ ~Hangup
  BY DEF Reopen, Hangup, TtyInv
<1>7. CASE \/ Select \/ SelectTimeout \/ HandleSignal \/ TtyVanished \/ Accept \/ AcceptFails
           \/ AutosampleLine \/ AutosampleVanished
  BY <1>2, <1>7 DEF Select, SelectTimeout, HandleSignal, TtyVanished, Accept, AcceptFails,
                    AutosampleLine, AutosampleVanished
<1>8. CASE \/ ClientLine \/ ClientClosed \/ ClientReset \/ Send \/ Control \/ LoopEnds
  BY <1>2, <1>8 DEF ClientLine, ClientClosed, ClientReset, Send, Control, LoopEnds
<1>9. CASE ClientStep \/ ChildStep \/ Age \/ Signal \/ UNCHANGED vars
  BY <1>2, <1>9 DEF ClientStep, ChildStep, Connect, WriteLine, ReadLines, Close, ChildObeys,
                    ChildSamples, ChildDies, Age, Signal, vars
<1> QED
  BY <1>4, <1>5, <1>6, <1>7, <1>8, <1>9 DEF Next, LoopStep, FirmwareStep, Idle, Terminated

(* What is written to a descriptor reaches the client that holds it, alone. *)
LEMMA OwnerIs ==
  ASSUME TypeOK, OneDescriptorPerClient, NEW i \in DOMAIN clients, NEW fd
  PROVE  Owner(fd) = clients[i].conn <=> clients[i].fd = fd
<1>1. CASE \E j \in DOMAIN clients : clients[j].fd = fd
  <2>1. PICK j \in DOMAIN clients :
          clients[j].fd = fd /\ j = CHOOSE k \in DOMAIN clients : clients[k].fd = fd
    BY <1>1
  <2>2. Owner(fd) = clients[j].conn
    BY <1>1, <2>1 DEF Owner
  <2>3. CASE i = j
    BY <2>1, <2>2, <2>3
  <2>4. CASE i # j
    BY <2>1, <2>2, <2>4 DEF OneDescriptorPerClient
  <2> QED
    BY <2>3, <2>4
<1>2. CASE ~ \E j \in DOMAIN clients : clients[j].fd = fd
  BY <1>2, ClientType, ConnsAssumption DEF Owner
<1> QED
  BY <1>1, <1>2

(* A line to the listeners is one record for each. *)
CopyTo(i, line) ==
  [slot |-> i, to |-> clients[i].conn, kind |-> line.kind, cause |-> line.cause, reply |-> ""]

(* Of the copies to the listeners the i-th client gets its own, if it       *)
(* listens and the line is not the answer to its command.                   *)
LEMMA ListenersCopy ==
  ASSUME TypeOK, OneDescriptorPerClient, NEW i \in DOMAIN clients, NEW fd, NEW line
  PROVE  { m \in Broadcast(line.kind, fd, line.cause) : m.to = clients[i].conn } =
           IF line.kind \in clients[i].listens /\ clients[i].fd # fd
             THEN {CopyTo(i, line)} ELSE {}
<1>1. Broadcast(line.kind, fd, line.cause) =
        { CopyTo(j, line) : j \in { k \in DOMAIN clients :
                                      line.kind \in clients[k].listens /\ clients[k].fd # fd } }
  BY DEF Broadcast, CopyTo
<1>2. \A j : CopyTo(j, line).to = clients[j].conn
  BY DEF CopyTo
<1>3. \A j \in DOMAIN clients : clients[j].conn = clients[i].conn <=> j = i
  BY DEF OneDescriptorPerClient
<1> QED
  BY <1>1, <1>2, <1>3

LEMMA CopiesOfALine ==
  ASSUME TypeOK, OneDescriptorPerClient, ProcessTtyLine, NEW i \in DOMAIN clients
  PROVE  /\ Copies(clients[i].conn) <= 1
         /\ Head(tty).kind \in clients[i].listens => Copies(clients[i].conn) = 1
<1> DEFINE line == Head(tty)
           fd == IF cmd_q = <<>> THEN NoFd ELSE Head(cmd_q).fd
           c == clients[i].conn
           mine == { m \in delivered' : m.to = c }
           copies == { m \in Broadcast(line.kind, fd, line.cause) : m.to = c }
           answers == IF cmd_q = <<>> THEN {}
                      ELSE Reply(fd, line.kind, line.cause, Head(cmd_q).op)
<1>1. delivered' = answers \cup Broadcast(line.kind, fd, line.cause)
  BY DEF ProcessTtyLine, Write
<1>2. mine = copies \cup { m \in answers : m.to = c }
  BY <1>1
<1>3. copies = IF line.kind \in clients[i].listens /\ clients[i].fd # fd
                 THEN {CopyTo(i, line)} ELSE {}
  BY ListenersCopy
<1>4. clients[i].fd # NoFd
  BY ClientType, FdsAssumption DEF NoFd
<1>5. { m \in answers : m.to = c } = IF clients[i].fd = fd THEN answers ELSE {}
  <2>1. CASE cmd_q = <<>>
    BY <1>4, <2>1
  <2>2. CASE cmd_q # <<>>
    <3>1. Owner(fd) = c <=> clients[i].fd = fd
      BY OwnerIs
    <3> QED
      BY <2>2, <3>1 DEF Reply
  <2> QED
    BY <2>1, <2>2
<1>6. clients[i].fd = fd => \E m : answers = {m}
  BY <1>4 DEF Reply
<1>7. \/ mine = {} /\ line.kind \notin clients[i].listens
      \/ \E m : mine = {m}
  BY <1>2, <1>3, <1>5, <1>6
<1>8. Cardinality({}) = 0 /\ \A m : Cardinality({m}) = 1
  BY FS_EmptySet, FS_Singleton
<1>9. Copies(c) = Cardinality(mine)
  BY DEF Copies
<1> HIDE DEF mine
<1>10. CASE mine = {} /\ line.kind \notin clients[i].listens
  BY <1>8, <1>9, <1>10
<1>11. CASE \E m : mine = {m}
  BY <1>8, <1>9, <1>11
<1> QED
  BY <1>7, <1>10, <1>11

(* Every listener gets a line of the firmware once, and nobody twice        *)
(* (process_tty, SEND_TO_LISTENER), for any number of clients.              *)
THEOREM ListenersGetOne == Spec => EveryListenerOnce
<1>1. TypeOK /\ TtyInv /\ Attachment /\ [Next]_vars
        => [ tty # <<>> /\ tty' = Tail(tty) /\ UNCHANGED ttyUp =>
               \A i \in DOMAIN clients :
                 /\ Copies(clients[i].conn) <= 1
                 /\ Head(tty).kind \in clients[i].listens => Copies(clients[i].conn) = 1 ]_vars
  BY LineTaken, CopiesOfALine DEF Attachment
<1> QED
  BY <1>1, TypeCorrect, TtyInvariant, AttachmentInvariant, PTL DEF Spec, EveryListenerOnce

-----------------------------------------------------------------------------
(* Answers and commands. *)

(* While they are in step at most one character or answer is under way, and *)
(* then it belongs to the head of the queue, whose two seconds are not over. *)
MatchInv ==
  InLoop /\ inStep =>
    /\ Len(wire) + Len(tty) <= 1
    /\ wire # <<>> \/ tty # <<>> =>
         cmd_q # <<>> /\ cmd_q[1].sent /\ cmd_q[1].tv_start = "recent"
    /\ \A i \in DOMAIN wire : wire[i].cause = cmd_q[1].id
    /\ \A i \in DOMAIN tty : tty[i].cause = cmd_q[1].id

(* The line a step reads from the child or from a client. *)
LEMMA LineRead ==
  ASSUME TypeOK, AutosampleLine \/ ClientLine
  PROVE  \E line \in Lines \cup SampleLines, fd \in ClientFds \cup {AutoFd},
            conn \in Conns \cup {NoConn} : line \in Line /\ ProcessCmd(line, fd, conn)
<1>1. CASE AutosampleLine
  <2>1. autoPipe \in Seq(SampleLines) /\ autoPipe # <<>>
    BY <1>1 DEF AutosampleLine, TypeOK
  <2>2. Head(autoPipe) \in SampleLines /\ Head(autoPipe) \in Line
    BY <2>1, HeadTailProperties, LinesAssumption
  <2> QED
    BY <1>1, <2>2 DEF AutosampleLine
<1>2. CASE ClientLine
  <2>1. PICK i \in DOMAIN clients :
          /\ inbox[clients[i].conn] # <<>>
          /\ ProcessCmd(Head(inbox[clients[i].conn]), clients[i].fd, clients[i].conn)
    BY <1>2 DEF ClientLine
  <2>2. clients[i].conn \in Conns /\ clients[i].fd \in ClientFds
    BY <2>1, ClientType
  <2>3. inbox[clients[i].conn] \in Seq(Lines)
    BY <2>2 DEF TypeOK
  <2>4. Head(inbox[clients[i].conn]) \in Lines /\ Head(inbox[clients[i].conn]) \in Line
    BY <2>1, <2>3, HeadTailProperties, LinesAssumption
  <2> QED
    BY <2>1, <2>2, <2>4
<1> QED
  BY <1>1, <1>2

LEMMA MatchEmpty ==
  ASSUME wire' = <<>>, tty' = <<>>
  PROVE  MatchInv'
  BY DEF MatchInv

LEMMA MatchKept ==
  ASSUME MatchInv, UNCHANGED <<wire, tty>>, InLoop' => InLoop, inStep' => inStep,
         cmd_q # <<>> => cmd_q' # <<>> /\ cmd_q'[1] = cmd_q[1]
  PROVE  MatchInv'
<1> SUFFICES ASSUME InLoop', inStep' PROVE MatchInv'
  BY DEF MatchInv
<1>1. CASE wire = <<>> /\ tty = <<>>
  BY <1>1, MatchEmpty
<1>2. CASE wire # <<>> \/ tty # <<>>
  <2>1. cmd_q # <<>> /\ cmd_q' # <<>> /\ cmd_q'[1] = cmd_q[1]
    BY <1>2 DEF MatchInv
  <2> QED
    BY <2>1 DEF MatchInv
<1> QED
  BY <1>1, <1>2

LEMMA MatchSend ==
  ASSUME TypeOK, MatchInv, Send
  PROVE  MatchInv'
<1> SUFFICES ASSUME inStep' PROVE MatchInv'
  BY DEF MatchInv
<1>0. InLoop /\ tty' = tty /\ inStep
        /\ (cmd_q # <<>> /\ ~Head(cmd_q).sent => Head(cmd_q).param <= 1)
  BY DEF Send, InLoop, serial
<1>1. CASE cmd_q # <<>> /\ ~Head(cmd_q).sent /\ Head(cmd_q).param > 0 /\ ttyUp
  <2> DEFINE head == cmd_q[1]
             char == [cause |-> head.id, op |-> head.op]
             sent == [head EXCEPT !.sent = TRUE, !.tv_start = "recent"]
  <2>1. cmd_q \in Seq(Cmd) /\ Head(cmd_q) = head /\ 1 \in DOMAIN cmd_q /\ head \in Cmd
    BY <1>1, CmdType, HeadTailProperties DEF TypeOK
  <2>2. wire = <<>> /\ tty = <<>>
    BY <1>0, <1>1, <2>1 DEF MatchInv
  <2>3. head.param = 1
    <3>1. head.param \in Nat \cup {NoParam} /\ head.param > 0 /\ head.param <= 1
      BY <1>0, <1>1, <2>1 DEF Cmd
    <3> QED
      BY <3>1 DEF NoParam
  <2>4. wire' = wire \o [j \in 1 .. 1 |-> char]
    BY <1>1, <2>1, <2>3 DEF Send, SendHead
  <2>5. wire' = <<char>>
    BY <2>2, <2>4
  <2>6. cmd_q' = [cmd_q EXCEPT ![1] = sent]
    BY <1>1, <2>1 DEF Send, SendHead
  <2>7. sent.sent /\ sent.tv_start = "recent" /\ sent.id = head.id
    BY <2>1 DEF Cmd
  <2>8. char.cause = head.id
    OBVIOUS
  <2> HIDE DEF sent, char
  <2>9. cmd_q' # <<>> /\ cmd_q'[1] = sent
    BY <1>1, <2>1, <2>6, HeadOfExcept
  <2>10. Len(wire') = 1 /\ \A i \in DOMAIN wire' : wire'[i] = char
    BY <2>5
  <2> QED
    BY <1>0, <2>2, <2>7, <2>8, <2>9, <2>10 DEF MatchInv
<1>2. CASE ~(cmd_q # <<>> /\ ~Head(cmd_q).sent /\ Head(cmd_q).param > 0 /\ ttyUp)
  <2>1. UNCHANGED <<wire, cmd_q>>
    BY <1>2 DEF Send, SendHead
  <2> QED
    BY <1>0, <2>1, MatchKept
<1> QED
  BY <1>1, <1>2

LEMMA MatchAnswer ==
  ASSUME TypeOK, MatchInv, FirmwareAnswers
  PROVE  MatchInv'
<1> SUFFICES ASSUME inStep' PROVE MatchInv'
  BY DEF MatchInv
<1>1. InLoop /\ inStep /\ UNCHANGED <<cmd_q, pc>> /\ wire \in Seq(Char) /\ tty \in Seq(FwLine)
  BY DEF FirmwareAnswers, daemon, bounds, history, TypeOK
<1>2. PICK i \in DOMAIN wire :
        /\ \E kind \in Replies[wire[i].op] :
             tty' = Append(tty, [kind |-> kind, cause |-> wire[i].cause])
        /\ wire' = Without(wire, i)
  BY DEF FirmwareAnswers
<1>3. Len(wire) \in Nat /\ DOMAIN wire = 1 .. Len(wire) /\ Len(tty) \in Nat
  BY <1>1, LenProperties
<1>4. Len(wire) = 1 /\ Len(tty) = 0
  BY <1>1, <1>2, <1>3 DEF MatchInv
<1>5. tty = <<>> /\ wire # <<>>
  BY <1>1, <1>4, EmptySeq
<1>6. wire' = <<>>
  <2>1. wire' \in Seq(Char) /\ DOMAIN wire' = 1 .. 0
    BY <1>1, <1>2, <1>4, WithoutProperties
  <2>2. Len(wire') \in Nat /\ DOMAIN wire' = 1 .. Len(wire')
    BY <2>1, LenProperties
  <2>3. Len(wire') = 0
    <3>1. Len(wire') > 0 => 1 \in 1 .. 0
      BY <2>1, <2>2
    <3> QED
      BY <2>2, <3>1
  <2> QED
    BY <2>1, <2>3, EmptySeq
<1>7. PICK answer : tty' = <<answer>> /\ answer.cause = wire[i].cause
  BY <1>2, <1>5
<1>8. Len(tty') = 1 /\ \A j \in DOMAIN tty' : tty'[j] = answer
  BY <1>7
<1>9. wire[i].cause = cmd_q[1].id
  BY <1>1, <1>2 DEF MatchInv
<1>10. cmd_q # <<>> /\ cmd_q[1].sent /\ cmd_q[1].tv_start = "recent"
  BY <1>1, <1>5 DEF MatchInv
<1> QED
  BY <1>1, <1>6, <1>7, <1>8, <1>9, <1>10 DEF MatchInv

LEMMA OneUnderWay ==
  ASSUME NEW m \in Nat, NEW n \in Nat, m + n <= 1, n # 0
  PROVE  n = 1 /\ m = 0
  OBVIOUS

LEMMA MatchStep ==
  ASSUME TypeOK, TtyInv, MatchInv, [Next]_vars
  PROVE  MatchInv'
<1> USE DEF daemon, sockets, serial, child, bounds, history
<1> SUFFICES ASSUME inStep' PROVE MatchInv'
  BY DEF MatchInv
<1>1. CASE SelectTimeout
  <2>0. inStep
    BY <1>1 DEF SelectTimeout
  <2>1. cmd_q # <<>> /\ Head(cmd_q).tv_start # "recent" /\ InLoop /\ UNCHANGED <<wire, tty>>
    BY <1>1 DEF SelectTimeout, HasExpired, InLoop
  <2>2. Head(cmd_q) = cmd_q[1]
    BY HeadTailProperties, <2>1 DEF TypeOK
  <2>3. wire = <<>> /\ tty = <<>>
    BY <2>0, <2>1, <2>2 DEF MatchInv
  <2> QED
    BY <2>1, <2>3, MatchEmpty
<1>2. CASE ProcessTtyLine
  <2>1. InLoop /\ inStep /\ tty # <<>> /\ tty' = Tail(tty) /\ wire' = wire
    BY <1>2 DEF ProcessTtyLine, Turn, InLoop
  <2>2. tty \in Seq(FwLine) /\ wire \in Seq(Char) /\ Len(tty) \in Nat \ {0} /\ Len(wire) \in Nat
    BY <2>1, LenProperties, EmptySeq DEF TypeOK
  <2>3. Len(tty) = 1 /\ Len(wire) = 0
    <3>1. Len(wire) + Len(tty) <= 1
      BY <2>1 DEF MatchInv
    <3>2. Len(tty) \in Nat /\ Len(tty) # 0 /\ Len(wire) \in Nat
      BY <2>2
    <3> QED
      BY <3>1, <3>2, OneUnderWay
  <2>4. tty' \in Seq(FwLine) /\ Len(tty') = Len(tty) - 1
    BY <2>1, <2>2, HeadTailProperties
  <2>5. Len(tty') = 0
    BY <2>3, <2>4
  <2>6. tty' = <<>> /\ wire' = <<>>
    BY <2>1, <2>2, <2>3, <2>4, <2>5, EmptySeq
  <2> QED
    BY <2>6, MatchEmpty
<1>3. CASE HandleSignal \/ TtyVanished \/ AcceptFails \/ LoopEnds
  BY <1>3 DEF HandleSignal, TtyVanished, AcceptFails, LoopEnds, LeaveLoop, MatchInv, InLoop
<1>4. CASE AutosampleLine \/ ClientLine
  <2>1. InLoop /\ UNCHANGED <<wire, tty, lastSent, inStep>>
    BY <1>4 DEF AutosampleLine, ClientLine, Turn, ClientsTurn, InLoop
  <2>2. QPush \/ QSame
    BY <1>4, <2>1, LineRead, ProcessCmdQueue
  <2>3. cmd_q # <<>> => cmd_q' # <<>> /\ cmd_q'[1] = cmd_q[1]
    <3>1. CASE QSame
      BY <3>1 DEF QSame
    <3>2. CASE QPush
      <4>1. PICK new \in Cmd : cmd_q' = Append(cmd_q, new)
        BY <3>2 DEF QPush
      <4>2. cmd_q \in Seq(Cmd)
        BY DEF TypeOK
      <4>3. cmd_q' # <<>> /\ \A i \in 1 .. Len(cmd_q) : cmd_q'[i] = cmd_q[i]
        BY <4>1, <4>2, AppendProperties
      <4>4. cmd_q # <<>> => 1 \in 1 .. Len(cmd_q)
        BY <4>2, LenProperties, EmptySeq
      <4> QED
        BY <4>3, <4>4
    <3> QED
      BY <2>2, <3>1, <3>2
  <2> QED
    BY <2>1, <2>3, MatchKept
<1>5. CASE Send
  BY <1>5, MatchSend
<1>6. CASE Reopen
  <2>1. wire' = <<>> /\ tty' = <<>>
    BY <1>6 DEF Reopen, TtyInv
  <2> QED
    BY <2>1, MatchEmpty
<1>7. CASE FirmwareAnswers
  BY <1>7, MatchAnswer
<1>8. CASE FirmwareSpeaks
  BY <1>8 DEF FirmwareSpeaks
<1>9. CASE Hangup
  BY <1>9, MatchEmpty DEF Hangup
<1>10. CASE Age
  BY <1>10, MatchEmpty DEF Age
<1>11. CASE \/ Select \/ Accept \/ AutosampleVanished \/ ClientClosed \/ ClientReset \/ Control
            \/ ClientStep \/ ChildStep \/ Signal \/ UNCHANGED vars
  <2>1. UNCHANGED <<cmd_q, wire, tty, inStep>> /\ (InLoop' => InLoop)
    BY <1>11 DEF Select, Accept, AutosampleVanished, ClientClosed, ClientReset, Control,
       ClientStep, Connect, WriteLine, ReadLines, Close, ChildStep, ChildObeys, ChildSamples, ChildDies, Signal, vars,
       InLoop, Turn, ClientsTurn
  <2> QED
    BY <2>1, MatchKept
<1> QED
  BY <1>1, <1>2, <1>3, <1>4, <1>5, <1>6, <1>7, <1>8, <1>9, <1>10, <1>11
  DEF Next, LoopStep, FirmwareStep, Idle, Terminated

(* While the firmware has been neither late nor unasked since the tty was   *)
(* opened, and no command was sent as two characters, the next line to be   *)
(* read answers the command it is taken to answer (process_tty, cmd_pop):   *)
(* for any number of clients and commands, whatever the firmware does       *)
(* before and after, and however often the tty hangs up.                    *)
THEOREM AnswersMatch == Spec => []AnswersMatchCommands
<1>1. Init => MatchInv
  BY DEF Init, MatchInv
<1>2. TypeOK /\ TtyInv /\ MatchInv /\ [Next]_vars => MatchInv'
  BY MatchStep
<1>3. TypeOK /\ MatchInv => AnswersMatchCommands
  <2> SUFFICES ASSUME TypeOK, MatchInv, InLoop, tty # <<>>, inStep
               PROVE  cmd_q # <<>> /\ Head(tty).cause = Head(cmd_q).id
    BY DEF AnswersMatchCommands
  <2>1. cmd_q # <<>>
    BY DEF MatchInv
  <2>2. Head(cmd_q) = cmd_q[1] /\ Head(tty) = tty[1] /\ 1 \in DOMAIN tty
    BY <2>1, HeadTailProperties, LenProperties, EmptySeq DEF TypeOK
  <2> QED
    BY <2>1, <2>2 DEF MatchInv
<1> QED
  BY <1>1, <1>2, <1>3, TypeCorrect, TtyInvariant, PTL DEF Spec

=============================================================================
