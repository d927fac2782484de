------------------------------ MODULE Autosample ------------------------------
(***************************************************************************)
(* The autosample child of powersensordaemon (autosample.c) and the way it *)
(* catches signals (sig_handler.c): the handler keeps one set of signals   *)
(* in a pipe, which select() watches next to the pipe with the daemon's    *)
(* orders.  The handler may run between any two steps.                     *)
(***************************************************************************)
EXTENDS Integers, Sequences

CONSTANTS
  DeviceNum,        \* -A options
  Delay,            \* delay_ of each device
  Exiting,          \* SIGINT, SIGQUIT, SIGTERM
  Harmless,         \* SIGHUP, SIGUSR1, SIGUSR2
  Term,             \* SIGTERM, which the daemon sends when it ends
  PipeSize,         \* requests the pipe to the daemon holds
  MayVanish,        \* the daemon may end without a word
  MaxOrders,        \* bound: orders and new main loops
  MaxSignals        \* bound: signals sent by others

Devices == 1 .. DeviceNum
Signals == Exiting \cup Harmless

(* The daemon starts no child for a rate that is not positive: DevicesInOrder *)
(* of Startup.                                                               *)
ASSUME DevicesAssumption ==
  /\ DeviceNum \in Nat \ {0}
  /\ Delay \in [Devices -> Nat \ {0}]
ASSUME SignalsAssumption == Term \in Exiting /\ Exiting \cap Harmless = {}
ASSUME BoundsAssumption ==
  PipeSize \in Nat \ {0} /\ MaxOrders \in Nat /\ MaxSignals \in Nat /\ MayVanish \in BOOLEAN

VARIABLES
  pc, ready,                \* ready is tmpfds
  next, cnt,                \* device looked at, timeouts since it was due
  sample_enabled,
  control, data,            \* the pipes from and to the daemon
  sig_pipe,                 \* sets of signals
  blocked, pending,         \* signal mask, signals not yet delivered
  set,                      \* of signal_handle
  daemon, told,             \* "up", "leaving", "gone"; its autosample_enabled
  caught, elapsed,          \* history: signals caught and not yet handled,
                            \* timeouts since the last request for a device
  orders, signals           \* what the bounds count

timer == <<next, cnt, elapsed>>
sig == <<sig_pipe, blocked, pending, set, caught, signals>>
pipes == <<control, data>>
peer == <<daemon, told, orders>>
vars == <<pc, ready, timer, sample_enabled, pipes, sig, peer>>

-----------------------------------------------------------------------------
(* The child. *)

(* signal_init; without memory or without a pipe the child ends. *)
Start ==
  /\ pc = "start"
  /\ pc' \in {"select", "ended"}
  /\ UNCHANGED <<ready, timer, sample_enabled, pipes, sig, peer>>

Readable ==
  (IF control # <<>> \/ daemon = "gone" THEN {"control"} ELSE {})
    \cup (IF sig_pipe # <<>> THEN {"signal"} ELSE {})

Turn(fds) ==
  IF "control" \in fds THEN "order" ELSE IF "signal" \in fds THEN "signal" ELSE "select"

(* Counts whenever select() returns. *)
Mutant_Select ==
  /\ pc = "select" /\ Readable # {}
  /\ ready' = Readable /\ pc' = "tick" /\ next' = 1
  /\ UNCHANGED <<cnt, elapsed, sample_enabled, pipes, sig, peer>>

Select ==
  /\ pc = "select" /\ Readable # {}
  /\ ready' = Readable /\ pc' = Turn(Readable)
  /\ UNCHANGED <<timer, sample_enabled, pipes, sig, peer>>

(* A second without anything to read; a signal during it starts it again.   *)
SelectTimeout ==
  /\ pc = "select" /\ Readable = {}
  /\ pc' = "tick" /\ next' = 1 /\ ready' = {}
  /\ elapsed' = [d \in Devices |-> IF elapsed[d] < Delay[d] THEN elapsed[d] + 1 ELSE elapsed[d]]
  /\ UNCHANGED <<cnt, sample_enabled, pipes, sig, peer>>

Counted(d) == IF cnt[d] + 1 >= Delay[d] THEN 0 ELSE cnt[d] + 1

(* The last device is left out. *)
Mutant_Wanted == sample_enabled = 1 /\ cnt[next] + 1 >= Delay[next] /\ next < DeviceNum

(* The switch is not looked at. *)
Mutant_Switch == cnt[next] + 1 >= Delay[next]

Wanted == sample_enabled = 1 /\ cnt[next] + 1 >= Delay[next]

(* One device; send_sample_cmd waits while the pipe is full and is not told *)
(* when nobody is left to read it.                                          *)
Tick ==
  /\ pc = "tick" /\ next <= DeviceNum
  /\ IF Wanted
       THEN \/ /\ daemon # "gone" /\ Len(data) < PipeSize
               /\ data' = Append(data, next)
               /\ elapsed' = [elapsed EXCEPT ![next] = 0]
            \/ daemon = "gone" /\ UNCHANGED <<data, elapsed>>
       ELSE UNCHANGED <<data, elapsed>>
  /\ cnt' = [cnt EXCEPT ![next] = Counted(next)]
  /\ next' = next + 1
  /\ UNCHANGED <<pc, ready, sample_enabled, control, sig, peer>>

TickDone ==
  /\ pc = "tick" /\ next > DeviceNum
  /\ pc' = Turn(ready)
  /\ UNCHANGED <<ready, timer, sample_enabled, pipes, sig, peer>>

ReadOrder ==
  /\ pc = "order" /\ control # <<>>
  /\ sample_enabled' = Head(control) /\ control' = Tail(control)
  /\ pc' = Turn(ready \ {"control"})
  /\ UNCHANGED <<ready, timer, data, sig, peer>>

(* read() returns 0 again and again at the end of the control pipe. *)
Spin == pc = "order" /\ control = <<>> /\ UNCHANGED vars

Ended == pc = "ended" /\ UNCHANGED vars

-----------------------------------------------------------------------------
(* Signals. *)

(* Begins with an empty set although there is one in the pipe. *)
Mutant_Handler(s) ==
  /\ s \in pending /\ ~blocked /\ pc \notin {"start", "ended"}
  /\ sig_pipe' = <<{s}>>
  /\ pending' = pending \ {s} /\ caught' = caught \cup {s}
  /\ UNCHANGED <<pc, ready, timer, sample_enabled, pipes, blocked, set, signals, peer>>

(* sig_handler: reads the set there is, adds the signal, writes it back.    *)
Handler(s) ==
  /\ s \in pending /\ ~blocked /\ pc \notin {"start", "ended"}
  /\ sig_pipe' = IF sig_pipe = <<>> THEN <<{s}>>
                 ELSE Append(Tail(sig_pipe), Head(sig_pipe) \cup {s})
  /\ pending' = pending \ {s} /\ caught' = caught \cup {s}
  /\ UNCHANGED <<pc, ready, timer, sample_enabled, pipes, blocked, set, signals, peer>>

(* Before signal_init a signal does what it always does. *)
Killed ==
  /\ pc = "start" /\ pending # {}
  /\ pc' = "ended"
  /\ UNCHANGED <<ready, timer, sample_enabled, pipes, sig, peer>>

(* signal_handle: the mask, the set, what the set says. *)
Block ==
  /\ pc = "signal"
  /\ blocked' = TRUE /\ pc' = "read"
  /\ UNCHANGED <<ready, timer, sample_enabled, pipes, sig_pipe, pending, set, caught, signals,
                 peer>>

ReadSet ==
  /\ pc = "read"
  /\ set' = IF sig_pipe = <<>> THEN {} ELSE Head(sig_pipe)
  /\ sig_pipe' = IF sig_pipe = <<>> THEN <<>> ELSE Tail(sig_pipe)
  /\ caught' = caught \ set'
  /\ pc' = "restore"
  /\ UNCHANGED <<ready, timer, sample_enabled, pipes, blocked, pending, signals, peer>>

(* A signal that is only logged keeps the child. *)
Mutant_Ends == set # {} /\ set \subseteq Exiting

Ends == set \cap Exiting # {}

Restore ==
  /\ pc = "restore"
  /\ blocked' = FALSE
  /\ pc' = IF Ends THEN "stop" ELSE "select"
  /\ UNCHANGED <<ready, timer, sample_enabled, pipes, sig_pipe, pending, set, caught, signals,
                 peer>>

(* signal_stop, which closes the pipe with what is in it. *)
Stop ==
  /\ pc = "stop"
  /\ pc' = "ended" /\ sig_pipe' = <<>>
  /\ UNCHANGED <<ready, timer, sample_enabled, pipes, blocked, pending, set, caught, signals,
                 peer>>

-----------------------------------------------------------------------------
(* The daemon and others. *)

(* main_loop changes its mind, and forgets it when the tty is opened again. *)
Order ==
  /\ daemon = "up" /\ orders < MaxOrders
  /\ \/ told' = 1 - told /\ control' = Append(control, 1 - told)
     \/ told = 1 /\ told' = 0 /\ UNCHANGED control
  /\ orders' = orders + 1
  /\ UNCHANGED <<pc, ready, timer, sample_enabled, data, sig, daemon>>

(* A line is read, or all of them by clear_fd. *)
Take ==
  /\ daemon = "up" /\ data # <<>>
  /\ data' \in {Tail(data), <<>>}
  /\ UNCHANGED <<pc, ready, timer, sample_enabled, control, sig, peer>>

(* kill(pid_, SIGTERM) at the end of main(), then exit. *)
DaemonEnds ==
  /\ daemon = "up"
  /\ daemon' = "leaving" /\ pending' = pending \cup {Term}
  /\ UNCHANGED <<pc, ready, timer, sample_enabled, pipes, sig_pipe, blocked, set, caught, signals,
                 told, orders>>

DaemonGone ==
  /\ daemon = "leaving" \/ (daemon = "up" /\ MayVanish)
  /\ daemon' = "gone"
  /\ UNCHANGED <<pc, ready, timer, sample_enabled, pipes, sig, told, orders>>

Raise(s) ==
  /\ signals < MaxSignals
  /\ signals' = signals + 1 /\ pending' = pending \cup {s}
  /\ UNCHANGED <<pc, ready, timer, sample_enabled, pipes, sig_pipe, blocked, set, caught, peer>>

-----------------------------------------------------------------------------

Init ==
  /\ pc = "start" /\ ready = {}
  /\ next = 1 /\ cnt = [d \in Devices |-> 0] /\ elapsed = [d \in Devices |-> 0]
  /\ sample_enabled = 0
  /\ control = <<>> /\ data = <<>>
  /\ sig_pipe = <<>> /\ blocked = FALSE /\ pending = {} /\ set = {} /\ caught = {}
  /\ daemon = "up" /\ told = 0 /\ orders = 0 /\ signals = 0

ChildStep ==
  \/ Start \/ Select \/ SelectTimeout \/ Tick \/ TickDone \/ ReadOrder
  \/ Block \/ ReadSet \/ Restore \/ Stop

Delivery == Killed \/ \E s \in Signals : Handler(s)

Outside == Order \/ Take \/ DaemonEnds \/ DaemonGone \/ \E s \in Signals : Raise(s)

Next == ChildStep \/ Spin \/ Ended \/ Delivery \/ Outside

Spec == Init /\ [][Next]_vars

(* The kernel runs the child and delivers signals, and the daemon reads.    *)
FairSpec == Spec /\ WF_vars(ChildStep) /\ WF_vars(Delivery) /\ WF_vars(Take)

-----------------------------------------------------------------------------
(* Properties. *)

(* Every variable keeps its type, and a counter stays below its rate. *)
TypeOK ==
  /\ pc \in {"start", "select", "tick", "order", "signal", "read", "restore", "stop", "ended"}
  /\ ready \subseteq {"control", "signal"}
  /\ next \in 1 .. DeviceNum + 1
  /\ cnt \in [Devices -> Nat] /\ \A d \in Devices : cnt[d] < Delay[d]
  /\ elapsed \in [Devices -> Nat]
  /\ sample_enabled \in {0, 1}
  /\ control \in Seq({0, 1}) /\ data \in Seq(Devices)
  /\ sig_pipe \in Seq(SUBSET Signals) /\ set \in SUBSET Signals
  /\ pending \in SUBSET Signals /\ caught \in SUBSET Signals /\ blocked \in BOOLEAN
  /\ daemon \in {"up", "leaving", "gone"} /\ told \in {0, 1}
  /\ orders \in Nat /\ signals \in Nat

(* The pipe is the handler's only memory: wherever the handler interrupts   *)
(* the child, a signal it has caught is in the one set there is until       *)
(* signal_handle has looked at it (sig_handler.c:53-62, 121-144).           *)
NoSignalLost ==
  pc # "ended" =>
    \/ sig_pipe = <<>> /\ caught = {}
    \/ sig_pipe = <<caught>> /\ caught # {}

(* Signals and orders wake the child up early, but a device is asked for    *)
(* again only after as many quiet seconds as its rate says                  *)
(* (autosample.c:177-189).                                                  *)
SpacedSamples ==
  [][ \A d \in Devices : data' = Append(data, d) => elapsed[d] >= Delay[d] ]_vars

(* A signal that should end the child does, whatever comes with it, and     *)
(* even when it waits for a daemon slow to read; as long as the daemon is   *)
(* there (autosample.c:199).                                                *)
SignalEnds ==
  (pending \cup caught) \cap Exiting # {} ~> pc = "ended" \/ daemon # "up"

(* A child that stays switched on asks for every device again and again,    *)
(* although every signal and every order starts its second anew.            *)
SamplesKeepComing ==
  <>[](sample_enabled = 1 /\ daemon = "up" /\ pc # "ended") =>
    \A d \in Devices : []<>(\E n \in DOMAIN data : data[n] = d)

(* The child is what the daemon takes it for. *)
Source == INSTANCE SampleSource WITH
  Lines <- Devices, alive <- pc # "ended", enabled <- sample_enabled = 1,
  orders <- [n \in DOMAIN control |-> control[n] = 1], lines <- data

ImplementsSource == Source!Spec

=============================================================================
