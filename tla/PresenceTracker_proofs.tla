------------------------- MODULE PresenceTracker_proofs -------------------------
(***************************************************************************)
(* Theorems about PresenceTracker, for any timers, clients and waits.      *)
(***************************************************************************)
EXTENDS PresenceTracker, SequenceTheorems, TLAPS

(* Timers are no other threads, and nobody is a thread. *)
LEMMA Distinct ==
  /\ "door" \notin Timers /\ "sensor" \notin Timers /\ "main" \notin Timers
  /\ Nobody \notin Checkers /\ Nobody \notin Clients
  /\ "door" \in Checkers /\ "sensor" \in Checkers /\ "main" \notin Checkers
  /\ Threads = Checkers \cup {"main"} /\ Timers \subseteq Checkers
  BY ThreadAssumption, NobodyAssumption DEF Checkers, Threads

-----------------------------------------------------------------------------
(* Threads and presence_notify_lock. *)

Allowed(t) ==
  IF t \in Timers THEN {"idle", "check", "notify", "warn"}
  ELSE IF t = "door" THEN Labels \ {"idle", "select", "append", "dead"}
  ELSE IF t = "sensor" THEN {"read", "check", "notify", "warn"}
  ELSE {"select", "append", "dead"}

(* A thread goes where it may, and takes the lock or gives it back with it. *)
LEMMA ThreadMoves ==
  ASSUME ThreadTypes, NEW t \in Threads, NEW l \in Allowed(t), Goto(t, l),
         \/ /\ l \in {"notify", "warn"} /\ t \in Checkers
            /\ notifier \in {t, Nobody} /\ notifier' = t
         \/ /\ l \notin {"notify", "warn"}
            /\ notifier' = IF notifier = t THEN Nobody ELSE notifier
  PROVE  ThreadTypes'
<1>1. Allowed(t) \subseteq Labels
  BY DEF Allowed, Labels
<1>2. /\ pc' \in [Threads -> Labels] /\ pc'[t] = l
      /\ \A u \in Threads \ {t} : pc'[u] = pc[u]
  BY <1>1 DEF ThreadTypes, Goto
<1>3. \A u \in Threads : pc[u] \in Allowed(u)
  BY Distinct DEF ThreadTypes, Allowed, Threads, Checkers
<1>4. \A u \in Threads : pc'[u] \in Allowed(u)
  BY <1>2, <1>3
<1>5. \A u \in Checkers : pc'[u] \in {"notify", "warn"} <=> notifier' = u
  BY <1>2, Distinct DEF ThreadTypes
<1>6. notifier' \in Checkers \cup {Nobody}
  BY Distinct DEF ThreadTypes
<1>7. /\ \A u \in Timers : pc'[u] \in {"idle", "check", "notify", "warn"}
      /\ pc'["door"] \in Labels \ {"idle", "select", "append", "dead"}
      /\ pc'["sensor"] \in {"read", "check", "notify", "warn"}
      /\ pc'["main"] \in {"select", "append", "dead"}
  BY <1>4, Distinct DEF Allowed
<1> QED
  BY <1>2, <1>5, <1>6, <1>7 DEF ThreadTypes

(* Where an exception and the end of a check lead. *)
LEMMA Ways ==
  ASSUME NEW t \in Checkers
  PROVE  /\ Throw(t) => \E l \in Allowed(t) : Goto(t, l) /\ l \notin {"notify", "warn"}
         /\ Return(t) => \E l \in Allowed(t) : Goto(t, l) /\ l \notin {"notify", "warn"}
         /\ {"check", "notify", "warn"} \subseteq Allowed(t)
<1>1. t \in Timers \/ t = "door" \/ t = "sensor"
  BY DEF Checkers
<1>2. /\ {"check", "notify", "warn"} \subseteq Allowed(t)
      /\ t \in Timers => "idle" \in Allowed(t)
      /\ t = "door" => {"forget", "remember"} \subseteq Allowed(t)
      /\ t = "sensor" => "read" \in Allowed(t)
  BY <1>1, Distinct DEF Allowed, Labels
<1> QED
  BY <1>1, <1>2, Distinct DEF Throw, Return

(* A step outside a check leaves the lock alone. *)
LEMMA MovesOutside ==
  ASSUME ThreadTypes, NEW t \in Threads, pc[t] \notin {"notify", "warn"},
         NEW l \in Allowed(t), l \notin {"notify", "warn"}, Goto(t, l), UNCHANGED notifier
  PROVE  ThreadTypes'
<1>1. notifier # t
  BY Distinct DEF ThreadTypes, Nobody
<1> QED
  BY <1>1, ThreadMoves

LEMMA CheckKeepsThreads ==
  ASSUME ThreadTypes, NEW t \in Checkers, Check(t)
  PROVE  ThreadTypes'
<1>0. t \in Threads
  BY DEF Threads
<1>1. CASE Evaluate(t)
  <2>1. \E l \in {"warn", "notify"} : Goto(t, l)
    BY <1>1 DEF Evaluate
  <2> QED
    BY <1>0, <1>1, <2>1, Ways, ThreadMoves DEF Evaluate
<1>2. CASE Notify(t)
  <2>1. notifier = t
    BY <1>2 DEF Notify, ThreadTypes
  <2>2. CASE SendFails
    BY <1>0, <1>2, <2>1, <2>2, Ways, ThreadMoves DEF Notify
  <2>3. CASE ~SendFails
    BY <1>0, <1>2, <2>1, <2>3, Ways, ThreadMoves DEF Notify
  <2> QED
    BY <2>2, <2>3
<1>3. CASE Warn(t)
  <2>1. notifier = t /\ notifier' = Nobody
    BY <1>3 DEF Warn, ThreadTypes
  <2>2. Throw(t) \/ Return(t)
    BY <1>3 DEF Warn
  <2> QED
    BY <1>0, <2>1, <2>2, Ways, ThreadMoves
<1> QED
  BY <1>1, <1>2, <1>3 DEF Check

LEMMA DoorKeepsThreads ==
  ASSUME ThreadTypes, DoorThread
  PROVE  ThreadTypes'
<1> USE Distinct
<1>1. Labels \ {"idle", "select", "append", "dead"} = Allowed("door") /\ "door" \in Threads
  BY DEF Allowed
<1>2. {"connect", "read", "unlock", "lock", "who", "how", "check", "remember", "forget"}
        \subseteq Allowed("door")
  BY <1>1 DEF Labels
<1>3. CASE Connect
  BY <1>1, <1>2, <1>3, MovesOutside DEF Connect
<1>4. CASE DoorLine
  <2>1. UNCHANGED notifier /\ pc["door"] = "read"
    BY <1>4 DEF DoorLine
  <2>2. Throw("door") \/ UNCHANGED pc \/ \E l \in {"read", "unlock", "lock"} : Goto("door", l)
    BY <1>4 DEF DoorLine
  <2>3. Throw("door") => Goto("door", "forget")
    BY DEF Throw
  <2>4. CASE UNCHANGED pc
    BY <2>1, <2>4 DEF ThreadTypes
  <2> QED
    BY <1>1, <1>2, <2>1, <2>2, <2>3, <2>4, MovesOutside
<1>5. CASE DoorEof
  BY <1>1, <1>2, <1>5, MovesOutside DEF DoorEof, Throw
<1>6. CASE UpdateDoor
  <2>1. UNCHANGED notifier /\ pc["door"] \in {"unlock", "lock"}
        /\ \E l \in {"who", "read"} : Goto("door", l)
    BY <1>6 DEF UpdateDoor
  <2> QED
    BY <1>1, <1>2, <2>1, MovesOutside
<1>7. CASE UpdateWho
  BY <1>1, <1>2, <1>7, MovesOutside DEF UpdateWho
<1>8. CASE UpdateHow
  BY <1>1, <1>2, <1>8, MovesOutside DEF UpdateHow
<1>9. CASE Remember
  BY <1>1, <1>2, <1>9, MovesOutside DEF Remember
<1>10. CASE Forget
  BY <1>1, <1>2, <1>10, MovesOutside DEF Forget
<1> QED
  BY <1>3, <1>4, <1>5, <1>6, <1>7, <1>8, <1>9, <1>10 DEF DoorThread

LEMMA MainKeepsThreads ==
  ASSUME ThreadTypes, MainThread
  PROVE  ThreadTypes'
<1>1. {"select", "append", "dead"} = Allowed("main") /\ "main" \in Threads
  BY Distinct DEF Allowed
<1>2. UNCHANGED notifier
  BY DEF MainThread, Accept, AcceptThrows, Remove, RemoveThrows, AppendClient
<1>3. UNCHANGED pc \/ \E l \in {"select", "append", "dead"} : Goto("main", l)
  BY DEF MainThread, Accept, AcceptThrows, Remove, RemoveThrows, AppendClient
<1>4. pc["main"] \notin {"notify", "warn"}
  BY DEF ThreadTypes
<1>5. CASE UNCHANGED pc
  BY <1>2, <1>5 DEF ThreadTypes
<1> QED
  BY <1>1, <1>2, <1>3, <1>4, <1>5, MovesOutside

LEMMA ThreadStep ==
  ASSUME ThreadTypes, [Next]_vars
  PROVE  ThreadTypes'
<1> USE Distinct
<1>1. ASSUME UNCHANGED <<pc, notifier>> PROVE ThreadTypes'
  BY <1>1 DEF ThreadTypes
<1>2. ASSUME NEW t \in Timers, TimerFires(t) PROVE ThreadTypes'
  BY <1>2, Ways, MovesOutside DEF TimerFires
<1>3. CASE LightLevel
  <2>1. "check" \in Allowed("sensor") /\ "read" \in Allowed("sensor") /\ "sensor" \in Threads
    BY DEF Allowed
  <2>2. UNCHANGED notifier /\ pc["sensor"] = "read"
        /\ \E l \in {"check", "read"} : Goto("sensor", l)
    BY <1>3 DEF LightLevel, Throw
  <2> QED
    BY <2>1, <2>2, MovesOutside
<1>4. CASE World
  BY <1>1, <1>4 DEF World, AskForOperation, Operate, Swing, DaemonQuits, ClientHangsUp
<1>5. CASE Tick \/ Movement \/ UNCHANGED vars
  BY <1>1, <1>5 DEF Tick, Movement, vars
<1> QED
  BY <1>2, <1>3, <1>4, <1>5, CheckKeepsThreads, DoorKeepsThreads, MainKeepsThreads DEF Next

-----------------------------------------------------------------------------
(* The tracker's state and the lines of the door. *)

LEMMA ShortSequences ==
  ASSUME NEW S, NEW d \in S, NEW e \in S
  PROVE  <<d>> \in Seq(S) /\ <<d, e>> \in Seq(S)
  OBVIOUS

LEMMA StatusType ==
  ASSUME NEW opened \in BOOLEAN, NEW idle \in BOOLEAN, NEW ajar \in BOOLEAN
  PROVE  Status(opened, idle, ajar) \in Line
  BY DEF Line

LEMMA LineType ==
  ASSUME NEW line \in Line
  PROVE  /\ line.kind = "request" => line.who \in Requesters
         /\ line.kind = "status" =>
              line.opened \in BOOLEAN /\ line.idle \in BOOLEAN /\ line.ajar \in BOOLEAN
  BY DEF Line, Request, Status

(* What the door daemon says is added to the lines on their way. *)
LEMMA SaysType ==
  ASSUME StateTypes, NEW lines \in Seq(Line), Says(lines)
  PROVE  doorIn' \in Seq(Line)
  BY ConcatProperties DEF StateTypes, Says

(* StateTypes in its parts: what the tracker knows of the door, what it     *)
(* announced, and what comes from the door.                                 *)
KnownTypes ==
  /\ door_unlocked_previously \in {{}, {TRUE}, {FALSE}}
  /\ door_unlocked \in BOOLEAN /\ door_closed \in BOOLEAN
  /\ door_manual_switch_used \in BOOLEAN /\ door_physically_present \in BOOLEAN
  /\ moved \in BOOLEAN

ResultTypes ==
  /\ last_somebody_present_result \in BOOLEAN
  /\ last_warning \in {{}, {"door ajar"}, {"door unlocked"}} /\ count_same_warning \in 0 .. 3

DoorTypes ==
  /\ last_who \in Requesters \cup {Nobody} /\ door_conn \in {{}, {"up"}, {"eof"}, {"closed"}}
  /\ door \in [opened : BOOLEAN, ajar : BOOLEAN, asked : Requesters \cup {Nobody}]
  /\ doorIn \in Seq(Line)

LEMMA StateParts ==
  /\ StateTypes <=> KnownTypes /\ ResultTypes /\ DoorTypes
  /\ StateTypes' <=> KnownTypes' /\ ResultTypes' /\ DoorTypes'
<1>1. StateTypes <=> KnownTypes /\ ResultTypes /\ DoorTypes
  BY Zenon DEF StateTypes, KnownTypes, ResultTypes, DoorTypes
<1>2. StateTypes' <=> KnownTypes' /\ ResultTypes' /\ DoorTypes'
  BY Zenon DEF StateTypes, KnownTypes, ResultTypes, DoorTypes
<1> QED
  BY <1>1, <1>2

LEMMA StateFrames ==
  ASSUME StateTypes
  PROVE  /\ UNCHANGED doorState => KnownTypes'
         /\ UNCHANGED result => ResultTypes'
         /\ door_conn' \in {{}, {"closed"}, door_conn} /\ UNCHANGED <<last_who, door, doorIn>> => DoorTypes'
<1>1. KnownTypes /\ ResultTypes /\ DoorTypes
  BY StateParts
<1>2. UNCHANGED doorState => KnownTypes'
  BY <1>1 DEF KnownTypes, doorState
<1>3. UNCHANGED result => ResultTypes'
  BY <1>1 DEF ResultTypes, result
<1>4. door_conn' \in {{}, {"closed"}, door_conn} /\ UNCHANGED <<last_who, door, doorIn>> => DoorTypes'
  BY <1>1 DEF DoorTypes
<1> QED
  BY <1>2, <1>3, <1>4

LEMMA CheckKeepsState ==
  ASSUME StateTypes, NEW t \in Checkers, Check(t)
  PROVE  StateTypes'
<1>1. KnownTypes /\ ResultTypes
  BY StateParts
<1>2. KnownTypes'
  BY StateFrames DEF Check, Evaluate, Notify, Warn
<1>3. ResultTypes'
  <2>1. CASE Evaluate(t)
    BY <1>1, <2>1 DEF Evaluate, SomebodyPresent, KnownTypes, ResultTypes
  <2>2. CASE Notify(t)
    BY <2>2, StateFrames DEF Notify
  <2>3. CASE Warn(t)
    <3>1. \/ count_same_warning' \in {0, 3}
          \/ count_same_warning < 3 /\ count_same_warning' = count_same_warning + 1
      BY <2>3 DEF Warn
    <3>2. PossibleWarning \in {{}, {"door ajar"}, {"door unlocked"}}
      BY DEF PossibleWarning
    <3>3. last_warning' = PossibleWarning /\ UNCHANGED last_somebody_present_result
      BY <2>3 DEF Warn
    <3>4. count_same_warning \in 0 .. 3
      BY <1>1 DEF ResultTypes
    <3>5. count_same_warning' \in 0 .. 3
      BY <3>1, <3>4
    <3> QED
      BY <1>1, <3>2, <3>3, <3>5, Zenon DEF ResultTypes
  <2> QED
    BY <2>1, <2>2, <2>3 DEF Check
<1>4. DoorTypes'
  <2>1. door_conn' \in {{}, {"closed"}, door_conn}
    BY DEF Check, Evaluate, Notify, Warn, Throw, doorThread
  <2>2. UNCHANGED <<last_who, door, doorIn>>
    BY DEF Check, Evaluate, Notify, Warn, doorThread, world
  <2> QED
    BY <2>1, <2>2, StateFrames
<1> QED
  BY <1>2, <1>3, <1>4, StateParts

LEMMA DoorKeepsState ==
  ASSUME StateTypes, DoorThread
  PROVE  StateTypes'
<1>1. KnownTypes /\ DoorTypes
  BY StateParts
<1>2. ResultTypes'
  BY StateFrames DEF DoorThread, Connect, DoorLine, DoorEof, Forget, UpdateDoor, UpdateWho,
     UpdateHow,
                     Remember
<1>3. CASE Connect
  <2>1. door.opened \in BOOLEAN /\ door.ajar \in BOOLEAN
    BY <1>1 DEF DoorTypes
  <2>2. Status(door.opened, TRUE, door.ajar) \in Line
    BY <2>1, StatusType
  <2>3. <<Status(door.opened, TRUE, door.ajar)>> \in Seq(Line)
    BY <2>2, ShortSequences
  <2>4. DoorTypes'
    BY <1>1, <1>3, <2>3 DEF Connect, DoorTypes, world
  <2> QED
    BY <1>2, <1>3, <2>4, StateFrames, StateParts DEF Connect
<1>4. CASE DoorLine
  <2>1. doorIn \in Seq(Line) /\ doorIn # <<>>
    BY <1>1, <1>4 DEF DoorLine, DoorTypes
  <2>2. Head(doorIn) \in Line /\ doorIn' \in Seq(Line)
    BY <1>4, <2>1, HeadTailProperties DEF DoorLine
  <2>3. door_closed' \in BOOLEAN
    BY <1>1, <1>4, <2>2, LineType DEF DoorLine, KnownTypes
  <2>4. last_who' \in Requesters \cup {Nobody}
    BY <1>1, <1>4, <2>2, LineType DEF DoorLine, DoorTypes
  <2>5. door_conn' \in {{}, {"closed"}, door_conn}
    BY <1>4 DEF DoorLine, Throw
  <2>6. KnownTypes'
    BY <1>1, <1>4, <2>3 DEF DoorLine, KnownTypes
  <2>7. DoorTypes'
    BY <1>1, <1>4, <2>2, <2>4, <2>5 DEF DoorLine, DoorTypes, world
  <2> QED
    BY <1>2, <2>6, <2>7, StateParts
<1>5. CASE DoorEof
  <2>1. door_conn' \in {{}, {"closed"}, door_conn}
    BY <1>5 DEF DoorEof, Throw
  <2> QED
    BY <1>2, <1>5, <2>1, StateFrames, StateParts DEF DoorEof, world
<1>6. CASE UpdateDoor
  <2>1. KnownTypes'
    BY <1>1, <1>6 DEF UpdateDoor, KnownTypes
  <2>2. DoorTypes'
    BY <1>1, <1>6 DEF UpdateDoor, DoorTypes, world
  <2> QED
    BY <1>2, <2>1, <2>2, StateParts
<1>7. CASE UpdateWho
  BY <1>2, <1>7, StateFrames, StateParts DEF UpdateWho, doorThread, world
<1>8. CASE UpdateHow
  <2>1. KnownTypes'
    BY <1>1, <1>8 DEF UpdateHow, KnownTypes
  <2> QED
    BY <1>2, <1>8, <2>1, StateFrames, StateParts DEF UpdateHow, doorThread, world
<1>9. CASE Remember
  <2>1. KnownTypes'
    BY <1>1, <1>9 DEF Remember, KnownTypes
  <2>2. DoorTypes'
    BY <1>1, <1>9 DEF Remember, DoorTypes, world
  <2> QED
    BY <1>2, <2>1, <2>2, StateParts
<1>10. CASE Forget
  BY <1>2, <1>10, StateFrames, StateParts DEF Forget, world
<1> QED
  BY <1>3, <1>4, <1>5, <1>6, <1>7, <1>8, <1>9, <1>10 DEF DoorThread

LEMMA MainKeepsState ==
  ASSUME StateTypes, MainThread
  PROVE  StateTypes'
<1>1. doorIn' \in Seq(Line)
  <2>1. CASE AppendClient
    <3>1. Status(door.opened, TRUE, door.ajar) \in Line
      BY StatusType DEF StateTypes
    <3> QED
      BY <2>1, <3>1, AppendProperties DEF AppendClient, StateTypes
  <2>2. CASE ~AppendClient
    BY <2>2 DEF MainThread, Accept, AcceptThrows, Remove, RemoveThrows, StateTypes, world
  <2> QED
    BY <2>1, <2>2
<1>2. UNCHANGED <<doorState, result, last_who, door_conn, door>>
  BY DEF MainThread, Accept, AcceptThrows, Remove, RemoveThrows, AppendClient, doorThread, world
<1>3. DoorTypes'
  BY <1>1, <1>2, StateParts DEF DoorTypes
<1> QED
  BY <1>2, <1>3, StateFrames, StateParts

LEMMA WorldKeepsState ==
  ASSUME StateTypes, World
  PROVE  StateTypes'
<1>1. /\ door \in [opened : BOOLEAN, ajar : BOOLEAN, asked : Requesters \cup {Nobody}]
      /\ door.opened \in BOOLEAN /\ door.ajar \in BOOLEAN
  BY DEF StateTypes
<1>2. KnownTypes' /\ ResultTypes'
  BY StateFrames DEF World, AskForOperation, Operate, Swing, DaemonQuits, ClientHangsUp
<1>3. DoorTypes
  BY StateParts
<1> SUFFICES DoorTypes'
  BY <1>2, StateParts
<1>4. CASE AskForOperation
  <2>1. PICK who \in Requesters : door' = [door EXCEPT !.asked = who] /\ Says(<<Request(who)>>)
    BY <1>4 DEF AskForOperation
  <2>2. <<Request(who)>> \in Seq(Line)
    BY ShortSequences DEF Line
  <2>3. doorIn' \in Seq(Line)
    BY <2>1, <2>2, SaysType
  <2> QED
    BY <1>1, <1>3, <1>4, <2>1, <2>3 DEF AskForOperation, DoorTypes, doorThread
<1>5. CASE Operate
  <2>1. Status(door.opened, FALSE, door.ajar) \in Line /\ Status(~door.opened, TRUE, door.ajar) \in Line
    BY <1>1, StatusType
  <2>2. <<Status(door.opened, FALSE, door.ajar), Status(~door.opened, TRUE, door.ajar)>>
          \in Seq(Line)
    BY <2>1, ShortSequences
  <2>3. doorIn' \in Seq(Line)
    BY <1>5, <2>2, SaysType DEF Operate
  <2>4. door' \in [opened : BOOLEAN, ajar : BOOLEAN, asked : Requesters \cup {Nobody}]
    BY <1>1, <1>5 DEF Operate
  <2> QED
    BY <1>3, <1>5, <2>3, <2>4 DEF Operate, DoorTypes, doorThread
<1>6. CASE Swing
  <2>1. Status(door.opened, TRUE, ~door.ajar) \in Line
    BY <1>1, StatusType
  <2>2. <<Status(door.opened, TRUE, ~door.ajar)>> \in Seq(Line)
    BY <2>1, ShortSequences
  <2>3. doorIn' \in Seq(Line)
    BY <1>6, <2>2, SaysType DEF Swing
  <2>4. door' \in [opened : BOOLEAN, ajar : BOOLEAN, asked : Requesters \cup {Nobody}]
    BY <1>1, <1>6 DEF Swing
  <2> QED
    BY <1>3, <1>6, <2>3, <2>4 DEF Swing, DoorTypes, doorThread
<1>7. CASE DaemonQuits
  BY <1>3, <1>7 DEF DaemonQuits, DoorTypes
<1>8. CASE \E c \in Clients : ClientHangsUp(c)
  BY <1>3, <1>8 DEF ClientHangsUp, DoorTypes, doorThread
<1> QED
  BY <1>4, <1>5, <1>6, <1>7, <1>8 DEF World

LEMMA StateStep ==
  ASSUME StateTypes, [Next]_vars
  PROVE  StateTypes'
<1>1. KnownTypes
  BY StateParts
<1>2. CASE (\E t \in Timers : TimerFires(t)) \/ UNCHANGED vars
  BY <1>2, StateFrames, StateParts DEF TimerFires, vars, doorThread, world
<1>3. CASE Tick \/ Movement
  <2>1. KnownTypes'
    BY <1>1, <1>3 DEF Tick, Movement, KnownTypes
  <2> QED
    BY <1>3, <2>1, StateFrames, StateParts DEF Tick, Movement, doorThread, world
<1>4. CASE LightLevel
  <2>1. door_conn' \in {{}, {"closed"}, door_conn}
    BY <1>4 DEF LightLevel, Throw
  <2> QED
    BY <1>4, <2>1, StateFrames, StateParts DEF LightLevel, world
<1> QED
  BY <1>2, <1>3, <1>4, CheckKeepsState, DoorKeepsState, MainKeepsState, WorldKeepsState DEF Next

-----------------------------------------------------------------------------
(* Clocks and bounds. *)

(* Starting a timer keeps the clocks in range, and the timer counted on is  *)
(* one that was started.                                                    *)
LEMMA CheckAgainClocks ==
  ASSUME ClockTypes, ScheduledIsPending, NEW sec \in 0 .. MovementWait,
         CheckAgainIn(sec) \/ UNCHANGED clock
  PROVE  /\ timer' \in [Timers -> -1 .. MovementWait] /\ timer_left' \in -1 .. MovementWait
         /\ ScheduledIsPending'
<1>0. MovementWait \in Nat
  BY WaitAssumption
<1>1. CASE UNCHANGED clock
  BY <1>1 DEF ClockTypes, ScheduledIsPending, clock
<1>2. ASSUME NEW i \in Timers, timer' = [timer EXCEPT ![i] = sec], timer_left' = sec
      PROVE  /\ timer' \in [Timers -> -1 .. MovementWait] /\ timer_left' \in -1 .. MovementWait
             /\ timer'[i] = timer_left'
  BY <1>0, <1>2 DEF ClockTypes
<1> QED
  BY <1>1, <1>2 DEF CheckAgainIn, ScheduledIsPending

Clocks == ClockTypes /\ ScheduledIsPending

LEMMA ClockStep ==
  ASSUME Clocks, [Next]_vars
  PROVE  Clocks'
<1>0. /\ MovementWait \in Nat \ {0} /\ CardphoneWait \in 0 .. MovementWait
      /\ MaxOperations \in Nat /\ MaxFaults \in Nat
  BY WaitAssumption, BoundAssumption
<1>1. ASSUME UNCHANGED <<op_age, operations, faults>>,
             \/ UNCHANGED clock
             \/ CheckAgainIn(CardphoneWait)
             \/ CheckAgainIn(MovementWait)
      PROVE  Clocks'
  BY <1>0, <1>1, CheckAgainClocks DEF Clocks, ClockTypes
<1>2. ASSUME UNCHANGED clock, op_age' \in {0, op_age},
             operations' = operations \/ operations' \in 0 .. MaxOperations,
             faults' = faults \/ faults' \in 0 .. MaxFaults
      PROVE  Clocks'
  BY <1>0, <1>2 DEF Clocks, ClockTypes, ScheduledIsPending, clock
<1>3. ASSUME NEW t \in Checkers, Check(t) PROVE Clocks'
  BY <1>1, <1>3 DEF Check, Evaluate, Notify, Warn, doorState, world
<1>4. ASSUME NEW t \in Timers, TimerFires(t) PROVE Clocks'
  <2>1. ClockTypes'
    BY <1>0, <1>4 DEF TimerFires, Clocks, ClockTypes, doorState, world
  <2>2. ASSUME timer_left > 0 PROVE \E u \in Timers : timer'[u] = timer_left
    <3>1. PICK u \in Timers : timer[u] = timer_left
      BY <2>2 DEF Clocks, ScheduledIsPending
    <3> QED
      BY <1>4, <2>2, <3>1 DEF TimerFires, Clocks, ClockTypes
  <2> QED
    BY <1>4, <2>1, <2>2 DEF TimerFires, Clocks, ScheduledIsPending
<1>5. CASE Tick
  <2>1. /\ op_age' \in 0 .. MovementWait /\ timer_left' \in -1 .. MovementWait
        /\ timer' \in [Timers -> -1 .. MovementWait]
    BY <1>0, <1>5 DEF Tick, Clocks, ClockTypes
  <2>2. ASSUME timer_left' > 0 PROVE \E u \in Timers : timer'[u] = timer_left'
    <3>1. timer_left > 0 /\ timer_left' = timer_left - 1 /\ timer_left \in Int
      BY <1>0, <1>5, <2>2 DEF Tick, Clocks, ClockTypes
    <3>2. PICK u \in Timers : timer[u] = timer_left
      BY <3>1 DEF Clocks, ScheduledIsPending
    <3>3. timer'[u] = timer_left'
      BY <1>5, <3>1, <3>2 DEF Tick
    <3> QED
      BY <3>3
  <2> QED
    BY <1>5, <2>1, <2>2 DEF Tick, Clocks, ClockTypes, ScheduledIsPending, world
<1>6. CASE DoorThread
  BY <1>2, <1>6 DEF DoorThread, Connect, DoorLine, DoorEof, Forget, UpdateDoor, UpdateWho,
     UpdateHow,
                    Remember, doorState, world
<1>7. CASE LightLevel \/ Movement \/ UNCHANGED vars
  BY <1>2, <1>7 DEF LightLevel, Movement, vars, doorState, world
<1>8. CASE MainThread
  <2>1. CASE \E c \in Clients : AcceptThrows(c)
    <3>1. faults' \in 0 .. MaxFaults
      BY <1>0, <2>1 DEF AcceptThrows, Fault, Clocks, ClockTypes
    <3>2. UNCHANGED <<op_age, operations>> /\ (UNCHANGED clock \/ CheckAgainIn(CardphoneWait))
      BY <2>1 DEF AcceptThrows, doorState
    <3> QED
      BY <1>0, <3>1, <3>2, CheckAgainClocks DEF Clocks, ClockTypes
  <2>2. CASE ~\E c \in Clients : AcceptThrows(c)
    BY <1>1, <1>8, <2>2 DEF MainThread, Accept, Remove, RemoveThrows, AppendClient, doorState,
                            world
  <2> QED
    BY <2>1, <2>2
<1>9. CASE World
  <2>1. operations' = operations \/ operations' \in 0 .. MaxOperations
    BY <1>0, <1>9 DEF World, AskForOperation, Operate, Swing, DaemonQuits, ClientHangsUp, Clocks,
                      ClockTypes
  <2>2. faults' = faults \/ faults' \in 0 .. MaxFaults
    BY <1>0, <1>9 DEF World, AskForOperation, Operate, Swing, DaemonQuits, ClientHangsUp, Fault,
                      Clocks, ClockTypes
  <2>3. UNCHANGED <<op_age, clock>>
    BY <1>9 DEF World, AskForOperation, Operate, Swing, DaemonQuits, ClientHangsUp, doorState
  <2> QED
    BY <1>2, <2>1, <2>2, <2>3
<1> QED
  BY <1>3, <1>4, <1>5, <1>6, <1>7, <1>8, <1>9 DEF Next

-----------------------------------------------------------------------------
(* Clients. *)

(* Removing an element leaves the others. *)
LEMMA WithoutKeeps ==
  ASSUME NEW S, NEW s \in Seq(S), NEW i \in DOMAIN s,
         \A j, k \in DOMAIN s : s[j] = s[k] => j = k
  PROVE  /\ Without(s, i) \in Seq(S)
         /\ \A j, k \in DOMAIN Without(s, i) : Without(s, i)[j] = Without(s, i)[k] => j = k
         /\ {Without(s, i)[j] : j \in DOMAIN Without(s, i)} = {s[j] : j \in DOMAIN s} \ {s[i]}
<1> DEFINE w == Without(s, i)
<1>1. Len(s) \in Nat \ {0} /\ DOMAIN s = 1 .. Len(s) /\ i \in 1 .. Len(s)
      /\ \A j \in 1 .. Len(s) : s[j] \in S
  BY LenProperties, ElementOfSeq
<1>2. w = [j \in 1 .. Len(s) - 1 |-> IF j < i THEN s[j] ELSE s[j + 1]] /\ Len(s) - 1 \in Nat
  BY <1>1 DEF Without
<1>3. w \in Seq(S)
  BY <1>1, <1>2, SeqDef
<1> HIDE DEF w
<1>4. \A j, k \in DOMAIN w : w[j] = w[k] => j = k
  BY <1>1, <1>2
<1>5. \A j \in DOMAIN w : \E k \in DOMAIN s : w[j] = s[k] /\ k # i
  BY <1>1, <1>2
<1>6. ASSUME NEW k \in DOMAIN s, k # i PROVE \E j \in DOMAIN w : w[j] = s[k]
  <2>1. CASE k < i
    <3>1. k \in DOMAIN w /\ w[k] = s[k]
      BY <1>1, <1>2, <1>6, <2>1
    <3> QED
      BY <3>1
  <2>2. CASE k > i
    <3>1. k - 1 \in DOMAIN w /\ w[k - 1] = s[k]
      BY <1>1, <1>2, <1>6, <2>2
    <3> QED
      BY <3>1
  <2> QED
    BY <1>1, <1>6, <2>1, <2>2
<1>7. {w[j] : j \in DOMAIN w} = {s[j] : j \in DOMAIN s} \ {s[i]}
  BY <1>5, <1>6
<1> QED
  BY <1>3, <1>4, <1>7 DEF w

(* No client is in the list twice, or before it was accepted. *)
ListInv ==
  /\ \A i, j \in DOMAIN client_sockets : client_sockets[i] = client_sockets[j] => i = j
  /\ \A c \in Listening : client[c] # "fresh"
  /\ pc["main"] = "append" =>
       newsocketconn \in Clients \ Listening /\ client[newsocketconn] # "fresh"

(* ClientsAreCurrent while a check goes on: it is true again when the       *)
(* message is sent, and not only when the lock is given back.               *)
Current ==
  (\A t \in Checkers : pc[t] # "notify") =>
    \A c \in Listening \ behind : told[c] = last_somebody_present_result

ClientInv == ClientTypes /\ ListInv /\ Current

LEMMA ListeningAreClients ==
  ASSUME ClientTypes
  PROVE  Listening \subseteq Clients
<1>1. \A i \in DOMAIN client_sockets : client_sockets[i] \in Clients
  <2>1. Len(client_sockets) \in Nat /\ DOMAIN client_sockets = 1 .. Len(client_sockets)
    BY LenProperties DEF ClientTypes
  <2> QED
    BY <2>1, ElementOfSeq DEF ClientTypes
<1> QED
  BY <1>1 DEF Listening

(* Steps that send nothing and leave the list alone. *)
LEMMA ClientFrame ==
  ASSUME ClientInv, UNCHANGED <<listener, news, last_somebody_present_result>>,
         client' \in [Clients -> {"fresh", "open", "gone"}],
         \A c \in Clients : client[c] # "fresh" => client'[c] # "fresh",
         pc'["main"] = "append" => pc["main"] = "append",
         \A t \in Checkers : pc[t] = "notify" => pc'[t] = "notify"
  PROVE  ClientInv'
<1>1. Listening \subseteq Clients /\ Listening' = Listening
  BY ListeningAreClients DEF ClientInv, Listening, listener
<1>2. ClientTypes'
  BY <1>1 DEF ClientInv, ClientTypes, listener, news
<1>3. ListInv'
  BY <1>1 DEF ClientInv, ListInv, listener
<1>4. Current'
  BY <1>1 DEF ClientInv, Current, news
<1> QED
  BY <1>2, <1>3, <1>4 DEF ClientInv

LEMMA OtherThreads ==
  ASSUME ThreadTypes, NEW t \in Threads, NEW l, Goto(t, l)
  PROVE  pc'[t] = l /\ \A u \in Threads \ {t} : pc'[u] = pc[u]
  BY DEF ThreadTypes, Goto

LEMMA CheckKeepsClients ==
  ASSUME ThreadTypes, last_somebody_present_result \in BOOLEAN, ClientInv,
         NEW t \in Checkers, Check(t)
  PROVE  ClientInv'
<1> USE Distinct
<1>1. t \in Threads /\ t # "main"
  OBVIOUS
<1>2. \A u \in Checkers : pc[u] \in {"notify", "warn"} <=> notifier = u
  BY DEF ThreadTypes
<1>3. PICK l : Goto(t, l)
  BY DEF Check, Evaluate, Notify, Warn, Throw, Return
<1>4. \A u \in Threads \ {t} : pc'[u] = pc[u]
  BY <1>1, <1>3, OtherThreads
<1>5. UNCHANGED <<listener, client>> /\ Listening' = Listening
  BY DEF Check, Evaluate, Notify, Warn, Listening, listener, world
<1>6. ListInv'
  BY <1>1, <1>4, <1>5 DEF ClientInv, ListInv, listener
<1>7. CASE Evaluate(t)
  <2>1. ClientTypes'
    BY <1>5, <1>7 DEF Evaluate, ClientInv, ClientTypes, listener, news
  <2>2. \A u \in Checkers : pc[u] # "notify"
    BY <1>2, <1>7 DEF Evaluate
  <2>3. ASSUME SomebodyPresent = last_somebody_present_result PROVE Current'
    BY <1>5, <1>7, <2>2, <2>3 DEF Evaluate, ClientInv, Current, news
  <2>4. ASSUME SomebodyPresent # last_somebody_present_result PROVE Current'
    <3>1. pc'[t] = "notify"
      BY <1>1, <1>7, <2>4, OtherThreads DEF Evaluate
    <3> QED
      BY <3>1 DEF Current
  <2> QED
    BY <1>6, <2>1, <2>3, <2>4 DEF ClientInv
<1>8. CASE Notify(t)
  <2>1. Reached \subseteq Listening /\ (~SendFails => Reached = Listening)
    <3>1. DOMAIN client_sockets = 1 .. Len(client_sockets) /\ Len(client_sockets) \in Nat
      BY LenProperties DEF ClientInv, ClientTypes
    <3>2. Reached \subseteq Listening
      BY DEF Reached, Listening
    <3>3. ASSUME ~SendFails, NEW i \in DOMAIN client_sockets PROVE client_sockets[i] \in Reached
      <4>1. \A j \in 1 .. i : client[client_sockets[j]] # "gone"
        BY <3>1, <3>3 DEF SendFails, Listening
      <4> QED
        BY <4>1 DEF Reached
    <3> QED
      BY <3>2, <3>3 DEF Listening
  <2>2. Listening \ behind' \subseteq Reached
    BY <1>8, <2>1 DEF Notify
  <2>3. Listening \subseteq Clients
    BY ListeningAreClients DEF ClientInv
  <2>4. Current'
    BY <1>5, <1>8, <2>1, <2>2, <2>3 DEF Notify, Current, result
  <2>5. behind' \subseteq Listening
    BY <1>8 DEF Notify, ClientInv, ClientTypes
  <2>6. told' \in [Clients -> BOOLEAN]
    BY <1>8 DEF Notify, ClientInv, ClientTypes
  <2> QED
    BY <1>5, <1>6, <2>4, <2>5, <2>6 DEF ClientInv, ClientTypes, listener
<1>9. CASE Warn(t)
  <2>1. pc[t] = "warn" /\ UNCHANGED <<news, last_somebody_present_result>>
    BY <1>9 DEF Warn
  <2> QED
    BY <1>1, <1>4, <1>5, <2>1, ClientFrame DEF ClientInv, ClientTypes
<1> QED
  BY <1>7, <1>8, <1>9 DEF Check

LEMMA MainKeepsClients ==
  ASSUME ThreadTypes, StateTypes, ClientInv, MainThread
  PROVE  ClientInv'
<1> USE Distinct
<1>1. /\ client_sockets \in Seq(Clients) /\ client \in [Clients -> {"fresh", "open", "gone"}]
      /\ told \in [Clients -> BOOLEAN] /\ behind \subseteq Listening
      /\ Listening \subseteq Clients
  BY ListeningAreClients DEF ClientInv, ClientTypes
<1>2. "main" \in Threads /\ \A t \in Checkers : t \in Threads \ {"main"}
  OBVIOUS
<1>3. UNCHANGED last_somebody_present_result
  BY DEF MainThread, Accept, AcceptThrows, Remove, RemoveThrows, AppendClient, result
<1>4. \A t \in Checkers : pc'[t] = pc[t]
  <2>1. UNCHANGED pc \/ \E l : Goto("main", l)
    BY DEF MainThread, Accept, AcceptThrows, Remove, RemoveThrows, AppendClient
  <2> QED
    BY <1>2, <2>1, OtherThreads
<1>5. ASSUME NEW c \in Clients, Accept(c) PROVE ClientInv'
  <2>1. client[c] = "fresh" /\ c \notin Listening /\ Listening' = Listening
    BY <1>5 DEF Accept, ClientInv, ListInv, Listening
  <2>2. SomebodyPresent \in BOOLEAN
    BY DEF SomebodyPresent, StateTypes
  <2>3. ClientTypes'
    BY <1>1, <1>5, <2>1, <2>2 DEF Accept, ClientTypes
  <2>4. \A d \in Listening : client'[d] # "fresh"
    BY <1>1, <1>5, <2>1 DEF Accept, ClientInv, ListInv
  <2>5. ListInv'
    BY <1>1, <1>5, <2>1, <2>4 DEF Accept, ClientInv, ListInv
  <2>6. \A d \in Listening : told'[d] = told[d]
    BY <1>1, <1>5, <2>1 DEF Accept
  <2>7. Current'
    BY <1>3, <1>4, <1>5, <2>1, <2>6 DEF Accept, ClientInv, Current
  <2> QED
    BY <2>3, <2>5, <2>7 DEF ClientInv
<1>6. ASSUME NEW c \in Clients, AcceptThrows(c) PROVE ClientInv'
  <2>1. pc'["main"] = "dead" /\ client' = [client EXCEPT ![c] = "gone"]
        /\ UNCHANGED <<listener, news>>
    BY <1>2, <1>6, OtherThreads DEF AcceptThrows
  <2> QED
    BY <1>1, <1>3, <1>4, <2>1, ClientFrame
<1>7. CASE AppendClient
  <2>1. /\ newsocketconn \in Clients \ Listening /\ client[newsocketconn] # "fresh"
        /\ client_sockets' = Append(client_sockets, newsocketconn)
        /\ pc'["main"] # "append"
    <3>1. pc["main"] = "append" /\ \E l \in {"dead", "select"} : Goto("main", l)
      BY <1>7 DEF AppendClient
    <3> QED
      BY <1>2, <1>7, <3>1, OtherThreads DEF AppendClient, ClientInv, ListInv
  <2>2. /\ client_sockets' \in Seq(Clients)
        /\ Len(client_sockets') = Len(client_sockets) + 1 /\ Len(client_sockets) \in Nat
        /\ DOMAIN client_sockets = 1 .. Len(client_sockets)
        /\ DOMAIN client_sockets' = 1 .. Len(client_sockets) + 1
        /\ \A i \in DOMAIN client_sockets : client_sockets'[i] = client_sockets[i]
        /\ client_sockets'[Len(client_sockets) + 1] = newsocketconn
    BY <1>1, <2>1, AppendProperties, LenProperties
  <2>3. Listening' = Listening \cup {newsocketconn}
    BY <2>2 DEF Listening
  <2>4. ClientTypes'
    BY <1>1, <1>7, <2>2, <2>3 DEF AppendClient, ClientTypes, world
  <2>5. \A i, j \in DOMAIN client_sockets' :
          client_sockets'[i] = client_sockets'[j] => i = j
    <3>1. \A i \in DOMAIN client_sockets : client_sockets[i] # newsocketconn
      BY <2>1 DEF Listening
    <3> QED
      BY <2>2, <3>1 DEF ClientInv, ListInv
  <2>6. ListInv'
    BY <1>7, <2>1, <2>3, <2>5 DEF AppendClient, ClientInv, ListInv, world
  <2>7. Current'
    BY <1>3, <1>4, <1>7, <2>3 DEF AppendClient, ClientInv, Current
  <2> QED
    BY <2>4, <2>6, <2>7 DEF ClientInv
<1>8. ASSUME NEW c \in Clients, Remove(c) PROVE ClientInv'
  <2>1. PICK i \in DOMAIN client_sockets :
          client_sockets[i] = c /\ client_sockets' = Without(client_sockets, i)
    BY <1>8 DEF Remove
  <2>2. /\ client_sockets' \in Seq(Clients)
        /\ \A j, k \in DOMAIN client_sockets' : client_sockets'[j] = client_sockets'[k] => j = k
        /\ Listening' = Listening \ {c}
    <3>1. \A j, k \in DOMAIN client_sockets : client_sockets[j] = client_sockets[k] => j = k
      BY DEF ClientInv, ListInv
    <3> DEFINE w == Without(client_sockets, i)
    <3>2. /\ w \in Seq(Clients) /\ \A j, k \in DOMAIN w : w[j] = w[k] => j = k
          /\ {w[j] : j \in DOMAIN w} = Listening \ {client_sockets[i]}
      BY <1>1, <3>1, WithoutKeeps, Zenon DEF Listening
    <3>3. w = client_sockets' /\ client_sockets[i] = c
      BY <2>1
    <3> HIDE DEF w
    <3>4. Listening' = {client_sockets'[j] : j \in DOMAIN client_sockets'}
      BY DEF Listening
    <3>5. Listening' = Listening \ {c}
      BY <3>2, <3>3, <3>4
    <3> QED
      BY <3>2, <3>3, <3>5
  <2>3. ClientTypes'
    BY <1>1, <1>8, <2>2 DEF Remove, ClientInv, ClientTypes, world
  <2>4. ListInv'
    BY <1>8, <2>2 DEF Remove, ClientInv, ListInv, world
  <2>5. \A d \in Listening' \ behind' : d \in Listening \ behind /\ told'[d] = told[d]
    BY <1>1, <1>8, <2>2 DEF Remove
  <2>6. Current'
    BY <1>3, <1>4, <2>5 DEF ClientInv, Current
  <2> QED
    BY <2>3, <2>4, <2>6 DEF ClientInv
<1>9. ASSUME NEW c \in Clients, RemoveThrows(c) PROVE ClientInv'
  <2>1. pc'["main"] = "dead" /\ UNCHANGED <<listener, news, client>>
    BY <1>2, <1>9, OtherThreads DEF RemoveThrows, world
  <2> QED
    BY <1>1, <1>3, <1>4, <2>1, ClientFrame
<1> QED
  BY <1>5, <1>6, <1>7, <1>8, <1>9 DEF MainThread

LEMMA ClientStep ==
  ASSUME ThreadTypes, StateTypes, ClientInv, [Next]_vars
  PROVE  ClientInv'
<1> USE Distinct
<1>1. client \in [Clients -> {"fresh", "open", "gone"}]
  BY DEF ClientInv, ClientTypes
<1>2. CASE \/ \E t \in Timers : TimerFires(t)
           \/ Tick \/ DoorThread \/ LightLevel \/ Movement \/ World \/ UNCHANGED vars
  <2>1. UNCHANGED <<listener, news, last_somebody_present_result>>
    BY <1>2 DEF TimerFires, Tick, DoorThread, Connect, DoorLine, DoorEof, Forget, UpdateDoor,
       UpdateWho,
                UpdateHow, Remember, LightLevel, Movement, World, AskForOperation, Operate, Swing,
                DaemonQuits, ClientHangsUp, vars, result
  <2>2. UNCHANGED client \/ \E c \in Clients : client' = [client EXCEPT ![c] = "gone"]
    BY <1>2 DEF TimerFires, Tick, DoorThread, Connect, DoorLine, DoorEof, Forget, UpdateDoor,
       UpdateWho,
                UpdateHow, Remember, LightLevel, Movement, World, AskForOperation, Operate, Swing,
                DaemonQuits, ClientHangsUp, vars, world
  <2>3. \/ UNCHANGED pc
        \/ \E t \in Checkers, l \in Labels : pc[t] # "notify" /\ Goto(t, l)
    <3>1. CASE \E t \in Timers : TimerFires(t)
      BY <3>1 DEF TimerFires, Labels
    <3>2. CASE DoorThread
      BY <3>2 DEF DoorThread, Connect, DoorLine, DoorEof, Forget, UpdateDoor, UpdateWho, UpdateHow,
                  Remember, Throw, Labels
    <3>3. CASE LightLevel
      BY <3>3 DEF LightLevel, Throw, Labels
    <3>4. CASE Tick \/ Movement \/ World \/ UNCHANGED vars
      BY <3>4 DEF Tick, Movement, World, AskForOperation, Operate, Swing, DaemonQuits,
                  ClientHangsUp, vars
    <3> QED
      BY <1>2, <3>1, <3>2, <3>3, <3>4
  <2>4. pc'["main"] = pc["main"] /\ \A t \in Checkers : pc[t] = "notify" => pc'[t] = "notify"
    <3>1. ASSUME NEW t \in Checkers, NEW l, pc[t] # "notify", Goto(t, l)
          PROVE  pc'["main"] = pc["main"] /\ \A u \in Checkers : pc[u] = "notify" => pc'[u] = "notify"
      BY <3>1, OtherThreads
    <3> QED
      BY <2>3, <3>1
  <2> QED
    BY <1>1, <2>1, <2>2, <2>4, ClientFrame
<1>3. last_somebody_present_result \in BOOLEAN
  BY DEF StateTypes
<1> QED
  BY <1>2, <1>3, CheckKeepsClients, MainKeepsClients DEF Next

-----------------------------------------------------------------------------
(* The theorems. *)

IInv == ThreadTypes /\ StateTypes /\ Clocks /\ ClientInv

LEMMA IInvInit == Init => IInv
<1> SUFFICES ASSUME Init PROVE IInv
  OBVIOUS
<1> USE Distinct
<1>1. ThreadTypes
  BY DEF Init, ThreadTypes, Labels, Checkers
<1>2. StateTypes
  <2>1. KnownTypes
    BY DEF Init, KnownTypes
  <2>2. ResultTypes
    <3>1. last_somebody_present_result = FALSE /\ last_warning = {} /\ count_same_warning = 0
      BY DEF Init
    <3>2. count_same_warning \in 0 .. 3
      BY <3>1
    <3> QED
      BY <3>1, <3>2, Zenon DEF ResultTypes
  <2>3. DoorTypes
    BY EmptySeq DEF Init, DoorTypes
  <2> QED
    BY <2>1, <2>2, <2>3, StateParts
<1>3. Clocks
  BY WaitAssumption, BoundAssumption DEF Init, Clocks, ClockTypes, ScheduledIsPending
<1>4. ClientInv
  <2>1. client_sockets = <<>> /\ DOMAIN client_sockets = {} /\ Listening = {}
    BY DEF Init, Listening
  <2> QED
    BY <2>1, EmptySeq DEF Init, ClientInv, ClientTypes, ListInv, Current
<1> QED
  BY <1>1, <1>2, <1>3, <1>4 DEF IInv

LEMMA IInvStep ==
  ASSUME IInv, [Next]_vars
  PROVE  IInv'
  BY ThreadStep, StateStep, ClockStep, ClientStep DEF IInv

LEMMA Invariance == Spec => []IInv
  BY IInvInit, IInvStep, PTL DEF Spec

(* Every variable keeps its type, and presence_notify_lock belongs to the   *)
(* thread inside checkPresenceStateChangeAndNotify, however checks, clients *)
(* that hang up and exceptions interleave.                                  *)
THEOREM TypeCorrect == Spec => []TypeOK
<1>1. IInv => TypeOK
  BY DEF IInv, TypeOK, Clocks, ClientInv
<1> QED
  BY <1>1, Invariance, PTL

(* The timer that checkAgainIn counts on has been started and not yet run.  *)
THEOREM PendingChecks == Spec => []ScheduledIsPending
<1>1. IInv => ScheduledIsPending
  BY DEF IInv, Clocks
<1> QED
  BY <1>1, Invariance, PTL

(* Outside a check every client was last told what the tracker holds to be  *)
(* true, except those a failed send or a late join left behind: for any     *)
(* number of clients and of checks at once.                                 *)
THEOREM CurrentClients == Spec => []ClientsAreCurrent
<1>1. IInv => ClientsAreCurrent
  <2>1. ASSUME IInv, notifier = Nobody PROVE \A t \in Checkers : pc[t] # "notify"
    BY <2>1, Distinct DEF IInv, ThreadTypes
  <2> QED
    BY <2>1 DEF IInv, ClientInv, Current, ClientsAreCurrent
<1> QED
  BY <1>1, Invariance, PTL

=============================================================================
