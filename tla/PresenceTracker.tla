---------------------------- MODULE PresenceTracker ----------------------------
(***************************************************************************)
(* track-presence.py: a thread that follows the door, one that follows the *)
(* sensors, timers, and the main thread that serves clients, all of them   *)
(* working on one StatusTracker.                                           *)
(*                                                                         *)
(* self.lock is never held across another lock, a send or a wait, so what  *)
(* happens under it is one step; so is a distributeData under the          *)
(* listener's lock.  presence_notify_lock is held through a check and is   *)
(* the variable notifier.  Reading the configuration never blocks for good *)
(* (ConfigLock).  Time is counted in ticks since the last door operation   *)
(* and until a timer is due.  Who might be here, the light level, the      *)
(* texts and num_movements_during_nonpresences (always 0) are left out,    *)
(* and a send never blocks.                                                *)
(*                                                                         *)
(* told and behind are history.  Mutant_X is a broken variant of X, unused *)
(* here.                                                                   *)
(***************************************************************************)
EXTENDS Integers, Sequences

CONSTANTS
  Timers,             \* a bound on the timers set at once, and on their checks at once
  Clients,
  CardphoneWait,      \* sec_wait_after_close_using_cardphone
  MovementWait,       \* sec_wait_for_movement_before_warning
  MaxOperations,      \* bound: times the door is locked, unlocked, opened or closed
  MaxFaults           \* bound: times a client hangs up or the door daemon quits

ASSUME WaitAssumption ==
  /\ CardphoneWait \in Nat \ {0} /\ MovementWait \in Nat \ {0}
  /\ CardphoneWait <= MovementWait
ASSUME BoundAssumption == MaxOperations \in Nat /\ MaxFaults \in Nat
ASSUME ThreadAssumption == Timers \cap {"door", "sensor", "main"} = {}

Checkers == Timers \cup {"door", "sensor"}
Threads == Checkers \cup {"main"}
Nobody == "nobody"
ASSUME NobodyAssumption == Nobody \notin Checkers \cup Clients

Requesters == {"Card", "Phone"}   \* who asks for an operation: with a card at the door, or not
Request(who) == [kind |-> "request", who |-> who]
Status(opened, idle, ajar) ==
  [kind |-> "status", opened |-> opened, idle |-> idle, ajar |-> ajar]
Line == {Request(who) : who \in Requesters}
          \cup {Status(opened, idle, ajar) : opened, idle, ajar \in BOOLEAN}

Labels == {"idle", "check", "notify", "warn", "connect", "read", "unlock", "lock", "who", "how",
           "remember", "forget", "select", "append", "dead"}

VARIABLES
  pc,
  (* StatusTracker; None is the empty set *)
  door_unlocked_previously, door_unlocked, door_closed,
  door_manual_switch_used, door_physically_present,
  op_age,                  \* time.time() - last_door_operation_unixts, up to MovementWait
  moved,                   \* last_movement_unixts > last_door_operation_unixts
  last_somebody_present_result, last_warning, count_same_warning,
  notifier,                \* who holds presence_notify_lock
  timer,                   \* ticks until a timer is due, -1: not started
  timer_left,              \* timer_timeout - time.time(), -1: past
  (* trackDoorStatusThread *)
  last_who,
  door_conn,               \* door_sockhandle: up, at its end, closed, or none
  (* ConnectionListener *)
  client_sockets,
  newsocketconn,           \* the client being accepted
  (* the world *)
  door,                    \* the door itself: opened, ajar, who asked for an operation
  doorIn,                  \* lines of the door daemon on their way
  operations, faults,
  client,                  \* the other ends: fresh, open, gone
  (* history *)
  told,                    \* the presence a client was last told
  behind                   \* clients whose last news a failed send or a late join kept from them

doorState == <<door_unlocked_previously, door_unlocked, door_closed, door_manual_switch_used,
               door_physically_present, op_age, moved>>
result == <<last_somebody_present_result, last_warning, count_same_warning>>
clock == <<timer, timer_left>>
doorThread == <<last_who, door_conn>>
listener == <<client_sockets, newsocketconn>>
world == <<door, operations, faults, client>>
news == <<told, behind>>
vars == <<pc, doorState, result, notifier, clock, doorThread, listener, doorIn, world, news>>

Fault == faults < MaxFaults /\ faults' = faults + 1

Goto(t, l) == pc' = [pc EXCEPT ![t] = l]

-----------------------------------------------------------------------------
(* distributeData: sends to one client after the other and throws at the    *)
(* first one that has hung up.                                              *)

Listening == {client_sockets[i] : i \in DOMAIN client_sockets}
SendFails == \E c \in Listening : client[c] = "gone"
Reached ==
  {client_sockets[i] : i \in {i \in DOMAIN client_sockets :
                                \A j \in 1 .. i : client[client_sockets[j]] # "gone"}}

Without(s, i) == [j \in 1 .. Len(s) - 1 |-> IF j < i THEN s[j] ELSE s[j + 1]]

(* An exception ends a timer's thread; the others start over, the sensor    *)
(* thread with a new ssh, the door thread when it has closed its connection *)
(* and, in another region of the lock, forgotten it.                        *)
Throw(t) ==
  /\ Goto(t, IF t \in Timers THEN "idle" ELSE IF t = "sensor" THEN "read" ELSE "forget")
  /\ door_conn' = IF t = "door" THEN {"closed"} ELSE door_conn

Return(t) ==
  Goto(t, IF t \in Timers THEN "idle" ELSE IF t = "sensor" THEN "read" ELSE "remember")

-----------------------------------------------------------------------------
(* StatusTracker *)

AfterCardphone == ~door_manual_switch_used /\ op_age < CardphoneWait

SomebodyPresent ==
  IF door_unlocked THEN door_physically_present \/ ~door_closed \/ moved
  ELSE IF ~door_closed THEN TRUE
  ELSE IF AfterCardphone THEN last_somebody_present_result
  ELSE door_manual_switch_used

ChecksAgain == ~door_unlocked /\ door_closed /\ AfterCardphone

(* Remembers a timer it does not start. *)
Mutant_CheckAgainIn(sec) ==
  \/ timer_left > 0 /\ UNCHANGED clock
  \/ timer_left <= 0 /\ timer_left' = sec /\ UNCHANGED timer

(* At timer_left = 0 the timer goes off, and its thread may find the time   *)
(* it was due already past or not.  A timer may be started by the check of  *)
(* the last one, and waits for its end as for any other.                    *)
CheckAgainIn(sec) ==
  \/ timer_left >= 0 /\ UNCHANGED clock
  \/ /\ timer_left <= 0
     /\ \E i \in Timers :
          /\ timer[i] = -1
          /\ timer' = [timer EXCEPT ![i] = sec]
     /\ timer_left' = sec

(* Does not wait for another check to end. *)
Mutant_Evaluate(t) ==
  /\ pc[t] = "check"
  /\ notifier' = t
  /\ last_somebody_present_result' = SomebodyPresent
  /\ Goto(t, IF SomebodyPresent = last_somebody_present_result THEN "warn" ELSE "notify")
  /\ IF ChecksAgain THEN CheckAgainIn(CardphoneWait) ELSE UNCHANGED clock
  /\ UNCHANGED <<doorState, last_warning, count_same_warning, doorThread, listener, doorIn, world,
                 news>>

(* checkPresenceStateChangeAndNotify, up to its first message. *)
Evaluate(t) ==
  /\ pc[t] = "check"
  /\ notifier = Nobody
  /\ notifier' = t
  /\ last_somebody_present_result' = SomebodyPresent
  /\ Goto(t, IF SomebodyPresent = last_somebody_present_result THEN "warn" ELSE "notify")
  /\ IF ChecksAgain THEN CheckAgainIn(CardphoneWait) ELSE UNCHANGED clock
  /\ UNCHANGED <<doorState, last_warning, count_same_warning, doorThread, listener, doorIn, world,
                 news>>

Notify(t) ==
  /\ pc[t] = "notify"
  /\ told' = [c \in Clients |-> IF c \in Reached THEN last_somebody_present_result ELSE told[c]]
  /\ behind' = IF SendFails THEN (behind \cup Listening) \ Reached ELSE behind \ Reached
  /\ IF SendFails
       THEN Throw(t) /\ notifier' = Nobody
       ELSE Goto(t, "warn") /\ UNCHANGED <<notifier, door_conn>>
  /\ UNCHANGED <<doorState, result, clock, last_who, listener, doorIn, world>>

PossibleWarning ==
  IF last_somebody_present_result THEN {}
  ELSE IF ~door_closed THEN {"door ajar"}
  ELSE IF door_unlocked /\ op_age >= MovementWait THEN {"door unlocked"}
  ELSE {}

(* Counts warnings up to the number from which they are no longer sent. *)
Warn(t) ==
  /\ pc[t] = "warn"
  /\ notifier' = Nobody
  /\ last_warning' = PossibleWarning
  /\ count_same_warning' = IF PossibleWarning # last_warning \/ PossibleWarning = {} THEN 0
                           ELSE IF count_same_warning < 3 THEN count_same_warning + 1 ELSE 3
  /\ IF PossibleWarning # {} /\ count_same_warning' < 3 /\ SendFails
       THEN Throw(t)
       ELSE Return(t) /\ UNCHANGED door_conn
  /\ IF ~last_somebody_present_result /\ door_unlocked /\ PossibleWarning = {}
       THEN CheckAgainIn(MovementWait)
       ELSE UNCHANGED clock
  /\ UNCHANGED <<doorState, last_somebody_present_result, last_who, listener, doorIn,
                 world, news>>

TimerFires(t) ==
  /\ timer[t] = 0 /\ pc[t] = "idle"
  /\ timer' = [timer EXCEPT ![t] = -1]
  /\ Goto(t, "check")
  /\ UNCHANGED <<doorState, result, notifier, timer_left, doorThread, listener, doorIn, world, news>>

Tick ==
  /\ op_age' = IF op_age < MovementWait THEN op_age + 1 ELSE op_age
  /\ timer' = [t \in Timers |-> IF timer[t] > 0 THEN timer[t] - 1 ELSE timer[t]]
  /\ timer_left' = IF timer_left >= 0 THEN timer_left - 1 ELSE -1
  /\ UNCHANGED <<pc, door_unlocked_previously, door_unlocked, door_closed,
                 door_manual_switch_used, door_physically_present, moved, result, notifier,
                 doorThread, listener, doorIn, world, news>>

-----------------------------------------------------------------------------
(* trackDoorStatusThread *)

(* Lines that were not read are lost; "status" is answered with a line. *)
Connect ==
  /\ pc["door"] = "connect"
  /\ door_conn' = {"up"}
  /\ last_who' = Nobody
  /\ doorIn' = <<Status(door.opened, TRUE, door.ajar)>>
  /\ Goto("door", "read")
  /\ UNCHANGED <<doorState, result, notifier, clock, listener, world, news>>

DoorLine ==
  /\ pc["door"] = "read" /\ doorIn # <<>>
  /\ doorIn' = Tail(doorIn)
  /\ LET line == Head(doorIn)
     IN \/ /\ SendFails
           /\ Throw("door")
           /\ UNCHANGED <<door_closed, last_who>>
        \/ /\ ~SendFails /\ line.kind = "request"
           /\ last_who' = line.who
           /\ UNCHANGED <<pc, door_closed, door_conn>>
        \/ /\ ~SendFails /\ line.kind = "status"
           /\ door_closed' = ~line.ajar
           /\ Goto("door", IF ~line.idle THEN "read" ELSE IF line.opened THEN "unlock" ELSE "lock")
           /\ UNCHANGED <<last_who, door_conn>>
  /\ UNCHANGED <<door_unlocked_previously, door_unlocked, door_manual_switch_used,
                 door_physically_present, op_age, moved, result, notifier, clock, listener, world,
                 news>>

DoorEof ==
  /\ pc["door"] = "read" /\ doorIn = <<>> /\ door_conn = {"eof"}
  /\ Throw("door")
  /\ UNCHANGED <<doorState, result, notifier, clock, last_who, listener, doorIn, world,
                 news>>

(* The second region. *)
Forget ==
  /\ pc["door"] = "forget"
  /\ door_conn' = {}
  /\ Goto("door", "connect")
  /\ UNCHANGED <<doorState, result, notifier, clock, last_who, listener, doorIn, world, news>>

(* doorUnlocked and doorLocked. *)
UpdateDoor ==
  /\ pc["door"] \in {"unlock", "lock"}
  /\ door_unlocked' = (pc["door"] = "unlock")
  /\ door_closed' = (pc["door"] = "unlock" \/ door_closed)
  /\ IF door_unlocked_previously # {door_unlocked'}
       THEN Goto("door", "who") /\ UNCHANGED last_who
       ELSE Goto("door", "read") /\ last_who' = Nobody
  /\ UNCHANGED <<door_unlocked_previously, door_manual_switch_used, door_physically_present,
                 op_age, moved, result, notifier, clock, door_conn, listener, doorIn,
                 world, news>>

(* updateWhoMightBeHere waits for a check to end. *)
UpdateWho ==
  /\ pc["door"] = "who"
  /\ notifier = Nobody
  /\ Goto("door", "how")
  /\ UNCHANGED <<doorState, result, notifier, clock, doorThread, listener, doorIn, world, news>>

UpdateHow ==
  /\ pc["door"] = "how"
  /\ door_manual_switch_used' = (last_who = Nobody)
  /\ door_physically_present' = (last_who # "Phone")
  /\ IF door_unlocked_previously # {}
       THEN op_age' = 0 /\ moved' = FALSE
       ELSE UNCHANGED <<op_age, moved>>
  /\ Goto("door", "check")
  /\ UNCHANGED <<door_unlocked_previously, door_unlocked, door_closed, result, notifier, clock,
                 doorThread, listener, doorIn, world, news>>

Remember ==
  /\ pc["door"] = "remember"
  /\ door_unlocked_previously' = {door_unlocked}
  /\ last_who' = Nobody
  /\ Goto("door", "read")
  /\ UNCHANGED <<door_unlocked, door_closed, door_manual_switch_used, door_physically_present,
                 op_age, moved, result, notifier, clock, door_conn, listener, doorIn,
                 world, news>>

-----------------------------------------------------------------------------
(* trackSensorStatusThread *)

(* movementDetected: notes the time and checks nothing. *)
Movement ==
  /\ pc["sensor"] = "read"
  /\ ~SendFails
  /\ moved' = TRUE
  /\ UNCHANGED <<pc, door_unlocked_previously, door_unlocked, door_closed,
                 door_manual_switch_used, door_physically_present, op_age, result, notifier,
                 clock, doorThread, listener, doorIn, world, news>>

(* Checks nothing either. *)
Mutant_LightLevel ==
  /\ pc["sensor"] = "read"
  /\ IF SendFails THEN Throw("sensor") ELSE UNCHANGED <<pc, door_conn>>
  /\ UNCHANGED <<doorState, result, notifier, clock, last_who, listener, doorIn, world,
                 news>>

LightLevel ==
  /\ pc["sensor"] = "read"
  /\ IF SendFails THEN Throw("sensor") ELSE Goto("sensor", "check") /\ UNCHANGED door_conn
  /\ UNCHANGED <<doorState, result, notifier, clock, last_who, listener, doorIn, world,
                 news>>

-----------------------------------------------------------------------------
(* ConnectionListener.serve, in the main thread: no exception is caught. *)

Accept(c) ==
  /\ pc["main"] = "select"
  /\ client[c] = "fresh"
  /\ client' = [client EXCEPT ![c] = "open"]
  /\ newsocketconn' = c
  /\ told' = [told EXCEPT ![c] = SomebodyPresent]
  /\ IF ChecksAgain THEN CheckAgainIn(CardphoneWait) ELSE UNCHANGED clock
  /\ Goto("main", "append")
  /\ UNCHANGED <<doorState, result, notifier, doorThread, client_sockets, doorIn, door, operations,
                 faults, behind>>

(* The first send to a client that has gone already. *)
AcceptThrows(c) ==
  /\ Fault
  /\ pc["main"] = "select"
  /\ client[c] = "fresh"
  /\ client' = [client EXCEPT ![c] = "gone"]
  /\ IF ChecksAgain THEN CheckAgainIn(CardphoneWait) ELSE UNCHANGED clock
  /\ Goto("main", "dead")
  /\ UNCHANGED <<doorState, result, notifier, doorThread, listener, doorIn, door, operations,
                 news>>

(* Asking for the door's status fails, too, while the connection is at its  *)
(* end or closed and not yet forgotten.                                     *)
AppendClient ==
  /\ pc["main"] = "append"
  /\ client_sockets' = Append(client_sockets, newsocketconn)
  /\ behind' = IF told[newsocketconn] = last_somebody_present_result THEN behind
               ELSE behind \cup {newsocketconn}
  /\ newsocketconn' = Nobody
  /\ doorIn' = IF door_conn = {"up"}
                 THEN Append(doorIn, Status(door.opened, TRUE, door.ajar))
                 ELSE doorIn
  /\ Goto("main", IF door_conn \in {{"eof"}, {"closed"}} THEN "dead" ELSE "select")
  /\ UNCHANGED <<doorState, result, notifier, clock, doorThread, world, told>>

Remove(c) ==
  /\ pc["main"] = "select"
  /\ client[c] = "gone"
  /\ \E i \in DOMAIN client_sockets :
       client_sockets[i] = c /\ client_sockets' = Without(client_sockets, i)
  /\ behind' = behind \ {c}
  /\ told' = [told EXCEPT ![c] = FALSE]
  /\ UNCHANGED <<pc, doorState, result, notifier, clock, doorThread, newsocketconn, doorIn, world>>

(* recv from a client that went with data unread. *)
RemoveThrows(c) ==
  /\ pc["main"] = "select"
  /\ c \in Listening /\ client[c] = "gone"
  /\ Goto("main", "dead")
  /\ UNCHANGED <<doorState, result, notifier, clock, doorThread, listener, doorIn, world, news>>

-----------------------------------------------------------------------------
(* The door, its daemon and the clients. *)

Says(lines) == doorIn' = IF door_conn = {"up"} THEN doorIn \o lines ELSE doorIn

AskForOperation ==
  /\ operations < MaxOperations
  /\ door.asked = Nobody
  /\ \E who \in Requesters :
       /\ door' = [door EXCEPT !.asked = who]
       /\ Says(<<Request(who)>>)
  /\ UNCHANGED <<pc, doorState, result, notifier, clock, doorThread, listener, operations, faults,
                 client, news>>

(* On request, or by hand. *)
Operate ==
  /\ operations < MaxOperations
  /\ operations' = operations + 1
  /\ door' = [door EXCEPT !.opened = ~@, !.asked = Nobody]
  /\ Says(<<Status(door.opened, FALSE, door.ajar), Status(~door.opened, TRUE, door.ajar)>>)
  /\ UNCHANGED <<pc, doorState, result, notifier, clock, doorThread, listener, faults, client, news>>

Swing ==
  /\ operations < MaxOperations
  /\ operations' = operations + 1
  /\ door' = [door EXCEPT !.ajar = ~@]
  /\ Says(<<Status(door.opened, TRUE, ~door.ajar)>>)
  /\ UNCHANGED <<pc, doorState, result, notifier, clock, doorThread, listener, faults, client, news>>

DaemonQuits ==
  /\ Fault
  /\ door_conn = {"up"}
  /\ door_conn' = {"eof"}
  /\ UNCHANGED <<pc, doorState, result, notifier, clock, last_who, listener, doorIn, door,
                 operations, client, news>>

ClientHangsUp(c) ==
  /\ Fault
  /\ client[c] = "open"
  /\ client' = [client EXCEPT ![c] = "gone"]
  /\ UNCHANGED <<pc, doorState, result, notifier, clock, doorThread, listener, doorIn, door,
                 operations, news>>

-----------------------------------------------------------------------------

Init ==
  /\ pc = [t \in Threads |-> CASE t \in Timers -> "idle" [] t = "main" -> "select"
                               [] t = "door" -> "connect" [] OTHER -> "read"]
  /\ door_unlocked_previously = {} /\ door_unlocked = FALSE /\ door_closed = TRUE
  /\ door_manual_switch_used = FALSE /\ door_physically_present = TRUE
  /\ op_age = MovementWait /\ moved = FALSE
  /\ last_somebody_present_result = FALSE /\ last_warning = {} /\ count_same_warning = 0
  /\ notifier = Nobody
  /\ timer = [t \in Timers |-> -1] /\ timer_left = -1
  /\ last_who = Nobody /\ door_conn = {}
  /\ client_sockets = <<>> /\ newsocketconn = Nobody
  /\ door \in [opened : BOOLEAN, ajar : BOOLEAN, asked : {Nobody}]
  /\ doorIn = <<>> /\ operations = 0 /\ faults = 0
  /\ client = [c \in Clients |-> "fresh"]
  /\ told = [c \in Clients |-> FALSE] /\ behind = {}

Check(t) == Evaluate(t) \/ Notify(t) \/ Warn(t)
DoorThread ==
  \/ Connect \/ DoorLine \/ DoorEof \/ Forget \/ UpdateDoor \/ UpdateWho \/ UpdateHow \/ Remember
MainThread ==
  \/ \E c \in Clients : Accept(c) \/ AcceptThrows(c) \/ Remove(c) \/ RemoveThrows(c)
  \/ AppendClient
World ==
  \/ AskForOperation \/ Operate \/ Swing \/ DaemonQuits
  \/ \E c \in Clients : ClientHangsUp(c)

Next ==
  \/ \E t \in Checkers : Check(t)
  \/ \E t \in Timers : TimerFires(t)
  \/ Tick
  \/ DoorThread \/ LightLevel \/ Movement \/ MainThread \/ World

Spec == Init /\ [][Next]_vars

(* Threads carry on, time passes and the sensors send light levels now and  *)
(* then; these come seconds apart, so whoever waits for                     *)
(* presence_notify_lock gets it between two of them.                        *)
FairSpec ==
  /\ Spec
  /\ WF_vars(DoorThread \/ Check("door")) /\ SF_vars(Evaluate("door") \/ UpdateWho)
  /\ WF_vars(LightLevel \/ Check("sensor")) /\ SF_vars(Evaluate("sensor"))
  /\ \A t \in Timers : WF_vars(TimerFires(t) \/ Check(t)) /\ SF_vars(Evaluate(t))
  /\ WF_vars(Tick) /\ WF_vars(MainThread)

-----------------------------------------------------------------------------

ThreadTypes ==
  /\ pc \in [Threads -> Labels]
  /\ \A t \in Timers : pc[t] \in {"idle", "check", "notify", "warn"}
  /\ pc["door"] \in Labels \ {"idle", "select", "append", "dead"}
  /\ pc["sensor"] \in {"read", "check", "notify", "warn"}
  /\ pc["main"] \in {"select", "append", "dead"}
  /\ \A t \in Checkers : pc[t] \in {"notify", "warn"} <=> notifier = t
  /\ notifier \in Checkers \cup {Nobody}

StateTypes ==
  /\ door_unlocked_previously \in {{}, {TRUE}, {FALSE}}
  /\ door_unlocked \in BOOLEAN /\ door_closed \in BOOLEAN
  /\ door_manual_switch_used \in BOOLEAN /\ door_physically_present \in BOOLEAN
  /\ moved \in BOOLEAN /\ last_somebody_present_result \in BOOLEAN
  /\ last_warning \in {{}, {"door ajar"}, {"door unlocked"}} /\ count_same_warning \in 0 .. 3
  /\ last_who \in Requesters \cup {Nobody} /\ door_conn \in {{}, {"up"}, {"eof"}, {"closed"}}
  /\ door \in [opened : BOOLEAN, ajar : BOOLEAN, asked : Requesters \cup {Nobody}]
  /\ doorIn \in Seq(Line)

ClockTypes ==
  /\ op_age \in 0 .. MovementWait
  /\ timer \in [Timers -> -1 .. MovementWait] /\ timer_left \in -1 .. MovementWait
  /\ operations \in 0 .. MaxOperations /\ faults \in 0 .. MaxFaults

ClientTypes ==
  /\ client_sockets \in Seq(Clients) /\ newsocketconn \in Clients \cup {Nobody}
  /\ client \in [Clients -> {"fresh", "open", "gone"}]
  /\ told \in [Clients -> BOOLEAN] /\ behind \subseteq Listening

(* Every variable keeps its type, and presence_notify_lock belongs to the   *)
(* thread inside checkPresenceStateChangeAndNotify, exceptions included.    *)
TypeOK == ThreadTypes /\ StateTypes /\ ClockTypes /\ ClientTypes

(* Outside a check every client was last told what the tracker holds to be  *)
(* true, except those a failed send or a late join left behind, however     *)
(* door thread, sensor thread and timers interleave (479-498, 539-571).     *)
ClientsAreCurrent ==
  notifier = Nobody => \A c \in Listening \ behind : told[c] = last_somebody_present_result

(* The timer that checkAgainIn counts on is there (399-408).                *)
ScheduledIsPending == timer_left > 0 => \E t \in Timers : timer[t] = timer_left

(* In the end the tracker knows whether the door is locked, and what it     *)
(* announced last is what it would answer now: a lost connection, a failed  *)
(* send, a check that came too early and a timer not started again are all  *)
(* made up for (214-282, 399-431, 479-498), as long as serve() survives.    *)
PresenceFollowsDoor ==
  []<>(pc["main"] = "dead")
    \/ <>[](door_unlocked = door.opened /\ last_somebody_present_result = SomebodyPresent)

(* track-presence.py:417: "door is ajar and unlocked then we are here for   *)
(* sure".  When all the door daemon said is worked off and the door is      *)
(* unlocked and ajar, the tracker holds somebody to be present.             *)
AjarAndUnlockedIsPresence ==
  pc["door"] = "read" /\ doorIn = <<>> /\ door_conn = {"up"} /\ door.opened /\ door.ajar
    => SomebodyPresent

=============================================================================
