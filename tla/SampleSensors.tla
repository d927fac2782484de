----------------------------- MODULE SampleSensors -----------------------------
(***************************************************************************)
(* sample_sensors (serial_console/sample_sensors.c): a client of the       *)
(* powersensordaemon that cuts what it receives into lines, counts         *)
(* movements, stores the last temperature, writes the count to a round     *)
(* robin database every sample_interval_s_ seconds and connects again when *)
(* the connection ends.                                                    *)
(*                                                                         *)
(* The words the program looks for are shortened: "movement" to "m" "v",   *)
(* "temp0: " to "t"; "x" is anything else.  Photo lines are treated like   *)
(* temperatures and left out.                                              *)
(*                                                                         *)
(* No result of a system(), an open() or a write() is looked at, so each   *)
(* may fail, and what it was to keep is then gone.                         *)
(***************************************************************************)
EXTENDS Integers, Sequences, FiniteSets

CONSTANTS
  BufferSize,       \* char buffer[1024]
  Interval,         \* sample_interval_s_
  ServerLines,      \* lines the daemon may send, each with its newline
  MaxLines,         \* bound: lines sent on a connection
  MaxDrops,         \* bound: times the daemon goes away
  MaxOpened         \* descriptors the process may open

EndOfLine == "\n"
Chars == {"m", "v", "t", "0", "1", "x", EndOfLine}
Empty == "empty"              \* a text file with nothing in it

ASSUME SampleAssumption ==
  /\ BufferSize \in Nat \ {0} /\ Interval \in Nat
  /\ ServerLines \subseteq Seq(Chars)
  /\ MaxLines \in Nat /\ MaxDrops \in Nat /\ MaxOpened \in Nat

VARIABLES
  stage,
  listening, connected,         \* the daemon is there; it still has this connection
  wire,                         \* sent by the daemon, not yet received
  buffer, movement_count,
  clock, curr_time,             \* seconds since last_sample_time, curr_time on this clock
  recorded, stored,             \* movements in the database, the temperature file
  lost, missed,                 \* movements of failed updates; the last store failed
  opened,                       \* descriptors never closed
  received, storedBefore,       \* history of the connection
  lineCount, drops              \* what the bounds count

local == <<buffer, movement_count, curr_time>>
remote == <<listening, connected, wire, lineCount, drops>>
outputs == <<recorded, stored, lost, missed>>
sampleVars == <<stage, remote, local, clock, outputs, opened, received, storedBefore>>

Newlines(s) == { n \in DOMAIN s : s[n] = EndOfLine }
FirstNewline(s) == CHOOSE n \in Newlines(s) : \A k \in Newlines(s) : n <= k

-----------------------------------------------------------------------------

(* establish_socket_connection: the descriptor of a failed connect() stays  *)
(* open, as does that of every connection that was shut down.               *)
Connect ==
  /\ stage = "connect"
  /\ \/ /\ opened < MaxOpened /\ listening
        /\ opened' = opened + 1
        /\ stage' = "greet" /\ connected' = TRUE
        /\ wire' = <<>> /\ received' = <<>> /\ lineCount' = 0
     \/ /\ opened = MaxOpened \/ ~listening
        /\ opened' = IF opened < MaxOpened THEN opened + 1 ELSE opened
        /\ stage' = "sleep"
        /\ UNCHANGED <<connected, wire, received, lineCount>>
  /\ UNCHANGED <<listening, drops, local, clock, outputs, storedBefore>>

(* The two "listen" lines; a daemon that is gone by then ends the program   *)
(* by SIGPIPE.                                                              *)
Greet ==
  /\ stage = "greet"
  /\ stage' = IF connected THEN "select" ELSE "killed"
  /\ buffer' = <<>> /\ movement_count' = 0 /\ clock' = 0 /\ curr_time' = 0
  /\ recorded' = 0 /\ lost' = 0 /\ missed' = FALSE /\ storedBefore' = stored
  /\ UNCHANGED <<remote, stored, opened, received>>

SelectReadable ==
  /\ stage = "select"
  /\ wire # <<>> \/ ~connected
  /\ stage' = "receive" /\ curr_time' = clock
  /\ UNCHANGED <<remote, buffer, movement_count, clock, outputs, opened, received, storedBefore>>

SelectIdle ==
  /\ stage = "select" /\ wire = <<>> /\ connected
  /\ stage' = "interval" /\ curr_time' = clock
  /\ UNCHANGED <<remote, buffer, movement_count, clock, outputs, opened, received, storedBefore>>

(* The whole buffer is offered, as if it were empty. *)
Mutant_Room == BufferSize

(* A byte is kept for a NUL. *)
Mutant_RoomForNul == BufferSize - Len(buffer) - 1

Room == BufferSize - Len(buffer)

(* recv() of as much as there is room for, which in a full buffer is        *)
(* nothing, like at the end of the connection.                              *)
Receive ==
  /\ stage = "receive"
  /\ IF wire = <<>> \/ Room = 0
       THEN /\ stage' = "sleep"
            /\ UNCHANGED <<wire, buffer, received>>
       ELSE \E n \in 1 .. Len(wire) :
              /\ n <= Room
              /\ buffer' = buffer \o SubSeq(wire, 1, n)
              /\ received' = received \o SubSeq(wire, 1, n)
              /\ wire' = SubSeq(wire, n + 1, Len(wire))
              /\ stage' = "lines"
  /\ UNCHANGED <<listening, connected, lineCount, drops, movement_count, clock, curr_time, outputs,
                 opened, storedBefore>>

(* collect_data on a line without its newline. *)
IsMovement(line) == Len(line) >= 2 /\ line[1] = "m" /\ line[2] = "v"
IsTemperature(line) == Len(line) >= 1 /\ line[1] = "t"
Temperature(line) == IF Len(line) >= 2 THEN line[2] ELSE "0"

(* What follows the first line is given up. *)
Mutant_Rest(s) == <<>>

Rest(s) == SubSeq(s, FirstNewline(s) + 1, Len(s))

(* The file is emptied by open(), so that a failed write() leaves nothing;  *)
(* a failed open() gives -1, which passes "if (fd)", and changes nothing.   *)
Store(value) ==
  \/ opened < MaxOpened /\ stored' = value /\ missed' = FALSE
  \/ opened < MaxOpened /\ stored' = Empty /\ missed' = TRUE
  \/ stored' = stored /\ missed' = TRUE

CollectLine ==
  /\ stage = "lines" /\ Newlines(buffer) # {}
  /\ LET line == SubSeq(buffer, 1, FirstNewline(buffer) - 1)
     IN /\ movement_count' = movement_count + (IF IsMovement(line) THEN 1 ELSE 0)
        /\ \/ IsTemperature(line) /\ Store(Temperature(line))
           \/ ~IsTemperature(line) /\ UNCHANGED <<stored, missed>>
  /\ buffer' = Rest(buffer)
  /\ UNCHANGED <<stage, remote, clock, curr_time, recorded, lost, opened, received, storedBefore>>

LinesDone ==
  /\ stage = "lines" /\ Newlines(buffer) = {}
  /\ stage' = "interval"
  /\ UNCHANGED <<remote, local, clock, outputs, opened, received, storedBefore>>

(* rrdtool update, once more than sample_interval_s_ seconds have passed.   *)
(* The count starts anew whether it succeeded or not.                       *)
Record ==
  /\ stage = "interval"
  /\ IF curr_time > Interval
       THEN /\ \/ recorded' = recorded + movement_count /\ lost' = lost
               \/ recorded' = recorded /\ lost' = lost + movement_count
            /\ movement_count' = 0 /\ clock' = clock - curr_time
       ELSE UNCHANGED <<recorded, lost, movement_count, clock>>
  /\ stage' = "select" /\ curr_time' = 0
  /\ UNCHANGED <<remote, buffer, stored, missed, opened, received, storedBefore>>

(* shutdown() and two seconds of sleep. *)
Retry ==
  /\ stage = "sleep"
  /\ stage' = "connect"
  /\ UNCHANGED <<remote, local, clock, outputs, opened, received, storedBefore>>

SampleStep ==
  \/ Connect \/ Greet \/ SelectReadable \/ SelectIdle \/ Receive \/ CollectLine \/ LinesDone
  \/ Record \/ Retry

-----------------------------------------------------------------------------
(* The daemon and time. *)

Say ==
  /\ connected /\ lineCount < MaxLines
  /\ \E line \in ServerLines : wire' = wire \o line
  /\ lineCount' = lineCount + 1
  /\ UNCHANGED <<stage, listening, connected, drops, local, clock, outputs, opened, received,
                 storedBefore>>

Drop ==
  /\ listening /\ drops < MaxDrops
  /\ listening' = FALSE /\ connected' = FALSE /\ drops' = drops + 1
  /\ UNCHANGED <<stage, wire, lineCount, local, clock, outputs, opened, received, storedBefore>>

Return ==
  /\ ~listening /\ listening' = TRUE
  /\ UNCHANGED <<stage, connected, wire, lineCount, drops, local, clock, outputs, opened, received,
                 storedBefore>>

Second ==
  /\ clock < Interval + 2
  /\ clock' = clock + 1
  /\ UNCHANGED <<stage, remote, local, outputs, opened, received, storedBefore>>

SampleInit ==
  /\ stage = "connect"
  /\ listening \in BOOLEAN /\ connected = FALSE
  /\ wire = <<>> /\ lineCount = 0 /\ drops = 0
  /\ buffer = <<>> /\ movement_count = 0 /\ clock = 0 /\ curr_time = 0
  /\ recorded = 0 /\ lost = 0 /\ stored = "0" /\ storedBefore = "0" /\ missed = FALSE
  /\ opened = 0 /\ received = <<>>

SampleKilled == stage = "killed" /\ UNCHANGED sampleVars

SampleNext == SampleStep \/ SampleKilled \/ Say \/ Drop \/ Return \/ Second

-----------------------------------------------------------------------------
(* Properties. *)

(* Every variable keeps its type, and the buffer its size. *)
SampleTypeOK ==
  /\ stage \in {"connect", "greet", "select", "receive", "lines", "interval", "sleep", "killed"}
  /\ listening \in BOOLEAN /\ connected \in BOOLEAN
  /\ wire \in Seq(Chars) /\ received \in Seq(Chars)
  /\ buffer \in Seq(Chars) /\ Len(buffer) <= BufferSize
  /\ movement_count \in Nat /\ clock \in 0 .. Interval + 2 /\ curr_time \in 0 .. Interval + 2
  /\ recorded \in Nat /\ lost \in Nat /\ missed \in BOOLEAN
  /\ stored \in Chars \cup {Empty} /\ storedBefore \in Chars \cup {Empty}
  /\ opened \in 0 .. MaxOpened

(* What the lines received so far say, wherever the stream was cut. *)
LinesOf(s) == { l \in (DOMAIN s) \X (DOMAIN s) :
                  /\ l[1] <= l[2] /\ s[l[2]] = EndOfLine
                  /\ l[1] = 1 \/ s[l[1] - 1] = EndOfLine
                  /\ \A n \in l[1] .. l[2] - 1 : s[n] # EndOfLine }
TextOf(s, l) == SubSeq(s, l[1], l[2] - 1)

LastOf(ls) == { l \in ls : \A k \in ls : k[2] <= l[2] }

(* However the stream is cut into pieces, each movement of the connection   *)
(* is counted once: it is in the database, or it went with an update that   *)
(* failed, or it is still in movement_count; and the file holds the last    *)
(* temperature, unless storing that failed, when the file is empty or still *)
(* holds an earlier one (sample_sensors.c:44-56, 95-145).                   *)
SamplesWhatWasSaid ==
  stage \in {"select", "interval"} =>
    /\ recorded + lost + movement_count =
         Cardinality({ l \in LinesOf(received) : IsMovement(TextOf(received, l)) })
    /\ LET temperatures == { l \in LinesOf(received) : IsTemperature(TextOf(received, l)) }
       IN /\ ~missed =>
               IF temperatures = {} THEN stored = storedBefore
               ELSE \A l \in LastOf(temperatures) : stored = Temperature(TextOf(received, l))
          /\ \/ stored \in {Empty, storedBefore}
             \/ \E l \in temperatures : stored = Temperature(TextOf(received, l))

(* A connection is only given up when the daemon has closed it or sent a    *)
(* line that does not fit the buffer (sample_sensors.c:98-104).             *)
KeepsConnection ==
  [][ stage = "receive" /\ stage' = "sleep" =>
        \/ ~connected /\ wire = <<>>
        \/ \E n \in DOMAIN (received \o wire) :
             /\ n + BufferSize - 1 \in DOMAIN (received \o wire)
             /\ \A k \in n .. n + BufferSize - 1 : (received \o wire)[k] # EndOfLine ]_sampleVars

=============================================================================
