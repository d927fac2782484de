------------------------------ MODULE ConfigLock ------------------------------
(***************************************************************************)
(* The readers-writer lock of class UWSConfig (track-presence.py; sshtest  *)
(* has a copy): threads read options while some of them also look for a    *)
(* newer configuration file and parse it.                                  *)
(*                                                                         *)
(* Each method holds self.lock from its first to its last line except      *)
(* while it waits for a condition, so it is one step up to a wait() and    *)
(* one step after it.  notifyAll() wakes who waits; who wakes looks at the *)
(* condition again.  Writing a first configuration file happens before     *)
(* there are threads and is left out.                                      *)
(*                                                                         *)
(* overlapped is history.  Mutant_X is a broken variant of X, unused here. *)
(***************************************************************************)
EXTENDS Integers, FiniteSets

CONSTANTS
  Threads,
  Updaters,        \* the threads that call checkConfigUpdates
  FileMayVanish,   \* whether the file may be removed
  MaxChanges       \* bound: times the file is changed

ASSUME ThreadAssumption == IsFiniteSet(Threads) /\ Updaters \subseteq Threads
ASSUME FileAssumption == FileMayVanish \in BOOLEAN /\ MaxChanges \in Nat

VARIABLES
  pc,
  currently_reading, currently_writing,
  waitingReaders,    \* threads in finished_writing.wait()
  waitingWriters,    \* threads in finished_reading.wait()
  config_mtime,
  file,              \* the file: its time, whether it can be parsed, whether it is there
  overlapped         \* history: two threads were writing since nobody was

lock == <<currently_reading, currently_writing, waitingReaders, waitingWriters>>
vars == <<pc, lock, config_mtime, file, overlapped>>

Goto(t, l) == pc' = [pc EXCEPT ![t] = l]

Reading == {t \in Threads : pc[t] = "reading"}
Parsing == {t \in Threads : pc[t] \in {"parsing", "parsed"}}
Writers == {t \in Threads : pc[t] \in {"draining", "parsing", "parsed", "written"}}

-----------------------------------------------------------------------------

AwaitWriter(t) ==
  IF currently_writing
    THEN /\ waitingReaders' = waitingReaders \cup {t}
         /\ Goto(t, "blocked")
         /\ UNCHANGED currently_reading
    ELSE /\ currently_reading' = currently_reading + 1
         /\ Goto(t, "reading")
         /\ UNCHANGED waitingReaders

(* __getattr__ of any thread, and checkConfigUpdates after an update. *)
GuardReading(t) ==
  /\ pc[t] \in {"idle", "updated"}
  /\ AwaitWriter(t)
  /\ UNCHANGED <<currently_writing, waitingWriters, config_mtime, file, overlapped>>

ReaderWakes(t) ==
  /\ pc[t] = "blocked" /\ t \notin waitingReaders
  /\ AwaitWriter(t)
  /\ UNCHANGED <<currently_writing, waitingWriters, config_mtime, file, overlapped>>

UnguardReading(t) ==
  /\ pc[t] = "reading"
  /\ currently_reading' = currently_reading - 1
  /\ waitingWriters' = {}
  /\ Goto(t, "idle")
  /\ UNCHANGED <<currently_writing, waitingReaders, config_mtime, file, overlapped>>

CheckConfigUpdates(t) ==
  /\ t \in Updaters /\ pc[t] = "idle"
  /\ file.there /\ config_mtime < file.mtime
  /\ Goto(t, "outdated")
  /\ UNCHANGED <<lock, config_mtime, file, overlapped>>

AwaitReaders(t) ==
  IF currently_reading > 0
    THEN waitingWriters' = waitingWriters \cup {t} /\ Goto(t, "draining")
    ELSE Goto(t, "parsing") /\ UNCHANGED waitingWriters

(* Lets readers in while it waits for them. *)
Mutant_GuardWriting(t) ==
  /\ pc[t] = "outdated"
  /\ currently_writing' = (currently_reading = 0)
  /\ AwaitReaders(t)
  /\ overlapped' = (overlapped \/ Writers # {})
  /\ UNCHANGED <<currently_reading, waitingReaders, config_mtime, file>>

GuardWriting(t) ==
  /\ pc[t] = "outdated"
  /\ currently_writing' = TRUE
  /\ AwaitReaders(t)
  /\ overlapped' = (overlapped \/ Writers # {})
  /\ UNCHANGED <<currently_reading, waitingReaders, config_mtime, file>>

WriterWakes(t) ==
  /\ pc[t] = "draining" /\ t \notin waitingWriters
  /\ AwaitReaders(t)
  /\ UNCHANGED <<currently_reading, currently_writing, waitingReaders, config_mtime, file,
                 overlapped>>

(* config_parser.read: skips a file that is not there, throws on one it     *)
(* cannot parse, which ends the update without a new config_mtime.          *)
Parse(t) ==
  /\ pc[t] = "parsing"
  /\ Goto(t, IF file.there /\ file.broken THEN "written" ELSE "parsed")
  /\ UNCHANGED <<lock, config_mtime, file, overlapped>>

TakeMtime(t) ==
  /\ pc[t] = "parsed" /\ file.there
  /\ config_mtime' = file.mtime
  /\ Goto(t, "written")
  /\ UNCHANGED <<lock, file, overlapped>>

(* os.path.getmtime throws an OSError nobody expects here: the thread ends  *)
(* or starts over, and nobody calls unguardWriting.                         *)
MtimeThrows(t) ==
  /\ pc[t] = "parsed" /\ ~file.there
  /\ Goto(t, "idle") \/ Goto(t, "dead")
  /\ overlapped' = (overlapped /\ Writers # {t})
  /\ UNCHANGED <<lock, config_mtime, file>>

(* Wakes nobody. *)
Mutant_UnguardWriting(t) ==
  /\ pc[t] = "written"
  /\ currently_writing' = FALSE
  /\ Goto(t, "updated")
  /\ overlapped' = (overlapped /\ Writers # {t})
  /\ UNCHANGED <<currently_reading, waitingReaders, waitingWriters, config_mtime, file>>

UnguardWriting(t) ==
  /\ pc[t] = "written"
  /\ currently_writing' = FALSE
  /\ waitingReaders' = {}
  /\ Goto(t, "updated")
  /\ overlapped' = (overlapped /\ Writers # {t})
  /\ UNCHANGED <<currently_reading, waitingWriters, config_mtime, file>>

-----------------------------------------------------------------------------

(* Somebody edits the configuration. *)
FileChanges ==
  /\ file.mtime < MaxChanges
  /\ \E broken \in BOOLEAN :
       file' = [mtime |-> file.mtime + 1, broken |-> broken, there |-> TRUE]
  /\ UNCHANGED <<pc, lock, config_mtime, overlapped>>

FileVanishes ==
  /\ FileMayVanish /\ file.there
  /\ file' = [file EXCEPT !.there = FALSE]
  /\ UNCHANGED <<pc, lock, config_mtime, overlapped>>

Init ==
  /\ pc = [t \in Threads |-> "idle"]
  /\ currently_reading = 0 /\ currently_writing = FALSE
  /\ waitingReaders = {} /\ waitingWriters = {}
  /\ config_mtime = 0
  /\ file = [mtime |-> 0, broken |-> FALSE, there |-> TRUE]
  /\ overlapped = FALSE

Proceed(t) ==
  \/ ReaderWakes(t) \/ UnguardReading(t)
  \/ GuardWriting(t) \/ WriterWakes(t) \/ Parse(t) \/ TakeMtime(t) \/ MtimeThrows(t)
  \/ UnguardWriting(t)

Next ==
  \/ \E t \in Threads : GuardReading(t) \/ CheckConfigUpdates(t) \/ Proceed(t)
  \/ FileChanges \/ FileVanishes

Spec == Init /\ [][Next]_vars

(* Threads carry on inside the class.  Updates are seconds apart, so a      *)
(* reader that was woken gets the lock before the next one; nobody is       *)
(* obliged to read or to look for updates.                                  *)
FairSpec ==
  /\ Spec
  /\ \A t \in Threads : /\ WF_vars(Proceed(t))
                        /\ SF_vars(ReaderWakes(t) /\ ~currently_writing)
                        /\ WF_vars(pc[t] = "updated" /\ GuardReading(t))

-----------------------------------------------------------------------------

(* Every variable keeps its type, and currently_reading counts the readers. *)
TypeOK ==
  /\ pc \in [Threads -> {"idle", "blocked", "reading", "outdated", "draining", "parsing",
                         "parsed", "written", "updated", "dead"}]
  /\ currently_reading = Cardinality(Reading)
  /\ currently_writing \in BOOLEAN
  /\ waitingReaders \subseteq {t \in Threads : pc[t] = "blocked"}
  /\ waitingWriters \subseteq {t \in Threads : pc[t] = "draining"}
  /\ config_mtime \in Nat
  /\ file \in [mtime : Nat, broken : BOOLEAN, there : BOOLEAN]
  /\ overlapped \in BOOLEAN

(* A thread waits only while what it waits for is still to come: no         *)
(* notifyAll is missed, even with two writers at once (70-90).              *)
NoMissedWakeup ==
  /\ waitingReaders # {} => currently_writing
  /\ waitingWriters # {} => currently_reading > 0

(* Nobody reads options while a thread parses the file, as long as no       *)
(* second thread started to write meanwhile: guardWriting does not exclude  *)
(* other writers, and the first one to leave lets the readers in (70-90).   *)
ParsedAlone == ~overlapped => Parsing = {} \/ Reading = {}

(* Who wants to read an option gets it, and readers cannot keep a writer out *)
(* that is alone, unless the file is removed: see MtimeThrows (70-90).       *)
EveryoneGetsIn ==
  (\A t \in Threads : /\ pc[t] = "blocked" ~> pc[t] = "reading"
                      /\ pc[t] = "draining" ~> pc[t] = "parsing" \/ overlapped)
    \/ <>~file.there

=============================================================================
