---------------------------- MODULE ConfigLock_proofs ----------------------------
(***************************************************************************)
(* Theorems about ConfigLock, for any number of threads and updaters.      *)
(***************************************************************************)
EXTENDS ConfigLock, TLAPS, FiniteSetTheorems

Labels == {"idle", "blocked", "reading", "outdated", "draining", "parsing",
           "parsed", "written", "updated", "dead"}

LEMMA ReadersAreFinite ==
  /\ IsFiniteSet(Reading)
  /\ Cardinality(Reading) \in Nat
  /\ Cardinality(Reading) = 0 <=> Reading = {}
<1>1. IsFiniteSet(Reading)
  BY ThreadAssumption, FS_Subset DEF Reading
<1> QED
  BY <1>1, FS_CardinalityType, FS_EmptySet

(* What a thread's new label does to the set of readers.                    *)
LEMMA ReaderComes ==
  ASSUME TypeOK, NEW t \in Threads, pc[t] # "reading", Goto(t, "reading")
  PROVE  /\ Reading' = Reading \cup {t}
         /\ Cardinality(Reading') = Cardinality(Reading) + 1
<1>1. Reading' = Reading \cup {t} /\ t \notin Reading
  BY DEF TypeOK, Goto, Reading
<1> QED
  BY <1>1, ReadersAreFinite, FS_AddElement

LEMMA ReaderLeaves ==
  ASSUME TypeOK, NEW t \in Threads, pc[t] = "reading", Goto(t, "idle")
  PROVE  /\ Reading' = Reading \ {t}
         /\ Cardinality(Reading') = Cardinality(Reading) - 1
<1>1. Reading' = Reading \ {t} /\ t \in Reading
  BY DEF TypeOK, Goto, Reading
<1> QED
  BY <1>1, ReadersAreFinite, FS_RemoveElement

LEMMA OthersMove ==
  ASSUME TypeOK, NEW t \in Threads, pc[t] # "reading",
         NEW l \in Labels \ {"reading"}, Goto(t, l)
  PROVE  Reading' = Reading
  BY DEF TypeOK, Goto, Reading

-----------------------------------------------------------------------------

(* No writer is alone with a reader while it parses: it is the only one, it *)
(* has currently_writing set, and it drained the readers first.             *)
WriterInv ==
  ~overlapped => /\ \A t, u \in Writers : t = u
                 /\ Writers # {} => currently_writing
                 /\ Parsing # {} => Reading = {}

IInv == TypeOK /\ NoMissedWakeup /\ WriterInv

(* A reader comes or waits.                                                 *)
LEMMA AwaitWriterStep ==
  ASSUME IInv, NEW t \in Threads, pc[t] \in {"idle", "updated", "blocked"},
         t \notin waitingReaders, AwaitWriter(t),
         UNCHANGED <<currently_writing, waitingWriters, config_mtime, file, overlapped>>
  PROVE  IInv'
<1>1. CASE currently_writing
  <2>1. Goto(t, "blocked") /\ waitingReaders' = waitingReaders \cup {t}
        /\ currently_reading' = currently_reading
    BY <1>1 DEF AwaitWriter
  <2>2. Reading' = Reading
    BY <2>1, OthersMove DEF IInv, Labels
  <2>3. TypeOK'
    BY <2>1, <2>2 DEF IInv, TypeOK, Goto
  <2>4. NoMissedWakeup'
    BY <1>1, <2>1 DEF IInv, NoMissedWakeup
  <2>5. Writers' = Writers /\ Parsing' = Parsing
    BY <2>1 DEF IInv, TypeOK, Goto, Writers, Parsing
  <2> QED
    BY <2>2, <2>3, <2>4, <2>5 DEF IInv, WriterInv
<1>2. CASE ~currently_writing
  <2>1. Goto(t, "reading") /\ waitingReaders' = waitingReaders
        /\ currently_reading' = currently_reading + 1
    BY <1>2 DEF AwaitWriter
  <2>2. Cardinality(Reading') = Cardinality(Reading) + 1 /\ Cardinality(Reading) \in Nat
    BY <2>1, ReaderComes, ReadersAreFinite DEF IInv
  <2>3. TypeOK'
    BY <2>1, <2>2 DEF IInv, TypeOK, Goto
  <2>4. NoMissedWakeup'
    BY <1>2, <2>1, <2>2 DEF IInv, NoMissedWakeup, TypeOK
  <2>5. Writers' = Writers /\ Parsing' = Parsing /\ Parsing \subseteq Writers
    BY <2>1 DEF IInv, TypeOK, Goto, Writers, Parsing
  <2>6. WriterInv'
    BY <1>2, <2>5 DEF IInv, WriterInv
  <2> QED
    BY <2>3, <2>4, <2>6 DEF IInv
<1> QED
  BY <1>1, <1>2 DEF IInv, TypeOK

(* A writer may parse, or waits for the readers.                            *)
LEMMA AwaitReadersStep ==
  ASSUME IInv, NEW t \in Threads, pc[t] \in {"outdated", "draining"}, t \notin waitingWriters,
         AwaitReaders(t), currently_writing', overlapped' \in BOOLEAN,
         ~overlapped' => ~overlapped /\ Writers \subseteq {t},
         UNCHANGED <<currently_reading, waitingReaders, config_mtime, file>>
  PROVE  IInv'
<1>1. PICK l \in {"draining", "parsing"} : Goto(t, l)
  BY DEF AwaitReaders
<1>2. Reading' = Reading
  BY <1>1, OthersMove DEF Labels, IInv
<1>3. waitingWriters' \subseteq {u \in Threads : pc'[u] = "draining"}
  BY DEF IInv, TypeOK, AwaitReaders, Goto
<1>4. TypeOK'
  BY <1>1, <1>2, <1>3 DEF IInv, TypeOK, Goto
<1>5. NoMissedWakeup'
  BY DEF IInv, NoMissedWakeup, AwaitReaders
<1>6. WriterInv'
  <2> SUFFICES ASSUME ~overlapped' PROVE /\ \A u, v \in Writers' : u = v
                                         /\ Parsing' # {} => Reading' = {}
    BY DEF WriterInv
  <2>1. Writers \subseteq {t}
    OBVIOUS
  <2>2. Writers' \subseteq {t}
    BY <1>1, <2>1 DEF IInv, TypeOK, Goto, Writers
  <2>3. Parsing' # {} => pc'[t] = "parsing"
    BY <1>1, <2>1 DEF IInv, TypeOK, Goto, Writers, Parsing
  <2>4. pc'[t] = "parsing" => Reading = {}
    BY ReadersAreFinite DEF IInv, TypeOK, AwaitReaders, Goto
  <2> QED
    BY <1>2, <2>2, <2>3, <2>4
<1> QED
  BY <1>4, <1>5, <1>6 DEF IInv

LEMMA Invariance == IInv /\ [Next]_vars => IInv'
<1> SUFFICES ASSUME IInv, [Next]_vars PROVE IInv'
  OBVIOUS
<1> USE DEF vars, lock
<1>1. ASSUME NEW t \in Threads, GuardReading(t) PROVE IInv'
  BY <1>1, AwaitWriterStep DEF GuardReading, IInv, TypeOK
<1>2. ASSUME NEW t \in Threads, ReaderWakes(t) PROVE IInv'
  BY <1>2, AwaitWriterStep DEF ReaderWakes
<1>3. ASSUME NEW t \in Threads, UnguardReading(t) PROVE IInv'
  <2>1. /\ Reading' = Reading \ {t}
        /\ Cardinality(Reading') = Cardinality(Reading) - 1
    BY <1>3, ReaderLeaves DEF UnguardReading, IInv
  <2>2. Writers' = Writers /\ Parsing' = Parsing
    BY <1>3 DEF UnguardReading, IInv, TypeOK, Goto, Writers, Parsing
  <2>3. TypeOK'
    BY <1>3, <2>1 DEF UnguardReading, IInv, TypeOK, Goto
  <2>4. NoMissedWakeup'
    BY <1>3 DEF UnguardReading, IInv, NoMissedWakeup
  <2>5. WriterInv'
    BY <1>3, <2>1, <2>2 DEF UnguardReading, IInv, WriterInv
  <2> QED
    BY <2>3, <2>4, <2>5 DEF IInv
<1>4. ASSUME NEW t \in Threads, CheckConfigUpdates(t) PROVE IInv'
  <2>1. Reading' = Reading
    BY <1>4, OthersMove DEF CheckConfigUpdates, IInv, Labels
  <2>2. Writers' = Writers /\ Parsing' = Parsing
    BY <1>4 DEF CheckConfigUpdates, IInv, TypeOK, Goto, Writers, Parsing
  <2>3. TypeOK'
    BY <1>4, <2>1 DEF CheckConfigUpdates, IInv, TypeOK, Goto
  <2> QED
    BY <1>4, <2>1, <2>2, <2>3 DEF CheckConfigUpdates, IInv, NoMissedWakeup, WriterInv
<1>5. ASSUME NEW t \in Threads, GuardWriting(t) PROVE IInv'
  <2>1. ~overlapped' => ~overlapped /\ Writers \subseteq {t}
    BY <1>5 DEF GuardWriting
  <2>2. overlapped' \in BOOLEAN
    BY <1>5 DEF GuardWriting
  <2>3. t \notin waitingWriters
    BY <1>5 DEF GuardWriting, IInv, TypeOK
  <2> QED
    BY <1>5, <2>1, <2>2, <2>3, AwaitReadersStep DEF GuardWriting
<1>6. ASSUME NEW t \in Threads, WriterWakes(t) PROVE IInv'
  <2>1. CASE overlapped
    <3>1. PICK l \in {"draining", "parsing"} : Goto(t, l)
      BY <1>6 DEF WriterWakes, AwaitReaders
    <3>2. Reading' = Reading
      BY <1>6, <3>1, OthersMove DEF WriterWakes, IInv, Labels
    <3>3. waitingWriters' \subseteq {u \in Threads : pc'[u] = "draining"}
      BY <1>6 DEF IInv, TypeOK, WriterWakes, AwaitReaders, Goto
    <3>4. TypeOK'
      BY <1>6, <3>1, <3>2, <3>3 DEF WriterWakes, IInv, TypeOK, Goto
    <3>5. NoMissedWakeup'
      BY <1>6 DEF WriterWakes, IInv, NoMissedWakeup, AwaitReaders
    <3> QED
      BY <1>6, <2>1, <3>4, <3>5 DEF WriterWakes, IInv, WriterInv
  <2>2. CASE ~overlapped
    <3>1. t \in Writers
      BY <1>6 DEF WriterWakes, Writers
    <3>2. Writers \subseteq {t} /\ currently_writing
      BY <2>2, <3>1 DEF IInv, WriterInv
    <3>3. overlapped' \in BOOLEAN /\ currently_writing'
      BY <1>6, <3>2 DEF WriterWakes, IInv, TypeOK
    <3> QED
      BY <1>6, <2>2, <3>2, <3>3, AwaitReadersStep DEF WriterWakes
  <2> QED
    BY <2>1, <2>2
<1>7. ASSUME NEW t \in Threads, Parse(t) PROVE IInv'
  <2>1. PICK l \in {"written", "parsed"} : Goto(t, l)
    BY <1>7 DEF Parse
  <2>2. Reading' = Reading
    BY <1>7, <2>1, OthersMove DEF Parse, IInv, Labels
  <2>3. Writers' = Writers /\ Parsing' \subseteq Parsing
    BY <1>7, <2>1 DEF Parse, IInv, TypeOK, Goto, Writers, Parsing
  <2>4. TypeOK'
    BY <1>7, <2>1, <2>2 DEF Parse, IInv, TypeOK, Goto
  <2> QED
    BY <1>7, <2>2, <2>3, <2>4 DEF Parse, IInv, NoMissedWakeup, WriterInv
<1>8. ASSUME NEW t \in Threads, TakeMtime(t) PROVE IInv'
  <2>1. Reading' = Reading
    BY <1>8, OthersMove DEF TakeMtime, IInv, Labels
  <2>2. Writers' = Writers /\ Parsing' \subseteq Parsing
    BY <1>8 DEF TakeMtime, IInv, TypeOK, Goto, Writers, Parsing
  <2>3. TypeOK'
    BY <1>8, <2>1 DEF TakeMtime, IInv, TypeOK, Goto
  <2> QED
    BY <1>8, <2>1, <2>2, <2>3 DEF TakeMtime, IInv, NoMissedWakeup, WriterInv
<1>9. ASSUME NEW t \in Threads, MtimeThrows(t) PROVE IInv'
  <2>1. PICK l \in {"idle", "dead"} : Goto(t, l)
    BY <1>9 DEF MtimeThrows
  <2>2. Reading' = Reading
    BY <1>9, <2>1, OthersMove DEF MtimeThrows, IInv, Labels
  <2>3. Writers' = Writers \ {t} /\ Parsing' \subseteq Parsing /\ Parsing' \subseteq Writers'
    BY <1>9, <2>1 DEF MtimeThrows, IInv, TypeOK, Goto, Writers, Parsing
  <2>4. TypeOK'
    <3>1. overlapped' \in BOOLEAN
      BY <1>9 DEF MtimeThrows
    <3> QED
      BY <1>9, <2>1, <2>2, <3>1 DEF MtimeThrows, IInv, TypeOK, Goto
  <2>5. WriterInv'
    BY <1>9, <2>2, <2>3 DEF MtimeThrows, IInv, WriterInv
  <2> QED
    BY <1>9, <2>4, <2>5 DEF MtimeThrows, IInv, NoMissedWakeup
<1>10. ASSUME NEW t \in Threads, UnguardWriting(t) PROVE IInv'
  <2>1. Reading' = Reading
    BY <1>10, OthersMove DEF UnguardWriting, IInv, Labels
  <2>2. Writers' = Writers \ {t} /\ Parsing' \subseteq Parsing /\ Parsing' \subseteq Writers'
        /\ t \in Writers
    BY <1>10 DEF UnguardWriting, IInv, TypeOK, Goto, Writers, Parsing
  <2>3. TypeOK'
    <3>1. overlapped' \in BOOLEAN /\ currently_writing' \in BOOLEAN /\ waitingReaders' = {}
      BY <1>10 DEF UnguardWriting
    <3> QED
      BY <1>10, <2>1, <3>1 DEF UnguardWriting, IInv, TypeOK, Goto
  <2>4. ~overlapped' => Writers' = {}
    BY <1>10, <2>2 DEF UnguardWriting, IInv, WriterInv
  <2>5. WriterInv'
    BY <2>2, <2>4 DEF WriterInv
  <2>6. NoMissedWakeup'
    BY <1>10 DEF UnguardWriting, IInv, NoMissedWakeup
  <2> QED
    BY <2>3, <2>5, <2>6 DEF IInv
<1>11. CASE FileChanges
  <2>1. PICK broken \in BOOLEAN :
          file' = [mtime |-> file.mtime + 1, broken |-> broken, there |-> TRUE]
    BY <1>11 DEF FileChanges
  <2>2. file' \in [mtime : Nat, broken : BOOLEAN, there : BOOLEAN]
    BY <2>1 DEF IInv, TypeOK
  <2>3. Reading' = Reading /\ Writers' = Writers /\ Parsing' = Parsing
    BY <1>11 DEF FileChanges, Reading, Writers, Parsing
  <2> QED
    BY <1>11, <2>2, <2>3 DEF FileChanges, IInv, TypeOK, NoMissedWakeup, WriterInv
<1>12. CASE FileVanishes
  <2>1. file' \in [mtime : Nat, broken : BOOLEAN, there : BOOLEAN]
    BY <1>12 DEF FileVanishes, IInv, TypeOK
  <2>2. Reading' = Reading /\ Writers' = Writers /\ Parsing' = Parsing
    BY <1>12 DEF FileVanishes, Reading, Writers, Parsing
  <2> QED
    BY <1>12, <2>1, <2>2 DEF FileVanishes, IInv, TypeOK, NoMissedWakeup, WriterInv
<1>13. CASE UNCHANGED vars
  <2>1. Reading' = Reading /\ Writers' = Writers /\ Parsing' = Parsing
    BY <1>13 DEF Reading, Writers, Parsing
  <2> QED
    BY <1>13, <2>1 DEF IInv, TypeOK, NoMissedWakeup, WriterInv
<1> QED
  BY <1>1, <1>2, <1>3, <1>4, <1>5, <1>6, <1>7, <1>8, <1>9, <1>10, <1>11, <1>12, <1>13
     DEF Next, Proceed

LEMMA InitialIInv == Init => IInv
<1> SUFFICES ASSUME Init PROVE IInv
  OBVIOUS
<1>1. Reading = {} /\ Writers = {} /\ Parsing = {}
  BY DEF Init, Reading, Writers, Parsing
<1>2. Cardinality(Reading) = 0
  BY <1>1, ReadersAreFinite
<1>3. TypeOK
  BY <1>2 DEF Init, TypeOK
<1> QED
  BY <1>1, <1>3 DEF Init, IInv, NoMissedWakeup, WriterInv

LEMMA Inductive == Spec => []IInv
  BY InitialIInv, Invariance, PTL DEF Spec

(* Every variable keeps its type and currently_reading is the number of     *)
(* threads that read (UWSConfig, 70-90).                                    *)
THEOREM TypeCorrect == Spec => []TypeOK
<1>1. IInv => TypeOK
  BY DEF IInv
<1> QED
  BY <1>1, Inductive, PTL

(* Nobody sleeps through the end of what it waits for (70-90).              *)
THEOREM NoneMissed == Spec => []NoMissedWakeup
<1>1. IInv => NoMissedWakeup
  BY DEF IInv
<1> QED
  BY <1>1, Inductive, PTL

(* Nobody reads options while a thread parses the file, unless a second     *)
(* thread began to write in between (guardWriting, 81-90).                  *)
THEOREM ParsesAlone == Spec => []ParsedAlone
<1>1. IInv => ParsedAlone
  BY DEF IInv, WriterInv, ParsedAlone
<1> QED
  BY <1>1, Inductive, PTL

=============================================================================
