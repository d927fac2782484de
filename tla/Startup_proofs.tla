---------------------------- MODULE Startup_proofs ----------------------------
(***************************************************************************)
(* Theorems about the start of powersensordaemon, for any command line,    *)
(* any files and any number of faults.                                     *)
(***************************************************************************)
EXTENDS Startup, SequenceTheorems, WellFoundedInduction, TLAPS

USE DEF world, parser, config, process

AllFields == StringFields \cup {"daemonize_", "log_targets_"}

-----------------------------------------------------------------------------
(* Sequences. *)

LEMMA SeqAppend ==
  ASSUME NEW S, NEW s \in Seq(S), NEW e \in S
  PROVE  /\ Append(s, e) \in Seq(S)
         /\ Len(Append(s, e)) = Len(s) + 1
         /\ DOMAIN Append(s, e) = DOMAIN s \cup {Len(s) + 1}
         /\ \A n \in DOMAIN s : Append(s, e)[n] = s[n]
         /\ Append(s, e)[Len(s) + 1] = e
  OBVIOUS

IsSeq(s) == \E S : s \in Seq(S)

LEMMA AnyAppend ==
  ASSUME NEW s, IsSeq(s), NEW e
  PROVE  /\ IsSeq(Append(s, e))
         /\ Len(s) \in Nat /\ Len(Append(s, e)) = Len(s) + 1
         /\ DOMAIN Append(s, e) = DOMAIN s \cup {Len(s) + 1}
         /\ \A n \in DOMAIN s : Append(s, e)[n] = s[n]
         /\ Append(s, e)[Len(s) + 1] = e
<1>1. PICK S : s \in Seq(S)
  BY DEF IsSeq
<1>2. s \in Seq(S \cup {e}) /\ e \in S \cup {e}
  BY <1>1
<1>3. /\ Append(s, e) \in Seq(S \cup {e})
      /\ Len(Append(s, e)) = Len(s) + 1
      /\ DOMAIN Append(s, e) = DOMAIN s \cup {Len(s) + 1}
      /\ \A n \in DOMAIN s : Append(s, e)[n] = s[n]
      /\ Append(s, e)[Len(s) + 1] = e
  BY <1>2, SeqAppend
<1>4. Len(s) \in Nat
  BY <1>1
<1> QED
  BY <1>3, <1>4 DEF IsSeq

LEMMA EmptyIsSeq == IsSeq(<<>>)
<1>1. <<>> \in Seq({})
  OBVIOUS
<1> QED
  BY <1>1 DEF IsSeq

(* What holds of the least element of a set of numbers that is not empty.   *)
LEMMA SmallestOf ==
  ASSUME NEW S, S \subseteq Nat, S # {}
  PROVE  Least(S) \in S /\ \A m \in S : Least(S) <= m
<1> DEFINE R == OpToRel(<, Nat)
<1>1. IsWellFoundedOn(R, Nat)
  BY NatLessThanWellFounded
<1>2. PICK n \in S : \A m \in S : ~(<<m, n>> \in R)
  <2> HIDE DEF R
  <2> QED  BY <1>1, WFMin
<1>3. \A m \in S : ~(m < n)
  <2>1. \A m \in S : m \in Nat /\ n \in Nat
    OBVIOUS
  <2>2. \A m \in S : m < n => <<m, n>> \in R
    BY <2>1 DEF OpToRel
  <2> QED BY <1>2, <2>2
<1>4. \A m \in S : n <= m
  BY <1>3
<1> QED
  BY <1>4 DEF Least

-----------------------------------------------------------------------------
(* The parser stays within the command line. *)

ParserInv ==
  /\ argv \in Seq(Words)
  /\ stage \in {"start", "options"} =>
       argc \in Nat /\ i \in Nat /\ i > 0 /\ argc + i = Len(argv) + 1
  /\ DOMAIN opt = AllFields
  /\ opt.log_targets_ \in Seq(Words)

LEMMA ParserStart == Init => ParserInv
<1> SUFFICES ASSUME Init
             PROVE  ParserInv
  OBVIOUS
<1>1. argv \in Seq(Words)
  BY WordsAssumption DEF Init
<1>2. DOMAIN opt = AllFields /\ opt.log_targets_ = <<>>
  BY DEF Init, AllFields
<1>3. <<>> \in Seq(Words)
  OBVIOUS
<1> QED
  BY <1>1, <1>2, <1>3 DEF Init, ParserInv

(* What the options of a step may become.                                   *)
LEMMA OptionsChange ==
  ASSUME ParserInv, NEW f \in AllFields, NEW v, opt' = [opt EXCEPT ![f] = v],
         f = "log_targets_" => v \in Seq(Words)
  PROVE  DOMAIN opt' = AllFields /\ opt'.log_targets_ \in Seq(Words)
  BY DEF ParserInv, AllFields

LEMMA ParamIsAWord ==
  ASSUME ParserInv, stage = "options", argc >= 2
  PROVE  argv[i] \in Words /\ Param \in Words
<1>1. i \in 1 .. Len(argv) /\ i + 1 \in 1 .. Len(argv)
  BY DEF ParserInv
<1> QED
  BY <1>1 DEF ParserInv, Param

LEMMA OptionFields ==
  ASSUME NEW w
  PROVE  /\ StringOption(w) # "none" => StringOption(w) \in StringFields
         /\ StringOption(w) # "log_targets_"
  BY DEF StringOption, StringFields

(* Only the parser touches options and command line.                        *)
LEMMA OthersKeepOptions ==
  ASSUME [Next]_vars, ~ParseOptions
  PROVE  /\ UNCHANGED <<opt, argv>>
         /\ stage' \in {"start", "options"} => UNCHANGED <<stage, argc, i>>
<1>1. CASE Configure
  BY <1>1 DEF Configure, DefaultTarget, AddTarget, TargetsDone, JustStarted, ReadFiles, NoFile,
     OpenFile, ReadPiece, CloseFile, CheckDevices, Refuse, StageBehind
<1>2. CASE Settle
  <2>1. CASE PrivInit \/ OpenPidFile \/ Chroot \/ PrivDrop
    BY <2>1 DEF PrivInit, OpenPidFile, Chroot, PrivDrop, Refuse
  <2>2. CASE Daemonize
    <3>1. UNCHANGED <<opt, argv>> /\ stage = "daemonize"
      BY <2>2, Zenon DEF Daemonize
    <3>2. stage' = "writepid" \/ stage' = "exited"
      BY <2>2, Zenon DEF Daemonize
    <3> QED
      BY <3>1, <3>2
  <2>3. CASE WritePid \/ NoChild \/ StartChild \/ InitCommandSocket
    BY <2>3 DEF WritePid, NoChild, StartChild, InitCommandSocket, Refuse
  <2> QED
    BY <1>2, <2>1, <2>2, <2>3 DEF Settle
<1>3. CASE Serve
  BY <1>3 DEF Serve, OpenTty, SetupTty, ClearTty, EnterLoop, LeaveLoop, Reopen, Shutdown, Exit
<1>4. CASE ExitRefused \/ Killed
  BY <1>4 DEF ExitRefused, Exit, Killed
<1>5. CASE UNCHANGED vars
  BY <1>5 DEF vars
<1> QED
  BY <1>1, <1>2, <1>3, <1>4, <1>5 DEF Next, Terminated

LEMMA StepParses ==
  ASSUME ParserInv, [Next]_vars
  PROVE  ParserInv'
<1> DEFINE Within(st, a, k) ==
      st \in {"start", "options"} => a \in Nat /\ k \in Nat /\ k > 0 /\ a + k = Len(argv) + 1
<1>1. CASE Defaults
  <2>1. DOMAIN opt' = AllFields /\ opt'.log_targets_ \in Seq(Words)
    BY <1>1, OptionsChange DEF Defaults, ParserInv, AllFields, StringFields
  <2> QED
    BY <1>1, <2>1 DEF Defaults, ParserInv
<1>2. CASE ParseHelp \/ ParseMissing \/ ParseUnknown \/ ParseDone
  BY <1>2 DEF ParseHelp, ParseMissing, ParseUnknown, ParseDone, Usage, ParserInv
<1>3. CASE ParseNoDaemonize
  <2>1. DOMAIN opt' = AllFields /\ opt'.log_targets_ \in Seq(Words)
    BY <1>3, OptionsChange DEF ParseNoDaemonize, AllFields
  <2> QED
    BY <1>3, <2>1 DEF ParseNoDaemonize, Parsing, ParserInv
<1>4. CASE ParseString
  <2>1. /\ StringOption(argv[i]) \in AllFields
        /\ StringOption(argv[i]) # "log_targets_"
    BY <1>4, OptionFields DEF ParseString, AllFields
  <2>2. DOMAIN opt' = AllFields /\ opt'.log_targets_ \in Seq(Words)
    BY <1>4, <2>1, OptionsChange DEF ParseString
  <2>3. ParserInv => Within(stage', argc', i')
    BY <1>4 DEF ParseString, Parsing, ParameterTaken, NoParam, Usage, ParserInv
  <2> QED
    BY <1>4, <2>2, <2>3 DEF ParseString, ParserInv
<1>5. CASE ParseLog
  <2>1. DOMAIN opt' = AllFields /\ opt'.log_targets_ \in Seq(Words)
    <3>1. CASE opt' = [opt EXCEPT !.log_targets_ = Append(@, Param)]
      <4>1. Param \in Words
        BY <1>5, ParamIsAWord DEF ParseLog, NoParam, Parsing, ParserInv
      <4>2. Append(opt.log_targets_, Param) \in Seq(Words)
        BY <4>1 DEF ParserInv
      <4> QED
        BY <3>1, <4>2 DEF ParserInv, AllFields
    <3>2. CASE opt' = opt
      BY <3>2 DEF ParserInv
    <3> QED
      BY <1>5, <3>1, <3>2 DEF ParseLog
  <2>2. Within(stage', argc', i')
    BY <1>5 DEF ParseLog, Parsing, ParameterTaken, NoParam, Usage, ParserInv
  <2> QED
    BY <1>5, <2>1, <2>2 DEF ParseLog, ParserInv
<1>6. CASE ParseKeyValue
  <2>1. UNCHANGED <<argv, opt>>
    BY <1>6 DEF ParseKeyValue
  <2>2. \/ stage' = "usage"
        \/ stage' = stage /\ argc' = argc - 2 /\ i' = i + 2
    BY <1>6 DEF ParseKeyValue, ParameterTaken, Usage
  <2>3. stage = "options" /\ argc > 0
    BY <1>6 DEF ParseKeyValue, Parsing
  <2>4. argc >= 2
    BY <1>6, <2>3 DEF ParseKeyValue, NoParam, ParserInv
  <2> QED
    BY <2>1, <2>2, <2>3, <2>4 DEF ParserInv
<1>7. CASE ~ParseOptions
  BY <1>7, OthersKeepOptions DEF ParserInv
<1> QED
  BY <1>1, <1>2, <1>3, <1>4, <1>5, <1>6, <1>7 DEF ParseOptions

-----------------------------------------------------------------------------
(* The log. *)

(* max_prio is never below the level of an enabled target.                  *)
LogInv ==
  /\ IsSeq(log.targets)
  /\ log.max_prio \in Nat
  /\ \A n \in DOMAIN log.targets :
       /\ log.targets[n].max_prio \in Nat
       /\ log.targets[n].enabled => log.targets[n].max_prio <= log.max_prio

LEMMA EmptyLog == log = NoLog => LogInv /\ LinesReachTargets
  BY EmptyIsSeq DEF NoLog, LogInv, LinesReachTargets, Reached

LEMMA Covered == LogInv => LinesReachTargets
<1> SUFFICES ASSUME LogInv, NEW prio \in Prios, NEW n \in DOMAIN log.targets,
                    log.targets[n].enabled, log.targets[n].max_prio >= prio
             PROVE  ~(log.max_prio < prio)
  BY DEF LinesReachTargets, Reached
<1> QED
  BY DEF LogInv, Prios

(* update_max_prio finds the new bound, as the old level is one of those    *)
(* already in the list.                                                     *)
LEMMA NewLevel ==
  ASSUME LogInv, NEW t, t.max_prio \in Nat
  PROVE  LET ts == Append(log.targets, t)
             m == UpdatedMaxPrio(log.max_prio, ts)
         IN m \in Nat /\ m >= log.max_prio /\ (t.enabled => m >= t.max_prio)
<1> DEFINE ts == Append(log.targets, t)
           W == Wanted(ts) \cup {log.max_prio}
           top == IF t.enabled /\ t.max_prio > log.max_prio THEN t.max_prio ELSE log.max_prio
<1>1. /\ DOMAIN ts = DOMAIN log.targets \cup {Len(log.targets) + 1}
      /\ \A n \in DOMAIN log.targets : ts[n] = log.targets[n]
      /\ ts[Len(log.targets) + 1] = t
  BY AnyAppend DEF LogInv
<1>2. \A q \in W : q \in Nat /\ q <= top
  BY <1>1 DEF LogInv, Wanted
<1>3. top \in W
  BY <1>1 DEF Wanted
<1>4. t.enabled => t.max_prio \in W
  BY <1>1 DEF Wanted
<1> HIDE DEF W, top
<1>5. \E p \in W : \A q \in W : q <= p
  BY <1>2, <1>3
<1> DEFINE m == CHOOSE p \in W : \A q \in W : q <= p
<1>6. m \in W /\ \A q \in W : q <= m
  BY <1>5
<1> HIDE DEF m
<1>7. log.max_prio \in W
  BY DEF W
<1>8. m \in Nat /\ m >= log.max_prio /\ (t.enabled => m >= t.max_prio)
  BY <1>2, <1>4, <1>6, <1>7 DEF LogInv
<1>9. UpdatedMaxPrio(log.max_prio, ts) = m
  BY DEF UpdatedMaxPrio, m, W
<1> QED
  BY <1>8, <1>9

LEMMA TargetAdded ==
  ASSUME LogInv, NEW t, t.max_prio \in Nat, log' = WithTarget(log, t)
  PROVE  LogInv'
<1> DEFINE ts == Append(log.targets, t)
           m == UpdatedMaxPrio(log.max_prio, ts)
<1>1. log'.targets = ts /\ log'.max_prio = m
  BY DEF WithTarget
<1>2. m \in Nat /\ m >= log.max_prio /\ (t.enabled => m >= t.max_prio)
  BY NewLevel
<1>3. /\ IsSeq(ts)
      /\ DOMAIN ts = DOMAIN log.targets \cup {Len(log.targets) + 1}
      /\ \A n \in DOMAIN log.targets : ts[n] = log.targets[n]
      /\ ts[Len(log.targets) + 1] = t
  BY AnyAppend DEF LogInv
<1> HIDE DEF ts, m
<1> QED
  BY <1>1, <1>2, <1>3 DEF LogInv

LEMMA AddedIsTyped ==
  ASSUME ParserInv, LogInv, AddTarget
  PROVE  log' = log \/ \E t : t.max_prio \in Nat /\ log' = WithTarget(log, t)
<1> DEFINE conf == ConfOf[opt.log_targets_[Len(log.targets) + 1]]
<1>1. Len(log.targets) \in Nat
  BY AnyAppend DEF LogInv
<1>2. conf \in Conf
  <2>1. Len(log.targets) + 1 \in 1 .. Len(opt.log_targets_)
    BY <1>1 DEF AddTarget, ParserInv
  <2>2. opt.log_targets_[Len(log.targets) + 1] \in Words
    BY <2>1 DEF ParserInv
  <2> QED
    BY <2>2, ConfAssumption
<1> HIDE DEF conf
<1>3. ASSUME AddReturns(log, conf) = 0, NEW opens, NEW fd
      PROVE  NewTarget(conf, opens, fd).max_prio \in Nat
  <2>1. conf.prio # NoPrio
    BY <1>3 DEF AddReturns, SyntaxError
  <2>2. conf.prio \in 0 .. 9
    BY <1>2, <2>1 DEF Conf
  <2> QED
    BY <2>2 DEF NewTarget
<1>4. \/ log' = log
      \/ \E opens, fd : AddReturns(log, conf) = 0 /\ log' = WithTarget(log, NewTarget(conf, opens, fd))
  BY Zenon DEF AddTarget, conf
<1> QED
  BY <1>3, <1>4

LEMMA OthersKeepLog ==
  ASSUME [Next]_vars, ~DefaultTarget, ~AddTarget
  PROVE  log' = log \/ log' = NoLog
<1>1. CASE ParseOptions
  BY <1>1 DEF ParseOptions, Defaults, ParseHelp, ParseNoDaemonize, ParseMissing, ParseString,
     ParseLog, ParseKeyValue, ParseUnknown, ParseDone
<1>2. CASE TargetsDone \/ JustStarted \/ ReadFiles \/ CheckDevices
  BY <1>2 DEF TargetsDone, JustStarted, ReadFiles, NoFile, OpenFile, ReadPiece, CloseFile,
     CheckDevices
<1>3. CASE Settle
  BY <1>3 DEF Settle, PrivInit, OpenPidFile, Chroot, PrivDrop, Daemonize, WritePid, NoChild,
     StartChild, InitCommandSocket
<1>4. CASE Serve \/ ExitRefused \/ Killed
  BY <1>4 DEF Serve, OpenTty, SetupTty, ClearTty, EnterLoop, LeaveLoop, Reopen, Shutdown, Exit,
     CloseLog, ExitRefused, Killed
<1>5. CASE UNCHANGED vars
  BY <1>5 DEF vars
<1> QED
  BY <1>1, <1>2, <1>3, <1>4, <1>5 DEF Next, Configure, Terminated

LEMMA StepKeepsLog ==
  ASSUME ParserInv, LogInv, [Next]_vars
  PROVE  LogInv'
<1>1. CASE DefaultTarget
  <2>1. NewTarget(DefaultConf, TRUE, 0).max_prio \in Nat
    BY DEF NewTarget, DefaultConf, Notice
  <2>2. log' = log \/ log' = WithTarget(log, NewTarget(DefaultConf, TRUE, 0))
    BY <1>1 DEF DefaultTarget
  <2> QED
    BY <2>1, <2>2, TargetAdded DEF LogInv
<1>2. CASE AddTarget
  BY <1>2, AddedIsTyped, TargetAdded DEF LogInv
<1>3. CASE ~DefaultTarget /\ ~AddTarget
  <2>1. CASE log' = NoLog
    BY <2>1, EmptyIsSeq DEF NoLog, LogInv
  <2>2. CASE log' = log
    BY <2>2 DEF LogInv
  <2> QED
    BY <1>3, <2>1, <2>2, OthersKeepLog
<1> QED
  BY <1>1, <1>2, <1>3

(* Whatever targets the command line names, a message is formatted whenever *)
(* an enabled one asks for it: the level tested first keeps up with the     *)
(* list (log.c:198-232, log_targets.h).                                     *)
THEOREM TargetsReached == Spec => []LinesReachTargets
<1>1. Init => LogInv
  BY EmptyLog DEF Init
<1> QED
  BY <1>1, ParserStart, StepParses, StepKeepsLog, Covered, PTL DEF Spec

-----------------------------------------------------------------------------
(* The storages. *)

GivenUp == {"usage", "refused", "exited"}

Paired(p) == IsSeq(p.keys) /\ IsSeq(p.values) /\ Len(p.keys) = Len(p.values)

StoresInv ==
  stage \notin GivenUp =>
    /\ DOMAIN stores = Stores
    /\ \A s \in Stores : Paired(stores[s])

LEMMA InsertedPair ==
  ASSUME StoresInv, stage \notin GivenUp, NEW st \in Stores, NEW key, NEW value,
         stores' = [stores EXCEPT ![st] = Inserted(@, key, value)]
  PROVE  StoresInv'
<1>1. Paired(stores[st]) /\ DOMAIN stores = Stores
  BY DEF StoresInv
<1>2. Paired(Inserted(stores[st], key, value))
  BY <1>1, AnyAppend DEF Paired, Inserted
<1>3. DOMAIN stores' = Stores /\ stores'[st] = Inserted(stores[st], key, value)
  BY <1>1
<1>4. \A s \in Stores \ {st} : stores'[s] = stores[s]
  BY <1>1
<1>5. \A s \in Stores : Paired(stores'[s])
  BY <1>2, <1>3, <1>4 DEF StoresInv
<1> QED
  BY <1>3, <1>5 DEF StoresInv

(* Who has given up does not come back, and nobody else adds a pair.        *)
LEMMA OthersKeepStores ==
  ASSUME [Next]_vars, ~ParseKeyValue, ~ReadPiece("powerids_"), ~ReadPiece("sampledevs_")
  PROVE  /\ stores' = stores \/ stage' = "exited"
         /\ stage \in GivenUp => stage' \in GivenUp
<1>1. CASE ParseOptions
  BY <1>1 DEF ParseOptions, Defaults, ParseHelp, ParseNoDaemonize, ParseMissing, ParseString,
     ParseLog, ParseUnknown, ParseDone, Parsing, GivenUp
<1>2. CASE DefaultTarget \/ AddTarget \/ TargetsDone \/ JustStarted \/ ReadFiles \/ CheckDevices
  BY <1>2 DEF DefaultTarget, AddTarget, TargetsDone, JustStarted, ReadFiles, NoFile, OpenFile,
     CloseFile, CheckDevices, GivenUp
<1>3. CASE PrivInit \/ OpenPidFile \/ Chroot \/ PrivDrop
  BY <1>3 DEF PrivInit, OpenPidFile, Chroot, PrivDrop, GivenUp
<1>4. CASE Daemonize
  <2>1. UNCHANGED stores /\ stage = "daemonize"
    BY <1>4, Zenon DEF Daemonize
  <2> QED
    BY <2>1 DEF GivenUp
<1>5. CASE WritePid \/ NoChild \/ StartChild \/ InitCommandSocket
  BY <1>5 DEF WritePid, NoChild, StartChild, InitCommandSocket, GivenUp
<1>6. CASE Serve \/ ExitRefused \/ Killed
  BY <1>6 DEF Serve, OpenTty, SetupTty, ClearTty, EnterLoop, LeaveLoop, Reopen, Shutdown, Exit,
     ExitRefused, Killed, GivenUp
<1>7. CASE UNCHANGED vars
  BY <1>7 DEF vars
<1> QED
  BY <1>1, <1>2, <1>3, <1>4, <1>5, <1>6, <1>7 DEF Next, Configure, Settle, Terminated

LEMMA StepKeepsStores ==
  ASSUME StoresInv, [Next]_vars
  PROVE  StoresInv'
<1>1. CASE ParseKeyValue
  <2>1. stage = "options"
    BY <1>1 DEF ParseKeyValue, Parsing
  <2>2. CASE stage' = "usage"
    BY <2>2 DEF StoresInv, GivenUp
  <2>3. CASE \E key, value : Insert("autosampledevs_", key, value)
    BY <2>1, <2>3, InsertedPair DEF Insert, Stores, GivenUp
  <2> QED
    BY <1>1, <2>2, <2>3, Zenon DEF ParseKeyValue, Usage
<1>2. ASSUME NEW st \in {"powerids_", "sampledevs_"}, ReadPiece(st)
      PROVE  StoresInv'
  <2>1. stage = st
    BY <1>2 DEF ReadPiece
  <2>2. CASE stage' = "refused"
    BY <2>2 DEF StoresInv, GivenUp
  <2>3. CASE UNCHANGED <<stores, stage>>
    BY <2>3 DEF StoresInv
  <2>4. CASE \E key, value : Insert(st, key, value)
    BY <2>1, <2>4, InsertedPair DEF Insert, Stores, GivenUp
  <2> QED
    BY <1>2, <2>2, <2>3, <2>4, Zenon DEF ReadPiece, Refuse
<1>3. CASE ~ParseKeyValue /\ ~ReadPiece("powerids_") /\ ~ReadPiece("sampledevs_")
  <2>1. CASE stage' = "exited"
    BY <2>1 DEF StoresInv, GivenUp
  <2>2. CASE stores' = stores /\ (stage \in GivenUp => stage' \in GivenUp)
    BY <2>2 DEF StoresInv
  <2> QED
    BY <1>3, <2>1, <2>2, OthersKeepStores
<1> QED
  BY <1>1, <1>2, <1>3

(* Out of memory anywhere, a daemon that goes on has a value for every key  *)
(* of every storage (key_value_storage.c:45-111).                           *)
THEOREM ValuesForKeys == Spec => []KeysMatchValues
<1>1. Init => StoresInv
  <2> SUFFICES ASSUME Init
               PROVE  StoresInv
    OBVIOUS
  <2>1. Paired(NoPairs)
    BY EmptyIsSeq DEF Paired, NoPairs
  <2> QED
    BY <2>1 DEF Init, StoresInv
<1>2. StoresInv => KeysMatchValues
  BY DEF StoresInv, KeysMatchValues, Paired, GivenUp
<1> QED
  BY <1>1, <1>2, StepKeepsStores, PTL DEF Spec

-----------------------------------------------------------------------------
(* Who serves. *)

AsUser == Given("username_") => proc.uid = opt.username_ /\ proc.gid = Group

BeforeDrop == {"start", "options", "targets", "started", "powerids_", "sampledevs_", "devices",
               "priv", "pidfile", "chroot", "drop"}

Serving == child # "none" \/ IsOpen("socket")

(* Up to daemonize() there is neither a child nor a socket, and up to       *)
(* write_pid no pid file with a pid; behind PrivDrop the user is the one    *)
(* asked for, wherever the daemon gives up.                                 *)
ServeInv ==
  /\ stage \in BeforeDrop \cup {"usage", "daemonize", "writepid"} => pid_file = 0 /\ ~Serving
  /\ stage \notin BeforeDrop \cup GivenUp \/ Serving => AsUser
  /\ pid_file \in {0, proc.pid}
  /\ DOMAIN proc = {"pid", "uid", "gid"}

(* No descriptor of a table refers to q.                                    *)
Without(t, q) == \A n \in DOMAIN t : t[n] # q

LEMMA WithoutOpened ==
  ASSUME NEW q, q # "closed", NEW t, Without(t, q), NEW r, r # q
  PROVE  Without(Opened(t, r), q) /\ Without(Closed(t, r), q)
  BY DEF Without, Opened, Closed

LEMMA WithoutLogged ==
  ASSUME NEW q, q \notin {"closed", "syslog"}, NEW t, Without(t, q), NEW prio
  PROVE  Without(Logged(t, prio), q)
  BY WithoutOpened DEF Logged

LEMMA WithoutStd ==
  ASSUME NEW q, q \notin {"closed", "syslog", "null"}, Without(fds, q)
  PROVE  \A t \in StdReopened \cup StdFailures : Without(t, q)
<1>1. Without(StdClosed, q)
  BY DEF Without, StdClosed
<1> QED
  BY <1>1, WithoutOpened, WithoutLogged DEF StdReopened, StdFailures

LEMMA ServingIsSocket == child = "none" => (~Serving <=> Without(fds, "socket"))
  BY DEF Serving, IsOpen, Without

LEMMA UserKept ==
  ASSUME UNCHANGED opt, proc'.uid = proc.uid, proc'.gid = proc.gid
  PROVE  AsUser' = AsUser
  BY DEF AsUser, Given, Group

(* Before anybody serves.                                                   *)
LEMMA ParseStep ==
  ASSUME ServeInv, ParseOptions
  PROVE  ServeInv'
<1>1. stage \in {"start", "options"}
  BY DEF ParseOptions, Defaults, ParseHelp, ParseNoDaemonize, ParseMissing, ParseString, ParseLog,
     ParseKeyValue, ParseUnknown, ParseDone, Parsing
<1>2. stage' \in {"start", "options", "usage", "targets"}
  BY <1>1 DEF ParseOptions, Defaults, ParseHelp, ParseNoDaemonize, ParseMissing, ParseString,
     ParseLog, ParseKeyValue, ParseUnknown, ParseDone, Usage
<1>3. UNCHANGED <<fds, proc, pid_file, child>>
  BY DEF ParseOptions, Defaults, ParseHelp, ParseNoDaemonize, ParseMissing, ParseString, ParseLog,
     ParseKeyValue, ParseUnknown, ParseDone
<1>4. ~Serving'
  BY <1>1, <1>3 DEF ServeInv, BeforeDrop, Serving, IsOpen
<1> QED
  BY <1>1, <1>2, <1>3, <1>4 DEF ServeInv, BeforeDrop, GivenUp

EarlyStep ==
  \/ DefaultTarget \/ AddTarget \/ TargetsDone \/ JustStarted \/ ReadFiles \/ CheckDevices
  \/ PrivInit \/ OpenPidFile \/ Chroot

LEMMA EarlyStages ==
  ASSUME EarlyStep
  PROVE  /\ stage \in BeforeDrop
         /\ stage' \in BeforeDrop \cup {"refused"}
         /\ UNCHANGED <<opt, proc, pid_file, child>>
<1>1. CASE DefaultTarget \/ TargetsDone \/ JustStarted \/ CheckDevices
  BY <1>1 DEF DefaultTarget, TargetsDone, JustStarted, CheckDevices, Refuse, BeforeDrop
<1>2. CASE AddTarget
  <2>1. stage = "targets" /\ UNCHANGED <<opt, proc, pid_file, child>>
    BY <1>2, Zenon DEF AddTarget
  <2>2. stage' = stage \/ stage' = "refused"
    BY <1>2, Zenon DEF AddTarget, Refuse
  <2> QED
    BY <2>1, <2>2 DEF BeforeDrop
<1>3. CASE ReadFiles
  BY <1>3 DEF ReadFiles, NoFile, OpenFile, ReadPiece, CloseFile, StageBehind, Refuse, BeforeDrop
<1>4. CASE PrivInit \/ OpenPidFile \/ Chroot
  BY <1>4 DEF PrivInit, OpenPidFile, Chroot, Refuse, BeforeDrop
<1> QED
  BY <1>1, <1>2, <1>3, <1>4 DEF EarlyStep

LEMMA EarlyDescriptors ==
  ASSUME Without(fds, "socket"), EarlyStep
  PROVE  Without(fds', "socket")
<1>1. CASE DefaultTarget \/ TargetsDone \/ CheckDevices \/ PrivInit \/ Chroot
  BY <1>1 DEF DefaultTarget, TargetsDone, CheckDevices, PrivInit, Chroot
<1>2. CASE AddTarget
  <2>1. fds' = fds \/ fds' = Opened(fds, "logfile")
    BY <1>2, Zenon DEF AddTarget
  <2> QED
    BY <2>1, WithoutOpened
<1>3. CASE JustStarted
  BY <1>3, WithoutLogged DEF JustStarted
<1>4. CASE ReadFiles
  <2>1. fds' = fds \/ fds' = Opened(fds, "conf") \/ fds' = Closed(fds, "conf")
    BY <1>4, Zenon DEF ReadFiles, NoFile, OpenFile, ReadPiece, CloseFile
  <2> QED
    BY <2>1, WithoutOpened
<1>5. CASE OpenPidFile
  <2>1. fds' = fds \/ fds' = Opened(fds, "pidfile") \/ fds' = Logged(fds, 2)
    BY <1>5 DEF OpenPidFile
  <2> QED
    BY <2>1, WithoutOpened, WithoutLogged
<1> QED
  BY <1>1, <1>2, <1>3, <1>4, <1>5 DEF EarlyStep

LEMMA EarlyServes ==
  ASSUME ServeInv, EarlyStep
  PROVE  ServeInv'
<1>1. stage \in BeforeDrop /\ pid_file = 0 /\ ~Serving /\ child = "none"
  BY EarlyStages DEF ServeInv, Serving
<1>2. child' = "none" /\ Without(fds', "socket")
  BY <1>1, EarlyStages, EarlyDescriptors, ServingIsSocket
<1>3. ~Serving'
  BY <1>2 DEF Serving, IsOpen, Without
<1> QED
  BY <1>1, <1>3, EarlyStages DEF ServeInv, GivenUp, BeforeDrop

LEMMA DropServes ==
  ASSUME ServeInv, PrivDrop
  PROVE  ServeInv'
<1>1. stage = "drop" /\ UNCHANGED <<opt, fds, pid_file, child>>
  BY Zenon DEF PrivDrop
<1>2. pid_file = 0 /\ ~Serving
  BY <1>1 DEF ServeInv, BeforeDrop
<1>3. ~Serving'
  BY <1>1, <1>2 DEF Serving, IsOpen
<1>4. DOMAIN proc' = {"pid", "uid", "gid"}
  BY DEF PrivDrop, ServeInv
<1>5. CASE stage' = "refused"
  BY <1>1, <1>2, <1>3, <1>5, <1>4 DEF ServeInv, GivenUp, BeforeDrop
<1>6. CASE stage' = "daemonize" /\ AsUser'
  BY <1>1, <1>2, <1>3, <1>6, <1>4 DEF ServeInv
<1>7. stage' = "refused" \/ (stage' = "daemonize" /\ AsUser')
  <2>1. Given("username_")' = Given("username_") /\ Group' = Group
    BY <1>1 DEF Given, Group
  <2>2. CASE stage' = "daemonize" /\ ~Given("username_")
    BY <2>1, <2>2 DEF AsUser
  <2>3. CASE /\ stage' = "daemonize"
             /\ proc' = [proc EXCEPT !.gid = Group, !.uid = opt.username_]
    <3>1. proc'.gid = Group /\ proc'.uid = opt.username_
      BY <2>3 DEF ServeInv
    <3> QED
      BY <1>1, <2>1, <2>3, <3>1 DEF AsUser
  <2>4. \/ stage' = "refused"
        \/ stage' = "daemonize" /\ ~Given("username_")
        \/ /\ stage' = "daemonize"
           /\ proc' = [proc EXCEPT !.gid = Group, !.uid = opt.username_]
    BY Zenon DEF PrivDrop, Refuse
  <2> QED
    BY <2>2, <2>3, <2>4
<1> QED
  BY <1>5, <1>6, <1>7

LEMMA DaemonizeServes ==
  ASSUME ServeInv, Daemonize
  PROVE  ServeInv'
<1>1. stage = "daemonize" /\ UNCHANGED <<opt, pid_file, child>>
  BY Zenon DEF Daemonize
<1>2. stage' = "writepid" \/ stage' = "exited"
  BY Zenon DEF Daemonize
<1>3. pid_file = 0 /\ ~Serving /\ child = "none" /\ AsUser
  BY <1>1 DEF ServeInv, Serving, BeforeDrop, GivenUp
<1>4. proc' = proc \/ proc' = [proc EXCEPT !.pid = @ + 2]
  BY Zenon DEF Daemonize
<1>5. proc'.uid = proc.uid /\ proc'.gid = proc.gid /\ DOMAIN proc' = {"pid", "uid", "gid"}
  BY <1>4 DEF ServeInv
<1>6. Without(fds', "socket")
  <2>1. Without(fds, "socket")
    BY <1>3, ServingIsSocket
  <2>2. fds' = fds \/ fds' \in StdReopened \cup StdFailures \/ fds' = AllClosed
    BY DEF Daemonize
  <2>3. Without(AllClosed, "socket")
    BY DEF Without, AllClosed
  <2> QED
    BY <2>1, <2>2, <2>3, WithoutStd
<1>7. ~Serving'
  BY <1>1, <1>3, <1>6 DEF Serving, IsOpen, Without
<1>8. AsUser'
  BY <1>1, <1>3, <1>5, UserKept
<1> QED
  BY <1>1, <1>2, <1>3, <1>5, <1>7, <1>8 DEF ServeInv, GivenUp

LEMMA WritePidServes ==
  ASSUME ServeInv, WritePid
  PROVE  ServeInv'
<1>1. /\ stage = "writepid" /\ stage' = "autosample"
      /\ UNCHANGED <<opt, proc, child>> /\ pid_file' \in {0, proc.pid}
  BY DEF WritePid, ServeInv
<1>2. AsUser'
  BY <1>1, UserKept DEF ServeInv, BeforeDrop, GivenUp
<1> QED
  BY <1>1, <1>2 DEF ServeInv, BeforeDrop

(* From here on nothing changes but child, socket and tty.                  *)
LateStep ==
  \/ NoChild \/ StartChild \/ InitCommandSocket
  \/ OpenTty \/ SetupTty \/ ClearTty \/ EnterLoop \/ LeaveLoop \/ Reopen \/ Shutdown

LEMMA LateServes ==
  ASSUME ServeInv, LateStep
  PROVE  ServeInv'
<1>1. stage \notin BeforeDrop \cup GivenUp /\ UNCHANGED <<opt, proc, pid_file>>
  BY DEF LateStep, NoChild, StartChild, InitCommandSocket, OpenTty, SetupTty, ClearTty, EnterLoop,
     LeaveLoop, Reopen, Shutdown, BeforeDrop, GivenUp
<1>2. stage' \notin BeforeDrop \cup {"usage", "daemonize", "writepid"}
  BY DEF LateStep, NoChild, StartChild, InitCommandSocket, OpenTty, SetupTty, ClearTty, EnterLoop,
     LeaveLoop, Reopen, Shutdown, Refuse, Exit, BeforeDrop
<1>3. AsUser'
  BY <1>1, UserKept DEF ServeInv
<1> QED
  BY <1>1, <1>2, <1>3 DEF ServeInv

LEMMA EndServes ==
  ASSUME ServeInv, ExitRefused \/ Killed
  PROVE  ServeInv'
<1>1. stage' = "exited" /\ UNCHANGED <<opt, proc, pid_file, child>> /\ fds' = AllClosed
  BY DEF ExitRefused, Killed, Exit
<1>2. ~IsOpen("socket")'
  BY <1>1 DEF IsOpen, AllClosed
<1>3. Serving' => AsUser'
  BY <1>1, <1>2, UserKept DEF Serving, ServeInv
<1> QED
  BY <1>1, <1>3 DEF ServeInv, GivenUp, BeforeDrop

LEMMA StutterServes ==
  ASSUME ServeInv, UNCHANGED vars
  PROVE  ServeInv'
<1>1. UNCHANGED <<stage, opt, proc, pid_file, child, fds>>
  BY DEF vars
<1>2. Serving' = Serving /\ AsUser' = AsUser
  BY <1>1, UserKept DEF Serving, IsOpen
<1> QED
  BY <1>1, <1>2 DEF ServeInv

LEMMA StepServes == ServeInv /\ [Next]_vars => ServeInv'
<1> QED
  BY ParseStep, EarlyServes, DropServes, DaemonizeServes, WritePidServes, LateServes, EndServes,
     StutterServes
  DEF Next, Configure, Settle, Serve, EarlyStep, LateStep, Terminated

-----------------------------------------------------------------------------
(* The descriptors. *)

BeforeStd == BeforeDrop \cup {"usage", "daemonize"}
Reads == {"powerids_", "sampledevs_"}
Late == {"open", "setup", "clear", "spinning", "enter", "loop", "sleep", "shutdown"}
TtyStages == Late \ {"open"}

(* What is open for a while only.                                           *)
Passing == {"conf", "pidfile", "pipe", "tty", "signals"}

IsTable(t) == \E m \in Nat : m > 2 /\ t = [n \in 0 .. m |-> t[n]]

StdKept == std # "failed" => \A n \in 0 .. 2 : fds[n] \in {"inherited", "null"}

Writes(target) == target.type \notin {"stdout", "stderr", "syslog"} /\ target.opened

FilesKept ==
  \A n \in DOMAIN log.targets : Writes(log.targets[n]) =>
    LET fd == log.targets[n].fd IN fd \in DOMAIN fds /\ fd > 2 /\ fds[fd] = "logfile"

(* Descriptor 0 is none of those that pass, and taken before the tty is     *)
(* opened, so that a tty never gets it.                                     *)
ZeroKept == fds[0] \notin Passing /\ (stage \in Late => fds[0] # "closed")

TtyKept ==
  /\ \A n \in DOMAIN fds : fds[n] = "tty" => stage \in TtyStages /\ n = tty_fd
  /\ stage \in TtyStages => tty_fd = -1 \/ (tty_fd \in DOMAIN fds /\ fds[tty_fd] = "tty")

FdsInv ==
  stage # "exited" =>
    /\ IsTable(fds)
    /\ stage \in BeforeStd => std = "no"
    /\ StdKept /\ FilesKept /\ ZeroKept /\ TtyKept
    /\ IsOpen("signals") => stage = "loop"

ConfInv ==
  stage \notin GivenUp =>
    /\ IsOpen("conf") => reading
    /\ reading => stage \in Reads /\ Given(FileOption(stage))

EndInv == stage = "exited" => end # "no"

-----------------------------------------------------------------------------
(* Tables of descriptors. *)

(* Table u is table t with some descriptors opened for one of R.            *)
Grown(t, u, R) ==
  /\ DOMAIN u = DOMAIN t
  /\ \A n \in DOMAIN t : u[n] = t[n] \/ (t[n] = "closed" /\ u[n] \in R)

LEMMA LowestFree ==
  ASSUME NEW t, IsTable(t), ~Full(t)
  PROVE  /\ Lowest(t) \in DOMAIN t /\ t[Lowest(t)] = "closed"
         /\ \A n \in DOMAIN t : t[n] = "closed" => Lowest(t) <= n
<1>1. PICK m \in Nat : m > 2 /\ t = [n \in 0 .. m |-> t[n]]
  BY DEF IsTable
<1>2. DOMAIN t = 0 .. m
  BY <1>1
<1> DEFINE S == { n \in DOMAIN t : t[n] = "closed" }
<1>3. S \subseteq Nat /\ S # {}
  BY <1>2 DEF Full
<1>4. Least(S) \in S /\ \A k \in S : Least(S) <= k
  <2> HIDE DEF S
  <2> QED
    BY <1>3, SmallestOf
<1> QED
  BY <1>4 DEF Lowest

LEMMA TableOpened ==
  ASSUME NEW t, IsTable(t), NEW r
  PROVE  IsTable(Opened(t, r)) /\ Grown(t, Opened(t, r), {r})
<1>1. CASE Full(t)
  BY <1>1 DEF Opened, Grown
<1>2. CASE ~Full(t)
  <2>1. PICK m \in Nat : m > 2 /\ t = [n \in 0 .. m |-> t[n]]
    BY DEF IsTable
  <2>2. Opened(t, r) = [n \in 0 .. m |-> IF n = Lowest(t) THEN r ELSE t[n]]
    BY <1>2, <2>1 DEF Opened
  <2>3. IsTable(Opened(t, r))
    BY <2>1, <2>2 DEF IsTable
  <2> QED
    BY <1>2, <2>1, <2>2, <2>3, LowestFree DEF Grown
<1> QED
  BY <1>1, <1>2

(* The descriptor that is opened, and what it is.                           *)
LEMMA LowestOpened ==
  ASSUME NEW t, IsTable(t), ~Full(t), NEW r
  PROVE  /\ Opened(t, r)[Lowest(t)] = r
         /\ \A n \in DOMAIN t : n # Lowest(t) => Opened(t, r)[n] = t[n]
         /\ t[0] # "closed" => Lowest(t) > 0
         /\ Opened(t, r)[0] # "closed" \/ r = "closed"
<1>1. PICK m \in Nat : m > 2 /\ t = [n \in 0 .. m |-> t[n]]
  BY DEF IsTable
<1>2. Opened(t, r) = [n \in 0 .. m |-> IF n = Lowest(t) THEN r ELSE t[n]]
  BY <1>1 DEF Opened
<1>3. /\ Lowest(t) \in 0 .. m /\ t[Lowest(t)] = "closed"
      /\ \A n \in 0 .. m : t[n] = "closed" => Lowest(t) <= n
  BY <1>1, LowestFree
<1>4. Opened(t, r)[Lowest(t)] = r
  BY <1>2, <1>3
<1>5. \A n \in DOMAIN t : n # Lowest(t) => Opened(t, r)[n] = t[n]
  BY <1>1, <1>2
<1>6. t[0] # "closed" => Lowest(t) > 0
  BY <1>3
<1>7. t[0] = "closed" => Lowest(t) = 0
  <2>1. 0 \in 0 .. m
    OBVIOUS
  <2>2. t[0] = "closed" => Lowest(t) <= 0
    BY <1>3, <2>1
  <2> QED
    BY <1>3, <2>2
<1>8. t[0] # "closed" => Opened(t, r)[0] = t[0]
  BY <1>1, <1>5, <1>6
<1> QED
  BY <1>4, <1>5, <1>6, <1>7, <1>8

LEMMA TableLogged ==
  ASSUME NEW t, IsTable(t), NEW prio
  PROVE  IsTable(Logged(t, prio)) /\ Grown(t, Logged(t, prio), {"syslog"})
<1>1. Grown(t, t, {"syslog"})
  BY DEF Grown
<1> QED
  BY <1>1, TableOpened DEF Logged

LEMMA GrownTwice ==
  ASSUME NEW t, NEW u, NEW v, NEW Q, NEW R, Grown(t, u, Q), Grown(u, v, R)
  PROVE  Grown(t, v, Q \cup R)
  BY DEF Grown

LEMMA TableClosed ==
  ASSUME NEW t, IsTable(t), NEW r
  PROVE  /\ IsTable(Closed(t, r)) /\ DOMAIN Closed(t, r) = DOMAIN t
         /\ \A n \in DOMAIN t : Closed(t, r)[n] = IF t[n] = r THEN "closed" ELSE t[n]
  BY DEF Closed, IsTable

-----------------------------------------------------------------------------
(* Steps that only open something, or only close something. *)

(* A step that goes from one stage to another of the same kind.             *)
SameKind ==
  /\ stage # "exited"
  /\ stage' \in BeforeStd => stage \in BeforeStd
  /\ stage' \in Late => stage \in Late \/ fds'[0] # "closed"
  /\ stage' \in TtyStages <=> stage \in TtyStages

LEMMA GrowKeeps ==
  ASSUME FdsInv, SameKind, UNCHANGED <<std, tty_fd>>, log' = log \/ FilesKept', NEW R,
         IsTable(fds'), Grown(fds, fds', R), R \cap {"tty", "signals", "closed"} = {},
         fds[0] # "closed" \/ R \cap Passing = {}, stage' = "loop" <=> stage = "loop"
  PROVE  FdsInv'
<1>1. /\ IsTable(fds) /\ (stage \in BeforeStd => std = "no")
      /\ StdKept /\ FilesKept /\ ZeroKept /\ TtyKept
      /\ IsOpen("signals") => stage = "loop"
  BY DEF FdsInv, SameKind
<1>2. PICK m \in Nat : m > 2 /\ DOMAIN fds = 0 .. m
  BY <1>1 DEF IsTable
<1>3. DOMAIN fds' = 0 .. m /\ \A n \in 0 .. m : fds'[n] = fds[n] \/ (fds[n] = "closed" /\ fds'[n] \in R)
  BY <1>2 DEF Grown
<1>4. StdKept'
  BY <1>1, <1>2, <1>3 DEF StdKept
<1>5. FilesKept'
  <2>1. log' = log => FilesKept'
    BY <1>1, <1>2, <1>3 DEF FilesKept
  <2> QED
    BY <2>1
<1>6. ZeroKept'
  BY <1>1, <1>2, <1>3 DEF ZeroKept, SameKind, Passing
<1>7. TtyKept'
  BY <1>1, <1>2, <1>3 DEF TtyKept, SameKind
<1>8. IsOpen("signals")' => stage' = "loop"
  BY <1>1, <1>2, <1>3 DEF IsOpen
<1> QED
  BY <1>1, <1>4, <1>5, <1>6, <1>7, <1>8 DEF FdsInv, SameKind

LEMMA CalmKeeps ==
  ASSUME FdsInv, SameKind, UNCHANGED <<fds, log, std, tty_fd>>, stage' = "loop" <=> stage = "loop"
  PROVE  FdsInv'
<1>1. Grown(fds, fds', {})
  BY DEF Grown
<1>2. IsTable(fds')
  BY DEF FdsInv, SameKind
<1> QED
  BY <1>1, <1>2, GrowKeeps

LEMMA CloseKeeps ==
  ASSUME FdsInv, SameKind, UNCHANGED <<log, std, tty_fd>>, NEW r \in {"conf", "pidfile", "signals"},
         fds' = Closed(fds, r), r = "signals" \/ (stage' = "loop" <=> stage = "loop")
  PROVE  FdsInv'
<1>1. /\ IsTable(fds) /\ (stage \in BeforeStd => std = "no")
      /\ StdKept /\ FilesKept /\ ZeroKept /\ TtyKept
      /\ IsOpen("signals") => stage = "loop"
  BY DEF FdsInv, SameKind
<1>2. PICK m \in Nat : m > 2 /\ DOMAIN fds = 0 .. m
  BY <1>1 DEF IsTable
<1>3. /\ IsTable(fds') /\ DOMAIN fds' = 0 .. m
      /\ \A n \in 0 .. m : fds'[n] = IF fds[n] = r THEN "closed" ELSE fds[n]
  BY <1>1, <1>2, TableClosed
<1>4. StdKept'
  BY <1>1, <1>2, <1>3 DEF StdKept
<1>5. FilesKept'
  BY <1>1, <1>2, <1>3 DEF FilesKept
<1>6. ZeroKept'
  BY <1>1, <1>2, <1>3 DEF ZeroKept, SameKind, Passing
<1>7. TtyKept'
  BY <1>1, <1>2, <1>3 DEF TtyKept, SameKind
<1>8. IsOpen("signals")' => stage' = "loop"
  BY <1>1, <1>2, <1>3 DEF IsOpen
<1> QED
  BY <1>1, <1>3, <1>4, <1>5, <1>6, <1>7, <1>8 DEF FdsInv, SameKind
LEMMA KeptParts ==
  ASSUME FdsInv, stage # "exited"
  PROVE  /\ IsTable(fds) /\ (stage \in BeforeStd => std = "no")
         /\ StdKept /\ FilesKept /\ ZeroKept /\ TtyKept
         /\ IsOpen("signals") => stage = "loop"
  BY DEF FdsInv

(* Up to daemonize(), the three are not closed.                             *)
LEMMA StdTaken ==
  ASSUME FdsInv, stage \in BeforeStd
  PROVE  /\ \A n \in 0 .. 2 : fds[n] # "closed"
         /\ ~Full(fds) => Lowest(fds) > 2
<1>1. stage # "exited"
  BY DEF BeforeStd, BeforeDrop
<1>2. IsTable(fds) /\ StdKept /\ std = "no"
  BY <1>1, KeptParts
<1>3. \A n \in 0 .. 2 : fds[n] # "closed"
  BY <1>2 DEF StdKept
<1>4. ASSUME ~Full(fds)
      PROVE  Lowest(fds) > 2
  <2>1. Lowest(fds) \in DOMAIN fds /\ fds[Lowest(fds)] = "closed"
    BY <1>2, <1>4, LowestFree
  <2>2. PICK m \in Nat : DOMAIN fds = 0 .. m
    BY <1>2 DEF IsTable
  <2>3. Lowest(fds) \in Nat /\ Lowest(fds) \notin 0 .. 2
    BY <1>3, <2>1, <2>2
  <2> QED
    BY <2>3
<1> QED
  BY <1>3, <1>4

-----------------------------------------------------------------------------
(* The actions, one after the other. *)

LEMMA ParseFds ==
  ASSUME FdsInv, ParseOptions
  PROVE  FdsInv'
<1>1. stage \in {"start", "options"}
  BY DEF ParseOptions, Defaults, ParseHelp, ParseNoDaemonize, ParseMissing, ParseString, ParseLog,
     ParseKeyValue, ParseUnknown, ParseDone, Parsing
<1>2. stage' \in {"start", "options", "usage", "targets"}
  BY <1>1 DEF ParseOptions, Defaults, ParseHelp, ParseNoDaemonize, ParseMissing, ParseString,
     ParseLog, ParseKeyValue, ParseUnknown, ParseDone, Usage
<1>3. UNCHANGED <<fds, log, std, tty_fd>>
  BY DEF ParseOptions, Defaults, ParseHelp, ParseNoDaemonize, ParseMissing, ParseString, ParseLog,
     ParseKeyValue, ParseUnknown, ParseDone
<1>4. SameKind
  BY <1>1, <1>2 DEF SameKind, BeforeStd, BeforeDrop, Late, TtyStages
<1> QED
  BY <1>1, <1>2, <1>3, <1>4, CalmKeeps

CalmStep ==
  \/ TargetsDone \/ CheckDevices \/ PrivInit \/ Chroot \/ PrivDrop \/ NoChild
  \/ SetupTty \/ ClearTty
  \/ \E store \in Reads : NoFile(store) \/ ReadPiece(store)

LEMMA CalmFds ==
  ASSUME FdsInv, CalmStep
  PROVE  FdsInv'
<1>1. UNCHANGED <<fds, log, std, tty_fd>>
  BY DEF CalmStep, TargetsDone, CheckDevices, PrivInit, Chroot, PrivDrop, NoChild, SetupTty,
     ClearTty, NoFile, ReadPiece
<1>2. SameKind /\ stage # "loop" /\ stage' # "loop"
  <2>1. CASE TargetsDone \/ CheckDevices \/ PrivInit \/ Chroot \/ PrivDrop \/ NoChild
    BY <2>1 DEF TargetsDone, CheckDevices, PrivInit, Chroot, PrivDrop, NoChild, Refuse, SameKind,
       BeforeStd, BeforeDrop, Late, TtyStages
  <2>2. CASE SetupTty \/ ClearTty
    BY <2>2 DEF SetupTty, ClearTty, SameKind, BeforeStd, BeforeDrop, Late, TtyStages
  <2>3. CASE \E store \in Reads : NoFile(store) \/ ReadPiece(store)
    BY <2>3 DEF NoFile, ReadPiece, Refuse, StageBehind, Reads, SameKind, BeforeStd, BeforeDrop,
       Late, TtyStages
  <2> QED
    BY <2>1, <2>2, <2>3 DEF CalmStep
<1> QED
  BY <1>1, <1>2, CalmKeeps

(* A target writes to the file it has opened.                               *)
LEMMA TargetFds ==
  ASSUME FdsInv, LogInv, stage = "targets", stage' \in {"targets", "started"},
         UNCHANGED <<std, tty_fd>>, NEW t, log' = WithTarget(log, t),
         IsTable(fds'), Grown(fds, fds', {"logfile"}),
         Writes(t) => t.fd \in DOMAIN fds /\ t.fd > 2 /\ fds'[t.fd] = "logfile"
  PROVE  FdsInv'
<1>1. IsTable(fds) /\ FilesKept
  BY KeptParts
<1>2. log'.targets = Append(log.targets, t)
  BY DEF WithTarget
<1>3. /\ DOMAIN log'.targets = DOMAIN log.targets \cup {Len(log.targets) + 1}
      /\ \A n \in DOMAIN log.targets : log'.targets[n] = log.targets[n]
      /\ log'.targets[Len(log.targets) + 1] = t
  BY <1>2, AnyAppend DEF LogInv
<1>4. FilesKept'
  BY <1>1, <1>3 DEF FilesKept, Grown
<1>5. SameKind /\ stage # "loop" /\ stage' # "loop"
  BY DEF SameKind, BeforeStd, BeforeDrop, Late, TtyStages
<1>6. {"logfile"} \cap {"tty", "signals", "closed"} = {} /\ {"logfile"} \cap Passing = {}
  BY DEF Passing
<1> QED
  BY <1>4, <1>5, <1>6, GrowKeeps

LEMMA DefaultTargetFds ==
  ASSUME FdsInv, LogInv, DefaultTarget
  PROVE  FdsInv'
<1>1. stage = "targets" /\ stage' = "started" /\ UNCHANGED <<fds, std, tty_fd>>
  BY DEF DefaultTarget
<1>2. Grown(fds, fds', {"logfile"}) /\ IsTable(fds')
  BY <1>1, KeptParts DEF Grown
<1>3. ~Writes(NewTarget(DefaultConf, TRUE, 0))
  BY DEF Writes, NewTarget, DefaultConf
<1>4. CASE log' = WithTarget(log, NewTarget(DefaultConf, TRUE, 0))
  BY <1>1, <1>2, <1>3, <1>4, TargetFds
<1>5. CASE log' = log
  <2>1. SameKind
    BY <1>1 DEF SameKind, BeforeStd, BeforeDrop, Late, TtyStages
  <2> QED
    BY <1>1, <1>5, <2>1, CalmKeeps
<1> QED
  BY <1>4, <1>5 DEF DefaultTarget

LEMMA AddTargetFds ==
  ASSUME FdsInv, LogInv, AddTarget
  PROVE  FdsInv'
<1> DEFINE conf == ConfOf[opt.log_targets_[Len(log.targets) + 1]]
           file == conf.type = "file"
<1>1. stage = "targets" /\ UNCHANGED <<std, tty_fd>>
  BY Zenon DEF AddTarget
<1>2. IsTable(fds) /\ (~Full(fds) => Lowest(fds) > 2)
  BY <1>1, KeptParts, StdTaken DEF BeforeStd, BeforeDrop
<1> HIDE DEF conf
<1>3. Grown(fds, fds, {"logfile"})
  BY DEF Grown
<1>4. CASE /\ file => ~Full(fds)
           /\ log' = WithTarget(log, NewTarget(conf, file, Lowest(fds)))
           /\ fds' = IF file THEN Opened(fds, "logfile") ELSE fds
           /\ stage' = stage
  <2>1. IsTable(fds') /\ Grown(fds, fds', {"logfile"})
    BY <1>2, <1>3, <1>4, TableOpened
  <2> DEFINE t == NewTarget(conf, file, Lowest(fds))
  <2>2. Writes(t) => file /\ t.fd = Lowest(fds)
    BY DEF Writes, NewTarget, SyslogOpens, FileOpens
  <2>3. file => Lowest(fds) \in DOMAIN fds /\ fds'[Lowest(fds)] = "logfile"
    BY <1>2, <1>4, LowestFree, LowestOpened
  <2> HIDE DEF t
  <2>4. Writes(t) => t.fd \in DOMAIN fds /\ t.fd > 2 /\ fds'[t.fd] = "logfile"
    BY <1>2, <1>4, <2>2, <2>3
  <2>5. log' = WithTarget(log, t)
    BY <1>4 DEF t
  <2> QED
    BY <1>1, <1>4, <2>1, <2>4, <2>5, TargetFds
<1>5. CASE log' = WithTarget(log, NewTarget(conf, FALSE, 0)) /\ fds' = fds /\ stage' = stage
  <2>1. ~Writes(NewTarget(conf, FALSE, 0))
    BY DEF Writes, NewTarget, SyslogOpens, FileOpens
  <2> QED
    BY <1>1, <1>2, <1>3, <1>5, <2>1, TargetFds
<1>6. CASE UNCHANGED <<log, fds>> /\ stage' = "refused"
  <2>1. SameKind
    BY <1>1, <1>6 DEF SameKind, BeforeStd, BeforeDrop, Late, TtyStages
  <2> QED
    BY <1>1, <1>6, <2>1, CalmKeeps
<1> QED
  BY <1>4, <1>5, <1>6, Zenon DEF AddTarget, Refuse, conf
LEMMA JustStartedFds ==
  ASSUME FdsInv, JustStarted
  PROVE  FdsInv'
<1>1. stage = "started" /\ stage' = "powerids_" /\ UNCHANGED <<log, std, tty_fd>>
  BY DEF JustStarted
<1>2. IsTable(fds') /\ Grown(fds, fds', {"syslog"})
  BY <1>1, KeptParts, TableLogged DEF JustStarted
<1>3. SameKind
  BY <1>1 DEF SameKind, BeforeStd, BeforeDrop, Late, TtyStages
<1>4. {"syslog"} \cap {"tty", "signals", "closed"} = {} /\ {"syslog"} \cap Passing = {}
  BY DEF Passing
<1> QED
  BY <1>1, <1>2, <1>3, <1>4, GrowKeeps

LEMMA FileFds ==
  ASSUME FdsInv, NEW store \in Reads, OpenFile(store) \/ CloseFile(store)
  PROVE  FdsInv'
<1>1. stage = store /\ UNCHANGED <<log, std, tty_fd>> /\ IsTable(fds) /\ fds[0] # "closed"
  <2>1. stage = store /\ UNCHANGED <<log, std, tty_fd>>
    BY DEF OpenFile, CloseFile
  <2>2. stage \in BeforeStd /\ stage # "exited"
    BY <2>1 DEF Reads, BeforeStd, BeforeDrop
  <2> QED
    BY <2>1, <2>2, KeptParts, StdTaken
<1>2. stage' \in {store, StageBehind(store), "refused"}
  BY <1>1 DEF OpenFile, CloseFile, Refuse
<1>3. SameKind /\ stage # "loop" /\ stage' # "loop"
  BY <1>1, <1>2 DEF Reads, StageBehind, SameKind, BeforeStd, BeforeDrop, Late, TtyStages
<1>4. CASE fds' = fds
  BY <1>1, <1>3, <1>4, CalmKeeps
<1>5. CASE fds' = Opened(fds, "conf")
  <2>1. IsTable(fds') /\ Grown(fds, fds', {"conf"})
    BY <1>1, <1>5, TableOpened
  <2>2. {"conf"} \cap {"tty", "signals", "closed"} = {}
    OBVIOUS
  <2> QED
    BY <1>1, <1>3, <2>1, <2>2, GrowKeeps
<1>6. CASE fds' = Closed(fds, "conf")
  BY <1>1, <1>3, <1>6, CloseKeeps
<1> QED
  BY <1>4, <1>5, <1>6 DEF OpenFile, CloseFile

LEMMA PidFileFds ==
  ASSUME FdsInv, OpenPidFile \/ WritePid
  PROVE  FdsInv'
<1>1. CASE OpenPidFile
  <2>1. stage = "pidfile" /\ stage' = "chroot" /\ UNCHANGED <<log, std, tty_fd>>
    BY <1>1 DEF OpenPidFile
  <2>2. SameKind
    BY <2>1 DEF SameKind, BeforeStd, BeforeDrop, Late, TtyStages
  <2>3. IsTable(fds) /\ fds[0] # "closed"
    BY <2>1, KeptParts, StdTaken DEF BeforeStd, BeforeDrop
  <2>4. CASE fds' = fds
    BY <2>1, <2>2, <2>4, CalmKeeps
  <2>5. CASE fds' = Opened(fds, "pidfile")
    <3>1. IsTable(fds') /\ Grown(fds, fds', {"pidfile"})
      BY <2>3, <2>5, TableOpened
    <3>2. {"pidfile"} \cap {"tty", "signals", "closed"} = {}
      OBVIOUS
    <3> QED
      BY <2>1, <2>2, <2>3, <3>1, <3>2, GrowKeeps
  <2>6. CASE fds' = Logged(fds, 2)
    <3>1. IsTable(fds') /\ Grown(fds, fds', {"syslog"})
      BY <2>3, <2>6, TableLogged
    <3>2. {"syslog"} \cap {"tty", "signals", "closed"} = {}
      OBVIOUS
    <3> QED
      BY <2>1, <2>2, <2>3, <3>1, <3>2, GrowKeeps
  <2> QED
    BY <1>1, <2>4, <2>5, <2>6 DEF OpenPidFile
<1>2. CASE WritePid
  <2>1. /\ stage = "writepid" /\ stage' = "autosample" /\ UNCHANGED <<log, std, tty_fd>>
        /\ fds' = Closed(fds, "pidfile")
    BY <1>2 DEF WritePid
  <2>2. SameKind
    BY <2>1 DEF SameKind, BeforeStd, BeforeDrop, Late, TtyStages
  <2> QED
    BY <2>1, <2>2, CloseKeeps
<1> QED
  BY <1>1, <1>2

(* The three become /dev/null, from the lowest one on.                      *)
LEMMA StdIsNull ==
  ASSUME IsTable(fds)
  PROVE  /\ IsTable(StdClosed) /\ DOMAIN StdClosed = DOMAIN fds
         /\ \A n \in DOMAIN fds : StdClosed[n] = IF n <= 2 THEN "closed" ELSE fds[n]
         /\ \A t \in StdReopened : /\ IsTable(t) /\ Grown(StdClosed, t, {"null"})
                                   /\ \A n \in 0 .. 2 : t[n] = "null"
<1>1. PICK m \in Nat : m > 2 /\ DOMAIN fds = 0 .. m
  BY DEF IsTable
<1>2. /\ IsTable(StdClosed) /\ DOMAIN StdClosed = 0 .. m
      /\ \A n \in 0 .. m : StdClosed[n] = IF n <= 2 THEN "closed" ELSE fds[n]
  BY <1>1 DEF StdClosed, IsTable
<1> DEFINE t1 == Opened(StdClosed, "null")
           t2 == Opened(t1, "null")
           t3 == Opened(t2, "null")
<1>3. ASSUME NEW t, IsTable(t), DOMAIN t = 0 .. m, NEW k \in 0 .. 2, t[k] = "closed",
             \A n \in 0 .. k - 1 : t[n] # "closed"
      PROVE  LET u == Opened(t, "null")
             IN /\ IsTable(u) /\ DOMAIN u = 0 .. m /\ u[k] = "null"
                /\ Grown(t, u, {"null"}) /\ \A n \in 0 .. m : n # k => u[n] = t[n]
  <2>1. ~Full(t) /\ k \in 0 .. m
    BY <1>1, <1>3 DEF Full
  <2>2. Lowest(t) \in 0 .. m /\ t[Lowest(t)] = "closed" /\ Lowest(t) <= k
    BY <1>3, <2>1, LowestFree
  <2>3. Lowest(t) = k
    BY <1>3, <2>2
  <2> QED
    BY <1>3, <2>1, <2>3, TableOpened, LowestOpened DEF Grown
<1>4. /\ IsTable(t1) /\ DOMAIN t1 = 0 .. m /\ t1[0] = "null"
      /\ Grown(StdClosed, t1, {"null"}) /\ \A n \in 0 .. m : n # 0 => t1[n] = StdClosed[n]
  <2>1. StdClosed[0] = "closed" /\ \A n \in 0 .. 0 - 1 : StdClosed[n] # "closed"
    BY <1>1, <1>2
  <2> QED
    BY <1>2, <1>3, <2>1
<1>5. /\ IsTable(t2) /\ DOMAIN t2 = 0 .. m /\ t2[1] = "null"
      /\ Grown(t1, t2, {"null"}) /\ \A n \in 0 .. m : n # 1 => t2[n] = t1[n]
  <2> HIDE DEF t1
  <2>1. t1[1] = "closed" /\ \A n \in 0 .. 1 - 1 : t1[n] # "closed"
    BY <1>1, <1>2, <1>4
  <2> QED
    BY <1>3, <1>4, <2>1
<1>6. /\ IsTable(t3) /\ DOMAIN t3 = 0 .. m /\ t3[2] = "null"
      /\ Grown(t2, t3, {"null"}) /\ \A n \in 0 .. m : n # 2 => t3[n] = t2[n]
  <2>1. t2[2] = "closed" /\ \A n \in 0 .. 2 - 1 : t2[n] # "closed"
    <3> HIDE DEF t1, t2
    <3>1. t2[2] = t1[2] /\ t1[2] = StdClosed[2] /\ StdClosed[2] = "closed"
      BY <1>1, <1>2, <1>4, <1>5
    <3>2. t2[0] = t1[0]
      BY <1>1, <1>5
    <3>3. \A n \in 0 .. 2 - 1 : n = 0 \/ n = 1
      OBVIOUS
    <3> QED
      BY <1>4, <1>5, <3>1, <3>2, <3>3
  <2> HIDE DEF t2
  <2> QED
    BY <1>3, <1>5, <2>1
<1>7. StdReopened = {t3}
  BY DEF StdReopened
<1> HIDE DEF t1, t2, t3
<1>8. Grown(StdClosed, t3, {"null"})
  BY <1>4, <1>5, <1>6 DEF Grown
<1>9. \A n \in 0 .. 2 : t3[n] = "null"
  <2>1. t3[0] = "null" /\ t3[1] = "null" /\ t3[2] = "null"
    BY <1>1, <1>4, <1>5, <1>6
  <2>2. \A n \in 0 .. 2 : n = 0 \/ n = 1 \/ n = 2
    OBVIOUS
  <2> QED
    BY <2>1, <2>2
<1> QED
  BY <1>1, <1>2, <1>6, <1>7, <1>8, <1>9

LEMMA StdMayFail ==
  ASSUME IsTable(fds), NEW t \in StdFailures
  PROVE  IsTable(t) /\ Grown(StdClosed, t, {"null", "syslog"})
<1>1. IsTable(StdClosed)
  BY StdIsNull
<1>2. CASE t = Logged(StdClosed, 2)
  BY <1>1, <1>2, TableLogged DEF Grown
<1>3. CASE t = Logged(Opened(Opened(StdClosed, "null"), "null"), 2)
  <2> DEFINE u == Opened(StdClosed, "null")
             v == Opened(u, "null")
  <2>1. IsTable(u) /\ Grown(StdClosed, u, {"null"})
    BY <1>1, TableOpened
  <2>2. IsTable(v) /\ Grown(u, v, {"null"})
    <3> HIDE DEF u
    <3> QED
      BY <2>1, TableOpened
  <2>3. IsTable(t) /\ Grown(v, t, {"syslog"})
    <3>1. t = Logged(v, 2)
      BY <1>3
    <3> HIDE DEF v
    <3> QED
      BY <2>2, <3>1, TableLogged
  <2> HIDE DEF u, v
  <2> QED
    BY <2>1, <2>2, <2>3 DEF Grown
<1> QED
  BY <1>2, <1>3 DEF StdFailures

LEMMA DaemonizeFds ==
  ASSUME FdsInv, Daemonize
  PROVE  FdsInv'
<1>1. stage = "daemonize" /\ UNCHANGED <<log, tty_fd>>
  BY Zenon DEF Daemonize
<1>2. IsTable(fds) /\ StdKept /\ FilesKept /\ ZeroKept /\ TtyKept /\ ~IsOpen("signals")
  BY <1>1, KeptParts
<1>3. CASE stage' = "exited"
  BY <1>3 DEF FdsInv
<1>4. CASE stage' = "writepid" /\ UNCHANGED <<fds, std>>
  <2>1. SameKind
    BY <1>1, <1>4 DEF SameKind, BeforeStd, BeforeDrop, Late, TtyStages
  <2> QED
    BY <1>1, <1>4, <2>1, CalmKeeps
<1>5. ASSUME stage' = "writepid", IsTable(fds'), Grown(StdClosed, fds', {"null", "syslog"}), StdKept'
      PROVE  FdsInv'
  <2>1. PICK m \in Nat : m > 2 /\ DOMAIN fds = 0 .. m
    BY <1>2 DEF IsTable
  <2>2. /\ DOMAIN fds' = 0 .. m
        /\ \A n \in 0 .. m : n > 2 => fds'[n] = fds[n] \/ (fds[n] = "closed" /\ fds'[n] \in {"null", "syslog"})
        /\ \A n \in 0 .. m : n <= 2 => fds'[n] \in {"closed", "null", "syslog"}
    BY <1>2, <1>5, <2>1, StdIsNull DEF Grown
  <2>3. FilesKept'
    BY <1>1, <1>2, <2>1, <2>2 DEF FilesKept
  <2>4. ZeroKept'
    BY <1>5, <2>1, <2>2 DEF ZeroKept, Passing, Late
  <2>5. \A n \in 0 .. m : fds'[n] # "tty" /\ fds'[n] # "signals"
    BY <1>1, <1>2, <2>1, <2>2 DEF TtyKept, IsOpen, TtyStages, Late
  <2>6. TtyKept'
    BY <1>5, <2>2, <2>5 DEF TtyKept, TtyStages, Late
  <2>7. ~IsOpen("signals")'
    BY <2>2, <2>5 DEF IsOpen
  <2>8. stage' \notin BeforeStd
    BY <1>5 DEF BeforeStd, BeforeDrop
  <2> QED
    BY <1>5, <2>3, <2>4, <2>6, <2>7, <2>8 DEF FdsInv
<1>6. CASE stage' = "writepid" /\ fds' \in StdReopened
  <2>1. IsTable(fds') /\ Grown(StdClosed, fds', {"null"}) /\ \A n \in 0 .. 2 : fds'[n] = "null"
    BY <1>2, <1>6, StdIsNull
  <2>2. Grown(StdClosed, fds', {"null", "syslog"}) /\ StdKept'
    BY <2>1 DEF Grown, StdKept
  <2> QED
    BY <1>5, <1>6, <2>1, <2>2
<1>7. CASE stage' = "writepid" /\ fds' \in StdFailures /\ std' = "failed"
  <2>1. StdKept'
    BY <1>7 DEF StdKept
  <2> QED
    BY <1>2, <1>5, <1>7, <2>1, StdMayFail
<1> QED
  BY <1>3, <1>4, <1>6, <1>7, Zenon DEF Daemonize
LEMMA StartChildFds ==
  ASSUME FdsInv, StartChild
  PROVE  FdsInv'
<1> DEFINE two == Opened(Opened(fds, "data"), "pipe")
           three == Opened(two, "pipe")
           four == Opened(three, "control")
<1>1. stage = "autosample" /\ stage' \in {"socket", "refused"} /\ UNCHANGED <<log, std, tty_fd>>
  BY DEF StartChild, Refuse
<1>2. SameKind /\ stage # "loop" /\ stage' # "loop"
  BY <1>1 DEF SameKind, BeforeStd, BeforeDrop, Late, TtyStages
<1>3. CASE fds' = fds
  BY <1>1, <1>2, <1>3, CalmKeeps
<1>4. CASE fds' = Closed(four, "pipe")
  <2>1. IsTable(fds) /\ fds[0] \notin Passing /\ \A n \in DOMAIN fds : fds[n] # "tty" /\ fds[n] # "signals"
    BY <1>1, KeptParts DEF ZeroKept, TtyKept, IsOpen, TtyStages, Late
  <2>2. IsTable(Opened(fds, "data")) /\ Grown(fds, Opened(fds, "data"), {"data"})
    BY <2>1, TableOpened
  <2>3. IsTable(two) /\ Grown(Opened(fds, "data"), two, {"pipe"})
    BY <2>2, TableOpened
  <2>4. IsTable(three) /\ Grown(two, three, {"pipe"})
    <3> HIDE DEF two
    <3> QED
      BY <2>3, TableOpened
  <2>5. IsTable(four) /\ Grown(three, four, {"control"})
    <3> HIDE DEF three
    <3> QED
      BY <2>4, TableOpened
  <2>6. /\ DOMAIN four = DOMAIN fds
        /\ \A n \in DOMAIN fds : \/ four[n] = fds[n]
                                 \/ fds[n] = "closed" /\ four[n] \in {"data", "pipe", "control"}
    <3> HIDE DEF two, three, four
    <3> QED
      BY <2>2, <2>3, <2>4, <2>5 DEF Grown
  <2>7. /\ IsTable(fds') /\ DOMAIN fds' = DOMAIN four
        /\ \A n \in DOMAIN four : fds'[n] = IF four[n] = "pipe" THEN "closed" ELSE four[n]
    <3> HIDE DEF four
    <3> QED
      BY <1>4, <2>5, TableClosed
  <2> HIDE DEF two, three, four
  <2>8. PICK m \in Nat : m > 2 /\ DOMAIN fds = 0 .. m
    BY <2>1 DEF IsTable
  <2>9. /\ StdKept /\ FilesKept
    BY <1>1, KeptParts
  <2>10. StdKept'
    BY <1>1, <2>6, <2>7, <2>8, <2>9 DEF StdKept
  <2>11. FilesKept'
    BY <1>1, <2>6, <2>7, <2>8, <2>9 DEF FilesKept
  <2>12. ZeroKept'
    BY <1>1, <2>1, <2>6, <2>7, <2>8 DEF ZeroKept, Passing, Late
  <2>13. \A n \in DOMAIN fds' : fds'[n] # "tty" /\ fds'[n] # "signals"
    BY <2>1, <2>6, <2>7
  <2>14. TtyKept' /\ ~IsOpen("signals")'
    BY <1>1, <2>13 DEF TtyKept, IsOpen, TtyStages, Late
  <2>15. stage' \notin BeforeStd \/ stage' = "refused"
    BY <1>1 DEF BeforeStd, BeforeDrop
  <2>16. "refused" \notin BeforeStd
    BY DEF BeforeStd, BeforeDrop
  <2> QED
    BY <2>7, <2>10, <2>11, <2>12, <2>14, <2>15, <2>16 DEF FdsInv
<1> QED
  BY <1>3, <1>4 DEF StartChild

(* When the socket is open, so is descriptor 0.                             *)
LEMMA SocketFds ==
  ASSUME FdsInv, InitCommandSocket
  PROVE  FdsInv'
<1>1. stage = "socket" /\ UNCHANGED <<log, std, tty_fd>> /\ stage' \in {"open", "exited", "refused"}
  BY DEF InitCommandSocket, Refuse
<1>2. IsTable(fds) /\ IsTable(Opened(fds, "socket")) /\ Grown(fds, Opened(fds, "socket"), {"socket"})
  BY <1>1, KeptParts, TableOpened
<1>3. CASE stage' = "exited"
  BY <1>3 DEF FdsInv
<1>4. CASE stage' = "refused" /\ fds' \in {fds, Opened(fds, "socket")}
  <2>1. SameKind
    BY <1>1, <1>4 DEF SameKind, BeforeStd, BeforeDrop, Late, TtyStages
  <2>2. IsTable(fds') /\ Grown(fds, fds', {"socket"})
    BY <1>2, <1>4 DEF Grown
  <2>3. {"socket"} \cap {"tty", "signals", "closed"} = {} /\ {"socket"} \cap Passing = {}
    BY DEF Passing
  <2> QED
    BY <1>1, <1>4, <2>1, <2>2, <2>3, GrowKeeps
<1>5. CASE stage' = "open" /\ ~Full(fds) /\ fds' = Logged(Opened(fds, "socket"), 4)
  <2> DEFINE u == Opened(fds, "socket")
  <2>1. u[0] # "closed"
    BY <1>2, <1>5, LowestOpened
  <2>2. 0 \in DOMAIN u
    BY <1>2 DEF IsTable
  <2>3. IsTable(fds') /\ Grown(u, fds', {"syslog"})
    <3> HIDE DEF u
    <3> QED
      BY <1>2, <1>5, TableLogged DEF u
  <2>4. fds'[0] # "closed" /\ Grown(fds, fds', {"socket", "syslog"})
    <3> HIDE DEF u
    <3>1. Grown(fds, u, {"socket"})
      BY <1>2 DEF u
    <3> QED
      BY <2>1, <2>2, <2>3, <3>1 DEF Grown
  <2>5. SameKind
    BY <1>1, <1>5, <2>4 DEF SameKind, BeforeStd, BeforeDrop, Late, TtyStages
  <2>6. /\ {"socket", "syslog"} \cap {"tty", "signals", "closed"} = {}
        /\ {"socket", "syslog"} \cap Passing = {}
    BY DEF Passing
  <2> QED
    BY <1>1, <1>5, <2>3, <2>4, <2>5, <2>6, GrowKeeps
<1> QED
  BY <1>1, <1>3, <1>4, <1>5 DEF InitCommandSocket, Refuse

LEMMA OpenTtyFds ==
  ASSUME FdsInv, OpenTty
  PROVE  FdsInv'
<1>1. stage = "open" /\ UNCHANGED <<log, std>>
  BY DEF OpenTty
<1>2. /\ IsTable(fds) /\ StdKept /\ FilesKept
      /\ fds[0] \notin Passing /\ fds[0] # "closed"
      /\ \A n \in DOMAIN fds : fds[n] # "tty" /\ fds[n] # "signals"
  BY <1>1, KeptParts DEF ZeroKept, TtyKept, IsOpen, TtyStages, Late
<1>3. PICK m \in Nat : m > 2 /\ DOMAIN fds = 0 .. m
  BY <1>2 DEF IsTable
<1>4. CASE ~Full(fds) /\ tty_fd' = Lowest(fds) /\ fds' = Opened(fds, "tty") /\ stage' = "setup"
  <2>1. /\ IsTable(fds') /\ DOMAIN fds' = 0 .. m
        /\ Lowest(fds) \in 0 .. m /\ fds[Lowest(fds)] = "closed" /\ Lowest(fds) > 0
        /\ fds'[Lowest(fds)] = "tty"
        /\ \A n \in 0 .. m : n # Lowest(fds) => fds'[n] = fds[n]
    BY <1>2, <1>3, <1>4, TableOpened, LowestFree, LowestOpened DEF Grown
  <2>2. StdKept'
    BY <1>1, <1>2, <1>3, <2>1 DEF StdKept
  <2>3. FilesKept'
    BY <1>1, <1>2, <1>3, <2>1 DEF FilesKept
  <2>4. ZeroKept'
    BY <1>2, <1>3, <2>1 DEF ZeroKept
  <2>5. TtyKept'
    BY <1>2, <1>3, <1>4, <2>1 DEF TtyKept, TtyStages, Late
  <2>6. ~IsOpen("signals")'
    BY <1>2, <1>3, <2>1 DEF IsOpen
  <2>7. stage' \notin BeforeStd
    BY <1>4 DEF BeforeStd, BeforeDrop
  <2> QED
    BY <2>1, <2>2, <2>3, <2>4, <2>5, <2>6, <2>7 DEF FdsInv
<1>5. CASE tty_fd' = -1 /\ fds' = fds /\ stage' = "sleep"
  <2>1. StdKept' /\ FilesKept' /\ ZeroKept'
    BY <1>1, <1>2, <1>5 DEF StdKept, FilesKept, ZeroKept
  <2>2. TtyKept' /\ ~IsOpen("signals")'
    BY <1>2, <1>5 DEF TtyKept, IsOpen, TtyStages, Late
  <2>3. stage' \notin BeforeStd
    BY <1>5 DEF BeforeStd, BeforeDrop
  <2> QED
    BY <1>2, <1>5, <2>1, <2>2, <2>3 DEF FdsInv
<1> QED
  BY <1>4, <1>5 DEF OpenTty

LEMMA EnterLoopFds ==
  ASSUME FdsInv, EnterLoop
  PROVE  FdsInv'
<1>1. stage = "enter" /\ UNCHANGED <<log, std, tty_fd>>
  BY DEF EnterLoop
<1>2. IsTable(fds) /\ StdKept /\ FilesKept /\ ZeroKept /\ TtyKept /\ fds[0] # "closed"
  BY <1>1, KeptParts DEF ZeroKept, Late
<1>3. CASE stage' = "shutdown" /\ fds' = fds
  <2>1. SameKind
    BY <1>1, <1>3 DEF SameKind, BeforeStd, BeforeDrop, Late, TtyStages
  <2> QED
    BY <1>1, <1>3, <2>1, CalmKeeps
<1>4. CASE stage' = "loop" /\ fds' = Opened(Opened(fds, "signals"), "signals")
  <2> DEFINE u == Opened(fds, "signals")
  <2>1. IsTable(u) /\ Grown(fds, u, {"signals"})
    BY <1>2, TableOpened
  <2>2. IsTable(fds') /\ Grown(u, fds', {"signals"})
    <3>1. fds' = Opened(u, "signals")
      BY <1>4
    <3> HIDE DEF u
    <3> QED
      BY <2>1, <3>1, TableOpened
  <2> HIDE DEF u
  <2>3. PICK m \in Nat : m > 2 /\ DOMAIN fds = 0 .. m
    BY <1>2 DEF IsTable
  <2>4. /\ DOMAIN fds' = 0 .. m
        /\ \A n \in 0 .. m : fds'[n] = fds[n] \/ (fds[n] = "closed" /\ fds'[n] = "signals")
    BY <2>1, <2>2, <2>3 DEF Grown
  <2>5. StdKept'
    BY <1>1, <1>2, <2>3, <2>4 DEF StdKept
  <2>6. FilesKept'
    BY <1>1, <1>2, <2>3, <2>4 DEF FilesKept
  <2>7. ZeroKept'
    BY <1>2, <2>3, <2>4 DEF ZeroKept
  <2>8. TtyKept'
    BY <1>1, <1>2, <1>4, <2>3, <2>4 DEF TtyKept, TtyStages, Late
  <2>9. stage' \notin BeforeStd
    BY <1>4 DEF BeforeStd, BeforeDrop
  <2> QED
    BY <1>4, <2>2, <2>5, <2>6, <2>7, <2>8, <2>9 DEF FdsInv
<1> QED
  BY <1>3, <1>4 DEF EnterLoop

LEMMA LeaveLoopFds ==
  ASSUME FdsInv, LeaveLoop
  PROVE  FdsInv'
<1>1. /\ stage = "loop" /\ stage' \in {"sleep", "shutdown"} /\ UNCHANGED <<log, std, tty_fd>>
      /\ fds' = Closed(fds, "signals")
  BY DEF LeaveLoop
<1>2. SameKind
  BY <1>1 DEF SameKind, BeforeStd, BeforeDrop, Late, TtyStages
<1> QED
  BY <1>1, <1>2, CloseKeeps

(* The tty is not on descriptor 0, so that the test finds it.               *)
LEMMA ReopenFds ==
  ASSUME FdsInv, Reopen
  PROVE  FdsInv'
<1>1. stage = "sleep" /\ stage' = "open" /\ UNCHANGED <<log, std, tty_fd>> /\ fds' = CloseTty(0)
  BY DEF Reopen
<1>2. /\ IsTable(fds) /\ StdKept /\ FilesKept /\ ZeroKept /\ TtyKept /\ ~IsOpen("signals")
      /\ fds[0] # "tty" /\ fds[0] # "closed"
  BY <1>1, KeptParts DEF ZeroKept, Passing, Late
<1>3. PICK m \in Nat : m > 2 /\ fds = [n \in 0 .. m |-> fds[n]]
  BY <1>2 DEF IsTable
<1>4. tty_fd = -1 \/ (tty_fd \in 1 .. m /\ fds[tty_fd] = "tty")
  <2>1. tty_fd = -1 \/ (tty_fd \in 0 .. m /\ fds[tty_fd] = "tty")
    BY <1>1, <1>2, <1>3 DEF TtyKept, TtyStages, Late
  <2> QED
    BY <1>2, <2>1
<1>5. fds' = [n \in 0 .. m |-> IF n = tty_fd THEN "closed" ELSE fds[n]]
  <2>1. CASE tty_fd = -1
    <3>1. fds' = fds /\ \A n \in 0 .. m : n # tty_fd
      BY <1>1, <2>1 DEF CloseTty
    <3>2. [n \in 0 .. m |-> IF n = tty_fd THEN "closed" ELSE fds[n]] = [n \in 0 .. m |-> fds[n]]
      BY <3>1
    <3> QED
      BY <1>3, <3>1, <3>2
  <2>2. CASE tty_fd \in 1 .. m
    <3>1. fds' = [fds EXCEPT ![tty_fd] = "closed"]
      BY <1>1, <2>2 DEF CloseTty
    <3>2. DOMAIN fds = 0 .. m
      BY <1>3
    <3> QED
      BY <3>1, <3>2
  <2> QED
    BY <1>4, <2>1, <2>2
<1>6. DOMAIN fds = 0 .. m /\ DOMAIN fds' = 0 .. m /\ IsTable(fds')
  BY <1>3, <1>5 DEF IsTable
<1>7. \A n \in 0 .. m : fds[n] = "tty" => n = tty_fd
  BY <1>2, <1>6 DEF TtyKept
<1>8. /\ \A n \in 0 .. m : fds'[n] # "tty"
      /\ \A n \in 0 .. m : fds[n] # "tty" => fds'[n] = fds[n]
      /\ \A n \in 0 .. m : fds'[n] = fds[n] \/ fds'[n] = "closed"
  BY <1>4, <1>5, <1>7
<1>9. StdKept'
  BY <1>1, <1>2, <1>3, <1>6, <1>8 DEF StdKept
<1>10. FilesKept'
  BY <1>1, <1>2, <1>6, <1>8 DEF FilesKept
<1>11. ZeroKept'
  BY <1>2, <1>3, <1>8 DEF ZeroKept
<1>12. TtyKept' /\ ~IsOpen("signals")'
  BY <1>1, <1>2, <1>6, <1>8 DEF TtyKept, IsOpen, TtyStages
<1>13. stage' \notin BeforeStd
  BY <1>1 DEF BeforeStd, BeforeDrop
<1> QED
  BY <1>6, <1>9, <1>10, <1>11, <1>12, <1>13 DEF FdsInv

LEMMA EndFds ==
  ASSUME Shutdown \/ ExitRefused \/ Killed
  PROVE  FdsInv'
  BY DEF Shutdown, ExitRefused, Killed, Exit, FdsInv

LEMMA StutterFds ==
  ASSUME FdsInv, UNCHANGED vars
  PROVE  FdsInv'
<1>1. UNCHANGED <<stage, fds, log, std, tty_fd>>
  BY DEF vars
<1> QED
  BY <1>1 DEF FdsInv, StdKept, FilesKept, ZeroKept, TtyKept, IsOpen

LEMMA StepKeepsFds == FdsInv /\ LogInv /\ [Next]_vars => FdsInv'
<1> SUFFICES ASSUME FdsInv, LogInv, [Next]_vars
             PROVE  FdsInv'
  OBVIOUS
<1>1. CASE Configure
  <2>1. CASE ReadFiles
    BY <2>1, CalmFds, FileFds DEF ReadFiles, CalmStep, Reads
  <2> QED
    BY <1>1, <2>1, ParseFds, DefaultTargetFds, AddTargetFds, CalmFds, JustStartedFds
    DEF Configure, CalmStep
<1>2. CASE Settle
  BY <1>2, CalmFds, PidFileFds, DaemonizeFds, StartChildFds, SocketFds DEF Settle, CalmStep
<1>3. CASE Serve
  BY <1>3, OpenTtyFds, CalmFds, EnterLoopFds, LeaveLoopFds, ReopenFds, EndFds DEF Serve, CalmStep
<1>4. CASE ExitRefused \/ Killed
  BY <1>4, EndFds
<1>5. CASE Terminated \/ UNCHANGED vars
  BY <1>5, StutterFds DEF Terminated
<1> QED
  BY <1>1, <1>2, <1>3, <1>4, <1>5 DEF Next
LEMMA StartFds == Init => FdsInv
<1> SUFFICES ASSUME Init
             PROVE  FdsInv
  OBVIOUS
<1>1. /\ stage = "start" /\ log.targets = <<>> /\ std = "no"
  BY DEF Init, NoLog
<1>2. PICK m \in Limits : fds = [n \in 0 .. m |-> IF n <= 2 THEN "inherited" ELSE "closed"]
  BY DEF Init
<1>3. m \in Nat /\ m > 2
  BY BoundsAssumption
<1>4. IsTable(fds)
  BY <1>2, <1>3 DEF IsTable
<1>5. /\ DOMAIN fds = 0 .. m
      /\ \A n \in 0 .. m : fds[n] = IF n <= 2 THEN "inherited" ELSE "closed"
  BY <1>2
<1>6. StdKept /\ FilesKept
  BY <1>1, <1>3, <1>5 DEF StdKept, FilesKept
<1>7. ZeroKept
  BY <1>1, <1>3, <1>5 DEF ZeroKept, Passing, Late
<1>8. TtyKept /\ ~IsOpen("signals")
  BY <1>1, <1>5 DEF TtyKept, IsOpen, TtyStages, Late
<1> QED
  BY <1>1, <1>4, <1>6, <1>7, <1>8 DEF FdsInv

(* Every way out is told.                                                   *)
LEMMA StepEnds == EndInv /\ [Next]_vars => EndInv'
<1> SUFFICES ASSUME EndInv, [Next]_vars, stage' = "exited"
             PROVE  end' # "no"
  BY DEF EndInv
<1>1. CASE Configure
  <2>1. CASE ParseOptions
    BY <2>1 DEF ParseOptions, Defaults, ParseHelp, ParseNoDaemonize, ParseMissing, ParseString,
       ParseLog, ParseKeyValue, ParseUnknown, ParseDone, Parsing, Usage
  <2>2. CASE DefaultTarget \/ AddTarget \/ TargetsDone \/ JustStarted \/ ReadFiles \/ CheckDevices
    <3>1. EarlyStep
      BY <2>2 DEF EarlyStep
    <3> QED
      BY <3>1, EarlyStages DEF BeforeDrop
  <2> QED
    BY <1>1, <2>1, <2>2 DEF Configure
<1>2. CASE Settle
  <2>1. CASE PrivInit \/ OpenPidFile \/ Chroot
    <3>1. EarlyStep
      BY <2>1 DEF EarlyStep
    <3> QED
      BY <3>1, EarlyStages DEF BeforeDrop
  <2>2. CASE PrivDrop \/ WritePid \/ NoChild \/ StartChild
    BY <2>2 DEF PrivDrop, WritePid, NoChild, StartChild, Refuse
  <2>3. CASE Daemonize
    BY <2>3, Zenon DEF Daemonize
  <2>4. CASE InitCommandSocket
    BY <2>4 DEF InitCommandSocket, Refuse
  <2> QED
    BY <1>2, <2>1, <2>2, <2>3, <2>4 DEF Settle
<1>3. CASE OpenTty \/ SetupTty \/ ClearTty \/ EnterLoop \/ LeaveLoop \/ Reopen
  BY <1>3 DEF OpenTty, SetupTty, ClearTty, EnterLoop, LeaveLoop, Reopen
<1>4. CASE Shutdown \/ ExitRefused \/ Killed
  BY <1>4 DEF Shutdown, ExitRefused, Killed, Exit, CloseLog
<1>5. CASE Terminated \/ UNCHANGED vars
  BY <1>5 DEF Terminated, vars, EndInv
<1> QED
  BY <1>1, <1>2, <1>3, <1>4, <1>5 DEF Next, Serve

Harmless == {"inherited", "null", "logfile", "syslog", "closed"}

LEMMA FileIsOpen ==
  ASSUME FdsInv, end = "no", EndInv, std # "failed", NEW n \in DOMAIN log.targets
  PROVE  Sink(log.targets[n]) \in {"inherited", "null", "logfile", "syslog", "closed"}
<1> DEFINE t == log.targets[n]
<1>1. StdKept /\ FilesKept
  BY KeptParts DEF EndInv
<1>2. fds[1] \in {"inherited", "null"} /\ fds[2] \in {"inherited", "null"}
  BY <1>1 DEF StdKept
<1>3. Writes(t) => fds[t.fd] = "logfile"
  BY <1>1 DEF FilesKept
<1> HIDE DEF t
<1>4. t.type = "stdout" => Sink(t) \in Harmless
  BY <1>2 DEF Sink, Harmless
<1>5. t.type = "stderr" => Sink(t) \in Harmless
  BY <1>2 DEF Sink, Harmless
<1>6. t.type = "syslog" => Sink(t) \in Harmless
  BY DEF Sink, Harmless
<1>7. t.type \notin {"stdout", "stderr", "syslog"} => Sink(t) \in Harmless
  BY <1>3 DEF Sink, Writes, Harmless
<1> QED
  BY <1>4, <1>5, <1>6, <1>7 DEF t, Harmless

LEMMA NothingOnTheWire == FdsInv /\ EndInv => LogStaysOffTheWire
<1> SUFFICES ASSUME FdsInv, EndInv, end = "no", std # "failed"
             PROVE  /\ \A n \in 0 .. 2 : fds[n] \in {"inherited", "null"}
                    /\ \A n \in DOMAIN log.targets :
                         Sink(log.targets[n]) \in {"inherited", "null", "logfile", "syslog", "closed"}
  BY DEF LogStaysOffTheWire
<1>1. StdKept
  BY KeptParts DEF EndInv
<1> QED
  BY <1>1, FileIsOpen DEF StdKept

(* Whatever targets the command line names, whatever fails and however few  *)
(* descriptors there are: as long as daemonize() could replace 0, 1 and 2,  *)
(* no line of the log goes to the firmware, the child or the socket         *)
(* (daemon.h:157-168).                                                      *)
THEOREM OffTheWire == Spec => []LogStaysOffTheWire
<1>1. Init => LogInv /\ EndInv
  BY EmptyLog DEF Init, EndInv
<1> QED
  BY <1>1, ParserStart, StepParses, StepKeepsLog, StartFds, StepKeepsFds, StepEnds,
     NothingOnTheWire, PTL DEF Spec

-----------------------------------------------------------------------------
(* The file that is read is closed. *)

LEMMA ConfStep ==
  ASSUME Without(fds, "conf"), [Next]_vars, ~ReadFiles
  PROVE  Without(fds', "conf")
<1>1. CASE ParseOptions \/ DefaultTarget \/ TargetsDone \/ CheckDevices
  BY <1>1 DEF ParseOptions, Defaults, ParseHelp, ParseNoDaemonize, ParseMissing, ParseString,
     ParseLog, ParseKeyValue, ParseUnknown, ParseDone, DefaultTarget, TargetsDone, CheckDevices
<1>2. CASE AddTarget
  <2>1. fds' = fds \/ fds' = Opened(fds, "logfile")
    BY <1>2, Zenon DEF AddTarget
  <2> QED
    BY <2>1, WithoutOpened
<1>3. CASE JustStarted
  BY <1>3, WithoutLogged DEF JustStarted
<1>4. CASE OpenPidFile
  <2>1. fds' = fds \/ fds' = Opened(fds, "pidfile") \/ fds' = Logged(fds, 2)
    BY <1>4 DEF OpenPidFile
  <2> QED
    BY <2>1, WithoutOpened, WithoutLogged
<1>5. CASE PrivInit \/ Chroot \/ PrivDrop \/ NoChild
  BY <1>5 DEF PrivInit, Chroot, PrivDrop, NoChild
<1>6. Without(AllClosed, "conf")
  BY DEF Without, AllClosed
<1>7. CASE Daemonize
  <2>1. fds' = fds \/ fds' \in StdReopened \cup StdFailures \/ fds' = AllClosed
    BY <1>7 DEF Daemonize
  <2> QED
    BY <1>6, <2>1, WithoutStd
<1>8. CASE WritePid
  BY <1>8, WithoutOpened DEF WritePid
<1>9. CASE StartChild
  <2> DEFINE one == Opened(fds, "data")
             two == Opened(one, "pipe")
             three == Opened(two, "pipe")
             four == Opened(three, "control")
  <2>1. Without(one, "conf")
    BY WithoutOpened
  <2>2. Without(two, "conf")
    BY <2>1, WithoutOpened
  <2>3. Without(three, "conf")
    BY <2>2, WithoutOpened
  <2>4. Without(four, "conf")
    BY <2>3, WithoutOpened
  <2>5. Without(Closed(four, "pipe"), "conf")
    BY <2>4, WithoutOpened
  <2>6. fds' = fds \/ fds' = Closed(four, "pipe")
    BY <1>9 DEF StartChild
  <2> QED
    BY <2>5, <2>6
<1>10. CASE InitCommandSocket
  <2>1. \/ fds' = fds \/ fds' = AllClosed \/ fds' = Opened(fds, "socket")
        \/ fds' = Logged(Opened(fds, "socket"), 4)
    BY <1>10 DEF InitCommandSocket
  <2>2. Without(Opened(fds, "socket"), "conf")
    BY WithoutOpened
  <2> QED
    BY <1>6, <2>1, <2>2, WithoutLogged
<1>11. CASE OpenTty \/ SetupTty \/ ClearTty
  <2>1. fds' = fds \/ fds' = Opened(fds, "tty")
    BY <1>11 DEF OpenTty, SetupTty, ClearTty
  <2> QED
    BY <2>1, WithoutOpened
<1>12. CASE EnterLoop \/ LeaveLoop
  <2>1. fds' = fds \/ fds' = Opened(Opened(fds, "signals"), "signals") \/ fds' = Closed(fds, "signals")
    BY <1>12 DEF EnterLoop, LeaveLoop
  <2>2. Without(Opened(fds, "signals"), "conf")
    BY WithoutOpened
  <2> QED
    BY <2>1, <2>2, WithoutOpened
<1>13. CASE Reopen
  BY <1>13 DEF Reopen, CloseTty, Without
<1>14. CASE Shutdown \/ ExitRefused \/ Killed
  BY <1>6, <1>14 DEF Shutdown, ExitRefused, Killed, Exit
<1>15. CASE UNCHANGED vars
  BY <1>15 DEF vars
<1> QED
  BY <1>1, <1>2, <1>3, <1>4, <1>5, <1>7, <1>8, <1>9, <1>10, <1>11, <1>12, <1>13, <1>14, <1>15
  DEF Next, Configure, Settle, Serve, Terminated

(* Outside the stages that read, only parsing changes options, and none     *)
(* goes back to reading.                                                    *)
LEMMA OthersDoNotRead ==
  ASSUME [Next]_vars, ~ReadFiles, stage \notin GivenUp, stage' \notin GivenUp
  PROVE  /\ UNCHANGED reading
         /\ stage \in Reads => UNCHANGED vars
<1>1. CASE ParseOptions
  BY <1>1 DEF ParseOptions, Defaults, ParseHelp, ParseNoDaemonize, ParseMissing, ParseString,
     ParseLog, ParseKeyValue, ParseUnknown, ParseDone, Parsing, Reads
<1>2. CASE DefaultTarget \/ AddTarget \/ TargetsDone \/ JustStarted \/ CheckDevices
  BY <1>2 DEF DefaultTarget, AddTarget, TargetsDone, JustStarted, CheckDevices, Reads
<1>3. CASE PrivInit \/ OpenPidFile \/ Chroot \/ PrivDrop
  BY <1>3 DEF PrivInit, OpenPidFile, Chroot, PrivDrop, Reads
<1>4. CASE Daemonize
  <2>1. UNCHANGED reading /\ stage = "daemonize"
    BY <1>4, Zenon DEF Daemonize
  <2> QED
    BY <2>1 DEF Reads
<1>5. CASE WritePid \/ NoChild \/ StartChild \/ InitCommandSocket
  BY <1>5 DEF WritePid, NoChild, StartChild, InitCommandSocket, Reads
<1>6. CASE Serve
  BY <1>6 DEF Serve, OpenTty, SetupTty, ClearTty, EnterLoop, LeaveLoop, Reopen, Shutdown, Exit,
     Reads, GivenUp
<1>7. CASE ExitRefused \/ Killed
  BY <1>7 DEF ExitRefused, Exit, Killed, GivenUp
<1>8. CASE Terminated \/ UNCHANGED vars
  BY <1>8 DEF Terminated, vars
<1> QED
  BY <1>1, <1>2, <1>3, <1>4, <1>5, <1>6, <1>7, <1>8 DEF Next, Configure, Settle

LEMMA GivenUpForGood ==
  ASSUME [Next]_vars, stage \in GivenUp
  PROVE  stage' \in GivenUp
<1>1. ~ParseKeyValue /\ ~ReadPiece("powerids_") /\ ~ReadPiece("sampledevs_")
  BY DEF ParseKeyValue, Parsing, ReadPiece, GivenUp
<1> QED
  BY <1>1, OthersKeepStores

LEMMA StepClosesConf == ConfInv /\ [Next]_vars => ConfInv'
<1> SUFFICES ASSUME ConfInv, [Next]_vars, stage' \notin GivenUp
             PROVE  /\ IsOpen("conf")' => reading'
                    /\ reading' => stage' \in Reads /\ Given(FileOption(stage))'
  BY DEF ConfInv
<1>0. stage \notin GivenUp
  BY GivenUpForGood
<1>1. CASE ReadFiles
  <2>1. PICK store \in Reads :
          NoFile(store) \/ OpenFile(store) \/ ReadPiece(store) \/ CloseFile(store)
    BY <1>1 DEF ReadFiles, Reads
  <2>2. stage = store /\ opt' = opt
    BY <2>1 DEF NoFile, OpenFile, ReadPiece, CloseFile
  <2>3. /\ IsOpen("conf") => reading
        /\ reading => Given(FileOption(store))
    BY <1>0, <2>2 DEF ConfInv
  <2>4. CASE NoFile(store)
    <3>1. ~reading /\ UNCHANGED <<fds, reading>>
      BY <2>3, <2>4 DEF NoFile, Given
    <3> QED
      BY <2>3, <3>1 DEF IsOpen
  <2>5. CASE OpenFile(store)
    BY <2>2, <2>5 DEF OpenFile, Refuse, Given, FileOption, GivenUp
  <2>6. CASE ReadPiece(store)
    <3>1. UNCHANGED <<fds, reading, stage>>
      BY <2>6 DEF ReadPiece, Refuse, GivenUp
    <3> QED
      BY <2>2, <2>3, <3>1 DEF IsOpen, Given, FileOption
  <2>7. CASE CloseFile(store)
    BY <2>7 DEF CloseFile, Closed, IsOpen
  <2> QED
    BY <2>1, <2>4, <2>5, <2>6, <2>7
<1>2. CASE ~ReadFiles
  <2>1. UNCHANGED reading
    BY <1>0, <1>2, OthersDoNotRead
  <2>2. CASE stage \in Reads
    <3>1. UNCHANGED <<stage, opt, fds, reading>>
      BY <1>0, <1>2, <2>2, OthersDoNotRead DEF vars
    <3> QED
      BY <1>0, <3>1 DEF ConfInv, IsOpen, Given, FileOption
  <2>3. CASE stage \notin Reads
    <3>1. ~reading /\ ~IsOpen("conf")
      BY <1>0, <2>3 DEF ConfInv
    <3>2. Without(fds', "conf")
      BY <1>2, <3>1, ConfStep DEF IsOpen, Without
    <3> QED
      BY <2>1, <3>1, <3>2 DEF IsOpen, Without
  <2> QED
    BY <2>2, <2>3
<1> QED
  BY <1>1, <1>2
LEMMA NothingKept == FdsInv /\ ConfInv => NothingLeaks
<1> SUFFICES ASSUME FdsInv, ConfInv, stage \in {"open", "sleep"}
             PROVE  /\ stage = "open" => ~IsOpen("tty")
                    /\ ~IsOpen("signals") /\ ~IsOpen("conf")
  BY DEF NothingLeaks
<1>1. TtyKept /\ (IsOpen("signals") => stage = "loop")
  BY KeptParts
<1>2. stage = "open" => ~IsOpen("tty")
  BY <1>1 DEF TtyKept, TtyStages, IsOpen
<1>3. ~IsOpen("conf")
  BY DEF ConfInv, Reads, GivenUp
<1> QED
  BY <1>1, <1>2, <1>3

(* However often the tty was lost, on whatever descriptor it was opened and *)
(* with whatever files read before: a new attempt starts without the old    *)
(* tty, the old signal pipe and any file (main 746, sig_handler.c:164).     *)
THEOREM NothingLeftOpen == Spec => []NothingLeaks
<1>1. Init => LogInv /\ ConfInv
  BY EmptyLog DEF Init, ConfInv, IsOpen
<1> QED
  BY <1>1, ParserStart, StepParses, StepKeepsLog, StartFds, StepKeepsFds, StepClosesConf,
     NothingKept, PTL DEF Spec

-----------------------------------------------------------------------------
(* The pid file. *)

PidFileOpen == \E n \in DOMAIN fds : n > 2 /\ fds[n] = "pidfile"

BehindPid == Late \cup {"autosample", "socket"}

(* Unless a call failed, the pid file is open from its stage to write_pid,  *)
(* on a descriptor that daemonize() does not touch, and has the pid of this *)
(* process from then on.                                                    *)
PidInv ==
  /\ faults \in Nat
  /\ Given("pid_file_") /\ faults = 0 =>
       /\ stage \in {"chroot", "drop", "daemonize", "writepid"} => PidFileOpen
       /\ stage \in BehindPid \/ Serving => pid_file = proc.pid

LEMMA FaultsCount ==
  ASSUME faults \in Nat, [Next]_vars
  PROVE  faults' \in Nat /\ (faults' = 0 => UNCHANGED faults)
<1>1. faults' = faults \/ faults' = faults + 1
  <2>1. CASE ParseOptions
    BY <2>1 DEF ParseOptions, Defaults, ParseHelp, ParseNoDaemonize, ParseMissing, ParseString,
       ParseLog, ParseKeyValue, ParseUnknown, ParseDone, Insert, InsertFails, Fault, NoFault
  <2>2. CASE DefaultTarget \/ AddTarget \/ TargetsDone \/ JustStarted \/ CheckDevices
    BY <2>2, Zenon DEF DefaultTarget, AddTarget, TargetsDone, JustStarted, CheckDevices, Fault,
       NoFault, OpenFails
  <2>3. CASE ReadFiles
    BY <2>3, Zenon DEF ReadFiles, NoFile, OpenFile, ReadPiece, CloseFile, Insert, InsertFails,
       Fault,
       NoFault, OpenFails
  <2>4. CASE PrivInit \/ OpenPidFile \/ Chroot \/ PrivDrop
    BY <2>4 DEF PrivInit, OpenPidFile, Chroot, PrivDrop, Fault, NoFault, OpenFails
  <2>5. CASE Daemonize
    BY <2>5, Zenon DEF Daemonize, Fault, NoFault
  <2>6. CASE WritePid \/ NoChild \/ StartChild \/ InitCommandSocket
    BY <2>6, Zenon DEF WritePid, NoChild, StartChild, InitCommandSocket, Fault, NoFault, OpenFails
  <2>7. CASE Serve
    BY <2>7 DEF Serve, OpenTty, SetupTty, ClearTty, EnterLoop, LeaveLoop, Reopen, Shutdown, Exit,
       Fault, NoFault, OpenFails
  <2>8. CASE ExitRefused \/ Killed \/ Terminated \/ UNCHANGED vars
    BY <2>8 DEF ExitRefused, Exit, Killed, Terminated, vars
  <2> QED
    BY <2>1, <2>2, <2>3, <2>4, <2>5, <2>6, <2>7, <2>8 DEF Next, Configure, Settle
<1> QED
  BY <1>1

(* Until daemonize() is through, nobody serves, whatever fails.             *)
LEMMA EarlyServesNobody ==
  ASSUME ServeInv, EarlyStep \/ PrivDrop
  PROVE  ~Serving'
<1>1. stage \in BeforeDrop /\ UNCHANGED child
  <2>1. CASE EarlyStep
    BY <2>1, EarlyStages
  <2>2. CASE PrivDrop
    BY <2>2, Zenon DEF PrivDrop, BeforeDrop
  <2> QED
    BY <2>1, <2>2
<1>2. child = "none" /\ Without(fds, "socket")
  BY <1>1 DEF ServeInv, Serving, IsOpen, Without
<1>3. Without(fds', "socket")
  <2>1. PrivDrop => fds' = fds
    BY Zenon DEF PrivDrop
  <2> QED
    BY <1>2, <2>1, EarlyDescriptors
<1> QED
  BY <1>1, <1>2, <1>3 DEF Serving, IsOpen, Without

LEMMA StepKeepsPid ==
  ASSUME PidInv, FdsInv, ServeInv, ServeInv', [Next]_vars
  PROVE  PidInv'
<1>1. faults' \in Nat /\ (faults' = 0 => UNCHANGED faults)
  BY FaultsCount DEF PidInv
<1> SUFFICES ASSUME Given("pid_file_")', UNCHANGED faults, faults = 0
             PROVE  /\ stage' \in {"chroot", "drop", "daemonize", "writepid"} => PidFileOpen'
                    /\ stage' \in BehindPid \/ Serving' => pid_file' = proc'.pid
  BY <1>1 DEF PidInv
<1>2. CASE ParseOptions
  <2>1. stage \in {"start", "options"}
    BY <1>2 DEF ParseOptions, Defaults, ParseHelp, ParseNoDaemonize, ParseMissing, ParseString,
       ParseLog, ParseKeyValue, ParseUnknown, ParseDone, Parsing
  <2>2. stage' \in {"start", "options", "usage", "targets"}
    BY <1>2, <2>1 DEF ParseOptions, Defaults, ParseHelp, ParseNoDaemonize, ParseMissing,
       ParseString, ParseLog, ParseKeyValue, ParseUnknown, ParseDone, Usage
  <2>3. ~Serving'
    BY <2>2 DEF ServeInv, BeforeDrop
  <2> QED
    BY <2>2, <2>3 DEF BehindPid, Late
<1>3. CASE EarlyStep
  <2>1. stage' \in BeforeDrop \cup {"refused"} /\ UNCHANGED opt
    BY <1>3, EarlyStages
  <2>2. ~Serving' /\ stage' \notin BehindPid
    BY <1>3, <2>1, EarlyServesNobody DEF BehindPid, Late, BeforeDrop
  <2>3. CASE OpenPidFile
    <3>1. Given("pid_file_") /\ stage = "pidfile"
      BY <2>1, <2>3 DEF Given, OpenPidFile
    <3>2. IsTable(fds) /\ (~Full(fds) => Lowest(fds) > 2)
      BY <3>1, KeptParts, StdTaken DEF BeforeStd, BeforeDrop
    <3>3. ~Full(fds) /\ fds' = Opened(fds, "pidfile")
      BY <1>1, <2>3, <3>1 DEF OpenPidFile, OpenFails, Fault
    <3>4. Lowest(fds) \in DOMAIN fds' /\ fds'[Lowest(fds)] = "pidfile"
      BY <3>2, <3>3, LowestFree, LowestOpened, TableOpened DEF Grown
    <3> QED
      BY <2>2, <3>2, <3>3, <3>4 DEF PidFileOpen
  <2>4. CASE Chroot
    BY <2>1, <2>2, <2>4 DEF Chroot, PidInv, PidFileOpen, Given
  <2>5. CASE ~OpenPidFile /\ ~Chroot
    <3>1. stage' \notin {"chroot", "drop", "daemonize", "writepid"}
      <4>1. CASE AddTarget
        BY <4>1, Zenon DEF AddTarget, Refuse
      <4>2. CASE ReadFiles
        BY <4>2 DEF ReadFiles, NoFile, OpenFile, ReadPiece, CloseFile, StageBehind, Refuse
      <4> QED
        BY <1>3, <2>5, <4>1, <4>2 DEF EarlyStep, DefaultTarget, TargetsDone, JustStarted,
           CheckDevices, PrivInit, Refuse
    <3> QED
      BY <2>2, <3>1
  <2> QED
    BY <2>3, <2>4, <2>5
<1>4. CASE PrivDrop
  <2>1. stage = "drop" /\ stage' \in {"daemonize", "refused"} /\ UNCHANGED <<opt, fds>>
    BY <1>4, Zenon DEF PrivDrop, Refuse
  <2>2. ~Serving'
    BY <1>4, EarlyServesNobody
  <2> QED
    BY <2>1, <2>2 DEF PidInv, PidFileOpen, Given, BehindPid, Late
<1>5. CASE Daemonize
  <2>1. stage = "daemonize" /\ stage' \in {"writepid", "exited"} /\ UNCHANGED <<opt, child>>
    BY <1>5, Zenon DEF Daemonize
  <2>2. child = "none"
    BY <2>1 DEF ServeInv, Serving
  <2>3. CASE stage' = "writepid"
    <3>1. ~Serving'
      BY <2>3 DEF ServeInv
    <3>2. PidFileOpen
      BY <2>1 DEF PidInv, Given
    <3>3. fds' = fds \/ fds' \in StdReopened
      BY <1>1, <1>5, <2>3 DEF Daemonize, Fault
    <3>4. IsTable(fds)
      BY <2>1, KeptParts
    <3>5. PidFileOpen'
      <4>1. fds' = fds => PidFileOpen'
        BY <3>2 DEF PidFileOpen
      <4>2. fds' \in StdReopened => PidFileOpen'
        <5>1. PICK n \in DOMAIN fds : n > 2 /\ fds[n] = "pidfile"
          BY <3>2 DEF PidFileOpen
        <5>2. ~(n <= 2)
          <6>1. n \in Nat
            BY <3>4 DEF IsTable
          <6> QED
            BY <5>1, <6>1
        <5>3. StdClosed[n] = "pidfile" /\ n \in DOMAIN StdClosed
          BY <3>4, <5>1, <5>2, StdIsNull
        <5>4. fds' \in StdReopened => n \in DOMAIN fds' /\ fds'[n] = "pidfile"
          BY <3>4, <5>3, StdIsNull DEF Grown
        <5> QED
          BY <5>1, <5>4 DEF PidFileOpen
      <4> QED
        BY <3>3, <4>1, <4>2
    <3> QED
      BY <2>3, <3>1, <3>5 DEF BehindPid, Late
  <2>4. CASE stage' = "exited"
    <3>1. fds' = AllClosed
      BY <1>5, <2>4, Zenon DEF Daemonize
    <3>2. ~Serving'
      BY <2>1, <2>2, <3>1 DEF Serving, IsOpen, AllClosed
    <3> QED
      BY <2>4, <3>2 DEF BehindPid, Late
  <2> QED
    BY <2>1, <2>3, <2>4
<1>6. CASE WritePid
  <2>1. stage = "writepid" /\ stage' = "autosample" /\ UNCHANGED <<opt, proc>>
    BY <1>6 DEF WritePid
  <2>2. IsOpen("pidfile")
    BY <2>1 DEF PidInv, PidFileOpen, IsOpen, Given
  <2> QED
    BY <1>6, <2>1, <2>2 DEF WritePid
<1>7. CASE LateStep
  <2>1. stage \in BehindPid /\ UNCHANGED <<opt, proc, pid_file>>
    BY <1>7 DEF LateStep, NoChild, StartChild, InitCommandSocket, OpenTty, SetupTty, ClearTty,
       EnterLoop, LeaveLoop, Reopen, Shutdown, BehindPid, Late
  <2>2. stage' \notin {"chroot", "drop", "daemonize", "writepid"}
    BY <1>7 DEF LateStep, NoChild, StartChild, InitCommandSocket, OpenTty, SetupTty, ClearTty,
       EnterLoop, LeaveLoop, Reopen, Shutdown, Refuse, Exit
  <2> QED
    BY <2>1, <2>2 DEF PidInv, Given
<1>8. CASE ExitRefused \/ Killed
  <2>1. stage' = "exited" /\ UNCHANGED <<opt, proc, pid_file, child>> /\ fds' = AllClosed
    BY <1>8 DEF ExitRefused, Killed, Exit
  <2>2. Serving' => Serving
    BY <2>1 DEF Serving, IsOpen, AllClosed
  <2> QED
    BY <2>1, <2>2 DEF PidInv, Given, BehindPid, Late
<1>9. CASE UNCHANGED vars
  <2>1. UNCHANGED <<stage, opt, fds, proc, pid_file, child>>
    BY <1>9 DEF vars
  <2>2. Serving' = Serving /\ PidFileOpen' = PidFileOpen
    BY <2>1 DEF Serving, IsOpen, PidFileOpen
  <2> QED
    BY <2>1, <2>2 DEF PidInv, Given
<1> QED
  BY <1>2, <1>3, <1>4, <1>5, <1>6, <1>7, <1>8, <1>9
  DEF Next, Configure, Settle, Serve, EarlyStep, LateStep, Terminated

LEMMA ServesWell == ServeInv /\ PidInv => ServesAsTold
  BY DEF ServeInv, PidInv, ServesAsTold, Serving, AsUser

(* Whoever serves, or has a child to serve it, has given up the user and    *)
(* the group it was told to give up, and a pid file that was asked for      *)
(* names this process unless a call failed: for every command line, any     *)
(* number of faults and of descriptors (main 669-708).                      *)
THEOREM ServedAsTold == Spec => []ServesAsTold
<1>1. Init => ServeInv
  <2> SUFFICES ASSUME Init
               PROVE  ServeInv
    OBVIOUS
  <2>1. stage = "start" /\ pid_file = 0 /\ child = "none"
    BY DEF Init
  <2>2. ~IsOpen("socket")
    BY DEF Init, IsOpen
  <2>3. DOMAIN proc = {"pid", "uid", "gid"}
    BY DEF Init
  <2> QED
    BY <2>1, <2>2, <2>3 DEF ServeInv, Serving, BeforeDrop
<1>2. Init /\ ServeInv => PidInv
  <2> SUFFICES ASSUME Init, ServeInv
               PROVE  PidInv
    OBVIOUS
  <2>1. faults = 0 /\ stage = "start"
    BY DEF Init
  <2>2. ~Serving
    BY <2>1 DEF ServeInv, BeforeDrop
  <2> QED
    BY <2>1, <2>2 DEF PidInv, BehindPid, Late
<1>3. Init => LogInv
  BY EmptyLog DEF Init
<1>4. ServeInv /\ FdsInv /\ PidInv /\ [Next]_vars => ServeInv' /\ PidInv'
  BY StepServes, StepKeepsPid
<1> QED
  BY <1>1, <1>2, <1>3, <1>4, ParserStart, StepParses, StepKeepsLog, StartFds, StepKeepsFds,
     ServesWell, PTL DEF Spec

-----------------------------------------------------------------------------
(* What a piece of a file says. *)

LEMMA StopIs ==
  ASSUME NEW s \in Seq(STRING), NEW n \in 1 .. Len(s) + 1, NEW chars
  PROVE  /\ Stop(s, n, chars) \in n .. Len(s) + 1
         /\ Stop(s, n, chars) <= Len(s) => s[Stop(s, n, chars)] \in chars
         /\ \A j \in n .. Stop(s, n, chars) - 1 : s[j] \notin chars
<1> DEFINE T == { j \in n .. Len(s) : s[j] \in chars } \cup {Len(s) + 1}
<1>1. Len(s) \in Nat /\ T \subseteq n .. Len(s) + 1
  OBVIOUS
<1>2. T \subseteq Nat /\ T # {}
  BY <1>1
<1>3. \A j \in n .. Len(s) : s[j] \in chars => j \in T
  OBVIOUS
<1>4. \A j \in T : j = Len(s) + 1 \/ s[j] \in chars
  OBVIOUS
<1>5. Stop(s, n, chars) = Least(T)
  BY DEF Stop
<1> HIDE DEF T
<1>6. Least(T) \in T /\ \A m \in T : Least(T) <= m
  BY <1>2, SmallestOf
<1> DEFINE e == Least(T)
<1>7. e = Stop(s, n, chars)
  BY <1>5
<1>8. e \in T /\ \A m \in T : e <= m
  BY <1>6
<1> HIDE DEF e
<1>9. e \in n .. Len(s) + 1 /\ (e <= Len(s) => s[e] \in chars)
  BY <1>1, <1>4, <1>8
<1>10. ASSUME NEW j \in n .. e - 1 PROVE s[j] \notin chars
  <2>1. j \in n .. Len(s) /\ ~(e <= j)
    BY <1>1, <1>9
  <2>2. QED  BY <1>3, <1>8, <2>1
<1>11. QED  BY <1>7, <1>9, <1>10

LEMMA StopAt ==
  ASSUME NEW s \in Seq(STRING), NEW n \in 1 .. Len(s) + 1, NEW chars,
         NEW e \in n .. Len(s) + 1, e <= Len(s) => s[e] \in chars,
         \A j \in n .. e - 1 : s[j] \notin chars
  PROVE  Stop(s, n, chars) = e
<1> DEFINE f == Stop(s, n, chars)
<1>1. /\ f \in n .. Len(s) + 1 /\ (f <= Len(s) => s[f] \in chars)
      /\ \A j \in n .. f - 1 : s[j] \notin chars
  BY StopIs
<1> HIDE DEF f
<1>2. Len(s) \in Nat
  OBVIOUS
<1>3. ~(f < e)
  <2> SUFFICES ASSUME f < e PROVE FALSE
    OBVIOUS
  <2>1. f \in n .. e - 1 /\ f <= Len(s)
    BY <1>1, <1>2
  <2>2. QED  BY <1>1, <2>1
<1>4. ~(e < f)
  <2> SUFFICES ASSUME e < f PROVE FALSE
    OBVIOUS
  <2>1. e \in n .. f - 1 /\ e <= Len(s)
    BY <1>1, <1>2
  <2>2. QED  BY <1>1, <2>1
<1>5. f = e
  BY <1>1, <1>2, <1>3, <1>4
<1>6. QED  BY <1>5 DEF f

(* Skip stops at the first of all other characters. *)
LEMMA SkipStops ==
  ASSUME NEW s \in Seq(STRING), NEW n \in 1 .. Len(s) + 1, NEW chars
  PROVE  Skip(s, n, chars) = Stop(s, n, STRING \ chars)
<1>1. \A j \in n .. Len(s) : s[j] \in STRING
  OBVIOUS
<1>2. { j \in n .. Len(s) : s[j] \notin chars } = { j \in n .. Len(s) : s[j] \in STRING \ chars }
  BY <1>1
<1>3. QED  BY <1>2 DEF Skip, Stop

LEMMA SkipIs ==
  ASSUME NEW s \in Seq(STRING), NEW n \in 1 .. Len(s) + 1, NEW chars
  PROVE  /\ Skip(s, n, chars) \in n .. Len(s) + 1
         /\ Skip(s, n, chars) <= Len(s) => s[Skip(s, n, chars)] \notin chars
         /\ \A j \in n .. Skip(s, n, chars) - 1 : s[j] \in chars
<1> DEFINE f == Stop(s, n, STRING \ chars)
<1>1. /\ f \in n .. Len(s) + 1 /\ (f <= Len(s) => s[f] \in STRING \ chars)
      /\ \A j \in n .. f - 1 : s[j] \notin STRING \ chars
  BY StopIs
<1>2. Skip(s, n, chars) = f
  BY SkipStops
<1> HIDE DEF f
<1>3. \A j \in n .. f - 1 : s[j] \in STRING
  BY <1>1
<1>4. QED  BY <1>1, <1>2, <1>3

LEMMA SkipAt ==
  ASSUME NEW s \in Seq(STRING), NEW n \in 1 .. Len(s) + 1, NEW chars,
         NEW e \in n .. Len(s) + 1, e <= Len(s) => s[e] \notin chars,
         \A j \in n .. e - 1 : s[j] \in chars
  PROVE  Skip(s, n, chars) = e
<1>1. e <= Len(s) => s[e] \in STRING \ chars
  OBVIOUS
<1>2. \A j \in n .. e - 1 : s[j] \notin STRING \ chars
  OBVIOUS
<1>3. Stop(s, n, STRING \ chars) = e
  BY <1>1, <1>2, StopAt
<1>4. QED  BY <1>3, SkipStops

(* Where a line states its pair. *)
States(line, p) ==
  /\ p[1] <= p[2] /\ p[2] + 1 < p[3] /\ p[3] <= p[4]
  /\ \A j \in (1 .. p[1] - 1) \cup (p[2] + 1 .. p[3] - 1) : line[j] = Blank
  /\ \A j \in (p[1] .. p[2]) \cup (p[3] .. p[4]) : line[j] # Blank
  /\ p[4] = Len(line) \/ line[p[4] + 1] = Blank

(* The four places that options_parse_key_value_file looks for. *)
Key(piece) == Skip(piece, 1, {Blank})
KeyEnd(piece) == Stop(piece, Key(piece), {Blank})
Value(piece) == Skip(piece, KeyEnd(piece), {Blank})
ValueEnd(piece) == Stop(piece, Value(piece), {Blank, NewLine})

(* The piece is the line, with a newline behind it or not, and the line     *)
(* does not end in a blank.                                                 *)
IsPieceOf(piece, line) ==
  /\ line \in Seq(STRING) /\ piece \in Seq(STRING)
  /\ Len(piece) \in {Len(line), Len(line) + 1}
  /\ \A j \in 1 .. Len(line) : piece[j] = line[j] /\ line[j] # NewLine
  /\ Len(piece) = Len(line) + 1 => piece[Len(piece)] = NewLine
  /\ Len(line) # 0 => line[Len(line)] # Blank

LEMMA FourPlaces ==
  ASSUME NEW piece \in Seq(STRING)
  PROVE  /\ Len(piece) \in Nat
         /\ Key(piece) \in 1 .. Len(piece) + 1
         /\ Key(piece) <= Len(piece) => piece[Key(piece)] # Blank
         /\ \A j \in 1 .. Key(piece) - 1 : piece[j] = Blank
         /\ KeyEnd(piece) \in Key(piece) .. Len(piece) + 1
         /\ KeyEnd(piece) <= Len(piece) => piece[KeyEnd(piece)] = Blank
         /\ \A j \in Key(piece) .. KeyEnd(piece) - 1 : piece[j] # Blank
         /\ Value(piece) \in KeyEnd(piece) .. Len(piece) + 1
         /\ Value(piece) <= Len(piece) => piece[Value(piece)] # Blank
         /\ \A j \in KeyEnd(piece) .. Value(piece) - 1 : piece[j] = Blank
         /\ ValueEnd(piece) \in Value(piece) .. Len(piece) + 1
         /\ ValueEnd(piece) <= Len(piece) => piece[ValueEnd(piece)] \in {Blank, NewLine}
         /\ \A j \in Value(piece) .. ValueEnd(piece) - 1 : piece[j] \notin {Blank, NewLine}
<1>0. Len(piece) \in Nat /\ 1 \in 1 .. Len(piece) + 1
  OBVIOUS
<1>1. /\ Key(piece) \in 1 .. Len(piece) + 1
      /\ Key(piece) <= Len(piece) => piece[Key(piece)] \notin {Blank}
      /\ \A j \in 1 .. Key(piece) - 1 : piece[j] \in {Blank}
  BY <1>0, SkipIs DEF Key
<1>2. /\ KeyEnd(piece) \in Key(piece) .. Len(piece) + 1
      /\ KeyEnd(piece) <= Len(piece) => piece[KeyEnd(piece)] \in {Blank}
      /\ \A j \in Key(piece) .. KeyEnd(piece) - 1 : piece[j] \notin {Blank}
  BY <1>1, StopIs DEF KeyEnd
<1>3. KeyEnd(piece) \in 1 .. Len(piece) + 1
  BY <1>0, <1>1, <1>2
<1>4. /\ Value(piece) \in KeyEnd(piece) .. Len(piece) + 1
      /\ Value(piece) <= Len(piece) => piece[Value(piece)] \notin {Blank}
      /\ \A j \in KeyEnd(piece) .. Value(piece) - 1 : piece[j] \in {Blank}
  BY <1>3, SkipIs DEF Value
<1>5. Value(piece) \in 1 .. Len(piece) + 1
  BY <1>0, <1>3, <1>4
<1>6. /\ ValueEnd(piece) \in Value(piece) .. Len(piece) + 1
      /\ ValueEnd(piece) <= Len(piece) => piece[ValueEnd(piece)] \in {Blank, NewLine}
      /\ \A j \in Value(piece) .. ValueEnd(piece) - 1 : piece[j] \notin {Blank, NewLine}
  BY <1>5, StopIs DEF ValueEnd
<1>7. QED  BY <1>0, <1>1, <1>2, <1>4, <1>6

(* A pair ends within the line. *)
LEMMA ValueInLine ==
  ASSUME NEW line, NEW piece, IsPieceOf(piece, line), Value(piece) <= Len(piece)
  PROVE  /\ Key(piece) \in 1 .. Len(line) /\ KeyEnd(piece) - 1 \in Key(piece) .. Len(line)
         /\ Value(piece) \in KeyEnd(piece) + 1 .. Len(line)
         /\ ValueEnd(piece) - 1 \in Value(piece) .. Len(line)
<1> DEFINE L == Len(line)
           P == Len(piece)
           a == Key(piece)
           b == KeyEnd(piece)
           c == Value(piece)
           d == ValueEnd(piece)
<1>b. Blank # NewLine
  BY DEF Blank, NewLine
<1>0. /\ line \in Seq(STRING) /\ piece \in Seq(STRING) /\ L \in Nat /\ P \in Nat
      /\ P = L \/ P = L + 1
      /\ \A j \in 1 .. L : piece[j] = line[j] /\ line[j] # NewLine
      /\ P = L + 1 => piece[P] = NewLine
      /\ L # 0 => line[L] # Blank
  BY DEF IsPieceOf
<1>1. /\ a \in 1 .. P + 1 /\ (a <= P => piece[a] # Blank)
      /\ \A j \in 1 .. a - 1 : piece[j] = Blank
      /\ b \in a .. P + 1 /\ (b <= P => piece[b] = Blank)
      /\ \A j \in a .. b - 1 : piece[j] # Blank
      /\ c \in b .. P + 1 /\ (c <= P => piece[c] # Blank)
      /\ \A j \in b .. c - 1 : piece[j] = Blank
      /\ d \in c .. P + 1 /\ (d <= P => piece[d] \in {Blank, NewLine})
      /\ \A j \in c .. d - 1 : piece[j] \notin {Blank, NewLine}
  BY <1>0, FourPlaces
<1>c. c <= P
  OBVIOUS
<1> HIDE DEF L, P, a, b, c, d
<1>2. b <= P /\ piece[b] = Blank
  BY <1>0, <1>1, <1>c
<1>3. b < L
  <2>1. b # P \/ P = L
    BY <1>b, <1>0, <1>2
  <2>2. b \in 1 .. L /\ line[b] = Blank
    BY <1>0, <1>1, <1>2, <2>1
  <2>3. b # L
    BY <1>0, <2>2
  <2>4. QED  BY <1>0, <2>2, <2>3
<1>4. a < b
  <2>1. a # b
    BY <1>0, <1>1, <1>2
  <2>2. QED  BY <1>0, <1>1, <2>1
<1>5. b < c
  <2>1. b # c
    BY <1>1, <1>2, <1>c
  <2>2. QED  BY <1>0, <1>1, <2>1
<1>6. c <= L
  <2> SUFFICES ASSUME ~(c <= L) PROVE FALSE
    OBVIOUS
  <2>1. L \in b .. c - 1 /\ L \in 1 .. L /\ L # 0
    BY <1>0, <1>1, <1>3
  <2>2. QED  BY <1>0, <1>1, <2>1
<1>7. d <= L + 1
  <2> SUFFICES ASSUME ~(d <= L + 1) PROVE FALSE
    OBVIOUS
  <2>1. P = L + 1 /\ P \in c .. d - 1
    BY <1>0, <1>1, <1>6
  <2>2. QED  BY <1>0, <1>1, <2>1
<1>8. c < d
  <2>1. piece[c] # Blank /\ piece[c] # NewLine
    BY <1>0, <1>1, <1>c, <1>6
  <2>2. c # d
    BY <1>1, <1>c, <2>1
  <2>3. QED  BY <1>0, <1>1, <2>2
<1>9. /\ a \in 1 .. L /\ b - 1 \in a .. L /\ c \in b + 1 .. L /\ d - 1 \in c .. L
  BY <1>0, <1>1, <1>3, <1>4, <1>5, <1>6, <1>7, <1>8
<1>10. QED  BY <1>9 DEF L, a, b, c, d

(* No other place in the line states one. *)
LEMMA OnlyPlace ==
  ASSUME NEW line, NEW piece, IsPieceOf(piece, line),
         NEW p \in [1 .. 4 -> 1 .. Len(line)], States(line, p)
  PROVE  /\ p[1] = Key(piece) /\ p[2] = KeyEnd(piece) - 1
         /\ p[3] = Value(piece) /\ p[4] = ValueEnd(piece) - 1
         /\ Value(piece) <= Len(piece)
<1> DEFINE L == Len(line)
           P == Len(piece)
<1>b. Blank # NewLine
  BY DEF Blank, NewLine
<1>0. /\ line \in Seq(STRING) /\ piece \in Seq(STRING) /\ L \in Nat /\ P \in Nat
      /\ P = L \/ P = L + 1
      /\ \A j \in 1 .. L : piece[j] = line[j] /\ line[j] # NewLine
      /\ P = L + 1 => piece[P] = NewLine
      /\ L # 0 => line[L] # Blank
  BY DEF IsPieceOf
<1> DEFINE a == p[1]
           b == p[2]
           c == p[3]
           d == p[4]
<1>1. a \in 1 .. L /\ b \in 1 .. L /\ c \in 1 .. L /\ d \in 1 .. L
  OBVIOUS
<1>2. /\ a <= b /\ b + 1 < c /\ c <= d
      /\ \A j \in 1 .. a - 1 : line[j] = Blank
      /\ \A j \in b + 1 .. c - 1 : line[j] = Blank
      /\ \A j \in a .. b : line[j] # Blank
      /\ \A j \in c .. d : line[j] # Blank
      /\ d = L \/ line[d + 1] = Blank
  BY DEF States
<1> HIDE DEF L, P, a, b, c, d
<1>l. L \in Nat /\ P \in Nat /\ (P = L \/ P = L + 1)
  BY <1>0
<1>p. L <= P /\ P <= L + 1
  BY <1>l
<1>r. /\ L \in Nat /\ P \in Nat /\ L <= P /\ P <= L + 1
      /\ a \in 1 .. L /\ b \in 1 .. L /\ c \in 1 .. L /\ d \in 1 .. L
      /\ a <= b /\ b + 1 < c /\ c <= d
  BY <1>l, <1>p, <1>1, <1>2, Zenon
<1>s. \A j \in 1 .. d : j \in 1 .. L /\ piece[j] = line[j] /\ line[j] # NewLine
  <2>1. \A j \in 1 .. d : j \in 1 .. L
    BY <1>r
  <2>2. QED  BY <1>0, <2>1
<1>3. Key(piece) = a
  <2>1. a \in 1 .. P + 1 /\ 1 \in 1 .. P + 1 /\ a \in 1 .. d /\ a \in a .. b
    BY <1>r
  <2>2. piece[a] \notin {Blank}
    BY <1>2, <1>s, <2>1
  <2>3. \A j \in 1 .. a - 1 : piece[j] \in {Blank}
    <3>1. \A j \in 1 .. a - 1 : j \in 1 .. d
      BY <1>r
    <3>2. QED  BY <1>2, <1>s, <3>1
  <2>4. QED  BY <1>0, <2>1, <2>2, <2>3, SkipAt DEF Key, P
<1>4. KeyEnd(piece) = b + 1
  <2> DEFINE e == b + 1
  <2>1. a \in 1 .. P + 1 /\ e \in a .. P + 1 /\ e \in 1 .. d /\ e \in b + 1 .. c - 1
    BY <1>r
  <2>2. piece[e] \in {Blank}
    BY <1>2, <1>s, <2>1
  <2>3. \A j \in a .. e - 1 : piece[j] \notin {Blank}
    <3>1. \A j \in a .. e - 1 : j \in 1 .. d /\ j \in a .. b
      BY <1>r
    <3>2. QED  BY <1>2, <1>s, <3>1
  <2> HIDE DEF e
  <2>4. Stop(piece, a, {Blank}) = e
    BY <1>0, <2>1, <2>2, <2>3, StopAt DEF P
  <2>5. QED  BY <1>3, <2>4 DEF KeyEnd, e
<1>5. Value(piece) = c
  <2> DEFINE e == b + 1
  <2>1. e \in 1 .. P + 1 /\ c \in e .. P + 1 /\ c \in 1 .. d /\ c \in c .. d
    BY <1>r
  <2>2. piece[c] \notin {Blank}
    BY <1>2, <1>s, <2>1
  <2>3. \A j \in e .. c - 1 : piece[j] \in {Blank}
    <3>1. \A j \in e .. c - 1 : j \in 1 .. d
      BY <1>r
    <3>2. QED  BY <1>2, <1>s, <3>1
  <2>e. KeyEnd(piece) = e
    BY <1>4
  <2> HIDE DEF e
  <2>4. Skip(piece, e, {Blank}) = c
    BY <1>0, <2>1, <2>2, <2>3, SkipAt DEF P
  <2>5. QED  BY <2>4, <2>e DEF Value
<1>6. ValueEnd(piece) = d + 1
  <2> DEFINE e == d + 1
  <2>1. c \in 1 .. P + 1 /\ e \in c .. P + 1 /\ e - 1 = d
    BY <1>r
  <2>2. e <= P => piece[e] \in {Blank, NewLine}
    <3> SUFFICES ASSUME e <= P PROVE piece[e] \in {Blank, NewLine}
      OBVIOUS
    <3>1. CASE d = L
      <4>1. e = P /\ P = L + 1
        BY <1>r, <3>1
      <4>2. QED  BY <1>0, <4>1
    <3>2. CASE d # L
      <4>1. d + 1 \in 1 .. L /\ line[d + 1] = Blank
        BY <1>r, <1>2, <3>2
      <4>2. QED  BY <1>0, <4>1
    <3>3. QED  BY <3>1, <3>2
  <2>3. \A j \in c .. e - 1 : piece[j] \notin {Blank, NewLine}
    <3>1. \A j \in c .. e - 1 : j \in 1 .. d /\ j \in c .. d
      BY <1>r
    <3>2. QED  BY <1>2, <1>s, <3>1
  <2> HIDE DEF e
  <2>4. Stop(piece, c, {Blank, NewLine}) = e
    BY <1>0, <2>1, <2>2, <2>3, StopAt DEF P
  <2>5. QED  BY <1>5, <2>4 DEF ValueEnd, e
<1>7. c <= P /\ b + 1 - 1 = b /\ d + 1 - 1 = d
  BY <1>r
<1>8. QED  BY <1>3, <1>4, <1>5, <1>6, <1>7 DEF P, a, b, c, d

(* What the program finds is a place that states a pair. *)
LEMMA PlaceStates ==
  ASSUME NEW line, NEW piece, IsPieceOf(piece, line), Value(piece) <= Len(piece)
  PROVE  \E p \in [1 .. 4 -> 1 .. Len(line)] :
           /\ States(line, p)
           /\ p[1] = Key(piece) /\ p[2] = KeyEnd(piece) - 1
           /\ p[3] = Value(piece) /\ p[4] = ValueEnd(piece) - 1
<1> DEFINE L == Len(line)
           P == Len(piece)
           a == Key(piece)
           b == KeyEnd(piece)
           c == Value(piece)
           d == ValueEnd(piece)
           p == [n \in 1 .. 4 |-> IF n = 1 THEN a ELSE IF n = 2 THEN b - 1
                                  ELSE IF n = 3 THEN c ELSE d - 1]
<1>b. Blank # NewLine
  BY DEF Blank, NewLine
<1>0. /\ L \in Nat /\ P \in Nat /\ (P = L \/ P = L + 1)
      /\ \A j \in 1 .. L : piece[j] = line[j] /\ line[j] # NewLine
      /\ piece \in Seq(STRING)
  BY DEF IsPieceOf
<1>1. a \in 1 .. L /\ b - 1 \in a .. L /\ c \in b + 1 .. L /\ d - 1 \in c .. L
  BY ValueInLine
<1>2. /\ \A j \in 1 .. a - 1 : piece[j] = Blank
      /\ b \in a .. P + 1
      /\ \A j \in a .. b - 1 : piece[j] # Blank
      /\ c \in b .. P + 1
      /\ \A j \in b .. c - 1 : piece[j] = Blank
      /\ d \in c .. P + 1 /\ (d <= P => piece[d] \in {Blank, NewLine})
      /\ \A j \in c .. d - 1 : piece[j] \notin {Blank, NewLine}
  BY <1>0, FourPlaces
<1>3. p[1] = a /\ p[2] = b - 1 /\ p[3] = c /\ p[4] = d - 1
  OBVIOUS
<1> HIDE DEF L, P, a, b, c, d
<1>r. /\ a \in 1 .. L /\ b \in a + 1 .. L /\ c \in b + 1 .. L /\ d \in c + 1 .. L + 1
      /\ L \in Nat /\ P \in Nat /\ L <= P /\ b - 1 \in 1 .. L /\ d - 1 \in 1 .. L
  <2>1. a \in Int /\ b \in Int /\ c \in Int /\ d \in Int
    BY <1>0, <1>1, <1>2
  <2>2. QED  BY <1>0, <1>1, <2>1
<1>4. p \in [1 .. 4 -> 1 .. L]
  BY <1>r
<1>s. \A j \in 1 .. d - 1 : j \in 1 .. L /\ piece[j] = line[j]
  <2>1. \A j \in 1 .. d - 1 : j \in 1 .. L
    BY <1>r
  <2>2. QED  BY <1>0, <2>1
<1> HIDE DEF p
<1>5. p[1] <= p[2] /\ p[2] + 1 < p[3] /\ p[3] <= p[4]
  BY <1>r, <1>3
<1>6. \A j \in (1 .. p[1] - 1) \cup (p[2] + 1 .. p[3] - 1) : line[j] = Blank
  <2>1. \A j \in 1 .. a - 1 : line[j] = Blank
    <3>1. \A j \in 1 .. a - 1 : j \in 1 .. d - 1
      BY <1>r
    <3>2. QED  BY <1>2, <1>s, <3>1
  <2>2. \A j \in b .. c - 1 : line[j] = Blank
    <3>1. \A j \in b .. c - 1 : j \in 1 .. d - 1
      BY <1>r
    <3>2. QED  BY <1>2, <1>s, <3>1
  <2>3. b - 1 + 1 = b
    BY <1>r
  <2>4. QED  BY <1>3, <2>1, <2>2, <2>3
<1>7. \A j \in (p[1] .. p[2]) \cup (p[3] .. p[4]) : line[j] # Blank
  <2>1. \A j \in a .. b - 1 : line[j] # Blank
    <3>1. \A j \in a .. b - 1 : j \in 1 .. d - 1
      BY <1>r
    <3>2. QED  BY <1>2, <1>s, <3>1
  <2>2. \A j \in c .. d - 1 : line[j] # Blank
    <3>1. \A j \in c .. d - 1 : j \in 1 .. d - 1
      BY <1>r
    <3>2. QED  BY <1>2, <1>s, <3>1
  <2>3. QED  BY <1>3, <2>1, <2>2
<1>8. p[4] = L \/ line[p[4] + 1] = Blank
  <2> SUFFICES ASSUME d - 1 # L PROVE line[d - 1 + 1] = Blank
    BY <1>3
  <2>1. d - 1 + 1 = d /\ d \in 1 .. L /\ d <= P
    BY <1>r
  <2>2. QED  BY <1>0, <1>2, <2>1
<1>9. States(line, p)
  BY <1>5, <1>6, <1>7, <1>8 DEF States, L
<1>10. QED  BY <1>3, <1>4, <1>9 DEF L, a, b, c, d

(* A piece that is a line, with its newline or without, says what the line *)
(* states.                                                                 *)
LEMMA PairsAreStated ==
  ASSUME NEW line, NEW piece, IsPieceOf(piece, line)
  PROVE  PairsIn(piece) = Stated(line)
<1> DEFINE pair == [key |-> SubSeq(piece, Key(piece), KeyEnd(piece) - 1),
                    value |-> SubSeq(piece, Value(piece), ValueEnd(piece) - 1)]
           F == [1 .. 4 -> 1 .. Len(line)]
           PairAt(p) == [key |-> SubSeq(line, p[1], p[2]), value |-> SubSeq(line, p[3], p[4])]
<1>0. /\ line \in Seq(STRING) /\ piece \in Seq(STRING) /\ DOMAIN line = 1 .. Len(line)
      /\ Len(line) \in Nat /\ Len(piece) \in Nat
  BY DEF IsPieceOf
<1>1. PairsIn(piece) = IF Value(piece) > Len(piece) THEN {} ELSE {pair}
  BY DEF PairsIn, Key, KeyEnd, Value, ValueEnd
<1>2. Stated(line) = { PairAt(p) : p \in { q \in F : States(line, q) } }
  BY <1>0 DEF Stated, States
<1>v. Value(piece) \in Int
  BY <1>0, FourPlaces
<1>3. CASE Value(piece) > Len(piece)
  <2>1. \A q \in F : ~States(line, q)
    BY <1>0, <1>v, <1>3, OnlyPlace
  <2>2. QED  BY <1>1, <1>2, <1>3, <2>1
<1>4. CASE ~(Value(piece) > Len(piece))
  <2>0. Value(piece) <= Len(piece)
    BY <1>0, <1>v, <1>4
  <2>1. PICK p \in F :
          /\ States(line, p)
          /\ p[1] = Key(piece) /\ p[2] = KeyEnd(piece) - 1
          /\ p[3] = Value(piece) /\ p[4] = ValueEnd(piece) - 1
    BY <2>0, PlaceStates
  <2>2. PairAt(p) = pair
    <3>1. \A m, n \in 1 .. Len(line) : SubSeq(piece, m, n) = SubSeq(line, m, n)
      <4> SUFFICES ASSUME NEW m \in 1 .. Len(line), NEW n \in 1 .. Len(line)
                   PROVE  SubSeq(piece, m, n) = SubSeq(line, m, n)
        OBVIOUS
      <4>1. \A j \in m .. n : piece[j] = line[j] /\ line[j] \in STRING /\ piece[j] \in STRING
        <5>1. \A j \in m .. n : j \in 1 .. Len(line)
          BY <1>0
        <5>2. \A j \in 1 .. Len(line) : piece[j] = line[j] /\ line[j] \in STRING
          BY <1>0 DEF IsPieceOf
        <5>3. QED  BY <5>1, <5>2
      <4> DEFINE u == SubSeq(piece, m, n)
                 v == SubSeq(line, m, n)
      <4>2. /\ u \in Seq(STRING) /\ Len(u) = IF m <= n THEN n - m + 1 ELSE 0
            /\ \A j \in 1 .. n - m + 1 : u[j] = piece[m + j - 1]
        BY <4>1, SubSeqProperties
      <4>3. /\ v \in Seq(STRING) /\ Len(v) = IF m <= n THEN n - m + 1 ELSE 0
            /\ \A j \in 1 .. n - m + 1 : v[j] = line[m + j - 1]
        BY <4>1, SubSeqProperties
      <4> HIDE DEF u, v
      <4>4. \A j \in 1 .. Len(u) : u[j] = v[j]
        <5> SUFFICES ASSUME NEW j \in 1 .. Len(u) PROVE u[j] = v[j]
          OBVIOUS
        <5>1. j \in 1 .. n - m + 1 /\ m + j - 1 \in m .. n
          BY <1>0, <4>2
        <5>2. QED  BY <4>1, <4>2, <4>3, <5>1
      <4>5. u = v
        BY <4>2, <4>3, <4>4, SeqEqual
      <4>6. QED  BY <4>5 DEF u, v
    <3>2. /\ p[1] \in 1 .. Len(line) /\ p[2] \in 1 .. Len(line)
          /\ p[3] \in 1 .. Len(line) /\ p[4] \in 1 .. Len(line)
      OBVIOUS
    <3>3. /\ SubSeq(piece, p[1], p[2]) = SubSeq(line, p[1], p[2])
          /\ SubSeq(piece, p[3], p[4]) = SubSeq(line, p[3], p[4])
      BY <3>1, <3>2, Zenon
    <3>4. QED  BY <2>1, <3>3
  <2>3. \A q \in F : States(line, q) => q = p
    <3> SUFFICES ASSUME NEW q \in F, States(line, q) PROVE q = p
      OBVIOUS
    <3>1. /\ q[1] = Key(piece) /\ q[2] = KeyEnd(piece) - 1
          /\ q[3] = Value(piece) /\ q[4] = ValueEnd(piece) - 1
      BY OnlyPlace
    <3>2. \A n \in 1 .. 4 : q[n] = p[n]
      <4>1. \A n \in 1 .. 4 : n = 1 \/ n = 2 \/ n = 3 \/ n = 4
        OBVIOUS
      <4>2. QED  BY <2>1, <3>1, <4>1
    <3>3. QED  BY <3>2
  <2> HIDE DEF F, pair, PairAt
  <2>4. { q \in F : States(line, q) } = {p}
    BY <2>1, <2>3
  <2>5. Stated(line) = {PairAt(p)}
    BY <1>2, <2>4
  <2>6. QED  BY <1>1, <1>4, <2>2, <2>5
<1>5. QED  BY <1>3, <1>4

-----------------------------------------------------------------------------
(* How a file is cut. *)

LEMMA PartIs ==
  ASSUME NEW s, NEW a \in Int, NEW z \in Int, \A j \in a .. z : s[j] \in STRING
  PROVE  /\ SubSeq(s, a, z) \in Seq(STRING)
         /\ Len(SubSeq(s, a, z)) = IF a <= z THEN z - a + 1 ELSE 0
         /\ \A j \in 1 .. z - a + 1 : SubSeq(s, a, z)[j] = s[a + j - 1]
BY SubSeqProperties

LEMMA TailIs ==
  ASSUME NEW s \in Seq(STRING), NEW n \in 0 .. Len(s)
  PROVE  LET t == SubSeq(s, n + 1, Len(s))
         IN /\ t \in Seq(STRING) /\ Len(t) = Len(s) - n
            /\ \A j \in 1 .. Len(s) - n : t[j] = s[n + j]
<1> DEFINE t == SubSeq(s, n + 1, Len(s))
<1>1. Len(s) \in Nat /\ n \in Nat /\ n <= Len(s)
  OBVIOUS
<1>2. \A j \in n + 1 .. Len(s) : s[j] \in STRING
  BY <1>1
<1>3. /\ t \in Seq(STRING)
      /\ Len(t) = IF n + 1 <= Len(s) THEN Len(s) - (n + 1) + 1 ELSE 0
      /\ \A j \in 1 .. Len(s) - (n + 1) + 1 : t[j] = s[(n + 1) + j - 1]
  BY <1>1, <1>2, SubSeqProperties
<1>4. Len(s) - (n + 1) + 1 = Len(s) - n /\ \A j \in 1 .. Len(s) - n : (n + 1) + j - 1 = n + j
  BY <1>1
<1> HIDE DEF t
<1>5. Len(t) = Len(s) - n
  BY <1>1, <1>3
<1>6. \A j \in 1 .. Len(s) - n : t[j] = s[n + j]
  BY <1>3, <1>4
<1>7. QED  BY <1>3, <1>5, <1>6 DEF t

LEMMA HeadIs ==
  ASSUME NEW s \in Seq(STRING), NEW n \in 0 .. Len(s)
  PROVE  LET t == SubSeq(s, 1, n)
         IN /\ t \in Seq(STRING) /\ Len(t) = n /\ \A j \in 1 .. n : t[j] = s[j]
<1> DEFINE t == SubSeq(s, 1, n)
<1>1. Len(s) \in Nat /\ n \in Nat /\ n <= Len(s)
  OBVIOUS
<1>2. \A j \in 1 .. n : s[j] \in STRING
  BY <1>1
<1>3. /\ t \in Seq(STRING) /\ Len(t) = IF 1 <= n THEN n - 1 + 1 ELSE 0
      /\ \A j \in 1 .. n - 1 + 1 : t[j] = s[1 + j - 1]
  BY <1>1, <1>2, SubSeqProperties
<1>4. n - 1 + 1 = n /\ \A j \in 1 .. n : 1 + j - 1 = j
  BY <1>1
<1> HIDE DEF t
<1>5. Len(t) = n
  BY <1>1, <1>3
<1>6. \A j \in 1 .. n : t[j] = s[j]
  BY <1>3, <1>4
<1>7. QED  BY <1>3, <1>5, <1>6 DEF t

(* The rest of the rest is a rest. *)
LEMMA TailOfTail ==
  ASSUME NEW s \in Seq(STRING), NEW k \in 0 .. Len(s), NEW n \in 0 .. Len(s) - k,
         NEW t, t = SubSeq(s, k + 1, Len(s))
  PROVE  SubSeq(t, n + 1, Len(t)) = SubSeq(s, k + n + 1, Len(s))
<1>1. /\ t \in Seq(STRING) /\ Len(t) = Len(s) - k
      /\ \A j \in 1 .. Len(s) - k : t[j] = s[k + j]
  BY TailIs
<1>2. Len(s) \in Nat /\ k \in Nat /\ n \in Nat /\ k + n \in 0 .. Len(s) /\ n \in 0 .. Len(t)
  BY <1>1
<1> DEFINE u == SubSeq(t, n + 1, Len(t))
           v == SubSeq(s, k + n + 1, Len(s))
           m == Len(s) - k - n
<1>3. /\ u \in Seq(STRING) /\ Len(u) = Len(t) - n
      /\ \A j \in 1 .. Len(t) - n : u[j] = t[n + j]
  BY <1>1, <1>2, TailIs
<1>4. /\ v \in Seq(STRING) /\ Len(v) = Len(s) - (k + n)
      /\ \A j \in 1 .. Len(s) - (k + n) : v[j] = s[k + n + j]
  BY <1>2, TailIs
<1>5. Len(t) - n = m /\ Len(s) - (k + n) = m /\ m \in Nat
  BY <1>1, <1>2
<1> HIDE DEF u, v, m
<1>6. \A j \in 1 .. m : u[j] = v[j]
  <2> SUFFICES ASSUME NEW j \in 1 .. m PROVE u[j] = v[j]
    OBVIOUS
  <2>1. n + j \in 1 .. Len(s) - k /\ k + (n + j) = k + n + j
    <3>0. j \in Nat /\ 1 <= j /\ j <= m
      BY <1>5
    <3>1. m = Len(s) - k - n
      BY DEF m
    <3>2. Len(s) \in Nat /\ k \in Nat /\ n \in Nat
      BY <1>2
    <3>3. QED  BY <3>0, <3>1, <3>2
  <2>2. u[j] = t[n + j] /\ v[j] = s[k + n + j]
    BY <1>3, <1>4, <1>5
  <2>3. t[n + j] = s[k + (n + j)]
    BY <1>1, <2>1
  <2>4. QED  BY <2>1, <2>2, <2>3
<1>7. u = v
  BY <1>3, <1>4, <1>5, <1>6, SeqEqual
<1>8. QED  BY <1>7 DEF u, v

(* A piece is not empty. *)
LEMMA PieceEnds ==
  ASSUME NEW s \in Seq(STRING), s # <<>>
  PROVE  PieceEnd(s) \in 1 .. Len(s)
<1> DEFINE T == { j \in DOMAIN s : s[j] = NewLine \/ j = BufSize - 1 } \cup {Len(s)}
<1>1. T \subseteq 1 .. Len(s) /\ T # {}
  OBVIOUS
<1> HIDE DEF T
<1>2. T \subseteq Nat
  BY <1>1
<1>3. Least(T) \in T
  BY <1>1, <1>2, SmallestOf
<1>4. QED  BY <1>1, <1>3 DEF PieceEnd, T

(* The piece behind the first k characters of a file whose lines fit the    *)
(* buffer, where a line begins; m characters have been read behind it.      *)
PieceFrom(file, k, rest, m) ==
  /\ file \in Seq(STRING) /\ Tidy(file) /\ k \in 0 .. Len(file) - 1
  /\ k = 0 \/ file[k] = NewLine
  /\ rest = SubSeq(file, k + 1, Len(file)) /\ m = k + PieceEnd(rest)

(* Of a file whose lines fit into the buffer, the piece that begins with a *)
(* line is that line.                                                      *)
LEMMA PieceIsLine ==
  ASSUME NEW file, NEW k, NEW rest, NEW m, PieceFrom(file, k, rest, m)
  PROVE  /\ k + 1 \in LineStarts(file)
         /\ m \in k + 1 .. Len(file)
         /\ IsPieceOf(Piece(rest), LineAt(file, k + 1))
         /\ m = Len(file) \/ file[m] = NewLine
         /\ \A j \in k + 1 .. m - 1 : file[j] # NewLine
<1> /\ file \in Seq(STRING) /\ Tidy(file) /\ k \in 0 .. Len(file) - 1
    /\ k = 0 \/ file[k] = NewLine
    /\ rest = SubSeq(file, k + 1, Len(file)) /\ m = k + PieceEnd(rest)
  BY DEF PieceFrom
<1> DEFINE F == Len(file)
           e == Stop(file, k + 1, {NewLine})
           line == LineAt(file, k + 1)
           L == e - 1 - k
           E == IF e <= F THEN e - k ELSE F - k
<1>0. F \in Nat /\ k \in Nat /\ k < F /\ k + 1 \in 1 .. F + 1 /\ BufSize \in Nat
  BY BufSizeAssumption
<1>1. /\ rest \in Seq(STRING) /\ Len(rest) = F - k
      /\ \A j \in 1 .. F - k : rest[j] = file[k + j]
  BY <1>0, TailIs
<1>2. /\ e \in k + 1 .. F + 1 /\ (e <= F => file[e] \in {NewLine})
      /\ \A j \in k + 1 .. e - 1 : file[j] \notin {NewLine}
  BY <1>0, StopIs
<1>3. k + 1 \in LineStarts(file)
  BY <1>0 DEF LineStarts
<1>l. line = SubSeq(file, k + 1, e - 1)
  BY DEF LineAt
<1> HIDE DEF F, e, line
<1>r. L \in Nat /\ E \in 1 .. F - k /\ E <= L + 1 /\ L <= F - k /\ e = k + L + 1
      /\ (e <= F => E = L + 1) /\ (~(e <= F) => E = L /\ L = F - k)
  BY <1>0, <1>2
<1>4. /\ line \in Seq(STRING) /\ Len(line) = L /\ \A j \in 1 .. L : line[j] = file[k + j]
  <2> DEFINE a == k + 1
             z == e - 1
  <2>0. a \in Int /\ z \in Int /\ z - a + 1 = L /\ (a <= z <=> 1 <= L)
        /\ \A j \in 1 .. L : a + j - 1 = k + j
    BY <1>0, <1>2
  <2>1. \A j \in a .. z : file[j] \in STRING
    <3>1. \A j \in a .. z : j \in 1 .. F
      BY <1>0, <1>2
    <3>2. \A j \in 1 .. F : file[j] \in STRING
      BY DEF F
    <3>3. QED  BY <3>1, <3>2
  <2>2. line = SubSeq(file, a, z)
    BY <1>l
  <2> HIDE DEF a, z, L
  <2>7. /\ SubSeq(file, a, z) \in Seq(STRING)
        /\ Len(SubSeq(file, a, z)) = IF a <= z THEN z - a + 1 ELSE 0
        /\ \A j \in 1 .. z - a + 1 : SubSeq(file, a, z)[j] = file[a + j - 1]
    BY <2>0, <2>1, PartIs
  <2>3. /\ line \in Seq(STRING) /\ Len(line) = IF a <= z THEN z - a + 1 ELSE 0
        /\ \A j \in 1 .. z - a + 1 : line[j] = file[a + j - 1]
    BY <2>2, <2>7
  <2>4. Len(line) = L
    BY <1>r, <2>0, <2>3
  <2>5. \A j \in 1 .. L : line[j] = file[k + j]
    BY <2>0, <2>3
  <2>6. QED  BY <2>3, <2>4, <2>5
<1>5. L <= BufSize - 2 /\ (L # 0 => line[L] # Blank)
  <2>1. Len(line) <= BufSize - 2 /\ (line = <<>> \/ line[Len(line)] # Blank)
    BY <1>3 DEF Tidy, line
  <2>2. L # 0 => line # <<>>
    BY <1>4
  <2> HIDE DEF L
  <2>3. QED  BY <1>4, <2>1, <2>2
<1>6. \A j \in 1 .. L : line[j] # NewLine
  <2> SUFFICES ASSUME NEW j \in 1 .. L PROVE line[j] # NewLine
    OBVIOUS
  <2>1. k + j \in k + 1 .. e - 1
    BY <1>0, <1>r
  <2>2. QED  BY <1>2, <1>4, <2>1
<1> DEFINE T == { j \in DOMAIN rest : rest[j] = NewLine \/ j = BufSize - 1 } \cup {Len(rest)}
<1>7. E \in T
  <2>1. CASE e <= F
    <3>1. E = e - k /\ E \in DOMAIN rest /\ k + E = e
      BY <1>0, <1>1, <1>2, <1>r, <2>1
    <3>2. rest[E] = file[k + E]
      BY <1>1, <1>r
    <3>3. rest[E] = NewLine
      BY <1>2, <2>1, <3>1, <3>2
    <3>4. QED  BY <3>1, <3>3
  <2>2. CASE ~(e <= F)
    <3>1. E = Len(rest)
      BY <1>1, <2>2
    <3>2. QED  BY <3>1
  <2>3. QED  BY <2>1, <2>2
<1>8. ASSUME NEW j \in T PROVE E <= j
  <2>1. CASE j = Len(rest)
    BY <1>0, <1>1, <1>r, <2>1
  <2>2. CASE j = BufSize - 1
    <3> HIDE DEF E, L
    <3>1. QED  BY <1>0, <1>r, <1>5, <2>2
  <2>3. CASE j \in DOMAIN rest /\ rest[j] = NewLine
    <3>1. j \in 1 .. F - k
      BY <1>0, <1>1, <2>3
    <3>2. file[k + j] = NewLine
      BY <1>1, <2>3, <3>1
    <3>3. k + j \notin k + 1 .. e - 1
      BY <1>2, <3>2
    <3> HIDE DEF E, L
    <3>4. QED  BY <1>0, <1>r, <3>1, <3>3
  <2>4. QED  BY <2>1, <2>2, <2>3
<1>9. T \subseteq Nat
  BY <1>0, <1>1
<1> HIDE DEF T, E, L
<1>10. PieceEnd(rest) = E
  <2>1. Least(T) \in T /\ \A j \in T : Least(T) <= j
    BY <1>7, <1>9, SmallestOf
  <2>2. E <= Least(T) /\ Least(T) <= E /\ E \in Nat /\ Least(T) \in Nat
    BY <1>7, <1>8, <1>9, <2>1
  <2>3. Least(T) = E
    BY <2>2
  <2>4. QED  BY <2>3 DEF PieceEnd, T
<1> DEFINE piece == SubSeq(rest, 1, E)
<1>11. piece \in Seq(STRING) /\ Len(piece) = E /\ \A j \in 1 .. E : piece[j] = rest[j]
  <2>1. E \in 0 .. Len(rest)
    BY <1>0, <1>1, <1>r
  <2>2. QED  BY <1>1, <2>1, HeadIs
<1>p. Piece(rest) = piece
  BY <1>10 DEF Piece
<1> HIDE DEF piece
<1>12. \A j \in 1 .. L : piece[j] = line[j]
  <2> SUFFICES ASSUME NEW j \in 1 .. L PROVE piece[j] = line[j]
    OBVIOUS
  <2>1. j \in 1 .. E /\ j \in 1 .. F - k
    BY <1>0, <1>r
  <2>2. QED  BY <1>1, <1>4, <1>11, <2>1
<1>13. Len(piece) \in {L, L + 1} /\ (Len(piece) = L + 1 => piece[Len(piece)] = NewLine)
  <2>1. CASE e <= F
    <3>1. E = L + 1 /\ k + E = e /\ E \in 1 .. E /\ E \in 1 .. F - k
      BY <1>0, <1>2, <1>r, <2>1
    <3>2. piece[E] = file[k + E]
      BY <1>1, <1>11, <3>1
    <3>3. QED  BY <1>2, <1>11, <2>1, <3>1, <3>2
  <2>2. CASE ~(e <= F)
    BY <1>0, <1>r, <1>11, <2>2
  <2>3. QED  BY <2>1, <2>2
<1>14. IsPieceOf(piece, line)
  <2>1. /\ line \in Seq(STRING) /\ piece \in Seq(STRING) /\ Len(line) = L
    BY <1>4, <1>11
  <2>2. QED  BY <1>5, <1>6, <1>12, <1>13, <2>1 DEF IsPieceOf
<1>15. m = k + E /\ m \in k + 1 .. F
  BY <1>0, <1>10, <1>r
<1>16. m = F \/ file[m] = NewLine
  BY <1>0, <1>2, <1>r, <1>15
<1>17. ASSUME NEW j \in k + 1 .. m - 1 PROVE file[j] # NewLine
  <2>1. j \in k + 1 .. e - 1
    BY <1>0, <1>2, <1>r, <1>15
  <2>2. QED  BY <1>2, <2>1
<1>18. QED  BY <1>3, <1>p, <1>14, <1>15, <1>16, <1>17 DEF F, line

-----------------------------------------------------------------------------
(* What the storage knows after the first k characters of a file. *)

With(file, key, k) ==
  { n \in LineStarts(file) : n <= k /\ \E p \in StatedAt(file, n) : p.key = key }
FirstOf(S) == { n \in S : \A m \in S : n <= m }
FirstTo(file, key, k) ==
  { p.value : p \in { q \in UNION { StatedAt(file, n) : n \in FirstOf(With(file, key, k)) } :
                        q.key = key } }
ReadTo(store, file, k) == \A key : Found(store, key) = FirstTo(file, key, k)

LEMMA FirstOfSome ==
  ASSUME NEW S, S \subseteq Nat, S # {}
  PROVE  FirstOf(S) # {}
BY SmallestOf DEF FirstOf

LEMMA FoundIs ==
  ASSUME NEW store, NEW key
  PROVE  Found(store, key) = { store.values[n] : n \in FirstOf(Matches(store, key)) }
BY DEF Found, FirstOf

LEMMA FoundSome ==
  ASSUME NEW store, Paired(store), NEW key
  PROVE  /\ Matches(store, key) \subseteq 1 .. Len(store.keys)
         /\ Found(store, key) = {} <=> Matches(store, key) = {}
<1>1. PICK K : store.keys \in Seq(K)
  BY DEF Paired, IsSeq
<1>2. DOMAIN store.keys = 1 .. Len(store.keys) /\ Len(store.keys) \in Nat
  BY <1>1
<1>3. Matches(store, key) \subseteq 1 .. Len(store.keys)
  BY <1>2 DEF Matches
<1>4. Matches(store, key) \subseteq Nat
  BY <1>2, <1>3
<1>5. Matches(store, key) # {} => FirstOf(Matches(store, key)) # {}
  BY <1>4, FirstOfSome
<1>6. FirstOf(Matches(store, key)) \subseteq Matches(store, key)
  BY DEF FirstOf
<1>7. QED  BY <1>3, <1>5, <1>6, FoundIs

(* One more pair changes only what is found for its key, and only if       *)
(* nothing was.                                                            *)
LEMMA FoundInserted ==
  ASSUME NEW store, Paired(store), NEW k, NEW v, NEW key
  PROVE  Found(Inserted(store, k, v), key) =
           IF key = k /\ Found(store, key) = {} THEN {v} ELSE Found(store, key)
<1> DEFINE more == Inserted(store, k, v)
           L == Len(store.keys)
           M == Matches(store, key)
           N == Matches(more, key)
<1>1. /\ IsSeq(store.keys) /\ IsSeq(store.values) /\ Len(store.values) = L
  BY DEF Paired
<1>2. more.keys = Append(store.keys, k) /\ more.values = Append(store.values, v)
  BY DEF Inserted
<1>d. /\ L \in Nat /\ DOMAIN store.keys = 1 .. L /\ DOMAIN store.values = 1 .. L
  <2>1. PICK K : store.keys \in Seq(K)
    BY <1>1 DEF IsSeq
  <2>2. PICK V : store.values \in Seq(V)
    BY <1>1 DEF IsSeq
  <2>3. QED  BY <1>1, <2>1, <2>2
<1>3. /\ DOMAIN more.keys = 1 .. L + 1 /\ DOMAIN more.values = 1 .. L + 1
      /\ \A n \in 1 .. L : more.keys[n] = store.keys[n] /\ more.values[n] = store.values[n]
      /\ more.keys[L + 1] = k /\ more.values[L + 1] = v
  <2>1. /\ DOMAIN more.keys = DOMAIN store.keys \cup {L + 1}
        /\ \A n \in DOMAIN store.keys : more.keys[n] = store.keys[n]
        /\ more.keys[L + 1] = k
    BY <1>1, <1>2, AnyAppend
  <2>2. /\ DOMAIN more.values = DOMAIN store.values \cup {L + 1}
        /\ \A n \in DOMAIN store.values : more.values[n] = store.values[n]
        /\ more.values[L + 1] = v
    BY <1>1, <1>2, AnyAppend
  <2> HIDE DEF more, L
  <2>3. QED  BY <1>d, <2>1, <2>2
<1> HIDE DEF more, L
<1>4. /\ M = { n \in 1 .. L : store.keys[n] = key }
      /\ N = { n \in 1 .. L + 1 : more.keys[n] = key }
  BY <1>d, <1>3 DEF Matches
<1>5. N = M \cup (IF key = k THEN {L + 1} ELSE {})
  BY <1>d, <1>3, <1>4
<1>6. /\ Found(more, key) = { more.values[n] : n \in FirstOf(N) }
      /\ Found(store, key) = { store.values[n] : n \in FirstOf(M) }
      /\ Found(store, key) = {} <=> M = {}
  BY FoundIs, FoundSome
<1>7. M \subseteq 1 .. L
  BY <1>4
<1>8. \A n \in FirstOf(M) : more.values[n] = store.values[n]
  BY <1>3, <1>7 DEF FirstOf
<1> HIDE DEF M, N
<1>9. CASE key = k /\ M = {}
  <2>1. FirstOf(N) = {L + 1}
    BY <1>d, <1>5, <1>9 DEF FirstOf
  <2>2. { more.values[n] : n \in FirstOf(N) } = {more.values[L + 1]}
    BY <2>1
  <2>3. Found(more, key) = {v} /\ Found(store, key) = {}
    BY <1>3, <1>6, <1>9, <2>2
  <2>4. QED  BY <1>9, <2>3 DEF more
<1>10. CASE ~(key = k /\ M = {})
  <2>1. FirstOf(N) = FirstOf(M)
    <3>1. CASE key # k
      BY <1>5, <3>1
    <3>2. CASE key = k
      <4>1. PICK n \in M : TRUE
        BY <1>10, <3>2
      <4>2. n <= L /\ n \in Nat
        BY <1>d, <1>7, <4>1
      <4>3. N = M \cup {L + 1} /\ \A j \in M : j <= L + 1 /\ j \in Nat
        BY <1>d, <1>5, <1>7, <3>2
      <4>4. ~(L + 1 <= n)
        BY <1>d, <4>2
      <4>5. QED  BY <4>1, <4>3, <4>4 DEF FirstOf
    <3>3. QED  BY <3>1, <3>2
  <2>2. QED  BY <1>6, <1>8, <1>10, <2>1 DEF more
<1>11. QED  BY <1>9, <1>10

LEMMA FirstToSome ==
  ASSUME NEW file, NEW key, NEW k, With(file, key, k) \subseteq Nat
  PROVE  FirstTo(file, key, k) = {} <=> With(file, key, k) = {}
<1>1. CASE With(file, key, k) = {}
  BY <1>1 DEF FirstTo, FirstOf
<1>2. CASE With(file, key, k) # {}
  <2>1. PICK n \in FirstOf(With(file, key, k)) : TRUE
    BY <1>2, FirstOfSome
  <2>2. n \in With(file, key, k)
    BY <2>1 DEF FirstOf
  <2>3. PICK p \in StatedAt(file, n) : p.key = key
    BY <2>2 DEF With
  <2>4. p.value \in FirstTo(file, key, k)
    BY <2>1, <2>3 DEF FirstTo
  <2>5. QED  BY <1>2, <2>4
<1>3. QED  BY <1>1, <1>2

(* One more line changes only what is stated for its key, and only if      *)
(* nothing was.                                                            *)
LEMMA FirstToMore ==
  ASSUME NEW file \in Seq(STRING), NEW k \in Nat, NEW m \in Nat, k < m,
         k + 1 \in LineStarts(file),
         \A n \in LineStarts(file) : n <= m <=> n <= k \/ n = k + 1,
         NEW key
  PROVE  /\ (\A p \in StatedAt(file, k + 1) : p.key # key) =>
              FirstTo(file, key, m) = FirstTo(file, key, k)
         /\ \A p : StatedAt(file, k + 1) = {p} /\ p.key = key =>
              FirstTo(file, key, m) = IF FirstTo(file, key, k) = {} THEN {p.value}
                                      ELSE FirstTo(file, key, k)
<1> DEFINE W == With(file, key, k)
           V == With(file, key, m)
           Says == \E p \in StatedAt(file, k + 1) : p.key = key
<1>1. LineStarts(file) \subseteq Nat
  BY DEF LineStarts
<1>2. W \subseteq Nat /\ V \subseteq Nat /\ \A n \in W : n <= k
  BY <1>1 DEF With
<1>3. V = W \cup (IF Says THEN {k + 1} ELSE {})
  BY DEF With
<1>4. FirstTo(file, key, k) = {} <=> W = {}
  BY <1>2, FirstToSome
<1>5. ASSUME \A p \in StatedAt(file, k + 1) : p.key # key
      PROVE  FirstTo(file, key, m) = FirstTo(file, key, k)
  <2>1. V = W
    BY <1>3, <1>5
  <2>2. QED  BY <2>1 DEF FirstTo
<1>6. ASSUME NEW p, StatedAt(file, k + 1) = {p}, p.key = key
      PROVE  FirstTo(file, key, m) = IF FirstTo(file, key, k) = {} THEN {p.value}
                                     ELSE FirstTo(file, key, k)
  <2>1. V = W \cup {k + 1}
    BY <1>3, <1>6
  <2> HIDE DEF V, W, Says
  <2>2. CASE W = {}
    <3>1. FirstOf(V) = {k + 1}
      BY <2>1, <2>2 DEF FirstOf
    <3>2. UNION { StatedAt(file, n) : n \in FirstOf(V) } = {p}
      BY <1>6, <3>1
    <3>3. FirstTo(file, key, m) =
            { q.value : q \in { r \in UNION { StatedAt(file, n) : n \in FirstOf(V) } :
                                  r.key = key } }
      BY DEF FirstTo, V
    <3>4. { r \in {p} : r.key = key } = {p}
      BY <1>6
    <3>5. FirstTo(file, key, m) = {p.value}
      BY <3>2, <3>3, <3>4
    <3>6. QED  BY <1>4, <2>2, <3>5
  <2>3. CASE W # {}
    <3>1. PICK n \in W : TRUE
      BY <2>3
    <3>2. ~(k + 1 <= n) /\ \A j \in W : j <= k + 1
      BY <1>2
    <3>3. FirstOf(V) = FirstOf(W)
      BY <2>1, <3>1, <3>2 DEF FirstOf
    <3>4. FirstTo(file, key, m) = FirstTo(file, key, k)
      BY <3>3 DEF FirstTo, V, W
    <3>5. QED  BY <1>4, <2>3, <3>4
  <2>4. QED  BY <2>2, <2>3
<1>7. QED  BY <1>5, <1>6

-----------------------------------------------------------------------------
(* The files that are read. *)

Early == {"start", "options", "targets", "started"}
Begun == Early \cup Reads \cup {"devices"}

FileOf(s) == files[opt[FileOption(s)]]

(* Not opened yet, and behind the last line. *)
Unread(s) ==
  stage \in Early \/ (s = "sampledevs_" /\ stage = "powerids_") \/ (stage = s /\ ~reading)
Past(s) == stage = "devices" \/ (s = "powerids_" /\ stage = "sampledevs_")

(* k characters have been read, the rest begins with a line, and what was   *)
(* read is known.                                                           *)
ReadUpTo(s, k) ==
  /\ todo = SubSeq(FileOf(s), k + 1, Len(FileOf(s)))
  /\ Tidy(FileOf(s)) =>
       /\ k = 0 \/ k = Len(FileOf(s)) \/ FileOf(s)[k] = NewLine
       /\ ReadTo(stores[s], FileOf(s), k)

(* What holds of each of the two files and its storage: nothing is known of *)
(* a file that is not open yet, all of one that has been read, and of the   *)
(* open one what stands before todo.                                        *)
ReadOf(s) ==
  /\ Unread(s) => stores[s] = NoPairs
  /\ stage = s /\ reading =>
       /\ opt[FileOption(s)] \in DOMAIN files
       /\ \E k \in 0 .. Len(FileOf(s)) : ReadUpTo(s, k)
  /\ Past(s) /\ Given(FileOption(s)) =>
       /\ opt[FileOption(s)] \in DOMAIN files
       /\ Tidy(FileOf(s)) => ReadTo(stores[s], FileOf(s), Len(FileOf(s)))

Typed == \A f \in DOMAIN files : files[f] \in Seq(STRING)

ReadInv == stage \in Begun => Typed /\ \A s \in Reads : ReadOf(s)

LEMMA ReadsFromInv ==
  ReadInv => FilesAreRead
<1> SUFFICES ASSUME ReadInv, stage = "devices", NEW s \in Reads,
                    Given(FileOption(s)), Tidy(FileOf(s)), NEW key
             PROVE  Found(stores[s], key) = FirstValue(FileOf(s), key)
  BY DEF FilesAreRead, Reads, FileOf
<1> DEFINE file == FileOf(s)
<1>1. ReadTo(stores[s], file, Len(file)) /\ file \in Seq(STRING)
  BY DEF ReadInv, Begun, ReadOf, Past, Typed, FileOf
<1> HIDE DEF file
<1>2. \A n \in LineStarts(file) : n <= Len(file)
  BY <1>1 DEF LineStarts
<1>3. With(file, key, Len(file)) =
        { n \in LineStarts(file) : \E p \in StatedAt(file, n) : p.key = key }
  BY <1>2 DEF With
<1>4. FirstTo(file, key, Len(file)) = FirstValue(file, key)
  BY <1>3 DEF FirstTo, FirstValue, FirstOf
<1>5. QED  BY <1>1, <1>4 DEF ReadTo, file

LEMMA NothingReadYet ==
  ASSUME NEW file \in Seq(STRING)
  PROVE  ReadTo(NoPairs, file, 0)
<1> SUFFICES ASSUME NEW key PROVE Found(NoPairs, key) = FirstTo(file, key, 0)
  BY DEF ReadTo
<1>1. Found(NoPairs, key) = {}
  BY DEF Found, Matches, NoPairs
<1>2. With(file, key, 0) = {}
  BY DEF With, LineStarts
<1>3. QED  BY <1>1, <1>2 DEF FirstTo, FirstOf

LEMMA OthersKeepReads ==
  ASSUME StoresInv, [Next]_vars, ~ReadFiles, stage' \in Begun
  PROVE  /\ files' = files
         /\ \/ /\ stage \in Early /\ stage' \in Early \cup {"powerids_"}
               /\ reading' = reading /\ \A s \in Reads : stores'[s] = stores[s]
            \/ UNCHANGED vars
<1> USE DEF Begun, Early, Reads
<1>1. CASE Defaults \/ ParseHelp \/ ParseNoDaemonize \/ ParseMissing \/ ParseString \/ ParseLog
           \/ ParseUnknown \/ ParseDone
  BY <1>1 DEF Defaults, ParseHelp, ParseNoDaemonize, ParseMissing, ParseString, ParseLog,
     ParseUnknown, ParseDone, Parsing, Usage
<1>2. CASE ParseKeyValue
  <2>1. stage = "options" /\ UNCHANGED <<files, reading>>
    BY <1>2 DEF ParseKeyValue, Parsing
  <2>2. PICK key, value : stores' = [stores EXCEPT !["autosampledevs_"] = Inserted(@, key, value)]
                          /\ stage' = stage
    BY <1>2 DEF ParseKeyValue, Usage, Insert
  <2>3. DOMAIN stores = Stores
    BY <2>1 DEF StoresInv, GivenUp
  <2>4. \A s \in Reads : stores'[s] = stores[s]
    BY <2>2, <2>3 DEF Stores
  <2>5. QED  BY <2>1, <2>2, <2>4
<1>3. CASE DefaultTarget \/ AddTarget \/ TargetsDone \/ JustStarted \/ CheckDevices
  <2>1. UNCHANGED <<files, stores, reading>>
    BY <1>3 DEF DefaultTarget, AddTarget, TargetsDone, JustStarted, CheckDevices
  <2>2. stage \in Early /\ stage' \in Early \cup {"powerids_"}
    <3>1. CASE DefaultTarget
      BY <3>1 DEF DefaultTarget
    <3>2. CASE AddTarget
      BY <3>2 DEF AddTarget, Refuse
    <3>3. CASE TargetsDone \/ JustStarted
      BY <3>3 DEF TargetsDone, JustStarted
    <3>4. CASE CheckDevices
      BY <3>4 DEF CheckDevices, Refuse
    <3>5. QED  BY <1>3, <3>1, <3>2, <3>3, <3>4
  <2>3. QED  BY <2>1, <2>2
<1>4. CASE PrivInit \/ OpenPidFile \/ Chroot \/ PrivDrop
  BY <1>4 DEF PrivInit, OpenPidFile, Chroot, PrivDrop, Refuse
<1>5. CASE Daemonize
  <2>1. stage' = "writepid" \/ stage' = "exited"
    BY <1>5, Zenon DEF Daemonize
  <2>2. QED  BY <2>1
<1>6. CASE WritePid \/ NoChild \/ StartChild \/ InitCommandSocket
  BY <1>6 DEF WritePid, NoChild, StartChild, InitCommandSocket, Refuse
<1>7. CASE Serve
  BY <1>7 DEF Serve, OpenTty, SetupTty, ClearTty, EnterLoop, LeaveLoop, Reopen, Shutdown, Exit
<1>8. CASE ExitRefused \/ Killed
  BY <1>8 DEF ExitRefused, Exit, Killed
<1>9. CASE Terminated \/ UNCHANGED vars
  BY <1>9 DEF Terminated, vars
<1>10. QED
  BY <1>1, <1>2, <1>3, <1>4, <1>5, <1>6, <1>7, <1>8, <1>9 DEF Next, Configure, Settle, ParseOptions

(* Steps that do not read leave what has been read. *)
LEMMA OthersRead ==
  ASSUME ReadInv, ConfInv, StoresInv, [Next]_vars, ~ReadFiles, stage' \in Begun
  PROVE  Typed' /\ \A s \in Reads : ReadOf(s)'
<1>1. /\ files' = files
      /\ \/ /\ stage \in Early /\ stage' \in Early \cup {"powerids_"}
            /\ reading' = reading /\ \A s \in Reads : stores'[s] = stores[s]
         \/ UNCHANGED vars
  BY OthersKeepReads
<1>2. CASE UNCHANGED vars
  <2>1. UNCHANGED <<stage, files, opt, stores, todo, reading>>
    BY <1>2 DEF vars
  <2>2. stage \in Begun
    BY <2>1
  <2>3. Typed' /\ \A s \in Reads : Unread(s)' = Unread(s) /\ Past(s)' = Past(s)
        /\ FileOf(s)' = FileOf(s) /\ Given(FileOption(s))' = Given(FileOption(s))
    BY <2>1, <2>2 DEF ReadInv, Typed, Unread, Past, FileOf, Given, FileOption
  <2>4. ASSUME NEW s \in Reads PROVE ReadOf(s)'
    BY <2>1, <2>2, <2>3 DEF ReadInv, ReadOf, ReadUpTo, FileOption
  <2>5. QED  BY <2>3, <2>4
<1>3. CASE /\ stage \in Early /\ stage' \in Early \cup {"powerids_"}
           /\ reading' = reading /\ \A s \in Reads : stores'[s] = stores[s]
  <2>1. ~reading'
    BY <1>3 DEF ConfInv, Early, Reads, GivenUp
  <2>2. Typed /\ \A s \in Reads : stores[s] = NoPairs
    BY <1>3 DEF ReadInv, Begun, ReadOf, Unread
  <2>3. Typed'
    BY <1>1, <2>2 DEF Typed
  <2>4. ASSUME NEW s \in Reads PROVE ReadOf(s)'
    <3>1. ~Past(s)'
      BY <1>3 DEF Past, Early
    <3>2. stores'[s] = NoPairs
      BY <1>3, <2>2
    <3>3. QED  BY <2>1, <3>1, <3>2 DEF ReadOf
  <2>5. QED  BY <2>3, <2>4
<1>4. QED  BY <1>1, <1>2, <1>3

(* A file that was not asked for is not read. *)
LEMMA NoFileReads ==
  ASSUME ReadInv, ConfInv, NEW s \in Reads, NoFile(s)
  PROVE  Typed' /\ \A r \in Reads : ReadOf(r)'
<1>1. /\ stage = s /\ ~Given(FileOption(s)) /\ stage' = StageBehind(s)
      /\ UNCHANGED <<files, opt, stores, todo, reading>>
  BY DEF NoFile, Given
<1>2. ~reading
  BY <1>1 DEF ConfInv, Reads, GivenUp
<1>3. Typed /\ \A r \in Reads : ReadOf(r)
  BY <1>1 DEF ReadInv, Begun
<1>4. Typed'
  BY <1>1, <1>3 DEF Typed
<1>5. ASSUME NEW r \in Reads PROVE ReadOf(r)'
  <2>1. Unread(r)' => Unread(r)
    BY <1>1, <1>2 DEF Unread, Reads, StageBehind, Early
  <2>2. Past(r)' => Past(r) \/ r = s
    BY <1>1 DEF Past, Reads, StageBehind
  <2>3. /\ ~reading' /\ stores'[r] = stores[r] /\ FileOf(r)' = FileOf(r)
        /\ Given(FileOption(r))' = Given(FileOption(r))
    BY <1>1, <1>2 DEF FileOf, Given
  <2>4. QED  BY <1>1, <1>3, <2>1, <2>2, <2>3 DEF ReadOf
<1>6. QED  BY <1>4, <1>5

(* While a file is read, the other one is where it was. *)
LEMMA OtherFile ==
  ASSUME ReadInv, stage \in Begun, NEW s \in Reads, stage = s, stage' = s, NEW r \in Reads, r # s,
         UNCHANGED <<files, opt>>, stores'[r] = stores[r]
  PROVE  ReadOf(r)'
<1>1. ReadOf(r)
  BY DEF ReadInv
<1>2. /\ Unread(r)' => Unread(r)
      /\ Past(r)' => Past(r)
      /\ FileOf(r)' = FileOf(r) /\ Given(FileOption(r))' = Given(FileOption(r))
  BY DEF Unread, Past, FileOf, Given, Reads, Early
<1>3. QED  BY <1>1, <1>2 DEF ReadOf

LEMMA OpenFileReads ==
  ASSUME ReadInv, NEW s \in Reads, OpenFile(s), stage' \in Begun
  PROVE  Typed' /\ \A r \in Reads : ReadOf(r)'
<1>1. /\ stage = s /\ ~reading /\ UNCHANGED <<files, opt, stores>>
      /\ opt[FileOption(s)] \in DOMAIN files /\ todo' = FileOf(s) /\ reading' /\ stage' = s
  BY DEF OpenFile, Refuse, Begun, Early, Reads, FileOf
<1>2. stage \in Begun
  BY <1>1 DEF Begun
<1>3. Typed /\ ReadOf(s)
  BY <1>2 DEF ReadInv
<1>4. Typed'
  BY <1>1, <1>3 DEF Typed
<1>5. stores'[s] = NoPairs
  BY <1>1, <1>3 DEF ReadOf, Unread
<1>6. ReadOf(s)'
  <2>1. ~Unread(s)' /\ ~Past(s)'
    BY <1>1 DEF Unread, Past, Early, Reads
  <2>2. FileOf(s) \in Seq(STRING) /\ FileOf(s)' = FileOf(s)
    BY <1>1, <1>3 DEF Typed, FileOf
  <2>3. FileOf(s) = SubSeq(FileOf(s), 0 + 1, Len(FileOf(s)))
    BY <2>2, SubSeqFull
  <2>4. ReadTo(NoPairs, FileOf(s), 0)
    BY <2>2, NothingReadYet
  <2>5. ReadUpTo(s, 0)'
    BY <1>1, <1>5, <2>2, <2>3, <2>4 DEF ReadUpTo
  <2>6. 0 \in 0 .. Len(FileOf(s)')
    BY <2>2
  <2>7. QED  BY <1>1, <2>1, <2>5, <2>6 DEF ReadOf
<1>7. \A r \in Reads : r # s => ReadOf(r)'
  BY <1>1, <1>2, OtherFile
<1>8. QED  BY <1>4, <1>6, <1>7

(* Behind the last line the whole file is known. *)
LEMMA CloseFileReads ==
  ASSUME ReadInv, NEW s \in Reads, CloseFile(s), stage' \in Begun
  PROVE  Typed' /\ \A r \in Reads : ReadOf(r)'
<1>1. /\ stage = s /\ reading /\ todo = <<>> /\ ~reading' /\ UNCHANGED <<files, opt, stores>>
      /\ stage' = StageBehind(s)
  BY DEF CloseFile, Refuse, Begun, Early, Reads
<1>2. stage \in Begun
  BY <1>1 DEF Begun
<1>3. Typed /\ \A r \in Reads : ReadOf(r)
  BY <1>2 DEF ReadInv
<1>4. Typed'
  BY <1>1, <1>3 DEF Typed
<1>5. opt[FileOption(s)] \in DOMAIN files
  BY <1>1, <1>3 DEF ReadOf
<1>6. PICK k \in 0 .. Len(FileOf(s)) : ReadUpTo(s, k)
  BY <1>1, <1>3 DEF ReadOf
<1>7. FileOf(s) \in Seq(STRING)
  BY <1>3, <1>5 DEF Typed, FileOf
<1>8. k = Len(FileOf(s))
  <2>1. Len(todo) = Len(FileOf(s)) - k
    BY <1>6, <1>7, TailIs DEF ReadUpTo
  <2>2. Len(todo) = 0 /\ Len(FileOf(s)) \in Nat
    BY <1>1, <1>7
  <2>3. QED  BY <2>1, <2>2
<1>9. Tidy(FileOf(s)) => ReadTo(stores[s], FileOf(s), Len(FileOf(s)))
  BY <1>6, <1>8 DEF ReadUpTo
<1>10. ASSUME NEW r \in Reads PROVE ReadOf(r)'
  <2>1. Unread(r)' => Unread(r)
    BY <1>1 DEF Unread, Reads, StageBehind, Early
  <2>2. Past(r)' => Past(r) \/ r = s
    BY <1>1 DEF Past, Reads, StageBehind
  <2>3. /\ ~reading' /\ stores'[r] = stores[r] /\ FileOf(r)' = FileOf(r)
        /\ Given(FileOption(r))' = Given(FileOption(r))
    BY <1>1 DEF FileOf, Given
  <2>4. QED  BY <1>1, <1>3, <1>5, <1>9, <2>1, <2>2, <2>3 DEF ReadOf
<1>11. QED  BY <1>4, <1>10

(* The next piece of a file is its next line: the pair of the piece is the  *)
(* one the line states, and no other line begins in it.                     *)
LEMMA PieceStates ==
  ASSUME NEW file, NEW k, NEW rest, NEW m, PieceFrom(file, k, rest, m)
  PROVE  /\ m = Len(file) \/ file[m] = NewLine
         /\ PairsIn(Piece(rest)) = StatedAt(file, k + 1)
         /\ k + 1 \in LineStarts(file) /\ k \in Nat /\ m \in Nat /\ k < m
         /\ \A n \in LineStarts(file) : n <= m <=> n <= k \/ n = k + 1
<1>1. /\ k + 1 \in LineStarts(file)
      /\ m \in k + 1 .. Len(file)
      /\ IsPieceOf(Piece(rest), LineAt(file, k + 1))
      /\ m = Len(file) \/ file[m] = NewLine
      /\ \A j \in k + 1 .. m - 1 : file[j] # NewLine
  BY PieceIsLine
<1>2. k \in Nat /\ m \in Nat /\ k < m /\ Len(file) \in Nat
  BY <1>1 DEF PieceFrom
<1>3. PairsIn(Piece(rest)) = StatedAt(file, k + 1)
  BY <1>1, PairsAreStated DEF StatedAt
<1>4. ASSUME NEW n \in LineStarts(file) PROVE n <= m <=> n <= k \/ n = k + 1
  <2>1. n \in Nat /\ n \in 1 .. Len(file) /\ (n = 1 \/ file[n - 1] = NewLine)
    BY DEF LineStarts, PieceFrom
  <2> SUFFICES ASSUME n <= m, ~(n <= k), n # k + 1 PROVE FALSE
    BY <1>2, <2>1
  <2>2. n # 1 /\ n - 1 \in k + 1 .. m - 1
    BY <1>2, <2>1
  <2>3. QED  BY <1>1, <2>1, <2>2
<1>5. QED  BY <1>1, <1>2, <1>3, <1>4

(* What is known after one more line.                                       *)
LEMMA NextLine ==
  ASSUME NEW file, NEW k, NEW rest, NEW m, PieceFrom(file, k, rest, m),
         NEW store, Paired(store), ReadTo(store, file, k)
  PROVE  /\ PairsIn(Piece(rest)) = {} => ReadTo(store, file, m)
         /\ \A p \in PairsIn(Piece(rest)) : ReadTo(Inserted(store, p.key, p.value), file, m)
<1>1. /\ PairsIn(Piece(rest)) = StatedAt(file, k + 1)
      /\ k + 1 \in LineStarts(file) /\ k \in Nat /\ m \in Nat /\ k < m
      /\ \A n \in LineStarts(file) : n <= m <=> n <= k \/ n = k + 1
  BY PieceStates
<1>0. file \in Seq(STRING)
  BY DEF PieceFrom
<1>2. \A p \in PairsIn(Piece(rest)) : PairsIn(Piece(rest)) = {p}
  BY DEF PairsIn
<1>3. ASSUME NEW key
      PROVE  /\ (\A p \in StatedAt(file, k + 1) : p.key # key) =>
                   FirstTo(file, key, m) = FirstTo(file, key, k)
             /\ \A p : StatedAt(file, k + 1) = {p} /\ p.key = key =>
                   FirstTo(file, key, m) = IF FirstTo(file, key, k) = {} THEN {p.value}
                                           ELSE FirstTo(file, key, k)
  BY <1>0, <1>1, FirstToMore
<1>4. ASSUME PairsIn(Piece(rest)) = {} PROVE ReadTo(store, file, m)
  <2> SUFFICES ASSUME NEW key PROVE Found(store, key) = FirstTo(file, key, m)
    BY DEF ReadTo
  <2>1. FirstTo(file, key, m) = FirstTo(file, key, k)
    BY <1>1, <1>3, <1>4
  <2>2. QED  BY <2>1 DEF ReadTo
<1>5. ASSUME NEW p \in PairsIn(Piece(rest))
      PROVE  ReadTo(Inserted(store, p.key, p.value), file, m)
  <2> SUFFICES ASSUME NEW key
               PROVE  Found(Inserted(store, p.key, p.value), key) = FirstTo(file, key, m)
    BY DEF ReadTo
  <2>1. StatedAt(file, k + 1) = {p}
    BY <1>1, <1>2
  <2>2. Found(store, key) = FirstTo(file, key, k)
    BY DEF ReadTo
  <2>3. Found(Inserted(store, p.key, p.value), key) =
          IF key = p.key /\ Found(store, key) = {} THEN {p.value} ELSE Found(store, key)
    BY FoundInserted
  <2>4. CASE key = p.key
    BY <1>3, <2>1, <2>2, <2>3, <2>4
  <2>5. CASE key # p.key
    BY <1>3, <2>1, <2>2, <2>3, <2>5
  <2>6. QED  BY <2>4, <2>5
<1>6. QED  BY <1>4, <1>5

LEMMA ReadPieceReads ==
  ASSUME ReadInv, StoresInv, NEW s \in Reads, ReadPiece(s), stage' \in Begun
  PROVE  Typed' /\ \A r \in Reads : ReadOf(r)'
<1>1. stage = s /\ reading /\ todo # <<>> /\ UNCHANGED <<files, opt, reading>>
      /\ todo' = Behind(todo)
  BY DEF ReadPiece
<1>2. stage \in Begun /\ stage \notin GivenUp
  BY <1>1 DEF Begun, Reads, GivenUp
<1>3. Typed /\ ReadOf(s)
  BY <1>2 DEF ReadInv
<1>4. DOMAIN stores = Stores /\ Paired(stores[s]) /\ Reads \subseteq Stores
  BY <1>2 DEF StoresInv, Reads, Stores
<1>5. /\ stage' = s
      /\ \/ PairsIn(Piece(todo)) = {} /\ stores' = stores
         \/ \E p \in PairsIn(Piece(todo)) :
              stores' = [stores EXCEPT ![s] = Inserted(@, p.key, p.value)]
  BY <1>1 DEF ReadPiece, Refuse, Insert, Begun, Early, Reads
<1>6. Typed'
  BY <1>1, <1>3 DEF Typed
<1>7. \A r \in Reads : r # s => stores'[r] = stores[r]
  BY <1>4, <1>5
<1>8. \/ PairsIn(Piece(todo)) = {} /\ stores'[s] = stores[s]
      \/ \E p \in PairsIn(Piece(todo)) : stores'[s] = Inserted(stores[s], p.key, p.value)
  BY <1>4, <1>5
<1>9. opt[FileOption(s)] \in DOMAIN files
  BY <1>1, <1>3 DEF ReadOf
<1>10. PICK k \in 0 .. Len(FileOf(s)) : ReadUpTo(s, k)
  BY <1>1, <1>3 DEF ReadOf
<1>m. PICK m : m = k + PieceEnd(todo)
  OBVIOUS
<1> DEFINE file == FileOf(s)
<1>11. file \in Seq(STRING) /\ file' = file
  BY <1>1, <1>3, <1>9 DEF Typed, FileOf
<1>12. todo = SubSeq(file, k + 1, Len(file))
  BY <1>10 DEF ReadUpTo
<1>13. /\ Tidy(file) => k = 0 \/ k = Len(file) \/ file[k] = NewLine
       /\ Tidy(file) => ReadTo(stores[s], file, k)
  BY <1>10 DEF ReadUpTo
<1> HIDE DEF file
<1>14. k \in 0 .. Len(file)
  BY <1>10 DEF file
<1>15. todo \in Seq(STRING) /\ Len(todo) = Len(file) - k
  BY <1>11, <1>12, <1>14, TailIs
<1>16. PieceEnd(todo) \in 1 .. Len(file) - k
  BY <1>1, <1>15, PieceEnds
<1>17. k < Len(file) /\ k \in 0 .. Len(file) - 1 /\ PieceEnd(todo) \in 0 .. Len(file) - k
       /\ m \in 0 .. Len(file)
  BY <1>m, <1>11, <1>14, <1>16
<1>18. todo' = SubSeq(file, m + 1, Len(file))
  BY <1>m, <1>1, <1>11, <1>12, <1>14, <1>17, TailOfTail DEF Behind
<1>19. ASSUME Tidy(file)
       PROVE  (m = Len(file) \/ file[m] = NewLine) /\ ReadTo(stores'[s], file, m)
  <2>1. k = 0 \/ file[k] = NewLine
    BY <1>13, <1>17, <1>19
  <2>2. ReadTo(stores[s], file, k)
    BY <1>13, <1>19
  <2>p. PieceFrom(file, k, todo, m)
    BY <1>m, <1>11, <1>12, <1>17, <1>19, <2>1 DEF PieceFrom
  <2>3. m = Len(file) \/ file[m] = NewLine
    BY <2>p, PieceStates
  <2>4. /\ PairsIn(Piece(todo)) = {} => ReadTo(stores[s], file, m)
        /\ \A p \in PairsIn(Piece(todo)) : ReadTo(Inserted(stores[s], p.key, p.value), file, m)
    BY <1>4, <2>2, <2>p, NextLine
  <2>5. QED  BY <1>8, <2>3, <2>4
<1>20. ReadUpTo(s, m)'
  BY <1>11, <1>18, <1>19 DEF ReadUpTo, file
<1>21. ReadOf(s)'
  <2>1. ~Unread(s)' /\ ~Past(s)'
    BY <1>1, <1>5 DEF Unread, Past, Early, Reads
  <2>2. m \in 0 .. Len(FileOf(s)')
    BY <1>11, <1>17 DEF file
  <2>3. opt'[FileOption(s)] \in DOMAIN files'
    BY <1>1, <1>9
  <2>4. QED  BY <1>20, <2>1, <2>2, <2>3 DEF ReadOf
<1>22. \A r \in Reads : r # s => ReadOf(r)'
  BY <1>1, <1>2, <1>5, <1>7, OtherFile
<1>23. QED  BY <1>6, <1>21, <1>22

LEMMA StepReads == ReadInv /\ ConfInv /\ StoresInv /\ [Next]_vars => ReadInv'
<1> SUFFICES ASSUME ReadInv, ConfInv, StoresInv, [Next]_vars, stage' \in Begun
             PROVE  Typed' /\ \A s \in Reads : ReadOf(s)'
  BY DEF ReadInv
<1>1. CASE ~ReadFiles
  BY <1>1, OthersRead
<1>2. CASE ReadFiles
  <2>1. PICK s \in Reads : NoFile(s) \/ OpenFile(s) \/ ReadPiece(s) \/ CloseFile(s)
    BY <1>2 DEF ReadFiles, Reads
  <2>2. QED  BY <2>1, NoFileReads, OpenFileReads, ReadPieceReads, CloseFileReads
<1>3. QED  BY <1>1, <1>2

(* A daemon that got past its files knows what they state, the value of     *)
(* the first line for each name, whatever the files are, as long as their   *)
(* lines fit the buffer and do not end in blanks (options.c:204-251).       *)
THEOREM KnowsItsFiles == Spec => []FilesAreRead
<1>1. Init => ParserInv /\ StoresInv /\ ConfInv /\ ReadInv
  <2> SUFFICES ASSUME Init PROVE StoresInv /\ ConfInv /\ ReadInv
    BY ParserStart
  <2>1. ConfInv
    BY DEF Init, ConfInv, IsOpen
  <2>2. stores = [s \in Stores |-> NoPairs] /\ Reads \subseteq Stores /\ stage = "start" /\ ~reading
    BY DEF Init, Reads, Stores
  <2>3. Paired(NoPairs) /\ StoresInv
    BY <2>2, EmptyIsSeq DEF Paired, NoPairs, StoresInv
  <2>4. \A s \in Reads : stores[s] = NoPairs /\ ~Past(s) /\ stage # s
    BY <2>2 DEF Past, Reads
  <2>5. \A s \in Reads : ReadOf(s)
    BY <2>4 DEF ReadOf
  <2>6. Typed
    BY WordsAssumption DEF Init, Typed
  <2>7. QED  BY <2>1, <2>3, <2>5, <2>6 DEF ReadInv
<1>2. QED
  BY <1>1, ReadsFromInv, StepKeepsStores, StepClosesConf, StepReads, PTL DEF Spec

=============================================================================
