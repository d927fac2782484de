------------------------------- MODULE Startup -------------------------------
(***************************************************************************)
(* How powersensordaemon starts and how it ends: main() with the command   *)
(* line and the files of options.c, the targets of log.c, daemon.h, the    *)
(* start of the autosample child and the loop that opens the tty again     *)
(* (powersensordaemon.c, autosample.c).  The main loop itself is the       *)
(* module PowerSensorDaemon; here it is the stage "loop".                  *)
(*                                                                         *)
(* A stage is one step of main(); any call that asks for memory or for the *)
(* system's help may fail, MaxFaults times in a run, and one that asks for *)
(* a descriptor fails whenever there is none left.  argv is the command    *)
(* line without the program's name, so that argv[i] is the code's argv[i]. *)
(***************************************************************************)
EXTENDS KeyValueFile, LogTargets

CONSTANTS
  Words,            \* what a command line is made of
  Dashed,           \* the words that begin with '-'
  PairOf,           \* [words "device,rate" -> [key, value]], value being atoi(rate)
  ConfOf,           \* [Words -> Conf], a word read as the one behind -L
  Worlds,           \* command lines and the files there are: a set of
                    \* [argv, files], files being a function to their contents
  Nothing,          \* stands for an option that was not given
  Limits,           \* the largest descriptor the system grants, a set
  MaxFaults,        \* bound: calls that fail
  Leftovers         \* what a function that ends without return may return

StringFields == {"username_", "groupname_", "chroot_dir_", "pid_file_", "tty_dev_",
                 "command_sock_", "powerid_file_", "sampledev_file_"}
Stores == {"powerids_", "sampledevs_", "autosampledevs_"}

ASSUME WordsAssumption ==
  /\ Dashed \subseteq Words /\ Nothing \notin Words
  /\ {"ttydev", "cmdsock"} \subseteq Words
  /\ \A w \in Worlds :
       /\ w.argv \in Seq(Words)
       /\ \A name \in DOMAIN w.files : w.files[name] \in Seq(STRING)
ASSUME ConfAssumption ==
  /\ DOMAIN PairOf \subseteq Words
  /\ ConfOf \in [Words -> Conf]
ASSUME BoundsAssumption ==
  /\ Limits \subseteq Nat /\ (\A n \in Limits : n > 2) /\ MaxFaults \in Nat
  /\ Leftovers \subseteq Int /\ Leftovers # {}

Resources == {"inherited", "null", "conf", "logfile", "syslog", "pidfile", "data", "control",
              "pipe", "socket", "tty", "signals"}

VARIABLES
  stage,            \* where main() stands
  argv, files,      \* the command line and the files, never changed
  argc, i,          \* of options_parse: words left, place of the next one
  opt,              \* the strings and switches of options_t
  stores,           \* its three key/value storages
  todo, reading,    \* the part of the open file not yet read
  log,              \* stdlog
  fds,              \* what each descriptor of the process refers to
  std,              \* whether daemonize() put /dev/null on 0, 1 and 2: "no",
                    \* "null", "failed" (history, no guard reads it)
  tty_fd,
  proc,             \* [pid, uid, gid] of the process that runs main()
  pid_file,         \* the pid in the pid file, 0 while there is none
  child,            \* the autosample child: "none", "running", "signalled"
  ret,              \* what options_parse or main_loop returned, the exit code
  end,              \* "no", "exit", "crash", "killed"
  faults            \* calls that failed

world == <<argv, files>>
parser == <<argc, i>>
config == <<opt, stores, todo, reading>>
process == <<proc, pid_file, child>>
vars == <<stage, world, parser, config, log, fds, std, tty_fd, process, ret, end, faults>>

Fault == faults < MaxFaults /\ faults' = faults + 1
NoFault == UNCHANGED faults

-----------------------------------------------------------------------------
(* Descriptors: open() takes the lowest one that is closed, and fails if    *)
(* there is none.                                                           *)

Full(t) == \A n \in DOMAIN t : t[n] # "closed"
Lowest(t) == Least({ n \in DOMAIN t : t[n] = "closed" })
Opened(t, r) == IF Full(t) THEN t ELSE [t EXCEPT ![Lowest(t)] = r]
OpenFails(t) == Fault \/ (Full(t) /\ faults' = faults + 1)
Closed(t, r) == [n \in DOMAIN t |-> IF t[n] = r THEN "closed" ELSE t[n]]
AllClosed == [n \in DOMAIN fds |-> "closed"]
IsOpen(r) == \E n \in DOMAIN fds : fds[n] = r

(* A line for syslog connects to it, with a descriptor of the process. *)
Logged(t, prio) ==
  IF /\ \E n \in Printing(log, prio) : log.targets[n].type = "syslog"
     /\ \A n \in DOMAIN t : t[n] # "syslog"
    THEN Opened(t, "syslog")
    ELSE t

(* Where the lines of a target go. *)
Sink(target) ==
  CASE target.type = "stdout" -> fds[1]
    [] target.type = "stderr" -> fds[2]
    [] target.type = "syslog" -> "syslog"
    [] OTHER -> IF target.opened THEN fds[target.fd] ELSE "closed"

-----------------------------------------------------------------------------
(* Ends. *)

(* main() gives up: ExitRefused clears the options, closes the log, exits.  *)
Refuse(r) == stage' = "refused" /\ ret' = r

(* options_parse returns with an error, which names an argument if it is    *)
(* positive: "syntax error near: argv[ret]".                                *)
Usage(r) == stage' = "usage" /\ ret' = r

(* options_clear *)
ClearOptions ==
  stores' = [s \in Stores |-> NoPairs] /\ todo' = <<>> /\ reading' = FALSE

(* log_close *)
CloseLog ==
  log' = NoLog /\ end' = IF CloseCrashes(log) THEN "crash" ELSE "exit"

Exit == stage' = "exited" /\ ClearOptions /\ CloseLog /\ fds' = AllClosed

ExitRefused ==
  /\ stage \in {"usage", "refused"}
  /\ Exit
  /\ UNCHANGED <<world, parser, opt, std, tty_fd, process, ret, faults>>

-----------------------------------------------------------------------------
(* options_parse *)

Param == argv[i + 1]
NoParam == argc >= 2 => Param \in Dashed

Parsing == stage = "options" /\ argc > 0

(* options_default, and the copy of argv[0]: a default that could not be    *)
(* copied is missing without a word.                                        *)
Defaults ==
  /\ stage = "start"
  /\ \/ NoFault /\ stage' = "options" /\ UNCHANGED <<opt, ret>>
     \/ /\ Fault /\ stage' = "options"
        /\ \E f \in {"tty_dev_", "command_sock_"} : opt' = [opt EXCEPT ![f] = Nothing]
        /\ UNCHANGED ret
     \/ Fault /\ Usage(NoMemory) /\ UNCHANGED opt
  /\ UNCHANGED <<world, parser, stores, todo, reading, log, fds, std, tty_fd, process, end>>

StringOption(w) ==
  CASE w \in {"-u", "--username"} -> "username_"
    [] w \in {"-g", "--groupname"} -> "groupname_"
    [] w \in {"-C", "--chroot"} -> "chroot_dir_"
    [] w \in {"-P", "--write-pid"} -> "pid_file_"
    [] w \in {"-d", "--device"} -> "tty_dev_"
    [] w \in {"-s", "--socket"} -> "command_sock_"
    [] w \in {"-p", "--powerid-file"} -> "powerid_file_"
    [] w \in {"-a", "--sampledev-file"} -> "sampledev_file_"
    [] OTHER -> "none"

OtherOptions == {"-h", "--help", "-D", "--nodaemonize", "-L", "--log", "-A", "--autosampledev"}

ParameterTaken == argc' = argc - 2 /\ i' = i + 2

ParseHelp ==
  /\ Parsing /\ argv[i] \in {"-h", "--help"}
  /\ argc' = argc - 1
  /\ Usage(-1)
  /\ UNCHANGED <<world, i, config, log, fds, std, tty_fd, process, end, faults>>

ParseNoDaemonize ==
  /\ Parsing /\ argv[i] \in {"-D", "--nodaemonize"}
  /\ opt' = [opt EXCEPT !.daemonize_ = FALSE]
  /\ argc' = argc - 1 /\ i' = i + 1
  /\ UNCHANGED <<stage, world, stores, todo, reading, log, fds, std, tty_fd, process, ret, end, faults>>

(* An option without its parameter is refused at its own place. *)
ParseMissing ==
  /\ Parsing
  /\ StringOption(argv[i]) # "none" \/ argv[i] \in {"-L", "--log", "-A", "--autosampledev"}
  /\ NoParam
  /\ argc' = argc - 1
  /\ Usage(i)
  /\ UNCHANGED <<world, i, config, log, fds, std, tty_fd, process, end, faults>>

ParseString ==
  /\ Parsing /\ StringOption(argv[i]) # "none" /\ ~NoParam
  /\ \/ /\ NoFault
        /\ opt' = [opt EXCEPT ![StringOption(argv[i])] = Param]
        /\ ParameterTaken
        /\ UNCHANGED <<stage, ret>>
     \/ /\ Fault
        /\ opt' = [opt EXCEPT ![StringOption(argv[i])] = Nothing]
        /\ argc' = argc - 1 /\ UNCHANGED i
        /\ Usage(NoMemory)
  /\ UNCHANGED <<world, stores, todo, reading, log, fds, std, tty_fd, process, end>>

ParseLog ==
  /\ Parsing /\ argv[i] \in {"-L", "--log"} /\ ~NoParam
  /\ \/ /\ NoFault
        /\ opt' = [opt EXCEPT !.log_targets_ = Append(@, Param)]
        /\ ParameterTaken
        /\ UNCHANGED <<stage, ret>>
     \/ /\ Fault
        /\ argc' = argc - 1 /\ UNCHANGED <<i, opt>>
        /\ Usage(NoMemory)
  /\ UNCHANGED <<world, stores, todo, reading, log, fds, std, tty_fd, process, end>>

(* key_value_storage_add, the second insertion possibly failing after the   *)
(* first.                                                                   *)
Insert(store, key, value) ==
  NoFault /\ stores' = [stores EXCEPT ![store] = Inserted(@, key, value)]

InsertFails(store, key) ==
  /\ Fault
  /\ stores' \in {stores, [stores EXCEPT ![store] = KeyInserted(@, key)]}

ParseKeyValue ==
  /\ Parsing /\ argv[i] \in {"-A", "--autosampledev"} /\ ~NoParam
  /\ \/ /\ Param \notin DOMAIN PairOf
        /\ Usage(i + 1)
        /\ argc' = argc - 1 /\ NoFault /\ UNCHANGED <<i, stores>>
     \/ /\ Param \in DOMAIN PairOf
        /\ Insert("autosampledevs_", PairOf[Param].key, PairOf[Param].value)
        /\ ParameterTaken
        /\ UNCHANGED <<stage, ret>>
     \/ /\ Param \in DOMAIN PairOf
        /\ InsertFails("autosampledevs_", PairOf[Param].key)
        /\ argc' = argc - 1 /\ UNCHANGED i
        /\ Usage(NoMemory)
  /\ UNCHANGED <<world, opt, todo, reading, log, fds, std, tty_fd, process, end>>

ParseUnknown ==
  /\ Parsing /\ StringOption(argv[i]) = "none" /\ argv[i] \notin OtherOptions
  /\ argc' = argc - 1
  /\ Usage(i)
  /\ UNCHANGED <<world, i, config, log, fds, std, tty_fd, process, end, faults>>

ParseDone ==
  /\ stage = "options" /\ argc = 0
  /\ stage' = "targets"
  /\ UNCHANGED <<world, parser, config, log, fds, std, tty_fd, process, ret, end, faults>>

ParseOptions ==
  \/ Defaults \/ ParseHelp \/ ParseNoDaemonize \/ ParseMissing \/ ParseString \/ ParseLog
  \/ ParseKeyValue \/ ParseUnknown \/ ParseDone

-----------------------------------------------------------------------------
(* The log, the files and the devices to sample. *)

DefaultConf == [type |-> "syslog", prio |-> Notice, name |-> "given", facility |-> "known"]

(* Without -L, log_add_target("syslog:3,powersensordaemon,daemon"), whose   *)
(* result nobody looks at.                                                  *)
DefaultTarget ==
  /\ stage = "targets" /\ opt.log_targets_ = <<>>
  /\ \/ NoFault /\ log' = WithTarget(log, NewTarget(DefaultConf, TRUE, 0))
     \/ Fault /\ UNCHANGED log
  /\ stage' = "started"
  /\ UNCHANGED <<world, parser, config, fds, std, tty_fd, process, ret, end>>

(* The next -L word: one target of a kind, but for files; a file that can   *)
(* not be opened is no error.                                               *)
AddTarget ==
  /\ stage = "targets" /\ Len(log.targets) < Len(opt.log_targets_)
  /\ LET conf == ConfOf[opt.log_targets_[Len(log.targets) + 1]]
         file == conf.type = "file"
     IN \/ /\ AddReturns(log, conf) = 0 /\ (file => ~Full(fds)) /\ NoFault
           /\ log' = WithTarget(log, NewTarget(conf, file, Lowest(fds)))
           /\ fds' = IF file THEN Opened(fds, "logfile") ELSE fds
           /\ UNCHANGED <<stage, ret>>
        \/ /\ AddReturns(log, conf) = 0 /\ file /\ OpenFails(fds)
           /\ log' = WithTarget(log, NewTarget(conf, FALSE, 0))
           /\ UNCHANGED <<stage, fds, ret>>
        \/ /\ AddReturns(log, conf) # 0 /\ NoFault
           /\ Refuse(AddReturns(log, conf))
           /\ UNCHANGED <<log, fds>>
        \/ /\ conf.type # "unknown" /\ Fault
           /\ Refuse(NoMemory)
           /\ UNCHANGED <<log, fds>>
  /\ UNCHANGED <<world, parser, config, std, tty_fd, process, end>>

TargetsDone ==
  /\ stage = "targets" /\ opt.log_targets_ # <<>>
  /\ Len(log.targets) = Len(opt.log_targets_)
  /\ stage' = "started"
  /\ UNCHANGED <<world, parser, config, log, fds, std, tty_fd, process, ret, end, faults>>

(* log_printf(NOTICE, "just started...") *)
JustStarted ==
  /\ stage = "started"
  /\ fds' = Logged(fds, Notice)
  /\ stage' = "powerids_"
  /\ UNCHANGED <<world, parser, config, log, std, tty_fd, process, ret, end, faults>>

FileOption(store) == IF store = "powerids_" THEN "powerid_file_" ELSE "sampledev_file_"
StageBehind(store) == IF store = "powerids_" THEN "sampledevs_" ELSE "devices"

NoFile(store) ==
  /\ stage = store /\ opt[FileOption(store)] = Nothing
  /\ stage' = StageBehind(store)
  /\ UNCHANGED <<world, parser, config, log, fds, std, tty_fd, process, ret, end, faults>>

OpenFile(store) ==
  /\ stage = store /\ ~reading /\ opt[FileOption(store)] # Nothing
  /\ \/ /\ opt[FileOption(store)] \in DOMAIN files /\ ~Full(fds) /\ NoFault
        /\ todo' = files[opt[FileOption(store)]] /\ reading' = TRUE
        /\ fds' = Opened(fds, "conf")
        /\ UNCHANGED <<stage, ret>>
     \/ /\ (opt[FileOption(store)] \notin DOMAIN files /\ NoFault) \/ OpenFails(fds)
        /\ Refuse(-1)
        /\ UNCHANGED <<todo, reading, fds>>
  /\ UNCHANGED <<world, parser, opt, stores, log, std, tty_fd, process, end>>

(* Goes on with the next line when memory runs out. *)
Mutant_ReadPiece(store) ==
  /\ stage = store /\ reading /\ todo # <<>>
  /\ \/ /\ PairsIn(Piece(todo)) = {} /\ NoFault
        /\ UNCHANGED stores
     \/ \E p \in PairsIn(Piece(todo)) :
          Insert(store, p.key, p.value) \/ InsertFails(store, p.key)
  /\ todo' = Behind(todo)
  /\ UNCHANGED <<stage, world, parser, opt, reading, log, fds, std, tty_fd, process, ret, end>>

(* A piece of the open file; the file stays open when memory runs out.      *)
ReadPiece(store) ==
  /\ stage = store /\ reading /\ todo # <<>>
  /\ \/ /\ PairsIn(Piece(todo)) = {} /\ NoFault
        /\ UNCHANGED <<stores, stage, ret>>
     \/ \E p \in PairsIn(Piece(todo)) :
          \/ Insert(store, p.key, p.value) /\ UNCHANGED <<stage, ret>>
          \/ InsertFails(store, p.key) /\ Refuse(NoMemory)
  /\ todo' = Behind(todo)
  /\ UNCHANGED <<world, parser, opt, reading, log, fds, std, tty_fd, process, end>>

(* Behind the last line options_parse_key_value_file ends without return.   *)
CloseFile(store) ==
  /\ stage = store /\ reading /\ todo = <<>>
  /\ reading' = FALSE
  /\ fds' = Closed(fds, "conf")
  /\ \E r \in Leftovers : IF r = 0 THEN stage' = StageBehind(store) /\ UNCHANGED ret
                                   ELSE Refuse(-1)
  /\ UNCHANGED <<world, parser, opt, stores, todo, log, std, tty_fd, process, end, faults>>

ReadFiles ==
  \E store \in {"powerids_", "sampledevs_"} :
    NoFile(store) \/ OpenFile(store) \/ ReadPiece(store) \/ CloseFile(store)

DevicesInOrder ==
  LET auto == stores["autosampledevs_"]
  IN \A n \in DOMAIN auto.keys \cap DOMAIN auto.values :
       Found(stores["sampledevs_"], auto.keys[n]) # {} /\ auto.values[n] > 0

CheckDevices ==
  /\ stage = "devices"
  /\ IF DevicesInOrder THEN stage' = "priv" /\ UNCHANGED ret ELSE Refuse(-1)
  /\ UNCHANGED <<world, parser, config, log, fds, std, tty_fd, process, end, faults>>

-----------------------------------------------------------------------------
(* Privileges, pid file, background. *)

Given(option) == opt[option] # Nothing

(* The user and the group are looked up while /etc is still in reach. *)
PrivInit ==
  /\ stage = "priv"
  /\ \/ NoFault /\ stage' = "pidfile" /\ UNCHANGED ret
     \/ Given("username_") /\ Fault /\ Refuse(-1)
  /\ UNCHANGED <<world, parser, config, log, fds, std, tty_fd, process, end>>

(* Opened while the process may still write to /var/run. *)
OpenPidFile ==
  /\ stage = "pidfile"
  /\ \/ ~Given("pid_file_") /\ NoFault /\ UNCHANGED fds
     \/ Given("pid_file_") /\ ~Full(fds) /\ NoFault /\ fds' = Opened(fds, "pidfile")
     \/ Given("pid_file_") /\ OpenFails(fds) /\ fds' = Logged(fds, 2)
  /\ stage' = "chroot"
  /\ UNCHANGED <<world, parser, config, log, std, tty_fd, process, ret, end>>

(* do_chroot ends without return when all went well. *)
Chroot ==
  /\ stage = "chroot"
  /\ \/ ~Given("chroot_dir_") /\ NoFault /\ stage' = "drop" /\ UNCHANGED ret
     \/ /\ Given("chroot_dir_") /\ proc.uid = "root" /\ NoFault
        /\ \E r \in Leftovers : IF r = 0 THEN stage' = "drop" /\ UNCHANGED ret ELSE Refuse(-1)
     \/ /\ Given("chroot_dir_")
        /\ (proc.uid # "root" /\ NoFault) \/ Fault
        /\ Refuse(-1)
  /\ UNCHANGED <<world, parser, config, log, fds, std, tty_fd, process, end>>

Group == IF Given("groupname_") THEN opt.groupname_ ELSE "primary"

(* setgid, setgroups, setuid, in this order; only root may set the groups.  *)
PrivDrop ==
  /\ stage = "drop"
  /\ \/ /\ ~Given("username_") /\ NoFault
        /\ stage' = "daemonize" /\ UNCHANGED <<proc, ret>>
     \/ /\ Given("username_") /\ proc.uid = "root" /\ NoFault
        /\ proc' = [proc EXCEPT !.gid = Group, !.uid = opt.username_]
        /\ stage' = "daemonize" /\ UNCHANGED ret
     \/ /\ Given("username_")
        /\ (proc.uid # "root" /\ NoFault) \/ Fault
        /\ Refuse(-1) /\ UNCHANGED proc
  /\ UNCHANGED <<world, parser, config, log, fds, std, tty_fd, pid_file, child, end>>

StdClosed == [n \in DOMAIN fds |-> IF n <= 2 THEN "closed" ELSE fds[n]]

(* The standard descriptors after the two dup() of /dev/null. *)
Mutant_StdReopened == { Opened(StdClosed, "null") }

StdReopened == { Opened(Opened(Opened(StdClosed, "null"), "null"), "null") }

(* /dev/null can not be opened, or one dup() fails. *)
StdFailures ==
  { Logged(StdClosed, 2), Logged(Opened(Opened(StdClosed, "null"), "null"), 2) }

(* Two forks, so that the process is the grandchild of the one that was     *)
(* started; a failure leaves by exit() without closing the log.             *)
Daemonize ==
  /\ stage = "daemonize"
  /\ \/ /\ ~opt.daemonize_ /\ NoFault
        /\ stage' = "writepid" /\ UNCHANGED <<fds, std, proc, ret, end>>
     \/ /\ opt.daemonize_
        /\ \/ NoFault /\ fds' \in StdReopened /\ std' = "null"
           \/ Fault /\ fds' \in StdFailures /\ std' = "failed"
        /\ proc' = [proc EXCEPT !.pid = @ + 2]
        /\ stage' = "writepid" /\ UNCHANGED <<ret, end>>
     \/ /\ opt.daemonize_ /\ Fault
        /\ stage' = "exited" /\ end' = "exit" /\ ret' = -1
        /\ fds' = AllClosed
        /\ UNCHANGED <<proc, std>>
  /\ UNCHANGED <<world, parser, config, log, tty_fd, pid_file, child>>

(* Writes the pid taken before daemonize(). *)
Mutant_WritePid ==
  /\ stage = "writepid"
  /\ pid_file' = IF IsOpen("pidfile") THEN 1 ELSE pid_file
  /\ fds' = Closed(fds, "pidfile")
  /\ stage' = "autosample"
  /\ UNCHANGED <<world, parser, config, log, std, tty_fd, proc, child, ret, end, faults>>

WritePid ==
  /\ stage = "writepid"
  /\ pid_file' = IF IsOpen("pidfile") THEN proc.pid ELSE pid_file
  /\ fds' = Closed(fds, "pidfile")
  /\ stage' = "autosample"
  /\ UNCHANGED <<world, parser, config, log, std, tty_fd, proc, child, ret, end, faults>>

-----------------------------------------------------------------------------
(* The child, the command socket, the tty. *)

NoChild ==
  /\ stage = "autosample" /\ stores["autosampledevs_"].keys = <<>>
  /\ stage' = "socket"
  /\ UNCHANGED <<world, parser, config, log, fds, std, tty_fd, process, ret, end, faults>>

(* Two pipes and a fork; the parent keeps the read end of the first and the *)
(* write end of the second.                                                 *)
StartChild ==
  /\ stage = "autosample" /\ stores["autosampledevs_"].keys # <<>>
  /\ LET three == Opened(Opened(Opened(fds, "data"), "pipe"), "pipe")
     IN \/ /\ ~Full(three) /\ NoFault
           /\ fds' = Closed(Opened(three, "control"), "pipe")
           /\ child' = "running"
           /\ stage' = "socket" /\ UNCHANGED ret
        \/ OpenFails(three) /\ Refuse(1) /\ UNCHANGED <<fds, child>>
  /\ UNCHANGED <<world, parser, config, log, std, tty_fd, proc, pid_file, end>>

(* init_command_socket; strlen() of a path that is not there ends the       *)
(* process.                                                                 *)
InitCommandSocket ==
  /\ stage = "socket"
  /\ \/ /\ Given("command_sock_") /\ ~Full(fds) /\ NoFault
        /\ fds' = Logged(Opened(fds, "socket"), 4)
        /\ stage' = "open" /\ UNCHANGED <<ret, end>>
     \/ /\ ~Given("command_sock_") /\ ~Full(fds) /\ NoFault
        /\ stage' = "exited" /\ end' = "crash"
        /\ fds' = AllClosed /\ UNCHANGED ret
     \/ /\ OpenFails(fds) /\ Refuse(-1)
        /\ fds' \in {fds, Opened(fds, "socket")}
        /\ UNCHANGED end
  /\ UNCHANGED <<world, parser, config, log, std, tty_fd, process>>

(* The device may be missing at any time, the one that has no name always.  *)
OpenTty ==
  /\ stage = "open"
  /\ \/ /\ Given("tty_dev_") /\ ~Full(fds)
        /\ tty_fd' = Lowest(fds) /\ fds' = Opened(fds, "tty")
        /\ stage' = "setup" /\ UNCHANGED ret
     \/ /\ tty_fd' = -1 /\ ret' = 2 /\ stage' = "sleep" /\ UNCHANGED fds
  /\ UNCHANGED <<world, parser, config, log, std, process, end, faults>>

(* setup_tty, up to the loop that empties the tty. *)
SetupTty ==
  /\ stage = "setup"
  /\ \/ stage' = "clear" /\ UNCHANGED ret
     \/ stage' = "sleep" /\ ret' = 2
  /\ UNCHANGED <<world, parser, config, log, fds, std, tty_fd, process, end, faults>>

(* clear_fd reads until select() times out; of a tty that hangs up meanwhile*)
(* it reads the end of file for ever.                                       *)
ClearTty ==
  /\ stage = "clear"
  /\ stage' \in {"enter", "spinning"}
  /\ UNCHANGED <<world, parser, config, log, fds, std, tty_fd, process, ret, end, faults>>

(* main_loop up to signal_init *)
EnterLoop ==
  /\ stage = "enter"
  /\ \/ /\ ~Full(Opened(fds, "signals")) /\ NoFault
        /\ fds' = Opened(Opened(fds, "signals"), "signals")
        /\ stage' = "loop" /\ UNCHANGED ret
     \/ OpenFails(Opened(fds, "signals")) /\ ret' = -1 /\ stage' = "shutdown" /\ UNCHANGED fds
  /\ UNCHANGED <<world, parser, config, log, std, tty_fd, process, end>>

(* main_loop returns: an error, a signal, or the tty is gone. *)
LeaveLoop ==
  /\ stage = "loop"
  /\ fds' = Closed(fds, "signals")
  /\ ret' \in {-1, 1, 2}
  /\ stage' = IF ret' = 2 THEN "sleep" ELSE "shutdown"
  /\ UNCHANGED <<world, parser, config, log, std, tty_fd, process, end, faults>>

CloseTty(above) == IF tty_fd > above THEN [fds EXCEPT ![tty_fd] = "closed"] ELSE fds

(* Takes a tty on a standard descriptor for none. *)
Mutant_Reopen ==
  /\ stage = "sleep"
  /\ fds' = CloseTty(2)
  /\ stage' = "open"
  /\ UNCHANGED <<world, parser, config, log, std, tty_fd, process, ret, end, faults>>

Reopen ==
  /\ stage = "sleep"
  /\ fds' = CloseTty(0)
  /\ stage' = "open"
  /\ UNCHANGED <<world, parser, config, log, std, tty_fd, process, ret, end, faults>>

Shutdown ==
  /\ stage = "shutdown"
  /\ child' = IF child = "running" THEN "signalled" ELSE child
  /\ Exit
  /\ UNCHANGED <<world, parser, opt, std, tty_fd, proc, pid_file, ret, faults>>

(* Outside the main loop a signal has its default action. *)
Killed ==
  /\ stage \notin {"loop", "exited"}
  /\ stage' = "exited" /\ end' = "killed"
  /\ fds' = AllClosed
  /\ UNCHANGED <<world, parser, config, log, std, tty_fd, process, ret, faults>>

Terminated == stage = "exited" /\ UNCHANGED vars

-----------------------------------------------------------------------------

Init ==
  /\ \E w \in Worlds : argv = w.argv /\ files = w.files
  /\ stage = "start"
  /\ argc = Len(argv) /\ i = 1
  /\ opt = [f \in StringFields \cup {"daemonize_", "log_targets_"} |->
              CASE f = "daemonize_" -> TRUE
                [] f = "log_targets_" -> <<>>
                [] f = "tty_dev_" -> "ttydev"
                [] f = "command_sock_" -> "cmdsock"
                [] OTHER -> Nothing]
  /\ stores = [s \in Stores |-> NoPairs]
  /\ todo = <<>> /\ reading = FALSE
  /\ log = NoLog
  /\ \E max \in Limits :
       fds = [n \in 0 .. max |-> IF n <= 2 THEN "inherited" ELSE "closed"]
  /\ std = "no" /\ tty_fd = 0
  /\ proc \in {[pid |-> 1, uid |-> u, gid |-> u] : u \in {"root", "caller"}}
  /\ pid_file = 0 /\ child = "none"
  /\ ret = 0 /\ end = "no" /\ faults = 0

Configure ==
  \/ ParseOptions \/ DefaultTarget \/ AddTarget \/ TargetsDone \/ JustStarted
  \/ ReadFiles \/ CheckDevices

Settle ==
  \/ PrivInit \/ OpenPidFile \/ Chroot \/ PrivDrop \/ Daemonize \/ WritePid
  \/ NoChild \/ StartChild \/ InitCommandSocket

Serve ==
  \/ OpenTty \/ SetupTty \/ ClearTty \/ EnterLoop \/ LeaveLoop \/ Reopen \/ Shutdown

Next == Configure \/ Settle \/ Serve \/ ExitRefused \/ Killed \/ Terminated

Spec == Init /\ [][Next]_vars

-----------------------------------------------------------------------------
(* Properties. *)

(* The two lists of a storage are walked side by side, while its length is  *)
(* that of the keys: whatever insertion ran out of memory, a daemon that    *)
(* goes on has as many values as keys (key_value_storage.c:45-111).         *)
KeysMatchValues ==
  stage \notin {"usage", "refused", "exited"} =>
    \A s \in Stores : Len(stores[s].keys) = Len(stores[s].values)

(* A daemon that got past its files knows each pair they state, with the    *)
(* value of the first line for a name, and no other, as long as the lines   *)
(* fit the buffer of 100 bytes and do not end in blanks (options.c:204).    *)
FilesAreRead ==
  stage = "devices" =>
    \A s \in {"powerids_", "sampledevs_"} :
      Given(FileOption(s)) /\ Tidy(files[opt[FileOption(s)]]) =>
        LET file == files[opt[FileOption(s)]]
        IN \A key \in KeysOf(file) \cup Range(stores[s].keys) :
             Found(stores[s], key) = FirstValue(file, key)

(* The level that log_printf tests first is not behind the list of targets: *)
(* a message is formatted whenever some enabled target asks for it          *)
(* (log.c:198-232).                                                         *)
LinesReachTargets ==
  \A prio \in Prios :
    Reached(log, prio) = { n \in DOMAIN log.targets :
                             log.targets[n].enabled /\ log.targets[n].max_prio >= prio }

(* What the daemon prints never goes to the firmware, to the child or to    *)
(* the socket: its standard descriptors are the inherited ones or           *)
(* /dev/null, and a log file is still that file, if daemonize() could       *)
(* replace the three (daemon.h:157-168).                                    *)
LogStaysOffTheWire ==
  end = "no" /\ std # "failed" =>
    /\ \A n \in 0 .. 2 : fds[n] \in {"inherited", "null"}
    /\ \A n \in DOMAIN log.targets :
         Sink(log.targets[n]) \in {"inherited", "null", "logfile", "syslog", "closed"}

(* The process that serves, or has a child to serve it, is the one that was *)
(* asked for: with -u it has given up its user and group, and the pid file, *)
(* opened before chroot and the two forks, names it (main 669-708).         *)
ServesAsTold ==
  child # "none" \/ IsOpen("socket") =>
    /\ Given("username_") => proc.uid = opt.username_ /\ proc.gid = Group
    /\ pid_file \in {0, proc.pid}
    /\ Given("pid_file_") /\ faults = 0 => pid_file = proc.pid

(* Whatever happened to the tty, a new attempt starts without it and        *)
(* without the signal pipe of the last main loop: the tests "tty_fd > 0" do *)
(* not leave a descriptor behind (main 746, sig_handler.c:164).             *)
NothingLeaks ==
  /\ stage = "open" => ~IsOpen("tty")
  /\ stage \in {"open", "sleep"} => ~IsOpen("signals") /\ ~IsOpen("conf")

=============================================================================
