------------------------------ MODULE LogTargets ------------------------------
(***************************************************************************)
(* The targets of the log and the level up to which a message is worth     *)
(* formatting at all (log.c, log_targets.h).                               *)
(*                                                                         *)
(* A log is [max_prio, targets]; of a -L word, "type:level,parameters", a  *)
(* conf keeps what the code tells apart:                                   *)
(*   type   what it begins with                                            *)
(*   prio   the digit behind the first colon, NoPrio if there is none      *)
(*   name   whether a log or file name follows: "absent" without the       *)
(*          comma, "empty" with nothing behind it                          *)
(*   facility  the same for the syslog facility behind the name            *)
(***************************************************************************)
EXTENDS Integers, Sequences

NoPrio == -1
Prios == 1 .. 5             \* ERROR .. DEBUG
Notice == 3

TargetTypes == {"syslog", "file", "stdout", "stderr"}
Conf == [type : TargetTypes \cup {"unknown"}, prio : 0 .. 9 \cup {NoPrio},
         name : {"absent", "empty", "given"},
         facility : {"absent", "empty", "known", "unknown"}]

Target == [type : TargetTypes, enabled : BOOLEAN, max_prio : 0 .. 9,
           opened : BOOLEAN, fd : Int]

NoLog == [max_prio |-> 0, targets |-> <<>>]

NoMemory == -2
SyntaxError == -1

Exists(log, type) == \E i \in DOMAIN log.targets : log.targets[i].type = type

(* The targets on stdout and stderr have no init, what follows their level  *)
(* is not looked at.                                                        *)
SyslogInitRefuses(conf) == conf.name = "empty" \/ conf.facility \in {"empty", "unknown"}
FileInitRefuses(conf) == conf.name = "empty"

InitRefuses(conf) ==
  \/ conf.type = "syslog" /\ SyslogInitRefuses(conf)
  \/ conf.type = "file" /\ FileInitRefuses(conf)

(* What log_targets_add returns when there is memory: 0 or an error. *)
AddReturns(log, conf) ==
  CASE conf.type = "unknown" -> -3
    [] conf.type \in TargetTypes \ {"file"} /\ Exists(log, conf.type) -> -4
    [] OTHER -> IF conf.prio = NoPrio \/ InitRefuses(conf) THEN SyntaxError ELSE 0

(* A file target is open if its file could be opened, on descriptor fd, the *)
(* syslog target always is; the other two have no open.                     *)
SyslogOpens(conf) == conf.type = "syslog"
FileOpens(conf, opens) == conf.type = "file" /\ opens

NewTarget(conf, opens, fd) ==
  [type |-> conf.type, enabled |-> conf.prio > 0, max_prio |-> conf.prio,
   opened |-> SyslogOpens(conf) \/ FileOpens(conf, opens),
   fd |-> IF FileOpens(conf, opens) THEN fd ELSE -1]

Wanted(targets) == { targets[i].max_prio : i \in { j \in DOMAIN targets : targets[j].enabled } }

(* update_max_prio: the level only ever grows. *)
UpdatedMaxPrio(max, targets) ==
  CHOOSE p \in Wanted(targets) \cup {max} : \A q \in Wanted(targets) \cup {max} : q <= p

(* The level is taken before the new target is in the list. *)
Mutant_WithTarget(log, target) ==
  [targets |-> Append(log.targets, target),
   max_prio |-> UpdatedMaxPrio(log.max_prio, log.targets)]

(* log_add_target after a successful log_targets_add. *)
WithTarget(log, target) ==
  [targets |-> Append(log.targets, target),
   max_prio |-> UpdatedMaxPrio(log.max_prio, Append(log.targets, target))]

(* The targets whose log function log_printf calls. *)
Reached(log, prio) ==
  IF log.max_prio < prio THEN {}
  ELSE { i \in DOMAIN log.targets : log.targets[i].enabled /\ log.targets[i].max_prio >= prio }

(* Those that print the line: a file or syslog target does if it is open.   *)
Printing(log, prio) ==
  { i \in Reached(log, prio) :
      log.targets[i].type \in {"stdout", "stderr"} \/ log.targets[i].opened }

(* log_close calls fclose() for every file target, with a null pointer for  *)
(* one whose file could not be opened.                                      *)
CloseCrashes(log) ==
  \E i \in DOMAIN log.targets : log.targets[i].type = "file" /\ ~log.targets[i].opened

=============================================================================
