-------------------------- MODULE PowerSensorDaemonMC --------------------------
(* Small instances of PowerSensorDaemon for TLC. *)
EXTENDS PowerSensorDaemon, TLC

Request(op, param) == [op |-> op, param |-> param, arg |-> ""]
Listen(arg) == [op |-> "listen", param |-> NoParam, arg |-> arg]
Ignored(op) == [op |-> op, param |-> NoParam, arg |-> ""]

OneDescriptor == {5}
TwoDescriptors == {5, 6}

(* "power on ymhpoweron", configured as two characters, and a subscription. *)
CoreLines == {Request("power", 2), Listen("movement")}

(* Commands that keep the answers in step, one that is never sent, and one   *)
(* that is answered twice.                                                   *)
AnswerLines ==
  {Request("power", 1), Request("power", 2), Request("power", NoParam), Request("sample", 1)}

(* For the runs with faults: a parameter configured as an empty string, a    *)
(* sensor that answers with an error, subscriptions, a line that only asks  *)
(* for logging.                                                             *)
FaultLines ==
  {Request("power", 0), Request("sample", 1), Listen("all"), Listen("none"), Ignored("log")}

(* Against starving and blocking: commands that are answered, commands the   *)
(* firmware never sees, subscriptions.                                      *)
LiveLines == {Request("power", 1), Request("power", NoParam), Listen("sensor")}
(* The same without the answers; the child's lines are answered. *)
QuietLines == {Request("power", NoParam), Listen("sensor")}
ChildLines == {Request("sample", 1)}
NoLines == {}

Answers == [op \in {"power", "sample"} |-> IF op = "power" THEN {"ok"} ELSE {"sensor"}]
FaultAnswers == [op \in {"power", "sample"} |-> {"error"}]
Movement == {"movement"}
Silence == {}

EofOnly == {"eof"}
EofOrError == {"eof", "error"}

Symmetry == Permutations(Conns)

=============================================================================
