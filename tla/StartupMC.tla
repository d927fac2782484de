------------------------------- MODULE StartupMC -------------------------------
(* Small instances of Startup for TLC. *)
EXTENDS Startup

OptionWords == {"-h", "-D", "-u", "-g", "-C", "-P", "-L", "-d", "-p", "-a", "-A", "-x"}
LogWords == {"syslog:3", "syslog:5", "stdout:4", "stdout:9", "stderr:0", "file:2", "file:",
             "syslog:3,", "tape:3"}
AutoWords == {"t,5", "p,0", "x,1", "t,"}
OtherWords == {"ttydev", "cmdsock", "someone", "people", "jail", "ids", "devs", "absent", "pid"}

MCWords == OptionWords \cup LogWords \cup AutoWords \cup OtherWords

(* The devices are called t and p, and x is not configured; "t," has no rate. *)
MCPairOf ==
  [w \in {"t,5", "p,0", "x,1"} |->
     CASE w = "t,5" -> [key |-> <<"t">>, value |-> 5]
       [] w = "p,0" -> [key |-> <<"p">>, value |-> 0]
       [] OTHER -> [key |-> <<"x">>, value |-> 1]]

Word(type, prio, name, facility) ==
  [type |-> type, prio |-> prio, name |-> name, facility |-> facility]

MCConfOf ==
  [w \in MCWords |->
     CASE w = "syslog:3" -> Word("syslog", 3, "absent", "absent")
       [] w = "syslog:5" -> Word("syslog", 5, "given", "known")
       [] w = "stdout:4" -> Word("stdout", 4, "absent", "absent")
       [] w = "stdout:9" -> Word("stdout", 9, "absent", "absent")
       [] w = "stderr:0" -> Word("stderr", 0, "absent", "absent")
       [] w = "file:2" -> Word("file", 2, "given", "absent")
       [] w = "file:" -> Word("file", NoPrio, "absent", "absent")
       [] w = "syslog:3," -> Word("syslog", 3, "empty", "absent")
       [] OTHER -> Word("unknown", 3, "absent", "absent")]

Devices == <<"t", " ", "*", "\n", "p", " ", " ", "?", "\n">>
NoFiles == [ids |-> <<>>, devs |-> Devices]

(* Every command line of up to three words around the parser's decisions. *)
ParserWords == {"-D", "-u", "-L", "-A", "t,5", "t,", "ids", "-x", "-h"}
ParserLines == UNION { [1 .. n -> ParserWords] : n \in 0 .. 3 }

LogLines ==
  { <<"-L", a, "-L", b>> : a, b \in LogWords }
    \cup { <<"-L", a, "-L", b, "-L", c>> : a, b, c \in {"file:2", "stderr:0", "stdout:4", "syslog:5"} }

ServingLines ==
  { <<"-a", "devs", "-A", "t,5">>,
    <<"-D", "-a", "devs", "-A", "t,5", "-A", "p,0">>,
    <<"-A", "x,1", "-a", "devs">>,
    <<"-A", "t,5">>,
    <<"-a", "absent">>,
    <<"-u", "someone", "-C", "jail", "-P", "pid", "-L", "stdout:4">>,
    <<"-u", "someone", "-g", "people", "-a", "devs", "-A", "t,5", "-A", "t,5", "-P", "pid">>,
    <<"-C", "jail", "-a", "devs", "-A", "t,5", "-L", "syslog:3", "-L", "file:2">>,
    <<"-P", "pid", "-D", "-L", "stderr:0", "-L", "stdout:9">>,
    <<"-d", "ttydev", "-u", "someone", "-u", "people">> }

(* Every file of up to seven characters, in a buffer of six. *)
Chars == {"a", " ", "\n"}
Contents ==
  UNION { [1 .. n -> Chars] : n \in 0 .. 7 }
    \cup { <<"a", " ", c, "\n", d, " ", "b", "\n">> : c, d \in {"a", "b"} }

MCWorlds ==
  { [argv |-> line, files |-> NoFiles] : line \in ParserLines \cup LogLines \cup ServingLines }
    \cup { [argv |-> <<"-D", "-p", "ids">>, files |-> [ids |-> c]] : c \in Contents }

=============================================================================
