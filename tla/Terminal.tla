------------------------------- MODULE Terminal -------------------------------
(***************************************************************************)
(* The two programs that connect a terminal: usocket, to the socket of a   *)
(* daemon, and serial, to a tty (serial_console/usocket.c, serial.c).      *)
(*                                                                         *)
(* Characters are numbered in the order they are typed or said.            *)
(***************************************************************************)
EXTENDS Integers, Sequences

CONSTANTS
  MaxTyped, MaxSaid,    \* bounds: characters in either direction
  MaxTrouble            \* bound: times the tty is missing or refuses setup_tty

ASSUME TerminalAssumption == MaxTyped \in Nat /\ MaxSaid \in Nat /\ MaxTrouble \in Nat

VARIABLES
  prog,                     \* "usocket", "serial"
  place, tmpfds,            \* tmpfds is fds_r after select()
  stdin_valid_fd, quit_on_eof_,
  named,                    \* the device or socket was named on the command line
  refuses,                  \* stdout takes less than it is given, now and then
  doors,                    \* open descriptors of the device or socket
  raw,                      \* the terminal is in raw mode
  ret,
  keyboard, typed, eof,     \* typed but not yet read; how many; the end of stdin
  said, line, gone,         \* the same for the other side
  screen, sent, dropped,    \* history: what was shown, what was passed on, and
                            \* how many characters the device said to nobody
  trouble

settings == <<prog, quit_on_eof_, named, refuses>>
user == <<keyboard, typed, eof>>
other == <<said, line, gone>>
passed == <<screen, sent, dropped>>
terminalVars == <<place, tmpfds, stdin_valid_fd, settings, doors, raw, ret, user, other, passed,
                  trouble>>

Count(n) == [k \in 1 .. n |-> k]

Trouble == trouble < MaxTrouble /\ trouble' = trouble + 1

-----------------------------------------------------------------------------

(* usocket gives up when it can not connect.  serial has no device unless   *)
(* one is named: argc > 0 always holds, and argv[1] is no name then.        *)
Open ==
  /\ place = "open"
  /\ \/ /\ prog = "usocket" \/ named
        /\ doors' = doors + 1
        /\ place' = IF prog = "serial" THEN "setup" ELSE "select"
        /\ UNCHANGED <<ret, trouble>>
     \/ /\ prog = "usocket" \/ named
        /\ Trouble
        /\ ret' = 2 /\ place' = IF prog = "serial" THEN "sleep" ELSE "exited"
        /\ UNCHANGED doors
     \/ /\ prog = "serial" /\ ~named
        /\ ret' = 2 /\ place' = "sleep"
        /\ UNCHANGED <<doors, trouble>>
  /\ UNCHANGED <<tmpfds, stdin_valid_fd, settings, raw, user, other, passed>>

(* setup_tty, whose last loop reads away what the device has said so far,   *)
(* or the end of a device that has hung up, for ever.                       *)
Setup ==
  /\ place = "setup"
  /\ \/ /\ place' = IF gone THEN "spinning" ELSE "raw"
        /\ line' = <<>> /\ dropped' = dropped + Len(line)
        /\ UNCHANGED <<ret, trouble>>
     \/ /\ Trouble /\ ret' = 2 /\ place' = "sleep" /\ UNCHANGED <<line, dropped>>
  /\ UNCHANGED <<tmpfds, stdin_valid_fd, settings, doors, raw, user, said, gone, screen, sent>>

(* set_tty_raw on stdin, which may be no terminal. *)
SetRaw ==
  /\ place = "raw"
  /\ \/ raw' = TRUE /\ place' = "select" /\ UNCHANGED <<ret, doors>>
     \/ ret' = -1 /\ doors' = doors - 1 /\ place' = "exited" /\ UNCHANGED raw
  /\ UNCHANGED <<tmpfds, stdin_valid_fd, settings, user, other, passed, trouble>>

TryAgain ==
  /\ place = "sleep"
  /\ doors' = 0 /\ place' = "open" /\ ret' = 0
  /\ line' = <<>> /\ dropped' = dropped + Len(line) /\ gone' = FALSE
  /\ UNCHANGED <<tmpfds, stdin_valid_fd, settings, raw, user, said, screen, sent, trouble>>

ReadableFds ==
  (IF line # <<>> \/ gone THEN {"door"} ELSE {})
    \cup (IF stdin_valid_fd /\ (keyboard # <<>> \/ eof) THEN {"stdin"} ELSE {})

SelectFds ==
  /\ place = "select" /\ ReadableFds # {}
  /\ tmpfds' = ReadableFds
  /\ place' = IF "door" \in ReadableFds THEN "door" ELSE "stdin"
  /\ UNCHANGED <<stdin_valid_fd, settings, doors, raw, ret, user, other, passed, trouble>>

Left == IF prog = "serial" THEN "restore" ELSE "shut"

(* usocket takes what there is, serial a character.  A stdout that is the   *)
(* terminal of stdin does not block either, since O_NONBLOCK was set for    *)
(* both: what it has no room for is lost, like what a full disk refuses.    *)
Show ==
  /\ place = "door"
  /\ IF line = <<>>
       THEN place' = Left /\ UNCHANGED <<line, screen>>
       ELSE LET n == IF prog = "serial" THEN 1 ELSE Len(line)
            IN /\ \E k \in 0 .. n : /\ k = n \/ refuses
                                   /\ screen' = screen \o SubSeq(line, 1, k)
               /\ line' = SubSeq(line, n + 1, Len(line))
               /\ place' = IF "stdin" \in tmpfds THEN "stdin" ELSE "select"
  /\ UNCHANGED <<tmpfds, stdin_valid_fd, settings, doors, raw, ret, user, said, gone, sent,
                 dropped, trouble>>

(* Passes on the first character of what it has read. *)
Mutant_Passed == {SubSeq(keyboard, 1, 1)}

(* The tty is not waited for: when it is slow, the rest of what was read is *)
(* lost.                                                                    *)
Passed ==
  IF prog = "serial" THEN { SubSeq(keyboard, 1, n) : n \in 0 .. Len(keyboard) } ELSE {keyboard}

(* A socket that was closed meanwhile ends usocket by SIGPIPE. *)
PassOn ==
  /\ place = "stdin" /\ keyboard # <<>>
  /\ keyboard' = <<>>
  /\ \/ /\ ~(gone /\ prog = "usocket")
        /\ \E s \in Passed : sent' = sent \o s
        /\ UNCHANGED <<place, doors>>
     \/ /\ gone /\ prog = "usocket"
        /\ place' = "killed" /\ doors' = 0 /\ UNCHANGED sent
  /\ UNCHANGED <<tmpfds, stdin_valid_fd, settings, raw, ret, typed, eof, other, screen, dropped,
                 trouble>>

(* serial goes on selecting a stdin that is at its end. *)
AtEof ==
  IF prog = "usocket" /\ quit_on_eof_ THEN place' = Left /\ UNCHANGED stdin_valid_fd
  ELSE place' = "select" /\ stdin_valid_fd' = (prog = "serial")

StdinDone ==
  /\ place = "stdin" /\ keyboard = <<>>
  /\ IF eof THEN AtEof ELSE place' = "select" /\ UNCHANGED stdin_valid_fd
  /\ UNCHANGED <<tmpfds, settings, doors, raw, ret, user, other, passed, trouble>>

(* restore_tty; in any case the end of the program, also after a hang-up.   *)
RestoreTty ==
  /\ place = "restore"
  /\ \/ raw' = FALSE /\ ret' = 0
     \/ UNCHANGED raw /\ ret' = -1
  /\ place' = "exited" /\ doors' = 0
  /\ UNCHANGED <<tmpfds, stdin_valid_fd, settings, user, other, passed, trouble>>

Shut ==
  /\ place = "shut"
  /\ place' = "exited" /\ doors' = 0
  /\ UNCHANGED <<tmpfds, stdin_valid_fd, settings, raw, ret, user, other, passed, trouble>>

TerminalStep ==
  \/ Open \/ Setup \/ SetRaw \/ TryAgain \/ SelectFds \/ Show \/ PassOn \/ StdinDone
  \/ RestoreTty \/ Shut

-----------------------------------------------------------------------------
(* The user and the other side. *)

Type ==
  /\ ~eof /\ typed < MaxTyped
  /\ typed' = typed + 1 /\ keyboard' = Append(keyboard, typed + 1)
  /\ UNCHANGED <<place, tmpfds, stdin_valid_fd, settings, doors, raw, ret, eof, other, passed,
                 trouble>>

EndOfInput ==
  /\ ~eof /\ eof' = TRUE
  /\ UNCHANGED <<place, tmpfds, stdin_valid_fd, settings, doors, raw, ret, keyboard, typed, other,
                 passed, trouble>>

Speak ==
  /\ ~gone /\ doors > 0 /\ said < MaxSaid
  /\ said' = said + 1 /\ line' = Append(line, said + 1)
  /\ UNCHANGED <<place, tmpfds, stdin_valid_fd, settings, doors, raw, ret, user, gone, passed,
                 trouble>>

HangUp ==
  /\ ~gone /\ doors > 0 /\ gone' = TRUE
  /\ UNCHANGED <<place, tmpfds, stdin_valid_fd, settings, doors, raw, ret, user, said, line, passed,
                 trouble>>

TerminalEnded == place \in {"exited", "killed", "spinning"} /\ UNCHANGED terminalVars

TerminalInit ==
  /\ prog \in {"usocket", "serial"}
  /\ place = "open" /\ tmpfds = {}
  /\ stdin_valid_fd = TRUE
  /\ quit_on_eof_ \in BOOLEAN /\ (prog = "serial" => quit_on_eof_)
  /\ named \in BOOLEAN /\ (~quit_on_eof_ => named) /\ refuses \in BOOLEAN
  /\ doors = 0 /\ raw = FALSE /\ ret = 0
  /\ keyboard = <<>> /\ typed = 0 /\ eof = FALSE
  /\ said = 0 /\ line = <<>> /\ gone = FALSE
  /\ screen = <<>> /\ sent = <<>> /\ dropped = 0 /\ trouble = 0

TerminalNext == TerminalStep \/ Type \/ EndOfInput \/ Speak \/ HangUp \/ TerminalEnded

-----------------------------------------------------------------------------
(* Properties. *)

(* Every variable keeps its type, and the device is never open twice. *)
TerminalTypeOK ==
  /\ place \in {"open", "setup", "raw", "select", "door", "stdin", "restore", "shut", "sleep",
                "exited", "killed", "spinning"}
  /\ tmpfds \subseteq {"door", "stdin"}
  /\ doors \in {0, 1}
  /\ {stdin_valid_fd, quit_on_eof_, named, refuses, raw, eof, gone} \subseteq BOOLEAN
  /\ ret \in {-1, 0, 2}

(* Characters arrive at most once and in order, in either direction, and    *)
(* all of them arrive on a stdout that takes what it is given; usocket      *)
(* passes on every one it has read, and quits at the end of its input only  *)
(* after the last of them (usocket.c:15-50, serial.c:105-128).              *)
RelayedInOrder ==
  /\ \A j, k \in DOMAIN (screen \o line) : j < k => (screen \o line)[j] < (screen \o line)[k]
  /\ ~refuses => screen \o line = [n \in 1 .. said - dropped |-> n + dropped]
  /\ prog = "usocket" /\ place # "killed" => sent \o keyboard = Count(typed)
  /\ \A j, k \in DOMAIN sent : j < k => sent[j] < sent[k]
  /\ prog = "usocket" /\ place = "exited" /\ ret = 0 /\ ~gone => sent = Count(typed)

=============================================================================
