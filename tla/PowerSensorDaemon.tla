--------------------------- MODULE PowerSensorDaemon ---------------------------
(***************************************************************************)
(* The main loop of powersensordaemon: one select() loop that multiplexes  *)
(* the serial line to the firmware, the command socket and its clients,    *)
(* the pipe of the autosample child and the signal pipe over one queue of  *)
(* commands (powersensordaemon.c, command_queue.c, client_list.c).         *)
(*                                                                         *)
(* An iteration takes a snapshot of the readable descriptors and then      *)
(* looks at each of them in a fixed order; everything the outside world    *)
(* does (clients connecting, writing, closing; the firmware answering or   *)
(* speaking on its own; the tty vanishing; the child dying; a signal) may  *)
(* happen between any two of those steps.                                  *)
(*                                                                         *)
(* Lines are atomic here: a line is either wholly in a buffer or not yet   *)
(* written.  The fields id and by of a command, conn of a client, cause of *)
(* a firmware line and the variables lastSent, nextId, delivered, cut,     *)
(* inherited and inStep are history: no guard reads them.                  *)
(*                                                                         *)
(* A definition whose name begins with Mutant_ is a broken variant of the  *)
(* definition that follows it; nothing here uses it, it shows that the     *)
(* properties notice the mistake.                                          *)
(***************************************************************************)
EXTENDS Integers, Sequences, FiniteSets

CONSTANTS
  Conns,          \* connections client programs may open, each used once
  NoConn,         \* stands for "no client holds this descriptor"
  ClientFds,      \* descriptor numbers the process may still get from accept()
  Lines,          \* lines the clients may write
  SampleLines,    \* lines the autosample child may write
  Replies,        \* [op -> set of line kinds the firmware may answer with]
  Unsolicited,    \* line kinds the firmware sends on its own
  HasAutosample,  \* the daemon was started with at least one -A option
  Slow,           \* the firmware may take longer than two seconds to answer
  ReadFailures,   \* how read() on a vanished tty fails: "eof", "error"
  MaxLines,       \* bound: lines written by the clients and the child
  MaxNoise,       \* bound: unsolicited firmware lines
  MaxHangups,     \* bound: times the tty vanishes
  MaySignal,      \* SIGTERM, SIGINT or SIGQUIT may arrive
  MayDie          \* the autosample child may die

(* The descriptors every loop watches, numbered in the order it tests them. *)
SigFd == 1
TtyFd == 2
ListenFd == 3
AutoFd == 4
LoopFds == SigFd .. AutoFd

NoFd == -1
NoParam == -1
ListenerTypes == {"request", "error", "sensor", "movement", "button"}
Kinds == {"ok"} \cup ListenerTypes
ListenArgs == ListenerTypes \cup {"all", "none", "bogus"}

(* param is the length of the character string configured for a power id or *)
(* a sample device, NoParam if the name is not configured.                  *)
Line == [op : {"power", "sample"}, param : Nat \cup {NoParam}, arg : {""}]
          \cup [op : {"listen"}, param : {NoParam}, arg : ListenArgs]
          \cup [op : {"log", "unknown"}, param : {NoParam}, arg : {""}]

Ids == Nat \ {0}
Cmd == [id : Ids, by : Conns \cup {NoConn}, fd : ClientFds \cup {AutoFd},
        op : {"power", "sample"}, param : Nat \cup {NoParam},
        sent : BOOLEAN, tv_start : {"zero", "recent", "passed"}]
Client == [fd : ClientFds, conn : Conns, listens : SUBSET ListenerTypes]
Char == [cause : Ids, op : {"power", "sample"}]
FwLine == [kind : Kinds, cause : Nat]
Delivery == [slot : Nat, to : Conns \cup {NoConn}, kind : Kinds, cause : Nat,
             reply : {"", "power", "sample"}]

ASSUME ConnsAssumption == NoConn \notin Conns
ASSUME FdsAssumption == ClientFds \subseteq Nat \ (0 .. AutoFd)
ASSUME LinesAssumption ==
  /\ Lines \subseteq Line
  /\ SampleLines \subseteq { l \in Line : l.op = "sample" }
ASSUME FirmwareAssumption ==
  /\ Replies \in [{"power", "sample"} -> SUBSET Kinds]
  /\ Unsolicited \subseteq Kinds
ASSUME SwitchesAssumption ==
  /\ {HasAutosample, Slow, MaySignal, MayDie} \subseteq BOOLEAN
  /\ ReadFailures \subseteq {"eof", "error"}
ASSUME BoundsAssumption == {MaxLines, MaxNoise, MaxHangups} \subseteq Nat

VARIABLES
  (* the daemon *)
  pc,                 \* where the loop stands
  ready,              \* tmpfds: descriptors select() reported, not yet tested
  cmd_q,
  clients,            \* client_lst
  autosample_enabled,
  autoWatched,        \* the autosample pipe is in readfds
  return_value,
  (* the sockets *)
  peer,               \* the client's end of each connection
  backlog,            \* connections accept() has not yet returned
  inbox,              \* lines written by the client and not yet read
  unread,             \* whether lines from the daemon wait to be read
  (* the serial line *)
  wire,               \* characters written and not yet answered
  tty,                \* lines answered and not yet read
  ttyUp,              \* the open tty still has its device
  (* the autosample child and signals *)
  alive, sampling,    \* the child runs; its sample_enabled
  ctl, autoPipe,      \* the two pipes between daemon and child
  sig,                \* a terminating signal is in the signal pipe
  (* bounds and history *)
  lines, noise, hangups,
  cut,                \* the last iteration ended with the continue at 522
  inherited,          \* the last order to the child is one of an earlier main_loop
  inStep,             \* since the tty was opened the firmware was neither late nor
                      \* unasked, and was sent one character for each command
  nextId, lastSent, delivered

daemon == <<pc, ready, cmd_q, clients, autosample_enabled, autoWatched, return_value>>
sockets == <<peer, backlog, inbox>>
serial == <<wire, tty, ttyUp>>
child == <<alive, sampling, ctl, autoPipe>>
history == <<cut, inherited, inStep>>
bounds == <<lines, noise, hangups, history>>
vars == <<daemon, sockets, unread, serial, child, sig, bounds, nextId, lastSent, delivered>>

-----------------------------------------------------------------------------
(* Helpers. *)

FdsOf(cls) == { cls[i].fd : i \in DOMAIN cls }

(* Unlinks the successor. *)
Mutant_Without(s, i) == [j \in 1 .. Len(s) - 1 |-> IF j <= i THEN s[j] ELSE s[j + 1]]

(* The sequence without its i-th element. *)
Without(s, i) == [j \in 1 .. Len(s) - 1 |-> IF j < i THEN s[j] ELSE s[j + 1]]

(* Takes the newest command. *)
Mutant_Pop(q) == IF q = <<>> THEN q ELSE SubSeq(q, 1, Len(q) - 1)

Pop(q) == IF q = <<>> THEN q ELSE Tail(q)

(* Only what was sent can expire. *)
Mutant_HasExpired(cmd) == cmd.tv_start = "passed"

HasExpired(cmd) == cmd.tv_start # "recent"

(* The connection behind a descriptor; the autosample descriptor is the read *)
(* end of a pipe, so nothing can be written to it.                          *)
Owner(fd) ==
  IF \E i \in DOMAIN clients : clients[i].fd = fd
    THEN clients[CHOOSE i \in DOMAIN clients : clients[i].fd = fd].conn
    ELSE NoConn

Attached(c) ==
  \/ \E i \in DOMAIN clients : clients[i].conn = c
  \/ \E i \in DOMAIN backlog : backlog[i] = c

(* What the child will do when it has obeyed all orders. *)
LastOrder == IF ctl = <<>> THEN sampling ELSE ctl[Len(ctl)]

(* What a step sends is a set; slot tells two copies of a line apart: 0 for  *)
(* a reply, the place in client_lst for a copy to a listener.               *)
Reply(fd, kind, cause, op) ==
  {[slot |-> 0, to |-> Owner(fd), kind |-> kind, cause |-> cause, reply |-> op]}

(* Does not leave out the client that gets the line as a reply. *)
Mutant_Broadcast(type, fd, cause) ==
  { [slot |-> i, to |-> clients[i].conn, kind |-> type, cause |-> cause, reply |-> ""] :
      i \in { j \in DOMAIN clients : type \in clients[j].listens } }

Broadcast(type, fd, cause) ==
  { [slot |-> i, to |-> clients[i].conn, kind |-> type, cause |-> cause, reply |-> ""] :
      i \in { j \in DOMAIN clients : type \in clients[j].listens /\ clients[j].fd # fd } }

Write(d) ==
  /\ delivered' = d
  /\ unread' = [c \in Conns |-> unread[c] \/ (peer[c] = "open" /\ \E m \in d : m.to = c)]

Quiet == delivered' = {} /\ UNCHANGED unread

-----------------------------------------------------------------------------
(* What a line does. *)

(* Puts the new command first. *)
Mutant_Push(line, fd, conn) ==
  <<[id |-> nextId, by |-> conn, fd |-> fd, op |-> line.op,
     param |-> line.param, sent |-> FALSE, tv_start |-> "zero"]>> \o cmd_q

Push(line, fd, conn) ==
  Append(cmd_q, [id |-> nextId, by |-> conn, fd |-> fd, op |-> line.op,
                 param |-> line.param, sent |-> FALSE, tv_start |-> "zero"])

(* A power or sample request: an unknown name is answered with an error at  *)
(* once, yet the command is queued without a parameter all the same.        *)
ProcessRequest(line, fd, conn) ==
  /\ line.op \in {"power", "sample"}
  /\ Write((IF line.param = NoParam THEN Reply(fd, "error", nextId, line.op) ELSE {})
             \cup Broadcast("request", fd, nextId))
  /\ cmd_q' = Push(line, fd, conn)
  /\ nextId' = nextId + 1
  /\ UNCHANGED clients

Subscribe(listens, arg) ==
  CASE arg = "all" -> ListenerTypes
    [] arg = "none" -> {}
    [] arg \in ListenerTypes -> listens \cup {arg}
    [] OTHER -> listens

ProcessListen(line, fd) ==
  /\ line.op = "listen"
  /\ clients' = [i \in DOMAIN clients |->
                   IF clients[i].fd = fd
                     THEN [clients[i] EXCEPT !.listens = Subscribe(@, line.arg)]
                     ELSE clients[i]]
  /\ Quiet
  /\ UNCHANGED <<cmd_q, nextId>>

ProcessOther(line) ==
  /\ line.op \in {"log", "unknown"}
  /\ Quiet
  /\ UNCHANGED <<cmd_q, clients, nextId>>

ProcessCmd(line, fd, conn) ==
  \/ ProcessRequest(line, fd, conn)
  \/ ProcessListen(line, fd)
  \/ ProcessOther(line)

(* The clean-up behind the loop: the queue and the clients go, and so does  *)
(* a signal set that still sits in the signal pipe.                         *)
LeaveLoop(where) ==
  /\ pc' = where
  /\ ready' = {}
  /\ cmd_q' = <<>>
  /\ clients' = <<>>
  /\ sig' = FALSE
  /\ inbox' = [c \in Conns |-> IF \E i \in DOMAIN clients : clients[i].conn = c
                                 THEN <<>> ELSE inbox[c]]

-----------------------------------------------------------------------------
(* The steps of the loop. *)


Watched == {SigFd, TtyFd, ListenFd} \cup (IF autoWatched THEN {AutoFd} ELSE {})
             \cup FdsOf(clients)

Readable(fd) ==
  \/ fd = SigFd /\ sig
  \/ fd = TtyFd /\ (tty # <<>> \/ ~ttyUp)
  \/ fd = ListenFd /\ backlog # <<>>
  \/ fd = AutoFd /\ (autoPipe # <<>> \/ ~alive)
  \/ \E i \in DOMAIN clients :
       /\ clients[i].fd = fd
       /\ inbox[clients[i].conn] # <<>> \/ peer[clients[i].conn] # "open"

ReadableNow == { fd \in Watched : Readable(fd) }

Select ==
  /\ pc = "select" /\ return_value = 0
  /\ ReadableNow # {}
  /\ ready' = ReadableNow
  /\ pc' = "dispatch"
  /\ Quiet
  /\ UNCHANGED <<cmd_q, clients, autosample_enabled, autoWatched, return_value, sockets, serial,
                 child, sig, bounds, nextId, lastSent>>

(* 200 ms without any input: the only place where the queue is looked at    *)
(* for a command that was never answered.                                   *)
SelectTimeout ==
  /\ pc = "select" /\ return_value = 0
  /\ ReadableNow = {}
  /\ cmd_q # <<>> /\ HasExpired(Head(cmd_q))
  /\ cmd_q' = Pop(cmd_q)
  /\ ready' = {}
  /\ pc' = "dispatch"
  /\ Quiet
  /\ UNCHANGED <<clients, autosample_enabled, autoWatched, return_value, sockets, serial, child,
                 sig, bounds, nextId, lastSent>>

(* Nothing to read and nothing expired (or select() was interrupted). *)
Idle ==
  /\ pc = "select" /\ return_value = 0
  /\ UNCHANGED vars

(* The condition of the loop. *)
LoopEnds ==
  /\ pc = "select" /\ return_value # 0
  /\ LeaveLoop("failed")
  /\ Quiet
  /\ UNCHANGED <<autosample_enabled, autoWatched, return_value, peer, backlog, serial, child,
                 bounds, nextId, lastSent>>

Turn(fd) ==
  /\ pc = "dispatch"
  /\ fd \in ready
  /\ \A other \in ready \cap LoopFds : fd <= other

(* The signals are read, the result is dropped. *)
Mutant_HandleSignal ==
  /\ Turn(SigFd)
  /\ sig' = FALSE /\ ready' = ready \ {SigFd}
  /\ Quiet
  /\ UNCHANGED <<pc, cmd_q, clients, autosample_enabled, autoWatched, return_value, sockets,
                 serial, child, bounds, nextId, lastSent>>

HandleSignal ==
  /\ Turn(SigFd)
  /\ LeaveLoop("signalled")
  /\ Quiet
  /\ UNCHANGED <<autosample_enabled, autoWatched, return_value, peer, backlog, serial, child,
                 bounds, nextId, lastSent>>

(* One line of the firmware, whatever it says, answers the oldest command   *)
(* and is copied to everybody else who listens to its kind.                 *)
ProcessTtyLine ==
  LET line == Head(tty)
      fd == IF cmd_q = <<>> THEN NoFd ELSE Head(cmd_q).fd
  IN /\ Turn(TtyFd)
     /\ tty # <<>>
     /\ tty' = Tail(tty)
     /\ Write((IF cmd_q = <<>> THEN {}
               ELSE Reply(fd, line.kind, line.cause, Head(cmd_q).op))
                \cup Broadcast(line.kind, fd, line.cause))
     /\ cmd_q' = Pop(cmd_q)
     /\ ready' = ready \ {TtyFd}
     /\ UNCHANGED <<pc, clients, autosample_enabled, autoWatched, return_value, sockets, wire,
                    ttyUp, child, sig, bounds, nextId, lastSent>>

(* The tty is gone: read() returns 0, main() closes and reopens the device; *)
(* or it fails, and the daemon ends.                                        *)
TtyVanished ==
  /\ Turn(TtyFd)
  /\ tty = <<>> /\ ~ttyUp
  /\ \E how \in ReadFailures : LeaveLoop(IF how = "eof" THEN "reopen" ELSE "failed")
  /\ Quiet
  /\ UNCHANGED <<autosample_enabled, autoWatched, return_value, peer, backlog, serial, child,
                 bounds, nextId, lastSent>>

(* The kernel hands out the lowest descriptor that is free, also one that a *)
(* client held who still has commands in the queue.                         *)
FreeFds == ClientFds \ FdsOf(clients)

Accept ==
  /\ Turn(ListenFd) /\ backlog # <<>>
  /\ \E fd \in FreeFds :
       /\ \A other \in FreeFds : fd <= other
       /\ clients' = Append(clients, [fd |-> fd, conn |-> Head(backlog), listens |-> {}])
  /\ backlog' = Tail(backlog)
  /\ ready' = ready \ {ListenFd}
  /\ Quiet
  /\ UNCHANGED <<pc, cmd_q, autosample_enabled, autoWatched, return_value, peer, inbox, serial,
                 child, sig, bounds, nextId, lastSent>>

(* accept() fails for want of descriptors. *)
AcceptFails ==
  /\ Turn(ListenFd)
  /\ FreeFds = {}
  /\ LeaveLoop("failed")
  /\ Quiet
  /\ UNCHANGED <<autosample_enabled, autoWatched, return_value, peer, backlog, serial, child,
                 bounds, nextId, lastSent>>

AutosampleLine ==
  /\ Turn(AutoFd)
  /\ autoPipe # <<>>
  /\ ProcessCmd(Head(autoPipe), AutoFd, NoConn)
  /\ autoPipe' = Tail(autoPipe)
  /\ ready' = ready \ {AutoFd}
  /\ UNCHANGED <<pc, autosample_enabled, autoWatched, return_value, sockets, serial, alive,
                 sampling, ctl, sig, bounds, lastSent>>

(* The child is gone: the rest of this iteration is skipped. *)
AutosampleVanished ==
  /\ Turn(AutoFd)
  /\ autoPipe = <<>> /\ ~alive
  /\ autoWatched' = FALSE
  /\ pc' = "select"
  /\ ready' = {}
  /\ Quiet
  /\ cut' = TRUE
  /\ UNCHANGED <<cmd_q, clients, autosample_enabled, return_value, sockets, serial, child, sig,
                 lines, noise, hangups, inherited, inStep, nextId, lastSent>>

(* The clients are tested in the order of client_lst, once the descriptors  *)
(* of the loop are through.                                                 *)
ClientsTurn(i) ==
  /\ pc = "dispatch"
  /\ ready \cap LoopFds = {}
  /\ clients[i].fd \in ready
  /\ \A j \in 1 .. i - 1 : clients[j].fd \notin ready

ClientLine ==
  \E i \in DOMAIN clients :
    LET c == clients[i].conn
    IN /\ ClientsTurn(i)
       /\ inbox[c] # <<>>
       /\ ProcessCmd(Head(inbox[c]), clients[i].fd, c)
       /\ inbox' = [inbox EXCEPT ![c] = Tail(@)]
       /\ ready' = ready \ {clients[i].fd}
       /\ UNCHANGED <<pc, autosample_enabled, autoWatched, return_value, peer, backlog, serial,
                      child, sig, bounds, lastSent>>

(* The descriptor of the removed client stays marked. *)
Mutant_ClientClosed ==
  \E i \in DOMAIN clients :
    LET c == clients[i].conn
    IN /\ ClientsTurn(i)
       /\ inbox[c] = <<>> /\ peer[c] = "closed"
       /\ clients' = Without(clients, i)
       /\ Quiet
       /\ UNCHANGED <<pc, ready, cmd_q, autosample_enabled, autoWatched, return_value, sockets,
                      serial, child, sig, bounds, nextId, lastSent>>

(* Starts over, as it does when the child is gone. *)
Mutant_ClientClosedContinue ==
  \E i \in DOMAIN clients :
    LET c == clients[i].conn
    IN /\ ClientsTurn(i)
       /\ inbox[c] = <<>> /\ peer[c] = "closed"
       /\ clients' = Without(clients, i)
       /\ ready' = {} /\ pc' = "select"
       /\ Quiet
       /\ UNCHANGED <<cmd_q, autosample_enabled, autoWatched, return_value, sockets, serial, child,
                      sig, bounds, nextId, lastSent>>

(* The client is removed from the list, its commands stay in the queue. *)
ClientClosed ==
  \E i \in DOMAIN clients :
    LET c == clients[i].conn
    IN /\ ClientsTurn(i)
       /\ inbox[c] = <<>> /\ peer[c] = "closed"
       /\ clients' = Without(clients, i)
       /\ ready' = ready \ {clients[i].fd}
       /\ Quiet
       /\ UNCHANGED <<pc, cmd_q, autosample_enabled, autoWatched, return_value, sockets, serial,
                      child, sig, bounds, nextId, lastSent>>

(* The client closed its end with a line of the daemon unread, so that      *)
(* read() fails with ECONNRESET: the clients behind it are skipped, and     *)
(* this iteration, which still writes and switches, is the last one.        *)
ClientReset ==
  \E i \in DOMAIN clients :
    LET c == clients[i].conn
    IN /\ ClientsTurn(i)
       /\ inbox[c] = <<>> /\ peer[c] = "reset"
       /\ return_value' = -1
       /\ ready' = {}
       /\ Quiet
       /\ UNCHANGED <<pc, cmd_q, clients, autosample_enabled, autoWatched, sockets, serial, child,
                      sig, bounds, nextId, lastSent>>

(* Writes the head in every iteration until it is answered. *)
Mutant_SendHeadAgain ==
  LET head == Head(cmd_q)
  IN IF cmd_q # <<>> /\ head.param > 0 /\ ttyUp
       THEN /\ wire' = wire \o [j \in 1 .. head.param |-> [cause |-> head.id, op |-> head.op]]
            /\ cmd_q' = [cmd_q EXCEPT ![1].sent = TRUE, ![1].tv_start = "recent"]
            /\ lastSent' = head.id
       ELSE UNCHANGED <<wire, cmd_q, lastSent>>

(* What send_command does with the head of the queue: nothing without a     *)
(* parameter, a write() of zero bytes repeated for ever with an empty one.  *)
SendHead ==
  LET head == Head(cmd_q)
  IN IF cmd_q # <<>> /\ ~head.sent /\ head.param > 0 /\ ttyUp
       THEN /\ wire' = wire \o [j \in 1 .. head.param |-> [cause |-> head.id, op |-> head.op]]
            /\ cmd_q' = [cmd_q EXCEPT ![1].sent = TRUE, ![1].tv_start = "recent"]
            /\ lastSent' = head.id
       ELSE UNCHANGED <<wire, cmd_q, lastSent>>

WritesNothing == cmd_q # <<>> /\ ~Head(cmd_q).sent /\ Head(cmd_q).param = 0 /\ ttyUp

Send ==
  /\ pc = "dispatch"
  /\ ready = {}
  /\ SendHead
  /\ pc' = IF WritesNothing THEN "spinning" ELSE IF HasAutosample THEN "control" ELSE "select"
  /\ cut' = FALSE
  /\ inStep' = (inStep /\ (cmd_q # <<>> /\ ~Head(cmd_q).sent => Head(cmd_q).param <= 1))
  /\ Quiet
  /\ UNCHANGED <<ready, clients, autosample_enabled, autoWatched, return_value, sockets, tty,
                 ttyUp, child, sig, lines, noise, hangups, inherited, nextId>>

SensorListeners == { i \in DOMAIN clients : "sensor" \in clients[i].listens }

(* Never switches the child off. *)
Mutant_Control ==
  /\ pc = "control"
  /\ pc' = "select"
  /\ autosample_enabled' = (autosample_enabled \/ SensorListeners # {})
  /\ ctl' = IF alive /\ autosample_enabled' # autosample_enabled
              THEN Append(ctl, autosample_enabled') ELSE ctl
  /\ inherited' = (inherited /\ autosample_enabled' = autosample_enabled)
  /\ Quiet
  /\ UNCHANGED <<ready, cmd_q, clients, autoWatched, return_value, sockets, serial, alive,
                 sampling, autoPipe, sig, lines, noise, hangups, cut, inStep, nextId, lastSent>>

(* Switch the child on with the first sensor listener, off with the last. *)
Control ==
  /\ pc = "control"
  /\ pc' = "select"
  /\ autosample_enabled' = (SensorListeners # {})
  /\ ctl' = IF alive /\ autosample_enabled' # autosample_enabled
              THEN Append(ctl, autosample_enabled') ELSE ctl
  /\ inherited' = (inherited /\ autosample_enabled' = autosample_enabled)
  /\ Quiet
  /\ UNCHANGED <<ready, cmd_q, clients, autoWatched, return_value, sockets, serial, alive,
                 sampling, autoPipe, sig, lines, noise, hangups, cut, inStep, nextId, lastSent>>

(* main() found the device again: a new main_loop, which first empties the  *)
(* autosample pipe, for ever if the child is dead.                          *)
Reopen ==
  /\ pc = "reopen"
  /\ ttyUp' = TRUE
  /\ tty' = <<>>
  /\ pc' = IF HasAutosample /\ ~alive THEN "spinning" ELSE "select"
  /\ autosample_enabled' = FALSE
  /\ autoWatched' = HasAutosample
  /\ autoPipe' = <<>>
  /\ cut' = FALSE /\ inherited' = (alive /\ LastOrder) /\ inStep' = TRUE
  /\ Quiet
  /\ UNCHANGED <<ready, cmd_q, clients, return_value, sockets, wire, alive, sampling, ctl, sig,
                 lines, noise, hangups, nextId, lastSent>>

-----------------------------------------------------------------------------
(* The outside world. *)

InLoop == pc \in {"select", "dispatch", "control"}
Over == pc \in {"signalled", "failed", "spinning"}

Connect(c) ==
  /\ ~Over
  /\ peer[c] = "new"
  /\ peer' = [peer EXCEPT ![c] = "open"]
  /\ backlog' = Append(backlog, c)
  /\ Quiet
  /\ UNCHANGED <<daemon, inbox, serial, child, sig, bounds, nextId, lastSent>>

WriteLine(c) ==
  /\ ~Over
  /\ peer[c] = "open" /\ Attached(c)
  /\ lines < MaxLines
  /\ \E line \in Lines : inbox' = [inbox EXCEPT ![c] = Append(@, line)]
  /\ lines' = lines + 1
  /\ Quiet
  /\ UNCHANGED <<daemon, peer, backlog, serial, child, sig, noise, hangups, history, nextId,
                 lastSent>>

ReadLines(c) ==
  /\ unread[c] /\ peer[c] = "open"
  /\ unread' = [unread EXCEPT ![c] = FALSE]
  /\ delivered' = {}
  /\ UNCHANGED <<daemon, sockets, serial, child, sig, bounds, nextId, lastSent>>

(* A close() with data unread resets the other end. *)
Close(c) ==
  /\ ~Over
  /\ peer[c] = "open"
  /\ peer' = [peer EXCEPT ![c] = IF unread[c] THEN "reset" ELSE "closed"]
  /\ Quiet
  /\ UNCHANGED <<daemon, backlog, inbox, serial, child, sig, bounds, nextId, lastSent>>

(* The firmware answers every character it got with one line; a radio       *)
(* transmission is acknowledged when it ends, so answers may overtake.      *)
FirmwareAnswers ==
  /\ InLoop
  /\ \E i \in DOMAIN wire : \E kind \in Replies[wire[i].op] :
       /\ tty' = Append(tty, [kind |-> kind, cause |-> wire[i].cause])
       /\ wire' = Without(wire, i)
  /\ Quiet
  /\ UNCHANGED <<daemon, sockets, ttyUp, child, sig, bounds, nextId, lastSent>>

FirmwareSpeaks ==
  /\ InLoop /\ ttyUp
  /\ noise < MaxNoise
  /\ noise' = noise + 1
  /\ \E kind \in Unsolicited : tty' = Append(tty, [kind |-> kind, cause |-> 0])
  /\ inStep' = FALSE
  /\ Quiet
  /\ UNCHANGED <<daemon, sockets, wire, ttyUp, child, sig, lines, hangups, cut, inherited, nextId,
                 lastSent>>

Hangup ==
  /\ InLoop /\ ttyUp
  /\ hangups < MaxHangups
  /\ hangups' = hangups + 1
  /\ ttyUp' = FALSE
  /\ wire' = <<>> /\ tty' = <<>>
  /\ Quiet
  /\ UNCHANGED <<daemon, sockets, child, sig, lines, noise, history, nextId, lastSent>>

(* Two seconds pass for the command at the head of the queue. *)
Age ==
  /\ cmd_q # <<>> /\ Head(cmd_q).sent /\ Head(cmd_q).tv_start = "recent"
  /\ Slow \/ (wire = <<>> /\ tty = <<>>)
  /\ cmd_q' = [cmd_q EXCEPT ![1].tv_start = "passed"]
  /\ inStep' = (inStep /\ wire = <<>> /\ tty = <<>>)
  /\ Quiet
  /\ UNCHANGED <<pc, ready, clients, autosample_enabled, autoWatched, return_value, sockets,
                 serial, child, sig, lines, noise, hangups, cut, inherited, nextId, lastSent>>

ChildObeys ==
  /\ alive /\ ctl # <<>>
  /\ sampling' = Head(ctl)
  /\ ctl' = Tail(ctl)
  /\ Quiet
  /\ UNCHANGED <<daemon, sockets, serial, alive, autoPipe, sig, bounds, nextId, lastSent>>

ChildSamples ==
  /\ ~Over /\ alive /\ sampling
  /\ lines < MaxLines
  /\ \E line \in SampleLines : autoPipe' = Append(autoPipe, line)
  /\ lines' = lines + 1
  /\ Quiet
  /\ UNCHANGED <<daemon, sockets, serial, alive, sampling, ctl, sig, noise, hangups, history,
                 nextId, lastSent>>

ChildDies ==
  /\ ~Over /\ MayDie /\ alive
  /\ alive' = FALSE
  /\ ctl' = <<>>
  /\ Quiet
  /\ UNCHANGED <<daemon, sockets, serial, sampling, autoPipe, sig, bounds, nextId, lastSent>>

(* Within the loop the handler writes to the signal pipe; between two       *)
(* loops the default action applies and the process is killed.              *)
Signal ==
  /\ MaySignal /\ ~sig
  /\ \/ InLoop /\ sig' = TRUE /\ UNCHANGED pc
     \/ pc = "reopen" /\ pc' = "signalled" /\ UNCHANGED sig
  /\ Quiet
  /\ UNCHANGED <<ready, cmd_q, clients, autosample_enabled, autoWatched, return_value, sockets,
                 serial, child, bounds, nextId, lastSent>>

(* The process has ended, or never leaves a loop of its own. *)
Terminated == Over /\ UNCHANGED vars

-----------------------------------------------------------------------------

Init ==
  /\ pc = "select" /\ ready = {}
  /\ cmd_q = <<>> /\ clients = <<>>
  /\ autosample_enabled = FALSE /\ autoWatched = HasAutosample /\ return_value = 0
  /\ peer = [c \in Conns |-> "new"] /\ backlog = <<>>
  /\ inbox = [c \in Conns |-> <<>>] /\ unread = [c \in Conns |-> FALSE]
  /\ wire = <<>> /\ tty = <<>> /\ ttyUp = TRUE
  /\ alive = HasAutosample /\ sampling = FALSE
  /\ ctl = <<>> /\ autoPipe = <<>>
  /\ sig = FALSE
  /\ lines = 0 /\ noise = 0 /\ hangups = 0
  /\ cut = FALSE /\ inherited = FALSE /\ inStep = TRUE
  /\ nextId = 1 /\ lastSent = 0 /\ delivered = {}

LoopStep ==
  \/ Select \/ SelectTimeout \/ HandleSignal \/ ProcessTtyLine \/ TtyVanished
  \/ Accept \/ AcceptFails \/ AutosampleLine \/ AutosampleVanished
  \/ ClientLine \/ ClientClosed \/ ClientReset \/ Send \/ Control \/ LoopEnds \/ Reopen

ClientStep == \E c \in Conns : Connect(c) \/ WriteLine(c) \/ ReadLines(c) \/ Close(c)

FirmwareStep == FirmwareAnswers \/ FirmwareSpeaks \/ Hangup

ChildStep == ChildObeys \/ ChildSamples \/ ChildDies

Next ==
  \/ LoopStep \/ Idle \/ Terminated
  \/ ClientStep \/ FirmwareStep \/ ChildStep \/ Age \/ Signal

Spec == Init /\ [][Next]_vars

(* The scheduler runs the daemon and its child, and time passes; nothing is *)
(* assumed of the clients or of the firmware.                               *)
Fairness == WF_vars(LoopStep) /\ WF_vars(Age) /\ WF_vars(ChildObeys)

FairSpec == Spec /\ Fairness

-----------------------------------------------------------------------------
(* Properties. *)

(* Every variable keeps its type, and the loop never reports a descriptor   *)
(* it does not watch: a client that is removed in this iteration leaves     *)
(* nothing behind in tmpfds for a later test to trip over.                  *)
TypeOK ==
  /\ pc \in {"select", "dispatch", "control", "reopen", "signalled", "failed", "spinning"}
  /\ ready \subseteq (IF pc = "dispatch" THEN Watched ELSE {})
  /\ cmd_q \in Seq(Cmd) /\ clients \in Seq(Client)
  /\ autosample_enabled \in BOOLEAN /\ autoWatched \in BOOLEAN /\ return_value \in {0, -1}
  /\ peer \in [Conns -> {"new", "open", "closed", "reset"}]
  /\ backlog \in Seq(Conns)
  /\ inbox \in [Conns -> Seq(Lines)] /\ unread \in [Conns -> BOOLEAN]
  /\ wire \in Seq(Char) /\ tty \in Seq(FwLine) /\ ttyUp \in BOOLEAN
  /\ alive \in BOOLEAN /\ sampling \in BOOLEAN
  /\ ctl \in Seq(BOOLEAN) /\ autoPipe \in Seq(SampleLines)
  /\ sig \in BOOLEAN
  /\ lines \in 0 .. MaxLines /\ noise \in 0 .. MaxNoise /\ hangups \in 0 .. MaxHangups
  /\ cut \in BOOLEAN /\ inherited \in BOOLEAN /\ inStep \in BOOLEAN
  /\ nextId \in Ids /\ lastSent \in Nat
  /\ delivered \subseteq Delivery

(* The queue in terms of what was written to the firmware: at most one      *)
(* command is outstanding, it is the head and the last one written, and     *)
(* all behind it arrived later and were never written (command_queue.c,     *)
(* powersensordaemon.c:549).                                                *)
QueueDiscipline ==
  /\ \A i \in DOMAIN cmd_q :
       /\ cmd_q[i].id < nextId
       /\ cmd_q[i].sent => i = 1 /\ cmd_q[i].id = lastSent
       /\ ~cmd_q[i].sent => cmd_q[i].id > lastSent /\ cmd_q[i].tv_start = "zero"
  /\ \A i, j \in DOMAIN cmd_q : i < j => cmd_q[i].id < cmd_q[j].id
  /\ lastSent < nextId

(* What select() reported is still so when its turn comes, although clients *)
(* were removed and others accepted since: nothing that is left to be tested *)
(* is a stranger's descriptor, or would block accept() or read() (main_loop  *)
(* 502-547, client_remove).                                                  *)
MarkedStayReadable == \A fd \in ready : Readable(fd)

(* Descriptors are reused while commands of their former owner are queued:  *)
(* the answer to a command may then reach a stranger, but only once the     *)
(* client that issued it has hung up.  A client that waits for its answer   *)
(* is never passed over (cmd_t.fd, client_remove, accept).                  *)
LiveIssuerGetsReply ==
  \A i \in DOMAIN cmd_q :
    LET cmd == cmd_q[i]
    IN IF cmd.by = NoConn THEN cmd.fd = AutoFd
       ELSE Owner(cmd.fd) = cmd.by \/ peer[cmd.by] # "open"

(* A line of the firmware reaches every client that listens to its kind     *)
(* exactly once, and nobody twice, although the client of the oldest        *)
(* command gets it as a reply as well (process_tty, SEND_TO_LISTENER).      *)
Copies(c) == Cardinality({ m \in delivered' : m.to = c })

EveryListenerOnce ==
  [][ tty # <<>> /\ tty' = Tail(tty) /\ UNCHANGED ttyUp =>
        \A i \in DOMAIN clients :
          /\ Copies(clients[i].conn) <= 1
          /\ Head(tty).kind \in clients[i].listens => Copies(clients[i].conn) = 1 ]_vars

(* A command with a configured parameter leaves the queue only after it was *)
(* written to the firmware.  The one exception: the iteration that found    *)
(* the autosample child dead skipped the write, so that until the next one  *)
(* reaches it an idle time-out takes the unsent head for an expired command,*)
(* or a line for its answer (main_loop, 481 and 522).                       *)
ValidCommandsAreWritten ==
  [][ cmd_q # <<>> /\ cmd_q' = Tail(cmd_q) /\ ~Head(cmd_q).sent /\ InLoop' =>
        Head(cmd_q).param = NoParam \/ cut ]_vars

(* Since the tty was opened, and until the firmware first speaks unasked, is *)
(* late or is sent two characters for one command, the next line to be read *)
(* answers the command it is taken to answer.                               *)
AnswersMatchCommands ==
  InLoop /\ tty # <<>> /\ inStep => cmd_q # <<>> /\ Head(tty).cause = Head(cmd_q).id

(* Between iterations the last order the child was given says whether       *)
(* anybody listens to sensor data.  The exception: a main_loop over a       *)
(* reopened tty starts from autosample_enabled = 0 whatever the child does; *)
(* a child that was sampling goes on for nobody, until the first listener   *)
(* has come and gone.                                                       *)
ChildInStep ==
  pc = "select" /\ HasAutosample /\ alive =>
    (LastOrder <=> SensorListeners # {} \/ inherited)

(* COMMANDS.txt: "CMDREPLY:= OK | Error: $ERRORSTR".  What is sent to a     *)
(* client in reply to a power command is one of the two.                    *)
PowerRepliesAreOkOrError ==
  \A m \in delivered : m.reply = "power" => m.kind \in {"ok", "error"}

(* The queue always drains: commands without a parameter, commands the      *)
(* firmware ignores and commands of clients that are gone do not block it   *)
(* (cmd_has_expired, cmd_pop).                                              *)
QueueDrains == cmd_q # <<>> ~> cmd_q = <<>> \/ pc = "spinning"


(* A signal that was caught ends the daemon, unless the tty vanishes before *)
(* it is looked at: signal_stop closes the pipe with the signal in it, and   *)
(* the daemon serves on (sig_handler.c:148, main_loop 489, 574).            *)
SignalEndsDaemon == sig ~> Over \/ pc = "reopen"

(* The child samples while somebody listens; and a main_loop that has       *)
(* switched it on switches it off behind the last listener, unless the tty  *)
(* vanishes first: the next one takes it to be off (main_loop 445, 552-569, *)
(* autosample.c 191).                                                       *)
SamplingFollowsListeners ==
  /\ SensorListeners # {} ~> sampling \/ SensorListeners = {} \/ ~alive \/ Over
  /\ autosample_enabled /\ SensorListeners = {} ~>
       (~sampling /\ ctl = <<>>) \/ SensorListeners # {} \/ pc = "reopen" \/ ~alive \/ Over

(* The abstract service the queue implements: see CommandService. *)
IdsOf(q) == [i \in DOMAIN q |-> q[i].id]

current == IF cmd_q # <<>> /\ Head(cmd_q).sent THEN Head(cmd_q).id ELSE 0
waiting == IF cmd_q # <<>> /\ Head(cmd_q).sent THEN IdsOf(Tail(cmd_q)) ELSE IdsOf(cmd_q)

Service == INSTANCE CommandService WITH current <- current, waiting <- waiting, next <- nextId

ImplementsService == Service!Spec

=============================================================================
