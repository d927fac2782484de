----------------------- MODULE PowerSensorDaemon_proofs -----------------------
(***************************************************************************)
(* Proofs about the main loop of powersensordaemon, for every number of    *)
(* clients, descriptors and lines.                                         *)
(***************************************************************************)
EXTENDS PowerSensorDaemon, SequenceTheorems, TLAPS

-----------------------------------------------------------------------------
(* Sequences. *)

LEMMA ElementType ==
  ASSUME NEW S, NEW s \in Seq(S), NEW i \in DOMAIN s
  PROVE  i \in Nat \ {0} /\ i <= Len(s) /\ s[i] \in S
<1>1. Len(s) \in Nat /\ DOMAIN s = 1 .. Len(s)
  BY LenProperties
<1>2. s[i] \in S
  BY <1>1, ElementOfSeq
<1> QED
  BY <1>1, <1>2

(* Removing an element leaves the others, in their order. *)
LEMMA WithoutProperties ==
  ASSUME NEW S, NEW s \in Seq(S), NEW i \in DOMAIN s
  PROVE  /\ Without(s, i) \in Seq(S)
         /\ DOMAIN Without(s, i) = 1 .. Len(s) - 1
         /\ \A j \in DOMAIN Without(s, i) :
              Without(s, i)[j] = IF j < i THEN s[j] ELSE s[j + 1]
<1>1. Len(s) \in Nat /\ DOMAIN s = 1 .. Len(s) /\ \A j \in 1 .. Len(s) : s[j] \in S
  BY LenProperties, ElementOfSeq
<1>2. Len(s) - 1 \in Nat
  BY <1>1
<1>3. Without(s, i) \in [1 .. Len(s) - 1 -> S]
  BY <1>1, <1>2 DEF Without
<1>4. Without(s, i) \in Seq(S)
  BY <1>2, <1>3, SeqDef
<1> QED
  BY <1>1, <1>2, <1>3, <1>4 DEF Without

(* A repetition of one element is a sequence. *)
LEMMA Repetition ==
  ASSUME NEW S, NEW e \in S, NEW n \in Nat
  PROVE  [j \in 1 .. n |-> e] \in Seq(S)
<1>1. [j \in 1 .. n |-> e] \in [1 .. n -> S]
  OBVIOUS
<1> QED
  BY <1>1, SeqDef

(* Changing the elements of a sequence within a set keeps it a sequence. *)
LEMMA PointwiseSeq ==
  ASSUME NEW S, NEW s \in Seq(S), NEW t, DOMAIN t = DOMAIN s,
         t = [i \in DOMAIN s |-> t[i]], \A i \in DOMAIN s : t[i] \in S
  PROVE  t \in Seq(S)
<1>1. Len(s) \in Nat /\ DOMAIN s = 1 .. Len(s)
  BY LenProperties
<1>2. t \in [1 .. Len(s) -> S]
  BY <1>1
<1> QED
  BY <1>1, <1>2, SeqDef

-----------------------------------------------------------------------------
(* Types. *)

LEMMA ClientType ==
  ASSUME TypeOK
  PROVE  \A i \in DOMAIN clients :
           /\ i \in Nat /\ clients[i] \in Client
           /\ clients[i].fd \in ClientFds /\ clients[i].conn \in Conns
           /\ clients[i].listens \in SUBSET ListenerTypes
<1>1. clients \in Seq(Client)
  BY DEF TypeOK
<1>2. \A i \in DOMAIN clients : i \in Nat /\ clients[i] \in Client
  BY <1>1, ElementType
<1>3. \A c \in Client : c.fd \in ClientFds /\ c.conn \in Conns /\ c.listens \in SUBSET ListenerTypes
  BY DEF Client
<1> QED
  BY <1>2, <1>3

LEMMA OwnerType ==
  ASSUME TypeOK, NEW fd
  PROVE  Owner(fd) \in Conns \cup {NoConn}
<1>1. CASE \E i \in DOMAIN clients : clients[i].fd = fd
  <2>1. PICK i \in DOMAIN clients :
          i = CHOOSE j \in DOMAIN clients : clients[j].fd = fd
    BY <1>1
  <2> QED
    BY <1>1, <2>1, ClientType DEF Owner
<1> QED
  BY <1>1 DEF Owner

LEMMA ReplyType ==
  ASSUME TypeOK, NEW fd, NEW kind \in Kinds, NEW cause \in Nat, NEW op \in {"power", "sample"}
  PROVE  Reply(fd, kind, cause, op) \subseteq Delivery
<1>1. Owner(fd) \in Conns \cup {NoConn}
  BY OwnerType
<1>2. [slot |-> 0, to |-> Owner(fd), kind |-> kind, cause |-> cause, reply |-> op] \in Delivery
  BY <1>1 DEF Delivery
<1> QED
  BY <1>2 DEF Reply

LEMMA BroadcastType ==
  ASSUME TypeOK, NEW kind \in Kinds, NEW cause \in Nat, NEW fd
  PROVE  Broadcast(kind, fd, cause) \subseteq Delivery
<1>2. \A i \in DOMAIN clients : i \in Nat /\ clients[i].conn \in Conns
  BY ClientType
<1>3. \A i \in DOMAIN clients :
        [slot |-> i, to |-> clients[i].conn, kind |-> kind, cause |-> cause, reply |-> ""]
          \in Delivery
  BY <1>2 DEF Delivery
<1> QED
  BY <1>3 DEF Broadcast

(* A step that sends lines keeps the types of what it changes by sending. *)
LEMMA WriteType ==
  ASSUME NEW d \in SUBSET Delivery, Write(d)
  PROVE  delivered' \subseteq Delivery /\ unread' \in [Conns -> BOOLEAN]
  BY DEF Write

(* Whatever a line is, processing it keeps the types of the queue and of    *)
(* the client list, and the descriptors in the list stay the same.          *)
LEMMA ProcessCmdType ==
  ASSUME TypeOK, NEW line \in Line, NEW fd \in ClientFds \cup {AutoFd},
         NEW conn \in Conns \cup {NoConn}, ProcessCmd(line, fd, conn)
  PROVE  /\ cmd_q' \in Seq(Cmd) /\ clients' \in Seq(Client) /\ nextId' \in Ids
         /\ delivered' \subseteq Delivery /\ unread' \in [Conns -> BOOLEAN]
         /\ FdsOf(clients') = FdsOf(clients)
<1>1. CASE ProcessRequest(line, fd, conn)
  <2>1. /\ cmd_q \in Seq(Cmd) /\ clients \in Seq(Client) /\ nextId \in Ids
        /\ line.op \in {"power", "sample"} /\ line.param \in Nat \cup {NoParam}
    BY <1>1 DEF TypeOK, ProcessRequest, Line
  <2> DEFINE new == [id |-> nextId, by |-> conn, fd |-> fd, op |-> line.op,
                     param |-> line.param, sent |-> FALSE, tv_start |-> "zero"]
  <2>2. new \in Cmd
    BY <2>1 DEF Cmd
  <2>3. cmd_q' \in Seq(Cmd)
    BY <1>1, <2>1, <2>2, AppendProperties DEF ProcessRequest, Push
  <2>4. nextId \in Nat /\ "error" \in Kinds /\ "request" \in Kinds
    BY <2>1 DEF Ids, Kinds, ListenerTypes
  <2>5. Reply(fd, "error", nextId, line.op) \subseteq Delivery
    BY <2>1, <2>4, ReplyType
  <2>6. Broadcast("request", fd, nextId) \subseteq Delivery
    BY <2>4, BroadcastType
  <2>7. delivered' \subseteq Delivery /\ unread' \in [Conns -> BOOLEAN]
    BY <1>1, <2>5, <2>6, WriteType DEF ProcessRequest
  <2>8. nextId' \in Ids /\ clients' = clients
    BY <1>1, <2>1 DEF ProcessRequest, Ids
  <2> QED
    BY <2>1, <2>3, <2>7, <2>8
<1>2. CASE ProcessListen(line, fd)
  <2>1. line.arg \in ListenArgs
    BY <1>2 DEF ProcessListen, Line
  <2>2. clients \in Seq(Client)
    BY DEF TypeOK
  <2>3. \A i \in DOMAIN clients :
          Subscribe(clients[i].listens, line.arg) \in SUBSET ListenerTypes
    BY ClientType DEF Subscribe
  <2>4. DOMAIN clients' = DOMAIN clients
    BY <1>2 DEF ProcessListen
  <2>5. \A i \in DOMAIN clients : clients'[i] \in Client /\ clients'[i].fd = clients[i].fd
    <3> SUFFICES ASSUME NEW i \in DOMAIN clients
                 PROVE  clients'[i] \in Client /\ clients'[i].fd = clients[i].fd
      OBVIOUS
    <3>1. clients[i] \in Client /\ Subscribe(clients[i].listens, line.arg) \in SUBSET ListenerTypes
      BY <2>3, ClientType
    <3>2. clients'[i] = clients[i]
            \/ clients'[i] = [clients[i] EXCEPT !.listens = Subscribe(@, line.arg)]
      BY <1>2 DEF ProcessListen
    <3> QED
      BY <3>1, <3>2 DEF Client
  <2>6. clients' \in Seq(Client)
    BY <1>2, <2>2, <2>4, <2>5, PointwiseSeq DEF ProcessListen
  <2>7. FdsOf(clients') = FdsOf(clients)
    BY <2>4, <2>5 DEF FdsOf
  <2> QED
    BY <1>2, <2>6, <2>7 DEF ProcessListen, Quiet, TypeOK
<1>3. CASE ProcessOther(line)
  BY <1>3 DEF ProcessOther, Quiet, TypeOK
<1> QED
  BY <1>1, <1>2, <1>3 DEF ProcessCmd

LEMMA LeaveLoopType ==
  ASSUME TypeOK, NEW where \in {"reopen", "signalled", "failed"}, LeaveLoop(where)
  PROVE  /\ pc' \in {"reopen", "signalled", "failed"} /\ ready' = {}
         /\ cmd_q' \in Seq(Cmd) /\ clients' \in Seq(Client) /\ sig' \in BOOLEAN
         /\ inbox' \in [Conns -> Seq(Lines)]
<1>1. inbox' \in [Conns -> Seq(Lines)]
  BY EmptySeq DEF LeaveLoop, TypeOK
<1> QED
  BY <1>1, EmptySeq DEF LeaveLoop

(* Writing the head of the queue to the firmware. *)
LEMMA SendHeadType ==
  ASSUME TypeOK, SendHead
  PROVE  wire' \in Seq(Char) /\ cmd_q' \in Seq(Cmd) /\ lastSent' \in Nat
<1>1. cmd_q \in Seq(Cmd) /\ wire \in Seq(Char) /\ lastSent \in Nat
  BY DEF TypeOK
<1>2. CASE cmd_q # <<>> /\ ~Head(cmd_q).sent /\ Head(cmd_q).param > 0 /\ ttyUp
  <2> DEFINE head == Head(cmd_q)
             char == [cause |-> head.id, op |-> head.op]
  <2>1. head \in Cmd /\ 1 \in 1 .. Len(cmd_q) /\ head = cmd_q[1]
    BY <1>1, <1>2, HeadTailProperties, LenProperties, EmptySeq
  <2>2. char \in Char /\ head.param \in Nat /\ head.id \in Nat
    BY <1>2, <2>1 DEF Cmd, Char, Ids, NoParam
  <2>3. [j \in 1 .. head.param |-> char] \in Seq(Char)
    BY <2>2, Repetition
  <2>4. wire' = wire \o [j \in 1 .. head.param |-> char] /\ lastSent' = head.id
    BY <1>2 DEF SendHead
  <2>5. wire' \in Seq(Char)
    BY <1>1, <2>3, <2>4, ConcatProperties
  <2>6. [head EXCEPT !.sent = TRUE, !.tv_start = "recent"] \in Cmd
    BY <2>1 DEF Cmd
  <2>7. cmd_q' = [cmd_q EXCEPT ![1] = [head EXCEPT !.sent = TRUE, !.tv_start = "recent"]]
    BY <1>1, <1>2, <2>1 DEF SendHead
  <2>8. cmd_q' \in Seq(Cmd)
    BY <1>1, <2>1, <2>6, <2>7, ExceptSeq
  <2> QED
    BY <2>2, <2>4, <2>5, <2>8
<1>3. CASE ~(cmd_q # <<>> /\ ~Head(cmd_q).sent /\ Head(cmd_q).param > 0 /\ ttyUp)
  BY <1>1, <1>3 DEF SendHead
<1> QED
  BY <1>2, <1>3

LEMMA AgeType ==
  ASSUME TypeOK, Age
  PROVE  cmd_q' \in Seq(Cmd)
<1>1. cmd_q \in Seq(Cmd) /\ cmd_q # <<>>
  BY DEF TypeOK, Age
<1>2. cmd_q[1] \in Cmd /\ 1 \in 1 .. Len(cmd_q)
  BY <1>1, EmptySeq, ElementOfSeq
<1>3. [cmd_q[1] EXCEPT !.tv_start = "passed"] \in Cmd
  BY <1>2 DEF Cmd
<1>4. cmd_q' = [cmd_q EXCEPT ![1] = [cmd_q[1] EXCEPT !.tv_start = "passed"]]
  BY DEF Age
<1> QED
  BY <1>1, <1>2, <1>3, <1>4, ExceptSeq

(* Every step keeps the types; see TypeOK for what is in it beyond types.   *)
LEMMA TypeStep ==
  ASSUME TypeOK, [Next]_vars
  PROVE  TypeOK'
<1> USE DEF daemon, sockets, serial, child, bounds, history
<1>0. ASSUME UNCHANGED <<pc, ready, autoWatched, clients>>
      PROVE  ready' \subseteq (IF pc' = "dispatch" THEN Watched' ELSE {})
  BY <1>0 DEF TypeOK, Watched
<1>1. CASE Select
  <2>1. ready' \subseteq Watched'
    BY <1>1 DEF Select, ReadableNow, Watched
  <2> QED
    BY <1>1, <2>1 DEF Select, Quiet, TypeOK
<1>2. CASE SelectTimeout
  <2>1. cmd_q' \in Seq(Cmd)
    BY <1>2, HeadTailProperties DEF SelectTimeout, Pop, TypeOK
  <2> QED
    BY <1>2, <2>1 DEF SelectTimeout, Quiet, TypeOK, Watched
<1>3. CASE HandleSignal
  <2>1. LeaveLoop("signalled")
    BY <1>3 DEF HandleSignal
  <2> QED
    BY <1>3, <2>1, LeaveLoopType DEF HandleSignal, Quiet, TypeOK
<1>4. CASE ProcessTtyLine
  <2>1. tty \in Seq(FwLine) /\ tty # <<>> /\ cmd_q \in Seq(Cmd)
    BY <1>4 DEF ProcessTtyLine, TypeOK
  <2>2. tty' \in Seq(FwLine) /\ Head(tty) \in FwLine
    BY <1>4, <2>1, HeadTailProperties DEF ProcessTtyLine
  <2>3. cmd_q' \in Seq(Cmd)
    BY <1>4, <2>1, HeadTailProperties DEF ProcessTtyLine, Pop
  <2>4. Head(tty).kind \in Kinds /\ Head(tty).cause \in Nat
    BY <2>2 DEF FwLine
  <2> DEFINE fd == IF cmd_q = <<>> THEN NoFd ELSE Head(cmd_q).fd
             sent == IF cmd_q = <<>> THEN {}
                     ELSE Reply(fd, Head(tty).kind, Head(tty).cause, Head(cmd_q).op)
  <2>5. sent \subseteq Delivery
    <3>1. CASE cmd_q = <<>>
      BY <3>1
    <3>2. CASE cmd_q # <<>>
      <4>1. Head(cmd_q) \in Cmd
        BY <2>1, <3>2, HeadTailProperties
      <4>2. Head(cmd_q).op \in {"power", "sample"}
        BY <4>1 DEF Cmd
      <4> QED
        BY <2>4, <3>2, <4>2, ReplyType
    <3> QED
      BY <3>1, <3>2
  <2>6. Broadcast(Head(tty).kind, fd, Head(tty).cause) \subseteq Delivery
    BY <2>4, BroadcastType
  <2>7. delivered' \subseteq Delivery /\ unread' \in [Conns -> BOOLEAN]
    BY <1>4, <2>5, <2>6, WriteType DEF ProcessTtyLine
  <2>8. ready' \subseteq Watched'
    BY <1>4 DEF ProcessTtyLine, TypeOK, Watched
  <2> QED
    BY <1>4, <2>2, <2>3, <2>7, <2>8 DEF ProcessTtyLine, TypeOK
<1>5. CASE TtyVanished
  <2>1. PICK where \in {"reopen", "failed"} : LeaveLoop(where)
    BY <1>5 DEF TtyVanished
  <2> QED
    BY <1>5, <2>1, LeaveLoopType DEF TtyVanished, Quiet, TypeOK
<1>6. CASE Accept
  <2>1. backlog \in Seq(Conns) /\ clients \in Seq(Client)
    BY DEF TypeOK
  <2>2. PICK fd \in FreeFds :
          clients' = Append(clients, [fd |-> fd, conn |-> Head(backlog), listens |-> {}])
    BY <1>6 DEF Accept
  <2>3. backlog # <<>>
    BY <1>6 DEF Accept
  <2>4. backlog' \in Seq(Conns) /\ Head(backlog) \in Conns
    BY <1>6, <2>1, <2>3, HeadTailProperties DEF Accept
  <2>5. [fd |-> fd, conn |-> Head(backlog), listens |-> {}] \in Client
    BY <2>2, <2>4 DEF Client, FreeFds
  <2>6. clients' \in Seq(Client) /\ Len(clients') = Len(clients) + 1
          /\ \A i \in 1 .. Len(clients) : clients'[i] = clients[i]
    BY <2>1, <2>2, <2>5, AppendProperties
  <2>7. FdsOf(clients) \subseteq FdsOf(clients')
    BY <2>1, <2>6, LenProperties DEF FdsOf
  <2>8. ready' \subseteq Watched'
    BY <1>6, <2>7 DEF Accept, TypeOK, Watched
  <2> QED
    BY <1>6, <2>4, <2>6, <2>8 DEF Accept, Quiet, TypeOK
<1>7. CASE AcceptFails
  <2>1. LeaveLoop("failed")
    BY <1>7 DEF AcceptFails
  <2> QED
    BY <1>7, <2>1, LeaveLoopType DEF AcceptFails, Quiet, TypeOK
<1>8. CASE AutosampleLine
  <2>1. autoPipe \in Seq(SampleLines) /\ autoPipe # <<>>
    BY <1>8 DEF AutosampleLine, TypeOK
  <2>2. autoPipe' \in Seq(SampleLines) /\ Head(autoPipe) \in Line
    BY <1>8, <2>1, HeadTailProperties, LinesAssumption DEF AutosampleLine
  <2>3. ProcessCmd(Head(autoPipe), AutoFd, NoConn)
    BY <1>8 DEF AutosampleLine
  <2>4. /\ cmd_q' \in Seq(Cmd) /\ clients' \in Seq(Client) /\ nextId' \in Ids
        /\ delivered' \subseteq Delivery /\ unread' \in [Conns -> BOOLEAN]
        /\ FdsOf(clients') = FdsOf(clients)
    BY <2>2, <2>3, ProcessCmdType
  <2>5. ready' \subseteq Watched'
    BY <1>8, <2>4 DEF AutosampleLine, TypeOK, Watched
  <2> QED
    BY <1>8, <2>2, <2>4, <2>5 DEF AutosampleLine, TypeOK
<1>9. CASE AutosampleVanished
  BY <1>9 DEF AutosampleVanished, Quiet, TypeOK
<1>10. CASE ClientLine
  <2>1. PICK i \in DOMAIN clients :
          /\ inbox[clients[i].conn] # <<>>
          /\ ProcessCmd(Head(inbox[clients[i].conn]), clients[i].fd, clients[i].conn)
          /\ inbox' = [inbox EXCEPT ![clients[i].conn] = Tail(@)]
          /\ ready' = ready \ {clients[i].fd}
    BY <1>10 DEF ClientLine
  <2>2. clients[i].conn \in Conns /\ clients[i].fd \in ClientFds
    BY <2>1, ClientType
  <2>3. inbox[clients[i].conn] \in Seq(Lines)
    BY <2>2 DEF TypeOK
  <2>4. Head(inbox[clients[i].conn]) \in Line /\ Tail(inbox[clients[i].conn]) \in Seq(Lines)
    BY <2>1, <2>3, HeadTailProperties, LinesAssumption
  <2>5. inbox' \in [Conns -> Seq(Lines)]
    BY <2>1, <2>4 DEF TypeOK
  <2>6. /\ cmd_q' \in Seq(Cmd) /\ clients' \in Seq(Client) /\ nextId' \in Ids
        /\ delivered' \subseteq Delivery /\ unread' \in [Conns -> BOOLEAN]
        /\ FdsOf(clients') = FdsOf(clients)
    BY <2>1, <2>2, <2>4, ProcessCmdType
  <2>7. ready' \subseteq Watched'
    BY <1>10, <2>1, <2>6 DEF ClientLine, TypeOK, Watched
  <2> QED
    BY <1>10, <2>5, <2>6, <2>7 DEF ClientLine, TypeOK
<1>11. CASE ClientClosed
  <2>1. PICK i \in DOMAIN clients :
          /\ clients' = Without(clients, i)
          /\ ready' = ready \ {clients[i].fd}
    BY <1>11 DEF ClientClosed
  <2>2. clients \in Seq(Client)
    BY DEF TypeOK
  <2>3. /\ clients' \in Seq(Client) /\ DOMAIN clients' = 1 .. Len(clients) - 1
        /\ \A j \in DOMAIN clients' : clients'[j] = IF j < i THEN clients[j] ELSE clients[j + 1]
    BY <2>1, <2>2, WithoutProperties
  <2>4. \A j \in DOMAIN clients : j # i => clients[j].fd \in FdsOf(clients')
    <3> SUFFICES ASSUME NEW j \in DOMAIN clients, j # i
                 PROVE  clients[j].fd \in FdsOf(clients')
      OBVIOUS
    <3>1. Len(clients) \in Nat /\ DOMAIN clients = 1 .. Len(clients)
      BY <2>2, LenProperties
    <3>2. CASE j < i
      <4>1. j \in DOMAIN clients' /\ clients'[j] = clients[j]
        BY <2>3, <3>1, <3>2
      <4> QED
        BY <4>1 DEF FdsOf
    <3>3. CASE j > i
      <4>1. j - 1 \in DOMAIN clients' /\ clients'[j - 1] = clients[j]
        BY <2>3, <3>1, <3>3
      <4> QED
        BY <4>1 DEF FdsOf
    <3> QED
      BY <3>1, <3>2, <3>3
  <2>5. FdsOf(clients) \subseteq FdsOf(clients') \cup {clients[i].fd}
    BY <2>4 DEF FdsOf
  <2>6. autoWatched' = autoWatched
    BY <1>11 DEF ClientClosed
  <2>7. ready \subseteq Watched
    BY DEF TypeOK
  <2>8. ready' \subseteq Watched'
    BY <2>1, <2>5, <2>6, <2>7 DEF Watched
  <2>9. pc' = pc /\ ready' \subseteq (IF pc' = "dispatch" THEN Watched' ELSE {})
    BY <1>11, <2>1, <2>8 DEF ClientClosed, TypeOK
  <2>10. /\ UNCHANGED <<cmd_q, autosample_enabled, autoWatched, return_value, sockets, serial, child, sig,
                         bounds, history, nextId, lastSent, unread>>
         /\ delivered' = {}
    BY <1>11 DEF ClientClosed, Quiet
  <2> QED
    BY <2>3, <2>9, <2>10 DEF TypeOK
<1>12. CASE ClientReset
  BY <1>12 DEF ClientReset, Quiet, TypeOK, Watched
<1>13. CASE Send
  <2>1. /\ wire' \in Seq(Char) /\ cmd_q' \in Seq(Cmd) /\ lastSent' \in Nat
    BY <1>13, SendHeadType DEF Send
  <2>2. /\ pc' \in {"spinning", "control", "select"} /\ ready' = {}
        /\ cut' \in BOOLEAN /\ inStep' \in BOOLEAN
    BY <1>13, Zenon DEF Send
  <2>3. UNCHANGED <<clients, autosample_enabled, autoWatched, return_value, peer, backlog, inbox,
                    unread, tty, ttyUp>>
    BY <1>13 DEF Send, Quiet
  <2>4. /\ UNCHANGED <<child, sig, lines, noise, hangups, inherited, nextId>>
        /\ delivered' = {}
    BY <1>13 DEF Send, Quiet
  <2>5. pc' \in {"select", "dispatch", "control", "reopen", "signalled", "failed", "spinning"}
    BY <2>2
  <2>6. ready' \subseteq (IF pc' = "dispatch" THEN Watched' ELSE {})
    BY <2>2
  <2> QED
    BY <2>1, <2>2, <2>3, <2>4, <2>5, <2>6 DEF TypeOK
<1>14. CASE Control
  <2>1. ctl' \in Seq(BOOLEAN) /\ autosample_enabled' \in BOOLEAN
    BY <1>14, AppendProperties DEF Control, TypeOK
  <2> QED
    BY <1>14, <2>1 DEF Control, Quiet, TypeOK, Watched
<1>15. CASE Reopen
  <2>1. HasAutosample \in BOOLEAN
    BY SwitchesAssumption
  <2>2. tty' \in Seq(FwLine) /\ autoPipe' \in Seq(SampleLines)
    BY <1>15, EmptySeq DEF Reopen
  <2>3. ready' = {}
    BY <1>15 DEF Reopen, TypeOK
  <2>4. /\ pc' \in {"select", "spinning"}
        /\ ttyUp' \in BOOLEAN /\ autosample_enabled' \in BOOLEAN /\ autoWatched' \in BOOLEAN
        /\ cut' \in BOOLEAN /\ inherited' \in BOOLEAN /\ inStep' \in BOOLEAN
    BY <1>15, <2>1, Zenon DEF Reopen
  <2>5. UNCHANGED <<cmd_q, clients, return_value, peer, backlog, inbox, unread, wire>>
    BY <1>15 DEF Reopen, Quiet
  <2>6. /\ UNCHANGED <<alive, sampling, ctl, sig, lines, noise, hangups, nextId, lastSent>>
        /\ delivered' = {}
    BY <1>15 DEF Reopen, Quiet
  <2>7. ready' \subseteq (IF pc' = "dispatch" THEN Watched' ELSE {})
    BY <2>3
  <2>8. pc' \in {"select", "dispatch", "control", "reopen", "signalled", "failed", "spinning"}
    BY <2>4
  <2> QED
    BY <2>2, <2>4, <2>5, <2>6, <2>7, <2>8 DEF TypeOK
<1>16. CASE Idle \/ Terminated \/ UNCHANGED vars
  <2>1. UNCHANGED vars
    BY <1>16 DEF Idle, Terminated
  <2> QED
    BY <1>0, <2>1 DEF TypeOK, vars
<1>17. ASSUME NEW c \in Conns, Connect(c)
       PROVE  TypeOK'
  <2>1. backlog' \in Seq(Conns)
    BY <1>17, AppendProperties DEF Connect, TypeOK
  <2> QED
    BY <1>0, <1>17, <2>1 DEF Connect, Quiet, TypeOK
<1>18. ASSUME NEW c \in Conns, WriteLine(c)
       PROVE  TypeOK'
  <2>1. PICK line \in Lines : inbox' = [inbox EXCEPT ![c] = Append(@, line)]
    BY <1>18 DEF WriteLine
  <2>2. inbox[c] \in Seq(Lines)
    BY DEF TypeOK
  <2>3. Append(inbox[c], line) \in Seq(Lines)
    BY <2>2, AppendProperties
  <2>4. inbox' \in [Conns -> Seq(Lines)]
    BY <2>1, <2>3 DEF TypeOK
  <2>5. lines' \in 0 .. MaxLines
    BY <1>18, BoundsAssumption DEF WriteLine, TypeOK
  <2> QED
    BY <1>0, <1>18, <2>4, <2>5 DEF WriteLine, Quiet, TypeOK
<1>19. ASSUME NEW c \in Conns, ReadLines(c)
       PROVE  TypeOK'
  BY <1>0, <1>19 DEF ReadLines, TypeOK
<1>20. ASSUME NEW c \in Conns, Close(c)
       PROVE  TypeOK'
  BY <1>0, <1>20 DEF Close, Quiet, TypeOK
<1>21. CASE FirmwareAnswers
  <2>1. wire \in Seq(Char) /\ tty \in Seq(FwLine)
    BY DEF TypeOK
  <2>2. PICK i \in DOMAIN wire : \E kind \in Replies[wire[i].op] :
          /\ tty' = Append(tty, [kind |-> kind, cause |-> wire[i].cause])
          /\ wire' = Without(wire, i)
    BY <1>21 DEF FirmwareAnswers
  <2>3. PICK kind \in Replies[wire[i].op] :
          tty' = Append(tty, [kind |-> kind, cause |-> wire[i].cause])
    BY <2>2
  <2>4. wire[i] \in Char
    BY <2>1, ElementType
  <2>5. wire[i].op \in {"power", "sample"} /\ wire[i].cause \in Nat
    BY <2>4 DEF Char, Ids
  <2>6. kind \in Kinds
    BY <2>3, <2>5, FirmwareAssumption
  <2>7. [kind |-> kind, cause |-> wire[i].cause] \in FwLine
    BY <2>5, <2>6 DEF FwLine
  <2>8. tty' \in Seq(FwLine)
    BY <2>1, <2>3, <2>7, AppendProperties
  <2>9. wire' \in Seq(Char)
    BY <2>1, <2>2, WithoutProperties
  <2> QED
    BY <1>0, <1>21, <2>8, <2>9 DEF FirmwareAnswers, Quiet, TypeOK
<1>22. CASE FirmwareSpeaks
  <2>1. PICK kind \in Unsolicited : tty' = Append(tty, [kind |-> kind, cause |-> 0])
    BY <1>22 DEF FirmwareSpeaks
  <2>2. [kind |-> kind, cause |-> 0] \in FwLine
    BY FirmwareAssumption DEF FwLine
  <2>3. tty \in Seq(FwLine)
    BY DEF TypeOK
  <2>4. tty' \in Seq(FwLine)
    BY <2>1, <2>2, <2>3, AppendProperties
  <2>5. noise' \in 0 .. MaxNoise
    <3>1. MaxNoise \in Nat /\ noise \in 0 .. MaxNoise
      BY BoundsAssumption DEF TypeOK
    <3> QED
      BY <1>22, <3>1 DEF FirmwareSpeaks
  <2>6. /\ UNCHANGED <<daemon, sockets, unread, wire, ttyUp, child, sig, lines, hangups, cut,
                         inherited, nextId, lastSent>>
        /\ inStep' \in BOOLEAN /\ delivered' = {}
    BY <1>22 DEF FirmwareSpeaks, Quiet
  <2> QED
    BY <1>0, <2>4, <2>5, <2>6 DEF TypeOK
<1>23. CASE Hangup
  <2>1. hangups' \in 0 .. MaxHangups
    BY <1>23, BoundsAssumption DEF Hangup, TypeOK
  <2>2. wire' \in Seq(Char) /\ tty' \in Seq(FwLine)
    BY <1>23, EmptySeq DEF Hangup
  <2>3. /\ UNCHANGED <<daemon, sockets, unread, child, sig, lines, noise, history, nextId, lastSent>>
        /\ ttyUp' \in BOOLEAN /\ delivered' = {}
    BY <1>23 DEF Hangup, Quiet
  <2>4. ready' \subseteq (IF pc' = "dispatch" THEN Watched' ELSE {})
    BY <1>0, <2>3
  <2>5. hangups' \in 0 .. MaxHangups
    BY <2>1
  <2> QED
    BY <2>2, <2>3, <2>4, <2>5 DEF TypeOK
<1>24. CASE Age
  <2>1. cmd_q' \in Seq(Cmd)
    BY <1>24, AgeType DEF Age
  <2> QED
    BY <1>0, <1>24, <2>1 DEF Age, Quiet, TypeOK
<1>25. CASE ChildObeys
  <2>1. ctl' \in Seq(BOOLEAN) /\ sampling' \in BOOLEAN
    BY <1>25, HeadTailProperties DEF ChildObeys, TypeOK
  <2> QED
    BY <1>0, <1>25, <2>1 DEF ChildObeys, Quiet, TypeOK
<1>26. CASE ChildSamples
  <2>1. autoPipe' \in Seq(SampleLines)
    BY <1>26, AppendProperties DEF ChildSamples, TypeOK
  <2>2. lines' \in 0 .. MaxLines
    BY <1>26, BoundsAssumption DEF ChildSamples, TypeOK
  <2> QED
    BY <1>0, <1>26, <2>1, <2>2 DEF ChildSamples, Quiet, TypeOK
<1>27. CASE ChildDies
  <2>1. ctl' \in Seq(BOOLEAN)
    BY <1>27, EmptySeq DEF ChildDies
  <2>2. /\ UNCHANGED <<daemon, sockets, unread, serial, sampling, autoPipe, sig, bounds, nextId, lastSent>>
        /\ alive' \in BOOLEAN /\ delivered' = {}
    BY <1>27 DEF ChildDies, Quiet
  <2> QED
    BY <1>0, <2>1, <2>2 DEF TypeOK
<1>28. CASE Signal
  <2>1. CASE InLoop /\ sig' = TRUE /\ UNCHANGED pc
    BY <1>0, <1>28, <2>1 DEF Signal, Quiet, TypeOK
  <2>2. CASE pc = "reopen" /\ pc' = "signalled" /\ UNCHANGED sig
    BY <1>28, <2>2 DEF Signal, Quiet, TypeOK
  <2> QED
    BY <1>28, <2>1, <2>2 DEF Signal
<1>29. CASE LoopEnds
  <2>1. LeaveLoop("failed")
    BY <1>29 DEF LoopEnds
  <2> QED
    BY <1>29, <2>1, LeaveLoopType DEF LoopEnds, Quiet, TypeOK
<1> QED
  BY <1>1, <1>2, <1>3, <1>4, <1>5, <1>6, <1>7, <1>8, <1>9, <1>10, <1>11, <1>12, <1>13, <1>14,
     <1>15, <1>16, <1>17, <1>18, <1>19, <1>20, <1>21, <1>22, <1>23, <1>24, <1>25, <1>26, <1>27,
     <1>28, <1>29
  DEF Next, LoopStep, ClientStep, FirmwareStep, ChildStep

(* In every reachable state the variables have their types and the loop     *)
(* reports only descriptors it still watches.                               *)
THEOREM TypeCorrect == Spec => []TypeOK
<1>1. Init => TypeOK
  <2> SUFFICES ASSUME Init PROVE TypeOK
    OBVIOUS
  <2>1. /\ <<>> \in Seq(Cmd) /\ <<>> \in Seq(Client) /\ <<>> \in Seq(Conns) /\ <<>> \in Seq(Lines)
        /\ <<>> \in Seq(Char) /\ <<>> \in Seq(FwLine) /\ <<>> \in Seq(BOOLEAN)
        /\ <<>> \in Seq(SampleLines)
    BY EmptySeq
  <2>2. HasAutosample \in BOOLEAN
    BY SwitchesAssumption
  <2>3. /\ lines \in 0 .. MaxLines /\ noise \in 0 .. MaxNoise /\ hangups \in 0 .. MaxHangups
        /\ nextId \in Ids /\ lastSent \in Nat
    BY BoundsAssumption DEF Init, Ids
  <2> QED
    BY <2>1, <2>2, <2>3 DEF Init, TypeOK
<1>2. TypeOK /\ [Next]_vars => TypeOK'
  BY TypeStep
<1> QED
  BY <1>1, <1>2, PTL DEF Spec

-----------------------------------------------------------------------------
(* What a step can do to the queue of commands. *)

QPop ==
  /\ cmd_q # <<>>
  /\ cmd_q' = Tail(cmd_q)
  /\ UNCHANGED <<nextId, lastSent>>

QPush ==
  /\ \E new \in Cmd :
       /\ new.id = nextId /\ ~new.sent /\ new.tv_start = "zero"
       /\ cmd_q' = Append(cmd_q, new)
  /\ nextId' = nextId + 1
  /\ UNCHANGED lastSent

QClear == cmd_q' = <<>> /\ UNCHANGED <<nextId, lastSent>>

QSend ==
  /\ cmd_q # <<>> /\ ~cmd_q[1].sent
  /\ cmd_q' = [cmd_q EXCEPT ![1] = [@ EXCEPT !.sent = TRUE, !.tv_start = "recent"]]
  /\ lastSent' = cmd_q[1].id
  /\ UNCHANGED nextId

QAge ==
  /\ cmd_q # <<>> /\ cmd_q[1].sent
  /\ cmd_q' = [cmd_q EXCEPT ![1] = [@ EXCEPT !.tv_start = "passed"]]
  /\ UNCHANGED <<nextId, lastSent>>

QSame == UNCHANGED <<cmd_q, nextId, lastSent>>

LEMMA ProcessCmdQueue ==
  ASSUME TypeOK, NEW line \in Line, NEW fd \in ClientFds \cup {AutoFd},
         NEW conn \in Conns \cup {NoConn}, ProcessCmd(line, fd, conn), UNCHANGED lastSent
  PROVE  QPush \/ QSame
<1>1. CASE ProcessRequest(line, fd, conn)
  <2>1. /\ nextId \in Ids /\ line.op \in {"power", "sample"} /\ line.param \in Nat \cup {NoParam}
    BY <1>1 DEF TypeOK, ProcessRequest, Line
  <2> DEFINE new == [id |-> nextId, by |-> conn, fd |-> fd, op |-> line.op,
                     param |-> line.param, sent |-> FALSE, tv_start |-> "zero"]
  <2>2. new \in Cmd /\ new.id = nextId /\ ~new.sent /\ new.tv_start = "zero"
    BY <2>1 DEF Cmd
  <2>3. cmd_q' = Append(cmd_q, new) /\ nextId' = nextId + 1
    BY <1>1 DEF ProcessRequest, Push
  <2> QED
    BY <2>2, <2>3 DEF QPush
<1>2. CASE ProcessListen(line, fd) \/ ProcessOther(line)
  BY <1>2 DEF ProcessListen, ProcessOther, QSame
<1> QED
  BY <1>1, <1>2 DEF ProcessCmd

LEMMA QueueStep ==
  ASSUME TypeOK, [Next]_vars
  PROVE  QPop \/ QPush \/ QClear \/ QSend \/ QAge \/ QSame
<1>0. cmd_q \in Seq(Cmd)
  BY DEF TypeOK
<1>1. CASE SelectTimeout \/ ProcessTtyLine
  BY <1>1 DEF SelectTimeout, ProcessTtyLine, Pop, QPop, QSame
<1>2. CASE HandleSignal \/ TtyVanished \/ AcceptFails \/ LoopEnds
  BY <1>2 DEF HandleSignal, TtyVanished, AcceptFails, LoopEnds, LeaveLoop, QClear
<1>3. CASE AutosampleLine
  <2>1. autoPipe \in Seq(SampleLines) /\ autoPipe # <<>>
    BY <1>3 DEF AutosampleLine, TypeOK
  <2>2. Head(autoPipe) \in Line
    BY <2>1, HeadTailProperties, LinesAssumption
  <2> QED
    BY <1>3, <2>2, ProcessCmdQueue DEF AutosampleLine
<1>4. CASE ClientLine
  <2>1. PICK i \in DOMAIN clients :
          /\ inbox[clients[i].conn] # <<>>
          /\ ProcessCmd(Head(inbox[clients[i].conn]), clients[i].fd, clients[i].conn)
          /\ UNCHANGED lastSent
    BY <1>4 DEF ClientLine
  <2>2. clients[i].conn \in Conns /\ clients[i].fd \in ClientFds
    BY <2>1, ClientType
  <2>3. inbox[clients[i].conn] \in Seq(Lines)
    BY <2>2 DEF TypeOK
  <2>4. Head(inbox[clients[i].conn]) \in Line
    BY <2>1, <2>3, HeadTailProperties, LinesAssumption
  <2> QED
    BY <2>1, <2>2, <2>4, ProcessCmdQueue
<1>5. CASE Send
  <2>1. CASE cmd_q # <<>> /\ ~Head(cmd_q).sent /\ Head(cmd_q).param > 0 /\ ttyUp
    <3>1. /\ cmd_q' = [cmd_q EXCEPT ![1].sent = TRUE, ![1].tv_start = "recent"]
          /\ lastSent' = Head(cmd_q).id
      BY <1>5, <2>1 DEF Send, SendHead
    <3>2. Head(cmd_q) = cmd_q[1] /\ nextId' = nextId
      BY <1>5 DEF Send
    <3> QED
      BY <1>0, <2>1, <3>1, <3>2 DEF QSend
  <2>2. CASE ~(cmd_q # <<>> /\ ~Head(cmd_q).sent /\ Head(cmd_q).param > 0 /\ ttyUp)
    BY <1>5, <2>2 DEF Send, SendHead, QSame
  <2> QED
    BY <2>1, <2>2
<1>6. CASE Age
  BY <1>0, <1>6 DEF Age, QAge
<1>7. CASE \/ Select \/ Accept \/ AutosampleVanished \/ ClientClosed \/ ClientReset \/ Control
           \/ Reopen \/ Idle \/ Terminated \/ Signal \/ UNCHANGED vars
  BY <1>7 DEF Select, Accept, AutosampleVanished, ClientClosed, ClientReset, Control, Reopen,
     Idle, Terminated, Signal, vars, daemon, QSame
<1>8. CASE ClientStep \/ FirmwareStep \/ ChildStep
  BY <1>8 DEF ClientStep, FirmwareStep, ChildStep, Connect, WriteLine, ReadLines, Close,
     FirmwareAnswers, FirmwareSpeaks, Hangup, ChildObeys, ChildSamples, ChildDies, daemon, QSame
<1> QED
  BY <1>1, <1>2, <1>3, <1>4, <1>5, <1>6, <1>7, <1>8 DEF Next, LoopStep

-----------------------------------------------------------------------------
(* The discipline of the queue is inductive once the types are known. *)

LEMMA CmdType ==
  ASSUME TypeOK
  PROVE  /\ Len(cmd_q) \in Nat /\ DOMAIN cmd_q = 1 .. Len(cmd_q)
         /\ cmd_q = <<>> <=> Len(cmd_q) = 0
         /\ \A i \in DOMAIN cmd_q :
              /\ cmd_q[i] \in Cmd /\ cmd_q[i].id \in Nat \ {0} /\ cmd_q[i].sent \in BOOLEAN
         /\ nextId \in Nat \ {0} /\ lastSent \in Nat
<1>1. cmd_q \in Seq(Cmd) /\ nextId \in Ids /\ lastSent \in Nat
  BY DEF TypeOK
<1>2. Len(cmd_q) \in Nat /\ DOMAIN cmd_q = 1 .. Len(cmd_q)
  BY <1>1, LenProperties
<1>3. cmd_q = <<>> <=> Len(cmd_q) = 0
  BY <1>1, EmptySeq
<1>4. \A i \in DOMAIN cmd_q : cmd_q[i] \in Cmd
  BY <1>1, ElementType
<1>5. \A c \in Cmd : c.id \in Nat \ {0} /\ c.sent \in BOOLEAN
  BY DEF Cmd, Ids
<1> QED
  BY <1>1, <1>2, <1>3, <1>4, <1>5 DEF Ids

LEMMA DisciplineStep ==
  ASSUME TypeOK, QueueDiscipline, [Next]_vars
  PROVE  QueueDiscipline'
<1>0. cmd_q \in Seq(Cmd)
  BY DEF TypeOK
<1> DEFINE n == Len(cmd_q)
<1>1. CASE QPop
  <2>1. /\ DOMAIN cmd_q' = 1 .. n - 1
        /\ \A i \in DOMAIN cmd_q' : i + 1 \in DOMAIN cmd_q /\ cmd_q'[i] = cmd_q[i + 1]
    <3>1. cmd_q' \in Seq(Cmd) /\ Len(cmd_q') = n - 1
            /\ \A i \in 1 .. Len(cmd_q') : cmd_q'[i] = cmd_q[i + 1]
      BY <1>0, <1>1, HeadTailProperties DEF QPop
    <3>2. DOMAIN cmd_q' = 1 .. n - 1
      BY <3>1, LenProperties
    <3> QED
      BY <3>1, <3>2, CmdType
  <2>2. \A i \in DOMAIN cmd_q' : i + 1 # 1
    BY <2>1
  <2>3. nextId' = nextId /\ lastSent' = lastSent
    BY <1>1 DEF QPop
  <2>4. \A i \in DOMAIN cmd_q' : i \in Nat
    BY <2>1, CmdType
  <2>5. \A i \in DOMAIN cmd_q' :
          /\ cmd_q'[i].id < nextId'
          /\ ~cmd_q'[i].sent /\ cmd_q'[i].id > lastSent' /\ cmd_q'[i].tv_start = "zero"
    BY <2>1, <2>2, <2>3 DEF QueueDiscipline
  <2>6. \A i, j \in DOMAIN cmd_q' : i < j => cmd_q'[i].id < cmd_q'[j].id
    BY <2>1, <2>4 DEF QueueDiscipline
  <2> QED
    BY <2>3, <2>5, <2>6 DEF QueueDiscipline
<1>2. CASE QPush
  <2>1. PICK new \in Cmd : /\ new.id = nextId /\ ~new.sent /\ new.tv_start = "zero"
                           /\ cmd_q' = Append(cmd_q, new)
    BY <1>2 DEF QPush
  <2>2. /\ DOMAIN cmd_q' = 1 .. n + 1
        /\ \A i \in 1 .. n : cmd_q'[i] = cmd_q[i]
        /\ cmd_q'[n + 1] = new
    BY <1>0, <2>1, AppendProperties, LenProperties
  <2>3. nextId' = nextId + 1 /\ lastSent' = lastSent
    BY <1>2 DEF QPush
  <2>4. \A i \in DOMAIN cmd_q' : i \in DOMAIN cmd_q \/ i = n + 1
    BY <2>2, CmdType
  <2> QED
    BY <2>1, <2>2, <2>3, <2>4, CmdType DEF QueueDiscipline
<1>3. CASE QClear
  BY <1>3 DEF QClear, QueueDiscipline
<1>4. CASE QSend
  <2>1. 1 \in 1 .. n /\ cmd_q[1] \in Cmd
    BY <1>4, CmdType DEF QSend
  <2>2. /\ DOMAIN cmd_q' = DOMAIN cmd_q
        /\ cmd_q'[1].sent /\ cmd_q'[1].id = cmd_q[1].id
        /\ \A i \in DOMAIN cmd_q : i # 1 => cmd_q'[i] = cmd_q[i]
    BY <1>4, <2>1, CmdType DEF QSend, Cmd
  <2>3. nextId' = nextId /\ lastSent' = cmd_q[1].id
    BY <1>4 DEF QSend
  <2>4. \A i \in DOMAIN cmd_q : i # 1 => cmd_q[1].id < cmd_q[i].id /\ ~cmd_q[i].sent
    BY <2>1, CmdType DEF QueueDiscipline
  <2>5. \A i \in DOMAIN cmd_q' : cmd_q'[i].id = cmd_q[i].id
    BY <2>2
  <2> QED
    BY <2>1, <2>2, <2>3, <2>4, <2>5, CmdType DEF QueueDiscipline
<1>5. CASE QAge
  <2>1. 1 \in 1 .. n
    BY <1>5, CmdType DEF QAge
  <2>2. /\ DOMAIN cmd_q' = DOMAIN cmd_q
        /\ cmd_q'[1].sent = cmd_q[1].sent /\ cmd_q'[1].id = cmd_q[1].id
        /\ \A i \in DOMAIN cmd_q : i # 1 => cmd_q'[i] = cmd_q[i]
    <3>1. cmd_q' = [cmd_q EXCEPT ![1] = [@ EXCEPT !.tv_start = "passed"]] /\ 1 \in DOMAIN cmd_q
          /\ cmd_q[1] \in Cmd
      BY <1>5, <2>1, CmdType DEF QAge
    <3> QED
      BY <3>1 DEF Cmd
  <2>3. nextId' = nextId /\ lastSent' = lastSent /\ cmd_q[1].sent
    BY <1>5 DEF QAge
  <2>4. \A i \in DOMAIN cmd_q' :
          /\ cmd_q'[i].id = cmd_q[i].id /\ cmd_q'[i].sent = cmd_q[i].sent
          /\ ~cmd_q'[i].sent => cmd_q'[i].tv_start = cmd_q[i].tv_start
    BY <2>2, <2>3
  <2>5. \A i \in DOMAIN cmd_q' :
          /\ cmd_q'[i].id < nextId'
          /\ cmd_q'[i].sent => i = 1 /\ cmd_q'[i].id = lastSent'
          /\ ~cmd_q'[i].sent => cmd_q'[i].id > lastSent' /\ cmd_q'[i].tv_start = "zero"
    BY <2>2, <2>3, <2>4 DEF QueueDiscipline
  <2>6. \A i, j \in DOMAIN cmd_q' : i < j => cmd_q'[i].id < cmd_q'[j].id
    BY <2>2, <2>4 DEF QueueDiscipline
  <2> QED
    BY <2>3, <2>5, <2>6 DEF QueueDiscipline
<1>6. CASE QSame
  BY <1>6 DEF QSame, QueueDiscipline
<1> QED
  BY <1>1, <1>2, <1>3, <1>4, <1>5, <1>6, QueueStep

(* At most one command is outstanding at the firmware: the head of the      *)
(* queue, the last one written; what waits behind it arrived later and was  *)
(* never written.                                                           *)
THEOREM QueueDisciplined == Spec => []QueueDiscipline
<1>1. Init => QueueDiscipline
  BY DEF Init, QueueDiscipline
<1>2. TypeOK /\ QueueDiscipline /\ [Next]_vars => QueueDiscipline'
  BY DisciplineStep
<1> QED
  BY <1>1, <1>2, TypeCorrect, PTL DEF Spec

-----------------------------------------------------------------------------
(* The queue implements CommandService. *)

LEMMA IdsType ==
  ASSUME NEW q \in Seq(Cmd)
  PROVE  /\ IdsOf(q) \in Seq(Nat) /\ Len(IdsOf(q)) = Len(q)
         /\ \A i \in 1 .. Len(q) : IdsOf(q)[i] = q[i].id
         /\ IdsOf(q) = <<>> <=> q = <<>>
<1>1. Len(q) \in Nat /\ DOMAIN q = 1 .. Len(q) /\ \A i \in 1 .. Len(q) : q[i] \in Cmd
  BY LenProperties, ElementOfSeq
<1>2. \A c \in Cmd : c.id \in Nat
  BY DEF Cmd, Ids
<1>3. IdsOf(q) \in [1 .. Len(q) -> Nat]
  BY <1>1, <1>2 DEF IdsOf
<1>4. IdsOf(q) \in Seq(Nat)
  BY <1>1, <1>3, SeqDef
<1>5. Len(IdsOf(q)) = Len(q)
  BY <1>1, <1>3, <1>4, LenProperties
<1> QED
  BY <1>1, <1>4, <1>5, EmptySeq DEF IdsOf

(* Numbering commutes with taking the tail and with appending. *)
LEMMA IdsOfTail ==
  ASSUME NEW q \in Seq(Cmd), q # <<>>
  PROVE  IdsOf(Tail(q)) = Tail(IdsOf(q)) /\ Head(IdsOf(q)) = Head(q).id
<1>1. Len(q) \in Nat \ {0} /\ IdsOf(q) \in Seq(Nat) /\ IdsOf(q) # <<>> /\ Len(IdsOf(q)) = Len(q)
  BY IdsType, EmptySeq, LenProperties
<1>2. /\ Tail(q) \in Seq(Cmd) /\ Len(Tail(q)) = Len(q) - 1
      /\ \A i \in 1 .. Len(Tail(q)) : Tail(q)[i] = q[i + 1]
  BY HeadTailProperties
<1>3. /\ Tail(IdsOf(q)) \in Seq(Nat) /\ Len(Tail(IdsOf(q))) = Len(q) - 1
      /\ \A i \in 1 .. Len(Tail(IdsOf(q))) : Tail(IdsOf(q))[i] = IdsOf(q)[i + 1]
  BY <1>1, HeadTailProperties, SMTT(30)
<1>4. /\ IdsOf(Tail(q)) \in Seq(Nat) /\ Len(IdsOf(Tail(q))) = Len(q) - 1
      /\ \A i \in 1 .. Len(q) - 1 : IdsOf(Tail(q))[i] = Tail(q)[i].id
  BY <1>2, IdsType
<1>5. \A i \in 1 .. Len(q) - 1 : IdsOf(Tail(q))[i] = Tail(IdsOf(q))[i]
  BY <1>1, <1>2, <1>3, <1>4, IdsType
<1>6. IdsOf(Tail(q)) = Tail(IdsOf(q))
  BY <1>3, <1>4, <1>5, SeqEqual
<1>7. 1 \in 1 .. Len(q)
  BY <1>1
<1>8. IdsOf(q)[1] = q[1].id
  BY <1>7, IdsType
<1> QED
  BY <1>1, <1>6, <1>8

LEMMA IdsOfAppend ==
  ASSUME NEW q \in Seq(Cmd), NEW c \in Cmd
  PROVE  IdsOf(Append(q, c)) = Append(IdsOf(q), c.id)
<1>1. c.id \in Nat /\ Len(q) \in Nat
  BY LenProperties DEF Cmd, Ids
<1>2. /\ IdsOf(q) \in Seq(Nat) /\ Len(IdsOf(q)) = Len(q)
      /\ \A i \in 1 .. Len(q) : IdsOf(q)[i] = q[i].id
  BY IdsType
<1>3. /\ Append(q, c) \in Seq(Cmd) /\ Len(Append(q, c)) = Len(q) + 1
      /\ \A i \in 1 .. Len(q) : Append(q, c)[i] = q[i]
      /\ Append(q, c)[Len(q) + 1] = c
  BY AppendProperties
<1>4. /\ IdsOf(Append(q, c)) \in Seq(Nat) /\ Len(IdsOf(Append(q, c))) = Len(q) + 1
      /\ \A i \in 1 .. Len(q) + 1 : IdsOf(Append(q, c))[i] = Append(q, c)[i].id
  BY <1>3, IdsType
<1>5. /\ Append(IdsOf(q), c.id) \in Seq(Nat) /\ Len(Append(IdsOf(q), c.id)) = Len(q) + 1
      /\ \A i \in 1 .. Len(q) : Append(IdsOf(q), c.id)[i] = IdsOf(q)[i]
      /\ Append(IdsOf(q), c.id)[Len(q) + 1] = c.id
  BY <1>1, <1>2, AppendProperties
<1>6. \A i \in 1 .. Len(q) + 1 : IdsOf(Append(q, c))[i] = Append(IdsOf(q), c.id)[i]
  <2> SUFFICES ASSUME NEW i \in 1 .. Len(q) + 1
               PROVE  IdsOf(Append(q, c))[i] = Append(IdsOf(q), c.id)[i]
    OBVIOUS
  <2>1. i \in 1 .. Len(q) \/ i = Len(q) + 1
    BY <1>1
  <2> QED
    BY <2>1, <1>2, <1>3, <1>4, <1>5
<1> QED
  BY <1>4, <1>5, <1>6, SeqEqual

(* Changing fields of the head other than its number changes no number and  *)
(* leaves the tail alone.                                                   *)
LEMMA SameHead ==
  ASSUME NEW q \in Seq(Cmd), NEW r \in Seq(Cmd), q # <<>>, DOMAIN r = DOMAIN q,
         r[1].id = q[1].id, \A i \in DOMAIN q : i # 1 => r[i] = q[i]
  PROVE  r # <<>> /\ IdsOf(r) = IdsOf(q) /\ Tail(r) = Tail(q)
<1>1. /\ Len(q) \in Nat \ {0} /\ DOMAIN q = 1 .. Len(q)
      /\ Len(r) \in Nat /\ DOMAIN r = 1 .. Len(r)
  BY LenProperties, EmptySeq
<1>2. Len(r) = Len(q) /\ r # <<>>
  BY <1>1, EmptySeq
<1>3. IdsOf(r) = IdsOf(q)
  <2>1. \A i \in DOMAIN q : r[i].id = q[i].id
    BY <1>1
  <2> QED
    BY <2>1 DEF IdsOf
<1>4. /\ Tail(q) \in Seq(Cmd) /\ Len(Tail(q)) = Len(q) - 1
      /\ \A i \in 1 .. Len(Tail(q)) : Tail(q)[i] = q[i + 1]
  BY HeadTailProperties
<1>5. /\ Tail(r) \in Seq(Cmd) /\ Len(Tail(r)) = Len(r) - 1
      /\ \A i \in 1 .. Len(Tail(r)) : Tail(r)[i] = r[i + 1]
  BY <1>2, HeadTailProperties
<1>6. \A i \in 1 .. Len(Tail(q)) : Tail(r)[i] = Tail(q)[i]
  BY <1>1, <1>2, <1>4, <1>5
<1> QED
  BY <1>2, <1>3, <1>4, <1>5, <1>6, SeqEqual

LEMMA RefinementStep ==
  ASSUME TypeOK, QueueDiscipline, [Next]_vars
  PROVE  [Service!Next]_(Service!vars)
<1>0. cmd_q \in Seq(Cmd) /\ cmd_q' \in Seq(Cmd)
  BY TypeStep DEF TypeOK
<1>1. CASE QPop
  <2>1. cmd_q # <<>> /\ cmd_q' = Tail(cmd_q) /\ nextId' = nextId
    BY <1>1 DEF QPop
  <2>2. cmd_q' # <<>> => ~Head(cmd_q').sent
    <3> SUFFICES ASSUME cmd_q' # <<>> PROVE ~Head(cmd_q').sent
      OBVIOUS
    <3>1. Len(cmd_q') \in Nat \ {0} /\ Len(cmd_q') = Len(cmd_q) - 1
            /\ \A i \in 1 .. Len(cmd_q') : cmd_q'[i] = cmd_q[i + 1]
      BY <1>0, <2>1, EmptySeq, HeadTailProperties, LenProperties
    <3>2. 2 \in DOMAIN cmd_q /\ Head(cmd_q') = cmd_q[2]
      BY <3>1, CmdType
    <3>3. ~cmd_q[2].sent
      BY <3>2 DEF QueueDiscipline
    <3> QED
      BY <3>2, <3>3
  <2>3. current' = 0 /\ waiting' = IdsOf(Tail(cmd_q))
    BY <2>1, <2>2 DEF current, waiting
  <2>4. CASE Head(cmd_q).sent
    <3>1. current = Head(cmd_q).id /\ waiting = IdsOf(Tail(cmd_q))
      BY <2>1, <2>4 DEF current, waiting
    <3>2. Head(cmd_q).id # 0
      <4>1. Head(cmd_q) \in Cmd
        BY <1>0, <2>1, HeadTailProperties
      <4> QED
        BY <4>1 DEF Cmd, Ids
    <3> QED
      BY <2>1, <2>3, <3>1, <3>2 DEF Service!Next, Service!Finish
  <2>5. CASE ~Head(cmd_q).sent
    <3>1. current = 0 /\ waiting = IdsOf(cmd_q)
      BY <2>5 DEF current, waiting
    <3>2. IdsOf(Tail(cmd_q)) = Tail(IdsOf(cmd_q)) /\ IdsOf(cmd_q) # <<>>
      BY <1>0, <2>1, IdsOfTail, IdsType
    <3> QED
      BY <2>1, <2>3, <3>1, <3>2 DEF Service!Next, Service!GiveUp
  <2> QED
    BY <2>4, <2>5
<1>2. CASE QPush
  <2>1. PICK new \in Cmd : /\ new.id = nextId /\ ~new.sent
                           /\ cmd_q' = Append(cmd_q, new)
    BY <1>2 DEF QPush
  <2>2. nextId' = nextId + 1
    BY <1>2 DEF QPush
  <2>3. cmd_q' # <<>> /\ Head(cmd_q') = (IF cmd_q = <<>> THEN new ELSE Head(cmd_q))
          /\ Tail(cmd_q') = (IF cmd_q = <<>> THEN <<>> ELSE Append(Tail(cmd_q), new))
    BY <1>0, <2>1, HeadTailAppend, AppendProperties
  <2>4. current' = current
    BY <2>1, <2>3 DEF current
  <2>5. waiting' = Append(waiting, nextId)
    <3>1. CASE cmd_q # <<>> /\ Head(cmd_q).sent
      <4>1. Tail(cmd_q) \in Seq(Cmd)
        BY <1>0, <3>1, HeadTailProperties
      <4>2. waiting' = IdsOf(Append(Tail(cmd_q), new)) /\ waiting = IdsOf(Tail(cmd_q))
        BY <2>3, <3>1 DEF waiting
      <4> QED
        BY <2>1, <4>1, <4>2, IdsOfAppend
    <3>2. CASE ~(cmd_q # <<>> /\ Head(cmd_q).sent)
      <4>1. waiting' = IdsOf(Append(cmd_q, new)) /\ waiting = IdsOf(cmd_q)
        BY <2>1, <2>3, <3>2 DEF waiting
      <4> QED
        BY <1>0, <2>1, <4>1, IdsOfAppend
    <3> QED
      BY <3>1, <3>2
  <2> QED
    BY <2>2, <2>4, <2>5 DEF Service!Next, Service!Submit
<1>3. CASE QClear
  <2>1. waiting' = <<>> /\ current' = 0
    <3>1. IdsOf(<<>>) = <<>>
      BY EmptySeq, IdsType
    <3> QED
      BY <1>3, <3>1 DEF QClear, waiting, current
  <2> QED
    BY <1>3, <2>1 DEF QClear, Service!Next, Service!DropAll
<1>4. CASE QSend
  <2>1. /\ cmd_q # <<>> /\ ~Head(cmd_q).sent /\ nextId' = nextId
        /\ cmd_q' = [cmd_q EXCEPT ![1] = [@ EXCEPT !.sent = TRUE, !.tv_start = "recent"]]
    BY <1>4 DEF QSend
  <2>2. 1 \in DOMAIN cmd_q /\ cmd_q[1] \in Cmd
    BY <2>1, CmdType
  <2>3. /\ DOMAIN cmd_q' = DOMAIN cmd_q /\ cmd_q'[1].sent /\ cmd_q'[1].id = cmd_q[1].id
        /\ \A i \in DOMAIN cmd_q : i # 1 => cmd_q'[i] = cmd_q[i]
    BY <2>1, <2>2 DEF Cmd
  <2>4. cmd_q' # <<>> /\ Tail(cmd_q') = Tail(cmd_q)
    BY <1>0, <2>1, <2>3, SameHead
  <2>5. current = 0 /\ waiting = IdsOf(cmd_q)
    BY <2>1 DEF current, waiting
  <2>6. current' = Head(cmd_q).id /\ waiting' = IdsOf(Tail(cmd_q))
    <3>0. Head(cmd_q') = cmd_q'[1] /\ Head(cmd_q) = cmd_q[1]
      BY <1>0, <2>1, <2>4
    <3>1. Head(cmd_q').sent /\ Head(cmd_q').id = Head(cmd_q).id
      BY <2>3, <3>0
    <3> QED
      BY <2>4, <3>1 DEF current, waiting
  <2>7. Head(IdsOf(cmd_q)) = Head(cmd_q).id /\ IdsOf(Tail(cmd_q)) = Tail(IdsOf(cmd_q))
          /\ IdsOf(cmd_q) # <<>>
    BY <1>0, <2>1, IdsOfTail, IdsType
  <2> QED
    BY <2>1, <2>5, <2>6, <2>7 DEF Service!Next, Service!HandOver
<1>5. CASE QAge
  <2>1. /\ cmd_q # <<>> /\ cmd_q[1].sent /\ nextId' = nextId
        /\ cmd_q' = [cmd_q EXCEPT ![1] = [@ EXCEPT !.tv_start = "passed"]]
    BY <1>5 DEF QAge
  <2>2. 1 \in DOMAIN cmd_q /\ cmd_q[1] \in Cmd
    BY <2>1, CmdType
  <2>3. /\ DOMAIN cmd_q' = DOMAIN cmd_q /\ cmd_q'[1].sent /\ cmd_q'[1].id = cmd_q[1].id
        /\ \A i \in DOMAIN cmd_q : i # 1 => cmd_q'[i] = cmd_q[i]
    BY <2>1, <2>2 DEF Cmd
  <2>4. cmd_q' # <<>> /\ Tail(cmd_q') = Tail(cmd_q)
    BY <1>0, <2>1, <2>3, SameHead
  <2>5. current' = current /\ waiting' = waiting
    <3>0. Head(cmd_q') = cmd_q'[1] /\ Head(cmd_q) = cmd_q[1]
      BY <1>0, <2>1, <2>4
    <3>1. Head(cmd_q').sent /\ Head(cmd_q').id = Head(cmd_q).id /\ Head(cmd_q).sent
      BY <2>1, <2>3, <3>0
    <3> QED
      BY <2>1, <2>4, <3>1 DEF current, waiting
  <2> QED
    BY <2>1, <2>5 DEF Service!vars
<1>6. CASE QSame
  BY <1>6 DEF QSame, Service!vars, current, waiting
<1> QED
  BY <1>1, <1>2, <1>3, <1>4, <1>5, <1>6, QueueStep

(* The main loop implements the abstract service: commands are handed to    *)
(* the firmware one at a time, in the order of their arrival, each at most  *)
(* once.                                                                    *)
THEOREM Refinement == Spec => ImplementsService
<1>1. Init => Service!Init
  <2>1. IdsOf(<<>>) = <<>>
    BY EmptySeq, IdsType
  <2> QED
    BY <2>1 DEF Init, Service!Init, current, waiting
<1>2. TypeOK /\ QueueDiscipline /\ [Next]_vars => [Service!Next]_(Service!vars)
  BY RefinementStep
<1> QED
  BY <1>1, <1>2, TypeCorrect, QueueDisciplined, PTL DEF Spec, ImplementsService, Service!Spec

-----------------------------------------------------------------------------
(* Who holds which descriptor, and whose commands are queued under it.      *)

(* A descriptor names one client, and a connection is one client at most    *)
(* (accept, client_add, client_remove).                                     *)
OneDescriptorPerClient ==
  /\ \A i, j \in DOMAIN clients :
       i # j => clients[i].fd # clients[j].fd /\ clients[i].conn # clients[j].conn
  /\ \A i \in DOMAIN clients, j \in DOMAIN backlog : clients[i].conn # backlog[j]
  /\ \A i, j \in DOMAIN backlog : i # j => backlog[i] # backlog[j]

(* And a connection not yet made is nowhere in the daemon. *)
Attachment ==
  /\ OneDescriptorPerClient
  /\ \A i \in DOMAIN clients : peer[clients[i].conn] # "new"
  /\ \A i \in DOMAIN backlog : peer[backlog[i]] # "new"

(* The strengthening of LiveIssuerGetsReply: a client that is not closed is *)
(* still in the list, under the descriptor of all its commands.             *)
Issued(cmd) ==
  \/ cmd.by = NoConn /\ cmd.fd = AutoFd
  \/ cmd.by # NoConn /\ \E j \in DOMAIN clients : clients[j].fd = cmd.fd /\ clients[j].conn = cmd.by
  \/ cmd.by # NoConn /\ peer[cmd.by] \in {"closed", "reset"}

Issuers == \A i \in DOMAIN cmd_q : Issued(cmd_q[i])

(* What a step can do to the clients. *)
KAdd ==
  /\ backlog # <<>>
  /\ \E fd \in FreeFds :
       clients' = Append(clients, [fd |-> fd, conn |-> Head(backlog), listens |-> {}])
  /\ backlog' = Tail(backlog)
  /\ UNCHANGED <<peer, cmd_q>>

KRemove ==
  /\ \E i \in DOMAIN clients :
       clients' = Without(clients, i) /\ peer[clients[i].conn] = "closed"
  /\ UNCHANGED <<backlog, peer, cmd_q>>

KClear == clients' = <<>> /\ cmd_q' = <<>> /\ UNCHANGED <<backlog, peer>>

KConnect ==
  /\ \E c \in Conns :
       /\ peer[c] = "new"
       /\ peer' = [peer EXCEPT ![c] = "open"]
       /\ backlog' = Append(backlog, c)
  /\ UNCHANGED <<clients, cmd_q>>

KClose ==
  /\ \E c \in Conns, how \in {"closed", "reset"} : peer' = [peer EXCEPT ![c] = how]
  /\ UNCHANGED <<clients, backlog, cmd_q>>

(* The list keeps its descriptors; a command in the queue was there before, *)
(* or it is new and carries the descriptor of the one who issued it.        *)
KKeep ==
  /\ DOMAIN clients' = DOMAIN clients
  /\ \A i \in DOMAIN clients : /\ clients'[i].fd = clients[i].fd
                               /\ clients'[i].conn = clients[i].conn
  /\ UNCHANGED <<backlog, peer>>
  /\ \A i \in DOMAIN cmd_q' :
       \/ \E j \in DOMAIN cmd_q : cmd_q'[i].by = cmd_q[j].by /\ cmd_q'[i].fd = cmd_q[j].fd
       \/ cmd_q'[i].by = NoConn /\ cmd_q'[i].fd = AutoFd
       \/ \E j \in DOMAIN clients : /\ cmd_q'[i].by = clients[j].conn
                                    /\ cmd_q'[i].fd = clients[j].fd

(* In the queue after a pop, a write or a tick no descriptor changed hands. *)
LEMMA KeepQueue ==
  ASSUME TypeOK, QPop \/ QSend \/ QAge \/ UNCHANGED cmd_q
  PROVE  \A i \in DOMAIN cmd_q' :
           \E j \in DOMAIN cmd_q : cmd_q'[i].by = cmd_q[j].by /\ cmd_q'[i].fd = cmd_q[j].fd
<1>0. cmd_q \in Seq(Cmd)
  BY DEF TypeOK
<1>1. CASE QPop
  <2>1. /\ Len(cmd_q) \in Nat \ {0} /\ DOMAIN cmd_q = 1 .. Len(cmd_q)
        /\ DOMAIN cmd_q' = 1 .. Len(cmd_q) - 1
        /\ \A i \in DOMAIN cmd_q' : cmd_q'[i] = cmd_q[i + 1]
    <3>1. cmd_q' \in Seq(Cmd) /\ Len(cmd_q') = Len(cmd_q) - 1
            /\ \A i \in 1 .. Len(cmd_q') : cmd_q'[i] = cmd_q[i + 1]
      BY <1>0, <1>1, HeadTailProperties DEF QPop
    <3> QED
      BY <1>0, <1>1, <3>1, LenProperties, EmptySeq DEF QPop
  <2>2. \A i \in DOMAIN cmd_q' : i + 1 \in DOMAIN cmd_q /\ cmd_q'[i] = cmd_q[i + 1]
    BY <2>1
  <2> QED
    BY <2>2
<1>2. CASE QSend \/ QAge
  <2>1. 1 \in DOMAIN cmd_q /\ cmd_q[1] \in Cmd
    BY <1>2, CmdType DEF QSend, QAge
  <2>2. DOMAIN cmd_q' = DOMAIN cmd_q /\ \A i \in DOMAIN cmd_q : i # 1 => cmd_q'[i] = cmd_q[i]
    BY <1>2 DEF QSend, QAge
  <2>3. cmd_q'[1].by = cmd_q[1].by /\ cmd_q'[1].fd = cmd_q[1].fd
    <3>1. \/ cmd_q'[1] = [cmd_q[1] EXCEPT !.sent = TRUE, !.tv_start = "recent"]
          \/ cmd_q'[1] = [cmd_q[1] EXCEPT !.tv_start = "passed"]
      BY <1>2, <2>1 DEF QSend, QAge
    <3> QED
      BY <2>1, <3>1 DEF Cmd
  <2> QED
    BY <2>2, <2>3
<1>3. CASE UNCHANGED cmd_q
  BY <1>3
<1> QED
  BY <1>1, <1>2, <1>3

LEMMA KeepProcessCmd ==
  ASSUME TypeOK, NEW line \in Line, NEW fd, NEW conn, ProcessCmd(line, fd, conn),
         \/ fd = AutoFd /\ conn = NoConn
         \/ \E j \in DOMAIN clients : fd = clients[j].fd /\ conn = clients[j].conn,
         UNCHANGED <<backlog, peer>>
  PROVE  KKeep
<1>1. CASE ProcessRequest(line, fd, conn)
  <2> DEFINE new == [id |-> nextId, by |-> conn, fd |-> fd, op |-> line.op,
                     param |-> line.param, sent |-> FALSE, tv_start |-> "zero"]
  <2>1. cmd_q \in Seq(Cmd) /\ clients' = clients /\ cmd_q' = Append(cmd_q, new)
    BY <1>1 DEF TypeOK, ProcessRequest, Push
  <2>2. \A i \in DOMAIN cmd_q' : (i \in DOMAIN cmd_q /\ cmd_q'[i] = cmd_q[i]) \/ cmd_q'[i] = new
    BY <2>1, CmdType
  <2>3. new.by = conn /\ new.fd = fd
    OBVIOUS
  <2> HIDE DEF new
  <2> QED
    BY <2>1, <2>2, <2>3 DEF KKeep
<1>2. CASE ProcessListen(line, fd) \/ ProcessOther(line)
  <2>1. cmd_q' = cmd_q /\ DOMAIN clients' = DOMAIN clients
    BY <1>2 DEF ProcessListen, ProcessOther
  <2>2. \A i \in DOMAIN clients : clients'[i].fd = clients[i].fd /\ clients'[i].conn = clients[i].conn
    <3> SUFFICES ASSUME NEW i \in DOMAIN clients
                 PROVE  clients'[i].fd = clients[i].fd /\ clients'[i].conn = clients[i].conn
      OBVIOUS
    <3>1. clients[i] \in Client
      BY ClientType
    <3>2. \/ clients'[i] = clients[i]
          \/ clients'[i] = [clients[i] EXCEPT !.listens = Subscribe(@, line.arg)]
      BY <1>2 DEF ProcessListen, ProcessOther
    <3> QED
      BY <3>1, <3>2 DEF Client
  <2> QED
    BY <2>1, <2>2 DEF KKeep
<1> QED
  BY <1>1, <1>2 DEF ProcessCmd

LEMMA ClientsStep ==
  ASSUME TypeOK, [Next]_vars
  PROVE  KAdd \/ KRemove \/ KClear \/ KConnect \/ KClose \/ KKeep
<1>1. CASE Accept
  BY <1>1 DEF Accept, KAdd
<1>2. CASE ClientClosed
  BY <1>2 DEF ClientClosed, KRemove, sockets
<1>3. CASE HandleSignal \/ TtyVanished \/ AcceptFails \/ LoopEnds
  BY <1>3 DEF HandleSignal, TtyVanished, AcceptFails, LoopEnds, LeaveLoop, KClear
<1>4. CASE AutosampleLine
  <2>1. autoPipe \in Seq(SampleLines) /\ autoPipe # <<>>
    BY <1>4 DEF AutosampleLine, TypeOK
  <2>2. Head(autoPipe) \in Line
    BY <2>1, HeadTailProperties, LinesAssumption
  <2> QED
    BY <1>4, <2>2, KeepProcessCmd DEF AutosampleLine, sockets
<1>5. CASE ClientLine
  <2>1. PICK i \in DOMAIN clients :
          /\ inbox[clients[i].conn] # <<>>
          /\ ProcessCmd(Head(inbox[clients[i].conn]), clients[i].fd, clients[i].conn)
          /\ UNCHANGED <<peer, backlog>>
    BY <1>5 DEF ClientLine
  <2>2. clients[i].conn \in Conns
    BY <2>1, ClientType
  <2>3. inbox[clients[i].conn] \in Seq(Lines)
    BY <2>2 DEF TypeOK
  <2>4. Head(inbox[clients[i].conn]) \in Line
    BY <2>1, <2>3, HeadTailProperties, LinesAssumption
  <2> QED
    BY <2>1, <2>4, KeepProcessCmd
<1>6. ASSUME NEW c \in Conns, Connect(c)
      PROVE  KConnect
  BY <1>6 DEF Connect, KConnect, daemon
<1>7. ASSUME NEW c \in Conns, Close(c)
      PROVE  KClose
  BY <1>7 DEF Close, KClose, daemon
<1>8. CASE SelectTimeout \/ ProcessTtyLine \/ Send \/ Age
  <2>1. UNCHANGED <<clients, backlog, peer, nextId>>
    BY <1>8 DEF SelectTimeout, ProcessTtyLine, Send, Age, sockets
  <2>2. QPop \/ QSend \/ QAge \/ UNCHANGED cmd_q
    <3>1. CASE QPush
      BY <2>1, <3>1 DEF QPush, TypeOK, Ids
    <3>2. CASE QClear
      <4>1. CASE SelectTimeout \/ ProcessTtyLine
        BY <3>2, <4>1 DEF QClear, SelectTimeout, ProcessTtyLine, Pop, QPop
      <4>2. CASE (Send \/ Age) /\ cmd_q # <<>>
        <5>1. Len(cmd_q') = Len(cmd_q) \/ cmd_q' = cmd_q
          BY <4>2 DEF Send, SendHead, Age, TypeOK
        <5> QED
          BY <3>2, <5>1, EmptySeq DEF QClear, TypeOK
      <4>3. CASE (Send \/ Age) /\ cmd_q = <<>>
        BY <3>2, <4>3 DEF QClear
      <4> QED
        BY <1>8, <4>1, <4>2, <4>3
    <3> QED
      BY <3>1, <3>2, QueueStep DEF QSame
  <2> QED
    BY <2>1, <2>2, KeepQueue DEF KKeep
<1>9. CASE \/ Select \/ AutosampleVanished \/ ClientReset \/ Control \/ Reopen \/ Idle
           \/ Terminated \/ Signal \/ FirmwareStep \/ ChildStep \/ UNCHANGED vars
           \/ \E c \in Conns : WriteLine(c) \/ ReadLines(c)
  <2>1. UNCHANGED <<clients, backlog, peer, cmd_q>>
    BY <1>9 DEF Select, AutosampleVanished, ClientReset, Control, Reopen, Idle, Terminated,
       Signal, FirmwareStep, ChildStep, WriteLine, ReadLines, FirmwareAnswers, FirmwareSpeaks, Hangup,
       ChildObeys, ChildSamples, ChildDies, vars, daemon, sockets
  <2> QED
    BY <2>1, KeepQueue DEF KKeep
<1> QED
  BY <1>1, <1>2, <1>3, <1>4, <1>5, <1>6, <1>7, <1>8, <1>9 DEF Next, LoopStep, ClientStep

LEMMA BacklogType ==
  ASSUME TypeOK
  PROVE  /\ backlog \in Seq(Conns) /\ Len(backlog) \in Nat /\ DOMAIN backlog = 1 .. Len(backlog)
         /\ \A i \in DOMAIN backlog : backlog[i] \in Conns
<1>1. backlog \in Seq(Conns)
  BY DEF TypeOK
<1> QED
  BY <1>1, LenProperties, ElementOfSeq

LEMMA AttachmentStep ==
  ASSUME TypeOK, Attachment, [Next]_vars
  PROVE  Attachment'
<1>0. clients \in Seq(Client) /\ Len(clients) \in Nat /\ DOMAIN clients = 1 .. Len(clients)
  BY LenProperties DEF TypeOK
<1>1. CASE KAdd
  <2>1. PICK fd \in FreeFds :
          clients' = Append(clients, [fd |-> fd, conn |-> Head(backlog), listens |-> {}])
    BY <1>1 DEF KAdd
  <2> DEFINE new == [fd |-> fd, conn |-> Head(backlog), listens |-> {}]
  <2>2. backlog # <<>> /\ backlog' = Tail(backlog) /\ peer' = peer
    BY <1>1 DEF KAdd
  <2>3. 1 \in DOMAIN backlog /\ Head(backlog) = backlog[1] /\ Head(backlog) \in Conns
    BY <2>2, BacklogType, EmptySeq
  <2>4. new \in Client /\ new.fd = fd /\ new.conn = backlog[1]
    BY <2>1, <2>3 DEF Client, FreeFds
  <2>5. /\ DOMAIN clients' = 1 .. Len(clients) + 1
        /\ \A i \in DOMAIN clients : clients'[i] = clients[i]
        /\ clients'[Len(clients) + 1] = new
    BY <1>0, <2>1, <2>4, AppendProperties, LenProperties
  <2>6. /\ DOMAIN backlog' = 1 .. Len(backlog) - 1
        /\ \A i \in DOMAIN backlog' : i + 1 \in DOMAIN backlog /\ backlog'[i] = backlog[i + 1]
    <3>1. backlog' \in Seq(Conns) /\ Len(backlog') = Len(backlog) - 1
            /\ \A i \in 1 .. Len(backlog') : backlog'[i] = backlog[i + 1]
      BY <2>2, BacklogType, HeadTailProperties
    <3> QED
      BY <3>1, BacklogType, LenProperties
  <2>7. \A i \in DOMAIN clients : clients[i].fd # fd
    BY <2>1 DEF FreeFds, FdsOf
  <2>8. \A i \in DOMAIN clients' : i \in DOMAIN clients \/ (i = Len(clients) + 1 /\ clients'[i] = new)
    BY <1>0, <2>5
  <2>9. \A i \in DOMAIN clients : clients[i].conn # backlog[1]
    BY <2>3 DEF Attachment, OneDescriptorPerClient
  <2>10. \A i, j \in DOMAIN clients' :
           i # j => clients'[i].fd # clients'[j].fd /\ clients'[i].conn # clients'[j].conn
    BY <2>4, <2>5, <2>7, <2>8, <2>9 DEF Attachment, OneDescriptorPerClient
  <2>11. \A i \in DOMAIN backlog' : backlog'[i] # backlog[1]
    BY <2>3, <2>6, BacklogType DEF Attachment, OneDescriptorPerClient
  <2>12. \A i \in DOMAIN clients', j \in DOMAIN backlog' : clients'[i].conn # backlog'[j]
    BY <2>4, <2>5, <2>6, <2>8, <2>11 DEF Attachment, OneDescriptorPerClient
  <2>13. \A i, j \in DOMAIN backlog' : i # j => backlog'[i] # backlog'[j]
    BY <2>6, BacklogType DEF Attachment, OneDescriptorPerClient
  <2>14. /\ \A i \in DOMAIN clients' : peer'[clients'[i].conn] # "new"
         /\ \A i \in DOMAIN backlog' : peer'[backlog'[i]] # "new"
    BY <2>2, <2>3, <2>4, <2>5, <2>6, <2>8 DEF Attachment
  <2> QED
    BY <2>10, <2>12, <2>13, <2>14 DEF Attachment, OneDescriptorPerClient
<1>2. CASE KRemove
  <2>1. PICK k \in DOMAIN clients : clients' = Without(clients, k)
    BY <1>2 DEF KRemove
  <2>2. /\ DOMAIN clients' = 1 .. Len(clients) - 1
        /\ \A j \in DOMAIN clients' : clients'[j] = IF j < k THEN clients[j] ELSE clients[j + 1]
    BY <1>0, <2>1, WithoutProperties
  <2> DEFINE old(j) == IF j < k THEN j ELSE j + 1
  <2>3. \A j \in DOMAIN clients' : old(j) \in DOMAIN clients /\ clients'[j] = clients[old(j)]
    BY <1>0, <2>1, <2>2
  <2>4. \A i, j \in DOMAIN clients' : i # j => old(i) # old(j)
    BY <1>0, <2>1, <2>2
  <2> HIDE DEF old
  <2>5. backlog' = backlog /\ peer' = peer
    BY <1>2 DEF KRemove
  <2> QED
    BY <2>3, <2>4, <2>5 DEF Attachment, OneDescriptorPerClient
<1>3. CASE KClear
  BY <1>3 DEF KClear, Attachment, OneDescriptorPerClient
<1>4. CASE KConnect
  <2>1. PICK c \in Conns :
          peer[c] = "new" /\ peer' = [peer EXCEPT ![c] = "open"] /\ backlog' = Append(backlog, c)
    BY <1>4 DEF KConnect
  <2>2. clients' = clients
    BY <1>4 DEF KConnect
  <2>3. /\ \A i \in DOMAIN clients : clients[i].conn # c
        /\ \A i \in DOMAIN backlog : backlog[i] # c
    BY <2>1 DEF Attachment
  <2>4. /\ DOMAIN backlog' = 1 .. Len(backlog) + 1
        /\ \A i \in DOMAIN backlog : backlog'[i] = backlog[i]
        /\ backlog'[Len(backlog) + 1] = c
    BY <2>1, BacklogType, AppendProperties, LenProperties
  <2>5. \A i \in DOMAIN backlog' : i \in DOMAIN backlog \/ (i = Len(backlog) + 1 /\ backlog'[i] = c)
    BY <2>4, BacklogType
  <2>6. peer'[c] = "open" /\ \A d \in Conns : d # c => peer'[d] = peer[d]
    BY <2>1 DEF TypeOK
  <2>7. OneDescriptorPerClient'
    BY <2>2, <2>3, <2>4, <2>5 DEF Attachment, OneDescriptorPerClient
  <2>8. \A i \in DOMAIN clients' : peer'[clients'[i].conn] # "new"
    BY <2>2, <2>3, <2>6, ClientType DEF Attachment
  <2>9. \A i \in DOMAIN backlog' : peer'[backlog'[i]] # "new"
    BY <2>3, <2>4, <2>5, <2>6, BacklogType DEF Attachment
  <2> QED
    BY <2>7, <2>8, <2>9 DEF Attachment
<1>5. CASE KClose
  <2>1. PICK c \in Conns, how \in {"closed", "reset"} : peer' = [peer EXCEPT ![c] = how]
    BY <1>5 DEF KClose
  <2>2. \A d \in Conns : peer'[d] = peer[d] \/ peer'[d] \in {"closed", "reset"}
    BY <2>1 DEF TypeOK
  <2>3. clients' = clients /\ backlog' = backlog
    BY <1>5 DEF KClose
  <2> QED
    BY <2>2, <2>3, ClientType, BacklogType DEF Attachment, OneDescriptorPerClient
<1>6. CASE KKeep
  BY <1>6 DEF KKeep, Attachment, OneDescriptorPerClient
<1> QED
  BY <1>1, <1>2, <1>3, <1>4, <1>5, <1>6, ClientsStep

LEMMA AttachmentInvariant == Spec => []Attachment
<1>1. Init => Attachment
  BY DEF Init, Attachment, OneDescriptorPerClient
<1>2. TypeOK /\ Attachment /\ [Next]_vars => Attachment'
  BY AttachmentStep
<1> QED
  BY <1>1, <1>2, TypeCorrect, PTL DEF Spec

LEMMA IssuersStep ==
  ASSUME TypeOK, Issuers, [Next]_vars
  PROVE  Issuers'
<1>0. clients \in Seq(Client) /\ Len(clients) \in Nat /\ DOMAIN clients = 1 .. Len(clients)
  BY LenProperties DEF TypeOK
<1>1. CASE KAdd
  <2>1. PICK fd \in FreeFds :
          clients' = Append(clients, [fd |-> fd, conn |-> Head(backlog), listens |-> {}])
    BY <1>1 DEF KAdd
  <2>2. DOMAIN clients \subseteq DOMAIN clients' /\ \A i \in DOMAIN clients : clients'[i] = clients[i]
    BY <1>0, <2>1
  <2> QED
    BY <1>1, <2>2 DEF KAdd, Issuers, Issued
<1>2. CASE KRemove
  <2>1. PICK k \in DOMAIN clients : clients' = Without(clients, k) /\ peer[clients[k].conn] = "closed"
    BY <1>2 DEF KRemove
  <2>2. /\ DOMAIN clients' = 1 .. Len(clients) - 1
        /\ \A j \in DOMAIN clients' : clients'[j] = IF j < k THEN clients[j] ELSE clients[j + 1]
    BY <1>0, <2>1, WithoutProperties
  <2>3. \A i \in DOMAIN clients : i # k => \E j \in DOMAIN clients' : clients'[j] = clients[i]
    <3> SUFFICES ASSUME NEW i \in DOMAIN clients, i # k
                 PROVE  \E j \in DOMAIN clients' : clients'[j] = clients[i]
      OBVIOUS
    <3>1. CASE i < k
      <4>1. i \in DOMAIN clients' /\ clients'[i] = clients[i]
        BY <1>0, <2>2, <3>1
      <4> QED
        BY <4>1
    <3>2. CASE i > k
      <4>1. i - 1 \in DOMAIN clients' /\ clients'[i - 1] = clients[i]
        BY <1>0, <2>2, <3>2
      <4> QED
        BY <4>1
    <3> QED
      BY <1>0, <3>1, <3>2
  <2>4. cmd_q' = cmd_q /\ peer' = peer
    BY <1>2 DEF KRemove
  <2> QED
    BY <2>1, <2>3, <2>4 DEF Issuers, Issued
<1>3. CASE KClear
  BY <1>3 DEF KClear, Issuers
<1>4. CASE KConnect
  <2>1. PICK c \in Conns : peer[c] = "new" /\ peer' = [peer EXCEPT ![c] = "open"]
    BY <1>4 DEF KConnect
  <2>2. \A d \in Conns : peer[d] \in {"closed", "reset"} => peer'[d] = peer[d]
    BY <2>1 DEF TypeOK
  <2>3. \A i \in DOMAIN cmd_q : cmd_q[i].by \in Conns \cup {NoConn}
    BY CmdType DEF Cmd
  <2> QED
    BY <1>4, <2>2, <2>3 DEF KConnect, Issuers, Issued
<1>5. CASE KClose
  <2>1. PICK c \in Conns, how \in {"closed", "reset"} : peer' = [peer EXCEPT ![c] = how]
    BY <1>5 DEF KClose
  <2>2. \A d \in Conns : peer[d] \in {"closed", "reset"} => peer'[d] \in {"closed", "reset"}
    BY <2>1 DEF TypeOK
  <2>3. \A i \in DOMAIN cmd_q : cmd_q[i].by \in Conns \cup {NoConn}
    BY CmdType DEF Cmd
  <2> QED
    BY <1>5, <2>2, <2>3 DEF KClose, Issuers, Issued
<1>6. CASE KKeep
  <2>1. \A i \in DOMAIN clients : clients[i].conn # NoConn
    BY ClientType, ConnsAssumption
  <2>2. /\ DOMAIN clients' = DOMAIN clients /\ peer' = peer
        /\ \A i \in DOMAIN clients : clients'[i].fd = clients[i].fd /\ clients'[i].conn = clients[i].conn
    BY <1>6 DEF KKeep
  <2> SUFFICES ASSUME NEW i \in DOMAIN cmd_q' PROVE Issued(cmd_q[i])'
    BY DEF Issuers
  <2>3. CASE \E j \in DOMAIN cmd_q : cmd_q'[i].by = cmd_q[j].by /\ cmd_q'[i].fd = cmd_q[j].fd
    BY <2>2, <2>3 DEF Issuers, Issued
  <2>4. CASE cmd_q'[i].by = NoConn /\ cmd_q'[i].fd = AutoFd
    BY <2>4 DEF Issued
  <2>5. CASE \E j \in DOMAIN clients : /\ cmd_q'[i].by = clients[j].conn
                                       /\ cmd_q'[i].fd = clients[j].fd
    BY <2>1, <2>2, <2>5 DEF Issued
  <2> QED
    BY <1>6, <2>3, <2>4, <2>5 DEF KKeep
<1> QED
  BY <1>1, <1>2, <1>3, <1>4, <1>5, <1>6, ClientsStep

(* The reply to a queued command goes to the client that issued it, or that *)
(* client has closed its connection: a client waiting for an answer is      *)
(* never passed over, although descriptors are reused.                      *)
THEOREM RepliesReachLiveIssuers == Spec => []LiveIssuerGetsReply
<1>1. Init => Issuers
  BY DEF Init, Issuers
<1>2. TypeOK /\ Issuers /\ [Next]_vars => Issuers'
  BY IssuersStep
<1>3. TypeOK /\ Attachment /\ Issuers => LiveIssuerGetsReply
  <2> SUFFICES ASSUME TypeOK, Attachment, Issuers, NEW i \in DOMAIN cmd_q
               PROVE  IF cmd_q[i].by = NoConn THEN cmd_q[i].fd = AutoFd
                      ELSE Owner(cmd_q[i].fd) = cmd_q[i].by \/ peer[cmd_q[i].by] # "open"
    BY DEF LiveIssuerGetsReply
  <2>1. Issued(cmd_q[i])
    BY DEF Issuers
  <2>2. CASE \E j \in DOMAIN clients : clients[j].fd = cmd_q[i].fd /\ clients[j].conn = cmd_q[i].by
    <3>1. PICK j \in DOMAIN clients : clients[j].fd = cmd_q[i].fd /\ clients[j].conn = cmd_q[i].by
      BY <2>2
    <3>2. \A k \in DOMAIN clients : clients[k].fd = cmd_q[i].fd => k = j
      BY <3>1 DEF Attachment, OneDescriptorPerClient
    <3>3. (CHOOSE k \in DOMAIN clients : clients[k].fd = cmd_q[i].fd) = j
      BY <3>1, <3>2
    <3>4. Owner(cmd_q[i].fd) = cmd_q[i].by
      BY <3>1, <3>3 DEF Owner
    <3>5. cmd_q[i].by # NoConn
      BY <3>1, ClientType, ConnsAssumption
    <3> QED
      BY <3>4, <3>5
  <2> QED
    BY <2>1, <2>2 DEF Issued
<1> QED
  BY <1>1, <1>2, <1>3, TypeCorrect, AttachmentInvariant, PTL DEF Spec

-----------------------------------------------------------------------------
(* What select() reported and what is still so. *)

ClientMarks ==
  \A fd \in ready \ LoopFds : \E i \in DOMAIN clients :
    /\ clients[i].fd = fd
    /\ inbox[clients[i].conn] # <<>> \/ peer[clients[i].conn] # "open"

LoopMarks ==
  /\ SigFd \in ready => sig
  /\ TtyFd \in ready => tty # <<>> \/ ~ttyUp
  /\ ListenFd \in ready => backlog # <<>>
  /\ AutoFd \in ready => autoPipe # <<>> \/ ~alive

LEMMA LoopFdsAre == LoopFds = {SigFd, TtyFd, ListenFd, AutoFd}
  BY DEF LoopFds, SigFd, TtyFd, ListenFd, AutoFd

LEMMA ClientFdsApart == ClientFds \cap LoopFds = {}
  BY FdsAssumption DEF LoopFds, SigFd, AutoFd

LEMMA MarksAre == TypeOK => (MarkedStayReadable <=> LoopMarks /\ ClientMarks)
<1> SUFFICES ASSUME TypeOK PROVE MarkedStayReadable <=> LoopMarks /\ ClientMarks
  OBVIOUS
<1>0. \A i \in DOMAIN clients : clients[i].fd \notin LoopFds
  BY ClientType, ClientFdsApart
<1>1. /\ Readable(SigFd) <=> sig
      /\ Readable(TtyFd) <=> tty # <<>> \/ ~ttyUp
      /\ Readable(ListenFd) <=> backlog # <<>>
      /\ Readable(AutoFd) <=> autoPipe # <<>> \/ ~alive
  <2>1. \A fd \in LoopFds : ~\E i \in DOMAIN clients : clients[i].fd = fd
    BY <1>0
  <2>2. SigFd # TtyFd /\ SigFd # ListenFd /\ SigFd # AutoFd /\ TtyFd # ListenFd
          /\ TtyFd # AutoFd /\ ListenFd # AutoFd
    BY DEF SigFd, TtyFd, ListenFd, AutoFd
  <2> QED
    BY <2>1, <2>2, LoopFdsAre DEF Readable
<1>2. \A fd : fd \notin LoopFds =>
        (Readable(fd) <=> \E i \in DOMAIN clients :
           /\ clients[i].fd = fd
           /\ inbox[clients[i].conn] # <<>> \/ peer[clients[i].conn] # "open")
  BY LoopFdsAre DEF Readable
<1>3. (\A fd \in ready \cap LoopFds : Readable(fd)) <=> LoopMarks
  BY <1>1, LoopFdsAre DEF LoopMarks
<1>4. (\A fd \in ready \ LoopFds : Readable(fd)) <=> ClientMarks
  BY <1>2 DEF ClientMarks
<1> QED
  BY <1>3, <1>4 DEF MarkedStayReadable

(* Outside the tests nothing is marked. *)
LEMMA MarksBelongToTests ==
  ASSUME TypeOK, pc # "dispatch"
  PROVE  ready = {}
  BY DEF TypeOK

LEMMA ProcessCmdKeepsClients ==
  ASSUME TypeOK, NEW line, NEW fd, NEW conn, ProcessCmd(line, fd, conn)
  PROVE  /\ DOMAIN clients' = DOMAIN clients
         /\ \A i \in DOMAIN clients : clients'[i].fd = clients[i].fd /\ clients'[i].conn = clients[i].conn
<1>1. CASE ProcessListen(line, fd)
  <2>1. DOMAIN clients' = DOMAIN clients
    BY <1>1 DEF ProcessListen
  <2> SUFFICES ASSUME NEW i \in DOMAIN clients
               PROVE  clients'[i].fd = clients[i].fd /\ clients'[i].conn = clients[i].conn
    BY <2>1
  <2>2. clients[i] \in Client
    BY ClientType
  <2>3. \/ clients'[i] = clients[i]
        \/ clients'[i] = [clients[i] EXCEPT !.listens = Subscribe(@, line.arg)]
    BY <1>1 DEF ProcessListen
  <2> QED
    BY <2>2, <2>3 DEF Client
<1>2. CASE ProcessRequest(line, fd, conn) \/ ProcessOther(line)
  BY <1>2 DEF ProcessRequest, ProcessOther
<1> QED
  BY <1>1, <1>2 DEF ProcessCmd

LEMMA LoopMarksStep ==
  ASSUME TypeOK, LoopMarks, [Next]_vars
  PROVE  LoopMarks'
<1> USE DEF daemon, sockets, serial, child
<1>1. CASE Select
  <2>1. \A fd \in ready' : Readable(fd)
    BY <1>1 DEF Select, ReadableNow
  <2>2. UNCHANGED <<clients, inbox, peer, sig, tty, ttyUp, backlog, autoPipe, alive>>
    BY <1>1 DEF Select
  <2>3. \A i \in DOMAIN clients : clients[i].fd \notin LoopFds
    BY ClientType, ClientFdsApart
  <2>4. SigFd # TtyFd /\ SigFd # ListenFd /\ SigFd # AutoFd /\ TtyFd # ListenFd
          /\ TtyFd # AutoFd /\ ListenFd # AutoFd
    BY DEF SigFd, TtyFd, ListenFd, AutoFd
  <2> QED
    BY <2>1, <2>2, <2>3, <2>4, LoopFdsAre DEF Readable, LoopMarks
<1>2. CASE HandleSignal \/ TtyVanished \/ AcceptFails \/ LoopEnds \/ SelectTimeout
             \/ AutosampleVanished \/ ClientReset
  BY <1>2 DEF HandleSignal, TtyVanished, AcceptFails, LoopEnds, LeaveLoop, SelectTimeout,
     AutosampleVanished, ClientReset, LoopMarks
<1>3. CASE Send \/ Control \/ Reopen
  <2>1. ready = {} /\ ready' = ready
    BY <1>3, MarksBelongToTests DEF Send, Control, Reopen
  <2> QED
    BY <2>1 DEF LoopMarks
<1>4. CASE ProcessTtyLine
  BY <1>4 DEF ProcessTtyLine, LoopMarks, SigFd, TtyFd, ListenFd, AutoFd
<1>5. CASE Accept
  BY <1>5 DEF Accept, LoopMarks, SigFd, TtyFd, ListenFd, AutoFd
<1>6. CASE AutosampleLine
  BY <1>6 DEF AutosampleLine, LoopMarks, SigFd, TtyFd, ListenFd, AutoFd
<1>7. CASE ClientLine \/ ClientClosed
  <2>1. ready' \subseteq ready /\ UNCHANGED <<sig, tty, ttyUp, backlog, autoPipe, alive>>
    BY <1>7 DEF ClientLine, ClientClosed
  <2> QED
    BY <2>1 DEF LoopMarks
<1>8. CASE ChildStep
  <2>1. UNCHANGED <<ready, sig, tty, ttyUp, backlog>>
    BY <1>8 DEF ChildStep, ChildObeys, ChildSamples, ChildDies
  <2>2. autoPipe # <<>> \/ ~alive => autoPipe' # <<>> \/ ~alive'
    <3>1. autoPipe \in Seq(SampleLines)
      BY DEF TypeOK
    <3>2. \A line \in SampleLines : Append(autoPipe, line) # <<>>
      BY <3>1, AppendProperties
    <3> QED
      BY <1>8, <3>2 DEF ChildStep, ChildObeys, ChildSamples, ChildDies
  <2> QED
    BY <2>1, <2>2 DEF LoopMarks
<1>9. CASE FirmwareStep
  <2>1. UNCHANGED <<ready, sig, backlog, autoPipe, alive>>
    BY <1>9 DEF FirmwareStep, FirmwareAnswers, FirmwareSpeaks, Hangup
  <2>2. tty # <<>> \/ ~ttyUp => tty' # <<>> \/ ~ttyUp'
    <3>1. tty \in Seq(FwLine)
      BY DEF TypeOK
    <3>2. CASE FirmwareAnswers
      <4>1. PICK i \in DOMAIN wire : \E kind \in Replies[wire[i].op] :
              tty' = Append(tty, [kind |-> kind, cause |-> wire[i].cause])
        BY <3>2 DEF FirmwareAnswers
      <4>2. PICK line : tty' = Append(tty, line)
        BY <4>1
      <4> QED
        BY <3>1, <4>2
    <3>3. CASE FirmwareSpeaks
      <4>1. PICK line : tty' = Append(tty, line)
        BY <3>3 DEF FirmwareSpeaks
      <4> QED
        BY <3>1, <4>1
    <3>4. CASE Hangup
      BY <3>4 DEF Hangup
    <3> QED
      BY <1>9, <3>2, <3>3, <3>4 DEF FirmwareStep
  <2> QED
    BY <2>1, <2>2 DEF LoopMarks
<1>10. CASE ClientStep
  <2>1. UNCHANGED <<ready, sig, tty, ttyUp, autoPipe, alive>>
    BY <1>10 DEF ClientStep, Connect, WriteLine, ReadLines, Close
  <2>2. backlog # <<>> => backlog' # <<>>
    <3>0. backlog \in Seq(Conns)
      BY DEF TypeOK
    <3>1. \A c \in Conns : Append(backlog, c) # <<>>
      BY <3>0, AppendProperties
    <3> QED
      BY <1>10, <3>1 DEF ClientStep, Connect, WriteLine, ReadLines, Close
  <2> QED
    BY <2>1, <2>2 DEF LoopMarks
<1>11. CASE Idle \/ Terminated \/ Age \/ UNCHANGED vars
  BY <1>11 DEF Idle, Terminated, Age, vars, LoopMarks
<1>12. CASE Signal
  <2>1. ready' = ready /\ (sig => sig') /\ UNCHANGED <<tty, ttyUp, backlog, autoPipe, alive>>
    BY <1>12 DEF Signal
  <2> QED
    BY <2>1 DEF LoopMarks
<1> QED
  BY <1>1, <1>2, <1>3, <1>4, <1>5, <1>6, <1>7, <1>8, <1>9, <1>10, <1>11, <1>12 DEF Next, LoopStep

LEMMA ClientMarksStep ==
  ASSUME TypeOK, Attachment, ClientMarks, [Next]_vars
  PROVE  ClientMarks'
<1> USE DEF daemon, sockets
<1>0. clients \in Seq(Client) /\ Len(clients) \in Nat /\ DOMAIN clients = 1 .. Len(clients)
  BY LenProperties DEF TypeOK
(* What keeps every mark: no client lost, no line taken back. *)
<1>1. ASSUME ready' \subseteq ready,
             \A i \in DOMAIN clients : clients[i].fd \in ready' =>
               /\ \E j \in DOMAIN clients' : /\ clients'[j].fd = clients[i].fd
                                             /\ clients'[j].conn = clients[i].conn
               /\ inbox[clients[i].conn] # <<>> => inbox'[clients[i].conn] # <<>>
               /\ peer[clients[i].conn] # "open" => peer'[clients[i].conn] # "open"
      PROVE  ClientMarks'
  <2> SUFFICES ASSUME NEW fd \in ready' \ LoopFds
               PROVE  \E j \in DOMAIN clients' :
                        /\ clients'[j].fd = fd
                        /\ inbox'[clients'[j].conn] # <<>> \/ peer'[clients'[j].conn] # "open"
    BY DEF ClientMarks
  <2>1. PICK i \in DOMAIN clients :
          /\ clients[i].fd = fd
          /\ inbox[clients[i].conn] # <<>> \/ peer[clients[i].conn] # "open"
    BY <1>1 DEF ClientMarks
  <2>2. PICK j \in DOMAIN clients' :
          clients'[j].fd = clients[i].fd /\ clients'[j].conn = clients[i].conn
    BY <1>1, <2>1
  <2> QED
    BY <1>1, <2>1, <2>2
<1>2. CASE ready' = {}
  BY <1>2 DEF ClientMarks
<1>3. CASE Select
  <2>1. \A fd \in ready' : Readable(fd)
    BY <1>3 DEF Select, ReadableNow
  <2>2. UNCHANGED <<clients, inbox, peer>>
    BY <1>3 DEF Select
  <2>3. \A fd \in ready' \ LoopFds : \E i \in DOMAIN clients :
          /\ clients[i].fd = fd
          /\ inbox[clients[i].conn] # <<>> \/ peer[clients[i].conn] # "open"
    BY <2>1, LoopFdsAre DEF Readable
  <2> QED
    BY <2>2, <2>3 DEF ClientMarks
<1>4. CASE HandleSignal \/ TtyVanished \/ AcceptFails \/ LoopEnds \/ SelectTimeout
             \/ AutosampleVanished \/ ClientReset
  BY <1>2, <1>4 DEF HandleSignal, TtyVanished, AcceptFails, LoopEnds, LeaveLoop, SelectTimeout,
     AutosampleVanished, ClientReset
<1>5. CASE Send \/ Control \/ Reopen
  BY <1>2, <1>5, MarksBelongToTests DEF Send, Control, Reopen
<1>6. CASE Accept
  <2>1. PICK fd \in FreeFds :
          clients' = Append(clients, [fd |-> fd, conn |-> Head(backlog), listens |-> {}])
    BY <1>6 DEF Accept
  <2>2. \A i \in DOMAIN clients : i \in DOMAIN clients' /\ clients'[i] = clients[i]
    BY <1>0, <2>1
  <2>3. ready' \subseteq ready /\ UNCHANGED <<peer, inbox>>
    BY <1>6 DEF Accept
  <2> QED
    BY <1>1, <2>2, <2>3
<1>7. CASE AutosampleLine
  <2>1. /\ DOMAIN clients' = DOMAIN clients
        /\ \A i \in DOMAIN clients : clients'[i].fd = clients[i].fd /\ clients'[i].conn = clients[i].conn
    BY <1>7, ProcessCmdKeepsClients DEF AutosampleLine
  <2>2. ready' \subseteq ready /\ UNCHANGED <<peer, inbox>>
    BY <1>7 DEF AutosampleLine
  <2> QED
    BY <1>1, <2>1, <2>2
<1>8. CASE ClientLine
  <2>1. PICK k \in DOMAIN clients :
          /\ ProcessCmd(Head(inbox[clients[k].conn]), clients[k].fd, clients[k].conn)
          /\ inbox' = [inbox EXCEPT ![clients[k].conn] = Tail(@)]
          /\ ready' = ready \ {clients[k].fd}
    BY <1>8 DEF ClientLine
  <2>2. /\ DOMAIN clients' = DOMAIN clients
        /\ \A i \in DOMAIN clients : clients'[i].fd = clients[i].fd /\ clients'[i].conn = clients[i].conn
    BY <2>1, ProcessCmdKeepsClients
  <2>3. \A i \in DOMAIN clients : clients[i].fd \in ready' => i # k
    BY <2>1
  <2>4. \A i \in DOMAIN clients : i # k => clients[i].conn # clients[k].conn
    BY DEF Attachment, OneDescriptorPerClient
  <2>5. \A c \in Conns : c # clients[k].conn => inbox'[c] = inbox[c]
    BY <2>1 DEF TypeOK
  <2>6. peer' = peer
    BY <1>8 DEF ClientLine
  <2>7. \A i \in DOMAIN clients : clients[i].fd \in ready' => inbox'[clients[i].conn] = inbox[clients[i].conn]
    BY <2>3, <2>4, <2>5, ClientType
  <2> QED
    BY <1>1, <2>1, <2>2, <2>6, <2>7
<1>9. CASE ClientClosed
  <2>1. PICK k \in DOMAIN clients :
          clients' = Without(clients, k) /\ ready' = ready \ {clients[k].fd}
    BY <1>9 DEF ClientClosed
  <2>2. /\ DOMAIN clients' = 1 .. Len(clients) - 1
        /\ \A j \in DOMAIN clients' : clients'[j] = IF j < k THEN clients[j] ELSE clients[j + 1]
    BY <1>0, <2>1, WithoutProperties
  <2>3. \A i \in DOMAIN clients : i # k => \E j \in DOMAIN clients' : clients'[j] = clients[i]
    <3> SUFFICES ASSUME NEW i \in DOMAIN clients, i # k
                 PROVE  \E j \in DOMAIN clients' : clients'[j] = clients[i]
      OBVIOUS
    <3>1. CASE i < k
      <4>1. i \in DOMAIN clients' /\ clients'[i] = clients[i]
        BY <1>0, <2>2, <3>1
      <4> QED
        BY <4>1
    <3>2. CASE i > k
      <4>1. i - 1 \in DOMAIN clients' /\ clients'[i - 1] = clients[i]
        BY <1>0, <2>2, <3>2
      <4> QED
        BY <4>1
    <3> QED
      BY <1>0, <3>1, <3>2
  <2>4. \A i \in DOMAIN clients : clients[i].fd \in ready' => i # k
    BY <2>1
  <2>5. ready' \subseteq ready /\ UNCHANGED <<peer, inbox>>
    BY <1>9 DEF ClientClosed
  <2> QED
    BY <1>1, <2>3, <2>4, <2>5
<1>10. CASE ProcessTtyLine \/ Age \/ Idle \/ Terminated \/ Signal \/ FirmwareStep \/ ChildStep
              \/ UNCHANGED vars \/ \E c \in Conns : ReadLines(c)
  <2>1. ready' \subseteq ready /\ UNCHANGED <<clients, inbox, peer>>
    BY <1>10 DEF ProcessTtyLine, Age, Idle, Terminated, Signal, FirmwareStep, FirmwareAnswers,
       FirmwareSpeaks, Hangup, ChildStep, ChildObeys, ChildSamples, ChildDies, ReadLines, vars
  <2> QED
    BY <1>1, <2>1
<1>11. ASSUME NEW c \in Conns, Connect(c)
       PROVE  ClientMarks'
  <2>1. UNCHANGED <<ready, clients, inbox>> /\ peer[c] = "new" /\ peer' = [peer EXCEPT ![c] = "open"]
    BY <1>11 DEF Connect
  <2>2. \A i \in DOMAIN clients : clients[i].conn # c
    BY <2>1 DEF Attachment
  <2>3. \A i \in DOMAIN clients : peer'[clients[i].conn] = peer[clients[i].conn]
    BY <2>1, <2>2, ClientType DEF TypeOK
  <2> QED
    BY <1>1, <2>1, <2>3
<1>12. ASSUME NEW c \in Conns, WriteLine(c)
       PROVE  ClientMarks'
  <2>1. PICK line \in Lines : inbox' = [inbox EXCEPT ![c] = Append(@, line)]
    BY <1>12 DEF WriteLine
  <2>2. UNCHANGED <<ready, clients, peer>>
    BY <1>12 DEF WriteLine
  <2>3. inbox[c] \in Seq(Lines)
    BY DEF TypeOK
  <2>4. Append(inbox[c], line) # <<>>
    BY <2>3, AppendProperties
  <2>5. \A d \in Conns : inbox[d] # <<>> => inbox'[d] # <<>>
    BY <2>1, <2>4 DEF TypeOK
  <2> QED
    BY <1>1, <2>2, <2>5, ClientType
<1>13. ASSUME NEW c \in Conns, Close(c)
       PROVE  ClientMarks'
  <2>1. UNCHANGED <<ready, clients, inbox>>
    BY <1>13 DEF Close
  <2>2. \A d \in Conns : peer'[d] = peer[d] \/ peer'[d] \in {"closed", "reset"}
    BY <1>13 DEF Close, TypeOK
  <2> QED
    BY <1>1, <2>1, <2>2, ClientType
<1> QED
  BY <1>3, <1>4, <1>5, <1>6, <1>7, <1>8, <1>9, <1>10, <1>11, <1>12, <1>13
  DEF Next, LoopStep, ClientStep

(* What select() reported of a descriptor is still so when its turn comes,  *)
(* however many clients were removed, accepted or heard in between.         *)
THEOREM MarksStayTrue == Spec => []MarkedStayReadable
<1>1. Init => MarkedStayReadable
  BY DEF Init, MarkedStayReadable
<1>2. (TypeOK => (MarkedStayReadable <=> LoopMarks /\ ClientMarks))'
  BY MarksAre, PTL
<1>3. TypeOK /\ Attachment /\ MarkedStayReadable /\ [Next]_vars => MarkedStayReadable'
  <2> SUFFICES ASSUME TypeOK, Attachment, MarkedStayReadable, [Next]_vars
               PROVE  MarkedStayReadable'
    OBVIOUS
  <2>1. LoopMarks /\ ClientMarks
    BY MarksAre
  <2>2. LoopMarks' /\ ClientMarks'
    BY <2>1, LoopMarksStep, ClientMarksStep
  <2>3. TypeOK'
    BY TypeStep
  <2> QED
    BY <1>2, <2>2, <2>3
<1> QED
  BY <1>1, <1>3, TypeCorrect, AttachmentInvariant, PTL DEF Spec

=============================================================================
