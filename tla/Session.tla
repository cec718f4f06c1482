------------------------------ MODULE Session ------------------------------
(***************************************************************************)
(* Connections, sessions and failures: the server program, the app on the  *)
(* phones, and what TCP does between them.  The server gives the           *)
(* parameters to its first connection; every later one is a localization,  *)
(* at the end of which the phone sends its benchmark values for the log.   *)
(* A localization is reduced to the blocks that decide who waits for whom. *)
(*                                                                         *)
(* The connection is a stream of blocks.  recv takes as many as it was     *)
(* asked for, whatever they are; it returns 0 for ever once the peer has   *)
(* closed (the loop of recv_all then never ends), and an error after a     *)
(* reset (nobody catches the exception: the program ends).                 *)
(***************************************************************************)
EXTENDS Integers, Sequences, FiniteSets

CONSTANTS
    Phones,
    Protocols,      \* protocol numbers the server may have been started with
    Faults,         \* what may happen: a subset of {"kill", "log", "restart"}
    MaxTasks,       \* bound: localizations each phone starts
    MaxLaunches,    \* bound: onCreate calls of the app of each phone
    MaxRestarts     \* bound: restarts of the server

ASSUME ParameterAssumption ==
    /\ Protocols \subseteq {0, 1}
    /\ Faults \subseteq {"kill", "log", "restart"}
    /\ MaxTasks \in [Phones -> Nat] /\ MaxLaunches \in [Phones -> Nat]
    /\ MaxRestarts \in Nat

\* listen(serversocket, 1): the kernel queues one connection more than that.
Backlog == 2

Side == {"server", "phone"}
Other(side) == IF side = "server" THEN "phone" ELSE "server"

\* A phone may connect again before the server has closed, or even accepted, its
\* earlier connections: one is the server's session and one more is queued.
Sockets == Phones \X (0 .. Backlog)

-----------------------------------------------------------------------------
(* Scripts *)

Send(kind) == [dir |-> "send", kind |-> kind]
Recv(kind) == [dir |-> "recv", kind |-> kind]

\* Blocks of 16 bytes: M and N are two each, both seeds are one each, the 33
\* benchmark values of three bytes take seven.  "keys" and "results" stand for
\* all the circuit's messages in one direction: more than any of the others.
Blocks == [M |-> 2, N |-> 2, lkp |-> 3, seeds |-> 2, keys |-> 8, results |-> 8,
           log |-> 7]

ServerParameters == <<Send("M"), Send("N"), Send("lkp")>>
PhoneParameters_MOnly == <<Recv("M")>>
PhoneParameters == <<Recv("M"), Recv("N"), Recv("lkp")>>

\* With protocol 1 both sides start with the seeds of AEnv.
Seeds(p) == IF p = 0 THEN <<>> ELSE <<Send("seeds"), Recv("seeds")>>
ServerLocalization_LogFirst(p) ==
    Seeds(p) \o <<Recv("keys"), Recv("log"), Send("results")>>
ServerLocalization(p) == Seeds(p) \o <<Recv("keys"), Send("results"), Recv("log")>>
PhoneLocalization_NoLog(p) == Seeds(p) \o <<Send("keys"), Recv("results")>>
PhoneLocalization(p) == Seeds(p) \o <<Send("keys"), Recv("results"), Send("log")>>

-----------------------------------------------------------------------------
VARIABLES
    protocolNum,
    server,    \* stage, first connection?, script position, listening socket,
               \* its queue, the accepted socket, restarts
    phone,     \* phone[p]: task, script position (0: connect), parameters
               \* known?, socket, tasks and launches so far, and
               \* whether this task has read other blocks than it meant
    conn,      \* conn[s]: unread blocks and open ends of a connection, reset?
    faults     \* history: what has gone wrong so far

vars == <<protocolNum, server, phone, conn, faults>>

NoConnection ==
    [inbox |-> [x \in Side |-> <<>>], open |-> [x \in Side |-> FALSE], reset |-> FALSE]

NewServer(restarts) ==
    [stage |-> "off", first |-> TRUE, step |-> 1, listening |-> FALSE,
     queue |-> <<>>, peer |-> <<>>, restarts |-> restarts]

Init ==
    /\ protocolNum \in Protocols
    /\ server = NewServer(0)
    /\ phone = [p \in Phones |->
                  [task |-> "off", step |-> 0, settings |-> FALSE, slot |-> 0,
                   tasks |-> 0, launches |-> 0, misread |-> FALSE]]
    /\ conn = [s \in Sockets |-> NoConnection]
    /\ faults = {}

-----------------------------------------------------------------------------
(* TCP *)

Copies(kind) == [k \in 1 .. Blocks[kind] |-> kind]
FirstBlocks(c, side, kind) == SubSeq(c.inbox[side], 1, Blocks[kind])

\* To a closed peer nothing is delivered, and a reset comes back.
Sent(c, side, kind) ==
    IF c.open[Other(side)]
    THEN [c EXCEPT !.inbox[Other(side)] = @ \o Copies(kind)]
    ELSE [c EXCEPT !.reset = TRUE]

Enough(c, side, kind) == Len(c.inbox[side]) >= Blocks[kind]
Taken(c, side, kind) ==
    [c EXCEPT !.inbox[side] = SubSeq(@, Blocks[kind] + 1, Len(@))]

\* Closing with unread data resets the connection; it is gone with its last end.
Closed(c, side) ==
    IF ~c.open[Other(side)] THEN NoConnection
    ELSE [c EXCEPT !.open[side] = FALSE, !.inbox[side] = <<>>,
                   !.reset = @ \/ c.inbox[side] # <<>>]
\* What becomes of a connection when its listening socket is closed.
Dropped(c) ==
    IF ~c.open["phone"] THEN NoConnection
    ELSE [Closed(c, "server") EXCEPT !.reset = TRUE]
\* A program that ends in recv may have taken the unread blocks already.
Ended(c, side) == {Closed(c, side), Closed([c EXCEPT !.inbox[side] = <<>>], side)}

\* What a blocking call that cannot go on makes of the program, if anything.
RecvFails(c, side, kind) ==
    ~Enough(c, side, kind) /\ (c.reset \/ ~c.open[Other(side)])
AfterFailure(c) == IF c.reset THEN "dead" ELSE "spinning"

-----------------------------------------------------------------------------
(* Server *)

ServerScript ==
    IF server.first THEN ServerParameters ELSE ServerLocalization(protocolNum)
ServerStep == ServerScript[server.step]
ServerAt(dir) ==
    /\ server.stage = "session" /\ server.step <= Len(ServerScript)
    /\ ServerStep.dir = dir
Peer == conn[server.peer]
InQueue(s) == \E k \in DOMAIN server.queue : server.queue[k] = s

Listen ==
    /\ server.stage = "off"
    /\ server' = [server EXCEPT !.stage = "accepting", !.listening = TRUE]
    /\ UNCHANGED <<protocolNum, phone, conn, faults>>

\* The first connection is taken for a phone that asks for the parameters, any
\* other one for a localization; "early" is the localization of a phone that has
\* its parameters from before a restart.
Accept ==
    /\ server.stage = "accepting" /\ server.queue # <<>>
    /\ LET s == Head(server.queue)  task == phone[s[1]].task
       IN  /\ server' = [server EXCEPT !.stage = "session", !.step = 1,
                                       !.queue = Tail(@), !.peer = s]
           /\ faults' = faults
                \cup (IF ~server.first /\ task = "setup" THEN {"setup"} ELSE {})
                \cup (IF server.first /\ server.restarts > 0 /\ task = "localize" THEN {"early"} ELSE {})
    /\ UNCHANGED <<protocolNum, phone, conn>>

ServerSend ==
    /\ ServerAt("send") /\ ~Peer.reset
    /\ conn' = [conn EXCEPT ![server.peer] = Sent(@, "server", ServerStep.kind)]
    /\ server' = [server EXCEPT !.step = @ + 1]
    /\ UNCHANGED <<protocolNum, phone, faults>>

ServerRecv ==
    /\ ServerAt("recv") /\ Enough(Peer, "server", ServerStep.kind)
    /\ conn' = [conn EXCEPT ![server.peer] = Taken(@, "server", ServerStep.kind)]
    /\ server' = [server EXCEPT !.step = @ + 1]
    /\ UNCHANGED <<protocolNum, phone, faults>>

\* After a parameter or localization connection the listening socket is closed
\* first; connections still in its queue are reset.
CloseListener ==
    /\ server.stage = "session" /\ server.step > Len(ServerScript)
    /\ conn' = [s \in Sockets |-> IF InQueue(s)
                  THEN Dropped(conn[s]) ELSE conn[s]]
    /\ faults' = IF server.queue # <<>> THEN faults \cup {"dropped"} ELSE faults
    /\ server' = [server EXCEPT !.stage = "closing", !.listening = FALSE, !.queue = <<>>]
    /\ UNCHANGED <<protocolNum, phone>>

CloseConnection_Again ==
    /\ server.stage = "closing"
    /\ conn' = [conn EXCEPT ![server.peer] = Closed(@, "server")]
    /\ server' = [server EXCEPT !.stage = "off", !.peer = <<>>]
    /\ UNCHANGED <<protocolNum, phone, faults>>

CloseConnection ==
    /\ server.stage = "closing"
    /\ conn' = [conn EXCEPT ![server.peer] = Closed(@, "server")]
    /\ server' = [server EXCEPT !.stage = "off", !.first = FALSE, !.peer = <<>>]
    /\ UNCHANGED <<protocolNum, phone, faults>>

\* The kernel closes everything an ended server had open.
ServerEnds(next, fault) ==
    /\ conn' = [s \in Sockets |->
                  CASE InQueue(s) -> Dropped(conn[s])
                    [] s = server.peer -> Closed(conn[s], "server")
                    [] OTHER -> conn[s]]
    /\ faults' = faults \cup fault
                   \cup (IF server.queue # <<>> THEN {"dropped"} ELSE {})
    /\ server' = next
    /\ UNCHANGED <<protocolNum, phone>>
ServerDies(fault) ==
    ServerEnds([NewServer(server.restarts) EXCEPT !.stage = "dead"], fault)

\* recv without enough data from a peer that is gone, or send after a reset.
ServerFails ==
    \/ /\ ServerAt("recv") /\ RecvFails(Peer, "server", ServerStep.kind)
       /\ \/ AfterFailure(Peer) = "dead" /\ ServerDies({})
          \/ /\ AfterFailure(Peer) = "spinning"
             /\ server' = [server EXCEPT !.stage = "spinning"]
             /\ UNCHANGED <<protocolNum, phone, conn, faults>>
    \/ ServerAt("send") /\ Peer.reset /\ ServerDies({})

\* storeLog throws when it cannot open its file, after it has read the values
\* (they stay unread here, but the phone reads nothing more and cannot tell).
LogFails ==
    /\ "log" \in Faults
    /\ ServerAt("recv") /\ ServerStep.kind = "log" /\ Enough(Peer, "server", "log")
    /\ ServerDies({"log"})

Server == Listen \/ Accept \/ ServerSend \/ ServerRecv \/ CloseListener
          \/ CloseConnection \/ ServerFails

\* The operator stops the server if it is still there, and starts it again.
Restart ==
    /\ "restart" \in Faults /\ server.restarts < MaxRestarts
    /\ server.stage # "off"
    /\ ServerEnds(NewServer(server.restarts + 1),
                  IF server.stage = "session" THEN {"stopped"} ELSE {})

-----------------------------------------------------------------------------
(* Phone *)

Socket(p) == <<p, phone[p].slot>>
InNative(p) == phone[p].task \in {"setup", "localize"}
PhoneScript(p) ==
    IF phone[p].task = "setup" THEN PhoneParameters ELSE PhoneLocalization(protocolNum)
PhoneStep(p) == PhoneScript(p)[phone[p].step]
PhoneAt(p, dir) ==
    /\ InNative(p) /\ phone[p].step \in DOMAIN PhoneScript(p)
    /\ PhoneStep(p).dir = dir

\* onCreate runs SetupTask and waits for it: at the start of the app, and again
\* whenever the activity is created anew.
Launch(p) ==
    /\ phone[p].task \in {"off", "idle"} /\ phone[p].launches < MaxLaunches[p]
    /\ phone' = [phone EXCEPT ![p].task = "setup", ![p].step = 0,
                              ![p].settings = FALSE, ![p].misread = FALSE,
                              ![p].launches = @ + 1]
    /\ UNCHANGED <<protocolNum, server, conn, faults>>

\* A button runs PPILTask with the parameters of the last onCreate.
Localize(p) ==
    /\ phone[p].task = "idle" /\ phone[p].settings /\ phone[p].tasks < MaxTasks[p]
    /\ phone' = [phone EXCEPT ![p].task = "localize", ![p].step = 0,
                              ![p].misread = FALSE, ![p].tasks = @ + 1]
    /\ UNCHANGED <<protocolNum, server, conn, faults>>

HasRoom_Unlimited == TRUE
HasRoom == Len(server.queue) < Backlog

Free(s) == conn[s] = NoConnection

\* The connect loop ends as soon as there is a listening socket with room in its
\* queue, whatever the server is doing.
Connect(p) ==
    /\ InNative(p) /\ phone[p].step = 0
    /\ server.listening /\ HasRoom
    /\ LET slot == CHOOSE k \in 0 .. Backlog : Free(<<p, k>>)
       IN  /\ conn' = [conn EXCEPT ![<<p, slot>>].open = [x \in Side |-> TRUE]]
           /\ server' = [server EXCEPT !.queue = Append(@, <<p, slot>>)]
           /\ phone' = [phone EXCEPT ![p].slot = slot, ![p].step = 1]
    /\ UNCHANGED <<protocolNum, faults>>

PhoneSend(p) ==
    /\ PhoneAt(p, "send") /\ ~conn[Socket(p)].reset
    /\ conn' = [conn EXCEPT ![Socket(p)] = Sent(@, "phone", PhoneStep(p).kind)]
    /\ phone' = [phone EXCEPT ![p].step = @ + 1]
    /\ UNCHANGED <<protocolNum, server, faults>>

PhoneRecv(p) ==
    /\ PhoneAt(p, "recv") /\ Enough(conn[Socket(p)], "phone", PhoneStep(p).kind)
    /\ LET kind == PhoneStep(p).kind
           taken == FirstBlocks(conn[Socket(p)], "phone", kind)
       IN  /\ conn' = [conn EXCEPT ![Socket(p)] = Taken(@, "phone", kind)]
           /\ phone' = [phone EXCEPT ![p].step = @ + 1,
                          ![p].misread = @ \/ taken # Copies(kind)]
    /\ UNCHANGED <<protocolNum, server, faults>>

\* The native function returns and its channel is destroyed.
Return(p) ==
    /\ InNative(p) /\ phone[p].step = Len(PhoneScript(p)) + 1
    /\ conn' = [conn EXCEPT ![Socket(p)] = Closed(@, "phone")]
    /\ phone' = [phone EXCEPT ![p].task = "idle", ![p].settings = TRUE]
    /\ UNCHANGED <<protocolNum, server, faults>>

PhoneFails(p) ==
    LET c == conn[Socket(p)]
        failed == IF PhoneAt(p, "recv") THEN AfterFailure(c) ELSE "dead"
    IN  /\ \/ PhoneAt(p, "recv") /\ RecvFails(c, "phone", PhoneStep(p).kind)
           \/ PhoneAt(p, "send") /\ c.reset
        /\ phone' = [phone EXCEPT ![p].task = failed]
        /\ conn' = IF failed = "dead"
                   THEN [conn EXCEPT ![Socket(p)] = Closed(@, "phone")] ELSE conn
        /\ UNCHANGED <<protocolNum, server, faults>>

Phone(p) == Connect(p) \/ PhoneSend(p) \/ PhoneRecv(p) \/ Return(p) \/ PhoneFails(p)

\* The user or the system ends the app; a dead one is removed the same way.
Kill(p) ==
    /\ "kill" \in Faults /\ phone[p].task # "off" /\ phone[p].launches < MaxLaunches[p]
    /\ phone' = [phone EXCEPT ![p].task = "off", ![p].step = 0, ![p].settings = FALSE]
    /\ \E c \in Ended(conn[Socket(p)], "phone") :
          conn' = IF conn[Socket(p)].open["phone"]
                  THEN [conn EXCEPT ![Socket(p)] = c] ELSE conn
    /\ faults' = IF phone[p].task \in {"setup", "localize"}
                 THEN faults \cup {"kill"} ELSE faults
    /\ UNCHANGED <<protocolNum, server>>

Next ==
    \/ Server \/ LogFails \/ Restart
    \/ \E p \in Phones : Phone(p) \/ Launch(p) \/ Localize(p) \/ Kill(p)

Spec == Init /\ [][Next]_vars

\* The server is one thread, and so is a task of the app; both go on whenever
\* the call they are in can return.  Nobody has to press a button.
FairSpec == Spec /\ WF_vars(Server) /\ \A p \in Phones : WF_vars(Phone(p))

-----------------------------------------------------------------------------
(* Properties *)

Kinds == DOMAIN Blocks
ConnectionType ==
    [inbox : [Side -> Seq(Kinds)], open : [Side -> BOOLEAN], reset : BOOLEAN]

\* A queue is never longer than the backlog, and exists only while there is a
\* listening socket; a socket belongs to one session or one place in the queue.
TypeOK ==
    /\ server.stage \in {"off", "accepting", "session", "closing", "spinning", "dead"}
    /\ \A p \in Phones : phone[p].task \in
          {"off", "setup", "idle", "localize", "spinning", "dead"}
    /\ conn \in [Sockets -> ConnectionType]
    /\ Len(server.queue) <= Backlog /\ (server.queue # <<>> => server.listening)
    /\ \A k, m \in DOMAIN server.queue :
          /\ k # m => server.queue[k] # server.queue[m]
          /\ server.queue[k] \in Sockets \ {server.peer}

\* Whatever restarts, crashes and second onCreate calls happen: a task that reads
\* other bytes than it means to (the seeds of protocol 1 as M, M as the seeds)
\* never returns, so that the app neither keeps such parameters nor shows such a
\* result: it runs out of bytes before.
NothingMistaken == \A p \in Phones : phone[p].task = "idle" => ~phone[p].misread

\* The server only ends or spins when a phone was killed in the middle of a
\* task or the log could not be opened; connections that it resets by closing
\* its listening socket, and phones that end because of it, do not harm it.
ServerSurvives ==
    server.stage \in {"dead", "spinning"} => faults \cap {"kill", "log"} # {}

\* A phone only crashes or spins when it was waiting in the queue of a listening
\* socket that was closed, when the operator stopped the server in the middle of
\* a session, or when a restarted server took its localization for a request for
\* the parameters; a server that ends after a failed log, or because another
\* phone was killed, harms it in no other way.
PhoneSurvives ==
    \A p \in Phones : phone[p].task \in {"dead", "spinning"} =>
        faults \cap {"stopped", "dropped", "early"} # {}

\* As long as nothing has gone wrong, no other phone's request for parameters has
\* been taken for a localization and no queued connection been reset, every
\* localization returns: the server is there again for the next one.
Answered ==
    \A p \in Phones :
        phone[p].task = "localize" ~> phone[p].task = "idle" \/ faults # {}

\* A phone that asks for the parameters, as every start of the app does, gets
\* them.  (The server serves only the first connection: the second start waits
\* for the parameters, and the server for the phone's part of a localization.)
SetupAnswered == \A p \in Phones : phone[p].task = "setup" ~> phone[p].task = "idle"
=============================================================================
