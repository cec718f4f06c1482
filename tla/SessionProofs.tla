--------------------------- MODULE SessionProofs ---------------------------
(***************************************************************************)
(* Proofs about connections and failures for every number of phones,       *)
(* launches, localizations and restarts: what ends or hangs the server or  *)
(* a phone, and that no task returns with another message's bytes.         *)
(***************************************************************************)
EXTENDS Session, SequenceTheorems, TLAPS

-----------------------------------------------------------------------------
(* Positions in the scripts *)

\* The tables are about protocol number n, a phone in a task, and a server that
\* serves a connection as if its phone was in the task "served".
Task == {"setup", "localize"}
ServerScriptFor(n, served) == IF served = "setup" THEN ServerParameters ELSE ServerLocalization(n)
PhoneScriptFor(n, task) ==
    IF task = "setup" THEN PhoneParameters ELSE PhoneLocalization(n)

ServerStepFor(n, served, j) == ServerScriptFor(n, served)[j]
PhoneStepFor(n, task, i) == PhoneScriptFor(n, task)[i]

\* The position after the last step, in the scripts of both sides.
End(n, task) == IF task = "setup" \/ n = 0 THEN 4 ELSE 6

\* Blocks each side has sent and taken before a position of its script.
ServerSent(n, served, j) ==
    IF served = "setup" THEN <<0, 2, 4, 7>>[j]
    ELSE IF n = 0 THEN <<0, 0, 8, 8>>[j] ELSE <<0, 2, 2, 2, 10, 10>>[j]
ServerTook(n, served, j) ==
    IF served = "setup" THEN 0
    ELSE IF n = 0 THEN <<0, 8, 8, 15>>[j] ELSE <<0, 0, 2, 10, 10, 17>>[j]
PhoneSent(n, task, i) ==
    IF task = "setup" THEN 0
    ELSE IF n = 0 THEN <<0, 8, 8, 15>>[i] ELSE <<0, 2, 2, 10, 10, 17>>[i]
PhoneTook(n, task, i) ==
    IF task = "setup" THEN <<0, 2, 4, 7>>[i]
    ELSE IF n = 0 THEN <<0, 0, 8, 8>>[i] ELSE <<0, 0, 2, 2, 10, 10>>[i]

\* The kind of the b-th block the server sends.
Name(n, served, b) ==
    IF served = "setup" THEN (IF b <= 2 THEN "M" ELSE IF b <= 4 THEN "N" ELSE "lkp")
    ELSE IF n = 1 /\ b <= 2 THEN "seeds" ELSE "results"

\* The blocks of one kind that begin after the first "from" ones.
Named(n, served, from, kind) ==
    \A b \in 1 .. Blocks[kind] : Name(n, served, from + b) = kind

-----------------------------------------------------------------------------
(* The invariant *)

\* What is unread in a connection whose phone is, or was, at step i of a task
\* and whose server is, or was, at step j of one of its two scripts.
Exchange(n, c, task, i, served, j) ==
    /\ PhoneTook(n, task, i) <= ServerSent(n, served, j)
    /\ ServerTook(n, served, j) <= PhoneSent(n, task, i)
    /\ c.open["phone"] =>
          /\ Len(c.inbox["phone"]) = ServerSent(n, served, j) - PhoneTook(n, task, i)
          /\ \A b \in 1 .. Len(c.inbox["phone"]) :
                c.inbox["phone"][b] = Name(n, served, PhoneTook(n, task, i) + b)
    /\ c.open["server"] =>
          Len(c.inbox["server"]) = PhoneSent(n, task, i) - ServerTook(n, served, j)
    /\ c.reset => ~(c.open["phone"] /\ c.open["server"])

\* No phone was killed in a task and no log failed; the server was not stopped,
\* no connection dropped, no localization taken for a request for parameters.
PhonesStay == faults \cap {"kill", "log"} = {}
ServerStays == faults \cap {"stopped", "dropped", "early"} = {}

\* Whose the open ends are, ...
PhoneHolds(s, task, i, served) ==
    /\ s[2] = phone[s[1]].slot /\ phone[s[1]].step = i
    /\ \/ phone[s[1]].task = task
       \/ phone[s[1]].task = "spinning" /\ ~conn[s].open["server"]
    /\ phone[s[1]].misread =>
          PhoneTook(protocolNum, task, i) > 0 /\ task # served
Serving == IF server.first THEN "setup" ELSE "localize"
ServerHolds(s, served, j) ==
    \/ InQueue(s) /\ j = 1
    \/ s = server.peer /\ served = Serving /\ j = server.step

\* ... and how the other ones were closed.
PhoneLeft(task, i) == PhonesStay => i = End(protocolNum, task)
ServerLeft(task, i, served, j) ==
    ServerStays => IF served = "setup" THEN j = End(protocolNum, served)
                            ELSE i = End(protocolNum, task)
Matched(task, served) == ServerStays /\ served = "setup" => task = "setup"

History(s, task, i, served, j) ==
    /\ Exchange(protocolNum, conn[s], task, i, served, j)
    /\ conn[s].open["phone"] => PhoneHolds(s, task, i, served)
    /\ conn[s].open["server"] => ServerHolds(s, served, j)
    /\ ~conn[s].open["phone"] => PhoneLeft(task, i)
    /\ conn[s].open["phone"] /\ ~conn[s].open["server"] => ServerLeft(task, i, served, j)
    /\ conn[s].open["phone"] /\ ~InQueue(s) => Matched(task, served)

At(n, task, i, served, j) ==
    /\ n \in {0, 1} /\ task \in Task /\ served \in Task
    /\ i \in 1 .. End(n, task) /\ j \in 1 .. End(n, served)
Linked(s) ==
    \/ conn[s] = NoConnection
    \/ /\ conn[s].open["phone"] \/ conn[s].open["server"]
       /\ \E task, i, served, j :
             At(protocolNum, task, i, served, j) /\ History(s, task, i, served, j)

PhoneType ==
    [task : {"off", "setup", "idle", "localize", "spinning", "dead"}, step : 0 .. 6,
     settings : BOOLEAN, slot : 0 .. Backlog, tasks : Nat, launches : Nat,
     misread : BOOLEAN]
ServerType ==
    [stage : {"off", "accepting", "session", "closing", "spinning", "dead"},
     first : BOOLEAN, step : 1 .. 6, listening : BOOLEAN, queue : Seq(Sockets),
     peer : Sockets \cup {<<>>}, restarts : Nat]
Types ==
    /\ protocolNum \in {0, 1}
    /\ server \in ServerType
    /\ phone \in [Phones -> PhoneType]
    /\ conn \in [Sockets -> ConnectionType]

InSession == server.stage \in {"session", "closing", "spinning"}
Served ==
    /\ Len(server.queue) <= Backlog
    /\ server.queue # <<>> => server.listening
    /\ server.listening <=> server.stage \in {"accepting", "session", "spinning"}
    /\ \A k, m \in DOMAIN server.queue : k # m => server.queue[k] # server.queue[m]
    /\ \A k \in DOMAIN server.queue :
          server.queue[k] # server.peer /\ conn[server.queue[k]].open["server"]
    /\ IF InSession THEN server.peer \in Sockets /\ conn[server.peer].open["server"]
                          /\ server.step <= End(protocolNum, Serving)
                    ELSE server.peer = <<>>
    /\ server.stage = "closing" => server.step = End(protocolNum, Serving)
    /\ server.stage = "spinning" => ~conn[server.peer].open["phone"]
    /\ server.stage \in {"dead", "spinning"} => ~PhonesStay

\* Nobody has parameters before the server's first connection.
FirstServed ==
    server.first /\ server.restarts = 0 /\ server.stage \in {"off", "accepting"} =>
        /\ \A p \in Phones : phone[p].task \notin {"idle", "localize"}
        /\ \A s \in Sockets : conn[s].open["phone"] => conn[s].open["server"]

Connected(p) ==
    /\ phone[p].task \in Task /\ phone[p].step > 0 => conn[Socket(p)].open["phone"]
    /\ phone[p].task \in Task /\ phone[p].step > 0 =>
          phone[p].step <= End(protocolNum, phone[p].task)
    /\ phone[p].task \in Task /\ phone[p].step = 0 => ~phone[p].misread
    /\ phone[p].task = "idle" => ~phone[p].misread
    /\ phone[p].task \in {"dead", "spinning"} => ~ServerStays

IInv ==
    /\ Types /\ Served /\ FirstServed
    /\ \A s \in Sockets : Linked(s)
    /\ \A p \in Phones : Connected(p)

-----------------------------------------------------------------------------
(* The tables *)

LEMMA Prefixed ==
    ASSUME NEW S, NEW s \in Seq(S), NEW t \in Seq(S), NEW m \in Nat, Len(s) = m
    PROVE  /\ Len(s \o t) = m + Len(t)
           /\ \A k \in 1 .. m : (s \o t)[k] = s[k]
           /\ \A k \in 1 .. Len(t) : (s \o t)[m + k] = t[k]
<1>1. /\ Len(s \o t) = Len(s) + Len(t) /\ Len(t) \in Nat
      /\ \A k \in 1 .. Len(s) + Len(t) :
            (s \o t)[k] = IF k <= Len(s) THEN s[k] ELSE t[k - Len(s)]
  BY ConcatProperties, LenProperties
<1>2. \A k \in 1 .. Len(t) : m + k \in 1 .. m + Len(t) /\ ~(m + k <= m) /\ (m + k) - m = k
  BY <1>1
<1>3. \A k \in 1 .. m : k \in 1 .. m + Len(t)
  BY <1>1
<1> QED  BY <1>1, <1>2, <1>3

\* The localization of protocol number n, for the phone and for the server.
LEMMA WithSeeds ==
    ASSUME NEW n \in {0, 1}, NEW S, NEW x \in S, NEW y \in S, NEW z \in S,
           NEW k, k = Len(Seeds(n)) + 4, Send("seeds") \in S, Recv("seeds") \in S
    PROVE  /\ k = (IF n = 0 THEN 4 ELSE 6) /\ Len(Seeds(n) \o <<x, y, z>>) + 1 = k
           /\ DOMAIN (Seeds(n) \o <<x, y, z>>) = 1 .. Len(Seeds(n) \o <<x, y, z>>)
           /\ n = 0 => /\ (Seeds(n) \o <<x, y, z>>)[1] = x
                       /\ (Seeds(n) \o <<x, y, z>>)[2] = y
                       /\ (Seeds(n) \o <<x, y, z>>)[3] = z
           /\ n = 1 => /\ (Seeds(n) \o <<x, y, z>>)[1] = Send("seeds")
                       /\ (Seeds(n) \o <<x, y, z>>)[2] = Recv("seeds")
                       /\ (Seeds(n) \o <<x, y, z>>)[3] = x
                       /\ (Seeds(n) \o <<x, y, z>>)[4] = y
                       /\ (Seeds(n) \o <<x, y, z>>)[5] = z
<1>1. PICK t : t = <<x, y, z>>
  OBVIOUS
<1>2. t \in Seq(S) /\ Len(t) = 3 /\ t[1] = x /\ t[2] = y /\ t[3] = z
  BY <1>1
<1>5. DOMAIN (Seeds(n) \o <<x, y, z>>) = 1 .. Len(Seeds(n) \o <<x, y, z>>)
  <2>1. PICK s : s = Seeds(n)
    OBVIOUS
  <2>2. s \in Seq(S)
    BY <2>1 DEF Seeds
  <2>3. s \o t \in Seq(S)
    BY ONLY <1>2, <2>2, ConcatProperties
  <2>4. DOMAIN (s \o t) = 1 .. Len(s \o t)
    BY ONLY <2>3, LenProperties
  <2> QED  BY <1>1, <2>1, <2>4
<1>3. CASE n = 0
  <2>1. PICK s : s = Seeds(n)
    OBVIOUS
  <2>2. s \in Seq(S) /\ Len(s) = 0
    BY <1>3, <2>1 DEF Seeds
  <2>3. PICK m \in Nat : m = 0
    OBVIOUS
  <2>4. /\ Len(s \o t) = m + Len(t)
        /\ \A i \in 1 .. Len(t) : (s \o t)[m + i] = t[i]
    BY ONLY <1>2, <2>2, <2>3, m \in Nat, Prefixed
  <2>5. PICK u : u = s \o t
    OBVIOUS
  <2>6. Len(u) = 0 + 3 /\ u[0 + 1] = t[1] /\ u[0 + 2] = t[2] /\ u[0 + 3] = t[3]
    BY ONLY <1>2, <2>3, <2>4, <2>5
  <2>7. Len(u) = 3 /\ u[1] = x /\ u[2] = y /\ u[3] = z
    BY ONLY <1>2, <2>6
  <2> QED  BY ONLY <1>1, <1>3, <2>1, <2>2, <2>5, <2>7, k = Len(Seeds(n)) + 4
<1>4. CASE n = 1
  <2>1. PICK s : s = Seeds(n)
    OBVIOUS
  <2>2. s \in Seq(S) /\ Len(s) = 2 /\ s[1] = Send("seeds") /\ s[2] = Recv("seeds")
    BY <1>4, <2>1 DEF Seeds
  <2>3. PICK m \in Nat : m = 2 /\ Len(s) = m
    BY <2>2
  <2>4. /\ Len(s \o t) = m + Len(t)
        /\ \A i \in 1 .. m : (s \o t)[i] = s[i]
        /\ \A i \in 1 .. Len(t) : (s \o t)[m + i] = t[i]
    <3>1. s \in Seq(S) /\ t \in Seq(S) /\ Len(s) = m
      BY <1>2, <2>2, <2>3
    <3> QED  BY ONLY <3>1, m \in Nat, Prefixed
  <2>5. PICK u : u = s \o t
    OBVIOUS
  <2>6. /\ Len(u) = 2 + 3 /\ u[1] = s[1] /\ u[2] = s[2]
        /\ u[2 + 1] = t[1] /\ u[2 + 2] = t[2] /\ u[2 + 3] = t[3]
    BY ONLY <1>2, <2>3, <2>4, <2>5
  <2>7. /\ Len(u) = 5 /\ u[1] = Send("seeds") /\ u[2] = Recv("seeds")
        /\ u[3] = x /\ u[4] = y /\ u[5] = z
    BY ONLY <1>2, <2>2, <2>6
  <2> QED  BY ONLY <1>1, <1>4, <2>1, <2>2, <2>5, <2>7, k = Len(Seeds(n)) + 4
<1> QED  BY <1>3, <1>4, <1>5

ServerTable(n, served) ==
    IF served = "setup" THEN <<Send("M"), Send("N"), Send("lkp")>>
    ELSE IF n = 0 THEN <<Recv("keys"), Send("results"), Recv("log")>>
    ELSE <<Send("seeds"), Recv("seeds"), Recv("keys"), Send("results"), Recv("log")>>
PhoneTable(n, task) ==
    IF task = "setup" THEN <<Recv("M"), Recv("N"), Recv("lkp")>>
    ELSE IF n = 0 THEN <<Send("keys"), Recv("results"), Send("log")>>
    ELSE <<Send("seeds"), Recv("seeds"), Send("keys"), Recv("results"), Send("log")>>

LEMMA Scripts ==
    /\ \A n \in {0, 1}, served \in Task :
          /\ Len(ServerScriptFor(n, served)) + 1 = End(n, served)
          /\ \A k \in 1 .. End(n, served) - 1 :
                ServerScriptFor(n, served)[k] = ServerTable(n, served)[k]
    /\ \A n \in {0, 1}, task \in Task :
          /\ Len(PhoneScriptFor(n, task)) + 1 = End(n, task)
          /\ DOMAIN PhoneScriptFor(n, task) = 1 .. Len(PhoneScriptFor(n, task))
          /\ \A k \in 1 .. End(n, task) - 1 :
                PhoneScriptFor(n, task)[k] = PhoneTable(n, task)[k]
<1>1. PICK S : S = [dir : {"send", "recv"}, kind : Kinds]
  OBVIOUS
<1>2. \A kind \in Kinds : Send(kind) \in S /\ Recv(kind) \in S
  BY <1>1 DEF Send, Recv
<1>3. {"seeds", "keys", "results", "log"} \subseteq Kinds
  BY DEF Kinds, Blocks
<1>4. ASSUME NEW n \in {0, 1}, NEW served \in Task
      PROVE  /\ Len(ServerScriptFor(n, served)) + 1 = End(n, served)
             /\ \A k \in 1 .. End(n, served) - 1 :
                   ServerScriptFor(n, served)[k] = ServerTable(n, served)[k]
  <2>1. CASE served = "setup"
    BY <2>1 DEF ServerScriptFor, End, ServerParameters, ServerTable
  <2>2. CASE served = "localize"
    <3>1. PICK x \in S, y \in S, z \in S :
             x = Recv("keys") /\ y = Send("results") /\ z = Recv("log")
      BY <1>2, <1>3
    <3>2. PICK u : u = Seeds(n) \o <<x, y, z>>
      OBVIOUS
    <3>3. /\ Len(u) + 1 = (IF n = 0 THEN 4 ELSE 6)
          /\ n = 0 => u[1] = x /\ u[2] = y /\ u[3] = z
          /\ n = 1 => /\ u[1] = Send("seeds") /\ u[2] = Recv("seeds")
                      /\ u[3] = x /\ u[4] = y /\ u[5] = z
      BY <1>2, <1>3, <3>2, WithSeeds
    <3>4. ServerScriptFor(n, served) = u
      BY <2>2, <3>1, <3>2 DEF ServerScriptFor, ServerLocalization
    <3> QED  BY <2>2, <3>1, <3>3, <3>4 DEF End, ServerTable
  <2> QED  BY <2>1, <2>2 DEF Task
<1>5. ASSUME NEW n \in {0, 1}, NEW task \in Task
      PROVE  /\ Len(PhoneScriptFor(n, task)) + 1 = End(n, task)
             /\ DOMAIN PhoneScriptFor(n, task) = 1 .. Len(PhoneScriptFor(n, task))
             /\ \A k \in 1 .. End(n, task) - 1 :
                   PhoneScriptFor(n, task)[k] = PhoneTable(n, task)[k]
  <2>1. CASE task = "setup"
    BY <2>1 DEF PhoneScriptFor, End, PhoneParameters, PhoneTable
  <2>2. CASE task # "setup"
    <3>1. PICK x \in S, y \in S, z \in S :
             x = Send("keys") /\ y = Recv("results") /\ z = Send("log")
      BY <1>2, <1>3
    <3>2. PICK u : u = Seeds(n) \o <<x, y, z>>
      OBVIOUS
    <3>3. /\ DOMAIN u = 1 .. Len(u)
          /\ Len(u) + 1 = (IF n = 0 THEN 4 ELSE 6)
          /\ n = 0 => u[1] = x /\ u[2] = y /\ u[3] = z
          /\ n = 1 => /\ u[1] = Send("seeds") /\ u[2] = Recv("seeds")
                      /\ u[3] = x /\ u[4] = y /\ u[5] = z
      BY <1>2, <1>3, <3>2, WithSeeds
    <3>4. PhoneScriptFor(n, task) = u
      BY <2>2, <3>1, <3>2 DEF PhoneScriptFor, PhoneLocalization
    <3> QED  BY <2>2, <3>1, <3>3, <3>4 DEF End, PhoneTable
  <2> QED  BY <2>1, <2>2
<1> QED  BY <1>4, <1>5

LEMMA Tables ==
    ASSUME NEW n, NEW task, NEW i, NEW served, NEW j, At(n, task, i, served, j)
    PROVE  /\ End(n, task) \in {4, 6} /\ End(n, served) \in {4, 6}
           /\ PhoneSent(n, task, i) \in Nat /\ PhoneTook(n, task, i) \in Nat
           /\ ServerSent(n, served, j) \in Nat /\ ServerTook(n, served, j) \in Nat
BY DEF At, Task, End, PhoneSent, PhoneTook, ServerSent, ServerTook

\* What a step of the phone does to its position, and what it takes it for.
LEMMA PhoneSteps ==
    ASSUME NEW n, NEW task, NEW i, NEW served, NEW j, At(n, task, i, served, j),
           i <= Len(PhoneScriptFor(n, task))
    PROVE  LET kind == PhoneStepFor(n, task, i).kind IN
           /\ At(n, task, i + 1, served, j) /\ kind \in Kinds /\ Blocks[kind] \in 1 .. 8
           /\ PhoneStepFor(n, task, i).dir = "send" =>
                 /\ task = "localize"
                 /\ PhoneSent(n, task, i + 1) = PhoneSent(n, task, i) + Blocks[kind]
                 /\ PhoneTook(n, task, i + 1) = PhoneTook(n, task, i)
           /\ PhoneStepFor(n, task, i).dir = "recv" =>
                 /\ PhoneSent(n, task, i + 1) = PhoneSent(n, task, i)
                 /\ PhoneTook(n, task, i + 1) = PhoneTook(n, task, i) + Blocks[kind]
                 /\ task = served => Named(n, served, PhoneTook(n, task, i), kind)
<1> PICK dir, kind : dir = PhoneStepFor(n, task, i).dir /\ kind = PhoneStepFor(n, task, i).kind
  OBVIOUS
<1>1. CASE task = "setup"
  <2>1. \/ i = 1 /\ dir = "recv" /\ kind = "M"
        \/ i = 2 /\ dir = "recv" /\ kind = "N"
        \/ i = 3 /\ dir = "recv" /\ kind = "lkp"
    BY <1>1, Scripts DEF At, Task, PhoneStepFor, PhoneTable, End, Send, Recv
  <2> QED  BY <1>1, <2>1 DEF At, Task, End, PhoneSent, PhoneTook, Blocks, Kinds, Name, Named
<1>2. CASE task = "localize" /\ n = 0
  <2>1. \/ i = 1 /\ dir = "send" /\ kind = "keys"
        \/ i = 2 /\ dir = "recv" /\ kind = "results"
        \/ i = 3 /\ dir = "send" /\ kind = "log"
    BY <1>2, Scripts DEF At, Task, PhoneStepFor, PhoneTable, End, Send, Recv
  <2> QED  BY <1>2, <2>1 DEF At, Task, End, PhoneSent, PhoneTook, Blocks, Kinds, Name, Named
<1>3. CASE task = "localize" /\ n = 1
  <2>1. \/ i = 1 /\ dir = "send" /\ kind = "seeds"
        \/ i = 2 /\ dir = "recv" /\ kind = "seeds"
        \/ i = 3 /\ dir = "send" /\ kind = "keys"
        \/ i = 4 /\ dir = "recv" /\ kind = "results"
        \/ i = 5 /\ dir = "send" /\ kind = "log"
    BY <1>3, Scripts DEF At, Task, PhoneStepFor, PhoneTable, End, Send, Recv
  <2> QED  BY <1>3, <2>1 DEF At, Task, End, PhoneSent, PhoneTook, Blocks, Kinds, Name, Named
<1> QED  BY <1>1, <1>2, <1>3 DEF At, Task

LEMMA ServerSteps ==
    ASSUME NEW n, NEW task, NEW i, NEW served, NEW j, At(n, task, i, served, j),
           j <= Len(ServerScriptFor(n, served))
    PROVE  LET kind == ServerStepFor(n, served, j).kind IN
           /\ At(n, task, i, served, j + 1) /\ kind \in Kinds /\ Blocks[kind] \in 1 .. 8
           /\ ServerStepFor(n, served, j).dir = "send" =>
                 /\ ServerSent(n, served, j + 1) = ServerSent(n, served, j) + Blocks[kind]
                 /\ ServerTook(n, served, j + 1) = ServerTook(n, served, j)
                 /\ Named(n, served, ServerSent(n, served, j), kind)
           /\ ServerStepFor(n, served, j).dir = "recv" =>
                 /\ ServerSent(n, served, j + 1) = ServerSent(n, served, j)
                 /\ ServerTook(n, served, j + 1) = ServerTook(n, served, j) + Blocks[kind]
<1> PICK dir, kind : dir = ServerStepFor(n, served, j).dir /\ kind = ServerStepFor(n, served, j).kind
  OBVIOUS
<1>1. CASE served = "setup"
  <2>1. ServerScriptFor(n, served) = <<Send("M"), Send("N"), Send("lkp")>>
    BY <1>1 DEF ServerScriptFor, ServerParameters
  <2>2. j \in 1 .. 3
    <3>1. j \in 1 .. 4
      BY <1>1 DEF At, End
    <3>2. j <= 3
      BY <2>1
    <3> QED  BY ONLY <3>1, <3>2
  <2>3. \/ j = 1 /\ dir = "send" /\ kind = "M"
        \/ j = 2 /\ dir = "send" /\ kind = "N"
        \/ j = 3 /\ dir = "send" /\ kind = "lkp"
    BY <1>1, <2>1, <2>2 DEF ServerStepFor, Send
  <2>4. dir = "send" /\ kind \in {"M", "N", "lkp"} /\ j + 1 \in 1 .. 4
    BY <2>3
  <2>5. End(n, served) = 4 /\ kind \in Kinds /\ Blocks[kind] \in 1 .. 8
    BY <1>1, <2>4 DEF End, Blocks, Kinds
  <2>6. At(n, task, i, served, j + 1)
    BY <1>1, <2>4, <2>5 DEF At
  <2>7. /\ ServerSent(n, served, j + 1) = ServerSent(n, served, j) + Blocks[kind]
        /\ ServerTook(n, served, j + 1) = ServerTook(n, served, j)
    BY <1>1, <2>3 DEF ServerSent, ServerTook, Blocks
  <2>8. ASSUME NEW b \in 1 .. Blocks[kind]
        PROVE  Name(n, served, ServerSent(n, served, j) + b) = kind
    BY <1>1, <2>3, <2>8 DEF ServerSent, Blocks, Name
  <2> QED  BY <1>1, <2>4, <2>5, <2>6, <2>7, <2>8 DEF Named
<1>2. CASE served = "localize" /\ n = 0
  <2>1. \/ j = 1 /\ dir = "recv" /\ kind = "keys"
        \/ j = 2 /\ dir = "send" /\ kind = "results"
        \/ j = 3 /\ dir = "recv" /\ kind = "log"
    BY <1>2, Scripts DEF At, Task, ServerStepFor, ServerTable, End, Send, Recv
  <2> QED  BY <1>2, <2>1 DEF At, Task, End, ServerSent, ServerTook, Blocks, Kinds, Name, Named
<1>3. CASE served = "localize" /\ n = 1
  <2>1. /\ Len(ServerScriptFor(n, served)) + 1 = 6
        /\ \A k \in 1 .. 5 : ServerScriptFor(n, served)[k] = ServerTable(n, served)[k]
    <3>1. n \in {0, 1} /\ served \in Task /\ End(n, served) = 6
      BY <1>3 DEF At, End
    <3> QED  BY <3>1, Scripts
  <2>2. j \in 1 .. 5
    BY <1>3, <2>1 DEF At, End
  <2>3. ServerTable(n, served) =
           <<Send("seeds"), Recv("seeds"), Recv("keys"), Send("results"), Recv("log")>>
    BY <1>3 DEF ServerTable
  <2>4. \/ j = 1 /\ dir = "send" /\ kind = "seeds"
        \/ j = 2 /\ dir = "recv" /\ kind = "seeds"
        \/ j = 3 /\ dir = "recv" /\ kind = "keys"
        \/ j = 4 /\ dir = "send" /\ kind = "results"
        \/ j = 5 /\ dir = "recv" /\ kind = "log"
    BY <2>1, <2>2, <2>3 DEF ServerStepFor, Send, Recv
  <2> QED  BY <1>3, <2>4 DEF At, Task, End, ServerSent, ServerTook, Blocks, Kinds, Name, Named
<1>4. served = "setup" \/ served = "localize"
  BY DEF At, Task
<1>5. n = 0 \/ n = 1
  BY DEF At
<1> QED  BY <1>1, <1>2, <1>3, <1>4, <1>5

-----------------------------------------------------------------------------
(* What TCP does to a connection *)

LEMMA NoConnectionType ==
    NoConnection \in ConnectionType /\ ~NoConnection.open["phone"] /\ ~NoConnection.open["server"]
BY DEF NoConnection, ConnectionType, Side, Kinds, Blocks

LEMMA CopiesOf ==
    ASSUME NEW kind \in Kinds
    PROVE  /\ Copies(kind) \in Seq(Kinds) /\ Len(Copies(kind)) = Blocks[kind]
           /\ \A b \in 1 .. Blocks[kind] : Copies(kind)[b] = kind
<1>1. Blocks[kind] \in Nat
  BY DEF Blocks, Kinds
<1>2. PICK m \in Nat : m = Blocks[kind]
  BY <1>1
<1>3. PICK f : f = [k \in 1 .. m |-> kind]
  OBVIOUS
<1>4. f \in Seq(Kinds) /\ Len(f) = m /\ \A b \in 1 .. m : f[b] = kind
  BY <1>3
<1> QED  BY <1>2, <1>3, <1>4 DEF Copies

LEMMA Sides ==
    /\ Side = {"server", "phone"}
    /\ Other("server") = "phone" /\ Other("phone") = "server"
BY DEF Side, Other

LEMMA SentEffect ==
    ASSUME NEW c \in ConnectionType, NEW side \in Side, NEW kind \in Kinds,
           NEW d, d = Sent(c, side, kind)
    PROVE  /\ d \in ConnectionType /\ d.open = c.open
           /\ d.inbox[side] = c.inbox[side]
           /\ c.open[Other(side)] =>
                 /\ d.reset = c.reset
                 /\ d.inbox[Other(side)] = c.inbox[Other(side)] \o Copies(kind)
           /\ ~c.open[Other(side)] => d.inbox = c.inbox /\ d.reset
<1>1. /\ c = [inbox |-> c.inbox, open |-> c.open, reset |-> c.reset]
      /\ c.inbox \in [Side -> Seq(Kinds)] /\ c.open \in [Side -> BOOLEAN] /\ c.reset \in BOOLEAN
  BY DEF ConnectionType
<1>2. Other(side) \in Side /\ Other(side) # side
  BY DEF Side, Other
<1>3. CASE c.open[Other(side)]
  <2>1. PICK q : q = [c.inbox EXCEPT ![Other(side)] = c.inbox[Other(side)] \o Copies(kind)]
    OBVIOUS
  <2>2. c.inbox[Other(side)] \o Copies(kind) \in Seq(Kinds)
    BY <1>1, <1>2, CopiesOf, ConcatProperties
  <2>3. /\ q \in [Side -> Seq(Kinds)] /\ q[side] = c.inbox[side]
        /\ q[Other(side)] = c.inbox[Other(side)] \o Copies(kind)
    BY <1>1, <1>2, <2>1, <2>2
  <2>4. d = [c EXCEPT !.inbox = q]
    BY <1>1, <1>3, <2>1 DEF Sent
  <2> QED  BY <1>1, <1>3, <2>3, <2>4 DEF ConnectionType
<1>4. CASE ~c.open[Other(side)]
  <2>1. d = [c EXCEPT !.reset = TRUE]
    BY <1>4 DEF Sent
  <2> QED  BY <1>1, <1>4, <2>1 DEF ConnectionType
<1> QED  BY <1>3, <1>4

LEMMA TakenEffect ==
    ASSUME NEW c \in ConnectionType, NEW side \in Side, NEW kind \in Kinds,
           Enough(c, side, kind), NEW d, d = Taken(c, side, kind)
    PROVE  /\ d \in ConnectionType /\ d.open = c.open /\ d.reset = c.reset
           /\ d.inbox[Other(side)] = c.inbox[Other(side)]
           /\ Len(d.inbox[side]) = Len(c.inbox[side]) - Blocks[kind]
           /\ \A b \in 1 .. Len(c.inbox[side]) - Blocks[kind] :
                 d.inbox[side][b] = c.inbox[side][Blocks[kind] + b]
<1>1. /\ c = [inbox |-> c.inbox, open |-> c.open, reset |-> c.reset]
      /\ c.inbox \in [Side -> Seq(Kinds)] /\ c.open \in [Side -> BOOLEAN] /\ c.reset \in BOOLEAN
  BY DEF ConnectionType
<1>2. Other(side) \in Side /\ Other(side) # side
  BY DEF Side, Other
<1>3. PICK old \in Seq(Kinds) : old = c.inbox[side]
  BY <1>1
<1>4. PICK n \in Nat, l \in Nat : n = Blocks[kind] /\ l = Len(old) /\ n <= l
  <2>1. Blocks[kind] \in Nat
    BY DEF Blocks, Kinds
  <2> QED  BY <1>3, <2>1, LenProperties DEF Enough
<1>5. PICK rest : rest = SubSeq(old, n + 1, l)
  OBVIOUS
<1>6. /\ rest \in Seq(Kinds) /\ Len(rest) = l - n
      /\ \A b \in 1 .. l - n : rest[b] = old[n + b]
  <2>1. \A b \in n + 1 .. l : old[b] \in Kinds
    <3>1. \A b \in n + 1 .. l : b \in 1 .. Len(old)
      BY <1>4
    <3> QED  BY ONLY <3>1, old \in Seq(Kinds), ElementOfSeq
  <2>2. n + 1 \in Int /\ l \in Int
    OBVIOUS
  <2>3. /\ rest \in Seq(Kinds) /\ Len(rest) = (IF n + 1 <= l THEN l - (n + 1) + 1 ELSE 0)
        /\ \A b \in 1 .. l - (n + 1) + 1 : rest[b] = old[(n + 1) + b - 1]
    BY ONLY <1>5, <2>1, <2>2, old \in Seq(Kinds), SubSeqProperties
  <2>4. Len(rest) = l - n
    BY ONLY <1>4, <2>3, l \in Nat, n \in Nat
  <2>5. \A b \in 1 .. l - n : rest[b] = old[n + b]
    <3> SUFFICES ASSUME NEW b \in 1 .. l - n PROVE rest[b] = old[n + b]
      OBVIOUS
    <3>1. b \in 1 .. l - (n + 1) + 1 /\ (n + 1) + b - 1 = n + b
      BY ONLY <1>4, l \in Nat, n \in Nat, b \in 1 .. l - n
    <3> QED  BY ONLY <2>3, <3>1
  <2> QED  BY <2>3, <2>4, <2>5
<1>7. PICK q : q = [c.inbox EXCEPT ![side] = rest]
  OBVIOUS
<1>8. /\ q \in [Side -> Seq(Kinds)] /\ q[side] = rest
      /\ q[Other(side)] = c.inbox[Other(side)]
  BY <1>1, <1>2, <1>6, <1>7
<1>9. d = [c EXCEPT !.inbox = q]
  BY <1>1, <1>3, <1>4, <1>5, <1>7 DEF Taken
<1>10. /\ d \in ConnectionType /\ d.open = c.open /\ d.reset = c.reset /\ d.inbox = q
  BY <1>1, <1>8, <1>9 DEF ConnectionType
<1> QED  BY <1>3, <1>4, <1>6, <1>8, <1>10

LEMMA ClosedEffect ==
    ASSUME NEW c \in ConnectionType, NEW side \in Side, NEW d, d = Closed(c, side)
    PROVE  /\ d \in ConnectionType
           /\ ~c.open[Other(side)] => d = NoConnection
           /\ c.open[Other(side)] =>
                 /\ ~d.open[side] /\ d.open[Other(side)]
                 /\ d.inbox[Other(side)] = c.inbox[Other(side)]
<1>1. /\ c = [inbox |-> c.inbox, open |-> c.open, reset |-> c.reset]
      /\ c.inbox \in [Side -> Seq(Kinds)] /\ c.open \in [Side -> BOOLEAN] /\ c.reset \in BOOLEAN
  BY DEF ConnectionType
<1>2. Other(side) \in Side /\ Other(side) # side
  BY DEF Side, Other
<1>3. CASE ~c.open[Other(side)]
  BY <1>3, NoConnectionType DEF Closed
<1>4. CASE c.open[Other(side)]
  <2>1. PICK o, q, r : /\ o = [c.open EXCEPT ![side] = FALSE]
                       /\ q = [c.inbox EXCEPT ![side] = <<>>]
                       /\ r = (c.reset \/ c.inbox[side] # <<>>)
    OBVIOUS
  <2>2. /\ o \in [Side -> BOOLEAN] /\ ~o[side] /\ o[Other(side)] = c.open[Other(side)]
        /\ q \in [Side -> Seq(Kinds)] /\ q[Other(side)] = c.inbox[Other(side)]
    BY <1>1, <1>2, <2>1
  <2>3. r \in BOOLEAN
    BY <2>1
  <2>4. d = [inbox |-> q, open |-> o, reset |-> r]
    BY <1>1, <1>4, <2>1 DEF Closed
  <2>5. d.open = o /\ d.inbox = q
    BY <2>4
  <2>6. d \in ConnectionType
    BY <2>2, <2>3, <2>4 DEF ConnectionType
  <2> QED  BY <1>4, <2>2, <2>5, <2>6
<1> QED  BY <1>3, <1>4

LEMMA DroppedEffect ==
    ASSUME NEW c \in ConnectionType, NEW d, d = Dropped(c)
    PROVE  /\ d \in ConnectionType
           /\ ~c.open["phone"] => d = NoConnection
           /\ c.open["phone"] => /\ ~d.open["server"] /\ d.open["phone"]
                                 /\ d.inbox["phone"] = c.inbox["phone"]
<1>1. CASE ~c.open["phone"]
  BY <1>1, NoConnectionType DEF Dropped
<1>2. CASE c.open["phone"]
  <2>1. PICK e : e = Closed(c, "server")
    OBVIOUS
  <2>2. /\ e \in ConnectionType /\ ~e.open["server"] /\ e.open["phone"]
        /\ e.inbox["phone"] = c.inbox["phone"]
    BY <1>2, <2>1, ClosedEffect DEF Side, Other
  <2>3. d = [e EXCEPT !.reset = TRUE]
    BY <1>2, <2>1 DEF Dropped
  <2> QED  BY <1>2, <2>2, <2>3 DEF ConnectionType
<1> QED  BY <1>1, <1>2

-----------------------------------------------------------------------------
(* Unread blocks and positions *)

LEMMA PhoneSends ==
    ASSUME NEW n, NEW task, NEW i, NEW served, NEW j, At(n, task, i, served, j),
           NEW c \in ConnectionType, Exchange(n, c, task, i, served, j),
           i <= Len(PhoneScriptFor(n, task)), PhoneStepFor(n, task, i).dir = "send",
           NEW kind, kind = PhoneStepFor(n, task, i).kind,
           NEW d, d = Sent(c, "phone", kind)
    PROVE  Exchange(n, d, task, i + 1, served, j)
<1>1. /\ At(n, task, i + 1, served, j) /\ kind \in Kinds
      /\ PhoneSent(n, task, i + 1) = PhoneSent(n, task, i) + Blocks[kind]
      /\ PhoneTook(n, task, i + 1) = PhoneTook(n, task, i)
  BY PhoneSteps
<1>2. /\ d.open = c.open /\ d.inbox["phone"] = c.inbox["phone"]
      /\ c.open["server"] =>
            /\ d.reset = c.reset
            /\ d.inbox["server"] = c.inbox["server"] \o Copies(kind)
      /\ ~c.open["server"] => d.inbox = c.inbox
  <2>1. kind \in Kinds /\ "phone" \in Side
    BY <1>1, Sides
  <2> QED  BY ONLY <2>1, c \in ConnectionType, d = Sent(c, "phone", kind), Sides, SentEffect
<1>3. Len(c.inbox["server"] \o Copies(kind)) = Len(c.inbox["server"]) + Blocks[kind]
  <2>1. PICK old \in Seq(Kinds) : old = c.inbox["server"]
    BY DEF ConnectionType, Side
  <2>2. Copies(kind) \in Seq(Kinds) /\ Len(Copies(kind)) = Blocks[kind]
    BY <1>1, CopiesOf
  <2>3. Len(old \o Copies(kind)) = Len(old) + Len(Copies(kind))
    BY ONLY <2>2, old \in Seq(Kinds), ConcatProperties
  <2> QED  BY <2>1, <2>2, <2>3
<1>4. PICK x \in Nat, y \in Nat, z \in Nat :
         x = PhoneSent(n, task, i) /\ y = ServerTook(n, served, j) /\ z = Blocks[kind]
  BY <1>1, Tables DEF Blocks, Kinds
<1>5. y <= x => y <= x + z /\ (x - y) + z = (x + z) - y
  OBVIOUS
<1> QED  BY <1>1, <1>2, <1>3, <1>4, <1>5 DEF Exchange

LEMMA PhoneTakes ==
    ASSUME NEW n, NEW task, NEW i, NEW served, NEW j, At(n, task, i, served, j),
           NEW c \in ConnectionType, Exchange(n, c, task, i, served, j), c.open["phone"],
           i <= Len(PhoneScriptFor(n, task)), PhoneStepFor(n, task, i).dir = "recv",
           NEW kind, kind = PhoneStepFor(n, task, i).kind,
           Enough(c, "phone", kind), NEW d, d = Taken(c, "phone", kind)
    PROVE  Exchange(n, d, task, i + 1, served, j)
<1>1. /\ At(n, task, i + 1, served, j) /\ kind \in Kinds
      /\ PhoneSent(n, task, i + 1) = PhoneSent(n, task, i)
      /\ PhoneTook(n, task, i + 1) = PhoneTook(n, task, i) + Blocks[kind]
  BY PhoneSteps
<1>2. /\ d.open = c.open /\ d.reset = c.reset /\ d.inbox["server"] = c.inbox["server"]
      /\ Len(d.inbox["phone"]) = Len(c.inbox["phone"]) - Blocks[kind]
      /\ \A b \in 1 .. Len(c.inbox["phone"]) - Blocks[kind] :
            d.inbox["phone"][b] = c.inbox["phone"][Blocks[kind] + b]
  BY <1>1, TakenEffect, Sides
<1>3. PICK x \in Nat, y \in Nat, z \in Nat :
         x = ServerSent(n, served, j) /\ y = PhoneTook(n, task, i) /\ z = Blocks[kind]
  BY <1>1, Tables DEF Blocks, Kinds
<1>4. Len(c.inbox["phone"]) = x - y /\ z <= x - y
  BY <1>3 DEF Exchange, Enough
<1>5. y + z <= x /\ (x - y) - z = x - (y + z)
  BY ONLY <1>4, x \in Nat, y \in Nat, z \in Nat
<1>6. ASSUME NEW b \in 1 .. Len(d.inbox["phone"])
      PROVE  d.inbox["phone"][b] = Name(n, served, (y + z) + b)
  <2>1. b \in 1 .. (x - y) - z /\ z + b \in 1 .. x - y /\ y + (z + b) = (y + z) + b
    <3>1. b \in 1 .. (x - y) - z
      BY <1>2, <1>3, <1>4, <1>6
    <3> QED  BY ONLY <3>1, x \in Nat, y \in Nat, z \in Nat
  <2>2. d.inbox["phone"][b] = c.inbox["phone"][z + b]
    BY <1>2, <1>3, <1>4, <2>1
  <2>3. c.inbox["phone"][z + b] = Name(n, served, y + (z + b))
    BY <1>3, <1>4, <2>1 DEF Exchange
  <2> QED  BY <2>1, <2>2, <2>3
<1> QED  BY <1>1, <1>2, <1>3, <1>4, <1>5, <1>6 DEF Exchange

LEMMA ServerSends ==
    ASSUME NEW n, NEW task, NEW i, NEW served, NEW j, At(n, task, i, served, j),
           NEW c \in ConnectionType, Exchange(n, c, task, i, served, j),
           j <= Len(ServerScriptFor(n, served)), ServerStepFor(n, served, j).dir = "send",
           NEW kind, kind = ServerStepFor(n, served, j).kind,
           NEW d, d = Sent(c, "server", kind)
    PROVE  Exchange(n, d, task, i, served, j + 1)
<1>1. /\ At(n, task, i, served, j + 1) /\ kind \in Kinds
      /\ ServerSent(n, served, j + 1) = ServerSent(n, served, j) + Blocks[kind]
      /\ ServerTook(n, served, j + 1) = ServerTook(n, served, j)
      /\ Named(n, served, ServerSent(n, served, j), kind)
  <2>1. /\ At(n, task, i, served, j + 1) /\ kind \in Kinds
        /\ ServerSent(n, served, j + 1) = ServerSent(n, served, j) + Blocks[kind]
        /\ ServerTook(n, served, j + 1) = ServerTook(n, served, j)
    BY ServerSteps
  <2>2. Named(n, served, ServerSent(n, served, j), kind)
    BY ServerSteps
  <2> QED  BY <2>1, <2>2
<1>2. /\ d.open = c.open /\ d.inbox["server"] = c.inbox["server"]
      /\ c.open["phone"] =>
            /\ d.reset = c.reset
            /\ d.inbox["phone"] = c.inbox["phone"] \o Copies(kind)
      /\ ~c.open["phone"] => d.inbox = c.inbox
  <2>1. kind \in Kinds /\ "phone" \in Side
    BY <1>1, Sides
  <2> QED  BY ONLY <2>1, c \in ConnectionType, d = Sent(c, "server", kind), Sides, SentEffect
<1>3. PICK x \in Nat, y \in Nat, z \in Nat :
         x = ServerSent(n, served, j) /\ y = PhoneTook(n, task, i) /\ z = Blocks[kind]
  BY <1>1, Tables DEF Blocks, Kinds
<1>4. y <= x /\ y <= x + z
  BY <1>3 DEF Exchange
<1>5. ASSUME c.open["phone"]
      PROVE  /\ Len(d.inbox["phone"]) = (x + z) - y
             /\ \A b \in 1 .. Len(d.inbox["phone"]) :
                   d.inbox["phone"][b] = Name(n, served, y + b)
  <2>1. PICK old \in Seq(Kinds) : old = c.inbox["phone"]
    BY DEF ConnectionType, Side
  <2>2. PICK l \in Nat : l = Len(old) /\ l = x - y
    <3>1. Len(old) = x - y /\ Len(old) \in Nat
      BY <1>3, <1>5, <2>1, LenProperties DEF Exchange
    <3> QED  BY ONLY <3>1
  <2>3. Copies(kind) \in Seq(Kinds) /\ Len(Copies(kind)) = z
    BY <1>1, <1>3, CopiesOf
  <2>4. /\ Len(old \o Copies(kind)) = Len(old) + Len(Copies(kind))
        /\ \A b \in 1 .. Len(old) + Len(Copies(kind)) :
              (old \o Copies(kind))[b] = IF b <= Len(old) THEN old[b]
                                         ELSE Copies(kind)[b - Len(old)]
    BY ONLY <2>3, old \in Seq(Kinds), ConcatProperties
  <2>5. PICK new : new = old \o Copies(kind) /\ new = d.inbox["phone"]
    BY <1>2, <1>5, <2>1
  <2>6. /\ Len(new) = l + z
        /\ \A b \in 1 .. l + z : new[b] = IF b <= l THEN old[b] ELSE Copies(kind)[b - l]
    BY ONLY <2>2, <2>3, <2>4, <2>5
  <2>7. ASSUME NEW b \in 1 .. l + z
        PROVE  new[b] = Name(n, served, y + b)
    <3>1. CASE b <= l
      <4>1. b \in 1 .. Len(c.inbox["phone"]) /\ new[b] = c.inbox["phone"][b]
        BY <2>1, <2>2, <2>6, <2>7, <3>1
      <4> QED  BY <1>3, <1>5, <4>1 DEF Exchange
    <3>2. CASE ~(b <= l)
      <4>1. b - l \in 1 .. z /\ x + (b - l) = y + b
        BY ONLY <2>2, <2>7, <3>2, x \in Nat, y \in Nat, z \in Nat, l \in Nat
      <4>2. new[b] = Copies(kind)[b - l]
        BY <2>6, <2>7, <3>2
      <4>3. Copies(kind)[b - l] = kind
        BY <1>1, <1>3, <4>1, CopiesOf
      <4>4. Name(n, served, x + (b - l)) = kind
        BY <1>1, <1>3, <4>1 DEF Named
      <4> QED  BY ONLY <4>1, <4>2, <4>3, <4>4
    <3> QED  BY <3>1, <3>2
  <2>8. l + z = (x + z) - y
    BY ONLY <2>2, x \in Nat, y \in Nat, z \in Nat, l \in Nat
  <2> QED  BY <2>5, <2>6, <2>7, <2>8
<1> QED  BY <1>1, <1>2, <1>3, <1>4, <1>5 DEF Exchange

LEMMA ServerTakes ==
    ASSUME NEW n, NEW task, NEW i, NEW served, NEW j, At(n, task, i, served, j),
           NEW c \in ConnectionType, Exchange(n, c, task, i, served, j), c.open["server"],
           j <= Len(ServerScriptFor(n, served)), ServerStepFor(n, served, j).dir = "recv",
           NEW kind, kind = ServerStepFor(n, served, j).kind,
           Enough(c, "server", kind), NEW d, d = Taken(c, "server", kind)
    PROVE  Exchange(n, d, task, i, served, j + 1)
<1>1. /\ At(n, task, i, served, j + 1) /\ kind \in Kinds
      /\ ServerSent(n, served, j + 1) = ServerSent(n, served, j)
      /\ ServerTook(n, served, j + 1) = ServerTook(n, served, j) + Blocks[kind]
  BY ServerSteps
<1>2. /\ d.open = c.open /\ d.reset = c.reset /\ d.inbox["phone"] = c.inbox["phone"]
      /\ Len(d.inbox["server"]) = Len(c.inbox["server"]) - Blocks[kind]
  BY <1>1, TakenEffect, Sides
<1>3. PICK x \in Nat, y \in Nat, z \in Nat :
         x = PhoneSent(n, task, i) /\ y = ServerTook(n, served, j) /\ z = Blocks[kind]
  BY <1>1, Tables DEF Blocks, Kinds
<1>4. Len(c.inbox["server"]) = x - y /\ z <= x - y
  BY <1>3 DEF Exchange, Enough
<1>5. y + z <= x /\ (x - y) - z = x - (y + z)
  BY ONLY <1>4, x \in Nat, y \in Nat, z \in Nat
<1> QED  BY <1>1, <1>2, <1>3, <1>4, <1>5 DEF Exchange

LEMMA Closes ==
    ASSUME NEW n, NEW task, NEW i, NEW served, NEW j,
           NEW c \in ConnectionType, Exchange(n, c, task, i, served, j),
           NEW side \in Side, c.open[Other(side)], NEW d, d = Closed(c, side)
    PROVE  Exchange(n, d, task, i, served, j)
<1>1. /\ ~d.open[side] /\ d.open[Other(side)]
      /\ d.inbox[Other(side)] = c.inbox[Other(side)]
  BY ClosedEffect
<1> QED  BY <1>1 DEF Side, Other, Exchange

LEMMA Drops ==
    ASSUME NEW n, NEW task, NEW i, NEW served, NEW j,
           NEW c \in ConnectionType, Exchange(n, c, task, i, served, j),
           c.open["phone"], NEW d, d = Dropped(c)
    PROVE  Exchange(n, d, task, i, served, j)
BY DroppedEffect DEF Exchange

\* A new connection, and one that waits in the queue: which script the server
\* will take is open.
LEMMA Starts ==
    ASSUME NEW n, NEW task, NEW served, At(n, task, 1, served, 1), NEW c,
           c.inbox["phone"] = <<>>, c.inbox["server"] = <<>>, ~c.reset
    PROVE  Exchange(n, c, task, 1, served, 1)
BY DEF At, Task, Exchange, PhoneTook, PhoneSent, ServerTook, ServerSent

LEMMA Waits ==
    ASSUME NEW n, NEW task, NEW i, NEW served, NEW c, NEW other \in Task,
           At(n, task, i, served, 1), Exchange(n, c, task, i, served, 1)
    PROVE  /\ At(n, task, i, other, 1) /\ Exchange(n, c, task, i, other, 1)
           /\ PhoneTook(n, task, i) = 0
<1>1. /\ ServerSent(n, served, 1) = 0 /\ ServerSent(n, other, 1) = 0
      /\ ServerTook(n, served, 1) = 0 /\ ServerTook(n, other, 1) = 0
  BY DEF At, ServerSent, ServerTook
<1>2. PhoneTook(n, task, i) = 0
  BY <1>1, Tables DEF Exchange
<1>3. At(n, task, i, other, 1)
  BY DEF At, End
<1> QED  BY <1>1, <1>2, <1>3 DEF Exchange

\* Positions that belong together.
LEMMA PhoneThrough ==
    ASSUME NEW n, NEW task, NEW i, NEW served, NEW j, At(n, task, i, served, j),
           PhoneTook(n, task, i) <= ServerSent(n, served, j),
           ServerTook(n, served, j) <= PhoneSent(n, task, i), i = End(n, task)
    PROVE  /\ task = served
           /\ served = "setup" => j = End(n, served)
           /\ j < End(n, served) =>
                 /\ ServerStepFor(n, served, j).dir = "recv"
                 /\ Blocks[ServerStepFor(n, served, j).kind]
                       <= PhoneSent(n, task, i) - ServerTook(n, served, j)
<1>1. CASE task = "setup"
  BY <1>1 DEF At, End, PhoneTook, PhoneSent, ServerTook, ServerSent
<1>2. CASE task = "localize" /\ n = 0
  <2>1. served = "localize" /\ (j = 3 \/ j = 4)
    BY <1>2 DEF At, Task, End, PhoneTook, PhoneSent, ServerTook, ServerSent
  <2> QED  BY <1>2, <2>1, Scripts DEF At, End, PhoneSent, ServerTook,
              ServerTable, ServerStepFor, Blocks, Kinds, Recv
<1>3. CASE task = "localize" /\ n = 1
  <2>1. served = "localize" /\ (j = 5 \/ j = 6)
    BY <1>3 DEF At, Task, End, PhoneTook, PhoneSent, ServerTook, ServerSent
  <2>2. /\ End(n, served) = 6 /\ PhoneSent(n, task, i) = 17
        /\ j = 5 => ServerTook(n, served, j) = 10
    BY <1>3, <2>1 DEF At, End, PhoneSent, ServerTook
  <2>3. j = 5 => ServerStepFor(n, served, j) = Recv("log")
    <3>1. \A k \in 1 .. 5 : ServerScriptFor(n, served)[k] = ServerTable(n, served)[k]
      <4>1. n \in {0, 1} /\ served \in Task
        BY DEF At
      <4> QED  BY ONLY <2>2, <4>1, Scripts
    <3>2. ServerTable(n, served) =
             <<Send("seeds"), Recv("seeds"), Recv("keys"), Send("results"), Recv("log")>>
      BY <1>3, <2>1 DEF ServerTable
    <3>3. j = 5 => ServerScriptFor(n, served)[j] = Recv("log")
      BY ONLY <3>1, <3>2
    <3> QED  BY <3>3 DEF ServerStepFor
  <2>4. "log" \in Kinds /\ Blocks["log"] = 7
    BY DEF Blocks, Kinds
  <2>5. j = 5 => /\ ServerStepFor(n, served, j).dir = "recv"
                 /\ ServerStepFor(n, served, j).kind = "log"
    BY <2>3 DEF Recv
  <2> QED  BY <1>3, <2>1, <2>2, <2>4, <2>5
<1> QED  BY <1>1, <1>2, <1>3 DEF At, Task

LEMMA ServerThrough ==
    ASSUME NEW n, NEW task, NEW i, NEW served, NEW j, At(n, task, i, served, j),
           PhoneTook(n, task, i) <= ServerSent(n, served, j),
           ServerTook(n, served, j) <= PhoneSent(n, task, i), served = "localize",
           \/ j = End(n, served)
           \/ /\ j = End(n, served) - 1
              /\ Blocks["log"] <= PhoneSent(n, task, i) - ServerTook(n, served, j)
    PROVE  i = End(n, task)
<1>1. CASE n = 0
  BY <1>1 DEF At, Task, End, PhoneTook, PhoneSent, ServerTook, ServerSent, Blocks
<1>2. CASE n = 1
  BY <1>2 DEF At, Task, End, PhoneTook, PhoneSent, ServerTook, ServerSent, Blocks
<1> QED  BY <1>1, <1>2 DEF At

\* Only a localization ends with the log.
LEMMA LogStep ==
    ASSUME NEW n, NEW task, NEW i, NEW served, NEW j, At(n, task, i, served, j),
           j <= Len(ServerScriptFor(n, served)), ServerStepFor(n, served, j).kind = "log"
    PROVE  served = "localize" /\ j = End(n, served) - 1
<1>1. n \in {0, 1} /\ served \in Task
  BY DEF At
<1>2. j \in 1 .. End(n, served) - 1
  <2>1. Len(ServerScriptFor(n, served)) + 1 = End(n, served)
    BY <1>1, Scripts
  <2>2. PICK l : l = Len(ServerScriptFor(n, served))
    OBVIOUS
  <2>3. j \in 1 .. End(n, served) /\ End(n, served) \in Nat
    BY DEF At, End
  <2>4. l = End(n, served) - 1
    <3>1. l \in Nat
      BY <1>1, <2>2 DEF Task, ServerScriptFor, ServerParameters, ServerLocalization, Seeds,
         Send, Recv
    <3> QED  BY <2>1, <2>2, <2>3, <3>1
  <2> QED  BY <2>2, <2>3, <2>4
<1>3. ServerTable(n, served)[j].kind = "log"
  BY <1>1, <1>2, Scripts DEF ServerStepFor
<1>4. CASE served = "setup"
  BY <1>2, <1>3, <1>4 DEF End, ServerTable, Send
<1>5. CASE served = "localize" /\ n = 0
  BY <1>2, <1>3, <1>5 DEF End, ServerTable, Send, Recv
<1>6. CASE served = "localize" /\ n = 1
  BY <1>2, <1>3, <1>6 DEF End, ServerTable, Send, Recv
<1> QED  BY <1>1, <1>4, <1>5, <1>6 DEF Task

LEMMA SetupServed ==
    ASSUME NEW n, NEW i, NEW j, At(n, "setup", i, "setup", j), j = End(n, "setup"),
           i <= Len(PhoneScriptFor(n, "setup"))
    PROVE  /\ PhoneStepFor(n, "setup", i).dir = "recv"
           /\ Blocks[PhoneStepFor(n, "setup", i).kind]
                 <= ServerSent(n, "setup", j) - PhoneTook(n, "setup", i)
BY DEF At, PhoneStepFor, PhoneScriptFor, PhoneParameters, End, ServerSent, PhoneTook,
       Recv, Blocks, Kinds

-----------------------------------------------------------------------------
(* What a step leaves alone *)

LEMMA Placed ==
    ASSUME NEW s \in Sockets
    PROVE  /\ s = <<s[1], s[2]>> /\ s[1] \in Phones /\ s[2] \in 0 .. Backlog
           /\ s # <<>>
BY DEF Sockets

LEMMA Places ==
    ASSUME NEW p \in Phones, NEW k \in 0 .. Backlog
    PROVE  <<p, k>> \in Sockets /\ <<p, k>>[1] = p /\ <<p, k>>[2] = k
<1>1. PICK S : S = 0 .. Backlog
  OBVIOUS
<1>2. k \in S /\ Sockets = Phones \X S
  BY <1>1 DEF Sockets
<1>3. <<p, k>> \in Phones \X S
  BY ONLY <1>2, p \in Phones
<1> QED  BY <1>2, <1>3

LEMMA ScriptsInUse ==
    ASSUME Types
    PROVE  /\ ServerScript = ServerScriptFor(protocolNum, Serving) /\ Serving \in Task
           /\ \A p \in Phones :
                 PhoneScript(p) = PhoneScriptFor(protocolNum, phone[p].task)
BY DEF ServerScript, ServerScriptFor, PhoneScript, PhoneScriptFor, Serving, Task

\* A connection none of whose ends, nor their owners, does anything.
LEMMA LinkedStays ==
    ASSUME Served, NEW s \in Sockets, Linked(s), conn'[s] = conn[s],
           protocolNum' = protocolNum, faults \subseteq faults',
           conn[s].open["phone"] => phone'[s[1]] = phone[s[1]],
           conn[s].open["server"] =>
              /\ InQueue(s)' <=> InQueue(s)
              /\ s = server.peer => /\ server'.peer = s /\ server'.first = server.first
                                    /\ server'.step = server.step
    PROVE  Linked(s)'
<1>1. CASE conn[s] = NoConnection
  BY <1>1 DEF Linked
<1>2. CASE conn[s] # NoConnection
  <2>1. conn[s].open["phone"] \/ conn[s].open["server"]
    BY <1>2 DEF Linked
  <2>2. PICK task, i, served, j :
           At(protocolNum, task, i, served, j) /\ History(s, task, i, served, j)
    BY <1>2 DEF Linked
  <2>3. Exchange(protocolNum, conn[s], task, i, served, j)'
    BY <2>2 DEF History
  <2>4. conn[s].open["phone"] => PhoneHolds(s, task, i, served)'
    BY <2>2 DEF History, PhoneHolds
  <2>5. conn[s].open["server"] => ServerHolds(s, served, j)'
    BY <2>2 DEF History, ServerHolds, Serving
  <2>6. /\ ~conn[s].open["phone"] => PhoneLeft(task, i)'
        /\ conn[s].open["phone"] /\ ~conn[s].open["server"] => ServerLeft(task, i, served, j)'
    BY <2>2 DEF History, PhoneLeft, PhonesStay, ServerLeft, ServerStays
  <2>7. conn[s].open["phone"] /\ ~InQueue(s)' => Matched(task, served)'
    <3>1. InQueue(s) => conn[s].open["server"]
      BY DEF Served, InQueue
    <3> QED  BY <2>2, <3>1 DEF History, Matched, ServerStays
  <2>8. History(s, task, i, served, j)'
    BY <2>3, <2>4, <2>5, <2>6, <2>7 DEF History
  <2> QED  BY <2>1, <2>2, <2>8 DEF Linked
<1> QED  BY <1>1, <1>2

LEMMA ConnectedStays ==
    ASSUME NEW p \in Phones, Connected(p), phone'[p] = phone[p],
           protocolNum' = protocolNum, faults \subseteq faults',
           conn[Socket(p)].open["phone"] => conn'[Socket(p)].open["phone"]
    PROVE  Connected(p)'
BY DEF Connected, Socket, ServerStays

\* The connection the server serves, and the one of a phone's task.
LEMMA PeerHistory ==
    ASSUME Types, Served, InSession, \A s \in Sockets : Linked(s)
    PROVE  /\ server.peer \in Sockets /\ conn[server.peer].open["server"]
           /\ conn[server.peer] \in ConnectionType /\ ~InQueue(server.peer)
           /\ \E task, i : /\ At(protocolNum, task, i, Serving, server.step)
                           /\ History(server.peer, task, i, Serving, server.step)
<1>1. /\ server.peer \in Sockets /\ conn[server.peer].open["server"]
      /\ ~InQueue(server.peer) /\ conn[server.peer] \in ConnectionType
  BY DEF Served, InQueue, Types
<1>2. PICK task, i, served, j :
         /\ At(protocolNum, task, i, served, j) /\ History(server.peer, task, i, served, j)
  BY <1>1, NoConnectionType DEF Linked
<1>3. served = Serving /\ j = server.step
  BY <1>1, <1>2 DEF History, ServerHolds
<1> QED  BY <1>1, <1>2, <1>3

LEMMA PhoneHistory ==
    ASSUME Types, NEW p \in Phones, Connected(p), phone[p].task \in Task,
           phone[p].step > 0, \A s \in Sockets : Linked(s)
    PROVE  /\ Socket(p) \in Sockets /\ Socket(p)[1] = p
           /\ conn[Socket(p)].open["phone"] /\ conn[Socket(p)] \in ConnectionType
           /\ \E served, j :
                 /\ At(protocolNum, phone[p].task, phone[p].step, served, j)
                 /\ History(Socket(p), phone[p].task, phone[p].step, served, j)
<1>1. Socket(p) \in Sockets /\ Socket(p)[1] = p
  BY DEF Types, PhoneType, Sockets, Socket
<1>2. conn[Socket(p)].open["phone"] /\ conn[Socket(p)] \in ConnectionType
  BY <1>1 DEF Connected, Types
<1>3. PICK task, i, served, j :
         /\ At(protocolNum, task, i, served, j) /\ History(Socket(p), task, i, served, j)
  BY <1>1, <1>2, NoConnectionType DEF Linked
<1>4. task = phone[p].task /\ i = phone[p].step
  BY <1>1, <1>2, <1>3 DEF History, PhoneHolds, Task
<1> QED  BY <1>1, <1>2, <1>3, <1>4

\* A phone's end is open in one connection only, and only during a task.
LEMMA OneOpen ==
    ASSUME Types, NEW s \in Sockets, Linked(s), conn[s].open["phone"]
    PROVE  /\ s = Socket(s[1]) /\ phone[s[1]].step > 0
           /\ phone[s[1]].task \in {"setup", "localize", "spinning"}
           /\ phone[s[1]].task = "spinning" => ~conn[s].open["server"]
<1>1. PICK task, i, served, j :
         /\ At(protocolNum, task, i, served, j) /\ History(s, task, i, served, j)
  BY NoConnectionType DEF Linked
<1>2. PhoneHolds(s, task, i, served) /\ i > 0 /\ task \in Task
  BY <1>1 DEF History, At
<1> QED  BY <1>2, Placed DEF PhoneHolds, Socket, Task

-----------------------------------------------------------------------------
(* Steps of the server *)

LEMMA ServerTogether ==
    ASSUME IInv, UNCHANGED <<protocolNum, phone>>, faults \subseteq faults',
           server' \in ServerType, conn' \in [Sockets -> ConnectionType],
           \A s \in Sockets : conn[s].open["phone"] => conn'[s].open["phone"],
           Served', FirstServed', \A s \in Sockets : Linked(s)'
    PROVE  IInv'
<1>1. Types'
  BY DEF IInv, Types
<1>2. ASSUME NEW p \in Phones
      PROVE  Connected(p)'
  <2>1. Connected(p) /\ phone'[p] = phone[p]
    BY DEF IInv
  <2>2. conn[Socket(p)].open["phone"] => conn'[Socket(p)].open["phone"]
    <3>1. Socket(p) \in Sockets
      BY DEF IInv, Types, PhoneType, Socket, Sockets
    <3> QED  BY <3>1
  <2> QED  BY <2>1, <2>2, ConnectedStays
<1> QED  BY <1>1, <1>2 DEF IInv

LEMMA ListenStep == ASSUME IInv, Listen PROVE IInv'
<1>1. server' \in ServerType
  BY DEF IInv, Types, ServerType, Listen
<1>2. Served'
  BY DEF IInv, Types, ServerType, Listen, Served, InSession
<1>3. FirstServed'
  BY DEF IInv, Types, ServerType, Listen, FirstServed
<1>4. ASSUME NEW s \in Sockets
      PROVE  Linked(s)'
  <2>1. /\ server'.queue = server.queue /\ server'.peer = server.peer
        /\ server'.first = server.first /\ server'.step = server.step
    BY DEF IInv, Types, ServerType, Listen
  <2>2. /\ Served /\ Linked(s) /\ conn'[s] = conn[s] /\ protocolNum' = protocolNum
        /\ faults' = faults /\ phone' = phone
    BY DEF IInv, Listen
  <2>3. InQueue(s)' <=> InQueue(s)
    BY <2>1 DEF InQueue
  <2> QED  BY <2>1, <2>2, <2>3, LinkedStays
<1> QED  BY <1>1, <1>2, <1>3, <1>4, ServerTogether DEF IInv, Types, Listen

LEMMA AcceptStep == ASSUME IInv, Accept PROVE IInv'
<1> PICK a : a = Head(server.queue)
  OBVIOUS
<1>1. /\ server.stage = "accepting" /\ server.queue # <<>>
      /\ server' = [server EXCEPT !.stage = "session", !.step = 1,
                                  !.queue = Tail(server.queue), !.peer = a]
      /\ UNCHANGED <<protocolNum, phone, conn>> /\ faults \subseteq faults'
      /\ server.first /\ server.restarts > 0 /\ phone[a[1]].task = "localize" =>
            "early" \in faults'
  BY DEF Accept
<1>2. PICK q \in Seq(Sockets) : q = server.queue
  BY DEF IInv, Types, ServerType
<1>3. PICK l \in Nat : l = Len(q) /\ l > 0 /\ l <= Backlog
  BY <1>1, <1>2, LenProperties, EmptySeq DEF IInv, Served
<1>4. /\ a = q[1] /\ a \in Sockets /\ Tail(q) \in Seq(Sockets)
      /\ Len(Tail(q)) = l - 1
      /\ \A k \in 1 .. l - 1 : Tail(q)[k] = q[k + 1]
  BY <1>1, <1>2, <1>3, HeadTailProperties
<1>5. DOMAIN q = 1 .. l /\ DOMAIN Tail(q) = 1 .. l - 1
  BY <1>3, <1>4, LenProperties
<1>6. /\ server.peer = <<>> /\ conn[a].open["server"] /\ InQueue(a)
      /\ \A k, m \in 1 .. l : k # m => q[k] # q[m]
      /\ \A k \in 1 .. l : conn[q[k]].open["server"]
  BY <1>1, <1>2, <1>3, <1>4, <1>5 DEF IInv, Served, InSession, InQueue
<1>7. /\ server'.queue = Tail(q) /\ server'.peer = a /\ server'.stage = "session"
      /\ server'.step = 1 /\ server'.first = server.first
      /\ server'.listening = server.listening /\ server' \in ServerType
  <2>1. PICK t \in Seq(Sockets) : t = Tail(q)
    BY <1>4
  <2>2. server' = [server EXCEPT !.stage = "session", !.step = 1, !.queue = t, !.peer = a]
    BY <1>1, <1>2, <2>1
  <2>3. server \in ServerType
    BY DEF IInv, Types
  <2>4. t \in Seq(Sockets) /\ a \in Sockets
    BY <1>4, <2>1
  <2>5. /\ server'.queue = t /\ server'.peer = a /\ server'.stage = "session"
        /\ server'.step = 1 /\ server'.first = server.first
        /\ server'.listening = server.listening
    BY <2>2, <2>3 DEF ServerType
  <2>6. PICK r : r = Sockets \cup {<<>>}
    OBVIOUS
  <2>7. a \in r
    BY <2>4, <2>6
  <2>8. server' \in ServerType
    <3>1. /\ server' = [stage |-> "session", first |-> server.first, step |-> 1,
                        listening |-> server.listening, queue |-> t, peer |-> a,
                        restarts |-> server.restarts]
          /\ server.first \in BOOLEAN /\ server.listening \in BOOLEAN
          /\ server.restarts \in Nat
      BY <2>2, <2>3 DEF ServerType
    <3>2. 1 \in 1 .. 6
      OBVIOUS
    <3> QED  BY ONLY <2>4, <2>6, <2>7, <3>1, <3>2 DEF ServerType
  <2> QED  BY <2>1, <2>5, <2>8
<1>8. \A k \in 1 .. l - 1 : Tail(q)[k] # a
  BY <1>3, <1>4, <1>6
<1>9. ~InQueue(a)'
  BY <1>5, <1>7, <1>8 DEF InQueue
<1>10. ASSUME NEW s \in Sockets, s # a
       PROVE  InQueue(s)' <=> InQueue(s)
  <2>1. ASSUME NEW k \in 1 .. l - 1, Tail(q)[k] = s
        PROVE  \E m \in 1 .. l : q[m] = s
    BY <1>4, <2>1
  <2>2. ASSUME NEW m \in 1 .. l, q[m] = s
        PROVE  \E k \in 1 .. l - 1 : Tail(q)[k] = s
    <3>1. m - 1 \in 1 .. l - 1 /\ (m - 1) + 1 = m
      BY <1>4, <1>10, <2>2
    <3> QED  BY <1>4, <2>2, <3>1
  <2> QED  BY <1>2, <1>5, <1>7, <2>1, <2>2 DEF InQueue
<1>11. Served'
  <2>1. 1 <= End(protocolNum, Serving)
    BY DEF End
  <2>2. (1 <= End(protocolNum, Serving))'
    BY DEF End
  <2>3. Len(Tail(q)) <= Backlog
    BY <1>3, <1>4 DEF Backlog
  <2>4. \A k, m \in 1 .. l - 1 : k # m => Tail(q)[k] # Tail(q)[m]
    <3> SUFFICES ASSUME NEW k \in 1 .. l - 1, NEW m \in 1 .. l - 1, k # m
                 PROVE  Tail(q)[k] # Tail(q)[m]
      OBVIOUS
    <3>1. k + 1 \in 1 .. l /\ m + 1 \in 1 .. l /\ k + 1 # m + 1
      OBVIOUS
    <3> QED  BY <1>4, <1>6, <3>1
  <2>5. \A k \in 1 .. l - 1 : Tail(q)[k] # a /\ conn[Tail(q)[k]].open["server"]
    BY <1>4, <1>6, <1>8
  <2>6. server.listening
    BY <1>1 DEF IInv, Served
  <2> QED  BY <1>1, <1>4, <1>5, <1>6, <1>7, <2>2, <2>3, <2>4, <2>5, <2>6
           DEF Served, InSession
<1>12. FirstServed'
  BY <1>7 DEF FirstServed
<1>13. Linked(a)'
  <2>1. PICK task, i, served, j :
           At(protocolNum, task, i, served, j) /\ History(a, task, i, served, j)
    BY <1>4, <1>6, NoConnectionType DEF IInv, Linked
  <2>2. j = 1
    BY <1>4, <1>6, <2>1, Placed DEF History, ServerHolds
  <2>3. Serving \in Task /\ Serving' = Serving
    BY <1>7 DEF Serving, Task
  <2>4. /\ At(protocolNum, task, i, Serving, 1)
        /\ Exchange(protocolNum, conn[a], task, i, Serving, 1)
        /\ PhoneTook(protocolNum, task, i) = 0
    BY <2>1, <2>2, <2>3, Waits DEF History
  <2>5. conn[a].open["phone"] => PhoneHolds(a, task, i, Serving)'
    <3>1. ~(PhoneTook(protocolNum, task, i) > 0)
      BY <2>4
    <3> QED  BY <1>1, <2>1, <3>1 DEF History, PhoneHolds
  <2>6. conn[a].open["phone"] => Matched(task, Serving)'
    <3> SUFFICES ASSUME conn[a].open["phone"], ServerStays', server.first, task # "setup"
                 PROVE  FALSE
      BY <2>3 DEF Matched, Serving
    <3>1. phone[a[1]].task = "localize"
      BY <1>6, <2>1 DEF History, PhoneHolds, At, Task
    <3>2. server.restarts > 0
      BY <1>1, <1>4, <3>1, Placed DEF IInv, FirstServed, Types, ServerType
    <3> QED  BY <1>1, <3>1, <3>2 DEF ServerStays
  <2>7. ~conn[a].open["phone"] => PhoneLeft(task, i)'
    BY <1>1, <2>1 DEF History, PhoneLeft, PhonesStay
  <2>8. ServerHolds(a, Serving, 1)'
    BY <1>7, <2>3 DEF ServerHolds
  <2>9. History(a, task, i, Serving, 1)'
    BY <1>1, <1>6, <2>3, <2>4, <2>5, <2>6, <2>7, <2>8 DEF History
  <2> QED  BY <1>1, <1>6, <2>3, <2>4, <2>9 DEF Linked
<1>14. ASSUME NEW s \in Sockets, s # a
       PROVE  Linked(s)'
  <2>1. s # server.peer
    BY <1>6, Placed
  <2> QED  BY <1>1, <1>10, <1>14, <2>1, LinkedStays DEF IInv
<1> QED  BY <1>1, <1>7, <1>11, <1>12, <1>13, <1>14, ServerTogether DEF IInv, Types

\* A send or a recv of the server, which gives its connection the value d.
LEMMA ServerMoves ==
    ASSUME IInv, server.stage = "session", UNCHANGED <<protocolNum, phone, faults>>,
           server' = [server EXCEPT !.step = server.step + 1],
           NEW d \in ConnectionType, conn' = [conn EXCEPT ![server.peer] = d],
           d.open = conn[server.peer].open,
           \A task, i :
              /\ At(protocolNum, task, i, Serving, server.step)
              /\ Exchange(protocolNum, conn[server.peer], task, i, Serving, server.step)
              => /\ At(protocolNum, task, i, Serving, server.step + 1)
                 /\ Exchange(protocolNum, d, task, i, Serving, server.step + 1)
    PROVE  IInv'
<1>1. Types /\ Served /\ InSession /\ \A s \in Sockets : Linked(s)
  BY DEF IInv, InSession
<1>2. /\ server.peer \in Sockets /\ conn[server.peer].open["server"]
      /\ ~InQueue(server.peer)
  BY <1>1, PeerHistory
<1>3. PICK task, i : /\ At(protocolNum, task, i, Serving, server.step)
                     /\ History(server.peer, task, i, Serving, server.step)
  BY <1>1, PeerHistory
<1>4. /\ At(protocolNum, task, i, Serving, server.step + 1)
      /\ Exchange(protocolNum, d, task, i, Serving, server.step + 1)
  BY <1>3 DEF History
<1>5. server.step + 1 \in 1 .. 6 /\ server.step + 1 <= End(protocolNum, Serving)
  BY <1>4 DEF At, End
<1>6. /\ server' \in ServerType /\ server'.step = server.step + 1
      /\ server'.stage = "session" /\ server'.first = server.first
      /\ server'.listening = server.listening /\ server'.queue = server.queue
      /\ server'.peer = server.peer
  BY <1>1, <1>5 DEF Types, ServerType
<1>7. /\ conn' \in [Sockets -> ConnectionType] /\ conn'[server.peer] = d
      /\ \A s \in Sockets \ {server.peer} : conn'[s] = conn[s]
      /\ \A s \in Sockets : conn'[s].open = conn[s].open
  BY <1>1, <1>2 DEF Types
<1>8. Serving' = Serving /\ \A s : InQueue(s)' <=> InQueue(s)
  BY <1>6 DEF Serving, InQueue
<1>9. Served'
  <2>1. server.step + 1 <= End(protocolNum, Serving)'
    BY <1>5, <1>8 DEF End
  <2>2. \A k \in DOMAIN server.queue : server.queue[k] \in Sockets
    BY <1>1 DEF Types, ServerType
  <2> QED  BY <1>1, <1>2, <1>6, <1>7, <2>1, <2>2 DEF Served, InSession
<1>10. FirstServed'
  BY <1>6 DEF FirstServed
<1>11. ASSUME NEW s \in Sockets, s = server.peer
       PROVE  Linked(s)'
  <2>1. PICK served, j : served = Serving /\ j = server.step + 1
    OBVIOUS
  <2>2. /\ History(s, task, i, served, server.step) /\ At(protocolNum, task, i, served, j)
        /\ Exchange(protocolNum, d, task, i, served, j)
    BY <1>3, <1>4, <1>11, <2>1
  <2>3. conn'[s] = d /\ d.open = conn[s].open /\ conn[s].open["server"] /\ ~InQueue(s)'
    BY <1>2, <1>7, <1>8, <1>11
  <2>4. d.open["phone"] => PhoneHolds(s, task, i, served)'
    BY <2>2, <2>3 DEF History, PhoneHolds
  <2>5. ServerHolds(s, served, j)'
    BY <1>6, <1>8, <1>11, <2>1 DEF ServerHolds
  <2>6. /\ ~d.open["phone"] => PhoneLeft(task, i)'
        /\ d.open["phone"] => Matched(task, served)'
    <3>1. ~InQueue(s)
      BY <1>2, <1>11
    <3> QED  BY <2>2, <2>3, <3>1 DEF History, PhoneLeft, PhonesStay, Matched, ServerStays
  <2>7. History(s, task, i, served, j)'
    BY <2>2, <2>3, <2>4, <2>5, <2>6 DEF History
  <2> QED  BY <2>2, <2>3, <2>7 DEF Linked
<1>12. ASSUME NEW s \in Sockets, s # server.peer
       PROVE  Linked(s)'
  BY <1>1, <1>7, <1>8, <1>12, LinkedStays
<1> QED  BY <1>6, <1>7, <1>9, <1>10, <1>11, <1>12, ServerTogether

LEMMA ServerCall ==
    ASSUME IInv, NEW dir, ServerAt(dir)
    PROVE  /\ server.stage = "session" /\ Types /\ Served /\ InSession
           /\ \A s \in Sockets : Linked(s)
           /\ server.step <= Len(ServerScriptFor(protocolNum, Serving))
           /\ server.step < End(protocolNum, Serving)
           /\ ServerStep = ServerStepFor(protocolNum, Serving, server.step)
           /\ ServerStepFor(protocolNum, Serving, server.step).dir = dir
<1>1. Types /\ Served /\ \A s \in Sockets : Linked(s)
  BY DEF IInv
<1>2. /\ server.stage = "session" /\ server.step <= Len(ServerScript)
      /\ ServerStep.dir = dir /\ InSession
  BY DEF ServerAt, InSession
<1>3. ServerScript = ServerScriptFor(protocolNum, Serving) /\ Serving \in Task
  BY <1>1, ScriptsInUse
<1>4. ServerStep = ServerStepFor(protocolNum, Serving, server.step)
  BY <1>3 DEF ServerStep, ServerStepFor
<1>5. /\ Len(ServerScriptFor(protocolNum, Serving)) + 1 = End(protocolNum, Serving)
      /\ server.step \in Int /\ End(protocolNum, Serving) \in Int
  BY <1>1, <1>3, Scripts DEF Types, ServerType, End
<1>6. server.step < End(protocolNum, Serving)
  <2>1. PICK l : l = Len(ServerScriptFor(protocolNum, Serving))
    OBVIOUS
  <2>2. l \in Nat
    BY <1>1, <1>3, <2>1 DEF Types, ServerScriptFor, ServerParameters, ServerLocalization,
       Seeds, Send, Recv, Task
  <2> QED  BY <1>2, <1>3, <1>5, <2>1, <2>2
<1> QED  BY <1>1, <1>2, <1>3, <1>4, <1>6

LEMMA ServerSendStep == ASSUME IInv, ServerSend PROVE IInv'
<1> PICK step, kind, d : /\ step = ServerStepFor(protocolNum, Serving, server.step)
                         /\ kind = step.kind
                         /\ d = Sent(conn[server.peer], "server", kind)
  OBVIOUS
<1>1. /\ server.stage = "session" /\ Types /\ Served /\ InSession
      /\ \A s \in Sockets : Linked(s)
      /\ server.step <= Len(ServerScriptFor(protocolNum, Serving))
      /\ ServerStep = step /\ step.dir = "send"
  <2>1. PICK dir : dir = "send"
    OBVIOUS
  <2>2. ServerAt(dir)
    BY <2>1 DEF ServerSend
  <2> QED  BY <2>1, <2>2, ServerCall
<1>2. /\ UNCHANGED <<protocolNum, phone, faults>>
      /\ server' = [server EXCEPT !.step = server.step + 1]
      /\ conn' = [conn EXCEPT ![server.peer] = d]
  BY <1>1 DEF ServerSend
<1>3. conn[server.peer] \in ConnectionType
  BY <1>1, PeerHistory
<1>4. kind \in Kinds
  <2>1. PICK task, i : At(protocolNum, task, i, Serving, server.step)
    BY <1>1, PeerHistory
  <2> QED  BY <1>1, <2>1, ServerSteps
<1>5. d \in ConnectionType /\ d.open = conn[server.peer].open
  <2>1. PICK side \in Side : side = "server"
    BY DEF Side
  <2> QED  BY <1>3, <1>4, <2>1, SentEffect
<1>6. ASSUME NEW task, NEW i, At(protocolNum, task, i, Serving, server.step),
             Exchange(protocolNum, conn[server.peer], task, i, Serving, server.step)
      PROVE  /\ At(protocolNum, task, i, Serving, server.step + 1)
             /\ Exchange(protocolNum, d, task, i, Serving, server.step + 1)
  <2>1. At(protocolNum, task, i, Serving, server.step + 1)
    BY <1>1, <1>6, ServerSteps
  <2>2. Exchange(protocolNum, d, task, i, Serving, server.step + 1)
    BY <1>1, <1>3, <1>6, ServerSends
  <2> QED  BY <2>1, <2>2
<1> QED  BY <1>1, <1>2, <1>5, <1>6, ServerMoves

LEMMA ServerRecvStep == ASSUME IInv, ServerRecv PROVE IInv'
<1> PICK step, kind, d : /\ step = ServerStepFor(protocolNum, Serving, server.step)
                         /\ kind = step.kind
                         /\ d = Taken(conn[server.peer], "server", kind)
  OBVIOUS
<1>1. /\ server.stage = "session" /\ Types /\ Served /\ InSession
      /\ \A s \in Sockets : Linked(s)
      /\ server.step <= Len(ServerScriptFor(protocolNum, Serving))
      /\ ServerStep = step /\ step.dir = "recv"
  <2>1. PICK dir : dir = "recv"
    OBVIOUS
  <2>2. ServerAt(dir)
    BY <2>1 DEF ServerRecv
  <2> QED  BY <2>1, <2>2, ServerCall
<1>2. /\ UNCHANGED <<protocolNum, phone, faults>>
      /\ server' = [server EXCEPT !.step = server.step + 1]
      /\ conn' = [conn EXCEPT ![server.peer] = d]
      /\ Enough(conn[server.peer], "server", kind)
  BY <1>1 DEF ServerRecv, Peer
<1>3. conn[server.peer] \in ConnectionType /\ conn[server.peer].open["server"]
  BY <1>1, PeerHistory
<1>4. kind \in Kinds
  <2>1. PICK task, i : At(protocolNum, task, i, Serving, server.step)
    BY <1>1, PeerHistory
  <2> QED  BY <1>1, <2>1, ServerSteps
<1>5. d \in ConnectionType /\ d.open = conn[server.peer].open
  <2>1. PICK side \in Side : side = "server"
    BY DEF Side
  <2> QED  BY <1>2, <1>3, <1>4, <2>1, TakenEffect
<1>6. ASSUME NEW task, NEW i, At(protocolNum, task, i, Serving, server.step),
             Exchange(protocolNum, conn[server.peer], task, i, Serving, server.step)
      PROVE  /\ At(protocolNum, task, i, Serving, server.step + 1)
             /\ Exchange(protocolNum, d, task, i, Serving, server.step + 1)
  <2>1. At(protocolNum, task, i, Serving, server.step + 1)
    BY <1>1, <1>6, ServerSteps
  <2>2. Exchange(protocolNum, d, task, i, Serving, server.step + 1)
    BY <1>1, <1>2, <1>3, <1>6, ServerTakes
  <2> QED  BY <2>1, <2>2
<1> QED  BY <1>1, <1>2, <1>5, <1>6, ServerMoves

\* A connection that is dropped from the queue.
LEMMA LinkedDropped ==
    ASSUME Types, Served, NEW s \in Sockets, Linked(s), InQueue(s),
           conn'[s] = Dropped(conn[s]), UNCHANGED <<protocolNum, phone>>,
           "dropped" \in faults'
    PROVE  Linked(s)'
<1> PICK d : d = Dropped(conn[s])
  OBVIOUS
<1>1. conn[s] \in ConnectionType /\ conn[s].open["server"]
  BY DEF Types, Served, InQueue
<1>2. /\ ~conn[s].open["phone"] => d = NoConnection
      /\ conn[s].open["phone"] => ~d.open["server"] /\ d.open["phone"]
  BY <1>1, DroppedEffect
<1>3. CASE ~conn[s].open["phone"]
  BY <1>2, <1>3 DEF Linked, NoConnection
<1>4. CASE conn[s].open["phone"]
  <2>1. PICK task, i, served, j :
           At(protocolNum, task, i, served, j) /\ History(s, task, i, served, j)
    BY <1>1, NoConnectionType DEF Linked
  <2>2. Exchange(protocolNum, d, task, i, served, j)
    BY <1>1, <1>4, <2>1, Drops DEF History
  <2>3. PhoneHolds(s, task, i, served)'
    BY <1>2, <1>4, <2>1 DEF History, PhoneHolds
  <2>4. ServerLeft(task, i, served, j)' /\ Matched(task, served)'
    BY DEF ServerLeft, Matched, ServerStays
  <2>5. History(s, task, i, served, j)'
    BY <1>2, <1>4, <2>2, <2>3, <2>4 DEF History
  <2> QED  BY <1>2, <1>4, <2>1, <2>5 DEF Linked
<1> QED  BY <1>3, <1>4

\* The session's connection when the server closes it: the session is over, or
\* only its log is missing, or the phone has gone, or the server was stopped.
LEMMA LinkedClosed ==
    ASSUME Types, Served, InSession, \A s \in Sockets : Linked(s),
           NEW s \in Sockets, s = server.peer, conn'[s] = Closed(conn[s], "server"),
           UNCHANGED <<protocolNum, phone>>, faults \subseteq faults',
           \/ ~conn[s].open["phone"]
           \/ ~ServerStays'
           \/ server.step = End(protocolNum, Serving)
           \/ /\ Serving = "localize" /\ server.step = End(protocolNum, Serving) - 1
              /\ Enough(conn[s], "server", "log")
    PROVE  Linked(s)'
<1> PICK d, side : d = Closed(conn[s], side) /\ side = "server"
  OBVIOUS
<1>1. conn[s] \in ConnectionType /\ conn[s].open["server"] /\ ~InQueue(s)
  BY PeerHistory
<1>2. side \in Side /\ Other(side) = "phone"
  BY Sides
<1>3. /\ ~conn[s].open["phone"] => d = NoConnection
      /\ conn[s].open["phone"] => ~d.open["server"] /\ d.open["phone"]
  BY <1>1, <1>2, ClosedEffect
<1>4. CASE ~conn[s].open["phone"]
  BY <1>3, <1>4 DEF Linked, NoConnection
<1>5. CASE conn[s].open["phone"]
  <2>1. PICK served, j : served = Serving /\ j = server.step
    OBVIOUS
  <2>2. PICK task, i :
           At(protocolNum, task, i, served, j) /\ History(s, task, i, served, j)
    BY <2>1, PeerHistory
  <2>3. Exchange(protocolNum, d, task, i, served, j)
    BY <1>1, <1>2, <1>5, <2>2, Closes DEF History
  <2>4. PhoneHolds(s, task, i, served)'
    BY <1>3, <1>5, <2>2 DEF History, PhoneHolds
  <2>5. Matched(task, served)'
    BY <1>1, <1>5, <2>2 DEF History, Matched, ServerStays
  <2>6. ServerLeft(task, i, served, j)'
    <3>1. CASE ~ServerStays'
      BY <3>1 DEF ServerLeft
    <3>2. CASE served = "setup" /\ j = End(protocolNum, served)
      BY <3>2 DEF ServerLeft, End
    <3>3. CASE /\ served = "localize"
               /\ \/ j = End(protocolNum, served)
                  \/ j = End(protocolNum, served) - 1 /\ Enough(conn[s], "server", "log")
      <4>1. /\ PhoneTook(protocolNum, task, i) <= ServerSent(protocolNum, served, j)
            /\ ServerTook(protocolNum, served, j) <= PhoneSent(protocolNum, task, i)
            /\ Len(conn[s].inbox["server"])
                  = PhoneSent(protocolNum, task, i) - ServerTook(protocolNum, served, j)
        BY <1>1, <2>2 DEF History, Exchange
      <4>2. Enough(conn[s], "server", "log") =>
               Blocks["log"] <= PhoneSent(protocolNum, task, i) - ServerTook(protocolNum, served, j)
        BY <4>1, <2>2, Tables DEF Enough, Blocks
      <4>3. i = End(protocolNum, task)
        BY <2>2, <3>3, <4>1, <4>2, ServerThrough
      <4> QED  BY <3>3, <4>3 DEF ServerLeft, End
    <3>4. served = "setup" \/ served = "localize"
      BY <2>2 DEF At, Task
    <3> QED  BY <1>5, <2>1, <3>1, <3>2, <3>3, <3>4
  <2>7. History(s, task, i, served, j)'
    BY <1>3, <1>5, <2>3, <2>4, <2>5, <2>6 DEF History
  <2> QED  BY <1>3, <1>5, <2>2, <2>7 DEF Linked
<1> QED  BY <1>4, <1>5

LEMMA CloseListenerStep == ASSUME IInv, CloseListener PROVE IInv'
<1>1. /\ Types /\ Served /\ InSession /\ \A s \in Sockets : Linked(s)
      /\ server.stage = "session"
  BY DEF IInv, InSession, CloseListener
<1>2. server.step = End(protocolNum, Serving)
  <2>1. Len(ServerScriptFor(protocolNum, Serving)) + 1 = End(protocolNum, Serving)
    BY <1>1, ScriptsInUse, Scripts DEF Types
  <2>2. server.step > Len(ServerScriptFor(protocolNum, Serving))
    BY <1>1, ScriptsInUse DEF CloseListener
  <2>3. server.step <= End(protocolNum, Serving)
    BY <1>1 DEF Served
  <2>4. PICK l : l = Len(ServerScriptFor(protocolNum, Serving))
    OBVIOUS
  <2>5. l \in Nat /\ server.step \in Nat /\ End(protocolNum, Serving) \in Nat
    BY <1>1, <2>4 DEF Types, ServerType, ServerScriptFor, ServerParameters, ServerLocalization,
       Seeds, Send, Recv, End
  <2> QED  BY <2>1, <2>2, <2>3, <2>4, <2>5
<1>3. /\ server' \in ServerType /\ server'.stage = "closing" /\ server'.listening = FALSE
      /\ server'.queue = <<>> /\ server'.peer = server.peer
      /\ server'.step = server.step /\ server'.first = server.first
  <2>1. PICK q : q = <<>>
    OBVIOUS
  <2>2. q \in Seq(Sockets)
    BY <2>1, EmptySeq
  <2>3. server' = [server EXCEPT !.stage = "closing", !.listening = FALSE, !.queue = q]
    BY <2>1 DEF CloseListener
  <2>4. server \in ServerType
    BY <1>1 DEF Types
  <2>5. server' = [stage |-> "closing", first |-> server.first, step |-> server.step,
                  listening |-> FALSE, queue |-> q, peer |-> server.peer,
                  restarts |-> server.restarts]
    BY <2>3, <2>4 DEF ServerType
  <2>6. server' \in ServerType
    BY <2>2, <2>4, <2>5 DEF ServerType
  <2> QED  BY <2>1, <2>5, <2>6
<1>4. /\ UNCHANGED <<protocolNum, phone>> /\ faults \subseteq faults'
      /\ \A s \in Sockets : conn'[s] = IF InQueue(s) THEN Dropped(conn[s]) ELSE conn[s]
  BY DEF CloseListener
<1>5. conn' \in [Sockets -> ConnectionType]
  <2>1. ASSUME NEW s \in Sockets
        PROVE  (IF InQueue(s) THEN Dropped(conn[s]) ELSE conn[s]) \in ConnectionType
    BY <1>1, DroppedEffect DEF Types
  <2> QED  BY <2>1 DEF CloseListener
<1>6. ASSUME NEW s \in Sockets, conn[s].open["phone"]
      PROVE  conn'[s].open["phone"]
  BY <1>1, <1>4, <1>6, DroppedEffect DEF Types
<1>7. ASSUME NEW s \in Sockets
      PROVE  ~InQueue(s)' /\ (InQueue(s) => "dropped" \in faults')
  BY <1>3 DEF InQueue, CloseListener
<1>8. Serving' = Serving
  BY <1>3 DEF Serving
<1>9. /\ server.peer \in Sockets /\ conn[server.peer].open["server"] /\ ~InQueue(server.peer)
  BY <1>1, PeerHistory
<1>10. Served'
  <2>1. (server.step = End(protocolNum, Serving))'
    BY <1>2, <1>3, <1>4, <1>8 DEF End
  <2>2. End(protocolNum, Serving)' \in Int
    BY DEF End
  <2> QED  BY <1>3, <1>4, <1>9, <2>1, <2>2 DEF Served, InSession, Backlog
<1>11. FirstServed'
  BY <1>3 DEF FirstServed
<1>12. ASSUME NEW s \in Sockets
       PROVE  Linked(s)'
  <2>1. CASE InQueue(s)
    BY <1>1, <1>4, <1>7, <2>1, LinkedDropped
  <2>2. CASE ~InQueue(s)
    BY <1>1, <1>3, <1>4, <1>7, <2>2, LinkedStays
  <2> QED  BY <2>1, <2>2
<1> QED  BY <1>3, <1>4, <1>5, <1>6, <1>10, <1>11, <1>12, ServerTogether

LEMMA CloseConnectionStep == ASSUME IInv, CloseConnection PROVE IInv'
<1>1. /\ Types /\ Served /\ InSession /\ \A s \in Sockets : Linked(s)
      /\ server.stage = "closing"
  BY DEF IInv, InSession, CloseConnection
<1>2. /\ server.step = End(protocolNum, Serving) /\ server.queue = <<>> /\ ~server.listening
  BY <1>1 DEF Served
<1>3. /\ server' \in ServerType /\ server'.stage = "off" /\ server'.first = FALSE
      /\ server'.peer = <<>> /\ server'.queue = server.queue
      /\ server'.listening = server.listening
  BY <1>1 DEF Types, ServerType, CloseConnection
<1>4. /\ server.peer \in Sockets /\ ~InQueue(server.peer)
      /\ conn[server.peer] \in ConnectionType
  BY <1>1, PeerHistory
<1>5. /\ UNCHANGED <<protocolNum, phone, faults>>
      /\ conn'[server.peer] = Closed(conn[server.peer], "server")
      /\ \A s \in Sockets \ {server.peer} : conn'[s] = conn[s]
  BY <1>1, <1>4 DEF CloseConnection, Types
<1>6. /\ Closed(conn[server.peer], "server") \in ConnectionType
      /\ conn[server.peer].open["phone"] => conn'[server.peer].open["phone"]
  <2>1. PICK side \in Side : side = "server" /\ Other(side) = "phone"
    BY Sides
  <2> QED  BY <1>4, <1>5, <2>1, ClosedEffect
<1>7. /\ conn' \in [Sockets -> ConnectionType]
      /\ \A s \in Sockets : conn[s].open["phone"] => conn'[s].open["phone"]
  BY <1>1, <1>5, <1>6 DEF CloseConnection, Types
<1>8. Served'
  BY <1>2, <1>3 DEF Served, InSession, Backlog
<1>9. FirstServed'
  BY <1>3 DEF FirstServed
<1>10. ASSUME NEW s \in Sockets
       PROVE  Linked(s)'
  <2>1. CASE s = server.peer
    BY <1>1, <1>2, <1>5, <2>1, LinkedClosed
  <2>2. CASE s # server.peer
    BY <1>1, <1>3, <1>5, <2>2, LinkedStays DEF InQueue
  <2> QED  BY <2>1, <2>2
<1> QED  BY <1>3, <1>5, <1>7, <1>8, <1>9, <1>10, ServerTogether

\* The server ends, or is stopped and started again.
LEMMA ServerEndsStep ==
    ASSUME IInv, NEW next \in ServerType, NEW fault, ServerEnds(next, fault),
           next.stage \in {"off", "dead"}, next.stage = "dead" => ~PhonesStay',
           next.restarts = 0 => next.stage = "dead",
           ~next.listening, next.queue = <<>>, next.peer = <<>>,
           InSession =>
              \/ ~conn[server.peer].open["phone"]
              \/ ~ServerStays'
              \/ server.step = End(protocolNum, Serving)
              \/ /\ Serving = "localize" /\ server.step = End(protocolNum, Serving) - 1
                 /\ Enough(conn[server.peer], "server", "log")
    PROVE  IInv'
<1>1. Types /\ Served /\ \A s \in Sockets : Linked(s)
  BY DEF IInv
<1>2. /\ UNCHANGED <<protocolNum, phone>> /\ faults \subseteq faults' /\ server' = next
      /\ conn' = [s \in Sockets |->
                    CASE InQueue(s) -> Dropped(conn[s])
                      [] s = server.peer -> Closed(conn[s], "server")
                      [] OTHER -> conn[s]]
      /\ server.queue # <<>> => "dropped" \in faults'
  BY DEF ServerEnds
<1>3. ASSUME NEW s \in Sockets
      PROVE  /\ InQueue(s) => s # server.peer
             /\ InQueue(s) => conn'[s] = Dropped(conn[s])
             /\ ~InQueue(s) /\ s = server.peer => conn'[s] = Closed(conn[s], "server")
             /\ ~InQueue(s) /\ s # server.peer => conn'[s] = conn[s]
  BY <1>1, <1>2 DEF Served, InQueue
<1>4. ASSUME NEW s \in Sockets, s = server.peer
      PROVE  InSession
  BY <1>1, <1>4, Placed DEF Served
<1>5. ASSUME NEW s \in Sockets
      PROVE  conn'[s] \in ConnectionType /\ (conn[s].open["phone"] => conn'[s].open["phone"])
  <2>1. conn[s] \in ConnectionType
    BY <1>1 DEF Types
  <2>2. PICK side \in Side : side = "server" /\ Other(side) = "phone"
    BY Sides
  <2>3. /\ Closed(conn[s], "server") \in ConnectionType
        /\ conn[s].open["phone"] => Closed(conn[s], "server").open["phone"]
    BY <2>1, <2>2, ClosedEffect
  <2>4. /\ Dropped(conn[s]) \in ConnectionType
        /\ conn[s].open["phone"] => Dropped(conn[s]).open["phone"]
    BY <2>1, DroppedEffect
  <2> QED  BY <1>3, <2>1, <2>3, <2>4
<1>6. conn' \in [Sockets -> ConnectionType]
  BY <1>2, <1>5
<1>7. Served'
  BY <1>2 DEF Served, InSession, Backlog
<1>8. FirstServed'
  BY <1>2 DEF FirstServed
<1>9. ASSUME NEW s \in Sockets
      PROVE  Linked(s)'
  <2>1. CASE InQueue(s)
    <3>1. "dropped" \in faults'
      BY <1>2, <2>1 DEF InQueue
    <3> QED  BY <1>1, <1>2, <1>3, <2>1, <3>1, LinkedDropped
  <2>2. CASE ~InQueue(s) /\ s = server.peer
    <3>1. InSession /\ conn'[s] = Closed(conn[s], "server")
      BY <1>3, <1>4, <2>2
    <3> QED  BY <1>1, <1>2, <2>2, <3>1, LinkedClosed
  <2>3. CASE ~InQueue(s) /\ s # server.peer
    <3>1. ~InQueue(s)'
      BY <1>2 DEF InQueue
    <3> QED  BY <1>1, <1>2, <1>3, <2>3, <3>1, LinkedStays
  <2> QED  BY <2>1, <2>2, <2>3
<1> QED  BY <1>2, <1>5, <1>6, <1>7, <1>8, <1>9, ServerTogether

LEMMA ServerDiesStep ==
    ASSUME IInv, NEW fault, ServerDies(fault), ~PhonesStay', InSession,
           \/ ~conn[server.peer].open["phone"]
           \/ /\ Serving = "localize" /\ server.step = End(protocolNum, Serving) - 1
              /\ Enough(conn[server.peer], "server", "log")
    PROVE  IInv'
<1> PICK next : next = [NewServer(server.restarts) EXCEPT !.stage = "dead"]
  OBVIOUS
<1>1. /\ next \in ServerType /\ next.stage = "dead" /\ ~next.listening
      /\ next.queue = <<>> /\ next.peer = <<>>
  <2>1. PICK q : q = <<>>
    OBVIOUS
  <2>2. q \in Seq(Sockets) /\ server.restarts \in Nat
    BY <2>1, EmptySeq DEF IInv, Types, ServerType
  <2>3. next = [stage |-> "dead", first |-> TRUE, step |-> 1, listening |-> FALSE,
                queue |-> q, peer |-> q, restarts |-> server.restarts]
    BY <2>1 DEF NewServer
  <2>4. PICK peers : peers = Sockets \cup {<<>>}
    OBVIOUS
  <2>5. next \in ServerType
    <3>1. q \in peers
      BY <2>1, <2>4
    <3> QED  BY ONLY <2>2, <2>3, <2>4, <3>1 DEF ServerType
  <2> QED  BY <2>1, <2>3, <2>5
<1>2. ServerEnds(next, fault)
  BY DEF ServerDies
<1> QED  BY <1>1, <1>2, ServerEndsStep

\* When its peer is gone and recv lacks data or send meets a reset, the phone of
\* the session has not returned from its task: it was killed.
LEMMA PeerGone ==
    ASSUME IInv, NEW dir, ServerAt(dir), ~conn[server.peer].open["phone"],
           dir = "send" \/ ~Enough(conn[server.peer], "server", ServerStep.kind)
    PROVE  ~PhonesStay
<1> SUFFICES ASSUME PhonesStay PROVE FALSE
  OBVIOUS
<1>1. /\ Types /\ Served /\ InSession /\ \A s \in Sockets : Linked(s)
      /\ server.step < End(protocolNum, Serving)
      /\ server.step <= Len(ServerScriptFor(protocolNum, Serving))
      /\ ServerStep = ServerStepFor(protocolNum, Serving, server.step)
      /\ ServerStepFor(protocolNum, Serving, server.step).dir = dir
  BY ServerCall
<1>2. conn[server.peer].open["server"]
  BY <1>1, PeerHistory
<1>3. PICK task, i : /\ At(protocolNum, task, i, Serving, server.step)
                     /\ History(server.peer, task, i, Serving, server.step)
  BY <1>1, PeerHistory
<1> PICK j, served : j = server.step /\ served = Serving
  OBVIOUS
<1>4. /\ i = End(protocolNum, task)
      /\ PhoneTook(protocolNum, task, i) <= ServerSent(protocolNum, served, j)
      /\ ServerTook(protocolNum, served, j) <= PhoneSent(protocolNum, task, i)
      /\ Len(conn[server.peer].inbox["server"])
            = PhoneSent(protocolNum, task, i) - ServerTook(protocolNum, served, j)
  BY <1>2, <1>3 DEF History, Exchange, PhoneLeft
<1>5. /\ ServerStepFor(protocolNum, served, j).dir = "recv"
      /\ Blocks[ServerStepFor(protocolNum, served, j).kind]
            <= PhoneSent(protocolNum, task, i) - ServerTook(protocolNum, served, j)
  BY <1>1, <1>3, <1>4, PhoneThrough
<1>6. ServerStepFor(protocolNum, served, j).kind \in Kinds
  BY <1>1, <1>3, ServerSteps
<1>7. Enough(conn[server.peer], "server", ServerStep.kind)
  <2>1. PICK x, y : x = PhoneSent(protocolNum, task, i) - ServerTook(protocolNum, served, j)
                    /\ y = Blocks[ServerStepFor(protocolNum, served, j).kind]
    OBVIOUS
  <2>2. x \in Int /\ y \in Int
    BY <1>3, <1>6, <2>1, Tables DEF Blocks, Kinds
  <2>3. Len(conn[server.peer].inbox["server"]) = x /\ y <= x
    BY <1>4, <1>5, <2>1
  <2> QED  BY <1>1, <2>1, <2>2, <2>3 DEF Enough
<1> QED  BY <1>1, <1>5, <1>7

LEMMA ServerFailsStep == ASSUME IInv, ServerFails PROVE IInv'
<1>1. CASE /\ ServerAt("recv") /\ RecvFails(Peer, "server", ServerStep.kind)
           /\ AfterFailure(Peer) = "dead" /\ ServerDies({})
  <2>1. PICK dir, none : dir = "recv" /\ none = {}
    OBVIOUS
  <2>2. ServerAt(dir) /\ ServerDies(none)
    BY <1>1, <2>1
  <2>3. InSession
    BY <2>2, ServerCall
  <2>4. ~conn[server.peer].open["phone"]
    <3>1. PICK task, i : History(server.peer, task, i, Serving, server.step)
      BY <2>2, ServerCall, PeerHistory
    <3>2. conn[server.peer].open["server"]
      BY <2>2, ServerCall, PeerHistory
    <3>3. conn[server.peer].reset
      BY <1>1 DEF AfterFailure, Peer
    <3> QED  BY <3>1, <3>2, <3>3 DEF History, Exchange
  <2>5. ~PhonesStay
    BY <1>1, <2>2, <2>4, PeerGone DEF RecvFails, Peer
  <2>6. ~PhonesStay'
    BY <2>2, <2>5 DEF ServerDies, ServerEnds, PhonesStay
  <2> QED  BY <2>2, <2>3, <2>4, <2>6, ServerDiesStep
<1>2. CASE /\ ServerAt("recv") /\ RecvFails(Peer, "server", ServerStep.kind)
           /\ AfterFailure(Peer) = "spinning"
           /\ server' = [server EXCEPT !.stage = "spinning"]
           /\ UNCHANGED <<protocolNum, phone, conn, faults>>
  <2>1. PICK dir : dir = "recv"
    OBVIOUS
  <2>2. ServerAt(dir)
    BY <1>2, <2>1
  <2>3. /\ server.stage = "session" /\ Types /\ Served /\ InSession
        /\ \A s \in Sockets : Linked(s)
    BY <2>2, ServerCall
  <2>4. ~conn[server.peer].open["phone"]
    BY <1>2, Sides DEF AfterFailure, RecvFails, Peer
  <2>5. ~PhonesStay'
    BY <1>2, <2>2, <2>4, PeerGone DEF RecvFails, Peer, PhonesStay
  <2>6. /\ server' \in ServerType /\ server'.stage = "spinning"
        /\ server'.first = server.first /\ server'.step = server.step
        /\ server'.listening = server.listening /\ server'.queue = server.queue
        /\ server'.peer = server.peer
    BY <1>2, <2>3 DEF Types, ServerType
  <2>7. Serving' = Serving /\ \A s : InQueue(s)' <=> InQueue(s)
    BY <2>6 DEF Serving, InQueue
  <2>8. Served'
    <3>1. (server.step <= End(protocolNum, Serving))'
      BY <1>2, <2>3, <2>6, <2>7 DEF Served, End
    <3> QED  BY <1>2, <2>3, <2>4, <2>5, <2>6, <3>1 DEF Served, InSession
  <2>9. FirstServed'
    BY <2>6 DEF FirstServed
  <2>10. ASSUME NEW s \in Sockets
         PROVE  Linked(s)'
    BY <1>2, <2>3, <2>6, <2>7, LinkedStays
  <2> QED  BY <1>2, <2>3, <2>6, <2>8, <2>9, <2>10, ServerTogether DEF Types
<1>3. CASE ServerAt("send") /\ Peer.reset /\ ServerDies({})
  <2>1. PICK dir, none : dir = "send" /\ none = {}
    OBVIOUS
  <2>2. ServerAt(dir) /\ ServerDies(none)
    BY <1>3, <2>1
  <2>3. InSession
    BY <2>2, ServerCall
  <2>4. ~conn[server.peer].open["phone"]
    <3>1. PICK task, i : History(server.peer, task, i, Serving, server.step)
      BY <2>2, ServerCall, PeerHistory
    <3>2. conn[server.peer].open["server"]
      BY <2>2, ServerCall, PeerHistory
    <3> QED  BY <1>3, <3>1, <3>2 DEF History, Exchange, Peer
  <2>5. ~PhonesStay
    BY <2>1, <2>2, <2>4, PeerGone
  <2>6. ~PhonesStay'
    BY <2>2, <2>5 DEF ServerDies, ServerEnds, PhonesStay
  <2> QED  BY <2>2, <2>3, <2>4, <2>6, ServerDiesStep
<1> QED  BY <1>1, <1>2, <1>3 DEF ServerFails

LEMMA LogFailsStep == ASSUME IInv, LogFails PROVE IInv'
<1>1. PICK dir, fault : dir = "recv" /\ fault = {"log"}
  OBVIOUS
<1>2. ServerAt(dir) /\ ServerDies(fault)
  BY <1>1 DEF LogFails
<1>3. /\ Types /\ Served /\ InSession /\ \A s \in Sockets : Linked(s)
      /\ server.step < End(protocolNum, Serving)
      /\ server.step <= Len(ServerScriptFor(protocolNum, Serving))
      /\ ServerStep = ServerStepFor(protocolNum, Serving, server.step)
  BY <1>2, ServerCall
<1>4. PICK task, i : At(protocolNum, task, i, Serving, server.step)
  BY <1>3, PeerHistory
<1>5. /\ ServerStepFor(protocolNum, Serving, server.step).kind = "log"
      /\ Enough(conn[server.peer], "server", "log")
  BY <1>3 DEF LogFails, Peer
<1>6. Serving = "localize" /\ server.step = End(protocolNum, Serving) - 1
  BY <1>3, <1>4, <1>5, LogStep
<1>7. ~PhonesStay'
  BY <1>1, <1>2 DEF ServerDies, ServerEnds, PhonesStay
<1> QED  BY <1>2, <1>3, <1>5, <1>6, <1>7, ServerDiesStep

LEMMA RestartStep == ASSUME IInv, Restart PROVE IInv'
<1> PICK next, fault : /\ next = NewServer(server.restarts + 1)
                       /\ fault = IF server.stage = "session" THEN {"stopped"} ELSE {}
  OBVIOUS
<1>1. /\ next \in ServerType /\ next.stage = "off" /\ ~next.listening
      /\ next.queue = <<>> /\ next.peer = <<>> /\ next.restarts # 0
  <2>1. PICK q : q = <<>>
    OBVIOUS
  <2>2. q \in Seq(Sockets) /\ server.restarts + 1 \in Nat /\ server.restarts + 1 # 0
    BY <2>1, EmptySeq DEF IInv, Types, ServerType
  <2>3. next = [stage |-> "off", first |-> TRUE, step |-> 1, listening |-> FALSE,
                queue |-> q, peer |-> q, restarts |-> server.restarts + 1]
    BY <2>1 DEF NewServer
  <2>4. PICK peers : peers = Sockets \cup {<<>>}
    OBVIOUS
  <2>5. next \in ServerType
    <3>1. q \in peers
      BY <2>1, <2>4
    <3> QED  BY ONLY <2>2, <2>3, <2>4, <3>1 DEF ServerType
  <2> QED  BY <2>1, <2>2, <2>3, <2>5
<1>2. ServerEnds(next, fault)
  BY DEF Restart
<1>3. ASSUME InSession
      PROVE  \/ ~conn[server.peer].open["phone"]
             \/ ~ServerStays'
             \/ server.step = End(protocolNum, Serving)
  <2>1. CASE server.stage = "session"
    BY <1>2, <2>1 DEF ServerEnds, ServerStays
  <2>2. CASE server.stage = "closing"
    BY <2>2 DEF IInv, Served
  <2>3. CASE server.stage = "spinning"
    BY <2>3 DEF IInv, Served
  <2> QED  BY <1>3, <2>1, <2>2, <2>3 DEF InSession
<1> QED  BY <1>1, <1>2, <1>3, ServerEndsStep

-----------------------------------------------------------------------------
(* Steps of a phone *)

LEMMA PhoneTogether ==
    ASSUME IInv, NEW p \in Phones, protocolNum' = protocolNum, server' \in ServerType,
           faults \subseteq faults', phone' \in [Phones -> PhoneType],
           conn' \in [Sockets -> ConnectionType],
           \A q \in Phones \ {p} : phone'[q] = phone[q],
           \A s \in Sockets : s[1] # p => conn'[s] = conn[s],
           Served', FirstServed', \A s \in Sockets : Linked(s)', Connected(p)'
    PROVE  IInv'
<1>1. Types'
  BY DEF IInv, Types
<1>2. ASSUME NEW q \in Phones, q # p
      PROVE  Connected(q)'
  <2>1. Connected(q) /\ phone'[q] = phone[q]
    BY <1>2 DEF IInv
  <2>2. conn'[Socket(q)] = conn[Socket(q)]
    <3>1. Socket(q) \in Sockets /\ Socket(q)[1] = q
      BY DEF IInv, Types, PhoneType, Socket, Sockets
    <3> QED  BY <1>2, <3>1
  <2> QED  BY <2>1, <2>2, ConnectedStays
<1> QED  BY <1>1, <1>2 DEF IInv

\* Connections a phone's step does not touch, and the server.
LEMMA LinkedOthers ==
    ASSUME IInv, NEW p \in Phones, UNCHANGED <<protocolNum, server>>,
           faults \subseteq faults', \A q \in Phones \ {p} : phone'[q] = phone[q],
           NEW s \in Sockets, conn'[s] = conn[s], s[1] # p \/ ~conn[s].open["phone"]
    PROVE  Linked(s)'
<1>1. conn[s].open["phone"] => phone'[s[1]] = phone[s[1]]
  BY Placed
<1>2. InQueue(s)' <=> InQueue(s)
  BY DEF InQueue
<1> QED  BY <1>1, <1>2, LinkedStays DEF IInv

LEMMA ServedStays ==
    ASSUME Types, Served, UNCHANGED <<protocolNum, server>>, faults \subseteq faults',
           \A s \in Sockets : /\ conn[s].open["server"] => conn'[s].open["server"]
                              /\ ~conn[s].open["phone"] => ~conn'[s].open["phone"]
    PROVE  Served'
<1>1. \A k \in DOMAIN server.queue : server.queue[k] \in Sockets
  BY DEF Types, ServerType
<1>2. Serving' = Serving /\ End(protocolNum, Serving)' = End(protocolNum, Serving)
  BY DEF Serving, End
<1>3. ~PhonesStay => ~PhonesStay'
  BY DEF PhonesStay
<1>4. server.stage = "spinning" => server.peer \in Sockets
  BY DEF Served, InSession
<1> QED  BY <1>1, <1>2, <1>3, <1>4 DEF Served, InSession

\* A phone outside any connection: nothing of its connections but the server's
\* ends can be open.
LEMMA NoneOpen ==
    ASSUME IInv, NEW p \in Phones, NEW s \in Sockets, s[1] = p,
           phone[p].task \in {"off", "idle", "dead"} \/ phone[p].step = 0
    PROVE  ~conn[s].open["phone"]
BY OneOpen DEF IInv

LEMMA LaunchStep == ASSUME IInv, NEW p \in Phones, Launch(p) PROVE IInv'
<1>1. Types /\ Served /\ phone[p].task \in {"off", "idle"}
  BY DEF IInv, Launch
<1>2. /\ phone' \in [Phones -> PhoneType] /\ phone'[p].task = "setup" /\ phone'[p].step = 0
      /\ phone'[p].misread = FALSE /\ \A q \in Phones \ {p} : phone'[q] = phone[q]
  BY <1>1 DEF Types, PhoneType, Launch
<1>3. UNCHANGED <<protocolNum, server, conn, faults>>
  BY DEF Launch
<1>4. Served'
  BY <1>1, <1>3, ServedStays
<1>5. FirstServed'
  BY <1>1, <1>2, <1>3 DEF IInv, FirstServed
<1>6. ASSUME NEW s \in Sockets
      PROVE  Linked(s)'
  BY <1>1, <1>2, <1>3, NoneOpen, LinkedOthers
<1>7. Connected(p)'
  BY <1>2 DEF Connected, Task
<1> QED  BY <1>1, <1>2, <1>3, <1>4, <1>5, <1>6, <1>7, PhoneTogether DEF Types

LEMMA LocalizeStep == ASSUME IInv, NEW p \in Phones, Localize(p) PROVE IInv'
<1>1. Types /\ Served /\ phone[p].task = "idle"
  BY DEF IInv, Localize
<1>2. /\ phone' \in [Phones -> PhoneType] /\ phone'[p].task = "localize" /\ phone'[p].step = 0
      /\ phone'[p].misread = FALSE /\ \A q \in Phones \ {p} : phone'[q] = phone[q]
  BY <1>1 DEF Types, PhoneType, Localize
<1>3. UNCHANGED <<protocolNum, server, conn, faults>>
  BY DEF Localize
<1>4. Served'
  BY <1>1, <1>3, ServedStays
<1>5. FirstServed'
  BY <1>1, <1>3 DEF IInv, FirstServed
<1>6. ASSUME NEW s \in Sockets
      PROVE  Linked(s)'
  BY <1>1, <1>2, <1>3, NoneOpen, LinkedOthers
<1>7. Connected(p)'
  BY <1>2 DEF Connected, Task
<1> QED  BY <1>1, <1>2, <1>3, <1>4, <1>5, <1>6, <1>7, PhoneTogether DEF Types

\* A send or a recv of a phone, which gives its connection the value d.
LEMMA PhoneMoves ==
    ASSUME IInv, NEW p \in Phones, phone[p].task \in Task, phone[p].step > 0,
           phone[p].step < End(protocolNum, phone[p].task),
           UNCHANGED <<protocolNum, server, faults>>, NEW misread \in BOOLEAN,
           phone' = [phone EXCEPT ![p].step = phone[p].step + 1, ![p].misread = misread],
           NEW d \in ConnectionType, conn' = [conn EXCEPT ![Socket(p)] = d],
           d.open = conn[Socket(p)].open,
           \A served, j :
              /\ At(protocolNum, phone[p].task, phone[p].step, served, j)
              /\ Exchange(protocolNum, conn[Socket(p)], phone[p].task, phone[p].step, served, j)
              => /\ At(protocolNum, phone[p].task, phone[p].step + 1, served, j)
                 /\ Exchange(protocolNum, d, phone[p].task, phone[p].step + 1, served, j)
                 /\ /\ misread
                    /\ phone[p].misread =>
                          /\ PhoneTook(protocolNum, phone[p].task, phone[p].step) > 0
                          /\ phone[p].task # served
                    => /\ PhoneTook(protocolNum, phone[p].task, phone[p].step + 1) > 0
                       /\ phone[p].task # served
    PROVE  IInv'
<1>1. Types /\ Served /\ Connected(p) /\ \A s \in Sockets : Linked(s)
  BY DEF IInv
<1> PICK s, task, i : s = Socket(p) /\ task = phone[p].task /\ i = phone[p].step
  OBVIOUS
<1>2. s \in Sockets /\ s[1] = p /\ conn[s].open["phone"]
  BY <1>1, PhoneHistory
<1>3. PICK served, j : At(protocolNum, task, i, served, j) /\ History(s, task, i, served, j)
  BY <1>1, PhoneHistory
<1>4. /\ At(protocolNum, task, i + 1, served, j)
      /\ Exchange(protocolNum, d, task, i + 1, served, j)
      /\ misread => PhoneTook(protocolNum, task, i + 1) > 0 /\ task # served
  BY <1>2, <1>3 DEF History, PhoneHolds
<1>5. i + 1 \in 0 .. 6 /\ i + 1 <= End(protocolNum, task) /\ i + 1 > 0
  BY <1>4 DEF At, End
<1>6. /\ phone' \in [Phones -> PhoneType] /\ phone'[p].step = i + 1
      /\ phone'[p].task = task /\ phone'[p].slot = phone[p].slot
      /\ phone'[p].misread = misread /\ \A q \in Phones \ {p} : phone'[q] = phone[q]
  BY <1>1, <1>5 DEF Types, PhoneType
<1>7. /\ conn' \in [Sockets -> ConnectionType] /\ conn'[s] = d
      /\ \A t \in Sockets \ {s} : conn'[t] = conn[t]
      /\ \A t \in Sockets : conn'[t].open = conn[t].open
  BY <1>1, <1>2 DEF Types
<1>8. Served'
  BY <1>1, <1>7, ServedStays
<1>9. FirstServed'
  BY <1>6, <1>7 DEF IInv, FirstServed
<1>10. Linked(s)'
  <2>1. conn[s].open["server"] => ServerHolds(s, served, j)'
    BY <1>3 DEF History, ServerHolds, InQueue, Serving
  <2>2. PhoneHolds(s, task, i + 1, served)'
    <3>1. s[2] = phone[p].slot
      BY <1>2, <1>3 DEF History, PhoneHolds
    <3>2. PICK m : m = i + 1
      OBVIOUS
    <3>3. PhoneHolds(s, task, m, served)'
      BY <1>2, <1>4, <1>6, <3>1, <3>2 DEF PhoneHolds
    <3> QED  BY <3>2, <3>3
  <2>3. ~conn[s].open["server"] => ServerLeft(task, i + 1, served, j)'
    <3>1. i # End(protocolNum, task)
      BY <1>1 DEF Types, PhoneType, End
    <3> QED  BY <1>2, <1>3, <3>1 DEF History, ServerLeft, ServerStays
  <2>4. ~InQueue(s)' => Matched(task, served)'
    BY <1>2, <1>3 DEF History, Matched, ServerStays, InQueue
  <2>5. PICK m : m = i + 1
    OBVIOUS
  <2>6. History(s, task, m, served, j)'
    BY <1>2, <1>4, <1>7, <2>1, <2>2, <2>3, <2>4, <2>5 DEF History
  <2> QED  BY <1>2, <1>4, <1>7, <2>5, <2>6 DEF Linked
<1>11. ASSUME NEW t \in Sockets, t # s
       PROVE  Linked(t)'
  <2>1. t[1] # p \/ ~conn[t].open["phone"]
    BY <1>1, <1>11, OneOpen
  <2> QED  BY <1>6, <1>7, <1>11, <2>1, LinkedOthers
<1>12. Connected(p)'
  <2>1. Socket(p)' = s
    BY <1>6 DEF Socket
  <2> QED  BY <1>2, <1>5, <1>6, <1>7, <2>1 DEF Connected, Task
<1>13. \A t \in Sockets : t[1] # p => conn'[t] = conn[t]
  BY <1>2, <1>7
<1> QED  BY <1>1, <1>6, <1>7, <1>8, <1>9, <1>10, <1>11, <1>12, <1>13, PhoneTogether DEF Types

LEMMA PhoneCall ==
    ASSUME IInv, NEW p \in Phones, NEW dir, PhoneAt(p, dir)
    PROVE  /\ phone[p].task \in Task /\ phone[p].step > 0
           /\ phone[p].step <= Len(PhoneScriptFor(protocolNum, phone[p].task))
           /\ phone[p].step < End(protocolNum, phone[p].task)
           /\ PhoneStep(p) = PhoneStepFor(protocolNum, phone[p].task, phone[p].step)
           /\ PhoneStepFor(protocolNum, phone[p].task, phone[p].step).dir = dir
<1>1. Types /\ phone[p].task \in Task /\ PhoneStep(p).dir = dir
  BY DEF IInv, PhoneAt, InNative, Task
<1>2. PhoneScript(p) = PhoneScriptFor(protocolNum, phone[p].task)
  BY <1>1, ScriptsInUse
<1>3. PhoneStep(p) = PhoneStepFor(protocolNum, phone[p].task, phone[p].step)
  BY <1>2 DEF PhoneStep, PhoneStepFor
<1>4. PICK l : l = Len(PhoneScriptFor(protocolNum, phone[p].task))
  OBVIOUS
<1>5. l + 1 = End(protocolNum, phone[p].task) /\ phone[p].step \in 1 .. l
  BY <1>1, <1>2, <1>4, Scripts DEF Types, PhoneAt
<1>6. l \in Nat
  BY <1>1, <1>4 DEF Types, PhoneScriptFor, PhoneParameters, PhoneLocalization, Seeds, Send, Recv
<1> QED  BY <1>1, <1>3, <1>4, <1>5, <1>6

LEMMA PhoneSendStep == ASSUME IInv, NEW p \in Phones, PhoneSend(p) PROVE IInv'
<1> PICK task, i, step, kind, d :
       /\ task = phone[p].task /\ i = phone[p].step
       /\ step = PhoneStepFor(protocolNum, task, i) /\ kind = step.kind
       /\ d = Sent(conn[Socket(p)], "phone", kind)
  OBVIOUS
<1>1. /\ task \in Task /\ i > 0 /\ i <= Len(PhoneScriptFor(protocolNum, task))
      /\ i < End(protocolNum, task) /\ PhoneStep(p) = step /\ step.dir = "send"
  <2>1. PICK dir : dir = "send"
    OBVIOUS
  <2>2. PhoneAt(p, dir)
    BY <2>1 DEF PhoneSend
  <2> QED  BY <2>1, <2>2, PhoneCall
<1>2. Types /\ Connected(p) /\ \A s \in Sockets : Linked(s)
  BY DEF IInv
<1>3. /\ UNCHANGED <<protocolNum, server, faults>> /\ phone[p].misread \in BOOLEAN
      /\ phone' = [phone EXCEPT ![p].step = phone[p].step + 1, ![p].misread = phone[p].misread]
      /\ conn' = [conn EXCEPT ![Socket(p)] = d]
  BY <1>1, <1>2 DEF PhoneSend, Types, PhoneType
<1>4. conn[Socket(p)] \in ConnectionType
  BY <1>1, <1>2, PhoneHistory
<1>5. kind \in Kinds
  <2>1. PICK served, j : At(protocolNum, task, i, served, j)
    BY <1>1, <1>2, PhoneHistory
  <2> QED  BY <1>1, <2>1, PhoneSteps
<1>6. d \in ConnectionType /\ d.open = conn[Socket(p)].open
  <2>1. PICK side \in Side : side = "phone"
    BY DEF Side
  <2> QED  BY <1>4, <1>5, <2>1, SentEffect
<1>7. ASSUME NEW served, NEW j, At(protocolNum, task, i, served, j),
             Exchange(protocolNum, conn[Socket(p)], task, i, served, j)
      PROVE  /\ At(protocolNum, task, i + 1, served, j)
             /\ Exchange(protocolNum, d, task, i + 1, served, j)
             /\ PhoneTook(protocolNum, task, i + 1) = PhoneTook(protocolNum, task, i)
  <2>1. /\ At(protocolNum, task, i + 1, served, j)
        /\ PhoneTook(protocolNum, task, i + 1) = PhoneTook(protocolNum, task, i)
    <3>1. PICK n : n = protocolNum
      OBVIOUS
    <3>2. At(n, task, i, served, j) /\ i <= Len(PhoneScriptFor(n, task))
      BY <1>1, <1>7, <3>1
    <3>3. /\ PhoneStepFor(n, task, i).dir = "send"
          /\ kind = PhoneStepFor(n, task, i).kind
      BY <1>1, <3>1
    <3>4. /\ At(n, task, i + 1, served, j)
          /\ PhoneTook(n, task, i + 1) = PhoneTook(n, task, i)
      BY ONLY <3>2, <3>3, PhoneSteps
    <3> QED  BY <3>1, <3>4
  <2>2. Exchange(protocolNum, d, task, i + 1, served, j)
    BY <1>1, <1>4, <1>7, PhoneSends
  <2> QED  BY <2>1, <2>2
<1> QED  BY <1>1, <1>3, <1>6, <1>7, PhoneMoves

\* What a phone reads are the blocks it means to, if the server takes it for
\* what it is.
LEMMA FirstBlocksOf ==
    ASSUME NEW n, NEW task, NEW i, NEW served, NEW j, At(n, task, i, served, j),
           NEW c \in ConnectionType, Exchange(n, c, task, i, served, j), c.open["phone"],
           i <= Len(PhoneScriptFor(n, task)), PhoneStepFor(n, task, i).dir = "recv",
           NEW kind, kind = PhoneStepFor(n, task, i).kind, Enough(c, "phone", kind),
           task = served
    PROVE  FirstBlocks(c, "phone", kind) = Copies(kind)
<1>1. kind \in Kinds /\ Named(n, served, PhoneTook(n, task, i), kind)
  BY PhoneSteps
<1>2. PICK old \in Seq(Kinds) : old = c.inbox["phone"]
  BY DEF ConnectionType, Side
<1>3. PICK m \in Nat, l \in Nat, y \in Nat :
         m = Blocks[kind] /\ l = Len(old) /\ m <= l /\ y = PhoneTook(n, task, i)
  <2>1. Blocks[kind] \in Nat /\ Blocks[kind] <= Len(old) /\ PhoneTook(n, task, i) \in Nat
    BY <1>1, <1>2, Tables DEF Blocks, Kinds, Enough
  <2> QED  BY <2>1, LenProperties
<1>4. ASSUME NEW b \in 1 .. m
      PROVE  b \in 1 .. l /\ old[b] = kind
  <2>1. b \in 1 .. l
    BY <1>3
  <2>2. old[b] = Name(n, served, y + b)
    BY <1>2, <1>3, <2>1 DEF Exchange
  <2>3. Name(n, served, y + b) = kind
    BY <1>1, <1>3 DEF Named
  <2> QED  BY <2>1, <2>2, <2>3
<1>5. PICK new : new = SubSeq(old, 1, m)
  OBVIOUS
<1>6. /\ new \in Seq(Kinds) /\ Len(new) = m /\ \A b \in 1 .. m : new[b] = kind
  <2>1. \A b \in 1 .. m : old[b] \in Kinds
    BY <1>1, <1>4
  <2>2. 1 \in Int /\ m \in Int
    OBVIOUS
  <2>3. /\ new \in Seq(Kinds) /\ Len(new) = (IF 1 <= m THEN m - 1 + 1 ELSE 0)
        /\ \A b \in 1 .. m - 1 + 1 : new[b] = old[1 + b - 1]
    BY ONLY <1>5, <2>1, <2>2, old \in Seq(Kinds), SubSeqProperties
  <2>4. m - 1 + 1 = m /\ Len(new) = m
    BY ONLY <2>3, m \in Nat
  <2>5. ASSUME NEW b \in 1 .. m
        PROVE  new[b] = kind
    <3>1. 1 + b - 1 = b
      OBVIOUS
    <3> QED  BY <1>4, <2>3, <2>4, <3>1
  <2> QED  BY <2>3, <2>4, <2>5
<1>7. /\ Copies(kind) \in Seq(Kinds) /\ Len(Copies(kind)) = m
      /\ \A b \in 1 .. m : Copies(kind)[b] = kind
  BY <1>1, <1>3, CopiesOf
<1>8. new = Copies(kind)
  <2>1. PICK t : t = Copies(kind)
    OBVIOUS
  <2>2. t \in Seq(Kinds) /\ Len(t) = Len(new) /\ \A b \in 1 .. Len(new) : new[b] = t[b]
    BY ONLY <1>6, <1>7, <2>1
  <2> QED  BY ONLY <1>6, <2>1, <2>2, SeqEqual
<1> QED  BY <1>2, <1>3, <1>5, <1>8 DEF FirstBlocks

LEMMA PhoneRecvStep == ASSUME IInv, NEW p \in Phones, PhoneRecv(p) PROVE IInv'
<1> PICK task, i, step, kind, d, misread :
       /\ task = phone[p].task /\ i = phone[p].step
       /\ step = PhoneStepFor(protocolNum, task, i) /\ kind = step.kind
       /\ d = Taken(conn[Socket(p)], "phone", kind)
       /\ misread = (phone[p].misread \/ FirstBlocks(conn[Socket(p)], "phone", kind) # Copies(kind))
  OBVIOUS
<1>1. /\ task \in Task /\ i > 0 /\ i <= Len(PhoneScriptFor(protocolNum, task))
      /\ i < End(protocolNum, task) /\ PhoneStep(p) = step /\ step.dir = "recv"
  <2>1. PICK dir : dir = "recv"
    OBVIOUS
  <2>2. PhoneAt(p, dir)
    BY <2>1 DEF PhoneRecv
  <2> QED  BY <2>1, <2>2, PhoneCall
<1>2. Types /\ Connected(p) /\ \A s \in Sockets : Linked(s)
  BY DEF IInv
<1>3. /\ UNCHANGED <<protocolNum, server, faults>> /\ misread \in BOOLEAN
      /\ phone' = [phone EXCEPT ![p].step = phone[p].step + 1, ![p].misread = misread]
      /\ conn' = [conn EXCEPT ![Socket(p)] = d]
      /\ Enough(conn[Socket(p)], "phone", kind)
  BY <1>1 DEF PhoneRecv
<1>4. conn[Socket(p)] \in ConnectionType /\ conn[Socket(p)].open["phone"]
  BY <1>1, <1>2, PhoneHistory
<1>5. kind \in Kinds
  <2>1. PICK served, j : At(protocolNum, task, i, served, j)
    BY <1>1, <1>2, PhoneHistory
  <2> QED  BY <1>1, <2>1, PhoneSteps
<1>6. d \in ConnectionType /\ d.open = conn[Socket(p)].open
  <2>1. PICK side \in Side : side = "phone"
    BY DEF Side
  <2> QED  BY <1>3, <1>4, <1>5, <2>1, TakenEffect
<1>7. ASSUME NEW served, NEW j, At(protocolNum, task, i, served, j),
             Exchange(protocolNum, conn[Socket(p)], task, i, served, j)
      PROVE  /\ At(protocolNum, task, i + 1, served, j)
             /\ Exchange(protocolNum, d, task, i + 1, served, j)
             /\ PhoneTook(protocolNum, task, i + 1) > 0
             /\ misread /\ ~phone[p].misread => task # served
  <2>1. /\ At(protocolNum, task, i + 1, served, j)
        /\ PhoneTook(protocolNum, task, i + 1) = PhoneTook(protocolNum, task, i) + Blocks[kind]
        /\ Blocks[kind] \in 1 .. 8
    <3>1. PICK n : n = protocolNum
      OBVIOUS
    <3>2. At(n, task, i, served, j) /\ i <= Len(PhoneScriptFor(n, task))
      BY <1>1, <1>7, <3>1
    <3>3. /\ PhoneStepFor(n, task, i).dir = "recv"
          /\ kind = PhoneStepFor(n, task, i).kind
      BY <1>1, <3>1
    <3>4. /\ At(n, task, i + 1, served, j)
          /\ PhoneTook(n, task, i + 1) = PhoneTook(n, task, i) + Blocks[kind]
          /\ Blocks[kind] \in 1 .. 8
      BY ONLY <3>2, <3>3, PhoneSteps
    <3> QED  BY <3>1, <3>4
  <2>2. Exchange(protocolNum, d, task, i + 1, served, j)
    BY <1>1, <1>3, <1>4, <1>7, PhoneTakes
  <2>3. PhoneTook(protocolNum, task, i) \in Nat
    BY <1>7, Tables
  <2>4. misread /\ ~phone[p].misread => task # served
    <3> SUFFICES ASSUME task = served
                 PROVE  FirstBlocks(conn[Socket(p)], "phone", kind) = Copies(kind)
      OBVIOUS
    <3>1. PICK n, c : n = protocolNum /\ c = conn[Socket(p)]
      OBVIOUS
    <3>2. /\ At(n, task, i, served, j) /\ i <= Len(PhoneScriptFor(n, task))
          /\ c \in ConnectionType /\ c.open["phone"] /\ Enough(c, "phone", kind)
          /\ Exchange(n, c, task, i, served, j)
      BY <1>1, <1>3, <1>4, <1>7, <3>1
    <3>3. /\ PhoneStepFor(n, task, i).dir = "recv"
          /\ kind = PhoneStepFor(n, task, i).kind
      BY <1>1, <3>1
    <3>4. task = served
      OBVIOUS
    <3>5. FirstBlocks(c, "phone", kind) = Copies(kind)
      BY ONLY <3>2, <3>3, <3>4, FirstBlocksOf
    <3> QED  BY <3>1, <3>5
  <2> QED  BY <2>1, <2>2, <2>3, <2>4
<1> QED  BY <1>1, <1>3, <1>6, <1>7, PhoneMoves

LEMMA ReturnStep == ASSUME IInv, NEW p \in Phones, Return(p) PROVE IInv'
<1> PICK s, task, i, d, side :
       /\ s = Socket(p) /\ task = phone[p].task /\ i = phone[p].step
       /\ side = "phone" /\ d = Closed(conn[s], side)
  OBVIOUS
<1>1. Types /\ Served /\ Connected(p) /\ \A t \in Sockets : Linked(t)
  BY DEF IInv
<1>2. task \in Task /\ i = End(protocolNum, task) /\ i > 0
  <2>1. phone[p].task \in Task
    BY DEF Return, InNative, Task
  <2>2. Len(PhoneScriptFor(protocolNum, task)) + 1 = End(protocolNum, task)
    BY <1>1, <2>1, Scripts DEF Types
  <2> QED  BY <1>1, <2>1, <2>2, ScriptsInUse DEF Return, End
<1>3. /\ s \in Sockets /\ s[1] = p /\ conn[s].open["phone"] /\ conn[s] \in ConnectionType
  BY <1>1, <1>2, PhoneHistory
<1>4. PICK served, j : At(protocolNum, task, i, served, j) /\ History(s, task, i, served, j)
  BY <1>1, <1>2, PhoneHistory
<1>5. /\ UNCHANGED <<protocolNum, server, faults>> /\ conn' = [conn EXCEPT ![s] = d]
      /\ phone' \in [Phones -> PhoneType] /\ phone'[p].task = "idle"
      /\ phone'[p].misread = phone[p].misread
      /\ \A q \in Phones \ {p} : phone'[q] = phone[q]
  BY <1>1 DEF Return, Types, PhoneType
<1>6. side \in Side /\ Other(side) = "server"
  BY Sides
<1>7. /\ d \in ConnectionType
      /\ ~conn[s].open["server"] => d = NoConnection
      /\ conn[s].open["server"] => ~d.open["phone"] /\ d.open["server"]
  BY <1>3, <1>6, ClosedEffect
<1>8. /\ conn' \in [Sockets -> ConnectionType] /\ conn'[s] = d
      /\ \A t \in Sockets \ {s} : conn'[t] = conn[t]
  BY <1>1, <1>3, <1>5, <1>7 DEF Types
<1>9. /\ ~d.open["phone"] /\ (conn[s].open["server"] => d.open["server"])
  BY <1>7, NoConnectionType
<1>10. Served'
  BY <1>1, <1>5, <1>8, <1>9, ServedStays
<1>11. /\ PhoneTook(protocolNum, task, i) <= ServerSent(protocolNum, served, j)
       /\ ServerTook(protocolNum, served, j) <= PhoneSent(protocolNum, task, i)
       /\ task = served /\ ~phone[p].misread
  <2>1. /\ PhoneTook(protocolNum, task, i) <= ServerSent(protocolNum, served, j)
        /\ ServerTook(protocolNum, served, j) <= PhoneSent(protocolNum, task, i)
    BY <1>4 DEF History, Exchange
  <2>2. task = served
    BY <1>2, <1>4, <2>1, PhoneThrough
  <2> QED  BY <1>3, <1>4, <2>1, <2>2 DEF History, PhoneHolds
<1>12. FirstServed'
  <2> SUFFICES ASSUME server.first, server.restarts = 0, server.stage \in {"off", "accepting"}
               PROVE  FALSE
    BY <1>5 DEF FirstServed
  <2>1. FirstServed /\ conn[s].open["server"]
    BY <1>3 DEF IInv, FirstServed
  <2>2. task = "setup"
    BY <1>2, <2>1 DEF FirstServed, Task
  <2>3. server.peer = <<>>
    BY <1>1 DEF Served, InSession
  <2>4. j = 1
    BY <1>3, <1>4, <2>1, <2>3, Placed DEF History, ServerHolds
  <2> QED  BY <1>2, <1>4, <1>11, <2>2, <2>4 DEF At, End, PhoneTook, ServerSent
<1>13. Linked(s)'
  <2>1. CASE ~conn[s].open["server"]
    BY <1>7, <1>8, <2>1 DEF Linked, NoConnection
  <2>2. CASE conn[s].open["server"]
    <3>1. Exchange(protocolNum, d, task, i, served, j)
      BY <1>3, <1>4, <1>6, <2>2, Closes DEF History
    <3>2. ServerHolds(s, served, j)'
      BY <1>4, <1>5, <2>2 DEF History, ServerHolds, InQueue, Serving
    <3>3. PhoneLeft(task, i)'
      BY <1>2, <1>5 DEF PhoneLeft, End
    <3>4. History(s, task, i, served, j)'
      BY <1>5, <1>7, <1>8, <2>2, <3>1, <3>2, <3>3 DEF History
    <3> QED  BY <1>4, <1>5, <1>7, <1>8, <2>2, <3>4 DEF Linked
  <2> QED  BY <2>1, <2>2
<1>14. ASSUME NEW t \in Sockets, t # s
       PROVE  Linked(t)'
  <2>1. t[1] # p \/ ~conn[t].open["phone"]
    BY <1>1, <1>14, OneOpen
  <2> QED  BY <1>5, <1>8, <1>14, <2>1, LinkedOthers
<1>15. Connected(p)'
  BY <1>5, <1>11 DEF Connected, Task
<1>16. \A t \in Sockets : t[1] # p => conn'[t] = conn[t]
  BY <1>3, <1>8
<1> QED  BY <1>1, <1>5, <1>8, <1>10, <1>12, <1>13, <1>14, <1>15, <1>16, PhoneTogether
         DEF Types

\* When its peer is gone and recv lacks data or send meets a reset, the server
\* of the connection was stopped, or took the phone for another, or dropped it.
LEMMA ServerGone ==
    ASSUME IInv, NEW p \in Phones, NEW dir, PhoneAt(p, dir),
           ~conn[Socket(p)].open["server"],
           dir = "send" \/ ~Enough(conn[Socket(p)], "phone", PhoneStep(p).kind)
    PROVE  ~ServerStays
<1> SUFFICES ASSUME ServerStays PROVE FALSE
  OBVIOUS
<1> PICK s, task, i, n :
       s = Socket(p) /\ task = phone[p].task /\ i = phone[p].step /\ n = protocolNum
  OBVIOUS
<1>1. Types /\ Served /\ Connected(p) /\ \A t \in Sockets : Linked(t)
  BY DEF IInv
<1>2. /\ task \in Task /\ i > 0 /\ i <= Len(PhoneScriptFor(n, task)) /\ i < End(n, task)
      /\ PhoneStep(p) = PhoneStepFor(n, task, i) /\ PhoneStepFor(n, task, i).dir = dir
  BY PhoneCall
<1>3. s \in Sockets /\ s[1] = p /\ conn[s].open["phone"]
  BY <1>1, <1>2, PhoneHistory
<1>4. PICK served, j : At(n, task, i, served, j) /\ History(s, task, i, served, j)
  BY <1>1, <1>2, PhoneHistory
<1>5. ~InQueue(s)
  BY <1>1 DEF Served, InQueue
<1>6. ServerLeft(task, i, served, j) /\ Matched(task, served)
  BY <1>3, <1>4, <1>5 DEF History
<1>7. i # End(n, task)
  BY <1>1, <1>2 DEF Types, PhoneType, End
<1>8. served = "setup" /\ task = "setup" /\ j = End(n, "setup")
  BY <1>6, <1>7 DEF ServerLeft, Matched
<1>9. /\ At(n, "setup", i, "setup", j) /\ i <= Len(PhoneScriptFor(n, "setup"))
  BY <1>2, <1>4, <1>8
<1>10. /\ PhoneStepFor(n, "setup", i).dir = "recv"
       /\ Blocks[PhoneStepFor(n, "setup", i).kind]
             <= ServerSent(n, "setup", j) - PhoneTook(n, "setup", i)
  BY ONLY <1>8, <1>9, SetupServed
<1>11. Len(conn[s].inbox["phone"]) = ServerSent(n, "setup", j) - PhoneTook(n, "setup", i)
  BY <1>3, <1>4, <1>8 DEF History, Exchange
<1>12. PhoneStepFor(n, "setup", i).kind \in Kinds
  BY ONLY <1>9, PhoneSteps
<1>13. Enough(conn[s], "phone", PhoneStep(p).kind)
  <2>1. PICK x, y : /\ x = ServerSent(n, "setup", j) - PhoneTook(n, "setup", i)
                    /\ y = Blocks[PhoneStepFor(n, "setup", i).kind]
    OBVIOUS
  <2>2. x \in Int /\ y \in Int
    BY <1>9, <1>12, <2>1, Tables DEF Blocks, Kinds
  <2>3. Len(conn[s].inbox["phone"]) = x /\ y <= x
    BY <1>10, <1>11, <2>1
  <2> QED  BY <1>2, <1>8, <2>1, <2>2, <2>3 DEF Enough
<1> QED  BY <1>2, <1>8, <1>10, <1>13

LEMMA PhoneFailsStep == ASSUME IInv, NEW p \in Phones, PhoneFails(p) PROVE IInv'
<1> PICK s, d, side, failed :
       /\ s = Socket(p) /\ side = "phone" /\ d = Closed(conn[s], side)
       /\ failed = IF PhoneAt(p, "recv") THEN AfterFailure(conn[s]) ELSE "dead"
  OBVIOUS
<1>1. Types /\ Served /\ Connected(p) /\ \A t \in Sockets : Linked(t)
  BY DEF IInv
<1>2. /\ \/ PhoneAt(p, "recv") /\ RecvFails(conn[s], "phone", PhoneStep(p).kind)
         \/ PhoneAt(p, "send") /\ conn[s].reset
      /\ phone' = [phone EXCEPT ![p].task = failed]
      /\ conn' = IF failed = "dead" THEN [conn EXCEPT ![s] = d] ELSE conn
      /\ UNCHANGED <<protocolNum, server, faults>>
  BY DEF PhoneFails
<1>3. PICK dir : /\ PhoneAt(p, dir)
                 /\ dir = "send" \/ ~Enough(conn[s], "phone", PhoneStep(p).kind)
                 /\ conn[s].reset \/ ~conn[s].open["server"]
  BY <1>2, Sides DEF RecvFails
<1>4. phone[p].task \in Task /\ phone[p].step > 0
  BY <1>3, PhoneCall
<1>5. s \in Sockets /\ s[1] = p /\ conn[s].open["phone"] /\ conn[s] \in ConnectionType
  BY <1>1, <1>4, PhoneHistory
<1>6. PICK task, i, served, j :
         /\ task = phone[p].task /\ i = phone[p].step
         /\ At(protocolNum, task, i, served, j) /\ History(s, task, i, served, j)
  BY <1>1, <1>4, PhoneHistory
<1>7. ~conn[s].open["server"]
  BY <1>3, <1>5, <1>6 DEF History, Exchange
<1>8. ~ServerStays
  BY <1>3, <1>7, ServerGone
<1>9. failed \in {"dead", "spinning"}
  BY DEF AfterFailure
<1>10. /\ phone' \in [Phones -> PhoneType] /\ phone'[p].task = failed
       /\ phone'[p].step = phone[p].step /\ phone'[p].slot = phone[p].slot
       /\ phone'[p].misread = phone[p].misread
       /\ \A q \in Phones \ {p} : phone'[q] = phone[q]
  BY <1>1, <1>2, <1>9 DEF Types, PhoneType
<1>11. d = NoConnection
  BY <1>5, <1>7, Sides, ClosedEffect
<1>12. /\ conn' \in [Sockets -> ConnectionType]
       /\ \A t \in Sockets \ {s} : conn'[t] = conn[t]
       /\ failed = "dead" => conn'[s] = NoConnection
       /\ failed # "dead" => conn' = conn
  BY <1>1, <1>2, <1>5, <1>11, NoConnectionType DEF Types
<1>13. Served'
  BY <1>1, <1>2, <1>7, <1>12, NoConnectionType, ServedStays
<1>14. FirstServed'
  BY <1>2, <1>9, <1>10, <1>12, NoConnectionType DEF IInv, FirstServed
<1>15. Linked(s)'
  <2>1. CASE failed = "dead"
    BY <1>12, <2>1 DEF Linked, NoConnection
  <2>2. CASE failed = "spinning"
    <3>1. conn' = conn
      BY <1>12, <2>2
    <3>2. PhoneHolds(s, task, i, served)'
      BY <1>2, <1>5, <1>6, <1>7, <1>10, <2>2, <3>1 DEF History, PhoneHolds
    <3>3. History(s, task, i, served, j)'
      BY <1>2, <1>5, <1>6, <1>7, <1>8, <3>1, <3>2
         DEF History, ServerLeft, Matched, ServerStays
    <3> QED  BY <1>2, <1>5, <1>6, <3>1, <3>3 DEF Linked
  <2> QED  BY <1>9, <2>1, <2>2
<1>16. ASSUME NEW t \in Sockets, t # s
       PROVE  Linked(t)'
  <2>1. t[1] # p \/ ~conn[t].open["phone"]
    BY <1>1, <1>16, OneOpen
  <2> QED  BY <1>2, <1>10, <1>12, <1>16, <2>1, LinkedOthers
<1>17. Connected(p)'
  BY <1>2, <1>8, <1>9, <1>10 DEF Connected, Task, ServerStays
<1>18. \A t \in Sockets : t[1] # p => conn'[t] = conn[t]
  BY <1>5, <1>12
<1> QED  BY <1>1, <1>2, <1>10, <1>12, <1>13, <1>14, <1>15, <1>16, <1>17, <1>18, PhoneTogether
         DEF Types

LEMMA KillStep == ASSUME IInv, NEW p \in Phones, Kill(p) PROVE IInv'
<1> PICK s, side : s = Socket(p) /\ side = "phone"
  OBVIOUS
<1>1. Types /\ Served /\ Connected(p) /\ \A t \in Sockets : Linked(t)
  BY DEF IInv
<1>2. s \in Sockets /\ s[1] = p /\ conn[s] \in ConnectionType
  BY <1>1 DEF Types, PhoneType, Sockets, Socket
<1>3. PICK c \in Ended(conn[s], side) :
         conn' = IF conn[s].open["phone"] THEN [conn EXCEPT ![s] = c] ELSE conn
  BY DEF Kill
<1>4. PICK b : /\ b = conn[s] \/ b = [conn[s] EXCEPT !.inbox[side] = <<>>]
               /\ c = Closed(b, side)
  BY <1>3 DEF Ended
<1>5. side \in Side /\ Other(side) = "server"
  BY Sides
<1>6. /\ b \in ConnectionType /\ b.open = conn[s].open
      /\ b.inbox["server"] = conn[s].inbox["server"]
  <2>1. CASE b = conn[s]
    BY <1>2, <2>1
  <2>2. CASE b = [conn[s] EXCEPT !.inbox[side] = <<>>]
    <3>1. PICK q : q = [conn[s].inbox EXCEPT ![side] = <<>>]
      OBVIOUS
    <3>2. /\ conn[s] = [inbox |-> conn[s].inbox, open |-> conn[s].open, reset |-> conn[s].reset]
          /\ conn[s].inbox \in [Side -> Seq(Kinds)] /\ conn[s].open \in [Side -> BOOLEAN]
          /\ conn[s].reset \in BOOLEAN
      BY <1>2 DEF ConnectionType
    <3>3. q \in [Side -> Seq(Kinds)] /\ q["server"] = conn[s].inbox["server"]
      BY <3>1, <3>2 DEF Side
    <3>4. b = [inbox |-> q, open |-> conn[s].open, reset |-> conn[s].reset]
      BY <2>2, <3>1, <3>2
    <3>5. b \in ConnectionType
      BY <3>2, <3>3, <3>4 DEF ConnectionType
    <3> QED  BY <3>3, <3>4, <3>5
  <2> QED  BY <1>4, <2>1, <2>2
<1>7. /\ c \in ConnectionType
      /\ ~conn[s].open["server"] => c = NoConnection
      /\ conn[s].open["server"] => /\ ~c.open["phone"] /\ c.open["server"]
                                   /\ c.inbox["server"] = conn[s].inbox["server"]
  BY <1>4, <1>5, <1>6, ClosedEffect
<1>8. /\ UNCHANGED <<protocolNum, server>> /\ faults \subseteq faults'
      /\ phone' \in [Phones -> PhoneType] /\ phone'[p].task = "off"
      /\ \A q \in Phones \ {p} : phone'[q] = phone[q]
      /\ phone[p].task \in Task => "kill" \in faults'
  <2>1. phone' = [phone EXCEPT ![p].task = "off", ![p].step = 0, ![p].settings = FALSE]
    BY DEF Kill
  <2>2. /\ phone' \in [Phones -> PhoneType] /\ phone'[p].task = "off"
        /\ \A q \in Phones \ {p} : phone'[q] = phone[q]
    <3>1. phone[p] \in PhoneType /\ phone \in [Phones -> PhoneType]
      BY <1>1 DEF Types
    <3>2. PICK r : r = [[[phone[p] EXCEPT !.task = "off"] EXCEPT !.step = 0]
                           EXCEPT !.settings = FALSE]
      OBVIOUS
    <3>3. r \in PhoneType /\ r.task = "off"
      <4>1. /\ phone[p].slot \in 0 .. Backlog /\ phone[p].tasks \in Nat
            /\ phone[p].launches \in Nat /\ phone[p].misread \in BOOLEAN
        BY <3>1 DEF PhoneType
      <4>2. r = [task |-> "off", step |-> 0, settings |-> FALSE, slot |-> phone[p].slot,
                 tasks |-> phone[p].tasks, launches |-> phone[p].launches,
                 misread |-> phone[p].misread]
        BY <3>1, <3>2 DEF PhoneType
      <4>3. PICK o : o = 0
        OBVIOUS
      <4>4. o \in 0 .. 6
        BY <4>3
      <4> QED  BY ONLY <4>1, <4>2, <4>3, <4>4 DEF PhoneType
    <3>4. phone' = [phone EXCEPT ![p] = r]
      BY <2>1, <3>1, <3>2
    <3> QED  BY <3>1, <3>3, <3>4
  <2>3. /\ UNCHANGED <<protocolNum, server>> /\ faults \subseteq faults'
        /\ phone[p].task \in Task => "kill" \in faults'
    BY DEF Kill, Task
  <2> QED  BY <2>2, <2>3
<1>9. /\ conn' \in [Sockets -> ConnectionType]
      /\ \A t \in Sockets \ {s} : conn'[t] = conn[t]
      /\ conn[s].open["phone"] => conn'[s] = c
      /\ ~conn[s].open["phone"] => conn'[s] = conn[s]
  BY <1>1, <1>2, <1>3, <1>7 DEF Types
<1>10. Served'
  <2>1. ~c.open["phone"]
    BY <1>7, NoConnectionType
  <2> QED  BY <1>1, <1>7, <1>8, <1>9, <2>1, ServedStays
<1>11. FirstServed'
  <2>1. ~c.open["phone"]
    BY <1>7, NoConnectionType
  <2> QED  BY <1>8, <1>9, <2>1 DEF IInv, FirstServed
<1>12. ASSUME conn[s].open["phone"]
       PROVE  Linked(s)'
  <2>1. CASE ~conn[s].open["server"]
    BY <1>7, <1>9, <1>12, <2>1 DEF Linked, NoConnection
  <2>2. CASE conn[s].open["server"]
    <3>1. PICK task, i, served, j :
             At(protocolNum, task, i, served, j) /\ History(s, task, i, served, j)
      BY <1>1, <1>2, <1>12, NoConnectionType DEF Linked
    <3>2. Exchange(protocolNum, c, task, i, served, j)
      BY <1>7, <2>2, <3>1 DEF History, Exchange
    <3>3. ServerHolds(s, served, j)'
      BY <1>8, <2>2, <3>1 DEF History, ServerHolds, InQueue, Serving
    <3>4. PhoneLeft(task, i)'
      BY <1>1, <1>2, <1>8, <1>12, <2>2, OneOpen DEF PhoneLeft, PhonesStay, Task
    <3>5. History(s, task, i, served, j)'
      BY <1>7, <1>8, <1>9, <1>12, <2>2, <3>2, <3>3, <3>4 DEF History
    <3> QED  BY <1>7, <1>8, <1>9, <1>12, <2>2, <3>1, <3>5 DEF Linked
  <2> QED  BY <2>1, <2>2
<1>13. ASSUME NEW t \in Sockets, t # s \/ ~conn[s].open["phone"]
       PROVE  Linked(t)'
  <2>1. t[1] # p \/ ~conn[t].open["phone"]
    BY <1>1, <1>13, OneOpen
  <2>2. conn'[t] = conn[t]
    BY <1>9, <1>13
  <2> QED  BY <1>8, <2>1, <2>2, LinkedOthers
<1>14. Connected(p)'
  BY <1>8 DEF Connected, Task
<1>15. \A t \in Sockets : t[1] # p => conn'[t] = conn[t]
  BY <1>2, <1>9
<1> QED  BY <1>1, <1>2, <1>8, <1>9, <1>10, <1>11, <1>12, <1>13, <1>14, <1>15, PhoneTogether
         DEF Types

\* At most two connections have a server's end: one waits, one is served.
LEMMA SlotFree ==
    ASSUME IInv, NEW p \in Phones, HasRoom, phone[p].step = 0 \/ phone[p].task = "off"
    PROVE  \E k \in 0 .. Backlog : Free(<<p, k>>)
<1> SUFFICES ASSUME \A k \in 0 .. Backlog : ~Free(<<p, k>>) PROVE FALSE
  OBVIOUS
<1>1. Types /\ Served /\ \A s \in Sockets : Linked(s)
  BY DEF IInv
<1>2. ASSUME NEW k \in 0 .. Backlog
      PROVE  <<p, k>> = server.queue[1] \/ <<p, k>> = server.peer
  <2>1. PICK s \in Sockets : s = <<p, k>> /\ s[1] = p
    BY Places
  <2>2. conn[s] # NoConnection
    BY <1>2, <2>1 DEF Free
  <2>3. ~conn[s].open["phone"]
    BY <2>1, NoneOpen
  <2>4. PICK task, i, served, j : History(s, task, i, served, j)
    BY <1>1, <2>2 DEF Linked
  <2>5. InQueue(s) \/ s = server.peer
    BY <1>1, <2>2, <2>3, <2>4 DEF Linked, History, ServerHolds
  <2>6. ASSUME InQueue(s)
        PROVE  s = server.queue[1]
    <3>1. PICK m \in DOMAIN server.queue : server.queue[m] = s
      BY <2>6 DEF InQueue
    <3>2. server.queue \in Seq(Sockets) /\ Len(server.queue) < 2
      BY <1>1 DEF Types, ServerType, HasRoom, Backlog
    <3>3. m \in 1 .. Len(server.queue) /\ Len(server.queue) \in Nat
      BY <3>1, <3>2, LenProperties
    <3>4. m = 1
      BY <3>2, <3>3
    <3> QED  BY <3>1, <3>4
  <2> QED  BY <2>1, <2>5, <2>6
<1>3. /\ <<p, 0>> = server.queue[1] \/ <<p, 0>> = server.peer
      /\ <<p, 1>> = server.queue[1] \/ <<p, 1>> = server.peer
      /\ <<p, 2>> = server.queue[1] \/ <<p, 2>> = server.peer
  BY <1>2 DEF Backlog
<1> QED  BY <1>3

LEMMA ConnectStep == ASSUME IInv, NEW p \in Phones, Connect(p) PROVE IInv'
<1> PICK slot : slot = CHOOSE k \in 0 .. Backlog : Free(<<p, k>>)
  OBVIOUS
<1> PICK s, q : s = <<p, slot>> /\ q = server.queue
  OBVIOUS
<1>1. Types /\ Served /\ Connected(p) /\ \A t \in Sockets : Linked(t)
  BY DEF IInv
<1>2. phone[p].task \in Task /\ phone[p].step = 0 /\ server.listening /\ HasRoom
  BY DEF Connect, InNative, Task
<1>3. slot \in 0 .. Backlog /\ Free(s)
  BY <1>2, SlotFree
<1>4. s \in Sockets /\ s[1] = p /\ s[2] = slot /\ conn[s] = NoConnection
  <2>1. s \in Sockets /\ s[1] = p /\ s[2] = slot
    BY <1>3, Places
  <2> QED  BY <1>3, <2>1 DEF Free
<1>5. PICK d : d = [NoConnection EXCEPT !.open = [x \in Side |-> TRUE]]
  OBVIOUS
<1>6. /\ d \in ConnectionType /\ d.open["phone"] /\ d.open["server"] /\ ~d.reset
      /\ d.inbox["phone"] = <<>> /\ d.inbox["server"] = <<>>
  <2>1. /\ d = [inbox |-> NoConnection.inbox, open |-> [x \in Side |-> TRUE], reset |-> FALSE]
        /\ NoConnection.inbox["phone"] = <<>> /\ NoConnection.inbox["server"] = <<>>
    BY <1>5 DEF NoConnection, Side
  <2>2. NoConnection.inbox \in [Side -> Seq(Kinds)]
    BY NoConnectionType DEF ConnectionType
  <2> QED  BY <2>1, <2>2, Sides DEF ConnectionType
<1>7. /\ UNCHANGED <<protocolNum, faults>>
      /\ conn' = [conn EXCEPT ![s] = d]
      /\ server' = [server EXCEPT !.queue = Append(q, s)]
      /\ phone' = [phone EXCEPT ![p].slot = slot, ![p].step = 1]
  BY <1>1, <1>4, <1>5 DEF Connect, Types
<1>8. /\ conn' \in [Sockets -> ConnectionType] /\ conn'[s] = d
      /\ \A t \in Sockets \ {s} : conn'[t] = conn[t]
  BY <1>1, <1>4, <1>6, <1>7 DEF Types
<1>9. /\ phone' \in [Phones -> PhoneType] /\ phone'[p].slot = slot /\ phone'[p].step = 1
      /\ phone'[p].task = phone[p].task /\ phone'[p].misread = phone[p].misread
      /\ \A r \in Phones \ {p} : phone'[r] = phone[r]
  <2>1. 1 \in 0 .. 6
    OBVIOUS
  <2> QED  BY <1>1, <1>3, <1>7, <2>1 DEF Types, PhoneType
<1>10. PICK l \in Nat : l = Len(q) /\ l < Backlog
  BY <1>1, <1>2, LenProperties DEF Types, ServerType, HasRoom
<1>11. PICK w \in Seq(Sockets) :
          /\ w = Append(q, s) /\ Len(w) = l + 1 /\ DOMAIN w = 1 .. l + 1
          /\ w[l + 1] = s /\ \A k \in 1 .. l : w[k] = q[k]
  <2>1. q \in Seq(Sockets)
    BY <1>1 DEF Types, ServerType
  <2>2. /\ Append(q, s) \in Seq(Sockets) /\ Len(Append(q, s)) = Len(q) + 1
        /\ \A k \in 1 .. Len(q) : Append(q, s)[k] = q[k]
        /\ Append(q, s)[Len(q) + 1] = s
    BY ONLY <1>4, <2>1, AppendProperties
  <2>3. DOMAIN Append(q, s) = 1 .. Len(Append(q, s))
    BY ONLY <2>2, LenProperties
  <2> QED  BY <1>10, <2>2, <2>3
<1>12. /\ server' \in ServerType /\ server'.queue = w /\ server'.stage = server.stage
       /\ server'.peer = server.peer /\ server'.step = server.step
       /\ server'.first = server.first /\ server'.listening = server.listening
       /\ server'.restarts = server.restarts
  <2>1. server' = [server EXCEPT !.queue = w]
    BY <1>7, <1>11
  <2> QED  BY <1>1, <1>11, <2>1 DEF Types, ServerType
<1>13. DOMAIN q = 1 .. l
  BY <1>1, <1>10, LenProperties DEF Types, ServerType
<1>14. ASSUME NEW t \in Sockets
       PROVE  InQueue(t)' <=> InQueue(t) \/ t = s
  <2>1. ASSUME NEW k \in 1 .. l + 1, w[k] = t
        PROVE  (\E m \in 1 .. l : q[m] = t) \/ t = s
    <3>1. k = l + 1 \/ k \in 1 .. l
      OBVIOUS
    <3>2. k = l + 1 => t = s
      BY <1>11, <2>1
    <3>3. k \in 1 .. l => q[k] = t
      BY <1>11, <2>1
    <3> QED  BY <3>1, <3>2, <3>3
  <2>2. ASSUME NEW m \in 1 .. l, q[m] = t
        PROVE  \E k \in 1 .. l + 1 : w[k] = t
    <3>1. m \in 1 .. l + 1
      OBVIOUS
    <3> QED  BY <1>11, <2>2, <3>1
  <2>3. l + 1 \in 1 .. l + 1
    OBVIOUS
  <2> QED  BY <1>11, <1>12, <1>13, <2>1, <2>2, <2>3 DEF InQueue
<1>15. /\ s # server.peer /\ \A k \in 1 .. l : q[k] # s
       /\ \A k \in 1 .. l : q[k] \in Sockets /\ q[k] # server.peer /\ conn[q[k]].open["server"]
       /\ \A k, m \in 1 .. l : k # m => q[k] # q[m]
  <2>1. ~conn[s].open["server"]
    BY <1>4, NoConnectionType
  <2>2. s # server.peer
    BY <1>1, <1>4, <2>1, Placed DEF Served, InSession
  <2>3. \A k \in 1 .. l : q[k] \in Sockets /\ q[k] # server.peer /\ conn[q[k]].open["server"]
    BY <1>1, <1>13 DEF Types, ServerType, Served
  <2>4. \A k, m \in 1 .. l : k # m => q[k] # q[m]
    BY <1>1, <1>13 DEF Served
  <2> QED  BY <2>1, <2>2, <2>3, <2>4
<1>16. Serving' = Serving
  BY <1>12 DEF Serving
<1>17. Served'
  <2>1. ASSUME NEW k \in 1 .. l + 1
        PROVE  w[k] = s \/ (k \in 1 .. l /\ w[k] = q[k])
    <3>1. k = l + 1 \/ k \in 1 .. l
      OBVIOUS
    <3> QED  BY <1>11, <3>1
  <2>2. \A k, m \in 1 .. l + 1 : k # m => w[k] # w[m]
    <3> SUFFICES ASSUME NEW k \in 1 .. l + 1, NEW m \in 1 .. l + 1, k # m
                 PROVE  w[k] # w[m]
      OBVIOUS
    <3>1. k = l + 1 \/ k \in 1 .. l
      OBVIOUS
    <3>2. m = l + 1 \/ m \in 1 .. l
      OBVIOUS
    <3>3. CASE k = l + 1
      <4>1. m \in 1 .. l
        BY <3>2, <3>3
      <4>2. w[k] = s /\ w[m] = q[m]
        BY <1>11, <3>3, <4>1
      <4> QED  BY <1>15, <4>1, <4>2
    <3>4. CASE m = l + 1
      <4>1. k \in 1 .. l
        BY <3>1, <3>4
      <4>2. w[m] = s /\ w[k] = q[k]
        BY <1>11, <3>4, <4>1
      <4> QED  BY <1>15, <4>1, <4>2
    <3>5. CASE k \in 1 .. l /\ m \in 1 .. l
      BY <1>11, <1>15, <3>5
    <3> QED  BY <3>1, <3>2, <3>3, <3>4, <3>5
  <2>3. \A k \in 1 .. l + 1 : w[k] # server.peer /\ conn'[w[k]].open["server"]
    <3> SUFFICES ASSUME NEW k \in 1 .. l + 1
                 PROVE  w[k] # server.peer /\ conn'[w[k]].open["server"]
      OBVIOUS
    <3>1. CASE w[k] = s
      BY <1>6, <1>8, <1>15, <3>1
    <3>2. CASE k \in 1 .. l /\ w[k] = q[k]
      <4>1. q[k] \in Sockets /\ q[k] # s
        BY <1>15, <3>2
      <4> QED  BY <1>8, <1>15, <3>2, <4>1
    <3> QED  BY <2>1, <3>1, <3>2
  <2>4. Len(w) <= Backlog
    BY <1>10, <1>11 DEF Backlog
  <2>5. InSession => conn'[server.peer] = conn[server.peer] /\ server.peer \in Sockets
    BY <1>1, <1>8, <1>15 DEF Served
  <2>6. End(protocolNum, Serving)' = End(protocolNum, Serving)
    BY <1>7, <1>16 DEF End
  <2>7. ~PhonesStay => ~PhonesStay'
    BY <1>7 DEF PhonesStay
  <2>8. server.stage = "spinning" => InSession
    BY DEF InSession
  <2>9. InSession' <=> InSession
    BY <1>12 DEF InSession
  <2>10. /\ Len(w) <= Backlog /\ (w # <<>> => server.listening)
         /\ \A a, m \in DOMAIN w : a # m => w[a] # w[m]
         /\ \A a \in DOMAIN w : w[a] # server.peer /\ conn'[w[a]].open["server"]
    <3>1. PICK D : D = 1 .. l + 1
      OBVIOUS
    <3>2. DOMAIN w = D
      BY <1>11, <3>1
    <3>3. \A a, m \in D : a # m => w[a] # w[m]
      BY ONLY <2>2, <3>1
    <3>4. \A a \in D : w[a] # server.peer /\ conn'[w[a]].open["server"]
      BY ONLY <2>3, <3>1
    <3>5. w # <<>> => server.listening
      BY <1>2
    <3>6. \A a, m \in DOMAIN w : a # m => w[a] # w[m]
      BY ONLY <3>2, <3>3
    <3>7. \A a \in DOMAIN w : w[a] # server.peer /\ conn'[w[a]].open["server"]
      BY ONLY <3>2, <3>4
    <3> QED  BY ONLY <2>4, <3>5, <3>6, <3>7
  <2>11. IF InSession THEN server.peer \in Sockets /\ conn'[server.peer].open["server"]
                            /\ server.step <= End(protocolNum, Serving)
                      ELSE server.peer = <<>>
    BY <1>1, <2>5 DEF Served
  <2>12. /\ server.listening <=> server.stage \in {"accepting", "session", "spinning"}
         /\ server.stage = "closing" => server.step = End(protocolNum, Serving)
         /\ server.stage = "spinning" => ~conn'[server.peer].open["phone"]
         /\ server.stage \in {"dead", "spinning"} => ~PhonesStay'
    BY <1>1, <2>5, <2>7, <2>8 DEF Served
  <2> QED  BY <1>12, <2>6, <2>9, <2>10, <2>11, <2>12 DEF Served
<1>18. FirstServed'
  BY <1>6, <1>8, <1>9, <1>12 DEF IInv, FirstServed
<1>19. Linked(s)'
  <2>1. PICK task, n, i : task = phone[p].task /\ n = protocolNum /\ i = 1
    OBVIOUS
  <2>2. At(n, task, i, task, i)
    BY <1>1, <1>2, <2>1 DEF Types, At, End
  <2>3. Exchange(n, d, task, i, task, i)
    BY <1>6, <2>1, <2>2, Starts
  <2>4. ~phone[p].misread
    BY <1>1, <1>2 DEF Connected
  <2>5. PhoneHolds(s, task, i, task)'
    BY <1>4, <1>9, <2>1, <2>4 DEF PhoneHolds
  <2>6. InQueue(s)' /\ ServerHolds(s, task, i)'
    BY <1>4, <1>14, <2>1 DEF ServerHolds
  <2>7. History(s, task, i, task, i)'
    BY <1>6, <1>7, <1>8, <2>1, <2>3, <2>5, <2>6 DEF History
  <2>8. At(protocolNum, task, i, task, i)'
    BY <1>7, <2>1, <2>2
  <2>9. conn'[s].open["phone"]
    BY <1>6, <1>8
  <2> QED  BY <2>7, <2>8, <2>9 DEF Linked
<1>20. ASSUME NEW t \in Sockets, t # s
       PROVE  Linked(t)'
  <2>1. conn[t].open["phone"] => phone'[t[1]] = phone[t[1]]
    BY <1>2, <1>9, NoneOpen, Placed
  <2>2. InQueue(t)' <=> InQueue(t)
    BY <1>14, <1>20
  <2> QED  BY <1>1, <1>7, <1>8, <1>12, <1>20, <2>1, <2>2, LinkedStays
<1>21. Connected(p)'
  <2>1. Socket(p)' = s
    BY <1>9 DEF Socket
  <2> QED  BY <1>2, <1>6, <1>8, <1>9, <2>1 DEF Connected, Task, End
<1>22. \A t \in Sockets : t[1] # p => conn'[t] = conn[t]
  BY <1>4, <1>8
<1> QED  BY <1>7, <1>8, <1>9, <1>12, <1>17, <1>18, <1>19, <1>20, <1>21, <1>22, PhoneTogether

-----------------------------------------------------------------------------
(* The theorems *)

LEMMA Initially == Init => IInv
<1> SUFFICES ASSUME Init PROVE IInv
  OBVIOUS
<1>1. Types
  <2>1. protocolNum \in {0, 1}
    BY ParameterAssumption DEF Init
  <2>2. server \in ServerType
    <3>1. PICK q : q = <<>>
      OBVIOUS
    <3>2. q \in Seq(Sockets) /\ 0 \in Nat
      BY <3>1, EmptySeq
    <3>3. server = [stage |-> "off", first |-> TRUE, step |-> 1, listening |-> FALSE,
                    queue |-> q, peer |-> q, restarts |-> 0]
      BY <3>1 DEF Init, NewServer
    <3>4. PICK peers : peers = Sockets \cup {<<>>}
      OBVIOUS
    <3>5. q \in peers
      BY <3>1, <3>4
    <3> QED  BY ONLY <3>2, <3>3, <3>4, <3>5 DEF ServerType
  <2>3. phone \in [Phones -> PhoneType]
    BY DEF Init, PhoneType, Backlog
  <2>4. conn \in [Sockets -> ConnectionType]
    BY NoConnectionType DEF Init
  <2> QED  BY <2>1, <2>2, <2>3, <2>4 DEF Types
<1>2. /\ server.stage = "off" /\ server.listening = FALSE /\ server.queue = <<>>
      /\ server.peer = <<>>
  BY DEF Init, NewServer
<1>3. Served
  BY <1>2 DEF Served, InSession, Backlog
<1>4. FirstServed
  BY NoConnectionType DEF Init, FirstServed
<1>5. \A s \in Sockets : Linked(s)
  BY DEF Init, Linked
<1>6. \A p \in Phones : Connected(p)
  BY DEF Init, Connected, Task
<1> QED  BY <1>1, <1>3, <1>4, <1>5, <1>6 DEF IInv

LEMMA Inductive == IInv /\ [Next]_vars => IInv'
<1> SUFFICES ASSUME IInv, [Next]_vars PROVE IInv'
  OBVIOUS
<1>1. CASE Server
  BY <1>1, ListenStep, AcceptStep, ServerSendStep, ServerRecvStep, CloseListenerStep,
     CloseConnectionStep, ServerFailsStep DEF Server
<1>2. CASE LogFails \/ Restart
  BY <1>2, LogFailsStep, RestartStep
<1>3. ASSUME NEW p \in Phones, Phone(p) \/ Launch(p) \/ Localize(p) \/ Kill(p)
      PROVE  IInv'
  BY <1>3, ConnectStep, PhoneSendStep, PhoneRecvStep, ReturnStep, PhoneFailsStep,
     LaunchStep, LocalizeStep, KillStep DEF Phone
<1>4. CASE UNCHANGED vars
  BY <1>4 DEF vars, IInv, Types, Served, PhonesStay, InSession, FirstServed, Linked, History,
     Exchange, PhoneHolds, ServerHolds, InQueue, Serving, PhoneLeft, ServerLeft, Matched,
     ServerStays, Connected, Socket
<1> QED  BY <1>1, <1>2, <1>3, <1>4 DEF Next

LEMMA Invariance == Spec => []IInv
BY Initially, Inductive, PTL DEF Spec

\* A queue is never longer than the backlog and exists only while the server
\* listens; a socket belongs to one session or one place in the queue.
THEOREM AlwaysTypeOK == Spec => []TypeOK
<1>1. IInv => TypeOK
  <2> SUFFICES ASSUME IInv PROVE TypeOK
    OBVIOUS
  <2>1. Types /\ Served
    BY DEF IInv
  <2>2. \A k \in DOMAIN server.queue : server.queue[k] \in Sockets
    BY <2>1 DEF Types, ServerType
  <2>3. /\ server.stage \in {"off", "accepting", "session", "closing", "spinning", "dead"}
        /\ \A p \in Phones : phone[p].task \in
              {"off", "setup", "idle", "localize", "spinning", "dead"}
        /\ conn \in [Sockets -> ConnectionType]
    BY <2>1 DEF Types, ServerType, PhoneType
  <2> QED  BY <2>1, <2>2, <2>3 DEF TypeOK, Served
<1> QED  BY <1>1, Invariance, PTL

\* However many phones, restarts, crashes and second onCreate calls there are: a
\* task that has read other bytes than it meant to never returns.
THEOREM NeverMistaken == Spec => []NothingMistaken
<1>1. IInv => NothingMistaken
  BY DEF IInv, NothingMistaken, Connected
<1> QED  BY <1>1, Invariance, PTL

\* The server only ends or spins when a phone was killed in the middle of a task
\* or the log could not be opened.
THEOREM ServerOutlives == Spec => []ServerSurvives
<1>1. IInv => ServerSurvives
  BY DEF IInv, ServerSurvives, Served, PhonesStay
<1> QED  BY <1>1, Invariance, PTL

\* A phone only ends or spins when its connection was dropped from a queue, the
\* operator stopped the server in a session, or a restarted server took its
\* localization for a request for the parameters.
THEOREM PhoneOutlives == Spec => []PhoneSurvives
<1>1. IInv => PhoneSurvives
  BY DEF IInv, PhoneSurvives, Connected, ServerStays
<1> QED  BY <1>1, Invariance, PTL
=============================================================================
