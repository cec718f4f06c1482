-------------------------- MODULE ArithmeticShares --------------------------
(***************************************************************************)
(* The arithmetic-sharing phase of one Euclidean localisation: the server  *)
(* (Server/main.cpp) and the phone (android/mainAndroid.cpp) each run an   *)
(* AEnv over one TCP connection, build multiplication triples with two     *)
(* correlated OT batches, share database and fingerprint as DeltaShares,   *)
(* open the masked scalar products and leave Yao with one additive share   *)
(* of every squared distance.                                              *)
(*                                                                         *)
(* C++ vectors are functions from 0..n-1.  net[p] are the blocks the peer  *)
(* has written and p has not read yet; a reader takes as many blocks as it *)
(* computes itself, whatever they are, as a byte stream would give them.   *)
(***************************************************************************)
EXTENDS CommBlocks

CONSTANTS
    M,            \* rows of the database (reference points)
    N,            \* columns (access points)
    RSSBits,      \* l: bits of one signal strength
    Seeds,        \* values the uint8_t seeds may take
    Draws,        \* what M*N rnd.rand() calls in a row may return
    Pads,         \* vectors of 2-byte OT keys one OT extension may produce
    Rand(_),      \* first rand() after srand(seed), the same on both parties
    Capacity,     \* blocks one direction of the connection can buffer
    Inputs        \* set of [database, fingerprint] the parties may hold

-----------------------------------------------------------------------------
ValueBytes == 2               \* numberOfBlocks of every vector of this phase
WireBits == ValueBytes * ByteBits

Rows == 0 .. M-1
Cols == 0 .. N-1
RSS == 0 .. 2^RSSBits - 1

\* lDash = ceil(log2((2^l - 1)^2 * N)), the bit length of a distance.
Square(x) == x * x
MaxDistance == Square(2^RSSBits - 1) * N
LDash == CHOOSE b \in 0 .. MaxDistance :
            /\ 2^b >= MaxDistance
            /\ \A c \in 0 .. MaxDistance : c < b => 2^c < MaxDistance
L == LDash
Ring == 2^L

NumBaseBits == N * L          \* OTs really run: choiceString.size()
NumOTs == M * N * L           \* OTs after reuse for every row
OTs == 0 .. NumOTs - 1

ASSUME ParameterAssumption ==
    /\ M \in Nat \ {0} /\ N \in Nat \ {0} /\ RSSBits \in Nat \ {0}
    /\ L \in Nat \ {0}      \* one access point with one-bit values has no OT
    /\ Capacity \in Nat \ {0}
    /\ Seeds \subseteq Byte
    /\ Draws \subseteq [0 .. M*N - 1 -> Nat]
    /\ \A s \in 0 .. 2^ByteBits + M * N : Rand(s) \in Nat
    /\ Pads \subseteq [0 .. NumBaseBits-1 -> 0 .. 2^WireBits - 1]
    /\ Inputs \subseteq [database : [Rows -> [Cols -> RSS]],
                         fingerprint : [Cols -> RSS]]

\* Both AEnv::packBlocks and OtSender::packBlocks keep two bytes of a value.
ASSUME RingFitsTheWire == L <= WireBits

\* The uint16_t values of this phase fill a block of 16 bytes without a rest.
ASSUME ValuesFillBlocks == BlockBytes % ValueBytes = 0

-----------------------------------------------------------------------------
Party == {"server", "client"}
Other(p) == IF p = "server" THEN "client" ELSE "server"

\* positive_modulo(n, v) of Defines.h; TLA+ % is already non-negative.
Mod(v) == v % Ring
PRG(seed) == Mod(Rand(seed))

Bit(v, k) == (v \div 2^k) % 2                     \* newBitString: LSB first
XorTable ==
    [x \in 0 .. 2^WireBits - 1 |-> [y \in 0 .. 2^WireBits - 1 |->
        SumFunction([k \in 0 .. WireBits-1 |->
                        ((Bit(x, k) + Bit(y, k)) % 2) * 2^k])]]
Xor(x, y) == XorTable[x][y]

(***************************************************************************)
(* DeltaShare: the public capital delta D and this party's small delta d.  *)
(* The shared value is D - d(server) - d(client) modulo the ring.          *)
(***************************************************************************)
Share(D, d) == [D |-> D, d |-> d]
SetValue(share, value, seed) ==
    Share(Mod(value + share.d + PRG(seed)), share.d)
SetCapitalDelta(share, D) == Share(D, share.d)
Add(a, b) == Share(Mod(a.D + b.D), Mod(a.d + b.d))
Subtract(a, b) == Share(Mod(a.D - b.D), Mod(a.d - b.d))
Reconstruct(share, otherd) == Mod(share.D - share.d - otherd)

SquareSum(vec) == SumFunction([j \in DOMAIN vec |-> Square(vec[j])])

-----------------------------------------------------------------------------
VARIABLES
    pc,       \* position of each party in its script
    net,      \* net[p]: messages on their way to p
    env,      \* env[p]: the fields of p's AEnv
    plain     \* the database and the fingerprint of this localisation

vars == <<pc, net, env, plain>>

(***************************************************************************)
(* The order in which each party calls the environment: the constructor    *)
(* (seeds, base OTs, triples), then main.cpp / mainAndroid.cpp.            *)
(***************************************************************************)
SeedExchange == <<"sendSeed", "sendSquaresSeed", "recvSeed", "recvSquaresSeed">>
ReceiverBaseOTs == <<"sendBaseKeys", "recvBasePoints">>
SenderBaseOTs == <<"recvBaseKeys", "sendBasePoints">>
CorrelatedReceive == <<"sendU", "recvOffset", "recvCor">>
CorrelatedSend == <<"recvU", "sendOffset", "sendCor">>

BaseOTs_BothReceiveKeysFirst(p) == SenderBaseOTs \o ReceiverBaseOTs
BaseOTs(p) == IF p = "server" THEN ReceiverBaseOTs \o SenderBaseOTs
                              ELSE SenderBaseOTs \o ReceiverBaseOTs

OTPhases(p) == IF p = "server" THEN CorrelatedReceive \o CorrelatedSend
                               ELSE CorrelatedSend \o CorrelatedReceive

Setup(p) ==
    SeedExchange \o BaseOTs(p) \o <<"drawDeltas">> \o OTPhases(p) \o <<"triplets">>
Online(p) ==
    (IF p = "server" THEN <<"setDatabase", "recvFingerprint">>
                     ELSE <<"recvDatabase", "setFingerprint">>)
    \o <<"mult", "finalize", "toYao">>

Script == [p \in Party |-> Setup(p) \o Online(p)]

\* What a reading step takes its bytes for, and how many blocks it asks for.
Expected ==
    [recvSeed |-> "seed", recvSquaresSeed |-> "squaresSeed",
     recvBaseKeys |-> "baseKeys", recvBasePoints |-> "basePoints",
     recvU |-> "u", recvOffset |-> "offset", recvCor |-> "cor",
     recvDatabase |-> "database", recvFingerprint |-> "fingerprint",
     finalize |-> "multDeltas"]
ReadCount ==
    [recvCor |-> NumOTs, recvDatabase |-> M * N + M,
     recvFingerprint |-> N + 1, finalize |-> M]
ExpectedBlocks(step) ==
    IF step \in DOMAIN ReadCount THEN BlocksRead(ReadCount[step], ValueBytes) ELSE 1

Done(p) == pc[p] > Len(Script[p])
At(p, step) == ~Done(p) /\ Script[p][pc[p]] = step
Past(p, step) == \E k \in 1 .. pc[p] - 1 : Script[p][k] = step
Advance(p) == pc' = [pc EXCEPT ![p] = @ + 1]

Signal(kind) == <<[kind |-> kind, bytes |-> <<>>]>>
Blocks(kind, blocks) == [b \in DOMAIN blocks |-> [kind |-> kind, bytes |-> blocks[b]]]
Values(kind, vec) == Blocks(kind, sendValues(vec, ValueBytes))

Send(p, blocks) ==
    /\ Len(net[Other(p)]) + Len(blocks) <= Capacity
    /\ net' = [net EXCEPT ![Other(p)] = @ \o blocks]

\* A reading step of p: it blocks until its blocks are there.  (In the steps
\* below, \E x \in {e} is LET x == e with e evaluated only once.)
Receive(p, step) ==
    LET blocks == ExpectedBlocks(step)
    IN  /\ At(p, step)
        /\ Len(net[p]) >= blocks
        /\ net' = [net EXCEPT ![p] = SubSeq(@, blocks + 1, Len(@))]
Received(p, step) == [b \in 1 .. ExpectedBlocks(step) |-> net[p][b].bytes]
ReceivedValues(p, step) == recvValues(Received(p, step), ValueBytes)

\* An assignment to one field of p's environment.
Set(p, field, value) == env' = [env EXCEPT ![p] = [@ EXCEPT ![field] = value]]

-----------------------------------------------------------------------------
EmptyEnv ==
    [databaseSeed |-> 0, databaseSquaresSeed |-> 0,
     fingerprintSeed |-> 0, fingerprintSquaresSeed |-> 0,
     database |-> <<>>, fingerprint |-> <<>>,
     dSquareSum |-> <<>>, fingerprintSum |-> Share(0, 0),
     keys |-> <<>>, received |-> <<>>,
     SenderOTsCor |-> <<>>, ReceiverOTs |-> <<>>,
     triplets |-> <<>>, multDeltas |-> <<>>, multShares |-> <<>>,
     distances |-> <<>>, yaoInput |-> <<>>]

Init ==
    /\ pc = [p \in Party |-> 1]
    /\ net = [p \in Party |-> <<>>]
    /\ env = [p \in Party |-> EmptyEnv]
    /\ plain \in Inputs

OwnSeed(p) == IF p = "server" THEN "databaseSeed" ELSE "fingerprintSeed"
OwnSquaresSeed(p) ==
    IF p = "server" THEN "databaseSquaresSeed" ELSE "fingerprintSquaresSeed"

\* AEnv::AEnv draws both seeds, sends both, then reads both of the peer.
SendSeed(p) ==
    /\ At(p, "sendSeed")
    /\ \E s, sq \in Seeds :
          /\ env' = [env EXCEPT ![p] = [@ EXCEPT ![OwnSeed(p)] = s,
                                                 ![OwnSquaresSeed(p)] = sq]]
          /\ Send(p, Blocks("seed", sendValue(s)))
    /\ Advance(p) /\ UNCHANGED plain

SendSquaresSeed(p) ==
    /\ At(p, "sendSquaresSeed")
    /\ Send(p, Blocks("squaresSeed", sendValue(env[p][OwnSquaresSeed(p)])))
    /\ Advance(p) /\ UNCHANGED <<env, plain>>

RecvSeed(p) ==
    /\ Receive(p, "recvSeed")
    /\ Set(p, OwnSeed(Other(p)), recvValue(Received(p, "recvSeed")))
    /\ Advance(p) /\ UNCHANGED plain

RecvSquaresSeed(p) ==
    /\ Receive(p, "recvSquaresSeed")
    /\ Set(p, OwnSquaresSeed(Other(p)), recvValue(Received(p, "recvSquaresSeed")))
    /\ Advance(p) /\ UNCHANGED plain

\* performReceiverBaseOTs (NaorPinkas::send: keys out, points in) and
\* performSenderBaseOTs (NaorPinkas::receive: keys in, points out); what the
\* OT extension derives from them is not modelled, only who waits for whom.
BaseOTSend(p) ==
    /\ \/ At(p, "sendBaseKeys") /\ Send(p, Signal("baseKeys"))
       \/ At(p, "sendBasePoints") /\ Send(p, Signal("basePoints"))
    /\ Advance(p) /\ UNCHANGED <<env, plain>>

BaseOTRecv(p) ==
    /\ Receive(p, "recvBaseKeys") \/ Receive(p, "recvBasePoints")
    /\ Advance(p) /\ UNCHANGED <<env, plain>>

\* generateMultiplicationTriplets, first loop: own small deltas are drawn,
\* the ones towards the peer's vectors come from the peer's seed.
DrawDeltas(p) ==
    /\ At(p, "drawDeltas")
    /\ \E r \in Draws :
         LET me == env[p]
             cell(i, j) == IF p = "server" THEN Mod(r[i * N + j])
                           ELSE PRG(me.databaseSeed + (i * N + j))
             column(j) == IF p = "server" THEN PRG(me.fingerprintSeed + j)
                          ELSE Mod(r[j])
         IN  env' = [env EXCEPT
               ![p].database = [i \in Rows |-> [j \in Cols |-> Share(0, cell(i, j))]],
               ![p].fingerprint = [j \in Cols |-> Share(0, column(j))]]
    /\ Advance(p) /\ UNCHANGED <<net, plain>>

(***************************************************************************)
(* One correlated OT batch.  Its receiver chooses with the bits of its     *)
(* fingerprint small deltas.  The random OT under it is ideal: the u       *)
(* message carries what the extension makes the sender's keys agree with,  *)
(* the receiver's choice and its key.                                      *)
(***************************************************************************)
Choice(p) ==
    [b \in 0 .. NumBaseBits-1 |-> Bit(env[p].fingerprint[b \div L].d, b % L)]

SendU(p) ==
    /\ At(p, "sendU")
    /\ \E keys \in Pads :
          /\ Set(p, "received", keys)
          /\ Send(p, Blocks("u", <<[keys |-> keys, choices |-> Choice(p)]>>))
    /\ Advance(p) /\ UNCHANGED plain

RecvU(p) ==
    /\ Receive(p, "recvU")
    /\ LET u == Received(p, "recvU")[1]
       IN  \E other \in Pads :
             Set(p, "keys",
                 [b \in 0 .. NumBaseBits-1 |-> [c \in 0..1 |->
                     IF c = u.choices[b] THEN u.keys[b] ELSE other[b]]])
    /\ Advance(p) /\ UNCHANGED plain

SendOffset(p) ==
    /\ At(p, "sendOffset")
    /\ Send(p, Signal("offset"))
    /\ Advance(p) /\ UNCHANGED <<env, plain>>

RecvOffset(p) ==
    /\ Receive(p, "recvOffset")
    /\ Advance(p) /\ UNCHANGED <<env, plain>>

\* The keys are reused for every row: j wraps at the number of base bits.
KeyIndex_PerValue(it) == it % L
KeyIndex(it) == it % NumBaseBits
CorrelationShare(p, it) == env[p].database[it \div NumBaseBits][KeyIndex(it) \div L].d
CorrelatedFunction(share, s0, bit) == Mod(share * 2^bit + Mod(s0))

SendCor(p) ==
    LET keys == env[p].keys
        s0 == [it \in OTs |-> keys[KeyIndex(it)][0]]
        cor == [it \in OTs |->
                  Xor(keys[KeyIndex(it)][1],
                      CorrelatedFunction(CorrelationShare(p, it), s0[it], it % L))]
    IN  /\ At(p, "sendCor")
        /\ Set(p, "SenderOTsCor", s0)
        /\ \E sendingValues \in {cor} : Send(p, Values("cor", sendingValues))
        /\ Advance(p) /\ UNCHANGED plain

RecvCor(p) ==
    /\ Receive(p, "recvCor")
    /\ \E cor \in {ReceivedValues(p, "recvCor")} :
         LET key == [it \in OTs |-> env[p].received[KeyIndex(it)]]
         IN  Set(p, "ReceiverOTs",
               [it \in OTs |-> IF Choice(p)[KeyIndex(it)] = 1
                               THEN Xor(key[it], cor[it]) ELSE key[it]])
    /\ Advance(p) /\ UNCHANGED plain

\* generateMultiplicationTriplets, last loop: c = d*f + sum(sC) - sum(s0).
Triplet(p, i, j) ==
    LET ots == {i * NumBaseBits + j * L + k : k \in 0 .. L-1}
        u == Mod(SumFunctionOnSet([it \in OTs |-> Mod(env[p].ReceiverOTs[it])], ots))
        v == Mod(0 - SumFunctionOnSet([it \in OTs |-> Mod(env[p].SenderOTsCor[it])], ots))
    IN  Mod(env[p].database[i][j].d * env[p].fingerprint[j].d + u + v)

Triplets(p) ==
    /\ At(p, "triplets")
    /\ Set(p, "triplets", [i \in Rows |-> [j \in Cols |-> Triplet(p, i, j)]])
    /\ Advance(p) /\ UNCHANGED <<net, plain>>

-----------------------------------------------------------------------------
\* Position of cell <<i, j>> in the database message; j = N is the row's sum.
Cell_WithoutSums(i, j) == i * N + j
Cell(i, j) == i * (N + 1) + j

SetDatabaseShares ==
    /\ At("server", "setDatabase")
    /\ \E r \in Draws :
         LET me == env["server"]
             db == [i \in Rows |-> [j \in Cols |->
                      SetValue(me.database[i][j], plain.database[i][j],
                               me.databaseSeed + (i * N + j))]]
             sums == [i \in Rows |->
                      SetValue(Share(0, Mod(r[i])), SquareSum(plain.database[i]),
                               me.databaseSquaresSeed)]
             cDeltas == [c \in 0 .. M * (N + 1) - 1 |->
                      LET i == c \div (N + 1)  j == c % (N + 1)
                      IN  IF j < N THEN db[i][j].D ELSE sums[i].D]
         IN  /\ env' = [env EXCEPT !["server"].database = db,
                                   !["server"].dSquareSum = sums]
             /\ \E databaseCDelta \in {cDeltas} :
                   Send("server", Values("database", databaseCDelta))
    /\ Advance("server") /\ UNCHANGED plain

RecvDatabaseShares ==
    /\ Receive("client", "recvDatabase")
    /\ \E D \in {ReceivedValues("client", "recvDatabase")} :
         LET me == env["client"]
         IN  env' = [env EXCEPT
             !["client"].database = [i \in Rows |-> [j \in Cols |->
                 SetCapitalDelta(me.database[i][j], D[Cell(i, j)])]],
             !["client"].dSquareSum = [i \in Rows |->
                 Share(D[Cell(i, N)], PRG(me.databaseSquaresSeed))]]
    /\ Advance("client") /\ UNCHANGED plain

SetFingerprintShares ==
    /\ At("client", "setFingerprint")
    /\ \E r \in Draws :
         LET me == env["client"]
             fp == [j \in Cols |-> SetValue(me.fingerprint[j], plain.fingerprint[j],
                                            me.fingerprintSeed + j)]
             sum == SetValue(Share(0, Mod(r[0])), SquareSum(plain.fingerprint),
                             me.fingerprintSquaresSeed)
         IN  /\ env' = [env EXCEPT !["client"].fingerprint = fp,
                                   !["client"].fingerprintSum = sum]
             /\ Send("client", Values("fingerprint",
                       [j \in 0 .. N |-> IF j < N THEN fp[j].D ELSE sum.D]))
    /\ Advance("client") /\ UNCHANGED plain

RecvFingerprintShares ==
    /\ Receive("server", "recvFingerprint")
    /\ \E D \in {ReceivedValues("server", "recvFingerprint")} :
         LET me == env["server"]
         IN  env' = [env EXCEPT
             !["server"].fingerprint =
                 [j \in Cols |-> SetCapitalDelta(me.fingerprint[j], D[j])],
             !["server"].fingerprintSum =
                 Share(D[N], PRG(me.fingerprintSquaresSeed))]
    /\ Advance("server") /\ UNCHANGED plain

\* AEnv::mult for row i, with the random preShare r.  Only the server adds the
\* product of the capital deltas: i is 1 for it and 0 for the client.
ProductFactor_Both(p) == 1
ProductFactor(p) == IF p = "server" THEN 1 ELSE 0

MultTerm(p, i, j) ==
    LET a == env[p].fingerprint[j]  b == env[p].database[i][j]
    IN  Mod(ProductFactor(p) * a.D * b.D - a.D * b.d - b.D * a.d
            + env[p].triplets[i][j])
MultDelta_Unreduced(p, i, r) == SumFunction([j \in Cols |-> MultTerm(p, i, j)]) + Mod(r)
MultDelta(p, i, r) == Mod(SumFunction([j \in Cols |-> MultTerm(p, i, j)]) + Mod(r))

\* computeOpenedEuclidean: all rows are multiplied, then finalizeMultiplication
\* sends before it reads.
Mult(p) ==
    /\ At(p, "mult")
    /\ \E r \in Draws :
         \E deltas \in {[i \in Rows |-> MultDelta(p, i, r[i])]} :
             /\ env' = [env EXCEPT ![p].multDeltas = deltas,
                                   ![p].multShares = [i \in Rows |-> Mod(r[i])]]
             /\ Send(p, Values("multDeltas", deltas))
    /\ Advance(p) /\ UNCHANGED plain

OpenedDistance(p, i, otherSum) ==
    LET me == env[p]
        scalar == Share(me.multDeltas[i] + otherSum, me.multShares[i])
    IN  Subtract(Add(me.dSquareSum[i], me.fingerprintSum), Add(scalar, scalar))

FinalizeMultiplication(p) ==
    /\ Receive(p, "finalize")
    /\ \E otherSums \in {ReceivedValues(p, "finalize")} :
          Set(p, "distances", [i \in Rows |-> OpenedDistance(p, i, otherSums[i])])
    /\ Advance(p) /\ UNCHANGED plain

\* toYao: the server subtracts its small delta, the client passes its own.
YaoShare_NoSubtraction(p, share) == IF p = "server" THEN Mod(share.D) ELSE Mod(share.d)
YaoShare(p, share) == IF p = "server" THEN Mod(share.D - share.d) ELSE Mod(share.d)

ToYao(p) ==
    /\ At(p, "toYao")
    /\ Set(p, "yaoInput", [i \in Rows |-> YaoShare(p, env[p].distances[i])])
    /\ Advance(p) /\ UNCHANGED <<net, plain>>

Step(p) ==
    \/ SendSeed(p) \/ SendSquaresSeed(p) \/ RecvSeed(p) \/ RecvSquaresSeed(p)
    \/ BaseOTSend(p) \/ BaseOTRecv(p)
    \/ DrawDeltas(p)
    \/ SendU(p) \/ RecvU(p) \/ SendOffset(p) \/ RecvOffset(p)
    \/ SendCor(p) \/ RecvCor(p) \/ Triplets(p)
    \/ Mult(p) \/ FinalizeMultiplication(p) \/ ToYao(p)

Server == Step("server") \/ SetDatabaseShares \/ RecvFingerprintShares
Client == Step("client") \/ RecvDatabaseShares \/ SetFingerprintShares

Next == Server \/ Client

Spec == Init /\ [][Next]_vars

\* Each party is one thread that blocks only in send and recv.
FairSpec == Spec /\ WF_vars(Server) /\ WF_vars(Client)

-----------------------------------------------------------------------------
(* Properties *)

Element == 0 .. Ring-1
ShareType == [D : Element, d : Element]
Unset == <<>>
Vectors(n, S) == [0 .. n-1 -> S] \cup {Unset}
Matrices(S) == [Rows -> [Cols -> S]] \cup {Unset}
WireValue == 0 .. 2^WireBits - 1

EnvType ==
    [databaseSeed : Byte, databaseSquaresSeed : Byte,
     fingerprintSeed : Byte, fingerprintSquaresSeed : Byte,
     database : Matrices(ShareType), fingerprint : Vectors(N, ShareType),
     dSquareSum : Vectors(M, ShareType), fingerprintSum : ShareType,
     keys : Vectors(NumBaseBits, [0..1 -> WireValue]),
     received : Vectors(NumBaseBits, WireValue),
     SenderOTsCor : Vectors(NumOTs, WireValue),
     ReceiverOTs : Vectors(NumOTs, WireValue),
     triplets : Matrices(Element),
     multDeltas : Vectors(M, Element), multShares : Vectors(M, Element),
     distances : Vectors(M, ShareType), yaoInput : Vectors(M, Element)]

\* Every share, triple and distance a party stores is a ring element and
\* every OT result fits the two bytes it travels in.
TypeOK ==
    /\ \A p \in Party : pc[p] \in 1 .. Len(Script[p]) + 1
    /\ \A p \in Party : env[p] \in EnvType
    /\ \A p \in Party : Len(net[p]) <= Capacity
    /\ \A p \in Party : \A b \in DOMAIN net[p] :
          net[p][b].kind \in {"seed", "squaresSeed", "cor", "database",
                             "fingerprint", "multDeltas"} =>
             net[p][b].bytes \in [1 .. BlockBytes -> Byte]

\* Nothing on the wire says what it is or how long it is: each party only reads
\* the blocks the peer wrote for that step, all of them and no others, if both
\* scripts stay in lockstep and both count blocks alike; the garbled circuit
\* that follows on the same connection finds it drained.
Lockstep ==
    /\ \A p \in Party : ~Done(p) =>
          LET step == Script[p][pc[p]]
          IN  step \in DOMAIN Expected /\ net[p] # <<>> =>
                 /\ Len(net[p]) >= ExpectedBlocks(step)
                 /\ \A b \in DOMAIN net[p] :
                       (b <= ExpectedBlocks(step)) <=> (net[p][b].kind = Expected[step])
    /\ (\A p \in Party : Done(p)) => \A p \in Party : net[p] = <<>>

\* The triples of the two parties multiply: for every cell they sum to the
\* product of the masks of that cell and of that column, although the OT keys
\* of the first row serve all rows.
TripletsMultiply ==
    (\A p \in Party : env[p].triplets # Unset) =>
        \A i \in Rows, j \in Cols :
            Mod(env["server"].triplets[i][j] + env["client"].triplets[i][j]) =
            Mod((env["server"].database[i][j].d + env["client"].database[i][j].d)
                * (env["server"].fingerprint[j].d + env["client"].fingerprint[j].d))

Opens(mine, theirs, value) ==
    mine.D = theirs.D /\ Reconstruct(mine, theirs.d) = Mod(value)

\* Once a party has received the other one's sharing, both hold the same
\* capital deltas and each share, the squared sums included, opens to the value
\* its owner put in: the seeds travelled before they were used, and both
\* parties index the generator alike.
SharesOpen ==
    LET s == env["server"]  c == env["client"]
    IN  /\ c.dSquareSum # Unset =>
             \A i \in Rows :
                /\ \A j \in Cols : Opens(s.database[i][j], c.database[i][j],
                                         plain.database[i][j])
                /\ Opens(s.dSquareSum[i], c.dSquareSum[i],
                         SquareSum(plain.database[i]))
        /\ Past("server", "recvFingerprint") =>
             /\ \A j \in Cols : Opens(s.fingerprint[j], c.fingerprint[j],
                                       plain.fingerprint[j])
             /\ Opens(s.fingerprintSum, c.fingerprintSum,
                      SquareSum(plain.fingerprint))

Distance(i) ==
    SumFunction([j \in Cols |-> Square(plain.database[i][j] - plain.fingerprint[j])])

\* What the circuit's subtraction will see is the distance itself, not only
\* the distance modulo the ring.
DistanceExact ==
    (\A p \in Party : Done(p)) =>
        \A i \in Rows :
            Mod(env["server"].yaoInput[i] - env["client"].yaoInput[i]) = Distance(i)

\* The phase implements its promise: the two Yao inputs appear one after the
\* other and differ by the distances.
Promise == INSTANCE SharedDistance WITH
    None <- Unset,
    distance <- [i \in Rows |-> Mod(Distance(i))],
    output <- [p \in Party |-> env[p].yaoInput]
SharesTheDistance == Promise!Spec

\* Neither party waits for ever: every blocking read has its write, and two
\* writes in a row (the seeds) fit the connection's buffers.
Termination == <>(\A p \in Party : Done(p))
=============================================================================
