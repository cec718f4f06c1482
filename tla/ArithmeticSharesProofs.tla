---------------------- MODULE ArithmeticSharesProofs ----------------------
(***************************************************************************)
(* Proofs about the exchange of the two AEnv for every size of the         *)
(* database, every width of the signal strengths, every capacity of the    *)
(* connection, all seeds, random draws, OT keys and inputs.  First how both *)
(* count blocks and stay in lockstep (IInv); then the algebra of the ring, *)
(* of the OT batches and of the shares; then what a party holds at every   *)
(* position of its script (Inv), action by action; at the end the          *)
(* properties of the runs and the refinement of SharedDistance.            *)
(***************************************************************************)
EXTENDS ArithmeticShares, Arithmetic, SequenceTheorems

-----------------------------------------------------------------------------
(* Counting blocks *)

\* CommunicationHandler::sendValues and recvValues: values that fill a block
\* without a rest are written to as many blocks as are read, however many they
\* are.  (Two bytes do; three would not: see the README.)
THEOREM FramesAgree ==
    ASSUME NEW count \in Nat \ {0}, NEW bytes \in Nat \ {0}, NEW q \in Nat \ {0},
           BlockBytes = q * bytes
    PROVE  BlocksWritten(count, bytes) = BlocksRead(count, bytes)
<1> DEFINE m == (count - 1) \div q
           r == (count - 1) % q
<1>1. PerBlock(bytes) = q
  <2>1. BlockBytes \in Int /\ 0 \in 0 .. bytes - 1 /\ BlockBytes = q * bytes + 0
    BY SMTT(30)
  <2> QED  BY ONLY <2>1, DivisionUnique, q \in Nat \ {0}, bytes \in Nat \ {0} DEF PerBlock
<1>2. m \in Nat /\ r \in 0 .. q - 1 /\ count - 1 = m * q + r
  <2>1. count - 1 \in Nat
    OBVIOUS
  <2>2. (count - 1) \div q \in Nat
    BY ONLY <2>1, DivisionOfNat, q \in Nat \ {0}
  <2>3. /\ (count - 1) % q \in 0 .. q - 1
        /\ count - 1 = ((count - 1) \div q) * q + ((count - 1) % q)
    <3>1. PICK x \in Int : x = count - 1
      BY <2>1
    <3>2. x % q \in 0 .. q - 1 /\ x = (x \div q) * q + (x % q)
      BY ONLY Division, q \in Nat \ {0}, x \in Int
    <3> QED  BY ONLY <3>1, <3>2
  <2> QED  BY ONLY <2>2, <2>3 DEF m, r
<1>3. BlocksWritten(count, bytes) = m + 1
  BY <1>1, <1>2 DEF BlocksWritten
<1> HIDE DEF m, r
<1> DEFINE rest == (r + 1) * bytes - 1
<1>4. q * bytes \in Nat \ {0} /\ rest \in 0 .. q * bytes - 1
  <2>1. /\ (r + 1) * bytes <= q * bytes /\ 1 <= (r + 1) * bytes /\ q * bytes >= 1
        /\ (r + 1) * bytes \in Int /\ q * bytes \in Int
    BY <1>2, SMTT(60)
  <2> QED  BY <2>1
<1>5. bytes * count + q * bytes - 1 = (m + 1) * (q * bytes) + rest
  <2>1. bytes * count = (m * q) * bytes + (r + 1) * bytes
    BY <1>2, SMTT(60)
  <2>2. (m + 1) * (q * bytes) = (m * q) * bytes + q * bytes
    BY <1>2, SMTT(60)
  <2> QED  BY <1>2, <2>1, <2>2
<1> HIDE DEF rest
<1>6. ((m + 1) * (q * bytes) + rest) \div (q * bytes) = m + 1
  <2>1. PICK d \in Nat \ {0} : d = q * bytes
    BY <1>4
  <2>2. PICK x \in Int : x = (m + 1) * d + rest
    BY <1>2, <1>4, <2>1
  <2>3. m + 1 \in Int /\ rest \in 0 .. d - 1
    BY <1>2, <1>4, <2>1
  <2>4. x \div d = m + 1
    BY ONLY <2>2, <2>3, DivisionUnique, d \in Nat \ {0}, x \in Int
  <2> QED  BY <2>1, <2>2, <2>4
<1> QED  BY <1>3, <1>5, <1>6 DEF BlocksRead

-----------------------------------------------------------------------------
(* The two scripts, step by step *)

StepName ==
    {"sendSeed", "sendSquaresSeed", "recvSeed", "recvSquaresSeed", "sendBaseKeys",
     "recvBasePoints", "recvBaseKeys", "sendBasePoints", "drawDeltas", "sendU",
     "recvOffset", "recvCor", "recvU", "sendOffset", "sendCor", "triplets",
     "setDatabase", "recvFingerprint", "recvDatabase", "setFingerprint", "mult",
     "finalize", "toYao"}
Steps ==
    [server |->
        <<"sendSeed", "sendSquaresSeed", "recvSeed", "recvSquaresSeed",
          "sendBaseKeys", "recvBasePoints", "recvBaseKeys", "sendBasePoints", "drawDeltas",
          "sendU", "recvOffset", "recvCor", "recvU", "sendOffset", "sendCor", "triplets",
          "setDatabase", "recvFingerprint", "mult", "finalize", "toYao">>,
     client |->
        <<"sendSeed", "sendSquaresSeed", "recvSeed", "recvSquaresSeed",
          "recvBaseKeys", "sendBasePoints", "sendBaseKeys", "recvBasePoints", "drawDeltas",
          "recvU", "sendOffset", "sendCor", "sendU", "recvOffset", "recvCor", "triplets",
          "recvDatabase", "setFingerprint", "mult", "finalize", "toYao">>]

\* A part of a script, after the first k steps of it.
Spells(part, length, p, k) ==
    /\ part \in Seq(StepName) /\ Len(part) = length
    /\ \A i \in 1 .. length : part[i] = Steps[p][k + i]

\* Concatenation of two neighbouring parts of a script.
LEMMA Joined ==
    ASSUME NEW p, NEW k \in Nat, NEW m \in Nat, NEW n \in Nat, NEW s, NEW t,
           Spells(s, m, p, k), Spells(t, n, p, k + m)
    PROVE  Spells(s \o t, m + n, p, k)
<1>1. /\ s \in Seq(StepName) /\ t \in Seq(StepName)
      /\ Len(s) = m /\ \A i \in 1 .. Len(s) : s[i] = Steps[p][k + i]
      /\ Len(t) = n /\ \A i \in 1 .. Len(t) : t[i] = Steps[p][(k + m) + i]
  BY DEF Spells
<1>2. /\ s \o t \in Seq(StepName) /\ Len(s \o t) = Len(s) + Len(t)
      /\ \A i \in 1 .. Len(s) + Len(t) :
            (s \o t)[i] = IF i <= Len(s) THEN s[i] ELSE t[i - Len(s)]
  BY <1>1, ConcatProperties
<1>3. ASSUME NEW i \in 1 .. m + n
      PROVE  (s \o t)[i] = Steps[p][k + i]
  <2>1. CASE i <= m
    BY <1>1, <1>2, <1>3, <2>1
  <2>2. CASE ~(i <= m)
    <3>1. i - m \in 1 .. n /\ (k + m) + (i - m) = k + i
      BY <1>3, <2>2
    <3>2. (s \o t)[i] = t[i - m]
      BY <1>1, <1>2, <1>3, <2>2
    <3> QED  BY <1>1, <3>1, <3>2
  <2> QED  BY <2>1, <2>2
<1> QED  BY <1>1, <1>2, <1>3 DEF Spells

\* The parts of Setup and Online that differ between the parties.
LEMMA PartsOfScript ==
    ASSUME NEW p \in Party
    PROVE  /\ Spells(BaseOTs(p), 4, p, 4)
           /\ Spells(OTPhases(p), 6, p, 9)
           /\ Spells(Online(p), 5, p, 16)
<1>1. CASE p = "server"
  <2>1. /\ Spells(ReceiverBaseOTs, 2, p, 4) /\ Spells(SenderBaseOTs, 2, p, 4 + 2)
        /\ BaseOTs(p) = ReceiverBaseOTs \o SenderBaseOTs
    BY <1>1 DEF Spells, StepName, Steps, ReceiverBaseOTs, SenderBaseOTs, BaseOTs
  <2>2. Spells(BaseOTs(p), 2 + 2, p, 4)
    BY ONLY <2>1, Joined
  <2>3. /\ Spells(CorrelatedReceive, 3, p, 9) /\ Spells(CorrelatedSend, 3, p, 9 + 3)
        /\ OTPhases(p) = CorrelatedReceive \o CorrelatedSend
    BY <1>1 DEF Spells, StepName, Steps, CorrelatedReceive, CorrelatedSend, OTPhases
  <2>4. Spells(OTPhases(p), 3 + 3, p, 9)
    BY ONLY <2>3, Joined
  <2>5. PICK s : s = <<"setDatabase", "recvFingerprint">>
    OBVIOUS
  <2>6. PICK t : t = <<"mult", "finalize", "toYao">>
    OBVIOUS
  <2>7. Spells(s, 2, p, 16) /\ Spells(t, 3, p, 16 + 2) /\ Online(p) = s \o t
    BY <1>1, <2>5, <2>6 DEF Spells, StepName, Steps, Online
  <2>8. Spells(Online(p), 2 + 3, p, 16)
    BY ONLY <2>7, Joined
  <2> QED  BY <2>2, <2>4, <2>8
<1>2. CASE p = "client"
  <2>1. /\ Spells(SenderBaseOTs, 2, p, 4) /\ Spells(ReceiverBaseOTs, 2, p, 4 + 2)
        /\ BaseOTs(p) = SenderBaseOTs \o ReceiverBaseOTs
    BY <1>2 DEF Spells, StepName, Steps, SenderBaseOTs, ReceiverBaseOTs, BaseOTs
  <2>2. Spells(BaseOTs(p), 2 + 2, p, 4)
    BY ONLY <2>1, Joined
  <2>3. /\ Spells(CorrelatedSend, 3, p, 9) /\ Spells(CorrelatedReceive, 3, p, 9 + 3)
        /\ OTPhases(p) = CorrelatedSend \o CorrelatedReceive
    BY <1>2 DEF Spells, StepName, Steps, CorrelatedSend, CorrelatedReceive, OTPhases
  <2>4. Spells(OTPhases(p), 3 + 3, p, 9)
    BY ONLY <2>3, Joined
  <2>5. PICK s : s = <<"recvDatabase", "setFingerprint">>
    OBVIOUS
  <2>6. PICK t : t = <<"mult", "finalize", "toYao">>
    OBVIOUS
  <2>7. Spells(s, 2, p, 16) /\ Spells(t, 3, p, 16 + 2) /\ Online(p) = s \o t
    BY <1>2, <2>5, <2>6 DEF Spells, StepName, Steps, Online
  <2>8. Spells(Online(p), 2 + 3, p, 16)
    BY ONLY <2>7, Joined
  <2> QED  BY <2>2, <2>4, <2>8
<1> QED  BY <1>1, <1>2 DEF Party

\* The concatenations of Setup and Online are the 21 steps of Steps.
LEMMA ScriptOf ==
    ASSUME NEW p \in Party
    PROVE  Len(Script[p]) = 21 /\ \A k \in 1 .. 21 : Script[p][k] = Steps[p][k]
<1>1. PICK d : d = <<"drawDeltas">>
  OBVIOUS
<1>2. PICK t : t = <<"triplets">>
  OBVIOUS
<1>3. /\ Spells(SeedExchange, 4, p, 0)
      /\ Spells(d, 1, p, 0 + 8) /\ Spells(t, 1, p, 0 + 15)
  BY <1>1, <1>2 DEF Spells, SeedExchange, StepName, Steps, Party
<1>4. /\ Spells(BaseOTs(p), 4, p, 0 + 4) /\ Spells(OTPhases(p), 6, p, 0 + 9)
      /\ Spells(Online(p), 5, p, 0 + 16)
  BY PartsOfScript
<1>5. Spells(SeedExchange \o BaseOTs(p), 4 + 4, p, 0)
  BY ONLY <1>3, <1>4, Joined
<1>6. PICK a : a = SeedExchange \o BaseOTs(p)
  OBVIOUS
<1>7. Spells(a, 8, p, 0)
  BY ONLY <1>5, <1>6
<1>8. Spells(a \o d, 8 + 1, p, 0)
  BY ONLY <1>3, <1>7, Joined
<1>9. PICK b : b = a \o d
  OBVIOUS
<1>10. Spells(b, 9, p, 0)
  BY ONLY <1>8, <1>9
<1>11. Spells(b \o OTPhases(p), 9 + 6, p, 0)
  BY ONLY <1>4, <1>10, Joined
<1>12. PICK c : c = b \o OTPhases(p)
  OBVIOUS
<1>13. Spells(c, 15, p, 0)
  BY ONLY <1>11, <1>12
<1>14. Spells(c \o t, 15 + 1, p, 0)
  BY ONLY <1>3, <1>13, Joined
<1>15. Setup(p) = c \o t
  BY <1>1, <1>2, <1>6, <1>9, <1>12 DEF Setup
<1>16. Spells(Setup(p), 16, p, 0)
  BY ONLY <1>14, <1>15
<1>17. Spells(Setup(p) \o Online(p), 16 + 5, p, 0)
  BY ONLY <1>4, <1>16, Joined
<1>18. Script[p] = Setup(p) \o Online(p)
  BY DEF Script
<1>19. Spells(Script[p], 21, p, 0)
  BY ONLY <1>17, <1>18
<1> QED  BY <1>19 DEF Spells

-----------------------------------------------------------------------------
(* Where the two scripts stand *)

\* Blocks of the four messages that carry vectors of values.
Cor == BlocksRead(NumOTs, ValueBytes)
DatabaseBlocks == BlocksRead(M * N + M, ValueBytes)
FingerprintBlocks == BlocksRead(N + 1, ValueBytes)
DeltaBlocks == BlocksRead(M, ValueBytes)

Width(kind) ==
    CASE kind = "cor" -> Cor
      [] kind = "database" -> DatabaseBlocks
      [] kind = "fingerprint" -> FingerprintBlocks
      [] kind = "multDeltas" -> DeltaBlocks
      [] OTHER -> 1

\* What a writing step writes.
Written ==
    [sendSeed |-> "seed", sendSquaresSeed |-> "squaresSeed",
     sendBaseKeys |-> "baseKeys", sendBasePoints |-> "basePoints",
     sendU |-> "u", sendOffset |-> "offset", sendCor |-> "cor",
     setDatabase |-> "database", setFingerprint |-> "fingerprint",
     mult |-> "multDeltas"]

\* The messages towards a party in the order in which the other one writes
\* them, the blocks that come before each, and the message that a party writes
\* or reads next at every position of its script.
Kinds ==
    [server |-> <<"seed", "squaresSeed", "basePoints", "baseKeys", "offset", "cor", "u",
                  "fingerprint", "multDeltas">>,
     client |-> <<"seed", "squaresSeed", "baseKeys", "basePoints", "u", "offset", "cor",
                  "database", "multDeltas">>]
Start ==
    [server |-> <<0, 1, 2, 3, 4, 5, 5 + Cor, 6 + Cor, 6 + Cor + FingerprintBlocks,
                  6 + Cor + FingerprintBlocks + DeltaBlocks>>,
     client |-> <<0, 1, 2, 3, 4, 5, 6, 6 + Cor, 6 + Cor + DatabaseBlocks,
                  6 + Cor + DatabaseBlocks + DeltaBlocks>>]
NextWrite ==
    [server |-> <<1, 2, 3, 3, 3, 4, 4, 4, 5, 5, 6, 6, 6, 6, 7, 8, 8, 9, 9, 10, 10, 10>>,
     client |-> <<1, 2, 3, 3, 3, 3, 4, 5, 5, 5, 5, 6, 7, 8, 8, 8, 8, 8, 9, 10, 10, 10>>]
NextRead ==
    [server |-> <<1, 1, 1, 2, 3, 3, 4, 5, 5, 5, 5, 6, 7, 8, 8, 8, 8, 8, 9, 9, 10, 10>>,
     client |-> <<1, 1, 1, 2, 3, 4, 4, 4, 5, 5, 6, 6, 6, 6, 7, 8, 8, 9, 9, 9, 10, 10>>]

Writing(p) == NextWrite[Other(p)][pc[Other(p)]]
Reading(p) == NextRead[p][pc[p]]

\* What is on its way to a party are the blocks of the messages from the one it
\* reads next to the one the peer writes next, in order.
Types == pc \in [Party -> 1 .. 22] /\ \E S : net \in [Party -> Seq(S)]
Streams ==
    \A p \in Party :
        /\ Reading(p) <= Writing(p)
        /\ Len(net[p]) = Start[p][Writing(p)] - Start[p][Reading(p)]
        /\ \A b \in 1 .. Len(net[p]) : \E m \in 1 .. 9 :
              /\ net[p][b].kind = Kinds[p][m]
              /\ Start[p][m] < Start[p][Reading(p)] + b
              /\ Start[p][Reading(p)] + b <= Start[p][m + 1]

-----------------------------------------------------------------------------
(* Blocks of a message *)

\* The numbers of values in the messages are positive; the database message
\* has one sum per row, counted once by the writer and once by the reader.
LEMMA Sizes ==
    /\ M \in Nat \ {0} /\ N \in Nat \ {0} /\ NumOTs \in Nat \ {0}
    /\ M * N + M \in Nat \ {0} /\ N + 1 \in Nat \ {0}
    /\ M * (N + 1) = M * N + M
<1>1. M \in Nat \ {0} /\ N \in Nat \ {0} /\ L \in Nat \ {0}
  BY ParameterAssumption
<1>2. M * N \in Nat \ {0}
  BY <1>1, SMTT(60)
<1>3. (M * N) * L \in Nat \ {0}
  BY ONLY <1>1, <1>2, SMTT(60)
<1>4. M * (N + 1) = M * N + M
  BY ONLY <1>1, SMTT(60)
<1> QED  BY <1>1, <1>2, <1>3, <1>4 DEF NumOTs

\* A vector of values is written to as many blocks as its reader asks for.
LEMMA ValuesSent ==
    ASSUME NEW kind, NEW count \in Nat \ {0}, NEW vec, DOMAIN vec = 0 .. count - 1
    PROVE  /\ BlocksRead(count, ValueBytes) \in Nat \ {0}
           /\ Len(Values(kind, vec)) = BlocksRead(count, ValueBytes)
           /\ \E T : Values(kind, vec) \in Seq(T)
           /\ \A b \in 1 .. Len(Values(kind, vec)) : Values(kind, vec)[b].kind = kind
<1>1. PICK q \in Nat \ {0} : BlockBytes = q * 2
  <2>1. BlockBytes \in Nat \ {0} /\ BlockBytes % 2 = 0
    BY BlockAssumption, ValuesFillBlocks DEF ValueBytes
  <2> QED  BY ONLY <2>1, SMTT(60)
<1>2. BlocksWritten(count, 2) = BlocksRead(count, 2)
  BY <1>1, FramesAgree
<1>3. BlocksWritten(count, 2) \in Nat \ {0}
  <2>1. PerBlock(2) = q
    BY <1>1, SMTT(60) DEF PerBlock
  <2>2. (count - 1) \div q \in Nat
    <3>1. count - 1 \in Nat
      OBVIOUS
    <3> QED  BY ONLY <3>1, DivisionOfNat, q \in Nat \ {0}
  <2> QED  BY <2>1, <2>2 DEF BlocksWritten
<1>4. PICK n \in Nat \ {0} : n = BlocksWritten(count, 2)
  BY <1>3
<1>5. Cardinality(DOMAIN vec) = count
  BY FS_Interval
<1>6. PICK sent : sent = sendValues(vec, 2)
  OBVIOUS
<1>7. DOMAIN sent = 1 .. n
  BY <1>4, <1>5, <1>6 DEF sendValues
<1>8. PICK T : T = {[kind |-> kind, bytes |-> sent[b]] : b \in 1 .. n}
  OBVIOUS
<1>9. PICK f : f = [b \in 1 .. n |-> [kind |-> kind, bytes |-> sent[b]]]
  OBVIOUS
<1>10. /\ Values(kind, vec) = f
       /\ f \in [1 .. n -> T] /\ \A b \in 1 .. n : f[b].kind = kind
  BY <1>6, <1>7, <1>8, <1>9 DEF Values, Blocks, ValueBytes
<1>11. f \in Seq(T) /\ Len(f) = n
  BY ONLY <1>10, n \in Nat \ {0}
<1> QED  BY <1>2, <1>4, <1>10, <1>11 DEF ValueBytes

\* A message of one block.
LEMMA SignalSent ==
    ASSUME NEW kind, NEW bytes
    PROVE  /\ Len(Blocks(kind, <<bytes>>)) = 1
           /\ \E T : Blocks(kind, <<bytes>>) \in Seq(T)
           /\ \A b \in 1 .. 1 : Blocks(kind, <<bytes>>)[b].kind = kind
<1>1. PICK f : f = [b \in 1 .. 1 |-> [kind |-> kind, bytes |-> bytes]]
  OBVIOUS
<1>2. Blocks(kind, <<bytes>>) = f
  BY <1>1 DEF Blocks
<1>3. f \in Seq({[kind |-> kind, bytes |-> bytes]}) /\ Len(f) = 1 /\ f[1].kind = kind
  BY <1>1
<1> QED  BY <1>2, <1>3

\* No message of values is empty.
LEMMA Widths ==
    /\ Cor \in Nat \ {0} /\ DatabaseBlocks \in Nat \ {0}
    /\ FingerprintBlocks \in Nat \ {0} /\ DeltaBlocks \in Nat \ {0}
<1>1. ASSUME NEW count \in Nat \ {0}
      PROVE  BlocksRead(count, ValueBytes) \in Nat \ {0}
  <2>1. PICK vec : vec = [v \in 0 .. count - 1 |-> 0]
    OBVIOUS
  <2>2. DOMAIN vec = 0 .. count - 1
    BY <2>1
  <2> QED  BY <2>2, ValuesSent
<1> QED  BY <1>1, Sizes DEF Cor, DatabaseBlocks, FingerprintBlocks, DeltaBlocks

-----------------------------------------------------------------------------
(* The tables *)

\* Messages follow one another without gaps, and each kind occurs once.
LEMMA StartOf ==
    ASSUME NEW p \in Party
    PROVE  /\ Start[p][1] = 0
           /\ \A m \in 1 .. 10 : Start[p][m] \in Nat
           /\ \A m, n \in 1 .. 10 : m < n => Start[p][m] < Start[p][n]
           /\ \A m \in 1 .. 9 : Start[p][m + 1] = Start[p][m] + Width(Kinds[p][m])
           /\ \A m, n \in 1 .. 9 : Kinds[p][m] = Kinds[p][n] => m = n
<1>1. CASE p = "server"
  <2>1. Start[p][1] = 0 /\ \A m \in 1 .. 10 : Start[p][m] \in Nat
    BY <1>1, Widths DEF Start
  <2>2. \A m \in 1 .. 9 : Start[p][m + 1] = Start[p][m] + Width(Kinds[p][m])
    BY <1>1, Widths DEF Start, Kinds, Width
  <2>3. \A m, n \in 1 .. 10 : m < n => Start[p][m] < Start[p][n]
    BY <1>1, Widths DEF Start
  <2>4. \A m, n \in 1 .. 9 : Kinds[p][m] = Kinds[p][n] => m = n
    BY <1>1 DEF Kinds
  <2> QED  BY <2>1, <2>2, <2>3, <2>4
<1>2. CASE p = "client"
  <2>1. Start[p][1] = 0 /\ \A m \in 1 .. 10 : Start[p][m] \in Nat
    BY <1>2, Widths DEF Start
  <2>2. \A m \in 1 .. 9 : Start[p][m + 1] = Start[p][m] + Width(Kinds[p][m])
    BY <1>2, Widths DEF Start, Kinds, Width
  <2>3. \A m, n \in 1 .. 10 : m < n => Start[p][m] < Start[p][n]
    BY <1>2, Widths DEF Start
  <2>4. \A m, n \in 1 .. 9 : Kinds[p][m] = Kinds[p][n] => m = n
    BY <1>2 DEF Kinds
  <2> QED  BY <2>1, <2>2, <2>3, <2>4
<1> QED  BY <1>1, <1>2 DEF Party

\* A writing step writes the message whose turn it is, a reading step reads the
\* one whose turn it is, and the other steps do neither.
LEMMA TurnOf ==
    ASSUME NEW p \in Party, NEW k \in 1 .. 21
    PROVE  /\ NextWrite[p][k] \in 1 .. 10 /\ NextRead[p][k] \in 1 .. 10
           /\ Steps[p][k] \in DOMAIN Written =>
                 /\ NextWrite[p][k] \in 1 .. 9 /\ NextWrite[p][k + 1] = NextWrite[p][k] + 1
                 /\ Kinds[Other(p)][NextWrite[p][k]] = Written[Steps[p][k]]
           /\ Steps[p][k] \notin DOMAIN Written => NextWrite[p][k + 1] = NextWrite[p][k]
           /\ Steps[p][k] \in DOMAIN Expected =>
                 /\ NextRead[p][k] \in 1 .. 9 /\ NextRead[p][k + 1] = NextRead[p][k] + 1
                 /\ Kinds[p][NextRead[p][k]] = Expected[Steps[p][k]]
           /\ Steps[p][k] \notin DOMAIN Expected => NextRead[p][k + 1] = NextRead[p][k]
<1>1. CASE p = "server"
  <2>1. NextWrite[p][k] \in 1 .. 10 /\ NextRead[p][k] \in 1 .. 10
    BY <1>1 DEF NextWrite, NextRead
  <2>2. Steps[p][k] \in DOMAIN Written =>
           /\ NextWrite[p][k] \in 1 .. 9 /\ NextWrite[p][k + 1] = NextWrite[p][k] + 1
           /\ Kinds[Other(p)][NextWrite[p][k]] = Written[Steps[p][k]]
    BY <1>1 DEF NextWrite, Written, Kinds, Steps, Other
  <2>3. Steps[p][k] \notin DOMAIN Written => NextWrite[p][k + 1] = NextWrite[p][k]
    BY <1>1 DEF NextWrite, Written, Steps
  <2>4. Steps[p][k] \in DOMAIN Expected =>
           /\ NextRead[p][k] \in 1 .. 9 /\ NextRead[p][k + 1] = NextRead[p][k] + 1
           /\ Kinds[p][NextRead[p][k]] = Expected[Steps[p][k]]
    BY <1>1 DEF NextRead, Expected, Kinds, Steps
  <2>5. Steps[p][k] \notin DOMAIN Expected => NextRead[p][k + 1] = NextRead[p][k]
    BY <1>1 DEF NextRead, Expected, Steps
  <2> QED  BY <2>1, <2>2, <2>3, <2>4, <2>5
<1>2. CASE p = "client"
  <2>1. NextWrite[p][k] \in 1 .. 10 /\ NextRead[p][k] \in 1 .. 10
    BY <1>2 DEF NextWrite, NextRead
  <2>2. Steps[p][k] \in DOMAIN Written =>
           /\ NextWrite[p][k] \in 1 .. 9 /\ NextWrite[p][k + 1] = NextWrite[p][k] + 1
           /\ Kinds[Other(p)][NextWrite[p][k]] = Written[Steps[p][k]]
    BY <1>2 DEF NextWrite, Written, Kinds, Steps, Other
  <2>3. Steps[p][k] \notin DOMAIN Written => NextWrite[p][k + 1] = NextWrite[p][k]
    BY <1>2 DEF NextWrite, Written, Steps
  <2>4. Steps[p][k] \in DOMAIN Expected =>
           /\ NextRead[p][k] \in 1 .. 9 /\ NextRead[p][k + 1] = NextRead[p][k] + 1
           /\ Kinds[p][NextRead[p][k]] = Expected[Steps[p][k]]
    BY <1>2 DEF NextRead, Expected, Kinds, Steps
  <2>5. Steps[p][k] \notin DOMAIN Expected => NextRead[p][k + 1] = NextRead[p][k]
    BY <1>2 DEF NextRead, Expected, Steps
  <2> QED  BY <2>1, <2>2, <2>3, <2>4, <2>5
<1> QED  BY <1>1, <1>2 DEF Party

\* Both parties start with the first message and end after the last one.
LEMMA Ends ==
    ASSUME NEW p \in Party
    PROVE  /\ NextWrite[p][1] = 1 /\ NextRead[p][1] = 1
           /\ NextWrite[p][22] = 10 /\ NextRead[p][22] = 10
BY DEF NextWrite, NextRead, Party

\* A reader asks for as many blocks as its message has.
LEMMA WidthOfStep ==
    ASSUME NEW step \in DOMAIN Expected
    PROVE  ExpectedBlocks(step) = Width(Expected[step])
BY DEF ExpectedBlocks, ReadCount, Expected, Width, Cor, DatabaseBlocks, FingerprintBlocks,
       DeltaBlocks

-----------------------------------------------------------------------------
(* Preservation *)

IInv == Types /\ Streams

\* The positions of two parties in the tables.
LEMMA Turns ==
    ASSUME Types, NEW p \in Party
    PROVE  /\ pc[p] \in 1 .. 22 /\ Other(p) \in Party /\ Other(p) # p /\ Other(Other(p)) = p
           /\ Reading(p) \in 1 .. 10 /\ Writing(p) \in 1 .. 10
<1>1. /\ Other(p) \in Party /\ Other(p) # p /\ Other(Other(p)) = p
      /\ pc[p] \in 1 .. 22 /\ pc[Other(p)] \in 1 .. 22
  BY DEF Types, Party, Other
<1>2. ASSUME NEW q \in Party, NEW k \in 1 .. 22
      PROVE  NextWrite[q][k] \in 1 .. 10 /\ NextRead[q][k] \in 1 .. 10
  <2>1. k = 22 \/ k \in 1 .. 21
    OBVIOUS
  <2> QED  BY <2>1, TurnOf, Ends
<1> QED  BY <1>1, <1>2 DEF Reading, Writing

\* Something is on its way exactly if the writer is ahead, and then at least
\* the whole next message.
LEMMA Ahead ==
    ASSUME IInv, NEW p \in Party, Len(net[p]) > 0
    PROVE  /\ Reading(p) < Writing(p)
           /\ Len(net[p]) >= Start[p][Reading(p) + 1] - Start[p][Reading(p)]
<1>1. PICK r \in 1 .. 10, w \in 1 .. 10 : r = Reading(p) /\ w = Writing(p)
  BY Turns DEF IInv
<1>2. r <= w /\ Len(net[p]) = Start[p][w] - Start[p][r]
  BY <1>1 DEF IInv, Streams
<1>3. /\ \A m \in 1 .. 10 : Start[p][m] \in Nat
      /\ \A m, n \in 1 .. 10 : m < n => Start[p][m] < Start[p][n]
  BY StartOf
<1>4. Start[p][r] \in Nat /\ Start[p][w] \in Nat
  BY <1>3
<1>5. r < w
  <2>1. r = w => Len(net[p]) = 0
    BY ONLY <1>2, <1>4
  <2>2. r # w
    BY <2>1
  <2> QED  BY ONLY <1>2, <2>2, r \in 1 .. 10, w \in 1 .. 10
<1>6. PICK n \in 1 .. 10 : n = r + 1
  BY ONLY <1>5, r \in 1 .. 10, w \in 1 .. 10
<1>7. Start[p][n] \in Nat /\ (n < w => Start[p][n] < Start[p][w])
  BY ONLY <1>3, n \in 1 .. 10, w \in 1 .. 10
<1>8. n = w \/ n < w
  BY ONLY <1>5, <1>6, r \in 1 .. 10, w \in 1 .. 10
<1>9. Start[p][n] <= Start[p][w]
  BY ONLY <1>4, <1>7, <1>8
<1>10. Len(net[p]) >= Start[p][n] - Start[p][r]
  BY ONLY <1>2, <1>4, <1>7, <1>9
<1> QED  BY ONLY <1>1, <1>5, <1>6, <1>10

Moves(p) == pc' = [pc EXCEPT ![p] = @ + 1] /\ pc[p] <= 21

\* What a step of one party does to the positions of both directions.
LEMMA MovesTo ==
    ASSUME Types, NEW p \in Party, Moves(p)
    PROVE  /\ pc' \in [Party -> 1 .. 22] /\ pc[p] \in 1 .. 21
           /\ Reading(p)' = NextRead[p][pc[p] + 1]
           /\ Reading(Other(p))' = Reading(Other(p))
           /\ Writing(Other(p))' = NextWrite[p][pc[p] + 1]
           /\ Writing(p)' = Writing(p)
<1>1. Other(p) \in Party /\ Other(p) # p /\ Other(Other(p)) = p /\ pc[p] \in 1 .. 22
  BY Turns
<1>2. pc' \in [Party -> 1 .. 22] /\ pc'[p] = pc[p] + 1 /\ pc'[Other(p)] = pc[Other(p)]
  <2>1. pc \in [Party -> 1 .. 22] /\ pc' = [pc EXCEPT ![p] = pc[p] + 1]
    BY DEF Types, Moves
  <2>2. pc[p] + 1 \in 1 .. 22
    BY <1>1 DEF Moves
  <2> QED  BY ONLY <1>1, <2>1, <2>2, p \in Party
<1> QED  BY <1>1, <1>2 DEF Moves, Reading, Writing

\* A step that writes the next message of p.
LEMMA WriteKeeps ==
    ASSUME IInv, NEW p \in Party, Moves(p), NEW blocks, NEW T, blocks \in Seq(T),
           net' = [net EXCEPT ![Other(p)] = @ \o blocks],
           Steps[p][pc[p]] \in DOMAIN Written \ DOMAIN Expected,
           Len(blocks) = Width(Written[Steps[p][pc[p]]]),
           \A b \in 1 .. Len(blocks) : blocks[b].kind = Written[Steps[p][pc[p]]]
    PROVE  IInv'
<1>1. PICK q \in Party : q = Other(p) /\ q # p /\ Other(q) = p
  BY Turns DEF IInv
<1>2. PICK r \in 1 .. 10, w \in 1 .. 10 : r = Reading(q) /\ w = Writing(q)
  BY Turns DEF IInv
<1>3. /\ pc' \in [Party -> 1 .. 22] /\ pc[p] \in 1 .. 21
      /\ Reading(q)' = r /\ Reading(p)' = Reading(p) /\ Writing(p)' = Writing(p)
      /\ Writing(q)' = w + 1 /\ w \in 1 .. 9
      /\ Kinds[q][w] = Written[Steps[p][pc[p]]]
  <2>1. /\ pc' \in [Party -> 1 .. 22] /\ pc[p] \in 1 .. 21
        /\ Reading(p)' = NextRead[p][pc[p] + 1] /\ Reading(q)' = Reading(q)
        /\ Writing(q)' = NextWrite[p][pc[p] + 1] /\ Writing(p)' = Writing(p)
    BY <1>1, MovesTo DEF IInv
  <2>2. /\ NextRead[p][pc[p] + 1] = NextRead[p][pc[p]]
        /\ NextWrite[p][pc[p]] \in 1 .. 9
        /\ NextWrite[p][pc[p] + 1] = NextWrite[p][pc[p]] + 1
        /\ Kinds[q][NextWrite[p][pc[p]]] = Written[Steps[p][pc[p]]]
    BY <1>1, <2>1, TurnOf
  <2>3. w = NextWrite[p][pc[p]] /\ Reading(p) = NextRead[p][pc[p]]
    BY <1>1, <1>2 DEF Writing, Reading
  <2> QED  BY <1>2, <2>1, <2>2, <2>3
<1>4. /\ Len(net[q]) = Start[q][w] - Start[q][r] /\ r <= w
      /\ Start[q][w + 1] = Start[q][w] + Len(blocks)
      /\ Start[q][w] \in Nat /\ Start[q][r] \in Nat /\ Start[q][w + 1] \in Nat
  <2>1. Start[q][w + 1] = Start[q][w] + Width(Kinds[q][w])
    BY <1>3, StartOf
  <2>2. w + 1 \in 1 .. 10
    BY <1>3
  <2> QED  BY <1>2, <1>3, <2>1, <2>2, StartOf DEF IInv, Streams
<1>5. PICK S : net \in [Party -> Seq(S)]
  BY DEF IInv, Types
<1>6. PICK old : old = net[q]
  OBVIOUS
<1>7. /\ old \in Seq(S \cup T) /\ blocks \in Seq(S \cup T)
      /\ net'[q] = old \o blocks /\ net'[p] = net[p]
      /\ net' \in [Party -> Seq(S \cup T)]
  <2>1. old \in Seq(S \cup T) /\ blocks \in Seq(S \cup T)
    BY <1>5, <1>6
  <2>2. old \o blocks \in Seq(S \cup T)
    BY <2>1, ConcatProperties
  <2>3. \A x \in Party : net[x] \in Seq(S \cup T)
    BY <1>5
  <2> QED  BY <1>1, <1>5, <1>6, <2>1, <2>2, <2>3
<1>8. Types'
  BY <1>3, <1>7 DEF Types
<1>9. /\ Len(net'[q]) = Len(old) + Len(blocks)
      /\ \A b \in 1 .. Len(old) + Len(blocks) :
            net'[q][b] = IF b <= Len(old) THEN old[b] ELSE blocks[b - Len(old)]
      /\ Len(old) \in Nat /\ Len(blocks) \in Nat
  <2>1. Len(old) \in Nat /\ Len(blocks) \in Nat
    BY ONLY <1>7, LenProperties
  <2>2. /\ Len(old \o blocks) = Len(old) + Len(blocks)
        /\ \A b \in 1 .. Len(old) + Len(blocks) :
              (old \o blocks)[b] = IF b <= Len(old) THEN old[b] ELSE blocks[b - Len(old)]
    BY ONLY <1>7, ConcatProperties
  <2> QED  BY ONLY <1>7, <2>1, <2>2
<1>10. ASSUME NEW b \in 1 .. Len(net'[q])
       PROVE  \E m \in 1 .. 9 :
                 /\ net'[q][b].kind = Kinds[q][m]
                 /\ Start[q][m] < Start[q][r] + b
                 /\ Start[q][r] + b <= Start[q][m + 1]
  <2>1. CASE b <= Len(old)
    <3>1. b \in 1 .. Len(net[q]) /\ net'[q][b] = net[q][b]
      BY <1>6, <1>9, <1>10, <2>1
    <3> QED  BY <1>2, <3>1 DEF IInv, Streams
  <2>2. CASE ~(b <= Len(old))
    <3>1. b - Len(old) \in 1 .. Len(blocks) /\ net'[q][b] = blocks[b - Len(old)]
      BY <1>9, <1>10, <2>2
    <3>2. net'[q][b].kind = Kinds[q][w]
      BY <1>3, <3>1
    <3>3. Start[q][w] < Start[q][r] + b /\ Start[q][r] + b <= Start[q][w + 1]
      <4>1. PICK l \in Nat, k \in Nat : l = Len(old) /\ k = Len(blocks)
        BY <1>9
      <4>2. b \in Nat /\ ~(b <= l) /\ b - l <= k
        BY <1>9, <2>2, <3>1, <4>1
      <4>3. l = Start[q][w] - Start[q][r] /\ Start[q][w + 1] = Start[q][w] + k
        BY <1>4, <1>6, <4>1
      <4>4. PICK x \in Nat, y \in Nat, z \in Nat :
               x = Start[q][r] /\ y = Start[q][w] /\ z = Start[q][w + 1]
        BY <1>4
      <4>5. l = y - x /\ z = y + k
        BY ONLY <4>3, <4>4
      <4>6. y < x + b /\ x + b <= z
        BY ONLY <4>2, <4>5, l \in Nat, k \in Nat, x \in Nat, y \in Nat, z \in Nat
      <4> QED  BY ONLY <4>4, <4>6
    <3> QED  BY <1>3, <3>2, <3>3
  <2> QED  BY <2>1, <2>2
<1>11. /\ Reading(q)' <= Writing(q)'
       /\ Len(net'[q]) = Start[q][w + 1] - Start[q][r]
  BY <1>3, <1>4, <1>6, <1>9
<1>12. Streams'
  <2> SUFFICES ASSUME NEW x \in Party
               PROVE  /\ Reading(x)' <= Writing(x)'
                      /\ Len(net'[x]) = Start[x][Writing(x)'] - Start[x][Reading(x)']
                      /\ \A b \in 1 .. Len(net'[x]) : \E m \in 1 .. 9 :
                            /\ net'[x][b].kind = Kinds[x][m]
                            /\ Start[x][m] < Start[x][Reading(x)'] + b
                            /\ Start[x][Reading(x)'] + b <= Start[x][m + 1]
    BY DEF Streams
  <2>1. CASE x = q
    BY <1>3, <1>10, <1>11, <2>1
  <2>2. CASE x = p
    BY <1>3, <1>7, <2>2 DEF IInv, Streams
  <2> QED  BY <1>1, <2>1, <2>2 DEF Party
<1> QED  BY <1>8, <1>12 DEF IInv

\* A step that reads the next message towards p.
LEMMA ReadKeeps ==
    ASSUME IInv, NEW p \in Party, Moves(p), NEW n,
           Steps[p][pc[p]] \in DOMAIN Expected \ DOMAIN Written,
           n = Width(Expected[Steps[p][pc[p]]]), Len(net[p]) >= n,
           net' = [net EXCEPT ![p] = SubSeq(@, n + 1, Len(@))]
    PROVE  IInv'
<1>1. PICK q \in Party : q = Other(p) /\ q # p /\ Other(q) = p
  BY Turns DEF IInv
<1>2. PICK r \in 1 .. 10, w \in 1 .. 10 : r = Reading(p) /\ w = Writing(p)
  BY Turns DEF IInv
<1>3. /\ pc' \in [Party -> 1 .. 22] /\ pc[p] \in 1 .. 21
      /\ Reading(p)' = r + 1 /\ Writing(p)' = w /\ Reading(q)' = Reading(q)
      /\ Writing(q)' = Writing(q) /\ r \in 1 .. 9
      /\ Kinds[p][r] = Expected[Steps[p][pc[p]]]
  <2>1. /\ pc' \in [Party -> 1 .. 22] /\ pc[p] \in 1 .. 21
        /\ Reading(p)' = NextRead[p][pc[p] + 1] /\ Reading(q)' = Reading(q)
        /\ Writing(q)' = NextWrite[p][pc[p] + 1] /\ Writing(p)' = Writing(p)
    BY <1>1, MovesTo DEF IInv
  <2>2. /\ NextWrite[p][pc[p] + 1] = NextWrite[p][pc[p]]
        /\ NextRead[p][pc[p]] \in 1 .. 9
        /\ NextRead[p][pc[p] + 1] = NextRead[p][pc[p]] + 1
        /\ Kinds[p][NextRead[p][pc[p]]] = Expected[Steps[p][pc[p]]]
    BY <2>1, TurnOf
  <2>3. r = NextRead[p][pc[p]] /\ Writing(q) = NextWrite[p][pc[p]]
    BY <1>1, <1>2 DEF Writing, Reading
  <2> QED  BY <1>2, <2>1, <2>2, <2>3
<1>4. PICK x \in Nat, y \in Nat, z \in Nat :
        x = Start[p][r] /\ y = Start[p][r + 1] /\ z = Start[p][w]
  <2>1. r + 1 \in 1 .. 10
    BY <1>3
  <2> QED  BY <2>1, StartOf
<1>5. y = x + n /\ n \in Nat /\ x < y
  <2>1. y = x + Width(Kinds[p][r])
    BY <1>3, <1>4, StartOf
  <2>2. x < y
    <3>1. r \in 1 .. 10 /\ r + 1 \in 1 .. 10 /\ r < r + 1
      BY <1>3
    <3> QED  BY <1>4, <3>1, StartOf
  <2>3. y = x + n
    BY <1>3, <2>1
  <2>4. n = Width(Kinds[p][r])
    BY <1>3
  <2>5. Width(Kinds[p][r]) \in Int
    BY ONLY Widths, SMTT(60) DEF Width
  <2>6. n \in Int
    BY ONLY <2>4, <2>5
  <2> QED  BY ONLY <2>2, <2>3, <2>6, x \in Nat, y \in Nat
<1>6. /\ Len(net[p]) = z - x /\ Len(net[p]) \in Nat /\ Len(net[p]) >= n
  <2>1. Len(net[p]) = z - x
    BY <1>2, <1>4 DEF IInv, Streams
  <2>2. Len(net[p]) \in Nat
    BY LenProperties DEF IInv, Types
  <2> QED  BY <2>1, <2>2
<1>7. PICK S : net \in [Party -> Seq(S)]
  BY DEF IInv, Types
<1>8. PICK old : old = net[p]
  OBVIOUS
<1>9. PICK l \in Nat : l = Len(old) /\ l = z - x /\ l >= n
  BY <1>6, <1>8
<1>10. /\ net'[p] = SubSeq(old, n + 1, l) /\ net'[q] = net[q]
       /\ net'[p] \in Seq(S) /\ Len(net'[p]) = l - n
       /\ \A b \in 1 .. l - n : net'[p][b] = old[n + b]
       /\ net' \in [Party -> Seq(S)]
  <2>1. old \in Seq(S) /\ \A b \in n + 1 .. l : old[b] \in S
    <3>1. old \in Seq(S)
      BY <1>7, <1>8
    <3>2. \A b \in n + 1 .. l : b \in 1 .. Len(old)
      BY <1>5, <1>9
    <3> QED  BY ONLY <3>1, <3>2, ElementOfSeq
  <2>2. PICK rest : rest = SubSeq(old, n + 1, l)
    OBVIOUS
  <2>3. n + 1 \in Int /\ l \in Int
    BY <1>5
  <2>4. /\ rest \in Seq(S) /\ Len(rest) = (IF n + 1 <= l THEN l - (n + 1) + 1 ELSE 0)
        /\ \A b \in 1 .. l - (n + 1) + 1 : rest[b] = old[(n + 1) + b - 1]
    BY ONLY <2>1, <2>2, <2>3, SubSeqProperties
  <2>5. Len(rest) = l - n
    BY ONLY <1>5, <1>9, <2>4, l \in Nat
  <2>6. \A b \in 1 .. l - n : rest[b] = old[n + b]
    <3> SUFFICES ASSUME NEW b \in 1 .. l - n PROVE rest[b] = old[n + b]
      OBVIOUS
    <3>1. b \in 1 .. l - (n + 1) + 1 /\ (n + 1) + b - 1 = n + b
      BY ONLY <1>5, l \in Nat, b \in 1 .. l - n
    <3> QED  BY ONLY <2>4, <3>1
  <2>7. net' = [net EXCEPT ![p] = rest]
    BY <1>8, <1>9, <2>2
  <2> QED  BY ONLY <1>1, <1>7, <2>2, <2>4, <2>5, <2>6, <2>7, p \in Party
<1>11. Types'
  BY <1>3, <1>10 DEF Types
<1>12. r + 1 <= w
  <2>1. Reading(p) < Writing(p)
    <3>1. Len(net[p]) > 0
      BY ONLY <1>5, <1>6, x \in Nat, y \in Nat, l \in Nat
    <3> QED  BY <3>1, Ahead
  <2> QED  BY ONLY <1>2, <2>1, r \in 1 .. 10, w \in 1 .. 10
<1>13. ASSUME NEW b \in 1 .. Len(net'[p])
       PROVE  \E m \in 1 .. 9 :
                 /\ net'[p][b].kind = Kinds[p][m]
                 /\ Start[p][m] < y + b
                 /\ y + b <= Start[p][m + 1]
  <2>1. n + b \in 1 .. Len(net[p]) /\ net'[p][b] = net[p][n + b] /\ x + (n + b) = y + b
    <3>0. Len(net'[p]) = l - n
      BY ONLY <1>10
    <3>4. b \in 1 .. l - n
      BY ONLY <1>13, <3>0
    <3>1. PICK k \in Nat : k = b /\ 1 <= k /\ k <= l - n
      BY ONLY <1>5, <3>4, l \in Nat
    <3>2. n + k \in 1 .. l /\ x + (n + k) = y + k
      BY ONLY <1>5, <3>1, k \in Nat, l \in Nat, x \in Nat, y \in Nat
    <3>3. b \in 1 .. l - n /\ Len(net[p]) = l
      BY <1>8, <1>9, <1>10, <1>13
    <3> QED  BY <1>8, <1>10, <3>1, <3>2, <3>3
  <2>2. \E m \in 1 .. 9 :
           /\ net[p][n + b].kind = Kinds[p][m]
           /\ Start[p][m] < x + (n + b)
           /\ x + (n + b) <= Start[p][m + 1]
    BY <1>2, <1>4, <2>1 DEF IInv, Streams
  <2> QED  BY ONLY <2>1, <2>2
<1>14. Len(net'[p]) = z - y
  BY ONLY <1>5, <1>9, <1>10, x \in Nat, y \in Nat, z \in Nat, l \in Nat
<1>15. Streams'
  <2> SUFFICES ASSUME NEW a \in Party
               PROVE  /\ Reading(a)' <= Writing(a)'
                      /\ Len(net'[a]) = Start[a][Writing(a)'] - Start[a][Reading(a)']
                      /\ \A b \in 1 .. Len(net'[a]) : \E m \in 1 .. 9 :
                            /\ net'[a][b].kind = Kinds[a][m]
                            /\ Start[a][m] < Start[a][Reading(a)'] + b
                            /\ Start[a][Reading(a)'] + b <= Start[a][m + 1]
    BY DEF Streams
  <2>1. CASE a = p
    BY <1>3, <1>4, <1>12, <1>13, <1>14, <2>1
  <2>2. CASE a = q
    <3>1. Reading(a)' = Reading(a) /\ Writing(a)' = Writing(a) /\ net'[a] = net[a]
      BY <1>3, <1>10, <2>2
    <3>2. /\ Reading(a) <= Writing(a)
          /\ Len(net[a]) = Start[a][Writing(a)] - Start[a][Reading(a)]
          /\ \A b \in 1 .. Len(net[a]) : \E m \in 1 .. 9 :
                /\ net[a][b].kind = Kinds[a][m]
                /\ Start[a][m] < Start[a][Reading(a)] + b
                /\ Start[a][Reading(a)] + b <= Start[a][m + 1]
      BY DEF IInv, Streams
    <3> QED  BY ONLY <3>1, <3>2
  <2> QED  BY <1>1, <2>1, <2>2 DEF Party
<1> QED  BY <1>11, <1>15 DEF IInv

\* A step that uses no connection.
LEMMA LocalKeeps ==
    ASSUME IInv, NEW p \in Party, Moves(p), UNCHANGED net,
           Steps[p][pc[p]] \notin DOMAIN Expected \cup DOMAIN Written
    PROVE  IInv'
<1>1. PICK q \in Party : q = Other(p) /\ q # p /\ Other(q) = p
  BY Turns DEF IInv
<1>2. /\ pc' \in [Party -> 1 .. 22] /\ pc[p] \in 1 .. 21
      /\ Reading(p)' = NextRead[p][pc[p] + 1] /\ Reading(q)' = Reading(q)
      /\ Writing(q)' = NextWrite[p][pc[p] + 1] /\ Writing(p)' = Writing(p)
  BY <1>1, MovesTo DEF IInv
<1>3. Reading(p)' = Reading(p) /\ Writing(q)' = Writing(q)
  <2>1. /\ NextRead[p][pc[p] + 1] = NextRead[p][pc[p]]
        /\ NextWrite[p][pc[p] + 1] = NextWrite[p][pc[p]]
    BY <1>2, TurnOf
  <2>2. Reading(p) = NextRead[p][pc[p]] /\ Writing(q) = NextWrite[p][pc[p]]
    BY <1>1 DEF Reading, Writing
  <2> QED  BY ONLY <1>2, <2>1, <2>2
<1>4. Types'
  BY <1>2 DEF IInv, Types
<1>5. \A a \in Party : Reading(a)' = Reading(a) /\ Writing(a)' = Writing(a)
  BY <1>1, <1>2, <1>3 DEF Party
<1>6. Streams'
  BY <1>5 DEF IInv, Streams
<1> QED  BY <1>4, <1>6 DEF IInv

-----------------------------------------------------------------------------
(* The actions *)

\* A step happens at its place in the script.
LEMMA AtStep ==
    ASSUME Types, NEW p \in Party, NEW step, At(p, step), Advance(p)
    PROVE  Moves(p) /\ Steps[p][pc[p]] = step
<1>1. pc[p] \in 1 .. 22
  BY DEF Types
<1>2. pc[p] <= 21
  <2>1. ~(pc[p] > Len(Script[p])) /\ Len(Script[p]) = 21
    BY ScriptOf DEF At, Done
  <2> QED  BY ONLY <1>1, <2>1
<1>3. Script[p][pc[p]] = Steps[p][pc[p]]
  BY <1>1, <1>2, ScriptOf
<1> QED  BY <1>2, <1>3 DEF Moves, Advance, At

\* The three forms of a writing step, a reading step and a local one.
LEMMA Sends ==
    ASSUME IInv, NEW p \in Party, NEW step \in DOMAIN Written,
           At(p, step), Advance(p), NEW blocks, NEW T, blocks \in Seq(T), Send(p, blocks),
           Len(blocks) = Width(Written[step]),
           \A b \in 1 .. Len(blocks) : blocks[b].kind = Written[step]
    PROVE  IInv'
<1>1. Moves(p) /\ Steps[p][pc[p]] = step
  BY AtStep DEF IInv
<1>2. step \in DOMAIN Written \ DOMAIN Expected
  BY DEF Written, Expected
<1>3. net' = [net EXCEPT ![Other(p)] = @ \o blocks]
  BY DEF Send
<1> QED  BY <1>1, <1>2, <1>3, WriteKeeps

\* A step that sends one block keeps the turns.
LEMMA SendsOne ==
    ASSUME IInv, NEW p \in Party, NEW step \in DOMAIN Written,
           At(p, step), Advance(p), NEW bytes,
           Width(Written[step]) = 1, Send(p, Blocks(Written[step], <<bytes>>))
    PROVE  IInv'
<1>1. PICK blocks : blocks = Blocks(Written[step], <<bytes>>)
  OBVIOUS
<1>2. /\ Len(blocks) = 1 /\ \E T : blocks \in Seq(T)
      /\ \A b \in 1 .. Len(blocks) : blocks[b].kind = Written[step]
  BY <1>1, SignalSent
<1> QED  BY <1>1, <1>2, Sends

\* A step that sends a vector of values keeps the turns.
LEMMA SendsValues ==
    ASSUME IInv, NEW p \in Party, NEW step \in DOMAIN Written,
           At(p, step), Advance(p), NEW count \in Nat \ {0}, NEW vec,
           DOMAIN vec = 0 .. count - 1,
           Width(Written[step]) = BlocksRead(count, ValueBytes),
           Send(p, Values(Written[step], vec))
    PROVE  IInv'
<1>1. PICK blocks : blocks = Values(Written[step], vec)
  OBVIOUS
<1>2. /\ Len(blocks) = BlocksRead(count, ValueBytes) /\ \E T : blocks \in Seq(T)
      /\ \A b \in 1 .. Len(blocks) : blocks[b].kind = Written[step]
  BY <1>1, ValuesSent
<1> QED  BY <1>1, <1>2, Sends

\* A step that reads keeps the turns.
LEMMA Receives ==
    ASSUME IInv, NEW p \in Party, NEW step \in DOMAIN Expected,
           Receive(p, step), Advance(p)
    PROVE  IInv'
<1>1. At(p, step)
  BY DEF Receive
<1>2. Moves(p) /\ Steps[p][pc[p]] = step
  BY <1>1, AtStep DEF IInv
<1>3. step \in DOMAIN Expected \ DOMAIN Written
  BY DEF Written, Expected
<1>4. PICK n : n = ExpectedBlocks(step)
  OBVIOUS
<1>5. /\ n = Width(Expected[step]) /\ Len(net[p]) >= n
      /\ net' = [net EXCEPT ![p] = SubSeq(@, n + 1, Len(@))]
  BY <1>4, WidthOfStep DEF Receive
<1> QED  BY <1>2, <1>3, <1>5, ReadKeeps

\* A step that neither sends nor reads keeps the turns.
LEMMA Works ==
    ASSUME IInv, NEW p \in Party, NEW step, step \notin DOMAIN Expected \cup DOMAIN Written,
           At(p, step), Advance(p), UNCHANGED net
    PROVE  IInv'
<1>1. Moves(p) /\ Steps[p][pc[p]] = step
  BY AtStep DEF IInv
<1> QED  BY <1>1, LocalKeeps

\* The next message of every writing step, and its width.
LEMMA WidthsWritten ==
    /\ \A step \in {"sendSeed", "sendSquaresSeed", "sendBaseKeys", "sendBasePoints",
                    "sendU", "sendOffset"} :
          step \in DOMAIN Written /\ Width(Written[step]) = 1
    /\ \A step \in {"sendCor", "setDatabase", "setFingerprint", "mult"} :
          step \in DOMAIN Written
    /\ Width(Written["sendCor"]) = BlocksRead(NumOTs, ValueBytes)
    /\ Width(Written["setDatabase"]) = BlocksRead(M * N + M, ValueBytes)
    /\ Width(Written["setFingerprint"]) = BlocksRead(N + 1, ValueBytes)
    /\ Width(Written["mult"]) = BlocksRead(M, ValueBytes)
BY DEF Written, Width, Cor, DatabaseBlocks, FingerprintBlocks, DeltaBlocks

\* Every action of either party keeps the invariant.
LEMMA StepKeeps ==
    ASSUME IInv, NEW p \in Party, Step(p)
    PROVE  IInv'
<1>1. CASE SendSeed(p)
  <2>1. PICK s \in Seeds : Send(p, Blocks("seed", sendValue(s)))
    BY <1>1 DEF SendSeed
  <2>2. PICK bytes : sendValue(s) = <<bytes>>
    BY DEF sendValue
  <2>3. /\ "sendSeed" \in DOMAIN Written /\ Written["sendSeed"] = "seed"
        /\ Width(Written["sendSeed"]) = 1
    BY WidthsWritten DEF Written
  <2> QED  BY <1>1, <2>1, <2>2, <2>3, SendsOne DEF SendSeed
<1>2. CASE SendSquaresSeed(p)
  <2>1. PICK s : Send(p, Blocks("squaresSeed", sendValue(s)))
    BY <1>2 DEF SendSquaresSeed
  <2>2. PICK bytes : sendValue(s) = <<bytes>>
    BY DEF sendValue
  <2>3. /\ "sendSquaresSeed" \in DOMAIN Written
        /\ Written["sendSquaresSeed"] = "squaresSeed"
        /\ Width(Written["sendSquaresSeed"]) = 1
    BY WidthsWritten DEF Written
  <2> QED  BY <1>2, <2>1, <2>2, <2>3, SendsOne DEF SendSquaresSeed
<1>3. CASE RecvSeed(p)
  <2>1. "recvSeed" \in DOMAIN Expected
    BY DEF Expected
  <2> QED  BY <1>3, <2>1, Receives DEF RecvSeed
<1>4. CASE RecvSquaresSeed(p)
  <2>1. "recvSquaresSeed" \in DOMAIN Expected
    BY DEF Expected
  <2> QED  BY <1>4, <2>1, Receives DEF RecvSquaresSeed
<1>5. CASE BaseOTSend(p)
  <2>1. ASSUME NEW step \in {"sendBaseKeys", "sendBasePoints"},
               At(p, step), Send(p, Signal(Written[step]))
        PROVE  IInv'
    <3>1. /\ step \in DOMAIN Written /\ Width(Written[step]) = 1
          /\ Signal(Written[step]) = Blocks(Written[step], <<<<>>>>)
      BY WidthsWritten DEF Signal, Blocks
    <3> QED  BY <1>5, <2>1, <3>1, SendsOne DEF BaseOTSend
  <2>2. Written["sendBaseKeys"] = "baseKeys" /\ Written["sendBasePoints"] = "basePoints"
    BY DEF Written
  <2> QED  BY <1>5, <2>1, <2>2 DEF BaseOTSend
<1>6. CASE BaseOTRecv(p)
  <2>1. "recvBaseKeys" \in DOMAIN Expected /\ "recvBasePoints" \in DOMAIN Expected
    BY DEF Expected
  <2> QED  BY <1>6, <2>1, Receives DEF BaseOTRecv
<1>7. CASE DrawDeltas(p)
  <2>1. "drawDeltas" \notin DOMAIN Expected \cup DOMAIN Written
    BY DEF Expected, Written
  <2> QED  BY <1>7, <2>1, Works DEF DrawDeltas
<1>8. CASE SendU(p)
  <2>1. PICK u : Send(p, Blocks("u", <<u>>))
    BY <1>8 DEF SendU
  <2>2. /\ "sendU" \in DOMAIN Written /\ Written["sendU"] = "u"
        /\ Width(Written["sendU"]) = 1
    BY WidthsWritten DEF Written
  <2> QED  BY <1>8, <2>1, <2>2, SendsOne DEF SendU
<1>9. CASE RecvU(p)
  <2>1. "recvU" \in DOMAIN Expected
    BY DEF Expected
  <2> QED  BY <1>9, <2>1, Receives DEF RecvU
<1>10. CASE SendOffset(p)
  <2>1. /\ "sendOffset" \in DOMAIN Written /\ Written["sendOffset"] = "offset"
        /\ Width(Written["sendOffset"]) = 1
        /\ Signal(Written["sendOffset"]) = Blocks(Written["sendOffset"], <<<<>>>>)
    BY WidthsWritten DEF Written, Signal, Blocks
  <2> QED  BY <1>10, <2>1, SendsOne DEF SendOffset
<1>11. CASE RecvOffset(p)
  <2>1. "recvOffset" \in DOMAIN Expected
    BY DEF Expected
  <2> QED  BY <1>11, <2>1, Receives DEF RecvOffset
<1>12. CASE SendCor(p)
  <2>1. PICK vec : DOMAIN vec = OTs /\ Send(p, Values("cor", vec))
    BY <1>12 DEF SendCor
  <2>2. DOMAIN vec = 0 .. NumOTs - 1
    BY <2>1 DEF OTs
  <2>3. "sendCor" \in DOMAIN Written /\ Written["sendCor"] = "cor"
    BY WidthsWritten DEF Written
  <2> QED  BY <1>12, <2>1, <2>2, <2>3, Sizes, WidthsWritten, SendsValues DEF SendCor
<1>13. CASE RecvCor(p)
  <2>1. "recvCor" \in DOMAIN Expected
    BY DEF Expected
  <2> QED  BY <1>13, <2>1, Receives DEF RecvCor
<1>14. CASE Triplets(p)
  <2>1. "triplets" \notin DOMAIN Expected \cup DOMAIN Written
    BY DEF Expected, Written
  <2> QED  BY <1>14, <2>1, Works DEF Triplets
<1>15. CASE Mult(p)
  <2>1. PICK vec : DOMAIN vec = Rows /\ Send(p, Values("multDeltas", vec))
    BY <1>15 DEF Mult
  <2>2. DOMAIN vec = 0 .. M - 1
    BY <2>1 DEF Rows
  <2>3. "mult" \in DOMAIN Written /\ Written["mult"] = "multDeltas"
    BY WidthsWritten DEF Written
  <2> QED  BY <1>15, <2>1, <2>2, <2>3, Sizes, WidthsWritten, SendsValues DEF Mult
<1>16. CASE FinalizeMultiplication(p)
  <2>1. "finalize" \in DOMAIN Expected
    BY DEF Expected
  <2> QED  BY <1>16, <2>1, Receives DEF FinalizeMultiplication
<1>17. CASE ToYao(p)
  <2>1. "toYao" \notin DOMAIN Expected \cup DOMAIN Written
    BY DEF Expected, Written
  <2> QED  BY <1>17, <2>1, Works DEF ToYao
<1> QED  BY <1>1, <1>2, <1>3, <1>4, <1>5, <1>6, <1>7, <1>8, <1>9, <1>10, <1>11, <1>12,
            <1>13, <1>14, <1>15, <1>16, <1>17 DEF Step

\* So do the four that share the database and the fingerprint.
LEMMA SharesKeep ==
    ASSUME IInv,
           \/ SetDatabaseShares \/ RecvDatabaseShares
           \/ SetFingerprintShares \/ RecvFingerprintShares
    PROVE  IInv'
<1>1. "server" \in Party /\ "client" \in Party
  BY DEF Party
<1>2. CASE SetDatabaseShares
  <2>1. PICK vec : /\ DOMAIN vec = 0 .. M * (N + 1) - 1
                   /\ Send("server", Values("database", vec))
    BY <1>2 DEF SetDatabaseShares
  <2>2. DOMAIN vec = 0 .. (M * N + M) - 1
    BY <2>1, Sizes
  <2>3. "setDatabase" \in DOMAIN Written /\ Written["setDatabase"] = "database"
    BY WidthsWritten DEF Written
  <2> QED  BY <1>1, <1>2, <2>1, <2>2, <2>3, Sizes, WidthsWritten, SendsValues
           DEF SetDatabaseShares
<1>3. CASE RecvDatabaseShares
  <2>1. "recvDatabase" \in DOMAIN Expected
    BY DEF Expected
  <2> QED  BY <1>1, <1>3, <2>1, Receives DEF RecvDatabaseShares
<1>4. CASE SetFingerprintShares
  <2>1. PICK vec : DOMAIN vec = 0 .. N /\ Send("client", Values("fingerprint", vec))
    BY <1>4 DEF SetFingerprintShares
  <2>2. DOMAIN vec = 0 .. (N + 1) - 1
    BY <2>1, Sizes
  <2>3. "setFingerprint" \in DOMAIN Written /\ Written["setFingerprint"] = "fingerprint"
    BY WidthsWritten DEF Written
  <2> QED  BY <1>1, <1>4, <2>1, <2>2, <2>3, Sizes, WidthsWritten, SendsValues
           DEF SetFingerprintShares
<1>5. CASE RecvFingerprintShares
  <2>1. "recvFingerprint" \in DOMAIN Expected
    BY DEF Expected
  <2> QED  BY <1>1, <1>5, <2>1, Receives DEF RecvFingerprintShares
<1> QED  BY <1>2, <1>3, <1>4, <1>5

-----------------------------------------------------------------------------
(* The theorem *)

\* The connection is empty at first.
LEMMA InitIInv == Init => IInv
<1> SUFFICES ASSUME Init PROVE IInv
  OBVIOUS
<1>1. Types
  <2>1. net \in [Party -> Seq({})] /\ pc \in [Party -> 1 .. 22]
    BY DEF Init
  <2> QED  BY <2>1 DEF Types
<1>2. ASSUME NEW p \in Party
      PROVE  /\ Reading(p) = 1 /\ Writing(p) = 1 /\ net[p] = <<>> /\ Start[p][1] \in Nat
  <2>1. Other(p) \in Party
    BY <1>1, Turns
  <2>2. pc[p] = 1 /\ pc[Other(p)] = 1 /\ net[p] = <<>>
    BY <2>1 DEF Init
  <2>3. Start[p][1] \in Nat
    BY StartOf
  <2> QED  BY <2>1, <2>2, <2>3, Ends DEF Reading, Writing
<1>3. Streams
  BY <1>2 DEF Streams
<1> QED  BY <1>1, <1>3 DEF IInv

\* Every step keeps the invariant.
LEMMA NextIInv == IInv /\ [Next]_vars => IInv'
<1> SUFFICES ASSUME IInv, [Next]_vars PROVE IInv'
  OBVIOUS
<1>1. CASE \E p \in Party : Step(p)
  BY <1>1, StepKeeps
<1>2. CASE \/ SetDatabaseShares \/ RecvDatabaseShares
           \/ SetFingerprintShares \/ RecvFingerprintShares
  BY <1>2, SharesKeep
<1>3. CASE UNCHANGED vars
  <2>1. \A p \in Party : Reading(p)' = Reading(p) /\ Writing(p)' = Writing(p)
    BY <1>3 DEF vars, Reading, Writing
  <2> QED  BY <1>3, <2>1 DEF vars, IInv, Types, Streams
<1> QED  BY <1>1, <1>2, <1>3 DEF Next, Server, Client, Party

\* The blocks of different messages do not overlap.
LEMMA Place ==
    ASSUME NEW p \in Party, NEW r \in 1 .. 9, NEW m \in 1 .. 9, NEW t \in Nat,
           Start[p][m] < t, t <= Start[p][m + 1], Start[p][r] < t
    PROVE  (t <= Start[p][r + 1]) <=> (m = r)
<1>1. /\ \A k \in 1 .. 10 : Start[p][k] \in Nat
      /\ \A k, n \in 1 .. 10 : k < n => Start[p][k] < Start[p][n]
  BY StartOf
<1>2. CASE m = r
  BY <1>2
<1>3. CASE m < r
  <2>1. m + 1 \in 1 .. 10 /\ r \in 1 .. 10 /\ (m + 1 = r \/ m + 1 < r)
    BY ONLY <1>3, m \in 1 .. 9, r \in 1 .. 9
  <2>2. PICK u \in Nat, v \in Nat : u = Start[p][m + 1] /\ v = Start[p][r]
    BY ONLY <1>1, <2>1
  <2>3. u <= v
    BY ONLY <1>1, <2>1, <2>2
  <2>4. t <= u /\ v < t
    BY <2>2
  <2> QED  BY ONLY <2>3, <2>4, t \in Nat, u \in Nat, v \in Nat
<1>4. CASE r < m
  <2>1. r + 1 \in 1 .. 10 /\ m \in 1 .. 10 /\ (r + 1 = m \/ r + 1 < m)
    BY ONLY <1>4, m \in 1 .. 9, r \in 1 .. 9
  <2>2. PICK u \in Nat, v \in Nat : u = Start[p][r + 1] /\ v = Start[p][m]
    BY ONLY <1>1, <2>1
  <2>3. u <= v
    BY ONLY <1>1, <2>1, <2>2
  <2>4. v < t
    BY <2>2
  <2>5. ~(t <= u)
    BY ONLY <2>3, <2>4, t \in Nat, u \in Nat, v \in Nat
  <2> QED  BY <1>4, <2>2, <2>5
<1> QED  BY <1>2, <1>3, <1>4

\* What a waiting reader finds is its message, and that one only.
LEMMA ReadsItsMessage ==
    ASSUME IInv, NEW p \in Party, ~Done(p), Script[p][pc[p]] \in DOMAIN Expected,
           net[p] # <<>>
    PROVE  /\ Len(net[p]) >= ExpectedBlocks(Script[p][pc[p]])
           /\ \A b \in DOMAIN net[p] :
                 (b <= ExpectedBlocks(Script[p][pc[p]]))
                    <=> (net[p][b].kind = Expected[Script[p][pc[p]]])
<1>1. PICK step : step = Script[p][pc[p]]
  OBVIOUS
<1>2. pc[p] \in 1 .. 21 /\ step = Steps[p][pc[p]] /\ step \in DOMAIN Expected
  <2>1. ~(pc[p] > Len(Script[p])) /\ Len(Script[p]) = 21 /\ pc[p] \in 1 .. 22
    BY ScriptOf DEF Done, IInv, Types
  <2>2. pc[p] \in 1 .. 21
    BY ONLY <2>1
  <2> QED  BY <1>1, <2>2, ScriptOf
<1>3. PICK r \in 1 .. 9 : r = Reading(p) /\ Kinds[p][r] = Expected[step]
  BY <1>2, TurnOf DEF Reading
<1>4. PICK n : n = ExpectedBlocks(step)
  OBVIOUS
<1>5. PICK x \in Nat, y \in Nat : x = Start[p][r] /\ y = Start[p][r + 1]
  <2>1. r \in 1 .. 10 /\ r + 1 \in 1 .. 10
    OBVIOUS
  <2> QED  BY <2>1, StartOf
<1>6. y = x + n /\ n \in Nat
  <2>1. Start[p][r + 1] = Start[p][r] + Width(Kinds[p][r])
    BY StartOf
  <2>2. n = Width(Kinds[p][r])
    BY <1>2, <1>3, <1>4, WidthOfStep
  <2>3. Width(Kinds[p][r]) \in Nat
    BY Widths DEF Width
  <2> QED  BY <1>5, <2>1, <2>2, <2>3
<1>7. PICK S : net[p] \in Seq(S)
  BY DEF IInv, Types
<1>8. Len(net[p]) \in Nat /\ Len(net[p]) > 0 /\ DOMAIN net[p] = 1 .. Len(net[p])
  BY ONLY <1>7, net[p] # <<>>, EmptySeq, LenProperties
<1>9. Len(net[p]) >= n
  <2>1. Len(net[p]) >= y - x
    BY <1>3, <1>5, <1>8, Ahead
  <2> QED  BY ONLY <1>6, <1>8, <2>1, x \in Nat, y \in Nat
<1>10. ASSUME NEW b \in DOMAIN net[p]
       PROVE  (b <= n) <=> (net[p][b].kind = Expected[step])
  <2>1. PICK m \in 1 .. 9 : /\ net[p][b].kind = Kinds[p][m]
                            /\ Start[p][m] < x + b /\ x + b <= Start[p][m + 1]
    BY <1>3, <1>5, <1>8 DEF IInv, Streams
  <2>2. PICK t \in Nat : t = x + b /\ x < t /\ ((b <= n) <=> (t <= y))
    <3>1. b \in Nat /\ b > 0
      BY <1>8
    <3>2. x + b \in Nat /\ x < x + b /\ ((b <= n) <=> (x + b <= x + n))
      BY ONLY <1>6, <3>1, x \in Nat
    <3> QED  BY <1>6, <3>2
  <2>3. (t <= y) <=> (m = r)
    <3>1. /\ Start[p][m] < t /\ t <= Start[p][m + 1] /\ Start[p][r] < t
          /\ y = Start[p][r + 1]
      BY ONLY <1>5, <2>1, <2>2
    <3>2. (t <= Start[p][r + 1]) <=> (m = r)
      BY ONLY <3>1, Place, p \in Party, r \in 1 .. 9, m \in 1 .. 9, t \in Nat
    <3> QED  BY ONLY <3>1, <3>2
  <2>4. (Kinds[p][m] = Kinds[p][r]) <=> (m = r)
    BY StartOf
  <2> QED  BY ONLY <1>3, <2>1, <2>2, <2>3, <2>4
<1> QED  BY <1>1, <1>4, <1>9, <1>10

\* The invariant implies the property.
LEMMA IInvLockstep == IInv => Lockstep
<1> SUFFICES ASSUME IInv PROVE Lockstep
  OBVIOUS
<1>1. ASSUME \A p \in Party : Done(p), NEW p \in Party
      PROVE  net[p] = <<>>
  <2>1. Other(p) \in Party
    BY Turns DEF IInv
  <2>2. ASSUME NEW q \in Party PROVE pc[q] = 22
    <3>1. pc[q] > Len(Script[q]) /\ Len(Script[q]) = 21 /\ pc[q] \in 1 .. 22
      BY <1>1, ScriptOf DEF Done, IInv, Types
    <3> QED  BY ONLY <3>1
  <2>3. Reading(p) = 10 /\ Writing(p) = 10
    BY <2>1, <2>2, Ends DEF Reading, Writing
  <2>4. Len(net[p]) = Start[p][10] - Start[p][10] /\ Start[p][10] \in Nat
    BY <2>3, StartOf DEF IInv, Streams
  <2>5. PICK S : net[p] \in Seq(S)
    BY DEF IInv, Types
  <2>6. Len(net[p]) = 0
    BY ONLY <2>4
  <2> QED  BY ONLY <2>5, <2>6, EmptySeq
<1> QED  BY <1>1, ReadsItsMessage DEF Lockstep

\* What is on its way to a party are always the whole messages from the one it
\* reads next to the one the peer writes next.
THEOREM Invariance == Spec => []IInv
<1>1. Init => IInv
  BY InitIInv
<1>2. IInv /\ [Next]_vars => IInv'
  BY NextIInv
<1> QED  BY <1>1, <1>2, PTL DEF Spec

\* Nothing on the wire says what it is or how long it is.  Whatever the size
\* of the database, the width of the signal strengths and the capacity of the
\* connection, every recv of an AEnv takes exactly the blocks that the peer's
\* send for that step wrote, and the phase leaves the connection drained: both
\* scripts stay in lockstep and both sides count the blocks of a vector alike.
THEOREM AlwaysLockstep == Spec => []Lockstep
<1>1. IInv => Lockstep
  BY IInvLockstep
<1> QED  BY <1>1, Invariance, PTL

-----------------------------------------------------------------------------
(* The ring *)

\* The numbers of the parameters, and the elements of the ring.
LEMMA RingType ==
    /\ Ring \in Nat \ {0} /\ L \in Nat \ {0} /\ M \in Nat \ {0} /\ N \in Nat \ {0}
    /\ Element = 0 .. Ring - 1 /\ 0 \in Element
<1>1. L \in Nat \ {0} /\ M \in Nat \ {0} /\ N \in Nat \ {0}
  BY ParameterAssumption
<1>2. 2^L \in Nat \ {0}
  BY <1>1, PowerOfTwo
<1> QED  BY <1>1, <1>2 DEF Ring, Element

\* What positive_modulo returns.
LEMMA ModType ==
    ASSUME NEW x \in Int
    PROVE  Mod(x) \in Element /\ Mod(x) \in Int /\ (x \in Element => Mod(x) = x)
<1>1. PICK n \in Nat \ {0} : n = Ring /\ Element = 0 .. n - 1
  BY RingType
<1>2. x % n \in 0 .. n - 1
  BY Division
<1>3. x \in 0 .. n - 1 => x % n = x
  BY x = 0 * n + x, DivisionUnique
<1> QED  BY <1>1, <1>2, <1>3 DEF Mod

\* Reducing a part of a sum or a product first makes no difference.
LEMMA ModPart ==
    ASSUME NEW x \in Int, NEW y \in Int
    PROVE  /\ Mod(Mod(x) + y) = Mod(x + y) /\ Mod(y + Mod(x)) = Mod(y + x)
           /\ Mod(Mod(x) - y) = Mod(x - y) /\ Mod(y - Mod(x)) = Mod(y - x)
           /\ Mod(Mod(x) * y) = Mod(x * y) /\ Mod(y * Mod(x)) = Mod(y * x)
           /\ Mod(Mod(x)) = Mod(x)
<1>1. PICK n \in Nat \ {0} : n = Ring
  BY RingType
<1>2. PICK r \in Int : r = x % n
  BY Division
<1>3. /\ (r + y) % n = (x + y) % n /\ (r + (0 - y)) % n = (x + (0 - y)) % n
      /\ (r + 0) % n = (x + 0) % n
  <2>1. 0 - y \in Int /\ 0 \in Int
    OBVIOUS
  <2>2. \A z \in Int : ((x % n) + z) % n = (x + z) % n
    BY RemainderPlus
  <2> QED  BY ONLY <1>2, <2>1, <2>2, y \in Int
<1>4. (r * y) % n = (x * y) % n
  BY <1>2, RemainderTimes
<1>5. (y - r) % n = (y - x) % n
  <2>1. PICK k \in Int : x = k * n + r
    BY <1>2, Division
  <2>2. y - r = (y - x) + k * n /\ y - r \in Int /\ y - x \in Int
    BY <2>1
  <2>3. Congruent(y - r, y - x, n)
    BY <2>2 DEF Congruent
  <2>4. PICK u \in Int, v \in Int : u = y - r /\ v = y - x
    BY <2>2
  <2> QED  BY <2>3, <2>4, SameRemainder
<1>6. /\ r + (0 - y) = r - y /\ x + (0 - y) = x - y /\ r + 0 = r /\ x + 0 = x
      /\ r + y = y + r /\ x + y = y + x
  OBVIOUS
<1>7. r * y = y * r /\ x * y = y * x
  OBVIOUS
<1> QED  BY ONLY <1>1, <1>2, <1>3, <1>4, <1>5, <1>6, <1>7 DEF Mod

\* Congruent numbers are exchangeable.
LEMMA ModSame ==
    ASSUME NEW x \in Int, NEW y \in Int, NEW z \in Int, Mod(x) = Mod(y)
    PROVE  /\ Mod(x + z) = Mod(y + z) /\ Mod(z + x) = Mod(z + y)
           /\ Mod(x - z) = Mod(y - z) /\ Mod(z - x) = Mod(z - y)
           /\ Mod(x * z) = Mod(y * z) /\ Mod(z * x) = Mod(z * y)
<1>1. /\ Mod(Mod(x) + z) = Mod(x + z) /\ Mod(Mod(y) + z) = Mod(y + z)
      /\ Mod(z + Mod(x)) = Mod(z + x) /\ Mod(z + Mod(y)) = Mod(z + y)
  BY ModPart
<1>2. /\ Mod(Mod(x) - z) = Mod(x - z) /\ Mod(Mod(y) - z) = Mod(y - z)
      /\ Mod(z - Mod(x)) = Mod(z - x) /\ Mod(z - Mod(y)) = Mod(z - y)
  BY ModPart
<1>3. /\ Mod(Mod(x) * z) = Mod(x * z) /\ Mod(Mod(y) * z) = Mod(y * z)
      /\ Mod(z * Mod(x)) = Mod(z * x) /\ Mod(z * Mod(y)) = Mod(z * y)
  BY ModPart
<1> QED  BY ONLY <1>1, <1>2, <1>3, Mod(x) = Mod(y)

\* Congruent terms have congruent sums, differences and products.
LEMMA SamePlus ==
    ASSUME NEW x \in Int, NEW y \in Int, NEW u \in Int, NEW v \in Int,
           Mod(x) = Mod(y), Mod(u) = Mod(v)
    PROVE  Mod(x + u) = Mod(y + v)
<1>1. Mod(x + u) = Mod(y + u)
  BY ONLY ModSame, Mod(x) = Mod(y), x \in Int, y \in Int, u \in Int
<1>2. Mod(y + u) = Mod(y + v)
  BY ONLY ModSame, Mod(u) = Mod(v), y \in Int, u \in Int, v \in Int
<1> QED  BY ONLY <1>1, <1>2

\* The two differences that congruence carries over.
MinusAgrees(x, y, z) == Mod(x - z) = Mod(y - z) /\ Mod(z - x) = Mod(z - y)

\* Congruent terms have congruent differences with a third.
LEMMA MinusAgree ==
    ASSUME NEW x \in Int, NEW y \in Int, NEW z \in Int, Mod(x) = Mod(y)
    PROVE  MinusAgrees(x, y, z)
<1>1. /\ Mod(Mod(x) - z) = Mod(x - z) /\ Mod(Mod(y) - z) = Mod(y - z)
      /\ Mod(z - Mod(x)) = Mod(z - x) /\ Mod(z - Mod(y)) = Mod(z - y)
  BY ModPart
<1> QED  BY ONLY <1>1, Mod(x) = Mod(y) DEF MinusAgrees

\* The same for the differences of two pairs.
LEMMA SameMinus ==
    ASSUME NEW x \in Int, NEW y \in Int, NEW u \in Int, NEW v \in Int,
           Mod(x) = Mod(y), Mod(u) = Mod(v)
    PROVE  Mod(x - u) = Mod(y - v)
<1>1. MinusAgrees(x, y, u)
  BY ONLY MinusAgree, Mod(x) = Mod(y), x \in Int, y \in Int, u \in Int
<1>2. MinusAgrees(u, v, y)
  BY ONLY MinusAgree, Mod(u) = Mod(v), y \in Int, u \in Int, v \in Int
<1>3. Mod(x - u) = Mod(y - u) /\ Mod(y - u) = Mod(y - v)
  BY ONLY <1>1, <1>2 DEF MinusAgrees
<1> QED  BY ONLY <1>3

\* The same for products.
LEMMA SameTimes ==
    ASSUME NEW x \in Int, NEW y \in Int, NEW u \in Int, NEW v \in Int,
           Mod(x) = Mod(y), Mod(u) = Mod(v)
    PROVE  Mod(x * u) = Mod(y * v)
<1>1. Mod(x * u) = Mod(y * u)
  BY ONLY ModSame, Mod(x) = Mod(y), x \in Int, y \in Int, u \in Int
<1>2. Mod(y * u) = Mod(y * v)
  BY ONLY ModSame, Mod(u) = Mod(v), y \in Int, u \in Int, v \in Int
<1> QED  BY ONLY <1>1, <1>2

\* Multiples of the ring vanish.
LEMMA ModMultiple ==
    ASSUME NEW x \in Int, NEW k \in Int
    PROVE  Mod(x + k * Ring) = Mod(x)
<1>1. PICK n \in Nat \ {0} : n = Ring
  BY RingType
<1>2. PICK u \in Int : u = x + k * n
  OBVIOUS
<1>3. Congruent(u, x, n)
  BY <1>2 DEF Congruent
<1> QED  BY <1>1, <1>2, <1>3, SameRemainder DEF Mod

-----------------------------------------------------------------------------
(* Sums *)

\* The sum of a function is the sum over its domain.
LEMMA SumOverDomain ==
    ASSUME NEW S, NEW f, DOMAIN f = S
    PROVE  SumFunction(f) = SumFunctionOnSet(f, S)
BY DEF SumFunction, SumFunctionOnSet, FoldFunction

\* Sums of congruent terms are congruent.
LEMMA SumSame ==
    ASSUME NEW A, IsFiniteSet(A), NEW f, NEW g,
           \A x \in A : f[x] \in Int /\ g[x] \in Int /\ Mod(f[x]) = Mod(g[x])
    PROVE  Mod(SumFunctionOnSet(f, A)) = Mod(SumFunctionOnSet(g, A))
<1> DEFINE P == {T \in SUBSET A : Mod(SumFunctionOnSet(f, T)) = Mod(SumFunctionOnSet(g, T))}
<1>1. {} \in P
  BY SumOfNone
<1>2. ASSUME NEW T \in SUBSET A, NEW x \in A, T \in P, x \notin T
      PROVE  T \cup {x} \in P
  <2>1. IsFiniteSet(T) /\ \A y \in T \cup {x} : f[y] \in Int /\ g[y] \in Int
    BY FS_Subset
  <2>2. /\ SumFunctionOnSet(f, T \cup {x}) = f[x] + SumFunctionOnSet(f, T)
        /\ SumFunctionOnSet(g, T \cup {x}) = g[x] + SumFunctionOnSet(g, T)
    BY <1>2, <2>1, SumAdd
  <2>3. SumFunctionOnSet(f, T) \in Int /\ SumFunctionOnSet(g, T) \in Int
    BY <2>1, SumStep
  <2>4. PICK a \in Int, b \in Int, s \in Int, t \in Int :
           a = f[x] /\ b = g[x] /\ s = SumFunctionOnSet(f, T) /\ t = SumFunctionOnSet(g, T)
    BY <2>1, <2>3
  <2>5. Mod(a) = Mod(b) /\ Mod(s) = Mod(t)
    BY <1>2, <2>4
  <2>6. Mod(a + s) = Mod(b + t)
    BY ONLY SamePlus, <2>5, a \in Int, b \in Int, s \in Int, t \in Int
  <2> QED  BY <2>2, <2>4, <2>6
<1> HIDE DEF P
<1>3. \A T \in SUBSET A : T \in P
  BY <1>1, <1>2, FiniteInduction
<1>4. A \in P
  BY <1>3
<1> QED  BY <1>4 DEF P

-----------------------------------------------------------------------------
(* The correlated OTs of one cell *)

\* The values both parties add up for cell with mask x and column with mask y.
Correlated(r, s, x, y, base) ==
    \A k \in 0 .. L - 1 :
        /\ r[base + k] \in Int /\ s[base + k] \in Int
        /\ Mod(r[base + k]) = Mod(s[base + k] + BitOf(y, k) * (x * 2^k))

\* They differ by the product of the masks: one power of two of it for every
\* bit of the column's mask.
LEMMA CorrelatedSum ==
    ASSUME NEW r, NEW s, NEW x \in Int, NEW y \in Element, NEW base \in Int,
           Correlated(r, s, x, y, base)
    PROVE  LET ots == base .. base + (L - 1)
           IN  /\ SumFunctionOnSet(r, ots) \in Int /\ SumFunctionOnSet(s, ots) \in Int
               /\ Mod(SumFunctionOnSet(r, ots)) = Mod(SumFunctionOnSet(s, ots) + x * y)
<1> DEFINE R(n) == SumFunctionOnSet(r, base .. base + (n - 1))
           S(n) == SumFunctionOnSet(s, base .. base + (n - 1))
           G == {n \in Nat : n <= L =>
                    R(n) \in Int /\ S(n) \in Int /\ Mod(R(n)) = Mod(S(n) + x * (y % 2^n))}
<1>1. L \in Nat \ {0} /\ Ring = 2^L /\ Ring \in Nat \ {0} /\ y \in Nat
  BY RingType DEF Ring
<1>2. 0 \in G
  <2>1. base .. base + (0 - 1) = {}
    OBVIOUS
  <2>2. R(0) = 0 /\ S(0) = 0
    BY <2>1, SumOfNone
  <2>3. y % 2^0 = 0
    <3>1. 2^0 = 1 /\ y \in Int
      BY <1>1
    <3>2. y % 1 \in 0 .. 1 - 1
      BY ONLY <3>1, Division, 1 \in Nat \ {0}
    <3> QED  BY ONLY <3>1, <3>2
  <2> QED  BY <2>2, <2>3
<1>3. ASSUME NEW n \in Nat, n \in G PROVE n + 1 \in G
  <2> SUFFICES ASSUME n + 1 <= L
               PROVE  /\ R(n + 1) \in Int /\ S(n + 1) \in Int
                      /\ Mod(R(n + 1)) = Mod(S(n + 1) + x * (y % 2^(n + 1)))
    OBVIOUS
  <2>1. PICK u \in Int, v \in Int, w \in Int :
            u = R(n) /\ v = S(n) /\ w = y % 2^n /\ Mod(u) = Mod(v + x * w)
    <3>1. y % 2^n \in Int
      <4>1. 2^n \in Nat \ {0} /\ y \in Int
        BY <1>1, PowerOfTwo
      <4> QED  BY ONLY <4>1, Division
    <3>2. n <= L
      BY <1>1
    <3>3. R(n) \in Int /\ S(n) \in Int /\ Mod(R(n)) = Mod(S(n) + x * (y % 2^n))
      BY ONLY <1>3, <3>2
    <3> QED  BY ONLY <3>1, <3>3
  <2>2. n \in 0 .. L - 1
    BY <1>1
  <2>3. PICK c \in Int, d \in Int, b \in {0, 1}, p \in Int :
            /\ c = r[base + n] /\ d = s[base + n] /\ b = BitOf(y, n) /\ p = 2^n
            /\ Mod(c) = Mod(d + b * (x * p))
    <3>1. BitOf(y, n) \in {0, 1} /\ 2^n \in Int
      BY <1>1, BitType, PowerOfTwo
    <3> QED  BY <2>2, <3>1 DEF Correlated
  <2>4. PICK m \in Int : m = base + (n - 1)
    OBVIOUS
  <2>5. m + 1 = base + n /\ m + 1 = base + ((n + 1) - 1) /\ base <= m + 1
    BY <2>4
  <2>6. \A k \in base .. m + 1 : r[k] \in Int /\ s[k] \in Int
    <3> SUFFICES ASSUME NEW k \in base .. m + 1 PROVE r[k] \in Int /\ s[k] \in Int
      OBVIOUS
    <3>1. k - base \in 0 .. L - 1 /\ base + (k - base) = k
      BY <1>1, <2>2, <2>5
    <3> QED  BY <3>1 DEF Correlated
  <2>7. R(n + 1) = u + c /\ S(n + 1) = v + d
    <3>1. /\ SumFunctionOnSet(r, base .. m + 1) = SumFunctionOnSet(r, base .. m) + r[m + 1]
          /\ SumFunctionOnSet(s, base .. m + 1) = SumFunctionOnSet(s, base .. m) + s[m + 1]
      BY <2>5, <2>6, SumInterval
    <3> QED  BY <2>1, <2>3, <2>4, <2>5, <3>1
  <2>8. y % 2^(n + 1) = w + b * p
    BY <1>1, <2>1, <2>3, NextBit
  <2>9. PICK g \in Int, h \in Int : g = x * w /\ h = b * (x * p)
    OBVIOUS
  <2>10. x * (w + b * p) = g + h
    BY <2>9, SMTT(30)
  <2>11. Mod(u + c) = Mod((v + g) + (d + h))
    <3>1. PICK e \in Int, i \in Int : e = v + g /\ i = d + h
      OBVIOUS
    <3>2. Mod(u) = Mod(e) /\ Mod(c) = Mod(i)
      BY <2>1, <2>3, <2>9, <3>1
    <3>3. Mod(u + c) = Mod(e + i)
      BY ONLY <3>2, SamePlus, u \in Int, c \in Int, e \in Int, i \in Int
    <3> QED  BY ONLY <3>1, <3>3
  <2>12. (v + g) + (d + h) = (v + d) + (g + h)
    OBVIOUS
  <2> QED  BY <2>7, <2>8, <2>10, <2>11, <2>12
<1> HIDE DEF G
<1>4. L \in G
  BY <1>1, <1>2, <1>3, Induction
<1>5. y % 2^L = y
  BY <1>1, ModType DEF Mod
<1> QED  BY <1>1, <1>4, <1>5 DEF G

-----------------------------------------------------------------------------
(* Opening a product and a distance *)

\* Congruent numbers differ by a multiple of the ring's size.
LEMMA ModDifference ==
    ASSUME NEW x \in Int, NEW y \in Int, Mod(x) = Mod(y)
    PROVE  \E k \in Int : x = y + k * Ring
<1>1. PICK n \in Nat \ {0} : n = Ring
  BY RingType
<1>2. PICK p \in Int, q \in Int : p = x \div n /\ q = y \div n
  BY Division
<1>3. PICK r \in Int : r = x % n /\ r = y % n
  BY <1>1, Division DEF Mod
<1>4. x = p * n + r /\ y = q * n + r
  BY ONLY <1>2, <1>3, Division, n \in Nat \ {0}, x \in Int, y \in Int
<1>5. x = y + (p - q) * n
  BY <1>4, SMTT(30)
<1>6. p - q \in Int
  OBVIOUS
<1> QED  BY <1>1, <1>5, <1>6

\* A reduced value differs from the value by a multiple of the ring.
LEMMA ModIs ==
    ASSUME NEW x \in Int
    PROVE  \E k \in Int : Mod(x) = x + k * Ring
<1>1. Mod(x) \in Int /\ Mod(Mod(x)) = Mod(x)
  BY ModType, ModPart
<1> QED  BY <1>1, ModDifference

\* A cell of the database and a column of the fingerprint with capital deltas
\* A and B, masks x and y of the one party, v and w of the other one: what the
\* parties compute without opening them sums to the product.
LEMMA CellProduct ==
    ASSUME NEW a \in Int, NEW b \in Int, NEW A \in Int, NEW B \in Int,
           NEW x \in Int, NEW y \in Int, NEW v \in Int, NEW w \in Int,
           NEW s \in Int, NEW t \in Int,
           Mod(A - x - v) = Mod(a), Mod(B - y - w) = Mod(b),
           Mod(s + t) = Mod((y + w) * (x + v))
    PROVE  Mod(Mod(1 * A * B - A * y - B * x + s) + Mod(0 * A * B - A * w - B * v + t))
              = Mod(a * b)
<1>1. PICK X \in Int, Y \in Int : X = x + v /\ Y = y + w
  OBVIOUS
<1>2. PICK k \in Int : s + t = Y * X + k * Ring
  <2>1. PICK p \in Int, q \in Int : p = s + t /\ q = Y * X
    OBVIOUS
  <2>2. \E k \in Int : p = q + k * Ring
    BY <1>1, <2>1, ModDifference
  <2> QED  BY <2>1, <2>2
<1>3. PICK P \in Int, Q \in Int : P = A - X /\ Q = B - Y
  OBVIOUS
<1>4. Mod(P) = Mod(a) /\ Mod(Q) = Mod(b)
  <2>1. A - x - v = P /\ B - y - w = Q
    BY <1>1, <1>3
  <2> QED  BY <2>1
<1>5. PICK g \in Int, h \in Int :
         g = 1 * A * B - A * y - B * x + s /\ h = 0 * A * B - A * w - B * v + t
  OBVIOUS
<1>6. PICK m \in Int : m = k * Ring
  BY RingType
<1>7. g + h = P * Q + m
  <2>1. g = A * B - A * y - B * x + s
    BY <1>5, SMTT(30)
  <2>2. h = (0 - A * w) - B * v + t
    BY <1>5, SMTT(30)
  <2>3. A * Y = A * y + A * w /\ B * X = B * x + B * v
    BY <1>1, SMTT(30)
  <2>4. P * Q = A * B - A * Y - B * X + Y * X
    BY <1>3, SMTT(30)
  <2>5. PICK c1 \in Int, c2 \in Int, c3 \in Int, c4 \in Int, c5 \in Int, c6 \in Int,
             c7 \in Int, c8 \in Int :
           /\ c1 = A * B /\ c2 = A * y /\ c3 = B * x /\ c4 = A * w /\ c5 = B * v
           /\ c6 = A * Y /\ c7 = B * X /\ c8 = Y * X
    OBVIOUS
  <2>6. PICK pq \in Int : pq = P * Q
    OBVIOUS
  <2>7. /\ g = c1 - c2 - c3 + s /\ h = (0 - c4) - c5 + t /\ c6 = c2 + c4 /\ c7 = c3 + c5
        /\ pq = c1 - c6 - c7 + c8 /\ s + t = c8 + m
    BY ONLY <1>2, <1>6, <2>1, <2>2, <2>3, <2>4, <2>5, <2>6
  <2>8. g + h = pq + m
    BY ONLY <2>7, g \in Int, h \in Int, c1 \in Int, c2 \in Int, c3 \in Int, c4 \in Int,
            c5 \in Int, c6 \in Int, c7 \in Int, c8 \in Int, m \in Int, pq \in Int,
            s \in Int, t \in Int
  <2> QED  BY <2>6, <2>8
<1>8. Mod(Mod(g) + Mod(h)) = Mod(g + h)
  <2>1. PICK c \in Int : c = Mod(h)
    BY ModType
  <2>2. Mod(Mod(g) + c) = Mod(g + c)
    BY ModPart
  <2>3. Mod(g + Mod(h)) = Mod(g + h)
    BY ModPart
  <2> QED  BY <2>1, <2>2, <2>3
<1>9. Mod(P * Q + m) = Mod(P * Q)
  <2>1. P * Q \in Int
    OBVIOUS
  <2> QED  BY <1>6, <2>1, ModMultiple
<1>10. Mod(P * Q) = Mod(a * b)
  BY <1>4, SameTimes
<1> QED  BY ONLY <1>5, <1>7, <1>8, <1>9, <1>10

\* A distance, from the shares of the two squared sums and of the product sum.
DifferenceOpens(E, e, i, F, f, j, S, r, o, u, v, w) ==
    Mod(Mod(Mod(Mod(E + F) - Mod(S + S)) - Mod(Mod(e + f) - Mod(r + r)))
        - Mod(Mod(Mod(i + j) - Mod(o + o)))) = Mod((u + v) - (w + w))

\* The opened distance from the opened squares and the opened product.
LEMMA DistanceOpened ==
    ASSUME NEW E \in Int, NEW e \in Int, NEW i \in Int, NEW F \in Int, NEW f \in Int,
           NEW j \in Int, NEW S \in Int, NEW r \in Int, NEW o \in Int,
           NEW u \in Int, NEW v \in Int, NEW w \in Int,
           Mod(E - e - i) = Mod(u), Mod(F - f - j) = Mod(v), Mod(S - r - o) = Mod(w)
    PROVE  DifferenceOpens(E, e, i, F, f, j, S, r, o, u, v, w)
<1>1. PICK a \in Int, b \in Int, c \in Int :
         a = (E + F) - (S + S) /\ b = (e + f) - (r + r) /\ c = (i + j) - (o + o)
  OBVIOUS
<1>2. ASSUME NEW x \in Int, NEW y \in Int PROVE Mod(Mod(x) - Mod(y)) = Mod(x - y)
  <2>1. Mod(y) \in Int
    BY ModType
  <2> QED  BY ONLY <2>1, ModPart, x \in Int, y \in Int, SMTT(60)
<1>3. /\ Mod(Mod(E + F) - Mod(S + S)) = Mod(a) /\ Mod(Mod(e + f) - Mod(r + r)) = Mod(b)
      /\ Mod(Mod(i + j) - Mod(o + o)) = Mod(c)
  <2>1. /\ E + F \in Int /\ S + S \in Int /\ e + f \in Int /\ r + r \in Int
        /\ i + j \in Int /\ o + o \in Int
    OBVIOUS
  <2> QED  BY ONLY <1>1, <1>2, <2>1
<1>4. Mod(Mod(Mod(a) - Mod(b)) - Mod(Mod(c))) = Mod((a - b) - c)
  <2>1. a - b \in Int /\ Mod(Mod(c)) = Mod(c)
    BY ModPart
  <2>2. Mod(Mod(a) - Mod(b)) = Mod(a - b)
    BY <1>2
  <2>3. Mod(Mod(a - b) - Mod(c)) = Mod((a - b) - c)
    BY <1>2, <2>1
  <2> QED  BY <2>1, <2>2, <2>3
<1>5. PICK x \in Int, y \in Int, z \in Int : x = E - e - i /\ y = F - f - j /\ z = S - r - o
  OBVIOUS
<1>6. (a - b) - c = (x + y) - (z + z)
  BY <1>1, <1>5
<1>7. Mod((x + y) - (z + z)) = Mod((u + v) - (w + w))
  <2>1. Mod(x) = Mod(u) /\ Mod(y) = Mod(v) /\ Mod(z) = Mod(w)
    BY <1>5
  <2>2. Mod(x + y) = Mod(u + v)
    BY ONLY <2>1, SamePlus, x \in Int, y \in Int, u \in Int, v \in Int
  <2>3. Mod(z + z) = Mod(w + w)
    BY ONLY <2>1, SamePlus, z \in Int, w \in Int
  <2>4. PICK g \in Int, h \in Int, k \in Int, l \in Int :
           g = x + y /\ h = u + v /\ k = z + z /\ l = w + w
    OBVIOUS
  <2>5. Mod(g) = Mod(h) /\ Mod(k) = Mod(l)
    BY ONLY <2>2, <2>3, <2>4
  <2>6. Mod(g - k) = Mod(h - l)
    BY ONLY <2>5, SameMinus, g \in Int, h \in Int, k \in Int, l \in Int
  <2> QED  BY <2>4, <2>6
<1> QED  BY ONLY <1>1, <1>3, <1>4, <1>6, <1>7 DEF DifferenceOpens

\* The squared distance of two vectors from their squares and their product.
LEMMA SquaredDifferences ==
    ASSUME NEW A, IsFiniteSet(A), NEW x, NEW y, \A k \in A : x[k] \in Int /\ y[k] \in Int
    PROVE  SumFunctionOnSet([k \in A |-> Square(x[k] - y[k])], A) =
              (SumFunctionOnSet([k \in A |-> Square(x[k])], A)
                + SumFunctionOnSet([k \in A |-> Square(y[k])], A))
              - (SumFunctionOnSet([k \in A |-> x[k] * y[k]], A)
                  + SumFunctionOnSet([k \in A |-> x[k] * y[k]], A))
<1>1. PICK p, q, r, d, e, c :
         /\ p = [k \in A |-> Square(x[k])] /\ q = [k \in A |-> Square(y[k])]
         /\ r = [k \in A |-> x[k] * y[k]] /\ d = [k \in A |-> Square(x[k] - y[k])]
         /\ e = [k \in A |-> Square(x[k]) + Square(y[k])]
         /\ c = [k \in A |-> x[k] * y[k] + x[k] * y[k]]
  OBVIOUS
<1>2. \A k \in A : /\ p[k] \in Int /\ q[k] \in Int /\ r[k] \in Int /\ d[k] \in Int
                   /\ e[k] = p[k] + q[k] /\ c[k] = r[k] + r[k] /\ e[k] = d[k] + c[k]
                   /\ c[k] \in Int /\ e[k] \in Int
  <2> SUFFICES ASSUME NEW k \in A
               PROVE  /\ p[k] \in Int /\ q[k] \in Int /\ r[k] \in Int /\ d[k] \in Int
                      /\ e[k] = p[k] + q[k] /\ c[k] = r[k] + r[k] /\ e[k] = d[k] + c[k]
                      /\ c[k] \in Int /\ e[k] \in Int
    OBVIOUS
  <2>1. PICK u \in Int, v \in Int : u = x[k] /\ v = y[k]
    OBVIOUS
  <2>2. /\ p[k] = u * u /\ q[k] = v * v /\ r[k] = u * v /\ d[k] = (u - v) * (u - v)
        /\ e[k] = u * u + v * v /\ c[k] = u * v + u * v
    BY <1>1, <2>1 DEF Square
  <2>3. u * u + v * v = (u - v) * (u - v) + (u * v + u * v)
    BY SMTT(30)
  <2>4. /\ u * u \in Int /\ v * v \in Int /\ u * v \in Int /\ (u - v) * (u - v) \in Int
    OBVIOUS
  <2> QED  BY ONLY <2>2, <2>3, <2>4
<1>3. /\ SumFunctionOnSet(e, A) = SumFunctionOnSet(p, A) + SumFunctionOnSet(q, A)
      /\ SumFunctionOnSet(c, A) = SumFunctionOnSet(r, A) + SumFunctionOnSet(r, A)
      /\ SumFunctionOnSet(e, A) = SumFunctionOnSet(d, A) + SumFunctionOnSet(c, A)
  BY <1>2, SumPlus
<1>4. /\ SumFunctionOnSet(p, A) \in Int /\ SumFunctionOnSet(q, A) \in Int
      /\ SumFunctionOnSet(r, A) \in Int /\ SumFunctionOnSet(d, A) \in Int
      /\ SumFunctionOnSet(e, A) \in Int /\ SumFunctionOnSet(c, A) \in Int
  BY <1>2, SumStep
<1>5. PICK a1 \in Int, a2 \in Int, a3 \in Int, a4 \in Int, a5 \in Int, a6 \in Int :
         /\ a1 = SumFunctionOnSet(p, A) /\ a2 = SumFunctionOnSet(q, A)
         /\ a3 = SumFunctionOnSet(r, A) /\ a4 = SumFunctionOnSet(d, A)
         /\ a5 = SumFunctionOnSet(e, A) /\ a6 = SumFunctionOnSet(c, A)
  BY <1>4
<1>6. a5 = a1 + a2 /\ a6 = a3 + a3 /\ a5 = a4 + a6
  BY ONLY <1>3, <1>5
<1>7. a4 = (a1 + a2) - (a3 + a3)
  BY <1>6
<1> QED  BY ONLY <1>1, <1>5, <1>7

-----------------------------------------------------------------------------
(* What a party holds at every position of its script *)

Masks(db) == [i \in Rows |-> [j \in Cols |-> db[i][j].d]]
Capitals(db) == [i \in Rows |-> [j \in Cols |-> db[i][j].D]]
VectorMasks(vec, S) == [i \in S |-> vec[i].d]
VectorCapitals(vec, S) == [i \in S |-> vec[i].D]

\* The masks that a party takes from the peer's seeds.
SeedMasks(seed) == [i \in Rows |-> [j \in Cols |-> PRG(seed + (i * N + j))]]
SeedColumns(seed) == [j \in Cols |-> PRG(seed + j)]

\* The choices, correlated values and results of an OT batch.
ChoiceOf(masks) == [b \in 0 .. NumBaseBits-1 |-> Bit(masks[b \div L], b % L)]
FirstKeys(keys) == [it \in OTs |-> keys[KeyIndex(it)][0]]
CorOf(keys, masks) ==
    [it \in OTs |->
        Xor(keys[KeyIndex(it)][1],
            CorrelatedFunction(masks[it \div NumBaseBits][KeyIndex(it) \div L],
                               keys[KeyIndex(it)][0], it % L))]
ResultOf(received, choice, cor) ==
    [it \in OTs |-> IF choice[KeyIndex(it)] = 1
                    THEN Xor(received[KeyIndex(it)], cor[it])
                    ELSE received[KeyIndex(it)]]

TripletOf(dm, fm, results, keys, i, j) ==
    LET ots == {i * NumBaseBits + j * L + k : k \in 0 .. L-1}
        u == Mod(SumFunctionOnSet([it \in OTs |-> Mod(results[it])], ots))
        v == Mod(0 - SumFunctionOnSet([it \in OTs |-> Mod(keys[it])], ots))
    IN  Mod(dm[i][j] * fm[j] + u + v)
TripletsOf(dm, fm, results, keys) ==
    [i \in Rows |-> [j \in Cols |-> TripletOf(dm, fm, results, keys, i, j)]]

\* The capital deltas of the owner of a value, from its mask and the peer's.
CapitalsOf(plainDb, dm, seed) ==
    [i \in Rows |-> [j \in Cols |->
        Mod(plainDb[i][j] + dm[i][j] + PRG(seed + (i * N + j)))]]
ColumnsOf(plainFp, fm, seed) ==
    [j \in Cols |-> Mod(plainFp[j] + fm[j] + PRG(seed + j))]
SumsOf(plainDb, masks, seed) ==
    [i \in Rows |-> Mod(SquareSum(plainDb[i]) + masks[i] + PRG(seed))]

DeltaOf(p, dm, dc, fm, fc, triplets, i, r) ==
    Mod(SumFunction([j \in Cols |->
            Mod(ProductFactor(p) * fc[j] * dc[i][j] - fc[j] * dm[i][j] - dc[i][j] * fm[j]
                + triplets[i][j])]) + r)
DeltasOf(p, dm, dc, fm, fc, triplets, shares) ==
    [i \in Rows |-> DeltaOf(p, dm, dc, fm, fc, triplets, i, shares[i])]

DistanceOf(delta, other, r, square, sum) ==
    Subtract(Add(square, sum), Add(Share(delta + other, r), Share(delta + other, r)))
DistancesOf(deltas, others, shares, squares, sum) ==
    [i \in Rows |-> DistanceOf(deltas[i], others[i], shares[i], squares[i], sum)]
YaoOf(p, distances) == [i \in Rows |-> YaoShare(p, distances[i])]

\* Positions of the four steps that differ between the parties, by party.
AtSendU(p) == IF p = "server" THEN 10 ELSE 13
AtRecvU(p) == IF p = "server" THEN 13 ELSE 10
AtSendCor(p) == IF p = "server" THEN 15 ELSE 12
AtRecvCor(p) == IF p = "server" THEN 12 ELSE 15

\* The triplets' ingredients of a party: vectors it has drawn, keys, results.
HoldsMasks(p, k, e) ==
    /\ k <= 9 => e.database = Unset /\ e.fingerprint = Unset
    /\ k > 9 =>
          /\ e.database \in [Rows -> [Cols -> ShareType]]
          /\ e.fingerprint \in [Cols -> ShareType]
          /\ p = "client" => Masks(e.database) = SeedMasks(e.databaseSeed)
          /\ p = "server" =>
                VectorMasks(e.fingerprint, Cols) = SeedColumns(e.fingerprintSeed)
HoldsKeys(p, k, e) ==
    /\ e.received \in IF k > AtSendU(p) THEN [0 .. NumBaseBits - 1 -> WireValue] ELSE {Unset}
    /\ e.keys \in IF k > AtRecvU(p) THEN [0 .. NumBaseBits - 1 -> [0 .. 1 -> WireValue]]
                                    ELSE {Unset}
    /\ e.SenderOTsCor = IF k > AtSendCor(p) THEN FirstKeys(e.keys) ELSE Unset
    /\ e.ReceiverOTs \in IF k > AtRecvCor(p) THEN [OTs -> WireValue] ELSE {Unset}
    /\ e.triplets =
          IF k > 16 THEN TripletsOf(Masks(e.database), VectorMasks(e.fingerprint, Cols),
                                    e.ReceiverOTs, e.SenderOTsCor)
                    ELSE Unset

\* The sharing of the database and of the fingerprint, in the owner's and in the
\* peer's environment.
HoldsShares(p, k, e, pl) ==
    /\ e.fingerprintSum \in ShareType
    /\ e.dSquareSum \in IF k > 17 THEN [Rows -> ShareType] ELSE {Unset}
    /\ p = "server" /\ k > 17 =>
          /\ Capitals(e.database) = CapitalsOf(pl.database, Masks(e.database), e.databaseSeed)
          /\ VectorCapitals(e.dSquareSum, Rows) =
                SumsOf(pl.database, VectorMasks(e.dSquareSum, Rows), e.databaseSquaresSeed)
    /\ p = "client" /\ k > 17 =>
          VectorMasks(e.dSquareSum, Rows) = [i \in Rows |-> PRG(e.databaseSquaresSeed)]
    /\ p = "client" /\ k > 18 =>
          /\ VectorCapitals(e.fingerprint, Cols) =
                ColumnsOf(pl.fingerprint, VectorMasks(e.fingerprint, Cols), e.fingerprintSeed)
          /\ e.fingerprintSum.D = Mod(SquareSum(pl.fingerprint) + e.fingerprintSum.d
                                      + PRG(e.fingerprintSquaresSeed))
    /\ p = "server" /\ k > 18 => e.fingerprintSum.d = PRG(e.fingerprintSquaresSeed)

HoldsResults(p, k, e) ==
    /\ e.multShares \in IF k > 19 THEN [Rows -> Element] ELSE {Unset}
    /\ e.multDeltas =
          IF k > 19 THEN DeltasOf(p, Masks(e.database), Capitals(e.database),
                                  VectorMasks(e.fingerprint, Cols),
                                  VectorCapitals(e.fingerprint, Cols), e.triplets, e.multShares)
                    ELSE Unset
    /\ e.distances \in IF k > 20 THEN [Rows -> ShareType] ELSE {Unset}
    /\ e.yaoInput = IF k > 21 THEN YaoOf(p, e.distances) ELSE Unset

Holds(p, k, e, pl) ==
    /\ e \in EnvType
    /\ HoldsMasks(p, k, e) /\ HoldsKeys(p, k, e)
    /\ HoldsShares(p, k, e, pl) /\ HoldsResults(p, k, e)

\* What a party at position k has received agrees with what the peer holds.
Agrees(p, k, e, o) ==
    /\ k > 3 => e[OwnSeed(Other(p))] = o[OwnSeed(Other(p))]
    /\ k > 4 => e[OwnSquaresSeed(Other(p))] = o[OwnSquaresSeed(Other(p))]
    /\ k > AtRecvU(p) =>
          \A b \in 0 .. NumBaseBits - 1 :
             e.keys[b][ChoiceOf(VectorMasks(o.fingerprint, Cols))[b]] = o.received[b]
    /\ k > AtRecvCor(p) =>
          e.ReceiverOTs = ResultOf(e.received, ChoiceOf(VectorMasks(e.fingerprint, Cols)),
                                   CorOf(o.keys, Masks(o.database)))
    /\ p = "client" /\ k > 17 =>
          /\ Capitals(e.database) = Capitals(o.database)
          /\ VectorCapitals(e.dSquareSum, Rows) = VectorCapitals(o.dSquareSum, Rows)
    /\ p = "server" /\ k > 18 =>
          /\ VectorCapitals(e.fingerprint, Cols) = VectorCapitals(o.fingerprint, Cols)
          /\ e.fingerprintSum.D = o.fingerprintSum.D
    /\ k > 20 =>
          e.distances = DistancesOf(e.multDeltas, o.multDeltas, e.multShares, e.dSquareSum,
                                    e.fingerprintSum)

\* What a party at the end of a message's writing step has put into it.
DatabaseOf(dc, sums) ==
    [c \in 0 .. M * (N + 1) - 1 |->
        IF c % (N + 1) < N THEN dc[c \div (N + 1)][c % (N + 1)] ELSE sums[c \div (N + 1)]]
FingerprintOf(fc, sum) == [j \in 0 .. N |-> IF j < N THEN fc[j] ELSE sum]

Message(p, e) ==
    [seed |-> sendValue(e[OwnSeed(p)]), squaresSeed |-> sendValue(e[OwnSquaresSeed(p)]),
     baseKeys |-> <<<<>>>>, basePoints |-> <<<<>>>>, offset |-> <<<<>>>>,
     u |-> <<[keys |-> e.received,
              choices |-> ChoiceOf(VectorMasks(e.fingerprint, Cols))]>>,
     cor |-> sendValues(CorOf(e.keys, Masks(e.database)), ValueBytes),
     database |-> sendValues(DatabaseOf(Capitals(e.database),
                                        VectorCapitals(e.dSquareSum, Rows)), ValueBytes),
     fingerprint |-> sendValues(FingerprintOf(VectorCapitals(e.fingerprint, Cols),
                                              e.fingerprintSum.D), ValueBytes),
     multDeltas |-> sendValues(e.multDeltas, ValueBytes)]

\* Byte string number t towards party p is the one its message has at that place.
SpelledBy(p, t, bytes, messages) ==
    \A m \in 1 .. 9 :
        Start[p][m] < t /\ t <= Start[p][m + 1] =>
            bytes = messages[Kinds[p][m]][t - Start[p][m]]

\* The blocks on their way to a party are those of the peer's messages.
Contents ==
    \A p \in Party : \A b \in 1 .. Len(net[p]) :
        SpelledBy(p, Start[p][Reading(p)] + b, net[p][b].bytes,
                  Message(Other(p), env[Other(p)]))

-----------------------------------------------------------------------------
(* Positions and types *)

\* The two bytes of a value hold every element of the ring.
LEMMA WireType ==
    /\ WireBits \in Nat /\ 2^WireBits \in Nat \ {0} /\ WireValue = 0 .. 2^WireBits - 1
    /\ Element \subseteq WireValue
    /\ ByteBits \in Nat \ {0} /\ 2^ByteBits \in Nat \ {0} /\ 2^WireBits = 2^ByteBits * 2^ByteBits
<1>1. ByteBits \in Nat \ {0} /\ L \in Nat /\ L <= WireBits
  BY BlockAssumption, RingFitsTheWire, RingType
<1>2. WireBits = ByteBits + ByteBits
  BY <1>1 DEF WireBits, ValueBytes
<1>3. WireBits \in Nat
  BY <1>1, <1>2
<1>4. 2^L \in Nat \ {0} /\ 2^WireBits \in Nat \ {0} /\ 2^ByteBits \in Nat \ {0}
  BY <1>1, <1>3, PowerOfTwo
<1>5. 2^L <= 2^WireBits
  BY <1>1, <1>3, PowerMonotone
<1>6. 2^WireBits = 2^ByteBits * 2^ByteBits
  BY <1>1, <1>2, PowerPlus
<1> QED  BY <1>1, <1>3, <1>4, <1>5, <1>6, RingType DEF WireValue, Ring

\* What the parties may hold.
LEMMA InputType ==
    ASSUME NEW pl \in Inputs
    PROVE  /\ pl.database \in [Rows -> [Cols -> RSS]] /\ pl.fingerprint \in [Cols -> RSS]
           /\ RSS \subseteq Nat
<1>1. Inputs \subseteq [database : [Rows -> [Cols -> RSS]], fingerprint : [Cols -> RSS]]
  BY ParameterAssumption
<1>2. RSSBits \in Nat
  BY ParameterAssumption
<1>3. 2^RSSBits \in Nat
  BY <1>2, PowerOfTwo
<1> QED  BY <1>1, <1>3 DEF RSS

\* The seeds reach the generator's domain.
LEMMA PRGType ==
    ASSUME NEW seed \in Byte
    PROVE  /\ PRG(seed) \in Element
           /\ \A i \in Rows, j \in Cols : PRG(seed + (i * N + j)) \in Element
           /\ \A j \in Cols : PRG(seed + j) \in Element
<1>1. M \in Nat \ {0} /\ N \in Nat \ {0}
  BY RingType
<1>2. PICK top \in Nat \ {0} : top = 2^ByteBits /\ seed \in 0 .. top - 1
  BY WireType DEF Byte
<1>3. PICK size \in Nat \ {0} : size = M * N
  BY <1>1, SMTT(30)
<1>4. \A s \in 0 .. top + size : PRG(s) \in Element
  <2> SUFFICES ASSUME NEW s \in 0 .. top + size PROVE PRG(s) \in Element
    OBVIOUS
  <2>1. Rand(s) \in Int
    BY <1>2, <1>3, ParameterAssumption
  <2> QED  BY <2>1, ModType DEF PRG
<1>5. ASSUME NEW i \in Rows, NEW j \in Cols
      PROVE  i * N + j \in 0 .. size - 1 /\ j \in 0 .. size - 1
  <2>1. i \in 0 .. M - 1 /\ j \in 0 .. N - 1
    BY DEF Rows, Cols
  <2>2. i * N <= (M - 1) * N /\ (M - 1) * N = M * N - N /\ i * N >= 0 /\ i * N \in Int
    BY ONLY <1>1, <2>1, SMTT(30)
  <2> QED  BY ONLY <1>1, <1>3, <2>1, <2>2
<1>6. ASSUME NEW k \in 0 .. size - 1 PROVE seed + k \in 0 .. top + size
  BY <1>2
<1>7. seed \in 0 .. top + size
  BY <1>2
<1>8. \A i \in Rows, j \in Cols : PRG(seed + (i * N + j)) \in Element
  <2> SUFFICES ASSUME NEW i \in Rows, NEW j \in Cols PROVE PRG(seed + (i * N + j)) \in Element
    OBVIOUS
  <2>1. seed + (i * N + j) \in 0 .. top + size
    BY <1>5, <1>6
  <2> QED  BY <1>4, <2>1
<1>9. \A j \in Cols : PRG(seed + j) \in Element
  <2> SUFFICES ASSUME NEW j \in Cols PROVE PRG(seed + j) \in Element
    OBVIOUS
  <2>1. 0 \in Rows
    BY <1>1 DEF Rows
  <2>2. seed + j \in 0 .. top + size
    BY <1>5, <1>6, <2>1
  <2> QED  BY <1>4, <2>2
<1> QED  BY <1>4, <1>7, <1>8, <1>9

\* Draws has a number for every cell and every row.
LEMMA DrawType ==
    ASSUME NEW r \in Draws
    PROVE  /\ \A i \in Rows, j \in Cols : Mod(r[i * N + j]) \in Element
           /\ \A j \in Cols : Mod(r[j]) \in Element
           /\ \A i \in Rows : Mod(r[i]) \in Element
<1>1. M \in Nat \ {0} /\ N \in Nat \ {0}
  BY RingType
<1>2. PICK size \in Nat \ {0} : size = M * N
  BY <1>1, SMTT(30)
<1>3. r \in [0 .. size - 1 -> Nat]
  BY <1>2, ParameterAssumption
<1>4. \A k \in 0 .. size - 1 : Mod(r[k]) \in Element
  BY <1>3, ModType
<1>5. ASSUME NEW i \in Rows, NEW j \in Cols
      PROVE  i * N + j \in 0 .. size - 1 /\ j \in 0 .. size - 1 /\ i \in 0 .. size - 1
  <2>1. i \in 0 .. M - 1 /\ j \in 0 .. N - 1
    BY DEF Rows, Cols
  <2>2. /\ i * N <= (M - 1) * N /\ (M - 1) * N = M * N - N /\ i * N >= i /\ i * N \in Int
    BY ONLY <1>1, <2>1, SMTT(30)
  <2> QED  BY ONLY <1>1, <1>2, <2>1, <2>2
<1>6. 0 \in Rows /\ 0 \in Cols
  BY <1>1 DEF Rows, Cols
<1> QED  BY <1>4, <1>5, <1>6

\* How many OTs there are.
LEMMA BaseType ==
    /\ NumBaseBits \in Nat \ {0} /\ NumBaseBits = N * L /\ NumOTs = M * NumBaseBits
    /\ NumOTs \in Nat \ {0}
<1>1. M \in Nat \ {0} /\ N \in Nat \ {0} /\ L \in Nat \ {0}
  BY RingType
<1>2. N * L \in Nat \ {0} /\ (M * N) * L = M * (N * L)
  BY <1>1, SMTT(30)
<1>3. M * (N * L) \in Nat \ {0}
  <2>1. PICK b \in Nat \ {0} : b = N * L
    BY <1>2
  <2>2. M * b \in Nat \ {0}
    BY <1>1, SMTT(30)
  <2> QED  BY <2>1, <2>2
<1> QED  BY <1>2, <1>3 DEF NumBaseBits, NumOTs

\* The position x * n + y of a pair.
LEMMA PairPosition ==
    ASSUME NEW m \in Nat \ {0}, NEW n \in Nat \ {0}, NEW z \in 0 .. m * n - 1
    PROVE  /\ z \div n \in 0 .. m - 1 /\ z % n \in 0 .. n - 1
           /\ z = (z \div n) * n + (z % n)
<1>1. m * n \in Nat
  BY SMTT(30)
<1>2. z \in Nat /\ z < m * n
  BY <1>1
<1>3. PICK q \in Nat, r \in 0 .. n - 1 : q = z \div n /\ r = z % n /\ z = q * n + r
  BY <1>2, Division, DivisionOfNat
<1>4. q < m
  <2> SUFFICES ASSUME q >= m PROVE FALSE
    OBVIOUS
  <2>1. q * n >= m * n /\ q * n \in Int
    BY SMTT(30)
  <2> QED  BY <1>1, <1>2, <1>3, <2>1
<1> QED  BY <1>3, <1>4

\* The cell and the bit that a base OT stands for.
LEMMA BitIndex ==
    ASSUME NEW b \in 0 .. NumBaseBits - 1
    PROVE  b \div L \in Cols /\ b % L \in 0 .. L - 1
<1>1. b \in 0 .. N * L - 1 /\ N \in Nat \ {0} /\ L \in Nat \ {0}
  BY BaseType, RingType
<1> QED  BY <1>1, PairPosition DEF Cols

\* The row, the key and the bit that an OT stands for.
LEMMA OTIndex ==
    ASSUME NEW it \in OTs
    PROVE  /\ KeyIndex(it) \in 0 .. NumBaseBits - 1 /\ it \div NumBaseBits \in Rows
           /\ it % L \in 0 .. L - 1 /\ it \in Int
<1>1. PICK n \in Nat \ {0} : n = NumBaseBits
  BY BaseType
<1>2. it \in 0 .. M * n - 1 /\ M \in Nat \ {0} /\ L \in Nat \ {0}
  BY <1>1, BaseType, RingType DEF OTs
<1>3. it \div n \in 0 .. M - 1 /\ it % n \in 0 .. n - 1
  BY <1>2, PairPosition
<1>4. M * n \in Int
  BY <1>2
<1>5. it \in Int
  BY <1>2, <1>4
<1>6. it % L \in 0 .. L - 1
  BY <1>2, <1>5, Division
<1> QED  BY <1>1, <1>3, <1>5, <1>6 DEF KeyIndex, Rows

\* The correlated OTs of a cell.
LEMMA CellIndex ==
    ASSUME NEW i \in Rows, NEW j \in Cols, NEW k \in 0 .. L - 1
    PROVE  /\ (i * NumBaseBits + j * L) + k \in OTs
           /\ ((i * NumBaseBits + j * L) + k) \div NumBaseBits = i
           /\ KeyIndex((i * NumBaseBits + j * L) + k) = j * L + k
           /\ j * L + k \in 0 .. NumBaseBits - 1
           /\ (j * L + k) \div L = j /\ (j * L + k) % L = k
           /\ ((i * NumBaseBits + j * L) + k) % L = k
<1>1. /\ M \in Nat \ {0} /\ N \in Nat \ {0} /\ L \in Nat \ {0}
      /\ i \in 0 .. M - 1 /\ j \in 0 .. N - 1
  BY RingType DEF Rows, Cols
<1>2. PICK n \in Nat \ {0} : n = NumBaseBits /\ n = N * L /\ NumOTs = M * n
  BY BaseType
<1>3. PICK u \in Int : u = j * L + k
  BY <1>1
<1>4. u \in 0 .. n - 1
  <2>1. j * L <= (N - 1) * L /\ (N - 1) * L = N * L - L /\ j * L >= 0 /\ j * L \in Int
    BY <1>1, SMTT(30)
  <2> QED  BY <1>1, <1>2, <1>3, <2>1
<1>5. u \div L = j /\ u % L = k
  BY <1>1, <1>3, DivisionUnique
<1>6. PICK x \in Int, v \in Int : x = i * n /\ v = x + u
  BY <1>1
<1>7. v \div n = i /\ v % n = u
  BY <1>1, <1>4, <1>6, DivisionUnique
<1>8. v \in OTs
  <2>1. x <= (M - 1) * n /\ (M - 1) * n = M * n - n /\ x >= 0 /\ M * n \in Int
    BY <1>1, <1>6, SMTT(30)
  <2>2. v \in 0 .. M * n - 1
    BY <1>4, <1>6, <2>1
  <2> QED  BY <1>2, <2>2 DEF OTs
<1>9. v % L = k
  <2>1. PICK g \in Int : g = i * N + j
    BY <1>1
  <2>2. v = g * L + k
    <3>1. (i * N + j) * L = i * (N * L) + j * L
      BY <1>1, SMTT(30)
    <3> QED  BY <1>1, <1>2, <1>3, <1>6, <2>1, <3>1
  <2> QED  BY <1>1, <2>1, <2>2, DivisionUnique
<1>10. (i * NumBaseBits + j * L) + k = v
  BY <1>1, <1>2, <1>3, <1>6
<1> QED  BY ONLY <1>2, <1>3, <1>4, <1>5, <1>7, <1>8, <1>9, <1>10 DEF KeyIndex

-----------------------------------------------------------------------------
(* The correlated OTs *)

\* The model's bit is the one that the sums of powers speak of.
LEMMA BitIsBit == ASSUME NEW x, NEW k PROVE Bit(x, k) = BitOf(x, k)
BY DEF Bit, BitOf

\* The xor of two values of the wire: it is a value of the wire and its own inverse.
LEMMA XorIs ==
    ASSUME NEW x \in WireValue, NEW y \in WireValue
    PROVE  /\ Xor(x, y) = BitwiseXor(x, y, WireBits)
           /\ Xor(x, y) \in WireValue
           /\ Xor(x, Xor(x, y)) = y
<1>1. PICK n \in Nat : n = WireBits /\ WireValue = 0 .. 2^n - 1
  BY WireType
<1>2. ASSUME NEW u \in WireValue, NEW v \in WireValue PROVE Xor(u, v) = BitwiseXor(u, v, n)
  <2>1. Xor(u, v) = SumFunction([k \in 0 .. n - 1 |-> ((Bit(u, k) + Bit(v, k)) % 2) * 2^k])
    BY <1>1 DEF Xor, XorTable
  <2> QED  BY <2>1, BitIsBit
           DEF BitwiseXor, XorTerms, SumFunction, SumFunctionOnSet, FoldFunction
<1>3. BitwiseXor(x, y, n) \in WireValue
  <2>1. x \in Int /\ y \in Int
    BY <1>1, PowerOfTwo
  <2> QED  BY <1>1, <2>1, BitsOfXor
<1>4. BitwiseXor(x, BitwiseXor(x, y, n), n) = y
  BY <1>1, XorUndone
<1> QED  BY <1>1, <1>2, <1>3, <1>4

\* Masks and capital deltas of a matrix are elements of the ring.
LEMMA MaskTypes ==
    ASSUME NEW db \in [Rows -> [Cols -> ShareType]]
    PROVE  Masks(db) \in [Rows -> [Cols -> Element]] /\ Capitals(db) \in [Rows -> [Cols -> Element]]
BY DEF Masks, Capitals, ShareType

\* The same for a vector.
LEMMA VectorTypes ==
    ASSUME NEW S, NEW vec \in [S -> ShareType]
    PROVE  VectorMasks(vec, S) \in [S -> Element] /\ VectorCapitals(vec, S) \in [S -> Element]
BY DEF VectorMasks, VectorCapitals, ShareType

\* An element is a number that fits the wire.
LEMMA ElementInt == ASSUME NEW x \in Element PROVE x \in Int /\ x \in WireValue
BY RingType, WireType

\* The choices are the bits of the masks.
LEMMA ChoiceType ==
    ASSUME NEW masks \in [Cols -> Element]
    PROVE  /\ ChoiceOf(masks) \in [0 .. NumBaseBits - 1 -> {0, 1}]
           /\ \A b \in 0 .. NumBaseBits - 1 :
                 ChoiceOf(masks)[b] = BitOf(masks[b \div L], b % L)
<1>1. ASSUME NEW b \in 0 .. NumBaseBits - 1
      PROVE  Bit(masks[b \div L], b % L) = BitOf(masks[b \div L], b % L)
             /\ BitOf(masks[b \div L], b % L) \in {0, 1}
  <2>1. b \div L \in Cols /\ b % L \in Nat
    <3>1. b \div L \in Cols /\ b % L \in 0 .. L - 1 /\ L \in Nat
      BY BitIndex, RingType
    <3> QED  BY ONLY <3>1
  <2>2. masks[b \div L] \in Int
    BY <2>1, ElementInt
  <2> QED  BY <2>1, <2>2, BitIsBit, BitType
<1> QED  BY <1>1 DEF ChoiceOf

\* What the sender correlates with a key, in the ring.
CorrelationOf(keys, masks, it) ==
    CorrelatedFunction(masks[it \div NumBaseBits][KeyIndex(it) \div L],
                       keys[KeyIndex(it)][0], it % L)

\* The correlated value of an OT is its first key plus a multiple of the mask.
LEMMA CorrelationType ==
    ASSUME NEW masks \in [Rows -> [Cols -> Element]],
           NEW keys \in [0 .. NumBaseBits - 1 -> [0 .. 1 -> WireValue]], NEW it \in OTs
    PROVE  /\ CorrelationOf(keys, masks, it) \in Element
           /\ CorrelationOf(keys, masks, it) =
                 Mod(keys[KeyIndex(it)][0]
                     + masks[it \div NumBaseBits][KeyIndex(it) \div L] * 2^(it % L))
           /\ keys[KeyIndex(it)][0] \in WireValue /\ keys[KeyIndex(it)][1] \in WireValue
<1>1. /\ KeyIndex(it) \in 0 .. NumBaseBits - 1 /\ it \div NumBaseBits \in Rows
      /\ it % L \in 0 .. L - 1 /\ L \in Nat
  BY OTIndex, RingType
<1>2. KeyIndex(it) \div L \in Cols
  BY <1>1, BitIndex
<1>3. PICK x \in Int : x = masks[it \div NumBaseBits][KeyIndex(it) \div L]
  BY <1>1, <1>2, ElementInt
<1>4. keys[KeyIndex(it)][0] \in WireValue /\ keys[KeyIndex(it)][1] \in WireValue
  BY <1>1
<1>5. PICK s \in Int : s = keys[KeyIndex(it)][0]
  BY <1>4, WireType
<1>6. it % L \in Nat
  BY ONLY <1>1
<1>7. PICK p \in Int : p = 2^(it % L)
  BY <1>6, PowerOfTwo
<1>8. PICK xp \in Int : xp = x * p
  OBVIOUS
<1>9. Mod(xp + Mod(s)) = Mod(xp + s) /\ xp + s = s + xp /\ Mod(xp + s) \in Element
  <2>1. xp + s \in Int /\ xp + s = s + xp
    OBVIOUS
  <2>2. Mod(xp + s) \in Element
    BY <2>1, ModType
  <2>3. Mod(xp + Mod(s)) = Mod(xp + s)
    BY ModPart
  <2> QED  BY <2>1, <2>2, <2>3
<1>10. CorrelationOf(keys, masks, it) = Mod(xp + Mod(s))
  BY <1>3, <1>5, <1>7, <1>8 DEF CorrelationOf, CorrelatedFunction
<1> QED  BY <1>3, <1>4, <1>5, <1>7, <1>8, <1>9, <1>10

\* What the sender of a batch sends and keeps fits the wire.
LEMMA CorType ==
    ASSUME NEW masks \in [Rows -> [Cols -> Element]],
           NEW keys \in [0 .. NumBaseBits - 1 -> [0 .. 1 -> WireValue]]
    PROVE  /\ CorOf(keys, masks) \in [OTs -> WireValue]
           /\ FirstKeys(keys) \in [OTs -> WireValue]
           /\ \A it \in OTs : CorOf(keys, masks)[it] =
                 Xor(keys[KeyIndex(it)][1], CorrelationOf(keys, masks, it))
<1>1. ASSUME NEW it \in OTs
      PROVE  /\ keys[KeyIndex(it)][0] \in WireValue
             /\ Xor(keys[KeyIndex(it)][1], CorrelationOf(keys, masks, it)) \in WireValue
  <2>1. /\ CorrelationOf(keys, masks, it) \in WireValue
        /\ keys[KeyIndex(it)][1] \in WireValue /\ keys[KeyIndex(it)][0] \in WireValue
    BY CorrelationType, ElementInt
  <2> QED  BY <2>1, XorIs
<1>2. CorOf(keys, masks) =
         [it \in OTs |-> Xor(keys[KeyIndex(it)][1], CorrelationOf(keys, masks, it))]
  BY DEF CorOf, CorrelationOf
<1>3. FirstKeys(keys) = [it \in OTs |-> keys[KeyIndex(it)][0]]
  BY DEF FirstKeys
<1> QED  BY <1>1, <1>2, <1>3

\* The receiver of a batch, whose chosen keys are the sender's, gets the first
\* key where it chose 0 and what the sender correlated with it where it chose 1.
LEMMA ResultIs ==
    ASSUME NEW masks \in [Rows -> [Cols -> Element]], NEW columns \in [Cols -> Element],
           NEW keys \in [0 .. NumBaseBits - 1 -> [0 .. 1 -> WireValue]],
           NEW received \in [0 .. NumBaseBits - 1 -> WireValue],
           \A b \in 0 .. NumBaseBits - 1 : keys[b][ChoiceOf(columns)[b]] = received[b]
    PROVE  /\ ResultOf(received, ChoiceOf(columns), CorOf(keys, masks)) \in [OTs -> WireValue]
           /\ \A it \in OTs :
                 ResultOf(received, ChoiceOf(columns), CorOf(keys, masks))[it] =
                    IF ChoiceOf(columns)[KeyIndex(it)] = 1
                    THEN CorrelationOf(keys, masks, it) ELSE FirstKeys(keys)[it]
<1> DEFINE result == ResultOf(received, ChoiceOf(columns), CorOf(keys, masks))
<1>1. ASSUME NEW it \in OTs
      PROVE  /\ result[it] = IF ChoiceOf(columns)[KeyIndex(it)] = 1
                             THEN CorrelationOf(keys, masks, it) ELSE FirstKeys(keys)[it]
             /\ result[it] \in WireValue
  <2>1. PICK b \in 0 .. NumBaseBits - 1 : b = KeyIndex(it)
    BY OTIndex
  <2>2. PICK c \in {0, 1} : c = ChoiceOf(columns)[b] /\ keys[b][c] = received[b]
    BY ChoiceType
  <2>3. PICK v \in WireValue : v = CorrelationOf(keys, masks, it)
    BY CorrelationType, ElementInt
  <2>4. CorOf(keys, masks)[it] = Xor(keys[b][1], v)
    BY <2>1, <2>3, CorType
  <2>5. FirstKeys(keys)[it] = keys[b][0] /\ keys[b][0] \in WireValue /\ keys[b][1] \in WireValue
    BY <2>1 DEF FirstKeys
  <2>6. result[it] = IF c = 1 THEN Xor(received[b], CorOf(keys, masks)[it]) ELSE received[b]
    BY <2>1, <2>2 DEF ResultOf
  <2>7. CASE c = 1
    <3>1. Xor(keys[b][1], Xor(keys[b][1], v)) = v
      BY <2>5, XorIs
    <3>2. received[b] = keys[b][1]
      BY <2>2, <2>7
    <3> QED  BY <2>1, <2>2, <2>3, <2>4, <2>6, <2>7, <3>1, <3>2
  <2>8. CASE c = 0
    BY <2>1, <2>2, <2>5, <2>6, <2>8
  <2> QED  BY <2>7, <2>8
<1>2. DOMAIN result = OTs /\ result = [it \in OTs |-> result[it]]
  BY DEF ResultOf
<1> QED  BY <1>1, <1>2

-----------------------------------------------------------------------------
(* The triples of two parties *)

\* Every result of a batch is congruent to what the sender keeps, plus its mask
\* times the bit the receiver chose with, at the weight of that bit.
Correlates(results, kept, columns, masks) ==
    \A it \in OTs :
        Mod(results[it]) =
            Mod(kept[it] + BitOf(columns[KeyIndex(it) \div L], it % L)
                           * (masks[it \div NumBaseBits][KeyIndex(it) \div L] * 2^(it % L)))

\* What the receiver holds after a batch is correlated with what the sender keeps.
LEMMA ResultCorrelates ==
    ASSUME NEW masks \in [Rows -> [Cols -> Element]], NEW columns \in [Cols -> Element],
           NEW keys \in [0 .. NumBaseBits - 1 -> [0 .. 1 -> WireValue]],
           NEW received \in [0 .. NumBaseBits - 1 -> WireValue],
           \A b \in 0 .. NumBaseBits - 1 : keys[b][ChoiceOf(columns)[b]] = received[b]
    PROVE  Correlates(ResultOf(received, ChoiceOf(columns), CorOf(keys, masks)),
                      FirstKeys(keys), columns, masks)
<1> SUFFICES ASSUME NEW it \in OTs
             PROVE  Mod(ResultOf(received, ChoiceOf(columns), CorOf(keys, masks))[it]) =
                       Mod(FirstKeys(keys)[it]
                           + BitOf(columns[KeyIndex(it) \div L], it % L)
                             * (masks[it \div NumBaseBits][KeyIndex(it) \div L] * 2^(it % L)))
  BY DEF Correlates
<1>1. PICK b \in 0 .. NumBaseBits - 1 : b = KeyIndex(it)
  BY OTIndex
<1>2. PICK c \in {0, 1} : c = ChoiceOf(columns)[b]
  BY ChoiceType
<1>3. c = BitOf(columns[KeyIndex(it) \div L], it % L)
  <2>1. c = BitOf(columns[b \div L], b % L)
    BY <1>2, ChoiceType
  <2>2. b % L = it % L
    <3>1. PICK n \in Nat \ {0}, m \in Nat \ {0}, q \in Int :
             n = L /\ m = N /\ q = it \div NumBaseBits /\ NumBaseBits = m * n
      <4>1. it \div NumBaseBits \in 0 .. M - 1 /\ M \in Nat
        BY OTIndex, RingType DEF Rows
      <4>2. it \div NumBaseBits \in Int
        BY ONLY <4>1
      <4> QED  BY <4>2, RingType, BaseType
    <3>2. PICK p \in Int : p = q * m
      OBVIOUS
    <3>3. it = q * (m * n) + b /\ it \in Int /\ b \in Int
      <4>1. m * n \in Nat \ {0} /\ NumBaseBits \in Nat \ {0}
        BY <3>1, BaseType
      <4>2. it \in Int
        BY OTIndex
      <4>3. it = (it \div NumBaseBits) * NumBaseBits + (it % NumBaseBits)
        BY <4>1, <4>2, Division
      <4>4. b \in Int
        BY <4>1
      <4> QED  BY <1>1, <3>1, <4>2, <4>3, <4>4 DEF KeyIndex
    <3>4. it = b + p * n
      BY <3>2, <3>3, SMTT(30)
    <3>5. Congruent(it, b, n)
      BY <3>4 DEF Congruent
    <3> QED  BY <3>1, <3>3, <3>5, SameRemainder
  <2> QED  BY <1>1, <2>1, <2>2
<1>4. PICK s \in Int : s = FirstKeys(keys)[it] /\ s = keys[KeyIndex(it)][0]
  <2>1. keys[KeyIndex(it)][0] \in WireValue /\ FirstKeys(keys)[it] = keys[KeyIndex(it)][0]
    BY CorrelationType DEF FirstKeys
  <2> QED  BY <2>1, WireType
<1>5. PICK y \in Int : y = masks[it \div NumBaseBits][KeyIndex(it) \div L] * 2^(it % L)
  <2>1. /\ it \div NumBaseBits \in Rows /\ KeyIndex(it) \div L \in Cols /\ it % L \in Nat
    <3>1. it % L \in 0 .. L - 1 /\ L \in Nat
      BY OTIndex, RingType
    <3> QED  BY <3>1, OTIndex, BitIndex
  <2>2. masks[it \div NumBaseBits][KeyIndex(it) \div L] \in Int /\ 2^(it % L) \in Int
    BY <2>1, ElementInt, PowerOfTwo
  <2> QED  BY <2>2
<1>6. /\ CorrelationOf(keys, masks, it) \in Element
      /\ CorrelationOf(keys, masks, it) = Mod(s + y)
  BY <1>4, <1>5, CorrelationType
<1>7. Mod(CorrelationOf(keys, masks, it)) = Mod(s + y)
  BY <1>6, ModPart
<1>8. /\ c = 1 => ResultOf(received, ChoiceOf(columns), CorOf(keys, masks))[it] =
                     CorrelationOf(keys, masks, it)
      /\ c # 1 => ResultOf(received, ChoiceOf(columns), CorOf(keys, masks))[it] = s
  BY <1>1, <1>2, <1>4, ResultIs
<1>9. Mod(ResultOf(received, ChoiceOf(columns), CorOf(keys, masks))[it]) = Mod(s + c * y)
  <2>1. CASE c = 1
    BY <1>7, <1>8, <2>1
  <2>2. CASE c = 0
    BY <1>8, <2>2
  <2> QED  BY <2>1, <2>2
<1> QED  BY ONLY <1>3, <1>4, <1>5, <1>9

\* What the batch adds to the triple of a cell.
Part(values) == [it \in OTs |-> Mod(values[it])]
CellOTs(i, j) == {i * NumBaseBits + j * L + k : k \in 0 .. L-1}
CellSum(values, i, j) == SumFunctionOnSet(Part(values), CellOTs(i, j))
BatchRelates(results, kept, columns, masks, i, j) ==
    Mod(CellSum(results, i, j)) = Mod(CellSum(kept, i, j) + masks[i][j] * columns[j])
TripletValue(own, s, t) == Mod(own + Mod(s) + Mod(0 - t))

\* The OTs of a cell are an interval.
LEMMA CellInterval ==
    ASSUME NEW i \in Rows, NEW j \in Cols
    PROVE  \E base \in Int : /\ base = i * NumBaseBits + j * L
                            /\ CellOTs(i, j) = base .. base + (L - 1)
<1>1. PICK base \in Int : base = i * NumBaseBits + j * L
  BY BaseType, RingType DEF Rows, Cols
<1>2. ASSUME NEW it \in base .. base + (L - 1) PROVE it \in CellOTs(i, j)
  <2>1. it - base \in 0 .. L - 1 /\ it = base + (it - base)
    BY RingType
  <2> QED  BY <1>1, <2>1 DEF CellOTs
<1>3. ASSUME NEW it \in CellOTs(i, j) PROVE it \in base .. base + (L - 1)
  <2>1. PICK k \in 0 .. L - 1 : it = base + k
    BY <1>1 DEF CellOTs
  <2> QED  BY <2>1, RingType
<1> QED  BY <1>1, <1>2, <1>3

\* Their sums are numbers.
LEMMA CellSums ==
    ASSUME NEW i \in Rows, NEW j \in Cols, NEW values \in [OTs -> WireValue]
    PROVE  CellSum(values, i, j) \in Int
<1>1. ASSUME NEW it \in CellOTs(i, j) PROVE Part(values)[it] \in Int
  <2>1. it \in OTs
    BY CellIndex DEF CellOTs
  <2>2. Mod(values[it]) \in Int
    BY <2>1, WireType, ModType
  <2> QED  BY <2>1, <2>2 DEF Part
<1>2. IsFiniteSet(CellOTs(i, j))
  <2>1. PICK base \in Int : CellOTs(i, j) = base .. base + (L - 1)
    BY CellInterval
  <2>2. base + (L - 1) \in Int
    BY RingType
  <2> QED  BY <2>1, <2>2, FS_Interval
<1> QED  BY <1>1, <1>2, SumStep DEF CellSum

\* Over the OTs of a cell the results exceed the keys by the product of the masks.
LEMMA BatchSum ==
    ASSUME NEW masks \in [Rows -> [Cols -> Element]], NEW columns \in [Cols -> Element],
           NEW results \in [OTs -> WireValue], NEW kept \in [OTs -> WireValue],
           Correlates(results, kept, columns, masks), NEW i \in Rows, NEW j \in Cols
    PROVE  BatchRelates(results, kept, columns, masks, i, j)
<1>1. PICK base \in Int : /\ base = i * NumBaseBits + j * L
                          /\ CellOTs(i, j) = base .. base + (L - 1)
  BY CellInterval
<1>2. PICK x \in Int, y \in Element : x = masks[i][j] /\ y = columns[j]
  BY ElementInt
<1>4. Correlated(Part(results), Part(kept), x, y, base)
  <2> SUFFICES ASSUME NEW k \in 0 .. L - 1
               PROVE  /\ Part(results)[base + k] \in Int /\ Part(kept)[base + k] \in Int
                      /\ Mod(Part(results)[base + k]) =
                            Mod(Part(kept)[base + k] + BitOf(y, k) * (x * 2^k))
    BY DEF Correlated
  <2>1. PICK it \in OTs : it = base + k /\ it \div NumBaseBits = i
                          /\ KeyIndex(it) \div L = j /\ it % L = k
    BY <1>1, CellIndex
  <2>2. PICK r \in Int, s \in Int : r = results[it] /\ s = kept[it]
    BY WireType
  <2>3. Part(results)[base + k] = Mod(r) /\ Part(kept)[base + k] = Mod(s)
    BY <2>1, <2>2 DEF Part
  <2>4. PICK z \in Int : z = BitOf(y, k) * (x * 2^k)
    <3>1. k \in Nat /\ y \in Int
      BY RingType, ElementInt
    <3>2. BitOf(y, k) \in Int /\ 2^k \in Int
      BY <3>1, BitType, PowerOfTwo
    <3> QED  BY <3>2
  <2>5. Mod(r) = Mod(s + z)
    BY <1>2, <2>1, <2>2, <2>4 DEF Correlates
  <2>6. Mod(Mod(s) + z) = Mod(s + z) /\ Mod(Mod(r)) = Mod(r)
    BY ModPart
  <2>7. Mod(r) \in Int /\ Mod(s) \in Int
    BY ModType
  <2> QED  BY ONLY <2>3, <2>4, <2>5, <2>6, <2>7
<1>5. Mod(SumFunctionOnSet(Part(results), base .. base + (L - 1))) =
         Mod(SumFunctionOnSet(Part(kept), base .. base + (L - 1)) + x * y)
  BY <1>4, CorrelatedSum
<1> QED  BY <1>1, <1>2, <1>5 DEF BatchRelates, CellSum

\* The reductions in between do not matter for a triple.
LEMMA TripletReduces ==
    ASSUME NEW x \in Int, NEW y \in Int, NEW z \in Int
    PROVE  TripletValue(x, y, z) = Mod((x + y) - z) /\ TripletValue(x, y, z) \in Element
<1>1. PICK m \in Int, n \in Int : m = Mod(y) /\ n = 0 - z
  <2>1. 0 - z \in Int
    OBVIOUS
  <2>2. Mod(y) \in Int
    BY ModType
  <2> QED  BY <2>1, <2>2
<1>2. PICK w \in Int : w = x + m
  OBVIOUS
<1>3. Mod(w + Mod(n)) = Mod(w + n)
  BY ModPart
<1>4. PICK v \in Int : v = x + n
  OBVIOUS
<1>5. Mod(v + Mod(y)) = Mod(v + y)
  BY ModPart
<1>6. w + n = v + m /\ v + y = (x + y) - z
  BY <1>1, <1>2, <1>4
<1>7. TripletValue(x, y, z) = Mod(w + Mod(n))
  BY ONLY <1>1, <1>2 DEF TripletValue
<1>8. w + Mod(n) \in Int
  <2>1. Mod(n) \in Int
    BY ModType
  <2> QED  BY <2>1
<1>9. Mod(w + Mod(n)) \in Element
  BY <1>8, ModType
<1> QED  BY ONLY <1>1, <1>3, <1>5, <1>6, <1>7, <1>9

\* A triple is an element of the ring.
LEMMA TripletIs ==
    ASSUME NEW masks \in [Rows -> [Cols -> Element]], NEW columns \in [Cols -> Element],
           NEW results \in [OTs -> WireValue], NEW kept \in [OTs -> WireValue],
           NEW i \in Rows, NEW j \in Cols
    PROVE  TripletOf(masks, columns, results, kept, i, j) \in Element
<1>1. PICK w \in Int, s \in Int, t \in Int :
         w = masks[i][j] * columns[j] /\ s = CellSum(results, i, j)
         /\ t = CellSum(kept, i, j)
  <2>1. masks[i][j] \in Int /\ columns[j] \in Int
    BY ElementInt
  <2>2. masks[i][j] * columns[j] \in Int
    BY <2>1
  <2>3. CellSum(results, i, j) \in Int /\ CellSum(kept, i, j) \in Int
    BY CellSums
  <2> QED  BY <2>2, <2>3
<1>2. TripletOf(masks, columns, results, kept, i, j) = TripletValue(w, s, t)
  BY <1>1 DEF TripletOf, TripletValue, CellSum, Part, CellOTs
<1> QED  BY <1>2, TripletReduces

TripletsMatch(ma, ca, ra, ka, mb, cb, rb, kb, i, j) ==
    Mod(TripletOf(ma, ca, ra, ka, i, j) + TripletOf(mb, cb, rb, kb, i, j)) =
        Mod((ma[i][j] + mb[i][j]) * (ca[j] + cb[j]))

\* The triples of two parties that were sender and receiver in turn multiply.
LEMMA TripletsProduct ==
    ASSUME NEW ma \in [Rows -> [Cols -> Element]], NEW ca \in [Cols -> Element],
           NEW mb \in [Rows -> [Cols -> Element]], NEW cb \in [Cols -> Element],
           NEW ra \in [OTs -> WireValue], NEW ka \in [OTs -> WireValue],
           NEW rb \in [OTs -> WireValue], NEW kb \in [OTs -> WireValue],
           Correlates(ra, kb, ca, mb), Correlates(rb, ka, cb, ma),
           NEW i \in Rows, NEW j \in Cols
    PROVE  TripletsMatch(ma, ca, ra, ka, mb, cb, rb, kb, i, j)
<1>1. PICK a \in Int, b \in Int, f \in Int, g \in Int :
         a = ma[i][j] /\ b = mb[i][j] /\ f = ca[j] /\ g = cb[j]
  BY ElementInt
<1>2. PICK P \in Int, Q \in Int, R \in Int, S \in Int :
         P = CellSum(ra, i, j) /\ Q = CellSum(ka, i, j)
         /\ R = CellSum(rb, i, j) /\ S = CellSum(kb, i, j)
  BY CellSums
<1>a. PICK af \in Int, bg \in Int, bf \in Int, ag \in Int :
         af = a * f /\ bg = b * g /\ bf = b * f /\ ag = a * g
  OBVIOUS
<1>3. Mod(P) = Mod(S + bf) /\ Mod(R) = Mod(Q + ag)
  <2>1. BatchRelates(ra, kb, ca, mb, i, j) /\ BatchRelates(rb, ka, cb, ma, i, j)
    BY BatchSum
  <2> QED  BY ONLY <1>1, <1>2, <1>a, <2>1 DEF BatchRelates
<1>4. /\ TripletOf(ma, ca, ra, ka, i, j) = TripletValue(af, P, Q)
      /\ TripletOf(mb, cb, rb, kb, i, j) = TripletValue(bg, R, S)
  BY ONLY <1>1, <1>2, <1>a DEF TripletOf, TripletValue, CellSum, Part, CellOTs
<1>b. PICK u \in Int, v \in Int : u = (af + P) - Q /\ v = (bg + R) - S
  OBVIOUS
<1>5. TripletValue(af, P, Q) = Mod(u) /\ TripletValue(bg, R, S) = Mod(v)
  <2>1. TripletValue(af, P, Q) = Mod((af + P) - Q)
    BY TripletReduces
  <2>2. TripletValue(bg, R, S) = Mod((bg + R) - S)
    BY TripletReduces
  <2> QED  BY ONLY <1>b, <2>1, <2>2
<1>6. Mod(Mod(u) + Mod(v)) = Mod(u + v)
  <2>1. PICK m \in Int : m = Mod(u)
    BY ModType
  <2>2. Mod(m + Mod(v)) = Mod(m + v)
    BY ModPart
  <2>3. Mod(v + Mod(u)) = Mod(v + u)
    BY ModPart
  <2>4. m + v = v + m /\ u + v = v + u
    OBVIOUS
  <2> QED  BY ONLY <2>1, <2>2, <2>3, <2>4
<1>7. Mod(u + v) = Mod(af + bg + bf + ag)
  <2>1. PICK c \in Int, d \in Int : c = S + bf /\ d = Q + ag
    OBVIOUS
  <2>2. Mod(P) = Mod(c) /\ Mod(R) = Mod(d)
    BY ONLY <1>3, <2>1
  <2>3. Mod(P + R) = Mod(c + d)
    BY ONLY <2>2, SamePlus, P \in Int, R \in Int, c \in Int, d \in Int
  <2>4. PICK w \in Int, h \in Int, k \in Int :
           w = ((af + bg) - Q) - S /\ h = P + R /\ k = c + d
    OBVIOUS
  <2>5. Mod(h + w) = Mod(k + w)
    <3>1. Mod(h) = Mod(k)
      BY ONLY <2>3, <2>4
    <3> QED  BY ONLY <3>1, ModSame, w \in Int, h \in Int, k \in Int
  <2>6. h + w = u + v /\ k + w = af + bg + bf + ag
    BY <1>b, <2>1, <2>4
  <2> QED  BY ONLY <2>5, <2>6
<1>8. (a + b) * (f + g) = af + bg + bf + ag
  BY <1>a, SMTT(30)
<1> QED  BY ONLY <1>1, <1>4, <1>5, <1>6, <1>7, <1>8 DEF TripletsMatch

-----------------------------------------------------------------------------
(* The scalar products and the distances of two parties *)

\* For row i the capital deltas open to the values and the triples multiply.
RowOpens(ma, mb, ca, cb, dc, fc, ts, tc, pl, i) ==
    \A j \in Cols :
        /\ Mod(dc[i][j] - ma[i][j] - mb[i][j]) = Mod(pl.database[i][j])
        /\ Mod(fc[j] - ca[j] - cb[j]) = Mod(pl.fingerprint[j])
        /\ Mod(ts[i][j] + tc[i][j]) = Mod((ma[i][j] + mb[i][j]) * (ca[j] + cb[j]))
TermOf(p, dm, dc, fm, fc, triplets, i, j) ==
    Mod(ProductFactor(p) * fc[j] * dc[i][j] - fc[j] * dm[i][j] - dc[i][j] * fm[j]
        + triplets[i][j])
TermsOf(p, dm, dc, fm, fc, triplets, i) ==
    [j \in Cols |-> TermOf(p, dm, dc, fm, fc, triplets, i, j)]
ProductsOf(pl, i) == [j \in Cols |-> pl.fingerprint[j] * pl.database[i][j]]
SumOf(f) == SumFunctionOnSet(f, Cols)

\* The access points can be summed over.
LEMMA ColsFinite == IsFiniteSet(Cols) /\ Cardinality(Cols) = N
<1>1. 0 \in Int /\ N - 1 \in Int
  BY RingType
<1>2. IsFiniteSet(0 .. N - 1)
  BY <1>1, FS_Interval
<1>3. Cardinality(0 .. N - 1) = IF 0 > N - 1 THEN 0 ELSE (N - 1) - 0 + 1
  BY ONLY <1>1, FS_Interval
<1>4. (IF 0 > N - 1 THEN 0 ELSE (N - 1) - 0 + 1) = N
  BY RingType
<1> QED  BY <1>2, <1>3, <1>4 DEF Cols

\* Sums of naturals are naturals.
LEMMA SumNat ==
    ASSUME NEW A, IsFiniteSet(A), NEW f, \A x \in A : f[x] \in Nat
    PROVE  SumFunctionOnSet(f, A) \in Nat
<1> DEFINE P == {T \in SUBSET A : SumFunctionOnSet(f, T) \in Nat}
<1>1. {} \in P
  BY SumOfNone
<1>2. ASSUME NEW T \in SUBSET A, NEW x \in A, T \in P, x \notin T
      PROVE  T \cup {x} \in P
  <2>1. IsFiniteSet(T)
    BY FS_Subset
  <2>2. \A y \in T \cup {x} : f[y] \in Int
    OBVIOUS
  <2>3. SumFunctionOnSet(f, T \cup {x}) = f[x] + SumFunctionOnSet(f, T)
    BY <1>2, <2>1, <2>2, SumAdd
  <2> QED  BY <1>2, <2>3
<1> HIDE DEF P
<1>3. A \in P
  BY <1>1, <1>2, FiniteInduction
<1> QED  BY <1>3 DEF P

\* The signal strengths are naturals.
LEMMA PlainInt ==
    ASSUME NEW pl \in Inputs
    PROVE  /\ \A i \in Rows, j \in Cols : pl.database[i][j] \in Nat
           /\ \A j \in Cols : pl.fingerprint[j] \in Nat
           /\ \A i \in Rows : DOMAIN pl.database[i] = Cols
           /\ DOMAIN pl.fingerprint = Cols
BY InputType

\* The terms of mult are numbers.
LEMMA TermType ==
    ASSUME NEW p, NEW dm \in [Rows -> [Cols -> Element]],
           NEW dc \in [Rows -> [Cols -> Element]], NEW fm \in [Cols -> Element],
           NEW fc \in [Cols -> Element], NEW t \in [Rows -> [Cols -> Element]],
           NEW i \in Rows, NEW j \in Cols
    PROVE  TermOf(p, dm, dc, fm, fc, t, i, j) \in Int
<1>1. PICK A \in Int, B \in Int, x \in Int, y \in Int, s \in Int :
         A = fc[j] /\ B = dc[i][j] /\ x = fm[j] /\ y = dm[i][j] /\ s = t[i][j]
  BY ElementInt
<1>2. PICK q \in Int : q = ProductFactor(p)
  BY DEF ProductFactor
<1>3. PICK z \in Int : z = q * A * B - A * y - B * x + s
  OBVIOUS
<1>4. TermOf(p, dm, dc, fm, fc, t, i, j) = Mod(z)
  BY ONLY <1>1, <1>2, <1>3 DEF TermOf
<1> QED  BY <1>4, ModType

\* What mult opens for a row: the sum of the terms and its random share.
DeltaSpelt(p, dm, dc, fm, fc, t, i, r) ==
    /\ DeltaOf(p, dm, dc, fm, fc, t, i, r) \in Element
    /\ SumOf(TermsOf(p, dm, dc, fm, fc, t, i)) \in Int
    /\ DeltaOf(p, dm, dc, fm, fc, t, i, r) =
          Mod(SumOf(TermsOf(p, dm, dc, fm, fc, t, i)) + r)

LEMMA DeltaIsSpelt ==
    ASSUME NEW p, NEW dm \in [Rows -> [Cols -> Element]],
           NEW dc \in [Rows -> [Cols -> Element]], NEW fm \in [Cols -> Element],
           NEW fc \in [Cols -> Element], NEW t \in [Rows -> [Cols -> Element]],
           NEW i \in Rows, NEW r \in Element
    PROVE  DeltaSpelt(p, dm, dc, fm, fc, t, i, r)
<1>1. \A j \in Cols : TermsOf(p, dm, dc, fm, fc, t, i)[j] \in Int
  BY TermType DEF TermsOf
<1>2. PICK s \in Int : s = SumOf(TermsOf(p, dm, dc, fm, fc, t, i))
  BY <1>1, ColsFinite, SumStep DEF SumOf
<1>3. DeltaOf(p, dm, dc, fm, fc, t, i, r) =
         Mod(SumFunction(TermsOf(p, dm, dc, fm, fc, t, i)) + r)
  BY DEF DeltaOf, TermsOf, TermOf
<1>4. SumFunction(TermsOf(p, dm, dc, fm, fc, t, i)) = s
  <2>1. DOMAIN TermsOf(p, dm, dc, fm, fc, t, i) = Cols
    BY DEF TermsOf
  <2> QED  BY <1>2, <2>1, SumOverDomain DEF SumOf
<1>5. s + r \in Int
  BY ElementInt
<1>6. Mod(s + r) \in Element
  BY <1>5, ModType
<1> QED  BY <1>2, <1>3, <1>4, <1>6 DEF DeltaSpelt

\* The same, its parts in view.
LEMMA DeltaIs ==
    ASSUME NEW p, NEW dm \in [Rows -> [Cols -> Element]],
           NEW dc \in [Rows -> [Cols -> Element]], NEW fm \in [Cols -> Element],
           NEW fc \in [Cols -> Element], NEW t \in [Rows -> [Cols -> Element]],
           NEW i \in Rows, NEW r \in Element
    PROVE  /\ DeltaOf(p, dm, dc, fm, fc, t, i, r) \in Element
           /\ SumOf(TermsOf(p, dm, dc, fm, fc, t, i)) \in Int
           /\ DeltaOf(p, dm, dc, fm, fc, t, i, r) =
                 Mod(SumOf(TermsOf(p, dm, dc, fm, fc, t, i)) + r)
<1>1. DeltaSpelt(p, dm, dc, fm, fc, t, i, r)
  BY DeltaIsSpelt
<1> QED  BY ONLY <1>1 DEF DeltaSpelt

ProductOpens(ma, mb, ca, cb, dc, fc, ts, tc, pl, i, r, o) ==
    Mod(DeltaOf("server", ma, dc, ca, fc, ts, i, r)
        + DeltaOf("client", mb, dc, cb, fc, tc, i, o) - r - o)
       = Mod(SumOf(ProductsOf(pl, i)))

\* The opened sums of both parties open the scalar product of a row.
LEMMA RowProduct ==
    ASSUME NEW ma \in [Rows -> [Cols -> Element]], NEW ca \in [Cols -> Element],
           NEW mb \in [Rows -> [Cols -> Element]], NEW cb \in [Cols -> Element],
           NEW dc \in [Rows -> [Cols -> Element]], NEW fc \in [Cols -> Element],
           NEW ts \in [Rows -> [Cols -> Element]], NEW tc \in [Rows -> [Cols -> Element]],
           NEW pl \in Inputs, NEW i \in Rows, NEW r \in Element, NEW o \in Element,
           RowOpens(ma, mb, ca, cb, dc, fc, ts, tc, pl, i)
    PROVE  /\ SumOf(ProductsOf(pl, i)) \in Int
           /\ ProductOpens(ma, mb, ca, cb, dc, fc, ts, tc, pl, i, r, o)
<1> DEFINE f == TermsOf("server", ma, dc, ca, fc, ts, i)
           g == TermsOf("client", mb, dc, cb, fc, tc, i)
           h == [j \in Cols |-> f[j] + g[j]]
<1>1. \A j \in Cols : f[j] \in Int /\ g[j] \in Int /\ h[j] = f[j] + g[j] /\ h[j] \in Int
  <2>1. \A j \in Cols : f[j] \in Int /\ g[j] \in Int
    BY TermType DEF TermsOf
  <2> QED  BY <2>1
<1>2. SumOf(f) \in Int /\ SumOf(g) \in Int /\ SumOf(h) = SumOf(f) + SumOf(g)
  <2>1. SumOf(f) \in Int /\ SumOf(g) \in Int
    BY <1>1, ColsFinite, SumStep DEF SumOf
  <2>2. SumOf(h) = SumOf(f) + SumOf(g)
    <3> HIDE DEF f, g, h
    <3> QED  BY <1>1, ColsFinite, SumPlus DEF SumOf
  <2> QED  BY <2>1, <2>2
<1>3. \A j \in Cols : /\ ProductsOf(pl, i)[j] \in Int
                      /\ Mod(h[j]) = Mod(ProductsOf(pl, i)[j])
  <2> SUFFICES ASSUME NEW j \in Cols
               PROVE  /\ ProductsOf(pl, i)[j] \in Int
                      /\ Mod(h[j]) = Mod(ProductsOf(pl, i)[j])
    OBVIOUS
  <2>1. PICK a \in Int, b \in Int : a = pl.fingerprint[j] /\ b = pl.database[i][j]
    <3>1. pl.fingerprint[j] \in Nat /\ pl.database[i][j] \in Nat
      BY ONLY PlainInt, pl \in Inputs, i \in Rows, j \in Cols
    <3> QED  BY ONLY <3>1
  <2>2. PICK A \in Int, B \in Int, x \in Int, y \in Int, v \in Int, w \in Int, s \in Int,
             t \in Int :
           /\ A = fc[j] /\ B = dc[i][j] /\ x = ca[j] /\ y = ma[i][j]
           /\ v = cb[j] /\ w = mb[i][j] /\ s = ts[i][j] /\ t = tc[i][j]
    <3>1. /\ fc[j] \in Element /\ dc[i][j] \in Element /\ ca[j] \in Element
          /\ ma[i][j] \in Element /\ cb[j] \in Element /\ mb[i][j] \in Element
          /\ ts[i][j] \in Element /\ tc[i][j] \in Element
      OBVIOUS
    <3>2. Element \subseteq Int
      BY ElementInt
    <3> QED  BY ONLY <3>1, <3>2
  <2>3. /\ Mod(A - x - v) = Mod(a) /\ Mod(B - y - w) = Mod(b)
        /\ Mod(s + t) = Mod((y + w) * (x + v))
    BY ONLY <2>1, <2>2, RowOpens(ma, mb, ca, cb, dc, fc, ts, tc, pl, i), j \in Cols
       DEF RowOpens
  <2>4. Mod(Mod(1 * A * B - A * y - B * x + s) + Mod(0 * A * B - A * w - B * v + t))
           = Mod(a * b)
    BY ONLY <2>3, CellProduct, A \in Int, B \in Int, x \in Int, y \in Int, v \in Int,
            w \in Int, s \in Int, t \in Int, a \in Int, b \in Int
  <2>5. f[j] = Mod(1 * A * B - A * y - B * x + s)
    BY ONLY <2>2, j \in Cols DEF TermsOf, TermOf, ProductFactor
  <2>6. g[j] = Mod(0 * A * B - A * w - B * v + t)
    BY ONLY <2>2, j \in Cols DEF TermsOf, TermOf, ProductFactor
  <2>7. h[j] = f[j] + g[j]
    OBVIOUS
  <2>8. ProductsOf(pl, i)[j] = a * b /\ a * b \in Int
    BY <2>1 DEF ProductsOf
  <2> HIDE DEF f, g, h
  <2> QED  BY ONLY <2>4, <2>5, <2>6, <2>7, <2>8
<1>4. PICK P \in Int : P = SumOf(ProductsOf(pl, i))
  BY <1>3, ColsFinite, SumStep DEF SumOf
<1>5. Mod(SumOf(h)) = Mod(P)
  <2> HIDE DEF h
  <2>1. \A j \in Cols : h[j] \in Int /\ ProductsOf(pl, i)[j] \in Int
                        /\ Mod(h[j]) = Mod(ProductsOf(pl, i)[j])
    BY <1>1, <1>3
  <2> QED  BY <1>4, <2>1, ColsFinite, SumSame DEF SumOf
<1>6. PICK F \in Int, G \in Int, rr \in Int, oo \in Int :
         F = SumOf(f) /\ G = SumOf(g) /\ rr = r /\ oo = o
  BY <1>2, ElementInt
<1>7. /\ DeltaOf("server", ma, dc, ca, fc, ts, i, r) = Mod(F + rr)
      /\ DeltaOf("client", mb, dc, cb, fc, tc, i, o) = Mod(G + oo)
  <2>1. DeltaSpelt("server", ma, dc, ca, fc, ts, i, r)
    BY DeltaIsSpelt
  <2>2. DeltaSpelt("client", mb, dc, cb, fc, tc, i, o)
    BY DeltaIsSpelt
  <2> QED  BY ONLY <1>6, <2>1, <2>2 DEF DeltaSpelt
<1>8. Mod(Mod(F + rr) + Mod(G + oo) - rr - oo) = Mod(F + G)
  <2>1. PICK x \in Int, y \in Int : x = F + rr /\ y = G + oo
    OBVIOUS
  <2>2. PICK m \in Int, n \in Int : Mod(x) = x + m * Ring /\ Mod(y) = y + n * Ring
    BY ModIs
  <2>3. PICK k \in Int : k = m + n
    OBVIOUS
  <2>4. PICK u \in Int, v \in Int : u = m * Ring /\ v = n * Ring
    BY RingType
  <2>5. k * Ring = u + v
    <3>1. Ring \in Int
      BY RingType
    <3> QED  BY ONLY <2>3, <2>4, <3>1, k \in Int, m \in Int, n \in Int, SMTT(30)
  <2>6. PICK z \in Int : z = F + G
    OBVIOUS
  <2>7. Mod(x) + Mod(y) - rr - oo = z + k * Ring
    BY ONLY <2>1, <2>2, <2>4, <2>5, <2>6, F \in Int, G \in Int, rr \in Int, oo \in Int,
            x \in Int, y \in Int, z \in Int, u \in Int, v \in Int
  <2>8. Mod(z + k * Ring) = Mod(z)
    BY ModMultiple
  <2> QED  BY ONLY <2>1, <2>6, <2>7, <2>8
<1>9. F + G = SumOf(h)
  BY <1>2, <1>6
<1> HIDE DEF f, g, h
<1> QED  BY ONLY <1>4, <1>5, <1>6, <1>7, <1>8, <1>9 DEF ProductOpens

\* The Yao inputs of the two parties for a row, from what they share, differ by
\* the squared distance of the row modulo the ring.
DistanceIn(pl, i) ==
    SumFunction([j \in Cols |-> Square(pl.database[i][j] - pl.fingerprint[j])])

\* The sums of squares, and the distance they give with the scalar product.
LEMMA SquareSums ==
    ASSUME NEW pl \in Inputs, NEW i \in Rows
    PROVE  /\ SquareSum(pl.database[i]) \in Nat /\ SquareSum(pl.fingerprint) \in Nat
           /\ DistanceIn(pl, i) \in Int
           /\ DistanceIn(pl, i) = (SquareSum(pl.database[i]) + SquareSum(pl.fingerprint))
                                    - (SumOf(ProductsOf(pl, i)) + SumOf(ProductsOf(pl, i)))
<1>1. PICK x, y : x = pl.database[i] /\ y = pl.fingerprint
  OBVIOUS
<1>2. \A j \in Cols : x[j] \in Nat /\ y[j] \in Nat
  BY ONLY <1>1, PlainInt, pl \in Inputs, i \in Rows
<1>3. DOMAIN x = Cols /\ DOMAIN y = Cols
  BY ONLY <1>1, PlainInt, pl \in Inputs, i \in Rows
<1> DEFINE f == [j \in Cols |-> Square(x[j])]
           g == [j \in Cols |-> Square(y[j])]
           d == [j \in Cols |-> Square(x[j] - y[j])]
           p == [j \in Cols |-> x[j] * y[j]]
           t == Square(2^RSSBits)
<1>4. SquareSum(x) = SumOf(f) /\ SquareSum(y) = SumOf(g)
  <2>1. DOMAIN f = Cols /\ DOMAIN g = Cols
    OBVIOUS
  <2>2. SquareSum(x) = SumFunction(f) /\ SquareSum(y) = SumFunction(g)
    BY <1>3 DEF SquareSum
  <2> HIDE DEF f, g
  <2> QED  BY <2>1, <2>2, SumOverDomain DEF SumOf
<1>5. DistanceIn(pl, i) = SumOf(d)
  <2>1. DOMAIN d = Cols
    OBVIOUS
  <2>2. DistanceIn(pl, i) = SumFunction(d)
    BY <1>1 DEF DistanceIn
  <2> HIDE DEF d
  <2> QED  BY <2>1, <2>2, SumOverDomain DEF SumOf
<1>6. ProductsOf(pl, i) = [j \in Cols |-> y[j] * x[j]]
  BY <1>1 DEF ProductsOf
<1>7. SumOf(ProductsOf(pl, i)) = SumOf(p)
  <2>1. \A j \in Cols : y[j] * x[j] = x[j] * y[j]
    BY <1>2
  <2>2. [j \in Cols |-> y[j] * x[j]] = p
    BY <2>1
  <2> HIDE DEF p
  <2> QED  BY ONLY <1>6, <2>2
<1>8. SumOf(d) = (SumOf(f) + SumOf(g)) - (SumOf(p) + SumOf(p))
  <2>1. \A j \in Cols : x[j] \in Int /\ y[j] \in Int
    BY <1>2
  <2> QED  BY ONLY <2>1, ColsFinite, SquaredDifferences DEF SumOf
<1>9. SumOf(f) \in Nat /\ SumOf(g) \in Nat
  <2>1. \A j \in Cols : f[j] \in Nat /\ g[j] \in Nat
    <3> SUFFICES ASSUME NEW j \in Cols PROVE f[j] \in Nat /\ g[j] \in Nat
      OBVIOUS
    <3>1. PICK a \in Nat, b \in Nat : a = x[j] /\ b = y[j]
      BY <1>2
    <3>2. a * a \in Nat /\ b * b \in Nat
      OBVIOUS
    <3> QED  BY <3>1, <3>2 DEF Square
  <2> HIDE DEF f, g
  <2> QED  BY <2>1, ColsFinite, SumNat DEF SumOf
<1>10. SumOf(p) \in Int
  <2>1. \A j \in Cols : p[j] \in Int
    BY <1>2
  <2> HIDE DEF p
  <2> QED  BY <2>1, ColsFinite, SumStep DEF SumOf
<1> HIDE DEF f, g, d, p
<1>11. PICK F \in Nat, G \in Nat, P \in Int : F = SumOf(f) /\ G = SumOf(g) /\ P = SumOf(p)
  BY <1>9, <1>10
<1>12. (F + G) - (P + P) \in Int
  OBVIOUS
<1> QED  BY ONLY <1>1, <1>4, <1>5, <1>7, <1>8, <1>11, <1>12

-----------------------------------------------------------------------------
(* What the environments of both parties say together *)

\* What a party holds once it has drawn its masks.
LEMMA VectorsTyped ==
    ASSUME NEW p \in Party, NEW k, NEW e, NEW pl, Holds(p, k, e, pl), k > 9
    PROVE  /\ e.database \in [Rows -> [Cols -> ShareType]]
           /\ e.fingerprint \in [Cols -> ShareType]
           /\ Masks(e.database) \in [Rows -> [Cols -> Element]]
           /\ Capitals(e.database) \in [Rows -> [Cols -> Element]]
           /\ VectorMasks(e.fingerprint, Cols) \in [Cols -> Element]
           /\ VectorCapitals(e.fingerprint, Cols) \in [Cols -> Element]
<1>1. /\ e.database \in [Rows -> [Cols -> ShareType]]
      /\ e.fingerprint \in [Cols -> ShareType]
  BY DEF Holds, HoldsMasks
<1> QED  BY ONLY <1>1, MaskTypes, VectorTypes

\* The two parties.
LEMMA OtherIs ==
    /\ "server" \in Party /\ "client" \in Party /\ Party = {"server", "client"}
    /\ Other("server") = "client" /\ Other("client") = "server"
BY DEF Party, Other

\* The triples of the two parties multiply.
LEMMA TripletsIn ==
    ASSUME NEW s, NEW c, NEW pl, NEW ks \in Nat, NEW kc \in Nat, ks > 16, kc > 16,
           Holds("server", ks, s, pl), Holds("client", kc, c, pl),
           Agrees("server", ks, s, c), Agrees("client", kc, c, s),
           NEW i \in Rows, NEW j \in Cols
    PROVE  /\ s.triplets \in [Rows -> [Cols -> Element]]
           /\ c.triplets \in [Rows -> [Cols -> Element]]
           /\ Mod(s.triplets[i][j] + c.triplets[i][j]) =
                 Mod((Masks(s.database)[i][j] + Masks(c.database)[i][j])
                     * (VectorMasks(s.fingerprint, Cols)[j]
                        + VectorMasks(c.fingerprint, Cols)[j]))
<1>1. PICK ma \in [Rows -> [Cols -> Element]], ca \in [Cols -> Element],
           mb \in [Rows -> [Cols -> Element]], cb \in [Cols -> Element] :
         /\ ma = Masks(s.database) /\ ca = VectorMasks(s.fingerprint, Cols)
         /\ mb = Masks(c.database) /\ cb = VectorMasks(c.fingerprint, Cols)
  <2>1. ks > 9 /\ kc > 9
    OBVIOUS
  <2> QED  BY <2>1, VectorsTyped, OtherIs
<1>2. /\ s.received \in [0 .. NumBaseBits - 1 -> WireValue]
      /\ c.received \in [0 .. NumBaseBits - 1 -> WireValue]
      /\ s.keys \in [0 .. NumBaseBits - 1 -> [0 .. 1 -> WireValue]]
      /\ c.keys \in [0 .. NumBaseBits - 1 -> [0 .. 1 -> WireValue]]
      /\ s.SenderOTsCor = FirstKeys(s.keys) /\ c.SenderOTsCor = FirstKeys(c.keys)
      /\ s.ReceiverOTs \in [OTs -> WireValue] /\ c.ReceiverOTs \in [OTs -> WireValue]
      /\ s.triplets = TripletsOf(ma, ca, s.ReceiverOTs, s.SenderOTsCor)
      /\ c.triplets = TripletsOf(mb, cb, c.ReceiverOTs, c.SenderOTsCor)
  <2>1. HoldsKeys("server", ks, s) /\ HoldsKeys("client", kc, c)
    BY DEF Holds
  <2> QED  BY <1>1, <2>1 DEF HoldsKeys, AtSendU, AtRecvU, AtSendCor, AtRecvCor
<1>3. /\ \A b \in 0 .. NumBaseBits - 1 : s.keys[b][ChoiceOf(cb)[b]] = c.received[b]
      /\ \A b \in 0 .. NumBaseBits - 1 : c.keys[b][ChoiceOf(ca)[b]] = s.received[b]
      /\ s.ReceiverOTs = ResultOf(s.received, ChoiceOf(ca), CorOf(c.keys, mb))
      /\ c.ReceiverOTs = ResultOf(c.received, ChoiceOf(cb), CorOf(s.keys, ma))
  BY <1>1 DEF Agrees, AtRecvU, AtRecvCor
<1>4. Correlates(s.ReceiverOTs, c.SenderOTsCor, ca, mb)
  BY <1>2, <1>3, ResultCorrelates
<1>5. Correlates(c.ReceiverOTs, s.SenderOTsCor, cb, ma)
  BY <1>2, <1>3, ResultCorrelates
<1>6. PICK ra \in [OTs -> WireValue], ka \in [OTs -> WireValue],
           rb \in [OTs -> WireValue], kb \in [OTs -> WireValue] :
         /\ ra = s.ReceiverOTs /\ ka = s.SenderOTsCor
         /\ rb = c.ReceiverOTs /\ kb = c.SenderOTsCor
  <2>1. FirstKeys(s.keys) \in [OTs -> WireValue] /\ FirstKeys(c.keys) \in [OTs -> WireValue]
    BY ONLY <1>2, CorType, ma \in [Rows -> [Cols -> Element]]
  <2> QED  BY ONLY <1>2, <2>1
<1>7. TripletsMatch(ma, ca, ra, ka, mb, cb, rb, kb, i, j)
  <2>1. Correlates(ra, kb, ca, mb) /\ Correlates(rb, ka, cb, ma)
    BY <1>4, <1>5, <1>6
  <2> QED  BY ONLY <2>1, TripletsProduct, i \in Rows, j \in Cols,
              ma \in [Rows -> [Cols -> Element]], ca \in [Cols -> Element],
              mb \in [Rows -> [Cols -> Element]], cb \in [Cols -> Element],
              ra \in [OTs -> WireValue], ka \in [OTs -> WireValue],
              rb \in [OTs -> WireValue], kb \in [OTs -> WireValue]
<1>8. /\ s.triplets = TripletsOf(ma, ca, ra, ka)
      /\ c.triplets = TripletsOf(mb, cb, rb, kb)
  BY <1>2, <1>6
<1>9. /\ TripletsOf(ma, ca, ra, ka) \in [Rows -> [Cols -> Element]]
      /\ TripletsOf(mb, cb, rb, kb) \in [Rows -> [Cols -> Element]]
  BY TripletIs DEF TripletsOf
<1>10. /\ TripletsOf(ma, ca, ra, ka)[i][j] = TripletOf(ma, ca, ra, ka, i, j)
       /\ TripletsOf(mb, cb, rb, kb)[i][j] = TripletOf(mb, cb, rb, kb, i, j)
  BY DEF TripletsOf
<1> QED  BY ONLY <1>1, <1>7, <1>8, <1>9, <1>10 DEF TripletsMatch

\* A share that was set to a value opens to it.
LEMMA ShareOpens ==
    ASSUME NEW v \in Int, NEW d \in Int, NEW g \in Int
    PROVE  Mod(Mod(v + d + g) - d - g) = Mod(v)
<1>1. PICK x \in Int : x = v + d + g
  OBVIOUS
<1>2. PICK k \in Int : Mod(x) = x + k * Ring
  BY ModIs
<1>3. PICK u \in Int : u = k * Ring
  BY RingType
<1>4. Mod(x) - d - g = v + k * Ring
  BY <1>1, <1>2, <1>3
<1>5. Mod(v + k * Ring) = Mod(v)
  BY ModMultiple
<1> QED  BY ONLY <1>1, <1>4, <1>5

\* The shares of the database open in both environments.
LEMMA DatabaseOpens ==
    ASSUME NEW s, NEW c, NEW pl \in Inputs, NEW ks \in Nat, NEW kc \in Nat, ks > 17, kc > 17,
           Holds("server", ks, s, pl), Holds("client", kc, c, pl),
           Agrees("server", ks, s, c), Agrees("client", kc, c, s), NEW i \in Rows
    PROVE  /\ Capitals(s.database) = Capitals(c.database)
           /\ \A j \in Cols :
                 Mod(Capitals(s.database)[i][j] - Masks(s.database)[i][j]
                     - Masks(c.database)[i][j]) = Mod(pl.database[i][j])
           /\ s.dSquareSum \in [Rows -> ShareType] /\ c.dSquareSum \in [Rows -> ShareType]
           /\ s.dSquareSum[i].D = c.dSquareSum[i].D
           /\ Mod(s.dSquareSum[i].D - s.dSquareSum[i].d - c.dSquareSum[i].d) =
                 Mod(SquareSum(pl.database[i]))
<1>1. HoldsShares("server", ks, s, pl) /\ HoldsShares("client", kc, c, pl)
  BY DEF Holds
<1>2. /\ s.dSquareSum \in [Rows -> ShareType] /\ c.dSquareSum \in [Rows -> ShareType]
      /\ Capitals(s.database) = CapitalsOf(pl.database, Masks(s.database), s.databaseSeed)
      /\ VectorCapitals(s.dSquareSum, Rows) =
            SumsOf(pl.database, VectorMasks(s.dSquareSum, Rows), s.databaseSquaresSeed)
      /\ VectorMasks(c.dSquareSum, Rows) = [x \in Rows |-> PRG(c.databaseSquaresSeed)]
  BY <1>1 DEF HoldsShares
<1>3. /\ Capitals(c.database) = Capitals(s.database)
      /\ VectorCapitals(c.dSquareSum, Rows) = VectorCapitals(s.dSquareSum, Rows)
      /\ c.databaseSeed = s.databaseSeed /\ c.databaseSquaresSeed = s.databaseSquaresSeed
  BY OtherIs DEF Agrees, OwnSeed, OwnSquaresSeed
<1>4. /\ s.databaseSeed \in Byte /\ s.databaseSquaresSeed \in Byte
  BY DEF Holds, EnvType
<1>5. Masks(c.database) = SeedMasks(s.databaseSeed)
  BY <1>3, OtherIs DEF Holds, HoldsMasks
<1>6. /\ Masks(s.database) \in [Rows -> [Cols -> Element]]
  <2>1. ks > 9
    OBVIOUS
  <2> QED  BY <2>1, VectorsTyped, OtherIs
<1>7. ASSUME NEW j \in Cols
      PROVE  Mod(Capitals(s.database)[i][j] - Masks(s.database)[i][j]
                 - Masks(c.database)[i][j]) = Mod(pl.database[i][j])
  <2>1. Masks(c.database)[i][j] = PRG(s.databaseSeed + (i * N + j))
    BY <1>5 DEF SeedMasks
  <2>2. PICK v \in Int, d \in Int, g \in Int :
           /\ v = pl.database[i][j] /\ d = Masks(s.database)[i][j]
           /\ g = PRG(s.databaseSeed + (i * N + j))
    <3>1. pl.database[i][j] \in Int
      BY PlainInt
    <3>2. Masks(s.database)[i][j] \in Element
      BY <1>6
    <3>3. PRG(s.databaseSeed + (i * N + j)) \in Element
      BY <1>4, PRGType
    <3> QED  BY <3>1, <3>2, <3>3, ElementInt
  <2>3. Capitals(s.database)[i][j] = Mod(v + d + g)
    BY ONLY <1>2, <2>2, i \in Rows, j \in Cols DEF CapitalsOf
  <2>4. Mod(Mod(v + d + g) - d - g) = Mod(v)
    BY ShareOpens
  <2> QED  BY ONLY <2>1, <2>2, <2>3, <2>4
<1>8. s.dSquareSum[i].D = c.dSquareSum[i].D
  BY <1>3 DEF VectorCapitals
<1>9. Mod(s.dSquareSum[i].D - s.dSquareSum[i].d - c.dSquareSum[i].d) =
         Mod(SquareSum(pl.database[i]))
  <2>1. c.dSquareSum[i].d = PRG(s.databaseSquaresSeed)
    BY <1>2, <1>3 DEF VectorMasks
  <2>2. PICK v \in Int, d \in Int, g \in Int :
           /\ v = SquareSum(pl.database[i]) /\ d = s.dSquareSum[i].d
           /\ g = PRG(s.databaseSquaresSeed)
    <3>1. SquareSum(pl.database[i]) \in Int
      BY SquareSums
    <3>2. s.dSquareSum[i].d \in Element
      BY <1>2 DEF ShareType
    <3>3. PRG(s.databaseSquaresSeed) \in Element
      BY <1>4, PRGType
    <3> QED  BY <3>1, <3>2, <3>3, ElementInt
  <2>3. s.dSquareSum[i].D = Mod(v + d + g)
    <3>1. /\ VectorCapitals(s.dSquareSum, Rows)[i] = s.dSquareSum[i].D
          /\ VectorMasks(s.dSquareSum, Rows)[i] = d
      BY ONLY <2>2, i \in Rows DEF VectorCapitals, VectorMasks
    <3> QED  BY ONLY <1>2, <2>2, <3>1, i \in Rows DEF SumsOf
  <2>4. Mod(Mod(v + d + g) - d - g) = Mod(v)
    BY ShareOpens
  <2> QED  BY ONLY <2>1, <2>2, <2>3, <2>4
<1> QED  BY ONLY <1>2, <1>3, <1>7, <1>8, <1>9

\* The shares of the fingerprint open in both environments.
LEMMA FingerprintOpens ==
    ASSUME NEW s, NEW c, NEW pl \in Inputs, NEW ks \in Nat, NEW kc \in Nat, ks > 18, kc > 18,
           Holds("server", ks, s, pl), Holds("client", kc, c, pl),
           Agrees("server", ks, s, c), Agrees("client", kc, c, s)
    PROVE  /\ VectorCapitals(s.fingerprint, Cols) = VectorCapitals(c.fingerprint, Cols)
           /\ \A j \in Cols :
                 Mod(VectorCapitals(s.fingerprint, Cols)[j] - VectorMasks(s.fingerprint, Cols)[j]
                     - VectorMasks(c.fingerprint, Cols)[j]) = Mod(pl.fingerprint[j])
           /\ s.fingerprintSum \in ShareType /\ c.fingerprintSum \in ShareType
           /\ s.fingerprintSum.D = c.fingerprintSum.D
           /\ Mod(s.fingerprintSum.D - s.fingerprintSum.d - c.fingerprintSum.d) =
                 Mod(SquareSum(pl.fingerprint))
<1>1. HoldsShares("server", ks, s, pl) /\ HoldsShares("client", kc, c, pl)
  BY DEF Holds
<1>2. /\ s.fingerprintSum \in ShareType /\ c.fingerprintSum \in ShareType
      /\ VectorCapitals(c.fingerprint, Cols) =
            ColumnsOf(pl.fingerprint, VectorMasks(c.fingerprint, Cols), c.fingerprintSeed)
      /\ c.fingerprintSum.D = Mod(SquareSum(pl.fingerprint) + c.fingerprintSum.d
                                  + PRG(c.fingerprintSquaresSeed))
      /\ s.fingerprintSum.d = PRG(s.fingerprintSquaresSeed)
  BY <1>1 DEF HoldsShares
<1>3. /\ VectorCapitals(s.fingerprint, Cols) = VectorCapitals(c.fingerprint, Cols)
      /\ s.fingerprintSum.D = c.fingerprintSum.D
      /\ s.fingerprintSeed = c.fingerprintSeed
      /\ s.fingerprintSquaresSeed = c.fingerprintSquaresSeed
  BY OtherIs DEF Agrees, OwnSeed, OwnSquaresSeed
<1>4. /\ c.fingerprintSeed \in Byte /\ c.fingerprintSquaresSeed \in Byte
  BY DEF Holds, EnvType
<1>5. VectorMasks(s.fingerprint, Cols) = SeedColumns(c.fingerprintSeed)
  BY <1>3, OtherIs DEF Holds, HoldsMasks
<1>6. VectorMasks(c.fingerprint, Cols) \in [Cols -> Element]
  <2>1. kc > 9
    OBVIOUS
  <2> QED  BY <2>1, VectorsTyped, OtherIs
<1>7. ASSUME NEW j \in Cols
      PROVE  Mod(VectorCapitals(s.fingerprint, Cols)[j] - VectorMasks(s.fingerprint, Cols)[j]
                 - VectorMasks(c.fingerprint, Cols)[j]) = Mod(pl.fingerprint[j])
  <2>1. VectorMasks(s.fingerprint, Cols)[j] = PRG(c.fingerprintSeed + j)
    BY <1>5 DEF SeedColumns
  <2>2. PICK v \in Int, d \in Int, g \in Int :
           /\ v = pl.fingerprint[j] /\ d = VectorMasks(c.fingerprint, Cols)[j]
           /\ g = PRG(c.fingerprintSeed + j)
    <3>1. pl.fingerprint[j] \in Int
      BY PlainInt
    <3>2. VectorMasks(c.fingerprint, Cols)[j] \in Element
      BY <1>6
    <3>3. PRG(c.fingerprintSeed + j) \in Element
      BY <1>4, PRGType
    <3> QED  BY <3>1, <3>2, <3>3, ElementInt
  <2>3. VectorCapitals(c.fingerprint, Cols)[j] = Mod(v + d + g)
    BY ONLY <1>2, <2>2, j \in Cols DEF ColumnsOf
  <2>4. Mod(Mod(v + d + g) - d - g) = Mod(v)
    BY ShareOpens
  <2>5. Mod(v + d + g) - g - d = Mod(v + d + g) - d - g
    <3>1. v + d + g \in Int
      OBVIOUS
    <3>2. PICK x \in Int : x = Mod(v + d + g)
      BY <3>1, ModType
    <3> QED  BY <3>2
  <2> QED  BY ONLY <1>3, <2>1, <2>2, <2>3, <2>4, <2>5
<1>8. Mod(s.fingerprintSum.D - s.fingerprintSum.d - c.fingerprintSum.d) =
         Mod(SquareSum(pl.fingerprint))
  <2>1. PICK v \in Int, d \in Int, g \in Int :
           /\ v = SquareSum(pl.fingerprint) /\ d = c.fingerprintSum.d
           /\ g = PRG(c.fingerprintSquaresSeed)
    <3>1. SquareSum(pl.fingerprint) \in Int
      <4>1. 0 \in Rows
        BY RingType DEF Rows
      <4> QED  BY <4>1, SquareSums
    <3>2. c.fingerprintSum.d \in Element
      BY <1>2 DEF ShareType
    <3>3. PRG(c.fingerprintSquaresSeed) \in Element
      BY <1>4, PRGType
    <3> QED  BY <3>1, <3>2, <3>3, ElementInt
  <2>2. s.fingerprintSum.D = Mod(v + d + g) /\ s.fingerprintSum.d = g
    BY <1>2, <1>3, <2>1
  <2>3. Mod(Mod(v + d + g) - d - g) = Mod(v)
    BY ShareOpens
  <2>4. Mod(v + d + g) - g - d = Mod(v + d + g) - d - g
    <3>1. v + d + g \in Int
      OBVIOUS
    <3>2. PICK x \in Int : x = Mod(v + d + g)
      BY <3>1, ModType
    <3> QED  BY <3>2
  <2> QED  BY ONLY <2>1, <2>2, <2>3, <2>4
<1> QED  BY ONLY <1>2, <1>3, <1>7, <1>8

\* The delta a party opened for row i is the one its shares give.
Opened(p, e, i) ==
    /\ e.multShares[i] \in Element /\ e.multDeltas[i] \in Element
    /\ e.multDeltas[i] = DeltaOf(p, Masks(e.database), Capitals(e.database),
                                 VectorMasks(e.fingerprint, Cols),
                                 VectorCapitals(e.fingerprint, Cols), e.triplets, i,
                                 e.multShares[i])

\* What a party has opened for a row.
LEMMA DeltasIn ==
    ASSUME NEW p \in Party, NEW k \in Nat, k > 19, NEW e, NEW pl, Holds(p, k, e, pl),
           e.triplets \in [Rows -> [Cols -> Element]], NEW i \in Rows
    PROVE  Opened(p, e, i)
<1>1. /\ e.multShares \in [Rows -> Element]
      /\ e.multDeltas = DeltasOf(p, Masks(e.database), Capitals(e.database),
                                 VectorMasks(e.fingerprint, Cols),
                                 VectorCapitals(e.fingerprint, Cols), e.triplets, e.multShares)
  BY DEF Holds, HoldsResults
<1>2. e.multDeltas[i] = DeltaOf(p, Masks(e.database), Capitals(e.database),
                                VectorMasks(e.fingerprint, Cols),
                                VectorCapitals(e.fingerprint, Cols), e.triplets, i,
                                e.multShares[i])
  BY <1>1 DEF DeltasOf
<1>3. e.multShares[i] \in Element
  BY <1>1
<1>4. /\ Masks(e.database) \in [Rows -> [Cols -> Element]]
      /\ Capitals(e.database) \in [Rows -> [Cols -> Element]]
      /\ VectorMasks(e.fingerprint, Cols) \in [Cols -> Element]
      /\ VectorCapitals(e.fingerprint, Cols) \in [Cols -> Element]
  <2>1. k > 9
    OBVIOUS
  <2> QED  BY ONLY <2>1, VectorsTyped, Holds(p, k, e, pl), p \in Party
<1>5. e.multDeltas[i] \in Element
  BY ONLY <1>2, <1>3, <1>4, DeltaIs, e.triplets \in [Rows -> [Cols -> Element]], i \in Rows
<1> QED  BY ONLY <1>2, <1>3, <1>5 DEF Opened

\* The Yao inputs of a row differ by its squared distance, modulo the ring.
LEMMA RowDistance ==
    ASSUME NEW s, NEW c, NEW pl \in Inputs, NEW ks \in Nat, NEW kc \in Nat, ks > 20, kc > 20,
           Holds("server", ks, s, pl), Holds("client", kc, c, pl),
           Agrees("server", ks, s, c), Agrees("client", kc, c, s), NEW i \in Rows
    PROVE  Mod(YaoShare("server", s.distances[i]) - YaoShare("client", c.distances[i])) =
              Mod(DistanceIn(pl, i))
<1>1. /\ s.triplets \in [Rows -> [Cols -> Element]] /\ c.triplets \in [Rows -> [Cols -> Element]]
      /\ \A j \in Cols :
            Mod(s.triplets[i][j] + c.triplets[i][j]) =
                 Mod((Masks(s.database)[i][j] + Masks(c.database)[i][j])
                     * (VectorMasks(s.fingerprint, Cols)[j]
                        + VectorMasks(c.fingerprint, Cols)[j]))
  <2>1. ks > 16 /\ kc > 16 /\ 0 \in Cols
    BY RingType DEF Cols
  <2> QED  BY <2>1, TripletsIn
<1>2. /\ Capitals(s.database) = Capitals(c.database)
      /\ \A j \in Cols :
            Mod(Capitals(s.database)[i][j] - Masks(s.database)[i][j]
                - Masks(c.database)[i][j]) = Mod(pl.database[i][j])
      /\ s.dSquareSum \in [Rows -> ShareType] /\ c.dSquareSum \in [Rows -> ShareType]
      /\ s.dSquareSum[i].D = c.dSquareSum[i].D
      /\ Mod(s.dSquareSum[i].D - s.dSquareSum[i].d - c.dSquareSum[i].d) =
            Mod(SquareSum(pl.database[i]))
  <2>1. ks > 17 /\ kc > 17
    OBVIOUS
  <2> QED  BY <2>1, DatabaseOpens
<1>3. /\ VectorCapitals(s.fingerprint, Cols) = VectorCapitals(c.fingerprint, Cols)
      /\ \A j \in Cols :
            Mod(VectorCapitals(s.fingerprint, Cols)[j] - VectorMasks(s.fingerprint, Cols)[j]
                - VectorMasks(c.fingerprint, Cols)[j]) = Mod(pl.fingerprint[j])
      /\ s.fingerprintSum \in ShareType /\ c.fingerprintSum \in ShareType
      /\ s.fingerprintSum.D = c.fingerprintSum.D
      /\ Mod(s.fingerprintSum.D - s.fingerprintSum.d - c.fingerprintSum.d) =
            Mod(SquareSum(pl.fingerprint))
  <2>1. ks > 18 /\ kc > 18
    OBVIOUS
  <2> QED  BY <2>1, FingerprintOpens
<1>4. PICK ma \in [Rows -> [Cols -> Element]], ca \in [Cols -> Element],
           mb \in [Rows -> [Cols -> Element]], cb \in [Cols -> Element],
           dc \in [Rows -> [Cols -> Element]], fc \in [Cols -> Element] :
         /\ ma = Masks(s.database) /\ ca = VectorMasks(s.fingerprint, Cols)
         /\ mb = Masks(c.database) /\ cb = VectorMasks(c.fingerprint, Cols)
         /\ dc = Capitals(s.database) /\ fc = VectorCapitals(s.fingerprint, Cols)
  <2>1. ks > 9 /\ kc > 9
    OBVIOUS
  <2> QED  BY <2>1, VectorsTyped, OtherIs
<1>5. PICK ts \in [Rows -> [Cols -> Element]], tc \in [Rows -> [Cols -> Element]] :
         ts = s.triplets /\ tc = c.triplets
  BY <1>1
<1>6. RowOpens(ma, mb, ca, cb, dc, fc, ts, tc, pl, i)
  BY <1>1, <1>2, <1>3, <1>4, <1>5 DEF RowOpens
<1>7. PICK r \in Element, o \in Element, S1 \in Element, S2 \in Element :
         /\ r = s.multShares[i] /\ o = c.multShares[i]
         /\ S1 = s.multDeltas[i] /\ S2 = c.multDeltas[i]
         /\ S1 = DeltaOf("server", ma, dc, ca, fc, ts, i, r)
         /\ S2 = DeltaOf("client", mb, dc, cb, fc, tc, i, o)
  <2>1. ks > 19 /\ kc > 19
    OBVIOUS
  <2>2. /\ s.multShares[i] \in Element /\ s.multDeltas[i] \in Element
        /\ s.multDeltas[i] = DeltaOf("server", ma, dc, ca, fc, ts, i, s.multShares[i])
    <3>1. Opened("server", s, i)
      BY ONLY <1>1, <2>1, DeltasIn, Holds("server", ks, s, pl), OtherIs, i \in Rows, ks \in Nat
    <3> QED  BY ONLY <1>4, <1>5, <3>1 DEF Opened
  <2>3. /\ c.multShares[i] \in Element /\ c.multDeltas[i] \in Element
        /\ c.multDeltas[i] = DeltaOf("client", mb, dc, cb, fc, tc, i, c.multShares[i])
    <3>1. dc = Capitals(c.database) /\ fc = VectorCapitals(c.fingerprint, Cols)
      BY <1>2, <1>3, <1>4
    <3>2. Opened("client", c, i)
      BY ONLY <1>1, <2>1, DeltasIn, Holds("client", kc, c, pl), OtherIs, i \in Rows, kc \in Nat
    <3> QED  BY ONLY <1>4, <1>5, <3>1, <3>2 DEF Opened
  <2> QED  BY ONLY <2>2, <2>3
<1>8. PICK P \in Int : P = SumOf(ProductsOf(pl, i)) /\ Mod(S1 + S2 - r - o) = Mod(P)
  <2>1. /\ SumOf(ProductsOf(pl, i)) \in Int
        /\ ProductOpens(ma, mb, ca, cb, dc, fc, ts, tc, pl, i, r, o)
    BY <1>6, RowProduct
  <2> QED  BY ONLY <1>7, <2>1 DEF ProductOpens
<1>9. PICK E \in Int, e \in Int, f \in Int, F \in Int, g \in Int, h \in Int :
         /\ E = s.dSquareSum[i].D /\ e = s.dSquareSum[i].d /\ f = c.dSquareSum[i].d
         /\ F = s.fingerprintSum.D /\ g = s.fingerprintSum.d /\ h = c.fingerprintSum.d
  <2>1. /\ s.dSquareSum[i].D \in Element /\ s.dSquareSum[i].d \in Element
        /\ c.dSquareSum[i].d \in Element /\ s.fingerprintSum.D \in Element
        /\ s.fingerprintSum.d \in Element /\ c.fingerprintSum.d \in Element
    BY <1>2, <1>3 DEF ShareType
  <2>2. Element \subseteq Int
    BY ElementInt
  <2> QED  BY ONLY <2>1, <2>2
<1>10. PICK u \in Int, v \in Int :
         u = SquareSum(pl.database[i]) /\ v = SquareSum(pl.fingerprint)
         /\ DistanceIn(pl, i) = (u + v) - (P + P)
  BY <1>8, SquareSums
<1>11. PICK S \in Int, ri \in Int, oi \in Int : S = S1 + S2 /\ ri = r /\ oi = o
  BY ElementInt
<1>12. /\ Mod(E - e - f) = Mod(u) /\ Mod(F - g - h) = Mod(v) /\ Mod(S - ri - oi) = Mod(P)
  BY ONLY <1>2, <1>3, <1>8, <1>9, <1>10, <1>11
<1>13. DifferenceOpens(E, e, f, F, g, h, S, ri, oi, u, v, P)
  BY ONLY <1>12, DistanceOpened, E \in Int, e \in Int, f \in Int, F \in Int, g \in Int,
          h \in Int, S \in Int, ri \in Int, oi \in Int, u \in Int, v \in Int, P \in Int
<1>14. /\ s.distances[i] = DistanceOf(S1, S2, ri, s.dSquareSum[i], s.fingerprintSum)
       /\ c.distances[i] = DistanceOf(S2, S1, oi, c.dSquareSum[i], c.fingerprintSum)
  <2>1. /\ s.distances = DistancesOf(s.multDeltas, c.multDeltas, s.multShares, s.dSquareSum,
                                     s.fingerprintSum)
        /\ c.distances = DistancesOf(c.multDeltas, s.multDeltas, c.multShares, c.dSquareSum,
                                     c.fingerprintSum)
    BY DEF Agrees
  <2> QED  BY ONLY <1>7, <1>11, <2>1, i \in Rows DEF DistancesOf
<1>15. YaoShare("server", s.distances[i]) =
          Mod(Mod(Mod(E + F) - Mod(S + S)) - Mod(Mod(e + g) - Mod(ri + ri)))
  BY ONLY <1>9, <1>11, <1>14 DEF YaoShare, DistanceOf, Subtract, Add, Share
<1>16. YaoShare("client", c.distances[i]) = Mod(Mod(Mod(f + h) - Mod(oi + oi)))
  BY ONLY <1>9, <1>11, <1>14 DEF YaoShare, DistanceOf, Subtract, Add, Share
<1> QED  BY ONLY <1>10, <1>13, <1>15, <1>16 DEF DifferenceOpens

-----------------------------------------------------------------------------
(* The ring and the largest distance *)

\* The largest distance is a natural.
LEMMA LargestDistance == MaxDistance \in Nat /\ 2^RSSBits - 1 \in Nat
<1>1. PICK t \in Nat \ {0} : t = 2^RSSBits
  BY ParameterAssumption, PowerOfTwo
<1>2. PICK x \in Nat : x = t - 1
  OBVIOUS
<1>3. x * x * N \in Nat
  <2>1. PICK y \in Nat : y = x * x
    OBVIOUS
  <2>2. y * N \in Nat
    BY RingType
  <2> QED  BY <2>1, <2>2
<1> QED  BY <1>1, <1>2, <1>3 DEF MaxDistance, Square

\* A power of two is no less than its exponent.
LEMMA PowerExceeds == \A n \in Nat : 2^n >= n
<1> DEFINE S == {n \in Nat : 2^n >= n}
<1>1. 0 \in S
  <2>1. 2^0 \in Nat
    BY PowerOfTwo
  <2> QED  BY <2>1
<1>2. \A n \in Nat : n \in S => n + 1 \in S
  <2> SUFFICES ASSUME NEW n \in Nat, n \in S PROVE n + 1 \in S
    OBVIOUS
  <2>1. 2^n \in Nat \ {0} /\ 2^(n + 1) = 2 * 2^n
    BY PowerOfTwo
  <2>2. PICK a \in Nat \ {0} : a = 2^n
    BY <2>1
  <2>3. 2 * a >= n + 1
    BY <2>2
  <2> QED  BY <2>1, <2>2, <2>3
<1> HIDE DEF S
<1>3. \A n \in Nat : n \in S
  BY <1>1, <1>2, Induction
<1> QED  BY <1>3 DEF S

\* There is a least bit length for the largest distance, so LDash is one.
LEMMA BitLength == MaxDistance <= Ring
<1>1. PICK X \in Nat : X = MaxDistance
  BY LargestDistance
<1> DEFINE Fits(b) == 2^b >= X
           Least(b) == Fits(b) /\ \A c \in 0 .. X : c < b => 2^c < X
           S == {n \in Nat : (\E m \in 0 .. n : Fits(m)) => \E b \in 0 .. n : Least(b)}
<1>2. 0 \in S
  BY DEF S
<1>3. \A n \in Nat : n \in S => n + 1 \in S
  <2> SUFFICES ASSUME NEW n \in Nat, n \in S, \E m \in 0 .. n + 1 : Fits(m)
               PROVE  \E b \in 0 .. n + 1 : Least(b)
    OBVIOUS
  <2>1. CASE \E m \in 0 .. n : Fits(m)
    <3>1. PICK b \in 0 .. n : Least(b)
      BY <2>1
    <3> QED  BY <3>1
  <2>2. CASE ~ \E m \in 0 .. n : Fits(m)
    <3>1. Fits(n + 1)
      <4>1. PICK m \in 0 .. n + 1 : Fits(m)
        OBVIOUS
      <4>2. m = n + 1
        BY <2>2, <4>1
      <4> QED  BY <4>1, <4>2
    <3>2. ASSUME NEW c \in 0 .. X, c < n + 1 PROVE 2^c < X
      <4>1. c \in 0 .. n /\ 2^c \in Int
        BY <3>2, PowerOfTwo
      <4>2. ~ Fits(c)
        BY <2>2, <4>1
      <4> QED  BY <4>1, <4>2
    <3> QED  BY <3>1, <3>2
  <2> QED  BY <2>1, <2>2
<1>4. X \in S
  <2> HIDE DEF S
  <2> QED  BY <1>2, <1>3, Induction
<1>5. \E b \in 0 .. X : Least(b)
  <2>1. Fits(X)
    BY PowerExceeds
  <2> QED  BY <1>4, <2>1
<1>6. LDash = CHOOSE b \in 0 .. X : Least(b)
  BY ONLY <1>1 DEF LDash
<1>7. Least(LDash)
  <2> HIDE DEF Least
  <2> QED  BY ONLY <1>5, <1>6
<1> QED  BY <1>1, <1>7, RingType DEF Ring, L

\* The square of a difference of bounded naturals.
LEMMA SquareBound ==
    ASSUME NEW x \in Nat, NEW y \in Nat, NEW m \in Nat, x <= m, y <= m
    PROVE  Square(x - y) \in Nat /\ Square(x - y) <= Square(m)
<1>1. PICK d \in Int : d = x - y
  OBVIOUS
<1>2. PICK a \in Nat : a <= m /\ (a = d \/ a = 0 - d)
  <2>1. CASE d >= 0
    <3>1. d \in Nat /\ d <= m
      BY <1>1, <2>1
    <3> QED  BY <3>1
  <2>2. CASE d < 0
    <3>1. 0 - d \in Nat /\ 0 - d <= m
      BY <1>1, <2>2
    <3> QED  BY <3>1
  <2> QED  BY <2>1, <2>2
<1>3. d * d = a * a
  <2>1. CASE a = d
    BY <2>1
  <2>2. CASE a = 0 - d
    BY <2>2, SMTT(30)
  <2> QED  BY <1>2, <2>1, <2>2
<1>4. a * a \in Nat /\ a * a <= m * m
  <2>1. PICK c \in Nat : m = a + c
    <3>1. m - a \in Nat /\ m = a + (m - a)
      BY <1>2
    <3> QED  BY <3>1
  <2>2. PICK aa \in Nat, ac \in Nat, cc \in Nat : aa = a * a /\ ac = a * c /\ cc = c * c
    OBVIOUS
  <2>3. m * m = aa + ac + ac + cc
    BY <2>1, <2>2, SMTT(30)
  <2>4. aa <= m * m
    BY <2>3
  <2> QED  BY <2>2, <2>4
<1> QED  BY <1>1, <1>3, <1>4 DEF Square

\* No distance exceeds the largest one.
LEMMA DistanceBound ==
    ASSUME NEW pl \in Inputs, NEW i \in Rows
    PROVE  DistanceIn(pl, i) \in Nat /\ DistanceIn(pl, i) <= MaxDistance
<1>1. PICK m \in Nat : m = 2^RSSBits - 1
  BY LargestDistance
<1> DEFINE d == [j \in Cols |-> Square(pl.database[i][j] - pl.fingerprint[j])]
<1>2. DistanceIn(pl, i) = SumFunctionOnSet(d, Cols)
  <2>1. DOMAIN d = Cols
    OBVIOUS
  <2>2. DistanceIn(pl, i) = SumFunction(d)
    BY DEF DistanceIn
  <2> HIDE DEF d
  <2> QED  BY <2>1, <2>2, SumOverDomain
<1>3. PICK c \in Nat : c = Square(m)
  <2>1. m * m \in Nat
    OBVIOUS
  <2> QED  BY <2>1 DEF Square
<1>4. \A j \in Cols : d[j] \in Nat /\ d[j] <= c
  <2> SUFFICES ASSUME NEW j \in Cols PROVE d[j] \in Nat /\ d[j] <= c
    OBVIOUS
  <2>1. PICK x \in RSS, y \in RSS : x = pl.database[i][j] /\ y = pl.fingerprint[j]
    <3>1. pl.database \in [Rows -> [Cols -> RSS]] /\ pl.fingerprint \in [Cols -> RSS]
      BY InputType
    <3> QED  BY <3>1
  <2>2. x \in Nat /\ y \in Nat /\ x <= m /\ y <= m
    BY <1>1 DEF RSS
  <2>3. Square(x - y) \in Nat /\ Square(x - y) <= Square(m)
    BY <2>2, SquareBound
  <2>4. d[j] = Square(x - y)
    BY <2>1
  <2> QED  BY ONLY <1>3, <2>3, <2>4
<1> HIDE DEF d
<1>5. /\ SumFunctionOnSet(d, Cols) \in Nat
      /\ SumFunctionOnSet(d, Cols) <= c * Cardinality(Cols)
  BY <1>4, ColsFinite, SumBounds
<1>6. MaxDistance = c * Cardinality(Cols)
  BY <1>1, <1>3, ColsFinite DEF MaxDistance
<1> QED  BY ONLY <1>2, <1>5, <1>6

\* Unless the largest distance is a power of two, the ring holds every distance.
LEMMA DistanceFits ==
    ASSUME MaxDistance # Ring, NEW pl \in Inputs, NEW i \in Rows
    PROVE  Mod(DistanceIn(pl, i)) = DistanceIn(pl, i)
<1>1. PICK d \in Nat, m \in Nat, r \in Nat :
         d = DistanceIn(pl, i) /\ m = MaxDistance /\ r = Ring /\ d <= m
  BY DistanceBound, LargestDistance, RingType
<1>2. m <= r /\ m # r
  BY <1>1, BitLength
<1>3. d \in 0 .. Ring - 1
  BY <1>1, <1>2
<1>4. d \in Element /\ d \in Int
  BY <1>3, RingType
<1>5. Mod(d) = d
  BY <1>4, ModType
<1> QED  BY <1>1, <1>5

-----------------------------------------------------------------------------
(* Values that were sent come back *)

\* A value of two bytes, in bytes and back.
LEMMA TwoBytes ==
    ASSUME NEW x \in WireValue, NEW block, NEW first \in Nat,
           block[first + 1] = packBlocks(x, 2)[1], block[first + 2] = packBlocks(x, 2)[2]
    PROVE  unpackBlocks(block, 2, first) = x
<1>1. PICK a \in Nat \ {0}, k \in Nat : a = 2^ByteBits /\ 2^WireBits = a * a /\ k = ByteBits
  BY WireType
<1>2. x \in Int /\ x \in 0 .. a * a - 1
  <2>1. a * a \in Nat
    OBVIOUS
  <2> QED  BY <1>1, <2>1, WireType
<1>3. PICK h \in Int, l \in 0 .. a - 1 : h = x \div a /\ l = x % a /\ x = h * a + l
  BY <1>2, Division
<1>4. h \in 0 .. a - 1
  <2>1. h \in Nat
    <3>1. x \in Nat
      BY <1>2
    <3> QED  BY <1>3, <3>1, DivisionOfNat
  <2>2. h < a
    <3>1. SUFFICES ASSUME h >= a PROVE FALSE
      BY <2>1
    <3>2. PICK c \in Nat : h = a + c
      <4>1. h - a \in Nat /\ h = a + (h - a)
        BY <3>1
      <4> QED  BY <4>1
    <3>3. PICK aa \in Nat, ca \in Nat : aa = a * a /\ ca = c * a
      OBVIOUS
    <3>4. h * a = aa + ca
      BY <3>2, <3>3, SMTT(30)
    <3>5. x \in 0 .. aa - 1
      BY <1>2, <3>3
    <3> QED  BY <1>3, <3>3, <3>4, <3>5
  <2> QED  BY <2>1, <2>2
<1>5. h % a = h
  BY <1>4
<1>6. packBlocks(x, 2)[1] = h
  <2>1. packBlocks(x, 2)[1] = (x \div 2^(ByteBits * (2 - 1))) % 2^ByteBits
    BY DEF packBlocks
  <2>2. ByteBits * (2 - 1) = ByteBits
    BY <1>1
  <2> QED  BY <1>1, <1>3, <1>5, <2>1, <2>2
<1>7. packBlocks(x, 2)[2] = l
  <2>1. packBlocks(x, 2)[2] = (x \div 2^(ByteBits * (2 - 2))) % 2^ByteBits
    BY DEF packBlocks
  <2>2. ByteBits * (2 - 2) = 0
    BY <1>1
  <2>3. 2^0 = 1
    OBVIOUS
  <2>4. x \div 1 = x
    BY <1>2
  <2> QED  BY <1>1, <1>3, <2>1, <2>2, <2>3, <2>4
<1> DEFINE f == [j \in 1 .. 2 |-> block[first + j] * 2^(ByteBits * (2 - j))]
<1>8. f[1] = h * a /\ f[2] = l
  <2>1. f[1] = block[first + 1] * 2^(ByteBits * (2 - 1))
    OBVIOUS
  <2>2. f[2] = block[first + 2] * 2^(ByteBits * (2 - 2))
    OBVIOUS
  <2>3. ByteBits * (2 - 1) = k /\ ByteBits * (2 - 2) = 0 /\ 2^0 = 1
    BY <1>1
  <2>4. l * 1 = l
    OBVIOUS
  <2> QED  BY ONLY <1>1, <1>6, <1>7, <2>1, <2>2, <2>3, <2>4,
              block[first + 1] = packBlocks(x, 2)[1], block[first + 2] = packBlocks(x, 2)[2]
<1>9. DOMAIN f = 1 .. 2 /\ unpackBlocks(block, 2, first) = SumFunction(f)
  BY DEF unpackBlocks
<1> HIDE DEF f
<1>10. PICK y \in Int : y = h * a
  OBVIOUS
<1>11. \A j \in {1, 2} : f[j] \in Int
  BY <1>8, <1>10
<1>12. SumFunctionOnSet(f, {1, 2}) = f[1] + SumFunctionOnSet(f, {1, 2} \ {1})
  <2>1. IsFiniteSet({1, 2})
    <3>1. IsFiniteSet({1} \cup {2})
      BY FS_Singleton, FS_Union
    <3>2. {1} \cup {2} = {1, 2}
      OBVIOUS
    <3> QED  BY <3>1, <3>2
  <2>2. 1 \in {1, 2}
    OBVIOUS
  <2> QED  BY ONLY <1>11, <2>1, <2>2, SumRemove
<1>13. SumFunctionOnSet(f, {2}) = f[2] + SumFunctionOnSet(f, {})
  <2>1. IsFiniteSet({2})
    BY FS_Singleton
  <2>2. 2 \in {2} /\ {2} \ {2} = {} /\ \A j \in {2} : f[j] \in Int
    BY <1>11
  <2>3. SumFunctionOnSet(f, {2}) = f[2] + SumFunctionOnSet(f, {2} \ {2})
    BY ONLY <2>1, <2>2, SumRemove
  <2> QED  BY <2>2, <2>3
<1>14. SumFunction(f) = f[1] + (f[2] + 0)
  <2>1. {1, 2} \ {1} = {2} /\ 1 .. 2 = {1, 2}
    OBVIOUS
  <2>2. SumFunction(f) = SumFunctionOnSet(f, {1, 2})
    BY <1>9, <2>1, SumOverDomain
  <2> QED  BY <1>12, <1>13, <2>1, <2>2, SumOfNone
<1> QED  BY <1>3, <1>8, <1>9, <1>10, <1>14

\* A value is spelled by its two bytes.
LEMMA PackedBytes ==
    ASSUME NEW x \in Int, NEW k \in {1, 2}
    PROVE  packBlocks(x, 2)[k] \in Byte
<1>1. ByteBits * (2 - k) \in Nat
  BY BlockAssumption
<1>2. PICK a \in Nat \ {0}, b \in Nat \ {0} : a = 2^(ByteBits * (2 - k)) /\ b = 2^ByteBits
  BY <1>1, WireType, PowerOfTwo
<1>3. x \div a \in Int
  BY Division
<1>4. (x \div a) % b \in 0 .. b - 1
  BY <1>3, Division
<1> QED  BY <1>2, <1>4 DEF packBlocks, Byte

\* Two bytes divide a block.
LEMMA HalfBlock ==
    \E q \in Nat \ {0} : BlockBytes = q * 2 /\ PerBlock(ValueBytes) = q
<1>1. PICK q \in Nat \ {0} : BlockBytes = q * 2
  <2>1. BlockBytes \in Nat \ {0} /\ BlockBytes % 2 = 0
    BY BlockAssumption, ValuesFillBlocks DEF ValueBytes
  <2> QED  BY ONLY <2>1, SMTT(60)
<1>2. PerBlock(2) = q
  BY <1>1, SMTT(60) DEF PerBlock
<1> QED  BY <1>1, <1>2 DEF ValueBytes

\* CommunicationHandler::recvValues undoes sendValues.
LEMMA RoundTrip ==
    ASSUME NEW count \in Nat \ {0}, NEW vec \in [0 .. count - 1 -> WireValue]
    PROVE  /\ sendValues(vec, ValueBytes) \in Seq([1 .. BlockBytes -> Byte])
           /\ Len(sendValues(vec, ValueBytes)) = BlocksRead(count, ValueBytes)
           /\ \A v \in 0 .. count - 1 :
                 recvValues(sendValues(vec, ValueBytes), ValueBytes)[v] = vec[v]
<1>1. PICK q \in Nat \ {0} : BlockBytes = q * 2 /\ PerBlock(2) = q
  BY HalfBlock DEF ValueBytes
<1>2. PICK n \in Nat \ {0} : n = BlocksWritten(count, 2) /\ n = BlocksRead(count, 2)
                             /\ n = (count - 1) \div q + 1
  <2>1. BlocksWritten(count, 2) = BlocksRead(count, 2)
    BY <1>1, FramesAgree
  <2>2. (count - 1) \div q \in Nat
    <3>1. count - 1 \in Nat
      OBVIOUS
    <3> QED  BY ONLY <3>1, DivisionOfNat, q \in Nat \ {0}
  <2> QED  BY <1>1, <2>1, <2>2 DEF BlocksWritten
<1>3. Cardinality(DOMAIN vec) = count /\ DOMAIN vec = 0 .. count - 1
  BY FS_Interval
<1>4. PICK sent : sent = sendValues(vec, 2)
  OBVIOUS
<1>5. sent = [b \in 1 .. n |->
        [k \in 1 .. BlockBytes |->
            LET v == (b - 1) * q + (k - 1) \div 2
            IN  IF v \in 0 .. count - 1 /\ k <= q * 2
                THEN packBlocks(vec[v], 2)[((k - 1) % 2) + 1]
                ELSE Stale]]
  BY ONLY <1>1, <1>2, <1>3, <1>4 DEF sendValues
<1>6. ASSUME NEW b \in 1 .. n PROVE sent[b] \in [1 .. BlockBytes -> Byte]
  <2>1. ASSUME NEW k \in 1 .. BlockBytes,
               (b - 1) * q + (k - 1) \div 2 \in 0 .. count - 1
        PROVE  packBlocks(vec[(b - 1) * q + (k - 1) \div 2], 2)[((k - 1) % 2) + 1] \in Byte
    <3>1. vec[(b - 1) * q + (k - 1) \div 2] \in Int
      BY <2>1, WireType
    <3>2. ((k - 1) % 2) + 1 \in {1, 2}
      <4>1. k \in Int
        BY BlockAssumption
      <4> QED  BY <4>1
    <3> QED  BY <3>1, <3>2, PackedBytes
  <2>2. Stale \in Byte
    BY BlockAssumption
  <2> QED  BY <1>5, <2>1, <2>2
<1>7. sent \in [1 .. n -> [1 .. BlockBytes -> Byte]]
  BY <1>5, <1>6
<1>8. sent \in Seq([1 .. BlockBytes -> Byte]) /\ Len(sent) = n
  BY ONLY <1>7, n \in Nat \ {0}
<1>9. ASSUME NEW v \in 0 .. count - 1
      PROVE  recvValues(sent, 2)[v] = vec[v]
  <2>1. PICK d \in Nat, r \in 0 .. q - 1 : d = v \div q /\ r = v % q /\ v = d * q + r
    <3>1. v \in Int /\ v \in Nat
      OBVIOUS
    <3>2. v \div q \in Nat
      BY <3>1, DivisionOfNat
    <3> QED  BY <3>1, <3>2, Division
  <2>2. d + 1 \in 1 .. n
    <3>1. PICK m \in Nat, s \in 0 .. q - 1 : m = n - 1 /\ count - 1 = m * q + s
      <4>1. count - 1 \in Int /\ (count - 1) % q \in 0 .. q - 1
            /\ count - 1 = ((count - 1) \div q) * q + ((count - 1) % q)
        <5>1. PICK x \in Int : x = count - 1
          OBVIOUS
        <5>2. x % q \in 0 .. q - 1 /\ x = (x \div q) * q + (x % q)
          BY ONLY Division, q \in Nat \ {0}, x \in Int
        <5> QED  BY ONLY <5>1, <5>2
      <4>2. n - 1 = (count - 1) \div q /\ n - 1 \in Nat
        BY <1>2, <4>1
      <4> QED  BY ONLY <4>1, <4>2
    <3>2. SUFFICES ASSUME d > m PROVE FALSE
      BY <3>1
    <3>3. PICK c \in Nat : d = m + 1 + c
      <4>1. d - m - 1 \in Nat /\ d = m + 1 + (d - m - 1)
        BY <3>2
      <4> QED  BY <4>1
    <3>4. PICK mq \in Nat, cq \in Nat : mq = m * q /\ cq = c * q
      OBVIOUS
    <3>5. d * q = mq + q + cq
      BY <3>3, <3>4, SMTT(30)
    <3> QED  BY <2>1, <3>1, <3>4, <3>5
  <2>3. /\ 2 * r + 1 \in 1 .. BlockBytes /\ 2 * r + 2 \in 1 .. BlockBytes
        /\ 2 * r + 1 <= q * 2 /\ 2 * r + 2 <= q * 2
    BY <1>1
  <2>4. /\ ((2 * r + 1) - 1) \div 2 = r /\ ((2 * r + 2) - 1) \div 2 = r
        /\ (((2 * r + 1) - 1) % 2) + 1 = 1 /\ (((2 * r + 2) - 1) % 2) + 1 = 2
    OBVIOUS
  <2>5. ((d + 1) - 1) * q + r = v
    <3>1. (d + 1) - 1 = d
      OBVIOUS
    <3> QED  BY <2>1, <3>1
  <2>6. ASSUME NEW k \in 1 .. BlockBytes, (k - 1) \div 2 = r, k <= q * 2
        PROVE  sent[d + 1][k] = packBlocks(vec[v], 2)[((k - 1) % 2) + 1]
    <3>1. ((d + 1) - 1) * q + (k - 1) \div 2 = v
      BY <2>5, <2>6
    <3> QED  BY ONLY <1>5, <2>2, <2>6, <3>1, v \in 0 .. count - 1, k \in 1 .. BlockBytes
  <2>7. sent[d + 1][2 * r + 1] = packBlocks(vec[v], 2)[1]
    BY ONLY <2>3, <2>4, <2>6
  <2>8. sent[d + 1][2 * r + 2] = packBlocks(vec[v], 2)[2]
    BY ONLY <2>3, <2>4, <2>6
  <2>9. PICK first \in Nat : first = 2 * r
    OBVIOUS
  <2>a. PICK block : block = sent[d + 1]
    OBVIOUS
  <2>10. unpackBlocks(block, 2, first) = vec[v]
    <3>1. vec[v] \in WireValue
      OBVIOUS
    <3> QED  BY ONLY <2>7, <2>8, <2>9, <2>a, <3>1, TwoBytes
  <2>11. v \in 0 .. n * q - 1
    <3>1. PICK m \in Nat : n = d + 1 + m
      <4>1. n - d - 1 \in Nat /\ n = d + 1 + (n - d - 1)
        BY <2>2
      <4> QED  BY <4>1
    <3>2. PICK dq \in Nat, mq \in Nat : dq = d * q /\ mq = m * q
      OBVIOUS
    <3>3. n * q = dq + q + mq
      BY <3>1, <3>2, SMTT(30)
    <3> QED  BY <2>1, <3>2, <3>3
  <2>12. recvValues(sent, 2)[v] = unpackBlocks(sent[v \div q + 1], 2, (v % q) * 2)
    BY ONLY <1>1, <1>8, <2>11 DEF recvValues
  <2>13. (v % q) * 2 = first
    BY <2>1, <2>9
  <2> QED  BY ONLY <2>1, <2>9, <2>a, <2>10, <2>12, <2>13
<1> QED  BY ONLY <1>2, <1>4, <1>8, <1>9 DEF ValueBytes

\* A seed travels in one byte.
LEMMA SeedTrip ==
    ASSUME NEW seed \in Byte
    PROVE  /\ recvValue(sendValue(seed)) = seed
           /\ sendValue(seed)[1] \in [1 .. BlockBytes -> Byte]
<1>1. PICK a \in Nat \ {0} : a = 2^ByteBits /\ seed \in 0 .. a - 1
  BY WireType DEF Byte
<1>2. seed % a = seed
  BY <1>1
<1>3. Stale \in Byte /\ 1 \in 1 .. BlockBytes
  BY BlockAssumption
<1> QED  BY <1>1, <1>2, <1>3 DEF sendValue, recvValue

-----------------------------------------------------------------------------
(* Which step of one party comes before which step of the other *)

\* Positions of the steps that write and read the nine messages of a party.
WrittenAt ==
    [server |-> <<1, 2, 5, 8, 10, 14, 15, 17, 19>>,
     client |-> <<1, 2, 6, 7, 11, 12, 13, 18, 19>>]
ReadAt ==
    [server |-> <<3, 4, 6, 7, 11, 12, 13, 18, 20>>,
     client |-> <<3, 4, 5, 8, 10, 14, 15, 17, 20>>]

\* The positions of two parties in the tables.
LEMMA TurnsAt ==
    ASSUME NEW p \in Party, NEW k \in 1 .. 22
    PROVE  /\ \A m \in 1 .. 9 : NextWrite[p][k] > m => k > WrittenAt[p][m]
           /\ \A m \in 1 .. 9 : k > ReadAt[p][m] => NextRead[p][k] > m
<1>1. CASE p = "server"
  <2>1. \A m \in 1 .. 9 : NextWrite[p][k] > m => k > WrittenAt[p][m]
    BY <1>1 DEF NextWrite, WrittenAt
  <2>2. \A m \in 1 .. 9 : k > ReadAt[p][m] => NextRead[p][k] > m
    BY <1>1 DEF NextRead, ReadAt
  <2> QED  BY <2>1, <2>2
<1>2. CASE p = "client"
  <2>1. \A m \in 1 .. 9 : NextWrite[p][k] > m => k > WrittenAt[p][m]
    BY <1>2 DEF NextWrite, WrittenAt
  <2>2. \A m \in 1 .. 9 : k > ReadAt[p][m] => NextRead[p][k] > m
    BY <1>2 DEF NextRead, ReadAt
  <2> QED  BY <2>1, <2>2
<1> QED  BY <1>1, <1>2 DEF Party

\* A party at position k has read a message only when the other one, at
\* position j, has written it.
Precedes(p, k, j) ==
    /\ k > 3 => j > 1
    /\ k > 4 => j > 2
    /\ k > AtRecvU(p) => j > AtSendU(Other(p))
    /\ k > AtRecvCor(p) => j > AtSendCor(Other(p))
    /\ p = "client" /\ k > 17 => j > 17
    /\ p = "server" /\ k > 18 => j > 18
    /\ k > 20 => j > 19

\* What a reader's position says of the writer's.
LEMMA Preceding ==
    ASSUME NEW p \in Party, NEW k \in 1 .. 22, NEW j \in 1 .. 22,
           NextRead[p][k] <= NextWrite[Other(p)][j]
    PROVE  Precedes(p, k, j)
<1>1. Other(p) \in Party
  BY DEF Party, Other
<1>2. NextRead[p][k] \in 1 .. 10 /\ NextWrite[Other(p)][j] \in 1 .. 10
  <2>1. k \in 1 .. 21 \/ k = 22
    OBVIOUS
  <2>2. j \in 1 .. 21 \/ j = 22
    OBVIOUS
  <2>3. NextRead[p][k] \in 1 .. 10
    BY <2>1, TurnOf, Ends
  <2>4. NextWrite[Other(p)][j] \in 1 .. 10
    BY <1>1, <2>2, TurnOf, Ends
  <2> QED  BY <2>3, <2>4
<1>3. \A m \in 1 .. 9 : k > ReadAt[p][m] => j > WrittenAt[Other(p)][m]
  <2> SUFFICES ASSUME NEW m \in 1 .. 9, k > ReadAt[p][m]
               PROVE  j > WrittenAt[Other(p)][m]
    OBVIOUS
  <2>1. NextRead[p][k] > m
    BY TurnsAt
  <2>2. NextWrite[Other(p)][j] > m
    BY <1>2, <2>1
  <2> QED  BY <1>1, <2>2, TurnsAt
<1>4. CASE p = "server"
  <2>1. /\ ReadAt[p][1] = 3 /\ ReadAt[p][2] = 4 /\ ReadAt[p][6] = 12 /\ ReadAt[p][7] = 13
        /\ ReadAt[p][8] = 18 /\ ReadAt[p][9] = 20
        /\ WrittenAt[Other(p)][1] = 1 /\ WrittenAt[Other(p)][2] = 2
        /\ WrittenAt[Other(p)][6] = 12 /\ WrittenAt[Other(p)][7] = 13
        /\ WrittenAt[Other(p)][8] = 18 /\ WrittenAt[Other(p)][9] = 19 /\ Other(p) = "client"
    BY <1>4 DEF ReadAt, WrittenAt, Other
  <2> QED  BY <1>3, <1>4, <2>1 DEF Precedes, AtRecvU, AtSendU, AtRecvCor, AtSendCor
<1>5. CASE p = "client"
  <2>1. /\ ReadAt[p][1] = 3 /\ ReadAt[p][2] = 4 /\ ReadAt[p][5] = 10 /\ ReadAt[p][7] = 15
        /\ ReadAt[p][8] = 17 /\ ReadAt[p][9] = 20
        /\ WrittenAt[Other(p)][1] = 1 /\ WrittenAt[Other(p)][2] = 2
        /\ WrittenAt[Other(p)][5] = 10 /\ WrittenAt[Other(p)][7] = 15
        /\ WrittenAt[Other(p)][8] = 17 /\ WrittenAt[Other(p)][9] = 19 /\ Other(p) = "server"
    BY <1>5 DEF ReadAt, WrittenAt, Other
  <2> QED  BY <1>3, <1>5, <2>1 DEF Precedes, AtRecvU, AtSendU, AtRecvCor, AtSendCor
<1> QED  BY <1>4, <1>5 DEF Party

-----------------------------------------------------------------------------
(* What a step leaves alone *)

\* From position k on the environment changes from e to x: what has been sent
\* before stays.
Keeps(p, k, e, x) ==
    /\ k > 1 => /\ x[OwnSeed(p)] = e[OwnSeed(p)]
                /\ x[OwnSquaresSeed(p)] = e[OwnSquaresSeed(p)]
    /\ k > 9 => /\ Masks(x.database) = Masks(e.database)
                /\ VectorMasks(x.fingerprint, Cols) = VectorMasks(e.fingerprint, Cols)
    /\ k > AtSendU(p) => x.received = e.received
    /\ k > AtRecvU(p) => x.keys = e.keys
    /\ k > 17 => Capitals(x.database) = Capitals(e.database) /\ x.dSquareSum = e.dSquareSum
    /\ k > 18 => /\ VectorCapitals(x.fingerprint, Cols) = VectorCapitals(e.fingerprint, Cols)
                 /\ x.fingerprintSum = e.fingerprintSum
    /\ k > 19 => x.multDeltas = e.multDeltas

\* What a party has read still agrees with the peer after the peer's step.
LEMMA AgreesKept ==
    ASSUME NEW p \in Party, NEW k \in 1 .. 22, NEW e, NEW x, Keeps(p, k, e, x),
           NEW j \in 1 .. 22, NEW o, Agrees(Other(p), j, o, e), Precedes(Other(p), j, k)
    PROVE  Agrees(Other(p), j, o, x)
<1>1. CASE p = "server"
  <2>1. Other(p) = "client" /\ Other("client") = "server"
    BY <1>1, OtherIs
  <2>2. j > 3 => o[OwnSeed(Other(Other(p)))] = x[OwnSeed(Other(Other(p)))]
    BY <1>1, <2>1 DEF Agrees, Keeps, Precedes
  <2>3. j > 4 => o[OwnSquaresSeed(Other(Other(p)))] = x[OwnSquaresSeed(Other(Other(p)))]
    BY <1>1, <2>1 DEF Agrees, Keeps, Precedes
  <2>4. j > AtRecvU(Other(p)) =>
          \A b \in 0 .. NumBaseBits - 1 :
             o.keys[b][ChoiceOf(VectorMasks(x.fingerprint, Cols))[b]] = x.received[b]
    BY <1>1, <2>1 DEF Agrees, Keeps, Precedes, AtRecvU, AtSendU
  <2>5. j > AtRecvCor(Other(p)) =>
          o.ReceiverOTs = ResultOf(o.received, ChoiceOf(VectorMasks(o.fingerprint, Cols)),
                                   CorOf(x.keys, Masks(x.database)))
    BY <1>1, <2>1 DEF Agrees, Keeps, Precedes, AtRecvCor, AtSendCor, AtRecvU
  <2>6. j > 17 =>
          /\ Capitals(o.database) = Capitals(x.database)
          /\ VectorCapitals(o.dSquareSum, Rows) = VectorCapitals(x.dSquareSum, Rows)
    BY <1>1, <2>1 DEF Agrees, Keeps, Precedes
  <2>7. j > 20 =>
          o.distances = DistancesOf(o.multDeltas, x.multDeltas, o.multShares, o.dSquareSum,
                                    o.fingerprintSum)
    BY <1>1, <2>1 DEF Agrees, Keeps, Precedes
  <2>8. Other(p) # "server"
    BY <2>1
  <2> QED  BY ONLY <2>2, <2>3, <2>4, <2>5, <2>6, <2>7, <2>8 DEF Agrees
<1>2. CASE p = "client"
  <2>1. Other(p) = "server" /\ Other("server") = "client"
    BY <1>2, OtherIs
  <2>2. j > 3 => o[OwnSeed(Other(Other(p)))] = x[OwnSeed(Other(Other(p)))]
    BY <1>2, <2>1 DEF Agrees, Keeps, Precedes
  <2>3. j > 4 => o[OwnSquaresSeed(Other(Other(p)))] = x[OwnSquaresSeed(Other(Other(p)))]
    BY <1>2, <2>1 DEF Agrees, Keeps, Precedes
  <2>4. j > AtRecvU(Other(p)) =>
          \A b \in 0 .. NumBaseBits - 1 :
             o.keys[b][ChoiceOf(VectorMasks(x.fingerprint, Cols))[b]] = x.received[b]
    BY <1>2, <2>1 DEF Agrees, Keeps, Precedes, AtRecvU, AtSendU
  <2>5. j > AtRecvCor(Other(p)) =>
          o.ReceiverOTs = ResultOf(o.received, ChoiceOf(VectorMasks(o.fingerprint, Cols)),
                                   CorOf(x.keys, Masks(x.database)))
    BY <1>2, <2>1 DEF Agrees, Keeps, Precedes, AtRecvCor, AtSendCor, AtRecvU
  <2>6. j > 18 =>
          /\ VectorCapitals(o.fingerprint, Cols) = VectorCapitals(x.fingerprint, Cols)
          /\ o.fingerprintSum.D = x.fingerprintSum.D
    BY <1>2, <2>1 DEF Agrees, Keeps, Precedes
  <2>7. j > 20 =>
          o.distances = DistancesOf(o.multDeltas, x.multDeltas, o.multShares, o.dSquareSum,
                                    o.fingerprintSum)
    BY <1>2, <2>1 DEF Agrees, Keeps, Precedes
  <2>8. Other(p) # "client"
    BY <2>1
  <2> QED  BY ONLY <2>2, <2>3, <2>4, <2>5, <2>6, <2>7, <2>8 DEF Agrees
<1> QED  BY <1>1, <1>2 DEF Party

\* The messages a party has sent are those its environment still spells.
SameMessage(p, e, x, m) ==
    Message(p, x)[Kinds[Other(p)][m]] = Message(p, e)[Kinds[Other(p)][m]]

\* A party's step does not change the messages it has sent.
LEMMA MessageKept ==
    ASSUME NEW p \in Party, NEW k \in 1 .. 22, NEW e, NEW x, Keeps(p, k, e, x),
           NEW m \in 1 .. 9, m < NextWrite[p][k]
    PROVE  SameMessage(p, e, x, m)
<1>1. k > WrittenAt[p][m]
  <2>1. NextWrite[p][k] \in 1 .. 10
    <3>1. k \in 1 .. 21 \/ k = 22
      OBVIOUS
    <3> QED  BY <3>1, TurnOf, Ends
  <2>2. NextWrite[p][k] > m
    BY <2>1
  <2> QED  BY <2>2, TurnsAt
<1>2. /\ k > 1 => Message(p, x).seed = Message(p, e).seed
      /\ k > 2 => Message(p, x).squaresSeed = Message(p, e).squaresSeed
      /\ k > 17 => Message(p, x).database = Message(p, e).database
      /\ k > 18 => Message(p, x).fingerprint = Message(p, e).fingerprint
      /\ k > 19 => Message(p, x).multDeltas = Message(p, e).multDeltas
      /\ Message(p, x).baseKeys = Message(p, e).baseKeys
      /\ Message(p, x).basePoints = Message(p, e).basePoints
      /\ Message(p, x).offset = Message(p, e).offset
  BY DEF Message, Keeps
<1>3. k > AtSendU(p) => Message(p, x).u = Message(p, e).u
  <2>1. AtSendU(p) >= 9 /\ AtSendU(p) \in Nat
    BY DEF AtSendU
  <2> QED  BY <2>1 DEF Message, Keeps
<1>4. k > AtSendCor(p) => Message(p, x).cor = Message(p, e).cor
  <2>1. /\ AtSendCor(p) >= AtRecvU(p) /\ AtSendCor(p) >= 9
        /\ AtSendCor(p) \in Nat /\ AtRecvU(p) \in Nat
    BY DEF AtSendCor, AtRecvU
  <2> QED  BY <2>1 DEF Message, Keeps
<1>5. CASE p = "server"
  <2>1. Other(p) = "client" /\ AtSendU(p) = 10 /\ AtSendCor(p) = 15
    BY <1>5 DEF Other, AtSendU, AtSendCor
  <2>2. m \in {1, 2, 3, 4, 5, 6, 7, 8, 9}
    OBVIOUS
  <2>3. /\ Kinds[Other(p)][1] = "seed" /\ Kinds[Other(p)][2] = "squaresSeed"
        /\ Kinds[Other(p)][3] = "baseKeys" /\ Kinds[Other(p)][4] = "basePoints"
        /\ Kinds[Other(p)][5] = "u" /\ Kinds[Other(p)][6] = "offset"
        /\ Kinds[Other(p)][7] = "cor" /\ Kinds[Other(p)][8] = "database"
        /\ Kinds[Other(p)][9] = "multDeltas"
    BY <2>1 DEF Kinds
  <2>4. /\ WrittenAt[p][1] = 1 /\ WrittenAt[p][2] = 2 /\ WrittenAt[p][5] = 10
        /\ WrittenAt[p][7] = 15 /\ WrittenAt[p][8] = 17 /\ WrittenAt[p][9] = 19
    BY <1>5 DEF WrittenAt
  <2> QED  BY ONLY <1>1, <1>2, <1>3, <1>4, <2>1, <2>2, <2>3, <2>4 DEF SameMessage
<1>6. CASE p = "client"
  <2>1. Other(p) = "server" /\ AtSendU(p) = 13 /\ AtSendCor(p) = 12
    BY <1>6 DEF Other, AtSendU, AtSendCor
  <2>2. m \in {1, 2, 3, 4, 5, 6, 7, 8, 9}
    OBVIOUS
  <2>3. /\ Kinds[Other(p)][1] = "seed" /\ Kinds[Other(p)][2] = "squaresSeed"
        /\ Kinds[Other(p)][3] = "basePoints" /\ Kinds[Other(p)][4] = "baseKeys"
        /\ Kinds[Other(p)][5] = "offset" /\ Kinds[Other(p)][6] = "cor"
        /\ Kinds[Other(p)][7] = "u" /\ Kinds[Other(p)][8] = "fingerprint"
        /\ Kinds[Other(p)][9] = "multDeltas"
    BY <2>1 DEF Kinds
  <2>4. /\ WrittenAt[p][1] = 1 /\ WrittenAt[p][2] = 2 /\ WrittenAt[p][6] = 12
        /\ WrittenAt[p][7] = 13 /\ WrittenAt[p][8] = 18 /\ WrittenAt[p][9] = 19
    BY <1>6 DEF WrittenAt
  <2> QED  BY ONLY <1>1, <1>2, <1>3, <1>4, <2>1, <2>2, <2>3, <2>4 DEF SameMessage
<1> QED  BY <1>5, <1>6 DEF Party

-----------------------------------------------------------------------------
(* The bytes on their way *)

NumericKinds == {"seed", "squaresSeed", "cor", "database", "fingerprint", "multDeltas"}
WellFormed ==
    \A p \in Party : \A b \in 1 .. Len(net[p]) :
        net[p][b].kind \in NumericKinds => net[p][b].bytes \in [1 .. BlockBytes -> Byte]
InCapacity == \A p \in Party : Len(net[p]) <= Capacity

\* A place in front of a message belongs to an earlier one.
LEMMA EarlierPlace ==
    ASSUME NEW p \in Party, NEW w \in 1 .. 10, NEW m \in 1 .. 9, NEW t \in Nat,
           Start[p][m] < t, t <= Start[p][w]
    PROVE  m < w
<1>1. PICK u \in Nat, v \in Nat : u = Start[p][m] /\ v = Start[p][w]
  <2>1. m \in 1 .. 10
    OBVIOUS
  <2> QED  BY <2>1, StartOf
<1>2. u < v
  BY <1>1
<1>3. SUFFICES ASSUME w = m \/ w < m PROVE FALSE
  OBVIOUS
<1>4. CASE w = m
  BY <1>1, <1>2, <1>4
<1>5. CASE w < m
  <2>1. v < u
    BY <1>1, <1>5, StartOf
  <2> QED  BY <1>2, <2>1
<1> QED  BY <1>3, <1>4, <1>5

\* The messages on their way to the peer of a party that moves stay the same.
LEMMA OldBytes ==
    ASSUME IInv, Contents, NEW p \in Party, Moves(p), NEW q, q = Other(p),
           NEW x, Keeps(p, pc[p], env[p], x), NEW b \in 1 .. Len(net[q])
    PROVE  SpelledBy(q, Start[q][Reading(q)] + b, net[q][b].bytes, Message(p, x))
<1>1. q \in Party /\ q # p /\ Other(q) = p
  BY Turns DEF IInv
<1>2. PICK r \in 1 .. 10, w \in 1 .. 10 : r = Reading(q) /\ w = Writing(q)
  BY <1>1, Turns DEF IInv
<1>3. PICK u \in Nat, v \in Nat : u = Start[q][r] /\ v = Start[q][w]
  BY <1>1, StartOf
<1>4. Len(net[q]) = v - u
  BY <1>1, <1>2, <1>3 DEF IInv, Streams
<1>5. PICK t \in Nat : t = u + b /\ t <= v
  <2>1. b \in Nat /\ b <= v - u
    BY <1>4
  <2> QED  BY <2>1
<1>6. pc[p] \in 1 .. 22 /\ w = NextWrite[p][pc[p]]
  BY <1>1, <1>2, Turns DEF Writing, IInv
<1>7. PICK k, e, bytes : k \in 1 .. 22 /\ k = pc[p] /\ e = env[p] /\ bytes = net[q][b].bytes
  BY <1>6
<1>8. SpelledBy(q, t, bytes, Message(p, e))
  BY <1>1, <1>2, <1>3, <1>5, <1>7 DEF Contents
<1>9. ASSUME NEW m \in 1 .. 9, Start[q][m] < t, t <= Start[q][m + 1]
      PROVE  bytes = Message(p, x)[Kinds[q][m]][t - Start[q][m]]
  <2>1. m < w
    BY <1>1, <1>3, <1>5, <1>9, EarlierPlace
  <2>2. Message(p, x)[Kinds[q][m]] = Message(p, e)[Kinds[q][m]]
    <3>1. m < NextWrite[p][k] /\ Keeps(p, k, e, x)
      BY <1>6, <1>7, <2>1
    <3>2. SameMessage(p, e, x, m)
      BY ONLY <1>7, <3>1, MessageKept, p \in Party, m \in 1 .. 9
    <3> QED  BY ONLY <3>2, q = Other(p) DEF SameMessage
  <2> QED  BY ONLY <1>8, <1>9, <2>2, m \in 1 .. 9 DEF SpelledBy
<1>10. SpelledBy(q, t, bytes, Message(p, x))
  BY ONLY <1>9 DEF SpelledBy
<1> QED  BY ONLY <1>2, <1>3, <1>5, <1>7, <1>10

\* The next message starts behind them.
LEMMA NewBytes ==
    ASSUME NEW q \in Party, NEW w \in 1 .. 9, NEW c \in Nat \ {0}, c <= Width(Kinds[q][w]),
           NEW bytes, NEW messages, bytes = messages[Kinds[q][w]][c]
    PROVE  SpelledBy(q, Start[q][w] + c, bytes, messages)
<1>1. PICK v \in Nat : v = Start[q][w]
  <2>1. w \in 1 .. 10
    OBVIOUS
  <2> QED  BY <2>1, StartOf
<1>2. Start[q][w + 1] \in Nat /\ Start[q][w + 1] = v + Width(Kinds[q][w])
  <2>1. w + 1 \in 1 .. 10
    OBVIOUS
  <2> QED  BY <1>1, <2>1, StartOf
<1>3. Width(Kinds[q][w]) \in Int
  BY Widths DEF Width
<1>4. PICK t \in Nat : t = v + c
  OBVIOUS
<1>5. v < t /\ t <= Start[q][w + 1]
  BY <1>2, <1>3, <1>4
<1>6. ASSUME NEW m \in 1 .. 9, Start[q][m] < t, t <= Start[q][m + 1]
      PROVE  bytes = messages[Kinds[q][m]][t - Start[q][m]]
  <2>1. m = w
    BY <1>1, <1>5, <1>6, Place
  <2>2. t - Start[q][m] = c
    BY <1>1, <1>4, <2>1
  <2> QED  BY <2>1, <2>2
<1>7. SpelledBy(q, t, bytes, messages)
  BY ONLY <1>6 DEF SpelledBy
<1> QED  BY ONLY <1>1, <1>4, <1>7

\* A writing step keeps the messages on their way.
LEMMA WriteContents ==
    ASSUME IInv, Contents, WellFormed, InCapacity, NEW p \in Party, Moves(p),
           env \in [Party -> EnvType], NEW x, env' = [env EXCEPT ![p] = x],
           Keeps(p, pc[p], env[p], x),
           NEW blocks, NEW T, blocks \in Seq(T), Send(p, blocks),
           Steps[p][pc[p]] \in DOMAIN Written \ DOMAIN Expected,
           Len(blocks) = Width(Written[Steps[p][pc[p]]]),
           \A b \in 1 .. Len(blocks) :
              /\ blocks[b].kind = Written[Steps[p][pc[p]]]
              /\ blocks[b].bytes = Message(p, x)[Written[Steps[p][pc[p]]]][b]
              /\ blocks[b].kind \in NumericKinds => blocks[b].bytes \in [1 .. BlockBytes -> Byte]
    PROVE  Contents' /\ WellFormed' /\ InCapacity'
<1>1. PICK q \in Party : q = Other(p) /\ q # p /\ Other(q) = p
  BY Turns DEF IInv
<1>2. PICK r \in 1 .. 10, w \in 1 .. 9 :
         /\ r = Reading(q) /\ w = Writing(q)
         /\ Reading(q)' = r /\ Reading(p)' = Reading(p)
         /\ Kinds[q][w] = Written[Steps[p][pc[p]]]
  <2>1. /\ pc[p] \in 1 .. 21 /\ Reading(p)' = NextRead[p][pc[p] + 1] /\ Reading(q)' = Reading(q)
    BY <1>1, MovesTo DEF IInv
  <2>2. /\ NextRead[p][pc[p] + 1] = NextRead[p][pc[p]]
        /\ NextWrite[p][pc[p]] \in 1 .. 9
        /\ Kinds[q][NextWrite[p][pc[p]]] = Written[Steps[p][pc[p]]]
    BY <1>1, <2>1, TurnOf
  <2>3. Writing(q) = NextWrite[p][pc[p]] /\ Reading(p) = NextRead[p][pc[p]]
    BY <1>1 DEF Writing, Reading
  <2>4. Reading(q) \in 1 .. 10
    BY Turns DEF IInv
  <2> QED  BY <2>1, <2>2, <2>3, <2>4
<1>3. PICK S : net \in [Party -> Seq(S)]
  BY DEF IInv, Types
<1>4. PICK old : old = net[q]
  OBVIOUS
<1>5. /\ net'[q] = old \o blocks /\ net'[p] = net[p]
      /\ old \in Seq(S \cup T) /\ blocks \in Seq(S \cup T)
      /\ Len(old) + Len(blocks) <= Capacity
  <2>1. /\ net' = [net EXCEPT ![q] = @ \o blocks]
        /\ Len(net[q]) + Len(blocks) <= Capacity
    BY <1>1 DEF Send
  <2> QED  BY <1>1, <1>3, <1>4, <2>1
<1>6. /\ Len(net'[q]) = Len(old) + Len(blocks)
      /\ \A b \in 1 .. Len(old) + Len(blocks) :
            net'[q][b] = IF b <= Len(old) THEN old[b] ELSE blocks[b - Len(old)]
      /\ Len(old) \in Nat /\ Len(blocks) \in Nat
  <2>1. Len(old) \in Nat /\ Len(blocks) \in Nat
    BY ONLY <1>5, LenProperties
  <2>2. /\ Len(old \o blocks) = Len(old) + Len(blocks)
        /\ \A b \in 1 .. Len(old) + Len(blocks) :
              (old \o blocks)[b] = IF b <= Len(old) THEN old[b] ELSE blocks[b - Len(old)]
    BY ONLY <1>5, ConcatProperties
  <2> QED  BY ONLY <1>5, <2>1, <2>2
<1>7. env'[p] = x /\ env'[q] = env[q]
  BY <1>1
<1>8. ASSUME NEW b \in 1 .. Len(net'[q]), b > Len(old)
      PROVE  b - Len(old) \in 1 .. Len(blocks) /\ net'[q][b] = blocks[b - Len(old)]
  BY <1>6, <1>8
<1>9. ASSUME NEW b \in 1 .. Len(net'[q]), ~(b > Len(old))
      PROVE  b \in 1 .. Len(net[q]) /\ net'[q][b] = net[q][b]
  BY <1>4, <1>6, <1>9
<1>10. Contents'
  <2> SUFFICES ASSUME NEW z \in Party, NEW b \in 1 .. Len(net'[z])
               PROVE  SpelledBy(z, Start[z][Reading(z)'] + b, net'[z][b].bytes,
                                Message(Other(z), env'[Other(z)]))
    BY DEF Contents
  <2>1. CASE z = p
    <3>1. /\ net'[z] = net[z] /\ Other(z) = q /\ env'[q] = env[q]
          /\ Reading(z)' = Reading(z)
      BY <1>1, <1>2, <1>5, <1>7, <2>1
    <3>2. b \in 1 .. Len(net[z])
      BY <3>1
    <3>3. SpelledBy(z, Start[z][Reading(z)] + b, net[z][b].bytes,
                    Message(Other(z), env[Other(z)]))
      BY <3>2 DEF Contents
    <3> QED  BY ONLY <3>1, <3>3
  <2>2. CASE z = q /\ ~(b > Len(old))
    <3>1. b \in 1 .. Len(net[q]) /\ net'[q][b] = net[q][b]
      BY <1>9, <2>2
    <3>2. SpelledBy(q, Start[q][Reading(q)] + b, net[q][b].bytes, Message(p, x))
      BY <1>1, <3>1, OldBytes
    <3> QED  BY ONLY <1>1, <1>2, <1>7, <2>2, <3>1, <3>2
  <2>3. CASE z = q /\ b > Len(old)
    <3>1. b - Len(old) \in 1 .. Len(blocks) /\ net'[q][b] = blocks[b - Len(old)]
      BY <1>8, <2>3
    <3>2. PICK u \in Nat, v \in Nat : u = Start[q][r] /\ v = Start[q][w] /\ Len(old) = v - u
      <4>1. w \in 1 .. 10
        OBVIOUS
      <4>2. Len(net[q]) = Start[q][Writing(q)] - Start[q][Reading(q)]
        BY <1>1 DEF IInv, Streams
      <4>3. Start[q][r] \in Nat /\ Start[q][w] \in Nat
        BY <1>1, <4>1, StartOf
      <4> QED  BY ONLY <1>2, <1>4, <4>2, <4>3
    <3>3. PICK c \in Nat \ {0} : c = b - Len(old) /\ c <= Len(blocks) /\ b \in Nat
      <4>1. b \in Nat
        BY <1>6
      <4> QED  BY <1>6, <3>1, <4>1
    <3>4. v + c = u + b
      <4>1. PICK l \in Int : l = Len(old) /\ l = v - u /\ c = b - l
        BY <3>2, <3>3
      <4> QED  BY ONLY <3>3, <4>1, u \in Nat, v \in Nat, c \in Nat \ {0}
    <3>5. PICK bytes : bytes = net'[q][b].bytes
      OBVIOUS
    <3>6. bytes = Message(p, x)[Kinds[q][w]][c]
      BY <1>2, <3>1, <3>3, <3>5
    <3>7. SpelledBy(q, Start[q][w] + c, bytes, Message(p, x))
      <4>1. c <= Width(Kinds[q][w])
        BY <1>2, <3>3
      <4> QED  BY ONLY <1>1, <3>6, <4>1, NewBytes, q \in Party, w \in 1 .. 9, c \in Nat \ {0}
    <3> QED  BY ONLY <1>1, <1>2, <1>7, <2>3, <3>2, <3>4, <3>5, <3>7
  <2> QED  BY <1>1, <2>1, <2>2, <2>3 DEF Party
<1>11. WellFormed'
  <2> SUFFICES ASSUME NEW z \in Party, NEW b \in 1 .. Len(net'[z]),
                      net'[z][b].kind \in NumericKinds
               PROVE  net'[z][b].bytes \in [1 .. BlockBytes -> Byte]
    BY DEF WellFormed
  <2>1. CASE z = p
    BY <1>5, <2>1 DEF WellFormed
  <2>2. CASE z = q /\ ~(b > Len(old))
    BY <1>9, <2>2 DEF WellFormed
  <2>3. CASE z = q /\ b > Len(old)
    BY <1>8, <2>3
  <2> QED  BY <1>1, <2>1, <2>2, <2>3 DEF Party
<1>12. InCapacity'
  <2> SUFFICES ASSUME NEW z \in Party PROVE Len(net'[z]) <= Capacity
    BY DEF InCapacity
  <2> QED  BY <1>1, <1>5, <1>6 DEF Party, InCapacity
<1> QED  BY <1>10, <1>11, <1>12

\* A step that reads the next message towards p.
LEMMA ReadContents ==
    ASSUME IInv, Contents, WellFormed, InCapacity, NEW p \in Party, Moves(p),
           env \in [Party -> EnvType], NEW x, env' = [env EXCEPT ![p] = x],
           Keeps(p, pc[p], env[p], x), NEW n,
           Steps[p][pc[p]] \in DOMAIN Expected \ DOMAIN Written,
           n = Width(Expected[Steps[p][pc[p]]]), Len(net[p]) >= n,
           net' = [net EXCEPT ![p] = SubSeq(@, n + 1, Len(@))]
    PROVE  Contents' /\ WellFormed' /\ InCapacity'
<1>1. PICK q \in Party : q = Other(p) /\ q # p /\ Other(q) = p
  BY Turns DEF IInv
<1>2. PICK r \in 1 .. 9 :
         /\ r = Reading(p) /\ Reading(p)' = r + 1 /\ Reading(q)' = Reading(q)
         /\ Kinds[p][r] = Expected[Steps[p][pc[p]]]
  <2>1. /\ pc[p] \in 1 .. 21
        /\ Reading(p)' = NextRead[p][pc[p] + 1] /\ Reading(q)' = Reading(q)
    BY <1>1, MovesTo DEF IInv
  <2>2. /\ NextRead[p][pc[p]] \in 1 .. 9
        /\ NextRead[p][pc[p] + 1] = NextRead[p][pc[p]] + 1
        /\ Kinds[p][NextRead[p][pc[p]]] = Expected[Steps[p][pc[p]]]
    BY <2>1, TurnOf
  <2> QED  BY <2>1, <2>2 DEF Reading
<1>3. PICK u \in Nat, v \in Nat : u = Start[p][r] /\ v = Start[p][r + 1]
  <2>1. r \in 1 .. 10 /\ r + 1 \in 1 .. 10
    OBVIOUS
  <2> QED  BY <2>1, StartOf
<1>4. n \in Nat /\ v = u + n
  <2>1. v = u + Width(Kinds[p][r])
    BY <1>3, StartOf
  <2>2. Width(Kinds[p][r]) \in Nat
    BY Widths DEF Width
  <2> QED  BY <1>2, <2>1, <2>2
<1>5. PICK S : net \in [Party -> Seq(S)]
  BY DEF IInv, Types
<1>6. PICK old : old = net[p]
  OBVIOUS
<1>7. PICK l \in Nat : l = Len(old) /\ l >= n
  <2>1. Len(net[p]) \in Nat
    BY <1>5, LenProperties
  <2> QED  BY <1>6, <2>1
<1>8. /\ net'[q] = net[q] /\ Len(net'[p]) = l - n
      /\ \A b \in 1 .. l - n : net'[p][b] = old[n + b]
  <2>1. old \in Seq(S) /\ \A b \in n + 1 .. l : old[b] \in S
    <3>1. old \in Seq(S)
      BY <1>5, <1>6
    <3>2. \A b \in n + 1 .. l : b \in 1 .. Len(old)
      BY <1>4, <1>7
    <3> QED  BY ONLY <3>1, <3>2, ElementOfSeq
  <2>2. PICK rest : rest = SubSeq(old, n + 1, l)
    OBVIOUS
  <2>3. n + 1 \in Int /\ l \in Int
    BY <1>4
  <2>4. /\ rest \in Seq(S) /\ Len(rest) = (IF n + 1 <= l THEN l - (n + 1) + 1 ELSE 0)
        /\ \A b \in 1 .. l - (n + 1) + 1 : rest[b] = old[(n + 1) + b - 1]
    BY ONLY <2>1, <2>2, <2>3, SubSeqProperties
  <2>5. Len(rest) = l - n
    BY ONLY <1>4, <1>7, <2>4, l \in Nat
  <2>6. \A b \in 1 .. l - n : rest[b] = old[n + b]
    <3> SUFFICES ASSUME NEW b \in 1 .. l - n PROVE rest[b] = old[n + b]
      OBVIOUS
    <3>1. b \in 1 .. l - (n + 1) + 1 /\ (n + 1) + b - 1 = n + b
      BY ONLY <1>4, l \in Nat, b \in 1 .. l - n
    <3> QED  BY ONLY <2>4, <3>1
  <2>7. net' = [net EXCEPT ![p] = rest]
    BY <1>6, <1>7, <2>2
  <2> QED  BY ONLY <1>1, <1>5, <2>5, <2>6, <2>7, p \in Party
<1>9. env'[p] = x /\ env'[q] = env[q]
  BY <1>1
<1>10. ASSUME NEW b \in 1 .. Len(net'[p])
       PROVE  /\ n + b \in 1 .. Len(net[p]) /\ net'[p][b] = net[p][n + b]
              /\ u + (n + b) = v + b
  <2>0. PICK m \in Int : m = l - n
    BY ONLY <1>4, l \in Nat
  <2>1. PICK k \in Nat : k = b /\ 1 <= k /\ k <= l - n
    <3>1. b \in 1 .. m
      BY ONLY <1>8, <1>10, <2>0
    <3>2. b \in Nat /\ 1 <= b /\ b <= m
      BY ONLY <3>1, m \in Int
    <3> QED  BY ONLY <2>0, <3>2
  <2>2. n + k \in 1 .. l /\ u + (n + k) = v + k
    BY ONLY <1>4, <2>1, k \in Nat, l \in Nat, u \in Nat, v \in Nat
  <2>3. b \in 1 .. l - n /\ Len(net[p]) = l
    BY <1>6, <1>7, <1>8, <1>10
  <2> QED  BY <1>6, <1>8, <2>1, <2>2, <2>3
<1>11. Contents'
  <2> SUFFICES ASSUME NEW z \in Party, NEW b \in 1 .. Len(net'[z])
               PROVE  SpelledBy(z, Start[z][Reading(z)'] + b, net'[z][b].bytes,
                                Message(Other(z), env'[Other(z)]))
    BY DEF Contents
  <2>1. CASE z = p
    <3>1. n + b \in 1 .. Len(net[p]) /\ net'[p][b] = net[p][n + b] /\ u + (n + b) = v + b
      BY <1>10, <2>1
    <3>2. SpelledBy(p, Start[p][Reading(p)] + (n + b), net[p][n + b].bytes,
                    Message(Other(p), env[Other(p)]))
      BY <3>1 DEF Contents
    <3> QED  BY ONLY <1>1, <1>2, <1>3, <1>9, <2>1, <3>1, <3>2
  <2>2. CASE z = q
    <3>1. b \in 1 .. Len(net[q]) /\ net'[q] = net[q]
      BY <1>8, <2>2
    <3>2. SpelledBy(q, Start[q][Reading(q)] + b, net[q][b].bytes, Message(p, x))
      BY <1>1, <3>1, OldBytes
    <3> QED  BY ONLY <1>1, <1>2, <1>9, <2>2, <3>1, <3>2
  <2> QED  BY <1>1, <2>1, <2>2 DEF Party
<1>12. WellFormed'
  <2> SUFFICES ASSUME NEW z \in Party, NEW b \in 1 .. Len(net'[z]),
                      net'[z][b].kind \in NumericKinds
               PROVE  net'[z][b].bytes \in [1 .. BlockBytes -> Byte]
    BY DEF WellFormed
  <2>1. CASE z = p
    <3>1. n + b \in 1 .. Len(net[p]) /\ net'[p][b] = net[p][n + b]
      BY <1>10, <2>1
    <3> QED  BY <2>1, <3>1 DEF WellFormed
  <2>2. CASE z = q
    BY <1>8, <2>2 DEF WellFormed
  <2> QED  BY <1>1, <2>1, <2>2 DEF Party
<1>13. InCapacity'
  <2> SUFFICES ASSUME NEW z \in Party PROVE Len(net'[z]) <= Capacity
    BY DEF InCapacity
  <2>1. CASE z = p
    <3>1. l <= Capacity /\ Capacity \in Nat
      BY <1>6, <1>7, ParameterAssumption DEF InCapacity
    <3>2. Len(net'[z]) = Len(net'[p])
      BY ONLY <2>1
    <3> QED  BY ONLY <1>4, <1>7, <1>8, <3>1, <3>2, SMTT(60)
  <2>2. CASE z = q
    BY <1>8, <2>2 DEF InCapacity
  <2> QED  BY <1>1, <2>1, <2>2 DEF Party
<1> QED  BY <1>11, <1>12, <1>13

\* A step that uses no connection.
LEMMA LocalContents ==
    ASSUME IInv, Contents, WellFormed, InCapacity, NEW p \in Party, Moves(p),
           env \in [Party -> EnvType], NEW x, env' = [env EXCEPT ![p] = x],
           Keeps(p, pc[p], env[p], x), UNCHANGED net,
           Steps[p][pc[p]] \notin DOMAIN Expected \cup DOMAIN Written
    PROVE  Contents' /\ WellFormed' /\ InCapacity'
<1>1. PICK q \in Party : q = Other(p) /\ q # p /\ Other(q) = p
  BY Turns DEF IInv
<1>2. Reading(p)' = Reading(p) /\ Reading(q)' = Reading(q)
  <2>1. /\ pc[p] \in 1 .. 21 /\ Reading(p)' = NextRead[p][pc[p] + 1]
        /\ Reading(q)' = Reading(q)
    BY <1>1, MovesTo DEF IInv
  <2> QED  BY <2>1, TurnOf DEF Reading
<1>3. env'[p] = x /\ env'[q] = env[q]
  BY <1>1
<1>4. Contents'
  <2> SUFFICES ASSUME NEW z \in Party, NEW b \in 1 .. Len(net'[z])
               PROVE  SpelledBy(z, Start[z][Reading(z)'] + b, net'[z][b].bytes,
                                Message(Other(z), env'[Other(z)]))
    BY DEF Contents
  <2>0. b \in 1 .. Len(net[z])
    OBVIOUS
  <2>1. CASE z = p
    <3>1. SpelledBy(z, Start[z][Reading(z)] + b, net[z][b].bytes,
                    Message(Other(z), env[Other(z)]))
      BY <2>0 DEF Contents
    <3> QED  BY ONLY <1>1, <1>2, <1>3, <2>1, <3>1, net' = net
  <2>2. CASE z = q
    <3>1. SpelledBy(q, Start[q][Reading(q)] + b, net[q][b].bytes, Message(p, x))
      BY <1>1, <2>0, <2>2, OldBytes
    <3> QED  BY ONLY <1>1, <1>2, <1>3, <2>2, <3>1, net' = net
  <2> QED  BY <1>1, <2>1, <2>2 DEF Party
<1>5. WellFormed' /\ InCapacity'
  BY DEF WellFormed, InCapacity
<1> QED  BY <1>4, <1>5

\* What a reading step takes is the message it expects.
LEMMA ReceivedIs ==
    ASSUME IInv, Contents, NEW p \in Party, NEW step \in DOMAIN Expected, Receive(p, step),
           Advance(p), NEW o, o = env[Other(p)]
    PROVE  /\ Received(p, step) =
                 [b \in 1 .. Width(Expected[step]) |->
                     Message(Other(p), o)[Expected[step]][b]]
           /\ Width(Expected[step]) \in Nat
<1>1. Moves(p) /\ Steps[p][pc[p]] = step /\ pc[p] \in 1 .. 21
  <2>1. At(p, step)
    BY DEF Receive
  <2>2. Moves(p) /\ Steps[p][pc[p]] = step
    BY <2>1, AtStep DEF IInv
  <2> QED  BY <2>2, MovesTo DEF IInv
<1>2. PICK r \in 1 .. 9 : r = Reading(p) /\ Kinds[p][r] = Expected[step]
  BY <1>1, TurnOf DEF Reading
<1>3. PICK n \in Nat : n = Width(Expected[step]) /\ n = ExpectedBlocks(step)
  <2>1. Width(Expected[step]) \in Nat
    BY Widths DEF Width
  <2> QED  BY <2>1, WidthOfStep
<1>4. Len(net[p]) >= n /\ Len(net[p]) \in Nat
  <2>1. Len(net[p]) >= n
    BY <1>3 DEF Receive
  <2>2. Len(net[p]) \in Nat
    BY LenProperties DEF IInv, Types
  <2> QED  BY <2>1, <2>2
<1>5. PICK u \in Nat, v \in Nat : u = Start[p][r] /\ v = Start[p][r + 1] /\ v = u + n
  <2>1. r \in 1 .. 10 /\ r + 1 \in 1 .. 10
    OBVIOUS
  <2>2. Start[p][r + 1] = Start[p][r] + Width(Kinds[p][r])
    BY StartOf
  <2> QED  BY <1>2, <1>3, <2>1, <2>2, StartOf
<1>6. ASSUME NEW b \in 1 .. n
      PROVE  net[p][b].bytes = Message(Other(p), o)[Expected[step]][b]
  <2>1. b \in 1 .. Len(net[p])
    BY <1>4
  <2>2. PICK bytes, messages : /\ bytes = net[p][b].bytes
                               /\ messages = Message(Other(p), o)
    OBVIOUS
  <2>3. SpelledBy(p, u + b, bytes, messages)
    BY <1>2, <1>5, <2>1, <2>2 DEF Contents
  <2>4. Start[p][r] < u + b /\ u + b <= Start[p][r + 1] /\ (u + b) - Start[p][r] = b
    BY <1>5
  <2>5. bytes = messages[Kinds[p][r]][(u + b) - Start[p][r]]
    BY ONLY <2>3, <2>4, r \in 1 .. 9 DEF SpelledBy
  <2> QED  BY ONLY <1>2, <2>2, <2>4, <2>5
<1> QED  BY <1>3, <1>6 DEF Received

-----------------------------------------------------------------------------
(* The invariant of the values, and what an action has to show for it *)

Environments ==
    /\ env \in [Party -> EnvType] /\ plain \in Inputs
    /\ \A p \in Party : Holds(p, pc[p], env[p], plain)
    /\ \A p \in Party : Agrees(p, pc[p], env[p], env[Other(p)])
Inv == IInv /\ Environments /\ Contents /\ WellFormed /\ InCapacity

\* The step of p at position k changes its environment from e to x as it should;
\* o is the peer's environment.
Fulfils(p, k, e, x, o, pl) ==
    Holds(p, k + 1, x, pl) /\ Agrees(p, k + 1, x, o) /\ Keeps(p, k, e, x)

\* How far the peer has come at least.
LEMMA PrecedesNow ==
    ASSUME IInv, NEW p \in Party
    PROVE  Precedes(p, pc[p], pc[Other(p)])
<1>1. pc[p] \in 1 .. 22 /\ Other(p) \in Party /\ pc[Other(p)] \in 1 .. 22
  BY Turns DEF IInv
<1>2. Reading(p) <= Writing(p)
  BY DEF IInv, Streams
<1>3. NextRead[p][pc[p]] <= NextWrite[Other(p)][pc[Other(p)]]
  BY <1>2 DEF Reading, Writing
<1>4. PICK k \in 1 .. 22, j \in 1 .. 22 : k = pc[p] /\ j = pc[Other(p)]
  BY <1>1
<1> QED  BY ONLY <1>3, <1>4, Preceding, p \in Party

\* After its step too.
LEMMA PrecedesNext ==
    ASSUME IInv, IInv', NEW p \in Party, Moves(p)
    PROVE  Precedes(p, pc[p] + 1, pc[Other(p)])
<1>1. PICK q \in Party : q = Other(p) /\ q # p /\ Other(q) = p
  BY Turns DEF IInv
<1>2. /\ pc[p] \in 1 .. 21 /\ pc[q] \in 1 .. 22
      /\ Reading(p)' = NextRead[p][pc[p] + 1] /\ Writing(p)' = Writing(p)
  BY <1>1, MovesTo, Turns DEF IInv
<1>3. Reading(p)' <= Writing(p)'
  BY DEF IInv, Streams
<1>4. NextRead[p][pc[p] + 1] <= NextWrite[q][pc[q]]
  BY <1>1, <1>2, <1>3 DEF Writing
<1>5. PICK k \in 1 .. 22, j \in 1 .. 22 : k = pc[p] + 1 /\ j = pc[q]
  BY <1>2
<1>6. Precedes(p, k, j)
  BY ONLY <1>1, <1>4, <1>5, Preceding, p \in Party
<1> QED  BY <1>1, <1>5, <1>6

\* A step that does, and leaves the messages on their way as they were or adds
\* its own, keeps the invariant.
LEMMA Carries ==
    ASSUME Inv, NEW p \in Party, Moves(p), NEW x, env' = [env EXCEPT ![p] = x],
           UNCHANGED plain, Fulfils(p, pc[p], env[p], x, env[Other(p)], plain)
    PROVE  Environments'
<1>1. PICK q \in Party : q = Other(p) /\ q # p /\ Other(q) = p
  BY Turns DEF Inv, IInv
<1>2. PICK k \in 1 .. 21, j \in 1 .. 22 :
         k = pc[p] /\ j = pc[q] /\ pc'[p] = k + 1 /\ pc'[q] = j
  <2>1. pc \in [Party -> 1 .. 22] /\ pc[p] <= 21 /\ pc' = [pc EXCEPT ![p] = @ + 1]
    BY DEF Inv, IInv, Types, Moves
  <2>2. pc[p] \in 1 .. 21 /\ pc[q] \in 1 .. 22 /\ pc'[p] = pc[p] + 1 /\ pc'[q] = pc[q]
    BY <1>1, <2>1
  <2> QED  BY <2>2
<1>3. PICK e, o : e = env[p] /\ o = env[q] /\ env'[p] = x /\ env'[q] = o
  BY <1>1 DEF Inv, Environments
<1>4. Holds(p, k + 1, x, plain) /\ Agrees(p, k + 1, x, o) /\ Keeps(p, k, e, x)
  BY <1>1, <1>2, <1>3 DEF Fulfils
<1>5. x \in EnvType /\ env' \in [Party -> EnvType] /\ plain' \in Inputs
  <2>1. x \in EnvType
    BY <1>4 DEF Holds
  <2> QED  BY <2>1 DEF Inv, Environments
<1>6. Holds(q, j, o, plain) /\ Agrees(q, j, o, e)
  BY <1>1, <1>2, <1>3 DEF Inv, Environments
<1>7. Precedes(q, j, k)
  BY <1>1, <1>2, PrecedesNow DEF Inv
<1>8. k \in 1 .. 22
  OBVIOUS
<1>9. Agrees(q, j, o, x)
  BY ONLY <1>1, <1>4, <1>6, <1>7, <1>8, AgreesKept, p \in Party, j \in 1 .. 22
<1>10. ASSUME NEW z \in Party
       PROVE  Holds(z, pc'[z], env'[z], plain') /\ Agrees(z, pc'[z], env'[z], env'[Other(z)])
  <2>1. CASE z = p
    BY <1>1, <1>2, <1>3, <1>4, <2>1
  <2>2. CASE z = q
    BY <1>1, <1>2, <1>3, <1>6, <1>9, <2>2
  <2> QED  BY <1>1, <2>1, <2>2 DEF Party
<1> QED  BY <1>5, <1>10 DEF Environments

\* The blocks spell the message of that kind which p's environment x contains.
Spelling(p, x, kind, blocks) ==
    \A b \in 1 .. Len(blocks) :
       /\ blocks[b].kind = kind
       /\ blocks[b].bytes = Message(p, x)[kind][b]
       /\ blocks[b].kind \in NumericKinds => blocks[b].bytes \in [1 .. BlockBytes -> Byte]

\* The three forms again.
LEMMA Sending ==
    ASSUME Inv, IInv', NEW p \in Party, NEW step \in DOMAIN Written,
           At(p, step), Advance(p), NEW x, env' = [env EXCEPT ![p] = x], UNCHANGED plain,
           Fulfils(p, pc[p], env[p], x, env[Other(p)], plain),
           NEW blocks, NEW T, blocks \in Seq(T), Send(p, blocks),
           Len(blocks) = Width(Written[step]),
           Spelling(p, x, Written[step], blocks)
    PROVE  Inv'
<1>1. Moves(p) /\ Steps[p][pc[p]] = step
  BY AtStep DEF Inv, IInv
<1>2. step \in DOMAIN Written \ DOMAIN Expected
  BY DEF Written, Expected
<1>3. Environments'
  BY <1>1, Carries
<1>4. Keeps(p, pc[p], env[p], x)
  BY DEF Fulfils
<1>5. IInv /\ Contents /\ WellFormed /\ InCapacity /\ env \in [Party -> EnvType]
  BY DEF Inv, Environments
<1>6. /\ Steps[p][pc[p]] \in DOMAIN Written \ DOMAIN Expected
      /\ Len(blocks) = Width(Written[Steps[p][pc[p]]])
      /\ \A b \in 1 .. Len(blocks) :
            /\ blocks[b].kind = Written[Steps[p][pc[p]]]
            /\ blocks[b].bytes = Message(p, x)[Written[Steps[p][pc[p]]]][b]
            /\ blocks[b].kind \in NumericKinds =>
                  blocks[b].bytes \in [1 .. BlockBytes -> Byte]
  BY <1>1, <1>2 DEF Spelling
<1>7. Moves(p) /\ blocks \in Seq(T) /\ Send(p, blocks) /\ env' = [env EXCEPT ![p] = x]
  BY <1>1
<1>8. Contents' /\ WellFormed' /\ InCapacity'
  BY ONLY <1>4, <1>5, <1>6, <1>7, WriteContents, p \in Party
<1> QED  BY <1>3, <1>8 DEF Inv

\* A reading step that fulfils its position keeps the invariant.
LEMMA Receiving ==
    ASSUME Inv, IInv', NEW p \in Party, NEW step \in DOMAIN Expected,
           Receive(p, step), Advance(p), NEW x, env' = [env EXCEPT ![p] = x], UNCHANGED plain,
           Fulfils(p, pc[p], env[p], x, env[Other(p)], plain)
    PROVE  Inv'
<1>1. At(p, step)
  BY DEF Receive
<1>2. Moves(p) /\ Steps[p][pc[p]] = step
  BY <1>1, AtStep DEF Inv, IInv
<1>3. step \in DOMAIN Expected \ DOMAIN Written
  BY DEF Written, Expected
<1>4. Environments'
  BY <1>2, Carries
<1>5. Keeps(p, pc[p], env[p], x)
  BY DEF Fulfils
<1>6. IInv /\ Contents /\ WellFormed /\ InCapacity /\ env \in [Party -> EnvType]
  BY DEF Inv, Environments
<1>7. PICK n : n = ExpectedBlocks(step)
  OBVIOUS
<1>8. /\ n = Width(Expected[step]) /\ Len(net[p]) >= n
      /\ net' = [net EXCEPT ![p] = SubSeq(@, n + 1, Len(@))]
  BY <1>7, WidthOfStep DEF Receive
<1>9. Contents' /\ WellFormed' /\ InCapacity'
  BY <1>2, <1>3, <1>5, <1>6, <1>8, ReadContents
<1> QED  BY <1>4, <1>9 DEF Inv

\* A step without messages that fulfils its position keeps the invariant.
LEMMA Working ==
    ASSUME Inv, IInv', NEW p \in Party, NEW step, step \notin DOMAIN Expected \cup DOMAIN Written,
           At(p, step), Advance(p), UNCHANGED <<net, plain>>,
           NEW x, env' = [env EXCEPT ![p] = x],
           Fulfils(p, pc[p], env[p], x, env[Other(p)], plain)
    PROVE  Inv'
<1>1. Moves(p) /\ Steps[p][pc[p]] = step
  BY AtStep DEF Inv, IInv
<1>2. Environments'
  BY <1>1, Carries
<1>3. Keeps(p, pc[p], env[p], x)
  BY DEF Fulfils
<1>4. IInv /\ Contents /\ WellFormed /\ InCapacity /\ env \in [Party -> EnvType]
  BY DEF Inv, Environments
<1>5. Contents' /\ WellFormed' /\ InCapacity'
  BY <1>1, <1>3, <1>4, LocalContents
<1> QED  BY <1>2, <1>5 DEF Inv

-----------------------------------------------------------------------------
(* The positions of the steps *)

\* The position of every step of the scripts.
LEMMA PositionIn ==
    ASSUME NEW p \in Party, NEW k \in 1 .. 21
    PROVE  /\ Steps[p][k] = "sendSeed" => k = 1
           /\ Steps[p][k] = "sendSquaresSeed" => k = 2
           /\ Steps[p][k] = "recvSeed" => k = 3
           /\ Steps[p][k] = "recvSquaresSeed" => k = 4
           /\ Steps[p][k] \in {"sendBaseKeys", "recvBasePoints", "recvBaseKeys",
                               "sendBasePoints"} => k \in 5 .. 8
           /\ Steps[p][k] = "drawDeltas" => k = 9
           /\ Steps[p][k] = "sendU" => k = AtSendU(p)
           /\ Steps[p][k] = "recvU" => k = AtRecvU(p)
           /\ Steps[p][k] = "sendOffset" => k = AtRecvU(p) + 1
           /\ Steps[p][k] = "recvOffset" => k = AtSendU(p) + 1
           /\ Steps[p][k] = "sendCor" => k = AtSendCor(p)
           /\ Steps[p][k] = "recvCor" => k = AtRecvCor(p)
           /\ Steps[p][k] = "triplets" => k = 16
           /\ Steps[p][k] \in {"setDatabase", "recvDatabase"} => k = 17
           /\ Steps[p][k] \in {"setFingerprint", "recvFingerprint"} => k = 18
           /\ Steps[p][k] = "mult" => k = 19
           /\ Steps[p][k] = "finalize" => k = 20
           /\ Steps[p][k] = "toYao" => k = 21
<1>1. CASE p = "server"
  BY <1>1 DEF Steps, AtSendU, AtRecvU, AtSendCor, AtRecvCor
<1>2. CASE p = "client"
  BY <1>2 DEF Steps, AtSendU, AtRecvU, AtSendCor, AtRecvCor
<1> QED  BY <1>1, <1>2 DEF Party

\* The step that a party takes.
LEMMA StepOf ==
    ASSUME IInv, NEW p \in Party, NEW step, At(p, step), Advance(p)
    PROVE  Moves(p) /\ pc[p] \in 1 .. 21 /\ Steps[p][pc[p]] = step
<1>1. Moves(p) /\ Steps[p][pc[p]] = step
  BY AtStep DEF IInv
<1>2. pc[p] \in 1 .. 21
  BY <1>1, MovesTo DEF IInv
<1> QED  BY <1>1, <1>2

\* The steps that leave the environment as it is.
LEMMA Idle ==
    ASSUME NEW p \in Party, NEW k \in 1 .. 21, NEW e, NEW o, NEW pl,
           Holds(p, k, e, pl), Agrees(p, k, e, o),
           k = 2 \/ k \in 5 .. 8 \/ k = AtRecvU(p) + 1 \/ k = AtSendU(p) + 1
    PROVE  Fulfils(p, k, e, e, o, pl)
<1>1. Keeps(p, k, e, e)
  BY DEF Keeps
<1>2. CASE p = "server"
  <2>1. k \in {2, 5, 6, 7, 8, 11, 14}
    BY <1>2 DEF AtSendU, AtRecvU
  <2>2. HoldsMasks(p, k + 1, e)
    BY <2>1 DEF Holds, HoldsMasks
  <2>3. HoldsKeys(p, k + 1, e)
    BY <1>2, <2>1 DEF Holds, HoldsKeys, AtSendU, AtRecvU, AtSendCor, AtRecvCor
  <2>4. HoldsShares(p, k + 1, e, pl)
    BY <2>1 DEF Holds, HoldsShares
  <2>5. HoldsResults(p, k + 1, e)
    BY <2>1 DEF Holds, HoldsResults
  <2>6. Agrees(p, k + 1, e, o)
    BY <1>2, <2>1 DEF Agrees, AtRecvU, AtRecvCor
  <2> QED  BY <1>1, <2>2, <2>3, <2>4, <2>5, <2>6 DEF Holds, Fulfils
<1>3. CASE p = "client"
  <2>1. k \in {2, 5, 6, 7, 8, 11, 14}
    BY <1>3 DEF AtSendU, AtRecvU
  <2>2. HoldsMasks(p, k + 1, e)
    BY <2>1 DEF Holds, HoldsMasks
  <2>3. HoldsKeys(p, k + 1, e)
    BY <1>3, <2>1 DEF Holds, HoldsKeys, AtSendU, AtRecvU, AtSendCor, AtRecvCor
  <2>4. HoldsShares(p, k + 1, e, pl)
    BY <2>1 DEF Holds, HoldsShares
  <2>5. HoldsResults(p, k + 1, e)
    BY <2>1 DEF Holds, HoldsResults
  <2>6. Agrees(p, k + 1, e, o)
    BY <1>3, <2>1 DEF Agrees, AtRecvU, AtRecvCor
  <2> QED  BY <1>1, <2>2, <2>3, <2>4, <2>5, <2>6 DEF Holds, Fulfils
<1> QED  BY <1>2, <1>3 DEF Party

-----------------------------------------------------------------------------
(* The seeds *)

\* Up to the ninth step only the seeds change.
OnlySeeds(e, x) ==
    \A f \in {"database", "fingerprint", "dSquareSum", "fingerprintSum", "keys",
               "received", "SenderOTsCor", "ReceiverOTs", "triplets", "multDeltas",
               "multShares", "distances", "yaoInput"} : x[f] = e[f]

\* A step that changes only seeds.
LEMMA SeedsOnly ==
    ASSUME NEW p \in Party, NEW k \in 1 .. 4, NEW e, NEW x, NEW pl,
           Holds(p, k, e, pl), x \in EnvType, OnlySeeds(e, x)
    PROVE  Holds(p, k + 1, x, pl)
<1>1. /\ x.database = e.database /\ x.fingerprint = e.fingerprint
      /\ x.dSquareSum = e.dSquareSum /\ x.fingerprintSum = e.fingerprintSum
      /\ x.keys = e.keys /\ x.received = e.received /\ x.SenderOTsCor = e.SenderOTsCor
      /\ x.ReceiverOTs = e.ReceiverOTs /\ x.triplets = e.triplets
      /\ x.multDeltas = e.multDeltas /\ x.multShares = e.multShares
      /\ x.distances = e.distances /\ x.yaoInput = e.yaoInput
  BY DEF OnlySeeds
<1>2. HoldsMasks(p, k + 1, x)
  BY <1>1 DEF Holds, HoldsMasks
<1>3. HoldsKeys(p, k + 1, x)
  BY <1>1 DEF Holds, HoldsKeys, AtSendU, AtRecvU, AtSendCor, AtRecvCor
<1>4. HoldsShares(p, k + 1, x, pl)
  BY <1>1 DEF Holds, HoldsShares
<1>5. HoldsResults(p, k + 1, x)
  BY <1>1 DEF Holds, HoldsResults
<1> QED  BY <1>2, <1>3, <1>4, <1>5 DEF Holds

WithSeeds(p, e, s, sq) == [e EXCEPT ![OwnSeed(p)] = s, ![OwnSquaresSeed(p)] = sq]
\* sendSeed fulfils its position.
LEMMA SeedSent ==
    ASSUME NEW p \in Party, NEW e, NEW o, NEW pl, NEW s \in Byte, NEW sq \in Byte, NEW x,
           Holds(p, 1, e, pl),
           x = WithSeeds(p, e, s, sq)
    PROVE  Fulfils(p, 1, e, x, o, pl) /\ x[OwnSeed(p)] = s /\ x[OwnSquaresSeed(p)] = sq
<1>1. e \in EnvType
  BY DEF Holds
<1>2. /\ OwnSeed(p) \in {"databaseSeed", "fingerprintSeed"}
      /\ OwnSquaresSeed(p) \in {"databaseSquaresSeed", "fingerprintSquaresSeed"}
  BY DEF OwnSeed, OwnSquaresSeed
<1>3. x \in EnvType /\ x[OwnSeed(p)] = s /\ x[OwnSquaresSeed(p)] = sq
  BY <1>1, <1>2 DEF EnvType, WithSeeds
<1>4. OnlySeeds(e, x)
  BY <1>1, <1>2 DEF EnvType, OnlySeeds, WithSeeds
<1>5. Holds(p, 1 + 1, x, pl)
  <2>1. 1 \in 1 .. 4
    OBVIOUS
  <2> QED  BY <1>3, <1>4, <2>1, SeedsOnly
<1>6. Agrees(p, 1 + 1, x, o)
  BY DEF Agrees, AtRecvU, AtRecvCor
<1>7. Keeps(p, 1, e, x)
  BY DEF Keeps, AtRecvU, AtSendU
<1> QED  BY <1>3, <1>5, <1>6, <1>7 DEF Fulfils

\* recvSeed fulfils its position.
LEMMA SeedTaken ==
    ASSUME NEW p \in Party, NEW e, NEW o \in EnvType, NEW pl, NEW x,
           Holds(p, 3, e, pl),
           x = [e EXCEPT ![OwnSeed(Other(p))] = o[OwnSeed(Other(p))]]
    PROVE  Fulfils(p, 3, e, x, o, pl)
<1>1. e \in EnvType
  BY DEF Holds
<1>2. /\ OwnSeed(Other(p)) \in {"databaseSeed", "fingerprintSeed"}
      /\ OwnSeed(Other(p)) # OwnSeed(p)
      /\ OwnSquaresSeed(p) \in {"databaseSquaresSeed", "fingerprintSquaresSeed"}
      /\ OwnSeed(p) \in {"databaseSeed", "fingerprintSeed"}
  BY DEF OwnSeed, OwnSquaresSeed, Other, Party
<1>3. x \in EnvType /\ x[OwnSeed(Other(p))] = o[OwnSeed(Other(p))]
  <2>1. o[OwnSeed(Other(p))] \in Byte
    BY <1>2 DEF EnvType
  <2> QED  BY <1>1, <1>2, <2>1 DEF EnvType
<1>4. OnlySeeds(e, x)
  BY <1>1, <1>2 DEF EnvType, OnlySeeds
<1>5. Holds(p, 3 + 1, x, pl)
  <2>1. 3 \in 1 .. 4
    OBVIOUS
  <2> QED  BY <1>3, <1>4, <2>1, SeedsOnly
<1>6. Agrees(p, 3 + 1, x, o)
  BY <1>3 DEF Agrees, AtRecvU, AtRecvCor
<1>7. x[OwnSeed(p)] = e[OwnSeed(p)] /\ x[OwnSquaresSeed(p)] = e[OwnSquaresSeed(p)]
  BY <1>1, <1>2 DEF EnvType
<1>8. Keeps(p, 3, e, x)
  BY <1>7 DEF Keeps, AtRecvU, AtSendU
<1> QED  BY <1>5, <1>6, <1>8 DEF Fulfils

\* recvSquaresSeed fulfils its position.
LEMMA SquaresSeedTaken ==
    ASSUME NEW p \in Party, NEW e, NEW o \in EnvType, NEW pl, NEW x,
           Holds(p, 4, e, pl), Agrees(p, 4, e, o),
           x = [e EXCEPT ![OwnSquaresSeed(Other(p))] = o[OwnSquaresSeed(Other(p))]]
    PROVE  Fulfils(p, 4, e, x, o, pl)
<1>1. e \in EnvType
  BY DEF Holds
<1>2. /\ OwnSeed(Other(p)) \in {"databaseSeed", "fingerprintSeed"}
      /\ OwnSquaresSeed(Other(p)) # OwnSquaresSeed(p)
      /\ OwnSquaresSeed(p) \in {"databaseSquaresSeed", "fingerprintSquaresSeed"}
      /\ OwnSquaresSeed(Other(p)) \in {"databaseSquaresSeed", "fingerprintSquaresSeed"}
      /\ OwnSeed(p) \in {"databaseSeed", "fingerprintSeed"}
  BY DEF OwnSeed, OwnSquaresSeed, Other, Party
<1>3. x \in EnvType /\ x[OwnSquaresSeed(Other(p))] = o[OwnSquaresSeed(Other(p))]
  <2>1. o[OwnSquaresSeed(Other(p))] \in Byte
    BY <1>2 DEF EnvType
  <2> QED  BY <1>1, <1>2, <2>1 DEF EnvType
<1>4. OnlySeeds(e, x)
  BY <1>1, <1>2 DEF EnvType, OnlySeeds
<1>5. Holds(p, 4 + 1, x, pl)
  <2>1. 4 \in 1 .. 4
    OBVIOUS
  <2> QED  BY <1>3, <1>4, <2>1, SeedsOnly
<1>6. /\ x[OwnSeed(p)] = e[OwnSeed(p)] /\ x[OwnSquaresSeed(p)] = e[OwnSquaresSeed(p)]
      /\ x[OwnSeed(Other(p))] = e[OwnSeed(Other(p))]
  BY <1>1, <1>2 DEF EnvType
<1>7. Agrees(p, 4 + 1, x, o)
  BY <1>3, <1>6 DEF Agrees, AtRecvU, AtRecvCor
<1>8. Keeps(p, 4, e, x)
  BY <1>6 DEF Keeps, AtRecvU, AtSendU
<1> QED  BY <1>5, <1>7, <1>8 DEF Fulfils

-----------------------------------------------------------------------------
(* The masks, the OT batches and the triplets *)

\* drawDeltas fulfils its position.
LEMMA Drawn ==
    ASSUME NEW p \in Party, NEW e, NEW o, NEW pl, NEW x,
           Holds(p, 9, e, pl), Agrees(p, 9, e, o),
           NEW db \in [Rows -> [Cols -> ShareType]], NEW fp \in [Cols -> ShareType],
           p = "client" => Masks(db) = SeedMasks(e.databaseSeed),
           p = "server" => VectorMasks(fp, Cols) = SeedColumns(e.fingerprintSeed),
           x = [e EXCEPT !.database = db, !.fingerprint = fp]
    PROVE  Fulfils(p, 9, e, x, o, pl)
<1>1. e \in EnvType
  BY DEF Holds
<1>2. db \in Matrices(ShareType) /\ fp \in Vectors(N, ShareType)
  BY DEF Matrices, Vectors, Cols
<1>3. x \in EnvType
  BY <1>1, <1>2 DEF EnvType
<1>4. /\ x.database = db /\ x.fingerprint = fp
      /\ x.dSquareSum = e.dSquareSum /\ x.fingerprintSum = e.fingerprintSum
      /\ x.keys = e.keys /\ x.received = e.received /\ x.SenderOTsCor = e.SenderOTsCor
      /\ x.ReceiverOTs = e.ReceiverOTs /\ x.triplets = e.triplets
      /\ x.multDeltas = e.multDeltas /\ x.multShares = e.multShares
      /\ x.distances = e.distances /\ x.yaoInput = e.yaoInput
      /\ x.databaseSeed = e.databaseSeed /\ x.databaseSquaresSeed = e.databaseSquaresSeed
      /\ x.fingerprintSeed = e.fingerprintSeed
      /\ x.fingerprintSquaresSeed = e.fingerprintSquaresSeed
  BY <1>1 DEF EnvType
<1>5. HoldsMasks(p, 9 + 1, x)
  BY <1>4 DEF HoldsMasks
<1>6. HoldsKeys(p, 9 + 1, x)
  BY <1>4 DEF Holds, HoldsKeys, AtSendU, AtRecvU, AtSendCor, AtRecvCor
<1>7. HoldsShares(p, 9 + 1, x, pl)
  BY <1>4 DEF Holds, HoldsShares
<1>8. HoldsResults(p, 9 + 1, x)
  BY <1>4 DEF Holds, HoldsResults
<1>9. /\ \A f \in {"databaseSeed", "fingerprintSeed", "databaseSquaresSeed",
                   "fingerprintSquaresSeed"} : x[f] = e[f]
      /\ \A q : /\ OwnSeed(q) \in {"databaseSeed", "fingerprintSeed"}
                /\ OwnSquaresSeed(q) \in {"databaseSquaresSeed", "fingerprintSquaresSeed"}
  BY <1>4 DEF OwnSeed, OwnSquaresSeed
<1>10. /\ x[OwnSeed(p)] = e[OwnSeed(p)] /\ x[OwnSeed(Other(p))] = e[OwnSeed(Other(p))]
       /\ x[OwnSquaresSeed(p)] = e[OwnSquaresSeed(p)]
       /\ x[OwnSquaresSeed(Other(p))] = e[OwnSquaresSeed(Other(p))]
  BY <1>9
<1>11. Agrees(p, 9 + 1, x, o)
  BY <1>10 DEF Agrees, AtRecvU, AtRecvCor
<1>12. Keeps(p, 9, e, x)
  BY <1>10 DEF Keeps, AtRecvU, AtSendU
<1> QED  BY <1>3, <1>5, <1>6, <1>7, <1>8, <1>11, <1>12 DEF Fulfils, Holds

\* The OT batches and the triplets change one field each.
OnlyOTs(e, x) ==
    \A f \in {"database", "fingerprint", "dSquareSum", "fingerprintSum", "multDeltas",
              "multShares", "distances", "yaoInput", "databaseSeed", "fingerprintSeed",
              "databaseSquaresSeed", "fingerprintSquaresSeed"} : x[f] = e[f]

\* A step that changes only what belongs to the OTs.
LEMMA OTsOnly ==
    ASSUME NEW p \in Party, NEW k \in 10 .. 16, NEW e, NEW x, NEW pl,
           Holds(p, k, e, pl), OnlyOTs(e, x)
    PROVE  /\ HoldsMasks(p, k + 1, x)
           /\ HoldsShares(p, k + 1, x, pl)
           /\ HoldsResults(p, k + 1, x)
           /\ x.database = e.database /\ x.fingerprint = e.fingerprint
           /\ x[OwnSeed(p)] = e[OwnSeed(p)] /\ x[OwnSeed(Other(p))] = e[OwnSeed(Other(p))]
           /\ x[OwnSquaresSeed(p)] = e[OwnSquaresSeed(p)]
           /\ x[OwnSquaresSeed(Other(p))] = e[OwnSquaresSeed(Other(p))]
<1>1. /\ x.database = e.database /\ x.fingerprint = e.fingerprint
      /\ x.dSquareSum = e.dSquareSum /\ x.fingerprintSum = e.fingerprintSum
      /\ x.multDeltas = e.multDeltas /\ x.multShares = e.multShares
      /\ x.distances = e.distances /\ x.yaoInput = e.yaoInput
      /\ x.databaseSeed = e.databaseSeed /\ x.databaseSquaresSeed = e.databaseSquaresSeed
      /\ x.fingerprintSeed = e.fingerprintSeed
      /\ x.fingerprintSquaresSeed = e.fingerprintSquaresSeed
  BY DEF OnlyOTs
<1>2. HoldsMasks(p, k + 1, x)
  BY <1>1 DEF Holds, HoldsMasks
<1>3. HoldsShares(p, k + 1, x, pl)
  BY <1>1 DEF Holds, HoldsShares
<1>4. HoldsResults(p, k + 1, x)
  BY <1>1 DEF Holds, HoldsResults
<1>5. \A q : /\ OwnSeed(q) \in {"databaseSeed", "fingerprintSeed"}
             /\ OwnSquaresSeed(q) \in {"databaseSquaresSeed", "fingerprintSquaresSeed"}
  BY DEF OwnSeed, OwnSquaresSeed
<1>6. /\ x[OwnSeed(p)] = e[OwnSeed(p)] /\ x[OwnSeed(Other(p))] = e[OwnSeed(Other(p))]
      /\ x[OwnSquaresSeed(p)] = e[OwnSquaresSeed(p)]
      /\ x[OwnSquaresSeed(Other(p))] = e[OwnSquaresSeed(Other(p))]
  BY <1>5 DEF OnlyOTs
<1> QED  BY <1>1, <1>2, <1>3, <1>4, <1>6

\* sendU fulfils its position.
LEMMA USent ==
    ASSUME NEW p \in Party, NEW k, k = AtSendU(p), NEW e, NEW o, NEW pl, NEW x,
           Holds(p, k, e, pl), Agrees(p, k, e, o),
           NEW keys \in [0 .. NumBaseBits - 1 -> WireValue],
           x = [e EXCEPT !.received = keys]
    PROVE  Fulfils(p, k, e, x, o, pl)
<1>1. e \in EnvType
  BY DEF Holds
<1>2. x \in EnvType
  <2>1. keys \in Vectors(NumBaseBits, WireValue)
    BY DEF Vectors
  <2> QED  BY <1>1, <2>1 DEF EnvType
<1>3. OnlyOTs(e, x)
  BY <1>1 DEF EnvType, OnlyOTs
<1>4. /\ x.received = keys /\ x.keys = e.keys /\ x.SenderOTsCor = e.SenderOTsCor
      /\ x.ReceiverOTs = e.ReceiverOTs /\ x.triplets = e.triplets
  BY <1>1 DEF EnvType
<1>5. k \in 10 .. 16 /\ ((p = "server" /\ k = 10) \/ (p = "client" /\ k = 13))
  <2>1. p = "server" \/ p = "client"
    BY DEF Party
  <2>2. (p = "server" /\ k = 10) \/ (p = "client" /\ k = 13)
    BY <2>1 DEF AtSendU
  <2> QED  BY ONLY <2>2
<1>6. /\ HoldsMasks(p, k + 1, x) /\ HoldsShares(p, k + 1, x, pl) /\ HoldsResults(p, k + 1, x)
      /\ x.database = e.database /\ x.fingerprint = e.fingerprint
      /\ x[OwnSeed(p)] = e[OwnSeed(p)] /\ x[OwnSeed(Other(p))] = e[OwnSeed(Other(p))]
      /\ x[OwnSquaresSeed(p)] = e[OwnSquaresSeed(p)]
      /\ x[OwnSquaresSeed(Other(p))] = e[OwnSquaresSeed(Other(p))]
  BY <1>3, <1>5, OTsOnly
<1>7. HoldsKeys(p, k + 1, x)
  BY <1>4, <1>5, <1>6 DEF Holds, HoldsKeys, AtSendU, AtRecvU, AtSendCor, AtRecvCor
<1>8. Agrees(p, k + 1, x, o)
  BY <1>4, <1>5, <1>6 DEF Agrees, AtRecvU, AtRecvCor
<1>9. Keeps(p, k, e, x)
  BY <1>4, <1>5, <1>6 DEF Keeps, AtRecvU, AtSendU
<1> QED  BY <1>2, <1>6, <1>7, <1>8, <1>9 DEF Fulfils, Holds

\* The keys that the peer's message makes a party's keys agree with.
KeysOf(keys, choices, others) ==
    [b \in 0 .. NumBaseBits - 1 |-> [c \in 0 .. 1 |->
        IF c = choices[b] THEN keys[b] ELSE others[b]]]

\* recvU fulfils its position.
LEMMA UTaken ==
    ASSUME NEW p \in Party, NEW k, k = AtRecvU(p), NEW e, NEW o, NEW pl, NEW x,
           Holds(p, k, e, pl), Agrees(p, k, e, o),
           o.fingerprint \in [Cols -> ShareType],
           o.received \in [0 .. NumBaseBits - 1 -> WireValue],
           NEW others \in [0 .. NumBaseBits - 1 -> WireValue],
           x = [e EXCEPT !.keys = KeysOf(o.received, ChoiceOf(VectorMasks(o.fingerprint, Cols)),
                                         others)]
    PROVE  Fulfils(p, k, e, x, o, pl)
<1>1. e \in EnvType
  BY DEF Holds
<1>2. PICK choices, received, keys :
         /\ choices = ChoiceOf(VectorMasks(o.fingerprint, Cols)) /\ received = o.received
         /\ keys = KeysOf(received, choices, others)
  OBVIOUS
<1>3. choices \in [0 .. NumBaseBits - 1 -> {0, 1}]
  BY <1>2, VectorTypes, ChoiceType
<1>4. /\ keys \in [0 .. NumBaseBits - 1 -> [0 .. 1 -> WireValue]]
      /\ \A b \in 0 .. NumBaseBits - 1 : keys[b][choices[b]] = received[b]
  <2>1. received \in [0 .. NumBaseBits - 1 -> WireValue]
    BY <1>2
  <2>2. {0, 1} = 0 .. 1
    OBVIOUS
  <2> QED  BY ONLY <1>2, <1>3, <2>1, <2>2, others \in [0 .. NumBaseBits - 1 -> WireValue]
           DEF KeysOf
<1>5. x \in EnvType
  <2>1. keys \in Vectors(NumBaseBits, [0 .. 1 -> WireValue])
    BY <1>4 DEF Vectors
  <2> QED  BY <1>1, <1>2, <2>1 DEF EnvType
<1>6. OnlyOTs(e, x)
  BY <1>1 DEF EnvType, OnlyOTs
<1>7. /\ x.keys = keys /\ x.received = e.received /\ x.SenderOTsCor = e.SenderOTsCor
      /\ x.ReceiverOTs = e.ReceiverOTs /\ x.triplets = e.triplets
  BY <1>1, <1>2 DEF EnvType
<1>8. k \in 10 .. 16 /\ ((p = "server" /\ k = 13) \/ (p = "client" /\ k = 10))
  <2>1. p = "server" \/ p = "client"
    BY DEF Party
  <2>2. (p = "server" /\ k = 13) \/ (p = "client" /\ k = 10)
    BY <2>1 DEF AtRecvU
  <2> QED  BY ONLY <2>2
<1>9. /\ HoldsMasks(p, k + 1, x) /\ HoldsShares(p, k + 1, x, pl) /\ HoldsResults(p, k + 1, x)
      /\ x.database = e.database /\ x.fingerprint = e.fingerprint
      /\ x[OwnSeed(p)] = e[OwnSeed(p)] /\ x[OwnSeed(Other(p))] = e[OwnSeed(Other(p))]
      /\ x[OwnSquaresSeed(p)] = e[OwnSquaresSeed(p)]
      /\ x[OwnSquaresSeed(Other(p))] = e[OwnSquaresSeed(Other(p))]
  BY <1>6, <1>8, OTsOnly
<1>10. HoldsKeys(p, k + 1, x)
  BY <1>4, <1>7, <1>8, <1>9 DEF Holds, HoldsKeys, AtSendU, AtRecvU, AtSendCor, AtRecvCor
<1>11. Agrees(p, k + 1, x, o)
  BY <1>2, <1>4, <1>7, <1>8, <1>9 DEF Agrees, AtRecvU, AtRecvCor
<1>12. Keeps(p, k, e, x)
  BY <1>7, <1>8, <1>9 DEF Keeps, AtRecvU, AtSendU
<1> QED  BY <1>5, <1>9, <1>10, <1>11, <1>12 DEF Fulfils, Holds

\* sendCor fulfils its position.
LEMMA CorSent ==
    ASSUME NEW p \in Party, NEW k, k = AtSendCor(p), NEW e, NEW o, NEW pl, NEW x,
           Holds(p, k, e, pl), Agrees(p, k, e, o),
           x = [e EXCEPT !.SenderOTsCor = FirstKeys(e.keys)]
    PROVE  /\ Fulfils(p, k, e, x, o, pl)
           /\ x.keys = e.keys /\ x.database = e.database
           /\ CorOf(e.keys, Masks(e.database)) \in [OTs -> WireValue]
<1>1. e \in EnvType
  BY DEF Holds
<1>2. k \in 10 .. 16 /\ ((p = "server" /\ k = 15) \/ (p = "client" /\ k = 12)) /\ k > 9
  <2>1. p = "server" \/ p = "client"
    BY DEF Party
  <2>2. (p = "server" /\ k = 15) \/ (p = "client" /\ k = 12)
    BY <2>1 DEF AtSendCor
  <2> QED  BY ONLY <2>2
<1>3. /\ FirstKeys(e.keys) \in [OTs -> WireValue]
      /\ CorOf(e.keys, Masks(e.database)) \in [OTs -> WireValue]
  <2>1. e.keys \in [0 .. NumBaseBits - 1 -> [0 .. 1 -> WireValue]]
    BY <1>2 DEF Holds, HoldsKeys, AtRecvU
  <2>2. Masks(e.database) \in [Rows -> [Cols -> Element]]
    BY <1>2, VectorsTyped
  <2> QED  BY <2>1, <2>2, CorType
<1>4. x \in EnvType
  <2>1. FirstKeys(e.keys) \in Vectors(NumOTs, WireValue)
    BY <1>3 DEF Vectors, OTs
  <2> QED  BY <1>1, <2>1 DEF EnvType
<1>5. OnlyOTs(e, x)
  BY <1>1 DEF EnvType, OnlyOTs
<1>6. /\ x.SenderOTsCor = FirstKeys(e.keys) /\ x.received = e.received /\ x.keys = e.keys
      /\ x.ReceiverOTs = e.ReceiverOTs /\ x.triplets = e.triplets
  BY <1>1 DEF EnvType
<1>7. /\ HoldsMasks(p, k + 1, x) /\ HoldsShares(p, k + 1, x, pl) /\ HoldsResults(p, k + 1, x)
      /\ x.database = e.database /\ x.fingerprint = e.fingerprint
      /\ x[OwnSeed(p)] = e[OwnSeed(p)] /\ x[OwnSeed(Other(p))] = e[OwnSeed(Other(p))]
      /\ x[OwnSquaresSeed(p)] = e[OwnSquaresSeed(p)]
      /\ x[OwnSquaresSeed(Other(p))] = e[OwnSquaresSeed(Other(p))]
  BY <1>2, <1>5, OTsOnly
<1>8. HoldsKeys(p, k + 1, x)
  BY <1>2, <1>6, <1>7 DEF Holds, HoldsKeys, AtSendU, AtRecvU, AtSendCor, AtRecvCor
<1>9. Agrees(p, k + 1, x, o)
  BY <1>2, <1>6, <1>7 DEF Agrees, AtRecvU, AtRecvCor
<1>10. Keeps(p, k, e, x)
  BY <1>2, <1>6, <1>7 DEF Keeps, AtRecvU, AtSendU
<1> QED  BY <1>3, <1>4, <1>6, <1>7, <1>8, <1>9, <1>10 DEF Fulfils, Holds

\* recvCor fulfils its position.
LEMMA CorTaken ==
    ASSUME NEW p \in Party, NEW k, k = AtRecvCor(p), NEW e, NEW o, NEW pl, NEW x,
           Holds(p, k, e, pl), Agrees(p, k, e, o),
           CorOf(o.keys, Masks(o.database)) \in [OTs -> WireValue],
           x = [e EXCEPT !.ReceiverOTs =
                   ResultOf(e.received, ChoiceOf(VectorMasks(e.fingerprint, Cols)),
                            CorOf(o.keys, Masks(o.database)))]
    PROVE  Fulfils(p, k, e, x, o, pl)
<1>1. e \in EnvType
  BY DEF Holds
<1>2. k \in 10 .. 16 /\ ((p = "server" /\ k = 12) \/ (p = "client" /\ k = 15))
  <2>1. p = "server" \/ p = "client"
    BY DEF Party
  <2>2. (p = "server" /\ k = 12) \/ (p = "client" /\ k = 15)
    BY <2>1 DEF AtRecvCor
  <2> QED  BY ONLY <2>2
<1>3. PICK results, choice, cor :
         /\ choice = ChoiceOf(VectorMasks(e.fingerprint, Cols))
         /\ cor = CorOf(o.keys, Masks(o.database))
         /\ results = ResultOf(e.received, choice, cor)
  OBVIOUS
<1>4. results \in [OTs -> WireValue]
  <2>1. PICK received : received = e.received
    OBVIOUS
  <2>2. received \in [0 .. NumBaseBits - 1 -> WireValue]
    BY <1>2, <2>1 DEF Holds, HoldsKeys, AtSendU
  <2>3. cor \in [OTs -> WireValue]
    BY <1>3
  <2>4. ASSUME NEW it \in OTs
        PROVE  /\ received[KeyIndex(it)] \in WireValue
               /\ Xor(received[KeyIndex(it)], cor[it]) \in WireValue
    <3>1. KeyIndex(it) \in 0 .. NumBaseBits - 1
      BY OTIndex
    <3>2. received[KeyIndex(it)] \in WireValue /\ cor[it] \in WireValue
      BY ONLY <2>2, <2>3, <3>1, it \in OTs
    <3> QED  BY <3>2, XorIs
  <2> QED  BY ONLY <1>3, <2>1, <2>4 DEF ResultOf
<1>5. x \in EnvType
  <2>1. results \in Vectors(NumOTs, WireValue)
    BY <1>4 DEF Vectors, OTs
  <2> QED  BY <1>1, <1>3, <2>1 DEF EnvType
<1>6. OnlyOTs(e, x)
  BY <1>1 DEF EnvType, OnlyOTs
<1>7. /\ x.ReceiverOTs = results /\ x.received = e.received /\ x.keys = e.keys
      /\ x.SenderOTsCor = e.SenderOTsCor /\ x.triplets = e.triplets
  BY <1>1, <1>3 DEF EnvType
<1>8. /\ HoldsMasks(p, k + 1, x) /\ HoldsShares(p, k + 1, x, pl) /\ HoldsResults(p, k + 1, x)
      /\ x.database = e.database /\ x.fingerprint = e.fingerprint
      /\ x[OwnSeed(p)] = e[OwnSeed(p)] /\ x[OwnSeed(Other(p))] = e[OwnSeed(Other(p))]
      /\ x[OwnSquaresSeed(p)] = e[OwnSquaresSeed(p)]
      /\ x[OwnSquaresSeed(Other(p))] = e[OwnSquaresSeed(Other(p))]
  BY <1>2, <1>6, OTsOnly
<1>9. HoldsKeys(p, k + 1, x)
  BY <1>2, <1>4, <1>7, <1>8 DEF Holds, HoldsKeys, AtSendU, AtRecvU, AtSendCor, AtRecvCor
<1>10. Agrees(p, k + 1, x, o)
  BY <1>2, <1>3, <1>7, <1>8 DEF Agrees, AtRecvU, AtRecvCor
<1>11. Keeps(p, k, e, x)
  BY <1>2, <1>7, <1>8 DEF Keeps, AtRecvU, AtSendU
<1> QED  BY <1>5, <1>8, <1>9, <1>10, <1>11 DEF Fulfils, Holds

\* The triplets a party makes are ring elements.
LEMMA TripletsTyped ==
    ASSUME NEW p \in Party, NEW k \in Nat, k > 15, NEW e, NEW pl, Holds(p, k, e, pl)
    PROVE  TripletsOf(Masks(e.database), VectorMasks(e.fingerprint, Cols), e.ReceiverOTs,
                      e.SenderOTsCor) \in [Rows -> [Cols -> Element]]
<1>1. PICK masks, columns, results, kept :
         /\ masks = Masks(e.database) /\ columns = VectorMasks(e.fingerprint, Cols)
         /\ results = e.ReceiverOTs /\ kept = e.SenderOTsCor
  OBVIOUS
<1>2. masks \in [Rows -> [Cols -> Element]] /\ columns \in [Cols -> Element]
  <2>1. k > 9
    OBVIOUS
  <2> QED  BY <1>1, <2>1, VectorsTyped
<1>3. results \in [OTs -> WireValue]
  BY <1>1 DEF Holds, HoldsKeys, AtRecvCor
<1>4. kept \in [OTs -> WireValue]
  <2>1. /\ e.keys \in [0 .. NumBaseBits - 1 -> [0 .. 1 -> WireValue]]
        /\ kept = FirstKeys(e.keys)
    BY <1>1 DEF Holds, HoldsKeys, AtRecvU, AtSendCor
  <2> QED  BY <1>2, <2>1, CorType
<1>5. \A i \in Rows, j \in Cols : TripletOf(masks, columns, results, kept, i, j) \in Element
  BY ONLY <1>2, <1>3, <1>4, TripletIs
<1>6. TripletsOf(masks, columns, results, kept) \in [Rows -> [Cols -> Element]]
  BY ONLY <1>5 DEF TripletsOf
<1> QED  BY <1>1, <1>6

\* triplets fulfils its position.
LEMMA TripletsMade ==
    ASSUME NEW p \in Party, NEW e, NEW o, NEW pl, NEW x,
           Holds(p, 16, e, pl), Agrees(p, 16, e, o),
           x = [e EXCEPT !.triplets = TripletsOf(Masks(e.database),
                            VectorMasks(e.fingerprint, Cols), e.ReceiverOTs, e.SenderOTsCor)]
    PROVE  Fulfils(p, 16, e, x, o, pl)
<1>1. e \in EnvType
  BY DEF Holds
<1>2. PICK masks, columns, results, kept, triplets :
         /\ masks = Masks(e.database) /\ columns = VectorMasks(e.fingerprint, Cols)
         /\ results = e.ReceiverOTs /\ kept = e.SenderOTsCor
         /\ triplets = TripletsOf(masks, columns, results, kept)
  OBVIOUS
<1>3. triplets \in [Rows -> [Cols -> Element]]
  <2>1. 16 \in Nat /\ 16 > 15
    OBVIOUS
  <2> QED  BY <1>2, <2>1, TripletsTyped
<1>4. x \in EnvType
  <2>1. triplets \in Matrices(Element)
    BY <1>3 DEF Matrices
  <2> QED  BY <1>1, <1>2, <2>1 DEF EnvType
<1>5. OnlyOTs(e, x)
  BY <1>1 DEF EnvType, OnlyOTs
<1>6. /\ x.triplets = triplets /\ x.received = e.received /\ x.keys = e.keys
      /\ x.SenderOTsCor = e.SenderOTsCor /\ x.ReceiverOTs = e.ReceiverOTs
  BY <1>1, <1>2 DEF EnvType
<1>7. /\ HoldsMasks(p, 16 + 1, x) /\ HoldsShares(p, 16 + 1, x, pl) /\ HoldsResults(p, 16 + 1, x)
      /\ x.database = e.database /\ x.fingerprint = e.fingerprint
      /\ x[OwnSeed(p)] = e[OwnSeed(p)] /\ x[OwnSeed(Other(p))] = e[OwnSeed(Other(p))]
      /\ x[OwnSquaresSeed(p)] = e[OwnSquaresSeed(p)]
      /\ x[OwnSquaresSeed(Other(p))] = e[OwnSquaresSeed(Other(p))]
  <2>1. 16 \in 10 .. 16
    OBVIOUS
  <2> QED  BY <1>5, <2>1, OTsOnly
<1>8. HoldsKeys(p, 16 + 1, x)
  BY <1>2, <1>6, <1>7 DEF Holds, HoldsKeys, AtSendU, AtRecvU, AtSendCor, AtRecvCor
<1>9. Agrees(p, 16 + 1, x, o)
  BY <1>6, <1>7 DEF Agrees, AtRecvU, AtRecvCor
<1>10. Keeps(p, 16, e, x)
  BY <1>6, <1>7 DEF Keeps, AtRecvU, AtSendU
<1> QED  BY <1>4, <1>7, <1>8, <1>9, <1>10 DEF Fulfils, Holds

-----------------------------------------------------------------------------
(* The sharing of the database and of the fingerprint *)

\* The database message has the capital deltas of a row and of its sum in a row.
LEMMA DatabasePlace ==
    ASSUME NEW i \in Rows, NEW j \in 0 .. N
    PROVE  /\ Cell(i, j) \in 0 .. (M * N + M) - 1
           /\ Cell(i, j) \div (N + 1) = i /\ Cell(i, j) % (N + 1) = j
<1>1. M \in Nat \ {0} /\ N \in Nat \ {0} /\ i \in 0 .. M - 1
  BY RingType DEF Rows
<1>2. PICK n \in Nat \ {0} : n = N + 1
  BY <1>1
<1>3. PICK c \in Int : c = i * n + j
  BY <1>1, <1>2
<1>4. Cell(i, j) = c
  BY <1>2, <1>3 DEF Cell
<1>5. j \in 0 .. n - 1 /\ i \in Int
  BY <1>1, <1>2
<1>6. c % n = j /\ c \div n = i
  BY ONLY <1>3, <1>5, DivisionUnique, n \in Nat \ {0}, c \in Int
<1>7. i * n >= 0 /\ i * n <= (M - 1) * n /\ (M - 1) * n = M * n - n /\ i * n \in Int
  BY ONLY <1>1, n \in Nat \ {0}, SMTT(30)
<1>8. PICK u \in Int, v \in Int : u = i * n /\ v = M * n
  BY <1>1, <1>7
<1>9. c >= 0 /\ c <= v - 1
  <2>1. c = u + j /\ u >= 0 /\ u <= v - n
    BY ONLY <1>3, <1>7, <1>8
  <2>2. j \in Int /\ j >= 0 /\ j <= n - 1
    BY <1>5
  <2> QED  BY ONLY <2>1, <2>2, u \in Int, v \in Int, n \in Nat \ {0}
<1>10. v = M * N + M
  BY <1>2, <1>8, Sizes
<1>11. c \in 0 .. v - 1
  BY ONLY <1>9, c \in Int, v \in Int
<1> QED  BY ONLY <1>2, <1>4, <1>6, <1>10, <1>11

\* And every place of it belongs to one.
LEMMA DatabaseCell ==
    ASSUME NEW c \in 0 .. (M * N + M) - 1
    PROVE  /\ c \div (N + 1) \in Rows /\ c % (N + 1) \in 0 .. N
           /\ (c % (N + 1) < N => c % (N + 1) \in Cols)
<1>1. PICK m \in Nat \ {0}, n \in Nat \ {0} : m = M /\ n = N + 1 /\ N = n - 1 /\ N \in Nat
  BY Sizes
<1>2. c \in 0 .. m * n - 1
  BY <1>1, Sizes
<1>3. c \div n \in 0 .. m - 1 /\ c % n \in 0 .. n - 1
  BY <1>2, PairPosition
<1>4. PICK r \in 0 .. n - 1 : r = c % n
  BY <1>3
<1>5. r \in 0 .. N /\ (r < N => r \in 0 .. N - 1)
  BY <1>1
<1> QED  BY <1>1, <1>3, <1>4, <1>5 DEF Rows, Cols

\* The values of the database message, cell by cell.
LEMMA DatabaseTyped ==
    ASSUME NEW dc \in [Rows -> [Cols -> Element]], NEW sums \in [Rows -> Element]
    PROVE  /\ DatabaseOf(dc, sums) \in [0 .. (M * N + M) - 1 -> WireValue]
           /\ \A i \in Rows :
                 /\ DatabaseOf(dc, sums)[Cell(i, N)] = sums[i]
                 /\ \A j \in Cols : DatabaseOf(dc, sums)[Cell(i, j)] = dc[i][j]
<1>1. DatabaseOf(dc, sums) =
         [c \in 0 .. (M * N + M) - 1 |->
             IF c % (N + 1) < N THEN dc[c \div (N + 1)][c % (N + 1)] ELSE sums[c \div (N + 1)]]
  BY Sizes DEF DatabaseOf
<1>2. ASSUME NEW c \in 0 .. (M * N + M) - 1
      PROVE  (IF c % (N + 1) < N THEN dc[c \div (N + 1)][c % (N + 1)]
                                 ELSE sums[c \div (N + 1)]) \in WireValue
  <2>1. c \div (N + 1) \in Rows /\ (c % (N + 1) < N => c % (N + 1) \in Cols)
    BY DatabaseCell
  <2>2. PICK i, k : i \in Rows /\ i = c \div (N + 1) /\ k = c % (N + 1) /\ (k < N => k \in Cols)
    BY <2>1
  <2>3. (IF k < N THEN dc[i][k] ELSE sums[i]) \in WireValue
    BY <2>2, ElementInt
  <2> QED  BY ONLY <2>2, <2>3
<1>3. ASSUME NEW i \in Rows, NEW j \in 0 .. N
      PROVE  DatabaseOf(dc, sums)[Cell(i, j)] = IF j < N THEN dc[i][j] ELSE sums[i]
  <2>1. PICK c \in 0 .. (M * N + M) - 1 :
           c = Cell(i, j) /\ c \div (N + 1) = i /\ c % (N + 1) = j
    BY DatabasePlace
  <2> QED  BY ONLY <1>1, <2>1
<1>4. ASSUME NEW i \in Rows
      PROVE  DatabaseOf(dc, sums)[Cell(i, N)] = sums[i]
  <2>1. N \in 0 .. N /\ ~(N < N)
    BY Sizes
  <2> QED  BY <1>3, <2>1
<1>5. ASSUME NEW i \in Rows, NEW j \in Cols
      PROVE  DatabaseOf(dc, sums)[Cell(i, j)] = dc[i][j]
  <2>1. j \in 0 .. N /\ j < N
    BY Sizes DEF Cols
  <2> QED  BY <1>3, <2>1
<1> QED  BY <1>1, <1>2, <1>4, <1>5

\* The values of the fingerprint message.
LEMMA FingerprintTyped ==
    ASSUME NEW fc \in [Cols -> Element], NEW sum \in Element
    PROVE  /\ FingerprintOf(fc, sum) \in [0 .. (N + 1) - 1 -> WireValue]
           /\ FingerprintOf(fc, sum)[N] = sum
           /\ \A j \in Cols : FingerprintOf(fc, sum)[j] = fc[j]
<1>1. N \in Nat /\ (N + 1) - 1 = N
  BY Sizes
<1>2. ASSUME NEW j \in 0 .. N PROVE (IF j < N THEN fc[j] ELSE sum) \in WireValue
  <2>1. j < N => j \in Cols
    BY <1>1 DEF Cols
  <2> QED  BY <2>1, ElementInt
<1>3. FingerprintOf(fc, sum) \in [0 .. N -> WireValue]
  BY <1>2 DEF FingerprintOf
<1>4. FingerprintOf(fc, sum)[N] = sum
  BY <1>1 DEF FingerprintOf
<1>5. \A j \in Cols : FingerprintOf(fc, sum)[j] = fc[j]
  BY <1>1 DEF FingerprintOf, Cols
<1> QED  BY <1>1, <1>3, <1>4, <1>5

\* From the OTs on only the shares and the results change.
OnlyShares(e, x) ==
    \A f \in {"keys", "received", "SenderOTsCor", "ReceiverOTs", "triplets", "databaseSeed",
              "fingerprintSeed", "databaseSquaresSeed", "fingerprintSquaresSeed"} : x[f] = e[f]

\* A step after the triples leaves masks, keys and seeds.
LEMMA SharesOnly ==
    ASSUME NEW p \in Party, NEW k \in 17 .. 21, NEW e, NEW x, NEW pl, NEW o,
           Holds(p, k, e, pl), Agrees(p, k, e, o), OnlyShares(e, x),
           x.database \in [Rows -> [Cols -> ShareType]], x.fingerprint \in [Cols -> ShareType],
           Masks(x.database) = Masks(e.database),
           VectorMasks(x.fingerprint, Cols) = VectorMasks(e.fingerprint, Cols)
    PROVE  /\ HoldsMasks(p, k + 1, x)
           /\ HoldsKeys(p, k + 1, x)
           /\ x[OwnSeed(p)] = e[OwnSeed(p)] /\ x[OwnSquaresSeed(p)] = e[OwnSquaresSeed(p)]
           /\ x[OwnSeed(Other(p))] = o[OwnSeed(Other(p))]
           /\ x[OwnSquaresSeed(Other(p))] = o[OwnSquaresSeed(Other(p))]
           /\ \A b \in 0 .. NumBaseBits - 1 :
                 x.keys[b][ChoiceOf(VectorMasks(o.fingerprint, Cols))[b]] = o.received[b]
           /\ x.ReceiverOTs = ResultOf(x.received, ChoiceOf(VectorMasks(x.fingerprint, Cols)),
                                       CorOf(o.keys, Masks(o.database)))
           /\ x.keys = e.keys /\ x.received = e.received
<1>1. /\ x.keys = e.keys /\ x.received = e.received /\ x.SenderOTsCor = e.SenderOTsCor
      /\ x.ReceiverOTs = e.ReceiverOTs /\ x.triplets = e.triplets
      /\ x.databaseSeed = e.databaseSeed /\ x.fingerprintSeed = e.fingerprintSeed
  BY DEF OnlyShares
<1>2. HoldsMasks(p, k + 1, x)
  BY <1>1 DEF Holds, HoldsMasks
<1>3. HoldsKeys(p, k + 1, x)
  BY <1>1 DEF Holds, HoldsKeys, AtSendU, AtRecvU, AtSendCor, AtRecvCor
<1>4. /\ OwnSeed(p) \in {"databaseSeed", "fingerprintSeed"}
      /\ OwnSeed(Other(p)) \in {"databaseSeed", "fingerprintSeed"}
      /\ OwnSquaresSeed(p) \in {"databaseSquaresSeed", "fingerprintSquaresSeed"}
      /\ OwnSquaresSeed(Other(p)) \in {"databaseSquaresSeed", "fingerprintSquaresSeed"}
  BY DEF OwnSeed, OwnSquaresSeed
<1>5. /\ x[OwnSeed(p)] = e[OwnSeed(p)] /\ x[OwnSquaresSeed(p)] = e[OwnSquaresSeed(p)]
      /\ x[OwnSeed(Other(p))] = e[OwnSeed(Other(p))]
      /\ x[OwnSquaresSeed(Other(p))] = e[OwnSquaresSeed(Other(p))]
  BY <1>4 DEF OnlyShares
<1>6. /\ e[OwnSeed(Other(p))] = o[OwnSeed(Other(p))]
      /\ e[OwnSquaresSeed(Other(p))] = o[OwnSquaresSeed(Other(p))]
      /\ \A b \in 0 .. NumBaseBits - 1 :
            e.keys[b][ChoiceOf(VectorMasks(o.fingerprint, Cols))[b]] = o.received[b]
      /\ e.ReceiverOTs = ResultOf(e.received, ChoiceOf(VectorMasks(e.fingerprint, Cols)),
                                  CorOf(o.keys, Masks(o.database)))
  BY DEF Agrees, AtRecvU, AtRecvCor
<1>7. /\ x[OwnSeed(Other(p))] = o[OwnSeed(Other(p))]
      /\ x[OwnSquaresSeed(Other(p))] = o[OwnSquaresSeed(Other(p))]
  BY <1>5, <1>6
<1>8. \A b \in 0 .. NumBaseBits - 1 :
         x.keys[b][ChoiceOf(VectorMasks(o.fingerprint, Cols))[b]] = o.received[b]
  BY ONLY <1>1, <1>6
<1>9. x.ReceiverOTs = ResultOf(x.received, ChoiceOf(VectorMasks(x.fingerprint, Cols)),
                               CorOf(o.keys, Masks(o.database)))
  BY ONLY <1>1, <1>6, VectorMasks(x.fingerprint, Cols) = VectorMasks(e.fingerprint, Cols)
<1> QED  BY <1>1, <1>2, <1>3, <1>5, <1>7, <1>8, <1>9

\* What a party makes of its values.
SharedCells(e, pl) ==
    [i \in Rows |-> [j \in Cols |->
        SetValue(e.database[i][j], pl.database[i][j], e.databaseSeed + (i * N + j))]]
SharedSums(e, pl, r) ==
    [i \in Rows |-> SetValue(Share(0, Mod(r[i])), SquareSum(pl.database[i]),
                              e.databaseSquaresSeed)]
SharedColumns(e, pl) ==
    [j \in Cols |-> SetValue(e.fingerprint[j], pl.fingerprint[j], e.fingerprintSeed + j)]
SharedSum(e, pl, r) ==
    SetValue(Share(0, Mod(r[0])), SquareSum(pl.fingerprint), e.fingerprintSquaresSeed)

\* setDatabase fulfils its position.
LEMMA DatabaseShared ==
    ASSUME NEW e, NEW o, NEW pl \in Inputs, NEW x, NEW r \in Draws,
           Holds("server", 17, e, pl), Agrees("server", 17, e, o), NEW db, NEW sums,
           db = SharedCells(e, pl), sums = SharedSums(e, pl, r),
           x = [e EXCEPT !.database = db, !.dSquareSum = sums]
    PROVE  /\ Fulfils("server", 17, e, x, o, pl)
           /\ x.database = db /\ x.dSquareSum = sums
           /\ db \in [Rows -> [Cols -> ShareType]] /\ sums \in [Rows -> ShareType]
<1>1. e \in EnvType /\ "server" \in Party /\ 17 > 9 /\ 17 \in 17 .. 21
  BY OtherIs DEF Holds
<1>2. PICK old, seed, squaresSeed :
         old = e.database /\ seed = e.databaseSeed /\ squaresSeed = e.databaseSquaresSeed
  OBVIOUS
<1>3. old \in [Rows -> [Cols -> ShareType]] /\ seed \in Byte /\ squaresSeed \in Byte
      /\ e.fingerprint \in [Cols -> ShareType]
  <2>1. e.databaseSeed \in Byte /\ e.databaseSquaresSeed \in Byte
    BY <1>1 DEF EnvType
  <2> QED  BY <1>1, <1>2, <2>1, VectorsTyped
<1>4. ASSUME NEW i \in Rows, NEW j \in Cols
      PROVE  /\ db[i][j] \in ShareType /\ db[i][j].d = old[i][j].d
             /\ db[i][j].D = Mod(pl.database[i][j] + old[i][j].d + PRG(seed + (i * N + j)))
  <2>1. db[i][j] = Share(Mod(pl.database[i][j] + old[i][j].d + PRG(seed + (i * N + j))),
                         old[i][j].d)
    BY <1>2 DEF SetValue, SharedCells
  <2>2. pl.database[i][j] \in Int /\ PRG(seed + (i * N + j)) \in Int
    BY <1>3, PlainInt, PRGType, ElementInt
  <2>3. old[i][j].d \in Element /\ old[i][j].d \in Int
    BY <1>3, ElementInt DEF ShareType
  <2>4. PICK y \in Int : y = pl.database[i][j] + old[i][j].d + PRG(seed + (i * N + j))
    BY <2>2, <2>3
  <2>5. Mod(y) \in Element
    BY ModType
  <2> QED  BY ONLY <2>1, <2>3, <2>4, <2>5 DEF Share, ShareType
<1>5. ASSUME NEW i \in Rows
      PROVE  /\ sums[i] \in ShareType
             /\ sums[i].D = Mod(SquareSum(pl.database[i]) + sums[i].d + PRG(squaresSeed))
  <2>1. sums[i] = Share(Mod(SquareSum(pl.database[i]) + Mod(r[i]) + PRG(squaresSeed)), Mod(r[i]))
    BY <1>2 DEF SetValue, Share, SharedSums
  <2>2. SquareSum(pl.database[i]) \in Int /\ PRG(squaresSeed) \in Int
    BY <1>3, SquareSums, PRGType, ElementInt
  <2>3. Mod(r[i]) \in Element /\ Mod(r[i]) \in Int
    BY DrawType, ElementInt
  <2>4. PICK y \in Int : y = SquareSum(pl.database[i]) + Mod(r[i]) + PRG(squaresSeed)
    BY <2>2, <2>3
  <2>5. Mod(y) \in Element
    BY ModType
  <2> QED  BY ONLY <2>1, <2>3, <2>4, <2>5 DEF Share, ShareType
<1>6. /\ db \in [Rows -> [Cols -> ShareType]] /\ sums \in [Rows -> ShareType]
      /\ Masks(db) = Masks(old) /\ Capitals(db) = CapitalsOf(pl.database, Masks(old), seed)
      /\ VectorCapitals(sums, Rows) = SumsOf(pl.database, VectorMasks(sums, Rows), squaresSeed)
  <2>1. db \in [Rows -> [Cols -> ShareType]]
    BY <1>4 DEF SharedCells
  <2>2. sums \in [Rows -> ShareType]
    BY <1>5 DEF SharedSums
  <2>3. Masks(db) = Masks(old)
    BY <1>4 DEF Masks
  <2>4. Capitals(db) = CapitalsOf(pl.database, Masks(old), seed)
    BY <1>4 DEF Capitals, CapitalsOf, Masks
  <2>5. VectorCapitals(sums, Rows) = SumsOf(pl.database, VectorMasks(sums, Rows), squaresSeed)
    BY <1>5 DEF VectorCapitals, SumsOf, VectorMasks
  <2> QED  BY <2>1, <2>2, <2>3, <2>4, <2>5
<1>7. x \in EnvType
  <2>1. db \in Matrices(ShareType) /\ sums \in Vectors(M, ShareType)
    BY <1>6 DEF Matrices, Vectors, Rows
  <2> QED  BY <1>1, <2>1 DEF EnvType
<1>8. /\ x.database = db /\ x.dSquareSum = sums /\ x.fingerprint = e.fingerprint
      /\ x.fingerprintSum = e.fingerprintSum /\ x.multDeltas = e.multDeltas
      /\ x.multShares = e.multShares /\ x.distances = e.distances /\ x.yaoInput = e.yaoInput
      /\ x.databaseSeed = seed /\ x.databaseSquaresSeed = squaresSeed
      /\ OnlyShares(e, x)
  BY <1>1, <1>2 DEF EnvType, OnlyShares
<1>9. /\ Masks(x.database) = Masks(e.database)
      /\ VectorMasks(x.fingerprint, Cols) = VectorMasks(e.fingerprint, Cols)
  BY <1>2, <1>6, <1>8
<1>10. /\ HoldsMasks("server", 17 + 1, x) /\ HoldsKeys("server", 17 + 1, x)
       /\ x[OwnSeed("server")] = e[OwnSeed("server")]
       /\ x[OwnSquaresSeed("server")] = e[OwnSquaresSeed("server")]
       /\ x[OwnSeed(Other("server"))] = o[OwnSeed(Other("server"))]
       /\ x[OwnSquaresSeed(Other("server"))] = o[OwnSquaresSeed(Other("server"))]
       /\ \A b \in 0 .. NumBaseBits - 1 :
             x.keys[b][ChoiceOf(VectorMasks(o.fingerprint, Cols))[b]] = o.received[b]
       /\ x.ReceiverOTs = ResultOf(x.received, ChoiceOf(VectorMasks(x.fingerprint, Cols)),
                                   CorOf(o.keys, Masks(o.database)))
       /\ x.keys = e.keys /\ x.received = e.received
  <2>1. x.database \in [Rows -> [Cols -> ShareType]] /\ x.fingerprint \in [Cols -> ShareType]
    BY ONLY <1>3, <1>6, <1>8
  <2>2. OnlyShares(e, x) /\ Holds("server", 17, e, pl) /\ Agrees("server", 17, e, o)
    BY <1>8
  <2> QED  BY ONLY <1>1, <1>9, <2>1, <2>2, SharesOnly
<1>11. HoldsShares("server", 17 + 1, x, pl)
  BY <1>2, <1>6, <1>8 DEF Holds, HoldsShares
<1>12. HoldsResults("server", 17 + 1, x)
  BY <1>8 DEF Holds, HoldsResults
<1>13. Agrees("server", 17 + 1, x, o)
  BY <1>10 DEF Agrees
<1>14. Keeps("server", 17, e, x)
  BY <1>9, <1>10 DEF Keeps
<1> QED  BY <1>6, <1>7, <1>8, <1>10, <1>11, <1>12, <1>13, <1>14 DEF Fulfils, Holds

\* setFingerprint fulfils its position.
LEMMA FingerprintShared ==
    ASSUME NEW e, NEW o, NEW pl \in Inputs, NEW x, NEW r \in Draws,
           Holds("client", 18, e, pl), Agrees("client", 18, e, o), NEW fp, NEW sum,
           fp = SharedColumns(e, pl), sum = SharedSum(e, pl, r),
           x = [e EXCEPT !.fingerprint = fp, !.fingerprintSum = sum]
    PROVE  /\ Fulfils("client", 18, e, x, o, pl)
           /\ x.fingerprint = fp /\ x.fingerprintSum = sum
           /\ fp \in [Cols -> ShareType] /\ sum \in ShareType
<1>1. e \in EnvType /\ "client" \in Party /\ 18 > 9 /\ 18 \in 17 .. 21
  BY OtherIs DEF Holds
<1>2. PICK old, seed, squaresSeed :
         old = e.fingerprint /\ seed = e.fingerprintSeed /\ squaresSeed = e.fingerprintSquaresSeed
  OBVIOUS
<1>3. old \in [Cols -> ShareType] /\ seed \in Byte /\ squaresSeed \in Byte
      /\ e.database \in [Rows -> [Cols -> ShareType]]
  <2>1. e.fingerprintSeed \in Byte /\ e.fingerprintSquaresSeed \in Byte
    BY <1>1 DEF EnvType
  <2> QED  BY <1>1, <1>2, <2>1, VectorsTyped
<1>4. ASSUME NEW j \in Cols
      PROVE  /\ fp[j] \in ShareType /\ fp[j].d = old[j].d
             /\ fp[j].D = Mod(pl.fingerprint[j] + old[j].d + PRG(seed + j))
  <2>1. fp[j] = Share(Mod(pl.fingerprint[j] + old[j].d + PRG(seed + j)), old[j].d)
    BY <1>2 DEF SetValue, SharedColumns
  <2>2. pl.fingerprint[j] \in Int /\ PRG(seed + j) \in Int
    BY <1>3, PlainInt, PRGType, ElementInt
  <2>3. old[j].d \in Element /\ old[j].d \in Int
    BY <1>3, ElementInt DEF ShareType
  <2>4. PICK y \in Int : y = pl.fingerprint[j] + old[j].d + PRG(seed + j)
    BY <2>2, <2>3
  <2>5. Mod(y) \in Element
    BY ModType
  <2> QED  BY ONLY <2>1, <2>3, <2>4, <2>5 DEF Share, ShareType
<1>5. /\ sum \in ShareType
      /\ sum.D = Mod(SquareSum(pl.fingerprint) + sum.d + PRG(squaresSeed))
  <2>0. 0 \in Rows
    BY Sizes DEF Rows
  <2>1. sum = Share(Mod(SquareSum(pl.fingerprint) + Mod(r[0]) + PRG(squaresSeed)), Mod(r[0]))
    BY <1>2 DEF SetValue, Share, SharedSum
  <2>2. SquareSum(pl.fingerprint) \in Int /\ PRG(squaresSeed) \in Int
    BY <1>3, <2>0, SquareSums, PRGType, ElementInt
  <2>3. Mod(r[0]) \in Element /\ Mod(r[0]) \in Int
    BY <2>0, DrawType, ElementInt
  <2>4. PICK y \in Int : y = SquareSum(pl.fingerprint) + Mod(r[0]) + PRG(squaresSeed)
    BY <2>2, <2>3
  <2>5. Mod(y) \in Element
    BY ModType
  <2> QED  BY ONLY <2>1, <2>3, <2>4, <2>5 DEF Share, ShareType
<1>6. /\ fp \in [Cols -> ShareType] /\ VectorMasks(fp, Cols) = VectorMasks(old, Cols)
      /\ VectorCapitals(fp, Cols) = ColumnsOf(pl.fingerprint, VectorMasks(old, Cols), seed)
  <2>1. fp \in [Cols -> ShareType]
    BY <1>4 DEF SharedColumns
  <2>2. VectorMasks(fp, Cols) = VectorMasks(old, Cols)
    BY <1>4 DEF VectorMasks
  <2>3. VectorCapitals(fp, Cols) = ColumnsOf(pl.fingerprint, VectorMasks(old, Cols), seed)
    BY <1>4 DEF VectorCapitals, ColumnsOf, VectorMasks
  <2> QED  BY <2>1, <2>2, <2>3
<1>7. x \in EnvType
  <2>1. fp \in Vectors(N, ShareType)
    BY <1>6 DEF Vectors, Cols
  <2> QED  BY <1>1, <1>5, <2>1 DEF EnvType
<1>8. /\ x.fingerprint = fp /\ x.fingerprintSum = sum /\ x.database = e.database
      /\ x.dSquareSum = e.dSquareSum /\ x.multDeltas = e.multDeltas
      /\ x.multShares = e.multShares /\ x.distances = e.distances /\ x.yaoInput = e.yaoInput
      /\ x.fingerprintSeed = seed /\ x.fingerprintSquaresSeed = squaresSeed
      /\ x.databaseSeed = e.databaseSeed /\ x.databaseSquaresSeed = e.databaseSquaresSeed
      /\ OnlyShares(e, x)
  BY <1>1, <1>2 DEF EnvType, OnlyShares
<1>9. /\ Masks(x.database) = Masks(e.database)
      /\ VectorMasks(x.fingerprint, Cols) = VectorMasks(e.fingerprint, Cols)
  BY <1>2, <1>6, <1>8
<1>10. /\ HoldsMasks("client", 18 + 1, x) /\ HoldsKeys("client", 18 + 1, x)
       /\ x[OwnSeed("client")] = e[OwnSeed("client")]
       /\ x[OwnSquaresSeed("client")] = e[OwnSquaresSeed("client")]
       /\ x[OwnSeed(Other("client"))] = o[OwnSeed(Other("client"))]
       /\ x[OwnSquaresSeed(Other("client"))] = o[OwnSquaresSeed(Other("client"))]
       /\ \A b \in 0 .. NumBaseBits - 1 :
             x.keys[b][ChoiceOf(VectorMasks(o.fingerprint, Cols))[b]] = o.received[b]
       /\ x.ReceiverOTs = ResultOf(x.received, ChoiceOf(VectorMasks(x.fingerprint, Cols)),
                                   CorOf(o.keys, Masks(o.database)))
       /\ x.keys = e.keys /\ x.received = e.received
  <2>1. x.database \in [Rows -> [Cols -> ShareType]] /\ x.fingerprint \in [Cols -> ShareType]
    BY ONLY <1>3, <1>6, <1>8
  <2>2. OnlyShares(e, x) /\ Holds("client", 18, e, pl) /\ Agrees("client", 18, e, o)
    BY <1>8
  <2> QED  BY ONLY <1>1, <1>9, <2>1, <2>2, SharesOnly
<1>11. HoldsShares("client", 18 + 1, x, pl)
  <2>1. VectorCapitals(x.fingerprint, Cols) =
           ColumnsOf(pl.fingerprint, VectorMasks(x.fingerprint, Cols), x.fingerprintSeed)
    BY ONLY <1>6, <1>8
  <2>2. x.fingerprintSum.D = Mod(SquareSum(pl.fingerprint) + x.fingerprintSum.d
                                 + PRG(x.fingerprintSquaresSeed))
    BY ONLY <1>5, <1>8
  <2> QED  BY <1>5, <1>8, <2>1, <2>2 DEF Holds, HoldsShares
<1>12. HoldsResults("client", 18 + 1, x)
  BY <1>8 DEF Holds, HoldsResults
<1>13. Agrees("client", 18 + 1, x, o)
  BY <1>8, <1>10 DEF Agrees
<1>14. Keeps("client", 18, e, x)
  BY <1>8, <1>9, <1>10 DEF Keeps
<1> QED  BY <1>5, <1>6, <1>7, <1>8, <1>10, <1>11, <1>12, <1>13, <1>14 DEF Fulfils, Holds

\* recvDatabase fulfils its position.
LEMMA DatabaseTaken ==
    ASSUME NEW e, NEW o, NEW pl, NEW x,
           Holds("client", 17, e, pl), Agrees("client", 17, e, o),
           o.database \in [Rows -> [Cols -> ShareType]], o.dSquareSum \in [Rows -> ShareType],
           NEW D, \A v \in 0 .. (M * N + M) - 1 :
              D[v] = DatabaseOf(Capitals(o.database), VectorCapitals(o.dSquareSum, Rows))[v],
           x = [e EXCEPT !.database = [i \in Rows |-> [j \in Cols |->
                                          SetCapitalDelta(e.database[i][j], D[Cell(i, j)])]],
                         !.dSquareSum = [i \in Rows |->
                                          Share(D[Cell(i, N)], PRG(e.databaseSquaresSeed))]]
    PROVE  Fulfils("client", 17, e, x, o, pl)
<1>1. e \in EnvType /\ "client" \in Party /\ 17 > 9 /\ 17 \in 17 .. 21
  BY OtherIs DEF Holds
<1>2. PICK old, db, sums, dc, sc, squaresSeed :
         /\ old = e.database /\ squaresSeed = e.databaseSquaresSeed
         /\ dc = Capitals(o.database) /\ sc = VectorCapitals(o.dSquareSum, Rows)
         /\ db = [i \in Rows |-> [j \in Cols |-> SetCapitalDelta(old[i][j], D[Cell(i, j)])]]
         /\ sums = [i \in Rows |-> Share(D[Cell(i, N)], PRG(squaresSeed))]
  OBVIOUS
<1>3. /\ old \in [Rows -> [Cols -> ShareType]] /\ squaresSeed \in Byte
      /\ e.fingerprint \in [Cols -> ShareType]
      /\ dc \in [Rows -> [Cols -> Element]] /\ sc \in [Rows -> Element]
  <2>1. e.databaseSquaresSeed \in Byte
    BY <1>1 DEF EnvType
  <2>2. dc \in [Rows -> [Cols -> Element]]
    BY <1>2, MaskTypes
  <2>3. sc \in [Rows -> Element]
    BY <1>2, VectorTypes
  <2> QED  BY <1>1, <1>2, <2>1, <2>2, <2>3, VectorsTyped
<1>4. ASSUME NEW i \in Rows
      PROVE  D[Cell(i, N)] = sc[i] /\ \A j \in Cols : D[Cell(i, j)] = dc[i][j]
  <2>1. /\ DatabaseOf(dc, sc)[Cell(i, N)] = sc[i]
        /\ \A j \in Cols : DatabaseOf(dc, sc)[Cell(i, j)] = dc[i][j]
    BY <1>3, DatabaseTyped
  <2>2. ASSUME NEW j \in 0 .. N PROVE D[Cell(i, j)] = DatabaseOf(dc, sc)[Cell(i, j)]
    <3>1. Cell(i, j) \in 0 .. (M * N + M) - 1
      BY DatabasePlace
    <3> QED  BY <1>2, <3>1
  <2>3. N \in 0 .. N /\ \A j \in Cols : j \in 0 .. N
    BY Sizes DEF Cols
  <2> QED  BY <2>1, <2>2, <2>3
<1>5. ASSUME NEW i \in Rows, NEW j \in Cols
      PROVE  db[i][j] \in ShareType /\ db[i][j].d = old[i][j].d /\ db[i][j].D = dc[i][j]
  <2>1. db[i][j] = Share(dc[i][j], old[i][j].d)
    BY <1>2, <1>4 DEF SetCapitalDelta
  <2>2. dc[i][j] \in Element /\ old[i][j].d \in Element
    BY <1>3 DEF ShareType
  <2> QED  BY ONLY <2>1, <2>2 DEF Share, ShareType
<1>6. ASSUME NEW i \in Rows
      PROVE  sums[i] \in ShareType /\ sums[i].D = sc[i] /\ sums[i].d = PRG(squaresSeed)
  <2>1. sums[i] = Share(sc[i], PRG(squaresSeed))
    BY <1>2, <1>4
  <2>2. sc[i] \in Element /\ PRG(squaresSeed) \in Element
    BY <1>3, PRGType
  <2> QED  BY ONLY <2>1, <2>2 DEF Share, ShareType
<1>7. /\ db \in [Rows -> [Cols -> ShareType]] /\ sums \in [Rows -> ShareType]
      /\ Masks(db) = Masks(old) /\ Capitals(db) = dc
      /\ VectorCapitals(sums, Rows) = sc
      /\ VectorMasks(sums, Rows) = [i \in Rows |-> PRG(squaresSeed)]
  <2>1. db \in [Rows -> [Cols -> ShareType]]
    BY <1>2, <1>5
  <2>2. sums \in [Rows -> ShareType]
    BY <1>2, <1>6
  <2>3. Masks(db) = Masks(old)
    BY <1>5 DEF Masks
  <2>4. Capitals(db) = dc
    BY <1>3, <1>5 DEF Capitals
  <2>5. VectorCapitals(sums, Rows) = sc
    BY <1>3, <1>6 DEF VectorCapitals
  <2>6. VectorMasks(sums, Rows) = [i \in Rows |-> PRG(squaresSeed)]
    BY <1>6 DEF VectorMasks
  <2> QED  BY <2>1, <2>2, <2>3, <2>4, <2>5, <2>6
<1>8. x = [e EXCEPT !.database = db, !.dSquareSum = sums]
  BY <1>2
<1>9. x \in EnvType
  <2>1. db \in Matrices(ShareType) /\ sums \in Vectors(M, ShareType)
    BY <1>7 DEF Matrices, Vectors, Rows
  <2> QED  BY <1>1, <1>8, <2>1 DEF EnvType
<1>10. /\ x.database = db /\ x.dSquareSum = sums /\ x.fingerprint = e.fingerprint
       /\ x.fingerprintSum = e.fingerprintSum /\ x.multDeltas = e.multDeltas
       /\ x.multShares = e.multShares /\ x.distances = e.distances /\ x.yaoInput = e.yaoInput
       /\ x.databaseSquaresSeed = squaresSeed
       /\ OnlyShares(e, x)
  BY <1>1, <1>2, <1>8 DEF EnvType, OnlyShares
<1>11. /\ Masks(x.database) = Masks(e.database)
       /\ VectorMasks(x.fingerprint, Cols) = VectorMasks(e.fingerprint, Cols)
  BY <1>2, <1>7, <1>10
<1>12. /\ HoldsMasks("client", 17 + 1, x) /\ HoldsKeys("client", 17 + 1, x)
       /\ x[OwnSeed("client")] = e[OwnSeed("client")]
       /\ x[OwnSquaresSeed("client")] = e[OwnSquaresSeed("client")]
       /\ x[OwnSeed(Other("client"))] = o[OwnSeed(Other("client"))]
       /\ x[OwnSquaresSeed(Other("client"))] = o[OwnSquaresSeed(Other("client"))]
       /\ \A b \in 0 .. NumBaseBits - 1 :
             x.keys[b][ChoiceOf(VectorMasks(o.fingerprint, Cols))[b]] = o.received[b]
       /\ x.ReceiverOTs = ResultOf(x.received, ChoiceOf(VectorMasks(x.fingerprint, Cols)),
                                   CorOf(o.keys, Masks(o.database)))
       /\ x.keys = e.keys /\ x.received = e.received
  <2>1. x.database \in [Rows -> [Cols -> ShareType]] /\ x.fingerprint \in [Cols -> ShareType]
    BY ONLY <1>3, <1>7, <1>10
  <2>2. OnlyShares(e, x) /\ Holds("client", 17, e, pl) /\ Agrees("client", 17, e, o)
    BY <1>10
  <2> QED  BY ONLY <1>1, <1>11, <2>1, <2>2, SharesOnly
<1>13. HoldsShares("client", 17 + 1, x, pl)
  BY <1>7, <1>10 DEF Holds, HoldsShares
<1>14. HoldsResults("client", 17 + 1, x)
  BY <1>10 DEF Holds, HoldsResults
<1>15. Agrees("client", 17 + 1, x, o)
  BY <1>2, <1>7, <1>10, <1>12 DEF Agrees
<1>16. Keeps("client", 17, e, x)
  BY <1>11, <1>12 DEF Keeps
<1> QED  BY <1>9, <1>12, <1>13, <1>14, <1>15, <1>16 DEF Fulfils, Holds

\* recvFingerprint fulfils its position.
LEMMA FingerprintTaken ==
    ASSUME NEW e, NEW o, NEW pl, NEW x,
           Holds("server", 18, e, pl), Agrees("server", 18, e, o),
           o.fingerprint \in [Cols -> ShareType], o.fingerprintSum \in ShareType,
           NEW D, \A v \in 0 .. (N + 1) - 1 :
              D[v] = FingerprintOf(VectorCapitals(o.fingerprint, Cols), o.fingerprintSum.D)[v],
           x = [e EXCEPT !.fingerprint = [j \in Cols |->
                                             SetCapitalDelta(e.fingerprint[j], D[j])],
                         !.fingerprintSum = Share(D[N], PRG(e.fingerprintSquaresSeed))]
    PROVE  Fulfils("server", 18, e, x, o, pl)
<1>1. e \in EnvType /\ "server" \in Party /\ 18 > 9 /\ 18 \in 17 .. 21
  BY OtherIs DEF Holds
<1>2. PICK old, fp, sum, fc, sc, squaresSeed :
         /\ old = e.fingerprint /\ squaresSeed = e.fingerprintSquaresSeed
         /\ fc = VectorCapitals(o.fingerprint, Cols) /\ sc = o.fingerprintSum.D
         /\ fp = [j \in Cols |-> SetCapitalDelta(old[j], D[j])]
         /\ sum = Share(D[N], PRG(squaresSeed))
  OBVIOUS
<1>3. /\ old \in [Cols -> ShareType] /\ squaresSeed \in Byte
      /\ e.database \in [Rows -> [Cols -> ShareType]]
      /\ fc \in [Cols -> Element] /\ sc \in Element
  <2>1. e.fingerprintSquaresSeed \in Byte
    BY <1>1 DEF EnvType
  <2>2. fc \in [Cols -> Element]
    BY <1>2, VectorTypes
  <2>3. sc \in Element
    BY <1>2 DEF ShareType
  <2> QED  BY <1>1, <1>2, <2>1, <2>2, <2>3, VectorsTyped
<1>4. D[N] = sc /\ \A j \in Cols : D[j] = fc[j]
  <2>1. FingerprintOf(fc, sc)[N] = sc /\ \A j \in Cols : FingerprintOf(fc, sc)[j] = fc[j]
    BY <1>3, FingerprintTyped
  <2>2. N \in 0 .. (N + 1) - 1 /\ \A j \in Cols : j \in 0 .. (N + 1) - 1
    BY Sizes DEF Cols
  <2> QED  BY <1>2, <2>1, <2>2
<1>5. ASSUME NEW j \in Cols
      PROVE  fp[j] \in ShareType /\ fp[j].d = old[j].d /\ fp[j].D = fc[j]
  <2>1. fp[j] = Share(fc[j], old[j].d)
    BY <1>2, <1>4 DEF SetCapitalDelta
  <2>2. fc[j] \in Element /\ old[j].d \in Element
    BY <1>3 DEF ShareType
  <2> QED  BY ONLY <2>1, <2>2 DEF Share, ShareType
<1>6. sum \in ShareType /\ sum.D = sc /\ sum.d = PRG(squaresSeed)
  <2>1. PRG(squaresSeed) \in Element
    BY <1>3, PRGType
  <2> QED  BY ONLY <1>2, <1>3, <1>4, <2>1 DEF Share, ShareType
<1>7. /\ fp \in [Cols -> ShareType]
      /\ VectorMasks(fp, Cols) = VectorMasks(old, Cols) /\ VectorCapitals(fp, Cols) = fc
  <2>1. fp \in [Cols -> ShareType]
    BY <1>2, <1>5
  <2>2. VectorMasks(fp, Cols) = VectorMasks(old, Cols)
    BY <1>5 DEF VectorMasks
  <2>3. VectorCapitals(fp, Cols) = fc
    BY <1>3, <1>5 DEF VectorCapitals
  <2> QED  BY <2>1, <2>2, <2>3
<1>8. x = [e EXCEPT !.fingerprint = fp, !.fingerprintSum = sum]
  BY <1>2
<1>9. x \in EnvType
  <2>1. fp \in Vectors(N, ShareType)
    BY <1>7 DEF Vectors, Cols
  <2> QED  BY <1>1, <1>6, <1>8, <2>1 DEF EnvType
<1>10. /\ x.fingerprint = fp /\ x.fingerprintSum = sum /\ x.database = e.database
       /\ x.dSquareSum = e.dSquareSum /\ x.multDeltas = e.multDeltas
       /\ x.multShares = e.multShares /\ x.distances = e.distances /\ x.yaoInput = e.yaoInput
       /\ x.fingerprintSquaresSeed = squaresSeed
       /\ x.databaseSeed = e.databaseSeed /\ x.databaseSquaresSeed = e.databaseSquaresSeed
       /\ OnlyShares(e, x)
  BY <1>1, <1>2, <1>8 DEF EnvType, OnlyShares
<1>11. /\ Masks(x.database) = Masks(e.database)
       /\ VectorMasks(x.fingerprint, Cols) = VectorMasks(e.fingerprint, Cols)
  BY <1>2, <1>7, <1>10
<1>12. /\ HoldsMasks("server", 18 + 1, x) /\ HoldsKeys("server", 18 + 1, x)
       /\ x[OwnSeed("server")] = e[OwnSeed("server")]
       /\ x[OwnSquaresSeed("server")] = e[OwnSquaresSeed("server")]
       /\ x[OwnSeed(Other("server"))] = o[OwnSeed(Other("server"))]
       /\ x[OwnSquaresSeed(Other("server"))] = o[OwnSquaresSeed(Other("server"))]
       /\ \A b \in 0 .. NumBaseBits - 1 :
             x.keys[b][ChoiceOf(VectorMasks(o.fingerprint, Cols))[b]] = o.received[b]
       /\ x.ReceiverOTs = ResultOf(x.received, ChoiceOf(VectorMasks(x.fingerprint, Cols)),
                                   CorOf(o.keys, Masks(o.database)))
       /\ x.keys = e.keys /\ x.received = e.received
  <2>1. x.database \in [Rows -> [Cols -> ShareType]] /\ x.fingerprint \in [Cols -> ShareType]
    BY ONLY <1>3, <1>7, <1>10
  <2>2. OnlyShares(e, x) /\ Holds("server", 18, e, pl) /\ Agrees("server", 18, e, o)
    BY <1>10
  <2> QED  BY ONLY <1>1, <1>11, <2>1, <2>2, SharesOnly
<1>13. HoldsShares("server", 18 + 1, x, pl)
  BY <1>6, <1>10 DEF Holds, HoldsShares
<1>14. HoldsResults("server", 18 + 1, x)
  BY <1>10 DEF Holds, HoldsResults
<1>15. Agrees("server", 18 + 1, x, o)
  BY <1>2, <1>6, <1>7, <1>10, <1>12 DEF Agrees
<1>16. Keeps("server", 18, e, x)
  BY <1>10, <1>11, <1>12 DEF Keeps
<1> QED  BY <1>9, <1>12, <1>13, <1>14, <1>15, <1>16 DEF Fulfils, Holds

-----------------------------------------------------------------------------
(* The scalar products and the distances *)

\* x is e after mult kept the shares and opened the deltas.
Multiplies(p, e, x, shares, deltas) ==
    /\ deltas = DeltasOf(p, Masks(e.database), Capitals(e.database),
                         VectorMasks(e.fingerprint, Cols),
                         VectorCapitals(e.fingerprint, Cols), e.triplets, shares)
    /\ x = [e EXCEPT !.multDeltas = deltas, !.multShares = shares]

\* mult fulfils its position.
LEMMA Multiplied ==
    ASSUME NEW p \in Party, NEW e, NEW o, NEW pl, NEW x, NEW shares \in [Rows -> Element],
           Holds(p, 19, e, pl), Agrees(p, 19, e, o), NEW deltas,
           Multiplies(p, e, x, shares, deltas)
    PROVE  /\ Fulfils(p, 19, e, x, o, pl)
           /\ x.multDeltas = deltas /\ deltas \in [Rows -> Element]
<1> USE DEF Multiplies
<1>1. e \in EnvType /\ 19 > 9 /\ 19 \in 17 .. 21 /\ 19 \in Nat /\ 19 > 15
  BY DEF Holds
<1>2. PICK dm, dc, fm, fc, t :
         /\ dm = Masks(e.database) /\ dc = Capitals(e.database)
         /\ fm = VectorMasks(e.fingerprint, Cols) /\ fc = VectorCapitals(e.fingerprint, Cols)
         /\ t = e.triplets
  OBVIOUS
<1>3. /\ e.database \in [Rows -> [Cols -> ShareType]] /\ e.fingerprint \in [Cols -> ShareType]
      /\ dm \in [Rows -> [Cols -> Element]] /\ dc \in [Rows -> [Cols -> Element]]
      /\ fm \in [Cols -> Element] /\ fc \in [Cols -> Element]
  BY <1>1, <1>2, VectorsTyped
<1>4. t \in [Rows -> [Cols -> Element]]
  <2>1. t = TripletsOf(Masks(e.database), VectorMasks(e.fingerprint, Cols), e.ReceiverOTs,
                       e.SenderOTsCor)
    BY <1>2 DEF Holds, HoldsKeys
  <2> QED  BY <1>1, <2>1, TripletsTyped
<1>5. deltas \in [Rows -> Element]
  <2>1. \A i \in Rows : DeltaOf(p, dm, dc, fm, fc, t, i, shares[i]) \in Element
    BY ONLY <1>3, <1>4, DeltaIs, shares \in [Rows -> Element]
  <2> QED  BY <1>2, <2>1 DEF DeltasOf
<1>6. x \in EnvType
  <2>1. deltas \in Vectors(M, Element) /\ shares \in Vectors(M, Element)
    BY <1>5 DEF Vectors, Rows
  <2> QED  BY <1>1, <2>1 DEF EnvType
<1>7. /\ x.multDeltas = deltas /\ x.multShares = shares /\ x.database = e.database
      /\ x.fingerprint = e.fingerprint /\ x.dSquareSum = e.dSquareSum
      /\ x.fingerprintSum = e.fingerprintSum /\ x.triplets = e.triplets
      /\ x.distances = e.distances /\ x.yaoInput = e.yaoInput
      /\ x.databaseSeed = e.databaseSeed /\ x.databaseSquaresSeed = e.databaseSquaresSeed
      /\ x.fingerprintSeed = e.fingerprintSeed
      /\ x.fingerprintSquaresSeed = e.fingerprintSquaresSeed
      /\ OnlyShares(e, x)
  BY <1>1 DEF EnvType, OnlyShares
<1>8. /\ Masks(x.database) = Masks(e.database)
      /\ VectorMasks(x.fingerprint, Cols) = VectorMasks(e.fingerprint, Cols)
  BY <1>7
<1>9. /\ HoldsMasks(p, 19 + 1, x) /\ HoldsKeys(p, 19 + 1, x)
      /\ x[OwnSeed(p)] = e[OwnSeed(p)] /\ x[OwnSquaresSeed(p)] = e[OwnSquaresSeed(p)]
      /\ x[OwnSeed(Other(p))] = o[OwnSeed(Other(p))]
      /\ x[OwnSquaresSeed(Other(p))] = o[OwnSquaresSeed(Other(p))]
      /\ \A b \in 0 .. NumBaseBits - 1 :
            x.keys[b][ChoiceOf(VectorMasks(o.fingerprint, Cols))[b]] = o.received[b]
      /\ x.ReceiverOTs = ResultOf(x.received, ChoiceOf(VectorMasks(x.fingerprint, Cols)),
                                  CorOf(o.keys, Masks(o.database)))
      /\ x.keys = e.keys /\ x.received = e.received
  <2>1. x.database \in [Rows -> [Cols -> ShareType]] /\ x.fingerprint \in [Cols -> ShareType]
    BY ONLY <1>3, <1>7
  <2>2. OnlyShares(e, x) /\ Holds(p, 19, e, pl) /\ Agrees(p, 19, e, o)
    BY <1>7
  <2> QED  BY ONLY <1>1, <1>8, <2>1, <2>2, SharesOnly, p \in Party
<1>10. HoldsShares(p, 19 + 1, x, pl)
  BY <1>7 DEF Holds, HoldsShares
<1>11. HoldsResults(p, 19 + 1, x)
  <2>1. x.multDeltas = DeltasOf(p, Masks(x.database), Capitals(x.database),
                                VectorMasks(x.fingerprint, Cols),
                                VectorCapitals(x.fingerprint, Cols), x.triplets, x.multShares)
    BY <1>7
  <2> QED  BY <1>7, <2>1 DEF Holds, HoldsResults
<1>12. Agrees(p, 19 + 1, x, o)
  BY <1>7, <1>9 DEF Agrees
<1>13. Keeps(p, 19, e, x)
  BY <1>7, <1>9 DEF Keeps
<1> QED  BY <1>5, <1>6, <1>7, <1>9, <1>10, <1>11, <1>12, <1>13 DEF Fulfils, Holds

\* Sums and differences of shares are shares.
LEMMA ShareSums ==
    ASSUME NEW A \in Int, NEW a \in Int, NEW B \in Int, NEW b \in Int
    PROVE  Add(Share(A, a), Share(B, b)) \in ShareType
           /\ Subtract(Share(A, a), Share(B, b)) \in ShareType
<1>1. A + B \in Int /\ a + b \in Int /\ A - B \in Int /\ a - b \in Int
  OBVIOUS
<1>2. Mod(A + B) \in Element /\ Mod(a + b) \in Element /\ Mod(A - B) \in Element
      /\ Mod(a - b) \in Element
  BY <1>1, ModType
<1> QED  BY <1>2 DEF Add, Subtract, Share, ShareType

\* An opened distance is a share.
LEMMA DistancesTyped ==
    ASSUME NEW delta \in Element, NEW other \in Element, NEW r \in Element,
           NEW square \in ShareType, NEW sum \in ShareType
    PROVE  DistanceOf(delta, other, r, square, sum) \in ShareType
<1>1. delta + other \in Int /\ r \in Int
  BY ElementInt
<1>2. ASSUME NEW s \in ShareType
      PROVE  \E A \in Int, a \in Int : s = Share(A, a)
  BY ElementInt DEF ShareType, Share
<1>3. Add(square, sum) \in ShareType
  BY <1>2, ShareSums
<1>4. Add(Share(delta + other, r), Share(delta + other, r)) \in ShareType
  BY <1>1, ShareSums
<1>5. \A s, t \in ShareType : Subtract(s, t) \in ShareType
  BY <1>2, ShareSums
<1> QED  BY <1>3, <1>4, <1>5 DEF DistanceOf

\* finalize fulfils its position.
LEMMA Finalized ==
    ASSUME NEW p \in Party, NEW e, NEW o, NEW pl, NEW x,
           Holds(p, 20, e, pl), Agrees(p, 20, e, o), o.multDeltas \in [Rows -> Element],
           x = [e EXCEPT !.distances = DistancesOf(e.multDeltas, o.multDeltas, e.multShares,
                                                   e.dSquareSum, e.fingerprintSum)]
    PROVE  Fulfils(p, 20, e, x, o, pl)
<1>1. e \in EnvType /\ 20 > 9 /\ 20 \in 17 .. 21 /\ 20 \in Nat /\ 20 > 15 /\ 20 > 19
  BY DEF Holds
<1>2. PICK distances :
         distances = DistancesOf(e.multDeltas, o.multDeltas, e.multShares, e.dSquareSum,
                                 e.fingerprintSum)
  OBVIOUS
<1>3. /\ e.database \in [Rows -> [Cols -> ShareType]] /\ e.fingerprint \in [Cols -> ShareType]
  BY <1>1, VectorsTyped
<1>4. distances \in [Rows -> ShareType]
  <2>1. e.triplets \in [Rows -> [Cols -> Element]]
    <3>1. e.triplets = TripletsOf(Masks(e.database), VectorMasks(e.fingerprint, Cols),
                                  e.ReceiverOTs, e.SenderOTsCor)
      BY DEF Holds, HoldsKeys
    <3> QED  BY <1>1, <3>1, TripletsTyped
  <2>2. e.dSquareSum \in [Rows -> ShareType] /\ e.fingerprintSum \in ShareType
    BY DEF Holds, HoldsShares
  <2>3. ASSUME NEW i \in Rows
        PROVE  DistanceOf(e.multDeltas[i], o.multDeltas[i], e.multShares[i], e.dSquareSum[i],
                          e.fingerprintSum) \in ShareType
    <3>1. e.multShares[i] \in Element /\ e.multDeltas[i] \in Element
      BY <1>1, <2>1, DeltasIn DEF Opened
    <3>2. o.multDeltas[i] \in Element /\ e.dSquareSum[i] \in ShareType
      BY <2>2
    <3> QED  BY <2>2, <3>1, <3>2, DistancesTyped
  <2> QED  BY <1>2, <2>3 DEF DistancesOf
<1>5. x = [e EXCEPT !.distances = distances]
  BY <1>2
<1>6. x \in EnvType
  <2>1. distances \in Vectors(M, ShareType)
    BY <1>4 DEF Vectors, Rows
  <2> QED  BY <1>1, <1>5, <2>1 DEF EnvType
<1>7. /\ x.distances = distances /\ x.database = e.database
      /\ x.fingerprint = e.fingerprint /\ x.dSquareSum = e.dSquareSum
      /\ x.fingerprintSum = e.fingerprintSum /\ x.triplets = e.triplets
      /\ x.multDeltas = e.multDeltas /\ x.multShares = e.multShares
      /\ x.yaoInput = e.yaoInput
      /\ x.databaseSeed = e.databaseSeed /\ x.databaseSquaresSeed = e.databaseSquaresSeed
      /\ x.fingerprintSeed = e.fingerprintSeed
      /\ x.fingerprintSquaresSeed = e.fingerprintSquaresSeed
      /\ OnlyShares(e, x)
  BY <1>1, <1>5 DEF EnvType, OnlyShares
<1>8. /\ Masks(x.database) = Masks(e.database)
      /\ VectorMasks(x.fingerprint, Cols) = VectorMasks(e.fingerprint, Cols)
  BY <1>7
<1>9. /\ HoldsMasks(p, 20 + 1, x) /\ HoldsKeys(p, 20 + 1, x)
      /\ x[OwnSeed(p)] = e[OwnSeed(p)] /\ x[OwnSquaresSeed(p)] = e[OwnSquaresSeed(p)]
      /\ x[OwnSeed(Other(p))] = o[OwnSeed(Other(p))]
      /\ x[OwnSquaresSeed(Other(p))] = o[OwnSquaresSeed(Other(p))]
      /\ \A b \in 0 .. NumBaseBits - 1 :
            x.keys[b][ChoiceOf(VectorMasks(o.fingerprint, Cols))[b]] = o.received[b]
      /\ x.ReceiverOTs = ResultOf(x.received, ChoiceOf(VectorMasks(x.fingerprint, Cols)),
                                  CorOf(o.keys, Masks(o.database)))
      /\ x.keys = e.keys /\ x.received = e.received
  <2>1. x.database \in [Rows -> [Cols -> ShareType]] /\ x.fingerprint \in [Cols -> ShareType]
    BY ONLY <1>3, <1>7
  <2>2. OnlyShares(e, x) /\ Holds(p, 20, e, pl) /\ Agrees(p, 20, e, o)
    BY <1>7
  <2> QED  BY ONLY <1>1, <1>8, <2>1, <2>2, SharesOnly, p \in Party
<1>10. HoldsShares(p, 20 + 1, x, pl)
  BY <1>7 DEF Holds, HoldsShares
<1>11. HoldsResults(p, 20 + 1, x)
  BY <1>4, <1>7 DEF Holds, HoldsResults
<1>12. Agrees(p, 20 + 1, x, o)
  BY <1>2, <1>7, <1>9 DEF Agrees
<1>13. Keeps(p, 20, e, x)
  BY <1>7, <1>9 DEF Keeps
<1> QED  BY <1>6, <1>9, <1>10, <1>11, <1>12, <1>13 DEF Fulfils, Holds

\* toYao fulfils its position.
LEMMA YaoGiven ==
    ASSUME NEW p \in Party, NEW e, NEW o, NEW pl, NEW x,
           Holds(p, 21, e, pl), Agrees(p, 21, e, o),
           x = [e EXCEPT !.yaoInput = YaoOf(p, e.distances)]
    PROVE  Fulfils(p, 21, e, x, o, pl) /\ x.yaoInput = YaoOf(p, e.distances)
           /\ x.distances = e.distances
<1>1. e \in EnvType /\ 21 > 9 /\ 21 \in 17 .. 21 /\ 21 \in Nat
  BY DEF Holds
<1>2. PICK distances, given : distances = e.distances /\ given = YaoOf(p, distances)
  OBVIOUS
<1>3. /\ e.database \in [Rows -> [Cols -> ShareType]] /\ e.fingerprint \in [Cols -> ShareType]
  BY <1>1, VectorsTyped
<1>4. given \in [Rows -> Element]
  <2>1. distances \in [Rows -> ShareType]
    BY <1>2 DEF Holds, HoldsResults
  <2>2. ASSUME NEW i \in Rows PROVE YaoShare(p, distances[i]) \in Element
    <3>1. PICK D \in Int, d \in Int : distances[i].D = D /\ distances[i].d = d
      <4>1. distances[i].D \in Element /\ distances[i].d \in Element
        BY <2>1 DEF ShareType
      <4> QED  BY <4>1, ElementInt
    <3>2. Mod(D - d) \in Element /\ Mod(d) \in Element
      BY ModType
    <3> QED  BY <3>1, <3>2 DEF YaoShare
  <2> QED  BY <1>2, <2>2 DEF YaoOf
<1>5. x = [e EXCEPT !.yaoInput = given]
  BY <1>2
<1>6. x \in EnvType
  <2>1. given \in Vectors(M, Element)
    BY <1>4 DEF Vectors, Rows
  <2> QED  BY <1>1, <1>5, <2>1 DEF EnvType
<1>7. /\ x.yaoInput = given /\ x.database = e.database
      /\ x.fingerprint = e.fingerprint /\ x.dSquareSum = e.dSquareSum
      /\ x.fingerprintSum = e.fingerprintSum /\ x.triplets = e.triplets
      /\ x.multDeltas = e.multDeltas /\ x.multShares = e.multShares
      /\ x.distances = e.distances
      /\ x.databaseSeed = e.databaseSeed /\ x.databaseSquaresSeed = e.databaseSquaresSeed
      /\ x.fingerprintSeed = e.fingerprintSeed
      /\ x.fingerprintSquaresSeed = e.fingerprintSquaresSeed
      /\ OnlyShares(e, x)
  BY <1>1, <1>5 DEF EnvType, OnlyShares
<1>8. /\ Masks(x.database) = Masks(e.database)
      /\ VectorMasks(x.fingerprint, Cols) = VectorMasks(e.fingerprint, Cols)
  BY <1>7
<1>9. /\ HoldsMasks(p, 21 + 1, x) /\ HoldsKeys(p, 21 + 1, x)
      /\ x[OwnSeed(p)] = e[OwnSeed(p)] /\ x[OwnSquaresSeed(p)] = e[OwnSquaresSeed(p)]
      /\ x[OwnSeed(Other(p))] = o[OwnSeed(Other(p))]
      /\ x[OwnSquaresSeed(Other(p))] = o[OwnSquaresSeed(Other(p))]
      /\ \A b \in 0 .. NumBaseBits - 1 :
            x.keys[b][ChoiceOf(VectorMasks(o.fingerprint, Cols))[b]] = o.received[b]
      /\ x.ReceiverOTs = ResultOf(x.received, ChoiceOf(VectorMasks(x.fingerprint, Cols)),
                                  CorOf(o.keys, Masks(o.database)))
      /\ x.keys = e.keys /\ x.received = e.received
  <2>1. x.database \in [Rows -> [Cols -> ShareType]] /\ x.fingerprint \in [Cols -> ShareType]
    BY ONLY <1>3, <1>7
  <2>2. OnlyShares(e, x) /\ Holds(p, 21, e, pl) /\ Agrees(p, 21, e, o)
    BY <1>7
  <2> QED  BY ONLY <1>1, <1>8, <2>1, <2>2, SharesOnly, p \in Party
<1>10. HoldsShares(p, 21 + 1, x, pl)
  BY <1>7 DEF Holds, HoldsShares
<1>11. HoldsResults(p, 21 + 1, x)
  BY <1>2, <1>7 DEF Holds, HoldsResults
<1>12. Agrees(p, 21 + 1, x, o)
  BY <1>7, <1>9 DEF Agrees
<1>13. Keeps(p, 21, e, x)
  BY <1>7, <1>9 DEF Keeps
<1> QED  BY <1>2, <1>6, <1>7, <1>9, <1>10, <1>11, <1>12, <1>13 DEF Fulfils, Holds

-----------------------------------------------------------------------------
(* The actions keep the invariant of the values *)

\* What is known when a party takes a step.
Knows(p, k, j, e, o) ==
    /\ k = pc[p] /\ j = pc[Other(p)] /\ e = env[p] /\ o = env[Other(p)]
    /\ k \in 1 .. 21 /\ j \in 1 .. 22 /\ Other(p) \in Party
    /\ Holds(p, k, e, plain) /\ Agrees(p, k, e, o)
    /\ Holds(Other(p), j, o, plain) /\ Precedes(p, k + 1, j)
    /\ e \in EnvType /\ o \in EnvType /\ plain \in Inputs

\* What the invariant gives the party that takes a step.
LEMMA Known ==
    ASSUME Inv, IInv', NEW p \in Party, NEW step, At(p, step), Advance(p)
    PROVE  /\ Moves(p) /\ Steps[p][pc[p]] = step
           /\ \E k, j, e, o : Knows(p, k, j, e, o)
<1>1. Moves(p) /\ pc[p] \in 1 .. 21 /\ Steps[p][pc[p]] = step
  BY StepOf DEF Inv
<1>2. Other(p) \in Party /\ pc[Other(p)] \in 1 .. 22
  BY Turns DEF Inv, IInv
<1>3. Precedes(p, pc[p] + 1, pc[Other(p)])
  BY <1>1, PrecedesNext DEF Inv
<1>4. /\ Holds(p, pc[p], env[p], plain) /\ Agrees(p, pc[p], env[p], env[Other(p)])
      /\ Holds(Other(p), pc[Other(p)], env[Other(p)], plain) /\ plain \in Inputs
      /\ env[p] \in EnvType /\ env[Other(p)] \in EnvType
  BY <1>2 DEF Inv, Environments
<1> QED  BY <1>1, <1>2, <1>3, <1>4 DEF Knows

\* Messages of one block and of a vector of values.
LEMMA SendingOne ==
    ASSUME Inv, IInv', NEW p \in Party, NEW step \in DOMAIN Written,
           At(p, step), Advance(p), NEW x, env' = [env EXCEPT ![p] = x], UNCHANGED plain,
           Fulfils(p, pc[p], env[p], x, env[Other(p)], plain), NEW bytes,
           Width(Written[step]) = 1, Send(p, Blocks(Written[step], <<bytes>>)),
           Message(p, x)[Written[step]] = <<bytes>>,
           Written[step] \in NumericKinds => bytes \in [1 .. BlockBytes -> Byte]
    PROVE  Inv'
<1>1. PICK blocks : blocks = Blocks(Written[step], <<bytes>>)
  OBVIOUS
<1>2. /\ Len(blocks) = 1 /\ \E T : blocks \in Seq(T)
      /\ \A b \in 1 .. Len(blocks) : blocks[b].kind = Written[step]
  BY <1>1, SignalSent
<1>3. blocks[1].bytes = bytes
  BY <1>1 DEF Blocks
<1>4. Spelling(p, x, Written[step], blocks)
  <2> SUFFICES ASSUME NEW b \in 1 .. Len(blocks)
               PROVE  /\ blocks[b].kind = Written[step]
                      /\ blocks[b].bytes = Message(p, x)[Written[step]][b]
                      /\ blocks[b].kind \in NumericKinds =>
                            blocks[b].bytes \in [1 .. BlockBytes -> Byte]
    BY DEF Spelling
  <2>1. b = 1 /\ blocks[b].kind = Written[step] /\ <<bytes>>[1] = bytes
    BY <1>2
  <2> QED  BY <1>3, <2>1
<1>5. PICK T : blocks \in Seq(T)
  BY <1>2
<1>6. Send(p, blocks) /\ Len(blocks) = Width(Written[step])
  BY <1>1, <1>2
<1>7. /\ Inv /\ IInv' /\ p \in Party /\ step \in DOMAIN Written /\ At(p, step) /\ Advance(p)
      /\ env' = [env EXCEPT ![p] = x] /\ UNCHANGED plain
      /\ Fulfils(p, pc[p], env[p], x, env[Other(p)], plain)
  OBVIOUS
<1> QED  BY ONLY <1>4, <1>5, <1>6, <1>7, Sending

\* The same for a vector of values.
LEMMA SendingValues ==
    ASSUME Inv, IInv', NEW p \in Party, NEW step \in DOMAIN Written,
           At(p, step), Advance(p), NEW x, env' = [env EXCEPT ![p] = x], UNCHANGED plain,
           Fulfils(p, pc[p], env[p], x, env[Other(p)], plain),
           NEW count \in Nat \ {0}, NEW vec \in [0 .. count - 1 -> WireValue],
           Width(Written[step]) = BlocksRead(count, ValueBytes),
           Send(p, Values(Written[step], vec)),
           Message(p, x)[Written[step]] = sendValues(vec, ValueBytes)
    PROVE  Inv'
<1>1. PICK blocks, spelled : /\ spelled = sendValues(vec, ValueBytes)
                             /\ blocks = Blocks(Written[step], spelled)
                             /\ blocks = Values(Written[step], vec)
  BY DEF Values
<1>2. /\ Len(blocks) = BlocksRead(count, ValueBytes) /\ \E T : blocks \in Seq(T)
      /\ \A b \in 1 .. Len(blocks) : blocks[b].kind = Written[step]
  BY <1>1, ValuesSent
<1>3. /\ spelled \in Seq([1 .. BlockBytes -> Byte])
      /\ Len(spelled) = Len(blocks)
  BY <1>1, <1>2, RoundTrip
<1>4. Spelling(p, x, Written[step], blocks)
  <2> SUFFICES ASSUME NEW b \in 1 .. Len(blocks)
               PROVE  /\ blocks[b].kind = Written[step]
                      /\ blocks[b].bytes = Message(p, x)[Written[step]][b]
                      /\ blocks[b].kind \in NumericKinds =>
                            blocks[b].bytes \in [1 .. BlockBytes -> Byte]
    BY DEF Spelling
  <2>1. DOMAIN spelled = 1 .. Len(spelled) /\ spelled[b] \in [1 .. BlockBytes -> Byte]
    BY <1>3, LenProperties, ElementOfSeq
  <2>2. blocks[b].bytes = spelled[b]
    <3>1. b \in DOMAIN spelled
      BY ONLY <1>3, <2>1
    <3> QED  BY ONLY <1>1, <3>1 DEF Blocks
  <2> QED  BY <1>1, <1>2, <2>1, <2>2
<1>5. PICK T : blocks \in Seq(T)
  BY <1>2
<1>6. Send(p, blocks) /\ Len(blocks) = Width(Written[step])
  BY <1>1, <1>2
<1>7. /\ Inv /\ IInv' /\ p \in Party /\ step \in DOMAIN Written /\ At(p, step) /\ Advance(p)
      /\ env' = [env EXCEPT ![p] = x] /\ UNCHANGED plain
      /\ Fulfils(p, pc[p], env[p], x, env[Other(p)], plain)
  OBVIOUS
<1> QED  BY ONLY <1>4, <1>5, <1>6, <1>7, Sending

\* What a reading step makes of the values that were sent.
LEMMA ReceivedVector ==
    ASSUME Inv, NEW p \in Party, NEW step \in DOMAIN Expected, Receive(p, step), Advance(p),
           NEW o, o = env[Other(p)],
           NEW count \in Nat \ {0}, NEW vec \in [0 .. count - 1 -> WireValue],
           Width(Expected[step]) = BlocksRead(count, ValueBytes),
           Message(Other(p), o)[Expected[step]] = sendValues(vec, ValueBytes)
    PROVE  \A v \in 0 .. count - 1 : ReceivedValues(p, step)[v] = vec[v]
<1>1. PICK spelled : spelled = sendValues(vec, ValueBytes)
  OBVIOUS
<1>2. PICK n \in Nat : n = Width(Expected[step])
                       /\ Received(p, step) = [b \in 1 .. n |-> spelled[b]]
  <2>1. IInv /\ Contents
    BY DEF Inv
  <2> QED  BY <1>1, <2>1, ReceivedIs
<1>3. /\ spelled \in Seq([1 .. BlockBytes -> Byte]) /\ Len(spelled) = n
      /\ \A v \in 0 .. count - 1 : recvValues(spelled, ValueBytes)[v] = vec[v]
  BY <1>1, <1>2, RoundTrip
<1>4. spelled = [b \in 1 .. n |-> spelled[b]]
  <2>1. spelled \in [1 .. Len(spelled) -> [1 .. BlockBytes -> Byte]]
    BY ONLY <1>3, LenProperties
  <2> QED  BY ONLY <1>3, <2>1
<1> QED  BY <1>2, <1>3, <1>4 DEF ReceivedValues

\* A message without content is one empty block.
LEMMA SignalIs ==
    ASSUME NEW kind
    PROVE  Signal(kind) = Blocks(kind, << <<>> >>)
BY DEF Signal, Blocks

\* A step that leaves the environment as it is.
LEMMA Unchanging ==
    ASSUME Inv, NEW p \in Party, NEW k, NEW j, NEW e, NEW o, Knows(p, k, j, e, o),
           UNCHANGED env,
           k = 2 \/ k \in 5 .. 8 \/ k = AtRecvU(p) + 1 \/ k = AtSendU(p) + 1
    PROVE  /\ env' = [env EXCEPT ![p] = e]
           /\ Fulfils(p, pc[p], env[p], e, env[Other(p)], plain)
<1>1. env' = [env EXCEPT ![p] = e]
  BY DEF Inv, Environments, Knows
<1>2. /\ k \in 1 .. 21 /\ Holds(p, k, e, plain) /\ Agrees(p, k, e, o)
      /\ k = pc[p] /\ e = env[p] /\ o = env[Other(p)]
  BY DEF Knows
<1>3. Fulfils(p, k, e, e, o, plain)
  BY <1>2, Idle
<1> QED  BY <1>1, <1>2, <1>3

\* AEnv::AEnv, the first seed sent.
LEMMA SendSeedInv ==
    ASSUME Inv, IInv', NEW p \in Party, SendSeed(p) PROVE Inv'
<1>1. At(p, "sendSeed") /\ Advance(p) /\ UNCHANGED plain
  BY DEF SendSeed
<1>2. PICK s \in Seeds : \E sq \in Seeds :
         /\ env' = [env EXCEPT ![p] = [@ EXCEPT ![OwnSeed(p)] = s, ![OwnSquaresSeed(p)] = sq]]
         /\ Send(p, Blocks("seed", sendValue(s)))
  BY DEF SendSeed
<1>3. PICK sq \in Seeds :
         /\ env' = [env EXCEPT ![p] = [@ EXCEPT ![OwnSeed(p)] = s, ![OwnSquaresSeed(p)] = sq]]
         /\ Send(p, Blocks("seed", sendValue(s)))
  BY <1>2
<1>4. /\ Steps[p][pc[p]] = "sendSeed"
      /\ \E k, j, e, o : Knows(p, k, j, e, o)
  BY <1>1, Known
<1>5. PICK k, j, e, o : Knows(p, k, j, e, o)
  BY <1>4
<1>6. /\ k = pc[p] /\ e = env[p] /\ o = env[Other(p)] /\ k \in 1 .. 21
      /\ Holds(p, k, e, plain)
  BY <1>5 DEF Knows
<1>7. k = 1
  BY <1>4, <1>6, PositionIn
<1>8. s \in Byte /\ sq \in Byte
  BY ParameterAssumption
<1>9. PICK x : x = WithSeeds(p, e, s, sq)
  OBVIOUS
<1>10. Fulfils(p, 1, e, x, o, plain) /\ x[OwnSeed(p)] = s
  <2>1. Holds(p, 1, e, plain)
    BY <1>6, <1>7
  <2> QED  BY ONLY <1>8, <1>9, <1>7, <2>1, SeedSent, p \in Party
<1>11. PICK bytes : sendValue(s) = <<bytes>> /\ bytes \in [1 .. BlockBytes -> Byte]
  <2>1. sendValue(s)[1] \in [1 .. BlockBytes -> Byte]
    BY <1>8, SeedTrip
  <2>2. sendValue(s) = << sendValue(s)[1] >>
    BY DEF sendValue
  <2> QED  BY <2>1, <2>2
<1>12. Message(p, x)["seed"] = <<bytes>>
  BY <1>10, <1>11 DEF Message
<1>13. env' = [env EXCEPT ![p] = x]
  BY <1>3, <1>6, <1>9 DEF WithSeeds
<1>14. /\ "sendSeed" \in DOMAIN Written /\ Written["sendSeed"] = "seed"
       /\ Width(Written["sendSeed"]) = 1
  BY WidthsWritten DEF Written
<1>15. Fulfils(p, pc[p], env[p], x, env[Other(p)], plain)
  BY <1>6, <1>7, <1>10
<1>16. Send(p, Blocks(Written["sendSeed"], <<bytes>>))
  BY <1>3, <1>11, <1>14
<1> QED  BY <1>1, <1>11, <1>12, <1>13, <1>14, <1>15, <1>16, SendingOne

\* AEnv::AEnv, the second seed sent.
LEMMA SendSquaresSeedInv ==
    ASSUME Inv, IInv', NEW p \in Party, SendSquaresSeed(p) PROVE Inv'
<1>1. At(p, "sendSquaresSeed") /\ Advance(p) /\ UNCHANGED plain /\ UNCHANGED env
  BY DEF SendSquaresSeed
<1>2. /\ Steps[p][pc[p]] = "sendSquaresSeed"
      /\ \E k, j, e, o : Knows(p, k, j, e, o)
  BY <1>1, Known
<1>3. PICK k, j, e, o : Knows(p, k, j, e, o)
  BY <1>2
<1>4. /\ k = pc[p] /\ e = env[p] /\ k \in 1 .. 21 /\ e \in EnvType
  BY <1>3 DEF Knows
<1>5. k = 2
  BY <1>2, <1>4, PositionIn
<1>6. /\ env' = [env EXCEPT ![p] = e]
      /\ Fulfils(p, pc[p], env[p], e, env[Other(p)], plain)
  BY <1>1, <1>3, <1>5, Unchanging
<1>7. PICK s \in Byte : s = e[OwnSquaresSeed(p)]
  BY <1>4 DEF EnvType, OwnSquaresSeed
<1>8. PICK bytes : sendValue(s) = <<bytes>> /\ bytes \in [1 .. BlockBytes -> Byte]
  <2>1. sendValue(s)[1] \in [1 .. BlockBytes -> Byte]
    BY SeedTrip
  <2>2. sendValue(s) = << sendValue(s)[1] >>
    BY DEF sendValue
  <2> QED  BY <2>1, <2>2
<1>9. Message(p, e)["squaresSeed"] = <<bytes>>
  BY <1>7, <1>8 DEF Message
<1>10. /\ "sendSquaresSeed" \in DOMAIN Written /\ Written["sendSquaresSeed"] = "squaresSeed"
       /\ Width(Written["sendSquaresSeed"]) = 1
  BY WidthsWritten DEF Written
<1>11. Send(p, Blocks(Written["sendSquaresSeed"], <<bytes>>))
  BY <1>4, <1>7, <1>8, <1>10 DEF SendSquaresSeed
<1> QED  BY <1>1, <1>6, <1>8, <1>9, <1>10, <1>11, SendingOne

\* The messages without content.
LEMMA SignalInv ==
    ASSUME Inv, IInv', NEW p \in Party,
           NEW step \in {"sendBaseKeys", "sendBasePoints", "sendOffset"},
           At(p, step), Send(p, Signal(Written[step])), Advance(p), UNCHANGED <<env, plain>>
    PROVE  Inv'
<1>1. /\ Steps[p][pc[p]] = step
      /\ \E k, j, e, o : Knows(p, k, j, e, o)
  BY Known
<1>2. PICK k, j, e, o : Knows(p, k, j, e, o)
  BY <1>1
<1>3. k = pc[p] /\ k \in 1 .. 21
  BY <1>2 DEF Knows
<1>4. k = 2 \/ k \in 5 .. 8 \/ k = AtRecvU(p) + 1 \/ k = AtSendU(p) + 1
  <2>1. CASE step = "sendOffset"
    BY <1>1, <1>3, <2>1, PositionIn
  <2>2. CASE step # "sendOffset"
    BY <1>1, <1>3, <2>2, PositionIn
  <2> QED  BY <2>1, <2>2
<1>5. /\ env' = [env EXCEPT ![p] = e]
      /\ Fulfils(p, pc[p], env[p], e, env[Other(p)], plain)
  BY <1>2, <1>4, Unchanging
<1>6. /\ step \in DOMAIN Written /\ Width(Written[step]) = 1
      /\ Written[step] \notin NumericKinds
      /\ Written[step] \in {"baseKeys", "basePoints", "offset"}
  BY WidthsWritten DEF Written, NumericKinds
<1>7. Message(p, e)[Written[step]] = << <<>> >>
  BY <1>6 DEF Message
<1>8. Send(p, Blocks(Written[step], << <<>> >>))
  BY SignalIs
<1> QED  BY <1>5, <1>6, <1>7, <1>8, SendingOne

\* The sending steps of the base OTs.
LEMMA BaseOTSendInv ==
    ASSUME Inv, IInv', NEW p \in Party, BaseOTSend(p) PROVE Inv'
<1>1. Advance(p) /\ UNCHANGED <<env, plain>>
  BY DEF BaseOTSend
<1>2. CASE At(p, "sendBaseKeys") /\ Send(p, Signal("baseKeys"))
  <2>1. Written["sendBaseKeys"] = "baseKeys"
    BY DEF Written
  <2> QED  BY <1>1, <1>2, <2>1, SignalInv
<1>3. CASE At(p, "sendBasePoints") /\ Send(p, Signal("basePoints"))
  <2>1. Written["sendBasePoints"] = "basePoints"
    BY DEF Written
  <2> QED  BY <1>1, <1>3, <2>1, SignalInv
<1> QED  BY <1>2, <1>3 DEF BaseOTSend

\* The offset of a batch sent.
LEMMA SendOffsetInv ==
    ASSUME Inv, IInv', NEW p \in Party, SendOffset(p) PROVE Inv'
<1>1. Written["sendOffset"] = "offset"
  BY DEF Written
<1> QED  BY <1>1, SignalInv DEF SendOffset

\* The messages without content read.
LEMMA SignalTaken ==
    ASSUME Inv, IInv', NEW p \in Party,
           NEW step \in {"recvBaseKeys", "recvBasePoints", "recvOffset"},
           Receive(p, step), Advance(p), UNCHANGED <<env, plain>>
    PROVE  Inv'
<1>0. At(p, step)
  BY DEF Receive
<1>1. /\ Steps[p][pc[p]] = step
      /\ \E k, j, e, o : Knows(p, k, j, e, o)
  BY <1>0, Known
<1>2. PICK k, j, e, o : Knows(p, k, j, e, o)
  BY <1>1
<1>3. k = pc[p] /\ k \in 1 .. 21
  BY <1>2 DEF Knows
<1>4. k = 2 \/ k \in 5 .. 8 \/ k = AtRecvU(p) + 1 \/ k = AtSendU(p) + 1
  <2>1. CASE step = "recvOffset"
    BY <1>1, <1>3, <2>1, PositionIn
  <2>2. CASE step # "recvOffset"
    BY <1>1, <1>3, <2>2, PositionIn
  <2> QED  BY <2>1, <2>2
<1>5. /\ env' = [env EXCEPT ![p] = e]
      /\ Fulfils(p, pc[p], env[p], e, env[Other(p)], plain)
  BY <1>2, <1>4, Unchanging
<1>6. step \in DOMAIN Expected
  BY DEF Expected
<1> QED  BY <1>5, <1>6, Receiving

\* The reading steps of the base OTs.
LEMMA BaseOTRecvInv ==
    ASSUME Inv, IInv', NEW p \in Party, BaseOTRecv(p) PROVE Inv'
<1>1. Advance(p) /\ UNCHANGED <<env, plain>>
  BY DEF BaseOTRecv
<1>2. CASE Receive(p, "recvBaseKeys")
  BY <1>1, <1>2, SignalTaken
<1>3. CASE Receive(p, "recvBasePoints")
  BY <1>1, <1>3, SignalTaken
<1> QED  BY <1>2, <1>3 DEF BaseOTRecv

\* The offset of a batch read.
LEMMA RecvOffsetInv ==
    ASSUME Inv, IInv', NEW p \in Party, RecvOffset(p) PROVE Inv'
BY SignalTaken DEF RecvOffset

\* The seeds that a party reads are the peer's.
LEMMA SeedRead ==
    ASSUME Inv, NEW p \in Party, NEW step \in {"recvSeed", "recvSquaresSeed"},
           Receive(p, step), Advance(p), NEW o, o = env[Other(p)], NEW seed \in Byte,
           Message(Other(p), o)[Expected[step]] = sendValue(seed)
    PROVE  recvValue(Received(p, step)) = seed
<1>1. step \in DOMAIN Expected /\ Width(Expected[step]) = 1
  BY DEF Expected, Width
<1>2. PICK spelled : spelled = sendValue(seed)
  OBVIOUS
<1>3. IInv /\ Contents
  BY DEF Inv
<1>4. Received(p, step) = [b \in 1 .. 1 |-> spelled[b]]
  <2>1. /\ p \in Party /\ step \in DOMAIN Expected /\ Receive(p, step) /\ Advance(p)
        /\ o = env[Other(p)] /\ IInv /\ Contents
    BY <1>1, <1>3
  <2>2. Received(p, step) =
           [b \in 1 .. Width(Expected[step]) |-> Message(Other(p), o)[Expected[step]][b]]
    BY ONLY <2>1, ReceivedIs
  <2> QED  BY <1>1, <1>2, <2>2
<1>5. recvValue(Received(p, step)) = spelled[1][1]
  BY <1>4 DEF recvValue
<1>6. recvValue(spelled) = seed
  BY <1>2, SeedTrip
<1> QED  BY <1>5, <1>6 DEF recvValue

\* AEnv::AEnv, the peer's first seed read.
LEMMA RecvSeedInv ==
    ASSUME Inv, IInv', NEW p \in Party, RecvSeed(p) PROVE Inv'
<1>1. /\ Receive(p, "recvSeed") /\ Advance(p) /\ UNCHANGED plain
      /\ Set(p, OwnSeed(Other(p)), recvValue(Received(p, "recvSeed")))
      /\ At(p, "recvSeed")
  BY DEF RecvSeed, Receive
<1>2. /\ Steps[p][pc[p]] = "recvSeed"
      /\ \E k, j, e, o : Knows(p, k, j, e, o)
  BY <1>1, Known
<1>3. PICK k, j, e, o : Knows(p, k, j, e, o)
  BY <1>2
<1>4. /\ k = pc[p] /\ e = env[p] /\ o = env[Other(p)] /\ k \in 1 .. 21
      /\ Holds(p, k, e, plain) /\ o \in EnvType
  BY <1>3 DEF Knows
<1>5. k = 3
  BY <1>2, <1>4, PositionIn
<1>6. PICK s \in Byte : s = o[OwnSeed(Other(p))]
  BY <1>4 DEF EnvType, OwnSeed
<1>7. recvValue(Received(p, "recvSeed")) = s
  <2>1. Message(Other(p), o)[Expected["recvSeed"]] = sendValue(s)
    BY <1>6 DEF Message, Expected
  <2> QED  BY <1>1, <1>4, <2>1, SeedRead
<1>8. PICK x : x = [e EXCEPT ![OwnSeed(Other(p))] = o[OwnSeed(Other(p))]]
  OBVIOUS
<1>9. Fulfils(p, 3, e, x, o, plain)
  BY <1>4, <1>5, <1>8, SeedTaken
<1>10. env' = [env EXCEPT ![p] = x]
  BY <1>1, <1>4, <1>6, <1>7, <1>8 DEF Set
<1>11. "recvSeed" \in DOMAIN Expected
  BY DEF Expected
<1>12. Fulfils(p, pc[p], env[p], x, env[Other(p)], plain)
  BY <1>4, <1>5, <1>9
<1> QED  BY <1>1, <1>10, <1>11, <1>12, Receiving

\* AEnv::AEnv, the peer's second seed read.
LEMMA RecvSquaresSeedInv ==
    ASSUME Inv, IInv', NEW p \in Party, RecvSquaresSeed(p) PROVE Inv'
<1>1. /\ Receive(p, "recvSquaresSeed") /\ Advance(p) /\ UNCHANGED plain
      /\ Set(p, OwnSquaresSeed(Other(p)), recvValue(Received(p, "recvSquaresSeed")))
      /\ At(p, "recvSquaresSeed")
  BY DEF RecvSquaresSeed, Receive
<1>2. /\ Steps[p][pc[p]] = "recvSquaresSeed"
      /\ \E k, j, e, o : Knows(p, k, j, e, o)
  BY <1>1, Known
<1>3. PICK k, j, e, o : Knows(p, k, j, e, o)
  BY <1>2
<1>4. /\ k = pc[p] /\ e = env[p] /\ o = env[Other(p)] /\ k \in 1 .. 21
      /\ Holds(p, k, e, plain) /\ Agrees(p, k, e, o) /\ o \in EnvType
  BY <1>3 DEF Knows
<1>5. k = 4
  BY <1>2, <1>4, PositionIn
<1>6. PICK s \in Byte : s = o[OwnSquaresSeed(Other(p))]
  BY <1>4 DEF EnvType, OwnSquaresSeed
<1>7. recvValue(Received(p, "recvSquaresSeed")) = s
  <2>1. Message(Other(p), o)[Expected["recvSquaresSeed"]] = sendValue(s)
    BY <1>6 DEF Message, Expected
  <2> QED  BY <1>1, <1>4, <2>1, SeedRead
<1>8. PICK x : x = [e EXCEPT ![OwnSquaresSeed(Other(p))] = o[OwnSquaresSeed(Other(p))]]
  OBVIOUS
<1>9. Fulfils(p, 4, e, x, o, plain)
  BY <1>4, <1>5, <1>8, SquaresSeedTaken
<1>10. env' = [env EXCEPT ![p] = x]
  BY <1>1, <1>4, <1>6, <1>7, <1>8 DEF Set
<1>11. "recvSquaresSeed" \in DOMAIN Expected
  BY DEF Expected
<1>12. Fulfils(p, pc[p], env[p], x, env[Other(p)], plain)
  BY <1>4, <1>5, <1>9
<1> QED  BY <1>1, <1>10, <1>11, <1>12, Receiving

\* generateMultiplicationTriplets, the masks drawn.
LEMMA DrawDeltasInv ==
    ASSUME Inv, IInv', NEW p \in Party, DrawDeltas(p) PROVE Inv'
<1>1. At(p, "drawDeltas") /\ Advance(p) /\ UNCHANGED <<net, plain>>
  BY DEF DrawDeltas
<1>2. /\ Steps[p][pc[p]] = "drawDeltas"
      /\ \E k, j, e, o : Knows(p, k, j, e, o)
  BY <1>1, Known
<1>3. PICK k, j, e, o : Knows(p, k, j, e, o)
  BY <1>2
<1>4. /\ k = pc[p] /\ e = env[p] /\ o = env[Other(p)] /\ k \in 1 .. 21
      /\ Holds(p, k, e, plain) /\ Agrees(p, k, e, o) /\ e \in EnvType
  BY <1>3 DEF Knows
<1>5. k = 9
  BY <1>2, <1>4, PositionIn
<1>6. PICK r \in Draws :
         env' = [env EXCEPT
           ![p].database = [i \in Rows |-> [c \in Cols |-> Share(0,
              IF p = "server" THEN Mod(r[i * N + c])
                              ELSE PRG(env[p].databaseSeed + (i * N + c)))]],
           ![p].fingerprint = [c \in Cols |-> Share(0,
              IF p = "server" THEN PRG(env[p].fingerprintSeed + c) ELSE Mod(r[c]))]]
  BY Zenon DEF DrawDeltas
<1>7. PICK db, fp :
         /\ db = [i \in Rows |-> [c \in Cols |-> Share(0,
              IF p = "server" THEN Mod(r[i * N + c])
                              ELSE PRG(env[p].databaseSeed + (i * N + c)))]]
         /\ fp = [c \in Cols |-> Share(0,
              IF p = "server" THEN PRG(env[p].fingerprintSeed + c) ELSE Mod(r[c]))]
  OBVIOUS
<1>8. e.databaseSeed \in Byte /\ e.fingerprintSeed \in Byte
  BY <1>4 DEF EnvType
<1>9. db \in [Rows -> [Cols -> ShareType]]
  <2>1. ASSUME NEW i \in Rows, NEW c \in Cols
        PROVE  Mod(r[i * N + c]) \in Element /\ PRG(e.databaseSeed + (i * N + c)) \in Element
    BY <1>8, DrawType, PRGType
  <2>2. ASSUME NEW d \in Element PROVE Share(0, d) \in ShareType
    BY RingType DEF Share, ShareType
  <2> QED  BY <1>4, <1>7, <2>1, <2>2
<1>10. fp \in [Cols -> ShareType]
  <2>1. ASSUME NEW c \in Cols
        PROVE  Mod(r[c]) \in Element /\ PRG(e.fingerprintSeed + c) \in Element
    BY <1>8, DrawType, PRGType
  <2>2. ASSUME NEW d \in Element PROVE Share(0, d) \in ShareType
    BY RingType DEF Share, ShareType
  <2> QED  BY <1>4, <1>7, <2>1, <2>2
<1>11. /\ p = "client" => Masks(db) = SeedMasks(e.databaseSeed)
       /\ p = "server" => VectorMasks(fp, Cols) = SeedColumns(e.fingerprintSeed)
  BY <1>4, <1>7 DEF Masks, SeedMasks, VectorMasks, SeedColumns, Share
<1>12. PICK x : x = [e EXCEPT !.database = db, !.fingerprint = fp]
  OBVIOUS
<1>13. Fulfils(p, 9, e, x, o, plain)
  <2>1. Holds(p, 9, e, plain) /\ Agrees(p, 9, e, o)
    BY <1>4, <1>5
  <2> QED  BY ONLY <1>9, <1>10, <1>11, <1>12, <2>1, Drawn, p \in Party
<1>14. env' = [env EXCEPT ![p] = x]
  <2>1. env' = [env EXCEPT ![p].database = db, ![p].fingerprint = fp]
    BY <1>6, <1>7
  <2>2. env \in [Party -> EnvType]
    BY DEF Inv, Environments
  <2> QED  BY ONLY <1>4, <1>12, <2>1, <2>2, p \in Party DEF EnvType
<1>15. Fulfils(p, pc[p], env[p], x, env[Other(p)], plain)
  BY <1>4, <1>5, <1>13
<1>16. "drawDeltas" \notin DOMAIN Expected \cup DOMAIN Written
  BY DEF Expected, Written
<1> QED  BY <1>1, <1>14, <1>15, <1>16, Working

\* The choices of a party that has drawn its masks.
LEMMA ChoiceIs ==
    ASSUME NEW p, NEW e, e = env[p], e.fingerprint \in [Cols -> ShareType]
    PROVE  Choice(p) = ChoiceOf(VectorMasks(e.fingerprint, Cols))
<1>1. ASSUME NEW b \in 0 .. NumBaseBits - 1
      PROVE  VectorMasks(e.fingerprint, Cols)[b \div L] = e.fingerprint[b \div L].d
  BY BitIndex DEF VectorMasks
<1> QED  BY <1>1 DEF Choice, ChoiceOf

\* The receiver's message of a batch sent.
LEMMA SendUInv ==
    ASSUME Inv, IInv', NEW p \in Party, SendU(p) PROVE Inv'
<1>1. At(p, "sendU") /\ Advance(p) /\ UNCHANGED plain
  BY DEF SendU
<1>2. /\ Steps[p][pc[p]] = "sendU"
      /\ \E k, j, e, o : Knows(p, k, j, e, o)
  BY <1>1, Known
<1>3. PICK k, j, e, o : Knows(p, k, j, e, o)
  BY <1>2
<1>4. /\ k = pc[p] /\ e = env[p] /\ o = env[Other(p)] /\ k \in 1 .. 21
      /\ Holds(p, k, e, plain) /\ Agrees(p, k, e, o) /\ e \in EnvType
  BY <1>3 DEF Knows
<1>5. k = AtSendU(p) /\ k > 9
  BY <1>2, <1>4, PositionIn DEF AtSendU
<1>6. e.fingerprint \in [Cols -> ShareType]
  BY <1>4, <1>5, VectorsTyped
<1>7. PICK choices : /\ choices = Choice(p)
                     /\ choices = ChoiceOf(VectorMasks(e.fingerprint, Cols))
  BY <1>4, <1>6, ChoiceIs
<1>8. PICK keys \in Pads :
         /\ Set(p, "received", keys)
         /\ Send(p, Blocks("u", <<[keys |-> keys, choices |-> choices]>>))
  BY <1>7 DEF SendU
<1>9. keys \in [0 .. NumBaseBits - 1 -> WireValue]
  BY ParameterAssumption, WireType
<1>10. PICK x : x = [e EXCEPT !.received = keys]
  OBVIOUS
<1>11. Fulfils(p, k, e, x, o, plain)
  BY <1>4, <1>5, <1>9, <1>10, USent
<1>12. x.received = keys /\ x.fingerprint = e.fingerprint
  BY <1>4, <1>10 DEF EnvType
<1>13. env' = [env EXCEPT ![p] = x]
  BY <1>4, <1>8, <1>10 DEF Set
<1>14. PICK bytes : bytes = [keys |-> keys, choices |-> choices]
  OBVIOUS
<1>15. Message(p, x)["u"] = <<bytes>>
  BY <1>7, <1>12, <1>14 DEF Message
<1>16. /\ "sendU" \in DOMAIN Written /\ Written["sendU"] = "u"
       /\ Width(Written["sendU"]) = 1 /\ "u" \notin NumericKinds
  BY WidthsWritten DEF Written, NumericKinds
<1>17. Send(p, Blocks(Written["sendU"], <<bytes>>))
  BY <1>8, <1>14, <1>16
<1>18. Fulfils(p, pc[p], env[p], x, env[Other(p)], plain)
  BY <1>4, <1>11
<1> QED  BY <1>1, <1>13, <1>15, <1>16, <1>17, <1>18, SendingOne

\* The receiver's message of a batch read.
LEMMA RecvUInv ==
    ASSUME Inv, IInv', NEW p \in Party, RecvU(p) PROVE Inv'
<1>1. Receive(p, "recvU") /\ Advance(p) /\ UNCHANGED plain /\ At(p, "recvU")
  BY DEF RecvU, Receive
<1>2. /\ Steps[p][pc[p]] = "recvU"
      /\ \E k, j, e, o : Knows(p, k, j, e, o)
  BY <1>1, Known
<1>3. PICK k, j, e, o : Knows(p, k, j, e, o)
  BY <1>2
<1>4. /\ k = pc[p] /\ j = pc[Other(p)] /\ e = env[p] /\ o = env[Other(p)] /\ k \in 1 .. 21
      /\ Holds(p, k, e, plain) /\ Agrees(p, k, e, o) /\ e \in EnvType
      /\ j \in 1 .. 22 /\ Holds(Other(p), j, o, plain) /\ Precedes(p, k + 1, j)
      /\ Other(p) \in Party
  BY <1>3 DEF Knows
<1>5. k = AtRecvU(p) /\ k > 9
  BY <1>2, <1>4, PositionIn DEF AtRecvU
<1>6. j > AtSendU(Other(p)) /\ j > 9
  <2>1. j > AtSendU(Other(p))
    BY <1>4, <1>5 DEF Precedes, AtRecvU
  <2> QED  BY <1>4, <2>1 DEF AtSendU
<1>7. o.fingerprint \in [Cols -> ShareType]
  BY <1>4, <1>6, VectorsTyped
<1>8. o.received \in [0 .. NumBaseBits - 1 -> WireValue]
  BY <1>4, <1>6 DEF Holds, HoldsKeys
<1>9. PICK received, choices : /\ received = o.received
                               /\ choices = ChoiceOf(VectorMasks(o.fingerprint, Cols))
  OBVIOUS
<1>10. "recvU" \in DOMAIN Expected /\ Expected["recvU"] = "u" /\ Width(Expected["recvU"]) = 1
  BY DEF Expected, Width
<1>11. Received(p, "recvU")[1] = [keys |-> received, choices |-> choices]
  <2>1. IInv /\ Contents
    BY DEF Inv
  <2>2. /\ p \in Party /\ "recvU" \in DOMAIN Expected /\ Receive(p, "recvU") /\ Advance(p)
        /\ o = env[Other(p)]
    BY <1>1, <1>4, <1>10
  <2>3. Received(p, "recvU") =
           [b \in 1 .. Width(Expected["recvU"]) |-> Message(Other(p), o)[Expected["recvU"]][b]]
    BY ONLY <2>1, <2>2, ReceivedIs
  <2>4. Message(Other(p), o)["u"] = <<[keys |-> received, choices |-> choices]>>
    BY <1>9 DEF Message
  <2>5. Received(p, "recvU") = [b \in 1 .. 1 |-> <<[keys |-> received, choices |-> choices]>>[b]]
    BY ONLY <1>10, <2>3, <2>4
  <2> QED  BY ONLY <2>5
<1>12. PICK others \in Pads : Set(p, "keys", KeysOf(received, choices, others))
  <2>1. PICK u : u = Received(p, "recvU")[1]
    OBVIOUS
  <2>2. PICK others \in Pads :
           Set(p, "keys", [b \in 0 .. NumBaseBits-1 |-> [c \in 0..1 |->
                             IF c = u.choices[b] THEN u.keys[b] ELSE others[b]]])
    BY <2>1 DEF RecvU
  <2>3. [b \in 0 .. NumBaseBits-1 |-> [c \in 0..1 |->
            IF c = u.choices[b] THEN u.keys[b] ELSE others[b]]]
           = KeysOf(received, choices, others)
    BY <1>11, <2>1 DEF KeysOf
  <2> QED  BY <2>2, <2>3
<1>13. others \in [0 .. NumBaseBits - 1 -> WireValue]
  BY ParameterAssumption, WireType
<1>14. PICK x : x = [e EXCEPT !.keys = KeysOf(received, choices, others)]
  OBVIOUS
<1>15. Fulfils(p, k, e, x, o, plain)
  BY <1>4, <1>5, <1>7, <1>8, <1>9, <1>13, <1>14, UTaken
<1>16. env' = [env EXCEPT ![p] = x]
  BY <1>4, <1>12, <1>14 DEF Set
<1>17. Fulfils(p, pc[p], env[p], x, env[Other(p)], plain)
  BY <1>4, <1>15
<1> QED  BY <1>1, <1>10, <1>16, <1>17, Receiving

\* generateMultiplicationTriplets, the last loop.
LEMMA TripletsInv ==
    ASSUME Inv, IInv', NEW p \in Party, Triplets(p) PROVE Inv'
<1>1. At(p, "triplets") /\ Advance(p) /\ UNCHANGED <<net, plain>>
  BY DEF Triplets
<1>2. /\ Steps[p][pc[p]] = "triplets"
      /\ \E k, j, e, o : Knows(p, k, j, e, o)
  BY <1>1, Known
<1>3. PICK k, j, e, o : Knows(p, k, j, e, o)
  BY <1>2
<1>4. /\ k = pc[p] /\ e = env[p] /\ o = env[Other(p)] /\ k \in 1 .. 21
      /\ Holds(p, k, e, plain) /\ Agrees(p, k, e, o) /\ e \in EnvType
  BY <1>3 DEF Knows
<1>5. k = 16
  BY <1>2, <1>4, PositionIn
<1>6. PICK triplets :
         triplets = TripletsOf(Masks(e.database), VectorMasks(e.fingerprint, Cols),
                               e.ReceiverOTs, e.SenderOTsCor)
  OBVIOUS
<1>7. [i \in Rows |-> [c \in Cols |-> Triplet(p, i, c)]] = triplets
  <2>1. ASSUME NEW i \in Rows, NEW c \in Cols
        PROVE  Triplet(p, i, c) = TripletOf(Masks(e.database), VectorMasks(e.fingerprint, Cols),
                                            e.ReceiverOTs, e.SenderOTsCor, i, c)
    <3>1. /\ Masks(e.database)[i][c] = e.database[i][c].d
          /\ VectorMasks(e.fingerprint, Cols)[c] = e.fingerprint[c].d
      BY DEF Masks, VectorMasks
    <3> QED  BY <1>4, <3>1 DEF Triplet, TripletOf
  <2> QED  BY <1>6, <2>1 DEF TripletsOf
<1>8. PICK x : x = [e EXCEPT !.triplets = triplets]
  OBVIOUS
<1>9. Fulfils(p, 16, e, x, o, plain)
  <2>1. Holds(p, 16, e, plain) /\ Agrees(p, 16, e, o)
    BY <1>4, <1>5
  <2> QED  BY <1>6, <1>8, <2>1, TripletsMade
<1>10. env' = [env EXCEPT ![p] = x]
  BY <1>4, <1>7, <1>8 DEF Set, Triplets
<1>11. Fulfils(p, pc[p], env[p], x, env[Other(p)], plain)
  BY <1>4, <1>5, <1>9
<1>12. "triplets" \notin DOMAIN Expected \cup DOMAIN Written
  BY DEF Expected, Written
<1> QED  BY <1>1, <1>10, <1>11, <1>12, Working

\* What SendCor keeps and what it sends, in terms of its environment.
LEMMA CorIs ==
    ASSUME NEW e, e.database \in [Rows -> [Cols -> ShareType]],
           e.keys \in [0 .. NumBaseBits - 1 -> [0 .. 1 -> WireValue]],
           NEW p, e = env[p]
    PROVE  [it \in OTs |->
               Xor(env[p].keys[KeyIndex(it)][1],
                   CorrelatedFunction(CorrelationShare(p, it), FirstKeys(env[p].keys)[it],
                                      it % L))]
              = CorOf(e.keys, Masks(e.database))
<1>1. ASSUME NEW it \in OTs
      PROVE  /\ CorrelationShare(p, it) =
                Masks(e.database)[it \div NumBaseBits][KeyIndex(it) \div L]
             /\ FirstKeys(env[p].keys)[it] = e.keys[KeyIndex(it)][0]
  <2>1. it \div NumBaseBits \in Rows /\ KeyIndex(it) \div L \in Cols
    BY OTIndex, BitIndex
  <2> QED  BY <2>1 DEF CorrelationShare, Masks, FirstKeys
<1> QED  BY <1>1 DEF CorOf

\* The correlated values of a batch sent.
LEMMA SendCorInv ==
    ASSUME Inv, IInv', NEW p \in Party, SendCor(p) PROVE Inv'
<1>1. At(p, "sendCor") /\ Advance(p) /\ UNCHANGED plain
  BY DEF SendCor
<1>2. /\ Steps[p][pc[p]] = "sendCor"
      /\ \E k, j, e, o : Knows(p, k, j, e, o)
  BY <1>1, Known
<1>3. PICK k, j, e, o : Knows(p, k, j, e, o)
  BY <1>2
<1>4. /\ k = pc[p] /\ e = env[p] /\ o = env[Other(p)] /\ k \in 1 .. 21
      /\ Holds(p, k, e, plain) /\ Agrees(p, k, e, o) /\ e \in EnvType
  BY <1>3 DEF Knows
<1>5. k = AtSendCor(p) /\ k > 9 /\ k > AtRecvU(p)
  BY <1>2, <1>4, PositionIn DEF AtSendCor, AtRecvU
<1>6. /\ e.database \in [Rows -> [Cols -> ShareType]]
      /\ e.keys \in [0 .. NumBaseBits - 1 -> [0 .. 1 -> WireValue]]
  <2>1. e.database \in [Rows -> [Cols -> ShareType]]
    BY <1>4, <1>5, VectorsTyped
  <2> QED  BY <1>4, <1>5, <2>1 DEF Holds, HoldsKeys
<1>7. PICK cor : cor = CorOf(e.keys, Masks(e.database))
  OBVIOUS
<1>8. Set(p, "SenderOTsCor", FirstKeys(env[p].keys))
  BY DEF SendCor, FirstKeys
<1>9. Send(p, Values("cor", cor))
  <2>1. Send(p, Values("cor",
           [it \in OTs |->
               Xor(env[p].keys[KeyIndex(it)][1],
                   CorrelatedFunction(CorrelationShare(p, it),
                                      FirstKeys(env[p].keys)[it], it % L))]))
    BY DEF SendCor, FirstKeys
  <2>2. [it \in OTs |->
               Xor(env[p].keys[KeyIndex(it)][1],
                   CorrelatedFunction(CorrelationShare(p, it), FirstKeys(env[p].keys)[it],
                                      it % L))] = cor
    BY <1>4, <1>6, <1>7, CorIs
  <2> QED  BY <2>1, <2>2
<1>10. PICK x : x = [e EXCEPT !.SenderOTsCor = FirstKeys(e.keys)]
  OBVIOUS
<1>11. /\ Fulfils(p, k, e, x, o, plain)
       /\ x.keys = e.keys /\ x.database = e.database
       /\ CorOf(e.keys, Masks(e.database)) \in [OTs -> WireValue]
  <2>1. /\ p \in Party /\ k = AtSendCor(p) /\ Holds(p, k, e, plain) /\ Agrees(p, k, e, o)
    BY <1>4, <1>5
  <2>2. Fulfils(p, k, e, x, o, plain)
    BY ONLY <1>10, <2>1, CorSent
  <2>3. CorOf(e.keys, Masks(e.database)) \in [OTs -> WireValue]
    BY ONLY <1>10, <2>1, CorSent
  <2>4. x.keys = e.keys /\ x.database = e.database
    BY ONLY <1>4, <1>10 DEF EnvType
  <2> QED  BY ONLY <2>2, <2>3, <2>4
<1>12. env' = [env EXCEPT ![p] = x]
  BY <1>4, <1>8, <1>10 DEF Set
<1>13. cor \in [0 .. NumOTs - 1 -> WireValue] /\ NumOTs \in Nat \ {0}
  BY <1>7, <1>11, BaseType DEF OTs
<1>14. Message(p, x)["cor"] = sendValues(cor, ValueBytes)
  BY <1>7, <1>11 DEF Message
<1>15. /\ "sendCor" \in DOMAIN Written /\ Written["sendCor"] = "cor"
       /\ Width(Written["sendCor"]) = BlocksRead(NumOTs, ValueBytes)
  BY WidthsWritten DEF Written
<1>16. Fulfils(p, pc[p], env[p], x, env[Other(p)], plain)
  BY <1>4, <1>11
<1> QED  BY <1>1, <1>9, <1>12, <1>13, <1>14, <1>15, <1>16, SendingValues

\* What RecvCor makes of the values it has read.
LEMMA ResultsAre ==
    ASSUME NEW p, NEW e, e = env[p], e.fingerprint \in [Cols -> ShareType],
           NEW values, NEW cor, \A v \in 0 .. NumOTs - 1 : values[v] = cor[v]
    PROVE  [it \in OTs |-> IF Choice(p)[KeyIndex(it)] = 1
                           THEN Xor(env[p].received[KeyIndex(it)], values[it])
                           ELSE env[p].received[KeyIndex(it)]]
              = ResultOf(e.received, ChoiceOf(VectorMasks(e.fingerprint, Cols)), cor)
<1>1. Choice(p) = ChoiceOf(VectorMasks(e.fingerprint, Cols))
  BY ChoiceIs
<1>2. \A it \in OTs : values[it] = cor[it]
  BY DEF OTs
<1> QED  BY <1>1, <1>2 DEF ResultOf

\* The correlated values of a batch read.
LEMMA RecvCorInv ==
    ASSUME Inv, IInv', NEW p \in Party, RecvCor(p) PROVE Inv'
<1>1. Receive(p, "recvCor") /\ Advance(p) /\ UNCHANGED plain /\ At(p, "recvCor")
  BY DEF RecvCor, Receive
<1>2. /\ Steps[p][pc[p]] = "recvCor"
      /\ \E k, j, e, o : Knows(p, k, j, e, o)
  BY <1>1, Known
<1>3. PICK k, j, e, o : Knows(p, k, j, e, o)
  BY <1>2
<1>4. /\ k = pc[p] /\ j = pc[Other(p)] /\ e = env[p] /\ o = env[Other(p)] /\ k \in 1 .. 21
      /\ Holds(p, k, e, plain) /\ Agrees(p, k, e, o) /\ e \in EnvType
      /\ j \in 1 .. 22 /\ Holds(Other(p), j, o, plain) /\ Precedes(p, k + 1, j)
      /\ Other(p) \in Party
  BY <1>3 DEF Knows
<1>5. k = AtRecvCor(p) /\ k > 9
  BY <1>2, <1>4, PositionIn DEF AtRecvCor
<1>6. j > AtSendCor(Other(p)) /\ j > 9 /\ j > AtRecvU(Other(p))
  <2>1. j > AtSendCor(Other(p))
    BY <1>4, <1>5 DEF Precedes, AtRecvCor
  <2> QED  BY <1>4, <2>1 DEF AtSendCor, AtRecvU
<1>7. /\ e.fingerprint \in [Cols -> ShareType]
      /\ Masks(o.database) \in [Rows -> [Cols -> Element]]
  BY <1>4, <1>5, <1>6, VectorsTyped
<1>8. o.keys \in [0 .. NumBaseBits - 1 -> [0 .. 1 -> WireValue]]
  BY <1>4, <1>6 DEF Holds, HoldsKeys
<1>9. PICK cor : cor = CorOf(o.keys, Masks(o.database))
  OBVIOUS
<1>10. cor \in [0 .. NumOTs - 1 -> WireValue] /\ NumOTs \in Nat \ {0}
       /\ CorOf(o.keys, Masks(o.database)) \in [OTs -> WireValue]
  BY <1>7, <1>8, <1>9, BaseType, CorType DEF OTs
<1>11. /\ "recvCor" \in DOMAIN Expected /\ Expected["recvCor"] = "cor"
       /\ Width(Expected["recvCor"]) = BlocksRead(NumOTs, ValueBytes)
  BY DEF Expected, Width, Cor
<1>12. \A v \in 0 .. NumOTs - 1 : ReceivedValues(p, "recvCor")[v] = cor[v]
  <2>1. Message(Other(p), o)[Expected["recvCor"]] = sendValues(cor, ValueBytes)
    BY <1>9, <1>11 DEF Message
  <2>2. Inv /\ p \in Party /\ Receive(p, "recvCor") /\ Advance(p) /\ o = env[Other(p)]
    BY <1>1, <1>4
  <2> QED  BY ONLY <1>10, <1>11, <2>1, <2>2, ReceivedVector
<1>13. PICK results : results = ResultOf(e.received,
                                         ChoiceOf(VectorMasks(e.fingerprint, Cols)), cor)
  OBVIOUS
<1>14. Set(p, "ReceiverOTs", results)
  <2>1. PICK values : values = ReceivedValues(p, "recvCor")
    OBVIOUS
  <2>2. Set(p, "ReceiverOTs",
           [it \in OTs |-> IF Choice(p)[KeyIndex(it)] = 1
                           THEN Xor(env[p].received[KeyIndex(it)], values[it])
                           ELSE env[p].received[KeyIndex(it)]])
    <3>1. Set(p, "ReceiverOTs",
             [it \in OTs |->
                 IF Choice(p)[KeyIndex(it)] = 1
                 THEN Xor([i \in OTs |-> env[p].received[KeyIndex(i)]][it], values[it])
                 ELSE [i \in OTs |-> env[p].received[KeyIndex(i)]][it]])
      BY <2>1 DEF RecvCor
    <3> QED  BY <3>1
  <2>3. [it \in OTs |-> IF Choice(p)[KeyIndex(it)] = 1
                        THEN Xor(env[p].received[KeyIndex(it)], values[it])
                        ELSE env[p].received[KeyIndex(it)]] = results
    BY <1>4, <1>7, <1>12, <1>13, <2>1, ResultsAre
  <2> QED  BY <2>2, <2>3
<1>15. PICK x : x = [e EXCEPT !.ReceiverOTs = results]
  OBVIOUS
<1>16. Fulfils(p, k, e, x, o, plain)
  BY <1>4, <1>5, <1>9, <1>10, <1>13, <1>15, CorTaken
<1>17. env' = [env EXCEPT ![p] = x]
  BY <1>4, <1>14, <1>15 DEF Set
<1>18. Fulfils(p, pc[p], env[p], x, env[Other(p)], plain)
  BY <1>4, <1>16
<1> QED  BY <1>1, <1>11, <1>17, <1>18, Receiving

\* The values that SetDatabaseShares sends, from what it stores.
LEMMA DatabaseMessage ==
    ASSUME NEW db \in [Rows -> [Cols -> ShareType]], NEW sums \in [Rows -> ShareType]
    PROVE  /\ [c \in 0 .. M * (N + 1) - 1 |->
                  IF c % (N + 1) < N THEN db[c \div (N + 1)][c % (N + 1)].D
                                     ELSE sums[c \div (N + 1)].D]
                 = DatabaseOf(Capitals(db), VectorCapitals(sums, Rows))
           /\ DatabaseOf(Capitals(db), VectorCapitals(sums, Rows))
                 \in [0 .. (M * N + M) - 1 -> WireValue]
           /\ M * N + M \in Nat \ {0}
<1>1. M \in Nat \ {0} /\ N \in Nat \ {0}
  BY RingType
<1>2. M * (N + 1) = M * N + M /\ M * N + M \in Nat \ {0}
  BY ONLY <1>1
<1>3. ASSUME NEW c \in 0 .. M * (N + 1) - 1
      PROVE  /\ c % (N + 1) < N =>
                   Capitals(db)[c \div (N + 1)][c % (N + 1)] = db[c \div (N + 1)][c % (N + 1)].D
             /\ VectorCapitals(sums, Rows)[c \div (N + 1)] = sums[c \div (N + 1)].D
  <2>1. c \in 0 .. (M * N + M) - 1
    BY <1>2
  <2>2. PICK i, j : i = c \div (N + 1) /\ j = c % (N + 1)
    OBVIOUS
  <2>3. i \in Rows /\ (j < N => j \in Cols)
    BY <2>1, <2>2, DatabaseCell
  <2>4. (j < N => Capitals(db)[i][j] = db[i][j].D) /\ VectorCapitals(sums, Rows)[i] = sums[i].D
    BY <2>3 DEF Capitals, VectorCapitals
  <2> QED  BY ONLY <2>2, <2>4
<1>4. /\ Capitals(db) \in [Rows -> [Cols -> Element]]
      /\ VectorCapitals(sums, Rows) \in [Rows -> Element]
  BY MaskTypes, VectorTypes
<1>5. DatabaseOf(Capitals(db), VectorCapitals(sums, Rows)) \in [0 .. (M * N + M) - 1 -> WireValue]
  BY <1>4, DatabaseTyped
<1>6. [c \in 0 .. M * (N + 1) - 1 |->
          IF c % (N + 1) < N THEN db[c \div (N + 1)][c % (N + 1)].D
                             ELSE sums[c \div (N + 1)].D]
         = DatabaseOf(Capitals(db), VectorCapitals(sums, Rows))
  BY <1>3 DEF DatabaseOf
<1> QED  BY <1>2, <1>5, <1>6

\* The server shares the database.
LEMMA SetDatabaseSharesInv ==
    ASSUME Inv, IInv', SetDatabaseShares PROVE Inv'
<1>1. At("server", "setDatabase") /\ Advance("server") /\ UNCHANGED plain /\ "server" \in Party
  BY DEF SetDatabaseShares, Party
<1>2. /\ Steps["server"][pc["server"]] = "setDatabase"
      /\ \E k, j, e, o : Knows("server", k, j, e, o)
  BY <1>1, Known
<1>3. PICK k, j, e, o : Knows("server", k, j, e, o)
  BY <1>2
<1>4. /\ k = pc["server"] /\ e = env["server"] /\ o = env[Other("server")] /\ k \in 1 .. 21
      /\ Holds("server", k, e, plain) /\ Agrees("server", k, e, o) /\ e \in EnvType
      /\ plain \in Inputs
  BY <1>3 DEF Knows
<1>5. k = 17
  BY <1>1, <1>2, <1>4, PositionIn
<1>6. PICK r \in Draws :
         /\ env' = [env EXCEPT !["server"].database = SharedCells(env["server"], plain),
                               !["server"].dSquareSum = SharedSums(env["server"], plain, r)]
         /\ Send("server", Values("database",
               [c \in 0 .. M * (N + 1) - 1 |->
                  IF c % (N + 1) < N
                  THEN SharedCells(env["server"], plain)[c \div (N + 1)][c % (N + 1)].D
                  ELSE SharedSums(env["server"], plain, r)[c \div (N + 1)].D]))
  BY DEF SetDatabaseShares, SharedCells, SharedSums
<1>7. PICK db, sums :
         /\ db = SharedCells(env["server"], plain)
         /\ sums = SharedSums(env["server"], plain, r)
         /\ env' = [env EXCEPT !["server"].database = db, !["server"].dSquareSum = sums]
         /\ Send("server", Values("database",
               [c \in 0 .. M * (N + 1) - 1 |->
                  IF c % (N + 1) < N THEN db[c \div (N + 1)][c % (N + 1)].D
                                     ELSE sums[c \div (N + 1)].D]))
  BY <1>6
<1>8. PICK x : x = [e EXCEPT !.database = db, !.dSquareSum = sums]
  OBVIOUS
<1>9. PICK pl : pl = plain
  OBVIOUS
<1>10. /\ Holds("server", 17, e, pl) /\ Agrees("server", 17, e, o) /\ pl \in Inputs
       /\ db = SharedCells(e, pl) /\ sums = SharedSums(e, pl, r)
  BY <1>4, <1>5, <1>7, <1>9
<1>11. Fulfils("server", 17, e, x, o, pl) /\ x.database = db /\ x.dSquareSum = sums
  <2>1. Fulfils("server", 17, e, x, o, pl)
    BY ONLY <1>8, <1>10, DatabaseShared, r \in Draws
  <2>2. x.database = db /\ x.dSquareSum = sums
    BY ONLY <1>4, <1>8 DEF EnvType
  <2> QED  BY ONLY <2>1, <2>2
<1>12. env' = [env EXCEPT !["server"] = x]
  <2>1. env \in [Party -> EnvType]
    BY DEF Inv, Environments
  <2> QED  BY ONLY <1>1, <1>4, <1>7, <1>8, <2>1 DEF EnvType
<1>13. db \in [Rows -> [Cols -> ShareType]] /\ sums \in [Rows -> ShareType]
  <2>1. Holds("server", 18, x, pl)
    BY <1>11 DEF Fulfils
  <2>2. x.dSquareSum \in [Rows -> ShareType]
    BY <2>1 DEF Holds, HoldsShares
  <2>3. x.database \in [Rows -> [Cols -> ShareType]]
    BY <1>1, <2>1, VectorsTyped
  <2> QED  BY <1>11, <2>2, <2>3
<1>14. PICK values : values = DatabaseOf(Capitals(db), VectorCapitals(sums, Rows))
  OBVIOUS
<1>15. /\ Send("server", Values("database", values))
       /\ values \in [0 .. (M * N + M) - 1 -> WireValue] /\ M * N + M \in Nat \ {0}
  BY <1>7, <1>13, <1>14, DatabaseMessage
<1>16. Message("server", x)["database"] = sendValues(values, ValueBytes)
  BY <1>11, <1>14 DEF Message
<1>17. /\ "setDatabase" \in DOMAIN Written /\ Written["setDatabase"] = "database"
       /\ Width(Written["setDatabase"]) = BlocksRead(M * N + M, ValueBytes)
  BY WidthsWritten DEF Written
<1>18. Fulfils("server", pc["server"], env["server"], x, env[Other("server")], plain)
  BY <1>4, <1>5, <1>9, <1>11
<1> QED  BY <1>1, <1>12, <1>15, <1>16, <1>17, <1>18, SendingValues

\* The client takes its shares of the database.
LEMMA RecvDatabaseSharesInv ==
    ASSUME Inv, IInv', RecvDatabaseShares PROVE Inv'
<1>1. /\ Receive("client", "recvDatabase") /\ Advance("client") /\ UNCHANGED plain
      /\ At("client", "recvDatabase") /\ "client" \in Party /\ Other("client") = "server"
  BY DEF RecvDatabaseShares, Receive, Party, Other
<1>2. /\ Steps["client"][pc["client"]] = "recvDatabase"
      /\ \E k, j, e, o : Knows("client", k, j, e, o)
  BY <1>1, Known
<1>3. PICK k, j, e, o : Knows("client", k, j, e, o)
  BY <1>2
<1>4. /\ k = pc["client"] /\ e = env["client"] /\ o = env["server"] /\ k \in 1 .. 21
      /\ Holds("client", k, e, plain) /\ Agrees("client", k, e, o) /\ e \in EnvType
      /\ j \in 1 .. 22 /\ Holds("server", j, o, plain) /\ Precedes("client", k + 1, j)
  BY <1>1, <1>3 DEF Knows
<1>5. k = 17
  BY <1>1, <1>2, <1>4, PositionIn
<1>6. j > 17 /\ j > 9
  BY <1>4, <1>5 DEF Precedes
<1>7. o.database \in [Rows -> [Cols -> ShareType]]
  BY <1>1, <1>4, <1>6, VectorsTyped, OtherIs
<1>8. o.dSquareSum \in [Rows -> ShareType]
  BY <1>4, <1>6 DEF Holds, HoldsShares
<1>9. PICK values : values = DatabaseOf(Capitals(o.database), VectorCapitals(o.dSquareSum, Rows))
  OBVIOUS
<1>10. values \in [0 .. (M * N + M) - 1 -> WireValue] /\ M * N + M \in Nat \ {0}
  BY <1>7, <1>8, <1>9, DatabaseMessage
<1>11. /\ "recvDatabase" \in DOMAIN Expected /\ Expected["recvDatabase"] = "database"
       /\ Width(Expected["recvDatabase"]) = BlocksRead(M * N + M, ValueBytes)
  BY DEF Expected, Width, DatabaseBlocks
<1>12. PICK D : D = ReceivedValues("client", "recvDatabase")
  OBVIOUS
<1>13. \A v \in 0 .. (M * N + M) - 1 : D[v] = values[v]
  <2>1. Message(Other("client"), o)[Expected["recvDatabase"]] = sendValues(values, ValueBytes)
    BY <1>9, <1>11 DEF Message
  <2>2. /\ Inv /\ "client" \in Party /\ Receive("client", "recvDatabase") /\ Advance("client")
        /\ o = env[Other("client")]
    BY <1>1, <1>4
  <2>3. PICK count \in Nat \ {0} : count = M * N + M
    BY <1>10
  <2>4. /\ values \in [0 .. count - 1 -> WireValue]
        /\ Width(Expected["recvDatabase"]) = BlocksRead(count, ValueBytes)
    BY ONLY <1>10, <1>11, <2>3
  <2>5. \A v \in 0 .. count - 1 : ReceivedValues("client", "recvDatabase")[v] = values[v]
    BY ONLY <1>11, <2>1, <2>2, <2>4, ReceivedVector, count \in Nat \ {0}
  <2> QED  BY ONLY <1>12, <2>3, <2>5
<1>14. env' = [env EXCEPT
             !["client"].database = [i \in Rows |-> [c \in Cols |->
                 SetCapitalDelta(env["client"].database[i][c], D[Cell(i, c)])]],
             !["client"].dSquareSum = [i \in Rows |->
                 Share(D[Cell(i, N)], PRG(env["client"].databaseSquaresSeed))]]
  BY <1>12 DEF RecvDatabaseShares
<1>15. PICK db, sums :
         /\ db = [i \in Rows |-> [c \in Cols |->
                    SetCapitalDelta(e.database[i][c], D[Cell(i, c)])]]
         /\ sums = [i \in Rows |-> Share(D[Cell(i, N)], PRG(e.databaseSquaresSeed))]
  OBVIOUS
<1>16. PICK x : x = [e EXCEPT !.database = db, !.dSquareSum = sums]
  OBVIOUS
<1>17. Fulfils("client", 17, e, x, o, plain)
  <2>1. Holds("client", 17, e, plain) /\ Agrees("client", 17, e, o)
    BY <1>4, <1>5
  <2>2. x = [e EXCEPT !.database = [i \in Rows |-> [c \in Cols |->
                                       SetCapitalDelta(e.database[i][c], D[Cell(i, c)])]],
                      !.dSquareSum = [i \in Rows |->
                                       Share(D[Cell(i, N)], PRG(e.databaseSquaresSeed))]]
    BY ONLY <1>15, <1>16
  <2>3. \A v \in 0 .. (M * N + M) - 1 :
           D[v] = DatabaseOf(Capitals(o.database), VectorCapitals(o.dSquareSum, Rows))[v]
    BY ONLY <1>9, <1>13
  <2> QED  BY ONLY <1>7, <1>8, <2>1, <2>2, <2>3, DatabaseTaken
<1>18. env' = [env EXCEPT !["client"] = x]
  <2>1. env \in [Party -> EnvType]
    BY DEF Inv, Environments
  <2>2. env' = [env EXCEPT !["client"].database = db, !["client"].dSquareSum = sums]
    BY ONLY <1>4, <1>14, <1>15
  <2> QED  BY ONLY <1>1, <1>4, <1>16, <2>1, <2>2 DEF EnvType
<1>19. Fulfils("client", pc["client"], env["client"], x, env[Other("client")], plain)
  BY <1>1, <1>4, <1>5, <1>17
<1> QED  BY <1>1, <1>11, <1>18, <1>19, Receiving

\* The values that SetFingerprintShares sends, from what it stores.
LEMMA FingerprintMessage ==
    ASSUME NEW fp \in [Cols -> ShareType], NEW sum \in ShareType
    PROVE  /\ [c \in 0 .. N |-> IF c < N THEN fp[c].D ELSE sum.D]
                 = FingerprintOf(VectorCapitals(fp, Cols), sum.D)
           /\ FingerprintOf(VectorCapitals(fp, Cols), sum.D) \in [0 .. (N + 1) - 1 -> WireValue]
           /\ N + 1 \in Nat \ {0}
<1>1. N \in Nat \ {0}
  BY RingType
<1>2. ASSUME NEW c \in 0 .. N, c < N PROVE VectorCapitals(fp, Cols)[c] = fp[c].D
  BY <1>1, <1>2 DEF VectorCapitals, Cols
<1>3. VectorCapitals(fp, Cols) \in [Cols -> Element] /\ sum.D \in Element
  BY VectorTypes DEF ShareType
<1>4. FingerprintOf(VectorCapitals(fp, Cols), sum.D) \in [0 .. (N + 1) - 1 -> WireValue]
  BY <1>3, FingerprintTyped
<1>5. [c \in 0 .. N |-> IF c < N THEN fp[c].D ELSE sum.D]
         = FingerprintOf(VectorCapitals(fp, Cols), sum.D)
  BY <1>2 DEF FingerprintOf
<1> QED  BY <1>1, <1>4, <1>5

\* The client shares the fingerprint.
LEMMA SetFingerprintSharesInv ==
    ASSUME Inv, IInv', SetFingerprintShares PROVE Inv'
<1>1. At("client", "setFingerprint") /\ Advance("client") /\ UNCHANGED plain /\ "client" \in Party
  BY DEF SetFingerprintShares, Party
<1>2. /\ Steps["client"][pc["client"]] = "setFingerprint"
      /\ \E k, j, e, o : Knows("client", k, j, e, o)
  BY <1>1, Known
<1>3. PICK k, j, e, o : Knows("client", k, j, e, o)
  BY <1>2
<1>4. /\ k = pc["client"] /\ e = env["client"] /\ o = env[Other("client")] /\ k \in 1 .. 21
      /\ Holds("client", k, e, plain) /\ Agrees("client", k, e, o) /\ e \in EnvType
      /\ plain \in Inputs
  BY <1>3 DEF Knows
<1>5. k = 18
  BY <1>1, <1>2, <1>4, PositionIn
<1>6. PICK r \in Draws :
         /\ env' = [env EXCEPT !["client"].fingerprint = SharedColumns(env["client"], plain),
                               !["client"].fingerprintSum = SharedSum(env["client"], plain, r)]
         /\ Send("client", Values("fingerprint",
               [c \in 0 .. N |-> IF c < N THEN SharedColumns(env["client"], plain)[c].D
                                          ELSE SharedSum(env["client"], plain, r).D]))
  BY DEF SetFingerprintShares, SharedColumns, SharedSum
<1>7. PICK fp, sum :
         /\ fp = SharedColumns(env["client"], plain)
         /\ sum = SharedSum(env["client"], plain, r)
         /\ env' = [env EXCEPT !["client"].fingerprint = fp, !["client"].fingerprintSum = sum]
         /\ Send("client", Values("fingerprint",
               [c \in 0 .. N |-> IF c < N THEN fp[c].D ELSE sum.D]))
  BY <1>6
<1>8. PICK x : x = [e EXCEPT !.fingerprint = fp, !.fingerprintSum = sum]
  OBVIOUS
<1>9. PICK pl : pl = plain
  OBVIOUS
<1>10. /\ Holds("client", 18, e, pl) /\ Agrees("client", 18, e, o) /\ pl \in Inputs
       /\ fp = SharedColumns(e, pl) /\ sum = SharedSum(e, pl, r)
  BY <1>4, <1>5, <1>7, <1>9
<1>11. /\ Fulfils("client", 18, e, x, o, pl) /\ x.fingerprint = fp /\ x.fingerprintSum = sum
       /\ fp \in [Cols -> ShareType] /\ sum \in ShareType
  <2>1. Fulfils("client", 18, e, x, o, pl)
    BY ONLY <1>8, <1>10, FingerprintShared, r \in Draws
  <2>2. x.fingerprint = fp /\ x.fingerprintSum = sum
    BY ONLY <1>4, <1>8 DEF EnvType
  <2>3. Holds("client", 19, x, pl)
    BY <2>1 DEF Fulfils
  <2>4. x.fingerprintSum \in ShareType
    BY <2>3 DEF Holds, HoldsShares
  <2>5. x.fingerprint \in [Cols -> ShareType]
    BY <1>1, <2>3, VectorsTyped
  <2> QED  BY ONLY <2>1, <2>2, <2>4, <2>5
<1>12. env' = [env EXCEPT !["client"] = x]
  <2>1. env \in [Party -> EnvType]
    BY DEF Inv, Environments
  <2> QED  BY ONLY <1>1, <1>4, <1>7, <1>8, <2>1 DEF EnvType
<1>13. PICK values : values = FingerprintOf(VectorCapitals(fp, Cols), sum.D)
  OBVIOUS
<1>14. /\ Send("client", Values("fingerprint", values))
       /\ values \in [0 .. (N + 1) - 1 -> WireValue] /\ N + 1 \in Nat \ {0}
  BY <1>7, <1>11, <1>13, FingerprintMessage
<1>15. Message("client", x)["fingerprint"] = sendValues(values, ValueBytes)
  BY <1>11, <1>13 DEF Message
<1>16. /\ "setFingerprint" \in DOMAIN Written /\ Written["setFingerprint"] = "fingerprint"
       /\ Width(Written["setFingerprint"]) = BlocksRead(N + 1, ValueBytes)
  BY WidthsWritten DEF Written
<1>17. Fulfils("client", pc["client"], env["client"], x, env[Other("client")], plain)
  BY <1>4, <1>5, <1>9, <1>11
<1> QED  BY <1>1, <1>12, <1>14, <1>15, <1>16, <1>17, SendingValues

\* The server takes its shares of the fingerprint.
LEMMA RecvFingerprintSharesInv ==
    ASSUME Inv, IInv', RecvFingerprintShares PROVE Inv'
<1>1. /\ Receive("server", "recvFingerprint") /\ Advance("server") /\ UNCHANGED plain
      /\ At("server", "recvFingerprint") /\ "server" \in Party /\ Other("server") = "client"
  BY DEF RecvFingerprintShares, Receive, Party, Other
<1>2. /\ Steps["server"][pc["server"]] = "recvFingerprint"
      /\ \E k, j, e, o : Knows("server", k, j, e, o)
  BY <1>1, Known
<1>3. PICK k, j, e, o : Knows("server", k, j, e, o)
  BY <1>2
<1>4. /\ k = pc["server"] /\ e = env["server"] /\ o = env["client"] /\ k \in 1 .. 21
      /\ Holds("server", k, e, plain) /\ Agrees("server", k, e, o) /\ e \in EnvType
      /\ j \in 1 .. 22 /\ Holds("client", j, o, plain) /\ Precedes("server", k + 1, j)
  BY <1>1, <1>3 DEF Knows
<1>5. k = 18
  BY <1>1, <1>2, <1>4, PositionIn
<1>6. j > 18 /\ j > 9
  BY <1>4, <1>5 DEF Precedes
<1>7. o.fingerprint \in [Cols -> ShareType]
  BY <1>1, <1>4, <1>6, VectorsTyped, OtherIs
<1>8. o.fingerprintSum \in ShareType
  BY <1>4, <1>6 DEF Holds, HoldsShares
<1>9. PICK values : values = FingerprintOf(VectorCapitals(o.fingerprint, Cols), o.fingerprintSum.D)
  OBVIOUS
<1>10. values \in [0 .. (N + 1) - 1 -> WireValue] /\ N + 1 \in Nat \ {0}
  BY <1>7, <1>8, <1>9, FingerprintMessage
<1>11. /\ "recvFingerprint" \in DOMAIN Expected /\ Expected["recvFingerprint"] = "fingerprint"
       /\ Width(Expected["recvFingerprint"]) = BlocksRead(N + 1, ValueBytes)
  BY DEF Expected, Width, FingerprintBlocks
<1>12. PICK D : D = ReceivedValues("server", "recvFingerprint")
  OBVIOUS
<1>13. \A v \in 0 .. (N + 1) - 1 : D[v] = values[v]
  <2>1. Message(Other("server"), o)[Expected["recvFingerprint"]] = sendValues(values, ValueBytes)
    BY <1>9, <1>11 DEF Message
  <2>2. /\ Inv /\ "server" \in Party /\ Receive("server", "recvFingerprint") /\ Advance("server")
        /\ o = env[Other("server")]
    BY <1>1, <1>4
  <2>3. PICK count \in Nat \ {0} : count = N + 1
    BY <1>10
  <2>4. /\ values \in [0 .. count - 1 -> WireValue]
        /\ Width(Expected["recvFingerprint"]) = BlocksRead(count, ValueBytes)
    BY ONLY <1>10, <1>11, <2>3
  <2>5. \A v \in 0 .. count - 1 : ReceivedValues("server", "recvFingerprint")[v] = values[v]
    BY ONLY <1>11, <2>1, <2>2, <2>4, ReceivedVector, count \in Nat \ {0}
  <2> QED  BY ONLY <1>12, <2>3, <2>5
<1>14. env' = [env EXCEPT
             !["server"].fingerprint =
                 [c \in Cols |-> SetCapitalDelta(env["server"].fingerprint[c], D[c])],
             !["server"].fingerprintSum = Share(D[N], PRG(env["server"].fingerprintSquaresSeed))]
  BY <1>12 DEF RecvFingerprintShares
<1>15. PICK fp, sum :
         /\ fp = [c \in Cols |-> SetCapitalDelta(e.fingerprint[c], D[c])]
         /\ sum = Share(D[N], PRG(e.fingerprintSquaresSeed))
  OBVIOUS
<1>16. PICK x : x = [e EXCEPT !.fingerprint = fp, !.fingerprintSum = sum]
  OBVIOUS
<1>17. Fulfils("server", 18, e, x, o, plain)
  <2>1. Holds("server", 18, e, plain) /\ Agrees("server", 18, e, o)
    BY <1>4, <1>5
  <2>2. x = [e EXCEPT !.fingerprint = [c \in Cols |-> SetCapitalDelta(e.fingerprint[c], D[c])],
                      !.fingerprintSum = Share(D[N], PRG(e.fingerprintSquaresSeed))]
    BY ONLY <1>15, <1>16
  <2>3. \A v \in 0 .. (N + 1) - 1 :
           D[v] = FingerprintOf(VectorCapitals(o.fingerprint, Cols), o.fingerprintSum.D)[v]
    BY ONLY <1>9, <1>13
  <2> QED  BY ONLY <1>7, <1>8, <2>1, <2>2, <2>3, FingerprintTaken
<1>18. env' = [env EXCEPT !["server"] = x]
  <2>1. env \in [Party -> EnvType]
    BY DEF Inv, Environments
  <2>2. env' = [env EXCEPT !["server"].fingerprint = fp, !["server"].fingerprintSum = sum]
    BY ONLY <1>4, <1>14, <1>15
  <2> QED  BY ONLY <1>1, <1>4, <1>16, <2>1, <2>2 DEF EnvType
<1>19. Fulfils("server", pc["server"], env["server"], x, env[Other("server")], plain)
  BY <1>1, <1>4, <1>5, <1>17
<1> QED  BY <1>1, <1>11, <1>18, <1>19, Receiving

\* The values of mult in terms of what the party holds.
LEMMA MultDeltasAre ==
    ASSUME NEW p, NEW e, e = env[p], NEW r, NEW shares, shares = [i \in Rows |-> Mod(r[i])]
    PROVE  [i \in Rows |-> MultDelta(p, i, r[i])]
              = DeltasOf(p, Masks(e.database), Capitals(e.database),
                         VectorMasks(e.fingerprint, Cols), VectorCapitals(e.fingerprint, Cols),
                         e.triplets, shares)
<1>1. ASSUME NEW i \in Rows
      PROVE  MultDelta(p, i, r[i]) =
                DeltaOf(p, Masks(e.database), Capitals(e.database),
                        VectorMasks(e.fingerprint, Cols), VectorCapitals(e.fingerprint, Cols),
                        e.triplets, i, shares[i])
  <2>1. ASSUME NEW j \in Cols
        PROVE  /\ Masks(e.database)[i][j] = e.database[i][j].d
               /\ Capitals(e.database)[i][j] = e.database[i][j].D
               /\ VectorMasks(e.fingerprint, Cols)[j] = e.fingerprint[j].d
               /\ VectorCapitals(e.fingerprint, Cols)[j] = e.fingerprint[j].D
    BY DEF Masks, Capitals, VectorMasks, VectorCapitals
  <2>2. [j \in Cols |-> MultTerm(p, i, j)] =
           [j \in Cols |->
              Mod(ProductFactor(p) * VectorCapitals(e.fingerprint, Cols)[j]
                     * Capitals(e.database)[i][j]
                  - VectorCapitals(e.fingerprint, Cols)[j] * Masks(e.database)[i][j]
                  - Capitals(e.database)[i][j] * VectorMasks(e.fingerprint, Cols)[j]
                  + e.triplets[i][j])]
    BY <2>1 DEF MultTerm
  <2>3. shares[i] = Mod(r[i])
    OBVIOUS
  <2> QED  BY ONLY <2>2, <2>3 DEF MultDelta, DeltaOf
<1> QED  BY <1>1 DEF DeltasOf

\* AEnv::mult for all rows, and the sums sent.
LEMMA MultInv ==
    ASSUME Inv, IInv', NEW p \in Party, Mult(p) PROVE Inv'
<1>1. At(p, "mult") /\ Advance(p) /\ UNCHANGED plain
  BY DEF Mult
<1>2. /\ Steps[p][pc[p]] = "mult"
      /\ \E k, j, e, o : Knows(p, k, j, e, o)
  BY <1>1, Known
<1>3. PICK k, j, e, o : Knows(p, k, j, e, o)
  BY <1>2
<1>4. /\ k = pc[p] /\ e = env[p] /\ o = env[Other(p)] /\ k \in 1 .. 21
      /\ Holds(p, k, e, plain) /\ Agrees(p, k, e, o) /\ e \in EnvType
  BY <1>3 DEF Knows
<1>5. k = 19
  BY <1>2, <1>4, PositionIn
<1>6. PICK r \in Draws : \E deltas :
         /\ deltas = [i \in Rows |-> MultDelta(p, i, r[i])]
         /\ env' = [env EXCEPT ![p].multDeltas = deltas,
                               ![p].multShares = [i \in Rows |-> Mod(r[i])]]
         /\ Send(p, Values("multDeltas", deltas))
  BY DEF Mult
<1>7. PICK deltas, shares :
         /\ deltas = [i \in Rows |-> MultDelta(p, i, r[i])]
         /\ shares = [i \in Rows |-> Mod(r[i])]
         /\ env' = [env EXCEPT ![p].multDeltas = deltas, ![p].multShares = shares]
         /\ Send(p, Values("multDeltas", deltas))
  BY <1>6
<1>8. PICK pl : pl = plain
  OBVIOUS
<1>9. PICK x : x = [e EXCEPT !.multDeltas = deltas, !.multShares = shares]
  OBVIOUS
<1>10. /\ Holds(p, 19, e, pl) /\ Agrees(p, 19, e, o) /\ shares \in [Rows -> Element]
       /\ deltas = DeltasOf(p, Masks(e.database), Capitals(e.database),
                            VectorMasks(e.fingerprint, Cols),
                            VectorCapitals(e.fingerprint, Cols), e.triplets, shares)
  <2>1. \A i \in Rows : Mod(r[i]) \in Element
    BY DrawType
  <2>2. shares \in [Rows -> Element]
    BY ONLY <1>7, <2>1
  <2>3. deltas = DeltasOf(p, Masks(e.database), Capitals(e.database),
                          VectorMasks(e.fingerprint, Cols),
                          VectorCapitals(e.fingerprint, Cols), e.triplets, shares)
    BY <1>4, <1>7, MultDeltasAre
  <2> QED  BY <1>4, <1>5, <1>8, <2>2, <2>3
<1>11. /\ Fulfils(p, 19, e, x, o, pl) /\ x.multDeltas = deltas /\ deltas \in [Rows -> Element]
  <2>0. Multiplies(p, e, x, shares, deltas)
    BY ONLY <1>9, <1>10 DEF Multiplies
  <2>1. Fulfils(p, 19, e, x, o, pl)
    BY ONLY <1>10, <2>0, Multiplied, p \in Party
  <2>2. deltas \in [Rows -> Element]
    BY ONLY <1>10, <2>0, Multiplied, p \in Party
  <2>3. x.multDeltas = deltas
    BY ONLY <1>4, <1>9 DEF EnvType
  <2> QED  BY ONLY <2>1, <2>2, <2>3
<1>12. env' = [env EXCEPT ![p] = x]
  <2>1. env \in [Party -> EnvType]
    BY DEF Inv, Environments
  <2> QED  BY ONLY <1>4, <1>7, <1>9, <2>1, p \in Party DEF EnvType
<1>13. deltas \in [0 .. M - 1 -> WireValue] /\ M \in Nat \ {0}
  BY <1>11, RingType, WireType DEF Rows
<1>14. Message(p, x)["multDeltas"] = sendValues(deltas, ValueBytes)
  BY <1>11 DEF Message
<1>15. /\ "mult" \in DOMAIN Written /\ Written["mult"] = "multDeltas"
       /\ Width(Written["mult"]) = BlocksRead(M, ValueBytes)
  BY WidthsWritten DEF Written
<1>16. Fulfils(p, pc[p], env[p], x, env[Other(p)], plain)
  BY <1>4, <1>5, <1>8, <1>11
<1>17. Send(p, Values(Written["mult"], deltas))
  BY <1>7, <1>15
<1> QED  BY <1>1, <1>12, <1>13, <1>14, <1>15, <1>16, <1>17, SendingValues

\* The opened sums of a party that has multiplied.
LEMMA DeltasTyped ==
    ASSUME NEW p \in Party, NEW k \in Nat, k > 19, NEW e, NEW pl, Holds(p, k, e, pl)
    PROVE  e.multDeltas \in [Rows -> Element]
<1>1. e.triplets \in [Rows -> [Cols -> Element]]
  <2>1. e.triplets = TripletsOf(Masks(e.database), VectorMasks(e.fingerprint, Cols),
                                e.ReceiverOTs, e.SenderOTsCor)
    BY DEF Holds, HoldsKeys
  <2>2. k > 15
    OBVIOUS
  <2> QED  BY <2>1, <2>2, TripletsTyped
<1>2. \A i \in Rows : e.multDeltas[i] \in Element
  BY <1>1, DeltasIn DEF Opened
<1>3. PICK f : e.multDeltas = [i \in Rows |-> f[i]]
  <2>1. e.multDeltas = DeltasOf(p, Masks(e.database), Capitals(e.database),
                                VectorMasks(e.fingerprint, Cols),
                                VectorCapitals(e.fingerprint, Cols), e.triplets, e.multShares)
    BY DEF Holds, HoldsResults
  <2>2. e.multDeltas = [i \in Rows |-> e.multDeltas[i]]
    BY ONLY <2>1 DEF DeltasOf
  <2> QED  BY ONLY <2>2
<1> QED  BY ONLY <1>2, <1>3

\* finalizeMultiplication and the distances.
LEMMA FinalizeInv ==
    ASSUME Inv, IInv', NEW p \in Party, FinalizeMultiplication(p) PROVE Inv'
<1>1. Receive(p, "finalize") /\ Advance(p) /\ UNCHANGED plain /\ At(p, "finalize")
  BY DEF FinalizeMultiplication, Receive
<1>2. /\ Steps[p][pc[p]] = "finalize"
      /\ \E k, j, e, o : Knows(p, k, j, e, o)
  BY <1>1, Known
<1>3. PICK k, j, e, o : Knows(p, k, j, e, o)
  BY <1>2
<1>4. /\ k = pc[p] /\ j = pc[Other(p)] /\ e = env[p] /\ o = env[Other(p)] /\ k \in 1 .. 21
      /\ Holds(p, k, e, plain) /\ Agrees(p, k, e, o) /\ e \in EnvType
      /\ j \in 1 .. 22 /\ Holds(Other(p), j, o, plain) /\ Precedes(p, k + 1, j)
      /\ Other(p) \in Party
  BY <1>3 DEF Knows
<1>5. k = 20
  BY <1>2, <1>4, PositionIn
<1>6. j > 19 /\ j \in Nat
  BY <1>4, <1>5 DEF Precedes
<1>7. o.multDeltas \in [Rows -> Element]
  BY <1>4, <1>6, DeltasTyped
<1>8. PICK values : values = o.multDeltas
  OBVIOUS
<1>9. values \in [0 .. M - 1 -> WireValue] /\ M \in Nat \ {0}
  BY <1>7, <1>8, RingType, WireType DEF Rows
<1>10. /\ "finalize" \in DOMAIN Expected /\ Expected["finalize"] = "multDeltas"
       /\ Width(Expected["finalize"]) = BlocksRead(M, ValueBytes)
  BY DEF Expected, Width, DeltaBlocks
<1>11. PICK others : others = ReceivedValues(p, "finalize")
  OBVIOUS
<1>12. \A i \in Rows : others[i] = values[i]
  <2>1. Message(Other(p), o)[Expected["finalize"]] = sendValues(values, ValueBytes)
    BY <1>8, <1>10 DEF Message
  <2>2. Inv /\ p \in Party /\ Receive(p, "finalize") /\ Advance(p) /\ o = env[Other(p)]
    BY <1>1, <1>4
  <2>3. \A v \in 0 .. M - 1 : ReceivedValues(p, "finalize")[v] = values[v]
    BY ONLY <1>9, <1>10, <2>1, <2>2, ReceivedVector
  <2> QED  BY ONLY <1>11, <2>3 DEF Rows
<1>13. PICK distances :
          distances = DistancesOf(e.multDeltas, o.multDeltas, e.multShares, e.dSquareSum,
                                  e.fingerprintSum)
  OBVIOUS
<1>14. Set(p, "distances", distances)
  <2>1. Set(p, "distances", [i \in Rows |-> OpenedDistance(p, i, others[i])])
    BY <1>11 DEF FinalizeMultiplication
  <2>2. ASSUME NEW i \in Rows
        PROVE  OpenedDistance(p, i, others[i]) =
                  DistanceOf(e.multDeltas[i], o.multDeltas[i], e.multShares[i], e.dSquareSum[i],
                             e.fingerprintSum)
    BY <1>4, <1>8, <1>12 DEF OpenedDistance, DistanceOf
  <2>3. [i \in Rows |-> OpenedDistance(p, i, others[i])] = distances
    BY <1>13, <2>2 DEF DistancesOf
  <2> QED  BY <2>1, <2>3
<1>15. PICK x : x = [e EXCEPT !.distances = distances]
  OBVIOUS
<1>16. Fulfils(p, 20, e, x, o, plain)
  <2>1. Holds(p, 20, e, plain) /\ Agrees(p, 20, e, o)
    BY <1>4, <1>5
  <2> QED  BY ONLY <1>7, <1>13, <1>15, <2>1, Finalized, p \in Party
<1>17. env' = [env EXCEPT ![p] = x]
  BY <1>4, <1>14, <1>15 DEF Set
<1>18. Fulfils(p, pc[p], env[p], x, env[Other(p)], plain)
  BY <1>4, <1>5, <1>16
<1> QED  BY <1>1, <1>10, <1>17, <1>18, Receiving

\* The share that goes into the circuit.
LEMMA ToYaoInv ==
    ASSUME Inv, IInv', NEW p \in Party, ToYao(p) PROVE Inv'
<1>1. At(p, "toYao") /\ Advance(p) /\ UNCHANGED <<net, plain>>
  BY DEF ToYao
<1>2. /\ Steps[p][pc[p]] = "toYao"
      /\ \E k, j, e, o : Knows(p, k, j, e, o)
  BY <1>1, Known
<1>3. PICK k, j, e, o : Knows(p, k, j, e, o)
  BY <1>2
<1>4. /\ k = pc[p] /\ e = env[p] /\ o = env[Other(p)] /\ k \in 1 .. 21
      /\ Holds(p, k, e, plain) /\ Agrees(p, k, e, o) /\ e \in EnvType
  BY <1>3 DEF Knows
<1>5. k = 21
  BY <1>2, <1>4, PositionIn
<1>6. PICK given : given = YaoOf(p, e.distances)
  OBVIOUS
<1>7. Set(p, "yaoInput", given)
  BY <1>4, <1>6 DEF ToYao, YaoOf
<1>8. PICK x : x = [e EXCEPT !.yaoInput = given]
  OBVIOUS
<1>9. Fulfils(p, 21, e, x, o, plain)
  <2>1. Holds(p, 21, e, plain) /\ Agrees(p, 21, e, o)
    BY <1>4, <1>5
  <2> QED  BY ONLY <1>6, <1>8, <2>1, YaoGiven, p \in Party
<1>10. env' = [env EXCEPT ![p] = x]
  BY <1>4, <1>7, <1>8 DEF Set
<1>11. Fulfils(p, pc[p], env[p], x, env[Other(p)], plain)
  BY <1>4, <1>5, <1>9
<1>12. "toYao" \notin DOMAIN Expected \cup DOMAIN Written
  BY DEF Expected, Written
<1> QED  BY <1>1, <1>10, <1>11, <1>12, Working

\* A party that has done nothing.
LEMMA EmptyHolds ==
    ASSUME NEW p \in Party, NEW pl, NEW o
    PROVE  EmptyEnv \in EnvType /\ Holds(p, 1, EmptyEnv, pl) /\ Agrees(p, 1, EmptyEnv, o)
<1>1. 0 \in Byte /\ Share(0, 0) \in ShareType
  <2>1. 0 \in Element /\ 2^ByteBits \in Nat \ {0}
    BY RingType, WireType
  <2> QED  BY <2>1 DEF Byte, Share, ShareType
<1>2. EmptyEnv \in EnvType
  BY <1>1 DEF EmptyEnv, EnvType, Matrices, Vectors, Unset
<1>3. HoldsMasks(p, 1, EmptyEnv)
  BY DEF HoldsMasks, EmptyEnv, Unset
<1>4. HoldsKeys(p, 1, EmptyEnv)
  BY DEF HoldsKeys, EmptyEnv, Unset, AtSendU, AtRecvU, AtSendCor, AtRecvCor
<1>5. HoldsShares(p, 1, EmptyEnv, pl)
  BY <1>1 DEF HoldsShares, EmptyEnv, Unset
<1>6. HoldsResults(p, 1, EmptyEnv)
  BY DEF HoldsResults, EmptyEnv, Unset
<1>7. Agrees(p, 1, EmptyEnv, o)
  BY DEF Agrees, AtRecvU, AtRecvCor
<1> QED  BY <1>2, <1>3, <1>4, <1>5, <1>6, <1>7 DEF Holds

\* The invariant at the start.
LEMMA InitInv == Init => Inv
<1> SUFFICES ASSUME Init PROVE Inv
  OBVIOUS
<1>1. IInv
  BY InitIInv
<1>2. \A p \in Party : pc[p] = 1 /\ env[p] = EmptyEnv /\ net[p] = <<>>
  BY DEF Init
<1>3. env = [p \in Party |-> EmptyEnv] /\ plain \in Inputs
  BY DEF Init
<1>4. Environments
  <2>1. env \in [Party -> EnvType]
    BY <1>3, EmptyHolds
  <2>2. ASSUME NEW p \in Party
        PROVE  Holds(p, pc[p], env[p], plain) /\ Agrees(p, pc[p], env[p], env[Other(p)])
    BY <1>2, EmptyHolds
  <2> QED  BY <1>3, <2>1, <2>2 DEF Environments
<1>5. Contents /\ WellFormed /\ InCapacity
  <2>1. \A p \in Party : Len(net[p]) = 0
    BY <1>2
  <2> QED  BY <2>1, ParameterAssumption DEF Contents, WellFormed, InCapacity
<1> QED  BY <1>1, <1>4, <1>5 DEF Inv

\* Every action of either party keeps the invariant.
LEMMA NextInv == Inv /\ [Next]_vars => Inv'
<1> SUFFICES ASSUME Inv, [Next]_vars PROVE Inv'
  OBVIOUS
<1>1. IInv'
  BY NextIInv DEF Inv
<1>2. ASSUME NEW p \in Party, Step(p) PROVE Inv'
  <2>1. CASE SendSeed(p)         BY <1>1, <2>1, SendSeedInv
  <2>2. CASE SendSquaresSeed(p)  BY <1>1, <2>2, SendSquaresSeedInv
  <2>3. CASE RecvSeed(p)         BY <1>1, <2>3, RecvSeedInv
  <2>4. CASE RecvSquaresSeed(p)  BY <1>1, <2>4, RecvSquaresSeedInv
  <2>5. CASE BaseOTSend(p)       BY <1>1, <2>5, BaseOTSendInv
  <2>6. CASE BaseOTRecv(p)       BY <1>1, <2>6, BaseOTRecvInv
  <2>7. CASE DrawDeltas(p)       BY <1>1, <2>7, DrawDeltasInv
  <2>8. CASE SendU(p)            BY <1>1, <2>8, SendUInv
  <2>9. CASE RecvU(p)            BY <1>1, <2>9, RecvUInv
  <2>10. CASE SendOffset(p)      BY <1>1, <2>10, SendOffsetInv
  <2>11. CASE RecvOffset(p)      BY <1>1, <2>11, RecvOffsetInv
  <2>12. CASE SendCor(p)         BY <1>1, <2>12, SendCorInv
  <2>13. CASE RecvCor(p)         BY <1>1, <2>13, RecvCorInv
  <2>14. CASE Triplets(p)        BY <1>1, <2>14, TripletsInv
  <2>15. CASE Mult(p)            BY <1>1, <2>15, MultInv
  <2>16. CASE FinalizeMultiplication(p)  BY <1>1, <2>16, FinalizeInv
  <2>17. CASE ToYao(p)           BY <1>1, <2>17, ToYaoInv
  <2> QED  BY <1>2, <2>1, <2>2, <2>3, <2>4, <2>5, <2>6, <2>7, <2>8, <2>9, <2>10, <2>11,
              <2>12, <2>13, <2>14, <2>15, <2>16, <2>17 DEF Step
<1>3. CASE SetDatabaseShares
  BY <1>1, <1>3, SetDatabaseSharesInv
<1>4. CASE RecvDatabaseShares
  BY <1>1, <1>4, RecvDatabaseSharesInv
<1>5. CASE SetFingerprintShares
  BY <1>1, <1>5, SetFingerprintSharesInv
<1>6. CASE RecvFingerprintShares
  BY <1>1, <1>6, RecvFingerprintSharesInv
<1>7. CASE UNCHANGED vars
  BY <1>7 DEF Inv, vars, IInv, Types, Streams, Reading, Writing, Environments, Contents,
              WellFormed, InCapacity
<1> QED  BY <1>2, <1>3, <1>4, <1>5, <1>6, <1>7, OtherIs DEF Next, Server, Client

\* The invariant of the values: at every position of its script a party holds
\* what that position says, and what it has read is what the peer put in.
THEOREM ValuesInvariance == Spec => []Inv
<1> QED  BY InitInv, NextInv, PTL DEF Spec

-----------------------------------------------------------------------------
(* The properties of the runs *)

\* The invariant gives the type invariant.
LEMMA InvTypeOK == Inv => TypeOK
<1> SUFFICES ASSUME Inv PROVE TypeOK
  OBVIOUS
<1>1. \A p \in Party : pc[p] \in 1 .. Len(Script[p]) + 1
  <2> SUFFICES ASSUME NEW p \in Party PROVE pc[p] \in 1 .. Len(Script[p]) + 1
    OBVIOUS
  <2>1. Len(Script[p]) = 21 /\ pc[p] \in 1 .. 22
    BY ScriptOf DEF Inv, IInv, Types
  <2> QED  BY ONLY <2>1
<1>2. \A p \in Party : env[p] \in EnvType /\ Len(net[p]) <= Capacity
  BY DEF Inv, Environments, InCapacity
<1>3. ASSUME NEW p \in Party, NEW b \in DOMAIN net[p], net[p][b].kind \in NumericKinds
      PROVE  net[p][b].bytes \in [1 .. BlockBytes -> Byte]
  <2>1. DOMAIN net[p] = 1 .. Len(net[p])
    BY DEF Inv, IInv, Types
  <2> QED  BY <1>3, <2>1 DEF Inv, WellFormed
<1> QED  BY <1>1, <1>2, <1>3 DEF TypeOK, NumericKinds

\* What AEnv stores are ring elements and what it keeps of the OTs fits two bytes,
\* and every block with numbers on the wire is a block of bytes, for all parameters.
THEOREM TypeSafe == Spec => []TypeOK
<1> QED  BY InvTypeOK, ValuesInvariance, PTL

\* What is known of the two parties at once.
LEMMA BothHold ==
    ASSUME Inv
    PROVE  /\ pc["server"] \in 1 .. 22 /\ pc["client"] \in 1 .. 22 /\ plain \in Inputs
           /\ Holds("server", pc["server"], env["server"], plain)
           /\ Holds("client", pc["client"], env["client"], plain)
           /\ Agrees("server", pc["server"], env["server"], env["client"])
           /\ Agrees("client", pc["client"], env["client"], env["server"])
           /\ Precedes("server", pc["server"], pc["client"])
           /\ Precedes("client", pc["client"], pc["server"])
<1>1. "server" \in Party /\ "client" \in Party /\ Other("server") = "client"
      /\ Other("client") = "server"
  BY OtherIs
<1>2. IInv /\ pc["server"] \in 1 .. 22 /\ pc["client"] \in 1 .. 22
  BY <1>1 DEF Inv, IInv, Types
<1>3. Precedes("server", pc["server"], pc["client"])
  BY <1>1, <1>2, PrecedesNow
<1>4. Precedes("client", pc["client"], pc["server"])
  BY <1>1, <1>2, PrecedesNow
<1> QED  BY <1>1, <1>2, <1>3, <1>4 DEF Inv, Environments

\* The invariant gives the product of the triples.
LEMMA InvTriplets == Inv => TripletsMultiply
<1> SUFFICES ASSUME Inv, \A p \in Party : env[p].triplets # Unset,
                    NEW i \in Rows, NEW j \in Cols
             PROVE  Mod(env["server"].triplets[i][j] + env["client"].triplets[i][j]) =
                    Mod((env["server"].database[i][j].d + env["client"].database[i][j].d)
                        * (env["server"].fingerprint[j].d + env["client"].fingerprint[j].d))
  BY DEF TripletsMultiply
<1>1. PICK s, c, pl, ks, kc : /\ s = env["server"] /\ c = env["client"] /\ pl = plain
                              /\ ks = pc["server"] /\ kc = pc["client"]
  OBVIOUS
<1>2. /\ ks \in 1 .. 22 /\ kc \in 1 .. 22
      /\ Holds("server", ks, s, pl) /\ Holds("client", kc, c, pl)
      /\ Agrees("server", ks, s, c) /\ Agrees("client", kc, c, s)
  BY <1>1, BothHold
<1>3. s.triplets # Unset /\ c.triplets # Unset
  BY <1>1, OtherIs
<1>4. ks > 16 /\ kc > 16 /\ ks \in Nat /\ kc \in Nat
  <2>1. (IF ks > 16 THEN TRUE ELSE s.triplets = Unset)
        /\ (IF kc > 16 THEN TRUE ELSE c.triplets = Unset)
    BY <1>2 DEF Holds, HoldsKeys
  <2> QED  BY <1>2, <1>3, <2>1
<1>5. Mod(s.triplets[i][j] + c.triplets[i][j]) =
         Mod((Masks(s.database)[i][j] + Masks(c.database)[i][j])
             * (VectorMasks(s.fingerprint, Cols)[j] + VectorMasks(c.fingerprint, Cols)[j]))
  BY ONLY <1>2, <1>4, TripletsIn, i \in Rows, j \in Cols
<1>6. /\ Masks(s.database)[i][j] = s.database[i][j].d
      /\ Masks(c.database)[i][j] = c.database[i][j].d
      /\ VectorMasks(s.fingerprint, Cols)[j] = s.fingerprint[j].d
      /\ VectorMasks(c.fingerprint, Cols)[j] = c.fingerprint[j].d
  BY DEF Masks, VectorMasks
<1> QED  BY ONLY <1>1, <1>5, <1>6

\* generateMultiplicationTriplets: the triples of the two parties multiply,
\* whatever the seeds, the draws and the keys of the OT extension.
THEOREM TripletsAreProducts == Spec => []TripletsMultiply
<1> QED  BY InvTriplets, ValuesInvariance, PTL

\* A step that a party has taken.
LEMMA PastStep ==
    ASSUME Inv, Past("server", "recvFingerprint")
    PROVE  pc["server"] > 18
<1>1. pc["server"] \in 1 .. 22 /\ "server" \in Party
  BY BothHold, OtherIs
<1>2. PICK k \in 1 .. pc["server"] - 1 : Script["server"][k] = "recvFingerprint"
  BY DEF Past
<1>3. k \in 1 .. 21
  BY <1>1, <1>2
<1>4. Steps["server"][k] = "recvFingerprint"
  BY <1>1, <1>2, <1>3, ScriptOf
<1>5. k = 18
  BY <1>1, <1>3, <1>4, PositionIn
<1> QED  BY <1>1, <1>2, <1>5

\* The invariant gives the open shares.
LEMMA InvSharesOpen == Inv => SharesOpen
<1> SUFFICES ASSUME Inv PROVE SharesOpen
  OBVIOUS
<1>1. PICK s, c, pl, ks, kc : /\ s = env["server"] /\ c = env["client"] /\ pl = plain
                              /\ ks = pc["server"] /\ kc = pc["client"]
  OBVIOUS
<1>2. /\ ks \in 1 .. 22 /\ kc \in 1 .. 22 /\ pl \in Inputs
      /\ Holds("server", ks, s, pl) /\ Holds("client", kc, c, pl)
      /\ Agrees("server", ks, s, c) /\ Agrees("client", kc, c, s)
      /\ Precedes("server", ks, kc) /\ Precedes("client", kc, ks)
      /\ ks \in Nat /\ kc \in Nat
  BY <1>1, BothHold
<1>3. ASSUME c.dSquareSum # Unset, NEW i \in Rows
      PROVE  /\ \A j \in Cols : Opens(s.database[i][j], c.database[i][j], pl.database[i][j])
             /\ Opens(s.dSquareSum[i], c.dSquareSum[i], SquareSum(pl.database[i]))
  <2>1. kc > 17
    <3>1. IF kc > 17 THEN TRUE ELSE c.dSquareSum = Unset
      BY <1>2 DEF Holds, HoldsShares
    <3> QED  BY <1>3, <3>1
  <2>2. ks > 17
    BY <1>2, <2>1 DEF Precedes
  <2>3. /\ Capitals(s.database) = Capitals(c.database)
        /\ \A j \in Cols :
              Mod(Capitals(s.database)[i][j] - Masks(s.database)[i][j]
                  - Masks(c.database)[i][j]) = Mod(pl.database[i][j])
        /\ s.dSquareSum[i].D = c.dSquareSum[i].D
        /\ Mod(s.dSquareSum[i].D - s.dSquareSum[i].d - c.dSquareSum[i].d) =
              Mod(SquareSum(pl.database[i]))
    BY ONLY <1>2, <2>1, <2>2, DatabaseOpens, i \in Rows
  <2>4. ASSUME NEW j \in Cols
        PROVE  Opens(s.database[i][j], c.database[i][j], pl.database[i][j])
    <3>1. /\ Capitals(s.database)[i][j] = s.database[i][j].D
          /\ Capitals(c.database)[i][j] = c.database[i][j].D
          /\ Masks(s.database)[i][j] = s.database[i][j].d
          /\ Masks(c.database)[i][j] = c.database[i][j].d
      BY DEF Capitals, Masks
    <3>2. Mod(Capitals(s.database)[i][j] - Masks(s.database)[i][j] - Masks(c.database)[i][j])
             = Mod(pl.database[i][j])
      BY <2>3
    <3> QED  BY ONLY <2>3, <3>1, <3>2 DEF Opens, Reconstruct
  <2>5. Opens(s.dSquareSum[i], c.dSquareSum[i], SquareSum(pl.database[i]))
    BY ONLY <2>3 DEF Opens, Reconstruct
  <2> QED  BY <2>4, <2>5
<1>4. ASSUME Past("server", "recvFingerprint")
      PROVE  /\ \A j \in Cols : Opens(s.fingerprint[j], c.fingerprint[j], pl.fingerprint[j])
             /\ Opens(s.fingerprintSum, c.fingerprintSum, SquareSum(pl.fingerprint))
  <2>1. ks > 18
    BY <1>1, <1>4, PastStep
  <2>2. kc > 18
    BY <1>2, <2>1 DEF Precedes
  <2>3. /\ VectorCapitals(s.fingerprint, Cols) = VectorCapitals(c.fingerprint, Cols)
        /\ \A j \in Cols :
              Mod(VectorCapitals(s.fingerprint, Cols)[j] - VectorMasks(s.fingerprint, Cols)[j]
                  - VectorMasks(c.fingerprint, Cols)[j]) = Mod(pl.fingerprint[j])
        /\ s.fingerprintSum.D = c.fingerprintSum.D
        /\ Mod(s.fingerprintSum.D - s.fingerprintSum.d - c.fingerprintSum.d) =
              Mod(SquareSum(pl.fingerprint))
    BY ONLY <1>2, <2>1, <2>2, FingerprintOpens
  <2>4. ASSUME NEW j \in Cols
        PROVE  Opens(s.fingerprint[j], c.fingerprint[j], pl.fingerprint[j])
    <3>1. /\ VectorCapitals(s.fingerprint, Cols)[j] = s.fingerprint[j].D
          /\ VectorCapitals(c.fingerprint, Cols)[j] = c.fingerprint[j].D
          /\ VectorMasks(s.fingerprint, Cols)[j] = s.fingerprint[j].d
          /\ VectorMasks(c.fingerprint, Cols)[j] = c.fingerprint[j].d
      BY DEF VectorCapitals, VectorMasks
    <3>2. Mod(VectorCapitals(s.fingerprint, Cols)[j] - VectorMasks(s.fingerprint, Cols)[j]
              - VectorMasks(c.fingerprint, Cols)[j]) = Mod(pl.fingerprint[j])
      BY <2>3
    <3> QED  BY ONLY <2>3, <3>1, <3>2 DEF Opens, Reconstruct
  <2>5. Opens(s.fingerprintSum, c.fingerprintSum, SquareSum(pl.fingerprint))
    BY ONLY <2>3 DEF Opens, Reconstruct
  <2> QED  BY <2>4, <2>5
<1> QED  BY <1>1, <1>3, <1>4 DEF SharesOpen

\* DeltaShare: whatever was drawn, a share that has travelled opens to the value
\* its owner put in, and both parties hold the same capital deltas.
THEOREM SharesAlwaysOpen == Spec => []SharesOpen
<1> QED  BY InvSharesOpen, ValuesInvariance, PTL

\* The distances of the two parties.
LEMMA DistanceIs == ASSUME NEW i PROVE Distance(i) = DistanceIn(plain, i)
BY DEF Distance, DistanceIn

\* Both parties have given their inputs to the circuit.
LEMMA YaoInputs ==
    ASSUME NEW s, NEW c, NEW pl \in Inputs, NEW ks \in 1 .. 22, NEW kc \in 1 .. 22,
           Holds("server", ks, s, pl), Holds("client", kc, c, pl),
           Agrees("server", ks, s, c), Agrees("client", kc, c, s),
           s.yaoInput # Unset, c.yaoInput # Unset, NEW i \in Rows
    PROVE  Mod(s.yaoInput[i] - c.yaoInput[i]) = Mod(DistanceIn(pl, i))
<1>1. ks = 22 /\ kc = 22 /\ ks > 20 /\ kc > 20 /\ ks \in Nat /\ kc \in Nat
  <2>1. (IF ks > 21 THEN TRUE ELSE s.yaoInput = Unset)
        /\ (IF kc > 21 THEN TRUE ELSE c.yaoInput = Unset)
    BY DEF Holds, HoldsResults
  <2> QED  BY <2>1
<1>2. s.yaoInput = YaoOf("server", s.distances) /\ c.yaoInput = YaoOf("client", c.distances)
  BY <1>1 DEF Holds, HoldsResults
<1>3. /\ s.yaoInput[i] = YaoShare("server", s.distances[i])
      /\ c.yaoInput[i] = YaoShare("client", c.distances[i])
  BY <1>2 DEF YaoOf
<1>4. Mod(YaoShare("server", s.distances[i]) - YaoShare("client", c.distances[i])) =
         Mod(DistanceIn(pl, i))
  BY <1>1, RowDistance
<1> QED  BY ONLY <1>3, <1>4

\* Where a party's Yao input comes from.
LEMMA YaoTyped ==
    ASSUME NEW p \in Party, NEW e, NEW pl, NEW k, k = 22, Holds(p, k, e, pl)
    PROVE  e.yaoInput \in [Rows -> Element] /\ e.yaoInput # Unset
<1>1. e.yaoInput = YaoOf(p, e.distances) /\ e.distances \in [Rows -> ShareType]
  BY DEF Holds, HoldsResults
<1>2. ASSUME NEW i \in Rows PROVE YaoShare(p, e.distances[i]) \in Element
  <2>1. PICK D \in Int, d \in Int : e.distances[i].D = D /\ e.distances[i].d = d
    <3>1. e.distances[i].D \in Element /\ e.distances[i].d \in Element
      BY <1>1 DEF ShareType
    <3> QED  BY <3>1, ElementInt
  <2>2. Mod(D - d) \in Element /\ Mod(D) \in Element /\ Mod(d) \in Element
    BY ModType
  <2> QED  BY <2>1, <2>2 DEF YaoShare
<1>3. e.yaoInput \in [Rows -> Element]
  BY <1>1, <1>2 DEF YaoOf
<1>4. 0 \in DOMAIN e.yaoInput
  BY <1>3, RingType DEF Rows
<1> QED  BY <1>3, <1>4 DEF Unset

\* DistanceExact under the condition that one access point with two-valued
\* signals and its like violate: the largest distance is not the ring itself.
LEMMA InvDistance == ASSUME MaxDistance # Ring PROVE Inv => DistanceExact
<1> SUFFICES ASSUME Inv, \A p \in Party : Done(p), NEW i \in Rows
             PROVE  Mod(env["server"].yaoInput[i] - env["client"].yaoInput[i]) = Distance(i)
  BY DEF DistanceExact
<1>1. PICK s, c, pl, ks, kc : /\ s = env["server"] /\ c = env["client"] /\ pl = plain
                              /\ ks = pc["server"] /\ kc = pc["client"]
  OBVIOUS
<1>2. /\ ks \in 1 .. 22 /\ kc \in 1 .. 22 /\ pl \in Inputs
      /\ Holds("server", ks, s, pl) /\ Holds("client", kc, c, pl)
      /\ Agrees("server", ks, s, c) /\ Agrees("client", kc, c, s)
  BY <1>1, BothHold
<1>3. ks = 22 /\ kc = 22
  <2>1. ks > Len(Script["server"]) /\ kc > Len(Script["client"])
    BY <1>1, OtherIs DEF Done
  <2>2. Len(Script["server"]) = 21 /\ Len(Script["client"]) = 21
    BY OtherIs, ScriptOf
  <2> QED  BY ONLY <1>2, <2>1, <2>2
<1>4. s.yaoInput # Unset /\ c.yaoInput # Unset
  BY <1>2, <1>3, OtherIs, YaoTyped
<1>5. Mod(s.yaoInput[i] - c.yaoInput[i]) = Mod(DistanceIn(pl, i))
  BY <1>2, <1>4, YaoInputs
<1>6. Mod(DistanceIn(pl, i)) = DistanceIn(pl, i)
  BY <1>2, DistanceFits
<1> QED  BY <1>1, <1>5, <1>6, DistanceIs

\* The distances themselves, not only their residues, come out of the phase
\* unless the largest distance is exactly the ring: the one case in which lDash
\* bits are too few (main.cpp takes the ceiling of a logarithm).
THEOREM DistancesAreExact == ASSUME MaxDistance # Ring PROVE Spec => []DistanceExact
<1>1. Inv => DistanceExact
  BY InvDistance
<1> QED  BY <1>1, ValuesInvariance, PTL

-----------------------------------------------------------------------------
(* The refinement *)

\* A step belongs to one party.
LEMMA OneMoves ==
    ASSUME Inv, Next
    PROVE  /\ plain' = plain
           /\ \E p \in Party : /\ pc' = [pc EXCEPT ![p] = @ + 1]
                               /\ env'[Other(p)] = env[Other(p)]
<1>1. env \in [Party -> EnvType]
  BY DEF Inv, Environments
<1>2. ASSUME NEW p \in Party, NEW x, env' = [env EXCEPT ![p] = x]
      PROVE  env'[Other(p)] = env[Other(p)]
  BY <1>1, <1>2 DEF Party, Other
<1>3. ASSUME NEW p \in Party, UNCHANGED env
      PROVE  env'[Other(p)] = env[Other(p)]
  BY <1>3
<1>4. ASSUME NEW p \in Party, Step(p)
      PROVE  /\ plain' = plain /\ pc' = [pc EXCEPT ![p] = @ + 1]
             /\ env'[Other(p)] = env[Other(p)]
  <2>1. Advance(p) /\ plain' = plain
    BY <1>4 DEF Step, SendSeed, SendSquaresSeed, RecvSeed, RecvSquaresSeed, BaseOTSend,
                BaseOTRecv, DrawDeltas, SendU, RecvU, SendOffset, RecvOffset, SendCor, RecvCor,
                Triplets, Mult, FinalizeMultiplication, ToYao
  <2>2. env'[Other(p)] = env[Other(p)]
    <3>1. ASSUME NEW f, NEW v, Set(p, f, v) PROVE env'[Other(p)] = env[Other(p)]
      BY <1>1, <3>1 DEF Set, Party, Other
    <3>2. CASE \/ SendSquaresSeed(p) \/ BaseOTSend(p) \/ BaseOTRecv(p) \/ SendOffset(p)
               \/ RecvOffset(p)
      BY <3>2 DEF SendSquaresSeed, BaseOTSend, BaseOTRecv, SendOffset, RecvOffset
    <3>3. CASE RecvSeed(p) \/ RecvSquaresSeed(p) \/ Triplets(p) \/ ToYao(p)
      BY <3>1, <3>3 DEF RecvSeed, RecvSquaresSeed, Triplets, ToYao
    <3>4. CASE SendU(p)
      BY <3>1, <3>4 DEF SendU
    <3>5. CASE RecvU(p)
      BY <3>1, <3>5 DEF RecvU
    <3>6. CASE SendCor(p)
      BY <3>1, <3>6 DEF SendCor
    <3>7. CASE RecvCor(p)
      BY <3>1, <3>7 DEF RecvCor
    <3>8. CASE FinalizeMultiplication(p)
      BY <3>1, <3>8 DEF FinalizeMultiplication
    <3>9. CASE SendSeed(p)
      BY <1>1, <3>9 DEF SendSeed, Party, Other
    <3>10. CASE DrawDeltas(p)
      BY <1>1, <3>10 DEF DrawDeltas, Party, Other
    <3>11. CASE Mult(p)
      BY <1>1, <3>11 DEF Mult, Party, Other
    <3> QED  BY <1>4, <3>2, <3>3, <3>4, <3>5, <3>6, <3>7, <3>8, <3>9, <3>10, <3>11 DEF Step
  <2> QED  BY <2>1, <2>2 DEF Advance
<1>5. CASE SetDatabaseShares
  <2>1. plain' = plain /\ pc' = [pc EXCEPT !["server"] = @ + 1]
    BY <1>5 DEF SetDatabaseShares, Advance
  <2>2. env'[Other("server")] = env[Other("server")]
    BY <1>1, <1>5 DEF SetDatabaseShares, Party, Other
  <2> QED  BY <2>1, <2>2, OtherIs
<1>6. CASE RecvFingerprintShares
  <2>1. plain' = plain /\ pc' = [pc EXCEPT !["server"] = @ + 1]
    BY <1>6 DEF RecvFingerprintShares, Advance
  <2>2. env'[Other("server")] = env[Other("server")]
    BY <1>1, <1>6 DEF RecvFingerprintShares, Party, Other
  <2> QED  BY <2>1, <2>2, OtherIs
<1>7. CASE RecvDatabaseShares
  <2>1. plain' = plain /\ pc' = [pc EXCEPT !["client"] = @ + 1]
    BY <1>7 DEF RecvDatabaseShares, Advance
  <2>2. env'[Other("client")] = env[Other("client")]
    BY <1>1, <1>7 DEF RecvDatabaseShares, Party, Other
  <2> QED  BY <2>1, <2>2, OtherIs
<1>8. CASE SetFingerprintShares
  <2>1. plain' = plain /\ pc' = [pc EXCEPT !["client"] = @ + 1]
    BY <1>8 DEF SetFingerprintShares, Advance
  <2>2. env'[Other("client")] = env[Other("client")]
    BY <1>1, <1>8 DEF SetFingerprintShares, Party, Other
  <2> QED  BY <2>1, <2>2, OtherIs
<1> QED  BY <1>4, <1>5, <1>6, <1>7, <1>8, OtherIs DEF Next, Server, Client

\* What the circuit is given, at every position.
LEMMA YaoWhen ==
    ASSUME NEW p \in Party, NEW k \in 1 .. 22, NEW e, NEW pl, Holds(p, k, e, pl)
    PROVE  /\ k # 22 => e.yaoInput = Unset
           /\ k = 22 => e.yaoInput \in [Rows -> Element]
<1>1. k # 22 => e.yaoInput = Unset
  BY DEF Holds, HoldsResults
<1>2. k = 22 => e.yaoInput \in [Rows -> Element]
  BY YaoTyped
<1> QED  BY <1>1, <1>2

Given == [p \in Party |-> env[p].yaoInput]
Wanted == [i \in Rows |-> Mod(Distance(i))]

\* The distances are elements of the ring.
LEMMA WantedTyped == ASSUME Inv PROVE Wanted \in [Rows -> 0 .. Ring - 1]
<1>1. PICK pl \in Inputs : pl = plain
  BY DEF Inv, Environments
<1>2. ASSUME NEW i \in Rows PROVE Mod(Distance(i)) \in 0 .. Ring - 1
  <2>1. DistanceIn(pl, i) \in Int
    BY SquareSums
  <2> QED  BY <1>1, <2>1, DistanceIs, ModType DEF Element
<1> QED  BY <1>2 DEF Wanted

\* Two inputs of the circuit differ by the distances.
LEMMA GivenMatches ==
    ASSUME NEW s, NEW c, NEW pl \in Inputs, NEW ks \in 1 .. 22, NEW kc \in 1 .. 22,
           Holds("server", ks, s, pl), Holds("client", kc, c, pl),
           Agrees("server", ks, s, c), Agrees("client", kc, c, s),
           s.yaoInput # Unset, c.yaoInput # Unset, NEW i \in Rows
    PROVE  (s.yaoInput[i] - c.yaoInput[i]) % Ring = Mod(DistanceIn(pl, i))
<1>1. Mod(s.yaoInput[i] - c.yaoInput[i]) = Mod(DistanceIn(pl, i))
  BY YaoInputs
<1> QED  BY <1>1 DEF Mod

\* A step delivers to the party whose last step it is, or changes nothing that
\* the promise speaks of.
LEMMA StepDelivers ==
    ASSUME Inv, Inv', Next
    PROVE  UNCHANGED <<Wanted, Given>> \/ \E p \in Party : Promise!Deliver(p)
<1>1. PICK p \in Party : pc' = [pc EXCEPT ![p] = @ + 1] /\ env'[Other(p)] = env[Other(p)]
  BY OneMoves
<1>2. plain' = plain
  BY OneMoves
<1>3. Wanted' = Wanted
  BY <1>2 DEF Wanted, Distance
<1>4. PICK q \in Party : q = Other(p) /\ q # p
  BY DEF Party, Other
<1>5. pc \in [Party -> 1 .. 22] /\ pc' \in [Party -> 1 .. 22]
  BY DEF Inv, IInv, Types
<1>6. pc[p] # 22 /\ pc'[p] = pc[p] + 1
  BY <1>1, <1>5
<1>7. env[p].yaoInput = Unset
  <2>1. Holds(p, pc[p], env[p], plain) /\ pc[p] \in 1 .. 22
    BY <1>5 DEF Inv, Environments
  <2> QED  BY <1>6, <2>1, YaoWhen
<1>8. env'[q].yaoInput = env[q].yaoInput
  BY <1>1, <1>4
<1>9. PICK s, c, pl, ks, kc : /\ s = env'["server"] /\ c = env'["client"] /\ pl = plain'
                               /\ ks = pc'["server"] /\ kc = pc'["client"]
  OBVIOUS
<1>10. /\ ks \in 1 .. 22 /\ kc \in 1 .. 22 /\ pl \in Inputs
       /\ Holds("server", ks, s, pl) /\ Holds("client", kc, c, pl)
       /\ Agrees("server", ks, s, c) /\ Agrees("client", kc, c, s)
  BY <1>5, <1>9, OtherIs DEF Inv, Environments
<1>11. /\ pc'[p] # 22 => env'[p].yaoInput = Unset
       /\ pc'[p] = 22 => env'[p].yaoInput \in [Rows -> Element]
  <2>1. Holds(p, pc'[p], env'[p], plain') /\ pc'[p] \in 1 .. 22
    BY <1>5 DEF Inv, Environments
  <2> QED  BY <2>1, YaoWhen
<1>12. \A z \in Party : z = p \/ z = q
  BY <1>4 DEF Party
<1>13. CASE pc'[p] # 22
  <2>1. env'[p].yaoInput = Unset
    BY <1>13, <1>11
  <2>2. \A z \in Party : env'[z].yaoInput = env[z].yaoInput
    BY <1>7, <1>8, <1>12, <2>1
  <2>3. Given' = Given
    BY <2>2 DEF Given
  <2> QED  BY <1>3, <2>3
<1>14. CASE pc'[p] = 22
  <2>1. env'[p].yaoInput \in [Rows -> Element]
    BY <1>14, <1>11
  <2>2. Given' = [Given EXCEPT ![p] = Given'[p]]
    <3>1. \A z \in Party : z # p => env'[z].yaoInput = env[z].yaoInput
      BY <1>8, <1>12
    <3> QED  BY <3>1 DEF Given
  <2>3. /\ Given[p] = Unset /\ Given'[p] \in [Rows -> 0 .. Ring - 1]
    BY <1>7, <2>1 DEF Given, Element
  <2>4. ASSUME \A z \in Party : Given'[z] # Unset, NEW i \in Rows
        PROVE  (Given'["server"][i] - Given'["client"][i]) % Ring = Wanted'[i]
    <3>1. \A z \in Party : env'[z].yaoInput # Unset
      BY <2>4 DEF Given
    <3>2. (env'["server"].yaoInput[i] - env'["client"].yaoInput[i]) % Ring = Mod(Distance(i)')
      <4>1. s.yaoInput # Unset /\ c.yaoInput # Unset
        BY <1>9, <3>1, OtherIs
      <4>2. (s.yaoInput[i] - c.yaoInput[i]) % Ring = Mod(DistanceIn(pl, i))
        BY <1>10, <4>1, GivenMatches
      <4>3. Distance(i)' = DistanceIn(pl, i)
        BY <1>9 DEF Distance, DistanceIn
      <4> QED  BY <1>9, <4>2, <4>3
    <3> QED  BY <3>2, OtherIs DEF Given, Wanted
  <2>5. Promise!Deliver(p)
    BY <1>3, <2>2, <2>3, <2>4
       DEF Promise!Deliver, Promise!Vector, Promise!Matches, Given, Wanted
  <2> QED  BY <2>5
<1> QED  BY <1>13, <1>14

\* The arithmetic-sharing phase implements its promise, for every size of the
\* database and every width of the signal strengths: each party's Yao input
\* appears once, and the two differ by the distances in the ring.
THEOREM PhaseKeepsPromise == Spec => SharesTheDistance
<1>1. Init => Promise!Init
  <2> SUFFICES ASSUME Init PROVE Promise!Init
    OBVIOUS
  <2>1. Inv
    BY InitInv
  <2>2. Wanted \in [Rows -> 0 .. Ring - 1]
    BY <2>1, WantedTyped
  <2>3. Given = [p \in Party |-> Unset]
    BY DEF Init, Given, EmptyEnv, Unset
  <2> QED  BY <2>2, <2>3 DEF Promise!Init, Promise!Vector, Given, Wanted
<1>2. Inv /\ Inv' /\ [Next]_vars => [Promise!Next]_(Promise!vars)
  <2> SUFFICES ASSUME Inv, Inv', [Next]_vars PROVE [Promise!Next]_(Promise!vars)
    OBVIOUS
  <2>1. CASE Next
    <3>1. UNCHANGED <<Wanted, Given>> \/ \E p \in Party : Promise!Deliver(p)
      BY <2>1, StepDelivers
    <3> QED  BY <3>1 DEF Promise!Next, Promise!vars, Wanted, Given
  <2>2. CASE UNCHANGED vars
    BY <2>2 DEF vars, Promise!vars, Distance
  <2> QED  BY <2>1, <2>2
<1> QED  BY <1>1, <1>2, ValuesInvariance, PTL DEF Spec, SharesTheDistance, Promise!Spec
=============================================================================
