-------------------------------- MODULE PSI --------------------------------
(***************************************************************************)
(* Private set intersection (PhasedPSIServer::doPSI, PhasedPSIClient::     *)
(* doPSI).  Setup: the server encrypts its elements with several threads,  *)
(* puts them into a cuckoo filter and sends the filter in parts.  Base:    *)
(* oblivious transfers, and a garbled cipher for the AES and LowMC         *)
(* protocols ("GC").  Online: the phone obtains the encryption of each of  *)
(* its elements and looks it up in its copy of the filter.                 *)
(*                                                                         *)
(* In the ECNR protocol an encryption is a point of P-256; it is modelled  *)
(* by its exponent to the generator, modulo the order of the group.        *)
(***************************************************************************)
EXTENDS CuckooFilter, Sequences, Functions

CONSTANTS
    ElementBits,       \* bits of an element: 128 in the code
    Cipher,            \* AES or LowMC under the server's key
    Order, a0, a,      \* the group order and the key of ECNRPRF
    KeyBits,           \* bits of the exponents OT keys are expanded to
    Hashes,            \* what hasher_ may do with an encryption
    ServerSets, ClientSets,
    Choices(_),        \* what ot_choices_.randomize may give for so many OTs
    Keys(_),           \* the pairs of OT keys the extension may give
    num_threads,
    PartSize,          \* step: 1 << 16 in the code
    Capacity           \* messages the connection buffers towards the phone

Element == 0 .. 2^ElementBits - 1
Positions == 0 .. ElementBits - 1
Exponent == 0 .. 2^KeyBits - 1
Protocol == {"GC", "ECNR"}
Code == 0 .. Order - 1
Bit(x, j) == (x \div 2^j) % 2

ASSUME PSIAssumption ==
    /\ ElementBits \in Nat \ {0} /\ num_threads \in Nat \ {0} /\ PartSize \in Nat \ {0}
    /\ Order \in 2^ElementBits .. 2^KeyBits /\ KeyBits \in Nat
    /\ Capacity \in Nat /\ Capacity >= 5
    /\ Cipher \in [Element -> Code] /\ a0 \in Code \ {0} /\ a \in [Positions -> Code \ {0}]
    /\ Hashes \subseteq [Code -> Item]
    /\ ServerSets \cup ClientSets \subseteq Seq(Element) \ {<<>>}

\* The filter of the instance is the one the constructor makes for the sets.
ASSUME FilterSizeAssumption == \A s \in ServerSets : BucketsFor(Len(s)) = num_buckets

-----------------------------------------------------------------------------
(* The ECNR pseudo-random function *)

Times(x, y) == (x * y) % Order
Product(f) ==
    LET upTo[n \in 0 .. ElementBits] == IF n = 0 THEN 1 ELSE Times(upTo[n-1], f[n-1])
    IN  upTo[ElementBits]
Reciprocal(x) == CHOOSE y \in Code : Times(x, y) = 1

\* The order of P-256 is a prime.
ASSUME OrderAssumption == \A x \in Code \ {0} : \E y \in Code : Times(x, y) = 1

\* A key that the order divides would have no reciprocal; nothing checks for it.
ASSUME OTAssumption ==
    \A s \in ClientSets :
        LET n == Len(s) * ElementBits
        IN  /\ Choices(n) \subseteq [0 .. n-1 -> {0, 1}]
            /\ Keys(n) \subseteq [0 .. n-1 -> [{0, 1} -> {k \in Exponent : k % Order # 0}]]

EcnrPrf ==
    [x \in Element |->
        Times(a0, Product([j \in Positions |-> IF Bit(x, j) = 1 THEN a[j] ELSE 1]))]

\* buf1[j] ^= buf2[j], byte by byte.
Xor(x, y) == SumFunction([b \in 0 .. KeyBits-1 |-> ((Bit(x, b) + Bit(y, b)) % 2) * 2^b])

\* ECNRPRF::oprf: pairs are the keys of this element's OTs, input the bits the
\* phone sent.  The key of bit 0 blinds the result, the other one hides a[j].
Blind(pair, bit) == pair[bit] % Order
Hidden(pair, bit, j) == Xor(pair[1 - bit] % Order, Times(Blind(pair, bit), a[j]))
Unblind(r) == Times(Reciprocal(r), a0)
Oprf(pairs, input) ==
    [hidden |-> [j \in Positions |-> Hidden(pairs[j], input[j], j)],
     point |-> Unblind(Product([j \in Positions |-> Blind(pairs[j], input[j])]))]

\* The phone's side, with its keys and the bits of its element.
Evaluated(reply, keys, x) ==
    LET rj(j) == keys[j] % Order
        factor(j) == IF Bit(x, j) = 1 THEN Xor(rj(j), reply.hidden[j]) ELSE rj(j)
    IN  Times(reply.point, Product([j \in Positions |-> factor(j) % Order]))

-----------------------------------------------------------------------------
VARIABLES
    protocol,
    checked,      \* whether assertions are compiled in: no -DNDEBUG
    serverSet, clientSet,     \* the parties' inputs
    blocks,       \* elements / prfOut of the server, encrypted one by one
    next,         \* the index each of its threads encrypts next
    added,        \* elements given to the filter
    hasher,       \* the parameters of the filter's hash function
    sStage, sPos, sStep,      \* where the server is
    num_client_elements,      \* as the server read it
    ots,          \* the server's pairs of OT keys, for every element and bit
    choices,      \* the phone's corrected choices
    copy,         \* the phone's filter: table, num_items, hasher
    expected,     \* num_server_elements, size_in_tags, step as it read them
    cStage, cPos, cStep,
    ot_choices, keys,         \* its random choices, and the keys it got
    prfOut, result,           \* encryptions of its elements; matching indices
    toClient, toServer

otState == <<num_client_elements, ots, choices>>
server == <<blocks, next, added, hasher, sStage, sPos, sStep, otState>>
client == <<copy, expected, cStage, cPos, cStep, ot_choices, keys, prfOut, result>>
inputs == <<protocol, checked, serverSet, clientSet>>
vars == <<filterVars, inputs, server, client, toClient, toServer>>

NumServer == Len(serverSet)
NumClient == Len(clientSet)
Encrypted(x) == IF protocol = "GC" THEN Cipher[x] ELSE EcnrPrf[x]

\* Only the AES and LowMC servers start threads; the others get a slice of
\* elements_per_thread each and the last one, the main thread, the rest.
Threads == IF protocol = "GC" THEN 0 .. num_threads - 1 ELSE {0}
Last == Cardinality(Threads) - 1
PerThread == NumServer \div (Last + 1)
SliceEnd_Equal(t) == (t + 1) * PerThread
SliceEnd(t) == IF t = Last THEN NumServer ELSE (t + 1) * PerThread

Init ==
    /\ FilterInit
    /\ protocol \in Protocol /\ checked \in BOOLEAN
    /\ serverSet \in ServerSets /\ clientSet \in ClientSets
    /\ hasher \in Hashes
    /\ blocks = serverSet
    /\ next = [t \in Threads |-> t * PerThread]
    /\ added = 0 /\ num_client_elements = 0 /\ ots = <<>> /\ choices = <<>>
    /\ sStage = "encrypt" /\ sPos = 0 /\ sStep = 1
    /\ copy = [table |-> table, num_items |-> 0, hasher |-> CHOOSE h \in Hashes : TRUE]
    /\ expected = [num_server_elements |-> 0, size_in_tags |-> 0, step |-> 0]
    /\ cStage = "header" /\ cPos = 0 /\ cStep = 1
    /\ ot_choices = <<>> /\ keys = <<>> /\ prfOut = <<>> /\ result = {}
    /\ toClient = <<>> /\ toServer = <<>>

Message(kind, body) == [kind |-> kind, body |-> body]
Signal(kind) == Message(kind, 0)
SendToClient(messages) ==
    /\ Len(toClient) + Len(messages) <= Capacity
    /\ toClient' = toClient \o messages
SendToServer(message) == toServer' = Append(toServer, message)
FromClient == toServer # <<>> /\ toServer' = Tail(toServer)
FromServer == toClient # <<>> /\ toClient' = Tail(toClient)
Received(channel) == Head(channel).body

-----------------------------------------------------------------------------
(* Server: Setup *)

\* One thread encrypts the next element of its slice, in place.
Encrypt(t) ==
    /\ sStage = "encrypt" /\ t \in Threads /\ next[t] < SliceEnd(t)
    /\ blocks' = [blocks EXCEPT ![next[t] + 1] = Encrypted(@)]
    /\ next' = [next EXCEPT ![t] = @ + 1]
    /\ UNCHANGED <<filterVars, inputs, added, hasher, sStage, sPos, sStep, otState,
                   client, toClient, toServer>>

\* The main thread has done its slice and joins the other ones.
Joined == \A t \in Threads : next[t] = SliceEnd(t)

Join ==
    /\ sStage = "encrypt" /\ Joined
    /\ sStage' = "add"
    /\ UNCHANGED <<filterVars, inputs, blocks, next, added, hasher, sPos, sStep, otState,
                   client, toClient, toServer>>

AddNext ==
    /\ sStage = "add" /\ ~adding.busy /\ added < NumServer
    /\ Add(hasher[blocks[added + 1]])
    /\ added' = added + 1
    /\ UNCHANGED <<inputs, blocks, next, hasher, sStage, sPos, sStep, otState,
                   client, toClient, toServer>>

\* The steps of AddImpl, one of which ends the call.
AddStep ==
    /\ sStage = "add" /\ AddImpl
    /\ UNCHANGED <<inputs, server, client, toClient, toServer>>

\* Add returned NotEnoughSpace: the assertion fails, if there is one.
AddRefused ==
    /\ sStage = "add" /\ ~adding.busy /\ added < NumServer /\ victim.used
    /\ added' = added + 1
    /\ sStage' = IF checked THEN "aborted" ELSE sStage
    /\ UNCHANGED <<filterVars, inputs, blocks, next, hasher, sPos, sStep, otState,
                   client, toClient, toServer>>

SizeInTags == num_buckets * kTagsPerBucket

SendHeader ==
    /\ sStage = "add" /\ ~adding.busy /\ added = NumServer
    /\ SendToClient(<<Message("num_server_elements", NumServer),
                      Message("size_in_tags", SizeInTags), Message("step", PartSize)>>)
    /\ sStage' = "parts"
    /\ UNCHANGED <<filterVars, inputs, blocks, next, added, hasher, sPos, sStep, otState,
                   client, toServer>>

\* CuckooFilter::serialize(part_size, start): the tags from start on, as a
\* bitmap of the used positions and the tags there.
PositionAt(i) == <<i \div kTagsPerBucket, i % kTagsPerBucket>>
PartLength(start) == IF PartSize < SizeInTags - start THEN PartSize ELSE SizeInTags - start
Serialize(start) ==
    [num_items |-> num_items,
     tags |-> [i \in 0 .. PartLength(start) - 1 |-> table[PositionAt(start + i)]]]

SendPart ==
    /\ sStage = "parts" /\ sPos < SizeInTags
    /\ SendToClient(<<Message("cf", Serialize(sPos))>>)
    /\ sPos' = sPos + PartSize
    /\ UNCHANGED <<filterVars, inputs, blocks, next, added, hasher, sStage, sStep, otState,
                   client, toServer>>

\* TwoIndependentMultiplyShift128 has three parameters, ...256 has five.
HashParams == [GC |-> 3, ECNR |-> 5]

SendParams ==
    /\ sStage = "parts" /\ sPos >= SizeInTags
    /\ SendToClient([k \in 1 .. HashParams[protocol] |-> Message("param", hasher)])
    /\ sStage' = "base"
    /\ UNCHANGED <<filterVars, inputs, blocks, next, added, hasher, sPos, sStep, otState,
                   client, toServer>>

-----------------------------------------------------------------------------
(* Server: Base and Online *)

Recv(kind) == [op |-> "recv", kind |-> kind]
Send(kind) == [op |-> "send", kind |-> kind]

\* VerifiedSimplestOT::receive and the receiving end of the OT extension:
\* KosOtExtSender for ECNR, KosDotExtSender and the garbled ciphers for GC.
ServerBaseOTs ==
    <<Recv("num_client_elements"), Recv("basePoint"), Send("basePoints"),
      Recv("challenge"), Send("answer"), Recv("opening"),
      Recv("commit"), Recv("u"), Send("seed"), Recv("theirSeed")>>
ServerBase ==
    [ECNR |-> ServerBaseOTs \o <<Recv("check")>>,
     GC |-> ServerBaseOTs \o <<Send("offset"), Recv("check"), Send("gcs")>>]

InServerBase == sStage = "base" /\ sStep <= Len(ServerBase[protocol])
ServerOp == ServerBase[protocol][sStep]

ServerBaseSend ==
    /\ InServerBase /\ ServerOp.op = "send"
    /\ SendToClient(<<Signal(ServerOp.kind)>>)
    /\ sStep' = sStep + 1
    /\ UNCHANGED <<filterVars, inputs, blocks, next, added, hasher, sStage, sPos, otState,
                   client, toServer>>

ServerBaseRecv ==
    /\ InServerBase /\ ServerOp.op = "recv"
    /\ FromClient
    /\ num_client_elements' = IF ServerOp.kind = "num_client_elements"
                              THEN Received(toServer) ELSE num_client_elements
    /\ ots' = IF ServerOp.kind = "u" THEN Received(toServer) ELSE ots
    /\ sStep' = sStep + 1
    /\ UNCHANGED <<filterVars, inputs, blocks, next, added, hasher, sStage, sPos, choices,
                   client, toClient>>

\* ECNRPSIServer::Online, garbleOnline: the phone's corrected choices come first.
RecvChoices ==
    /\ sStage = "base" /\ ~InServerBase
    /\ FromClient
    /\ choices' = Received(toServer)
    /\ sStage' = "reply" /\ sPos' = 0
    /\ UNCHANGED <<filterVars, inputs, blocks, next, added, hasher, sStep,
                   num_client_elements, ots, client, toClient>>

Index(i, j) == i * ElementBits + j
OfElement(f, i) == [j \in Positions |-> f[Index(i, j)]]

\* inputOfBobOnline answers all elements at once, oprf one at a time.
Replies == IF protocol = "GC" THEN 1 ELSE num_client_elements
Reply ==
    /\ sStage = "reply" /\ sPos < Replies
    /\ SendToClient(<<IF protocol = "GC" THEN Signal("labels")
                      ELSE Message("oprf", Oprf(OfElement(ots, sPos),
                                                OfElement(choices, sPos)))>>)
    /\ sPos' = sPos + 1
    /\ UNCHANGED <<filterVars, inputs, blocks, next, added, hasher, sStage, sStep, otState,
                   client, toServer>>

Main == \/ Join \/ AddNext \/ AddStep \/ AddRefused
        \/ SendHeader \/ SendPart \/ SendParams
        \/ ServerBaseSend \/ ServerBaseRecv \/ RecvChoices \/ Reply

-----------------------------------------------------------------------------
(* Phone *)

RecvHeader ==
    /\ cStage = "header" /\ Len(toClient) >= 3
    /\ expected' = [num_server_elements |-> toClient[1].body,
                    size_in_tags |-> toClient[2].body, step |-> toClient[3].body]
    /\ toClient' = SubSeq(toClient, 4, Len(toClient))
    /\ cStage' = "parts"
    /\ UNCHANGED <<filterVars, inputs, server, copy, cPos, cStep, ot_choices, keys,
                   prfOut, result, toServer>>

\* CuckooFilter::deserialize(data, start) writes the positions used in the part.
PartOffset_Zero(p) == p[1] * kTagsPerBucket + p[2]
PartOffset(p) == p[1] * kTagsPerBucket + p[2] - cPos
Deserialize(part) ==
    [copy EXCEPT
        !.num_items = part.num_items,
        !.table = [p \in Position |->
                      LET i == PartOffset(p)
                      IN  IF i \in DOMAIN part.tags /\ part.tags[i] # Empty
                          THEN part.tags[i] ELSE @[p]]]

RecvPart ==
    /\ cStage = "parts" /\ cPos < expected.size_in_tags
    /\ FromServer
    /\ copy' = Deserialize(Received(toClient))
    /\ cPos' = cPos + expected.step
    /\ UNCHANGED <<filterVars, inputs, server, expected, cStage, cStep, ot_choices, keys,
                   prfOut, result, toServer>>

\* std::vector<unsigned __int128> params(3), or (5) in ECNRPSIClient; the
\* hasher is replaced once all of them have been read.
ClientParams_Three == [GC |-> 3, ECNR |-> 3]
ClientParams == [GC |-> 3, ECNR |-> 5]

RecvParam ==
    /\ cStage = "parts" /\ cPos >= expected.size_in_tags
    /\ FromServer
    /\ IF cStep < ClientParams[protocol]
       THEN cStep' = cStep + 1 /\ UNCHANGED <<copy, cStage>>
       ELSE /\ copy' = [copy EXCEPT !.hasher = Received(toClient)]
            /\ cStage' = "base" /\ cStep' = 1
    /\ UNCHANGED <<filterVars, inputs, server, expected, cPos, ot_choices, keys,
                   prfOut, result, toServer>>

\* VerifiedSimplestOT::send, KosOtExtReceiver or KosDotExtReceiver::receive.
ClientBaseOTs_OpensFirst ==
    <<Send("num_client_elements"), Send("basePoint"), Recv("basePoints"),
      Recv("answer"), Send("challenge"), Send("opening"),
      Send("commit"), Send("u"), Recv("seed"), Send("theirSeed")>>
ClientBaseOTs ==
    <<Send("num_client_elements"), Send("basePoint"), Recv("basePoints"),
      Send("challenge"), Recv("answer"), Send("opening"),
      Send("commit"), Send("u"), Recv("seed"), Send("theirSeed")>>
ClientBase ==
    [ECNR |-> ClientBaseOTs \o <<Send("check")>>,
     GC |-> ClientBaseOTs \o <<Recv("offset"), Send("check"), Recv("gcs")>>]

InClientBase == cStage = "base" /\ cStep <= Len(ClientBase[protocol])
ClientOp == ClientBase[protocol][cStep]
NumOTs == NumClient * ElementBits

ClientBaseSend ==
    /\ InClientBase /\ ClientOp.op = "send" /\ ClientOp.kind # "u"
    /\ SendToServer(Message(ClientOp.kind, IF ClientOp.kind = "num_client_elements"
                                           THEN NumClient ELSE 0))
    /\ cStep' = cStep + 1
    /\ UNCHANGED <<filterVars, inputs, server, copy, expected, cStage, cPos, ot_choices, keys,
                   prfOut, result, toClient>>

\* With the columns the server gets its pair of keys of every OT, and the phone
\* the one of its random choice.  (The OTs of GC stay with the garbled circuit.)
SendU ==
    /\ InClientBase /\ ClientOp = Send("u")
    /\ IF protocol = "GC"
       THEN SendToServer(Signal("u")) /\ UNCHANGED <<ot_choices, keys>>
       ELSE \E random \in Choices(NumOTs), pairs \in Keys(NumOTs) :
               /\ ot_choices' = random
               /\ keys' = [k \in DOMAIN pairs |-> pairs[k][random[k]]]
               /\ SendToServer(Message("u", pairs))
    /\ cStep' = cStep + 1
    /\ UNCHANGED <<filterVars, inputs, server, copy, expected, cStage, cPos,
                   prfOut, result, toClient>>

ClientBaseRecv ==
    /\ InClientBase /\ ClientOp.op = "recv"
    /\ FromServer
    /\ cStep' = cStep + 1
    /\ UNCHANGED <<filterVars, inputs, server, copy, expected, cStage, cPos, ot_choices, keys,
                   prfOut, result, toServer>>

\* Online: choices[i] ^= elements[i] turns the random OTs into chosen ones.
Corrected_Uncorrected == ot_choices
Corrected ==
    [k \in DOMAIN ot_choices |->
        (ot_choices[k] + Bit(clientSet[k \div ElementBits + 1], k % ElementBits)) % 2]

SendChoices ==
    /\ cStage = "base" /\ ~InClientBase
    /\ SendToServer(Message("choices", IF protocol = "GC" THEN 0 ELSE Corrected))
    /\ cStage' = "online"
    /\ UNCHANGED <<filterVars, inputs, server, copy, expected, cPos, cStep, ot_choices, keys,
                   prfOut, result, toClient>>

\* evaluateOnline gives the ciphers of all elements; ECNR evaluates one reply.
RecvReply ==
    /\ cStage = "online" /\ Len(prfOut) < NumClient
    /\ FromServer
    /\ prfOut' =
          IF protocol = "GC" THEN [i \in 1 .. NumClient |-> Cipher[clientSet[i]]]
          ELSE LET i == Len(prfOut)
               IN  Append(prfOut, Evaluated(Received(toClient), OfElement(keys, i),
                                            clientSet[i + 1]))
    /\ UNCHANGED <<filterVars, inputs, server, copy, expected, cStage, cPos, cStep,
                   ot_choices, keys, result, toServer>>

Intersect ==
    /\ cStage = "online" /\ Len(prfOut) = NumClient
    /\ result' = {i \in 1 .. NumClient : Contain(copy.table, Unused, copy.hasher[prfOut[i]])}
    /\ cStage' = "done"
    /\ UNCHANGED <<filterVars, inputs, server, copy, expected, cPos, cStep, ot_choices, keys,
                   prfOut, toClient, toServer>>

Phone == \/ RecvHeader \/ RecvPart \/ RecvParam
         \/ ClientBaseSend \/ SendU \/ ClientBaseRecv
         \/ SendChoices \/ RecvReply \/ Intersect

-----------------------------------------------------------------------------
Next == Main \/ Phone \/ \E t \in Threads : Encrypt(t)

Spec == Init /\ [][Next]_vars

\* The phone and every thread of the server run; they wait only for each other.
FairSpec ==
    /\ Spec
    /\ WF_vars(Main) /\ WF_vars(Phone)
    /\ \A t \in 0 .. num_threads - 1 : WF_vars(Encrypt(t))

-----------------------------------------------------------------------------
(* Properties *)

\* Encryptions, filters, keys and replies have the right kinds.
TypeOK ==
    /\ FilterTypeOK
    /\ blocks \in Seq(Code) /\ Len(blocks) = NumServer /\ added \in 0 .. NumServer
    /\ \A t \in Threads : next[t] \in 0 .. NumServer
    /\ sStage \in {"encrypt", "add", "aborted", "parts", "base", "reply"}
    /\ cStage \in {"header", "parts", "base", "online", "done"}
    /\ copy.table \in [Position -> Tag \cup {Empty}]
    /\ copy.num_items \in Nat /\ {copy.hasher, hasher} \subseteq Hashes
    /\ \A k \in DOMAIN ot_choices : ot_choices[k] \in {0, 1} /\ keys[k] \in Exponent
    /\ prfOut \in Seq(Code) /\ result \subseteq 1 .. NumClient

ClientDone == cStage = "done"
ServerDone == sStage = "reply" /\ sPos = Replies

\* What the phone and the server take the next bytes for.
ClientExpects ==
    CASE cStage = "header" -> {"num_server_elements"}
      [] cStage = "parts" /\ cPos < expected.size_in_tags -> {"cf"}
      [] cStage = "parts" /\ cPos >= expected.size_in_tags -> {"param"}
      [] InClientBase -> IF ClientOp.op = "recv" THEN {ClientOp.kind} ELSE {}
      [] cStage = "online" -> {IF protocol = "GC" THEN "labels" ELSE "oprf"}
      [] OTHER -> {}
ServerExpects ==
    CASE InServerBase -> IF ServerOp.op = "recv" THEN {ServerOp.kind} ELSE {}
      [] sStage = "base" /\ ~InServerBase -> {"choices"}
      [] OTHER -> {}

\* Through all three phases each side reads bytes for what the other one wrote
\* them, also where the numbers of bytes are written twice in the code (parts,
\* hash parameters, replies), and nothing is left over.
Lockstep ==
    /\ toClient # <<>> => \A kind \in ClientExpects : Head(toClient).kind = kind
    /\ toServer # <<>> => \A kind \in ServerExpects : Head(toServer).kind = kind
    /\ ClientDone /\ ServerDone => toClient = <<>> /\ toServer = <<>>

\* Whatever the threads' interleaving and however the elements divide among
\* them, each element is encrypted exactly once before the filter sees it.
EncryptedOnce ==
    sStage # "encrypt" => \A i \in 1 .. NumServer : blocks[i] = Encrypted(serverSet[i])

\* When all parts and parameters are in, the phone's table is the server's.
CopyIsFaithful ==
    cStage \notin {"header", "parts"} =>
        copy = [table |-> table, num_items |-> num_items, hasher |-> hasher]

\* The phone obtains for each of its elements what the server computed for the
\* same element: keys, corrections, blinding and unblinding fit together.
SameFunction == \A i \in 1 .. Len(prfOut) : prfOut[i] = Encrypted(clientSet[i])

Common(x) == \E i \in 1 .. NumServer : serverSet[i] = x
Collides(x) ==
    \E i \in 1 .. NumServer : ClassOf(hasher[Encrypted(serverSet[i])]) = ClassOf(hasher[Encrypted(x)])

\* The answer has no element that differs in tag or buckets from all of the
\* server's, and if every one of those is in the table it misses no common one.
IntersectionExact ==
    ClientDone => \A i \in 1 .. NumClient :
        /\ i \in result => Collides(clientSet[i])
        /\ num_items = NumServer /\ Collides(clientSet[i]) => i \in result

\* What Contain's comment promises, "with false positive rate" only: an element
\* both parties have is always in the answer.  The code breaks it: the victim is
\* part of the filter but of no part that is sent.
CommonElementsFound ==
    ClientDone => \A i \in 1 .. NumClient : Common(clientSet[i]) => i \in result

\* The protocol ends, unless the server stops itself at a refused element.
Termination == <>(ClientDone \/ sStage = "aborted")
=============================================================================
