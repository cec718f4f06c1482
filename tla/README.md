# Verification of the privacy-preserving indoor localization

This directory holds TLA+ models of the localization in `src/`, the TLC
configurations that check them on small instances, and TLAPS proofs.  The phone
has measured signal strengths (the fingerprint), the server has a database of
fingerprints of known places; the phone learns which `k` places have the nearest
fingerprints, the server learns nothing.

The same library also holds the private set intersection (PSI) protocols it was
taken from; they share the OT extensions, the half gates and the channels with
the localization and are modelled as well.

Run `tlc -config X.cfg M` for a run of the table below and `tlapm XProofs.tla` for
the proofs about module `X` (`Knn`, `PPILCircuit`, `HalfGates`, `SIMDGates`,
`ArithmeticShares`, `PSI`, `Session`) and `tlapm Arithmetic.tla` for the facts about
numbers they share.  The theorems about `CuckooFilter` are in `PSIProofs`, those about
the gates of `WireLabels` in `HalfGatesProofs`.

## 1. The system

One C++ library (`src/PPILLib/droidCrypto`) is linked into a server program and,
through JNI, into an Android app.  A localization is a two-party protocol over
one TCP connection without message tags or lengths: both programs walk the same
script, and a blocking `recv` takes whatever bytes come next for what it expects.

    parameter connection:  server --M, N, l, k, p--> phone, once per server start
    localization, p = 0 (one-bit signal strengths):
        garbled circuit: Hamming distances, k nearest neighbours
    localization, p = 1 (l-bit signal strengths):
        arithmetic sharing: one additive share of every Euclidean distance each
        garbled circuit: add the shares' difference, k nearest neighbours

| Component | State | Operations | Interacts with | Hard behaviour | What makes it correct |
|---|---|---|---|---|---|
| Server (`Server/main.cpp`) | database, M, N, l, k, protocol | send parameters once; accept, localize, log, again | phone, one connection at a time | a session that fails ends or blocks the server; one parameter connection | the same script as the phone, session after session |
| Phone (`android/mainAndroid.cpp`) | fingerprint, parameters | `getParameters`, `mainMPPIL` (p = 0), `mainEPPIL` (p = 1) | app (JNI), server | parameters older than the server | the mirrored script |
| App (`src/app`) | parameters, area, buttons | `SetupTask`, `PPILTask` | phone code | result of a failed setup | a localization only with valid parameters |
| `ChannelWrapper` | two file descriptors, byte counts | connect, accept, send, recv, close | everything above | end of file, connect retries, copies that close twice | every byte once and in order |
| `CommunicationHandler` | channel copy, benchmark values | values to and from 16-byte blocks; log | AEnv, main programs | both sides compute the number of blocks on their own | reader and writer agree on sizes |
| `AEnv` (`as/`) | seeds, small and capital deltas, OT results, triples | exchange seeds; triples from two correlated OTs; share; multiply; open; convert to Yao | CommunicationHandler, OT extension | two parties in mirrored order, both writing first; masks derived twice from one seed; OT keys reused for every row | the shares open to the inputs, the outputs differ by the distances |
| `DeltaShare` | D, d, modulus | set, add, subtract, reconstruct | AEnv | two modular representations | the value is D minus both d |
| Correlated OT (`OTExtInterface`) | keys of one batch | `sendCorrelated`, `receiveCorrelated` | AEnv, IKNP | index that wraps, 16-bit values | receiver's value minus sender's value is choice times share |
| IKNP and KOS delta OT, base OTs | base keys, offset, code | base OT, extension, offset, check | OTExtInterface, Garbler, Evaluator | order of eleven messages in both directions | message = row plus choice times offset |
| Garbler, Evaluator (`gc/HalfGate.cpp`) | R, gate counter; gate counter | inputs, XOR, NOT, AND, output | Circuit, KOS OT | counters kept apart on two machines, garbler ahead of the evaluator | active label = 0-label plus value times R |
| `Circuit` | - | `garble`, `evaluate` | Garbler, Evaluator, PPILCircuit | order of inputs, OT, tables, outputs | the evaluator decodes the circuit's outputs |
| `PPILCircuit` | `DISTANCE_BIT_SIZE` | adders, comparison, swap, Hamming weight, `knnAlgo` | Circuit | widths of wire vectors, placeholder distances, ties | ids of the k nearest rows |
| SIMD half gates and phases (`SIMDGarbler`, `SIMDEvaluator`, `SIMDCircuit`) | a label of several lanes, a buffered circuit, random choices | `garble`, `garbleSIMD`, `garbleBase` and `garbleOnline`, the mirrored `evaluate`s | AES and LowMC protocols, tests | lanes against wires in one row of OTs; a circuit garbled before the OTs know the inputs | active label = 0-label plus value times R, in every lane |
| Cuckoo filter (`psi/cuckoofilter`) | table, number of items, victim | `Add`, `Contain`, `Delete`, `serialize`, `deserialize` | PSI | chains of kicked-out tags, one victim outside the table | a bag of fingerprints: nothing lost, doubled or changed |
| PSI protocols (`psi/`) | elements, filter and its copy, OT keys | `Setup`, `Base`, `Online` of the AES, LowMC and ECNR protocols | cuckoo filter, SIMD gates, OT extensions | threads that encrypt in place, a filter sent in parts, OTs whose choices are corrected later | the phone learns which of its elements the server has |

`PROJECT.json` lists every component with its files and status, and the hazards
of this code, each at its line.

## 2. Modules

    NearestNeighbours  <--implements--  Knn  <--implements--  PPILCircuit --> PPILGates
    SharedDistance     <--implements--  ArithmeticShares --> CommBlocks
                                        HalfGates, SIMDGates --> WireLabels
                                        Session
    FingerprintBag     <--implements--  CuckooFilter <-- PSI
    MC<module> gives the constants of a module their small values,
    <module>Proofs holds the theorems about it.  --> is EXTENDS.
    Arithmetic: division, powers of two, bits, sums over a set, induction and
    recursion; ArithmeticSharesProofs, PSIProofs, PPILCircuitProofs and
    SIMDGatesProofs use it.

The three layers of a localization meet at values: `ArithmeticShares` delivers
numbers below 2^L to each party, `PPILCircuit` takes any two such numbers,
`HalfGates` shows for a circuit of all its kinds of gates that garbling computes
what the circuit computes in the clear, and `Knn` is `knnAlgo` on numbers.
`Session` is about what is around a localization: connections and failures.

### ArithmeticShares (and SharedDistance, its promise)

Both parties of the p = 1 protocol, from `AEnv::AEnv` to `AEnv::toYao`
(`as/ArithmeticShareEnviroment.cpp`, `as/DeltaShare.cpp`,
`as/EuclideanDistancesComputations.cpp`, `ot/TwoChooseOne/OTExtInterface.*`,
IKNP, base OTs, the order of calls in `main.cpp` and `mainAndroid.cpp`).

* `pc[p]` is the position of a party in `Script[p]`, `env[p]` are the fields of
  its `AEnv`, `net[p]` the messages on their way to it, `plain` the database
  and the fingerprint.  A C++ vector is a function from `0..n-1`.
* One action per send, receive or local step: `SendSeed` ... `RecvSquaresSeed`
  (constructor), `BaseOTSend`/`BaseOTRecv`, `DrawDeltas`, `SendU` ... `RecvCor`
  (one correlated OT batch), `Triplets`, `SetDatabaseShares`/
  `RecvDatabaseShares`, `SetFingerprintShares`/`RecvFingerprintShares`, `Mult`,
  `FinalizeMultiplication`, `ToYao`.
* A reader takes the head of `net[p]` whatever its kind is; the property
  `Lockstep` shows it is always the right one.

Abstractions.  The random OT is ideal: the message of the extension carries the
receiver's choices and keys, and the sender's other key is arbitrary.  Base OTs
and offset are messages without content.  `rand()` after `srand(seed)` is one
operator `Rand` for both parties: that glibc and the phone's C library produce
the same sequence is an assumption on the platforms.  Values are cut to
`WireBits` as `packBlocks` does; the assumption `RingFitsTheWire` (L <= 16 in the
code) says nothing is lost, and the shipped databases satisfy it.

### CommBlocks

`sendValues`, `recvValues`, `packBlocks` and `unpackBlocks` of
`CommunicationHandler`, which `OtSender` and `OtReceiver` repeat.  Every message of
values in `ArithmeticShares` is a sequence of blocks of bytes made by `sendValues`;
the reader asks for `BlocksRead(count, bytes)` blocks and unpacks all of them, the
unused places at the end included (`Stale` is what stands there).  In the code
both numbers of blocks are computed on their own, one by counting values that fit,
the other by dividing bytes.

### Knn (and NearestNeighbours, its promise)

`PPILCircuit::knnAlgo` on numbers.  `minDist` and `minID` are the two arrays with
k+1 slots, `i` and `j` the two loops; `Load` is the body of the outer loop before
the inner one, `CompareSwap` one round of the inner loop (`GreaterThanGT` and the
two `conditionalSwap` calls).  `NearestNeighbours` looks at one row after the
other and always holds the k nearest, ties in favour of the earlier row.  The
refinement mapping counts a row as looked at once it has been compared with the
k-th result.

### PPILGates and PPILCircuit

`PPILGates` holds the gate functions as functions on bit vectors: full adder,
`additionGT`, `subGT`, `hammingweightRec` with the sizes of its halves,
`GreaterThanGT`, `conditionalSwap`, `ConsGT`, and `equalizeSize` as padding.
`PPILCircuit` runs the two `computeFunction`s and `knnAlgo` on them; the field
`DISTANCE_BIT_SIZE` is a variable because the Hamming protocol changes it before
`knnAlgo` builds its placeholders.  Both are instances of `Knn` under a mapping
of vectors to numbers, with the distances given by ordinary arithmetic.  The inputs
(`InputType`) have the widths that `computeFunction` asserts.  `hammingweightRec` and
the loop of `ConsGT` are recursive functions, so that they can be proved about.

### WireLabels and HalfGates

`WireLabels` is the arithmetic of one gate: labels as sets of bit positions, the
garbler's and the evaluator's half of an AND (`TableG`, `TableE`, `GarbledAnd`,
`EvaluatedAnd`).  Both machines below are built from it.

`HalfGates` is `Circuit::garble` and `Circuit::evaluate` with `Garbler`, `Evaluator`, the KOS
delta OT for the phone's inputs and the base OTs before it.  `HalfGate.cpp` includes
`VerifiedSimplestOT.h`, so its base OTs are `VerifiedSimplestOT` with five messages: the
evaluator's keys, the garbler's points, then the evaluator's challenge, the garbler's
answer and the evaluator's opening, which it only sends when the answer is right
(`AEnv` does not include that header and runs `NaorPinkas`).  Labels are sets of
bit positions, XOR is symmetric difference, `Hash` an arbitrary function.
`gStage`/`eStage` are the positions in the two functions, `gId`/`eId` the two
gate counters, `toEval`/`toGarb` the messages in each direction.  The circuit is
a constant of the module: any list of gates that only read wires made earlier.

Abstractions.  The challenge, answer and opening of the base OTs and the commitment
and correlation check of KOS are messages, for which their side waits; what is
checked of them never fails between the two programs as they are.  The two table rows of an AND
gate are sent in one step (nothing is read between the two sends), an output
vector is one message.  The evaluator's messages towards the garbler are not
bounded: it writes at most three messages before it reads.

### SIMDGates

`SIMDGarbler`, `SIMDEvaluator`, their phased subclasses and the `garble`,
`garbleSIMD`, `garbleBase`/`garbleOnline` and `evaluate` functions that drive them.
A label is a function from lanes to labels; one gate id serves all lanes.  `mode`
says which of the three functions runs; `GarblerSteps` and `EvaluatorSteps` are
their sequences of calls, `gStep`/`eStep` the positions, `gPos`/`ePos` the loop
counters inside a call.  In the phases `bufG` and `bufE` are the two `bufChan`s:
`GarbBuffer`/`EvalBuffer` move the circuit over the connection in one message, and
`GarbChoices`, `GarbLabels`, `EvalChoices`, `EvalLabels` correct the random OTs once
the evaluator has its inputs.  `OTIndex` is the place of an input wire's lane in
the one row of OTs.

The corrected choices are a message of bytes (`Bytes`, with `ByteBits` = 8 in the code).
The evaluator sends `BytesSent` of them, rounded up, and the garbler receives
`BytesRead`, rounded down, then copies all bits (`GarbChoices`): bits past the bytes
received are arbitrary, bytes it did not receive stay on the connection, and with
`BytesRead = 0` the copy is from a null pointer and the garbler is stuck there.  The
evaluator's 128 input bits of the circuits that run in phases fill whole bytes with any
number of lanes; nothing in the code requires it.

Abstractions: those of `HalfGates`.  All lanes of a label are one message.

### CuckooFilter (and FingerprintBag, its promise)

The filter on a `SingleTable`.  `Add`, then the rounds of `AddImpl`'s loop as
`Insert`, `TryAlternate` (the first round only moves on), `Kick` and `GiveUp` (the
tag in hand becomes the victim); `Delete` in its two branches, where a freed slot
starts `AddImpl` again for the victim; `Contain` as an operator.  `adding` is the
state of the loop.  The random slot of a kick is any slot.  `AltIndex` is any
involution on buckets for each tag, which the code asserts of its XOR.
`FingerprintBag` only counts items per class, a class being a tag with its
unordered pair of buckets, which is all the table keeps of an item.

### PSI

`PhasedPSIServer::doPSI` with `PhasedPSIClient::doPSI` for the AES and LowMC protocols
("GC") and for the ECNR protocol, on the filter of `CuckooFilter`.

* Setup: `Encrypt(t)` is one element of thread `t`'s slice, encrypted in place;
  `Join` waits for the threads (only the AES and LowMC servers have more than one);
  `AddNext` and `AddStep` fill the filter, `AddRefused` is `Add` without space
  (`checked` says whether the assertion around it is compiled in); `SendHeader`,
  `SendPart`, `SendParams` and `RecvHeader`, `RecvPart`, `RecvParam` move the filter.
* Base: `ServerBase` and `ClientBase` are the two sequences of sends and receives
  of `VerifiedSimplestOT` and of the KOS extension (random OTs for ECNR, delta OTs
  and the garbled ciphers for GC).
* Online: `SendChoices` corrects the random choices by the elements, `Reply` and
  `RecvReply` are `ECNRPRF::oprf` and the phone's evaluation of it, `Intersect`
  looks everything up in the copy.

Abstractions.  A point of P-256 is its exponent to the generator, modulo the
order; scalar multiplication is multiplication of exponents.  The garbled ciphers
are delivered as `SIMDGates` shows: the reply gives the phone the cipher of each of
its elements.  OT keys are the pairs the extension hands out, expanded to numbers
that need not be below the order.  The hash function of the filter is any function
from encryptions to items.

### Session

The server program, the app on several phones and TCP between them
(`ChannelWrapper.cpp`, `Server/main.cpp`, `android/mainAndroid.cpp`, `storeLog`,
the Java activity and tasks).

* `server` holds the server's stage, whether its next connection is still the
  parameter connection, its listening socket and the queue of connections waiting
  there; `phone[p]` the app's task and place in the task's script; `conn` the
  unread blocks and open ends of every connection.
* `Listen`, `Accept`, `ServerSend`, `ServerRecv`, `CloseListener` and
  `CloseConnection` are the constructor, the calls and the destructor of a channel
  in the server's loop; `Launch` is `onCreate` with its `SetupTask`, `Localize` a
  button, `Connect`, `PhoneSend`, `PhoneRecv` and `Return` a native function.
* `ServerFails` and `PhoneFails` are a blocking call that cannot go on: after a
  reset it throws and the program ends; after an orderly close `recv` returns 0
  and `recv_all` spins for ever.  `LogFails` is the exception of `storeLog`,
  `Kill` ends an app, `Restart` starts the server again, all at any time.

Abstractions.  The stream is counted in 16-byte blocks, so that a reader takes
whatever blocks come next, also those of another message.  A localization is
reduced to who waits for whom: the seeds of protocol 1, all the rest of the
phone's messages ("keys"), all the rest of the server's ("results"), the
benchmark values; what is in between is the subject of the other modules.  The
kernel's queue holds one connection more than the `1` given to `listen`, as on
Linux.  What is sent arrives at once, and a `send` does not block.  A restarted
server has the same database and protocol.  `faults` only records what happened.

## 3. Runs

| Run | Instance | States | Checks |
|---|---|---|---|
| `as_rows` | 2 rows, 2 access points, l = 2 (L = 5), two seeds, 8-byte blocks of 3-bit bytes | 396,418 | `TypeOK`, `Lockstep`, `TripletsMultiply`, `SharesOpen`, `DistanceExact`, `SharesTheDistance`, `Termination` |
| `as_wrap` | 1 row, 2 access points, l = 1 (L = 1) | - | `DistanceExact` is violated |
| `knn_any` | 5 rows, k = 3, every 2-bit distance | 21,504 | `TypeOK`, `InsertionInvariant`, `ReturnsNearest`, `ImplementsSearch` |
| `knn_boundary` | 3 rows, k = 2, every 2-bit distance | - | `FindsNearest` is violated |
| `gc_adder` | 2-bit labels, 3 inputs, 7 gates, 2 outputs, buffer of 3 | 284,720 | `TypeOK`, `Lockstep`, `LabelsEncode`, `OutputsCorrect`, `Termination` |
| `simd` | 2 lanes, 2-bit labels, 1 + 2 inputs, 5 gates, bytes of 2 bits, all three modes, buffer of 2 | 147,904 | `Lockstep`, `LabelsEncode`, `OutputsCorrect`, `Termination` |
| `circuit_both` | 3 rows of 8 bits (Hamming), 3 rows of 2-bit shares, k = 2 | 286,720 | `TypeOK`, `SearchesHamming`, `SearchesShares` |
| `session_faults` | 2 phones, 2 launches and 2 localizations each, 1 restart, all faults | 838,929 | `TypeOK`, `NothingMistaken`, `ServerSurvives`, `PhoneSurvives`, `Answered` |
| `session_setup` | 1 phone, 2 launches | - | `SetupAnswered` is violated |
| `cuckoo_filter` | 2 buckets of 3 slots, 3 tags, 3 kicks, any sequence of calls | 61,264 | `FilterTypeOK`, `SlotsCounted`, `ContainExact`, `RefusesOnlyWhenCrowded`, `ImplementsBag` |
| `psi` | 3 to 5 elements against 1 to 3, 3 threads, filter of 2 x 3 slots in 2 parts | 17,724 | `TypeOK`, `Lockstep`, `EncryptedOnce`, `CopyIsFaithful`, `SameFunction`, `IntersectionExact`, `Termination` |
| `psi_victim` | the same | - | `CommonElementsFound` is violated |

What they show, and why the bounds are enough:

* `as_rows` is about positions and about arithmetic: two rows with the OT keys of
  one, two columns, squared sums between the cells; distances of up to 18 in a ring
  of 32, so that products, masks and the final subtraction wrap.  Two seed values
  and two draw vectors let each party's masks differ in any combination.  The
  number of values in a block is small, so that messages have more than one block
  and a last one that is not full.  A buffer of five blocks is less than a message
  of the constructor's two phases needs together, so that senders are blocked.
* `gc_adder` has every gate kind of `PPILCircuit`, a constant-one wire made by
  negating a zero label, an AND that reads the output of another AND, and two
  output vectors.  A buffer of three messages holds one table and a half, so the
  garbler is blocked in the middle of the circuit.  Two-bit labels have a select
  bit and one other; the hash tells most labels and gate ids apart, so that a
  gate counter that slips is seen.
* `simd` has fewer lanes than OTs and a number of wires different from the number
  of lanes on the garbler's side, so that an index by lane and one by wire differ;
  the second AND reads the first one's output.  Rows, code offsets and random
  choices vary in the phases.  The four corrected choices are two bytes of two bits:
  whole bytes, as the code's 128 inputs are.  With `ByteBits = 3` in the same cfg TLC
  finds `LabelsEncode`, `OutputsCorrect` and `Lockstep` violated (a choice is garbage, a byte
  is left), with `ByteBits = 8` only `Termination` (the garbler has no byte to copy
  from); with 1 and 4 all hold.
* `circuit_both` has 8 bits because the depth of the adder tree, its uneven halves
  and a distance with one bit more than the placeholder first occur together there,
  and it takes all pairs of share vectors.  Three rows and k = 2 push a row out.
* `knn_any` has more rows than slots (rows fall out), all ties, and rows at the
  placeholder's distance.
* `cuckoo_filter`: two buckets of three slots are full after six additions, three
  kicks lead a chain through both buckets and back, and tag 2 has only one bucket.
  The run has no bound on the calls: the state space is finite.  It is the only run
  with deadlock checking on; the filter can always go on.
* `psi`: five elements do not divide by three threads, the filter's six slots do not
  divide by parts of four, an OT key can exceed the order, and one of the three hash
  functions crowds a bucket so that there is a victim and refused elements.
* `session_faults`: two phones fill the queue behind a session; a second launch
  and a second localization are the least with which a phone meets the remains of
  its own earlier connection; one restart makes a phone's parameters older than
  the server.  Both protocol numbers are initial states.
  `NothingMistaken` says that no task *returns* with another message's bytes; it
  may well read some (the seeds of protocol 1 as M) before it runs out of them.
  `ServerSurvives` and `PhoneSurvives` name the only ways to end or hang: for the
  server a phone killed in a task or the log; for a phone a listening socket that
  was closed on it, an operator who stops the server in a session, or the
  parameter connection of a restarted server.
* `Answered` speaks of the behaviours without a failure: it promises nothing after
  one.

`CHECK_DEADLOCK FALSE` is in every other configuration because both programs really
stop after a localization or an intersection, and nobody has to press a button again; that they do
not stop earlier is `Termination` and `Answered`.

Fairness.  `FairSpec` gives each party weak fairness: it is one thread that only
blocks in `recv`, until there are bytes, and in `send`, until there is room.
Nothing is assumed about the order in which the two run.  In `PSI` the phone, the
server's main thread and each of its other threads are weakly fair.  The connection loses
nothing, as TCP does while it is open.  In `Session` the server and each phone's
task are weakly fair; launches, buttons, kills, failed logs and restarts are not.
Weak fairness is enough for the connect loop: a server with nobody to serve waits
in `accept` with its listening socket open until somebody connects.

Every property was also run against a changed definition of the model (a dropped
reduction, swapped phases, a counter that does not advance: `mutants` in
`PROJECT.json`) and fails there.

### Four disagreements found while modelling

* `as_wrap`: `lDash = ceil(log2((2^l - 1)^2 * N))` (`Server/main.cpp:130`,
  `android/mainAndroid.cpp:81`) is the logarithm of the largest distance, not its
  number of bits.  When the largest distance is a power of two, it is 0 in the
  ring: with one-bit values and 2, 4 or 8 access points the farthest row becomes
  the nearest.  This takes l = 1 and a power of two for N; N = 1 with l = 1 even
  gives a ring of one element.
* `knn_boundary`: the placeholder of an empty slot is the distance
  `2^DISTANCE_BIT_SIZE - 1` (`PPILCircuit.cpp:182`).  A row at exactly that
  distance does not displace it, and id 0 is returned in its place.
  `ReturnsNearest` says what holds instead: with distances below the placeholder
  and at least k rows the result is right.

* `session_setup`: every `onCreate` waits for the parameters
  (`MainActivity.java:27-34`), but the server sends them on its first connection
  only (`Server/main.cpp:101-110`).  When the app is started a second time, the
  server takes it for a localization and both wait for each other for ever.
* `psi_victim`: when the filter is so crowded that a tag is left over as the victim,
  `Add` reports success, but `serialize` (`cuckoofilter.h:320`) writes the table only
  and the phone's copy has no victim.  An element both parties have is then missing
  from the result.  `IntersectionExact` says what holds instead: when every element
  is in the table, the answer is right up to equal fingerprints.

## 4. Proofs

Every theorem below holds for every value of the module's constants that meets its
named assumptions; a run evaluates those assumptions on its instance.

| Module | Theorem | Statement |
|---|---|---|
| `KnnProofs` | `TypeCorrect` | `Spec => []TypeOK`: ids name rows, indices stay in the arrays |
| | `InsertionCorrect` | `Spec => []InsertionInvariant` |
| | `NearestCorrect` | `Spec => []ReturnsNearest` |
| | `KnnImplementsSearch` | `Spec => ImplementsSearch`, the refinement of `NearestNeighbours` |
| `PPILCircuitProofs` | `AdditionExact`, `SubtractionExact`, `ComparisonExact`, `SwapExact`, `HammingExact`, `ConstantExact` | one gate function on vectors of any length computes the number its name says |
| | `TypeCorrect` | `Spec => []TypeOK` |
| | `HammingImplementsKnn` | `Spec => SearchesHamming`, the refinement of `Knn` for one-bit strengths |
| | `SharesImplementKnn` | `Spec => SearchesShares`, the refinement of `Knn` for shares |
| `HalfGatesProofs` | `XorCorrect`, `NotCorrect`, `AndCorrect` | one gate on labels that encode two bits gives the label of the result |
| | `Invariance` | `Spec => []IInv`, the inductive invariant |
| | `TypeCorrect` | `Spec => []TypeOK` |
| | `LabelsAlwaysEncode` | `Spec => []LabelsEncode` |
| | `OutputsAlwaysCorrect` | `Spec => []OutputsCorrect` |
| | `AlwaysLockstep` | `Spec => []Lockstep` |
| `SIMDGatesProofs` | `Invariance` | `Spec => [](WholeBytes => IInv)`, the inductive invariant |
| | `AlwaysLockstep` | `Spec => []((mode = "phases" => ChoicesFillBytes) => Lockstep)` |
| | `LabelsAlwaysEncode` | `Spec => []((mode = "phases" => ChoicesFillBytes) => LabelsEncode)` |
| | `OutputsAlwaysCorrect` | `Spec => []((mode = "phases" => ChoicesFillBytes) => OutputsCorrect)` |
| `PSIProofs` | `TypeCorrect` | `FilterSpec => []FilterTypeOK` |
| | `SlotsAreCounted` | `FilterSpec => []SlotsCounted` |
| | `RefusalMeansCrowded` | `FilterSpec => []RefusesOnlyWhenCrowded` |
| | `ContainIsExact` | `FilterSpec => []ContainExact` |
| | `FilterImplementsBag` | `FilterSpec => ImplementsBag`, the refinement |
| | `TypeSafe` | `Spec => []TypeOK` |
| | `ReadsInStep` | `Spec => []Lockstep` |
| | `EncryptsEachOnce` | `Spec => []EncryptedOnce` |
| | `CopyFaithful` | `Spec => []CopyIsFaithful` |
| | `FunctionsAgree` | `Spec => []SameFunction` |
| | `IntersectionIsExact` | `Spec => []IntersectionExact` |
| `ArithmeticSharesProofs` | `FramesAgree` | writer and reader of `CommBlocks` count the same blocks |
| | `Invariance`, `ValuesInvariance` | `Spec => []IInv`, `Spec => []Inv`, the inductive invariants |
| | `AlwaysLockstep` | `Spec => []Lockstep` |
| | `TypeSafe` | `Spec => []TypeOK` |
| | `TripletsAreProducts` | `Spec => []TripletsMultiply` |
| | `SharesAlwaysOpen` | `Spec => []SharesOpen` |
| | `DistancesAreExact` | `Spec => []DistanceExact`, if `MaxDistance # Ring` |
| | `PhaseKeepsPromise` | `Spec => SharesTheDistance`, the refinement of `SharedDistance` |
| `SessionProofs` | `AlwaysTypeOK` | `Spec => []TypeOK` |
| | `NeverMistaken` | `Spec => []NothingMistaken` |
| | `ServerOutlives` | `Spec => []ServerSurvives` |
| | `PhoneOutlives` | `Spec => []PhoneSurvives` |

**Knn.**  Any number of rows and neighbours, any distance width, any set of distance
vectors (`ParameterAssumption`: M and K are positive, distances are naturals).
`ReturnsNearest` only speaks of the end and is not inductive.  The inductive
invariant is `IInv == TypeOK /\ InsertionInvariant`, where `InsertionInvariant`
has four parts: `Sorted` (only the slot being carried up is out of order, and it
is the smallest from its own place down), `Genuine` (a slot below the placeholder
holds a row seen before, with that row's distance, and no row twice), `Covered` (a
row that is in no slot is no nearer than all k results), `PushedOut` (as many slots
are filled as rows have come).  `LoadEffect` and `CompareSwapEffect` say once what
the two actions do to the slots; the preservation lemmas only use them.  For
`Genuine` and `Covered` a swap is a permutation `From` of the slots, since
distance and id move together.  At the end `Sorted` and `Covered` give that no row
outside is nearer, `Genuine` and `PushedOut` that the ids are different rows.

The refinement needs the order of equal distances, about which `IInv` says
nothing; `Stable` adds it: the slots are in order (nearer first, of two equally near
the earlier row), except for the row on its way up, which is the newest one until it
meets a row that is not farther; what is in no slot comes after all k results.
Then a row that is not held comes after k rows that are (`HeldAhead`), and what is
held is what the abstract search holds (`HeldNearest`, by counting).  The comparison
with slot k-1 is the step of the search, every other step a stutter
(`NextImplements`).  Like `ReturnsNearest`, it is about distances below the placeholder.

**PPILCircuit.**  Vectors of any length, any number of rows, access points, bits and
neighbours.  `Low(v, k)` is the number in the low k bits of a vector.  Each gate with a
chain keeps an equation between the low k bits of its inputs and outputs: the sum
and the carry for `additionGT` (`subGT` is the sum with the complement, whose low
bits are what is missing to 2^k), and for `GreaterThanGT` that borrow k says which of the
two numbers in the low k bits is larger.  `hammingweightRec` calls itself on two parts
of different lengths and uses the first bit as carry in; that the parts are shorter
and together the vector (`HammingHalves`) gives `HammingExact` by induction on the length.
The widths matter in the circuit: a Hamming distance may have a wire more than the
placeholder, and after a swap both are padded.  The invariant `IInv` says that the
distances computed so far stand for the distances of their rows (`DistancesExact`)
and that during the search every slot holds a vector and an id of `IdBits` wires
(`SlotsReady`).  Then a comparison decides and a swap exchanges as on numbers, so that
a step of the circuit is a step of `Knn` (`NextSearches`, `SearchStep`); this is proved
once for both protocols.  `KnnProofs` says what `Knn` then returns.

**WireLabels** (the first section of `HalfGatesProofs`).  Labels of any length, any hash, any gate id.  `LabelOf(l, v, R)` is
the label of value `v` on a wire with 0-label `l`.  XOR and NOT are set algebra.
The AND follows the two halves of the scheme: the garbler's half computes the AND
of a with the select bit of b's 0-label, the evaluator's half the AND of a with the
rest of b; `LSB(R)` makes the select bit of a label show which of the two it is.

**HalfGates.**  Any circuit whose gates read wires made earlier, any split of the
inputs, any outputs, buffer and hash (`ParameterAssumption`, `CircuitAssumption`,
`HashAssumption`).  None of the properties is inductive: `LabelsEncode` after an AND
needs to know what is in the two messages read, which needs to know where on the
connection they are.  So the invariant fixes the connection.  `Position` and `Back`
give, for a stage and what was done in it, the number of messages written or read;
`GarbPlace` and `EvalPlace` state it for both sides of both directions, with the gate
counters as the number of ANDs before the wire (`Ands`).  `Inputs`, `Tables`,
`Decoding` and `Answers` say what each message holds as a function of the garbler's
labels and of the evaluator's rows; `Transferred` is the state of the oblivious
transfer between the columns and the offset; `Garbled` and `Evaluated` are the gates'
equations on each side.  The evaluator may be ahead of the garbler at gates without
a table, so `LabelsEncode` is re-established on both sides: by the evaluator for a
wire the garbler has, and by the garbler for a wire the evaluator already has.  At
an AND the evaluator has read a table, so the garbler is past that gate
(`TableArrived`), and `AndCorrect` applies.  `OutputArrived` is the same for outputs.

**SIMDGates.**  Any number of lanes, any circuit whose gates read wires made earlier, any
split of the inputs, buffer and hash (`SIMDAssumption`), and all three modes in one
proof.  In the phases there is a condition, `ChoicesFillBytes`: the evaluator's inputs of
all lanes are a multiple of the bits of a byte, as they are for the 128-bit inputs of
both circuits.  Without it the properties are false, as described under run `simd`.  It is
needed in one place only, when the garbler reads the choices (`GarbChoicesKeeps`,
`AllBytesRead`); garbling in one piece needs no condition.  The modes differ in the order of the steps, so the proof speaks of steps by
their names: `GarbIndex` and `EvalIndex` give the place of a step in a side's script
(`ScriptsAre` reads them off the two concatenated scripts), `GarbDid(step)` and
`EvalDid(step)` how many items of a step a side has done.  Sums of these are the numbers of
messages written and read, of the circuit (`Circuits`), otherwise towards the evaluator
(`Links`) and back (`Backs`).  The invariant `IInv` says that what is on its way, or
waits in a `bufChan`, is exactly the messages between the reader's number and the
writer's, and that each is right for its place: `CircuitRight`, `LinkRight` and
`AnswerRight` give the message at a place as a function of the garbler's labels, the
offset, the rows and the choices.  A message that is right for its place also says what its
writer has done before; so the reader learns with it how far the other side is
(`Learned`), and no induction over both scripts at once is needed.  `Transferred` is the
state of the OTs before and after the offset, with the choice bits as they were drawn and
as they were corrected; `InputLabels` ties the labels of the evaluator's inputs to
the OTs where they are not sent.  `Garbled` and `Evaluated` are the equations of the
gates.  In the phases all of the circuit is in `bufG` before the transfers are
corrected: `GarbFrame` and `EvalFrame` name what a side no longer changes once a step
is behind it, which keeps every message right until it is read.  For each action one
lemma (`GarbAndKeeps`, `EvalLabelsKeeps` and so on) shows that `IInv` is preserved; the
lanes are independent, so an AND is `AndCorrect` in each of them.  TLC checked `IInv` on the
instance of `simd` before.

**CuckooFilter** (the first section of `PSIProofs`).  Any size of table, bucket, kick limit and involution
`AltIndex`.  The invariant is `FilterTypeOK /\ SlotsCounted /\ Alone /\ Crowded`:
`Alone` says the tag in hand and the victim are never both there, `Crowded` that
a tag in hand beyond the first round, or a victim, leaves a full bucket behind.  For the
refinement every action is a bijection between the positions of a class (slots,
victim, hand) before and after, except for the one an `Add` or a `Delete` adds or
removes; cardinalities of finite sets then give the abstract step.

**PSI.**  Any number of elements, threads and bits, any filter, any cut of it into
parts, every interleaving, any group of prime order.  `PSIAssumption` bounds the
order by the two sizes that meet in `ECNRPRF::oprf` (an element's bits fit below it,
and it fits a key); `OrderAssumption` is that the order is prime, in the form the proof
needs, a reciprocal for everything but 0; `OTAssumption` says what the OT
extension hands out, and that no key is divided by the order: such a key has no
reciprocal, nothing in the code checks for it, and it is one value in 2^256.

The invariant is `FilterFed /\ Phase`.  In `FilterFed` is `TInv`: a thread has encrypted
exactly the part of its slice before its counter (`WithinSlice`, `Progressing`); the
slices are disjoint and cover all elements, also when the threads do not divide them.
The rest of `FilterFed` is that the filter has taken the encryptions offered to it
one by one, every class as often as it occurs among them (`Took`), which rests on the
theorems about `CuckooFilter`.  `Phase` is the conversation: `Early` before anything
is sent, then `Setup(w, r)`, `Base(s, c, pairs, random)` and `Online(pairs, random)`,
in which the channels hold a `Window` of the stream of messages one program writes, from
what the other one has read to what is written.  The streams are functions of what
the two parties hold; `SetupMessage(k)` for a part says where its slots come from, so
that `Copied` (the phone's table up to `cPos` is the server's) is kept part by part.

`SameFunction` for ECNR is algebra: the server multiplies a blinding factor for
every bit and sends the reciprocal of the product; with the reduced OT key as the blind,
the phone's factor for a bit is the blind times `a[j]` to the bit.  The product over
all bits is pulled apart by induction over the bits (`Product` is a recursive function
and not a `RECURSIVE` operator), and XOR with a mask is undone bit by bit
(`XorUndone` of `Arithmetic`).  `IntersectionExact` then joins the three layers: the
copy is the table, the evaluations are the encryptions, and an item is in the table if
and only if its class is in the bag, provided no tag waits as the victim.

**CommBlocks.**  `FramesAgree` needs that values fill a block of 16 bytes without a
rest.  The two bytes the code uses do; with three, 16 values would be written in four
blocks (five in each) and read from three (48 bytes).

**ArithmeticShares: lockstep.**  Any size of the database, width of the signal strengths
and capacity of the connection; values fill a block without a rest
(`ValuesFillBlocks`, 16 bytes and 2 in the code).  `Lockstep` is about the head of what
is on its way and not inductive.  `ScriptOf` spells the two concatenated scripts out;
`Kinds[p]` are the nine messages towards `p` in the order in which the peer writes
them, `Start[p]` the blocks before each, `NextWrite` and `NextRead` the message whose
turn it is at each position of a script.  The invariant `Streams` says that what is on
its way to `p` are the blocks from `Start` of the message `p` reads next to `Start` of
the one the peer writes next, each with the kind of its message.  `TurnOf` checks the
tables against both scripts: a step that writes or reads moves to the next message and
is for that message.  `ValuesSent` (with `FramesAgree`) and `WidthOfStep` give that the
writer's and the reader's number of blocks are the difference of two `Start`s.  Then
`WriteKeeps`, `ReadKeeps` and `LocalKeeps` preserve the invariant whatever the step
is, and `StepKeeps` and `SharesKeep` assign every action to one of them.  That a
non-empty connection holds at least the next message is `Ahead`, that it holds no
block of that kind beyond it is `Place`.

**ArithmeticShares: values.**  Any seeds, draws, keys of the OT extension, databases
and fingerprints.  That a distance is right at the end depends on everything both
parties have held since their constructors, and what a party reads depends on the
bytes on their way.  So `Inv` adds to `IInv`

* `Environments`: `Holds(p, k, e, pl)` is what party `p` has in its fields at position
  `k` of its script (masks, keys, shares of the inputs, results; each a function of what
  came before), `Agrees(p, k, e, o)` what it has received against the peer's fields;
* `Contents`: the bytes on their way are those of the messages the writer's fields
  give (`Message`), at their places (`SpelledBy`);
* `WellFormed` and `InCapacity`: bytes are bytes, and no more than the buffer.

An action only has to show `Fulfils`: it holds what the next position asks for, it agrees
with the peer, and it keeps what it sent before (`Keeps`).  That the peer has come far
enough for `Agrees` to say something is `Precedes`, which follows from `IInv`: nothing is
read before it is written.  From `Inv` the four properties follow by algebra in
the ring.  `TripletsMultiply`: the receiver's sum minus the sender's sum over one
cell's OTs is the mask times the sum of the choice bits' powers of two, and these bits
are the other mask's.  `SharesOpen`: the seeds are equal, hence the masks that are
derived twice.  `DistanceExact` and the refinement: what both parties open for a row is the
product sum under a random share (`RowOpens`, `ProductOpens`), and the square sums
complete the binomial.  `DistanceExact` speaks of the numbers and not only of their
residues; it holds unless `MaxDistance = Ring`, since `L` is the rounded-up logarithm of
`MaxDistance`.  That is the case which `as_wrap` finds; the theorem says it is the only one.
The refinement (`PhaseKeepsPromise`) has no such condition: `SharedDistance` promises the
distance in the ring.

**Induction over numbers and sets.**  The installed provers cannot instantiate
the library's induction theorems, which take an operator.  `Arithmetic` proves
`Induction` for a *set* of numbers instead, from the well-foundedness of `<`, and
`Recursion`: the recursive function whose step is itself a function exists.
`MeasuredRecursion` is the same for a function on any set that calls itself on what a
measure makes smaller; `hammingweightRec` and `Bits` exist by it.  Sums
over a set (`SumFunctionOnSet`, a fold of the community modules) are then pinned down
by `SumStep`: a term more, its value more.  With it follow that sums add up, that two
sums over the same set with equal terms modulo the ring are equal modulo the ring, that
the bits of a number sum up to it, and that XOR undoes itself.

**Session.**  Any number of phones, both protocols, any choice of faults and any
number of launches, localizations and restarts: the bounds on these are constants of
the module (`ParameterAssumption`).  None of the properties is inductive.  That a task which
took a message for another one never returns follows because it then waits for a
block that never comes, and that in turn from what each side has sent and taken so far.
The invariant `IInv` therefore gives every connection that is in use a history
(`Linked`): a task of the phone and a position in its script, a task the server
serves it as and a position in that script.  `Exchange` says what is unread: as
many blocks as one side has sent (`ServerSent`, `PhoneSent`) and the other not taken
(`PhoneTook`, `ServerTook`), with the names of the messages they belong to (`Name`).
`PhoneHolds` and `ServerHolds` say whose the open ends are, `PhoneLeft` and
`ServerLeft` in which position an end was closed unless a fault was recorded, and
`Matched` that the two tasks are the same one unless the server was restarted.  Only
the first connection of a server is served as a request for the parameters, and
`FirstServed` says that nobody has parameters before it.  `Served` and `Connected`
state what this means for the server's stage and for a phone's task; the four
properties follow from them.  The lemmas `PhoneSteps` and `ServerSteps` check the
tables against the scripts of both protocols; the rest is one lemma per action.  The
invariant was first checked with TLC on the instance of `session_faults`.

Every invariant, action property and refinement that a passing run checks is stated by one
of these theorems, for the phases of `SIMDGates` under the condition `ChoicesFillBytes`.
Only model-checked are `Termination` and `Answered`, which are liveness under fairness and
out of the prover's reach.

## 5. Not modelled

* `SIMDPPILCircuit` (the gates of `PPILCircuit` on labels of several lanes, used by
  tests only) and the AES and LowMC circuits: straight-line bit logic with tables of
  constants.  The theorems about `HalfGates` and `SIMDGates` hold for any circuit, so
  garbling these adds nothing; whether they are AES and LowMC is a matter of test vectors.
* Plain IKNP (no caller in the library's programs) and, inside the KOS extension, the
  batching by super blocks, the bit-matrix transposition and the arithmetic of the
  correlation check.
* Cryptographic primitives, linear code, bit containers: arbitrary functions or
  nondeterministic draws.  The models show functional correctness; they say
  nothing about what a party could learn.
* Loading the database from a file, a server restarted with another database, full
  socket buffers during a session (`ArithmeticShares`, `HalfGates` and `SIMDGates` have
  bounded connections).
* Vendored code (GSL, miracl, ref10, keccak, the LowMC library, loguru), build files,
  tests.  They are most of the repository: of about 218,000 lines some 187,000 are
  generated LowMC matrices and vendored C, so that the models speak about a small share
  of the lines and about most of the library's own protocol code.

## 6. Plan

Done: `ArithmeticShares` with `SharedDistance` and `CommBlocks`; `Knn` with
`NearestNeighbours`; `PPILGates`, `PPILCircuit`; `WireLabels`, `HalfGates`,
`SIMDGates`; `Session`; `CuckooFilter` with `FingerprintBag`; `PSI`; the proofs of
section 4.

Left: nothing that the installed provers can state.  `Termination` and `Answered`
would need a prover for liveness under fairness.
