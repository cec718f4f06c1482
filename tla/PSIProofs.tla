----------------------------- MODULE PSIProofs -----------------------------
(***************************************************************************)
(* What the three protocols promise, for every number of elements, threads *)
(* and bits, every group of prime order and every random choice of the two *)
(* parties.  The proofs are in five layers.                                *)
(*                                                                         *)
(* The cuckoo filter on its own, for every size, every number of rounds    *)
(* and every choice of tags and buckets: its invariants, and that it       *)
(* implements the bag of fingerprints.                                     *)
(*                                                                         *)
(* Algebra.  The group is arithmetic modulo its order, so blinding is      *)
(* undone by the inverse; a product of elements a[i] over the one bits of  *)
(* an input is the function the server computes directly; packing bits     *)
(* into bytes and unpacking them loses nothing.                            *)
(*                                                                         *)
(* The server's threads.  TInv: a thread stays in its slice, the slices    *)
(* cover the elements, and what the threads have written is the encryption *)
(* of the element of that place.                                           *)
(*                                                                         *)
(* The filter.  FilterFed: up to what the packing keeps, the filter holds  *)
(* the encryptions given to it, each as often as it was given (the cuckoo  *)
(* filter's own theorems), and the phone's copy is a decoding of it.       *)
(*                                                                         *)
(* The conversation.  Phase names, for each pair of stages the two parties *)
(* can be in at once, what is in the channels between them: the rest of a  *)
(* script whose first part one has written and the other has read.  Inv is *)
(* the conjunction of the two, and every step keeps it.                    *)
(***************************************************************************)
EXTENDS PSI, Arithmetic, SequenceTheorems, WellFoundedInduction

-----------------------------------------------------------------------------
(* Buckets, slots and positions *)

LEMMA Sizes ==
    /\ num_buckets \in Nat \ {0} /\ kTagsPerBucket \in Nat \ {0}
    /\ kMaxCuckooCount \in Nat \ {0} /\ Slot \subseteq Nat
BY SizeAssumption DEF Slot

\* The search of a bucket finds the tag if one of the slots holds it.
LEMMA FirstSlotFound ==
    ASSUME NEW i, NEW tag, Holds(table, i, tag)
    PROVE  FirstSlot(i, tag) \in Slot /\ table[<<i, FirstSlot(i, tag)>>] = tag
<1> DEFINE T == {j \in Slot : table[<<i, j>>] = tag}
<1>1. T \subseteq Nat /\ T # {}
  BY Sizes DEF Holds
<1>2. PICK j \in T : \A k \in T : ~(<<k, j>> \in OpToRel(<, Nat))
  BY <1>1, NatLessThanWellFounded, WFMin
<1>3. \A x, y \in Nat : x < y => <<x, y>> \in OpToRel(<, Nat)
  BY DEF OpToRel
<1>4. \A k \in T : j <= k
  <2> SUFFICES ASSUME NEW k \in T, ~(j <= k) PROVE FALSE
    OBVIOUS
  <2>1. j \in Nat /\ k \in Nat /\ k < j
    BY <1>1
  <2> QED  BY <1>2, <1>3, <2>1
<1> QED  BY <1>2, <1>4 DEF FirstSlot

LEMMA PositionFinite == IsFiniteSet(Position)
<1>1. IsFiniteSet(Bucket) /\ IsFiniteSet(Slot)
  BY Sizes, FS_Interval DEF Bucket, Slot
<1> QED  BY <1>1, FS_Product DEF Position
Tables == [Position -> Tag \cup {Empty}]
Writes(f, g, p, t) == g = [f EXCEPT ![p] = t]

LEMMA OccupiedFinite ==
    ASSUME NEW f \in Tables
    PROVE  IsFiniteSet(Occupied(f)) /\ Cardinality(Occupied(f)) \in Nat
BY PositionFinite, FS_Subset, FS_CardinalityType DEF Occupied

\* Writing one slot changes which slots are in use by at most that one.
LEMMA Written ==
    ASSUME NEW f \in Tables, NEW p \in Position, NEW t \in Tag \cup {Empty},
           NEW g, Writes(f, g, p, t)
    PROVE  /\ g \in Tables /\ g[p] = t /\ \A q \in Position : q # p => g[q] = f[q]
           /\ IsFiniteSet(Occupied(f)) /\ Cardinality(Occupied(f)) \in Nat
           /\ Occupied(g) = IF t = Empty THEN Occupied(f) \ {p} ELSE Occupied(f) \cup {p}
<1>1. /\ g \in Tables /\ g[p] = t /\ \A q \in Position : q # p => g[q] = f[q]
  BY DEF Tables, Writes
<1>2. IsFiniteSet(Occupied(f)) /\ Cardinality(Occupied(f)) \in Nat
  BY OccupiedFinite
<1>3. Occupied(g) = IF t = Empty THEN Occupied(f) \ {p} ELSE Occupied(f) \cup {p}
  BY <1>1 DEF Occupied
<1> QED  BY <1>1, <1>2, <1>3

LEMMA Counted ==
    ASSUME NEW f \in Tables, NEW p \in Position, NEW t \in Tag \cup {Empty},
           NEW g, Writes(f, g, p, t)
    PROVE  Cardinality(Occupied(g)) =
             Cardinality(Occupied(f)) + One(t # Empty) - One(f[p] # Empty)
<1>1. /\ IsFiniteSet(Occupied(f)) /\ Cardinality(Occupied(f)) \in Nat
      /\ Occupied(g) = IF t = Empty THEN Occupied(f) \ {p} ELSE Occupied(f) \cup {p}
  BY Written
<1>2. p \in Occupied(f) <=> f[p] # Empty
  BY DEF Occupied
<1>3. CASE t = Empty
  <2>1. Occupied(g) = Occupied(f) \ {p}
    BY <1>1, <1>3
  <2>2. Cardinality(Occupied(f) \ {p}) =
          IF p \in Occupied(f) THEN Cardinality(Occupied(f)) - 1 ELSE Cardinality(Occupied(f))
    BY <1>1, FS_RemoveElement
  <2> QED  BY <1>1, <1>2, <1>3, <2>1, <2>2 DEF One
<1>4. CASE t # Empty
  <2>1. Occupied(g) = Occupied(f) \cup {p}
    BY <1>1, <1>4
  <2>2. Cardinality(Occupied(f) \cup {p}) =
          IF p \in Occupied(f) THEN Cardinality(Occupied(f)) ELSE Cardinality(Occupied(f)) + 1
    BY <1>1, FS_AddElement
  <2> QED  BY <1>1, <1>2, <1>4, <2>1, <2>2 DEF One
<1> QED  BY <1>3, <1>4

-----------------------------------------------------------------------------
(* The inductive invariant *)

\* The loop of AddImpl never runs while there is a victim.
Alone == adding.busy => ~victim.used

\* A loop past its first round has found a full bucket, and left it full.
Crowded == (adding.busy /\ adding.count > 0) \/ victim.used => \E i \in Bucket : Full(i)

IInv == FilterTypeOK /\ SlotsCounted /\ Alone /\ Crowded

LEMMA NothingBusy == ~NotAdding.busy /\ ~Unused.used
BY DEF NotAdding, Unused

LEMMA Fields ==
    ASSUME NEW item, NEW n
    PROVE  /\ Adding(item, n).busy /\ Adding(item, n).item = item /\ Adding(item, n).count = n
           /\ Victim(item).used /\ Victim(item).item = item
BY DEF Adding, Victim

LEMMA AddingType ==
    ASSUME FilterTypeOK
    PROVE  /\ adding = NotAdding \/ adding.busy
           /\ adding.busy => /\ adding = Adding(adding.item, adding.count)
                             /\ adding.item \in Item
                             /\ adding.count \in 0 .. kMaxCuckooCount
<1>1. \/ adding = NotAdding
      \/ \E item \in Item, n \in 0 .. kMaxCuckooCount : adding = Adding(item, n)
  BY DEF FilterTypeOK
<1>2. CASE adding = NotAdding
  BY <1>2, NothingBusy
<1>3. CASE \E item \in Item, n \in 0 .. kMaxCuckooCount : adding = Adding(item, n)
  BY <1>3, Fields
<1> QED  BY <1>1, <1>2, <1>3

LEMMA VictimType ==
    ASSUME FilterTypeOK
    PROVE  /\ victim = Unused \/ victim.used
           /\ victim.used => victim = Victim(victim.item) /\ victim.item \in Item
<1>1. victim = Unused \/ \E item \in Item : victim = Victim(item)
  BY DEF FilterTypeOK
<1>2. CASE victim = Unused
  BY <1>2, NothingBusy
<1>3. CASE \E item \in Item : victim = Victim(item)
  BY <1>3, Fields
<1> QED  BY <1>1, <1>2, <1>3

LEMMA AltType ==
    ASSUME NEW item \in Item
    PROVE  /\ item.index \in Bucket /\ item.tag \in Tag /\ item.tag # Empty
           /\ Alt(item) \in Bucket /\ Moved(item) \in Item /\ Alt(Moved(item)) = item.index
           /\ Moved(item).index = Alt(item) /\ Moved(item).tag = item.tag
BY AltAssumption, TagAssumption DEF Item, Alt, Moved

-----------------------------------------------------------------------------
(* What the steps do *)

LEMMA InsertEffect ==
    ASSUME FilterTypeOK, Insert
    PROVE  \E p \in Position :
              /\ p[1] = adding.item.index /\ table[p] = Empty
              /\ Writes(table, table', p, adding.item.tag)
              /\ adding.busy /\ num_items' = num_items + 1
              /\ adding' = NotAdding /\ victim' = victim
<1> DEFINE i == adding.item.index
           p == <<i, FirstSlot(i, Empty)>>
<1>1. adding.busy /\ adding.item \in Item /\ i \in Bucket
  BY AddingType, AltType DEF Insert, Round
<1>2. FirstSlot(i, Empty) \in Slot /\ table[p] = Empty
  BY FirstSlotFound DEF Insert
<1>3. p \in Position /\ p[1] = i
  BY <1>1, <1>2 DEF Position
<1> QED  BY <1>1, <1>2, <1>3 DEF Insert, Put, Writes

LEMMA KickEffect ==
    ASSUME FilterTypeOK, Kick
    PROVE  \E p \in Position :
              /\ p[1] = adding.item.index /\ table[p] \in Tag
              /\ Writes(table, table', p, adding.item.tag)
              /\ adding.busy /\ adding.count + 1 \in 1 .. kMaxCuckooCount
              /\ adding' = Adding(Moved(At(p)), adding.count + 1)
              /\ Full(p[1]) /\ num_items' = num_items /\ victim' = victim
<1> DEFINE i == adding.item.index
<1>1. /\ adding.busy /\ adding.item \in Item /\ i \in Bucket
      /\ adding.count + 1 \in 1 .. kMaxCuckooCount
  BY AddingType, AltType, Sizes DEF Kick, Round
<1>2. PICK r \in Slot :
        /\ table' = [table EXCEPT ![<<i, r>>] = adding.item.tag]
        /\ adding' = Adding(KickedOut(table[<<i, r>>], adding.item), adding.count + 1)
  BY DEF Kick, Put
<1> DEFINE p == <<i, r>>
<1>3. p \in Position /\ p[1] = i
  BY <1>1 DEF Position
<1>4. table[p] \in Tag
  BY <1>1, <1>3 DEF Kick, Holds, FilterTypeOK
<1>5. KickedOut(table[p], adding.item) = Moved(At(p))
  BY <1>3 DEF KickedOut, Moved, At, Alt
<1> QED  BY <1>1, <1>2, <1>3, <1>4, <1>5 DEF Kick, Full, Writes

LEMMA DeleteEffect ==
    ASSUME FilterTypeOK, NEW item \in Item, DeleteFromTable(item)
    PROVE  \E p \in Position :
              /\ p[1] \in {item.index, Alt(item)} /\ table[p] = item.tag
              /\ Writes(table, table', p, Empty)
              /\ ~adding.busy /\ num_items' = num_items - 1 /\ victim' = Unused
              /\ adding' = IF victim.used THEN Adding(victim.item, 0) ELSE NotAdding
<1> DEFINE i == IF Holds(table, item.index, item.tag) THEN item.index ELSE Alt(item)
           p == <<i, FirstSlot(i, item.tag)>>
<1>1. i \in Bucket /\ i \in {item.index, Alt(item)}
  BY AltType
<1>2. Holds(table, i, item.tag)
  BY DEF DeleteFromTable, FindTagInBuckets
<1>3. FirstSlot(i, item.tag) \in Slot /\ table[p] = item.tag
  BY <1>2, FirstSlotFound
<1>4. p \in Position /\ p[1] = i
  BY <1>1, <1>3 DEF Position
<1> QED  BY <1>1, <1>3, <1>4 DEF DeleteFromTable, Put, Writes
-----------------------------------------------------------------------------
(* The invariants *)

\* A table of empty slots, no victim and no call of Add.
LEMMA InitIInv == FilterInit => IInv
<1> SUFFICES ASSUME FilterInit PROVE IInv
  OBVIOUS
<1>1. FilterTypeOK
  BY DEF FilterInit, FilterTypeOK
<1>2. Occupied(table) = {}
  BY DEF FilterInit, Occupied
<1>3. SlotsCounted
  BY <1>2, FS_EmptySet DEF FilterInit, SlotsCounted
<1>4. Alone /\ Crowded
  BY NothingBusy DEF FilterInit, Alone, Crowded
<1> QED  BY <1>1, <1>3, <1>4 DEF IInv

LEMMA InsertKeeps == ASSUME IInv, Insert PROVE IInv'
<1>1. PICK p \in Position :
        /\ table[p] = Empty /\ Writes(table, table', p, adding.item.tag)
        /\ adding.busy /\ num_items' = num_items + 1 /\ adding' = NotAdding /\ victim' = victim
  BY InsertEffect DEF IInv
<1>2. table \in Tables /\ adding.item.tag \in Tag /\ adding.item.tag # Empty
  BY <1>1, AddingType, AltType DEF IInv, FilterTypeOK, Tables
<1>3. table' \in Tables
  BY <1>1, <1>2, Written
<1>4. Cardinality(Occupied(table')) = Cardinality(Occupied(table)) + 1
  BY <1>1, <1>2, Counted, Written DEF One
<1>5. FilterTypeOK'
  BY <1>1, <1>3 DEF IInv, FilterTypeOK, Tables
<1>6. SlotsCounted'
  BY <1>1, <1>4 DEF IInv, SlotsCounted
<1>7. Alone' /\ Crowded'
  BY <1>1, NothingBusy DEF IInv, Alone, Crowded
<1> QED  BY <1>5, <1>6, <1>7 DEF IInv

LEMMA TryAlternateKeeps == ASSUME IInv, TryAlternate PROVE IInv'
<1>1. adding.busy /\ adding.item \in Item /\ adding.item.index \in Bucket
  BY AddingType, AltType DEF IInv, TryAlternate, Round
<1>2. FilterTypeOK'
  BY <1>1, AltType, Sizes DEF IInv, FilterTypeOK, TryAlternate
<1>3. SlotsCounted'
  BY DEF IInv, SlotsCounted, TryAlternate
<1>4. Alone'
  BY <1>1 DEF IInv, Alone, TryAlternate
<1>5. Crowded'
  BY <1>1 DEF TryAlternate, Crowded, Full
<1> QED  BY <1>2, <1>3, <1>4, <1>5 DEF IInv

LEMMA KickKeeps == ASSUME IInv, Kick PROVE IInv'
<1>1. PICK p \in Position :
        /\ p[1] = adding.item.index /\ table[p] \in Tag
        /\ Writes(table, table', p, adding.item.tag)
        /\ adding.busy /\ adding.count + 1 \in 1 .. kMaxCuckooCount
        /\ adding' = Adding(Moved(At(p)), adding.count + 1)
        /\ Full(p[1]) /\ num_items' = num_items /\ victim' = victim
  BY KickEffect DEF IInv
<1>2. /\ table \in Tables /\ adding.item.tag \in Tag /\ adding.item.tag # Empty
      /\ p[1] \in Bucket /\ table[p] # Empty
  BY <1>1, AddingType, AltType, TagAssumption DEF IInv, FilterTypeOK, Tables
<1>3. table' \in Tables /\ Cardinality(Occupied(table')) = Cardinality(Occupied(table))
  BY <1>1, <1>2, Counted, Written DEF One
<1>4. Moved(At(p)) \in Item
  BY <1>1, <1>2, AltType DEF At, Item
<1>5. FilterTypeOK'
  BY <1>1, <1>3, <1>4, Sizes DEF IInv, FilterTypeOK, Tables
<1>6. SlotsCounted'
  BY <1>1, <1>3 DEF IInv, SlotsCounted
<1>7. Alone'
  BY <1>1 DEF IInv, Alone
<1>8. Full(p[1])'
  <2>1. table'[p] # Empty /\ \A q \in Position : q # p => table'[q] = table[q]
    BY <1>1, <1>2, Written
  <2>2. \A j \in Slot : <<p[1], j>> \in Position /\ table[<<p[1], j>>] # Empty
    BY <1>1, <1>2 DEF Full, Holds, Position
  <2>3. \A j \in Slot : table'[<<p[1], j>>] # Empty
    BY <2>1, <2>2
  <2> QED  BY <2>3 DEF Full, Holds
<1>9. Crowded'
  BY <1>2, <1>8 DEF Crowded
<1> QED  BY <1>5, <1>6, <1>7, <1>9 DEF IInv

\* The loop gives up only after a round, since it has at least one.
LEMMA GiveUpKeeps == ASSUME IInv, GiveUp PROVE IInv'
<1>1. adding.busy /\ adding.item \in Item /\ adding.count > 0
  BY AddingType, Sizes DEF IInv, GiveUp
<1>2. FilterTypeOK'
  BY <1>1 DEF IInv, FilterTypeOK, GiveUp
<1>3. SlotsCounted'
  BY DEF IInv, SlotsCounted, GiveUp
<1>4. Alone'
  BY NothingBusy DEF Alone, GiveUp
<1>5. Crowded'
  BY <1>1 DEF IInv, Crowded, GiveUp, Full
<1> QED  BY <1>2, <1>3, <1>4, <1>5 DEF IInv

LEMMA AddKeeps == ASSUME IInv, NEW item \in Item, Add(item) PROVE IInv'
<1>1. FilterTypeOK'
  BY Sizes DEF IInv, FilterTypeOK, Add
<1>2. SlotsCounted'
  BY DEF IInv, SlotsCounted, Add
<1>3. Alone'
  BY DEF Alone, Add
<1>4. Crowded'
  BY Fields DEF Crowded, Add
<1> QED  BY <1>1, <1>2, <1>3, <1>4 DEF IInv

LEMMA DeleteFromTableKeeps == ASSUME IInv, NEW item \in Item, DeleteFromTable(item) PROVE IInv'
<1>1. PICK p \in Position :
        /\ table[p] = item.tag /\ Writes(table, table', p, Empty)
        /\ num_items' = num_items - 1 /\ victim' = Unused
        /\ adding' = IF victim.used THEN Adding(victim.item, 0) ELSE NotAdding
  BY DeleteEffect DEF IInv
<1>2. table \in Tables /\ table[p] # Empty
  BY <1>1, AltType DEF IInv, FilterTypeOK, Tables
<1>3. /\ table' \in Tables /\ Cardinality(Occupied(table)) \in Nat
      /\ Cardinality(Occupied(table')) = Cardinality(Occupied(table)) - 1
  <2>1. table' \in Tables /\ Cardinality(Occupied(table)) \in Nat
    BY <1>1, <1>2, Written
  <2>2. Cardinality(Occupied(table')) =
          Cardinality(Occupied(table)) + One(Empty # Empty) - One(table[p] # Empty)
    BY <1>1, <1>2, Counted
  <2> QED  BY <1>2, <2>1, <2>2 DEF One
<1>4. num_items' \in Nat
  BY <1>1, <1>3, OccupiedFinite DEF IInv, SlotsCounted
<1>5. FilterTypeOK'
  BY <1>1, <1>3, <1>4, VictimType, Sizes DEF IInv, FilterTypeOK, Tables
<1>6. SlotsCounted'
  BY <1>1, <1>3 DEF IInv, SlotsCounted
<1>7. Alone' /\ Crowded'
  BY <1>1, NothingBusy, Fields DEF Alone, Crowded
<1> QED  BY <1>5, <1>6, <1>7 DEF IInv

LEMMA DeleteVictimKeeps == ASSUME IInv, NEW item \in Item, DeleteVictim(item) PROVE IInv'
<1>1. FilterTypeOK'
  BY DEF IInv, FilterTypeOK, DeleteVictim
<1>2. SlotsCounted'
  BY DEF IInv, SlotsCounted, DeleteVictim
<1>3. Alone' /\ Crowded'
  BY NothingBusy DEF IInv, Alone, Crowded, DeleteVictim
<1> QED  BY <1>1, <1>2, <1>3 DEF IInv

LEMMA NextIInv == IInv /\ [FilterNext]_filterVars => IInv'
<1> SUFFICES ASSUME IInv, [FilterNext]_filterVars PROVE IInv'
  OBVIOUS
<1>1. CASE AddImpl
  BY <1>1, InsertKeeps, TryAlternateKeeps, KickKeeps, GiveUpKeeps DEF AddImpl
<1>2. ASSUME NEW item \in Item, Add(item) \/ Delete(item) PROVE IInv'
  BY <1>2, AddKeeps, DeleteFromTableKeeps, DeleteVictimKeeps DEF Delete
<1>3. CASE UNCHANGED filterVars
  BY <1>3 DEF filterVars, IInv, FilterTypeOK, SlotsCounted, Alone, Crowded, Full
<1> QED  BY <1>1, <1>2, <1>3 DEF FilterNext

LEMMA SpecIInv == FilterSpec => []IInv
BY InitIInv, NextIInv, PTL DEF FilterSpec

\* The filter's variables keep their types; num_items never falls below zero.
THEOREM TypeCorrect == FilterSpec => []FilterTypeOK
BY SpecIInv, PTL DEF IInv

\* num_items is the number of slots in use.
THEOREM SlotsAreCounted == FilterSpec => []SlotsCounted
BY SpecIInv, PTL DEF IInv

\* While Add refuses items some bucket is full.
THEOREM RefusalMeansCrowded == FilterSpec => []RefusesOnlyWhenCrowded
<1>1. IInv => RefusesOnlyWhenCrowded
  BY DEF IInv, Crowded, RefusesOnlyWhenCrowded
<1> QED  BY <1>1, SpecIInv, PTL
-----------------------------------------------------------------------------
(* Classes *)

Tagged(i, tag) == [index |-> i, tag |-> tag]

\* The positions of a table that hold an item of class c.
Of(f, c) == {p \in Occupied(f) : ClassOf(Tagged(p[1], f[p])) = c}

LEMMA OfTable == \A c : InTable(c) = Of(table, c)
BY DEF InTable, Of, At, Tagged

\* An item has its class in either of its two buckets, and only there.
LEMMA HomeClass ==
    ASSUME NEW item \in Item, NEW i \in Bucket
    PROVE  ClassOf(Tagged(i, item.tag)) = ClassOf(item) <=> i \in {item.index, Alt(item)}
<1>1. Tagged(i, item.tag) \in Item /\ Alt(Tagged(i, item.tag)) = AltIndex(i, item.tag)
  BY AltType DEF Tagged, Item, Alt
<1>2. AltIndex(Alt(item), item.tag) = item.index /\ Alt(item) = AltIndex(item.index, item.tag)
  BY AltAssumption DEF Item, Alt
<1>3. /\ ClassOf(Tagged(i, item.tag)) = [tag |-> item.tag, homes |-> {i, AltIndex(i, item.tag)}]
      /\ ClassOf(item) = [tag |-> item.tag, homes |-> {item.index, Alt(item)}]
  BY <1>1 DEF ClassOf, Tagged
<1>4. CASE i \in {item.index, Alt(item)}
  BY <1>2, <1>3, <1>4
<1>5. CASE i \notin {item.index, Alt(item)}
  BY <1>3, <1>5
<1> QED  BY <1>4, <1>5

LEMMA MovedClass ==
    ASSUME NEW item \in Item
    PROVE  ClassOf(Moved(item)) = ClassOf(item)
<1>1. Moved(item) = Tagged(Alt(item), item.tag)
  BY DEF Moved, Tagged, Item
<1> QED  BY <1>1, AltType, HomeClass

\* Writing a slot moves one item out of a class and one into a class.
LEMMA ClassCounted ==
    ASSUME NEW f \in Tables, NEW p \in Position, NEW t \in Tag \cup {Empty},
           NEW g, Writes(f, g, p, t), NEW c
    PROVE  /\ Cardinality(Of(f, c)) \in Nat
           /\ Cardinality(Of(g, c)) =
                Cardinality(Of(f, c)) + One(t # Empty /\ ClassOf(Tagged(p[1], t)) = c)
                  - One(f[p] # Empty /\ ClassOf(Tagged(p[1], f[p])) = c)
<1> DEFINE in == t # Empty /\ ClassOf(Tagged(p[1], t)) = c
           out == f[p] # Empty /\ ClassOf(Tagged(p[1], f[p])) = c
<1>1. IsFiniteSet(Of(f, c)) /\ Cardinality(Of(f, c)) \in Nat
  BY OccupiedFinite, FS_Subset, FS_CardinalityType DEF Of
<1>2. p \in Of(f, c) <=> out
  BY DEF Of, Occupied
<1>3. g[p] = t /\ \A q \in Position : q # p => g[q] = f[q]
  BY Written
<1>4. CASE in
  <2>1. Of(g, c) = Of(f, c) \cup {p}
    BY <1>3, <1>4 DEF Of, Occupied
  <2>2. Cardinality(Of(f, c) \cup {p}) =
          IF p \in Of(f, c) THEN Cardinality(Of(f, c)) ELSE Cardinality(Of(f, c)) + 1
    BY <1>1, FS_AddElement
  <2> HIDE DEF in, out
  <2>3. Cardinality(Of(g, c)) = Cardinality(Of(f, c)) + One(in) - One(out)
    BY <1>1, <1>2, <1>4, <2>1, <2>2 DEF One
  <2> QED  BY <1>1, <2>3 DEF in, out
<1>5. CASE ~in
  <2>1. Of(g, c) = Of(f, c) \ {p}
    BY <1>3, <1>5 DEF Of, Occupied
  <2>2. Cardinality(Of(f, c) \ {p}) =
          IF p \in Of(f, c) THEN Cardinality(Of(f, c)) - 1 ELSE Cardinality(Of(f, c))
    BY <1>1, FS_RemoveElement
  <2> HIDE DEF in, out
  <2>3. Cardinality(Of(g, c)) = Cardinality(Of(f, c)) + One(in) - One(out)
    BY <1>1, <1>2, <1>5, <2>1, <2>2 DEF One
  <2> QED  BY <1>1, <2>3 DEF in, out
<1> QED  BY <1>4, <1>5

-----------------------------------------------------------------------------
(* Lookup *)

LEMMA ContainIsHeld ==
    ASSUME FilterTypeOK, ~adding.busy, NEW item \in Item
    PROVE  Contain(table, victim, item) <=> Held(ClassOf(item)) > 0
<1> DEFINE c == ClassOf(item)
<1>1. table \in Tables
  BY DEF FilterTypeOK, Tables
<1>2. IsFiniteSet(Of(table, c)) /\ Cardinality(Of(table, c)) \in Nat
  BY <1>1, OccupiedFinite, FS_Subset, FS_CardinalityType DEF Of
<1>3. Of(table, c) # {} <=> FindTagInBuckets(table, item.index, Alt(item), item.tag)
  <2>1. ASSUME NEW p \in Of(table, c)
        PROVE  FindTagInBuckets(table, item.index, Alt(item), item.tag)
    <3>1. /\ p \in Position /\ p = <<p[1], p[2]>> /\ p[1] \in Bucket /\ p[2] \in Slot
          /\ ClassOf(Tagged(p[1], table[p])) = ClassOf(item)
      BY DEF Of, Occupied, Position
    <3>2. table[p] = item.tag
      BY <3>1 DEF ClassOf, Tagged
    <3>3. p[1] \in {item.index, Alt(item)}
      BY <3>1, <3>2, HomeClass
    <3> QED  BY <3>1, <3>2, <3>3 DEF FindTagInBuckets, Holds
  <2>2. ASSUME NEW i \in {item.index, Alt(item)}, Holds(table, i, item.tag)
        PROVE  Of(table, c) # {}
    <3>1. PICK j \in Slot : table[<<i, j>>] = item.tag
      BY <2>2 DEF Holds
    <3>2. i \in Bucket /\ item.tag # Empty
      BY <2>2, AltType
    <3>3. ClassOf(Tagged(i, item.tag)) = c
      BY <2>2, <3>2, HomeClass
    <3>4. <<i, j>> \in Of(table, c)
      BY <3>1, <3>2, <3>3 DEF Of, Occupied, Position
    <3> QED  BY <3>4
  <2> QED  BY <2>1, <2>2 DEF FindTagInBuckets
<1>4. IsVictim(victim, item) <=> victim.used /\ ClassOf(victim.item) = c
  <2>1. CASE victim.used
    <3>1. victim.item \in Item /\ victim.item.index \in Bucket
      BY <2>1, VictimType, AltType
    <3>2. victim.item = Tagged(victim.item.index, victim.item.tag)
      BY <3>1 DEF Item, Tagged
    <3>3. ClassOf(victim.item) = c => victim.item.tag = item.tag
      BY DEF ClassOf
    <3>4. victim.item.tag = item.tag =>
            (ClassOf(victim.item) = c <=> victim.item.index \in {item.index, Alt(item)})
      BY <3>1, <3>2, HomeClass
    <3> QED  BY <2>1, <3>3, <3>4 DEF IsVictim
  <2>2. CASE ~victim.used
    BY <2>2 DEF IsVictim
  <2> QED  BY <2>1, <2>2
<1>5. Cardinality(Of(table, c)) > 0 <=> Of(table, c) # {}
  BY <1>2, FS_EmptySet
<1>6. Held(c) = Cardinality(Of(table, c)) + One(victim.used /\ ClassOf(victim.item) = c)
  BY <1>2, OfTable DEF Held, One
<1> HIDE DEF c
<1>7. Held(c) > 0 <=>
        Cardinality(Of(table, c)) > 0 \/ (victim.used /\ ClassOf(victim.item) = c)
  BY <1>2, <1>6 DEF One
<1> QED  BY <1>3, <1>4, <1>5, <1>7 DEF Contain, c

\* Contain answers Ok for exactly the classes the filter holds, for every
\* filter: no stored item is missed, wherever it was moved.
THEOREM ContainIsExact == FilterSpec => []ContainExact
<1>1. IInv => ContainExact
  BY ContainIsHeld DEF IInv, ContainExact
<1> QED  BY <1>1, SpecIInv, PTL
-----------------------------------------------------------------------------
(* The bag of fingerprints: how many items of each class a step adds *)

LEMMA HeldParts ==
    ASSUME FilterTypeOK, NEW c
    PROVE  /\ table \in Tables /\ Cardinality(Of(table, c)) \in Nat
           /\ Held(c) = Cardinality(Of(table, c))
                          + One(adding.busy /\ ClassOf(adding.item) = c)
                          + One(victim.used /\ ClassOf(victim.item) = c)
           /\ Held(c) \in Nat
<1>1. table \in Tables
  BY DEF FilterTypeOK, Tables
<1>2. Cardinality(Of(table, c)) \in Nat
  BY <1>1, OccupiedFinite, FS_Subset, FS_CardinalityType DEF Of
<1> QED  BY <1>1, <1>2, OfTable DEF Held, One

LEMMA HeldPrime ==
    ASSUME TRUE
    PROVE  \A c : Held(c)' = Cardinality(Of(table', c))
                          + One(adding'.busy /\ ClassOf(adding'.item) = c)
                          + One(victim'.used /\ ClassOf(victim'.item) = c)
BY DEF Held, InTable, Of, At, Tagged

\* The tag in hand is put into the table.
LEMMA InsertHeld == ASSUME IInv, Insert, NEW c PROVE Held(c)' = Held(c)
<1>1. PICK p \in Position :
        /\ p[1] = adding.item.index /\ table[p] = Empty
        /\ Writes(table, table', p, adding.item.tag)
        /\ adding.busy /\ adding' = NotAdding /\ victim' = victim
  BY InsertEffect DEF IInv
<1>2. /\ table \in Tables /\ adding.item \in Item
      /\ adding.item.tag \in Tag /\ adding.item.tag # Empty
  BY <1>1, AddingType, AltType, HeldParts DEF IInv
<1>3. Tagged(p[1], adding.item.tag) = adding.item
  BY <1>1, <1>2 DEF Tagged, Item
<1>4. /\ Cardinality(Of(table, c)) \in Nat
      /\ Cardinality(Of(table', c)) = Cardinality(Of(table, c))
           + One(adding.item.tag # Empty /\ ClassOf(Tagged(p[1], adding.item.tag)) = c)
           - One(table[p] # Empty /\ ClassOf(Tagged(p[1], table[p])) = c)
  BY <1>1, <1>2, ClassCounted
<1>5. Held(c)' = Cardinality(Of(table', c)) + One(victim.used /\ ClassOf(victim.item) = c)
  BY <1>1, <1>4, HeldPrime, NothingBusy DEF One
<1>6. Held(c) = Cardinality(Of(table, c)) + One(ClassOf(adding.item) = c)
                  + One(victim.used /\ ClassOf(victim.item) = c)
  BY <1>1, HeldParts DEF IInv
<1> QED  BY <1>1, <1>2, <1>3, <1>4, <1>5, <1>6 DEF One

\* It waits for its other bucket.
LEMMA TryAlternateHeld == ASSUME IInv, TryAlternate, NEW c PROVE Held(c)' = Held(c)
<1>1. adding.busy /\ adding.item \in Item
  BY AddingType DEF IInv, TryAlternate, Round
<1>2. ClassOf(Moved(adding.item)) = ClassOf(adding.item)
  BY <1>1, MovedClass
<1> QED  BY <1>1, <1>2, HeldPrime, HeldParts, Fields DEF IInv, TryAlternate

\* It takes the place of another tag, which is then in hand.
LEMMA KickHeld == ASSUME IInv, Kick, NEW c PROVE Held(c)' = Held(c)
<1>1. PICK p \in Position :
        /\ p[1] = adding.item.index /\ table[p] \in Tag
        /\ Writes(table, table', p, adding.item.tag)
        /\ adding.busy /\ adding' = Adding(Moved(At(p)), adding.count + 1)
        /\ victim' = victim
  BY KickEffect DEF IInv
<1>2. /\ table \in Tables /\ adding.item \in Item /\ p[1] \in Bucket
      /\ adding.item.tag \in Tag /\ adding.item.tag # Empty /\ table[p] # Empty
  BY <1>1, AddingType, AltType, HeldParts, TagAssumption DEF IInv
<1>3. Tagged(p[1], adding.item.tag) = adding.item /\ Tagged(p[1], table[p]) = At(p)
  BY <1>1, <1>2 DEF Tagged, Item, At
<1>4. ClassOf(Moved(At(p))) = ClassOf(At(p))
  BY <1>1, <1>2, MovedClass DEF At, Item
<1>5. /\ Cardinality(Of(table, c)) \in Nat
      /\ Cardinality(Of(table', c)) = Cardinality(Of(table, c))
           + One(adding.item.tag # Empty /\ ClassOf(Tagged(p[1], adding.item.tag)) = c)
           - One(table[p] # Empty /\ ClassOf(Tagged(p[1], table[p])) = c)
  BY <1>1, <1>2, ClassCounted
<1>6. Held(c)' = Cardinality(Of(table', c)) + One(ClassOf(Moved(At(p))) = c)
                   + One(victim.used /\ ClassOf(victim.item) = c)
  BY <1>1, HeldPrime, Fields
<1>7. Held(c) = Cardinality(Of(table, c)) + One(ClassOf(adding.item) = c)
                  + One(victim.used /\ ClassOf(victim.item) = c)
  BY <1>1, HeldParts DEF IInv
<1> QED  BY <1>2, <1>3, <1>4, <1>5, <1>6, <1>7 DEF One

\* It becomes the victim.
LEMMA GiveUpHeld == ASSUME IInv, GiveUp, NEW c PROVE Held(c)' = Held(c)
<1>1. adding.busy /\ ~victim.used /\ victim' = Victim(adding.item)
      /\ adding' = NotAdding /\ table' = table
  BY DEF IInv, Alone, GiveUp
<1>2. Held(c)' = Cardinality(Of(table, c)) + One(ClassOf(adding.item) = c)
  <2>1. One(adding'.busy /\ ClassOf(adding'.item) = c) = 0
    BY <1>1, NothingBusy DEF One
  <2>2. One(victim'.used /\ ClassOf(victim'.item) = c) = One(ClassOf(adding.item) = c)
    BY <1>1, Fields
  <2> QED  BY <1>1, <2>1, <2>2, HeldPrime, HeldParts DEF IInv, One
<1>3. Held(c) = Cardinality(Of(table, c)) + One(ClassOf(adding.item) = c)
  BY <1>1, HeldParts DEF IInv, One
<1> QED  BY <1>2, <1>3

\* Add takes an item in hand.
LEMMA AddHeld ==
    ASSUME IInv, NEW item \in Item, Add(item), NEW c
    PROVE  Held(c)' = Held(c) + One(ClassOf(item) = c)
<1>1. /\ ~adding.busy /\ adding' = Adding(item, 0) /\ table' = table /\ victim' = victim
  BY DEF Add
<1>2. Held(c)' = Cardinality(Of(table, c)) + One(ClassOf(item) = c)
                   + One(victim.used /\ ClassOf(victim.item) = c)
  BY <1>1, HeldPrime, Fields
<1>3. /\ Held(c) = Cardinality(Of(table, c)) + One(victim.used /\ ClassOf(victim.item) = c)
      /\ Cardinality(Of(table, c)) \in Nat
  BY <1>1, HeldParts DEF IInv, One
<1> QED  BY <1>2, <1>3 DEF One

\* Delete empties a slot of the item's class; a victim is in hand again.
LEMMA DeleteFromTableHeld ==
    ASSUME IInv, NEW item \in Item, DeleteFromTable(item), NEW c
    PROVE  Held(c)' = Held(c) - One(ClassOf(item) = c)
<1>1. PICK p \in Position :
        /\ p[1] \in {item.index, Alt(item)} /\ table[p] = item.tag
        /\ Writes(table, table', p, Empty)
        /\ ~adding.busy /\ victim' = Unused
        /\ adding' = IF victim.used THEN Adding(victim.item, 0) ELSE NotAdding
  BY DeleteEffect DEF IInv
<1>2. table \in Tables /\ item.tag # Empty /\ p[1] \in Bucket
  BY AltType, HeldParts DEF IInv, Position
<1>3. ClassOf(Tagged(p[1], table[p])) = ClassOf(item)
  BY <1>1, <1>2, HomeClass
<1>4. /\ Cardinality(Of(table, c)) \in Nat
      /\ Cardinality(Of(table', c)) = Cardinality(Of(table, c))
           + One(Empty # Empty /\ ClassOf(Tagged(p[1], Empty)) = c)
           - One(table[p] # Empty /\ ClassOf(Tagged(p[1], table[p])) = c)
  BY <1>1, <1>2, ClassCounted
<1>5. Held(c)' = Cardinality(Of(table', c)) + One(victim.used /\ ClassOf(victim.item) = c)
  <2>1. One(victim'.used /\ ClassOf(victim'.item) = c) = 0
    BY <1>1, NothingBusy DEF One
  <2>2. One(adding'.busy /\ ClassOf(adding'.item) = c)
          = One(victim.used /\ ClassOf(victim.item) = c)
    BY <1>1, NothingBusy, Fields DEF One
  <2>3. Cardinality(Of(table', c)) \in Int
    BY <1>4 DEF One
  <2> QED  BY <2>1, <2>2, <2>3, HeldPrime DEF One
<1>6. Held(c) = Cardinality(Of(table, c)) + One(victim.used /\ ClassOf(victim.item) = c)
  BY <1>1, HeldParts DEF IInv, One
<1> QED  BY <1>1, <1>2, <1>3, <1>4, <1>5, <1>6 DEF One

\* Or it drops the victim.
LEMMA DeleteVictimHeld ==
    ASSUME IInv, NEW item \in Item, DeleteVictim(item), NEW c
    PROVE  Held(c)' = Held(c) - One(ClassOf(item) = c)
<1>1. /\ ~adding.busy /\ victim.used /\ victim' = Unused /\ adding' = adding /\ table' = table
      /\ victim.item.tag = item.tag /\ victim.item.index \in {item.index, Alt(item)}
  BY DEF DeleteVictim, IsVictim
<1>2. victim.item = Tagged(victim.item.index, item.tag) /\ victim.item.index \in Bucket
  BY <1>1, VictimType, AltType DEF IInv, Item, Tagged
<1>3. ClassOf(victim.item) = ClassOf(item)
  BY <1>1, <1>2, HomeClass
<1>4. Held(c)' = Cardinality(Of(table, c))
  BY <1>1, HeldPrime, HeldParts, NothingBusy DEF IInv, One
<1>5. /\ Held(c) = Cardinality(Of(table, c)) + One(ClassOf(item) = c)
      /\ Cardinality(Of(table, c)) \in Nat
  BY <1>1, <1>3, HeldParts DEF IInv, One
<1> QED  BY <1>4, <1>5 DEF One

-----------------------------------------------------------------------------
(* The refinement *)

LEMMA InitBag == FilterInit => Bag!Init
<1> SUFFICES ASSUME FilterInit, NEW c \in Class PROVE Held(c) = 0
  BY DEF Bag!Init
<1>1. Occupied(table) = {} /\ ~adding.busy /\ ~victim.used
  BY NothingBusy DEF FilterInit, Occupied
<1>2. Cardinality(InTable(c)) = 0
  BY <1>1, FS_EmptySet DEF InTable
<1> QED  BY <1>1, <1>2 DEF Held, One

LEMMA NextBag ==
    ASSUME IInv, [FilterNext]_filterVars
    PROVE  [Bag!Next]_([c \in Class |-> Held(c)])
<1> DEFINE bag == [c \in Class |-> Held(c)]
<1>1. \A c : Held(c) \in Nat
  BY HeldParts DEF IInv
<1>2. CASE \A c \in Class : Held(c)' = Held(c)
  BY <1>2
<1>3. ASSUME NEW item \in Item, Add(item) PROVE Bag!Next
  <2> DEFINE d == ClassOf(item)
  <2>1. d \in Class
    BY DEF Class
  <2>2. \A c \in Class : Held(c)' = IF c = d THEN Held(c) + 1 ELSE Held(c)
    BY <1>1, <1>3, AddHeld DEF One
  <2> HIDE DEF d
  <2>3. bag' = [bag EXCEPT ![d] = bag[d] + 1]
    BY <2>1, <2>2
  <2> QED  BY <2>1, <2>3 DEF Bag!Next, Bag!Add
<1>4. ASSUME NEW item \in Item, Delete(item) PROVE Bag!Next
  <2> DEFINE d == ClassOf(item)
  <2>1. d \in Class
    BY DEF Class
  <2>2. \A c \in Class : Held(c)' = IF c = d THEN Held(c) - 1 ELSE Held(c)
    BY <1>1, <1>4, DeleteFromTableHeld, DeleteVictimHeld DEF One, Delete
  <2>3. Contain(table, victim, item) /\ ~adding.busy
    BY <1>4 DEF Delete, DeleteFromTable, DeleteVictim, Contain
  <2>4. Held(d) > 0
    BY <2>3, ContainIsHeld DEF IInv
  <2> HIDE DEF d
  <2>5. bag' = [bag EXCEPT ![d] = bag[d] - 1]
    BY <2>1, <2>2
  <2> QED  BY <2>1, <2>4, <2>5 DEF Bag!Next, Bag!Delete
<1>5. CASE AddImpl
  <2>1. \A c \in Class : Held(c)' = Held(c)
    BY <1>5, InsertHeld, TryAlternateHeld, KickHeld, GiveUpHeld DEF AddImpl
  <2> QED  BY <1>2, <2>1
<1>6. CASE UNCHANGED filterVars
  <2>1. \A c \in Class : Held(c)' = Held(c)
    BY <1>6 DEF filterVars, Held, InTable, Occupied, At
  <2> QED  BY <1>2, <2>1
<1> QED  BY <1>3, <1>4, <1>5, <1>6 DEF FilterNext

\* For every filter, whatever is kicked around: the filter implements the bag of
\* what was added and not deleted again.
THEOREM FilterImplementsBag == FilterSpec => ImplementsBag
<1>1. IInv /\ [FilterNext]_filterVars => [Bag!Next]_([c \in Class |-> Held(c)])
  BY NextBag
<1> QED  BY <1>1, InitBag, SpecIInv, PTL DEF FilterSpec, ImplementsBag, Bag!Spec

-----------------------------------------------------------------------------
(* The group: arithmetic modulo its order *)

LEMMA OrderType ==
    /\ Order \in Nat /\ Order > 1 /\ Order \in Nat \ {0} /\ Code = 0 .. Order - 1
    /\ ElementBits \in Nat \ {0} /\ KeyBits \in Nat
    /\ 2^ElementBits \in Nat \ {0} /\ 2^ElementBits <= Order
    /\ 2^KeyBits \in Nat \ {0} /\ Order <= 2^KeyBits
<1>1. ElementBits \in Nat \ {0} /\ KeyBits \in Nat /\ Order \in 2^ElementBits .. 2^KeyBits
  BY PSIAssumption
<1>2. 2^ElementBits \in Nat \ {0} /\ 2^KeyBits \in Nat \ {0}
  BY <1>1, PowerOfTwo
<1>3. a0 \in Code \ {0}
  BY PSIAssumption
<1> QED  BY <1>1, <1>2, <1>3 DEF Code

LEMMA Reduced ==
    ASSUME NEW x \in Int
    PROVE  x % Order \in Code /\ x % Order \in Nat
<1>1. PICK n \in Nat \ {0} : n = Order /\ Code = 0 .. n - 1
  BY OrderType
<1>2. x % n \in 0 .. n - 1
  BY Division
<1> QED  BY <1>1, <1>2

LEMMA TimesType ==
    ASSUME NEW x \in Int, NEW y \in Int
    PROVE  Times(x, y) \in Code /\ Times(x, y) \in Nat
<1>1. PICK p \in Int : p = x * y
  OBVIOUS
<1> QED  BY <1>1, Reduced DEF Times

LEMMA TimesCommutes ==
    ASSUME NEW x \in Int, NEW y \in Int
    PROVE  Times(x, y) = Times(y, x)
<1>1. x * y = y * x
  OBVIOUS
<1> QED  BY <1>1 DEF Times

LEMMA TimesRemainder ==
    ASSUME NEW x \in Int, NEW y \in Int
    PROVE  /\ Times(x % Order, y) = Times(x, y)
           /\ Times(y, x % Order) = Times(y, x)
<1>1. PICK r \in Int : r = x % Order
  BY Reduced
<1>2. ((x % Order) * y) % Order = (x * y) % Order
  BY OrderType, RemainderTimes
<1>3. Times(r, y) = Times(x, y)
  BY <1>1, <1>2 DEF Times
<1>4. Times(y, r) = Times(r, y) /\ Times(y, x) = Times(x, y)
  BY TimesCommutes
<1> QED  BY <1>1, <1>3, <1>4

LEMMA TimesAssociates ==
    ASSUME NEW x \in Int, NEW y \in Int, NEW z \in Int
    PROVE  Times(Times(x, y), z) = Times(x, Times(y, z))
<1>1. PICK u \in Int, v \in Int : u = x * y /\ v = y * z
  OBVIOUS
<1>2. Times(u % Order, z) = Times(u, z) /\ Times(x, v % Order) = Times(x, v)
  BY TimesRemainder
<1>3. u * z = x * v
  <2>1. (x * y) * z = x * (y * z)
    OBVIOUS
  <2> QED  BY <1>1, <2>1
<1>4. Times(u, z) = Times(x, v)
  BY <1>3 DEF Times
<1>5. Times(x, y) = u % Order /\ Times(y, z) = v % Order
  BY <1>1 DEF Times
<1> QED  BY <1>2, <1>4, <1>5

LEMMA TimesOne ==
    ASSUME NEW x \in Int
    PROVE  Times(1, x) = x % Order /\ Times(x, 1) = x % Order
<1>1. 1 * x = x /\ x * 1 = x
  OBVIOUS
<1> QED  BY <1>1 DEF Times

LEMMA CodeReduced == ASSUME NEW x \in Code PROVE x \in Int /\ x % Order = x
BY OrderType

\* Four factors, two at a time.
LEMMA TimesTwoPairs ==
    ASSUME NEW x \in Int, NEW y \in Int, NEW u \in Int, NEW v \in Int
    PROVE  Times(Times(x, y), Times(u, v)) = Times(Times(x, u), Times(y, v))
<1>1. PICK uv \in Int, yuv \in Int, yv \in Int, yu \in Int :
        uv = Times(u, v) /\ yuv = Times(y, Times(u, v)) /\ yv = Times(y, v) /\ yu = Times(y, u)
  <2>1. Times(u, v) \in Int /\ Times(y, v) \in Int /\ Times(y, u) \in Int
    BY TimesType
  <2>2. Times(y, Times(u, v)) \in Int
    BY <2>1, TimesType
  <2> QED  BY <2>1, <2>2
<1>2. Times(Times(x, y), uv) = Times(x, yuv)
  BY <1>1, TimesAssociates
<1>3. yuv = Times(yu, v)
  BY <1>1, TimesAssociates
<1>4. yu = Times(u, y)
  BY <1>1, TimesCommutes
<1>5. Times(Times(u, y), v) = Times(u, yv)
  BY <1>1, TimesAssociates
<1>6. Times(x, Times(u, yv)) = Times(Times(x, u), yv)
  BY TimesAssociates
<1> QED  BY <1>1, <1>2, <1>3, <1>4, <1>5, <1>6

\* What is not 0 has a reciprocal, so that a product of such numbers is not 0.
LEMMA ReciprocalExists ==
    ASSUME NEW x \in Code \ {0}
    PROVE  Reciprocal(x) \in Code /\ Times(x, Reciprocal(x)) = 1
BY OrderAssumption DEF Reciprocal

LEMMA TimesNotZero ==
    ASSUME NEW x \in Code \ {0}, NEW y \in Int, y % Order # 0
    PROVE  Times(x, y) \in Code \ {0}
<1>1. PICK z \in Int : Times(z, x) = 1
  <2>1. Reciprocal(x) \in Code /\ Times(x, Reciprocal(x)) = 1
    BY ReciprocalExists
  <2>2. Reciprocal(x) \in Int /\ x \in Int
    BY <2>1, CodeReduced
  <2> QED  BY <2>1, <2>2, TimesCommutes
<1>2. x \in Int
  BY CodeReduced
<1>3. Times(z, Times(x, y)) = Times(1, y)
  BY <1>1, <1>2, TimesAssociates
<1>4. Times(1, y) # 0
  BY TimesOne
<1>5. Times(z, 0) = 0
  <2>1. z * 0 = 0 /\ 0 % Order = 0
    BY OrderType
  <2> QED  BY <2>1 DEF Times
<1> QED  BY <1>2, <1>3, <1>4, <1>5, TimesType

\* The recursion in Product, one factor at a time.
Upto(upTo, f) ==
    upTo = [n \in 0 .. ElementBits |-> IF n = 0 THEN 1 ELSE Times(upTo[n-1], f[n-1])]

LEMMA ProductSteps ==
    ASSUME NEW f, \A j \in Positions : f[j] \in Int
    PROVE  \E h \in [0 .. ElementBits -> Nat] :
              /\ Product(f) = h[ElementBits] /\ h[0] = 1
              /\ \A n \in 1 .. ElementBits : h[n] = Times(h[n-1], f[n-1])
<1>1. \A n \in 1 .. ElementBits : n - 1 \in Positions /\ n - 1 \in 0 .. ElementBits /\ n # 0
  BY OrderType DEF Positions
<1>2. PICK step : step = [n \in 1 .. ElementBits |-> [v \in Nat |-> Times(v, f[n-1])]]
  OBVIOUS
<1>3. \A n \in 1 .. ElementBits, v \in Nat : Times(v, f[n-1]) \in Nat
  <2> SUFFICES ASSUME NEW n \in 1 .. ElementBits, NEW v \in Nat
               PROVE  Times(v, f[n-1]) \in Nat
    OBVIOUS
  <2>1. v \in Int /\ f[n-1] \in Int
    BY <1>1
  <2> QED  BY <2>1, TimesType
<1>4. step \in [1 .. ElementBits -> [Nat -> Nat]]
  BY <1>2, <1>3
<1>5. PICK h \in [0 .. ElementBits -> Nat] :
        h[0] = 1 /\ \A n \in 1 .. ElementBits : h[n] = step[n][h[n-1]]
  <2>1. 1 \in Nat /\ ElementBits \in Nat
    BY OrderType
  <2>2. PICK V, m, b : V = Nat /\ m = ElementBits /\ b = 1
    OBVIOUS
  <2>3. b \in V /\ m \in Nat /\ step \in [1 .. m -> [V -> V]]
    BY <1>4, <2>1, <2>2
  <2>4. Recursive(V, b, m, step)
    BY ONLY <2>3, Recursion
  <2> QED  BY ONLY <2>2, <2>4 DEF Recursive
<1>6. \A n \in 1 .. ElementBits : h[n-1] \in Nat
  BY <1>1
<1>7. \A n \in 1 .. ElementBits : h[n] = Times(h[n-1], f[n-1])
  BY <1>2, <1>5, <1>6
<1>8. Upto(h, f)
  <2>1. \A n \in 0 .. ElementBits : h[n] = IF n = 0 THEN 1 ELSE Times(h[n-1], f[n-1])
    BY <1>5, <1>7, OrderType
  <2>2. h = [n \in 0 .. ElementBits |-> h[n]]
    OBVIOUS
  <2> QED  BY <2>1, <2>2 DEF Upto
<1>9. PICK g : g = CHOOSE upTo : Upto(upTo, f)
  OBVIOUS
<1>10. Upto(g, f)
  BY <1>8, <1>9
<1>11. Product(f) = g[ElementBits]
  BY <1>9 DEF Product, Upto
<1> DEFINE S == {n \in Nat : n <= ElementBits => g[n] = h[n]}
<1>12. 0 \in S
  BY <1>5, <1>10, OrderType DEF Upto
<1>13. ASSUME NEW n \in Nat, n \in S PROVE n + 1 \in S
  <2> SUFFICES ASSUME n + 1 <= ElementBits PROVE g[n + 1] = h[n + 1]
    OBVIOUS
  <2>1. g[n] = h[n] /\ n + 1 \in 1 .. ElementBits /\ n + 1 \in 0 .. ElementBits
        /\ (n + 1) - 1 = n /\ n + 1 # 0
    BY <1>13, OrderType
  <2>2. g[n + 1] = Times(g[(n + 1) - 1], f[(n + 1) - 1])
    BY <1>10, <2>1 DEF Upto
  <2> QED  BY <1>7, <2>1, <2>2
<1>14. ElementBits \in S
  <2> HIDE DEF S
  <2>1. \A n \in Nat : n \in S
    BY ONLY <1>12, <1>13, Induction
  <2> QED  BY <2>1, OrderType
<1>15. Product(f) = h[ElementBits]
  BY ONLY <1>11, <1>14, OrderType
<1> QED  BY ONLY <1>5, <1>7, <1>15, h \in [0 .. ElementBits -> Nat]

LEMMA ProductType ==
    ASSUME NEW f, \A j \in Positions : f[j] \in Int
    PROVE  Product(f) \in Code /\ Product(f) \in Int
<1>1. PICK h \in [0 .. ElementBits -> Nat] :
        /\ Product(f) = h[ElementBits] /\ h[0] = 1
        /\ \A n \in 1 .. ElementBits : h[n] = Times(h[n-1], f[n-1])
  BY ProductSteps
<1>2. ElementBits \in 1 .. ElementBits /\ ElementBits - 1 \in Positions
      /\ ElementBits - 1 \in 0 .. ElementBits
  BY OrderType DEF Positions
<1>3. Product(f) = Times(h[ElementBits - 1], f[ElementBits - 1])
  BY <1>1, <1>2
<1>4. h[ElementBits - 1] \in Int /\ f[ElementBits - 1] \in Int
  BY <1>2
<1>5. Product(f) \in Code
  BY <1>3, <1>4, TimesType
<1> QED  BY <1>5, CodeReduced

LEMMA SameFactors ==
    ASSUME NEW f, NEW g, \A j \in Positions : f[j] \in Int /\ g[j] \in Int /\ f[j] % Order = g[j] % Order
    PROVE  Product(f) = Product(g)
<1>1. PICK h \in [0 .. ElementBits -> Nat] :
        /\ Product(f) = h[ElementBits] /\ h[0] = 1
        /\ \A n \in 1 .. ElementBits : h[n] = Times(h[n-1], f[n-1])
  BY ProductSteps
<1>2. PICK k \in [0 .. ElementBits -> Nat] :
        /\ Product(g) = k[ElementBits] /\ k[0] = 1
        /\ \A n \in 1 .. ElementBits : k[n] = Times(k[n-1], g[n-1])
  BY ProductSteps
<1> DEFINE S == {n \in Nat : n <= ElementBits => h[n] = k[n]}
<1>3. 0 \in S
  BY <1>1, <1>2
<1>4. ASSUME NEW n \in Nat, n \in S PROVE n + 1 \in S
  <2> SUFFICES ASSUME n + 1 <= ElementBits PROVE h[n + 1] = k[n + 1]
    OBVIOUS
  <2>1. /\ h[n] = k[n] /\ n + 1 \in 1 .. ElementBits /\ n \in 0 .. ElementBits
        /\ (n + 1) - 1 = n /\ n \in Positions
    BY <1>4, OrderType DEF Positions
  <2>2. h[n + 1] = Times(h[n], f[n]) /\ k[n + 1] = Times(h[n], g[n])
    BY <1>1, <1>2, <2>1
  <2>3. Times(h[n], f[n] % Order) = Times(h[n], f[n]) /\ Times(h[n], g[n] % Order) = Times(h[n], g[n])
    BY <2>1, TimesRemainder
  <2> QED  BY <2>1, <2>2, <2>3
<1>5. ElementBits \in S
  <2> HIDE DEF S
  <2> QED  BY <1>3, <1>4, OrderType, Induction
<1> QED  BY <1>1, <1>2, <1>5, OrderType

\* The product of products.
LEMMA ProductTimes ==
    ASSUME NEW f, NEW g, NEW p,
           \A j \in Positions : f[j] \in Int /\ g[j] \in Int /\ p[j] = Times(f[j], g[j])
    PROVE  Product(p) = Times(Product(f), Product(g))
<1>1. PICK h \in [0 .. ElementBits -> Nat] :
        /\ Product(f) = h[ElementBits] /\ h[0] = 1
        /\ \A n \in 1 .. ElementBits : h[n] = Times(h[n-1], f[n-1])
  BY ProductSteps
<1>2. PICK k \in [0 .. ElementBits -> Nat] :
        /\ Product(g) = k[ElementBits] /\ k[0] = 1
        /\ \A n \in 1 .. ElementBits : k[n] = Times(k[n-1], g[n-1])
  BY ProductSteps
<1>3. \A j \in Positions : p[j] \in Int
  <2> SUFFICES ASSUME NEW j \in Positions PROVE p[j] \in Int
    OBVIOUS
  <2>1. Times(f[j], g[j]) \in Code
    BY TimesType
  <2> QED  BY <2>1, CodeReduced
<1>4. PICK q \in [0 .. ElementBits -> Nat] :
        /\ Product(p) = q[ElementBits] /\ q[0] = 1
        /\ \A n \in 1 .. ElementBits : q[n] = Times(q[n-1], p[n-1])
  BY <1>3, ProductSteps
<1> DEFINE S == {n \in Nat : n <= ElementBits => q[n] = Times(h[n], k[n])}
<1>5. 0 \in S
  <2>1. Times(1, 1) = 1
    <3>1. Times(1, 1) = 1 % Order /\ 1 \in Code
      BY TimesOne, OrderType
    <3> QED  BY <3>1, CodeReduced
  <2> QED  BY <1>1, <1>2, <1>4, <2>1
<1>6. ASSUME NEW n \in Nat, n \in S PROVE n + 1 \in S
  <2> SUFFICES ASSUME n + 1 <= ElementBits PROVE q[n + 1] = Times(h[n + 1], k[n + 1])
    OBVIOUS
  <2>1. /\ q[n] = Times(h[n], k[n]) /\ n + 1 \in 1 .. ElementBits /\ n \in 0 .. ElementBits
        /\ (n + 1) - 1 = n /\ n \in Positions
    BY <1>6, OrderType DEF Positions
  <2>2. /\ h[n + 1] = Times(h[n], f[n]) /\ k[n + 1] = Times(k[n], g[n])
        /\ q[n + 1] = Times(q[n], Times(f[n], g[n]))
    BY <1>1, <1>2, <1>4, <2>1
  <2>3. Times(Times(h[n], k[n]), Times(f[n], g[n])) = Times(Times(h[n], f[n]), Times(k[n], g[n]))
    <3>1. h[n] \in Int /\ k[n] \in Int /\ f[n] \in Int /\ g[n] \in Int
      BY <2>1
    <3> QED  BY <3>1, TimesTwoPairs
  <2> QED  BY <2>1, <2>2, <2>3
<1>7. ElementBits \in S
  <2> HIDE DEF S
  <2> QED  BY <1>5, <1>6, OrderType, Induction
<1> QED  BY <1>1, <1>2, <1>4, <1>7, OrderType

LEMMA ProductNotZero ==
    ASSUME NEW f, \A j \in Positions : f[j] \in Int /\ f[j] % Order # 0
    PROVE  Product(f) \in Code \ {0}
<1>1. PICK h \in [0 .. ElementBits -> Nat] :
        /\ Product(f) = h[ElementBits] /\ h[0] = 1
        /\ \A n \in 1 .. ElementBits : h[n] = Times(h[n-1], f[n-1])
  BY ProductSteps
<1> DEFINE S == {n \in Nat : n <= ElementBits => h[n] \in Code \ {0}}
<1>2. 0 \in S
  BY <1>1, OrderType
<1>3. ASSUME NEW n \in Nat, n \in S PROVE n + 1 \in S
  <2> SUFFICES ASSUME n + 1 <= ElementBits PROVE h[n + 1] \in Code \ {0}
    OBVIOUS
  <2>1. /\ h[n] \in Code \ {0} /\ n + 1 \in 1 .. ElementBits
        /\ (n + 1) - 1 = n /\ n \in Positions
    BY <1>3, OrderType DEF Positions
  <2>2. h[n + 1] = Times(h[n], f[n])
    BY <1>1, <2>1
  <2>3. f[n] \in Int /\ f[n] % Order # 0
    BY <2>1
  <2> QED  BY ONLY <2>1, <2>2, <2>3, TimesNotZero
<1>4. ElementBits \in S
  <2> HIDE DEF S
  <2> QED  BY <1>2, <1>3, OrderType, Induction
<1> QED  BY <1>1, <1>4, OrderType

-----------------------------------------------------------------------------
(* Exclusive or *)

LEMMA BitIsBit == ASSUME NEW x, NEW k PROVE Bit(x, k) = BitOf(x, k)
BY DEF Bit, BitOf

LEMMA XorTwice ==
    ASSUME NEW x \in Exponent, NEW y \in Exponent
    PROVE  Xor(x, Xor(x, y)) = y
<1>1. PICK n \in Nat : n = KeyBits /\ Exponent = 0 .. 2^n - 1
  BY OrderType DEF Exponent
<1>2. ASSUME NEW u, NEW v PROVE Xor(u, v) = BitwiseXor(u, v, n)
  BY <1>1, BitIsBit DEF Xor, BitwiseXor, XorTerms, SumFunction, SumFunctionOnSet, FoldFunction
<1>3. BitwiseXor(x, BitwiseXor(x, y, n), n) = y
  BY <1>1, XorUndone
<1> QED  BY <1>2, <1>3

-----------------------------------------------------------------------------
(* The oblivious evaluation *)

OTKey == {k \in Exponent : k % Order # 0}

LEMMA CodeIsExponent == ASSUME NEW x \in Code PROVE x \in Exponent
BY OrderType DEF Exponent

LEMMA EcnrPrfType == ASSUME NEW x \in Element PROVE EcnrPrf[x] \in Code
<1>1. PICK s : s = [j \in Positions |-> IF Bit(x, j) = 1 THEN a[j] ELSE 1]
  OBVIOUS
<1>2. \A j \in Positions : s[j] \in Int
  BY <1>1, PSIAssumption, OrderType
<1>3. a0 \in Int
  BY PSIAssumption, OrderType
<1>4. EcnrPrf[x] = Times(a0, Product(s))
  BY <1>1 DEF EcnrPrf
<1> QED  BY <1>2, <1>3, <1>4, ProductType, TimesType

\* The factors the phone multiplies: the server's blind, with the factor of the
\* function where the element has a bit.
LEMMA Factors ==
    ASSUME NEW x, NEW j \in Positions, NEW pair \in [{0, 1} -> OTKey], NEW c \in {0, 1},
           NEW bit, bit = (c + Bit(x, j)) % 2, Bit(x, j) \in {0, 1}
    PROVE  /\ Blind(pair, bit) \in Code \ {0}
           /\ (IF Bit(x, j) = 1 THEN Xor(pair[c] % Order, Hidden(pair, bit, j))
                                ELSE pair[c] % Order) % Order
                = Times(Blind(pair, bit), IF Bit(x, j) = 1 THEN a[j] ELSE 1)
<1>1. PICK r \in [{0, 1} -> Code \ {0}] : \A b \in {0, 1} : r[b] = pair[b] % Order
  <2>1. \A b \in {0, 1} : pair[b] % Order \in Code \ {0}
    <3> SUFFICES ASSUME NEW b \in {0, 1} PROVE pair[b] % Order \in Code \ {0}
      OBVIOUS
    <3>1. pair[b] \in Int /\ pair[b] % Order # 0
      BY OrderType DEF OTKey, Exponent
    <3> QED  BY <3>1, Reduced
  <2>2. PICK r : r = [b \in {0, 1} |-> pair[b] % Order]
    OBVIOUS
  <2> QED  BY <2>1, <2>2
<1>2. bit \in {0, 1} /\ Blind(pair, bit) = r[bit] /\ r[bit] \in Int
  <2>1. bit \in {0, 1}
    OBVIOUS
  <2> QED  BY <1>1, <2>1, CodeReduced DEF Blind
<1>3. CASE Bit(x, j) = 0
  <2>1. bit = c
    BY <1>3
  <2>2. r[c] % Order = r[c] /\ Times(r[c], 1) = r[c] % Order
    BY <1>1, <1>2, <2>1, CodeReduced, TimesOne
  <2> QED  BY <1>1, <1>2, <1>3, <2>1, <2>2
<1>4. CASE Bit(x, j) = 1
  <2>1. 1 - bit = c /\ c \in {0, 1}
    BY <1>4
  <2>2. a[j] \in Int
    BY PSIAssumption, OrderType
  <2>3. PICK t \in Code : t = Times(r[bit], a[j])
    BY <1>2, <2>2, TimesType
  <2>4. Hidden(pair, bit, j) = Xor(r[c], t)
    BY <1>1, <1>2, <2>1, <2>3 DEF Hidden
  <2>5. Xor(r[c], Xor(r[c], t)) = t
    BY <1>1, CodeIsExponent, XorTwice
  <2>6. t % Order = t
    BY CodeReduced
  <2> QED  BY <1>1, <1>2, <1>4, <2>1, <2>3, <2>4, <2>5, <2>6
<1> QED  BY <1>1, <1>2, <1>3, <1>4

\* Whatever the keys and the random choices: the phone evaluates the function.
LEMMA OprfEvaluates ==
    ASSUME NEW x \in Element, NEW pairs \in [Positions -> [{0, 1} -> OTKey]],
           NEW random \in [Positions -> {0, 1}], NEW input, NEW k,
           \A j \in Positions : /\ input[j] = (random[j] + Bit(x, j)) % 2
                                /\ k[j] = pairs[j][random[j]]
    PROVE  Evaluated(Oprf(pairs, input), k, x) = EcnrPrf[x]
<1>1. x \in Int /\ \A j \in Positions : Bit(x, j) \in {0, 1}
  <2>1. x \in Int
    BY OrderType DEF Element
  <2>2. Positions \subseteq Nat
    BY OrderType DEF Positions
  <2> QED  BY <2>1, <2>2, BitType, BitIsBit
<1>2. PICK blind : blind = [j \in Positions |-> Blind(pairs[j], input[j])]
  OBVIOUS
<1>3. PICK s : s = [j \in Positions |-> IF Bit(x, j) = 1 THEN a[j] ELSE 1]
  OBVIOUS
<1>4. PICK reply : reply = Oprf(pairs, input)
  OBVIOUS
<1>5. /\ reply.hidden = [j \in Positions |-> Hidden(pairs[j], input[j], j)]
      /\ reply.point = Times(Reciprocal(Product(blind)), a0)
  BY <1>2, <1>4 DEF Oprf, Unblind
<1>6. PICK p : p = [j \in Positions |->
                      (IF Bit(x, j) = 1 THEN Xor(k[j] % Order, reply.hidden[j])
                                        ELSE k[j] % Order) % Order]
  OBVIOUS
<1>7. Evaluated(reply, k, x) = Times(reply.point, Product(p))
  BY <1>6 DEF Evaluated
<1>8. \A j \in Positions : /\ blind[j] \in Int /\ s[j] \in Int /\ p[j] = Times(blind[j], s[j])
                           /\ blind[j] % Order # 0
  <2> SUFFICES ASSUME NEW j \in Positions
               PROVE  /\ blind[j] \in Int /\ s[j] \in Int /\ p[j] = Times(blind[j], s[j])
                      /\ blind[j] % Order # 0
    OBVIOUS
  <2>1. PICK pair, c, bit :
          /\ pair \in [{0, 1} -> OTKey] /\ c \in {0, 1}
          /\ pair = pairs[j] /\ c = random[j] /\ bit = input[j] /\ k[j] = pair[c]
          /\ bit = (c + Bit(x, j)) % 2
    OBVIOUS
  <2>2. /\ Blind(pair, bit) \in Code \ {0}
        /\ (IF Bit(x, j) = 1 THEN Xor(pair[c] % Order, Hidden(pair, bit, j))
                             ELSE pair[c] % Order) % Order
             = Times(Blind(pair, bit), IF Bit(x, j) = 1 THEN a[j] ELSE 1)
    BY <1>1, <2>1, Factors
  <2>3. s[j] \in Int
    BY <1>3, PSIAssumption, OrderType
  <2>4. blind[j] \in Code \ {0} /\ reply.hidden[j] = Hidden(pair, bit, j)
    BY <1>2, <1>5, <2>1, <2>2
  <2>5. blind[j] \in Int /\ blind[j] % Order # 0
    BY <2>4, CodeReduced
  <2> QED  BY <1>2, <1>3, <1>6, <2>1, <2>2, <2>3, <2>4, <2>5
<1>9. PICK B \in Code \ {0}, P \in Int : B = Product(blind) /\ P = Product(s)
  BY <1>8, ProductNotZero, ProductType
<1>10. Product(p) = Times(B, P)
  BY <1>8, <1>9, ProductTimes
<1>11. PICK R \in Int : R = Reciprocal(B) /\ Times(B, R) = 1
  BY ReciprocalExists, CodeReduced
<1>12. a0 \in Int /\ B \in Int
  BY PSIAssumption, CodeReduced
<1>13. Times(Times(R, a0), Times(B, P)) = Times(Times(R, B), Times(a0, P))
  BY <1>12, TimesTwoPairs
<1>14. Times(R, B) = 1 /\ Times(a0, P) \in Code
  BY <1>11, <1>12, TimesCommutes, TimesType
<1>15. Times(1, Times(a0, P)) = Times(a0, P)
  BY <1>14, TimesOne, CodeReduced
<1>16. EcnrPrf[x] = Times(a0, P)
  BY <1>3, <1>9 DEF EcnrPrf
<1> QED  BY <1>4, <1>5, <1>7, <1>9, <1>10, <1>11, <1>13, <1>14, <1>15, <1>16

-----------------------------------------------------------------------------
(* What a connection holds: of the messages of a stream, in their order,    *)
(* those that are written and not yet read.                                 *)

Window(f, r, w) == [i \in 1 .. w - r |-> f[r + i]]
Entries(f, r, w) == {f[k] : k \in r + 1 .. w}

LEMMA WindowType ==
    ASSUME NEW f, NEW r \in Nat, NEW w \in Nat, r <= w
    PROVE  /\ Window(f, r, w) \in Seq(Entries(f, r, w))
           /\ Len(Window(f, r, w)) = w - r
<1>1. PICK n \in Nat : n = w - r
  OBVIOUS
<1>2. PICK S : S = {f[k] : k \in r + 1 .. w} /\ S = Entries(f, r, w)
  BY DEF Entries
<1>3. \A i \in 1 .. n : f[r + i] \in S
  <2>1. \A i \in 1 .. n : r + i \in r + 1 .. w
    BY <1>1
  <2> QED  BY <1>2, <2>1
<1>4. PICK s : s = [i \in 1 .. n |-> f[r + i]]
  OBVIOUS
<1>5. s \in Seq(S) /\ Len(s) = n
  BY <1>3, <1>4
<1>6. Window(f, r, w) = s
  BY <1>1, <1>4 DEF Window
<1> QED  BY ONLY <1>1, <1>2, <1>5, <1>6

LEMMA WindowElement ==
    ASSUME NEW f, NEW r \in Nat, NEW w \in Nat, r <= w
    PROVE  \A i \in 1 .. w - r : Window(f, r, w)[i] = f[r + i]
BY DEF Window

LEMMA WindowEmpty ==
    ASSUME NEW f, NEW r \in Nat, NEW w \in Nat
    PROVE  /\ r < w => Window(f, r, w) # <<>>
           /\ r = w => Window(f, r, w) = <<>>
<1>1. CASE r < w
  BY <1>1, WindowType
<1>2. CASE r = w
  <2> DEFINE s == Window(f, r, w)
  <2>1. s \in Seq(Entries(f, r, w)) /\ Len(s) = 0
    BY <1>2, WindowType
  <2> HIDE DEF s
  <2>2. s = <<>>
    BY <2>1, EmptySeq
  <2> QED  BY <1>2, <2>2 DEF s
<1> QED  BY <1>1, <1>2

LEMMA WindowRead ==
    ASSUME NEW f, NEW r \in Nat, NEW w \in Nat, r < w
    PROVE  /\ Head(Window(f, r, w)) = f[r + 1]
           /\ Tail(Window(f, r, w)) = Window(f, r + 1, w)
<1> DEFINE s == Window(f, r, w)
           S == Entries(f, r, w)
           t == Tail(s)
<1>1. s \in Seq(S) /\ Len(s) = w - r
  BY WindowType
<1>0. s # <<>>
  BY WindowEmpty
<1>2. \A i \in 1 .. w - r : s[i] = f[r + i]
  <2>1. \A i \in 1 .. w - r : Window(f, r, w)[i] = f[r + i]
    <3> SUFFICES ASSUME NEW i \in 1 .. w - r PROVE Window(f, r, w)[i] = f[r + i]
      OBVIOUS
    <3> QED  BY WindowElement, SMTT(60)
  <2> QED  BY ONLY <2>1 DEF s
<1>3. Head(s) = f[r + 1]
  <2>1. Head(s) = s[1]
    BY <1>0, <1>1
  <2>2. 1 \in 1 .. w - r
    OBVIOUS
  <2> QED  BY <1>2, <2>1, <2>2
<1> HIDE DEF s, S
<1>4. t \in Seq(S) /\ Len(t) = Len(s) - 1 /\ \A i \in 1 .. Len(t) : t[i] = s[i + 1]
  BY <1>0, <1>1, HeadTailProperties
<1> HIDE DEF t
<1>5. Len(t) = w - (r + 1)
  BY <1>1, <1>4
<1>6. \A i \in 1 .. w - (r + 1) : t[i] = f[(r + 1) + i]
  <2>1. \A i \in 1 .. w - (r + 1) : i + 1 \in 1 .. w - r /\ r + (i + 1) = (r + 1) + i
    OBVIOUS
  <2> QED  BY <1>2, <1>4, <1>5, <2>1
<1>7. r + 1 \in Nat /\ r + 1 <= w
  OBVIOUS
<1>8. t = Window(f, r + 1, w)
  <2>1. t = [i \in 1 .. w - (r + 1) |-> t[i]]
    BY <1>4, <1>5, LenProperties
  <2> QED  BY <1>6, <2>1 DEF Window
<1> QED  BY <1>3, <1>8 DEF s, t

\* Writing the next n entries behind a window lengthens it.
Lengthens(f, r, w, n) == Window(f, r, w) \o [k \in 1 .. n |-> f[w + k]] = Window(f, r, w + n)

LEMMA WindowWrite ==
    ASSUME NEW f, NEW r \in Nat, NEW w \in Nat, r <= w, NEW n \in Nat
    PROVE  Lengthens(f, r, w, n)
<1> DEFINE s == Window(f, r, w)
           t == [k \in 1 .. n |-> f[w + k]]
           S == Entries(f, r, w)
           T == {f[w + k] : k \in 1 .. n}
           U == S \cup T
           u == s \o t
<1>1. s \in Seq(S) /\ Len(s) = w - r
  BY WindowType
<1>2. \A i \in 1 .. w - r : s[i] = f[r + i]
  BY WindowElement
<1>3. t \in Seq(T) /\ Len(t) = n /\ \A k \in 1 .. n : t[k] = f[w + k]
  <2>1. \A k \in 1 .. n : f[w + k] \in T
    OBVIOUS
  <2> HIDE DEF T
  <2> QED  BY <2>1
<1> HIDE DEF s, t, S, T
<1>4. s \in Seq(U) /\ t \in Seq(U)
  BY <1>1, <1>3, SeqMonotonic
<1> HIDE DEF U
<1>5. /\ u \in Seq(U) /\ Len(u) = Len(s) + Len(t)
      /\ \A i \in 1 .. Len(s) + Len(t) : u[i] = IF i <= Len(s) THEN s[i] ELSE t[i - Len(s)]
  BY <1>4, ConcatProperties
<1> HIDE DEF u
<1>6. Len(s) + Len(t) = (w + n) - r /\ w + n \in Nat /\ r <= w + n
  BY <1>1, <1>3
<1>7. \A i \in 1 .. (w + n) - r : u[i] = f[r + i]
  <2> SUFFICES ASSUME NEW i \in 1 .. (w + n) - r PROVE u[i] = f[r + i]
    OBVIOUS
  <2>1. u[i] = IF i <= Len(s) THEN s[i] ELSE t[i - Len(s)]
    BY <1>5, <1>6
  <2>2. CASE i <= Len(s)
    BY <1>1, <1>2, <2>1, <2>2
  <2>3. CASE ~(i <= Len(s))
    <3>1. i - Len(s) \in 1 .. n /\ w + (i - Len(s)) = r + i
      BY <1>1, <2>3
    <3> QED  BY <1>3, <2>1, <2>3, <3>1
  <2> QED  BY <2>2, <2>3
<1>8. u = Window(f, r, w + n)
  <2>1. u = [i \in 1 .. (w + n) - r |-> u[i]]
    BY <1>5, <1>6, LenProperties
  <2> QED  BY <1>7, <2>1 DEF Window
<1> QED  BY <1>8 DEF s, t, u, Lengthens

LEMMA WindowAppend ==
    ASSUME NEW f, NEW r \in Nat, NEW w \in Nat, r <= w, NEW m, m = f[w + 1]
    PROVE  /\ Window(f, r, w) \o <<m>> = Window(f, r, w + 1)
           /\ Append(Window(f, r, w), m) = Window(f, r, w + 1)
<1>1. <<m>> = [k \in 1 .. 1 |-> f[w + k]]
  OBVIOUS
<1>2. Window(f, r, w) \o [k \in 1 .. 1 |-> f[w + k]] = Window(f, r, w + 1)
  BY WindowWrite DEF Lengthens
<1>3. Append(Window(f, r, w), m) = Window(f, r, w) \o <<m>>
  <2> DEFINE s == Window(f, r, w)
             S == Entries(f, r, w)
  <2>1. s \in Seq(S)
    BY WindowType
  <2> HIDE DEF s, S
  <2>2. s \in Seq(S \cup {m}) /\ m \in S \cup {m}
    BY <2>1, SeqMonotonic
  <2>3. Append(s, m) = s \o <<m>>
    BY <2>2, AppendIsConcat
  <2> QED  BY <2>3 DEF s
<1> QED  BY <1>1, <1>2, <1>3

LEMMA WindowSkip ==
    ASSUME NEW f, NEW r \in Nat, NEW w \in Nat, NEW n \in Nat, r + n <= w
    PROVE  SubSeq(Window(f, r, w), n + 1, Len(Window(f, r, w))) = Window(f, r + n, w)
<1> DEFINE s == Window(f, r, w)
           S == Entries(f, r, w)
           t == SubSeq(s, n + 1, w - r)
<1>1. s \in Seq(S) /\ Len(s) = w - r
  BY WindowType
<1>2. \A i \in 1 .. w - r : s[i] = f[r + i]
  BY WindowElement
<1> HIDE DEF s, S
<1>3. \A i \in n + 1 .. w - r : s[i] \in S
  BY <1>1, ElementOfSeq
<1>4. /\ t \in Seq(S)
      /\ Len(t) = IF n + 1 <= w - r THEN (w - r) - (n + 1) + 1 ELSE 0
      /\ \A i \in 1 .. (w - r) - (n + 1) + 1 : t[i] = s[(n + 1) + i - 1]
  BY <1>3, SubSeqProperties
<1> HIDE DEF t
<1>5. Len(t) = w - (r + n) /\ r + n \in Nat
  BY <1>4
<1>6. \A i \in 1 .. w - (r + n) : t[i] = f[(r + n) + i]
  <2>1. \A i \in 1 .. w - (r + n) :
           /\ i \in 1 .. (w - r) - (n + 1) + 1
           /\ (n + 1) + i - 1 \in 1 .. w - r /\ r + ((n + 1) + i - 1) = (r + n) + i
    OBVIOUS
  <2> QED  BY <1>2, <1>4, <2>1
<1>7. t = Window(f, r + n, w)
  <2>1. t = [i \in 1 .. w - (r + n) |-> t[i]]
    BY <1>4, <1>5, LenProperties
  <2> QED  BY <1>6, <2>1 DEF Window
<1>8. t = SubSeq(s, n + 1, Len(s))
  BY <1>1 DEF t
<1> QED  BY <1>7, <1>8 DEF s

\* It depends on these messages only.
LEMMA WindowSame ==
    ASSUME NEW f, NEW g, NEW r \in Nat, NEW w \in Nat, \A k \in r + 1 .. w : f[k] = g[k]
    PROVE  Window(f, r, w) = Window(g, r, w)
<1>1. \A i \in 1 .. w - r : r + i \in r + 1 .. w
  OBVIOUS
<1> QED  BY <1>1 DEF Window

First(t) == t * PerThread
Slice(t) == {k \in 0 .. NumServer - 1 : First(t) <= k /\ k < SliceEnd(t)}

\* The inputs are fixed, and blocks has a place for every element.
Fixed ==
    /\ protocol \in Protocol /\ serverSet \in Seq(Element)
    /\ blocks = [k \in 1 .. NumServer |-> blocks[k]]
    /\ next = [t \in Threads |-> next[t]]

\* Every thread is within its slice.
WithinSlice == \A t \in Threads : next[t] \in Int /\ First(t) <= next[t] /\ next[t] <= SliceEnd(t)

\* In the slice of a thread, what lies before its index is encrypted and the
\* rest is still as it was.
Progressing ==
    \A t \in Threads : \A k \in Slice(t) :
        blocks[k + 1] = IF k < next[t] THEN Encrypted(serverSet[k + 1]) ELSE serverSet[k + 1]

TInv ==
    /\ Fixed /\ WithinSlice
    /\ sStage = "encrypt" => Progressing
    /\ sStage # "encrypt" => \A k \in 0 .. NumServer - 1 :
                                blocks[k + 1] = Encrypted(serverSet[k + 1])

-----------------------------------------------------------------------------
(* The slices *)

LEMMA Quotient ==
    ASSUME NEW n \in Nat, NEW d \in Nat \ {0}
    PROVE  /\ n \div d \in Nat /\ (n \div d) * d <= n /\ n < (n \div d + 1) * d
BY SMTT(60)

LEMMA Monotone ==
    ASSUME NEW x \in Nat, NEW y \in Nat, NEW p \in Nat, x <= y
    PROVE  x * p \in Nat /\ y * p \in Nat /\ x * p <= y * p
BY SMTT(60)

LEMMA ThreadNumbers ==
    ASSUME Fixed
    PROVE  /\ Last \in Nat /\ Threads = 0 .. Last
           /\ NumServer \in Nat /\ PerThread \in Nat /\ (Last + 1) * PerThread <= NumServer
<1>1. Last \in Nat /\ Threads = 0 .. Last
  <2>1. CASE protocol = "GC"
    <3>1. Threads = 0 .. num_threads - 1 /\ num_threads \in Nat \ {0}
      BY <2>1, PSIAssumption DEF Threads
    <3>2. Cardinality(Threads) = num_threads
      BY <3>1, FS_Interval
    <3> QED  BY <3>1, <3>2 DEF Last
  <2>2. CASE protocol # "GC"
    <3>1. Threads = {0} /\ Cardinality(Threads) = 1
      BY <2>2, FS_Singleton DEF Threads
    <3> QED  BY <3>1 DEF Last
  <2> QED  BY <2>1, <2>2
<1>2. NumServer \in Nat
  BY DEF Fixed, NumServer
<1>3. PerThread \in Nat /\ (NumServer \div (Last + 1)) * (Last + 1) <= NumServer
  <2>1. Last + 1 \in Nat \ {0}
    BY <1>1
  <2>2. NumServer \div (Last + 1) \in Nat /\ (NumServer \div (Last + 1)) * (Last + 1) <= NumServer
    BY ONLY <1>2, <2>1, Quotient
  <2> QED  BY <2>2 DEF PerThread
<1>4. (Last + 1) * PerThread <= NumServer
  BY <1>1, <1>3, SMTT(60) DEF PerThread
<1> QED  BY <1>1, <1>2, <1>3, <1>4

\* The slices lie behind one another, within the elements.
LEMMA SliceBounds ==
    ASSUME Fixed, NEW t \in Threads
    PROVE  /\ First(t) \in Nat /\ SliceEnd(t) \in Nat
           /\ First(t) <= SliceEnd(t) /\ SliceEnd(t) <= NumServer
           /\ \A u \in Threads : t < u => SliceEnd(t) <= First(u)
<1>1. /\ Last \in Nat /\ t \in 0 .. Last /\ Threads = 0 .. Last
      /\ NumServer \in Nat /\ PerThread \in Nat /\ (Last + 1) * PerThread <= NumServer
  BY ThreadNumbers
<1>2. /\ t * PerThread \in Nat /\ (t + 1) * PerThread \in Nat
      /\ t * PerThread <= (t + 1) * PerThread
      /\ (t + 1) * PerThread <= (Last + 1) * PerThread
      /\ (Last + 1) * PerThread \in Nat
  <2>1. t \in Nat /\ t + 1 \in Nat /\ Last + 1 \in Nat /\ t <= t + 1 /\ t + 1 <= Last + 1
    BY <1>1
  <2> QED  BY ONLY <1>1, <2>1, Monotone
<1>3. \A u \in Threads : t < u => (t + 1) * PerThread <= u * PerThread
  BY <1>1, Monotone
<1> QED  BY <1>1, <1>2, <1>3 DEF First, SliceEnd

\* And every element lies in one.
LEMMA SlicesCover ==
    ASSUME Fixed, NEW k \in 0 .. NumServer - 1
    PROVE  \E t \in Threads : k \in Slice(t)
<1>1. /\ Last \in Nat /\ Threads = 0 .. Last
      /\ NumServer \in Nat /\ PerThread \in Nat
  BY ThreadNumbers
<1>2. CASE Last * PerThread <= k
  BY <1>1, <1>2 DEF Slice, First, SliceEnd
<1>3. CASE k < Last * PerThread
  <2>1. PerThread \in Nat \ {0}
    BY <1>1, <1>3
  <2> DEFINE t == k \div PerThread
  <2>2. t \in Nat /\ t * PerThread <= k /\ k < (t + 1) * PerThread
    BY <2>1, Quotient
  <2>3. t < Last
    <3> HIDE DEF t
    <3>1. SUFFICES ASSUME Last <= t PROVE FALSE
      BY <1>1, <2>2
    <3>2. Last * PerThread <= t * PerThread
      BY <1>1, <2>2, <3>1, Monotone
    <3> QED  BY <1>1, <1>3, <2>2, <3>2, Monotone
  <2>4. t \in Threads /\ t # Last
    BY <1>1, <2>2, <2>3
  <2> QED  BY <2>2, <2>4 DEF Slice, First, SliceEnd
<1> QED  BY <1>1, <1>2, <1>3, Monotone

-----------------------------------------------------------------------------
(* The invariant *)

LEMMA InitTInv == Init => TInv
<1> SUFFICES ASSUME Init PROVE TInv
  OBVIOUS
<1>1. Fixed
  BY PSIAssumption DEF Init, Fixed, NumServer
<1>2. WithinSlice
  BY <1>1, SliceBounds DEF Init, WithinSlice, First
<1>3. Progressing
  BY <1>1, SliceBounds DEF Init, Progressing, Slice, First
<1> QED  BY <1>1, <1>2, <1>3 DEF TInv, Init

LEMMA EncryptKeeps == ASSUME TInv, NEW t, Encrypt(t) PROVE TInv'
<1>1. /\ Fixed /\ WithinSlice /\ Progressing
      /\ t \in Threads /\ next[t] < SliceEnd(t)
  BY DEF Encrypt, TInv
<1>2. /\ serverSet' = serverSet /\ protocol' = protocol /\ sStage' = sStage
      /\ sStage = "encrypt"
  BY DEF Encrypt, inputs
<1>3. /\ Threads' = Threads /\ NumServer' = NumServer /\ PerThread' = PerThread
      /\ Last' = Last
  BY <1>2 DEF Threads, NumServer, PerThread, Last
<1>4. \A u : First(u)' = First(u) /\ SliceEnd(u)' = SliceEnd(u) /\ Slice(u)' = Slice(u)
  BY <1>3 DEF First, SliceEnd, Slice
<1>5. /\ blocks' = [blocks EXCEPT ![next[t] + 1] = Encrypted(blocks[next[t] + 1])]
      /\ next' = [next EXCEPT ![t] = next[t] + 1]
  BY DEF Encrypt
<1>6. /\ next[t] \in Slice(t) /\ next[t] \in Int
  <2>1. next[t] \in Int /\ First(t) <= next[t]
    BY <1>1 DEF WithinSlice
  <2>2. First(t) \in Nat /\ SliceEnd(t) \in Nat /\ SliceEnd(t) <= NumServer /\ NumServer \in Nat
    BY <1>1, SliceBounds, ThreadNumbers
  <2>3. next[t] \in 0 .. NumServer - 1
    BY <1>1, <2>1, <2>2
  <2> QED  BY <1>1, <2>1, <2>3 DEF Slice
<1>7. Fixed'
  BY <1>1, <1>2, <1>3, <1>5 DEF Fixed
<1>8. /\ next'[t] = next[t] + 1
      /\ \A u \in Threads : u # t => next'[u] = next[u]
      /\ blocks'[next[t] + 1] = Encrypted(blocks[next[t] + 1])
      /\ \A k \in 0 .. NumServer - 1 : k # next[t] => blocks'[k + 1] = blocks[k + 1]
  <2>1. next[t] \in 0 .. NumServer - 1 /\ NumServer \in Nat
    BY <1>1, <1>6, ThreadNumbers DEF Slice
  <2>2. next[t] + 1 \in 1 .. NumServer
    BY <2>1
  <2>3. next = [u \in Threads |-> next[u]] /\ blocks = [k \in 1 .. NumServer |-> blocks[k]]
    BY <1>1 DEF Fixed
  <2>4. next'[t] = next[t] + 1 /\ \A u \in Threads : u # t => next'[u] = next[u]
    BY <1>1, <1>5, <2>3
  <2>5. /\ blocks'[next[t] + 1] = Encrypted(blocks[next[t] + 1])
        /\ \A i \in 1 .. NumServer : i # next[t] + 1 => blocks'[i] = blocks[i]
    BY <1>5, <2>2, <2>3
  <2>6. \A k \in 0 .. NumServer - 1 : k + 1 \in 1 .. NumServer /\ (k # next[t] => k + 1 # next[t] + 1)
    BY <2>1
  <2> QED  BY <2>4, <2>5, <2>6
<1>9. WithinSlice'
  BY <1>1, <1>3, <1>4, <1>8, SliceBounds DEF WithinSlice
<1>10. \A x : Encrypted(x)' = Encrypted(x)
  BY <1>2 DEF Encrypted
<1>11. Progressing'
  <2> SUFFICES ASSUME NEW u \in Threads, NEW k \in Slice(u)
               PROVE  blocks'[k + 1] = IF k < next'[u] THEN Encrypted(serverSet[k + 1])
                                                       ELSE serverSet[k + 1]
    BY <1>2, <1>3, <1>4, <1>10 DEF Progressing
  <2>1. k \in 0 .. NumServer - 1
    BY DEF Slice
  <2>2. blocks[k + 1] = IF k < next[u] THEN Encrypted(serverSet[k + 1]) ELSE serverSet[k + 1]
    BY <1>1 DEF Progressing
  <2>3. CASE u # t
    <3>1. k # next[t]
      <4>1. /\ First(u) <= k /\ k < SliceEnd(u) /\ First(t) <= next[t] /\ next[t] < SliceEnd(t)
        BY <1>6 DEF Slice
      <4>2. t < u \/ u < t
        BY <1>1, <2>3, ThreadNumbers
      <4>3. First(u) \in Nat /\ SliceEnd(u) \in Nat /\ First(t) \in Nat /\ SliceEnd(t) \in Nat
        BY <1>1, SliceBounds
      <4>4. (t < u => SliceEnd(t) <= First(u)) /\ (u < t => SliceEnd(u) <= First(t))
        BY <1>1, SliceBounds
      <4> QED  BY <1>6, <2>1, <4>1, <4>2, <4>3, <4>4
    <3> QED  BY <1>8, <2>1, <2>2, <2>3, <3>1
  <2>4. CASE u = t /\ k = next[t]
    BY <1>6, <1>8, <2>2, <2>4
  <2>5. CASE u = t /\ k # next[t]
    BY <1>6, <1>8, <2>1, <2>2, <2>5
  <2> QED  BY <2>3, <2>4, <2>5
<1> QED  BY <1>2, <1>7, <1>9, <1>11 DEF TInv

\* The main thread goes on when all slices are done.
LEMMA JoinKeeps == ASSUME TInv, Join PROVE TInv'
<1>1. /\ Fixed /\ WithinSlice /\ Progressing /\ Joined /\ UNCHANGED <<blocks, next, serverSet, protocol>>
      /\ sStage' # "encrypt"
  BY DEF Join, TInv, inputs
<1>2. Fixed' /\ WithinSlice'
  BY <1>1 DEF Fixed, WithinSlice, First, SliceEnd, PerThread, Last, NumServer, Threads
<1>3. ASSUME NEW k \in 0 .. NumServer - 1
      PROVE  blocks[k + 1] = Encrypted(serverSet[k + 1])
  <2>1. PICK t \in Threads : k \in Slice(t)
    BY <1>1, SlicesCover
  <2>2. k < next[t]
    BY <1>1, <2>1 DEF Joined, Slice
  <2> QED  BY <1>1, <2>1, <2>2 DEF Progressing
<1> QED  BY <1>1, <1>2, <1>3 DEF TInv, NumServer, Encrypted

\* What the other steps leave alone.
Untouched == UNCHANGED <<blocks, next, serverSet, protocol>>
OtherStage == (sStage = "encrypt") <=> (sStage' = "encrypt")

LEMMA UntouchedKeeps == ASSUME TInv, Untouched, OtherStage PROVE TInv'
<1>1. /\ Threads' = Threads /\ NumServer' = NumServer /\ PerThread' = PerThread
      /\ Last' = Last /\ \A x : Encrypted(x)' = Encrypted(x)
  BY DEF Untouched, Threads, NumServer, PerThread, Last, Encrypted
<1>2. \A u : First(u)' = First(u) /\ SliceEnd(u)' = SliceEnd(u) /\ Slice(u)' = Slice(u)
  BY <1>1 DEF First, SliceEnd, Slice
<1>3. Fixed => Fixed'
  BY <1>1 DEF Untouched, Fixed
<1>4. (WithinSlice => WithinSlice') /\ (Progressing => Progressing')
  BY <1>1, <1>2 DEF Untouched, WithinSlice, Progressing
<1> QED  BY <1>1, <1>3, <1>4 DEF TInv, Untouched, OtherStage

LEMMA MainUntouched == ASSUME Main, ~Join PROVE Untouched /\ OtherStage
<1>1. CASE AddNext
  BY <1>1 DEF AddNext, Untouched, OtherStage, inputs
<1>2. CASE AddStep
  BY <1>2 DEF AddStep, Untouched, OtherStage, inputs, server
<1>3. CASE AddRefused
  BY <1>3 DEF AddRefused, Untouched, OtherStage, inputs
<1>4. CASE SendHeader
  BY <1>4 DEF SendHeader, Untouched, OtherStage, inputs
<1>5. CASE SendPart
  BY <1>5 DEF SendPart, Untouched, OtherStage, inputs
<1>6. CASE SendParams
  BY <1>6 DEF SendParams, Untouched, OtherStage, inputs
<1>7. CASE ServerBaseSend
  BY <1>7 DEF ServerBaseSend, Untouched, OtherStage, inputs
<1>8. CASE ServerBaseRecv
  BY <1>8 DEF ServerBaseRecv, Untouched, OtherStage, inputs
<1>9. CASE RecvChoices
  BY <1>9 DEF RecvChoices, Untouched, OtherStage, inputs
<1>10. CASE Reply
  BY <1>10 DEF Reply, Untouched, OtherStage, inputs
<1> QED
  BY <1>1, <1>2, <1>3, <1>4, <1>5, <1>6, <1>7, <1>8, <1>9, <1>10 DEF Main

LEMMA PhoneUntouched == ASSUME Phone PROVE Untouched /\ OtherStage
<1>1. UNCHANGED <<inputs, server>>
  BY DEF Phone, RecvHeader, RecvPart, RecvParam, ClientBaseSend, SendU, ClientBaseRecv,
         SendChoices, RecvReply, Intersect
<1> QED  BY <1>1 DEF inputs, server, Untouched, OtherStage

LEMMA NextTInv == TInv /\ [Next]_vars => TInv'
<1> SUFFICES ASSUME TInv, [Next]_vars PROVE TInv'
  OBVIOUS
<1>1. CASE Join
  BY <1>1, JoinKeeps
<1>2. CASE Main /\ ~Join
  BY <1>2, MainUntouched, UntouchedKeeps
<1>3. CASE Phone
  BY <1>3, PhoneUntouched, UntouchedKeeps
<1>4. ASSUME NEW t \in Threads, Encrypt(t) PROVE TInv'
  BY <1>4, EncryptKeeps
<1>5. CASE UNCHANGED vars
  BY <1>5, UntouchedKeeps DEF vars, inputs, server, Untouched, OtherStage
<1> QED  BY <1>1, <1>2, <1>3, <1>4, <1>5 DEF Next

-----------------------------------------------------------------------------
(* The inputs *)

Given ==
    /\ protocol \in Protocol /\ serverSet \in ServerSets /\ clientSet \in ClientSets
    /\ hasher \in Hashes

LEMMA MainGiven == ASSUME Main PROVE UNCHANGED <<protocol, serverSet, clientSet, hasher>>
<1>1. CASE Join
  BY <1>1 DEF Join, inputs
<1>2. CASE AddNext
  BY <1>2 DEF AddNext, inputs
<1>3. CASE AddStep
  BY <1>3 DEF AddStep, inputs, server
<1>4. CASE AddRefused
  BY <1>4 DEF AddRefused, inputs
<1>5. CASE SendHeader
  BY <1>5 DEF SendHeader, inputs
<1>6. CASE SendPart
  BY <1>6 DEF SendPart, inputs
<1>7. CASE SendParams
  BY <1>7 DEF SendParams, inputs
<1>8. CASE ServerBaseSend
  BY <1>8 DEF ServerBaseSend, inputs
<1>9. CASE ServerBaseRecv
  BY <1>9 DEF ServerBaseRecv, inputs
<1>10. CASE RecvChoices
  BY <1>10 DEF RecvChoices, inputs
<1>11. CASE Reply
  BY <1>11 DEF Reply, inputs
<1> QED
  BY <1>1, <1>2, <1>3, <1>4, <1>5, <1>6, <1>7, <1>8, <1>9, <1>10, <1>11 DEF Main

LEMMA PhoneKeeps == ASSUME Phone PROVE UNCHANGED <<filterVars, inputs, server>>
BY DEF Phone, RecvHeader, RecvPart, RecvParam, ClientBaseSend, SendU, ClientBaseRecv,
       SendChoices, RecvReply, Intersect

LEMMA GivenFixed == ASSUME [Next]_vars PROVE UNCHANGED <<protocol, serverSet, clientSet, hasher>>
<1>1. CASE Main
  BY <1>1, MainGiven
<1>2. CASE Phone
  BY <1>2, PhoneKeeps DEF inputs, server
<1>3. ASSUME NEW t \in Threads, Encrypt(t)
      PROVE  UNCHANGED <<protocol, serverSet, clientSet, hasher>>
  BY <1>3 DEF Encrypt, inputs
<1>4. CASE UNCHANGED vars
  BY <1>4 DEF vars, inputs, server
<1> QED  BY <1>1, <1>2, <1>3, <1>4 DEF Next

LEMMA InitGiven == Init => Given
BY DEF Init, Given

LEMMA NextGiven == Given /\ [Next]_vars => Given'
BY GivenFixed DEF Given

LEMMA GivenTypes ==
    ASSUME Given
    PROVE  /\ serverSet \in Seq(Element) /\ NumServer \in Nat \ {0} /\ NumServer = Len(serverSet)
           /\ clientSet \in Seq(Element) /\ NumClient \in Nat \ {0} /\ NumClient = Len(clientSet)
           /\ hasher \in [Code -> Item]
           /\ protocol \in {"GC", "ECNR"}
<1>1. serverSet \in Seq(Element) \ {<<>>} /\ clientSet \in Seq(Element) \ {<<>>}
  BY PSIAssumption DEF Given
<1>2. Len(serverSet) \in Nat \ {0} /\ Len(clientSet) \in Nat \ {0}
  BY <1>1, EmptySeq
<1> QED  BY <1>1, <1>2, PSIAssumption DEF Given, NumServer, NumClient, Protocol

LEMMA EncryptedType ==
    ASSUME NEW x \in Element
    PROVE  Encrypted(x) \in Code
BY EcnrPrfType, PSIAssumption DEF Encrypted

LEMMA ElementIsCode == ASSUME NEW x \in Element PROVE x \in Code
BY OrderType DEF Element

\* Before and after its encryption, an element is a value of the hash's domain.
LEMMA BlocksType ==
    ASSUME Given, TInv
    PROVE  \A i \in 1 .. NumServer : blocks[i] \in Code
<1> SUFFICES ASSUME NEW i \in 1 .. NumServer PROVE blocks[i] \in Code
  OBVIOUS
<1>1. i - 1 \in 0 .. NumServer - 1 /\ (i - 1) + 1 = i /\ serverSet[i] \in Element
  BY GivenTypes
<1>2. serverSet[i] \in Code /\ Encrypted(serverSet[i]) \in Code
  BY <1>1, ElementIsCode, EncryptedType
<1>3. CASE sStage = "encrypt"
  <2>1. PICK t \in Threads : i - 1 \in Slice(t)
    BY <1>1, SlicesCover DEF TInv
  <2>2. \/ blocks[(i - 1) + 1] = Encrypted(serverSet[(i - 1) + 1])
        \/ blocks[(i - 1) + 1] = serverSet[(i - 1) + 1]
    BY <1>3, <2>1 DEF TInv, Progressing
  <2> QED  BY <1>1, <1>2, <2>2
<1>4. CASE sStage # "encrypt"
  BY <1>1, <1>2, <1>4 DEF TInv
<1> QED  BY <1>3, <1>4

-----------------------------------------------------------------------------
(* The filter holds what it was fed *)

\* Only the calls of Add and their steps touch the filter.
LEMMA MainFilter ==
    ASSUME Main, ~AddNext, ~AddStep
    PROVE  UNCHANGED filterVars
<1>1. CASE Join
  BY <1>1 DEF Join
<1>2. CASE AddRefused
  BY <1>2 DEF AddRefused
<1>3. CASE SendHeader
  BY <1>3 DEF SendHeader
<1>4. CASE SendPart
  BY <1>4 DEF SendPart
<1>5. CASE SendParams
  BY <1>5 DEF SendParams
<1>6. CASE ServerBaseSend
  BY <1>6 DEF ServerBaseSend
<1>7. CASE ServerBaseRecv
  BY <1>7 DEF ServerBaseRecv
<1>8. CASE RecvChoices
  BY <1>8 DEF RecvChoices
<1>9. CASE Reply
  BY <1>9 DEF Reply
<1> QED  BY <1>1, <1>2, <1>3, <1>4, <1>5, <1>6, <1>7, <1>8, <1>9 DEF Main

LEMMA NextItem ==
    ASSUME Given, TInv, added \in Nat, added < NumServer
    PROVE  hasher[blocks[added + 1]] \in Item
<1>1. added + 1 \in 1 .. NumServer
  BY GivenTypes
<1> QED  BY <1>1, BlocksType, GivenTypes

LEMMA FilterStep ==
    ASSUME Given, TInv, added \in Nat, [Next]_vars
    PROVE  [FilterNext]_filterVars
<1>1. CASE AddNext
  <2>1. Add(hasher[blocks[added + 1]]) /\ hasher[blocks[added + 1]] \in Item
    BY <1>1, NextItem DEF AddNext
  <2> QED  BY <2>1 DEF FilterNext
<1>2. CASE AddStep
  BY <1>2 DEF AddStep, FilterNext
<1>3. CASE Main /\ ~AddNext /\ ~AddStep
  BY <1>3, MainFilter
<1>4. CASE Phone
  BY <1>4, PhoneKeeps
<1>5. ASSUME NEW t \in Threads, Encrypt(t) PROVE UNCHANGED filterVars
  BY <1>5 DEF Encrypt
<1>6. CASE UNCHANGED vars
  BY <1>6 DEF vars
<1> QED  BY <1>1, <1>2, <1>3, <1>4, <1>5, <1>6 DEF Next

\* Of the first n encryptions, those of a class.
Fed(n, c) == {j \in 1 .. n : ClassOf(hasher[blocks[j]]) = c}

\* The filter has taken the first n elements: each is in the table, in hand or
\* the victim, and none is missing as long as there is no victim.
Took(n) ==
    /\ n \in 0 .. added /\ (~victim.used => n = added)
    /\ num_items + One(adding.busy) + One(victim.used) = n
    /\ \A c \in Class : Held(c) = Cardinality(Fed(n, c))

FilterFed ==
    /\ Given /\ TInv /\ IInv
    /\ added \in 0 .. NumServer
    /\ sStage = "encrypt" => added = 0 /\ ~adding.busy
    /\ sStage \in {"parts", "base", "reply"} => added = NumServer /\ ~adding.busy
    /\ \E n \in Nat : Took(n)

LEMMA FedNext ==
    ASSUME NEW n \in Nat, NEW c
    PROVE  Cardinality(Fed(n+1, c)) =
             Cardinality(Fed(n, c)) + One(ClassOf(hasher[blocks[n+1]]) = c)
<1> DEFINE new == ClassOf(hasher[blocks[n+1]]) = c
<1>1. IsFiniteSet(Fed(n, c)) /\ Cardinality(Fed(n, c)) \in Nat
  <2>1. IsFiniteSet(1 .. n) /\ Fed(n, c) \subseteq 1 .. n
    BY FS_Interval DEF Fed
  <2> QED  BY <2>1, FS_Subset, FS_CardinalityType
<1>2. n + 1 \notin Fed(n, c)
  BY DEF Fed
<1>3. CASE new
  <2>1. Fed(n+1, c) = Fed(n, c) \cup {n+1}
    BY <1>3 DEF Fed
  <2>2. Cardinality(Fed(n, c) \cup {n+1}) = Cardinality(Fed(n, c)) + 1
    BY <1>1, <1>2, FS_AddElement
  <2> QED  BY <1>3, <2>1, <2>2 DEF One
<1>4. CASE ~new
  <2>1. Fed(n+1, c) = Fed(n, c)
    BY <1>4 DEF Fed
  <2> QED  BY <1>1, <1>4, <2>1 DEF One
<1> QED  BY <1>3, <1>4

LEMMA FedNone == \A c : Cardinality(Fed(0, c)) = 0
<1> SUFFICES ASSUME NEW c PROVE Cardinality(Fed(0, c)) = 0
  OBVIOUS
<1>1. Fed(0, c) = {}
  BY DEF Fed
<1> QED  BY <1>1, FS_EmptySet

LEMMA InitFilterFed == Init => FilterFed
<1> SUFFICES ASSUME Init PROVE FilterFed
  OBVIOUS
<1>1. Given /\ TInv /\ IInv /\ FilterInit
  BY InitGiven, InitTInv, InitIInv DEF Init
<1>2. added = 0 /\ sStage = "encrypt" /\ NumServer \in Nat
  BY <1>1, GivenTypes DEF Init
<1>3. ~adding.busy /\ ~victim.used /\ num_items = 0
  BY <1>1, NothingBusy DEF FilterInit
<1>4. \A c \in Class : Held(c) = 0
  BY <1>1, InitBag DEF Bag!Init
<1>5. Took(0)
  BY <1>2, <1>3, <1>4, FedNone DEF Took, One
<1> QED  BY <1>1, <1>2, <1>3, <1>5 DEF FilterFed

\* What the steps other than those of Add leave alone.
Apart ==
    /\ UNCHANGED <<filterVars, added, serverSet, hasher>>
    /\ sStage # "encrypt" => sStage' # "encrypt" /\ blocks' = blocks
    /\ sStage' \in {"parts", "base", "reply"} =>
         sStage \in {"parts", "base", "reply"} \/ (added = NumServer /\ ~adding.busy)

LEMMA MainApart == ASSUME Main, ~AddNext, ~AddStep, ~AddRefused PROVE Apart
<1>1. CASE Join
  BY <1>1 DEF Join, Apart, inputs
<1>2. CASE SendHeader
  BY <1>2 DEF SendHeader, Apart, inputs
<1>3. CASE SendPart
  BY <1>3 DEF SendPart, Apart, inputs
<1>4. CASE SendParams
  BY <1>4 DEF SendParams, Apart, inputs
<1>5. CASE ServerBaseSend
  BY <1>5 DEF ServerBaseSend, Apart, inputs
<1>6. CASE ServerBaseRecv
  BY <1>6 DEF ServerBaseRecv, Apart, inputs
<1>7. CASE RecvChoices
  BY <1>7 DEF RecvChoices, InServerBase, Apart, inputs
<1>8. CASE Reply
  BY <1>8 DEF Reply, Apart, inputs
<1> QED  BY <1>1, <1>2, <1>3, <1>4, <1>5, <1>6, <1>7, <1>8 DEF Main

LEMMA ApartKeeps ==
    ASSUME FilterFed, Apart, Given', TInv', IInv'
    PROVE  FilterFed'
<1>1. PICK n \in Nat : Took(n)
  BY DEF FilterFed
<1>2. NumServer' = NumServer
  BY DEF Apart, NumServer
<1>3. \A c \in Class : Held(c)' = Held(c)
  BY DEF Apart, filterVars, Held, InTable, At, Occupied
<1>4. \A c \in Class : Fed(n, c)' = Fed(n, c)
  <2>1. CASE sStage = "encrypt"
    <3>1. n = 0
      BY <1>1, <2>1 DEF FilterFed, Took
    <3> QED  BY <3>1 DEF Fed
  <2>2. CASE sStage # "encrypt"
    BY <2>2 DEF Apart, Fed
  <2> QED  BY <2>1, <2>2
<1>5. Took(n)'
  BY <1>1, <1>3, <1>4 DEF Took, Apart, filterVars, Class
<1> QED  BY <1>2, <1>5 DEF FilterFed, Apart, filterVars

LEMMA NextFilterFed == FilterFed /\ [Next]_vars => FilterFed'
<1> SUFFICES ASSUME FilterFed, [Next]_vars PROVE FilterFed'
  OBVIOUS
<1>1. Given /\ TInv /\ IInv /\ added \in Nat /\ NumServer \in Nat /\ FilterTypeOK
  BY GivenTypes DEF FilterFed, IInv
<1>2. Given' /\ TInv' /\ IInv'
  BY <1>1, NextGiven, NextTInv, NextIInv, FilterStep
<1>3. PICK n \in Nat : Took(n)
  BY DEF FilterFed
<1>4. num_items \in Nat
  BY <1>1 DEF FilterTypeOK
<1>5. CASE AddNext
  <2>1. /\ sStage = "add" /\ ~adding.busy /\ added < NumServer /\ ~victim.used
        /\ Add(hasher[blocks[added + 1]]) /\ added' = added + 1
        /\ UNCHANGED <<serverSet, blocks, hasher, sStage, num_items, victim>>
        /\ adding' = Adding(hasher[blocks[added + 1]], 0)
    BY <1>5 DEF AddNext, Add, inputs
  <2>2. n = added /\ added + 1 \in Nat
    BY <1>1, <1>3, <2>1 DEF Took
  <2>3. hasher[blocks[added + 1]] \in Item
    BY <1>1, <2>1, NextItem
  <2>4. \A c \in Class : Held(c)' = Cardinality(Fed(added + 1, c))
    <3> SUFFICES ASSUME NEW c \in Class PROVE Held(c)' = Cardinality(Fed(added + 1, c))
      OBVIOUS
    <3>1. Held(c)' = Held(c) + One(ClassOf(hasher[blocks[added + 1]]) = c)
      BY <1>1, <2>1, <2>3, AddHeld
    <3>2. Held(c) = Cardinality(Fed(added, c))
      BY <1>3, <2>2 DEF Took
    <3> QED  BY <1>1, <3>1, <3>2, FedNext
  <2>6. num_items' + One(adding'.busy) + One(victim'.used) = added + 1
    BY <1>3, <1>4, <2>1, <2>2, Fields DEF Took, One
  <2>7. PICK m \in Nat : m = added + 1
    BY <1>1
  <2>8. Took(m)'
    <3>1. m \in 0 .. added'
      BY <1>1, <2>1, <2>7
    <3>2. \A c \in Class : Held(c)' = Cardinality(Fed(m, c)')
      BY <2>1, <2>4, <2>7 DEF Fed
    <3> QED  BY <2>1, <2>6, <2>7, <3>1, <3>2 DEF Took
  <2> QED  BY <1>1, <1>2, <2>1, <2>2, <2>8 DEF FilterFed, NumServer
<1>6. CASE AddStep
  <2>1. /\ sStage = "add" /\ AddImpl
        /\ UNCHANGED <<serverSet, blocks, hasher, sStage, added>>
    BY <1>6 DEF AddStep, inputs, server
  <2>2. \A c \in Class : Held(c)' = Held(c)
    BY <1>1, <2>1, InsertHeld, TryAlternateHeld, KickHeld, GiveUpHeld DEF AddImpl
  <2>3. /\ num_items' + One(adding'.busy) + One(victim'.used)
             = num_items + One(adding.busy) + One(victim.used)
        /\ ~victim'.used => ~victim.used
    <3>1. CASE Insert
      BY <1>4, <3>1, NothingBusy DEF Insert, Round, One
    <3>2. CASE TryAlternate
      BY <1>4, <3>2, Fields DEF TryAlternate, Round, One
    <3>3. CASE Kick
      BY <1>4, <3>3, Fields DEF Kick, Round, One
    <3>4. CASE GiveUp
      <4>1. ~victim.used /\ adding.busy
        BY <1>1, <3>4 DEF GiveUp, IInv, Alone
      <4>2. victim'.used /\ ~adding'.busy /\ num_items' = num_items
        BY <3>4, Fields, NothingBusy DEF GiveUp
      <4> QED  BY <1>4, <4>1, <4>2 DEF One
    <3> QED  BY <2>1, <3>1, <3>2, <3>3, <3>4 DEF AddImpl
  <2>4. \A c \in Class : Fed(n, c)' = Fed(n, c)
    BY <2>1 DEF Fed
  <2>5. Took(n)'
    BY <1>3, <2>1, <2>2, <2>3, <2>4 DEF Took, Class
  <2> QED  BY <1>2, <2>1, <2>5 DEF FilterFed, NumServer
<1>7. CASE AddRefused
  <2>1. /\ sStage = "add" /\ added < NumServer /\ victim.used /\ added' = added + 1
        /\ sStage' \in {"add", "aborted"}
        /\ UNCHANGED <<filterVars, serverSet, blocks, hasher>>
    BY <1>7 DEF AddRefused, inputs
  <2>2. \A c \in Class : Fed(n, c)' = Fed(n, c) /\ Held(c)' = Held(c)
    BY <2>1 DEF Fed, filterVars, Held, InTable, At, Occupied
  <2>3. Took(n)'
    <3>1. n \in 0 .. added'
      BY <1>1, <1>3, <2>1 DEF Took
    <3>2. victim'.used /\ num_items' + One(adding'.busy) + One(victim'.used) = n
      BY <1>3, <2>1 DEF Took, filterVars
    <3>3. \A c \in Class : Held(c)' = Cardinality(Fed(n, c)')
      BY <1>3, <2>2 DEF Took
    <3> QED  BY <3>1, <3>2, <3>3 DEF Took
  <2> QED  BY <1>1, <1>2, <2>1, <2>3 DEF FilterFed, NumServer
<1>8. CASE Main /\ ~AddNext /\ ~AddStep /\ ~AddRefused
  BY <1>2, <1>8, MainApart, ApartKeeps
<1>9. CASE Phone
  <2>1. Apart
    BY <1>9, PhoneKeeps DEF Apart, inputs, server
  <2> QED  BY <1>2, <2>1, ApartKeeps
<1>10. ASSUME NEW t \in Threads, Encrypt(t) PROVE FilterFed'
  <2>1. Apart
    BY <1>10 DEF Encrypt, Apart, inputs
  <2> QED  BY <1>2, <2>1, ApartKeeps
<1>11. CASE UNCHANGED vars
  <2>1. Apart
    BY <1>11 DEF vars, Apart, inputs, server
  <2> QED  BY <1>2, <2>1, ApartKeeps
<1> QED  BY <1>5, <1>6, <1>7, <1>8, <1>9, <1>10, <1>11 DEF Next

-----------------------------------------------------------------------------
(* The scripts of the base phase *)

ScriptLength == Len(ServerBase[protocol])
KindAt(k) == ServerBase[protocol][k].kind
ServerSends(k) == k \in 1 .. ScriptLength /\ ServerBase[protocol][k].op = "send"
PhoneSends(k) == k \in 1 .. ScriptLength /\ ServerBase[protocol][k].op = "recv"
U == 8

LEMMA Concatenated ==
    ASSUME NEW S, NEW s \in Seq(S), NEW t \in Seq(S)
    PROVE  /\ Len(s \o t) = Len(s) + Len(t)
           /\ \A i \in 1 .. Len(s) : (s \o t)[i] = s[i]
           /\ \A i \in 1 .. Len(t) : (s \o t)[Len(s) + i] = t[i]
BY ConcatProperties

\* The two scripts are dual, entry by entry.
LEMMA Scripts ==
    ASSUME protocol \in Protocol
    PROVE  /\ ScriptLength \in {11, 13} /\ Len(ClientBase[protocol]) = ScriptLength
           /\ \A i \in 1 .. 10 : /\ ServerBase[protocol][i] = ServerBaseOTs[i]
                                 /\ ClientBase[protocol][i] = ClientBaseOTs[i]
           /\ \A i \in 11 .. ScriptLength :
                 \E kind \in {"offset", "check", "gcs"} :
                    \/ ServerBase[protocol][i] = Send(kind) /\ ClientBase[protocol][i] = Recv(kind)
                    \/ ServerBase[protocol][i] = Recv(kind) /\ ClientBase[protocol][i] = Send(kind)
<1> DEFINE S == {ServerBaseOTs[i] : i \in 1 .. 10} \cup {ClientBaseOTs[i] : i \in 1 .. 10}
                \cup {Send("offset"), Send("check"), Send("gcs"),
                      Recv("offset"), Recv("check"), Recv("gcs")}
<1>1. /\ Len(ServerBaseOTs) = 10 /\ Len(ClientBaseOTs) = 10
      /\ ServerBaseOTs = [i \in 1 .. 10 |-> ServerBaseOTs[i]]
      /\ ClientBaseOTs = [i \in 1 .. 10 |-> ClientBaseOTs[i]]
  BY DEF ServerBaseOTs, ClientBaseOTs
<1>2. ServerBaseOTs \in Seq(S) /\ ClientBaseOTs \in Seq(S)
  <2>1. \A i \in 1 .. 10 : ServerBaseOTs[i] \in S /\ ClientBaseOTs[i] \in S
    OBVIOUS
  <2> HIDE DEF S
  <2> QED  BY <1>1, <2>1
<1>3. CASE protocol = "ECNR"
  <2> DEFINE t == <<Recv("check")>>
             u == <<Send("check")>>
  <2>1. /\ t \in Seq(S) /\ u \in Seq(S) /\ Len(t) = 1 /\ Len(u) = 1
        /\ t[1] = Recv("check") /\ u[1] = Send("check")
    <3>1. Recv("check") \in S /\ Send("check") \in S
      OBVIOUS
    <3> HIDE DEF S
    <3> QED  BY <3>1
  <2>2. ServerBase[protocol] = ServerBaseOTs \o t /\ ClientBase[protocol] = ClientBaseOTs \o u
    BY <1>3 DEF ServerBase, ClientBase
  <2> HIDE DEF t, u, S
  <2>3. /\ ScriptLength = 11 /\ Len(ClientBase[protocol]) = 11
        /\ \A i \in 1 .. 10 : /\ ServerBase[protocol][i] = ServerBaseOTs[i]
                              /\ ClientBase[protocol][i] = ClientBaseOTs[i]
        /\ ServerBase[protocol][11] = t[1] /\ ClientBase[protocol][11] = u[1]
    <3>1. /\ Len(ServerBaseOTs \o t) = Len(ServerBaseOTs) + Len(t)
          /\ \A i \in 1 .. Len(ServerBaseOTs) : (ServerBaseOTs \o t)[i] = ServerBaseOTs[i]
          /\ \A i \in 1 .. Len(t) : (ServerBaseOTs \o t)[Len(ServerBaseOTs) + i] = t[i]
      <4>1. PICK s : s = ServerBaseOTs
        OBVIOUS
      <4>2. s \in Seq(S) /\ t \in Seq(S)
        BY <1>2, <2>1, <4>1
      <4>3. /\ Len(s \o t) = Len(s) + Len(t)
            /\ \A i \in 1 .. Len(s) : (s \o t)[i] = s[i]
            /\ \A i \in 1 .. Len(t) : (s \o t)[Len(s) + i] = t[i]
        BY <4>2, Concatenated
      <4> QED  BY <4>1, <4>3
    <3>2. /\ Len(ClientBaseOTs \o u) = Len(ClientBaseOTs) + Len(u)
          /\ \A i \in 1 .. Len(ClientBaseOTs) : (ClientBaseOTs \o u)[i] = ClientBaseOTs[i]
          /\ \A i \in 1 .. Len(u) : (ClientBaseOTs \o u)[Len(ClientBaseOTs) + i] = u[i]
      <4>1. PICK s : s = ClientBaseOTs
        OBVIOUS
      <4>2. s \in Seq(S) /\ u \in Seq(S)
        BY <1>2, <2>1, <4>1
      <4>3. /\ Len(s \o u) = Len(s) + Len(u)
            /\ \A i \in 1 .. Len(s) : (s \o u)[i] = s[i]
            /\ \A i \in 1 .. Len(u) : (s \o u)[Len(s) + i] = u[i]
        BY <4>2, Concatenated
      <4> QED  BY <4>1, <4>3
    <3> QED  BY <1>1, <2>1, <2>2, <3>1, <3>2 DEF ScriptLength
  <2> QED  BY <2>1, <2>3
<1>4. CASE protocol = "GC"
  <2> DEFINE t == <<Send("offset"), Recv("check"), Send("gcs")>>
             u == <<Recv("offset"), Send("check"), Recv("gcs")>>
  <2>1. /\ t \in Seq(S) /\ u \in Seq(S) /\ Len(t) = 3 /\ Len(u) = 3
        /\ t[1] = Send("offset") /\ u[1] = Recv("offset")
        /\ t[2] = Recv("check") /\ u[2] = Send("check")
        /\ t[3] = Send("gcs") /\ u[3] = Recv("gcs")
    <3>1. /\ Recv("check") \in S /\ Send("check") \in S /\ Recv("offset") \in S
          /\ Send("offset") \in S /\ Recv("gcs") \in S /\ Send("gcs") \in S
      OBVIOUS
    <3> HIDE DEF S
    <3> QED  BY <3>1
  <2>2. ServerBase[protocol] = ServerBaseOTs \o t /\ ClientBase[protocol] = ClientBaseOTs \o u
    BY <1>4 DEF ServerBase, ClientBase
  <2> HIDE DEF t, u, S
  <2>3. /\ ScriptLength = 13 /\ Len(ClientBase[protocol]) = 13
        /\ \A i \in 1 .. 10 : /\ ServerBase[protocol][i] = ServerBaseOTs[i]
                              /\ ClientBase[protocol][i] = ClientBaseOTs[i]
        /\ \A j \in 1 .. 3 : /\ ServerBase[protocol][10 + j] = t[j]
                             /\ ClientBase[protocol][10 + j] = u[j]
    <3>1. /\ Len(ServerBaseOTs \o t) = Len(ServerBaseOTs) + Len(t)
          /\ \A i \in 1 .. Len(ServerBaseOTs) : (ServerBaseOTs \o t)[i] = ServerBaseOTs[i]
          /\ \A i \in 1 .. Len(t) : (ServerBaseOTs \o t)[Len(ServerBaseOTs) + i] = t[i]
      <4>1. PICK s : s = ServerBaseOTs
        OBVIOUS
      <4>2. s \in Seq(S) /\ t \in Seq(S)
        BY <1>2, <2>1, <4>1
      <4>3. /\ Len(s \o t) = Len(s) + Len(t)
            /\ \A i \in 1 .. Len(s) : (s \o t)[i] = s[i]
            /\ \A i \in 1 .. Len(t) : (s \o t)[Len(s) + i] = t[i]
        BY <4>2, Concatenated
      <4> QED  BY <4>1, <4>3
    <3>2. /\ Len(ClientBaseOTs \o u) = Len(ClientBaseOTs) + Len(u)
          /\ \A i \in 1 .. Len(ClientBaseOTs) : (ClientBaseOTs \o u)[i] = ClientBaseOTs[i]
          /\ \A i \in 1 .. Len(u) : (ClientBaseOTs \o u)[Len(ClientBaseOTs) + i] = u[i]
      <4>1. PICK s : s = ClientBaseOTs
        OBVIOUS
      <4>2. s \in Seq(S) /\ u \in Seq(S)
        BY <1>2, <2>1, <4>1
      <4>3. /\ Len(s \o u) = Len(s) + Len(u)
            /\ \A i \in 1 .. Len(s) : (s \o u)[i] = s[i]
            /\ \A i \in 1 .. Len(u) : (s \o u)[Len(s) + i] = u[i]
        BY <4>2, Concatenated
      <4> QED  BY <4>1, <4>3
    <3> QED  BY <1>1, <2>1, <2>2, <3>1, <3>2 DEF ScriptLength
  <2>4. /\ ServerBase[protocol][11] = t[1] /\ ServerBase[protocol][12] = t[2]
        /\ ServerBase[protocol][13] = t[3] /\ ClientBase[protocol][11] = u[1]
        /\ ClientBase[protocol][12] = u[2] /\ ClientBase[protocol][13] = u[3]
    BY <2>3
  <2> QED  BY <2>1, <2>3, <2>4
<1> QED  BY <1>3, <1>4 DEF Protocol

LEMMA ScriptFacts ==
    ASSUME protocol \in Protocol
    PROVE  /\ ScriptLength \in {11, 13} /\ Len(ClientBase[protocol]) = ScriptLength
           /\ \A k \in 1 .. ScriptLength :
                /\ ClientBase[protocol][k].kind = KindAt(k)
                /\ ServerBase[protocol][k].op \in {"send", "recv"}
                /\ ClientBase[protocol][k].op = IF ServerBase[protocol][k].op = "send"
                                                THEN "recv" ELSE "send"
                /\ KindAt(k) = "num_client_elements" => k = 1
                /\ KindAt(k) = "u" => k = U
           /\ PhoneSends(1) /\ KindAt(1) = "num_client_elements"
           /\ PhoneSends(U) /\ KindAt(U) = "u" /\ ClientBase[protocol][U] = Send("u")
<1>1. \A k \in 1 .. 10 :
         /\ ClientBaseOTs[k].kind = ServerBaseOTs[k].kind
         /\ ServerBaseOTs[k].op \in {"send", "recv"}
         /\ ClientBaseOTs[k].op = IF ServerBaseOTs[k].op = "send" THEN "recv" ELSE "send"
         /\ ServerBaseOTs[k].kind = "num_client_elements" => k = 1
         /\ ServerBaseOTs[k].kind = "u" => k = 8
  BY DEF ServerBaseOTs, ClientBaseOTs, Send, Recv
<1>2. /\ ServerBaseOTs[1] = Recv("num_client_elements") /\ ServerBaseOTs[8] = Recv("u")
      /\ ClientBaseOTs[8] = Send("u")
  BY DEF ServerBaseOTs, ClientBaseOTs
<1>3. ASSUME NEW k \in 1 .. ScriptLength
      PROVE  /\ ClientBase[protocol][k].kind = KindAt(k)
             /\ ServerBase[protocol][k].op \in {"send", "recv"}
             /\ ClientBase[protocol][k].op = IF ServerBase[protocol][k].op = "send"
                                             THEN "recv" ELSE "send"
             /\ KindAt(k) = "num_client_elements" => k = 1
             /\ KindAt(k) = "u" => k = U
  <2>1. k \in 1 .. 10 \/ k \in 11 .. ScriptLength
    BY Scripts
  <2>2. CASE k \in 1 .. 10
    BY <1>1, <2>2, Scripts DEF KindAt, U
  <2>3. CASE k \in 11 .. ScriptLength
    <3>1. PICK kind \in {"offset", "check", "gcs"} :
             \/ ServerBase[protocol][k] = Send(kind) /\ ClientBase[protocol][k] = Recv(kind)
             \/ ServerBase[protocol][k] = Recv(kind) /\ ClientBase[protocol][k] = Send(kind)
      BY <2>3, Scripts
    <3> QED  BY <3>1 DEF KindAt, Send, Recv
  <2> QED  BY <2>1, <2>2, <2>3
<1>4. 1 \in 1 .. ScriptLength /\ 8 \in 1 .. ScriptLength /\ 1 \in 1 .. 10 /\ 8 \in 1 .. 10
  BY Scripts
<1>5. /\ PhoneSends(1) /\ KindAt(1) = "num_client_elements"
      /\ PhoneSends(U) /\ KindAt(U) = "u" /\ ClientBase[protocol][U] = Send("u")
  BY <1>2, <1>4, Scripts DEF PhoneSends, KindAt, U, Send, Recv
<1> QED  BY <1>3, <1>5, Scripts

-----------------------------------------------------------------------------
(* The parts of the filter *)

Parts == (SizeInTags + PartSize - 1) \div PartSize

LEMMA PartsFacts ==
    /\ SizeInTags \in Nat \ {0} /\ PartSize \in Nat \ {0} /\ Parts \in Nat \ {0}
    /\ \A k \in 0 .. Parts : k * PartSize \in Nat /\ (k * PartSize < SizeInTags <=> k < Parts)
    /\ \A k \in Nat : (k + 1) * PartSize = k * PartSize + PartSize
<1>1. SizeInTags \in Nat \ {0} /\ PartSize \in Nat \ {0}
  <2>1. \A x, y \in Nat \ {0} : x * y \in Nat \ {0}
    BY SMTT(30)
  <2> QED  BY <2>1, Sizes, PSIAssumption DEF SizeInTags
<1>2. PICK n \in Nat : n = SizeInTags /\ n # 0
  BY <1>1
<1>3. PICK d \in Nat \ {0} : d = PartSize
  BY <1>1
<1>4. PICK q : q = (n + d - 1) \div d
  OBVIOUS
<1>5. q \in Nat /\ q * d <= n + d - 1 /\ n + d - 1 < (q + 1) * d
  BY <1>2, <1>3, <1>4, Quotient
<1>6. (q + 1) * d = q * d + d /\ q * d \in Nat
  BY <1>3, <1>5, SMTT(30)
<1>7. n <= q * d /\ q * d < n + d
  BY <1>2, <1>3, <1>5, <1>6
<1>8. q # 0
  BY <1>2, <1>7
<1>9. ASSUME NEW k \in 0 .. q PROVE k * d \in Nat /\ (k * d < n <=> k < q)
  <2>0. k \in Nat /\ k + 1 \in Nat /\ k * d \in Nat /\ (k + 1) * d = k * d + d
    BY <1>3, <1>5, SMTT(30)
  <2>1. CASE k = q
    BY <1>2, <1>3, <1>5, <1>7, <2>0, <2>1
  <2>2. CASE k < q
    <3>1. (k + 1) * d <= q * d
      BY <1>3, <1>5, <2>0, <2>2, Monotone
    <3> QED  BY <1>2, <1>3, <1>5, <1>6, <1>7, <2>0, <2>2, <3>1
  <2> QED  BY <1>5, <2>1, <2>2
<1>10. \A k \in Nat : (k + 1) * d = k * d + d
  BY <1>3, SMTT(30)
<1>11. Parts = q
  BY <1>2, <1>3, <1>4 DEF Parts
<1> QED  BY <1>1, <1>2, <1>3, <1>5, <1>8, <1>9, <1>10, <1>11

\* The number of a position among all tags.
Offset(p) == p[1] * kTagsPerBucket + p[2]

LEMMA OffsetFacts ==
    ASSUME NEW p \in Position
    PROVE  Offset(p) \in Nat /\ Offset(p) < SizeInTags /\ PositionAt(Offset(p)) = p
<1>1. PICK i \in Nat, j \in Nat : p = <<i, j>> /\ i < num_buckets /\ j < kTagsPerBucket
  BY Sizes DEF Position, Bucket, Slot
<1>2. PICK d \in Nat \ {0} : d = kTagsPerBucket
  BY Sizes
<1>3. PICK b \in Nat : b = num_buckets
  BY Sizes
<1>4. PICK m \in Nat : m = i * d + j
  BY <1>2, SMTT(30)
<1>5. m \div d = i /\ (m % d) = j
  BY <1>1, <1>2, <1>4, DivisionUnique
<1>6. m < b * d
  <2>1. i + 1 <= b
    BY <1>1, <1>3
  <2>2. (i + 1) * d <= b * d /\ (i + 1) * d \in Nat /\ b * d \in Nat
    BY <1>2, <1>3, <2>1, Monotone
  <2>3. (i + 1) * d = i * d + d /\ i * d \in Nat
    BY <1>2, SMTT(30)
  <2> QED  BY <1>1, <1>2, <1>4, <2>2, <2>3
<1>7. Offset(p) = m
  BY <1>1, <1>2, <1>4 DEF Offset
<1>8. SizeInTags = b * d
  BY <1>2, <1>3 DEF SizeInTags
<1>9. PositionAt(m) = <<m \div d, (m % d)>>
  BY <1>2 DEF PositionAt
<1> QED  BY <1>1, <1>4, <1>5, <1>6, <1>7, <1>8, <1>9

-----------------------------------------------------------------------------
(* The phases *)

Fresh == ot_choices = <<>> /\ keys = <<>> /\ prfOut = <<>> /\ result = {}
Faithful == copy = [table |-> table, num_items |-> num_items, hasher |-> hasher]

\* The server builds the filter, and the phone waits for the header.
Early ==
    /\ sStage \in {"encrypt", "add", "aborted"} /\ sPos = 0 /\ sStep = 1
    /\ cStage = "header" /\ cPos = 0 /\ cStep = 1
    /\ toClient = <<>> /\ toServer = <<>> /\ Fresh
    /\ copy = [table |-> [p \in Position |-> Empty], num_items |-> 0, hasher |-> copy.hasher]
    /\ copy.hasher \in Hashes

\* The messages of the setup.
SetupLength == 3 + Parts + HashParams[protocol]
SetupMessage(k) ==
    IF k = 1 THEN Message("num_server_elements", NumServer)
    ELSE IF k = 2 THEN Message("size_in_tags", SizeInTags)
    ELSE IF k = 3 THEN Message("step", PartSize)
    ELSE IF k <= 3 + Parts THEN Message("cf", Serialize((k - 4) * PartSize))
    ELSE Message("param", hasher)
SetupStream == [k \in 1 .. SetupLength |-> SetupMessage(k)]

Writer(w) ==
    \/ sStage = "parts" /\ w \in 3 .. 3 + Parts /\ sPos = (w - 3) * PartSize
    \/ sStage = "base" /\ w = SetupLength
Header == [num_server_elements |-> NumServer, size_in_tags |-> SizeInTags, step |-> PartSize]
Reader(r) ==
    \/ cStage = "header" /\ r = 0 /\ cPos = 0 /\ cStep = 1
    \/ /\ cStage = "parts" /\ expected = Header
       /\ \/ r \in 3 .. 2 + Parts /\ cPos = (r - 3) * PartSize /\ cStep = 1
          \/ /\ r \in 3 + Parts .. SetupLength - 1
             /\ cPos = Parts * PartSize /\ cStep = r - (2 + Parts)

\* The phone's filter has the tags of the parts it has read.
Copied ==
    /\ copy = [table |-> copy.table, num_items |-> copy.num_items, hasher |-> copy.hasher]
    /\ copy.table = [p \in Position |-> IF Offset(p) < cPos THEN table[p] ELSE Empty]
    /\ copy.num_items = IF cPos = 0 THEN 0 ELSE num_items
    /\ copy.hasher \in Hashes

\* The server has written w messages of the setup and the phone has read r.
Setup(w, r) ==
    /\ w \in Nat /\ r \in 0 .. w /\ Writer(w) /\ Reader(r) /\ sStep = 1
    /\ toClient = Window(SetupStream, r, w) /\ toServer = <<>>
    /\ Copied /\ Fresh

\* What the phone sends in the base phase, and then its choices; pairs and
\* random are what the OT extension gives.
CorrectedBy(random) ==
    [k \in DOMAIN random |->
        (random[k] + Bit(clientSet[k \div ElementBits + 1], k % ElementBits)) % 2]
PhoneMessage(k, pairs, random) ==
    Message(IF k <= ScriptLength THEN KindAt(k) ELSE "choices",
            IF k = 1 THEN NumClient
            ELSE IF protocol = "GC" THEN 0
            ELSE IF k = U THEN pairs
            ELSE IF k = ScriptLength + 1 THEN CorrectedBy(random)
            ELSE 0)
PhoneStream(pairs, random) == [k \in 1 .. ScriptLength + 1 |-> PhoneMessage(k, pairs, random)]
ServerStream == [k \in 1 .. ScriptLength |-> Signal(KindAt(k))]

PhoneAt(c) ==
    \/ cStage = "base" /\ c \in 1 .. ScriptLength + 1 /\ cStep = c
    \/ cStage = "online" /\ c = ScriptLength + 2

\* One of the parties is ahead of the other, and only by messages of its own.
PhoneAhead(s, c, pairs, random) ==
    /\ s <= c /\ \A k \in s .. c - 1 : ~ServerSends(k)
    /\ toServer = Window(PhoneStream(pairs, random), s - 1, c - 1) /\ toClient = <<>>
ServerAhead(s, c) ==
    /\ c <= s /\ \A k \in c .. s - 1 : ServerSends(k)
    /\ toClient = Window(ServerStream, c - 1, s - 1) /\ toServer = <<>>
Between(s, c, pairs, random) == PhoneAhead(s, c, pairs, random) \/ ServerAhead(s, c)

Transferred(c, pairs, random) ==
    IF protocol = "ECNR" /\ c > U
    THEN /\ random \in Choices(NumOTs) /\ pairs \in Keys(NumOTs)
         /\ ot_choices = random /\ keys = [k \in DOMAIN pairs |-> pairs[k][random[k]]]
    ELSE ot_choices = <<>> /\ keys = <<>>
Learned(s, pairs) ==
    /\ s > 1 => num_client_elements = NumClient
    /\ protocol = "ECNR" /\ s > U => ots = pairs

\* The server's next entry of the scripts is s and the phone's is c.
Base(s, c, pairs, random) ==
    /\ sStage = "base" /\ s \in 1 .. ScriptLength + 1 /\ sStep = s /\ PhoneAt(c)
    /\ Between(s, c, pairs, random) /\ Transferred(c, pairs, random) /\ Learned(s, pairs)
    /\ Faithful /\ prfOut = <<>> /\ result = {}

ReplyStream ==
    [k \in 1 .. Replies |->
        IF protocol = "GC" THEN Signal("labels")
        ELSE Message("oprf", Oprf(OfElement(ots, k - 1), OfElement(choices, k - 1)))]
RepliesRead == IF protocol = "GC" THEN IF prfOut = <<>> THEN 0 ELSE 1 ELSE Len(prfOut)

Matches == {i \in 1 .. NumClient : Contain(copy.table, Unused, copy.hasher[prfOut[i]])}

\* What neither party changes any more.
Settled(pairs, random) ==
    /\ sStage = "reply" /\ Faithful
    /\ Transferred(U + 1, pairs, random) /\ num_client_elements = NumClient
    /\ protocol = "ECNR" => ots = pairs /\ choices = CorrectedBy(random)
    /\ toServer = <<>>

\* The server answers and the phone evaluates.
Online(pairs, random) ==
    /\ Settled(pairs, random) /\ cStage \in {"online", "done"}
    /\ sPos \in 0 .. Replies /\ RepliesRead <= sPos
    /\ toClient = Window(ReplyStream, RepliesRead, sPos)
    /\ prfOut \in Seq(Code) /\ Len(prfOut) <= NumClient /\ SameFunction
    /\ protocol = "GC" => prfOut = <<>> \/ Len(prfOut) = NumClient
    /\ IF cStage = "done" THEN Len(prfOut) = NumClient /\ result = Matches ELSE result = {}

Phase ==
    \/ Early
    \/ \E w, r : Setup(w, r)
    \/ \E s, c, pairs, random : Base(s, c, pairs, random)
    \/ \E pairs, random : Online(pairs, random)
Inv == FilterFed /\ Phase

-----------------------------------------------------------------------------
LEMMA InitInv == Init => Inv
<1> SUFFICES ASSUME Init PROVE Inv
  OBVIOUS
<1>1. (CHOOSE h \in Hashes : TRUE) \in Hashes
  BY DEF Init
<1>2. copy = [table |-> [p \in Position |-> Empty], num_items |-> 0,
              hasher |-> CHOOSE h \in Hashes : TRUE]
  BY DEF Init, FilterInit
<1>3. copy.hasher = CHOOSE h \in Hashes : TRUE
  BY <1>2
<1>4. /\ copy = [table |-> [p \in Position |-> Empty], num_items |-> 0, hasher |-> copy.hasher]
      /\ copy.hasher \in Hashes
  BY <1>1, <1>2, <1>3
<1>5. Early
  BY <1>4 DEF Init, Early, Fresh
<1> QED  BY <1>5, InitFilterFed DEF Inv, Phase

-----------------------------------------------------------------------------
(* While the server builds the filter *)

LEMMA SetupFacts ==
    ASSUME Given
    PROVE  /\ HashParams[protocol] \in {3, 5} /\ SetupLength = 3 + Parts + HashParams[protocol]
           /\ ClientParams[protocol] = HashParams[protocol]
           /\ SetupLength \in Nat
           /\ SetupStream[1] = Message("num_server_elements", NumServer)
           /\ SetupStream[2] = Message("size_in_tags", SizeInTags)
           /\ SetupStream[3] = Message("step", PartSize)
           /\ \A k \in 0 .. Parts - 1 :
                 SetupStream[k + 4] = Message("cf", Serialize(k * PartSize))
           /\ \A k \in 4 + Parts .. SetupLength : SetupStream[k] = Message("param", hasher)
<1>1. /\ HashParams[protocol] \in {3, 5} /\ ClientParams[protocol] = HashParams[protocol]
      /\ SetupLength = 3 + Parts + HashParams[protocol] /\ Parts \in Nat \ {0}
  BY PartsFacts, GivenTypes DEF HashParams, ClientParams, SetupLength
<1>2. \A k \in 1 .. SetupLength : SetupStream[k] = SetupMessage(k)
  BY DEF SetupStream
<1>3. /\ SetupStream[1] = Message("num_server_elements", NumServer)
      /\ SetupStream[2] = Message("size_in_tags", SizeInTags)
      /\ SetupStream[3] = Message("step", PartSize)
  <2>1. 1 \in 1 .. SetupLength /\ 2 \in 1 .. SetupLength /\ 3 \in 1 .. SetupLength
    BY <1>1
  <2> QED  BY <1>2, <2>1 DEF SetupMessage
<1>4. ASSUME NEW k \in 0 .. Parts - 1
      PROVE  SetupStream[k + 4] = Message("cf", Serialize(k * PartSize))
  <2>1. /\ k + 4 \in 1 .. SetupLength /\ k + 4 <= 3 + Parts /\ (k + 4) - 4 = k
        /\ k + 4 # 1 /\ k + 4 # 2 /\ k + 4 # 3
    BY <1>1
  <2> QED  BY <1>2, <2>1 DEF SetupMessage
<1>5. ASSUME NEW k \in 4 + Parts .. SetupLength PROVE SetupStream[k] = Message("param", hasher)
  <2>1. k \in 1 .. SetupLength /\ ~(k <= 3 + Parts) /\ k # 1 /\ k # 2 /\ k # 3
    BY <1>1
  <2> QED  BY <1>2, <2>1 DEF SetupMessage
<1> QED  BY <1>1, <1>3, <1>4, <1>5

\* Only what the streams depend on.
LEMMA SetupFixed ==
    ASSUME [Next]_vars, UNCHANGED filterVars
    PROVE  SetupLength' = SetupLength /\ SetupStream' = SetupStream
BY GivenFixed DEF SetupLength, SetupStream, SetupMessage, Serialize, filterVars, NumServer

LEMMA EarlyKept ==
    ASSUME Early, UNCHANGED <<sPos, sStep, client, toClient, toServer>>,
           sStage' \in {"encrypt", "add", "aborted"}
    PROVE  Early'
BY DEF Early, Fresh, client

LEMMA EarlyHeader == ASSUME Inv, Early, SendHeader PROVE Setup(3, 0)'
<1>0. Given /\ [Next]_vars
  BY DEF Inv, FilterFed, Next, Main
<1>1. UNCHANGED <<filterVars, inputs, hasher, sPos, sStep, client, toServer>> /\ sStage' = "parts"
  BY DEF SendHeader
<1>2. toClient' = <<>> \o <<Message("num_server_elements", NumServer),
                      Message("size_in_tags", SizeInTags), Message("step", PartSize)>>
  BY DEF SendHeader, SendToClient, Early
<1>3. toClient' = Window(SetupStream, 0, 3)
  <2> DEFINE m == <<Message("num_server_elements", NumServer),
                      Message("size_in_tags", SizeInTags), Message("step", PartSize)>>
  <2>1. m = [k \in 1 .. 3 |-> SetupStream[k]]
    BY <1>0, SetupFacts
  <2>2. <<>> \o m = m
    OBVIOUS
  <2> QED  BY <1>2, <2>1, <2>2 DEF Window
<1>4. /\ cStage' = "header" /\ cPos' = 0 /\ cStep' = 1 /\ toServer' = <<>> /\ sPos' = 0 /\ sStep' = 1
      /\ copy' = [table |-> [p \in Position |-> Empty], num_items |-> 0, hasher |-> copy.hasher]
      /\ copy.hasher \in Hashes /\ Fresh'
  BY <1>1 DEF Early, client, Fresh
<1>5. Copied'
  <2>1. \A p \in Position : ~(Offset(p) < 0)
    BY OffsetFacts
  <2> QED  BY <1>4, <2>1 DEF Copied
<1>6. Writer(3)' /\ Reader(0)'
  BY <1>1, <1>4, PartsFacts DEF Writer, Reader
<1> QED  BY <1>0, <1>1, <1>3, <1>4, <1>5, <1>6, SetupFixed DEF Setup

LEMMA EarlyNext == ASSUME Inv, Early, [Next]_vars PROVE Phase'
<1>0. Given
  BY DEF Inv, FilterFed
<1>1. CASE Join \/ AddNext \/ AddStep \/ AddRefused
  <2>1. Early'
    BY <1>1, EarlyKept DEF Join, AddNext, AddStep, AddRefused, server, Early
  <2> QED  BY <2>1 DEF Phase
<1>2. CASE SendHeader
  BY <1>2, EarlyHeader DEF Phase
<1>3. ASSUME NEW t \in Threads, Encrypt(t) PROVE Phase'
  <2>1. Early'
    BY <1>3, EarlyKept DEF Encrypt, Early
  <2> QED  BY <2>1 DEF Phase
<1>4. CASE UNCHANGED vars
  <2>1. Early'
    BY <1>4, EarlyKept DEF vars, Early, server
  <2> QED  BY <2>1 DEF Phase
<1>5. ~SendPart /\ ~SendParams /\ ~ServerBaseSend /\ ~ServerBaseRecv /\ ~RecvChoices /\ ~Reply
  BY DEF Early, SendPart, SendParams, ServerBaseSend, ServerBaseRecv, RecvChoices, Reply,
         InServerBase
<1>6. ~Phone
  <2>1. ~RecvHeader
    <3>1. Len(toClient) = 0
      BY DEF Early
    <3> QED  BY <3>1 DEF RecvHeader
  <2> QED
    BY <2>1 DEF Phone, Early, RecvPart, RecvParam, ClientBaseSend, SendU,
                ClientBaseRecv, SendChoices, RecvReply, Intersect, InClientBase
<1> QED  BY <1>1, <1>2, <1>3, <1>4, <1>5, <1>6 DEF Next, Main

-----------------------------------------------------------------------------
(* The setup *)

\* What the setup of the server leaves to the phone.
LEMMA PhoneWaits ==
    ASSUME NEW w, NEW r, Setup(w, r), [Next]_vars, UNCHANGED <<filterVars, client, toServer>>
    PROVE  /\ Reader(r)' /\ Copied' /\ Fresh' /\ toServer' = <<>> /\ SetupStream' = SetupStream
<1>1. Header' = Header /\ SetupLength' = SetupLength /\ SetupStream' = SetupStream
  BY GivenFixed, SetupFixed DEF Header, NumServer
<1> QED  BY <1>1 DEF Setup, Reader, Copied, Fresh, client, filterVars

LEMMA PartSent ==
    ASSUME NEW w, NEW r, Setup(w, r), Given, [Next]_vars, SendPart
    PROVE  Setup(w + 1, r)'
<1>1. /\ sStage = "parts" /\ sPos < SizeInTags /\ sPos' = sPos + PartSize
      /\ UNCHANGED <<filterVars, client, toServer, sStage, sStep>>
      /\ toClient' = toClient \o <<Message("cf", Serialize(sPos))>>
  BY DEF SendPart, SendToClient
<1>2. w \in 3 .. 3 + Parts /\ sPos = (w - 3) * PartSize /\ r \in Nat /\ r <= w
  BY <1>1 DEF Setup, Writer
<1>3. PICK k \in 0 .. Parts : k = w - 3
  BY <1>2, PartsFacts
<1>4. k \in 0 .. Parts - 1 /\ k + 4 = w + 1 /\ w \in Nat
  <2>1. k * PartSize < SizeInTags <=> k < Parts
    BY PartsFacts
  <2>2. k < Parts
    BY <1>1, <1>2, <1>3, <2>1
  <2> QED  BY <1>2, <1>3, <2>2, PartsFacts
<1>5. SetupStream[w + 1] = Message("cf", Serialize(sPos))
  BY <1>2, <1>3, <1>4, SetupFacts
<1>6. toClient' = Window(SetupStream, r, w + 1)
  BY <1>1, <1>2, <1>4, <1>5, WindowAppend DEF Setup
<1>7. sPos' = (k + 1) * PartSize /\ k + 1 = (w + 1) - 3 /\ w + 1 \in 3 .. 3 + Parts
  BY <1>1, <1>2, <1>3, <1>4, PartsFacts
<1>8. PICK v \in Nat : v = w + 1
  BY <1>4
<1>9. Writer(v)'
  BY <1>1, <1>7, <1>8 DEF Writer
<1>10. Setup(v, r)'
  BY <1>1, <1>2, <1>6, <1>8, <1>9, PhoneWaits, SMTT(60) DEF Setup
<1> QED  BY <1>8, <1>10

LEMMA ParamsSent ==
    ASSUME NEW w, NEW r, Setup(w, r), Given, [Next]_vars, SendParams
    PROVE  Setup(SetupLength, r)'
<1>1. /\ sStage = "parts" /\ ~(sPos < SizeInTags) /\ sStage' = "base"
      /\ UNCHANGED <<filterVars, client, toServer, sStep>>
      /\ toClient' = toClient \o [k \in 1 .. HashParams[protocol] |-> Message("param", hasher)]
  <2>1. sPos >= SizeInTags /\ sPos \in Nat
    BY PartsFacts DEF SendParams, Setup, Writer
  <2> QED  BY <2>1, PartsFacts DEF SendParams, SendToClient
<1>2. w \in 3 .. 3 + Parts /\ sPos = (w - 3) * PartSize /\ r \in Nat /\ r <= w
  BY <1>1 DEF Setup, Writer
<1>3. PICK k \in 0 .. Parts : k = w - 3
  BY <1>2, PartsFacts
<1>4. w = 3 + Parts /\ w \in Nat /\ Parts \in Nat
  <2>1. k * PartSize < SizeInTags <=> k < Parts
    BY PartsFacts
  <2>2. ~(k < Parts)
    BY <1>1, <1>2, <1>3, <2>1
  <2> QED  BY <1>2, <1>3, <2>2, PartsFacts
<1>5. PICK n \in Nat : n = HashParams[protocol] /\ SetupLength = w + n
  BY <1>4, SetupFacts
<1>6. toClient' = Window(SetupStream, r, w + n)
  <2>1. \A i \in 1 .. n : w + i \in 4 + Parts .. SetupLength
    BY <1>4, <1>5
  <2>2. \A i \in 1 .. n : SetupStream[w + i] = Message("param", hasher)
    BY <2>1, SetupFacts
  <2>3. toClient' = Window(SetupStream, r, w) \o [i \in 1 .. n |-> SetupStream[w + i]]
    BY <1>1, <1>5, <2>2 DEF Setup
  <2>4. Lengthens(SetupStream, r, w, n)
    BY ONLY <1>2, <1>4, WindowWrite, n \in Nat
  <2> QED  BY ONLY <2>3, <2>4 DEF Lengthens
<1>7. PICK v \in Nat : v = SetupLength /\ r <= v
  BY <1>2, <1>4, <1>5
<1>8. v = SetupLength'
  BY <1>1, <1>7, SetupFixed
<1>9. Writer(v)'
  BY <1>1, <1>8 DEF Writer
<1>10. sStep' = 1 /\ r \in 0 .. v /\ toClient' = Window(SetupStream', r, v)
  <2>1. SetupStream' = SetupStream
    BY <1>1, SetupFixed
  <2>2. sStep' = 1
    BY <1>1 DEF Setup
  <2> QED  BY <1>2, <1>5, <1>6, <1>7, <2>1, <2>2
<1>11. Setup(v, r)'
  BY <1>1, <1>7, <1>9, <1>10, PhoneWaits DEF Setup
<1> QED  BY <1>8, <1>11

\* What the phone's setup leaves to the server.
LEMMA ServerWaits ==
    ASSUME NEW w, NEW r, Setup(w, r), Phone
    PROVE  /\ Writer(w)' /\ sStep' = 1 /\ SetupStream' = SetupStream
           /\ UNCHANGED <<filterVars, protocol, serverSet, hasher>>
<1>1. UNCHANGED <<filterVars, inputs, server>> /\ [Next]_vars
  BY PhoneKeeps DEF Next
<1>2. SetupLength' = SetupLength /\ SetupStream' = SetupStream
  BY <1>1, SetupFixed
<1> QED  BY <1>1, <1>2 DEF Setup, Writer, server, inputs

LEMMA HeaderRead ==
    ASSUME NEW w, NEW r, Setup(w, r), Given, RecvHeader
    PROVE  Setup(w, 3)'
<1>1. /\ cStage = "header" /\ cStage' = "parts"
      /\ expected' = [num_server_elements |-> toClient[1].body,
                      size_in_tags |-> toClient[2].body, step |-> toClient[3].body]
      /\ toClient' = SubSeq(toClient, 4, Len(toClient))
      /\ UNCHANGED <<copy, cPos, cStep, ot_choices, keys, prfOut, result, toServer>>
  BY DEF RecvHeader
<1>2. r = 0 /\ cPos = 0 /\ cStep = 1
  BY <1>1 DEF Setup, Reader
<1>3. w \in Nat /\ 3 <= w
  BY SetupFacts, PartsFacts DEF Setup, Writer
<1>4. toClient = Window(SetupStream, 0, w)
  BY <1>2 DEF Setup
<1>5. toClient[1] = SetupStream[1] /\ toClient[2] = SetupStream[2] /\ toClient[3] = SetupStream[3]
  <2>1. 1 \in 1 .. w - 0 /\ 2 \in 1 .. w - 0 /\ 3 \in 1 .. w - 0 /\ 0 \in Nat /\ 0 <= w
    BY <1>3
  <2>2. \A i \in 1 .. w - 0 : toClient[i] = SetupStream[0 + i]
    BY <1>3, <1>4, <2>1, WindowElement
  <2> QED  BY <2>1, <2>2
<1>6. expected' = Header
  BY <1>1, <1>5, SetupFacts DEF Message, Header
<1>7. toClient' = Window(SetupStream, 3, w)
  <2>1. 0 + 3 <= w /\ 0 \in Nat /\ 3 \in Nat
    BY <1>3
  <2>2. SubSeq(Window(SetupStream, 0, w), 3 + 1, Len(Window(SetupStream, 0, w)))
             = Window(SetupStream, 0 + 3, w)
    BY <1>3, <2>1, WindowSkip
  <2> QED  BY <1>1, <1>4, <2>2
<1>8. Phone
  BY DEF Phone
<1>9. Writer(w)' /\ sStep' = 1 /\ SetupStream' = SetupStream
      /\ UNCHANGED <<filterVars, protocol, serverSet, hasher>>
  BY <1>8, ServerWaits
<1>10. Reader(3)'
  BY <1>1, <1>2, <1>6, <1>9, PartsFacts DEF Reader, Header, NumServer
<1>11. Copied' /\ Fresh'
  BY <1>1, <1>9 DEF Setup, Copied, Fresh, filterVars
<1> QED  BY <1>1, <1>3, <1>7, <1>9, <1>10, <1>11 DEF Setup

\* The tags of the part are written where they are in the server's table.
LEMMA PartCopied ==
    ASSUME NEW k \in 0 .. Parts - 1, cPos = k * PartSize, Copied,
           copy' = Deserialize(Serialize(k * PartSize)), cPos' = cPos + PartSize,
           UNCHANGED filterVars
    PROVE  Copied'
<1>1. PICK d \in Nat \ {0} : d = PartSize
  BY PartsFacts
<1>2. PICK n \in Nat : n = SizeInTags
  BY PartsFacts
<1>3. PICK b \in Nat : b = cPos /\ b < n
  BY <1>2, PartsFacts
<1>4. PICK l \in Nat : l = PartLength(b) /\ l = IF d < n - b THEN d ELSE n - b
  BY <1>1, <1>2, <1>3 DEF PartLength
<1>5. PICK part : part = Serialize(b)
  OBVIOUS
<1>6. /\ part.num_items = num_items
      /\ part.tags = [i \in 0 .. l - 1 |-> table[PositionAt(b + i)]]
  BY <1>4, <1>5 DEF Serialize
<1>7. copy' = [copy EXCEPT !.num_items = part.num_items,
                 !.table = [p \in Position |->
                      LET i == PartOffset(p)
                      IN  IF i \in DOMAIN part.tags /\ part.tags[i] # Empty
                          THEN part.tags[i] ELSE copy.table[p]]]
  BY <1>3, <1>5 DEF Deserialize
<1>8. copy = [table |-> copy.table, num_items |-> copy.num_items, hasher |-> copy.hasher]
  BY DEF Copied
<1>9. /\ copy'.table = [p \in Position |->
                      IF PartOffset(p) \in DOMAIN part.tags /\ part.tags[PartOffset(p)] # Empty
                      THEN part.tags[PartOffset(p)] ELSE copy.table[p]]
      /\ copy'.num_items = num_items /\ copy'.hasher = copy.hasher
      /\ copy' = [table |-> copy'.table, num_items |-> copy'.num_items, hasher |-> copy'.hasher]
  BY <1>6, <1>7, <1>8
<1>10. ASSUME NEW p \in Position
       PROVE  copy'.table[p] = IF Offset(p) < b + d THEN table[p] ELSE Empty
  <2>1. PICK o \in Nat : o = Offset(p) /\ o < n /\ PositionAt(o) = p
    BY <1>2, OffsetFacts
  <2>2. PartOffset(p) = o - b
    <3>1. p[1] \in Nat /\ p[2] \in Nat /\ kTagsPerBucket \in Nat
      BY Sizes DEF Position, Bucket, Slot
    <3>2. PICK x \in Nat : x = p[1] * kTagsPerBucket
      BY <3>1, SMTT(30)
    <3>3. PartOffset(p) = x + (p[2] - b) /\ o = x + p[2]
      BY <1>3, <2>1, <3>2 DEF PartOffset, Offset
    <3> QED  BY <1>3, <2>1, <3>1, <3>3
  <2>3. copy.table[p] = IF o < b THEN table[p] ELSE Empty
    BY <1>3, <2>1 DEF Copied
  <2>4. DOMAIN part.tags = 0 .. l - 1
    BY <1>6
  <2>5. copy'.table[p] = IF o - b \in 0 .. l - 1 /\ part.tags[o - b] # Empty
                         THEN part.tags[o - b] ELSE copy.table[p]
    BY <1>9, <2>2, <2>4
  <2>6. CASE o - b \in 0 .. l - 1
    <3>1. part.tags[o - b] = table[p]
      <4>1. b + (o - b) = o
        BY <2>1, <1>3
      <4> QED  BY <1>6, <2>1, <2>6, <4>1
    <3>2. ~(o < b) /\ o < b + d
      BY <1>1, <1>2, <1>3, <1>4, <2>1, <2>6
    <3> QED  BY <2>1, <2>3, <2>5, <2>6, <3>1, <3>2
  <2>7. CASE o - b \notin 0 .. l - 1
    <3>1. o < b <=> o < b + d
      BY <1>1, <1>2, <1>3, <1>4, <2>1, <2>7
    <3> QED  BY <2>1, <2>3, <2>5, <2>7, <3>1
  <2> QED  BY <2>6, <2>7
<1>11. cPos' = b + d /\ cPos' # 0
  BY <1>1, <1>3
<1>12. copy'.table = [p \in Position |-> IF Offset(p) < cPos' THEN table'[p] ELSE Empty]
  BY <1>9, <1>10, <1>11 DEF filterVars
<1> QED  BY <1>9, <1>11, <1>12 DEF Copied, filterVars

\* The next message is the next one of the stream.
LEMMA NextRead ==
    ASSUME NEW f, NEW r \in Nat, NEW w \in Nat, r <= w, toClient = Window(f, r, w), FromServer
    PROVE  r < w /\ Head(toClient) = f[r + 1] /\ toClient' = Window(f, r + 1, w)
<1>1. toClient # <<>> /\ toClient' = Tail(toClient)
  BY DEF FromServer
<1>2. r < w
  BY <1>1, WindowEmpty
<1> QED  BY <1>1, <1>2, WindowRead

LEMMA PartRead ==
    ASSUME NEW w, NEW r, Setup(w, r), Given, RecvPart
    PROVE  Setup(w, r + 1)'
<1>1. /\ cStage = "parts" /\ cPos < expected.size_in_tags /\ FromServer
      /\ copy' = Deserialize(Head(toClient).body) /\ cPos' = cPos + expected.step
      /\ UNCHANGED <<expected, cStage, cStep, ot_choices, keys, prfOut, result, toServer>>
  BY DEF RecvPart, Received
<1>2. w \in Nat /\ r \in Nat /\ r <= w
  BY DEF Setup
<1>3. expected = Header /\ cPos < SizeInTags /\ cPos' = cPos + PartSize
  BY <1>1 DEF Setup, Reader, Header
<1>4. r \in 3 .. 2 + Parts /\ cPos = (r - 3) * PartSize /\ cStep = 1
  <2>1. ~(cPos = Parts * PartSize)
    <3>1. Parts \in 0 .. Parts
      BY PartsFacts
    <3> QED  BY <1>3, <3>1, PartsFacts
  <2> QED  BY <1>1, <2>1 DEF Setup, Reader
<1>5. PICK k \in 0 .. Parts - 1 : k = r - 3 /\ k + 4 = r + 1
  BY <1>2, <1>4, PartsFacts
<1>6. /\ r < w /\ Head(toClient) = SetupStream[r + 1]
      /\ toClient' = Window(SetupStream, r + 1, w)
  BY <1>1, <1>2, NextRead DEF Setup
<1>7. Head(toClient).body = Serialize(k * PartSize)
  <2>1. SetupStream[k + 4] = Message("cf", Serialize(k * PartSize))
    BY SetupFacts
  <2>2. Head(toClient) = Message("cf", Serialize(k * PartSize))
    BY <1>5, <1>6, <2>1
  <2> QED  BY <2>2 DEF Message
<1>8. Phone
  BY <1>1 DEF Phone, RecvPart
<1>9. Writer(w)' /\ sStep' = 1 /\ SetupStream' = SetupStream
      /\ UNCHANGED <<filterVars, protocol, serverSet, hasher>>
  BY <1>8, ServerWaits
<1>10. Copied'
  BY <1>1, <1>3, <1>4, <1>5, <1>7, <1>9, PartCopied DEF Setup
<1>11. PICK q \in Nat : q = r + 1 /\ q <= w
  BY <1>2, <1>6
<1>12. cPos' = (k + 1) * PartSize /\ k + 1 = q - 3
  BY <1>3, <1>4, <1>5, <1>11, PartsFacts
<1>13. Reader(q)'
  <2>1. expected' = Header' /\ SetupLength' = SetupLength
    BY <1>1, <1>3, <1>9 DEF Header, NumServer, SetupLength
  <2>2. CASE k + 1 < Parts
    <3>1. q \in 3 .. 2 + Parts
      BY <1>5, <1>11, <2>2, PartsFacts
    <3> QED  BY <1>1, <1>4, <1>12, <2>1, <3>1 DEF Reader
  <2>3. CASE k + 1 = Parts
    <3>1. q = 3 + Parts /\ q \in 3 + Parts .. SetupLength - 1 /\ q - (2 + Parts) = 1
      BY <1>5, <1>11, <2>3, SetupFacts, PartsFacts
    <3> QED  BY <1>1, <1>4, <1>12, <2>1, <2>3, <3>1 DEF Reader
  <2> QED  BY <1>5, <2>2, <2>3, PartsFacts
<1>14. Fresh' /\ toServer' = <<>>
  BY <1>1 DEF Setup, Fresh
<1>15. Setup(w, q)'
  BY <1>2, <1>6, <1>9, <1>10, <1>11, <1>13, <1>14 DEF Setup
<1> QED  BY <1>11, <1>15

LEMMA ParamRead ==
    ASSUME NEW w, NEW r, Setup(w, r), Given, FilterTypeOK, RecvParam
    PROVE  Setup(w, r + 1)' \/ (\E pairs, random : Base(1, 1, pairs, random)')
<1>1. /\ cStage = "parts" /\ ~(cPos < expected.size_in_tags) /\ FromServer
      /\ UNCHANGED <<inputs, expected, cPos, ot_choices, keys, prfOut, result, toServer>>
  <2>1. cPos \in Nat /\ expected.size_in_tags \in Nat
    <3>1. \A j \in 0 .. Parts : j * PartSize \in Nat
      BY PartsFacts
    <3>2. cStage = "parts"
      BY DEF RecvParam
    <3>3. \E j \in 0 .. Parts : cPos = j * PartSize
      <4>1. CASE r \in 3 .. 2 + Parts /\ cPos = (r - 3) * PartSize
        <5>1. r - 3 \in 0 .. Parts
          BY <4>1, PartsFacts
        <5> QED  BY <4>1, <5>1
      <4>2. CASE cPos = Parts * PartSize
        BY <4>2, PartsFacts
      <4> QED  BY <3>2, <4>1, <4>2 DEF Setup, Reader
    <3> QED  BY <3>1, <3>2, <3>3, PartsFacts DEF Setup, Reader, Header
  <2> QED  BY <2>1 DEF RecvParam
<1>2. w \in Nat /\ r \in Nat /\ r <= w
  BY DEF Setup
<1>3. expected = Header /\ ~(cPos < SizeInTags)
  BY <1>1 DEF Setup, Reader, Header
<1>4. /\ r \in 3 + Parts .. SetupLength - 1
      /\ cPos = Parts * PartSize /\ cStep = r - (2 + Parts)
  <2>1. ~(r \in 3 .. 2 + Parts /\ cPos = (r - 3) * PartSize)
    <3> SUFFICES ASSUME r \in 3 .. 2 + Parts, cPos = (r - 3) * PartSize PROVE FALSE
      OBVIOUS
    <3>1. PICK k \in 0 .. Parts : k = r - 3 /\ k < Parts
      BY PartsFacts
    <3>2. k * PartSize < SizeInTags
      BY <3>1, PartsFacts
    <3> QED  BY <1>3, <3>1, <3>2
  <2> QED  BY <1>1, <2>1 DEF Setup, Reader
<1>5. /\ r < w /\ Head(toClient) = SetupStream[r + 1]
      /\ toClient' = Window(SetupStream, r + 1, w)
  BY <1>1, <1>2, NextRead DEF Setup
<1>6. Parts \in Nat /\ w = SetupLength /\ sStage = "base"
  BY <1>4, <1>5, SetupFacts, PartsFacts DEF Setup, Writer
<1>7. Head(toClient).body = hasher
  <2>1. r + 1 \in 4 + Parts .. SetupLength
    BY <1>2, <1>4, <1>5, <1>6, SetupFacts
  <2> QED  BY <1>5, <2>1, SetupFacts DEF Message
<1>8. Writer(w)' /\ sStep' = 1 /\ SetupStream' = SetupStream
      /\ UNCHANGED <<filterVars, protocol, serverSet, hasher, sStage>>
  BY PhoneKeeps, ServerWaits DEF Phone, server
<1>9. PICK n \in Nat : n = HashParams[protocol] /\ SetupLength = 3 + Parts + n
                        /\ n = ClientParams[protocol] /\ n >= 3
  BY SetupFacts
<1>10. CASE cStep < n
  <2>1. cStep' = cStep + 1 /\ UNCHANGED <<copy, cStage>>
    BY <1>9, <1>10 DEF RecvParam
  <2>2. PICK q \in Nat : q = r + 1 /\ q <= w
    BY <1>2, <1>5
  <2>3. q \in 3 + Parts .. SetupLength - 1 /\ cStep' = q - (2 + Parts)
    BY <1>2, <1>4, <1>6, <1>9, <1>10, <2>1, <2>2
  <2>4. expected' = Header' /\ SetupLength' = SetupLength
    BY <1>1, <1>3, <1>8 DEF Header, NumServer, SetupLength
  <2>5. Reader(q)'
    BY <1>1, <1>4, <2>1, <2>3, <2>4 DEF Reader
  <2>6. Copied' /\ Fresh' /\ toServer' = <<>>
    BY <1>1, <1>8, <2>1 DEF Setup, Copied, Fresh, filterVars
  <2>7. Setup(w, q)'
    BY <1>2, <1>5, <1>8, <2>2, <2>5, <2>6 DEF Setup
  <2> QED  BY <2>2, <2>7
<1>11. CASE ~(cStep < n)
  <2>1. copy' = [copy EXCEPT !.hasher = hasher] /\ cStage' = "base" /\ cStep' = 1
    BY <1>7, <1>9, <1>11 DEF RecvParam, Received
  <2>2. r + 1 = w
    BY <1>2, <1>4, <1>5, <1>6, <1>9, <1>11
  <2>3. toClient' = <<>> /\ toServer' = <<>>
    <3>1. Window(SetupStream, w, w) = <<>>
      BY <1>2, WindowEmpty
    <3> QED  BY <1>1, <1>5, <2>2, <3>1 DEF Setup
  <2>4. Faithful'
    <3>1. copy = [table |-> copy.table, num_items |-> copy.num_items, hasher |-> copy.hasher]
      BY DEF Setup, Copied
    <3>2. copy.num_items = num_items
      <4>1. cPos # 0
        BY <1>3, <1>4, PartsFacts
      <4> QED  BY <4>1 DEF Setup, Copied
    <3>3. copy.table = table
      <4>1. \A p \in Position : Offset(p) < cPos
        <5>1. cPos \in Nat
          BY <1>4, PartsFacts
        <5> QED  BY <1>3, <5>1, OffsetFacts, PartsFacts
      <4>2. table = [p \in Position |-> table[p]]
        BY DEF FilterTypeOK
      <4> QED  BY <4>1, <4>2 DEF Setup, Copied
    <3> QED  BY <1>8, <2>1, <3>1, <3>2, <3>3 DEF Faithful, filterVars
  <2>5. ScriptLength' \in Nat /\ ScriptLength' >= 11
    <3>1. ScriptLength \in {11, 13}
      BY ScriptFacts DEF Given
    <3>2. ScriptLength' = ScriptLength
      BY <1>8 DEF ScriptLength
    <3> QED  BY <3>1, <3>2
  <2>6. Between(1, 1, 0, 0)'
    <3>1. \A f : Window(f, 0, 0) = <<>>
      BY WindowEmpty
    <3>2. \A k \in 1 .. 1 - 1 : FALSE
      OBVIOUS
    <3> QED  BY <2>3, <3>1, <3>2 DEF Between, PhoneAhead
  <2>7. Transferred(1, 0, 0)' /\ Learned(1, 0)' /\ prfOut' = <<>> /\ result' = {}
    BY <1>1 DEF Setup, Fresh, Transferred, Learned, U
  <2>8. Base(1, 1, 0, 0)'
    BY <1>6, <1>8, <2>1, <2>4, <2>5, <2>6, <2>7 DEF Base, PhoneAt
  <2> QED  BY <2>8
<1> QED  BY <1>10, <1>11

LEMMA SetupNext ==
    ASSUME Inv, NEW w, NEW r, Setup(w, r), [Next]_vars
    PROVE  Phase'
<1>1. Given /\ FilterTypeOK
  BY DEF Inv, FilterFed, IInv
<1>2. /\ sStage \in {"parts", "base"} /\ cStage \in {"header", "parts"} /\ sStep = 1
      /\ toServer = <<>>
  BY DEF Setup, Writer, Reader
<1>3. CASE SendPart
  BY <1>1, <1>3, PartSent DEF Phase
<1>4. CASE SendParams
  BY <1>1, <1>4, ParamsSent DEF Phase
<1>5. CASE RecvHeader
  BY <1>1, <1>5, HeaderRead DEF Phase
<1>6. CASE RecvPart
  BY <1>1, <1>6, PartRead DEF Phase
<1>7. CASE RecvParam
  BY <1>1, <1>7, ParamRead DEF Phase
<1>8. CASE UNCHANGED vars
  <2>1. UNCHANGED <<filterVars, client, toServer, toClient, sStage, sPos, sStep>>
    BY <1>8 DEF vars, server
  <2>2. Writer(w)'
    BY <2>1, SetupFixed DEF Setup, Writer
  <2>3. sStep' = 1 /\ toClient' = Window(SetupStream', r, w) /\ r \in 0 .. w /\ w \in Nat
    BY <2>1, SetupFixed DEF Setup
  <2>4. Setup(w, r)'
    BY <2>1, <2>2, <2>3, PhoneWaits DEF Setup
  <2> QED  BY <2>4 DEF Phase
<1>9. ~ServerBaseSend
  <2>1. protocol \in Protocol /\ PhoneSends(1)
    BY <1>1, ScriptFacts DEF Given
  <2> QED  BY <1>2, <2>1 DEF ServerBaseSend, PhoneSends, ServerOp
<1>10. /\ ~Join /\ ~AddNext /\ ~AddStep /\ ~AddRefused /\ ~SendHeader /\ ~ServerBaseRecv
       /\ ~RecvChoices /\ ~Reply /\ \A t \in Threads : ~Encrypt(t)
  BY <1>2 DEF Join, AddNext, AddStep, AddRefused, SendHeader, ServerBaseRecv, RecvChoices,
              Reply, Encrypt, FromClient
<1>11. /\ ~ClientBaseSend /\ ~SendU /\ ~ClientBaseRecv /\ ~SendChoices /\ ~RecvReply /\ ~Intersect
  BY <1>2 DEF ClientBaseSend, SendU, ClientBaseRecv, SendChoices, RecvReply, Intersect,
              InClientBase
<1> QED
  BY <1>3, <1>4, <1>5, <1>6, <1>7, <1>8, <1>9, <1>10, <1>11 DEF Next, Main, Phone

-----------------------------------------------------------------------------
(* The base phase *)

\* The scripts are fixed.
LEMMA StreamsFixed ==
    ASSUME [Next]_vars
    PROVE  /\ protocol' = protocol /\ ScriptLength' = ScriptLength
           /\ NumClient' = NumClient /\ NumOTs' = NumOTs
           /\ ServerStream' = ServerStream
           /\ \A k : KindAt(k)' = KindAt(k) /\ ServerSends(k)' = ServerSends(k)
                     /\ PhoneSends(k)' = PhoneSends(k)
           /\ \A pairs, random : PhoneStream(pairs, random)' = PhoneStream(pairs, random)
<1>1. protocol' = protocol /\ clientSet' = clientSet
  BY GivenFixed
<1>2. ScriptLength' = ScriptLength /\ \A k : KindAt(k)' = KindAt(k)
  BY <1>1 DEF ScriptLength, KindAt
<1>4. \A k : ServerSends(k)' = ServerSends(k) /\ PhoneSends(k)' = PhoneSends(k)
  BY <1>1, <1>2 DEF ServerSends, PhoneSends
<1>5. ServerStream' = ServerStream
  BY <1>2 DEF ServerStream
<1>6. NumClient' = NumClient
  BY <1>1 DEF NumClient
<1>7. NumOTs' = NumOTs
  BY <1>6 DEF NumOTs
<1>8. \A pairs, random : PhoneStream(pairs, random)' = PhoneStream(pairs, random)
  BY <1>1, <1>2, <1>6 DEF PhoneStream, PhoneMessage, CorrectedBy
<1> QED  BY <1>1, <1>2, <1>4, <1>5, <1>6, <1>7, <1>8

LEMMA PhoneStreamFacts ==
    ASSUME Given, NEW pairs, NEW random
    PROVE  /\ \A k \in 2 .. ScriptLength :
                 k # U => PhoneStream(pairs, random)[k] = Message(KindAt(k), 0)
           /\ PhoneStream(pairs, random)[1] = Message("num_client_elements", NumClient)
           /\ PhoneStream(pairs, random)[U] =
                 Message("u", IF protocol = "GC" THEN 0 ELSE pairs)
           /\ PhoneStream(pairs, random)[ScriptLength + 1] =
                 Message("choices", IF protocol = "GC" THEN 0 ELSE CorrectedBy(random))
<1>1. ScriptLength \in Nat /\ ScriptLength >= 11 /\ U = 8
  BY ScriptFacts DEF Given, U
<1>2. \A k \in 1 .. ScriptLength + 1 :
          PhoneStream(pairs, random)[k] = PhoneMessage(k, pairs, random)
  BY DEF PhoneStream
<1>3. KindAt(1) = "num_client_elements" /\ KindAt(U) = "u"
  BY ScriptFacts DEF Given
<1>4. ASSUME NEW k \in 2 .. ScriptLength, k # U
      PROVE  PhoneStream(pairs, random)[k] = Message(KindAt(k), 0)
  <2>1. k \in 1 .. ScriptLength + 1 /\ k # 1 /\ k # ScriptLength + 1 /\ k <= ScriptLength
    BY <1>1
  <2> QED  BY <1>2, <1>4, <2>1 DEF PhoneMessage
<1>5. PhoneStream(pairs, random)[1] = Message("num_client_elements", NumClient)
  <2>1. 1 \in 1 .. ScriptLength + 1 /\ 1 <= ScriptLength
    BY <1>1
  <2> QED  BY <1>2, <1>3, <2>1 DEF PhoneMessage
<1>6. PhoneStream(pairs, random)[U] = Message("u", IF protocol = "GC" THEN 0 ELSE pairs)
  <2>1. U \in 1 .. ScriptLength + 1 /\ U <= ScriptLength /\ U # 1
    BY <1>1
  <2> QED  BY <1>2, <1>3, <2>1 DEF PhoneMessage
<1>7. PhoneStream(pairs, random)[ScriptLength + 1] =
                 Message("choices", IF protocol = "GC" THEN 0 ELSE CorrectedBy(random))
  <2>1. /\ ScriptLength + 1 \in 1 .. ScriptLength + 1 /\ ~(ScriptLength + 1 <= ScriptLength)
        /\ ScriptLength + 1 # 1 /\ ScriptLength + 1 # U
    BY <1>1
  <2> QED  BY <1>2, <2>1 DEF PhoneMessage
<1> QED  BY <1>4, <1>5, <1>6, <1>7

LEMMA Level ==
    ASSUME NEW s \in Nat \ {0}, NEW pairs, NEW random
    PROVE  PhoneAhead(s, s, pairs, random) = ServerAhead(s, s)
<1>1. s - 1 \in Nat /\ \A k \in s .. s - 1 : FALSE
  OBVIOUS
<1>2. \A f : Window(f, s - 1, s - 1) = <<>>
  BY <1>1, WindowEmpty
<1> QED  BY <1>1, <1>2 DEF PhoneAhead, ServerAhead

\* A party that is to write next is not behind.
LEMMA ServerTurn ==
    ASSUME NEW s \in Nat \ {0}, NEW c \in Nat \ {0}, NEW pairs, NEW random,
           Between(s, c, pairs, random), ServerSends(s)
    PROVE  ServerAhead(s, c)
<1>1. CASE PhoneAhead(s, c, pairs, random)
  <2>1. s <= c /\ \A k \in s .. c - 1 : ~ServerSends(k)
    BY <1>1 DEF PhoneAhead
  <2>2. s = c
    <3>1. ~(s \in s .. c - 1)
      BY <2>1
    <3> QED  BY <2>1, <3>1
  <2> QED  BY <1>1, <2>2, Level
<1> QED  BY <1>1 DEF Between

LEMMA PhoneTurn ==
    ASSUME NEW s \in Nat \ {0}, NEW c \in Nat \ {0}, NEW pairs, NEW random,
           Between(s, c, pairs, random), ~ServerSends(c)
    PROVE  PhoneAhead(s, c, pairs, random)
<1>1. CASE ServerAhead(s, c)
  <2>1. c <= s /\ \A k \in c .. s - 1 : ServerSends(k)
    BY <1>1 DEF ServerAhead
  <2>2. s = c
    <3>1. ~(c \in c .. s - 1)
      BY <2>1
    <3> QED  BY <2>1, <3>1
  <2> QED  BY <1>1, <2>2, Level
<1> QED  BY <1>1 DEF Between

\* What a party reads is what the other one is ahead with.
LEMMA ServerReads ==
    ASSUME NEW s \in Nat \ {0}, NEW c \in Nat \ {0}, NEW pairs, NEW random,
           Between(s, c, pairs, random), FromClient
    PROVE  /\ s < c /\ Head(toServer) = PhoneStream(pairs, random)[s]
           /\ toServer' = Window(PhoneStream(pairs, random), s, c - 1)
           /\ toClient = <<>> /\ \A k \in s .. c - 1 : ~ServerSends(k)
<1>1. PhoneAhead(s, c, pairs, random)
  BY DEF Between, ServerAhead, FromClient
<1>2. /\ toServer = Window(PhoneStream(pairs, random), s - 1, c - 1)
      /\ s - 1 \in Nat /\ c - 1 \in Nat /\ s - 1 <= c - 1
  BY <1>1 DEF PhoneAhead
<1>3. s - 1 < c - 1
  BY <1>2, WindowEmpty DEF FromClient
<1>4. /\ Head(toServer) = PhoneStream(pairs, random)[(s - 1) + 1]
      /\ Tail(toServer) = Window(PhoneStream(pairs, random), (s - 1) + 1, c - 1)
  BY <1>2, <1>3, WindowRead
<1>5. (s - 1) + 1 = s
  OBVIOUS
<1> QED  BY <1>1, <1>3, <1>4, <1>5 DEF PhoneAhead, FromClient

LEMMA PhoneReads ==
    ASSUME NEW s \in Nat \ {0}, NEW c \in Nat \ {0}, NEW pairs, NEW random,
           Between(s, c, pairs, random), FromServer
    PROVE  /\ c < s /\ Head(toClient) = ServerStream[c]
           /\ toClient' = Window(ServerStream, c, s - 1)
           /\ toServer = <<>> /\ \A k \in c .. s - 1 : ServerSends(k)
<1>1. ServerAhead(s, c)
  BY DEF Between, PhoneAhead, FromServer
<1>2. /\ toClient = Window(ServerStream, c - 1, s - 1)
      /\ s - 1 \in Nat /\ c - 1 \in Nat /\ c - 1 <= s - 1
  BY <1>1 DEF ServerAhead
<1>3. /\ c - 1 < s - 1 /\ Head(toClient) = ServerStream[(c - 1) + 1]
      /\ toClient' = Window(ServerStream, (c - 1) + 1, s - 1)
  BY <1>2, NextRead
<1>4. (c - 1) + 1 = c
  OBVIOUS
<1> QED  BY <1>1, <1>3, <1>4 DEF ServerAhead

\* And writing takes it one message further.
LEMMA ServerWrites ==
    ASSUME NEW s \in Nat \ {0}, NEW c \in Nat \ {0}, ServerAhead(s, c), NEW m,
           m = ServerStream[s], SendToClient(<<m>>)
    PROVE  toClient' = Window(ServerStream, c - 1, s)
<1>1. /\ toClient = Window(ServerStream, c - 1, s - 1)
      /\ s - 1 \in Nat /\ c - 1 \in Nat /\ c - 1 <= s - 1 /\ (s - 1) + 1 = s
  BY DEF ServerAhead
<1>2. Window(ServerStream, c - 1, s - 1) \o <<m>> = Window(ServerStream, c - 1, (s - 1) + 1)
  BY <1>1, WindowAppend
<1> QED  BY <1>1, <1>2 DEF SendToClient

LEMMA PhoneWrites ==
    ASSUME NEW s \in Nat \ {0}, NEW c \in Nat \ {0}, NEW pairs, NEW random,
           PhoneAhead(s, c, pairs, random), NEW m,
           m = PhoneStream(pairs, random)[c], SendToServer(m)
    PROVE  toServer' = Window(PhoneStream(pairs, random), s - 1, c)
<1> DEFINE f == PhoneStream(pairs, random)
<1>1. /\ toServer = Window(f, s - 1, c - 1)
      /\ s - 1 \in Nat /\ c - 1 \in Nat /\ s - 1 <= c - 1 /\ (c - 1) + 1 = c
  BY DEF PhoneAhead
<1>2. m = f[(c - 1) + 1]
  BY <1>1
<1> HIDE DEF f
<1>3. Append(Window(f, s - 1, c - 1), m) = Window(f, s - 1, (c - 1) + 1)
  BY <1>1, <1>2, WindowAppend
<1>4. toServer' = Window(f, s - 1, c)
  BY <1>1, <1>3 DEF SendToServer
<1> QED  BY <1>4 DEF f

LEMMA Places ==
    ASSUME Given, NEW s, NEW c, NEW pairs, NEW random, Base(s, c, pairs, random)
    PROVE  /\ ScriptLength \in Nat /\ ScriptLength >= 11 /\ U = 8
           /\ s \in 1 .. ScriptLength + 1 /\ c \in 1 .. ScriptLength + 2
           /\ s \in Nat \ {0} /\ c \in Nat \ {0} /\ sStep = s
           /\ cStage = "base" => cStep = c /\ c \in 1 .. ScriptLength + 1
           /\ cStage = "online" => c = ScriptLength + 2
           /\ sStage = "base" /\ cStage \in {"base", "online"}
<1>1. ScriptLength \in {11, 13}
  BY ScriptFacts DEF Given
<1>2. s \in 1 .. ScriptLength + 1 /\ c \in 1 .. ScriptLength + 2
  BY <1>1 DEF Base, PhoneAt
<1> QED  BY <1>1, <1>2 DEF Base, PhoneAt, U

\* The server's steps in the base phase.
LEMMA BaseSent ==
    ASSUME Given, [Next]_vars, NEW s, NEW c, NEW pairs, NEW random,
           Base(s, c, pairs, random), ServerBaseSend
    PROVE  Base(s + 1, c, pairs, random)'
<1>1. /\ s \in Nat \ {0} /\ c \in Nat \ {0} /\ s \in 1 .. ScriptLength + 1 /\ sStep = s
      /\ ScriptLength \in Nat /\ U = 8
  BY Places
<1>2. /\ s <= ScriptLength /\ ServerBase[protocol][s].op = "send"
      /\ SendToClient(<<Signal(KindAt(s))>>) /\ sStep' = s + 1
      /\ UNCHANGED <<filterVars, hasher, sStage, num_client_elements, ots, client, toServer>>
  BY <1>1 DEF ServerBaseSend, InServerBase, ServerOp, KindAt, ScriptLength, otState
<1>3. ServerSends(s) /\ s \in 1 .. ScriptLength /\ s + 1 \in 1 .. ScriptLength + 1
  BY <1>1, <1>2 DEF ServerSends
<1>4. ServerAhead(s, c)
  BY <1>1, <1>3, ServerTurn DEF Base
<1>5. Signal(KindAt(s)) = ServerStream[s]
  BY <1>3 DEF ServerStream
<1>6. toClient' = Window(ServerStream, c - 1, s)
  BY <1>1, <1>2, <1>4, <1>5, ServerWrites
<1>7. c <= s /\ (s + 1) - 1 = s /\ c <= s + 1
  BY <1>1, <1>4 DEF ServerAhead
<1>8. \A k \in c .. s : ServerSends(k)
  <2>1. \A k \in c .. s : k \in c .. s - 1 \/ k = s
    BY <1>1
  <2> QED  BY <1>3, <1>4, <2>1 DEF ServerAhead
<1>9. ServerAhead(s + 1, c)'
  <2>1. toServer' = <<>>
    BY <1>2, <1>4 DEF ServerAhead
  <2> QED  BY <1>6, <1>7, <1>8, <2>1, StreamsFixed DEF ServerAhead
<1>10. Learned(s + 1, pairs)'
  <2>1. s # U
    BY <1>3, ScriptFacts DEF Given, ServerSends, PhoneSends
  <2>2. s # 1
    BY <1>3, ScriptFacts DEF Given, ServerSends, PhoneSends
  <2> QED  BY <1>1, <1>2, <2>1, <2>2, StreamsFixed DEF Base, Learned
<1>11. Transferred(c, pairs, random)'
  BY <1>2, StreamsFixed DEF Base, Transferred, client
<1>12. PhoneAt(c)' /\ Faithful'
  BY <1>2, StreamsFixed DEF Base, PhoneAt, Faithful, client, filterVars
<1> QED
  BY <1>2, <1>3, <1>9, <1>10, <1>11, <1>12, StreamsFixed DEF Base, Between, client

LEMMA BaseReceived ==
    ASSUME Given, [Next]_vars, NEW s, NEW c, NEW pairs, NEW random,
           Base(s, c, pairs, random), ServerBaseRecv
    PROVE  Base(s + 1, c, pairs, random)'
<1>1. /\ s \in Nat \ {0} /\ c \in Nat \ {0} /\ s \in 1 .. ScriptLength + 1 /\ sStep = s
      /\ ScriptLength \in Nat /\ U = 8
  BY Places
<1>2. /\ s <= ScriptLength /\ FromClient /\ sStep' = s + 1
      /\ num_client_elements' = IF KindAt(s) = "num_client_elements"
                                THEN Head(toServer).body ELSE num_client_elements
      /\ ots' = IF KindAt(s) = "u" THEN Head(toServer).body ELSE ots
      /\ UNCHANGED <<filterVars, hasher, sStage, client, toClient>>
  BY <1>1 DEF ServerBaseRecv, InServerBase, ServerOp, KindAt, ScriptLength, Received
<1>3. s \in 1 .. ScriptLength /\ s + 1 \in 1 .. ScriptLength + 1
  BY <1>1, <1>2
<1>4. /\ s < c /\ Head(toServer) = PhoneStream(pairs, random)[s]
      /\ toServer' = Window(PhoneStream(pairs, random), s, c - 1)
      /\ toClient = <<>> /\ \A k \in s .. c - 1 : ~ServerSends(k)
  BY <1>1, <1>2, ServerReads DEF Base
<1>5. PhoneAhead(s + 1, c, pairs, random)'
  <2>1. s + 1 <= c /\ (s + 1) - 1 = s /\ \A k \in s + 1 .. c - 1 : k \in s .. c - 1
    BY <1>1, <1>4
  <2>2. toClient' = <<>>
    BY <1>2, <1>4
  <2> QED  BY <1>4, <2>1, <2>2, StreamsFixed DEF PhoneAhead
<1>6. Learned(s + 1, pairs)'
  <2>1. num_client_elements' = NumClient
    <3>1. CASE s = 1
      <4>1. KindAt(s) = "num_client_elements"
        BY <3>1, ScriptFacts DEF Given
      <4>2. Head(toServer) = Message("num_client_elements", NumClient)
        BY <1>4, <3>1, PhoneStreamFacts
      <4> QED  BY <1>2, <4>1, <4>2 DEF Message
    <3>2. CASE s # 1
      <4>1. KindAt(s) # "num_client_elements"
        BY <1>3, <3>2, ScriptFacts DEF Given
      <4> QED  BY <1>1, <1>2, <3>2, <4>1 DEF Base, Learned
    <3> QED  BY <3>1, <3>2
  <2>2. protocol = "ECNR" /\ s + 1 > U => ots' = pairs
    <3>1. CASE s = U
      <4>1. KindAt(s) = "u"
        BY <3>1, ScriptFacts DEF Given
      <4>2. Head(toServer) = Message("u", IF protocol = "GC" THEN 0 ELSE pairs)
        BY <1>4, <3>1, PhoneStreamFacts
      <4> QED  BY <1>2, <4>1, <4>2 DEF Message
    <3>2. CASE s # U
      <4>1. KindAt(s) # "u"
        BY <1>3, <3>2, ScriptFacts DEF Given
      <4> QED  BY <1>1, <1>2, <3>2, <4>1 DEF Base, Learned
    <3> QED  BY <3>1, <3>2
  <2> QED  BY <2>1, <2>2, StreamsFixed DEF Learned
<1>7. Transferred(c, pairs, random)'
  BY <1>2, StreamsFixed DEF Base, Transferred, client
<1>8. PhoneAt(c)' /\ Faithful'
  BY <1>2, StreamsFixed DEF Base, PhoneAt, Faithful, client, filterVars
<1> QED
  BY <1>2, <1>3, <1>5, <1>6, <1>7, <1>8, StreamsFixed DEF Base, Between, client

\* The phone's.
LEMMA PhoneBase ==
    ASSUME Given, [Next]_vars, NEW s, NEW c, NEW pairs, NEW random,
           Base(s, c, pairs, random), Phone, UNCHANGED <<copy, prfOut, result>>
    PROVE  /\ sStage' = "base" /\ s \in 1 .. ScriptLength' + 1 /\ sStep' = s
           /\ Learned(s, pairs)' /\ Faithful' /\ prfOut' = <<>> /\ result' = {}
BY PhoneKeeps, StreamsFixed DEF Base, Learned, Faithful, server, otState, filterVars

LEMMA BasePhoneSent ==
    ASSUME Given, [Next]_vars, NEW s, NEW c, NEW pairs, NEW random,
           Base(s, c, pairs, random), ClientBaseSend
    PROVE  Base(s, c + 1, pairs, random)'
<1>1. /\ s \in Nat \ {0} /\ c \in Nat \ {0} /\ ScriptLength \in Nat /\ U = 8
      /\ cStage = "base" => cStep = c /\ c \in 1 .. ScriptLength + 1
  BY Places
<1>2. cStage = "base" /\ cStep = c /\ c \in 1 .. ScriptLength
  BY <1>1, ScriptFacts DEF ClientBaseSend, InClientBase, Given
<1>3. /\ ClientBase[protocol][c].op = "send" /\ ClientBase[protocol][c].kind = KindAt(c)
      /\ ~ServerSends(c)
  BY <1>2, ScriptFacts DEF ClientBaseSend, ClientOp, Given, ServerSends
<1>4. /\ KindAt(c) # "u" /\ cStep' = c + 1
      /\ SendToServer(Message(KindAt(c), IF KindAt(c) = "num_client_elements"
                                         THEN NumClient ELSE 0))
      /\ UNCHANGED <<copy, cStage, ot_choices, keys, prfOut, result, toClient>>
  BY <1>2, <1>3 DEF ClientBaseSend, ClientOp
<1>5. c # U
  BY <1>4, ScriptFacts DEF Given
<1>6. Message(KindAt(c), IF KindAt(c) = "num_client_elements" THEN NumClient ELSE 0)
         = PhoneStream(pairs, random)[c]
  <2>1. CASE c = 1
    <3>1. KindAt(c) = "num_client_elements"
      BY <2>1, ScriptFacts DEF Given
    <3> QED  BY <2>1, <3>1, PhoneStreamFacts
  <2>2. CASE c # 1
    <3>1. KindAt(c) # "num_client_elements"
      BY <1>2, <2>2, ScriptFacts DEF Given
    <3>2. c \in 2 .. ScriptLength
      BY <1>2, <2>2
    <3> QED  BY <1>5, <3>1, <3>2, PhoneStreamFacts
  <2> QED  BY <2>1, <2>2
<1>7. PhoneAhead(s, c, pairs, random)
  BY <1>1, <1>3, PhoneTurn DEF Base
<1>8. toServer' = Window(PhoneStream(pairs, random), s - 1, c)
  BY <1>1, <1>4, <1>6, <1>7, PhoneWrites
<1>9. PhoneAhead(s, c + 1, pairs, random)'
  <2>1. s <= c + 1 /\ (c + 1) - 1 = c /\ \A k \in s .. c : k \in s .. c - 1 \/ k = c
    BY <1>1, <1>7 DEF PhoneAhead
  <2>2. \A k \in s .. c : ~ServerSends(k)
    BY <1>3, <1>7, <2>1 DEF PhoneAhead
  <2>3. toClient' = <<>>
    BY <1>4, <1>7 DEF PhoneAhead
  <2> QED  BY <1>8, <2>1, <2>2, <2>3, StreamsFixed DEF PhoneAhead
<1>10. Transferred(c + 1, pairs, random)'
  BY <1>1, <1>4, <1>5, StreamsFixed DEF Base, Transferred
<1>11. PhoneAt(c + 1)'
  BY <1>1, <1>2, <1>4, StreamsFixed DEF PhoneAt
<1>12. Phone
  BY DEF Phone
<1> QED  BY <1>4, <1>9, <1>10, <1>11, <1>12, PhoneBase DEF Base, Between

LEMMA BasePhoneReceived ==
    ASSUME Given, [Next]_vars, NEW s, NEW c, NEW pairs, NEW random,
           Base(s, c, pairs, random), ClientBaseRecv
    PROVE  Base(s, c + 1, pairs, random)'
<1>1. /\ s \in Nat \ {0} /\ c \in Nat \ {0} /\ ScriptLength \in Nat /\ U = 8
      /\ cStage = "base" => cStep = c /\ c \in 1 .. ScriptLength + 1
  BY Places
<1>2. cStage = "base" /\ cStep = c /\ c \in 1 .. ScriptLength
  BY <1>1, ScriptFacts DEF ClientBaseRecv, InClientBase, Given
<1>3. /\ ClientBase[protocol][c].op = "recv" /\ cStep' = c + 1 /\ FromServer
      /\ UNCHANGED <<copy, cStage, ot_choices, keys, prfOut, result, toServer>>
  BY <1>2 DEF ClientBaseRecv, ClientOp
<1>4. c # U
  <2>1. ClientBase[protocol][U].op = "send"
    BY ScriptFacts DEF Given, Send
  <2> QED  BY <1>3, <2>1
<1>5. /\ c < s /\ toClient' = Window(ServerStream, c, s - 1)
      /\ toServer = <<>> /\ \A k \in c .. s - 1 : ServerSends(k)
  BY <1>1, <1>3, PhoneReads DEF Base
<1>6. ServerAhead(s, c + 1)'
  <2>1. c + 1 <= s /\ (c + 1) - 1 = c /\ \A k \in c + 1 .. s - 1 : k \in c .. s - 1
    BY <1>1, <1>5
  <2>2. toServer' = <<>>
    BY <1>3, <1>5
  <2> QED  BY <1>5, <2>1, <2>2, StreamsFixed DEF ServerAhead
<1>7. Transferred(c + 1, pairs, random)'
  BY <1>1, <1>3, <1>4, StreamsFixed DEF Base, Transferred
<1>8. PhoneAt(c + 1)'
  BY <1>1, <1>2, <1>3, StreamsFixed DEF PhoneAt
<1>9. Phone
  BY DEF Phone
<1> QED  BY <1>3, <1>6, <1>7, <1>8, <1>9, PhoneBase DEF Base, Between

\* What the streams for other keys and choices have in common.
LEMMA SameBeforeU ==
    ASSUME Given, NEW s \in Nat \ {0}, s <= U, NEW pairs, NEW random, NEW pairs2, NEW random2
    PROVE  Window(PhoneStream(pairs, random), s - 1, U - 1)
             = Window(PhoneStream(pairs2, random2), s - 1, U - 1)
<1> DEFINE f == PhoneStream(pairs, random)
           g == PhoneStream(pairs2, random2)
<1>1. ScriptLength \in Nat /\ ScriptLength >= 11 /\ U = 8
  BY ScriptFacts DEF Given, U
<1>2. ASSUME NEW k \in (s - 1) + 1 .. U - 1 PROVE f[k] = g[k]
  <2>1. k = 1 \/ (k \in 2 .. ScriptLength /\ k # U)
    BY <1>1
  <2> QED  BY <2>1, PhoneStreamFacts
<1>3. s - 1 \in Nat /\ U - 1 \in Nat
  BY <1>1
<1> HIDE DEF f, g
<1>4. Window(f, s - 1, U - 1) = Window(g, s - 1, U - 1)
  BY <1>2, <1>3, WindowSame
<1> QED  BY <1>4 DEF f, g

LEMMA BaseTransferred ==
    ASSUME Given, [Next]_vars, NEW s, NEW c, NEW pairs, NEW random,
           Base(s, c, pairs, random), SendU
    PROVE  \E pairs2, random2 : Base(s, c + 1, pairs2, random2)'
<1>1. /\ s \in Nat \ {0} /\ c \in Nat \ {0} /\ ScriptLength \in Nat /\ ScriptLength >= 11 /\ U = 8
      /\ cStage = "base" => cStep = c /\ c \in 1 .. ScriptLength + 1
  BY Places
<1>2. cStage = "base" /\ cStep = c /\ c \in 1 .. ScriptLength
  BY <1>1, ScriptFacts DEF SendU, InClientBase, Given
<1>3. c = U
  <2>1. ClientBase[protocol][c].kind = "u"
    BY <1>2 DEF SendU, ClientOp, Send
  <2> QED  BY <1>2, <2>1, ScriptFacts DEF Given
<1>4. ~ServerSends(c)
  <2>1. PhoneSends(U)
    BY ScriptFacts DEF Given
  <2> QED  BY <1>3, <2>1 DEF PhoneSends, ServerSends
<1>5. PhoneAhead(s, c, pairs, random)
  BY <1>1, <1>4, PhoneTurn DEF Base
<1>6. s <= c /\ c + 1 > U /\ ~(s > U) /\ ~(c > U)
  BY <1>1, <1>3, <1>5 DEF PhoneAhead
<1>7. cStep' = c + 1 /\ UNCHANGED <<copy, cStage, prfOut, result, toClient>>
  BY <1>2 DEF SendU
<1>8. PICK p, q :
        /\ SendToServer(Message("u", IF protocol = "GC" THEN 0 ELSE p))
        /\ IF protocol = "ECNR"
           THEN /\ q \in Choices(NumOTs) /\ p \in Keys(NumOTs)
                /\ ot_choices' = q /\ keys' = [k \in DOMAIN p |-> p[k][q[k]]]
           ELSE ot_choices' = ot_choices /\ keys' = keys
  <2>1. CASE protocol = "GC"
    BY <2>1 DEF SendU, Signal
  <2>2. CASE protocol = "ECNR"
    BY <2>2 DEF SendU
  <2> QED  BY <2>1, <2>2 DEF Given, Protocol
<1>9. PhoneAhead(s, c, p, q)
  BY <1>1, <1>3, <1>5, <1>6, SameBeforeU DEF PhoneAhead
<1>10. toServer' = Window(PhoneStream(p, q), s - 1, c)
  <2>1. Message("u", IF protocol = "GC" THEN 0 ELSE p) = PhoneStream(p, q)[c]
    BY <1>3, PhoneStreamFacts
  <2> QED  BY <1>1, <1>8, <1>9, <2>1, PhoneWrites
<1>11. PhoneAhead(s, c + 1, p, q)'
  <2>1. s <= c + 1 /\ (c + 1) - 1 = c /\ \A k \in s .. c : k \in s .. c - 1 \/ k = c
    BY <1>1, <1>6
  <2>2. \A k \in s .. c : ~ServerSends(k)
    BY <1>4, <1>5, <2>1 DEF PhoneAhead
  <2>3. toClient' = <<>>
    BY <1>5, <1>7 DEF PhoneAhead
  <2> QED  BY <1>10, <2>1, <2>2, <2>3, StreamsFixed DEF PhoneAhead
<1>12. Transferred(c + 1, p, q)'
  <2>1. ot_choices = <<>> /\ keys = <<>>
    BY <1>6 DEF Base, Transferred
  <2> QED  BY <1>6, <1>8, <2>1, StreamsFixed DEF Transferred
<1>13. PhoneAt(c + 1)'
  BY <1>1, <1>2, <1>7, StreamsFixed DEF PhoneAt
<1>14. Phone
  BY DEF Phone
<1>15. Learned(s, p)'
  BY <1>6, <1>7, <1>14, PhoneBase, StreamsFixed DEF Learned
<1> QED  BY <1>7, <1>11, <1>12, <1>13, <1>14, <1>15, PhoneBase DEF Base, Between

LEMMA BaseChosen ==
    ASSUME Given, [Next]_vars, NEW s, NEW c, NEW pairs, NEW random,
           Base(s, c, pairs, random), SendChoices
    PROVE  Base(s, c + 1, pairs, random)'
<1>1. /\ s \in Nat \ {0} /\ c \in Nat \ {0} /\ ScriptLength \in Nat /\ ScriptLength >= 11 /\ U = 8
      /\ cStage = "base" => cStep = c /\ c \in 1 .. ScriptLength + 1
  BY Places
<1>2. cStage = "base" /\ c = ScriptLength + 1
  BY <1>1, ScriptFacts DEF SendChoices, InClientBase, Given
<1>3. ~ServerSends(c)
  BY <1>1, <1>2 DEF ServerSends
<1>4. PhoneAhead(s, c, pairs, random)
  BY <1>1, <1>3, PhoneTurn DEF Base
<1>5. /\ SendToServer(Message("choices", IF protocol = "GC" THEN 0 ELSE Corrected))
      /\ cStage' = "online" /\ UNCHANGED <<copy, ot_choices, keys, prfOut, result, toClient>>
  BY DEF SendChoices
<1>6. protocol = "GC" \/ Corrected = CorrectedBy(random)
  <2>1. CASE protocol = "ECNR"
    <3>1. ot_choices = random
      BY <1>1, <1>2, <2>1 DEF Base, Transferred
    <3> QED  BY <3>1 DEF Corrected, CorrectedBy
  <2> QED  BY <2>1 DEF Given, Protocol
<1>7. Message("choices", IF protocol = "GC" THEN 0 ELSE Corrected) = PhoneStream(pairs, random)[c]
  BY <1>2, <1>6, PhoneStreamFacts
<1>8. toServer' = Window(PhoneStream(pairs, random), s - 1, c)
  BY <1>1, <1>4, <1>5, <1>7, PhoneWrites
<1>9. PhoneAhead(s, c + 1, pairs, random)'
  <2>1. s <= c + 1 /\ (c + 1) - 1 = c /\ \A k \in s .. c : k \in s .. c - 1 \/ k = c
    BY <1>1, <1>4 DEF PhoneAhead
  <2>2. \A k \in s .. c : ~ServerSends(k)
    BY <1>3, <1>4, <2>1 DEF PhoneAhead
  <2>3. toClient' = <<>>
    BY <1>4, <1>5 DEF PhoneAhead
  <2> QED  BY <1>8, <2>1, <2>2, <2>3, StreamsFixed DEF PhoneAhead
<1>10. Transferred(c + 1, pairs, random)'
  <2>1. c > U /\ c + 1 > U
    BY <1>1, <1>2
  <2> QED  BY <1>5, <2>1, StreamsFixed DEF Base, Transferred
<1>11. PhoneAt(c + 1)'
  BY <1>1, <1>2, <1>5, StreamsFixed DEF PhoneAt
<1>12. Phone
  BY DEF Phone
<1> QED  BY <1>5, <1>9, <1>10, <1>11, <1>12, PhoneBase DEF Base, Between

\* The server has the choices, and begins to answer.
LEMMA BaseEnds ==
    ASSUME Given, [Next]_vars, NEW s, NEW c, NEW pairs, NEW random,
           Base(s, c, pairs, random), RecvChoices
    PROVE  Online(pairs, random)'
<1>1. /\ s \in Nat \ {0} /\ c \in Nat \ {0} /\ ScriptLength \in Nat /\ ScriptLength >= 11 /\ U = 8
      /\ sStep = s /\ s \in 1 .. ScriptLength + 1 /\ c \in 1 .. ScriptLength + 2
      /\ cStage = "base" => cStep = c /\ c \in 1 .. ScriptLength + 1
      /\ cStage \in {"base", "online"} /\ protocol \in Protocol
  BY Places DEF Given
<1>2. /\ s = ScriptLength + 1 /\ FromClient /\ choices' = Head(toServer).body
      /\ sStage' = "reply" /\ sPos' = 0
      /\ UNCHANGED <<filterVars, hasher, num_client_elements, ots, client, toClient>>
  BY <1>1 DEF RecvChoices, InServerBase, ScriptLength, Received
<1>3. /\ s < c /\ Head(toServer) = PhoneStream(pairs, random)[s]
      /\ toServer' = Window(PhoneStream(pairs, random), s, c - 1) /\ toClient = <<>>
  BY <1>1, <1>2, ServerReads DEF Base
<1>4. c = ScriptLength + 2 /\ cStage = "online" /\ c - 1 = s /\ c > U /\ s > U /\ s > 1
  BY <1>1, <1>2, <1>3
<1>5. toServer' = <<>>
  BY <1>1, <1>3, <1>4, WindowEmpty
<1>6. protocol = "ECNR" => choices' = CorrectedBy(random) /\ ots' = pairs
  <2> SUFFICES ASSUME protocol = "ECNR" PROVE choices' = CorrectedBy(random) /\ ots' = pairs
    OBVIOUS
  <2>1. Head(toServer) = Message("choices", CorrectedBy(random))
    BY <1>2, <1>3, PhoneStreamFacts
  <2>2. ots = pairs
    BY <1>4 DEF Base, Learned
  <2> QED  BY <1>2, <2>1, <2>2 DEF Message
<1>7. /\ num_client_elements' = NumClient /\ prfOut' = <<>> /\ result' = {} /\ Faithful'
      /\ cStage' = "online"
  BY <1>2, <1>4 DEF Base, Learned, Faithful, client, filterVars
<1>8. Transferred(U + 1, pairs, random)'
  <2>1. U + 1 > U
    BY <1>1
  <2>2. ot_choices' = ot_choices /\ keys' = keys
    BY <1>2 DEF client
  <2> QED  BY <1>4, <2>1, <2>2, StreamsFixed DEF Base, Transferred
<1>9. CorrectedBy(random)' = CorrectedBy(random)
  BY GivenFixed DEF CorrectedBy
<1>10. NumClient' = NumClient /\ protocol' = protocol /\ NumClient \in Nat \ {0}
  BY StreamsFixed, GivenTypes
<1>11. RepliesRead' = 0 /\ sPos' \in 0 .. Replies'
  BY <1>2, <1>7, <1>10 DEF RepliesRead, Replies
<1>12. toClient' = Window(ReplyStream', 0, 0)
  <2>1. Window(ReplyStream', 0, 0) = <<>>
    BY WindowEmpty
  <2> QED  BY <1>2, <1>3, <2>1
<1>13. prfOut' \in Seq(Code) /\ Len(prfOut') = 0 /\ SameFunction'
  BY <1>7 DEF SameFunction
<1> QED
  BY <1>2, <1>5, <1>6, <1>7, <1>8, <1>9, <1>10, <1>11, <1>12, <1>13
  DEF Online, Settled

LEMMA BaseNext ==
    ASSUME Inv, NEW s, NEW c, NEW pairs, NEW random, Base(s, c, pairs, random), [Next]_vars
    PROVE  Phase'
<1>1. Given /\ NumClient \in Nat \ {0}
  BY GivenTypes DEF Inv, FilterFed
<1>2. /\ sStage = "base" /\ cStage \in {"base", "online"} /\ prfOut = <<>>
      /\ s \in Nat \ {0} /\ c \in Nat \ {0} /\ s \in 1 .. ScriptLength + 1
      /\ ScriptLength \in Nat /\ (cStage = "online" => c = ScriptLength + 2)
  BY <1>1, Places DEF Base
<1>3. CASE ServerBaseSend
  BY <1>1, <1>3, BaseSent DEF Phase
<1>4. CASE ServerBaseRecv
  BY <1>1, <1>4, BaseReceived DEF Phase
<1>5. CASE RecvChoices
  BY <1>1, <1>5, BaseEnds DEF Phase
<1>6. CASE ClientBaseSend
  BY <1>1, <1>6, BasePhoneSent DEF Phase
<1>7. CASE ClientBaseRecv
  BY <1>1, <1>7, BasePhoneReceived DEF Phase
<1>8. CASE SendU
  BY <1>1, <1>8, BaseTransferred DEF Phase
<1>9. CASE SendChoices
  BY <1>1, <1>9, BaseChosen DEF Phase
<1>10. CASE UNCHANGED vars
  <2>1. Base(s, c, pairs, random)'
    BY <1>10, StreamsFixed
    DEF vars, server, client, otState, filterVars, Base, PhoneAt, Between, PhoneAhead,
        ServerAhead, Transferred, Learned, Faithful
  <2> QED  BY <2>1 DEF Phase
<1>11. /\ ~Join /\ ~AddNext /\ ~AddStep /\ ~AddRefused /\ ~SendHeader /\ ~SendPart
       /\ ~SendParams /\ ~Reply /\ \A t \in Threads : ~Encrypt(t)
  BY <1>2 DEF Join, AddNext, AddStep, AddRefused, SendHeader, SendPart, SendParams,
              Reply, Encrypt
<1>12. ~RecvHeader /\ ~RecvPart /\ ~RecvParam
  BY <1>2 DEF RecvHeader, RecvPart, RecvParam
<1>13. ~RecvReply
  <2> SUFFICES ASSUME RecvReply PROVE FALSE
    OBVIOUS
  <2>1. c = ScriptLength + 2 /\ FromServer
    BY <1>2 DEF RecvReply
  <2>2. c < s
    BY <1>2, <2>1, PhoneReads DEF Base
  <2> QED  BY <1>2, <2>1, <2>2
<1>14. ~Intersect
  BY <1>1, <1>2 DEF Intersect
<1> QED
  BY <1>3, <1>4, <1>5, <1>6, <1>7, <1>8, <1>9, <1>10, <1>11, <1>12, <1>13, <1>14
  DEF Next, Main, Phone

-----------------------------------------------------------------------------
(* The online phase *)

LEMMA IndexFacts ==
    ASSUME Given, NEW i \in 0 .. NumClient - 1, NEW j \in Positions
    PROVE  /\ Index(i, j) \in 0 .. NumOTs - 1
           /\ Index(i, j) \div ElementBits = i /\ (Index(i, j) % ElementBits) = j
<1>1. PICK d \in Nat \ {0} : d = ElementBits
  BY PSIAssumption
<1>2. PICK n \in Nat : n = NumClient
  BY GivenTypes
<1>3. i \in Nat /\ i + 1 <= n /\ j \in 0 .. d - 1
  BY <1>1, <1>2 DEF Positions
<1>4. PICK x \in Nat : x = i * d
  BY <1>3, SMTT(30)
<1>5. PICK m \in Nat : m = i * d + j
  BY <1>3, <1>4
<1>6. m \div d = i /\ (m % d) = j
  BY <1>3, <1>5, DivisionUnique
<1>7. m < n * d /\ n * d \in Nat
  <2>1. (i + 1) * d <= n * d /\ n * d \in Nat
    BY <1>2, <1>3, Monotone
  <2>2. (i + 1) * d = i * d + d
    BY <1>3, SMTT(30)
  <2> QED  BY <1>3, <1>4, <1>5, <2>1, <2>2
<1>8. Index(i, j) = m
  BY <1>1, <1>5 DEF Index
<1>9. NumOTs = n * d
  BY <1>1, <1>2 DEF NumOTs
<1> QED  BY <1>1, <1>6, <1>7, <1>8, <1>9

LEMMA TransferTypes ==
    ASSUME Given, NEW random \in Choices(NumOTs), NEW pairs \in Keys(NumOTs)
    PROVE  /\ random \in [0 .. NumOTs - 1 -> {0, 1}]
           /\ pairs \in [0 .. NumOTs - 1 -> [{0, 1} -> OTKey]]
<1>1. clientSet \in ClientSets /\ NumOTs = Len(clientSet) * ElementBits
  BY DEF Given, NumOTs, NumClient
<1>2. PICK n : n = Len(clientSet) * ElementBits
  OBVIOUS
<1>3. /\ Choices(n) \subseteq [0 .. n-1 -> {0, 1}]
      /\ Keys(n) \subseteq [0 .. n-1 -> [{0, 1} -> OTKey]]
  BY <1>1, <1>2, OTAssumption DEF OTKey
<1> QED  BY <1>1, <1>2, <1>3

\* The reply for one element, with its part of the OTs, gives its encryption.
LEMMA ReplyEvaluates ==
    ASSUME Given, NEW random \in Choices(NumOTs), NEW pairs \in Keys(NumOTs),
           NEW ks, ks = [k \in DOMAIN pairs |-> pairs[k][random[k]]],
           NEW i \in 0 .. NumClient - 1
    PROVE  Evaluated(Oprf(OfElement(pairs, i), OfElement(CorrectedBy(random), i)),
                     OfElement(ks, i), clientSet[i + 1]) = EcnrPrf[clientSet[i + 1]]
<1>1. PICK x \in Element : x = clientSet[i + 1]
  <2>1. i + 1 \in 1 .. Len(clientSet)
    BY GivenTypes
  <2> QED  BY <2>1, GivenTypes
<1>2. /\ random \in [0 .. NumOTs - 1 -> {0, 1}]
      /\ pairs \in [0 .. NumOTs - 1 -> [{0, 1} -> OTKey]]
  BY TransferTypes
<1>3. PICK p : p = OfElement(pairs, i)
  OBVIOUS
<1>4. PICK q : q = OfElement(random, i)
  OBVIOUS
<1>5. PICK c : c = OfElement(CorrectedBy(random), i)
  OBVIOUS
<1>6. PICK e : e = OfElement(ks, i)
  OBVIOUS
<1>7. p \in [Positions -> [{0, 1} -> OTKey]] /\ q \in [Positions -> {0, 1}]
  BY <1>2, <1>3, <1>4, IndexFacts DEF OfElement
<1>8. ASSUME NEW j \in Positions
      PROVE  c[j] = (q[j] + Bit(x, j)) % 2 /\ e[j] = p[j][q[j]]
  <2>1. PICK m \in 0 .. NumOTs - 1 :
           m = Index(i, j) /\ m \div ElementBits = i /\ (m % ElementBits) = j
    BY IndexFacts
  <2>2. q[j] = random[m] /\ p[j] = pairs[m] /\ e[j] = ks[m] /\ c[j] = CorrectedBy(random)[m]
    BY <1>3, <1>4, <1>5, <1>6, <2>1 DEF OfElement
  <2>3. ks[m] = pairs[m][random[m]]
    BY <1>2
  <2>4. CorrectedBy(random)[m]
          = (random[m] + Bit(clientSet[m \div ElementBits + 1], m % ElementBits)) % 2
    BY <1>2, <2>1 DEF CorrectedBy
  <2>5. CorrectedBy(random)[m] = (random[m] + Bit(x, j)) % 2
    BY <1>1, <2>1, <2>4
  <2> QED  BY <2>2, <2>3, <2>5
<1>9. Evaluated(Oprf(p, c), e, x) = EcnrPrf[x]
  BY <1>7, <1>8, OprfEvaluates
<1> QED  BY <1>1, <1>3, <1>5, <1>6, <1>9

LEMMA OnlineFacts ==
    ASSUME Given, NEW pairs, NEW random, Online(pairs, random)
    PROVE  /\ sStage = "reply" /\ cStage \in {"online", "done"}
           /\ Len(prfOut) \in Nat /\ prfOut \in Seq(Code) /\ NumClient \in Nat \ {0}
           /\ Replies = IF protocol = "GC" THEN 1 ELSE NumClient
           /\ Replies \in Nat \ {0} /\ sPos \in Nat /\ RepliesRead \in Nat
           /\ protocol = "GC" => \/ prfOut = <<>> /\ RepliesRead = 0
                                 \/ Len(prfOut) = NumClient /\ prfOut # <<>> /\ RepliesRead = 1
           /\ protocol = "ECNR" => /\ RepliesRead = Len(prfOut) /\ ots = pairs
                                   /\ choices = CorrectedBy(random)
                                   /\ random \in Choices(NumOTs) /\ pairs \in Keys(NumOTs)
                                   /\ keys = [k \in DOMAIN pairs |-> pairs[k][random[k]]]
<1>1. /\ NumClient \in Nat \ {0} /\ prfOut \in Seq(Code) /\ Len(prfOut) \in Nat
      /\ num_client_elements = NumClient
  BY GivenTypes DEF Online, Settled
<1>2. Len(prfOut) = NumClient => prfOut # <<>>
  BY <1>1
<1>3. U + 1 > U
  BY DEF U
<1>4. Replies = IF protocol = "GC" THEN 1 ELSE NumClient
  BY <1>1 DEF Replies
<1>5. protocol = "GC" => \/ prfOut = <<>> /\ RepliesRead = 0
                         \/ Len(prfOut) = NumClient /\ prfOut # <<>> /\ RepliesRead = 1
  BY <1>1, <1>2 DEF Online, Settled, RepliesRead
<1>6. protocol = "ECNR" => RepliesRead = Len(prfOut)
  BY DEF RepliesRead
<1>7. RepliesRead \in Nat /\ Replies \in Nat \ {0}
  BY <1>1, <1>4, <1>5, <1>6 DEF RepliesRead
<1>8. protocol = "ECNR" => /\ ots = pairs /\ choices = CorrectedBy(random)
                           /\ random \in Choices(NumOTs) /\ pairs \in Keys(NumOTs)
                           /\ keys = [k \in DOMAIN pairs |-> pairs[k][random[k]]]
  BY <1>3 DEF Online, Settled, Transferred
<1>9. sStage = "reply" /\ cStage \in {"online", "done"} /\ sPos \in Nat
  BY <1>7 DEF Online, Settled
<1> QED  BY <1>1, <1>4, <1>5, <1>6, <1>7, <1>8, <1>9

\* Neither party changes these any more.
LEMMA SettledKept ==
    ASSUME [Next]_vars, NEW pairs, NEW random, Online(pairs, random),
           UNCHANGED <<sStage, copy, filterVars, otState, ot_choices, keys, toServer>>
    PROVE  /\ Settled(pairs, random)' /\ Replies' = Replies /\ ReplyStream' = ReplyStream
           /\ protocol' = protocol /\ clientSet' = clientSet /\ NumClient' = NumClient
           /\ \A x : Encrypted(x)' = Encrypted(x)
<1>1. protocol' = protocol /\ clientSet' = clientSet /\ hasher' = hasher
  BY GivenFixed
<1>2. Replies' = Replies /\ ReplyStream' = ReplyStream
  BY <1>1 DEF Replies, ReplyStream, otState
<1>3. CorrectedBy(random)' = CorrectedBy(random)
  BY <1>1 DEF CorrectedBy
<1> QED
  BY <1>1, <1>2, <1>3, StreamsFixed
  DEF Online, Settled, Faithful, Transferred, otState, filterVars, Encrypted

LEMMA Replied ==
    ASSUME Given, [Next]_vars, NEW pairs, NEW random, Online(pairs, random), Reply
    PROVE  Online(pairs, random)'
<1>1. /\ RepliesRead \in Nat /\ sPos \in Nat /\ RepliesRead <= sPos /\ Replies \in Nat
      /\ toClient = Window(ReplyStream, RepliesRead, sPos)
  BY OnlineFacts DEF Online
<1>2. /\ sPos < Replies /\ sPos' = sPos + 1
      /\ SendToClient(<<IF protocol = "GC" THEN Signal("labels")
                        ELSE Message("oprf", Oprf(OfElement(ots, sPos),
                                                  OfElement(choices, sPos)))>>)
      /\ UNCHANGED <<sStage, otState, client, toServer, filterVars>>
  BY DEF Reply
<1>3. PICK m : m = IF protocol = "GC" THEN Signal("labels")
                   ELSE Message("oprf", Oprf(OfElement(ots, sPos), OfElement(choices, sPos)))
  OBVIOUS
<1>4. m = ReplyStream[sPos + 1]
  <2>1. sPos + 1 \in 1 .. Replies /\ (sPos + 1) - 1 = sPos
    BY <1>1, <1>2
  <2> QED  BY <1>3, <2>1 DEF ReplyStream
<1>5. toClient' = Window(ReplyStream, RepliesRead, sPos + 1)
  BY <1>1, <1>2, <1>3, <1>4, WindowAppend DEF SendToClient
<1>6. /\ Settled(pairs, random)' /\ Replies' = Replies /\ ReplyStream' = ReplyStream
      /\ protocol' = protocol /\ clientSet' = clientSet /\ NumClient' = NumClient
      /\ \A x : Encrypted(x)' = Encrypted(x)
  BY <1>2, SettledKept DEF client
<1>7. UNCHANGED <<cStage, prfOut, result, copy>>
  BY <1>2 DEF client
<1>8. RepliesRead' = RepliesRead /\ Matches' = Matches /\ SameFunction' = SameFunction
  BY <1>6, <1>7 DEF RepliesRead, Matches, SameFunction
<1>9. sPos' \in 0 .. Replies' /\ RepliesRead' <= sPos'
  BY <1>1, <1>2, <1>6, <1>8
<1>10. toClient' = Window(ReplyStream', RepliesRead', sPos')
  BY <1>2, <1>5, <1>6, <1>8
<1> QED  BY <1>6, <1>7, <1>8, <1>9, <1>10 DEF Online

LEMMA ReplyRead ==
    ASSUME Given, [Next]_vars, NEW pairs, NEW random, Online(pairs, random), RecvReply
    PROVE  Online(pairs, random)'
<1>1. /\ RepliesRead \in Nat /\ sPos \in Nat /\ RepliesRead <= sPos /\ Replies \in Nat
      /\ toClient = Window(ReplyStream, RepliesRead, sPos)
      /\ Len(prfOut) \in Nat /\ prfOut \in Seq(Code) /\ NumClient \in Nat \ {0}
  BY OnlineFacts DEF Online
<1>2. /\ cStage = "online" /\ Len(prfOut) < NumClient /\ FromServer
      /\ UNCHANGED <<copy, cStage, ot_choices, keys, result, toServer>>
  BY DEF RecvReply
<1>3. UNCHANGED <<filterVars, otState, sStage, sPos>>
  BY PhoneKeeps DEF Phone, server
<1>4. /\ RepliesRead < sPos /\ Head(toClient) = ReplyStream[RepliesRead + 1]
      /\ toClient' = Window(ReplyStream, RepliesRead + 1, sPos)
  BY <1>1, <1>2, NextRead
<1>5. /\ Settled(pairs, random)' /\ Replies' = Replies /\ ReplyStream' = ReplyStream
      /\ protocol' = protocol /\ clientSet' = clientSet /\ NumClient' = NumClient
      /\ \A x : Encrypted(x)' = Encrypted(x)
  BY <1>2, <1>3, SettledKept
<1>6. result' = {} /\ cStage' = "online" /\ sPos \in 0 .. Replies
  BY <1>2 DEF Online
<1>7. /\ prfOut' \in Seq(Code) /\ Len(prfOut') <= NumClient
      /\ protocol = "GC" => Len(prfOut') = NumClient
      /\ \A i \in 1 .. Len(prfOut') : prfOut'[i] = Encrypted(clientSet[i])
      /\ RepliesRead' = RepliesRead + 1
  <2>1. CASE protocol = "GC"
    <3>1. prfOut' = [i \in 1 .. NumClient |-> Cipher[clientSet[i]]]
      BY <2>1 DEF RecvReply
    <3>2. \A i \in 1 .. NumClient : Cipher[clientSet[i]] \in Code
      BY GivenTypes, PSIAssumption
    <3>3. prfOut' \in Seq(Code) /\ Len(prfOut') = NumClient
      BY <1>1, <3>1, <3>2
    <3>4. \A i \in 1 .. NumClient : prfOut'[i] = Encrypted(clientSet[i])
      BY <2>1, <3>1 DEF Encrypted
    <3>5. prfOut' # <<>>
      BY <1>1, <3>3
    <3>6. RepliesRead' = 1 /\ RepliesRead = 0
      BY <1>1, <1>2, <1>5, <2>1, <3>5, OnlineFacts DEF RepliesRead
    <3> QED  BY <1>1, <3>3, <3>4, <3>6
  <2>2. CASE protocol = "ECNR"
    <3>1. PICK i \in 0 .. NumClient - 1 : i = Len(prfOut) /\ i = RepliesRead
      BY <1>1, <1>2, <2>2, OnlineFacts
    <3>2. prfOut' = Append(prfOut, Evaluated(Head(toClient).body, OfElement(keys, i),
                                             clientSet[i + 1]))
      BY <2>2, <3>1 DEF RecvReply, Received
    <3>3. Head(toClient).body = Oprf(OfElement(pairs, i), OfElement(CorrectedBy(random), i))
      <4>1. i + 1 \in 1 .. Replies /\ (i + 1) - 1 = i
        BY <1>1, <1>4, <1>6, <3>1
      <4>2. Head(toClient) = Message("oprf", Oprf(OfElement(ots, i), OfElement(choices, i)))
        BY <1>4, <2>2, <3>1, <4>1 DEF ReplyStream
      <4> QED  BY <2>2, <4>2, OnlineFacts DEF Message
    <3>4. Evaluated(Head(toClient).body, OfElement(keys, i), clientSet[i + 1])
            = EcnrPrf[clientSet[i + 1]]
      BY <2>2, <3>3, OnlineFacts, ReplyEvaluates
    <3>5. PICK e \in Code : e = Encrypted(clientSet[i + 1]) /\ prfOut' = Append(prfOut, e)
      <4>1. clientSet[i + 1] \in Element
        BY GivenTypes
      <4> QED  BY <2>2, <3>2, <3>4, <4>1, EcnrPrfType DEF Encrypted
    <3>6. /\ prfOut' \in Seq(Code) /\ Len(prfOut') = i + 1
          /\ \A j \in 1 .. i : prfOut'[j] = prfOut[j]
          /\ prfOut'[i + 1] = e
      <4>1. PICK f \in Seq(Code) : f = prfOut
        BY <1>1
      <4>2. /\ Append(f, e) \in Seq(Code) /\ Len(Append(f, e)) = Len(f) + 1
            /\ \A j \in 1 .. Len(f) : Append(f, e)[j] = f[j]
            /\ Append(f, e)[Len(f) + 1] = e
        BY AppendProperties
      <4> QED  BY <3>1, <3>5, <4>1, <4>2
    <3>7. \A j \in 1 .. i + 1 : prfOut'[j] = Encrypted(clientSet[j])
      <4>1. \A j \in 1 .. i : prfOut[j] = Encrypted(clientSet[j])
        BY <3>1 DEF Online, SameFunction
      <4> QED  BY <3>5, <3>6, <4>1
    <3>8. RepliesRead' = i + 1
      BY <1>5, <2>2, <3>6 DEF RepliesRead
    <3> QED  BY <1>1, <2>2, <3>1, <3>6, <3>7, <3>8
  <2> QED  BY <2>1, <2>2 DEF Given, Protocol
<1>8. SameFunction'
  BY <1>5, <1>7 DEF SameFunction
<1>9. sPos' \in 0 .. Replies' /\ RepliesRead' <= sPos'
  BY <1>1, <1>3, <1>4, <1>5, <1>6, <1>7
<1>10. toClient' = Window(ReplyStream', RepliesRead', sPos')
  BY <1>3, <1>4, <1>5, <1>7
<1> QED  BY <1>5, <1>6, <1>7, <1>8, <1>9, <1>10 DEF Online

LEMMA Intersected ==
    ASSUME Given, [Next]_vars, NEW pairs, NEW random, Online(pairs, random), Intersect
    PROVE  Online(pairs, random)'
<1>1. /\ Len(prfOut) = NumClient /\ result' = Matches /\ cStage' = "done"
      /\ UNCHANGED <<copy, ot_choices, keys, prfOut, toClient, toServer>>
  BY DEF Intersect, Matches
<1>2. UNCHANGED <<filterVars, otState, sStage, sPos>>
  BY PhoneKeeps DEF Phone, server
<1>3. /\ Settled(pairs, random)' /\ Replies' = Replies /\ ReplyStream' = ReplyStream
      /\ protocol' = protocol /\ clientSet' = clientSet /\ NumClient' = NumClient
      /\ \A x : Encrypted(x)' = Encrypted(x)
  BY <1>1, <1>2, SettledKept
<1>4. RepliesRead' = RepliesRead /\ Matches' = Matches /\ SameFunction' = SameFunction
  BY <1>1, <1>3 DEF RepliesRead, Matches, SameFunction
<1> QED  BY <1>1, <1>2, <1>3, <1>4 DEF Online

LEMMA OnlineNext ==
    ASSUME Inv, NEW pairs, NEW random, Online(pairs, random), [Next]_vars
    PROVE  Phase'
<1>1. Given
  BY DEF Inv, FilterFed
<1>2. sStage = "reply" /\ cStage \in {"online", "done"} /\ toServer = <<>>
  BY DEF Online, Settled
<1>3. CASE Reply
  BY <1>1, <1>3, Replied DEF Phase
<1>4. CASE RecvReply
  BY <1>1, <1>4, ReplyRead DEF Phase
<1>5. CASE Intersect
  BY <1>1, <1>5, Intersected DEF Phase
<1>6. CASE UNCHANGED vars
  <2>1. /\ UNCHANGED <<sStage, copy, filterVars, otState, ot_choices, keys, toServer>>
        /\ UNCHANGED <<cStage, prfOut, result, sPos, toClient>>
    BY <1>6 DEF vars, server, client
  <2>2. /\ Settled(pairs, random)' /\ Replies' = Replies /\ ReplyStream' = ReplyStream
        /\ protocol' = protocol /\ clientSet' = clientSet /\ NumClient' = NumClient
        /\ \A x : Encrypted(x)' = Encrypted(x)
    BY <2>1, SettledKept
  <2>3. RepliesRead' = RepliesRead /\ Matches' = Matches /\ SameFunction' = SameFunction
    BY <2>1, <2>2 DEF RepliesRead, Matches, SameFunction
  <2>4. Online(pairs, random)'
    BY <2>1, <2>2, <2>3 DEF Online
  <2> QED  BY <2>4 DEF Phase
<1>7. /\ ~Join /\ ~AddNext /\ ~AddStep /\ ~AddRefused /\ ~SendHeader /\ ~SendPart
      /\ ~SendParams /\ ~ServerBaseSend /\ ~ServerBaseRecv /\ ~RecvChoices
      /\ \A t \in Threads : ~Encrypt(t)
  BY <1>2 DEF Join, AddNext, AddStep, AddRefused, SendHeader, SendPart, SendParams,
              ServerBaseSend, ServerBaseRecv, RecvChoices, InServerBase, Encrypt
<1>8. /\ ~RecvHeader /\ ~RecvPart /\ ~RecvParam /\ ~ClientBaseSend /\ ~SendU
      /\ ~ClientBaseRecv /\ ~SendChoices
  BY <1>2 DEF RecvHeader, RecvPart, RecvParam, ClientBaseSend, SendU, ClientBaseRecv,
              SendChoices, InClientBase
<1> QED  BY <1>3, <1>4, <1>5, <1>6, <1>7, <1>8 DEF Next, Main, Phone

LEMMA NextInv == Inv /\ [Next]_vars => Inv'
<1> SUFFICES ASSUME Inv, [Next]_vars PROVE Inv'
  OBVIOUS
<1>1. FilterFed'
  BY NextFilterFed DEF Inv
<1>2. ASSUME Early PROVE Phase'
  BY <1>2, EarlyNext
<1>3. ASSUME NEW w, NEW r, Setup(w, r) PROVE Phase'
  BY <1>3, SetupNext
<1>4. ASSUME NEW s, NEW c, NEW pairs, NEW random, Base(s, c, pairs, random) PROVE Phase'
  BY <1>4, BaseNext
<1>5. ASSUME NEW pairs, NEW random, Online(pairs, random) PROVE Phase'
  BY <1>5, OnlineNext
<1>6. Phase'
  BY <1>2, <1>3, <1>4, <1>5 DEF Inv, Phase
<1> QED  BY <1>1, <1>6 DEF Inv

LEMMA SpecInv == Spec => []Inv
BY InitInv, NextInv, PTL DEF Spec

-----------------------------------------------------------------------------
(* Theorems *)

LEMMA InvTypes == Inv => TypeOK
<1> SUFFICES ASSUME Inv PROVE TypeOK
  OBVIOUS
<1>1. Given /\ TInv /\ FilterTypeOK /\ added \in 0 .. NumServer /\ num_items \in Nat
  BY DEF Inv, FilterFed, IInv, FilterTypeOK
<1>2. blocks \in Seq(Code) /\ Len(blocks) = NumServer
  <2>1. NumServer \in Nat /\ blocks = [k \in 1 .. NumServer |-> blocks[k]]
    BY <1>1, GivenTypes DEF TInv, Fixed
  <2>2. \A k \in 1 .. NumServer : blocks[k] \in Code
    BY <1>1, BlocksType
  <2>3. PICK n \in Nat : n = NumServer
    BY <2>1
  <2>4. PICK f : f = blocks
    OBVIOUS
  <2>5. f = [k \in 1 .. n |-> f[k]] /\ \A k \in 1 .. n : f[k] \in Code
    BY <2>1, <2>2, <2>3, <2>4
  <2>6. f \in Seq(Code) /\ Len(f) = n
    BY <2>5
  <2> QED  BY <2>3, <2>4, <2>6
<1>3. \A t \in Threads : next[t] \in 0 .. NumServer
  <2> SUFFICES ASSUME NEW t \in Threads PROVE next[t] \in 0 .. NumServer
    OBVIOUS
  <2>1. next[t] \in Int /\ First(t) <= next[t] /\ next[t] <= SliceEnd(t)
    BY <1>1 DEF TInv, WithinSlice
  <2>2. First(t) \in Nat /\ SliceEnd(t) \in Nat /\ SliceEnd(t) <= NumServer
    BY <1>1, SliceBounds DEF TInv
  <2>3. NumServer \in Nat
    BY <1>1, GivenTypes
  <2> QED  BY <2>1, <2>2, <2>3
<1>4. table \in [Position -> Tag \cup {Empty}] /\ hasher \in Hashes
  BY <1>1 DEF FilterTypeOK, Given
<1>5. /\ sStage \in {"encrypt", "add", "aborted", "parts", "base", "reply"}
      /\ cStage \in {"header", "parts", "base", "online", "done"}
  BY DEF Inv, Phase, Early, Setup, Writer, Reader, Base, PhoneAt, Online, Settled
<1>6. copy.table \in [Position -> Tag \cup {Empty}] /\ copy.num_items \in Nat
      /\ copy.hasher \in Hashes
  <2>1. CASE Early
    BY <2>1 DEF Early
  <2>2. ASSUME NEW w, NEW r, Setup(w, r)
        PROVE  /\ copy.table \in [Position -> Tag \cup {Empty}] /\ copy.num_items \in Nat
               /\ copy.hasher \in Hashes
    BY <1>1, <1>4, <2>2 DEF Setup, Copied
  <2>3. CASE Faithful
    BY <1>1, <1>4, <2>3 DEF Faithful
  <2> QED  BY <2>1, <2>2, <2>3 DEF Inv, Phase, Base, Online, Settled
<1>7. \A k \in DOMAIN ot_choices : ot_choices[k] \in {0, 1} /\ keys[k] \in Exponent
  <2>1. CASE ot_choices = <<>>
    BY <2>1
  <2>2. ASSUME NEW c, NEW pairs, NEW random, Transferred(c, pairs, random)
        PROVE  \A k \in DOMAIN ot_choices : ot_choices[k] \in {0, 1} /\ keys[k] \in Exponent
    <3>1. CASE protocol = "ECNR" /\ c > U
      <4>1. /\ random \in Choices(NumOTs) /\ pairs \in Keys(NumOTs)
            /\ ot_choices = random /\ keys = [k \in DOMAIN pairs |-> pairs[k][random[k]]]
        BY <2>2, <3>1 DEF Transferred
      <4>2. /\ random \in [0 .. NumOTs - 1 -> {0, 1}]
            /\ pairs \in [0 .. NumOTs - 1 -> [{0, 1} -> OTKey]]
        BY <1>1, <4>1, TransferTypes
      <4> QED  BY <4>1, <4>2 DEF OTKey
    <3>2. CASE ~(protocol = "ECNR" /\ c > U)
      BY <2>1, <2>2, <3>2 DEF Transferred
    <3> QED  BY <3>1, <3>2
  <2> QED  BY <2>1, <2>2 DEF Inv, Phase, Early, Fresh, Setup, Base, Online, Settled
<1>8. prfOut \in Seq(Code) /\ result \subseteq 1 .. NumClient
  <2>1. CASE prfOut = <<>> /\ result = {}
    BY <2>1
  <2>2. ASSUME NEW pairs, NEW random, Online(pairs, random)
        PROVE  prfOut \in Seq(Code) /\ result \subseteq 1 .. NumClient
    BY <2>2 DEF Online, Matches
  <2> QED  BY <2>1, <2>2 DEF Inv, Phase, Early, Fresh, Setup, Base
<1> QED
  BY <1>1, <1>2, <1>3, <1>4, <1>5, <1>6, <1>7, <1>8 DEF TypeOK

\* The encryptions, filters, keys and answers of both parties keep their kinds.
THEOREM TypeSafe == Spec => []TypeOK
BY SpecInv, InvTypes, PTL

\* In the setup the phone reads a message for what it is.
LEMMA SetupLockstep ==
    ASSUME Given, NEW w, NEW r, Setup(w, r)
    PROVE  Lockstep
<1>1. /\ toServer = <<>> /\ w \in Nat /\ r \in Nat /\ r <= w
      /\ toClient = Window(SetupStream, r, w) /\ cStage \in {"header", "parts"}
  BY DEF Setup, Reader
<1>2. ASSUME toClient # <<>>, NEW kind \in ClientExpects PROVE Head(toClient).kind = kind
  <2>0. r < w
    BY <1>1, <1>2, WindowEmpty
  <2>1. Head(toClient) = SetupStream[r + 1]
    BY <1>1, <2>0, WindowRead
  <2>2. CASE cStage = "header"
    <3>1. ClientExpects = {"num_server_elements"}
      BY <2>2 DEF ClientExpects, InClientBase
    <3>2. r = 0 /\ kind = "num_server_elements"
      BY <1>2, <2>2, <3>1 DEF Setup, Reader
    <3> QED  BY <2>1, <3>2, SetupFacts DEF Message
  <2>3. CASE cStage = "parts"
    <3>0. expected = Header
      BY <2>3 DEF Setup, Reader
    <3>1. CASE r \in 3 .. 2 + Parts /\ cPos = (r - 3) * PartSize
      <4>1. PICK k \in 0 .. Parts - 1 : k = r - 3 /\ k + 4 = r + 1
        BY <1>1, <3>1, PartsFacts
      <4>2. k * PartSize < SizeInTags /\ cPos = k * PartSize
        <5>1. k \in 0 .. Parts /\ k < Parts
          BY <4>1, PartsFacts
        <5> QED  BY <3>1, <4>1, <5>1, PartsFacts
      <4>3. kind = "cf"
        <5>1. cPos < expected.size_in_tags /\ ~(cPos >= expected.size_in_tags)
          <6>1. cPos \in Nat /\ SizeInTags \in Nat
            BY <4>1, <4>2, PartsFacts
          <6> QED  BY <3>0, <4>2, <6>1 DEF Header
        <5>2. ClientExpects = {"cf"}
          BY <2>3, <5>1 DEF ClientExpects, InClientBase
        <5> QED  BY <1>2, <5>2
      <4>4. SetupStream[k + 4] = Message("cf", Serialize(k * PartSize))
        BY SetupFacts
      <4>5. Head(toClient) = Message("cf", Serialize(k * PartSize))
        BY <2>1, <4>1, <4>4
      <4> QED  BY <4>3, <4>5 DEF Message
    <3>2. CASE r \in 3 + Parts .. SetupLength - 1 /\ cPos = Parts * PartSize
      <4>1. ~(cPos < SizeInTags)
        <5>1. Parts \in 0 .. Parts
          BY PartsFacts
        <5> QED  BY <3>2, <5>1, PartsFacts
      <4>2. cPos \in Nat /\ SizeInTags \in Nat
        BY <3>2, PartsFacts
      <4>3. kind = "param"
        <5>1. ~(cPos < expected.size_in_tags) /\ cPos >= expected.size_in_tags
          BY <3>0, <4>1, <4>2 DEF Header
        <5>2. ClientExpects = {"param"}
          BY <2>3, <5>1 DEF ClientExpects, InClientBase
        <5> QED  BY <1>2, <5>2
      <4>4. r + 1 \in 4 + Parts .. SetupLength
        BY <1>1, <3>2, SetupFacts, PartsFacts
      <4> QED  BY <2>1, <4>3, <4>4, SetupFacts DEF Message
    <3> QED  BY <2>3, <3>1, <3>2 DEF Setup, Reader
  <2> QED  BY <1>1, <2>2, <2>3
<1> QED  BY <1>1, <1>2 DEF Lockstep, ClientDone

\* In the base phase what a party reads is its entry of the script.
LEMMA BaseLockstep ==
    ASSUME Given, NEW s, NEW c, NEW pairs, NEW random, Base(s, c, pairs, random)
    PROVE  Lockstep
<1>1. /\ ScriptLength \in Nat /\ ScriptLength >= 11 /\ U = 8
      /\ s \in 1 .. ScriptLength + 1 /\ c \in 1 .. ScriptLength + 2
      /\ s \in Nat \ {0} /\ c \in Nat \ {0} /\ sStep = s
      /\ cStage = "base" => cStep = c /\ c \in 1 .. ScriptLength + 1
      /\ cStage = "online" => c = ScriptLength + 2
      /\ sStage = "base" /\ cStage \in {"base", "online"}
  BY Places
<1>2. ASSUME toClient # <<>>, NEW kind \in ClientExpects PROVE Head(toClient).kind = kind
  <2>1. ServerAhead(s, c)
    BY <1>2 DEF Base, Between, PhoneAhead
  <2>2. c - 1 \in Nat /\ s - 1 \in Nat /\ c - 1 <= s - 1 /\ (c - 1) + 1 = c
    BY <1>1, <2>1 DEF ServerAhead
  <2>3. c - 1 < s - 1 /\ Head(toClient) = ServerStream[c]
    BY <1>2, <2>1, <2>2, WindowEmpty, WindowRead DEF ServerAhead
  <2>4. c \in 1 .. ScriptLength /\ cStage = "base" /\ cStep = c
    BY <1>1, <2>2, <2>3
  <2>5. Head(toClient).kind = KindAt(c)
    BY <2>3, <2>4 DEF ServerStream, Signal, Message
  <2>6. InClientBase /\ ClientOp.kind = KindAt(c)
    BY <1>1, <2>4, ScriptFacts DEF InClientBase, ClientOp, Given
  <2>7. kind = KindAt(c)
    BY <1>2, <2>4, <2>6 DEF ClientExpects
  <2> QED  BY <2>5, <2>7
<1>3. ASSUME toServer # <<>>, NEW kind \in ServerExpects PROVE Head(toServer).kind = kind
  <2>1. PhoneAhead(s, c, pairs, random)
    BY <1>3 DEF Base, Between, ServerAhead
  <2>2. c - 1 \in Nat /\ s - 1 \in Nat /\ s - 1 <= c - 1 /\ (s - 1) + 1 = s
    BY <1>1, <2>1 DEF PhoneAhead
  <2>3. s - 1 < c - 1 /\ Head(toServer) = PhoneStream(pairs, random)[s]
    BY <1>3, <2>1, <2>2, WindowEmpty, WindowRead DEF PhoneAhead
  <2>4. CASE s \in 1 .. ScriptLength
    <3>1. Head(toServer).kind = KindAt(s)
      <4>1. s \in 1 .. ScriptLength + 1 /\ s <= ScriptLength
        BY <1>1, <2>4
      <4>2. PhoneStream(pairs, random)[s] = PhoneMessage(s, pairs, random)
        BY <4>1 DEF PhoneStream
      <4>3. PhoneMessage(s, pairs, random).kind = KindAt(s)
        BY <4>1 DEF PhoneMessage, Message
      <4> QED  BY <2>3, <4>2, <4>3
    <3>2. InServerBase /\ ServerOp.kind = KindAt(s)
      BY <1>1, <2>4 DEF InServerBase, ServerOp, KindAt, ScriptLength
    <3>3. kind = KindAt(s)
      BY <1>3, <3>2 DEF ServerExpects
    <3> QED  BY <3>1, <3>3
  <2>5. CASE s = ScriptLength + 1
    <3>1. Head(toServer).kind = "choices"
      <4>1. Head(toServer) = Message("choices", IF protocol = "GC" THEN 0 ELSE CorrectedBy(random))
        BY <2>3, <2>5, PhoneStreamFacts
      <4> QED  BY <4>1 DEF Message
    <3>2. ~InServerBase
      BY <1>1, <2>5 DEF InServerBase, ScriptLength
    <3>3. kind = "choices"
      BY <1>1, <1>3, <3>2 DEF ServerExpects
    <3> QED  BY <3>1, <3>3
  <2> QED  BY <1>1, <2>4, <2>5
<1> QED  BY <1>1, <1>2, <1>3 DEF Lockstep, ClientDone

LEMMA OnlineLockstep ==
    ASSUME Given, NEW pairs, NEW random, Online(pairs, random)
    PROVE  Lockstep
<1>1. /\ RepliesRead \in Nat /\ sPos \in Nat /\ RepliesRead <= sPos /\ Replies \in Nat
      /\ toClient = Window(ReplyStream, RepliesRead, sPos) /\ sPos <= Replies
      /\ sStage = "reply" /\ cStage \in {"online", "done"} /\ toServer = <<>>
      /\ NumClient \in Nat \ {0}
  BY OnlineFacts DEF Online, Settled
<1>2. ASSUME toClient # <<>>, NEW kind \in ClientExpects PROVE Head(toClient).kind = kind
  <2>0. RepliesRead < sPos
    BY <1>1, <1>2, WindowEmpty
  <2>1. Head(toClient) = ReplyStream[RepliesRead + 1]
    BY <1>1, <2>0, WindowRead
  <2>2. RepliesRead + 1 \in 1 .. Replies
    BY <1>1, <2>0
  <2>3. kind = IF protocol = "GC" THEN "labels" ELSE "oprf"
    BY <1>1, <1>2 DEF ClientExpects, InClientBase
  <2> QED  BY <2>1, <2>2, <2>3 DEF ReplyStream, Signal, Message
<1>3. ASSUME ClientDone, ServerDone PROVE toClient = <<>>
  <2>1. sPos = Replies /\ Len(prfOut) = NumClient
    BY <1>3 DEF ServerDone, ClientDone, Online
  <2>2. prfOut # <<>>
    BY <1>1, <2>1
  <2>3. RepliesRead = Replies
    BY <2>1, <2>2, OnlineFacts DEF Given, Protocol
  <2> QED  BY <1>1, <2>1, <2>3, WindowEmpty
<1> QED  BY <1>1, <1>2, <1>3 DEF Lockstep

\* Through all three phases each party reads every message for what the other
\* one wrote it, whatever the sizes, and nothing is left over.
THEOREM ReadsInStep == Spec => []Lockstep
<1>1. Inv => Lockstep
  <2> SUFFICES ASSUME Inv PROVE Lockstep
    OBVIOUS
  <2>1. Given
    BY DEF Inv, FilterFed
  <2>2. CASE Early
    BY <2>2 DEF Early, Lockstep
  <2> QED  BY <2>1, <2>2, SetupLockstep, BaseLockstep, OnlineLockstep DEF Inv, Phase
<1> QED  BY <1>1, SpecInv, PTL

\* When all parts and parameters are in, the phone's filter is the server's,
\* whatever the size of the table and of the parts.
THEOREM CopyFaithful == Spec => []CopyIsFaithful
<1>1. Inv => CopyIsFaithful
  BY DEF Inv, Phase, Early, Setup, Reader, Base, Online, Settled, Faithful, CopyIsFaithful
<1> QED  BY <1>1, SpecInv, PTL

\* Whatever OT keys and random choices the extension gives: the phone obtains
\* for each of its elements what the server computed for the same element.
THEOREM FunctionsAgree == Spec => []SameFunction
<1>1. Inv => SameFunction
  <2> SUFFICES ASSUME Inv PROVE SameFunction
    OBVIOUS
  <2>1. CASE prfOut = <<>>
    BY <2>1 DEF SameFunction
  <2> QED  BY <2>1 DEF Inv, Phase, Early, Fresh, Setup, Base, Online
<1> QED  BY <1>1, SpecInv, PTL

\* Without a victim, the table that was sent is the whole filter.
LEMMA FindsTable ==
    ASSUME NEW item
    PROVE  /\ Contain(table, Unused, item) => Contain(table, victim, item)
           /\ ~victim.used => (Contain(table, victim, item) => Contain(table, Unused, item))
<1>1. ~Unused.used
  BY NothingBusy
<1>2. ~IsVictim(Unused, item)
  BY <1>1 DEF IsVictim
<1>3. ~victim.used => ~IsVictim(victim, item)
  BY DEF IsVictim
<1> QED  BY <1>2, <1>3 DEF Contain

\* The answer is exact but for collisions, and misses none of the common
\* elements unless the filter kept one as the victim or refused some.
THEOREM IntersectionIsExact == Spec => []IntersectionExact
<1>1. Inv => IntersectionExact
  <2> SUFFICES ASSUME Inv, ClientDone, NEW i \in 1 .. NumClient
               PROVE  /\ i \in result => Collides(clientSet[i])
                      /\ num_items = NumServer /\ Collides(clientSet[i]) => i \in result
    BY DEF IntersectionExact
  <2>1. PICK pairs, random : Online(pairs, random)
    BY DEF Inv, Phase, Early, Setup, Reader, Base, PhoneAt, ClientDone
  <2>2. /\ Given /\ FilterTypeOK /\ ~adding.busy /\ added = NumServer /\ NumServer \in Nat
        /\ TInv /\ num_items \in Nat /\ sStage = "reply"
    BY <2>1, GivenTypes DEF Inv, FilterFed, IInv, FilterTypeOK, Online, Settled
  <2>3. PICK n \in Nat : Took(n)
    BY DEF Inv, FilterFed
  <2>4. /\ n <= NumServer /\ num_items + One(victim.used) = n
        /\ num_items = NumServer => ~victim.used /\ n = NumServer
    <3>1. n \in 0 .. added /\ num_items + One(adding.busy) + One(victim.used) = n
      BY <2>3 DEF Took
    <3> QED  BY <2>2, <3>1 DEF One
  <2>5. PICK item \in Item : item = hasher[Encrypted(clientSet[i])]
    <3>1. clientSet[i] \in Element
      BY <2>2, GivenTypes
    <3> QED  BY <2>2, <3>1, EncryptedType, GivenTypes
  <2>6. i \in result <=> Contain(table, Unused, item)
    <3>1. prfOut[i] = Encrypted(clientSet[i])
      BY <2>1 DEF Online, ClientDone, SameFunction
    <3>2. result = {j \in 1 .. NumClient : Contain(table, Unused, hasher[prfOut[j]])}
      BY <2>1 DEF Online, Settled, Faithful, ClientDone, Matches
    <3> QED  BY <2>5, <3>1, <3>2
  <2>7. Contain(table, victim, item) <=> Held(ClassOf(item)) > 0
    BY <2>2, ContainIsHeld
  <2>8. Held(ClassOf(item)) = Cardinality(Fed(n, ClassOf(item)))
    BY <2>3 DEF Took, Class
  <2>9. Held(ClassOf(item)) > 0 <=> Fed(n, ClassOf(item)) # {}
    <3>1. IsFiniteSet(Fed(n, ClassOf(item)))
      <4>1. IsFiniteSet(1 .. n) /\ Fed(n, ClassOf(item)) \subseteq 1 .. n
        BY FS_Interval DEF Fed
      <4> QED  BY <4>1, FS_Subset
    <3>2. Cardinality(Fed(n, ClassOf(item))) \in Nat
          /\ (Cardinality(Fed(n, ClassOf(item))) = 0 <=> Fed(n, ClassOf(item)) = {})
      BY <3>1, FS_CardinalityType, FS_EmptySet
    <3> QED  BY <2>8, <3>2
  <2>10. \A j \in 1 .. NumServer : blocks[j] = Encrypted(serverSet[j])
    <3> SUFFICES ASSUME NEW j \in 1 .. NumServer PROVE blocks[j] = Encrypted(serverSet[j])
      OBVIOUS
    <3>1. j - 1 \in 0 .. NumServer - 1 /\ (j - 1) + 1 = j
      BY <2>2
    <3> QED  BY <2>2, <3>1 DEF TInv
  <2>11. ASSUME i \in result PROVE Collides(clientSet[i])
    <3>1. PICK j \in 1 .. n : ClassOf(hasher[blocks[j]]) = ClassOf(item)
      BY <2>6, <2>7, <2>9, <2>11, FindsTable DEF Fed
    <3>2. j \in 1 .. NumServer
      BY <2>2, <2>4
    <3> QED  BY <2>5, <2>10, <3>1, <3>2 DEF Collides
  <2>12. ASSUME num_items = NumServer, Collides(clientSet[i]) PROVE i \in result
    <3>1. PICK j \in 1 .. NumServer : ClassOf(hasher[Encrypted(serverSet[j])]) = ClassOf(item)
      BY <2>5, <2>12 DEF Collides
    <3>2. j \in Fed(n, ClassOf(item))
      BY <2>4, <2>10, <2>12, <3>1 DEF Fed
    <3>3. Contain(table, victim, item) /\ ~victim.used
      BY <2>4, <2>7, <2>9, <2>12, <3>2
    <3> QED  BY <2>6, <3>3, FindsTable
  <2> QED  BY <2>11, <2>12
<1> QED  BY <1>1, SpecInv, PTL

\* Whatever the number of threads and elements, and however the threads
\* interleave: the filter is given each element encrypted exactly once.
THEOREM EncryptsEachOnce == Spec => []EncryptedOnce
<1>1. TInv => EncryptedOnce
  <2> SUFFICES ASSUME TInv, sStage # "encrypt", NEW i \in 1 .. NumServer
               PROVE  blocks[i] = Encrypted(serverSet[i])
    BY DEF EncryptedOnce
  <2>1. i - 1 \in 0 .. NumServer - 1 /\ (i - 1) + 1 = i
    BY DEF TInv, Fixed, NumServer
  <2> QED  BY <2>1 DEF TInv
<1> QED  BY <1>1, InitTInv, NextTInv, PTL DEF Spec
=============================================================================
