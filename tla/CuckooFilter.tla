---------------------------- MODULE CuckooFilter ----------------------------
(***************************************************************************)
(* The cuckoo filter the server of a private set intersection builds over  *)
(* its encrypted elements.  An item is a tag and a bucket; its tag is kept *)
(* in that bucket or in the alternate one, and moved between the two to    *)
(* make room.  A tag that is left over after kMaxCuckooCount moves waits   *)
(* outside the table as the victim.                                        *)
(*                                                                         *)
(* One round of AddImpl's loop is one step, because the loop gives up      *)
(* between two rounds.                                                     *)
(***************************************************************************)
EXTENDS Integers, FiniteSets

CONSTANTS
    num_buckets,
    kTagsPerBucket,
    kMaxCuckooCount,
    Tag,             \* the tags TagHash gives, never 0
    AltIndex(_, _)   \* a tag's other bucket: index ^ tag * 0x5bd1e995

Empty == 0
Bucket == 0 .. num_buckets - 1
Slot == 0 .. kTagsPerBucket - 1
Position == Bucket \X Slot

\* What GenerateIndexTagHash makes of a key.
Item == [index : Bucket, tag : Tag]

ASSUME SizeAssumption ==
    /\ num_buckets \in Nat \ {0} /\ kTagsPerBucket \in Nat \ {0}
    /\ kMaxCuckooCount \in Nat \ {0}

ASSUME TagAssumption == Empty \notin Tag

\* Contain asserts it: the alternate bucket of the alternate bucket is the first.
ASSUME AltAssumption ==
    \A i \in Bucket, t \in Tag :
        AltIndex(i, t) \in Bucket /\ AltIndex(AltIndex(i, t), t) = i

\* The number of buckets for so many keys: a power of two, doubled when the
\* keys would fill more than 96% of it.
PowersOfTwo == {2^e : e \in 0 .. 16}
UpperPower2(n) == CHOOSE p \in PowersOfTwo : n <= p /\ \A q \in PowersOfTwo : n <= q => p <= q
BucketsFor(max_num_keys) ==
    LET few == max_num_keys \div kTagsPerBucket
        buckets == UpperPower2(IF few = 0 THEN 1 ELSE few)
    IN  IF 100 * max_num_keys > 96 * buckets * kTagsPerBucket THEN 2 * buckets ELSE buckets

-----------------------------------------------------------------------------
VARIABLES
    table,       \* the tag in every position, or Empty
    num_items,
    victim,      \* the item that found no place, if it is used
    adding       \* the loop of AddImpl: curindex, curtag and its count

filterVars == <<table, num_items, victim, adding>>

Unused == [used |-> FALSE]
Victim(item) == [used |-> TRUE, item |-> item]
NotAdding == [busy |-> FALSE]
Adding(item, count) == [busy |-> TRUE, item |-> item, count |-> count]

Alt(item) == AltIndex(item.index, item.tag)
Moved(item) == [item EXCEPT !.index = Alt(item)]

FilterInit ==
    /\ table = [p \in Position |-> Empty]
    /\ num_items = 0
    /\ victim = Unused
    /\ adding = NotAdding

-----------------------------------------------------------------------------
(* Lookup *)

Holds(t, i, tag) == \E j \in Slot : t[<<i, j>>] = tag
FindTagInBuckets_FirstOnly(t, i1, i2, tag) == Holds(t, i1, tag)
FindTagInBuckets(t, i1, i2, tag) == Holds(t, i1, tag) \/ Holds(t, i2, tag)

\* The same tag, waiting for one of the item's two buckets.
IsVictim(v, item) ==
    /\ v.used
    /\ v.item.tag = item.tag
    /\ v.item.index \in {item.index, Alt(item)}

Contain_TableOnly(t, v, item) == FindTagInBuckets(t, item.index, Alt(item), item.tag)
Contain(t, v, item) ==
    IsVictim(v, item) \/ FindTagInBuckets(t, item.index, Alt(item), item.tag)

-----------------------------------------------------------------------------
(* Add *)

\* The first slot of bucket i that holds tag; slot 0 is tried first.
FirstSlot(i, tag) ==
    CHOOSE j \in Slot : table[<<i, j>>] = tag /\ \A k \in Slot : table[<<i, k>>] = tag => j <= k

Put(i, j, tag) == table' = [table EXCEPT ![<<i, j>>] = tag]

\* Add refuses an item while there is a victim.
Add(item) ==
    /\ ~adding.busy /\ ~victim.used
    /\ adding' = Adding(item, 0)
    /\ UNCHANGED <<table, num_items, victim>>

Round_OneMore == adding.busy /\ adding.count <= kMaxCuckooCount
Round == adding.busy /\ adding.count < kMaxCuckooCount

Insert ==
    /\ Round
    /\ LET item == adding.item
       IN  /\ Holds(table, item.index, Empty)
           /\ Put(item.index, FirstSlot(item.index, Empty), item.tag)
    /\ num_items' = num_items + 1
    /\ adding' = NotAdding
    /\ UNCHANGED victim

\* Nothing is kicked out in the first round: the alternate bucket is tried.
TryAlternate ==
    /\ Round /\ adding.count = 0
    /\ ~Holds(table, adding.item.index, Empty)
    /\ adding' = Adding(Moved(adding.item), 1)
    /\ UNCHANGED <<table, num_items, victim>>

\* Later a random tag of the full bucket makes room and looks for a place.
KickedOut_KeepsTag(old, item) == Moved(item)
KickedOut(old, item) == [index |-> AltIndex(item.index, old), tag |-> old]

Kick ==
    /\ Round /\ adding.count > 0
    /\ ~Holds(table, adding.item.index, Empty)
    /\ \E r \in Slot :
          LET item == adding.item
              old == table[<<item.index, r>>]
          IN  /\ Put(item.index, r, item.tag)
              /\ adding' = Adding(KickedOut(old, item), adding.count + 1)
    /\ UNCHANGED <<num_items, victim>>

\* After the last round the tag in hand becomes the victim; Add says Ok.
GiveUp ==
    /\ adding.busy /\ adding.count = kMaxCuckooCount
    /\ victim' = Victim(adding.item)
    /\ adding' = NotAdding
    /\ UNCHANGED <<table, num_items>>

AddImpl == Insert \/ TryAlternate \/ Kick \/ GiveUp

-----------------------------------------------------------------------------
(* Delete: from the first bucket that has the tag, or else the victim; a    *)
(* free slot is a new chance for the victim.                               *)

DeleteFromTable_KeepVictim(item) ==
    /\ ~adding.busy
    /\ FindTagInBuckets(table, item.index, Alt(item), item.tag)
    /\ LET i == IF Holds(table, item.index, item.tag) THEN item.index ELSE Alt(item)
       IN  Put(i, FirstSlot(i, item.tag), Empty)
    /\ num_items' = num_items - 1
    /\ UNCHANGED <<victim, adding>>

DeleteFromTable(item) ==
    /\ ~adding.busy
    /\ FindTagInBuckets(table, item.index, Alt(item), item.tag)
    /\ LET i == IF Holds(table, item.index, item.tag) THEN item.index ELSE Alt(item)
       IN  Put(i, FirstSlot(i, item.tag), Empty)
    /\ num_items' = num_items - 1
    /\ victim' = Unused
    /\ adding' = IF victim.used THEN Adding(victim.item, 0) ELSE NotAdding

DeleteVictim_Counted(item) ==
    /\ ~adding.busy
    /\ ~FindTagInBuckets(table, item.index, Alt(item), item.tag)
    /\ IsVictim(victim, item)
    /\ victim' = Unused
    /\ num_items' = num_items - 1
    /\ UNCHANGED <<table, adding>>

\* The victim was never counted in num_items.
DeleteVictim(item) ==
    /\ ~adding.busy
    /\ ~FindTagInBuckets(table, item.index, Alt(item), item.tag)
    /\ IsVictim(victim, item)
    /\ victim' = Unused
    /\ UNCHANGED <<table, num_items, adding>>

Delete(item) == DeleteFromTable(item) \/ DeleteVictim(item)

-----------------------------------------------------------------------------
FilterNext == AddImpl \/ \E item \in Item : Add(item) \/ Delete(item)

FilterSpec == FilterInit /\ [][FilterNext]_filterVars

-----------------------------------------------------------------------------
(* Properties *)

\* The variables hold tables, counts, items and rounds of the right kinds.
FilterTypeOK ==
    /\ table \in [Position -> Tag \cup {Empty}]
    /\ num_items \in Nat
    /\ victim \in {Unused} \cup {Victim(item) : item \in Item}
    /\ adding \in {NotAdding} \cup
                  {Adding(item, n) : item \in Item, n \in 0 .. kMaxCuckooCount}

Occupied(t) == {p \in Position : t[p] # Empty}

\* num_items is the number of slots in use, whatever was moved, waited as the
\* victim or was deleted (Size and LoadFactor report it).
SlotsCounted == num_items = Cardinality(Occupied(table))

Full(i) == ~Holds(table, i, Empty)

\* Add refuses items only while some bucket is full: a victim is put back into
\* the table when deletions make room, and does not block a table gone empty.
RefusesOnlyWhenCrowded == victim.used => \E i \in Bucket : Full(i)

\* What the filter can tell of an item: its tag and its two buckets.
ClassOf(item) == [tag |-> item.tag, homes |-> {item.index, Alt(item)}]
Class == {ClassOf(item) : item \in Item}

At(p) == [index |-> p[1], tag |-> table[p]]
InTable(c) == {p \in Occupied(table) : ClassOf(At(p)) = c}
One(condition) == IF condition THEN 1 ELSE 0

\* How many items of a class the filter holds: in the table, in hand while a
\* call of Add is moving them around, and as the victim.
Held(c) ==
    Cardinality(InTable(c))
      + One(adding.busy /\ ClassOf(adding.item) = c)
      + One(victim.used /\ ClassOf(victim.item) = c)

Bag == INSTANCE FingerprintBag WITH Class <- Class, bag <- [c \in Class |-> Held(c)]

\* No tag is ever lost, doubled or turned into another one: however many are
\* kicked out of their buckets, the filter holds what was added and not deleted.
ImplementsBag == Bag!Spec

\* Between two calls, Contain answers Ok for exactly the items of a class the
\* filter holds: no stored item is missed, in either bucket or as the victim,
\* and a false positive is always an item of the same class.
ContainExact ==
    ~adding.busy =>
        \A item \in Item : Contain(table, victim, item) <=> Held(ClassOf(item)) > 0
=============================================================================
