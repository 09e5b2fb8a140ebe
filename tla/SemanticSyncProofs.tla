--------------------------- MODULE SemanticSyncProofs ---------------------------
(***************************************************************************)
(* What synchronizations make of an index, for any inventories, models,    *)
(* versions, batch capacities and retry policies, whichever calls fail:    *)
(* the vectors are those of the records, a successful synchronization      *)
(* leaves exactly its inventory and counts truly, and no more calls are    *)
(* made than the policy allows for the batches that changed.               *)
(***************************************************************************)
EXTENDS SemanticSync, FiniteSetTheorems, SequenceTheorems, WellFoundedInduction, TLAPS

Chunk == [id : Ids, text : Texts]

-------------------------------------------------------------------------------
(* The chunks picked from an inventory *)

(* A set of natural numbers has a least member.                            *)
LEMMA Least ==
  ASSUME NEW S \in SUBSET Nat, S # {}
  PROVE  \E m \in S : \A n \in S : m <= n
<1>1. PICK m \in S : \A n \in S : ~(<<n, m>> \in OpToRel(<, Nat))
  BY WFMin, NatLessThanWellFounded
<1>2. ASSUME NEW n \in S, n < m PROVE FALSE
  BY <1>1, <1>2 DEF OpToRel
<1> QED
  BY <1>2

(* f holds, for each n up to m, the members of s at the positions I among  *)
(* the first n.                                                            *)
Picks(s, I, m, f) ==
  f = [n \in 0 .. m |->
         IF n = 0 THEN << >> ELSE IF n \in I THEN Append(f[n - 1], s[n]) ELSE f[n - 1]]

(* The recursion of Picked is well defined.                                *)
LEMMA PicksExist ==
  ASSUME NEW s, NEW I, NEW m \in Nat
  PROVE  \E f : Picks(s, I, m, f)
<1> DEFINE Bad == {n \in Nat : ~ \E f : Picks(s, I, n, f)}
<1>1. SUFFICES ASSUME Bad # {} PROVE FALSE
  OBVIOUS
<1>2. PICK n \in Bad : \A k \in Bad : n <= k
  BY <1>1, Least
<1>3. CASE n = 0
  <2>1. Picks(s, I, 0, [k \in 0 .. 0 |-> << >>])
    BY DEF Picks
  <2> QED
    BY <1>2, <1>3, <2>1
<1>4. CASE n # 0
  <2>1. n - 1 \in Nat /\ n \in Nat /\ ~(n <= n - 1)
    BY <1>4
  <2>2. PICK g : Picks(s, I, n - 1, g)
    BY <1>2, <2>1
  <2> DEFINE last == IF n \in I THEN Append(g[n - 1], s[n]) ELSE g[n - 1]
             f == [k \in 0 .. n |-> IF k = n THEN last ELSE g[k]]
  <2>3. \A k \in 0 .. n - 1 : f[k] = g[k]
    BY <2>1
  <2>4. ASSUME NEW k \in 0 .. n
        PROVE  f[k] = IF k = 0 THEN << >>
                      ELSE IF k \in I THEN Append(f[k - 1], s[k]) ELSE f[k - 1]
    <3>1. CASE k = n
      BY <2>1, <2>3, <3>1
    <3>2. CASE k # n
      <4>1. k \in 0 .. n - 1 /\ (k # 0 => k - 1 \in 0 .. n - 1)
        BY <2>1, <3>2
      <4>2. g[k] = IF k = 0 THEN << >>
                   ELSE IF k \in I THEN Append(g[k - 1], s[k]) ELSE g[k - 1]
        BY <2>2, <4>1 DEF Picks
      <4> QED
        BY <2>3, <4>1, <4>2
    <3> QED
      BY <3>1, <3>2
  <2>5. f = [k \in 0 .. n |-> f[k]]
    OBVIOUS
  <2> HIDE DEF f
  <2>6. Picks(s, I, n, f)
    BY <2>4, <2>5 DEF Picks
  <2> QED
    BY <1>2, <2>6
<1> QED
  BY <1>3, <1>4

(* As many are picked as there are positions, and each is at one of them.  *)
LEMMA PickedProperties ==
  ASSUME NEW T, NEW s \in Seq(T), NEW I \in SUBSET (1 .. Len(s))
  PROVE  /\ Picked(s, I) \in Seq(T)
         /\ Len(Picked(s, I)) = Cardinality(I)
         /\ \A k \in 1 .. Len(Picked(s, I)) : \E i \in I : Picked(s, I)[k] = s[i]
<1>1. Len(s) \in Nat /\ \A i \in 1 .. Len(s) : s[i] \in T
  BY LenProperties, ElementOfSeq
<1>2. \E g : Picks(s, I, Len(s), g)
  BY <1>1, PicksExist
<1>3. PICK f : Picks(s, I, Len(s), f) /\ Picked(s, I) = f[Len(s)]
  BY <1>2 DEF Picks, Picked
<1>a. /\ f[0] = << >>
      /\ \A n \in 1 .. Len(s) :
            f[n] = IF n \in I THEN Append(f[n - 1], s[n]) ELSE f[n - 1]
  <2>1. \A n \in 0 .. Len(s) :
            f[n] = IF n = 0 THEN << >> ELSE IF n \in I THEN Append(f[n - 1], s[n]) ELSE f[n - 1]
    BY <1>3, Zenon DEF Picks
  <2>2. 0 \in 0 .. Len(s) /\ \A n \in 1 .. Len(s) : n \in 0 .. Len(s) /\ n # 0
    BY <1>1
  <2> QED
    BY <2>1, <2>2, Zenon
<1> DEFINE First(n) == I \cap (1 .. n)
           P(n) == /\ f[n] \in Seq(T)
                   /\ Len(f[n]) = Cardinality(First(n))
                   /\ \A k \in 1 .. Len(f[n]) : \E i \in First(n) : f[n][k] = s[i]
           Bad == {n \in 0 .. Len(s) : ~P(n)}
<1>4. Bad = {}
  <2>1. SUFFICES ASSUME Bad # {} PROVE FALSE
    OBVIOUS
  <2>2. PICK n \in Bad : \A k \in Bad : n <= k
    <3>1. Bad \in SUBSET Nat
      BY <1>1
    <3> HIDE DEF Bad
    <3> QED
      BY <2>1, <3>1, Least
  <2>3. CASE n = 0
    <3>1. f[0] = << >> /\ First(0) = {}
      BY <1>1, <1>a
    <3>2. P(0)
      BY <3>1, EmptySeq, FS_EmptySet
    <3> QED
      BY <2>2, <2>3, <3>2
  <2>4. CASE n # 0
    <3>1. n \in 1 .. Len(s) /\ n - 1 \in 0 .. Len(s) /\ ~(n <= n - 1)
      BY <1>1, <2>4
    <3>2. P(n - 1)
      BY <2>2, <3>1
    <3>3. IsFiniteSet(First(n - 1)) /\ n \notin First(n - 1) /\ First(n - 1) \subseteq First(n)
      <4>1. IsFiniteSet(1 .. n - 1)
        BY <3>1, FS_Interval
      <4> QED
        BY <3>1, <4>1, FS_Subset
    <3>4. CASE n \in I
      <4>1. f[n] = Append(f[n - 1], s[n]) /\ First(n) = First(n - 1) \cup {n}
        <5>1. f[n] = Append(f[n - 1], s[n])
          BY <1>a, <3>1, <3>4
        <5>2. \A k : k \in 1 .. n <=> k \in 1 .. n - 1 \/ k = n
          BY <3>1
        <5> QED
          BY <3>4, <5>1, <5>2
      <4>2. /\ f[n] \in Seq(T) /\ Len(f[n]) = Len(f[n - 1]) + 1
            /\ \A k \in 1 .. Len(f[n - 1]) : f[n][k] = f[n - 1][k]
            /\ f[n][Len(f[n - 1]) + 1] = s[n] /\ Len(f[n - 1]) \in Nat
        <5>1. s[n] \in T /\ f[n - 1] \in Seq(T)
          BY <1>1, <3>1, <3>2
        <5> QED
          BY <4>1, <5>1, AppendProperties, LenProperties
      <4>3. Cardinality(First(n)) = Cardinality(First(n - 1)) + 1
        BY <3>3, <4>1, FS_AddElement
      <4>4. \A k \in 1 .. Len(f[n]) : k \in 1 .. Len(f[n - 1]) \/ k = Len(f[n - 1]) + 1
        BY <4>2
      <4>5. ASSUME NEW k \in 1 .. Len(f[n]) PROVE \E i \in First(n) : f[n][k] = s[i]
        BY <3>2, <4>1, <4>2, <4>4
      <4> QED
        BY <2>2, <3>2, <4>2, <4>3, <4>5
    <3>5. CASE n \notin I
      <4>1. f[n] = f[n - 1] /\ First(n) = First(n - 1)
        <5>1. f[n] = f[n - 1]
          BY <1>a, <3>1, <3>5
        <5>2. \A k : k \in 1 .. n <=> k \in 1 .. n - 1 \/ k = n
          BY <3>1
        <5> QED
          BY <3>5, <5>1, <5>2
      <4> QED
        BY <2>2, <3>2, <4>1
    <3> QED
      BY <3>4, <3>5
  <2> QED
    BY <2>3, <2>4
<1>5. P(Len(s)) /\ First(Len(s)) = I
  <2>1. Len(s) \in 0 .. Len(s)
    BY <1>1
  <2>2. P(Len(s))
    BY <1>4, <2>1
  <2> QED
    BY <2>2
<1> QED
  BY <1>3, <1>5

-------------------------------------------------------------------------------
(* What is so at every step                                                *)

Building == {"reuse", "embed", "add", "validate", "publish"}
Unfinished == {"read", "create"} \cup Building
Succeeded == result # None /\ result.status \in {"success", "unchanged"}

(* The vectors of an index are those of its records.                       *)
IsCurrent(ix) ==
    ix # None =>
        /\ IsFiniteSet(DOMAIN ix.rows)
        /\ \A id \in DOMAIN ix.rows : ix.rows[id].vector = Vector(ix.space, id, ix.rows[id].text)

(* A row of a chunk of the inventory: the former one of a chunk that is    *)
(* reusable, and a new one otherwise; its vector is that of the chunk.     *)
Belongs(id, row) ==
    /\ row \in Row /\ row.vector = Vector(space, id, row.text)
    /\ \E i \in Positions :
          /\ current[i].id = id /\ row.text = current[i].text
          /\ Reusable(current[i]) => row = before.rows[id]

IsForJob(ix) ==
    /\ ix \in Index /\ ix.space = space
    /\ \A id \in DOMAIN ix.rows : Belongs(id, ix.rows[id])
IsOfJob(ix) == IsForJob(ix) /\ DOMAIN ix.rows = IdsOf(current)

Jobs ==
    /\ pc # "idle" => space \in Spaces
    /\ pc \in Unfinished => before = index
    /\ pc \in Unfinished \cup {"report"} => result = None
Indexes == IsCurrent(index) /\ IsCurrent(before)
Candidates ==
    /\ pc \in Building => IsForJob(cand) /\ cand.expected = Len(current)
    /\ pc = "publish" => DOMAIN cand.rows = IdsOf(current)
    /\ pc = "add" => \A k \in 1 .. Len(embedded) : Belongs(embedded[k].id, embedded[k].row)
Outcome ==
    /\ pc = "report" => IsOfJob(index)
    /\ Succeeded =>
          /\ pc = "idle" /\ space \in Spaces /\ IsOfJob(index)
          /\ result.counts = Counts(Len(Unchanged), Len(Changed), Len(New), Len(Updated),
                                    Cardinality(Deleted))
Contents == Jobs /\ Indexes /\ Candidates /\ Outcome

(* The batches of the chunks that changed, and the calls for the first k:  *)
(* one or as many as there are attempts for each.                          *)
Batches == (Len(Changed) + Capacity - 1) \div Capacity
CallsFor(k) == calls >= k /\ calls <= MaxAttempts * k
Progress ==
    /\ attempt < MaxAttempts \/ pc \in {"abort", "idle"}
    /\ pc \in {"read", "create", "reuse"} => calls = 0 /\ attempt = 0
    /\ pc = "embed" =>
          \E k \in Nat : /\ next = 1 + k * Capacity /\ (k = 0 \/ next <= Len(Changed))
                         /\ calls >= k /\ calls <= MaxAttempts * k + attempt
                         /\ Changed = << >> => attempt = 0
    /\ pc = "add" =>
          \E k \in Nat : /\ next = 1 + k * Capacity /\ (k = 0 \/ next <= Len(Changed))
                         /\ attempt = 0 /\ CallsFor(IF Changed = << >> THEN 0 ELSE k + 1)
    /\ pc \in {"validate", "publish", "report"} => CallsFor(Batches)
    /\ pc \in {"abort", "idle"} => calls <= MaxAttempts * Batches
    /\ result # None /\ result.status = "success" => calls >= Batches

SyncInv == TypeOK /\ Contents /\ Progress

-------------------------------------------------------------------------------
(* The inventory of a synchronization *)

HasInventory == current \in Inventories \cup {<< >>}

(* Its chunks have different ids.                                          *)
LEMMA InventoryProperties ==
  ASSUME HasInventory
  PROVE  /\ current \in Seq(Chunk) /\ Len(current) \in Nat
         /\ \A i \in Positions : current[i] \in Chunk
         /\ \A i, j \in Positions : current[i].id = current[j].id => i = j
         /\ IsFiniteSet(Positions) /\ Cardinality(Positions) = Len(current)
<1>1. /\ current \in Seq(Chunk)
      /\ \A i, j \in 1 .. Len(current) : current[i].id = current[j].id => i = j
  <2>1. CASE current = << >>
    BY <2>1, EmptySeq
  <2>2. CASE current \in Inventories
    BY <2>2, InventoriesAreValid DEF Chunk
  <2> QED
    BY <2>1, <2>2 DEF HasInventory
<1>2. Len(current) \in Nat
  BY <1>1, LenProperties
<1>3. IsFiniteSet(Positions) /\ Cardinality(Positions) = Len(current)
  <2>1. 1 \in Int /\ Len(current) \in Int
    BY <1>2
  <2>2. /\ IsFiniteSet(1 .. Len(current))
        /\ Cardinality(1 .. Len(current)) =
             IF 1 > Len(current) THEN 0 ELSE Len(current) - 1 + 1
    BY <2>1, FS_Interval, Zenon
  <2>3. (IF 1 > Len(current) THEN 0 ELSE Len(current) - 1 + 1) = Len(current)
    BY <1>2
  <2> QED
    BY <2>2, <2>3 DEF Positions
<1> QED
  BY <1>1, <1>2, <1>3, ElementOfSeq DEF Positions

(* There are as many ids as positions they are at.                         *)
LEMMA IdsAtPositions ==
  ASSUME HasInventory, NEW I \in SUBSET Positions
  PROVE  /\ IsFiniteSet(I) /\ IsFiniteSet({current[i].id : i \in I})
         /\ Cardinality({current[i].id : i \in I}) = Cardinality(I)
<1> DEFINE S == {current[i].id : i \in I}
           f == [i \in I |-> current[i].id]
<1>1. IsFiniteSet(I)
  BY InventoryProperties, FS_Subset
<1>2. f \in [I -> S] /\ (\A i, j \in I : f[i] = f[j] => i = j) /\ \A s \in S : \E i \in I : f[i] = s
  BY InventoryProperties
<1>3. ExistsBijection(I, S)
  <2> HIDE DEF f, S
  <2> QED
    BY <1>2 DEF ExistsBijection, Bijection, Injection, Surjection, IsInjective
<1> QED
  BY <1>1, <1>3, FS_Bijection

LEMMA IdsOfInventory ==
  ASSUME HasInventory
  PROVE  /\ IdsOf(current) = {current[i].id : i \in Positions}
         /\ IsFiniteSet(IdsOf(current)) /\ Cardinality(IdsOf(current)) = Len(current)
         /\ IdsOf(current) \subseteq Ids
<1>1. IdsOf(current) = {current[i].id : i \in Positions}
  BY DEF IdsOf, Positions
<1>2. \A i \in Positions : current[i].id \in Ids
  BY InventoryProperties DEF Chunk
<1> QED
  BY <1>1, <1>2, IdsAtPositions, InventoryProperties

(* What the lists of chunks hold, and how long they are.                   *)
LEMMA ListProperties ==
  ASSUME HasInventory
  PROVE  /\ Unchanged \in Seq(Chunk) /\ New \in Seq(Chunk) /\ Updated \in Seq(Chunk)
         /\ Changed \in Seq(Chunk)
         /\ Len(Unchanged) = Cardinality(Reused)
         /\ Len(New) = Cardinality(Positions \ Found)
         /\ Len(Updated) = Cardinality(Found \ Reused)
         /\ Len(Changed) = Len(New) + Len(Updated)
         /\ \A k \in 1 .. Len(Unchanged) : \E i \in Reused : Unchanged[k] = current[i]
         /\ \A k \in 1 .. Len(Changed) : \E i \in Positions \ Reused : Changed[k] = current[i]
<1>1. current \in Seq(Chunk) /\ Reused \subseteq Found /\ Found \subseteq Positions
  BY InventoryProperties DEF Reused, Found
<1>2. \A I \in SUBSET Positions :
         /\ Picked(current, I) \in Seq(Chunk)
         /\ Len(Picked(current, I)) = Cardinality(I)
         /\ \A k \in 1 .. Len(Picked(current, I)) : \E i \in I : Picked(current, I)[k] = current[i]
  BY <1>1, PickedProperties DEF Positions
<1>3. /\ New \in Seq(Chunk) /\ Len(New) = Cardinality(Positions \ Found)
      /\ \A k \in 1 .. Len(New) : \E i \in Positions \ Found : New[k] = current[i]
  BY <1>1, <1>2 DEF New
<1>4. /\ Updated \in Seq(Chunk) /\ Len(Updated) = Cardinality(Found \ Reused)
      /\ \A k \in 1 .. Len(Updated) : \E i \in Found \ Reused : Updated[k] = current[i]
  BY <1>1, <1>2 DEF Updated
<1>5. /\ Unchanged \in Seq(Chunk) /\ Len(Unchanged) = Cardinality(Reused)
      /\ \A k \in 1 .. Len(Unchanged) : \E i \in Reused : Unchanged[k] = current[i]
  BY <1>1, <1>2 DEF Unchanged
<1>6. /\ Changed \in Seq(Chunk) /\ Len(Changed) = Len(New) + Len(Updated)
      /\ \A k \in 1 .. Len(New) + Len(Updated) :
            Changed[k] = IF k <= Len(New) THEN New[k] ELSE Updated[k - Len(New)]
      /\ Len(New) \in Nat /\ Len(Updated) \in Nat
  <2>1. /\ New \o Updated \in Seq(Chunk) /\ Len(New \o Updated) = Len(New) + Len(Updated)
        /\ \A k \in 1 .. Len(New) + Len(Updated) :
              (New \o Updated)[k] = IF k <= Len(New) THEN New[k] ELSE Updated[k - Len(New)]
    <3>1. New \in Seq(Chunk) /\ Updated \in Seq(Chunk)
      BY <1>3, <1>4
    <3>2. \A s, t \in Seq(Chunk) :
             /\ s \o t \in Seq(Chunk) /\ Len(s \o t) = Len(s) + Len(t)
             /\ \A k \in 1 .. Len(s) + Len(t) :
                   (s \o t)[k] = IF k <= Len(s) THEN s[k] ELSE t[k - Len(s)]
      BY ConcatProperties
    <3> QED
      BY <3>1, <3>2
  <2>2. Len(New) \in Nat /\ Len(Updated) \in Nat
    BY <1>3, <1>4, LenProperties
  <2> QED
    BY <2>1, <2>2 DEF Changed
<1>7. ASSUME NEW k \in 1 .. Len(Changed) PROVE \E i \in Positions \ Reused : Changed[k] = current[i]
  <2>1. CASE k <= Len(New)
    <3>1. k \in 1 .. Len(New) /\ Changed[k] = New[k]
      BY <1>6, <2>1
    <3> QED
      BY <1>1, <1>3, <3>1
  <2>2. CASE ~(k <= Len(New))
    <3>1. k - Len(New) \in 1 .. Len(Updated) /\ Changed[k] = Updated[k - Len(New)]
      BY <1>6, <2>2
    <3> QED
      BY <1>1, <1>4, <3>1
  <2> QED
    BY <2>1, <2>2
<1> QED
  BY <1>3, <1>4, <1>5, <1>6, <1>7

(* The chunks are reused, new or updated.                                  *)
LEMMA ListsAddUp ==
  ASSUME HasInventory
  PROVE  /\ Len(Unchanged) \in Nat /\ Len(New) \in Nat /\ Len(Updated) \in Nat
         /\ Len(Changed) \in Nat /\ Len(Changed) = Len(New) + Len(Updated)
         /\ Len(Unchanged) + Len(Changed) = Len(current)
<1>1. Reused \subseteq Found /\ Found \subseteq Positions
  BY DEF Reused, Found
<1>2. IsFiniteSet(Positions) /\ IsFiniteSet(Found) /\ IsFiniteSet(Reused)
  BY <1>1, InventoryProperties, FS_Subset
<1>3. Cardinality(Found \ Reused) = Cardinality(Found) - Cardinality(Found \cap Reused)
  BY <1>2, FS_Difference
<1>4. Cardinality(Positions \ Found) = Cardinality(Positions) - Cardinality(Positions \cap Found)
  BY <1>2, FS_Difference
<1>5. Found \cap Reused = Reused /\ Positions \cap Found = Found
  BY <1>1
<1>6. /\ Cardinality(Positions) \in Nat /\ Cardinality(Found) \in Nat
      /\ Cardinality(Reused) \in Nat
  BY <1>2, FS_CardinalityType
<1>7. Len(Unchanged) \in Nat /\ Len(New) \in Nat /\ Len(Updated) \in Nat /\ Len(Changed) \in Nat
  BY ListProperties, LenProperties
<1>8. /\ Len(Unchanged) = Cardinality(Reused)
      /\ Len(New) = Cardinality(Positions) - Cardinality(Found)
      /\ Len(Updated) = Cardinality(Found) - Cardinality(Reused)
      /\ Len(Changed) = Len(New) + Len(Updated)
      /\ Cardinality(Positions) = Len(current)
  BY <1>3, <1>4, <1>5, ListProperties, InventoryProperties
<1>9. \A p, f, r \in Nat : r + ((p - f) + (f - r)) = p
  OBVIOUS
<1>10. Len(Unchanged) + Len(Changed) = Len(current)
  <2>1. Len(Unchanged) + Len(Changed) =
            Cardinality(Reused) + ((Cardinality(Positions) - Cardinality(Found))
                                   + (Cardinality(Found) - Cardinality(Reused)))
    BY <1>8
  <2> QED
    BY <1>6, <1>8, <1>9, <2>1
<1> QED
  BY <1>7, <1>8, <1>10, Zenon

(* A batch consists of chunks of the list it is cut from.                  *)
LEMMA BatchProperties ==
  ASSUME NEW s \in Seq(Chunk), next \in Nat \ {0}
  PROVE  /\ Batch(s) \in Seq(Chunk)
         /\ \A k \in 1 .. Len(Batch(s)) : \E j \in 1 .. Len(s) : Batch(s)[k] = s[j]
         /\ s = << >> => Batch(s) = << >>
         /\ next <= Len(s) => Batch(s) # << >>
<1> DEFINE last == IF next + Capacity - 1 < Len(s) THEN next + Capacity - 1 ELSE Len(s)
<1>1. Len(s) \in Nat /\ \A i \in 1 .. Len(s) : s[i] \in Chunk
  BY LenProperties, ElementOfSeq
<1>2. last \in Int /\ last <= Len(s) /\ (next <= Len(s) => next <= last) /\ next \in Int
  BY <1>1, CapacityIsPositive
<1>3. Batch(s) = SubSeq(s, next, last)
  BY DEF Batch
<1> HIDE DEF last
<1>4. \A i \in next .. last : i \in 1 .. Len(s)
  BY <1>1, <1>2
<1>5. /\ Batch(s) \in Seq(Chunk)
      /\ Len(Batch(s)) = IF next <= last THEN last - next + 1 ELSE 0
      /\ \A i \in 1 .. last - next + 1 : Batch(s)[i] = s[next + i - 1]
  BY <1>1, <1>2, <1>3, <1>4, SubSeqProperties
<1>6. ASSUME NEW k \in 1 .. Len(Batch(s)) PROVE \E j \in 1 .. Len(s) : Batch(s)[k] = s[j]
  <2>1. next <= last /\ k \in 1 .. last - next + 1
    BY <1>2, <1>5
  <2>2. next + k - 1 \in next .. last
    BY <1>2, <2>1
  <2> QED
    BY <1>4, <1>5, <2>1, <2>2
<1>7. s = << >> => Batch(s) = << >>
  <2>1. SUFFICES ASSUME s = << >> PROVE last < next
    BY <1>2, <1>3, SubSeqEmpty
  <2>2. Len(s) = 0
    BY <2>1, EmptySeq
  <2> QED
    BY <1>2, <2>2
<1>8. next <= Len(s) => Batch(s) # << >>
  BY <1>2, <1>5, EmptySeq
<1> QED
  BY <1>5, <1>6, <1>7, <1>8

(* What depends on the job alone stays while the job does.                 *)
LEMMA JobStays ==
  ASSUME UNCHANGED job
  PROVE  /\ Positions' = Positions /\ Found' = Found /\ Reused' = Reused /\ Deleted' = Deleted
         /\ Unchanged' = Unchanged /\ New' = New /\ Updated' = Updated /\ Changed' = Changed
         /\ \A id, row : Belongs(id, row)' <=> Belongs(id, row)
<1>1. space' = space /\ current' = current /\ before' = before
  BY DEF job
<1>2. Positions' = Positions /\ Stored' = Stored /\ (Compatible' <=> Compatible)
  BY <1>1 DEF Positions, Stored, Compatible
<1>3. \A c : Reusable(c)' <=> Reusable(c)
  BY <1>1, <1>2 DEF Reusable
<1>4. \A i : Reusable(current[i])' <=> Reusable(current[i])
  BY <1>1, <1>2 DEF Reusable
<1>5. Found' = Found
  BY <1>1, <1>2 DEF Found
<1>6. Reused' = Reused
  BY <1>4, <1>5 DEF Reused
<1>7. Unchanged' = Unchanged /\ New' = New /\ Updated' = Updated
  BY <1>1, <1>2, <1>5, <1>6 DEF Unchanged, New, Updated
<1>8. Changed' = Changed /\ Deleted' = Deleted
  BY <1>1, <1>2, <1>7 DEF Changed, Deleted
<1>9. ASSUME NEW id, NEW row PROVE Belongs(id, row)' <=> Belongs(id, row)
  BY <1>1, <1>2, <1>4 DEF Belongs
<1> QED
  BY <1>2, <1>5, <1>6, <1>7, <1>8, <1>9

-------------------------------------------------------------------------------
(* The rows of the candidate *)

Stocks == [id : Ids, row : Row]

LEMMA RowsAreFunctions ==
  /\ \A f \in Rows : f \in [DOMAIN f -> Row] /\ DOMAIN f \subseteq Ids
  /\ \A S \in SUBSET Ids : \A f \in [S -> Row] : f \in Rows
<1>1. ASSUME NEW f \in Rows PROVE f \in [DOMAIN f -> Row] /\ DOMAIN f \subseteq Ids
  <2>1. PICK S \in SUBSET Ids : f \in [S -> Row]
    BY DEF Rows
  <2>2. DOMAIN f = S
    BY <2>1
  <2> QED
    BY <2>1, <2>2
<1>2. ASSUME NEW S \in SUBSET Ids, NEW f \in [S -> Row] PROVE f \in Rows
  BY <1>2 DEF Rows
<1> QED
  BY <1>1, <1>2

(* A candidate keeps the rows it has, and gets those of the batch.         *)
LEMMA ExtendedProperties ==
  ASSUME cand \in Index, NEW batch \in Seq(Stocks)
  PROVE  /\ Extended(batch) \in Index
         /\ Extended(batch).space = cand.space /\ Extended(batch).expected = cand.expected
         /\ \A id \in DOMAIN Extended(batch).rows :
               \/ id \in DOMAIN cand.rows /\ Extended(batch).rows[id] = cand.rows[id]
               \/ \E k \in 1 .. Len(batch) :
                     batch[k].id = id /\ Extended(batch).rows[id] = batch[k].row
<1> DEFINE S == DOMAIN cand.rows \cup IdsOf(batch)
           at(id) == CHOOSE i \in 1 .. Len(batch) : batch[i].id = id
           rows == [id \in S |-> IF id \in DOMAIN cand.rows THEN cand.rows[id] ELSE batch[at(id)].row]
<1>1. \A k \in 1 .. Len(batch) : batch[k] \in Stocks
  BY ElementOfSeq
<1>2. cand.rows \in [DOMAIN cand.rows -> Row] /\ DOMAIN cand.rows \subseteq Ids
  BY RowsAreFunctions DEF Index
<1>3. S \subseteq Ids
  BY <1>1, <1>2 DEF IdsOf, Stocks
<1>4. \A id \in IdsOf(batch) : at(id) \in 1 .. Len(batch) /\ batch[at(id)].id = id
  BY DEF IdsOf
<1>5. \A id \in S : rows[id] = IF id \in DOMAIN cand.rows THEN cand.rows[id] ELSE batch[at(id)].row
  OBVIOUS
<1>6. Extended(batch) = [cand EXCEPT !.rows = rows]
  BY DEF Extended
<1>7. DOMAIN rows = S
  OBVIOUS
<1>8. rows \in [S -> Row]
  <2> HIDE DEF at
  <2>1. ASSUME NEW id \in S PROVE rows[id] \in Row
    BY <1>1, <1>2, <1>4, <1>5 DEF Stocks
  <2> QED
    BY <2>1
<1> HIDE DEF rows
<1>9. rows \in Rows
  BY <1>3, <1>8, RowsAreFunctions
<1>10. /\ Extended(batch) \in Index /\ Extended(batch).rows = rows
       /\ Extended(batch).space = cand.space /\ Extended(batch).expected = cand.expected
  BY <1>6, <1>9 DEF Index
<1>11. ASSUME NEW id \in S
       PROVE  \/ id \in DOMAIN cand.rows /\ rows[id] = cand.rows[id]
              \/ \E k \in 1 .. Len(batch) : batch[k].id = id /\ rows[id] = batch[k].row
  <2>1. CASE id \in DOMAIN cand.rows
    BY <1>5, <2>1
  <2>2. CASE id \notin DOMAIN cand.rows
    <3> HIDE DEF at
    <3> QED
      BY <1>4, <1>5, <2>2
  <2> QED
    BY <2>1, <2>2
<1> QED
  BY <1>7, <1>10, <1>11

AllBelong(batch) == \A k \in 1 .. Len(batch) : Belongs(batch[k].id, batch[k].row)

LEMMA ExtendedIsForJob ==
  ASSUME IsForJob(cand), NEW batch \in Seq(Stocks), AllBelong(batch)
  PROVE  IsForJob(Extended(batch)) /\ Extended(batch).expected = cand.expected
<1>1. ASSUME NEW id \in DOMAIN Extended(batch).rows PROVE Belongs(id, Extended(batch).rows[id])
  <2>1. CASE id \in DOMAIN cand.rows /\ Extended(batch).rows[id] = cand.rows[id]
    BY <2>1 DEF IsForJob
  <2>2. CASE \E k \in 1 .. Len(batch) :
                batch[k].id = id /\ Extended(batch).rows[id] = batch[k].row
    BY <2>2 DEF AllBelong
  <2> QED
    BY <2>1, <2>2, ExtendedProperties DEF IsForJob
<1> QED
  BY <1>1, ExtendedProperties DEF IsForJob

(* The rows that a chunk that is reusable has and one that is not gets.    *)
LEMMA ReusedBelong ==
  ASSUME TypeOK, Indexes, NEW i \in Reused
  PROVE  Belongs(current[i].id, before.rows[current[i].id])
<1>1. HasInventory
  BY DEF TypeOK, HasInventory
<1>2. /\ i \in Positions /\ current[i].id \in DOMAIN before.rows /\ before # None
      /\ before.space = space /\ before.rows[current[i].id].text = current[i].text
  BY DEF Reused, Found, Reusable, Compatible, Stored
<1>3. before.rows[current[i].id] \in Row
  BY <1>2, RowsAreFunctions DEF TypeOK, Index
<1>4. before.rows[current[i].id].vector = Vector(space, current[i].id, current[i].text)
  BY <1>2 DEF Indexes, IsCurrent
<1> QED
  BY <1>2, <1>3, <1>4 DEF Belongs

LEMMA MadeBelong ==
  ASSUME TypeOK, space \in Spaces, NEW i \in Positions \ Reused
  PROVE  Belongs(current[i].id,
                 [text |-> current[i].text, vector |-> Vector(space, current[i].id, current[i].text)])
<1> DEFINE c == current[i]
           row == [text |-> c.text, vector |-> Vector(space, c.id, c.text)]
<1>1. HasInventory
  BY DEF TypeOK, HasInventory
<1>2. c \in Chunk
  BY <1>1, InventoryProperties
<1>3. row \in Row
  BY <1>2 DEF Row, Vectors, Vector, Chunk
<1>4. ~Reusable(c)
  BY DEF Reused, Found, Reusable
<1> QED
  BY <1>3, <1>4 DEF Belongs

ReusedBatch ==
  [k \in 1 .. Len(Batch(Unchanged)) |->
      [id |-> Batch(Unchanged)[k].id, row |-> before.rows[Batch(Unchanged)[k].id]]]
MadeBatch ==
  [k \in 1 .. Len(Batch(Changed)) |->
      [id |-> Batch(Changed)[k].id,
       row |-> [text |-> Batch(Changed)[k].text,
                vector |-> Vector(space, Batch(Changed)[k].id, Batch(Changed)[k].text)]]]

LEMMA BelongingIsStock ==
  ASSUME NEW n \in Nat, NEW batch, batch = [k \in 1 .. n |-> batch[k]],
         HasInventory,
         \A k \in 1 .. n : batch[k] = [id |-> batch[k].id, row |-> batch[k].row],
         \A k \in 1 .. n : Belongs(batch[k].id, batch[k].row)
  PROVE  batch \in Seq(Stocks) /\ AllBelong(batch)
<1>1. ASSUME NEW k \in 1 .. n PROVE batch[k] \in Stocks
  <2>1. batch[k].row \in Row /\ \E i \in Positions : current[i].id = batch[k].id
    BY DEF Belongs
  <2>2. batch[k].id \in Ids
    BY <2>1, InventoryProperties DEF Chunk
  <2> QED
    BY <2>1, <2>2 DEF Stocks
<1>2. batch \in [1 .. n -> Stocks]
  BY <1>1
<1>3. batch \in Seq(Stocks)
  BY <1>2, SeqDef
<1>4. Len(batch) = n
  BY <1>2, <1>3, LenProperties
<1> QED
  BY <1>3, <1>4 DEF AllBelong

LEMMA ReusedBatchBelongs ==
  ASSUME TypeOK, Indexes
  PROVE  ReusedBatch \in Seq(Stocks) /\ AllBelong(ReusedBatch)
<1>1. HasInventory /\ next \in Nat \ {0}
  BY DEF TypeOK, HasInventory
<1>2. /\ Batch(Unchanged) \in Seq(Chunk)
      /\ \A k \in 1 .. Len(Batch(Unchanged)) : \E i \in Reused : Batch(Unchanged)[k] = current[i]
  <2>1. Unchanged \in Seq(Chunk)
    BY <1>1, ListProperties
  <2>2. \A j \in 1 .. Len(Unchanged) : \E i \in Reused : Unchanged[j] = current[i]
    BY <1>1, ListProperties
  <2> QED
    BY <1>1, <2>1, <2>2, BatchProperties
<1>3. Len(Batch(Unchanged)) \in Nat
  BY <1>2, LenProperties
<1>4. \A k \in 1 .. Len(Batch(Unchanged)) :
          /\ ReusedBatch[k] = [id |-> Batch(Unchanged)[k].id,
                               row |-> before.rows[Batch(Unchanged)[k].id]]
          /\ ReusedBatch[k] = [id |-> ReusedBatch[k].id, row |-> ReusedBatch[k].row]
          /\ Belongs(ReusedBatch[k].id, ReusedBatch[k].row)
  BY <1>2, ReusedBelong DEF ReusedBatch
<1>5. ReusedBatch = [k \in 1 .. Len(Batch(Unchanged)) |-> ReusedBatch[k]]
  BY DEF ReusedBatch
<1> QED
  BY <1>1, <1>3, <1>4, <1>5, BelongingIsStock

LEMMA MadeBatchBelongs ==
  ASSUME TypeOK, space \in Spaces
  PROVE  MadeBatch \in Seq(Stocks) /\ AllBelong(MadeBatch)
<1>1. HasInventory /\ next \in Nat \ {0}
  BY DEF TypeOK, HasInventory
<1>2. /\ Batch(Changed) \in Seq(Chunk)
      /\ \A k \in 1 .. Len(Batch(Changed)) :
            \E i \in Positions \ Reused : Batch(Changed)[k] = current[i]
  <2>1. Changed \in Seq(Chunk)
    BY <1>1, ListProperties
  <2>2. \A j \in 1 .. Len(Changed) : \E i \in Positions \ Reused : Changed[j] = current[i]
    BY <1>1, ListProperties
  <2> QED
    BY <1>1, <2>1, <2>2, BatchProperties
<1>3. Len(Batch(Changed)) \in Nat
  BY <1>2, LenProperties
<1>4. \A k \in 1 .. Len(Batch(Changed)) :
          /\ MadeBatch[k] = [id |-> Batch(Changed)[k].id,
                             row |-> [text |-> Batch(Changed)[k].text,
                                      vector |-> Vector(space, Batch(Changed)[k].id,
                                                        Batch(Changed)[k].text)]]
          /\ MadeBatch[k] = [id |-> MadeBatch[k].id, row |-> MadeBatch[k].row]
          /\ Belongs(MadeBatch[k].id, MadeBatch[k].row)
  BY <1>2, MadeBelong DEF MadeBatch
<1>5. MadeBatch = [k \in 1 .. Len(Batch(Changed)) |-> MadeBatch[k]]
  BY DEF MadeBatch
<1> QED
  BY <1>1, <1>3, <1>4, <1>5, BelongingIsStock

-------------------------------------------------------------------------------
(* Types *)

LEMMA InitSyncInv == Init => SyncInv
<1> SUFFICES ASSUME Init PROVE SyncInv
  OBVIOUS
<1> USE DEF Init
<1>1. TypeOK
  BY EmptySeq, AttemptsArePositive, MaxCallsIsNat DEF TypeOK
<1>2. Contents
  BY DEF Contents, Jobs, Indexes, IsCurrent, Candidates, Outcome, Building, Unfinished, Succeeded
<1>3. Progress
  <2>1. HasInventory
    BY DEF HasInventory
  <2>2. Len(Changed) = 0
    <3>1. Len(current) = 0
      BY EmptySeq
    <3> QED
      BY <2>1, <3>1, ListsAddUp
  <2>3. Batches \in Nat
    BY <2>2, CapacityIsPositive DEF Batches
  <2>4. MaxAttempts * Batches \in Nat /\ 0 < MaxAttempts
    BY <2>3, AttemptsArePositive
  <2> QED
    BY <2>4 DEF Progress
<1> QED
  BY <1>1, <1>2, <1>3 DEF SyncInv

LEMMA CountsAreCounters ==
  ASSUME current \in Inventories \cup {<< >>},
         NEW a \in Nat, NEW b \in Nat, NEW c \in Nat, NEW d \in Nat, NEW e \in Nat
  PROVE  Counts(a, b, c, d, e) \in [Counters -> Nat]
<1>1. Len(current) \in Nat
  BY InventoryProperties DEF HasInventory
<1> QED
  BY <1>1 DEF Counts, Counters

LEMMA DeletedIsCounted ==
  ASSUME Indexes
  PROVE  IsFiniteSet(Stored) /\ IsFiniteSet(Deleted) /\ Cardinality(Deleted) \in Nat
<1>1. IsFiniteSet(Stored)
  BY FS_EmptySet DEF Indexes, IsCurrent, Stored
<1>2. IsFiniteSet(Deleted)
  BY <1>1, FS_Subset DEF Deleted
<1> QED
  BY <1>1, <1>2, FS_CardinalityType

(* The type invariant, for every step.                                     *)
LEMMA TypeNext == SyncInv /\ [Next]_vars => TypeOK'
<1> SUFFICES ASSUME SyncInv, [Next]_vars PROVE TypeOK'
  OBVIOUS
<1>0. TypeOK /\ Contents /\ HasInventory /\ Jobs /\ Indexes /\ Candidates
  BY DEF SyncInv, Contents, TypeOK, HasInventory
<1>e. \A e \in Errors : [status |-> e] \in [status : Errors]
  OBVIOUS
<1>1. ASSUME NEW sp \in Spaces, NEW inv \in Inventories, Begin(sp, inv) PROVE TypeOK'
  BY <1>0, <1>1, EmptySeq, AttemptsArePositive, MaxCallsIsNat DEF Begin, TypeOK
<1>2. CASE Read
  <2>1. Counts(Len(Unchanged), 0, 0, 0, 0) \in [Counters -> Nat]
    BY <1>0, CountsAreCounters, ListsAddUp DEF HasInventory
  <2> HIDE DEF Counts
  <2> QED
    BY <1>0, <1>2, <2>1 DEF Read, Raise, Goto, TypeOK, job, Errors
<1>3. CASE CreateCandidate
  <2>1. ASSUME cand' = [space |-> space, expected |-> Len(current), rows |-> << >>]
        PROVE  cand' \in Index
    <3>1. << >> \in Rows
      <4>1. << >> \in [{} -> Row]
        OBVIOUS
      <4> QED
        BY <4>1, RowsAreFunctions
    <3>2. space \in Spaces /\ Len(current) \in Nat
      BY <1>0, <1>3, InventoryProperties DEF CreateCandidate, Jobs
    <3> QED
      BY <2>1, <3>1, <3>2 DEF Index
  <2> QED
    BY <1>0, <1>3, <2>1 DEF CreateCandidate, Raise, Goto, TypeOK, job, Errors
<1>4. CASE AddReused
  <2>1. pc = "reuse" /\ cand \in Index
    BY <1>0, <1>4 DEF AddReused, Candidates, IsForJob, Building
  <2>2. Extended(ReusedBatch) \in Index
    BY <1>0, <2>1, ReusedBatchBelongs, ExtendedProperties
  <2>3. /\ cand' \in {cand, Extended(ReusedBatch)}
        /\ next' \in {next, 1, next + Capacity}
        /\ pc' \in {"abort", "embed", "reuse"}
        /\ result' \in {result, [status |-> "write_error"]}
        /\ UNCHANGED <<index, job, attempt, embedded, calls, answer>>
    BY <1>4 DEF AddReused, Raise, Goto, ReusedBatch
  <2>4. next' \in Nat \ {0}
    BY <1>0, <2>3, CapacityIsPositive DEF TypeOK
  <2> QED
    BY <1>0, <2>1, <2>2, <2>3, <2>4 DEF TypeOK, job, Errors
<1>5. CASE Embed
  <2>1. space \in Spaces /\ pc = "embed" /\ calls < MaxCalls /\ attempt < MaxAttempts
    BY <1>0, <1>5 DEF Embed, Jobs, SyncInv, Progress
  <2>2. MadeBatch \in Seq(Stocks)
    BY <1>0, <2>1, MadeBatchBelongs
  <2>3. /\ embedded' \in {embedded, MadeBatch}
        /\ attempt' \in {0, attempt, attempt + 1}
        /\ calls' \in {calls, calls + 1}
        /\ pc' \in {"add", "embed", "abort"}
        /\ result' = result \/ \E e \in Errors : result' = [status |-> e]
        /\ UNCHANGED <<index, cand, job, next, answer>>
    BY <1>5 DEF Embed, Raise, Goto, MadeBatch, FinalErrors, Errors
  <2>4. attempt' \in 0 .. MaxAttempts /\ calls' \in 0 .. MaxCalls
    BY <1>0, <2>1, <2>3, AttemptsArePositive, MaxCallsIsNat DEF TypeOK
  <2>5. embedded' \in Seq([id : Ids, row : Row])
    BY <1>0, <2>2, <2>3 DEF TypeOK, Stocks
  <2> QED
    BY <1>0, <1>e, <2>3, <2>4, <2>5 DEF TypeOK, job
<1>6. CASE AddEmbedded
  <2>1. pc = "add" /\ cand \in Index
    BY <1>0, <1>6 DEF AddEmbedded, Candidates, IsForJob, Building
  <2>2. Extended(embedded) \in Index
    BY <1>0, <2>1, ExtendedProperties DEF TypeOK, Stocks
  <2>3. /\ cand' \in {cand, Extended(embedded)}
        /\ next' \in {next, 1, next + Capacity}
        /\ pc' \in {"abort", "embed", "validate"}
        /\ result' \in {result, [status |-> "write_error"]}
        /\ embedded' = << >>
        /\ UNCHANGED <<index, job, attempt, calls, answer>>
    BY <1>6 DEF AddEmbedded, Raise, Goto
  <2>4. next' \in Nat \ {0}
    BY <1>0, <2>3, CapacityIsPositive DEF TypeOK
  <2> QED
    BY <1>0, <2>1, <2>2, <2>3, <2>4, EmptySeq DEF TypeOK, job, Errors
<1>7. CASE ValidateCandidate
  BY <1>0, <1>7 DEF ValidateCandidate, Raise, Goto, TypeOK, job, Errors
<1>8. CASE Publish
  <2>1. cand \in Index
    BY <1>0, <1>8 DEF Publish, Candidates, IsForJob, Building
  <2> QED
    BY <1>0, <1>8, <2>1 DEF Publish, Raise, Goto, TypeOK, job, Errors
<1>9. CASE Report
  <2> DEFINE n == Counts(Len(Unchanged), Len(Changed), Len(New), Len(Updated), Cardinality(Deleted))
  <2>1. n \in [Counters -> Nat]
    BY <1>0, CountsAreCounters, ListsAddUp, DeletedIsCounted DEF HasInventory
  <2>2. /\ pc' = "idle" /\ result' = [status |-> "success", counts |-> n]
        /\ UNCHANGED <<index, cand, job, next, attempt, embedded, calls, answer>>
    BY <1>9 DEF Report
  <2> HIDE DEF n
  <2> QED
    BY <1>0, <2>1, <2>2 DEF TypeOK, job
<1>10. CASE Abort
  BY <1>0, <1>10 DEF Abort, Goto, TypeOK, job
<1>11. ASSUME NEW sp \in Spaces, Search(sp) PROVE TypeOK'
  <2>1. /\ \/ \E e \in Errors \cup {"mismatch", "not_found"} : answer' = [status |-> e]
           \/ index # None /\ answer' = [space |-> sp[1], rows |-> index.rows]
        /\ UNCHANGED <<index, cand, pc, job, next, attempt, embedded, calls, result>>
    BY <1>11 DEF Search, Failed, Errors
  <2>2. index # None => index.rows \in Rows
    BY <1>0 DEF TypeOK, Index
  <2>3. sp[1] \in Identities
    BY DEF Spaces
  <2> QED
    BY <1>0, <2>1, <2>2, <2>3 DEF TypeOK, job
<1>12. CASE UNCHANGED vars
  BY <1>0, <1>12 DEF vars, TypeOK, job
<1> QED
  BY <1>1, <1>2, <1>3, <1>4, <1>5, <1>6, <1>7, <1>8, <1>9, <1>10, <1>11, <1>12
     DEF Next, Synchronize

-------------------------------------------------------------------------------
(* The contents of the index *)

(* An index for the inventory has the vectors of its own records, and none *)
(* of other ids; one with as many rows as there are chunks is complete.    *)
LEMMA ForJobIsCurrent ==
  ASSUME HasInventory, NEW ix, IsForJob(ix)
  PROVE  /\ IsCurrent(ix) /\ DOMAIN ix.rows \subseteq IdsOf(current)
         /\ Cardinality(DOMAIN ix.rows) = Len(current) => IsOfJob(ix)
<1>1. DOMAIN ix.rows \subseteq IdsOf(current)
  BY IdsOfInventory DEF IsForJob, Belongs
<1>2. IsFiniteSet(DOMAIN ix.rows)
  BY <1>1, IdsOfInventory, FS_Subset
<1>3. \A id \in DOMAIN ix.rows : ix.rows[id].vector = Vector(ix.space, id, ix.rows[id].text)
  BY DEF IsForJob, Belongs
<1>4. Cardinality(DOMAIN ix.rows) = Len(current) => DOMAIN ix.rows = IdsOf(current)
  BY <1>1, IdsOfInventory, FS_Subset
<1> QED
  BY <1>1, <1>2, <1>3, <1>4 DEF IsCurrent, IsOfJob

(* What does not depend on the state but through the job and the index.    *)
LEMMA IsForJobStays ==
  ASSUME UNCHANGED job, NEW ix
  PROVE  /\ IsForJob(ix) => (IsForJob(ix))'
         /\ IsOfJob(ix) => (IsOfJob(ix))'
<1>1. space' = space /\ current' = current
  BY DEF job
<1>2. \A id, row : Belongs(id, row)' <=> Belongs(id, row)
  BY JobStays
<1>3. \A id : Belongs(id, ix.rows[id])' <=> Belongs(id, ix.rows[id])
  BY <1>2
<1>4. IsForJob(ix) => (IsForJob(ix))'
  BY <1>1, <1>3 DEF IsForJob
<1> QED
  BY <1>1, <1>4 DEF IsOfJob

(* An index in which nothing changed is that of the inventory already.     *)
LEMMA NothingChanged ==
  ASSUME TypeOK, Indexes, Compatible, Changed = << >>, Deleted = {}
  PROVE  /\ IsOfJob(before)
         /\ Len(Changed) = 0 /\ Len(New) = 0 /\ Len(Updated) = 0 /\ Cardinality(Deleted) = 0
<1>1. HasInventory
  BY DEF TypeOK, HasInventory
<1>2. Len(Changed) = 0
  BY EmptySeq
<1>3. Len(New) = 0 /\ Len(Updated) = 0
  BY <1>1, <1>2, ListsAddUp
<1>4. Reused = Positions
  <2>1. Reused \subseteq Found /\ Found \subseteq Positions
    BY DEF Reused, Found
  <2>2. IsFiniteSet(Positions \ Found) /\ IsFiniteSet(Found \ Reused)
    BY <1>1, <2>1, InventoryProperties, FS_Subset
  <2>3. Cardinality(Positions \ Found) = 0 /\ Cardinality(Found \ Reused) = 0
    BY <1>1, <1>3, ListProperties
  <2>4. Positions \ Found = {} /\ Found \ Reused = {}
    BY <2>2, <2>3, FS_EmptySet
  <2> QED
    BY <2>1, <2>4
<1>5. before \in Index /\ before.space = space /\ Stored = DOMAIN before.rows
  BY DEF Compatible, TypeOK, Stored
<1>6. \A i \in Positions : current[i].id \in Stored
  BY <1>4 DEF Reused, Found
<1>7. DOMAIN before.rows = IdsOf(current)
  <2>1. IdsOf(current) \subseteq Stored
    BY <1>1, <1>6, IdsOfInventory
  <2> QED
    BY <1>5, <2>1 DEF Deleted
<1>8. ASSUME NEW id \in DOMAIN before.rows PROVE Belongs(id, before.rows[id])
  <2>1. PICK i \in Positions : current[i].id = id
    BY <1>1, <1>7, <1>8, IdsOfInventory
  <2> QED
    BY <1>4, <2>1, ReusedBelong
<1> QED
  BY <1>2, <1>3, <1>5, <1>7, <1>8, FS_EmptySet DEF IsOfJob, IsForJob

(* A failure is no success.                                                *)
LEMMA FailureIsNoSuccess ==
  ASSUME result' = result \/ \E e \in Errors : result' = [status |-> e], result = None
  PROVE  ~Succeeded'
  BY DEF Succeeded, Errors

LEMMA ContentsNext == SyncInv /\ [Next]_vars => Contents'
<1> SUFFICES ASSUME SyncInv, [Next]_vars PROVE Contents'
  OBVIOUS
<1>0. TypeOK /\ Contents /\ HasInventory /\ Jobs /\ Indexes /\ Candidates /\ Outcome
  BY DEF SyncInv, Contents, TypeOK, HasInventory
<1>1. ASSUME NEW sp \in Spaces, NEW inv \in Inventories, Begin(sp, inv) PROVE Contents'
  <2>1. /\ pc' = "read" /\ result' = None /\ space' = sp /\ before' = index
        /\ UNCHANGED <<index, cand, answer>>
    BY <1>1 DEF Begin
  <2> QED
    BY <1>0, <2>1
       DEF Contents, Jobs, Indexes, IsCurrent, Candidates, Outcome, Building, Unfinished, Succeeded
<1>2. CASE Read
  <2>1. pc = "read" /\ before = index /\ result = None /\ space \in Spaces
        /\ UNCHANGED <<index, cand, job, next, attempt, embedded, calls, answer>>
    BY <1>0, <1>2 DEF Read, Jobs, Unfinished
  <2>2. Indexes'
    BY <1>0, <2>1 DEF Indexes, IsCurrent, job
  <2>3. CASE Raise("read_error", "idle")
    <3>1. ~Succeeded' /\ pc' = "idle" /\ (space \in Spaces)'
      BY <2>1, <2>3, FailureIsNoSuccess DEF Raise, Errors, job
    <3> QED
      BY <2>2, <3>1 DEF Contents, Jobs, Candidates, Outcome, Building, Unfinished
  <2>4. CASE Goto("create")
    <3>1. pc' = "create" /\ result' = None /\ space' = space /\ before' = before /\ index' = index
      BY <2>1, <2>4 DEF Goto, job
    <3>2. ~Succeeded'
      BY <3>1 DEF Succeeded
    <3> QED
      BY <2>1, <2>2, <3>1, <3>2 DEF Contents, Jobs, Candidates, Outcome, Building, Unfinished
  <2>5. CASE /\ Compatible /\ Changed = << >> /\ Deleted = {} /\ pc' = "idle"
             /\ result' = [status |-> "unchanged", counts |-> Counts(Len(Unchanged), 0, 0, 0, 0)]
    <3>1. /\ IsOfJob(before) /\ Len(Changed) = 0 /\ Len(New) = 0 /\ Len(Updated) = 0
          /\ Cardinality(Deleted) = 0
      BY <1>0, <2>5, NothingChanged
    <3>2. IsOfJob(index)'
      BY <2>1, <3>1, IsForJobStays
    <3>3. (result.counts = Counts(Len(Unchanged), Len(Changed), Len(New), Len(Updated),
                                  Cardinality(Deleted)))'
      BY <2>1, <2>5, <3>1, JobStays DEF Counts, job
    <3>4. pc' = "idle" /\ space' \in Spaces
      BY <2>1, <2>5 DEF job
    <3> QED
      BY <2>2, <3>2, <3>3, <3>4
         DEF Contents, Jobs, Candidates, Outcome, Building, Unfinished
  <2> QED
    BY <1>2, <2>3, <2>4, <2>5 DEF Read
<1>3. CASE CreateCandidate
  <2>1. pc = "create" /\ before = index /\ result = None /\ space \in Spaces
        /\ UNCHANGED <<index, job, next, attempt, embedded, calls, answer>>
    BY <1>0, <1>3 DEF CreateCandidate, Jobs, Unfinished, Building
  <2>2. Indexes' /\ ~Succeeded' /\ pc' \in {"idle", "reuse"} /\ Jobs'
    <3>1. result' = result \/ \E e \in Errors : result' = [status |-> e]
      BY <1>3 DEF CreateCandidate, Raise, Goto, Errors
    <3>2. pc' = "reuse" => result' = result
      BY <1>3 DEF CreateCandidate, Raise, Goto
    <3>3. pc' \in {"idle", "reuse"}
      BY <1>3 DEF CreateCandidate, Raise, Goto
    <3> QED
      BY <1>0, <2>1, <3>1, <3>2, <3>3, FailureIsNoSuccess
         DEF Indexes, IsCurrent, Jobs, Unfinished, Building, job
  <2>3. ASSUME pc' = "reuse" PROVE IsForJob(cand)' /\ cand'.expected = Len(current)'
    <3>1. cand' = [space |-> space, expected |-> Len(current), rows |-> << >>]
      BY <1>3, <2>3 DEF CreateCandidate, Raise
    <3>2. cand' \in Index
      <4>1. TypeOK'
        BY TypeNext
      <4>2. cand' # None \/ cand' = None
        OBVIOUS
      <4>3. << >> \in [{} -> Row]
        OBVIOUS
      <4>4. << >> \in Rows
        BY <4>3, RowsAreFunctions
      <4>5. Len(current) \in Nat
        BY <1>0, InventoryProperties
      <4> QED
        BY <2>1, <3>1, <4>4, <4>5 DEF Index
    <3>3. \A id \in DOMAIN cand'.rows : FALSE
      BY <3>1
    <3> QED
      BY <2>1, <3>1, <3>2, <3>3 DEF IsForJob, job
  <2> QED
    BY <2>2, <2>3 DEF Contents, Candidates, Outcome, Building
<1>4. CASE AddReused
  <2>1. pc = "reuse" /\ before = index /\ result = None /\ space \in Spaces
        /\ IsForJob(cand) /\ cand.expected = Len(current)
        /\ UNCHANGED <<index, job, attempt, embedded, calls, answer>>
    BY <1>0, <1>4 DEF AddReused, Jobs, Unfinished, Building, Candidates
  <2>2. /\ pc' \in {"abort", "embed", "reuse"}
        /\ pc' # "abort" => cand' = Extended(ReusedBatch) /\ result' = result
        /\ result' = result \/ \E e \in Errors : result' = [status |-> e]
    BY <1>4 DEF AddReused, Raise, Goto, ReusedBatch, Errors
  <2>3. Indexes' /\ ~Succeeded' /\ Jobs'
    BY <1>0, <2>1, <2>2, FailureIsNoSuccess DEF Indexes, IsCurrent, Jobs, Unfinished, Building, job
  <2>4. ASSUME pc' # "abort" PROVE IsForJob(cand)' /\ cand'.expected = Len(current)'
    <3>1. IsForJob(cand') /\ cand'.expected = Len(current)
      BY <1>0, <2>1, <2>2, <2>4, ReusedBatchBelongs, ExtendedIsForJob
    <3> QED
      BY <2>1, <3>1, IsForJobStays DEF job
  <2> QED
    BY <2>2, <2>3, <2>4 DEF Contents, Candidates, Outcome, Building
<1>5. CASE Embed
  <2>1. pc = "embed" /\ before = index /\ result = None /\ space \in Spaces
        /\ IsForJob(cand) /\ cand.expected = Len(current)
        /\ UNCHANGED <<index, cand, job, next, answer>>
    BY <1>0, <1>5 DEF Embed, Jobs, Unfinished, Building, Candidates
  <2>2. /\ pc' \in {"abort", "embed", "add"}
        /\ pc' = "add" => embedded' = MadeBatch
        /\ pc' # "abort" => result' = result
        /\ result' = result \/ \E e \in Errors : result' = [status |-> e]
    BY <1>5 DEF Embed, Raise, Goto, MadeBatch, FinalErrors, Errors
  <2>3. Indexes' /\ ~Succeeded' /\ Jobs'
    BY <1>0, <2>1, <2>2, FailureIsNoSuccess DEF Indexes, IsCurrent, Jobs, Unfinished, Building, job
  <2>4. IsForJob(cand)' /\ cand'.expected = Len(current)'
    BY <2>1, IsForJobStays DEF job
  <2>5. pc' = "add" => (\A k \in 1 .. Len(embedded) : Belongs(embedded[k].id, embedded[k].row))'
    <3>1. AllBelong(MadeBatch)
      BY <1>0, <2>1, MadeBatchBelongs
    <3>2. \A k \in 1 .. Len(MadeBatch) : (Belongs(embedded[k].id, embedded[k].row))'
                <=> Belongs(embedded'[k].id, embedded'[k].row)
      BY <2>1 DEF Belongs, Positions, Reusable, Compatible, Stored, job
    <3> QED
      BY <2>2, <3>1, <3>2 DEF AllBelong
  <2> QED
    BY <2>2, <2>3, <2>4, <2>5 DEF Contents, Candidates, Outcome, Building
<1>6. CASE AddEmbedded
  <2>1. pc = "add" /\ before = index /\ result = None /\ space \in Spaces
        /\ IsForJob(cand) /\ cand.expected = Len(current) /\ AllBelong(embedded)
        /\ UNCHANGED <<index, job, attempt, calls, answer>>
    BY <1>0, <1>6 DEF AddEmbedded, Jobs, Unfinished, Building, Candidates, AllBelong
  <2>2. /\ pc' \in {"abort", "embed", "validate"}
        /\ pc' # "abort" => cand' = Extended(embedded) /\ result' = result
        /\ result' = result \/ \E e \in Errors : result' = [status |-> e]
    BY <1>6 DEF AddEmbedded, Raise, Goto, Errors
  <2>3. Indexes' /\ ~Succeeded' /\ Jobs'
    BY <1>0, <2>1, <2>2, FailureIsNoSuccess DEF Indexes, IsCurrent, Jobs, Unfinished, Building, job
  <2>4. ASSUME pc' # "abort" PROVE IsForJob(cand)' /\ cand'.expected = Len(current)'
    <3>1. embedded \in Seq(Stocks)
      BY <1>0 DEF TypeOK, Stocks
    <3>2. IsForJob(cand') /\ cand'.expected = Len(current)
      BY <2>1, <2>2, <2>4, <3>1, ExtendedIsForJob
    <3> QED
      BY <2>1, <3>2, IsForJobStays DEF job
  <2> QED
    BY <2>2, <2>3, <2>4 DEF Contents, Candidates, Outcome, Building
<1>7. CASE ValidateCandidate
  <2>1. pc = "validate" /\ before = index /\ result = None /\ space \in Spaces
        /\ IsForJob(cand) /\ cand.expected = Len(current)
        /\ UNCHANGED <<index, cand, job, next, attempt, embedded, calls, answer>>
    BY <1>0, <1>7 DEF ValidateCandidate, Jobs, Unfinished, Building, Candidates
  <2>2. /\ pc' \in {"abort", "publish"}
        /\ pc' # "abort" => Cardinality(DOMAIN cand.rows) = cand.expected /\ result' = result
        /\ result' = result \/ \E e \in Errors : result' = [status |-> e]
    BY <1>7 DEF ValidateCandidate, Raise, Goto, Errors
  <2>3. Indexes' /\ ~Succeeded' /\ Jobs'
    BY <1>0, <2>1, <2>2, FailureIsNoSuccess DEF Indexes, IsCurrent, Jobs, Unfinished, Building, job
  <2>4. IsForJob(cand)' /\ cand'.expected = Len(current)'
    BY <2>1, IsForJobStays DEF job
  <2>5. pc' # "abort" => (DOMAIN cand.rows = IdsOf(current))'
    BY <1>0, <2>1, <2>2, ForJobIsCurrent DEF IsOfJob, job
  <2> QED
    BY <2>2, <2>3, <2>4, <2>5 DEF Contents, Candidates, Outcome, Building
<1>8. CASE Publish
  <2>1. /\ pc = "publish" /\ result = None /\ space \in Spaces /\ IsOfJob(cand)
        /\ UNCHANGED <<job, next, attempt, embedded, calls, answer>>
    BY <1>0, <1>8 DEF Publish, Jobs, Unfinished, Building, Candidates, IsOfJob
  <2>2. /\ pc' \in {"abort", "report"} /\ index' \in {index, cand}
        /\ pc' # "abort" => index' = cand /\ result' = result
        /\ result' = result \/ \E e \in Errors : result' = [status |-> e]
    BY <1>8 DEF Publish, Raise, Goto, Errors
  <2>3. IsCurrent(cand)
    BY <1>0, <2>1, ForJobIsCurrent DEF IsOfJob
  <2>4. Indexes'
    BY <1>0, <2>1, <2>2, <2>3 DEF Indexes, IsCurrent, job
  <2>5. ~Succeeded' /\ Jobs'
    BY <1>0, <2>1, <2>2, FailureIsNoSuccess DEF Jobs, Unfinished, Building, job
  <2>6. pc' = "report" => IsOfJob(index)'
    BY <2>1, <2>2, IsForJobStays
  <2> QED
    BY <2>2, <2>4, <2>5, <2>6 DEF Contents, Candidates, Outcome, Building
<1>9. CASE Report
  <2>1. /\ pc = "report" /\ space \in Spaces /\ IsOfJob(index) /\ pc' = "idle"
        /\ result' = [status |-> "success",
                      counts |-> Counts(Len(Unchanged), Len(Changed), Len(New), Len(Updated),
                                        Cardinality(Deleted))]
        /\ UNCHANGED <<index, cand, job, next, attempt, embedded, calls, answer>>
    BY <1>0, <1>9 DEF Report, Jobs, Outcome
  <2>2. IsOfJob(index)'
    BY <2>1, IsForJobStays
  <2>3. (result.counts = Counts(Len(Unchanged), Len(Changed), Len(New), Len(Updated),
                                Cardinality(Deleted)))'
    BY <2>1, JobStays DEF Counts, job
  <2>4. Indexes' /\ Jobs'
    BY <1>0, <2>1 DEF Indexes, IsCurrent, Jobs, Unfinished, Building, job
  <2> QED
    BY <2>1, <2>2, <2>3, <2>4 DEF Contents, Candidates, Outcome, Building, job
<1>10. CASE Abort
  <2>1. /\ pc = "abort" /\ space \in Spaces /\ pc' = "idle" /\ result' = result
        /\ UNCHANGED <<index, job, next, attempt, embedded, calls, answer>>
    BY <1>0, <1>10 DEF Abort, Goto, Jobs
  <2>2. ~Succeeded'
    BY <1>0, <2>1 DEF Outcome, Succeeded
  <2> QED
    BY <1>0, <2>1, <2>2
       DEF Contents, Indexes, IsCurrent, Jobs, Candidates, Outcome, Unfinished, Building, job
<1>11. CASE UNCHANGED <<index, cand, pc, job, next, attempt, embedded, calls, result>>
  <2>1. Indexes' /\ Jobs'
    BY <1>0, <1>11 DEF Indexes, IsCurrent, Jobs, Unfinished, Building, job
  <2>2. Candidates'
    <3>1. IsForJob(cand) => IsForJob(cand)'
      BY <1>11, IsForJobStays
    <3>2. ASSUME pc = "add", NEW k \in 1 .. Len(embedded)
          PROVE  Belongs(embedded[k].id, embedded[k].row)'
      <4>1. Belongs(embedded[k].id, embedded[k].row)
        BY <1>0, <3>2 DEF Candidates
      <4> QED
        BY <1>11, <4>1 DEF Belongs, Positions, Reusable, Compatible, Stored, job
    <3> QED
      BY <1>0, <1>11, <3>1, <3>2 DEF Candidates, job
  <2>3. Outcome'
    <3>1. IsOfJob(index) => IsOfJob(index)'
      BY <1>11, IsForJobStays
    <3>2. (Succeeded' <=> Succeeded) /\ UNCHANGED <<pc, space, current, result>>
      BY <1>11 DEF Succeeded, job
    <3> QED
      BY <1>0, <1>11, <3>1, <3>2, JobStays DEF Outcome, Counts
  <2> QED
    BY <2>1, <2>2, <2>3 DEF Contents
<1>12. CASE \E sp \in Spaces : Search(sp)
  BY <1>11, <1>12 DEF Search
<1>13. CASE UNCHANGED vars
  BY <1>11, <1>13 DEF vars, job
<1> QED
  BY <1>1, <1>2, <1>3, <1>4, <1>5, <1>6, <1>7, <1>8, <1>9, <1>10, <1>12, <1>13
     DEF Next, Synchronize

-------------------------------------------------------------------------------
(* The calls of the provider *)

LEMMA QuotientProperties ==
  ASSUME NEW n \in Nat, NEW c \in Nat \ {0}
  PROVE  n \div c \in Nat /\ (n \div c) * c <= n /\ n < (n \div c) * c + c
OBVIOUS

LEMMA ProductOrder ==
  ASSUME NEW k \in Nat, NEW q \in Nat, NEW c \in Nat \ {0}
  PROVE  /\ k * c \in Nat /\ c * k \in Nat /\ (k + 1) * c = k * c + c /\ c * (k + 1) = c * k + c
         /\ k * c < q * c => k < q
         /\ k <= q => c * k <= c * q
OBVIOUS

(* There is a batch for each beginning, and none without one.              *)
LEMMA BatchesProperties ==
  ASSUME HasInventory
  PROVE  /\ Batches \in Nat /\ Len(Changed) \in Nat
         /\ \A k \in Nat : k * Capacity < Len(Changed) => k + 1 <= Batches
         /\ \A k \in Nat : Len(Changed) <= k * Capacity => Batches <= k
<1> DEFINE c == Capacity
           n == Len(Changed)
           q == Batches
<1>1. c \in Nat \ {0} /\ n \in Nat
  BY CapacityIsPositive, ListsAddUp
<1>2. n + c - 1 \in Nat /\ q = (n + c - 1) \div c
  BY <1>1 DEF Batches
<1>3. q \in Nat /\ q * c <= n + c - 1 /\ n + c - 1 < q * c + c
  BY <1>1, <1>2, QuotientProperties
<1> HIDE DEF c, n, q
<1>4. ASSUME NEW k \in Nat, k * c < n PROVE k + 1 <= q
  <2>1. (k + 1) * c = k * c + c /\ (q + 1) * c = q * c + c /\ k * c \in Nat /\ q * c \in Nat
    BY <1>1, <1>3, ProductOrder
  <2>2. (k + 1) * c < (q + 1) * c
    BY <1>1, <1>3, <1>4, <2>1
  <2>3. k + 1 < q + 1
    BY <1>1, <1>3, <2>2, ProductOrder
  <2> QED
    BY <1>3, <2>3
<1>5. ASSUME NEW k \in Nat, n <= k * c PROVE q <= k
  <2>1. (k + 1) * c = k * c + c /\ k * c \in Nat /\ q * c \in Nat
    BY <1>1, <1>3, ProductOrder
  <2>2. q * c < (k + 1) * c
    BY <1>1, <1>3, <1>5, <2>1
  <2>3. q < k + 1
    BY <1>1, <1>3, <2>2, ProductOrder
  <2> QED
    BY <1>3, <2>3
<1> QED
  BY <1>1, <1>3, <1>4, <1>5 DEF c, n, q

(* The calls for some of the batches are calls for all.                    *)
LEMMA CallsForSome ==
  ASSUME HasInventory, NEW k \in Nat, k <= Batches, NEW n \in Nat, n <= MaxAttempts * k
  PROVE  n <= MaxAttempts * Batches
<1>1. MaxAttempts * k <= MaxAttempts * Batches
  BY ProductOrder, BatchesProperties, AttemptsArePositive
<1>2. MaxAttempts * k \in Nat /\ MaxAttempts * Batches \in Nat
  BY ProductOrder, BatchesProperties, AttemptsArePositive
<1> QED
  BY <1>1, <1>2

LEMMA ProgressNext == SyncInv /\ [Next]_vars => Progress'
<1> SUFFICES ASSUME SyncInv, [Next]_vars PROVE Progress'
  OBVIOUS
<1>0. TypeOK /\ HasInventory /\ Progress /\ Jobs /\ Outcome
  BY DEF SyncInv, Contents, TypeOK, HasInventory
<1>a. /\ Batches \in Nat /\ Len(Changed) \in Nat /\ MaxAttempts * Batches \in Nat
      /\ MaxAttempts \in Nat \ {0} /\ Capacity \in Nat \ {0} /\ calls \in Nat /\ attempt \in Nat
      /\ next \in Nat \ {0}
  BY <1>0, BatchesProperties, ProductOrder, AttemptsArePositive, CapacityIsPositive, MaxCallsIsNat
     DEF TypeOK
<1>b. Changed = << >> <=> Len(Changed) = 0
  BY <1>0, EmptySeq, ListProperties
<1>c. ASSUME UNCHANGED job PROVE Changed' = Changed /\ Batches' = Batches
  BY <1>c, JobStays DEF Batches
<1>d. ASSUME result' = result \/ \E e \in Errors : result' = [status |-> e], result = None
      PROVE  ~(result' # None /\ result'.status = "success")
  BY <1>d DEF Errors
<1>1. ASSUME NEW sp \in Spaces, NEW inv \in Inventories, Begin(sp, inv) PROVE Progress'
  BY <1>1, <1>a DEF Begin, Progress, CallsFor
<1>2. CASE Read
  <2>1. /\ pc = "read" /\ calls = 0 /\ attempt = 0 /\ pc' \in {"idle", "create"}
        /\ UNCHANGED <<index, cand, job, next, attempt, embedded, calls, answer>>
    BY <1>0, <1>2 DEF Read, Raise, Goto, Progress
  <2>2. ~(result' # None /\ result'.status = "success")
    BY <1>0, <1>2, <2>1 DEF Read, Raise, Goto, Jobs, Unfinished
  <2> QED
    BY <1>a, <1>c, <2>1, <2>2 DEF Progress
<1>3. CASE CreateCandidate
  <2>1. /\ pc = "create" /\ calls = 0 /\ attempt = 0 /\ pc' \in {"idle", "reuse"}
        /\ UNCHANGED <<index, job, next, attempt, embedded, calls, answer>>
    BY <1>0, <1>3 DEF CreateCandidate, Raise, Goto, Progress
  <2>2. ~(result' # None /\ result'.status = "success")
    BY <1>0, <1>3, <2>1 DEF CreateCandidate, Raise, Goto, Jobs, Unfinished
  <2> QED
    BY <1>a, <1>c, <2>1, <2>2 DEF Progress
<1>4. CASE AddReused
  <2>1. /\ pc = "reuse" /\ calls = 0 /\ attempt = 0 /\ pc' \in {"abort", "embed", "reuse"}
        /\ pc' = "embed" => next' = 1
        /\ result = None /\ (result' = result \/ \E e \in Errors : result' = [status |-> e])
        /\ UNCHANGED <<index, job, attempt, embedded, calls, answer>>
    BY <1>0, <1>4 DEF AddReused, Raise, Goto, Progress, Jobs, Unfinished, Building, Errors
  <2>2. ~(result' # None /\ result'.status = "success")
    BY <1>d, <2>1
  <2>3. 0 \in Nat /\ 1 = 1 + 0 * Capacity /\ 0 <= MaxAttempts * 0 + 0
    BY <1>a
  <2> QED
    BY <1>a, <1>c, <2>1, <2>2, <2>3 DEF Progress
<1>5. CASE Embed
  <2>1. PICK k \in Nat : /\ next = 1 + k * Capacity /\ (k = 0 \/ next <= Len(Changed))
                         /\ calls >= k /\ calls <= MaxAttempts * k + attempt
                         /\ Changed = << >> => attempt = 0
    BY <1>0, <1>5 DEF Embed, Progress
  <2>2. /\ pc = "embed" /\ attempt < MaxAttempts /\ result = None
        /\ UNCHANGED <<index, cand, job, next, answer>>
        /\ result' = result \/ \E e \in Errors : result' = [status |-> e]
    BY <1>0, <1>5
       DEF Embed, Raise, Goto, Progress, Jobs, Unfinished, Building, FinalErrors, Errors
  <2>3. ~(result' # None /\ result'.status = "success")
    BY <1>d, <2>2
  <2>4. /\ k * Capacity \in Nat /\ MaxAttempts * k \in Nat
        /\ MaxAttempts * (k + 1) = MaxAttempts * k + MaxAttempts
    BY <1>a, ProductOrder
  <2>5. CASE Changed = << >>
    <3>1. k = 0 /\ calls = 0 /\ attempt = 0
      BY <1>a, <1>b, <2>1, <2>5
    <3>2. Batch(Changed) = << >>
      BY <1>0, <1>a, <2>5, BatchProperties, ListProperties
    <3>3. pc' = "add" /\ attempt' = 0 /\ calls' = 0
      BY <1>5, <3>1, <3>2 DEF Embed, Goto
    <3> QED
      BY <1>a, <1>c, <2>1, <2>2, <2>3, <2>5, <3>1, <3>3 DEF Progress, CallsFor
  <2>6. CASE Changed # << >>
    <3>1. next <= Len(Changed) /\ k * Capacity < Len(Changed)
      <4>1. k = 0 => next = 1
        BY <1>a, <2>1
      <4> QED
        BY <1>a, <1>b, <2>1, <2>4, <2>6, <4>1
    <3>2. Batch(Changed) # << >>
      BY <1>0, <1>a, <3>1, BatchProperties, ListProperties
    <3>3. /\ calls' = calls + 1 /\ pc' \in {"add", "embed", "abort"}
          /\ pc' = "add" => attempt' = 0
          /\ pc' = "embed" => attempt' = attempt + 1 /\ attempt + 1 < MaxAttempts
      BY <1>5, <3>2 DEF Embed, Raise, Goto, AnotherAttempt
    <3>4. calls' <= MaxAttempts * (k + 1) /\ calls' >= k + 1 /\ calls' \in Nat
      BY <1>a, <2>1, <2>2, <2>4, <3>3
    <3>5. k + 1 <= Batches /\ k + 1 \in Nat
      BY <1>0, <3>1, BatchesProperties
    <3>6. calls' <= MaxAttempts * Batches
      BY <1>0, <3>4, <3>5, CallsForSome
    <3>7. CASE pc' = "abort"
      BY <1>c, <2>2, <2>3, <3>6, <3>7 DEF Progress
    <3>8. CASE pc' = "add"
      BY <1>a, <1>c, <2>1, <2>2, <2>3, <2>6, <3>1, <3>3, <3>4, <3>8 DEF Progress, CallsFor
    <3>9. CASE pc' = "embed"
      <4>1. calls' >= k /\ calls' <= MaxAttempts * k + attempt'
        BY <1>a, <2>1, <2>4, <3>3, <3>9
      <4> QED
        BY <1>a, <1>c, <2>1, <2>2, <2>3, <2>6, <3>1, <3>3, <3>9, <4>1 DEF Progress
    <3> QED
      BY <3>3, <3>7, <3>8, <3>9
  <2> QED
    BY <2>5, <2>6
<1>6. CASE AddEmbedded
  <2>1. PICK k \in Nat : /\ next = 1 + k * Capacity /\ (k = 0 \/ next <= Len(Changed))
                         /\ attempt = 0 /\ CallsFor(IF Changed = << >> THEN 0 ELSE k + 1)
    BY <1>0, <1>6 DEF AddEmbedded, Progress
  <2>2. /\ pc = "add" /\ result = None /\ pc' \in {"abort", "embed", "validate"}
        /\ pc' = "validate" => LastBatch(Changed)
        /\ pc' = "embed" => ~LastBatch(Changed) /\ next' = next + Capacity
        /\ result' = result \/ \E e \in Errors : result' = [status |-> e]
        /\ UNCHANGED <<index, job, attempt, calls, answer>>
    BY <1>0, <1>6 DEF AddEmbedded, Raise, Goto, Jobs, Unfinished, Building, Errors
  <2>3. ~(result' # None /\ result'.status = "success")
    BY <1>d, <2>2
  <2>4. k * Capacity \in Nat /\ (k + 1) * Capacity = k * Capacity + Capacity /\ k + 1 \in Nat
    BY <1>a, ProductOrder
  <2>5. CASE Changed = << >>
    <3>1. calls = 0 /\ next + Capacity > Len(Changed)
      BY <1>a, <1>b, <2>1, <2>5 DEF CallsFor
    <3>2. Batches = 0
      BY <1>0, <1>a, <1>b, <2>5, BatchesProperties
    <3> QED
      BY <1>a, <1>c, <2>1, <2>2, <2>3, <3>1, <3>2 DEF Progress, CallsFor, LastBatch
  <2>6. CASE Changed # << >>
    <3>1. next <= Len(Changed) /\ k * Capacity < Len(Changed)
      <4>1. k = 0 => next = 1
        BY <1>a, <2>1
      <4> QED
        BY <1>a, <1>b, <2>1, <2>4, <2>6, <4>1
    <3>2. calls >= k + 1 /\ calls <= MaxAttempts * (k + 1)
      BY <2>1, <2>6 DEF CallsFor
    <3>3. k + 1 <= Batches
      BY <1>0, <3>1, BatchesProperties
    <3>4. CASE pc' = "abort"
      <4>1. calls <= MaxAttempts * Batches
        BY <1>0, <1>a, <2>4, <3>2, <3>3, CallsForSome
      <4> QED
        BY <1>c, <2>2, <2>3, <3>4, <4>1 DEF Progress
    <3>5. CASE pc' = "validate"
      <4>1. Len(Changed) <= (k + 1) * Capacity
        BY <1>a, <2>1, <2>2, <2>4, <3>5 DEF LastBatch
      <4>2. Batches = k + 1
        <5>1. Batches <= k + 1
          BY <1>0, <2>4, <4>1, BatchesProperties
        <5> QED
          BY <1>a, <3>3, <5>1
      <4> QED
        BY <1>a, <1>c, <2>1, <2>2, <2>3, <3>2, <3>5, <4>2 DEF Progress, CallsFor
    <3>6. CASE pc' = "embed"
      <4>1. next' = 1 + (k + 1) * Capacity /\ next' <= Len(Changed)
        BY <1>a, <2>1, <2>2, <2>4, <3>6 DEF LastBatch
      <4>2. MaxAttempts * (k + 1) \in Nat
        BY <1>a, <2>4, ProductOrder
      <4>3. calls' >= k + 1 /\ calls' <= MaxAttempts * (k + 1) + attempt' /\ attempt' = 0
        BY <1>a, <2>1, <2>2, <3>2, <4>2
      <4> QED
        BY <1>a, <1>c, <2>2, <2>3, <2>4, <3>6, <4>1, <4>3 DEF Progress
    <3> QED
      BY <2>2, <3>4, <3>5, <3>6
  <2> QED
    BY <2>5, <2>6
<1>7. CASE ValidateCandidate \/ Publish
  <2>1. /\ pc \in {"validate", "publish"} /\ result = None /\ pc' \in {"abort", "publish", "report"}
        /\ result' = result \/ \E e \in Errors : result' = [status |-> e]
        /\ UNCHANGED <<job, attempt, calls>>
    BY <1>0, <1>7
       DEF ValidateCandidate, Publish, Raise, Goto, Jobs, Unfinished, Building, Errors
  <2>2. ~(result' # None /\ result'.status = "success")
    BY <1>d, <2>1
  <2> QED
    BY <1>0, <1>a, <1>c, <2>1, <2>2 DEF Progress, CallsFor
<1>8. CASE Report
  <2>1. pc = "report" /\ pc' = "idle" /\ UNCHANGED <<job, attempt, calls>>
    BY <1>8 DEF Report
  <2> QED
    BY <1>0, <1>a, <1>c, <2>1 DEF Progress, CallsFor
<1>9. CASE Abort
  <2>1. pc = "abort" /\ pc' = "idle" /\ UNCHANGED <<job, attempt, calls, result>>
    BY <1>9 DEF Abort, Goto
  <2> QED
    BY <1>0, <1>a, <1>c, <2>1 DEF Progress
<1>10. CASE UNCHANGED <<pc, job, next, attempt, calls, result>>
  BY <1>0, <1>c, <1>10 DEF Progress, CallsFor
<1>11. CASE \E sp \in Spaces : Search(sp)
  BY <1>10, <1>11 DEF Search
<1>12. CASE UNCHANGED vars
  BY <1>10, <1>12 DEF vars, job
<1> QED
  BY <1>1, <1>2, <1>3, <1>4, <1>5, <1>6, <1>7, <1>8, <1>9, <1>11, <1>12
     DEF Next, Synchronize

-------------------------------------------------------------------------------
(* The theorems *)

LEMMA SyncInvNext == SyncInv /\ [Next]_vars => SyncInv'
BY TypeNext, ContentsNext, ProgressNext DEF SyncInv

(* The inductive invariant of SemanticSync.                                *)
THEOREM SyncInvariance == Spec => []SyncInv
BY InitSyncInv, SyncInvNext, PTL DEF Spec

(* The type invariant of SemanticSync.                                     *)
THEOREM SyncTypes == Spec => []TypeOK
<1>1. SyncInv => TypeOK
  BY DEF SyncInv
<1> QED
  BY <1>1, SyncInvariance, PTL

(* Every record of the index has the vector the model of the index gives   *)
(* to the document of that record, however often vectors were copied.      *)
THEOREM VectorsStayCurrent == Spec => []VectorsAreCurrent
<1>1. SyncInv => VectorsAreCurrent
  BY DEF SyncInv, Contents, Indexes, IsCurrent, VectorsAreCurrent
<1> QED
  BY <1>1, SyncInvariance, PTL

(* After a synchronization that succeeds or finds nothing to do, the index *)
(* holds the chunks of its inventory, and no other.                        *)
THEOREM InventoryIsIndexed == Spec => []IndexIsInventory
<1>1. SyncInv => IndexIsInventory
  <2> SUFFICES ASSUME SyncInv, Succeeded
               PROVE  /\ index.space = space
                      /\ DOMAIN index.rows = IdsOf(current)
                      /\ \A i \in 1 .. Len(current) :
                            index.rows[current[i].id].text = current[i].text
    BY DEF IndexIsInventory, Succeeded
  <2>1. HasInventory /\ IsOfJob(index)
    BY DEF SyncInv, TypeOK, HasInventory, Contents, Outcome
  <2>2. ASSUME NEW i \in Positions PROVE index.rows[current[i].id].text = current[i].text
    <3>1. current[i].id \in DOMAIN index.rows
      BY <2>1, IdsOfInventory DEF IsOfJob
    <3>2. PICK j \in Positions :
              /\ current[j].id = current[i].id
              /\ index.rows[current[i].id].text = current[j].text
      BY <2>1, <3>1 DEF IsOfJob, IsForJob, Belongs
    <3> QED
      BY <2>1, <3>2, InventoryProperties
  <2> QED
    BY <2>1, <2>2 DEF IsOfJob, IsForJob, Positions
<1> QED
  BY <1>1, SyncInvariance, PTL

(* A record of the new index is the former one exactly if its chunk was    *)
(* reusable: one that was embedded again differs in its text or in the     *)
(* embedding space of its vector.                                          *)
LEMMA KeptAreReused ==
  ASSUME TypeOK, Indexes, IsOfJob(index), NEW i \in Positions
  PROVE  i \in Reused <=> /\ current[i].id \in Stored
                          /\ before.rows[current[i].id] = index.rows[current[i].id]
<1> DEFINE id == current[i].id
<1>1. HasInventory
  BY DEF TypeOK, HasInventory
<1>2. Belongs(id, index.rows[id])
  BY <1>1, IdsOfInventory DEF IsOfJob, IsForJob
<1>3. PICK j \in Positions : /\ current[j].id = id /\ index.rows[id].text = current[j].text
                             /\ Reusable(current[j]) => index.rows[id] = before.rows[id]
  BY <1>2 DEF Belongs
<1>4. j = i
  BY <1>1, <1>3, InventoryProperties
<1>5. ASSUME i \in Reused PROVE id \in Stored /\ before.rows[id] = index.rows[id]
  BY <1>3, <1>4, <1>5 DEF Reused, Found
<1>6. ASSUME id \in Stored, before.rows[id] = index.rows[id] PROVE i \in Reused
  <2>1. before # None /\ id \in DOMAIN before.rows /\ before \in Index
    BY <1>6 DEF Stored, TypeOK
  <2>2. before.rows[id].vector = Vector(before.space, id, before.rows[id].text)
    BY <2>1 DEF Indexes, IsCurrent
  <2>3. index.rows[id].vector = Vector(space, id, index.rows[id].text)
    BY <1>2 DEF Belongs
  <2>4. before.space = space
    <3>1. Vector(before.space, id, before.rows[id].text).space
              = Vector(space, id, index.rows[id].text).space
      BY <1>6, <2>2, <2>3
    <3> QED
      BY <3>1 DEF Vector
  <2> QED
    BY <1>3, <1>4, <1>6, <2>1, <2>4 DEF Reused, Found, Reusable, Compatible
<1> QED
  BY <1>5, <1>6

(* The counters of a synchronization add up, and tell how the new index    *)
(* differs from the former one.                                            *)
THEOREM CountersStayTrue == Spec => []CountersAreTrue
<1>1. SyncInv => CountersAreTrue
  <2> DEFINE n == result.counts
             now == DOMAIN index.rows
             kept == {id \in now \cap Stored : before.rows[id] = index.rows[id]}
  <2> SUFFICES ASSUME SyncInv, Succeeded
               PROVE  /\ n.inserted + n.updated = n.embedded
                      /\ n.reused + n.embedded = n.total
                      /\ n.inserted = Cardinality(now \ Stored)
                      /\ n.deleted = Cardinality(Stored \ now)
                      /\ n.reused = Cardinality(kept)
    BY DEF CountersAreTrue, Succeeded, Stored
  <2>1. TypeOK /\ HasInventory /\ Indexes /\ IsOfJob(index)
        /\ n = Counts(Len(Unchanged), Len(Changed), Len(New), Len(Updated), Cardinality(Deleted))
    BY DEF SyncInv, TypeOK, HasInventory, Contents, Outcome
  <2>2. /\ n.total = Len(current) /\ n.reused = Len(Unchanged) /\ n.embedded = Len(Changed)
        /\ n.inserted = Len(New) /\ n.updated = Len(Updated) /\ n.deleted = Cardinality(Deleted)
    BY <2>1 DEF Counts
  <2>3. now = {current[i].id : i \in Positions} /\ now = IdsOf(current)
    BY <2>1, IdsOfInventory DEF IsOfJob
  <2>4. Found \subseteq Positions /\ Reused \subseteq Positions
        /\ \A i \in Positions : i \in Found <=> current[i].id \in Stored
    BY DEF Found, Reused
  <2>5. now \ Stored = {current[i].id : i \in Positions \ Found}
    BY <2>3, <2>4
  <2>6. kept = {current[i].id : i \in Reused}
    <3>1. ASSUME NEW id \in kept PROVE \E i \in Reused : id = current[i].id
      <4>1. PICK i \in Positions : id = current[i].id
        BY <2>3
      <4> QED
        BY <2>1, <4>1, KeptAreReused
    <3>2. ASSUME NEW i \in Reused PROVE current[i].id \in kept
      <4>1. current[i].id \in now
        BY <2>3, <2>4
      <4> QED
        BY <2>1, <2>4, <4>1, KeptAreReused
    <3> QED
      BY <3>1, <3>2
  <2>7. Cardinality(now \ Stored) = Len(New)
    BY <2>1, <2>5, IdsAtPositions, ListProperties
  <2>8. Cardinality(kept) = Len(Unchanged)
    BY <2>1, <2>4, <2>6, IdsAtPositions, ListProperties
  <2>9. Cardinality(Stored \ now) = Cardinality(Deleted)
    BY <2>3 DEF Deleted
  <2> QED
    BY <2>1, <2>2, <2>7, <2>8, <2>9, ListsAddUp
<1> QED
  BY <1>1, SyncInvariance, PTL

(* The calls are at most MaxAttempts for each batch of new or updated      *)
(* chunks, and at least one if the synchronization succeeds.               *)
THEOREM CallsStayBounded == Spec => []CallsAreBounded
<1>1. SyncInv => CallsAreBounded
  <2> SUFFICES ASSUME SyncInv PROVE CallsAreBounded
    OBVIOUS
  <2>1. HasInventory /\ Progress /\ pc \in {"idle", "read", "create", "reuse", "embed", "add",
                                            "validate", "publish", "report", "abort"}
    BY DEF SyncInv, TypeOK, HasInventory
  <2>2. calls \in Nat /\ attempt \in Nat /\ MaxAttempts \in Nat \ {0} /\ Capacity \in Nat \ {0}
    BY MaxCallsIsNat, AttemptsArePositive, CapacityIsPositive DEF SyncInv, TypeOK
  <2>3. Batches \in Nat /\ MaxAttempts * Batches \in Nat /\ Len(Changed) \in Nat
    BY <2>1, <2>2, BatchesProperties, ProductOrder
  <2>4. calls <= MaxAttempts * Batches
    <3>1. CASE pc \in {"read", "create", "reuse"}
      BY <2>1, <2>3, <3>1 DEF Progress
    <3>2. CASE pc = "embed"
      <4>1. PICK k \in Nat : /\ next = 1 + k * Capacity /\ (k = 0 \/ next <= Len(Changed))
                             /\ calls <= MaxAttempts * k + attempt
                             /\ Changed = << >> => attempt = 0
        BY <2>1, <3>2 DEF Progress
      <4>2. /\ k * Capacity \in Nat /\ MaxAttempts * k \in Nat /\ attempt < MaxAttempts
            /\ MaxAttempts * (k + 1) = MaxAttempts * k + MaxAttempts
        BY <2>1, <2>2, <3>2, ProductOrder DEF Progress
      <4>3. Changed = << >> <=> Len(Changed) = 0
        BY <2>1, EmptySeq, ListProperties
      <4>4. CASE Changed = << >>
        <5>1. k = 0 /\ MaxAttempts * 0 = 0
          BY <2>2, <4>1, <4>3, <4>4
        <5> QED
          BY <2>2, <2>3, <4>1, <4>4, <5>1
      <4>5. CASE Changed # << >>
        <5>1. k = 0 => k * Capacity = 0
          BY <2>2
        <5>2. k * Capacity < Len(Changed)
          BY <2>3, <4>1, <4>2, <4>3, <4>5, <5>1
        <5>3. k + 1 <= Batches /\ calls <= MaxAttempts * (k + 1)
          BY <2>1, <2>2, <4>1, <4>2, <5>2, BatchesProperties
        <5> QED
          BY <2>1, <2>2, <5>3, CallsForSome
      <4> QED
        BY <4>4, <4>5
    <3>3. CASE pc = "add"
      <4>1. PICK k \in Nat : /\ next = 1 + k * Capacity /\ (k = 0 \/ next <= Len(Changed))
                             /\ CallsFor(IF Changed = << >> THEN 0 ELSE k + 1)
        BY <2>1, <3>3 DEF Progress
      <4>2. k * Capacity \in Nat /\ (k = 0 => k * Capacity = 0) /\ MaxAttempts * 0 = 0
        BY <2>2, ProductOrder
      <4>3. Changed = << >> <=> Len(Changed) = 0
        BY <2>1, EmptySeq, ListProperties
      <4>4. CASE Changed = << >>
        BY <2>2, <2>3, <4>1, <4>2, <4>4 DEF CallsFor
      <4>5. CASE Changed # << >>
        <5>1. k * Capacity < Len(Changed)
          BY <2>3, <4>1, <4>2, <4>3, <4>5
        <5>2. k + 1 <= Batches /\ calls <= MaxAttempts * (k + 1)
          BY <2>1, <4>1, <4>5, <5>1, BatchesProperties DEF CallsFor
        <5> QED
          BY <2>1, <2>2, <5>2, CallsForSome
      <4> QED
        BY <4>4, <4>5
    <3>4. CASE pc \in {"validate", "publish", "report", "abort", "idle"}
      BY <2>1, <3>4 DEF Progress, CallsFor
    <3> QED
      BY <2>1, <3>1, <3>2, <3>3, <3>4
  <2> QED
    BY <2>1, <2>4 DEF CallsAreBounded, Batches, Progress
<1> QED
  BY <1>1, SyncInvariance, PTL

(* A search compares its query with vectors of its own model only.         *)
THEOREM AnswersStayComparable == Spec => []AnswersAreComparable
<1>1. Init => AnswersAreComparable
  BY DEF Init, AnswersAreComparable
<1>2. SyncInv /\ AnswersAreComparable /\ [Next]_vars => AnswersAreComparable'
  <2> SUFFICES ASSUME SyncInv, AnswersAreComparable, [Next]_vars PROVE AnswersAreComparable'
    OBVIOUS
  <2>1. CASE UNCHANGED answer
    BY <2>1 DEF AnswersAreComparable
  <2>2. ASSUME NEW sp \in Spaces, Search(sp) PROVE AnswersAreComparable'
    <3>1. CASE \E e : answer' = [status |-> e]
      BY <3>1 DEF AnswersAreComparable
    <3>2. CASE /\ index # None /\ index.space[1] = sp[1]
               /\ answer' = [space |-> sp[1], rows |-> index.rows]
      <4>1. \A id \in DOMAIN index.rows :
                index.rows[id].vector = Vector(index.space, id, index.rows[id].text)
        BY <3>2 DEF SyncInv, Contents, Indexes, IsCurrent
      <4>2. ASSUME NEW id \in DOMAIN index.rows PROVE index.rows[id].vector.space[1] = sp[1]
        <5>1. Vector(index.space, id, index.rows[id].text).space = index.space
          BY DEF Vector
        <5>2. index.rows[id].vector.space = index.space
          BY <4>1, <5>1
        <5> QED
          BY <3>2, <5>2
      <4>3. answer'.rows = index.rows /\ answer'.space = sp[1]
        BY <3>2
      <4> QED
        BY <4>2, <4>3 DEF AnswersAreComparable
    <3> QED
      BY <2>2, <3>1, <3>2 DEF Search, Failed
  <2>3. CASE \E sp \in Spaces, inv \in Inventories : Begin(sp, inv)
    BY <2>1, <2>3 DEF Begin
  <2>4. CASE Synchronize
    BY <2>1, <2>4 DEF Synchronize, Read, CreateCandidate, AddReused, Embed, AddEmbedded,
       ValidateCandidate, Publish, Report, Abort
  <2>5. CASE UNCHANGED vars
    BY <2>1, <2>5 DEF vars
  <2> QED
    BY <2>2, <2>3, <2>4, <2>5 DEF Next
<1> QED
  BY <1>1, <1>2, SyncInvariance, PTL DEF Spec
================================================================================
