--------------------------- MODULE ChromaStoreProofs ---------------------------
(***************************************************************************)
(* ChromaStore, for every set of namespaces, names, records and threads:   *)
(* the inductive invariant IInv of ChromaStoreInv holds initially          *)
(* (InitIInv) and is kept by every action (one lemma each), a crash        *)
(* included, and theorems draw the safety properties from it.  The second  *)
(* half proves what it promises about contents and outcomes from JInv, and *)
(* that it implements AtomicIndex.                                         *)
(***************************************************************************)
EXTENDS ChromaStoreInv, FiniteSetTheorems, TLAPS

-------------------------------------------------------------------------------
(* Facts the action lemmas share *)

(* A collection names its namespace, and None is neither. *)
LEMMA Naming ==
  /\ None \notin Namespaces /\ None \notin Collections
  /\ \A c \in Collections : NamespaceOf(c) \in Namespaces
  /\ \A n \in Namespaces, k \in Tokens :
        <<n, k>> \in Collections /\ NamespaceOf(<<n, k>>) = n
BY NoneIsNotANamespace, NoneIsNoCollection DEF Collections, NamespaceOf

(* The threads holding c, for a map f of threads to what they hold. *)
LEMMA HoldersFinite ==
  ASSUME NEW f \in [Threads -> MaybeCollection]
  PROVE  \A c \in Collections : IsFiniteSet({u \in Threads : f[u] = c})
                                /\ Cardinality({u \in Threads : f[u] = c}) \in Nat
<1> TAKE c \in Collections
<1>1. IsFiniteSet({u \in Threads : f[u] = c})
  BY ThreadsAreFinite, FS_Subset
<1> QED
  BY <1>1, FS_CardinalityType

(* One more thread holds c, as after a lease. *)
LEMMA AddHolder ==
  ASSUME NEW f \in [Threads -> MaybeCollection], NEW t \in Threads, f[t] = None,
         NEW c \in Collections
  PROVE  \A d \in Collections :
            Cardinality({u \in Threads : [f EXCEPT ![t] = c][u] = d}) =
               IF d = c THEN Cardinality({u \in Threads : f[u] = d}) + 1
                        ELSE Cardinality({u \in Threads : f[u] = d})
<1> TAKE d \in Collections
<1> DEFINE H == {u \in Threads : f[u] = d}
           G == {u \in Threads : [f EXCEPT ![t] = c][u] = d}
<1>1. IsFiniteSet(H) /\ t \notin H
  BY HoldersFinite, Naming
<1>2. CASE d = c
  <2>1. G = H \cup {t}
    BY <1>2
  <2> QED
    BY <1>1, <1>2, <2>1, FS_AddElement
<1>3. CASE d # c
  <2>1. G = H
    BY <1>3, <1>1
  <2> QED
    BY <1>3, <2>1
<1> QED
  BY <1>2, <1>3

(* One thread fewer holds what t held, as after a release. *)
LEMMA RemoveHolder ==
  ASSUME NEW f \in [Threads -> MaybeCollection], NEW t \in Threads,
         f[t] \in Collections
  PROVE  \A d \in Collections :
            Cardinality({u \in Threads : f[u] = d}) =
               IF d = f[t] THEN Cardinality({u \in Threads : [f EXCEPT ![t] = None][u] = d}) + 1
                           ELSE Cardinality({u \in Threads : [f EXCEPT ![t] = None][u] = d})
<1> DEFINE g == [f EXCEPT ![t] = None]
<1>1. g \in [Threads -> MaybeCollection] /\ g[t] = None /\ f = [g EXCEPT ![t] = f[t]]
  BY DEF MaybeCollection
<1> HIDE DEF g
<1>2. \A d \in Collections :
         Cardinality({u \in Threads : [g EXCEPT ![t] = f[t]][u] = d}) =
            IF d = f[t] THEN Cardinality({u \in Threads : g[u] = d}) + 1
                        ELSE Cardinality({u \in Threads : g[u] = d})
  BY <1>1, AddHolder
<1> QED
  BY <1>1, <1>2 DEF g

(* delete_collection keeps the types of the catalog. *)
LEMMA DropType ==
  ASSUME DiskTypeOK, NEW c, Drop(c)
  PROVE  catalog' \subseteq Collections /\ coll' \in [Collections -> Generation]
BY DEF DiskTypeOK, Drop, Generation, Erased

(* A step that only moves one thread keeps what is said of the store. *)
LEMMA QuietStep ==
  ASSUME IInv, UNCHANGED <<disk, shared, leases>>
  PROVE  /\ DiskTypeOK' /\ SharedTypeOK' /\ ActiveComplete' /\ ActiveIsKept'
         /\ LeasedNotReserved' /\ ReadersCounted'
<1> USE DEF IInv, disk, shared, leases
<1>1. DiskTypeOK' /\ SharedTypeOK'
  BY DEF TypeOK, DiskTypeOK, SharedTypeOK
<1>2. ActiveComplete' /\ ActiveIsKept' /\ LeasedNotReserved'
  BY DEF ActiveComplete, Readable, ActiveIsKept, LeasedNotReserved
<1>3. ReadersCounted'
  BY DEF ReadersCounted, Pins, Leases
<1> QED
  BY <1>1, <1>2, <1>3

-------------------------------------------------------------------------------
(* The initial states *)

(* Nothing is stored, held or running at first. *)
LEMMA InitIInv == Init => IInv
<1> SUFFICES ASSUME Init PROVE IInv
  OBVIOUS
<1> USE Naming DEF Init
<1>1. TypeOK
  BY DEF TypeOK, DiskTypeOK, SharedTypeOK, LocalsTypeOK, ControlTypeOK, MaybeCollection,
         Generation, Erased, Labels, Outcomes
<1>2. OneMutatorPerNamespace
  BY DEF OneMutatorPerNamespace, Guarded
<1>3. JobsAreLocal
  BY DEF JobsAreLocal, GuardedLabels, SyncLabels, TryLabels, DeleteLabels, RetireLabels
<1>4. LeasesAreLocal
  BY DEF LeasesAreLocal, RetireLabels
<1>5. ReadersCounted
  <2>1. \A c \in Collections : readers[c] = 0 /\ Pins(c) = {} /\ Leases(c) = {}
    BY DEF Pins, Leases
  <2>2. Cardinality({}) = 0
    BY FS_EmptySet
  <2>3. \A c \in Collections : Cardinality(Pins(c)) = 0 /\ Cardinality(Leases(c)) = 0
    BY <2>1, <2>2, Zenon
  <2> QED
    BY <2>1, <2>3, SMT DEF ReadersCounted
<1>6. ActiveComplete /\ ActiveIsKept /\ LeasedNotReserved /\ NamesAreDrawn
  BY DEF ActiveComplete, ActiveIsKept, LeasedNotReserved, NamesAreDrawn
<1>7. CandidateIsPrivate
  BY DEF CandidateIsPrivate, TryLabels
<1>8. PointerIsStable /\ ReservationsAreExclusive
  BY DEF PointerIsStable, ReservationsAreExclusive, RetireLabels
<1> QED
  BY <1>1, <1>2, <1>3, <1>4, <1>5, <1>6, <1>7, <1>8 DEF IInv

-------------------------------------------------------------------------------
(* One lemma per action *)

(* The guard is taken by one thread only, which has nothing in hand yet. *)
LEMMA TakeGuardIInv ==
  ASSUME IInv, NEW t \in Threads,
         NEW n \in Namespaces, NEW w \in Inventories \cup {{}},
         NEW label \in {"sync_pointer", "delete_pointer"},
         TakeGuard(t, n, w, label)
  PROVE  IInv'
<1> USE Naming DEF IInv, TakeGuard, Goto, Ends, disk, shared, leases, locals, listing,
      retiring
<1>a. DiskTypeOK'
  BY DEF TypeOK, DiskTypeOK
<1>b. SharedTypeOK'
  BY DEF TypeOK, SharedTypeOK
<1>c. LocalsTypeOK'
  BY SMTT(60) DEF TypeOK, LocalsTypeOK, DiskTypeOK, SharedTypeOK, ControlTypeOK,
      MaybeCollection, JobsAreLocal, GuardedLabels, SyncLabels, TryLabels,
      DeleteLabels, SearchLabels, RetireLabels
<1>d. pc' \in [Threads -> Labels]
  BY DEF TypeOK, LocalsTypeOK, ControlTypeOK, Labels, SyncLabels, TryLabels,
      DeleteLabels, SearchLabels
<1>e. outcome' \in [Threads -> Outcomes]
  BY DEF TypeOK, ControlTypeOK, Outcomes
<1>f. ControlTypeOK'
  BY <1>d, <1>e DEF TypeOK, ControlTypeOK
<1>g. LeasesAreLocal'
  BY DEF TypeOK, ControlTypeOK, LocalsTypeOK, DiskTypeOK, SharedTypeOK,
      LeasesAreLocal, SearchLabels, RetireLabels, MaybeCollection
<1>h. ReadersCounted'
  BY DEF ReadersCounted, Pins, Leases
<1>i. OneMutatorPerNamespace'
  BY DEF TypeOK, LocalsTypeOK, OneMutatorPerNamespace, Guarded, JobsAreLocal,
      SearchLabels
<1>j. JobsAreLocal'
  BY DEF TypeOK, DiskTypeOK, LocalsTypeOK, ControlTypeOK, JobsAreLocal,
      GuardedLabels, SyncLabels, TryLabels, DeleteLabels, SearchLabels, RetireLabels,
      ActiveComplete, LeasesAreLocal, MaybeCollection
<1>r. ActiveComplete'
  BY DEF ActiveComplete, ActiveIsKept, Readable, MaybeCollection
<1>s. ActiveIsKept'
  BY DEF ActiveComplete, ActiveIsKept, MaybeCollection
<1>z. NamesAreDrawn'
  BY DEF RetireLabels, NamesAreDrawn, CandidateIsPrivate
<1>t. LeasedNotReserved'
  BY DEF LeasedNotReserved
<1>u. CandidateIsPrivate'
  BY DEF TypeOK, DiskTypeOK, LocalsTypeOK, ControlTypeOK, CandidateIsPrivate,
      SyncLabels, TryLabels, DeleteLabels, SearchLabels, Readable, JobsAreLocal
<1>v. PointerIsStable'
  BY DEF TypeOK, DiskTypeOK, LocalsTypeOK, ControlTypeOK, PointerIsStable,
      SyncLabels
<1>w. ReservationsAreExclusive'
  BY DEF TypeOK, LocalsTypeOK, ControlTypeOK, ReservationsAreExclusive,
      RetireLabels
<1> QED
  BY <1>a, <1>b, <1>c, <1>f, <1>g, <1>h, <1>i, <1>j, <1>r, <1>s, <1>t, <1>u, <1>v,
      <1>w, <1>z DEF TypeOK

(* The guard goes back together with everything it protected. *)
LEMMA LeaveIInv ==
  ASSUME IInv, NEW t \in Threads,
         Leave(t)
  PROVE  IInv'
<1> USE Naming DEF IInv, Leave, Goto, disk, shared, leases, locals, listing, retiring
<1>a. DiskTypeOK'
  BY DEF TypeOK, DiskTypeOK
<1>b. SharedTypeOK'
  BY DEF TypeOK, SharedTypeOK
<1>c. LocalsTypeOK'
  BY DEF TypeOK, LocalsTypeOK, DiskTypeOK, SharedTypeOK, ControlTypeOK,
      MaybeCollection
<1>d. pc' \in [Threads -> Labels]
  BY DEF TypeOK, LocalsTypeOK, ControlTypeOK, Labels
<1>e. outcome' \in [Threads -> Outcomes]
  BY DEF TypeOK, ControlTypeOK
<1>f. ControlTypeOK'
  BY <1>d, <1>e DEF TypeOK, ControlTypeOK
<1>g. LeasesAreLocal'
  BY DEF LeasesAreLocal, SyncLabels, TryLabels, DeleteLabels, SearchLabels,
      RetireLabels
<1>h. ReadersCounted'
  BY DEF ReadersCounted, Pins, Leases
<1>i. OneMutatorPerNamespace'
  BY DEF TypeOK, LocalsTypeOK, ControlTypeOK, SharedTypeOK,
      OneMutatorPerNamespace, Guarded
<1>j. JobsAreLocal'
  BY DEF TypeOK, DiskTypeOK, LocalsTypeOK, ControlTypeOK, JobsAreLocal,
      GuardedLabels, SyncLabels, TryLabels, DeleteLabels, SearchLabels, RetireLabels,
      ActiveComplete
<1>r. ActiveComplete'
  BY DEF ActiveComplete, ActiveIsKept, Readable, MaybeCollection
<1>s. ActiveIsKept'
  BY DEF ActiveComplete, ActiveIsKept, MaybeCollection
<1>z. NamesAreDrawn'
  BY DEF RetireLabels, NamesAreDrawn, CandidateIsPrivate
<1>t. LeasedNotReserved'
  BY DEF LeasedNotReserved
<1>u. CandidateIsPrivate'
  BY DEF ControlTypeOK, CandidateIsPrivate, SyncLabels, TryLabels,
      GuardedLabels, Readable
<1>v. PointerIsStable'
  BY DEF ControlTypeOK, PointerIsStable
<1>w. ReservationsAreExclusive'
  BY DEF ControlTypeOK, ReservationsAreExclusive, RetireLabels
<1> QED
  BY <1>a, <1>b, <1>c, <1>f, <1>g, <1>h, <1>i, <1>j, <1>r, <1>s, <1>t, <1>u, <1>v,
      <1>w, <1>z DEF TypeOK

(* What is read under the guard stays what the pointer names. *)
LEMMA InspectPointerIInv ==
  ASSUME IInv, NEW t \in Threads,
       \/ InspectPointer(t, "sync_pointer", "begin_candidate", "sync_manifest", "leave")
       \/ InspectPointer(t, "publish_pointer", "publish_validate", "publish_manifest",
                         "abort_pointer")
       \/ InspectPointer(t, "delete_pointer", "list", "list", "leave")
  PROVE  IInv'
<1> USE Naming DEF IInv, InspectPointer, Goto, Ends, disk, shared, leases, locals,
      listing, retiring
<1>a. /\ DiskTypeOK' /\ SharedTypeOK' /\ ActiveComplete' /\ ActiveIsKept'
      /\ LeasedNotReserved' /\ ReadersCounted'
  BY QuietStep
<1>c. LocalsTypeOK'
  BY DEF TypeOK, LocalsTypeOK, DiskTypeOK, JobsAreLocal, GuardedLabels,
      SyncLabels, TryLabels, DeleteLabels, SearchLabels
<1>d. pc' \in [Threads -> Labels]
  BY DEF TypeOK, LocalsTypeOK, ControlTypeOK, Labels, SyncLabels, TryLabels,
      DeleteLabels, SearchLabels
<1>e. outcome' \in [Threads -> Outcomes]
  BY DEF TypeOK, ControlTypeOK, Outcomes
<1>f. ControlTypeOK'
  BY <1>d, <1>e DEF TypeOK, ControlTypeOK
<1>g. LeasesAreLocal'
  BY DEF TypeOK, ControlTypeOK, LocalsTypeOK, DiskTypeOK, SharedTypeOK,
      LeasesAreLocal, SearchLabels, RetireLabels, MaybeCollection
<1>i. OneMutatorPerNamespace'
  BY DEF OneMutatorPerNamespace, Guarded
<1>j. JobsAreLocal'
  BY DEF TypeOK, DiskTypeOK, LocalsTypeOK, ControlTypeOK, JobsAreLocal,
      GuardedLabels, SyncLabels, TryLabels, DeleteLabels, SearchLabels, RetireLabels,
      ActiveComplete
<1>z. NamesAreDrawn'
  BY DEF TypeOK, DiskTypeOK, LocalsTypeOK, ControlTypeOK, JobsAreLocal,
      GuardedLabels, SyncLabels, TryLabels, DeleteLabels, SearchLabels, RetireLabels,
      NamesAreDrawn
<1>u. CandidateIsPrivate'
  BY DEF TypeOK, DiskTypeOK, LocalsTypeOK, ControlTypeOK, CandidateIsPrivate,
      SyncLabels, TryLabels, DeleteLabels, UncommittedLabels, GuardedLabels, Readable,
      JobsAreLocal
<1>v. PointerIsStable'
  BY DEF TypeOK, DiskTypeOK, LocalsTypeOK, ControlTypeOK, PointerIsStable,
      SyncLabels
<1>w. ReservationsAreExclusive'
  BY DEF TypeOK, LocalsTypeOK, ControlTypeOK, ReservationsAreExclusive,
      RetireLabels
<1> QED
  BY <1>a, <1>c, <1>f, <1>g, <1>i, <1>j, <1>u, <1>v, <1>w, <1>z DEF TypeOK

(* Only after the last validation is the candidate said to be complete. *)
LEMMA ValidateIInv ==
  ASSUME IInv, NEW t \in Threads,
       \/ Validate(t, "validate", cand[t], "publish_pointer", "abort_pointer")
       \/ Validate(t, "publish_manifest", old[t], "publish_validate", "abort_pointer")
       \/ Validate(t, "publish_validate", cand[t], "stage", "abort_pointer")
       \/ Validate(t, "revalidate", cand[t], "replace", "abort_pointer")
  PROVE  IInv'
<1> USE Naming DEF IInv, Validate, Goto, Ends, disk, shared, leases, locals, listing,
      retiring
<1>a. /\ DiskTypeOK' /\ SharedTypeOK' /\ ActiveComplete' /\ ActiveIsKept'
      /\ LeasedNotReserved' /\ ReadersCounted'
  BY QuietStep
<1>c. LocalsTypeOK'
  BY DEF TypeOK, LocalsTypeOK, DiskTypeOK
<1>d. pc' \in [Threads -> Labels]
  BY DEF TypeOK, LocalsTypeOK, ControlTypeOK, Labels, SyncLabels, TryLabels
<1>e. outcome' \in [Threads -> Outcomes]
  BY DEF TypeOK, ControlTypeOK, Outcomes
<1>f. ControlTypeOK'
  BY <1>d, <1>e DEF TypeOK, ControlTypeOK
<1>g. LeasesAreLocal'
  BY DEF TypeOK, ControlTypeOK, LocalsTypeOK, DiskTypeOK, SharedTypeOK,
      LeasesAreLocal, SearchLabels, RetireLabels, MaybeCollection
<1>i. OneMutatorPerNamespace'
  BY DEF OneMutatorPerNamespace, Guarded
<1>j. JobsAreLocal'
  BY DEF TypeOK, DiskTypeOK, LocalsTypeOK, ControlTypeOK, JobsAreLocal,
      GuardedLabels, SyncLabels, TryLabels, DeleteLabels, SearchLabels, RetireLabels,
      ActiveComplete
<1>z. NamesAreDrawn'
  BY DEF RetireLabels, NamesAreDrawn, CandidateIsPrivate
<1>u. CandidateIsPrivate'
  BY DEF TypeOK, DiskTypeOK, LocalsTypeOK, ControlTypeOK, CandidateIsPrivate,
      SyncLabels, TryLabels, DeleteLabels, UncommittedLabels, GuardedLabels, Readable,
      JobsAreLocal
<1>v. PointerIsStable'
  BY DEF TypeOK, DiskTypeOK, LocalsTypeOK, ControlTypeOK, PointerIsStable,
      SyncLabels
<1>w. ReservationsAreExclusive'
  BY DEF TypeOK, LocalsTypeOK, ControlTypeOK, ReservationsAreExclusive,
      RetireLabels
<1> QED
  BY <1>a, <1>c, <1>f, <1>g, <1>i, <1>j, <1>u, <1>v, <1>w, <1>z DEF TypeOK

(* Reading the manifest moves one thread and nothing else. *)
LEMMA SyncManifestIInv ==
  ASSUME IInv, NEW t \in Threads,
         SyncManifest(t)
  PROVE  IInv'
<1> USE Naming DEF IInv, SyncManifest, Goto, Ends, disk, shared, leases, locals,
      listing, retiring
<1>a. /\ DiskTypeOK' /\ SharedTypeOK' /\ ActiveComplete' /\ ActiveIsKept'
      /\ LeasedNotReserved' /\ ReadersCounted'
  BY QuietStep
<1>c. LocalsTypeOK'
  BY DEF TypeOK, LocalsTypeOK, DiskTypeOK
<1>d. pc' \in [Threads -> Labels]
  BY DEF TypeOK, LocalsTypeOK, ControlTypeOK, Labels, SyncLabels
<1>e. outcome' \in [Threads -> Outcomes]
  BY DEF TypeOK, ControlTypeOK, Outcomes
<1>f. ControlTypeOK'
  BY <1>d, <1>e DEF TypeOK, ControlTypeOK
<1>g. LeasesAreLocal'
  BY DEF TypeOK, ControlTypeOK, LocalsTypeOK, DiskTypeOK, SharedTypeOK,
      LeasesAreLocal, SearchLabels, RetireLabels, MaybeCollection
<1>i. OneMutatorPerNamespace'
  BY DEF OneMutatorPerNamespace, Guarded
<1>j. JobsAreLocal'
  BY DEF TypeOK, DiskTypeOK, LocalsTypeOK, ControlTypeOK, JobsAreLocal,
      GuardedLabels, SyncLabels, TryLabels, DeleteLabels, SearchLabels, RetireLabels,
      ActiveComplete
<1>z. NamesAreDrawn'
  BY DEF RetireLabels, NamesAreDrawn, CandidateIsPrivate
<1>u. CandidateIsPrivate'
  BY DEF TypeOK, DiskTypeOK, LocalsTypeOK, ControlTypeOK, CandidateIsPrivate,
      SyncLabels, TryLabels, DeleteLabels, SearchLabels, Readable, JobsAreLocal
<1>v. PointerIsStable'
  BY DEF TypeOK, DiskTypeOK, LocalsTypeOK, ControlTypeOK, PointerIsStable,
      SyncLabels
<1>w. ReservationsAreExclusive'
  BY DEF TypeOK, LocalsTypeOK, ControlTypeOK, ReservationsAreExclusive,
      RetireLabels
<1> QED
  BY <1>a, <1>c, <1>f, <1>g, <1>i, <1>j, <1>u, <1>v, <1>w, <1>z DEF TypeOK

(* A new name is nowhere: not active, reserved, pending or listed. *)
LEMMA CreateIInv ==
  ASSUME IInv, NEW t \in Threads,
         NEW c \in Collections, NamespaceOf(c) = ns[t],
       pc[t] = "begin_candidate", Create(t, c),
       UNCHANGED <<ptr, staged, shared, ns, want, old, listing, retiring, leases,
      answer>>
  PROVE  IInv'
<1> USE Naming DEF IInv, Create, Goto, Ends, disk, shared, leases, locals, listing,
      retiring
<1>a. DiskTypeOK'
  <2>1. want[t] \subseteq Rows /\ IsFiniteSet(want[t])
    BY InventoriesAreFinite, FS_EmptySet DEF TypeOK, LocalsTypeOK
  <2>2. [expected |-> Cardinality(want[t]), rows |-> {}] \in Generation
    BY <2>1, FS_CardinalityType DEF Generation
  <2> QED
    BY <2>2, SMTT(60) DEF TypeOK, DiskTypeOK
<1>b. SharedTypeOK'
  BY DEF TypeOK, SharedTypeOK
<1>c. LocalsTypeOK'
  BY DEF TypeOK, LocalsTypeOK, ControlTypeOK, MaybeCollection
<1>d. pc' \in [Threads -> Labels]
  BY DEF TypeOK, LocalsTypeOK, ControlTypeOK, Labels, SyncLabels, TryLabels
<1>e. outcome' \in [Threads -> Outcomes]
  BY DEF TypeOK, ControlTypeOK, Outcomes
<1>f. ControlTypeOK'
  BY <1>d, <1>e DEF TypeOK, ControlTypeOK
<1>g. LeasesAreLocal'
  BY DEF TypeOK, ControlTypeOK, LocalsTypeOK, DiskTypeOK, SharedTypeOK,
      LeasesAreLocal, SearchLabels, RetireLabels, MaybeCollection
<1>h. ReadersCounted'
  BY DEF ReadersCounted, Pins, Leases
<1>i. OneMutatorPerNamespace'
  BY DEF OneMutatorPerNamespace, Guarded
<1>j. JobsAreLocal'
  BY DEF TypeOK, DiskTypeOK, LocalsTypeOK, ControlTypeOK, JobsAreLocal,
      GuardedLabels, SyncLabels, TryLabels, DeleteLabels, SearchLabels, RetireLabels,
      ActiveComplete
<1>r. ActiveComplete'
  BY DEF TypeOK, DiskTypeOK, LocalsTypeOK, RetireLabels, UncommittedLabels,
      ActiveComplete, ActiveIsKept, Readable, MaybeCollection, NamesAreDrawn
<1>s. ActiveIsKept'
  BY DEF ActiveComplete, ActiveIsKept, MaybeCollection
<1>z. NamesAreDrawn'
  BY DEF RetireLabels, NamesAreDrawn, CandidateIsPrivate
<1>t. LeasedNotReserved'
  BY DEF LeasedNotReserved
<1>u. CandidateIsPrivate'
  BY SMTT(60) DEF TypeOK, DiskTypeOK, LocalsTypeOK, ControlTypeOK, CandidateIsPrivate,
      SyncLabels, TryLabels, DeleteLabels, SearchLabels, RetireLabels,
      UncommittedLabels, GuardedLabels, Readable, JobsAreLocal, OneMutatorPerNamespace,
      Guarded, ActiveComplete, ActiveIsKept, ReservationsAreExclusive, PointerIsStable,
      NamesAreDrawn
<1>v. PointerIsStable'
  BY DEF TypeOK, DiskTypeOK, LocalsTypeOK, ControlTypeOK, PointerIsStable,
      SyncLabels
<1>w. ReservationsAreExclusive'
  BY DEF TypeOK, LocalsTypeOK, ControlTypeOK, ReservationsAreExclusive,
      RetireLabels
<1> QED
  BY <1>a, <1>b, <1>c, <1>f, <1>g, <1>h, <1>i, <1>j, <1>r, <1>s, <1>t, <1>u, <1>v,
      <1>w, <1>z DEF TypeOK

(* The candidate grows in a collection no pointer names. *)
LEMMA FillIInv ==
  ASSUME IInv, NEW t \in Threads,
         Fill(t)
  PROVE  IInv'
<1> USE Naming DEF IInv, Fill, Goto, Ends, disk, shared, leases, locals, listing,
      retiring
<1>a. DiskTypeOK'
  <2>1. want[t] \subseteq Rows
    BY InventoriesAreFinite DEF TypeOK, LocalsTypeOK
  <2>2. cand[t] \in Collections
    BY DEF TypeOK, LocalsTypeOK, MaybeCollection, JobsAreLocal, TryLabels
  <2>3. \/ UNCHANGED coll
        \/ \E b \in SUBSET (want[t] \ coll[cand[t]].rows) :
               coll' = [coll EXCEPT ![cand[t]] =
                           [expected |-> @.expected, rows |-> @.rows \cup b]]
    BY Zenon
  <2>4. \A b \in SUBSET (want[t] \ coll[cand[t]].rows) :
           [expected |-> coll[cand[t]].expected, rows |-> coll[cand[t]].rows \cup b]
              \in Generation
    BY <2>1, <2>2 DEF TypeOK, DiskTypeOK, Generation
  <2>5. coll' \in [Collections -> Generation]
    BY <2>2, <2>3, <2>4 DEF TypeOK, DiskTypeOK
  <2> QED
    BY <2>5 DEF TypeOK, DiskTypeOK
<1>b. SharedTypeOK'
  BY DEF TypeOK, SharedTypeOK
<1>c. LocalsTypeOK'
  BY DEF TypeOK, LocalsTypeOK, DiskTypeOK
<1>d. pc' \in [Threads -> Labels]
  BY DEF TypeOK, LocalsTypeOK, ControlTypeOK, Labels, SyncLabels, TryLabels
<1>e. outcome' \in [Threads -> Outcomes]
  BY DEF TypeOK, ControlTypeOK, Outcomes
<1>f. ControlTypeOK'
  BY <1>d, <1>e DEF TypeOK, ControlTypeOK
<1>g. LeasesAreLocal'
  BY DEF TypeOK, ControlTypeOK, LocalsTypeOK, DiskTypeOK, SharedTypeOK,
      LeasesAreLocal, SearchLabels, RetireLabels, MaybeCollection
<1>h. ReadersCounted'
  BY DEF ReadersCounted, Pins, Leases
<1>i. OneMutatorPerNamespace'
  BY DEF OneMutatorPerNamespace, Guarded
<1>j. JobsAreLocal'
  BY DEF TypeOK, DiskTypeOK, LocalsTypeOK, ControlTypeOK, JobsAreLocal,
      GuardedLabels, SyncLabels, TryLabels, DeleteLabels, SearchLabels, RetireLabels,
      ActiveComplete
<1>r. ActiveComplete'
  BY SMTT(60) DEF TypeOK, DiskTypeOK, LocalsTypeOK, ControlTypeOK, JobsAreLocal,
      CandidateIsPrivate, TryLabels, RetireLabels, UncommittedLabels, ActiveComplete,
      ActiveIsKept, Readable
<1>s. ActiveIsKept'
  BY DEF ActiveComplete, ActiveIsKept, MaybeCollection
<1>z. NamesAreDrawn'
  BY DEF RetireLabels, NamesAreDrawn, CandidateIsPrivate
<1>t. LeasedNotReserved'
  BY DEF LeasedNotReserved
<1>u. CandidateIsPrivate'
  BY DEF TypeOK, DiskTypeOK, LocalsTypeOK, ControlTypeOK, CandidateIsPrivate,
      SyncLabels, TryLabels, DeleteLabels, UncommittedLabels, GuardedLabels, Readable,
      JobsAreLocal, OneMutatorPerNamespace, Guarded, ActiveComplete, ActiveIsKept
<1>v. PointerIsStable'
  BY DEF TypeOK, DiskTypeOK, LocalsTypeOK, ControlTypeOK, PointerIsStable,
      SyncLabels
<1>w. ReservationsAreExclusive'
  BY DEF TypeOK, LocalsTypeOK, ControlTypeOK, ReservationsAreExclusive,
      RetireLabels
<1> QED
  BY <1>a, <1>b, <1>c, <1>f, <1>g, <1>h, <1>i, <1>j, <1>r, <1>s, <1>t, <1>u, <1>v,
      <1>w, <1>z DEF TypeOK

(* What is staged under the guard is the own candidate. *)
LEMMA StageIInv ==
  ASSUME IInv, NEW t \in Threads,
         Stage(t)
  PROVE  IInv'
<1> USE Naming DEF IInv, Stage, Goto, Ends, disk, shared, leases, locals, listing,
      retiring
<1>a. DiskTypeOK'
  BY DEF TypeOK, DiskTypeOK, LocalsTypeOK, ControlTypeOK, MaybeCollection,
      Generation
<1>b. SharedTypeOK'
  BY DEF TypeOK, SharedTypeOK
<1>c. LocalsTypeOK'
  BY DEF TypeOK, LocalsTypeOK, DiskTypeOK
<1>d. pc' \in [Threads -> Labels]
  BY DEF TypeOK, LocalsTypeOK, ControlTypeOK, Labels, SyncLabels, TryLabels
<1>e. outcome' \in [Threads -> Outcomes]
  BY DEF TypeOK, ControlTypeOK
<1>f. ControlTypeOK'
  BY <1>d, <1>e DEF TypeOK, ControlTypeOK
<1>g. LeasesAreLocal'
  BY DEF TypeOK, ControlTypeOK, LocalsTypeOK, DiskTypeOK, SharedTypeOK,
      LeasesAreLocal, SearchLabels, RetireLabels, MaybeCollection
<1>h. ReadersCounted'
  BY DEF ReadersCounted, Pins, Leases
<1>i. OneMutatorPerNamespace'
  BY DEF OneMutatorPerNamespace, Guarded
<1>j. JobsAreLocal'
  BY DEF TypeOK, DiskTypeOK, LocalsTypeOK, ControlTypeOK, JobsAreLocal,
      GuardedLabels, SyncLabels, TryLabels, DeleteLabels, SearchLabels, RetireLabels,
      ActiveComplete
<1>r. ActiveComplete'
  BY DEF ActiveComplete, ActiveIsKept, Readable, MaybeCollection
<1>s. ActiveIsKept'
  BY DEF ActiveComplete, ActiveIsKept, MaybeCollection
<1>z. NamesAreDrawn'
  BY DEF RetireLabels, NamesAreDrawn, CandidateIsPrivate
<1>t. LeasedNotReserved'
  BY DEF LeasedNotReserved
<1>u. CandidateIsPrivate'
  BY DEF TypeOK, DiskTypeOK, LocalsTypeOK, ControlTypeOK, CandidateIsPrivate,
      SyncLabels, TryLabels, DeleteLabels, UncommittedLabels, GuardedLabels, Readable,
      JobsAreLocal, OneMutatorPerNamespace, Guarded
<1>v. PointerIsStable'
  BY DEF TypeOK, DiskTypeOK, LocalsTypeOK, ControlTypeOK, PointerIsStable,
      SyncLabels
<1>w. ReservationsAreExclusive'
  BY DEF TypeOK, LocalsTypeOK, ControlTypeOK, ReservationsAreExclusive,
      RetireLabels
<1> QED
  BY <1>a, <1>b, <1>c, <1>f, <1>g, <1>h, <1>i, <1>j, <1>r, <1>s, <1>t, <1>u, <1>v,
      <1>w, <1>z DEF TypeOK

(* The commit moves a complete private collection into the pointer. *)
LEMMA ReplaceIInv ==
  ASSUME IInv, NEW t \in Threads,
         Replace(t)
  PROVE  IInv'
<1> USE Naming DEF IInv, Replace, Goto, Ends, disk, shared, leases, locals, listing,
      retiring
<1>a. DiskTypeOK'
  <2>1. ns[t] \in Namespaces
    BY DEF TypeOK, LocalsTypeOK, JobsAreLocal, GuardedLabels, TryLabels
  <2>2. staged[ns[t]] # None => staged[ns[t]] \in Collections
    BY <2>1 DEF TypeOK, DiskTypeOK, MaybeCollection
  <2> QED
    BY <2>1, <2>2 DEF TypeOK, DiskTypeOK, MaybeCollection
<1>b. SharedTypeOK'
  BY DEF TypeOK, SharedTypeOK, DiskTypeOK, LocalsTypeOK, ControlTypeOK,
      MaybeCollection, JobsAreLocal, GuardedLabels, TryLabels
<1>c. LocalsTypeOK'
  BY DEF TypeOK, LocalsTypeOK, DiskTypeOK
<1>d. pc' \in [Threads -> Labels]
  BY DEF TypeOK, LocalsTypeOK, ControlTypeOK, Labels, SyncLabels, TryLabels
<1>e. outcome' \in [Threads -> Outcomes]
  BY DEF TypeOK, ControlTypeOK
<1>f. ControlTypeOK'
  BY <1>d, <1>e DEF TypeOK, ControlTypeOK
<1>g. LeasesAreLocal'
  BY DEF LeasesAreLocal, SyncLabels, TryLabels, DeleteLabels, SearchLabels,
      RetireLabels
<1>h. ReadersCounted'
  BY DEF ReadersCounted, Pins, Leases
<1>i. OneMutatorPerNamespace'
  BY DEF OneMutatorPerNamespace, Guarded
<1>j. JobsAreLocal'
  BY DEF ControlTypeOK, JobsAreLocal, GuardedLabels, SyncLabels, TryLabels,
      DeleteLabels, SearchLabels, RetireLabels
<1>r. ActiveComplete'
  BY DEF TypeOK, DiskTypeOK, JobsAreLocal, CandidateIsPrivate, TryLabels,
      RetireLabels, UncommittedLabels, ActiveComplete, ActiveIsKept, Readable
<1>s. ActiveIsKept'
  BY DEF TypeOK, DiskTypeOK, LocalsTypeOK, ControlTypeOK, JobsAreLocal,
      CandidateIsPrivate, PointerIsStable, ReservationsAreExclusive, TryLabels,
      ActiveIsKept, MaybeCollection
<1>z. NamesAreDrawn'
  BY DEF TypeOK, DiskTypeOK, JobsAreLocal, GuardedLabels, SyncLabels,
      TryLabels, RetireLabels, NamesAreDrawn, CandidateIsPrivate
<1>t. LeasedNotReserved'
  BY DEF LeasedNotReserved
<1>u. CandidateIsPrivate'
  BY DEF TypeOK, DiskTypeOK, LocalsTypeOK, ControlTypeOK, CandidateIsPrivate,
      SyncLabels, TryLabels, DeleteLabels, UncommittedLabels, GuardedLabels, Readable,
      JobsAreLocal, OneMutatorPerNamespace, Guarded
<1>v. PointerIsStable'
  BY DEF TypeOK, DiskTypeOK, LocalsTypeOK, ControlTypeOK, PointerIsStable,
      SyncLabels, TryLabels, DeleteLabels, GuardedLabels, UncommittedLabels,
      JobsAreLocal, OneMutatorPerNamespace, Guarded
<1>w. ReservationsAreExclusive'
  BY DEF ReservationsAreExclusive, RetireLabels
<1> QED
  BY <1>a, <1>b, <1>c, <1>f, <1>g, <1>h, <1>i, <1>j, <1>r, <1>s, <1>t, <1>u, <1>v,
      <1>w, <1>z DEF TypeOK

(* Only a pointer that names the candidate leads to the cleanup. *)
LEMMA ResolveIInv ==
  ASSUME IInv, NEW t \in Threads,
         Resolve(t)
  PROVE  IInv'
<1> USE Naming DEF IInv, Resolve, Goto, Ends, disk, shared, leases, locals, listing,
      retiring
<1>a. /\ DiskTypeOK' /\ SharedTypeOK' /\ ActiveComplete' /\ ActiveIsKept'
      /\ LeasedNotReserved' /\ ReadersCounted'
  BY QuietStep
<1>c. LocalsTypeOK'
  BY DEF TypeOK, LocalsTypeOK, DiskTypeOK
<1>d. pc' \in [Threads -> Labels]
  BY DEF TypeOK, LocalsTypeOK, ControlTypeOK, Labels, SyncLabels, TryLabels
<1>e. outcome' \in [Threads -> Outcomes]
  BY DEF TypeOK, ControlTypeOK, Outcomes
<1>f. ControlTypeOK'
  BY <1>d, <1>e DEF TypeOK, ControlTypeOK
<1>g. LeasesAreLocal'
  BY DEF TypeOK, ControlTypeOK, LocalsTypeOK, DiskTypeOK, SharedTypeOK,
      LeasesAreLocal, SearchLabels, RetireLabels, MaybeCollection
<1>i. OneMutatorPerNamespace'
  BY DEF OneMutatorPerNamespace, Guarded
<1>j. JobsAreLocal'
  BY DEF TypeOK, DiskTypeOK, LocalsTypeOK, ControlTypeOK, JobsAreLocal,
      GuardedLabels, SyncLabels, TryLabels, DeleteLabels, SearchLabels, RetireLabels,
      ActiveComplete
<1>z. NamesAreDrawn'
  BY DEF RetireLabels, NamesAreDrawn, CandidateIsPrivate
<1>u. CandidateIsPrivate'
  BY DEF TypeOK, DiskTypeOK, LocalsTypeOK, ControlTypeOK, CandidateIsPrivate,
      SyncLabels, TryLabels, DeleteLabels, UncommittedLabels, GuardedLabels, Readable,
      JobsAreLocal
<1>v. PointerIsStable'
  BY DEF TypeOK, DiskTypeOK, LocalsTypeOK, ControlTypeOK, PointerIsStable,
      SyncLabels
<1>w. ReservationsAreExclusive'
  BY DEF TypeOK, LocalsTypeOK, ControlTypeOK, ReservationsAreExclusive,
      RetireLabels
<1> QED
  BY <1>a, <1>c, <1>f, <1>g, <1>i, <1>j, <1>u, <1>v, <1>w, <1>z DEF TypeOK

(* A superseded collection is no longer active when it is reserved. *)
LEMMA CleanupIInv ==
  ASSUME IInv, NEW t \in Threads,
         Cleanup(t)
  PROVE  IInv'
<1> USE Naming DEF IInv, Cleanup, Goto, Ends, Reserve, disk, shared, leases, locals,
      listing, retiring
<1>a. DiskTypeOK'
  BY DEF TypeOK, DiskTypeOK
<1>b. SharedTypeOK'
  BY DEF TypeOK, SharedTypeOK, DiskTypeOK, LocalsTypeOK, ControlTypeOK,
      MaybeCollection
<1>c. LocalsTypeOK'
  BY SMTT(60) DEF TypeOK, LocalsTypeOK, DiskTypeOK, SharedTypeOK, ControlTypeOK,
      MaybeCollection, JobsAreLocal, GuardedLabels, SyncLabels, TryLabels,
      DeleteLabels, SearchLabels, RetireLabels
<1>d. pc' \in [Threads -> Labels]
  BY DEF TypeOK, LocalsTypeOK, ControlTypeOK, Labels, RetireLabels
<1>e. outcome' \in [Threads -> Outcomes]
  BY DEF TypeOK, ControlTypeOK
<1>f. ControlTypeOK'
  BY <1>d, <1>e DEF TypeOK, ControlTypeOK
<1>g. LeasesAreLocal'
  BY DEF TypeOK, ControlTypeOK, LocalsTypeOK, DiskTypeOK, SharedTypeOK,
      LeasesAreLocal, SearchLabels, RetireLabels, MaybeCollection
<1>h. ReadersCounted'
  BY DEF ReadersCounted, Pins, Leases
<1>i. OneMutatorPerNamespace'
  BY DEF OneMutatorPerNamespace, Guarded
<1>j. JobsAreLocal'
  BY DEF TypeOK, DiskTypeOK, LocalsTypeOK, ControlTypeOK, JobsAreLocal,
      GuardedLabels, SyncLabels, TryLabels, DeleteLabels, SearchLabels, RetireLabels,
      ActiveComplete
<1>r. ActiveComplete'
  BY DEF ActiveComplete, ActiveIsKept, Readable, MaybeCollection
<1>s. ActiveIsKept'
  BY DEF ControlTypeOK, JobsAreLocal, CandidateIsPrivate, PointerIsStable,
      ActiveComplete, ActiveIsKept
<1>z. NamesAreDrawn'
  BY DEF RetireLabels, NamesAreDrawn, CandidateIsPrivate
<1>t. LeasedNotReserved'
  BY DEF LeasedNotReserved
<1>u. CandidateIsPrivate'
  BY DEF TypeOK, DiskTypeOK, LocalsTypeOK, ControlTypeOK, CandidateIsPrivate,
      SyncLabels, TryLabels, DeleteLabels, Readable, JobsAreLocal,
      OneMutatorPerNamespace, Guarded
<1>v. PointerIsStable'
  BY DEF TypeOK, DiskTypeOK, LocalsTypeOK, ControlTypeOK, PointerIsStable,
      SyncLabels
<1>w. ReservationsAreExclusive'
  BY DEF TypeOK, LocalsTypeOK, ControlTypeOK, ReservationsAreExclusive,
      RetireLabels
<1> QED
  BY <1>a, <1>b, <1>c, <1>f, <1>g, <1>h, <1>i, <1>j, <1>r, <1>s, <1>t, <1>u, <1>v,
      <1>w, <1>z DEF TypeOK

(* Without a pointer, the candidate is not active. *)
LEMMA AbortPointerIInv ==
  ASSUME IInv, NEW t \in Threads,
         AbortPointer(t)
  PROVE  IInv'
<1> USE Naming DEF IInv, AbortPointer, Goto, disk, shared, leases, locals, listing,
      retiring
<1>a. /\ DiskTypeOK' /\ SharedTypeOK' /\ ActiveComplete' /\ ActiveIsKept'
      /\ LeasedNotReserved' /\ ReadersCounted'
  BY QuietStep
<1>c. LocalsTypeOK'
  BY DEF TypeOK, LocalsTypeOK, DiskTypeOK, SharedTypeOK, JobsAreLocal,
      GuardedLabels, SyncLabels, TryLabels
<1>d. pc' \in [Threads -> Labels]
  BY DEF TypeOK, LocalsTypeOK, ControlTypeOK, Labels, SyncLabels, TryLabels
<1>e. outcome' \in [Threads -> Outcomes]
  BY DEF TypeOK, ControlTypeOK
<1>f. ControlTypeOK'
  BY <1>d, <1>e DEF TypeOK, ControlTypeOK
<1>g. LeasesAreLocal'
  BY DEF TypeOK, ControlTypeOK, LocalsTypeOK, DiskTypeOK, SharedTypeOK,
      LeasesAreLocal, SearchLabels, RetireLabels, MaybeCollection
<1>i. OneMutatorPerNamespace'
  BY DEF OneMutatorPerNamespace, Guarded
<1>j. JobsAreLocal'
  BY DEF TypeOK, DiskTypeOK, LocalsTypeOK, ControlTypeOK, JobsAreLocal,
      GuardedLabels, SyncLabels, TryLabels, DeleteLabels, SearchLabels, RetireLabels,
      ActiveComplete
<1>z. NamesAreDrawn'
  BY DEF TypeOK, DiskTypeOK, LocalsTypeOK, ControlTypeOK, JobsAreLocal,
      GuardedLabels, SyncLabels, TryLabels, DeleteLabels, SearchLabels, RetireLabels,
      NamesAreDrawn
<1>u. CandidateIsPrivate'
  BY DEF TypeOK, DiskTypeOK, LocalsTypeOK, ControlTypeOK, CandidateIsPrivate,
      SyncLabels, TryLabels, DeleteLabels, UncommittedLabels, GuardedLabels, Readable,
      JobsAreLocal
<1>v. PointerIsStable'
  BY DEF TypeOK, DiskTypeOK, LocalsTypeOK, ControlTypeOK, PointerIsStable,
      SyncLabels, TryLabels, DeleteLabels, SearchLabels, JobsAreLocal,
      OneMutatorPerNamespace, Guarded
<1>w. ReservationsAreExclusive'
  BY DEF TypeOK, LocalsTypeOK, ControlTypeOK, ReservationsAreExclusive,
      RetireLabels
<1> QED
  BY <1>a, <1>c, <1>f, <1>g, <1>i, <1>j, <1>u, <1>v, <1>w, <1>z DEF TypeOK

(* Only a candidate the pointer does not name goes on to its deletion. *)
LEMMA AbortManifestIInv ==
  ASSUME IInv, NEW t \in Threads,
         AbortManifest(t)
  PROVE  IInv'
<1> USE Naming DEF IInv, AbortManifest, Goto, disk, shared, leases, locals, listing,
      retiring
<1>a. /\ DiskTypeOK' /\ SharedTypeOK' /\ ActiveComplete' /\ ActiveIsKept'
      /\ LeasedNotReserved' /\ ReadersCounted'
  BY QuietStep
<1>c. LocalsTypeOK'
  BY DEF TypeOK, LocalsTypeOK, DiskTypeOK
<1>d. pc' \in [Threads -> Labels]
  BY DEF TypeOK, LocalsTypeOK, ControlTypeOK, Labels, SyncLabels, TryLabels
<1>e. outcome' \in [Threads -> Outcomes]
  BY DEF TypeOK, ControlTypeOK
<1>f. ControlTypeOK'
  BY <1>d, <1>e DEF TypeOK, ControlTypeOK
<1>g. LeasesAreLocal'
  BY DEF TypeOK, ControlTypeOK, LocalsTypeOK, DiskTypeOK, SharedTypeOK,
      LeasesAreLocal, SearchLabels, RetireLabels, MaybeCollection
<1>i. OneMutatorPerNamespace'
  BY DEF OneMutatorPerNamespace, Guarded
<1>j. JobsAreLocal'
  BY DEF TypeOK, DiskTypeOK, LocalsTypeOK, ControlTypeOK, JobsAreLocal,
      GuardedLabels, SyncLabels, TryLabels, DeleteLabels, SearchLabels, RetireLabels,
      ActiveComplete
<1>z. NamesAreDrawn'
  BY DEF RetireLabels, NamesAreDrawn, CandidateIsPrivate
<1>u. CandidateIsPrivate'
  BY DEF TypeOK, DiskTypeOK, LocalsTypeOK, ControlTypeOK, CandidateIsPrivate,
      SyncLabels, TryLabels, DeleteLabels, UncommittedLabels, GuardedLabels, Readable,
      JobsAreLocal
<1>v. PointerIsStable'
  BY DEF TypeOK, DiskTypeOK, LocalsTypeOK, ControlTypeOK, PointerIsStable,
      SyncLabels
<1>w. ReservationsAreExclusive'
  BY DEF TypeOK, LocalsTypeOK, ControlTypeOK, ReservationsAreExclusive,
      RetireLabels
<1> QED
  BY <1>a, <1>c, <1>f, <1>g, <1>i, <1>j, <1>u, <1>v, <1>w, <1>z DEF TypeOK

(* The candidate deleted is not the active collection. *)
LEMMA AbortDeleteIInv ==
  ASSUME IInv, NEW t \in Threads,
         AbortDelete(t)
  PROVE  IInv'
<1> USE Naming DEF IInv, AbortDelete, Goto, Deletes, DeleteFails, Drop, disk, shared,
      leases, locals, listing, retiring
<1>a. DiskTypeOK'
  <2>1. UNCHANGED <<catalog, coll>> \/ Drop(cand[t])
    BY DEF Drop
  <2> QED
    BY <2>1, DropType DEF TypeOK, DiskTypeOK
<1>b. SharedTypeOK'
  BY DEF TypeOK, SharedTypeOK
<1>c. LocalsTypeOK'
  BY DEF TypeOK, LocalsTypeOK, DiskTypeOK
<1>d. pc' \in [Threads -> Labels]
  BY DEF TypeOK, LocalsTypeOK, ControlTypeOK, Labels
<1>e. outcome' \in [Threads -> Outcomes]
  BY DEF TypeOK, ControlTypeOK
<1>f. ControlTypeOK'
  BY <1>d, <1>e DEF TypeOK, ControlTypeOK
<1>g. LeasesAreLocal'
  BY DEF LeasesAreLocal, SyncLabels, TryLabels, DeleteLabels, SearchLabels,
      RetireLabels
<1>h. ReadersCounted'
  BY DEF ReadersCounted, Pins, Leases
<1>i. OneMutatorPerNamespace'
  BY DEF OneMutatorPerNamespace, Guarded
<1>j. JobsAreLocal'
  BY DEF ControlTypeOK, JobsAreLocal, GuardedLabels, SyncLabels, TryLabels,
      DeleteLabels, SearchLabels, RetireLabels
<1>r. ActiveComplete'
  BY DEF TypeOK, DiskTypeOK, JobsAreLocal, CandidateIsPrivate,
      PointerIsStable, ReservationsAreExclusive, TryLabels, RetireLabels,
      UncommittedLabels, ActiveComplete, ActiveIsKept, Readable
<1>s. ActiveIsKept'
  BY DEF ActiveComplete, ActiveIsKept, MaybeCollection
<1>z. NamesAreDrawn'
  BY DEF RetireLabels, NamesAreDrawn, CandidateIsPrivate
<1>t. LeasedNotReserved'
  BY DEF LeasedNotReserved
<1>u. CandidateIsPrivate'
  BY DEF TypeOK, DiskTypeOK, LocalsTypeOK, ControlTypeOK, CandidateIsPrivate,
      SyncLabels, TryLabels, DeleteLabels, Readable, JobsAreLocal,
      OneMutatorPerNamespace, Guarded
<1>v. PointerIsStable'
  BY DEF ControlTypeOK, PointerIsStable
<1>w. ReservationsAreExclusive'
  BY DEF ReservationsAreExclusive, RetireLabels
<1> QED
  BY <1>a, <1>b, <1>c, <1>f, <1>g, <1>h, <1>i, <1>j, <1>r, <1>s, <1>t, <1>u, <1>v,
      <1>w, <1>z DEF TypeOK

(* A reserved collection is neither active nor a private candidate. *)
LEMMA RetireIInv ==
  ASSUME IInv, NEW t \in Threads,
         Retire(t)
  PROVE  IInv'
<1> USE Naming DEF IInv, Retire, Goto, Deletes, DeleteFails, Drop, disk, shared,
      leases, locals, listing, retiring
<1>a. DiskTypeOK'
  <2>1. UNCHANGED <<catalog, coll>> \/ Drop(doomed[t])
    BY DEF Drop
  <2> QED
    BY <2>1, DropType DEF TypeOK, DiskTypeOK
<1>b. SharedTypeOK'
  BY DEF TypeOK, SharedTypeOK
<1>c. LocalsTypeOK'
  BY DEF TypeOK, LocalsTypeOK, DiskTypeOK
<1>d. pc' \in [Threads -> Labels]
  BY DEF TypeOK, LocalsTypeOK, ControlTypeOK, Labels, RetireLabels
<1>e. outcome' \in [Threads -> Outcomes]
  BY DEF TypeOK, ControlTypeOK
<1>f. ControlTypeOK'
  BY <1>d, <1>e DEF TypeOK, ControlTypeOK
<1>g. LeasesAreLocal'
  BY DEF LeasesAreLocal, SyncLabels, TryLabels, DeleteLabels, SearchLabels,
      RetireLabels
<1>h. ReadersCounted'
  BY DEF ReadersCounted, Pins, Leases
<1>i. OneMutatorPerNamespace'
  BY DEF OneMutatorPerNamespace, Guarded
<1>j. JobsAreLocal'
  BY DEF ControlTypeOK, JobsAreLocal, GuardedLabels, SyncLabels, TryLabels,
      DeleteLabels, SearchLabels, RetireLabels
<1>r. ActiveComplete'
  BY DEF TypeOK, DiskTypeOK, LocalsTypeOK, PointerIsStable,
      ReservationsAreExclusive, TryLabels, RetireLabels, UncommittedLabels,
      ActiveComplete, ActiveIsKept, Readable, MaybeCollection
<1>s. ActiveIsKept'
  BY DEF ActiveComplete, ActiveIsKept, MaybeCollection
<1>z. NamesAreDrawn'
  BY DEF RetireLabels, NamesAreDrawn, CandidateIsPrivate
<1>t. LeasedNotReserved'
  BY DEF LeasedNotReserved
<1>u. CandidateIsPrivate'
  BY DEF TypeOK, DiskTypeOK, CandidateIsPrivate, SyncLabels, TryLabels,
      DeleteLabels, SearchLabels, RetireLabels, Readable, JobsAreLocal, ActiveComplete,
      ActiveIsKept, ReservationsAreExclusive, PointerIsStable
<1>v. PointerIsStable'
  BY DEF ControlTypeOK, PointerIsStable
<1>w. ReservationsAreExclusive'
  BY DEF ControlTypeOK, ReservationsAreExclusive, RetireLabels
<1> QED
  BY <1>a, <1>b, <1>c, <1>f, <1>g, <1>h, <1>i, <1>j, <1>r, <1>s, <1>t, <1>u, <1>v,
      <1>w, <1>z DEF TypeOK

(* The reservation ends with the deletion. *)
LEMMA RetiredIInv ==
  ASSUME IInv, NEW t \in Threads,
         Retired(t)
  PROVE  IInv'
<1> USE Naming DEF IInv, Retired, Goto, disk, shared, leases, locals, listing, retiring
<1>a. DiskTypeOK'
  BY DEF TypeOK, DiskTypeOK
<1>b. SharedTypeOK'
  BY DEF TypeOK, SharedTypeOK
<1>c. LocalsTypeOK'
  BY DEF TypeOK, LocalsTypeOK, DiskTypeOK, SharedTypeOK, ControlTypeOK,
      MaybeCollection
<1>d. pc' \in [Threads -> Labels]
  BY DEF TypeOK, LocalsTypeOK, ControlTypeOK, Labels, DeleteLabels,
      SearchLabels
<1>e. outcome' \in [Threads -> Outcomes]
  BY DEF TypeOK, ControlTypeOK
<1>f. ControlTypeOK'
  BY <1>d, <1>e DEF TypeOK, ControlTypeOK
<1>g. LeasesAreLocal'
  BY DEF TypeOK, ControlTypeOK, LocalsTypeOK, DiskTypeOK, SharedTypeOK,
      LeasesAreLocal, SearchLabels, RetireLabels, MaybeCollection
<1>h. ReadersCounted'
  BY DEF ReadersCounted, Pins, Leases
<1>i. OneMutatorPerNamespace'
  BY DEF OneMutatorPerNamespace, Guarded
<1>j. JobsAreLocal'
  BY DEF TypeOK, DiskTypeOK, LocalsTypeOK, ControlTypeOK, JobsAreLocal,
      GuardedLabels, SyncLabels, TryLabels, DeleteLabels, SearchLabels, RetireLabels,
      ActiveComplete
<1>r. ActiveComplete'
  BY DEF ActiveComplete, ActiveIsKept, Readable, MaybeCollection
<1>s. ActiveIsKept'
  BY DEF ActiveComplete, ActiveIsKept, MaybeCollection
<1>z. NamesAreDrawn'
  BY DEF RetireLabels, NamesAreDrawn, CandidateIsPrivate
<1>t. LeasedNotReserved'
  BY DEF LeasedNotReserved
<1>u. CandidateIsPrivate'
  BY DEF TypeOK, DiskTypeOK, LocalsTypeOK, ControlTypeOK, CandidateIsPrivate,
      SyncLabels, TryLabels, DeleteLabels, SearchLabels, Readable, JobsAreLocal
<1>v. PointerIsStable'
  BY DEF TypeOK, DiskTypeOK, LocalsTypeOK, ControlTypeOK, PointerIsStable,
      SyncLabels
<1>w. ReservationsAreExclusive'
  BY DEF TypeOK, LocalsTypeOK, ControlTypeOK, ReservationsAreExclusive,
      RetireLabels
<1> QED
  BY <1>a, <1>b, <1>c, <1>f, <1>g, <1>h, <1>i, <1>j, <1>r, <1>s, <1>t, <1>u, <1>v,
      <1>w, <1>z DEF TypeOK

(* The collection pinned is active, so it is not reserved. *)
LEMMA SearchBeginIInv ==
  ASSUME IInv, NEW t \in Threads,
         NEW n \in Namespaces,
         SearchBegin(t, n)
  PROVE  IInv'
<1> USE Naming DEF IInv, SearchBegin, Ends, disk, shared, leases, locals, listing,
      retiring
<1>a. DiskTypeOK'
  BY DEF TypeOK, DiskTypeOK
<1>b. SharedTypeOK'
  BY DEF TypeOK, SharedTypeOK, DiskTypeOK
<1>c. LocalsTypeOK'
  BY DEF TypeOK, LocalsTypeOK, DiskTypeOK
<1>d. pc' \in [Threads -> Labels]
  BY DEF TypeOK, LocalsTypeOK, ControlTypeOK, Labels, DeleteLabels,
      SearchLabels
<1>e. outcome' \in [Threads -> Outcomes]
  BY DEF TypeOK, ControlTypeOK, Outcomes
<1>f. ControlTypeOK'
  BY <1>d, <1>e DEF TypeOK, ControlTypeOK, DiskTypeOK
<1>g. LeasesAreLocal'
  BY DEF TypeOK, ControlTypeOK, LocalsTypeOK, DiskTypeOK, SharedTypeOK,
      LeasesAreLocal, SearchLabels, RetireLabels, MaybeCollection
<1>h. ReadersCounted'
  <2>1. CASE UNCHANGED <<readers, pin>>
    BY <2>1 DEF ReadersCounted, Pins, Leases
  <2>2. CASE pin' = [pin EXCEPT ![t] = ptr[n]] /\ ptr[n] # None
             /\ readers' = [readers EXCEPT ![ptr[n]] = @ + 1]
    <3>1. pin[t] = None /\ ptr[n] \in Collections
      BY <2>2 DEF TypeOK, DiskTypeOK, MaybeCollection, LeasesAreLocal, SearchLabels,
      RetireLabels
    <3>2. \A d \in Collections : readers'[d] = IF d = ptr[n] THEN readers[d] + 1 ELSE readers[d]
      BY <2>2, <3>1 DEF TypeOK, SharedTypeOK
    <3>3. \A d \in Collections : Cardinality(Leases(d)) \in Nat /\ Leases(d)' = Leases(d)
      BY HoldersFinite DEF TypeOK, ControlTypeOK, Leases
    <3>4. \A d \in Collections : Cardinality(Pins(d)') =
             IF d = ptr[n] THEN Cardinality(Pins(d)) + 1 ELSE Cardinality(Pins(d))
      BY <2>2, <3>1, AddHolder DEF TypeOK, ControlTypeOK, Pins
    <3>5. \A d \in Collections : Cardinality(Pins(d)) \in Nat
      BY HoldersFinite DEF TypeOK, ControlTypeOK, Pins
    <3> QED
      BY <3>2, <3>3, <3>4, <3>5 DEF ReadersCounted
  <2> QED
    BY <2>1, <2>2
<1>i. OneMutatorPerNamespace'
  BY DEF OneMutatorPerNamespace, Guarded
<1>j. JobsAreLocal'
  BY DEF TypeOK, DiskTypeOK, LocalsTypeOK, ControlTypeOK, JobsAreLocal,
      GuardedLabels, SyncLabels, TryLabels, DeleteLabels, SearchLabels, RetireLabels,
      ActiveComplete
<1>r. ActiveComplete'
  BY DEF ActiveComplete, ActiveIsKept, Readable, MaybeCollection
<1>s. ActiveIsKept'
  BY DEF ActiveIsKept, MaybeCollection
<1>z. NamesAreDrawn'
  BY DEF NamesAreDrawn, CandidateIsPrivate
<1>t. LeasedNotReserved'
  BY DEF TypeOK, SharedTypeOK, LeasedNotReserved
<1>u. CandidateIsPrivate'
  BY DEF TypeOK, DiskTypeOK, LocalsTypeOK, ControlTypeOK, CandidateIsPrivate,
      SyncLabels, TryLabels, DeleteLabels, SearchLabels, Readable, JobsAreLocal
<1>v. PointerIsStable'
  BY DEF TypeOK, DiskTypeOK, LocalsTypeOK, ControlTypeOK, PointerIsStable,
      SyncLabels
<1>w. ReservationsAreExclusive'
  BY DEF TypeOK, LocalsTypeOK, ControlTypeOK, ReservationsAreExclusive,
      RetireLabels
<1> QED
  BY <1>a, <1>b, <1>c, <1>f, <1>g, <1>h, <1>i, <1>j, <1>r, <1>s, <1>t, <1>u, <1>v,
      <1>w, <1>z DEF TypeOK

(* Validating the pinned collection moves one thread and nothing else. *)
LEMMA OpenIInv ==
  ASSUME IInv, NEW t \in Threads,
         Open(t)
  PROVE  IInv'
<1> USE Naming DEF IInv, Open, Goto, Ends, disk, shared, leases, locals, listing,
      retiring
<1>a. DiskTypeOK' /\ ActiveComplete' /\ ActiveIsKept' /\ LeasedNotReserved'
  BY DEF TypeOK, DiskTypeOK, ActiveComplete, Readable, ActiveIsKept, LeasedNotReserved
<1>b. SharedTypeOK'
  BY DEF TypeOK, SharedTypeOK, DiskTypeOK, Readable
<1>h. ReadersCounted'
  BY DEF ReadersCounted, Pins, Leases
<1>c. LocalsTypeOK'
  BY DEF TypeOK, LocalsTypeOK, DiskTypeOK, SharedTypeOK, ControlTypeOK
<1>d. pc' \in [Threads -> Labels]
  BY DEF TypeOK, LocalsTypeOK, ControlTypeOK, Labels, DeleteLabels,
      SearchLabels
<1>e. outcome' \in [Threads -> Outcomes]
  BY DEF TypeOK, ControlTypeOK, Outcomes
<1>f. ControlTypeOK'
  BY <1>d, <1>e DEF TypeOK, ControlTypeOK, DiskTypeOK
<1>g. LeasesAreLocal'
  BY DEF TypeOK, ControlTypeOK, LocalsTypeOK, DiskTypeOK, SharedTypeOK,
      LeasesAreLocal, SearchLabels, RetireLabels, MaybeCollection
<1>i. OneMutatorPerNamespace'
  BY DEF OneMutatorPerNamespace, Guarded
<1>j. JobsAreLocal'
  BY DEF TypeOK, DiskTypeOK, LocalsTypeOK, ControlTypeOK, JobsAreLocal,
      GuardedLabels, SyncLabels, TryLabels, DeleteLabels, SearchLabels, RetireLabels,
      ActiveComplete
<1>z. NamesAreDrawn'
  BY DEF NamesAreDrawn, CandidateIsPrivate
<1>u. CandidateIsPrivate'
  BY DEF TypeOK, DiskTypeOK, LocalsTypeOK, ControlTypeOK, CandidateIsPrivate,
      SyncLabels, TryLabels, DeleteLabels, SearchLabels, Readable, JobsAreLocal
<1>v. PointerIsStable'
  BY DEF TypeOK, DiskTypeOK, LocalsTypeOK, ControlTypeOK, PointerIsStable,
      SyncLabels
<1>w. ReservationsAreExclusive'
  BY DEF TypeOK, LocalsTypeOK, ControlTypeOK, ReservationsAreExclusive,
      RetireLabels
<1> QED
  BY <1>a, <1>b, <1>h, <1>c, <1>f, <1>g, <1>i, <1>j, <1>u, <1>v, <1>w, <1>z DEF TypeOK

(* Embedding the query moves one thread and nothing else. *)
LEMMA EmbedIInv ==
  ASSUME IInv, NEW t \in Threads,
         Embed(t)
  PROVE  IInv'
<1> USE Naming DEF IInv, Embed, Goto, Ends, disk, shared, leases, locals, listing,
      retiring
<1>a. /\ DiskTypeOK' /\ SharedTypeOK' /\ ActiveComplete' /\ ActiveIsKept'
      /\ LeasedNotReserved' /\ ReadersCounted'
  BY QuietStep
<1>c. LocalsTypeOK'
  BY DEF TypeOK, LocalsTypeOK, DiskTypeOK, SharedTypeOK, ControlTypeOK
<1>d. pc' \in [Threads -> Labels]
  BY DEF TypeOK, LocalsTypeOK, ControlTypeOK, Labels, DeleteLabels,
      SearchLabels
<1>e. outcome' \in [Threads -> Outcomes]
  BY DEF TypeOK, ControlTypeOK, Outcomes
<1>f. ControlTypeOK'
  BY <1>d, <1>e DEF TypeOK, ControlTypeOK, DiskTypeOK
<1>g. LeasesAreLocal'
  BY DEF TypeOK, ControlTypeOK, LocalsTypeOK, DiskTypeOK, SharedTypeOK,
      LeasesAreLocal, SearchLabels, RetireLabels, MaybeCollection
<1>i. OneMutatorPerNamespace'
  BY DEF OneMutatorPerNamespace, Guarded
<1>j. JobsAreLocal'
  BY DEF TypeOK, DiskTypeOK, LocalsTypeOK, ControlTypeOK, JobsAreLocal,
      GuardedLabels, SyncLabels, TryLabels, DeleteLabels, SearchLabels, RetireLabels,
      ActiveComplete
<1>z. NamesAreDrawn'
  BY DEF NamesAreDrawn, CandidateIsPrivate
<1>u. CandidateIsPrivate'
  BY DEF TypeOK, DiskTypeOK, LocalsTypeOK, ControlTypeOK, CandidateIsPrivate,
      SyncLabels, TryLabels, DeleteLabels, SearchLabels, Readable, JobsAreLocal
<1>v. PointerIsStable'
  BY DEF TypeOK, DiskTypeOK, LocalsTypeOK, ControlTypeOK, PointerIsStable,
      SyncLabels
<1>w. ReservationsAreExclusive'
  BY DEF TypeOK, LocalsTypeOK, ControlTypeOK, ReservationsAreExclusive,
      RetireLabels
<1> QED
  BY <1>a, <1>c, <1>f, <1>g, <1>i, <1>j, <1>u, <1>v, <1>w, <1>z DEF TypeOK

(* The pinned collection is leased a second time. *)
LEMMA TakeLeaseIInv ==
  ASSUME IInv, NEW t \in Threads,
         TakeLease(t)
  PROVE  IInv'
<1> USE Naming DEF IInv, TakeLease, LeaseReader, Ends, disk, shared, leases, locals,
      listing, retiring
<1>a. DiskTypeOK'
  BY DEF TypeOK, DiskTypeOK
<1>b. SharedTypeOK'
  BY SMTT(60) DEF TypeOK, SharedTypeOK, DiskTypeOK, LocalsTypeOK, ControlTypeOK,
      MaybeCollection, JobsAreLocal, GuardedLabels, TryLabels
<1>c. LocalsTypeOK'
  BY DEF TypeOK, LocalsTypeOK, DiskTypeOK, SharedTypeOK, ControlTypeOK
<1>d. pc' \in [Threads -> Labels]
  BY DEF TypeOK, LocalsTypeOK, ControlTypeOK, Labels, DeleteLabels,
      SearchLabels
<1>e. outcome' \in [Threads -> Outcomes]
  BY DEF TypeOK, ControlTypeOK, Outcomes
<1>f. ControlTypeOK'
  BY <1>d, <1>e DEF TypeOK, ControlTypeOK, DiskTypeOK
<1>g. LeasesAreLocal'
  BY DEF TypeOK, ControlTypeOK, LocalsTypeOK, DiskTypeOK, SharedTypeOK,
      LeasesAreLocal, SearchLabels, RetireLabels, MaybeCollection
<1>h. ReadersCounted'
  <2>1. CASE UNCHANGED <<readers, lease>>
    BY <2>1 DEF ReadersCounted, Pins, Leases
  <2>2. CASE lease' = [lease EXCEPT ![t] = pin[t]]
             /\ readers' = [readers EXCEPT ![pin[t]] = @ + 1]
    <3>1. lease[t] = None /\ pin[t] \in Collections
      BY DEF TypeOK, SharedTypeOK, ControlTypeOK, MaybeCollection, LeasesAreLocal
    <3>2. \A d \in Collections : readers'[d] = IF d = pin[t] THEN readers[d] + 1 ELSE readers[d]
      BY <2>2, <3>1 DEF TypeOK, SharedTypeOK
    <3>3. \A d \in Collections : Cardinality(Pins(d)) \in Nat /\ Pins(d)' = Pins(d)
      BY HoldersFinite DEF TypeOK, ControlTypeOK, Pins
    <3>4. \A d \in Collections : Cardinality(Leases(d)') =
             IF d = pin[t] THEN Cardinality(Leases(d)) + 1 ELSE Cardinality(Leases(d))
      BY <2>2, <3>1, AddHolder DEF TypeOK, ControlTypeOK, Leases
    <3>5. \A d \in Collections : Cardinality(Leases(d)) \in Nat
      BY HoldersFinite DEF TypeOK, ControlTypeOK, Leases
    <3> QED
      BY <3>2, <3>3, <3>4, <3>5 DEF ReadersCounted
  <2> QED
    BY <2>1, <2>2
<1>i. OneMutatorPerNamespace'
  BY DEF OneMutatorPerNamespace, Guarded
<1>j. JobsAreLocal'
  BY DEF TypeOK, DiskTypeOK, LocalsTypeOK, ControlTypeOK, JobsAreLocal,
      GuardedLabels, SyncLabels, TryLabels, DeleteLabels, SearchLabels, RetireLabels,
      ActiveComplete
<1>r. ActiveComplete'
  BY DEF ActiveComplete, ActiveIsKept, Readable, MaybeCollection
<1>s. ActiveIsKept'
  BY DEF ActiveIsKept, MaybeCollection
<1>z. NamesAreDrawn'
  BY DEF NamesAreDrawn, CandidateIsPrivate
<1>t. LeasedNotReserved'
  BY DEF TypeOK, SharedTypeOK, LeasedNotReserved
<1>u. CandidateIsPrivate'
  BY DEF TypeOK, DiskTypeOK, LocalsTypeOK, ControlTypeOK, CandidateIsPrivate,
      SyncLabels, TryLabels, DeleteLabels, SearchLabels, Readable, JobsAreLocal
<1>v. PointerIsStable'
  BY DEF TypeOK, DiskTypeOK, LocalsTypeOK, ControlTypeOK, PointerIsStable,
      SyncLabels
<1>w. ReservationsAreExclusive'
  BY DEF TypeOK, LocalsTypeOK, ControlTypeOK, ReservationsAreExclusive,
      RetireLabels
<1> QED
  BY <1>a, <1>b, <1>c, <1>f, <1>g, <1>h, <1>i, <1>j, <1>r, <1>s, <1>t, <1>u, <1>v,
      <1>w, <1>z DEF TypeOK

(* A kept handle leases what is not reserved. *)
LEMMA StaleSearchIInv ==
  ASSUME IInv, NEW t \in Threads,
         NEW c \in handles,
         StaleSearch(t, c)
  PROVE  IInv'
<1> USE Naming DEF IInv, StaleSearch, LeaseReader, Ends, disk, shared, leases, locals,
      listing, retiring
<1>a. DiskTypeOK'
  BY DEF TypeOK, DiskTypeOK
<1>b. SharedTypeOK'
  BY SMTT(60) DEF TypeOK, SharedTypeOK, DiskTypeOK, LocalsTypeOK, ControlTypeOK,
      MaybeCollection, JobsAreLocal, GuardedLabels, TryLabels
<1>c. LocalsTypeOK'
  BY DEF TypeOK, LocalsTypeOK, DiskTypeOK, SharedTypeOK, ControlTypeOK
<1>d. pc' \in [Threads -> Labels]
  BY DEF TypeOK, LocalsTypeOK, ControlTypeOK, Labels, DeleteLabels,
      SearchLabels
<1>e. outcome' \in [Threads -> Outcomes]
  BY DEF TypeOK, ControlTypeOK, Outcomes
<1>f. ControlTypeOK'
  BY <1>d, <1>e DEF TypeOK, ControlTypeOK, DiskTypeOK, SharedTypeOK,
      MaybeCollection, Generation
<1>g. LeasesAreLocal'
  BY DEF TypeOK, ControlTypeOK, LocalsTypeOK, DiskTypeOK, SharedTypeOK,
      LeasesAreLocal, SearchLabels, RetireLabels, MaybeCollection
<1>h. ReadersCounted'
  <2>1. CASE UNCHANGED <<readers, lease>>
    BY <2>1 DEF ReadersCounted, Pins, Leases
  <2>2. CASE lease' = [lease EXCEPT ![t] = c]
             /\ readers' = [readers EXCEPT ![c] = @ + 1]
    <3>1. lease[t] = None /\ c \in Collections
      BY DEF TypeOK, SharedTypeOK, ControlTypeOK, MaybeCollection, LeasesAreLocal
    <3>2. \A d \in Collections : readers'[d] = IF d = c THEN readers[d] + 1 ELSE readers[d]
      BY <2>2, <3>1 DEF TypeOK, SharedTypeOK
    <3>3. \A d \in Collections : Cardinality(Pins(d)) \in Nat /\ Pins(d)' = Pins(d)
      BY HoldersFinite DEF TypeOK, ControlTypeOK, Pins
    <3>4. \A d \in Collections : Cardinality(Leases(d)') =
             IF d = c THEN Cardinality(Leases(d)) + 1 ELSE Cardinality(Leases(d))
      BY <2>2, <3>1, AddHolder DEF TypeOK, ControlTypeOK, Leases
    <3>5. \A d \in Collections : Cardinality(Leases(d)) \in Nat
      BY HoldersFinite DEF TypeOK, ControlTypeOK, Leases
    <3> QED
      BY <3>2, <3>3, <3>4, <3>5 DEF ReadersCounted
  <2> QED
    BY <2>1, <2>2
<1>i. OneMutatorPerNamespace'
  BY DEF OneMutatorPerNamespace, Guarded
<1>j. JobsAreLocal'
  BY DEF TypeOK, DiskTypeOK, LocalsTypeOK, ControlTypeOK, JobsAreLocal,
      GuardedLabels, SyncLabels, TryLabels, DeleteLabels, SearchLabels, RetireLabels,
      ActiveComplete
<1>r. ActiveComplete'
  BY DEF ActiveComplete, ActiveIsKept, Readable, MaybeCollection
<1>s. ActiveIsKept'
  BY DEF ActiveIsKept, MaybeCollection
<1>z. NamesAreDrawn'
  BY DEF NamesAreDrawn, CandidateIsPrivate
<1>t. LeasedNotReserved'
  BY DEF TypeOK, SharedTypeOK, LeasedNotReserved
<1>u. CandidateIsPrivate'
  BY DEF TypeOK, DiskTypeOK, LocalsTypeOK, ControlTypeOK, CandidateIsPrivate,
      SyncLabels, TryLabels, DeleteLabels, SearchLabels, Readable, JobsAreLocal
<1>v. PointerIsStable'
  BY DEF TypeOK, DiskTypeOK, LocalsTypeOK, ControlTypeOK, PointerIsStable,
      SyncLabels
<1>w. ReservationsAreExclusive'
  BY DEF TypeOK, LocalsTypeOK, ControlTypeOK, ReservationsAreExclusive,
      RetireLabels
<1> QED
  BY <1>a, <1>b, <1>c, <1>f, <1>g, <1>h, <1>i, <1>j, <1>r, <1>s, <1>t, <1>u, <1>v,
      <1>w, <1>z DEF TypeOK

(* The query moves one thread and records its answer. *)
LEMMA QueryIInv ==
  ASSUME IInv, NEW t \in Threads,
         Query(t)
  PROVE  IInv'
<1> USE Naming DEF IInv, Query, Ends, disk, shared, leases, locals, listing, retiring
<1>a. /\ DiskTypeOK' /\ SharedTypeOK' /\ ActiveComplete' /\ ActiveIsKept'
      /\ LeasedNotReserved' /\ ReadersCounted'
  BY QuietStep
<1>c. LocalsTypeOK'
  BY DEF TypeOK, LocalsTypeOK, DiskTypeOK, SharedTypeOK, ControlTypeOK
<1>d. pc' \in [Threads -> Labels]
  BY DEF TypeOK, LocalsTypeOK, ControlTypeOK, Labels, DeleteLabels,
      SearchLabels
<1>e. outcome' \in [Threads -> Outcomes]
  BY DEF TypeOK, ControlTypeOK, Outcomes
<1>f. ControlTypeOK'
  BY <1>d, <1>e DEF TypeOK, ControlTypeOK, DiskTypeOK, SharedTypeOK,
      MaybeCollection, Generation, LeasesAreLocal
<1>g. LeasesAreLocal'
  BY DEF TypeOK, ControlTypeOK, LocalsTypeOK, DiskTypeOK, SharedTypeOK,
      LeasesAreLocal, SearchLabels, RetireLabels, MaybeCollection
<1>i. OneMutatorPerNamespace'
  BY DEF OneMutatorPerNamespace, Guarded
<1>j. JobsAreLocal'
  BY DEF TypeOK, DiskTypeOK, LocalsTypeOK, ControlTypeOK, JobsAreLocal,
      GuardedLabels, SyncLabels, TryLabels, DeleteLabels, SearchLabels, RetireLabels,
      ActiveComplete
<1>z. NamesAreDrawn'
  BY DEF NamesAreDrawn, CandidateIsPrivate
<1>u. CandidateIsPrivate'
  BY DEF TypeOK, DiskTypeOK, LocalsTypeOK, ControlTypeOK, CandidateIsPrivate,
      SyncLabels, TryLabels, DeleteLabels, SearchLabels, Readable, JobsAreLocal
<1>v. PointerIsStable'
  BY DEF TypeOK, DiskTypeOK, LocalsTypeOK, ControlTypeOK, PointerIsStable,
      SyncLabels
<1>w. ReservationsAreExclusive'
  BY DEF TypeOK, LocalsTypeOK, ControlTypeOK, ReservationsAreExclusive,
      RetireLabels
<1> QED
  BY <1>a, <1>c, <1>f, <1>g, <1>i, <1>j, <1>u, <1>v, <1>w, <1>z DEF TypeOK

(* The lease of store.search is returned, and may have been the last. *)
LEMMA UnleaseIInv ==
  ASSUME IInv, NEW t \in Threads,
         Unlease(t)
  PROVE  IInv'
<1> USE Naming DEF IInv, Unlease, Release, Reserve, Goto, disk, shared, leases, locals,
      listing, retiring
<1>k. lease[t] \in Collections
  BY DEF TypeOK, ControlTypeOK, MaybeCollection, LeasesAreLocal
<1>l. \A d \in Collections : Cardinality(Leases(d)) \in Nat /\ Cardinality(Pins(d)) \in Nat
  BY HoldersFinite DEF TypeOK, ControlTypeOK, Leases, Pins
<1>m. \A d \in Collections :
         Cardinality(Leases(d)) = IF d = lease[t] THEN Cardinality(Leases(d)') + 1
                                            ELSE Cardinality(Leases(d)')
  BY <1>k, RemoveHolder DEF TypeOK, ControlTypeOK, Leases
<1>n. \A d \in Collections : Cardinality(Leases(d)') \in Nat /\ Pins(d)' = Pins(d)
  <2>1. lease' \in [Threads -> MaybeCollection]
    BY <1>k DEF TypeOK, ControlTypeOK, MaybeCollection
  <2> QED
    BY <2>1, HoldersFinite DEF Leases, Pins
<1>p. readers[lease[t]] > 0
  BY <1>k, <1>l, <1>m, <1>n DEF ReadersCounted
<1>q. \A d \in Collections :
         readers'[d] = IF d = lease[t] THEN readers[d] - 1 ELSE readers[d]
  BY <1>k DEF TypeOK, SharedTypeOK
<1>a. DiskTypeOK'
  BY DEF TypeOK, DiskTypeOK
<1>b. SharedTypeOK'
  BY <1>k, <1>p DEF TypeOK, SharedTypeOK
<1>c. LocalsTypeOK'
  BY <1>k DEF TypeOK, LocalsTypeOK, MaybeCollection
<1>d. pc' \in [Threads -> Labels]
  BY DEF TypeOK, LocalsTypeOK, ControlTypeOK, Labels, DeleteLabels,
      SearchLabels, RetireLabels
<1>e. outcome' \in [Threads -> Outcomes]
  BY DEF TypeOK, ControlTypeOK, Outcomes
<1>f. ControlTypeOK'
  BY <1>d, <1>e DEF TypeOK, ControlTypeOK, DiskTypeOK, SharedTypeOK,
      MaybeCollection, Generation
<1>g. LeasesAreLocal'
  BY DEF TypeOK, ControlTypeOK, LocalsTypeOK, DiskTypeOK, SharedTypeOK,
      LeasesAreLocal, SearchLabels, RetireLabels, MaybeCollection
<1>h. ReadersCounted'
  BY <1>l, <1>m, <1>n, <1>q DEF ReadersCounted
<1>i. OneMutatorPerNamespace'
  BY DEF OneMutatorPerNamespace, Guarded
<1>j. JobsAreLocal'
  BY DEF TypeOK, DiskTypeOK, LocalsTypeOK, ControlTypeOK, JobsAreLocal,
      GuardedLabels, SyncLabels, TryLabels, DeleteLabels, SearchLabels, RetireLabels,
      ActiveComplete, LeasesAreLocal, MaybeCollection
<1>r. ActiveComplete'
  BY DEF ActiveComplete, ActiveIsKept, Readable, MaybeCollection
<1>s. ActiveIsKept'
  BY DEF ActiveIsKept, MaybeCollection
<1>z. NamesAreDrawn'
  BY DEF NamesAreDrawn, CandidateIsPrivate
<1>t. LeasedNotReserved'
  BY DEF TypeOK, SharedTypeOK, LeasedNotReserved
<1>u. CandidateIsPrivate'
  BY DEF TypeOK, DiskTypeOK, LocalsTypeOK, ControlTypeOK, CandidateIsPrivate,
      SyncLabels, TryLabels, DeleteLabels, SearchLabels, Readable, JobsAreLocal
<1>v. PointerIsStable'
  BY DEF TypeOK, DiskTypeOK, LocalsTypeOK, ControlTypeOK, PointerIsStable,
      SyncLabels
<1>w. ReservationsAreExclusive'
  BY DEF TypeOK, LocalsTypeOK, ControlTypeOK, ReservationsAreExclusive,
      RetireLabels, DeleteLabels
<1> QED
  BY <1>a, <1>b, <1>c, <1>f, <1>g, <1>h, <1>i, <1>j, <1>r, <1>s, <1>t, <1>u, <1>v,
      <1>w, <1>z DEF TypeOK

(* The pin of acquire_active is returned, and may have been the last. *)
LEMMA UnpinIInv ==
  ASSUME IInv, NEW t \in Threads,
         Unpin(t)
  PROVE  IInv'
<1> USE Naming DEF IInv, Unpin, Release, Reserve, Goto, disk, shared, leases, locals,
      listing, retiring
<1>k. pin[t] \in Collections
  BY DEF TypeOK, ControlTypeOK, MaybeCollection, LeasesAreLocal
<1>l. \A d \in Collections : Cardinality(Pins(d)) \in Nat /\ Cardinality(Leases(d)) \in Nat
  BY HoldersFinite DEF TypeOK, ControlTypeOK, Pins, Leases
<1>m. \A d \in Collections :
         Cardinality(Pins(d)) = IF d = pin[t] THEN Cardinality(Pins(d)') + 1
                                            ELSE Cardinality(Pins(d)')
  BY <1>k, RemoveHolder DEF TypeOK, ControlTypeOK, Pins
<1>n. \A d \in Collections : Cardinality(Pins(d)') \in Nat /\ Leases(d)' = Leases(d)
  <2>1. pin' \in [Threads -> MaybeCollection]
    BY <1>k DEF TypeOK, ControlTypeOK, MaybeCollection
  <2> QED
    BY <2>1, HoldersFinite DEF Pins, Leases
<1>p. readers[pin[t]] > 0
  BY <1>k, <1>l, <1>m, <1>n DEF ReadersCounted
<1>q. \A d \in Collections :
         readers'[d] = IF d = pin[t] THEN readers[d] - 1 ELSE readers[d]
  BY <1>k DEF TypeOK, SharedTypeOK
<1>a. DiskTypeOK'
  BY DEF TypeOK, DiskTypeOK
<1>b. SharedTypeOK'
  BY <1>k, <1>p DEF TypeOK, SharedTypeOK
<1>c. LocalsTypeOK'
  BY <1>k DEF TypeOK, LocalsTypeOK, MaybeCollection
<1>d. pc' \in [Threads -> Labels]
  BY DEF TypeOK, LocalsTypeOK, ControlTypeOK, Labels, RetireLabels
<1>e. outcome' \in [Threads -> Outcomes]
  BY DEF TypeOK, ControlTypeOK, Outcomes
<1>f. ControlTypeOK'
  BY <1>d, <1>e DEF TypeOK, ControlTypeOK, DiskTypeOK, LeasesAreLocal
<1>g. LeasesAreLocal'
  BY DEF TypeOK, ControlTypeOK, LocalsTypeOK, DiskTypeOK, SharedTypeOK,
      LeasesAreLocal, SearchLabels, RetireLabels, MaybeCollection
<1>h. ReadersCounted'
  BY <1>l, <1>m, <1>n, <1>q DEF ReadersCounted
<1>i. OneMutatorPerNamespace'
  BY DEF OneMutatorPerNamespace, Guarded
<1>j. JobsAreLocal'
  BY DEF TypeOK, DiskTypeOK, LocalsTypeOK, ControlTypeOK, JobsAreLocal,
      GuardedLabels, SyncLabels, TryLabels, DeleteLabels, SearchLabels, RetireLabels,
      ActiveComplete, LeasesAreLocal, MaybeCollection
<1>r. ActiveComplete'
  BY DEF ActiveComplete, ActiveIsKept, Readable, MaybeCollection
<1>s. ActiveIsKept'
  BY DEF ActiveIsKept, MaybeCollection
<1>z. NamesAreDrawn'
  BY DEF NamesAreDrawn, CandidateIsPrivate
<1>t. LeasedNotReserved'
  BY DEF TypeOK, SharedTypeOK, LeasedNotReserved
<1>u. CandidateIsPrivate'
  BY DEF TypeOK, DiskTypeOK, LocalsTypeOK, ControlTypeOK, CandidateIsPrivate,
      SyncLabels, TryLabels, DeleteLabels, SearchLabels, Readable, JobsAreLocal
<1>v. PointerIsStable'
  BY DEF TypeOK, DiskTypeOK, LocalsTypeOK, ControlTypeOK, PointerIsStable,
      SyncLabels
<1>w. ReservationsAreExclusive'
  BY DEF TypeOK, LocalsTypeOK, ControlTypeOK, ReservationsAreExclusive,
      RetireLabels, DeleteLabels
<1> QED
  BY <1>a, <1>b, <1>c, <1>f, <1>g, <1>h, <1>i, <1>j, <1>r, <1>s, <1>t, <1>u, <1>v,
      <1>w, <1>z DEF TypeOK

(* The collections listed belong to the guarded namespace. *)
LEMMA ListCollectionsIInv ==
  ASSUME IInv, NEW t \in Threads,
         ListCollections(t)
  PROVE  IInv'
<1> USE Naming DEF IInv, ListCollections, Goto, Ends, disk, shared, leases, locals,
      listing, retiring
<1>a. /\ DiskTypeOK' /\ SharedTypeOK' /\ ActiveComplete' /\ ActiveIsKept'
      /\ LeasedNotReserved' /\ ReadersCounted'
  BY QuietStep
<1>c. LocalsTypeOK'
  <2>1. {c \in catalog : NamespaceOf(c) = ns[t]} \in SUBSET Collections
    BY DEF TypeOK, DiskTypeOK
  <2> QED
    BY <2>1 DEF TypeOK, LocalsTypeOK
<1>d. pc' \in [Threads -> Labels]
  BY DEF TypeOK, LocalsTypeOK, ControlTypeOK, Labels, DeleteLabels,
      SearchLabels
<1>e. outcome' \in [Threads -> Outcomes]
  BY DEF TypeOK, ControlTypeOK, Outcomes
<1>f. ControlTypeOK'
  BY <1>d, <1>e DEF TypeOK, ControlTypeOK, DiskTypeOK
<1>g. LeasesAreLocal'
  BY DEF TypeOK, ControlTypeOK, LocalsTypeOK, DiskTypeOK, SharedTypeOK,
      LeasesAreLocal, SearchLabels, RetireLabels, MaybeCollection
<1>i. OneMutatorPerNamespace'
  BY DEF OneMutatorPerNamespace, Guarded
<1>j. JobsAreLocal'
  BY DEF TypeOK, DiskTypeOK, LocalsTypeOK, ControlTypeOK, JobsAreLocal,
      GuardedLabels, SyncLabels, TryLabels, DeleteLabels, SearchLabels, RetireLabels,
      ActiveComplete
<1>z. NamesAreDrawn'
  BY DEF TypeOK, DiskTypeOK, LocalsTypeOK, ControlTypeOK, NamesAreDrawn,
      CandidateIsPrivate
<1>u. CandidateIsPrivate'
  BY DEF TypeOK, DiskTypeOK, LocalsTypeOK, ControlTypeOK, CandidateIsPrivate,
      SyncLabels, TryLabels, DeleteLabels, SearchLabels, Readable, JobsAreLocal
<1>v. PointerIsStable'
  BY DEF TypeOK, DiskTypeOK, LocalsTypeOK, ControlTypeOK, PointerIsStable,
      SyncLabels
<1>w. ReservationsAreExclusive'
  BY DEF TypeOK, LocalsTypeOK, ControlTypeOK, ReservationsAreExclusive,
      RetireLabels, DeleteLabels
<1> QED
  BY <1>a, <1>c, <1>f, <1>g, <1>i, <1>j, <1>u, <1>v, <1>w, <1>z DEF TypeOK

(* Checking a listed collection moves one thread and nothing else. *)
LEMMA CheckCollectionIInv ==
  ASSUME IInv, NEW t \in Threads,
         CheckCollection(t)
  PROVE  IInv'
<1> USE Naming DEF IInv, CheckCollection, Goto, Ends, disk, shared, leases, locals,
      listing, retiring
<1>a. /\ DiskTypeOK' /\ SharedTypeOK' /\ ActiveComplete' /\ ActiveIsKept'
      /\ LeasedNotReserved' /\ ReadersCounted'
  BY QuietStep
<1>c. LocalsTypeOK'
  BY DEF TypeOK, LocalsTypeOK, DiskTypeOK, SharedTypeOK, ControlTypeOK
<1>d. pc' \in [Threads -> Labels]
  BY DEF TypeOK, LocalsTypeOK, ControlTypeOK, Labels, SyncLabels, TryLabels
<1>e. outcome' \in [Threads -> Outcomes]
  BY DEF TypeOK, ControlTypeOK, Outcomes
<1>f. ControlTypeOK'
  BY <1>d, <1>e DEF TypeOK, ControlTypeOK, DiskTypeOK
<1>g. LeasesAreLocal'
  BY DEF TypeOK, ControlTypeOK, LocalsTypeOK, DiskTypeOK, SharedTypeOK,
      LeasesAreLocal, SearchLabels, RetireLabels, MaybeCollection
<1>i. OneMutatorPerNamespace'
  BY DEF OneMutatorPerNamespace, Guarded
<1>j. JobsAreLocal'
  BY DEF TypeOK, DiskTypeOK, LocalsTypeOK, ControlTypeOK, JobsAreLocal,
      GuardedLabels, SyncLabels, TryLabels, DeleteLabels, SearchLabels, RetireLabels,
      ActiveComplete
<1>z. NamesAreDrawn'
  BY DEF NamesAreDrawn, CandidateIsPrivate
<1>u. CandidateIsPrivate'
  BY DEF TypeOK, DiskTypeOK, LocalsTypeOK, ControlTypeOK, CandidateIsPrivate,
      SyncLabels, TryLabels, DeleteLabels, SearchLabels, Readable, JobsAreLocal
<1>v. PointerIsStable'
  BY DEF TypeOK, DiskTypeOK, LocalsTypeOK, ControlTypeOK, PointerIsStable,
      SyncLabels
<1>w. ReservationsAreExclusive'
  BY DEF TypeOK, LocalsTypeOK, ControlTypeOK, ReservationsAreExclusive,
      RetireLabels, DeleteLabels
<1> QED
  BY <1>a, <1>c, <1>f, <1>g, <1>i, <1>j, <1>u, <1>v, <1>w, <1>z DEF TypeOK

(* The pointer read before is still the one to remove. *)
LEMMA CheckedIInv ==
  ASSUME IInv, NEW t \in Threads,
         Checked(t)
  PROVE  IInv'
<1> USE Naming DEF IInv, Checked, Goto, Ends, disk, shared, leases, locals, listing,
      retiring
<1>a. /\ DiskTypeOK' /\ SharedTypeOK' /\ ActiveComplete' /\ ActiveIsKept'
      /\ LeasedNotReserved' /\ ReadersCounted'
  BY QuietStep
<1>c. LocalsTypeOK'
  BY DEF TypeOK, LocalsTypeOK, DiskTypeOK, SharedTypeOK, ControlTypeOK
<1>d. pc' \in [Threads -> Labels]
  BY DEF TypeOK, LocalsTypeOK, ControlTypeOK, Labels, DeleteLabels,
      SearchLabels
<1>e. outcome' \in [Threads -> Outcomes]
  BY DEF TypeOK, ControlTypeOK, Outcomes
<1>f. ControlTypeOK'
  BY <1>d, <1>e DEF TypeOK, ControlTypeOK, DiskTypeOK
<1>g. LeasesAreLocal'
  BY SMTT(60) DEF TypeOK, ControlTypeOK, LocalsTypeOK, DiskTypeOK, SharedTypeOK,
      LeasesAreLocal, SyncLabels, TryLabels, DeleteLabels, SearchLabels, RetireLabels,
      MaybeCollection, JobsAreLocal
<1>i. OneMutatorPerNamespace'
  BY DEF OneMutatorPerNamespace, Guarded
<1>j. JobsAreLocal'
  BY DEF TypeOK, DiskTypeOK, LocalsTypeOK, ControlTypeOK, JobsAreLocal,
      GuardedLabels, SyncLabels, TryLabels, DeleteLabels, SearchLabels, RetireLabels,
      ActiveComplete
<1>z. NamesAreDrawn'
  BY DEF NamesAreDrawn, CandidateIsPrivate
<1>u. CandidateIsPrivate'
  BY DEF TypeOK, DiskTypeOK, LocalsTypeOK, ControlTypeOK, CandidateIsPrivate,
      SyncLabels, TryLabels, DeleteLabels, SearchLabels, Readable, JobsAreLocal
<1>v. PointerIsStable'
  BY DEF TypeOK, DiskTypeOK, LocalsTypeOK, ControlTypeOK, PointerIsStable,
      SyncLabels
<1>w. ReservationsAreExclusive'
  BY DEF TypeOK, LocalsTypeOK, ControlTypeOK, ReservationsAreExclusive,
      RetireLabels, DeleteLabels
<1> QED
  BY <1>a, <1>c, <1>f, <1>g, <1>i, <1>j, <1>u, <1>v, <1>w, <1>z DEF TypeOK

(* With the pointer gone, every listed collection can be reserved. *)
LEMMA RemovePointerIInv ==
  ASSUME IInv, NEW t \in Threads,
         RemovePointer(t)
  PROVE  IInv'
<1> USE Naming DEF IInv, RemovePointer, Goto, Ends, disk, shared, leases, locals,
      listing, retiring
<1>a. DiskTypeOK'
  BY DEF TypeOK, DiskTypeOK, LocalsTypeOK, ControlTypeOK, MaybeCollection
<1>b. SharedTypeOK'
  BY DEF TypeOK, SharedTypeOK, DiskTypeOK, LocalsTypeOK, ControlTypeOK,
      MaybeCollection
<1>c. LocalsTypeOK'
  BY SMTT(60) DEF TypeOK, LocalsTypeOK, DiskTypeOK, SharedTypeOK, ControlTypeOK,
      MaybeCollection, JobsAreLocal, GuardedLabels, SyncLabels, TryLabels,
      DeleteLabels, SearchLabels, RetireLabels
<1>d. pc' \in [Threads -> Labels]
  BY DEF TypeOK, LocalsTypeOK, ControlTypeOK, Labels, DeleteLabels,
      SearchLabels
<1>e. outcome' \in [Threads -> Outcomes]
  BY DEF TypeOK, ControlTypeOK, Outcomes
<1>f. ControlTypeOK'
  BY <1>d, <1>e DEF TypeOK, ControlTypeOK, DiskTypeOK
<1>g. LeasesAreLocal'
  BY DEF TypeOK, ControlTypeOK, LocalsTypeOK, DiskTypeOK, SharedTypeOK,
      LeasesAreLocal, SearchLabels, RetireLabels, MaybeCollection
<1>h. ReadersCounted'
  BY DEF ReadersCounted, Pins, Leases
<1>i. OneMutatorPerNamespace'
  BY DEF OneMutatorPerNamespace, Guarded
<1>j. JobsAreLocal'
  BY DEF TypeOK, DiskTypeOK, LocalsTypeOK, ControlTypeOK, JobsAreLocal,
      GuardedLabels, SyncLabels, TryLabels, DeleteLabels, SearchLabels, RetireLabels,
      ActiveComplete
<1>r. ActiveComplete'
  BY DEF TypeOK, DiskTypeOK, LocalsTypeOK, RetireLabels, UncommittedLabels,
      ActiveComplete, ActiveIsKept, Readable, MaybeCollection
<1>s. ActiveIsKept'
  BY DEF TypeOK, DiskTypeOK, JobsAreLocal, CandidateIsPrivate,
      PointerIsStable, ReservationsAreExclusive, UncommittedLabels, ActiveComplete,
      ActiveIsKept, MaybeCollection
<1>z. NamesAreDrawn'
  BY DEF TypeOK, DiskTypeOK, NamesAreDrawn, CandidateIsPrivate
<1>t. LeasedNotReserved'
  BY DEF LeasedNotReserved
<1>u. CandidateIsPrivate'
  BY DEF TypeOK, DiskTypeOK, LocalsTypeOK, ControlTypeOK, CandidateIsPrivate,
      SyncLabels, TryLabels, DeleteLabels, Readable, JobsAreLocal,
      OneMutatorPerNamespace, Guarded
<1>v. PointerIsStable'
  BY DEF TypeOK, DiskTypeOK, LocalsTypeOK, ControlTypeOK, PointerIsStable,
      SyncLabels, TryLabels, DeleteLabels, GuardedLabels, UncommittedLabels,
      JobsAreLocal, OneMutatorPerNamespace, Guarded
<1>w. ReservationsAreExclusive'
  BY DEF TypeOK, LocalsTypeOK, ControlTypeOK, ReservationsAreExclusive,
      RetireLabels, DeleteLabels
<1> QED
  BY <1>a, <1>b, <1>c, <1>f, <1>g, <1>h, <1>i, <1>j, <1>r, <1>s, <1>t, <1>u, <1>v,
      <1>w, <1>z DEF TypeOK

(* A listed collection is reserved, so nobody reads or publishes it. *)
LEMMA DeleteCollectionIInv ==
  ASSUME IInv, NEW t \in Threads,
         DeleteCollection(t)
  PROVE  IInv'
<1> USE Naming DEF IInv, DeleteCollection, Goto, Ends, Deletes, DeleteFails, Drop,
      disk, shared, leases, locals, listing, retiring
<1>a. DiskTypeOK'
  <2>1. UNCHANGED <<catalog, coll>> \/ \E c \in todo[t] : Drop(c)
    BY DEF Drop
  <2> QED
    BY <2>1, DropType DEF TypeOK, DiskTypeOK
<1>b. SharedTypeOK'
  BY DEF TypeOK, SharedTypeOK, DiskTypeOK
<1>c. LocalsTypeOK'
  BY DEF TypeOK, LocalsTypeOK, DiskTypeOK, SharedTypeOK, ControlTypeOK
<1>d. pc' \in [Threads -> Labels]
  BY DEF TypeOK, LocalsTypeOK, ControlTypeOK
<1>e. outcome' \in [Threads -> Outcomes]
  BY DEF TypeOK, ControlTypeOK, Outcomes
<1>f. ControlTypeOK'
  BY <1>d, <1>e DEF TypeOK, ControlTypeOK, DiskTypeOK
<1>g. LeasesAreLocal'
  BY DEF TypeOK, ControlTypeOK, SharedTypeOK, LeasesAreLocal
<1>h. ReadersCounted'
  BY DEF ReadersCounted, Pins, Leases
<1>i. OneMutatorPerNamespace'
  BY DEF OneMutatorPerNamespace, Guarded
<1>j. JobsAreLocal'
  BY DEF TypeOK, DiskTypeOK, LocalsTypeOK, ControlTypeOK, JobsAreLocal
<1>r. ActiveComplete'
  BY DEF TypeOK, DiskTypeOK, JobsAreLocal, CandidateIsPrivate,
      PointerIsStable, ReservationsAreExclusive, UncommittedLabels, ActiveComplete,
      ActiveIsKept, Readable
<1>s. ActiveIsKept'
  BY DEF ActiveIsKept, MaybeCollection
<1>z. NamesAreDrawn'
  BY DEF NamesAreDrawn, CandidateIsPrivate
<1>t. LeasedNotReserved'
  BY DEF LeasedNotReserved
<1>u. CandidateIsPrivate'
  BY DEF TypeOK, DiskTypeOK, LocalsTypeOK, ControlTypeOK, CandidateIsPrivate,
      SyncLabels, TryLabels, DeleteLabels, Readable, JobsAreLocal,
      OneMutatorPerNamespace, Guarded
<1>v. PointerIsStable'
  BY DEF TypeOK, DiskTypeOK, LocalsTypeOK, ControlTypeOK, PointerIsStable,
      SyncLabels
<1>w. ReservationsAreExclusive'
  BY DEF TypeOK, LocalsTypeOK, ControlTypeOK, ReservationsAreExclusive
<1> QED
  BY <1>a, <1>b, <1>c, <1>f, <1>g, <1>h, <1>i, <1>j, <1>r, <1>s, <1>t, <1>u, <1>v,
      <1>w, <1>z DEF TypeOK

(* The reservations of the listing end with it. *)
LEMMA UnreserveIInv ==
  ASSUME IInv, NEW t \in Threads,
         Unreserve(t)
  PROVE  IInv'
<1> USE Naming DEF IInv, Unreserve, Goto, disk, shared, leases, locals, listing,
      retiring
<1>a. DiskTypeOK'
  BY DEF TypeOK, DiskTypeOK
<1>b. SharedTypeOK'
  BY DEF TypeOK, SharedTypeOK, DiskTypeOK
<1>c. LocalsTypeOK'
  BY DEF TypeOK, LocalsTypeOK, DiskTypeOK, SharedTypeOK, ControlTypeOK
<1>d. pc' \in [Threads -> Labels]
  BY DEF TypeOK, LocalsTypeOK, ControlTypeOK, Labels, SyncLabels, TryLabels
<1>e. outcome' \in [Threads -> Outcomes]
  BY DEF TypeOK, ControlTypeOK, Outcomes
<1>f. ControlTypeOK'
  BY <1>d, <1>e DEF TypeOK, ControlTypeOK, DiskTypeOK
<1>g. LeasesAreLocal'
  BY DEF LeasesAreLocal, SyncLabels, TryLabels, DeleteLabels, SearchLabels,
      RetireLabels
<1>h. ReadersCounted'
  BY DEF ReadersCounted, Pins, Leases
<1>i. OneMutatorPerNamespace'
  BY DEF OneMutatorPerNamespace, Guarded
<1>j. JobsAreLocal'
  BY DEF ControlTypeOK, JobsAreLocal, GuardedLabels, SyncLabels, TryLabels,
      DeleteLabels, SearchLabels, RetireLabels
<1>r. ActiveComplete'
  BY DEF ActiveComplete, ActiveIsKept, Readable, MaybeCollection
<1>s. ActiveIsKept'
  BY DEF ActiveIsKept, MaybeCollection
<1>z. NamesAreDrawn'
  BY DEF NamesAreDrawn, CandidateIsPrivate
<1>t. LeasedNotReserved'
  BY DEF LeasedNotReserved
<1>u. CandidateIsPrivate'
  BY DEF ControlTypeOK, CandidateIsPrivate, SyncLabels, TryLabels,
      GuardedLabels, Readable
<1>v. PointerIsStable'
  BY DEF TypeOK, DiskTypeOK, LocalsTypeOK, ControlTypeOK, PointerIsStable,
      SyncLabels
<1>w. ReservationsAreExclusive'
  BY DEF TypeOK, LocalsTypeOK, ControlTypeOK, ReservationsAreExclusive,
      RetireLabels, DeleteLabels, GuardedLabels, JobsAreLocal, OneMutatorPerNamespace,
      Guarded
<1> QED
  BY <1>a, <1>b, <1>c, <1>f, <1>g, <1>h, <1>i, <1>j, <1>r, <1>s, <1>t, <1>u, <1>v,
      <1>w, <1>z DEF TypeOK

(* What an interrupted operation leaves behind is what a failed one may. *)
LEMMA InterruptIInv ==
  ASSUME IInv, NEW t \in Threads,
         Interrupt(t)
  PROVE  IInv'
<1> USE Naming DEF IInv, Interrupt, InterruptedAt, Ends, disk, shared, leases, retiring
<1>a. /\ DiskTypeOK' /\ SharedTypeOK' /\ ActiveComplete' /\ ActiveIsKept'
      /\ LeasedNotReserved' /\ ReadersCounted'
  BY QuietStep
<1>c. LocalsTypeOK'
  BY DEF TypeOK, LocalsTypeOK
<1>d. pc' \in [Threads -> Labels]
  BY DEF TypeOK, ControlTypeOK, Labels, DeleteLabels, SearchLabels, RetireLabels
<1>e. outcome' \in [Threads -> Outcomes]
  BY DEF TypeOK, ControlTypeOK, Outcomes
<1>f. ControlTypeOK'
  BY <1>d, <1>e DEF TypeOK, ControlTypeOK
<1>g. LeasesAreLocal'
  BY DEF TypeOK, ControlTypeOK, LeasesAreLocal, SyncLabels, TryLabels, DeleteLabels,
      SearchLabels, RetireLabels
<1>i. OneMutatorPerNamespace'
  BY DEF OneMutatorPerNamespace, Guarded
<1>j. JobsAreLocal'
  BY DEF TypeOK, LocalsTypeOK, ControlTypeOK, JobsAreLocal, GuardedLabels, SyncLabels,
      TryLabels, DeleteLabels, SearchLabels, RetireLabels
<1>z. NamesAreDrawn'
  BY DEF NamesAreDrawn
<1>u. CandidateIsPrivate'
  BY DEF TypeOK, ControlTypeOK, CandidateIsPrivate, UncommittedLabels, SyncLabels, TryLabels,
      DeleteLabels, Readable
<1>v. PointerIsStable'
  BY DEF TypeOK, ControlTypeOK, PointerIsStable, SyncLabels
<1>w. ReservationsAreExclusive'
  BY DEF TypeOK, ControlTypeOK, ReservationsAreExclusive, RetireLabels, SyncLabels, TryLabels,
      DeleteLabels
<1> QED
  BY <1>a, <1>c, <1>f, <1>g, <1>i, <1>j, <1>u, <1>v, <1>w, <1>z DEF TypeOK

(* What is on disk after a stop is what a fresh process can start from. *)
LEMMA CrashIInv == ASSUME IInv, Crash PROVE IInv'
<1> USE Naming DEF IInv, Crash, disk
<1>1. TypeOK'
  BY DEF TypeOK, DiskTypeOK, SharedTypeOK, LocalsTypeOK, ControlTypeOK, MaybeCollection,
         Labels, Outcomes
<1>2. OneMutatorPerNamespace' /\ LeasedNotReserved'
  BY DEF OneMutatorPerNamespace, Guarded, LeasedNotReserved
<1>3. JobsAreLocal' /\ LeasesAreLocal'
  BY DEF JobsAreLocal, LeasesAreLocal, GuardedLabels, SyncLabels, TryLabels, DeleteLabels,
         RetireLabels
<1>4. ReadersCounted'
  <2>1. \A c \in Collections : Pins(c)' = {} /\ Leases(c)' = {}
    BY DEF Pins, Leases
  <2>2. Cardinality({}) = 0
    BY FS_EmptySet
  <2>3. \A c \in Collections : Cardinality(Pins(c)') + Cardinality(Leases(c)') = 0
    BY ONLY <2>1, <2>2
  <2> QED
    BY <2>3 DEF ReadersCounted
<1>5. ActiveComplete' /\ ActiveIsKept' /\ NamesAreDrawn'
  BY DEF ActiveComplete, ActiveIsKept, Readable, NamesAreDrawn
<1>6. CandidateIsPrivate' /\ PointerIsStable' /\ ReservationsAreExclusive'
  BY DEF CandidateIsPrivate, TryLabels, PointerIsStable, ReservationsAreExclusive, RetireLabels
<1> QED
  BY <1>1, <1>2, <1>3, <1>4, <1>5, <1>6

(* A step that changes nothing. *)
LEMMA UnchangedIInv == ASSUME IInv, UNCHANGED vars PROVE IInv'
<1> USE DEF IInv, vars
<1>1. DiskTypeOK' /\ SharedTypeOK' /\ ActiveComplete' /\ ActiveIsKept'
      /\ LeasedNotReserved' /\ ReadersCounted'
  BY QuietStep DEF disk, shared, leases
<1>2. LocalsTypeOK' /\ ControlTypeOK'
  BY DEF TypeOK, LocalsTypeOK, ControlTypeOK
<1>3. OneMutatorPerNamespace' /\ JobsAreLocal' /\ LeasesAreLocal' /\ NamesAreDrawn'
  BY DEF NamesAreDrawn, OneMutatorPerNamespace, Guarded, JobsAreLocal, LeasesAreLocal
<1>4. CandidateIsPrivate' /\ PointerIsStable' /\ ReservationsAreExclusive'
  BY DEF CandidateIsPrivate, Readable, PointerIsStable, ReservationsAreExclusive
<1> QED
  BY <1>1, <1>2, <1>3, <1>4 DEF TypeOK

(* The name drawn is one of the guarded namespace. *)
LEMMA BeginCandidateIInv == ASSUME IInv, NEW t \in Threads, BeginCandidate(t) PROVE IInv'
<1>1. ns[t] \in Namespaces
  BY Naming DEF IInv, TypeOK, LocalsTypeOK, JobsAreLocal, GuardedLabels, SyncLabels, BeginCandidate
<1>2. PICK k \in Tokens : Create(t, <<ns[t], k>>)
  BY DEF BeginCandidate
<1> QED
  BY <1>1, <1>2, Naming, CreateIInv DEF BeginCandidate

-------------------------------------------------------------------------------
(* Every step, and the theorems *)

(* Every step of every thread, a crash included, keeps IInv. *)
LEMMA NextIInv == IInv /\ [Next]_vars => IInv'
<1> SUFFICES ASSUME IInv, [Next]_vars PROVE IInv'
  OBVIOUS
<1>1. ASSUME NEW t \in Threads, Synchronize(t) PROVE IInv'
  <2>1. CASE \E n \in Namespaces, w \in Inventories : SyncBegin(t, n, w)
    BY <2>1, TakeGuardIInv DEF SyncBegin
  <2>2. CASE \/ SyncManifest(t) \/ BeginCandidate(t) \/ Fill(t) \/ Stage(t) \/ Replace(t)
             \/ Resolve(t) \/ Cleanup(t) \/ AbortPointer(t) \/ AbortManifest(t) \/ AbortDelete(t)
    BY <2>2, SyncManifestIInv, BeginCandidateIInv, FillIInv, StageIInv, ReplaceIInv,
       ResolveIInv, CleanupIInv, AbortPointerIInv, AbortManifestIInv, AbortDeleteIInv
  <2> QED
    BY <1>1, <2>1, <2>2, InspectPointerIInv, ValidateIInv DEF Synchronize
<1>2. ASSUME NEW t \in Threads, Search(t) PROVE IInv'
  BY <1>2, SearchBeginIInv, StaleSearchIInv, OpenIInv, EmbedIInv, TakeLeaseIInv, QueryIInv,
     UnleaseIInv, UnpinIInv DEF Search
<1>3. ASSUME NEW t \in Threads, DeleteIndex(t) PROVE IInv'
  <2>1. CASE \E n \in Namespaces : DeleteBegin(t, n)
    BY <2>1, TakeGuardIInv DEF DeleteBegin
  <2> QED
    BY <1>3, <2>1, InspectPointerIInv, ListCollectionsIInv, CheckCollectionIInv, CheckedIInv,
       RemovePointerIInv, DeleteCollectionIInv, UnreserveIInv DEF DeleteIndex
<1>4. ASSUME NEW t \in Threads, Leave(t) \/ Retire(t) \/ Retired(t) \/ Interrupt(t) PROVE IInv'
  BY <1>4, LeaveIInv, RetireIInv, RetiredIInv, InterruptIInv
<1>5. CASE UNCHANGED vars
  BY <1>5, UnchangedIInv
<1> QED
  BY <1>1, <1>2, <1>3, <1>4, <1>5, CrashIInv DEF Next

(* IInv is an invariant of the store, for every value of the constants:     *)
(* the inductive strengthening from which the theorems below are drawn.    *)
THEOREM Invariance == Spec => []IInv
BY InitIInv, NextIInv, PTL DEF Spec

(* Every variable keeps its type: no reader count goes below zero, no step *)
(* of an operation is reached without the values it works on.              *)
THEOREM TypeCorrect == Spec => []TypeOK
<1>1. IInv => TypeOK
  BY DEF IInv
<1> QED
  BY <1>1, Invariance, PTL

(* The pointer of a namespace never names a collection that is missing or  *)
(* incomplete, whatever publish, abort, cleanup and delete_repository_index *)
(* do at the same time, whatever fails, and wherever the process stops.    *)
THEOREM PointerIsComplete == Spec => []ActiveComplete
<1>1. IInv => ActiveComplete
  BY DEF IInv
<1> QED
  BY <1>1, Invariance, PTL

(* A collection under a lease is not reserved for deletion: the critical   *)
(* sections of the cleanup lock decide between readers and deleters.       *)
THEOREM LeasesExcludeDeletion == Spec => []LeasedNotReserved
<1>1. IInv => LeasedNotReserved
  BY DEF IInv
<1> QED
  BY <1>1, Invariance, PTL

(* The reader counts are exact: no path out of a search leaks or returns   *)
(* a lease twice.                                                          *)
THEOREM CountsAreExact == Spec => []ReadersCounted
<1>1. IInv => ReadersCounted
  BY DEF IInv
<1> QED
  BY <1>1, Invariance, PTL

(* The guard of _concurrency.py admits one mutating operation a namespace. *)
THEOREM GuardsExclude == Spec => []OneMutatorPerNamespace
<1>1. IInv => OneMutatorPerNamespace
  BY DEF IInv
<1> QED
  BY <1>1, Invariance, PTL

(* What a thread is about to delete: a superseded collection it reserved,  *)
(* a listed one of its namespace, or its own uncommitted candidate.        *)
LEMMA DeletingIsKnown ==
  ASSUME IInv, NEW t \in Threads, NEW c \in Deleting(t)
  PROVE  \/ pc[t] = "retire" /\ c = doomed[t] /\ c \in reserved
         \/ /\ pc[t] = "delete_collections" /\ c \in names[t] /\ c \in reserved
            /\ ns[t] # None /\ NamespaceOf(c) = ns[t]
         \/ /\ pc[t] = "abort_delete" /\ c = cand[t] /\ c \notin reserved
            /\ ns[t] # None /\ NamespaceOf(c) = ns[t] /\ ptr[ns[t]] # c
<1> USE DEF Deleting
<1>1. CASE pc[t] = "retire"
  BY <1>1 DEF IInv, ReservationsAreExclusive, RetireLabels
<1>2. CASE pc[t] = "delete_collections"
  BY <1>2 DEF IInv, ReservationsAreExclusive, JobsAreLocal, GuardedLabels, DeleteLabels
<1>3. CASE pc[t] = "abort_delete"
  BY <1>3 DEF IInv, CandidateIsPrivate, PointerIsStable, JobsAreLocal, GuardedLabels, TryLabels
<1> QED
  BY <1>1, <1>2, <1>3

(* No thread is ever about to delete the collection a pointer names: not a *)
(* reader finishing late, not a failing publication, not a deletion.       *)
THEOREM ActiveIsNotDeleted == Spec => []NeverDeletesActive
<1>1. IInv => NeverDeletesActive
  <2> SUFFICES ASSUME IInv, NEW t \in Threads, NEW c \in Deleting(t), NEW n \in Namespaces,
                      ptr[n] = c
               PROVE  FALSE
    BY DEF NeverDeletesActive, Active
  <2>1. c # None
    <3>1. c \in Collections
      BY DeletingIsKnown DEF IInv, TypeOK, SharedTypeOK, LocalsTypeOK, JobsAreLocal, Deleting,
         TryLabels, MaybeCollection
    <3> QED
      BY <3>1, Naming
  <2>2. c \notin reserved /\ NamespaceOf(c) = n
    BY <2>1 DEF IInv, ActiveIsKept, ActiveComplete
  <2> QED
    BY <2>2, DeletingIsKnown
<1> QED
  BY <1>1, Invariance, PTL

(* Two threads never mean to delete the same collection: delete_collection *)
(* is called once for each, so that a failure of it is a real one.         *)
THEOREM DeletersAreApart == Spec => []OneDeleterPerCollection
<1>1. IInv => OneDeleterPerCollection
  <2> SUFFICES ASSUME IInv, NEW t \in Threads, NEW u \in Threads, t # u,
                      NEW c \in Deleting(t), c \in Deleting(u)
               PROVE  FALSE
    BY DEF OneDeleterPerCollection
  <2>1. ns[t] # None => ns[t] # ns[u]
    BY DEF IInv, OneMutatorPerNamespace, Guarded
  <2>2. pc[t] = "retire" => ~(pc[u] = "retire" /\ doomed[u] = doomed[t])
                            /\ ~(pc[u] = "delete_collections" /\ doomed[t] \in names[u])
    BY DEF IInv, ReservationsAreExclusive, RetireLabels
  <2>3. pc[u] = "retire" => ~(pc[t] = "delete_collections" /\ doomed[u] \in names[t])
    BY DEF IInv, ReservationsAreExclusive, RetireLabels
  <2> QED
    BY <2>1, <2>2, <2>3, DeletingIsKnown
<1> QED
  BY <1>1, Invariance, PTL

-------------------------------------------------------------------------------
(* Contents and outcomes: the invariant JInv of ChromaStoreInv, and that   *)
(* ChromaStore implements AtomicIndex.  A conjunct of JInv speaks of       *)
(* single threads, so that each has a lemma with two parts: what a step of *)
(* the thread itself does, and what steps of other threads leave alone     *)
(* (OthersKeep, CandidatesKept).                                           *)

-------------------------------------------------------------------------------
(* What steps leave alone *)

(* A thread changes its own locals only, and no pointer of a namespace     *)
(* somebody else has guarded.                                              *)
LEMMA OthersKeep ==
  ASSUME IInv, NEW t \in Threads, Acts(t), NEW u \in Threads, u # t
  PROVE  /\ pc'[u] = pc[u] /\ ns'[u] = ns[u] /\ want'[u] = want[u] /\ cand'[u] = cand[u]
         /\ old'[u] = old[u] /\ names'[u] = names[u] /\ todo'[u] = todo[u]
         /\ doomed'[u] = doomed[u] /\ back'[u] = back[u] /\ pin'[u] = pin[u]
         /\ lease'[u] = lease[u] /\ outcome'[u] = outcome[u]
         /\ ns[u] # None => ptr'[ns[u]] = ptr[ns[u]]
<1> DEFINE Kept ==
      /\ pc'[u] = pc[u] /\ ns'[u] = ns[u] /\ want'[u] = want[u] /\ cand'[u] = cand[u]
      /\ old'[u] = old[u] /\ names'[u] = names[u] /\ todo'[u] = todo[u]
      /\ doomed'[u] = doomed[u] /\ back'[u] = back[u] /\ pin'[u] = pin[u]
      /\ lease'[u] = lease[u] /\ outcome'[u] = outcome[u]
      /\ ns[u] # None => ptr'[ns[u]] = ptr[ns[u]]
<1>1. /\ pc \in [Threads -> Labels] /\ ns \in [Threads -> Namespaces \cup {None}]
      /\ pin \in [Threads -> MaybeCollection] /\ lease \in [Threads -> MaybeCollection]
      /\ outcome \in [Threads -> Outcomes] /\ ptr \in [Namespaces -> MaybeCollection]
      /\ want \in [Threads -> Inventories \cup {{}}]
      /\ cand \in [Threads -> MaybeCollection] /\ old \in [Threads -> MaybeCollection]
      /\ names \in [Threads -> SUBSET Collections]
      /\ todo \in [Threads -> SUBSET Collections]
      /\ doomed \in [Threads -> MaybeCollection]
      /\ back \in [Threads -> {"idle", "unpin", "leave"}]
  BY DEF IInv, TypeOK, DiskTypeOK, LocalsTypeOK, ControlTypeOK
<1>2. pc[t] \in GuardedLabels => ns[t] # None /\ ns[t] # ns[u]
  BY DEF IInv, JobsAreLocal, OneMutatorPerNamespace, Guarded
<1> USE <1>1 DEF disk, shared, leases, locals, listing, retiring, Goto, Ends
<1>3. CASE Synchronize(t)
  <2>1. CASE \E n \in Namespaces, w \in Inventories : SyncBegin(t, n, w)
    BY <2>1 DEF SyncBegin, TakeGuard
  <2>2. CASE BeginCandidate(t)
    BY <2>2 DEF BeginCandidate, Create
  <2>3. CASE Fill(t)
    BY <2>3 DEF Fill
  <2>4. CASE Replace(t)
    BY <1>2, <2>4 DEF Replace, GuardedLabels, TryLabels
  <2>5. CASE Cleanup(t)
    BY <2>5 DEF Cleanup, Reserve
  <2>6. CASE AbortDelete(t)
    BY <2>6 DEF AbortDelete
  <2>7. CASE SyncManifest(t) \/ Stage(t) \/ Resolve(t) \/ AbortPointer(t) \/ AbortManifest(t)
    BY <2>7 DEF SyncManifest, Stage, Resolve, AbortPointer, AbortManifest
  <2> QED
    BY <1>3, <2>1, <2>2, <2>3, <2>4, <2>5, <2>6, <2>7 DEF Synchronize, InspectPointer, Validate
<1>4. CASE Search(t)
  BY <1>4 DEF Search, SearchBegin, Open, Embed, TakeLease, StaleSearch, LeaseReader, Query,
     Unlease, Unpin, Release, Reserve
<1>5. CASE DeleteIndex(t)
  <2>1. CASE RemovePointer(t)
    BY <1>2, <2>1 DEF RemovePointer, GuardedLabels, DeleteLabels
  <2>2. CASE ListCollections(t) \/ CheckCollection(t) \/ Checked(t) \/ DeleteCollection(t)
             \/ Unreserve(t)
    BY <2>2 DEF ListCollections, CheckCollection, Checked, DeleteCollection, Unreserve
  <2> QED
    BY <1>5, <2>1, <2>2 DEF DeleteIndex, DeleteBegin, TakeGuard, InspectPointer
<1>6. CASE Leave(t) \/ Retire(t) \/ Retired(t) \/ Interrupt(t)
  BY <1>6 DEF Leave, Retire, Retired, Interrupt, InterruptedAt
<1> QED
  BY <1>3, <1>4, <1>5, <1>6 DEF Acts

(* A collection changes only under the thread that deletes it, or under    *)
(* the indexer that fills it.                                              *)
LEMMA ContentsChange ==
  ASSUME IInv, NEW t \in Threads, Acts(t), NEW c \in catalog
  PROVE  \/ c \in catalog' /\ coll'[c] = coll[c]
         \/ c \in Deleting(t)
         \/ pc[t] = "fill" /\ c = cand[t]
<1>1. coll \in [Collections -> Generation] /\ catalog \subseteq Collections
  BY DEF IInv, TypeOK, DiskTypeOK
<1> USE <1>1 DEF disk, shared, leases, locals, Deleting, Deletes, DeleteFails, Drop
<1>2. CASE Synchronize(t)
  <2>1. CASE BeginCandidate(t)
    BY <2>1 DEF BeginCandidate, Create, IInv, NamesAreDrawn
  <2>2. CASE Fill(t)
    BY <2>2 DEF Fill
  <2>3. CASE AbortDelete(t)
    BY <2>3 DEF AbortDelete
  <2> QED
    BY <1>2, <2>1, <2>2, <2>3 DEF Synchronize, SyncBegin, TakeGuard, InspectPointer, Validate,
       SyncManifest, Stage, Replace, Resolve, Cleanup, AbortPointer, AbortManifest
<1>3. CASE Search(t)
  BY <1>3 DEF Search, SearchBegin, Open, Embed, TakeLease, StaleSearch, LeaseReader, Query,
     Unlease, Unpin, Release
<1>4. CASE DeleteIndex(t)
  <2>1. CASE DeleteCollection(t)
    BY <2>1 DEF DeleteCollection
  <2> QED
    BY <1>4, <2>1 DEF DeleteIndex, DeleteBegin, TakeGuard, InspectPointer, ListCollections,
       CheckCollection, Checked, RemovePointer, Unreserve
<1>5. CASE Leave(t) \/ Retire(t) \/ Retired(t) \/ Interrupt(t)
  BY <1>5 DEF Leave, Retire, Retired, Interrupt
<1> QED
  BY <1>2, <1>3, <1>4, <1>5 DEF Acts

(* What a pointer names is in nobody's hands to delete or to fill. *)
LEMMA ActiveIsKeptWhole ==
  ASSUME IInv, NEW t \in Threads, Acts(t), NEW n \in Namespaces, ptr[n] # None
  PROVE  ptr[n] \in catalog /\ ptr[n] \in catalog' /\ coll'[ptr[n]] = coll[ptr[n]]
<1>1. ptr[n] \in catalog /\ NamespaceOf(ptr[n]) = n /\ ptr[n] \notin reserved
  BY DEF IInv, ActiveComplete, Readable, ActiveIsKept
<1>2. ptr[n] \notin Deleting(t)
  BY <1>1, DeletingIsKnown
<1>3. ~(pc[t] = "fill" /\ ptr[n] = cand[t])
  BY <1>1 DEF IInv, CandidateIsPrivate, TryLabels, UncommittedLabels, JobsAreLocal
<1> QED
  BY <1>1, <1>2, <1>3, ContentsChange

(* Neither is what a reader holds. *)
LEMMA LeasedIsKeptWhole ==
  ASSUME IInv, CandidateIsUnseen, NEW t \in Threads, Acts(t), NEW u \in Threads,
         NEW c \in catalog, c \in {pin[u], lease[u]}
  PROVE  c \in catalog' /\ coll'[c] = coll[c]
<1>1. c \in Collections /\ c # None
  BY Naming DEF IInv, TypeOK, DiskTypeOK
<1>2. readers[c] > 0
  <2>1. u \in Pins(c) \/ u \in Leases(c)
    BY DEF Pins, Leases
  <2>2. IsFiniteSet(Pins(c)) /\ IsFiniteSet(Leases(c))
    BY ThreadsAreFinite, FS_Subset DEF Pins, Leases
  <2>3. Cardinality(Pins(c)) \in Nat /\ Cardinality(Leases(c)) \in Nat
        /\ (Pins(c) # {} => Cardinality(Pins(c)) # 0)
        /\ (Leases(c) # {} => Cardinality(Leases(c)) # 0)
    BY <2>2, FS_CardinalityType, FS_EmptySet
  <2> QED
    BY <1>1, <2>1, <2>3 DEF IInv, ReadersCounted
<1>3. c \notin reserved
  BY <1>1, <1>2 DEF IInv, LeasedNotReserved
<1>4. ~(pc[t] = "abort_delete" /\ c = cand[t])
  BY DEF IInv, PointerIsStable, CandidateIsUnseen, TryLabels
<1>5. ~(pc[t] = "fill" /\ c = cand[t])
  BY DEF IInv, CandidateIsPrivate, CandidateIsUnseen, TryLabels, UncommittedLabels
<1>6. c \notin Deleting(t)
  BY <1>3, <1>4, DeletingIsKnown
<1> QED
  BY <1>5, <1>6, ContentsChange

(* A candidate is changed by its indexer alone. *)
LEMMA CandidatesKept ==
  ASSUME IInv, NEW t \in Threads, Acts(t), NEW u \in Threads, u # t,
         pc[u] \in TryLabels, cand[u] \in catalog
  PROVE  cand[u] \in catalog' /\ coll'[cand[u]] = coll[cand[u]]
<1> DEFINE c == cand[u]
           n == ns[u]
<1>1. n \in Namespaces /\ NamespaceOf(c) = n /\ c # None
  BY DEF IInv, TypeOK, LocalsTypeOK, JobsAreLocal, GuardedLabels
<1>2. CASE ptr[n] = c
  BY <1>1, <1>2, ActiveIsKeptWhole
<1>3. CASE ptr[n] # c
  <2>1. c \notin reserved
    BY <1>3 DEF IInv, CandidateIsPrivate
  <2>2. ns[t] # None => ns[t] # n
    BY DEF IInv, OneMutatorPerNamespace, Guarded
  <2>3. c \notin Deleting(t)
    BY <1>1, <2>1, <2>2, DeletingIsKnown
  <2>4. ~(pc[t] = "fill" /\ c = cand[t])
    BY <1>1, <2>2 DEF IInv, JobsAreLocal, GuardedLabels, TryLabels
  <2> QED
    BY <2>3, <2>4, ContentsChange
<1> QED
  BY <1>2, <1>3

(* Steps inside the try block of an indexer come from there, or are the    *)
(* creation of the candidate.                                              *)
LEMMA TryStep ==
  ASSUME IInv, NEW t \in Threads, Acts(t), pc'[t] \in TryLabels
  PROVE  /\ Synchronize(t) /\ pc[t] \in TryLabels \cup {"begin_candidate"}
         /\ ns'[t] = ns[t] /\ want'[t] = want[t] /\ UNCHANGED <<pin, lease>>
         /\ pc[t] = "begin_candidate" => BeginCandidate(t) /\ pc'[t] = "fill"
         /\ pc[t] # "begin_candidate" => cand'[t] = cand[t]
         /\ pc[t] # "replace" => UNCHANGED <<ptr, handles>>
         /\ pc[t] = "replace" => Replace(t)
         /\ pc[t] # "abort_delete"
         /\ pc'[t] \in FilledLabels => pc[t] \in FilledLabels \cup {"fill"}
<1>1. /\ pc \in [Threads -> Labels] /\ back \in [Threads -> {"idle", "unpin", "leave"}]
      /\ cand \in [Threads -> MaybeCollection] /\ ns \in [Threads -> Namespaces \cup {None}]
  BY DEF IInv, TypeOK, LocalsTypeOK, ControlTypeOK
<1> USE <1>1 DEF disk, shared, leases, locals, listing, retiring, Goto, Ends, TryLabels,
       FilledLabels
<1>2. CASE Synchronize(t)
  <2>1. CASE \E n \in Namespaces, w \in Inventories : SyncBegin(t, n, w)
    BY <2>1 DEF SyncBegin, TakeGuard
  <2>2. CASE BeginCandidate(t)
    BY <1>2, <2>2 DEF BeginCandidate, Create
  <2>3. CASE SyncManifest(t)
    BY <2>3 DEF SyncManifest
  <2>4. CASE Fill(t) \/ Stage(t) \/ Replace(t) \/ Resolve(t)
    BY <1>2, <2>4 DEF Fill, Stage, Replace, Resolve
  <2>5. CASE Cleanup(t) \/ AbortPointer(t) \/ AbortManifest(t) \/ AbortDelete(t)
    BY <1>2, <2>5 DEF Cleanup, AbortPointer, AbortManifest, AbortDelete
  <2>6. CASE \/ InspectPointer(t, "sync_pointer", "begin_candidate", "sync_manifest", "leave")
             \/ InspectPointer(t, "publish_pointer", "publish_validate", "publish_manifest",
                               "abort_pointer")
    BY <1>2, <2>6 DEF InspectPointer
  <2>7. CASE \/ Validate(t, "validate", cand[t], "publish_pointer", "abort_pointer")
             \/ Validate(t, "publish_manifest", old[t], "publish_validate", "abort_pointer")
    BY <1>2, <2>7 DEF Validate
  <2>8. CASE \/ Validate(t, "publish_validate", cand[t], "stage", "abort_pointer")
             \/ Validate(t, "revalidate", cand[t], "replace", "abort_pointer")
    BY <1>2, <2>8 DEF Validate
  <2> QED
    BY <1>2, <2>1, <2>2, <2>3, <2>4, <2>5, <2>6, <2>7, <2>8 DEF Synchronize
<1>3. CASE Search(t)
  BY <1>3 DEF Search, SearchBegin, Open, Embed, TakeLease, StaleSearch, LeaseReader, Query,
     Unlease, Unpin, Release, Reserve
<1>4. CASE DeleteIndex(t)
  BY <1>4 DEF DeleteIndex, DeleteBegin, TakeGuard, InspectPointer, ListCollections,
     CheckCollection, Checked, RemovePointer, DeleteCollection, Unreserve
<1>5. CASE Leave(t) \/ Retire(t) \/ Retired(t) \/ Interrupt(t)
  BY <1>5 DEF Leave, Retire, Retired, Interrupt, InterruptedAt
<1> QED
  BY <1>2, <1>3, <1>4, <1>5 DEF Acts

(* A new candidate has a name nobody has drawn, and nothing in it. *)
LEMMA Creation ==
  ASSUME IInv, NEW t \in Threads, BeginCandidate(t), pc'[t] = "fill"
  PROVE  /\ cand'[t] \in Collections \ used
         /\ cand'[t] \in catalog'
         /\ coll'[cand'[t]] = [expected |-> Cardinality(want[t]), rows |-> {}]
<1>1. PICK k \in Tokens : Create(t, <<ns[t], k>>)
  BY DEF BeginCandidate
<1>2. <<ns[t], k>> \in Collections
  BY Naming DEF IInv, TypeOK, LocalsTypeOK, JobsAreLocal, GuardedLabels, SyncLabels, BeginCandidate
<1>3. pc \in [Threads -> Labels] /\ cand \in [Threads -> MaybeCollection]
      /\ coll \in [Collections -> Generation]
  BY DEF IInv, TypeOK, DiskTypeOK, LocalsTypeOK, ControlTypeOK
<1> QED
  BY <1>1, <1>2, <1>3 DEF Create, Goto, Ends

(* Where the collections come from that a caller or a reader holds. *)
LEMMA HoldingsCome ==
  ASSUME IInv, NEW t \in Threads, Acts(t)
  PROVE  /\ used \subseteq used'
         /\ \A c \in handles' \ handles :
              \/ pc[t] = "open" /\ c = pin[t]
              \/ pc[t] = "replace" /\ c = cand[t] /\ ptr'[ns[t]] = c
         /\ \A u \in Threads :
              /\ pin'[u] # pin[u] => pin'[u] = None \/ \E n \in Namespaces : pin'[u] = ptr[n]
              /\ lease'[u] # lease[u] => lease'[u] \in {None, pin[u]} \cup handles
<1>1. /\ pin \in [Threads -> MaybeCollection] /\ lease \in [Threads -> MaybeCollection]
      /\ ptr \in [Namespaces -> MaybeCollection]
  BY DEF IInv, TypeOK, DiskTypeOK, ControlTypeOK
<1> USE <1>1 DEF disk, shared, leases, locals
<1>2. CASE Synchronize(t)
  <2>1. CASE Replace(t)
    <3>1. ns[t] \in Namespaces /\ staged[ns[t]] = cand[t]
      BY <2>1 DEF Replace, IInv, TypeOK, LocalsTypeOK, JobsAreLocal, GuardedLabels, TryLabels,
         CandidateIsPrivate
    <3> QED
      BY <2>1, <3>1 DEF Replace
  <2> QED
    BY <1>2, <2>1 DEF Synchronize, SyncBegin, TakeGuard, InspectPointer, Validate, SyncManifest,
       BeginCandidate, Create, Fill, Stage, Resolve, Cleanup, AbortPointer, AbortManifest,
       AbortDelete
<1>3. CASE Search(t)
  <2>1. CASE Open(t)
    BY <2>1 DEF Open
  <2>2. CASE \E n \in Namespaces : SearchBegin(t, n)
    BY <2>2 DEF SearchBegin
  <2>3. CASE TakeLease(t) \/ \E c \in handles : StaleSearch(t, c)
    BY <2>3 DEF TakeLease, StaleSearch, LeaseReader
  <2> QED
    BY <1>3, <2>1, <2>2, <2>3 DEF Search, Embed, Query, Unlease, Unpin, Release
<1>4. CASE DeleteIndex(t)
  BY <1>4 DEF DeleteIndex, DeleteBegin, TakeGuard, InspectPointer, ListCollections,
     CheckCollection, Checked, RemovePointer, DeleteCollection, Unreserve
<1>5. CASE Leave(t) \/ Retire(t) \/ Retired(t) \/ Interrupt(t)
  BY <1>5 DEF Leave, Retire, Retired, Interrupt
<1> QED
  BY <1>2, <1>3, <1>4, <1>5 DEF Acts

-------------------------------------------------------------------------------
(* One lemma per conjunct of JInv *)

(* A snapshot names what was active, never what has yet to be published. *)
LEMMA CandidateStaysUnseen ==
  ASSUME IInv, CandidateIsUnseen, NEW t \in Threads, Acts(t)
  PROVE  CandidateIsUnseen'
<1>1. /\ handles' \subseteq used'
      /\ \A u \in Threads : /\ pin'[u] # None => pin'[u] \in used'
                            /\ lease'[u] # None => lease'[u] \in used'
  <2>1. \A n \in Namespaces : ptr[n] # None => ptr[n] \in used
    BY DEF IInv, NamesAreDrawn
  <2>2. pc[t] = "open" => pin[t] # None
    BY DEF IInv, LeasesAreLocal
  <2>3. pc[t] = "replace" => cand[t] \in used
    BY DEF IInv, JobsAreLocal, TryLabels
  <2> QED
    BY <2>1, <2>2, <2>3, HoldingsCome DEF CandidateIsUnseen
<1>2. ASSUME NEW u \in Threads, pc'[u] \in TryLabels, ptr'[ns'[u]] # cand'[u]
      PROVE  /\ cand'[u] \notin handles'
             /\ \A v \in Threads : pin'[v] # cand'[u] /\ lease'[v] # cand'[u]
  <2> DEFINE c == cand'[u]
  <2>1. CASE u # t
    <3>1. c = cand[u] /\ ns'[u] = ns[u] /\ pc[u] \in TryLabels
      BY <1>2, <2>1, OthersKeep
    <3>2. c # None /\ NamespaceOf(c) = ns[u] /\ ns[u] # None
      BY <3>1 DEF IInv, JobsAreLocal, GuardedLabels
    <3>3. ptr[ns[u]] # c
      BY <1>2, <2>1, <3>1, <3>2, OthersKeep
    <3>4. c \notin handles /\ \A v \in Threads : pin[v] # c /\ lease[v] # c
      BY <3>1, <3>3 DEF CandidateIsUnseen
    <3>5. \A n \in Namespaces : ptr[n] # c
      BY <3>2, <3>3 DEF IInv, ActiveComplete
    <3>6. pc[t] = "replace" => cand[t] # c
      BY <2>1, <3>2 DEF IInv, JobsAreLocal, GuardedLabels, TryLabels, OneMutatorPerNamespace, Guarded
    <3> QED
      BY <3>2, <3>4, <3>5, <3>6, HoldingsCome
  <2>2. CASE u = t /\ pc[t] = "begin_candidate"
    <3>1. c \notin used /\ c # None
      BY <1>2, <2>2, TryStep, Creation, Naming
    <3>2. UNCHANGED <<pin, lease, handles>>
      BY <1>2, <2>2, TryStep
    <3> QED
      BY <3>1, <3>2 DEF CandidateIsUnseen
  <2>3. CASE u = t /\ pc[t] # "begin_candidate"
    <3>1. /\ pc[t] \in TryLabels /\ c = cand[t] /\ ns'[t] = ns[t] /\ UNCHANGED <<pin, lease>>
      BY <1>2, <2>3, TryStep
    <3>2. handles' = handles /\ ptr[ns[t]] # c
      <4>1. CASE pc[t] = "replace"
        <5>1. Replace(t) /\ ns[t] \in Namespaces /\ staged[ns[t]] = cand[t]
              /\ ptr \in [Namespaces -> MaybeCollection]
          BY <1>2, <2>3, <4>1, TryStep DEF IInv, TypeOK, DiskTypeOK, LocalsTypeOK, JobsAreLocal,
             GuardedLabels, TryLabels, CandidateIsPrivate
        <5> QED
          BY <1>2, <2>3, <3>1, <5>1 DEF Replace
      <4>2. CASE pc[t] # "replace"
        BY <1>2, <2>3, <3>1, <4>2, TryStep
      <4> QED
        BY <4>1, <4>2
    <3> QED
      BY <2>3, <3>1, <3>2 DEF CandidateIsUnseen
  <2> QED
    BY <2>1, <2>2, <2>3
<1> QED
  BY <1>1, <1>2 DEF CandidateIsUnseen

(* The inventory stays what the indexer was called with. *)
LEMMA SyncStep ==
  ASSUME IInv, NEW t \in Threads, Acts(t), pc'[t] \in SyncLabels
  PROVE  \/ want'[t] \in Inventories
         \/ pc[t] \in SyncLabels /\ want'[t] = want[t]
<1>1. /\ pc \in [Threads -> Labels] /\ back \in [Threads -> {"idle", "unpin", "leave"}]
      /\ want \in [Threads -> Inventories \cup {{}}]
  BY DEF IInv, TypeOK, LocalsTypeOK, ControlTypeOK
<1> USE <1>1 DEF locals, Goto, Ends, SyncLabels
<1>2. CASE Synchronize(t)
  <2>1. CASE \E n \in Namespaces, w \in Inventories : SyncBegin(t, n, w)
    BY <2>1 DEF SyncBegin, TakeGuard
  <2>2. CASE BeginCandidate(t) \/ Fill(t)
    BY <2>2 DEF BeginCandidate, Create, Fill
  <2> QED
    BY <1>2, <2>1, <2>2 DEF Synchronize, InspectPointer, Validate, SyncManifest, Stage, Replace,
       Resolve, Cleanup, AbortPointer, AbortManifest, AbortDelete
<1>3. CASE Search(t)
  BY <1>3 DEF Search, SearchBegin, Open, Embed, TakeLease, StaleSearch, LeaseReader, Query,
     Unlease, Unpin, Release, Reserve
<1>4. CASE DeleteIndex(t)
  BY <1>4 DEF DeleteIndex, DeleteBegin, TakeGuard, InspectPointer, ListCollections,
     CheckCollection, Checked, RemovePointer, DeleteCollection, Unreserve
<1>5. CASE Leave(t) \/ Retire(t) \/ Retired(t) \/ Interrupt(t)
  BY <1>5 DEF Leave, Retire, Retired, Interrupt, InterruptedAt
<1> QED
  BY <1>2, <1>3, <1>4, <1>5 DEF Acts

(* Batches come from the inventory, and the loop ends when it is all there. *)
LEMMA CandidateStaysWanted ==
  ASSUME IInv, CandidateIsWanted, NEW t \in Threads, Acts(t)
  PROVE  CandidateIsWanted'
<1> SUFFICES ASSUME NEW u \in Threads
             PROVE  /\ pc'[u] \in SyncLabels \cup TryLabels => want'[u] \in Inventories
                    /\ pc'[u] \in TryLabels =>
                          /\ cand'[u] \in catalog'
                          /\ coll'[cand'[u]].expected = Cardinality(want'[u])
                          /\ coll'[cand'[u]].rows \subseteq want'[u]
                    /\ pc'[u] \in FilledLabels => coll'[cand'[u]].rows = want'[u]
  BY DEF CandidateIsWanted
<1>1. FilledLabels \subseteq TryLabels
  BY DEF FilledLabels, TryLabels
<1>2. CASE u # t
  <2>1. pc'[u] = pc[u] /\ cand'[u] = cand[u] /\ want'[u] = want[u]
    BY <1>2, OthersKeep
  <2>2. pc[u] \in TryLabels =>
           cand[u] \in catalog /\ cand[u] \in catalog' /\ coll'[cand[u]] = coll[cand[u]]
    BY <1>2, CandidatesKept DEF CandidateIsWanted
  <2> QED
    BY <1>1, <2>1, <2>2 DEF CandidateIsWanted
<1>3. CASE u = t
  <2>1. pc'[t] \in SyncLabels \cup TryLabels => want'[t] \in Inventories
    BY SyncStep, TryStep DEF CandidateIsWanted, SyncLabels
  <2>2. ASSUME pc'[t] \in TryLabels
        PROVE  /\ cand'[t] \in catalog'
               /\ coll'[cand'[t]].expected = Cardinality(want'[t])
               /\ coll'[cand'[t]].rows \subseteq want'[t]
               /\ pc'[t] \in FilledLabels => coll'[cand'[t]].rows = want'[t]
    <3>1. CASE pc[t] = "begin_candidate"
      <4>1. BeginCandidate(t) /\ pc'[t] = "fill" /\ want'[t] = want[t]
        BY <2>2, <3>1, TryStep
      <4>2. cand'[t] \in catalog'
            /\ coll'[cand'[t]] = [expected |-> Cardinality(want[t]), rows |-> {}]
        BY <4>1, Creation
      <4> QED
        BY <4>1, <4>2 DEF FilledLabels
    <3>2. CASE pc[t] = "fill"
      <4>1. /\ cand'[t] = cand[t] /\ want'[t] = want[t] /\ cand[t] \in catalog
            /\ coll[cand[t]].expected = Cardinality(want[t]) /\ coll[cand[t]].rows \subseteq want[t]
        BY <2>2, <3>2, TryStep DEF CandidateIsWanted, TryLabels
      <4>2. Fill(t)
        BY <2>2, <3>2, TryStep DEF Synchronize, SyncBegin, TakeGuard, InspectPointer, SyncManifest,
           BeginCandidate, Validate, Stage, Replace, Resolve, Cleanup, AbortPointer, AbortManifest,
           AbortDelete
      <4>3. coll \in [Collections -> Generation] /\ catalog \subseteq Collections
            /\ pc \in [Threads -> Labels]
        BY DEF IInv, TypeOK, DiskTypeOK, ControlTypeOK
      <4>4. CASE pc'[t] \in FilledLabels
        <5>1. UNCHANGED <<coll, catalog>> /\ want[t] \ coll[cand[t]].rows = {}
          BY <4>2, <4>3, <4>4 DEF Fill, Goto, Ends, FilledLabels
        <5>2. coll[cand[t]].rows = want[t]
          BY <4>1, <5>1
        <5> QED
          BY <4>1, <5>1, <5>2
      <4>5. CASE pc'[t] \notin FilledLabels
        <5>1. catalog' = catalog
          BY <4>2 DEF Fill
        <5>2. coll'[cand[t]].expected = coll[cand[t]].expected
              /\ coll'[cand[t]].rows \subseteq want[t]
          <6> DEFINE c == cand[t]
          <6>1. CASE coll' = coll
            BY <4>1, <6>1
          <6>2. ASSUME NEW batch \in SUBSET (want[t] \ coll[c].rows),
                       coll' = [coll EXCEPT ![c] = [expected |-> @.expected, rows |-> @.rows \cup batch]]
                PROVE  coll'[c].expected = coll[c].expected /\ coll'[c].rows \subseteq want[t]
            BY <4>1, <4>3, <6>2
          <6> QED
            BY <4>2, <6>1, <6>2 DEF Fill
        <5> QED
          BY <4>1, <4>5, <5>1, <5>2
      <4> QED
        BY <4>4, <4>5
    <3>3. CASE pc[t] \notin {"begin_candidate", "fill"}
      <4>1. /\ pc[t] \in TryLabels /\ cand'[t] = cand[t] /\ want'[t] = want[t]
            /\ pc'[t] \in FilledLabels => pc[t] \in FilledLabels
            /\ pc[t] # "abort_delete"
        BY <2>2, <3>3, TryStep
      <4>2. cand[t] \in catalog /\ cand[t] \notin Deleting(t)
        BY <4>1 DEF CandidateIsWanted, Deleting, TryLabels
      <4>3. cand[t] \in catalog' /\ coll'[cand[t]] = coll[cand[t]]
        BY <3>3, <4>2, ContentsChange
      <4> QED
        BY <4>1, <4>3 DEF CandidateIsWanted
    <3> QED
      BY <3>1, <3>2, <3>3
  <2> QED
    BY <1>1, <1>3, <2>1, <2>2
<1> QED
  BY <1>2, <1>3

(* Where a pointer and a pin come from. *)
LEMMA PointersMove ==
  ASSUME IInv, NEW t \in Threads, Acts(t), NEW n \in Namespaces, ptr'[n] # ptr[n]
  PROVE  \/ /\ pc[t] = "replace" /\ Replace(t) /\ n = ns[t] /\ ptr'[n] = cand[t]
            /\ UNCHANGED <<catalog, coll, pin, lease>>
         \/ /\ pc[t] = "remove_pointer" /\ RemovePointer(t) /\ n = ns[t] /\ ptr'[n] = None
            /\ UNCHANGED <<catalog, coll, pin, lease>>
<1>1. ptr \in [Namespaces -> MaybeCollection]
  BY DEF IInv, TypeOK, DiskTypeOK
<1> USE <1>1 DEF disk, shared, leases, locals
<1>2. CASE Synchronize(t)
  <2>1. CASE Replace(t)
    <3>1. staged[ns[t]] = cand[t]
      BY <2>1 DEF Replace, IInv, CandidateIsPrivate, TryLabels
    <3> QED
      BY <2>1, <3>1 DEF Replace
  <2> QED
    BY <1>2, <2>1 DEF Synchronize, SyncBegin, TakeGuard, InspectPointer, Validate, SyncManifest,
       BeginCandidate, Create, Fill, Stage, Resolve, Cleanup, AbortPointer, AbortManifest,
       AbortDelete
<1>3. CASE Search(t)
  BY <1>3 DEF Search, SearchBegin, Open, Embed, TakeLease, StaleSearch, LeaseReader, Query,
     Unlease, Unpin, Release
<1>4. CASE DeleteIndex(t)
  BY <1>4 DEF DeleteIndex, DeleteBegin, TakeGuard, InspectPointer, ListCollections,
     CheckCollection, Checked, RemovePointer, DeleteCollection, Unreserve
<1>5. CASE Leave(t) \/ Retire(t) \/ Retired(t) \/ Interrupt(t)
  BY <1>5 DEF Leave, Retire, Retired, Interrupt
<1> QED
  BY <1>2, <1>3, <1>4, <1>5 DEF Acts

(* How a search comes by its pin, and by a lease while it has one. *)
LEMMA PinsMove ==
  ASSUME IInv, NEW t \in Threads, Acts(t)
  PROVE  /\ pin'[t] # pin[t] =>
              \/ pin'[t] = None
              \/ UNCHANGED <<catalog, coll, lease>> /\ \E n \in Namespaces : pin'[t] = ptr[n]
         /\ lease'[t] # lease[t] =>
              \/ lease'[t] = None
              \/ UNCHANGED pin /\ (pin[t] # None => lease'[t] = pin[t])
         /\ pin'[t] # None /\ pin'[t] # pin[t] => lease[t] = None
<1>1. pin \in [Threads -> MaybeCollection] /\ lease \in [Threads -> MaybeCollection]
  BY DEF IInv, TypeOK, ControlTypeOK
<1>2. pc[t] = "idle" => pin[t] = None /\ lease[t] = None
  BY DEF IInv, LeasesAreLocal, SearchLabels, RetireLabels
<1> USE <1>1, <1>2 DEF disk, shared, leases, locals
<1>3. CASE Synchronize(t)
  BY <1>3 DEF Synchronize, SyncBegin, TakeGuard, InspectPointer, Validate, SyncManifest,
     BeginCandidate, Create, Fill, Stage, Replace, Resolve, Cleanup, AbortPointer, AbortManifest,
     AbortDelete
<1>4. CASE Search(t)
  <2>1. CASE \E n \in Namespaces : SearchBegin(t, n)
    BY <2>1 DEF SearchBegin
  <2>2. CASE TakeLease(t) \/ \E c \in handles : StaleSearch(t, c)
    BY <2>2 DEF TakeLease, StaleSearch, LeaseReader
  <2>3. CASE Unlease(t) \/ Unpin(t)
    BY <2>3 DEF Unlease, Unpin
  <2> QED
    BY <1>4, <2>1, <2>2, <2>3 DEF Search, Open, Embed, Query
<1>5. CASE DeleteIndex(t)
  BY <1>5 DEF DeleteIndex, DeleteBegin, TakeGuard, InspectPointer, ListCollections,
     CheckCollection, Checked, RemovePointer, DeleteCollection, Unreserve
<1>6. CASE Leave(t) \/ Retire(t) \/ Retired(t) \/ Interrupt(t)
  BY <1>6 DEF Leave, Retire, Retired, Interrupt
<1> QED
  BY <1>3, <1>4, <1>5, <1>6 DEF Acts

(* Only whole inventories are published, and they do not change after that. *)
LEMMA IndexesStayInventories ==
  ASSUME IInv, JInv, NEW t \in Threads, Acts(t)
  PROVE  IndexesAreInventories'
<1> USE DEF JInv
<1>1. ASSUME NEW n \in Namespaces, ptr'[n] # None
      PROVE  coll'[ptr'[n]].rows \in Inventories
  <2>1. CASE ptr'[n] = ptr[n]
    BY <1>1, <2>1, ActiveIsKeptWhole DEF IndexesAreInventories
  <2>2. CASE ptr'[n] # ptr[n]
    <3>1. pc[t] = "replace" /\ ptr'[n] = cand[t] /\ coll' = coll
      BY <1>1, <2>2, PointersMove
    <3> QED
      BY <3>1 DEF CandidateIsWanted, TryLabels, FilledLabels
  <2> QED
    BY <2>1, <2>2
<1>2. ASSUME NEW u \in Threads, pin'[u] # None
      PROVE  /\ Readable(pin[u])'
             /\ coll'[pin'[u]].rows \in Inventories
             /\ lease'[u] # None => lease'[u] = pin'[u]
  <2>1. CASE pin'[u] = pin[u]
    <3>1. pin[u] \in catalog
      BY <1>2, <2>1 DEF IndexesAreInventories, Readable
    <3>2. pin[u] \in catalog' /\ coll'[pin[u]] = coll[pin[u]]
      BY <3>1, LeasedIsKeptWhole
    <3>3. lease'[u] # None => lease'[u] = pin'[u]
      BY <1>2, <2>1, OthersKeep, PinsMove DEF IndexesAreInventories
    <3> QED
      BY <1>2, <2>1, <3>2, <3>3 DEF IndexesAreInventories, Readable
  <2>2. CASE pin'[u] # pin[u]
    <3>1. u = t /\ UNCHANGED <<catalog, coll, lease>> /\ lease[u] = None
      BY <1>2, <2>2, OthersKeep, PinsMove
    <3>2. PICK n \in Namespaces : pin'[u] = ptr[n]
      BY <1>2, <2>2, <3>1, PinsMove
    <3> QED
      BY <1>2, <3>1, <3>2 DEF IndexesAreInventories, IInv, ActiveComplete, Readable
  <2> QED
    BY <2>1, <2>2
<1> QED
  BY <1>1, <1>2 DEF IndexesAreInventories

(* The prior collection cannot change under the guard. *)
LEMMA PriorStaysKnown ==
  ASSUME IInv, PriorIsKnown, NEW t \in Threads, Acts(t)
  PROVE  PriorIsKnown'
<1> DEFINE Prior == {"sync_manifest", "publish_manifest", "publish_validate", "stage",
                     "revalidate", "replace"}
<1> SUFFICES ASSUME NEW u \in Threads
             PROVE  /\ pc'[u] \in Prior => ptr'[ns'[u]] = old'[u]
                    /\ pc'[u] \in {"sync_manifest", "publish_manifest", "abort_manifest"} =>
                          old'[u] # None
                    /\ pc'[u] = "resolve" => ptr'[ns'[u]] \in {old'[u], cand'[u]}
  BY DEF PriorIsKnown
<1>1. CASE u # t
  BY <1>1, OthersKeep DEF PriorIsKnown, IInv, JobsAreLocal, GuardedLabels, SyncLabels, TryLabels
<1>2. CASE u = t
  <2>1. /\ pc \in [Threads -> Labels] /\ back \in [Threads -> {"idle", "unpin", "leave"}]
        /\ old \in [Threads -> MaybeCollection] /\ ptr \in [Namespaces -> MaybeCollection]
        /\ cand \in [Threads -> MaybeCollection] /\ ns \in [Threads -> Namespaces \cup {None}]
    BY DEF IInv, TypeOK, DiskTypeOK, LocalsTypeOK, ControlTypeOK
  <2> USE <1>2, <2>1 DEF disk, shared, leases, locals, listing, retiring, Goto, Ends
  <2>2. CASE Synchronize(t)
    <3>1. CASE \E n \in Namespaces, w \in Inventories : SyncBegin(t, n, w)
      BY <3>1 DEF SyncBegin, TakeGuard
    <3>2. CASE \/ InspectPointer(t, "sync_pointer", "begin_candidate", "sync_manifest", "leave")
               \/ InspectPointer(t, "publish_pointer", "publish_validate", "publish_manifest",
                                 "abort_pointer")
      BY <3>2 DEF InspectPointer
    <3>3. CASE \/ Validate(t, "validate", cand[t], "publish_pointer", "abort_pointer")
               \/ Validate(t, "publish_manifest", old[t], "publish_validate", "abort_pointer")
               \/ Validate(t, "publish_validate", cand[t], "stage", "abort_pointer")
               \/ Validate(t, "revalidate", cand[t], "replace", "abort_pointer")
      BY <3>3 DEF Validate, PriorIsKnown
    <3>4. CASE BeginCandidate(t) \/ Fill(t) \/ SyncManifest(t)
      BY <3>4 DEF BeginCandidate, Create, Fill, SyncManifest
    <3>5. CASE Stage(t)
      BY <3>5 DEF Stage, PriorIsKnown
    <3>6. CASE Replace(t)
      <4>1. staged[ns[t]] = cand[t] /\ ns[t] \in Namespaces /\ ptr[ns[t]] = old[t]
        BY <3>6 DEF Replace, IInv, TypeOK, LocalsTypeOK, JobsAreLocal, GuardedLabels, TryLabels,
           CandidateIsPrivate, PriorIsKnown
      <4> QED
        BY <3>6, <4>1 DEF Replace
    <3>7. CASE Resolve(t) \/ Cleanup(t) \/ AbortPointer(t) \/ AbortManifest(t) \/ AbortDelete(t)
      BY <3>7 DEF Resolve, Cleanup, AbortPointer, AbortManifest, AbortDelete
    <3> QED
      BY <2>2, <3>1, <3>2, <3>3, <3>4, <3>5, <3>6, <3>7 DEF Synchronize
  <2>3. CASE Search(t)
    BY <2>3 DEF Search, SearchBegin, Open, Embed, TakeLease, StaleSearch, LeaseReader, Query,
       Unlease, Unpin, Release, Reserve
  <2>4. CASE DeleteIndex(t)
    BY <2>4 DEF DeleteIndex, DeleteBegin, TakeGuard, InspectPointer, ListCollections,
       CheckCollection, Checked, RemovePointer, DeleteCollection, Unreserve
  <2>5. CASE Leave(t) \/ Retire(t) \/ Retired(t) \/ Interrupt(t)
    BY <2>5 DEF Leave, Retire, Retired, Interrupt, InterruptedAt
  <2> QED
    BY <2>2, <2>3, <2>4, <2>5 DEF Acts
<1> QED
  BY <1>1, <1>2

(* A success is decided when the pointer names the candidate, or the prior *)
(* collection holds the same rows; after that nobody else moves either.    *)
LEMMA OutcomesStayEarned ==
  ASSUME IInv, JInv, NEW t \in Threads, Acts(t)
  PROVE  OutcomesAreEarned'
<1> DEFINE Good == {"success", "unchanged"}
           Undecided == SyncLabels \cup (TryLabels \ {"cleanup"}) \cup DeleteLabels
           Published(u) == ptr'[ns'[u]] # None /\ coll'[ptr'[ns'[u]]].rows = want'[u]
<1> USE DEF JInv
<1> SUFFICES ASSUME NEW u \in Threads
             PROVE  /\ pc'[u] \in Undecided => outcome'[u] \notin Good
                    /\ Finishing(u)' /\ outcome'[u] \in Good => Published(u)
  BY DEF OutcomesAreEarned
<1>0. Finishing(u) => ns[u] \in Namespaces
  BY DEF Finishing, IInv, TypeOK, LocalsTypeOK, JobsAreLocal, GuardedLabels, TryLabels
<1>1. CASE u # t
  <2>1. /\ pc'[u] = pc[u] /\ ns'[u] = ns[u] /\ want'[u] = want[u] /\ outcome'[u] = outcome[u]
        /\ Finishing(u)' = Finishing(u) /\ (ns[u] # None => ptr'[ns[u]] = ptr[ns[u]])
    BY <1>1, OthersKeep DEF Finishing
  <2>2. ASSUME Finishing(u), outcome[u] \in Good
        PROVE  Published(u)
    BY <1>0, <2>1, <2>2, ActiveIsKeptWhole, Naming DEF OutcomesAreEarned
  <2> QED
    BY <2>1, <2>2 DEF OutcomesAreEarned
<1>2. CASE u = t
  <2>1. /\ pc \in [Threads -> Labels] /\ back \in [Threads -> {"idle", "unpin", "leave"}]
        /\ outcome \in [Threads -> Outcomes] /\ ns \in [Threads -> Namespaces \cup {None}]
    BY DEF IInv, TypeOK, LocalsTypeOK, ControlTypeOK
  <2>2. ASSUME Finishing(t), outcome'[t] = outcome[t], ns'[t] = ns[t], want'[t] = want[t],
               UNCHANGED ptr, outcome[t] \in Good
        PROVE  Published(t)
    BY <1>0, <1>2, <2>2, ActiveIsKeptWhole DEF OutcomesAreEarned
  <2>3. pc[t] \in Undecided => outcome[t] \notin Good
    BY DEF OutcomesAreEarned
  <2> USE <1>2, <2>1, <2>3 DEF disk, shared, leases, locals, listing, retiring, Goto, Ends,
          SyncLabels, TryLabels, DeleteLabels, RetireLabels, Finishing
  <2>4. CASE Synchronize(t)
    <3>1. CASE \E n \in Namespaces, w \in Inventories : SyncBegin(t, n, w)
      BY <3>1 DEF SyncBegin, TakeGuard
    <3>2. CASE SyncManifest(t)
      BY <3>2 DEF SyncManifest, PriorIsKnown
    <3>3. CASE BeginCandidate(t) \/ Fill(t) \/ Stage(t) \/ Replace(t)
      BY <3>3 DEF BeginCandidate, Create, Fill, Stage, Replace
    <3>4. CASE Resolve(t)
      <4>1. coll[cand[t]].rows = want[t] /\ cand[t] # None
        BY <3>4 DEF Resolve, CandidateIsWanted, FilledLabels, IInv, JobsAreLocal
      <4> QED
        BY <3>4, <4>1 DEF Resolve
    <3>5. CASE Cleanup(t)
      <4>1. pc[t] = "cleanup" /\ UNCHANGED <<ptr, ns, want, outcome>>
            /\ (pc'[t] = "leave" \/ pc'[t] = "retire")
        BY <3>5 DEF Cleanup, Reserve
      <4> QED
        BY <2>2, <4>1
    <3>6. CASE AbortPointer(t) \/ AbortManifest(t) \/ AbortDelete(t)
      BY <3>6 DEF AbortPointer, AbortManifest, AbortDelete
    <3> QED
      BY <2>4, <3>1, <3>2, <3>3, <3>4, <3>5, <3>6 DEF Synchronize, InspectPointer, Validate
  <2>5. CASE Search(t)
    BY <2>5 DEF Search, SearchBegin, Open, Embed, TakeLease, StaleSearch, LeaseReader, Query,
       Unlease, Unpin, Release, Reserve
  <2>6. CASE DeleteIndex(t)
    BY <2>6 DEF DeleteIndex, DeleteBegin, TakeGuard, InspectPointer, ListCollections,
       CheckCollection, Checked, RemovePointer, DeleteCollection, Unreserve
  <2>7. CASE Leave(t)
    BY <2>7 DEF Leave
  <2>8. CASE Retire(t) \/ Retired(t)
    <3>1. /\ pc[t] \in RetireLabels /\ UNCHANGED <<ptr, ns, want, outcome>>
          /\ pc'[t] \in {"retired", back[t]}
          /\ pc'[t] \in RetireLabels => back'[t] = back[t]
      BY <2>8 DEF Retire, Retired
    <3> QED
      BY <2>2, <3>1
  <2>9. CASE Interrupt(t)
    BY <2>9 DEF Interrupt, InterruptedAt
  <2> QED
    BY <2>4, <2>5, <2>6, <2>7, <2>8, <2>9 DEF Acts
<1> QED
  BY <1>1, <1>2

(* Whoever looks at a collection it may rely on finds it whole. *)
LEMMA CorruptionStaysFalse ==
  ASSUME IInv, JInv, NEW t \in Threads, Acts(t)
  PROVE  NoFalseCorruption'
<1> USE DEF JInv
<1> SUFFICES ASSUME NEW u \in Threads PROVE outcome'[u] # "corrupt"
  BY DEF NoFalseCorruption
<1>1. CASE u # t
  BY <1>1, OthersKeep DEF NoFalseCorruption
<1>2. CASE u = t
  <2>1. outcome \in [Threads -> Outcomes] /\ outcome[t] # "corrupt"
    BY DEF IInv, TypeOK, ControlTypeOK, NoFalseCorruption
  <2>2. pc[t] \in FilledLabels => Readable(cand[t])
    BY DEF CandidateIsWanted, FilledLabels, TryLabels, Readable
  <2>3. pc[t] \in {"sync_manifest", "publish_manifest"} => Readable(old[t])
    BY DEF PriorIsKnown, IInv, ActiveComplete, TypeOK, LocalsTypeOK, JobsAreLocal, GuardedLabels,
       SyncLabels, TryLabels
  <2>4. pin[t] # None => Readable(pin[t]) /\ (lease[t] # None => lease[t] = pin[t])
    BY DEF IndexesAreInventories
  <2> USE <1>2, <2>1 DEF Goto, Ends
  <2>5. CASE Synchronize(t)
    <3>1. CASE \/ Validate(t, "validate", cand[t], "publish_pointer", "abort_pointer")
               \/ Validate(t, "publish_manifest", old[t], "publish_validate", "abort_pointer")
               \/ Validate(t, "publish_validate", cand[t], "stage", "abort_pointer")
               \/ Validate(t, "revalidate", cand[t], "replace", "abort_pointer")
      BY <2>2, <2>3, <3>1 DEF Validate, FilledLabels
    <3>2. CASE SyncManifest(t)
      BY <2>3, <3>2 DEF SyncManifest
    <3>3. CASE Fill(t)
      BY <3>3 DEF Fill, CandidateIsWanted, TryLabels
    <3>4. CASE Resolve(t)
      BY <3>4 DEF Resolve, PriorIsKnown
    <3> QED
      BY <2>5, <3>1, <3>2, <3>3, <3>4 DEF Synchronize, SyncBegin, TakeGuard, InspectPointer,
         BeginCandidate, Create, Stage, Replace, Cleanup, AbortPointer, AbortManifest, AbortDelete
  <2>6. CASE Search(t)
    <3>1. CASE \E n \in Namespaces : SearchBegin(t, n)
      BY <3>1 DEF SearchBegin, IInv, ActiveIsKept
    <3>2. CASE Open(t)
      BY <2>4, <3>2 DEF Open, IInv, LeasesAreLocal
    <3>3. CASE Query(t)
      BY <2>4, <3>3 DEF Query, IInv, LeasesAreLocal
    <3> QED
      BY <2>6, <3>1, <3>2, <3>3 DEF Search, Embed, TakeLease, StaleSearch, LeaseReader, Unlease,
         Unpin, Release
  <2>7. CASE DeleteIndex(t)
    BY <2>7 DEF DeleteIndex, DeleteBegin, TakeGuard, InspectPointer, ListCollections,
       CheckCollection, Checked, RemovePointer, DeleteCollection, Unreserve
  <2>8. CASE Leave(t) \/ Retire(t) \/ Retired(t) \/ Interrupt(t)
    BY <2>8 DEF Leave, Retire, Retired, Interrupt, InterruptedAt
  <2> QED
    BY <2>5, <2>6, <2>7, <2>8 DEF Acts
<1> QED
  BY <1>1, <1>2

(* A collection is marked for later cleanup only while it has a reader, and *)
(* the last reader takes the mark away.                                    *)
LEMMA PendingStaysLeased ==
  ASSUME IInv, PendingIsLeased, NEW t \in Threads, Acts(t)
  PROVE  PendingIsLeased'
<1>1. /\ readers \in [Collections -> Nat] /\ pending \subseteq Collections
      /\ pin \in [Threads -> MaybeCollection] /\ lease \in [Threads -> MaybeCollection]
      /\ \A n \in Namespaces : ptr[n] \in MaybeCollection
      /\ handles \subseteq Collections
  BY DEF IInv, TypeOK, DiskTypeOK, SharedTypeOK, ControlTypeOK
<1>2. None \notin Collections
  BY Naming
<1> USE <1>1, <1>2 DEF shared, PendingIsLeased, MaybeCollection
<1>3. CASE Synchronize(t)
  <2>1. CASE Cleanup(t)
    BY <2>1 DEF Cleanup
  <2> QED
    BY <1>3, <2>1 DEF Synchronize, SyncBegin, TakeGuard, InspectPointer, Validate, SyncManifest,
       BeginCandidate, Create, Fill, Stage, Replace, Resolve, AbortPointer, AbortManifest,
       AbortDelete
<1>4. CASE Search(t)
  <2>1. CASE \E n \in Namespaces : SearchBegin(t, n)
    BY <2>1 DEF SearchBegin
  <2>2. CASE TakeLease(t) \/ \E c \in handles : StaleSearch(t, c)
    <3>1. pc[t] = "take_lease" => pin[t] # None
      BY DEF IInv, LeasesAreLocal
    <3> QED
      BY <2>2, <3>1 DEF TakeLease, StaleSearch, LeaseReader
  <2>3. ASSUME NEW c \in Collections, NEW rest, Release(t, c, rest)
        PROVE  PendingIsLeased'
    BY <2>3 DEF Release
  <2>4. CASE Unlease(t)
    BY <2>3, <2>4 DEF Unlease, IInv, LeasesAreLocal
  <2>5. CASE Unpin(t)
    BY <2>3, <2>5 DEF Unpin, IInv, LeasesAreLocal
  <2> QED
    BY <1>4, <2>1, <2>2, <2>4, <2>5 DEF Search, Open, Embed, Query
<1>5. CASE DeleteIndex(t)
  BY <1>5 DEF DeleteIndex, DeleteBegin, TakeGuard, InspectPointer, ListCollections,
     CheckCollection, Checked, RemovePointer, DeleteCollection, Unreserve
<1>6. CASE Leave(t) \/ Retire(t) \/ Retired(t) \/ Interrupt(t)
  BY <1>6 DEF Leave, Retire, Retired, Interrupt
<1> QED
  BY <1>3, <1>4, <1>5, <1>6 DEF Acts

(* What a step does to reservations: who makes one works on it, who works  *)
(* on one goes on or gives it back.                                        *)
LEMMA ReservationsMove ==
  ASSUME IInv, NEW t \in Threads, Acts(t), NEW c \in Collections
  PROVE  LET Owns(p, d, l) == \/ p \in RetireLabels /\ d = c
                              \/ p = "delete_collections" /\ c \in l IN
         /\ c \in reserved' /\ c \notin reserved => Owns(pc'[t], doomed'[t], names'[t])
         /\ c \in reserved' /\ Owns(pc[t], doomed[t], names[t]) =>
               Owns(pc'[t], doomed'[t], names'[t])
<1>1. /\ pc \in [Threads -> Labels] /\ back \in [Threads -> {"idle", "unpin", "leave"}]
      /\ doomed \in [Threads -> MaybeCollection]
  BY DEF IInv, TypeOK, LocalsTypeOK, ControlTypeOK
<1> USE <1>1 DEF shared, locals, listing, retiring, Goto, Ends, RetireLabels
<1>2. CASE Synchronize(t)
  <2>1. CASE Cleanup(t)
    BY <2>1 DEF Cleanup, Reserve
  <2> QED
    BY <1>2, <2>1 DEF Synchronize, SyncBegin, TakeGuard, InspectPointer, Validate, SyncManifest,
       BeginCandidate, Create, Fill, Stage, Replace, Resolve, AbortPointer, AbortManifest,
       AbortDelete
<1>3. CASE Search(t)
  <2>1. CASE Unlease(t) \/ Unpin(t)
    BY <2>1 DEF Unlease, Unpin, Release, Reserve
  <2> QED
    BY <1>3, <2>1 DEF Search, SearchBegin, Open, Embed, TakeLease, StaleSearch, LeaseReader, Query
<1>4. CASE DeleteIndex(t)
  BY <1>4 DEF DeleteIndex, DeleteBegin, TakeGuard, InspectPointer, ListCollections,
     CheckCollection, Checked, RemovePointer, DeleteCollection, Unreserve
<1>5. CASE Leave(t) \/ Interrupt(t)
  BY <1>5 DEF Leave, Interrupt, InterruptedAt, SyncLabels, TryLabels, DeleteLabels
<1>6. CASE Retire(t) \/ Retired(t)
  BY <1>6 DEF Retire, Retired
<1> QED
  BY <1>2, <1>3, <1>4, <1>5, <1>6 DEF Acts

(* No reservation outlives the thread that has to take it back. *)
LEMMA ReservedStaysOwned ==
  ASSUME IInv, ReservedIsOwned, NEW t \in Threads, Acts(t)
  PROVE  ReservedIsOwned'
<1> SUFFICES ASSUME NEW c \in reserved'
             PROVE  \E u \in Threads :
                       \/ pc'[u] \in RetireLabels /\ doomed'[u] = c
                       \/ pc'[u] = "delete_collections" /\ c \in names'[u]
  BY DEF ReservedIsOwned
<1>1. c \in Collections
  BY NextIInv DEF Next, Acts, IInv, TypeOK, SharedTypeOK
<1>2. CASE c \notin reserved
  BY <1>1, <1>2, ReservationsMove
<1>3. CASE c \in reserved
  <2>1. PICK u \in Threads : \/ pc[u] \in RetireLabels /\ doomed[u] = c
                             \/ pc[u] = "delete_collections" /\ c \in names[u]
    BY <1>3 DEF ReservedIsOwned
  <2>2. CASE u = t
    BY <1>1, <2>1, <2>2, ReservationsMove
  <2>3. CASE u # t
    BY <2>1, <2>3, OthersKeep
  <2> QED
    BY <2>2, <2>3
<1> QED
  BY <1>2, <1>3

(* Collections are created under the guard of their namespace. *)
LEMMA CatalogGrows ==
  ASSUME IInv, NEW t \in Threads, Acts(t), NEW c \in catalog' \ catalog
  PROVE  pc[t] = "begin_candidate" /\ NamespaceOf(c) = ns[t]
<1> USE DEF disk, Deletes, DeleteFails, Drop
<1>1. CASE Synchronize(t)
  <2>1. CASE BeginCandidate(t)
    BY <2>1 DEF BeginCandidate, Create, NamespaceOf
  <2> QED
    BY <1>1, <2>1 DEF Synchronize, SyncBegin, TakeGuard, InspectPointer, Validate, SyncManifest,
       Fill, Stage, Replace, Resolve, Cleanup, AbortPointer, AbortManifest, AbortDelete
<1>2. CASE Search(t)
  BY <1>2 DEF Search, SearchBegin, Open, Embed, TakeLease, StaleSearch, LeaseReader, Query,
     Unlease, Unpin, Release
<1>3. CASE DeleteIndex(t)
  BY <1>3 DEF DeleteIndex, DeleteBegin, TakeGuard, InspectPointer, ListCollections,
     CheckCollection, Checked, RemovePointer, DeleteCollection, Unreserve
<1>4. CASE Leave(t) \/ Retire(t) \/ Retired(t) \/ Interrupt(t)
  BY <1>4 DEF Leave, Retire, Retired, Interrupt
<1> QED
  BY <1>1, <1>2, <1>3, <1>4 DEF Acts

(* The listing is made once, and stays complete while the guard is held. *)
LEMMA ListingStaysComplete ==
  ASSUME IInv, ListingIsComplete, NEW t \in Threads, Acts(t)
  PROVE  ListingIsComplete'
<1> SUFFICES ASSUME NEW u \in Threads, pc'[u] \in {"check", "remove_pointer"},
                    NEW c \in catalog', NamespaceOf(c) = ns'[u]
             PROVE  c \in names'[u]
  BY DEF ListingIsComplete
<1>1. CASE u # t
  <2>1. pc'[u] = pc[u] /\ ns'[u] = ns[u] /\ names'[u] = names[u]
    BY <1>1, OthersKeep
  <2>2. ns[u] # None /\ ns[u] # ns[t]
    BY <1>1, <2>1 DEF IInv, JobsAreLocal, GuardedLabels, DeleteLabels, OneMutatorPerNamespace, Guarded
  <2>3. c \in catalog
    BY <2>1, <2>2, CatalogGrows
  <2> QED
    BY <2>1, <2>3 DEF ListingIsComplete
<1>2. CASE u = t
  <2>1. /\ pc \in [Threads -> Labels] /\ back \in [Threads -> {"idle", "unpin", "leave"}]
        /\ names \in [Threads -> SUBSET Collections]
    BY DEF IInv, TypeOK, LocalsTypeOK, ControlTypeOK
  <2> USE <1>2, <2>1 DEF disk, locals, listing, retiring, Goto, Ends
  <2>2. CASE Synchronize(t)
    <3>1. CASE SyncManifest(t) \/ BeginCandidate(t) \/ Fill(t) \/ Stage(t) \/ Replace(t)
               \/ \E n \in Namespaces, w \in Inventories : SyncBegin(t, n, w)
      BY <3>1 DEF SyncBegin, TakeGuard, SyncManifest, BeginCandidate, Create, Fill, Stage, Replace
    <3> QED
      BY <2>2, <3>1 DEF Synchronize, InspectPointer, Validate, Resolve, Cleanup, AbortPointer,
         AbortManifest, AbortDelete
  <2>3. CASE Search(t)
    BY <2>3 DEF Search, SearchBegin, Open, Embed, TakeLease, StaleSearch, LeaseReader, Query,
       Unlease, Unpin, Release, Reserve
  <2>4. CASE DeleteIndex(t)
    <3>1. CASE ListCollections(t)
      BY <3>1 DEF ListCollections
    <3>2. CASE CheckCollection(t) \/ Checked(t)
      BY <3>2 DEF CheckCollection, Checked, ListingIsComplete
    <3> QED
      BY <2>4, <3>1, <3>2 DEF DeleteIndex, DeleteBegin, TakeGuard, InspectPointer, RemovePointer,
         DeleteCollection, Unreserve
  <2>5. CASE Leave(t) \/ Retire(t) \/ Retired(t) \/ Interrupt(t)
    BY <2>5 DEF Leave, Retire, Retired, Interrupt, InterruptedAt
  <2> QED
    BY <2>2, <2>3, <2>4, <2>5 DEF Acts
<1> QED
  BY <1>1, <1>2

-------------------------------------------------------------------------------
(* Every step, and the theorems *)

(* Nothing is stored, held or running at first. *)
LEMMA InitJInv == Init => JInv
<1> SUFFICES ASSUME Init PROVE JInv
  OBVIOUS
<1> USE DEF Init, SyncLabels, TryLabels, DeleteLabels, RetireLabels, FilledLabels
<1>1. CandidateIsUnseen /\ CandidateIsWanted /\ PriorIsKnown
  BY DEF CandidateIsUnseen, CandidateIsWanted, PriorIsKnown
<1>2. IndexesAreInventories /\ OutcomesAreEarned /\ NoFalseCorruption
  BY DEF IndexesAreInventories, OutcomesAreEarned, Finishing, NoFalseCorruption
<1>3. PendingIsLeased /\ ReservedIsOwned /\ ListingIsComplete
  BY DEF PendingIsLeased, ReservedIsOwned, ListingIsComplete
<1> QED
  BY <1>1, <1>2, <1>3 DEF JInv

(* A restart keeps the disk and begins anew. *)
LEMMA CrashJInv == ASSUME IInv, JInv, Crash PROVE JInv'
<1> USE DEF Crash, disk, SyncLabels, TryLabels, DeleteLabels, RetireLabels, FilledLabels, JInv
<1>1. CandidateIsUnseen' /\ CandidateIsWanted' /\ PriorIsKnown'
  BY DEF CandidateIsUnseen, CandidateIsWanted, PriorIsKnown
<1>2. IndexesAreInventories' /\ OutcomesAreEarned' /\ NoFalseCorruption'
  BY DEF IndexesAreInventories, OutcomesAreEarned, Finishing, NoFalseCorruption
<1>3. PendingIsLeased' /\ ReservedIsOwned' /\ ListingIsComplete'
  BY DEF PendingIsLeased, ReservedIsOwned, ListingIsComplete
<1> QED
  BY <1>1, <1>2, <1>3

(* Every step of every thread, a crash included, keeps JInv. *)
LEMMA NextJInv == IInv /\ JInv /\ [Next]_vars => JInv'
<1> SUFFICES ASSUME IInv, JInv, [Next]_vars PROVE JInv'
  OBVIOUS
<1>1. ASSUME NEW t \in Threads, Acts(t) PROVE JInv'
  BY <1>1, CandidateStaysUnseen, CandidateStaysWanted, IndexesStayInventories, PriorStaysKnown,
     OutcomesStayEarned, CorruptionStaysFalse, PendingStaysLeased, ReservedStaysOwned,
     ListingStaysComplete DEF JInv
<1>2. CASE UNCHANGED vars
  BY <1>2 DEF vars, JInv, CandidateIsUnseen, CandidateIsWanted, PriorIsKnown,
     IndexesAreInventories, Readable, OutcomesAreEarned, Finishing, NoFalseCorruption,
     PendingIsLeased, ReservedIsOwned, ListingIsComplete
<1> QED
  BY <1>1, <1>2, CrashJInv DEF Next, Acts

(* JInv is an invariant of the store, for every value of the constants: it *)
(* knows what is in the collections, and what outcomes mean.               *)
THEOREM ContentsInvariance == Spec => []JInv
BY InitIInv, InitJInv, NextIInv, NextJInv, PTL DEF Spec

(* The store is never corrupted by its own interleavings, failures and     *)
(* crashes: neither an indexer, nor a search that has pinned its snapshot, *)
(* ever finds a collection missing or incomplete.                          *)
THEOREM CorruptionIsNeverFalse == Spec => []NoFalseCorruption
<1>1. JInv => NoFalseCorruption
  BY DEF JInv
<1> QED
  BY <1>1, ContentsInvariance, PTL

(* A synchronization that reports success, or that nothing changed, leaves *)
(* exactly the records it was given active, whatever failed meanwhile.     *)
THEOREM SuccessIsPublished == Spec => []SuccessPublishes
<1>1. JInv => SuccessPublishes
  BY DEF JInv, OutcomesAreEarned, Finishing, SuccessPublishes
<1> QED
  BY <1>1, ContentsInvariance, PTL

(* When every operation has ended, however it ended, nothing is held: no   *)
(* guard, no reservation, no mark for later cleanup, no lease.             *)
THEOREM QuiescenceIsClean == Spec => []QuiescentClean
<1>1. IInv /\ JInv => QuiescentClean
  <2> SUFFICES ASSUME IInv, JInv, \A t \in Threads : pc[t] = "idle"
               PROVE  /\ guards = {} /\ reserved = {} /\ pending = {}
                      /\ \A c \in Collections : readers[c] = 0
    BY DEF QuiescentClean
  <2>1. guards = {}
    BY DEF IInv, OneMutatorPerNamespace, Guarded, JobsAreLocal
  <2>2. reserved = {}
    BY DEF JInv, ReservedIsOwned, RetireLabels
  <2>3. \A c \in Collections : readers[c] = 0
    <3>1. \A t \in Threads : pin[t] = None /\ lease[t] = None
      BY DEF IInv, LeasesAreLocal, SearchLabels, RetireLabels
    <3>2. \A c \in Collections : Pins(c) = {} /\ Leases(c) = {}
      BY <3>1, Naming DEF Pins, Leases
    <3>3. Cardinality({}) = 0
      BY FS_EmptySet
    <3>4. \A c \in Collections : Cardinality(Pins(c)) = 0 /\ Cardinality(Leases(c)) = 0
      BY <3>2, <3>3, Zenon
    <3> QED
      BY <3>4 DEF IInv, ReadersCounted
  <2>4. pending = {}
    BY <2>3 DEF JInv, PendingIsLeased, IInv, TypeOK, SharedTypeOK
  <2> QED
    BY <2>1, <2>2, <2>3, <2>4
<1> QED
  BY <1>1, Invariance, ContentsInvariance, PTL

(* A lease comes from a thread that has pinned or leased the collection. *)
LEMMA ReadersAreThreads ==
  ASSUME IInv, NEW c \in Collections, readers[c] > 0
  PROVE  \E u \in Threads : c \in {pin[u], lease[u]}
<1> SUFFICES ASSUME Pins(c) = {}, Leases(c) = {} PROVE FALSE
  BY DEF Pins, Leases
<1>1. Cardinality({}) = 0
  BY FS_EmptySet
<1>2. Cardinality(Pins(c)) = 0 /\ Cardinality(Leases(c)) = 0
  BY <1>1, Zenon
<1> QED
  BY <1>2 DEF IInv, ReadersCounted

(* While a collection has readers, no step changes it: neither a publisher *)
(* nor a deletion nor the release of somebody else's lease.                *)
THEOREM LeasesProtect == Spec => LeasedImmutable
<1>1. IInv /\ JInv /\ [Next]_vars =>
         [\A c \in Collections : readers[c] > 0 /\ c \in catalog /\ readers'[c] > 0 =>
             c \in catalog' /\ coll'[c] = coll[c]]_vars
  <2> SUFFICES ASSUME IInv, JInv, Next, NEW c \in Collections, readers[c] > 0, c \in catalog
               PROVE  c \in catalog' /\ coll'[c] = coll[c]
    OBVIOUS
  <2>1. CASE Crash
    BY <2>1 DEF Crash, disk
  <2>2. ASSUME NEW t \in Threads, Acts(t)
        PROVE  c \in catalog' /\ coll'[c] = coll[c]
    BY <2>2, ReadersAreThreads, LeasedIsKeptWhole DEF JInv
  <2> QED
    BY <2>1, <2>2 DEF Next, Acts
<1> QED
  BY <1>1, Invariance, ContentsInvariance, PTL DEF Spec, LeasedImmutable

-------------------------------------------------------------------------------
(* Where fewer calls fail *)

(* An indexer that can always read the pointer file, and is not            *)
(* interrupted, aborts or raises only when its candidate is not active.    *)
LEMMA FailuresStayProved ==
  ASSUME "pointer_read" \notin Faults, "interrupt" \notin Faults,
         IInv, JInv, FailuresAreProved, NEW t \in Threads, Acts(t)
  PROVE  FailuresAreProved'
<1> DEFINE Aborts(u) == pc[u] \in {"abort_pointer", "abort_manifest", "abort_delete"}
           Proved(u) ==
             /\ cand[u] # None => pc[u] \in TryLabels \/ Finishing(u)
             /\ Finishing(u) /\ pc[u] # "leave" => outcome[u] = "success"
             /\ Aborts(u) => ptr[ns[u]] # cand[u]
             /\ pc[u] = "leave" /\ cand[u] # None /\ outcome[u] # "success" =>
                   ptr[ns[u]] # cand[u]
<1> SUFFICES ASSUME NEW u \in Threads PROVE Proved(u)'
  BY DEF FailuresAreProved
<1>0. Proved(u) /\ Proved(t)
  BY DEF FailuresAreProved
<1>1. CASE u # t
  <2>1. Aborts(u) \/ pc[u] = "leave" => ns[u] # None
    BY DEF IInv, JobsAreLocal, GuardedLabels, TryLabels
  <2> QED
    BY <1>0, <1>1, <2>1, OthersKeep DEF Finishing
<1>2. CASE u = t
  <2>1. /\ pc \in [Threads -> Labels] /\ back \in [Threads -> {"idle", "unpin", "leave"}]
        /\ outcome \in [Threads -> Outcomes] /\ cand \in [Threads -> MaybeCollection]
        /\ old \in [Threads -> MaybeCollection]
    BY DEF IInv, TypeOK, LocalsTypeOK, ControlTypeOK
  <2>2. pc[t] \in UncommittedLabels => ptr[ns[t]] # cand[t]
    BY DEF IInv, CandidateIsPrivate, UncommittedLabels, TryLabels
  <2> USE <1>0, <1>2, <2>1 DEF disk, shared, leases, locals, listing, retiring, Goto, Ends,
          TryLabels, Finishing, RetireLabels
  <2>3. CASE Synchronize(t)
    <3>1. CASE \E n \in Namespaces, w \in Inventories : SyncBegin(t, n, w)
      BY <3>1 DEF SyncBegin, TakeGuard
    <3>2. CASE SyncManifest(t)
      BY <3>2 DEF SyncManifest
    <3>3. CASE BeginCandidate(t)
      BY <3>3 DEF BeginCandidate, Create
    <3>4. CASE Fill(t)
      BY <2>2, <3>4 DEF Fill, UncommittedLabels
    <3>5. CASE Stage(t) \/ Replace(t) \/ Resolve(t)
      BY <3>5 DEF Stage, Replace, Resolve
    <3>6. CASE Cleanup(t)
      BY <3>6 DEF Cleanup, Reserve
    <3>7. CASE AbortPointer(t) \/ AbortManifest(t) \/ AbortDelete(t)
      BY <3>7 DEF AbortPointer, AbortManifest, AbortDelete
    <3>8. CASE \/ Validate(t, "validate", cand[t], "publish_pointer", "abort_pointer")
               \/ Validate(t, "publish_manifest", old[t], "publish_validate", "abort_pointer")
               \/ Validate(t, "publish_validate", cand[t], "stage", "abort_pointer")
               \/ Validate(t, "revalidate", cand[t], "replace", "abort_pointer")
      BY <2>2, <3>8 DEF Validate, UncommittedLabels
    <3> QED
      BY <2>3, <3>1, <3>2, <3>3, <3>4, <3>5, <3>6, <3>7, <3>8 DEF Synchronize, InspectPointer
  <2>4. CASE Search(t)
    BY <2>4 DEF Search, SearchBegin, Open, Embed, TakeLease, StaleSearch, LeaseReader, Query,
       Unlease, Unpin, Release, Reserve
  <2>5. CASE DeleteIndex(t)
    BY <2>5 DEF DeleteIndex, DeleteBegin, TakeGuard, InspectPointer, ListCollections,
       CheckCollection, Checked, RemovePointer, DeleteCollection, Unreserve
  <2>6. CASE Leave(t) \/ Retire(t) \/ Retired(t)
    BY <2>6 DEF Leave, Retire, Retired
  <2> QED
    BY <2>3, <2>4, <2>5, <2>6 DEF Acts, Interrupt
<1> QED
  BY <1>1, <1>2

(* FailuresAreProved is an invariant where the pointer file can be read    *)
(* and no call is interrupted, whatever else fails.                        *)
LEMMA FailureInvariance ==
  ASSUME "pointer_read" \notin Faults, "interrupt" \notin Faults
  PROVE  Spec => []FailuresAreProved
<1>1. Init => FailuresAreProved
  BY DEF Init, FailuresAreProved, Finishing, RetireLabels
<1>2. IInv /\ JInv /\ FailuresAreProved /\ [Next]_vars => FailuresAreProved'
  <2> SUFFICES ASSUME IInv, JInv, FailuresAreProved, [Next]_vars PROVE FailuresAreProved'
    OBVIOUS
  <2>1. CASE Crash
    BY <2>1 DEF Crash, FailuresAreProved, Finishing, RetireLabels
  <2>2. CASE UNCHANGED vars
    BY <2>2 DEF vars, FailuresAreProved, Finishing
  <2> QED
    BY <2>1, <2>2, FailuresStayProved DEF Next, Acts
<1> QED
  BY <1>1, <1>2, Invariance, ContentsInvariance, PTL DEF Spec

(* A synchronization that raises has not replaced the index, provided that *)
(* the pointer file can be read back: the design's promise, for every      *)
(* other failure of Chroma, the provider or the file system, and crashes.  *)
THEOREM RaisingChangesNothing ==
  ASSUME "pointer_read" \notin Faults, "interrupt" \notin Faults
  PROVE  Spec => []RaisingPreservesIndex
<1>1. FailuresAreProved => RaisingPreservesIndex
  BY DEF FailuresAreProved, RaisingPreservesIndex
<1> QED
  BY <1>1, FailureInvariance, PTL

(* Who is about to delete a collection goes on until it is gone. *)
LEMMA DeletionsGoOn ==
  ASSUME Faults \subseteq OutsideFaults, IInv, NEW t \in Threads, Acts(t), NEW u \in Threads,
         NEW c \in Deleting(u), c \in catalog, c \in catalog'
  PROVE  c \in Deleting(u)'
<1>1. CASE u # t
  BY <1>1, OthersKeep DEF Deleting
<1>2. CASE u = t
  <2>1. \/ pc[t] = "retire" /\ c = doomed[t]
        \/ pc[t] = "delete_collections" /\ c \in todo[t]
        \/ pc[t] = "abort_delete" /\ c = cand[t]
    BY <1>2 DEF Deleting
  <2>2. /\ pc \in [Threads -> Labels] /\ todo \in [Threads -> SUBSET Collections]
    BY DEF IInv, TypeOK, LocalsTypeOK, ControlTypeOK
  <2>3. {"delete", "interrupt"} \cap Faults = {}
    BY DEF OutsideFaults
  <2> USE <1>2, <2>1, <2>2, <2>3 DEF Deletes, DeleteFails, Drop, Goto, Ends
  <2>4. CASE Synchronize(t)
    BY <2>4 DEF Synchronize, SyncBegin, TakeGuard, InspectPointer, Validate, SyncManifest,
       BeginCandidate, Fill, Stage, Replace, Resolve, Cleanup, AbortPointer, AbortManifest,
       AbortDelete
  <2>5. CASE Search(t)
    BY <2>5 DEF Search, SearchBegin, Open, Embed, TakeLease, StaleSearch, Query, Unlease, Unpin
  <2>6. CASE DeleteIndex(t)
    <3>1. CASE DeleteCollection(t)
      BY <3>1 DEF DeleteCollection, Deleting
    <3> QED
      BY <2>6, <3>1 DEF DeleteIndex, DeleteBegin, TakeGuard, InspectPointer, ListCollections,
         CheckCollection, Checked, RemovePointer, Unreserve
  <2>7. CASE Leave(t) \/ Retire(t) \/ Retired(t)
    BY <2>7 DEF Leave, Retire, Retired
  <2> QED
    BY <2>4, <2>5, <2>6, <2>7 DEF Acts, Interrupt
<1> QED
  BY <1>1, <1>2

(* Whoever reserves a collection, or takes its mark for later cleanup      *)
(* away, is about to delete it.                                            *)
LEMMA TakersDelete ==
  ASSUME IInv, JInv, NEW t \in Threads, Acts(t), NEW c \in Collections,
         \/ c \in reserved' /\ c \notin reserved
         \/ c \in pending /\ c \notin pending'
  PROVE  c \in Deleting(t)'
<1>1. /\ pc \in [Threads -> Labels] /\ todo \in [Threads -> SUBSET Collections]
      /\ doomed \in [Threads -> MaybeCollection]
  BY DEF IInv, TypeOK, LocalsTypeOK, ControlTypeOK
<1>2. c \in pending => c \notin reserved
  BY DEF JInv, PendingIsLeased, IInv, LeasedNotReserved
<1> USE <1>1, <1>2 DEF shared, locals, listing, retiring, Goto, Ends
<1>3. CASE Synchronize(t)
  <2>1. CASE Cleanup(t)
    BY <2>1 DEF Cleanup, Reserve, Deleting
  <2> QED
    BY <1>3, <2>1 DEF Synchronize, SyncBegin, TakeGuard, InspectPointer, Validate, SyncManifest,
       BeginCandidate, Create, Fill, Stage, Replace, Resolve, AbortPointer, AbortManifest,
       AbortDelete
<1>4. CASE Search(t)
  <2>1. CASE Unlease(t) \/ Unpin(t)
    BY <2>1 DEF Unlease, Unpin, Release, Reserve, Deleting
  <2> QED
    BY <1>4, <2>1 DEF Search, SearchBegin, Open, Embed, TakeLease, StaleSearch, LeaseReader, Query
<1>5. CASE DeleteIndex(t)
  <2>1. CASE RemovePointer(t)
    BY <2>1 DEF RemovePointer, Deleting
  <2> QED
    BY <1>5, <2>1 DEF DeleteIndex, DeleteBegin, TakeGuard, InspectPointer, ListCollections,
       CheckCollection, Checked, DeleteCollection, Unreserve
<1>6. CASE Leave(t) \/ Retire(t) \/ Retired(t) \/ Interrupt(t)
  BY <1>6 DEF Leave, Retire, Retired, Interrupt
<1> QED
  BY <1>3, <1>4, <1>5, <1>6 DEF Acts

(* An indexer lets go of its candidate or of the prior collection only     *)
(* when that is active, deleted, or left to a reader or to its deleter.    *)
LEMMA IndexersHandOn ==
  ASSUME Faults \subseteq OutsideFaults, IInv, JInv, FailuresAreProved,
         NEW t \in Threads, Acts(t), NEW c \in catalog, c \in catalog',
         \/ pc[t] \in TryLabels /\ c = cand[t]
         \/ pc[t] \in {"resolve", "cleanup"} /\ c = old[t]
  PROVE  Claims(t, c)' \/ Active(c)' \/ c \in pending' \/ c \in reserved
<1>1. /\ pc \in [Threads -> Labels] /\ cand \in [Threads -> MaybeCollection]
      /\ old \in [Threads -> MaybeCollection] /\ doomed \in [Threads -> MaybeCollection]
  BY DEF IInv, TypeOK, LocalsTypeOK, ControlTypeOK
<1>2. {"delete", "read", "interrupt", "pointer_read"} \cap Faults = {}
  BY DEF OutsideFaults
<1>3. ns[t] \in Namespaces /\ c # None /\ pc[t] \in TryLabels
  BY Naming DEF IInv, TypeOK, DiskTypeOK, LocalsTypeOK, JobsAreLocal, GuardedLabels, TryLabels
<1>4. UNCHANGED ptr /\ ptr[ns[t]] = c => Active(c)'
  BY <1>3 DEF Active
<1>5. CASE Synchronize(t)
  <2> USE <1>1, <1>2, <1>3, <1>4 DEF disk, shared, locals, listing, Goto, Ends, TryLabels
  <2>1. CASE Resolve(t)
    <3>1. ptr[ns[t]] \in {old[t], cand[t]}
      BY <2>1 DEF Resolve, JInv, PriorIsKnown
    <3> QED
      BY <2>1, <3>1 DEF Resolve, Claims
  <2>2. CASE Cleanup(t)
    <3>1. ptr[ns[t]] = cand[t]
      BY <2>2 DEF Cleanup, IInv, PointerIsStable
    <3> QED
      BY <2>2, <3>1 DEF Cleanup, Reserve, Claims, Deleting
  <2>3. CASE AbortManifest(t)
    <3>1. ptr[ns[t]] = old[t] /\ ptr[ns[t]] # cand[t]
      BY <2>3 DEF AbortManifest, FailuresAreProved, IInv, PointerIsStable
    <3>2. old[t] # None => Readable(old[t])
      BY <3>1 DEF IInv, ActiveComplete
    <3>3. old[t] # None
      BY <2>3 DEF AbortManifest, JInv, PriorIsKnown
    <3> QED
      BY <2>3, <3>1, <3>2, <3>3 DEF AbortManifest, Claims
  <2>4. CASE AbortDelete(t)
    BY <2>4 DEF AbortDelete, Deletes, DeleteFails, Drop
  <2>5. CASE AbortPointer(t)
    BY <2>5 DEF AbortPointer, Claims
  <2>6. CASE Fill(t) \/ Stage(t) \/ Replace(t)
    BY <2>6 DEF Fill, Stage, Replace, Claims
  <2> QED
    BY <1>5, <2>1, <2>2, <2>3, <2>4, <2>5, <2>6 DEF Synchronize, SyncBegin, TakeGuard,
       InspectPointer, Validate, SyncManifest, BeginCandidate, SyncLabels, Claims
<1> USE <1>3 DEF TryLabels
<1>6. CASE Search(t)
  BY <1>6 DEF Search, SearchBegin, Open, Embed, TakeLease, StaleSearch, Query, Unlease, Unpin
<1>7. CASE DeleteIndex(t)
  BY <1>7 DEF DeleteIndex, DeleteBegin, TakeGuard, InspectPointer, ListCollections,
     CheckCollection, Checked, RemovePointer, DeleteCollection, Unreserve
<1>8. CASE Leave(t) \/ Retire(t) \/ Retired(t)
  BY <1>8 DEF Leave, Retire, Retired
<1> QED
  BY <1>2, <1>5, <1>6, <1>7, <1>8 DEF Acts, Interrupt

(* A created collection is the candidate of the indexer that created it. *)
LEMMA CreatorsClaim ==
  ASSUME Faults \subseteq OutsideFaults, IInv, NEW t \in Threads, Acts(t),
         NEW c \in catalog' \ catalog
  PROVE  Claims(t, c)' /\ c \notin reserved /\ reserved' = reserved
<1>1. pc[t] = "begin_candidate" /\ pc \in [Threads -> Labels]
      /\ cand \in [Threads -> MaybeCollection]
  BY CatalogGrows DEF IInv, TypeOK, ControlTypeOK, LocalsTypeOK
<1>2. "write" \notin Faults /\ "interrupt" \notin Faults
  BY DEF OutsideFaults
<1>3. BeginCandidate(t)
  <2>1. CASE Synchronize(t)
    BY <1>1, <2>1 DEF Synchronize, SyncBegin, TakeGuard, InspectPointer, Validate, SyncManifest,
       Fill, Stage, Replace, Resolve, Cleanup, AbortPointer, AbortManifest, AbortDelete
  <2>2. CASE Search(t)
    BY <1>1, <2>2 DEF Search, SearchBegin, Open, Embed, TakeLease, StaleSearch, Query, Unlease,
       Unpin
  <2>3. CASE DeleteIndex(t)
    BY <1>1, <2>3 DEF DeleteIndex, DeleteBegin, TakeGuard, InspectPointer, ListCollections,
       CheckCollection, Checked, RemovePointer, DeleteCollection, Unreserve
  <2>4. CASE Leave(t) \/ Retire(t) \/ Retired(t)
    BY <1>1, <2>4 DEF Leave, Retire, Retired
  <2> QED
    BY <1>2, <2>1, <2>2, <2>3, <2>4 DEF Acts, Interrupt
<1>4. PICK k \in Tokens : Create(t, <<ns[t], k>>)
  BY <1>3 DEF BeginCandidate
<1>5. catalog' = catalog \cup {<<ns[t], k>>} /\ cand' = [cand EXCEPT ![t] = <<ns[t], k>>]
      /\ pc' = [pc EXCEPT ![t] = "fill"] /\ <<ns[t], k>> \notin used
  BY <1>2, <1>4 DEF Create, Goto
<1>6. c = <<ns[t], k>> /\ cand'[t] = c /\ pc'[t] = "fill"
  BY <1>1, <1>5
<1>7. c \notin reserved /\ reserved' = reserved
  BY <1>3, <1>5, <1>6 DEF BeginCandidate, shared, IInv, NamesAreDrawn
<1> QED
  BY <1>6, <1>7 DEF Claims, TryLabels

(* What a publication or a removal makes inactive has somebody to delete it. *)
LEMMA DeactivatedIsClaimed ==
  ASSUME IInv, JInv, NEW t \in Threads, Acts(t), NEW n \in Namespaces,
         NEW c \in Collections, ptr[n] = c, ptr'[n] # c
  PROVE  Claims(t, c)'
<1>1. /\ pc \in [Threads -> Labels] /\ old \in [Threads -> MaybeCollection]
      /\ todo \in [Threads -> SUBSET Collections]
  BY DEF IInv, TypeOK, LocalsTypeOK, ControlTypeOK
<1>2. CASE Replace(t) /\ n = ns[t]
  <2>1. old[t] = c
    BY <1>2 DEF Replace, JInv, PriorIsKnown
  <2> QED
    BY <1>1, <1>2, <2>1 DEF Replace, Goto, locals, Claims
<1>3. CASE RemovePointer(t) /\ n = ns[t]
  <2>1. c \in names[t]
    BY <1>3, Naming DEF RemovePointer, JInv, ListingIsComplete, IInv, ActiveComplete, Readable
  <2> QED
    BY <1>1, <1>3, <2>1 DEF RemovePointer, Ends, Claims, Deleting
<1> QED
  BY <1>2, <1>3, PointersMove

(* No collection is ever left with nobody to delete or to publish it. *)
LEMMA CollectionsStayClaimed ==
  ASSUME Faults \subseteq OutsideFaults, IInv, JInv, FailuresAreProved,
         EveryCollectionIsClaimed, NEW t \in Threads, Acts(t)
  PROVE  EveryCollectionIsClaimed'
<1>1. catalog \subseteq Collections /\ catalog' \subseteq Collections
  BY NextIInv DEF Next, Acts, IInv, TypeOK, DiskTypeOK
<1>2. ASSUME NEW c \in catalog' \cap reserved'
      PROVE  \E u \in Threads : c \in Deleting(u)'
  <2>1. c \in catalog
    BY <1>2, CreatorsClaim
  <2>2. CASE c \notin reserved
    BY <1>1, <1>2, <2>2, TakersDelete
  <2>3. CASE c \in reserved
    BY <1>2, <2>1, <2>3, DeletionsGoOn DEF EveryCollectionIsClaimed
  <2> QED
    BY <2>2, <2>3
<1>3. ASSUME NEW c \in catalog'
      PROVE  Active(c)' \/ c \in pending' \/ \E u \in Threads : Claims(u, c)'
  <2>1. CASE c \notin catalog
    BY <2>1, CreatorsClaim
  <2>2. CASE c \in catalog /\ Active(c)
    <3>1. PICK n \in Namespaces : ptr[n] = c
      BY <2>2 DEF Active
    <3> QED
      BY <1>1, <3>1, DeactivatedIsClaimed DEF Active
  <2>3. CASE c \in pending
    BY <1>1, <2>3, TakersDelete DEF Claims
  <2>4. CASE c \in catalog /\ \E u \in Threads : c \in Deleting(u)
    BY <2>4, DeletionsGoOn DEF Claims
  <2>5. ASSUME NEW u \in Threads, c \in catalog,
               \/ pc[u] \in TryLabels /\ c = cand[u]
               \/ pc[u] \in {"resolve", "cleanup"} /\ c = old[u]
        PROVE  Active(c)' \/ c \in pending' \/ \E v \in Threads : Claims(v, c)'
    <3>1. CASE u # t
      BY <2>5, <3>1, OthersKeep DEF Claims
    <3>2. CASE u = t
      <4>1. Claims(t, c)' \/ Active(c)' \/ c \in pending' \/ c \in reserved
        BY <2>5, <3>2, IndexersHandOn
      <4>2. c \in reserved => \E v \in Threads : c \in Deleting(v)'
        BY <2>5, DeletionsGoOn DEF EveryCollectionIsClaimed
      <4> QED
        BY <4>1, <4>2 DEF Claims
    <3> QED
      BY <3>1, <3>2
  <2> QED
    BY <1>3, <2>1, <2>2, <2>3, <2>4, <2>5 DEF EveryCollectionIsClaimed, Claims
<1> QED
  BY <1>2, <1>3 DEF EveryCollectionIsClaimed

(* Every collection has an owner until it is deleted, where the calls into *)
(* Chroma succeed and the process runs on.                                 *)
LEMMA ClaimInvariance ==
  ASSUME Faults \subseteq OutsideFaults
  PROVE  Spec => []EveryCollectionIsClaimed
<1>1. "pointer_read" \notin Faults /\ "interrupt" \notin Faults /\ "crash" \notin Faults
  BY DEF OutsideFaults
<1>2. Init => EveryCollectionIsClaimed
  BY DEF Init, EveryCollectionIsClaimed
<1>3. IInv /\ JInv /\ FailuresAreProved /\ EveryCollectionIsClaimed /\ [Next]_vars
         => EveryCollectionIsClaimed'
  <2> SUFFICES ASSUME IInv, JInv, FailuresAreProved, EveryCollectionIsClaimed, [Next]_vars
               PROVE  EveryCollectionIsClaimed'
    OBVIOUS
  <2>1. CASE UNCHANGED vars
    BY <2>1 DEF vars, EveryCollectionIsClaimed, Active, Claims, Deleting
  <2> QED
    BY <1>1, <2>1, CollectionsStayClaimed DEF Next, Acts, Crash
<1>4. Spec => []FailuresAreProved
  BY <1>1, FailureInvariance
<1> QED
  BY <1>2, <1>3, <1>4, Invariance, ContentsInvariance, PTL DEF Spec

(* When every operation has ended, Chroma holds the active collections and *)
(* no others, if no call into Chroma failed meanwhile: whatever a provider *)
(* or a pointer write did, nothing superseded or aborted has leaked.       *)
THEOREM QuiescenceIsTidy ==
  ASSUME Faults \subseteq OutsideFaults
  PROVE  Spec => []QuiescentTidy
<1>1. IInv /\ EveryCollectionIsClaimed /\ QuiescentClean => QuiescentTidy
  <2> SUFFICES ASSUME IInv, EveryCollectionIsClaimed, QuiescentClean,
                      \A t \in Threads : pc[t] = "idle"
               PROVE  catalog = {ptr[n] : n \in Namespaces} \ {None}
    BY DEF QuiescentTidy
  <2>1. catalog \subseteq Collections /\ pending = {}
    BY DEF IInv, TypeOK, DiskTypeOK, QuiescentClean
  <2>2. \A t \in Threads, c \in catalog : ~Claims(t, c)
    BY DEF Claims, Deleting, TryLabels
  <2>3. \A c \in catalog : Active(c) /\ c # None
    BY <2>1, <2>2, Naming DEF EveryCollectionIsClaimed
  <2>4. \A n \in Namespaces : ptr[n] # None => ptr[n] \in catalog
    BY DEF IInv, ActiveComplete, Readable
  <2> QED
    BY <2>3, <2>4 DEF Active
<1> QED
  BY <1>1, Invariance, ClaimInvariance, QuiescenceIsClean, PTL

-------------------------------------------------------------------------------
(* ChromaStore implements AtomicIndex *)

(* The index of n and the view of u, as AtomicIndex knows them. *)
IndexOf(n) == Contents(ptr[n])
ViewOf(u) ==
    IF pin[u] = None THEN None
    ELSE [ns |-> NamespaceOf(pin[u]), rows |-> coll[pin[u]].rows]

(* The state of AtomicIndex, in these terms. *)
LEMMA AbstractState ==
  /\ Abstract!Init <=> /\ [n \in Namespaces |-> IndexOf(n)] = [n \in Namespaces |-> None]
                       /\ [u \in Threads |-> ViewOf(u)] = [u \in Threads |-> None]
                       /\ answer = [u \in Threads |-> None]
  /\ UNCHANGED Abstract!vars <=>
        /\ [n \in Namespaces |-> IndexOf(n)]' = [n \in Namespaces |-> IndexOf(n)]
        /\ [u \in Threads |-> ViewOf(u)]' = [u \in Threads |-> ViewOf(u)]
        /\ answer' = answer
BY DEF Abstract!Init, Abstract!vars, IndexOf, ViewOf

(* An index changes with its pointer only, a view with its pin only. *)
LEMMA AbstractFrame ==
  ASSUME IInv, JInv, NEW t \in Threads, Acts(t)
  PROVE  /\ \A n \in Namespaces : ptr'[n] = ptr[n] => IndexOf(n)' = IndexOf(n)
         /\ \A u \in Threads : pin'[u] = pin[u] => ViewOf(u)' = ViewOf(u)
         /\ \A u \in Threads : u # t => ViewOf(u)' = ViewOf(u)
<1>1. ASSUME NEW n \in Namespaces, ptr'[n] = ptr[n] PROVE IndexOf(n)' = IndexOf(n)
  BY <1>1, ActiveIsKeptWhole DEF IndexOf, Contents
<1>2. ASSUME NEW u \in Threads, pin'[u] = pin[u] PROVE ViewOf(u)' = ViewOf(u)
  <2>1. CASE pin[u] = None
    BY <1>2, <2>1 DEF ViewOf
  <2>2. CASE pin[u] # None
    <3>1. pin[u] \in catalog
      BY <2>2 DEF JInv, IndexesAreInventories, Readable
    <3>2. coll'[pin[u]] = coll[pin[u]]
      BY <3>1, LeasedIsKeptWhole DEF JInv
    <3> QED
      BY <1>2, <2>2, <3>2 DEF ViewOf
  <2> QED
    BY <2>1, <2>2
<1> QED
  BY <1>1, <1>2, OthersKeep

(* The commit of a publication publishes the inventory as a whole. *)
LEMMA ReplaceImplements ==
  ASSUME IInv, JInv, NEW t \in Threads, Acts(t), Replace(t),
         NEW n \in Namespaces, ptr'[n] # ptr[n]
  PROVE  \E w \in Inventories : Abstract!Publish(n, w)
<1>1. n = ns[t] /\ ptr'[n] = cand[t] /\ UNCHANGED <<coll, pin, answer>>
  BY PointersMove DEF Replace, RemovePointer
<1>2. /\ want[t] \in Inventories /\ coll[cand[t]].rows = want[t] /\ cand[t] # None
  BY DEF Replace, JInv, CandidateIsWanted, FilledLabels, TryLabels, IInv, JobsAreLocal
<1>3. \A m \in Namespaces : m # n => ptr'[m] = ptr[m]
  BY <1>1, PointersMove
<1>4. [m \in Namespaces |-> IndexOf(m)]' = [[m \in Namespaces |-> IndexOf(m)] EXCEPT ![n] = want[t]]
  BY <1>1, <1>2, <1>3, AbstractFrame DEF IndexOf, Contents
<1>5. [u \in Threads |-> ViewOf(u)]' = [u \in Threads |-> ViewOf(u)]
  BY <1>1, AbstractFrame
<1> QED
  BY <1>1, <1>2, <1>4, <1>5 DEF Abstract!Publish, IndexOf, ViewOf

(* The removal of a pointer removes an index nobody has pinned: the listing *)
(* is complete, and what is pinned is in the catalog.                      *)
LEMMA RemoveImplements ==
  ASSUME IInv, JInv, NEW t \in Threads, Acts(t), RemovePointer(t),
         NEW n \in Namespaces, ptr'[n] # ptr[n]
  PROVE  Abstract!Remove(n)
<1>1. n = ns[t] /\ ptr'[n] = None /\ UNCHANGED <<coll, pin, answer>>
  BY PointersMove DEF Replace, RemovePointer
<1>2. \A c \in names[t] : readers[c] = 0
  <2>1. names[t] \subseteq Collections /\ readers \in [Collections -> Nat]
    BY DEF IInv, TypeOK, SharedTypeOK, LocalsTypeOK
  <2> QED
    BY <1>1, <2>1 DEF RemovePointer
<1>3. ASSUME NEW u \in Threads, pin[u] # None PROVE NamespaceOf(pin[u]) # n
  <2>1. pin[u] \in catalog /\ pin[u] \in Collections
    BY <1>3 DEF JInv, IndexesAreInventories, Readable, IInv, TypeOK, ControlTypeOK, MaybeCollection
  <2>2. readers[pin[u]] # 0
    <3>1. u \in Pins(pin[u]) /\ IsFiniteSet(Pins(pin[u])) /\ IsFiniteSet(Leases(pin[u]))
      BY ThreadsAreFinite, FS_Subset DEF Pins, Leases
    <3>2. Cardinality(Pins(pin[u])) \in Nat \ {0} /\ Cardinality(Leases(pin[u])) \in Nat
      BY <3>1, FS_CardinalityType, FS_EmptySet
    <3> QED
      BY <2>1, <3>2 DEF IInv, ReadersCounted
  <2>3. NamespaceOf(pin[u]) = n => pin[u] \in names[t]
    BY <1>1, <2>1 DEF RemovePointer, JInv, ListingIsComplete
  <2> QED
    BY <1>2, <2>2, <2>3
<1>4. \A m \in Namespaces : m # n => ptr'[m] = ptr[m]
  BY <1>1, PointersMove
<1>5. [m \in Namespaces |-> IndexOf(m)]' = [[m \in Namespaces |-> IndexOf(m)] EXCEPT ![n] = None]
  BY <1>1, <1>4, AbstractFrame DEF IndexOf, Contents
<1>6. [u \in Threads |-> ViewOf(u)]' = [u \in Threads |-> ViewOf(u)]
  BY <1>1, AbstractFrame
<1> QED
  BY <1>1, <1>3, <1>5, <1>6 DEF Abstract!Remove, IndexOf, ViewOf

(* The steps of a search that AtomicIndex sees. *)
LEMMA AnswersMove ==
  ASSUME NEW t \in Threads, Acts(t)
  PROVE  \/ UNCHANGED <<pin, answer>>
         \/ UNCHANGED ptr /\ \/ \E n \in Namespaces : SearchBegin(t, n)
                             \/ \E c \in handles : StaleSearch(t, c)
                             \/ Open(t) \/ Query(t) \/ Unpin(t)
<1> USE DEF disk, leases
<1>1. CASE Synchronize(t)
  BY <1>1 DEF Synchronize, SyncBegin, TakeGuard, InspectPointer, Validate, SyncManifest,
     BeginCandidate, Create, Fill, Stage, Replace, Resolve, Cleanup, AbortPointer, AbortManifest,
     AbortDelete
<1>2. CASE Search(t)
  BY <1>2 DEF Search, SearchBegin, Open, Embed, TakeLease, StaleSearch, LeaseReader, Query,
     Unlease, Unpin, Release
<1>3. CASE DeleteIndex(t)
  BY <1>3 DEF DeleteIndex, DeleteBegin, TakeGuard, InspectPointer, ListCollections,
     CheckCollection, Checked, RemovePointer, DeleteCollection, Unreserve
<1>4. CASE Leave(t) \/ Retire(t) \/ Retired(t) \/ Interrupt(t)
  BY <1>4 DEF Leave, Retire, Retired, Interrupt
<1> QED
  BY <1>1, <1>2, <1>3, <1>4 DEF Acts

(* A search pins, answers from its view and unpins, in this order. *)
LEMMA SearchImplements ==
  ASSUME IInv, JInv, NEW t \in Threads, Acts(t), UNCHANGED ptr,
         \/ \E n \in Namespaces : SearchBegin(t, n)
         \/ \E c \in handles : StaleSearch(t, c)
         \/ Open(t) \/ Query(t) \/ Unpin(t)
  PROVE  \/ \E n \in Namespaces : Abstract!Pin(t, n)
         \/ Abstract!Answer(t) \/ Abstract!Unpin(t)
         \/ UNCHANGED Abstract!vars
<1> DEFINE index == [n \in Namespaces |-> IndexOf(n)]
           view == [u \in Threads |-> ViewOf(u)]
<1>0. /\ index' = index
      /\ UNCHANGED pin => view' = view
      /\ \A u \in Threads : u # t => ViewOf(u)' = ViewOf(u)
  BY AbstractFrame
<1>1. /\ pin \in [Threads -> MaybeCollection]
      /\ answer \in [Threads -> (SUBSET Rows) \cup {None}]
      /\ handles \subseteq Collections
  BY DEF IInv, TypeOK, ControlTypeOK, SharedTypeOK
<1>2. pc[t] = "idle" => pin[t] = None
  BY DEF IInv, LeasesAreLocal, SearchLabels, RetireLabels
<1>3. pin[t] # None => /\ ViewOf(t) = [ns |-> NamespaceOf(pin[t]), rows |-> coll[pin[t]].rows]
                       /\ ViewOf(t) # None
  <2>1. pin[t] # None => ViewOf(t) \in [ns : Namespaces, rows : SUBSET Rows]
    BY <1>1, Naming DEF ViewOf, MaybeCollection, IInv, TypeOK, DiskTypeOK, Generation
  <2> QED
    BY <2>1, NoneIsNoView DEF ViewOf
<1>4. ASSUME NEW n \in Namespaces, SearchBegin(t, n)
      PROVE  Abstract!Pin(t, n)
  <2>1. pc[t] = "idle" /\ pin[t] = None /\ ViewOf(t) = None /\ coll' = coll
    BY <1>2, <1>4 DEF SearchBegin, ViewOf, disk
  <2>2. CASE UNCHANGED pin
    BY <1>0, <1>4, <2>1, <2>2 DEF SearchBegin, Abstract!Pin, IndexOf, ViewOf
  <2>3. CASE pin' # pin
    <3>1. pin' = [pin EXCEPT ![t] = ptr[n]] /\ ptr[n] # None
          /\ answer' = [answer EXCEPT ![t] = None]
      BY <1>4, <2>3 DEF SearchBegin
    <3>2. IndexOf(n) = coll[ptr[n]].rows /\ IndexOf(n) # None /\ NamespaceOf(ptr[n]) = n
      BY <3>1, NoneIsNoInventory DEF IndexOf, Contents, JInv, IndexesAreInventories, IInv,
         ActiveComplete
    <3>3. ViewOf(t)' = [ns |-> n, rows |-> IndexOf(n)]
      BY <1>1, <2>1, <3>1, <3>2 DEF ViewOf
    <3>4. view' = [view EXCEPT ![t] = [ns |-> n, rows |-> index[n]]]
      BY <1>0, <3>3
    <3> QED
      BY <1>0, <2>1, <3>1, <3>2, <3>4 DEF Abstract!Pin, IndexOf, ViewOf
  <2> QED
    BY <2>2, <2>3
<1>5. ASSUME NEW c \in handles, StaleSearch(t, c)
      PROVE  Abstract!Pin(t, NamespaceOf(c))
  <2>1. UNCHANGED pin /\ pin[t] = None /\ answer' = [answer EXCEPT ![t] = None]
    BY <1>2, <1>5 DEF StaleSearch, LeaseReader
  <2> QED
    BY <1>0, <2>1 DEF Abstract!Pin, IndexOf, ViewOf
<1>6. ASSUME Open(t)
      PROVE  Abstract!Answer(t) \/ UNCHANGED Abstract!vars
  <2>1. UNCHANGED pin /\ pin[t] # None
    BY <1>6 DEF Open, leases, IInv, LeasesAreLocal
  <2>2. CASE UNCHANGED answer
    BY <1>0, <2>1, <2>2, AbstractState
  <2>3. CASE answer' # answer
    <3>1. answer' = [answer EXCEPT ![t] = {}] /\ Cardinality(coll[pin[t]].rows) = 0
      BY <1>6, <2>3 DEF Open, Readable
    <3>2. coll[pin[t]].rows = {}
      <4>1. IsFiniteSet(coll[pin[t]].rows)
        BY <2>1, InventoriesAreFinite DEF JInv, IndexesAreInventories
      <4> QED
        BY <3>1, <4>1, FS_EmptySet
    <3> QED
      BY <1>0, <1>3, <2>1, <3>1, <3>2 DEF Abstract!Answer, IndexOf, ViewOf
  <2> QED
    BY <2>2, <2>3
<1>7. ASSUME Query(t)
      PROVE  Abstract!Answer(t) \/ UNCHANGED Abstract!vars
  <2>1. UNCHANGED pin
    BY <1>7 DEF Query, leases
  <2>2. CASE UNCHANGED answer
    BY <1>0, <2>1, <2>2, AbstractState
  <2>3. CASE answer' # answer
    <3>1. pin[t] # None /\ answer' = [answer EXCEPT ![t] = coll[lease[t]].rows] /\ lease[t] # None
      BY <1>7, <2>3 DEF Query, IInv, LeasesAreLocal
    <3>2. lease[t] = pin[t]
      BY <3>1 DEF JInv, IndexesAreInventories
    <3> QED
      BY <1>0, <1>3, <2>1, <3>1, <3>2 DEF Abstract!Answer, IndexOf, ViewOf
  <2> QED
    BY <2>2, <2>3
<1>8. ASSUME Unpin(t)
      PROVE  Abstract!Unpin(t)
  <2>1. pin[t] # None /\ pin' = [pin EXCEPT ![t] = None] /\ UNCHANGED answer
    BY <1>8 DEF Unpin, Release, IInv, LeasesAreLocal
  <2>2. ViewOf(t)' = None
    BY <1>1, <2>1 DEF ViewOf
  <2>3. view' = [view EXCEPT ![t] = None]
    BY <1>0, <2>2
  <2> QED
    BY <1>0, <1>3, <2>1, <2>3 DEF Abstract!Unpin, IndexOf, ViewOf
<1> QED
  BY <1>1, <1>4, <1>5, <1>6, <1>7, <1>8, Naming

(* Every step of the store is a step of AtomicIndex, or none. *)
LEMMA StepImplements ==
  ASSUME IInv, JInv, [Next]_vars
  PROVE  [Abstract!Next]_(Abstract!vars)
<1>1. ASSUME NEW t \in Threads, Acts(t)
      PROVE  Abstract!Next \/ UNCHANGED Abstract!vars
  <2>1. CASE UNCHANGED ptr
    <3>1. CASE UNCHANGED <<pin, answer>>
      <4>1. /\ \A n \in Namespaces : IndexOf(n)' = IndexOf(n)
            /\ \A u \in Threads : ViewOf(u)' = ViewOf(u)
        BY <1>1, <2>1, <3>1, AbstractFrame
      <4> QED
        BY <3>1, <4>1, AbstractState
    <3>2. CASE ~UNCHANGED <<pin, answer>>
      BY <1>1, <2>1, <3>2, AnswersMove, SearchImplements DEF Abstract!Next
    <3> QED
      BY <3>1, <3>2
  <2>2. CASE ptr' # ptr
    <3>1. PICK n \in Namespaces : ptr'[n] # ptr[n]
      <4>1. ptr \in [Namespaces -> MaybeCollection] /\ ptr' \in [Namespaces -> MaybeCollection]
        BY <1>1, NextIInv DEF Next, Acts, IInv, TypeOK, DiskTypeOK
      <4> QED
        BY <2>2, <4>1
    <3> QED
      BY <1>1, <3>1, PointersMove, ReplaceImplements, RemoveImplements DEF Abstract!Next
  <2> QED
    BY <2>1, <2>2
<1>2. CASE Crash
  <2>1. Abstract!Crash
    BY <1>2 DEF Crash, disk, Abstract!Crash, Contents
  <2> QED
    BY <2>1 DEF Abstract!Next
<1>3. CASE UNCHANGED vars
  BY <1>3 DEF vars, Abstract!vars, Contents
<1> QED
  BY <1>1, <1>2, <1>3 DEF Next, Acts

(* ChromaStore implements AtomicIndex, for every value of the constants and *)
(* whatever fails: to its callers, each repository has one index, replaced *)
(* and removed as a whole, and a search sees the one it started with.      *)
THEOREM StoreImplementsAtomicIndex == Spec => ImplementsAtomicIndex
<1>1. Init => Abstract!Init
  BY DEF Init, Abstract!Init, Contents
<1> QED
  BY <1>1, StepImplements, Invariance, ContentsInvariance, PTL
     DEF Spec, ImplementsAtomicIndex, Abstract!Spec
================================================================================
