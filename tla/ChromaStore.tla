------------------------------ MODULE ChromaStore ------------------------------
(***************************************************************************)
(* ChromaVectorStore (stores/chroma.py) under the threads of one process:  *)
(* SemanticIndexer.synchronize, SemanticSearcher.search, searches through  *)
(* an old snapshot handle, and delete_repository_index, interleaved at     *)
(* every call into Chroma, every file operation and every critical section *)
(* of the two locks; any of those calls may fail, and the process may stop *)
(* between any two of them.  A pc label names the next call of the thread. *)
(***************************************************************************)
EXTENDS Integers, FiniteSets

CONSTANTS
    Namespaces,  \* repositories
    Tokens,      \* secrets.token_hex(16): the names a generation can draw
    Rows,        \* chunk records
    Inventories, \* the sets of records a synchronization may be asked for
    Capacity,    \* provider.max_batch_size
    Writers, Searchers, Deleters,   \* the threads that may run each operation
    Faults,      \* the calls that may fail (see FaultKinds)
    None         \* no collection

FaultKinds ==
    {"read", "write", "delete", "pointer_read", "pointer_write", "provider", "interrupt", "crash"}

Threads == Writers \cup Searchers \cup Deleters
(* The name tr5-<namespace digest>-<token> tells which repository owns it. *)
Collections == Namespaces \X Tokens
NamespaceOf(c) == c[1]

ASSUME InventoriesAreFinite ==
    Inventories \subseteq SUBSET Rows /\ \A w \in Inventories : IsFiniteSet(w)
ASSUME CapacityIsPositive == Capacity \in Nat \ {0}
ASSUME FaultsAreKnown == Faults \subseteq FaultKinds
ASSUME NoneIsNotANamespace == None \notin Namespaces
ASSUME NoneIsNoCollection == None \notin Collections
ASSUME NoneIsNoInventory == None \notin Inventories
ASSUME NoneIsNoView == None \notin [ns : Namespaces, rows : SUBSET Rows]
ASSUME ThreadsAreFinite == IsFiniteSet(Threads)

VARIABLES
    (* on disk *)
    ptr,      \* ptr[n]: the collection the pointer file of n names, or None
    staged,   \* staged[n]: the complete pointer in the .candidate file, or None
    catalog,  \* the collections Chroma has
    coll,     \* coll[c]: expected count (metadata) and records of c
    used,     \* every name ever drawn
    (* shared by the adapters of the root, lost when the process stops *)
    guards,   \* _ACTIVE_WRITER_GUARDS
    readers,  \* readers[c]: leases on c (a missing key is 0)
    pending,  \* pending_cleanup
    reserved, \* cleanup_reservations
    handles,  \* collections some snapshot object names
    (* per thread *)
    pc,       \* the next step
    ns,       \* repository_namespace, while the thread holds its guard
    want,     \* the inventory to synchronize
    cand,     \* the candidate
    old,      \* the active collection it last read from the pointer file
    names,    \* the collections delete_repository_index has listed
    todo,     \* those it has not checked, or not deleted, yet
    doomed,   \* the collection it reserved and will delete
    back,     \* where it goes on after that
    pin,      \* collection leased by acquire_active, or None
    lease,    \* collection leased by store.search, or None
    outcome,  \* how the last operation ended, or what it will raise
    answer    \* the records the last pinned search answered from

disk == <<ptr, staged, catalog, coll, used>>
shared == <<guards, readers, pending, reserved, handles>>
leases == <<pin, lease>>
listing == <<names, todo>>
retiring == <<doomed, back>>
locals == <<ns, want, cand, old, names, todo, doomed, back>>
vars == <<ptr, staged, catalog, coll, used, guards, readers, pending, reserved,
          handles, pc, ns, want, cand, old, names, todo, doomed, back,
          pin, lease, outcome, answer>>

Generation == [expected : Nat, rows : SUBSET Rows]
Erased == [expected |-> 0, rows |-> {}]

MaybeCollection == Collections \cup {None}
SyncLabels == {"sync_pointer", "sync_manifest", "begin_candidate"}
(* synchronize is inside its try block: an exception goes to abort *)
TryLabels == {"fill", "validate", "publish_pointer", "publish_manifest",
    "publish_validate", "stage", "revalidate", "replace", "resolve", "cleanup",
    "abort_pointer", "abort_manifest", "abort_delete"}
DeleteLabels == {"delete_pointer", "list", "check", "remove_pointer",
    "delete_collections"}
SearchLabels == {"open", "embed", "take_lease", "query", "unlease", "unpin"}
RetireLabels == {"retire", "retired"}
Labels == {"idle", "leave"} \cup SyncLabels \cup TryLabels \cup DeleteLabels
    \cup SearchLabels \cup RetireLabels

Outcomes == {"none", "running", "busy", "success", "unchanged", "removed",
    "answered", "not_found", "stale", "read_error", "write_error",
    "provider_error", "publication_error", "corrupt", "delete_corrupt",
    "delete_failed", "interrupted"}

DiskTypeOK ==
    /\ ptr \in [Namespaces -> MaybeCollection]
    /\ staged \in [Namespaces -> MaybeCollection]
    /\ catalog \subseteq Collections
    /\ coll \in [Collections -> Generation]
    /\ used \subseteq Collections
SharedTypeOK ==
    /\ guards \subseteq Namespaces
    /\ readers \in [Collections -> Nat]
    /\ pending \subseteq Collections
    /\ reserved \subseteq Collections
    /\ handles \subseteq Collections
LocalsTypeOK ==
    /\ ns \in [Threads -> Namespaces \cup {None}]
    /\ want \in [Threads -> Inventories \cup {{}}]
    /\ cand \in [Threads -> MaybeCollection]
    /\ old \in [Threads -> MaybeCollection]
    /\ names \in [Threads -> SUBSET Collections]
    /\ todo \in [Threads -> SUBSET Collections]
    /\ doomed \in [Threads -> MaybeCollection]
    /\ back \in [Threads -> {"idle", "unpin", "leave"}]
ControlTypeOK ==
    /\ pc \in [Threads -> Labels]
    /\ outcome \in [Threads -> Outcomes]
    /\ pin \in [Threads -> MaybeCollection]
    /\ lease \in [Threads -> MaybeCollection]
    /\ answer \in [Threads -> (SUBSET Rows) \cup {None}]
TypeOK == DiskTypeOK /\ SharedTypeOK /\ LocalsTypeOK /\ ControlTypeOK

Init ==
    /\ ptr = [n \in Namespaces |-> None]
    /\ staged = [n \in Namespaces |-> None]
    /\ catalog = {}
    /\ coll = [c \in Collections |-> Erased]
    /\ used = {}
    /\ guards = {}
    /\ readers = [c \in Collections |-> 0]
    /\ pending = {}
    /\ reserved = {}
    /\ handles = {}
    /\ pc = [t \in Threads |-> "idle"]
    /\ ns = [t \in Threads |-> None]
    /\ want = [t \in Threads |-> {}]
    /\ cand = [t \in Threads |-> None]
    /\ old = [t \in Threads |-> None]
    /\ names = [t \in Threads |-> {}]
    /\ todo = [t \in Threads |-> {}]
    /\ doomed = [t \in Threads |-> None]
    /\ back = [t \in Threads |-> "idle"]
    /\ pin = [t \in Threads |-> None]
    /\ lease = [t \in Threads |-> None]
    /\ outcome = [t \in Threads |-> "none"]
    /\ answer = [t \in Threads |-> None]

-------------------------------------------------------------------------------
(* Steps common to the operations *)

Goto(t, label) == pc' = [pc EXCEPT ![t] = label] /\ UNCHANGED outcome

Ends(t, result, label) ==
    /\ outcome' = [outcome EXCEPT ![t] = result]
    /\ pc' = [pc EXCEPT ![t] = label]

(* The collection exists and holds as many records as its metadata says. *)
Readable(c) == c \in catalog /\ Cardinality(coll[c].rows) = coll[c].expected

Drop(c) == catalog' = catalog \ {c} /\ coll' = [coll EXCEPT ![c] = Erased]

Deletes(c) == c \in catalog /\ Drop(c)

(* delete_collection raised: nothing to delete, or an error before or after it *)
DeleteFails(c) ==
    \/ c \notin catalog /\ UNCHANGED <<catalog, coll>>
    \/ "delete" \in Faults /\ c \in catalog /\ (Drop(c) \/ UNCHANGED <<catalog, coll>>)

(* The nonblocking lease on (root, namespace). *)
TakeGuard(t, n, w, label) ==
    /\ pc[t] = "idle"
    /\ \/ n \in guards /\ Ends(t, "busy", "idle") /\ UNCHANGED <<guards, ns, want>>
       \/ /\ n \notin guards
          /\ guards' = guards \cup {n}
          /\ ns' = [ns EXCEPT ![t] = n]
          /\ want' = [want EXCEPT ![t] = w]
          /\ Ends(t, "running", label)
    /\ UNCHANGED <<disk, readers, pending, reserved, handles, cand, old, listing,
                   retiring, leases, answer>>

Leave(t) ==
    /\ pc[t] = "leave"
    /\ guards' = guards \ {ns[t]}
    /\ ns' = [ns EXCEPT ![t] = None]
    /\ want' = [want EXCEPT ![t] = {}]
    /\ cand' = [cand EXCEPT ![t] = None]
    /\ old' = [old EXCEPT ![t] = None]
    /\ names' = [names EXCEPT ![t] = {}]
    /\ todo' = [todo EXCEPT ![t] = {}]
    /\ Goto(t, "idle")
    /\ UNCHANGED <<disk, readers, pending, reserved, handles, retiring, leases, answer>>

(* inspect_active, first half: read the pointer file into old. *)
InspectPointer(t, at, absent, found, failed) ==
    /\ pc[t] = at
    /\ \/ /\ "pointer_read" \in Faults
          /\ Ends(t, "read_error", failed)
          /\ UNCHANGED old
       \/ /\ old' = [old EXCEPT ![t] = ptr[ns[t]]]
          /\ Goto(t, IF ptr[ns[t]] = None THEN absent ELSE found)
    /\ UNCHANGED <<disk, shared, ns, want, cand, listing, retiring, leases, answer>>

(* Open c and validate it against its metadata. *)
Validate(t, at, c, next, failed) ==
    /\ pc[t] = at
    /\ \/ "read" \in Faults /\ Ends(t, "read_error", failed)
       \/ ~Readable(c) /\ Ends(t, "corrupt", failed)
       \/ Readable(c) /\ Goto(t, next)
    /\ UNCHANGED <<disk, shared, locals, leases, answer>>

(* Reserve c for deletion under the lock, then delete it outside the lock. *)
Reserve(t, c, next) ==
    /\ reserved' = reserved \cup {c}
    /\ doomed' = [doomed EXCEPT ![t] = c]
    /\ back' = [back EXCEPT ![t] = next]

(* Mutant: an exception of delete_collection skips the finally clause. *)
RetireMutant(t) ==
    /\ pc[t] = "retire"
    /\ \/ Deletes(doomed[t]) /\ Goto(t, "retired")
       \/ DeleteFails(doomed[t]) /\ Goto(t, back[t])
    /\ UNCHANGED <<ptr, staged, used, shared, locals, leases, answer>>

Retire(t) ==
    /\ pc[t] = "retire"
    /\ Deletes(doomed[t]) \/ DeleteFails(doomed[t])
    /\ Goto(t, "retired")
    /\ UNCHANGED <<ptr, staged, used, shared, locals, leases, answer>>

Retired(t) ==
    /\ pc[t] = "retired"
    /\ reserved' = reserved \ {doomed[t]}
    /\ doomed' = [doomed EXCEPT ![t] = None]
    /\ back' = [back EXCEPT ![t] = "idle"]
    /\ Goto(t, back[t])
    /\ UNCHANGED <<disk, guards, readers, pending, handles, ns, want, cand, old, listing,
                   leases, answer>>

-------------------------------------------------------------------------------
(* SemanticIndexer.synchronize *)

(* Bound: no more synchronizations of n than it has unused names. *)
SyncBegin(t, n, w) ==
    /\ t \in Writers
    /\ \E k \in Tokens : <<n, k>> \notin used
    /\ TakeGuard(t, n, w, "sync_pointer")

(* read_manifest and the diff: nothing to do when the records are the same *)
SyncManifest(t) ==
    /\ pc[t] = "sync_manifest"
    /\ LET c == old[t] IN
       \/ "read" \in Faults /\ Ends(t, "read_error", "leave")
       \/ ~Readable(c) /\ Ends(t, "corrupt", "leave")
       \/ Readable(c) /\ coll[c].rows = want[t] /\ Ends(t, "unchanged", "leave")
       \/ Readable(c) /\ coll[c].rows # want[t] /\ Goto(t, "begin_candidate")
    /\ UNCHANGED <<disk, shared, locals, leases, answer>>

(* A candidate whose creation fails is never aborted: it may stay behind. *)
Create(t, c) ==
    LET Created ==
            /\ catalog' = catalog \cup {c}
            /\ coll' = [coll EXCEPT ![c] = [expected |-> Cardinality(want[t]), rows |-> {}]] IN
    /\ c \notin used
    /\ used' = used \cup {c}
    /\ \/ /\ "write" \in Faults
          /\ Created \/ UNCHANGED <<catalog, coll>>
          /\ Ends(t, "write_error", "leave")
          /\ UNCHANGED cand
       \/ /\ Created
          /\ cand' = [cand EXCEPT ![t] = c]
          /\ Goto(t, "fill")

BeginCandidate(t) ==
    /\ pc[t] = "begin_candidate"
    /\ \E k \in Tokens : Create(t, <<ns[t], k>>)
    /\ UNCHANGED <<ptr, staged, shared, ns, want, old, listing, retiring, leases, answer>>

(* One iteration of the add_reused and add_embedded loops, a batch at a time. *)
Fill(t) ==
    /\ pc[t] = "fill"
    /\ LET c == cand[t]
           missing == want[t] \ coll[c].rows
           Add(batch) == coll' = [coll EXCEPT ![c] =
               [expected |-> @.expected, rows |-> @.rows \cup batch]]
           Batches == {b \in SUBSET missing : Cardinality(b) =
               IF Cardinality(missing) <= Capacity THEN Cardinality(missing) ELSE Capacity} IN
       \/ c \notin catalog /\ Ends(t, "corrupt", "abort_pointer") /\ UNCHANGED coll
       \/ /\ "provider" \in Faults
          /\ Ends(t, "provider_error", "abort_pointer")
          /\ UNCHANGED coll
       \/ /\ "write" \in Faults /\ c \in catalog
          /\ Ends(t, "write_error", "abort_pointer")
          /\ UNCHANGED coll \/ \E batch \in Batches : Add(batch)
       \/ /\ c \in catalog /\ missing # {}
          /\ \E batch \in Batches : Add(batch)
          /\ Goto(t, "fill")
       \/ c \in catalog /\ missing = {} /\ Goto(t, "validate") /\ UNCHANGED coll
    /\ UNCHANGED <<ptr, staged, catalog, used, shared, locals, leases, answer>>

(* publish: write and fsync the .candidate file.  An OSError goes to resolve. *)
Stage(t) ==
    /\ pc[t] = "stage"
    /\ LET n == ns[t] IN
       \/ /\ "pointer_write" \in Faults
          /\ staged' = [staged EXCEPT ![n] = None]
          /\ Goto(t, "resolve")
       \/ /\ staged' = [staged EXCEPT ![n] = cand[t]]
          /\ Goto(t, "revalidate")
    /\ UNCHANGED <<ptr, catalog, coll, used, shared, locals, leases, answer>>

(* publish: os.replace, the commit point.  It moves whatever is staged. *)
Replace(t) ==
    /\ pc[t] = "replace"
    /\ Goto(t, "resolve")
    /\ LET n == ns[t]
           Moves ==
              /\ staged[n] # None
              /\ ptr' = [ptr EXCEPT ![n] = staged[n]]
              /\ staged' = [staged EXCEPT ![n] = None]
              /\ handles' = handles \cup {staged[n]} IN
       \/ Moves
       \/ /\ staged[n] = None \/ "pointer_write" \in Faults
          /\ UNCHANGED <<ptr, staged, handles>>
    /\ UNCHANGED <<catalog, coll, used, guards, readers, pending, reserved, locals, leases, answer>>

(* Mutant: an unchanged pointer is taken for a publication. *)
TrustingResolveMutant(t) ==
    /\ pc[t] = "resolve"
    /\ LET now == ptr[ns[t]] IN
       \/ "pointer_read" \in Faults /\ Ends(t, "publication_error", "abort_pointer")
       \/ now \in {cand[t], old[t]} /\ Ends(t, "success", "cleanup")
       \/ now \notin {cand[t], old[t]} /\ Ends(t, "corrupt", "abort_pointer")
    /\ UNCHANGED <<disk, shared, locals, leases, answer>>

(* Mutant: the pointer is compared with the prior collection first. *)
SwappedResolveMutant(t) ==
    /\ pc[t] = "resolve"
    /\ LET now == ptr[ns[t]] IN
       \/ now # old[t] /\ old[t] = None /\ Ends(t, "corrupt", "abort_pointer")
       \/ now # old[t] /\ old[t] # None /\ Ends(t, "success", "cleanup")
       \/ now = old[t] /\ Ends(t, "publication_error", "abort_pointer")
    /\ UNCHANGED <<disk, shared, locals, leases, answer>>

(* _resolve_publication_outcome: the pointer file says what happened. *)
Resolve(t) ==
    /\ pc[t] = "resolve"
    /\ LET now == ptr[ns[t]]
           new == cand[t]
           prior == old[t] IN
       \/ "pointer_read" \in Faults /\ Ends(t, "publication_error", "abort_pointer")
       \/ now = new /\ Ends(t, "success", "cleanup")
       \/ now # new /\ now = prior /\ Ends(t, "publication_error", "abort_pointer")
       \/ now # new /\ now # prior /\ Ends(t, "corrupt", "abort_pointer")
    /\ UNCHANGED <<disk, shared, locals, leases, answer>>

(* Mutant: the superseded collection is deleted under its readers. *)
EagerCleanupMutant(t) ==
    /\ pc[t] = "cleanup"
    /\ LET c == old[t] IN
       \/ /\ c = None \/ c = cand[t] \/ c \in reserved
          /\ Goto(t, "leave") /\ UNCHANGED <<pending, reserved, retiring>>
       \/ /\ c # None /\ c # cand[t] /\ c \notin reserved
          /\ pending' = pending \ {c}
          /\ Reserve(t, c, "leave")
          /\ Goto(t, "retire")
    /\ UNCHANGED <<disk, guards, readers, handles, ns, want, cand, old, listing, leases, answer>>

(* Mutant: a collection that has readers is not marked for later cleanup. *)
ForgetfulCleanupMutant(t) ==
    /\ pc[t] = "cleanup"
    /\ LET c == old[t] IN
       \/ /\ c = None \/ c = cand[t] \/ (c # None /\ readers[c] > 0)
          /\ Goto(t, "leave") /\ UNCHANGED <<pending, reserved, retiring>>
       \/ /\ c # None /\ c # cand[t] /\ readers[c] = 0 /\ c \notin reserved
          /\ pending' = pending \ {c}
          /\ Reserve(t, c, "leave")
          /\ Goto(t, "retire")
    /\ UNCHANGED <<disk, guards, readers, handles, ns, want, cand, old, listing, leases, answer>>

(* _cleanup_obsolete_collection, in one critical section *)
Cleanup(t) ==
    /\ pc[t] = "cleanup"
    /\ LET c == old[t] IN
       \/ /\ c = None \/ c = cand[t]
          /\ Goto(t, "leave") /\ UNCHANGED <<pending, reserved, retiring>>
       \/ /\ c # None /\ c # cand[t] /\ readers[c] > 0
          /\ pending' = pending \cup {c}
          /\ Goto(t, "leave") /\ UNCHANGED <<reserved, retiring>>
       \/ /\ c # None /\ c # cand[t] /\ readers[c] = 0 /\ c \in reserved
          /\ Goto(t, "leave") /\ UNCHANGED <<pending, reserved, retiring>>
       \/ /\ c # None /\ c # cand[t] /\ readers[c] = 0 /\ c \notin reserved
          /\ pending' = pending \ {c}
          /\ Reserve(t, c, "leave")
          /\ Goto(t, "retire")
    /\ UNCHANGED <<disk, guards, readers, handles, ns, want, cand, old, listing, leases, answer>>

(* Mutant: a failing pointer read does not stop the abort. *)
AbortPointerMutant(t) ==
    /\ pc[t] = "abort_pointer"
    /\ \/ "pointer_read" \in Faults /\ Goto(t, "abort_delete") /\ UNCHANGED old
       \/ LET c == ptr[ns[t]] IN
          /\ old' = [old EXCEPT ![t] = c]
          /\ Goto(t, IF c = None THEN "abort_delete" ELSE "abort_manifest")
    /\ UNCHANGED <<disk, shared, ns, want, cand, listing, retiring, leases, answer>>

(* abort: every failure of its own is swallowed, the first error is raised. *)
AbortPointer(t) ==
    /\ pc[t] = "abort_pointer"
    /\ \/ "pointer_read" \in Faults /\ Goto(t, "leave") /\ UNCHANGED old
       \/ LET c == ptr[ns[t]] IN
          /\ old' = [old EXCEPT ![t] = c]
          /\ Goto(t, IF c = None THEN "abort_delete" ELSE "abort_manifest")
    /\ UNCHANGED <<disk, shared, ns, want, cand, listing, retiring, leases, answer>>

AbortManifest(t) ==
    /\ pc[t] = "abort_manifest"
    /\ LET c == old[t] IN
       \/ /\ "read" \in Faults \/ ~Readable(c) \/ c = cand[t]
          /\ Goto(t, "leave")
       \/ Readable(c) /\ c # cand[t] /\ Goto(t, "abort_delete")
    /\ UNCHANGED <<disk, shared, locals, leases, answer>>

AbortDelete(t) ==
    /\ pc[t] = "abort_delete"
    /\ Deletes(cand[t]) \/ DeleteFails(cand[t])
    /\ Goto(t, "leave")
    /\ UNCHANGED <<ptr, staged, used, shared, locals, leases, answer>>

(* publish validates the candidate twice; synchronize once before that. *)
Synchronize(t) ==
    \/ \E n \in Namespaces, w \in Inventories : SyncBegin(t, n, w)
    \/ InspectPointer(t, "sync_pointer", "begin_candidate", "sync_manifest", "leave")
    \/ SyncManifest(t)
    \/ BeginCandidate(t)
    \/ Fill(t)
    \/ Validate(t, "validate", cand[t], "publish_pointer", "abort_pointer")
    \/ InspectPointer(t, "publish_pointer", "publish_validate", "publish_manifest",
                      "abort_pointer")
    \/ Validate(t, "publish_manifest", old[t], "publish_validate", "abort_pointer")
    \/ Validate(t, "publish_validate", cand[t], "stage", "abort_pointer")
    \/ Stage(t)
    \/ Validate(t, "revalidate", cand[t], "replace", "abort_pointer")
    \/ Replace(t)
    \/ Resolve(t)
    \/ Cleanup(t)
    \/ AbortPointer(t)
    \/ AbortManifest(t)
    \/ AbortDelete(t)

-------------------------------------------------------------------------------
(* SemanticSearcher.search: acquire_active around store.search *)

(* Mutant: the snapshot is handed out without registering its reader. *)
SearchBeginMutant(t, n) ==
    /\ t \in Searchers /\ pc[t] = "idle"
    /\ answer' = [answer EXCEPT ![t] = None]
    /\ ptr[n] # None /\ ptr[n] \notin reserved
    /\ pin' = [pin EXCEPT ![t] = ptr[n]]
    /\ Ends(t, "running", "open")
    /\ UNCHANGED <<disk, guards, readers, pending, reserved, handles, locals, lease>>

(* Pointer read and registration are one critical section. *)
SearchBegin(t, n) ==
    /\ t \in Searchers /\ pc[t] = "idle"
    /\ answer' = [answer EXCEPT ![t] = None]
    /\ LET c == ptr[n] IN
       \/ /\ "pointer_read" \in Faults
          /\ Ends(t, "read_error", "idle") /\ UNCHANGED <<readers, pin>>
       \/ /\ c = None
          /\ Ends(t, "not_found", "idle") /\ UNCHANGED <<readers, pin>>
       \/ /\ c # None /\ c \in reserved
          /\ Ends(t, "corrupt", "idle") /\ UNCHANGED <<readers, pin>>
       \/ /\ c # None /\ c \notin reserved
          /\ readers' = [readers EXCEPT ![c] = @ + 1]
          /\ pin' = [pin EXCEPT ![t] = c]
          /\ Ends(t, "running", "open")
    /\ UNCHANGED <<disk, guards, pending, reserved, handles, locals, lease>>

(* The snapshot is validated and handed out, for its caller to keep; an *)
(* empty index is answered without a query.                             *)
Open(t) ==
    /\ pc[t] = "open"
    /\ LET c == pin[t] IN
       \/ "read" \in Faults /\ Ends(t, "read_error", "unpin") /\ UNCHANGED <<handles, answer>>
       \/ ~Readable(c) /\ Ends(t, "corrupt", "unpin") /\ UNCHANGED <<handles, answer>>
       \/ /\ Readable(c)
          /\ handles' = handles \cup {c}
          /\ \/ /\ coll[c].expected = 0
                /\ answer' = [answer EXCEPT ![t] = {}]
                /\ Ends(t, "answered", "unpin")
             \/ coll[c].expected # 0 /\ Goto(t, "embed") /\ UNCHANGED answer
    /\ UNCHANGED <<disk, guards, readers, pending, reserved, locals, leases>>

Embed(t) ==
    /\ pc[t] = "embed"
    /\ \/ "provider" \in Faults /\ Ends(t, "provider_error", "unpin")
       \/ Goto(t, "take_lease")
    /\ UNCHANGED <<disk, shared, locals, leases, answer>>

(* store.search: _acquire_snapshot_reader *)
LeaseReader(t, c, refused) ==
    /\ \/ c \in reserved /\ Ends(t, "read_error", refused) /\ UNCHANGED <<readers, lease>>
       \/ /\ c \notin reserved
          /\ readers' = [readers EXCEPT ![c] = @ + 1]
          /\ lease' = [lease EXCEPT ![t] = c]
          /\ Ends(t, "running", "query")
    /\ UNCHANGED <<disk, guards, pending, reserved, handles, locals, pin>>

TakeLease(t) ==
    pc[t] = "take_lease" /\ LeaseReader(t, pin[t], "unpin") /\ UNCHANGED answer

(* store.search called with a snapshot its caller kept, holding no pin *)
StaleSearch(t, c) ==
    /\ t \in Searchers /\ pc[t] = "idle"
    /\ c \in handles
    /\ answer' = [answer EXCEPT ![t] = None]
    /\ LeaseReader(t, c, "idle")

(* _search_snapshot; "stale" is the corruption error of an unpinned handle *)
Query(t) ==
    /\ pc[t] = "query"
    /\ LET c == lease[t] IN
       \/ "read" \in Faults /\ Ends(t, "read_error", "unlease") /\ UNCHANGED answer
       \/ /\ ~Readable(c)
          /\ Ends(t, IF pin[t] = None THEN "stale" ELSE "corrupt", "unlease")
          /\ UNCHANGED answer
       \/ /\ Readable(c)
          /\ answer' = IF pin[t] = None THEN answer ELSE [answer EXCEPT ![t] = coll[c].rows]
          /\ Ends(t, "answered", "unlease")
    /\ UNCHANGED <<disk, shared, locals, leases>>

(* Mutant: the last reader is tested before its own release is counted. *)
ReleaseMutant(t, c, rest) ==
    /\ readers' = [readers EXCEPT ![c] = @ - 1]
    /\ \/ /\ readers[c] >= 1 \/ c \notin pending
          /\ Goto(t, rest) /\ UNCHANGED <<pending, reserved, retiring>>
       \/ /\ readers[c] < 1 /\ c \in pending
          /\ pending' = pending \ {c}
          /\ Reserve(t, c, rest) /\ Goto(t, "retire")
    /\ UNCHANGED <<disk, guards, handles, ns, want, cand, old, listing, answer>>

(* _release_snapshot_reader: the last reader of a superseded collection *)
(* reserves it and goes on to delete it.                                *)
Release(t, c, rest) ==
    /\ readers' = [readers EXCEPT ![c] = @ - 1]
    /\ \/ /\ readers[c] > 1 \/ c \notin pending
          /\ Goto(t, rest) /\ UNCHANGED <<pending, reserved, retiring>>
       \/ /\ readers[c] <= 1 /\ c \in pending
          /\ pending' = pending \ {c}
          /\ \/ c \in reserved /\ Goto(t, rest) /\ UNCHANGED <<reserved, retiring>>
             \/ c \notin reserved /\ Reserve(t, c, rest) /\ Goto(t, "retire")
    /\ UNCHANGED <<disk, guards, handles, ns, want, cand, old, listing, answer>>

Unlease(t) ==
    /\ pc[t] = "unlease"
    /\ Release(t, lease[t], IF pin[t] = None THEN "idle" ELSE "unpin")
    /\ lease' = [lease EXCEPT ![t] = None]
    /\ UNCHANGED pin

Unpin(t) ==
    /\ pc[t] = "unpin"
    /\ Release(t, pin[t], "idle")
    /\ pin' = [pin EXCEPT ![t] = None]
    /\ UNCHANGED lease

Search(t) ==
    \/ \E n \in Namespaces : SearchBegin(t, n)
    \/ \E c \in handles : StaleSearch(t, c)
    \/ Open(t) \/ Embed(t) \/ TakeLease(t) \/ Query(t) \/ Unlease(t) \/ Unpin(t)

-------------------------------------------------------------------------------
(* delete_repository_index *)

DeleteBegin(t, n) ==
    t \in Deleters /\ TakeGuard(t, n, {}, "delete_pointer")

(* list_collections, filtered by the namespace prefix; no lock is held *)
ListCollections(t) ==
    /\ pc[t] = "list"
    /\ LET mine == {c \in catalog : NamespaceOf(c) = ns[t]} IN
       \/ "read" \in Faults /\ Ends(t, "read_error", "leave") /\ UNCHANGED listing
       \/ /\ names' = [names EXCEPT ![t] = mine]
          /\ todo' = [todo EXCEPT ![t] = mine]
          /\ Goto(t, "check")
    /\ UNCHANGED <<disk, shared, ns, want, cand, old, retiring, leases, answer>>

(* Each listed collection is opened and validated in turn. *)
CheckCollection(t) ==
    /\ pc[t] = "check"
    /\ \E c \in todo[t] :
         \/ "read" \in Faults /\ Ends(t, "read_error", "leave") /\ UNCHANGED todo
         \/ /\ \/ c \notin catalog
               \/ Cardinality(coll[c].rows) > coll[c].expected
               \/ c = old[t] /\ ~Readable(c)
            /\ Ends(t, "delete_corrupt", "leave") /\ UNCHANGED todo
         \/ /\ c \in catalog /\ Cardinality(coll[c].rows) <= coll[c].expected
            /\ c = old[t] => Readable(c)
            /\ todo' = [todo EXCEPT ![t] = @ \ {c}]
            /\ Goto(t, "check")
    /\ UNCHANGED <<disk, shared, ns, want, cand, old, names, retiring, leases, answer>>

Checked(t) ==
    /\ pc[t] = "check" /\ todo[t] = {}
    /\ IF old[t] = None \/ old[t] \in names[t]
       THEN Goto(t, "remove_pointer")
       ELSE Ends(t, "delete_corrupt", "leave")
    /\ UNCHANGED <<disk, shared, locals, leases, answer>>

(* Mutant: an index somebody searches is removed. *)
UnderReadersMutant(t) ==
    /\ pc[t] = "remove_pointer"
    /\ LET mine == names[t] IN
       \/ /\ \E c \in mine : c \in reserved
          /\ Ends(t, "busy", "leave") /\ UNCHANGED <<ptr, pending, reserved, todo>>
       \/ /\ \A c \in mine : c \notin reserved
          /\ ptr' = [ptr EXCEPT ![ns[t]] = None]
          /\ reserved' = reserved \cup mine
          /\ pending' = pending \ mine
          /\ todo' = [todo EXCEPT ![t] = mine]
          /\ Ends(t, "removed", "delete_collections")
    /\ UNCHANGED <<staged, catalog, coll, used, guards, readers, handles, ns, want, cand, old,
                   names, retiring, leases, answer>>

(* Mutant: collections that are being cleaned up are deleted a second time. *)
TwiceReservedMutant(t) ==
    /\ pc[t] = "remove_pointer"
    /\ LET mine == names[t] IN
       \/ /\ \E c \in mine : readers[c] > 0
          /\ Ends(t, "busy", "leave") /\ UNCHANGED <<ptr, pending, reserved, todo>>
       \/ /\ \A c \in mine : readers[c] = 0
          /\ ptr' = [ptr EXCEPT ![ns[t]] = None]
          /\ reserved' = reserved \cup mine
          /\ pending' = pending \ mine
          /\ todo' = [todo EXCEPT ![t] = mine]
          /\ Ends(t, "removed", "delete_collections")
    /\ UNCHANGED <<staged, catalog, coll, used, guards, readers, handles, ns, want, cand, old,
                   names, retiring, leases, answer>>

(* One critical section: refuse if in use, else unlink the pointer and *)
(* reserve every listed collection.                                    *)
RemovePointer(t) ==
    /\ pc[t] = "remove_pointer"
    /\ LET mine == names[t]
           n == ns[t]
           inUse == \E c \in mine : readers[c] > 0 \/ c \in reserved IN
       \/ /\ inUse
          /\ Ends(t, "busy", "leave") /\ UNCHANGED <<ptr, pending, reserved, todo>>
       \/ /\ ~inUse /\ old[t] # None /\ "pointer_write" \in Faults
          /\ Ends(t, "write_error", "leave") /\ UNCHANGED <<ptr, pending, reserved, todo>>
       \/ /\ ~inUse
          /\ ptr' = [ptr EXCEPT ![n] = IF old[t] = None THEN @ ELSE None]
          /\ reserved' = reserved \cup mine
          /\ pending' = pending \ mine
          /\ todo' = [todo EXCEPT ![t] = mine]
          /\ Ends(t, "removed", "delete_collections")
    /\ UNCHANGED <<staged, catalog, coll, used, guards, readers, handles, ns, want, cand, old,
                   names, retiring, leases, answer>>

(* Every collection is tried; one failure makes the operation fail. *)
DeleteCollection(t) ==
    /\ pc[t] = "delete_collections"
    /\ \E c \in todo[t] :
         /\ todo' = [todo EXCEPT ![t] = @ \ {c}]
         /\ \/ Deletes(c) /\ Goto(t, "delete_collections")
            \/ DeleteFails(c) /\ Ends(t, "delete_failed", "delete_collections")
    /\ UNCHANGED <<ptr, staged, used, shared, ns, want, cand, old, names, retiring, leases,
                   answer>>

Unreserve(t) ==
    /\ pc[t] = "delete_collections" /\ todo[t] = {}
    /\ reserved' = reserved \ names[t]
    /\ Goto(t, "leave")
    /\ UNCHANGED <<disk, guards, readers, pending, handles, locals, leases, answer>>

DeleteIndex(t) ==
    \/ \E n \in Namespaces : DeleteBegin(t, n)
    \/ InspectPointer(t, "delete_pointer", "list", "list", "leave")
    \/ ListCollections(t) \/ CheckCollection(t) \/ Checked(t)
    \/ RemovePointer(t) \/ DeleteCollection(t) \/ Unreserve(t)

-------------------------------------------------------------------------------
(* A call raises KeyboardInterrupt or SystemExit: no handler of Exception  *)
(* sees it, so that there is no abort, and only the finally clauses run.   *)
InterruptedAt(t, labels, label) == pc[t] \in labels /\ Ends(t, "interrupted", label)

(* Mutant: only a handler of Exception removes the reservations. *)
InterruptMutant(t) ==
    /\ "interrupt" \in Faults
    /\ \/ /\ \/ InterruptedAt(t, SyncLabels \cup TryLabels \cup DeleteLabels, "leave")
             \/ InterruptedAt(t, {"retire"}, "retired")
             \/ InterruptedAt(t, {"open", "embed", "take_lease"}, "unpin")
             \/ InterruptedAt(t, {"query"}, "unlease")
          /\ UNCHANGED todo
    /\ UNCHANGED <<disk, shared, ns, want, cand, old, names, retiring, leases, answer>>

Interrupt(t) ==
    /\ "interrupt" \in Faults
    /\ \/ /\ \/ InterruptedAt(t, SyncLabels \cup TryLabels, "leave")
             \/ InterruptedAt(t, DeleteLabels \ {"delete_collections"}, "leave")
             \/ InterruptedAt(t, {"retire"}, "retired")
             \/ InterruptedAt(t, {"open", "embed", "take_lease"}, "unpin")
             \/ InterruptedAt(t, {"query"}, "unlease")
          /\ UNCHANGED todo
       \/ /\ InterruptedAt(t, {"delete_collections"}, "delete_collections")
          /\ todo' = [todo EXCEPT ![t] = {}]
    /\ UNCHANGED <<disk, shared, ns, want, cand, old, names, retiring, leases, answer>>

(* The process stops between two calls: what is on disk stays. *)
Crash ==
    /\ "crash" \in Faults
    /\ guards' = {}
    /\ readers' = [c \in Collections |-> 0]
    /\ pending' = {} /\ reserved' = {} /\ handles' = {}
    /\ pc' = [t \in Threads |-> "idle"]
    /\ ns' = [t \in Threads |-> None]
    /\ want' = [t \in Threads |-> {}]
    /\ cand' = [t \in Threads |-> None]
    /\ old' = [t \in Threads |-> None]
    /\ names' = [t \in Threads |-> {}]
    /\ todo' = [t \in Threads |-> {}]
    /\ doomed' = [t \in Threads |-> None]
    /\ back' = [t \in Threads |-> "idle"]
    /\ pin' = [t \in Threads |-> None]
    /\ lease' = [t \in Threads |-> None]
    /\ outcome' = [t \in Threads |-> "none"]
    /\ answer' = [t \in Threads |-> None]
    /\ UNCHANGED disk

(* Steps a thread that has begun an operation goes on to take. *)
Step(t) ==
    \/ pc[t] # "idle" /\ (Synchronize(t) \/ Search(t) \/ DeleteIndex(t))
    \/ Leave(t) \/ Retire(t) \/ Retired(t)

Next ==
    \/ \E t \in Threads : Synchronize(t) \/ Search(t) \/ DeleteIndex(t)
                          \/ Leave(t) \/ Retire(t) \/ Retired(t) \/ Interrupt(t)
    \/ Crash

Spec == Init /\ [][Next]_vars

(* A call to Chroma, the file system or the provider returns or raises (the *)
(* retries are bounded), so a thread inside an operation keeps moving.      *)
FairSpec == Spec /\ \A t \in Threads : WF_vars(Step(t))

-------------------------------------------------------------------------------
(* Properties *)

Guarded(t) == ns[t] # None
Active(c) == \E n \in Namespaces : ptr[n] = c

(* At every moment, across crashes and failed calls, the pointer of a      *)
(* namespace names a collection of that namespace which exists and holds   *)
(* every record: acquire_active and inspect_active always find an index.   *)
ActiveComplete ==
    \A n \in Namespaces : ptr[n] # None => NamespaceOf(ptr[n]) = n /\ Readable(ptr[n])

(* readers counts exactly the leases threads hold: acquire_active and      *)
(* store.search add one each, and every way out of a search takes it back. *)
Pins(c) == {t \in Threads : pin[t] = c}
Leases(c) == {t \in Threads : lease[t] = c}
ReadersCounted ==
    \A c \in Collections : readers[c] = Cardinality(Pins(c)) + Cardinality(Leases(c))

(* "stale handles cannot lease any reserved generation while its physical  *)
(* deletion is running", and nothing leased is ever reserved.              *)
LeasedNotReserved == \A c \in Collections : readers[c] > 0 => c \notin reserved

(* Two threads never mutate one namespace at the same time, and the guard  *)
(* set is exactly the namespaces being mutated: nothing leaks a guard.     *)
OneMutatorPerNamespace ==
    /\ \A t, u \in Threads : Guarded(t) /\ ns[t] = ns[u] => t = u
    /\ guards = {ns[t] : t \in {u \in Threads : Guarded(u)}}

(* No two threads are ever about to delete the same collection.            *)
Deleting(t) ==
    CASE pc[t] = "retire" -> {doomed[t]}
      [] pc[t] = "delete_collections" -> todo[t]
      [] pc[t] = "abort_delete" -> {cand[t]}
      [] OTHER -> {}
OneDeleterPerCollection ==
    \A t, u \in Threads : t # u => Deleting(t) \cap Deleting(u) = {}

(* Nobody deletes what a pointer names: a failing synchronization that     *)
(* did commit is not aborted, and a superseded collection is not restored. *)
NeverDeletesActive ==
    \A t \in Threads : \A c \in Deleting(t) : ~Active(c)

(* Neither an indexer nor a search that pinned its snapshot reports a      *)
(* corrupt store: the store is never corrupted by its own interleavings.   *)
NoFalseCorruption ==
    \A t \in Threads : outcome[t] # "corrupt"

(* A synchronization that reports success has published exactly the        *)
(* records it was given; one that reports "unchanged" found them active.   *)
SuccessPublishes ==
    \A t \in Threads :
        pc[t] = "leave" /\ outcome[t] \in {"success", "unchanged"} =>
            ptr[ns[t]] # None /\ coll[ptr[ns[t]]].rows = want[t]

(* "otherwise it raises while preserving or proving G1 authoritative"      *)
(* (design, Publication state transition): a synchronization that raises   *)
(* has not replaced the index.  A pointer that cannot be read back after   *)
(* the replacement is the exception: the code raises without the proof.    *)
RaisingPreservesIndex ==
    \A t \in Threads :
        pc[t] = "leave" /\ cand[t] # None /\ outcome[t] # "success" =>
            ptr[ns[t]] # cand[t]

(* delete_repository_index: "Delete a quiescent exact namespace, or fail   *)
(* with a typed busy outcome" (no call into Chroma fails).                 *)
DeleteSucceedsOrIsBusy ==
    \A t \in Threads : outcome[t] \notin {"delete_corrupt", "delete_failed"}

(* When no operation runs, no lease, guard or reservation is left behind,  *)
(* whatever failed on the way.                                             *)
QuiescentClean ==
    (\A t \in Threads : pc[t] = "idle") =>
        /\ guards = {} /\ reserved = {} /\ pending = {}
        /\ \A c \in Collections : readers[c] = 0

(* When no operation runs and no call ever failed, Chroma holds the active *)
(* collections and nothing else: no superseded or aborted one leaks.       *)
QuiescentTidy ==
    (\A t \in Threads : pc[t] = "idle") => catalog = {ptr[n] : n \in Namespaces} \ {None}

(* A collection does not change while a reader holds it, pinned or through *)
(* a stale handle.                                                         *)
LeasedImmutable ==
    [][\A c \in Collections : readers[c] > 0 /\ c \in catalog /\ readers'[c] > 0 =>
           c \in catalog' /\ coll'[c] = coll[c]]_vars

(* A generation a new publication replaced is eventually deleted, by the    *)
(* publisher or by its last reader, however many searches pinned it; only   *)
(* callers that keep searching it through old handles can hold it forever.  *)
HeldByHandle(c) == \E t \in Threads : lease[t] = c /\ pin[t] = None
SupersededIsDeleted ==
    \A c \in Collections :
        <>[]~HeldByHandle(c) => ((c \in handles /\ ~Active(c)) ~> (c \notin catalog))

(* The detailed store implements the abstract index: the index of n is the *)
(* contents of the collection its pointer names.                           *)
Contents(c) == IF c = None THEN None ELSE coll[c].rows
Abstract == INSTANCE AtomicIndex WITH
    index <- [n \in Namespaces |-> Contents(ptr[n])],
    view <- [t \in Threads |-> IF pin[t] = None THEN None
                ELSE [ns |-> NamespaceOf(pin[t]), rows |-> coll[pin[t]].rows]]
ImplementsAtomicIndex == Abstract!Spec
================================================================================
