----------------------------- MODULE ChromaStoreInv -----------------------------
(***************************************************************************)
(* The inductive invariant of ChromaStore: why the pointer of a namespace  *)
(* never names a collection that is missing, incomplete or being deleted.  *)
(* ChromaStoreProofs proves it inductive.                                  *)
(***************************************************************************)
EXTENDS ChromaStore

(* Labels of a candidate that has not been committed by a pointer yet. *)
UncommittedLabels == {"fill", "validate", "publish_pointer", "publish_manifest",
    "publish_validate", "stage", "revalidate", "replace"}
GuardedLabels == SyncLabels \cup TryLabels \cup DeleteLabels \cup {"leave"}

(* Who holds a guard, and what its local variables may name: everything a  *)
(* mutating operation works on belongs to the namespace it has guarded.    *)
JobsAreLocal ==
    \A t \in Threads :
        /\ pc[t] \in GuardedLabels => ns[t] # None
        /\ pc[t] \in SearchLabels \cup {"idle"} => ns[t] = None
        /\ pc[t] \in RetireLabels =>
              /\ doomed[t] # None
              /\ (back[t] = "leave") <=> (ns[t] # None)
        /\ old[t] # None => NamespaceOf(old[t]) = ns[t]
        /\ \A c \in names[t] : NamespaceOf(c) = ns[t]
        /\ todo[t] \subseteq names[t]
        /\ pc[t] \in TryLabels =>
              /\ cand[t] # None
              /\ NamespaceOf(cand[t]) = ns[t]
              /\ cand[t] \in used

(* A name that was never drawn is nowhere in use. *)
NamesAreDrawn ==
    /\ catalog \cup reserved \cup pending \subseteq used
    /\ \A n \in Namespaces : ptr[n] # None => ptr[n] \in used
    /\ \A t \in Threads :
         names[t] \subseteq used /\ (old[t] # None => old[t] \in used)

(* What a search holds at each of its steps. *)
LeasesAreLocal ==
    \A t \in Threads :
        /\ pc[t] \in {"open", "embed", "take_lease", "unpin"} => pin[t] # None
        /\ (lease[t] # None) <=> (pc[t] \in {"query", "unlease"})
        /\ pc[t] \in RetireLabels => ((pin[t] # None) <=> (back[t] = "unpin"))
        /\ pc[t] \notin SearchLabels \cup RetireLabels => pin[t] = None

(* Nobody means to delete an active collection. *)
ActiveIsKept ==
    \A n \in Namespaces : ptr[n] # None =>
        ptr[n] \notin reserved /\ ptr[n] \notin pending

(* Until it is committed, a candidate is known to its indexer alone. *)
CandidateIsPrivate ==
    \A t \in Threads : pc[t] \in TryLabels =>
        LET c == cand[t]
            n == ns[t] IN
        /\ pc[t] \in UncommittedLabels => ptr[n] # c
        /\ ptr[n] # c => c \notin reserved /\ c \notin pending
        /\ pc[t] \in {"revalidate", "replace"} => staged[n] = c
        /\ pc[t] = "replace" => Readable(c)

(* What an indexer or a deleter read from the pointer file is still there. *)
PointerIsStable ==
    \A t \in Threads :
        LET n == ns[t] IN
        /\ pc[t] = "cleanup" => ptr[n] = cand[t]
        /\ pc[t] = "abort_manifest" => ptr[n] = old[t]
        /\ pc[t] = "abort_delete" => ptr[n] # cand[t]
        /\ pc[t] \in {"list", "check", "remove_pointer"} => ptr[n] = old[t]

(* Each reserved collection has one thread that deletes it (two threads in *)
(* delete_collections work in two namespaces, by OneMutatorPerNamespace).  *)
ReservationsAreExclusive ==
    \A t \in Threads :
        /\ pc[t] \in RetireLabels =>
              /\ doomed[t] \in reserved
              /\ \A u \in Threads :
                    /\ u # t /\ pc[u] \in RetireLabels => doomed[u] # doomed[t]
                    /\ pc[u] = "delete_collections" => doomed[t] \notin names[u]
        /\ pc[t] = "delete_collections" => names[t] \subseteq reserved

IInv ==
    /\ TypeOK
    /\ OneMutatorPerNamespace
    /\ JobsAreLocal
    /\ LeasesAreLocal
    /\ NamesAreDrawn
    /\ ReadersCounted
    /\ ActiveComplete
    /\ ActiveIsKept
    /\ CandidateIsPrivate
    /\ PointerIsStable
    /\ ReservationsAreExclusive
    /\ LeasedNotReserved

-------------------------------------------------------------------------------
(* What is in the collections, and what the outcome of an operation rests on *)

(* A step of one thread: everything but a crash. *)
Acts(t) ==
    \/ Synchronize(t) \/ Search(t) \/ DeleteIndex(t)
    \/ Leave(t) \/ Retire(t) \/ Retired(t) \/ Interrupt(t)

(* Its rows have all been added, and nothing went wrong since. *)
FilledLabels == {"validate", "publish_pointer", "publish_manifest",
    "publish_validate", "stage", "revalidate", "replace", "resolve", "cleanup"}

(* The operation of t has been decided; it only has to clean up and leave. *)
Finishing(t) ==
    \/ pc[t] \in {"cleanup", "leave"}
    \/ pc[t] \in RetireLabels /\ back[t] = "leave"

(* A candidate that was never committed has never been handed out. *)
CandidateIsUnseen ==
    /\ handles \subseteq used
    /\ \A t \in Threads :
         /\ pin[t] # None => pin[t] \in used
         /\ lease[t] # None => lease[t] \in used
         /\ pc[t] \in TryLabels /\ ptr[ns[t]] # cand[t] =>
               /\ cand[t] \notin handles
               /\ \A u \in Threads : pin[u] # cand[t] /\ lease[u] # cand[t]

(* A candidate holds nothing but rows of the inventory it is for. *)
CandidateIsWanted ==
    \A t \in Threads :
        LET c == cand[t] IN
        /\ pc[t] \in SyncLabels \cup TryLabels => want[t] \in Inventories
        /\ pc[t] \in TryLabels =>
              /\ c \in catalog
              /\ coll[c].expected = Cardinality(want[t])
              /\ coll[c].rows \subseteq want[t]
        /\ pc[t] \in FilledLabels => coll[c].rows = want[t]

(* What is active or pinned is a whole inventory. *)
IndexesAreInventories ==
    /\ \A n \in Namespaces : ptr[n] # None => coll[ptr[n]].rows \in Inventories
    /\ \A t \in Threads : pin[t] # None =>
          /\ Readable(pin[t])
          /\ coll[pin[t]].rows \in Inventories
          /\ lease[t] # None => lease[t] = pin[t]

(* The indexer still has the prior collection in hand. *)
PriorIsKnown ==
    \A t \in Threads :
        LET n == ns[t] IN
        /\ pc[t] \in {"sync_manifest", "publish_manifest", "publish_validate",
                      "stage", "revalidate", "replace"} => ptr[n] = old[t]
        /\ pc[t] \in {"sync_manifest", "publish_manifest", "abort_manifest"} => old[t] # None
        /\ pc[t] = "resolve" => ptr[n] \in {old[t], cand[t]}

(* A success is what is active, from the moment it is decided. *)
OutcomesAreEarned ==
    \A t \in Threads :
        /\ pc[t] \in SyncLabels \cup (TryLabels \ {"cleanup"}) \cup DeleteLabels =>
              outcome[t] \notin {"success", "unchanged"}
        /\ Finishing(t) /\ outcome[t] \in {"success", "unchanged"} =>
              ptr[ns[t]] # None /\ coll[ptr[ns[t]]].rows = want[t]

(* What has to be deleted later has a reader who will do it. *)
PendingIsLeased == \A c \in pending : readers[c] > 0

(* What is reserved has a thread that will take the reservation back. *)
ReservedIsOwned ==
    \A c \in reserved : \E t \in Threads :
        \/ pc[t] \in RetireLabels /\ doomed[t] = c
        \/ pc[t] = "delete_collections" /\ c \in names[t]

(* No collection of the namespace appears behind the back of a deletion. *)
ListingIsComplete ==
    \A t \in Threads : pc[t] \in {"check", "remove_pointer"} =>
        \A c \in catalog : NamespaceOf(c) = ns[t] => c \in names[t]

JInv ==
    /\ CandidateIsUnseen
    /\ CandidateIsWanted
    /\ IndexesAreInventories
    /\ PriorIsKnown
    /\ OutcomesAreEarned
    /\ NoFalseCorruption
    /\ PendingIsLeased
    /\ ReservedIsOwned
    /\ ListingIsComplete

-------------------------------------------------------------------------------
(* Where fewer calls fail *)

(* When no pointer read fails and nothing is interrupted, whoever raises   *)
(* knows that its candidate was not committed.                             *)
FailuresAreProved ==
    \A t \in Threads :
        /\ cand[t] # None => pc[t] \in TryLabels \/ Finishing(t)
        /\ Finishing(t) /\ pc[t] # "leave" => outcome[t] = "success"
        /\ pc[t] \in {"abort_pointer", "abort_manifest", "abort_delete"} =>
              ptr[ns[t]] # cand[t]
        /\ pc[t] = "leave" /\ cand[t] # None /\ outcome[t] # "success" =>
              ptr[ns[t]] # cand[t]

(* What can still fail when every call into Chroma succeeds, the pointer   *)
(* file can be read, and the process is neither interrupted nor stopped.   *)
OutsideFaults == {"pointer_write", "provider"}

(* The operation of t will delete c, commit it, or hand it on. *)
Claims(t, c) ==
    \/ c \in Deleting(t)
    \/ pc[t] \in TryLabels /\ c = cand[t]
    \/ pc[t] \in {"resolve", "cleanup"} /\ c = old[t]

(* When no call into Chroma fails, every collection is in use or has       *)
(* somebody who will delete it.                                            *)
EveryCollectionIsClaimed ==
    /\ \A c \in catalog : Active(c) \/ c \in pending \/ \E t \in Threads : Claims(t, c)
    /\ \A c \in catalog \cap reserved : \E t \in Threads : c \in Deleting(t)
================================================================================
