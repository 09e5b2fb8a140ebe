------------------------------ MODULE AtomicIndex ------------------------------
(***************************************************************************)
(* What embedding_vector_store promises its callers, with no collection,   *)
(* pointer file, lock or reader count in sight: each repository namespace  *)
(* has one index, replaced or removed as a whole; a search sees the index  *)
(* that was active when it started, until it ends, whatever is published   *)
(* meanwhile; a restart forgets the searches and keeps every index.        *)
(* (stores/base.py describes this contract method by method.)              *)
(***************************************************************************)
CONSTANTS
    Namespaces,    \* repositories
    Threads,       \* callers
    Inventories,   \* the contents an index may have
    None           \* no index, no view, no answer; not an inventory

VARIABLES
    index,   \* index[n]: the contents active for n, or None
    view,    \* view[t]: the index a running search of t has pinned, or None
    answer   \* answer[t]: the contents t's last search answered from, or None

vars == <<index, view, answer>>

Views == [ns : Namespaces, rows : Inventories]

TypeOK ==
    /\ index \in [Namespaces -> Inventories \cup {None}]
    /\ view \in [Threads -> Views \cup {None}]
    /\ answer \in [Threads -> Inventories \cup {None}]

Init ==
    /\ index = [n \in Namespaces |-> None]
    /\ view = [t \in Threads |-> None]
    /\ answer = [t \in Threads |-> None]

(* A complete new index replaces the old one in one step. *)
Publish(n, w) ==
    /\ index' = [index EXCEPT ![n] = w]
    /\ UNCHANGED <<view, answer>>

(* An index is removed only when nobody is searching it. *)
Remove(n) ==
    /\ \A t \in Threads : view[t] # None => view[t].ns # n
    /\ index' = [index EXCEPT ![n] = None]
    /\ UNCHANGED <<view, answer>>

(* A search starts: it pins what is active, or finds nothing to search. *)
Pin(t, n) ==
    /\ view[t] = None
    /\ answer' = [answer EXCEPT ![t] = None]
    /\ \/ UNCHANGED view
       \/ /\ index[n] # None
          /\ view' = [view EXCEPT ![t] = [ns |-> n, rows |-> index[n]]]
    /\ UNCHANGED index

(* It answers from the contents it pinned, and from nothing else. *)
Answer(t) ==
    /\ view[t] # None
    /\ answer' = [answer EXCEPT ![t] = view[t].rows]
    /\ UNCHANGED <<index, view>>

Unpin(t) ==
    /\ view[t] # None
    /\ view' = [view EXCEPT ![t] = None]
    /\ UNCHANGED <<index, answer>>

(* The process stops: only the indexes survive. *)
Crash ==
    /\ view' = [t \in Threads |-> None]
    /\ answer' = [t \in Threads |-> None]
    /\ UNCHANGED index

Next ==
    \/ \E n \in Namespaces : Remove(n) \/ \E w \in Inventories : Publish(n, w)
    \/ \E t \in Threads : Answer(t) \/ Unpin(t) \/ \E n \in Namespaces : Pin(t, n)
    \/ Crash

Spec == Init /\ [][Next]_vars
================================================================================
