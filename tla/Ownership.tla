------------------------------- MODULE Ownership -------------------------------
(***************************************************************************)
(* Who owns one persistence root (stores/chroma.py, lines 95-208 and the   *)
(* constructor of ChromaVectorStore): the adapters of a process share one  *)
(* state with its Chroma client and its lock file; the last of them closes *)
(* both; other processes are kept out by flock.  Several processes,        *)
(* threads constructing adapters, the garbage collector running the        *)
(* finalizer of a dead adapter on whatever thread it likes, forks, failing *)
(* calls and exits are interleaved.  A state is named after the adapter    *)
(* whose constructor made it, and so is the thread that runs it.           *)
(***************************************************************************)
EXTENDS Naturals, FiniteSets, Sequences

CONSTANTS
    Processes,
    Started,     \* those that run from the start; the others are forked
    Adapters,    \* every ChromaVectorStore object that will be constructed
    Timings,     \* the rare timings that are considered (see TimingKinds)
    None

(* gc_in_check: a finalizer runs between the test adapter_count == 0 and   *)
(*     adapter_leases.add; fork_in_constructor: another thread forks while *)
(*     a constructor holds the lock file of a state it has not registered. *)
TimingKinds == {"gc_in_check", "fork_in_constructor"}

ASSUME StartedAreProcesses == Started \subseteq Processes
ASSUME TimingsAreKnown == Timings \subseteq TimingKinds
ASSUME NoneIsNobody == None \notin Adapters \cup Processes

VARIABLES
    alive,     \* the processes that run
    spent,     \* the process identifiers ever used
    registry,  \* _PERSISTENCE_STATES[root] of each process
    stack,     \* the calls of the thread inside _PERSISTENCE_STATES_LOCK
    home,      \* the process of an adapter
    pc,        \* where its constructor or its finalizer is
    state,     \* the state it was given
    members,   \* adapter_leases of a state
    client,    \* its Chroma client
    files      \* the processes with a descriptor of its lock file

vars == <<alive, spent, registry, stack, home, pc, state, members, client, files>>

ConstructorLabels == {"lookup", "open", "client", "add", "setup"}
Locked == {"lookup", "open", "client", "add", "close", "unlock"}
Labels == ConstructorLabels \cup {"new", "live", "garbage", "undo", "close", "unlock",
    "dead", "failed"}

TypeOK ==
    /\ alive \subseteq Processes /\ spent \subseteq Processes
    /\ registry \in [Processes -> Adapters \cup {None}]
    /\ stack \in [Processes -> Seq(Adapters)]
    /\ home \in [Adapters -> Processes \cup {None}]
    /\ pc \in [Adapters -> Labels]
    /\ state \in [Adapters -> Adapters \cup {None}]
    /\ members \in [Adapters -> SUBSET Adapters]
    /\ client \in [Adapters -> {"none", "open", "broken", "closed"}]
    /\ files \in [Adapters -> SUBSET Processes]

Init ==
    /\ alive = Started /\ spent = Started
    /\ registry = [p \in Processes |-> None]
    /\ stack = [p \in Processes |-> <<>>]
    /\ home = [a \in Adapters |-> None]
    /\ pc = [a \in Adapters |-> "new"]
    /\ state = [a \in Adapters |-> None]
    /\ members = [a \in Adapters |-> {}]
    /\ client = [a \in Adapters |-> "none"]
    /\ files = [a \in Adapters |-> {}]

-------------------------------------------------------------------------------
(* The reentrant lock of a process *)

(* Mutant: the lock is not reentrant: a nested call waits for it for ever. *)
RunningMutant(a) == stack[home[a]] = <<a>>

Running(a) == stack[home[a]] # <<>> /\ stack[home[a]][Len(stack[home[a]])] = a
Goes(a, label) == pc' = [pc EXCEPT ![a] = label]
Enter(a, p) == stack' = [stack EXCEPT ![p] = Append(@, a)]
Exits(a) == stack' = [stack EXCEPT ![home[a]] = SubSeq(@, 1, Len(@) - 1)]

-------------------------------------------------------------------------------
(* ChromaVectorStore.__init__ and _persistence_concurrency_state *)

Construct(a, p) ==
    /\ pc[a] = "new" /\ p \in alive
    /\ stack[p] = <<>>
    /\ home' = [home EXCEPT ![a] = p]
    /\ Enter(a, p)
    /\ Goes(a, "lookup")
    /\ UNCHANGED <<alive, spent, registry, state, members, client, files>>

Lookup(a) ==
    /\ pc[a] = "lookup" /\ Running(a)
    /\ LET s == registry[home[a]] IN
       \/ s = None /\ Goes(a, "open") /\ UNCHANGED <<state, stack>>
       \/ s # None /\ members[s] = {} /\ Goes(a, "failed") /\ Exits(a) /\ UNCHANGED state
       \/ /\ s # None /\ members[s] # {}
          /\ state' = [state EXCEPT ![a] = s]
          /\ Goes(a, "add") /\ UNCHANGED stack
    /\ UNCHANGED <<alive, spent, registry, home, members, client, files>>

(* Mutant: the lock file is opened and never locked. *)
OpenFileMutant(a) ==
    /\ pc[a] = "open" /\ Running(a)
    /\ files' = [files EXCEPT ![a] = {home[a]}]
    /\ Goes(a, "client")
    /\ UNCHANGED <<alive, spent, registry, stack, home, state, members, client>>

(* flock is held as long as any process has the file open. *)
OpenFile(a) ==
    /\ pc[a] = "open" /\ Running(a)
    /\ \/ Goes(a, "failed") /\ Exits(a) /\ UNCHANGED files
       \/ /\ \A s \in Adapters : files[s] = {}
          /\ files' = [files EXCEPT ![a] = {home[a]}]
          /\ Goes(a, "client") /\ UNCHANGED stack
    /\ UNCHANGED <<alive, spent, registry, home, state, members, client>>

(* Mutant: the lock file stays open when the client cannot be created. *)
StartClientMutant(a) ==
    /\ pc[a] = "client" /\ Running(a)
    /\ \/ Goes(a, "failed") /\ Exits(a) /\ UNCHANGED <<registry, state, client>>
       \/ /\ client' = [client EXCEPT ![a] = "open"]
          /\ registry' = [registry EXCEPT ![home[a]] = a]
          /\ state' = [state EXCEPT ![a] = a]
          /\ Goes(a, "add") /\ UNCHANGED stack
    /\ UNCHANGED <<alive, spent, home, members, files>>

StartClient(a) ==
    /\ pc[a] = "client" /\ Running(a)
    /\ \/ /\ files' = [files EXCEPT ![a] = @ \ {home[a]}]
          /\ Goes(a, "failed") /\ Exits(a)
          /\ UNCHANGED <<registry, state, client>>
       \/ /\ client' = [client EXCEPT ![a] = "open"]
          /\ registry' = [registry EXCEPT ![home[a]] = a]
          /\ state' = [state EXCEPT ![a] = a]
          /\ Goes(a, "add") /\ UNCHANGED <<files, stack>>
    /\ UNCHANGED <<alive, spent, home, members>>

AddLease(a) ==
    /\ pc[a] = "add" /\ Running(a)
    /\ members' = [members EXCEPT ![state[a]] = @ \cup {a}]
    /\ Goes(a, "setup") /\ Exits(a)
    /\ UNCHANGED <<alive, spent, registry, home, state, client, files>>

(* weakref.finalize registers the finalizer, or the constructor undoes. *)
Setup(a) ==
    /\ pc[a] = "setup"
    /\ Goes(a, "live") \/ Goes(a, "undo")
    /\ UNCHANGED <<alive, spent, registry, stack, home, state, members, client, files>>

-------------------------------------------------------------------------------
(* _release_persistence_concurrency_state *)

(* The last reference goes; in a cycle, the finalizer waits for the collector. *)
Discard(a) ==
    /\ pc[a] = "live" /\ Goes(a, "garbage")
    /\ UNCHANGED <<alive, spent, registry, stack, home, state, members, client, files>>

(* The collector runs the finalizer on a thread of its own choice: one that *)
(* has to wait for the lock, or the one that has it.                        *)
MayCollect(a) ==
    LET calls == stack[home[a]] IN
    \/ calls = <<>>
    \/ /\ calls # <<>> /\ pc[a] = "garbage"
       /\ "gc_in_check" \in Timings \/ pc[calls[Len(calls)]] # "add"

(* Mutant: any adapter that goes closes the client of the root. *)
FinalizeMutant(a) ==
    /\ pc[a] \in {"garbage", "undo"}
    /\ MayCollect(a)
    /\ members' = [members EXCEPT ![state[a]] = @ \ {a}]
    /\ Goes(a, "close") /\ Enter(a, home[a])
    /\ UNCHANGED <<alive, spent, registry, home, state, client, files>>

Finalize(a) ==
    /\ pc[a] \in {"garbage", "undo"}
    /\ MayCollect(a)
    /\ LET s == state[a]
           registered == registry[home[a]] = s /\ a \in members[s] IN
       \/ ~registered /\ Goes(a, "dead") /\ UNCHANGED <<members, stack>>
       \/ /\ registered
          /\ members' = [members EXCEPT ![s] = @ \ {a}]
          /\ IF members[s] = {a} THEN Goes(a, "close") /\ Enter(a, home[a])
                                 ELSE Goes(a, "dead") /\ UNCHANGED stack
    /\ UNCHANGED <<alive, spent, registry, home, state, client, files>>

(* Mutant: the root is released whether the client closed or not. *)
CloseClientMutant(a) ==
    /\ pc[a] = "close" /\ Running(a)
    /\ \E result \in {"broken", "closed"} : client' = [client EXCEPT ![state[a]] = result]
    /\ Goes(a, "unlock")
    /\ UNCHANGED <<alive, spent, registry, stack, home, state, members, files>>

(* A client closes once: closing it again does nothing. *)
CloseClient(a) ==
    /\ pc[a] = "close" /\ Running(a)
    /\ \/ /\ client[state[a]] # "closed"
          /\ client' = [client EXCEPT ![state[a]] = "broken"]
          /\ Goes(a, "dead") /\ Exits(a)
       \/ /\ client' = [client EXCEPT ![state[a]] = "closed"]
          /\ Goes(a, "unlock") /\ UNCHANGED stack
    /\ UNCHANGED <<alive, spent, registry, home, state, members, files>>

(* A close that raises has given up its descriptor all the same. *)
CloseFile(a) ==
    /\ pc[a] = "unlock" /\ Running(a)
    /\ files' = [files EXCEPT ![state[a]] = @ \ {home[a]}]
    /\ UNCHANGED registry \/ registry' = [registry EXCEPT ![home[a]] = None]
    /\ Goes(a, "dead") /\ Exits(a)
    /\ UNCHANGED <<alive, spent, home, state, members, client>>

-------------------------------------------------------------------------------
(* Processes *)

(* The child shares the open files of its parent; _release_inherited_ownership *)
(* closes those of the registered states and starts with an empty registry.    *)
Inherited(p) == {s \in Adapters : p \in files[s] /\ registry[p] # s}

(* Mutant: the child keeps every descriptor of its parent. *)
ForkMutant(p, q) ==
    /\ p \in alive /\ q \notin spent
    /\ alive' = alive \cup {q} /\ spent' = spent \cup {q}
    /\ files' = [s \in Adapters |-> IF p \in files[s] THEN files[s] \cup {q} ELSE files[s]]
    /\ registry' = [registry EXCEPT ![q] = None]
    /\ UNCHANGED <<stack, home, pc, state, members, client>>

Fork(p, q) ==
    /\ p \in alive /\ q \notin spent
    /\ "fork_in_constructor" \in Timings \/ Inherited(p) = {}
    /\ alive' = alive \cup {q} /\ spent' = spent \cup {q}
    /\ files' = [s \in Adapters |-> IF s \in Inherited(p) THEN files[s] \cup {q} ELSE files[s]]
    /\ registry' = [registry EXCEPT ![q] = None]
    /\ UNCHANGED <<stack, home, pc, state, members, client>>

Exit(p) ==
    /\ p \in alive
    /\ alive' = alive \ {p}
    /\ files' = [s \in Adapters |-> files[s] \ {p}]
    /\ registry' = [registry EXCEPT ![p] = None]
    /\ stack' = [stack EXCEPT ![p] = <<>>]
    /\ pc' = [a \in Adapters |-> IF home[a] = p THEN "dead" ELSE pc[a]]
    /\ client' = [s \in Adapters |-> IF home[s] = p THEN "closed" ELSE client[s]]
    /\ UNCHANGED <<spent, home, state, members>>

Step(a) ==
    \/ Lookup(a) \/ OpenFile(a) \/ StartClient(a) \/ AddLease(a) \/ Setup(a)
    \/ Finalize(a) \/ CloseClient(a) \/ CloseFile(a)

Next ==
    \/ \E a \in Adapters, p \in Processes : Construct(a, p)
    \/ \E a \in Adapters : Step(a) \/ Discard(a)
    \/ \E p, q \in Processes : Fork(p, q)
    \/ \E p \in Processes : Exit(p)

Spec == Init /\ [][Next]_vars

(* Every call returns or raises, and dead adapters are collected some day. *)
FairSpec == Spec /\ \A a \in Adapters : WF_vars(Step(a))

-------------------------------------------------------------------------------
(* Properties *)

(* One client at a time works on the root, in one process, and only under  *)
(* the lock file: "V1 supports single-process ownership of each local      *)
(* persistence root" (README); a client whose close failed may still run.  *)
WorksOnRoot(s) == client[s] \in {"open", "broken"}
OwnedExclusively ==
    /\ \A s \in Adapters : WorksOnRoot(s) => home[s] \in files[s]
    /\ \A s, r \in Adapters : WorksOnRoot(s) /\ WorksOnRoot(r) => s = r

(* "In-process adapters share the root's client and guards" (README): a    *)
(* live adapter has the state its process has registered, with an open     *)
(* client, so two live adapters never count readers separately.            *)
AdaptersShareState ==
    \A a \in Adapters : pc[a] = "live" =>
        state[a] = registry[home[a]] /\ client[state[a]] = "open"

(* "the root stays unavailable until successful teardown or process exit": *)
(* once closing the client or the lock file failed, no adapter of that     *)
(* process gets the state, which stays the one it has registered.          *)
FailedTeardownIsFinal ==
    \A s \in Adapters :
        /\ client[s] = "broken" => registry[home[s]] = s
        /\ client[s] \in {"broken", "closed"} /\ registry[home[s]] = s => members[s] = {}

(* "The OS releases still-live roots at process exit": when the process of *)
(* a state has stopped, its lock file is free for the next one.            *)
ReleasedAtExit ==
    \A s \in Adapters : home[s] # None /\ home[s] \notin alive => files[s] = {}

(* A root nobody uses or builds an adapter for, and whose teardown did not *)
(* fail, can be opened again.                                              *)
ReleasedWhenUnused ==
    \A s \in Adapters : files[s] # {} =>
        \/ client[s] = "broken"
        \/ \E a \in Adapters :
              home[a] = home[s] /\ pc[a] \notin {"new", "dead", "failed"}

(* No constructor waits for ever, not even for a finalizer the collector   *)
(* runs inside it: it gives an adapter, raises, or its process stops.      *)
ConstructorsEnd ==
    \A a \in Adapters :
        (pc[a] \in ConstructorLabels) ~> (pc[a] \in {"live", "failed", "dead"})

================================================================================
