----------------------------- MODULE OwnershipProofs -----------------------------
(***************************************************************************)
(* Why a persistence root has one owner, for any number of processes,      *)
(* forks, adapters and collector runs: the inductive invariant OwnerInv of *)
(* Ownership, and the properties of a root drawn from it.  OwnerInv holds  *)
(* whatever the timing; SharedInv needs that no finalizer runs inside      *)
(* adapter_leases.add's test, FilesInv that nobody forks inside the        *)
(* constructor of another thread.                                          *)
(***************************************************************************)
EXTENDS Ownership, SequenceTheorems, TLAPS

(* Steps in the life of an adapter that holds a lease, or is getting one. *)
Leasing == {"setup", "live", "garbage", "undo"}
Closing == {"close", "unlock"}
Holding == {"add"} \cup Leasing \cup Closing

Homes ==
    /\ alive \subseteq spent
    /\ \A a \in Adapters :
         /\ pc[a] = "new" <=> home[a] = None
         /\ pc[a] \notin {"new", "dead", "failed"} => home[a] \in alive

(* Whoever is inside the lock is on the stack of its process; the only     *)
(* call that nests in another one is a finalizer that closes the state,    *)
(* inside a constructor that is about to look it up or to lease it.        *)
Stacks ==
    /\ \A p \in Processes :
         /\ Len(stack[p]) <= 2
         /\ \A i \in 1..Len(stack[p]) : home[stack[p][i]] = p /\ pc[stack[p][i]] \in Locked
         /\ Len(stack[p]) = 2 =>
              pc[stack[p][1]] \in {"lookup", "add"} /\ pc[stack[p][2]] \in Closing
    /\ \A a \in Adapters : pc[a] \in Locked =>
         \E i \in 1..Len(stack[home[a]]) : stack[home[a]][i] = a

(* The state of an adapter is one its process has made. *)
States ==
    \A a \in Adapters :
        /\ pc[a] \in {"new", "lookup", "open", "client"} =>
             state[a] = None /\ client[a] = "none" /\ members[a] = {}
        /\ pc[a] \in Holding => state[a] # None
        /\ state[a] # None =>
             /\ home[a] # None
             /\ home[state[a]] = home[a]
             /\ pc[state[a]] \notin {"new", "lookup", "open", "client"}

(* adapter_leases has the adapters that still have to be finalized. *)
Members ==
    /\ \A a \in Adapters : pc[a] \in Leasing => a \in members[state[a]]
    /\ \A s \in Adapters : \A a \in members[s] :
         /\ state[a] = s
         /\ \/ pc[a] \in Leasing
            \/ pc[a] = "dead" /\ registry[home[s]] # s

(* What is registered owns the lock file or has closed its client, and has *)
(* somebody to release it unless closing the one or the other has failed.  *)
RegisteredAt(p) ==
    registry[p] # None =>
        LET s == registry[p] IN
        /\ p \in alive /\ home[s] = p /\ client[s] # "none"
        /\ p \in files[s] \/ client[s] = "closed"
        /\ \/ client[s] = "broken"
           \/ client[s] = "closed" /\ p \notin files[s]
           \/ \E a \in Adapters : state[a] = s /\ pc[a] \in Holding
Registered == \A p \in Processes : RegisteredAt(p)

Clients == \A s \in Adapters : WorksOnRoot(s) => home[s] # None /\ registry[home[s]] = s

(* Who makes a state finds no other; who closes one closes the registered. *)
Makers == \A a \in Adapters : pc[a] \in {"open", "client"} => registry[home[a]] = None
Closers ==
    \A a \in Adapters : pc[a] \in Closing =>
        /\ registry[home[a]] = state[a] /\ members[state[a]] = {}
        /\ pc[a] = "unlock" => client[state[a]] = "closed"

(* One lock file is open at most, by processes that run. *)
Files ==
    /\ \A s, r \in Adapters : files[s] # {} /\ files[r] # {} => s = r
    /\ \A s \in Adapters : files[s] \subseteq alive
    /\ \A a \in Adapters : pc[a] = "client" => home[a] \in files[a]

OwnerInv ==
    /\ TypeOK /\ Homes /\ Stacks /\ States /\ Members
    /\ Registered /\ Clients /\ Makers /\ Closers /\ Files

(* Without gc_in_check: whoever has a lease, or is getting one, has it on  *)
(* the registered state, and that is open.                                 *)
SharedInv ==
    /\ \A a \in Adapters : pc[a] \in {"add"} \cup Leasing =>
         registry[home[a]] = state[a] /\ client[state[a]] = "open"
    /\ \A p \in Processes : Len(stack[p]) = 2 => pc[stack[p][1]] # "add"
    /\ \A s \in Adapters :
         client[s] \in {"broken", "closed"} /\ registry[home[s]] = s => members[s] = {}

(* Without fork_in_constructor: a lock file is open in the process of its  *)
(* state alone, while that is being made or is registered.                 *)
FilesInv ==
    \A s \in Adapters : files[s] # {} =>
        /\ files[s] = {home[s]}
        /\ pc[s] = "client" \/ registry[home[s]] = s

-------------------------------------------------------------------------------
(* The stack of a process *)

(* What a call that returns leaves on the stack. *)
LEMMA Popped ==
  ASSUME NEW s \in Seq(Adapters), s # <<>>
  PROVE  LET r == SubSeq(s, 1, Len(s) - 1) IN
         /\ r \in Seq(Adapters) /\ Len(r) = Len(s) - 1
         /\ \A i \in 1..Len(r) : r[i] = s[i]
<1>1. Len(s) \in Nat \ {0} /\ \A i \in 1..Len(s) : s[i] \in Adapters
  BY EmptySeq, ElementOfSeq, LenProperties
<1> DEFINE n == Len(s) - 1
           r == SubSeq(s, 1, n)
<1>2. n \in Nat /\ \A i \in 1..n : s[i] \in Adapters
  BY <1>1
<1> HIDE DEF n
<1>3. /\ r \in Seq(Adapters) /\ Len(r) = IF 1 <= n THEN n - 1 + 1 ELSE 0
      /\ \A i \in 1..(n - 1 + 1) : r[i] = s[1 + i - 1]
  BY <1>2, SubSeqProperties
<1>4. Len(r) = n /\ \A i \in 1..n : i \in 1..(n - 1 + 1) /\ 1 + i - 1 = i
  BY <1>2, <1>3
<1>5. \A i \in 1..n : r[i] = s[i]
  BY <1>2, <1>3, <1>4
<1> QED
  BY <1>3, <1>4, <1>5 DEF n

(* Who runs is inside the lock alone, but for a constructor that waits for *)
(* a finalizer to close the state.                                         *)
LEMMA Alone ==
  ASSUME TypeOK, Homes, Stacks, NEW a \in Adapters, pc[a] \in Locked, Running(a)
  PROVE  /\ home[a] \in Processes /\ stack[home[a]] \in Seq(Adapters)
         /\ Len(stack[home[a]]) \in {1, 2} /\ stack[home[a]][Len(stack[home[a]])] = a
         /\ Len(stack[home[a]]) = 2 => pc[a] \in Closing
         /\ \A b \in Adapters : b # a /\ pc[b] \in Locked /\ home[b] = home[a] =>
              /\ pc[b] \in {"lookup", "add"} /\ pc[a] \in Closing
              /\ Len(stack[home[a]]) = 2 /\ stack[home[a]][1] = b
<1>1. home[a] \in Processes
  BY DEF Homes, TypeOK, Locked
<1>2. stack[home[a]] \in Seq(Adapters) /\ Len(stack[home[a]]) \in Nat \ {0}
  BY <1>1, EmptySeq, LenProperties DEF TypeOK, Running
<1>3. Len(stack[home[a]]) \in {1, 2}
  <2>1. Len(stack[home[a]]) <= 2
    BY <1>1 DEF Stacks
  <2>2. \A n \in Nat \ {0} : n <= 2 => n \in {1, 2}
    OBVIOUS
  <2> QED
    BY <1>2, <2>1, <2>2
<1>4. Len(stack[home[a]]) = 2 => pc[a] \in Closing
  BY <1>1 DEF Stacks, Running
<1>5. ASSUME NEW b \in Adapters, b # a, pc[b] \in Locked, home[b] = home[a]
      PROVE  /\ pc[b] \in {"lookup", "add"} /\ pc[a] \in Closing
             /\ Len(stack[home[a]]) = 2 /\ stack[home[a]][1] = b
  <2>1. PICK i \in 1..Len(stack[home[a]]) : stack[home[a]][i] = b
    BY <1>5 DEF Stacks
  <2>2. i # Len(stack[home[a]])
    BY <1>5, <2>1 DEF Running
  <2>3. i = 1 /\ Len(stack[home[a]]) = 2
    <3>1. \A n \in {1, 2} : \A j \in 1..n : j # n => j = 1 /\ n = 2
      OBVIOUS
    <3> QED
      BY <1>3, <2>2, <3>1
  <2> QED
    BY <1>1, <1>4, <2>1, <2>3 DEF Stacks
<1> QED
  BY <1>1, <1>2, <1>3, <1>4, <1>5 DEF Running

(* A step inside the lock; a finalizer that closes goes on closing. *)
LEMMA StaysInside ==
  ASSUME TypeOK, Homes, Stacks, NEW a \in Adapters, pc[a] \in Locked, Running(a),
         NEW label \in Locked, pc[a] \in Closing => label \in Closing, Goes(a, label),
         UNCHANGED <<stack, home>>
  PROVE  Stacks'
<1>1. pc \in [Adapters -> Labels] /\ stack \in [Processes -> Seq(Adapters)]
  BY DEF TypeOK
<1>2. pc'[a] = label /\ \A b \in Adapters : b # a => pc'[b] = pc[b]
  BY <1>1 DEF Goes
<1>3. \A p \in Processes : \A i \in 1..Len(stack[p]) : stack[p][i] \in Adapters
  BY <1>1, ElementOfSeq
<1>4. \A p \in Processes : Len(stack[p]) \in Nat
  BY <1>1, LenProperties
<1>5. ASSUME NEW p \in Processes, Len(stack[p]) = 2
      PROVE  pc'[stack[p][1]] \in {"lookup", "add"} /\ pc'[stack[p][2]] \in Closing
  <2>1. pc[stack[p][1]] \in {"lookup", "add"} /\ pc[stack[p][2]] \in Closing
        /\ stack[p][1] \in Adapters /\ stack[p][2] \in Adapters
        /\ home[stack[p][1]] = p /\ home[stack[p][2]] = p
    BY <1>3, <1>5 DEF Stacks
  <2>2. stack[p][1] # a
    BY <1>5, <2>1, Alone DEF Closing
  <2> QED
    BY <1>2, <2>1, <2>2
<1> QED
  BY <1>2, <1>3, <1>4, <1>5 DEF Stacks

(* The call that runs returns and gives the lock back. *)
LEMMA LeavesLock ==
  ASSUME TypeOK, Homes, Stacks, NEW a \in Adapters, pc[a] \in Locked, Running(a),
         NEW label \in Labels \ Locked, Goes(a, label), Exits(a), UNCHANGED home
  PROVE  Stacks' /\ stack' \in [Processes -> Seq(Adapters)]
<1> DEFINE p == home[a]
           r == SubSeq(stack[p], 1, Len(stack[p]) - 1)
<1>1. /\ pc \in [Adapters -> Labels] /\ stack \in [Processes -> Seq(Adapters)]
      /\ p \in Processes /\ stack[p] # <<>> /\ stack[p] \in Seq(Adapters)
  BY Alone DEF TypeOK, Running
<1>2. r \in Seq(Adapters) /\ Len(r) = Len(stack[p]) - 1 /\ \A i \in 1..Len(r) : r[i] = stack[p][i]
  BY <1>1, Popped
<1>3. stack' = [stack EXCEPT ![p] = r]
  BY DEF Exits
<1>4. stack' \in [Processes -> Seq(Adapters)] /\ stack'[p] = r
      /\ \A q \in Processes : q # p => stack'[q] = stack[q]
  BY <1>1, <1>2, <1>3
<1>5. pc'[a] = label /\ \A b \in Adapters : b # a => pc'[b] = pc[b]
  BY <1>1 DEF Goes
<1>6. \A q \in Processes : \A i \in 1..Len(stack[q]) : stack[q][i] \in Adapters
  BY <1>1, ElementOfSeq
<1>7. Len(r) \in {0, 1} /\ (Len(r) = 1 => r[1] # a)
  <2>1. Len(stack[p]) \in {1, 2} /\ stack[p][Len(stack[p])] = a
    BY Alone
  <2>2. Len(stack[p]) = 2 => stack[p][1] # a
    <3>1. Len(stack[p]) = 2 => pc[stack[p][1]] \in {"lookup", "add"} /\ pc[stack[p][2]] \in Closing
      BY <1>1 DEF Stacks
    <3>2. Len(stack[p]) = 2 => stack[p][2] = a
      BY <2>1
    <3> QED
      BY <3>1, <3>2 DEF Closing
  <2> QED
    BY <1>2, <2>1, <2>2
<1>8. ASSUME NEW q \in Processes
      PROVE  /\ Len(stack'[q]) <= 2
             /\ \A i \in 1..Len(stack'[q]) : home[stack'[q][i]] = q /\ pc'[stack'[q][i]] \in Locked
             /\ Len(stack'[q]) = 2 =>
                  pc'[stack'[q][1]] \in {"lookup", "add"} /\ pc'[stack'[q][2]] \in Closing
  <2>1. CASE q = p
    BY <1>1, <1>2, <1>4, <1>5, <1>6, <1>7, <2>1 DEF Stacks
  <2>2. CASE q # p
    <3>1. \A i \in 1..Len(stack[q]) : stack[q][i] # a
      BY <2>2 DEF Stacks
    <3>2. Len(stack[q]) \in Nat
      BY <1>1, LenProperties
    <3> QED
      BY <1>4, <1>5, <1>6, <2>2, <3>1, <3>2 DEF Stacks
  <2> QED
    BY <2>1, <2>2
<1>9. ASSUME NEW b \in Adapters, pc'[b] \in Locked
      PROVE  \E i \in 1..Len(stack'[home[b]]) : stack'[home[b]][i] = b
  <2>1. b # a /\ pc[b] \in Locked /\ home[b] \in Processes
    BY <1>1, <1>5, <1>9 DEF Homes, Locked, TypeOK
  <2>2. CASE home[b] = p
    <3>1. Len(stack[p]) = 2 /\ stack[p][1] = b
      BY <2>1, <2>2, Alone
    <3>2. Len(r) = 1 /\ r[1] = b
      BY <1>2, <3>1
    <3> QED
      BY <1>4, <2>2, <3>2
  <2>3. CASE home[b] # p
    BY <1>4, <2>1, <2>3 DEF Stacks
  <2> QED
    BY <2>2, <2>3
<1> QED
  BY <1>4, <1>8, <1>9 DEF Stacks

(* A call takes the lock: of a process that is outside, or inside a        *)
(* constructor that is about to look the state up or to lease it.          *)
LEMMA EntersLock ==
  ASSUME TypeOK, Stacks, NEW a \in Adapters, pc[a] \notin Locked, NEW p \in Processes,
         NEW label \in Locked, Goes(a, label), Enter(a, p),
         home' = [home EXCEPT ![a] = p],
         \/ stack[p] = <<>>
         \/ /\ Len(stack[p]) = 1 /\ pc[stack[p][1]] \in {"lookup", "add"}
            /\ label \in Closing
  PROVE  Stacks' /\ stack' \in [Processes -> Seq(Adapters)]
<1>1. /\ pc \in [Adapters -> Labels] /\ stack \in [Processes -> Seq(Adapters)]
      /\ home \in [Adapters -> Processes \cup {None}]
  BY DEF TypeOK
<1> DEFINE r == Append(stack[p], a)
<1>2. /\ r \in Seq(Adapters) /\ Len(r) = Len(stack[p]) + 1 /\ r[Len(stack[p]) + 1] = a
      /\ \A i \in 1..Len(stack[p]) : r[i] = stack[p][i]
  BY <1>1, AppendProperties
<1>3. stack' = [stack EXCEPT ![p] = r]
  BY DEF Enter
<1>4. stack' \in [Processes -> Seq(Adapters)] /\ stack'[p] = r
      /\ \A q \in Processes : q # p => stack'[q] = stack[q]
  BY <1>1, <1>2, <1>3
<1>5. /\ pc'[a] = label /\ home'[a] = p
      /\ \A b \in Adapters : b # a => pc'[b] = pc[b] /\ home'[b] = home[b]
  BY <1>1 DEF Goes
<1>6. \A q \in Processes : \A i \in 1..Len(stack[q]) : stack[q][i] \in Adapters /\ stack[q][i] # a
  BY <1>1, ElementOfSeq DEF Stacks
<1>7. Len(stack[p]) \in {0, 1} /\ \A q \in Processes : Len(stack[q]) \in Nat
  BY <1>1, EmptySeq, LenProperties
<1>8. ASSUME NEW q \in Processes
      PROVE  /\ Len(stack'[q]) <= 2
             /\ \A i \in 1..Len(stack'[q]) : home'[stack'[q][i]] = q /\ pc'[stack'[q][i]] \in Locked
             /\ Len(stack'[q]) = 2 =>
                  pc'[stack'[q][1]] \in {"lookup", "add"} /\ pc'[stack'[q][2]] \in Closing
  <2>1. CASE q = p
    <3>1. \A i \in 1..Len(r) : i \in 1..Len(stack[p]) \/ i = Len(stack[p]) + 1
      BY <1>2, <1>7
    <3>2. \A i \in 1..Len(r) : home'[r[i]] = p /\ pc'[r[i]] \in Locked
      BY <1>2, <1>5, <1>6, <3>1 DEF Stacks
    <3>3. Len(r) = 2 => pc'[r[1]] \in {"lookup", "add"} /\ pc'[r[2]] \in Closing
      <4>1. CASE stack[p] = <<>>
        BY <1>2, <4>1, EmptySeq
      <4>2. CASE Len(stack[p]) = 1 /\ pc[stack[p][1]] \in {"lookup", "add"} /\ label \in Closing
        BY <1>2, <1>5, <1>6, <4>2
      <4> QED
        BY <4>1, <4>2
    <3> QED
      BY <1>2, <1>4, <1>7, <2>1, <3>2, <3>3
  <2>2. CASE q # p
    BY <1>4, <1>5, <1>6, <1>7, <2>2 DEF Stacks
  <2> QED
    BY <2>1, <2>2
<1>9. ASSUME NEW b \in Adapters, pc'[b] \in Locked
      PROVE  \E i \in 1..Len(stack'[home'[b]]) : stack'[home'[b]][i] = b
  <2>1. CASE b = a
    <3>1. Len(r) \in 1..Len(r) /\ r[Len(r)] = a
      BY <1>2, <1>7
    <3> QED
      BY <1>4, <1>5, <2>1, <3>1
  <2>2. CASE b # a
    <3>1. PICK i \in 1..Len(stack[home[b]]) : stack[home[b]][i] = b
      BY <1>5, <1>9, <2>2 DEF Stacks
    <3>2. CASE home[b] = p
      <4>1. i \in 1..Len(stack[p]) /\ stack[p][i] = b
        BY <3>1, <3>2
      <4>2. i \in 1..Len(r) /\ r[i] = b
        BY <1>2, <1>7, <4>1
      <4>3. home'[b] = p
        BY <1>5, <2>2, <3>2
      <4> QED
        BY <1>4, <4>2, <4>3
    <3>3. CASE home[b] # p
      BY <1>1, <1>3, <1>5, <2>2, <3>1, <3>3
    <3> QED
      BY <3>2, <3>3
  <2> QED
    BY <2>1, <2>2
<1> QED
  BY <1>4, <1>8, <1>9 DEF Stacks

(* A step outside the lock. *)
LEMMA StaysOutside ==
  ASSUME TypeOK, Stacks, NEW a \in Adapters, pc[a] \notin Locked,
         NEW label \in Labels \ Locked, Goes(a, label), UNCHANGED <<stack, home>>
  PROVE  Stacks'
<1>1. pc \in [Adapters -> Labels] /\ stack \in [Processes -> Seq(Adapters)]
  BY DEF TypeOK
<1>2. pc'[a] = label /\ \A b \in Adapters : b # a => pc'[b] = pc[b]
  BY <1>1 DEF Goes
<1>3. \A p \in Processes : \A i \in 1..Len(stack[p]) : stack[p][i] \in Adapters /\ stack[p][i] # a
  BY <1>1, ElementOfSeq DEF Stacks
<1>4. \A p \in Processes : Len(stack[p]) \in Nat
  BY <1>1, LenProperties
<1> QED
  BY <1>2, <1>3, <1>4 DEF Stacks

-------------------------------------------------------------------------------
(* Each action preserves OwnerInv *)

(* A registered state stays so while its file is open and its client as it *)
(* is, if nobody lets go of it.                                            *)
LEMMA RegistrationStays ==
  ASSUME TypeOK, Registered, NEW p \in Processes, registry'[p] = registry[p],
         registry[p] # None =>
           LET s == registry[p] IN
           /\ p \in alive' /\ home'[s] = p /\ client'[s] = client[s]
           /\ p \in files'[s] <=> p \in files[s]
           /\ \A b \in Adapters : state[b] = s /\ pc[b] \in Holding =>
                state'[b] = s /\ pc'[b] \in Holding
  PROVE  RegisteredAt(p)'
<1> DEFINE r == registry[p]
<1> SUFFICES ASSUME r # None
             PROVE  /\ p \in alive' /\ home'[r] = p /\ client'[r] # "none"
                    /\ p \in files'[r] \/ client'[r] = "closed"
                    /\ \/ client'[r] = "broken"
                       \/ client'[r] = "closed" /\ p \notin files'[r]
                       \/ \E b \in Adapters : state'[b] = r /\ pc'[b] \in Holding
  BY DEF RegisteredAt
<1>1. /\ client[r] # "none"
      /\ p \in files[r] \/ client[r] = "closed"
      /\ \/ client[r] = "broken"
         \/ client[r] = "closed" /\ p \notin files[r]
         \/ \E a \in Adapters : state[a] = r /\ pc[a] \in Holding
  BY DEF Registered, RegisteredAt
<1> QED
  BY <1>1

(* A state without a client is not registered. *)
LEMMA NewIsUnregistered ==
  ASSUME Registered, NEW a \in Adapters, client[a] = "none", NEW p \in Processes
  PROVE  registry[p] # a
<1> SUFFICES ASSUME registry[p] = a PROVE FALSE
  OBVIOUS
<1>1. RegisteredAt(p) /\ a # None
  BY NoneIsNobody DEF Registered
<1> QED
  BY <1>1 DEF RegisteredAt

(* RegistrationStays for every process, when only the adapter a steps.     *)
LEMMA RegisteredStays ==
  ASSUME TypeOK, Registered, UNCHANGED <<alive, registry, client>>, NEW a \in Adapters,
         \A b \in Adapters : b # a => pc'[b] = pc[b] /\ state'[b] = state[b],
         \A b \in Adapters : home[b] # None => home'[b] = home[b],
         \A b \in Adapters : client[b] # "none" => files'[b] = files[b],
         pc[a] \in Holding => pc'[a] \in Holding /\ state'[a] = state[a]
  PROVE  Registered'
<1> SUFFICES ASSUME NEW p \in Processes PROVE RegisteredAt(p)'
  BY DEF Registered
<1>1. registry[p] # None =>
         /\ p \in alive /\ home[registry[p]] = p /\ client[registry[p]] # "none"
         /\ registry[p] \in Adapters /\ p # None
  BY NoneIsNobody DEF Registered, RegisteredAt, TypeOK
<1> QED
  BY <1>1, RegistrationStays

(* A constructor starts under the lock. *)
LEMMA ConstructInv ==
  ASSUME OwnerInv, NEW a \in Adapters, NEW p \in Processes, Construct(a, p)
  PROVE  OwnerInv'
<1> USE DEF OwnerInv
<1>0. /\ pc \in [Adapters -> Labels] /\ home \in [Adapters -> Processes \cup {None}]
      /\ stack \in [Processes -> Seq(Adapters)]
      /\ state \in [Adapters -> Adapters \cup {None}]
      /\ pc[a] = "new" /\ home[a] = None /\ p \in alive /\ None \notin Processes
  BY NoneIsNobody DEF TypeOK, Construct, Homes
<1>1. /\ pc' = [pc EXCEPT ![a] = "lookup"] /\ home' = [home EXCEPT ![a] = p]
      /\ UNCHANGED <<alive, spent, registry, state, members, client, files>>
  BY DEF Construct, Goes
<1>2. Stacks' /\ stack' \in [Processes -> Seq(Adapters)]
  BY <1>0, EntersLock DEF Construct, Locked
<1>3. TypeOK'
  BY <1>0, <1>1, <1>2 DEF TypeOK, Labels, ConstructorLabels
<1>4. Homes'
  BY <1>0, <1>1 DEF Homes
<1>5. States'
  BY <1>0, <1>1 DEF States, Holding, Leasing, Closing
<1>6. Members'
  BY <1>0, <1>1 DEF Members, States, Leasing, TypeOK
<1>7. Registered'
  BY <1>0, <1>1, RegisteredStays DEF Holding, Leasing, Closing
<1>8. Clients' /\ Makers' /\ Closers'
  BY <1>0, <1>1 DEF Clients, Makers, Closers, WorksOnRoot, Closing
<1>9. Files'
  BY <1>0, <1>1 DEF Files
<1> QED
  BY <1>2, <1>3, <1>4, <1>5, <1>6, <1>7, <1>8, <1>9

(* A constructor finds the state of its process, or that there is none, or *)
(* one that nobody uses and that did not close.                            *)
LEMMA LookupInv ==
  ASSUME OwnerInv, NEW a \in Adapters, Lookup(a)
  PROVE  OwnerInv'
<1> USE DEF OwnerInv
<1>0. /\ pc \in [Adapters -> Labels] /\ home \in [Adapters -> Processes \cup {None}]
      /\ stack \in [Processes -> Seq(Adapters)] /\ state \in [Adapters -> Adapters \cup {None}]
      /\ registry \in [Processes -> Adapters \cup {None}]
      /\ pc[a] = "lookup" /\ home[a] \in alive /\ home[a] \in Processes /\ Running(a)
      /\ None \notin Adapters
  BY NoneIsNobody DEF TypeOK, Lookup, Homes
<1>1. UNCHANGED <<alive, spent, registry, home, members, client, files>>
  BY DEF Lookup
<1>2. CASE registry[home[a]] = None
  <2>1. pc' = [pc EXCEPT ![a] = "open"] /\ UNCHANGED <<state, stack>>
    BY <1>2 DEF Lookup, Goes
  <2>2. Stacks'
    BY <1>0, <1>1, <2>1, StaysInside DEF Locked, Closing, Goes
  <2>3. TypeOK' /\ Homes' /\ States'
    BY <1>0, <1>1, <2>1 DEF TypeOK, Labels, ConstructorLabels, Homes, States, Holding, Leasing,
       Closing
  <2>4. Members'
    BY <1>0, <1>1, <2>1 DEF Members, Leasing, TypeOK
  <2>6. Registered'
    BY <1>0, <1>1, <2>1, RegisteredStays DEF Holding, Leasing, Closing
  <2>7. Clients' /\ Makers' /\ Closers' /\ Files'
    BY <1>0, <1>1, <1>2, <2>1 DEF Clients, Makers, Closers, Files, WorksOnRoot, Closing
  <2> QED
    BY <2>2, <2>3, <2>4, <2>6, <2>7
<1>3. CASE registry[home[a]] # None /\ members[registry[home[a]]] = {}
  <2>1. pc' = [pc EXCEPT ![a] = "failed"] /\ Exits(a) /\ UNCHANGED state
    BY <1>3 DEF Lookup, Goes
  <2>2. Stacks' /\ stack' \in [Processes -> Seq(Adapters)]
    BY <1>0, <1>1, <2>1, LeavesLock DEF Locked, Labels, Goes
  <2>3. TypeOK' /\ Homes' /\ States'
    BY <1>0, <1>1, <2>1, <2>2 DEF TypeOK, Labels, ConstructorLabels, Homes, States, Holding,
       Leasing, Closing
  <2>4. Members'
    BY <1>0, <1>1, <2>1 DEF Members, Leasing, TypeOK
  <2>6. Registered'
    BY <1>0, <1>1, <2>1, RegisteredStays DEF Holding, Leasing, Closing
  <2>7. Clients' /\ Makers' /\ Closers' /\ Files'
    BY <1>0, <1>1, <1>3, <2>1 DEF Clients, Makers, Closers, Files, WorksOnRoot, Closing
  <2> QED
    BY <2>2, <2>3, <2>4, <2>6, <2>7
<1>4. CASE registry[home[a]] # None /\ members[registry[home[a]]] # {}
  <2> DEFINE s == registry[home[a]]
  <2>1. pc' = [pc EXCEPT ![a] = "add"] /\ state' = [state EXCEPT ![a] = s] /\ UNCHANGED stack
    BY <1>4 DEF Lookup, Goes
  <2>2. s \in Adapters /\ home[s] = home[a] /\ state[a] = None
        /\ pc[s] \notin {"new", "lookup", "open", "client"}
    BY <1>0, <1>4 DEF Registered, RegisteredAt, States
  <2>3. Stacks'
    BY <1>0, <1>1, <2>1, StaysInside DEF Locked, Closing, Goes
  <2>4. TypeOK' /\ Homes'
    BY <1>0, <1>1, <2>1, <2>2 DEF TypeOK, Labels, ConstructorLabels, Homes
  <2>5. States'
    BY <1>0, <1>1, <2>1, <2>2 DEF States, Holding, Leasing, Closing, Homes
  <2>6. Members'
    BY <1>0, <1>1, <2>1, <2>2 DEF Members, Leasing, TypeOK
  <2>7. Registered'
    BY <1>0, <1>1, <2>1, RegisteredStays DEF Holding, Leasing, Closing
  <2>8. Clients' /\ Makers' /\ Closers' /\ Files'
    BY <1>0, <1>1, <2>1 DEF Clients, Makers, Closers, Files, WorksOnRoot, Closing
  <2> QED
    BY <2>3, <2>4, <2>5, <2>6, <2>7, <2>8
<1> QED
  BY <1>2, <1>3, <1>4

(* The lock file is opened where no process has it open. *)
LEMMA OpenFileInv ==
  ASSUME OwnerInv, NEW a \in Adapters, OpenFile(a)
  PROVE  OwnerInv'
<1> USE DEF OwnerInv
<1>0. /\ pc \in [Adapters -> Labels] /\ home \in [Adapters -> Processes \cup {None}]
      /\ stack \in [Processes -> Seq(Adapters)] /\ state \in [Adapters -> Adapters \cup {None}]
      /\ files \in [Adapters -> SUBSET Processes]
      /\ pc[a] = "open" /\ home[a] \in alive /\ home[a] \in Processes /\ Running(a)
  BY DEF TypeOK, OpenFile, Homes
<1>1. UNCHANGED <<alive, spent, registry, home, state, members, client>>
  BY DEF OpenFile
<1>2. CASE Goes(a, "failed") /\ Exits(a) /\ UNCHANGED files
  <2>1. pc' = [pc EXCEPT ![a] = "failed"]
    BY <1>2 DEF Goes
  <2>2. Stacks' /\ stack' \in [Processes -> Seq(Adapters)]
    BY <1>0, <1>1, <1>2, LeavesLock DEF Locked, Labels
  <2>3. TypeOK' /\ Homes' /\ States'
    BY <1>0, <1>1, <1>2, <2>1, <2>2 DEF TypeOK, Labels, ConstructorLabels, Homes, States,
       Holding, Leasing, Closing
  <2>4. Members'
    BY <1>0, <1>1, <1>2, <2>1 DEF Members, Leasing, TypeOK
  <2>6. Registered'
    BY <1>0, <1>1, <1>2, <2>1, RegisteredStays DEF Holding, Leasing, Closing
  <2>7. Clients' /\ Makers' /\ Closers' /\ Files'
    BY <1>0, <1>1, <1>2, <2>1 DEF Clients, Makers, Closers, Files, WorksOnRoot, Closing
  <2> QED
    BY <2>2, <2>3, <2>4, <2>6, <2>7
<1>3. CASE /\ \A s \in Adapters : files[s] = {}
           /\ files' = [files EXCEPT ![a] = {home[a]}]
           /\ Goes(a, "client") /\ UNCHANGED stack
  <2>1. pc' = [pc EXCEPT ![a] = "client"]
    BY <1>3 DEF Goes
  <2>2. Stacks'
    BY <1>0, <1>1, <1>3, StaysInside DEF Locked, Closing
  <2>3. TypeOK' /\ Homes' /\ States'
    BY <1>0, <1>1, <1>3, <2>1 DEF TypeOK, Labels, ConstructorLabels, Homes, States, Holding,
       Leasing, Closing
  <2>4. Members'
    BY <1>0, <1>1, <1>3, <2>1 DEF Members, Leasing, TypeOK
  <2>6. Registered'
    <3>1. \A b \in Adapters : client[b] # "none" => files'[b] = files[b]
      BY <1>0, <1>3 DEF States
    <3> QED
      BY <1>0, <1>1, <2>1, <3>1, RegisteredStays DEF Holding, Leasing, Closing
  <2>7. Clients' /\ Makers' /\ Closers' /\ Files'
    BY <1>0, <1>1, <1>3, <2>1 DEF Clients, Makers, Closers, Files, WorksOnRoot, Closing
  <2> QED
    BY <2>2, <2>3, <2>4, <2>6, <2>7
<1> QED
  BY <1>2, <1>3 DEF OpenFile

(* The client starts under the lock file, which is closed again if it      *)
(* cannot; the new state is the only one its process has registered.       *)
LEMMA StartClientInv ==
  ASSUME OwnerInv, NEW a \in Adapters, StartClient(a)
  PROVE  OwnerInv'
<1> USE DEF OwnerInv
<1> DEFINE p == home[a]
<1>0. /\ pc \in [Adapters -> Labels] /\ home \in [Adapters -> Processes \cup {None}]
      /\ stack \in [Processes -> Seq(Adapters)] /\ state \in [Adapters -> Adapters \cup {None}]
      /\ files \in [Adapters -> SUBSET Processes]
      /\ registry \in [Processes -> Adapters \cup {None}]
      /\ pc[a] = "client" /\ p \in alive /\ p \in Processes /\ p \in spent /\ Running(a)
      /\ registry[p] = None /\ None \notin Adapters /\ None \notin Processes
  BY NoneIsNobody DEF TypeOK, StartClient, Homes, Makers
<1>1. UNCHANGED <<alive, spent, home, members>>
  BY DEF StartClient
<1>2. CASE /\ files' = [files EXCEPT ![a] = @ \ {p}]
           /\ Goes(a, "failed") /\ Exits(a)
           /\ UNCHANGED <<registry, state, client>>
  <2>1. pc' = [pc EXCEPT ![a] = "failed"]
    BY <1>2 DEF Goes
  <2>2. Stacks' /\ stack' \in [Processes -> Seq(Adapters)]
    BY <1>0, <1>1, <1>2, LeavesLock DEF Locked, Labels
  <2>3. TypeOK' /\ Homes' /\ States'
    BY <1>0, <1>1, <1>2, <2>1, <2>2 DEF TypeOK, Labels, ConstructorLabels, Homes, States,
       Holding, Leasing, Closing
  <2>4. Members'
    BY <1>0, <1>1, <1>2, <2>1 DEF Members, Leasing, TypeOK
  <2>5. client[a] = "none" /\ \A q \in Processes : registry[q] # a
    <3>1. client[a] = "none" /\ \A b \in Adapters : state[b] # a
      BY <1>0 DEF States
    <3> QED
      BY <1>0, <3>1, NewIsUnregistered
  <2>6. Registered'
    <3>1. ASSUME NEW q \in Processes, registry[q] # None
          PROVE  /\ q \in alive /\ home[registry[q]] = q
                 /\ files'[registry[q]] = files[registry[q]]
      BY <1>0, <1>2, <2>5, <3>1 DEF Registered, RegisteredAt, TypeOK
    <3>2. pc[a] \notin Holding /\ \A b \in Adapters : b # a => pc'[b] = pc[b]
      BY <1>0, <2>1 DEF Holding, Leasing, Closing
    <3> QED
      BY <1>1, <1>2, <3>1, <3>2, RegistrationStays DEF Registered
  <2>7. Clients' /\ Makers' /\ Closers' /\ Files'
    <3>1. Clients' /\ Makers' /\ Closers'
      BY <1>0, <1>1, <1>2, <2>1 DEF Clients, Makers, Closers, WorksOnRoot, Closing
    <3>2. \A b \in Adapters : b # a => files'[b] = files[b] /\ pc'[b] = pc[b]
      BY <1>0, <1>2, <2>1
    <3>3. files'[a] = files[a] \ {p} /\ pc'[a] = "failed"
      BY <1>0, <1>2, <2>1
    <3>4. Files'
      BY <1>1, <3>2, <3>3 DEF Files
    <3> QED
      BY <3>1, <3>4
  <2> QED
    BY <2>2, <2>3, <2>4, <2>6, <2>7
<1>3. CASE /\ client' = [client EXCEPT ![a] = "open"]
           /\ registry' = [registry EXCEPT ![p] = a]
           /\ state' = [state EXCEPT ![a] = a]
           /\ Goes(a, "add") /\ UNCHANGED <<files, stack>>
  <2>1. pc' = [pc EXCEPT ![a] = "add"]
    BY <1>3 DEF Goes
  <2>2. Stacks'
    BY <1>0, <1>1, <1>3, StaysInside DEF Locked, Closing
  <2>3. TypeOK' /\ Homes'
    BY <1>0, <1>1, <1>3, <2>1 DEF TypeOK, Labels, ConstructorLabels, Homes
  <2>4. States'
    BY <1>0, <1>1, <1>3, <2>1 DEF States, Holding, Leasing, Closing, TypeOK
  <2>5. /\ members[a] = {} /\ client[a] = "none"
        /\ \A b \in Adapters : state[b] # a /\ (b # a /\ home[b] = p => pc[b] \notin Locked)
        /\ \A q \in Processes : registry[q] # a
    <3>1. members[a] = {} /\ client[a] = "none" /\ \A b \in Adapters : state[b] # a
      BY <1>0 DEF States
    <3>2. \A b \in Adapters : b # a /\ home[b] = p => pc[b] \notin Locked
      BY <1>0, Alone DEF Locked, Closing
    <3>3. \A q \in Processes : registry[q] # a
      BY <1>0, <3>1, NewIsUnregistered
    <3> QED
      BY <3>1, <3>2, <3>3
  <2>6. Members'
    BY <1>0, <1>1, <1>3, <2>1, <2>5 DEF Members, Leasing, TypeOK
  <2>7. Registered'
    <3>1. ASSUME NEW q \in Processes, q = p
          PROVE  RegisteredAt(q)'
      <4>1. p \in files[a] /\ client'[a] = "open" /\ state'[a] = a /\ pc'[a] \in Holding
            /\ registry'[p] = a
        BY <1>0, <1>3, <2>1 DEF Files, TypeOK, Holding
      <4> QED
        BY <1>0, <1>1, <1>3, <3>1, <4>1 DEF RegisteredAt, WorksOnRoot
    <3>2. ASSUME NEW q \in Processes, q # p
          PROVE  RegisteredAt(q)'
      <4>1. registry'[q] = registry[q]
        BY <1>0, <1>3, <3>2
      <4>2. registry[q] # None =>
              LET s == registry[q] IN
              /\ q \in alive /\ home[s] = q /\ client'[s] = client[s]
              /\ \A b \in Adapters : state[b] = s => b # a
        BY <1>0, <1>3, <2>5 DEF Registered, RegisteredAt, TypeOK, States
      <4>3. \A b \in Adapters : b # a => state'[b] = state[b] /\ pc'[b] = pc[b]
        BY <1>0, <1>3, <2>1
      <4> QED
        BY <1>1, <1>3, <4>1, <4>2, <4>3, RegistrationStays
    <3> QED
      BY <3>1, <3>2 DEF Registered
  <2>8. Clients' /\ Makers' /\ Files'
    <3>1. Clients'
      BY <1>0, <1>1, <1>3, <2>5 DEF Clients, WorksOnRoot, TypeOK
    <3>2. Makers'
      BY <1>0, <1>1, <1>3, <2>1, <2>5 DEF Makers, Locked
    <3>3. Files'
      <4>1. \A b \in Adapters : pc'[b] = "client" => pc[b] = "client"
        BY <1>0, <2>1
      <4> QED
        BY <1>1, <1>3, <4>1 DEF Files
    <3> QED
      BY <3>1, <3>2, <3>3
  <2>9. Closers'
    BY <1>0, <1>1, <1>3, <2>1, <2>5 DEF Closers, WorksOnRoot, Closing, Locked, TypeOK
  <2> QED
    BY <2>2, <2>3, <2>4, <2>6, <2>7, <2>8, <2>9
<1> QED
  BY <1>2, <1>3 DEF StartClient

(* The adapter joins its state, and its constructor leaves the lock. *)
LEMMA AddLeaseInv ==
  ASSUME OwnerInv, NEW a \in Adapters, AddLease(a)
  PROVE  OwnerInv'
<1> USE DEF OwnerInv
<1>0. /\ pc \in [Adapters -> Labels] /\ home \in [Adapters -> Processes \cup {None}]
      /\ stack \in [Processes -> Seq(Adapters)] /\ state \in [Adapters -> Adapters \cup {None}]
      /\ members \in [Adapters -> SUBSET Adapters]
      /\ pc[a] = "add" /\ home[a] \in alive /\ home[a] \in Processes /\ Running(a)
      /\ state[a] # None /\ state[a] \in Adapters
  BY DEF TypeOK, AddLease, Homes, States, Holding
<1>1. /\ pc' = [pc EXCEPT ![a] = "setup"] /\ Exits(a)
      /\ members' = [members EXCEPT ![state[a]] = @ \cup {a}]
      /\ UNCHANGED <<alive, spent, registry, home, state, client, files>>
  BY DEF AddLease, Goes
<1>2. Stacks' /\ stack' \in [Processes -> Seq(Adapters)]
  BY <1>0, <1>1, LeavesLock DEF Locked, Labels, ConstructorLabels, Goes
<1>3. TypeOK' /\ Homes'
  BY <1>0, <1>1, <1>2 DEF TypeOK, Labels, ConstructorLabels, Homes
<1>4. States'
  BY <1>0, <1>1 DEF States, Holding, Leasing, Closing
<1>5. Members'
  BY <1>0, <1>1 DEF Members, Leasing
<1>6. Registered'
  BY <1>0, <1>1, RegisteredStays DEF Holding, Leasing, Closing
<1>7. Clients' /\ Makers' /\ Files'
  BY <1>0, <1>1 DEF Clients, Makers, Files, WorksOnRoot
<1>8. Closers'
  <2>1. ASSUME NEW b \in Adapters, pc[b] \in Closing
        PROVE  state[b] # state[a]
    <3>1. SUFFICES ASSUME state[b] = state[a] PROVE FALSE
      OBVIOUS
    <3>2. home[b] = home[a]
      BY <1>0, <2>1, <3>1 DEF States
    <3> QED
      BY <1>0, <2>1, <3>2, Alone DEF Locked, Closing
  <2> QED
    BY <1>0, <1>1, <2>1 DEF Closers, WorksOnRoot, Closing
<1> QED
  BY <1>2, <1>3, <1>4, <1>5, <1>6, <1>7, <1>8

(* The finalizer is registered or not, the adapter given up, in no lock. *)
LEMMA MovesOutside ==
  ASSUME OwnerInv, NEW a \in Adapters, pc[a] \in Leasing, NEW label \in Leasing, Goes(a, label),
         UNCHANGED <<alive, spent, registry, stack, home, state, members, client, files>>
  PROVE  OwnerInv'
<1> USE DEF OwnerInv
<1>0. pc \in [Adapters -> Labels] /\ pc' = [pc EXCEPT ![a] = label] /\ label \in Labels
  BY DEF TypeOK, Goes, Leasing, Labels, ConstructorLabels
<1>1. Stacks'
  BY <1>0, StaysOutside DEF Leasing, Locked, Goes
<1>2. TypeOK' /\ Homes' /\ States'
  BY <1>0 DEF TypeOK, Homes, States, Holding, Leasing, Closing
<1>3. Members'
  BY <1>0 DEF Members, Leasing, TypeOK
<1>4. Registered'
  BY <1>0, RegisteredStays DEF Holding, Leasing, Closing
<1>5. Clients' /\ Makers' /\ Closers' /\ Files'
  BY <1>0 DEF Clients, Makers, Closers, Files, WorksOnRoot, Closing, Leasing
<1> QED
  BY <1>1, <1>2, <1>3, <1>4, <1>5

(* A finalizer that finds its state gone does nothing; one that finds      *)
(* itself there leaves, and closes the state when it was the last.         *)
LEMMA FinalizeInv ==
  ASSUME OwnerInv, NEW a \in Adapters, Finalize(a)
  PROVE  OwnerInv'
<1> USE DEF OwnerInv
<1> DEFINE s == state[a]
           p == home[a]
<1>0. /\ pc \in [Adapters -> Labels] /\ home \in [Adapters -> Processes \cup {None}]
      /\ stack \in [Processes -> Seq(Adapters)] /\ state \in [Adapters -> Adapters \cup {None}]
      /\ members \in [Adapters -> SUBSET Adapters]
      /\ registry \in [Processes -> Adapters \cup {None}]
      /\ pc[a] \in {"garbage", "undo"} /\ p \in alive /\ p \in Processes
      /\ s # None /\ s \in Adapters /\ home[s] = p /\ a \in members[s]
      /\ None \notin Adapters /\ None \notin Processes
  BY NoneIsNobody DEF TypeOK, Finalize, Homes, States, Members, Holding, Leasing
<1>1. UNCHANGED <<alive, spent, registry, home, state, client, files>>
  BY DEF Finalize
<1>2. CASE registry[p] # s
  <2>1. pc' = [pc EXCEPT ![a] = "dead"] /\ UNCHANGED <<members, stack>>
    BY <1>2 DEF Finalize, Goes
  <2>2. Stacks'
    BY <1>0, <1>1, <2>1, StaysOutside DEF Locked, Labels, Goes
  <2>3. TypeOK' /\ Homes' /\ States'
    BY <1>0, <1>1, <2>1 DEF TypeOK, Labels, Homes, States, Holding, Leasing, Closing
  <2>4. Members'
    BY <1>0, <1>1, <1>2, <2>1 DEF Members, Leasing
  <2>5. Registered'
    <3>1. ASSUME NEW q \in Processes, registry[q] # None
          PROVE  q \in alive /\ home[registry[q]] = q /\ registry[q] # s
      BY <1>0, <1>2, <3>1 DEF Registered, RegisteredAt
    <3>2. \A b \in Adapters : b # a => pc'[b] = pc[b]
      BY <1>0, <2>1
    <3> QED
      BY <1>1, <3>1, <3>2, RegistrationStays DEF Registered
  <2>6. Clients' /\ Makers' /\ Closers' /\ Files'
    BY <1>0, <1>1, <2>1 DEF Clients, Makers, Closers, Files, WorksOnRoot, Closing
  <2> QED
    BY <2>2, <2>3, <2>4, <2>5, <2>6
<1>3. CASE registry[p] = s /\ members[s] # {a}
  <2>1. pc' = [pc EXCEPT ![a] = "dead"] /\ members' = [members EXCEPT ![s] = @ \ {a}]
        /\ UNCHANGED stack
    BY <1>0, <1>3 DEF Finalize, Goes
  <2>2. Stacks'
    BY <1>0, <1>1, <2>1, StaysOutside DEF Locked, Labels, Goes
  <2>3. TypeOK' /\ Homes' /\ States'
    BY <1>0, <1>1, <2>1 DEF TypeOK, Labels, Homes, States, Holding, Leasing, Closing
  <2>4. Members'
    BY <1>0, <1>1, <2>1 DEF Members, Leasing
  <2>5. PICK b \in members[s] : b # a
    BY <1>0, <1>3
  <2>6. b \in Adapters /\ state[b] = s /\ pc[b] \in Leasing /\ pc'[b] = pc[b]
    BY <1>0, <1>3, <2>1, <2>5 DEF Members
  <2>7. Registered'
    <3>1. ASSUME NEW q \in Processes, q # p
          PROVE  RegisteredAt(q)'
      <4>1. registry[q] # None => /\ q \in alive /\ home[registry[q]] = q
                                  /\ registry[q] # s
        BY <1>0, <3>1 DEF Registered, RegisteredAt
      <4>2. \A c \in Adapters : c # a => pc'[c] = pc[c]
        BY <1>0, <2>1
      <4> QED
        BY <1>1, <4>1, <4>2, RegistrationStays
    <3>2. ASSUME NEW q \in Processes, q = p
          PROVE  RegisteredAt(q)'
      <4>1. /\ q \in alive' /\ home'[s] = q /\ registry'[q] = s /\ client'[s] # "none"
            /\ q \in files'[s] \/ client'[s] = "closed"
        BY <1>0, <1>1, <1>3, <3>2 DEF Registered, RegisteredAt
      <4>2. b \in Adapters /\ state'[b] = s /\ pc'[b] \in Holding
        BY <1>1, <2>6 DEF Holding
      <4> QED
        BY <4>1, <4>2 DEF RegisteredAt
    <3> QED
      BY <3>1, <3>2 DEF Registered
  <2>8. Clients' /\ Makers' /\ Files'
    BY <1>0, <1>1, <2>1 DEF Clients, Makers, Files, WorksOnRoot
  <2>9. Closers'
    BY <1>0, <1>1, <2>1 DEF Closers, WorksOnRoot, Closing
  <2> QED
    BY <2>2, <2>3, <2>4, <2>7, <2>8, <2>9
<1>4. CASE registry[p] = s /\ members[s] = {a}
  <2>1. pc' = [pc EXCEPT ![a] = "close"] /\ members' = [members EXCEPT ![s] = @ \ {a}]
        /\ Enter(a, p)
    BY <1>0, <1>4 DEF Finalize, Goes
  <2>2. Stacks' /\ stack' \in [Processes -> Seq(Adapters)]
    <3>1. home = [home EXCEPT ![a] = p]
      BY <1>0
    <3>2. CASE stack[p] = <<>>
      BY <1>0, <1>1, <2>1, <3>1, <3>2, EntersLock DEF Locked, Closing, Goes
    <3>3. CASE stack[p] # <<>>
      <4>1. stack[p] \in Seq(Adapters) /\ Len(stack[p]) \in Nat \ {0}
        BY <1>0, <3>3, EmptySeq, LenProperties
      <4>2. \A i \in 1..Len(stack[p]) : /\ stack[p][i] \in Adapters /\ home[stack[p][i]] = p
                                        /\ pc[stack[p][i]] \in {"lookup", "add"}
        <5>1. \A i \in 1..Len(stack[p]) : stack[p][i] \in Adapters /\ home[stack[p][i]] = p
                                          /\ pc[stack[p][i]] \in Locked
          BY <1>0, <4>1, ElementOfSeq DEF Stacks
        <5>2. ASSUME NEW b \in Adapters, home[b] = p
              PROVE  pc[b] \notin {"open", "client"} \cup Closing
          <6>1. pc[b] \in {"open", "client"} => registry[p] = None
            BY <5>2 DEF Makers
          <6>2. pc[b] \in Closing => members[registry[p]] = {}
            BY <5>2 DEF Closers
          <6> QED
            BY <1>0, <1>4, <6>1, <6>2
        <5> QED
          BY <5>1, <5>2 DEF Locked, Closing
      <4>3. Len(stack[p]) <= 2 /\ Len(stack[p]) # 2
        BY <1>0, <4>2 DEF Stacks, Closing
      <4>4. Len(stack[p]) = 1
        <5>1. \A n \in Nat \ {0} : n <= 2 /\ n # 2 => n = 1
          OBVIOUS
        <5> QED
          BY <4>1, <4>3, <5>1
      <4>5. pc[stack[p][1]] \in {"lookup", "add"}
        BY <4>2, <4>4
      <4>6. "close" \in Locked /\ "close" \in Closing /\ pc[a] \notin Locked
        BY <1>0 DEF Locked, Closing
      <4>7. Goes(a, "close") /\ home' = [home EXCEPT ![a] = p]
        BY <1>1, <2>1, <3>1 DEF Goes
      <4> QED
        BY <1>0, <2>1, <4>4, <4>5, <4>6, <4>7, EntersLock
    <3> QED
      BY <3>2, <3>3
  <2>3. TypeOK' /\ Homes' /\ States'
    BY <1>0, <1>1, <2>1, <2>2 DEF TypeOK, Labels, ConstructorLabels, Homes, States, Holding,
       Leasing, Closing
  <2>4. Members'
    BY <1>0, <1>1, <2>1 DEF Members, Leasing
  <2>5. Registered'
    BY <1>0, <1>1, <2>1, RegisteredStays DEF Holding, Leasing, Closing
  <2>6. Clients' /\ Makers' /\ Files'
    BY <1>0, <1>1, <2>1 DEF Clients, Makers, Files, WorksOnRoot
  <2>7. Closers'
    BY <1>0, <1>1, <1>4, <2>1 DEF Closers, Closing
  <2> QED
    BY <2>2, <2>3, <2>4, <2>5, <2>6, <2>7
<1> QED
  BY <1>2, <1>3, <1>4

(* The client of the state closes, or will never be used again. *)
LEMMA CloseClientInv ==
  ASSUME OwnerInv, NEW a \in Adapters, CloseClient(a)
  PROVE  OwnerInv'
<1> USE DEF OwnerInv
<1> DEFINE s == state[a]
           p == home[a]
<1>0. /\ pc \in [Adapters -> Labels] /\ home \in [Adapters -> Processes \cup {None}]
      /\ stack \in [Processes -> Seq(Adapters)] /\ state \in [Adapters -> Adapters \cup {None}]
      /\ client \in [Adapters -> {"none", "open", "broken", "closed"}]
      /\ pc[a] = "close" /\ p \in alive /\ p \in Processes /\ Running(a)
      /\ s \in Adapters /\ s # None /\ home[s] = p /\ registry[p] = s
      /\ pc[s] \notin {"new", "lookup", "open", "client"} /\ None \notin Processes
  <2>1. /\ pc[a] = "close" /\ Running(a) /\ pc[a] \in Holding /\ pc[a] \in Closing
        /\ pc \in [Adapters -> Labels] /\ home \in [Adapters -> Processes \cup {None}]
        /\ stack \in [Processes -> Seq(Adapters)] /\ state \in [Adapters -> Adapters \cup {None}]
        /\ client \in [Adapters -> {"none", "open", "broken", "closed"}]
    BY DEF TypeOK, CloseClient, Holding, Closing
  <2>2. p \in alive /\ p \in Processes
    BY <2>1 DEF Homes, TypeOK
  <2>3. /\ s \in Adapters /\ s # None /\ home[s] = p
        /\ pc[s] \notin {"new", "lookup", "open", "client"}
    BY <2>1 DEF States
  <2>4. registry[p] = s
    BY <2>1 DEF Closers
  <2> QED
    BY <2>1, <2>2, <2>3, <2>4, NoneIsNobody
<1>1. UNCHANGED <<alive, spent, registry, home, state, members, files>>
  BY DEF CloseClient
<1>2. \A b \in Adapters : b # a /\ pc[b] \in Closing => state[b] # s /\ home[b] # p
  <2>1. ASSUME NEW b \in Adapters, b # a, pc[b] \in Closing
        PROVE  state[b] # s /\ home[b] # p
    <3>1. home[b] # p
      BY <1>0, <2>1, Alone DEF Locked, Closing
    <3>2. home[state[b]] = home[b]
      BY <2>1 DEF States, Holding
    <3> QED
      BY <1>0, <3>1, <3>2
  <2> QED
    BY <2>1
<1>3. \A q \in Processes : q # p => registry[q] # s
  BY <1>0 DEF Registered, RegisteredAt
<1>4. ASSUME NEW result, client' = [client EXCEPT ![s] = result],
             \A b \in Adapters : b # a => pc'[b] = pc[b],
             NEW q \in Processes, q # p
      PROVE  RegisteredAt(q)'
  <2>1. registry[q] # None =>
          LET r == registry[q] IN
          /\ q \in alive /\ home[r] = q /\ client'[r] = client[r]
          /\ \A b \in Adapters : state[b] = r => b # a
    BY <1>0, <1>3, <1>4 DEF Registered, RegisteredAt, TypeOK
  <2> QED
    BY <1>1, <1>4, <2>1, RegistrationStays
<1>5. CASE /\ client[s] # "closed" /\ client' = [client EXCEPT ![s] = "broken"]
           /\ Goes(a, "dead") /\ Exits(a)
  <2>1. pc' = [pc EXCEPT ![a] = "dead"] /\ \A b \in Adapters : b # a => pc'[b] = pc[b]
    BY <1>0, <1>5 DEF Goes
  <2>2. Stacks' /\ stack' \in [Processes -> Seq(Adapters)]
    BY <1>0, <1>1, <1>5, LeavesLock DEF Locked, Labels
  <2>3. TypeOK' /\ Homes'
    BY <1>0, <1>1, <1>5, <2>1, <2>2 DEF TypeOK, Labels, Homes
  <2>4. States'
    BY <1>0, <1>1, <1>5, <2>1 DEF States, Holding, Leasing, Closing
  <2>5. Members'
    BY <1>0, <1>1, <2>1 DEF Members, Leasing
  <2>6. Registered'
    <3>1. ASSUME NEW q \in Processes, q = p
          PROVE  RegisteredAt(q)'
      <4>1. q \in alive /\ home[s] = q /\ q \in files[s] /\ client'[s] = "broken"
        BY <1>0, <1>5, <3>1 DEF Registered, RegisteredAt
      <4> QED
        BY <1>0, <1>1, <3>1, <4>1 DEF RegisteredAt
    <3> QED
      BY <1>4, <1>5, <2>1, <3>1 DEF Registered
  <2>7. Clients' /\ Makers' /\ Files'
    BY <1>0, <1>1, <1>5, <2>1 DEF Clients, Makers, Files, WorksOnRoot
  <2>8. Closers'
    BY <1>0, <1>1, <1>2, <1>5, <2>1 DEF Closers, WorksOnRoot, Closing
  <2> QED
    BY <2>2, <2>3, <2>4, <2>5, <2>6, <2>7, <2>8
<1>6. CASE /\ client' = [client EXCEPT ![s] = "closed"]
           /\ Goes(a, "unlock") /\ UNCHANGED stack
  <2>1. pc' = [pc EXCEPT ![a] = "unlock"] /\ \A b \in Adapters : b # a => pc'[b] = pc[b]
    BY <1>0, <1>6 DEF Goes
  <2>2. Stacks'
    BY <1>0, <1>1, <1>6, StaysInside DEF Locked, Closing
  <2>3. TypeOK' /\ Homes'
    BY <1>0, <1>1, <1>6, <2>1 DEF TypeOK, Labels, ConstructorLabels, Homes
  <2>4. States'
    BY <1>0, <1>1, <1>6, <2>1 DEF States, Holding, Leasing, Closing
  <2>5. Members'
    BY <1>0, <1>1, <2>1 DEF Members, Leasing
  <2>6. Registered'
    <3>1. ASSUME NEW q \in Processes, q = p
          PROVE  RegisteredAt(q)'
      <4>1. q \in alive /\ home[s] = q /\ client'[s] = "closed"
        BY <1>0, <1>6, <3>1 DEF Registered, RegisteredAt
      <4>2. state'[a] = s /\ pc'[a] = "unlock" /\ pc'[a] \in Holding
        BY <1>0, <1>1, <2>1 DEF Holding, Closing
      <4> QED
        BY <1>0, <1>1, <3>1, <4>1, <4>2 DEF RegisteredAt
    <3> QED
      BY <1>4, <1>6, <2>1, <3>1 DEF Registered
  <2>7. Clients' /\ Makers' /\ Files'
    BY <1>0, <1>1, <1>6, <2>1 DEF Clients, Makers, Files, WorksOnRoot
  <2>8. Closers'
    BY <1>0, <1>1, <1>2, <1>6, <2>1 DEF Closers, WorksOnRoot, Closing
  <2> QED
    BY <2>2, <2>3, <2>4, <2>5, <2>6, <2>7, <2>8
<1> QED
  BY <1>5, <1>6 DEF CloseClient

(* The lock file closes after the client, and the root can be opened again. *)
LEMMA CloseFileInv ==
  ASSUME OwnerInv, NEW a \in Adapters, CloseFile(a)
  PROVE  OwnerInv'
<1> USE DEF OwnerInv
<1> DEFINE s == state[a]
           p == home[a]
<1>0. /\ pc \in [Adapters -> Labels] /\ home \in [Adapters -> Processes \cup {None}]
      /\ stack \in [Processes -> Seq(Adapters)] /\ state \in [Adapters -> Adapters \cup {None}]
      /\ files \in [Adapters -> SUBSET Processes]
      /\ registry \in [Processes -> Adapters \cup {None}]
      /\ pc[a] = "unlock" /\ p \in alive /\ p \in Processes /\ Running(a)
      /\ s \in Adapters /\ s # None /\ home[s] = p /\ registry[p] = s /\ client[s] = "closed"
      /\ pc[s] \notin {"new", "lookup", "open", "client"}
  BY DEF TypeOK, CloseFile, Homes, States, Holding, Closing, Closers
<1>1. /\ pc' = [pc EXCEPT ![a] = "dead"] /\ Exits(a)
      /\ files' = [files EXCEPT ![s] = @ \ {p}]
      /\ \A q \in Processes : q # p => registry'[q] = registry[q]
      /\ registry'[p] \in {None, s} /\ registry' \in [Processes -> Adapters \cup {None}]
      /\ UNCHANGED <<alive, spent, home, state, members, client>>
  BY <1>0 DEF CloseFile, Goes
<1>2. \A b \in Adapters : b # a => pc'[b] = pc[b]
  BY <1>0, <1>1
<1>3. \A b \in Adapters : b # a /\ pc[b] \in Locked /\ home[b] = p => pc[b] \in {"lookup", "add"}
  BY <1>0, Alone DEF Locked
<1>4. \A q \in Processes : q # p => registry[q] # s
  BY <1>0 DEF Registered, RegisteredAt
<1>5. Stacks' /\ stack' \in [Processes -> Seq(Adapters)]
  BY <1>0, <1>1, LeavesLock DEF Locked, Labels, Goes
<1>6. TypeOK' /\ Homes'
  BY <1>0, <1>1, <1>5 DEF TypeOK, Labels, Homes
<1>7. States'
  BY <1>0, <1>1 DEF States, Holding, Leasing, Closing
<1>8. Members'
  <2>1. \A r, b \in Adapters : b \in members[r] => home[r] \in Processes
    BY <1>0 DEF Members, States, TypeOK, Homes, Leasing
  <2>2. \A q \in Processes : registry'[q] \in {registry[q], None}
    BY <1>0, <1>1
  <2>3. \A b \in Adapters : pc[b] \in Leasing => b # a
    BY <1>0 DEF Leasing
  <2>4. \A b \in Adapters : pc'[b] \in Leasing => pc[b] \in Leasing
    BY <1>0, <1>1, <1>2 DEF Leasing
  <2>5. ASSUME NEW r \in Adapters, NEW b \in members[r]
        PROVE  /\ state[b] = r
               /\ \/ pc'[b] \in Leasing
                  \/ pc'[b] = "dead" /\ registry'[home[r]] # r
    <3>1. b \in Adapters /\ home[r] \in Processes /\ r # None
      BY <2>1, <2>5, NoneIsNobody DEF TypeOK
    <3>2. b # a
      BY <1>0, <2>5, <3>1, SMTT(20) DEF Members, Leasing
    <3> QED
      BY <1>2, <2>2, <2>5, <3>1, <3>2 DEF Members
  <2> QED
    BY <1>1, <2>4, <2>5 DEF Members
<1>9. Registered'
  <2>1. ASSUME NEW q \in Processes, q = p
        PROVE  RegisteredAt(q)'
    <3>1. q \in alive' /\ home'[s] = q /\ client'[s] = "closed" /\ q \notin files'[s]
      BY <1>0, <1>1, <2>1
    <3> QED
      BY <1>1, <2>1, <3>1 DEF RegisteredAt
  <2>2. ASSUME NEW q \in Processes, q # p
        PROVE  RegisteredAt(q)'
    <3>1. registry'[q] = registry[q]
      BY <1>0, <1>1, <2>2
    <3>2. registry[q] # None =>
            LET r == registry[q] IN
            /\ q \in alive /\ home[r] = q /\ files'[r] = files[r]
            /\ \A b \in Adapters : state[b] = r => b # a
      BY <1>0, <1>1, <1>4, <2>2 DEF Registered, RegisteredAt, TypeOK
    <3> QED
      BY <1>1, <1>2, <3>1, <3>2, RegistrationStays
  <2> QED
    BY <2>1, <2>2 DEF Registered
<1>10. Clients'
  BY <1>0, <1>1 DEF Clients, WorksOnRoot
<1>11. Makers'
  <2>1. ASSUME NEW b \in Adapters, pc'[b] \in {"open", "client"}
        PROVE  registry'[home[b]] = None
    <3>1. b # a /\ pc[b] \in {"open", "client"} /\ home[b] \in Processes
      BY <1>0, <1>1, <1>2, <2>1 DEF Homes, TypeOK
    <3>2. home[b] # p
      BY <1>3, <3>1 DEF Locked
    <3> QED
      BY <1>1, <3>1, <3>2 DEF Makers
  <2> QED
    BY <1>1, <2>1 DEF Makers
<1>12. Closers'
  <2>1. ASSUME NEW b \in Adapters, pc'[b] \in Closing
        PROVE  pc'[b] = pc[b] /\ registry'[home[b]] = registry[home[b]]
    <3>1. b # a /\ pc'[b] = pc[b] /\ home[b] \in Processes
      BY <1>0, <1>1, <1>2, <2>1 DEF Homes, TypeOK, Closing
    <3>2. home[b] # p
      BY <1>3, <2>1, <3>1 DEF Locked, Closing
    <3> QED
      BY <1>1, <3>1, <3>2
  <2> QED
    BY <1>1, <2>1 DEF Closers
<1>13. Files'
  <2>1. \A b \in Adapters : pc[b] = "client" => b # s /\ b # a
    BY <1>0
  <2>2. \A b \in Adapters : files'[b] \subseteq files[b] /\ (b # s => files'[b] = files[b])
    BY <1>0, <1>1
  <2> QED
    BY <1>0, <1>1, <1>2, <2>1, <2>2 DEF Files
<1> QED
  BY <1>5, <1>6, <1>7, <1>8, <1>9, <1>10, <1>11, <1>12, <1>13

(* A child keeps open what its parent had not registered yet. *)
LEMMA ForkInv ==
  ASSUME OwnerInv, NEW p \in Processes, NEW q \in Processes, Fork(p, q)
  PROVE  OwnerInv'
<1> USE DEF OwnerInv
<1>0. /\ home \in [Adapters -> Processes \cup {None}] /\ files \in [Adapters -> SUBSET Processes]
      /\ registry \in [Processes -> Adapters \cup {None}]
      /\ p \in alive /\ q \notin spent /\ q \notin alive /\ q # p
  BY DEF TypeOK, Fork, Homes
<1>1. /\ alive' = alive \cup {q} /\ spent' = spent \cup {q}
      /\ registry' = [registry EXCEPT ![q] = None]
      /\ UNCHANGED <<stack, home, pc, state, members, client>>
  BY DEF Fork
<1>2. \A s \in Adapters : files'[s] = IF s \in Inherited(p) THEN files[s] \cup {q} ELSE files[s]
  BY DEF Fork
<1>3. registry' = registry
  <2>1. registry[q] = None
    BY <1>0 DEF Registered, RegisteredAt
  <2> QED
    BY <1>0, <1>1, <2>1
<1>4. TypeOK' /\ Homes' /\ States' /\ Stacks'
  BY <1>0, <1>1 DEF TypeOK, Fork, Homes, States, Stacks
<1>5. Members' /\ Makers' /\ Clients' /\ Closers'
  BY <1>1, <1>3 DEF Members, Makers, Clients, Closers, WorksOnRoot
<1>6. Registered'
  <2>1. ASSUME NEW r \in Processes, registry[r] # None
        PROVE  /\ r \in alive' /\ home[registry[r]] = r
               /\ r \in files'[registry[r]] <=> r \in files[registry[r]]
    <3>1. registry[r] \in Adapters /\ r \in alive /\ r # q /\ home[registry[r]] = r
      BY <1>0, <2>1 DEF Registered, RegisteredAt
    <3> QED
      BY <1>1, <1>2, <3>1
  <2> QED
    BY <1>1, <1>3, <2>1, RegistrationStays DEF Registered
<1>7. Files'
  <2>1. \A s \in Adapters : files[s] = {} => files'[s] = {}
    BY <1>2 DEF Inherited
  <2>2. \A s \in Adapters : files[s] \subseteq files'[s] /\ files'[s] \subseteq files[s] \cup {q}
    BY <1>2
  <2> QED
    BY <1>1, <2>1, <2>2 DEF Files
<1> QED
  BY <1>4, <1>5, <1>6, <1>7

(* The system takes back what a process had. *)
LEMMA ExitInv ==
  ASSUME OwnerInv, NEW p \in Processes, Exit(p)
  PROVE  OwnerInv'
<1> USE DEF OwnerInv
<1>0. /\ home \in [Adapters -> Processes \cup {None}] /\ files \in [Adapters -> SUBSET Processes]
      /\ registry \in [Processes -> Adapters \cup {None}] /\ stack \in [Processes -> Seq(Adapters)]
      /\ pc \in [Adapters -> Labels] /\ state \in [Adapters -> Adapters \cup {None}]
      /\ p \in alive /\ p # None /\ None \notin Adapters
  BY NoneIsNobody DEF TypeOK, Exit
<1>1. /\ alive' = alive \ {p}
      /\ \A s \in Adapters : files'[s] = files[s] \ {p}
      /\ registry' = [registry EXCEPT ![p] = None]
      /\ stack' = [stack EXCEPT ![p] = <<>>]
      /\ \A a \in Adapters : pc'[a] = IF home[a] = p THEN "dead" ELSE pc[a]
      /\ \A s \in Adapters : client'[s] = IF home[s] = p THEN "closed" ELSE client[s]
      /\ UNCHANGED <<spent, home, state, members>>
  BY DEF Exit
<1>2. TypeOK'
  BY <1>0 DEF TypeOK, Exit, Labels
<1>3. Homes'
  BY <1>0, <1>1 DEF Homes
<1>4. Stacks'
  <2>1. \A q \in Processes : \A i \in 1..Len(stack[q]) : stack[q][i] \in Adapters
    BY <1>0, ElementOfSeq
  <2>2. ASSUME NEW q \in Processes
        PROVE  /\ Len(stack'[q]) <= 2
               /\ \A i \in 1..Len(stack'[q]) : home[stack'[q][i]] = q /\ pc'[stack'[q][i]] \in Locked
               /\ Len(stack'[q]) = 2 =>
                    pc'[stack'[q][1]] \in {"lookup", "add"} /\ pc'[stack'[q][2]] \in Closing
    <3>1. CASE q = p
      BY <1>0, <1>1, <3>1, EmptySeq
    <3>2. CASE q # p
      <4>1. stack'[q] = stack[q]
        BY <1>0, <1>1, <3>2
      <4>2. \A i \in 1..Len(stack[q]) : pc'[stack[q][i]] = pc[stack[q][i]]
        BY <1>1, <2>1, <3>2 DEF Stacks
      <4>3. Len(stack[q]) = 2 => 1 \in 1..Len(stack[q]) /\ 2 \in 1..Len(stack[q])
        OBVIOUS
      <4> QED
        BY <4>1, <4>2, <4>3 DEF Stacks
    <3> QED
      BY <3>1, <3>2
  <2>3. ASSUME NEW b \in Adapters, pc'[b] \in Locked
        PROVE  \E i \in 1..Len(stack'[home[b]]) : stack'[home[b]][i] = b
    <3>1. home[b] # p /\ pc[b] \in Locked
      BY <1>1, <2>3 DEF Locked
    <3>2. stack'[home[b]] = stack[home[b]]
      BY <1>0, <1>1, <3>1
    <3> QED
      BY <3>1, <3>2 DEF Stacks
  <2> QED
    BY <1>1, <2>2, <2>3 DEF Stacks
<1>5. States'
  <2>1. ASSUME NEW a \in Adapters, pc'[a] \in {"new", "lookup", "open", "client"}
        PROVE  state[a] = None /\ client'[a] = "none" /\ members[a] = {}
    <3>1. home[a] # p /\ pc'[a] = pc[a] /\ client'[a] = client[a]
      BY <1>1, <2>1
    <3> QED
      BY <2>1, <3>1 DEF States
  <2>2. ASSUME NEW a \in Adapters, pc'[a] \in Holding
        PROVE  state[a] # None
    <3>1. pc'[a] = pc[a]
      BY <1>1, <2>2 DEF Holding, Leasing, Closing
    <3> QED
      BY <2>2, <3>1 DEF States
  <2>3. ASSUME NEW a \in Adapters, state[a] # None
        PROVE  /\ home[a] # None /\ home[state[a]] = home[a]
               /\ pc'[state[a]] \notin {"new", "lookup", "open", "client"}
    <3>1. state[a] \in Adapters
      BY <1>0, <2>3
    <3> QED
      BY <1>1, <2>3, <3>1 DEF States
  <2> QED
    BY <1>1, <2>1, <2>2, <2>3 DEF States
<1>6. Members'
  <2>1. ASSUME NEW s \in Adapters, NEW a \in members[s]
        PROVE  /\ state[a] = s
               /\ \/ pc'[a] \in Leasing
                  \/ pc'[a] = "dead" /\ registry'[home[s]] # s
    <3>1. a \in Adapters /\ s # None /\ state[a] = s /\ home[s] = home[a] /\ home[a] \in Processes
      BY <1>0, <2>1 DEF TypeOK, Members, States
    <3>2. registry'[home[s]] \in {registry[home[s]], None}
          /\ (home[s] = p => registry'[home[s]] = None)
      BY <1>0, <1>1, <3>1
    <3> QED
      BY <1>1, <2>1, <3>1, <3>2 DEF Members
  <2>2. \A a \in Adapters : pc'[a] \in Leasing => pc[a] \in Leasing
    BY <1>1 DEF Leasing
  <2> QED
    BY <1>1, <2>1, <2>2 DEF Members
<1>7. Registered'
  <2>1. ASSUME NEW q \in Processes, q = p
        PROVE  RegisteredAt(q)'
    BY <1>0, <1>1, <2>1 DEF RegisteredAt
  <2>2. ASSUME NEW q \in Processes, q # p
        PROVE  RegisteredAt(q)'
    <3>1. registry'[q] = registry[q]
      BY <1>0, <1>1, <2>2
    <3>2. registry[q] # None =>
            LET r == registry[q] IN
            /\ q \in alive' /\ home[r] = q /\ client'[r] = client[r]
            /\ q \in files'[r] <=> q \in files[r]
            /\ \A b \in Adapters : state[b] = r => pc'[b] = pc[b]
      BY <1>0, <1>1, <2>2 DEF Registered, RegisteredAt, States
    <3> QED
      BY <1>1, <3>1, <3>2, RegistrationStays
  <2> QED
    BY <2>1, <2>2 DEF Registered
<1>8. Clients'
  BY <1>0, <1>1 DEF Clients, WorksOnRoot
<1>9. Makers'
  BY <1>0, <1>1 DEF Makers
<1>10. Closers'
  <2>1. ASSUME NEW a \in Adapters, pc'[a] \in Closing
        PROVE  /\ pc'[a] = pc[a] /\ pc[a] \in Closing
               /\ registry'[home[a]] = registry[home[a]] /\ client'[state[a]] = client[state[a]]
    <3>1. pc'[a] = pc[a] /\ home[a] # p
      BY <1>1, <2>1 DEF Closing
    <3>2. state[a] \in Adapters /\ home[state[a]] = home[a] /\ home[a] \in Processes
      BY <1>0, <2>1, <3>1 DEF States, Holding
    <3> QED
      BY <1>0, <1>1, <2>1, <3>1, <3>2
  <2> QED
    BY <1>1, <2>1 DEF Closers, WorksOnRoot
<1>11. Files'
  <2>1. \A s \in Adapters : files'[s] # {} => files[s] # {}
    BY <1>1
  <2>2. \A s \in Adapters : files'[s] \subseteq alive'
    BY <1>1 DEF Files
  <2>3. \A a \in Adapters : pc'[a] = "client" => home[a] \in files'[a]
    BY <1>1 DEF Files
  <2> QED
    BY <1>1, <2>1, <2>2, <2>3 DEF Files
<1> QED
  BY <1>2, <1>3, <1>4, <1>5, <1>6, <1>7, <1>8, <1>9, <1>10, <1>11

-------------------------------------------------------------------------------
(* Every step, and the theorems *)

(* Nothing exists at first. *)
LEMMA InitOwnerInv == Init => OwnerInv
<1> SUFFICES ASSUME Init PROVE OwnerInv
  OBVIOUS
<1> USE NoneIsNobody, StartedAreProcesses DEF Init
<1>1. TypeOK /\ Homes
  BY EmptySeq DEF TypeOK, Homes, Labels
<1>2. Stacks
  BY EmptySeq DEF Stacks, Locked
<1>3. States /\ Members
  BY DEF States, Members, Holding, Leasing, Closing
<1>4. Registered /\ Clients /\ Makers /\ Closers /\ Files
  BY DEF Registered, RegisteredAt, Clients, Makers, Closers, Files, WorksOnRoot, Closing
<1> QED
  BY <1>1, <1>2, <1>3, <1>4 DEF OwnerInv

(* A step outside everything leaves it as it is. *)
LEMMA UnchangedOwnerInv == ASSUME OwnerInv, UNCHANGED vars PROVE OwnerInv'
<1> USE DEF OwnerInv, vars
<1>1. TypeOK' /\ Homes' /\ Stacks' /\ States' /\ Members'
  BY DEF TypeOK, Homes, Stacks, States, Members
<1>2. Registered' /\ Clients' /\ Makers' /\ Closers' /\ Files'
  BY DEF Registered, RegisteredAt, Clients, Makers, Closers, Files, WorksOnRoot
<1> QED
  BY <1>1, <1>2

(* Every step preserves OwnerInv. *)
LEMMA NextOwnerInv == OwnerInv /\ [Next]_vars => OwnerInv'
<1> SUFFICES ASSUME OwnerInv, [Next]_vars PROVE OwnerInv'
  OBVIOUS
<1>1. ASSUME NEW a \in Adapters, Step(a) \/ Discard(a)
      PROVE  OwnerInv'
  <2>1. CASE Setup(a) \/ Discard(a)
    <3>1. \E label \in Leasing : pc[a] \in Leasing /\ Goes(a, label)
      BY <2>1 DEF Setup, Discard, Leasing
    <3> QED
      BY <2>1, <3>1, MovesOutside DEF Setup, Discard
  <2> QED
    BY <1>1, <2>1, LookupInv, OpenFileInv, StartClientInv, AddLeaseInv, FinalizeInv,
       CloseClientInv, CloseFileInv DEF Step
<1> QED
  BY <1>1, ConstructInv, ForkInv, ExitInv, UnchangedOwnerInv DEF Next

(* OwnerInv is an invariant, whatever the timing of collector and forks.   *)
THEOREM OwnershipInvariance == Spec => []OwnerInv
BY InitOwnerInv, NextOwnerInv, PTL DEF Spec

(* Every variable keeps its type. *)
THEOREM OwnershipTypes == Spec => []TypeOK
<1>1. OwnerInv => TypeOK
  BY DEF OwnerInv
<1> QED
  BY <1>1, OwnershipInvariance, PTL

(* A root has one working client, in the process that has its lock file:   *)
(* no order of constructors, finalizers, forks, failures and exits gives   *)
(* two, not even the timings that the runs leave out.                      *)
THEOREM RootsAreOwned == Spec => []OwnedExclusively
<1>1. OwnerInv => OwnedExclusively
  <2> SUFFICES ASSUME OwnerInv PROVE OwnedExclusively
    OBVIOUS
  <2>1. ASSUME NEW s \in Adapters, WorksOnRoot(s)
        PROVE  home[s] \in files[s]
    <3>1. home[s] \in Processes /\ registry[home[s]] = s /\ s # None
      BY <2>1, NoneIsNobody DEF OwnerInv, Clients, TypeOK
    <3> QED
      BY <2>1, <3>1 DEF OwnerInv, Registered, RegisteredAt, WorksOnRoot
  <2> QED
    BY <2>1 DEF OwnedExclusively, OwnerInv, Files
<1> QED
  BY <1>1, OwnershipInvariance, PTL

-------------------------------------------------------------------------------
(* Where no finalizer runs inside the test before adapter_leases.add *)

(* Nobody who has or gets a lease on a state looks on while that is closed. *)
LEMMA ClosersMeetNobody ==
  ASSUME OwnerInv, SharedInv, NEW a \in Adapters, pc[a] \in Closing, Running(a),
         NEW b \in Adapters, pc[b] \in {"add"} \cup Leasing
  PROVE  state[b] # state[a] /\ home[b] # home[a]
<1> USE DEF OwnerInv
<1>1. registry[home[a]] = state[a] /\ members[state[a]] = {} /\ registry[home[b]] = state[b]
  BY DEF Closers, SharedInv
<1>2. home[state[a]] = home[a] /\ home[state[b]] = home[b]
  BY DEF States, Holding
<1>3. SUFFICES ASSUME home[b] = home[a] PROVE FALSE
  BY <1>1, <1>2
<1>4. CASE pc[b] \in Leasing
  BY <1>1, <1>3, <1>4 DEF Members
<1>5. CASE pc[b] = "add"
  <2>1. Len(stack[home[a]]) = 2 /\ stack[home[a]][1] = b /\ home[a] \in Processes
    BY <1>3, <1>5, Alone DEF Locked, Closing
  <2> QED
    BY <1>5, <2>1 DEF SharedInv
<1> QED
  BY <1>4, <1>5

(* A call that nests in another one finds a constructor before its lookup. *)
LEMMA NestingStays ==
  ASSUME "gc_in_check" \notin Timings, OwnerInv, SharedInv, Next,
         NEW p \in Processes, Len(stack'[p]) = 2
  PROVE  pc'[stack'[p][1]] # "add"
<1> USE DEF OwnerInv
<1>0. /\ pc \in [Adapters -> Labels] /\ home \in [Adapters -> Processes \cup {None}]
      /\ stack \in [Processes -> Seq(Adapters)] /\ stack[p] \in Seq(Adapters)
      /\ \A i \in 1..Len(stack[p]) : stack[p][i] \in Adapters
  BY ElementOfSeq DEF TypeOK
<1>1. Len(stack[p]) = 2 => /\ stack[p][1] \in Adapters /\ home[stack[p][1]] = p
                           /\ pc[stack[p][1]] = "lookup"
  BY <1>0 DEF Stacks, SharedInv
<1>2. ASSUME NEW a \in Adapters, UNCHANGED stack, \A b \in Adapters : b # a => pc'[b] = pc[b],
             pc[a] = "lookup" => Running(a)
      PROVE  pc'[stack'[p][1]] # "add"
  <2>1. Len(stack[p]) = 2 /\ (pc[a] = "lookup" => Len(stack[home[a]]) # 2)
    BY <1>2, Alone DEF Locked, Closing
  <2> QED
    BY <1>1, <1>2, <2>1
<1>3. ASSUME NEW a \in Adapters, pc[a] \in Locked, Running(a), Exits(a),
             \A b \in Adapters : b # a => pc'[b] = pc[b]
      PROVE  pc'[stack'[p][1]] # "add"
  <2>1. stack[home[a]] # <<>> /\ Len(stack[home[a]]) \in {1, 2} /\ home[a] \in Processes
    BY <1>3, Alone DEF Running
  <2>2. p # home[a]
    <3>1. SUFFICES ASSUME p = home[a] PROVE FALSE
      OBVIOUS
    <3>2. stack'[p] = SubSeq(stack[p], 1, Len(stack[p]) - 1)
      BY <1>0, <1>3, <3>1 DEF Exits
    <3>3. Len(stack'[p]) = Len(stack[p]) - 1
      BY <1>0, <2>1, <3>1, <3>2, Popped
    <3>4. \A n \in {1, 2} : n - 1 # 2
      OBVIOUS
    <3>5. Len(stack[p]) \in {1, 2}
      BY <2>1, <3>1
    <3> QED
      BY <3>3, <3>4, <3>5
  <2>3. stack'[p] = stack[p]
    BY <1>0, <1>3, <2>2 DEF Exits
  <2> QED
    BY <1>1, <1>3, <2>2, <2>3
<1>4. ASSUME NEW a \in Adapters, NEW q \in Processes, Enter(a, q), pc[a] \notin Locked,
             \A b \in Adapters : b # a => pc'[b] = pc[b],
             stack[q] # <<>> => pc[stack[q][Len(stack[q])]] # "add"
      PROVE  pc'[stack'[p][1]] # "add"
  <2>1. CASE p = q
    <3>1. stack'[p] = Append(stack[p], a)
      BY <1>0, <1>4, <2>1 DEF Enter
    <3>2. Len(stack'[p]) = Len(stack[p]) + 1 /\ Len(stack[p]) \in Nat
          /\ \A i \in 1..Len(stack[p]) : stack'[p][i] = stack[p][i]
      BY <1>0, <3>1, AppendProperties, LenProperties
    <3>3. Len(stack[p]) = 1 /\ stack'[p][1] = stack[p][1] /\ stack[p] # <<>>
      <4>1. Len(stack[p]) = 1
        <5>1. \A n \in Nat : n + 1 = 2 => n = 1
          OBVIOUS
        <5> QED
          BY <3>2, <5>1
      <4>2. stack[p] # <<>>
        BY <4>1, EmptySeq
      <4> QED
        BY <3>2, <4>1, <4>2
    <3>4. stack[p][1] \in Adapters /\ stack[p][1] # a
      BY <1>0, <1>4, <3>3 DEF Stacks
    <3> QED
      BY <1>4, <2>1, <3>3, <3>4
  <2>2. CASE p # q
    <3>1. stack'[p] = stack[p]
      BY <1>0, <1>4, <2>2 DEF Enter
    <3> QED
      BY <1>1, <1>4, <3>1 DEF Locked
  <2> QED
    BY <2>1, <2>2
<1>5. CASE \E a \in Adapters, q \in Processes : Construct(a, q)
  <2>1. PICK a \in Adapters, q \in Processes : Construct(a, q)
    BY <1>5
  <2>2. Enter(a, q) /\ pc[a] \notin Locked /\ stack[q] = <<>>
        /\ \A b \in Adapters : b # a => pc'[b] = pc[b]
    BY <1>0, <2>1 DEF Construct, Goes, Locked
  <2> QED
    BY <1>4, <2>2
<1>6. ASSUME NEW a \in Adapters, Step(a) \/ Discard(a)
      PROVE  pc'[stack'[p][1]] # "add"
  <2>0. \A b \in Adapters : b # a => pc'[b] = pc[b]
    BY <1>0, <1>6 DEF Step, Lookup, OpenFile, StartClient, AddLease, Setup, Discard, Finalize,
       CloseClient, CloseFile, Goes
  <2>1. CASE Lookup(a) \/ OpenFile(a) \/ StartClient(a) \/ AddLease(a) \/ CloseClient(a)
             \/ CloseFile(a)
    <3>1. pc[a] \in Locked /\ Running(a) /\ (Exits(a) \/ UNCHANGED stack)
      BY <2>1 DEF Lookup, OpenFile, StartClient, AddLease, CloseClient, CloseFile, Locked
    <3> QED
      BY <1>2, <1>3, <2>0, <3>1
  <2>2. CASE Setup(a) \/ Discard(a)
    BY <1>2, <2>0, <2>2 DEF Setup, Discard
  <2>3. CASE Finalize(a)
    <3>1. pc[a] \notin Locked /\ home[a] \in Processes
      BY <1>0, <2>3 DEF Finalize, Locked, Homes, TypeOK
    <3>2. stack[home[a]] # <<>> => pc[stack[home[a]][Len(stack[home[a]])]] # "add"
      BY <2>3 DEF Finalize, MayCollect
    <3>3. Enter(a, home[a]) \/ UNCHANGED stack
      BY <2>3 DEF Finalize
    <3> QED
      BY <1>2, <1>4, <2>0, <3>1, <3>2, <3>3 DEF Locked
  <2> QED
    BY <1>6, <2>1, <2>2, <2>3 DEF Step
<1>7. CASE \E q, r \in Processes : Fork(q, r)
  BY <1>1, <1>7 DEF Fork
<1>8. CASE \E q \in Processes : Exit(q)
  <2>1. PICK q \in Processes : Exit(q)
    BY <1>8
  <2>2. p # q /\ stack'[p] = stack[p]
    BY <1>0, <2>1, EmptySeq DEF Exit
  <2> QED
    BY <1>1, <2>1, <2>2 DEF Exit
<1> QED
  BY <1>5, <1>6, <1>7, <1>8 DEF Next

(* Whoever has a lease, or gets one, keeps an open registered state. *)
LEMMA LeasesStayShared ==
  ASSUME OwnerInv, SharedInv, Next, NEW b \in Adapters, pc'[b] \in {"add"} \cup Leasing
  PROVE  registry'[home'[b]] = state'[b] /\ client'[state'[b]] = "open"
<1> USE DEF OwnerInv
<1> DEFINE Kept == /\ state'[b] = state[b] /\ home'[b] = home[b]
                   /\ registry'[home[b]] = registry[home[b]]
                   /\ client'[state[b]] = client[state[b]]
                   /\ pc[b] \in {"add"} \cup Leasing
<1>0. /\ pc \in [Adapters -> Labels] /\ home \in [Adapters -> Processes \cup {None}]
      /\ state \in [Adapters -> Adapters \cup {None}]
      /\ registry \in [Processes -> Adapters \cup {None}]
      /\ client \in [Adapters -> {"none", "open", "broken", "closed"}]
      /\ None \notin Adapters
  BY NoneIsNobody DEF TypeOK
<1>1. Kept => registry'[home'[b]] = state'[b] /\ client'[state'[b]] = "open"
  BY DEF SharedInv
<1>2. CASE \E a \in Adapters, p \in Processes : Construct(a, p)
  BY <1>0, <1>1, <1>2 DEF Construct, Goes, Leasing
<1>3. ASSUME NEW a \in Adapters, Step(a) \/ Discard(a)
      PROVE  registry'[home'[b]] = state'[b] /\ client'[state'[b]] = "open"
  <2>1. CASE OpenFile(a) \/ AddLease(a) \/ Setup(a) \/ Discard(a) \/ Finalize(a)
    BY <1>0, <1>1, <2>1 DEF OpenFile, AddLease, Setup, Discard, Finalize, Goes, Leasing
  <2>2. CASE Lookup(a)
    <3> DEFINE s == registry[home[a]]
    <3>1. pc[a] = "lookup" /\ home[a] \in Processes /\ UNCHANGED <<registry, home, members, client>>
      BY <1>0, <2>2 DEF Lookup, Homes
    <3>2. CASE b # a
      BY <1>0, <1>1, <2>2, <3>1, <3>2 DEF Lookup, Goes
    <3>3. CASE b = a
      <4>1. s # None /\ members[s] # {} /\ state'[a] = s
        BY <1>0, <2>2, <3>3 DEF Lookup, Goes, Leasing
      <4>2. s \in Adapters /\ home[s] = home[a]
        BY <1>0, <3>1, <4>1 DEF Registered, RegisteredAt
      <4>3. PICK m \in members[s] : TRUE
        BY <4>1
      <4>4. m \in Adapters /\ state[m] = s /\ pc[m] \in Leasing
        BY <4>2, <4>3 DEF Members, TypeOK
      <4>5. client[s] = "open"
        BY <4>4 DEF SharedInv
      <4> QED
        BY <3>1, <3>3, <4>1, <4>5
    <3> QED
      BY <3>2, <3>3
  <2>3. CASE StartClient(a)
    <3>1. pc[a] = "client" /\ home[a] \in Processes /\ registry[home[a]] = None
          /\ UNCHANGED home
      BY <1>0, <2>3 DEF StartClient, Homes, Makers
    <3>2. CASE b # a
      <4>1. pc[b] \in {"add"} \cup Leasing /\ state'[b] = state[b]
        BY <1>0, <2>3, <3>2 DEF StartClient, Goes
      <4>2. state[b] # None /\ state[b] # a /\ home[b] # home[a]
        BY <3>1, <4>1 DEF States, SharedInv, Holding
      <4>3. registry'[home[b]] = registry[home[b]] /\ client'[state[b]] = client[state[b]]
        BY <1>0, <2>3, <3>1, <4>1, <4>2 DEF StartClient, Homes, Leasing
      <4> QED
        BY <1>1, <3>1, <4>1, <4>3
    <3>3. CASE b = a
      BY <1>0, <2>3, <3>1, <3>3 DEF StartClient, Goes, Leasing
    <3> QED
      BY <3>2, <3>3
  <2>4. CASE CloseClient(a) \/ CloseFile(a)
    <3>1. pc[a] \in Closing /\ Running(a) /\ pc'[a] \notin {"add"} \cup Leasing
          /\ UNCHANGED <<home, state>>
      BY <1>0, <2>4 DEF CloseClient, CloseFile, Closing, Goes, Leasing
    <3>2. b # a /\ pc[b] \in {"add"} \cup Leasing
      BY <1>0, <2>4, <3>1 DEF CloseClient, CloseFile, Goes
    <3>3. state[b] # state[a] /\ home[b] # home[a]
      BY <3>1, <3>2, ClosersMeetNobody
    <3>4. client'[state[b]] = client[state[b]] /\ registry'[home[b]] = registry[home[b]]
      <4>1. /\ state[a] \in Adapters /\ state[b] \in Adapters
            /\ home[a] \in Processes /\ home[b] \in Processes
        BY <1>0, <3>1, <3>2 DEF States, Holding, Homes, Closing, Leasing
      <4> QED
        BY <1>0, <2>4, <3>3, <4>1 DEF CloseClient, CloseFile
    <3> QED
      BY <1>1, <3>1, <3>2, <3>4
  <2> QED
    BY <1>3, <2>1, <2>2, <2>3, <2>4 DEF Step
<1>4. CASE \E p, q \in Processes : Fork(p, q)
  <2>1. PICK p \in Processes, q \in Processes : Fork(p, q)
    BY <1>4
  <2>2. home[b] # q /\ pc'[b] = pc[b]
    BY <2>1 DEF Fork, Homes, Leasing
  <2> QED
    BY <1>0, <1>1, <2>1, <2>2 DEF Fork, Homes, Leasing
<1>5. CASE \E p \in Processes : Exit(p)
  <2>1. PICK p \in Processes : Exit(p)
    BY <1>5
  <2>2. home[b] # p /\ pc'[b] = pc[b]
    BY <2>1 DEF Exit, Leasing
  <2>3. state[b] \in Adapters /\ home[state[b]] = home[b] /\ home[b] \in Processes
    BY <1>0, <2>2 DEF States, Holding, Homes, Leasing
  <2> QED
    BY <1>0, <1>1, <2>1, <2>2, <2>3 DEF Exit
<1> QED
  BY <1>2, <1>3, <1>4, <1>5 DEF Next

(* A state whose teardown has begun gets no adapter. *)
LEMMA BrokenStaysEmpty ==
  ASSUME OwnerInv, SharedInv, Next, NEW s \in Adapters,
         client'[s] \in {"broken", "closed"}, registry'[home'[s]] = s
  PROVE  members'[s] = {}
<1> USE DEF OwnerInv
<1>0. /\ members \in [Adapters -> SUBSET Adapters]
      /\ client \in [Adapters -> {"none", "open", "broken", "closed"}]
      /\ home \in [Adapters -> Processes \cup {None}]
      /\ registry \in [Processes -> Adapters \cup {None}]
      /\ client[s] \in {"broken", "closed"} /\ registry[home[s]] = s => members[s] = {}
      /\ client[s] # "none" => home[s] \in Processes
      /\ None \notin Adapters /\ None \notin Processes
  BY NoneIsNobody DEF TypeOK, SharedInv, Homes, States
<1>1. CASE \E a \in Adapters, p \in Processes : Construct(a, p)
  <2>1. PICK a \in Adapters, p \in Processes : Construct(a, p)
    BY <1>1
  <2>2. pc[a] = "new" /\ client[a] = "none" /\ UNCHANGED <<client, registry, members>>
    BY <2>1 DEF Construct, States
  <2>3. s # a => home'[s] = home[s]
    BY <1>0, <2>1 DEF Construct
  <2> QED
    BY <1>0, <2>2, <2>3
<1>2. ASSUME NEW a \in Adapters, Step(a) \/ Discard(a)
      PROVE  members'[s] = {}
  <2>0. UNCHANGED home
    BY <1>2 DEF Step, Lookup, OpenFile, StartClient, AddLease, Setup, Discard, Finalize,
       CloseClient, CloseFile
  <2>1. CASE Lookup(a) \/ OpenFile(a) \/ Setup(a) \/ Discard(a)
    BY <1>0, <2>0, <2>1 DEF Lookup, OpenFile, Setup, Discard
  <2>2. CASE StartClient(a)
    <3>1. /\ home[a] \in Processes /\ UNCHANGED members
          /\ \/ UNCHANGED <<registry, client>>
             \/ /\ registry' = [registry EXCEPT ![home[a]] = a]
                /\ client' = [client EXCEPT ![a] = "open"]
      BY <1>0, <2>2 DEF StartClient, Homes
    <3>2. CASE UNCHANGED <<registry, client>>
      BY <1>0, <2>0, <3>1, <3>2
    <3>3. CASE /\ registry' = [registry EXCEPT ![home[a]] = a]
               /\ client' = [client EXCEPT ![a] = "open"]
      <4>1. s # a /\ client'[s] = client[s]
        BY <1>0, <3>3
      <4>2. registry'[home[s]] = registry[home[s]]
        BY <1>0, <2>0, <3>1, <3>3, <4>1
      <4> QED
        BY <1>0, <2>0, <3>1, <4>1, <4>2
    <3> QED
      BY <3>1, <3>2, <3>3
  <2>3. CASE AddLease(a)
    <3>1. pc[a] = "add" /\ client[state[a]] = "open" /\ UNCHANGED <<client, registry>>
      BY <2>3 DEF AddLease, SharedInv
    <3> QED
      BY <1>0, <2>0, <2>3, <3>1 DEF AddLease
  <2>4. CASE Finalize(a)
    <3>1. members'[s] \subseteq members[s] /\ UNCHANGED <<client, registry>>
      BY <1>0, <2>4 DEF Finalize
    <3> QED
      BY <1>0, <2>0, <3>1
  <2>5. CASE CloseClient(a)
    <3>1. members[state[a]] = {} /\ UNCHANGED <<members, registry>>
      BY <2>5 DEF CloseClient, Closers, Closing
    <3> QED
      BY <1>0, <2>0, <2>5, <3>1 DEF CloseClient
  <2>6. CASE CloseFile(a)
    <3>1. /\ UNCHANGED <<members, client>>
          /\ UNCHANGED registry \/ registry' = [registry EXCEPT ![home[a]] = None]
      BY <2>6 DEF CloseFile
    <3>2. registry[home[s]] = s
      BY <1>0, <2>0, <3>1
    <3> QED
      BY <1>0, <3>1, <3>2
  <2> QED
    BY <1>2, <2>1, <2>2, <2>3, <2>4, <2>5, <2>6 DEF Step
<1>3. CASE \E p, q \in Processes : Fork(p, q)
  BY <1>0, <1>3 DEF Fork
<1>4. CASE \E p \in Processes : Exit(p)
  <2>1. PICK p \in Processes : Exit(p)
    BY <1>4
  <2>2. home[s] # p /\ UNCHANGED <<home, members>> /\ registry'[home[s]] = registry[home[s]]
    BY <1>0, <2>1 DEF Exit
  <2> QED
    BY <1>0, <2>1, <2>2 DEF Exit
<1> QED
  BY <1>1, <1>2, <1>3, <1>4 DEF Next

(* SharedInv is an invariant where finalizers run where the language says  *)
(* they do, but not inside the test before adapter_leases.add.             *)
LEMMA SharedInvariance ==
  ASSUME "gc_in_check" \notin Timings
  PROVE  Spec => []SharedInv
<1>1. Init => SharedInv
  BY EmptySeq DEF Init, SharedInv, Leasing
<1>2. OwnerInv /\ SharedInv /\ [Next]_vars => SharedInv'
  <2> SUFFICES ASSUME OwnerInv, SharedInv, [Next]_vars PROVE SharedInv'
    OBVIOUS
  <2>1. CASE UNCHANGED vars
    BY <2>1 DEF vars, SharedInv
  <2>2. CASE Next
    BY <2>2, NestingStays, LeasesStayShared, BrokenStaysEmpty DEF SharedInv
  <2> QED
    BY <2>1, <2>2
<1> QED
  BY <1>1, <1>2, OwnershipInvariance, PTL DEF Spec

(* The live adapters of a process have one state, with an open client, so  *)
(* that they count readers together.                                       *)
THEOREM StateIsShared ==
  ASSUME "gc_in_check" \notin Timings
  PROVE  Spec => []AdaptersShareState
<1>1. SharedInv => AdaptersShareState
  BY DEF SharedInv, AdaptersShareState, Leasing
<1> QED
  BY <1>1, SharedInvariance, PTL

(* After a teardown that failed, no adapter of that process gets the state *)
(* again: it stays registered, and empty.                                  *)
THEOREM FailedTeardownStaysFinal ==
  ASSUME "gc_in_check" \notin Timings
  PROVE  Spec => []FailedTeardownIsFinal
<1>1. OwnerInv /\ SharedInv => FailedTeardownIsFinal
  BY DEF OwnerInv, Clients, WorksOnRoot, SharedInv, FailedTeardownIsFinal
<1> QED
  BY <1>1, OwnershipInvariance, SharedInvariance, PTL

-------------------------------------------------------------------------------
(* Where nobody forks inside the constructor of another thread *)

(* Only the process of a state opens its file, and it closes it. *)
LEMMA FilesStayHome ==
  ASSUME "fork_in_constructor" \notin Timings, OwnerInv, FilesInv, Next,
         NEW s \in Adapters, files'[s] # {}
  PROVE  /\ files'[s] = {home'[s]}
         /\ pc'[s] = "client" \/ registry'[home'[s]] = s
<1> USE DEF OwnerInv
<1>0. /\ pc \in [Adapters -> Labels] /\ home \in [Adapters -> Processes \cup {None}]
      /\ state \in [Adapters -> Adapters \cup {None}]
      /\ registry \in [Processes -> Adapters \cup {None}]
      /\ files \in [Adapters -> SUBSET Processes]
      /\ None \notin Adapters /\ None \notin Processes
  BY NoneIsNobody DEF TypeOK
<1>1. files[s] # {} => /\ files[s] = {home[s]} /\ home[s] \in Processes
                       /\ pc[s] = "client" \/ registry[home[s]] = s
  BY <1>0 DEF FilesInv
<1>2. CASE \E a \in Adapters, p \in Processes : Construct(a, p)
  <2>1. PICK a \in Adapters, p \in Processes : Construct(a, p)
    BY <1>2
  <2>2. UNCHANGED <<files, registry>> /\ pc[a] = "new" /\ home[a] = None
    BY <2>1 DEF Construct, Homes
  <2> QED
    BY <1>0, <1>1, <2>1, <2>2 DEF Construct, Goes
<1>3. ASSUME NEW a \in Adapters, Step(a) \/ Discard(a)
      PROVE  /\ files'[s] = {home'[s]}
             /\ pc'[s] = "client" \/ registry'[home'[s]] = s
  <2>1. CASE Lookup(a) \/ AddLease(a) \/ Setup(a) \/ Discard(a) \/ Finalize(a) \/ CloseClient(a)
    <3>1. UNCHANGED <<files, registry, home>> /\ pc[a] # "client"
      BY <2>1 DEF Lookup, AddLease, Setup, Discard, Finalize, CloseClient
    <3>2. \A b \in Adapters : b # a => pc'[b] = pc[b]
      BY <1>0, <2>1 DEF Lookup, AddLease, Setup, Discard, Finalize, CloseClient, Goes
    <3> QED
      BY <1>1, <3>1, <3>2
  <2>2. CASE OpenFile(a)
    <3>1. pc[a] = "open" /\ UNCHANGED <<registry, home>>
      BY <2>2 DEF OpenFile
    <3>2. \A b \in Adapters : b # a => pc'[b] = pc[b]
      BY <1>0, <2>2 DEF OpenFile, Goes
    <3>3. \/ UNCHANGED files
          \/ files' = [files EXCEPT ![a] = {home[a]}] /\ pc'[a] = "client"
      BY <1>0, <2>2 DEF OpenFile, Goes
    <3> QED
      BY <1>0, <1>1, <3>1, <3>2, <3>3
  <2>3. CASE StartClient(a)
    <3>1. pc[a] = "client" /\ home[a] \in Processes /\ UNCHANGED home /\ registry[home[a]] = None
          /\ \A b \in Adapters : b # a => pc'[b] = pc[b]
      BY <1>0, <2>3 DEF StartClient, Homes, Goes, Makers
    <3>2. CASE UNCHANGED registry /\ files' = [files EXCEPT ![a] = @ \ {home[a]}]
      BY <1>0, <1>1, <3>1, <3>2
    <3>3. CASE UNCHANGED files /\ registry' = [registry EXCEPT ![home[a]] = a]
      <4>1. s = a
        <5>1. files[a] # {}
          BY <3>1 DEF Files
        <5> QED
          BY <3>3, <5>1 DEF Files
      <4> QED
        BY <1>0, <1>1, <3>1, <3>3, <4>1
    <3> QED
      BY <2>3, <3>2, <3>3 DEF StartClient
  <2>4. CASE CloseFile(a)
    <3> DEFINE r == state[a]
               p == home[a]
    <3>1. pc[a] = "unlock" /\ UNCHANGED home /\ r \in Adapters /\ p \in Processes /\ home[r] = p
          /\ registry[p] = r
      BY <1>0, <2>4 DEF CloseFile, States, Holding, Closing, Homes, Closers
    <3>2. files' = [files EXCEPT ![r] = @ \ {p}]
      BY <2>4 DEF CloseFile
    <3>3. s # r /\ files'[s] = files[s]
      BY <1>0, <1>1, <3>1, <3>2
    <3>4. pc[s] = "client" => pc'[s] = "client"
      BY <1>0, <2>4, <3>1 DEF CloseFile, Goes
    <3>5. registry[home[s]] = s => registry'[home[s]] = s
      BY <1>0, <1>1, <2>4, <3>1, <3>3 DEF CloseFile
    <3> QED
      BY <1>1, <3>1, <3>3, <3>4, <3>5
  <2> QED
    BY <1>3, <2>1, <2>2, <2>3, <2>4 DEF Step
<1>4. CASE \E p, q \in Processes : Fork(p, q)
  <2>1. PICK p \in Processes, q \in Processes : Fork(p, q)
    BY <1>4
  <2>2. files'[s] = files[s]
    BY <1>0, <2>1 DEF Fork
  <2>3. home[s] \in alive
    BY <1>1, <2>2 DEF Files
  <2>4. registry'[home[s]] = registry[home[s]] /\ UNCHANGED <<home, pc>>
    BY <1>0, <2>1, <2>3 DEF Fork, Homes
  <2> QED
    BY <1>1, <2>2, <2>4
<1>5. CASE \E p \in Processes : Exit(p)
  <2>1. PICK p \in Processes : Exit(p)
    BY <1>5
  <2>2. files'[s] = files[s] \ {p} /\ UNCHANGED home
    BY <2>1 DEF Exit
  <2>3. files[s] # {} /\ home[s] # p
    BY <1>1, <2>2
  <2> QED
    BY <1>0, <1>1, <2>1, <2>2, <2>3 DEF Exit
<1> QED
  BY <1>2, <1>3, <1>4, <1>5 DEF Next

(* FilesInv is an invariant where no thread forks while another is inside  *)
(* a constructor.                                                          *)
LEMMA FilesInvariance ==
  ASSUME "fork_in_constructor" \notin Timings
  PROVE  Spec => []FilesInv
<1>1. Init => FilesInv
  BY DEF Init, FilesInv
<1>2. OwnerInv /\ FilesInv /\ [Next]_vars => FilesInv'
  BY FilesStayHome DEF FilesInv, vars
<1> QED
  BY <1>1, <1>2, OwnershipInvariance, PTL DEF Spec

(* When the process of a state has stopped, its root is free.              *)
THEOREM RootsAreReleasedAtExit ==
  ASSUME "fork_in_constructor" \notin Timings
  PROVE  Spec => []ReleasedAtExit
<1>1. OwnerInv /\ FilesInv => ReleasedAtExit
  BY DEF OwnerInv, Files, FilesInv, ReleasedAtExit
<1> QED
  BY <1>1, OwnershipInvariance, FilesInvariance, PTL

(* A root is free when nobody uses it, unless its teardown has failed:     *)
(* every adapter that dies, in whatever order, passes the duty on.         *)
THEOREM UnusedRootsAreReleased ==
  ASSUME "fork_in_constructor" \notin Timings
  PROVE  Spec => []ReleasedWhenUnused
<1>1. OwnerInv /\ FilesInv => ReleasedWhenUnused
  <2> SUFFICES ASSUME OwnerInv, FilesInv, NEW s \in Adapters, files[s] # {}
               PROVE  \/ client[s] = "broken"
                      \/ \E a \in Adapters :
                            home[a] = home[s] /\ pc[a] \notin {"new", "dead", "failed"}
    BY DEF ReleasedWhenUnused
  <2>1. CASE pc[s] = "client"
    BY <2>1
  <2>2. CASE registry[home[s]] = s
    <3>1. home[s] \in Processes /\ s # None
      BY NoneIsNobody DEF OwnerInv, TypeOK, FilesInv
    <3>2. client[s] = "broken" \/ \E a \in Adapters : state[a] = s /\ pc[a] \in Holding
      BY <2>2, <3>1 DEF OwnerInv, Registered, RegisteredAt, FilesInv
    <3> QED
      BY <3>1, <3>2 DEF OwnerInv, States, Holding, Leasing, Closing
  <2> QED
    BY <2>1, <2>2 DEF FilesInv
<1> QED
  BY <1>1, OwnershipInvariance, FilesInvariance, PTL
================================================================================
