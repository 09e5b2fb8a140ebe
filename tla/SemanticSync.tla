------------------------------ MODULE SemanticSync ------------------------------
(***************************************************************************)
(* What SemanticIndexer.synchronize puts into an index and what            *)
(* SemanticSearcher.search gets out of it (synchronization.py, search.py,  *)
(* retry.py, documents.py, providers/gemini.py), for one repository:       *)
(* chunks are classified against the active manifest, vectors are reused   *)
(* or embedded in batches with bounded retries, and a complete candidate   *)
(* replaces the index.  The embedding model and the document version may   *)
(* change from one synchronization to the next, and any call may fail.     *)
(* ChromaStore models the storage of the generations and the threads.      *)
(***************************************************************************)
EXTENDS Naturals, Sequences, FiniteSets

CONSTANTS
    Identities,   \* EmbeddingModelIdentity values providers may have
    Versions,     \* values EMBEDDING_DOCUMENT_VERSION has had
    Ids, Texts,   \* chunk ids, and contents (a content hash stands for them)
    Inventories,  \* validated inventories: sequences of [id, text] records
    Capacity,     \* provider.max_batch_size
    MaxAttempts,  \* RetryPolicy.max_attempts
    MaxCalls,     \* bound: provider calls counted by the model
    Faults,       \* the calls that may fail (see FaultKinds)
    None

FaultKinds == {"read", "write", "transient", "permanent", "response", "publish"}
Spaces == Identities \X Versions
IdsOf(s) == {s[i].id : i \in 1..Len(s)}

ASSUME InventoriesAreValid ==
    \A inv \in Inventories :
        /\ inv \in Seq([id : Ids, text : Texts])
        /\ \A i, j \in 1..Len(inv) : inv[i].id = inv[j].id => i = j
ASSUME CapacityIsPositive == Capacity \in Nat \ {0}
ASSUME AttemptsArePositive == MaxAttempts \in Nat \ {0}
ASSUME MaxCallsIsNat == MaxCalls \in Nat
ASSUME FaultsAreKnown == Faults \subseteq FaultKinds

VARIABLES
    index,     \* the active index: its space, expected count and rows, or None
    cand,      \* the candidate, or None
    pc,        \* the next step of synchronize
    space,     \* identity and document version of the indexer
    current,   \* the inventory it synchronizes
    before,    \* the index it found
    next,      \* the first chunk of the next batch
    attempt,   \* how often the batch has been sent to the provider
    embedded,  \* the rows made of its answer
    calls,     \* the provider calls of this synchronization
    result,    \* IndexSyncResult, an error, or None
    answer     \* what the last search returned, or None

job == <<space, current, before>>
vars == <<index, cand, pc, space, current, before, next, attempt, embedded, calls,
          result, answer>>

(* build_embedding_document and embed_content: what a vector stands for    *)
Vector(sp, id, text) == [space |-> sp, id |-> id, text |-> text]
Vectors == [space : Spaces, id : Ids, text : Texts]
Row == [text : Texts, vector : Vectors]
Rows == UNION {[S -> Row] : S \in SUBSET Ids}
Index == [space : Spaces, expected : Nat, rows : Rows]

Errors == {"read_error", "write_error", "rate_limited", "provider_error",
    "invalid_response", "corrupt", "publication_error"}
Counters == {"total", "reused", "embedded", "inserted", "updated", "deleted"}

TypeOK ==
    /\ index \in Index \cup {None}
    /\ cand \in Index \cup {None}
    /\ pc \in {"idle", "read", "create", "reuse", "embed", "add", "validate", "publish",
               "report", "abort"}
    /\ space \in Spaces \cup {None}
    /\ current \in Inventories \cup {<<>>}
    /\ before \in Index \cup {None}
    /\ next \in Nat \ {0}
    /\ attempt \in 0..MaxAttempts
    /\ embedded \in Seq([id : Ids, row : Row])
    /\ calls \in 0..MaxCalls
    /\ result \in [status : {"success", "unchanged"}, counts : [Counters -> Nat]]
                  \cup [status : Errors] \cup {None}
    /\ answer \in [space : Identities, rows : Rows] \cup [status : Errors \cup {"mismatch", "not_found"}]
                  \cup {None}

Init ==
    /\ index = None /\ cand = None /\ pc = "idle"
    /\ space = None /\ current = <<>> /\ before = None
    /\ next = 1 /\ attempt = 0 /\ embedded = <<>> /\ calls = 0
    /\ result = None /\ answer = None

-------------------------------------------------------------------------------
(* _classify_chunks: the records of the manifest are before.rows *)

Stored == IF before = None THEN {} ELSE DOMAIN before.rows

(* Mutant: the document version is not compared. *)
CompatibleMutant == before # None /\ before.space[1] = space[1]

(* Identity and document version of the index are those of the indexer. *)
Compatible == before # None /\ before.space = space

(* Mutant: the content hash is not compared. *)
ReusableMutant(c) == c.id \in Stored /\ Compatible

Reusable(c) == c.id \in Stored /\ Compatible /\ before.rows[c.id].text = c.text

(* The members of s at the positions I, in their order.                    *)
Picked(s, I) ==
    LET f[n \in 0 .. Len(s)] ==
            IF n = 0 THEN << >> ELSE IF n \in I THEN Append(f[n - 1], s[n]) ELSE f[n - 1]
    IN  f[Len(s)]

Positions == 1 .. Len(current)
Found == {i \in Positions : current[i].id \in Stored}
Reused == {i \in Found : Reusable(current[i])}
Unchanged == Picked(current, Reused)
New == Picked(current, Positions \ Found)
Updated == Picked(current, Found \ Reused)
Changed == New \o Updated

(* Mutant: chunks that are kept count as deleted. *)
DeletedMutant == Stored \ IdsOf(Changed)

Deleted == Stored \ IdsOf(current)

Counts(reused, done, inserted, updated, deleted) ==
    [total |-> Len(current), reused |-> reused, embedded |-> done,
     inserted |-> inserted, updated |-> updated, deleted |-> deleted]

(* The batch that starts at next, of at most Capacity chunks. *)
Batch(s) == SubSeq(s, next, IF next + Capacity - 1 < Len(s) THEN next + Capacity - 1 ELSE Len(s))
LastBatch(s) == next + Capacity > Len(s)

-------------------------------------------------------------------------------
(* synchronize *)

Goto(label) == pc' = label /\ UNCHANGED result
Raise(error, label) == pc' = label /\ result' = [status |-> error]

Begin(sp, inv) ==
    /\ pc = "idle"
    /\ space' = sp /\ current' = inv /\ before' = index
    /\ next' = 1 /\ attempt' = 0 /\ embedded' = <<>> /\ calls' = 0
    /\ result' = None
    /\ pc' = "read"
    /\ UNCHANGED <<index, cand, answer>>

(* inspect_active, read_manifest and the diff *)
Read ==
    /\ pc = "read"
    /\ \/ "read" \in Faults /\ Raise("read_error", "idle")
       \/ /\ Compatible /\ Changed = <<>> /\ Deleted = {}
          /\ pc' = "idle"
          /\ result' = [status |-> "unchanged", counts |-> Counts(Len(Unchanged), 0, 0, 0, 0)]
       \/ ~(Compatible /\ Changed = <<>> /\ Deleted = {}) /\ Goto("create")
    /\ UNCHANGED <<index, cand, job, next, attempt, embedded, calls, answer>>

CreateCandidate ==
    /\ pc = "create"
    /\ \/ "write" \in Faults /\ Raise("write_error", "idle") /\ UNCHANGED cand
       \/ /\ cand' = [space |-> space, expected |-> Len(current), rows |-> <<>>]
          /\ Goto("reuse")
    /\ UNCHANGED <<index, job, next, attempt, embedded, calls, answer>>

(* _append_stored_candidate: a batch of rows, if the candidate has room and *)
(* none of them yet.  It may be written although the call fails.            *)
Extended(batch) == [cand EXCEPT !.rows =
    [id \in DOMAIN @ \cup IdsOf(batch) |->
        IF id \in DOMAIN @ THEN @[id]
        ELSE LET i == CHOOSE i \in 1..Len(batch) : batch[i].id = id IN batch[i].row]]
Fits(batch) ==
    /\ Cardinality(DOMAIN cand.rows) + Len(batch) <= cand.expected
    /\ IdsOf(batch) \cap DOMAIN cand.rows = {}

(* add_reused, batch by batch *)
AddReused ==
    /\ pc = "reuse"
    /\ LET chunks == Batch(Unchanged)
           batch == [i \in 1..Len(chunks) |->
                        [id |-> chunks[i].id, row |-> before.rows[chunks[i].id]]] IN
       \/ /\ ~Fits(batch) \/ "write" \in Faults
          /\ Raise("write_error", "abort")
          /\ cand' \in {cand, IF Fits(batch) THEN Extended(batch) ELSE cand}
          /\ UNCHANGED next
       \/ /\ Fits(batch)
          /\ cand' = Extended(batch)
          /\ next' = IF LastBatch(Unchanged) THEN 1 ELSE next + Capacity
          /\ Goto(IF LastBatch(Unchanged) THEN "embed" ELSE "reuse")
    /\ UNCHANGED <<index, job, attempt, embedded, calls, answer>>

(* Mutant: one attempt more than the policy allows. *)
AnotherAttemptMutant == attempt < MaxAttempts
(* RetryPolicy: a transient failure is followed by another attempt. *)
AnotherAttempt == attempt + 1 < MaxAttempts

(* GeminiEmbeddingProvider: what a request may fail with that is not retried: *)
(* a refusal, or an answer that does not have one finite vector per document. *)
FinalErrors ==
    (IF "permanent" \in Faults THEN {"provider_error"} ELSE {})
    \cup (IF "response" \in Faults THEN {"invalid_response"} ELSE {})

(* One call of the provider for the batch, under run_with_embedding_retries; *)
(* an empty batch is answered without a call.                                *)
Embed ==
    /\ pc = "embed"
    /\ calls < MaxCalls
    /\ LET chunks == Batch(Changed)
           made == [i \in 1..Len(chunks) |->
                       [id |-> chunks[i].id,
                        row |-> [text |-> chunks[i].text,
                                 vector |-> Vector(space, chunks[i].id, chunks[i].text)]]] IN
       \/ /\ embedded' = made /\ attempt' = 0
          /\ calls' = IF chunks = <<>> THEN calls ELSE calls + 1
          /\ Goto("add")
       \/ /\ chunks # <<>> /\ "transient" \in Faults
          /\ calls' = calls + 1
          /\ attempt' = attempt + 1
          /\ IF AnotherAttempt THEN Goto("embed") ELSE Raise("rate_limited", "abort")
          /\ UNCHANGED embedded
       \/ /\ chunks # <<>>
          /\ \E error \in FinalErrors : Raise(error, "abort")
          /\ calls' = calls + 1
          /\ UNCHANGED <<embedded, attempt>>
    /\ UNCHANGED <<index, cand, job, next, answer>>

AddEmbedded ==
    /\ pc = "add"
    /\ embedded' = <<>>
    /\ \/ /\ ~Fits(embedded) \/ "write" \in Faults
          /\ Raise("write_error", "abort")
          /\ cand' \in {cand, IF Fits(embedded) THEN Extended(embedded) ELSE cand}
          /\ UNCHANGED next
       \/ /\ Fits(embedded)
          /\ cand' = Extended(embedded)
          /\ next' = IF LastBatch(Changed) THEN 1 ELSE next + Capacity
          /\ Goto(IF LastBatch(Changed) THEN "validate" ELSE "embed")
    /\ UNCHANGED <<index, job, attempt, calls, answer>>

ValidateCandidate ==
    /\ pc = "validate"
    /\ \/ "read" \in Faults /\ Raise("read_error", "abort")
       \/ Cardinality(DOMAIN cand.rows) # cand.expected /\ Raise("corrupt", "abort")
       \/ Cardinality(DOMAIN cand.rows) = cand.expected /\ Goto("publish")
    /\ UNCHANGED <<index, cand, job, next, attempt, embedded, calls, answer>>

(* The replacement of the pointer, whose outcome a failure may leave unknown. *)
Publish ==
    /\ pc = "publish"
    /\ \/ /\ "publish" \in Faults
          /\ index' \in {index, cand}
          /\ Raise("publication_error", "abort")
          /\ UNCHANGED cand
       \/ index' = cand /\ cand' = None /\ Goto("report")
    /\ UNCHANGED <<job, next, attempt, embedded, calls, answer>>

Report ==
    /\ pc = "report"
    /\ pc' = "idle"
    /\ result' = [status |-> "success",
                  counts |-> Counts(Len(Unchanged), Len(Changed), Len(New), Len(Updated),
                                    Cardinality(Deleted))]
    /\ UNCHANGED <<index, cand, job, next, attempt, embedded, calls, answer>>

(* The candidate is dropped, or leaks when that fails as well. *)
Abort ==
    /\ pc = "abort"
    /\ cand' = None
    /\ Goto("idle")
    /\ UNCHANGED <<index, job, next, attempt, embedded, calls, answer>>

-------------------------------------------------------------------------------
(* SemanticSearcher.search by a provider of a program of some version *)

Failed(sp) == (IF "read" \in Faults THEN {[status |-> "read_error"]} ELSE {})
          \cup (IF index # None /\ index.space = sp /\ index.expected # 0
                   /\ {"transient", "permanent", "response"} \cap Faults # {}
                THEN {[status |-> "provider_error"]} ELSE {})

(* Mutant: only the document version is compared with the index. *)
SearchMutant(sp) ==
    /\ answer' \in Failed(sp) \cup
         {IF index = None THEN [status |-> "not_found"]
          ELSE IF index.space[2] # sp[2] THEN [status |-> "corrupt"]
          ELSE [space |-> sp[1], rows |-> index.rows]}
    /\ UNCHANGED <<index, cand, pc, job, next, attempt, embedded, calls, result>>

Search(sp) ==
    /\ answer' \in Failed(sp) \cup
         {IF index = None THEN [status |-> "not_found"]
          ELSE IF index.space[2] # sp[2] THEN [status |-> "corrupt"]
          ELSE IF index.space[1] # sp[1] THEN [status |-> "mismatch"]
          ELSE [space |-> sp[1], rows |-> index.rows]}
    /\ UNCHANGED <<index, cand, pc, job, next, attempt, embedded, calls, result>>

Synchronize ==
    \/ Read \/ CreateCandidate \/ AddReused \/ Embed \/ AddEmbedded \/ ValidateCandidate
    \/ Publish \/ Report \/ Abort

Next ==
    \/ \E sp \in Spaces, inv \in Inventories : Begin(sp, inv)
    \/ Synchronize
    \/ \E sp \in Spaces : Search(sp)

Spec == Init /\ [][Next]_vars

-------------------------------------------------------------------------------
(* Properties *)

(* However often vectors were copied from generation to generation, each    *)
(* record of the index has the vector the model of the index gives to the   *)
(* document of exactly that record: none is stale, swapped, or of another   *)
(* model or document version.                                               *)
VectorsAreCurrent ==
    index # None =>
        \A id \in DOMAIN index.rows :
            index.rows[id].vector = Vector(index.space, id, index.rows[id].text)

(* A synchronization that succeeds, or that finds nothing to do, leaves an  *)
(* index of exactly its inventory in its own embedding space.               *)
IndexIsInventory ==
    result # None /\ result.status \in {"success", "unchanged"} =>
        /\ index.space = space
        /\ DOMAIN index.rows = IdsOf(current)
        /\ \A i \in 1..Len(current) : index.rows[current[i].id].text = current[i].text

(* The counters add up (IndexSyncResult would raise after the publication   *)
(* if they did not), and they tell what changed from the former index.      *)
CountersAreTrue ==
    result # None /\ result.status \in {"success", "unchanged"} =>
        LET n == result.counts
            former == IF before = None THEN {} ELSE DOMAIN before.rows
            now == DOMAIN index.rows IN
        /\ n.inserted + n.updated = n.embedded
        /\ n.reused + n.embedded = n.total
        /\ n.inserted = Cardinality(now \ former)
        /\ n.deleted = Cardinality(former \ now)
        /\ n.reused = Cardinality({id \in now \cap former :
                          before.rows[id] = index.rows[id]})

(* "New or updated chunks alone are embedded" and "zero provider calls" for *)
(* a no-op (README): the calls are bounded by the batches that changed and  *)
(* the attempts the retry policy allows for each.                           *)
CallsAreBounded ==
    /\ calls <= MaxAttempts * ((Len(Changed) + Capacity - 1) \div Capacity)
    /\ result # None /\ result.status = "success" =>
           calls >= (Len(Changed) + Capacity - 1) \div Capacity
    /\ attempt < MaxAttempts \/ pc \in {"abort", "idle"}

(* A search that answers compares vectors of its own model only.            *)
AnswersAreComparable ==
    answer # None /\ "rows" \in DOMAIN answer =>
        \A id \in DOMAIN answer.rows : answer.rows[id].vector.space[1] = answer.space

================================================================================
