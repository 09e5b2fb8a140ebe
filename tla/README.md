# TLA+ models of Trace_Rag's indexing pipeline

This directory holds TLA+ specifications of the backend in `src/backend`, the
TLC configurations that check them on small instances, and TLAPS proofs of every
safety property that the passing runs check. Every definition is translated from the source;
`PROJECT.json` says from which lines ("map"), which run checks which property,
which hazards of the code the properties are for, and which plausible bug each
property detects ("mutants", defined beside the code they mutate).

Running: `tlc -workers 2 -config X.cfg M` and `tlapm M.tla` in this directory.

## 1. Inventory of the system

The backend turns a Git repository into a searchable index, in stages that a
caller runs one after another:

    URL -> RepositoryLoader -> FileScanner -> CodeParser -> CodeChunker
        -> SemanticIndexer -> ChromaVectorStore <- SemanticSearcher <- query

| component | state | operations | what makes it correct | model |
|---|---|---|---|---|
| Vector store (`embedding_vector_store/stores/chroma.py`, contract in `stores/base.py`) | on disk: Chroma collections, one pointer file per repository and its `.candidate`; shared by threads: reader counts, pending cleanups, reservations, under one lock | begin/add/validate/publish/abort of a candidate, pinned and stale searches, deletion of an index | one complete active index per repository at any moment, replaced as a whole; a generation in use is not deleted, an unused one is, once | `ChromaStore` implements `AtomicIndex` |
| Writer guards (`_concurrency.py`) | a set of repositories | a nonblocking lease | one mutator per repository, no leaked lease | in `ChromaStore` |
| Ownership of the root (`chroma.py` 95-208, constructor) | registry of a process, lock file, client, adapters | construct, finalize, fork, exit | one owner of a root, adapters of a process share its state, a root nobody uses is free | `Ownership` |
| Semantic synchronization (`synchronization.py`, `retry.py`, `documents.py`) | the running synchronization | classify, reuse, embed in batches with retries, publish, report | the index is the inventory, with vectors of the right text and model; true counters; bounded calls | `SemanticSync`, its steps on the store in `ChromaStore` |
| Semantic search (`search.py`) | - | pin, compare spaces, embed the query, rank | answers from the pinned generation and from its own embedding space | `ChromaStore`, `SemanticSync` |
| Embedding provider (`providers/`) | - | embed documents and queries | error kinds drive the retries | outcomes only, in `SemanticSync` |
| Repository loader (`repository_loader/`) | workspace directories, running git processes | load: check, verify, clone, metadata, removal | a loaded clone is complete and stays; a failed one leaves nothing; other data is untouched | `RepositoryLoader` |
| File scanner (`file_scanner/`) | - | scan directories and entries, sample contents | lists all that is there or says what it left out, refuses links | `SnapshotPipeline` |
| Source reader (`code_parser/reader.py`) | open descriptor | open, read, compare afterwards | the bytes are those of the listed file | `SnapshotPipeline` (POSIX) |
| Code parser (`parser.py`, `registry.py`) | cache of parsers | parse an inventory | one outcome per file, honest about its cause | `SnapshotPipeline` |
| Code chunker (`chunker.py`, `validation.py`) | - | chunk two inventories | chunks contain the bytes that were parsed | `SnapshotPipeline` |
| Extractors (`code_parser/extractors/`) | stacks of scopes, owners, barriers and modifier contexts of one walk | visit the nodes of a syntax tree | symbols and calls belong to what is lexically around them | `Extraction` |
| Symbol intervals (`intervals.py`) | stack, forest, candidates | build forest, select candidates | exactly the forests are accepted; chunks are disjoint, lose no text, belong to the innermost symbol | `SymbolIntervals`, with the extractors in `FileStructure` |
| Fragmenter (`fragmenter.py`) | position, pieces | cut | pieces tile the range, decode, respect the limit | `Fragmenter` |
| URL validation, chunk ids, Windows reader, loader script | - | - | - | not modelled, see section 8 |

How they interact: the stages pass immutable inventories, so their interaction
is about *time*: files and directories change between two stages, and the
chunker re-reads what the parser has read. Indexer, searcher and deletion share
the store, from several threads of a process; adapters of several processes
share only the file system. The garbage collector calls back into the store
(finalizers), `fork` copies it.

What is hard, in this code:

- three kinds of operation in one store with two locks, neither held over a
  call to Chroma: the pointer is read in one step and used in a later one;
- publication is a file replacement that can fail with or without having taken
  effect, and the abort has to find out which;
- whoever releases the last lease deletes a superseded generation, in a race
  with deletion of the index, new searches and stale handles;
- the process stops between any two of these steps;
- the reentrant registry lock, under which finalizers run nested in constructors;
- loads of one repository racing in the workspace, git timeouts, removals;
- vectors copied from generation to generation while models change;
- files edited between their scan, parse and chunking, and inode reuse;
- directories and entries the scan cannot read: a partial inventory that passed
  for a whole one would purge the index;
- the stacks of the extractors, pushed on a dozen branches and popped on one;
  errors inside declarations; a chunker that trusts neither ranges nor parents;
- boundary arithmetic on bytes, CRLF, UTF-8 and adjacent ranges.

`PROJECT.json` lists these as "hazards", each at its line.

## 2. Plan, and what of it is done

1. `AtomicIndex`, `ChromaStore`, its inductive invariant and the proof. **Done.**
2. `Ownership`, which decides when the threads above share one state. **Done.**
3. `RepositoryLoader`. **Done.**
4. `SemanticSync`: the contents of generations. **Done.**
5. `Fragmenter` and its proof; `SymbolIntervals`. **Done.**
6. `SnapshotPipeline`, with unreadable directories, and the proof of
   `ChunksComeFromParse`. **Done.**
7. `Extraction`, the walks of the three extractors, and `FileStructure`, their
   composition with the chunker. **Done.**
8. The proof of `PreexistingIsKept` for any loads; interrupts as a fault of the
   store. **Done.**
9. Proofs of the other safety properties of the store and of its refinement of
   `AtomicIndex`; of `Ownership`, `SemanticSync`, `SymbolIntervals`, and of the
   rest of `RepositoryLoader` and `SnapshotPipeline`. **Done.**
10. Proofs of `OwnersAreLexical` and `SymbolsAreLexical`, with an invariant that
    relates the stacks of `Extraction` to the nodes around the next one, and of
    `RefusedForConstantsOnly` for any tree; the properties of the chunker proved
    of the composition. **Done.**
11. Left: the path components of the reader on POSIX and its handles on Windows,
    the requests of the Gemini provider, and `Ownership` composed with a crash
    and restart of `ChromaStore`.

## 3. Modules

`MC<M>` instantiates module M for TLC: sets of inputs, bounds, symmetry.

**`AtomicIndex`** is the contract of `stores/base.py`: per repository one index
that is published or removed in one step, and searches that answer from what
they pinned. It knows nothing of collections, pointers or counts.

**`ChromaStore`** is `ChromaVectorStore` as used by `SemanticIndexer`,
`SemanticSearcher` and `delete_repository_index`. A thread has a `pc`; a label
names its next call into Chroma or the file system, or its next critical
section, and these are the atomic steps. Variables: disk (`ptr`, `staged`,
`catalog`, `coll`), the shared state of `_PersistenceConcurrencyState`
(`readers`, `pending`, `reserved`) and of the guards, the snapshot objects that
callers may still have (`handles`), and the locals of each thread. Each call
may fail if its kind is in `Faults`; "delete" and "pointer_write" may fail
before or after the effect; the `unlink` of a pointer only before it. `Crash` keeps the disk and resets everything else.
`Interrupt` is a `KeyboardInterrupt` or `SystemExit` in a call: no handler of
`Exception` sees it, so that there is no abort and only `finally` clauses run.
`Retire`/`Retired` are `_delete_reserved_collection` with its `finally`, called
from publication and from the release of a lease (`back` is the return label).

**`ChromaStoreInv`**: the inductive invariants of the store.
**`ChromaStoreProofs`** proves the first, about who holds what, then the others,
about contents and outcomes, and the refinement.

**`Ownership`**: every adapter object that will ever be constructed, and the
processes. Constructor, finalizer (`Finalize`, `CloseClient`, `CloseFile`) and
`Discard` (the last reference is dropped) are steps; `stack` is the chain of
calls inside the reentrant `_PERSISTENCE_STATES_LOCK`. `files` is the set of
processes with an open descriptor of a lock file: `flock` belongs to the open
file, so the lock is held while it is not empty. `Timings` switches on two rare
timings, see section 7. `CloseFile` may raise: the registry then keeps the state
although its descriptor is gone. **`OwnershipProofs`**: its proofs.

**`RepositoryLoader`**: `load` step by step; `git clone` as a process with
stages (`initialized`, `fetching`, `checking_out`, `complete`) and its own
failures, the timeout that kills it (or comes when it has just ended), `_remove_new_destination` as two steps
(removal takes time and may give up), and `Stop` of the whole program, which may
leave git running. A `scenario` says who loads what and which faults may happen;
`filler` remembers whose git made a directory, to tell new data from old.
**`RepositoryLoaderProofs`**: its proofs.

**`SemanticSync`**: `synchronize` in one thread, with what is in the rows: text,
model, document version. A vector is a record of the document it was computed
from, so a vector that is stale or in the wrong place is visible.
**`SemanticSyncProofs`**: its proofs.

**`SnapshotPipeline`**: scanner, parser and chunker over a small file system of
paths and inodes with an `Edit` action between any two steps. `since` and `at`
in the inventories are ghosts: how often the file had been edited when the scan
reached it, and when the stage was done with it. `AbortScan` is the error that
ends a scan, `SkipDirectory` a directory below the root that cannot be opened.
**`SnapshotPipelineProofs`**: its proofs.

**`Extraction`**: `iter_events` as a list of events over a syntax tree, and for
each language what `extract` does on entering a node (`Python`, `Java`,
`EcmaScript`) and on leaving it (`Leave`). What the extractors do is decided by
the type of a node, the node it is in, and the stacks, so a node of the model
stands for a construct with all that decides nothing. In ECMAScript the class
body, the interface body and the statement block of a construct are nodes of
their own, because modifier contexts end at some of them and constants and
methods are looked for in others; parameters, what a class extends and the
expression of an arrow function are in the construct beside its body.
`Declare` is the pattern all
declarations share: a symbol and a scope, or a barrier if it is damaged or lies
behind one. ECMAScript also keeps the modifiers of export statements, up to
class bodies and statement blocks (`EnterContext`, `Boundaries`), and a stack of decorators of its own.
**`ExtractionProofs`**: its proofs.

**`FileStructure`** composes them: the symbols of a walk are handed to the
chunker (`HandOver`), which builds its forest and selects candidates; or a
caller hands over any symbols at all, as the interface of the chunker allows.
**`FileStructureProofs`**: proofs about the forest and the candidates, whoever
made the symbols, and about what the symbols of a tree are for the chunker.

**`SymbolIntervals`**: `build_symbol_intervals` (one step per symbol and per pop
of the stack) and `select_candidates`.

**`Fragmenter`**: one step per turn of
the loop of `fragment_candidate`, on bytes reduced to seven classes.
**`FragmenterProofs`**: its proofs.

## 4. Runs

Twelve runs, one per question. "Violation" runs show a disagreement between the
code and its documentation.

| run | states | shows |
|---|---|---|
| `store_threads` | 616 000 | two writers which also delete, two searching threads, failing pointer replacements: no corruption, leak or mutation of leased data; refinement of `AtomicIndex` |
| `store_faults` | 472 000 | any call fails or is interrupted, the process stops anywhere: the active index stays complete, a success is what is active, and an ended operation holds nothing |
| `store_liveness` | 23 000 | superseded generations are deleted, by the publisher or the last reader |
| `store_delete_race` | - | violation, section 7 |
| `ownership` | 121 000 | three processes (one forked), three adapters, every failure of construction and teardown, a lock file that closes with an error included |
| `loader` | 133 000 | two loads of two repositories with every failure of git, or three of one with removals that fail and stops: older data stays, loads return, and where no removal fails and nothing stops, what is loaded is complete and stays and failures leave nothing |
| `loader_removal` | - | violation, section 7 |
| `sync` | 524 000 | sequences of failing synchronizations and searches over two models and two document versions |
| `fragments` | 93 000 | every text up to 6 bytes under every configuration up to 5 |
| `intervals` | 1.25 million | syntax trees of up to 6 nodes in three languages, walked, turned into a forest and into candidates; and every sorted list of up to 3 symbols, blank region and error from a caller |
| `constants` | - | violation, section 7 |
| `pipeline` | 5.2 million | two files, one in a directory of its own, two inodes, two edits, repeated stages |

### Why the bounds are enough

*Store.* Two names per repository is the smallest number with an old and a new
generation, and it makes names scarce, so a name is never drawn twice and a
third publication finds none: what is lost are histories of three generations
of one repository. `Capacity = 1` with a two-row inventory takes two batches, so
a candidate is incomplete in between. Two writers are needed for the guard, two
searchers for a count above one and for handing a superseded generation over.
The two-repository case is left to the proof, which has any number of them.

*Ownership.* Three adapters: one that dies while another is built and a third
that reuses or reopens the root. Two independent processes compete; the third
is only ever forked.

*Loader.* Three loads race for one destination: one clones, one verifies, one
removes. Two suffice where the repositories differ. `LoadedStaysComplete` and
`FailureLeavesNothing` are claimed for loads of different repositories in a
program that is not stopped and where no removal gives up (`LoadsAreApart`):
`loader_removal` and the design's reuse of whatever has the right origin show
why.

*Sync.* `Capacity = 2` with three chunks gives a full and a partial batch; two
attempts per batch; `MaxCalls = 5` lets both batches be retried in one
synchronization. Inventories add, change, swap and drop chunks; one is empty.

*Fragmenter.* Six bytes hold a four-byte character next to a CRLF or another
character; limits up to five are below, at and above its width. The proofs have
no bound. *Intervals.* Three symbols have all shapes of a forest with three
nodes, and every crossing; names and parents vary in a file of three positions
(with ranges beyond its end), whitespace and errors in one of four.

*Syntax trees.* `Grammar` (in `MCFileStructure`) says what each language allows
in what, and `Bodies` what is allowed in the bodies of ECMAScript. Six nodes,
bodies not counted, of which one may have two in it, hold a declaration behind a
barrier with a sibling after it, a call after a decorated inner function, an
error beside an undamaged declaration, an export around an interface with a
method, an exported function with a binding in its parameters and another in its
block, and five levels of nesting. Wider trees are left out: what is pushed for
one node is popped before its sibling, so a second branching repeats the first;
the proofs have any tree.

*Pipeline.* Two edits allow a file to be changed and changed back, and an inode
to be freed and reused; the second path, of a language without parser, is a
neighbour that takes and frees inodes. There are contents that parse partly, make
the extractor raise, cannot be cut, are binary, or too large; text that is not
UTF-8 (`latin`), whose only step of its own is the refusal to decode that binary
content meets when it replaces a listed text, is left out for time.

Symmetry is used where the elements are interchangeable (names of generations,
inodes) and never with a liveness property. Deadlock is checked except in
`ownership` (processes and adapters are used up), `fragments`, `intervals` and
`constants` (the algorithms terminate).

`TypeOK` is a conjunct of most inductive invariants; that of the pipeline has
types of its own (`SourceTypes`), and for the walk and for the forest it is a
theorem that follows from theirs. No run spends its time on it, nor on the
inductive invariants, which are proved (and were checked by TLC on these
instances before they were).

### Coverage of hazards

Each property in `PROJECT.json` has a mutant, a small change of a mapped
definition (a dropped reservation check, a guard taken too late, a count not
taken back, a digest not compared, a boundary off by one) under which TLC finds
the property violated with the configuration of its run. A property that holds
because the model leaves out the interesting part would survive its mutant.

## 5. Fairness

Only the steps that code takes by itself are fair; starting an operation,
editing a file, failing and stopping never are.

- `ChromaStore`: weak fairness of each thread inside an operation. Chroma and
  file calls return or raise, provider calls are bounded by their timeout and
  retries, and the locks are held for a bounded number of local steps.
  `SupersededIsDeleted` assumes nothing of new searches; it excludes only a
  caller who searches through the old snapshot object for ever.
- `Ownership`: weak fairness of each constructor and finalizer, which includes
  that a dead adapter is collected some day.
- `RepositoryLoader`: weak fairness of a load and of its git: git ends, or
  `subprocess.run` kills it at the timeout.

`SemanticSync`, `Fragmenter`, `FileStructure` and `SnapshotPipeline` have no
liveness property. Their loops end because of safety: `CallsAreBounded` bounds
the retries, `PiecesTile` says that no piece is empty, and a stage, a stack or a
walk consumes a finite list.

## 6. What is proved

A theorem holds for every value of the constants that satisfies the assumptions
its module names. Each rests on an inductive invariant, proved with a lemma per
action (or per group of actions) and a step per conjunct, and combined in the
lemma about `Next`; the last step of each theorem is the temporal one.

| module | invariant | properties proved |
|---|---|---|
| `ChromaStoreProofs` | `IInv` | `ActiveComplete`, `OneDeleterPerCollection`, and `LeasedNotReserved`, `ReadersCounted`, `OneMutatorPerNamespace`, `NeverDeletesActive` |
| | `JInv` | `NoFalseCorruption`, `SuccessPublishes`, `QuiescentClean`, `LeasedImmutable`, `ImplementsAtomicIndex` |
| | with `FailuresAreProved` | `RaisingPreservesIndex` |
| | with `EveryCollectionIsClaimed` | `QuiescentTidy` |
| `OwnershipProofs` | `OwnerInv` | `OwnedExclusively` |
| | with `SharedInv` | `AdaptersShareState`, `FailedTeardownIsFinal` |
| | with `FilesInv` | `ReleasedAtExit`, `ReleasedWhenUnused` |
| `SemanticSyncProofs` | `SyncInv` | `VectorsAreCurrent`, `IndexIsInventory`, `CountersAreTrue`, `CallsAreBounded`, `AnswersAreComparable` |
| `RepositoryLoaderProofs` | `KeepsInv` | `PreexistingIsKept` |
| | `ApartInv` | `FailureLeavesNothing`, `LoadedStaysComplete` |
| `SnapshotPipelineProofs` | `DigestInv` | `ChunksComeFromParse` |
| | with `SourceInv` | `ChangesAreReal`, `FailuresAreEarned`, `ScansAreComplete` |
| `ExtractionProofs` | `WalkInv` | `OwnersAreLexical`, `SymbolsAreLexical`, of the walk |
| `FileStructureProofs` | `FileInv` | `RefusesExactlyNonForests`, `CandidatesPartition`, `OwnersAreInnermost`, `PartialContextIsSafe`, `RefusedForConstantsOnly`, and the two above of the composition |
| `FragmenterProofs` | `IInv` | `PiecesTile`, `PiecesAreText`, `LinesStayWhole`, `FailsOnlyOnWideText`, and `FourBytesSuffice` |

### The store: who holds what

For any sets of repositories, names, records and inventories, any finite set of
threads, any capacity, and any choice of calls that may fail or be interrupted,
crashes included. Assumptions, all named in `ChromaStore`: inventories are finite
sets of rows, the capacity is positive, `Faults` contains known kinds, there are
finitely many threads, and `None` is neither a repository, a collection, an
inventory nor what a reader sees of an index.

`ActiveComplete` is not inductive. That a publication leaves the pointer at a
complete collection needs that the candidate it validated is still what it was,
so:

- `CandidateIsPrivate`: until it is committed, only its indexer knows a
  candidate: no pointer names it, it is neither reserved nor pending; in front
  of the replacement, the staged file names it and it is complete;
- this needs fresh names (`NamesAreDrawn`), and one indexer per repository
  (`OneMutatorPerNamespace`), whose locals belong to the repository it has
  guarded (`JobsAreLocal`);
- a deletion must not hit the active collection: what is reserved or pending is
  not active (`ActiveIsKept`), and what an indexer or a deleter read from the
  pointer is still there when it acts on it (`PointerIsStable`);
- a reservation has one thread that removes it, or a finished deletion would
  release the reservation of another (`ReservationsAreExclusive`);
- a leased collection is not reserved (`LeasedNotReserved`), which needs exact
  counts (`ReadersCounted`), which need to know what a search holds at each step
  (`LeasesAreLocal`).

`QuietStep` serves the steps that change only locals; `AddHolder` and
`RemoveHolder` are the facts about cardinalities behind the counts.

### The store: contents and outcomes

`JInv` says what is in the collections and what an outcome means. A candidate
holds rows of its inventory and, once filled, all of them (`CandidateIsWanted`);
what is active or pinned is a whole inventory that is still there
(`IndexesAreInventories`), so no search or indexer meets corruption; the prior
generation is the one the indexer has in hand until the replacement
(`PriorIsKnown`), so a success is what is active from the moment it is decided
(`OutcomesAreEarned`); a mark for later cleanup has a reader
(`PendingIsLeased`), a reservation a thread (`ReservedIsOwned`), and a deletion
lists all collections of its repository (`ListingIsComplete`). Its conjuncts
speak of single threads: each has a lemma whose two parts are a step of the
thread and the steps of others (`OthersKeep`, `CandidatesKept`).

`CandidateIsUnseen` has it that a candidate was never handed out, as a snapshot
or a lease. That is why a caller can be handed only a snapshot whose collection
was read (`Open`), and why stale handles are harmless.

`StepImplements` maps each step to one of `AtomicIndex` or to a stutter: the
replacement of the pointer file is the publication, its removal the deletion of
an index, a crash the crash of `AtomicIndex`; a search is pinned, answers and is
released; the rest is invisible.

Two properties have a hypothesis on `Faults`, without which the code does not
have them. `RaisingChangesNothing` needs that the pointer can be read back
(section 7) and that nothing interrupts the code between the replacement and the
end of the publication. `QuiescenceIsTidy` needs that at most pointer
replacements and the provider fail (`OutsideFaults`): a deletion that fails
leaves its collection behind, until the index is deleted. The run `store_threads`
checks both under such faults.

### Ownership, for any processes and adapters

`OwnerInv` relates the registry to the adapters: whoever is inside the lock is
on the stack of its process, at most two deep (`Stacks`); the registered state
holds the lock file or has closed its client, and has somebody who will release
it, unless closing the one or the other failed (`RegisteredAt`); the adapters counted are those still to be finalized
(`Members`). It holds whatever the timing, and so does `OwnedExclusively`. That
adapters share one open state needs `"gc_in_check" \notin Timings`; that a root is
free in the end needs `"fork_in_constructor" \notin Timings`. Section 7 says how
the code violates them otherwise.

### Synchronization, for any inventories and policies

`SyncInv` has the type invariant, the contents (`Belongs`: a row of a candidate
is that of a chunk of the inventory, the former one if the chunk is reusable, and
its vector is that of the chunk under the model of the synchronization) and the
progress (`Progress`: where the next batch begins, and how many calls the
batches before it have taken). No fault, model change or version change is left
out. The counters need that the lists of reused, new and updated chunks are
those of `_classify_chunks`; they are defined by a recursive function on
positions (`Picked`), and the lemmas about it follow by taking a least
counterexample (`Least`).

### The loader, for any loads of any repositories

For any set of repositories and scenarios; loads are of known repositories,
faults and initial contents of known kinds. `KeepsInv`: only a load that has
found the destination absent runs git or removes anything there, and a
destination that once was absent has a filler whenever something is in it; a load
that verifies an existing clone (`VerifiesOld`) never comes to touch it
(`TouchesOwn`). So `PreexistingIsKept` holds with every fault and any number of
loads of one repository. `ApartInv` says of loads that are apart what each finds
at its destination at each of its steps (`Standing`); the two properties it
yields are claimed under `LoadsAreApart`, as in the run.

### The pipeline, for any files and edits

For any paths, contents, languages and any number of edits. `DigestInv` relates
the inventories to what they were computed from: a parse records the digest of
the bytes whose status it reports (`ParsesAreTrue`), a chunking goes on with the
inventory it began with (`ChunkingIsOfParsed`), takes up only what was parsed
(`HeldIsParsed`), and compares the digest before it cuts (`ChunksAreTrue`).
`SourceInv` relates them to the files: what a stage recorded of a file that has
not been edited since is what the file is (`FilesAreKnown`), also for the file in
hand between open, read and verification (`InHandIsListed`) and for the scan so
far (`ScanIsSoFar`). It needs that two paths never name one inode
(`NodesAreApart`), and that marks like `None` and `"link"` are no inodes, digests
or files (`NamesAreApart`, `NoneIsNoFile`).

### The walk, for any syntax tree

For any tree of the types of nodes that `Extraction` tells apart in a language,
with one root and nodes that are disjoint or nested (`TreesAreSyntax`; `Nobody`
is no node, `NobodyIsNoNode`): its size, its depth and what lies in what are
free, so that errors may have any shape. The walk sees one event at a time, so
that its stacks have to stand for the nodes around the next one (`Inside`), and
`WalkInv` says what each of them is as a function of the tree alone:

- `Walking`: what is left of the walk is a chain in which each event has the one
  after it in the tree, so that every node is left once, and when it is left
  everything in it has been;
- `OnStacks`: the nodes marked as having pushed a scope, a barrier or a decorator
  are those around the next one that do (`Marked`), the counter of barriers
  counts them (`Counted`), the stacks list them from outside in, and the owner
  on top is that of the innermost node that decides it (`Owned`);
- `Modified`: the context of export statements, and what is restored when a
  class body, a statement block or an export statement is left, are what the
  export statements around say, up to class bodies and statement blocks;
- `Collected`: symbols and calls are the union, over the nodes entered, of what
  the tree says of each (`SymbolsAt`, `CallsAt`).

`OwnersAreLexical` and `SymbolsAreLexical` then follow from `Collected` at the
end of the walk. The lemmas about entering go by language and type of node; the
one about leaving is one for all, since `_leave` pops what is marked.

### Symbols and candidates, for any file and any tree

The theorems are about the composition `StructureSpec`: the symbols of the
extractor for any tree, or those of a caller, any symbols in the order the
chunker sorts them into, with any blank bytes and any locations of errors.
`Forest` describes the stack algorithm: the symbols placed are pairwise disjoint
or nested and have the parents they name (`Nested`), the stack is a chain that
holds every symbol that has not ended (`Stacked`), and children are listed with
the innermost symbol around them (`Adopted`). `Chosen` is what has been selected
so far, and that a refused list is no forest. `ByOrigin` joins the two parts:
until the symbols are handed over, the file is empty and the walk satisfies
`WalkInv`; from then on, the walk is finished and the file is the sorted symbols
it found (`ParsedFile`), which are a file as the chunker assumes it
(`MadeFacts`).

`RefusedForConstantsOnly` is a statement about trees: the located symbols of a
tree form a forest unless a Java field declares several names, or a declaration
lies in the value of a constant of a class. By `SymbolsAreLexical` the parent of a
symbol is the innermost undamaged container around it. Ranges of nodes are
disjoint or nested, so that only constants can lie between a symbol and its
parent, and one does exactly if a constant with a parent of its own lies around
a symbol (`OnlyConstantsAreBetween`). If none does, the parent is the innermost
symbol around (`ParentIsInnermost`). So the symbols are a forest unless two of
them share a range or a constant is in between (`ForestOfDeclarations`,
`CausesInTree`, `NoForestForACause`). Whether the list is accepted is then
`RefusesExactlyNonForests`. Assumptions: `None` is no index and no name of a
symbol of a tree (`NoneIsNoIndex`, `NoneIsNoName`), and a caller's symbols are
sorted (`FilesAreSorted`).

### The fragmenter, for any text and configuration

The pieces tile the candidate within the maximum, decode, leave a line that fits
whole; a failure is due to a character or CRLF wider than the maximum, and no
text is refused when the maximum is at least four bytes. Assumptions: the
candidate is a nonempty text that decodes, and the configuration satisfies the
checks of `ChunkerConfig`. The invariant says that the position is a character
boundary of the candidate, so that what is left decodes too; `DecodesBetween` and
`CharacterAfter` are the lemmas about texts.

### Only model-checked

- `SupersededIsDeleted`, `ConstructorsEnd`, `LoadsEnd`: liveness under fairness,
  outside what the installed provers handle.
- The violations of section 7, which are counterexamples.

Induction over data is done by least counterexamples, since the induction
theorems of the library take an operator the provers cannot instantiate. The
recursive operators of `MCFileStructure` enumerate inputs; no module with a proof
uses them.

## 7. Where code and documents disagree

Shown by a run:

- `store_delete_race`: `delete_repository_index` says it either deletes or is
  busy (`chroma.py:1427`). It lists and checks collections without the lock that
  readers delete under, so an overlapping search that releases the last lease of
  a superseded generation makes it raise a corruption or write error. Nothing is
  lost; a retry succeeds.
- `loader_removal`: "Existing workspace data is never overwritten or silently
  deleted" (`README.md:74`). Two loads of one repository both see no directory;
  git refuses the second clone because the first has created the directory, and
  the handler of that failure removes it, although the first load may have
  returned it.
- `constants`: the names of one Java field declaration (`final int A = 1, B =
  2;`) are constants of one range, that of the whole declaration
  (`java.py:259`). The chunker refuses two symbols of one range
  (`intervals.py:82`), so a file that parsed with success fails as a whole with
  `LOCATION_INVALID`, where the design has every constant selected (2026-08-29,
  line 266). `RefusedForConstantsOnly` says when else a parsed file is refused:
  when something is declared in the value of a constant of a class (a Java field
  whose lambda declares a class in its block, a TypeScript `static readonly`
  function with a declaration in it). It names the class as its parent, but the constant lies
  between the two (`intervals.py:100`).

Met while modelling, and visible with other constants or a reading of the code:

- More carries the modifier `export` than what an export statement declares. Only
  class bodies and statement blocks end a modifier context
  (`ecmascript.py:45`), so the members of an exported TypeScript interface are
  exported, and so is what is declared in the parameters of an exported function,
  in what an exported class extends, and in an arrow function without a block:
  `g` in `export const f = () => (g = () => 1)`. `SymbolsAreLexical` states what
  the code does.
- `_resolve_publication_outcome` raises when the pointer cannot be read back
  after a replacement that did take effect, although the design (2026-09-03,
  line 424) has a raising publication preserve or prove the old index. With
  `Faults = {"pointer_read"}`, `RaisingPreservesIndex` is violated;
  `RaisingChangesNothing`
  proves the promise for every other call that fails.
- With `"gc_in_check" \in Timings`, `AdaptersShareState` is violated: a cyclic
  collection between the test `adapter_count == 0` (line 153) and
  `adapter_leases.add` can run the finalizer of the last adapter in the same
  thread, and the reentrant lock lets it close the client the constructor is
  about to share.
- With `"fork_in_constructor" \in Timings`, `ReleasedAtExit` is violated: a
  child forked while another thread has opened the lock file, but not yet
  registered its state, keeps the inherited descriptor and with it the lock.
- `ChunkerConfig` accepts maxima below four bytes, for which the fragmenter
  refuses valid text, where the design (2026-08-29, line 340) has it always
  progress. `FourBytesSuffice` proves the promise from four bytes on.
- The file-level context of a file is the complement of the candidates, not of
  the top-level symbols (design 2026-08-29, line 272): where the text between a
  symbol's edge and its first child is blank, it reaches into the symbol.

## 8. Not modelled

- *Imports, parameters, types and bounded texts* of the extractors, and the
  removal of repeated results: they touch none of the stacks. `Grammar` bounds
  the trees of the runs, not those of the proofs (trees of errors in particular,
  which tree-sitter may shape at will). Two names of a symbol are taken to be
  different.
- *URL validation*, *classification tables*, *chunk ids*: pure functions of
  single values without state.
- *The order of the walk of directories*, ignored ones, and the replacement of
  parent directories: a scan is a set of entries, opened by one name, some of
  them in a directory that may turn out unreadable.
- *The Windows reader*: handles and sharing modes of another system.
- *Gemini's HTTP details*: only the kinds of outcomes the retry policy tells
  apart.
- *Checks of shapes and types* of the contracts, and ranking of results.
- *Power loss*: a completed file replacement stays. The directory is not
  synchronized by the code, so a power failure could lose the rename after the
  old generation was deleted; a model needs the order in which SQLite and the
  directory reach the disk.
- *Interrupts between two bytecodes*: the store's calls can be interrupted, but
  not the gap between a critical section and the `try` that undoes it
  (`chroma.py:389`, 1366, 1466), where a signal handler that raises would leave a
  reader or a reservation behind until the process ends.
