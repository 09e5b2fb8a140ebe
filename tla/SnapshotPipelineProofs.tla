-------------------------- MODULE SnapshotPipelineProofs --------------------------
(***************************************************************************)
(* Chunks are cut from the bytes that were parsed, for any paths, contents *)
(* and edits, and whichever stages are repeated: what the chunker holds is *)
(* a file the parser has read, with the digest and the status of the last  *)
(* parse, and no parse takes place before it is done with it.              *)
(***************************************************************************)
EXTENDS SnapshotPipeline, TLAPS

(* What a parse records of a file it could read is the parse of its digest. *)
TrueParse(f) == f.status \notin {"failed", "skipped"} => f.status = Parse[f.sha]
TrueChunks(f) ==
    f.status # "failed" =>
        f.content = f.sha /\ f.status = f.parse_status /\ f.status = Parse[f.content]

(* Between the stages nothing is in hand.                                  *)
IdleIsClean == stage = "idle" => reader = None /\ results = Empty

(* The files a chunking has in hand, or has still to begin, were parsed.   *)
HeldIsRecord ==
    reader # None =>
        reader = [path |-> reader.path, step |-> reader.step, size |-> reader.size,
                  node |-> reader.node, content |-> reader.content, since |-> reader.since]
HeldIsParsed ==
    stage = "chunk" =>
        /\ \A p \in todo : parsed[p].status # "skipped"
        /\ reader # None => parsed[reader.path].status \notin {"failed", "skipped"}

ParsesAreTrue ==
    /\ \A p \in DOMAIN parsed : TrueParse(parsed[p])
    /\ stage = "parse" => \A p \in DOMAIN results : TrueParse(results[p])
ChunksAreTrue ==
    /\ \A p \in DOMAIN chunked : TrueChunks(chunked[p])
    /\ stage = "chunk" => \A p \in DOMAIN results : TrueChunks(results[p])

(* And the chunking goes on with the inventory of the parse it began with. *)
ChunkingIsOfParsed ==
    stage = "chunk" =>
        todo \subseteq DOMAIN parsed /\ (reader # None => reader.path \in DOMAIN parsed)

DigestInv ==
    /\ IdleIsClean /\ HeldIsRecord /\ HeldIsParsed /\ ChunkingIsOfParsed
    /\ ParsesAreTrue /\ ChunksAreTrue

LEMMA InitDigestInv == Init => DigestInv
BY DEF Init, DigestInv, IdleIsClean, HeldIsRecord, HeldIsParsed, ChunkingIsOfParsed,
       ParsesAreTrue, ChunksAreTrue, Empty

(* A stage that is done with a file: r goes into the results.              *)
LEMMA RecordDigestInv ==
    ASSUME DigestInv, NEW p, NEW r, Record(p, r), stage # "idle",
           stage = "parse" => TrueParse(r), stage = "chunk" => TrueChunks(r)
    PROVE  DigestInv'
<1>1. stage' = stage /\ stage' # "idle" /\ parsed' = parsed /\ chunked' = chunked
    BY DEF Record, env, source, inventories
<1>2. DOMAIN results' = DOMAIN results \cup {p} /\ reader' = None /\ todo' = todo \ {p}
    BY DEF Record
<1>3. \A q \in DOMAIN results' : results'[q] = IF q = p THEN r ELSE results[q]
    BY DEF Record
<1>4. (IdleIsClean /\ HeldIsRecord /\ HeldIsParsed /\ ChunkingIsOfParsed)'
    BY <1>1, <1>2
       DEF DigestInv, IdleIsClean, HeldIsRecord, HeldIsParsed, ChunkingIsOfParsed
<1>5. ParsesAreTrue'
    <2>1. ASSUME stage = "parse", NEW q \in DOMAIN results' PROVE TrueParse(results'[q])
        BY <2>1, <1>2, <1>3, TrueParse(r) DEF DigestInv, ParsesAreTrue
    <2> QED
        BY <2>1, <1>1 DEF DigestInv, ParsesAreTrue, TrueParse
<1>6. ChunksAreTrue'
    <2>1. ASSUME stage = "chunk", NEW q \in DOMAIN results' PROVE TrueChunks(results'[q])
        BY <2>1, <1>2, <1>3 DEF DigestInv, ChunksAreTrue
    <2> QED
        BY <2>1, <1>1 DEF DigestInv, ChunksAreTrue, TrueChunks
<1> QED
    BY <1>4, <1>5, <1>6 DEF DigestInv

(* A result that reports a failure says nothing of a digest.               *)
LEMMA UnreadableDigestInv ==
    ASSUME DigestInv, NEW p, NEW issue, Unreadable(p, issue)
    PROVE  DigestInv'
<1>1. CASE stage = "parse"
    <2>1. PICK r : Record(p, r) /\ TrueParse(r)
        BY <1>1 DEF Unreadable, ParseResult, TrueParse
    <2> QED
        BY <1>1, <2>1, RecordDigestInv
<1>2. CASE stage = "chunk"
    <2>1. PICK r : Record(p, r) /\ TrueChunks(r)
        BY <1>2 DEF Unreadable, ChunkResult, TrueChunks
    <2> QED
        BY <1>2, <2>1, RecordDigestInv
<1> QED
    BY <1>1, <1>2 DEF Unreadable

(* A file taken in hand is a record, and one the parser read if a chunking *)
(* takes it.                                                               *)
LEMMA TakeUpDigestInv ==
    ASSUME DigestInv, NEW p, NEW step, NEW size, NEW node, NEW since,
           TakeUp(Hold(p, step, size, node, since)), stage # "idle",
           stage = "chunk" => p \in todo /\ parsed[p].status # "failed"
    PROVE  DigestInv'
<1>1. /\ reader' = Hold(p, step, size, node, since) /\ todo' = todo \ {p}
      /\ UNCHANGED <<stage, results, parsed, chunked>>
    BY DEF TakeUp, Hold, inventories
<1>2. reader'.path = p /\ HeldIsRecord'
    BY <1>1 DEF Hold, HeldIsRecord
<1>3. (HeldIsParsed /\ ChunkingIsOfParsed)'
    BY <1>1, <1>2 DEF DigestInv, HeldIsParsed, ChunkingIsOfParsed
<1> QED
    BY <1>1, <1>2, <1>3
       DEF DigestInv, IdleIsClean, ParsesAreTrue, ChunksAreTrue, TrueParse, TrueChunks

(* What changes neither the stage nor what it holds preserves DigestInv.   *)
LEMMA KeepDigestInv ==
    ASSUME DigestInv, UNCHANGED <<stage, reader, results, parsed, chunked>>, todo' \subseteq todo
    PROVE  DigestInv'
BY DEF DigestInv, IdleIsClean, HeldIsRecord, HeldIsParsed, ChunkingIsOfParsed, ParsesAreTrue,
       ChunksAreTrue, TrueParse, TrueChunks

LEMMA BeginDigestInv ==
    ASSUME DigestInv, NEW name \in {"scan", "parse", "chunk"}, NEW paths, Begin(name, paths),
           name = "chunk" =>
               paths \subseteq DOMAIN parsed /\ \A p \in paths : parsed[p].status # "skipped"
    PROVE  DigestInv'
<1>1. /\ stage' = name /\ todo' = paths /\ reader' = None /\ reader = None
      /\ results' = Empty /\ UNCHANGED <<parsed, chunked>>
    BY DEF Begin, inventories, DigestInv, IdleIsClean
<1>2. \A p \in DOMAIN results' : FALSE
    BY <1>1 DEF Empty
<1> QED
    BY <1>1, <1>2
       DEF DigestInv, IdleIsClean, HeldIsRecord, HeldIsParsed, ChunkingIsOfParsed,
           ParsesAreTrue, ChunksAreTrue, TrueParse, TrueChunks

LEMMA StageEndsDigestInv ==
    ASSUME DigestInv, stage' = "idle", reader' = None, results' = Empty,
           parsed' = parsed \/ (stage = "parse" /\ parsed' = results),
           chunked' = chunked \/ (stage = "chunk" /\ chunked' = results)
    PROVE  DigestInv'
<1>1. \A p \in DOMAIN parsed' : TrueParse(parsed'[p])
    BY DEF DigestInv, ParsesAreTrue
<1>2. \A p \in DOMAIN chunked' : TrueChunks(chunked'[p])
    BY DEF DigestInv, ChunksAreTrue
<1> QED
    BY <1>1, <1>2
       DEF DigestInv, IdleIsClean, HeldIsRecord, HeldIsParsed, ChunkingIsOfParsed,
           ParsesAreTrue, ChunksAreTrue, TrueParse, TrueChunks

LEMMA NextDigestInv == DigestInv /\ [Next]_vars => DigestInv'
<1> SUFFICES ASSUME DigestInv, [Next]_vars PROVE DigestInv'
    OBVIOUS
<1>1. CASE BeginScan
    BY <1>1, BeginDigestInv DEF BeginScan
<1>2. CASE BeginParse
    BY <1>2, BeginDigestInv DEF BeginParse
<1>3. CASE BeginChunk
    <2>1. {p \in Code : parsed[p].status # "skipped"} \subseteq DOMAIN parsed
        BY <1>3 DEF BeginChunk
    <2> QED
        BY <1>3, <2>1, BeginDigestInv DEF BeginChunk
<1>4. CASE End
    BY <1>4, StageEndsDigestInv DEF End
<1>5. CASE AbortScan
    BY <1>5, StageEndsDigestInv DEF AbortScan, inventories
<1>6. ASSUME NEW p \in Paths, ScanEntry(p) PROVE DigestInv'
    <2>1. CASE LeaveOut(p)
        BY <2>1, <1>6 DEF LeaveOut, inventories, ScanEntry, Ready, DigestInv, IdleIsClean,
            HeldIsRecord, HeldIsParsed, ChunkingIsOfParsed, ParsesAreTrue, ChunksAreTrue,
            TrueParse, TrueChunks
    <2> QED
        BY <1>6, <2>1, TakeUpDigestInv DEF ScanEntry, Ready
<1>7. CASE SampleEntry
    <2>1. CASE LeaveOut(reader.path)
        BY <2>1, <1>7 DEF LeaveOut, inventories, SampleEntry, DigestInv, IdleIsClean,
            HeldIsRecord, HeldIsParsed, ChunkingIsOfParsed, ParsesAreTrue, ChunksAreTrue,
            TrueParse, TrueChunks
    <2>2. CASE Record(reader.path, [size |-> reader.size, since |-> reader.since])
        BY <2>2, <1>7, RecordDigestInv DEF SampleEntry
    <2> QED
        BY <1>7, <2>1, <2>2 DEF SampleEntry
<1>8. ASSUME NEW p \in Paths, OpenSource(p) PROVE DigestInv'
    <2>1. ASSUME NEW issue, Unreadable(p, issue) PROVE DigestInv'
        BY <2>1, UnreadableDigestInv
    <2>2. CASE TakeUp(Hold(p, "read", scanned[p].size, disk[p], scanned[p].since))
        <3>1. stage # "idle" /\ (stage = "chunk" => p \in todo /\ parsed[p].status # "failed")
            BY <1>8 DEF OpenSource, Reads, Ready
        <3> QED
            BY <2>2, <3>1, TakeUpDigestInv
    <2> QED
        BY <1>8, <2>1, <2>2 DEF OpenSource
<1>9. CASE ReadSource
    <2>1. CASE Unreadable(reader.path, "file_changed")
        BY <2>1, UnreadableDigestInv
    <2>2. CASE /\ reader' = [reader EXCEPT !.step = "verify", !.content = data[reader.node]]
               /\ UNCHANGED <<env, parsers, stage, todo, results, inventories>>
        <3>1. /\ reader' = [path |-> reader.path, step |-> "verify", size |-> reader.size,
                            node |-> reader.node, content |-> data[reader.node],
                            since |-> reader.since]
              /\ reader # None /\ stage # "idle"
            BY <1>9, <2>2 DEF ReadSource, Reading, DigestInv, HeldIsRecord
        <3>2. HeldIsRecord' /\ reader'.path = reader.path
            BY <3>1 DEF HeldIsRecord
        <3> QED
            BY <2>2, <3>1, <3>2
               DEF inventories, DigestInv, IdleIsClean, HeldIsParsed, ChunkingIsOfParsed,
                   ParsesAreTrue, ChunksAreTrue, TrueParse, TrueChunks
    <2> QED
        BY <1>9, <2>1, <2>2 DEF ReadSource
<1>10. CASE RefuseMoved \/ RefuseUndecodable
    BY <1>10, UnreadableDigestInv DEF RefuseMoved, RefuseUndecodable
<1>11. ASSUME NEW p \in Paths, SkipUnsupported(p) PROVE DigestInv'
    <2>1. PICK r : Record(p, r) /\ TrueParse(r)
        BY <1>11 DEF SkipUnsupported, ParseResult, TrueParse
    <2> QED
        BY <1>11, <2>1, RecordDigestInv DEF SkipUnsupported, Ready
<1>12. CASE ParseSource
    <2>1. PICK r : Record(reader.path, r) /\ TrueParse(r)
        BY <1>12 DEF ParseSource, ParseResult, TrueParse
    <2> QED
        BY <1>12, <2>1, RecordDigestInv DEF ParseSource, Verified
<1>13. ASSUME NEW p \in Paths, ChunkUnparsed(p) PROVE DigestInv'
    <2>1. PICK r : Record(p, r) /\ TrueChunks(r)
        BY <1>13 DEF ChunkUnparsed, ChunkResult, TrueChunks
    <2> QED
        BY <1>13, <2>1, RecordDigestInv DEF ChunkUnparsed, Ready
(* Here the bytes read must have the digest of the parse, whose status is  *)
(* then the parse of these bytes.                                          *)
<1>14. CASE ChunkSource
    <2> DEFINE f == parsed[reader.path]
    <2>1. stage = "chunk" /\ f.status \notin {"failed", "skipped"} /\ TrueParse(f)
        BY <1>14
           DEF ChunkSource, Verified, Reading, DigestInv, HeldIsParsed, ChunkingIsOfParsed,
               ParsesAreTrue
    <2>2. PICK r : Record(reader.path, r) /\ TrueChunks(r)
        BY <1>14, <2>1 DEF ChunkSource, ChunkResult, TrueChunks, TrueParse
    <2> QED
        BY <2>1, <2>2, RecordDigestInv
<1>15. ASSUME NEW p \in Paths, Edit(p) PROVE DigestInv'
    BY <1>15, KeepDigestInv DEF Edit, inventories
<1>16. CASE UNCHANGED vars
    BY <1>16, KeepDigestInv DEF vars
<1>17. ASSUME NEW p \in Paths, SkipDirectory(Directory[p]) PROVE DigestInv'
    <2>1. stage = "scan" /\ reader = None
        BY <1>17 DEF SkipDirectory
    <2> QED
        BY <1>17, <2>1 DEF SkipDirectory, inventories, DigestInv, IdleIsClean, HeldIsRecord,
            HeldIsParsed, ChunkingIsOfParsed, ParsesAreTrue, ChunksAreTrue
<1> QED
    BY <1>1, <1>2, <1>3, <1>4, <1>5, <1>6, <1>7, <1>8, <1>9, <1>10, <1>11, <1>12, <1>13,
       <1>14, <1>15, <1>16, <1>17 DEF Next, Step

(* Every chunk is cut from the bytes whose digest, symbols and status the  *)
(* parser recorded, however files are edited and stages are repeated.      *)
THEOREM ChunksAreOfParse == Spec => []ChunksComeFromParse
<1>1. Init => DigestInv
    BY InitDigestInv
<1>2. DigestInv /\ [Next]_vars => DigestInv'
    BY NextDigestInv
<1>3. DigestInv => ChunksComeFromParse
    BY DEF DigestInv, ChunksAreTrue, TrueChunks, ChunksComeFromParse
<1> QED
    BY <1>1, <1>2, <1>3, PTL DEF Spec

-------------------------------------------------------------------------------
(* What is known of the files themselves: an entry of an inventory is of    *)
(* the file as it is, unless somebody edited it since.                      *)

SourceTypes ==
    /\ disk \in [Paths -> Entries] /\ data \in [Nodes -> Contents]
    /\ version \in [Paths -> Nat] /\ began \in [Paths -> Nat]
    /\ todo \subseteq Paths /\ skipped \subseteq Paths
    /\ stage \in {"idle", "scan", "parse", "chunk"}
    /\ reader # None => reader.path \in Paths \ todo
    /\ DOMAIN scanned \cup DOMAIN parsed \cup DOMAIN results \subseteq Paths
NodesAreApart == \A p, q \in Paths : disk[p] \in Nodes /\ disk[p] = disk[q] => p = q

Unchanging(p, v) == v \in Nat /\ v <= version[p]
(* A file as it was listed, and as it was parsed.                          *)
AsListed(p, f) ==
    /\ Unchanging(p, f.since)
    /\ f.since = version[p] => disk[p] \in Nodes /\ Size[data[disk[p]]] = f.size
EarlyIssues == {"file_changed", "read_error", "link_unsafe"}
AsParsed(p, f) ==
    /\ Unchanging(p, f.since) /\ Unchanging(p, f.at) /\ f.since <= f.at
    /\ f.issue \in EarlyIssues => f.at > f.since
    /\ f.status \notin {"failed", "skipped"} =>
          /\ f.sha \in Contents /\ Text[f.sha]
          /\ f.since = version[p] => disk[p] \in Nodes /\ data[disk[p]] = f.sha
LateIssues == {"source_changed", "read_error", "link_unsafe", "decoding_error"}
AsChunked(f) ==
    /\ f.since \in Nat /\ f.at \in Nat /\ f.since <= f.at
    /\ f.issue \in LateIssues => f.at > f.since
    /\ f.status = "failed" =>
          \/ f.issue \in LateIssues
          \/ f.issue = "parse_unavailable" /\ f.parse_status = "failed"
          \/ f.sha # None /\ Cut[f.sha] = f.issue

FilesAreKnown ==
    /\ \A p \in DOMAIN scanned : AsListed(p, scanned[p])
    /\ \A p \in DOMAIN parsed : AsParsed(p, parsed[p])
    /\ \A p \in DOMAIN chunked : AsChunked(chunked[p])
    /\ stage = "scan" => \A p \in DOMAIN results : AsListed(p, results[p])
    /\ stage = "parse" => \A p \in DOMAIN results : AsParsed(p, results[p])
    /\ stage = "chunk" => \A p \in DOMAIN results : AsChunked(results[p])

(* The file in hand is the listed one, and its bytes are those of the node *)
(* that was opened.                                                        *)
InHandIsListed ==
    /\ stage = "scan" /\ reader # None => AsListed(reader.path, reader)
    /\ stage \in {"parse", "chunk"} =>
          /\ todo \subseteq DOMAIN scanned
          /\ reader # None =>
                LET p == reader.path
                IN /\ p \in DOMAIN scanned /\ reader.node \in Nodes
                   /\ reader.size = scanned[p].size /\ reader.since = scanned[p].since
                   /\ version[p] = reader.since => disk[p] = reader.node
                   /\ reader.step = "verify" =>
                         /\ reader.content \in Contents
                         /\ version[p] = reader.since => reader.content = data[disk[p]]

(* How far a scan is with the files that nobody edited since it began.     *)
ScanIsSoFar ==
    /\ stage # "scan" => skipped = {}
    /\ stage = "scan" =>
        \A p \in Paths :
            /\ began[p] <= version[p]
            /\ p \in todo => p \notin skipped /\ p \notin DOMAIN results
            /\ p \in skipped => p \notin DOMAIN results
            /\ reader # None /\ reader.path = p => p \notin skipped /\ p \notin DOMAIN results
            /\ version[p] = began[p] =>
                  /\ reader # None /\ reader.path = p => Listable(p)
                  /\ p \notin todo /\ (reader = None \/ reader.path # p) =>
                        (p \in DOMAIN results <=>
                            p \notin skipped /\ Listable(p) /\ ~Binary[data[disk[p]]])

SourceInv == SourceTypes /\ NodesAreApart /\ FilesAreKnown /\ InHandIsListed /\ ScanIsSoFar

LEMMA InitSourceInv == Init => SourceInv
<1> SUFFICES ASSUME Init PROVE SourceInv
    OBVIOUS
<1>1. SourceTypes
    BY DEF Init, SourceTypes, Entries, Unedited, Empty
<1>2. NodesAreApart
    BY DEF Init, NodesAreApart
<1>3. FilesAreKnown /\ InHandIsListed /\ ScanIsSoFar
    BY DEF Init, FilesAreKnown, InHandIsListed, ScanIsSoFar, Empty
<1> QED
    BY <1>1, <1>2, <1>3 DEF SourceInv

(* An edit of one file leaves the others as they are, since no two paths   *)
(* name one node.                                                          *)
LEMMA EditLeaves ==
    ASSUME SourceInv, NEW p \in Paths, Edit(p)
    PROVE  /\ disk' \in [Paths -> Entries] /\ data' \in [Nodes -> Contents]
           /\ version' \in [Paths -> Nat] /\ NodesAreApart'
           /\ \A q \in Paths :
                 /\ version[q] \in Nat /\ version'[q] \in Nat /\ version[q] <= version'[q]
                 /\ q = p => version'[q] > version[q]
                 /\ q # p => version'[q] = version[q] /\ disk'[q] = disk[q]
                 /\ q # p /\ disk[q] \in Nodes => data'[disk[q]] = data[disk[q]]
<1>0. SourceTypes /\ NodesAreApart
    BY DEF SourceInv
<1>1. version' = [version EXCEPT ![p] = @ + 1] /\ version \in [Paths -> Nat]
    BY <1>0 DEF Edit, SourceTypes
<1>2. /\ version' \in [Paths -> Nat]
      /\ \A q \in Paths : /\ version[q] \in Nat /\ version'[q] \in Nat /\ version[q] <= version'[q]
                          /\ q = p => version'[q] > version[q]
                          /\ q # p => version'[q] = version[q]
    BY <1>1
<1>3. CASE disk[p] \in Nodes /\ disk' = disk
           /\ \E c \in Contents : data' = [data EXCEPT ![disk[p]] = c]
    <2>1. PICK c \in Contents : data' = [data EXCEPT ![disk[p]] = c]
        BY <1>3
    <2> QED
        BY <1>0, <1>2, <1>3, <2>1 DEF SourceTypes, NodesAreApart
<1>4. CASE \E e \in Entries, d \in [Nodes -> Contents] :
                /\ e \in Nodes => e \notin {disk[q] : q \in Paths}
                /\ \A n \in Nodes \ {e} : d[n] = data[n]
                /\ disk' = [disk EXCEPT ![p] = e] /\ data' = d
    <2>1. PICK e \in Entries, d \in [Nodes -> Contents] :
                /\ e \in Nodes => e \notin {disk[q] : q \in Paths}
                /\ \A n \in Nodes \ {e} : d[n] = data[n]
                /\ disk' = [disk EXCEPT ![p] = e] /\ data' = d
        BY <1>4
    <2>2. disk' \in [Paths -> Entries] /\ data' \in [Nodes -> Contents]
        BY <1>0, <2>1 DEF SourceTypes
    <2>3. \A q \in Paths : disk'[q] = IF q = p THEN e ELSE disk[q]
        BY <1>0, <2>1 DEF SourceTypes
    <2>4. \A q \in Paths : disk[q] \in Nodes => disk[q] # e
        BY <2>1
    <2>5. \A q \in Paths : disk[q] \in Nodes => data'[disk[q]] = data[disk[q]]
        BY <2>1, <2>4
    <2>6. NodesAreApart'
        BY <1>0, <2>3, <2>4 DEF NodesAreApart
    <2> QED
        BY <1>2, <2>2, <2>3, <2>5, <2>6
<1> QED
    BY <1>3, <1>4 DEF Edit

LEMMA EditSourceInv ==
    ASSUME SourceInv, NEW p \in Paths, Edit(p)
    PROVE  SourceInv'
<1>0. SourceTypes /\ NodesAreApart /\ FilesAreKnown /\ InHandIsListed /\ ScanIsSoFar
    BY DEF SourceInv
<1>1. UNCHANGED <<began, skipped, stage, todo, reader, results, scanned, parsed, chunked>>
    BY DEF Edit, progress, inventories
<1>2. /\ disk' \in [Paths -> Entries] /\ data' \in [Nodes -> Contents]
      /\ version' \in [Paths -> Nat] /\ NodesAreApart'
      /\ \A q \in Paths :
            /\ version[q] \in Nat /\ version'[q] \in Nat /\ version[q] <= version'[q]
            /\ q = p => version'[q] > version[q]
            /\ q # p => version'[q] = version[q] /\ disk'[q] = disk[q]
            /\ q # p /\ disk[q] \in Nodes => data'[disk[q]] = data[disk[q]]
    BY EditLeaves
<1>3. SourceTypes'
    BY <1>0, <1>1, <1>2 DEF SourceTypes
<1>4. ASSUME NEW q \in Paths, NEW f, AsListed(q, f) PROVE AsListed(q, f)'
    BY <1>2, <1>4 DEF AsListed, Unchanging
<1>5. ASSUME NEW q \in Paths, NEW f, AsParsed(q, f) PROVE AsParsed(q, f)'
    <2>1. CASE q = p
        BY <1>2, <1>5, <2>1 DEF AsParsed, Unchanging
    <2>2. CASE q # p
        BY <1>2, <1>5, <2>2 DEF AsParsed, Unchanging
    <2> QED
        BY <2>1, <2>2
<1>6. FilesAreKnown'
    <2>1. (\A q \in DOMAIN scanned : AsListed(q, scanned[q]))'
        <3> SUFFICES ASSUME NEW q \in DOMAIN scanned, NEW f, f = scanned[q]
                     PROVE  AsListed(q, f)'
            BY <1>1 DEF AsListed, Unchanging
        <3> QED
            BY <1>0, <1>4 DEF FilesAreKnown, SourceTypes
    <2>2. (\A q \in DOMAIN parsed : AsParsed(q, parsed[q]))'
        <3> SUFFICES ASSUME NEW q \in DOMAIN parsed, NEW f, f = parsed[q]
                     PROVE  AsParsed(q, f)'
            BY <1>1 DEF AsParsed, Unchanging
        <3> QED
            BY <1>0, <1>5 DEF FilesAreKnown, SourceTypes
    <2>3. stage = "scan" => (\A q \in DOMAIN results : AsListed(q, results[q]))'
        <3> SUFFICES ASSUME stage = "scan", NEW q \in DOMAIN results, NEW f, f = results[q]
                     PROVE  AsListed(q, f)'
            BY <1>1 DEF AsListed, Unchanging
        <3> QED
            BY <1>0, <1>4 DEF FilesAreKnown, SourceTypes
    <2>4. stage = "parse" => (\A q \in DOMAIN results : AsParsed(q, results[q]))'
        <3> SUFFICES ASSUME stage = "parse", NEW q \in DOMAIN results, NEW f, f = results[q]
                     PROVE  AsParsed(q, f)'
            BY <1>1 DEF AsParsed, Unchanging
        <3> QED
            BY <1>0, <1>5 DEF FilesAreKnown, SourceTypes
    <2>5. /\ \A q \in DOMAIN chunked' : AsChunked(chunked'[q])
          /\ stage' = "chunk" => \A q \in DOMAIN results' : AsChunked(results'[q])
        BY <1>0, <1>1 DEF FilesAreKnown
    <2> QED
        BY <1>1, <2>1, <2>2, <2>3, <2>4, <2>5 DEF FilesAreKnown, AsChunked
<1>7. InHandIsListed'
    <2>1. reader # None => reader.path \in Paths
        BY <1>0 DEF SourceTypes
    <2>2. stage = "scan" /\ reader # None => AsListed(reader.path, reader)'
        <3> SUFFICES ASSUME stage = "scan", reader # None, NEW q, NEW f, q = reader.path, f = reader
                     PROVE  AsListed(q, f)'
            BY <1>1 DEF AsListed, Unchanging
        <3> QED
            BY <1>0, <1>4, <2>1 DEF InHandIsListed
    <2>3. ASSUME stage \in {"parse", "chunk"}, reader # None,
                 version'[reader.path] = reader.since
          PROVE  reader.path # p /\ version[reader.path] = reader.since
        <3>1. reader.since <= version[reader.path]
            BY <1>0, <2>3 DEF InHandIsListed, FilesAreKnown, AsListed, Unchanging
        <3>2. reader.since \in Nat
            BY <1>0, <2>3 DEF InHandIsListed, FilesAreKnown, AsListed, Unchanging
        <3> QED
            BY <1>2, <2>1, <2>3, <3>1, <3>2
    <2>4. stage \in {"parse", "chunk"} =>
             /\ todo \subseteq DOMAIN scanned
             /\ reader # None =>
                   /\ reader.path \in DOMAIN scanned /\ reader.node \in Nodes
                   /\ reader.size = scanned[reader.path].size
                   /\ reader.since = scanned[reader.path].since
                   /\ version'[reader.path] = reader.since => disk'[reader.path] = reader.node
                   /\ reader.step = "verify" =>
                         /\ reader.content \in Contents
                         /\ version'[reader.path] = reader.since =>
                               reader.content = data'[disk'[reader.path]]
        BY <1>0, <1>2, <2>1, <2>3 DEF InHandIsListed
    <2> QED
        BY <1>1, <2>2, <2>4 DEF InHandIsListed
<1>8. ScanIsSoFar'
    <2>1. \A q \in Paths : stage = "scan" => began[q] <= version[q] /\ began[q] \in Nat
        BY <1>0 DEF ScanIsSoFar, SourceTypes
    <2>2. \A q \in Paths : stage = "scan" /\ version'[q] = began[q] => q # p
        BY <1>2, <2>1
    <2>3. \A q \in Paths : q # p =>
              /\ Listable(q)' <=> Listable(q)
              /\ Listable(q) => data'[disk'[q]] = data[disk[q]]
        BY <1>2 DEF Listable
    <2>4. \A q \in Paths : stage = "scan" => began[q] <= version'[q]
        BY <1>2, <2>1
    <2> QED
        BY <1>0, <1>1, <1>2, <2>2, <2>3, <2>4 DEF ScanIsSoFar
<1> QED
    BY <1>2, <1>3, <1>6, <1>7, <1>8 DEF SourceInv

(* What is known of a file stays known as long as nobody edits.            *)
LEMMA StillKnown ==
    ASSUME UNCHANGED <<source, scanned, parsed, chunked>>, FilesAreKnown
    PROVE  /\ (\A q \in DOMAIN scanned : AsListed(q, scanned[q]))'
           /\ (\A q \in DOMAIN parsed : AsParsed(q, parsed[q]))'
           /\ \A q \in DOMAIN chunked' : AsChunked(chunked'[q])
BY DEF source, FilesAreKnown, AsListed, AsParsed, Unchanging, AsChunked

(* A stage puts a file in its results: what it says of the file must be so.*)
LEMMA RecordSourceInv ==
    ASSUME SourceInv, NEW p \in Paths, NEW r, Record(p, r), stage # "idle",
           stage = "scan" =>
               /\ reader # None /\ reader.path = p /\ AsListed(p, r)
               /\ version[p] = began[p] => ~Binary[data[disk[p]]],
           stage = "parse" => AsParsed(p, r),
           stage = "chunk" => AsChunked(r)
    PROVE  SourceInv'
<1>0. SourceTypes /\ NodesAreApart /\ FilesAreKnown /\ InHandIsListed /\ ScanIsSoFar
    BY DEF SourceInv
<1>1. /\ UNCHANGED <<disk, data, version, began, skipped, stage, scanned, parsed, chunked>>
      /\ reader' = None /\ todo' = todo \ {p}
      /\ DOMAIN results' = DOMAIN results \cup {p}
      /\ \A q \in DOMAIN results' : results'[q] = IF q = p THEN r ELSE results[q]
    BY DEF Record, env, source, progress, inventories
<1>2. SourceTypes' /\ NodesAreApart'
    BY <1>0, <1>1 DEF SourceTypes, NodesAreApart
<1>3. FilesAreKnown'
    <2>1. stage = "scan" => (\A q \in DOMAIN results : AsListed(q, results[q]))'
        BY <1>0, <1>1 DEF FilesAreKnown, AsListed, Unchanging
    <2>2. stage = "parse" => (\A q \in DOMAIN results : AsParsed(q, results[q]))'
        <3> SUFFICES ASSUME stage = "parse", NEW q \in DOMAIN results',
                            NEW f, f = results'[q]
                     PROVE  AsParsed(q, f)'
            BY <1>1 DEF AsParsed, Unchanging
        <3>1. AsParsed(q, f)
            BY <1>0, <1>1 DEF FilesAreKnown
        <3> QED
            BY <1>1, <3>1 DEF AsParsed, Unchanging
    <2>3. stage = "chunk" => \A q \in DOMAIN results' : AsChunked(results'[q])
        BY <1>0, <1>1 DEF FilesAreKnown
    <2>4. UNCHANGED <<source, scanned, parsed, chunked>>
        BY <1>1 DEF source
    <2> QED
        BY <1>0, <1>1, <2>1, <2>2, <2>3, <2>4, StillKnown DEF FilesAreKnown, AsChunked
<1>4. InHandIsListed'
    BY <1>0, <1>1 DEF InHandIsListed
<1>5. ScanIsSoFar'
    <2>1. stage = "scan" /\ version[p] = began[p] => Listable(p)
        BY <1>0 DEF ScanIsSoFar
    <2>2. stage = "scan" => p \notin skipped
        BY <1>0 DEF ScanIsSoFar
    <2>3. \A q \in Paths : Listable(q)' <=> Listable(q)
        BY <1>1 DEF Listable
    <2> QED
        BY <1>0, <1>1, <2>1, <2>2, <2>3 DEF ScanIsSoFar
<1> QED
    BY <1>2, <1>3, <1>4, <1>5 DEF SourceInv

(* A stage takes a file in hand: the listed one, as it is now.             *)
LEMMA TakeUpSourceInv ==
    ASSUME SourceInv, NEW h, TakeUp(h), stage # "idle", reader = None, h.path \in todo,
           stage = "scan" =>
               h # None /\ AsListed(h.path, h) /\ (version[h.path] = began[h.path] => Listable(h.path)),
           stage # "scan" =>
               /\ h.path \in DOMAIN scanned /\ h.node \in Nodes /\ h.node = disk[h.path]
               /\ h.size = scanned[h.path].size /\ h.since = scanned[h.path].since
               /\ h.step # "verify"
    PROVE  SourceInv'
<1>0. SourceTypes /\ NodesAreApart /\ FilesAreKnown /\ InHandIsListed /\ ScanIsSoFar
    BY DEF SourceInv
<1>1. /\ UNCHANGED <<disk, data, version, began, skipped, stage, results, scanned, parsed, chunked>>
      /\ reader' = h /\ todo' = todo \ {h.path}
    BY DEF TakeUp, env, source, progress, inventories
<1>2. SourceTypes' /\ NodesAreApart'
    BY <1>0, <1>1 DEF SourceTypes, NodesAreApart
<1>3. FilesAreKnown'
    BY <1>0, <1>1 DEF FilesAreKnown, AsListed, AsParsed, Unchanging, AsChunked
<1>4. InHandIsListed'
    BY <1>0, <1>1 DEF InHandIsListed, AsListed, Unchanging, SourceTypes
<1>5. ScanIsSoFar'
    <2>1. \A q \in Paths : Listable(q)' <=> Listable(q)
        BY <1>1 DEF Listable
    <2> QED
        BY <1>0, <1>1, <2>1 DEF ScanIsSoFar
<1> QED
    BY <1>2, <1>3, <1>4, <1>5 DEF SourceInv

(* A scan passes over a file that is not to be listed as it is now.        *)
LEMMA LeaveOutSourceInv ==
    ASSUME SourceInv, NEW p \in Paths, LeaveOut(p), stage = "scan",
           \/ reader = None /\ p \in todo
           \/ reader # None /\ reader.path = p,
           version[p] = began[p] => ~(Listable(p) /\ ~Binary[data[disk[p]]])
    PROVE  SourceInv'
<1>0. SourceTypes /\ NodesAreApart /\ FilesAreKnown /\ InHandIsListed /\ ScanIsSoFar
    BY DEF SourceInv
<1>1. /\ UNCHANGED <<disk, data, version, began, skipped, stage, results, scanned, parsed, chunked>>
      /\ reader' = None /\ todo' = todo \ {p}
    BY DEF LeaveOut, env, source, progress, inventories
<1>2. SourceTypes' /\ NodesAreApart'
    BY <1>0, <1>1 DEF SourceTypes, NodesAreApart
<1>3. FilesAreKnown'
    BY <1>0, <1>1 DEF FilesAreKnown, AsListed, AsParsed, Unchanging, AsChunked
<1>4. InHandIsListed'
    BY <1>0, <1>1 DEF InHandIsListed
<1>5. ScanIsSoFar'
    <2>1. \A q \in Paths : Listable(q)' <=> Listable(q)
        BY <1>1 DEF Listable
    <2>2. p \notin DOMAIN results
        BY <1>0 DEF ScanIsSoFar
    <2> QED
        BY <1>0, <1>1, <2>1, <2>2 DEF ScanIsSoFar
<1> QED
    BY <1>2, <1>3, <1>4, <1>5 DEF SourceInv

(* A stage begins with nothing in hand and no results.                     *)
LEMMA BeginSourceInv ==
    ASSUME SourceInv, IdleIsClean, BeginScan \/ BeginParse \/ BeginChunk
    PROVE  SourceInv'
<1>0. SourceTypes /\ NodesAreApart /\ FilesAreKnown /\ InHandIsListed /\ ScanIsSoFar
    BY DEF SourceInv
<1>1. /\ UNCHANGED <<disk, data, version, skipped, scanned, parsed, chunked>>
      /\ reader' = None /\ results' = Empty /\ skipped = {}
    BY <1>0 DEF BeginScan, BeginParse, BeginChunk, Begin, source, progress, inventories,
        IdleIsClean, ScanIsSoFar
<1>2. \/ stage' = "scan" /\ todo' = Paths /\ began' = version
      \/ stage' \in {"parse", "chunk"} /\ todo' \subseteq DOMAIN scanned /\ began' = began
    BY DEF BeginScan, BeginParse, BeginChunk, Begin, Code, progress
<1>3. DOMAIN results' = {}
    BY <1>1 DEF Empty
<1>4. SourceTypes' /\ NodesAreApart'
    BY <1>0, <1>1, <1>2, <1>3 DEF SourceTypes, NodesAreApart
<1>5. FilesAreKnown'
    BY <1>0, <1>1, <1>3 DEF FilesAreKnown, AsListed, AsParsed, Unchanging, AsChunked
<1>6. InHandIsListed'
    BY <1>1, <1>2 DEF InHandIsListed
<1>7. ScanIsSoFar'
    BY <1>0, <1>1, <1>2, <1>3 DEF ScanIsSoFar, SourceTypes
<1> QED
    BY <1>4, <1>5, <1>6, <1>7 DEF SourceInv

(* A stage ends: its results, if it has any, become its inventory.         *)
LEMMA EndSourceInv ==
    ASSUME SourceInv, End \/ AbortScan
    PROVE  SourceInv'
<1>0. SourceTypes /\ NodesAreApart /\ FilesAreKnown /\ InHandIsListed /\ ScanIsSoFar
    BY DEF SourceInv
<1>1. /\ UNCHANGED <<disk, data, version>> /\ reader' = None /\ results' = Empty
      /\ stage' = "idle" /\ skipped' = {} /\ todo' = {} /\ began' = Unedited
      /\ scanned' = scanned \/ (stage = "scan" /\ scanned' = results)
      /\ parsed' = parsed \/ (stage = "parse" /\ parsed' = results)
      /\ chunked' = chunked \/ (stage = "chunk" /\ chunked' = results)
    BY DEF End, AbortScan, source, inventories
<1>2. SourceTypes' /\ NodesAreApart'
    BY <1>0, <1>1 DEF SourceTypes, NodesAreApart, Empty, Unedited
<1>3. (\A q \in DOMAIN scanned : AsListed(q, scanned[q]))'
    BY <1>0, <1>1 DEF FilesAreKnown, AsListed, Unchanging
<1>4. (\A q \in DOMAIN parsed : AsParsed(q, parsed[q]))'
    BY <1>0, <1>1 DEF FilesAreKnown, AsParsed, Unchanging
<1>5. \A q \in DOMAIN chunked' : AsChunked(chunked'[q])
    BY <1>0, <1>1 DEF FilesAreKnown
<1>6. (FilesAreKnown /\ InHandIsListed /\ ScanIsSoFar)'
    BY <1>1, <1>3, <1>4, <1>5 DEF FilesAreKnown, InHandIsListed, ScanIsSoFar, AsChunked
<1> QED
    BY <1>2, <1>6 DEF SourceInv

(* A directory that is skipped holds none of the results.                  *)
LEMMA SkipSourceInv ==
    ASSUME SourceInv, NEW d, SkipDirectory(d)
    PROVE  SourceInv'
<1>0. SourceTypes /\ NodesAreApart /\ FilesAreKnown /\ InHandIsListed /\ ScanIsSoFar
    BY DEF SourceInv
<1>1. PICK inside \in SUBSET todo :
          /\ todo' = todo \ inside /\ skipped' = skipped \cup inside
          /\ stage = "scan" /\ reader = None
    BY DEF SkipDirectory
<1>2. UNCHANGED <<disk, data, version, began, stage, reader, results, scanned, parsed, chunked>>
    BY DEF SkipDirectory, source, inventories
<1>3. SourceTypes' /\ NodesAreApart'
    BY <1>0, <1>1, <1>2 DEF SourceTypes, NodesAreApart
<1>4. FilesAreKnown'
    BY <1>0, <1>2 DEF FilesAreKnown, AsListed, AsParsed, Unchanging, AsChunked
<1>5. InHandIsListed'
    BY <1>1, <1>2 DEF InHandIsListed
<1>6. ScanIsSoFar'
    <2>1. \A q \in Paths : Listable(q)' <=> Listable(q)
        BY <1>2 DEF Listable
    <2> QED
        BY <1>0, <1>1, <1>2, <2>1 DEF ScanIsSoFar
<1> QED
    BY <1>3, <1>4, <1>5, <1>6 DEF SourceInv

(* A reader that fails reports an edit, unless the file cannot be decoded. *)
LEMMA UnreadableSourceInv ==
    ASSUME SourceInv, NEW p \in DOMAIN scanned, NEW issue, Unreadable(p, issue),
           issue \in EarlyIssues \cup {"decoding_error"},
           stage = "parse" /\ issue \in EarlyIssues => version[p] # scanned[p].since,
           stage = "chunk" =>
               /\ p \in DOMAIN parsed
               /\ version[p] # scanned[p].since \/ version[p] # parsed[p].since
    PROVE  SourceInv'
<1>0. /\ p \in Paths /\ version[p] \in Nat
      /\ scanned[p].since \in Nat /\ scanned[p].since <= version[p]
    BY DEF SourceInv, SourceTypes, FilesAreKnown, AsListed, Unchanging
<1>1. CASE stage = "parse"
    <2> DEFINE r == [status |-> "failed", sha |-> None, issue |-> issue,
                     since |-> scanned[p].since, at |-> version[p]]
    <2>1. Record(p, r)
        BY <1>1 DEF Unreadable, ParseResult
    <2>2. AsParsed(p, r)
        BY <1>0, <1>1 DEF AsParsed, Unchanging
    <2> QED
        BY <1>0, <1>1, <2>1, <2>2, RecordSourceInv
<1>2. CASE stage = "chunk"
    <2> DEFINE r == [status |-> "failed", parse_status |-> parsed[p].status, sha |-> parsed[p].sha,
                     content |-> None,
                     issue |-> IF issue = "file_changed" THEN "source_changed" ELSE issue,
                     since |-> Least(scanned[p].since, parsed[p].since), at |-> version[p]]
    <2>1. Record(p, r)
        BY <1>2 DEF Unreadable, ChunkResult
    <2>2. parsed[p].since \in Nat /\ parsed[p].since <= version[p]
        BY <1>2 DEF SourceInv, FilesAreKnown, AsParsed, Unchanging
    <2>3. Least(scanned[p].since, parsed[p].since) \in Nat
          /\ Least(scanned[p].since, parsed[p].since) < version[p]
        BY <1>0, <1>2, <2>2 DEF Least
    <2>4. AsChunked(r)
        BY <1>0, <2>3 DEF AsChunked, LateIssues, EarlyIssues
    <2> QED
        BY <1>0, <1>2, <2>1, <2>4, RecordSourceInv
<1> QED
    BY <1>1, <1>2 DEF Unreadable

(* What the readers have verified of the file in hand.                     *)
LEMMA InHandFacts ==
    ASSUME SourceInv, stage \in {"parse", "chunk"}, reader # None
    PROVE  /\ reader.path \in Paths /\ reader.path \in DOMAIN scanned
           /\ version[reader.path] \in Nat
           /\ scanned[reader.path].since \in Nat
           /\ scanned[reader.path].since <= version[reader.path]
           /\ version[reader.path] = scanned[reader.path].since =>
                 /\ disk[reader.path] \in Nodes /\ disk[reader.path] = reader.node
                 /\ Size[data[reader.node]] = reader.size
                 /\ reader.step = "verify" => reader.content = data[disk[reader.path]]
           /\ reader.step = "verify" => reader.content \in Contents
BY DEF SourceInv, SourceTypes, InHandIsListed, FilesAreKnown, AsListed, Unchanging

(* A file that was parsed, and has not been edited since either reading,   *)
(* holds the bytes of the parse.                                           *)
LEMMA UneditedIsParsed ==
    ASSUME SourceInv, DigestInv, stage = "chunk", reader # None, reader.step = "verify",
           version[reader.path] = scanned[reader.path].since,
           version[reader.path] = parsed[reader.path].since
    PROVE  reader.content = parsed[reader.path].sha /\ Text[reader.content]
<1>1. /\ reader.path \in DOMAIN parsed
      /\ parsed[reader.path].status \notin {"failed", "skipped"}
    BY DEF DigestInv, ChunkingIsOfParsed, HeldIsParsed
<1>2. AsParsed(reader.path, parsed[reader.path])
    BY <1>1 DEF SourceInv, FilesAreKnown
<1>3. reader.content = data[disk[reader.path]]
    BY InHandFacts
<1> QED
    BY <1>1, <1>2, <1>3 DEF AsParsed

LEMMA OpenSourceInv ==
    ASSUME SourceInv, DigestInv, NEW p \in Paths, OpenSource(p)
    PROVE  SourceInv'
<1>1. /\ reader = None /\ p \in todo /\ stage \in {"parse", "chunk"} /\ p \in DOMAIN scanned
      /\ stage = "chunk" => p \in DOMAIN parsed
    BY DEF OpenSource, Reads, Ready, SourceInv, InHandIsListed, DigestInv, ChunkingIsOfParsed
<1>2. version[p] = scanned[p].since => disk[p] \in Nodes /\ Size[data[disk[p]]] = scanned[p].size
    BY <1>1 DEF SourceInv, FilesAreKnown, AsListed
<1>3. CASE disk[p] \notin Nodes /\ Unreadable(p, Refusal(p))
    <2>1. Refusal(p) \in EarlyIssues \cup {"decoding_error"}
        BY DEF Refusal, EarlyIssues
    <2> QED
        BY <1>1, <1>2, <1>3, <2>1, UnreadableSourceInv
<1>4. CASE Size[data[disk[p]]] # scanned[p].size /\ Unreadable(p, "file_changed")
    <2>1. "file_changed" \in EarlyIssues \cup {"decoding_error"}
        BY DEF EarlyIssues
    <2> QED
        BY <1>1, <1>2, <1>4, <2>1, UnreadableSourceInv
<1>5. CASE disk[p] \in Nodes
           /\ TakeUp(Hold(p, "read", scanned[p].size, disk[p], scanned[p].since))
    <2> DEFINE h == Hold(p, "read", scanned[p].size, disk[p], scanned[p].since)
    <2>1. /\ h.path = p /\ h.step = "read" /\ h.node = disk[p]
          /\ h.size = scanned[p].size /\ h.since = scanned[p].since
        BY DEF Hold
    <2> HIDE DEF h
    <2> QED
        BY <1>1, <1>5, <2>1, TakeUpSourceInv DEF h
<1> QED
    BY <1>3, <1>4, <1>5 DEF OpenSource

LEMMA ReadSourceInv ==
    ASSUME SourceInv, DigestInv, ReadSource
    PROVE  SourceInv'
<1>1. stage \in {"parse", "chunk"} /\ reader # None /\ reader.step = "read"
    BY DEF ReadSource, Reading
<1>2. CASE Size[data[reader.node]] # reader.size /\ Unreadable(reader.path, "file_changed")
    <2>1. "file_changed" \in EarlyIssues \cup {"decoding_error"}
        BY DEF EarlyIssues
    <2>2. stage = "chunk" => reader.path \in DOMAIN parsed
        BY <1>1 DEF DigestInv, ChunkingIsOfParsed
    <2> QED
        BY <1>1, <1>2, <2>1, <2>2, InHandFacts, UnreadableSourceInv
<1>3. CASE /\ reader' = [reader EXCEPT !.step = "verify", !.content = data[reader.node]]
           /\ UNCHANGED <<env, parsers, stage, todo, results, inventories>>
    <2>0. SourceTypes /\ NodesAreApart /\ FilesAreKnown /\ InHandIsListed /\ ScanIsSoFar
        BY DEF SourceInv
    <2>1. UNCHANGED <<disk, data, version, began, skipped, stage, todo, results, scanned, parsed, chunked>>
        BY <1>3 DEF env, source, progress, inventories
    <2>2. reader' = [path |-> reader.path, step |-> "verify", size |-> reader.size,
                     node |-> reader.node, content |-> data[reader.node], since |-> reader.since]
        BY <1>1, <1>3 DEF DigestInv, HeldIsRecord
    <2>3. SourceTypes' /\ NodesAreApart'
        BY <1>1, <2>0, <2>1, <2>2 DEF SourceTypes, NodesAreApart
    <2>4. FilesAreKnown'
        BY <2>0, <2>1 DEF FilesAreKnown, AsListed, AsParsed, Unchanging, AsChunked
    <2>5. InHandIsListed'
        BY <1>1, <2>0, <2>1, <2>2 DEF InHandIsListed, SourceTypes
    <2>6. ScanIsSoFar'
        BY <1>1, <2>0, <2>1 DEF ScanIsSoFar
    <2> QED
        BY <2>3, <2>4, <2>5, <2>6 DEF SourceInv
<1> QED
    BY <1>2, <1>3 DEF ReadSource

LEMMA RefuseSourceInv ==
    ASSUME SourceInv, DigestInv, RefuseMoved \/ RefuseUndecodable
    PROVE  SourceInv'
<1>1. stage \in {"parse", "chunk"} /\ reader # None /\ reader.step = "verify"
    BY DEF RefuseMoved, RefuseUndecodable, Reading
<1>2. reader.path \in DOMAIN scanned /\ (stage = "chunk" => reader.path \in DOMAIN parsed)
    BY <1>1, InHandFacts DEF DigestInv, ChunkingIsOfParsed
<1>3. CASE RefuseMoved
    <2>1. PICK issue \in EarlyIssues : Unreadable(reader.path, issue)
        BY <1>3 DEF RefuseMoved, EarlyIssues
    <2>2. version[reader.path] # scanned[reader.path].since
        BY <1>1, <1>3, InHandFacts DEF RefuseMoved, Unmoved
    <2> QED
        BY <1>2, <2>1, <2>2, UnreadableSourceInv
<1>4. CASE RefuseUndecodable
    <2>1. Unreadable(reader.path, "decoding_error") /\ ~Text[reader.content]
        BY <1>4 DEF RefuseUndecodable
    <2>2. "decoding_error" \notin EarlyIssues
        BY DEF EarlyIssues
    <2>3. stage = "chunk" => \/ version[reader.path] # scanned[reader.path].since
                             \/ version[reader.path] # parsed[reader.path].since
        BY <1>1, <2>1, UneditedIsParsed
    <2> QED
        BY <1>2, <2>1, <2>2, <2>3, UnreadableSourceInv
<1> QED
    BY <1>3, <1>4

(* What the parser records of a file whose bytes it has.                   *)
LEMMA ParseSourceInv ==
    ASSUME SourceInv, ParseSource
    PROVE  SourceInv'
<1>1. /\ stage = "parse" /\ reader # None /\ reader.step = "verify"
      /\ disk[reader.path] = reader.node /\ Text[reader.content]
    BY DEF ParseSource, Verified, Reading, Unmoved
<1>2. ASSUME NEW status, NEW issue \in {"parser_unavailable", "extraction_error", None},
             ParseResult(reader.path, status, reader.content, issue)
      PROVE  SourceInv'
    <2> DEFINE p == reader.path
               r == [status |-> status, sha |-> reader.content, issue |-> issue,
                     since |-> scanned[p].since, at |-> version[p]]
    <2>1. Record(p, r)
        BY <1>2 DEF ParseResult
    <2>2. issue \notin EarlyIssues
        BY <1>2, NamesAreApart DEF EarlyIssues
    <2>3. AsParsed(p, r)
        BY <1>1, <2>2, InHandFacts DEF AsParsed, Unchanging
    <2> QED
        BY <1>1, <2>1, <2>3, InHandFacts, RecordSourceInv
<1>3. \/ ParseResult(reader.path, "failed", reader.content, "parser_unavailable")
      \/ ParseResult(reader.path, "failed", reader.content, "extraction_error")
      \/ ParseResult(reader.path, Parse[reader.content], reader.content, None)
    BY DEF ParseSource
<1> QED
    BY <1>2, <1>3

(* What the chunker records of a file whose bytes it has.                  *)
LEMMA ChunkSourceInv ==
    ASSUME SourceInv, DigestInv, ChunkSource
    PROVE  SourceInv'
<1> DEFINE p == reader.path
           c == reader.content
           since == Least(scanned[p].since, parsed[p].since)
<1>1. /\ stage = "chunk" /\ reader # None /\ reader.step = "verify"
      /\ p \in DOMAIN parsed /\ parsed[p].status \notin {"failed", "skipped"}
    BY DEF ChunkSource, Verified, Reading, DigestInv, ChunkingIsOfParsed, HeldIsParsed
<1>2. parsed[p].since \in Nat /\ parsed[p].since <= version[p]
    BY <1>1 DEF SourceInv, FilesAreKnown, AsParsed, Unchanging
<1>3. /\ p \in Paths /\ version[p] \in Nat /\ c \in Contents
      /\ scanned[p].since \in Nat /\ scanned[p].since <= version[p]
    BY <1>1, InHandFacts
<1>4. since \in Nat /\ since <= version[p]
    BY <1>2, <1>3 DEF Least
<1>5. ASSUME NEW r, Record(p, r), AsChunked(r) PROVE SourceInv'
    BY <1>1, <1>3, <1>5, RecordSourceInv
<1>6. CASE c # parsed[p].sha /\ ChunkResult(p, "failed", None, "source_changed")
    <2>1. since < version[p]
        BY <1>1, <1>2, <1>3, <1>6, UneditedIsParsed DEF Least
    <2> DEFINE r == [status |-> "failed", parse_status |-> parsed[p].status, sha |-> parsed[p].sha,
                     content |-> None, issue |-> "source_changed",
                     since |-> since, at |-> version[p]]
    <2>2. AsChunked(r)
        BY <1>3, <1>4, <2>1 DEF AsChunked, LateIssues
    <2> QED
        BY <1>5, <1>6, <2>2 DEF ChunkResult
<1>7. CASE c = parsed[p].sha /\ Cut[c] # "chunks" /\ ChunkResult(p, "failed", None, Cut[c])
    <2> DEFINE r == [status |-> "failed", parse_status |-> parsed[p].status, sha |-> parsed[p].sha,
                     content |-> None, issue |-> Cut[c],
                     since |-> since, at |-> version[p]]
    <2>1. Cut[c] \notin LateIssues /\ parsed[p].sha # None
        BY <1>3, <1>7, ContentsAreKnown, NamesAreApart DEF CutResults, LateIssues
    <2>2. AsChunked(r)
        BY <1>3, <1>4, <1>7, <2>1 DEF AsChunked
    <2> QED
        BY <1>5, <1>7, <2>2 DEF ChunkResult
<1>8. CASE ChunkResult(p, parsed[p].status, c, None)
    <2> DEFINE r == [status |-> parsed[p].status, parse_status |-> parsed[p].status,
                     sha |-> parsed[p].sha, content |-> c, issue |-> None,
                     since |-> since, at |-> version[p]]
    <2>1. AsChunked(r)
        BY <1>1, <1>3, <1>4, NamesAreApart DEF AsChunked, LateIssues
    <2> QED
        BY <1>5, <1>8, <2>1 DEF ChunkResult
<1> QED
    BY <1>6, <1>7, <1>8 DEF ChunkSource

(* The files a stage passes over without a reading.                        *)
LEMMA UnreadSourceInv ==
    ASSUME SourceInv, DigestInv, NEW p \in Paths, SkipUnsupported(p) \/ ChunkUnparsed(p)
    PROVE  SourceInv'
<1>1. CASE SkipUnsupported(p)
    <2> DEFINE r == [status |-> "skipped", sha |-> None, issue |-> None,
                     since |-> scanned[p].since, at |-> version[p]]
    <2>1. stage = "parse" /\ p \in todo /\ Record(p, r)
        BY <1>1 DEF SkipUnsupported, Ready, ParseResult
    <2>2. AsListed(p, scanned[p]) /\ version[p] \in Nat
        BY <2>1 DEF SourceInv, FilesAreKnown, InHandIsListed, SourceTypes
    <2>3. AsParsed(p, r)
        BY <2>2, NamesAreApart DEF AsListed, AsParsed, Unchanging, EarlyIssues
    <2> QED
        BY <2>1, <2>3, RecordSourceInv
<1>2. CASE ChunkUnparsed(p)
    <2> DEFINE r == [status |-> "failed", parse_status |-> parsed[p].status, sha |-> parsed[p].sha,
                     content |-> None, issue |-> "parse_unavailable",
                     since |-> Least(scanned[p].since, parsed[p].since), at |-> version[p]]
    <2>1. stage = "chunk" /\ p \in todo /\ parsed[p].status = "failed" /\ Record(p, r)
        BY <1>2 DEF ChunkUnparsed, Ready, ChunkResult
    <2>2. p \in DOMAIN scanned /\ p \in DOMAIN parsed
        BY <2>1 DEF SourceInv, InHandIsListed, DigestInv, ChunkingIsOfParsed
    <2>3. /\ scanned[p].since \in Nat /\ scanned[p].since <= version[p]
          /\ parsed[p].since \in Nat /\ parsed[p].since <= version[p] /\ version[p] \in Nat
        BY <2>2 DEF SourceInv, FilesAreKnown, AsListed, AsParsed, Unchanging, SourceTypes
    <2>4. AsChunked(r)
        BY <2>1, <2>3 DEF AsChunked, LateIssues, Least
    <2> QED
        BY <2>1, <2>4, RecordSourceInv
<1> QED
    BY <1>1, <1>2

LEMMA ScanSourceInv ==
    ASSUME SourceInv, NEW p \in Paths, ScanEntry(p)
    PROVE  SourceInv'
<1>1. stage = "scan" /\ reader = None /\ p \in todo
    BY DEF ScanEntry, Ready
<1>2. CASE Listable(p) /\ TakeUp(Hold(p, "sample", Size[data[disk[p]]], None, version[p]))
    <2> DEFINE h == Hold(p, "sample", Size[data[disk[p]]], None, version[p])
    <2>1. version[p] \in Nat /\ disk[p] \in Nodes /\ Size[data[disk[p]]] \in Nat
        BY <1>2, ContentsAreKnown DEF Listable, SourceInv, SourceTypes
    <2>2. h # None
        BY <2>1, NoneIsNoFile DEF Hold
    <2>3. h.path = p /\ AsListed(p, h)
        BY <2>1 DEF Hold, AsListed, Unchanging
    <2> HIDE DEF h
    <2> QED
        BY <1>1, <1>2, <2>2, <2>3, TakeUpSourceInv DEF h
<1>3. CASE ~Listable(p) /\ LeaveOut(p)
    BY <1>1, <1>3, LeaveOutSourceInv
<1> QED
    BY <1>2, <1>3 DEF ScanEntry

LEMMA SampleSourceInv ==
    ASSUME SourceInv, SampleEntry
    PROVE  SourceInv'
<1> DEFINE p == reader.path
           r == [size |-> reader.size, since |-> reader.since]
<1>1. stage = "scan" /\ reader # None /\ p \in Paths /\ AsListed(p, reader)
    BY DEF SampleEntry, SourceInv, SourceTypes, InHandIsListed
<1>2. version[p] = began[p] => Listable(p)
    BY <1>1 DEF SourceInv, ScanIsSoFar
<1>3. CASE /\ (disk[p] \in Nodes /\ ~Binary[data[disk[p]]]) \/ disk[p] = "link"
          /\ Record(p, r)
    <2>1. AsListed(p, r)
        BY <1>1 DEF AsListed, Unchanging
    <2>2. version[p] = began[p] => ~Binary[data[disk[p]]]
        BY <1>2, <1>3, NamesAreApart DEF Listable
    <2> QED
        BY <1>1, <1>3, <2>1, <2>2, RecordSourceInv
<1>4. CASE ~(disk[p] \in Nodes /\ ~Binary[data[disk[p]]]) /\ LeaveOut(p)
    <2>1. ~(Listable(p) /\ ~Binary[data[disk[p]]])
        BY <1>4 DEF Listable
    <2> QED
        BY <1>1, <1>4, <2>1, LeaveOutSourceInv
<1> QED
    BY <1>3, <1>4 DEF SampleEntry

LEMMA NextSourceInv == SourceInv /\ DigestInv /\ [Next]_vars => SourceInv'
<1> SUFFICES ASSUME SourceInv, DigestInv, [Next]_vars PROVE SourceInv'
    OBVIOUS
<1>1. IdleIsClean
    BY DEF DigestInv
<1>2. CASE UNCHANGED vars
    BY <1>2 DEF vars, SourceInv, SourceTypes, NodesAreApart, FilesAreKnown, AsListed, AsParsed,
        Unchanging, AsChunked, InHandIsListed, ScanIsSoFar, Listable
<1> QED
    BY <1>1, <1>2, BeginSourceInv, EndSourceInv, SkipSourceInv, ScanSourceInv, SampleSourceInv,
       OpenSourceInv, ReadSourceInv, RefuseSourceInv, ParseSourceInv, ChunkSourceInv,
       UnreadSourceInv, EditSourceInv
       DEF Next, Step

(* What the inventories say of the files is so, whatever the editor does.  *)
THEOREM SourceInvariance == Spec => [](SourceInv /\ DigestInv)
<1>1. Init => SourceInv /\ DigestInv
    BY InitSourceInv, InitDigestInv
<1>2. SourceInv /\ DigestInv /\ [Next]_vars => (SourceInv /\ DigestInv)'
    BY NextSourceInv, NextDigestInv
<1> QED
    BY <1>1, <1>2, PTL DEF Spec

(* A file is reported as changed, unreadable or undecodable after a parse  *)
(* of it only if somebody edited it since it was scanned.                  *)
THEOREM ChangesWereMade == Spec => []ChangesAreReal
<1>1. SourceInv => ChangesAreReal
    BY DEF SourceInv, FilesAreKnown, AsParsed, AsChunked, EarlyIssues, LateIssues, ChangesAreReal
<1> QED
    BY <1>1, SourceInvariance, PTL

(* A file nobody edited fails for nothing but its own content, or because  *)
(* its parser is unavailable.                                              *)
THEOREM FailuresHaveCauses == Spec => []FailuresAreEarned
<1>1. SourceInv => FailuresAreEarned
    <2> SUFFICES ASSUME SourceInv, NEW p \in DOMAIN chunked,
                        chunked[p].status = "failed", chunked[p].at = chunked[p].since
                 PROVE  \/ /\ chunked[p].issue = "parse_unavailable"
                           /\ chunked[p].parse_status = "failed"
                        \/ chunked[p].sha # None /\ Cut[chunked[p].sha] = chunked[p].issue
        BY DEF FailuresAreEarned
    <2>1. AsChunked(chunked[p])
        BY DEF SourceInv, FilesAreKnown
    <2> QED
        BY <2>1 DEF AsChunked
<1> QED
    BY <1>1, SourceInvariance, PTL

(* The inventory a scan returns lists the text files it is to list, of     *)
(* those nobody edits meanwhile and outside the directories it reports as  *)
(* skipped, and no other.                                                  *)
THEOREM InventoriesAreWhole == Spec => ScansAreComplete
<1>1. SourceInv /\ [Next]_vars =>
          (stage = "scan" /\ scanned' # scanned =>
              \A p \in Paths : version[p] = began[p] =>
                  (p \in DOMAIN scanned' <=>
                      p \notin skipped /\ Listable(p) /\ ~Binary[data[disk[p]]]))
    <2> SUFFICES ASSUME SourceInv, [Next]_vars, stage = "scan", scanned' # scanned,
                        NEW p \in Paths, version[p] = began[p]
                 PROVE  p \in DOMAIN scanned' <=>
                            p \notin skipped /\ Listable(p) /\ ~Binary[data[disk[p]]]
        OBVIOUS
    <2>1. End
        BY DEF Next, Step, vars, BeginScan, BeginParse, BeginChunk, Begin, AbortScan, SampleEntry,
            ReadSource, RefuseMoved, RefuseUndecodable, Unreadable, ParseSource, ChunkSource,
            SkipDirectory, ScanEntry, OpenSource, SkipUnsupported, ChunkUnparsed, Edit, Record,
            ParseResult, ChunkResult, TakeUp, LeaveOut, inventories
    <2>2. todo = {} /\ reader = None /\ scanned' = results
        BY <2>1 DEF End
    <2> QED
        BY <2>2 DEF SourceInv, ScanIsSoFar
<1> QED
    BY <1>1, SourceInvariance, PTL DEF Spec, ScansAreComplete
===============================================================================
