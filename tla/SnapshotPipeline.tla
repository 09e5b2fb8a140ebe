---------------------------- MODULE SnapshotPipeline ----------------------------
(***************************************************************************)
(* How a repository becomes chunks (file_scanner/scanner.py,               *)
(* code_parser/parser.py and reader.py, code_chunker/chunker.py): the      *)
(* scanner lists the files, the parser reads the listed code files and the *)
(* chunker reads them again, while somebody may be editing them.  Every    *)
(* stage works one file at a time on the inventories of the stages before, *)
(* and a caller may repeat a stage at any time.  File names and the text   *)
(* itself are abstracted; SymbolIntervals and Fragmenter model what is     *)
(* done with the text.                                                     *)
(***************************************************************************)
EXTENDS Naturals, FiniteSets, Functions

CONSTANTS
    Paths, Class,       \* the paths, and what each name stands for (see Classes)
    Directory, Root,    \* the directory of each path, and that of the repository
    Languages, LanguageOf,   \* the parser languages, and that of a supported path
    Nodes,              \* inodes
    Contents,           \* what files may contain
    Size, Binary, Text, Parse, Cut,  \* properties of the contents
    Limit,              \* max_file_size_bytes
    MaxEdits,           \* bound: edits of the repository
    None

(* A file name is one the scanner ignores, one of no code file, one of a   *)
(* code file that has no parser, or one of a code file that has.           *)
Classes == {"ignored", "other", "unsupported", "supported"}
ParseResults == {"success", "partial", "failed", "raises"}
CutResults == {"chunks", "location_invalid", "fragmentation_error"}

ASSUME ClassesAreKnown == Class \in [Paths -> Classes] /\ LanguageOf \in [Paths -> Languages]
ASSUME ContentsAreKnown ==
    /\ Size \in [Contents -> Nat] /\ Limit \in Nat
    /\ Binary \in [Contents -> BOOLEAN] /\ Text \in [Contents -> BOOLEAN]
    /\ Parse \in [Contents -> ParseResults] /\ Cut \in [Contents -> CutResults]
ASSUME MaxEditsIsNat == MaxEdits \in Nat
ASSUME NamesAreApart ==
    /\ {"link", "unreadable", None} \cap Nodes = {}
    /\ None \notin Contents \cup {"file_changed", "source_changed", "read_error", "link_unsafe",
                              "decoding_error"}

VARIABLES
    disk,      \* what each path names: a node, "link", "unreadable", or None
    data,      \* the content of each node
    version,   \* ghost: how often each path was edited
    began,     \* ghost: the versions at the beginning of a scan that goes on
    skipped,   \* its skipped_directories, as the paths in them
    parsers,   \* ParserRegistry: which parsers are cached, or known unavailable
    stage,     \* "idle", "scan", "parse" or "chunk"
    todo,      \* the paths the stage has still to begin
    reader,    \* the file in hand, and how far it is
    results,   \* the files the stage is done with
    scanned,   \* the files of the last FileInventory
    parsed,    \* the files of the last CodeParseInventory
    chunked    \* the files of the last CodeChunkInventory

source == <<disk, data, version>>
progress == <<began, skipped>>
env == <<source, progress>>
inventories == <<scanned, parsed, chunked>>
vars == <<disk, data, version, began, skipped, parsers, stage, todo, reader, results, scanned, parsed, chunked>>

Entries == Nodes \cup {"link", "unreadable", None}
Versions == 0 .. MaxEdits
ParseIssues == {"file_changed", "read_error", "link_unsafe", "decoding_error",
                "parser_unavailable", "extraction_error"}
ChunkIssues == {"source_changed", "read_error", "link_unsafe", "decoding_error",
                "parse_unavailable", "location_invalid", "fragmentation_error"}

(* The inventories record of a file what the later stages use.  since and  *)
(* at are ghosts: the version of the file when the scan reached it, and    *)
(* when this stage was done with it.                                       *)
ScannedFile == [size : Nat, since : Versions]
ParsedFile == [status : {"success", "partial", "failed", "skipped"},
               sha : Contents \cup {None}, issue : ParseIssues \cup {None},
               since : Versions, at : Versions]
ChunkedFile == [status : {"success", "partial", "failed"},
                parse_status : {"success", "partial", "failed"},
                sha : Contents \cup {None}, content : Contents \cup {None},
                issue : ChunkIssues \cup {None}, since : Versions, at : Versions]
InHand == [path : Paths, step : {"sample", "read", "verify"}, size : Nat,
           node : Nodes \cup {None}, content : Contents \cup {None}, since : Versions]

ASSUME NoneIsNoFile ==
    None \notin [path : Paths, step : {"sample", "read", "verify"}, size : Nat,
                 node : Nodes \cup {None}, content : Contents \cup {None}, since : Nat]

Empty == [p \in {} |-> None]
Unedited == [p \in Paths |-> 0]

TypeOK ==
    /\ disk \in [Paths -> Entries] /\ data \in [Nodes -> Contents]
    /\ version \in [Paths -> Versions] /\ began \in [Paths -> Versions]
    /\ parsers \in [Languages -> {"untried", "cached", "unavailable"}]
    /\ stage \in {"idle", "scan", "parse", "chunk"}
    /\ todo \subseteq Paths /\ skipped \subseteq Paths /\ reader \in InHand \cup {None}
    /\ DOMAIN scanned \cup DOMAIN parsed \cup DOMAIN chunked \cup DOMAIN results \subseteq Paths
    /\ \A p \in DOMAIN scanned : scanned[p] \in ScannedFile
    /\ \A p \in DOMAIN parsed : parsed[p] \in ParsedFile
    /\ \A p \in DOMAIN chunked : chunked[p] \in ChunkedFile

Init ==
    /\ disk \in [Paths -> Nodes]
    /\ \A p, q \in Paths : disk[p] = disk[q] => p = q
    /\ data \in [Nodes -> Contents]
    /\ \A n \in Nodes : (\A p \in Paths : disk[p] # n) => data[n] = CHOOSE c \in Contents : TRUE
    /\ version = Unedited /\ began = Unedited /\ skipped = {}
    /\ parsers = [l \in Languages |-> "untried"]
    /\ stage = "idle" /\ todo = {} /\ reader = None /\ results = Empty
    /\ scanned = Empty /\ parsed = Empty /\ chunked = Empty

-------------------------------------------------------------------------------
(* The editor: files are rewritten in place, replaced, and come and go *)

(* The number of an open inode is not given to a new file. *)
Open(n) == reader # None /\ reader.step = "read" /\ reader.node = n

Edit(p) ==
    /\ SumFunction(version) < MaxEdits
    /\ version' = [version EXCEPT ![p] = @ + 1]
    /\ \/ /\ disk[p] \in Nodes
          /\ \E c \in Contents \ {data[disk[p]]} : data' = [data EXCEPT ![disk[p]] = c]
          /\ UNCHANGED disk
       \/ \E e \in Entries \ {disk[p]}, d \in [Nodes -> Contents] :
             /\ e \in Nodes => e \notin {disk[q] : q \in Paths} /\ ~Open(e)
             /\ \A n \in Nodes \ {e} : d[n] = data[n]
             /\ disk' = [disk EXCEPT ![p] = e] /\ data' = d
    /\ UNCHANGED <<progress, parsers, stage, todo, reader, results, inventories>>

-------------------------------------------------------------------------------
(* The stages *)

Code == {p \in DOMAIN scanned : Class[p] \in {"unsupported", "supported"}}

Begin(name, paths) ==
    /\ stage = "idle"
    /\ stage' = name /\ todo' = paths
    /\ UNCHANGED <<source, reader, results, inventories>>

(* FileScanner.scan and CodeParser: a new parser has an empty cache.       *)
BeginScan == Begin("scan", Paths) /\ began' = version /\ UNCHANGED <<skipped, parsers>>
BeginParse ==
    Begin("parse", Code) /\ parsers' = [l \in Languages |-> "untried"] /\ UNCHANGED progress

(* CodeChunker.chunk_inventory: validate_inputs refuses inventories that   *)
(* do not list the same code files.                                        *)
BeginChunk ==
    /\ DOMAIN parsed = Code
    /\ Begin("chunk", {p \in Code : parsed[p].status # "skipped"})
    /\ UNCHANGED <<progress, parsers>>

End ==
    /\ stage # "idle" /\ todo = {} /\ reader = None
    /\ stage' = "idle" /\ results' = Empty /\ began' = Unedited /\ skipped' = {}
    /\ scanned' = IF stage = "scan" THEN results ELSE scanned
    /\ parsed' = IF stage = "parse" THEN results ELSE parsed
    /\ chunked' = IF stage = "chunk" THEN results ELSE chunked
    /\ UNCHANGED <<source, parsers, todo, reader>>

Ready(name, p) == stage = name /\ reader = None /\ p \in todo
Hold(p, step, size, node, since) ==
    [path |-> p, step |-> step, size |-> size, node |-> node, content |-> None, since |-> since]

TakeUp(h) ==
    /\ reader' = h /\ todo' = todo \ {h.path}
    /\ UNCHANGED <<env, parsers, stage, results, inventories>>

(* The stage is done with a file, and puts r in its inventory.             *)
Record(p, r) ==
    /\ results' = [q \in DOMAIN results \cup {p} |-> IF q = p THEN r ELSE results[q]]
    /\ reader' = None /\ todo' = todo \ {p}
    /\ UNCHANGED <<env, stage, inventories>>

LeaveOut(p) ==
    /\ reader' = None /\ todo' = todo \ {p}
    /\ UNCHANGED <<env, parsers, stage, results, inventories>>

-------------------------------------------------------------------------------
(* The scanner: one entry of a directory *)

Listable(p) ==
    disk[p] \in Nodes /\ Class[p] # "ignored" /\ Size[data[disk[p]]] <= Limit

(* is_link_or_reparse, is_file, classify_filename and the size limit.      *)
ScanEntry(p) ==
    /\ Ready("scan", p)
    /\ IF Listable(p)
       THEN TakeUp(Hold(p, "sample", Size[data[disk[p]]], None, version[p]))
       ELSE LeaveOut(p)

(* is_binary_sample, on what the path names by then: a link is followed,   *)
(* wherever it leads.                                                      *)
SampleEntry ==
    /\ stage = "scan" /\ reader # None
    /\ LET p == reader.path
           text == disk[p] \in Nodes /\ ~Binary[data[disk[p]]]
       IN \/ /\ text \/ disk[p] = "link"
             /\ Record(p, [size |-> reader.size, since |-> reader.since])
             /\ UNCHANGED parsers
          \/ ~text /\ LeaveOut(p)

(* Mutant: the directory is passed over in silence. *)
SkipDirectoryMutant(d) ==
    LET inside == {p \in Paths : Directory[p] = d}
    IN /\ stage = "scan" /\ reader = None
       /\ d # Root /\ inside # {} /\ inside \subseteq todo
       /\ todo' = todo \ inside
       /\ UNCHANGED <<env, parsers, stage, reader, results, inventories>>

(* A directory below the root cannot be enumerated: the scan goes on       *)
(* without it, and its inventory says so.                                  *)
SkipDirectory(d) ==
    LET inside == {p \in Paths : Directory[p] = d}
    IN /\ stage = "scan" /\ reader = None
       /\ d # Root /\ inside # {} /\ inside \subseteq todo
       /\ todo' = todo \ inside /\ skipped' = skipped \cup inside
       /\ UNCHANGED <<source, began, parsers, stage, reader, results, inventories>>

(* Mutant: the scan ends at the error as it ends at the last entry. *)
AbortScanMutant ==
    /\ stage = "scan" /\ reader = None /\ todo # {}
    /\ todo' = {}
    /\ UNCHANGED <<env, parsers, stage, reader, results, inventories>>

(* The root cannot be enumerated, or the iteration over the entries of a   *)
(* directory raises: the scan raises, and has no inventory.                *)
AbortScan ==
    /\ stage = "scan" /\ reader = None /\ todo # {}
    /\ stage' = "idle" /\ todo' = {} /\ results' = Empty
    /\ began' = Unedited /\ skipped' = {}
    /\ UNCHANGED <<source, parsers, reader, inventories>>

-------------------------------------------------------------------------------
(* The two readers of a listed file *)

ParseResult(p, status, c, issue) ==
    Record(p, [status |-> status, sha |-> c, issue |-> issue,
               since |-> scanned[p].since, at |-> version[p]])

Least(a, b) == IF a < b THEN a ELSE b

ChunkResult(p, status, c, issue) ==
    Record(p, [status |-> status, parse_status |-> parsed[p].status, sha |-> parsed[p].sha,
               content |-> c, issue |-> issue,
               since |-> Least(scanned[p].since, parsed[p].since), at |-> version[p]])

(* _failed_file of either stage, for a SourceReadError of SafeSourceReader. *)
Unreadable(p, issue) ==
    /\ \/ stage = "parse" /\ ParseResult(p, "failed", None, issue)
       \/ /\ stage = "chunk"
          /\ ChunkResult(p, "failed", None,
                         IF issue = "file_changed" THEN "source_changed" ELSE issue)
    /\ UNCHANGED parsers

(* The open of a path: a node, or the error that refuses it.               *)
Refusal(p) == IF disk[p] = "link" THEN "link_unsafe" ELSE "read_error"

Reads(p) ==
    \/ Ready("parse", p) /\ Class[p] = "supported"
    \/ Ready("chunk", p) /\ parsed[p].status # "failed"

OpenSource(p) ==
    /\ Reads(p)
    /\ \/ disk[p] \notin Nodes /\ Unreadable(p, Refusal(p))
       \/ /\ disk[p] \in Nodes
          /\ IF Size[data[disk[p]]] # scanned[p].size THEN Unreadable(p, "file_changed")
             ELSE TakeUp(Hold(p, "read", scanned[p].size, disk[p], scanned[p].since))

Reading(step) == stage \in {"parse", "chunk"} /\ reader # None /\ reader.step = step

(* Mutant: a file of the listed size counts as one that has grown. *)
ReadSourceMutant ==
    /\ Reading("read")
    /\ IF Size[data[reader.node]] >= reader.size THEN Unreadable(reader.path, "file_changed")
       ELSE /\ reader' = [reader EXCEPT !.step = "verify", !.content = data[reader.node]]
            /\ UNCHANGED <<env, parsers, stage, todo, results, inventories>>

(* All the bytes of the open node, if they are as many as were listed.     *)
ReadSource ==
    /\ Reading("read")
    /\ IF Size[data[reader.node]] # reader.size THEN Unreadable(reader.path, "file_changed")
       ELSE /\ reader' = [reader EXCEPT !.step = "verify", !.content = data[reader.node]]
            /\ UNCHANGED <<env, parsers, stage, todo, results, inventories>>

(* The path still names the node that was read, at the listed size.        *)
Unmoved == disk[reader.path] = reader.node /\ Size[data[reader.node]] = reader.size

RefuseMoved ==
    /\ Reading("verify") /\ ~Unmoved
    /\ Unreadable(reader.path, IF disk[reader.path] = "link" THEN "link_unsafe" ELSE "file_changed")

RefuseUndecodable ==
    /\ Reading("verify") /\ Unmoved /\ ~Text[reader.content]
    /\ Unreadable(reader.path, "decoding_error")

Verified(name) == stage = name /\ Reading("verify") /\ Unmoved /\ Text[reader.content]

-------------------------------------------------------------------------------
(* The parser *)

SkipUnsupported(p) ==
    /\ Ready("parse", p) /\ Class[p] = "unsupported"
    /\ ParseResult(p, "skipped", None, None)
    /\ UNCHANGED parsers

(* ParserRegistry.get_parser: a failure to build a parser is remembered.   *)
GetParser(l, r) ==
    /\ parsers[l] # "untried" => r = parsers[l]
    /\ parsers' = [parsers EXCEPT ![l] = r]

ParseSource ==
    /\ Verified("parse")
    /\ LET p == reader.path
           c == reader.content
       IN \/ /\ GetParser(LanguageOf[p], "unavailable")
             /\ ParseResult(p, "failed", c, "parser_unavailable")
          \/ /\ GetParser(LanguageOf[p], "cached")
             /\ IF Parse[c] = "raises" THEN ParseResult(p, "failed", c, "extraction_error")
                ELSE ParseResult(p, Parse[c], c, None)

-------------------------------------------------------------------------------
(* The chunker *)

ChunkUnparsed(p) ==
    /\ Ready("chunk", p) /\ parsed[p].status = "failed"
    /\ ChunkResult(p, "failed", None, "parse_unavailable")
    /\ UNCHANGED parsers

(* Mutant: the digest of the parser is not compared. *)
ChunkSourceMutant ==
    /\ Verified("chunk")
    /\ LET p == reader.path
           c == reader.content
       IN IF Cut[c] # "chunks" THEN ChunkResult(p, "failed", None, Cut[c])
          ELSE ChunkResult(p, parsed[p].status, c, None)
    /\ UNCHANGED parsers

(* Mutant: every failure to cut is blamed on the locations. *)
MislabelledChunkSourceMutant ==
    /\ Verified("chunk")
    /\ LET p == reader.path
           c == reader.content
       IN IF c # parsed[p].sha THEN ChunkResult(p, "failed", None, "source_changed")
          ELSE IF Cut[c] # "chunks" THEN ChunkResult(p, "failed", None, "location_invalid")
          ELSE ChunkResult(p, parsed[p].status, c, None)
    /\ UNCHANGED parsers

(* The bytes must be those the parser saw; their ranges are then cut.      *)
ChunkSource ==
    /\ Verified("chunk")
    /\ LET p == reader.path
           c == reader.content
       IN IF c # parsed[p].sha THEN ChunkResult(p, "failed", None, "source_changed")
          ELSE IF Cut[c] # "chunks" THEN ChunkResult(p, "failed", None, Cut[c])
          ELSE ChunkResult(p, parsed[p].status, c, None)
    /\ UNCHANGED parsers

Step ==
    \/ End \/ AbortScan \/ SampleEntry \/ ReadSource \/ RefuseMoved \/ RefuseUndecodable
    \/ ParseSource \/ ChunkSource
    \/ \E p \in Paths :
          \/ SkipDirectory(Directory[p]) \/ ScanEntry(p)
          \/ OpenSource(p) \/ SkipUnsupported(p) \/ ChunkUnparsed(p)

Next ==
    \/ BeginScan \/ BeginParse \/ BeginChunk
    \/ Step
    \/ \E p \in Paths : Edit(p)

Spec == Init /\ [][Next]_vars

-------------------------------------------------------------------------------
(* Properties *)

(* The inventory a scan returns lists, of the files nobody edits meanwhile  *)
(* and outside the directories it reports as skipped, the text files that  *)
(* are neither ignored nor too large, and no other: it is never a part of  *)
(* the repository that passes for the whole, of which the index would then *)
(* be purged.                                                              *)
ScansAreComplete ==
    [][stage = "scan" /\ scanned' # scanned =>
           \A p \in Paths : version[p] = began[p] =>
               (p \in DOMAIN scanned' <=>
                   p \notin skipped /\ Listable(p) /\ ~Binary[data[disk[p]]])]_vars

(* What was chunked is what was parsed: the bytes of every chunk are those *)
(* whose digest, symbols and status the parser recorded, however the file  *)
(* was edited between the two reads and whichever stages were repeated.    *)
ChunksComeFromParse ==
    \A p \in DOMAIN chunked : chunked[p].status # "failed" =>
        /\ chunked[p].content = chunked[p].sha
        /\ chunked[p].status = chunked[p].parse_status
        /\ chunked[p].status = Parse[chunked[p].content]

(* A file is reported as changed, unreadable or undecodable after a parse  *)
(* of it only if somebody edited it since it was scanned.                  *)
ChangesAreReal ==
    /\ \A p \in DOMAIN parsed :
          parsed[p].issue \in {"file_changed", "read_error", "link_unsafe"} =>
              parsed[p].at > parsed[p].since
    /\ \A p \in DOMAIN chunked :
          chunked[p].issue \in {"source_changed", "read_error", "link_unsafe", "decoding_error"} =>
              chunked[p].at > chunked[p].since

(* A file nobody edited fails for nothing but its own content, or because  *)
(* its parser is unavailable; its neighbours have no influence.            *)
FailuresAreEarned ==
    \A p \in DOMAIN chunked :
        LET f == chunked[p]
        IN f.status = "failed" /\ f.at = f.since =>
              \/ f.issue = "parse_unavailable" /\ f.parse_status = "failed"
              \/ f.sha # None /\ Cut[f.sha] = f.issue
===============================================================================
