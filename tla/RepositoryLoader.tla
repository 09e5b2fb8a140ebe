---------------------------- MODULE RepositoryLoader ----------------------------
(***************************************************************************)
(* RepositoryLoader.load (repository_loader/loader.py) in one workspace,   *)
(* each repository with its directory <owner>_<repository>: the existence  *)
(* test, the verification of an existing clone, git clone, the metadata,   *)
(* and the removal of a failed new clone are steps that other loads, a     *)
(* timeout or a stop of the program come between.                          *)
(***************************************************************************)
CONSTANTS
    Repositories,
    Initial,   \* what may be at a destination before any load
    Scenarios  \* who loads what, and what may go wrong, as [loads, faults]: the loads
               \* are pairs of a caller and the repository it loads, again and again

FaultKinds == {"no_git", "clone", "timeout", "metadata", "remove", "stop"}
(* What git clone leaves at each of its stages, in order: a repository     *)
(* without origin, one with an origin and no commit, one with a commit and *)
(* an incomplete working tree, and the whole clone.                        *)
Stages == {"initialized", "fetching", "checking_out", "complete"}
Contents == {"absent", "empty", "foreign", "remnant"} \cup Stages

(* Mutant: the destination of a repository leaves its owner out. *)
RepositoryOfMutant(l) == CHOOSE r \in Repositories : TRUE

RepositoryOf(l) == l[2]

Loads == UNION {s.loads : s \in Scenarios}

ASSUME LoadsAreOfRepositories == \A l \in Loads : RepositoryOf(l) \in Repositories
ASSUME InitialContents == Initial \subseteq {"absent", "empty", "foreign", "complete"}
ASSUME FaultsAreKnown == \A s \in Scenarios : s.faults \subseteq FaultKinds

VARIABLES
    scenario, \* the one that takes place
    dest,     \* what is at a destination; a remnant is a partly removed clone
    filler,   \* the loads whose git clone made the directory that is there
    git,      \* the git clone of each load
    pc,       \* the next step of each load
    fresh,    \* whether it cloned the repository itself
    outcome   \* what load returned or raised

vars == <<scenario, dest, filler, git, pc, fresh, outcome>>

Outcomes == {"none", "loaded", "git_not_installed", "workspace_error", "clone_failed",
    "metadata_error"}

faults == scenario.faults

TypeOK ==
    /\ scenario \in Scenarios
    /\ dest \in [Repositories -> Contents]
    /\ filler \in [Repositories -> {{}} \cup {{l} : l \in Loads}]
    /\ git \in [Loads -> {"none", "starting", "filling", "done", "failed"}]
    /\ pc \in [Loads -> {"idle", "exists", "verify", "clone", "cloning", "metadata",
                         "remove", "removing"}]
    /\ fresh \in [Loads -> BOOLEAN]
    /\ outcome \in [Loads -> Outcomes]

Init ==
    /\ scenario \in Scenarios
    /\ dest \in [Repositories -> Initial]
    /\ \A r \in Repositories \ {RepositoryOf(l) : l \in scenario.loads} : dest[r] = "absent"
    /\ filler = [r \in Repositories |-> {}]
    /\ git = [l \in Loads |-> "none"]
    /\ pc = [l \in Loads |-> "idle"]
    /\ fresh = [l \in Loads |-> FALSE]
    /\ outcome = [l \in Loads |-> "none"]

Goto(l, label) == pc' = [pc EXCEPT ![l] = label] /\ UNCHANGED outcome
Ends(l, result, label) ==
    /\ outcome' = [outcome EXCEPT ![l] = result]
    /\ pc' = [pc EXCEPT ![l] = label]

(* The destination of a load *)
Now(l) == dest[RepositoryOf(l)]
Becomes(l, content) == dest' = [dest EXCEPT ![RepositoryOf(l)] = content]

FilledBy(l, loads) == filler' = [filler EXCEPT ![RepositoryOf(l)] = loads]

-------------------------------------------------------------------------------
(* load *)

CheckGit(l) ==
    /\ l \in scenario.loads /\ pc[l] = "idle" /\ git[l] = "none"
    /\ \/ "no_git" \in faults /\ Ends(l, "git_not_installed", "idle")
       \/ Ends(l, "none", "exists")
    /\ fresh' = [fresh EXCEPT ![l] = FALSE]
    /\ UNCHANGED <<scenario, dest, filler, git>>

Exists(l) ==
    /\ pc[l] = "exists"
    /\ fresh' = [fresh EXCEPT ![l] = (Now(l) = "absent")]
    /\ Goto(l, IF Now(l) = "absent" THEN "clone" ELSE "verify")
    /\ UNCHANGED <<scenario, dest, filler, git>>

(* The origin of a remnant may or may not be readable still. *)
HasOrigin(l) == Now(l) \in {"fetching", "checking_out", "complete", "remnant"}

Verify(l) ==
    /\ pc[l] = "verify"
    /\ \/ HasOrigin(l) /\ Goto(l, "metadata")
       \/ (~HasOrigin(l) \/ Now(l) = "remnant") /\ Ends(l, "workspace_error", "idle")
    /\ UNCHANGED <<scenario, dest, filler, git, fresh>>

StartClone(l) ==
    /\ pc[l] = "clone"
    /\ \/ "no_git" \in faults /\ Ends(l, "git_not_installed", "remove") /\ UNCHANGED git
       \/ git' = [git EXCEPT ![l] = "starting"] /\ Goto(l, "cloning")
    /\ UNCHANGED <<scenario, dest, filler, fresh>>

(* Mutant: the exit code of git clone is not looked at. *)
ClonedMutant(l) ==
    /\ pc[l] = "cloning" /\ git[l] \in {"done", "failed"}
    /\ git' = [git EXCEPT ![l] = "none"]
    /\ Goto(l, "metadata")
    /\ UNCHANGED <<scenario, dest, filler, fresh>>

Cloned(l) ==
    /\ pc[l] = "cloning" /\ git[l] \in {"done", "failed"}
    /\ git' = [git EXCEPT ![l] = "none"]
    /\ IF git[l] = "done" THEN Goto(l, "metadata") ELSE Ends(l, "clone_failed", "remove")
    /\ UNCHANGED <<scenario, dest, filler, fresh>>

(* subprocess.run kills git, which may just have ended: what it wrote stays. *)
Timeout(l) ==
    /\ "timeout" \in faults
    /\ pc[l] = "cloning"
    /\ git' = [git EXCEPT ![l] = "none"]
    /\ Ends(l, "clone_failed", "remove")
    /\ UNCHANGED <<scenario, dest, filler, fresh>>

(* extract_repository_info: it needs a commit, and counts the files it sees *)
HasCommit(l) == Now(l) \in {"checking_out", "complete", "remnant"}

(* Mutant: a new clone whose metadata cannot be read stays. *)
KeptMetadataMutant(l) ==
    /\ pc[l] = "metadata"
    /\ \/ HasCommit(l) /\ Ends(l, "loaded", "idle")
       \/ /\ ~HasCommit(l) \/ Now(l) = "remnant" \/ "metadata" \in faults
          /\ Ends(l, "metadata_error", "idle")
    /\ UNCHANGED <<scenario, dest, filler, git, fresh>>

(* Mutant: a clone that was there before is removed like a new one. *)
RemovedMetadataMutant(l) ==
    /\ pc[l] = "metadata"
    /\ \/ HasCommit(l) /\ Ends(l, "loaded", "idle")
       \/ /\ ~HasCommit(l) \/ Now(l) = "remnant" \/ "metadata" \in faults
          /\ Ends(l, "metadata_error", "remove")
    /\ UNCHANGED <<scenario, dest, filler, git, fresh>>

Metadata(l) ==
    /\ pc[l] = "metadata"
    /\ \/ HasCommit(l) /\ Ends(l, "loaded", "idle")
       \/ /\ ~HasCommit(l) \/ Now(l) = "remnant" \/ "metadata" \in faults
          /\ Ends(l, "metadata_error", IF fresh[l] THEN "remove" ELSE "idle")
    /\ UNCHANGED <<scenario, dest, filler, git, fresh>>

(* _remove_new_destination: rmtree takes its time and may give up *)
Remove(l) ==
    /\ pc[l] = "remove"
    /\ IF Now(l) = "absent" THEN Goto(l, "idle") /\ UNCHANGED dest
       ELSE Goto(l, "removing") /\ Becomes(l, "remnant")
    /\ UNCHANGED <<scenario, filler, git, fresh>>

(* Mutant: the removal is repeated until it succeeds. *)
RemovingMutant(l) ==
    /\ pc[l] = "removing"
    /\ IF Now(l) = "remnant"
       THEN Becomes(l, "absent") /\ FilledBy(l, {}) /\ Goto(l, "idle")
       ELSE Goto(l, "removing") /\ UNCHANGED <<dest, filler>>
    /\ UNCHANGED <<scenario, git, fresh>>

Removing(l) ==
    /\ pc[l] = "removing"
    /\ Goto(l, "idle")
    /\ \/ Now(l) = "remnant" /\ Becomes(l, "absent") /\ FilledBy(l, {})
       \/ /\ Now(l) # "remnant" \/ "remove" \in faults
          /\ UNCHANGED <<dest, filler>>
    /\ UNCHANGED <<scenario, git, fresh>>

-------------------------------------------------------------------------------
(* git clone: it refuses a directory that is not empty, and removes what it *)
(* made when it fails, unless it is killed or only the checkout failed      *)

GitStart(l) ==
    /\ git[l] = "starting"
    /\ \/ /\ Now(l) \in {"absent", "empty"}
          /\ Becomes(l, "initialized") /\ FilledBy(l, {l})
          /\ git' = [git EXCEPT ![l] = "filling"]
       \/ /\ Now(l) \notin {"absent", "empty"} \/ "clone" \in faults
          /\ git' = [git EXCEPT ![l] = "failed"]
          /\ UNCHANGED <<dest, filler>>
    /\ UNCHANGED <<scenario, pc, fresh, outcome>>

Following == [initialized |-> "fetching", fetching |-> "checking_out",
              checking_out |-> "complete"]

GitFill(l) ==
    /\ git[l] = "filling"
    /\ IF filler[RepositoryOf(l)] = {l} /\ Now(l) \in DOMAIN Following
       THEN /\ Becomes(l, Following[Now(l)])
            /\ git' = [git EXCEPT ![l] = IF Now(l) = "checking_out" THEN "done" ELSE @]
       ELSE git' = [git EXCEPT ![l] = "failed"] /\ UNCHANGED dest
    /\ UNCHANGED <<scenario, filler, pc, fresh, outcome>>

GitFail(l) ==
    /\ "clone" \in faults
    /\ git[l] = "filling"
    /\ git' = [git EXCEPT ![l] = "failed"]
    /\ IF filler[RepositoryOf(l)] = {l} /\ Now(l) \in {"initialized", "fetching"}
       THEN Becomes(l, "absent") /\ FilledBy(l, {})
       ELSE UNCHANGED <<dest, filler>>
    /\ UNCHANGED <<scenario, pc, fresh, outcome>>

(* The program stops; a git clone it runs may go on, or stop with it. *)
Stop ==
    /\ "stop" \in faults
    /\ pc' = [l \in Loads |-> "idle"]
    /\ fresh' = [l \in Loads |-> FALSE]
    /\ outcome' = [l \in Loads |-> "none"]
    /\ \E survivors \in SUBSET {l \in Loads : git[l] \in {"starting", "filling"}} :
         git' = [l \in Loads |-> IF l \in survivors THEN git[l] ELSE "none"]
    /\ UNCHANGED <<scenario, dest, filler>>

(* Nobody waits for the git of a program that stopped. *)
Orphaned(l) ==
    /\ pc[l] # "cloning" /\ git[l] \in {"done", "failed"}
    /\ git' = [git EXCEPT ![l] = "none"]
    /\ UNCHANGED <<scenario, dest, filler, pc, fresh, outcome>>

Step(l) ==
    \/ pc[l] # "idle" /\ (Exists(l) \/ Verify(l) \/ StartClone(l) \/ Cloned(l)
                          \/ Metadata(l) \/ Remove(l) \/ Removing(l))
    \/ GitStart(l) \/ GitFill(l)

Next ==
    \/ \E l \in Loads : \/ CheckGit(l) \/ Exists(l) \/ Verify(l) \/ StartClone(l) \/ Cloned(l)
                        \/ Timeout(l) \/ Metadata(l) \/ Remove(l) \/ Removing(l)
                        \/ GitStart(l) \/ GitFill(l) \/ GitFail(l) \/ Orphaned(l)
    \/ Stop

Spec == Init /\ [][Next]_vars

(* git ends by itself, or the timeout kills it; the rest is local work. *)
FairSpec == Spec /\ \A l \in Loads : WF_vars(Step(l))

-------------------------------------------------------------------------------
(* Properties *)

(* "It never removes a pre-existing path" (design, Error Handling): what   *)
(* was at a destination before any load is never touched.                  *)
PreexistingIsKept ==
    [][\A r \in Repositories :
           filler[r] = {} /\ dest[r] \in {"foreign", "empty", "complete"} =>
               dest'[r] = dest[r]]_vars

(* "Existing workspace data is never overwritten or silently deleted"      *)
(* (README): a clone that a load has returned stays as it is.              *)
LoadedIsKept ==
    [][\A l \in Loads :
           outcome[l] = "loaded" /\ dest[RepositoryOf(l)] = "complete" =>
               dest'[RepositoryOf(l)] = "complete"]_vars

(* No two of the loads are of one repository, nobody stops the program and *)
(* what is removed is gone.                                                *)
LoadsAreApart ==
    /\ \A l, m \in scenario.loads : l # m => l[2] # m[2]
    /\ {"remove", "stop"} \cap faults = {}

(* Then nobody indexes half a repository: a load that returns has a        *)
(* complete clone at the destination, which stays as it is.                *)
LoadedStaysComplete ==
    [][LoadsAreApart => \A l \in Loads :
           outcome[l] = "loaded" \/ outcome'[l] = "loaded" => dest'[RepositoryOf(l)] = "complete"]_vars

(* And a load whose new clone failed leaves nothing behind for the next    *)
(* load to mistake for a repository.                                       *)
FailureLeavesNothing ==
    LoadsAreApart => \A l \in Loads :
        fresh[l] /\ pc[l] = "idle" /\ outcome[l] # "loaded" => dest[RepositoryOf(l)] = "absent"

(* Every load returns, whatever the others do to the destination.          *)
LoadsEnd == \A l \in Loads : (pc[l] # "idle") ~> (pc[l] = "idle")
================================================================================
