-------------------------- MODULE RepositoryLoaderProofs --------------------------
(***************************************************************************)
(* What was in the workspace before any load stays, for any repositories,  *)
(* any loads and any faults: a directory that no git clone of a load made  *)
(* never comes into the hands of a load that would fill or remove it.      *)
(***************************************************************************)
EXTENDS RepositoryLoader, TLAPS

Preexisting(r) == filler[r] = {} /\ dest[r] \in {"foreign", "empty", "complete"}

(* The loads that found no directory, and have not returned.               *)
Removers == {"clone", "cloning", "remove", "removing"}
MayTouch(l) ==
    pc[l] \in Removers \/ git[l] # "none" \/ (pc[l] = "metadata" /\ fresh[l])

(* A load that verifies a clone does not regard it as its own, and one     *)
(* that may touch a directory has not found it there.                      *)
VerifiesOld == \A l \in Loads : pc[l] = "verify" => ~fresh[l]
TouchesOwn == \A l \in Loads : MayTouch(l) => ~Preexisting(RepositoryOf(l))
KeepsInv == TypeOK /\ VerifiesOld /\ TouchesOwn

LEMMA RepositoryOfLoad == \A l \in Loads : RepositoryOf(l) \in Repositories
BY LoadsAreOfRepositories

LEMMA InitType == Init => TypeOK
<1> SUFFICES ASSUME Init PROVE TypeOK
    OBVIOUS
<1>1. dest \in [Repositories -> Contents]
    <2>1. Initial \subseteq Contents
        BY InitialContents, SMT DEF Contents, Stages
    <2>2. dest \in [Repositories -> Initial]
        BY DEF Init
    <2> QED
        BY <2>1, <2>2
<1>2. filler \in [Repositories -> {{}} \cup {{l} : l \in Loads}]
    BY DEF Init
<1> QED
    BY <1>1, <1>2 DEF Init, TypeOK, Outcomes

LEMMA InitKeepsInv == Init => KeepsInv
BY InitType DEF Init, KeepsInv, VerifiesOld, TouchesOwn, MayTouch, Removers

(* The type invariant, for the actions of a load, of its git and the stop. *)
LEMMA TypeNext == TypeOK /\ [Next]_vars => TypeOK'
<1> SUFFICES ASSUME TypeOK, [Next]_vars PROVE TypeOK'
    OBVIOUS
<1> USE RepositoryOfLoad DEF TypeOK, Contents, Stages, Outcomes
<1>1. ASSUME NEW l \in Loads, CheckGit(l) PROVE TypeOK'
    BY <1>1 DEF CheckGit, Ends
<1>2. ASSUME NEW l \in Loads, Exists(l) PROVE TypeOK'
    BY <1>2 DEF Exists, Goto, Now
<1>3. ASSUME NEW l \in Loads, Verify(l) PROVE TypeOK'
    BY <1>3 DEF Verify, Goto, Ends
<1>4. ASSUME NEW l \in Loads, StartClone(l) PROVE TypeOK'
    BY <1>4 DEF StartClone, Goto, Ends
<1>5. ASSUME NEW l \in Loads, Cloned(l) PROVE TypeOK'
    BY <1>5 DEF Cloned, Goto, Ends
<1>6. ASSUME NEW l \in Loads, Timeout(l) PROVE TypeOK'
    BY <1>6 DEF Timeout, Ends
<1>7. ASSUME NEW l \in Loads, Metadata(l) PROVE TypeOK'
    BY <1>7 DEF Metadata, Ends
<1>8. ASSUME NEW l \in Loads, Remove(l) PROVE TypeOK'
    BY <1>8 DEF Remove, Goto, Becomes
<1>9. ASSUME NEW l \in Loads, Removing(l) PROVE TypeOK'
    BY <1>9 DEF Removing, Goto, Becomes, FilledBy
<1>10. ASSUME NEW l \in Loads, GitStart(l) PROVE TypeOK'
    BY <1>10 DEF GitStart, Becomes, FilledBy
<1>11. ASSUME NEW l \in Loads, GitFill(l) PROVE TypeOK'
    BY <1>11 DEF GitFill, Becomes, Following, Now
<1>12. ASSUME NEW l \in Loads, GitFail(l) PROVE TypeOK'
    BY <1>12 DEF GitFail, Becomes, FilledBy
<1>13. ASSUME NEW l \in Loads, Orphaned(l) PROVE TypeOK'
    BY <1>13 DEF Orphaned
<1>14. ASSUME Stop PROVE TypeOK'
    BY <1>14 DEF Stop
<1>15. CASE UNCHANGED vars
    BY <1>15 DEF vars
<1> QED
    BY <1>1, <1>2, <1>3, <1>4, <1>5, <1>6, <1>7, <1>8, <1>9, <1>10, <1>11, <1>12, <1>13,
       <1>14, <1>15 DEF Next

(* What a step does to a directory: one that is there from before stays,   *)
(* and none becomes one.                                                   *)
LEMMA PreexistingStays ==
    KeepsInv /\ [Next]_vars =>
        \A r \in Repositories : /\ Preexisting(r) => dest'[r] = dest[r]
                                /\ Preexisting(r)' => Preexisting(r)
<1> SUFFICES ASSUME KeepsInv, [Next]_vars, NEW r \in Repositories
             PROVE /\ Preexisting(r) => dest'[r] = dest[r]
                   /\ Preexisting(r)' => Preexisting(r)
    OBVIOUS
<1>a. CASE UNCHANGED <<dest, filler>>
    BY <1>a DEF Preexisting
<1>1. ASSUME NEW l \in Loads, Remove(l)
      PROVE /\ Preexisting(r) => dest'[r] = dest[r]
            /\ Preexisting(r)' => Preexisting(r)
    BY <1>1, RepositoryOfLoad
       DEF Remove, Becomes, Now, KeepsInv, TouchesOwn, MayTouch, Removers, Preexisting, TypeOK
<1>2. ASSUME NEW l \in Loads, Removing(l)
      PROVE /\ Preexisting(r) => dest'[r] = dest[r]
            /\ Preexisting(r)' => Preexisting(r)
    BY <1>2, RepositoryOfLoad
       DEF Removing, Becomes, FilledBy, Now, KeepsInv, TouchesOwn, MayTouch, Removers,
           Preexisting, TypeOK
<1>3. ASSUME NEW l \in Loads, GitStart(l)
      PROVE /\ Preexisting(r) => dest'[r] = dest[r]
            /\ Preexisting(r)' => Preexisting(r)
    BY <1>3, RepositoryOfLoad
       DEF GitStart, Becomes, FilledBy, Now, KeepsInv, TouchesOwn, MayTouch, Preexisting, TypeOK
<1>4. ASSUME NEW l \in Loads, GitFill(l)
      PROVE /\ Preexisting(r) => dest'[r] = dest[r]
            /\ Preexisting(r)' => Preexisting(r)
    BY <1>4, RepositoryOfLoad
       DEF GitFill, Becomes, Now, KeepsInv, TouchesOwn, MayTouch, Preexisting, TypeOK
<1>5. ASSUME NEW l \in Loads, GitFail(l)
      PROVE /\ Preexisting(r) => dest'[r] = dest[r]
            /\ Preexisting(r)' => Preexisting(r)
    BY <1>5, RepositoryOfLoad
       DEF GitFail, Becomes, FilledBy, Now, KeepsInv, TouchesOwn, MayTouch, Preexisting, TypeOK
<1> QED
    BY <1>a, <1>1, <1>2, <1>3, <1>4, <1>5
       DEF Next, vars, CheckGit, Exists, Verify, StartClone, Cloned, Timeout, Metadata,
           Orphaned, Stop

(* A step that lets a load touch a directory finds none there.             *)
LEMMA TouchesNone ==
    KeepsInv /\ [Next]_vars =>
        \A l \in Loads : MayTouch(l)' => MayTouch(l) \/ dest[RepositoryOf(l)] = "absent"
<1> SUFFICES ASSUME KeepsInv, [Next]_vars, NEW l \in Loads, MayTouch(l)', ~MayTouch(l)
             PROVE dest[RepositoryOf(l)] = "absent"
    OBVIOUS
<1> USE DEF MayTouch, Removers, KeepsInv, TypeOK
<1>1. ASSUME NEW k \in Loads, CheckGit(k) \/ Exists(k) \/ Verify(k)
      PROVE dest[RepositoryOf(l)] = "absent"
    BY <1>1 DEF CheckGit, Exists, Verify, Goto, Ends, Now, VerifiesOld
<1>2. ASSUME NEW k \in Loads,
             StartClone(k) \/ Cloned(k) \/ Timeout(k) \/ Metadata(k) \/ Remove(k) \/ Removing(k)
      PROVE dest[RepositoryOf(l)] = "absent"
    BY <1>2 DEF StartClone, Cloned, Timeout, Metadata, Remove, Removing, Goto, Ends
<1>3. ASSUME NEW k \in Loads, GitStart(k) \/ GitFill(k) \/ GitFail(k) \/ Orphaned(k)
      PROVE dest[RepositoryOf(l)] = "absent"
    BY <1>3 DEF GitStart, GitFill, GitFail, Orphaned
<1>4. CASE Stop
    BY <1>4 DEF Stop
<1>5. CASE UNCHANGED vars
    BY <1>5 DEF vars
<1> QED
    BY <1>1, <1>2, <1>3, <1>4, <1>5 DEF Next

LEMMA VerifiesOldNext == KeepsInv /\ [Next]_vars => VerifiesOld'
<1> SUFFICES ASSUME KeepsInv, [Next]_vars, NEW l \in Loads, pc'[l] = "verify"
             PROVE ~fresh'[l]
    BY DEF VerifiesOld
<1> USE DEF KeepsInv, TypeOK, VerifiesOld
<1>1. ASSUME NEW k \in Loads, CheckGit(k) \/ Exists(k) \/ Verify(k)
      PROVE ~fresh'[l]
    BY <1>1 DEF CheckGit, Exists, Verify, Goto, Ends
<1>2. ASSUME NEW k \in Loads,
             StartClone(k) \/ Cloned(k) \/ Timeout(k) \/ Metadata(k) \/ Remove(k) \/ Removing(k)
      PROVE ~fresh'[l]
    BY <1>2 DEF StartClone, Cloned, Timeout, Metadata, Remove, Removing, Goto, Ends
<1>3. ASSUME NEW k \in Loads, GitStart(k) \/ GitFill(k) \/ GitFail(k) \/ Orphaned(k)
      PROVE ~fresh'[l]
    BY <1>3 DEF GitStart, GitFill, GitFail, Orphaned
<1>4. CASE Stop
    BY <1>4 DEF Stop
<1>5. CASE UNCHANGED vars
    BY <1>5 DEF vars
<1> QED
    BY <1>1, <1>2, <1>3, <1>4, <1>5 DEF Next

LEMMA KeepsInvNext == KeepsInv /\ [Next]_vars => KeepsInv'
<1> SUFFICES ASSUME KeepsInv, [Next]_vars PROVE KeepsInv'
    OBVIOUS
<1>1. TypeOK' /\ VerifiesOld'
    BY TypeNext, VerifiesOldNext DEF KeepsInv
<1>2. ASSUME NEW l \in Loads, MayTouch(l)' PROVE ~Preexisting(RepositoryOf(l))'
    <2>1. MayTouch(l) \/ dest[RepositoryOf(l)] = "absent"
        BY <1>2, TouchesNone
    <2>2. ~Preexisting(RepositoryOf(l))
        BY <2>1 DEF KeepsInv, TouchesOwn, Preexisting
    <2> QED
        BY <2>2, RepositoryOfLoad, PreexistingStays DEF RepositoryOf
<1> QED
    BY <1>1, <1>2 DEF KeepsInv, TouchesOwn

(* The type invariant of RepositoryLoader.                                 *)
THEOREM LoaderTypes == Spec => []TypeOK
<1>1. Init => TypeOK
    BY InitType
<1>2. TypeOK /\ [Next]_vars => TypeOK'
    BY TypeNext
<1> QED
    BY <1>1, <1>2, PTL DEF Spec

(* No load removes or fills what was in the workspace before, whichever    *)
(* loads of whichever repositories overlap, fail, time out or are stopped. *)
THEOREM PreexistingKept == Spec => PreexistingIsKept
<1>1. Init => KeepsInv
    BY InitKeepsInv
<1>2. KeepsInv /\ [Next]_vars => KeepsInv'
    BY KeepsInvNext
<1>3. KeepsInv /\ [Next]_vars =>
          [\A r \in Repositories :
               filler[r] = {} /\ dest[r] \in {"foreign", "empty", "complete"} =>
                   dest'[r] = dest[r]]_vars
    BY PreexistingStays DEF Preexisting
<1> QED
    BY <1>1, <1>2, <1>3, PTL DEF Spec, PreexistingIsKept

-------------------------------------------------------------------------------
(* Loads of repositories of their own, which nobody stops                  *)

Whole == {"absent", "empty", "foreign", "complete"}

(* What is at the destination of a load, by its step p, its git g, whether *)
(* it clones (f) and its outcome o; mine tells that its git made it.       *)
AtStep(p, g, f, o, d, mine) ==
    /\ p = "cloning" <=> g # "none"
    /\ p \in {"idle", "exists", "verify"} => d \in Whole
    /\ p = "verify" => ~f
    /\ p \in Removers => f
    /\ p = "clone" => d = "absent"
    /\ g = "starting" => d = "absent"
    /\ g = "filling" => d \in {"initialized", "fetching", "checking_out"} /\ mine
    /\ g = "done" => d = "complete"
    /\ p = "remove" \/ g = "failed" => d \in Stages \cup {"absent"}
    /\ p = "metadata" => d = "complete"
    /\ p = "removing" => d = "remnant"
    /\ o = "loaded" => p = "idle" /\ d = "complete"
    /\ p = "idle" /\ f /\ o # "loaded" => d = "absent"

Standing(l) ==
    AtStep(pc[l], git[l], fresh[l], outcome[l], Now(l), filler[RepositoryOf(l)] = {l})

OthersRest ==
    \A l \in Loads \ scenario.loads :
        pc[l] = "idle" /\ git[l] = "none" /\ ~fresh[l] /\ outcome[l] # "loaded"
AllStand == LoadsAreApart => \A l \in scenario.loads : Standing(l)
ApartInv == TypeOK /\ OthersRest /\ AllStand

LEMMA InitApartInv == Init => ApartInv
<1> SUFFICES ASSUME Init PROVE ApartInv
    OBVIOUS
<1>1. TypeOK
    BY InitType
<1>2. \A r \in Repositories : dest[r] \in Whole
    BY InitialContents DEF Init, Whole
<1>3. OthersRest
    BY DEF Init, OthersRest
<1>4. ASSUME NEW l \in Loads PROVE Standing(l)
    BY <1>2, RepositoryOfLoad DEF Init, Standing, AtStep, Removers, Now
<1>5. \A l \in scenario.loads : l \in Loads
    BY DEF Init, Loads
<1> QED
    BY <1>1, <1>3, <1>4, <1>5 DEF ApartInv, AllStand

(* The loads of one scenario are loads, and apart they are of repositories *)
(* of their own.                                                           *)
LEMMA Apart ==
    ASSUME TypeOK
    PROVE  /\ \A l \in scenario.loads : l \in Loads
           /\ LoadsAreApart =>
                 \A l, m \in scenario.loads : l # m => RepositoryOf(l) # RepositoryOf(m)
BY DEF TypeOK, Loads, LoadsAreApart, RepositoryOf

(* The steps of a load, of which none is taken by one that rests.          *)
StepOf(k) ==
    \/ CheckGit(k) \/ Exists(k) \/ Verify(k) \/ StartClone(k) \/ Cloned(k)
    \/ Timeout(k) \/ Metadata(k) \/ Remove(k) \/ Removing(k)
    \/ GitStart(k) \/ GitFill(k) \/ GitFail(k) \/ Orphaned(k)

LEMMA OnlyScenarioSteps ==
    ASSUME ApartInv, NEW k \in Loads, StepOf(k)
    PROVE  k \in scenario.loads
BY DEF ApartInv, OthersRest, StepOf, CheckGit, Exists, Verify, StartClone, Cloned, Timeout,
       Metadata, Remove, Removing, GitStart, GitFill, GitFail, Orphaned

(* A step of one load changes nothing that another load stands on.         *)
LEMMA OthersStand ==
    ASSUME ApartInv, NEW k \in Loads, StepOf(k), NEW l \in Loads, l # k
    PROVE  /\ UNCHANGED <<scenario, pc[l], git[l], fresh[l], outcome[l]>>
           /\ RepositoryOf(l) # RepositoryOf(k) =>
                 UNCHANGED <<dest[RepositoryOf(l)], filler[RepositoryOf(l)]>>
<1> USE RepositoryOfLoad DEF ApartInv, TypeOK
<1>1. CASE CheckGit(k) \/ Exists(k) \/ Verify(k) \/ StartClone(k) \/ Cloned(k)
    BY <1>1 DEF CheckGit, Exists, Verify, StartClone, Cloned, Goto, Ends
<1>2. CASE Timeout(k) \/ Metadata(k) \/ Remove(k) \/ Removing(k)
    BY <1>2 DEF Timeout, Metadata, Remove, Removing, Goto, Ends, Becomes, FilledBy
<1>3. CASE GitStart(k) \/ GitFill(k) \/ GitFail(k) \/ Orphaned(k)
    BY <1>3 DEF GitStart, GitFill, GitFail, Orphaned, Becomes, FilledBy
<1> QED
    BY <1>1, <1>2, <1>3 DEF StepOf

(* A step of a load that stands leaves it standing.                        *)
LEMMA StepStands ==
    ASSUME ApartInv, LoadsAreApart, NEW k \in Loads, StepOf(k), Standing(k)
    PROVE  Standing(k)'
<1>0. AtStep(pc[k], git[k], fresh[k], outcome[k], Now(k), filler[RepositoryOf(k)] = {k})
    BY DEF Standing
<1> USE <1>0, RepositoryOfLoad DEF ApartInv, TypeOK, AtStep, Removers, Whole, Stages
<1>1. CASE CheckGit(k)
    BY <1>1 DEF CheckGit, Ends, Standing, Now
<1>2. CASE Exists(k)
    BY <1>2 DEF Exists, Goto, Standing, Now
<1>3. CASE Verify(k)
    BY <1>3 DEF Verify, Goto, Ends, HasOrigin, Standing, Now
<1>4. CASE StartClone(k)
    BY <1>4 DEF StartClone, Goto, Ends, Standing, Now
<1>5. CASE Cloned(k)
    BY <1>5 DEF Cloned, Goto, Ends, Standing, Now
<1>6. CASE Timeout(k)
    BY <1>6 DEF Timeout, Ends, Standing, Now
<1>7. CASE Metadata(k)
    BY <1>7 DEF Metadata, Ends, HasCommit, Standing, Now
<1>8. CASE Remove(k)
    BY <1>8 DEF Remove, Goto, Becomes, Standing, Now
<1>9. CASE Removing(k)
    BY <1>9 DEF Removing, Goto, Becomes, FilledBy, Standing, Now, LoadsAreApart
<1>10. CASE GitStart(k)
    BY <1>10 DEF GitStart, Becomes, FilledBy, Standing, Now
<1>11. CASE GitFill(k)
    BY <1>11 DEF GitFill, Becomes, Following, Standing, Now
<1>12. CASE GitFail(k)
    BY <1>12 DEF GitFail, Becomes, FilledBy, Standing, Now
<1>13. CASE Orphaned(k)
    BY <1>13 DEF Orphaned
<1> QED
    BY <1>1, <1>2, <1>3, <1>4, <1>5, <1>6, <1>7, <1>8, <1>9, <1>10, <1>11, <1>12, <1>13
       DEF StepOf

LEMMA ApartInvNext == ApartInv /\ [Next]_vars => ApartInv'
<1> SUFFICES ASSUME ApartInv, [Next]_vars PROVE ApartInv'
    OBVIOUS
<1>1. TypeOK'
    BY TypeNext DEF ApartInv
<1>2. ASSUME NEW k \in Loads, StepOf(k) PROVE ApartInv'
    <2>1. k \in scenario.loads /\ scenario' = scenario
        BY <1>2, OnlyScenarioSteps DEF StepOf, CheckGit, Exists, Verify, StartClone, Cloned,
            Timeout, Metadata, Remove, Removing, GitStart, GitFill, GitFail, Orphaned
    <2>2. OthersRest'
        <3>1. ASSUME NEW l \in Loads \ scenario.loads
              PROVE  pc'[l] = "idle" /\ git'[l] = "none" /\ ~fresh'[l] /\ outcome'[l] # "loaded"
            BY <1>2, <2>1, <3>1, OthersStand DEF ApartInv, OthersRest
        <3> QED
            BY <2>1, <3>1 DEF OthersRest
    <2>3. ASSUME LoadsAreApart, NEW l \in scenario.loads PROVE Standing(l)'
        <3>1. l \in Loads /\ Standing(l) /\ (l # k => RepositoryOf(l) # RepositoryOf(k))
            BY <2>1, <2>3, Apart DEF ApartInv, AllStand
        <3>2. CASE l = k
            BY <1>2, <2>3, <3>1, <3>2, StepStands
        <3>3. CASE l # k
            <4>1. UNCHANGED <<pc[l], git[l], fresh[l], outcome[l], dest[RepositoryOf(l)],
                              filler[RepositoryOf(l)]>>
                BY <1>2, <3>1, <3>3, OthersStand
            <4> QED
                BY <3>1, <4>1 DEF Standing, Now, AtStep, RepositoryOf
        <3> QED
            BY <3>2, <3>3
    <2>4. LoadsAreApart' => LoadsAreApart
        BY <2>1 DEF LoadsAreApart, faults
    <2> QED
        BY <1>1, <2>1, <2>2, <2>3, <2>4 DEF ApartInv, AllStand
<1>3. CASE Stop
    <2>1. scenario' = scenario /\ ~LoadsAreApart
        BY <1>3 DEF Stop, LoadsAreApart
    <2>2. ~LoadsAreApart'
        BY <2>1 DEF LoadsAreApart, faults
    <2>3. OthersRest'
        BY <1>3, <2>1 DEF Stop, ApartInv, OthersRest
    <2> QED
        BY <1>1, <2>2, <2>3 DEF ApartInv, AllStand
<1>4. CASE UNCHANGED vars
    BY <1>1, <1>4 DEF vars, ApartInv, OthersRest, AllStand, Standing, AtStep, Now, LoadsAreApart,
        faults, RepositoryOf
<1> QED
    BY <1>2, <1>3, <1>4 DEF Next, StepOf

(* Of loads that are apart, each finds at every step what its last step    *)
(* left at its destination.                                                *)
THEOREM LoadsStandApart == Spec => []ApartInv
<1>1. Init => ApartInv
    BY InitApartInv
<1>2. ApartInv /\ [Next]_vars => ApartInv'
    BY ApartInvNext
<1> QED
    BY <1>1, <1>2, PTL DEF Spec

(* A load whose new clone failed leaves nothing at its destination.        *)
THEOREM FailuresLeaveNothing == Spec => []FailureLeavesNothing
<1>1. ApartInv => FailureLeavesNothing
    <2> SUFFICES ASSUME ApartInv, LoadsAreApart, NEW l \in Loads,
                        fresh[l], pc[l] = "idle", outcome[l] # "loaded"
                 PROVE  dest[RepositoryOf(l)] = "absent"
        BY DEF FailureLeavesNothing
    <2>1. l \in scenario.loads
        BY DEF ApartInv, OthersRest
    <2> QED
        BY <2>1 DEF ApartInv, AllStand, Standing, AtStep, Now
<1> QED
    BY <1>1, LoadsStandApart, PTL

(* A load that returns has a complete clone at its destination, which stays*)
(* as it is.                                                               *)
THEOREM LoadedIsComplete == Spec => LoadedStaysComplete
<1>1. ASSUME ApartInv, ApartInv', [Next]_vars, LoadsAreApart, NEW l \in Loads,
             outcome[l] = "loaded" \/ outcome'[l] = "loaded"
      PROVE  dest'[RepositoryOf(l)] = "complete"
    <2>1. scenario' = scenario
        BY <1>1 DEF Next, vars, CheckGit, Exists, Verify, StartClone, Cloned, Timeout, Metadata,
            Remove, Removing, GitStart, GitFill, GitFail, Orphaned, Stop
    <2>2. LoadsAreApart'
        BY <1>1, <2>1 DEF LoadsAreApart, faults
    <2>3. l \in scenario.loads
        BY <1>1, <2>1 DEF ApartInv, OthersRest
    <2>4. CASE outcome'[l] = "loaded"
        BY <1>1, <2>1, <2>2, <2>3, <2>4 DEF ApartInv, AllStand, Standing, AtStep, Now, RepositoryOf
    <2>5. CASE outcome[l] = "loaded" /\ outcome'[l] # "loaded"
        <3>1. pc[l] = "idle" /\ git[l] = "none" /\ dest[RepositoryOf(l)] = "complete"
            BY <1>1, <2>3, <2>5 DEF ApartInv, AllStand, Standing, AtStep, Now
        <3>2. ~Stop /\ outcome' # outcome
            BY <1>1, <2>5 DEF Stop, LoadsAreApart
        <3>3. PICK k \in Loads : StepOf(k)
            BY <1>1, <3>2 DEF Next, StepOf, vars
        <3>4. k = l
            BY <1>1, <2>5, <3>3, OthersStand
        <3>5. CheckGit(l)
            BY <3>1, <3>3, <3>4 DEF StepOf, Exists, Verify, StartClone, Cloned, Timeout, Metadata,
                Remove, Removing, GitStart, GitFill, GitFail, Orphaned
        <3> QED
            BY <3>1, <3>5 DEF CheckGit
    <2> QED
        BY <1>1, <2>4, <2>5
<1>2. ApartInv /\ ApartInv' /\ [Next]_vars =>
          [LoadsAreApart => \A l \in Loads :
              outcome[l] = "loaded" \/ outcome'[l] = "loaded" =>
                  dest'[RepositoryOf(l)] = "complete"]_vars
    BY <1>1
<1> QED
    BY <1>2, LoadsStandApart, PTL DEF Spec, LoadedStaysComplete
================================================================================
