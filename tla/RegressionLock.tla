---------------------------- MODULE RegressionLock ----------------------------
(***************************************************************************)
(* scripts/emit-regression.mjs: a capture is judged afresh by the oracle   *)
(* and, when the judgement is a candidate false green, its sources become  *)
(* fixture files and an entry of the capture regression matrix, which      *)
(* refers to those files.  What does not end in an entry is rolled back by *)
(* deleting what was written.                                              *)
(***************************************************************************)
EXTENDS Oracle

\* The matrix already has an entry, and its fixtures are on disk.
Dirs    == {"shared", "own"}
Sources == {"target", "import"}
Ids     == {"old", "new"}

Fixtures(dir) == {<<dir, f>> : f \in Sources}
OldEntry      == [id |-> "old", dir |-> "shared", needs |-> Fixtures("shared")]

VARIABLES
    lock,        \* where emit-regression stands
    emit,        \* its arguments, once they are used
    written,     \* writtenFiles, what a rollback deletes
    disk,        \* the fixture files there are
    matrix,      \* the entries of capture-regression-matrix.json
    red          \* the replay of the entry was seen to differ from its expectation

lockVars == <<lock, emit, written, disk, matrix, red>>
allVars  == <<judgeVars, lockVars>>

Emits == [id : Ids, dir : Dirs, baseline : {"none", "one file differs", "several differ"},
          dryRun : BOOLEAN]

\* judgeRefusal.  --force changes nothing: only a candidate has a cold tuple.
NotLockable == \/ o1 # "candidate"
               \/ o2 \in {"cheat-flagged", "no-policy"}

\* The files of the fixtures: a mutated file is written twice, whole and broken.
Materialized ==
    Fixtures(emit.dir) \cup
        (IF emit.baseline = "one file differs" THEN {<<emit.dir, "target.broken">>} ELSE {})


\* rollbackWrittenFiles
RolledBack(files) == disk \ files

JudgeRefusal ==
    /\ lock = "idle" /\ caller = "emit" /\ stage \in {"lock", "failed"}
    /\ IF stage = "lock" /\ ~NotLockable
       THEN lock' = "materialize" /\ emit' \in Emits
       ELSE lock' = "unlocked" /\ UNCHANGED emit
    /\ UNCHANGED <<written, disk, matrix, red>>

\* materializeFixtureFiles: several differing files are refused before anything
\* is written; a write that fails leaves the files before it, and they are not in
\* writtenFiles yet.
MaterializeFixtures ==
    /\ lock = "materialize"
    /\ \/ /\ emit.baseline # "several differ"
          /\ lock' = "compose" /\ written' = Materialized /\ disk' = disk \cup Materialized
       \/ /\ emit.baseline # "several differ"
          /\ lock' = "unlocked" /\ UNCHANGED written
          /\ \E some \in SUBSET Materialized : disk' = disk \cup some
       \/ /\ emit.baseline = "several differ"
          /\ lock' = "unlocked" /\ UNCHANGED <<written, disk>>
    /\ UNCHANGED <<emit, matrix, red>>

Abort ==
    /\ lock' = "unlocked" /\ disk' = RolledBack(written)
    /\ UNCHANGED <<emit, written, matrix, red>>

\* Mutated form: an observation that matches the expectation is locked.
EvidenceAny == BOOLEAN

\* Only an observation that differs from the expected value is evidence.
Evidence == {TRUE}

\* composeEntry, then the replay of the entry against the fixtures on disk
ReplayEntry ==
    /\ lock = "compose"
    /\ \/ Abort                                          \* the entry is not valid, or the replay throws
       \/ \E observed \in BOOLEAN :                      \* TRUE: it differs
            IF observed \in Evidence
            THEN /\ lock' = IF emit.dryRun THEN "dry run" ELSE "persist"
                 /\ red' = observed
                 /\ UNCHANGED <<emit, written, disk, matrix>>
            ELSE Abort                                   \* nothing to lock

DryRun ==
    /\ lock = "dry run"
    /\ Abort

\* writeMatrixEntry: an id that is taken, or a write that fails, throws.
WriteMatrixEntry ==
    /\ lock = "persist"
    /\ \/ Abort
       \/ /\ \A entry \in matrix : entry.id # emit.id
          /\ matrix' = matrix \cup {[id |-> emit.id, dir |-> emit.dir, needs |-> written]}
          /\ lock' = "locked"
          /\ UNCHANGED <<emit, written, disk, red>>

LockInit ==
    /\ JudgeInit
    /\ lock = "idle" /\ emit = CHOOSE e \in Emits : TRUE
    /\ written = {} /\ disk = Fixtures("shared") /\ matrix = {OldEntry} /\ red = FALSE

EmitStep == JudgeRefusal \/ MaterializeFixtures \/ ReplayEntry \/ DryRun \/ WriteMatrixEntry

LockNext ==
    \/ JudgeNext /\ UNCHANGED lockVars
    \/ EmitStep /\ UNCHANGED judgeVars

LockSpec ==
    /\ LockInit /\ [][LockNext]_allVars
    /\ WF_judgeVars(JudgeStep /\ UNCHANGED lockVars) /\ WF_judgeVars(ReadLine /\ UNCHANGED lockVars)

(***************************************************************************)
(* Properties                                                              *)
(***************************************************************************)

\* A judgement has effects only with a cause.  A queue entry has the cause that
\* FiledWithCause names; a new entry of the regression matrix stands for a
\* candidate of a judgement that is on disk, with no cheat in it and nothing
\* that no policy could tell from a cheat, whose replay was seen to be red, and
\* all the fixture files it needs are there (emit-regression.mjs:52-77,446-477).
RecordedWithCause ==
    /\ FiledWithCause
    /\ \A entry \in matrix \ {OldEntry} :
         /\ verdict /\ o1 = "candidate" /\ o2 \in {"clean", "no-target"}
         /\ red /\ ~emit.dryRun
         /\ entry.needs \subseteq disk

\* What emit-regression.mjs:400-402 says of persisted entries: the committed entry
\* references these fixtures, so a later throw must not roll them back.
LockedFixturesStay == \A entry \in matrix : entry.needs \subseteq disk

\* What emit-regression.mjs:482-484 says: a failed emit never orphans files.
NothingOrphaned == lock = "unlocked" => disk \subseteq Fixtures("shared")
=============================================================================
