------------------------------ MODULE ProofEdit ------------------------------
(***************************************************************************)
(* What the proof tools do to a source file: a tool asks Agda to fill,     *)
(* refine, split or solve goals, replaces the hole markers of those goals  *)
(* on disk, and reloads the file, so that the session, Agda and the disk   *)
(* tell the same story again.                                              *)
(*                                                                         *)
(* A file is the sequence of its hole markers; a marker keeps its identity *)
(* however the text moves around it.  A goal id means something to Agda    *)
(* (an interaction point) and to the session, which takes the place of the *)
(* id among its goal ids for the place of the marker in the file.          *)
(*                                                                         *)
(* The commands go through the queue of module CommandQueue; a load is     *)
(* what module SessionLoad has of it, seen from outside: one command,      *)
(* after which the session has the file or has not.                        *)
(*                                                                         *)
(* Source: src/tools/goal-write-tools.ts, src/tools/query-tools.ts,        *)
(* src/tools/agent-ux/edit-tools.ts,                                       *)
(* src/session/reload-and-diagnose.ts, src/session/apply-goal-edit.ts,     *)
(* src/session/apply-batch-edits.ts, src/session/register-agda-apply-edit.ts*)
(***************************************************************************)
EXTENDS Naturals, Sequences, FiniteSets, SequencesExt

CONSTANTS MaxCall,       \* bound: calls are numbered as they come
          MaxOverlap,    \* bound: calls pending at a time
          MaxEdit,       \* bound: edits by anyone else
          MaxHole,       \* bound: markers ever made
          Ops,           \* the tools called
          WriteFlags     \* the values of writeToFile they are called with

GiveOps  == {"give", "auto"}     \* give, refine, refineExact, intro; autoOne
SolveOps == {"solveAll", "solveOne"}
GoalOps  == GiveOps \cup {"split", "solveOne"}
AgdaOps  == GoalOps \cup {"solveAll", "metas"}
(* Tools that edit the file without Agda's help: agda_apply_edit, and      *)
(* agda_apply_rename, agda_add_missing_clauses, agda_infer_fixity_conflicts*)
UxOps    == {"rename", "clauses", "fixity"}
TextOps  == UxOps \cup {"text"}

ASSUME EditAssumption ==
         /\ MaxCall \in Nat /\ MaxOverlap \in Nat /\ MaxEdit \in Nat /\ MaxHole \in Nat
         /\ Ops \subseteq AgdaOps \cup TextOps \cup {"load"}
         /\ WriteFlags \subseteq BOOLEAN

Calls  == 1..MaxCall
Tasks  == Calls \X {"act", "load"}
NoTask == <<0, "none">>
Times  == 0..(MaxEdit + MaxCall)
NoTime == MaxEdit + MaxCall + 1      \* lastLoadedMtime === null

VARIABLES
  queue, running, outcome,         \* the command queue
  \* the calls
  pc,          \* new, acting, answered, reading, writing, loading, returned
  call,        \* its locals while it runs: the tool op, its goal and writeToFile;
               \* before, the goalIdsBefore; edits, the replacements Agda answered
               \* with; source, the file as read; checked, the version that passed
               \* the staleness check, if that was the one Agda has (history)
  \* the session
  loaded,      \* currentFile is the file, or null
  goalIds, loadedMtime,
  \* Agda
  live, hasRead,
  points,      \* its interaction points, in source order
  nextId, readMtime,
  \* the disk
  disk, nextHole

queueVars   == <<queue, running, outcome>>
callVars    == <<pc, call>>
sessionVars == <<loaded, goalIds, loadedMtime>>
agdaVars    == <<live, hasRead, points, nextId, readMtime>>
diskVars    == <<disk, nextHole>>
vars == <<queueVars, callVars, sessionVars, agdaVars, diskVars>>

Queue == INSTANCE CommandQueue

-----------------------------------------------------------------------------
(* Markers, interaction points and goal ids.                               *)

(* k markers nobody has made before.                                       *)
Fresh(k) == [i \in 1..k |-> nextHole + i - 1]
HasFresh(k) == nextHole + k <= MaxHole + 1

(* The interaction points of a file Agda has just loaded: goals are        *)
(* numbered in file order.                                                 *)
Numbering(d) == IF d.broken THEN <<>>
                ELSE [i \in DOMAIN d.holes |-> [id |-> i - 1, hole |-> d.holes[i]]]

Ids(ps)      == [i \in DOMAIN ps |-> ps[i].id]
HoleOf(g)    == (CHOOSE p \in ToSet(points) : p.id = g).hole

(* The sequences of ss one after the other.                                *)
Joined(ss) ==
  LET upTo[i \in 0..Len(ss)] == IF i = 0 THEN <<>> ELSE upTo[i-1] \o ss[i]
  IN upTo[Len(ss)]

(* Agda gives g a term with the markers hs: these are new points where it  *)
(* was.                                                                    *)
Filled(g, hs) ==
  Joined([i \in DOMAIN points |->
    IF points[i].id # g THEN <<points[i]>>
    ELSE [j \in DOMAIN hs |-> [id |-> nextId + j - 1, hole |-> hs[j]]]])

(* findGoalPosition: the marker of a goal is the one whose place in the    *)
(* file is that of the id in goalIdsBefore, if there is one.               *)
Located(c, d) == {e \in call[c].edits : \E i \in DOMAIN call[c].before :
                                     call[c].before[i] = e.goal /\ i <= Len(d.holes)}

(* applyProofEdit, applyBatchHoleReplacements: the markers after the edit. *)
Replaced(c, d) ==
  Joined([i \in DOMAIN d.holes |->
    IF \E e \in call[c].edits : i \in DOMAIN call[c].before /\ call[c].before[i] = e.goal
      THEN (CHOOSE e \in call[c].edits : call[c].before[i] = e.goal).new
      ELSE <<d.holes[i]>>])

(* A file with one marker less, one more, or the same ones.                *)
Edited(hs) == {hs}
              \cup {RemoveAt(hs, i) : i \in DOMAIN hs}
              \cup {InsertAt(hs, i, nextHole) : i \in IF HasFresh(1) THEN 1..(Len(hs) + 1)
                                                                   ELSE {}}
(* A rename and the declaration of a fixity leave the markers alone, the   *)
(* stub of a missing clause has one.                                       *)
Rewritten(o, hs) ==
  CASE o = "text"    -> Edited(hs)
    [] o = "clauses" -> {InsertAt(hs, i, nextHole) : i \in IF HasFresh(1) THEN 1..(Len(hs) + 1)
                                                                         ELSE {}}
    [] OTHER         -> {hs}
NextHole(hs) == IF nextHole \in ToSet(hs) THEN nextHole + 1 ELSE nextHole

-----------------------------------------------------------------------------
(* The session.                                                            *)

(* A call's continuation is ready to run; nothing else is.                 *)
Ready == \E c \in Calls : pc[c] = "answered"
Quiet == ~Ready /\ (running # NoTask \/ queue = <<>>)

Pending == {c \in Calls : pc[c] \notin {"new", "returned"}}

NoCall == [op |-> "load", goal |-> 0, write |-> FALSE, before |-> <<>>, edits |-> {},
           source |-> [holes |-> <<>>, broken |-> FALSE, mtime |-> 0], checked |-> NoTime]

Return(c) == pc' = [pc EXCEPT ![c] = "returned"] /\ call' = [call EXCEPT ![c] = NoCall]

(* syncGoalIdsFromResponses *)
SyncGoalIds(ps) == goalIds' = Ids(ps)

(* Mutated form of IsFileStale: the guard is dropped.                      *)
NeverStale == FALSE

(* isFileStale *)
IsFileStale == loaded /\ loadedMtime # NoTime /\ loadedMtime # disk.mtime

(* invalidatePriorLoadState, and the resets when the child has gone.       *)
Invalidate == loaded' = FALSE /\ goalIds' = <<>> /\ loadedMtime' = NoTime

(* session.load, up to its await; nothing else is left for the call to do. *)
Reload(c) == /\ Invalidate
             /\ Queue!Submit(<<c, "load">>)
             /\ pc' = [pc EXCEPT ![c] = "loading"] /\ call' = [call EXCEPT ![c] = NoCall]

(* Mutated form of Resync: the warning is returned without a reload.       *)
OnlyWarns(c) == Return(c) /\ UNCHANGED <<queueVars, sessionVars>>

(* An edit refused, or failed: the proof tools reload all the same.        *)
Resync(c) == Reload(c)

Init ==
  /\ Queue!Init
  /\ pc = [c \in Calls |-> "new"] /\ call = [c \in Calls |-> NoCall]
  /\ nextHole \in 1..(IF MaxHole < 2 THEN MaxHole + 1 ELSE 3)
  /\ disk = [holes |-> [i \in 1..(nextHole - 1) |-> i], broken |-> FALSE, mtime |-> 0]
  /\ loaded = FALSE /\ goalIds = <<>> /\ loadedMtime = NoTime
  /\ live = FALSE /\ hasRead = FALSE /\ points = <<>> /\ nextId = 0
  /\ readMtime = NoTime

-----------------------------------------------------------------------------
(* The tools.                                                              *)

Called(c, o) ==
  /\ Quiet
  /\ pc[c] = "new" /\ \A d \in Calls : d < c => pc[d] # "new"
  /\ Cardinality(Pending) < MaxOverlap
  /\ o \in Ops

(* The tool is refused: requireFile, validateGoalId, or the last load found*)
(* errors, and so no goals (sessionErrorStateGate).                        *)
Gated(c, o) ==
  /\ Called(c, o) /\ o \in AgdaOps
  /\ ~loaded \/ o \in GoalOps \/ goalIds = <<>>
  /\ Return(c)
  /\ UNCHANGED <<queueVars, sessionVars, agdaVars, diskVars>>

(* A proof tool up to its await: the goal ids are captured, the command is *)
(* queued.                                                                 *)
Act(c, o, g, w) ==
  /\ Called(c, o) /\ o \in AgdaOps
  /\ loaded /\ (o \in GoalOps => g \in ToSet(goalIds))
  /\ call' = [call EXCEPT ![c] = [@ EXCEPT !.op = o, !.goal = g, !.write = w,
                                         !.before = goalIds]]
  /\ Queue!Submit(<<c, "act">>)
  /\ pc' = [pc EXCEPT ![c] = "acting"]
  /\ UNCHANGED <<sessionVars, agdaVars, diskVars>>

(* agda_apply_edit, up to its await.                                       *)
ApplyEdit(c) ==
  /\ Called(c, "text")
  /\ pc' = [pc EXCEPT ![c] = "reading"] /\ call' = [call EXCEPT ![c].op = "text"]
  /\ UNCHANGED <<queueVars, sessionVars, agdaVars, diskVars>>

(* The other tools read the source at once, and write what they made of it *)
(* unless there is nothing to change, or they are asked not to write.      *)
RewriteSource(c, o) ==
  /\ Called(c, o) /\ o \in UxOps
  /\ \/ Return(c)
     \/ /\ pc' = [pc EXCEPT ![c] = "writing"]
        /\ call' = [call EXCEPT ![c].op = o, ![c].source = disk]
  /\ UNCHANGED <<queueVars, sessionVars, agdaVars, diskVars>>

(* agda_load *)
Load(c) ==
  /\ Called(c, "load")
  /\ Reload(c)
  /\ UNCHANGED <<agdaVars, diskVars>>

-----------------------------------------------------------------------------
(* The queue, Agda, and everyone else.                                     *)

(* The body of the next task; ensureProcess replaces a child that died.    *)
Begin ==
  /\ Queue!Begin
  /\ hasRead' = FALSE /\ live' = TRUE
  /\ IF live THEN UNCHANGED <<sessionVars, points, nextId, readMtime>>
             ELSE Invalidate /\ points' = <<>> /\ nextId' = 0 /\ readMtime' = NoTime
  /\ UNCHANGED <<callVars, diskVars>>

AgdaReads(c) ==
  /\ running = <<c, "load">> /\ live /\ ~hasRead
  /\ hasRead' = TRUE /\ readMtime' = disk.mtime
  /\ points' = Numbering(disk) /\ nextId' = Len(Numbering(disk))
  /\ UNCHANGED <<queueVars, callVars, sessionVars, live, diskVars>>

(* The child dies, and its close resets the session.                       *)
ChildDies ==
  /\ ~Ready /\ live
  /\ live' = FALSE
  /\ Invalidate
  /\ UNCHANGED <<queueVars, callVars, hasRead, points, nextId, readMtime, diskVars>>

(* Someone else edits the file, and may break it or mend it.               *)
ExternalEdit ==
  /\ disk.mtime < MaxEdit
  /\ \E hs \in Edited(disk.holes), b \in BOOLEAN :
       /\ disk' = [holes |-> hs, broken |-> b, mtime |-> disk.mtime + 1]
       /\ nextHole' = NextHole(hs)
  /\ UNCHANGED <<queueVars, callVars, sessionVars, agdaVars>>

-----------------------------------------------------------------------------
(* The continuations.                                                      *)

Answered(o) == /\ Quiet
               /\ Queue!Answer
               /\ outcome'[running] = o

Answer(c, es) ==
  /\ running = <<c, "act">> /\ live
  /\ Answered("resolved")
  /\ pc' = [pc EXCEPT ![c] = "answered"]
  /\ call' = [call EXCEPT ![c].edits = es]
  /\ UNCHANGED <<loaded, loadedMtime, live, hasRead, readMtime, disk>>

HasPoint(g) == g \in ToSet(Ids(points))
Replace(g, hs) == [goal |-> g, hole |-> HoleOf(g), new |-> hs]

(* give, refine, refineExact, intro, autoOne: Agda fills the goal.         *)
GiveAnswered(c) ==
  /\ call[c].op \in GiveOps /\ HasPoint(call[c].goal)
  /\ \E k \in 0..1 :
       /\ HasFresh(k)
       /\ Answer(c, {Replace(call[c].goal, Fresh(k))})
       /\ points' = Filled(call[c].goal, Fresh(k))
       /\ nextId' = nextId + k /\ nextHole' = nextHole + k
  /\ SyncGoalIds(points')

(* autoOne without a solution, agda_auto: decodeGiveLikeResponse falls back*)
(* on the text of the display, which the tool takes for a solution.        *)
DisplayText(c) == {Replace(call[c].goal, <<>>)}
AutoFallsBack(c) ==
  /\ call[c].op = "auto" /\ HasPoint(call[c].goal)
  /\ Answer(c, DisplayText(c))
  /\ SyncGoalIds(points)
  /\ UNCHANGED <<points, nextId, nextHole>>

(* caseSplit, agda_case_split: the clauses replace that of the goal.       *)
(* Neither Agda's points nor the session's goals change.                   *)
Clauses(c, k) == {Replace(call[c].goal, Fresh(k))}
SplitAnswered(c) ==
  /\ call[c].op = "split" /\ HasPoint(call[c].goal)
  /\ \E k \in 0..2 :
       /\ HasFresh(k)
       /\ Answer(c, Clauses(c, k))
       /\ nextHole' = nextHole + k
  /\ UNCHANGED <<goalIds, points, nextId>>

(* solveAll, solveOne: rawSolutions, for some of the goals asked for.      *)
RawSolutions(gs) == {Replace(g, <<>>) : g \in gs}
SolveAnswered(c) ==
  /\ call[c].op \in SolveOps
  /\ \E gs \in SUBSET (IF call[c].op = "solveAll" THEN ToSet(Ids(points))
                       ELSE {call[c].goal} \cap ToSet(Ids(points))) :
       Answer(c, RawSolutions(gs))
  /\ SyncGoalIds(points)
  /\ UNCHANGED <<points, nextId, nextHole>>

MetasAnswered(c) ==
  /\ call[c].op = "metas"
  /\ Answer(c, {})
  /\ SyncGoalIds(points)
  /\ UNCHANGED <<points, nextId, nextHole>>

(* Agda rejects the action (throwIfWriteRejected), has no such goal, or    *)
(* says that it cannot parse the command (throwOnFatalProtocolStderr).     *)
ActRejected(c) ==
  /\ running = <<c, "act">> /\ live
  /\ Answered("resolved")
  /\ Return(c)
  /\ UNCHANGED <<sessionVars, agdaVars, diskVars>>

(* The command ends with its child: the session is reset, the tool throws. *)
ActThrows(c) ==
  /\ running = <<c, "act">>
  /\ Answered("rejected")
  /\ Return(c) /\ live' = FALSE /\ Invalidate
  /\ UNCHANGED <<hasRead, points, nextId, readMtime, diskVars>>

(* The callback goes on: shouldWrite, a file, and something to replace.    *)
Applies(c) == call[c].write /\ loaded /\ call[c].edits # {}

(* applyEditAndReload, applyBatchEditAndReload up to the await of the      *)
(* source.                                                                 *)
Continue(c) ==
  /\ pc[c] = "answered"
  /\ \/ /\ ~Applies(c)
        /\ Return(c)
        /\ UNCHANGED <<queueVars, sessionVars>>
     \/ /\ Applies(c) /\ IsFileStale
        /\ Resync(c)
     \/ /\ Applies(c) /\ ~IsFileStale
        /\ pc' = [pc EXCEPT ![c] = "reading"]
        /\ call' = [call EXCEPT ![c].checked =
                      IF loadedMtime = readMtime THEN disk.mtime ELSE NoTime]
        /\ UNCHANGED <<queueVars, sessionVars>>
  /\ UNCHANGED <<agdaVars, diskVars>>

(* loadSourceForEdit *)
ReadSource(c) ==
  /\ Quiet /\ pc[c] = "reading"
  /\ IF call[c].op = "text" \/ Located(c, disk) # {}
       THEN /\ pc' = [pc EXCEPT ![c] = "writing"]
            /\ call' = [call EXCEPT ![c].source = disk]
            /\ UNCHANGED <<queueVars, sessionVars>>
       ELSE Resync(c)
  /\ UNCHANGED <<agdaVars, diskVars>>

(* The file cannot be read or written, is too large, or the text to replace*)
(* is not there.  A text edit just says so.                                *)
EditFails(c) ==
  /\ Quiet /\ pc[c] \in {"reading", "writing"}
  /\ IF call[c].op \in TextOps THEN Return(c) /\ UNCHANGED <<queueVars, sessionVars>>
                               ELSE Resync(c)
  /\ UNCHANGED <<agdaVars, diskVars>>

(* writeFileAtomic; what is written may have errors.                       *)
WriteSource(c) ==
  /\ Quiet /\ pc[c] = "writing" /\ call[c].op # "fixity"
  /\ \E hs \in IF call[c].op \in TextOps THEN Rewritten(call[c].op, call[c].source.holes)
                                       ELSE {Replaced(c, call[c].source)},
        b \in BOOLEAN :
       /\ disk' = [holes |-> hs, broken |-> b, mtime |-> disk.mtime + 1]
       /\ nextHole' = NextHole(hs)
  /\ Reload(c)
  /\ UNCHANGED agdaVars

(* agda_infer_fixity_conflicts leaves the session with the old file.       *)
WriteFixity(c) ==
  /\ Quiet /\ pc[c] = "writing" /\ call[c].op = "fixity"
  /\ \E hs \in Rewritten("fixity", call[c].source.holes), b \in BOOLEAN :
       disk' = [holes |-> hs, broken |-> b, mtime |-> disk.mtime + 1]
  /\ Return(c)
  /\ UNCHANGED <<queueVars, sessionVars, agdaVars, nextHole>>

(* runLoad returns: the mtime is that of the file as it is now.            *)
LoadAnswered(c) ==
  /\ running = <<c, "load">> /\ live /\ hasRead
  /\ Answered("resolved")
  /\ Return(c)
  /\ loaded' = TRUE /\ SyncGoalIds(points) /\ loadedMtime' = disk.mtime
  /\ UNCHANGED <<agdaVars, diskVars>>

(* runLoad throws or has no terminus; reloadAndDiagnose reports it.        *)
LoadFails(c) ==
  /\ running = <<c, "load">>
  /\ \E o \in {"resolved", "rejected"} : Answered(o)
  /\ Return(c)
  /\ \/ live' = FALSE /\ Invalidate
     \/ UNCHANGED <<live, sessionVars>>
  /\ UNCHANGED <<hasRead, points, nextId, readMtime, diskVars>>

-----------------------------------------------------------------------------
Settle(c) == \/ GiveAnswered(c) \/ AutoFallsBack(c) \/ SplitAnswered(c)
             \/ SolveAnswered(c) \/ MetasAnswered(c)
             \/ ActRejected(c) \/ ActThrows(c)
             \/ LoadAnswered(c) \/ LoadFails(c)

Next == \/ \E c \in Calls :
             \/ \E o \in Ops : \/ Gated(c, o) \/ RewriteSource(c, o)
                               \/ \E g \in {0} \cup ToSet(goalIds), w \in WriteFlags :
                                    Act(c, o, g, w)
             \/ ApplyEdit(c) \/ Load(c)
             \/ AgdaReads(c) \/ Settle(c)
             \/ Continue(c) \/ ReadSource(c) \/ EditFails(c)
             \/ WriteSource(c) \/ WriteFixity(c)
        \/ Begin
        \/ ChildDies
        \/ ExternalEdit

Spec == Init /\ [][Next]_vars

-----------------------------------------------------------------------------
(* Properties.                                                             *)

TypeOK ==
  /\ queue \in Seq(Tasks) /\ running \in Tasks \cup {NoTask}
  /\ outcome \in [Tasks -> {"new", "waiting", "resolved", "rejected"}]
  /\ pc \in [Calls -> {"new", "acting", "answered", "reading", "writing", "loading",
                       "returned"}]
  /\ \A c \in Calls : /\ call[c].op \in Ops \cup {"load"} /\ call[c].write \in BOOLEAN
                     /\ call[c].before \in Seq(Nat) /\ call[c].goal \in Nat
                     /\ call[c].checked \in Times \cup {NoTime}
  /\ loaded \in BOOLEAN /\ live \in BOOLEAN /\ hasRead \in BOOLEAN
  /\ IsInjective(goalIds) /\ \A i \in DOMAIN goalIds : goalIds[i] \in 0..(nextId - 1)
  /\ IsInjective(disk.holes) /\ \A i \in DOMAIN disk.holes : disk.holes[i] < nextHole
  /\ disk.mtime \in Times /\ disk.broken \in BOOLEAN
  /\ loadedMtime \in Times \cup {NoTime} /\ readMtime \in Times \cup {NoTime}

(* The write of a proof tool c.                                            *)
Writes(c) == call[c].op \in AgdaOps /\ pc[c] = "writing" /\ disk'.mtime # disk.mtime
             /\ pc'[c] = "loading"

(* "Agda assigns goal IDs in file-order ... so the Nth marker corresponds  *)
(* to the Nth goal ID" (goal-positions.ts:3): every marker an edit replaces*)
(* is that of the goal Agda answered for, if nobody touched the file since *)
(* the staleness check (applyEditAndReload, findGoalPosition).             *)
RightHole ==
  [][\A c \in Calls : Writes(c) /\ call[c].source.mtime = call[c].checked =>
       \A e \in Located(c, call[c].source) : \A i \in DOMAIN call[c].before :
         call[c].before[i] = e.goal => call[c].source.holes[i] = e.hole]_vars

(* Once every call has returned, the session, Agda and the disk agree,     *)
(* unless the file was edited since Agda read it: whatever an edit ran     *)
(* into, the session is not left "in a post-action state while the on-disk *)
(* file is still the pre-action version" (reload-and-diagnose.ts:159).     *)
InSync ==
  Pending = {} /\ loaded /\ readMtime = disk.mtime =>
    /\ goalIds = Ids(points)
    /\ points = Numbering(disk)

(* "Not writing the edit to avoid clobbering external changes"             *)
(* (reload-and-diagnose.ts:120): what a proof tool writes is an edit of    *)
(* what the file contains.                                                 *)
NothingClobbered ==
  [][\A c \in Calls : Writes(c) => call[c].source.mtime = disk.mtime]_vars

=============================================================================
