----------------------------- MODULE SessionLoad -----------------------------
(***************************************************************************)
(* What agda_load and agda_load_no_metas do to a session: the load state   *)
(* they invalidate, the Cmd_load they queue, the Cmd_metas that reconciles *)
(* its goals, the scan for hole markers, and the verdict they return,      *)
(* while other calls do the same, the file is edited under them and the    *)
(* child dies.                                                             *)
(*                                                                         *)
(* The commands go through the queue of module CommandQueue, which module  *)
(* AgdaSession implements; what is said of the child here is what a caller *)
(* sees of it there.  The continuation of a settled command is a promise   *)
(* job and the body of the next task is one: nothing else runs before them *)
(* (Ready, Quiet).                                                         *)
(*                                                                         *)
(* Source: src/agda/session-load-impl.ts, src/agda/session-load-helpers.ts,*)
(* src/agda/goal-operations.ts (metas), src/agda/session.ts.               *)
(***************************************************************************)
EXTENDS Naturals, Sequences, FiniteSets, SessionAdvice

CONSTANTS MaxCall,       \* bound: calls are numbered as they come
          MaxOverlap,    \* bound: calls pending at a time
          MaxEdit,       \* bound: edits of one file
          Files, NoFile,
          Ops,           \* the operations called: "load", "strict"
          Contents       \* what a file may contain, as far as Agda's answer
                         \* depends on it

ASSUME LoadAssumption ==
         /\ MaxCall \in Nat /\ MaxOverlap \in Nat /\ MaxEdit \in Nat
         /\ NoFile \notin Files
         /\ Ops \subseteq {"load", "strict"}
         /\ Contents \subseteq {"clean", "hole", "abstract", "meta", "error", "missing"}

Calls  == 1..MaxCall
Tasks  == Calls \X {"load", "metas", "recovery"}
NoTask == <<0, "none">>
NoTime == MaxEdit + 1         \* lastLoadedMtime === null

Verdicts == {"ok-complete", "ok-with-holes", "type-error", "no-terminus", "proc-died",
             "not-found", "threw"}

VARIABLES
  queue, running, outcome,         \* the command queue
  swept,             \* queued commands a control command has cancelled
  \* the calls
  pc,                \* new, loading, reconcile, metas, recover, recovery, returned
  op, file,          \* its arguments
  goals,             \* its local goals
  invisible,         \* parsed.invisibleGoalCount > 0
  verdict,           \* the classification it returned, or threw
  \* the session
  currentFile, goalIds,
  loadedMtime,       \* lastLoadedMtime
  classification,    \* lastClassification; lastLoadedAt is assigned with it
  \* the child, as its handle and its answers show it
  child,             \* none, live, or dead: exited or killed, not yet closed
  agda,              \* the file last given to Cmd_load, and what was read of it
  hasRead,           \* Agda has read the file of the Cmd_load in flight
  \* the files on disk
  content, mtime

queueVars   == <<queue, running, outcome>>
callVars    == <<pc, op, file, goals, invisible, verdict>>
sessionVars == <<currentFile, goalIds, loadedMtime, classification>>
childVars   == <<child, agda, hasRead>>
diskVars    == <<content, mtime>>
vars == <<queueVars, swept, callVars, sessionVars, childVars, diskVars>>

Queue == INSTANCE CommandQueue

-----------------------------------------------------------------------------
(* Helpers.                                                                *)

(* The interaction points of a file; a hole in an abstract block has none. *)
InteractionPoints(x) == IF x = "hole" THEN {0} ELSE {}

(* countExplicitSourceHoles > 0: the hole markers on disk.                 *)
HasSourceHoles(f) == content[f] \in {"hole", "abstract"}

(* The response kinds that say how a load went: all of those Agda has to   *)
(* say of the file it read, or, when it was cut short, the first of them.  *)
Complete(x)  == IF x \in {"error", "missing"} THEN {"Error"} ELSE {"Points", "Goals"}
Truncated(x) == IF x \in {"error", "missing"} THEN {{}} ELSE {{}, {"Points"}, {"Goals"}}

(* The continuation of a settled command is ready to run.                  *)
Ready == \E c \in Calls : pc[c] \in {"reconcile", "recover"}

(* No promise job is ready.                                                *)
Quiet == ~Ready /\ (running # NoTask \/ queue = <<>>)

(* Mutated form of InvalidatePriorLoadState: currentFile is not reset.     *)
KeepsFile == /\ currentFile' = currentFile
             /\ goalIds' = {}
             /\ loadedMtime' = NoTime
             /\ classification' = "none"

(* resetProcBoundState, resetFileBoundStateIfProcDied, and the start of a  *)
(* load, as far as the load state goes.                                    *)
InvalidatePriorLoadState == /\ currentFile' = NoFile
                            /\ goalIds' = {}
                            /\ loadedMtime' = NoTime
                            /\ classification' = "none"

(* The session after the `finally` of sendCommand: as it was if the child  *)
(* lives, reset if not.                                                    *)
FileNow  == IF child' = "live" THEN currentFile ELSE NoFile
GoalsNow == IF child' = "live" THEN goalIds ELSE {}
ResetIfProcDied == IF child' = "live" THEN UNCHANGED sessionVars
                                      ELSE InvalidatePriorLoadState

Return(c, v) == /\ pc' = [pc EXCEPT ![c] = "returned"]
                /\ verdict' = [verdict EXCEPT ![c] = v]

(* finalizeEarlyReturn *)
FinalizeEarlyReturn(c, v) == Return(c, v) /\ classification' = v

(* classifyLoadResult, of a load that succeeded.                           *)
ClassifyLoadResult(hasHoles) == IF hasHoles THEN "ok-with-holes" ELSE "ok-complete"

Init ==
  /\ Queue!Init /\ swept = {}
  /\ pc = [c \in Calls |-> "new"] /\ op \in [Calls -> Ops]
  /\ file \in [Calls -> Files]
  /\ goals = [c \in Calls |-> {}] /\ invisible = [c \in Calls |-> FALSE]
  /\ verdict = [c \in Calls |-> "none"]
  /\ currentFile = NoFile /\ goalIds = {} /\ loadedMtime = NoTime
  /\ classification = "none"
  /\ child = "none" /\ hasRead = FALSE
  /\ agda = [file |-> NoFile, content |-> "missing", mtime |-> NoTime]
  /\ content \in [Files -> Contents] /\ mtime = [f \in Files |-> 0]

-----------------------------------------------------------------------------
(* The call.                                                               *)

Pending == {c \in Calls : pc[c] \notin {"new", "returned"}}

(* runLoad and runLoadNoMetas up to their first await: the prior load state*)
(* is invalidated, and Cmd_load queued unless there is no such file.       *)
Call(c) ==
  /\ Quiet
  /\ pc[c] = "new" /\ \A d \in Calls : d < c => pc[d] # "new"
  /\ Cardinality(Pending) < MaxOverlap
  /\ currentFile' = NoFile /\ goalIds' = {} /\ loadedMtime' = NoTime
  /\ IF content[file[c]] = "missing"
       THEN /\ FinalizeEarlyReturn(c, "not-found")
            /\ UNCHANGED queueVars
       ELSE /\ Queue!Submit(<<c, "load">>)
            /\ pc' = [pc EXCEPT ![c] = "loading"]
            /\ classification' = "none"
            /\ UNCHANGED verdict
  /\ UNCHANGED <<swept, op, file, goals, invisible, childVars, diskVars>>

-----------------------------------------------------------------------------
(* The queue and the child.                                                *)

(* The body of the next task: ensureProcess spawns a child unless one is   *)
(* live, and resets what was loaded in the last.                           *)
Begin ==
  /\ ~Ready
  /\ Queue!Begin /\ Head(queue) \notin swept
  /\ hasRead' = FALSE
  /\ IF child = "live"
       THEN UNCHANGED <<child, agda, sessionVars>>
       ELSE /\ child' = "live"
            /\ agda' = [file |-> NoFile, content |-> "missing", mtime |-> NoTime]
            /\ InvalidatePriorLoadState
  /\ UNCHANGED <<swept, callVars, diskVars>>

(* Mutated form of Refused: a swept task is never settled.                 *)
LeavesSwept(t) ==
  /\ ~Ready
  /\ Queue!Refuse /\ Head(queue) = t
  /\ t \notin swept /\ child # "live"
  /\ child' = "none" /\ currentFile' = NoFile /\ loadedMtime' = NoTime
  /\ UNCHANGED <<swept, agda, hasRead, diskVars>>

(* The body of the next task throws: swept by a control command, or        *)
(* ensureProcess resets what was loaded and cannot set up a new AGDA_DIR.  *)
Refused(t) ==
  /\ ~Ready
  /\ Queue!Refuse /\ Head(queue) = t
  /\ \/ t \in swept /\ UNCHANGED <<child, currentFile, loadedMtime>>
     \/ /\ t \notin swept /\ child # "live"
        /\ child' = "none" /\ currentFile' = NoFile /\ loadedMtime' = NoTime
  /\ UNCHANGED <<swept, agda, hasRead, diskVars>>

(* Cmd_abort or Cmd_exit: what is queued is swept.  What is in flight is   *)
(* rejected (LoadThrows, MetasThrows).                                     *)
Sweep ==
  /\ Quiet
  /\ swept' = swept \cup {queue[i] : i \in DOMAIN queue}
  /\ UNCHANGED <<queueVars, callVars, sessionVars, childVars, diskVars>>

(* Agda reads the file of the Cmd_load in flight.                          *)
AgdaReads(c) ==
  /\ child = "live" /\ ~hasRead /\ running = <<c, "load">>
  /\ hasRead' = TRUE
  /\ agda' = [file |-> file[c], content |-> content[file[c]], mtime |-> mtime[file[c]]]
  /\ UNCHANGED <<queueVars, swept, callVars, sessionVars, child, diskVars>>

(* The child crashes, or is killed from outside.                           *)
ChildDies ==
  /\ child = "live"
  /\ child' = "dead"
  /\ UNCHANGED <<queueVars, swept, callVars, sessionVars, agda, hasRead, diskVars>>

(* handleSessionProcessClose *)
ChildCloses ==
  /\ Quiet /\ child = "dead"
  /\ child' = "none"
  /\ InvalidatePriorLoadState
  /\ UNCHANGED <<queueVars, swept, callVars, agda, hasRead, diskVars>>

(* Someone edits, creates or deletes a file.                               *)
Edit(f, x) ==
  /\ \A g \in Files : mtime[g] < MaxEdit
  /\ x # content[f]
  /\ content' = [content EXCEPT ![f] = x]
  /\ mtime' = [mtime EXCEPT ![f] = @ + 1]
  /\ UNCHANGED <<queueVars, swept, callVars, sessionVars, childVars>>

-----------------------------------------------------------------------------
(* The continuations.                                                      *)

(* The command in flight is answered; the child may have died under it.    *)
Answered(o) == /\ Quiet
               /\ Queue!Answer
               /\ outcome'[running] = o
               /\ UNCHANGED <<swept, agda, hasRead, diskVars>>

(* The load is rejected (watchdog, control command, a probe it did not     *)
(* survive), or Agda could not read the command: runLoad throws.           *)
LoadThrows(c) ==
  /\ running = <<c, "load">>
  /\ Answered("rejected") \/ Answered("resolved")
  /\ child' \in {child, IF child = "live" THEN "dead" ELSE child}
  /\ ResetIfProcDied
  /\ Return(c, "threw")
  /\ UNCHANGED <<op, file, goals, invisible>>

LoadRefused(c) ==
  /\ Refused(<<c, "load">>)
  /\ IF <<c, "load">> \in swept THEN UNCHANGED <<goalIds, classification>>
                               ELSE goalIds' = {} /\ classification' = "none"
  /\ Return(c, "threw")
  /\ UNCHANGED <<op, file, goals, invisible>>

(* Cmd_load is answered with the kinds ks of responses.                    *)
Responses(c, ks) ==
  /\ running = <<c, "load">>
  /\ Answered("resolved")
  /\ UNCHANGED <<child, op, file>>
  /\ IF child = "none" THEN \/ hasRead /\ ks \in Truncated(agda.content)
                            \/ hasRead /\ ks = Complete(agda.content)
                            \/ ~hasRead /\ ks = {}
                       ELSE hasRead /\ ks = Complete(agda.content)

(* The stream ended before a terminus: parsed.sawLoadTerminus is false.    *)
LoadIncomplete(c) ==
  /\ Responses(c, {})
  /\ FinalizeEarlyReturn(c, "no-terminus")
  /\ currentFile' = FileNow /\ goalIds' = GoalsNow
  /\ loadedMtime' = IF child = "live" THEN loadedMtime ELSE NoTime
  /\ UNCHANGED <<goals, invisible>>

(* What the session records of the load of c: statSync throws if the file  *)
(* has gone, when the first two are already assigned.                      *)
RecordLoad(c, ids) == /\ currentFile' = file[c]
                      /\ goalIds' = ids
                      /\ loadedMtime' = IF content[file[c]] = "missing"
                                          THEN (IF child = "live" THEN loadedMtime ELSE NoTime)
                                          ELSE mtime[file[c]]

ClassificationNow == IF child' = "live" THEN classification ELSE "none"

(* parseLoadResponses: the visible goals, if the stream did not drop them. *)
ParsedGoals(ks) == {ids \in SUBSET InteractionPoints(agda.content) :
                      ks \cap {"Points", "Goals"} = {} => ids = {}}

ParsedInvisible(ks) == agda.content = "meta" /\ "Goals" \in ks

(* runLoad, answered: the state is set before metas are reconciled, which  *)
(* is only done if the load succeeded.                                     *)
LoadAnswered(c) ==
  /\ op[c] = "load"
  /\ \E ks \in (SUBSET {"Points", "Goals", "Error"}) \ {{}} :
       /\ Responses(c, ks)
       /\ \E ids \in ParsedGoals(ks) :
            /\ RecordLoad(c, ids)
            /\ goals' = [goals EXCEPT ![c] = ids]
            /\ invisible' = [invisible EXCEPT ![c] = ParsedInvisible(ks)]
       /\ CASE content[file[c]] = "missing" ->
                 /\ Return(c, "threw") /\ classification' = ClassificationNow
            [] content[file[c]] # "missing" /\ "Error" \in ks ->
                 /\ FinalizeEarlyReturn(c, "type-error")
            [] OTHER ->
                 /\ pc' = [pc EXCEPT ![c] = "reconcile"]
                 /\ classification' = ClassificationNow
                 /\ UNCHANGED verdict

(* runLoadNoMetas, answered: any hole or unsolved meta is a type error.    *)
StrictAnswered(c) ==
  /\ op[c] = "strict"
  /\ \E ks \in (SUBSET {"Points", "Goals", "Error"}) \ {{}} :
       /\ Responses(c, ks)
       /\ \E ids \in ParsedGoals(ks) :
            LET clean    == ids = {} /\ ~ParsedInvisible(ks)
                hasHoles == ~clean \/ HasSourceHoles(file[c])
                success  == "Error" \notin ks /\ ~hasHoles
            IN /\ RecordLoad(c, ids)
               /\ IF content[file[c]] = "missing"
                    THEN Return(c, "threw") /\ classification' = ClassificationNow
                    ELSE FinalizeEarlyReturn(c, IF success THEN "ok-complete"
                                                           ELSE "type-error")
  /\ UNCHANGED <<goals, invisible>>

(* session.goal.metas(): queued by the continuation.                       *)
Reconcile(c) ==
  /\ \/ /\ pc[c] = "reconcile" /\ Queue!Submit(<<c, "metas">>)
        /\ pc' = [pc EXCEPT ![c] = "metas"]
     \/ /\ pc[c] = "recover" /\ Queue!Submit(<<c, "recovery">>)
        /\ pc' = [pc EXCEPT ![c] = "recovery"]
  /\ UNCHANGED <<swept, op, file, goals, invisible, verdict, sessionVars, childVars,
                 diskVars>>

(* Mutated form of ProcDied: the check is dropped.                         *)
NeverDied(c, f) == FALSE

(* reconcileGoalsViaMetas' procDied, currentFile being f.                  *)
ProcDied(c, f) == f # file[c]

(* Mutated form of NeedsHoleScan: the scan is skipped.                     *)
NeverScans(c, gs) == FALSE

(* needsExplicitHoleScan, and the scan.                                    *)
NeedsHoleScan(c, gs) == gs = {} /\ ~invisible[c] /\ HasSourceHoles(file[c])

(* What is left of runLoad once a reconciliation is done: metas returned   *)
(* the goals new, or none if it threw; the session has the file f.         *)
Continue(c, new, f) ==
  LET gs == goals[c] \cup new
  IN IF ProcDied(c, f)
       THEN /\ FinalizeEarlyReturn(c, "proc-died")
            /\ UNCHANGED goals
     ELSE IF pc[c] = "metas" /\ NeedsHoleScan(c, gs)
       THEN /\ pc' = [pc EXCEPT ![c] = "recover"]
            /\ goals' = [goals EXCEPT ![c] = gs]
            /\ classification' = ClassificationNow
            /\ UNCHANGED verdict
       ELSE /\ FinalizeEarlyReturn(c, ClassifyLoadResult( gs # {} \/ invisible[c]
                                                          \/ pc[c] = "recovery"))
            /\ goals' = [goals EXCEPT ![c] = gs]

(* session.goalIds = goalIds, at the end of runLoad; ids otherwise.        *)
GoalIdsAfter(c, ids) ==
  goalIds' = IF verdict'[c] \in {"ok-complete", "ok-with-holes"} THEN goals'[c] ELSE ids

(* metas is answered.  Agda answers for the file it has; with no goal state*)
(* in the answer, metas falls back on the session's goals.                 *)
MetasAnswered(c) ==
  /\ running \in {<<c, "metas">>, <<c, "recovery">>}
  /\ Answered("resolved")
  /\ UNCHANGED <<child, op, file, invisible>>
  /\ \E evidence \in BOOLEAN :
       LET ids == IF evidence THEN InteractionPoints(agda.content) ELSE GoalsNow
       IN /\ evidence => agda.file = file[c]
          /\ (child = "live" /\ agda.file = file[c]) => evidence
          /\ Continue(c, ids, FileNow)
          /\ GoalIdsAfter(c, ids)
  /\ currentFile' = FileNow
  /\ loadedMtime' = IF child = "live" THEN loadedMtime ELSE NoTime

(* metas throws: the error is logged and the goals stay as they are.       *)
MetasThrows(c) ==
  /\ running \in {<<c, "metas">>, <<c, "recovery">>}
  /\ Answered("rejected") \/ Answered("resolved")
  /\ child' \in {child, IF child = "live" THEN "dead" ELSE child}
  /\ Continue(c, {}, FileNow)
  /\ GoalIdsAfter(c, GoalsNow)
  /\ currentFile' = FileNow
  /\ loadedMtime' = IF child' = "live" THEN loadedMtime ELSE NoTime
  /\ UNCHANGED <<op, file, invisible>>

MetasRefused(c) ==
  /\ \E step \in {"metas", "recovery"} :
       /\ Refused(<<c, step>>)
       /\ Continue(c, {}, currentFile')
       /\ GoalIdsAfter(c, IF <<c, step>> \in swept THEN goalIds ELSE {})
  /\ UNCHANGED <<op, file, invisible>>

-----------------------------------------------------------------------------
Settle == \E c \in Calls : \/ LoadThrows(c) \/ LoadRefused(c) \/ LoadIncomplete(c)
                           \/ LoadAnswered(c) \/ StrictAnswered(c)
                           \/ MetasAnswered(c) \/ MetasThrows(c) \/ MetasRefused(c)

Next == \/ \E c \in Calls : Call(c) \/ Reconcile(c) \/ AgdaReads(c)
        \/ Begin
        \/ Settle
        \/ Sweep
        \/ ChildDies
        \/ ChildCloses
        \/ \E f \in Files, x \in Contents : Edit(f, x)

(* Promise jobs run, and the watchdog ends a command if nothing else does. *)
Spec == Init /\ [][Next]_vars /\ WF_vars(Begin \/ Settle)
             /\ WF_vars(\E c \in Calls : Reconcile(c))

-----------------------------------------------------------------------------
(* Properties.                                                             *)

TypeOK ==
  /\ queue \in Seq(Tasks) /\ running \in Tasks \cup {NoTask} /\ swept \subseteq Tasks
  /\ outcome \in [Tasks -> {"new", "waiting", "resolved", "rejected"}]
  /\ pc \in [Calls -> {"new", "loading", "reconcile", "metas", "recover", "recovery",
                       "returned"}]
  /\ op \in [Calls -> Ops] /\ file \in [Calls -> Files]
  /\ goals \in [Calls -> SUBSET {0}] /\ invisible \in [Calls -> BOOLEAN]
  /\ verdict \in [Calls -> Verdicts \cup {"none"}]
  /\ currentFile \in Files \cup {NoFile} /\ goalIds \subseteq {0}
  /\ loadedMtime \in 0..NoTime /\ classification \in Verdicts \cup {"none"}
  /\ child \in {"none", "live", "dead"} /\ hasRead \in BOOLEAN
  /\ agda \in [file : Files \cup {NoFile}, content : Contents \cup {"missing"},
               mtime : 0..NoTime]
  /\ content \in [Files -> Contents] /\ mtime \in [Files -> 0..MaxEdit]

(* A step in which the call c returns the classification v.                *)
Returns(c, v) == pc[c] # "returned" /\ pc'[c] = "returned" /\ verdict'[c] = v

EditedSinceRead(f) == agda.mtime # mtime[f]

(* Loads one at a time.  A load is classified complete only if Agda found  *)
(* no goal, no unsolved meta and no error in the file, and the source has  *)
(* no hole Agda did not report: neither dropped interaction points, nor an *)
(* abstract block, nor a stream cut short, nor a metas query that failed   *)
(* lets another verdict through (runLoad; the file as Agda read it).       *)
CompleteIsComplete ==
  [][\A c \in Calls : Returns(c, "ok-complete") /\ op[c] = "load"
        => agda.content = "clean" \/ EditedSinceRead(file[c])]_vars

(* Loads one at a time.  The file the session takes for loaded is the one  *)
(* the live child was last given: a load that throws, a child that was     *)
(* replaced or an abort leaves no other (invalidatePriorLoadState,         *)
(* resetFileBoundStateIfProcDied, ensureProcess).                          *)
CurrentFileIsLoaded == currentFile # NoFile /\ child = "live" => agda.file = currentFile

(* Loads one at a time.  Once a load has returned, the goals the session   *)
(* offers are interaction points of what Agda has loaded, and a session    *)
(* that calls its file complete hides no goal that Agda has in it: the     *)
(* reconciled goals (mergeGoals), the goals metas synchronises on the way  *)
(* and the classification tell the same story.                             *)
GoalsAreAgdas ==
  Pending = {} /\ currentFile # NoFile /\ child = "live" =>
    /\ goalIds \subseteq InteractionPoints(agda.content)
    /\ classification = "ok-complete" => \/ InteractionPoints(agda.content) = {}
                                         \/ EditedSinceRead(currentFile)

(* isFileStale *)
IsFileStale == /\ currentFile # NoFile
               /\ \/ content[currentFile] = "missing"
                  \/ loadedMtime # NoTime /\ loadedMtime # mtime[currentFile]

(* The state as the tools see it; lastInvisibleGoalCount may be anything.  *)
Seen(some) == [busy |-> running # NoTask, live |-> child = "live",
               loaded |-> currentFile # NoFile, stale |-> IsFileStale, goalIds |-> goalIds,
               invisible |-> some, classification |-> classification]

(* Whenever a tool call is handled, also while loads overlap, are          *)
(* reconciled or fail, every tool the session advises passes its own gates:*)
(* no advice sends a caller to a tool that refuses it                      *)
(* (deriveSuggestedActions, deriveToolRecommendations, validateGoalId,     *)
(* sessionErrorStateGate).                                                 *)
AdviceIsAdmitted ==
  Quiet => \A some \in BOOLEAN : \A tool \in Advised(Seen(some)) : Admits(Seen(some), tool)

(* Every call returns, whatever overlaps it, fails or dies.                *)
EveryCallReturns == \A c \in Calls : (pc[c] # "new") ~> (pc[c] = "returned")

(* "Cmd_metas killed the proc (session state cleared)"                     *)
(* (session-load-helpers.ts:109): a load that reports its child dead       *)
(* leaves no file loaded.                                                  *)
DeathIsReportedOfTheDead ==
  [][\A c \in Calls : Returns(c, "proc-died") => currentFile' = NoFile]_vars

(* "an in-flight load has no interaction state to point at yet"            *)
(* (session-load-helpers.ts:90): no file is the current one while Agda     *)
(* works on a Cmd_load.                                                    *)
LoadHasNoFile == running # NoTask /\ running[2] = "load" => currentFile = NoFile

(* "Check if the loaded file has been modified on disk since last load"    *)
(* (session.ts:189): it has been when Agda read another version of it.     *)
StaleIsSeen ==
  currentFile # NoFile /\ agda.file = currentFile /\ EditedSinceRead(currentFile)
    => IsFileStale

(* "Fail loudly rather than report a fabricated strict success"            *)
(* (session-load-impl.ts:214): a strict load succeeds only if Agda found   *)
(* nothing wrong.                                                          *)
StrictSuccessIsReal ==
  [][\A c \in Calls : Returns(c, "ok-complete") /\ op[c] = "strict"
        => agda.content = "clean" \/ EditedSinceRead(file[c])]_vars

=============================================================================
