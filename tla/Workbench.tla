------------------------------ MODULE Workbench ------------------------------
(***************************************************************************)
(* Tool calls on one server, as far as they share what is neither the child*)
(* nor its queue: the cached project configuration, the file that is       *)
(* loaded, the buffer of recorded actions.                                 *)
(* The SDK does not serialise the calls: the tools that load one file or   *)
(* sweep all of them, those that answer from the import graph, and         *)
(* agda_capture_session overlap at their awaits, while the configuration   *)
(* file is edited.  How a load goes in detail is module SessionLoad's.     *)
(* AGDA_MCP_CAPTURE is 1.                                                  *)
(*                                                                         *)
(* Source: src/tools/tool-registration.ts, src/tools/impact-tool.ts,       *)
(* src/tools/analysis-tools.ts, src/tools/agent-ux/project-tools.ts,       *)
(* src/tools/register-capture-session.ts, src/agda/session-capture,        *)
(* src/session/register-agda-load.ts and its siblings, src/agda/session.ts.*)
(***************************************************************************)
EXTENDS ImportGraph, ProjectConfig, SequencesExt

CONSTANTS MaxCall,       \* bound: calls are numbered as they come
          MaxEdit,       \* bound: edits of the configuration file
          Capacity,      \* MAX_RECORDED_ACTIONS
          NoFile,
          Trees,         \* the trees the project may have
          Options,       \* what a command-line option may be
          Texts,         \* what .agda-mcp.json may hold
          EnvOptions,    \* AGDA_MCP_DEFAULT_FLAGS, validated
          CallOptions,   \* the commandLineOptions a call may have, validated
          CoarseClock    \* two edits may get the same mtime

ASSUME WorkbenchAssumption ==
         /\ MaxCall \in Nat /\ MaxEdit \in Nat /\ Capacity \in Nat \ {0}
         /\ CoarseClock \in BOOLEAN
         /\ \A t \in Trees : /\ IsFiniteSet(DOMAIN t) /\ DOMAIN t = 1..Cardinality(DOMAIN t)
                            /\ NoFile \notin DOMAIN t
         /\ Texts \subseteq [size : Nat, json : BOOLEAN, entries : Seq(Options \cup {NotOption})]
         /\ EnvOptions \in Seq(Options)
         /\ \A o \in CallOptions : o \in Seq(Options) /\ IsInjective(o)

Calls == 1..MaxCall

VARIABLES
  tree,              \* the project's sources
  config, edits,     \* .agda-mcp.json on disk: [present, text, mtime]
  cache,             \* configCache, the entry of this project
  \* the session
  currentFile,
  \* the recorder
  buffer,
  dropped,           \* droppedCount; truncated is dropped > 0
  \* agda_capture_session
  inFlight,          \* captureInFlight
  draft,             \* the artifact each capture is building
  artifacts,         \* those staged, in order
  archive,           \* their actions, one artifact after the other
  \* the calls
  pc,                \* new, loading, sweeping, asking, source, goal, writing, replying, done
  about,             \* the file a sweep loads, or a status is of
  answer,            \* what the last step dispatched or answered, if it did
  lost               \* history: how many actions were dropped, in all

diskVars     == <<tree, config, edits>>
sessionVars  == <<cache, currentFile>>
recorderVars == <<buffer, dropped, lost>>
captureVars  == <<inFlight, draft, artifacts, archive>>
vars == <<diskVars, sessionVars, recorderVars, captureVars, pc, about, answer>>

NoDraft == [file |-> NoFile, actions |-> <<>>]
Capturing(c) == pc[c] \in {"source", "goal", "writing"}
NoAnswer == [kind |-> "none"]

Init ==
  /\ tree \in Trees
  /\ config \in [present : {TRUE}, text : Texts, mtime : {0}] /\ edits = 0
  /\ cache = NoEntry /\ currentFile = NoFile
  /\ buffer = <<>> /\ dropped = 0 /\ lost = 0
  /\ inFlight = FALSE /\ draft = [c \in Calls |-> NoDraft] /\ artifacts = <<>> /\ archive = <<>>
  /\ pc = [c \in Calls |-> "new"] /\ about = [c \in Calls |-> NoFile] /\ answer = NoAnswer

-----------------------------------------------------------------------------
(* The calls.                                                              *)

Goes(c, step) == pc' = [pc EXCEPT ![c] = step]

Begin(c, step) ==
  /\ pc[c] = "new" /\ \A d \in Calls : d < c => pc[d] # "new"
  /\ Goes(c, step)

(* Nothing is dispatched and nothing answered that a property is about.    *)
Silent == answer' = NoAnswer

(* The path, the profile options or the command-line options are refused.  *)
LoadRefused(c) ==
  /\ Begin(c, "replying")
  /\ UNCHANGED <<diskVars, sessionVars, recorderVars, captureVars, about>>
  /\ Silent

(* session.load up to its first await: the options of the project and of   *)
(* the call, the load state invalidated.                                   *)
Dispatched(options, io) ==
  LET read  == ReadFileLayer(config, cache, io)
      flags == read.layer.flags \o EnvOptions
  IN /\ cache' = read.cache
     /\ answer' = [kind |-> "load", options |-> options, warned |-> read.layer.warned,
                  sent |-> MergeCommandLineOptions(flags, options)]
     /\ currentFile' = NoFile

(* agda_load *)
Load(c, options, io) ==
  /\ Begin(c, "loading") /\ Dispatched(options, io)
  /\ UNCHANGED <<diskVars, recorderVars, captureVars, about>>

(* agda_typecheck, on the same session.                                    *)
Typecheck(c, options, io) ==
  /\ Begin(c, "loading") /\ Dispatched(options, io)
  /\ UNCHANGED <<diskVars, recorderVars, captureVars, about>>

(* agda_reload of the current file: without the options it was loaded with.*)
Reload(c, io) ==
  /\ currentFile # NoFile
  /\ Begin(c, "loading") /\ Dispatched(<<>>, io)
  /\ UNCHANGED <<diskVars, recorderVars, captureVars, about>>

(* session.loadNoMetas: no options at all.                                 *)
LoadNoMetas(c) ==
  /\ Begin(c, "loading")
  /\ currentFile' = NoFile
  /\ UNCHANGED <<diskVars, cache, recorderVars, captureVars, about>>
  /\ Silent

(* The load is over, and its file is the current one unless it failed.     *)
Loaded(c) ==
  /\ pc[c] = "loading" /\ Goes(c, "replying")
  /\ currentFile' \in {currentFile} \cup DOMAIN tree
  /\ UNCHANGED <<diskVars, cache, recorderVars, captureVars, about>>
  /\ Silent

-----------------------------------------------------------------------------
(* agda_bulk_status and agda_project_progress: loadNoMetas of every file of*)
(* the walk, whatever becomes of it; one after the other, or all queued.   *)

InWalk(step, f) == step \in {"sweeping", "sweeping all"} /\ f + 1 \in DOMAIN tree

BulkBegins(c, step) ==
  /\ Begin(c, step)
  /\ about' = [about EXCEPT ![c] = 1]
  /\ currentFile' = NoFile
  /\ UNCHANGED <<diskVars, cache, recorderVars, captureVars>>
  /\ Silent

(* A load of the sweep is over, and the next one begins.  Only when all of *)
(* them were queued at the start may the file stay the current one.        *)
BulkLoaded(c) ==
  /\ InWalk(pc[c], about[c])
  /\ about' = [about EXCEPT ![c] = @ + 1]
  /\ currentFile' \in IF pc[c] = "sweeping" THEN {NoFile} ELSE {currentFile, about[c]}
  /\ UNCHANGED <<diskVars, cache, recorderVars, captureVars, pc>>
  /\ Silent

(* The last load is over, and the files that failed are put down to one of *)
(* them each.                                                              *)
BulkAnswers(c, failed) ==
  /\ pc[c] \in {"sweeping", "sweeping all"} /\ ~InWalk(pc[c], about[c]) /\ Goes(c, "replying")
  /\ about' = [about EXCEPT ![c] = NoFile]
  /\ currentFile' \in {currentFile, about[c]}
  /\ answer' = [kind |-> "bulk", failed |-> failed]
  /\ UNCHANGED <<diskVars, cache, recorderVars, captureVars>>

-----------------------------------------------------------------------------
(* The tools that answer from the tree, in one go.                         *)

(* agda_impact answers ComputeImpact(tree, f).                             *)
Impact(c, f) ==
  /\ Begin(c, "replying")
  /\ answer' = IF f \in Modules(tree) THEN [kind |-> "impact", of |-> f] ELSE NoAnswer
  /\ UNCHANGED <<diskVars, sessionVars, recorderVars, captureVars, about>>

(* agda_postulate_closure scans PostulateClosure(tree, f).                 *)
Postulates(c, f) ==
  /\ Begin(c, "replying")
  /\ answer' = IF f \in Modules(tree) THEN [kind |-> "postulates", of |-> f] ELSE NoAnswer
  /\ UNCHANGED <<diskVars, sessionVars, recorderVars, captureVars, about>>

-----------------------------------------------------------------------------
(* agda_proof_status reads the name of the file, then asks Agda for the    *)
(* goals and the constraints.                                              *)
StatusBegins(c) ==
  /\ Begin(c, IF currentFile = NoFile THEN "replying" ELSE "asking")
  /\ about' = [about EXCEPT ![c] = currentFile]
  /\ UNCHANGED <<diskVars, sessionVars, recorderVars, captureVars>>
  /\ Silent

StatusAnswers(c) ==
  /\ pc[c] = "asking" /\ Goes(c, "replying")
  /\ about' = [about EXCEPT ![c] = NoFile]
  /\ answer' = IF currentFile = NoFile THEN NoAnswer
               ELSE [kind |-> "status", file |-> about[c], goalsOf |-> currentFile]
  /\ UNCHANGED <<diskVars, sessionVars, recorderVars, captureVars>>

-----------------------------------------------------------------------------
(* recordAction: past the capacity, the newest action is dropped.          *)
Appended(c) == IF Len(buffer) >= Capacity THEN buffer ELSE Append(buffer, c)

(* timedCallback, once the callback has returned: the action is recorded;  *)
(* the call is over, and what it was about is forgotten.                   *)
RecordAction(c) ==
  /\ pc[c] = "replying" /\ Goes(c, "done")
  /\ buffer' = Appended(c)
  /\ LET d == IF Len(buffer) >= Capacity THEN 1 ELSE 0
     IN dropped' = dropped + d /\ lost' = lost + d
  /\ UNCHANGED <<diskVars, sessionVars, captureVars, about>>
  /\ Silent

-----------------------------------------------------------------------------
(* agda_capture_session.                                                   *)

MayCapture == ~inFlight

CaptureBusy(c) ==
  /\ ~MayCapture
  /\ Begin(c, "replying")
  /\ UNCHANGED <<diskVars, sessionVars, recorderVars, captureVars, about>>
  /\ Silent

BuildReplayManifest == [file |-> currentFile,
                        closure |-> InlineFirstPartySources(tree, currentFile),
                        goalOf |-> NoFile, actions |-> <<>>, told |-> 0]

(* buildReplayManifest, drainRecordedActions, and buildOracleSubstrate up  *)
(* to its first await.                                                     *)
CaptureBegins(c) ==
  /\ MayCapture
  /\ Begin(c, IF currentFile = NoFile THEN "writing" ELSE "source")
  /\ inFlight' = TRUE
  /\ draft' = [draft EXCEPT ![c] = [BuildReplayManifest EXCEPT !.actions = buffer, !.told = dropped]]
  /\ UNCHANGED <<diskVars, sessionVars, recorderVars, artifacts, archive, about>>
  /\ Silent

(* The source is read: Agda is asked for the type of the session's first   *)
(* goal, if it has one.                                                    *)
SourceRead(c) ==
  /\ pc[c] = "source"
  /\ \/ /\ currentFile # NoFile
        /\ draft' = [draft EXCEPT ![c].goalOf = currentFile]
        /\ Goes(c, "goal")
     \/ Goes(c, "writing") /\ UNCHANGED draft
  /\ UNCHANGED <<diskVars, sessionVars, recorderVars, inFlight, artifacts, archive, about>>
  /\ Silent

GoalTyped(c) ==
  /\ pc[c] = "goal" /\ Goes(c, "writing")
  /\ draft' \in {draft, [draft EXCEPT ![c].goalOf = NoFile]}
  /\ UNCHANGED <<diskVars, sessionVars, recorderVars, inFlight, artifacts, archive, about>>
  /\ Silent

(* Mutated form of Rest: the buffer is emptied.                            *)
RestOfNone(n) == <<>>

(* What commitDrainedActions leaves of the buffer.                         *)
Rest(n) == SubSeq(buffer, n + 1, Len(buffer))

(* The artifact is staged, the drained actions committed.                  *)
CaptureStaged(c) ==
  /\ pc[c] = "writing" /\ Goes(c, "replying")
  /\ artifacts' = Append(artifacts, [file |-> draft[c].file, goalOf |-> draft[c].goalOf,
                                      told |-> draft[c].told])
  /\ archive' = archive \o draft[c].actions
  /\ buffer' = Rest(Len(draft[c].actions))
  /\ dropped' = IF buffer' = <<>> THEN 0 ELSE dropped
  /\ inFlight' = FALSE /\ draft' = [draft EXCEPT ![c] = NoDraft]
  /\ UNCHANGED <<diskVars, sessionVars, lost, about>>
  /\ Silent

(* Anything throws before the artifact is staged: what was drained stays.  *)
CaptureFails(c) ==
  /\ Capturing(c) /\ Goes(c, "replying")
  /\ inFlight' = FALSE /\ draft' = [draft EXCEPT ![c] = NoDraft]
  /\ UNCHANGED <<diskVars, sessionVars, recorderVars, artifacts, archive, about>>
  /\ Silent

-----------------------------------------------------------------------------
(* Someone writes or deletes .agda-mcp.json.                               *)

WriteConfig(text) ==
  /\ edits < MaxEdit /\ edits' = edits + 1
  /\ \E m \in {edits + 1} \cup (IF CoarseClock THEN {config.mtime} ELSE {}) :
       config' = [present |-> TRUE, text |-> text, mtime |-> m]
  /\ UNCHANGED <<tree, sessionVars, recorderVars, captureVars, pc, about>>
  /\ Silent

DeleteConfig ==
  /\ edits < MaxEdit /\ edits' = edits + 1 /\ config.present
  /\ config' = [config EXCEPT !.present = FALSE]
  /\ UNCHANGED <<tree, sessionVars, recorderVars, captureVars, pc, about>>
  /\ Silent

Next ==
  \/ \E c \in Calls :
       \/ \E options \in CallOptions, io \in {"stat fails", "read fails", "ok"} :
            Load(c, options, io) \/ Typecheck(c, options, io)
       \/ \E io \in {"stat fails", "read fails", "ok"} : Reload(c, io)
       \/ LoadRefused(c) \/ LoadNoMetas(c) \/ Loaded(c)
       \/ \E step \in {"sweeping", "sweeping all"} : BulkBegins(c, step)
       \/ BulkLoaded(c)
       \/ \E failed \in SUBSET DOMAIN tree : BulkAnswers(c, failed)
       \/ \E f \in DOMAIN tree : Impact(c, f) \/ Postulates(c, f)
       \/ StatusBegins(c) \/ StatusAnswers(c)
       \/ RecordAction(c)
       \/ CaptureBusy(c) \/ CaptureBegins(c)
       \/ SourceRead(c) \/ GoalTyped(c) \/ CaptureStaged(c) \/ CaptureFails(c)
  \/ \E text \in Texts : WriteConfig(text)
  \/ DeleteConfig

Spec == Init /\ [][Next]_vars

-----------------------------------------------------------------------------
(* Properties.                                                             *)

Log == INSTANCE ActionLog WITH Actions <- Calls, log <- archive \o buffer,
                               archived <- Len(archive)

(* The recorder implements ActionLog: an action recorded while a capture   *)
(* awaits its substrate or its write survives the commit, a capture that   *)
(* fails gives back what it drained, and no action is in two artifacts     *)
(* (recordAction, commitDrainedActions, captureInFlight).                  *)
EveryActionIsKept == Log!Spec

(* The options that .agda-mcp.json holds.                                  *)
OptionsOnDisk == IF config.present THEN ToSet(ParseConfigFile(config.text).flags) ELSE {}

(* A load is dispatched with the options that .agda-mcp.json holds at that *)
(* moment, those of the environment and those of the call, the last of     *)
(* these last, or its reply carries a warning: neither a file that was     *)
(* edited, deleted and written again, nor a failure to read it, lets the   *)
(* cache pass another version off as the file's (readFileLayer).           *)
OptionsAreCurrent ==
  answer.kind = "load" =>
    /\ ToSet(answer.sent) = OptionsOnDisk \cup ToSet(EnvOptions) \cup ToSet(answer.options)
         \/ answer.warned
    /\ IsSuffix(answer.options, answer.sent)

(* What a capture carries or skips, and what agda_postulate_closure scans, *)
(* is the file and everything this needs; what agda_impact answers is what *)
(* needs the file and what the file needs; and agda_bulk_status puts a     *)
(* failing file down to itself only when nothing it needs fails: also where*)
(* imports form a cycle, a name is declared twice or by no file, or a file *)
(* cannot be read.                                                         *)
ClosureIsWhole ==
  LET needs == Needs(tree)
  IN /\ answer.kind = "impact" =>
          LET impact == ComputeImpact(tree, answer.of)
          IN /\ impact.transitiveDependencies = needs[answer.of] \ {answer.of}
             /\ impact.transitiveDependents =
                  {g \in Modules(tree) \ {answer.of} : answer.of \in needs[g]}
     /\ answer.kind = "postulates" => PostulateClosure(tree, answer.of) = needs[answer.of]
     /\ answer.kind = "bulk" =>
          \A f \in answer.failed \cap Modules(tree) :
            RootCause(tree, answer.failed, {}, f) = f <=> needs[f] \cap answer.failed = {f}
     /\ \A c \in Calls : draft[c].file \in Modules(tree) =>
          draft[c].closure.sources \cup draft[c].closure.skipped = needs[draft[c].file]

(* "a window carried forward by a concurrent action must not lose its own  *)
(* truncation signal" (recorded-transport.ts:108): every action that was   *)
(* dropped is told of by an artifact, or still counted.                    *)
DropsAreTold ==
  FoldLeft(LAMBDA n, a : n + a.told, 0, artifacts) + dropped >= lost

(* "Snapshot the current session" (register-capture-session.ts:93): the    *)
(* goal type of an artifact is of the file whose sources it carries; "a    *)
(* complete proof state snapshot" (analysis-tools.ts:28): the goals of a   *)
(* status are of the file it names.                                        *)
SnapshotIsOfOneFile ==
  /\ \A i \in DOMAIN artifacts : artifacts[i].goalOf \in {NoFile, artifacts[i].file}
  /\ answer.kind = "status" => answer.goalsOf = answer.file
=============================================================================
