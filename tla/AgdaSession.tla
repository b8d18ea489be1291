----------------------------- MODULE AgdaSession -----------------------------
(***************************************************************************)
(* An Agda session: the promise queue that serialises the commands of      *)
(* concurrent tool calls onto one child process, the version probe that    *)
(* precedes the first of them, the control commands that cut in, and the   *)
(* life of the child (spawn, watchdog kill, crash, replacement, teardown). *)
(*                                                                         *)
(* The transport is used through its contract: a command in flight settles *)
(* once, by its responses, by its watchdog, by an error or by an interrupt *)
(* (module AgdaTransport shows how).  One action is one callback of the    *)
(* event loop, or one queue task body up to its first await; task bodies   *)
(* are promise jobs, so no callback runs while one is ready (Quiet).       *)
(*                                                                         *)
(* Source: src/agda/session-command-dispatch.ts,                           *)
(* src/agda/session-process-lifecycle.ts, src/agda/session.ts,             *)
(* src/agda/agda-version-detection.ts, src/agda/agda-process-spawn.ts.     *)
(***************************************************************************)
EXTENDS Naturals, Sequences, FiniteSets

CONSTANTS MaxTask,       \* bound: commands are numbered in the order of submission
          MaxProc,       \* bound: children are numbered in the order of spawning
          Files,         \* the files that are loaded
          NoFile,
          MaxAttempts    \* VERSION_DETECTION_MAX_ATTEMPTS

ASSUME SessionAssumption ==
         /\ MaxTask \in Nat
         /\ MaxProc \in Nat
         /\ MaxAttempts \in Nat
         /\ NoFile \notin Files

Tasks  == 1..MaxTask
Procs  == 1..MaxProc
NoTask == 0
NoProc == 0

LoadKind     == "load"        \* Cmd_load: the envelope names the file to load
QueryKind    == "query"       \* bound to the loaded file by its envelope
VersionKind  == "version"     \* Cmd_show_version, asked for by the user
RegularKinds == {LoadKind, QueryKind, VersionKind}
ControlKinds == {"abort", "exit"}
TaskKinds    == RegularKinds \cup ControlKinds

VARIABLES
  \* the queue
  queue,             \* commandQueue: tasks chained and not started
  running,           \* the task whose body is at an await, or NoTask
  phase,             \* where it is: idle, probing, sending, flushing
  runProc,           \* `proc` in its body
  fileAtStart,       \* `fileAtStart` in its body
  outcome,           \* [Tasks -> new, waiting, resolved, rejected]
  submitted,         \* number of tasks submitted
  kind, serial, envelope, arm,    \* [Tasks -> ...]: captured when submitted
  commandSerial, cancelledThrough,
  \* the session
  proc, destroyed, exiting, registered, currentFile, version, attempts,
  teardown,          \* teardownPromise: none, waiting, resolved
  tearProc,          \* the child armProcExitWaiter waits for
  escalation,        \* the child the escalation timer will terminate, or NoProc
  \* the children, as ChildProcess handles show them
  status,            \* [Procs -> unborn, starting, running, exited, closed]
  killed,            \* [Procs -> we sent SIGTERM]
  attached,          \* [Procs -> the spawn-time listeners are attached]
  nodeExited,        \* process.exit ran
  \* bookkeeping
  childFile          \* [Procs -> the file last loaded in it]

queueVars   == <<queue, running, phase, runProc, fileAtStart, outcome>>
taskVars    == <<submitted, kind, serial, envelope, arm>>
serialVars  == <<commandSerial, cancelledThrough>>
probeVars   == <<version, attempts>>
fileVars    == <<currentFile, childFile>>
childVars   == <<status, killed, attached>>
endVars     == <<destroyed, teardown, tearProc, nodeExited>>
vars == <<queueVars, taskVars, serialVars, probeVars, fileVars, childVars, endVars,
          proc, exiting, registered, escalation>>

-----------------------------------------------------------------------------
(* Helpers.                                                                *)

Regular(t) == kind[t] \in RegularKinds

Running(p) == status[p] \in {"starting", "running"}

(* isProcLive *)
IsProcLive(p) == Running(p) /\ ~killed[p]

(* terminateAgdaProcess *)
Terminate(p) == [killed EXCEPT ![p] = @ \/ Running(p)]

HaveLiveProc == proc # NoProc /\ IsProcLive(proc)

(* Mutated form of RetireChild: the child is detached but not terminated.  *)
DetachOnly == /\ killed' = killed
              /\ attached' = [q \in Procs |-> attached[q] /\ q # proc]

(* detachAndTerminate of session.proc, if there is one.                    *)
RetireChild == /\ killed' = IF proc = NoProc THEN killed ELSE Terminate(proc)
               /\ attached' = [q \in Procs |-> attached[q] /\ q # proc]

(* Mutated form of ReleaseChild: the registration is left behind.          *)
ReleaseKeepsRegistration ==
  /\ proc' = NoProc
  /\ registered' = registered
  /\ currentFile' = NoFile /\ version' = FALSE /\ attempts' = 0 /\ exiting' = FALSE

(* session.proc is dropped, with freeLibraryRegistration and               *)
(* resetProcBoundState.                                                    *)
ReleaseChild ==
  /\ proc' = NoProc
  /\ registered' = FALSE
  /\ currentFile' = NoFile /\ version' = FALSE /\ attempts' = 0 /\ exiting' = FALSE

(* A promise job is ready: the body of the next task.  No callback of the  *)
(* event loop runs before it.                                              *)
Quiet == /\ ~nodeExited
         /\ running # NoTask \/ queue = <<>>

(* ensureProcess, with the process-bound state it resets; p is the result. *)
EnsureProcess(p) ==
  \/ /\ HaveLiveProc /\ p = proc
     /\ UNCHANGED <<proc, childVars, registered, currentFile, exiting>>
  \/ /\ ~HaveLiveProc
     /\ status[p] = "unborn" /\ \A q \in Procs : q < p => status[q] # "unborn"
     /\ proc' = p
     /\ status' = [status EXCEPT ![p] = "starting"]
     /\ killed' = IF proc = NoProc THEN killed ELSE Terminate(proc)
     /\ attached' = [q \in Procs |-> q = p \/ (attached[q] /\ q # proc)]
     /\ registered' = TRUE
     /\ currentFile' = NoFile
     /\ exiting' = FALSE

(* detectedVersion and versionDetectionAttempts after ensureProcess.       *)
VersionNow  == HaveLiveProc /\ version
AttemptsNow == IF HaveLiveProc THEN attempts ELSE 0

(* Mutated form of NeedsProbe: the attempts are not capped.                *)
ProbesForever(t) == /\ ~VersionNow
                    /\ kind[t] # VersionKind

(* preflightVersionDetection's needsDetection, once the child is ensured.  *)
NeedsProbe(t) == /\ ~VersionNow
                 /\ AttemptsNow < MaxAttempts
                 /\ kind[t] # VersionKind

(* Mutated form of Settle: a rejection blocks the chain.                   *)
RejectionBlocks(o) == /\ running' = IF o = "rejected" THEN running ELSE NoTask
                      /\ phase' = "idle"
                      /\ outcome' = [outcome EXCEPT ![running] = o]

(* The running task's promise settles.                                     *)
Settle(o) == /\ running' = NoTask
             /\ phase' = "idle"
             /\ outcome' = [outcome EXCEPT ![running] = o]

(* currentFile after resetFileBoundStateIfProcDied, the child being live   *)
(* or not.                                                                 *)
FileIfLive(live) == IF live THEN currentFile ELSE NoFile

-----------------------------------------------------------------------------
Init ==
  /\ queue = <<>> /\ running = NoTask /\ phase = "idle"
  /\ runProc = NoProc /\ fileAtStart = NoFile
  /\ outcome = [t \in Tasks |-> "new"]
  /\ submitted = 0
  /\ kind = [t \in Tasks |-> QueryKind]
  /\ serial = [t \in Tasks |-> 0]
  /\ envelope = [t \in Tasks |-> NoFile]
  /\ arm = [t \in Tasks |-> FALSE]
  /\ commandSerial = 0 /\ cancelledThrough = 0
  /\ proc = NoProc /\ destroyed = FALSE /\ exiting = FALSE /\ registered = FALSE
  /\ currentFile = NoFile /\ version = FALSE /\ attempts = 0
  /\ teardown = "none" /\ tearProc = NoProc
  /\ escalation = NoProc
  /\ status = [p \in Procs |-> "unborn"]
  /\ killed = [p \in Procs |-> FALSE]
  /\ attached = [p \in Procs |-> FALSE]
  /\ nodeExited = FALSE
  /\ childFile = [p \in Procs |-> NoFile]

-----------------------------------------------------------------------------
(* Calls.                                                                  *)

(* A new task t of kind k, whose envelope names the file f, if it matters  *)
(* which.                                                                  *)
NewTask(t, k, f, a) ==
  /\ submitted < MaxTask /\ t = submitted + 1
  /\ submitted' = t
  /\ kind' = [kind EXCEPT ![t] = k]
  /\ envelope' = [envelope EXCEPT ![t] = f]
  /\ arm' = [arm EXCEPT ![t] = a]
  /\ queue' = Append(queue, t)

(* dispatchSessionCommand.  A load (runLoad) first invalidates what was    *)
(* loaded; a query requires a loaded file and is built for it.             *)
SubmitRegular(t, k, f) ==
  /\ ~nodeExited
  /\ k = QueryKind => currentFile # NoFile /\ f = currentFile
  /\ k = VersionKind => f = NoFile
  /\ k = LoadKind => f # NoFile
  /\ NewTask(t, k, f, FALSE)
  /\ commandSerial' = commandSerial + 1
  /\ serial' = [serial EXCEPT ![t] = commandSerial + 1]
  /\ outcome' = [outcome EXCEPT ![t] = "waiting"]
  /\ currentFile' = IF k = LoadKind THEN NoFile ELSE currentFile
  /\ UNCHANGED <<running, phase, runProc, fileAtStart, cancelledThrough, probeVars,
                 childFile, childVars, endVars, proc, exiting, registered, escalation>>

(* dispatchSessionControlCommand: the command in flight is interrupted     *)
(* (the probe rethrows the interruption; a control command in its flush    *)
(* window resolves), everything queued is swept, and the control command   *)
(* is chained.                                                             *)
SubmitControl(t, k) ==
  LET wasInterrupting == phase # "idle"
  IN /\ ~nodeExited
     /\ NewTask(t, k, NoFile, k = "exit" \/ wasInterrupting)
     /\ cancelledThrough' = commandSerial
     /\ running' = NoTask
     /\ phase' = "idle"
     /\ outcome' = [u \in Tasks |->
                      IF u = t THEN "waiting"
                      ELSE IF u = running
                        THEN IF Regular(u) THEN "rejected" ELSE "resolved"
                      ELSE outcome[u]]
     /\ currentFile' = FileIfLive(running # NoTask /\ Regular(running) => IsProcLive(runProc))
     /\ exiting' = (exiting \/ k = "exit")
     /\ UNCHANGED <<runProc, fileAtStart, serial, commandSerial, probeVars, childFile,
                    childVars, endVars, proc, registered, escalation>>

(* destroySessionProcess.  What is in flight is rejected by the transport; *)
(* a second call returns the first call's promise and changes nothing.     *)
Destroy ==
  /\ ~nodeExited /\ ~destroyed
  /\ destroyed' = TRUE
  /\ tearProc' = proc
  /\ teardown' = IF proc # NoProc /\ Running(proc) THEN "waiting" ELSE "resolved"
  /\ RetireChild
  /\ ReleaseChild
  /\ escalation' = NoProc
  /\ running' = NoTask
  /\ phase' = "idle"
  /\ outcome' = [u \in Tasks |->
                   IF u = running THEN IF Regular(u) THEN "rejected" ELSE "resolved"
                   ELSE outcome[u]]
  /\ UNCHANGED <<queue, runProc, fileAtStart, taskVars, serialVars, childFile, status,
                 nodeExited>>

-----------------------------------------------------------------------------
(* Task bodies.                                                            *)

(* Mutated form of NextTask: it does not wait for its predecessor.         *)
NextTaskUnchained(t) == /\ ~nodeExited
                        /\ queue # <<>>
                        /\ t = Head(queue)
                        /\ queue' = Tail(queue)

(* The next task of the queue; its predecessor has settled.                *)
NextTask(t) == /\ ~nodeExited
               /\ running = NoTask /\ queue # <<>>
               /\ t = Head(queue)
               /\ queue' = Tail(queue)

(* Mutated forms of MayStart: one of the two checks is missing.            *)
MayStartUnswept(t)        == ~destroyed
MayStartAfterDestroy(t)   == Regular(t) => serial[t] > cancelledThrough

(* assertSessionAlive, and the sweep a control command left behind.        *)
MayStart(t) == ~destroyed /\ (Regular(t) => serial[t] > cancelledThrough)

Refuse(t) ==
  /\ NextTask(t) /\ ~MayStart(t)
  /\ outcome' = [outcome EXCEPT ![t] = "rejected"]
  /\ UNCHANGED <<running, phase, runProc, fileAtStart, taskVars, serialVars, probeVars,
                 fileVars, childVars, endVars, proc, exiting, registered, escalation>>

(* ensureProcess throws: AGDA_DIR cannot be set up for the new child.      *)
RegistrationFails(t) ==
  /\ NextTask(t) /\ MayStart(t) /\ ~HaveLiveProc
  /\ outcome' = [outcome EXCEPT ![t] = "rejected"]
  /\ RetireChild
  /\ ReleaseChild
  /\ UNCHANGED <<running, phase, runProc, fileAtStart, taskVars, serialVars, childFile,
                 status, endVars, escalation>>

(* The body of t starts with the child p and goes on to the phase ph.      *)
StartBody(t, p, ph) ==
  /\ NextTask(t) /\ MayStart(t)
  /\ EnsureProcess(p)
  /\ running' = t
  /\ phase' = ph
  /\ runProc' = p
  /\ fileAtStart' = currentFile'
  /\ version' = VersionNow
  /\ UNCHANGED <<outcome, taskVars, serialVars, childFile, endVars>>

StartProbe(t) ==
  /\ Regular(t) /\ NeedsProbe(t)
  /\ \E p \in Procs : StartBody(t, p, "probing")
  /\ attempts' = AttemptsNow + 1
  /\ UNCHANGED escalation

StartSend(t) ==
  /\ Regular(t) /\ ~NeedsProbe(t)
  /\ \E p \in Procs : StartBody(t, p, "sending")
  /\ attempts' = AttemptsNow
  /\ UNCHANGED escalation

StartFlush(t) ==
  /\ ~Regular(t)
  /\ \E p \in Procs : /\ StartBody(t, p, "flushing")
                      /\ escalation' = IF arm[t] THEN p ELSE NoProc
  /\ attempts' = AttemptsNow

-----------------------------------------------------------------------------
(* The command in flight settles.                                          *)

unmovedBySettling == <<queue, runProc, fileAtStart, taskVars, serialVars, proc, exiting,
                       registered, attached, endVars>>

(* assertProcSurvivedPreflight *)
SurvivedPreflight == IsProcLive(runProc) /\ fileAtStart = currentFile

(* The probe is answered, with or without a version the server can read;   *)
(* the user's command is written if the child and the file are still those *)
(* the body started with.                                                  *)
ProbeAnswered ==
  /\ Quiet /\ phase = "probing" /\ status[runProc] # "starting"
  /\ \E v \in BOOLEAN : version' = (version \/ v)
  /\ IF SurvivedPreflight
       THEN /\ phase' = "sending"
            /\ UNCHANGED <<running, outcome, currentFile>>
       ELSE /\ Settle("rejected")
            /\ currentFile' = FileIfLive(IsProcLive(runProc))
  /\ UNCHANGED <<unmovedBySettling, attempts, childFile, status, killed, escalation>>

(* The watchdog gives up on the probe or on the command: the child is      *)
(* terminated.  The probe's error is swallowed, but the command does not   *)
(* survive the preflight.                                                  *)
WatchdogFires ==
  /\ Quiet /\ phase \in {"probing", "sending"}
  /\ killed' = Terminate(runProc)
  /\ Settle("rejected")
  /\ currentFile' = NoFile
  /\ UNCHANGED <<unmovedBySettling, probeVars, childFile, status, escalation>>

(* The command is answered.  A load's caller (runLoad, runLoadNoMetas)     *)
(* then records the file, if the responses held a goal-state terminus:     *)
(* they do unless the child died.  Piggybacked version detection reads a   *)
(* user's Cmd_show_version.                                                *)
SendAnswered ==
  /\ Quiet /\ phase = "sending" /\ status[runProc] # "starting"
  /\ Settle("resolved")
  /\ \E terminus \in BOOLEAN :
       /\ IsProcLive(runProc) => terminus
       /\ IF kind[running] = LoadKind /\ terminus
            THEN /\ currentFile' = envelope[running]
                 /\ childFile' = [childFile EXCEPT ![runProc] = envelope[running]]
            ELSE /\ currentFile' = FileIfLive(IsProcLive(runProc))
                 /\ UNCHANGED childFile
  /\ IF kind[running] = VersionKind /\ ~version /\ attempts < MaxAttempts
       THEN /\ attempts' = attempts + 1
            /\ \E v \in BOOLEAN : version' = v
       ELSE UNCHANGED probeVars
  /\ UNCHANGED <<unmovedBySettling, status, killed, escalation>>

(* The flush window of a control command ends.                             *)
FlushElapses ==
  /\ Quiet /\ phase = "flushing"
  /\ Settle("resolved")
  /\ UNCHANGED <<unmovedBySettling, probeVars, fileVars, status, killed, escalation>>

(* The error event of a child that could not be spawned.                   *)
SpawnFails(p) ==
  /\ Quiet /\ running # NoTask /\ p = runProc
  /\ status[p] = "starting" /\ attached[p]
  /\ status' = [status EXCEPT ![p] = "exited"]
  /\ Settle(IF phase = "flushing" THEN "resolved" ELSE "rejected")
  /\ currentFile' = IF phase = "flushing" THEN currentFile ELSE NoFile
  /\ UNCHANGED <<unmovedBySettling, probeVars, childFile, killed, escalation>>

-----------------------------------------------------------------------------
(* The child and its timers.                                               *)

unmovedByChild == <<queueVars, taskVars, serialVars, childFile, destroyed, tearProc,
                    nodeExited>>

(* The child has run; it may be killed, crash or obey Cmd_exit later.      *)
ProcStarts(p) ==
  /\ ~nodeExited /\ status[p] = "starting"
  /\ status' = [status EXCEPT ![p] = "running"]
  /\ UNCHANGED <<unmovedByChild, probeVars, currentFile, killed, attached, teardown,
                 proc, exiting, registered, escalation>>

ProcExits(p) ==
  /\ Quiet /\ status[p] = "running"
  /\ status' = [status EXCEPT ![p] = "exited"]
  /\ UNCHANGED <<unmovedByChild, probeVars, currentFile, killed, attached, teardown,
                 proc, exiting, registered, escalation>>

(* The SIGKILL of terminateAgdaProcess; its timer dies with Node.          *)
SigkillFires(p) ==
  /\ Quiet /\ killed[p] /\ Running(p)
  /\ status' = [status EXCEPT ![p] = "exited"]
  /\ UNCHANGED <<unmovedByChild, probeVars, currentFile, killed, attached, teardown,
                 proc, exiting, registered, escalation>>

(* handleSessionProcessClose: nothing if the session has another child.    *)
CloseResetsSession(p) == proc \in {NoProc, p}

(* The close event.  The spawn-time listener runs if attached; the waiter  *)
(* of destroy resolves the teardown.                                       *)
ProcCloses(p) ==
  /\ Quiet /\ status[p] = "exited"
  /\ status' = [status EXCEPT ![p] = "closed"]
  /\ teardown' = IF teardown = "waiting" /\ tearProc = p THEN "resolved" ELSE teardown
  /\ attached' = [attached EXCEPT ![p] = FALSE]
  /\ IF attached[p] /\ CloseResetsSession(p)
       THEN ReleaseChild
       ELSE UNCHANGED <<proc, registered, currentFile, probeVars, exiting>>
  /\ escalation' = IF escalation = p THEN NoProc ELSE escalation
  /\ UNCHANGED <<unmovedByChild, killed>>

(* controlEscalationTimer: fires, or is cleared by a control echo.         *)
EscalationFires ==
  /\ Quiet /\ escalation # NoProc /\ phase # "flushing"
  /\ escalation' = NoProc
  /\ killed' = Terminate(escalation)
  /\ UNCHANGED <<unmovedByChild, probeVars, currentFile, status, attached, teardown, proc,
                 exiting, registered>>

ControlEcho ==
  /\ Quiet /\ escalation # NoProc
  /\ escalation' = NoProc
  /\ UNCHANGED <<unmovedByChild, probeVars, currentFile, childVars, teardown, proc,
                 exiting, registered>>

(* The hard timeout of armProcExitWaiter, 1 s after the SIGKILL: the child *)
(* exited, but its close event has not come.                               *)
TeardownTimesOut ==
  /\ Quiet /\ teardown = "waiting" /\ ~Running(tearProc)
  /\ teardown' = "resolved"
  /\ UNCHANGED <<unmovedByChild, probeVars, currentFile, childVars, proc, exiting,
                 registered, escalation>>

(* shutdown in index.ts: process.exit once destroy's promise resolves.     *)
NodeExits ==
  /\ Quiet /\ teardown = "resolved"
  /\ nodeExited' = TRUE
  /\ UNCHANGED <<queueVars, taskVars, serialVars, probeVars, fileVars, childVars,
                 destroyed, teardown, tearProc, proc, exiting, registered, escalation>>

-----------------------------------------------------------------------------
Call == \/ \E t \in Tasks, k \in RegularKinds, f \in Files \cup {NoFile} :
              SubmitRegular(t, k, f)
        \/ \E t \in Tasks, k \in ControlKinds : SubmitControl(t, k)
        \/ Destroy

TaskBody == \E t \in Tasks : \/ Refuse(t) \/ RegistrationFails(t)
                             \/ StartProbe(t) \/ StartSend(t) \/ StartFlush(t)

CommandSettles == \/ ProbeAnswered \/ WatchdogFires \/ SendAnswered \/ FlushElapses
                  \/ \E p \in Procs : SpawnFails(p)

Child == \/ \E p \in Procs : \/ ProcStarts(p) \/ ProcExits(p) \/ SigkillFires(p)
                             \/ ProcCloses(p)
         \/ EscalationFires
         \/ ControlEcho

Next == Call \/ TaskBody \/ CommandSettles \/ Child \/ TeardownTimesOut \/ NodeExits

(* Promise jobs run, the watchdog and the flush window end a command       *)
(* whatever the child does, a SIGTERM is followed by a SIGKILL, and an     *)
(* exited child closes.                                                    *)
Fairness == /\ WF_vars(TaskBody)
            /\ WF_vars(WatchdogFires)
            /\ WF_vars(FlushElapses)
            /\ \A p \in Procs : WF_vars(SigkillFires(p)) /\ WF_vars(ProcCloses(p))
            /\ WF_vars(TeardownTimesOut)

Spec == Init /\ [][Next]_vars /\ Fairness

-----------------------------------------------------------------------------
(* Properties.                                                             *)

TypeOK ==
  /\ queue \in Seq(Tasks) /\ running \in Tasks \cup {NoTask}
  /\ phase \in {"idle", "probing", "sending", "flushing"}
  /\ runProc \in Procs \cup {NoProc} /\ fileAtStart \in Files \cup {NoFile}
  /\ outcome \in [Tasks -> {"new", "waiting", "resolved", "rejected"}]
  /\ submitted \in 0..MaxTask /\ kind \in [Tasks -> TaskKinds]
  /\ serial \in [Tasks -> Nat] /\ envelope \in [Tasks -> Files \cup {NoFile}]
  /\ arm \in [Tasks -> BOOLEAN]
  /\ commandSerial \in Nat /\ cancelledThrough \in Nat
  /\ proc \in Procs \cup {NoProc}
  /\ destroyed \in BOOLEAN /\ exiting \in BOOLEAN /\ registered \in BOOLEAN
  /\ currentFile \in Files \cup {NoFile} /\ version \in BOOLEAN
  /\ attempts \in 0..MaxAttempts
  /\ teardown \in {"none", "waiting", "resolved"} /\ tearProc \in Procs \cup {NoProc}
  /\ escalation \in Procs \cup {NoProc}
  /\ status \in [Procs -> {"unborn", "starting", "running", "exited", "closed"}]
  /\ killed \in [Procs -> BOOLEAN] /\ attached \in [Procs -> BOOLEAN]
  /\ nodeExited \in BOOLEAN
  /\ childFile \in [Procs -> Files \cup {NoFile}]

(* The child the session holds is the only one that lives unterminated, and*)
(* the only one still wired to the shared transport: a replaced or torn    *)
(* down child has been sent SIGTERM and cannot touch the state of its      *)
(* successor (ensureProcess, adoptSpawnedProcess, handleSessionProcessClose*)
(* and destroySessionProcess together).                                    *)
OneChild == \A p \in Procs : IsProcLive(p) \/ attached[p] => p = proc

(* No command submitted before a control command is in flight after it, in *)
(* its probe or written: neither the sweep nor the probe lets one slip past*)
(* (cancelledThrough, ControlCommandInterruption).                         *)
SweptNeverRuns ==
  running # NoTask /\ Regular(running) => serial[running] > cancelledThrough

(* While a command is in flight the session holds the child it was written *)
(* to, or none if that child has closed: nothing replaces or retires it    *)
(* under the command.                                                      *)
CommandKeepsItsChild ==
  running # NoTask => \/ proc = runProc
                      \/ proc = NoProc /\ status[runProc] = "closed"

(* The AGDA_DIR set up for a child exists exactly while the session holds  *)
(* a child: it is neither removed under it nor leaked.                     *)
RegistrationFollowsChild == registered <=> proc # NoProc

(* Nothing starts after destroy(), and the promise of the first destroy()  *)
(* resolves only when the child it tore down has exited.                   *)
TeardownIsFinal ==
  /\ destroyed => proc = NoProc /\ running = NoTask
  /\ teardown = "resolved" /\ tearProc # NoProc => ~Running(tearProc)

(* The session implements the abstract queue: each command answered once,  *)
(* in the order of submission, one at a time, and in the end.              *)
Abstract == INSTANCE CommandQueue WITH
              Tasks <- Tasks, NoTask <- NoTask,
              queue <- queue, running <- running, outcome <- outcome
ImplementsQueue == Abstract!Spec

(* "so a follow-up tool sees a clean 'No file loaded' surface instead of   *)
(* building a stale IOTCM envelope against a dead process"                 *)
(* (session-process-lifecycle.ts:87): no file is loaded when no child is   *)
(* there to have loaded it.                                                *)
LoadedNeedsChild == currentFile # NoFile => proc # NoProc

(* "the caller's pre-built command cannot be safely forwarded" once its    *)
(* child died or currentFile was swapped (session-process-lifecycle.ts:71):*)
(* a query is written only to the child that has its file loaded.          *)
WrittenNow(t) == phase' = "sending" /\ running' = t /\ ~(phase = "sending" /\ running = t)
NoStaleEnvelope ==
  [][\A t \in Tasks : WrittenNow(t) /\ kind[t] = QueryKind
        => childFile[runProc'] = envelope[t]]_vars

(* "a sync exit truncates it and a SIGTERM-ignoring child can survive"     *)
(* (session-process-lifecycle.ts:191): no child survives the shutdown that *)
(* awaits destroy().                                                       *)
NoChildSurvivesShutdown == nodeExited => \A p \in Procs : ~Running(p)

=============================================================================
