---------------------------- MODULE AgdaTransport ----------------------------
(***************************************************************************)
(* The transport of an Agda session: it writes IOTCM commands to the stdin *)
(* of an `agda --interaction-json` child, collects the JSON responses that *)
(* come back on stdout, and decides when a command is over.  Agda tags no  *)
(* response with the command it answers and sends no end marker, so the    *)
(* end is inferred from silence (idle timer), from the goal-state terminus *)
(* of a load, from the child closing, or given up on by a watchdog.        *)
(*                                                                         *)
(* One action is one callback of the Node event loop (timer, stdout chunk, *)
(* close event) together with the promise jobs it releases.                *)
(*                                                                         *)
(* Source: src/session/agda-transport.ts, src/session/goal-terminus.ts,    *)
(* src/session/command-completion.ts, src/agda/agda-process-spawn.ts.      *)
(* The child itself (AgdaXxx actions) is external.                         *)
(***************************************************************************)
EXTENDS Naturals, Sequences, FiniteSets

CONSTANTS MaxCommand,        \* bound: commands are numbered 1..MaxCommand
          MaxProc,           \* bound: children are numbered 1..MaxProc
          Kinds              \* the command kinds the caller uses

ASSUME TransportAssumption ==
         /\ MaxCommand \in Nat \ {0}
         /\ MaxProc \in Nat \ {0}
         /\ Kinds \subseteq {"goal", "load", "abort", "exit"}

Commands  == 1..MaxCommand
Procs     == 1..MaxProc
NoCommand == 0
NoProc    == 0

ControlKinds == {"abort", "exit"}
ControlResponseKinds == {"DoneAborting", "DoneExiting"}
ResponseKinds == {"Info", "Points", "Goals", "Error", "Fatal"} \cup ControlResponseKinds

Responses == [cmd : Commands, kind : ResponseKinds, from : Procs]

(* this.buffer: empty, the first half of one response line, or a splice    *)
(* that will not parse.                                                    *)
EmptyBuffer == [text |-> "empty"]
Junk        == [text |-> "junk"]
Half(r)     == [text |-> "half", of |-> r]

VARIABLES
  \* the AgdaTransport object
  collecting,      \* stdout is being collected
  buffer,          \* the unfinished stdout line
  responseQueue,   \* the responses collected for the command in flight
  idleTimer,       \* idleDoneTimer is armed
  escalation,      \* the child controlEscalationTimer will terminate, or NoProc
  rearm,           \* resetInactivityTimer is set
  trailing,        \* finishes scheduled by onDone with setTimeout(.., 0), in order
  inflight,        \* the command whose promise is pending
  outcome,         \* [Commands -> unsent, pending, resolved, rejected]
  \* the session's handle on its child, and the handles of all children
  proc,            \* session.proc
  destroyed,       \* session.destroyed
  status,          \* [Procs -> unborn, starting, running, exited, closed]
  killed,          \* [Procs -> we sent it SIGTERM (ChildProcess.killed)]
  attached,        \* [Procs -> the spawn-time listeners are attached]
  closeHook,       \* [Procs -> an escalation's once("close") listener is attached]
  \* the child, external
  stdin,           \* [Procs -> commands written and not read]
  busy,            \* [Procs -> the command Agda is working on]
  emitted,         \* [Commands -> the response kinds emitted for it]
  stdout,          \* [Procs -> responses written and not delivered]
  cut,             \* [Procs -> the first half of the first of them was delivered]
  \* bookkeeping
  kind,            \* [Commands -> its kind, or "none" while unsent]
  target,          \* [Commands -> the child it was written to]
  unheeded         \* a response came since the watchdog of the command in
                   \* flight was last re-armed, and did not re-arm it

transportVars == <<collecting, buffer, responseQueue, idleTimer, rearm, trailing>>
promiseVars   == <<inflight, outcome>>
handleVars    == <<proc, destroyed, attached>>
agdaVars      == <<busy, emitted>>
commandVars   == <<kind, target>>
vars == <<transportVars, escalation, promiseVars, handleVars, status, killed,
          closeHook, stdin, stdout, cut, agdaVars, commandVars, unheeded>>

-----------------------------------------------------------------------------
(* Helpers.                                                                *)

Regular(c) == c # NoCommand /\ kind[c] \notin ControlKinds

(* proc.exitCode === null && !proc.signalCode, the test terminateAgdaProcess  *)
(* and the escalation timer make.                                          *)
Running(p) == status[p] \in {"starting", "running"}

(* isProcLive *)
IsProcLive(p) == Running(p) /\ ~killed[p]

(* terminateAgdaProcess: a no-op on a child that has exited.  The SIGKILL  *)
(* that follows SIGTERM is the action SigkillFires.                        *)
Terminate(p) == [killed EXCEPT ![p] = @ \/ Running(p)]

KindsIn(rs) == {rs[i].kind : i \in DOMAIN rs}

(* GoalTerminusTracker.reached *)
TerminusReached(ks) == \/ "Error" \in ks
                       \/ "Fatal" \in ks
                       \/ {"Points", "Goals"} \subseteq ks

(* Mutated form: a load is treated like any other command.                 *)
ResolveOnAnyIdle(c, rs) == rs # <<>>

(* shouldResolveOnIdle, for the command c with the responses rs            *)
ShouldResolveOnIdle(c, rs) == /\ rs # <<>>
                              /\ kind[c] = "load" => TerminusReached(KindsIn(rs))

(* The commands are handed over in the order of their numbers.             *)
NextCommand == Cardinality({c \in Commands : outcome[c] # "unsent"}) + 1

(* Mutated form of EnsureProcess: the replaced child keeps its listeners.  *)
ReplaceWithoutDetach(p) ==
  \/ /\ proc # NoProc
     /\ IsProcLive(proc)
     /\ p = proc
     /\ UNCHANGED <<proc, status, killed, attached>>
  \/ /\ proc # NoProc => ~IsProcLive(proc)
     /\ status[p] = "unborn"
     /\ \A q \in Procs : q < p => status[q] # "unborn"
     /\ proc' = p
     /\ status' = [status EXCEPT ![p] = "starting"]
     /\ killed' = IF proc = NoProc THEN killed ELSE Terminate(proc)
     /\ attached' = [attached EXCEPT ![p] = TRUE]

(* ensureProcess: p is the live child, or a fresh one that replaces a dead *)
(* or killed one, whose listeners are detached first.                      *)
EnsureProcess(p) ==
  \/ /\ proc # NoProc
     /\ IsProcLive(proc)
     /\ p = proc
     /\ UNCHANGED <<proc, status, killed, attached>>
  \/ /\ proc # NoProc => ~IsProcLive(proc)
     /\ status[p] = "unborn"
     /\ \A q \in Procs : q < p => status[q] # "unborn"
     /\ proc' = p
     /\ status' = [status EXCEPT ![p] = "starting"]
     /\ killed' = IF proc = NoProc THEN killed ELSE Terminate(proc)
     /\ attached' = [q \in Procs |-> q = p \/ (attached[q] /\ q # proc)]

(* Mutated form: the half line of an earlier command stays in the buffer.  *)
CollectIntoOldBuffer ==
  /\ buffer' = buffer
  /\ responseQueue' = <<>>
  /\ collecting' = TRUE

(* The fields every command start resets.                                  *)
StartCollecting ==
  /\ buffer' = EmptyBuffer
  /\ responseQueue' = <<>>
  /\ collecting' = TRUE

(* What the collection state becomes when the promise of c is settled by   *)
(* `finish`.  The listeners it removes are c's own: on a second call for   *)
(* the same command there is nothing left to settle, and the shared fields *)
(* are written all the same.                                               *)
Finish(c, o) ==
  /\ collecting' = FALSE
  /\ idleTimer' = FALSE
  /\ rearm' = FALSE
  /\ IF inflight = c
       THEN /\ inflight' = NoCommand
            /\ outcome' = [outcome EXCEPT ![c] = o]
       ELSE UNCHANGED promiseVars

(* emitter.emit("done"): onDone of the regular command in flight, if any,  *)
(* schedules its finish; trailingResponseDelay is 0 for both origins.      *)
EmitDone == trailing' = IF Regular(inflight) THEN Append(trailing, inflight)
                                             ELSE trailing

(* How a pending promise ends when "error" is emitted: sendCommand rejects,*)
(* the fire-and-forget promise resolves.                                   *)
ErrorOutcome(c) == IF Regular(c) THEN "rejected" ELSE "resolved"

(* Mutated form: the promise of the interrupted command is left pending.   *)
RejectNothing == outcome

(* rejectInFlightCommand: the outcomes once "error" was emitted.           *)
RejectInFlightCommand ==
  [d \in Commands |-> IF d = inflight THEN ErrorOutcome(d) ELSE outcome[d]]

-----------------------------------------------------------------------------
Init ==
  /\ collecting = FALSE /\ buffer = EmptyBuffer /\ responseQueue = <<>>
  /\ idleTimer = FALSE /\ escalation = NoProc /\ rearm = FALSE /\ trailing = <<>>
  /\ inflight = NoCommand /\ outcome = [c \in Commands |-> "unsent"]
  /\ proc = NoProc /\ destroyed = FALSE
  /\ status = [p \in Procs |-> "unborn"]
  /\ killed = [p \in Procs |-> FALSE]
  /\ attached = [p \in Procs |-> FALSE]
  /\ closeHook = [p \in Procs |-> FALSE]
  /\ stdin = [p \in Procs |-> <<>>] /\ stdout = [p \in Procs |-> <<>>]
  /\ cut = [p \in Procs |-> FALSE]
  /\ busy = [p \in Procs |-> NoCommand]
  /\ emitted = [c \in Commands |-> {}]
  /\ kind = [c \in Commands |-> "none"]
  /\ target = [c \in Commands |-> NoProc]
  /\ unheeded = FALSE

-----------------------------------------------------------------------------
(* Calls of the session.                                                   *)

(* sendCommand, by a queue task that starts when nothing is in flight.     *)
SendCommand(c, k) ==
  /\ ~destroyed /\ inflight = NoCommand
  /\ c = NextCommand /\ k \notin ControlKinds
  /\ \E p \in Procs :
       /\ EnsureProcess(p)
       /\ stdin' = [stdin EXCEPT ![p] = Append(@, c)]
       /\ target' = [target EXCEPT ![c] = p]
  /\ kind' = [kind EXCEPT ![c] = k]
  /\ inflight' = c
  /\ outcome' = [outcome EXCEPT ![c] = "pending"]
  /\ StartCollecting
  /\ rearm' = TRUE
  /\ unheeded' = FALSE
  /\ UNCHANGED <<idleTimer, escalation, trailing, destroyed, closeHook, stdout,
                 cut, agdaVars>>

(* Cmd_abort / Cmd_exit: rejectInFlightCommand, then, in the promise jobs  *)
(* that follow, sendFireAndForgetCommand.                                  *)
SendFireAndForgetCommand(c, k) ==
  LET wasInterrupting == inflight # NoCommand
      armEscalation   == k = "exit" \/ wasInterrupting
  IN /\ ~destroyed
     /\ c = NextCommand /\ k \in ControlKinds
     /\ \E p \in Procs :
          /\ EnsureProcess(p)
          /\ stdin' = [stdin EXCEPT ![p] = Append(@, c)]
          /\ target' = [target EXCEPT ![c] = p]
          /\ escalation' = IF armEscalation THEN p ELSE NoProc
          /\ closeHook' = [closeHook EXCEPT ![p] = @ \/ armEscalation]
     /\ kind' = [kind EXCEPT ![c] = k]
     /\ inflight' = c
     /\ outcome' = [RejectInFlightCommand EXCEPT ![c] = "pending"]
     /\ StartCollecting
     /\ idleTimer' = (idleTimer /\ ~wasInterrupting)
     /\ rearm' = FALSE
     /\ unheeded' = FALSE
     /\ UNCHANGED <<trailing, destroyed, stdout, cut, agdaVars>>

(* session.destroy: detach and terminate the child, reset the transport,   *)
(* reject what is in flight.                                               *)
Destroy ==
  /\ ~destroyed
  /\ destroyed' = TRUE
  /\ proc' = NoProc
  /\ attached' = [p \in Procs |-> attached[p] /\ p # proc]
  /\ killed' = IF proc = NoProc THEN killed ELSE Terminate(proc)
  /\ escalation' = NoProc
  /\ buffer' = EmptyBuffer
  /\ responseQueue' = <<>>
  /\ collecting' = FALSE /\ idleTimer' = FALSE /\ rearm' = FALSE
  /\ inflight' = NoCommand
  /\ outcome' = RejectInFlightCommand
  /\ UNCHANGED <<trailing, status, closeHook, stdin, stdout, cut, agdaVars,
                 commandVars, unheeded>>

-----------------------------------------------------------------------------
(* Input from the child.                                                   *)

(* recordCollectedResponse: r came in as a complete line.                  *)
RecordCollectedResponse(r) ==
  LET echo     == r.kind \in ControlResponseKinds
      accepted == collecting /\ ~(echo /\ Regular(inflight))
  IN /\ escalation' = IF echo THEN NoProc ELSE escalation
     /\ responseQueue' = IF accepted THEN Append(responseQueue, r) ELSE responseQueue
     /\ idleTimer' = IF accepted THEN ShouldResolveOnIdle(inflight, responseQueue')
                                 ELSE idleTimer
     /\ unheeded' = IF accepted /\ rearm THEN FALSE
                    ELSE unheeded \/ (Regular(inflight) /\ r.cmd = inflight)

(* handleStdout drops a chunk while idle, unless an escalation is armed.   *)
AcceptStdout == collecting \/ escalation # NoProc

(* A chunk that ends in the middle of the next line.                       *)
HandleStdoutPartial(p) ==
  /\ stdout[p] # <<>> /\ ~cut[p] /\ Head(stdout[p]).kind # "Fatal"
  /\ status[p] # "closed"
  /\ cut' = [cut EXCEPT ![p] = TRUE]
  /\ buffer' = IF attached[p] /\ AcceptStdout
                 THEN IF buffer = EmptyBuffer THEN Half(Head(stdout[p])) ELSE Junk
                 ELSE buffer
  /\ UNCHANGED <<collecting, responseQueue, idleTimer, escalation, rearm, trailing,
                 promiseVars, handleVars, status, killed, closeHook, stdin, stdout,
                 agdaVars, commandVars, unheeded>>

(* A chunk that completes the next line: handleStdout and drainBuffer.  The*)
(* line parses if the buffer held exactly its own first half, or nothing   *)
(* when the line comes in one chunk.                                       *)
HandleStdout(p) ==
  LET r      == Head(stdout[p])
      parses == buffer = (IF cut[p] THEN Half(r) ELSE EmptyBuffer)
  IN /\ stdout[p] # <<>> /\ r.kind # "Fatal"
     /\ status[p] # "closed"
     /\ stdout' = [stdout EXCEPT ![p] = Tail(@)]
     /\ cut' = [cut EXCEPT ![p] = FALSE]
     /\ IF attached[p] /\ AcceptStdout
          THEN /\ buffer' = EmptyBuffer
               /\ IF parses THEN RecordCollectedResponse(r)
                  ELSE UNCHANGED <<escalation, responseQueue, idleTimer, unheeded>>
          ELSE /\ UNCHANGED <<buffer, escalation, responseQueue, idleTimer>>
               /\ unheeded' = (unheeded \/ ( attached[p] /\ Regular(inflight)
                                             /\ r.cmd = inflight))
     /\ UNCHANGED <<collecting, rearm, trailing, promiseVars, handleVars, status,
                    killed, closeHook, stdin, agdaVars, commandVars>>

(* handleStderr: Agda could not read a command (a fatal protocol notice).  *)
HandleStderr(p) ==
  LET r == Head(stdout[p])
  IN /\ stdout[p] # <<>> /\ r.kind = "Fatal"
     /\ status[p] # "closed"
     /\ stdout' = [stdout EXCEPT ![p] = Tail(@)]
     /\ IF attached[p] /\ collecting
          THEN RecordCollectedResponse(r)
          ELSE /\ UNCHANGED <<escalation, responseQueue, idleTimer>>
               /\ unheeded' = (unheeded \/ ( attached[p] /\ Regular(inflight)
                                             /\ r.cmd = inflight))
     /\ UNCHANGED <<collecting, buffer, rearm, trailing, promiseVars, handleVars,
                    status, killed, closeHook, stdin, cut, agdaVars, commandVars>>

(* The close event, after the child exited and its pipes drained.  The     *)
(* spawn-time listener (handleProcessClose, then the session's own) runs   *)
(* when still attached; an escalation's once("close") listener always.     *)
HandleProcessClose(p) ==
  /\ status[p] = "exited" /\ stdout[p] = <<>>
  /\ status' = [status EXCEPT ![p] = "closed"]
  /\ attached' = [attached EXCEPT ![p] = FALSE]
  /\ closeHook' = [closeHook EXCEPT ![p] = FALSE]
  /\ escalation' = IF closeHook[p] THEN NoProc ELSE escalation
  /\ IF attached[p]
       THEN /\ collecting' = FALSE
            /\ idleTimer' = FALSE
            /\ EmitDone
            /\ proc' = IF proc = p THEN NoProc ELSE proc
       ELSE UNCHANGED <<collecting, idleTimer, trailing, proc>>
  /\ UNCHANGED <<buffer, responseQueue, rearm, promiseVars, destroyed, killed,
                 stdin, stdout, cut, agdaVars, commandVars, unheeded>>

(* The spawn fails: the error event of a child that never ran, in the loop *)
(* iteration after the spawn, so the command that caused it is in flight.  *)
HandleProcessError(p) ==
  /\ status[p] = "starting" /\ attached[p] /\ inflight # NoCommand
  /\ status' = [status EXCEPT ![p] = "exited"]
  /\ Finish(inflight, ErrorOutcome(inflight))
  /\ UNCHANGED <<buffer, responseQueue, escalation, trailing, handleVars, killed,
                 closeHook, stdin, stdout, cut, agdaVars, commandVars, unheeded>>

-----------------------------------------------------------------------------
(* Timers.  The timers fire in the order of their deadlines: a trailing    *)
(* finish (0 ms) before the flush window and the idle timer (250 ms), these *)
(* before an escalation (5 s), and that before the watchdog (15 s, 120 s)   *)
(* of a command written later.                                             *)

(* bumpIdleCompletionTimer's callback.                                     *)
IdleTimerFires ==
  /\ idleTimer /\ trailing = <<>>
  /\ idleTimer' = FALSE
  /\ IF collecting THEN EmitDone ELSE UNCHANGED trailing
  /\ UNCHANGED <<collecting, buffer, responseQueue, escalation, rearm, promiseVars,
                 handleVars, status, killed, closeHook, stdin, stdout, cut, agdaVars,
                 commandVars, unheeded>>

(* The setTimeout of onDone: finish with what was collected.               *)
TrailingFinish ==
  /\ trailing # <<>>
  /\ trailing' = Tail(trailing)
  /\ Finish(Head(trailing), "resolved")
  /\ UNCHANGED <<buffer, responseQueue, escalation, handleVars, status, killed,
                 closeHook, stdin, stdout, cut, agdaVars, commandVars, unheeded>>

(* onTimeout: the watchdog terminates the child and rejects.               *)
InactivityTimeout ==
  /\ Regular(inflight) /\ ~idleTimer /\ trailing = <<>> /\ escalation = NoProc
  /\ killed' = Terminate(target[inflight])
  /\ buffer' = EmptyBuffer
  /\ Finish(inflight, "rejected")
  /\ UNCHANGED <<responseQueue, escalation, trailing, handleVars, status, closeHook,
                 stdin, stdout, cut, agdaVars, commandVars, unheeded>>

(* settle, when the flush window of a control command ends.                *)
FlushElapses ==
  /\ inflight # NoCommand /\ kind[inflight] \in ControlKinds /\ trailing = <<>>
  /\ collecting' = FALSE
  /\ idleTimer' = FALSE
  /\ inflight' = NoCommand
  /\ outcome' = [outcome EXCEPT ![inflight] = "resolved"]
  /\ UNCHANGED <<buffer, responseQueue, escalation, rearm, trailing, handleVars,
                 status, killed, closeHook, stdin, stdout, cut, agdaVars, commandVars,
                 unheeded>>

(* controlEscalationTimer's callback (5 s).                                *)
EscalationFires ==
  /\ escalation # NoProc
  /\ inflight # NoCommand => kind[inflight] \notin ControlKinds
  /\ escalation' = NoProc
  /\ killed' = Terminate(escalation)
  /\ UNCHANGED <<transportVars, promiseVars, handleVars, status, closeHook, stdin,
                 stdout, cut, agdaVars, commandVars, unheeded>>

(* Mutated form: no SIGKILL follows.                                       *)
SigtermOnly(p) == killed[p] /\ Running(p) /\ UNCHANGED vars

(* The SIGKILL of terminateAgdaProcess, 3 s after a SIGTERM ignored.       *)
SigkillFires(p) ==
  /\ killed[p] /\ Running(p)
  /\ status' = [status EXCEPT ![p] = "exited"]
  /\ UNCHANGED <<transportVars, escalation, promiseVars, handleVars, killed, closeHook,
                 stdin, stdout, cut, agdaVars, commandVars, unheeded>>

-----------------------------------------------------------------------------
(* The child, external: modelled from what the transport expects of it.    *)

Emit(p, c, k) ==
  stdout' = [stdout EXCEPT ![p] = Append(@, [cmd |-> c, kind |-> k, from |-> p])]

bridgeVars == <<transportVars, escalation, promiseVars, handleVars, killed, closeHook,
                cut, commandVars, unheeded>>

AgdaStarts(p) ==
  /\ status[p] = "starting"
  /\ status' = [status EXCEPT ![p] = "running"]
  /\ UNCHANGED <<bridgeVars, stdin, stdout, agdaVars>>

(* Agda reads its next command.  A regular one it starts to work on, or    *)
(* refuses on stderr when it cannot read it; an abort with nothing in      *)
(* progress is not answered; an exit is acknowledged and obeyed.           *)
AgdaReads(p) ==
  LET c == Head(stdin[p])
  IN /\ status[p] = "running" /\ busy[p] = NoCommand /\ stdin[p] # <<>>
     /\ stdin' = [stdin EXCEPT ![p] = Tail(@)]
     /\ \/ /\ Regular(c)
           /\ busy' = [busy EXCEPT ![p] = c]
           /\ UNCHANGED <<stdout, status>>
        \/ /\ Regular(c)
           /\ Emit(p, c, "Fatal")
           /\ UNCHANGED <<busy, status>>
        \/ /\ kind[c] = "abort"
           /\ UNCHANGED <<busy, stdout, status>>
        \/ /\ kind[c] = "exit"
           /\ Emit(p, c, "DoneExiting")
           /\ status' = [status EXCEPT ![p] = "exited"]
           /\ UNCHANGED busy
     /\ UNCHANGED <<bridgeVars, emitted>>

MayEmit(c) ==
  IF kind[c] = "load"
    THEN {k \in {"Info", "Points", "Goals", "Error"} \ emitted[c] :
            k = "Error" => emitted[c] \subseteq {"Info"}}
    ELSE {"Info", "Error"} \ emitted[c]

(* Agda emits a response of the command it works on.  A load is over with  *)
(* its terminus, any other command with whichever response is its last.    *)
AgdaEmits(p) ==
  LET c == busy[p]
  IN /\ status[p] = "running" /\ c # NoCommand
     /\ \E k \in MayEmit(c) :
          /\ Emit(p, c, k)
          /\ emitted' = [emitted EXCEPT ![c] = @ \cup {k}]
          /\ \E done \in BOOLEAN :
               /\ kind[c] = "load" => (done <=> TerminusReached(emitted[c] \cup {k}))
               /\ MayEmit(c) = {k} => done
               /\ busy' = [busy EXCEPT ![p] = IF done THEN NoCommand ELSE c]
     /\ UNCHANGED <<bridgeVars, status, stdin>>

(* Agda notices an abort while it works: it drops the work, and every      *)
(* command read before the abort, and says so.                             *)
AgdaAborts(p) ==
  /\ status[p] = "running" /\ busy[p] # NoCommand
  /\ \E i \in DOMAIN stdin[p] :
       /\ kind[stdin[p][i]] = "abort"
       /\ Emit(p, stdin[p][i], "DoneAborting")
       /\ stdin' = [stdin EXCEPT ![p] = SubSeq(@, i + 1, Len(@))]
  /\ busy' = [busy EXCEPT ![p] = NoCommand]
  /\ UNCHANGED <<bridgeVars, status, emitted>>

(* The child dies: a crash, or a SIGTERM it honours.                       *)
AgdaDies(p) ==
  /\ status[p] = "running"
  /\ status' = [status EXCEPT ![p] = "exited"]
  /\ UNCHANGED <<bridgeVars, stdin, stdout, agdaVars>>

-----------------------------------------------------------------------------
Caller == \/ \E c \in Commands, k \in Kinds : SendCommand(c, k)
          \/ \E c \in Commands, k \in Kinds : SendFireAndForgetCommand(c, k)
          \/ Destroy

Timers == \/ IdleTimerFires
          \/ TrailingFinish
          \/ InactivityTimeout
          \/ FlushElapses
          \/ EscalationFires

Next == \/ Caller
        \/ Timers
        \/ \E p \in Procs :
             \/ SigkillFires(p)
             \/ HandleStdoutPartial(p)
             \/ HandleStdout(p)
             \/ HandleStderr(p)
             \/ HandleProcessClose(p)
             \/ HandleProcessError(p)
             \/ AgdaStarts(p)
             \/ AgdaReads(p)
             \/ AgdaEmits(p)
             \/ AgdaAborts(p)
             \/ AgdaDies(p)

(* The event loop runs its timers and delivers what the pipes hold; nothing*)
(* is assumed of the child, which may be wedged.                           *)
Fairness == /\ WF_vars(IdleTimerFires)
            /\ WF_vars(TrailingFinish)
            /\ WF_vars(InactivityTimeout)
            /\ WF_vars(FlushElapses)
            /\ WF_vars(EscalationFires)
            /\ \A p \in Procs :
                 /\ WF_vars(SigkillFires(p))
                 /\ WF_vars(HandleStdout(p))
                 /\ WF_vars(HandleStderr(p))
                 /\ WF_vars(HandleProcessClose(p))

Spec == Init /\ [][Next]_vars /\ Fairness

-----------------------------------------------------------------------------
(* Properties.                                                             *)

TypeOK ==
  /\ collecting \in BOOLEAN /\ idleTimer \in BOOLEAN /\ rearm \in BOOLEAN
  /\ buffer \in {EmptyBuffer, Junk} \cup {Half(r) : r \in Responses}
  /\ responseQueue \in Seq(Responses)
  /\ escalation \in Procs \cup {NoProc}
  /\ trailing \in Seq(Commands)
  /\ inflight \in Commands \cup {NoCommand}
  /\ outcome \in [Commands -> {"unsent", "pending", "resolved", "rejected"}]
  /\ proc \in Procs \cup {NoProc} /\ destroyed \in BOOLEAN
  /\ status \in [Procs -> {"unborn", "starting", "running", "exited", "closed"}]
  /\ killed \in [Procs -> BOOLEAN] /\ attached \in [Procs -> BOOLEAN]
  /\ closeHook \in [Procs -> BOOLEAN] /\ cut \in [Procs -> BOOLEAN]
  /\ stdin \in [Procs -> Seq(Commands)] /\ stdout \in [Procs -> Seq(Responses)]
  /\ busy \in [Procs -> Commands \cup {NoCommand}]
  /\ emitted \in [Commands -> SUBSET ResponseKinds]
  /\ kind \in [Commands -> Kinds \cup {"none"}]
  /\ target \in [Commands -> Procs \cup {NoProc}]
  /\ unheeded \in BOOLEAN

(* What is collected for a command came from the child the command was     *)
(* written to: a replaced child that is still dying, or a half line it     *)
(* left in the shared buffer, cannot answer for its successor.             *)
OnlyItsOwnChild ==
  inflight # NoCommand =>
    \A i \in DOMAIN responseQueue : responseQueue[i].from = target[inflight]

(* While stdout is collected, the buffer holds nothing but the first half  *)
(* of the line the current child is in the middle of: no line a command    *)
(* waits for is spliced onto a fragment an earlier command left behind.    *)
NoSplice ==
  collecting => \/ buffer = EmptyBuffer
                \/ /\ proc # NoProc
                   /\ cut[proc] /\ stdout[proc] # <<>>
                   /\ buffer = Half(Head(stdout[proc]))

(* A load is answered, rather than failed, only after a goal-state terminus*)
(* reached it or its child is gone: a silent stretch of type-checking never*)
(* ends it (GoalTerminusTracker, shouldResolveOnIdle).                     *)
LoadHeldForTerminus ==
  [][\A c \in Commands :
       (kind[c] = "load" /\ outcome[c] = "pending" /\ outcome'[c] = "resolved")
          => \/ TerminusReached(KindsIn(responseQueue))
             \/ ~Running(target[c])]_vars

(* The transport implements the abstract channel: one command in flight,   *)
(* each settled exactly once, and settled in the end, however the child    *)
(* behaves and however often `finish` runs for it.                         *)
Channel == INSTANCE CommandChannel WITH
             Commands <- Commands, NoCommand <- NoCommand,
             inflight <- inflight, outcome <- outcome
ImplementsChannel == Channel!Spec

(* A child the server sent SIGTERM to is gone in the end.                  *)
KilledIsReaped ==
  \A p \in Procs : killed[p] ~> status[p] \in {"exited", "closed"}

(* The watchdog "fires only after `timeoutMs` of silence ... a slow module *)
(* emitting progress does not [get reaped]" (agda-transport.ts:313).       *)
ReapsOnlySilence == [][InactivityTimeout => ~unheeded]_vars

(* "An idle abort is a no-op and must not kill a healthy proc"             *)
(* (agda-transport.ts:161): the escalation of an abort terminates no child *)
(* that has read all it was sent, works on nothing and has nothing to say. *)
LastControl(k) == \E c \in Commands : /\ kind[c] = k
                                      /\ \A d \in Commands : d > c => kind[d] \notin ControlKinds
IdleChild(p) == /\ IsProcLive(p) /\ busy[p] = NoCommand
                /\ stdin[p] = <<>> /\ stdout[p] = <<>>
AbortSparesIdleChild ==
  [][EscalationFires /\ LastControl("abort") => ~IdleChild(escalation)]_vars

(* The timer "is cleared on DoneAborting/DoneExiting ... and on proc close"*)
(* (agda-transport.ts:209) of the child it would terminate: nothing another*)
(* child does disarms it.                                                  *)
DisarmedByItsOwnChild ==
  [][\A p \in Procs : (HandleProcessClose(p) /\ escalation' # escalation)
        => p = escalation]_vars

(* The terminus that ends a load is the load's own, never a leftover of an *)
(* earlier command that Agda was still answering (goal-terminus.ts:3).     *)
TerminusIsItsOwn ==
  [][\A c \in Commands :
       (kind[c] = "load" /\ outcome[c] = "pending" /\ outcome'[c] = "resolved"
          /\ Running(target[c]))
       => TerminusReached({responseQueue[i].kind :
             i \in {j \in DOMAIN responseQueue : responseQueue[j].cmd = c}})]_vars

=============================================================================
