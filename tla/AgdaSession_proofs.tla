------------------------- MODULE AgdaSession_proofs -------------------------
(***************************************************************************)
(* What holds of AgdaSession for every number of commands, children, files *)
(* and probe attempts.  The safety properties are not inductive one by one *)
(* (each leans on the bookkeeping of the child's handle and of the running *)
(* task), so they are proved together, as the inductive invariant IInv.    *)
(***************************************************************************)
EXTENDS AgdaSession, TLAPS

(* The session's handle: a child it holds was spawned, has not closed, and *)
(* is wired to the transport; no other child is wired or left alive.       *)
HandleInv ==
  /\ OneChild
  /\ proc # NoProc => /\ attached[proc]
                      /\ status[proc] \in {"starting", "running", "exited"}
  /\ RegistrationFollowsChild

(* The task in flight.                                                     *)
RunInv ==
  /\ running = NoTask <=> phase = "idle"
  /\ running # NoTask => running <= submitted /\ runProc # NoProc
  /\ CommandKeepsItsChild
  /\ SweptNeverRuns

(* Tasks not yet submitted are new, and not in the queue.                  *)
QueueInv ==
  /\ queue \in Seq(1..submitted)
  /\ \A t \in Tasks : t > submitted => outcome[t] = "new"

(* The end of the session.                                                 *)
EndInv ==
  /\ TeardownIsFinal
  /\ ~destroyed <=> teardown = "none"
  /\ ~destroyed => tearProc = NoProc
  /\ teardown = "waiting" => tearProc # NoProc
  /\ tearProc # NoProc => status[tearProc] # "unborn"

IInv == TypeOK /\ HandleInv /\ RunInv /\ QueueInv /\ EndInv
-----------------------------------------------------------------------------
(* Helpers.                                                                *)

(* Terminating a child changes nothing but its killed flag.                *)
LEMMA TerminateType ==
  ASSUME TypeOK, NEW p \in Procs
  PROVE  Terminate(p) \in [Procs -> BOOLEAN]
  BY Zenon DEF Terminate, TypeOK, Running

(* ensureProcess returns the session's child, live and wired; any other    *)
(* child is neither.                                                       *)
LEMMA EnsureLemma ==
  ASSUME IInv, NEW p \in Procs, EnsureProcess(p)
  PROVE  /\ proc' = p
         /\ status' \in [Procs -> {"unborn", "starting", "running", "exited", "closed"}]
         /\ killed' \in [Procs -> BOOLEAN]
         /\ attached' \in [Procs -> BOOLEAN]
         /\ registered' = TRUE
         /\ currentFile' \in Files \cup {NoFile}
         /\ exiting' \in BOOLEAN
         /\ attached'[p] /\ status'[p] \in {"starting", "running"}
         /\ \A q \in Procs : q # p => ~attached'[q] /\ (killed'[q] \/ ~Running(q)')
         /\ \A q \in Procs : q # p => status'[q] = status[q]
         /\ status[p] # "unborn" => status'[p] = status[p]
<1> USE DEF Procs, NoProc
<1>0. /\ TypeOK
      /\ \A q \in Procs : IsProcLive(q) \/ attached[q] => q = proc
      /\ proc # NoProc => attached[proc] /\ status[proc] \in {"starting", "running", "exited"}
      /\ registered <=> proc # NoProc
  BY DEF IInv, HandleInv, OneChild, RegistrationFollowsChild
<1>1. CASE /\ HaveLiveProc /\ p = proc
           /\ UNCHANGED <<proc, childVars, registered, currentFile, exiting>>
  BY <1>0, <1>1 DEF HaveLiveProc, IsProcLive, Running, childVars, TypeOK
<1>2. CASE /\ ~HaveLiveProc
           /\ status[p] = "unborn" /\ \A q \in Procs : q < p => status[q] # "unborn"
           /\ proc' = p
           /\ status' = [status EXCEPT ![p] = "starting"]
           /\ killed' = IF proc = NoProc THEN killed ELSE Terminate(proc)
           /\ attached' = [q \in Procs |-> q = p \/ (attached[q] /\ q # proc)]
           /\ registered' = TRUE
           /\ currentFile' = NoFile
           /\ exiting' = FALSE
  <2>1. killed' \in [Procs -> BOOLEAN]
    BY <1>0, <1>2, TerminateType DEF TypeOK
  <2>2. attached' \in [Procs -> BOOLEAN]
    BY <1>2, Zenon
  <2>3. attached'[p] /\ \A q \in Procs : q # p => ~attached'[q]
    BY <1>0, <1>2 DEF TypeOK
  <2>4. \A q \in Procs : q # p => killed'[q] \/ ~Running(q)'
    <3> SUFFICES ASSUME NEW q \in Procs, q # p PROVE killed'[q] \/ ~Running(q)'
      OBVIOUS
    <3>1. status'[q] = status[q]
      BY <1>0, <1>2 DEF TypeOK
    <3>2. CASE ~Running(q)
      BY <3>1, <3>2 DEF Running
    <3>3. CASE Running(q) /\ q # proc
      BY <1>0, <1>2, <3>3 DEF IsProcLive, Terminate, TypeOK
    <3>4. CASE Running(q) /\ q = proc
      BY <1>0, <1>2, <3>4 DEF HaveLiveProc, IsProcLive, Terminate, TypeOK
    <3> QED BY <3>2, <3>3, <3>4
  <2> QED BY <1>0, <1>2, <2>1, <2>2, <2>3, <2>4 DEF TypeOK
<1> QED BY <1>1, <1>2 DEF EnsureProcess

(* detachAndTerminate keeps the handles' types.                            *)
LEMMA RetireType ==
  ASSUME TypeOK, RetireChild
  PROVE  killed' \in [Procs -> BOOLEAN] /\ attached' \in [Procs -> BOOLEAN]
<1>1. killed' \in [Procs -> BOOLEAN]
  BY TerminateType DEF RetireChild, TypeOK, NoProc
<1>2. attached' \in [Procs -> BOOLEAN]
  BY Zenon DEF RetireChild
<1> QED BY <1>1, <1>2

(* Dropping the child leaves the process-bound state reset.                *)
LEMMA ReleaseType ==
  ASSUME ReleaseChild
  PROVE  /\ proc' \in Procs \cup {NoProc} /\ registered' \in BOOLEAN
         /\ currentFile' \in Files \cup {NoFile} /\ version' \in BOOLEAN
         /\ attempts' \in 0..MaxAttempts /\ exiting' \in BOOLEAN
<1>1. registered' \in BOOLEAN /\ version' \in BOOLEAN /\ exiting' \in BOOLEAN
  BY Zenon DEF ReleaseChild
<1>2. attempts' \in 0..MaxAttempts
  BY SessionAssumption DEF ReleaseChild
<1> QED BY <1>1, <1>2 DEF ReleaseChild

(* What a task body leaves behind when it starts, whatever its phase.      *)
LEMMA StartLemma ==
  ASSUME IInv, NEW t \in Tasks, NEW p \in Procs,
         NEW ph \in {"probing", "sending", "flushing"}, StartBody(t, p, ph)
  PROVE  /\ HandleInv' /\ RunInv'
         /\ queue' \in Seq(Tasks) /\ running' = t /\ phase' = ph /\ runProc' = p
         /\ status' \in [Procs -> {"unborn", "starting", "running", "exited", "closed"}]
         /\ killed' \in [Procs -> BOOLEAN] /\ attached' \in [Procs -> BOOLEAN]
         /\ proc' \in Procs \cup {NoProc} /\ registered' \in BOOLEAN
         /\ currentFile' \in Files \cup {NoFile} /\ exiting' \in BOOLEAN
         /\ fileAtStart' = currentFile' /\ version' \in BOOLEAN
         /\ UNCHANGED <<outcome, taskVars, serialVars, childFile, endVars>>
<1>1. EnsureProcess(p)
  BY DEF StartBody
<1>2. queue' \in Seq(Tasks)
  BY DEF StartBody, NextTask, IInv, TypeOK
<1>3. HandleInv'
  <2>1. OneChild'
    BY <1>1, EnsureLemma DEF OneChild, IsProcLive
  <2>2. proc' = p /\ attached'[p] /\ status'[p] \in {"starting", "running"} /\ registered' = TRUE
    BY <1>1, EnsureLemma
  <2>3. p # NoProc
    BY DEF Procs, NoProc
  <2>4. RegistrationFollowsChild'
    BY <2>2, <2>3 DEF RegistrationFollowsChild
  <2>5. (proc # NoProc => /\ attached[proc]
                          /\ status[proc] \in {"starting", "running", "exited"})'
    BY <2>2
  <2> QED BY <2>1, <2>4, <2>5 DEF HandleInv
<1>4. version' \in BOOLEAN
  BY DEF StartBody, VersionNow, HaveLiveProc, IsProcLive, IInv, TypeOK
<1>5. RunInv'
  <2>1. t \in 1..submitted
    <3>1. queue \in Seq(1..submitted) /\ queue # <<>> /\ t = Head(queue)
      BY DEF StartBody, NextTask, IInv, QueueInv
    <3>2. Head(queue) \in 1..submitted
      <4> DEFINE S == 1..submitted
      <4>1. queue \in Seq(S) /\ queue # <<>>
        BY <3>1
      <4> HIDE DEF S
      <4>2. Head(queue) \in S
        BY <4>1
      <4> QED BY <4>2 DEF S
    <3> QED BY <3>1, <3>2
  <2>2. running' = t /\ phase' = ph /\ runProc' = p /\ proc' = p
    BY <1>1, EnsureLemma DEF StartBody
  <2>3. (running = NoTask <=> phase = "idle")' /\ (running # NoTask)' /\ (runProc # NoProc)'
    BY <2>2 DEF Tasks, NoTask, Procs, NoProc
  <2>4. (running <= submitted)'
    BY <2>1, <2>2 DEF StartBody, taskVars
  <2>5. SweptNeverRuns'
    BY <2>2 DEF SweptNeverRuns, StartBody, MayStart, Regular, taskVars, serialVars
  <2>6. CommandKeepsItsChild'
    BY <2>2 DEF CommandKeepsItsChild
  <2> QED BY <2>3, <2>4, <2>5, <2>6 DEF RunInv
<1> QED BY <1>1, <1>2, <1>3, <1>4, <1>5, EnsureLemma DEF StartBody


-----------------------------------------------------------------------------
(* Inductive steps.                                                        *)

(* Every action keeps the types.                                           *)
LEMMA TypeStep == ASSUME IInv, [Next]_vars PROVE TypeOK'
<1> USE SessionAssumption DEF IInv, TypeOK, RunInv, TaskKinds, RegularKinds,
          ControlKinds, LoadKind, QueryKind, VersionKind, Tasks, Procs,
          NoTask, NoProc
<1>1. ASSUME NEW t \in Tasks, NEW k \in RegularKinds, NEW f \in Files \cup {NoFile},
              SubmitRegular(t, k, f)
       PROVE TypeOK'
  BY <1>1 DEF SubmitRegular, NewTask, queueVars, taskVars, serialVars,
          probeVars, fileVars, childVars, endVars
<1>2. ASSUME NEW t \in Tasks, NEW k \in ControlKinds,
              SubmitControl(t, k)
       PROVE TypeOK'
  BY <1>2 DEF SubmitControl, NewTask, FileIfLive, queueVars, taskVars,
          serialVars, probeVars, fileVars, childVars, endVars
<1>3. ASSUME Destroy PROVE TypeOK'
  <2>1. killed' \in [Procs -> BOOLEAN] /\ attached' \in [Procs -> BOOLEAN]
    BY <1>3, RetireType DEF Destroy
  <2>2. /\ proc' \in Procs \cup {NoProc} /\ registered' \in BOOLEAN
        /\ currentFile' \in Files \cup {NoFile} /\ version' \in BOOLEAN
        /\ attempts' \in 0..MaxAttempts /\ exiting' \in BOOLEAN
    BY <1>3, ReleaseType DEF Destroy
  <2>3. outcome' \in [Tasks -> {"new", "waiting", "resolved", "rejected"}]
    BY <1>3 DEF Destroy
  <2> QED BY <1>3, <2>1, <2>2, <2>3 DEF Destroy, taskVars, serialVars
<1>4. ASSUME NEW t \in Tasks, Refuse(t) PROVE TypeOK'
  BY <1>4 DEF Refuse, NextTask, queueVars, taskVars, serialVars, probeVars,
          fileVars, childVars, endVars
<1>5. ASSUME NEW t \in Tasks, RegistrationFails(t) PROVE TypeOK'
  <2>1. killed' \in [Procs -> BOOLEAN] /\ attached' \in [Procs -> BOOLEAN]
    BY <1>5, RetireType DEF RegistrationFails
  <2>2. /\ proc' \in Procs \cup {NoProc} /\ registered' \in BOOLEAN
        /\ currentFile' \in Files \cup {NoFile} /\ version' \in BOOLEAN
        /\ attempts' \in 0..MaxAttempts /\ exiting' \in BOOLEAN
    BY <1>5, ReleaseType DEF RegistrationFails
  <2> QED BY <1>5, <2>1, <2>2 DEF RegistrationFails, NextTask, taskVars, serialVars,
                         endVars
<1>6. ASSUME NEW t \in Tasks, StartProbe(t) PROVE TypeOK'
  <2>1. PICK p \in Procs : StartBody(t, p, "probing")
    BY <1>6 DEF StartProbe
  <2>2. attempts' \in 0..MaxAttempts
    BY <1>6 DEF StartProbe, NeedsProbe, AttemptsNow
  <2>3. escalation' \in Procs \cup {NoProc}
    BY <1>6, <2>1 DEF StartProbe
  <2> QED BY <2>1, <2>2, <2>3, StartLemma
          DEF taskVars, serialVars, endVars
<1>7. ASSUME NEW t \in Tasks, StartSend(t) PROVE TypeOK'
  <2>1. PICK p \in Procs : StartBody(t, p, "sending")
    BY <1>7 DEF StartSend
  <2>2. attempts' \in 0..MaxAttempts
    BY <1>7 DEF StartSend, AttemptsNow
  <2>3. escalation' \in Procs \cup {NoProc}
    BY <1>7, <2>1 DEF StartSend
  <2> QED BY <2>1, <2>2, <2>3, StartLemma
          DEF taskVars, serialVars, endVars
<1>8. ASSUME NEW t \in Tasks, StartFlush(t) PROVE TypeOK'
  <2>1. PICK p \in Procs : /\ StartBody(t, p, "flushing")
                         /\ escalation' = IF arm[t] THEN p ELSE NoProc
    BY <1>8 DEF StartFlush
  <2>2. attempts' \in 0..MaxAttempts
    BY <1>8 DEF StartFlush, AttemptsNow
  <2>3. escalation' \in Procs \cup {NoProc}
    BY <1>8, <2>1 DEF StartFlush
  <2> QED BY <2>1, <2>2, <2>3, StartLemma
          DEF taskVars, serialVars, endVars
<1>9. ASSUME ProbeAnswered PROVE TypeOK'
  BY <1>9 DEF ProbeAnswered, Settle, FileIfLive, Quiet, unmovedBySettling,
          queueVars, taskVars, serialVars, probeVars, fileVars, childVars,
          endVars
<1>10. ASSUME WatchdogFires PROVE TypeOK'
  BY <1>10 DEF WatchdogFires, Settle, Quiet, Terminate, unmovedBySettling,
          queueVars, taskVars, serialVars, probeVars, fileVars, childVars,
          endVars
<1>11. ASSUME SendAnswered PROVE TypeOK'
  <2>1. running \in Tasks /\ runProc \in Procs
    BY <1>11 DEF SendAnswered
  <2>2. currentFile' \in Files \cup {NoFile} /\ childFile' \in [Procs -> Files \cup {NoFile}]
    BY <1>11, <2>1 DEF SendAnswered, FileIfLive
  <2>3. version' \in BOOLEAN /\ attempts' \in 0..MaxAttempts
    BY <1>11 DEF SendAnswered, probeVars
  <2>4. outcome' \in [Tasks -> {"new", "waiting", "resolved", "rejected"}]
    BY <1>11, <2>1 DEF SendAnswered, Settle
  <2> QED BY <1>11, <2>2, <2>3, <2>4
          DEF SendAnswered, Settle, unmovedBySettling, taskVars, serialVars, endVars
<1>12. ASSUME FlushElapses PROVE TypeOK'
  BY <1>12 DEF FlushElapses, Settle, Quiet, unmovedBySettling, queueVars,
          taskVars, serialVars, probeVars, fileVars, childVars, endVars
<1>13. ASSUME NEW p \in Procs, SpawnFails(p) PROVE TypeOK'
  BY <1>13 DEF SpawnFails, Settle, Quiet, unmovedBySettling, queueVars,
          taskVars, serialVars, probeVars, fileVars, childVars, endVars
<1>14. ASSUME NEW p \in Procs, ProcStarts(p) PROVE TypeOK'
  BY <1>14 DEF ProcStarts, unmovedByChild, queueVars, taskVars, serialVars,
          probeVars, fileVars, childVars, endVars
<1>15. ASSUME NEW p \in Procs, ProcExits(p) PROVE TypeOK'
  BY <1>15 DEF ProcExits, unmovedByChild, queueVars, taskVars, serialVars,
          probeVars, fileVars, childVars, endVars
<1>16. ASSUME NEW p \in Procs, SigkillFires(p) PROVE TypeOK'
  BY <1>16 DEF SigkillFires, unmovedByChild, queueVars, taskVars, serialVars,
          probeVars, fileVars, childVars, endVars
<1>17. ASSUME NEW p \in Procs, ProcCloses(p) PROVE TypeOK'
  <2>1. attached' \in [Procs -> BOOLEAN]
    BY <1>17, Zenon DEF ProcCloses
  <2>2. killed' \in [Procs -> BOOLEAN]
    BY <1>17 DEF ProcCloses
  <2>3. /\ proc' \in Procs \cup {NoProc} /\ registered' \in BOOLEAN
        /\ currentFile' \in Files \cup {NoFile} /\ version' \in BOOLEAN
        /\ attempts' \in 0..MaxAttempts /\ exiting' \in BOOLEAN
    BY <1>17, ReleaseType DEF ProcCloses, probeVars
  <2> QED BY <1>17, <2>1, <2>2, <2>3
          DEF ProcCloses, unmovedByChild, queueVars, taskVars, serialVars,
              probeVars
<1>18. ASSUME EscalationFires PROVE TypeOK'
  BY <1>18, TerminateType DEF EscalationFires, unmovedByChild, queueVars,
          taskVars, serialVars, probeVars, fileVars, childVars, endVars
<1>19. ASSUME ControlEcho PROVE TypeOK'
  BY <1>19 DEF ControlEcho, unmovedByChild, queueVars, taskVars, serialVars,
          probeVars, fileVars, childVars, endVars
<1>20. ASSUME TeardownTimesOut PROVE TypeOK'
  BY <1>20 DEF TeardownTimesOut, unmovedByChild, queueVars, taskVars,
          serialVars, probeVars, fileVars, childVars, endVars
<1>21. ASSUME NodeExits PROVE TypeOK'
  BY <1>21 DEF NodeExits, queueVars, taskVars, serialVars, probeVars,
          fileVars, childVars, endVars
<1>22. CASE UNCHANGED vars
  BY <1>22 DEF vars, queueVars, taskVars, serialVars, probeVars, fileVars,
          childVars, endVars
<1> QED
  BY <1>1, <1>2, <1>3, <1>4, <1>5, <1>6, <1>7, <1>8, <1>9, <1>10, <1>11,
          <1>12, <1>13, <1>14, <1>15, <1>16, <1>17, <1>18, <1>19, <1>20,
          <1>21, <1>22
     DEF Next, Call, TaskBody, CommandSettles, Child

(* Every action keeps the bookkeeping of the child's handle.               *)
LEMMA HandleStep == ASSUME IInv, [Next]_vars PROVE HandleInv'
<1> USE SessionAssumption DEF IInv, TypeOK, HandleInv, RunInv, EndInv,
          OneChild, RegistrationFollowsChild, CommandKeepsItsChild,
          IsProcLive, Running, HaveLiveProc, Procs, NoProc, NoTask
<1>1. ASSUME NEW t \in Tasks, NEW k \in RegularKinds, NEW f \in Files \cup {NoFile},
              SubmitRegular(t, k, f)
       PROVE HandleInv'
  BY <1>1 DEF SubmitRegular, NewTask, queueVars, taskVars, serialVars,
          probeVars, fileVars, childVars, endVars
<1>2. ASSUME NEW t \in Tasks, NEW k \in ControlKinds,
              SubmitControl(t, k)
       PROVE HandleInv'
  BY <1>2 DEF SubmitControl, NewTask, FileIfLive, queueVars, taskVars,
          serialVars, probeVars, fileVars, childVars, endVars
<1>3. ASSUME Destroy PROVE HandleInv'
  BY <1>3 DEF Destroy, RetireChild, ReleaseChild, Terminate, queueVars,
          taskVars, serialVars, probeVars, fileVars, childVars, endVars
<1>4. ASSUME NEW t \in Tasks, Refuse(t) PROVE HandleInv'
  BY <1>4 DEF Refuse, NextTask, queueVars, taskVars, serialVars, probeVars,
          fileVars, childVars, endVars
<1>5. ASSUME NEW t \in Tasks, RegistrationFails(t) PROVE HandleInv'
  BY <1>5 DEF RegistrationFails, NextTask, RetireChild, ReleaseChild,
          Terminate, queueVars, taskVars, serialVars, probeVars, fileVars,
          childVars, endVars
<1>6. ASSUME NEW t \in Tasks, StartProbe(t) PROVE HandleInv'
  <2>1. PICK p \in Procs : StartBody(t, p, "probing")
    BY <1>6 DEF StartProbe
  <2> QED BY <2>1, StartLemma
<1>7. ASSUME NEW t \in Tasks, StartSend(t) PROVE HandleInv'
  <2>1. PICK p \in Procs : StartBody(t, p, "sending")
    BY <1>7 DEF StartSend
  <2> QED BY <2>1, StartLemma
<1>8. ASSUME NEW t \in Tasks, StartFlush(t) PROVE HandleInv'
  <2>1. PICK p \in Procs : StartBody(t, p, "flushing")
    BY <1>8 DEF StartFlush
  <2> QED BY <2>1, StartLemma
<1>9. ASSUME ProbeAnswered PROVE HandleInv'
  BY <1>9 DEF ProbeAnswered, Settle, FileIfLive, Quiet, unmovedBySettling,
          queueVars, taskVars, serialVars, probeVars, fileVars, childVars,
          endVars
<1>10. ASSUME WatchdogFires PROVE HandleInv'
  BY <1>10 DEF WatchdogFires, Settle, Quiet, Terminate, unmovedBySettling,
          queueVars, taskVars, serialVars, probeVars, fileVars, childVars,
          endVars
<1>11. ASSUME SendAnswered PROVE HandleInv'
  BY <1>11 DEF SendAnswered, Settle, FileIfLive, Quiet, unmovedBySettling,
          queueVars, taskVars, serialVars, probeVars, fileVars, childVars,
          endVars
<1>12. ASSUME FlushElapses PROVE HandleInv'
  BY <1>12 DEF FlushElapses, Settle, Quiet, unmovedBySettling, queueVars,
          taskVars, serialVars, probeVars, fileVars, childVars, endVars
<1>13. ASSUME NEW p \in Procs, SpawnFails(p) PROVE HandleInv'
  BY <1>13 DEF SpawnFails, Settle, Quiet, unmovedBySettling, queueVars,
          taskVars, serialVars, probeVars, fileVars, childVars, endVars
<1>14. ASSUME NEW p \in Procs, ProcStarts(p) PROVE HandleInv'
  BY <1>14 DEF ProcStarts, unmovedByChild, queueVars, taskVars, serialVars,
          probeVars, fileVars, childVars, endVars
<1>15. ASSUME NEW p \in Procs, ProcExits(p) PROVE HandleInv'
  BY <1>15 DEF ProcExits, unmovedByChild, queueVars, taskVars, serialVars,
          probeVars, fileVars, childVars, endVars
<1>16. ASSUME NEW p \in Procs, SigkillFires(p) PROVE HandleInv'
  BY <1>16 DEF SigkillFires, unmovedByChild, queueVars, taskVars, serialVars,
          probeVars, fileVars, childVars, endVars
<1>17. ASSUME NEW p \in Procs, ProcCloses(p) PROVE HandleInv'
  BY <1>17 DEF ProcCloses, CloseResetsSession, ReleaseChild, unmovedByChild,
          queueVars, taskVars, serialVars, probeVars, fileVars, childVars,
          endVars
<1>18. ASSUME EscalationFires PROVE HandleInv'
  BY <1>18 DEF EscalationFires, Terminate, unmovedByChild, queueVars,
          taskVars, serialVars, probeVars, fileVars, childVars, endVars
<1>19. ASSUME ControlEcho PROVE HandleInv'
  BY <1>19 DEF ControlEcho, unmovedByChild, queueVars, taskVars, serialVars,
          probeVars, fileVars, childVars, endVars
<1>20. ASSUME TeardownTimesOut PROVE HandleInv'
  BY <1>20 DEF TeardownTimesOut, unmovedByChild, queueVars, taskVars,
          serialVars, probeVars, fileVars, childVars, endVars
<1>21. ASSUME NodeExits PROVE HandleInv'
  BY <1>21 DEF NodeExits, queueVars, taskVars, serialVars, probeVars,
          fileVars, childVars, endVars
<1>22. CASE UNCHANGED vars
  BY <1>22 DEF vars, queueVars, taskVars, serialVars, probeVars, fileVars,
          childVars, endVars
<1> QED
  BY <1>1, <1>2, <1>3, <1>4, <1>5, <1>6, <1>7, <1>8, <1>9, <1>10, <1>11,
          <1>12, <1>13, <1>14, <1>15, <1>16, <1>17, <1>18, <1>19, <1>20,
          <1>21, <1>22
     DEF Next, Call, TaskBody, CommandSettles, Child

(* Every action keeps what is known of the task in flight.                 *)
LEMMA RunStep == ASSUME IInv, [Next]_vars PROVE RunInv'
<1> USE SessionAssumption DEF IInv, TypeOK, HandleInv, RunInv, QueueInv,
          CommandKeepsItsChild, SweptNeverRuns, Regular, OneChild, IsProcLive,
          Running, HaveLiveProc, Tasks, Procs, NoTask, NoProc
<1>1. ASSUME NEW t \in Tasks, NEW k \in RegularKinds, NEW f \in Files \cup {NoFile},
              SubmitRegular(t, k, f)
       PROVE RunInv'
  BY <1>1 DEF SubmitRegular, NewTask, queueVars, taskVars, serialVars,
          probeVars, fileVars, childVars, endVars
<1>2. ASSUME NEW t \in Tasks, NEW k \in ControlKinds,
              SubmitControl(t, k)
       PROVE RunInv'
  BY <1>2 DEF SubmitControl, NewTask, FileIfLive, queueVars, taskVars,
          serialVars, probeVars, fileVars, childVars, endVars
<1>3. ASSUME Destroy PROVE RunInv'
  BY <1>3 DEF Destroy, RetireChild, ReleaseChild, Terminate, queueVars,
          taskVars, serialVars, probeVars, fileVars, childVars, endVars
<1>4. ASSUME NEW t \in Tasks, Refuse(t) PROVE RunInv'
  BY <1>4 DEF Refuse, NextTask, queueVars, taskVars, serialVars, probeVars,
          fileVars, childVars, endVars
<1>5. ASSUME NEW t \in Tasks, RegistrationFails(t) PROVE RunInv'
  BY <1>5 DEF RegistrationFails, NextTask, RetireChild, ReleaseChild,
          Terminate, queueVars, taskVars, serialVars, probeVars, fileVars,
          childVars, endVars
<1>6. ASSUME NEW t \in Tasks, StartProbe(t) PROVE RunInv'
  <2>1. PICK p \in Procs : StartBody(t, p, "probing")
    BY <1>6 DEF StartProbe
  <2> QED BY <2>1, StartLemma
<1>7. ASSUME NEW t \in Tasks, StartSend(t) PROVE RunInv'
  <2>1. PICK p \in Procs : StartBody(t, p, "sending")
    BY <1>7 DEF StartSend
  <2> QED BY <2>1, StartLemma
<1>8. ASSUME NEW t \in Tasks, StartFlush(t) PROVE RunInv'
  <2>1. PICK p \in Procs : StartBody(t, p, "flushing")
    BY <1>8 DEF StartFlush
  <2> QED BY <2>1, StartLemma
<1>9. ASSUME ProbeAnswered PROVE RunInv'
  BY <1>9 DEF ProbeAnswered, Settle, FileIfLive, Quiet, unmovedBySettling,
          queueVars, taskVars, serialVars, probeVars, fileVars, childVars,
          endVars
<1>10. ASSUME WatchdogFires PROVE RunInv'
  BY <1>10 DEF WatchdogFires, Settle, Quiet, Terminate, unmovedBySettling,
          queueVars, taskVars, serialVars, probeVars, fileVars, childVars,
          endVars
<1>11. ASSUME SendAnswered PROVE RunInv'
  BY <1>11 DEF SendAnswered, Settle, FileIfLive, Quiet, unmovedBySettling,
          queueVars, taskVars, serialVars, probeVars, fileVars, childVars,
          endVars
<1>12. ASSUME FlushElapses PROVE RunInv'
  BY <1>12 DEF FlushElapses, Settle, Quiet, unmovedBySettling, queueVars,
          taskVars, serialVars, probeVars, fileVars, childVars, endVars
<1>13. ASSUME NEW p \in Procs, SpawnFails(p) PROVE RunInv'
  BY <1>13 DEF SpawnFails, Settle, Quiet, unmovedBySettling, queueVars,
          taskVars, serialVars, probeVars, fileVars, childVars, endVars
<1>14. ASSUME NEW p \in Procs, ProcStarts(p) PROVE RunInv'
  BY <1>14 DEF ProcStarts, unmovedByChild, queueVars, taskVars, serialVars,
          probeVars, fileVars, childVars, endVars
<1>15. ASSUME NEW p \in Procs, ProcExits(p) PROVE RunInv'
  BY <1>15 DEF ProcExits, unmovedByChild, queueVars, taskVars, serialVars,
          probeVars, fileVars, childVars, endVars
<1>16. ASSUME NEW p \in Procs, SigkillFires(p) PROVE RunInv'
  BY <1>16 DEF SigkillFires, unmovedByChild, queueVars, taskVars, serialVars,
          probeVars, fileVars, childVars, endVars
<1>17. ASSUME NEW p \in Procs, ProcCloses(p) PROVE RunInv'
  BY <1>17 DEF ProcCloses, CloseResetsSession, ReleaseChild, unmovedByChild,
          queueVars, taskVars, serialVars, probeVars, fileVars, childVars,
          endVars
<1>18. ASSUME EscalationFires PROVE RunInv'
  BY <1>18 DEF EscalationFires, Terminate, unmovedByChild, queueVars,
          taskVars, serialVars, probeVars, fileVars, childVars, endVars
<1>19. ASSUME ControlEcho PROVE RunInv'
  BY <1>19 DEF ControlEcho, unmovedByChild, queueVars, taskVars, serialVars,
          probeVars, fileVars, childVars, endVars
<1>20. ASSUME TeardownTimesOut PROVE RunInv'
  BY <1>20 DEF TeardownTimesOut, unmovedByChild, queueVars, taskVars,
          serialVars, probeVars, fileVars, childVars, endVars
<1>21. ASSUME NodeExits PROVE RunInv'
  BY <1>21 DEF NodeExits, queueVars, taskVars, serialVars, probeVars,
          fileVars, childVars, endVars
<1>22. CASE UNCHANGED vars
  BY <1>22 DEF vars, queueVars, taskVars, serialVars, probeVars, fileVars,
          childVars, endVars
<1> QED
  BY <1>1, <1>2, <1>3, <1>4, <1>5, <1>6, <1>7, <1>8, <1>9, <1>10, <1>11,
          <1>12, <1>13, <1>14, <1>15, <1>16, <1>17, <1>18, <1>19, <1>20,
          <1>21, <1>22
     DEF Next, Call, TaskBody, CommandSettles, Child

(* Every action keeps what is known of the queue.                          *)
LEMMA QueueStep == ASSUME IInv, [Next]_vars PROVE QueueInv'
<1> USE SessionAssumption DEF IInv, TypeOK, RunInv, QueueInv, Tasks, NoTask
<1>1. ASSUME NEW t \in Tasks, NEW k \in RegularKinds, NEW f \in Files \cup {NoFile},
              SubmitRegular(t, k, f)
       PROVE QueueInv'
  BY <1>1 DEF SubmitRegular, NewTask, queueVars, taskVars, serialVars,
          probeVars, fileVars, childVars, endVars
<1>2. ASSUME NEW t \in Tasks, NEW k \in ControlKinds,
              SubmitControl(t, k)
       PROVE QueueInv'
  BY <1>2 DEF SubmitControl, NewTask, FileIfLive, queueVars, taskVars,
          serialVars, probeVars, fileVars, childVars, endVars
<1>3. ASSUME Destroy PROVE QueueInv'
  BY <1>3 DEF Destroy, RetireChild, ReleaseChild, Terminate, queueVars,
          taskVars, serialVars, probeVars, fileVars, childVars, endVars
<1>4. ASSUME NEW t \in Tasks, Refuse(t) PROVE QueueInv'
  BY <1>4 DEF Refuse, NextTask, queueVars, taskVars, serialVars, probeVars,
          fileVars, childVars, endVars
<1>5. ASSUME NEW t \in Tasks, RegistrationFails(t) PROVE QueueInv'
  BY <1>5 DEF RegistrationFails, NextTask, RetireChild, ReleaseChild,
          Terminate, queueVars, taskVars, serialVars, probeVars, fileVars,
          childVars, endVars
<1>6. ASSUME NEW t \in Tasks, StartProbe(t) PROVE QueueInv'
  BY <1>6 DEF StartProbe, StartBody, NextTask, EnsureProcess, Terminate,
          MayStart, AttemptsNow, VersionNow, NeedsProbe, queueVars, taskVars,
          serialVars, probeVars, fileVars, childVars, endVars
<1>7. ASSUME NEW t \in Tasks, StartSend(t) PROVE QueueInv'
  BY <1>7 DEF StartSend, StartBody, NextTask, EnsureProcess, Terminate,
          MayStart, AttemptsNow, VersionNow, queueVars, taskVars, serialVars,
          probeVars, fileVars, childVars, endVars
<1>8. ASSUME NEW t \in Tasks, StartFlush(t) PROVE QueueInv'
  BY <1>8 DEF StartFlush, StartBody, NextTask, EnsureProcess, Terminate,
          MayStart, AttemptsNow, VersionNow, queueVars, taskVars, serialVars,
          probeVars, fileVars, childVars, endVars
<1>9. ASSUME ProbeAnswered PROVE QueueInv'
  BY <1>9 DEF ProbeAnswered, Settle, FileIfLive, Quiet, unmovedBySettling,
          queueVars, taskVars, serialVars, probeVars, fileVars, childVars,
          endVars
<1>10. ASSUME WatchdogFires PROVE QueueInv'
  BY <1>10 DEF WatchdogFires, Settle, Quiet, Terminate, unmovedBySettling,
          queueVars, taskVars, serialVars, probeVars, fileVars, childVars,
          endVars
<1>11. ASSUME SendAnswered PROVE QueueInv'
  BY <1>11 DEF SendAnswered, Settle, FileIfLive, Quiet, unmovedBySettling,
          queueVars, taskVars, serialVars, probeVars, fileVars, childVars,
          endVars
<1>12. ASSUME FlushElapses PROVE QueueInv'
  BY <1>12 DEF FlushElapses, Settle, Quiet, unmovedBySettling, queueVars,
          taskVars, serialVars, probeVars, fileVars, childVars, endVars
<1>13. ASSUME NEW p \in Procs, SpawnFails(p) PROVE QueueInv'
  BY <1>13 DEF SpawnFails, Settle, Quiet, unmovedBySettling, queueVars,
          taskVars, serialVars, probeVars, fileVars, childVars, endVars
<1>14. ASSUME NEW p \in Procs, ProcStarts(p) PROVE QueueInv'
  BY <1>14 DEF ProcStarts, unmovedByChild, queueVars, taskVars, serialVars,
          probeVars, fileVars, childVars, endVars
<1>15. ASSUME NEW p \in Procs, ProcExits(p) PROVE QueueInv'
  BY <1>15 DEF ProcExits, unmovedByChild, queueVars, taskVars, serialVars,
          probeVars, fileVars, childVars, endVars
<1>16. ASSUME NEW p \in Procs, SigkillFires(p) PROVE QueueInv'
  BY <1>16 DEF SigkillFires, unmovedByChild, queueVars, taskVars, serialVars,
          probeVars, fileVars, childVars, endVars
<1>17. ASSUME NEW p \in Procs, ProcCloses(p) PROVE QueueInv'
  BY <1>17 DEF ProcCloses, CloseResetsSession, ReleaseChild, unmovedByChild,
          queueVars, taskVars, serialVars, probeVars, fileVars, childVars,
          endVars
<1>18. ASSUME EscalationFires PROVE QueueInv'
  BY <1>18 DEF EscalationFires, Terminate, unmovedByChild, queueVars,
          taskVars, serialVars, probeVars, fileVars, childVars, endVars
<1>19. ASSUME ControlEcho PROVE QueueInv'
  BY <1>19 DEF ControlEcho, unmovedByChild, queueVars, taskVars, serialVars,
          probeVars, fileVars, childVars, endVars
<1>20. ASSUME TeardownTimesOut PROVE QueueInv'
  BY <1>20 DEF TeardownTimesOut, unmovedByChild, queueVars, taskVars,
          serialVars, probeVars, fileVars, childVars, endVars
<1>21. ASSUME NodeExits PROVE QueueInv'
  BY <1>21 DEF NodeExits, queueVars, taskVars, serialVars, probeVars,
          fileVars, childVars, endVars
<1>22. CASE UNCHANGED vars
  BY <1>22 DEF vars, queueVars, taskVars, serialVars, probeVars, fileVars,
          childVars, endVars
<1> QED
  BY <1>1, <1>2, <1>3, <1>4, <1>5, <1>6, <1>7, <1>8, <1>9, <1>10, <1>11,
          <1>12, <1>13, <1>14, <1>15, <1>16, <1>17, <1>18, <1>19, <1>20,
          <1>21, <1>22
     DEF Next, Call, TaskBody, CommandSettles, Child

(* Every action keeps the end of the session.                              *)
LEMMA EndStep == ASSUME IInv, [Next]_vars PROVE EndInv'
<1> USE SessionAssumption DEF IInv, TypeOK, HandleInv, RunInv, EndInv,
          TeardownIsFinal, MayStart, IsProcLive, Running, HaveLiveProc, Procs,
          NoProc, NoTask
<1>1. ASSUME NEW t \in Tasks, NEW k \in RegularKinds, NEW f \in Files \cup {NoFile},
              SubmitRegular(t, k, f)
       PROVE EndInv'
  BY <1>1 DEF SubmitRegular, NewTask, queueVars, taskVars, serialVars,
          probeVars, fileVars, childVars, endVars
<1>2. ASSUME NEW t \in Tasks, NEW k \in ControlKinds,
              SubmitControl(t, k)
       PROVE EndInv'
  BY <1>2 DEF SubmitControl, NewTask, FileIfLive, queueVars, taskVars,
          serialVars, probeVars, fileVars, childVars, endVars
<1>3. ASSUME Destroy PROVE EndInv'
  BY <1>3 DEF Destroy, RetireChild, ReleaseChild, Terminate, queueVars,
          taskVars, serialVars, probeVars, fileVars, childVars, endVars
<1>4. ASSUME NEW t \in Tasks, Refuse(t) PROVE EndInv'
  BY <1>4 DEF Refuse, NextTask, queueVars, taskVars, serialVars, probeVars,
          fileVars, childVars, endVars
<1>5. ASSUME NEW t \in Tasks, RegistrationFails(t) PROVE EndInv'
  BY <1>5 DEF RegistrationFails, NextTask, RetireChild, ReleaseChild,
          Terminate, queueVars, taskVars, serialVars, probeVars, fileVars,
          childVars, endVars
<1>6. ASSUME NEW t \in Tasks, StartProbe(t) PROVE EndInv'
  BY <1>6 DEF StartProbe, StartBody, NextTask, EnsureProcess, Terminate,
          MayStart, AttemptsNow, VersionNow, NeedsProbe, queueVars, taskVars,
          serialVars, probeVars, fileVars, childVars, endVars
<1>7. ASSUME NEW t \in Tasks, StartSend(t) PROVE EndInv'
  BY <1>7 DEF StartSend, StartBody, NextTask, EnsureProcess, Terminate,
          MayStart, AttemptsNow, VersionNow, queueVars, taskVars, serialVars,
          probeVars, fileVars, childVars, endVars
<1>8. ASSUME NEW t \in Tasks, StartFlush(t) PROVE EndInv'
  BY <1>8 DEF StartFlush, StartBody, NextTask, EnsureProcess, Terminate,
          MayStart, AttemptsNow, VersionNow, queueVars, taskVars, serialVars,
          probeVars, fileVars, childVars, endVars
<1>9. ASSUME ProbeAnswered PROVE EndInv'
  BY <1>9 DEF ProbeAnswered, Settle, FileIfLive, Quiet, unmovedBySettling,
          queueVars, taskVars, serialVars, probeVars, fileVars, childVars,
          endVars
<1>10. ASSUME WatchdogFires PROVE EndInv'
  BY <1>10 DEF WatchdogFires, Settle, Quiet, Terminate, unmovedBySettling,
          queueVars, taskVars, serialVars, probeVars, fileVars, childVars,
          endVars
<1>11. ASSUME SendAnswered PROVE EndInv'
  BY <1>11 DEF SendAnswered, Settle, FileIfLive, Quiet, unmovedBySettling,
          queueVars, taskVars, serialVars, probeVars, fileVars, childVars,
          endVars
<1>12. ASSUME FlushElapses PROVE EndInv'
  BY <1>12 DEF FlushElapses, Settle, Quiet, unmovedBySettling, queueVars,
          taskVars, serialVars, probeVars, fileVars, childVars, endVars
<1>13. ASSUME NEW p \in Procs, SpawnFails(p) PROVE EndInv'
  BY <1>13 DEF SpawnFails, Settle, Quiet, unmovedBySettling, queueVars,
          taskVars, serialVars, probeVars, fileVars, childVars, endVars
<1>14. ASSUME NEW p \in Procs, ProcStarts(p) PROVE EndInv'
  BY <1>14 DEF ProcStarts, unmovedByChild, queueVars, taskVars, serialVars,
          probeVars, fileVars, childVars, endVars
<1>15. ASSUME NEW p \in Procs, ProcExits(p) PROVE EndInv'
  BY <1>15 DEF ProcExits, unmovedByChild, queueVars, taskVars, serialVars,
          probeVars, fileVars, childVars, endVars
<1>16. ASSUME NEW p \in Procs, SigkillFires(p) PROVE EndInv'
  BY <1>16 DEF SigkillFires, unmovedByChild, queueVars, taskVars, serialVars,
          probeVars, fileVars, childVars, endVars
<1>17. ASSUME NEW p \in Procs, ProcCloses(p) PROVE EndInv'
  BY <1>17 DEF ProcCloses, CloseResetsSession, ReleaseChild, unmovedByChild,
          queueVars, taskVars, serialVars, probeVars, fileVars, childVars,
          endVars
<1>18. ASSUME EscalationFires PROVE EndInv'
  BY <1>18 DEF EscalationFires, Terminate, unmovedByChild, queueVars,
          taskVars, serialVars, probeVars, fileVars, childVars, endVars
<1>19. ASSUME ControlEcho PROVE EndInv'
  BY <1>19 DEF ControlEcho, unmovedByChild, queueVars, taskVars, serialVars,
          probeVars, fileVars, childVars, endVars
<1>20. ASSUME TeardownTimesOut PROVE EndInv'
  BY <1>20 DEF TeardownTimesOut, unmovedByChild, queueVars, taskVars,
          serialVars, probeVars, fileVars, childVars, endVars
<1>21. ASSUME NodeExits PROVE EndInv'
  BY <1>21 DEF NodeExits, queueVars, taskVars, serialVars, probeVars,
          fileVars, childVars, endVars
<1>22. CASE UNCHANGED vars
  BY <1>22 DEF vars, queueVars, taskVars, serialVars, probeVars, fileVars,
          childVars, endVars
<1> QED
  BY <1>1, <1>2, <1>3, <1>4, <1>5, <1>6, <1>7, <1>8, <1>9, <1>10, <1>11,
          <1>12, <1>13, <1>14, <1>15, <1>16, <1>17, <1>18, <1>19, <1>20,
          <1>21, <1>22
     DEF Next, Call, TaskBody, CommandSettles, Child

-----------------------------------------------------------------------------
(* Invariance.                                                             *)

(* The session starts with no child, an empty queue and nothing torn down. *)
LEMMA InitLemma == Init => IInv
<1> SUFFICES ASSUME Init PROVE IInv
  OBVIOUS
<1> USE SessionAssumption DEF Init, Tasks, Procs, NoTask, NoProc
<1>1. TypeOK
  <2>1. /\ destroyed \in BOOLEAN /\ exiting \in BOOLEAN /\ registered \in BOOLEAN
        /\ version \in BOOLEAN /\ nodeExited \in BOOLEAN
    BY Zenon
  <2>2. queue \in Seq(Tasks)
    OBVIOUS
  <2>3. /\ killed \in [Procs -> BOOLEAN] /\ attached \in [Procs -> BOOLEAN]
        /\ arm \in [Tasks -> BOOLEAN]
    BY Zenon
  <2> QED
    BY <2>1, <2>2, <2>3 DEF TypeOK, TaskKinds, RegularKinds, QueryKind
<1>2. HandleInv
  BY DEF HandleInv, OneChild, IsProcLive, Running, RegistrationFollowsChild
<1>3. RunInv
  BY DEF RunInv, CommandKeepsItsChild, SweptNeverRuns
<1>4. QueueInv
  BY DEF QueueInv
<1>5. EndInv
  BY DEF EndInv, TeardownIsFinal
<1> QED BY <1>1, <1>2, <1>3, <1>4, <1>5 DEF IInv

(* The inductive invariant holds in every state of every behaviour of the  *)
(* session, whatever the number of commands, children, files and probes.   *)
THEOREM Invariance == Spec => []IInv
<1>1. IInv /\ [Next]_vars => IInv'
  BY TypeStep, HandleStep, RunStep, QueueStep, EndStep DEF IInv
<1> QED BY InitLemma, <1>1, PTL DEF Spec

(* Every variable keeps its type: in particular the probe attempts for one *)
(* child never exceed VERSION_DETECTION_MAX_ATTEMPTS                       *)
(* (agda-version-detection.ts), whatever that cap is.                      *)
THEOREM TypeCorrect == Spec => []TypeOK
<1>1. IInv => TypeOK
  BY DEF IInv
<1> QED BY Invariance, <1>1, PTL

(* At most one child lives unterminated or is wired to the transport, the  *)
(* one the session holds: spawn, replacement, failure and teardown         *)
(* (session-process-lifecycle.ts) never leave a second one.                *)
THEOREM OnlyOneChild == Spec => []OneChild
<1>1. IInv => OneChild
  BY DEF IInv, HandleInv
<1> QED BY Invariance, <1>1, PTL

(* A command swept by a control command (dispatchSessionControlCommand) is *)
(* never in flight afterwards, not even behind its own version probe.      *)
THEOREM SweepIsFinal == Spec => []SweptNeverRuns
<1>1. IInv => SweptNeverRuns
  BY DEF IInv, RunInv
<1> QED BY Invariance, <1>1, PTL

(* Nothing replaces or retires the child of the command in flight: the     *)
(* session holds that child until it has closed.                           *)
THEOREM CommandKeepsChild == Spec => []CommandKeepsItsChild
<1>1. IInv => CommandKeepsItsChild
  BY DEF IInv, RunInv
<1> QED BY Invariance, <1>1, PTL

(* The AGDA_DIR of a child (freeLibraryRegistration) lives exactly as long *)
(* as the session holds the child.                                         *)
THEOREM RegistrationLives == Spec => []RegistrationFollowsChild
<1>1. IInv => RegistrationFollowsChild
  BY DEF IInv, HandleInv
<1> QED BY Invariance, <1>1, PTL

(* destroy() is final, and its promise resolves only once the child it     *)
(* tore down has exited (destroySessionProcess, armProcExitWaiter).        *)
THEOREM DestroyIsFinal == Spec => []TeardownIsFinal
<1>1. IInv => TeardownIsFinal
  BY DEF IInv, EndInv
<1> QED BY Invariance, <1>1, PTL

-----------------------------------------------------------------------------
(* Refinement.                                                             *)

(* A submission or an interruption is a step of the abstract queue.        *)
LEMMA CallRefines == ASSUME IInv, Call PROVE [Abstract!Next]_(Abstract!vars)
<1> USE DEF Abstract!vars, Tasks, NoTask
<1>1. TypeOK /\ RunInv /\ QueueInv
  BY DEF IInv
<1>2. ASSUME NEW t \in Tasks, NEW k \in RegularKinds, NEW f \in Files \cup {NoFile},
             SubmitRegular(t, k, f)
      PROVE  Abstract!Next
  <2>1. Abstract!Submit(t)
    BY <1>1, <1>2 DEF SubmitRegular, NewTask, QueueInv, TypeOK, Abstract!Submit,
                      Abstract!Enqueue
  <2> QED BY <2>1 DEF Abstract!Next
<1>3. ASSUME NEW t \in Tasks, NEW k \in ControlKinds, SubmitControl(t, k)
      PROVE  Abstract!Next
  <2>1. outcome[t] = "new" /\ queue' = Append(queue, t) /\ t # running
    BY <1>1, <1>3 DEF SubmitControl, NewTask, QueueInv, RunInv, TypeOK
  <2>2. CASE running = NoTask
    <3>0. \A u \in Tasks : u # running
      BY <2>2
    <3>1. outcome' = [outcome EXCEPT ![t] = "waiting"]
      <4> outcome \in [Tasks -> {"new", "waiting", "resolved", "rejected"}]
        BY <1>1 DEF TypeOK
      <4> HIDE DEF Tasks
      <4> QED BY <1>3, <3>0 DEF SubmitControl
    <3>2. Abstract!Submit(t)
      BY <1>3, <2>1, <2>2, <3>1 DEF SubmitControl, Abstract!Submit, Abstract!Enqueue
    <3> QED BY <3>2 DEF Abstract!Next
  <2>3. CASE running # NoTask
    <3> DEFINE o == IF Regular(running) THEN "rejected" ELSE "resolved"
    <3>1. o \in Abstract!Answers
      BY DEF Abstract!Answers
    <3>2. outcome' = [outcome EXCEPT ![running] = o, ![t] = "waiting"]
      BY <1>1, <1>3, <2>1, <2>3 DEF SubmitControl, TypeOK
    <3>3. Abstract!Interrupt(t, o)
      BY <1>3, <2>1, <2>3, <3>2 DEF SubmitControl, Abstract!Interrupt, Abstract!Enqueue
    <3> HIDE DEF o
    <3> QED BY <3>1, <3>3 DEF Abstract!Next
  <2> QED BY <2>2, <2>3
<1>4. ASSUME Destroy PROVE [Abstract!Next]_(Abstract!vars)
  <2>1. CASE running = NoTask
    <3>1. outcome' = outcome
      BY <1>1, <1>4, <2>1 DEF Destroy, TypeOK
    <3> QED BY <1>4, <2>1, <3>1 DEF Destroy
  <2>2. CASE running # NoTask
    <3> DEFINE o == IF Regular(running) THEN "rejected" ELSE "resolved"
    <3>1. o \in Abstract!Answers
      BY DEF Abstract!Answers
    <3>2. outcome' = [outcome EXCEPT ![running] = o]
      BY <1>1, <1>4, <2>2 DEF Destroy, TypeOK
    <3> HIDE DEF o
    <3>3. Abstract!Answer
      BY <1>4, <2>2, <3>1, <3>2 DEF Destroy, Abstract!Answer
    <3> QED BY <3>3 DEF Abstract!Next
  <2> QED BY <2>1, <2>2
<1> QED BY <1>2, <1>3, <1>4 DEF Call

(* A task body begins or refuses the oldest command.                       *)
LEMMA TaskBodyRefines == ASSUME IInv, TaskBody PROVE Abstract!Next
<1>1. ASSUME NEW t \in Tasks, Refuse(t) \/ RegistrationFails(t) PROVE Abstract!Refuse
  BY <1>1 DEF Refuse, RegistrationFails, NextTask, Abstract!Refuse
<1>2. ASSUME NEW t \in Tasks, StartProbe(t) \/ StartSend(t) \/ StartFlush(t)
      PROVE  Abstract!Begin
  BY <1>2 DEF StartProbe, StartSend, StartFlush, StartBody, NextTask, Abstract!Begin
<1> QED BY <1>1, <1>2 DEF TaskBody, Abstract!Next

(* A settlement answers the command in flight, or moves it from its probe  *)
(* to its own responses, which the abstract queue does not see.            *)
LEMMA SettlementRefines ==
  ASSUME IInv, CommandSettles PROVE [Abstract!Next]_(Abstract!vars)
<1> USE DEF Abstract!vars, unmovedBySettling
<1>0. running = NoTask <=> phase = "idle"
  BY DEF IInv, RunInv
<1>1. ASSUME NEW o \in Abstract!Answers, Settle(o), running # NoTask, queue' = queue
      PROVE  Abstract!Next
  BY <1>1 DEF Settle, Abstract!Answer, Abstract!Next
<1>2. {"resolved", "rejected"} = Abstract!Answers
  BY DEF Abstract!Answers
<1>3. CASE ProbeAnswered
  BY <1>0, <1>1, <1>2, <1>3 DEF ProbeAnswered
<1>4. CASE WatchdogFires
  BY <1>0, <1>1, <1>2, <1>4 DEF WatchdogFires
<1>5. CASE SendAnswered
  BY <1>0, <1>1, <1>2, <1>5 DEF SendAnswered
<1>6. CASE FlushElapses
  BY <1>0, <1>1, <1>2, <1>6 DEF FlushElapses
<1>7. ASSUME NEW p \in Procs, SpawnFails(p) PROVE Abstract!Next
  BY <1>1, <1>2, <1>7 DEF SpawnFails
<1> QED BY <1>3, <1>4, <1>5, <1>6, <1>7 DEF CommandSettles

(* The session's steps are steps of the abstract queue or stutters: each   *)
(* command is answered once, in the order of submission, one at a time     *)
(* (the safety part of ImplementsQueue; that each is answered in the end   *)
(* is left to TLC).                                                        *)
THEOREM QueueRefinement == Spec => Abstract!Init /\ [][Abstract!Next]_(Abstract!vars)
<1>1. Init => Abstract!Init
  BY DEF Init, Abstract!Init
<1>2. IInv /\ [Next]_vars => [Abstract!Next]_(Abstract!vars)
  <2> SUFFICES ASSUME IInv, [Next]_vars PROVE [Abstract!Next]_(Abstract!vars)
    OBVIOUS
  <2>1. CASE Call
    BY <2>1, CallRefines
  <2>2. CASE TaskBody
    BY <2>2, TaskBodyRefines
  <2>3. CASE CommandSettles
    BY <2>3, SettlementRefines
  <2>4. CASE Child \/ TeardownTimesOut
    BY <2>4 DEF Child, ProcStarts, ProcExits, SigkillFires, ProcCloses, EscalationFires,
                ControlEcho, TeardownTimesOut, unmovedByChild, queueVars, Abstract!vars
  <2>5. CASE NodeExits
    BY <2>5 DEF NodeExits, queueVars, Abstract!vars
  <2>6. CASE UNCHANGED vars
    BY <2>6 DEF vars, queueVars, Abstract!vars
  <2> QED BY <2>1, <2>2, <2>3, <2>4, <2>5, <2>6 DEF Next
<1> QED BY Invariance, <1>1, <1>2, PTL DEF Spec

=============================================================================
