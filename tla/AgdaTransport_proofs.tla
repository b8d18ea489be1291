------------------------ MODULE AgdaTransport_proofs ------------------------
(***************************************************************************)
(* What holds of AgdaTransport for any number of commands and children and *)
(* every set of command kinds, however the children behave.                *)
(***************************************************************************)
EXTENDS AgdaTransport, FiniteSetTheorems, TLAPS

(* The session listens to its child and to no other, and a command in      *)
(* flight has that child, or had it until it closed.                       *)
ChildInv ==
  /\ \A p \in Procs : attached[p] <=> p = proc
  /\ inflight # NoCommand => /\ target[inflight] \in Procs
                             /\ proc \in {NoProc, target[inflight]}

(* A response says who wrote it, and the first half of a line is delivered *)
(* before the rest of it.                                                  *)
LineInv ==
  \A p \in Procs : /\ \A i \in DOMAIN stdout[p] : stdout[p][i].from = p
                   /\ cut[p] => stdout[p] # <<>> /\ Head(stdout[p]).kind # "Fatal"

(* The commands come in the order of their numbers; the one in flight has  *)
(* come, and so have those that are to be finished.                        *)
CommandInv ==
  /\ \E n \in Nat : \A c \in Commands : outcome[c] # "unsent" <=> c <= n
  /\ inflight # NoCommand => outcome[inflight] = "pending"
  /\ \A i \in DOMAIN trailing : outcome[trailing[i]] # "unsent"

(* A load in flight that the idle timer, or a scheduled finish, is about to*)
(* resolve has its terminus, or has lost its child.                        *)
TerminusInv ==
  /\ inflight = NoCommand => ~collecting /\ ~idleTimer
  /\ inflight # NoCommand /\ kind[inflight] = "load" =>
       /\ collecting /\ idleTimer => TerminusReached(KindsIn(responseQueue))
       /\ \A i \in DOMAIN trailing :
            trailing[i] = inflight => \/ TerminusReached(KindsIn(responseQueue))
                                      \/ ~Running(target[inflight])

IInv == /\ TypeOK
        /\ ChildInv /\ LineInv /\ CommandInv /\ TerminusInv
        /\ OnlyItsOwnChild /\ NoSplice

-----------------------------------------------------------------------------
(* ensureProcess.                                                          *)
LEMMA EnsureLemma ==
  ASSUME TypeOK, NEW p \in Procs, EnsureProcess(p)
  PROVE /\ proc' = p
        /\ status' \in [Procs -> {"unborn", "starting", "running", "exited", "closed"}]
        /\ killed' \in [Procs -> BOOLEAN] /\ attached' \in [Procs -> BOOLEAN]
        /\ ChildInv => \A q \in Procs : attached'[q] <=> q = p
<1> USE DEF TypeOK, NoProc, Procs
<1>1. CASE UNCHANGED <<proc, status, killed, attached>> /\ p = proc
  BY <1>1 DEF ChildInv
<1>2. CASE /\ proc' = p
           /\ status' = [status EXCEPT ![p] = "starting"]
           /\ killed' = IF proc = NoProc THEN killed ELSE Terminate(proc)
           /\ attached' = [q \in Procs |-> q = p \/ (attached[q] /\ q # proc)]
  <2>1. killed' \in [Procs -> BOOLEAN]
    BY <1>2 DEF Terminate, Running
  <2> QED BY <1>2, <2>1 DEF ChildInv
<1> QED BY <1>1, <1>2 DEF EnsureProcess

LEMMA TypeInit == Init => TypeOK
<1> SUFFICES ASSUME Init PROVE TypeOK
  OBVIOUS
<1> USE DEF Init
<1>1. /\ collecting \in BOOLEAN /\ idleTimer \in BOOLEAN /\ rearm \in BOOLEAN
      /\ buffer \in {EmptyBuffer, Junk} \cup {Half(r) : r \in Responses}
      /\ escalation \in Procs \cup {NoProc} /\ inflight \in Commands \cup {NoCommand}
      /\ proc \in Procs \cup {NoProc} /\ destroyed \in BOOLEAN /\ unheeded \in BOOLEAN
  OBVIOUS
<1>2. responseQueue \in Seq(Responses) /\ trailing \in Seq(Commands)
  OBVIOUS
<1>3. /\ outcome \in [Commands -> {"unsent", "pending", "resolved", "rejected"}]
      /\ status \in [Procs -> {"unborn", "starting", "running", "exited", "closed"}]
      /\ kind \in [Commands -> Kinds \cup {"none"}]
      /\ target \in [Commands -> Procs \cup {NoProc}]
  OBVIOUS
<1>4. /\ killed \in [Procs -> BOOLEAN] /\ attached \in [Procs -> BOOLEAN]
      /\ closeHook \in [Procs -> BOOLEAN] /\ cut \in [Procs -> BOOLEAN]
      /\ stdin \in [Procs -> Seq(Commands)] /\ stdout \in [Procs -> Seq(Responses)]
      /\ busy \in [Procs -> Commands \cup {NoCommand}]
      /\ emitted \in [Commands -> SUBSET ResponseKinds]
  OBVIOUS
<1> QED BY <1>1, <1>2, <1>3, <1>4, Zenon DEF TypeOK

(* Every action keeps the types.                                           *)
LEMMA TypeStep == ASSUME TypeOK, [Next]_vars PROVE TypeOK'
<1> USE DEF TypeOK
<1> DEFINE Buffers == {EmptyBuffer, Junk} \cup {Half(r) : r \in Responses}
<1>1. ASSUME NEW c \in Commands, NEW k \in Kinds, SendCommand(c, k) PROVE TypeOK'
  <2>1. PICK p \in Procs : /\ EnsureProcess(p)
                           /\ stdin' = [stdin EXCEPT ![p] = Append(@, c)]
                           /\ target' = [target EXCEPT ![c] = p]
    BY <1>1 DEF SendCommand
  <2>2. /\ stdin' \in [Procs -> Seq(Commands)] /\ target' \in [Commands -> Procs \cup {NoProc}]
        /\ kind' \in [Commands -> Kinds \cup {"none"}]
        /\ outcome' \in [Commands -> {"unsent", "pending", "resolved", "rejected"}]
    BY <1>1, <2>1 DEF SendCommand
  <2>3. buffer' \in Buffers /\ responseQueue' \in Seq(Responses) /\ collecting' \in BOOLEAN
    BY <1>1 DEF SendCommand, StartCollecting
  <2>4. /\ proc' \in Procs \cup {NoProc} /\ inflight' \in Commands \cup {NoCommand}
        /\ status' \in [Procs -> {"unborn", "starting", "running", "exited", "closed"}]
        /\ killed' \in [Procs -> BOOLEAN] /\ attached' \in [Procs -> BOOLEAN]
    BY <1>1, <2>1, EnsureLemma DEF SendCommand
  <2>5. rearm' \in BOOLEAN /\ unheeded' \in BOOLEAN
    BY <1>1 DEF SendCommand
  <2>6. UNCHANGED <<idleTimer, escalation, trailing, destroyed, closeHook, stdout, cut, busy, emitted>>
    BY <1>1 DEF SendCommand, agdaVars
  <2> QED BY <2>2, <2>3, <2>4, <2>5, <2>6
<1>2. ASSUME NEW c \in Commands, NEW k \in Kinds, SendFireAndForgetCommand(c, k) PROVE TypeOK'
  <2> DEFINE armEscalation == k = "exit" \/ inflight # NoCommand
  <2>1. PICK p \in Procs : /\ EnsureProcess(p)
                           /\ stdin' = [stdin EXCEPT ![p] = Append(@, c)]
                           /\ target' = [target EXCEPT ![c] = p]
                           /\ escalation' = IF armEscalation THEN p ELSE NoProc
                           /\ closeHook' = [closeHook EXCEPT ![p] = @ \/ armEscalation]
    BY <1>2 DEF SendFireAndForgetCommand
  <2>2. /\ stdin' \in [Procs -> Seq(Commands)] /\ target' \in [Commands -> Procs \cup {NoProc}]
        /\ kind' \in [Commands -> Kinds \cup {"none"}]
        /\ escalation' \in Procs \cup {NoProc} /\ closeHook' \in [Procs -> BOOLEAN]
    BY <1>2, <2>1 DEF SendFireAndForgetCommand
  <2>3. outcome' \in [Commands -> {"unsent", "pending", "resolved", "rejected"}]
    BY <1>2 DEF SendFireAndForgetCommand, RejectInFlightCommand, ErrorOutcome
  <2>4. buffer' \in Buffers /\ responseQueue' \in Seq(Responses) /\ collecting' \in BOOLEAN
    BY <1>2 DEF SendFireAndForgetCommand, StartCollecting
  <2>5. /\ proc' \in Procs \cup {NoProc} /\ inflight' \in Commands \cup {NoCommand}
        /\ status' \in [Procs -> {"unborn", "starting", "running", "exited", "closed"}]
        /\ killed' \in [Procs -> BOOLEAN] /\ attached' \in [Procs -> BOOLEAN]
    BY <1>2, <2>1, EnsureLemma DEF SendFireAndForgetCommand
  <2>6. idleTimer' \in BOOLEAN /\ rearm' \in BOOLEAN /\ unheeded' \in BOOLEAN
    BY <1>2, Zenon DEF SendFireAndForgetCommand
  <2>7. UNCHANGED <<trailing, destroyed, stdout, cut, busy, emitted>>
    BY <1>2 DEF SendFireAndForgetCommand, agdaVars
  <2> QED BY <2>2, <2>3, <2>4, <2>5, <2>6, <2>7
<1>3. ASSUME Destroy PROVE TypeOK'
  <2>1. outcome' \in [Commands -> {"unsent", "pending", "resolved", "rejected"}]
    BY <1>3 DEF Destroy, RejectInFlightCommand, ErrorOutcome
  <2>2. killed' \in [Procs -> BOOLEAN] /\ attached' \in [Procs -> BOOLEAN]
    BY <1>3 DEF Destroy, Terminate, Running
  <2>3. buffer' \in Buffers /\ responseQueue' \in Seq(Responses)
    BY <1>3 DEF Destroy
  <2>4. UNCHANGED <<trailing, status, closeHook, stdin, stdout, cut, busy, emitted, kind, target,
                    unheeded>>
    BY <1>3 DEF Destroy, agdaVars, commandVars
  <2>5. /\ destroyed' \in BOOLEAN /\ collecting' \in BOOLEAN /\ idleTimer' \in BOOLEAN
        /\ rearm' \in BOOLEAN /\ proc' \in Procs \cup {NoProc}
        /\ escalation' \in Procs \cup {NoProc} /\ inflight' \in Commands \cup {NoCommand}
    BY <1>3 DEF Destroy
  <2> QED BY <2>1, <2>2, <2>3, <2>4, <2>5
<1>4. ASSUME NEW p \in Procs, HandleStdoutPartial(p) PROVE TypeOK'
  <2>1. Head(stdout[p]) \in Responses
    BY <1>4 DEF HandleStdoutPartial
  <2>2. buffer' \in Buffers
    BY <1>4, <2>1 DEF HandleStdoutPartial
  <2> QED BY <1>4, <2>2 DEF HandleStdoutPartial, promiseVars, handleVars, agdaVars, commandVars
<1>5. ASSUME NEW r \in Responses, RecordCollectedResponse(r)
      PROVE /\ escalation' \in Procs \cup {NoProc} /\ responseQueue' \in Seq(Responses)
            /\ idleTimer' \in BOOLEAN /\ unheeded' \in BOOLEAN
  <2>1. escalation' \in Procs \cup {NoProc} /\ responseQueue' \in Seq(Responses)
    BY <1>5 DEF RecordCollectedResponse
  <2>2. ShouldResolveOnIdle(inflight, responseQueue') \in BOOLEAN
    BY Zenon DEF ShouldResolveOnIdle
  <2>3. idleTimer' \in BOOLEAN
    BY <1>5, <2>2 DEF RecordCollectedResponse
  <2>4. unheeded' \in BOOLEAN
    BY <1>5 DEF RecordCollectedResponse, Regular
  <2> QED BY <2>1, <2>3, <2>4
<1>6. ASSUME NEW p \in Procs, HandleStdout(p) PROVE TypeOK'
  <2>1. Head(stdout[p]) \in Responses /\ stdout' \in [Procs -> Seq(Responses)]
        /\ cut' \in [Procs -> BOOLEAN]
    BY <1>6 DEF HandleStdout
  <2>2. buffer' \in Buffers
    BY <1>6 DEF HandleStdout
  <2>3. /\ escalation' \in Procs \cup {NoProc} /\ responseQueue' \in Seq(Responses)
        /\ idleTimer' \in BOOLEAN /\ unheeded' \in BOOLEAN
    BY <1>5, <1>6, <2>1 DEF HandleStdout, Regular
  <2> QED BY <1>6, <2>1, <2>2, <2>3 DEF HandleStdout, promiseVars, handleVars, agdaVars, commandVars
<1>7. ASSUME NEW p \in Procs, HandleStderr(p) PROVE TypeOK'
  <2>1. Head(stdout[p]) \in Responses /\ stdout' \in [Procs -> Seq(Responses)]
    BY <1>7 DEF HandleStderr
  <2>3. /\ escalation' \in Procs \cup {NoProc} /\ responseQueue' \in Seq(Responses)
        /\ idleTimer' \in BOOLEAN /\ unheeded' \in BOOLEAN
    BY <1>5, <1>7, <2>1 DEF HandleStderr, Regular
  <2> QED BY <1>7, <2>1, <2>3 DEF HandleStderr, promiseVars, handleVars, agdaVars, commandVars
<1>8. ASSUME EmitDone PROVE trailing' \in Seq(Commands)
  BY <1>8 DEF EmitDone, Regular
<1>9. ASSUME NEW p \in Procs, HandleProcessClose(p) PROVE TypeOK'
  BY <1>8, <1>9 DEF HandleProcessClose, promiseVars, agdaVars, commandVars, NoProc
<1>10. ASSUME NEW c \in Commands, NEW o \in {"resolved", "rejected"}, Finish(c, o)
       PROVE /\ collecting' \in BOOLEAN /\ idleTimer' \in BOOLEAN /\ rearm' \in BOOLEAN
             /\ inflight' \in Commands \cup {NoCommand}
             /\ outcome' \in [Commands -> {"unsent", "pending", "resolved", "rejected"}]
  BY <1>10 DEF Finish, promiseVars
<1>11. ASSUME NEW p \in Procs, HandleProcessError(p) PROVE TypeOK'
  <2>1. inflight \in Commands /\ ErrorOutcome(inflight) \in {"resolved", "rejected"}
    BY <1>11 DEF HandleProcessError, ErrorOutcome
  <2> QED BY <1>10, <1>11, <2>1 DEF HandleProcessError, handleVars, agdaVars, commandVars
<1>12. ASSUME IdleTimerFires PROVE TypeOK'
  BY <1>8, <1>12 DEF IdleTimerFires, promiseVars, handleVars, agdaVars, commandVars
<1>13. ASSUME TrailingFinish PROVE TypeOK'
  <2>1. Head(trailing) \in Commands /\ trailing' \in Seq(Commands)
    BY <1>13 DEF TrailingFinish
  <2> QED BY <1>10, <1>13, <2>1 DEF TrailingFinish, handleVars, agdaVars, commandVars
<1>14. ASSUME InactivityTimeout PROVE TypeOK'
  <2>1. inflight \in Commands /\ killed' \in [Procs -> BOOLEAN]
    BY <1>14 DEF InactivityTimeout, Terminate, Running, Regular
  <2> QED BY <1>10, <1>14, <2>1 DEF InactivityTimeout, handleVars, agdaVars, commandVars
<1>15. ASSUME FlushElapses PROVE TypeOK'
  BY <1>15 DEF FlushElapses, handleVars, agdaVars, commandVars
<1>16. ASSUME EscalationFires PROVE TypeOK'
  <2>1. killed' \in [Procs -> BOOLEAN]
    BY <1>16 DEF EscalationFires, Terminate, Running
  <2> QED BY <1>16, <2>1 DEF EscalationFires, transportVars, promiseVars, handleVars, agdaVars, commandVars
<1>17. ASSUME NEW p \in Procs, SigkillFires(p) \/ AgdaStarts(p) \/ AgdaDies(p) PROVE TypeOK'
  BY <1>17 DEF SigkillFires, AgdaStarts, AgdaDies, bridgeVars, transportVars, promiseVars,
     handleVars, agdaVars, commandVars
<1>18. ASSUME NEW p \in Procs, NEW c \in Commands, NEW k \in ResponseKinds, Emit(p, c, k)
       PROVE stdout' \in [Procs -> Seq(Responses)]
  <2> DEFINE r == [cmd |-> c, kind |-> k, from |-> p]
  <2>1. r \in Responses
    BY DEF Responses
  <2>2. Append(stdout[p], r) \in Seq(Responses)
    BY <2>1
  <2>3. stdout' = [stdout EXCEPT ![p] = Append(stdout[p], r)]
    BY <1>18 DEF Emit
  <2> HIDE DEF r
  <2> QED BY <2>2, <2>3
<1>19. ASSUME NEW p \in Procs, AgdaReads(p) PROVE TypeOK'
  <2>1. Head(stdin[p]) \in Commands /\ stdin' \in [Procs -> Seq(Commands)]
    BY <1>19 DEF AgdaReads
  <2>2. stdout' \in [Procs -> Seq(Responses)]
    BY <1>18, <1>19, <2>1 DEF AgdaReads, ResponseKinds, ControlResponseKinds
  <2>3. /\ busy' \in [Procs -> Commands \cup {NoCommand}]
        /\ status' \in [Procs -> {"unborn", "starting", "running", "exited", "closed"}]
    BY <1>19, <2>1 DEF AgdaReads
  <2>4. UNCHANGED <<bridgeVars, emitted>>
    BY <1>19 DEF AgdaReads
  <2> QED BY <2>1, <2>2, <2>3, <2>4 DEF bridgeVars, transportVars, promiseVars, handleVars,
             commandVars
<1>20. ASSUME NEW p \in Procs, AgdaEmits(p) PROVE TypeOK'
  <2> DEFINE c == busy[p]
  <2>1. c \in Commands
    BY <1>20 DEF AgdaEmits
  <2>2. PICK k \in MayEmit(c) : /\ Emit(p, c, k)
                                /\ emitted' = [emitted EXCEPT ![c] = @ \cup {k}]
    BY <1>20 DEF AgdaEmits
  <2>3. k \in ResponseKinds
    BY <2>2 DEF MayEmit, ResponseKinds
  <2>4. stdout' \in [Procs -> Seq(Responses)] /\ emitted' \in [Commands -> SUBSET ResponseKinds]
    BY <1>18, <2>1, <2>2, <2>3
  <2>5. busy' \in [Procs -> Commands \cup {NoCommand}]
    BY <1>20, <2>1 DEF AgdaEmits
  <2> QED BY <1>20, <2>4, <2>5 DEF AgdaEmits, bridgeVars, transportVars, promiseVars, handleVars,
             commandVars
<1>21. ASSUME NEW p \in Procs, AgdaAborts(p) PROVE TypeOK'
  <2>1. PICK i \in DOMAIN stdin[p] :
               /\ Emit(p, stdin[p][i], "DoneAborting")
               /\ stdin' = [stdin EXCEPT ![p] = SubSeq(@, i + 1, Len(@))]
    BY <1>21 DEF AgdaAborts
  <2>2. stdin[p] \in Seq(Commands) /\ stdin[p][i] \in Commands
    BY <2>1
  <2>3. stdout' \in [Procs -> Seq(Responses)]
    BY <1>18, <2>1, <2>2 DEF ResponseKinds, ControlResponseKinds
  <2>4. SubSeq(stdin[p], i + 1, Len(stdin[p])) \in Seq(Commands)
    BY <2>1, <2>2
  <2>5. stdin' \in [Procs -> Seq(Commands)]
    BY <2>1, <2>4
  <2> QED BY <1>21, <2>3, <2>5 DEF AgdaAborts, bridgeVars, transportVars, promiseVars, handleVars,
             commandVars
<1>22. CASE UNCHANGED vars
  BY <1>22 DEF vars, transportVars, promiseVars, handleVars, agdaVars, commandVars
<1> QED
  BY <1>1, <1>2, <1>3, <1>4, <1>6, <1>7, <1>9, <1>11, <1>12, <1>13, <1>14, <1>15, <1>16, <1>17,
     <1>19, <1>20, <1>21, <1>22 DEF Next, Caller, Timers

(* What the child does by itself: it leaves the bridge alone, never comes  *)
(* back to life, and signs what it writes.                                 *)
ChildStep(p) == \/ SigkillFires(p) \/ AgdaStarts(p) \/ AgdaReads(p)
                \/ AgdaEmits(p) \/ AgdaAborts(p) \/ AgdaDies(p)

LEMMA HeadOfAppend ==
  ASSUME NEW S, NEW s \in Seq(S), NEW e \in S, s # <<>>
  PROVE Append(s, e) # <<>> /\ Head(Append(s, e)) = Head(s)
<1>1. Len(s) \in Nat /\ Len(s) > 0
  OBVIOUS
<1>2. Append(s, e) \in Seq(S) /\ Append(s, e)[1] = s[1] /\ Len(Append(s, e)) = Len(s) + 1
  BY <1>1
<1> QED BY <1>1, <1>2

LEMMA EmitLemma ==
  ASSUME NEW p \in Procs, NEW c \in Commands, NEW k \in ResponseKinds, Emit(p, c, k)
  PROVE \E r \in Responses : r.from = p /\ stdout' = [stdout EXCEPT ![p] = Append(@, r)]
<1> DEFINE r == [cmd |-> c, kind |-> k, from |-> p]
<1>1. r \in Responses /\ r.from = p
  BY DEF Responses
<1>2. stdout' = [stdout EXCEPT ![p] = Append(@, r)]
  BY DEF Emit
<1> HIDE DEF r
<1> QED BY <1>1, <1>2

LEMMA ChildStepLemma ==
  ASSUME TypeOK, NEW p \in Procs, ChildStep(p)
  PROVE /\ UNCHANGED <<collecting, buffer, responseQueue, idleTimer, rearm, trailing, escalation>>
        /\ UNCHANGED <<inflight, outcome, proc, destroyed, attached, killed, closeHook, cut>>
        /\ UNCHANGED <<kind, target, unheeded>>
        /\ \A q \in Procs : status'[q] \in {"starting", "running"} => Running(q)
        /\ \/ UNCHANGED stdout
           \/ \E r \in Responses : r.from = p /\ stdout' = [stdout EXCEPT ![p] = Append(@, r)]
<1> USE DEF TypeOK
<1>1. CASE SigkillFires(p)
  BY <1>1 DEF SigkillFires, transportVars, promiseVars, handleVars, agdaVars, commandVars, Running
<1>2. ASSUME UNCHANGED bridgeVars
      PROVE /\ UNCHANGED <<collecting, buffer, responseQueue, idleTimer, rearm, trailing, escalation>>
            /\ UNCHANGED <<inflight, outcome, proc, destroyed, attached, killed, closeHook, cut>>
            /\ UNCHANGED <<kind, target, unheeded>>
  BY <1>2 DEF bridgeVars, transportVars, promiseVars, handleVars, commandVars
<1>3. CASE AgdaStarts(p) \/ AgdaDies(p)
  BY <1>2, <1>3 DEF AgdaStarts, AgdaDies, Running
<1>4. CASE AgdaReads(p)
  <2>1. Head(stdin[p]) \in Commands
    BY <1>4 DEF AgdaReads
  <2>2. \/ UNCHANGED stdout
        \/ Emit(p, Head(stdin[p]), "Fatal") \/ Emit(p, Head(stdin[p]), "DoneExiting")
    BY <1>4 DEF AgdaReads
  <2>3. \/ UNCHANGED stdout
        \/ \E r \in Responses : r.from = p /\ stdout' = [stdout EXCEPT ![p] = Append(@, r)]
    BY <2>1, <2>2, EmitLemma DEF ResponseKinds, ControlResponseKinds
  <2>4. \A q \in Procs : status'[q] \in {"starting", "running"} => Running(q)
    BY <1>4 DEF AgdaReads, Running
  <2> QED BY <1>2, <1>4, <2>3, <2>4 DEF AgdaReads
<1>5. CASE AgdaEmits(p)
  <2>1. PICK k \in MayEmit(busy[p]) : Emit(p, busy[p], k)
    BY <1>5 DEF AgdaEmits
  <2>2. k \in ResponseKinds /\ busy[p] \in Commands
    BY <1>5 DEF AgdaEmits, MayEmit, ResponseKinds
  <2> QED BY <1>2, <1>5, <2>1, <2>2, EmitLemma DEF AgdaEmits, Running
<1>6. CASE AgdaAborts(p)
  <2>1. PICK i \in DOMAIN stdin[p] : Emit(p, stdin[p][i], "DoneAborting")
    BY <1>6 DEF AgdaAborts
  <2>2. stdin[p][i] \in Commands
    BY <2>1
  <2> QED BY <1>2, <1>6, <2>1, <2>2, EmitLemma
          DEF AgdaAborts, Running, ResponseKinds, ControlResponseKinds
<1> QED BY <1>1, <1>3, <1>4, <1>5, <1>6 DEF ChildStep

-----------------------------------------------------------------------------
(* The session listens to its child only.                                  *)
LEMMA ChildStable == ASSUME TypeOK, ChildInv, [Next]_vars PROVE ChildInv'
<1> USE DEF TypeOK, ChildInv
<1>0. NoProc \notin Procs /\ NoCommand \notin Commands
  BY TransportAssumption DEF NoProc, NoCommand, Procs, Commands
<1>1. ASSUME NEW c \in Commands, NEW k \in Kinds,
             SendCommand(c, k) \/ SendFireAndForgetCommand(c, k) PROVE ChildInv'
  <2>1. PICK p \in Procs : EnsureProcess(p) /\ target' = [target EXCEPT ![c] = p]
    BY <1>1 DEF SendCommand, SendFireAndForgetCommand
  <2>2. inflight' = c
    BY <1>1 DEF SendCommand, SendFireAndForgetCommand
  <2>3. proc' = p /\ \A q \in Procs : attached'[q] <=> q = p
    BY <2>1, EnsureLemma
  <2> QED BY <2>1, <2>2, <2>3
<1>2. CASE Destroy
  BY <1>0, <1>2 DEF Destroy, commandVars
<1>3. ASSUME NEW p \in Procs, HandleProcessClose(p) PROVE ChildInv'
  <2>1. attached' = [attached EXCEPT ![p] = FALSE]
    BY <1>3 DEF HandleProcessClose
  <2>2. proc' = IF attached[p] /\ proc = p THEN NoProc ELSE proc
    BY <1>3 DEF HandleProcessClose
  <2>3. UNCHANGED <<inflight, target>>
    BY <1>3 DEF HandleProcessClose, promiseVars, commandVars
  <2> QED BY <1>0, <2>1, <2>2, <2>3
<1>4. ASSUME UNCHANGED <<proc, attached, target>>, inflight' \in {inflight, NoCommand}
      PROVE ChildInv'
  BY <1>4
<1>5. ASSUME NEW p \in Procs,
             HandleStdoutPartial(p) \/ HandleStdout(p) \/ HandleStderr(p)
      PROVE ChildInv'
  BY <1>4, <1>5 DEF HandleStdoutPartial, HandleStdout, HandleStderr, promiseVars, handleVars,
     commandVars
<1>6. ASSUME NEW p \in Procs, ChildStep(p) PROVE ChildInv'
  BY <1>4, <1>6, ChildStepLemma
<1>7. ASSUME NEW p \in Procs, HandleProcessError(p) PROVE ChildInv'
  BY <1>4, <1>7 DEF HandleProcessError, Finish, promiseVars, handleVars, commandVars
<1>8. CASE Timers
  BY <1>4, <1>8 DEF Timers, IdleTimerFires, TrailingFinish, InactivityTimeout, FlushElapses,
     EscalationFires, Finish, promiseVars, handleVars, commandVars
<1>9. CASE UNCHANGED vars
  BY <1>4, <1>9 DEF vars, promiseVars, handleVars, commandVars
<1> QED BY <1>1, <1>2, <1>3, <1>5, <1>6, <1>7, <1>8, <1>9 DEF Next, Caller, ChildStep

(* A line is signed by its writer, and its halves come in order.           *)
LEMMA LineStable == ASSUME TypeOK, LineInv, [Next]_vars PROVE LineInv'
<1> USE DEF TypeOK, LineInv
<1>1. ASSUME UNCHANGED <<stdout, cut>> PROVE LineInv'
  BY <1>1
<1>2. CASE Caller \/ Timers \/ UNCHANGED vars \/ \E p \in Procs : HandleProcessClose(p)
  BY <1>1, <1>2 DEF Caller, SendCommand, SendFireAndForgetCommand, Destroy, Timers, IdleTimerFires,
     TrailingFinish, InactivityTimeout, FlushElapses, EscalationFires, HandleProcessClose, vars
<1>3. ASSUME NEW p \in Procs, HandleProcessError(p) PROVE LineInv'
  BY <1>1, <1>3 DEF HandleProcessError
<1>4. ASSUME NEW p \in Procs, HandleStdoutPartial(p) PROVE LineInv'
  BY <1>4 DEF HandleStdoutPartial
<1>5. ASSUME NEW p \in Procs, stdout[p] # <<>>, stdout' = [stdout EXCEPT ![p] = Tail(@)],
             \/ cut' = [cut EXCEPT ![p] = FALSE]
             \/ UNCHANGED cut /\ ~cut[p]
      PROVE LineInv'
  <2>1. \A q \in Procs : q # p => stdout'[q] = stdout[q] /\ cut'[q] = cut[q]
    BY <1>5
  <2>2. stdout'[p] = Tail(stdout[p]) /\ ~cut'[p]
    BY <1>5
  <2>3. \A i \in DOMAIN stdout'[p] : stdout'[p][i] = stdout[p][i + 1] /\ i + 1 \in DOMAIN stdout[p]
    BY <1>5, <2>2
  <2>4. \A i \in DOMAIN stdout'[p] : stdout'[p][i].from = p
    BY <2>3
  <2> QED BY <2>1, <2>2, <2>4
<1>6. ASSUME NEW p \in Procs, HandleStdout(p) \/ HandleStderr(p) PROVE LineInv'
  BY <1>5, <1>6 DEF HandleStdout, HandleStderr
<1>7. ASSUME NEW p \in Procs, ChildStep(p) PROVE LineInv'
  <2>1. CASE UNCHANGED <<stdout, cut>>
    BY <1>1, <2>1
  <2>2. ASSUME NEW r \in Responses, r.from = p, stdout' = [stdout EXCEPT ![p] = Append(@, r)],
               UNCHANGED cut
        PROVE LineInv'
    <3>1. \A q \in Procs : q # p => stdout'[q] = stdout[q]
      BY <2>2
    <3>2. stdout'[p] = Append(stdout[p], r) /\ stdout[p] \in Seq(Responses)
      BY <2>2
    <3>3. \A i \in DOMAIN stdout'[p] : stdout'[p][i].from = p
      BY <2>2, <3>2
    <3>4. cut[p] => stdout'[p] # <<>> /\ Head(stdout'[p]) = Head(stdout[p])
      <4> SUFFICES ASSUME cut[p] PROVE stdout'[p] # <<>> /\ Head(stdout'[p]) = Head(stdout[p])
        OBVIOUS
      <4>1. stdout[p] # <<>>
        OBVIOUS
      <4>2. Append(stdout[p], r) # <<>> /\ Head(Append(stdout[p], r)) = Head(stdout[p])
        BY <3>2, <4>1, HeadOfAppend, Zenon
      <4> QED BY <3>2, <4>2
    <3> QED BY <2>2, <3>1, <3>3, <3>4
  <2> QED BY <1>7, <2>1, <2>2, ChildStepLemma
<1> QED BY <1>2, <1>3, <1>4, <1>6, <1>7 DEF Next, ChildStep

(* A command that is handed over is new, and the next one in order.        *)
LEMMA NextIsNew ==
  ASSUME TypeOK, CommandInv, NEW c \in Commands, c = NextCommand
  PROVE outcome[c] = "unsent" /\ \A d \in Commands : outcome[d] # "unsent" <=> d < c
<1> DEFINE sent == {d \in Commands : outcome[d] # "unsent"}
<1>1. PICK n \in Nat : \A d \in Commands : outcome[d] # "unsent" <=> d <= n
  BY DEF CommandInv
<1>2. MaxCommand \in Nat /\ Commands = 1..MaxCommand
  BY TransportAssumption DEF Commands
<1>3. PICK m \in Nat : m = IF n <= MaxCommand THEN n ELSE MaxCommand
  BY <1>2
<1>4. sent = 1..m
  BY <1>1, <1>2, <1>3
<1>5. Cardinality(sent) = m
  <2>1. Cardinality(1..m) = IF 1 > m THEN 0 ELSE m - 1 + 1
    BY FS_Interval
  <2>2. Cardinality(1..m) = m
    BY <2>1
  <2> HIDE DEF sent
  <2> QED BY <1>4, <2>2
<1>6. c = m + 1
  BY <1>5 DEF NextCommand
<1>7. m = n
  BY <1>2, <1>3, <1>6
<1> QED BY <1>1, <1>2, <1>6, <1>7

LEMMA CommandStable == ASSUME TypeOK, CommandInv, [Next]_vars PROVE CommandInv'
<1> USE DEF TypeOK
<1>0. NoCommand \notin Commands
  BY TransportAssumption DEF NoCommand, Commands
<1>1. ASSUME NEW c \in Commands, c = NextCommand, inflight' = c, outcome'[c] = "pending",
             \A d \in Commands : d # c => (outcome'[d] # "unsent" <=> outcome[d] # "unsent"),
             UNCHANGED trailing
      PROVE CommandInv'
  <2>1. outcome[c] = "unsent" /\ \A d \in Commands : outcome[d] # "unsent" <=> d < c
    BY <1>1, NextIsNew
  <2>2. c \in Nat /\ \A d \in Commands : d \in Nat
    BY TransportAssumption DEF Commands
  <2>3. \A d \in Commands : outcome'[d] # "unsent" <=> d <= c
    BY <1>1, <2>1, <2>2
  <2>4. \A i \in DOMAIN trailing' : outcome'[trailing'[i]] # "unsent"
    BY <1>1, <2>1 DEF CommandInv
  <2> QED BY <1>1, <2>2, <2>3, <2>4 DEF CommandInv
<1>2. \A d \in Commands : RejectInFlightCommand[d] # "unsent" <=> outcome[d] # "unsent"
  <2> SUFFICES ASSUME NEW d \in Commands
               PROVE RejectInFlightCommand[d] # "unsent" <=> outcome[d] # "unsent"
    OBVIOUS
  <2>1. RejectInFlightCommand[d] = IF d = inflight THEN ErrorOutcome(d) ELSE outcome[d]
    BY DEF RejectInFlightCommand
  <2>2. d = inflight => outcome[d] = "pending"
    BY <1>0 DEF CommandInv
  <2> QED BY <2>1, <2>2 DEF ErrorOutcome
<1>3. ASSUME NEW c \in Commands, NEW k \in Kinds, SendCommand(c, k) PROVE CommandInv'
  BY <1>1, <1>3 DEF SendCommand
<1>4. ASSUME NEW c \in Commands, NEW k \in Kinds, SendFireAndForgetCommand(c, k) PROVE CommandInv'
  <2>1. RejectInFlightCommand \in [Commands -> {"unsent", "pending", "resolved", "rejected"}]
    BY DEF RejectInFlightCommand, ErrorOutcome
  <2>2. /\ c = NextCommand /\ inflight' = c /\ UNCHANGED trailing
        /\ outcome' = [RejectInFlightCommand EXCEPT ![c] = "pending"]
    BY <1>4 DEF SendFireAndForgetCommand
  <2>3. /\ outcome'[c] = "pending"
        /\ \A d \in Commands : d # c => outcome'[d] = RejectInFlightCommand[d]
    BY <2>1, <2>2
  <2> QED BY <1>1, <1>2, <2>2, <2>3
<1>5. ASSUME \A d \in Commands : outcome'[d] # "unsent" <=> outcome[d] # "unsent",
             inflight' # NoCommand => inflight' = inflight /\ outcome' = outcome,
             trailing' \in Seq(Commands),
             \A i \in DOMAIN trailing' : \/ trailing'[i] = inflight
                                         \/ \E j \in DOMAIN trailing : trailing'[i] = trailing[j]
      PROVE CommandInv'
  <2>1. \E n \in Nat : \A c \in Commands : outcome'[c] # "unsent" <=> c <= n
    BY <1>5 DEF CommandInv
  <2>2. inflight' # NoCommand => outcome'[inflight'] = "pending"
    BY <1>5 DEF CommandInv
  <2>3. ASSUME NEW i \in DOMAIN trailing' PROVE outcome'[trailing'[i]] # "unsent"
    <3>1. trailing'[i] \in Commands
      BY <1>5
    <3>2. CASE trailing'[i] = inflight
      BY <1>0, <1>5, <3>1, <3>2 DEF CommandInv
    <3>3. CASE \E j \in DOMAIN trailing : trailing'[i] = trailing[j]
      BY <1>5, <3>1, <3>3 DEF CommandInv
    <3> QED BY <1>5, <3>2, <3>3
  <2> QED BY <2>1, <2>2, <2>3 DEF CommandInv
<1>6. ASSUME UNCHANGED <<inflight, outcome, trailing>> PROVE CommandInv'
  BY <1>6 DEF CommandInv
<1>7. CASE Destroy
  <2>1. outcome' = RejectInFlightCommand /\ inflight' = NoCommand /\ UNCHANGED trailing
    BY <1>7 DEF Destroy
  <2> HIDE DEF TypeOK
  <2>2. trailing \in Seq(Commands)
    BY DEF TypeOK
  <2> QED BY <1>2, <1>5, <2>1, <2>2
<1>8. ASSUME NEW c \in Commands, NEW o \in {"resolved", "rejected"}, Finish(c, o)
      PROVE /\ \A d \in Commands : outcome'[d] # "unsent" <=> outcome[d] # "unsent"
            /\ inflight' # NoCommand => inflight' = inflight /\ outcome' = outcome
  <2>1. CASE inflight = c
    <3>1. inflight' = NoCommand /\ outcome' = [outcome EXCEPT ![c] = o]
      BY <1>8, <2>1 DEF Finish
    <3>2. outcome[c] = "pending"
      BY <1>0, <2>1 DEF CommandInv
    <3> QED BY <3>1, <3>2
  <2>2. CASE inflight # c
    BY <1>8, <2>2 DEF Finish, promiseVars
  <2> QED BY <2>1, <2>2
<1>9. ASSUME EmitDone
      PROVE /\ trailing' \in Seq(Commands)
            /\ \A i \in DOMAIN trailing' : \/ trailing'[i] = inflight
                                           \/ \E j \in DOMAIN trailing : trailing'[i] = trailing[j]
  <2>1. CASE Regular(inflight)
    BY <1>9, <2>1 DEF EmitDone, Regular
  <2>2. CASE ~Regular(inflight)
    BY <1>9, <2>2 DEF EmitDone
  <2> QED BY <2>1, <2>2
<1>10. CASE IdleTimerFires
  BY <1>5, <1>6, <1>9, <1>10 DEF IdleTimerFires, promiseVars
<1>11. CASE TrailingFinish
  <2>1. Head(trailing) \in Commands /\ trailing' = Tail(trailing) /\ trailing # <<>>
    BY <1>11 DEF TrailingFinish
  <2>2. /\ trailing' \in Seq(Commands)
        /\ \A i \in DOMAIN trailing' : i + 1 \in DOMAIN trailing /\ trailing'[i] = trailing[i + 1]
    BY <2>1
  <2>3. Finish(Head(trailing), "resolved")
    BY <1>11 DEF TrailingFinish
  <2> QED BY <1>5, <1>8, <2>1, <2>2, <2>3
<1>12. CASE InactivityTimeout
  <2>1. inflight \in Commands /\ Finish(inflight, "rejected") /\ UNCHANGED trailing
    BY <1>12 DEF InactivityTimeout, Regular
  <2> QED BY <1>5, <1>8, <2>1
<1>13. CASE FlushElapses
  <2>1. \A d \in Commands : outcome'[d] # "unsent" <=> outcome[d] # "unsent"
    BY <1>13 DEF FlushElapses, CommandInv
  <2> QED BY <1>5, <1>13, <2>1 DEF FlushElapses
<1>14. ASSUME NEW p \in Procs, HandleProcessError(p) PROVE CommandInv'
  <2>1. /\ inflight \in Commands /\ Finish(inflight, ErrorOutcome(inflight)) /\ UNCHANGED trailing
        /\ ErrorOutcome(inflight) \in {"resolved", "rejected"}
    BY <1>14 DEF HandleProcessError, ErrorOutcome
  <2> QED BY <1>5, <1>8, <2>1
<1>15. ASSUME NEW p \in Procs, HandleProcessClose(p) PROVE CommandInv'
  BY <1>5, <1>6, <1>9, <1>15 DEF HandleProcessClose, promiseVars
<1>16. ASSUME NEW p \in Procs,
              HandleStdoutPartial(p) \/ HandleStdout(p) \/ HandleStderr(p)
       PROVE CommandInv'
  BY <1>6, <1>16 DEF HandleStdoutPartial, HandleStdout, HandleStderr, promiseVars
<1>17. ASSUME NEW p \in Procs, ChildStep(p) PROVE CommandInv'
  BY <1>6, <1>17, ChildStepLemma
<1>18. CASE EscalationFires \/ UNCHANGED vars
  BY <1>6, <1>18 DEF EscalationFires, vars, promiseVars, transportVars
<1> QED
  BY <1>3, <1>4, <1>7, <1>10, <1>11, <1>12, <1>13, <1>14, <1>15, <1>16, <1>17, <1>18
  DEF Next, Caller, Timers, ChildStep

(* What a response of a child changes: it is recorded whole, at the end of *)
(* what was collected, for the command in flight.                          *)
LEMMA RecordLemma ==
  ASSUME TypeOK, NEW r \in Responses, RecordCollectedResponse(r)
  PROVE \/ UNCHANGED <<responseQueue, idleTimer>>
        \/ /\ collecting
           /\ responseQueue' = Append(responseQueue, r)
           /\ idleTimer' = ShouldResolveOnIdle(inflight, responseQueue')
<1>1. CASE collecting /\ ~(r.kind \in ControlResponseKinds /\ Regular(inflight))
  BY <1>1 DEF RecordCollectedResponse
<1>2. CASE ~(collecting /\ ~(r.kind \in ControlResponseKinds /\ Regular(inflight)))
  BY <1>2 DEF RecordCollectedResponse
<1> QED BY <1>1, <1>2

(* Input of the child, for the invariants below.                           *)
LEMMA InputLemma ==
  ASSUME TypeOK, ChildInv, NEW p \in Procs,
         HandleStdoutPartial(p) \/ HandleStdout(p) \/ HandleStderr(p)
  PROVE /\ UNCHANGED <<collecting, trailing, inflight, outcome, proc, status, kind, target>>
        /\ \/ UNCHANGED <<responseQueue, idleTimer>>
           \/ /\ collecting /\ p = proc
              /\ responseQueue' = Append(responseQueue, Head(stdout[p]))
              /\ Head(stdout[p]) \in Responses /\ stdout[p] # <<>>
              /\ idleTimer' = ShouldResolveOnIdle(inflight, responseQueue')
<1>1. UNCHANGED <<collecting, trailing, inflight, outcome, proc, status, kind, target>>
  BY DEF HandleStdoutPartial, HandleStdout, HandleStderr, promiseVars, handleVars, commandVars
<1>2. CASE HandleStdoutPartial(p)
  BY <1>1, <1>2 DEF HandleStdoutPartial
<1>3. CASE HandleStdout(p) \/ HandleStderr(p)
  <2>1. stdout[p] # <<>> /\ Head(stdout[p]) \in Responses
    BY <1>3 DEF HandleStdout, HandleStderr, TypeOK
  <2>2. \/ UNCHANGED <<responseQueue, idleTimer>>
        \/ attached[p] /\ RecordCollectedResponse(Head(stdout[p]))
    BY <1>3 DEF HandleStdout, HandleStderr
  <2> QED BY <1>1, <2>1, <2>2, RecordLemma DEF ChildInv
<1> QED BY <1>2, <1>3

LEMMA KindsGrow ==
  ASSUME NEW S, NEW s \in Seq(S), NEW e \in S, TerminusReached(KindsIn(s))
  PROVE TerminusReached(KindsIn(Append(s, e)))
<1>1. \A i \in DOMAIN s : i \in DOMAIN Append(s, e) /\ Append(s, e)[i] = s[i]
  OBVIOUS
<1>2. KindsIn(s) \subseteq KindsIn(Append(s, e))
  BY <1>1 DEF KindsIn
<1> QED BY <1>2 DEF TerminusReached

(* A load waits for its terminus.                                          *)
LEMMA TerminusStable ==
  ASSUME TypeOK, ChildInv, CommandInv, TerminusInv, [Next]_vars PROVE TerminusInv'
<1>0. NoCommand \notin Commands
  BY TransportAssumption DEF NoCommand, Commands
<1>1. ASSUME NEW c \in Commands, NEW k \in Kinds, SendCommand(c, k) PROVE TerminusInv'
  <2>1. /\ inflight' = c /\ inflight = NoCommand /\ c = NextCommand
        /\ UNCHANGED <<idleTimer, trailing>>
    BY <1>1 DEF SendCommand
  <2>2. outcome[c] = "unsent"
    BY <2>1, NextIsNew
  <2>3. \A i \in DOMAIN trailing' : trailing'[i] # inflight'
    BY <2>1, <2>2 DEF CommandInv
  <2>4. idleTimer' = FALSE
    BY <2>1 DEF TerminusInv, TypeOK
  <2> QED BY <1>0, <2>1, <2>3, <2>4 DEF TerminusInv
<1>2. ASSUME NEW c \in Commands, NEW k \in Kinds, SendFireAndForgetCommand(c, k) PROVE TerminusInv'
  <2>1. inflight' = c /\ kind'[c] = k /\ k \in ControlKinds
    BY <1>2 DEF SendFireAndForgetCommand, TypeOK
  <2> QED BY <1>0, <2>1 DEF TerminusInv, ControlKinds
<1>3. ASSUME inflight' = NoCommand, ~collecting', ~idleTimer' PROVE TerminusInv'
  BY <1>3 DEF TerminusInv
<1>4. ASSUME NEW c \in Commands, NEW o \in {"resolved", "rejected"}, Finish(c, o), UNCHANGED kind,
             UNCHANGED <<responseQueue, target>>, trailing' \in Seq(Commands),
             \A q \in Procs : status'[q] \in {"starting", "running"} => Running(q),
             \A i \in DOMAIN trailing' : \E j \in DOMAIN trailing : trailing'[i] = trailing[j]
      PROVE TerminusInv'
  <2>1. ~collecting' /\ ~idleTimer'
    BY <1>4 DEF Finish
  <2>2. CASE inflight = c
    BY <1>3, <1>4, <2>1, <2>2 DEF Finish
  <2>3. CASE inflight # c
    BY <1>4, <2>1, <2>3 DEF Finish, promiseVars, TerminusInv, ChildInv, Running
  <2> QED BY <2>2, <2>3
<1>5. CASE Destroy
  BY <1>3, <1>5 DEF Destroy
<1>6. ASSUME NEW p \in Procs, HandleProcessError(p) PROVE TerminusInv'
  <2>1. /\ inflight \in Commands /\ Finish(inflight, ErrorOutcome(inflight))
    BY <1>6 DEF HandleProcessError, TypeOK
  <2> QED BY <1>3, <2>1 DEF Finish
<1>7. CASE InactivityTimeout
  <2>1. /\ inflight \in Commands /\ Finish(inflight, "rejected")
    BY <1>7 DEF InactivityTimeout, Regular, TypeOK
  <2> QED BY <1>3, <2>1 DEF Finish
<1>8. CASE FlushElapses
  BY <1>3, <1>8 DEF FlushElapses
<1>9. CASE TrailingFinish
  <2>1. Head(trailing) \in Commands /\ trailing' = Tail(trailing) /\ trailing # <<>>
    BY <1>9 DEF TrailingFinish, TypeOK
  <2>2. /\ trailing' \in Seq(Commands)
        /\ \A i \in DOMAIN trailing' : i + 1 \in DOMAIN trailing /\ trailing'[i] = trailing[i + 1]
    BY <2>1 DEF TypeOK
  <2>3. /\ Finish(Head(trailing), "resolved")
        /\ UNCHANGED <<responseQueue, status, kind, target>>
    BY <1>9 DEF TrailingFinish, commandVars
  <2>4. \A q \in Procs : status'[q] \in {"starting", "running"} => Running(q)
    BY <2>3 DEF Running
  <2> QED BY <1>4, <2>1, <2>2, <2>3, <2>4
<1>10. ASSUME UNCHANGED <<collecting, trailing, inflight, kind, target, responseQueue, idleTimer>>,
              \A q \in Procs : status'[q] \in {"starting", "running"} => Running(q)
       PROVE TerminusInv'
  BY <1>10 DEF TerminusInv, ChildInv, Running
<1>11. ASSUME NEW p \in Procs, ChildStep(p) PROVE TerminusInv'
  BY <1>10, <1>11, ChildStepLemma
<1>12. CASE EscalationFires \/ UNCHANGED vars
  BY <1>10, <1>12 DEF EscalationFires, vars, promiseVars, transportVars, commandVars, Running
<1>13. ASSUME EmitDone
       PROVE \A i \in DOMAIN trailing' : \/ trailing'[i] = inflight
                                         \/ i \in DOMAIN trailing /\ trailing'[i] = trailing[i]
  BY <1>13 DEF EmitDone, Regular, TypeOK
<1>14. CASE IdleTimerFires
  <2>1. /\ UNCHANGED <<collecting, responseQueue, inflight, status, kind, target>>
        /\ ~idleTimer' /\ idleTimer
        /\ (collecting /\ EmitDone) \/ UNCHANGED trailing
    BY <1>14 DEF IdleTimerFires, promiseVars, commandVars
  <2>2. CASE UNCHANGED trailing
    BY <2>1, <2>2 DEF TerminusInv, Running
  <2>3. CASE collecting /\ EmitDone
    BY <1>13, <2>1, <2>3 DEF TerminusInv, Running
  <2> QED BY <2>1, <2>2, <2>3
<1>15. ASSUME NEW p \in Procs, HandleProcessClose(p) PROVE TerminusInv'
  <2>1. /\ UNCHANGED <<responseQueue, inflight, kind, target>> /\ status[p] = "exited"
        /\ status' = [status EXCEPT ![p] = "closed"]
        /\ IF attached[p] THEN ~collecting' /\ ~idleTimer' /\ EmitDone
                          ELSE UNCHANGED <<collecting, idleTimer, trailing>>
    BY <1>15 DEF HandleProcessClose, promiseVars, commandVars
  <2>2. \A q \in Procs : status'[q] \in {"starting", "running"} => Running(q)
    BY <2>1 DEF Running, TypeOK
  <2>3. CASE ~attached[p]
    BY <1>10, <2>1, <2>2, <2>3
  <2>4. CASE attached[p]
    <3>1. NoProc # p
      BY DEF NoProc, Procs
    <3>2. inflight # NoCommand => status'[target[inflight]] = "closed" /\ target[inflight] \in Procs
      BY <2>1, <2>4, <3>1 DEF ChildInv, TypeOK
    <3> QED BY <1>13, <2>1, <2>2, <2>4, <3>2 DEF TerminusInv, Running
  <2> QED BY <2>3, <2>4
<1>16. ASSUME NEW p \in Procs,
              HandleStdoutPartial(p) \/ HandleStdout(p) \/ HandleStderr(p)
       PROVE TerminusInv'
  <2>1. /\ UNCHANGED <<collecting, trailing, inflight, outcome, proc, status, kind, target>>
        /\ \/ UNCHANGED <<responseQueue, idleTimer>>
           \/ /\ collecting /\ p = proc
              /\ responseQueue' = Append(responseQueue, Head(stdout[p]))
              /\ Head(stdout[p]) \in Responses /\ stdout[p] # <<>>
              /\ idleTimer' = ShouldResolveOnIdle(inflight, responseQueue')
    BY <1>16, InputLemma
  <2>2. CASE UNCHANGED <<responseQueue, idleTimer>>
    BY <1>10, <2>1, <2>2 DEF Running
  <2>3. CASE /\ collecting
             /\ responseQueue' = Append(responseQueue, Head(stdout[p]))
             /\ Head(stdout[p]) \in Responses
             /\ idleTimer' = ShouldResolveOnIdle(inflight, responseQueue')
    <3>1. TerminusReached(KindsIn(responseQueue)) => TerminusReached(KindsIn(responseQueue'))
      BY <2>3, KindsGrow DEF TypeOK
    <3>2. inflight # NoCommand
      BY <2>3 DEF TerminusInv
    <3>3. kind[inflight] = "load" /\ idleTimer' => TerminusReached(KindsIn(responseQueue'))
      BY <2>3 DEF ShouldResolveOnIdle
    <3> QED BY <2>1, <3>1, <3>2, <3>3 DEF TerminusInv, Running
  <2> QED BY <2>1, <2>2, <2>3
<1> QED
  BY <1>1, <1>2, <1>5, <1>6, <1>7, <1>8, <1>9, <1>11, <1>12, <1>14, <1>15, <1>16
  DEF Next, Caller, Timers, ChildStep

(* Nothing another child said is collected.                                *)
LEMMA OwnStable ==
  ASSUME TypeOK, ChildInv, LineInv, TerminusInv, OnlyItsOwnChild, [Next]_vars PROVE OnlyItsOwnChild'
<1>1. ASSUME NEW c \in Commands, NEW k \in Kinds,
             SendCommand(c, k) \/ SendFireAndForgetCommand(c, k) PROVE OnlyItsOwnChild'
  <2>1. responseQueue' = <<>>
    BY <1>1 DEF SendCommand, SendFireAndForgetCommand, StartCollecting
  <2> QED BY <2>1 DEF OnlyItsOwnChild
<1>2. ASSUME inflight' \in {inflight, NoCommand}, UNCHANGED <<responseQueue, target>>
      PROVE OnlyItsOwnChild'
  BY <1>2 DEF OnlyItsOwnChild
<1>3. CASE Destroy
  BY <1>3 DEF Destroy, OnlyItsOwnChild
<1>4. CASE Timers \/ UNCHANGED vars
  BY <1>2, <1>4 DEF Timers, IdleTimerFires, TrailingFinish, InactivityTimeout, FlushElapses,
     EscalationFires, Finish, vars, transportVars, promiseVars, commandVars
<1>5. ASSUME NEW p \in Procs, HandleProcessClose(p) \/ HandleProcessError(p) PROVE OnlyItsOwnChild'
  BY <1>2, <1>5 DEF HandleProcessClose, HandleProcessError, Finish, promiseVars, commandVars
<1>6. ASSUME NEW p \in Procs, ChildStep(p) PROVE OnlyItsOwnChild'
  BY <1>2, <1>6, ChildStepLemma
<1>7. ASSUME NEW p \in Procs,
             HandleStdoutPartial(p) \/ HandleStdout(p) \/ HandleStderr(p)
      PROVE OnlyItsOwnChild'
  <2>1. /\ UNCHANGED <<inflight, target>>
        /\ \/ UNCHANGED <<responseQueue, idleTimer>>
           \/ /\ collecting /\ p = proc
              /\ responseQueue' = Append(responseQueue, Head(stdout[p]))
              /\ Head(stdout[p]) \in Responses /\ stdout[p] # <<>>
    BY <1>7, InputLemma
  <2>2. CASE UNCHANGED <<responseQueue, idleTimer>>
    BY <1>2, <2>1, <2>2
  <2>3. CASE /\ collecting /\ p = proc
             /\ responseQueue' = Append(responseQueue, Head(stdout[p]))
             /\ Head(stdout[p]) \in Responses /\ stdout[p] # <<>>
    <3>1. inflight # NoCommand /\ target[inflight] = p
      BY <2>3 DEF TerminusInv, ChildInv, NoProc, Procs
    <3>2. 1 \in DOMAIN stdout[p] /\ Head(stdout[p]) = stdout[p][1]
      BY <2>3 DEF TypeOK
    <3>3. Head(stdout[p]).from = p
      BY <3>2 DEF LineInv
    <3>4. responseQueue \in Seq(Responses)
      BY DEF TypeOK
    <3>5. \A i \in DOMAIN responseQueue' : \/ i \in DOMAIN responseQueue /\ responseQueue'[i] = responseQueue[i]
                                           \/ responseQueue'[i] = Head(stdout[p])
      BY <2>3, <3>4
    <3> QED BY <2>1, <3>1, <3>3, <3>5 DEF OnlyItsOwnChild
  <2> QED BY <2>1, <2>2, <2>3
<1> QED BY <1>1, <1>3, <1>4, <1>5, <1>6, <1>7 DEF Next, Caller, ChildStep

(* No line is spliced onto a fragment of another command's.                *)
LEMMA SpliceStable ==
  ASSUME TypeOK, ChildInv, LineInv, NoSplice, [Next]_vars PROVE NoSplice'
<1>1. ASSUME buffer' = EmptyBuffer \/ ~collecting' PROVE NoSplice'
  BY <1>1 DEF NoSplice
<1>2. ASSUME collecting' => collecting, UNCHANGED <<buffer, proc>>,
             proc # NoProc => cut'[proc] = cut[proc],
             proc # NoProc /\ cut[proc] /\ stdout[proc] # <<>> =>
               stdout'[proc] # <<>> /\ Head(stdout'[proc]) = Head(stdout[proc])
      PROVE NoSplice'
  BY <1>2 DEF NoSplice
<1>3. ASSUME NEW c \in Commands, NEW k \in Kinds,
             SendCommand(c, k) \/ SendFireAndForgetCommand(c, k) PROVE NoSplice'
  BY <1>1, <1>3 DEF SendCommand, SendFireAndForgetCommand, StartCollecting
<1>4. CASE Destroy
  BY <1>1, <1>4 DEF Destroy
<1>5. CASE TrailingFinish \/ InactivityTimeout \/ FlushElapses
  BY <1>1, <1>5 DEF TrailingFinish, InactivityTimeout, FlushElapses, Finish
<1>6. CASE IdleTimerFires \/ EscalationFires \/ UNCHANGED vars
  BY <1>2, <1>6 DEF IdleTimerFires, EscalationFires, vars, transportVars, handleVars
<1>7. ASSUME NEW p \in Procs, HandleProcessError(p) PROVE NoSplice'
  BY <1>1, <1>7 DEF HandleProcessError, Finish
<1>8. ASSUME NEW p \in Procs, HandleProcessClose(p) PROVE NoSplice'
  <2>1. CASE attached[p]
    BY <1>1, <1>8, <2>1 DEF HandleProcessClose
  <2>2. CASE ~attached[p]
    BY <1>2, <1>8, <2>2 DEF HandleProcessClose
  <2> QED BY <2>1, <2>2
<1>9. ASSUME NEW p \in Procs, HandleStdoutPartial(p) PROVE NoSplice'
  <2>1. /\ UNCHANGED <<proc, collecting, stdout>> /\ cut' = [cut EXCEPT ![p] = TRUE] /\ ~cut[p]
        /\ stdout[p] # <<>>
        /\ buffer' = IF attached[p] /\ AcceptStdout
                       THEN IF buffer = EmptyBuffer THEN Half(Head(stdout[p])) ELSE Junk
                       ELSE buffer
    BY <1>9 DEF HandleStdoutPartial, handleVars
  <2>2. CASE p = proc
    BY <2>1, <2>2 DEF NoSplice, ChildInv, AcceptStdout, TypeOK, NoProc, Procs
  <2>3. CASE p # proc
    BY <1>2, <2>1, <2>3 DEF ChildInv, TypeOK
  <2> QED BY <2>2, <2>3
<1>10. ASSUME NEW p \in Procs, HandleStdout(p) PROVE NoSplice'
  <2>1. /\ UNCHANGED <<proc, collecting>> /\ cut' = [cut EXCEPT ![p] = FALSE]
        /\ stdout' = [stdout EXCEPT ![p] = Tail(@)]
        /\ IF attached[p] /\ AcceptStdout THEN buffer' = EmptyBuffer ELSE UNCHANGED buffer
    BY <1>10 DEF HandleStdout, handleVars
  <2>2. CASE p = proc
    BY <1>1, <2>1, <2>2 DEF ChildInv, AcceptStdout
  <2>3. CASE p # proc
    BY <1>2, <2>1, <2>3 DEF ChildInv, TypeOK
  <2> QED BY <2>2, <2>3
<1>11. ASSUME NEW p \in Procs, HandleStderr(p) PROVE NoSplice'
  <2>1. /\ UNCHANGED <<buffer, proc, collecting, cut>> /\ Head(stdout[p]).kind = "Fatal"
        /\ stdout' = [stdout EXCEPT ![p] = Tail(@)]
    BY <1>11 DEF HandleStderr, handleVars
  <2>2. ~cut[p]
    BY <2>1 DEF LineInv
  <2>3. proc # p => stdout'[proc] = stdout[proc] \/ proc = NoProc
    BY <2>1 DEF TypeOK
  <2> QED BY <1>2, <2>1, <2>2, <2>3
<1>12. ASSUME NEW p \in Procs, ChildStep(p) PROVE NoSplice'
  <2>1. UNCHANGED <<buffer, proc, collecting, cut>>
    BY <1>12, ChildStepLemma
  <2>2. CASE UNCHANGED stdout
    BY <1>2, <2>1, <2>2
  <2>3. ASSUME NEW r \in Responses, stdout' = [stdout EXCEPT ![p] = Append(@, r)]
        PROVE NoSplice'
    <3>1. \A q \in Procs : stdout'[q] = IF q = p THEN Append(stdout[q], r) ELSE stdout[q]
      BY <2>3 DEF TypeOK
    <3>2. \A q \in Procs : stdout[q] # <<>> => /\ Append(stdout[q], r) # <<>>
                                              /\ Head(Append(stdout[q], r)) = Head(stdout[q])
      BY HeadOfAppend DEF TypeOK
    <3> QED BY <1>2, <2>1, <3>1, <3>2 DEF TypeOK
  <2> QED BY <1>12, <2>2, <2>3, ChildStepLemma
<1> QED
  BY <1>3, <1>4, <1>5, <1>6, <1>7, <1>8, <1>9, <1>10, <1>11, <1>12 DEF Next, Caller, Timers, ChildStep

-----------------------------------------------------------------------------
LEMMA Invariance == Spec => []IInv
<1>1. Init => IInv
  <2> SUFFICES ASSUME Init PROVE IInv
    OBVIOUS
  <2>1. ChildInv /\ LineInv /\ TerminusInv /\ OnlyItsOwnChild /\ NoSplice
    BY DEF Init, ChildInv, LineInv, TerminusInv, OnlyItsOwnChild, NoSplice, NoProc, Procs, NoCommand
  <2>2. \A c \in Commands : outcome[c] # "unsent" <=> c <= 0
    BY TransportAssumption DEF Init, Commands
  <2>3. CommandInv
    BY <2>2 DEF Init, CommandInv
  <2> QED BY <2>1, <2>3, TypeInit DEF IInv
<1>2. IInv /\ [Next]_vars => IInv'
  BY TypeStep, ChildStable, LineStable, CommandStable, TerminusStable, OwnStable, SpliceStable
  DEF IInv
<1> QED BY <1>1, <1>2, PTL DEF Spec

(* The variables keep their types.                                         *)
THEOREM TypeCorrect == Spec => []TypeOK
<1>1. IInv => TypeOK
  BY DEF IInv
<1> QED BY Invariance, <1>1, PTL

(* What is collected for a command came from the child the command was     *)
(* written to (ensureProcess detaches the child it replaces).              *)
THEOREM CollectsOnlyItsOwnChild == Spec => []OnlyItsOwnChild
<1>1. IInv => OnlyItsOwnChild
  BY DEF IInv
<1> QED BY Invariance, <1>1, PTL

(* While stdout is collected, the buffer holds nothing but the first half  *)
(* of the line the current child is in the middle of (the reset of         *)
(* sendCommand and sendFireAndForgetCommand).                              *)
THEOREM NeverSplices == Spec => []NoSplice
<1>1. IInv => NoSplice
  BY DEF IInv
<1> QED BY Invariance, <1>1, PTL

-----------------------------------------------------------------------------
(* What a step does to the promises: it starts a command, interrupts the   *)
(* one in flight to start another, settles the one in flight, or leaves    *)
(* them alone; and it resolves a regular command by a scheduled finish     *)
(* only.                                                                   *)
Starts(c)        == /\ inflight = NoCommand
                    /\ outcome' = [outcome EXCEPT ![c] = "pending"]
Preempts(c)      == /\ inflight # NoCommand
                    /\ outcome' = [outcome EXCEPT ![inflight] = ErrorOutcome(inflight),
                                                  ![c] = "pending"]
Settles(o)       == /\ inflight # NoCommand /\ inflight' = NoCommand
                    /\ outcome' = [outcome EXCEPT ![inflight] = o]

LEMMA StepOnPromises ==
  ASSUME IInv, [Next]_vars
  PROVE \/ UNCHANGED <<inflight, outcome>>
        \/ \E c \in Commands : /\ outcome[c] = "unsent" /\ inflight' = c
                               /\ Starts(c) \/ Preempts(c)
        \/ Settles("rejected") \/ Settles(ErrorOutcome(inflight))
        \/ Settles("resolved") /\ kind[inflight] \in ControlKinds
        \/ /\ Settles("resolved") /\ TrailingFinish /\ Head(trailing) = inflight
           /\ inflight \in Commands
<1> USE DEF Settles
<1>0. TypeOK /\ CommandInv /\ NoCommand \notin Commands
  BY TransportAssumption DEF IInv, NoCommand, Commands
<1>a. RejectInFlightCommand = IF inflight = NoCommand THEN outcome
                              ELSE [outcome EXCEPT ![inflight] = ErrorOutcome(inflight)]
  BY <1>0 DEF RejectInFlightCommand, TypeOK
<1>1. ASSUME NEW c \in Commands, NEW k \in Kinds, SendCommand(c, k)
      PROVE outcome[c] = "unsent" /\ inflight' = c /\ Starts(c)
  BY <1>0, <1>1, NextIsNew DEF SendCommand, Starts
<1>2. ASSUME NEW c \in Commands, NEW k \in Kinds, SendFireAndForgetCommand(c, k)
      PROVE outcome[c] = "unsent" /\ inflight' = c /\ (Starts(c) \/ Preempts(c))
  <2>1. /\ c = NextCommand /\ inflight' = c
        /\ outcome' = [RejectInFlightCommand EXCEPT ![c] = "pending"]
    BY <1>2 DEF SendFireAndForgetCommand
  <2>2. outcome[c] = "unsent"
    BY <1>0, <2>1, NextIsNew
  <2> QED BY <1>a, <2>1, <2>2 DEF Starts, Preempts
<1>3. CASE Destroy
  BY <1>a, <1>3 DEF Destroy
<1>4. ASSUME NEW p \in Procs, HandleProcessError(p) PROVE Settles(ErrorOutcome(inflight))
  BY <1>4 DEF HandleProcessError, Finish
<1>5. CASE TrailingFinish
  <2>1. Head(trailing) \in Commands /\ Finish(Head(trailing), "resolved")
    BY <1>0, <1>5 DEF TrailingFinish, TypeOK
  <2>2. CASE inflight = Head(trailing)
    BY <1>0, <1>5, <2>1, <2>2 DEF Finish
  <2>3. CASE inflight # Head(trailing)
    BY <2>1, <2>3 DEF Finish, promiseVars
  <2> QED BY <2>2, <2>3
<1>6. CASE InactivityTimeout
  BY <1>6 DEF InactivityTimeout, Finish, Regular
<1>7. CASE FlushElapses
  BY <1>7 DEF FlushElapses
<1>8. CASE IdleTimerFires \/ EscalationFires \/ UNCHANGED vars
  BY <1>8 DEF IdleTimerFires, EscalationFires, vars, promiseVars
<1>9. ASSUME NEW p \in Procs, \/ HandleStdoutPartial(p) \/ HandleStdout(p) \/ HandleStderr(p)
                              \/ HandleProcessClose(p) \/ ChildStep(p)
      PROVE UNCHANGED <<inflight, outcome>>
  BY <1>0, <1>9, ChildStepLemma
     DEF HandleStdoutPartial, HandleStdout, HandleStderr, HandleProcessClose, promiseVars
<1> QED
  BY <1>1, <1>2, <1>3, <1>4, <1>5, <1>6, <1>7, <1>8, <1>9 DEF Next, Caller, Timers, ChildStep

(* The transport's steps are steps of the abstract channel or stutters: at *)
(* most one command is in flight, and a command settles at most once,      *)
(* however often `finish` runs for it (the safety part of                  *)
(* ImplementsChannel; that it does settle is left to TLC).                 *)
THEOREM ChannelRefinement == Spec => Channel!Init /\ [][Channel!Next]_(Channel!vars)
<1>1. Init => Channel!Init
  BY DEF Init, Channel!Init
<1>2. IInv /\ [Next]_vars => [Channel!Next]_(Channel!vars)
  <2> SUFFICES ASSUME IInv, [Next]_vars PROVE [Channel!Next]_(Channel!vars)
    OBVIOUS
  <2>1. ErrorOutcome(inflight) \in Channel!Settled /\ "resolved" \in Channel!Settled
        /\ "rejected" \in Channel!Settled
    BY DEF ErrorOutcome, Channel!Settled
  <2>2. ASSUME NEW o \in Channel!Settled, Settles(o) PROVE Channel!Next
    BY <2>2 DEF Settles, Channel!Next, Channel!Settle
  <2>3. ASSUME NEW c \in Commands, outcome[c] = "unsent", inflight' = c, Starts(c) \/ Preempts(c)
        PROVE Channel!Next
    <3>1. Channel!Start(c) \/ Channel!Preempt(c, ErrorOutcome(inflight))
      BY <2>3 DEF Starts, Preempts, Channel!Start, Channel!Preempt
    <3> QED BY <2>1, <3>1 DEF Channel!Next
  <2> QED BY <2>1, <2>2, <2>3, StepOnPromises DEF Channel!vars
<1> QED BY Invariance, <1>1, <1>2, PTL DEF Spec

(* A load is answered, rather than failed, only after its terminus reached *)
(* it or once its child is gone.                                           *)
THEOREM LoadsWaitForTerminus == Spec => LoadHeldForTerminus
<1>1. ASSUME IInv, [Next]_vars, NEW c \in Commands,
             kind[c] = "load", outcome[c] = "pending", outcome'[c] = "resolved"
      PROVE \/ TerminusReached(KindsIn(responseQueue))
            \/ ~Running(target[c])
  <2>0. c # NoCommand /\ outcome \in [Commands -> {"unsent", "pending", "resolved", "rejected"}]
    <3>1. TypeOK
      BY <1>1 DEF IInv
    <3>2. c # NoCommand
      BY TransportAssumption DEF NoCommand, Commands
    <3> QED BY <3>1, <3>2 DEF TypeOK
  <2>1. c = inflight => ErrorOutcome(inflight) = "rejected" /\ kind[inflight] \notin ControlKinds
    BY <1>1, <2>0 DEF ErrorOutcome, Regular, ControlKinds
  <2>2. ASSUME NEW d \in Commands, outcome[d] = "unsent", Starts(d) \/ Preempts(d) PROVE FALSE
    BY <1>1, <2>0, <2>1, <2>2 DEF Starts, Preempts
  <2>3. ASSUME Settles("rejected") \/ Settles(ErrorOutcome(inflight)) PROVE FALSE
    BY <1>1, <2>0, <2>1, <2>3 DEF Settles
  <2>4. ASSUME NEW o, Settles(o) PROVE c = inflight
    BY <1>1, <2>0, <2>4 DEF Settles
  <2>5. TrailingFinish /\ Head(trailing) = inflight /\ c = inflight
    BY <1>1, <2>0, <2>1, <2>2, <2>3, <2>4, StepOnPromises
  <2>6. 1 \in DOMAIN trailing /\ trailing[1] = inflight
    <3>1. trailing \in Seq(Commands) /\ trailing # <<>>
      BY <1>1, <2>5 DEF TrailingFinish, IInv, TypeOK
    <3> QED BY <2>5, <3>1
  <2> QED BY <1>1, <2>0, <2>5, <2>6 DEF IInv, TerminusInv
<1>2. IInv /\ [Next]_vars =>
        [\A c \in Commands :
           (kind[c] = "load" /\ outcome[c] = "pending" /\ outcome'[c] = "resolved")
              => \/ TerminusReached(KindsIn(responseQueue))
                 \/ ~Running(target[c])]_vars
  BY <1>1
<1> QED BY Invariance, <1>2, PTL DEF Spec, LoadHeldForTerminus
=============================================================================
