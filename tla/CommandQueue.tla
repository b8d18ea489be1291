---------------------------- MODULE CommandQueue ----------------------------
(***************************************************************************)
(* What the command queue of an Agda session promises the tools that call  *)
(* it concurrently: every command submitted is answered exactly once, in   *)
(* the order of submission, one command is being executed at a time, and   *)
(* every command is answered in the end.  A control command ends the one   *)
(* that executes; a command may be refused without being executed.         *)
(*                                                                         *)
(* Abstract counterpart of AgdaSession.commandQueue                        *)
(* (src/agda/session.ts, src/agda/session-command-dispatch.ts).            *)
(***************************************************************************)
EXTENDS Naturals, Sequences

CONSTANTS Tasks,         \* the commands that may be submitted
          NoTask         \* "nothing executes"

VARIABLES queue,         \* submitted, not yet begun
          running,       \* the command that executes, or NoTask
          outcome        \* [Tasks -> new, waiting, resolved, rejected]

vars == <<queue, running, outcome>>

Answers == {"resolved", "rejected"}

Init == /\ queue = <<>>
        /\ running = NoTask
        /\ outcome = [t \in Tasks |-> "new"]

Enqueue(t) == /\ outcome[t] = "new"
              /\ queue' = Append(queue, t)

(* A caller submits a command.                                             *)
Submit(t) == /\ Enqueue(t)
             /\ outcome' = [outcome EXCEPT ![t] = "waiting"]
             /\ UNCHANGED running

(* A caller submits a control command, which ends the one that executes.   *)
Interrupt(t, o) == /\ running # NoTask
                   /\ Enqueue(t)
                   /\ outcome' = [outcome EXCEPT ![running] = o, ![t] = "waiting"]
                   /\ running' = NoTask

(* The oldest command begins to execute.                                   *)
Begin == /\ running = NoTask /\ queue # <<>>
         /\ running' = Head(queue)
         /\ queue' = Tail(queue)
         /\ UNCHANGED outcome

(* The oldest command is refused without being executed.                   *)
Refuse == /\ running = NoTask /\ queue # <<>>
          /\ queue' = Tail(queue)
          /\ outcome' = [outcome EXCEPT ![Head(queue)] = "rejected"]
          /\ UNCHANGED running

(* The command that executes is answered.                                  *)
Answer == /\ running # NoTask
          /\ running' = NoTask
          /\ \E o \in Answers : outcome' = [outcome EXCEPT ![running] = o]
          /\ UNCHANGED queue

Next == \/ \E t \in Tasks : Submit(t) \/ \E o \in Answers : Interrupt(t, o)
        \/ Begin
        \/ Refuse
        \/ Answer

Spec == Init /\ [][Next]_vars /\ WF_vars(Begin \/ Refuse) /\ WF_vars(Answer)
=============================================================================
