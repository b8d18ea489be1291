--------------------------- MODULE CommandChannel ---------------------------
(***************************************************************************)
(* What a transport over one child process promises its caller: at most    *)
(* one command is in flight, a command that was started settles exactly    *)
(* once, and it does settle.  A control command (Cmd_abort, Cmd_exit) may  *)
(* take the place of the command in flight, which it settles in the same   *)
(* step.                                                                   *)
(*                                                                         *)
(* Abstract counterpart of AgdaTransport.sendCommand and                   *)
(* AgdaTransport.sendFireAndForgetCommand (src/session/agda-transport.ts). *)
(***************************************************************************)
EXTENDS Naturals

CONSTANTS Commands,      \* the commands that may be handed to the transport
          NoCommand      \* "nothing is in flight"

VARIABLES inflight,      \* the command whose promise is pending, or NoCommand
          outcome        \* what became of each command

vars == <<inflight, outcome>>

Settled == {"resolved", "rejected"}

TypeOK == /\ inflight \in Commands \cup {NoCommand}
          /\ outcome \in [Commands -> {"unsent", "pending"} \cup Settled]

Init == /\ inflight = NoCommand
        /\ outcome = [c \in Commands |-> "unsent"]

(* The caller starts a command; nothing may be in flight.                  *)
Start(c) == /\ inflight = NoCommand
            /\ outcome[c] = "unsent"
            /\ inflight' = c
            /\ outcome' = [outcome EXCEPT ![c] = "pending"]

(* The command in flight gets its answer, or its error.                    *)
Settle(o) == /\ inflight # NoCommand
             /\ inflight' = NoCommand
             /\ outcome' = [outcome EXCEPT ![inflight] = o]

(* A control command interrupts the command in flight and replaces it.     *)
Preempt(c, o) == /\ inflight # NoCommand
                 /\ outcome[c] = "unsent"
                 /\ inflight' = c
                 /\ outcome' = [outcome EXCEPT ![inflight] = o, ![c] = "pending"]

Next == \/ \E c \in Commands : Start(c)
        \/ \E o \in Settled : Settle(o)
        \/ \E c \in Commands, o \in Settled : Preempt(c, o)

Spec == Init /\ [][Next]_vars /\ WF_vars(\E o \in Settled : Settle(o))
=============================================================================
