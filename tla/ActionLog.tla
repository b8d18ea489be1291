------------------------------ MODULE ActionLog ------------------------------
(***************************************************************************)
(* What the recorder of tool calls promises: a log that only grows, one    *)
(* action at a time, and of which captures archive consecutive stretches,  *)
(* so that every action of the log is in one capture or waits for one, and *)
(* none is in two.                                                         *)
(*                                                                         *)
(* Abstract counterpart of                                                 *)
(* src/agda/session-capture/recorded-transport.ts as                       *)
(* src/tools/register-capture-session.ts uses it.                          *)
(***************************************************************************)
EXTENDS Naturals, Sequences

CONSTANT Actions

VARIABLES log,           \* the actions recorded, in order
          archived       \* how many of them captures have staged

Init == log = <<>> /\ archived = 0

Record(a) == log' = Append(log, a) /\ UNCHANGED archived

Archive == archived' \in archived..Len(log) /\ UNCHANGED log

Next == Archive \/ \E a \in Actions : Record(a)

Spec == Init /\ [][Next]_<<log, archived>>
=============================================================================
