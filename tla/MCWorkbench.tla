----------------------------- MODULE MCWorkbench -----------------------------
(***************************************************************************)
(* An instance of Workbench for TLC.                                       *)
(***************************************************************************)
EXTENDS Workbench

(* All import graphs of three files, the last of which may be oversized,   *)
(* unreadable, or declare the module of the second.                        *)
MCTrees ==
  {[f \in 1..3 |->
      [name |-> IF f = 3 THEN last[1] ELSE f,
       imports |-> imports[f],
       content |-> IF f = 3 THEN last[2] ELSE "whole"]] :
     imports \in {g \in [1..3 -> SUBSET {1, 2, 3}] : \A f \in 1..3 : f \notin g[f]},
     last \in {<<3, "whole">>, <<3, "unreadable">>, <<2, "oversized">>}}

(* One of them: a cycle of two files, of which one imports the third.      *)
Cycle == [f \in 1..3 |-> [name |-> f, content |-> "whole",
                          imports |-> CASE f = 1 -> {2} [] f = 2 -> {1, 3} [] f = 3 -> {}]]

(* The other trees are explored as far as two calls go one after the other,*)
(* on one configuration that does not change; so are, in the cycle, two    *)
(* calls that overlap, of which one is a sweep or a status.                *)
Slow(c) == pc[c] \in {"sweeping", "sweeping all", "asking"}

Explored ==
  /\ tree = Cycle \/ (edits = 0 /\ config.text.size = 3 /\ pc[3] = "new")
  /\ (\E c \in Calls : Slow(c)) => edits = 0 /\ config.text.size = 3 /\ pc[3] = "new"
  /\ tree # Cycle => pc[2] = "new" \/ pc[1] = "done"

(* Two texts of one size, one that is no JSON, and one that is too large.  *)
MCTexts == {[size |-> 1, json |-> TRUE, entries |-> <<"safe">>],
            [size |-> 1, json |-> TRUE, entries |-> <<"cubical">>],
            [size |-> 1, json |-> FALSE, entries |-> <<>>],
            [size |-> 3, json |-> TRUE, entries |-> <<"safe">>]}

MCEnvOptions  == <<"cubical">>
MCCallOptions == {<<>>, <<"safe">>}
=============================================================================
