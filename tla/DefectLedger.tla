---------------------------- MODULE DefectLedger ----------------------------
(***************************************************************************)
(* What the fix queue promises the people who work from it: a defect has   *)
(* one record; it is counted once for every time it is filed; only a person*)
(* moves it on from "new", and only a person's own filing moves it back;   *)
(* it is published as an issue after that review, and once.                *)
(*                                                                         *)
(* Abstract counterpart of test/fixtures/fix-queue.json and the scripts    *)
(* that write it (scripts/queue, scripts/team).                            *)
(***************************************************************************)
EXTENDS Naturals

CONSTANTS Defects,       \* the fingerprints of defects
          Statuses       \* what a person may say of one

VARIABLES status,        \* "none" until it is filed
          count,         \* how often it was filed
          issues         \* how many issues it has

vars == <<status, count, issues>>

Known(d) == status[d] # "none"

File(d) == /\ status' = [status EXCEPT ![d] = "new"]
           /\ count' = [count EXCEPT ![d] = @ + 1]
           /\ UNCHANGED issues

(* A person files a defect, or files it again, or decides about it.        *)
Person(d) == \/ File(d)
             \/ /\ Known(d)
                /\ \E s \in Statuses : status' = [status EXCEPT ![d] = s]
                /\ UNCHANGED <<count, issues>>

(* The unattended judge files only what nobody has looked at.              *)
Judge(d) == status[d] \in {"none", "new"} /\ File(d)

(* The mirror publishes what a person has looked at.                       *)
Mirror(d) == /\ status[d] \in Statuses /\ issues[d] = 0
             /\ issues' = [issues EXCEPT ![d] = 1]
             /\ UNCHANGED <<status, count>>

Init == /\ status = [d \in Defects |-> "none"]
        /\ count = [d \in Defects |-> 0]
        /\ issues = [d \in Defects |-> 0]

Next == \E d \in Defects : Person(d) \/ Judge(d) \/ Mirror(d)

Spec == Init /\ [][Next]_vars
=============================================================================
