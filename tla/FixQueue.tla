------------------------------ MODULE FixQueue ------------------------------
(***************************************************************************)
(* The fix queue: one JSON file, read and rewritten whole by whoever files *)
(* a defect (the wrap-up a person runs, the unattended judge), by the run  *)
(* that mirrors it to GitHub, and edited by hand.  There is no lock: an    *)
(* upsert reads, then writes after an await.                               *)
(*                                                                         *)
(* Source: scripts/queue/intake.mjs, scripts/queue/mirror-github.mjs,      *)
(*         scripts/team/cron-ingest-wrapup.mjs (its guard),                *)
(*         test/fixtures/fix-queue.ts                                      *)
(***************************************************************************)
EXTENDS Naturals, Sequences, FiniteSets

CONSTANTS Fingerprints,
          Statuses,      \* what a person says of an entry: all but "new"
          Locals,        \* wrap-up runs of one capture, by a person
          Crons,         \* the unattended judge, with one capture
          Mirrors,       \* mirror runs
          MaxOverlap,    \* bound: actors at work at a time
          MaxFault,      \* bound: crashes, and issues created whose answer is lost
          MaxEdit        \* bound: edits by hand

ASSUME FixQueueAssumption ==
         /\ Statuses \cap {"none", "new"} = {}
         /\ Mirrors \cap (Locals \cup Crons) = {}
         /\ MaxOverlap \in Nat /\ MaxFault \in Nat /\ MaxEdit \in Nat

Runs == Locals \cup Crons \cup Mirrors
NoIssue == 0

VARIABLES
  queue,       \* the file: a sequence of entries
  tracker,     \* issue number -> the fingerprint it was opened for
  \* the runs
  pc,          \* ready, read, next, ask, write, done
  entry,       \* what the run upserts: an entry, or some of its fields
  body,        \* the file it is about to write
  snapshot,    \* fixQueue, as loaded with the module of the mirror
  index,       \* the entry of the snapshot it is at
  bumps,       \* whether its upsert bumps recurrence
  \* history and bounds
  filed,       \* how often each fingerprint was filed
  reviewed,    \* the fingerprints a person has decided about
  faults, edits,
  overlapped   \* two actors were at work at a time

runVars == <<pc, entry, body, snapshot, index, bumps>>
vars == <<queue, tracker, runVars, filed, reviewed, faults, edits, overlapped>>

Go(r, l) == pc' = [pc EXCEPT ![r] = l]
InFlight == {r \in Runs : pc[r] \notin {"ready", "done"}}
Enters == /\ Cardinality(InFlight) < MaxOverlap
          /\ overlapped' = (overlapped \/ InFlight # {})

(* The loop of a mirror goes on to the next entry.                         *)
Advance(m) == index' = [index EXCEPT ![m] = @ + 1]

(* The position of the first entry of a fingerprint, or 0.                 *)
Find(q, f) == IF \E i \in DOMAIN q : q[i].fingerprint = f
              THEN CHOOSE i \in DOMAIN q : /\ q[i].fingerprint = f
                                           /\ \A j \in 1..(i-1) : q[j].fingerprint # f
              ELSE 0

-----------------------------------------------------------------------------
(* intake.mjs                                                              *)

(* {...existing, ...entryData}                                             *)
Spread(old, e) == [k \in DOMAIN old \cup DOMAIN e |-> IF k \in DOMAIN e THEN e[k] ELSE old[k]]

(* Mutated form of Merged: every upsert counts.                            *)
MergedAlways(old, e, bump) == [Spread(old, e) EXCEPT !.recurrence = old.recurrence + 1]

(* {...existing, ...entryData, recurrence}                                 *)
Merged(old, e, bump) ==
  [Spread(old, e) EXCEPT !.recurrence = IF bump THEN old.recurrence + 1 ELSE old.recurrence]

(* Mutated form of Upserted: re-intake of a closed defect gets a new row.  *)
UpsertedAfresh(q, e, bump) ==
  LET i == Find(q, e.fingerprint)
  IN IF i = 0 \/ q[i].status \in Statuses THEN Append(q, e)
     ELSE [q EXCEPT ![i] = Merged(q[i], e, bump)]

(* upsertQueueEntry: append, or replace in place.                          *)
Upserted(q, e, bump) ==
  LET i == Find(q, e.fingerprint)
  IN IF i = 0 THEN Append(q, e) ELSE [q EXCEPT ![i] = Merged(q[i], e, bump)]

(* buildQueueEntryFromVerdict: the capture knows the recurrence of the     *)
(* moment it was taken.                                                    *)
Candidate(f, n) == [fingerprint |-> f, status |-> "new", recurrence |-> n,
                    githubIssue |-> NoIssue, conflict |-> FALSE]
Fields(e) == [k \in {"fingerprint", "status", "recurrence"} |-> e[k]]

Start(r, f, n) ==
  /\ r \in Locals \cup Crons /\ pc[r] = "ready" /\ Enters
  /\ entry' = [entry EXCEPT ![r] = Candidate(f, n)]
  /\ bumps' = [bumps EXCEPT ![r] = TRUE]
  /\ Go(r, "read")
  /\ UNCHANGED <<queue, tracker, body, snapshot, index, filed, reviewed, faults, edits>>

(* Mutated form of Protected: only what is closed is protected.            *)
ProtectedTerminal(q, f) == Find(q, f) # 0 /\ q[Find(q, f)].status = "locked"

(* wrapCronUpsertQueueEntry: every entry a person has looked at.           *)
Protected(q, f) == Find(q, f) # 0 /\ q[Find(q, f)].status # "new"

(* The read of an upsert, up to its await.  A field the candidate does not *)
(* have keeps its value.  The judge only notes its conflict with a         *)
(* protected entry.                                                        *)
ReadFile(r) ==
  /\ pc[r] = "read"
  /\ LET e == entry[r]
         known == Find(queue, e.fingerprint) # 0
         refused == r \in Crons /\ Protected(queue, e.fingerprint)
     IN /\ body' = [body EXCEPT ![r] =
                      IF refused
                      THEN Upserted(queue, [fingerprint |-> e.fingerprint, conflict |-> TRUE], FALSE)
                      ELSE Upserted(queue, IF known /\ r \notin Mirrors THEN Fields(e) ELSE e,
                                    bumps[r])]
        /\ bumps' = [bumps EXCEPT ![r] = @ /\ ~refused]
  /\ Go(r, "write")
  /\ UNCHANGED <<queue, tracker, entry, snapshot, index, filed, reviewed, faults, edits, overlapped>>

(* writeFileAtomic                                                         *)
WriteFile(r) ==
  /\ pc[r] = "write"
  /\ queue' = body[r]
  /\ filed' = IF bumps[r] THEN [filed EXCEPT ![entry[r].fingerprint] = @ + 1] ELSE filed
  /\ body' = [body EXCEPT ![r] = <<>>]
  /\ IF r \in Mirrors THEN Go(r, "next") /\ Advance(r)
                      ELSE Go(r, "done") /\ UNCHANGED index
  /\ UNCHANGED <<tracker, entry, snapshot, bumps, reviewed, faults, edits, overlapped>>

-----------------------------------------------------------------------------
(* mirror-github.mjs --execute                                             *)

StartMirror(m) ==
  /\ m \in Mirrors /\ pc[m] = "ready" /\ Enters
  /\ snapshot' = [snapshot EXCEPT ![m] = queue]
  /\ index' = [index EXCEPT ![m] = 1]
  /\ Go(m, "next")
  /\ UNCHANGED <<queue, tracker, entry, body, bumps, filed, reviewed, faults, edits>>

(* Mutated form of Eligible: whatever is not closed.                       *)
EligibleOpen(e) == e.status # "locked"

(* isEntryMirrorEligible *)
Eligible(e) == e.status # "new"

(* The loop over the entries: an entry not eligible is skipped, and so is  *)
(* every one when gh is unavailable.                                       *)
NextEntry(m) ==
  /\ m \in Mirrors /\ pc[m] = "next"
  /\ IF index[m] > Len(snapshot[m]) THEN Go(m, "done") /\ UNCHANGED index
     ELSE \/ /\ Eligible(snapshot[m][index[m]])
             /\ Go(m, "ask") /\ UNCHANGED index
          \/ Advance(m) /\ UNCHANGED pc
  /\ UNCHANGED <<queue, tracker, entry, body, snapshot, bumps, filed, reviewed, faults, edits, overlapped>>

Linked(e) == e.githubIssue # NoIssue

(* mirrorEntry: gh issue edit, or gh issue create.                         *)
Edit(m) ==
  /\ m \in Mirrors /\ pc[m] = "ask" /\ Linked(snapshot[m][index[m]])
  /\ Advance(m)
  /\ Go(m, "next")
  /\ UNCHANGED <<queue, tracker, entry, body, snapshot, bumps, filed, reviewed, faults, edits, overlapped>>

Create(m) ==
  /\ m \in Mirrors /\ pc[m] = "ask"
  /\ LET e == snapshot[m][index[m]]
     IN /\ ~Linked(e)
        /\ tracker' = Append(tracker, e.fingerprint)
        /\ entry' = [entry EXCEPT ![m] = [e EXCEPT !.githubIssue = Len(tracker')]]
        /\ bumps' = [bumps EXCEPT ![m] = FALSE]
        /\ Go(m, "read")
  /\ UNCHANGED <<queue, body, snapshot, index, filed, reviewed, faults, edits, overlapped>>

(* gh fails, times out or prints no number: the run ends, with or without  *)
(* an issue.                                                               *)
GhFails(m) ==
  /\ m \in Mirrors /\ pc[m] = "ask" /\ faults < MaxFault
  /\ LET e == snapshot[m][index[m]]
     IN tracker' \in {tracker} \cup (IF Linked(e) THEN {} ELSE {Append(tracker, e.fingerprint)})
  /\ Go(m, "done") /\ faults' = faults + 1
  /\ UNCHANGED <<queue, entry, body, snapshot, index, bumps, filed, reviewed, edits, overlapped>>

-----------------------------------------------------------------------------
Crash(r) ==
  /\ r \in InFlight /\ faults < MaxFault
  /\ Go(r, "done") /\ faults' = faults + 1
  /\ body' = [body EXCEPT ![r] = <<>>]
  /\ UNCHANGED <<queue, tracker, entry, snapshot, index, bumps, filed, reviewed, edits, overlapped>>

(* A person edits the status of an entry ("status transitions mutate this  *)
(* one array in place", fix-queue.ts).                                     *)
Decide(i, s) ==
  /\ edits < MaxEdit /\ Enters
  /\ queue' = [queue EXCEPT ![i].status = s]
  /\ reviewed' = reviewed \cup {queue[i].fingerprint}
  /\ edits' = edits + 1
  /\ UNCHANGED <<tracker, runVars, filed, faults>>

Init ==
  /\ queue = <<>> /\ tracker = <<>>
  /\ pc = [r \in Runs |-> "ready"]
  /\ entry = [r \in Runs |-> <<>>] /\ body = [r \in Runs |-> <<>>]
  /\ snapshot = [r \in Runs |-> <<>>] /\ index = [r \in Runs |-> 1]
  /\ bumps = [r \in Runs |-> FALSE]
  /\ filed = [f \in Fingerprints |-> 0] /\ reviewed = {}
  /\ faults = 0 /\ edits = 0 /\ overlapped = FALSE

(* What a run does once it is started, unless it crashes or gh fails.     *)
Works(r) == NextEntry(r) \/ Edit(r) \/ Create(r) \/ ReadFile(r) \/ WriteFile(r)

Run(r) == \/ \E f \in Fingerprints : Start(r, f, 1)
          \/ StartMirror(r) \/ Works(r) \/ GhFails(r) \/ Crash(r)

Next == \/ \E r \in Runs : Run(r)
        \/ \E i \in DOMAIN queue, s \in Statuses : Decide(i, s)

(* A run is a process that goes on until it ends.                          *)
Spec == Init /\ [][Next]_vars /\ \A r \in Runs : WF_vars(Works(r))

-----------------------------------------------------------------------------
(* Properties.                                                             *)

Entries == [fingerprint : Fingerprints, status : Statuses \cup {"new"}, recurrence : Nat \ {0},
            githubIssue : Nat, conflict : BOOLEAN]

(* Types of the file, the tracker and the runs.                            *)
TypeOK ==
  /\ queue \in Seq(Entries) /\ tracker \in Seq(Fingerprints)
  /\ pc \in [Runs -> {"ready", "read", "next", "ask", "write", "done"}]
  /\ body \in [Runs -> Seq(Entries)] /\ snapshot \in [Runs -> Seq(Entries)]
  /\ entry \in [Runs -> Entries \cup {<<>>}] /\ index \in [Runs -> Nat \ {0}]
  /\ bumps \in [Runs -> BOOLEAN]
  /\ filed \in [Fingerprints -> Nat] /\ reviewed \subseteq Fingerprints
  /\ faults \in 0..MaxFault /\ edits \in 0..MaxEdit

(* "re-intake NEVER creates a second row for the same fingerprint"         *)
(* (intake.mjs:7), however the runs interleave or crash.                   *)
Unique(q) == \A i, j \in DOMAIN q : q[i].fingerprint = q[j].fingerprint => i = j
OneRowPerFingerprint == Unique(queue)

(* No write but that of a filing raises a recurrence: a defect is never    *)
(* counted more often than it was filed, even by runs that write over each *)
(* other ("would shift QUEUE-02 priority", mirror-github.mjs:240).         *)
NeverOvercounted ==
  \A i \in DOMAIN queue : queue[i].recurrence <= filed[queue[i].fingerprint]

(* Only what a person has decided about is published: new -> triaged is the*)
(* human review point, also for a mirror that works from an old snapshot.  *)
PublishedAfterReview == \A n \in DOMAIN tracker : tracker[n] \in reviewed

(* Until two actors overlap or one fails, the file and the tracker together*)
(* are the ledger of defects: each filing counted, no entry lost or sent   *)
(* back by the judge or the mirror, one issue each.                        *)
Row(f) == queue[Find(queue, f)]
Ledger == INSTANCE DefectLedger WITH
            Defects <- Fingerprints,
            status  <- [f \in Fingerprints |-> IF Find(queue, f) = 0 THEN "none" ELSE Row(f).status],
            count   <- [f \in Fingerprints |-> IF Find(queue, f) = 0 THEN 0 ELSE Row(f).recurrence],
            issues  <- [f \in Fingerprints |-> Cardinality({n \in DOMAIN tracker : tracker[n] = f})]
KeepsLedger ==
  /\ Ledger!Init
  /\ [][~overlapped' /\ faults' = 0 =>
          /\ [Ledger!Next]_(Ledger!vars)
          /\ \A c \in Crons : Run(c) => [\E f \in Fingerprints : Ledger!Judge(f)]_(Ledger!vars)
          /\ \A m \in Mirrors : Run(m) => [\E f \in Fingerprints : Ledger!Mirror(f)]_(Ledger!vars)]_vars

(* "refuses to let an automated, unattended write-back touch ANY existing  *)
(* entry a human has already looked at" (cron-ingest-wrapup.mjs:163).      *)
CronSparesReviewed ==
  [][\A r \in Crons, f \in Fingerprints :
       WriteFile(r) /\ Protected(queue, f)
         => Find(queue', f) # 0 /\ queue'[Find(queue', f)].status = queue[Find(queue, f)].status]_vars

(* "Backlink persistence is a metadata-only write"                         *)
(* (mirror-github.mjs:239): it changes no status.                          *)
MirrorWritesMetadata ==
  [][\A m \in Mirrors, f \in Fingerprints :
       WriteFile(m) /\ Find(queue, f) # 0
         => Find(queue', f) # 0 /\ queue'[Find(queue', f)].status = queue[Find(queue, f)].status]_vars

(* "this repo's issue tracker must never accumulate a duplicate issue for  *)
(* the same defect" (mirror-github.mjs:22).                                *)
NoDuplicateIssue == \A m, n \in DOMAIN tracker : tracker[m] = tracker[n] => m = n
=============================================================================
