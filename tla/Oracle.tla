------------------------------- MODULE Oracle -------------------------------
(***************************************************************************)
(* The oracle that judges one staged capture: scripts/oracle (a cold Agda  *)
(* process shared by ORCL-01 and ORCL-03, the soundness scan ORCL-02, the  *)
(* composed verdict) and the gate in front of the fix queue                *)
(* (dogfood-wrapup.mjs wrapUpCapture, flake-classify.mjs).                 *)
(*                                                                         *)
(* A cold command has no end marker: its answer is whatever Agda printed   *)
(* until it was silent for idleMs.  Agda may be silent for longer than     *)
(* that while it works, so the idle timer may fire at any time; the only   *)
(* promise is that Agda stops printing in the end.                         *)
(***************************************************************************)
EXTENDS Integers, Sequences, SequencesExt, FiniteSets

CONSTANTS
    Rerun,      \* replays of the flake gate (--rerun-n)
    Staged      \* bound: captures of a dogfood run that the wrap-up goes through

ASSUME RerunAssumption  == Rerun \in Nat \ {0}
ASSUME StagedAssumption == Staged \in Nat

\* runOracle is run by hand, by the wrap-up of a dogfood run for each capture it
\* has staged, and by emit-regression.
Callers    == {"cli", "wrap-up", "emit"}
Predicates == {"orcl-01", "orcl-02", "orcl-03"}
Commands   == {"version", "load", "infer"}
Classes    == {"complete", "holes", "error"}

\* What a replay of the flake gate observes; "null" is no answer
Observed == {"same", "other", "null"}

\* The environment probes that are run before anything is spawned
PreSpawnProbes == {"version", "agdaDir-hash", "closure-hash", "build-fresh"}

(***************************************************************************)
(* A capture, as the oracle depends on it:                                 *)
(*   warm    the classification of its last usable load action             *)
(*   target  the last load-family action names a file                      *)
(*   inside  that file stays within the directory it is resolved in        *)
(*   signed  an expected signature was recorded                            *)
(*   drift   the probe that fails on this machine, if any                  *)
(*   cold    what a cold load says of it, when it is heard to its end      *)
(***************************************************************************)
CompletenessClassifications == Classes

Captures ==
    {c \in [warm : Classes \cup {"other", "none"}, target : BOOLEAN, inside : BOOLEAN,
            signed : BOOLEAN, drift : PreSpawnProbes \cup {"none"}, cold : Classes] :
        /\ c.warm \notin CompletenessClassifications => c.drift = "none"   \* no probe is run
        /\ c.drift # "none" => c.cold = c.warm}                            \* nothing is loaded

NoCapture == CHOOSE c \in Captures : TRUE       \* none is read yet

(***************************************************************************)
(* The two files that the target's import closure has under                *)
(* manifest.repoRoot, at the time of the scan: what is written in them, or *)
(* not there any more.  "quoted" holds the same words, but only in         *)
(* comments and string literals.                                           *)
(***************************************************************************)
Files == {"target", "import"}
Texts == {"nothing", "axiom", "postulate", "hole", "unsafe", "with-k", "quoted", "absent"}

\* Where the policy of ORCL-02 comes from, and what the policy directory has
PolicyKeys  == {"none", "derived", "given"}
PolicyFiles == {"usable", "unusable", "case variant", "absent"}

VARIABLES
    caller,            \* who runs the oracle
    results,           \* of the captures the wrap-up is done with
    capture, only,     \* the input: a staged capture, the predicates asked for
    stage,             \* where runOracle and wrapUpCapture stand
    agda,              \* the cold process: "none", "up", "broken", "gone"
    stdin,             \* what Agda has still to print, per command it was given
    stdout,            \* printed and not read by the oracle
    killed,            \* kill() was called
    pending, got,      \* the command in flight and the lines recorded for it
    scratch,           \* materialized directories
    harness,           \* a replay server is up
    o1, o2, o3,        \* outcomes, "none" until known
    found, policy,     \* the findings of the scan, and the policy it applied
    verdict,           \* the sidecar is written
    seen,              \* the classifications observed by the replays
    queued, logged     \* the effects: the queue entry, the line of the flaky log

cold == <<agda, stdin, stdout, killed, pending, got>>
outcomes == <<o1, o2, o3, found, policy>>
gate == <<caller, results, harness, seen, queued, logged>>
judgeVars == <<caller, results, capture, only, stage, agda, stdin, stdout, killed, pending, got, scratch, harness,
          o1, o2, o3, found, policy, verdict, seen, queued, logged>>

(***************************************************************************)
(* The cold Agda process (external) and its session                        *)
(***************************************************************************)

Line(command, kind) == [of |-> command, kind |-> kind]

\* What Agda prints for a command.  At its start it may print a library error.
Output(command) ==
    CASE command = "start"   -> <<Line("start", "error")>>
      [] command = "version" -> <<Line("version", "version")>>
      [] command = "load"    ->
            IF capture.cold = "error" THEN <<Line("load", "error")>>
            ELSE <<Line("load", "points"), Line("load", "goals")>>
      [] command = "infer"   -> <<Line("infer", "type")>>

\* The kinds that prove a load came to its end (terminusProbe)
Terminus == {"points", "goals", "error"}

Reached(lines) == \E line \in ToSet(lines) : line.kind \in Terminus

AgdaPrints ==
    /\ agda = "up" /\ stdin # <<>>
    /\ stdout' = Append(stdout, Head(stdin))
    /\ stdin' = Tail(stdin)
    /\ UNCHANGED <<capture, only, stage, agda, killed, pending, got, scratch, outcomes, verdict, gate>>

AgdaEnds ==
    /\ agda = "up"
    /\ agda' = "gone" /\ stdin' = <<>>
    /\ UNCHANGED <<capture, only, stage, stdout, killed, pending, got, scratch, outcomes, verdict, gate>>

\* A line is recorded only while a command is in flight.
ReadLine ==
    /\ agda # "none" /\ stdout # <<>>
    /\ stdout' = Tail(stdout)
    /\ got' = IF pending = "none" THEN got ELSE Append(got, Head(stdout))
    /\ UNCHANGED <<capture, only, stage, agda, stdin, killed, pending, scratch, outcomes, verdict, gate>>

\* sendCommand: the write reaches Agda only while it is there.
Send(command) ==
    /\ pending' = command /\ got' = <<>>
    /\ stdin' = IF agda = "up" THEN stdin \o Output(command) ELSE stdin
    /\ UNCHANGED <<agda, stdout, killed>>

\* Mutated form: kill() does not reach the process.
KillMissing ==
    /\ killed' = (agda # "none")
    /\ stdin' = <<>> /\ pending' = "none" /\ got' = <<>>
    /\ UNCHANGED <<agda, stdout>>

\* kill(): a second call does nothing.
Kill ==
    /\ killed' = (agda # "none")
    /\ agda' = IF agda = "up" THEN "gone" ELSE agda
    /\ stdin' = <<>> /\ pending' = "none" /\ got' = <<>>
    /\ UNCHANGED stdout

(***************************************************************************)
(* ORCL-01 and ORCL-03 over one cold session                               *)
(***************************************************************************)

Shared == "orcl-01" \in only

\* findLoadedRelativePath: some load action has a file.
HasLoadedPath == capture.target \/ capture.warm # "none"

\* The outcome of ORCL-03 when there is no session to ask
Unasked == IF "orcl-03" \notin only THEN "excluded"
           ELSE IF capture.signed THEN "flagged" ELSE "vacuous"

\* The end of the cold half: the session is killed, the directories removed.
Leave(first, third) ==
    /\ o1' = first /\ o3' = third
    /\ stage' = "scan"
    /\ scratch' = scratch \ {"cold"}
    /\ UNCHANGED <<capture, only, o2, found, policy, verdict, gate>>

\* What ends the session before there is anything to compare
Abandon ==
    /\ Kill
    /\ Leave(IF Shared THEN "inconclusive" ELSE "skip", Unasked)

\* The capture is read and parsed, or cannot be.
ReadCapture ==
    /\ stage = "next"
    /\ \/ stage' = "start" /\ capture' \in Captures
       \/ stage' = "failed" /\ UNCHANGED capture
    /\ UNCHANGED <<only, cold, scratch, outcomes, verdict, gate>>

\* Which captures need no cold process at all
StartReplay ==
    /\ stage = "start"
    /\ IF \/ Shared /\ capture.warm \notin CompletenessClassifications
          \/ ~Shared /\ "orcl-03" \notin only
          \/ ~Shared /\ ~(capture.signed /\ HasLoadedPath)
       THEN Leave("skip", Unasked)
       ELSE /\ stage' = "materialize"
            /\ UNCHANGED <<capture, only, scratch, outcomes, verdict, gate>>
    /\ UNCHANGED cold

\* materializeCaptureEnvironment: a failure leaves what it had created.
Materialize ==
    /\ stage = "materialize"
    /\ \/ stage' = "gate" /\ scratch' = scratch \cup {"cold"}
       \/ stage' = "failed" /\ scratch' = scratch \cup {"half"}
    /\ UNCHANGED <<capture, only, cold, outcomes, verdict, gate>>

\* runProbeGate before the spawn: the first probe that fails makes the replay
\* inconclusive.  ORCL-03 alone runs none of them.
Unfaithful == Shared /\ capture.drift \in PreSpawnProbes

Gate ==
    /\ stage = "gate"
    /\ IF ~capture.inside \/ Unfaithful
       THEN /\ Leave(IF Shared THEN "inconclusive" ELSE "skip", Unasked)
            /\ UNCHANGED cold
       ELSE /\ agda' \in {"up", "broken"}
            /\ \E noise \in {<<>>, Output("start")} :
                 stdin' = IF agda' = "up" THEN noise \o Output("version") ELSE <<>>
            /\ pending' = "version" /\ got' = <<>> /\ stdout' = <<>> /\ killed' = FALSE
            /\ UNCHANGED <<capture, only, scratch, outcomes, verdict, gate>>
            /\ stage' = "cold"

\* The spawn failed: the priming command is rejected.
Reject ==
    /\ stage = "cold" /\ agda = "broken"
    /\ Abandon

\* The priming command is answered: its answer is not looked at.
AfterVersion ==
    /\ pending = "version"
    /\ Send("load")
    /\ UNCHANGED <<capture, only, stage, scratch, outcomes, verdict, gate>>

\* parseLoadResponses of the lines that were heard: an error is an error, the
\* goals tell the rest; an answer cut off before them may look complete.
Parsed(lines) ==
    LET kinds == {line.kind : line \in ToSet(lines)} IN
    IF "error" \in kinds THEN {"error"}
    ELSE IF "goals" \in kinds THEN {capture.cold}
    ELSE {capture.cold, "complete"}

\* The load is answered: without a terminus the replay proves nothing; with one
\* the warm classification is compared with the cold one, and ORCL-03 goes on in
\* the same session.
AfterLoad(lines) ==
    /\ pending = "load"
    /\ IF ~Reached(lines) THEN Abandon
       ELSE \E parsed \in Parsed(lines) :
              LET first == IF ~Shared THEN "skip"
                           ELSE IF parsed = capture.warm THEN "pass" ELSE "candidate" IN
              IF "orcl-03" \in only /\ capture.signed
              THEN /\ o1' = first
                   /\ Send("infer")
                   /\ UNCHANGED <<capture, only, stage, scratch, o2, o3, found, policy, verdict, gate>>
              ELSE Kill /\ Leave(first, Unasked)

\* runColdInferAndCompare: only a type that was heard can be the expected one.
AfterInfer(lines) ==
    /\ pending = "infer"
    /\ \E third \in {"flagged", "consistent"} :
         /\ third = "consistent" => \E line \in ToSet(lines) : line.kind = "type"
         /\ Kill /\ Leave(o1, third)

\* What follows a command whose answer is complete, as far as the session knows
Continue(lines) == AfterVersion \/ AfterLoad(lines) \/ AfterInfer(lines)

\* Mutated form: no idle timer, the answer ends with the process.
IdleNever == FALSE

\* No output for idleMs; or the process is gone and its output is read.
Idle ==
    /\ stage = "cold" /\ agda = "up"
    /\ Continue(got)

Closed ==
    /\ stage = "cold" /\ agda = "gone" /\ stdout = <<>>
    /\ Continue(got)

(***************************************************************************)
(* ORCL-02 and the verdict                                                 *)
(***************************************************************************)

\* stripCommentsAndStrings: comments and strings are blanked, pragmas kept.
Stripped(text) == IF text \in {"nothing", "quoted", "absent"} THEN {} ELSE {text}

\* scanPragmaVocabulary; --with-K counts only against a policy that forbids it.
\* A target outside the root is not scanned at all.
ScanClosure(tree, resolved) ==
    IF ~capture.inside THEN {}
    ELSE (UNION {Stripped(tree[f]) : f \in Files}) \ (IF resolved = "none" THEN {"with-k"} ELSE {})

\* resolvePolicyStrict: a derived key may have no policy; a policy that is there
\* and cannot be used, and a given key without one, are errors.
ResolvePolicy(key, file) ==
    CASE key = "none"                            -> "none"
      [] key # "none" /\ file = "usable"         -> "found"
      [] key = "derived" /\ file = "absent"      -> "none"
      [] OTHER                                   -> "error"

\* Who may give a key: the command line, the wrap-up for its corpus
Keys == IF caller = "emit" THEN PolicyKeys \ {"given"} ELSE PolicyKeys

\* diffAgainstWhitelist
Sanctioned(kind, resolved) ==
    /\ resolved = "found"
    /\ \/ kind = "axiom"                                   \* a postulate the policy lists
       \/ kind = "hole" /\ capture.target /\ capture.warm = "holes"

\* judgeOrcl02.  It reads manifest.repoRoot as it is now.
Scan ==
    /\ stage = "scan"
    /\ IF "orcl-02" \notin only \/ ~capture.target
       THEN /\ stage' = "compose"
            /\ o2' = IF "orcl-02" \notin only THEN "skip" ELSE "no-target"
            /\ UNCHANGED <<found, policy>>
       ELSE \E resolved \in {ResolvePolicy(key, file) : key \in Keys, file \in PolicyFiles} :
              IF resolved = "error"
              THEN stage' = "failed" /\ UNCHANGED <<o2, found, policy>>
              ELSE /\ stage' = "compose" /\ policy' = resolved
                   /\ found' \in {ScanClosure(tree, resolved) : tree \in [Files -> Texts]}
                   /\ o2' = IF resolved = "none" /\ found' # {} THEN "no-policy"
                            ELSE IF \A kind \in found' : Sanctioned(kind, resolved) THEN "clean"
                            ELSE "cheat-flagged"
    /\ UNCHANGED <<capture, only, cold, scratch, o1, o3, verdict, gate>>

\* composeVerdict, written beside the capture, then the metrics line
Compose ==
    /\ stage = "compose"
    /\ \/ /\ stage' = CASE caller = "cli" -> "done" [] caller = "wrap-up" -> "file" [] caller = "emit" -> "lock"
          /\ verdict' = TRUE
       \/ stage' = "failed" /\ verdict' \in BOOLEAN      \* the verdict, or only the metrics
    /\ UNCHANGED <<capture, only, cold, scratch, outcomes, gate>>

TrueGreen == verdict /\ o1 = "pass" /\ o2 = "clean"

(***************************************************************************)
(* The gate in front of the queue                                          *)
(***************************************************************************)

\* wrapUpCapture: a cheat is filed at once, a candidate after the replays.
File ==
    /\ stage = "file"
    /\ \/ o2 = "cheat-flagged" /\ queued' = TRUE /\ stage' = "done"
       \/ o2 = "cheat-flagged" /\ stage' = "failed" /\ UNCHANGED queued    \* the queue cannot be written
       \/ o2 # "cheat-flagged" /\ o1 = "candidate" /\ stage' = "replay" /\ UNCHANGED queued
       \/ o2 # "cheat-flagged" /\ o1 # "candidate" /\ stage' = "done" /\ UNCHANGED queued
    /\ UNCHANGED <<caller, results, capture, only, cold, scratch, outcomes, verdict, harness, seen, logged>>

\* One replay: its own directories and its own server, torn down in any case
ReplayStarts ==
    /\ stage = "replay" /\ Len(seen) < Rerun /\ "replay" \notin scratch
    /\ \/ scratch' = scratch \cup {"replay"} /\ harness' = TRUE /\ UNCHANGED stage
       \/ stage' = "failed" /\ UNCHANGED <<scratch, harness>>            \* no server: removed
       \/ stage' = "failed" /\ scratch' = scratch \cup {"half"} /\ UNCHANGED harness
    /\ UNCHANGED <<caller, results, capture, only, cold, outcomes, verdict, seen, queued, logged>>

ReplayEnds ==
    /\ stage = "replay" /\ harness
    /\ scratch' = scratch \ {"replay"} /\ harness' = FALSE
    /\ \/ \E class \in Observed : seen' = Append(seen, class) /\ UNCHANGED stage
       \/ stage' = "failed" /\ UNCHANGED seen
    /\ UNCHANGED <<caller, results, capture, only, cold, outcomes, verdict, queued, logged>>

\* Mutated form: replays that observe nothing agree with each other.
StableNull(observed) == \A k \in DOMAIN observed : observed[k] = observed[1]

\* classifyFlakiness: every replay must have observed the same classification.
Stable(observed) ==
    \A k \in DOMAIN observed : observed[k] # "null" /\ observed[k] = observed[1]

Classify ==
    /\ stage = "replay" /\ Len(seen) = Rerun
    /\ \/ stage' = "done" /\ queued' = Stable(seen) /\ logged' = ~Stable(seen)
       \/ stage' = "failed" /\ UNCHANGED <<queued, logged>>     \* the queue or the log cannot be written
    /\ UNCHANGED <<caller, results, capture, only, cold, scratch, outcomes, verdict, harness, seen>>

\* What the wrap-up reports of a capture
Outcome ==
    CASE stage = "failed"                                    -> "error"
      [] stage = "done" /\ queued                            -> "deterministic"
      [] stage = "done" /\ logged /\ ToSet(seen) = {"null"}  -> "replay-inconclusive"
      [] stage = "done" /\ logged /\ ToSet(seen) # {"null"}  -> "flaky"
      [] OTHER                                               -> "not-a-candidate"

\* The wrap-up (scriptMain) goes through the staged captures one by one; a
\* capture that fails is reported as an error and does not stop the others.
NextCapture ==
    /\ caller = "wrap-up" /\ stage \in {"done", "failed"}
    /\ results' = Append(results, Outcome)
    /\ o1' = "none" /\ o2' = "none" /\ o3' = "none" /\ found' = {} /\ policy' = "none"
    /\ verdict' = FALSE /\ seen' = <<>> /\ queued' = FALSE /\ logged' = FALSE
    /\ agda' = "none" /\ stdin' = <<>> /\ stdout' = <<>> /\ killed' = FALSE
    /\ pending' = "none" /\ got' = <<>>
    /\ capture' = NoCapture
    /\ \/ Len(results') < Staged /\ stage' = "next"
       \/ stage' = "report"
    /\ UNCHANGED <<caller, only, scratch, harness>>

\* The report is written, then the run is uploaded by a process of its own, whose
\* failure is not one of the wrap-up.
Report ==
    /\ stage = "report"
    /\ stage' \in {"uploaded", "not uploaded", "no report"}
    /\ UNCHANGED <<capture, only, cold, scratch, outcomes, verdict, gate>>

(***************************************************************************)
(* Specification                                                           *)
(***************************************************************************)

JudgeInit ==
    /\ caller \in Callers /\ results = <<>>
    /\ capture = NoCapture
    /\ only \in IF caller = "cli" THEN SUBSET Predicates ELSE {Predicates}
    /\ stage = "next"
    /\ agda = "none" /\ stdin = <<>> /\ stdout = <<>> /\ killed = FALSE
    /\ pending = "none" /\ got = <<>>
    /\ scratch = {} /\ harness = FALSE
    /\ o1 = "none" /\ o2 = "none" /\ o3 = "none" /\ found = {} /\ policy = "none"
    /\ verdict = FALSE /\ seen = <<>> /\ queued = FALSE /\ logged = FALSE

JudgeStep ==
    \/ ReadCapture \/ StartReplay \/ Materialize \/ Gate \/ Reject \/ Idle \/ Closed
    \/ Scan \/ Compose \/ File \/ ReplayStarts \/ ReplayEnds \/ Classify
    \/ NextCapture \/ Report

JudgeNext == AgdaPrints \/ AgdaEnds \/ ReadLine \/ JudgeStep

\* The judge runs in one Node process; its timers fire and its reads are served.
JudgeSpec == JudgeInit /\ [][JudgeNext]_judgeVars /\ WF_judgeVars(JudgeStep) /\ WF_judgeVars(ReadLine)

(***************************************************************************)
(* Properties                                                              *)
(***************************************************************************)

Ended == \/ caller = "wrap-up" /\ stage \in {"uploaded", "not uploaded", "no report"}
         \/ caller # "wrap-up" /\ stage \in {"lock", "done", "failed"}

JudgeTypeOK ==
    /\ caller \in Callers /\ capture \in Captures /\ only \subseteq Predicates
    /\ stage \in {"next", "start", "materialize", "gate", "cold", "scan", "compose", "file", "replay",
                  "done", "failed", "lock", "report", "uploaded", "not uploaded", "no report"}
    /\ agda \in {"none", "up", "broken", "gone"}
    /\ pending \in Commands \cup {"none"}
    /\ scratch \subseteq {"cold", "half", "replay"}
    /\ o1 \in {"none", "skip", "pass", "candidate", "inconclusive"}
    /\ o2 \in {"none", "skip", "no-target", "no-policy", "clean", "cheat-flagged"}
    /\ o3 \in {"none", "excluded", "vacuous", "flagged", "consistent"}
    /\ found \subseteq Texts /\ policy \in {"none", "found"}
    /\ seen \in Seq(Observed) /\ Len(seen) <= Rerun
    /\ {killed, harness, verdict, queued, logged} \subseteq BOOLEAN

\* However a judgement ends, by a verdict, an abstention or an error, no Agda
\* process, no replay server and no directory of a completed materialization
\* outlives it, and no command is left in flight (run-oracle.mjs:160-161,
\* flake-classify.mjs:132-137).
NothingIsLeft ==
    stage \notin {"start", "materialize", "gate", "cold", "replay"} =>
        /\ agda # "up" /\ pending = "none"
        /\ scratch \subseteq {"half"}
        /\ ~harness

\* A queue entry always has a verdict on disk and a cause: an unsanctioned
\* finding under a policy, or a difference between a warm and a cold load of a
\* faithful replay that every replay of the flake gate reproduced.  What the gate
\* turned away is in the flaky log and nowhere else (dogfood-wrapup.mjs:232-269).
FiledWithCause ==
    /\ queued =>
         /\ verdict /\ only = Predicates
         /\ \/ o2 = "cheat-flagged" /\ policy = "found" /\ \E kind \in found : ~Sanctioned(kind, policy)
            \/ /\ o1 = "candidate" /\ capture.drift = "none" /\ capture.inside
               /\ Len(seen) = Rerun /\ Cardinality(ToSet(seen)) = 1 /\ "null" \notin ToSet(seen)
    /\ logged =>
         /\ ~queued /\ o1 = "candidate"
         /\ Cardinality(ToSet(seen)) > 1 \/ "null" \in ToSet(seen)

\* The judgement comes to an end although no command has a hard timeout, and a
\* wrap-up reaches its report whatever becomes of a single capture.
JudgementEnds == <>Ended

\* What cold-agda-session.mjs:48-51 says: output never lands in the answer of
\* the wrong command.  (The priming command is there to take what Agda prints at
\* its start.)
AnswersAreTheCommands ==
    \A line \in ToSet(got) : line.of = pending \/ <<line.of, pending>> = <<"start", "version">>

\* What dogfood-wrapup.mjs:239-240 says of the flake gate: a candidate that
\* survives it is trusted as a real defect.  A real one differs in a cold load
\* that is heard to its end.
CandidatesAreReal == queued /\ o2 # "cheat-flagged" => capture.cold # capture.warm
=============================================================================
