-------------------------- MODULE SessionLoad_proofs --------------------------
(***************************************************************************)
(* What holds of SessionLoad for any number of calls, edits, files and     *)
(* contents: types and advice however calls overlap, the load state when   *)
(* loads come one at a time.                                               *)
(***************************************************************************)
EXTENDS SessionLoad, FiniteSetTheorems, TLAPS

(* The stage of a call while a task of a kind is queued or executes.       *)
Stage(kind) == IF kind = "load" THEN "loading" ELSE kind

Idle(c)        == pc[c] \in {"new", "returned"}
Reconciling(c) == pc[c] \in {"reconcile", "metas", "recover", "recovery"}

(* One call at a time: nothing is swept, since nothing is queued behind    *)
(* what executes, and what is queued or executes is of the one call.       *)
SeqInv ==
  /\ swept = {}
  /\ \A c, d \in Calls : ~Idle(c) /\ ~Idle(d) => c = d
  /\ \A i \in DOMAIN queue : pc[queue[i][1]] = Stage(queue[i][2])
  /\ Len(queue) <= 1
  /\ running # NoTask => pc[running[1]] = Stage(running[2]) /\ queue = <<>>

(* What Agda has read is what the file contained at the version it read,   *)
(* and for a load in flight it is the file of that load.                   *)
ReadInv ==
  /\ agda.file \in Files =>
       /\ agda.mtime <= mtime[agda.file]
       /\ agda.mtime = mtime[agda.file] => agda.content = content[agda.file]
  /\ \A c \in Calls : running = <<c, "load">> /\ hasRead => agda.file = file[c]

(* A load in flight has no current file, a pending call no classification; *)
(* the file that is current in a live child is the one Agda has, its goals *)
(* are Agda's, and it is complete only without goals, or at another        *)
(* version; a call that reconciles knows what was wrong with the file.     *)
LoadInv ==
  /\ \A c \in Calls : pc[c] = "loading" => currentFile = NoFile
  /\ \A c \in Calls : ~Idle(c) => classification = "none"
  /\ child = "live" /\ currentFile # NoFile =>
       /\ agda.file = currentFile
       /\ goalIds \subseteq InteractionPoints(agda.content)
       /\ classification = "ok-complete" => \/ InteractionPoints(agda.content) = {}
                                            \/ EditedSinceRead(currentFile)
       /\ \A c \in Calls : Reconciling(c) =>
            /\ goals[c] \subseteq InteractionPoints(agda.content)
            /\ agda.content \in {"clean", "hole", "abstract", "meta"}
            /\ agda.content = "meta" => invisible[c]

IInv == TypeOK /\ SeqInv /\ ReadInv /\ LoadInv

-----------------------------------------------------------------------------
(* The queue.                                                              *)
Outcomes == [Tasks -> {"new", "waiting", "resolved", "rejected"}]
Stages   == {"new", "loading", "reconcile", "metas", "recover", "recovery", "returned"}

LEMMA TaskLemma ==
  /\ NoTask \notin Tasks
  /\ \A t \in Tasks : t[1] \in Calls /\ t[2] \in {"load", "metas", "recovery"} /\ t = <<t[1], t[2]>>
  /\ \A c \in Calls : \A k \in {"load", "metas", "recovery"} : <<c, k>> \in Tasks
  /\ \A c \in Calls : c \in Nat
  BY LoadAssumption DEF Tasks, NoTask, Calls

LEMMA SubmitLemma ==
  ASSUME TypeOK, NEW t \in Tasks, Queue!Submit(t)
  PROVE /\ queue' = Append(queue, t) /\ queue' \in Seq(Tasks) /\ outcome' \in Outcomes
        /\ UNCHANGED running
<1>1. queue' = Append(queue, t) /\ outcome' = [outcome EXCEPT ![t] = "waiting"] /\ UNCHANGED running
  BY DEF Queue!Submit, Queue!Enqueue
<1>2. queue \in Seq(Tasks) /\ outcome \in Outcomes
  BY DEF TypeOK, Outcomes
<1>3. outcome' \in Outcomes
  BY <1>1, <1>2 DEF Outcomes
<1> QED BY <1>1, <1>2, <1>3

LEMMA AnsweredLemma ==
  ASSUME TypeOK, NEW o, Answered(o)
  PROVE /\ Quiet /\ running # NoTask /\ running' = NoTask /\ queue' = queue /\ outcome' \in Outcomes
        /\ UNCHANGED <<swept, agda, hasRead, content, mtime>>
<1>1. /\ running # NoTask /\ running' = NoTask /\ queue' = queue
      /\ \E a \in {"resolved", "rejected"} : outcome' = [outcome EXCEPT ![running] = a]
      /\ Quiet /\ UNCHANGED <<swept, agda, hasRead, content, mtime>>
  BY DEF Answered, Queue!Answer, Queue!Answers, diskVars
<1>2. outcome \in Outcomes
  BY DEF TypeOK, Outcomes
<1>3. outcome' \in Outcomes
  BY <1>1, <1>2 DEF Outcomes
<1> QED BY <1>1, <1>3

LEMMA HeadLemma ==
  ASSUME TypeOK, queue # <<>>
  PROVE /\ Head(queue) \in Tasks /\ Tail(queue) \in Seq(Tasks) /\ 1 \in DOMAIN queue
        /\ Head(queue) = queue[1] /\ (Len(queue) <= 1 => Tail(queue) = <<>>)
  BY DEF TypeOK

LEMMA RefusedLemma ==
  ASSUME TypeOK, NEW t, Refused(t)
  PROVE /\ ~Ready /\ running = NoTask /\ running' = NoTask /\ queue # <<>> /\ t = Head(queue) /\ t \in Tasks
        /\ queue' = Tail(queue) /\ queue' \in Seq(Tasks) /\ outcome' \in Outcomes
        /\ UNCHANGED <<swept, agda, hasRead, content, mtime>>
        /\ \/ t \in swept /\ UNCHANGED <<child, currentFile, loadedMtime>>
           \/ /\ t \notin swept /\ child # "live"
              /\ child' = "none" /\ currentFile' = NoFile /\ loadedMtime' = NoTime
<1>1. /\ ~Ready /\ running = NoTask /\ running' = running /\ queue # <<>> /\ t = Head(queue)
      /\ queue' = Tail(queue) /\ outcome' = [outcome EXCEPT ![Head(queue)] = "rejected"]
      /\ UNCHANGED <<swept, agda, hasRead, content, mtime>>
      /\ \/ t \in swept /\ UNCHANGED <<child, currentFile, loadedMtime>>
         \/ /\ t \notin swept /\ child # "live"
            /\ child' = "none" /\ currentFile' = NoFile /\ loadedMtime' = NoTime
  BY DEF Refused, Queue!Refuse, diskVars
<1>2. outcome \in Outcomes
  BY DEF TypeOK, Outcomes
<1>3. outcome' \in Outcomes
  BY <1>1, <1>2 DEF Outcomes
<1> QED BY <1>1, <1>3, HeadLemma

-----------------------------------------------------------------------------
(* The continuations.                                                      *)

LEMMA ReturnLemma ==
  ASSUME TypeOK, NEW c \in Calls, NEW v \in Verdicts, Return(c, v)
  PROVE /\ pc' \in [Calls -> Stages] /\ verdict' \in [Calls -> Verdicts \cup {"none"}]
        /\ pc'[c] = "returned" /\ verdict'[c] = v
        /\ \A d \in Calls : d # c => pc'[d] = pc[d] /\ verdict'[d] = verdict[d]
  BY DEF Return, TypeOK, Stages

LEMMA PointsLemma ==
  ASSUME NEW x
  PROVE /\ InteractionPoints(x) \subseteq {0}
        /\ InteractionPoints(x) # {} => x = "hole"
  BY DEF InteractionPoints

(* What is left of a load once a reconciliation is done.                   *)
LEMMA ContinueLemma ==
  ASSUME TypeOK, NEW c \in Calls, NEW new \in SUBSET {0}, NEW f, Continue(c, new, f)
  PROVE /\ pc' \in [Calls -> Stages] /\ verdict' \in [Calls -> Verdicts \cup {"none"}]
        /\ goals' \in [Calls -> SUBSET {0}] /\ classification' \in Verdicts \cup {"none"}
        /\ pc'[c] \in {"recover", "returned"} /\ \A d \in Calls : d # c => pc'[d] = pc[d]
        /\ pc'[c] = "recover" => /\ classification' = IF child' = "live" THEN classification ELSE "none"
                                 /\ f = file[c] /\ goals'[c] = goals[c] \cup new
                                 /\ pc[c] = "metas" /\ verdict' = verdict
        /\ pc'[c] = "returned" => classification' = verdict'[c] /\ verdict'[c] # "none"
        /\ pc'[c] = "returned" /\ verdict'[c] \in {"ok-complete", "ok-with-holes"} =>
             f = file[c] /\ goals'[c] = goals[c] \cup new
        /\ pc'[c] = "returned" /\ verdict'[c] = "ok-complete" =>
             /\ f = file[c] /\ goals[c] \cup new = {} /\ ~invisible[c] /\ pc[c] # "recovery"
             /\ pc[c] = "metas" => ~HasSourceHoles(file[c])
<1> DEFINE gs == goals[c] \cup new
<1>0. gs \in SUBSET {0} /\ goals \in [Calls -> SUBSET {0}] /\ pc \in [Calls -> Stages]
      /\ classification \in Verdicts \cup {"none"}
  BY DEF TypeOK, Stages
<1> HIDE DEF gs
<1>1. CASE f # file[c]
  <2>1. Return(c, "proc-died") /\ classification' = "proc-died" /\ goals' = goals
    BY <1>1 DEF Continue, ProcDied, FinalizeEarlyReturn
  <2>2. "proc-died" \in Verdicts
    BY DEF Verdicts
  <2> QED BY <1>0, <2>1, <2>2, ReturnLemma
<1>2. CASE f = file[c] /\ pc[c] = "metas" /\ NeedsHoleScan(c, gs)
  <2>1. /\ pc' = [pc EXCEPT ![c] = "recover"] /\ goals' = [goals EXCEPT ![c] = gs]
        /\ classification' = ClassificationNow /\ verdict' = verdict
    BY <1>2 DEF Continue, ProcDied, gs
  <2>2. verdict' \in [Calls -> Verdicts \cup {"none"}]
    BY <2>1 DEF TypeOK
  <2>3. pc' \in [Calls -> Stages] /\ pc'[c] = "recover" /\ \A d \in Calls : d # c => pc'[d] = pc[d]
    BY <1>0, <2>1 DEF Stages
  <2>4. goals' \in [Calls -> SUBSET {0}] /\ goals'[c] = gs
    BY <1>0, <2>1
  <2>5. classification' = (IF child' = "live" THEN classification ELSE "none")
    BY <2>1 DEF ClassificationNow
  <2> QED BY <1>0, <1>2, <2>1, <2>2, <2>3, <2>4, <2>5 DEF gs
<1>3. CASE f = file[c] /\ ~(pc[c] = "metas" /\ NeedsHoleScan(c, gs))
  <2> DEFINE v == ClassifyLoadResult(gs # {} \/ invisible[c] \/ pc[c] = "recovery")
  <2>1. Return(c, v) /\ classification' = v /\ goals' = [goals EXCEPT ![c] = gs]
    BY <1>3 DEF Continue, ProcDied, FinalizeEarlyReturn, gs
  <2>2. v \in {"ok-complete", "ok-with-holes"} /\ v \in Verdicts
    BY DEF ClassifyLoadResult, Verdicts
  <2>3. v = "ok-complete" => gs = {} /\ ~invisible[c] /\ pc[c] # "recovery"
    BY DEF ClassifyLoadResult
  <2>4. v = "ok-complete" /\ pc[c] = "metas" => ~HasSourceHoles(file[c])
    BY <1>3, <2>3 DEF NeedsHoleScan
  <2>5. goals' \in [Calls -> SUBSET {0}] /\ goals'[c] = gs
    BY <1>0, <2>1
  <2> HIDE DEF v
  <2>6. /\ pc' \in [Calls -> Stages] /\ verdict' \in [Calls -> Verdicts \cup {"none"}]
        /\ pc'[c] = "returned" /\ verdict'[c] = v
        /\ \A d \in Calls : d # c => pc'[d] = pc[d]
    BY <2>1, <2>2, ReturnLemma
  <2> QED BY <1>3, <2>1, <2>2, <2>3, <2>4, <2>5, <2>6 DEF gs
<1> QED BY <1>1, <1>2, <1>3

-----------------------------------------------------------------------------
(* Types.                                                                  *)

(* The parts of the type invariant that a step of the queue, of the calls  *)
(* or of the session disturbs.                                             *)
LEMMA TypeInit == Init => TypeOK
<1> SUFFICES ASSUME Init PROVE TypeOK
  OBVIOUS
<1>1. queue \in Seq(Tasks) /\ running = NoTask /\ outcome \in [Tasks -> {"new", "waiting", "resolved", "rejected"}]
  BY DEF Init, Queue!Init
<1>2. swept \subseteq Tasks /\ pc \in [Calls -> Stages] /\ op \in [Calls -> Ops] /\ file \in [Calls -> Files]
  BY DEF Init, Stages
<1>3. goals \in [Calls -> SUBSET {0}] /\ invisible \in [Calls -> BOOLEAN] /\ verdict \in [Calls -> Verdicts \cup {"none"}]
  BY DEF Init
<1>4. NoTime \in 0..NoTime /\ \A n \in 0..MaxEdit : n \in 0..NoTime
  BY LoadAssumption DEF NoTime
<1>5. agda \in [file : Files \cup {NoFile}, content : Contents \cup {"missing"}, mtime : 0..NoTime]
  BY <1>4 DEF Init
<1>6. content \in [Files -> Contents] /\ mtime \in [Files -> 0..MaxEdit]
  BY LoadAssumption DEF Init
<1>7. /\ currentFile \in Files \cup {NoFile} /\ goalIds \subseteq {0}
      /\ loadedMtime \in 0..NoTime /\ classification \in Verdicts \cup {"none"}
      /\ child \in {"none", "live", "dead"} /\ hasRead \in BOOLEAN
  BY <1>4 DEF Init
<1> QED BY <1>1, <1>2, <1>3, <1>5, <1>6, <1>7 DEF TypeOK, Stages

(* The types one by one: a step that leaves a variable alone keeps its.    *)
QueueOK   == queue \in Seq(Tasks) /\ running \in Tasks \cup {NoTask} /\ swept \subseteq Tasks /\ outcome \in Outcomes
CallsOK   == /\ pc \in [Calls -> Stages] /\ op \in [Calls -> Ops] /\ file \in [Calls -> Files]
             /\ goals \in [Calls -> SUBSET {0}] /\ invisible \in [Calls -> BOOLEAN]
             /\ verdict \in [Calls -> Verdicts \cup {"none"}]
SessionOK == /\ currentFile \in Files \cup {NoFile} /\ goalIds \subseteq {0}
             /\ loadedMtime \in 0..NoTime /\ classification \in Verdicts \cup {"none"}
ChildOK   == /\ child \in {"none", "live", "dead"} /\ hasRead \in BOOLEAN
             /\ agda \in [file : Files \cup {NoFile}, content : Contents \cup {"missing"}, mtime : 0..NoTime]
DiskOK    == content \in [Files -> Contents] /\ mtime \in [Files -> 0..MaxEdit]

LEMMA TypeParts == TypeOK <=> QueueOK /\ CallsOK /\ SessionOK /\ ChildOK /\ DiskOK
  BY DEF TypeOK, QueueOK, CallsOK, SessionOK, ChildOK, DiskOK, Stages, Outcomes

LEMMA TimeLemma ==
  /\ NoTime \in Nat /\ NoTime \in 0..NoTime /\ \A n \in 0..MaxEdit : n \in 0..NoTime
  /\ NoTime \notin 0..MaxEdit
  BY LoadAssumption DEF NoTime

LEMMA InvalidateLemma ==
  ASSUME InvalidatePriorLoadState PROVE SessionOK'
  BY TimeLemma DEF InvalidatePriorLoadState, SessionOK

LEMMA ResetLemma ==
  ASSUME SessionOK, ResetIfProcDied PROVE SessionOK'
  BY InvalidateLemma DEF ResetIfProcDied, SessionOK, sessionVars

(* What is recorded of an answered load, and of the rest of the answer.    *)
LEMMA RecordLemma ==
  ASSUME TypeOK, NEW c \in Calls, NEW ids \in SUBSET {0}, RecordLoad(c, ids)
  PROVE /\ currentFile' = file[c] /\ goalIds' = ids /\ file[c] \in Files
        /\ currentFile' \in Files \cup {NoFile} /\ goalIds' \subseteq {0} /\ loadedMtime' \in 0..NoTime
<1>1. file[c] \in Files /\ loadedMtime \in 0..NoTime /\ mtime[file[c]] \in 0..MaxEdit
  BY DEF TypeOK
<1> QED BY <1>1, TimeLemma DEF RecordLoad

LEMMA VerdictLemma ==
  /\ {"ok-complete", "ok-with-holes", "type-error", "no-terminus", "proc-died", "not-found", "threw"} = Verdicts
  /\ "none" \notin Verdicts
  BY DEF Verdicts

LEMMA TypePartsNext ==
  ASSUME QueueOK', CallsOK', SessionOK', ChildOK', DiskOK' PROVE TypeOK'
  BY DEF TypeOK, QueueOK, CallsOK, SessionOK, ChildOK, DiskOK, Stages, Outcomes

LEMMA ResponsesLemma ==
  ASSUME TypeOK, NEW c \in Calls, NEW ks, Responses(c, ks)
  PROVE /\ Quiet /\ running = <<c, "load">> /\ running # NoTask /\ running' = NoTask /\ queue' = queue
        /\ outcome' \in Outcomes
        /\ UNCHANGED <<swept, agda, hasRead, content, mtime, child, op, file>>
        /\ ks # {} => hasRead
        /\ child = "live" => hasRead /\ ks = Complete(agda.content)
        /\ child = "dead" => hasRead /\ ks = Complete(agda.content)
<1>1. running = <<c, "load">> /\ Answered("resolved") /\ UNCHANGED <<child, op, file>>
  BY DEF Responses
<1>2. /\ ks # {} => hasRead
      /\ child # "none" => hasRead /\ ks = Complete(agda.content)
  BY DEF Responses
<1> QED BY <1>1, <1>2, AnsweredLemma

LEMMA LoadAnsweredLemma ==
  ASSUME TypeOK, NEW c \in Calls, LoadAnswered(c)
  PROVE \E ks \in (SUBSET {"Points", "Goals", "Error"}) \ {{}} : \E ids \in SUBSET {0} :
          /\ Responses(c, ks) /\ RecordLoad(c, ids) /\ ids \subseteq InteractionPoints(agda.content)
          /\ goals' = [goals EXCEPT ![c] = ids] /\ goals' \in [Calls -> SUBSET {0}] /\ goals'[c] = ids
          /\ invisible' = [invisible EXCEPT ![c] = ParsedInvisible(ks)]
          /\ invisible' \in [Calls -> BOOLEAN] /\ invisible'[c] = ParsedInvisible(ks)
          /\ pc' \in [Calls -> Stages] /\ pc'[c] \in {"returned", "reconcile"}
          /\ \A d \in Calls : d # c => pc'[d] = pc[d]
          /\ verdict' \in [Calls -> Verdicts \cup {"none"}] /\ classification' \in Verdicts \cup {"none"}
          /\ pc'[c] = "reconcile" => "Error" \notin ks /\ classification' = ClassificationNow
          /\ pc'[c] = "returned" => /\ classification' \in {"type-error", ClassificationNow}
                                    /\ verdict'[c] \in {"threw", "type-error"}
<1>1. PICK ks \in (SUBSET {"Points", "Goals", "Error"}) \ {{}} :
        /\ Responses(c, ks)
        /\ \E ids \in ParsedGoals(ks) :
            /\ RecordLoad(c, ids)
            /\ goals' = [goals EXCEPT ![c] = ids]
            /\ invisible' = [invisible EXCEPT ![c] = ParsedInvisible(ks)]
        /\ CASE content[file[c]] = "missing" ->
                 /\ Return(c, "threw") /\ classification' = ClassificationNow
            [] content[file[c]] # "missing" /\ "Error" \in ks ->
                 /\ FinalizeEarlyReturn(c, "type-error")
            [] OTHER ->
                 /\ pc' = [pc EXCEPT ![c] = "reconcile"]
                 /\ classification' = ClassificationNow
                 /\ UNCHANGED verdict
  BY DEF LoadAnswered
<1>2. PICK ids \in ParsedGoals(ks) :
            /\ RecordLoad(c, ids)
            /\ goals' = [goals EXCEPT ![c] = ids]
            /\ invisible' = [invisible EXCEPT ![c] = ParsedInvisible(ks)]
  BY <1>1
<1>3. ids \in SUBSET {0} /\ ids \subseteq InteractionPoints(agda.content)
  BY PointsLemma DEF ParsedGoals
<1>4. ParsedInvisible(ks) \in BOOLEAN
  BY DEF ParsedInvisible
<1>5. goals' \in [Calls -> SUBSET {0}] /\ goals'[c] = ids
  <2>1. goals \in [Calls -> SUBSET {0}]
    BY DEF TypeOK
  <2> QED BY <1>2, <1>3, <2>1
<1>6. invisible' \in [Calls -> BOOLEAN] /\ invisible'[c] = ParsedInvisible(ks)
  <2>1. invisible \in [Calls -> BOOLEAN]
    BY DEF TypeOK
  <2> HIDE DEF ParsedInvisible
  <2> QED BY <1>2, <1>4, <2>1, Zenon
<1>7. ClassificationNow \in Verdicts \cup {"none"}
  BY DEF ClassificationNow, TypeOK
<1>8. /\ pc' \in [Calls -> Stages] /\ pc'[c] \in {"returned", "reconcile"}
      /\ \A d \in Calls : d # c => pc'[d] = pc[d]
      /\ verdict' \in [Calls -> Verdicts \cup {"none"}] /\ classification' \in Verdicts \cup {"none"}
      /\ pc'[c] = "reconcile" => "Error" \notin ks /\ classification' = ClassificationNow
      /\ pc'[c] = "returned" => /\ classification' \in {"type-error", ClassificationNow}
                                /\ verdict'[c] \in {"threw", "type-error"}
  <2>1. CASE content[file[c]] = "missing"
    <3>1. Return(c, "threw") /\ classification' = ClassificationNow
      BY <1>1, <2>1
    <3> QED BY <1>7, <3>1, ReturnLemma, VerdictLemma
  <2>2. CASE content[file[c]] # "missing" /\ "Error" \in ks
    <3>1. Return(c, "type-error") /\ classification' = "type-error"
      BY <1>1, <2>2 DEF FinalizeEarlyReturn
    <3> QED BY <3>1, ReturnLemma, VerdictLemma
  <2>3. CASE content[file[c]] # "missing" /\ "Error" \notin ks
    <3>1. pc' = [pc EXCEPT ![c] = "reconcile"] /\ classification' = ClassificationNow /\ verdict' = verdict
      BY <1>1, <2>3
    <3>2. pc \in [Calls -> Stages] /\ verdict \in [Calls -> Verdicts \cup {"none"}]
      BY DEF TypeOK, Stages
    <3> HIDE DEF ClassificationNow
    <3>3. pc' \in [Calls -> Stages] /\ pc'[c] = "reconcile" /\ \A d \in Calls : d # c => pc'[d] = pc[d]
      BY <3>1, <3>2 DEF Stages
    <3> QED BY <1>7, <2>3, <3>1, <3>2, <3>3
  <2> QED BY <2>1, <2>2, <2>3
<1> QED
  <2> WITNESS ks \in (SUBSET {"Points", "Goals", "Error"}) \ {{}}
  <2> ids \in SUBSET {0}
    BY <1>3
  <2> WITNESS ids \in SUBSET {0}
  <2> QED BY <1>1, <1>2, <1>3, <1>5, <1>6, <1>8

LEMMA StrictAnsweredLemma ==
  ASSUME TypeOK, NEW c \in Calls, StrictAnswered(c)
  PROVE \E ks \in (SUBSET {"Points", "Goals", "Error"}) \ {{}} : \E ids \in SUBSET {0} :
          /\ Responses(c, ks) /\ RecordLoad(c, ids) /\ ids \subseteq InteractionPoints(agda.content)
          /\ UNCHANGED <<goals, invisible>> /\ op[c] = "strict"
          /\ pc' \in [Calls -> Stages] /\ pc'[c] = "returned" /\ \A d \in Calls : d # c => pc'[d] = pc[d]
          /\ verdict' \in [Calls -> Verdicts \cup {"none"}] /\ classification' \in Verdicts \cup {"none"}
          /\ \/ classification' = ClassificationNow \/ classification' = "type-error"
             \/ classification' = "ok-complete" /\ ids = {} /\ ~HasSourceHoles(file[c])
<1>1. PICK ks \in (SUBSET {"Points", "Goals", "Error"}) \ {{}} :
        /\ Responses(c, ks)
        /\ \E ids \in ParsedGoals(ks) :
            LET clean    == ids = {} /\ ~ParsedInvisible(ks)
                hasHoles == ~clean \/ HasSourceHoles(file[c])
                success  == "Error" \notin ks /\ ~hasHoles
            IN /\ RecordLoad(c, ids)
               /\ IF content[file[c]] = "missing"
                    THEN Return(c, "threw") /\ classification' = ClassificationNow
                    ELSE FinalizeEarlyReturn(c, IF success THEN "ok-complete"
                                                           ELSE "type-error")
  BY DEF StrictAnswered
<1> DEFINE clean(ids) == ids = {} /\ ~ParsedInvisible(ks)
           success(ids) == "Error" \notin ks /\ ~(~clean(ids) \/ HasSourceHoles(file[c]))
<1>2. PICK ids \in ParsedGoals(ks) :
            /\ RecordLoad(c, ids)
            /\ IF content[file[c]] = "missing"
                    THEN Return(c, "threw") /\ classification' = ClassificationNow
                    ELSE FinalizeEarlyReturn(c, IF success(ids) THEN "ok-complete"
                                                           ELSE "type-error")
  BY <1>1
<1>3. ids \in SUBSET {0} /\ ids \subseteq InteractionPoints(agda.content)
  BY PointsLemma DEF ParsedGoals
<1>4. op[c] = "strict" /\ UNCHANGED <<goals, invisible>>
  BY DEF StrictAnswered
<1>7. ClassificationNow \in Verdicts \cup {"none"}
  BY DEF ClassificationNow, TypeOK
<1>8. \E v \in {"threw", "ok-complete", "type-error"} :
        /\ Return(c, v) /\ classification' \in {ClassificationNow, v} /\ (v = "threw" => classification' = ClassificationNow)
        /\ v = "ok-complete" => ids = {} /\ ~HasSourceHoles(file[c])
  <2>0. success(ids) => ids = {} /\ ~HasSourceHoles(file[c])
    OBVIOUS
  <2> HIDE DEF success
  <2>1. CASE content[file[c]] = "missing"
    BY <1>2, <2>1
  <2>2. CASE content[file[c]] # "missing" /\ success(ids)
    BY <1>2, <2>0, <2>2 DEF FinalizeEarlyReturn
  <2>3. CASE content[file[c]] # "missing" /\ ~success(ids)
    BY <1>2, <2>3 DEF FinalizeEarlyReturn
  <2> QED BY <2>1, <2>2, <2>3
<1>9. PICK v \in {"threw", "ok-complete", "type-error"} :
        /\ Return(c, v) /\ classification' \in {ClassificationNow, v} /\ (v = "threw" => classification' = ClassificationNow)
        /\ v = "ok-complete" => ids = {} /\ ~HasSourceHoles(file[c])
  BY <1>8
<1>10. v \in Verdicts
  BY VerdictLemma
<1>11. /\ pc' \in [Calls -> Stages] /\ pc'[c] = "returned" /\ \A d \in Calls : d # c => pc'[d] = pc[d]
       /\ verdict' \in [Calls -> Verdicts \cup {"none"}] /\ classification' \in Verdicts \cup {"none"}
       /\ \/ classification' = ClassificationNow \/ classification' = "type-error"
          \/ classification' = "ok-complete" /\ ids = {} /\ ~HasSourceHoles(file[c])
  BY <1>7, <1>9, <1>10, ReturnLemma
<1> QED
  <2> WITNESS ks \in (SUBSET {"Points", "Goals", "Error"}) \ {{}}
  <2> ids \in SUBSET {0}
    BY <1>3
  <2> WITNESS ids \in SUBSET {0}
  <2> QED BY <1>1, <1>2, <1>3, <1>4, <1>11

LEMMA GoalIdsLemma ==
  ASSUME NEW c \in Calls, goals' \in [Calls -> SUBSET {0}], NEW ids \in SUBSET {0}, GoalIdsAfter(c, ids)
  PROVE goalIds' \subseteq {0}
  BY DEF GoalIdsAfter

LEMMA NowLemma ==
  ASSUME TypeOK
  PROVE /\ FileNow \in Files \cup {NoFile} /\ GoalsNow \in SUBSET {0}
        /\ (IF child' = "live" THEN loadedMtime ELSE NoTime) \in 0..NoTime
        /\ (IF child = "live" THEN loadedMtime ELSE NoTime) \in 0..NoTime
  BY TimeLemma DEF FileNow, GoalsNow, TypeOK

LEMMA MetasAnsweredLemma ==
  ASSUME TypeOK, NEW c \in Calls, MetasAnswered(c)
  PROVE /\ running \in {<<c, "metas">>, <<c, "recovery">>}
        /\ Quiet /\ running # NoTask /\ running' = NoTask /\ queue' = queue /\ outcome' \in Outcomes
        /\ UNCHANGED <<swept, agda, hasRead, content, mtime, child, op, file, invisible>>
        /\ currentFile' = FileNow /\ loadedMtime' = IF child = "live" THEN loadedMtime ELSE NoTime
        /\ \E ids \in SUBSET {0} :
             /\ Continue(c, ids, FileNow) /\ GoalIdsAfter(c, ids)
             /\ ids \in {InteractionPoints(agda.content), GoalsNow}
<1>1. /\ running \in {<<c, "metas">>, <<c, "recovery">>} /\ Answered("resolved")
      /\ UNCHANGED <<child, op, file, invisible>>
      /\ currentFile' = FileNow /\ loadedMtime' = IF child = "live" THEN loadedMtime ELSE NoTime
  BY DEF MetasAnswered
<1>2. PICK evidence \in BOOLEAN :
        LET ids == IF evidence THEN InteractionPoints(agda.content) ELSE GoalsNow
        IN /\ evidence => agda.file = file[c]
           /\ (child = "live" /\ agda.file = file[c]) => evidence
           /\ Continue(c, ids, FileNow)
           /\ GoalIdsAfter(c, ids)
  BY DEF MetasAnswered
<1> DEFINE ids == IF evidence THEN InteractionPoints(agda.content) ELSE GoalsNow
<1>3. ids \in SUBSET {0}
  BY PointsLemma, NowLemma
<1>4. /\ Continue(c, ids, FileNow) /\ GoalIdsAfter(c, ids)
      /\ ids \in {InteractionPoints(agda.content), GoalsNow}
  BY <1>2
<1> HIDE DEF ids
<1>5. /\ Quiet /\ running # NoTask /\ running' = NoTask /\ queue' = queue /\ outcome' \in Outcomes
      /\ UNCHANGED <<swept, agda, hasRead, content, mtime>>
  BY <1>1, AnsweredLemma
<1> QED BY <1>1, <1>3, <1>4, <1>5

(* What a reconciliation that was not answered leaves.                     *)
LEMMA MetasThrowsLemma ==
  ASSUME TypeOK, NEW c \in Calls, MetasThrows(c)
  PROVE /\ running \in {<<c, "metas">>, <<c, "recovery">>}
        /\ Quiet /\ running # NoTask /\ running' = NoTask /\ queue' = queue /\ outcome' \in Outcomes
        /\ UNCHANGED <<swept, agda, hasRead, content, mtime, op, file, invisible>>
        /\ child' \in {"none", "live", "dead"} /\ (child' = "live" => child = "live")
        /\ currentFile' = FileNow /\ loadedMtime' \in 0..NoTime
        /\ Continue(c, {}, FileNow) /\ GoalIdsAfter(c, GoalsNow)
<1>1. /\ running \in {<<c, "metas">>, <<c, "recovery">>} /\ (Answered("rejected") \/ Answered("resolved"))
      /\ UNCHANGED <<op, file, invisible>> /\ child' \in {child, IF child = "live" THEN "dead" ELSE child}
      /\ currentFile' = FileNow /\ loadedMtime' = IF child' = "live" THEN loadedMtime ELSE NoTime
      /\ Continue(c, {}, FileNow) /\ GoalIdsAfter(c, GoalsNow)
  BY DEF MetasThrows
<1>2. child \in {"none", "live", "dead"} /\ loadedMtime' \in 0..NoTime
  BY <1>1, NowLemma DEF TypeOK
<1>3. /\ Quiet /\ running # NoTask /\ running' = NoTask /\ queue' = queue /\ outcome' \in Outcomes
      /\ UNCHANGED <<swept, agda, hasRead, content, mtime>>
  BY <1>1, AnsweredLemma
<1> QED BY <1>1, <1>2, <1>3

-----------------------------------------------------------------------------
(* Every step keeps the types.                                             *)

LEMMA SettleType ==
  ASSUME TypeOK, NEW c \in Calls,
         \/ LoadThrows(c) \/ LoadRefused(c) \/ LoadIncomplete(c) \/ LoadAnswered(c)
         \/ StrictAnswered(c) \/ MetasAnswered(c) \/ MetasThrows(c) \/ MetasRefused(c)
  PROVE TypeOK'
<1>0. QueueOK /\ CallsOK /\ SessionOK /\ ChildOK /\ DiskOK
  BY TypeParts
<1>r. \A v \in Verdicts : Return(c, v) =>
        pc' \in [Calls -> Stages] /\ verdict' \in [Calls -> Verdicts \cup {"none"}]
  BY ReturnLemma
<1>1. CASE LoadThrows(c)
  <2>1. /\ Answered("rejected") \/ Answered("resolved")
        /\ child' \in {child, IF child = "live" THEN "dead" ELSE child}
        /\ ResetIfProcDied /\ Return(c, "threw") /\ UNCHANGED <<op, file, goals, invisible>>
    BY <1>1 DEF LoadThrows
  <2>2. QueueOK' /\ DiskOK' /\ UNCHANGED <<agda, hasRead>>
    BY <1>0, <2>1, AnsweredLemma DEF QueueOK, DiskOK
  <2>3. CallsOK'
    BY <1>0, <1>r, <2>1, VerdictLemma DEF CallsOK
  <2>4. SessionOK' /\ ChildOK'
    BY <1>0, <2>1, <2>2, ResetLemma DEF ChildOK
  <2> QED BY <2>2, <2>3, <2>4, TypePartsNext
<1>2. CASE LoadRefused(c)
  <2>1. /\ Refused(<<c, "load">>) /\ Return(c, "threw") /\ UNCHANGED <<op, file, goals, invisible>>
        /\ IF <<c, "load">> \in swept THEN UNCHANGED <<goalIds, classification>>
                                      ELSE goalIds' = {} /\ classification' = "none"
    BY <1>2 DEF LoadRefused
  <2>2. QueueOK' /\ DiskOK' /\ ChildOK' /\ currentFile' \in Files \cup {NoFile} /\ loadedMtime' \in 0..NoTime
    <3>1. /\ running' = NoTask /\ queue' \in Seq(Tasks) /\ outcome' \in Outcomes
          /\ UNCHANGED <<swept, agda, hasRead, content, mtime>>
          /\ \/ UNCHANGED <<child, currentFile, loadedMtime>>
             \/ child' = "none" /\ currentFile' = NoFile /\ loadedMtime' = NoTime
      BY <2>1, RefusedLemma
    <3> QED BY <1>0, <3>1, TimeLemma DEF QueueOK, DiskOK, ChildOK, SessionOK
  <2>3. CallsOK'
    BY <1>0, <1>r, <2>1, VerdictLemma DEF CallsOK
  <2>4. SessionOK'
    BY <1>0, <2>1, <2>2 DEF SessionOK
  <2> QED BY <2>2, <2>3, <2>4, TypePartsNext
<1>3. CASE LoadIncomplete(c)
  <2>1. /\ Responses(c, {}) /\ Return(c, "no-terminus") /\ classification' = "no-terminus"
        /\ currentFile' = FileNow /\ goalIds' = GoalsNow
        /\ loadedMtime' = (IF child = "live" THEN loadedMtime ELSE NoTime)
        /\ UNCHANGED <<goals, invisible>>
    BY <1>3 DEF LoadIncomplete, FinalizeEarlyReturn
  <2>2. QueueOK' /\ DiskOK' /\ ChildOK' /\ UNCHANGED <<op, file>>
    BY <1>0, <2>1, ResponsesLemma DEF QueueOK, DiskOK, ChildOK
  <2>3. CallsOK'
    BY <1>0, <1>r, <2>1, <2>2, VerdictLemma DEF CallsOK
  <2>4. SessionOK'
    BY <2>1, NowLemma, VerdictLemma DEF SessionOK
  <2> QED BY <2>2, <2>3, <2>4, TypePartsNext
<1>4. CASE LoadAnswered(c)
  <2>1. PICK ks \in (SUBSET {"Points", "Goals", "Error"}) \ {{}}, ids \in SUBSET {0} :
          /\ Responses(c, ks) /\ RecordLoad(c, ids)
          /\ goals' \in [Calls -> SUBSET {0}] /\ invisible' \in [Calls -> BOOLEAN]
          /\ pc' \in [Calls -> Stages]
          /\ verdict' \in [Calls -> Verdicts \cup {"none"}] /\ classification' \in Verdicts \cup {"none"}
    BY <1>4, LoadAnsweredLemma
  <2>2. QueueOK' /\ DiskOK' /\ ChildOK' /\ UNCHANGED <<op, file>>
    BY <1>0, <2>1, ResponsesLemma DEF QueueOK, DiskOK, ChildOK
  <2>3. CallsOK'
    BY <1>0, <2>1, <2>2 DEF CallsOK
  <2>4. SessionOK'
    BY <2>1, RecordLemma DEF SessionOK
  <2> QED BY <2>2, <2>3, <2>4, TypePartsNext
<1>5. CASE StrictAnswered(c)
  <2>1. PICK ks \in (SUBSET {"Points", "Goals", "Error"}) \ {{}}, ids \in SUBSET {0} :
          /\ Responses(c, ks) /\ RecordLoad(c, ids) /\ UNCHANGED <<goals, invisible>>
          /\ pc' \in [Calls -> Stages]
          /\ verdict' \in [Calls -> Verdicts \cup {"none"}] /\ classification' \in Verdicts \cup {"none"}
    BY <1>5, StrictAnsweredLemma
  <2>2. QueueOK' /\ DiskOK' /\ ChildOK' /\ UNCHANGED <<op, file>>
    BY <1>0, <2>1, ResponsesLemma DEF QueueOK, DiskOK, ChildOK
  <2>3. CallsOK'
    BY <1>0, <2>1, <2>2 DEF CallsOK
  <2>4. SessionOK'
    BY <2>1, RecordLemma DEF SessionOK
  <2> QED BY <2>2, <2>3, <2>4, TypePartsNext
<1>6. CASE MetasAnswered(c)
  <2>1. PICK ids \in SUBSET {0} : Continue(c, ids, FileNow) /\ GoalIdsAfter(c, ids)
    BY <1>6, MetasAnsweredLemma
  <2>2. /\ QueueOK' /\ DiskOK' /\ ChildOK' /\ UNCHANGED <<op, file, invisible>>
        /\ currentFile' = FileNow /\ loadedMtime' = IF child = "live" THEN loadedMtime ELSE NoTime
    BY <1>0, <1>6, MetasAnsweredLemma DEF QueueOK, DiskOK, ChildOK
  <2>3. /\ pc' \in [Calls -> Stages] /\ verdict' \in [Calls -> Verdicts \cup {"none"}]
        /\ goals' \in [Calls -> SUBSET {0}] /\ classification' \in Verdicts \cup {"none"}
    BY <2>1, ContinueLemma
  <2>4. CallsOK'
    BY <1>0, <2>2, <2>3 DEF CallsOK
  <2>5. SessionOK'
    BY <2>1, <2>2, <2>3, NowLemma, GoalIdsLemma DEF SessionOK
  <2> QED BY <2>2, <2>4, <2>5, TypePartsNext
<1>7. CASE MetasThrows(c)
  <2>1. /\ Continue(c, {}, FileNow) /\ GoalIdsAfter(c, GoalsNow) /\ UNCHANGED <<op, file, invisible>>
        /\ currentFile' = FileNow /\ loadedMtime' \in 0..NoTime
    BY <1>7, MetasThrowsLemma
  <2>2. QueueOK' /\ DiskOK' /\ ChildOK'
    BY <1>0, <1>7, MetasThrowsLemma DEF QueueOK, DiskOK, ChildOK
  <2>3. /\ pc' \in [Calls -> Stages] /\ verdict' \in [Calls -> Verdicts \cup {"none"}]
        /\ goals' \in [Calls -> SUBSET {0}] /\ classification' \in Verdicts \cup {"none"}
    BY <2>1, ContinueLemma
  <2>4. CallsOK'
    BY <1>0, <2>1, <2>3 DEF CallsOK
  <2>5. SessionOK'
    BY <2>1, <2>3, NowLemma, GoalIdsLemma DEF SessionOK
  <2> QED BY <2>2, <2>4, <2>5, TypePartsNext
<1>8. CASE MetasRefused(c)
  <2>1. PICK step \in {"metas", "recovery"} :
          /\ Refused(<<c, step>>) /\ Continue(c, {}, currentFile')
          /\ GoalIdsAfter(c, IF <<c, step>> \in swept THEN goalIds ELSE {})
    BY <1>8 DEF MetasRefused
  <2>2. QueueOK' /\ DiskOK' /\ ChildOK' /\ currentFile' \in Files \cup {NoFile} /\ loadedMtime' \in 0..NoTime
    <3>1. /\ running' = NoTask /\ queue' \in Seq(Tasks) /\ outcome' \in Outcomes
          /\ UNCHANGED <<swept, agda, hasRead, content, mtime>>
          /\ \/ UNCHANGED <<child, currentFile, loadedMtime>>
             \/ child' = "none" /\ currentFile' = NoFile /\ loadedMtime' = NoTime
      BY <2>1, RefusedLemma
    <3> QED BY <1>0, <3>1, TimeLemma DEF QueueOK, DiskOK, ChildOK, SessionOK
  <2>3. /\ pc' \in [Calls -> Stages] /\ verdict' \in [Calls -> Verdicts \cup {"none"}]
        /\ goals' \in [Calls -> SUBSET {0}] /\ classification' \in Verdicts \cup {"none"}
    BY <2>1, ContinueLemma
  <2>4. CallsOK'
    BY <1>0, <1>8, <2>3 DEF CallsOK, MetasRefused
  <2>5. goalIds' \subseteq {0}
    <3>1. (IF <<c, step>> \in swept THEN goalIds ELSE {}) \in SUBSET {0}
      BY <1>0 DEF SessionOK
    <3> QED BY <2>1, <2>3, <3>1, GoalIdsLemma
  <2>6. SessionOK'
    BY <2>2, <2>3, <2>5 DEF SessionOK
  <2> QED BY <2>2, <2>4, <2>6, TypePartsNext
<1> QED BY <1>1, <1>2, <1>3, <1>4, <1>5, <1>6, <1>7, <1>8

LEMMA TypeStep == ASSUME TypeOK, [Next]_vars PROVE TypeOK'
<1>0. QueueOK /\ CallsOK /\ SessionOK /\ ChildOK /\ DiskOK
  BY TypeParts
<1>1. ASSUME NEW c \in Calls, Call(c) PROVE TypeOK'
  <2>1. /\ currentFile' = NoFile /\ goalIds' = {} /\ loadedMtime' = NoTime
        /\ UNCHANGED <<swept, op, file, goals, invisible, child, agda, hasRead, content, mtime>>
    BY <1>1 DEF Call, childVars, diskVars
  <2>2. /\ queue' \in Seq(Tasks) /\ outcome' \in Outcomes /\ running' = running
        /\ pc' \in [Calls -> Stages] /\ verdict' \in [Calls -> Verdicts \cup {"none"}]
        /\ classification' \in Verdicts \cup {"none"}
    <3>1. CASE content[file[c]] = "missing"
      <4>1. Return(c, "not-found") /\ classification' = "not-found" /\ UNCHANGED queueVars
        BY <1>1, <3>1 DEF Call, FinalizeEarlyReturn
      <4> QED BY <1>0, <4>1, ReturnLemma, VerdictLemma DEF queueVars, QueueOK
    <3>2. CASE content[file[c]] # "missing"
      <4>1. /\ Queue!Submit(<<c, "load">>) /\ pc' = [pc EXCEPT ![c] = "loading"]
            /\ classification' = "none" /\ verdict' = verdict
        BY <1>1, <3>2 DEF Call
      <4>2. pc' \in [Calls -> Stages]
        BY <1>0, <4>1 DEF CallsOK, Stages
      <4>3. <<c, "load">> \in Tasks
        BY <1>1, TaskLemma
      <4> QED BY <1>0, <4>1, <4>2, <4>3, SubmitLemma DEF CallsOK
    <3> QED BY <3>1, <3>2
  <2>3. QueueOK' /\ CallsOK' /\ SessionOK' /\ ChildOK' /\ DiskOK'
    BY <1>0, <2>1, <2>2, TimeLemma DEF QueueOK, CallsOK, SessionOK, ChildOK, DiskOK
  <2> QED BY <2>3, TypePartsNext
<1>2. ASSUME NEW c \in Calls, Reconcile(c) PROVE TypeOK'
  <2>1. UNCHANGED <<swept, op, file, goals, invisible, verdict, sessionVars, childVars, diskVars>>
    BY <1>2 DEF Reconcile
  <2>2. \E step \in {"metas", "recovery"} : Queue!Submit(<<c, step>>) /\ pc' = [pc EXCEPT ![c] = step]
    BY <1>2 DEF Reconcile
  <2>3. queue' \in Seq(Tasks) /\ outcome' \in Outcomes /\ running' = running
    BY <1>2, <2>2, SubmitLemma, TaskLemma
  <2>4. pc' \in [Calls -> Stages]
    BY <1>0, <2>2 DEF CallsOK, Stages
  <2>5. QueueOK' /\ CallsOK' /\ SessionOK' /\ ChildOK' /\ DiskOK'
    BY <1>0, <2>1, <2>3, <2>4 DEF QueueOK, CallsOK, SessionOK, ChildOK, DiskOK, sessionVars, childVars, diskVars
  <2> QED BY <2>5, TypePartsNext
<1>3. ASSUME NEW c \in Calls, AgdaReads(c) PROVE TypeOK'
  <2>1. /\ hasRead' = TRUE /\ UNCHANGED <<queueVars, swept, callVars, sessionVars, child, diskVars>>
        /\ agda' = [file |-> file[c], content |-> content[file[c]], mtime |-> mtime[file[c]]]
    BY <1>3 DEF AgdaReads
  <2>2. file[c] \in Files /\ content[file[c]] \in Contents /\ mtime[file[c]] \in 0..MaxEdit
    BY <1>0 DEF CallsOK, DiskOK
  <2>3. agda' \in [file : Files \cup {NoFile}, content : Contents \cup {"missing"}, mtime : 0..NoTime]
    BY <2>1, <2>2, TimeLemma
  <2>4. QueueOK' /\ CallsOK' /\ SessionOK' /\ DiskOK'
    BY <1>0, <2>1 DEF QueueOK, CallsOK, SessionOK, DiskOK, queueVars, callVars, sessionVars, diskVars
  <2>5. ChildOK'
    BY <1>0, <2>1, <2>3 DEF ChildOK
  <2> QED BY <2>4, <2>5, TypePartsNext
<1>4. ASSUME Begin PROVE TypeOK'
  <2>1. /\ running = NoTask /\ queue # <<>> /\ running' = Head(queue) /\ queue' = Tail(queue) /\ outcome' = outcome
        /\ hasRead' = FALSE /\ UNCHANGED <<swept, callVars, diskVars>>
    BY <1>4 DEF Begin, Queue!Begin
  <2>2. QueueOK' /\ CallsOK' /\ DiskOK'
    BY <1>0, <2>1, HeadLemma DEF QueueOK, CallsOK, DiskOK, callVars, diskVars
  <2>3. \/ UNCHANGED <<child, agda, sessionVars>>
        \/ /\ child' = "live" /\ agda' = [file |-> NoFile, content |-> "missing", mtime |-> NoTime]
           /\ InvalidatePriorLoadState
    BY <1>4 DEF Begin
  <2>4. SessionOK'
    BY <1>0, <2>3, InvalidateLemma DEF SessionOK, sessionVars
  <2>5. ChildOK'
    <3>1. [file |-> NoFile, content |-> "missing", mtime |-> NoTime]
            \in [file : Files \cup {NoFile}, content : Contents \cup {"missing"}, mtime : 0..NoTime]
      BY TimeLemma
    <3> QED BY <1>0, <2>1, <2>3, <3>1, Zenon DEF ChildOK
  <2> QED BY <2>2, <2>4, <2>5, TypePartsNext
<1>5. ASSUME Settle PROVE TypeOK'
  BY <1>5, SettleType DEF Settle
<1>6. ASSUME Sweep PROVE TypeOK'
  <2>1. /\ swept' = swept \cup {queue[i] : i \in DOMAIN queue}
        /\ UNCHANGED <<queueVars, callVars, sessionVars, childVars, diskVars>>
    BY <1>6 DEF Sweep
  <2>2. \A i \in DOMAIN queue : queue[i] \in Tasks
    BY <1>0 DEF QueueOK
  <2>3. QueueOK' /\ CallsOK' /\ SessionOK' /\ ChildOK' /\ DiskOK'
    BY <1>0, <2>1, <2>2 DEF QueueOK, CallsOK, SessionOK, ChildOK, DiskOK, queueVars, callVars, sessionVars,
                            childVars, diskVars
  <2> QED BY <2>3, TypePartsNext
<1>7. ASSUME ChildDies PROVE TypeOK'
  <2>1. child' = "dead" /\ UNCHANGED <<queueVars, swept, callVars, sessionVars, agda, hasRead, diskVars>>
    BY <1>7 DEF ChildDies
  <2>2. QueueOK' /\ CallsOK' /\ SessionOK' /\ ChildOK' /\ DiskOK'
    BY <1>0, <2>1 DEF QueueOK, CallsOK, SessionOK, ChildOK, DiskOK, queueVars, callVars, sessionVars, diskVars
  <2> QED BY <2>2, TypePartsNext
<1>8. ASSUME ChildCloses PROVE TypeOK'
  <2>1. child' = "none" /\ InvalidatePriorLoadState /\ UNCHANGED <<queueVars, swept, callVars, agda, hasRead, diskVars>>
    BY <1>8 DEF ChildCloses
  <2>2. QueueOK' /\ CallsOK' /\ ChildOK' /\ DiskOK'
    BY <1>0, <2>1 DEF QueueOK, CallsOK, ChildOK, DiskOK, queueVars, callVars, diskVars
  <2> QED BY <2>1, <2>2, InvalidateLemma, TypePartsNext
<1>9. ASSUME NEW f \in Files, NEW x \in Contents, Edit(f, x) PROVE TypeOK'
  <2>1. /\ mtime[f] < MaxEdit /\ content' = [content EXCEPT ![f] = x]
        /\ mtime' = [mtime EXCEPT ![f] = mtime[f] + 1]
        /\ UNCHANGED <<queueVars, swept, callVars, sessionVars, childVars>>
    BY <1>9 DEF Edit
  <2>2. content' \in [Files -> Contents]
    BY <1>0, <2>1 DEF DiskOK
  <2>3. mtime[f] + 1 \in 0..MaxEdit
    BY <1>0, <2>1, LoadAssumption DEF DiskOK
  <2>4. DiskOK'
    BY <1>0, <2>1, <2>2, <2>3 DEF DiskOK
  <2>5. QueueOK' /\ CallsOK' /\ SessionOK' /\ ChildOK'
    BY <1>0, <2>1 DEF QueueOK, CallsOK, SessionOK, ChildOK, queueVars, callVars, sessionVars, childVars
  <2> QED BY <2>4, <2>5, TypePartsNext
<1>10. CASE UNCHANGED vars
  BY <1>10 DEF vars, queueVars, callVars, sessionVars, childVars, diskVars, TypeOK
<1> QED BY <1>1, <1>2, <1>3, <1>4, <1>5, <1>6, <1>7, <1>8, <1>9, <1>10 DEF Next

(* Whatever overlaps, fails or dies, every variable keeps its type: a      *)
(* settled call has a verdict, and the session's load state is one of the  *)
(* states its code distinguishes (AgdaSession's fields).                   *)
THEOREM TypeCorrect == Spec => []TypeOK
<1>1. Init => TypeOK
  BY TypeInit
<1>2. TypeOK /\ [Next]_vars => TypeOK'
  BY TypeStep
<1> QED BY <1>1, <1>2, PTL DEF Spec

-----------------------------------------------------------------------------
(* Advice, however calls overlap.                                          *)

LEMMA AdviceLemma ==
  ASSUME NEW s, NEW tool \in Advised(s) PROVE Admits(s, tool)
<1>1. tool \in SuggestedActions(s) \/ tool \in ToolRecommendations(s)
  BY DEF Advised
<1> QED
  BY <1>1
  DEF SuggestedActions, ToolRecommendations, Admits, ValidGoal, NoErrorState, Phase, AfterError, Reload,
      WithGoals, WithoutGoals, GoalTools, ClosingTools

(* No advice the session gives sends a caller to a tool that refuses the   *)
(* call (deriveSuggestedActions and deriveToolRecommendations against      *)
(* validateGoalId and sessionErrorStateGate): in every state, busy or not. *)
THEOREM AdviceAdmitted == Spec => []AdviceIsAdmitted
<1>1. AdviceIsAdmitted
  BY AdviceLemma DEF AdviceIsAdmitted
<1> QED BY <1>1, PTL

-----------------------------------------------------------------------------
(* One call at a time.                                                     *)

(* What settles belongs to the one pending call, and leaves nothing queued.*)
LEMMA SettleEffect ==
  ASSUME TypeOK, SeqInv, NEW c \in Calls,
         \/ LoadThrows(c) \/ LoadRefused(c) \/ LoadIncomplete(c) \/ LoadAnswered(c)
         \/ StrictAnswered(c) \/ MetasAnswered(c) \/ MetasThrows(c) \/ MetasRefused(c)
  PROVE /\ queue' = <<>> /\ running' = NoTask /\ swept' = {}
        /\ UNCHANGED <<agda, hasRead, content, mtime, file, op>>
        /\ \A d \in Calls : d # c => pc'[d] = pc[d]
        /\ pc[c] = IF MetasAnswered(c) \/ MetasThrows(c) \/ MetasRefused(c)
                     THEN (IF pc[c] = "recovery" THEN "recovery" ELSE "metas") ELSE "loading"
<1>1. ASSUME running # NoTask PROVE queue = <<>> /\ swept = {} /\ pc[running[1]] = Stage(running[2])
  BY <1>1 DEF SeqInv
<1>2. ASSUME NEW t, Refused(t)
      PROVE /\ queue' = <<>> /\ running' = NoTask /\ swept' = {} /\ pc[t[1]] = Stage(t[2])
            /\ UNCHANGED <<agda, hasRead, content, mtime>>
  <2>1. /\ running' = NoTask /\ queue # <<>> /\ t = Head(queue) /\ queue' = Tail(queue) /\ swept' = swept
        /\ UNCHANGED <<agda, hasRead, content, mtime>>
    BY <1>2, RefusedLemma
  <2>2. t = queue[1] /\ 1 \in DOMAIN queue /\ Tail(queue) = <<>>
    BY <2>1, HeadLemma DEF SeqInv
  <2> QED BY <2>1, <2>2 DEF SeqInv
<1>3. \A v \in Verdicts : Return(c, v) => \A d \in Calls : d # c => pc'[d] = pc[d]
  BY ReturnLemma
<1>4. \A new \in SUBSET {0} : \A f : Continue(c, new, f) => \A d \in Calls : d # c => pc'[d] = pc[d]
  BY ContinueLemma
<1>5. ASSUME LoadThrows(c) \/ LoadIncomplete(c) \/ LoadAnswered(c) \/ StrictAnswered(c)
      PROVE /\ queue' = <<>> /\ running' = NoTask /\ swept' = {} /\ pc[c] = "loading"
            /\ UNCHANGED <<agda, hasRead, content, mtime, file, op>>
            /\ \A d \in Calls : d # c => pc'[d] = pc[d]
  <2>1. running = <<c, "load">> /\ queue' = queue /\ running' = NoTask /\ running # NoTask
        /\ UNCHANGED <<swept, agda, hasRead, content, mtime, file, op>>
    <3>1. CASE LoadThrows(c)
      <4>1. running = <<c, "load">> /\ (Answered("rejected") \/ Answered("resolved")) /\ UNCHANGED <<op, file>>
        BY <3>1 DEF LoadThrows
      <4> QED BY <4>1, AnsweredLemma
    <3>2. CASE LoadIncomplete(c)
      BY <3>2, ResponsesLemma DEF LoadIncomplete
    <3>3. CASE LoadAnswered(c)
      <4>1. \E ks : Responses(c, ks)
        BY <3>3, LoadAnsweredLemma
      <4> QED BY <4>1, ResponsesLemma
    <3>4. CASE StrictAnswered(c)
      <4>1. \E ks : Responses(c, ks)
        BY <3>4, StrictAnsweredLemma
      <4> QED BY <4>1, ResponsesLemma
    <3> QED BY <1>5, <3>1, <3>2, <3>3, <3>4
  <2>2. \A d \in Calls : d # c => pc'[d] = pc[d]
    <3>1. CASE LoadThrows(c) \/ LoadIncomplete(c)
      <4>1. \E v \in Verdicts : Return(c, v)
        BY <3>1, VerdictLemma DEF LoadThrows, LoadIncomplete, FinalizeEarlyReturn
      <4> QED BY <1>3, <4>1
    <3>2. CASE LoadAnswered(c)
      BY <3>2, LoadAnsweredLemma
    <3>3. CASE StrictAnswered(c)
      BY <3>3, StrictAnsweredLemma
    <3> QED BY <1>5, <3>1, <3>2, <3>3
  <2>3. running[1] = c /\ running[2] = "load"
    BY <2>1
  <2> QED BY <1>1, <2>1, <2>2, <2>3 DEF Stage
<1>6. ASSUME LoadRefused(c)
      PROVE /\ queue' = <<>> /\ running' = NoTask /\ swept' = {} /\ pc[c] = "loading"
            /\ UNCHANGED <<agda, hasRead, content, mtime, file, op>>
            /\ \A d \in Calls : d # c => pc'[d] = pc[d]
  <2>1. Refused(<<c, "load">>) /\ Return(c, "threw") /\ UNCHANGED <<op, file>>
    BY <1>6 DEF LoadRefused
  <2>2. pc[c] = Stage("load")
    BY <1>2, <2>1
  <2> QED BY <1>2, <1>3, <2>1, <2>2, VerdictLemma DEF Stage
<1>7. ASSUME MetasAnswered(c) \/ MetasThrows(c)
      PROVE /\ queue' = <<>> /\ running' = NoTask /\ swept' = {} /\ pc[c] \in {"metas", "recovery"}
            /\ UNCHANGED <<agda, hasRead, content, mtime, file, op>>
            /\ \A d \in Calls : d # c => pc'[d] = pc[d]
  <2>1. /\ running \in {<<c, "metas">>, <<c, "recovery">>} /\ queue' = queue /\ running' = NoTask /\ running # NoTask
        /\ UNCHANGED <<swept, agda, hasRead, content, mtime, file, op>>
    BY <1>7, MetasAnsweredLemma, MetasThrowsLemma
  <2>2. \E new \in SUBSET {0} : \E f : Continue(c, new, f)
    <3>1. CASE MetasAnswered(c)
      BY <3>1, MetasAnsweredLemma
    <3>2. CASE MetasThrows(c)
      <4>1. Continue(c, {}, FileNow)
        BY <3>2, MetasThrowsLemma
      <4> QED BY <4>1
    <3> QED BY <1>7, <3>1, <3>2
  <2>3. running[1] = c /\ running[2] \in {"metas", "recovery"}
    BY <2>1
  <2> QED BY <1>1, <1>4, <2>1, <2>2, <2>3 DEF Stage
<1>8. ASSUME MetasRefused(c)
      PROVE /\ queue' = <<>> /\ running' = NoTask /\ swept' = {} /\ pc[c] \in {"metas", "recovery"}
            /\ UNCHANGED <<agda, hasRead, content, mtime, file, op>>
            /\ \A d \in Calls : d # c => pc'[d] = pc[d]
  <2>1. PICK step \in {"metas", "recovery"} : Refused(<<c, step>>) /\ Continue(c, {}, currentFile')
    BY <1>8 DEF MetasRefused
  <2>2. UNCHANGED <<op, file>>
    BY <1>8 DEF MetasRefused
  <2>3. pc[c] = Stage(step)
    BY <1>2, <2>1
  <2>4. \A d \in Calls : d # c => pc'[d] = pc[d]
    BY <1>4, <2>1
  <2> QED BY <1>2, <2>1, <2>2, <2>3, <2>4 DEF Stage
<1> QED BY <1>5, <1>6, <1>7, <1>8

LEMMA SettleSeq ==
  ASSUME SeqInv, NEW c \in Calls, ~Idle(c), \A d \in Calls : d # c => pc'[d] = pc[d],
         queue' = <<>>, running' = NoTask, swept' = {}
  PROVE SeqInv'
  BY DEF SeqInv, Idle

(* No call is pending when one comes.                                      *)
LEMMA CallLemma ==
  ASSUME MaxOverlap = 1, TypeOK, SeqInv, NEW c \in Calls, Call(c)
  PROVE queue = <<>> /\ running = NoTask /\ \A d \in Calls : Idle(d)
<1>1. Pending = {}
  <2>1. IsFiniteSet(Calls)
    BY FS_Interval, LoadAssumption DEF Calls
  <2>2. IsFiniteSet(Pending)
    BY <2>1, FS_Subset DEF Pending
  <2>3. Cardinality(Pending) \in Nat /\ Cardinality(Pending) < 1
    BY <2>2, FS_CardinalityType DEF Call
  <2>4. Cardinality(Pending) = 0
    BY <2>3
  <2> QED BY <2>2, <2>4, FS_EmptySet
<1>2. \A d \in Calls : pc[d] \in {"new", "returned"}
  BY <1>1 DEF Pending
<1>3. \A k \in {"load", "metas", "recovery"} : Stage(k) \notin {"new", "returned"}
  BY DEF Stage
<1>4. \A t \in Tasks : pc[t[1]] # Stage(t[2])
  BY <1>2, <1>3, TaskLemma
<1>5. running = NoTask
  BY <1>4 DEF SeqInv, TypeOK
<1>6. queue = <<>>
  BY <1>4, HeadLemma DEF SeqInv
<1> QED BY <1>2, <1>5, <1>6 DEF Idle

(* Neither queued nor executing is a call whose continuation is ready.     *)
LEMMA ReadyLemma ==
  ASSUME TypeOK, SeqInv, NEW c \in Calls, pc[c] \in {"reconcile", "recover"}
  PROVE queue = <<>> /\ running = NoTask
<1>1. \A k \in {"load", "metas", "recovery"} : Stage(k) \in {"loading", "metas", "recovery"}
  BY DEF Stage
<1>2. \A t \in Tasks : pc[t[1]] # Stage(t[2])
  <2> SUFFICES ASSUME NEW t \in Tasks, pc[t[1]] = Stage(t[2]) PROVE FALSE
    OBVIOUS
  <2>1. t[1] \in Calls /\ pc[t[1]] \in {"loading", "metas", "recovery"}
    BY <1>1, TaskLemma
  <2>2. t[1] = c
    BY <2>1 DEF SeqInv, Idle
  <2> QED BY <2>1, <2>2
<1>3. running = NoTask
  BY <1>2 DEF SeqInv, TypeOK
<1>4. queue = <<>>
  BY <1>2, HeadLemma DEF SeqInv
<1> QED BY <1>3, <1>4

LEMMA SeqStep == ASSUME MaxOverlap = 1, TypeOK, SeqInv, [Next]_vars PROVE SeqInv'
<1>1. ASSUME NEW c \in Calls, Call(c) PROVE SeqInv'
  <2>1. queue = <<>> /\ running = NoTask /\ \A d \in Calls : Idle(d)
    BY <1>1, CallLemma
  <2>2. swept' = {}
    BY <1>1 DEF Call, SeqInv
  <2>3. CASE content[file[c]] = "missing"
    <3>1. Return(c, "not-found") /\ UNCHANGED queueVars
      BY <1>1, <2>3 DEF Call, FinalizeEarlyReturn
    <3>2. \A d \in Calls : pc'[d] = pc[d] \/ pc'[d] = "returned"
      BY <3>1, ReturnLemma, VerdictLemma
    <3> QED BY <2>1, <2>2, <3>1, <3>2 DEF SeqInv, Idle, queueVars
  <2>4. CASE content[file[c]] # "missing"
    <3>1. Queue!Submit(<<c, "load">>) /\ pc' = [pc EXCEPT ![c] = "loading"]
      BY <1>1, <2>4 DEF Call
    <3>2. queue' = Append(queue, <<c, "load">>) /\ running' = NoTask
      BY <2>1, <3>1, SubmitLemma, TaskLemma
    <3>3. queue' = <<<<c, "load">>>>
      BY <2>1, <3>2
    <3>4. pc'[c] = "loading" /\ \A d \in Calls : d # c => pc'[d] = pc[d]
      BY <3>1 DEF TypeOK
    <3> QED BY <2>1, <2>2, <3>2, <3>3, <3>4 DEF SeqInv, Idle, Stage
  <2> QED BY <2>3, <2>4
<1>2. ASSUME NEW c \in Calls, Reconcile(c) PROVE SeqInv'
  <2>1. PICK step \in {"metas", "recovery"} : Queue!Submit(<<c, step>>) /\ pc' = [pc EXCEPT ![c] = step]
    BY <1>2 DEF Reconcile
  <2>2. pc[c] \in {"reconcile", "recover"} /\ swept' = swept
    BY <1>2 DEF Reconcile
  <2>3. queue = <<>> /\ running = NoTask
    BY <1>2, <2>2, ReadyLemma
  <2>4. queue' = <<<<c, step>>>> /\ running' = NoTask
    <3>1. <<c, step>> \in Tasks
      BY <1>2, TaskLemma
    <3>2. queue' = Append(queue, <<c, step>>) /\ running' = running
      BY <2>1, <3>1, SubmitLemma
    <3> QED BY <2>3, <3>2
  <2>5. pc'[c] = step /\ \A d \in Calls : d # c => pc'[d] = pc[d]
    BY <2>1 DEF TypeOK
  <2>6. step # "load"
    OBVIOUS
  <2> QED BY <2>2, <2>4, <2>5, <2>6 DEF SeqInv, Idle, Stage
<1>3. ASSUME NEW c \in Calls, AgdaReads(c) PROVE SeqInv'
  BY <1>3 DEF AgdaReads, SeqInv, Idle, queueVars, callVars
<1>4. ASSUME Begin PROVE SeqInv'
  <2>1. running = NoTask /\ queue # <<>> /\ running' = Head(queue) /\ queue' = Tail(queue)
        /\ UNCHANGED <<swept, callVars>>
    BY <1>4 DEF Begin, Queue!Begin
  <2>2. Head(queue) = queue[1] /\ 1 \in DOMAIN queue /\ queue' = <<>>
    BY <2>1, HeadLemma DEF SeqInv
  <2> QED BY <2>1, <2>2 DEF SeqInv, Idle, callVars
<1>5. ASSUME NEW c \in Calls,
             \/ LoadThrows(c) \/ LoadRefused(c) \/ LoadIncomplete(c) \/ LoadAnswered(c)
             \/ StrictAnswered(c) \/ MetasAnswered(c) \/ MetasThrows(c) \/ MetasRefused(c)
      PROVE SeqInv'
  <2>1. ~Idle(c)
    BY <1>5, SettleEffect DEF Idle
  <2>2. /\ queue' = <<>> /\ running' = NoTask /\ swept' = {} /\ \A d \in Calls : d # c => pc'[d] = pc[d]
    BY <1>5, SettleEffect
  <2> QED BY <2>1, <2>2, SettleSeq
<1>6. ASSUME Sweep PROVE SeqInv'
  <2>1. Quiet /\ swept' = swept \cup {queue[i] : i \in DOMAIN queue} /\ UNCHANGED <<queueVars, callVars>>
    BY <1>6 DEF Sweep
  <2>2. queue = <<>>
    BY <2>1 DEF Quiet, SeqInv
  <2>3. swept' = {}
    BY <2>1, <2>2 DEF SeqInv
  <2> QED BY <2>1, <2>3 DEF SeqInv, Idle, queueVars, callVars
<1>7. ASSUME ChildDies \/ ChildCloses \/ \E f \in Files, x \in Contents : Edit(f, x) PROVE SeqInv'
  <2>1. UNCHANGED <<queueVars, swept, callVars>>
    BY <1>7 DEF ChildDies, ChildCloses, Edit
  <2> QED BY <2>1 DEF SeqInv, Idle, queueVars, callVars
<1>8. CASE UNCHANGED vars
  BY <1>8 DEF vars, queueVars, callVars, SeqInv, Idle
<1> QED BY <1>1, <1>2, <1>3, <1>4, <1>5, <1>6, <1>7, <1>8 DEF Next, Settle

(* What Agda has read.                                                     *)
LEMMA ReadSame ==
  ASSUME ReadInv, UNCHANGED <<agda, content, mtime, file>>,
         running' = NoTask \/ UNCHANGED <<running, hasRead>>
  PROVE ReadInv'
<1>1. \A c \in Calls : NoTask # <<c, "load">>
  BY DEF NoTask
<1> QED BY <1>1 DEF ReadInv

LEMMA ReadStep == ASSUME MaxOverlap = 1, TypeOK, SeqInv, ReadInv, [Next]_vars PROVE ReadInv'
<1>1. ASSUME NEW c \in Calls, Call(c) PROVE ReadInv'
  <2>1. running = NoTask /\ UNCHANGED <<agda, hasRead, content, mtime, file>>
    BY <1>1, CallLemma DEF Call, childVars, diskVars
  <2>2. running' = NoTask
    BY <1>1, <2>1 DEF Call, Queue!Submit, queueVars
  <2> QED BY <2>1, <2>2, ReadSame
<1>2. ASSUME NEW c \in Calls, Reconcile(c) PROVE ReadInv'
  BY <1>2, ReadSame DEF Reconcile, Queue!Submit, childVars, diskVars
<1>3. ASSUME NEW c \in Calls, AgdaReads(c) PROVE ReadInv'
  <2>1. /\ running = <<c, "load">> /\ running' = running /\ UNCHANGED <<content, mtime, file>>
        /\ agda' = [file |-> file[c], content |-> content[file[c]], mtime |-> mtime[file[c]]]
    BY <1>3 DEF AgdaReads, queueVars, callVars, diskVars
  <2>2. file[c] \in Files /\ mtime[file[c]] \in Nat
    BY DEF TypeOK
  <2>3. \A d \in Calls : running' = <<d, "load">> => d = c
    BY <2>1
  <2>4. agda'.file = file[c] /\ agda'.content = content[file[c]] /\ agda'.mtime = mtime[file[c]]
    BY <2>1
  <2> QED BY <2>1, <2>2, <2>3, <2>4 DEF ReadInv
<1>4. ASSUME Begin PROVE ReadInv'
  <2>1. hasRead' = FALSE /\ UNCHANGED <<callVars, diskVars>>
        /\ (UNCHANGED agda \/ agda' = [file |-> NoFile, content |-> "missing", mtime |-> NoTime])
    BY <1>4 DEF Begin
  <2>2. UNCHANGED agda \/ agda'.file \notin Files
    BY <2>1, LoadAssumption
  <2> QED BY <2>1, <2>2 DEF ReadInv, callVars, diskVars
<1>5. ASSUME NEW c \in Calls,
             \/ LoadThrows(c) \/ LoadRefused(c) \/ LoadIncomplete(c) \/ LoadAnswered(c)
             \/ StrictAnswered(c) \/ MetasAnswered(c) \/ MetasThrows(c) \/ MetasRefused(c)
      PROVE ReadInv'
  <2>1. running' = NoTask /\ UNCHANGED <<agda, content, mtime, file>>
    BY <1>5, SettleEffect
  <2> QED BY <2>1, ReadSame
<1>6. ASSUME Sweep \/ ChildDies \/ ChildCloses PROVE ReadInv'
  <2>1. UNCHANGED <<running, hasRead, agda, content, mtime, file>>
    BY <1>6 DEF Sweep, ChildDies, ChildCloses, queueVars, callVars, childVars, diskVars
  <2> QED BY <2>1, ReadSame
<1>7. ASSUME NEW f \in Files, NEW x \in Contents, Edit(f, x) PROVE ReadInv'
  <2>1. /\ content' = [content EXCEPT ![f] = x] /\ mtime' = [mtime EXCEPT ![f] = mtime[f] + 1]
        /\ UNCHANGED <<running, hasRead, agda, file>>
    BY <1>7 DEF Edit, queueVars, callVars, childVars
  <2>2. mtime \in [Files -> 0..MaxEdit] /\ content \in [Files -> Contents]
    BY DEF TypeOK
  <2>3. \A g \in Files : g # f => mtime'[g] = mtime[g] /\ content'[g] = content[g]
    BY <2>1, <2>2
  <2>4. mtime'[f] = mtime[f] + 1 /\ mtime[f] \in Nat
    BY <2>1, <2>2
  <2>5. agda.mtime \in Nat
    BY TimeLemma DEF TypeOK
  <2>6. CASE agda.file = f
    <3>1. agda.mtime <= mtime[f]
      BY <2>6 DEF ReadInv
    <3>2. agda.mtime <= mtime'[f] /\ agda.mtime # mtime'[f]
      BY <2>4, <2>5, <3>1
    <3> QED BY <2>1, <2>6, <3>2 DEF ReadInv
  <2>7. CASE agda.file # f
    BY <2>1, <2>3, <2>7 DEF ReadInv
  <2> QED BY <2>6, <2>7
<1>8. CASE UNCHANGED vars
  BY <1>8, ReadSame DEF vars, queueVars, callVars, childVars, diskVars
<1> QED BY <1>1, <1>2, <1>3, <1>4, <1>5, <1>6, <1>7, <1>8 DEF Next, Settle

(* The load state.                                                         *)
LoadedInv ==
  child = "live" /\ currentFile # NoFile =>
    /\ agda.file = currentFile
    /\ goalIds \subseteq InteractionPoints(agda.content)
    /\ classification = "ok-complete" => \/ InteractionPoints(agda.content) = {}
                                         \/ EditedSinceRead(currentFile)
    /\ \A c \in Calls : Reconciling(c) =>
         /\ goals[c] \subseteq InteractionPoints(agda.content)
         /\ agda.content \in {"clean", "hole", "abstract", "meta"}
         /\ agda.content = "meta" => invisible[c]

(* Of a step in which the one pending call c returns, or waits for its     *)
(* continuation: what is left to show of LoadInv.                          *)
LEMMA LoadAfter ==
  ASSUME SeqInv, NEW c \in Calls, ~Idle(c), \A d \in Calls : d # c => pc'[d] = pc[d],
         pc'[c] # "loading", pc'[c] # "returned" => classification' = "none", LoadedInv'
  PROVE LoadInv'
<1>1. \A d \in Calls : d # c => Idle(d)
  BY DEF SeqInv
<1>2. \A d \in Calls : d # c => pc'[d] \in {"new", "returned"}
  BY <1>1 DEF Idle
<1> QED BY <1>2 DEF LoadInv, LoadedInv, Idle

(* A file Agda found no hole marker missing in has no goal for Agda either,*)
(* unless it was edited.                                                   *)
LEMMA NoHoleNoPoint ==
  ASSUME ReadInv, NEW f \in Files, agda.file = f, ~HasSourceHoles(f)
  PROVE (agda.content \notin {"hole", "abstract"} /\ InteractionPoints(agda.content) = {}) \/ EditedSinceRead(f)
<1>1. CASE agda.mtime = mtime[f]
  <2>1. agda.content = content[f]
    BY <1>1 DEF ReadInv
  <2> QED BY <2>1, PointsLemma DEF HasSourceHoles
<1>2. CASE agda.mtime # mtime[f]
  BY <1>2 DEF EditedSinceRead
<1> QED BY <1>1, <1>2

(* A reconciliation of the call c that keeps its file, and what metas gave *)
(* it, if the child lives.                                                 *)
LEMMA ContinueLoad ==
  ASSUME TypeOK, SeqInv, ReadInv, LoadInv, NEW c \in Calls, pc[c] \in {"metas", "recovery"},
         NEW new \in SUBSET {0}, NEW ids \in SUBSET {0},
         Continue(c, new, currentFile'), GoalIdsAfter(c, ids),
         UNCHANGED <<agda, mtime, content, file, invisible>>,
         child' = "live" /\ currentFile' # NoFile =>
           /\ child = "live" /\ currentFile = currentFile'
           /\ new \subseteq InteractionPoints(agda.content) /\ ids \subseteq InteractionPoints(agda.content),
         \A d \in Calls : d # c => pc'[d] = pc[d]
  PROVE LoadInv'
<1>0. ~Idle(c) /\ Reconciling(c) /\ classification = "none"
  BY DEF Idle, Reconciling, LoadInv
<1>1. pc'[c] \in {"recover", "returned"}
  BY ContinueLemma
<1>2. pc'[c] # "returned" => classification' = "none"
  BY <1>0, <1>1, ContinueLemma
<1>3. LoadedInv'
  <2> SUFFICES ASSUME child' = "live", currentFile' # NoFile
               PROVE /\ agda.file = currentFile'
                     /\ goalIds' \subseteq InteractionPoints(agda.content)
                     /\ classification' = "ok-complete" => \/ InteractionPoints(agda.content) = {}
                                                           \/ EditedSinceRead(currentFile')
                     /\ \A d \in Calls : Reconciling(d)' =>
                          /\ goals'[d] \subseteq InteractionPoints(agda.content)
                          /\ agda.content \in {"clean", "hole", "abstract", "meta"}
                          /\ agda.content = "meta" => invisible[d]
    BY DEF LoadedInv, EditedSinceRead
  <2>1. /\ child = "live" /\ currentFile = currentFile' /\ agda.file = currentFile
        /\ goals[c] \subseteq InteractionPoints(agda.content)
        /\ agda.content \in {"clean", "hole", "abstract", "meta"}
        /\ agda.content = "meta" => invisible[c]
        /\ currentFile \in Files
    BY <1>0 DEF LoadInv, TypeOK
  <2>2. \A d \in Calls : d # c => ~Reconciling(d)'
    BY <1>0 DEF SeqInv, Idle, Reconciling
  <2>3. CASE pc'[c] = "recover"
    <3>1. currentFile' = file[c] /\ goals'[c] = goals[c] \cup new /\ classification' = "none"
      BY <1>0, <2>3, ContinueLemma
    <3>2. goals'[c] \subseteq InteractionPoints(agda.content)
      BY <2>1, <3>1
    <3>3. goalIds' \subseteq InteractionPoints(agda.content)
      BY <3>2 DEF GoalIdsAfter
    <3> QED BY <2>1, <2>2, <3>1, <3>2, <3>3
  <2>4. CASE pc'[c] = "returned"
    <3>1. \A d \in Calls : ~Reconciling(d)'
      BY <2>2, <2>4 DEF Reconciling
    <3>2. classification' = verdict'[c]
      BY <2>4, ContinueLemma
    <3>3. CASE verdict'[c] \notin {"ok-complete", "ok-with-holes"}
      <4>1. goalIds' = ids
        BY <3>3 DEF GoalIdsAfter
      <4> QED BY <2>1, <3>1, <3>2, <3>3, <4>1
    <3>4. CASE verdict'[c] \in {"ok-complete", "ok-with-holes"}
      <4>1. goalIds' = goals'[c] /\ goals'[c] = goals[c] \cup new
        BY <2>4, <3>4, ContinueLemma DEF GoalIdsAfter
      <4>2. goalIds' \subseteq InteractionPoints(agda.content)
        BY <2>1, <4>1
      <4>3. ASSUME classification' = "ok-complete"
            PROVE InteractionPoints(agda.content) = {} \/ EditedSinceRead(currentFile')
        <5>1. currentFile' = file[c] /\ ~HasSourceHoles(file[c])
          BY <2>4, <3>2, <4>3, ContinueLemma
        <5> QED BY <2>1, <5>1, NoHoleNoPoint
      <4> QED BY <2>1, <3>1, <4>2, <4>3
    <3> QED BY <3>3, <3>4
  <2> QED BY <1>1, <2>3, <2>4
<1> QED BY <1>0, <1>1, <1>2, <1>3, LoadAfter

(* What a call returns as complete is clean.                               *)
LEMMA ContinueComplete ==
  ASSUME TypeOK, SeqInv, ReadInv, LoadInv, NEW c \in Calls, pc[c] \in {"metas", "recovery"},
         NEW new \in SUBSET {0}, Continue(c, new, currentFile'),
         child' = "live" /\ currentFile' # NoFile => child = "live" /\ currentFile = currentFile',
         child' # "live" => currentFile' = NoFile,
         pc'[c] = "returned", verdict'[c] = "ok-complete"
  PROVE agda.content = "clean" \/ EditedSinceRead(file[c])
<1>1. currentFile' = file[c] /\ ~HasSourceHoles(file[c]) /\ ~invisible[c] /\ file[c] \in Files
  BY ContinueLemma DEF TypeOK
<1>2. child = "live" /\ currentFile = file[c] /\ file[c] # NoFile
  BY <1>1, LoadAssumption
<1>3. /\ agda.file = file[c] /\ agda.content \in {"clean", "hole", "abstract", "meta"}
      /\ agda.content = "meta" => invisible[c]
  BY <1>2 DEF LoadInv, Reconciling
<1>4. agda.content \notin {"hole", "abstract"} \/ EditedSinceRead(file[c])
  BY <1>1, <1>3, NoHoleNoPoint
<1> QED BY <1>1, <1>3, <1>4

(* What a reconciliation did, answered, failed or refused.                 *)
LEMMA MetasEffect ==
  ASSUME TypeOK, SeqInv, LoadInv, NEW c \in Calls, MetasAnswered(c) \/ MetasThrows(c) \/ MetasRefused(c)
  PROVE /\ UNCHANGED invisible /\ pc[c] \in {"metas", "recovery"}
        /\ child' # "live" => currentFile' = NoFile
        /\ child' = "live" /\ currentFile' # NoFile => child = "live" /\ currentFile = currentFile'
        /\ \E new \in SUBSET {0}, ids \in SUBSET {0} :
             /\ Continue(c, new, currentFile') /\ GoalIdsAfter(c, ids)
             /\ child' = "live" /\ currentFile' # NoFile =>
                  new \subseteq InteractionPoints(agda.content) /\ ids \subseteq InteractionPoints(agda.content)
<1>1. pc[c] \in {"metas", "recovery"}
  BY SettleEffect
<1>2. GoalsNow \in SUBSET {0}
  BY NowLemma
<1>3. child = "live" /\ currentFile # NoFile => goalIds \subseteq InteractionPoints(agda.content)
  BY DEF LoadInv
<1>4. CASE MetasAnswered(c)
  <2>1. PICK ids \in SUBSET {0} :
          /\ Continue(c, ids, FileNow) /\ GoalIdsAfter(c, ids)
          /\ ids \in {InteractionPoints(agda.content), GoalsNow}
    BY <1>4, MetasAnsweredLemma
  <2>2. currentFile' = FileNow /\ UNCHANGED <<invisible, child>>
    BY <1>4, MetasAnsweredLemma
  <2>3. child' = "live" /\ currentFile' # NoFile => ids \subseteq InteractionPoints(agda.content)
    BY <1>3, <2>1, <2>2 DEF FileNow, GoalsNow
  <2>4. /\ child' # "live" => currentFile' = NoFile
        /\ child' = "live" /\ currentFile' # NoFile => child = "live" /\ currentFile = currentFile'
    BY <2>2 DEF FileNow
  <2>5. Continue(c, ids, currentFile')
    BY <2>1, <2>2
  <2> QED BY <1>1, <2>1, <2>2, <2>3, <2>4, <2>5
<1>5. CASE MetasThrows(c)
  <2>1. /\ Continue(c, {}, FileNow) /\ GoalIdsAfter(c, GoalsNow) /\ UNCHANGED invisible
        /\ currentFile' = FileNow /\ (child' = "live" => child = "live")
    BY <1>5, MetasThrowsLemma
  <2>2. /\ child' # "live" => currentFile' = NoFile
        /\ child' = "live" /\ currentFile' # NoFile => child = "live" /\ currentFile = currentFile'
    BY <2>1 DEF FileNow
  <2>3. child' = "live" /\ currentFile' # NoFile => GoalsNow \subseteq InteractionPoints(agda.content)
    BY <1>3, <2>2 DEF GoalsNow
  <2>4. Continue(c, {}, currentFile') /\ {} \in SUBSET {0} /\ {} \subseteq InteractionPoints(agda.content)
    BY <2>1
  <2> QED BY <1>1, <1>2, <2>1, <2>2, <2>3, <2>4
<1>6. CASE MetasRefused(c)
  <2>1. PICK step \in {"metas", "recovery"} :
          /\ Refused(<<c, step>>) /\ Continue(c, {}, currentFile')
          /\ GoalIdsAfter(c, IF <<c, step>> \in swept THEN goalIds ELSE {})
    BY <1>6 DEF MetasRefused
  <2>2. swept = {}
    BY DEF SeqInv
  <2>3. child' = "none" /\ currentFile' = NoFile
    BY <2>1, <2>2, RefusedLemma
  <2>4. GoalIdsAfter(c, {}) /\ UNCHANGED invisible
    BY <1>6, <2>1, <2>2 DEF MetasRefused
  <2> QED BY <1>1, <2>1, <2>3, <2>4
<1> QED BY <1>4, <1>5, <1>6

LEMMA SettleLoad ==
  ASSUME TypeOK, SeqInv, ReadInv, LoadInv, NEW c \in Calls,
         \/ LoadThrows(c) \/ LoadRefused(c) \/ LoadIncomplete(c) \/ LoadAnswered(c)
         \/ StrictAnswered(c) \/ MetasAnswered(c) \/ MetasThrows(c) \/ MetasRefused(c)
  PROVE LoadInv'
<1>0. /\ ~Idle(c) /\ classification = "none" /\ UNCHANGED <<agda, hasRead, content, mtime, file>>
      /\ \A d \in Calls : d # c => pc'[d] = pc[d]
      /\ \A d \in Calls : d # c => ~Reconciling(d)'
  <2>1. ~Idle(c) /\ UNCHANGED <<agda, hasRead, content, mtime, file>> /\ \A d \in Calls : d # c => pc'[d] = pc[d]
    BY SettleEffect DEF Idle
  <2> QED BY <2>1 DEF LoadInv, SeqInv, Idle, Reconciling
<1>1. pc[c] = "loading" => currentFile = NoFile
  BY DEF LoadInv
<1>2. CASE LoadThrows(c)
  <2>1. /\ child' \in {child, IF child = "live" THEN "dead" ELSE child}
        /\ ResetIfProcDied /\ Return(c, "threw") /\ running = <<c, "load">>
    BY <1>2 DEF LoadThrows
  <2>2. currentFile = NoFile /\ pc'[c] = "returned"
    <3>1. running[1] = c /\ running[2] = "load" /\ running # NoTask
      BY <2>1 DEF NoTask
    <3>2. pc[c] = "loading"
      BY <3>1 DEF SeqInv, Stage
    <3> QED BY <1>1, <2>1, <3>2, ReturnLemma, VerdictLemma
  <2>3. currentFile' = NoFile
    BY <2>1, <2>2 DEF ResetIfProcDied, InvalidatePriorLoadState, sessionVars
  <2> QED BY <1>0, <2>2, <2>3, LoadAfter DEF LoadedInv
<1>3. CASE LoadRefused(c)
  <2>1. Refused(<<c, "load">>) /\ Return(c, "threw")
    BY <1>3 DEF LoadRefused
  <2>2. currentFile' = NoFile
    BY <2>1, RefusedLemma DEF SeqInv
  <2>3. pc'[c] = "returned"
    BY <2>1, ReturnLemma, VerdictLemma
  <2> QED BY <1>0, <2>2, <2>3, LoadAfter DEF LoadedInv
<1>4. ASSUME NEW ks, Responses(c, ks)
      PROVE /\ pc[c] = "loading" /\ currentFile = NoFile /\ child' = child
            /\ ks # {} => agda.file = file[c]
            /\ child = "live" => ks = Complete(agda.content)
  <2>1. running = <<c, "load">> /\ running # NoTask /\ child' = child /\ (ks # {} => hasRead)
        /\ (child = "live" => ks = Complete(agda.content))
    BY <1>4, ResponsesLemma
  <2>2. running[1] = c /\ running[2] = "load"
    BY <2>1
  <2>3. pc[c] = "loading"
    BY <2>1, <2>2 DEF SeqInv, Stage
  <2> QED BY <1>1, <2>1, <2>3 DEF ReadInv
<1>5. CASE LoadIncomplete(c)
  <2>1. Responses(c, {}) /\ Return(c, "no-terminus") /\ currentFile' = FileNow
    BY <1>5 DEF LoadIncomplete, FinalizeEarlyReturn
  <2>2. currentFile' = NoFile
    BY <1>4, <2>1 DEF FileNow
  <2>3. pc'[c] = "returned"
    BY <2>1, ReturnLemma, VerdictLemma
  <2> QED BY <1>0, <2>2, <2>3, LoadAfter DEF LoadedInv
<1>6. CASE LoadAnswered(c)
  <2>1. PICK ks \in (SUBSET {"Points", "Goals", "Error"}) \ {{}}, ids \in SUBSET {0} :
          /\ Responses(c, ks) /\ RecordLoad(c, ids) /\ ids \subseteq InteractionPoints(agda.content)
          /\ goals'[c] = ids /\ invisible'[c] = ParsedInvisible(ks)
          /\ pc'[c] \in {"returned", "reconcile"}
          /\ pc'[c] = "reconcile" => "Error" \notin ks /\ classification' = ClassificationNow
          /\ pc'[c] = "returned" => classification' \in {"type-error", ClassificationNow}
    BY <1>6, LoadAnsweredLemma
  <2>2. /\ currentFile' = file[c] /\ goalIds' = ids /\ child' = child /\ agda.file = file[c]
        /\ child = "live" => ks = Complete(agda.content)
    BY <1>4, <2>1, RecordLemma
  <2>3. ClassificationNow = "none"
    BY <1>0 DEF ClassificationNow
  <2>4. pc'[c] = "reconcile" /\ child' = "live" => /\ agda.content \in {"clean", "hole", "abstract", "meta"}
                                                   /\ agda.content = "meta" => invisible'[c]
    <3> SUFFICES ASSUME pc'[c] = "reconcile", child' = "live"
                 PROVE /\ agda.content \in {"clean", "hole", "abstract", "meta"}
                       /\ agda.content = "meta" => invisible'[c]
      OBVIOUS
    <3>1. "Error" \notin ks /\ ks = Complete(agda.content)
      BY <2>1, <2>2
    <3>2. agda.content \notin {"error", "missing"} /\ ks = {"Points", "Goals"}
      BY <3>1 DEF Complete
    <3>3. agda.content \in Contents
      BY <3>2 DEF TypeOK
    <3> QED BY <2>1, <3>2, <3>3, LoadAssumption DEF ParsedInvisible
  <2>5. Reconciling(c)' => pc'[c] = "reconcile"
    BY <2>1 DEF Reconciling
  <2>6. LoadedInv'
    BY <1>0, <2>1, <2>2, <2>3, <2>4, <2>5 DEF LoadedInv
  <2> QED BY <1>0, <2>1, <2>3, <2>6, LoadAfter
<1>7. CASE StrictAnswered(c)
  <2>1. PICK ks \in (SUBSET {"Points", "Goals", "Error"}) \ {{}}, ids \in SUBSET {0} :
          /\ Responses(c, ks) /\ RecordLoad(c, ids) /\ ids \subseteq InteractionPoints(agda.content)
          /\ pc'[c] = "returned"
          /\ \/ classification' = ClassificationNow \/ classification' = "type-error"
             \/ classification' = "ok-complete" /\ ids = {} /\ ~HasSourceHoles(file[c])
    BY <1>7, StrictAnsweredLemma
  <2>2. currentFile' = file[c] /\ goalIds' = ids /\ child' = child /\ agda.file = file[c] /\ file[c] \in Files
    BY <1>4, <2>1, RecordLemma
  <2>3. ClassificationNow = "none"
    BY <1>0 DEF ClassificationNow
  <2>4. classification' = "ok-complete" => InteractionPoints(agda.content) = {} \/ EditedSinceRead(file[c])
    BY <2>1, <2>2, <2>3, NoHoleNoPoint
  <2>5. ~Reconciling(c)'
    BY <2>1 DEF Reconciling
  <2>6. LoadedInv'
    BY <1>0, <2>1, <2>2, <2>4, <2>5 DEF LoadedInv, EditedSinceRead
  <2> QED BY <1>0, <2>1, <2>6, LoadAfter
<1>8. CASE MetasAnswered(c) \/ MetasThrows(c) \/ MetasRefused(c)
  <2>1. /\ UNCHANGED invisible /\ pc[c] \in {"metas", "recovery"}
        /\ child' = "live" /\ currentFile' # NoFile => child = "live" /\ currentFile = currentFile'
    BY <1>8, MetasEffect
  <2>2. PICK new \in SUBSET {0}, ids \in SUBSET {0} :
             /\ Continue(c, new, currentFile') /\ GoalIdsAfter(c, ids)
             /\ child' = "live" /\ currentFile' # NoFile =>
                  new \subseteq InteractionPoints(agda.content) /\ ids \subseteq InteractionPoints(agda.content)
    BY <1>8, MetasEffect
  <2> QED BY <1>0, <2>1, <2>2, ContinueLoad
<1> QED BY <1>2, <1>3, <1>5, <1>6, <1>7, <1>8

LEMMA LoadStep ==
  ASSUME MaxOverlap = 1, TypeOK, SeqInv, ReadInv, LoadInv, [Next]_vars PROVE LoadInv'
<1>1. ASSUME NEW c \in Calls, Call(c) PROVE LoadInv'
  <2>1. currentFile' = NoFile /\ \A d \in Calls : Idle(d)
    BY <1>1, CallLemma DEF Call
  <2>2. CASE content[file[c]] = "missing"
    <3>1. Return(c, "not-found")
      BY <1>1, <2>2 DEF Call, FinalizeEarlyReturn
    <3>2. \A d \in Calls : pc'[d] = pc[d] \/ pc'[d] = "returned"
      BY <3>1, ReturnLemma, VerdictLemma
    <3>3. \A d \in Calls : Idle(d)'
      BY <2>1, <3>2 DEF Idle
    <3> QED BY <2>1, <3>3 DEF LoadInv
  <2>3. CASE content[file[c]] # "missing"
    BY <1>1, <2>1, <2>3 DEF Call, LoadInv
  <2> QED BY <2>2, <2>3
<1>2. ASSUME NEW c \in Calls, Reconcile(c) PROVE LoadInv'
  <2>1. PICK step \in {"metas", "recovery"} : pc' = [pc EXCEPT ![c] = step]
    BY <1>2 DEF Reconcile
  <2>2. pc[c] \in {"reconcile", "recover"} /\ UNCHANGED <<goals, invisible, sessionVars, childVars, diskVars>>
    BY <1>2 DEF Reconcile
  <2>3. pc'[c] = step /\ \A d \in Calls : d # c => pc'[d] = pc[d]
    BY <2>1 DEF TypeOK
  <2>4. \A d \in Calls : /\ pc'[d] = "loading" => pc[d] = "loading"
                         /\ Idle(d) => Idle(d)'
                         /\ Reconciling(d)' => Reconciling(d)
    BY <2>2, <2>3 DEF Idle, Reconciling
  <2>5. UNCHANGED <<goals, invisible, currentFile, goalIds, classification, child, agda, mtime>>
    BY <2>2 DEF sessionVars, childVars, diskVars
  <2> QED BY <2>4, <2>5 DEF LoadInv, EditedSinceRead
<1>3. ASSUME NEW c \in Calls, AgdaReads(c) PROVE LoadInv'
  <2>1. running = <<c, "load">> /\ UNCHANGED <<pc, currentFile, classification>>
    BY <1>3 DEF AgdaReads, callVars, sessionVars
  <2>2. running[1] = c /\ running[2] = "load" /\ running # NoTask
    BY <2>1 DEF NoTask
  <2>3. currentFile' = NoFile
    BY <2>1, <2>2 DEF SeqInv, Stage, LoadInv
  <2> QED BY <2>1, <2>3 DEF LoadInv, Idle
<1>4. ASSUME Begin PROVE LoadInv'
  <2>1. UNCHANGED <<callVars, diskVars>>
    BY <1>4 DEF Begin
  <2>2. CASE UNCHANGED <<child, agda, sessionVars>>
    BY <2>1, <2>2 DEF LoadInv, Idle, Reconciling, EditedSinceRead, callVars, sessionVars, diskVars
  <2>3. CASE InvalidatePriorLoadState
    BY <2>1, <2>3 DEF LoadInv, InvalidatePriorLoadState
  <2> QED BY <1>4, <2>2, <2>3 DEF Begin
<1>5. ASSUME Settle PROVE LoadInv'
  BY <1>5, SettleLoad DEF Settle
<1>6. ASSUME Sweep PROVE LoadInv'
  BY <1>6 DEF Sweep, LoadInv, Idle, Reconciling, EditedSinceRead, callVars, sessionVars, childVars, diskVars
<1>7. ASSUME ChildDies PROVE LoadInv'
  BY <1>7 DEF ChildDies, LoadInv, Idle, Reconciling, callVars, sessionVars
<1>8. ASSUME ChildCloses PROVE LoadInv'
  BY <1>8 DEF ChildCloses, LoadInv, InvalidatePriorLoadState
<1>9. ASSUME NEW f \in Files, NEW x \in Contents, Edit(f, x) PROVE LoadInv'
  <2>1. /\ mtime' = [mtime EXCEPT ![f] = mtime[f] + 1] /\ mtime \in [Files -> 0..MaxEdit]
        /\ UNCHANGED <<pc, goals, invisible, currentFile, goalIds, classification, child, agda>>
    BY <1>9 DEF Edit, callVars, sessionVars, childVars, TypeOK
  <2>2. ASSUME currentFile \in Files, agda.file = currentFile, EditedSinceRead(currentFile)
        PROVE EditedSinceRead(currentFile)'
    <3>1. CASE currentFile = f
      <4>1. agda.mtime <= mtime[f] /\ mtime[f] \in Nat /\ agda.mtime \in Nat
        BY <2>1, <2>2, <3>1, TimeLemma DEF ReadInv, TypeOK
      <4>2. mtime'[f] = mtime[f] + 1
        BY <2>1
      <4>3. agda.mtime # mtime'[f]
        BY <4>1, <4>2
      <4> QED BY <2>1, <3>1, <4>3 DEF EditedSinceRead
    <3>2. CASE currentFile # f
      <4>1. mtime'[currentFile] = mtime[currentFile]
        BY <2>1, <2>2, <3>2
      <4> QED BY <2>1, <2>2, <4>1 DEF EditedSinceRead
    <3> QED BY <3>1, <3>2
  <2>3. currentFile # NoFile => currentFile \in Files
    BY DEF TypeOK
  <2> QED BY <2>1, <2>2, <2>3 DEF LoadInv, Idle, Reconciling
<1>10. CASE UNCHANGED vars
  BY <1>10 DEF vars, LoadInv, Idle, Reconciling, EditedSinceRead, callVars, sessionVars, childVars, diskVars
<1> QED BY <1>1, <1>2, <1>3, <1>4, <1>5, <1>6, <1>7, <1>8, <1>9, <1>10 DEF Next

LEMMA LoadInit == Init => SeqInv /\ ReadInv /\ LoadInv
<1> SUFFICES ASSUME Init PROVE SeqInv /\ ReadInv /\ LoadInv
  OBVIOUS
<1>1. \A c \in Calls : pc[c] = "new"
  BY DEF Init
<1>2. queue = <<>> /\ running = NoTask /\ swept = {} /\ hasRead = FALSE /\ child = "none" /\ currentFile = NoFile
  BY DEF Init, Queue!Init
<1>3. agda.file \notin Files
  BY LoadAssumption DEF Init
<1> QED BY <1>1, <1>2, <1>3 DEF SeqInv, ReadInv, LoadInv, Idle

(* What holds between loads, step by step.                                 *)
LEMMA IInvInit == Init => IInv
  BY TypeInit, LoadInit DEF IInv

LEMMA IInvStep == ASSUME MaxOverlap = 1 PROVE IInv /\ [Next]_vars => IInv'
  BY TypeStep, SeqStep, ReadStep, LoadStep DEF IInv

(* When calls come one at a time, the file the session takes for loaded is *)
(* the one the live child was last given, whatever throws, dies or is      *)
(* edited (invalidatePriorLoadState, resetFileBoundStateIfProcDied).       *)
THEOREM CurrentFileLoaded ==
  ASSUME MaxOverlap = 1 PROVE Spec => []CurrentFileIsLoaded
<1>1. IInv => CurrentFileIsLoaded
  BY DEF IInv, LoadInv, CurrentFileIsLoaded
<1>2. IInv /\ [Next]_vars => IInv'
  BY IInvStep
<1> QED BY <1>1, <1>2, IInvInit, PTL DEF Spec

(* When calls come one at a time, the goals a loaded session offers are    *)
(* Agda's, and a file it calls complete has none (mergeGoals, metas,       *)
(* classifyLoadResult and the scan for hole markers).                      *)
THEOREM GoalsCorrect ==
  ASSUME MaxOverlap = 1 PROVE Spec => []GoalsAreAgdas
<1>1. IInv => GoalsAreAgdas
  BY DEF IInv, LoadInv, GoalsAreAgdas
<1>2. IInv /\ [Next]_vars => IInv'
  BY IInvStep
<1> QED BY <1>1, <1>2, IInvInit, PTL DEF Spec

(* A step in which agda_load returns complete.                             *)
LEMMA CompleteStep ==
  ASSUME MaxOverlap = 1, IInv, [Next]_vars, NEW c \in Calls, Returns(c, "ok-complete"), op[c] = "load"
  PROVE agda.content = "clean" \/ EditedSinceRead(file[c])
<1>0. TypeOK /\ SeqInv /\ ReadInv /\ LoadInv /\ pc[c] # "returned" /\ pc'[c] = "returned" /\ verdict'[c] = "ok-complete"
  BY DEF IInv, Returns
<1>r. \A d \in Calls : \A v \in Verdicts :
        Return(d, v) => verdict'[d] = v /\ \A e \in Calls : e # d => pc'[e] = pc[e]
  BY <1>0, ReturnLemma
<1>1. ASSUME NEW d \in Calls, Call(d) PROVE FALSE
  <2>1. CASE content[file[d]] = "missing"
    <3>1. Return(d, "not-found")
      BY <1>1, <2>1 DEF Call, FinalizeEarlyReturn
    <3> QED BY <1>0, <1>r, <3>1, VerdictLemma
  <2>2. CASE content[file[d]] # "missing"
    <3>1. pc' = [pc EXCEPT ![d] = "loading"]
      BY <1>1, <2>2 DEF Call
    <3> QED BY <1>0, <3>1 DEF TypeOK
  <2> QED BY <2>1, <2>2
<1>2. ASSUME NEW d \in Calls, Reconcile(d) PROVE FALSE
  <2>1. \E step \in {"metas", "recovery"} : pc' = [pc EXCEPT ![d] = step]
    BY <1>2 DEF Reconcile
  <2> QED BY <1>0, <2>1 DEF TypeOK
<1>3. ASSUME NEW d \in Calls,
             \/ LoadThrows(d) \/ LoadRefused(d) \/ LoadIncomplete(d) \/ LoadAnswered(d)
             \/ StrictAnswered(d)
      PROVE FALSE
  <2>1. d = c
    <3>1. \A e \in Calls : e # d => pc'[e] = pc[e]
      BY <1>0, <1>3, SettleEffect
    <3> QED BY <1>0, <3>1
  <2>2. CASE \E v \in {"threw", "no-terminus"} : Return(c, v)
    BY <1>0, <1>r, <2>2, VerdictLemma
  <2>3. CASE LoadAnswered(c)
    <3>1. verdict'[c] \in {"threw", "type-error"}
      BY <1>0, <2>3, LoadAnsweredLemma
    <3> QED BY <1>0, <3>1
  <2>4. CASE StrictAnswered(c)
    BY <2>4 DEF StrictAnswered
  <2> QED BY <1>3, <2>1, <2>2, <2>3, <2>4 DEF LoadThrows, LoadRefused, LoadIncomplete, FinalizeEarlyReturn
<1>4. ASSUME NEW d \in Calls, MetasAnswered(d) \/ MetasThrows(d) \/ MetasRefused(d)
      PROVE agda.content = "clean" \/ EditedSinceRead(file[c])
  <2>1. d = c
    <3>1. \A e \in Calls : e # d => pc'[e] = pc[e]
      BY <1>0, <1>4, SettleEffect
    <3> QED BY <1>0, <3>1
  <2>2. MetasAnswered(c) \/ MetasThrows(c) \/ MetasRefused(c)
    BY <1>4, <2>1
  <2>3. /\ pc[c] \in {"metas", "recovery"} /\ (child' # "live" => currentFile' = NoFile)
        /\ child' = "live" /\ currentFile' # NoFile => child = "live" /\ currentFile = currentFile'
        /\ \E new \in SUBSET {0} : Continue(c, new, currentFile')
    BY <1>0, <2>2, MetasEffect
  <2> QED BY <1>0, <2>3, ContinueComplete
<1>5. CASE \/ \E d \in Calls : AgdaReads(d)
           \/ Begin \/ Sweep \/ ChildDies \/ ChildCloses
           \/ \E f \in Files, x \in Contents : Edit(f, x)
           \/ UNCHANGED vars
  <2>1. pc' = pc
    BY <1>5 DEF AgdaReads, Begin, Sweep, ChildDies, ChildCloses, Edit, vars, callVars
  <2> QED BY <1>0, <2>1
<1> QED BY <1>1, <1>2, <1>3, <1>4, <1>5 DEF Next, Settle

(* When calls come one at a time, agda_load returns "complete" only for a  *)
(* file in which Agda found nothing, unless it was edited since Agda read  *)
(* it: whatever answers are cut short, dropped or refused on the way       *)
(* (runLoad, reconcileGoalsViaMetas, needsExplicitHoleScan).               *)
THEOREM CompleteCorrect ==
  ASSUME MaxOverlap = 1 PROVE Spec => CompleteIsComplete
<1>1. IInv /\ [Next]_vars => [\A c \in Calls : Returns(c, "ok-complete") /\ op[c] = "load"
                                 => agda.content = "clean" \/ EditedSinceRead(file[c])]_vars
  BY CompleteStep
<1>2. IInv /\ [Next]_vars => IInv'
  BY IInvStep
<1> QED BY <1>1, <1>2, IInvInit, PTL DEF Spec, CompleteIsComplete
=============================================================================
