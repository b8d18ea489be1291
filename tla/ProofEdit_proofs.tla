--------------------------- MODULE ProofEdit_proofs ---------------------------
(***************************************************************************)
(* What holds of ProofEdit for any number of calls, edits and markers when *)
(* the calls come one at a time and write what Agda answers: the session,  *)
(* Agda and the disk agree in the end, and no edit goes to a wrong hole.   *)
(***************************************************************************)
EXTENDS ProofEdit, FiniteSetTheorems, WellFoundedInduction, TLAPS

Stages == {"new", "acting", "answered", "reading", "writing", "loading", "returned"}
Queued(c) == pc[c] \in {"acting", "loading"}
Task(c)   == <<c, IF pc[c] = "acting" THEN "act" ELSE "load">>

(* One call at a time: what is queued or executes is of the one call.      *)
SeqInv ==
  /\ pc \in [Calls -> Stages]
  /\ \A c, d \in Pending : c = d
  /\ \A c, d \in Calls : c < d /\ pc[c] = "new" => pc[d] = "new"
  /\ \/ queue = <<>> /\ running = NoTask /\ \A c \in Calls : ~Queued(c)
     \/ \E c \in Calls : /\ Queued(c)
                         /\ \/ queue = <<Task(c)>> /\ running = NoTask
                            \/ queue = <<>> /\ running = Task(c)

(* A call writes once, so the versions of the file stay below NoTime.      *)
TimeInv ==
  /\ disk.mtime \in Times
  /\ \A c \in Calls : pc[c] \notin {"loading", "returned"} => disk.mtime < MaxEdit + c

Fields == {"op", "goal", "write", "before", "edits", "source", "checked"}

(* Types, as far as the argument needs them.                               *)
FileInv ==
  /\ nextHole \in Nat /\ disk.holes \in Seq(Nat)
  /\ DOMAIN call = Calls
  /\ \A c \in Calls : /\ DOMAIN call[c] = Fields
                      /\ call[c].source.holes \in Seq(Nat)
                      /\ \A e \in call[c].edits : e.new \in Seq(Nat)

(* Agda answered, and its answer is still to be written.                   *)
Unsettled(c) == /\ pc[c] \in {"answered", "reading", "writing"}
                /\ call[c].op \in AgdaOps /\ call[c].edits # {}

(* Agda's points are those of the file it read, each with an id of its own.*)
AsRead ==
  /\ readMtime \in Nat /\ readMtime <= disk.mtime
  /\ \A i, j \in DOMAIN points : points[i].id = points[j].id => i = j
  /\ readMtime = disk.mtime => points = Numbering(disk)

(* Agda, and what the session has of it.  Until the answer is written,     *)
(* Agda's points are ahead of the file.                                    *)
SessionInv ==
  /\ \A c \in Calls : pc[c] = "loading" => ~loaded
  /\ loaded => /\ goalIds = Ids(points)
               /\ loadedMtime \in Nat /\ loadedMtime <= disk.mtime
               /\ readMtime \in Nat /\ readMtime <= disk.mtime
               /\ (\A c \in Calls : ~Unsettled(c)) => AsRead
  /\ \A c \in Calls : running = <<c, "load">> /\ hasRead => AsRead

(* The edits of k replace the markers of the goals they are for, in d.     *)
EditsRight(k, d) ==
  \A e \in k.edits : \A i \in DOMAIN k.before : k.before[i] = e.goal => d.holes[i] = e.hole

(* What a pending call knows.                                              *)
EditOf(c) ==
  /\ pc[c] \in {"acting", "answered"} => call[c].op \in AgdaOps /\ call[c].write = TRUE
  /\ pc[c] \in {"reading", "writing"} => \/ call[c].op \in TextOps
                                         \/ call[c].op \in AgdaOps /\ call[c].edits # {}
  /\ pc[c] = "acting" /\ loaded => call[c].before = goalIds
  /\ pc[c] = "answered" /\ loaded /\ readMtime = disk.mtime => EditsRight(call[c], disk)
  /\ pc[c] = "reading" /\ call[c].op \in AgdaOps =>
       /\ call[c].checked \in Nat
       /\ call[c].checked <= disk.mtime \/ call[c].checked = NoTime
       /\ call[c].checked = disk.mtime => EditsRight(call[c], disk)
  /\ pc[c] = "writing" /\ call[c].op \in AgdaOps /\ call[c].source.mtime = call[c].checked =>
       EditsRight(call[c], call[c].source)
EditInv == \A c \in Calls : EditOf(c)

IInv == SeqInv /\ TimeInv /\ FileInv /\ SessionInv /\ EditInv

-----------------------------------------------------------------------------
(* The locals of a call, one field at a time.                              *)
LEMMA OpSet ==
  ASSUME NEW r, DOMAIN r = Fields, NEW v, NEW w, w = [r EXCEPT !.op = v]
  PROVE  /\ DOMAIN w = Fields /\ w.op = v
         /\ w.write = r.write /\ w.before = r.before /\ w.edits = r.edits
         /\ w.source = r.source /\ w.checked = r.checked
BY DEF Fields

LEMMA EditsSet ==
  ASSUME NEW r, DOMAIN r = Fields, NEW v, NEW w, w = [r EXCEPT !.edits = v]
  PROVE  /\ DOMAIN w = Fields /\ w.edits = v
         /\ w.op = r.op /\ w.write = r.write /\ w.before = r.before
         /\ w.source = r.source /\ w.checked = r.checked
BY DEF Fields

LEMMA SourceSet ==
  ASSUME NEW r, DOMAIN r = Fields, NEW v, NEW w, w = [r EXCEPT !.source = v]
  PROVE  /\ DOMAIN w = Fields /\ w.source = v
         /\ w.op = r.op /\ w.write = r.write /\ w.before = r.before
         /\ w.edits = r.edits /\ w.checked = r.checked
BY DEF Fields

LEMMA CheckedSet ==
  ASSUME NEW r, DOMAIN r = Fields, NEW v, NEW w, w = [r EXCEPT !.checked = v]
  PROVE  /\ DOMAIN w = Fields /\ w.checked = v
         /\ w.op = r.op /\ w.write = r.write /\ w.before = r.before
         /\ w.edits = r.edits /\ w.source = r.source
BY DEF Fields

LEMMA ReturnedSet ==
  /\ DOMAIN NoCall = Fields /\ NoCall.source.holes = <<>> /\ NoCall.edits = {}
BY DEF NoCall, Fields

(* What the numbers of the calls, the tasks and the tools are.             *)
LEMMA Constants ==
  /\ \A c \in Calls : c \in Nat /\ c <= MaxCall
  /\ MaxEdit \in Nat /\ MaxCall \in Nat /\ Times = 0..(MaxEdit + MaxCall)
  /\ NoTime = MaxEdit + MaxCall + 1
  /\ \A c \in Calls : <<c, "act">> # NoTask /\ <<c, "load">> # NoTask
  /\ AgdaOps \cap TextOps = {} /\ GiveOps \subseteq AgdaOps /\ SolveOps \subseteq AgdaOps
BY EditAssumption DEF Calls, Times, NoTime, NoTask, AgdaOps, TextOps, UxOps, GoalOps, GiveOps,
                      SolveOps

(* The calls other than c are not pending.                                 *)
Alone(c) == \A d \in Calls \ {c} : pc[d] \in {"new", "returned"}

LEMMA AloneLemma ==
  ASSUME SeqInv, NEW c \in Calls, c \in Pending PROVE Alone(c)
BY DEF SeqInv, Alone, Pending, Stages

(* A tool is called only when nothing else goes on.                        *)
LEMMA CalledLemma ==
  ASSUME MaxOverlap = 1, SeqInv, NEW c \in Calls, NEW o, Called(c, o)
  PROVE  /\ Pending = {} /\ Alone(c) /\ pc[c] = "new" /\ queue = <<>> /\ running = NoTask
<1>1. IsFiniteSet(Pending)
  <2>1. IsFiniteSet(Calls)
    BY EditAssumption, FS_Interval DEF Calls
  <2> QED BY <2>1, FS_Subset DEF Pending
<1>2. Cardinality(Pending) \in Nat /\ Cardinality(Pending) < 1
  BY <1>1, FS_CardinalityType DEF Called
<1>3. Pending = {}
  BY <1>1, <1>2, FS_EmptySet
<1>4. Alone(c)
  BY <1>3 DEF Pending, Alone, SeqInv, Stages
<1>5. queue = <<>> /\ running = NoTask
  BY <1>3 DEF SeqInv, Queued, Pending
<1> QED BY <1>3, <1>4, <1>5 DEF Called

(* A call moves on: the others stay where they are.                        *)
LEMMA SeqMove ==
  ASSUME SeqInv, NEW c \in Calls, Alone(c), NEW l \in Stages \ {"new"},
         pc' = [pc EXCEPT ![c] = l], pc[c] = "new" => \A d \in Calls : d < c => pc[d] # "new",
         running' = NoTask,
         queue' = IF l \in {"acting", "loading"} THEN <<Task(c)'>> ELSE <<>>
  PROVE  SeqInv'
<1>1. pc' \in [Calls -> Stages] /\ pc'[c] = l /\ \A d \in Calls \ {c} : pc'[d] = pc[d]
  BY DEF SeqInv
<1>2. \A a, b \in Pending' : a = b
  BY <1>1 DEF Alone, Pending
<1>3. ASSUME NEW a \in Calls, NEW b \in Calls, a < b, pc'[a] = "new" PROVE pc'[b] = "new"
  <2>1. a # c /\ pc[a] = "new"
    BY <1>1, <1>3
  <2>2. pc[b] = "new"
    BY <1>3, <2>1 DEF SeqInv
  <2>3. b # c
    BY <1>3, <2>1, <2>2
  <2> QED BY <1>1, <2>2, <2>3
<1>4. \A d \in Calls \ {c} : ~Queued(d)'
  BY <1>1 DEF Alone, Queued
<1>5. CASE l \in {"acting", "loading"}
  <2>1. Queued(c)' /\ queue' = <<Task(c)'>>
    BY <1>1, <1>5 DEF Queued
  <2> QED BY <1>1, <1>2, <1>3, <2>1 DEF SeqInv
<1>6. CASE l \notin {"acting", "loading"}
  BY <1>1, <1>2, <1>3, <1>4, <1>6 DEF SeqInv, Queued
<1> QED BY <1>5, <1>6

(* The file does not change, or is written by the call that moves on.      *)
LEMMA TimeMove ==
  ASSUME SeqInv, TimeInv, NEW c \in Calls, Alone(c), NEW l \in Stages,
         pc' = [pc EXCEPT ![c] = l],
         l \notin {"loading", "returned"} => pc[c] \notin {"loading", "returned"},
         disk'.mtime = disk.mtime
  PROVE  TimeInv'
<1>1. pc'[c] = l /\ \A d \in Calls \ {c} : pc'[d] = pc[d]
  BY DEF SeqInv
<1> QED BY <1>1 DEF TimeInv

LEMMA TimeWrite ==
  ASSUME SeqInv, TimeInv, NEW c \in Calls, Alone(c), NEW l \in {"loading", "returned"},
         pc' = [pc EXCEPT ![c] = l], pc[c] = "writing", disk'.mtime = disk.mtime + 1
  PROVE  TimeInv'
<1>1. pc'[c] = l /\ \A d \in Calls \ {c} : pc'[d] = pc[d]
  BY DEF SeqInv
<1>2. disk.mtime \in Nat /\ disk.mtime < MaxEdit + c
  BY Constants DEF TimeInv
<1>3. disk'.mtime \in Times
  BY <1>2, Constants
<1>4. ASSUME NEW d \in Calls, pc'[d] \notin {"loading", "returned"} PROVE disk'.mtime < MaxEdit + d
  <2>1. d # c /\ pc[d] = "new"
    BY <1>1, <1>4 DEF Alone
  <2>2. ~(d < c)
    BY <2>1 DEF SeqInv
  <2> QED BY <1>2, <2>1, <2>2, Constants
<1> QED BY <1>3, <1>4 DEF TimeInv

(* The one call whose command is queued or executes, or that goes on.      *)
LEMMA ActRuns ==
  ASSUME SeqInv, NEW c \in Calls, running = <<c, "act">>
  PROVE  pc[c] = "acting" /\ queue = <<>> /\ Alone(c)
<1>1. running # NoTask
  BY Constants
<1>2. PICK d \in Calls : Queued(d) /\ queue = <<>> /\ running = Task(d)
  BY <1>1 DEF SeqInv
<1>3. d = c /\ pc[c] = "acting"
  BY <1>2 DEF Task, Queued
<1> QED BY <1>2, <1>3, AloneLemma DEF Pending

LEMMA LoadRuns ==
  ASSUME SeqInv, NEW c \in Calls, running = <<c, "load">>
  PROVE  pc[c] = "loading" /\ queue = <<>> /\ Alone(c)
<1>1. running # NoTask
  BY Constants
<1>2. PICK d \in Calls : Queued(d) /\ queue = <<>> /\ running = Task(d)
  BY <1>1 DEF SeqInv
<1>3. d = c /\ pc[c] = "loading"
  BY <1>2 DEF Task, Queued
<1> QED BY <1>2, <1>3, AloneLemma DEF Pending

LEMMA GoesOn ==
  ASSUME SeqInv, NEW c \in Calls, pc[c] \in {"answered", "reading", "writing"}
  PROVE  queue = <<>> /\ running = NoTask /\ Alone(c)
<1>1. Alone(c)
  BY AloneLemma DEF Pending
<1>2. \A d \in Calls : ~Queued(d)
  BY <1>1 DEF Alone, Queued
<1> QED BY <1>1, <1>2 DEF SeqInv

-----------------------------------------------------------------------------
(* The parts of the invariant, when the call c moves on and the others do  *)
(* nothing.                                                                *)
LEMMA FileMove ==
  ASSUME FileInv, NEW c \in Calls, NEW r, call' = [call EXCEPT ![c] = r], DOMAIN r = Fields,
         r.source.holes \in Seq(Nat), \A e \in r.edits : e.new \in Seq(Nat),
         disk'.holes \in Seq(Nat), nextHole' \in Nat
  PROVE  FileInv'
<1>1. DOMAIN call' = Calls /\ call'[c] = r /\ \A d \in Calls \ {c} : call'[d] = call[d]
  BY DEF FileInv
<1> QED BY <1>1 DEF FileInv

LEMMA EditMove ==
  ASSUME SeqInv, NEW c \in Calls, Alone(c), NEW l \in Stages, pc' = [pc EXCEPT ![c] = l],
         EditOf(c)'
  PROVE  EditInv'
<1>1. \A d \in Calls \ {c} : pc'[d] \in {"new", "returned"}
  BY DEF SeqInv, Alone
<1>2. \A d \in Calls \ {c} : EditOf(d)'
  BY <1>1 DEF EditOf
<1> QED BY <1>2 DEF EditInv

LEMMA EditEnds ==
  ASSUME SeqInv, NEW c \in Calls, Alone(c), NEW l \in {"loading", "returned"},
         pc' = [pc EXCEPT ![c] = l]
  PROVE  EditInv'
<1>1. pc'[c] = l
  BY DEF SeqInv
<1>2. EditOf(c)'
  BY <1>1 DEF EditOf
<1> QED BY <1>2, EditMove DEF Stages

LEMMA SessionEnds ==
  ASSUME ~loaded', \A c \in Calls : ~(running' = <<c, "load">> /\ hasRead')
  PROVE  SessionInv'
BY DEF SessionInv

LEMMA AsReadKept ==
  ASSUME AsRead, disk.mtime \in Nat, points' = points, readMtime' = readMtime,
         disk' = disk \/ disk'.mtime = disk.mtime + 1
  PROVE  AsRead'
<1>1. readMtime' \in Nat /\ readMtime' <= disk'.mtime
  BY DEF AsRead
<1>2. \A i, j \in DOMAIN points' : points'[i].id = points'[j].id => i = j
  BY DEF AsRead
<1>3. CASE disk' = disk
  BY <1>1, <1>2, <1>3 DEF AsRead, Numbering
<1>4. CASE disk'.mtime = disk.mtime + 1
  <2>1. readMtime' # disk'.mtime
    BY <1>4 DEF AsRead
  <2> QED BY <1>1, <1>2, <2>1 DEF AsRead
<1> QED BY <1>3, <1>4

LEMMA SessionStays ==
  ASSUME SeqInv, TimeInv, SessionInv, NEW c \in Calls, Alone(c), NEW l \in Stages \ {"loading"},
         pc' = [pc EXCEPT ![c] = l], running' = NoTask,
         loaded' = loaded, loadedMtime' = loadedMtime, readMtime' = readMtime,
         loaded => goalIds' = Ids(points'),
         disk' = disk \/ disk'.mtime = disk.mtime + 1,
         loaded => Unsettled(c)' \/ (points' = points /\ ~Unsettled(c))
  PROVE  SessionInv'
<1>1. pc'[c] = l /\ \A d \in Calls \ {c} : pc'[d] = pc[d]
  BY DEF SeqInv
<1>2. \A d \in Calls : pc'[d] # "loading"
  BY <1>1 DEF Alone
<1>3. disk.mtime \in Nat /\ disk'.mtime \in Nat /\ disk.mtime <= disk'.mtime
  BY Constants DEF TimeInv
<1>4. \A d \in Calls : running' # <<d, "load">>
  BY Constants
<1>5. ASSUME loaded', \A d \in Calls : ~Unsettled(d)' PROVE AsRead'
  <2>1. points' = points /\ ~Unsettled(c)
    BY <1>5
  <2>2. \A d \in Calls : ~Unsettled(d)
    BY <2>1 DEF Alone, Unsettled
  <2>3. AsRead
    BY <1>5, <2>2 DEF SessionInv
  <2> QED BY <1>3, <2>1, <2>3, AsReadKept
<1>6. ASSUME loaded' PROVE /\ goalIds' = Ids(points')
                           /\ loadedMtime' \in Nat /\ loadedMtime' <= disk'.mtime
                           /\ readMtime' \in Nat /\ readMtime' <= disk'.mtime
  BY <1>3, <1>6 DEF SessionInv
<1> QED BY <1>2, <1>4, <1>5, <1>6 DEF SessionInv

-----------------------------------------------------------------------------
(* How a call ends.                                                        *)

(* The file is not changed, or is written by the call.                     *)
SameFile == disk' = disk /\ nextHole' = nextHole
Written(c) == /\ pc[c] = "writing" /\ disk'.mtime = disk.mtime + 1
              /\ disk'.holes \in Seq(Nat) /\ nextHole' \in Nat

(* It may move: nothing executes, and it comes after those called before.  *)
Free(c) == /\ Alone(c) /\ queue = <<>> /\ running = NoTask
           /\ pc[c] \notin {"loading", "returned"}
           /\ pc[c] = "new" => \A d \in Calls : d < c => pc[d] # "new"

LEMMA FreeLemma ==
  ASSUME SeqInv, NEW c \in Calls, pc[c] \in {"answered", "reading", "writing"} PROVE Free(c)
BY GoesOn DEF Free

LEMMA CalledFree ==
  ASSUME MaxOverlap = 1, SeqInv, NEW c \in Calls, NEW o, Called(c, o) PROVE Free(c) /\ pc[c] = "new"
BY CalledLemma DEF Free, Called

LEMMA ReloadKeeps ==
  ASSUME IInv, NEW c \in Calls, Free(c), Reload(c), SameFile \/ Written(c)
  PROVE  IInv'
<1>1. /\ pc' = [pc EXCEPT ![c] = "loading"] /\ call' = [call EXCEPT ![c] = NoCall]
      /\ ~loaded' /\ running' = NoTask /\ queue' = <<<<c, "load">>>>
  BY DEF Reload, Invalidate, Free, Queue!Submit, Queue!Enqueue
<1>2. pc'[c] = "loading"
  BY <1>1 DEF IInv, SeqInv
<1>3. SeqInv'
  BY <1>1, <1>2, SeqMove DEF IInv, Free, Stages, Task
<1>4. TimeInv'
  BY <1>1, TimeMove, TimeWrite DEF IInv, Free, Stages, SameFile, Written
<1>5. FileInv'
  <2>1. disk'.holes \in Seq(Nat) /\ nextHole' \in Nat
    BY DEF SameFile, Written, IInv, FileInv
  <2>2. NoCall.source.holes \in Seq(Nat) /\ \A e \in NoCall.edits : e.new \in Seq(Nat)
    BY ReturnedSet
  <2> QED BY <1>1, <2>1, <2>2, ReturnedSet, FileMove DEF IInv
<1>6. SessionInv'
  BY <1>1, Constants, SessionEnds
<1>7. EditInv'
  BY <1>1, EditEnds DEF IInv, Free
<1> QED BY <1>3, <1>4, <1>5, <1>6, <1>7 DEF IInv

(* All but the session.                                                    *)
LEMMA ReturnRest ==
  ASSUME IInv, NEW c \in Calls, Alone(c), Return(c),
         pc[c] = "new" => \A d \in Calls : d < c => pc[d] # "new",
         queue' = <<>>, running' = NoTask, SameFile \/ Written(c)
  PROVE  SeqInv' /\ TimeInv' /\ FileInv' /\ EditInv'
<1>1. pc' = [pc EXCEPT ![c] = "returned"] /\ call' = [call EXCEPT ![c] = NoCall]
  BY DEF Return
<1>3. SeqInv'
  BY <1>1, SeqMove DEF IInv, Stages
<1>4. TimeInv'
  BY <1>1, TimeMove, TimeWrite DEF IInv, Stages, SameFile, Written
<1>5. FileInv'
  <2>1. disk'.holes \in Seq(Nat) /\ nextHole' \in Nat
    BY DEF SameFile, Written, IInv, FileInv
  <2>2. NoCall.source.holes \in Seq(Nat) /\ \A e \in NoCall.edits : e.new \in Seq(Nat)
    BY ReturnedSet
  <2> QED BY <1>1, <2>1, <2>2, ReturnedSet, FileMove DEF IInv
<1>6. EditInv'
  BY <1>1, EditEnds DEF IInv
<1> QED BY <1>3, <1>4, <1>5, <1>6

(* The call returns, and leaves the session and Agda as they are.          *)
LEMMA ReturnStays ==
  ASSUME IInv, NEW c \in Calls, Alone(c), Return(c), SameFile \/ Written(c),
         pc[c] = "new" => \A d \in Calls : d < c => pc[d] # "new",
         queue' = <<>>, running' = NoTask,
         UNCHANGED <<sessionVars, agdaVars>>, loaded => ~Unsettled(c)
  PROVE  IInv'
<1>1. /\ pc' = [pc EXCEPT ![c] = "returned"]
      /\ UNCHANGED <<loaded, goalIds, loadedMtime, points, readMtime>>
  BY DEF Return, sessionVars, agdaVars
<1>2. SeqInv' /\ TimeInv' /\ FileInv' /\ EditInv'
  BY ReturnRest
<1>3. loaded => goalIds' = Ids(points')
  BY <1>1 DEF IInv, SessionInv, Ids
<1>4. disk' = disk \/ disk'.mtime = disk.mtime + 1
  BY DEF SameFile, Written
<1>5. SessionInv'
  BY <1>1, <1>3, <1>4, SessionStays DEF IInv, Stages
<1> QED BY <1>2, <1>5 DEF IInv

LEMMA FreeReturns ==
  ASSUME IInv, NEW c \in Calls, Free(c), Return(c), SameFile \/ Written(c),
         UNCHANGED <<queueVars, sessionVars, agdaVars>>, loaded => ~Unsettled(c)
  PROVE  IInv'
<1>1. queue' = <<>> /\ running' = NoTask
  BY DEF queueVars, Free
<1> QED BY <1>1, ReturnStays DEF Free

(* The call returns, and the session is reset.                             *)
LEMMA ReturnReset ==
  ASSUME IInv, NEW c \in Calls, Alone(c), pc[c] # "new", Return(c), SameFile,
         queue' = <<>>, running' = NoTask, ~loaded'
  PROVE  IInv'
<1>1. SeqInv' /\ TimeInv' /\ FileInv' /\ EditInv'
  BY ReturnRest
<1>2. SessionInv'
  BY Constants, SessionEnds
<1> QED BY <1>1, <1>2 DEF IInv

-----------------------------------------------------------------------------
(* The tools, called.                                                      *)
LEMMA GatedKeeps ==
  ASSUME MaxOverlap = 1, IInv, NEW c \in Calls, NEW o, Gated(c, o) PROVE IInv'
<1>1. Free(c) /\ pc[c] = "new"
  BY CalledFree DEF Gated, IInv
<1>2. ~Unsettled(c)
  BY <1>1 DEF Unsettled
<1> QED BY <1>1, <1>2, FreeReturns DEF Gated, SameFile, diskVars

LEMMA LoadKeeps ==
  ASSUME MaxOverlap = 1, IInv, NEW c \in Calls, Load(c) PROVE IInv'
<1>1. Free(c)
  BY CalledFree DEF Load, IInv
<1> QED BY <1>1, ReloadKeeps DEF Load, SameFile, diskVars

(* A call that moves on and leaves the session, Agda and the file alone.   *)
LEMMA MovesOn ==
  ASSUME IInv, NEW c \in Calls, Free(c), NEW l \in Stages \ {"new", "loading", "returned"}, NEW r,
         pc' = [pc EXCEPT ![c] = l], call' = [call EXCEPT ![c] = r],
         queue' = IF l = "acting" THEN <<Task(c)'>> ELSE <<>>, running' = NoTask,
         DOMAIN r = Fields, r.source.holes \in Seq(Nat), \A e \in r.edits : e.new \in Seq(Nat),
         UNCHANGED <<sessionVars, agdaVars, diskVars>>,
         EditOf(c)', loaded => Unsettled(c)' \/ ~Unsettled(c)
  PROVE  IInv'
<1>1. UNCHANGED <<loaded, goalIds, loadedMtime, points, readMtime, disk, nextHole>>
  BY DEF sessionVars, agdaVars, diskVars
<1>2. SeqInv'
  BY SeqMove DEF IInv, Free, Stages
<1>3. TimeInv'
  BY <1>1, TimeMove DEF IInv, Free
<1>4. FileInv'
  <2>1. disk'.holes \in Seq(Nat) /\ nextHole' \in Nat
    BY <1>1 DEF IInv, FileInv
  <2> QED BY <2>1, FileMove DEF IInv
<1>5. SessionInv'
  <2>1. loaded => goalIds' = Ids(points')
    BY <1>1 DEF IInv, SessionInv, Ids
  <2> QED BY <1>1, <2>1, SessionStays DEF IInv, Free
<1>6. EditInv'
  BY EditMove DEF IInv, Free
<1> QED BY <1>2, <1>3, <1>4, <1>5, <1>6 DEF IInv

LEMMA ActKeeps ==
  ASSUME MaxOverlap = 1, WriteFlags = {TRUE}, IInv, NEW c \in Calls, NEW o, NEW g,
         NEW w \in WriteFlags, Act(c, o, g, w)
  PROVE  IInv'
<1>1. Free(c) /\ pc[c] = "new"
  BY CalledFree DEF Act, IInv
<1> DEFINE r == [call[c] EXCEPT !.op = o, !.goal = g, !.write = w, !.before = goalIds]
<1>2. /\ pc' = [pc EXCEPT ![c] = "acting"] /\ call' = [call EXCEPT ![c] = r]
      /\ UNCHANGED <<sessionVars, agdaVars, diskVars>> /\ o \in AgdaOps
      /\ queue' = <<<<c, "act">>>> /\ running' = NoTask
  BY <1>1 DEF Act, Queue!Submit, Queue!Enqueue, Free
<1>3. DOMAIN call[c] = Fields /\ DOMAIN call = Calls
  BY DEF IInv, FileInv
<1>4. /\ DOMAIN r = Fields /\ r.op = o /\ r.write = w /\ r.before = goalIds
      /\ r.edits = call[c].edits /\ r.source = call[c].source
  BY <1>3 DEF Fields
<1> HIDE DEF r
<1>5. pc'[c] = "acting" /\ call'[c] = r
  BY <1>2, <1>3 DEF IInv, SeqInv
<1>6. EditOf(c)'
  <2>1. goalIds' = goalIds
    BY <1>2 DEF sessionVars
  <2> QED BY <1>2, <1>4, <1>5, <2>1 DEF EditOf
<1>7. ~Unsettled(c)
  BY <1>1 DEF Unsettled
<1>8. queue' = <<Task(c)'>>
  BY <1>2, <1>5 DEF Task
<1>9. r.source.holes \in Seq(Nat) /\ \A e \in r.edits : e.new \in Seq(Nat)
  BY <1>4 DEF IInv, FileInv
<1> QED BY <1>1, <1>2, <1>4, <1>6, <1>7, <1>8, <1>9, MovesOn DEF Stages

LEMMA ApplyEditKeeps ==
  ASSUME MaxOverlap = 1, IInv, NEW c \in Calls, ApplyEdit(c) PROVE IInv'
<1>1. Free(c) /\ pc[c] = "new"
  BY CalledFree DEF ApplyEdit, IInv
<1> DEFINE r == [call[c] EXCEPT !.op = "text"]
<1>2. /\ pc' = [pc EXCEPT ![c] = "reading"] /\ call' = [call EXCEPT ![c] = r]
      /\ UNCHANGED <<sessionVars, agdaVars, diskVars>> /\ queue' = <<>> /\ running' = NoTask
  BY <1>1 DEF ApplyEdit, queueVars, Free
<1>3. DOMAIN call[c] = Fields /\ DOMAIN call = Calls
  BY DEF IInv, FileInv
<1>4. DOMAIN r = Fields /\ r.op = "text" /\ r.edits = call[c].edits /\ r.source = call[c].source
  BY <1>3, OpSet
<1> HIDE DEF r
<1>5. pc'[c] = "reading" /\ call'[c] = r
  BY <1>2, <1>3 DEF IInv, SeqInv
<1>6. EditOf(c)'
  BY <1>4, <1>5, Constants DEF EditOf, TextOps
<1>7. ~Unsettled(c)
  BY <1>1 DEF Unsettled
<1>8. r.source.holes \in Seq(Nat) /\ \A e \in r.edits : e.new \in Seq(Nat)
  BY <1>4 DEF IInv, FileInv
<1> QED BY <1>1, <1>2, <1>4, <1>6, <1>7, <1>8, MovesOn DEF Stages

LEMMA RewriteSourceKeeps ==
  ASSUME MaxOverlap = 1, IInv, NEW c \in Calls, NEW o, RewriteSource(c, o) PROVE IInv'
<1>1. Free(c) /\ pc[c] = "new"
  BY CalledFree DEF RewriteSource, IInv
<1>2. ~Unsettled(c)
  BY <1>1 DEF Unsettled
<1>3. CASE Return(c)
  BY <1>1, <1>2, <1>3, FreeReturns DEF RewriteSource, SameFile, diskVars
<1>4. CASE /\ pc' = [pc EXCEPT ![c] = "writing"]
           /\ call' = [call EXCEPT ![c].op = o, ![c].source = disk]
  <2> DEFINE s == [call[c] EXCEPT !.op = o]
             r == [s EXCEPT !.source = disk]
  <2>1. DOMAIN call[c] = Fields /\ DOMAIN call = Calls
    BY DEF IInv, FileInv
  <2>2. DOMAIN s = Fields /\ s.op = o /\ s.edits = call[c].edits
    BY <2>1, OpSet
  <2>3. call' = [call EXCEPT ![c] = r]
    BY <1>4, <2>1
  <2> HIDE DEF s
  <2>4. DOMAIN r = Fields /\ r.op = o /\ r.edits = call[c].edits /\ r.source = disk
    BY <2>2, SourceSet
  <2> HIDE DEF r
  <2>5. pc'[c] = "writing" /\ call'[c] = r
    BY <1>4, <2>1, <2>3 DEF IInv, SeqInv
  <2>6. EditOf(c)'
    BY <2>4, <2>5, Constants DEF EditOf, TextOps, RewriteSource
  <2>7. r.source.holes \in Seq(Nat) /\ \A e \in r.edits : e.new \in Seq(Nat)
    BY <2>4 DEF IInv, FileInv
  <2>8. /\ UNCHANGED <<sessionVars, agdaVars, diskVars>> /\ queue' = <<>> /\ running' = NoTask
    BY <1>1 DEF RewriteSource, queueVars, Free
  <2> QED BY <1>1, <1>2, <1>4, <2>3, <2>4, <2>6, <2>7, <2>8, MovesOn DEF Stages
<1> QED BY <1>3, <1>4 DEF RewriteSource

-----------------------------------------------------------------------------
(* The queue, Agda, and everyone else.                                     *)

(* Nobody's call moves.                                                    *)
LEMMA CallsStay ==
  ASSUME IInv, UNCHANGED <<callVars, diskVars>>,
         (queue' = queue /\ running' = running) \/ Queue!Begin,
         SessionInv', \A c \in Calls : loaded' => /\ loaded /\ goalIds' = goalIds
                                                 /\ readMtime' = readMtime
  PROVE  IInv'
<1>1. pc' = pc /\ call' = call /\ disk' = disk /\ nextHole' = nextHole
  BY DEF callVars, diskVars
<1>2. SeqInv'
  <2>1. \/ queue' = queue /\ running' = running
        \/ \E c \in Calls : Queued(c) /\ running' = Task(c) /\ queue' = <<>>
    <3>1. ASSUME Queue!Begin, NEW c \in Calls, queue = <<Task(c)>>
          PROVE  running' = Task(c) /\ queue' = <<>>
      BY <3>1 DEF Queue!Begin
    <3>2. Queue!Begin => running = NoTask /\ queue # <<>>
      BY DEF Queue!Begin
    <3> QED BY <3>1, <3>2 DEF IInv, SeqInv
  <2>2. Pending' = Pending /\ \A c \in Calls : Queued(c)' = Queued(c) /\ Task(c)' = Task(c)
    BY <1>1 DEF Pending, Queued, Task
  <2> QED BY <1>1, <2>1, <2>2 DEF IInv, SeqInv
<1>3. TimeInv' /\ FileInv'
  BY <1>1 DEF IInv, TimeInv, FileInv
<1>4. EditInv'
  BY <1>1 DEF IInv, EditInv, EditOf, EditsRight
<1> QED BY <1>2, <1>3, <1>4 DEF IInv

LEMMA BeginKeeps == ASSUME IInv, Begin PROVE IInv'
<1>1. UNCHANGED <<callVars, diskVars>> /\ Queue!Begin /\ hasRead' = FALSE
  BY DEF Begin
<1>2. CASE live
  <2>1. UNCHANGED <<loaded, goalIds, loadedMtime, points, readMtime, pc, call, disk>>
    BY <1>1, <1>2 DEF Begin, sessionVars, callVars, diskVars
  <2>2. SessionInv'
    BY <1>1, <2>1 DEF IInv, SessionInv, AsRead, Unsettled, Ids, Numbering
  <2> QED BY <1>1, <2>1, <2>2, CallsStay
<1>3. CASE ~live
  <2>1. ~loaded'
    BY <1>3 DEF Begin, Invalidate
  <2>2. SessionInv'
    BY <1>1, <2>1, SessionEnds
  <2> QED BY <1>1, <2>1, <2>2, CallsStay
<1> QED BY <1>2, <1>3

LEMMA AgdaReadsKeeps == ASSUME IInv, NEW c \in Calls, AgdaReads(c) PROVE IInv'
<1>1. pc[c] = "loading" /\ ~loaded /\ running' = running
  BY LoadRuns DEF AgdaReads, IInv, SessionInv, queueVars
<1>2. /\ UNCHANGED <<callVars, diskVars>> /\ UNCHANGED <<queue, running, loaded, disk>>
      /\ points' = Numbering(disk) /\ readMtime' = disk.mtime
  BY DEF AgdaReads, queueVars, sessionVars, diskVars
<1>3. AsRead'
  <2>1. disk.mtime \in Nat
    BY Constants DEF IInv, TimeInv
  <2>2. points' = Numbering(disk)'
    BY <1>2 DEF Numbering
  <2>3. \A i, j \in DOMAIN points' : points'[i].id = points'[j].id => i = j
    <3>1. CASE disk.broken
      BY <1>2, <3>1 DEF Numbering
    <3>2. CASE ~disk.broken
      <4>1. \A i \in DOMAIN points' : i \in Nat /\ points'[i].id = i - 1
        BY <1>2, <3>2 DEF Numbering, IInv, FileInv
      <4> QED BY <4>1
    <3> QED BY <3>1, <3>2
  <2> QED BY <1>2, <2>1, <2>2, <2>3 DEF AsRead
<1>4. SessionInv'
  BY <1>1, <1>2, <1>3 DEF SessionInv
<1> QED BY <1>1, <1>2, <1>4, CallsStay

LEMMA ChildDiesKeeps == ASSUME IInv, ChildDies PROVE IInv'
<1>1. /\ UNCHANGED <<callVars, diskVars>> /\ ~loaded'
      /\ UNCHANGED <<queue, running, hasRead, points, readMtime, disk>>
  BY DEF ChildDies, Invalidate, queueVars, diskVars
<1>2. SessionInv'
  BY <1>1 DEF IInv, SessionInv, AsRead, Numbering
<1> QED BY <1>1, <1>2, CallsStay

-----------------------------------------------------------------------------
(* What an edit makes of the markers of a file.                            *)
LEMMA FreshTyped ==
  ASSUME nextHole \in Nat, NEW k \in Nat PROVE Fresh(k) \in Seq(Nat)
<1>1. \A i \in 1..k : nextHole + i - 1 \in Nat
  OBVIOUS
<1> QED BY <1>1 DEF Fresh

LEMMA InsertTyped ==
  ASSUME NEW hs \in Seq(Nat), NEW i \in 1..(Len(hs) + 1), NEW h \in Nat
  PROVE  InsertAt(hs, i, h) \in Seq(Nat)
BY DEF InsertAt

LEMMA RemoveTyped ==
  ASSUME NEW hs \in Seq(Nat), NEW i \in 1..Len(hs) PROVE RemoveAt(hs, i) \in Seq(Nat)
BY DEF RemoveAt

LEMMA EditedTyped ==
  ASSUME nextHole \in Nat, NEW d \in Seq(Nat), NEW hs \in Edited(d)
  PROVE  hs \in Seq(Nat) /\ NextHole(hs) \in Nat
<1>1. CASE hs = d
  BY <1>1 DEF NextHole
<1>2. CASE \E i \in DOMAIN d : hs = RemoveAt(d, i)
  BY <1>2, RemoveTyped DEF NextHole
<1>3. CASE \E i \in 1..(Len(d) + 1) : hs = InsertAt(d, i, nextHole)
  BY <1>3, InsertTyped DEF NextHole
<1> QED BY <1>1, <1>2, <1>3 DEF Edited

LEMMA RewrittenTyped ==
  ASSUME nextHole \in Nat, NEW d \in Seq(Nat), NEW o, NEW hs \in Rewritten(o, d)
  PROVE  hs \in Seq(Nat) /\ NextHole(hs) \in Nat
<1>1. CASE o = "text"
  BY <1>1, EditedTyped DEF Rewritten
<1>2. CASE o = "clauses"
  <2>1. \E i \in 1..(Len(d) + 1) : hs = InsertAt(d, i, nextHole)
    BY <1>2 DEF Rewritten
  <2> QED BY <2>1, InsertTyped DEF NextHole
<1>3. CASE o \notin {"text", "clauses"}
  BY <1>3 DEF Rewritten, NextHole
<1> QED BY <1>1, <1>2, <1>3

(* A set of naturals has a least element.                                  *)
LEMMA Least == ASSUME NEW T \in SUBSET Nat, T # {}
               PROVE \E n \in T : \A m \in T : ~(m < n)
<1>1. \E x \in T : \A y \in T : ~(<<y, x>> \in OpToRel(<, Nat))
  BY NatLessThanWellFounded, WFMin, Zenon
<1> QED BY <1>1 DEF OpToRel

(* Induction up to n over the members of a set.                            *)
LEMMA Induct ==
  ASSUME NEW n \in Nat, NEW G, 0 \in G, \A i \in 0..n : i < n /\ i \in G => i + 1 \in G
  PROVE \A i \in 0..n : i \in G
<1> SUFFICES ASSUME (0..n) \ G # {} PROVE FALSE
  OBVIOUS
<1>1. PICK x \in (0..n) \ G : \A y \in (0..n) \ G : ~(y < x)
  <2>1. (0..n) \ G \in SUBSET Nat
    OBVIOUS
  <2> QED BY <2>1, Least
<1>2. x \in 0..n /\ x # 0
  OBVIOUS
<1>3. x - 1 \in 0..n /\ x - 1 < n /\ x - 1 \in G
  BY <1>1, <1>2
<1>4. (x - 1) + 1 \in G
  BY <1>3
<1> QED BY <1>2, <1>4

(* The recursion of Joined.                                                *)
Joins(ss, f, i) == IF i = 0 THEN <<>> ELSE f[i-1] \o ss[i]

LEMMA JoinExists ==
  ASSUME NEW ss, Len(ss) \in Nat
  PROVE \E f : f = [i \in 0..Len(ss) |-> Joins(ss, f, i)]
<1> DEFINE G == {n \in 0..Len(ss) : \E f : f = [i \in 0..n |-> Joins(ss, f, i)]}
<1>1. 0 \in G
  <2> DEFINE f == [i \in 0..0 |-> <<>>]
  <2>1. f = [i \in 0..0 |-> Joins(ss, f, i)]
    BY DEF Joins
  <2>2. \E g : g = [i \in 0..0 |-> Joins(ss, g, i)]
    BY <2>1
  <2> QED BY <2>2
<1>2. ASSUME NEW n \in 0..Len(ss), n < Len(ss), n \in G PROVE n + 1 \in G
  <2>1. PICK f : f = [i \in 0..n |-> Joins(ss, f, i)]
    BY <1>2
  <2> DEFINE g == [i \in 0..(n+1) |-> IF i = n + 1 THEN Joins(ss, f, i) ELSE f[i]]
  <2>2. \A i \in 0..n : g[i] = f[i] /\ f[i] = Joins(ss, f, i)
    BY <2>1
  <2>3. \A i \in 0..n : f[i] = Joins(ss, g, i)
    <3>1. \A i \in 0..n : i # 0 => i - 1 \in 0..n
      OBVIOUS
    <3>2. \A i \in 0..n : i # 0 => g[i-1] = f[i-1]
      BY <2>2, <3>1
    <3> HIDE DEF g
    <3> QED BY <2>2, <3>2 DEF Joins
  <2>4. g[n+1] = Joins(ss, g, n+1)
    <3>1. g[n+1] = Joins(ss, f, n+1) /\ g[n] = f[n]
      OBVIOUS
    <3> QED BY <3>1 DEF Joins
  <2>5. \A i \in 0..(n+1) : g[i] = Joins(ss, g, i)
    <3> SUFFICES ASSUME NEW i \in 0..(n+1) PROVE g[i] = Joins(ss, g, i)
      OBVIOUS
    <3>1. i = n + 1 \/ i \in 0..n
      OBVIOUS
    <3> HIDE DEF g
    <3> QED BY <2>2, <2>3, <2>4, <3>1
  <2>6. g = [i \in 0..(n+1) |-> g[i]]
    OBVIOUS
  <2>7. g = [i \in 0..(n+1) |-> Joins(ss, g, i)]
    <3> HIDE DEF g
    <3> QED BY <2>5, <2>6
  <2>8. \E h : h = [i \in 0..(n+1) |-> Joins(ss, h, i)]
    BY <2>7
  <2> QED BY <1>2, <2>8
<1> HIDE DEF G
<1>3. Len(ss) \in G
  <2>1. \A n \in 0..Len(ss) : n < Len(ss) /\ n \in G => n + 1 \in G
    BY <1>2
  <2>2. Len(ss) \in 0..Len(ss)
    OBVIOUS
  <2> QED BY <1>1, <2>1, <2>2, Induct
<1> QED BY <1>3 DEF G

LEMMA JoinedTyped ==
  ASSUME NEW S, NEW ss \in Seq(Seq(S)) PROVE Joined(ss) \in Seq(S)
<1> DEFINE upTo == CHOOSE f : f = [i \in 0..Len(ss) |-> Joins(ss, f, i)]
<1>1. Len(ss) \in Nat /\ \A i \in 1..Len(ss) : ss[i] \in Seq(S)
  OBVIOUS
<1>2. upTo = [i \in 0..Len(ss) |-> Joins(ss, upTo, i)]
  BY <1>1, JoinExists
<1>3. Joined(ss) = upTo[Len(ss)]
  BY DEF Joined, Joins
<1> HIDE DEF upTo
<1>4. \A i \in 0..Len(ss) : upTo[i] = Joins(ss, upTo, i)
  BY <1>2
<1> DEFINE G == {i \in 0..Len(ss) : upTo[i] \in Seq(S)}
<1>5. 0 \in G
  <2>1. 0 \in 0..Len(ss)
    BY <1>1
  <2>2. upTo[0] = <<>>
    BY <1>4, <2>1 DEF Joins
  <2>3. <<>> \in Seq(S)
    OBVIOUS
  <2> QED BY <2>1, <2>2, <2>3
<1>6. ASSUME NEW i \in 0..Len(ss), i < Len(ss), i \in G PROVE i + 1 \in G
  <2>1. i + 1 \in 1..Len(ss) /\ i + 1 \in 0..Len(ss) /\ (i + 1) - 1 = i /\ i + 1 # 0
    BY <1>1, <1>6
  <2>2. upTo[i+1] = upTo[i] \o ss[i+1]
    BY <1>4, <2>1 DEF Joins
  <2>3. upTo[i] \in Seq(S) /\ ss[i+1] \in Seq(S)
    BY <1>1, <1>6, <2>1
  <2>4. upTo[i+1] \in Seq(S)
    BY <2>2, <2>3
  <2> QED BY <2>1, <2>4
<1>7. Len(ss) \in G
  <2>1. \A n \in 0..Len(ss) : n < Len(ss) /\ n \in G => n + 1 \in G
    BY <1>6
  <2>2. Len(ss) \in 0..Len(ss)
    BY <1>1
  <2> HIDE DEF G
  <2> QED BY <1>1, <1>5, <2>1, <2>2, Induct
<1> QED BY <1>3, <1>7 DEF G

LEMMA ReplacedTyped ==
  ASSUME NEW c \in Calls, NEW d, d.holes \in Seq(Nat), \A e \in call[c].edits : e.new \in Seq(Nat)
  PROVE  Replaced(c, d) \in Seq(Nat)
<1> DEFINE at(i, e) == i \in DOMAIN call[c].before /\ call[c].before[i] = e.goal
           hs == d.holes
           one(i) == IF \E e \in call[c].edits : at(i, e)
                     THEN (CHOOSE e \in call[c].edits : call[c].before[i] = e.goal).new
                     ELSE <<hs[i]>>
<1>1. ASSUME NEW i \in 1..Len(hs) PROVE one(i) \in Seq(Nat)
  <2>1. CASE \E e \in call[c].edits : at(i, e)
    <3>1. (CHOOSE e \in call[c].edits : call[c].before[i] = e.goal) \in call[c].edits
      BY <2>1
    <3> QED BY <2>1, <3>1
  <2>2. CASE ~\E e \in call[c].edits : at(i, e)
    <3>1. hs[i] \in Nat
      BY <1>1
    <3> QED BY <2>2, <3>1
  <2> QED BY <2>1, <2>2
<1>2. Replaced(c, d) = Joined([i \in 1..Len(hs) |-> one(i)])
  <2>1. DOMAIN d.holes = 1..Len(hs)
    OBVIOUS
  <2> QED BY <2>1 DEF Replaced
<1> HIDE DEF one
<1>3. [i \in 1..Len(hs) |-> one(i)] \in Seq(Seq(Nat))
  BY <1>1
<1> QED BY <1>2, <1>3, JoinedTyped

LEMMA ExternalEditKeeps == ASSUME IInv, ExternalEdit PROVE IInv'
<1>1. PICK hs \in Edited(disk.holes), b \in BOOLEAN :
        /\ disk' = [holes |-> hs, broken |-> b, mtime |-> disk.mtime + 1]
        /\ nextHole' = NextHole(hs)
  BY DEF ExternalEdit
<1>2. hs \in Seq(Nat) /\ nextHole' \in Nat
  BY <1>1, EditedTyped DEF IInv, FileInv
<1>3. disk'.holes = hs /\ disk'.mtime = disk.mtime + 1
  BY <1>1
<1>4. disk.mtime \in Nat /\ disk'.mtime \in Nat /\ disk'.mtime <= MaxEdit
  BY <1>3, Constants DEF IInv, TimeInv, ExternalEdit
<1>5. UNCHANGED <<queue, running, pc, call, loaded, goalIds, loadedMtime, hasRead, points,
                  readMtime>>
  BY DEF ExternalEdit, queueVars, callVars, sessionVars, agdaVars
<1>6. SeqInv'
  <2>1. Pending' = Pending /\ \A c \in Calls : Queued(c)' = Queued(c) /\ Task(c)' = Task(c)
    BY <1>5 DEF Pending, Queued, Task
  <2> QED BY <1>5, <2>1 DEF IInv, SeqInv
<1>7. TimeInv'
  <2>1. \A c \in Calls : disk'.mtime < MaxEdit + c
    BY <1>4, Constants DEF Calls
  <2> QED BY <1>4, <2>1, Constants DEF TimeInv
<1>8. FileInv'
  BY <1>2, <1>3, <1>5 DEF IInv, FileInv
<1>9. SessionInv'
  <2>1. AsRead => AsRead'
    BY <1>3, <1>4, <1>5, AsReadKept
  <2>2. \A c \in Calls : Unsettled(c)' = Unsettled(c)
    BY <1>5 DEF Unsettled
  <2>3. Ids(points') = Ids(points)
    BY <1>5
  <2> QED BY <1>3, <1>4, <1>5, <2>1, <2>2, <2>3 DEF IInv, SessionInv
<1>10. EditInv'
  <2> SUFFICES ASSUME NEW c \in Calls PROVE EditOf(c)'
    BY DEF EditInv
  <2>1. loaded => readMtime' # disk'.mtime
    BY <1>3, <1>4, <1>5 DEF IInv, SessionInv
  <2>2. EditOf(c)
    BY DEF IInv, EditInv
  <2>3. pc[c] = "reading" /\ call[c].op \in AgdaOps => /\ call[c].checked \in Nat
                                                      /\ call[c].checked # disk'.mtime
                                                      /\ \/ call[c].checked <= disk'.mtime
                                                         \/ call[c].checked = NoTime
    BY <1>3, <1>4, <2>2, Constants DEF EditOf
  <2>4. pc[c] = "writing" /\ call[c].op \in AgdaOps /\ call[c].source.mtime = call[c].checked =>
          EditsRight(call[c], call[c].source)
    BY <2>2 DEF EditOf
  <2>5. (EditsRight(call[c], call[c].source))' = EditsRight(call[c], call[c].source)
    BY <1>5 DEF EditsRight
  <2> QED BY <1>5, <2>1, <2>2, <2>3, <2>4, <2>5 DEF EditOf
<1> QED BY <1>6, <1>7, <1>8, <1>9, <1>10 DEF IInv

-----------------------------------------------------------------------------
(* What Agda answers.                                                      *)

(* The edits are for Agda's points, and replace what stands there in d.    *)
ForPoints(es, d) ==
  \A e \in es : \A i \in DOMAIN points : points[i].id = e.goal => d.holes[i] = e.hole

LEMMA AnswerKeeps ==
  ASSUME IInv, NEW c \in Calls, NEW es, Answer(c, es), \A e \in es : e.new \in Seq(Nat),
         nextHole' \in Nat, loaded => goalIds' = Ids(points'), es # {} \/ points' = points,
         loaded /\ readMtime = disk.mtime => ForPoints(es, disk)
  PROVE  IInv'
<1>1. /\ pc' = [pc EXCEPT ![c] = "answered"] /\ queue' = <<>> /\ running' = NoTask
      /\ pc[c] = "acting" /\ Alone(c)
      /\ UNCHANGED <<loaded, loadedMtime, readMtime, disk>>
  BY ActRuns DEF Answer, Answered, Queue!Answer, IInv
<1> DEFINE r == [call[c] EXCEPT !.edits = es]
<1>2. DOMAIN call[c] = Fields /\ DOMAIN call = Calls
  BY DEF IInv, FileInv
<1>3. call' = [call EXCEPT ![c] = r]
  BY <1>2 DEF Answer
<1>4. /\ DOMAIN r = Fields /\ r.edits = es /\ r.op = call[c].op /\ r.write = call[c].write
      /\ r.before = call[c].before /\ r.source = call[c].source
  BY <1>2, EditsSet
<1> HIDE DEF r
<1>5. pc'[c] = "answered" /\ call'[c] = r
  BY <1>1, <1>2, <1>3 DEF IInv, SeqInv
<1>6. call[c].op \in AgdaOps /\ call[c].write = TRUE /\ (loaded => call[c].before = Ids(points))
  BY <1>1 DEF IInv, EditInv, EditOf, SessionInv
<1>7. EditOf(c)'
  <2>1. ASSUME loaded, readMtime = disk.mtime PROVE EditsRight(r, disk)
    <3>1. DOMAIN r.before = DOMAIN points /\ \A i \in DOMAIN points : r.before[i] = points[i].id
      BY <1>4, <1>6, <2>1 DEF Ids
    <3> QED BY <1>4, <2>1, <3>1 DEF EditsRight, ForPoints
  <2> QED BY <1>1, <1>4, <1>5, <1>6, <2>1 DEF EditOf
<1>8. SeqInv'
  BY <1>1, SeqMove DEF IInv, Stages
<1>9. TimeInv'
  BY <1>1, TimeMove DEF IInv, Stages
<1>10. FileInv'
  BY <1>1, <1>3, <1>4, FileMove DEF IInv, FileInv
<1>11. SessionInv'
  <2>1. Unsettled(c)' \/ (points' = points /\ ~Unsettled(c))
    BY <1>1, <1>4, <1>5, <1>6 DEF Unsettled
  <2> QED BY <1>1, <2>1, SessionStays DEF IInv, Stages
<1>12. EditInv'
  BY <1>1, <1>7, EditMove DEF IInv, Stages
<1> QED BY <1>8, <1>9, <1>10, <1>11, <1>12 DEF IInv

(* While a command executes, Agda's points are those of the file it read.  *)
LEMMA PointsLemma ==
  ASSUME IInv, NEW c \in Calls, running = <<c, "act">>, loaded, readMtime = disk.mtime,
         NEW gs \in SUBSET ToSet(Ids(points)), NEW es,
         \A e \in es : \E g \in gs : \E hs : e = Replace(g, hs)
  PROVE  ForPoints(es, disk)
<1>1. AsRead
  <2>1. \A d \in Calls : ~Unsettled(d)
    BY ActRuns DEF IInv, Alone, Unsettled
  <2> QED BY <2>1 DEF IInv, SessionInv
<1>2. points = Numbering(disk)
  BY <1>1 DEF AsRead
<1>3. \A i \in DOMAIN points : points[i].hole = disk.holes[i]
  BY <1>2 DEF Numbering
<1> SUFFICES ASSUME NEW e \in es, NEW i \in DOMAIN points, points[i].id = e.goal
             PROVE  disk.holes[i] = e.hole
  BY DEF ForPoints
<1>4. PICK g \in gs : \E hs : e = Replace(g, hs)
  OBVIOUS
<1>5. e.goal = g /\ e.hole = HoleOf(g)
  BY <1>4 DEF Replace
<1> DEFINE p == CHOOSE q \in ToSet(points) : q.id = g
<1>6. p \in ToSet(points) /\ p.id = g
  <2>1. points[i] \in ToSet(points) /\ points[i].id = g
    BY <1>5 DEF ToSet
  <2> QED BY <2>1
<1>7. p = points[i]
  <2>1. PICK j \in DOMAIN points : p = points[j]
    BY <1>6 DEF ToSet
  <2> QED BY <1>1, <1>5, <1>6, <2>1 DEF AsRead
<1> QED BY <1>3, <1>5, <1>7 DEF HoleOf

LEMMA ReplaceNew == \A g, hs : Replace(g, hs).new = hs
BY DEF Replace

(* The goal of a call is one of Agda's points.                             *)
LEMMA OneGoal ==
  ASSUME IInv, NEW c \in Calls, running = <<c, "act">>, HasPoint(call[c].goal),
         NEW hs \in Seq(Nat), NEW es, es = {Replace(call[c].goal, hs)}
  PROVE  /\ \A e \in es : e.new \in Seq(Nat)
         /\ loaded /\ readMtime = disk.mtime => ForPoints(es, disk)
<1>1. \A e \in es : e.new \in Seq(Nat)
  BY ReplaceNew
<1>2. ASSUME loaded, readMtime = disk.mtime PROVE ForPoints(es, disk)
  <2>1. {call[c].goal} \in SUBSET ToSet(Ids(points))
    BY DEF HasPoint
  <2>2. \A e \in es : \E g \in {call[c].goal} : \E h : e = Replace(g, h)
    OBVIOUS
  <2> QED BY <1>2, <2>1, <2>2, PointsLemma
<1> QED BY <1>1, <1>2

LEMMA GiveKeeps == ASSUME IInv, NEW c \in Calls, GiveAnswered(c) PROVE IInv'
<1>1. PICK k \in 0..1 : /\ Answer(c, {Replace(call[c].goal, Fresh(k))})
                        /\ nextHole' = nextHole + k
  BY DEF GiveAnswered
<1>2. nextHole \in Nat /\ nextHole' \in Nat /\ Fresh(k) \in Seq(Nat)
  BY <1>1, FreshTyped DEF IInv, FileInv
<1>3. running = <<c, "act">> /\ HasPoint(call[c].goal) /\ goalIds' = Ids(points')
  BY <1>1 DEF GiveAnswered, Answer, SyncGoalIds
<1> DEFINE es == {Replace(call[c].goal, Fresh(k))}
<1>4. /\ \A e \in es : e.new \in Seq(Nat)
      /\ loaded /\ readMtime = disk.mtime => ForPoints(es, disk)
  BY <1>2, <1>3, OneGoal
<1>5. es # {} /\ Answer(c, es)
  BY <1>1
<1> HIDE DEF es
<1> QED BY <1>2, <1>3, <1>4, <1>5, AnswerKeeps

LEMMA FallBackKeeps == ASSUME IInv, NEW c \in Calls, AutoFallsBack(c) PROVE IInv'
<1> DEFINE es == {Replace(call[c].goal, <<>>)}
<1>1. /\ running = <<c, "act">> /\ HasPoint(call[c].goal) /\ Answer(c, es) /\ es # {}
      /\ goalIds' = Ids(points') /\ nextHole' = nextHole
  BY DEF AutoFallsBack, DisplayText, Answer, SyncGoalIds, Ids
<1>2. <<>> \in Seq(Nat) /\ nextHole \in Nat
  BY DEF IInv, FileInv
<1>3. /\ \A e \in es : e.new \in Seq(Nat)
      /\ loaded /\ readMtime = disk.mtime => ForPoints(es, disk)
  BY <1>1, <1>2, OneGoal
<1> HIDE DEF es
<1> QED BY <1>1, <1>2, <1>3, AnswerKeeps

LEMMA SplitKeeps == ASSUME IInv, NEW c \in Calls, SplitAnswered(c) PROVE IInv'
<1>1. PICK k \in 0..2 : /\ Answer(c, {Replace(call[c].goal, Fresh(k))})
                        /\ nextHole' = nextHole + k
  BY DEF SplitAnswered, Clauses
<1>2. nextHole \in Nat /\ nextHole' \in Nat /\ Fresh(k) \in Seq(Nat)
  <2>1. k \in Nat /\ nextHole \in Nat
    BY DEF IInv, FileInv
  <2> QED BY <1>1, <2>1, FreshTyped
<1>3. /\ running = <<c, "act">> /\ HasPoint(call[c].goal)
      /\ loaded => goalIds' = Ids(points')
  BY <1>1 DEF SplitAnswered, Answer, IInv, SessionInv, Ids
<1> DEFINE es == {Replace(call[c].goal, Fresh(k))}
<1>4. /\ \A e \in es : e.new \in Seq(Nat)
      /\ loaded /\ readMtime = disk.mtime => ForPoints(es, disk)
  BY <1>2, <1>3, OneGoal
<1>5. es # {} /\ Answer(c, es)
  BY <1>1
<1> HIDE DEF es
<1> QED BY <1>2, <1>3, <1>4, <1>5, AnswerKeeps

LEMMA SolveKeeps == ASSUME IInv, NEW c \in Calls, SolveAnswered(c) PROVE IInv'
<1>1. PICK gs \in SUBSET ToSet(Ids(points)) : Answer(c, RawSolutions(gs))
  BY DEF SolveAnswered
<1> DEFINE es == RawSolutions(gs)
<1>2. /\ running = <<c, "act">> /\ Answer(c, es) /\ points' = points
      /\ goalIds' = Ids(points') /\ nextHole' = nextHole
  BY <1>1 DEF SolveAnswered, Answer, SyncGoalIds, Ids
<1>3. nextHole \in Nat
  BY DEF IInv, FileInv
<1>4. \A e \in es : \E g \in gs : \E h : e = Replace(g, h)
  BY DEF RawSolutions
<1>5. \A e \in es : e.new \in Seq(Nat)
  <2>1. \A e \in es : e.new = <<>>
    BY ReplaceNew DEF RawSolutions
  <2>2. <<>> \in Seq(Nat)
    OBVIOUS
  <2> QED BY <2>1, <2>2
<1>6. loaded /\ readMtime = disk.mtime => ForPoints(es, disk)
  BY <1>2, <1>4, PointsLemma
<1> HIDE DEF es
<1> QED BY <1>2, <1>3, <1>5, <1>6, AnswerKeeps

LEMMA MetasKeeps == ASSUME IInv, NEW c \in Calls, MetasAnswered(c) PROVE IInv'
<1>1. /\ Answer(c, {}) /\ points' = points /\ goalIds' = Ids(points') /\ nextHole' = nextHole
  BY DEF MetasAnswered, SyncGoalIds, Ids
<1>2. nextHole \in Nat
  BY DEF IInv, FileInv
<1>3. ForPoints({}, disk)
  BY DEF ForPoints
<1> QED BY <1>1, <1>2, <1>3, AnswerKeeps

LEMMA ActRejectedKeeps == ASSUME IInv, NEW c \in Calls, ActRejected(c) PROVE IInv'
<1>1. /\ pc[c] = "acting" /\ Alone(c) /\ queue' = <<>> /\ running' = NoTask
  BY ActRuns DEF ActRejected, Answered, Queue!Answer, IInv
<1>2. ~Unsettled(c)
  BY <1>1 DEF Unsettled
<1> QED BY <1>1, <1>2, ReturnStays DEF ActRejected, SameFile, diskVars

LEMMA ActThrowsKeeps == ASSUME IInv, NEW c \in Calls, ActThrows(c) PROVE IInv'
<1>1. /\ pc[c] = "acting" /\ Alone(c) /\ queue' = <<>> /\ running' = NoTask
  BY ActRuns DEF ActThrows, Answered, Queue!Answer, IInv
<1> QED BY <1>1, ReturnReset DEF ActThrows, Invalidate, SameFile, diskVars

LEMMA LoadFailsKeeps == ASSUME IInv, NEW c \in Calls, LoadFails(c) PROVE IInv'
<1>1. /\ pc[c] = "loading" /\ Alone(c) /\ queue' = <<>> /\ running' = NoTask
  BY LoadRuns DEF LoadFails, Answered, Queue!Answer, IInv
<1>2. ~loaded'
  BY <1>1 DEF LoadFails, Invalidate, sessionVars, IInv, SessionInv
<1> QED BY <1>1, <1>2, ReturnReset DEF LoadFails, SameFile, diskVars

LEMMA LoadAnsweredKeeps == ASSUME IInv, NEW c \in Calls, LoadAnswered(c) PROVE IInv'
<1>1. /\ pc[c] = "loading" /\ Alone(c) /\ queue' = <<>> /\ running' = NoTask /\ Return(c)
      /\ running = <<c, "load">> /\ hasRead
  BY LoadRuns DEF LoadAnswered, Answered, Queue!Answer, IInv
<1>2. /\ goalIds' = Ids(points) /\ loadedMtime' = disk.mtime /\ SameFile
      /\ UNCHANGED <<points, readMtime, disk>>
  BY DEF LoadAnswered, SyncGoalIds, SameFile, agdaVars, diskVars
<1>3. SeqInv' /\ TimeInv' /\ FileInv' /\ EditInv'
  BY <1>1, <1>2, ReturnRest
<1>4. AsRead /\ disk.mtime \in Nat
  BY <1>1, Constants DEF IInv, SessionInv, TimeInv
<1>5. AsRead'
  BY <1>2, <1>4, AsReadKept
<1>6. \A d \in Calls : pc'[d] # "loading" /\ running' # <<d, "load">>
  BY <1>1, Constants DEF Return, Alone, IInv, SeqInv
<1>7. goalIds' = Ids(points')
  BY <1>2
<1>8. loadedMtime' \in Nat /\ loadedMtime' <= disk'.mtime
  BY <1>2, <1>4
<1>9. readMtime' \in Nat /\ readMtime' <= disk'.mtime
  BY <1>5 DEF AsRead
<1>10. SessionInv'
  BY <1>5, <1>6, <1>7, <1>8, <1>9 DEF SessionInv
<1> QED BY <1>3, <1>10 DEF IInv

-----------------------------------------------------------------------------
(* The continuations.                                                      *)
LEMMA ContinueKeeps == ASSUME IInv, NEW c \in Calls, Continue(c) PROVE IInv'
<1>1. pc[c] = "answered" /\ Free(c) /\ SameFile
  BY FreeLemma DEF Continue, IInv, SameFile, diskVars
<1>2. call[c].op \in AgdaOps /\ call[c].write = TRUE
  BY <1>1 DEF IInv, EditInv, EditOf
<1>3. CASE /\ ~Applies(c) /\ Return(c)
           /\ UNCHANGED <<queueVars, sessionVars>>
  <2>1. loaded => ~Unsettled(c)
    BY <1>2, <1>3 DEF Applies, Unsettled
  <2> QED BY <1>1, <1>3, <2>1, FreeReturns DEF Continue
<1>4. CASE Resync(c)
  BY <1>1, <1>4, ReloadKeeps DEF Resync
<1>5. CASE /\ Applies(c) /\ ~IsFileStale
           /\ pc' = [pc EXCEPT ![c] = "reading"]
           /\ call' = [call EXCEPT ![c].checked =
                         IF loadedMtime = readMtime THEN disk.mtime ELSE NoTime]
           /\ UNCHANGED <<queueVars, sessionVars>>
  <2> DEFINE v == IF loadedMtime = readMtime THEN disk.mtime ELSE NoTime
             r == [call[c] EXCEPT !.checked = v]
  <2>1. DOMAIN call[c] = Fields /\ DOMAIN call = Calls
    BY DEF IInv, FileInv
  <2>2. call' = [call EXCEPT ![c] = r]
    BY <1>5, <2>1
  <2>3. /\ disk.mtime \in Nat /\ disk.mtime < NoTime /\ NoTime \in Nat
        /\ loadedMtime \in Nat /\ loadedMtime <= disk.mtime
    BY <1>5, Constants DEF IInv, TimeInv, SessionInv, Applies
  <2>4. v \in Nat /\ (v <= disk.mtime \/ v = NoTime)
    BY <2>3
  <2>5. v = disk.mtime => EditsRight(call[c], disk)
    <3>1. loadedMtime = disk.mtime
      BY <1>5, <2>3 DEF IsFileStale, Applies
    <3>2. v = disk.mtime => readMtime = disk.mtime
      BY <2>3, <3>1
    <3>3. loaded /\ readMtime = disk.mtime => EditsRight(call[c], disk)
      BY <1>1 DEF IInv, EditInv, EditOf
    <3> QED BY <1>5, <3>2, <3>3 DEF Applies
  <2> HIDE DEF v
  <2>6. /\ DOMAIN r = Fields /\ r.checked = v /\ r.op = call[c].op
        /\ r.before = call[c].before /\ r.edits = call[c].edits /\ r.source = call[c].source
    BY <2>1, CheckedSet
  <2> HIDE DEF r
  <2>7. pc'[c] = "reading" /\ call'[c] = r /\ disk' = disk
    BY <1>1, <1>5, <2>1, <2>2 DEF IInv, SeqInv, SameFile
  <2>8. EditsRight(r, disk) = EditsRight(call[c], disk)
    BY <2>6 DEF EditsRight
  <2>9. EditOf(c)'
    BY <1>2, <1>5, <2>4, <2>5, <2>6, <2>7, <2>8 DEF EditOf, Applies, NoTime
  <2>10. Unsettled(c)'
    BY <1>2, <1>5, <2>6, <2>7 DEF Unsettled, Applies
  <2>11. r.source.holes \in Seq(Nat) /\ \A e \in r.edits : e.new \in Seq(Nat)
    BY <2>6 DEF IInv, FileInv
  <2>12. queue' = <<>> /\ running' = NoTask /\ UNCHANGED <<sessionVars, agdaVars, diskVars>>
    BY <1>1, <1>5 DEF Continue, Free, queueVars
  <2> QED BY <1>1, <1>5, <2>2, <2>6, <2>9, <2>10, <2>11, <2>12, MovesOn DEF Stages
<1> QED BY <1>3, <1>4, <1>5 DEF Continue

LEMMA ReadSourceKeeps == ASSUME IInv, NEW c \in Calls, ReadSource(c) PROVE IInv'
<1>1. pc[c] = "reading" /\ Free(c) /\ SameFile
  BY FreeLemma DEF ReadSource, IInv, SameFile, diskVars
<1>2. CASE Resync(c)
  BY <1>1, <1>2, ReloadKeeps DEF Resync
<1>3. CASE /\ pc' = [pc EXCEPT ![c] = "writing"]
           /\ call' = [call EXCEPT ![c].source = disk]
           /\ UNCHANGED <<queueVars, sessionVars>>
  <2> DEFINE r == [call[c] EXCEPT !.source = disk]
  <2>1. DOMAIN call[c] = Fields /\ DOMAIN call = Calls
    BY DEF IInv, FileInv
  <2>2. call' = [call EXCEPT ![c] = r]
    BY <1>3, <2>1
  <2>3. /\ DOMAIN r = Fields /\ r.source = disk /\ r.op = call[c].op /\ r.checked = call[c].checked
        /\ r.before = call[c].before /\ r.edits = call[c].edits
    BY <2>1, SourceSet
  <2> HIDE DEF r
  <2>4. pc'[c] = "writing" /\ call'[c] = r
    BY <1>3, <2>1, <2>2 DEF IInv, SeqInv
  <2>5. EditsRight(r, disk) = EditsRight(call[c], disk)
    BY <2>3 DEF EditsRight
  <2>6. EditOf(c)'
    <3>1. EditOf(c)
      BY DEF IInv, EditInv
    <3> QED BY <1>1, <2>3, <2>4, <2>5, <3>1 DEF EditOf
  <2>7. Unsettled(c)' = Unsettled(c)
    BY <1>1, <2>3, <2>4 DEF Unsettled
  <2>8. r.source.holes \in Seq(Nat) /\ \A e \in r.edits : e.new \in Seq(Nat)
    BY <2>3 DEF IInv, FileInv
  <2>9. queue' = <<>> /\ running' = NoTask /\ UNCHANGED <<sessionVars, agdaVars, diskVars>>
    BY <1>1, <1>3 DEF ReadSource, Free, queueVars
  <2> QED BY <1>1, <1>3, <2>2, <2>3, <2>6, <2>7, <2>8, <2>9, MovesOn DEF Stages
<1> QED BY <1>2, <1>3 DEF ReadSource

LEMMA EditFailsKeeps == ASSUME IInv, NEW c \in Calls, EditFails(c) PROVE IInv'
<1>1. pc[c] \in {"reading", "writing"} /\ Free(c) /\ SameFile
  BY FreeLemma DEF EditFails, IInv, SameFile, diskVars
<1>2. CASE call[c].op \in TextOps /\ Return(c) /\ UNCHANGED <<queueVars, sessionVars>>
  <2>1. ~Unsettled(c)
    BY <1>2, Constants DEF Unsettled
  <2> QED BY <1>1, <1>2, <2>1, FreeReturns DEF EditFails
<1>3. CASE Resync(c)
  BY <1>1, <1>3, ReloadKeeps DEF Resync
<1> QED BY <1>2, <1>3 DEF EditFails

LEMMA WriteSourceKeeps == ASSUME IInv, NEW c \in Calls, WriteSource(c) PROVE IInv'
<1>1. pc[c] = "writing" /\ Free(c)
  BY FreeLemma DEF WriteSource, IInv
<1>2. PICK hs \in IF call[c].op \in TextOps THEN Rewritten(call[c].op, call[c].source.holes)
                                           ELSE {Replaced(c, call[c].source)},
           b \in BOOLEAN :
        /\ disk' = [holes |-> hs, broken |-> b, mtime |-> disk.mtime + 1]
        /\ nextHole' = NextHole(hs)
  BY DEF WriteSource
<1>3. /\ nextHole \in Nat /\ call[c].source.holes \in Seq(Nat)
      /\ \A e \in call[c].edits : e.new \in Seq(Nat)
  BY DEF IInv, FileInv
<1>4. hs \in Seq(Nat) /\ NextHole(hs) \in Nat
  <2>1. CASE call[c].op \in TextOps
    BY <1>2, <1>3, <2>1, RewrittenTyped
  <2>2. CASE call[c].op \notin TextOps
    <3>1. hs = Replaced(c, call[c].source)
      BY <1>2, <2>2
    <3> QED BY <1>3, <3>1, ReplacedTyped DEF NextHole
  <2> QED BY <2>1, <2>2
<1>5. Written(c)
  BY <1>1, <1>2, <1>4 DEF Written
<1> QED BY <1>1, <1>5, ReloadKeeps DEF WriteSource

LEMMA WriteFixityKeeps == ASSUME IInv, NEW c \in Calls, WriteFixity(c) PROVE IInv'
<1>1. pc[c] = "writing" /\ Free(c) /\ call[c].op = "fixity"
  BY FreeLemma DEF WriteFixity, IInv
<1>2. PICK hs \in Rewritten("fixity", call[c].source.holes), b \in BOOLEAN :
        disk' = [holes |-> hs, broken |-> b, mtime |-> disk.mtime + 1]
  BY DEF WriteFixity
<1>3. nextHole \in Nat /\ call[c].source.holes \in Seq(Nat)
  BY DEF IInv, FileInv
<1>4. hs \in Seq(Nat)
  BY <1>2, <1>3, RewrittenTyped
<1>5. Written(c)
  BY <1>1, <1>2, <1>3, <1>4 DEF Written, WriteFixity
<1>6. ~Unsettled(c)
  BY <1>1, Constants DEF Unsettled, TextOps, UxOps
<1> QED BY <1>1, <1>5, <1>6, FreeReturns DEF WriteFixity

-----------------------------------------------------------------------------
LEMMA InitInv == Init => IInv
<1> SUFFICES ASSUME Init PROVE IInv
  OBVIOUS
<1>1. SeqInv
  BY DEF Init, Queue!Init, SeqInv, Stages, Pending, Queued
<1>2. TimeInv
  BY Constants DEF Init, TimeInv, Calls
<1>3. FileInv
  <2>1. nextHole \in Nat
    BY EditAssumption DEF Init
  <2>2. [i \in 1..(nextHole - 1) |-> i] \in Seq(Nat)
    BY <2>1
  <2>3. disk.holes = [i \in 1..(nextHole - 1) |-> i]
    BY DEF Init
  <2>4. DOMAIN call = Calls /\ \A c \in Calls : call[c] = NoCall
    BY DEF Init
  <2>5. <<>> \in Seq(Nat)
    OBVIOUS
  <2> QED BY <2>1, <2>2, <2>3, <2>4, <2>5, ReturnedSet DEF FileInv
<1>4. SessionInv
  BY Constants DEF Init, Queue!Init, SessionInv
<1>5. EditInv
  BY DEF Init, EditInv, EditOf
<1> QED BY <1>1, <1>2, <1>3, <1>4, <1>5 DEF IInv

LEMMA StutterKeeps == ASSUME IInv, UNCHANGED vars PROVE IInv'
<1>1. UNCHANGED <<queue, running, pc, call, loaded, goalIds, loadedMtime, hasRead, points,
                  readMtime, disk, nextHole>>
  BY DEF vars, queueVars, callVars, sessionVars, agdaVars, diskVars
<1>2. SessionInv'
  BY <1>1 DEF IInv, SessionInv, AsRead, Unsettled, Ids, Numbering
<1> QED BY <1>1, <1>2, CallsStay DEF callVars, diskVars

LEMMA NextKeeps ==
  ASSUME MaxOverlap = 1, WriteFlags = {TRUE} PROVE IInv /\ [Next]_vars => IInv'
<1> SUFFICES ASSUME IInv, [Next]_vars PROVE IInv'
  OBVIOUS
<1>1. ASSUME NEW c \in Calls, NEW o \in Ops, Gated(c, o) \/ RewriteSource(c, o) PROVE IInv'
  BY <1>1, GatedKeeps, RewriteSourceKeeps
<1>2. ASSUME NEW c \in Calls, NEW o \in Ops, NEW g, NEW w \in WriteFlags, Act(c, o, g, w)
      PROVE  IInv'
  BY <1>2, ActKeeps
<1>3. ASSUME NEW c \in Calls, ApplyEdit(c) \/ Load(c) \/ AgdaReads(c) PROVE IInv'
  BY <1>3, ApplyEditKeeps, LoadKeeps, AgdaReadsKeeps
<1>4. ASSUME NEW c \in Calls, Settle(c) PROVE IInv'
  BY <1>4, GiveKeeps, FallBackKeeps, SplitKeeps, SolveKeeps, MetasKeeps, ActRejectedKeeps,
     ActThrowsKeeps, LoadAnsweredKeeps, LoadFailsKeeps DEF Settle
<1>5. ASSUME NEW c \in Calls, Continue(c) \/ ReadSource(c) \/ EditFails(c) PROVE IInv'
  BY <1>5, ContinueKeeps, ReadSourceKeeps, EditFailsKeeps
<1>6. ASSUME NEW c \in Calls, WriteSource(c) \/ WriteFixity(c) PROVE IInv'
  BY <1>6, WriteSourceKeeps, WriteFixityKeeps
<1> QED BY <1>1, <1>2, <1>3, <1>4, <1>5, <1>6, BeginKeeps, ChildDiesKeeps, ExternalEditKeeps,
           StutterKeeps DEF Next

(* When calls come one at a time, and every proof tool writes what Agda    *)
(* answers, the session, Agda and the file agree once a call has returned, *)
(* unless someone else edited the file (reloadAndDiagnose,                 *)
(* applyEditAndReload): for any number of calls, edits and markers.        *)
THEOREM SessionInSync ==
  ASSUME MaxOverlap = 1, WriteFlags = {TRUE} PROVE Spec => []InSync
<1>1. Init => IInv
  BY InitInv
<1>2. IInv /\ [Next]_vars => IInv'
  BY NextKeeps
<1>3. IInv => InSync
  <2> SUFFICES ASSUME IInv, Pending = {}, loaded, readMtime = disk.mtime
               PROVE  goalIds = Ids(points) /\ points = Numbering(disk)
    BY DEF InSync
  <2>1. \A c \in Calls : ~Unsettled(c)
    BY DEF Pending, Unsettled
  <2> QED BY <2>1 DEF IInv, SessionInv, AsRead
<1> QED BY <1>1, <1>2, <1>3, PTL DEF Spec

(* Under the same conditions an edit replaces the markers of the goals     *)
(* Agda answered for, and no other, unless someone else edits the file     *)
(* between the staleness check and the read (findGoalPosition).            *)
THEOREM RightHoleReplaced ==
  ASSUME MaxOverlap = 1, WriteFlags = {TRUE} PROVE Spec => RightHole
<1> DEFINE Step == \A c \in Calls : Writes(c) /\ call[c].source.mtime = call[c].checked =>
       \A e \in Located(c, call[c].source) : \A i \in DOMAIN call[c].before :
         call[c].before[i] = e.goal => call[c].source.holes[i] = e.hole
<1>1. Init => IInv
  BY InitInv
<1>2. IInv /\ [Next]_vars => IInv'
  BY NextKeeps
<1>3. IInv => Step
  BY DEF IInv, EditInv, EditOf, EditsRight, Writes, Located
<1>4. RightHole <=> [][Step]_vars
  BY DEF RightHole
<1> HIDE DEF Step
<1> QED BY <1>1, <1>2, <1>3, <1>4, PTL DEF Spec

=============================================================================
