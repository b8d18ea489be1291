------------------------- MODULE DogfoodProxy_proofs -------------------------
(***************************************************************************)
(* What holds of the dogfood proxy for every set of calls, any number of   *)
(* requests of the server and of failing writes, and whenever it is killed.*)
(***************************************************************************)
EXTENDS DogfoodProxy, FiniteSetTheorems, TLAPS

Before == {"gate", "refused", "first", "relay", "drain", "confirm", "snapshot"}
Dead   == {"gone", "unborn"}

(* What the proxy knows of the child is true, a child that is not live has *)
(* died or was never born, and past the drain it is not live.              *)
FateInv ==
  /\ proxy \in {"gate", "refused", "first"} => server = "none"
  /\ proxy \in {"relay", "drain", "confirm", "snapshot", "flush", "stop", "exited"} => server # "none"
  /\ server \in Live \cup {"none"} => fate = "none"
  /\ server = "unborn" => fate \in {"none", "bad"}
  /\ seen \in {"none", fate}
  /\ closed => server \in Dead /\ pipe = <<>>
  /\ proxy \in {"confirm", "snapshot", "flush", "stop", "exited"} => server \notin Live
  /\ proxy \in Before => code = 1
  /\ code = 0 => server = "gone" /\ (fate = "ok" \/ (fate = "signal" /\ mine))
  /\ drained => closed
  /\ proxy \in {"gate", "refused", "first", "relay", "drain"} => ~drained

(* A request is answered once: an answer in the pipe is to a call that is  *)
(* pending and that nobody else answers.                                   *)
LineInv ==
  /\ inbox \subseteq pending
  /\ \A i \in DOMAIN pipe :
       pipe[i].kind = "response" =>
         /\ pipe[i].id \in pending \ inbox
         /\ \A j \in DOMAIN pipe : pipe[j].kind = "response" /\ j # i => pipe[j].id # pipe[i].id
  /\ told = tally
  /\ staged = tally \cap Staging

(* The reports of the chain are in the order in which they were built, what*)
(* is being written of the first was read off the tallies after what is on *)
(* disk, and only finalize makes a final one.                              *)
ChainInv ==
  /\ \A k \in DOMAIN chain :
       /\ chain[k].total >= json.total /\ chain[k].total <= Cardinality(tally)
       /\ chain[k].stage # "queued" => k = 1
       /\ chain[k].stage # "queued" =>
            /\ chain[k].text.total = chain[k].total
            /\ chain[k].text.final = chain[k].final /\ chain[k].text.dead = chain[k].dead
            /\ chain[k].text.calls \subseteq tally /\ chain[k].text.captures \subseteq staged
       /\ chain[k].stage = "json" =>
            json.calls \subseteq chain[k].text.calls /\ json.captures \subseteq chain[k].text.captures
       /\ \A j \in DOMAIN chain : k < j => chain[k].total <= chain[j].total
  /\ json.total <= Cardinality(tally) /\ json.calls \subseteq tally /\ json.captures \subseteq staged

FinalInv ==
  /\ json.final => proxy \notin Before
  /\ json.dead => server \in Dead
  /\ drained /\ json.final => /\ json.calls = tally /\ json.captures = staged
                              /\ json.total = Cardinality(tally)
  /\ \A k \in DOMAIN chain :
       /\ chain[k].final => proxy \notin Before
       /\ chain[k].dead => server \in Dead
       /\ drained /\ chain[k].final =>
            /\ chain[k].total = Cardinality(tally)
            /\ chain[k].stage # "queued" => /\ chain[k].text.calls = tally
                                            /\ chain[k].text.captures = staged
       /\ drained /\ json.final => chain[k].final
       /\ \A j \in DOMAIN chain : drained /\ k < j /\ chain[k].final => chain[j].final

IInv == TypeOK /\ FateInv /\ LineInv /\ ChainInv /\ FinalInv

-----------------------------------------------------------------------------
(* The chain.                                                              *)
LEMMA RemoveHead ==
  ASSUME NEW S, NEW s \in Seq(S), s # <<>>
  PROVE RemoveAt(s, 1) = Tail(s)
<1>1. SubSeq(s, 1, 0) = <<>> /\ SubSeq(s, 2, Len(s)) = Tail(s)
  OBVIOUS
<1>2. Tail(s) \in Seq(S) /\ <<>> \o Tail(s) = Tail(s)
  OBVIOUS
<1> QED BY <1>1, <1>2 DEF RemoveAt

LEMMA TailLemma ==
  ASSUME NEW S, NEW s \in Seq(S), s # <<>>
  PROVE /\ Tail(s) \in Seq(S)
        /\ \A k \in DOMAIN Tail(s) : /\ k \in Nat \ {0} /\ k + 1 \in DOMAIN s
                                     /\ Tail(s)[k] = s[k + 1]
  OBVIOUS

LEMMA Singleton == ASSUME NEW S, NEW e \in S PROVE <<e>> \in Seq(S)
  OBVIOUS

LEMMA AppendLemma ==
  ASSUME NEW S, NEW s \in Seq(S), NEW e \in S
  PROVE /\ Append(s, e) \in Seq(S) /\ DOMAIN Append(s, e) = 1..(Len(s) + 1)
        /\ Len(s) \in Nat /\ DOMAIN s = 1..Len(s)
        /\ \A k \in DOMAIN s : Append(s, e)[k] = s[k]
        /\ Append(s, e)[Len(s) + 1] = e
  OBVIOUS

(* The tallies are finite, so their size is a number that grows with them. *)
LEMMA TallySize ==
  ASSUME TypeOK
  PROVE /\ IsFiniteSet(tally) /\ Cardinality(tally) \in 0..Cardinality(Calls)
        /\ Cardinality(Calls) \in Nat
<1>1. tally \subseteq Calls /\ IsFiniteSet(Calls)
  BY CallsAssumption DEF TypeOK
<1>2. IsFiniteSet(tally) /\ Cardinality(tally) <= Cardinality(Calls)
  BY <1>1, FS_Subset
<1>3. Cardinality(tally) \in Nat /\ Cardinality(Calls) \in Nat
  BY <1>1, <1>2, FS_CardinalityType
<1> QED BY <1>2, <1>3

(* A snapshot, and what is read off the tallies, are of their types.       *)
LEMMA SnapshotType ==
  ASSUME TypeOK, NEW final \in BOOLEAN, NEW dead \in BOOLEAN
  PROVE Snapshot(tally, final, dead) \in Reports
<1>1. NoFile \in Files
  BY TallySize DEF NoFile, Files
<1> QED BY <1>1, TallySize DEF Snapshot, Reports

LEMMA SerialisedType ==
  ASSUME TypeOK, NEW report \in Reports
  PROVE /\ Serialised(report) \in Files
        /\ Serialised(report).total = report.total /\ Serialised(report).final = report.final
        /\ Serialised(report).dead = report.dead
        /\ Serialised(report).calls = tally /\ Serialised(report).captures = staged
<1>1. tally \in SUBSET Calls /\ staged \in SUBSET Calls
  BY DEF TypeOK
<1> QED BY <1>1 DEF Serialised, Files, Reports

(* What a step of a write changes: it is the first report's.               *)
Read(stage) == /\ chain' = [chain EXCEPT ![1] = [chain[1] EXCEPT !.stage = stage,
                                                                !.text = Serialised(chain[1])]]

LEMMA WriteLemma ==
  ASSUME TypeOK, WriteStep
  PROVE /\ chain # <<>> /\ 1 \in DOMAIN chain /\ chain[1] \in Reports
        /\ UNCHANGED <<proxy, agent, server, fate, inbox, seen, closed, failed, mine, slain, drained>>
        /\ UNCHANGED <<code, pending, tally, staged, told, pipe, asks>>
        /\ \/ /\ chain[1].stage = "queued" /\ Read("json") /\ UNCHANGED <<json, md, faults>>
           \/ /\ chain[1].stage = "json" /\ Read("md") /\ json' = chain[1].text
              /\ UNCHANGED <<md, faults>>
           \/ /\ chain[1].stage = "md" /\ md' = chain[1].text /\ chain' = Tail(chain)
              /\ UNCHANGED <<json, faults>>
           \/ /\ chain' = Tail(chain) /\ UNCHANGED <<json, md>>
              /\ faults < MaxFault /\ faults' = faults + 1
<1>1. PICK k \in DOMAIN chain : BeginWrite(k) \/ EndJson(k) \/ EndMarkdown(k) \/ FailWrite(k)
  BY DEF WriteStep
<1>2. k = 1
  BY <1>1 DEF BeginWrite, EndJson, EndMarkdown, FailWrite, Due
<1>3. chain \in Seq(Reports) /\ chain # <<>> /\ 1 \in DOMAIN chain /\ chain[1] \in Reports
  BY <1>1, <1>2 DEF TypeOK
<1>4. RemoveAt(chain, 1) = Tail(chain)
  BY <1>3, RemoveHead
<1>5. UNCHANGED <<agent, child, seen, closed, ending, recorder, pipe, asks>> /\ UNCHANGED proxy
  BY DEF WriteStep
<1>6. /\ UNCHANGED <<proxy, agent, server, fate, inbox, seen, closed, failed, mine, slain, drained>>
      /\ UNCHANGED <<code, pending, tally, staged, told, pipe, asks>>
  BY <1>5 DEF child, ending, recorder
<1>7. CASE BeginWrite(1)
  BY <1>3, <1>6, <1>7 DEF BeginWrite, Read, disk
<1>8. CASE EndJson(1)
  BY <1>3, <1>6, <1>8 DEF EndJson, Read
<1>9. CASE EndMarkdown(1)
  BY <1>3, <1>4, <1>6, <1>9 DEF EndMarkdown
<1>10. CASE FailWrite(1)
  BY <1>3, <1>4, <1>6, <1>10 DEF FailWrite, disk
<1> QED BY <1>1, <1>2, <1>7, <1>8, <1>9, <1>10

(* The first report while it is written.                                   *)
LEMMA ReadLemma ==
  ASSUME TypeOK, chain # <<>>, NEW stage \in {"json", "md"}, Read(stage)
  PROVE /\ chain' \in Seq(Reports) /\ DOMAIN chain' = DOMAIN chain
        /\ 1 \in DOMAIN chain
        /\ \A k \in DOMAIN chain : k # 1 => chain'[k] = chain[k]
        /\ chain'[1].stage = stage /\ chain'[1].total = chain[1].total
        /\ chain'[1].final = chain[1].final /\ chain'[1].dead = chain[1].dead
        /\ chain'[1].text = Serialised(chain[1])
<1> DEFINE r == [chain[1] EXCEPT !.stage = stage, !.text = Serialised(chain[1])]
<1>1. chain \in Seq(Reports) /\ 1 \in DOMAIN chain /\ chain[1] \in Reports
  BY DEF TypeOK
<1>2. Serialised(chain[1]) \in Files
  BY <1>1, SerialisedType
<1>3. /\ r \in Reports /\ r.stage = stage /\ r.total = chain[1].total /\ r.final = chain[1].final
      /\ r.dead = chain[1].dead /\ r.text = Serialised(chain[1])
  BY <1>1, <1>2 DEF Reports
<1>4. chain' = [chain EXCEPT ![1] = r]
  BY DEF Read
<1> HIDE DEF r
<1>5. chain' \in Seq(Reports) /\ DOMAIN chain' = DOMAIN chain /\ chain'[1] = r
      /\ \A k \in DOMAIN chain : k # 1 => chain'[k] = chain[k]
  BY <1>1, <1>3, <1>4
<1> QED BY <1>1, <1>3, <1>5

-----------------------------------------------------------------------------
(* Types.                                                                  *)
LEMMA TypeStep == ASSUME TypeOK, [Next]_vars PROVE TypeOK'
<1> USE DEF TypeOK
<1>1. CASE OpenRun
  <2>1. Snapshot(tally, FALSE, FALSE) \in Reports
    BY SnapshotType
  <2>2. chain' \in Seq(Reports)
    <3>1. chain' = chain \/ chain' = <<Snapshot(tally, FALSE, FALSE)>>
      BY <1>1, Zenon DEF OpenRun
    <3>2. chain \in Seq(Reports)
      OBVIOUS
    <3>3. chain' = chain => chain' \in Seq(Reports)
      BY <3>2
    <3>4. chain' = <<Snapshot(tally, FALSE, FALSE)>> => chain' \in Seq(Reports)
      BY <2>1, Singleton, Zenon
    <3> QED BY <3>1, <3>3, <3>4, Zenon
  <2>3. /\ proxy' \in {"refused", "first"}
        /\ UNCHANGED <<agent, child, seen, closed, ending, recorder, pipe, disk, asks, faults>>
    BY <1>1 DEF OpenRun
  <2> QED BY <2>2, <2>3 DEF child, ending, recorder, disk
<1>2. CASE Spawn
  <2>1. /\ server' \in Live \cup {"unborn"} /\ fate' \in Ends \cup {"none"}
        /\ seen' \in Ends \cup {"none"} /\ proxy' = "relay"
    BY <1>2 DEF Spawn, Ends
  <2>2. UNCHANGED <<agent, inbox, closed, ending, recorder, pipe, chain, disk, asks, faults>>
    BY <1>2 DEF Spawn
  <2> QED BY <2>1, <2>2 DEF ending, recorder, disk
<1>3. ASSUME NEW c \in Calls, AgentCalls(c) PROVE TypeOK'
  <2>1. pending' \in SUBSET Calls /\ inbox' \in SUBSET Calls
    BY <1>3 DEF AgentCalls
  <2> QED BY <1>3, <2>1 DEF AgentCalls, ending, disk
<1>4. ASSUME NEW line \in Lines, pipe' = Append(pipe, line) PROVE pipe' \in Seq(Lines)
  BY <1>4
<1>5. ASSUME NEW c \in Calls, ServerAnswers(c) PROVE TypeOK'
  <2>1. [kind |-> "response", id |-> c] \in Lines
    BY DEF Lines
  <2>2. pipe' \in Seq(Lines)
    BY <1>4, <1>5, <2>1 DEF ServerAnswers
  <2> QED BY <1>5, <2>2 DEF ServerAnswers, ending, recorder, disk
<1>6. ASSUME NEW c \in Calls, ServerAsks(c) PROVE TypeOK'
  <2>1. [kind |-> "request", id |-> c] \in Lines
    BY DEF Lines
  <2>2. pipe' \in Seq(Lines)
    BY <1>4, <1>6, <2>1 DEF ServerAsks
  <2>3. asks' \in 0..MaxAsks
    BY <1>6, BoundsAssumption DEF ServerAsks
  <2> QED BY <1>6, <2>2, <2>3 DEF ServerAsks, child, ending, recorder, disk
<1>7. CASE FromServer
  <2>1. Head(pipe) \in Lines /\ pipe' \in Seq(Lines)
    BY <1>7 DEF FromServer
  <2>2. Head(pipe).id \in Calls
    BY <2>1 DEF Lines
  <2>3. told' \in SUBSET Calls
    BY <1>7, <2>2 DEF FromServer
  <2>4. UNCHANGED <<proxy, agent, child, seen, closed, ending, disk, asks, faults>>
    BY <1>7 DEF FromServer
  <2>5. CASE Answers(Head(pipe))
    <3>1. /\ pending' = pending \ {Head(pipe).id} /\ tally' = tally \cup {Head(pipe).id}
          /\ staged' = staged \cup ({Head(pipe).id} \cap Staging)
          /\ chain' = Append(chain, Snapshot(tally', FALSE, FALSE))
      BY <1>7, <2>5 DEF FromServer
    <3>2. pending' \in SUBSET Calls /\ tally' \in SUBSET Calls /\ staged' \in SUBSET Calls
      BY <2>2, <3>1
    <3>3. Cardinality(tally') \in 0..Cardinality(Calls)
      <4>1. IsFiniteSet(Calls) /\ tally' \subseteq Calls
        BY <3>2, CallsAssumption
      <4>2. IsFiniteSet(tally') /\ Cardinality(tally') <= Cardinality(Calls)
        BY <4>1, FS_Subset
      <4> QED BY <4>1, <4>2, FS_CardinalityType
    <3>4. NoFile \in Files
      BY TallySize DEF NoFile, Files
    <3>5. Snapshot(tally', FALSE, FALSE) \in Reports
      BY <3>3, <3>4 DEF Snapshot, Reports
    <3>6. chain' \in Seq(Reports)
      <4>1. chain \in Seq(Reports)
        OBVIOUS
      <4> QED BY <3>1, <3>5, <4>1, AppendLemma, Zenon
    <3>7. UNCHANGED <<proxy, agent, server, fate, inbox, seen, closed, failed, mine, slain,
                      drained, code, json, md, asks, faults>>
      BY <2>4 DEF child, ending, disk
    <3> QED BY <2>1, <2>3, <3>2, <3>6, <3>7
  <2>6. CASE ~Answers(Head(pipe))
    <3>1. UNCHANGED <<pending, tally, staged, chain>>
      BY <1>7, <2>6 DEF FromServer
    <3> QED BY <2>1, <2>3, <2>4, <3>1 DEF child, ending, disk
  <2> QED BY <2>5, <2>6
<1>8. CASE ServerEnds
  <2>1. server' = "gone" /\ fate' \in Ends /\ inbox' = {}
    BY <1>8 DEF ServerEnds, Dies
  <2> QED BY <1>8, <2>1 DEF ServerEnds, ending, recorder, disk
<1>9. CASE ObserveExit \/ StdoutCloses \/ AgentLeaves \/ Killed
  BY <1>9 DEF ObserveExit, StdoutCloses, AgentLeaves, Killed, child, ending, recorder, disk
<1>10. ASSUME NEW e \in BOOLEAN, NEW g \in BOOLEAN, Finalize(e, g) PROVE TypeOK'
  <2>1. \/ UNCHANGED child
        \/ server' = "gone" /\ fate' \in Ends /\ inbox' = {}
    BY <1>10 DEF Finalize, Dies, Ends
  <2>2. server' \in Live \cup {"none", "gone", "unborn"} /\ fate' \in Ends \cup {"none"}
        /\ inbox' \in SUBSET Calls
    BY <2>1 DEF child
  <2>3. failed' \in BOOLEAN /\ mine' \in BOOLEAN /\ proxy' = "drain"
    BY <1>10 DEF Finalize
  <2>4. UNCHANGED <<agent, seen, closed, slain, drained, code, recorder, pipe, chain, disk, asks, faults>>
    BY <1>10 DEF Finalize
  <2> QED BY <2>2, <2>3, <2>4 DEF recorder, disk
<1>11. CASE Drained
  BY <1>11 DEF Drained, child, recorder, disk
<1>12. CASE DrainTimeout
  <2>1. \/ UNCHANGED child
        \/ server' = "gone" /\ fate' = "signal" /\ inbox' = {}
    BY <1>12 DEF DrainTimeout, Dies
  <2>2. server' \in Live \cup {"none", "gone", "unborn"} /\ fate' \in Ends \cup {"none"}
        /\ inbox' \in SUBSET Calls
    BY <2>1 DEF child, Ends
  <2>3. slain' \in BOOLEAN /\ proxy' = "confirm"
    BY <1>12 DEF DrainTimeout
  <2>4. UNCHANGED <<agent, seen, closed, failed, mine, drained, code, recorder, pipe, chain, disk, asks, faults>>
    BY <1>12 DEF DrainTimeout
  <2> QED BY <2>2, <2>3, <2>4 DEF recorder, disk
<1>13. CASE Confirm \/ Flushed \/ Exit
  BY <1>13 DEF Confirm, Flushed, Exit, child, ending, recorder, disk
<1>14. CASE FinalReport
  <2>1. Snapshot(tally, TRUE, seen # "none") \in Reports
    BY SnapshotType
  <2>2. chain' \in Seq(Reports)
    <3>1. chain' = Append(chain, Snapshot(tally, TRUE, seen # "none"))
      BY <1>14 DEF FinalReport
    <3>2. chain \in Seq(Reports)
      OBVIOUS
    <3> QED BY <2>1, <3>1, <3>2, AppendLemma, Zenon
  <2>3. code' \in {0, 1} /\ proxy' = "flush"
    BY <1>14 DEF FinalReport, ExitCode
  <2>4. UNCHANGED <<agent, child, seen, closed, failed, mine, slain, drained, recorder, pipe, disk, asks, faults>>
    BY <1>14 DEF FinalReport
  <2> QED BY <2>2, <2>3, <2>4 DEF child, recorder, disk
<1>15. CASE WriteStep
  <2>1. \A stage \in {"json", "md"} : Read(stage) => chain' \in Seq(Reports)
    BY <1>15, WriteLemma, ReadLemma
  <2>2. chain # <<>> => Tail(chain) \in Seq(Reports)
    BY TailLemma
  <2>3. chain' \in Seq(Reports)
    BY <1>15, <2>1, <2>2, WriteLemma
  <2>4. chain[1].text \in Files
    BY <1>15, WriteLemma DEF Reports
  <2>5. json' \in Files /\ md' \in Files /\ faults' \in 0..MaxFault
    BY <1>15, <2>4, WriteLemma, BoundsAssumption
  <2> QED BY <1>15, <2>3, <2>5, WriteLemma
<1>16. CASE UNCHANGED vars
  BY <1>16 DEF vars
<1> QED
  BY <1>1, <1>2, <1>3, <1>5, <1>6, <1>7, <1>8, <1>9, <1>10, <1>11, <1>12, <1>13, <1>14, <1>15,
     <1>16 DEF Next, FinalStep

-----------------------------------------------------------------------------
(* The fate of the child.                                                  *)
LEMMA FateStable == ASSUME TypeOK, FateInv, [Next]_vars PROVE FateInv'
<1> USE DEF FateInv, Live, Dead, Before
<1>0. /\ server \in {"up", "deaf", "none", "gone", "unborn"}
      /\ fate \in {"ok", "bad", "signal", "none"} /\ seen \in {"ok", "bad", "signal", "none"}
      /\ mine \in BOOLEAN /\ code \in {0, 1}
      /\ proxy \in {"gate", "refused", "first", "relay", "drain", "confirm", "snapshot",
                    "flush", "stop", "exited", "killed"}
  BY DEF TypeOK, Ends
<1>1. CASE OpenRun
  BY <1>1 DEF OpenRun, child, ending, recorder
<1>2. CASE Spawn
  BY <1>0, <1>2 DEF Spawn, ending, recorder
<1>3. ASSUME UNCHANGED <<proxy, server, fate, seen, closed, mine, drained, code>>,
             closed => pipe' = pipe
      PROVE FateInv'
  BY <1>3
<1>4. ASSUME NEW c \in Calls, AgentCalls(c) \/ ServerAnswers(c) \/ ServerAsks(c) PROVE FateInv'
  BY <1>3, <1>4 DEF AgentCalls, ServerAnswers, ServerAsks, child, ending, recorder
<1>5. CASE FromServer
  BY <1>3, <1>5 DEF FromServer, child, ending
<1>6. CASE ServerEnds
  BY <1>0, <1>6 DEF ServerEnds, Dies, Ends, Watching, Alive, ending, recorder
<1>7. CASE ObserveExit
  BY <1>0, <1>7 DEF ObserveExit, Watching, Alive, child, ending, recorder
<1>8. CASE StdoutCloses
  BY <1>0, <1>8 DEF StdoutCloses, Watching, Alive, child, ending, recorder
<1>9. CASE AgentLeaves
  BY <1>3, <1>9 DEF AgentLeaves, child, ending, recorder
<1>10. CASE Killed
  BY <1>0, <1>10 DEF Killed, Alive, child, ending, recorder
<1>11. ASSUME NEW e \in BOOLEAN, NEW g \in BOOLEAN, Finalize(e, g) PROVE FateInv'
  BY <1>0, <1>11 DEF Finalize, Dies, child, recorder
<1>12. CASE Drained
  BY <1>0, <1>12 DEF Drained, child, recorder
<1>13. CASE DrainTimeout
  BY <1>0, <1>13 DEF DrainTimeout, Dies, child, recorder
<1>14. CASE Confirm \/ Flushed \/ Exit
  BY <1>0, <1>14 DEF Confirm, Flushed, Exit, child, ending, recorder
<1>15. CASE FinalReport
  BY <1>0, <1>15 DEF FinalReport, ExitCode, child, recorder
<1>16. CASE WriteStep
  BY <1>3, <1>16, WriteLemma
<1>17. CASE UNCHANGED vars
  BY <1>3, <1>17 DEF vars
<1> QED
  BY <1>1, <1>2, <1>4, <1>5, <1>6, <1>7, <1>8, <1>9, <1>10, <1>11, <1>12, <1>13, <1>14, <1>15,
     <1>16, <1>17 DEF Next, FinalStep

(* The lines between the agent and the server.                             *)
LEMMA LineStable == ASSUME TypeOK, LineInv, [Next]_vars PROVE LineInv'
<1> USE DEF LineInv
<1>0. pipe \in Seq(Lines)
  BY DEF TypeOK
<1>1. ASSUME UNCHANGED <<pending, tally, staged, told, pipe>>, inbox' \subseteq inbox
      PROVE LineInv'
  BY <1>1
<1>2. CASE OpenRun \/ Spawn \/ ServerEnds \/ ObserveExit \/ StdoutCloses \/ AgentLeaves \/ Killed
  BY <1>1, <1>2 DEF OpenRun, Spawn, ServerEnds, Dies, ObserveExit, StdoutCloses, AgentLeaves, Killed,
     child, recorder
<1>3. ASSUME NEW e \in BOOLEAN, NEW g \in BOOLEAN, Finalize(e, g) PROVE LineInv'
  BY <1>1, <1>3 DEF Finalize, Dies, child, recorder
<1>4. CASE FinalStep
  BY <1>1, <1>4 DEF FinalStep, Drained, DrainTimeout, Dies, Confirm, FinalReport, Flushed, Exit,
     child, recorder
<1>5. CASE WriteStep \/ UNCHANGED vars
  BY <1>1, <1>5, WriteLemma DEF vars
<1>6. ASSUME NEW c \in Calls, AgentCalls(c) PROVE LineInv'
  <2>1. /\ pending' = pending \cup {c} /\ inbox' \subseteq inbox \cup {c}
        /\ UNCHANGED <<tally, staged, told, pipe>>
    BY <1>6 DEF AgentCalls
  <2>2. \A i \in DOMAIN pipe : pipe[i].id # c
    BY <1>6 DEF AgentCalls, ToSet
  <2> QED BY <2>1, <2>2
<1>7. ASSUME NEW line \in Lines, pipe' = Append(pipe, line)
      PROVE /\ DOMAIN pipe' = 1..(Len(pipe) + 1) /\ DOMAIN pipe = 1..Len(pipe) /\ Len(pipe) \in Nat
            /\ \A i \in DOMAIN pipe : pipe'[i] = pipe[i]
            /\ pipe'[Len(pipe) + 1] = line
  BY <1>0, <1>7
<1>8. ASSUME NEW c \in Calls, ServerAnswers(c) PROVE LineInv'
  <2> DEFINE line == [kind |-> "response", id |-> c]
  <2>1. line \in Lines /\ line.kind = "response" /\ line.id = c
    BY DEF Lines
  <2>2. /\ c \in inbox /\ inbox' = inbox \ {c} /\ pipe' = Append(pipe, line)
        /\ UNCHANGED <<pending, tally, staged, told>>
    BY <1>8 DEF ServerAnswers, recorder
  <2> HIDE DEF line
  <2> QED BY <1>7, <2>1, <2>2
<1>9. ASSUME NEW c \in Calls, ServerAsks(c) PROVE LineInv'
  <2> DEFINE line == [kind |-> "request", id |-> c]
  <2>1. line \in Lines /\ line.kind = "request"
    BY DEF Lines
  <2>2. pipe' = Append(pipe, line) /\ UNCHANGED <<inbox, pending, tally, staged, told>>
    BY <1>9 DEF ServerAsks, recorder, child
  <2> HIDE DEF line
  <2> QED BY <1>7, <2>1, <2>2
<1>10. CASE FromServer
  <2>1. pipe # <<>> /\ pipe' = Tail(pipe) /\ UNCHANGED inbox
    BY <1>10 DEF FromServer, child
  <2>2. 1 \in DOMAIN pipe /\ Head(pipe) = pipe[1]
    BY <1>0, <2>1
  <2>3. \A i \in DOMAIN pipe' : i \in Nat \ {0} /\ i + 1 \in DOMAIN pipe /\ pipe'[i] = pipe[i + 1]
    BY <1>0, <2>1, TailLemma
  <2>4. CASE Head(pipe).kind = "response"
    <3>1. Answers(Head(pipe))
      BY <2>2, <2>4 DEF Answers
    <3>2. /\ pending' = pending \ {Head(pipe).id} /\ tally' = tally \cup {Head(pipe).id}
          /\ staged' = staged \cup ({Head(pipe).id} \cap Staging)
          /\ told' = told \cup {Head(pipe).id}
      BY <1>10, <2>4, <3>1 DEF FromServer
    <3>3. \A i \in DOMAIN pipe' : pipe'[i].kind = "response" => pipe'[i].id # Head(pipe).id
      BY <2>2, <2>3, <2>4
    <3>4. \A i \in DOMAIN pipe' : \A j \in DOMAIN pipe' : i # j => i + 1 # j + 1
      BY <2>3
    <3>5. ASSUME NEW i \in DOMAIN pipe', pipe'[i].kind = "response"
          PROVE /\ pipe'[i].id \in pending' \ inbox'
                /\ \A j \in DOMAIN pipe' : pipe'[j].kind = "response" /\ j # i => pipe'[j].id # pipe'[i].id
      <4>1. i + 1 \in DOMAIN pipe /\ pipe[i + 1] = pipe'[i]
        BY <2>3
      <4>2. pipe[i + 1].id \in pending \ inbox
        BY <3>5, <4>1
      <4>3. pipe'[i].id \in pending' \ inbox'
        BY <2>1, <3>2, <3>3, <3>5, <4>1, <4>2
      <4>4. ASSUME NEW j \in DOMAIN pipe', pipe'[j].kind = "response", j # i
            PROVE pipe'[j].id # pipe'[i].id
        <5>1. j + 1 \in DOMAIN pipe /\ pipe[j + 1] = pipe'[j] /\ j + 1 # i + 1
          BY <2>3, <3>4, <4>4
        <5> QED BY <3>5, <4>1, <4>4, <5>1
      <4> QED BY <4>3, <4>4
    <3>6. inbox' \subseteq pending'
      BY <2>1, <2>2, <2>4, <3>2
    <3> QED BY <3>2, <3>5, <3>6
  <2>5. CASE Head(pipe).kind # "response"
    <3>1. UNCHANGED <<pending, tally, staged, told>>
      BY <1>10, <2>5 DEF FromServer, Answers
    <3>2. \A i \in DOMAIN pipe' : \A j \in DOMAIN pipe' : i # j => i + 1 # j + 1
      BY <2>3
    <3> QED BY <2>1, <2>3, <3>1, <3>2
  <2> QED BY <2>4, <2>5
<1> QED BY <1>2, <1>3, <1>4, <1>5, <1>6, <1>8, <1>9, <1>10 DEF Next

-----------------------------------------------------------------------------
(* The reports.                                                            *)

(* A report is appended to the chain, with the tallies as they are then.   *)
Builds(final, dead) == /\ chain' = Append(chain, Snapshot(tally', final, dead))
                       /\ UNCHANGED json
                       /\ tally \subseteq tally' /\ staged \subseteq staged'
                       /\ Cardinality(tally) <= Cardinality(tally')
                       /\ Cardinality(tally') \in 0..Cardinality(Calls)

LEMMA BuildsLemma ==
  ASSUME TypeOK, NEW final \in BOOLEAN, NEW dead \in BOOLEAN, Builds(final, dead)
  PROVE /\ DOMAIN chain' = 1..(Len(chain) + 1) /\ DOMAIN chain = 1..Len(chain) /\ Len(chain) \in Nat
        /\ \A k \in DOMAIN chain : chain'[k] = chain[k]
        /\ chain'[Len(chain) + 1].total = Cardinality(tally')
        /\ chain'[Len(chain) + 1].final = final /\ chain'[Len(chain) + 1].dead = dead
        /\ chain'[Len(chain) + 1].stage = "queued"
<1> DEFINE r == Snapshot(tally', final, dead)
<1>1. NoFile \in Files
  BY TallySize DEF NoFile, Files
<1>2. /\ r \in Reports /\ r.total = Cardinality(tally') /\ r.final = final /\ r.dead = dead
      /\ r.stage = "queued"
  BY <1>1 DEF Snapshot, Reports, Builds
<1>3. chain \in Seq(Reports)
  BY DEF TypeOK
<1>4. chain' = Append(chain, r)
  BY DEF Builds
<1> HIDE DEF r
<1>5. /\ DOMAIN chain' = 1..(Len(chain) + 1) /\ DOMAIN chain = 1..Len(chain) /\ Len(chain) \in Nat
      /\ \A k \in DOMAIN chain : chain'[k] = chain[k]
      /\ chain'[Len(chain) + 1] = r
  BY <1>2, <1>3, <1>4, AppendLemma
<1> QED BY <1>2, <1>5

LEMMA AnswerBuilds ==
  ASSUME TypeOK, FromServer
  PROVE \/ Answers(Head(pipe)) /\ Builds(FALSE, FALSE)
        \/ UNCHANGED <<tally, staged, chain, json>>
<1>1. UNCHANGED json
  BY DEF FromServer, disk
<1>2. CASE Answers(Head(pipe))
  <2>1. /\ tally' = tally \cup {Head(pipe).id} /\ staged' = staged \cup ({Head(pipe).id} \cap Staging)
        /\ chain' = Append(chain, Snapshot(tally', FALSE, FALSE))
    BY <1>2 DEF FromServer
  <2>2. tally' \subseteq Calls /\ IsFiniteSet(Calls)
    <3>1. pipe \in Seq(Lines) /\ pipe # <<>> /\ tally \in SUBSET Calls
      BY DEF TypeOK, FromServer
    <3>2. Head(pipe) \in Lines
      BY <3>1
    <3>3. Head(pipe).id \in Calls
      BY <3>2 DEF Lines
    <3> QED BY <2>1, <3>1, <3>3, CallsAssumption
  <2>3. IsFiniteSet(tally') /\ Cardinality(tally') <= Cardinality(Calls)
    BY <2>2, FS_Subset
  <2>4. Cardinality(tally) <= Cardinality(tally')
    BY <2>1, <2>3, FS_Subset
  <2>5. Cardinality(tally') \in Nat /\ Cardinality(Calls) \in Nat
    BY <2>2, <2>3, FS_CardinalityType
  <2>6. Cardinality(tally') \in 0..Cardinality(Calls)
    BY <2>3, <2>5
  <2>7. tally \subseteq tally' /\ staged \subseteq staged'
    BY <2>1
  <2>8. Builds(FALSE, FALSE)
    BY <1>1, <2>1, <2>4, <2>6, <2>7, Zenon DEF Builds
  <2> QED BY <1>2, <2>8
<1>3. CASE ~Answers(Head(pipe))
  BY <1>1, <1>3 DEF FromServer
<1> QED BY <1>2, <1>3

LEMMA FinalBuilds ==
  ASSUME TypeOK, FinalReport
  PROVE UNCHANGED <<tally, staged>> /\ Builds(TRUE, seen # "none")
<1>1. UNCHANGED <<tally, staged, json>> /\ chain' = Append(chain, Snapshot(tally, TRUE, seen # "none"))
  BY DEF FinalReport, recorder, disk
<1> QED BY <1>1, TallySize DEF Builds

(* The steps that touch neither the reports nor what they report.          *)
Elsewhere == UNCHANGED <<json, chain, tally, staged>>

LEMMA ElsewhereLemma ==
  ASSUME TypeOK, [Next]_vars
  PROVE OpenRun \/ FromServer \/ FinalReport \/ WriteStep \/ Elsewhere
<1> USE DEF Elsewhere, recorder, disk
<1>1. ASSUME NEW c \in Calls, AgentCalls(c) \/ ServerAnswers(c) \/ ServerAsks(c) PROVE Elsewhere
  BY <1>1 DEF AgentCalls, ServerAnswers, ServerAsks
<1>2. ASSUME NEW e \in BOOLEAN, NEW g \in BOOLEAN, Finalize(e, g) PROVE Elsewhere
  BY <1>2 DEF Finalize
<1>3. CASE Spawn \/ ObserveExit \/ StdoutCloses \/ ServerEnds \/ AgentLeaves \/ Killed
  BY <1>3 DEF Spawn, ObserveExit, StdoutCloses, ServerEnds, AgentLeaves, Killed
<1>4. CASE Drained \/ DrainTimeout \/ Confirm \/ Flushed \/ Exit
  BY <1>4 DEF Drained, DrainTimeout, Confirm, Flushed, Exit
<1>5. CASE UNCHANGED vars
  BY <1>5 DEF vars
<1> QED BY <1>1, <1>2, <1>3, <1>4, <1>5 DEF Next, FinalStep

LEMMA OpenLemma ==
  ASSUME TypeOK, OpenRun
  PROVE /\ UNCHANGED <<json, tally, staged, server, drained>> /\ proxy' \in {"refused", "first"}
        /\ proxy = "gate"
        /\ \/ chain' = chain
           \/ /\ DOMAIN chain' = {1} /\ chain'[1].total = Cardinality(tally)
              /\ ~chain'[1].final /\ ~chain'[1].dead /\ chain'[1].stage = "queued"
<1>1. UNCHANGED <<json, tally, staged, server, drained>> /\ proxy' \in {"refused", "first"}
      /\ proxy = "gate"
  BY DEF OpenRun, recorder, disk, child, ending
<1>2. chain' = chain \/ chain' = <<Snapshot(tally, FALSE, FALSE)>>
  BY Zenon DEF OpenRun
<1> QED BY <1>1, <1>2 DEF Snapshot

LEMMA ReportTypes ==
  ASSUME TypeOK
  PROVE /\ chain \in Seq(Reports) /\ \A k \in DOMAIN chain : k \in Nat \ {0} /\ chain[k].total \in Nat
        /\ json.total \in Nat /\ Cardinality(tally) \in Nat
<1>1. chain \in Seq(Reports) /\ json \in Files /\ Cardinality(Calls) \in Nat
  BY TallySize DEF TypeOK
<1>2. \A k \in DOMAIN chain : k \in Nat \ {0} /\ chain[k] \in Reports
  BY <1>1
<1> QED BY <1>1, <1>2, TallySize DEF Reports, Files

LEMMA ChainStable == ASSUME TypeOK, ChainInv, [Next]_vars PROVE ChainInv'
<1>0. TypeOK'
  BY TypeStep
<1>1. CASE Elsewhere
  BY <1>1 DEF ChainInv, Elsewhere
<1>2. CASE OpenRun
  BY <1>2, OpenLemma, ReportTypes DEF ChainInv
<1>3. ASSUME NEW final \in BOOLEAN, NEW dead \in BOOLEAN, Builds(final, dead) PROVE ChainInv'
  <2>1. /\ DOMAIN chain' = 1..(Len(chain) + 1) /\ DOMAIN chain = 1..Len(chain) /\ Len(chain) \in Nat
        /\ \A k \in DOMAIN chain : chain'[k] = chain[k]
        /\ chain'[Len(chain) + 1].total = Cardinality(tally')
        /\ chain'[Len(chain) + 1].stage = "queued"
    BY <1>3, BuildsLemma
  <2>2. /\ UNCHANGED json /\ tally \subseteq tally' /\ staged \subseteq staged'
        /\ Cardinality(tally) <= Cardinality(tally') /\ Cardinality(tally') \in Nat
    BY <1>3, TallySize DEF Builds
  <2>3. /\ json.total <= Cardinality(tally)
        /\ \A k \in DOMAIN chain : chain[k].total <= Cardinality(tally)
    BY DEF ChainInv
  <2>4. json'.total <= Cardinality(tally')
        /\ \A k \in DOMAIN chain : chain'[k].total <= Cardinality(tally')
    BY <2>1, <2>2, <2>3, ReportTypes
  <2>5. ASSUME NEW k \in DOMAIN chain', NEW j \in DOMAIN chain', k < j
        PROVE chain'[k].total <= chain'[j].total
    <3>1. k \in DOMAIN chain
      BY <2>1, <2>5
    <3>2. CASE j = Len(chain) + 1
      BY <2>1, <2>4, <3>1, <3>2
    <3>3. CASE j \in DOMAIN chain
      <4>1. chain[k].total <= chain[j].total
        BY <2>5, <3>1, <3>3 DEF ChainInv
      <4> QED BY <2>1, <3>1, <3>3, <4>1
    <3> QED BY <2>1, <3>2, <3>3
  <2>6. ASSUME NEW k \in DOMAIN chain'
        PROVE /\ chain'[k].total >= json'.total /\ chain'[k].total <= Cardinality(tally')
              /\ chain'[k].stage # "queued" => k = 1
              /\ chain'[k].stage # "queued" =>
                   /\ chain'[k].text.total = chain'[k].total
                   /\ chain'[k].text.final = chain'[k].final /\ chain'[k].text.dead = chain'[k].dead
                   /\ chain'[k].text.calls \subseteq tally' /\ chain'[k].text.captures \subseteq staged'
              /\ chain'[k].stage = "json" =>
                   /\ json'.calls \subseteq chain'[k].text.calls
                   /\ json'.captures \subseteq chain'[k].text.captures
    <3>1. CASE k \in DOMAIN chain
      BY <2>1, <2>2, <2>4, <3>1 DEF ChainInv
    <3>2. CASE k = Len(chain) + 1
      BY <2>1, <2>2, <2>4, <3>2, ReportTypes
    <3> QED BY <2>1, <3>1, <3>2
  <2>7. json'.calls \subseteq tally' /\ json'.captures \subseteq staged'
    BY <2>2 DEF ChainInv
  <2> QED BY <2>4, <2>5, <2>6, <2>7 DEF ChainInv
<1>4. CASE FromServer
  BY <1>1, <1>3, <1>4, AnswerBuilds DEF Elsewhere
<1>5. CASE FinalReport
  BY <1>3, <1>5, FinalBuilds
<1>6. CASE WriteStep
  <2>1. chain # <<>> /\ 1 \in DOMAIN chain /\ chain[1] \in Reports /\ UNCHANGED <<tally, staged>>
    BY <1>6, WriteLemma
  <2>2. /\ Serialised(chain[1]).total = chain[1].total /\ Serialised(chain[1]).final = chain[1].final
        /\ Serialised(chain[1]).dead = chain[1].dead
        /\ Serialised(chain[1]).calls = tally /\ Serialised(chain[1]).captures = staged
    BY <2>1, SerialisedType
  <2>3. CASE chain[1].stage = "queued" /\ Read("json") /\ UNCHANGED json
    <3>1. /\ DOMAIN chain' = DOMAIN chain /\ \A k \in DOMAIN chain : k # 1 => chain'[k] = chain[k]
          /\ chain'[1].stage = "json" /\ chain'[1].total = chain[1].total
          /\ chain'[1].final = chain[1].final /\ chain'[1].dead = chain[1].dead
          /\ chain'[1].text = Serialised(chain[1])
      <4>1. "json" \in {"json", "md"}
        OBVIOUS
      <4> QED BY <2>1, <2>3, <4>1, ReadLemma, Zenon
    <3>2. \A k \in DOMAIN chain : chain'[k].total = chain[k].total
      BY <3>1
    <3>3. /\ chain'[1].text.total = chain'[1].total /\ chain'[1].text.final = chain'[1].final
          /\ chain'[1].text.dead = chain'[1].dead
          /\ chain'[1].text.calls = tally /\ chain'[1].text.captures = staged
      BY <2>2, <3>1
    <3>4. \A k \in DOMAIN chain : k # 1 => chain'[k].stage = "queued"
      BY <3>1 DEF ChainInv
    <3> QED BY <2>1, <2>3, <3>1, <3>2, <3>3, <3>4 DEF ChainInv
  <2>4. CASE chain[1].stage = "json" /\ Read("md") /\ json' = chain[1].text
    <3>1. /\ json'.total = chain[1].total /\ json'.calls \subseteq tally
          /\ json'.captures \subseteq staged
      BY <2>1, <2>4 DEF ChainInv
    <3>2. \A k \in DOMAIN chain : chain[k].total >= chain[1].total
      BY <2>1, ReportTypes DEF ChainInv
    <3> QED BY <2>1, <2>2, <2>4, <3>1, <3>2, ReadLemma DEF ChainInv
  <2>5. CASE chain' = Tail(chain) /\ UNCHANGED json
    <3>1. \A k \in DOMAIN chain' : k \in Nat \ {0} /\ k + 1 \in DOMAIN chain /\ chain'[k] = chain[k + 1]
      BY <2>1, <2>5, TailLemma, ReportTypes
    <3>2. \A k \in DOMAIN chain' : chain'[k].stage = "queued"
      <4>1. \A k \in DOMAIN chain' : k + 1 # 1
        BY <3>1
      <4> QED BY <3>1, <4>1 DEF ChainInv
    <3>3. ASSUME NEW k \in DOMAIN chain', NEW j \in DOMAIN chain', k < j
          PROVE chain'[k].total <= chain'[j].total
      <4>1. k + 1 < j + 1
        BY <3>1, <3>3
      <4> QED BY <3>1, <4>1 DEF ChainInv
    <3>4. \A k \in DOMAIN chain' : chain'[k].total >= json.total /\ chain'[k].total <= Cardinality(tally)
      BY <3>1 DEF ChainInv
    <3> QED BY <2>1, <2>5, <3>2, <3>3, <3>4 DEF ChainInv
  <2> QED BY <1>6, <2>3, <2>4, <2>5, WriteLemma
<1> QED BY <1>1, <1>2, <1>4, <1>5, <1>6, ElsewhereLemma

(* Where finalize stands, the child and the drain only move forward.       *)
LEMMA ProgressLemma ==
  ASSUME TypeOK, FateInv, [Next]_vars
  PROVE /\ proxy' \in Before => proxy \in Before
        /\ server \in Dead => server' \in Dead
        /\ drained' => drained \/ proxy = "drain"
<1> USE DEF Before, Dead, child, ending, Live
<1>1. ASSUME NEW c \in Calls, AgentCalls(c) \/ ServerAnswers(c) \/ ServerAsks(c)
      PROVE UNCHANGED <<proxy, server, drained>>
  BY <1>1 DEF AgentCalls, ServerAnswers, ServerAsks
<1>2. CASE FromServer \/ StdoutCloses \/ ObserveExit \/ AgentLeaves
  <2>1. UNCHANGED <<proxy, child, ending>>
    BY <1>2 DEF FromServer, StdoutCloses, ObserveExit, AgentLeaves
  <2> QED BY <2>1
<1>3. CASE ServerEnds
  BY <1>3 DEF ServerEnds, Dies
<1>4. CASE OpenRun
  BY <1>4 DEF OpenRun
<1>5. CASE Spawn
  BY <1>5 DEF Spawn, FateInv
<1>6. CASE Killed
  BY <1>6 DEF Killed
<1>7. ASSUME NEW e \in BOOLEAN, NEW g \in BOOLEAN, Finalize(e, g)
      PROVE /\ proxy = "relay" /\ UNCHANGED drained /\ (server \in Dead => server' \in Dead)
  BY <1>7 DEF Finalize, Dies
<1>8. CASE Drained
  BY <1>8 DEF Drained
<1>9. CASE DrainTimeout
  BY <1>9 DEF DrainTimeout, Dies
<1>10. CASE Confirm \/ Flushed \/ Exit
  BY <1>10 DEF Confirm, Flushed, Exit
<1>11. CASE FinalReport
  BY <1>11 DEF FinalReport
<1>12. CASE WriteStep
  BY <1>12, WriteLemma
<1>13. CASE UNCHANGED vars
  BY <1>13 DEF vars
<1> QED BY <1>1, <1>2, <1>3, <1>4, <1>5, <1>6, <1>7, <1>8, <1>9, <1>10, <1>11, <1>12, <1>13
        DEF Next, FinalStep


LEMMA FinalStable ==
  ASSUME TypeOK, FateInv, ChainInv, FinalInv, [Next]_vars
  PROVE FinalInv'
<1>1. /\ proxy' \in Before => proxy \in Before
      /\ server \in Dead => server' \in Dead
      /\ drained' => drained \/ proxy = "drain"
  BY ProgressLemma
<1>2. proxy = "drain" => proxy \in Before
  BY DEF Before
<1>3. CASE Elsewhere
  BY <1>1, <1>2, <1>3 DEF FinalInv, Elsewhere
<1>4. CASE OpenRun
  <2>1. ~drained /\ ~json.final
    BY <1>4, OpenLemma DEF FinalInv, FateInv, Before
  <2> QED BY <1>1, <1>4, <2>1, OpenLemma DEF FinalInv
<1>5. ASSUME NEW final \in BOOLEAN, NEW dead \in BOOLEAN, Builds(final, dead),
             final => proxy' \notin Before /\ ~json.final /\ UNCHANGED <<tally, staged>>,
             dead => server' \in Dead,
             ~final => ~drained', drained' => drained
      PROVE FinalInv'
  <2>1. /\ DOMAIN chain' = 1..(Len(chain) + 1) /\ DOMAIN chain = 1..Len(chain) /\ Len(chain) \in Nat
        /\ \A k \in DOMAIN chain : chain'[k] = chain[k]
        /\ chain'[Len(chain) + 1].total = Cardinality(tally')
        /\ chain'[Len(chain) + 1].final = final /\ chain'[Len(chain) + 1].dead = dead
        /\ chain'[Len(chain) + 1].stage = "queued"
    BY <1>5, BuildsLemma
  <2>2. json' = json
    BY <1>5 DEF Builds
  <2>3. /\ json'.final => proxy' \notin Before
        /\ json'.dead => server' \in Dead
        /\ ~(drained' /\ json'.final)
    BY <1>1, <1>5, <2>2 DEF FinalInv
  <2>4. drained' => UNCHANGED <<tally, staged>> /\ drained /\ final
    BY <1>5
  <2>5. ASSUME NEW k \in DOMAIN chain'
        PROVE /\ chain'[k].final => proxy' \notin Before
              /\ chain'[k].dead => server' \in Dead
              /\ drained' /\ chain'[k].final =>
                   /\ chain'[k].total = Cardinality(tally')
                   /\ chain'[k].stage # "queued" => /\ chain'[k].text.calls = tally'
                                                    /\ chain'[k].text.captures = staged'
              /\ \A j \in DOMAIN chain' : drained' /\ k < j /\ chain'[k].final => chain'[j].final
    <3>1. CASE k \in DOMAIN chain
      <4>1. /\ chain'[k].final => proxy' \notin Before
            /\ chain'[k].dead => server' \in Dead
        BY <1>1, <2>1, <3>1 DEF FinalInv
      <4>2. ASSUME drained', chain'[k].final
            PROVE /\ chain'[k].total = Cardinality(tally')
                  /\ chain'[k].stage # "queued" => /\ chain'[k].text.calls = tally'
                                                   /\ chain'[k].text.captures = staged'
        BY <2>1, <2>4, <3>1, <4>2 DEF FinalInv
      <4>3. ASSUME NEW j \in DOMAIN chain', drained', k < j, chain'[k].final
            PROVE chain'[j].final
        <5>1. CASE j \in DOMAIN chain
          BY <2>1, <2>4, <3>1, <4>3, <5>1 DEF FinalInv
        <5>2. CASE j = Len(chain) + 1
          BY <2>1, <2>4, <4>3, <5>2
        <5> QED BY <2>1, <5>1, <5>2
      <4> QED BY <4>1, <4>2, <4>3
    <3>2. CASE k = Len(chain) + 1
      BY <1>5, <2>1, <3>2
    <3> QED BY <2>1, <3>1, <3>2
  <2> QED BY <2>3, <2>5 DEF FinalInv
<1>6. CASE FromServer
  <2>1. UNCHANGED <<drained, server>> /\ pipe # <<>>
    BY <1>6 DEF FromServer, ending, child
  <2>2. ~drained
    BY <2>1 DEF FateInv
  <2>3. CASE Answers(Head(pipe)) /\ Builds(FALSE, FALSE)
    BY <1>5, <2>1, <2>2, <2>3
  <2>4. CASE Elsewhere
    BY <1>3, <2>4
  <2> QED BY <1>6, <2>3, <2>4, AnswerBuilds DEF Elsewhere
<1>7. CASE FinalReport
  <2>1. proxy = "snapshot" /\ proxy' = "flush" /\ UNCHANGED <<drained, server>>
    BY <1>7 DEF FinalReport, child
  <2>2. proxy \in Before /\ proxy' \notin Before /\ ~json.final
    BY <2>1 DEF FinalInv, Before
  <2>3. seen # "none" => server' \in Dead
    BY <2>1 DEF FateInv, TypeOK, Dead, Live
  <2>4. UNCHANGED <<tally, staged>> /\ Builds(TRUE, seen # "none")
    BY <1>7, FinalBuilds
  <2>5. (seen # "none") \in BOOLEAN /\ TRUE \in BOOLEAN
    OBVIOUS
  <2> QED BY <1>5, <2>1, <2>2, <2>3, <2>4, <2>5
<1>8. CASE WriteStep
  <2>1. /\ chain # <<>> /\ 1 \in DOMAIN chain /\ chain[1] \in Reports
        /\ UNCHANGED <<tally, staged, proxy, server, drained>>
    BY <1>8, WriteLemma
  <2>2. /\ Serialised(chain[1]).final = chain[1].final /\ Serialised(chain[1]).dead = chain[1].dead
        /\ Serialised(chain[1]).calls = tally /\ Serialised(chain[1]).captures = staged
    BY <2>1, SerialisedType
  <2>3. ASSUME NEW stage \in {"json", "md"}, Read(stage)
        PROVE \A k \in DOMAIN chain' :
                /\ k \in DOMAIN chain /\ chain'[k].final = chain[k].final /\ chain'[k].dead = chain[k].dead
                /\ chain'[k].total = chain[k].total
                /\ k # 1 => chain'[k] = chain[k]
                /\ k = 1 => chain'[k].text.calls = tally /\ chain'[k].text.captures = staged
    <3>1. /\ DOMAIN chain' = DOMAIN chain /\ \A k \in DOMAIN chain : k # 1 => chain'[k] = chain[k]
          /\ chain'[1].total = chain[1].total
          /\ chain'[1].final = chain[1].final /\ chain'[1].dead = chain[1].dead
          /\ chain'[1].text = Serialised(chain[1])
      BY <2>1, <2>3, ReadLemma, Zenon
    <3> QED BY <2>2, <3>1
  <2>4. CASE Read("json") /\ UNCHANGED json
    <3>1. "json" \in {"json", "md"}
      OBVIOUS
    <3> QED BY <2>1, <2>3, <2>4, <3>1 DEF FinalInv
  <2>5. CASE chain[1].stage = "json" /\ Read("md") /\ json' = chain[1].text
    <3>1. "md" \in {"json", "md"}
      OBVIOUS
    <3>2. /\ chain[1].text.final = chain[1].final /\ chain[1].text.dead = chain[1].dead
          /\ chain[1].text.total = chain[1].total
      BY <2>1, <2>5 DEF ChainInv
    <3>3. /\ json'.final => proxy' \notin Before
          /\ json'.dead => server' \in Dead
          /\ drained' /\ json'.final => /\ json'.calls = tally' /\ json'.captures = staged'
                                        /\ json'.total = Cardinality(tally')
      BY <2>1, <2>5, <3>2 DEF FinalInv
    <3>4. ASSUME drained, chain[1].final, NEW k \in DOMAIN chain
          PROVE chain[k].final
      <4>1. k = 1 \/ 1 < k
        BY ReportTypes
      <4> QED BY <2>1, <3>4, <4>1 DEF FinalInv
    <3>5. \A k \in DOMAIN chain' : drained' /\ json'.final => chain'[k].final
      BY <2>1, <2>3, <2>5, <3>1, <3>2, <3>4
    <3> QED BY <2>1, <2>3, <2>5, <3>1, <3>3, <3>5 DEF FinalInv
  <2>6. CASE chain' = Tail(chain) /\ UNCHANGED json
    <3>1. \A k \in DOMAIN chain' : k \in Nat \ {0} /\ k + 1 \in DOMAIN chain /\ chain'[k] = chain[k + 1]
      BY <2>1, <2>6, TailLemma, ReportTypes
    <3>2. \A k \in DOMAIN chain' : \A j \in DOMAIN chain' : k < j => k + 1 < j + 1
      BY <3>1
    <3> QED BY <2>1, <2>6, <3>1, <3>2 DEF FinalInv
  <2> QED BY <1>8, <2>4, <2>5, <2>6, WriteLemma
<1> QED BY <1>3, <1>4, <1>6, <1>7, <1>8, ElsewhereLemma

-----------------------------------------------------------------------------
(* The invariant.                                                          *)
LEMMA InitInv == ASSUME Init PROVE IInv
<1>1. NoFile \in Files
  <2>1. Cardinality(Calls) \in Nat
    BY CallsAssumption, FS_CardinalityType
  <2> QED BY <2>1 DEF NoFile, Files
<1>2. TypeOK
  <2>1. pipe \in Seq(Lines) /\ chain \in Seq(Reports)
    BY DEF Init
  <2>2. {pending, tally, staged, told, inbox} \subseteq SUBSET Calls
    BY DEF Init
  <2>3. {agent, closed, failed, mine, slain, drained} \subseteq BOOLEAN
    BY DEF Init
  <2>4. asks \in 0..MaxAsks /\ faults \in 0..MaxFault /\ code \in {0, 1}
    BY BoundsAssumption DEF Init
  <2>5. json \in Files /\ md \in Files
    BY <1>1 DEF Init
  <2>6. /\ proxy = "gate" /\ server = "none" /\ fate = "none" /\ seen = "none"
    BY DEF Init
  <2> QED BY <2>1, <2>2, <2>3, <2>4, <2>5, <2>6 DEF TypeOK
<1>3. FateInv
  BY DEF Init, FateInv, Live, Before
<1>4. LineInv
  BY DEF Init, LineInv
<1>5. ChainInv
  <2>1. Cardinality({}) = 0
    BY FS_EmptySet
  <2>2. json.total = 0 /\ json.calls = {} /\ json.captures = {} /\ tally = {} /\ chain = <<>>
    BY DEF Init, NoFile
  <2> QED BY <2>1, <2>2 DEF ChainInv
<1>6. FinalInv
  BY DEF Init, FinalInv, NoFile
<1> QED BY <1>2, <1>3, <1>4, <1>5, <1>6 DEF IInv

LEMMA StepInv == ASSUME IInv, [Next]_vars PROVE IInv'
<1>1. TypeOK /\ FateInv /\ LineInv /\ ChainInv /\ FinalInv
  BY DEF IInv
<1>2. TypeOK'
  BY <1>1, TypeStep
<1>3. FateInv'
  BY <1>1, FateStable
<1>4. LineInv'
  BY <1>1, LineStable
<1>5. ChainInv'
  BY <1>1, ChainStable
<1>6. FinalInv'
  BY <1>1, FinalStable
<1> QED BY <1>2, <1>3, <1>4, <1>5, <1>6 DEF IInv

LEMMA Invariance == Spec => []IInv
<1>1. Init => IInv
  BY InitInv
<1>2. IInv /\ [Next]_vars => IInv'
  BY StepInv
<1> QED BY <1>1, <1>2, PTL DEF Spec

(* The variables of the proxy keep their types (dogfood-run.mjs and        *)
(* transcript-writer.mjs).                                                 *)
THEOREM TypeCorrect == Spec => []TypeOK
<1>1. IInv => TypeOK
  BY DEF IInv
<1> QED BY <1>1, Invariance, PTL

(* An exit status of 0 never hides a server that runs on, failed or was    *)
(* killed by somebody else, and no exit of its own leaves a live server    *)
(* (computeProxyExitCode and finalize).                                    *)
THEOREM ExitsOnlyWhenDead == Spec => []CleanExitMeansDead
<1>1. IInv => CleanExitMeansDead
  BY DEF IInv, FateInv, CleanExitMeansDead
<1> QED BY <1>1, Invariance, PTL

(* The report of a drained run counts every answer the agent was given and *)
(* stages every capture among them (the flush of finalize).                *)
THEOREM ReportsTheWholeRun == Spec => []FinalReportIsWhole
<1>1. IInv => FinalReportIsWhole
  <2> SUFFICES ASSUME IInv, drained, json.final PROVE
        /\ json.calls = told /\ json.total = Cardinality(json.calls)
        /\ json.captures = told \cap Staging
        /\ json.dead => server # "none" /\ server \notin Live
    BY DEF FinalReportIsWhole
  <2>1. json.calls = tally /\ json.captures = staged /\ json.total = Cardinality(tally)
    BY DEF IInv, FinalInv
  <2>2. told = tally /\ staged = tally \cap Staging
    BY DEF IInv, LineInv
  <2>3. json.dead => server # "none" /\ server \notin Live
    BY DEF IInv, FinalInv, Dead, Live
  <2> QED BY <2>1, <2>2, <2>3
<1> QED BY <1>1, Invariance, PTL

(* Whatever instant the proxy is killed at, the report on disk only moves  *)
(* forward (scheduleReportWrite's chain).                                  *)
THEOREM CheckpointsOnlyAdvance == Spec => CheckpointsAdvance
<1> DEFINE Advance == /\ json'.total >= json.total
                      /\ json.calls \subseteq json'.calls
                      /\ json.captures \subseteq json'.captures
                      /\ json.final /\ ~slain /\ drained => json'.final
<1>1. IInv /\ [Next]_vars => [Advance]_vars
  <2> SUFFICES ASSUME IInv, [Next]_vars PROVE Advance
    OBVIOUS
  <2>1. TypeOK /\ ChainInv /\ FinalInv
    BY DEF IInv
  <2>2. json.total \in Nat
    BY <2>1, ReportTypes
  <2>3. CASE json' = json
    BY <2>2, <2>3
  <2>4. CASE chain[1].stage = "json" /\ 1 \in DOMAIN chain /\ json' = chain[1].text
    <3>1. /\ chain[1].text.total >= json.total
          /\ json.calls \subseteq chain[1].text.calls
          /\ json.captures \subseteq chain[1].text.captures
          /\ chain[1].text.final = chain[1].final
      BY <2>1, <2>4 DEF ChainInv
    <3>2. drained /\ json.final => chain[1].final
      BY <2>1, <2>4 DEF FinalInv
    <3> QED BY <2>4, <3>1, <3>2
  <2>5. CASE WriteStep
    BY <2>1, <2>3, <2>4, <2>5, WriteLemma
  <2>6. CASE OpenRun \/ Elsewhere
    BY <2>1, <2>3, <2>6, OpenLemma DEF Elsewhere
  <2>7. CASE FromServer \/ FinalReport
    BY <2>3, <2>7 DEF FromServer, FinalReport, disk
  <2> QED BY <2>1, <2>5, <2>6, <2>7, ElsewhereLemma
<1> QED BY <1>1, Invariance, PTL DEF Spec, CheckpointsAdvance
=============================================================================
