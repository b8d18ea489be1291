---------------------------- MODULE DogfoodProxy ----------------------------
(***************************************************************************)
(* scripts/dogfood/dogfood-run.mjs and transcript-writer.mjs: the proxy    *)
(* that sits between an agent and the MCP server it spawns, forwards every *)
(* line both ways, tallies the answered tool calls and keeps a run report  *)
(* on disk.  The agent may hard-kill the proxy at any moment, so a report  *)
(* must already be there; and the end of a run must neither leak the       *)
(* server nor lose the answers still in its pipe.                          *)
(*                                                                         *)
(* A report holds a number computed when the snapshot is built and         *)
(* references to the recorder's live tallies and captures, which are read  *)
(* when the file is serialised: both times are in the model.               *)
(***************************************************************************)
EXTENDS Integers, FiniteSets, Sequences, SequencesExt

CONSTANTS Calls,        \* JSON-RPC ids of the agent's tools/call requests
          Staging,      \* the calls of agda_capture_session that stage a capture
          MaxAsks,      \* bound: server-initiated requests in a run
          MaxFault      \* bound: report writes that fail in a run

ASSUME CallsAssumption  == IsFiniteSet(Calls) /\ Staging \subseteq Calls
ASSUME BoundsAssumption == MaxAsks \in Nat /\ MaxFault \in Nat

VARIABLES
    proxy,      \* where runDogfoodProxy and finalize stand
    agent,      \* the agent holds its ends of the proxy's pipes
    server,     \* the child: "none", "up", "deaf" (to SIGTERM), "gone", "unborn"
    fate,       \* how the child ended: "none", "ok", "bad" (an exit code), "signal"
    seen,       \* the child's fate as the proxy has observed it
    closed,     \* the child's stdout is drained and its readline closed
    failed,     \* childFailed
    mine,       \* proxyKilledChild
    slain,      \* SIGKILL was sent to the child's group
    pending,    \* recorder: pendingRequests
    tally,      \* recorder: the calls counted in perTool
    staged,     \* recorder: stagedCaptures
    inbox,      \* requests forwarded to the child and not answered
    pipe,       \* lines in the child's stdout, oldest first
    told,       \* the calls whose answer was forwarded to the agent
    chain,      \* reportWriteChain: reports not completely written, and how far
    json, md,   \* run-report.json and run-report.md
    drained,    \* the snapshot of finalize was built after the drain
    code,       \* the exit code of the proxy
    asks, faults

recorder == <<pending, tally, staged, told>>
child    == <<server, fate, inbox>>
disk     == <<json, md>>
ending   == <<failed, mine, slain, drained, code>>
vars == <<proxy, agent, server, fate, seen, closed, failed, mine, slain, pending,
          tally, staged, told, inbox, pipe, chain, json, md, drained, code,
          asks, faults>>

NoFile   == [total |-> 0, calls |-> {}, captures |-> {}, final |-> FALSE, dead |-> FALSE,
             there |-> FALSE]
Live     == {"up", "deaf"}
Ends     == {"ok", "bad", "signal"}
Alive    == proxy \notin {"refused", "exited", "killed"}
Watching == Alive /\ proxy \notin {"gate", "first"}     \* the listeners are installed

(***************************************************************************)
(* Reports                                                                 *)
(***************************************************************************)

\* buildReportSnapshot: the total is a number, the rest refers to live state
Snapshot(count, final, dead) ==
    [total |-> Cardinality(count), final |-> final, dead |-> dead,
     stage |-> "queued", text |-> NoFile]

\* JSON.stringify or renderRunReportMarkdown of a snapshot, now
Serialised(report) ==
    [total |-> report.total, calls |-> tally, captures |-> staged,
     final |-> report.final, dead |-> report.dead, there |-> TRUE]

\* Mutated form: writes that do not wait for each other.
DueAny(k) == TRUE

\* Which report of the chain may be worked on: scheduleReportWrite makes each
\* write wait for the one before it.
Due(k) == k = 1

\* writeRunReport: the JSON, then the Markdown, each by an atomic replacement
BeginWrite(k) ==
    /\ Due(k) /\ chain[k].stage = "queued"
    /\ chain' = [chain EXCEPT ![k].stage = "json", ![k].text = Serialised(chain[k])]
    /\ UNCHANGED <<disk, faults>>

EndJson(k) ==
    /\ Due(k) /\ chain[k].stage = "json"
    /\ json' = chain[k].text
    /\ chain' = [chain EXCEPT ![k].stage = "md", ![k].text = Serialised(chain[k])]
    /\ UNCHANGED <<md, faults>>

EndMarkdown(k) ==
    /\ Due(k) /\ chain[k].stage = "md"
    /\ md' = chain[k].text
    /\ chain' = RemoveAt(chain, k)
    /\ UNCHANGED <<json, faults>>

\* A failed write is logged and the chain goes on; its Markdown is not written.
FailWrite(k) ==
    /\ Due(k) /\ chain[k].stage # "queued" /\ faults < MaxFault
    /\ chain' = RemoveAt(chain, k)
    /\ faults' = faults + 1
    /\ UNCHANGED disk

WriteStep ==
    /\ Alive
    /\ \E k \in DOMAIN chain : BeginWrite(k) \/ EndJson(k) \/ EndMarkdown(k) \/ FailWrite(k)
    /\ UNCHANGED <<proxy, agent, child, seen, closed, ending, recorder, pipe, asks>>

(***************************************************************************)
(* Start                                                                   *)
(***************************************************************************)

\* loadTaskManifest refuses before anything exists; otherwise the first
\* checkpoint is scheduled and awaited.
OpenRun ==
    /\ proxy = "gate"
    /\ \/ proxy' = "refused" /\ chain' = chain
       \/ proxy' = "first" /\ chain' = <<Snapshot(tally, FALSE, FALSE)>>
    /\ UNCHANGED <<agent, child, seen, closed, ending, recorder, pipe, disk,
                   asks, faults>>

\* The child starts, now or never: a spawn error leaves an 'error' event to come.
Spawn ==
    /\ proxy = "first" /\ chain = <<>>
    /\ proxy' = "relay"
    /\ \/ server' \in Live /\ UNCHANGED <<fate, seen>>
       \/ server' = "unborn" /\ fate' \in {"none", "bad"} /\ seen' = fate'
    /\ UNCHANGED <<agent, inbox, closed, ending, recorder, pipe, chain,
                   disk, asks, faults>>

(***************************************************************************)
(* The agent and the server (external), and the lines between them         *)
(***************************************************************************)

\* recordToServerLine, then the line is forwarded while the child can take it.
AgentCalls(c) ==
    /\ Watching /\ agent
    /\ c \notin pending \cup tally \cup inbox
    /\ \A l \in ToSet(pipe) : l.id # c
    /\ pending' = pending \cup {c}
    /\ inbox' = IF server \in Live THEN inbox \cup {c} ELSE inbox
    /\ UNCHANGED <<proxy, agent, server, fate, seen, closed, ending, tally, staged, told, pipe,
                   chain, disk, asks, faults>>

ServerAnswers(c) ==
    /\ Watching /\ server \in Live /\ c \in inbox
    /\ inbox' = inbox \ {c}
    /\ pipe' = Append(pipe, [kind |-> "response", id |-> c])
    /\ UNCHANGED <<proxy, agent, server, fate, seen, closed, ending, recorder, chain,
                   disk, asks, faults>>

\* A request of the server, whose id may be that of a pending request of the agent
ServerAsks(c) ==
    /\ Watching /\ server \in Live /\ asks < MaxAsks
    /\ pipe' = Append(pipe, [kind |-> "request", id |-> c])
    /\ asks' = asks + 1
    /\ UNCHANGED <<proxy, agent, child, seen, closed, ending, recorder, chain, disk, faults>>

\* recordToClientLine: which line answers a call of the agent
Answers(line) == line.kind = "response" /\ line.id \in pending

\* One line of the server: recorded and forwarded; an answer is tallied and
\* schedules a checkpoint built at once.
FromServer ==
    /\ Watching /\ pipe # <<>>
    /\ LET line == Head(pipe) IN
       IF Answers(line)
       THEN /\ pending' = pending \ {line.id}
            /\ tally' = tally \cup {line.id}
            /\ staged' = staged \cup ({line.id} \cap Staging)
            /\ chain' = Append(chain, Snapshot(tally', FALSE, FALSE))
       ELSE UNCHANGED <<pending, tally, staged, chain>>
    /\ told' = IF Head(pipe).kind = "response" THEN told \cup {Head(pipe).id} ELSE told
    /\ pipe' = Tail(pipe)
    /\ UNCHANGED <<proxy, agent, child, seen, closed, ending, disk, asks, faults>>

(***************************************************************************)
(* The child ends                                                          *)
(***************************************************************************)

Dies(how) == server' = "gone" /\ fate' = how /\ inbox' = {}

ServerEnds ==
    /\ Watching /\ server \in Live
    /\ \E how \in Ends : Dies(how)
    /\ UNCHANGED <<proxy, agent, seen, closed, ending, recorder, pipe, chain, disk, asks, faults>>

\* Node learns of the exit, possibly before the pipe is drained.
ObserveExit ==
    /\ Watching /\ server = "gone" /\ seen # fate
    /\ seen' = fate
    /\ UNCHANGED <<proxy, agent, child, closed, ending, recorder, pipe, chain, disk, asks, faults>>

\* readline's "close" comes after every buffered line.
StdoutCloses ==
    /\ Watching /\ server \in {"gone", "unborn"} /\ pipe = <<>> /\ ~closed
    /\ closed' = TRUE
    /\ UNCHANGED <<proxy, agent, child, seen, ending, recorder, pipe, chain, disk, asks, faults>>

(***************************************************************************)
(* finalize                                                                *)
(***************************************************************************)

AgentLeaves ==
    /\ Watching /\ agent
    /\ agent' = FALSE
    /\ UNCHANGED <<proxy, child, seen, closed, ending, recorder, pipe, chain, disk, asks, faults>>

\* The child's 'close' or 'error', the end of stdin, a signal.  Once only; a
\* child that is not known to be dead gets SIGTERM, which ends one that is not
\* deaf.  process.kill fails on a group that is already gone.
Finalize(spawnError, signalled) ==
    /\ proxy = "relay"
    /\ spawnError => server = "unborn"
    /\ spawnError \/ signalled \/ ~agent \/ (closed /\ seen # "none")
    /\ proxy' = "drain"
    /\ failed' = spawnError
    /\ mine' = (seen = "none" /\ server \in Live)
    /\ IF seen = "none" /\ server = "up"
       THEN \E how \in {"ok", "signal"} : Dies(how)
       ELSE UNCHANGED child
    /\ UNCHANGED <<agent, seen, closed, slain, drained, code, recorder, pipe, chain, disk, asks, faults>>

\* Mutated form: finalize on the child's end alone, before its pipe is drained.
DrainedEarly ==
    /\ proxy = "drain" /\ server = "gone"
    /\ proxy' = "confirm"
    /\ drained' = TRUE
    /\ UNCHANGED <<agent, child, seen, closed, failed, mine, slain, code, recorder, pipe,
                   chain, disk, asks, faults>>

\* The race of the drain against two seconds
Drained ==
    /\ proxy = "drain" /\ closed
    /\ proxy' = "confirm"
    /\ drained' = TRUE
    /\ UNCHANGED <<agent, child, seen, closed, failed, mine, slain, code, recorder, pipe,
                   chain, disk, asks, faults>>

\* Mutated form: no bound on the drain.
DrainTimeoutNever == FALSE

DrainTimeout ==
    /\ proxy = "drain" /\ ~closed
    /\ proxy' = "confirm"
    /\ slain' = (seen = "none" /\ server \in Live)
    /\ IF seen = "none" /\ server \in Live THEN Dies("signal") ELSE UNCHANGED child
    /\ UNCHANGED <<agent, seen, closed, failed, mine, drained, code, recorder, pipe, chain,
                   disk, asks, faults>>

\* Half a second more for the 'close' of a child whose end was not observed
Confirm ==
    /\ proxy = "confirm"
    /\ proxy' = "snapshot"
    /\ UNCHANGED <<agent, child, seen, closed, ending, recorder, pipe, chain, disk, asks, faults>>

\* Mutated form: the exit code before WR-07: an unobserved death counts as the proxy's kill.
ExitCodeUnconfirmed(ended, childFailed, killedIt) ==
    IF \/ ended = "ok"
       \/ ended # "bad" /\ ~childFailed /\ (ended = "signal" => killedIt)
    THEN 0 ELSE 1

\* computeProxyExitCode: 0 stands for a clean exit, 1 for any failure
ExitCode(ended, childFailed, killedIt) ==
    IF \/ ended = "ok"
       \/ (ended = "signal" /\ killedIt /\ ~childFailed)
    THEN 0 ELSE 1

FinalReport ==
    /\ proxy = "snapshot"
    /\ proxy' = "flush"
    /\ code' = ExitCode(seen, failed, mine)
    /\ chain' = Append(chain, Snapshot(tally, TRUE, seen # "none"))
    /\ UNCHANGED <<agent, child, seen, closed, failed, mine, slain, drained, recorder, pipe,
                   disk, asks, faults>>

\* The terminal write has run its turn; what is scheduled after it is not awaited.
Flushed ==
    /\ proxy = "flush"
    /\ \A k \in DOMAIN chain : ~chain[k].final
    /\ proxy' = "stop"
    /\ UNCHANGED <<agent, child, seen, closed, ending, recorder, pipe, chain, disk, asks, faults>>

Exit ==
    /\ proxy = "stop"
    /\ proxy' = "exited"
    /\ UNCHANGED <<agent, child, seen, closed, ending, recorder, pipe, chain, disk, asks, faults>>

\* SIGKILL from the parent agent, or a signal before the handlers exist
Killed ==
    /\ Alive /\ proxy # "gate"
    /\ proxy' = "killed"
    /\ UNCHANGED <<agent, child, seen, closed, ending, recorder, pipe, chain, disk, asks, faults>>

(***************************************************************************)
(* Specification                                                           *)
(***************************************************************************)

Init ==
    /\ proxy = "gate" /\ agent = TRUE
    /\ server = "none" /\ fate = "none" /\ seen = "none" /\ closed = FALSE
    /\ failed = FALSE /\ mine = FALSE /\ slain = FALSE
    /\ pending = {} /\ tally = {} /\ staged = {}
    /\ inbox = {} /\ pipe = <<>>
    /\ chain = <<>> /\ told = {} /\ json = NoFile /\ md = NoFile
    /\ drained = FALSE /\ code = 1 /\ asks = 0 /\ faults = 0

FinalStep == Drained \/ DrainTimeout \/ Confirm \/ FinalReport \/ Flushed \/ Exit

Next ==
    \/ OpenRun \/ Spawn \/ FromServer \/ ObserveExit \/ StdoutCloses
    \/ \E c \in Calls : AgentCalls(c) \/ ServerAnswers(c) \/ ServerAsks(c)
    \/ ServerEnds \/ AgentLeaves \/ Killed
    \/ \E e, s \in BOOLEAN : Finalize(e, s)
    \/ WriteStep
    \/ FinalStep

\* Node runs its callbacks and timers, and a file write ends or fails; nothing
\* is assumed of the agent or the server.
Fairness ==
    /\ WF_vars(OpenRun) /\ WF_vars(Spawn)
    /\ WF_vars(FromServer) /\ WF_vars(ObserveExit) /\ WF_vars(StdoutCloses)
    /\ WF_vars(\E e \in BOOLEAN : Finalize(e, FALSE))
    /\ WF_vars(WriteStep) /\ WF_vars(FinalStep)

Spec == Init /\ [][Next]_vars /\ Fairness

(***************************************************************************)
(* Properties                                                              *)
(***************************************************************************)

Lines   == [kind : {"response", "request"}, id : Calls]
Files   == [total : 0..Cardinality(Calls), calls : SUBSET Calls, captures : SUBSET Calls,
            final : BOOLEAN, dead : BOOLEAN, there : BOOLEAN]
Reports == [total : 0..Cardinality(Calls), final : BOOLEAN, dead : BOOLEAN,
            stage : {"queued", "json", "md"}, text : Files]

\* The types of the proxy's state.
TypeOK ==
    /\ proxy \in {"gate", "refused", "first", "relay", "drain", "confirm", "snapshot",
                  "flush", "stop", "exited", "killed"}
    /\ server \in Live \cup {"none", "gone", "unborn"}
    /\ fate \in Ends \cup {"none"} /\ seen \in Ends \cup {"none"}
    /\ {agent, closed, failed, mine, slain, drained} \subseteq BOOLEAN
    /\ {pending, tally, staged, told, inbox} \subseteq SUBSET Calls
    /\ pipe \in Seq(Lines) /\ chain \in Seq(Reports)
    /\ json \in Files /\ md \in Files
    /\ code \in {0, 1} /\ asks \in 0..MaxAsks /\ faults \in 0..MaxFault

\* Whatever instant the proxy is killed at, the report on disk only ever moves
\* forward: a later checkpoint never counts fewer calls or captures than the
\* one it replaces, and nothing replaces a finalized report but a report of the
\* same or more (dogfood-run.mjs:280-288: whichever write completed last would
\* otherwise win).
CheckpointsAdvance ==
    [][/\ json'.total >= json.total
       /\ json.calls \subseteq json'.calls
       /\ json.captures \subseteq json'.captures
       /\ json.final /\ ~slain /\ drained => json'.final]_vars

\* A run that ended by its own finalize, drained, with its last write done, has
\* a report that counts every answer the agent was forwarded and stages every
\* capture among them, and total, tallies and captures agree
\* (dogfood-run.mjs:434-437).
FinalReportIsWhole ==
    proxy \in {"stop", "exited"} /\ drained /\ json.final =>
        /\ json.calls = told /\ json.total = Cardinality(json.calls)
        /\ json.captures = told \cap Staging
        /\ json.dead => server # "none" /\ server \notin Live

\* An exit status of 0 never hides a server that is still running, one that
\* failed or one that somebody else killed (dogfood-run.mjs:150-163); and
\* whenever the proxy ends by itself the server is dead or was sent SIGKILL.
CleanExitMeansDead ==
    /\ proxy = "exited" /\ code = 0 =>
         server = "gone" /\ (fate = "ok" \/ (fate = "signal" /\ mine))
    /\ proxy = "exited" => server \notin Live

\* A server that dies, an agent that leaves or a signal always brings the proxy
\* to its end: neither a deaf server nor a failing disk keeps finalize waiting.
ProxyEnds ==
    /\ (proxy = "drain") ~> ~Alive
    /\ (proxy = "relay" /\ (\/ ~agent
                            \/ server \in {"gone", "unborn"})) ~> ~Alive

\* What dogfood-run.mjs:258-264 says of a snapshot: it reflects what the
\* recorder had observed up to the moment it was built.  Its tallies are read
\* later, when the file is written, so they can exceed its own total.
SnapshotIsOfOneMoment == json.there => json.total = Cardinality(json.calls)
=============================================================================
