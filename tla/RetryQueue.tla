----------------------------- MODULE RetryQueue -----------------------------
(***************************************************************************)
(* The upload of dogfooding runs: concurrent upload-run.mjs processes, each*)
(* of which flushes the retry queue, uploads the archive of its own run,   *)
(* and appends it to the queue if that fails.  The queue is one file, read *)
(* and rewritten whole under an advisory lock file; uploads are done       *)
(* outside the lock.  A process may crash anywhere and leave its lock.     *)
(*                                                                         *)
(* A step of a process is one system call, or several of which no other    *)
(* process can tell the order.                                             *)
(*                                                                         *)
(* Source: scripts/dogfood/upload-run.mjs                                  *)
(***************************************************************************)
EXTENDS Naturals, Sequences, FiniteSets, SequencesExt

CONSTANTS Procs,         \* processes, named for their runs
          Old,           \* runs queued before
          MaxCount,      \* resolveRetryMaxCount
          MaxCrash       \* bound: crashes

ASSUME RetryAssumption ==
         /\ IsFiniteSet(Procs) /\ IsFiniteSet(Old) /\ Procs \cap Old = {}
         /\ MaxCount \in Nat \ {0} /\ MaxCrash \in Nat
         /\ Cardinality(Old) <= MaxCount

Runs == Procs \cup Old
NoLock == [exists |-> FALSE, stale |-> FALSE, by |-> "nobody", token |-> "none"]

VARIABLES
  queue,       \* the entries of the queue file, by run; appended last
  archives,    \* the pending archives on disk
  lock,        \* the lock file: who created it, and the token in it
  delivered,   \* runs the server has
  dropped,     \* runs dropped at the bound (history)
  ts,          \* when a run was queued, as the order of the ts of the entries
  \* the processes
  pc, phase,   \* phase: flush, append
  read,        \* the entries it flushes, as read at first
  next,        \* the index of the next one
  flushed,     \* flushedArchivePaths
  body,        \* the queue it is about to write
  holds,       \* it was given a release()
  crashes

fileVars == <<queue, archives, lock>>
procVars == <<pc, phase, read, next, flushed, body, holds>>
sentVars == <<delivered, dropped, ts>>
vars == <<fileVars, sentVars, procVars, crashes>>

Locking == {"open", "stat", "unlink", "recreate", "token", "verify"}

Go(p, l) == pc' = [pc EXCEPT ![p] = l]

Init ==
  /\ queue \in SetToSeqs(Old) /\ archives = Old
  /\ lock = NoLock /\ delivered = {} /\ dropped = {}
  /\ pc = [p \in Procs |-> "flush"] /\ phase = [p \in Procs |-> "flush"]
  /\ ts = [r \in Runs |-> IF r \in Old THEN CHOOSE i \in DOMAIN queue : queue[i] = r ELSE 0]
  /\ read = [p \in Procs |-> <<>>] /\ next = [p \in Procs |-> 1]
  /\ flushed = [p \in Procs |-> {}]
  /\ body = [p \in Procs |-> <<>>] /\ holds = [p \in Procs |-> FALSE]
  /\ crashes = 0

-----------------------------------------------------------------------------
(* acquireRetryQueueLock                                                   *)

(* Mutated form of Creates: O_EXCL is dropped.                             *)
CreatesAnyway(p) == lock' = [NoLock EXCEPT !.exists = TRUE, !.by = p]

(* openSync(lockPath, "wx") *)
Creates(p) == ~lock.exists /\ lock' = [NoLock EXCEPT !.exists = TRUE, !.by = p]

Acquired(p) == Go(p, "read") /\ holds' = [holds EXCEPT ![p] = TRUE]

OpenLock(p) ==
  /\ pc[p] = "open"
  /\ \/ Creates(p) /\ Acquired(p)
     \/ lock.exists /\ Go(p, "stat") /\ UNCHANGED <<lock, holds>>
  /\ UNCHANGED <<queue, archives, sentVars, phase, read, next, flushed, body, crashes>>

(* A stale lock is abandoned; for a fresh one, or one that has just gone,  *)
(* the loop starts again.                                                  *)
StatLock(p) ==
  /\ pc[p] = "stat"
  /\ Go(p, IF lock.exists /\ lock.stale THEN "unlink" ELSE "open")
  /\ UNCHANGED <<fileVars, sentVars, phase, read, next, flushed, body, holds, crashes>>

(* The reclaim: unlink whatever has that path, create it, write a token and*)
(* read it back.                                                           *)
Reclaim(p) ==
  /\ \/ /\ pc[p] = "unlink"
        /\ lock' = NoLock
        /\ Go(p, IF lock.exists THEN "recreate" ELSE "open")
        /\ UNCHANGED holds
     \/ /\ pc[p] = "recreate"
        /\ \/ Creates(p) /\ Go(p, "token")
           \/ lock.exists /\ Go(p, "open") /\ UNCHANGED lock
        /\ UNCHANGED holds
     \/ /\ pc[p] = "token"
        /\ lock' = IF lock.exists THEN [lock EXCEPT !.token = p, !.stale = FALSE]
                   ELSE [NoLock EXCEPT !.exists = TRUE, !.by = p, !.token = p]
        /\ Go(p, "verify")
        /\ UNCHANGED holds
     \/ /\ pc[p] = "verify"
        /\ IF lock.token = p THEN Acquired(p) ELSE Go(p, "open") /\ UNCHANGED holds
        /\ UNCHANGED lock
  /\ UNCHANGED <<queue, archives, sentVars, phase, read, next, flushed, body, crashes>>

(* A lock left behind outlives the timeout of a process that waits for it, *)
(* long before it is stale: the process goes on without the lock.  One that*)
(* is held is released within it.                                          *)
Abandoned == lock.exists /\ lock.by \in Procs /\ pc[lock.by] = "crashed"

(* Mutated form of FailsOpen: the process waits for the lock to be stale.  *)
WaitsOn(p) == FALSE /\ UNCHANGED vars

FailsOpen(p) ==
  /\ pc[p] = "open" /\ Abandoned
  /\ Go(p, "read")
  /\ UNCHANGED <<fileVars, sentVars, phase, read, next, flushed, body, holds, crashes>>

LockAges ==
  /\ Abandoned /\ ~lock.stale
  /\ lock' = [lock EXCEPT !.stale = TRUE]
  /\ UNCHANGED <<queue, archives, sentVars, procVars, crashes>>

(* release?.(): unlink whatever has that path.                             *)
Release(p) ==
  /\ pc[p] = "release"
  /\ lock' = IF holds[p] THEN NoLock ELSE lock
  /\ holds' = [holds EXCEPT ![p] = FALSE]
  /\ Go(p, IF phase[p] = "flush" THEN "upload" ELSE "done")
  /\ read' = [read EXCEPT ![p] = <<>>] /\ next' = [next EXCEPT ![p] = 1]
  /\ flushed' = [flushed EXCEPT ![p] = {}] /\ body' = [body EXCEPT ![p] = <<>>]
  /\ UNCHANGED <<queue, archives, sentVars, phase, crashes>>

-----------------------------------------------------------------------------
(* flushRetryQueue, outside the lock.                                      *)

Flush(p) ==
  /\ pc[p] = "flush"
  /\ read' = [read EXCEPT ![p] = queue]
  /\ Go(p, IF queue = <<>> THEN "open" ELSE "retry")
  /\ UNCHANGED <<fileVars, sentVars, phase, next, flushed, body, holds, crashes>>

(* Mutated form of DeletesArchive: that of a failed upload is deleted too. *)
AlwaysDeletes(r, ok) == archives' = archives \ {r}

DeletesArchive(r, ok) == archives' = IF ok THEN archives \ {r} ELSE archives

(* One entry is uploaded.  It fails if its archive has gone; the answer may*)
(* be lost when the server has the archive.                                *)
Retry(p) ==
  /\ pc[p] = "retry"
  /\ LET r == read[p][next[p]]
     IN \E got, ok \in BOOLEAN :
          /\ ok => got
          /\ got => r \in archives
          /\ delivered' = IF got THEN delivered \cup {r} ELSE delivered
          /\ DeletesArchive(r, ok)
          /\ flushed' = [flushed EXCEPT ![p] = IF ok THEN @ \cup {r} ELSE @]
  /\ next' = [next EXCEPT ![p] = @ + 1]
  /\ Go(p, IF next[p] = Len(read[p]) THEN "open" ELSE "retry")
  /\ UNCHANGED <<queue, lock, dropped, ts, phase, read, body, holds, crashes>>

(* uploadArchive of its own run; if it fails, the archive is kept.         *)
Upload(p) ==
  /\ pc[p] = "upload"
  /\ \E got, ok \in BOOLEAN :
       /\ ok => got
       /\ delivered' = IF got THEN delivered \cup {p} ELSE delivered
       /\ IF ok THEN Go(p, "done") /\ UNCHANGED <<archives, phase, ts>>
          ELSE /\ archives' = archives \cup {p}
               /\ phase' = [phase EXCEPT ![p] = "append"]
               /\ ts' = [ts EXCEPT ![p] = Cardinality({r \in Runs : ts[r] > 0}) + 1]
               /\ Go(p, "open")
  /\ UNCHANGED <<queue, lock, dropped, read, next, flushed, body, holds, crashes>>

(* The report of the run cannot be read, or its archive not be packed:     *)
(* nothing is uploaded, and nothing queued.  A process that was started    *)
(* with --retry-only has nothing to upload either.                         *)
PackFails(p) ==
  /\ pc[p] = "upload" /\ Go(p, "done")
  /\ UNCHANGED <<fileVars, sentVars, phase, read, next, flushed, body, holds, crashes>>

-----------------------------------------------------------------------------
(* The sections the lock guards.                                           *)

(* The entries of q that are not in X, in their order.                     *)
Without(q, X) ==
  LET keep[i \in 0..Len(q)] == IF i = 0 THEN <<>>
                               ELSE IF q[i] \in X THEN keep[i-1]
                               ELSE Append(keep[i-1], q[i])
  IN keep[Len(q)]

(* Mutated form of Remaining: what the flush read at first is written back.*)
RemainingOfFirst(p) == Without(read[p], flushed[p])

(* The entries of a fresh read that this flush has not uploaded.           *)
Remaining(p) == Without(queue, flushed[p])

(* The oldest entries go until the queue is within its bound.              *)
Bounded(q) == Without(q, {r \in ToSet(q) :
                Cardinality({s \in ToSet(q) : ts[s] < ts[r]}) + MaxCount < Len(q)})

(* readRetryQueue; the archives of dropped entries are deleted.            *)
ReadQueue(p) ==
  /\ pc[p] = "read"
  /\ LET new  == IF phase[p] = "flush" THEN Remaining(p) ELSE Bounded(Append(queue, p))
         gone == IF phase[p] = "flush" THEN {} ELSE ToSet(Append(queue, p)) \ ToSet(new)
     IN /\ body' = [body EXCEPT ![p] = new]
        /\ archives' = archives \ gone /\ dropped' = dropped \cup gone
        /\ UNCHANGED <<delivered, ts>>
        /\ Go(p, IF phase[p] = "flush" /\ Len(new) = Len(queue) THEN "release" ELSE "write")
  /\ UNCHANGED <<queue, lock, phase, read, next, flushed, holds, crashes>>

(* writeRetryQueue: the file is replaced.                                  *)
WriteQueue(p) ==
  /\ pc[p] = "write"
  /\ queue' = body[p]
  /\ Go(p, "release")
  /\ UNCHANGED <<archives, lock, sentVars, phase, read, next, flushed, body, holds, crashes>>

Crash(p) ==
  /\ crashes < MaxCrash /\ pc[p] \notin {"done", "crashed"}
  /\ crashes' = crashes + 1
  /\ Go(p, "crashed")
  /\ holds' = [holds EXCEPT ![p] = FALSE]
  /\ UNCHANGED <<fileVars, sentVars, phase, read, next, flushed, body>>

-----------------------------------------------------------------------------
Step(p) == \/ Flush(p) \/ Retry(p) \/ Upload(p) \/ PackFails(p)
           \/ OpenLock(p) \/ StatLock(p) \/ Reclaim(p) \/ FailsOpen(p)
           \/ ReadQueue(p) \/ WriteQueue(p) \/ Release(p)

Next == \/ \E p \in Procs : Step(p) \/ Crash(p)
        \/ LockAges

(* A process that has not crashed runs; it polls the lock only until its   *)
(* timeout.                                                                *)
Spec == Init /\ [][Next]_vars
        /\ \A p \in Procs : /\ WF_vars(Step(p))
                            /\ SF_vars(FailsOpen(p) \/ (OpenLock(p) /\ Creates(p)))

-----------------------------------------------------------------------------
(* Properties.                                                             *)

TypeOK ==
  /\ queue \in Seq(Runs) /\ Len(queue) <= MaxCount
  /\ archives \subseteq Runs /\ delivered \subseteq Runs /\ dropped \subseteq Runs
  /\ lock \in [exists : BOOLEAN, stale : BOOLEAN, by : Procs \cup {"nobody"},
               token : Procs \cup {"none"}]
  /\ pc \in [Procs -> Locking \cup {"flush", "retry", "upload", "read", "write", "release",
                                    "done", "crashed"}]
  /\ phase \in [Procs -> {"flush", "append"}]
  /\ \A p \in Procs : /\ read[p] \in Seq(Runs) /\ next[p] \in Nat
                      /\ body[p] \in Seq(Runs)
                      /\ flushed[p] \subseteq Runs
  /\ holds \in [Procs -> BOOLEAN] /\ crashes \in 0..MaxCrash

(* Until a process crashes, no two are between the read and the write of   *)
(* the queue at a time.                                                    *)
MutualExclusion ==
  crashes = 0 => \A p, q \in Procs :
    pc[p] \in {"read", "write", "release"} /\ pc[q] \in {"read", "write", "release"} => p = q

(* Until a process crashes, every pending archive has its entry once its   *)
(* process is done, whoever flushed or appended meanwhile (flushRetryQueue:*)
(* "never silently clobbered by this flush's own write-back").             *)
NoEntryLost ==
  crashes = 0 => \A r \in archives : (r \in Procs => pc[r] = "done") => r \in ToSet(queue)

(* Whatever crashes and whoever goes on without the lock, an archive is    *)
(* deleted only when the server has it, or when the bound drops it.        *)
NothingDeletedUnsent ==
  [][\A r \in archives \ archives' : r \in delivered' \cup dropped']_vars

(* No crash and no lock keeps an upload from ending (fail-open).           *)
EveryUploadEnds == \A p \in Procs : <>(pc[p] \in {"done", "crashed"})

(* "if a concurrent reclaimer's own recreate-and-write lands in between,   *)
(* this attempt's read-back will observe a token that is not its own"      *)
(* (upload-run.mjs:310): two processes never both take the lock for theirs.*)
OneHolder == \A p, q \in Procs : holds[p] /\ holds[q] => p = q

=============================================================================
