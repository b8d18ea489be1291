----------------------------- MODULE TeamIngest -----------------------------
(***************************************************************************)
(* The team's collection of dogfooding runs: clients upload the archive of *)
(* a run until an upload is confirmed; the ingest server stores it under   *)
(* person, day and run; the cron judge, one at a time, extracts every      *)
(* archive without a marker, judges its captures, marks it, and commits    *)
(* what it filed.                                                          *)
(*                                                                         *)
(* Source: scripts/team/ingest-server.mjs, scripts/team/issue-key.mjs,     *)
(*         scripts/team/archive-extract.mjs,                               *)
(*         scripts/team/cron-ingest-wrapup.mjs                             *)
(***************************************************************************)
EXTENDS Naturals, FiniteSets

CONSTANTS RunIds,        \* run ids; a run has one archive and one person
          Contents,      \* what the archive of a run may be, among
                         \*   captures, refused, unreadable, dangling, oversize
          Captures,      \* the captures of an archive that has some
          MaxRequest,    \* bound: uploads
          MaxDay,        \* bound: days
          MaxAdmin,      \* bound: keys issued or revoked
          MaxFault       \* bound: crashes, broken streams, lost answers, git failures

ASSUME TeamAssumption ==
         /\ RunIds # {}
         /\ Contents \subseteq {"captures", "refused", "unreadable", "dangling", "oversize"}
         /\ MaxRequest \in Nat /\ MaxDay \in Nat /\ MaxAdmin \in Nat /\ MaxFault \in Nat

Requests == 1..MaxRequest
Days == 0..MaxDay
Paths == RunIds \X Days
Nothing == <<>>

VARIABLES
  content,     \* [RunIds -> Contents]
  confirmed,   \* runs whose client was told 200
  \* the server
  today,
  key,         \* the registry: the key of each person is valid or revoked
  request,     \* [Requests -> [run, day, pc]]: new, streaming, stored, over
  storage,     \* the archives stored, by path
  temps,       \* temporary files on disk, by request
  marked,      \* the archives with a .processed.json
  \* the judge
  stage,       \* idle, archive, capture, mark
  todo,        \* discovered and not begun
  at,          \* the archive it judges
  left,        \* its captures not yet judged
  scratch,     \* scratch directories on disk
  filedCount,  \* captures filed in this tick
  unsettled,   \* an archive or capture of this tick ended in an error: it exits with 1
  uncommitted, \* filed and not committed
  tried,       \* [Paths -> Nat]: how often an archive was begun (history)
  judgeCrashes, \* crashes of the judge (history)
  admins, faults

serverVars == <<today, key, request, storage, temps, confirmed>>
judgeVars == <<stage, todo, at, left, scratch, filedCount, unsettled>>
boundVars == <<judgeCrashes, admins, faults>>
ingestVars == <<content, serverVars, marked, judgeVars, tried, uncommitted, boundVars>>

Faulty == faults < MaxFault /\ faults' = faults + 1
PathOf(i) == <<request[i].run, request[i].day>>
At(i, l) == request[i].pc = l
NoRequest(l) == [run |-> CHOOSE r \in RunIds : TRUE, day |-> 0, pc |-> l]
Ends(i) == request' = [request EXCEPT ![i] = NoRequest("over")]

-----------------------------------------------------------------------------
(* issue-key.mjs: a new key replaces that of the person; one is revoked.   *)
Administer(r) ==
  /\ admins < MaxAdmin /\ admins' = admins + 1
  /\ \E k \in {"valid", "revoked"} \ {key[r]} : key' = [key EXCEPT ![r] = k]
  /\ UNCHANGED <<content, today, request, storage, temps, confirmed, marked,
                 judgeVars, tried, judgeCrashes, uncommitted, faults>>

(* handleRequest, up to the pipeline: a request with an unknown or revoked *)
(* key is answered 401, one that announces too much 413; a client need not *)
(* announce a length.  The day is that on which the request arrives.       *)
Authentic(r) == key[r] = "valid"

Receive(i, r) ==
  /\ At(i, "new") /\ r \notin confirmed
  /\ \A j \in 1..(i-1) : ~At(j, "new")
  /\ \E announced \in BOOLEAN :
       LET accepts == Authentic(r) /\ ~(announced /\ content[r] = "oversize")
       IN /\ request' = [request EXCEPT ![i] =
                           IF accepts THEN [run |-> r, day |-> today, pc |-> "streaming"]
                                      ELSE NoRequest("over")]
          /\ temps' = IF accepts THEN temps \cup {i} ELSE temps
  /\ UNCHANGED <<content, today, key, storage, confirmed, marked, judgeVars,
                 tried, uncommitted, boundVars>>

(* Mutated form of Confirms: the answer does not wait for the rename.      *)
ConfirmsEarly(i) == At(i, "streaming") \/ At(i, "stored")

(* The answer 200 comes after the rename.                                  *)
Confirms(i) == At(i, "stored")

(* createByteCounterGuard: the stream ends with an error past the limit.   *)
WithinLimit(i) == content[request[i].run] # "oversize"

(* The stream has ended: the temporary file is renamed over the archive.   *)
Store(i) ==
  /\ At(i, "streaming") /\ WithinLimit(i)
  /\ storage' = storage \cup {PathOf(i)}
  /\ temps' = temps \ {i}
  /\ request' = [request EXCEPT ![i].pc = "stored"]
  /\ UNCHANGED <<content, today, key, confirmed, marked, judgeVars, tried,
                 uncommitted, boundVars>>

Answer(i) ==
  /\ Confirms(i)
  /\ confirmed' = confirmed \cup {request[i].run}
  /\ Ends(i)
  /\ UNCHANGED <<content, today, key, storage, temps, marked, judgeVars, tried,
                 uncommitted, boundVars>>

(* The stream breaks, or is too long, and the temporary file is unlinked.  *)
StreamBreaks(i) ==
  /\ At(i, "streaming")
  /\ Faulty \/ (~WithinLimit(i) /\ UNCHANGED faults)
  /\ temps' = temps \ {i}
  /\ Ends(i)
  /\ UNCHANGED <<content, today, key, storage, confirmed, marked, judgeVars,
                 tried, judgeCrashes, uncommitted, admins>>

(* The server goes down in the middle of its requests.                     *)
ServerCrash ==
  /\ Faulty
  /\ request' = [i \in Requests |->
                   IF request[i].pc \in {"streaming", "stored"}
                   THEN NoRequest("over") ELSE request[i]]
  /\ UNCHANGED <<content, today, key, storage, temps, confirmed, marked,
                 judgeVars, tried, judgeCrashes, uncommitted, admins>>

Midnight ==
  /\ today < MaxDay /\ today' = today + 1
  /\ UNCHANGED <<content, key, request, storage, temps, confirmed, marked,
                 judgeVars, tried, uncommitted, boundVars>>

Server == \/ \E i \in Requests : \/ \E r \in RunIds : Receive(i, r)
                                 \/ Store(i) \/ Answer(i) \/ StreamBreaks(i)
          \/ ServerCrash \/ Midnight
          \/ \E r \in RunIds : Administer(r)

-----------------------------------------------------------------------------
(* cron-ingest-wrapup.mjs                                                  *)

(* Mutated form of Unprocessed: the marker is not looked for.              *)
UnprocessedAll == storage

(* discoverUnprocessedArchives: neither a temporary file nor a marker has  *)
(* the name of an archive.                                                 *)
Unprocessed == storage \ marked

Tick ==
  /\ stage = "idle"
  /\ todo' = Unprocessed
  /\ filedCount' = 0 /\ unsettled' = FALSE
  /\ stage' = "archive"
  /\ UNCHANGED <<content, serverVars, marked, at, left, scratch,
                 tried, uncommitted, boundVars>>

(* Mutated form of GoesOn: an exception ends the tick.                     *)
GoesOnNever(p) == todo' = {}

(* The loop over the archives goes on, whatever became of one of them.     *)
GoesOn(p) == todo' = todo \ {p}

(* Bound: beyond this an archive was tried once more than crashes explain. *)
MaxTried == MaxFault + 2
Begins(p) == tried' = [tried EXCEPT ![p] = IF @ < MaxTried THEN @ + 1 ELSE @]

(* extractArchiveSafely refuses it (listing, entry count, unsafe path, hard*)
(* link, size during or after extraction, escape, failure of tar): marked. *)
Refuse(p) ==
  /\ stage = "archive" /\ p \in todo /\ content[p[1]] = "refused"
  /\ marked' = marked \cup {p}
  /\ todo' = todo \ {p}
  /\ unsettled' = TRUE
  /\ Begins(p)
  /\ UNCHANGED <<content, serverVars, stage, at, left, scratch, filedCount,
                 uncommitted, boundVars>>

(* It throws: a link of the archive has no target, so realpath fails with  *)
(* an error that is no PathSandboxError.  The tick goes on.                *)
Throw(p) ==
  /\ stage = "archive" /\ p \in todo /\ content[p[1]] = "dangling"
  /\ scratch' = scratch \cup {p}
  /\ GoesOn(p)
  /\ unsettled' = TRUE
  /\ Begins(p)
  /\ UNCHANGED <<content, serverVars, marked, stage, at, left, filedCount,
                 uncommitted, boundVars>>

(* extractBounded: tar ends well, and within the size polled meanwhile.    *)
Extracts(p) == content[p[1]] \in {"captures", "unreadable"}

(* It extracts.  processArchive marks an archive with no single readable   *)
(* report, or a corpus without a policy; else it judges capture by capture.*)
Extract(p) ==
  /\ stage = "archive" /\ p \in todo /\ Extracts(p)
  /\ scratch' = scratch \cup {p}
  /\ at' = p /\ todo' = todo \ {p}
  /\ LET readable == content[p[1]] = "captures"
     IN /\ left' = IF readable THEN Captures ELSE {}
        /\ stage' = IF readable THEN "capture" ELSE "mark"
        /\ unsettled' = (unsettled \/ ~readable)
  /\ Begins(p)
  /\ UNCHANGED <<content, serverVars, marked, filedCount,
                 uncommitted, boundVars>>

(* wrapUpCapture files the capture, does not, is refused by the guard of   *)
(* the queue, or throws, which is recorded; the next one is judged.        *)
Capture(c) ==
  /\ stage = "capture" /\ c \in left
  /\ \E outcome \in {"filed", "no", "conflict", "error"} :
       /\ filedCount' = IF outcome = "filed" THEN filedCount + 1 ELSE filedCount
       /\ uncommitted' = (uncommitted \/ outcome \in {"filed", "conflict"})
       /\ unsettled' = (unsettled \/ outcome \in {"conflict", "error"})
  /\ left' = left \ {c} /\ stage' = (IF left = {c} THEN "mark" ELSE "capture")
  /\ UNCHANGED <<content, serverVars, marked, todo, at, scratch, tried, boundVars>>

(* The marker is written; finally, the scratch directory goes.             *)
Mark ==
  /\ stage = "mark"
  /\ marked' = marked \cup {at}
  /\ scratch' = scratch \ {at}
  /\ at' = Nothing /\ stage' = "archive"
  /\ UNCHANGED <<content, serverVars, todo, left, filedCount, unsettled, tried,
                 uncommitted, boundVars>>

(* writeBackQueue, only when this tick filed something; then the exit, with*)
(* code 1 for summary.errors, archiveErrors or terminalConflicts.          *)
WriteBack ==
  /\ stage = "archive" /\ todo = {}
  /\ \/ /\ uncommitted' = (uncommitted /\ filedCount = 0)
        /\ UNCHANGED faults
     \/ filedCount > 0 /\ Faulty /\ UNCHANGED uncommitted
  /\ stage' = "idle" /\ filedCount' = 0
  /\ UNCHANGED <<content, serverVars, marked, todo, at, left, scratch,
                 unsettled, tried, judgeCrashes, admins>>

JudgeCrash ==
  /\ stage # "idle" /\ Faulty
  /\ stage' = "idle" /\ todo' = {} /\ at' = Nothing /\ left' = {} /\ filedCount' = 0
  /\ unsettled' = TRUE /\ judgeCrashes' = judgeCrashes + 1
  /\ UNCHANGED <<content, serverVars, marked, scratch, tried, uncommitted,
                 admins>>

Judge == \/ Tick
         \/ \E p \in Paths : Refuse(p) \/ Throw(p) \/ Extract(p)
         \/ \E c \in Captures : Capture(c)
         \/ Mark \/ WriteBack

IngestInit ==
  /\ content \in [RunIds -> Contents]
  /\ confirmed = {} /\ today = 0 /\ key = [r \in RunIds |-> "valid"]
  /\ request = [i \in Requests |-> NoRequest("new")]
  /\ storage = {} /\ temps = {} /\ marked = {}
  /\ stage = "idle" /\ todo = {} /\ at = Nothing /\ left = {} /\ scratch = {}
  /\ filedCount = 0 /\ unsettled = FALSE
  /\ uncommitted = FALSE /\ tried = [p \in Paths |-> 0] /\ judgeCrashes = 0
  /\ admins = 0 /\ faults = 0

IngestNext == Server \/ Judge \/ JudgeCrash

(* The job starts the judge again and again, and lets a tick run.          *)
IngestSpec == IngestInit /\ [][IngestNext]_ingestVars /\ WF_ingestVars(Judge)

-----------------------------------------------------------------------------
(* Properties.                                                             *)

IngestTypeOK ==
  /\ content \in [RunIds -> Contents] /\ confirmed \subseteq RunIds /\ today \in Days
  /\ key \in [RunIds -> {"valid", "revoked"}]
  /\ request \in [Requests -> [run : RunIds, day : Days,
                               pc : {"new", "streaming", "stored", "over"}]]
  /\ storage \subseteq Paths /\ marked \subseteq Paths /\ temps \subseteq Requests
  /\ stage \in {"idle", "archive", "capture", "mark"}
  /\ todo \subseteq Paths /\ at \in Paths \cup {Nothing} /\ left \subseteq Captures
  /\ scratch \subseteq Paths /\ tried \in [Paths -> Nat] /\ judgeCrashes \in 0..MaxFault
  /\ filedCount \in Nat /\ unsettled \in BOOLEAN
  /\ uncommitted \in BOOLEAN /\ admins \in 0..MaxAdmin /\ faults \in 0..MaxFault

(* The client deletes its copy of a run once an upload is confirmed: the   *)
(* archive is stored by then, whatever crashes.                            *)
ConfirmedIsStored == \A r \in confirmed : \E d \in Days : <<r, d>> \in storage

(* An archive is judged once for each time the judge crashed, and once     *)
(* more, however often its run is uploaded to that path, also while it is  *)
(* judged, and however many ticks pass over it.                            *)
JudgedOnce == \A p \in Paths : content[p[1]] # "dangling" => tried[p] <= 1 + judgeCrashes

(* Every archive that extracts, or is refused, is marked in the end: no    *)
(* other archive, no capture and no crash keeps the judge from it.         *)
EveryArchiveIsMarked ==
  \A p \in Paths : p \in storage /\ content[p[1]] # "dangling" ~> p \in marked

(* "a permanently-broken archive is never retried forever"                 *)
(* (cron-ingest-wrapup.mjs:270): only a crash makes a later tick try again *)
(* what an earlier one has tried.                                          *)
NeverRetried == \A p \in Paths : tried[p] <= 1 + judgeCrashes

(* "a retried upload of the same run lands at the SAME storage path and is *)
(* skipped here" (cron-ingest-wrapup.mjs:22): a run is judged once.        *)
RunJudgedOnce ==
  judgeCrashes = 0 => \A r \in RunIds : Cardinality({d \in Days : tried[<<r, d>>] > 0}) <= 1
=============================================================================
