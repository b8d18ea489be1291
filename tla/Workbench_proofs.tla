--------------------------- MODULE Workbench_proofs ---------------------------
(***************************************************************************)
(* What holds of Workbench for any number of calls and edits, every        *)
(* project, every configuration and every capacity of the recorder: first  *)
(* the recorder, then the options of a load, then the import graph.        *)
(***************************************************************************)
EXTENDS Workbench, FiniteSetTheorems, WellFoundedInduction, TLAPS

(* A stretch of recorded actions and the buffer it was drained from.       *)
Heads(d, b) == Len(d) <= Len(b) /\ d = SubSeq(b, 1, Len(d))

LEMMA HeadsGrows ==
  ASSUME NEW d \in Seq(Calls), NEW b \in Seq(Calls), Heads(d, b), NEW c \in Calls
  PROVE Heads(d, Append(b, c))
  BY DEF Heads

LEMMA HeadsOfItself == ASSUME NEW b \in Seq(Calls) PROVE Heads(b, b)
  BY DEF Heads

(* What was drained and what commitDrainedActions leaves make the buffer.  *)
LEMMA HeadAndRest ==
  ASSUME NEW a \in Seq(Calls), NEW d \in Seq(Calls), NEW b \in Seq(Calls), Heads(d, b)
  PROVE /\ SubSeq(b, Len(d) + 1, Len(b)) \in Seq(Calls)
        /\ (a \o d) \o SubSeq(b, Len(d) + 1, Len(b)) = a \o b
<1> DEFINE n == Len(d)
           t == SubSeq(b, n + 1, Len(b))
<1>1. n \in Nat /\ Len(b) \in Nat /\ n <= Len(b) /\ d = SubSeq(b, 1, n)
  BY DEF Heads
<1>2. t \in Seq(Calls) /\ Len(t) = Len(b) - n
  BY <1>1
<1>3. \A i \in 1..Len(t) : t[i] = b[n + i]
  BY <1>1
<1>4. \A i \in 1..n : d[i] = b[i]
  BY <1>1
<1> HIDE DEF t, n
<1>5. /\ (a \o d) \o t \in Seq(Calls) /\ a \o b \in Seq(Calls)
      /\ Len((a \o d) \o t) = Len(a \o b)
  <2>1. a \o d \in Seq(Calls) /\ Len(a \o d) = Len(a) + n /\ Len(a) \in Nat
    BY DEF n
  <2>2. (a \o d) \o t \in Seq(Calls) /\ Len((a \o d) \o t) = Len(a) + n + Len(t)
    BY <1>2, <2>1
  <2>3. a \o b \in Seq(Calls) /\ Len(a \o b) = Len(a) + Len(b)
    OBVIOUS
  <2>4. Len(a) + n + Len(t) = Len(a) + Len(b)
    BY <1>1, <1>2, <2>1
  <2> QED BY <2>2, <2>3, <2>4
<1>6. ASSUME NEW i \in 1..Len(a \o b) PROVE ((a \o d) \o t)[i] = (a \o b)[i]
  <2>1. CASE i <= Len(a)
    BY <1>1, <1>2, <2>1 DEF n
  <2>2. CASE i > Len(a) /\ i <= Len(a) + n
    BY <1>1, <1>2, <1>4, <2>2 DEF n
  <2>3. CASE i > Len(a) + n
    <3> DEFINE j == i - Len(a) - n
    <3>1. j \in 1..Len(t) /\ ((a \o d) \o t)[i] = t[j]
      BY <1>1, <1>2, <2>3 DEF n
    <3>2. t[j] = b[n + j] /\ n + j = i - Len(a)
      BY <1>1, <1>3, <3>1
    <3>3. (a \o b)[i] = b[i - Len(a)]
      BY <1>1, <2>3
    <3> QED BY <3>1, <3>2, <3>3
  <2>4. i \in Nat /\ Len(a) \in Nat
    OBVIOUS
  <2>5. i <= Len(a) \/ (i > Len(a) /\ i <= Len(a) + n) \/ i > Len(a) + n
    BY <1>1, <2>4
  <2> QED BY <2>1, <2>2, <2>3, <2>5
<1>7. (a \o d) \o t = a \o b
  BY <1>5, <1>6
<1> QED BY <1>2, <1>7 DEF t, n

-----------------------------------------------------------------------------
(* The invariant: while a capture is in flight it is the only one, and what*)
(* it drained still heads the buffer.                                      *)
KeptInv ==
  /\ buffer \in Seq(Calls) /\ archive \in Seq(Calls)
  /\ DOMAIN pc = Calls /\ DOMAIN draft = Calls
  /\ \A c \in Calls : Capturing(c) => inFlight = TRUE
  /\ \A c, d \in Calls : Capturing(c) /\ Capturing(d) => c = d
  /\ \A c \in Calls : Capturing(c) => /\ "actions" \in DOMAIN draft[c]
                                      /\ draft[c].actions \in Seq(Calls)
                                      /\ Heads(draft[c].actions, buffer)

(* Steps that record and capture nothing.                                  *)
LEMMA SilentKeeps ==
  ASSUME KeptInv, UNCHANGED <<buffer, archive, inFlight, draft>>,
         DOMAIN pc' = Calls, \A c \in Calls : Capturing(c)' => Capturing(c)
  PROVE KeptInv' /\ UNCHANGED <<archive \o buffer, Len(archive)>>
  BY DEF KeptInv

(* The action is appended, or the buffer is full.                          *)
LEMMA RecordStep ==
  ASSUME KeptInv, NEW c \in Calls, RecordAction(c)
  PROVE KeptInv' /\ [Log!Next]_<<archive \o buffer, Len(archive)>>
<1>1. /\ buffer \in Seq(Calls) /\ archive \in Seq(Calls)
      /\ UNCHANGED <<inFlight, draft, archive>>
      /\ buffer' = buffer \/ buffer' = Append(buffer, c)
      /\ pc' = [pc EXCEPT ![c] = "done"] /\ DOMAIN pc = Calls
  BY DEF RecordAction, Appended, Goes, captureVars, KeptInv
<1>2. DOMAIN pc' = Calls /\ \A d \in Calls : Capturing(d)' => Capturing(d)
  BY <1>1 DEF Capturing
<1>3. ASSUME NEW d \in Calls, Capturing(d)'
      PROVE draft[d].actions \in Seq(Calls) /\ Heads(draft[d].actions, buffer')
  <2>1. draft[d].actions \in Seq(Calls) /\ Heads(draft[d].actions, buffer)
    BY <1>2, <1>3 DEF KeptInv
  <2> QED BY <1>1, <2>1, HeadsGrows
<1>4. KeptInv'
  BY <1>1, <1>2, <1>3 DEF KeptInv
<1>5. CASE buffer' = Append(buffer, c)
  <2>1. archive' \o buffer' = Append(archive \o buffer, c)
    BY <1>1, <1>5
  <2>2. Log!Record(c)
    BY <1>1, <2>1 DEF Log!Record
  <2> QED BY <1>4, <2>2 DEF Log!Next
<1>6. CASE buffer' = buffer
  BY <1>1, <1>4, <1>6
<1> QED BY <1>1, <1>5, <1>6

LEMMA GoesElsewhere ==
  ASSUME KeptInv, NEW c \in Calls, NEW step, step \notin {"source", "goal", "writing"},
         Goes(c, step), UNCHANGED <<buffer, archive, inFlight, draft>>
  PROVE KeptInv' /\ UNCHANGED <<archive \o buffer, Len(archive)>>
<1>1. DOMAIN pc' = Calls /\ \A d \in Calls : Capturing(d)' => Capturing(d)
  BY DEF Goes, KeptInv, Capturing
<1> QED BY <1>1, SilentKeeps

LEMMA StaysThere ==
  ASSUME KeptInv, UNCHANGED <<buffer, archive, inFlight, draft, pc>>
  PROVE KeptInv' /\ UNCHANGED <<archive \o buffer, Len(archive)>>
<1>1. DOMAIN pc' = Calls /\ \A d \in Calls : Capturing(d)' => Capturing(d)
  BY DEF KeptInv, Capturing
<1> QED BY <1>1, SilentKeeps

(* A capture begins when none is in flight, and drains the whole buffer.   *)
LEMMA BeginsStep ==
  ASSUME KeptInv, NEW c \in Calls, CaptureBegins(c)
  PROVE KeptInv' /\ UNCHANGED <<archive \o buffer, Len(archive)>>
<1> DEFINE new == [BuildReplayManifest EXCEPT !.actions = buffer, !.told = dropped]
<1>1. /\ \E step \in {"writing", "source"} : pc' = [pc EXCEPT ![c] = step]
      /\ inFlight' = TRUE /\ ~inFlight /\ draft' = [draft EXCEPT ![c] = new]
      /\ UNCHANGED <<buffer, archive>>
  BY DEF CaptureBegins, Begin, Goes, MayCapture, recorderVars
<1>2. new.actions = buffer /\ "actions" \in DOMAIN new
  BY DEF BuildReplayManifest
<1> HIDE DEF new
<1>3. /\ DOMAIN pc' = Calls /\ DOMAIN draft' = Calls /\ draft'[c] = new
      /\ \A d \in Calls : Capturing(d)' => d = c
  BY <1>1 DEF KeptInv, Capturing
<1>4. Heads(new.actions, buffer) /\ new.actions \in Seq(Calls)
  BY <1>2, HeadsOfItself DEF KeptInv
<1> QED BY <1>1, <1>2, <1>3, <1>4 DEF KeptInv

(* Setting one field of a record keeps another.                            *)
LEMMA KeepsField ==
  ASSUME NEW r, "actions" \in DOMAIN r, NEW f
  PROVE LET w == [r EXCEPT !.goalOf = f] IN w.actions = r.actions /\ "actions" \in DOMAIN w
  OBVIOUS

(* The substrate is collected: what was drained does not change.           *)
LEMMA SubstrateStep ==
  ASSUME KeptInv, NEW c \in Calls, SourceRead(c) \/ GoalTyped(c)
  PROVE KeptInv' /\ UNCHANGED <<archive \o buffer, Len(archive)>>
<1>1. /\ Capturing(c) /\ UNCHANGED <<buffer, archive, inFlight>>
      /\ \E step : pc' = [pc EXCEPT ![c] = step]
      /\ \/ draft' = draft
         \/ \E f : draft' = [draft EXCEPT ![c] = [draft[c] EXCEPT !.goalOf = f]]
  BY DEF SourceRead, GoalTyped, Goes, Capturing, recorderVars
<1>2. DOMAIN pc' = Calls /\ \A d \in Calls : Capturing(d)' => Capturing(d)
  BY <1>1 DEF KeptInv, Capturing
<1>3. DOMAIN draft' = Calls /\ \A d \in Calls : d # c => draft'[d] = draft[d]
  BY <1>1 DEF KeptInv
<1>4. draft'[c].actions = draft[c].actions /\ "actions" \in DOMAIN draft'[c]
  <2>1. CASE draft' = draft
    BY <1>1, <2>1 DEF KeptInv
  <2>2. ASSUME NEW f, draft' = [draft EXCEPT ![c] = [draft[c] EXCEPT !.goalOf = f]]
        PROVE  draft'[c].actions = draft[c].actions /\ "actions" \in DOMAIN draft'[c]
    <3>1. draft'[c] = [draft[c] EXCEPT !.goalOf = f]
      BY <2>2, Zenon DEF KeptInv
    <3>2. "actions" \in DOMAIN draft[c]
      BY <1>1 DEF KeptInv
    <3> QED BY <3>1, <3>2, KeepsField, Zenon
  <2> QED BY <1>1, <2>1, <2>2
<1>5. \A d \in Calls : draft'[d].actions = draft[d].actions
  BY <1>3, <1>4
<1> QED BY <1>1, <1>2, <1>3, <1>5 DEF KeptInv

(* What a capture archives is what the log holds next, and what it leaves  *)
(* in the buffer is what came after.                                       *)
LEMMA StagedStep ==
  ASSUME KeptInv, NEW c \in Calls, CaptureStaged(c)
  PROVE KeptInv' /\ [Log!Next]_<<archive \o buffer, Len(archive)>>
<1> DEFINE d == draft[c].actions
<1>1. /\ Capturing(c) /\ archive' = archive \o d
      /\ buffer' = SubSeq(buffer, Len(d) + 1, Len(buffer))
      /\ inFlight' = FALSE /\ pc' = [pc EXCEPT ![c] = "replying"]
      /\ draft' = [draft EXCEPT ![c] = NoDraft]
  BY DEF CaptureStaged, Goes, Capturing, Rest
<1>2. d \in Seq(Calls) /\ Heads(d, buffer) /\ buffer \in Seq(Calls) /\ archive \in Seq(Calls)
  BY <1>1 DEF KeptInv
<1> HIDE DEF d
<1>3. buffer' \in Seq(Calls) /\ archive' \o buffer' = archive \o buffer
  BY <1>1, <1>2, HeadAndRest
<1>4. archive' \in Seq(Calls) /\ Len(archive') = Len(archive) + Len(d)
  BY <1>1, <1>2
<1>5. Len(archive') \in Len(archive)..Len(archive \o buffer)
  BY <1>2, <1>4 DEF Heads
<1>6. Log!Next
  BY <1>3, <1>5 DEF Log!Next, Log!Archive
<1>7. /\ DOMAIN pc' = Calls /\ DOMAIN draft' = Calls
      /\ \A e \in Calls : ~Capturing(e)'
  BY <1>1 DEF KeptInv, Capturing
<1> QED BY <1>1, <1>3, <1>4, <1>6, <1>7 DEF KeptInv

(* A capture that fails leaves the buffer as it is.                        *)
LEMMA FailsStep ==
  ASSUME KeptInv, NEW c \in Calls, CaptureFails(c)
  PROVE KeptInv' /\ UNCHANGED <<archive \o buffer, Len(archive)>>
<1>1. /\ Capturing(c) /\ inFlight' = FALSE /\ pc' = [pc EXCEPT ![c] = "replying"]
      /\ draft' = [draft EXCEPT ![c] = NoDraft] /\ UNCHANGED <<buffer, archive>>
  BY DEF CaptureFails, Goes, recorderVars
<1>2. /\ DOMAIN pc' = Calls /\ DOMAIN draft' = Calls
      /\ \A e \in Calls : ~Capturing(e)'
  BY <1>1 DEF KeptInv, Capturing
<1> QED BY <1>1, <1>2 DEF KeptInv

-----------------------------------------------------------------------------
LEMMA KeptInit == Init => KeptInv /\ Log!Init
<1> SUFFICES ASSUME Init PROVE KeptInv /\ Log!Init
  OBVIOUS
<1>1. archive = <<>> /\ buffer = <<>> /\ \A c \in Calls : pc[c] = "new"
  BY DEF Init
<1>2. \A c \in Calls : ~Capturing(c)
  BY <1>1 DEF Capturing
<1>3. DOMAIN pc = Calls /\ DOMAIN draft = Calls
  BY DEF Init
<1>4. archive \o buffer = <<>> /\ Len(archive) = 0
  BY <1>1
<1> QED BY <1>1, <1>2, <1>3, <1>4 DEF KeptInv, Log!Init

(* Every step of the server is one of the log, or none.                    *)
LEMMA KeptStep ==
  ASSUME KeptInv, [Next]_vars
  PROVE KeptInv' /\ [Log!Next]_<<archive \o buffer, Len(archive)>>
<1> DEFINE Goal == KeptInv' /\ [Log!Next]_<<archive \o buffer, Len(archive)>>
<1>0. KeptInv' /\ UNCHANGED <<archive \o buffer, Len(archive)>> => Goal
  OBVIOUS
<1> HIDE DEF Goal
<1> USE DEF recorderVars, captureVars
<1>1. ASSUME NEW c \in Calls, NEW options, NEW io, Load(c, options, io) \/ Typecheck(c, options, io)
      PROVE Goal
  BY <1>0, <1>1, GoesElsewhere DEF Load, Typecheck, Begin
<1>2. ASSUME NEW c \in Calls, NEW io, Reload(c, io) PROVE Goal
  BY <1>0, <1>2, GoesElsewhere DEF Reload, Begin
<1>3. ASSUME NEW c \in Calls, LoadRefused(c) \/ LoadNoMetas(c) \/ Loaded(c) PROVE Goal
  BY <1>0, <1>3, GoesElsewhere DEF LoadRefused, LoadNoMetas, Loaded, Begin
<1>4. ASSUME NEW c \in Calls, NEW step \in {"sweeping", "sweeping all"}, BulkBegins(c, step)
      PROVE Goal
  BY <1>0, <1>4, GoesElsewhere DEF BulkBegins, Begin
<1>5. ASSUME NEW c \in Calls, BulkLoaded(c) PROVE Goal
  BY <1>0, <1>5, StaysThere DEF BulkLoaded
<1>6. ASSUME NEW c \in Calls, NEW failed, BulkAnswers(c, failed) PROVE Goal
  BY <1>0, <1>6, GoesElsewhere DEF BulkAnswers
<1>7. ASSUME NEW c \in Calls, NEW f, Impact(c, f) \/ Postulates(c, f) PROVE Goal
  BY <1>0, <1>7, GoesElsewhere DEF Impact, Postulates, Begin
<1>8. ASSUME NEW c \in Calls, StatusBegins(c) \/ StatusAnswers(c) PROVE Goal
  BY <1>0, <1>8, GoesElsewhere DEF StatusBegins, StatusAnswers, Begin
<1>9. ASSUME NEW c \in Calls, RecordAction(c) \/ CaptureStaged(c) PROVE Goal
  BY <1>9, RecordStep, StagedStep DEF Goal
<1>10. ASSUME NEW c \in Calls, CaptureBusy(c) PROVE Goal
  BY <1>0, <1>10, GoesElsewhere DEF CaptureBusy, Begin
<1>11. ASSUME NEW c \in Calls,
              CaptureBegins(c) \/ SourceRead(c) \/ GoalTyped(c) \/ CaptureFails(c)
       PROVE Goal
  BY <1>0, <1>11, BeginsStep, SubstrateStep, FailsStep
<1>12. ASSUME NEW text, WriteConfig(text) PROVE Goal
  BY <1>0, <1>12, StaysThere DEF WriteConfig
<1>13. CASE DeleteConfig
  BY <1>0, <1>13, StaysThere DEF DeleteConfig
<1>14. CASE UNCHANGED vars
  BY <1>0, <1>14, StaysThere DEF vars
<1> QED BY <1>1, <1>2, <1>3, <1>4, <1>5, <1>6, <1>7, <1>8, <1>9, <1>10, <1>11, <1>12, <1>13, <1>14
        DEF Next, Goal

-----------------------------------------------------------------------------
(* The recorder implements the log of actions: however calls and captures  *)
(* overlap, nothing recorded is lost or archived twice                     *)
(* (recordAction, commitDrainedActions, captureInFlight).                  *)
THEOREM ActionsAreKept == Spec => EveryActionIsKept
<1>1. Init => KeptInv /\ Log!Init
  BY KeptInit
<1>2. KeptInv /\ [Next]_vars => KeptInv' /\ [Log!Next]_<<archive \o buffer, Len(archive)>>
  BY KeptStep
<1> QED BY <1>1, <1>2, PTL DEF Spec, EveryActionIsKept, Log!Spec

-----------------------------------------------------------------------------
(* Lists of options, each of them once.                                    *)

(* How many of the positions K come no later than i.                       *)
Rank(K, i) == Cardinality({j \in K : j <= i})

(* Every rank is that of one position.                                     *)
LEMMA RankLemma ==
  ASSUME NEW K \in SUBSET Nat, IsFiniteSet(K)
  PROVE /\ Cardinality(K) \in Nat
        /\ \A i \in K : Rank(K, i) \in 1..Cardinality(K)
        /\ \A i, j \in K : Rank(K, i) = Rank(K, j) => i = j
        /\ \A n \in 1..Cardinality(K) : \E i \in K : Rank(K, i) = n
<1> DEFINE Below(i) == {j \in K : j <= i}
<1>1. Cardinality(K) \in Nat
  BY FS_CardinalityType
<1>2. ASSUME NEW i \in K
      PROVE IsFiniteSet(Below(i)) /\ Cardinality(Below(i)) \in 1..Cardinality(K)
  <2>1. Below(i) \in SUBSET K /\ i \in Below(i)
    OBVIOUS
  <2> HIDE DEF Below
  <2>2. IsFiniteSet(Below(i)) /\ Cardinality(Below(i)) <= Cardinality(K)
    BY <2>1, FS_Subset
  <2>3. Cardinality(Below(i)) \in Nat /\ Cardinality(Below(i)) # 0
    BY <2>1, <2>2, FS_CardinalityType, FS_EmptySet
  <2> QED BY <1>1, <2>2, <2>3
<1>3. ASSUME NEW i \in K, NEW j \in K, i < j PROVE Cardinality(Below(i)) # Cardinality(Below(j))
  <2>0. i \in Nat /\ j \in Nat /\ ~(j <= i) /\ \A k \in K : k \in Nat /\ (k <= i => k <= j)
    BY <1>3
  <2>1. Below(i) \in SUBSET Below(j)
    BY <2>0
  <2>3. j \in Below(j) /\ j \notin Below(i)
    BY <2>0
  <2> DEFINE A == Below(i)
             B == Below(j)
  <2>2. IsFiniteSet(B) /\ A \in SUBSET B /\ A # B
    BY <1>2, <2>1, <2>3
  <2> HIDE DEF A, B
  <2>4. Cardinality(B) # Cardinality(A)
    BY <2>2, FS_Subset
  <2> QED BY <2>4 DEF A, B
<1>4. ASSUME NEW i \in K, NEW j \in K, Cardinality(Below(i)) = Cardinality(Below(j)) PROVE i = j
  <2>1. i \in Nat /\ j \in Nat
    OBVIOUS
  <2> QED BY <1>3, <1>4, <2>1
<1> DEFINE f == [i \in K |-> Cardinality(Below(i))]
           I == 1..Cardinality(K)
<1>5. f \in Injection(K, I)
  BY <1>2, <1>4 DEF Injection, IsInjective
<1>6. IsFiniteSet(I) /\ Cardinality(I) = Cardinality(K)
  BY <1>1, FS_Interval
<1> HIDE DEF f, I
<1>7. f \in Surjection(K, I)
  BY <1>5, <1>6, FS_Injection
<1>8. \A n \in I : \E i \in K : f[i] = n
  BY <1>7 DEF Surjection
<1> QED BY <1>1, <1>2, <1>4, <1>8 DEF f, I, Rank

(* At lists the elements at the positions, each where its rank is.         *)
LEMMA AtLemma ==
  ASSUME NEW S, NEW s \in Seq(S), NEW K \in SUBSET DOMAIN s, NEW T, \A i \in K : s[i] \in T
  PROVE /\ At(s, K) \in Seq(T)
        /\ Len(At(s, K)) = Cardinality(K) /\ Cardinality(K) \in Nat
        /\ \A i \in K : Rank(K, i) \in 1..Cardinality(K) /\ At(s, K)[Rank(K, i)] = s[i]
        /\ ToSet(At(s, K)) = {s[i] : i \in K}
<1> DEFINE N == Cardinality(K)
           At_(n) == CHOOSE i \in K : Rank(K, i) = n
<1>1. K \in SUBSET Nat /\ IsFiniteSet(K)
  <2>1. DOMAIN s = 1..Len(s) /\ Len(s) \in Nat
    OBVIOUS
  <2>2. IsFiniteSet(1..Len(s))
    BY <2>1, FS_Interval
  <2> QED BY <2>1, <2>2, FS_Subset
<1>2. /\ N \in Nat
      /\ \A i \in K : Rank(K, i) \in 1..N
      /\ \A i, j \in K : Rank(K, i) = Rank(K, j) => i = j
      /\ \A n \in 1..N : \E i \in K : Rank(K, i) = n
  BY <1>1, RankLemma
<1>3. \A n \in 1..N : At_(n) \in K /\ Rank(K, At_(n)) = n
  BY <1>2
<1>4. \A i \in K : At_(Rank(K, i)) = i
  BY <1>2, <1>3
<1>5. At(s, K) = [n \in 1..N |-> s[At_(n)]]
  BY DEF At, Rank
<1> DEFINE r == At(s, K)
<1> HIDE DEF At_, N
<1>6. r \in [1..N -> T]
  BY <1>3, <1>5
<1>7. r \in Seq(T) /\ Len(r) = N /\ DOMAIN r = 1..N
  BY <1>2, <1>6
<1>8. \A i \in K : r[Rank(K, i)] = s[i]
  BY <1>2, <1>4, <1>5
<1>9. \A n \in 1..N : r[n] \in {s[i] : i \in K}
  BY <1>3, <1>5
<1> HIDE DEF r
<1>10. ToSet(r) = {s[i] : i \in K}
  BY <1>2, <1>7, <1>8, <1>9 DEF ToSet
<1> QED BY <1>2, <1>7, <1>8, <1>10 DEF r, N

(* A set of naturals has a least element.                                  *)
LEMMA Least == ASSUME NEW T \in SUBSET Nat, T # {}
               PROVE \E n \in T : \A m \in T : n <= m
<1>1. \E x \in T : \A y \in T : ~(<<y, x>> \in OpToRel(<, Nat))
  BY NatLessThanWellFounded, WFMin, Zenon
<1>2. PICK x \in T : \A y \in T : ~(y < x)
  BY <1>1 DEF OpToRel
<1> QED BY <1>2

(* A set of naturals up to n has a greatest element.                       *)
LEMMA Greatest == ASSUME NEW n \in Nat, NEW T \in SUBSET (0..n), T # {}
                  PROVE \E k \in T : \A m \in T : m <= k
<1> DEFINE U == {n - k : k \in T}
<1>1. U \in SUBSET Nat /\ U # {}
  <2>1. \A k \in T : n - k \in Nat
    OBVIOUS
  <2>2. \E k \in T : n - k \in U
    OBVIOUS
  <2> QED BY <2>1, <2>2
<1>2. PICK u \in U : \A v \in U : u <= v
  BY <1>1, Least
<1>3. PICK k \in T : u = n - k
  OBVIOUS
<1>4. ASSUME NEW m \in T PROVE m <= k
  <2>1. n - k <= n - m
    BY <1>2, <1>3
  <2> QED BY <2>1
<1> QED BY <1>4

(* KeepLast keeps every element, at its last position.                     *)
LastAt(s) == {i \in DOMAIN s : \A j \in DOMAIN s : s[j] = s[i] => j <= i}

LEMMA KeepLastLemma ==
  ASSUME NEW S, NEW s \in Seq(S)
  PROVE KeepLast(s) \in Seq(S) /\ ToSet(KeepLast(s)) = ToSet(s)
<1> DEFINE K == LastAt(s)
<1>1. K \in SUBSET DOMAIN s /\ \A i \in K : s[i] \in S
  BY DEF LastAt
<1>2. KeepLast(s) = At(s, K)
  BY DEF KeepLast, LastAt
<1>3. ASSUME NEW i \in DOMAIN s PROVE \E k \in K : s[k] = s[i]
  <2> DEFINE T == {j \in DOMAIN s : s[j] = s[i]}
  <2>1. Len(s) \in Nat /\ T \in SUBSET (0..Len(s)) /\ T # {}
    OBVIOUS
  <2>2. PICK k \in T : \A m \in T : m <= k
    BY <2>1, Greatest
  <2>3. k \in LastAt(s)
    BY <2>2 DEF LastAt
  <2> QED BY <2>2, <2>3
<1> HIDE DEF K
<1>4. At(s, K) \in Seq(S) /\ ToSet(At(s, K)) = {s[i] : i \in K}
  BY <1>1, AtLemma
<1>5. {s[i] : i \in K} = {s[i] : i \in DOMAIN s}
  BY <1>1, <1>3
<1> QED BY <1>2, <1>4, <1>5 DEF ToSet

(* The options of a call, none of them twice, come last.                   *)
LEMMA SuffixLemma ==
  ASSUME NEW S, NEW d \in Seq(S), NEW o \in Seq(S), IsInjective(o)
  PROVE IsSuffix(o, KeepLast(d \o o))
<1> DEFINE c == d \o o
           n == Len(d)
           m == Len(o)
           K == LastAt(c)
           N == Cardinality(K)
           r == At(c, K)
<1>1. /\ c \in Seq(S) /\ n \in Nat /\ m \in Nat /\ Len(c) = n + m /\ DOMAIN c = 1..(n + m)
      /\ \A k \in 1..m : c[n + k] = o[k]
  OBVIOUS
<1>2. K \in SUBSET DOMAIN c /\ \A i \in K : c[i] \in S
  BY <1>1 DEF LastAt
<1>3. KeepLast(c) = r
  BY DEF KeepLast, LastAt
<1>4. ASSUME NEW k \in 1..m PROVE n + k \in K
  <2>1. n + k \in DOMAIN c
    BY <1>1
  <2>2. ASSUME NEW j \in DOMAIN c, c[j] = c[n + k] PROVE j <= n + k
    <3>1. CASE j <= n
      BY <1>1, <3>1
    <3>2. CASE j > n
      <4>1. j - n \in 1..m /\ n + (j - n) = j
        BY <1>1, <3>2
      <4>2. o[j - n] = o[k]
        BY <1>1, <2>2, <4>1
      <4>3. j - n = k
        BY <4>1, <4>2 DEF IsInjective
      <4> QED BY <4>1, <4>3, <1>1
    <3> QED BY <1>1, <3>1, <3>2
  <2> QED BY <2>1, <2>2 DEF LastAt
<1> HIDE DEF c, K
<1>5. /\ r \in Seq(S) /\ Len(r) = N /\ N \in Nat
      /\ \A i \in K : Rank(K, i) \in 1..N /\ r[Rank(K, i)] = c[i]
  BY <1>1, <1>2, AtLemma
<1>6. IsFiniteSet(K)
  <2>1. IsFiniteSet(1..(n + m))
    BY <1>1, FS_Interval
  <2> QED BY <1>1, <1>2, <2>1, FS_Subset
<1> HIDE DEF n, m, N, r
<1>7. ASSUME NEW k \in 1..m PROVE Rank(K, n + k) = N - (m - k)
  <2> DEFINE A == (n + k + 1)..(n + m)
  <2>1. {j \in K : j <= n + k} = K \ A
    BY <1>1, <1>2
  <2>2. K \cap A = A
    <3>1. ASSUME NEW j \in A PROVE j \in K
      <4>1. j - n \in 1..m /\ n + (j - n) = j
        BY <1>1
      <4> QED BY <1>4, <4>1
    <3> QED BY <3>1
  <2>3. Cardinality(A) = m - k
    BY <1>1, FS_Interval
  <2> HIDE DEF A
  <2>4. Cardinality(K \ A) = N - (m - k)
    <3>1. Cardinality(K \ A) = Cardinality(K) - Cardinality(K \cap A)
      BY <1>6, FS_Difference
    <3> QED BY <2>2, <2>3, <3>1 DEF N
  <2> QED BY <2>1, <2>4 DEF Rank
<1>8. m <= N
  <2>1. CASE m = 0
    BY <1>5, <2>1
  <2>2. CASE m # 0
    <3>1. 1 \in 1..m
      BY <1>1, <2>2
    <3>2. N - (m - 1) \in 1..N
      BY <1>4, <1>5, <1>7, <3>1
    <3> QED BY <1>1, <1>5, <3>2
  <2> QED BY <2>1, <2>2
<1>9. ASSUME NEW k \in 1..m PROVE r[N - (m - k)] = o[k]
  BY <1>1, <1>4, <1>5, <1>7, <1>9
<1>10. ASSUME NEW i \in 1..m PROVE r[(N - i) + 1] = o[(m - i) + 1]
  <2>1. (m - i) + 1 \in 1..m /\ N - (m - ((m - i) + 1)) = (N - i) + 1
    BY <1>1, <1>5
  <2> QED BY <1>9, <2>1
<1> DEFINE ro == Reverse(o)
           rr == Reverse(r)
<1>11. ro \in Seq(S) /\ Len(ro) = m /\ \A i \in 1..m : ro[i] = o[(m - i) + 1]
  <2>1. ro = [i \in 1..m |-> o[(m - i) + 1]] /\ m = Len(o)
    BY DEF Reverse, m
  <2>2. \A i \in 1..m : o[(m - i) + 1] \in S
    BY <1>1, <2>1
  <2> QED BY <1>1, <2>1, <2>2
<1>12. rr \in Seq(S) /\ Len(rr) = N /\ \A i \in 1..N : rr[i] = r[(N - i) + 1]
  <2>1. rr = [i \in 1..N |-> r[(N - i) + 1]]
    BY <1>5 DEF Reverse
  <2>2. \A i \in 1..N : r[(N - i) + 1] \in S
    BY <1>5
  <2> QED BY <1>5, <2>1, <2>2
<1> HIDE DEF ro, rr
<1>13. SubSeq(ro, 1, m) = SubSeq(rr, 1, m)
  <2>1. \A i \in 1..m : ro[i] = rr[i]
    BY <1>1, <1>5, <1>8, <1>10, <1>11, <1>12
  <2> QED BY <1>1, <1>5, <1>8, <1>11, <1>12, <2>1
<1>14. IsPrefix(ro, rr)
  BY <1>8, <1>11, <1>12, <1>13 DEF IsPrefix
<1> QED BY <1>3, <1>14 DEF IsSuffix, ro, rr, c

-----------------------------------------------------------------------------
(* The project's options.                                                  *)

(* What the configuration file contributes to a load.                      *)
Layers == [flags : Seq(Options), warned : BOOLEAN]

(* What is kept of a text are options.                                     *)
LEMMA ParseLemma == ASSUME NEW text \in Texts PROVE ParseConfigFile(text) \in Layers
<1> DEFINE entries == text.entries
           K == {i \in DOMAIN entries : entries[i] # NotOption}
           s == At(entries, K)
           L == {i \in DOMAIN s : \A j \in DOMAIN s : s[j] = s[i] => i <= j}
<1>1. entries \in Seq(Options \cup {NotOption}) /\ text.json \in BOOLEAN
  BY WorkbenchAssumption
<1>2. K \in SUBSET DOMAIN entries /\ \A i \in K : entries[i] \in Options
  BY <1>1
<1>3. ParseConfigFile(text) =
        IF text.json
          THEN [flags |-> At(s, L), warned |-> \E i \in DOMAIN entries : entries[i] = NotOption]
          ELSE [flags |-> <<>>, warned |-> TRUE]
  BY DEF ParseConfigFile, ValidateCommandLineOptions, KeepFirst
<1> HIDE DEF entries, K
<1>4. s \in Seq(Options)
  BY <1>1, <1>2, AtLemma
<1> HIDE DEF s
<1>5. L \in SUBSET DOMAIN s /\ \A i \in L : s[i] \in Options
  BY <1>4
<1> HIDE DEF L
<1>6. At(s, L) \in Seq(Options)
  BY <1>4, <1>5, AtLemma
<1>7. (\E i \in DOMAIN entries : entries[i] = NotOption) \in BOOLEAN
  OBVIOUS
<1> HIDE DEF entries
<1>8. CASE text.json
  BY <1>3, <1>6, <1>7, <1>8 DEF Layers
<1>9. CASE ~text.json
  BY <1>3, <1>9 DEF Layers
<1> QED BY <1>8, <1>9

(* What the file has is what was written at its mtime, and an entry of the *)
(* cache with that mtime was read off it, or failed with a warning.        *)
Fits(entry, file, n) ==
  /\ entry \in [layer : Layers, mtime : 0..n, size : Nat, cached : BOOLEAN]
  /\ entry.cached /\ entry.mtime = file.mtime =>
       entry.layer.warned \/ entry.layer = ParseConfigFile(file.text)

CacheInv ==
  /\ edits \in Nat /\ config \in [present : BOOLEAN, text : Texts, mtime : 0..edits]
  /\ Fits(cache, config, edits)

(* An empty cache fits any file.                                           *)
LEMMA NoEntryFits == ASSUME NEW n \in Nat, NEW file PROVE Fits(NoEntry, file, n)
BY DEF Fits, NoEntry, Layers, Warning

(* A read returns the options on disk, or warns, and caches what fits.     *)
ReadsWell(read) == /\ Fits(read.cache, config, edits)
                   /\ read.layer \in Layers
                   /\ read.layer.warned \/ ToSet(read.layer.flags) = OptionsOnDisk

LEMMA ReadLemma ==
  ASSUME CacheInv, NEW io PROVE ReadsWell(ReadFileLayer(config, cache, io))
<1> DEFINE read == ReadFileLayer(config, cache, io)
           parsed == ParseConfigFile(config.text)
           fresh == IF config.text.size > MaxConfigBytes \/ io = "read fails" THEN Warning ELSE parsed
<1> SUFFICES ReadsWell(read)
  OBVIOUS
<1>1. /\ edits \in Nat /\ config \in [present : BOOLEAN, text : Texts, mtime : 0..edits]
      /\ Fits(cache, config, edits)
  BY DEF CacheInv
<1>2. config.text \in Texts /\ config.mtime \in 0..edits /\ config.text.size \in Nat
  BY <1>1, WorkbenchAssumption
<1>3. parsed \in Layers
  BY <1>2, ParseLemma
<1>4. config.present => OptionsOnDisk = ToSet(parsed.flags)
  BY DEF OptionsOnDisk
<1>5. Warning \in Layers /\ Warning.warned
  BY DEF Warning, Layers
<1> HIDE DEF parsed
<1>6. CASE ~config.present
  <2>1. read = [layer |-> [flags |-> <<>>, warned |-> FALSE], cache |-> NoEntry]
    BY <1>6 DEF ReadFileLayer
  <2>2. OptionsOnDisk = {} /\ ToSet(<<>>) = {}
    BY <1>6 DEF OptionsOnDisk, ToSet
  <2>3. [flags |-> <<>>, warned |-> FALSE] \in Layers
    BY DEF Layers
  <2> HIDE DEF read
  <2> QED BY <1>1, <2>1, <2>2, <2>3, NoEntryFits DEF ReadsWell
<1>7. CASE config.present /\ io = "stat fails"
  <2>1. read = [layer |-> Warning, cache |-> cache]
    BY <1>7 DEF ReadFileLayer
  <2> HIDE DEF read
  <2> QED BY <1>1, <1>5, <2>1 DEF ReadsWell
<1>8. CASE config.present /\ io # "stat fails" /\ Hit(cache, config)
  <2>1. read = [layer |-> cache.layer, cache |-> cache]
    BY <1>8 DEF ReadFileLayer
  <2>2. cache.layer \in Layers /\ (cache.layer.warned \/ cache.layer = parsed)
    BY <1>1, <1>8 DEF Fits, Hit, parsed
  <2> HIDE DEF read
  <2> QED BY <1>1, <1>4, <1>8, <2>1, <2>2 DEF ReadsWell
<1>9. CASE config.present /\ io # "stat fails" /\ ~Hit(cache, config)
  <2>1. read = [layer |-> fresh, cache |-> Entry(config, fresh)]
    BY <1>9 DEF ReadFileLayer, parsed
  <2>2. fresh \in Layers /\ (fresh.warned \/ fresh = parsed)
    BY <1>3, <1>5
  <2> HIDE DEF read, fresh
  <2>3. Fits(Entry(config, fresh), config, edits)
    BY <1>2, <2>2 DEF Fits, Entry, parsed
  <2> QED BY <1>4, <1>9, <2>1, <2>2, <2>3 DEF ReadsWell
<1> QED BY <1>6, <1>7, <1>8, <1>9

(* A concatenation has the elements of both.                                *)
LEMMA ToSetOfBoth ==
  ASSUME NEW S, NEW s \in Seq(S), NEW t \in Seq(S)
  PROVE s \o t \in Seq(S) /\ ToSet(s \o t) = ToSet(s) \cup ToSet(t)
<1>1. /\ s \o t \in Seq(S) /\ Len(s) \in Nat /\ Len(t) \in Nat
      /\ DOMAIN s = 1..Len(s) /\ DOMAIN t = 1..Len(t) /\ DOMAIN (s \o t) = 1..(Len(s) + Len(t))
      /\ \A i \in 1..Len(s) : (s \o t)[i] = s[i]
      /\ \A i \in 1..Len(t) : (s \o t)[Len(s) + i] = t[i]
  OBVIOUS
<1> DEFINE b == s \o t
<1> HIDE DEF b
<1>2. \A i \in 1..(Len(s) + Len(t)) : i \in 1..Len(s) \/ (i - Len(s) \in 1..Len(t) /\ Len(s) + (i - Len(s)) = i)
  BY <1>1
<1>3. \A i \in DOMAIN b : b[i] \in ToSet(s) \cup ToSet(t)
  BY <1>1, <1>2 DEF b, ToSet
<1>4. \A i \in DOMAIN s : s[i] \in ToSet(b)
  <2>1. \A i \in DOMAIN s : i \in DOMAIN b /\ b[i] = s[i]
    BY <1>1 DEF b
  <2> QED BY <2>1 DEF ToSet
<1>5. \A i \in DOMAIN t : t[i] \in ToSet(b)
  <2>1. \A i \in DOMAIN t : Len(s) + i \in DOMAIN b /\ b[Len(s) + i] = t[i]
    BY <1>1 DEF b
  <2> QED BY <2>1 DEF ToSet
<1>6. ToSet(b) = ToSet(s) \cup ToSet(t)
  BY <1>3, <1>4, <1>5 DEF ToSet
<1> QED BY <1>1, <1>6 DEF b

(* What a load is dispatched with.                                         *)
LEMMA DispatchStep ==
  ASSUME CacheInv, NEW options \in Seq(Options), IsInjective(options), NEW io,
         Dispatched(options, io), UNCHANGED <<config, edits>>
  PROVE CacheInv' /\ OptionsAreCurrent'
<1> DEFINE read == ReadFileLayer(config, cache, io)
           flags == read.layer.flags \o EnvOptions
           sent == KeepLast(flags \o options)
<1>1. /\ cache' = read.cache
      /\ answer' = [kind |-> "load", options |-> options, warned |-> read.layer.warned, sent |-> sent]
  BY DEF Dispatched, MergeCommandLineOptions
<1>2. /\ Fits(read.cache, config, edits)
      /\ read.layer.flags \in Seq(Options)
      /\ read.layer.warned \/ ToSet(read.layer.flags) = OptionsOnDisk
  BY ReadLemma DEF Layers, ReadsWell
<1>3. CacheInv'
  BY <1>1, <1>2 DEF CacheInv
<1> DEFINE f == read.layer.flags
           w == read.layer.warned
<1>4. EnvOptions \in Seq(Options)
  BY WorkbenchAssumption
<1> HIDE DEF f, w, read
<1>5. f \in Seq(Options) /\ (w \/ ToSet(f) = OptionsOnDisk)
  BY <1>2 DEF f, w
<1>6. flags \in Seq(Options) /\ ToSet(flags) = ToSet(f) \cup ToSet(EnvOptions)
  BY <1>4, <1>5, ToSetOfBoth DEF f
<1> HIDE DEF flags
<1>7. flags \o options \in Seq(Options) /\ ToSet(flags \o options) = ToSet(flags) \cup ToSet(options)
  BY <1>6, ToSetOfBoth
<1>8. ToSet(sent) = ToSet(flags) \cup ToSet(options)
  BY <1>7, KeepLastLemma
<1>9. IsSuffix(options, sent)
  BY <1>6, SuffixLemma
<1> HIDE DEF sent
<1>10. OptionsOnDisk' = OptionsOnDisk
  BY DEF OptionsOnDisk
<1>11. answer'.options = options /\ answer'.sent = sent /\ answer'.warned = w
  BY <1>1 DEF w
<1>12. \/ ToSet(answer'.sent) = OptionsOnDisk' \cup ToSet(EnvOptions) \cup ToSet(answer'.options)
       \/ answer'.warned
  BY <1>5, <1>6, <1>8, <1>10, <1>11
<1>13. OptionsAreCurrent'
  BY <1>9, <1>11, <1>12 DEF OptionsAreCurrent
<1> QED BY <1>3, <1>13

(* Steps that dispatch nothing and leave the file.                         *)
LEMMA OptionsKeep ==
  ASSUME CacheInv, UNCHANGED <<config, edits, cache>>, answer'.kind # "load"
  PROVE CacheInv' /\ OptionsAreCurrent'
BY DEF CacheInv, OptionsAreCurrent

(* A write gets an mtime that no entry of the cache has.                   *)
LEMMA WriteStep ==
  ASSUME ~CoarseClock, CacheInv, NEW text \in Texts, WriteConfig(text)
  PROVE CacheInv' /\ OptionsAreCurrent'
<1>1. /\ edits' = edits + 1 /\ cache' = cache /\ answer' = NoAnswer
      /\ config' = [present |-> TRUE, text |-> text, mtime |-> edits + 1]
  BY DEF WriteConfig, sessionVars, Silent
<1>2. edits \in Nat /\ Fits(cache, config, edits)
  BY DEF CacheInv
<1>3. config' \in [present : BOOLEAN, text : Texts, mtime : 0..edits'] /\ config'.mtime = edits + 1
  BY <1>1, <1>2
<1>4. /\ cache \in [layer : Layers, mtime : 0..edits', size : Nat, cached : BOOLEAN]
      /\ cache.mtime # edits + 1
  BY <1>1, <1>2 DEF Fits
<1>5. Fits(cache', config', edits')
  BY <1>1, <1>3, <1>4 DEF Fits
<1> QED BY <1>1, <1>2, <1>3, <1>5 DEF CacheInv, OptionsAreCurrent, NoAnswer

LEMMA DeleteStep == ASSUME CacheInv, DeleteConfig PROVE CacheInv' /\ OptionsAreCurrent'
<1>1. /\ edits' = edits + 1 /\ cache' = cache /\ answer' = NoAnswer
      /\ config' = [config EXCEPT !.present = FALSE]
  BY DEF DeleteConfig, sessionVars, Silent
<1>2. /\ edits \in Nat /\ Fits(cache, config, edits)
      /\ config \in [present : BOOLEAN, text : Texts, mtime : 0..edits]
  BY DEF CacheInv
<1>3. /\ config' \in [present : BOOLEAN, text : Texts, mtime : 0..edits']
      /\ config'.mtime = config.mtime /\ config'.text = config.text
  <2>1. config.mtime \in 0..edits' /\ config.text \in Texts
    BY <1>1, <1>2
  <2>2. config' = [present |-> FALSE, text |-> config.text, mtime |-> config.mtime]
    BY <1>1, <1>2
  <2> QED BY <2>1, <2>2
<1>4. Fits(cache', config', edits')
  BY <1>1, <1>2, <1>3 DEF Fits
<1> QED BY <1>1, <1>2, <1>3, <1>4 DEF CacheInv, OptionsAreCurrent, NoAnswer

LEMMA OptionsInit == Init => CacheInv /\ OptionsAreCurrent
<1> SUFFICES ASSUME Init PROVE CacheInv /\ OptionsAreCurrent
  OBVIOUS
<1>1. /\ config \in [present : {TRUE}, text : Texts, mtime : {0}] /\ edits = 0
      /\ cache = NoEntry /\ answer = NoAnswer
  BY DEF Init
<1>2. config \in [present : BOOLEAN, text : Texts, mtime : 0..edits]
  <2>1. PICK text \in Texts : config = [present |-> TRUE, text |-> text, mtime |-> 0]
    <3>1. config.text \in Texts /\ config = [present |-> TRUE, text |-> config.text, mtime |-> 0]
      BY <1>1
    <3> QED BY <3>1
  <2>2. 0 \in 0..edits
    BY <1>1
  <2> QED BY <2>1, <2>2
<1>3. Fits(cache, config, edits)
  BY <1>1, NoEntryFits
<1> QED BY <1>1, <1>2, <1>3 DEF CacheInv, OptionsAreCurrent, NoAnswer

LEMMA OptionsStep ==
  ASSUME ~CoarseClock, CacheInv, OptionsAreCurrent, [Next]_vars
  PROVE CacheInv' /\ OptionsAreCurrent'
<1> DEFINE Goal == CacheInv' /\ OptionsAreCurrent'
<1> USE DEF diskVars, sessionVars
<1>1. ASSUME NEW options \in Seq(Options), IsInjective(options), NEW io, Dispatched(options, io),
             UNCHANGED <<config, edits>>
      PROVE Goal
  BY <1>1, DispatchStep
<1>0. ASSUME UNCHANGED <<config, edits, cache>>, answer'.kind # "load" PROVE Goal
  BY <1>0, OptionsKeep
<1>2. ASSUME NEW c \in Calls, NEW options \in CallOptions, NEW io,
             Load(c, options, io) \/ Typecheck(c, options, io)
      PROVE Goal
  <2>1. options \in Seq(Options) /\ IsInjective(options)
    BY WorkbenchAssumption
  <2>2. Dispatched(options, io) /\ UNCHANGED <<config, edits>>
    BY <1>2 DEF Load, Typecheck
  <2> QED BY <1>1, <2>1, <2>2
<1>3. ASSUME NEW c \in Calls, NEW io, Reload(c, io) PROVE Goal
  <2>1. <<>> \in Seq(Options) /\ IsInjective(<<>>)
    BY DEF IsInjective
  <2>2. Dispatched(<<>>, io) /\ UNCHANGED <<config, edits>>
    BY <1>3 DEF Reload
  <2> QED BY <1>1, <2>1, <2>2
<1> HIDE DEF Goal
<1>4. answer' = NoAnswer => answer'.kind # "load"
  BY DEF NoAnswer
<1>5. ASSUME NEW c \in Calls,
             \/ LoadRefused(c) \/ LoadNoMetas(c) \/ Loaded(c) \/ CaptureBusy(c)
             \/ \E step \in {"sweeping", "sweeping all"} : BulkBegins(c, step)
             \/ BulkLoaded(c) \/ StatusBegins(c) \/ RecordAction(c)
      PROVE Goal
  BY <1>0, <1>4, <1>5 DEF LoadRefused, LoadNoMetas, Loaded, CaptureBusy, BulkBegins, BulkLoaded,
                          StatusBegins, RecordAction, Silent
<1>6. ASSUME NEW c \in Calls,
             \/ CaptureBegins(c) \/ SourceRead(c) \/ GoalTyped(c)
             \/ CaptureStaged(c) \/ CaptureFails(c)
      PROVE Goal
  BY <1>0, <1>4, <1>6 DEF CaptureBegins, SourceRead, GoalTyped, CaptureStaged, CaptureFails, Silent
<1>7. ASSUME NEW c \in Calls, NEW failed, BulkAnswers(c, failed) PROVE Goal
  BY <1>0, <1>7 DEF BulkAnswers
<1>8. ASSUME NEW c \in Calls, NEW f, Impact(c, f) \/ Postulates(c, f) \/ StatusAnswers(c)
      PROVE Goal
  <2>1. \/ answer' = NoAnswer
        \/ answer'.kind = "impact" \/ answer'.kind = "postulates" \/ answer'.kind = "status"
    BY <1>8 DEF Impact, Postulates, StatusAnswers
  <2>2. UNCHANGED <<config, edits, cache>>
    BY <1>8 DEF Impact, Postulates, StatusAnswers
  <2> QED BY <1>0, <1>4, <2>1, <2>2
<1>9. ASSUME NEW text \in Texts, WriteConfig(text) PROVE Goal
  BY <1>9, WriteStep DEF Goal
<1>10. CASE DeleteConfig
  BY <1>10, DeleteStep DEF Goal
<1>11. CASE UNCHANGED vars
  <2>1. UNCHANGED <<config, edits, cache, answer>>
    BY <1>11 DEF vars
  <2> QED BY <2>1 DEF Goal, CacheInv, OptionsAreCurrent, OptionsOnDisk
<1> QED BY <1>2, <1>3, <1>5, <1>6, <1>7, <1>8, <1>9, <1>10, <1>11 DEF Next, Goal

(* However often .agda-mcp.json is written, deleted and written again, and *)
(* whatever fails, no load takes options of another version of it, if two  *)
(* writes never share an mtime (readFileLayer).                            *)
THEOREM OptionsCurrent ==
  ASSUME ~CoarseClock PROVE Spec => []OptionsAreCurrent
<1>1. Init => CacheInv /\ OptionsAreCurrent
  BY OptionsInit
<1>2. CacheInv /\ OptionsAreCurrent /\ [Next]_vars => CacheInv' /\ OptionsAreCurrent'
  BY OptionsStep
<1> QED BY <1>1, <1>2, PTL DEF Spec

-----------------------------------------------------------------------------
(* The import graph.                                                       *)

(* Induction up to n over the members of a set.                            *)
LEMMA Induct ==
  ASSUME NEW n \in Nat, NEW G, 0 \in G, \A i \in 0..n : i < n /\ i \in G => i + 1 \in G
  PROVE \A i \in 0..n : i \in G
<1> SUFFICES ASSUME (0..n) \ G # {} PROVE FALSE
  OBVIOUS
<1>1. PICK x \in (0..n) \ G : \A y \in (0..n) \ G : x <= y
  <2>1. (0..n) \ G \in SUBSET Nat
    OBVIOUS
  <2> QED BY <2>1, Least
<1>2. x \in 0..n /\ x # 0
  OBVIOUS
<1>3. x - 1 \in 0..n /\ x - 1 < n /\ x - 1 \in G
  BY <1>1, <1>2
<1>4. (x - 1) + 1 \in G
  BY <1>3
<1> QED BY <1>2, <1>4

(* One level more of the search of CollectReachable.                       *)
NextLevel(edges, start, found) == found \cup ((UNION {edges[f] : f \in found}) \ {start})
Level(edges, start, seen, n) ==
  IF n = 0 THEN edges[start] \ {start} ELSE NextLevel(edges, start, seen[n - 1])

(* The search is a function of the level.                                  *)
LEMMA LevelsExist ==
  ASSUME NEW edges, NEW start, NEW N \in Nat
  PROVE \E seen : seen = [n \in 0..N |-> Level(edges, start, seen, n)]
<1> DEFINE G == {m \in 0..N : \E f : f = [i \in 0..m |-> Level(edges, start, f, i)]}
<1>1. 0 \in G
  <2> DEFINE f == [i \in 0..0 |-> edges[start] \ {start}]
  <2>1. f = [i \in 0..0 |-> Level(edges, start, f, i)]
    BY DEF Level
  <2>2. \E g : g = [i \in 0..0 |-> Level(edges, start, g, i)]
    BY <2>1
  <2> QED BY <2>2
<1>2. ASSUME NEW m \in 0..N, m < N, m \in G PROVE m + 1 \in G
  <2>1. PICK f : f = [i \in 0..m |-> Level(edges, start, f, i)]
    BY <1>2
  <2> DEFINE g == [i \in 0..(m+1) |-> IF i = m + 1 THEN Level(edges, start, f, i) ELSE f[i]]
  <2>2. \A i \in 0..m : g[i] = f[i] /\ f[i] = Level(edges, start, f, i)
    BY <2>1
  <2>3. \A i \in 0..m : f[i] = Level(edges, start, g, i)
    <3>1. \A i \in 0..m : i # 0 => i - 1 \in 0..m
      OBVIOUS
    <3>2. \A i \in 0..m : i # 0 => g[i-1] = f[i-1]
      BY <2>2, <3>1
    <3> HIDE DEF g
    <3> QED BY <2>2, <3>2 DEF Level
  <2>4. g[m+1] = Level(edges, start, g, m+1)
    <3>1. g[m+1] = Level(edges, start, f, m+1) /\ g[m] = f[m]
      OBVIOUS
    <3> QED BY <3>1 DEF Level
  <2>5. \A i \in 0..(m+1) : g[i] = Level(edges, start, g, i)
    <3> SUFFICES ASSUME NEW i \in 0..(m+1) PROVE g[i] = Level(edges, start, g, i)
      OBVIOUS
    <3>1. i = m + 1 \/ i \in 0..m
      OBVIOUS
    <3> HIDE DEF g
    <3> QED BY <2>2, <2>3, <2>4, <3>1
  <2>6. g = [i \in 0..(m+1) |-> g[i]]
    OBVIOUS
  <2>7. g = [i \in 0..(m+1) |-> Level(edges, start, g, i)]
    <3> HIDE DEF g
    <3> QED BY <2>5, <2>6
  <2>8. \E h : h = [i \in 0..(m+1) |-> Level(edges, start, h, i)]
    BY <2>7
  <2> QED BY <1>2, <2>8
<1> HIDE DEF G
<1>3. N \in G
  <2>1. \A m \in 0..N : m < N /\ m \in G => m + 1 \in G
    BY <1>2
  <2>2. N \in 0..N
    OBVIOUS
  <2> QED BY <1>1, <2>1, <2>2, Induct
<1> QED BY <1>3 DEF G

(* S has every file that one of its own leads to.                          *)
Closed(edges, S) == \A g \in S : edges[g] \subseteq S

(* CollectReachable finds the least closed set with start, but for start.  *)
(* A level that adds no file is the last; as many levels as there are files*)
(* cannot all have added one.                                              *)
LEMMA ReachableLemma ==
  ASSUME NEW M, IsFiniteSet(M), NEW edges \in [M -> SUBSET M], NEW start \in M
  PROVE LET R == CollectReachable(edges, start)
        IN /\ R \in SUBSET (M \ {start})
           /\ Closed(edges, R \cup {start})
           /\ \A S \in SUBSET M : Closed(edges, S) /\ start \in S => R \subseteq S
<1> DEFINE N == Cardinality(M)
           seen == CHOOSE f : f = [n \in 0..N |-> Level(edges, start, f, n)]
           D == M \ {start}
<1>1. N \in Nat /\ DOMAIN edges = M
  BY FS_CardinalityType
<1>2. CollectReachable(edges, start) = seen[N]
  BY <1>1 DEF CollectReachable, Level, NextLevel
<1>3. seen = [n \in 0..N |-> Level(edges, start, seen, n)]
  <2> HIDE DEF N
  <2> QED BY <1>1, LevelsExist
<1> HIDE DEF seen
<1>4. seen[0] = edges[start] \ {start}
  BY <1>1, <1>3 DEF Level
<1>5. ASSUME NEW n \in 0..N, n < N PROVE seen[n+1] = NextLevel(edges, start, seen[n])
  <2>1. n + 1 \in 0..N /\ n + 1 # 0 /\ (n + 1) - 1 = n
    BY <1>1, <1>5
  <2>2. seen[n+1] = Level(edges, start, seen, n+1)
    BY <1>3, <2>1
  <2> QED BY <2>1, <2>2, Zenon DEF Level
<1>6. IsFiniteSet(D) /\ Cardinality(D) = N - 1
  BY FS_RemoveElement
<1>7. ASSUME NEW X \in SUBSET D
      PROVE NextLevel(edges, start, X) \in SUBSET D /\ X \subseteq NextLevel(edges, start, X)
  BY DEF NextLevel
<1> HIDE DEF N
<1> DEFINE Stops(n) == NextLevel(edges, start, seen[n]) = seen[n]
           Good(n) == /\ seen[n] \in SUBSET D
                      /\ edges[start] \ {start} \subseteq seen[n]
                      /\ \A S \in SUBSET M : Closed(edges, S) /\ start \in S => seen[n] \subseteq S
                      /\ Stops(n) \/ Cardinality(seen[n]) >= n
           G == {n \in 0..N : Good(n)}
<1>8. Good(0)
  <2>1. seen[0] \in SUBSET D /\ edges[start] \ {start} \subseteq seen[0]
    BY <1>4
  <2>2. ASSUME NEW S \in SUBSET M, Closed(edges, S), start \in S PROVE seen[0] \subseteq S
    BY <1>4, <2>2 DEF Closed
  <2>3. Cardinality(seen[0]) >= 0
    <3>1. IsFiniteSet(seen[0])
      BY <1>6, <2>1, FS_Subset
    <3>2. Cardinality(seen[0]) \in Nat
      BY <3>1, FS_CardinalityType
    <3> QED BY <3>2
  <2> QED BY <2>1, <2>2, <2>3
<1>9. ASSUME NEW n \in 0..N, n < N, Good(n) PROVE Good(n+1)
  <2> DEFINE X == seen[n]
             Y == seen[n+1]
  <2>1. X \in SUBSET D /\ Y = NextLevel(edges, start, X)
    BY <1>5, <1>9
  <2>2. Y \in SUBSET D /\ X \subseteq Y
    BY <1>7, <2>1
  <2>3. edges[start] \ {start} \subseteq Y
    BY <1>9, <2>2
  <2>4. ASSUME NEW S \in SUBSET M, Closed(edges, S), start \in S PROVE Y \subseteq S
    <3>1. X \subseteq S
      BY <1>9, <2>4
    <3> QED BY <2>1, <2>4, <3>1 DEF NextLevel, Closed
  <2>5. Stops(n+1) \/ Cardinality(Y) >= n + 1
    <3>1. CASE X = Y
      BY <2>1, <3>1
    <3>2. CASE X # Y
      <4>1. ~Stops(n)
        BY <2>1, <3>2
      <4>2. Cardinality(X) >= n
        BY <1>9, <4>1
      <4> HIDE DEF X, Y
      <4>3. IsFiniteSet(Y) /\ IsFiniteSet(X)
        BY <1>6, <2>1, <2>2, FS_Subset
      <4>4. Cardinality(X) <= Cardinality(Y) /\ Cardinality(X) # Cardinality(Y)
        BY <2>2, <3>2, <4>3, FS_Subset
      <4>5. Cardinality(X) \in Nat /\ Cardinality(Y) \in Nat
        BY <4>3, FS_CardinalityType
      <4> QED BY <4>2, <4>4, <4>5
    <3> QED BY <3>1, <3>2
  <2> QED BY <2>2, <2>3, <2>4, <2>5
<1> HIDE DEF Good
<1>10. Good(N)
  <2>1. 0 \in G
    BY <1>1, <1>8
  <2>2. ASSUME NEW n \in 0..N, n < N, n \in G PROVE n + 1 \in G
    <3>1. Good(n) /\ n + 1 \in 0..N
      BY <1>1, <2>2
    <3> QED BY <1>9, <2>2, <3>1
  <2> HIDE DEF G
  <2>3. N \in G
    BY <1>1, <2>1, <2>2, Induct
  <2> QED BY <2>3 DEF G
<1> DEFINE R == seen[N]
<1>11. /\ R \in SUBSET D /\ edges[start] \ {start} \subseteq R
       /\ \A S \in SUBSET M : Closed(edges, S) /\ start \in S => R \subseteq S
       /\ NextLevel(edges, start, R) = R \/ Cardinality(R) >= N
  BY <1>10 DEF Good
<1>12. NextLevel(edges, start, R) = R
  <2>1. Cardinality(R) <= N - 1
    BY <1>6, <1>11, FS_Subset
  <2>2. Cardinality(R) \in Nat
    BY <1>6, <1>11, FS_Subset, FS_CardinalityType
  <2> QED BY <1>1, <1>11, <2>1, <2>2
<1> HIDE DEF R
<1>13. Closed(edges, R \cup {start})
  BY <1>11, <1>12 DEF NextLevel, Closed
<1> QED BY <1>2, <1>11, <1>13 DEF R

(* What a file needs is itself and what can be reached from it.            *)
LEMMA NeedsLemma ==
  ASSUME NEW t, IsFiniteSet(DOMAIN t), NEW f \in Modules(t)
  PROVE LET R == CollectReachable(Imports(t), f)
        IN /\ R \in SUBSET (Modules(t) \ {f})
           /\ Imports(t)[f] \subseteq R \cup {f}
           /\ Needs(t)[f] = R \cup {f}
<1> DEFINE M == Modules(t)
           edges == Imports(t)
           R == CollectReachable(edges, f)
<1>1. IsFiniteSet(M)
  <2>1. M \in SUBSET DOMAIN t
    BY DEF Modules
  <2> QED BY <2>1, FS_Subset
<1>2. edges \in [M -> SUBSET M]
  BY DEF Imports
<1>3. /\ R \in SUBSET (M \ {f})
      /\ Closed(edges, R \cup {f})
      /\ \A S \in SUBSET M : Closed(edges, S) /\ f \in S => R \subseteq S
  <2> HIDE DEF M, edges
  <2>1. f \in M
    BY DEF M
  <2> QED BY <1>1, <1>2, <2>1, ReachableLemma
<1>4. Needs(t)[f] = {g \in M : \A S \in ClosedSets(edges) : f \in S => g \in S}
  BY DEF Needs
<1>5. ClosedSets(edges) = {S \in SUBSET M : Closed(edges, S)}
  BY <1>2 DEF ClosedSets, Closed
<1>6. f \in M
  OBVIOUS
<1> HIDE DEF M, edges, R
<1>7. {g \in M : \A S \in ClosedSets(edges) : f \in S => g \in S} = R \cup {f}
  <2>1. R \cup {f} \in ClosedSets(edges)
    BY <1>3, <1>5, <1>6
  <2>2. \A S \in ClosedSets(edges) : f \in S => R \subseteq S
    BY <1>3, <1>5
  <2>3. R \cup {f} \subseteq M
    BY <1>3, <1>6
  <2> QED BY <2>1, <2>2, <2>3
<1>8. edges[f] \subseteq R \cup {f}
  BY <1>3 DEF Closed
<1> QED BY <1>3, <1>4, <1>7, <1>8 DEF M, edges, R

(* What needs a file is what can be reached from it backwards: the files a *)
(* closed set leaves out are closed under being imported.                  *)
LEMMA DependentsLemma ==
  ASSUME NEW t, IsFiniteSet(DOMAIN t), NEW f \in Modules(t)
  PROVE CollectReachable(ImportedBy(t), f) = {g \in Modules(t) \ {f} : f \in Needs(t)[g]}
<1> DEFINE M == Modules(t)
           edges == Imports(t)
           back == ImportedBy(t)
           R == CollectReachable(back, f)
<1>1. IsFiniteSet(M) /\ f \in M
  <2>1. M \in SUBSET DOMAIN t
    BY DEF Modules
  <2> QED BY <2>1, FS_Subset
<1>2. edges \in [M -> SUBSET M]
  BY DEF Imports
<1>3. back \in [M -> SUBSET M] /\ \A g, h \in M : g \in back[h] <=> h \in edges[g]
  BY DEF ImportedBy
<1>4. \A g \in M : f \in Needs(t)[g] <=> \A S \in SUBSET M : Closed(edges, S) /\ g \in S => f \in S
  <2>1. ClosedSets(edges) = {S \in SUBSET M : Closed(edges, S)}
    BY <1>2 DEF ClosedSets, Closed
  <2>2. \A g \in M : Needs(t)[g] = {h \in M : \A S \in ClosedSets(edges) : g \in S => h \in S}
    BY DEF Needs
  <2> HIDE DEF M, edges
  <2> QED BY <1>1, <2>1, <2>2
<1> HIDE DEF M, edges, back
<1>5. /\ R \in SUBSET (M \ {f})
      /\ Closed(back, R \cup {f})
      /\ \A S \in SUBSET M : Closed(back, S) /\ f \in S => R \subseteq S
  BY <1>1, <1>3, ReachableLemma
<1> HIDE DEF R
<1>6. ASSUME NEW g \in R, NEW S \in SUBSET M, Closed(edges, S), g \in S PROVE f \in S
  <2> SUFFICES ASSUME f \notin S PROVE FALSE
    OBVIOUS
  <2>1. Closed(back, M \ S)
    <3>1. ASSUME NEW h \in M \ S PROVE back[h] \subseteq M \ S
      <4>1. ASSUME NEW k \in back[h] PROVE k \in M /\ k \notin S
        <5>1. k \in M /\ h \in edges[k]
          BY <1>3
        <5> QED BY <5>1, <1>6 DEF Closed
      <4> QED BY <4>1
    <3> QED BY <3>1 DEF Closed
  <2>2. R \subseteq M \ S
    BY <1>1, <1>5, <2>1
  <2> QED BY <1>6, <2>2
<1>7. ASSUME NEW g \in M \ {f}, g \notin R,
             \A S \in SUBSET M : Closed(edges, S) /\ g \in S => f \in S
      PROVE FALSE
  <2> DEFINE S == M \ (R \cup {f})
  <2>1. Closed(edges, S)
    <3>1. ASSUME NEW k \in S, NEW h \in edges[k] PROVE h \in S
      <4>1. h \in M /\ k \in M /\ k \in back[h]
        BY <1>2, <1>3
      <4>2. CASE h \in R \cup {f}
        BY <1>5, <4>1, <4>2 DEF Closed
      <4> QED BY <4>1, <4>2
    <3> QED BY <3>1 DEF Closed
  <2> QED BY <1>7, <2>1
<1>8. R = {g \in M \ {f} : f \in Needs(t)[g]}
  BY <1>4, <1>5, <1>6, <1>7
<1> QED BY <1>8 DEF R, M, back

-----------------------------------------------------------------------------
(* What is answered and drafted from the graph.                            *)

(* The answers of agda_impact and agda_postulate_closure.                  *)
LEMMA ImpactLemma ==
  ASSUME NEW t, IsFiniteSet(DOMAIN t), NEW f \in Modules(t)
  PROVE /\ ComputeImpact(t, f).transitiveDependencies = Needs(t)[f] \ {f}
        /\ ComputeImpact(t, f).transitiveDependents = {g \in Modules(t) \ {f} : f \in Needs(t)[g]}
        /\ PostulateClosure(t, f) = Needs(t)[f]
<1> DEFINE R == CollectReachable(Imports(t), f)
           impact == ComputeImpact(t, f)
           deps == {f} \cup impact.directDependencies \cup impact.transitiveDependencies
<1>1. /\ R \in SUBSET (Modules(t) \ {f})
      /\ Imports(t)[f] \subseteq R \cup {f}
      /\ Needs(t)[f] = R \cup {f}
  BY NeedsLemma
<1>2. /\ impact.transitiveDependencies = R
      /\ impact.directDependencies = Imports(t)[f]
      /\ impact.transitiveDependents = CollectReachable(ImportedBy(t), f)
  BY DEF ComputeImpact
<1>3. PostulateClosure(t, f) = IF Cardinality(deps) <= 1 THEN deps \cup Imports(t)[f] ELSE deps
  BY DEF PostulateClosure
<1> HIDE DEF R, impact
<1>4. deps = Needs(t)[f] /\ deps \cup Imports(t)[f] = Needs(t)[f]
  BY <1>1, <1>2
<1> HIDE DEF deps
<1>5. PostulateClosure(t, f) = Needs(t)[f]
  BY <1>3, <1>4
<1>6. R = Needs(t)[f] \ {f}
  BY <1>1
<1> QED BY <1>2, <1>5, <1>6, DependentsLemma DEF impact

(* What a capture carries or skips.                                        *)
LEMMA InlineLemma ==
  ASSUME NEW t, IsFiniteSet(DOMAIN t), NEW f \in Modules(t)
  PROVE LET inlined == InlineFirstPartySources(t, f)
        IN inlined.sources \cup inlined.skipped = Needs(t)[f]
<1> DEFINE R == CollectReachable(Imports(t), f)
<1>1. Imports(t)[f] \subseteq R \cup {f} /\ Needs(t)[f] = R \cup {f}
  BY NeedsLemma
<1>2. f \in DOMAIN Imports(t)
  BY DEF Imports
<1>3. ClosureFileSet(t, f) = {f} \cup Imports(t)[f] \cup R
  BY <1>2 DEF ClosureFileSet
<1> HIDE DEF R
<1>4. ClosureFileSet(t, f) = Needs(t)[f]
  BY <1>1, <1>3
<1> QED BY <1>4 DEF InlineFirstPartySources

(* A failing file is put down to itself if nothing else it needs fails.    *)
LEMMA RootCauseLemma ==
  ASSUME NEW t, NEW n \in Nat, DOMAIN t = 1..n, IsFiniteSet(DOMAIN t),
         NEW failed, NEW f \in failed \cap Modules(t)
  PROVE RootCause(t, failed, {}, f) = f <=> Needs(t)[f] \cap failed = {f}
<1> DEFINE R == ComputeImpact(t, f).transitiveDependencies
           failedDeps == failed \cap R
<1>1. R = Needs(t)[f] \ {f} /\ f \in Needs(t)[f] /\ R \subseteq 1..n
  BY ImpactLemma, NeedsLemma DEF Modules
<1>2. RootCause(t, failed, {}, f) =
        IF failedDeps = {} THEN f ELSE CHOOSE g \in failedDeps : \A h \in failedDeps : h <= g
  BY DEF RootCause
<1> HIDE DEF R
<1>3. CASE failedDeps = {}
  BY <1>1, <1>2, <1>3
<1>4. CASE failedDeps # {}
  <2>1. failedDeps \in SUBSET (0..n)
    BY <1>1
  <2> HIDE DEF failedDeps
  <2>2. \E g \in failedDeps : \A h \in failedDeps : h <= g
    BY <1>4, <2>1, Greatest
  <2>3. (CHOOSE g \in failedDeps : \A h \in failedDeps : h <= g) \in failedDeps
    BY <2>2
  <2>4. RootCause(t, failed, {}, f) \in failedDeps
    BY <1>2, <1>4, <2>3
  <2> QED BY <1>1, <1>4, <2>4 DEF failedDeps
<1> QED BY <1>3, <1>4

(* What is in flight and what is answered is of the tree.                  *)
FitsTree(a) == a.kind \in {"impact", "postulates"} => a.of \in Modules(tree)

GraphInv ==
  /\ tree \in Trees /\ DOMAIN pc = Calls /\ DOMAIN draft = Calls
  /\ \A c \in Calls : Capturing(c) => {"file", "closure"} \subseteq DOMAIN draft[c]
  /\ \A c \in Calls : draft[c].file \in Modules(tree) =>
                        draft[c].closure = InlineFirstPartySources(tree, draft[c].file)
  /\ FitsTree(answer)

(* The trees are finite, and "no file" is none of their files.              *)
LEMMA TreeLemma ==
  ASSUME NEW t \in Trees
  PROVE /\ IsFiniteSet(DOMAIN t) /\ \E n \in Nat : DOMAIN t = 1..n
        /\ NoFile \notin Modules(t)
<1>1. IsFiniteSet(DOMAIN t) /\ DOMAIN t = 1..Cardinality(DOMAIN t) /\ NoFile \notin DOMAIN t
  BY WorkbenchAssumption
<1>2. Cardinality(DOMAIN t) \in Nat
  BY <1>1, FS_CardinalityType
<1> QED BY <1>1, <1>2 DEF Modules

(* The answers that fit the tree are whole.                                *)
LEMMA GraphSuffices == GraphInv => ClosureIsWhole
<1> SUFFICES ASSUME GraphInv PROVE ClosureIsWhole
  OBVIOUS
<1>1. tree \in Trees /\ IsFiniteSet(DOMAIN tree) /\ \E n \in Nat : DOMAIN tree = 1..n
  BY TreeLemma DEF GraphInv
<1>2. PICK n \in Nat : DOMAIN tree = 1..n
  BY <1>1
<1>3. ASSUME answer.kind \in {"impact", "postulates"} PROVE answer.of \in Modules(tree)
  BY <1>3 DEF GraphInv, FitsTree
<1>4. ASSUME answer.kind = "impact"
      PROVE /\ ComputeImpact(tree, answer.of).transitiveDependencies = Needs(tree)[answer.of] \ {answer.of}
            /\ ComputeImpact(tree, answer.of).transitiveDependents =
                 {g \in Modules(tree) \ {answer.of} : answer.of \in Needs(tree)[g]}
  <2>1. answer.of \in Modules(tree)
    BY <1>3, <1>4
  <2> QED BY <1>1, <2>1, ImpactLemma
<1>5. ASSUME answer.kind = "postulates" PROVE PostulateClosure(tree, answer.of) = Needs(tree)[answer.of]
  <2>1. answer.of \in Modules(tree)
    BY <1>3, <1>5
  <2> QED BY <1>1, <2>1, ImpactLemma
<1>6. ASSUME NEW f \in answer.failed \cap Modules(tree)
      PROVE RootCause(tree, answer.failed, {}, f) = f <=> Needs(tree)[f] \cap answer.failed = {f}
  BY <1>1, <1>2, RootCauseLemma
<1>7. ASSUME NEW c \in Calls, draft[c].file \in Modules(tree)
      PROVE draft[c].closure.sources \cup draft[c].closure.skipped = Needs(tree)[draft[c].file]
  <2>1. draft[c].closure = InlineFirstPartySources(tree, draft[c].file)
    BY <1>7 DEF GraphInv
  <2> QED BY <1>1, <1>7, <2>1, InlineLemma
<1> QED BY <1>4, <1>5, <1>6, <1>7 DEF ClosureIsWhole

(* Steps that neither begin nor change a draft.                            *)
LEMMA GraphStays ==
  ASSUME GraphInv, UNCHANGED <<tree, draft, pc>>, FitsTree(answer')
  PROVE GraphInv'
BY DEF GraphInv, Capturing, FitsTree

LEMMA GraphElsewhere ==
  ASSUME GraphInv, NEW c \in Calls, NEW step, step \notin {"source", "goal", "writing"},
         Goes(c, step), UNCHANGED <<tree, draft>>, FitsTree(answer')
  PROVE GraphInv'
<1>1. DOMAIN pc' = Calls /\ \A d \in Calls : Capturing(d)' => Capturing(d)
  BY DEF Goes, GraphInv, Capturing
<1> QED BY <1>1 DEF GraphInv, FitsTree

(* A capture begins with the closure of the file that is current.          *)
LEMMA DraftFields ==
  LET new == [BuildReplayManifest EXCEPT !.actions = buffer, !.told = dropped]
  IN /\ {"file", "closure"} \subseteq DOMAIN new
     /\ new.closure = InlineFirstPartySources(tree, new.file)
BY DEF BuildReplayManifest

LEMMA GraphBegins ==
  ASSUME GraphInv, NEW c \in Calls, CaptureBegins(c) PROVE GraphInv'
<1> DEFINE new == [BuildReplayManifest EXCEPT !.actions = buffer, !.told = dropped]
<1>1. /\ \E step : pc' = [pc EXCEPT ![c] = step]
      /\ draft' = [draft EXCEPT ![c] = new] /\ tree' = tree /\ answer' = NoAnswer
  BY DEF CaptureBegins, Begin, Goes, diskVars, Silent
<1>2. {"file", "closure"} \subseteq DOMAIN new /\ new.closure = InlineFirstPartySources(tree, new.file)
  BY DraftFields
<1> HIDE DEF new
<1>3. /\ DOMAIN pc' = Calls /\ DOMAIN draft' = Calls /\ draft'[c] = new
      /\ \A d \in Calls : d # c => draft'[d] = draft[d] /\ pc'[d] = pc[d]
  BY <1>1 DEF GraphInv
<1>4. \A d \in Calls : Capturing(d)' => Capturing(d) \/ d = c
  BY <1>3 DEF Capturing
<1>5. FitsTree(answer)'
  BY <1>1 DEF FitsTree, NoAnswer
<1> QED BY <1>1, <1>2, <1>3, <1>4, <1>5 DEF GraphInv

(* Setting the goal of a draft keeps its file and its closure.             *)
LEMMA KeepsClosure ==
  ASSUME NEW r, {"file", "closure"} \subseteq DOMAIN r, NEW f
  PROVE LET w == [r EXCEPT !.goalOf = f]
        IN w.file = r.file /\ w.closure = r.closure /\ {"file", "closure"} \subseteq DOMAIN w
OBVIOUS

LEMMA GraphSubstrate ==
  ASSUME GraphInv, NEW c \in Calls, SourceRead(c) \/ GoalTyped(c) PROVE GraphInv'
<1>1. /\ Capturing(c) /\ tree' = tree /\ answer' = NoAnswer
      /\ \E step : pc' = [pc EXCEPT ![c] = step]
      /\ \/ draft' = draft
         \/ \E f : draft' = [draft EXCEPT ![c] = [draft[c] EXCEPT !.goalOf = f]]
  BY DEF SourceRead, GoalTyped, Goes, Capturing, diskVars, Silent
<1>2. DOMAIN pc' = Calls /\ \A d \in Calls : Capturing(d)' => Capturing(d)
  BY <1>1 DEF GraphInv, Capturing
<1>3. DOMAIN draft' = Calls /\ \A d \in Calls : d # c => draft'[d] = draft[d]
  BY <1>1 DEF GraphInv
<1>4. {"file", "closure"} \subseteq DOMAIN draft[c]
  BY <1>1 DEF GraphInv
<1>5. /\ draft'[c].file = draft[c].file /\ draft'[c].closure = draft[c].closure
      /\ {"file", "closure"} \subseteq DOMAIN draft'[c]
  <2>1. CASE draft' = draft
    BY <1>4, <2>1
  <2>2. ASSUME NEW f, draft' = [draft EXCEPT ![c] = [draft[c] EXCEPT !.goalOf = f]]
        PROVE /\ draft'[c].file = draft[c].file /\ draft'[c].closure = draft[c].closure
              /\ {"file", "closure"} \subseteq DOMAIN draft'[c]
    <3>1. draft'[c] = [draft[c] EXCEPT !.goalOf = f]
      BY <2>2, Zenon DEF GraphInv
    <3> QED BY <1>4, <3>1, KeepsClosure, Zenon
  <2> QED BY <1>1, <2>1, <2>2
<1>6. FitsTree(answer)'
  BY <1>1 DEF FitsTree, NoAnswer
<1>7. \A d \in Calls : draft'[d].file = draft[d].file /\ draft'[d].closure = draft[d].closure
  BY <1>3, <1>5
<1> QED BY <1>1, <1>2, <1>3, <1>5, <1>6, <1>7 DEF GraphInv

LEMMA GraphEnds ==
  ASSUME GraphInv, NEW c \in Calls, CaptureStaged(c) \/ CaptureFails(c) PROVE GraphInv'
<1>1. /\ pc' = [pc EXCEPT ![c] = "replying"] /\ draft' = [draft EXCEPT ![c] = NoDraft]
      /\ tree' = tree /\ answer' = NoAnswer
  BY DEF CaptureStaged, CaptureFails, Goes, diskVars, Silent
<1>2. DOMAIN pc' = Calls /\ \A d \in Calls : Capturing(d)' => Capturing(d) /\ d # c
  BY <1>1 DEF GraphInv, Capturing
<1>3. /\ DOMAIN draft' = Calls /\ draft'[c].file = NoFile
      /\ \A d \in Calls : d # c => draft'[d] = draft[d]
  BY <1>1 DEF GraphInv, NoDraft
<1>4. NoFile \notin Modules(tree)
  BY TreeLemma DEF GraphInv
<1>5. FitsTree(answer)'
  BY <1>1 DEF FitsTree, NoAnswer
<1> QED BY <1>1, <1>2, <1>3, <1>4, <1>5 DEF GraphInv

LEMMA GraphInit == Init => GraphInv
<1> SUFFICES ASSUME Init PROVE GraphInv
  OBVIOUS
<1>1. \A c \in Calls : draft[c].file = NoFile /\ pc[c] = "new"
  BY DEF Init, NoDraft
<1>2. tree \in Trees /\ DOMAIN pc = Calls /\ DOMAIN draft = Calls /\ FitsTree(answer)
  BY DEF Init, FitsTree, NoAnswer
<1>3. NoFile \notin Modules(tree)
  BY <1>2, TreeLemma
<1> QED BY <1>1, <1>2, <1>3 DEF GraphInv, Capturing

LEMMA GraphStep == ASSUME GraphInv, [Next]_vars PROVE GraphInv'
<1> USE DEF diskVars, captureVars
<1>0. answer' = NoAnswer => FitsTree(answer')
  BY DEF FitsTree, NoAnswer
<1>1. ASSUME NEW c \in Calls, NEW options, NEW io,
             Load(c, options, io) \/ Typecheck(c, options, io) \/ Reload(c, io)
      PROVE GraphInv'
  <2>1. Goes(c, "loading") /\ UNCHANGED <<tree, draft>> /\ answer'.kind = "load"
    BY <1>1 DEF Load, Typecheck, Reload, Begin, Dispatched
  <2>2. FitsTree(answer')
    BY <2>1 DEF FitsTree
  <2> QED BY <2>1, <2>2, GraphElsewhere
<1>2. ASSUME NEW c \in Calls, LoadRefused(c) \/ LoadNoMetas(c) \/ Loaded(c) \/ CaptureBusy(c)
      PROVE GraphInv'
  BY <1>0, <1>2, GraphElsewhere DEF LoadRefused, LoadNoMetas, Loaded, CaptureBusy, Begin, Silent
<1>3. ASSUME NEW c \in Calls, NEW step \in {"sweeping", "sweeping all"}, BulkBegins(c, step)
      PROVE GraphInv'
  BY <1>0, <1>3, GraphElsewhere DEF BulkBegins, Begin, Silent
<1>4. ASSUME NEW c \in Calls, BulkLoaded(c) PROVE GraphInv'
  BY <1>0, <1>4, GraphStays DEF BulkLoaded, Silent
<1>5. ASSUME NEW c \in Calls, NEW failed, BulkAnswers(c, failed) PROVE GraphInv'
  <2>1. Goes(c, "replying") /\ UNCHANGED <<tree, draft>> /\ answer'.kind = "bulk"
    BY <1>5 DEF BulkAnswers
  <2>2. FitsTree(answer')
    BY <2>1 DEF FitsTree
  <2> QED BY <2>1, <2>2, GraphElsewhere
<1>6. ASSUME NEW c \in Calls, NEW f, Impact(c, f) \/ Postulates(c, f) PROVE GraphInv'
  <2>1. Goes(c, "replying") /\ UNCHANGED <<tree, draft>>
    BY <1>6 DEF Impact, Postulates, Begin
  <2>2. \/ answer' = NoAnswer
        \/ f \in Modules(tree) /\ answer'.of = f
    BY <1>6 DEF Impact, Postulates
  <2>3. FitsTree(answer')
    BY <1>0, <2>2 DEF FitsTree
  <2> QED BY <2>1, <2>3, GraphElsewhere
<1>7. ASSUME NEW c \in Calls, StatusBegins(c) PROVE GraphInv'
  BY <1>0, <1>7, GraphElsewhere DEF StatusBegins, Begin, Silent
<1>8. ASSUME NEW c \in Calls, StatusAnswers(c) PROVE GraphInv'
  <2>1. Goes(c, "replying") /\ UNCHANGED <<tree, draft>>
    BY <1>8 DEF StatusAnswers
  <2>2. answer' = NoAnswer \/ answer'.kind = "status"
    BY <1>8 DEF StatusAnswers
  <2>3. FitsTree(answer')
    BY <1>0, <2>2 DEF FitsTree
  <2> QED BY <2>1, <2>3, GraphElsewhere
<1>9. ASSUME NEW c \in Calls, RecordAction(c) PROVE GraphInv'
  BY <1>0, <1>9, GraphElsewhere DEF RecordAction, Silent
<1>10. ASSUME NEW c \in Calls,
              \/ CaptureBegins(c) \/ SourceRead(c) \/ GoalTyped(c)
              \/ CaptureStaged(c) \/ CaptureFails(c)
       PROVE GraphInv'
  BY <1>10, GraphBegins, GraphSubstrate, GraphEnds
<1>11. ASSUME NEW text, WriteConfig(text) \/ DeleteConfig PROVE GraphInv'
  BY <1>0, <1>11, GraphStays DEF WriteConfig, DeleteConfig, Silent
<1>12. CASE UNCHANGED vars
  <2>1. UNCHANGED <<tree, draft, pc, answer>>
    BY <1>12 DEF vars
  <2> QED BY <2>1, GraphStays DEF GraphInv
<1> QED BY <1>1, <1>2, <1>3, <1>4, <1>5, <1>6, <1>7, <1>8, <1>9, <1>10, <1>11, <1>12 DEF Next

(* Whatever a tool answers from the import graph, and whatever a capture   *)
(* takes with it, is everything the file needs and nothing else: with      *)
(* cycles, with names declared twice or nowhere, with files that cannot be *)
(* read (collectReachable, inlineFirstPartySources, agda_bulk_status).     *)
THEOREM ClosureWhole == Spec => []ClosureIsWhole
<1>1. Init => GraphInv
  BY GraphInit
<1>2. GraphInv /\ [Next]_vars => GraphInv'
  BY GraphStep
<1>3. GraphInv => ClosureIsWhole
  BY GraphSuffices
<1> QED BY <1>1, <1>2, <1>3, PTL DEF Spec
=============================================================================
