--------------------------- MODULE Delivery_proofs ---------------------------
(***************************************************************************)
(* What holds of the delivery of a run, at its two ends and from one to the*)
(* other:                                                                  *)
(*   RetryQueue, for every set of processes and runs, every bound of the   *)
(*   queue and any number of crashes;                                      *)
(*   TeamIngest, for every set of runs and captures, any number of uploads,*)
(*   days, ticks, crashes and other faults;                                *)
(*   both at once: what a client has deleted.                              *)
(***************************************************************************)
EXTENDS RetryQueue, TeamIngest, FiniteSetTheorems, WellFoundedInduction, TLAPS

-----------------------------------------------------------------------------
(* The entries of a queue that are not in a set.                           *)

(* A set of naturals has a least element.                                  *)
LEMMA Least == ASSUME NEW T \in SUBSET Nat, T # {}
               PROVE \E n \in T : \A m \in T : ~(m < n)
<1>1. \E x \in T : \A y \in T : ~(<<y, x>> \in OpToRel(<, Nat))
  BY NatLessThanWellFounded, WFMin, Zenon
<1> QED BY <1>1 DEF OpToRel

(* Induction up to n over the members of a set.                            *)
LEMMA Induct ==
  ASSUME NEW n \in Nat, NEW G, 0 \in G, \A i \in 0..n : i < n /\ i \in G => i + 1 \in G
  PROVE \A i \in 0..n : i \in G
<1> SUFFICES ASSUME (0..n) \ G # {} PROVE FALSE
  OBVIOUS
<1>1. PICK x \in (0..n) \ G : \A y \in (0..n) \ G : ~(y < x)
  <2>1. (0..n) \ G \in SUBSET Nat
    OBVIOUS
  <2> QED BY <2>1, Least
<1>2. x \in 0..n /\ x # 0
  OBVIOUS
<1>3. x - 1 \in 0..n /\ x - 1 < n /\ x - 1 \in G
  BY <1>1, <1>2
<1>4. (x - 1) + 1 \in G
  BY <1>3
<1> QED BY <1>2, <1>4

(* One entry more of the recursion of Without.                             *)
Keeps(q, X, f, i) == IF i = 0 THEN <<>> ELSE IF q[i] \in X THEN f[i-1] ELSE Append(f[i-1], q[i])

LEMMA KeepExists ==
  ASSUME NEW S, NEW q \in Seq(S), NEW X
  PROVE \E f : f = [i \in 0..Len(q) |-> Keeps(q, X, f, i)]
<1> DEFINE G == {n \in 0..Len(q) : \E f : f = [i \in 0..n |-> Keeps(q, X, f, i)]}
<1>0. Len(q) \in Nat
  OBVIOUS
<1>1. 0 \in G
  <2> DEFINE f == [i \in 0..0 |-> <<>>]
  <2>1. f = [i \in 0..0 |-> Keeps(q, X, f, i)]
    BY DEF Keeps
  <2>2. \E g : g = [i \in 0..0 |-> Keeps(q, X, g, i)]
    BY <2>1
  <2> QED BY <1>0, <2>2
<1>2. ASSUME NEW n \in 0..Len(q), n < Len(q), n \in G PROVE n + 1 \in G
  <2>1. PICK f : f = [i \in 0..n |-> Keeps(q, X, f, i)]
    BY <1>2
  <2> DEFINE g == [i \in 0..(n+1) |-> IF i = n + 1 THEN Keeps(q, X, f, i) ELSE f[i]]
  <2>2. \A i \in 0..n : g[i] = f[i] /\ f[i] = Keeps(q, X, f, i)
    BY <2>1
  <2>3. \A i \in 0..n : f[i] = Keeps(q, X, g, i)
    <3>1. \A i \in 0..n : i # 0 => i - 1 \in 0..n
      OBVIOUS
    <3>2. \A i \in 0..n : i # 0 => g[i-1] = f[i-1]
      BY <2>2, <3>1
    <3> HIDE DEF g
    <3> QED BY <2>2, <3>2 DEF Keeps
  <2>4. g[n+1] = Keeps(q, X, g, n+1)
    <3>1. g[n+1] = Keeps(q, X, f, n+1) /\ g[n] = f[n]
      OBVIOUS
    <3> QED BY <3>1 DEF Keeps
  <2>5. \A i \in 0..(n+1) : g[i] = Keeps(q, X, g, i)
    <3> SUFFICES ASSUME NEW i \in 0..(n+1) PROVE g[i] = Keeps(q, X, g, i)
      OBVIOUS
    <3>1. i = n + 1 \/ i \in 0..n
      OBVIOUS
    <3> HIDE DEF g
    <3> QED BY <2>2, <2>3, <2>4, <3>1
  <2>6. g = [i \in 0..(n+1) |-> g[i]]
    OBVIOUS
  <2>7. g = [i \in 0..(n+1) |-> Keeps(q, X, g, i)]
    <3> HIDE DEF g
    <3> QED BY <2>5, <2>6
  <2>8. \E h : h = [i \in 0..(n+1) |-> Keeps(q, X, h, i)]
    BY <2>7
  <2> QED BY <1>0, <1>2, <2>8
<1> HIDE DEF G
<1>3. Len(q) \in G
  <2>1. \A n \in 0..Len(q) : n < Len(q) /\ n \in G => n + 1 \in G
    BY <1>2
  <2>2. Len(q) \in 0..Len(q)
    BY <1>0
  <2> QED BY <1>0, <1>1, <2>1, <2>2, Induct
<1> QED BY <1>3 DEF G

(* Without keeps the entries that are not in X, and no other, and does not *)
(* repeat one.                                                             *)
LEMMA WithoutLemma ==
  ASSUME NEW S, NEW q \in Seq(S), NEW X
  PROVE /\ Without(q, X) \in Seq(S)
        /\ Len(Without(q, X)) <= Len(q)
        /\ ToSet(Without(q, X)) = ToSet(q) \ X
        /\ IsInjective(q) => IsInjective(Without(q, X))
<1> DEFINE keep == CHOOSE f : f = [i \in 0..Len(q) |-> Keeps(q, X, f, i)]
<1>1. keep = [i \in 0..Len(q) |-> Keeps(q, X, keep, i)]
  BY KeepExists
<1>2. Without(q, X) = keep[Len(q)]
  BY DEF Without, Keeps
<1> HIDE DEF keep
<1>3. \A i \in 0..Len(q) : keep[i] = Keeps(q, X, keep, i)
  BY <1>1
<1> DEFINE Good(i) == /\ keep[i] \in Seq(S) /\ Len(keep[i]) <= i
                      /\ \A j \in 1..Len(keep[i]) : \E k \in 1..i : keep[i][j] = q[k] /\ q[k] \notin X
                      /\ \A k \in 1..i : q[k] \notin X => \E j \in 1..Len(keep[i]) : keep[i][j] = q[k]
                      /\ IsInjective(q) => \A j, l \in 1..Len(keep[i]) : keep[i][j] = keep[i][l] => j = l
           G == {i \in 0..Len(q) : Good(i)}
<1>4. Len(q) \in Nat
  OBVIOUS
<1>5. Good(0)
  <2>1. keep[0] = <<>>
    BY <1>3, <1>4 DEF Keeps
  <2> QED BY <2>1
<1>6. ASSUME NEW i \in 0..Len(q), i < Len(q), Good(i) PROVE Good(i+1)
  <2>0. i + 1 \in 1..Len(q) /\ q[i+1] \in S /\ (i + 1) - 1 = i /\ i + 1 # 0
    BY <1>6
  <2>1. CASE q[i+1] \in X
    <3>1. keep[i+1] = keep[i]
      BY <1>3, <2>0, <2>1 DEF Keeps
    <3>2. \A k \in 1..(i+1) : q[k] \notin X => k \in 1..i
      BY <2>1
    <3> QED BY <1>6, <3>1, <3>2
  <2>2. CASE q[i+1] \notin X
    <3>1. keep[i+1] = Append(keep[i], q[i+1])
      <4>1. keep[i+1] = Keeps(q, X, keep, i+1)
        BY <1>3, <2>0
      <4>2. Keeps(q, X, keep, i+1) = Append(keep[(i+1)-1], q[i+1])
        BY <2>0, <2>2, Zenon DEF Keeps
      <4> QED BY <2>0, <4>1, <4>2, Zenon
    <3> DEFINE s == keep[i]
               t == keep[i+1]
    <3>2. s \in Seq(S)
      BY <1>6
    <3>a. t = Append(s, q[i+1])
      BY <3>1
    <3>b. /\ Len(s) <= i
          /\ \A j \in 1..Len(s) : \E k \in 1..i : s[j] = q[k] /\ q[k] \notin X
          /\ \A k \in 1..i : q[k] \notin X => \E j \in 1..Len(s) : s[j] = q[k]
          /\ IsInjective(q) => \A j, l \in 1..Len(s) : s[j] = s[l] => j = l
      BY <1>6
    <3> HIDE DEF s, t
    <3>3. /\ t \in Seq(S) /\ Len(t) = Len(s) + 1 /\ t[Len(s) + 1] = q[i+1] /\ Len(s) \in Nat
          /\ \A j \in 1..Len(s) : t[j] = s[j]
      BY <2>0, <3>2, <3>a
    <3>4. \A j \in 1..Len(t) : j \in 1..Len(s) \/ j = Len(s) + 1
      BY <3>3
    <3>5. Len(t) <= i + 1
      BY <3>3, <3>b
    <3>6. \A j \in 1..Len(t) : \E k \in 1..(i+1) : t[j] = q[k] /\ q[k] \notin X
      <4> SUFFICES ASSUME NEW j \in 1..Len(t) PROVE \E k \in 1..(i+1) : t[j] = q[k] /\ q[k] \notin X
        OBVIOUS
      <4>1. CASE j \in 1..Len(s)
        <5>1. PICK k \in 1..i : s[j] = q[k] /\ q[k] \notin X
          BY <4>1, <3>b
        <5>2. k \in 1..(i+1)
          OBVIOUS
        <5> QED BY <3>3, <4>1, <5>1, <5>2
      <4>2. CASE j = Len(s) + 1
        <5>1. i + 1 \in 1..(i+1)
          OBVIOUS
        <5> QED BY <2>2, <3>3, <4>2, <5>1
      <4> QED BY <3>4, <4>1, <4>2
    <3>7. \A k \in 1..(i+1) : q[k] \notin X => \E j \in 1..Len(t) : t[j] = q[k]
      <4> SUFFICES ASSUME NEW k \in 1..(i+1), q[k] \notin X PROVE \E j \in 1..Len(t) : t[j] = q[k]
        OBVIOUS
      <4>1. CASE k \in 1..i
        <5>1. PICK j \in 1..Len(s) : s[j] = q[k]
          BY <4>1, <3>b
        <5>2. j \in 1..Len(t)
          BY <3>3
        <5> QED BY <3>3, <5>1, <5>2
      <4>2. CASE k = i + 1
        <5>1. Len(s) + 1 \in 1..Len(t)
          BY <3>3
        <5> QED BY <3>3, <4>2, <5>1
      <4> QED BY <4>1, <4>2
    <3>8. ASSUME IsInjective(q), NEW j \in 1..Len(t), NEW l \in 1..Len(t), t[j] = t[l] PROVE j = l
      <4>1. \A k \in 1..i : q[k] # q[i+1]
        <5>1. \A k \in 1..i : k \in 1..Len(q) /\ k # i + 1
          BY <2>0
        <5>2. DOMAIN q = 1..Len(q)
          OBVIOUS
        <5> QED BY <2>0, <3>8, <5>1, <5>2 DEF IsInjective
      <4>2. \A m \in 1..Len(s) : s[m] # q[i+1]
        BY <3>b, <4>1
      <4>3. \A m \in 1..Len(s) : t[m] # t[Len(s) + 1]
        BY <3>3, <4>2
      <4>4. CASE j \in 1..Len(s) /\ l \in 1..Len(s)
        BY <3>3, <3>b, <3>8, <4>4
      <4> QED BY <3>4, <3>8, <4>3, <4>4
    <3>9. /\ t \in Seq(S) /\ Len(t) <= i + 1
          /\ \A j \in 1..Len(t) : \E k \in 1..(i+1) : t[j] = q[k] /\ q[k] \notin X
          /\ \A k \in 1..(i+1) : q[k] \notin X => \E j \in 1..Len(t) : t[j] = q[k]
          /\ IsInjective(q) => \A j, l \in 1..Len(t) : t[j] = t[l] => j = l
      BY <3>3, <3>5, <3>6, <3>7, <3>8
    <3> QED BY <3>9 DEF t
  <2> QED BY <2>1, <2>2
<1>7. Good(Len(q))
  <2>1. 0 \in G /\ \A i \in 0..Len(q) : i < Len(q) /\ i \in G => i + 1 \in G
    <3>1. 0 \in 0..Len(q) /\ \A i \in 0..Len(q) : i < Len(q) => i + 1 \in 0..Len(q)
      BY <1>4
    <3> HIDE DEF Good
    <3> QED BY <1>5, <1>6, <3>1
  <2>2. Len(q) \in 0..Len(q)
    BY <1>4
  <2> HIDE DEF G
  <2>3. Len(q) \in G
    BY <1>4, <2>1, <2>2, Induct
  <2> QED BY <2>3 DEF G
<1> DEFINE w == keep[Len(q)]
<1>8. /\ w \in Seq(S) /\ Len(w) <= Len(q) /\ DOMAIN w = 1..Len(w) /\ DOMAIN q = 1..Len(q)
      /\ \A j \in 1..Len(w) : \E k \in 1..Len(q) : w[j] = q[k] /\ q[k] \notin X
      /\ \A k \in 1..Len(q) : q[k] \notin X => \E j \in 1..Len(w) : w[j] = q[k]
      /\ IsInjective(q) => \A j, l \in 1..Len(w) : w[j] = w[l] => j = l
  BY <1>7
<1>9. Without(q, X) = w
  BY <1>2
<1> HIDE DEF w
<1>10. ToSet(w) = ToSet(q) \ X
  <2>1. ToSet(w) = {w[j] : j \in 1..Len(w)} /\ ToSet(q) = {q[k] : k \in 1..Len(q)}
    BY <1>8, Zenon DEF ToSet
  <2>2. \A x : x \in ToSet(w) => x \in ToSet(q) /\ x \notin X
    BY <1>8, <2>1
  <2>3. \A x : x \in ToSet(q) /\ x \notin X => x \in ToSet(w)
    BY <1>8, <2>1
  <2> QED BY <2>2, <2>3
<1>11. IsInjective(q) => IsInjective(w)
  BY <1>8 DEF IsInjective
<1> QED BY <1>8, <1>9, <1>10, <1>11

-----------------------------------------------------------------------------
(* The lock.                                                               *)
Critical == {"read", "write", "release"}
Labels   == Locking \cup Critical \cup {"flush", "retry", "upload", "done", "crashed"}

(* The part of the state the lock is about.                                *)
LockType ==
  /\ lock \in [exists : BOOLEAN, stale : BOOLEAN, by : Procs \cup {"nobody"},
               token : Procs \cup {"none"}]
  /\ pc \in [Procs -> Labels]
  /\ holds \in [Procs -> BOOLEAN]
  /\ crashes \in Nat

(* Until a process crashes no lock is stale, so none is reclaimed, and a   *)
(* process in its critical section is the one that created the lock file.  *)
LockInv ==
  crashes = 0 =>
    /\ ~lock.stale
    /\ \A p \in Procs : pc[p] \notin {"unlink", "recreate", "token", "verify", "crashed"}
    /\ \A p \in Procs : pc[p] \in Critical => holds[p] /\ lock.exists /\ lock.by = p

-----------------------------------------------------------------------------
LEMMA LockTypeInit == Init => LockType /\ LockInv
  BY DEF Init, LockType, LockInv, NoLock, Labels, Critical, Locking

(* Every action keeps the types.                                           *)
LEMMA LockTypeStep == ASSUME LockType, [Next]_vars PROVE LockType'
<1> USE DEF LockType, Labels, Critical, Locking, Go, NoLock, fileVars, sentVars, procVars
<1>1. ASSUME NEW p \in Procs, Flush(p) PROVE LockType'
  BY <1>1 DEF Flush
<1>2. ASSUME NEW p \in Procs, Retry(p) PROVE LockType'
  BY <1>2 DEF Retry
<1>3. ASSUME NEW p \in Procs, Upload(p) PROVE LockType'
  BY <1>3 DEF Upload
<1>4. ASSUME NEW p \in Procs, OpenLock(p) PROVE LockType'
  BY <1>4 DEF OpenLock, Creates, Acquired
<1>5. ASSUME NEW p \in Procs, StatLock(p) PROVE LockType'
  BY <1>5 DEF StatLock
<1>6. ASSUME NEW p \in Procs, Reclaim(p) PROVE LockType'
  <2>1. crashes' = crashes
    BY <1>6 DEF Reclaim
  <2>2. \E l \in Labels : pc' = [pc EXCEPT ![p] = l]
    BY <1>6 DEF Reclaim, Creates, Acquired
  <2>3. holds' = holds \/ holds' = [holds EXCEPT ![p] = TRUE]
    BY <1>6 DEF Reclaim, Acquired
  <2> DEFINE L == [exists : BOOLEAN, stale : BOOLEAN, by : Procs \cup {"nobody"},
                   token : Procs \cup {"none"}]
  <2>4. lock' \in L
    <3>1. CASE UNCHANGED lock
      BY <3>1
    <3>2. CASE lock' = NoLock
      BY <3>2
    <3>3. CASE lock' = [NoLock EXCEPT !.exists = TRUE, !.by = p]
      BY <3>3
    <3>4. CASE lock' = [lock EXCEPT !.token = p, !.stale = FALSE]
      BY <3>4
    <3>5. CASE lock' = [NoLock EXCEPT !.exists = TRUE, !.by = p, !.token = p]
      BY <3>5
    <3> QED BY <1>6, <3>1, <3>2, <3>3, <3>4, <3>5 DEF Reclaim, Creates
  <2>5. pc' \in [Procs -> Labels]
    <3> HIDE DEF Labels
    <3> QED BY <2>2
  <2>6. holds' \in [Procs -> BOOLEAN]
    BY <2>3
  <2> QED BY <2>1, <2>4, <2>5, <2>6
<1>7. ASSUME NEW p \in Procs, FailsOpen(p) PROVE LockType'
  BY <1>7 DEF FailsOpen
<1>8. ASSUME NEW p \in Procs, ReadQueue(p) PROVE LockType'
  <2>1. /\ pc' = [pc EXCEPT ![p] = "release"] \/ pc' = [pc EXCEPT ![p] = "write"]
        /\ UNCHANGED <<lock, holds, crashes>>
    BY <1>8 DEF ReadQueue
  <2> QED BY <2>1
<1>9. ASSUME NEW p \in Procs, WriteQueue(p) PROVE LockType'
  BY <1>9 DEF WriteQueue
<1>10. ASSUME NEW p \in Procs, Release(p) PROVE LockType'
  BY <1>10 DEF Release
<1>11. ASSUME NEW p \in Procs, Crash(p) PROVE LockType'
  BY <1>11 DEF Crash
<1>12. ASSUME LockAges PROVE LockType'
  BY <1>12 DEF LockAges
<1>13. CASE UNCHANGED vars
  BY <1>13 DEF vars
<1>14. ASSUME NEW p \in Procs, PackFails(p) PROVE LockType'
  BY <1>14 DEF PackFails
<1> QED
  BY <1>1, <1>2, <1>3, <1>4, <1>5, <1>6, <1>7, <1>8, <1>9, <1>10, <1>11, <1>12, <1>13, <1>14
     DEF Next, Step

(* Every action keeps the lock with its creator.                           *)
LEMMA LockStep == ASSUME LockType, LockInv, [Next]_vars PROVE LockInv'
<1> USE DEF LockType, LockInv, Labels, Critical, Locking, Go, NoLock, fileVars, sentVars,
            procVars
<1>1. ASSUME NEW p \in Procs, Flush(p) PROVE LockInv'
  BY <1>1 DEF Flush
<1>2. ASSUME NEW p \in Procs, Retry(p) PROVE LockInv'
  BY <1>2 DEF Retry
<1>3. ASSUME NEW p \in Procs, Upload(p) PROVE LockInv'
  BY <1>3 DEF Upload
<1>4. ASSUME NEW p \in Procs, OpenLock(p) PROVE LockInv'
  <2>1. CASE Creates(p) /\ Acquired(p) /\ crashes' = crashes
    <3>1. \A q \in Procs : pc'[q] \in Critical => q = p \/ crashes # 0
      BY <2>1 DEF Creates, Acquired
    <3>2. ~lock'.stale /\ lock'.exists /\ lock'.by = p
      BY <2>1 DEF Creates
    <3>3. holds'[p] /\ pc'[p] = "read" /\ \A q \in Procs : q # p => pc'[q] = pc[q]
      BY <2>1 DEF Acquired
    <3> QED BY <2>1, <3>1, <3>2, <3>3
  <2>2. CASE Go(p, "stat") /\ UNCHANGED <<lock, holds, crashes>>
    BY <2>2
  <2> QED BY <1>4, <2>1, <2>2 DEF OpenLock
<1>5. ASSUME NEW p \in Procs, StatLock(p) PROVE LockInv'
  BY <1>5 DEF StatLock
<1>6. ASSUME NEW p \in Procs, Reclaim(p) PROVE LockInv'
  <2>1. pc[p] \in {"unlink", "recreate", "token", "verify"} /\ crashes' = crashes
    BY <1>6 DEF Reclaim
  <2> QED BY <2>1
<1>7. ASSUME NEW p \in Procs, FailsOpen(p) PROVE LockInv'
  <2>1. (\E q \in Procs : pc[q] = "crashed") /\ crashes' = crashes
    BY <1>7 DEF FailsOpen, Abandoned
  <2> QED BY <2>1
<1>8. ASSUME NEW p \in Procs, ReadQueue(p) PROVE LockInv'
  <2>1. /\ pc[p] = "read"
        /\ pc' = [pc EXCEPT ![p] = "release"] \/ pc' = [pc EXCEPT ![p] = "write"]
        /\ UNCHANGED <<lock, holds, crashes>>
    BY <1>8 DEF ReadQueue
  <2> QED BY <2>1
<1>9. ASSUME NEW p \in Procs, WriteQueue(p) PROVE LockInv'
  BY <1>9 DEF WriteQueue
<1>10. ASSUME NEW p \in Procs, Release(p) PROVE LockInv'
  BY <1>10 DEF Release
<1>11. ASSUME NEW p \in Procs, Crash(p) PROVE LockInv'
  BY <1>11 DEF Crash
<1>12. ASSUME LockAges PROVE LockInv'
  <2>1. (\E q \in Procs : pc[q] = "crashed") /\ crashes' = crashes
    BY <1>12 DEF LockAges, Abandoned
  <2> QED BY <2>1
<1>13. CASE UNCHANGED vars
  BY <1>13 DEF vars
<1>14. ASSUME NEW p \in Procs, PackFails(p) PROVE LockInv'
  BY <1>14 DEF PackFails
<1> QED
  BY <1>1, <1>2, <1>3, <1>4, <1>5, <1>6, <1>7, <1>8, <1>9, <1>10, <1>11, <1>12, <1>13, <1>14
     DEF Next, Step

-----------------------------------------------------------------------------
(* Until a process crashes, no two processes are between the read and the  *)
(* write of the queue file (acquireRetryQueueLock), however many there are.*)
THEOREM Exclusion == Spec => []MutualExclusion
<1>1. LockType /\ LockInv => MutualExclusion
  BY DEF LockInv, MutualExclusion, Critical
<1>2. LockType /\ LockInv /\ [Next]_vars => (LockType /\ LockInv)'
  BY LockTypeStep, LockStep
<1> QED BY LockTypeInit, <1>1, <1>2, PTL DEF Spec

(* The server has what is deleted, or the bound drops it.                  *)
LEMMA DeletionStep ==
  ASSUME [Next]_vars PROVE \A r \in archives \ archives' : r \in delivered' \cup dropped'
<1> DEFINE Safe == \A r \in archives \ archives' : r \in delivered' \cup dropped'
<1>1. ASSUME NEW p \in Procs, Retry(p) PROVE Safe
  BY <1>1 DEF Retry, DeletesArchive
<1>2. ASSUME NEW p \in Procs, Upload(p) PROVE Safe
  BY <1>2 DEF Upload
<1>3. ASSUME NEW p \in Procs, ReadQueue(p) PROVE Safe
  <2>1. \E gone : archives' = archives \ gone /\ dropped' = dropped \cup gone
    BY <1>3 DEF ReadQueue
  <2> QED BY <2>1
<1>4. ASSUME NEW p \in Procs,
             Flush(p) \/ OpenLock(p) \/ StatLock(p) \/ Reclaim(p) \/ FailsOpen(p)
               \/ WriteQueue(p) \/ Release(p) \/ Crash(p) \/ PackFails(p)
      PROVE archives' = archives
  BY <1>4 DEF Flush, OpenLock, StatLock, Reclaim, FailsOpen, WriteQueue, Release, Crash,
              PackFails, fileVars
<1>5. ASSUME LockAges \/ UNCHANGED vars PROVE archives' = archives
  BY <1>5 DEF LockAges, vars, fileVars
<1> QED BY <1>1, <1>2, <1>3, <1>4, <1>5 DEF Next, Step

(* Whatever crashes, and whoever goes on without the lock, an archive is   *)
(* deleted only once the server has it, or when the bound drops it         *)
(* (flushRetryQueue, appendRetryQueueEntry).                               *)
THEOREM DeletionIsSafe == Spec => NothingDeletedUnsent
<1>1. [Next]_vars => \A r \in archives \ archives' : r \in delivered' \cup dropped'
  BY DeletionStep
<1> QED BY <1>1, PTL DEF Spec, NothingDeletedUnsent

-----------------------------------------------------------------------------
(* The queue.                                                              *)

QueueType ==
  /\ queue \in Seq(Runs) /\ archives \subseteq Runs /\ delivered \subseteq Runs /\ dropped \subseteq Runs
  /\ ts \in [Runs -> Nat] /\ phase \in [Procs -> {"flush", "append"}]
  /\ read \in [Procs -> Seq(Runs)] /\ next \in [Procs -> Nat]
  /\ flushed \in [Procs -> SUBSET Runs] /\ body \in [Procs -> Seq(Runs)]
  /\ crashes \in 0..MaxCrash

(* The process of r has not yet read the queue it appends r to.            *)
Unqueued(r) == phase[r] = "flush" \/ pc[r] \in Locking \cup {"read"}

(* A process flushes, then uploads, then appends; nobody has an entry of a *)
(* run that is not queued yet, or its archive before its upload failed;    *)
(* what a flush has uploaded has no archive any more.                      *)
OrderInv ==
  /\ \A p \in Procs : pc[p] \in {"flush", "retry", "upload"} => phase[p] = "flush"
  /\ \A p \in Procs : pc[p] = "flush" => next[p] = 1
  /\ \A p \in Procs : pc[p] = "retry" => next[p] \in DOMAIN read[p]
  /\ \A p \in Procs : phase[p] = "flush" => p \notin archives
  /\ \A p \in Procs : Unqueued(p) =>
       p \notin ToSet(queue) /\ \A o \in Procs : p \notin ToSet(read[o]) \cup ToSet(body[o]) \cup flushed[o]
  /\ \A p \in Procs : flushed[p] \cap archives = {}

(* Neither the file nor what anyone is about to write to it has an entry   *)
(* twice, or more entries than the bound.                                  *)
WithinBound(q) == IsInjective(q) /\ Len(q) <= MaxCount
BoundInv == WithinBound(queue) /\ \A p \in Procs : WithinBound(body[p])

QInv == LockType /\ QueueType /\ OrderInv /\ BoundInv

LEMMA RunsFinite == IsFiniteSet(Runs) /\ Procs \subseteq Runs /\ Old \subseteq Runs /\ MaxCount \in Nat /\ MaxCrash \in Nat
  BY RetryAssumption, FS_Union DEF Runs

LEMMA DistinctLemma ==
  ASSUME NEW S, NEW q \in Seq(S), IsInjective(q)
  PROVE IsFiniteSet(ToSet(q)) /\ Cardinality(ToSet(q)) = Len(q)
<1>1. Len(q) \in Nat /\ DOMAIN q = 1..Len(q) /\ q \in [1..Len(q) -> ToSet(q)]
  BY DEF ToSet
<1>2. q \in Bijection(1..Len(q), ToSet(q))
  <2>1. q \in Injection(1..Len(q), ToSet(q))
    BY <1>1 DEF Injection
  <2>2. \A t \in ToSet(q) : \E s \in 1..Len(q) : q[s] = t
    BY <1>1 DEF ToSet
  <2> QED BY <1>1, <2>1, <2>2 DEF Bijection, Surjection
<1>3. ExistsBijection(1..Len(q), ToSet(q))
  BY <1>2 DEF ExistsBijection
<1>4. IsFiniteSet(1..Len(q)) /\ Cardinality(1..Len(q)) = Len(q)
  BY <1>1, FS_Interval
<1> QED BY <1>3, <1>4, FS_Bijection

(* An entry appended to a queue that did not have it.                      *)
LEMMA AppendLemma ==
  ASSUME NEW S, NEW q \in Seq(S), NEW r \in S
  PROVE /\ Append(q, r) \in Seq(S) /\ ToSet(Append(q, r)) = ToSet(q) \cup {r}
        /\ IsInjective(q) /\ r \notin ToSet(q) => IsInjective(Append(q, r))
<1> DEFINE w == Append(q, r)
<1>1. /\ w \in Seq(S) /\ Len(w) = Len(q) + 1 /\ DOMAIN w = 1..Len(w) /\ DOMAIN q = 1..Len(q)
      /\ w[Len(q) + 1] = r /\ Len(q) \in Nat /\ \A i \in 1..Len(q) : w[i] = q[i]
  OBVIOUS
<1> HIDE DEF w
<1>2. \A i \in 1..Len(w) : i \in 1..Len(q) \/ i = Len(q) + 1
  BY <1>1
<1>3. \A i \in 1..Len(q) : i \in 1..Len(w)
  BY <1>1
<1>4. Len(q) + 1 \in 1..Len(w)
  BY <1>1
<1>5. ToSet(w) = {w[i] : i \in 1..Len(w)} /\ ToSet(q) = {q[i] : i \in 1..Len(q)}
  BY <1>1, Zenon DEF ToSet
<1>6. ToSet(w) = ToSet(q) \cup {r}
  <2>1. \A x \in ToSet(w) : x \in ToSet(q) \cup {r}
    BY <1>1, <1>2, <1>5
  <2>2. \A x \in ToSet(q) \cup {r} : x \in ToSet(w)
    BY <1>1, <1>3, <1>4, <1>5
  <2> QED BY <2>1, <2>2
<1>7. ASSUME IsInjective(q), r \notin ToSet(q) PROVE IsInjective(w)
  <2>1. \A i \in 1..Len(q) : w[i] # r
    BY <1>1, <1>5, <1>7
  <2>2. \A i, j \in 1..Len(q) : w[i] = w[j] => i = j
    BY <1>1, <1>7 DEF IsInjective
  <2>3. \A i, j \in 1..Len(w) : w[i] = w[j] => i = j
    BY <1>1, <1>2, <2>1, <2>2
  <2> QED BY <1>1, <2>3 DEF IsInjective
<1> QED BY <1>1, <1>6, <1>7 DEF w

(* What the bound leaves is within it, however the entries were queued.    *)
LEMMA BoundedLemma ==
  ASSUME NEW q \in Seq(Runs), IsInjective(q), ts \in [Runs -> Nat]
  PROVE Bounded(q) \in Seq(Runs) /\ ToSet(Bounded(q)) \subseteq ToSet(q) /\ WithinBound(Bounded(q))
<1> DEFINE Before(r) == {s \in ToSet(q) : ts[s] < ts[r]}
           X == {r \in ToSet(q) : Cardinality(Before(r)) + MaxCount < Len(q)}
           w == Bounded(q)
<1>1. w \in Seq(Runs) /\ ToSet(w) = ToSet(q) \ X /\ IsInjective(w)
  BY WithoutLemma DEF Bounded
<1>2. ToSet(q) \subseteq Runs
  BY DEF ToSet
<1> HIDE DEF w
<1>3. IsFiniteSet(ToSet(q)) /\ Cardinality(ToSet(q)) = Len(q) /\ IsFiniteSet(ToSet(w)) /\ Cardinality(ToSet(w)) = Len(w)
  BY <1>1, DistinctLemma
<1>4. Len(w) <= MaxCount
  <2>1. CASE ToSet(w) = {}
    BY <1>3, <2>1, FS_EmptySet, RunsFinite
  <2>2. CASE ToSet(w) # {}
    <3> DEFINE T == {ts[r] : r \in ToSet(w)}
    <3>1. T \in SUBSET Nat /\ T # {}
      BY <1>1, <1>2, <2>2
    <3>2. PICK n \in T : \A k \in T : ~(k < n)
      BY <3>1, Least
    <3>3. PICK m \in ToSet(w) : \A r \in ToSet(w) : ~(ts[r] < ts[m])
      BY <3>2
    <3>4. Before(m) \cap ToSet(w) = {} /\ Before(m) \cup ToSet(w) \subseteq ToSet(q)
      BY <1>1, <3>3
    <3>5. IsFiniteSet(Before(m)) /\ Cardinality(Before(m)) \in Nat
      BY <1>3, FS_Subset, FS_CardinalityType
    <3>6. Cardinality(Before(m)) + MaxCount >= Len(q)
      <4>1. m \in ToSet(q) /\ m \notin X
        BY <1>1
      <4> QED BY <3>5, <4>1, RunsFinite
    <3> HIDE DEF Before
    <3>7. Cardinality(Before(m) \cup ToSet(w)) = Cardinality(Before(m)) + Cardinality(ToSet(w)) - 0
      <4>1. Cardinality(Before(m) \cap ToSet(w)) = 0
        BY <3>4, FS_EmptySet, Zenon
      <4>2. Cardinality(Before(m) \cup ToSet(w))
              = Cardinality(Before(m)) + Cardinality(ToSet(w)) - Cardinality(Before(m) \cap ToSet(w))
        BY <1>3, <3>5, FS_Union, Zenon
      <4> QED BY <4>1, <4>2, Zenon
    <3>8. Cardinality(Before(m) \cup ToSet(w)) <= Cardinality(ToSet(q))
      BY <1>3, <3>4, FS_Subset
    <3>9. Len(w) \in Nat /\ Len(q) \in Nat
      BY <1>1
    <3> QED BY <1>3, <3>5, <3>6, <3>7, <3>8, <3>9, RunsFinite
  <2> QED BY <2>1, <2>2
<1>5. ToSet(w) \subseteq ToSet(q)
  BY <1>1
<1> QED BY <1>1, <1>4, <1>5 DEF w, WithinBound

LEMMA EmptyLemma == ToSet(<<>>) = {} /\ <<>> \in Seq(Runs) /\ WithinBound(<<>>)
  BY RunsFinite DEF ToSet, WithinBound, IsInjective

LEMMA QInit == Init => QInv
<1> SUFFICES ASSUME Init PROVE QInv
  OBVIOUS
<1> DEFINE n == Cardinality(Old)
<1>1. n \in Nat /\ n <= MaxCount /\ IsFiniteSet(Old)
  BY RetryAssumption, FS_CardinalityType
<1>2. queue \in [1..n -> Old] /\ \A i, j \in 1..n : i # j => queue[i] # queue[j]
  BY DEF Init, SetToSeqs
<1> HIDE DEF n
<1>3. queue \in Seq(Old) /\ Len(queue) = n /\ DOMAIN queue = 1..n
  <2>1. queue \in Seq(Old)
    BY <1>1, <1>2
  <2> QED BY <1>1, <1>2, <2>1
<1>4. queue \in Seq(Runs) /\ ToSet(queue) \subseteq Old /\ WithinBound(queue)
  <2>1. IsInjective(queue)
    BY <1>2, <1>3 DEF IsInjective
  <2>2. ToSet(queue) \subseteq Old
    BY <1>2, <1>3 DEF ToSet
  <2>3. queue \in Seq(Runs)
    BY <1>1, <1>2, <1>3, RunsFinite
  <2> QED BY <1>1, <1>3, <2>1, <2>2, <2>3 DEF WithinBound
<1>5. \A r \in Old : \E i \in DOMAIN queue : queue[i] = r
  <2>1. queue \in Injection(1..n, Old)
    BY <1>2, <1>3 DEF Injection, IsInjective
  <2>2. IsFiniteSet(1..n) /\ Cardinality(1..n) = n
    BY <1>1, FS_Interval
  <2>3. Cardinality(1..n) = Cardinality(Old)
    BY <2>2 DEF n
  <2>4. queue \in Surjection(1..n, Old)
    BY <1>1, <2>1, <2>3, FS_Injection
  <2> QED BY <1>3, <2>4 DEF Surjection
<1>6. ts \in [Runs -> Nat]
  <2>1. \A r \in Old : (CHOOSE i \in DOMAIN queue : queue[i] = r) \in Nat
    BY <1>1, <1>3, <1>5
  <2> QED BY <2>1 DEF Init
<1>7. LockType
  BY LockTypeInit
<1>8. QueueType
  <2>1. archives \subseteq Runs /\ delivered \subseteq Runs /\ dropped \subseteq Runs /\ crashes \in 0..MaxCrash
    BY RunsFinite DEF Init
  <2>2. phase \in [Procs -> {"flush", "append"}] /\ read \in [Procs -> Seq(Runs)] /\ next \in [Procs -> Nat]
        /\ flushed \in [Procs -> SUBSET Runs] /\ body \in [Procs -> Seq(Runs)]
    BY EmptyLemma DEF Init
  <2> QED BY <1>4, <1>6, <2>1, <2>2 DEF QueueType
<1>9. OrderInv
  <2>1. \A p \in Procs : pc[p] = "flush" /\ phase[p] = "flush" /\ read[p] = <<>> /\ body[p] = <<>> /\ flushed[p] = {} /\ next[p] = 1
    BY DEF Init
  <2>2. \A p \in Procs : p \notin Old
    BY RetryAssumption
  <2>3. archives = Old
    BY DEF Init
  <2> QED BY <1>4, <2>1, <2>2, <2>3, EmptyLemma DEF OrderInv, Unqueued
<1>10. BoundInv
  <2>1. \A p \in Procs : body[p] = <<>>
    BY DEF Init
  <2> QED BY <1>4, <2>1, EmptyLemma DEF BoundInv
<1> QED BY <1>7, <1>8, <1>9, <1>10 DEF QInv

(* What the steps of the lock leave alone.                                 *)
Lock(p) == OpenLock(p) \/ StatLock(p) \/ Reclaim(p) \/ FailsOpen(p)

LEMMA LockEffect ==
  ASSUME LockType, NEW p \in Procs, Lock(p)
  PROVE /\ UNCHANGED <<queue, archives, ts, delivered, dropped, phase, read, next, flushed, body, crashes>>
        /\ pc[p] \in Locking /\ pc'[p] \in Locking \cup {"read"} /\ \A q \in Procs : q # p => pc'[q] = pc[q]
<1>1. UNCHANGED <<queue, archives, ts, delivered, dropped, phase, read, next, flushed, body, crashes>>
  BY DEF Lock, OpenLock, StatLock, Reclaim, FailsOpen, fileVars, sentVars
<1>2. pc[p] \in Locking /\ \E l \in Locking \cup {"read"} : pc' = [pc EXCEPT ![p] = l]
  BY DEF Lock, OpenLock, StatLock, Reclaim, FailsOpen, Acquired, Go, Locking
<1> QED BY <1>1, <1>2 DEF LockType

(* Which process a step is of, and that it leaves the label of the others. *)
LEMMA GoLemma ==
  ASSUME LockType, NEW p \in Procs, NEW l, Go(p, l)
  PROVE pc'[p] = l /\ \A q \in Procs : q # p => pc'[q] = pc[q]
  BY DEF Go, LockType

(* What ReadQueue does, whichever phase it is of.                          *)
LEMMA ReadEffect ==
  ASSUME QInv, NEW p \in Procs, ReadQueue(p)
  PROVE /\ pc[p] = "read" /\ pc'[p] \in {"release", "write"} /\ \A q \in Procs : q # p => pc'[q] = pc[q]
        /\ UNCHANGED <<queue, lock, delivered, ts, phase, read, next, flushed, holds, crashes>>
        /\ pc'[p] = "release" => phase[p] = "flush"
        /\ \E new \in Seq(Runs), gone \in SUBSET Runs :
             /\ body' = [body EXCEPT ![p] = new] /\ body'[p] = new
             /\ archives' = archives \ gone /\ dropped' = dropped \cup gone
             /\ WithinBound(new)
             /\ ToSet(new) \subseteq ToSet(queue) \cup (IF phase[p] = "flush" THEN {} ELSE {p})
             /\ phase[p] = "flush" => ToSet(new) = ToSet(queue) \ flushed[p]
             /\ phase[p] # "flush" => gone = (ToSet(queue) \cup {p}) \ ToSet(new)
<1> DEFINE new  == IF phase[p] = "flush" THEN Remaining(p) ELSE Bounded(Append(queue, p))
           gone == IF phase[p] = "flush" THEN {} ELSE ToSet(Append(queue, p)) \ ToSet(new)
<1>1. /\ pc[p] = "read" /\ body' = [body EXCEPT ![p] = new]
      /\ archives' = archives \ gone /\ dropped' = dropped \cup gone
      /\ Go(p, IF phase[p] = "flush" /\ Len(new) = Len(queue) THEN "release" ELSE "write")
      /\ UNCHANGED <<queue, lock, delivered, ts, phase, read, next, flushed, holds, crashes>>
  BY DEF ReadQueue
<1>2. /\ queue \in Seq(Runs) /\ WithinBound(queue) /\ p \in Runs /\ body \in [Procs -> Seq(Runs)] /\ ts \in [Runs -> Nat]
      /\ LockType /\ ToSet(queue) \subseteq Runs
  BY RunsFinite DEF QInv, QueueType, BoundInv, ToSet
<1>3. p \notin ToSet(queue)
  BY <1>1 DEF QInv, OrderInv, Unqueued
<1>4. /\ new \in Seq(Runs) /\ WithinBound(new)
      /\ ToSet(new) \subseteq ToSet(queue) \cup (IF phase[p] = "flush" THEN {} ELSE {p})
      /\ phase[p] = "flush" => ToSet(new) = ToSet(queue) \ flushed[p]
  <2>1. CASE phase[p] = "flush"
    <3>1. new = Without(queue, flushed[p])
      BY <2>1 DEF Remaining
    <3> HIDE DEF new
    <3>2. /\ new \in Seq(Runs) /\ Len(new) <= Len(queue) /\ ToSet(new) = ToSet(queue) \ flushed[p]
          /\ IsInjective(queue) => IsInjective(new)
      BY <1>2, <3>1, WithoutLemma
    <3>3. Len(new) \in Nat /\ Len(queue) \in Nat /\ MaxCount \in Nat
      BY <1>2, <3>2, RunsFinite
    <3> QED BY <1>2, <2>1, <3>2, <3>3 DEF WithinBound
  <2>2. CASE phase[p] # "flush"
    <3>1. new = Bounded(Append(queue, p))
      BY <2>2
    <3> HIDE DEF new
    <3>2. Append(queue, p) \in Seq(Runs) /\ ToSet(Append(queue, p)) = ToSet(queue) \cup {p} /\ IsInjective(Append(queue, p))
      BY <1>2, <1>3, AppendLemma DEF WithinBound
    <3> QED BY <1>2, <2>2, <3>1, <3>2, BoundedLemma
  <2> QED BY <2>1, <2>2
<1>5. phase[p] # "flush" => gone = (ToSet(queue) \cup {p}) \ ToSet(new)
  BY <1>2, AppendLemma
<1>6. gone \in SUBSET Runs
  BY <1>2, AppendLemma
<1> HIDE DEF new, gone
<1>7. body'[p] = new
  BY <1>1, <1>2
<1>8. /\ pc'[p] \in {"release", "write"} /\ \A q \in Procs : q # p => pc'[q] = pc[q]
      /\ pc'[p] = "release" => phase[p] = "flush"
  BY <1>1, <1>2, GoLemma
<1> QED BY <1>1, <1>4, <1>5, <1>6, <1>7, <1>8

LEMMA UploadEffect ==
  ASSUME QInv, NEW p \in Procs, Upload(p)
  PROVE /\ pc[p] = "upload" /\ phase[p] = "flush" /\ \A q \in Procs : q # p => pc'[q] = pc[q]
        /\ UNCHANGED <<queue, lock, dropped, read, next, flushed, body, holds, crashes>>
        /\ delivered' \subseteq Runs /\ ts' \in [Runs -> Nat]
        /\ \/ pc'[p] = "done" /\ UNCHANGED <<archives, phase>>
           \/ /\ pc'[p] = "open" /\ archives' = archives \cup {p}
              /\ phase' = [phase EXCEPT ![p] = "append"] /\ phase'[p] = "append"
<1>1. pc[p] = "upload" /\ UNCHANGED <<queue, lock, dropped, read, next, flushed, body, holds, crashes>>
  BY DEF Upload
<1>2. PICK got, ok \in BOOLEAN :
         /\ delivered' = IF got THEN delivered \cup {p} ELSE delivered
         /\ IF ok THEN Go(p, "done") /\ UNCHANGED <<archives, phase, ts>>
            ELSE /\ archives' = archives \cup {p}
                 /\ phase' = [phase EXCEPT ![p] = "append"]
                 /\ ts' = [ts EXCEPT ![p] = Cardinality({r \in Runs : ts[r] > 0}) + 1]
                 /\ Go(p, "open")
  BY DEF Upload
<1>3. phase[p] = "flush" /\ LockType /\ delivered \subseteq Runs /\ p \in Runs /\ ts \in [Runs -> Nat]
      /\ phase \in [Procs -> {"flush", "append"}]
  BY <1>1, RunsFinite DEF QInv, OrderInv, QueueType
<1>4. Cardinality({r \in Runs : ts[r] > 0}) + 1 \in Nat
  <2>1. {r \in Runs : ts[r] > 0} \in SUBSET Runs
    OBVIOUS
  <2>2. IsFiniteSet({r \in Runs : ts[r] > 0})
    BY <2>1, RunsFinite, FS_Subset
  <2> QED BY <2>2, FS_CardinalityType
<1>5. ts' \in [Runs -> Nat]
  BY <1>2, <1>3, <1>4
<1>6. delivered' \subseteq Runs
  BY <1>2, <1>3
<1>7. CASE ok
  BY <1>1, <1>2, <1>3, <1>5, <1>6, <1>7, GoLemma
<1>8. CASE ~ok
  <2>1. archives' = archives \cup {p} /\ phase' = [phase EXCEPT ![p] = "append"] /\ Go(p, "open")
    BY <1>2, <1>8
  <2>2. phase'[p] = "append"
    BY <1>3, <2>1
  <2> QED BY <1>1, <1>3, <1>5, <1>6, <2>1, <2>2, GoLemma
<1> QED BY <1>7, <1>8

LEMMA RetryEffect ==
  ASSUME QInv, NEW p \in Procs, Retry(p)
  PROVE /\ pc[p] = "retry" /\ \A q \in Procs : q # p => pc'[q] = pc[q]
        /\ UNCHANGED <<queue, lock, dropped, ts, phase, read, body, holds, crashes>>
        /\ next' = [next EXCEPT ![p] = next[p] + 1]
        /\ pc'[p] = IF next[p] = Len(read[p]) THEN "open" ELSE "retry"
        /\ \E r \in Runs : /\ r \in ToSet(read[p]) /\ delivered' \subseteq delivered \cup {r}
                           /\ \/ UNCHANGED <<archives, flushed>>
                              \/ archives' = archives \ {r} /\ flushed' = [flushed EXCEPT ![p] = flushed[p] \cup {r}]
<1> DEFINE r == read[p][next[p]]
<1>1. /\ pc[p] = "retry" /\ next' = [next EXCEPT ![p] = next[p] + 1]
      /\ Go(p, IF next[p] = Len(read[p]) THEN "open" ELSE "retry")
      /\ UNCHANGED <<queue, lock, dropped, ts, phase, read, body, holds, crashes>>
  BY DEF Retry
<1>2. PICK got, ok \in BOOLEAN :
          /\ delivered' = IF got THEN delivered \cup {r} ELSE delivered
          /\ DeletesArchive(r, ok)
          /\ flushed' = [flushed EXCEPT ![p] = IF ok THEN flushed[p] \cup {r} ELSE flushed[p]]
  BY DEF Retry
<1>3. r \in ToSet(read[p]) /\ r \in Runs
  <2>1. next[p] \in DOMAIN read[p] /\ read[p] \in Seq(Runs)
    BY <1>1 DEF QInv, OrderInv, QueueType
  <2> QED BY <2>1 DEF ToSet
<1> HIDE DEF r
<1>4. flushed \in [Procs -> SUBSET Runs] /\ LockType
  BY DEF QInv, QueueType
<1>5. \/ UNCHANGED <<archives, flushed>>
      \/ archives' = archives \ {r} /\ flushed' = [flushed EXCEPT ![p] = flushed[p] \cup {r}]
  BY <1>2, <1>4 DEF DeletesArchive
<1>6. /\ \A q \in Procs : q # p => pc'[q] = pc[q]
      /\ pc'[p] = IF next[p] = Len(read[p]) THEN "open" ELSE "retry"
  BY <1>1, <1>4, GoLemma
<1>7. delivered' \subseteq delivered \cup {r}
  BY <1>2
<1> QED BY <1>1, <1>3, <1>5, <1>6, <1>7

(* A step of p that leaves the data alone, but for the label.              *)
LEMMA LabelStep ==
  ASSUME QInv, NEW p \in Procs, \A q \in Procs : q # p => pc'[q] = pc[q],
         UNCHANGED <<queue, archives, ts, delivered, dropped, phase, read, next, flushed, body>>,
         crashes' \in 0..MaxCrash,
         pc'[p] \in {"flush", "retry", "upload"} => phase[p] = "flush" /\ next[p] = 1 /\ pc'[p] = "upload",
         Unqueued(p)' => Unqueued(p)
  PROVE QueueType' /\ OrderInv' /\ BoundInv'
<1>1. QueueType' /\ BoundInv'
  BY DEF QInv, QueueType, BoundInv
<1>2. \A q \in Procs : Unqueued(q)' => Unqueued(q)
  BY DEF Unqueued
<1>3. OrderInv'
  BY <1>2 DEF QInv, OrderInv
<1> QED BY <1>1, <1>3

LEMMA QStep == ASSUME QInv, [Next]_vars PROVE QInv'
<1>0. LockType /\ QueueType /\ OrderInv /\ BoundInv
  BY DEF QInv
<1>l. LockType'
  BY <1>0, LockTypeStep
<1> SUFFICES QueueType' /\ OrderInv' /\ BoundInv'
  BY <1>l DEF QInv
<1>1. ASSUME NEW p \in Procs, Lock(p) PROVE QueueType' /\ OrderInv' /\ BoundInv'
  <2>1. /\ UNCHANGED <<queue, archives, ts, delivered, dropped, phase, read, next, flushed, body, crashes>>
        /\ pc[p] \in Locking /\ pc'[p] \in Locking \cup {"read"} /\ \A q \in Procs : q # p => pc'[q] = pc[q]
    BY <1>0, <1>1, LockEffect
  <2>2. pc'[p] \notin {"flush", "retry", "upload"}
    BY <2>1 DEF Locking
  <2>3. Unqueued(p)
    BY <2>1 DEF Unqueued
  <2> QED BY <1>0, <2>1, <2>2, <2>3, LabelStep DEF QueueType
<1>2. ASSUME NEW p \in Procs, Flush(p) PROVE QueueType' /\ OrderInv' /\ BoundInv'
  <2>1. /\ pc[p] = "flush" /\ read' = [read EXCEPT ![p] = queue] /\ Go(p, IF queue = <<>> THEN "open" ELSE "retry")
        /\ UNCHANGED <<queue, archives, ts, delivered, dropped, phase, next, flushed, body, crashes>>
    BY <1>2 DEF Flush, fileVars, sentVars
  <2>2. /\ pc'[p] \in {"open", "retry"} /\ (pc'[p] = "retry" => queue # <<>>)
        /\ \A q \in Procs : q # p => pc'[q] = pc[q]
    BY <1>0, <2>1, GoLemma
  <2>3. QueueType' /\ BoundInv'
    BY <1>0, <2>1 DEF QueueType, BoundInv
  <2>4. read'[p] = queue /\ \A q \in Procs : q # p => read'[q] = read[q]
    BY <1>0, <2>1 DEF QueueType
  <2>5. phase[p] = "flush" /\ next[p] = 1
    BY <1>0, <2>1 DEF OrderInv
  <2>6. \A q \in Procs : Unqueued(q)' => Unqueued(q)
    BY <2>1, <2>2, <2>5 DEF Unqueued
  <2>7. queue # <<>> => 1 \in DOMAIN queue
    BY <1>0 DEF QueueType
  <2>8. \A q \in Procs : Unqueued(q)' =>
          q \notin ToSet(queue') /\ \A o \in Procs : q \notin ToSet(read'[o]) \cup ToSet(body'[o]) \cup flushed'[o]
    <3> SUFFICES ASSUME NEW q \in Procs, Unqueued(q)', NEW o \in Procs
                 PROVE q \notin ToSet(queue') /\ q \notin ToSet(read'[o]) \cup ToSet(body'[o]) \cup flushed'[o]
      OBVIOUS
    <3>1. q \notin ToSet(queue) /\ q \notin ToSet(read[o]) \cup ToSet(body[o]) \cup flushed[o]
      BY <1>0, <2>6 DEF OrderInv
    <3>2. read'[o] = queue \/ read'[o] = read[o]
      BY <2>4
    <3> QED BY <2>1, <3>1, <3>2
  <2>9. OrderInv'
    BY <1>0, <2>1, <2>2, <2>4, <2>5, <2>7, <2>8 DEF OrderInv
  <2> QED BY <2>3, <2>9
<1>3. ASSUME NEW p \in Procs, Retry(p) PROVE QueueType' /\ OrderInv' /\ BoundInv'
  <2>1. /\ pc[p] = "retry" /\ \A q \in Procs : q # p => pc'[q] = pc[q]
        /\ UNCHANGED <<queue, lock, dropped, ts, phase, read, body, holds, crashes>>
        /\ next' = [next EXCEPT ![p] = next[p] + 1]
        /\ pc'[p] = IF next[p] = Len(read[p]) THEN "open" ELSE "retry"
    BY <1>3, RetryEffect
  <2>2. PICK r \in Runs : /\ r \in ToSet(read[p]) /\ delivered' \subseteq delivered \cup {r}
                          /\ \/ UNCHANGED <<archives, flushed>>
                             \/ archives' = archives \ {r} /\ flushed' = [flushed EXCEPT ![p] = flushed[p] \cup {r}]
    BY <1>3, RetryEffect
  <2>3. /\ next' \in [Procs -> Nat] /\ next'[p] = next[p] + 1 /\ \A q \in Procs : q # p => next'[q] = next[q]
    BY <1>0, <2>1 DEF QueueType
  <2>4. /\ flushed' \in [Procs -> SUBSET Runs] /\ archives' \subseteq archives
        /\ \A q \in Procs : flushed'[q] \subseteq flushed[q] \cup {r} /\ flushed'[q] \cap archives' = {}
        /\ \A q \in Procs : q # p => flushed'[q] = flushed[q]
    <3>1. \A q \in Procs : flushed[q] \cap archives = {}
      BY <1>0 DEF OrderInv
    <3>2. CASE UNCHANGED <<archives, flushed>>
      BY <1>0, <3>1, <3>2 DEF QueueType
    <3>3. CASE archives' = archives \ {r} /\ flushed' = [flushed EXCEPT ![p] = flushed[p] \cup {r}]
      <4>1. flushed' \in [Procs -> SUBSET Runs] /\ flushed'[p] = flushed[p] \cup {r}
            /\ \A q \in Procs : q # p => flushed'[q] = flushed[q]
        BY <1>0, <3>3 DEF QueueType
      <4>2. \A q \in Procs : q = p \/ flushed'[q] = flushed[q]
        BY <4>1
      <4> QED BY <3>1, <3>3, <4>1, <4>2
    <3> QED BY <2>2, <3>2, <3>3
  <2>5. QueueType' /\ BoundInv'
    BY <1>0, <2>1, <2>2, <2>3, <2>4 DEF QueueType, BoundInv
  <2>6. phase[p] = "flush" /\ next[p] \in DOMAIN read[p] /\ read[p] \in Seq(Runs)
    BY <1>0, <2>1 DEF OrderInv, QueueType
  <2>7. pc'[p] = "retry" => next'[p] \in DOMAIN read'[p]
    BY <2>1, <2>3, <2>6
  <2>8. \A q \in Procs : Unqueued(q)' => Unqueued(q)
    BY <2>1, <2>6 DEF Unqueued
  <2>9. \A q \in Procs : Unqueued(q)' =>
          q \notin ToSet(queue') /\ \A o \in Procs : q \notin ToSet(read'[o]) \cup ToSet(body'[o]) \cup flushed'[o]
    <3> SUFFICES ASSUME NEW q \in Procs, Unqueued(q)', NEW o \in Procs
                 PROVE q \notin ToSet(queue') /\ q \notin ToSet(read'[o]) \cup ToSet(body'[o]) \cup flushed'[o]
      OBVIOUS
    <3>1. q \notin ToSet(queue) /\ q \notin ToSet(read[o]) \cup ToSet(body[o]) \cup flushed[o] /\ q \notin ToSet(read[p])
      BY <1>0, <2>8 DEF OrderInv
    <3>2. q # r
      BY <2>2, <3>1
    <3> QED BY <2>1, <2>4, <3>1, <3>2
  <2>10. OrderInv'
    BY <1>0, <2>1, <2>3, <2>4, <2>6, <2>7, <2>9 DEF OrderInv
  <2> QED BY <2>5, <2>10
<1>4. ASSUME NEW p \in Procs, Upload(p) PROVE QueueType' /\ OrderInv' /\ BoundInv'
  <2>1. /\ pc[p] = "upload" /\ phase[p] = "flush" /\ \A q \in Procs : q # p => pc'[q] = pc[q]
        /\ UNCHANGED <<queue, lock, dropped, read, next, flushed, body, holds, crashes>>
        /\ delivered' \subseteq Runs /\ ts' \in [Runs -> Nat]
        /\ \/ pc'[p] = "done" /\ UNCHANGED <<archives, phase>>
           \/ /\ pc'[p] = "open" /\ archives' = archives \cup {p}
              /\ phase' = [phase EXCEPT ![p] = "append"] /\ phase'[p] = "append"
    BY <1>4, UploadEffect
  <2>2. p \in Runs /\ Unqueued(p)
    BY <2>1, RunsFinite DEF Unqueued
  <2>3. /\ phase' \in [Procs -> {"flush", "append"}] /\ archives' \subseteq archives \cup {p}
        /\ \A q \in Procs : q # p => phase'[q] = phase[q]
    BY <1>0, <2>1 DEF QueueType
  <2>4. QueueType' /\ BoundInv'
    BY <1>0, <2>1, <2>2, <2>3 DEF QueueType, BoundInv
  <2>5. \A q \in Procs : Unqueued(q)' => Unqueued(q)
    BY <2>1, <2>2, <2>3 DEF Unqueued
  <2>6. \A o \in Procs : p \notin flushed[o]
    BY <1>0, <2>2 DEF OrderInv
  <2>7. \A o \in Procs : flushed[o] \cap archives' = {}
    BY <1>0, <2>3, <2>6 DEF OrderInv
  <2>8. \A q \in Procs : phase'[q] = "flush" => q \notin archives'
    BY <1>0, <2>1, <2>3 DEF OrderInv
  <2>9. OrderInv'
    BY <1>0, <2>1, <2>3, <2>5, <2>7, <2>8 DEF OrderInv
  <2> QED BY <2>4, <2>9
<1>5. ASSUME NEW p \in Procs, PackFails(p) \/ Crash(p) PROVE QueueType' /\ OrderInv' /\ BoundInv'
  <2>1. /\ UNCHANGED <<queue, archives, ts, delivered, dropped, phase, read, next, flushed, body>>
        /\ Go(p, "done") \/ Go(p, "crashed")
    BY <1>5 DEF PackFails, Crash, fileVars, sentVars
  <2>2. crashes' \in 0..MaxCrash
    BY <1>0, <1>5, RunsFinite DEF PackFails, Crash, QueueType
  <2>3. pc'[p] \in {"done", "crashed"} /\ \A q \in Procs : q # p => pc'[q] = pc[q]
    BY <1>0, <2>1, GoLemma
  <2>4. Unqueued(p)' => Unqueued(p)
    BY <2>1, <2>3 DEF Unqueued, Locking
  <2> QED BY <2>1, <2>2, <2>3, <2>4, LabelStep
<1>6. ASSUME NEW p \in Procs, ReadQueue(p) PROVE QueueType' /\ OrderInv' /\ BoundInv'
  <2>1. /\ pc[p] = "read" /\ pc'[p] \in {"release", "write"} /\ \A q \in Procs : q # p => pc'[q] = pc[q]
        /\ UNCHANGED <<queue, lock, delivered, ts, phase, read, next, flushed, holds, crashes>>
    BY <1>6, ReadEffect
  <2>2. PICK new \in Seq(Runs), gone \in SUBSET Runs :
             /\ body' = [body EXCEPT ![p] = new] /\ body'[p] = new
             /\ archives' = archives \ gone /\ dropped' = dropped \cup gone
             /\ WithinBound(new)
             /\ ToSet(new) \subseteq ToSet(queue) \cup (IF phase[p] = "flush" THEN {} ELSE {p})
    BY <1>6, ReadEffect
  <2>3. /\ body' \in [Procs -> Seq(Runs)] /\ \A q \in Procs : q # p => body'[q] = body[q]
    BY <1>0, <2>2 DEF QueueType
  <2>4. QueueType'
    BY <1>0, <2>1, <2>2, <2>3 DEF QueueType
  <2>5. BoundInv'
    <3>1. \A q \in Procs : WithinBound(body'[q])
      BY <1>0, <2>2, <2>3 DEF BoundInv
    <3> QED BY <1>0, <2>1, <3>1 DEF BoundInv, WithinBound
  <2>6. \A q \in Procs : Unqueued(q)' => Unqueued(q) /\ (q = p => phase[p] = "flush")
    BY <2>1 DEF Unqueued, Locking
  <2>7. \A q \in Procs : Unqueued(q)' => \A o \in Procs : q \notin ToSet(read[o]) \cup ToSet(body'[o]) \cup flushed[o]
    <3> SUFFICES ASSUME NEW q \in Procs, Unqueued(q)', NEW o \in Procs
                 PROVE q \notin ToSet(read[o]) \cup ToSet(body'[o]) \cup flushed[o]
      OBVIOUS
    <3>1. q \notin ToSet(queue) /\ q \notin ToSet(read[o]) \cup ToSet(body[o]) \cup flushed[o]
      BY <1>0, <2>6 DEF OrderInv
    <3>2. q \notin ToSet(new)
      BY <2>2, <2>6, <3>1
    <3> QED BY <2>2, <2>3, <3>1, <3>2
  <2>8. OrderInv'
    BY <1>0, <2>1, <2>2, <2>6, <2>7 DEF OrderInv
  <2> QED BY <2>4, <2>5, <2>8
<1>7. ASSUME NEW p \in Procs, WriteQueue(p) PROVE QueueType' /\ OrderInv' /\ BoundInv'
  <2>1. /\ pc[p] = "write" /\ queue' = body[p] /\ Go(p, "release")
        /\ UNCHANGED <<archives, ts, delivered, dropped, phase, read, next, flushed, body, crashes>>
    BY <1>7 DEF WriteQueue, sentVars
  <2>2. pc'[p] = "release" /\ \A q \in Procs : q # p => pc'[q] = pc[q]
    BY <1>0, <2>1, GoLemma
  <2>3. QueueType' /\ BoundInv'
    BY <1>0, <2>1 DEF QueueType, BoundInv, WithinBound
  <2>4. \A q \in Procs : Unqueued(q)' => Unqueued(q)
    BY <2>1, <2>2 DEF Unqueued, Locking
  <2>5. \A q \in Procs : Unqueued(q)' => q \notin ToSet(body[p])
    BY <1>0, <2>4 DEF OrderInv
  <2>6. OrderInv'
    BY <1>0, <2>1, <2>2, <2>4, <2>5 DEF OrderInv
  <2> QED BY <2>3, <2>6
<1>8. ASSUME NEW p \in Procs, Release(p) PROVE QueueType' /\ OrderInv' /\ BoundInv'
  <2>1. /\ pc[p] = "release" /\ Go(p, IF phase[p] = "flush" THEN "upload" ELSE "done")
        /\ read' = [read EXCEPT ![p] = <<>>] /\ next' = [next EXCEPT ![p] = 1]
        /\ flushed' = [flushed EXCEPT ![p] = {}] /\ body' = [body EXCEPT ![p] = <<>>]
        /\ UNCHANGED <<queue, archives, ts, delivered, dropped, phase, crashes>>
    BY <1>8 DEF Release, sentVars
  <2>2. /\ pc'[p] = (IF phase[p] = "flush" THEN "upload" ELSE "done") /\ \A q \in Procs : q # p => pc'[q] = pc[q]
    BY <1>0, <2>1, GoLemma
  <2>3. /\ read'[p] = <<>> /\ next'[p] = 1 /\ flushed'[p] = {} /\ body'[p] = <<>>
        /\ \A q \in Procs : q # p => read'[q] = read[q] /\ next'[q] = next[q] /\ flushed'[q] = flushed[q] /\ body'[q] = body[q]
        /\ read' \in [Procs -> Seq(Runs)] /\ next' \in [Procs -> Nat]
        /\ flushed' \in [Procs -> SUBSET Runs] /\ body' \in [Procs -> Seq(Runs)]
    BY <1>0, <2>1, EmptyLemma DEF QueueType
  <2>4. QueueType'
    BY <1>0, <2>1, <2>3 DEF QueueType
  <2>5. BoundInv'
    <3>1. \A q \in Procs : WithinBound(body'[q])
      BY <1>0, <2>3, EmptyLemma DEF BoundInv
    <3> QED BY <1>0, <2>1, <3>1 DEF BoundInv, WithinBound
  <2>6. \A q \in Procs : Unqueued(q)' => Unqueued(q)
    BY <2>1, <2>2 DEF Unqueued, Locking
  <2>7. \A q \in Procs : Unqueued(q)' => \A o \in Procs : q \notin ToSet(read'[o]) \cup ToSet(body'[o]) \cup flushed'[o]
    <3> SUFFICES ASSUME NEW q \in Procs, Unqueued(q)', NEW o \in Procs
                 PROVE q \notin ToSet(read'[o]) \cup ToSet(body'[o]) \cup flushed'[o]
      OBVIOUS
    <3>1. q \notin ToSet(read[o]) \cup ToSet(body[o]) \cup flushed[o]
      BY <1>0, <2>6 DEF OrderInv
    <3> QED BY <2>3, <3>1, EmptyLemma
  <2>8. \A o \in Procs : flushed'[o] \cap archives = {}
    BY <1>0, <2>3 DEF OrderInv
  <2>9. OrderInv'
    BY <1>0, <2>1, <2>2, <2>3, <2>6, <2>7, <2>8 DEF OrderInv
  <2> QED BY <2>4, <2>5, <2>9
<1>9. ASSUME LockAges \/ UNCHANGED vars PROVE QueueType' /\ OrderInv' /\ BoundInv'
  <2>1. UNCHANGED <<queue, archives, ts, delivered, dropped, pc, phase, read, next, flushed, body, crashes>>
    BY <1>9 DEF LockAges, vars, fileVars, sentVars, procVars
  <2> QED BY <1>0, <2>1 DEF QueueType, OrderInv, Unqueued, BoundInv
<1> QED
  BY <1>1, <1>2, <1>3, <1>4, <1>5, <1>6, <1>7, <1>8, <1>9 DEF Next, Step, Lock

(* Whatever crashes and whoever goes on without the lock, every variable   *)
(* keeps its type and the queue file stays within its bound                *)
(* (appendRetryQueueEntry, resolveRetryMaxCount).                          *)
THEOREM TypeCorrect == Spec => []TypeOK
<1>1. QInv => TypeOK
  BY DEF QInv, LockType, QueueType, BoundInv, WithinBound, TypeOK, Labels, Critical
<1>2. QInv /\ [Next]_vars => QInv'
  BY QStep
<1> QED BY QInit, <1>1, <1>2, PTL DEF Spec

-----------------------------------------------------------------------------
(* The entries of the archives.                                            *)

(* Until a process crashes, each pending archive has its entry in the file,*)
(* or its process is on its way to append it; and what a process is about  *)
(* to write has every entry whose archive is still there.                  *)
LedgerInv ==
  crashes = 0 =>
    /\ \A r \in archives : \/ r \in ToSet(queue)
                           \/ r \in Procs /\ phase[r] = "append" /\ pc[r] \in {"open", "stat", "read", "write"}
    /\ \A p \in Procs : pc[p] = "write" =>
         \A r \in archives : r \in ToSet(queue) \/ (r = p /\ phase[p] = "append") => r \in ToSet(body[p])

LEMMA LedgerInit == Init => LedgerInv
<1> SUFFICES ASSUME Init PROVE LedgerInv
  OBVIOUS
<1>1. \A r \in Old : r \in ToSet(queue)
  <2> DEFINE n == Cardinality(Old)
  <2>1. n \in Nat /\ IsFiniteSet(Old)
    BY RetryAssumption, FS_CardinalityType
  <2>2. queue \in [1..n -> Old] /\ \A i, j \in 1..n : i # j => queue[i] # queue[j]
    BY DEF Init, SetToSeqs
  <2> HIDE DEF n
  <2>3. queue \in Injection(1..n, Old)
    BY <2>2 DEF Injection, IsInjective
  <2>4. Cardinality(1..n) = Cardinality(Old)
    BY <2>1, FS_Interval DEF n
  <2>5. queue \in Surjection(1..n, Old)
    BY <2>1, <2>3, <2>4, FS_Injection
  <2> QED BY <2>2, <2>5 DEF Surjection, ToSet
<1>2. archives = Old /\ \A p \in Procs : pc[p] = "flush"
  BY DEF Init
<1> QED BY <1>1, <1>2 DEF LedgerInv

LEMMA LedgerStep == ASSUME QInv, LockInv, LedgerInv, [Next]_vars PROVE LedgerInv'
<1>0. LockType /\ QueueType /\ OrderInv /\ crashes \in Nat
  BY DEF QInv, LockType
<1> SUFFICES ASSUME crashes' = 0 PROVE LedgerInv'
  BY DEF LedgerInv
<1>c. crashes = 0
  <2>1. crashes' = crashes \/ crashes' = crashes + 1
    <3>1. ASSUME NEW p \in Procs, Crash(p) PROVE crashes' = crashes + 1
      BY <3>1 DEF Crash
    <3>2. ASSUME NEW p \in Procs, Step(p) PROVE crashes' = crashes
      BY <3>2 DEF Step, Flush, Retry, Upload, PackFails, OpenLock, StatLock, Reclaim, FailsOpen, ReadQueue, WriteQueue, Release
    <3>3. ASSUME LockAges \/ UNCHANGED vars PROVE crashes' = crashes
      BY <3>3 DEF LockAges, vars
    <3> QED BY <3>1, <3>2, <3>3 DEF Next
  <2> QED BY <1>0, <2>1
<1>i. /\ \A r \in archives : \/ r \in ToSet(queue)
                             \/ r \in Procs /\ phase[r] = "append" /\ pc[r] \in {"open", "stat", "read", "write"}
      /\ \A p \in Procs : pc[p] = "write" =>
           \A r \in archives : r \in ToSet(queue) \/ (r = p /\ phase[p] = "append") => r \in ToSet(body[p])
      /\ \A p, q \in Procs : pc[p] \in {"read", "write", "release"} /\ pc[q] \in {"read", "write", "release"} => p = q
      /\ \A p \in Procs : pc[p] \notin {"unlink", "recreate", "token", "verify", "crashed"} /\ ~lock.stale
  BY <1>c DEF LedgerInv, LockInv, Critical
<1>1. ASSUME NEW p \in Procs, Lock(p) PROVE LedgerInv'
  <2>1. /\ UNCHANGED <<queue, archives, phase, body>>
        /\ pc[p] \in Locking /\ \A q \in Procs : q # p => pc'[q] = pc[q]
    BY <1>0, <1>1, LockEffect
  <2>2. pc'[p] \in {"open", "stat", "read"}
    <3>1. pc[p] \in {"open", "stat"}
      BY <1>i, <2>1 DEF Locking
    <3>2. CASE OpenLock(p)
      BY <1>0, <3>2, GoLemma DEF OpenLock, Acquired
    <3>3. CASE StatLock(p)
      <4>1. Go(p, "open")
        BY <1>i, <3>3 DEF StatLock
      <4> QED BY <1>0, <4>1, GoLemma
    <3>4. CASE FailsOpen(p)
      BY <1>0, <3>4, GoLemma DEF FailsOpen
    <3> QED BY <1>1, <3>1, <3>2, <3>3, <3>4 DEF Lock, Reclaim
  <2>3. pc[p] \notin {"write", "done"}
    BY <2>1 DEF Locking
  <2> QED BY <1>i, <2>1, <2>2, <2>3 DEF LedgerInv
<1>2. ASSUME NEW p \in Procs, Flush(p) PROVE LedgerInv'
  <2>1. UNCHANGED <<queue, archives, phase, body>> /\ pc[p] = "flush" /\ (Go(p, "open") \/ Go(p, "retry"))
    BY <1>2 DEF Flush, fileVars
  <2>2. pc'[p] \in {"open", "retry"} /\ \A q \in Procs : q # p => pc'[q] = pc[q]
    BY <1>0, <2>1, GoLemma
  <2> QED BY <1>i, <2>1, <2>2 DEF LedgerInv
<1>3. ASSUME NEW p \in Procs, Retry(p) PROVE LedgerInv'
  <2>1. /\ pc[p] = "retry" /\ \A q \in Procs : q # p => pc'[q] = pc[q]
        /\ UNCHANGED <<queue, phase, body>> /\ pc'[p] \in {"open", "retry"}
    BY <1>3, RetryEffect
  <2>2. archives' \subseteq archives
    BY <1>3, RetryEffect
  <2> QED BY <1>i, <2>1, <2>2 DEF LedgerInv
<1>4. ASSUME NEW p \in Procs, Upload(p) PROVE LedgerInv'
  <2>1. /\ pc[p] = "upload" /\ phase[p] = "flush" /\ \A q \in Procs : q # p => pc'[q] = pc[q]
        /\ UNCHANGED <<queue, body>>
        /\ \/ pc'[p] = "done" /\ UNCHANGED <<archives, phase>>
           \/ /\ pc'[p] = "open" /\ archives' = archives \cup {p}
              /\ phase' = [phase EXCEPT ![p] = "append"] /\ phase'[p] = "append"
    BY <1>4, UploadEffect
  <2>2. p \notin ToSet(queue) /\ p \notin archives
    BY <1>0, <2>1 DEF OrderInv, Unqueued
  <2>3. \A q \in Procs : q # p => phase'[q] = phase[q]
    BY <1>0, <2>1 DEF QueueType
  <2> QED BY <1>i, <2>1, <2>2, <2>3 DEF LedgerInv
<1>5. ASSUME NEW p \in Procs, PackFails(p) PROVE LedgerInv'
  <2>1. UNCHANGED <<queue, archives, phase, body>> /\ pc[p] = "upload" /\ Go(p, "done")
    BY <1>5 DEF PackFails, fileVars
  <2>2. pc'[p] = "done" /\ \A q \in Procs : q # p => pc'[q] = pc[q]
    BY <1>0, <2>1, GoLemma
  <2> QED BY <1>i, <2>1, <2>2 DEF LedgerInv
<1>6. ASSUME NEW p \in Procs, Crash(p) PROVE LedgerInv'
  BY <1>0, <1>c, <1>6 DEF Crash
<1>7. ASSUME NEW p \in Procs, ReadQueue(p) PROVE LedgerInv'
  <2>1. /\ pc[p] = "read" /\ pc'[p] \in {"release", "write"} /\ \A q \in Procs : q # p => pc'[q] = pc[q]
        /\ UNCHANGED <<queue, phase, flushed>>
        /\ pc'[p] = "release" => phase[p] = "flush"
    BY <1>7, ReadEffect
  <2>2. PICK new \in Seq(Runs), gone \in SUBSET Runs :
             /\ body' = [body EXCEPT ![p] = new] /\ body'[p] = new
             /\ archives' = archives \ gone
             /\ phase[p] = "flush" => ToSet(new) = ToSet(queue) \ flushed[p]
             /\ phase[p] # "flush" => gone = (ToSet(queue) \cup {p}) \ ToSet(new)
    BY <1>7, ReadEffect
  <2>3. \A q \in Procs : pc'[q] = "write" => q = p
    BY <1>i, <2>1
  <2>4. \A r \in archives' : r \in ToSet(queue) \/ (r = p /\ phase[p] = "append") => r \in ToSet(body'[p])
    <3>1. flushed[p] \cap archives = {}
      BY <1>0 DEF OrderInv
    <3>2. CASE phase[p] = "flush"
      BY <2>2, <3>1, <3>2
    <3>3. CASE phase[p] # "flush"
      BY <2>2, <3>3
    <3> QED BY <3>2, <3>3
  <2>5. \A r \in archives' : \/ r \in ToSet(queue)
                             \/ r \in Procs /\ phase[r] = "append" /\ pc'[r] \in {"open", "stat", "read", "write"}
    BY <1>i, <2>1, <2>2
  <2> QED BY <2>1, <2>3, <2>4, <2>5 DEF LedgerInv
<1>8. ASSUME NEW p \in Procs, WriteQueue(p) PROVE LedgerInv'
  <2>1. pc[p] = "write" /\ queue' = body[p] /\ Go(p, "release") /\ UNCHANGED <<archives, phase, body>>
    BY <1>8 DEF WriteQueue
  <2>2. pc'[p] = "release" /\ \A q \in Procs : q # p => pc'[q] = pc[q]
    BY <1>0, <2>1, GoLemma
  <2>3. \A q \in Procs : pc'[q] # "write"
    BY <1>i, <2>1, <2>2
  <2>4. \A r \in archives : \/ r \in ToSet(body[p])
                            \/ r \in Procs /\ phase[r] = "append" /\ pc'[r] \in {"open", "stat", "read", "write"}
    <3> SUFFICES ASSUME NEW r \in archives, r \notin ToSet(body[p])
                 PROVE r \in Procs /\ phase[r] = "append" /\ pc'[r] \in {"open", "stat", "read", "write"}
      OBVIOUS
    <3>1. r \notin ToSet(queue) /\ ~(r = p /\ phase[p] = "append")
      BY <1>i, <2>1
    <3>2. r \in Procs /\ phase[r] = "append" /\ pc[r] \in {"open", "stat", "read", "write"} /\ r # p
      BY <1>i, <3>1
    <3> QED BY <2>2, <3>2
  <2> QED BY <2>1, <2>3, <2>4 DEF LedgerInv
<1>9. ASSUME NEW p \in Procs, Release(p) PROVE LedgerInv'
  <2>1. /\ pc[p] = "release" /\ (Go(p, "upload") \/ Go(p, "done")) /\ body' = [body EXCEPT ![p] = <<>>]
        /\ UNCHANGED <<queue, archives, phase>>
    BY <1>9 DEF Release
  <2>2. pc'[p] \in {"upload", "done"} /\ \A q \in Procs : q # p => pc'[q] = pc[q]
    BY <1>0, <2>1, GoLemma
  <2>3. \A q \in Procs : q # p => body'[q] = body[q]
    BY <1>0, <2>1 DEF QueueType
  <2> QED BY <1>i, <2>1, <2>2, <2>3 DEF LedgerInv
<1>10. ASSUME LockAges \/ UNCHANGED vars PROVE LedgerInv'
  <2>1. UNCHANGED <<queue, archives, pc, phase, body, crashes>>
    BY <1>10 DEF LockAges, vars, fileVars, procVars
  <2> QED BY <2>1 DEF LedgerInv
<1> QED
  BY <1>1, <1>2, <1>3, <1>4, <1>5, <1>6, <1>7, <1>8, <1>9, <1>10 DEF Next, Step, Lock

(* Until a process crashes, every pending archive has its entry once its   *)
(* process is done: neither another's flush nor another's append writes it *)
(* away (flushRetryQueue, appendRetryQueueEntry).                          *)
THEOREM EntriesAreKept == Spec => []NoEntryLost
<1> DEFINE Inv == QInv /\ LockInv /\ LedgerInv
<1>1. Init => Inv
  BY QInit, LockTypeInit, LedgerInit
<1>2. Inv /\ [Next]_vars => Inv'
  <2>1. ASSUME Inv, [Next]_vars PROVE Inv'
    <3>1. QInv' /\ LedgerInv'
      BY <2>1, QStep, LedgerStep
    <3>2. LockInv'
      BY <2>1, LockStep DEF QInv
    <3> QED BY <3>1, <3>2
  <2> QED BY <2>1
<1>3. Inv => NoEntryLost
  BY DEF LedgerInv, NoEntryLost
<1> QED BY <1>1, <1>2, <1>3, PTL DEF Spec

-----------------------------------------------------------------------------
(* The server.                                                             *)

RequestLabels == {"new", "streaming", "stored", "over"}
Request == [run : RunIds, day : Days, pc : RequestLabels]

(* What is confirmed is stored: an upload is answered after its rename, and*)
(* nothing removes an archive.                                             *)
StoredInv ==
  /\ request \in [Requests -> Request] /\ today \in Days
  /\ \A i \in Requests : At(i, "stored") => PathOf(i) \in storage
  /\ ConfirmedIsStored

(* An archive that no marker and no judge accounts for was not tried since *)
(* the last crash.                                                         *)
TriedInv ==
  /\ tried \in [Paths -> Nat] /\ judgeCrashes \in Nat
  /\ todo \subseteq Paths \ marked
  /\ stage \in {"idle", "archive"} => at = Nothing
  /\ stage \in {"capture", "mark"} => at \in Paths \ todo
  /\ stage \in {"idle", "archive", "capture", "mark"}
  /\ \A p \in Paths : content[p[1]] # "dangling" =>
       /\ tried[p] <= 1 + judgeCrashes
       /\ p \notin marked /\ p # at => tried[p] <= judgeCrashes

-----------------------------------------------------------------------------
LEMMA NoRequestTyped == ASSUME NEW l \in RequestLabels PROVE NoRequest(l) \in Request /\ NoRequest(l).pc = l
<1>1. (CHOOSE r \in RunIds : TRUE) \in RunIds
  BY TeamAssumption
<1>2. 0 \in Days
  BY TeamAssumption DEF Days
<1> QED BY <1>1, <1>2 DEF NoRequest, Request

LEMMA StoredInit == IngestInit => StoredInv
<1> SUFFICES ASSUME IngestInit PROVE StoredInv
  OBVIOUS
<1>1. NoRequest("new") \in Request /\ NoRequest("new").pc = "new"
  BY NoRequestTyped DEF RequestLabels
<1>2. request = [i \in Requests |-> NoRequest("new")] /\ confirmed = {}
  BY DEF IngestInit
<1>3. today \in Days
  BY TeamAssumption DEF IngestInit, Days
<1> QED BY <1>1, <1>2, <1>3 DEF StoredInv, At, ConfirmedIsStored

(* A step that only ends requests, or leaves them as they are.             *)
LEMMA EndsKeep ==
  ASSUME StoredInv, storage \subseteq storage', confirmed' = confirmed, today' \in Days,
         request' \in [Requests -> Request],
         \A i \in Requests : request'[i] = request[i] \/ request'[i].pc # "stored"
  PROVE StoredInv'
<1>1. \A i \in Requests : At(i, "stored")' => PathOf(i)' \in storage'
  BY DEF StoredInv, At, PathOf
<1>2. ConfirmedIsStored'
  BY DEF StoredInv, ConfirmedIsStored
<1> QED BY <1>1, <1>2 DEF StoredInv

LEMMA ReceiveKeeps ==
  ASSUME StoredInv, NEW i \in Requests, NEW r \in RunIds, Receive(i, r) PROVE StoredInv'
<1>1. NoRequest("over") \in Request /\ NoRequest("over").pc = "over"
  BY NoRequestTyped DEF RequestLabels
<1>2. [run |-> r, day |-> today, pc |-> "streaming"] \in Request
  BY DEF StoredInv, Request, RequestLabels
<1>3. /\ \/ request' = [request EXCEPT ![i] = [run |-> r, day |-> today, pc |-> "streaming"]]
         \/ request' = [request EXCEPT ![i] = NoRequest("over")]
      /\ UNCHANGED <<storage, confirmed, today>>
  BY DEF Receive
<1>4. /\ request' \in [Requests -> Request]
      /\ \A j \in Requests : request'[j] = request[j] \/ request'[j].pc # "stored"
  <2> DEFINE new == [run |-> r, day |-> today, pc |-> "streaming"]
  <2>1. new.pc # "stored"
    OBVIOUS
  <2> HIDE DEF new
  <2> QED BY <1>1, <1>2, <1>3, <2>1 DEF StoredInv, new
<1> QED BY <1>3, <1>4, EndsKeep DEF StoredInv

(* The rename comes before the answer.                                     *)
LEMMA StoreKeeps == ASSUME StoredInv, NEW i \in Requests, Store(i) PROVE StoredInv'
<1>1. request \in [Requests -> Request] /\ request[i] \in Request
  BY DEF StoredInv
<1> DEFINE new == [request[i] EXCEPT !.pc = "stored"]
<1>2. /\ storage' = storage \cup {PathOf(i)} /\ UNCHANGED <<confirmed, today>>
      /\ request' = [request EXCEPT ![i] = new]
  BY DEF Store
<1>3. new \in Request /\ new.run = request[i].run /\ new.day = request[i].day
  BY <1>1 DEF Request, RequestLabels
<1> HIDE DEF new
<1>4. request' \in [Requests -> Request] /\ request'[i] = new
      /\ \A j \in Requests : j # i => request'[j] = request[j]
  BY <1>1, <1>2, <1>3
<1>5. ASSUME NEW j \in Requests, At(j, "stored")' PROVE PathOf(j)' \in storage'
  <2>1. CASE j = i
    BY <1>2, <1>3, <1>4, <2>1 DEF PathOf
  <2>2. CASE j # i
    BY <1>2, <1>4, <1>5, <2>2 DEF StoredInv, At, PathOf
  <2> QED BY <2>1, <2>2
<1>6. ConfirmedIsStored'
  BY <1>2 DEF StoredInv, ConfirmedIsStored
<1> QED BY <1>2, <1>4, <1>5, <1>6 DEF StoredInv

LEMMA AnswerKeeps == ASSUME StoredInv, NEW i \in Requests, Answer(i) PROVE StoredInv'
<1>1. request[i] \in Request /\ PathOf(i) \in storage
  BY DEF StoredInv, Answer, Confirms
<1>2. NoRequest("over") \in Request /\ NoRequest("over").pc = "over"
  BY NoRequestTyped DEF RequestLabels
<1>3. /\ confirmed' = confirmed \cup {request[i].run} /\ UNCHANGED <<storage, today>>
      /\ request' = [request EXCEPT ![i] = NoRequest("over")]
  BY DEF Answer, Ends
<1>4. request[i].day \in Days /\ PathOf(i) = <<request[i].run, request[i].day>>
  BY <1>1 DEF Request, PathOf
<1>5. ConfirmedIsStored'
  BY <1>1, <1>3, <1>4 DEF StoredInv, ConfirmedIsStored
<1>6. /\ request' \in [Requests -> Request]
      /\ \A j \in Requests : At(j, "stored")' => PathOf(j)' \in storage'
  BY <1>2, <1>3 DEF StoredInv, At, PathOf
<1> QED BY <1>3, <1>5, <1>6 DEF StoredInv

LEMMA BreaksKeep == ASSUME StoredInv, NEW i \in Requests, StreamBreaks(i) PROVE StoredInv'
<1>1. NoRequest("over") \in Request /\ NoRequest("over").pc = "over"
  BY NoRequestTyped DEF RequestLabels
<1>2. /\ request' = [request EXCEPT ![i] = NoRequest("over")]
      /\ UNCHANGED <<storage, confirmed, today>>
  BY DEF StreamBreaks, Ends
<1>3. /\ request' \in [Requests -> Request]
      /\ \A j \in Requests : request'[j] = request[j] \/ request'[j].pc # "stored"
  BY <1>1, <1>2 DEF StoredInv
<1> QED BY <1>2, <1>3, EndsKeep DEF StoredInv

LEMMA ServerCrashKeeps == ASSUME StoredInv, ServerCrash PROVE StoredInv'
<1>1. NoRequest("over") \in Request /\ NoRequest("over").pc = "over"
  BY NoRequestTyped DEF RequestLabels
<1>2. /\ request' = [i \in Requests |-> IF request[i].pc \in {"streaming", "stored"}
                                        THEN NoRequest("over") ELSE request[i]]
      /\ UNCHANGED <<storage, confirmed, today>>
  BY DEF ServerCrash
<1> HIDE DEF NoRequest
<1>3. /\ request' \in [Requests -> Request]
      /\ \A j \in Requests : request'[j] = request[j] \/ request'[j].pc # "stored"
  BY <1>1, <1>2 DEF StoredInv
<1> QED BY <1>2, <1>3, EndsKeep DEF StoredInv

(* The judge touches neither the storage nor the requests.                 *)
LEMMA ApartKeeps ==
  ASSUME StoredInv, UNCHANGED <<storage, confirmed, request>>, today' \in Days PROVE StoredInv'
  BY EndsKeep DEF StoredInv

LEMMA StoredStep == ASSUME StoredInv, [IngestNext]_ingestVars PROVE StoredInv'
<1>1. CASE Server
  <2>1. ASSUME NEW i \in Requests, NEW r \in RunIds, Receive(i, r) PROVE StoredInv'
    BY <2>1, ReceiveKeeps
  <2>2. ASSUME NEW i \in Requests, Store(i) \/ Answer(i) \/ StreamBreaks(i) PROVE StoredInv'
    BY <2>2, StoreKeeps, AnswerKeeps, BreaksKeep
  <2>3. CASE ServerCrash
    BY <2>3, ServerCrashKeeps
  <2>4. CASE Midnight
    <3>1. today' \in Days
      BY <2>4, TeamAssumption DEF Midnight, StoredInv, Days
    <3> QED BY <2>4, <3>1, ApartKeeps DEF Midnight
  <2>5. ASSUME NEW r \in RunIds, Administer(r) PROVE StoredInv'
    BY <2>5, ApartKeeps DEF Administer, StoredInv
  <2> QED BY <1>1, <2>1, <2>2, <2>3, <2>4, <2>5 DEF Server
<1>2. CASE Judge \/ JudgeCrash
  <2>1. UNCHANGED <<storage, confirmed, request, today>>
    BY <1>2 DEF Judge, JudgeCrash, Tick, Refuse, Throw, Extract, Capture, Mark, WriteBack, serverVars
  <2> QED BY <2>1, ApartKeeps DEF StoredInv
<1>3. CASE UNCHANGED ingestVars
  BY <1>3, ApartKeeps DEF ingestVars, serverVars, StoredInv
<1> QED BY <1>1, <1>2, <1>3 DEF IngestNext

(* The client deletes its copy once an upload is confirmed: by then the    *)
(* archive is stored, whatever crashes (handleRequest answers 200 after    *)
(* rename).                                                                *)
THEOREM Stored == IngestSpec => []ConfirmedIsStored
<1>1. IngestInit => StoredInv
  BY StoredInit
<1>2. StoredInv /\ [IngestNext]_ingestVars => StoredInv'
  BY StoredStep
<1>3. StoredInv => ConfirmedIsStored
  BY DEF StoredInv
<1> QED BY <1>1, <1>2, <1>3, PTL DEF IngestSpec

-----------------------------------------------------------------------------
LEMMA TriedInit == IngestInit => TriedInv
  BY DEF IngestInit, TriedInv, Nothing

(* Begins counts one more, or stays at its bound.                          *)
LEMMA BeginsCounts ==
  ASSUME TriedInv, NEW p \in Paths, Begins(p)
  PROVE /\ tried' \in [Paths -> Nat] /\ tried'[p] <= tried[p] + 1
        /\ \A q \in Paths : q # p => tried'[q] = tried[q]
<1>1. tried[p] \in Nat /\ tried \in [Paths -> Nat]
  BY DEF TriedInv
<1> DEFINE n == IF tried[p] < MaxTried THEN tried[p] + 1 ELSE tried[p]
<1>2. n \in Nat /\ n <= tried[p] + 1
  BY <1>1
<1>3. tried' = [tried EXCEPT ![p] = n]
  BY DEF Begins
<1> HIDE DEF n
<1> QED BY <1>1, <1>2, <1>3

(* A step that begins no archive and forgets none.                         *)
LEMMA RestKeeps ==
  ASSUME TriedInv, UNCHANGED <<content, marked, stage, todo, at, tried, judgeCrashes>> PROVE TriedInv'
  BY DEF TriedInv

LEMMA TickKeeps == ASSUME TriedInv, Tick, storage \subseteq Paths PROVE TriedInv'
<1>1. /\ stage = "idle" /\ stage' = "archive" /\ todo' = storage \ marked
      /\ UNCHANGED <<content, marked, at, tried, judgeCrashes>>
  BY DEF Tick, Unprocessed, boundVars
<1> QED BY <1>1 DEF TriedInv

LEMMA RefuseKeeps == ASSUME TriedInv, NEW p \in Paths, Refuse(p) PROVE TriedInv'
<1>1. /\ stage = "archive" /\ p \in todo /\ marked' = marked \cup {p} /\ todo' = todo \ {p}
      /\ Begins(p) /\ UNCHANGED <<content, stage, at, judgeCrashes>>
  BY DEF Refuse, boundVars
<1>2. p \notin marked /\ at = Nothing /\ p # Nothing
  BY <1>1 DEF TriedInv, Paths, Nothing
<1>3. content[p[1]] # "dangling" => tried[p] <= judgeCrashes
  BY <1>2 DEF TriedInv
<1>4. tried[p] \in Nat /\ judgeCrashes \in Nat
  BY DEF TriedInv
<1>5. content[p[1]] # "dangling" => tried'[p] <= 1 + judgeCrashes
  BY <1>1, <1>3, <1>4, BeginsCounts
<1> QED BY <1>1, <1>5, BeginsCounts DEF TriedInv

LEMMA ThrowKeeps == ASSUME TriedInv, NEW p \in Paths, Throw(p) PROVE TriedInv'
<1>1. /\ content[p[1]] = "dangling" /\ todo' = todo \ {p}
      /\ Begins(p) /\ UNCHANGED <<content, marked, stage, at, judgeCrashes>>
  BY DEF Throw, GoesOn, boundVars
<1> QED BY <1>1, BeginsCounts DEF TriedInv

LEMMA ExtractKeeps == ASSUME TriedInv, NEW p \in Paths, Extract(p) PROVE TriedInv'
<1>1. /\ stage = "archive" /\ p \in todo /\ todo' = todo \ {p} /\ at' = p
      /\ stage' \in {"capture", "mark"} /\ Begins(p) /\ UNCHANGED <<content, marked, judgeCrashes>>
  BY DEF Extract, boundVars
<1>2. p \notin marked /\ at = Nothing /\ p # Nothing
  BY <1>1 DEF TriedInv, Paths, Nothing
<1>3. content[p[1]] # "dangling" => tried[p] <= judgeCrashes
  BY <1>2 DEF TriedInv
<1>4. tried[p] \in Nat /\ judgeCrashes \in Nat
  BY DEF TriedInv
<1>5. content[p[1]] # "dangling" => tried'[p] <= 1 + judgeCrashes
  BY <1>1, <1>3, <1>4, BeginsCounts
<1>6. \A q \in Paths : q # at
  BY <1>2 DEF Paths, Nothing
<1> QED BY <1>1, <1>5, <1>6, BeginsCounts DEF TriedInv

LEMMA CaptureKeeps == ASSUME TriedInv, NEW c, Capture(c) PROVE TriedInv'
<1>1. /\ stage = "capture" /\ stage' \in {"capture", "mark"}
      /\ UNCHANGED <<content, marked, todo, at, tried, judgeCrashes>>
  BY DEF Capture, boundVars
<1> QED BY <1>1 DEF TriedInv

LEMMA MarkKeeps == ASSUME TriedInv, Mark PROVE TriedInv'
<1>1. /\ stage = "mark" /\ marked' = marked \cup {at} /\ at' = Nothing /\ stage' = "archive"
      /\ UNCHANGED <<content, todo, tried, judgeCrashes>>
  BY DEF Mark, boundVars
<1> QED BY <1>1 DEF TriedInv

(* What the judge was at when it crashed is tried once more for the crash. *)
LEMMA JudgeCrashKeeps == ASSUME TriedInv, JudgeCrash PROVE TriedInv'
<1>1. /\ stage' = "idle" /\ todo' = {} /\ at' = Nothing /\ judgeCrashes' = judgeCrashes + 1
      /\ UNCHANGED <<content, marked, tried>>
  BY DEF JudgeCrash
<1>2. \A p \in Paths : tried[p] \in Nat
  BY DEF TriedInv
<1> QED BY <1>1, <1>2 DEF TriedInv

LEMMA TriedStep == ASSUME TriedInv, storage \subseteq Paths, [IngestNext]_ingestVars PROVE TriedInv'
<1>1. CASE Server
  <2>1. UNCHANGED <<content, marked, stage, todo, at, tried, judgeCrashes>>
    BY <1>1 DEF Server, Receive, Store, Answer, StreamBreaks, ServerCrash, Midnight, Administer,
                judgeVars, boundVars
  <2> QED BY <2>1, RestKeeps
<1>2. CASE Judge
  <2>1. ASSUME WriteBack PROVE TriedInv'
    <3>1. /\ stage = "archive" /\ stage' = "idle"
          /\ UNCHANGED <<content, marked, todo, at, tried, judgeCrashes>>
      BY <2>1 DEF WriteBack
    <3> QED BY <3>1 DEF TriedInv
  <2> QED BY <1>2, <2>1, TickKeeps, RefuseKeeps, ThrowKeeps, ExtractKeeps, CaptureKeeps, MarkKeeps
          DEF Judge
<1>3. CASE JudgeCrash
  BY <1>3, JudgeCrashKeeps
<1>4. CASE UNCHANGED ingestVars
  BY <1>4, RestKeeps DEF ingestVars, judgeVars, boundVars
<1> QED BY <1>1, <1>2, <1>3, <1>4 DEF IngestNext

LEMMA StorageTyped == IngestSpec => [](StoredInv /\ storage \subseteq Paths)
<1>1. IngestInit => StoredInv /\ storage \subseteq Paths
  BY StoredInit DEF IngestInit
<1>2. StoredInv /\ storage \subseteq Paths /\ [IngestNext]_ingestVars => (StoredInv /\ storage \subseteq Paths)'
  <2> SUFFICES ASSUME StoredInv, storage \subseteq Paths, [IngestNext]_ingestVars
               PROVE storage' \subseteq Paths
    BY StoredStep
  <2>1. ASSUME NEW i \in Requests, Store(i) PROVE storage' \subseteq Paths
    <3>1. PathOf(i) \in Paths
      BY DEF StoredInv, Request, PathOf, Paths
    <3> QED BY <2>1, <3>1 DEF Store
  <2>2. (\E i \in Requests : Store(i)) \/ storage' = storage
    BY DEF IngestNext, ingestVars, Server, Receive, Answer, StreamBreaks, ServerCrash, Midnight, Administer,
           Judge, JudgeCrash, Tick, Refuse, Throw, Extract, Capture, Mark, WriteBack, serverVars
  <2> QED BY <2>1, <2>2
<1> QED BY <1>1, <1>2, PTL DEF IngestSpec

LEMMA TriedAlways == IngestSpec => []TriedInv
<1>1. IngestInit => TriedInv
  BY TriedInit
<1>2. TriedInv /\ storage \subseteq Paths /\ [IngestNext]_ingestVars => TriedInv'
  BY TriedStep
<1> QED BY <1>1, <1>2, StorageTyped, PTL DEF IngestSpec

(* An archive the judge can extract or refuse is begun once for each crash *)
(* and once more, however often its run is uploaded and however many ticks *)
(* pass over it (discoverUnprocessedArchives, the processed marker).       *)
THEOREM Once == IngestSpec => []JudgedOnce
<1>1. TriedInv => JudgedOnce
  BY DEF TriedInv, JudgedOnce
<1> QED BY <1>1, TriedAlways, PTL

-----------------------------------------------------------------------------
(* The rest of the types.  Each crash of the judge is one of the faults.   *)
IngestRest ==
  /\ content \in [RunIds -> Contents] /\ confirmed \subseteq RunIds
  /\ key \in [RunIds -> {"valid", "revoked"}]
  /\ marked \subseteq Paths /\ temps \subseteq Requests /\ scratch \subseteq Paths
  /\ left \subseteq Captures /\ filedCount \in Nat
  /\ unsettled \in BOOLEAN /\ uncommitted \in BOOLEAN
  /\ admins \in 0..MaxAdmin /\ faults \in 0..MaxFault /\ judgeCrashes \in 0..faults

LEMMA RestInit == IngestInit => IngestRest
<1> SUFFICES ASSUME IngestInit PROVE IngestRest
  OBVIOUS
<1>1. 0 \in 0..MaxAdmin /\ 0 \in 0..MaxFault /\ 0 \in 0..0
  BY TeamAssumption
<1>2. admins \in 0..MaxAdmin /\ faults \in 0..MaxFault /\ judgeCrashes \in 0..faults
  BY <1>1 DEF IngestInit
<1>3. key \in [RunIds -> {"valid", "revoked"}]
  BY DEF IngestInit
<1> QED BY <1>2, <1>3 DEF IngestInit, IngestRest

LEMMA RestFault ==
  ASSUME IngestRest, Faulty
  PROVE  /\ faults' \in 0..MaxFault
         /\ judgeCrashes \in 0..faults' /\ judgeCrashes + 1 \in 0..faults'
<1>1. faults \in 0..MaxFault /\ judgeCrashes \in 0..faults /\ MaxFault \in Nat
  BY TeamAssumption DEF IngestRest
<1>2. faults < MaxFault /\ faults' = faults + 1
  BY DEF Faulty
<1> QED BY <1>1, <1>2

LEMMA RestServer == ASSUME IngestRest, StoredInv, Server PROVE IngestRest'
<1>1. UNCHANGED <<content, marked, judgeVars, uncommitted, judgeCrashes>>
  BY DEF Server, Receive, Store, Answer, StreamBreaks, ServerCrash, Midnight, Administer, boundVars
<1>2. confirmed' \subseteq RunIds
  <2>1. ASSUME NEW i \in Requests, Answer(i) PROVE confirmed' \subseteq RunIds
    BY <2>1 DEF Answer, IngestRest, StoredInv, Request
  <2> QED BY <2>1 DEF Server, Receive, Store, StreamBreaks, ServerCrash, Midnight, Administer, IngestRest
<1>3. key' \in [RunIds -> {"valid", "revoked"}]
  <2>1. ASSUME NEW r \in RunIds, Administer(r) PROVE key' \in [RunIds -> {"valid", "revoked"}]
    BY <2>1 DEF Administer, IngestRest
  <2> QED BY <2>1 DEF Server, Receive, Store, Answer, StreamBreaks, ServerCrash, Midnight, IngestRest
<1>4. temps' \subseteq Requests
  BY DEF Server, Receive, Store, Answer, StreamBreaks, ServerCrash, Midnight, Administer, IngestRest
<1>5. admins' \in 0..MaxAdmin
  BY TeamAssumption DEF Server, Receive, Store, Answer, StreamBreaks, ServerCrash, Midnight, Administer,
                        IngestRest, boundVars
<1>6. faults' \in 0..MaxFault /\ judgeCrashes \in 0..faults'
  <2>1. CASE Faulty
    BY <2>1, RestFault
  <2>2. CASE UNCHANGED faults
    BY <2>2 DEF IngestRest
  <2> QED BY <2>1, <2>2 DEF Server, Receive, Store, Answer, StreamBreaks, ServerCrash, Midnight, Administer,
                            boundVars
<1> QED BY <1>1, <1>2, <1>3, <1>4, <1>5, <1>6 DEF IngestRest, judgeVars

LEMMA RestJudge == ASSUME IngestRest, TriedInv, Judge \/ JudgeCrash PROVE IngestRest'
<1>1. UNCHANGED <<content, serverVars, admins>>
  BY DEF Judge, Tick, Refuse, Throw, Extract, Capture, Mark, WriteBack, JudgeCrash, boundVars
<1>2. CASE JudgeCrash
  BY <1>1, <1>2, RestFault DEF JudgeCrash, IngestRest, serverVars
<1>3. CASE WriteBack
  <2>1. faults' \in 0..MaxFault /\ judgeCrashes \in 0..faults'
    BY <1>3, RestFault DEF WriteBack, IngestRest
  <2> QED BY <1>1, <1>3, <2>1 DEF WriteBack, IngestRest, serverVars
<1>4. CASE Tick
  BY <1>1, <1>4 DEF Tick, IngestRest, serverVars, boundVars
<1>5. ASSUME NEW p \in Paths, Refuse(p) \/ Throw(p) \/ Extract(p) PROVE IngestRest'
  BY <1>1, <1>5 DEF Refuse, Throw, Extract, IngestRest, serverVars, boundVars
<1>6. ASSUME NEW c \in Captures, Capture(c) PROVE IngestRest'
  BY <1>1, <1>6 DEF Capture, IngestRest, serverVars, boundVars
<1>7. CASE Mark
  BY <1>1, <1>7 DEF Mark, IngestRest, TriedInv, serverVars, boundVars
<1> QED BY <1>2, <1>3, <1>4, <1>5, <1>6, <1>7 DEF Judge

(* The types of server and judge; no more crashes of the judge than faults.*)
THEOREM IngestTyped == IngestSpec => []IngestTypeOK
<1>1. IngestRest /\ StoredInv /\ TriedInv /\ [IngestNext]_ingestVars => IngestRest'
  <2> SUFFICES ASSUME IngestRest, StoredInv, TriedInv, [IngestNext]_ingestVars PROVE IngestRest'
    OBVIOUS
  <2>1. CASE UNCHANGED ingestVars
    BY <2>1 DEF ingestVars, serverVars, judgeVars, boundVars, IngestRest
  <2> QED BY <2>1, RestServer, RestJudge DEF IngestNext
<1>2. IngestRest /\ StoredInv /\ TriedInv /\ storage \subseteq Paths => IngestTypeOK
  BY TeamAssumption DEF IngestRest, StoredInv, TriedInv, IngestTypeOK, Request, RequestLabels
<1> QED BY <1>1, <1>2, RestInit, StorageTyped, TriedAlways, PTL DEF IngestSpec

-----------------------------------------------------------------------------
(* Both ends.                                                              *)

InStorage(r) == \E d \in Days : <<r, d>> \in storage

(* What joins the two ends.  A client takes a run for delivered when the   *)
(* server has told it so, in that very step, or when the server has stored *)
(* the archive and the answer was lost on its way (uploadArchive: the      *)
(* status 200 of handleRequest).                                           *)
Link == [][\A r \in delivered' \ delivered : r \in confirmed' \/ InStorage(r)']_delivered

DeletedIsStored == [][\A r \in archives \ archives' : InStorage(r)' \/ r \in dropped']_vars

(* Nothing removes an archive from the storage.                            *)
LEMMA StorageGrows ==
  ASSUME [IngestNext]_ingestVars, NEW r, InStorage(r) PROVE InStorage(r)'
<1>1. storage \subseteq storage'
  BY DEF IngestNext, ingestVars, Server, Receive, Store, Answer, StreamBreaks, ServerCrash, Midnight,
         Administer, Judge, JudgeCrash, Tick, Refuse, Throw, Extract, Capture, Mark, WriteBack, serverVars
<1> QED BY <1>1 DEF InStorage

(* Whatever crashes at either end, whichever answer is lost, and whoever   *)
(* goes on without the lock: an archive that a client deletes is stored at *)
(* the server by then and stays there, or was dropped at the bound of the  *)
(* queue (deleteArchiveQuietly after a 200, handleRequest's answer after   *)
(* its rename).                                                            *)
THEOREM NothingIsLostOnTheWay == Spec /\ IngestSpec /\ Link => DeletedIsStored
<1> DEFINE Known == \A r \in delivered : InStorage(r)
           New == \A r \in delivered' \ delivered : r \in confirmed' \/ InStorage(r)'
           Safe == \A r \in archives \ archives' : InStorage(r)' \/ r \in dropped'
<1>1. Init => Known
  BY DEF Init
<1>2. Known /\ [IngestNext]_ingestVars /\ [New]_delivered /\ ConfirmedIsStored' => Known'
  <2> SUFFICES ASSUME Known, [IngestNext]_ingestVars, [New]_delivered, ConfirmedIsStored',
                      NEW r \in delivered'
               PROVE  InStorage(r)'
    OBVIOUS
  <2>1. CASE r \in delivered
    BY <2>1, StorageGrows
  <2>2. CASE r \notin delivered
    BY <2>2 DEF ConfirmedIsStored, InStorage
  <2> QED BY <2>1, <2>2
<1>3. Known' /\ [Next]_vars => Safe
  BY DeletionStep
<1>4. IngestSpec => []ConfirmedIsStored
  BY Stored
<1> QED BY <1>1, <1>2, <1>3, <1>4, PTL DEF Spec, IngestSpec, Link, DeletedIsStored
=============================================================================
