---------------------------- MODULE Filing_proofs ----------------------------
(***************************************************************************)
(* What holds of the defects that are filed, and of the judgement that     *)
(* files them:                                                             *)
(*   FixQueue, for every set of fingerprints, statuses and runs, any number*)
(*   of overlapping runs, crashes and edits by hand;                       *)
(*   RegressionLock and the Oracle under it, for any number of captures and*)
(*   of replays, whatever Agda answers and whatever fails.                 *)
(***************************************************************************)
EXTENDS FixQueue, RegressionLock, FiniteSetTheorems, WellFoundedInduction, TLAPS

-----------------------------------------------------------------------------
(* Entries and the file.                                                   *)

(* A set of naturals has a least element.                                  *)
LEMMA Least == ASSUME NEW T \in SUBSET Nat, T # {}
               PROVE \E n \in T : \A m \in T : ~(m < n)
<1>1. \E x \in T : \A y \in T : ~(<<y, x>> \in OpToRel(<, Nat))
  BY NatLessThanWellFounded, WFMin, Zenon
<1> QED BY <1>1 DEF OpToRel

(* Find returns 0 or the place of a row of the fingerprint.                *)
LEMMA FindFinds ==
  ASSUME NEW q \in Seq(Entries), NEW f
  PROVE /\ Find(q, f) = 0 => \A i \in DOMAIN q : q[i].fingerprint # f
        /\ Find(q, f) # 0 => Find(q, f) \in DOMAIN q /\ q[Find(q, f)].fingerprint = f
<1>1. CASE \E i \in DOMAIN q : q[i].fingerprint = f
  <2> DEFINE T == {i \in DOMAIN q : q[i].fingerprint = f}
  <2>1. DOMAIN q = 1..Len(q) /\ Len(q) \in Nat
    OBVIOUS
  <2>2. T \in SUBSET Nat /\ T # {}
    BY <1>1, <2>1
  <2>3. PICK n \in T : \A m \in T : ~(m < n)
    BY <2>2, Least
  <2>4. \A j \in 1..(n-1) : q[j].fingerprint # f
    BY <2>1, <2>3
  <2>5. \E i \in DOMAIN q : q[i].fingerprint = f /\ \A j \in 1..(i-1) : q[j].fingerprint # f
    BY <2>3, <2>4
  <2> DEFINE c == CHOOSE i \in DOMAIN q : /\ q[i].fingerprint = f
                                          /\ \A j \in 1..(i-1) : q[j].fingerprint # f
  <2>6. c \in DOMAIN q /\ q[c].fingerprint = f
    BY <2>5
  <2>7. Find(q, f) = c
    BY <1>1 DEF Find
  <2> HIDE DEF c
  <2>8. Find(q, f) \in DOMAIN q /\ q[Find(q, f)].fingerprint = f /\ Find(q, f) # 0
    BY <2>1, <2>6, <2>7
  <2> QED BY <2>8
<1>2. CASE ~\E i \in DOMAIN q : q[i].fingerprint = f
  BY <1>2 DEF Find
<1> QED BY <1>1, <1>2

(* What the actors pass to an upsert: an entry, the fields a capture knows *)
(* of it, or the note of a conflict.                                       *)
Note(f) == [fingerprint |-> f, conflict |-> TRUE]
Patches == Entries \cup {Fields(e) : e \in Entries} \cup {Note(f) : f \in Fingerprints}

(* A merge keeps the fingerprint, takes the status of the patch or keeps   *)
(* its own, and counts one more exactly when it is told to.                *)
LEMMA MergedRow ==
  ASSUME NEW old \in Entries, NEW e \in Patches, e.fingerprint = old.fingerprint,
         NEW bump \in BOOLEAN
  PROVE LET m == Merged(old, e, bump)
        IN /\ m \in Entries
           /\ m.fingerprint = old.fingerprint
           /\ m.status = IF "status" \in DOMAIN e THEN e.status ELSE old.status
           /\ m.recurrence = IF bump THEN old.recurrence + 1 ELSE old.recurrence
<1> DEFINE s == Spread(old, e)
<1> DEFINE Kept == /\ s \in Entries /\ s.fingerprint = old.fingerprint
                   /\ s.status = IF "status" \in DOMAIN e THEN e.status ELSE old.status
<1>1. Kept
  <2>1. CASE e \in Entries
    BY <2>1 DEF Spread, Entries
  <2>2. ASSUME NEW x \in Entries, e = Fields(x)
        PROVE Kept
    BY <2>2 DEF Spread, Entries, Fields
  <2>3. ASSUME NEW f \in Fingerprints, e = Note(f)
        PROVE Kept
    BY <2>3 DEF Spread, Entries, Note
  <2>4. \/ e \in Entries \/ \E x \in Entries : e = Fields(x)
        \/ \E f \in Fingerprints : e = Note(f)
    BY DEF Patches
  <2> HIDE DEF Kept
  <2> QED BY <2>1, <2>2, <2>3, <2>4
<1>2. old.recurrence + 1 \in Nat \ {0} /\ old.recurrence \in Nat \ {0}
  BY DEF Entries
<1> DEFINE n == IF bump THEN old.recurrence + 1 ELSE old.recurrence
<1>3. n \in Nat \ {0}
  BY <1>2
<1>4. Merged(old, e, bump) = [s EXCEPT !.recurrence = n]
  BY DEF Merged
<1> HIDE DEF s, n
<1>5. [s EXCEPT !.recurrence = n] \in Entries
  BY <1>1, <1>3 DEF Entries
<1>6. LET m == [s EXCEPT !.recurrence = n]
      IN m.fingerprint = s.fingerprint /\ m.status = s.status /\ m.recurrence = n
  BY <1>1 DEF Entries
<1> QED BY <1>1, <1>4, <1>5, <1>6 DEF n
-----------------------------------------------------------------------------
(* A row fits a ledger: it counts no more than was filed of its defect, and*)
(* it leaves "new" only after a review.  A file is sound with such rows,   *)
(* one for each defect.                                                    *)
Fits(e, limit, looked) == /\ e.recurrence <= limit[e.fingerprint]
                          /\ e.status # "new" => e.fingerprint \in looked
Sound(q, limit, looked) == /\ q \in Seq(Entries) /\ Unique(q)
                           /\ \A i \in DOMAIN q : Fits(q[i], limit, looked)

(* The ledger never loses anything.                                        *)
Grows(limit, more) == \A f \in Fingerprints : limit[f] <= more[f]

LEMMA FitsOn ==
  ASSUME NEW e \in Entries, NEW limit \in [Fingerprints -> Nat], NEW more \in [Fingerprints -> Nat],
         NEW looked, NEW known, Fits(e, limit, looked), Grows(limit, more), looked \subseteq known
  PROVE Fits(e, more, known)
<1>1. /\ e.fingerprint \in Fingerprints /\ e.recurrence \in Nat
      /\ limit[e.fingerprint] \in Nat /\ more[e.fingerprint] \in Nat
  BY DEF Entries
<1>2. limit[e.fingerprint] <= more[e.fingerprint] /\ e.recurrence <= limit[e.fingerprint]
  BY <1>1 DEF Fits, Grows
<1>3. e.recurrence <= more[e.fingerprint]
  BY <1>1, <1>2
<1> QED BY <1>3 DEF Fits

LEMMA SoundOn ==
  ASSUME NEW q, NEW limit \in [Fingerprints -> Nat], NEW more \in [Fingerprints -> Nat],
         NEW looked, NEW known, Sound(q, limit, looked), Grows(limit, more), looked \subseteq known
  PROVE Sound(q, more, known)
<1>1. ASSUME NEW i \in DOMAIN q PROVE Fits(q[i], more, known)
  <2>1. q[i] \in Entries /\ Fits(q[i], limit, looked)
    BY DEF Sound
  <2> QED BY <2>1, FitsOn
<1> QED BY <1>1 DEF Sound

(* An upsert keeps a file sound: the file of a ledger that counts one more *)
(* of the defect if the upsert does.                                       *)
LEMMA UpsertKeepsSound ==
  ASSUME NEW q, NEW limit \in [Fingerprints -> Nat], NEW more \in [Fingerprints -> Nat], NEW looked,
         Sound(q, limit, looked), Grows(limit, more),
         NEW e \in Patches, NEW bump \in BOOLEAN,
         bump => limit[e.fingerprint] + 1 <= more[e.fingerprint],
         Find(q, e.fingerprint) = 0 => e \in Entries /\ Fits(e, more, looked),
         "status" \in DOMAIN e /\ e.status # "new" => e.fingerprint \in looked
  PROVE Sound(Upserted(q, e, bump), more, looked)
<1> DEFINE i == Find(q, e.fingerprint)
<1>0. q \in Seq(Entries) /\ Unique(q) /\ \A k \in DOMAIN q : q[k] \in Entries /\ Fits(q[k], more, looked)
  <2>1. Sound(q, more, looked)
    BY SoundOn
  <2> QED BY <2>1 DEF Sound
<1>1. CASE i = 0
  <2>1. Upserted(q, e, bump) = Append(q, e)
    BY <1>1 DEF Upserted
  <2>2. \A k \in DOMAIN q : q[k].fingerprint # e.fingerprint
    BY <1>0, <1>1, FindFinds
  <2>3. e \in Entries /\ Fits(e, more, looked)
    BY <1>1
  <2>4. Append(q, e) \in Seq(Entries)
    BY <1>0, <2>3
  <2>5. DOMAIN Append(q, e) = DOMAIN q \cup {Len(q) + 1}
        /\ Append(q, e)[Len(q) + 1] = e /\ \A k \in DOMAIN q : Append(q, e)[k] = q[k]
    BY <1>0, <2>3
  <2>6. Unique(Append(q, e))
    BY <1>0, <2>2, <2>5, Zenon DEF Unique
  <2>7. \A k \in DOMAIN Append(q, e) : Fits(Append(q, e)[k], more, looked)
    BY <1>0, <2>3, <2>5
  <2> QED BY <2>1, <2>4, <2>6, <2>7 DEF Sound
<1>2. CASE i # 0
  <2>1. i \in DOMAIN q /\ q[i].fingerprint = e.fingerprint /\ q[i] \in Entries
    BY <1>0, <1>2, FindFinds
  <2> DEFINE m == Merged(q[i], e, bump)
             w == [q EXCEPT ![i] = m]
  <2>2. Upserted(q, e, bump) = w
    BY <1>2 DEF Upserted
  <2>3. /\ m \in Entries /\ m.fingerprint = q[i].fingerprint
        /\ m.status = IF "status" \in DOMAIN e THEN e.status ELSE q[i].status
        /\ m.recurrence = IF bump THEN q[i].recurrence + 1 ELSE q[i].recurrence
    <3> DEFINE old == q[i]
    <3>1. e.fingerprint = old.fingerprint /\ old \in Entries
      BY <2>1
    <3> HIDE DEF old
    <3>2. /\ Merged(old, e, bump) \in Entries /\ Merged(old, e, bump).fingerprint = old.fingerprint
          /\ Merged(old, e, bump).status = IF "status" \in DOMAIN e THEN e.status ELSE old.status
          /\ Merged(old, e, bump).recurrence = IF bump THEN old.recurrence + 1 ELSE old.recurrence
      BY <3>1, MergedRow, Zenon
    <3> QED BY <3>2 DEF old
  <2>4. Fits(m, more, looked)
    <3>1. m.status # "new" => m.fingerprint \in looked
      BY <1>0, <2>1, <2>3 DEF Fits
    <3>2. q[i].recurrence \in Nat /\ m.fingerprint \in Fingerprints
          /\ limit[m.fingerprint] \in Nat /\ more[m.fingerprint] \in Nat
      BY <2>1, <2>3 DEF Entries
    <3>3. q[i].recurrence <= limit[m.fingerprint]
      BY <2>1, <2>3 DEF Sound, Fits
    <3>4. CASE bump
      <4>1. m.recurrence = q[i].recurrence + 1 /\ limit[m.fingerprint] + 1 <= more[m.fingerprint]
        BY <2>1, <2>3, <3>4, Zenon
      <4> HIDE DEF m, i
      <4>2. m.recurrence <= more[m.fingerprint]
        BY <3>2, <3>3, <4>1
      <4> QED BY <3>1, <4>2 DEF Fits
    <3>5. CASE ~bump
      <4>1. m.recurrence = q[i].recurrence
        BY <2>3, <3>5, Zenon
      <4>2. q[i].recurrence <= more[q[i].fingerprint]
        BY <1>0, <2>1 DEF Fits
      <4> HIDE DEF m, i
      <4> QED BY <2>3, <3>1, <4>1, <4>2 DEF Fits
    <3> QED BY <3>4, <3>5
  <2> HIDE DEF m, i
  <2>5. w \in Seq(Entries) /\ DOMAIN w = DOMAIN q /\ w[i] = m
        /\ \A k \in DOMAIN q : k # i => w[k] = q[k]
    BY <1>0, <2>1, <2>3
  <2>6. Unique(w)
    <3>1. \A k \in DOMAIN q : w[k].fingerprint = q[k].fingerprint
      BY <2>3, <2>5
    <3> QED BY <1>0, <2>5, <3>1, Zenon DEF Unique
  <2>7. \A k \in DOMAIN w : Fits(w[k], more, looked)
    BY <1>0, <2>4, <2>5
  <2> QED BY <2>2, <2>5, <2>6, <2>7 DEF Sound
<1> QED BY <1>1, <1>2

-----------------------------------------------------------------------------
(* The invariant.                                                          *)

(* What a run may write counts the filing it is about to make.             *)
Limit(r) == [f \in Fingerprints |->
               filed[f] + IF bumps[r] = TRUE /\ entry[r].fingerprint = f THEN 1 ELSE 0]

(* What a run holds between its steps is as sound as the file was: the     *)
(* entry it upserts, the file it is about to write, the old snapshot of a  *)
(* mirror.                                                                 *)
RunInv(r) ==
  /\ pc[r] \in {"read", "write"} => entry[r] \in Entries
  /\ pc[r] = "read" => Fits(entry[r], Limit(r), reviewed)
  /\ pc[r] = "write" => Sound(body[r], Limit(r), reviewed)
  /\ \A i \in DOMAIN snapshot[r] : Fits(snapshot[r][i], filed, reviewed)
  /\ pc[r] = "ask" => /\ index[r] \in DOMAIN snapshot[r]
                      /\ Eligible(snapshot[r][index[r]])

IInv == /\ TypeOK
        /\ Sound(queue, filed, reviewed)
        /\ PublishedAfterReview
        /\ \A r \in Runs : RunInv(r)

LEMMA TypeInit == Init => TypeOK
  BY FixQueueAssumption DEF Init, TypeOK

LEMMA InvInit == Init => IInv
<1> SUFFICES ASSUME Init PROVE IInv
  OBVIOUS
<1>1. TypeOK
  BY TypeInit
<1>2. Sound(queue, filed, reviewed)
  BY <1>1 DEF Init, Sound, Unique
<1>3. PublishedAfterReview
  BY DEF Init, PublishedAfterReview
<1>4. ASSUME NEW r \in Runs PROVE RunInv(r)
  BY DEF Init, RunInv
<1> QED BY <1>1, <1>2, <1>3, <1>4 DEF IInv

(* What a run holds stays sound while others work.                         *)
LEMMA OthersKeep ==
  ASSUME TypeOK, TypeOK', NEW r \in Runs, RunInv(r),
         pc'[r] = pc[r], entry'[r] = entry[r], body'[r] = body[r], snapshot'[r] = snapshot[r],
         index'[r] = index[r], bumps'[r] = bumps[r],
         Grows(filed, filed'), reviewed \subseteq reviewed'
  PROVE RunInv(r)'
<1>1. /\ filed \in [Fingerprints -> Nat] /\ filed' \in [Fingerprints -> Nat]
      /\ Limit(r) \in [Fingerprints -> Nat] /\ Limit(r)' \in [Fingerprints -> Nat]
  BY DEF TypeOK, Limit
<1>2. Grows(Limit(r), Limit(r)')
  BY <1>1 DEF Grows, Limit
<1>3. pc[r] = "read" => Fits(entry[r], Limit(r)', reviewed')
  BY <1>1, <1>2, FitsOn DEF RunInv
<1>4. pc[r] = "write" => Sound(body[r], Limit(r)', reviewed')
  BY <1>1, <1>2, SoundOn DEF RunInv
<1>5. ASSUME NEW i \in DOMAIN snapshot[r] PROVE Fits(snapshot[r][i], filed', reviewed')
  <2>1. snapshot[r][i] \in Entries /\ Fits(snapshot[r][i], filed, reviewed)
    BY DEF TypeOK, RunInv
  <2> QED BY <1>1, <2>1, FitsOn
<1> QED BY <1>3, <1>4, <1>5 DEF RunInv

-----------------------------------------------------------------------------
(* The steps.                                                              *)

Steady == /\ Grows(filed, filed') /\ reviewed \subseteq reviewed'

(* A run begins with a candidate it counts once.                           *)
LEMMA StartKeeps == ASSUME IInv, NEW r \in Runs, NEW f \in Fingerprints, Start(r, f, 1) PROVE IInv'
<1> DEFINE e == Candidate(f, 1)
<1>1. e \in Entries /\ e.status = "new" /\ e.recurrence = 1 /\ e.fingerprint = f
  BY DEF Candidate, Entries, NoIssue
<1>2. TypeOK'
  BY <1>1 DEF IInv, TypeOK, Start, Go
<1>3. UNCHANGED <<queue, filed, reviewed, tracker>> /\ Steady
  BY DEF Start, Steady, Grows, IInv, TypeOK
<1>4. Sound(queue, filed, reviewed)' /\ PublishedAfterReview'
  BY <1>3 DEF IInv, PublishedAfterReview
<1>5. ASSUME NEW s \in Runs, s # r PROVE RunInv(s)'
  BY <1>2, <1>3, <1>5, OthersKeep DEF IInv, TypeOK, Start, Go, Steady
<1>6. RunInv(r)'
  <2>1. pc'[r] = "read" /\ entry'[r] = e /\ bumps'[r] = TRUE /\ snapshot'[r] = snapshot[r]
    BY DEF IInv, TypeOK, Start, Go
  <2>2. Limit(r)'[f] = filed[f] + 1 /\ filed[f] \in Nat
    BY <1>1, <1>3, <2>1 DEF Limit, IInv, TypeOK
  <2> HIDE DEF e
  <2>3. Fits(entry[r], Limit(r), reviewed)'
    BY <1>1, <2>1, <2>2 DEF Fits
  <2>4. \A i \in DOMAIN snapshot'[r] : Fits(snapshot'[r][i], filed', reviewed')
    BY <1>3, <2>1 DEF IInv, RunInv
  <2> QED BY <1>1, <2>1, <2>3, <2>4 DEF RunInv
<1> QED BY <1>2, <1>4, <1>5, <1>6 DEF IInv

(* The file a run is about to write is sound.                              *)
LEMMA ReadKeeps == ASSUME IInv, NEW r \in Runs, ReadFile(r) PROVE IInv'
<1> DEFINE e == entry[r]
           at == Find(queue, e.fingerprint)
           refused == r \in Crons /\ Protected(queue, e.fingerprint)
           patch == IF refused THEN Note(e.fingerprint)
                    ELSE IF at # 0 /\ r \notin Mirrors THEN Fields(e) ELSE e
           bump == bumps[r] /\ ~refused
<1>1. /\ e \in Entries /\ Fits(e, Limit(r), reviewed) /\ bumps[r] \in BOOLEAN
      /\ filed \in [Fingerprints -> Nat] /\ Limit(r) \in [Fingerprints -> Nat]
      /\ Sound(queue, filed, reviewed) /\ e.fingerprint \in Fingerprints
  BY DEF ReadFile, IInv, RunInv, TypeOK, Limit, Entries
<1>2. /\ body' = [body EXCEPT ![r] = Upserted(queue, patch, bump)]
      /\ bumps' = [bumps EXCEPT ![r] = bump]
  <2>1. CASE refused
    <3>1. bump = FALSE /\ patch = Note(e.fingerprint)
      BY <2>1
    <3>2. /\ body' = [body EXCEPT ![r] = Upserted(queue, Note(e.fingerprint), FALSE)]
          /\ bumps' = [bumps EXCEPT ![r] = FALSE]
      BY <1>1, <2>1 DEF ReadFile, Note
    <3> HIDE DEF bump, patch
    <3> QED BY <3>1, <3>2
  <2>2. CASE ~refused
    <3>1. bump = bumps[r] /\ patch = IF at # 0 /\ r \notin Mirrors THEN Fields(e) ELSE e
      BY <1>1, <2>2
    <3>2. /\ body' = [body EXCEPT ![r] =
                        Upserted(queue, IF at # 0 /\ r \notin Mirrors THEN Fields(e) ELSE e, bumps[r])]
          /\ bumps' = [bumps EXCEPT ![r] = bumps[r]]
      BY <1>1, <2>2 DEF ReadFile
    <3> HIDE DEF bump, patch
    <3> QED BY <3>1, <3>2
  <2> QED BY <2>1, <2>2
<1>3. /\ UNCHANGED <<queue, tracker, entry, snapshot, index, filed, reviewed, faults, edits>>
      /\ pc' = [pc EXCEPT ![r] = "write"]
  BY DEF ReadFile, Go
<1>4. patch \in Patches /\ patch.fingerprint = e.fingerprint /\ bump \in BOOLEAN
  BY <1>1 DEF Patches, Note, Fields
<1>5. bumps'[r] = bump
  BY <1>2 DEF IInv, TypeOK
<1>6. Limit(r)' \in [Fingerprints -> Nat] /\ Grows(filed, Limit(r)')
      /\ (bump => filed[e.fingerprint] + 1 <= Limit(r)'[e.fingerprint])
  BY <1>1, <1>3, <1>5 DEF Limit, Grows
<1>7. at = 0 => patch = e /\ Limit(r)' = Limit(r)
  BY <1>1, <1>3, <1>5 DEF Protected, Limit
<1>8. "status" \in DOMAIN patch => patch.status = e.status
  BY <1>1 DEF Note, Fields
<1>9. Sound(Upserted(queue, patch, bump), Limit(r)', reviewed)
  <2>1. at = 0 => patch \in Entries /\ Fits(patch, Limit(r)', reviewed)
    BY <1>1, <1>7
  <2>2. "status" \in DOMAIN patch /\ patch.status # "new" => patch.fingerprint \in reviewed
    BY <1>1, <1>4, <1>8 DEF Fits
  <2> HIDE DEF patch, bump
  <2> QED BY <1>1, <1>4, <1>6, <2>1, <2>2, UpsertKeepsSound
<1> HIDE DEF patch, bump
<1>10. TypeOK'
  <2>1. Upserted(queue, patch, bump) \in Seq(Entries)
    BY <1>9 DEF Sound
  <2> QED BY <1>2, <1>3, <1>4, <2>1 DEF IInv, TypeOK
<1>11. Steady
  BY <1>1, <1>3 DEF Steady, Grows
<1>12. Sound(queue, filed, reviewed)' /\ PublishedAfterReview'
  BY <1>3 DEF IInv, PublishedAfterReview
<1>13. ASSUME NEW s \in Runs, s # r PROVE RunInv(s)'
  BY <1>2, <1>3, <1>10, <1>11, <1>13, OthersKeep DEF IInv, TypeOK, Steady
<1>14. RunInv(r)'
  <2>1. pc'[r] = "write" /\ body'[r] = Upserted(queue, patch, bump)
    BY <1>2, <1>3 DEF IInv, TypeOK
  <2>2. Sound(body'[r], Limit(r)', reviewed')
    BY <1>3, <1>9, <2>1
  <2> QED BY <1>1, <1>3, <2>1, <2>2 DEF IInv, RunInv
<1> QED BY <1>10, <1>12, <1>13, <1>14 DEF IInv

(* The file is replaced, and what the run filed is counted.                *)
LEMMA WriteKeeps == ASSUME IInv, NEW r \in Runs, WriteFile(r) PROVE IInv'
<1>1. /\ entry[r] \in Entries /\ Sound(body[r], Limit(r), reviewed) /\ bumps[r] \in BOOLEAN
      /\ entry[r].fingerprint \in Fingerprints /\ filed \in [Fingerprints -> Nat]
  BY DEF WriteFile, IInv, RunInv, TypeOK, Entries
<1>2. /\ queue' = body[r] /\ body' = [body EXCEPT ![r] = <<>>]
      /\ UNCHANGED <<tracker, entry, snapshot, bumps, reviewed, faults, edits>>
      /\ \/ pc' = [pc EXCEPT ![r] = "next"] /\ index' = [index EXCEPT ![r] = @ + 1]
         \/ pc' = [pc EXCEPT ![r] = "done"] /\ index' = index
  BY DEF WriteFile, Go, Advance
<1>3. filed' = Limit(r)
  <2>1. CASE bumps[r] = TRUE
    <3> DEFINE f == entry[r].fingerprint
               g == [filed EXCEPT ![f] = filed[f] + 1]
    <3>1. filed' = g
      BY <2>1 DEF WriteFile
    <3>2. g \in [Fingerprints -> Nat] /\ g[f] = filed[f] + 1
          /\ \A h \in Fingerprints : h # f => g[h] = filed[h]
      BY <1>1
    <3>3. Limit(r) \in [Fingerprints -> Nat] /\ Limit(r)[f] = filed[f] + 1
          /\ \A h \in Fingerprints : h # f => Limit(r)[h] = filed[h]
      BY <1>1, <2>1 DEF Limit
    <3> HIDE DEF f, g
    <3>4. \A h \in Fingerprints : g[h] = Limit(r)[h]
      BY <3>2, <3>3
    <3> QED BY <3>1, <3>2, <3>3, <3>4
  <2>2. CASE bumps[r] = FALSE
    <3>1. filed' = filed
      BY <2>2 DEF WriteFile
    <3>2. \A f \in Fingerprints : Limit(r)[f] = filed[f]
      BY <1>1, <2>2 DEF Limit
    <3> QED BY <1>1, <3>1, <3>2 DEF Limit
  <2> QED BY <1>1, <2>1, <2>2
<1>4. Steady
  BY <1>1, <1>2, <1>3 DEF Steady, Grows, Limit
<1>5. TypeOK'
  <2>1. filed' \in [Fingerprints -> Nat] /\ queue' \in Seq(Entries)
    BY <1>1, <1>2, <1>3 DEF Limit, Sound
  <2>2. pc' \in [Runs -> {"ready", "read", "next", "ask", "write", "done"}]
        /\ index' \in [Runs -> Nat \ {0}]
    <3>1. /\ pc \in [Runs -> {"ready", "read", "next", "ask", "write", "done"}]
          /\ index \in [Runs -> Nat \ {0}] /\ index[r] + 1 \in Nat \ {0}
      BY DEF IInv, TypeOK
    <3>2. CASE index' = index
      BY <1>2, <3>1, <3>2
    <3>3. CASE index' = [index EXCEPT ![r] = @ + 1]
      BY <1>2, <3>1, <3>3
    <3> QED BY <1>2, <3>2, <3>3
  <2> QED BY <1>2, <2>1, <2>2 DEF IInv, TypeOK
<1>6. Sound(queue, filed, reviewed)' /\ PublishedAfterReview'
  BY <1>1, <1>2, <1>3 DEF IInv, PublishedAfterReview
<1>7. ASSUME NEW s \in Runs, s # r PROVE RunInv(s)'
  BY <1>2, <1>4, <1>5, <1>7, OthersKeep DEF IInv, TypeOK, Steady
<1>8. RunInv(r)'
  <2>1. pc'[r] \in {"next", "done"} /\ snapshot'[r] = snapshot[r]
    BY <1>2 DEF IInv, TypeOK
  <2>2. ASSUME NEW i \in DOMAIN snapshot[r] PROVE Fits(snapshot[r][i], filed', reviewed')
    <3>1. snapshot[r][i] \in Entries /\ Fits(snapshot[r][i], filed, reviewed)
      BY DEF IInv, TypeOK, RunInv
    <3> QED BY <1>4, <1>5, <3>1, FitsOn DEF Steady, IInv, TypeOK
  <2> QED BY <2>1, <2>2 DEF RunInv
<1> QED BY <1>5, <1>6, <1>7, <1>8 DEF IInv

(* What changes neither the file nor what the run holds, but its place.    *)
LEMMA PlaceKeeps ==
  ASSUME IInv, TypeOK', NEW r \in Runs,
         UNCHANGED <<queue, entry, snapshot, filed, reviewed>>,
         \A s \in Runs : s # r =>
           pc'[s] = pc[s] /\ body'[s] = body[s] /\ index'[s] = index[s] /\ bumps'[s] = bumps[s],
         pc'[r] \notin {"read", "write"},
         pc'[r] = "ask" => index'[r] \in DOMAIN snapshot[r] /\ Eligible(snapshot[r][index'[r]]),
         \A n \in DOMAIN tracker' : tracker'[n] \in reviewed
  PROVE IInv'
<1>1. Steady
  BY DEF Steady, Grows, IInv, TypeOK
<1>2. ASSUME NEW s \in Runs, s # r PROVE RunInv(s)'
  BY <1>1, <1>2, OthersKeep DEF IInv, Steady
<1>3. RunInv(r)'
  BY DEF IInv, RunInv
<1>4. Sound(queue, filed, reviewed)' /\ PublishedAfterReview'
  BY DEF IInv, PublishedAfterReview
<1> QED BY <1>2, <1>3, <1>4 DEF IInv

(* A mirror loads the file, a sound one, as its snapshot.                  *)
LEMMA StartMirrorKeeps == ASSUME IInv, NEW m \in Runs, StartMirror(m) PROVE IInv'
<1>1. TypeOK'
  BY DEF IInv, TypeOK, StartMirror, Go
<1>2. UNCHANGED <<queue, filed, reviewed, tracker>> /\ Steady
  BY DEF StartMirror, Steady, Grows, IInv, TypeOK
<1>3. ASSUME NEW s \in Runs, s # m PROVE RunInv(s)'
  BY <1>1, <1>2, <1>3, OthersKeep DEF IInv, TypeOK, StartMirror, Go, Steady
<1>4. RunInv(m)'
  <2>1. pc'[m] = "next" /\ snapshot'[m] = queue
    BY DEF IInv, TypeOK, StartMirror, Go
  <2> QED BY <1>2, <2>1 DEF RunInv, IInv, Sound
<1>5. Sound(queue, filed, reviewed)' /\ PublishedAfterReview'
  BY <1>2 DEF IInv, PublishedAfterReview
<1> QED BY <1>1, <1>3, <1>4, <1>5 DEF IInv

LEMMA NextEntryKeeps == ASSUME IInv, NEW m \in Runs, NextEntry(m) PROVE IInv'
<1>1. /\ UNCHANGED <<queue, tracker, entry, body, snapshot, bumps, filed, reviewed, faults, edits>>
      /\ \/ pc' = [pc EXCEPT ![m] = "done"] /\ index' = index
         \/ /\ index[m] <= Len(snapshot[m]) /\ Eligible(snapshot[m][index[m]])
            /\ pc' = [pc EXCEPT ![m] = "ask"] /\ index' = index
         \/ pc' = pc /\ pc[m] = "next" /\ index' = [index EXCEPT ![m] = index[m] + 1]
  <2>1. index[m] \in Nat \ {0} /\ Len(snapshot[m]) \in Nat
    BY DEF IInv, TypeOK
  <2> QED BY <2>1 DEF NextEntry, Go, Advance
<1>2. /\ pc \in [Runs -> {"ready", "read", "next", "ask", "write", "done"}]
      /\ index \in [Runs -> Nat \ {0}] /\ index[m] + 1 \in Nat \ {0}
      /\ snapshot[m] \in Seq(Entries)
  BY DEF IInv, TypeOK
<1>3. /\ pc' \in [Runs -> {"ready", "read", "next", "ask", "write", "done"}]
      /\ index' \in [Runs -> Nat \ {0}]
  <2>1. CASE index' = index
    BY <1>1, <1>2, <2>1
  <2>2. CASE pc' = pc /\ index' = [index EXCEPT ![m] = index[m] + 1]
    BY <1>2, <2>2
  <2> QED BY <1>1, <2>1, <2>2
<1>4. TypeOK'
  BY <1>1, <1>3 DEF IInv, TypeOK
<1>5. /\ \A s \in Runs : s # m => pc'[s] = pc[s] /\ index'[s] = index[s]
      /\ pc'[m] \in {"done", "ask", "next"}
  BY <1>1, <1>2
<1>6. pc'[m] = "ask" => index'[m] \in DOMAIN snapshot[m] /\ Eligible(snapshot[m][index'[m]])
  <2>1. CASE pc' = [pc EXCEPT ![m] = "ask"] /\ index' = index
             /\ index[m] <= Len(snapshot[m]) /\ Eligible(snapshot[m][index[m]])
    <3>1. index[m] \in DOMAIN snapshot[m]
      BY <1>2, <2>1
    <3> QED BY <2>1, <3>1
  <2>2. CASE pc' = [pc EXCEPT ![m] = "done"] \/ (pc' = pc /\ pc[m] = "next")
    BY <1>2, <2>2
  <2> QED BY <1>1, <2>1, <2>2
<1>7. \A n \in DOMAIN tracker' : tracker'[n] \in reviewed
  BY <1>1 DEF IInv, PublishedAfterReview
<1> QED BY <1>1, <1>4, <1>5, <1>6, <1>7, PlaceKeeps

(* What is published was reviewed: an eligible row of a sound snapshot was.*)
LEMMA AskedIsReviewed ==
  ASSUME IInv, NEW m \in Runs, pc[m] = "ask"
  PROVE LET e == snapshot[m][index[m]]
        IN /\ e \in Entries /\ Fits(e, filed, reviewed)
           /\ e.fingerprint \in reviewed /\ e.fingerprint \in Fingerprints
<1> DEFINE e == snapshot[m][index[m]]
<1>1. index[m] \in DOMAIN snapshot[m] /\ Eligible(e) /\ Fits(e, filed, reviewed)
  BY DEF IInv, RunInv
<1>2. e \in Entries
  BY <1>1 DEF IInv, TypeOK
<1> HIDE DEF e
<1>3. e.fingerprint \in reviewed /\ e.fingerprint \in Fingerprints
  BY <1>1, <1>2 DEF Eligible, Fits, Entries
<1> QED BY <1>1, <1>2, <1>3 DEF e

LEMMA EditKeeps == ASSUME IInv, NEW m \in Runs, Edit(m) PROVE IInv'
<1>1. /\ UNCHANGED <<queue, tracker, entry, body, snapshot, bumps, filed, reviewed, faults, edits>>
      /\ pc' = [pc EXCEPT ![m] = "next"] /\ index' = [index EXCEPT ![m] = index[m] + 1]
  BY DEF Edit, Go, Advance
<1>2. index[m] + 1 \in Nat \ {0}
  BY DEF IInv, TypeOK
<1>3. TypeOK'
  BY <1>1, <1>2 DEF IInv, TypeOK
<1>4. pc'[m] = "next" /\ \A s \in Runs : s # m => pc'[s] = pc[s] /\ index'[s] = index[s]
  BY <1>1 DEF IInv, TypeOK
<1>5. \A n \in DOMAIN tracker' : tracker'[n] \in reviewed
  BY <1>1 DEF IInv, PublishedAfterReview
<1> QED BY <1>1, <1>3, <1>4, <1>5, PlaceKeeps

(* A new issue is for something reviewed, and what is asked of the upsert  *)
(* counts nothing.                                                         *)
LEMMA CreateKeeps == ASSUME IInv, NEW m \in Runs, Create(m) PROVE IInv'
<1> DEFINE e == snapshot[m][index[m]]
           n == Len(tracker')
           linked == [e EXCEPT !.githubIssue = n]
<1>1. e \in Entries /\ Fits(e, filed, reviewed) /\ e.fingerprint \in reviewed \cap Fingerprints
  BY AskedIsReviewed DEF Create
<1>2. /\ tracker' = Append(tracker, e.fingerprint)
      /\ entry' = [entry EXCEPT ![m] = linked]
      /\ bumps' = [bumps EXCEPT ![m] = FALSE]
      /\ pc' = [pc EXCEPT ![m] = "read"]
      /\ UNCHANGED <<queue, body, snapshot, index, filed, reviewed, faults, edits>>
  BY DEF Create, Go
<1>3. tracker' \in Seq(Fingerprints) /\ n \in Nat
      /\ \A k \in DOMAIN tracker' : tracker'[k] \in reviewed
  <2>1. tracker \in Seq(Fingerprints) /\ \A k \in DOMAIN tracker : tracker[k] \in reviewed
    BY DEF IInv, TypeOK, PublishedAfterReview
  <2> HIDE DEF e
  <2> QED BY <1>1, <1>2, <2>1
<1>4. linked \in Entries /\ Fits(linked, filed, reviewed)
  <2> HIDE DEF e, n
  <2> QED BY <1>1, <1>3 DEF Entries, Fits
<1> HIDE DEF linked, e, n
<1>5. TypeOK'
  BY <1>2, <1>3, <1>4 DEF IInv, TypeOK
<1>6. Steady
  BY <1>2 DEF Steady, Grows, IInv, TypeOK
<1>7. Sound(queue, filed, reviewed)' /\ PublishedAfterReview'
  BY <1>2, <1>3 DEF IInv, PublishedAfterReview
<1>8. ASSUME NEW s \in Runs, s # m PROVE RunInv(s)'
  BY <1>2, <1>5, <1>6, <1>8, OthersKeep DEF IInv, TypeOK, Steady
<1>9. RunInv(m)'
  <2>1. pc'[m] = "read" /\ entry'[m] = linked /\ bumps'[m] = FALSE
    BY <1>2 DEF IInv, TypeOK
  <2>2. /\ filed \in [Fingerprints -> Nat] /\ Limit(m)' \in [Fingerprints -> Nat]
        /\ Grows(filed, Limit(m)')
    BY <1>2, <2>1 DEF IInv, TypeOK, Limit, Grows
  <2>3. Fits(linked, Limit(m)', reviewed)
    BY <1>4, <2>2, FitsOn
  <2>4. \A i \in DOMAIN snapshot'[m] : Fits(snapshot'[m][i], filed', reviewed')
    BY <1>2 DEF IInv, RunInv
  <2> QED BY <1>2, <1>4, <2>1, <2>3, <2>4 DEF RunInv
<1> QED BY <1>5, <1>7, <1>8, <1>9 DEF IInv

LEMMA GhFailsKeeps == ASSUME IInv, NEW m \in Runs, GhFails(m) PROVE IInv'
<1> DEFINE e == snapshot[m][index[m]]
<1>1. e.fingerprint \in reviewed \cap Fingerprints
  BY AskedIsReviewed DEF GhFails
<1>2. /\ tracker' = tracker \/ tracker' = Append(tracker, e.fingerprint)
      /\ pc' = [pc EXCEPT ![m] = "done"] /\ faults' = faults + 1 /\ faults < MaxFault
      /\ UNCHANGED <<queue, entry, body, snapshot, index, bumps, filed, reviewed, edits>>
  BY DEF GhFails, Go
<1> HIDE DEF e
<1>3. tracker' \in Seq(Fingerprints) /\ \A k \in DOMAIN tracker' : tracker'[k] \in reviewed
  <2>1. tracker \in Seq(Fingerprints) /\ \A k \in DOMAIN tracker : tracker[k] \in reviewed
    BY DEF IInv, TypeOK, PublishedAfterReview
  <2> QED BY <1>1, <1>2, <2>1
<1>4. faults' \in 0..MaxFault
  BY <1>2, FixQueueAssumption DEF IInv, TypeOK
<1>5. TypeOK'
  BY <1>2, <1>3, <1>4 DEF IInv, TypeOK
<1>6. pc'[m] = "done" /\ \A s \in Runs : s # m => pc'[s] = pc[s]
  BY <1>2 DEF IInv, TypeOK
<1> QED BY <1>2, <1>3, <1>5, <1>6, PlaceKeeps

LEMMA CrashKeeps == ASSUME IInv, NEW r \in Runs, Crash(r) PROVE IInv'
<1>1. /\ pc' = [pc EXCEPT ![r] = "done"] /\ body' = [body EXCEPT ![r] = <<>>]
      /\ faults' = faults + 1 /\ faults < MaxFault
      /\ UNCHANGED <<queue, tracker, entry, snapshot, index, bumps, filed, reviewed, edits>>
  BY DEF Crash, Go
<1>2. faults' \in 0..MaxFault
  BY <1>1, FixQueueAssumption DEF IInv, TypeOK
<1>3. TypeOK'
  BY <1>1, <1>2 DEF IInv, TypeOK
<1>4. pc'[r] = "done" /\ \A s \in Runs : s # r => pc'[s] = pc[s] /\ body'[s] = body[s]
  BY <1>1 DEF IInv, TypeOK
<1>5. \A n \in DOMAIN tracker' : tracker'[n] \in reviewed
  BY <1>1 DEF IInv, PublishedAfterReview
<1> QED BY <1>1, <1>3, <1>4, <1>5, PlaceKeeps

(* A person edits a status: what the entry then says was reviewed.         *)
LEMMA DecideKeeps ==
  ASSUME IInv, NEW i \in DOMAIN queue, NEW s \in Statuses, Decide(i, s) PROVE IInv'
<1> DEFINE row == [queue[i] EXCEPT !.status = s]
           q == [queue EXCEPT ![i] = row]
<1>1. queue' = q /\ reviewed' = reviewed \cup {queue[i].fingerprint} /\ edits < MaxEdit
      /\ edits' = edits + 1 /\ UNCHANGED <<tracker, runVars, filed, faults>>
  BY DEF Decide
<1>2. queue \in Seq(Entries) /\ queue[i] \in Entries /\ Fits(queue[i], filed, reviewed)
      /\ queue[i].fingerprint \in Fingerprints
  <2>1. queue \in Seq(Entries) /\ Fits(queue[i], filed, reviewed)
    BY DEF IInv, Sound
  <2>2. queue[i] \in Entries
    BY <2>1
  <2> QED BY <2>1, <2>2 DEF Entries
<1>3. row \in Entries /\ row.fingerprint = queue[i].fingerprint /\ row.recurrence = queue[i].recurrence
  BY <1>2 DEF Entries
<1>4. Fits(row, filed, reviewed')
  <2> HIDE DEF row
  <2> QED BY <1>1, <1>2, <1>3 DEF Fits
<1> HIDE DEF row
<1>5. q \in Seq(Entries) /\ DOMAIN q = DOMAIN queue /\ q[i] = row
      /\ \A k \in DOMAIN queue : k # i => q[k] = queue[k]
  BY <1>2, <1>3
<1> HIDE DEF q
<1>6. Unique(q)
  <2>1. \A k \in DOMAIN queue : q[k].fingerprint = queue[k].fingerprint
    BY <1>3, <1>5
  <2>2. Unique(queue)
    BY DEF IInv, Sound
  <2> QED BY <1>5, <2>1, <2>2, Zenon DEF Unique
<1>7. ASSUME NEW k \in DOMAIN q PROVE Fits(q[k], filed, reviewed')
  <2>1. k # i => Fits(queue[k], filed, reviewed)
    BY <1>5 DEF IInv, Sound
  <2> QED BY <1>1, <1>4, <1>5, <2>1 DEF Fits
<1>8. Sound(q, filed, reviewed')
  BY <1>5, <1>6, <1>7 DEF Sound
<1>9. TypeOK'
  BY <1>1, <1>2, <1>5, FixQueueAssumption DEF IInv, TypeOK, runVars
<1>10. Steady
  BY <1>1 DEF Steady, Grows, IInv, TypeOK
<1>11. ASSUME NEW r \in Runs PROVE RunInv(r)'
  BY <1>1, <1>9, <1>10, OthersKeep DEF IInv, Steady, runVars
<1>12. PublishedAfterReview'
  BY <1>1 DEF IInv, PublishedAfterReview
<1> QED BY <1>1, <1>8, <1>9, <1>11, <1>12 DEF IInv

LEMMA InvStep == ASSUME IInv, [Next]_vars PROVE IInv'
<1>1. ASSUME NEW r \in Runs, Run(r) PROVE IInv'
  BY <1>1, StartKeeps, StartMirrorKeeps, NextEntryKeeps, EditKeeps, CreateKeeps, ReadKeeps,
     WriteKeeps, GhFailsKeeps, CrashKeeps DEF Run, Works
<1>2. ASSUME NEW i \in DOMAIN queue, NEW s \in Statuses, Decide(i, s) PROVE IInv'
  BY <1>2, DecideKeeps
<1>3. CASE UNCHANGED vars
  BY <1>3 DEF vars, runVars, IInv, TypeOK, Sound, Unique, Fits, RunInv, Limit, Eligible,
              PublishedAfterReview
<1> QED BY <1>1, <1>2, <1>3 DEF Next

(* The invariant holds of every behaviour.                                 *)
LEMMA Invariant == Spec => []IInv
<1>1. Init => IInv
  BY InvInit
<1>2. IInv /\ [Next]_vars => IInv'
  BY InvStep
<1> QED BY <1>1, <1>2, PTL DEF Spec

-----------------------------------------------------------------------------
(* Every variable keeps its type (the file is always a file of entries).   *)
THEOREM Typed == Spec => []TypeOK
<1>1. IInv => TypeOK
  BY DEF IInv
<1> QED BY <1>1, Invariant, PTL

(* A defect has one row, whoever writes over whom and whoever crashes      *)
(* (upsertQueueEntry, intake.mjs:7).                                       *)
THEOREM OneRow == Spec => []OneRowPerFingerprint
<1>1. IInv => OneRowPerFingerprint
  BY DEF IInv, Sound, OneRowPerFingerprint
<1> QED BY <1>1, Invariant, PTL

(* A row never counts more than was filed of its defect (the mirror's      *)
(* bump = false, mirror-github.mjs:240).                                   *)
THEOREM Counted == Spec => []NeverOvercounted
<1>1. IInv => NeverOvercounted
  BY DEF IInv, Sound, Fits, NeverOvercounted
<1> QED BY <1>1, Invariant, PTL

(* Every issue is of a defect a person has decided about                   *)
(* (isEntryMirrorEligible).                                                *)
THEOREM Published == Spec => []PublishedAfterReview
<1>1. IInv => PublishedAfterReview
  BY DEF IInv
<1> QED BY <1>1, Invariant, PTL
-----------------------------------------------------------------------------
(* One run at a time: the ledger of defects.                               *)

(* Where a row is, Find finds it.                                          *)
LEMMA FindIs ==
  ASSUME NEW q \in Seq(Entries), Unique(q), NEW i \in DOMAIN q
  PROVE Find(q, q[i].fingerprint) = i /\ i # 0
<1>1. i # 0 /\ i \in Nat
  OBVIOUS
<1>2. Find(q, q[i].fingerprint) # 0
  BY FindFinds
<1> QED BY <1>1, <1>2, FindFinds DEF Unique

(* What an upsert leaves of the rows.                                      *)
UpsertEffect(q, e, bump, w) ==
  LET f == e.fingerprint
      i == Find(q, f)
  IN /\ w \in Seq(Entries) /\ Unique(w)
     /\ Find(w, f) # 0 /\ w[Find(w, f)] = IF i = 0 THEN e ELSE Merged(q[i], e, bump)
     /\ \A k \in DOMAIN q : k # i => w[k] = q[k]
     /\ \A g : g # f => Find(w, g) = Find(q, g)
     /\ i # 0 => Len(w) = Len(q)

LEMMA UpsertRows ==
  ASSUME NEW q \in Seq(Entries), Unique(q), NEW e \in Patches, NEW bump \in BOOLEAN,
         Find(q, e.fingerprint) = 0 => e \in Entries
  PROVE UpsertEffect(q, e, bump, Upserted(q, e, bump))
<1> DEFINE f == e.fingerprint
           i == Find(q, f)
           w == Upserted(q, e, bump)
           row == IF i = 0 THEN e ELSE Merged(q[i], e, bump)
           at == IF i = 0 THEN Len(q) + 1 ELSE i
<1>1. /\ w \in Seq(Entries) /\ DOMAIN w = DOMAIN q \cup {at} /\ w[at] = row
      /\ \A k \in DOMAIN q : k # at => w[k] = q[k]
      /\ row.fingerprint = f /\ at # 0
      /\ i # 0 => Len(w) = Len(q)
      /\ at \in DOMAIN q => i # 0
  <2>1. CASE i = 0
    <3>1. w = Append(q, e) /\ row = e /\ e \in Entries /\ at = Len(q) + 1
      BY <2>1 DEF Upserted
    <3> HIDE DEF w, i, f, row, at
    <3> QED BY <2>1, <3>1 DEF f
  <2>2. CASE i # 0
    <3>1. i \in DOMAIN q /\ q[i].fingerprint = f /\ q[i] \in Entries
      BY <2>2, FindFinds
    <3>2. w = [q EXCEPT ![i] = row] /\ row = Merged(q[i], e, bump) /\ at = i
      BY <2>2 DEF Upserted
    <3>3. row \in Entries /\ row.fingerprint = f
      BY <3>1, <3>2, MergedRow, Zenon
    <3> HIDE DEF w, i, f, row, at
    <3>4. /\ w \in Seq(Entries) /\ DOMAIN w = DOMAIN q /\ w[i] = row /\ Len(w) = Len(q)
          /\ \A k \in DOMAIN q : k # i => w[k] = q[k]
      BY <3>1, <3>2, <3>3
    <3>5. DOMAIN w = DOMAIN q \cup {i} /\ i # 0
      BY <3>1, <3>4
    <3> QED BY <3>2, <3>3, <3>4, <3>5
  <2> QED BY <2>1, <2>2
<1>2. \A k \in DOMAIN q : k # at => q[k].fingerprint # f
  <2>1. CASE i = 0
    BY <2>1, FindFinds
  <2>2. CASE i # 0
    BY <2>2, FindIs
  <2> QED BY <2>1, <2>2
<1> HIDE DEF row, w, at
<1>3. Unique(w)
  <2> SUFFICES ASSUME NEW j \in DOMAIN w, NEW k \in DOMAIN w, w[j].fingerprint = w[k].fingerprint
               PROVE j = k
    BY DEF Unique
  <2>1. CASE j # at /\ k # at
    BY <1>1, <2>1 DEF Unique
  <2>2. CASE j = at \/ k = at
    BY <1>1, <1>2, <2>2, Zenon
  <2> QED BY <2>1, <2>2
<1>4. Find(w, f) = at
  BY <1>1, <1>3, FindIs
<1>5. ASSUME NEW g, g # f PROVE Find(w, g) = Find(q, g)
  <2>1. CASE Find(q, g) # 0
    <3>1. Find(q, g) \in DOMAIN q /\ q[Find(q, g)].fingerprint = g
      BY <2>1, FindFinds
    <3>2. Find(q, g) # at
      <4>1. at \in DOMAIN q => q[at].fingerprint = f
        BY <1>1, FindFinds DEF at
      <4> QED BY <1>5, <3>1, <4>1
    <3>3. w[Find(q, g)] = q[Find(q, g)] /\ Find(q, g) \in DOMAIN w
      BY <1>1, <3>1, <3>2
    <3> QED BY <1>1, <1>3, <3>1, <3>3, FindIs
  <2>2. CASE Find(q, g) = 0
    <3>1. \A k \in DOMAIN q : q[k].fingerprint # g
      BY <2>2, FindFinds
    <3>2. \A k \in DOMAIN w : w[k].fingerprint # g
      BY <1>1, <1>5, <3>1
    <3> QED BY <1>1, <2>2, <3>2, FindFinds
  <2> QED BY <2>1, <2>2
<1>6. \A k \in DOMAIN q : k # i => w[k] = q[k]
  BY <1>1 DEF at
<1>7. Find(w, f) # 0 /\ w[Find(w, f)] = row
  BY <1>1, <1>4
<1>8. UpsertEffect(q, e, bump, w)
  BY <1>1, <1>3, <1>5, <1>6, <1>7 DEF row, UpsertEffect
<1> QED BY <1>8 DEF w
(* A merge keeps the issue of a row unless the patch has one.              *)
LEMMA MergedLink ==
  ASSUME NEW old \in Entries, NEW e \in Patches, NEW bump \in BOOLEAN
  PROVE Merged(old, e, bump).githubIssue
          = IF "githubIssue" \in DOMAIN e THEN e.githubIssue ELSE old.githubIssue
<1> DEFINE s == Spread(old, e)
           n == IF bump THEN old.recurrence + 1 ELSE old.recurrence
<1>1. "githubIssue" \in DOMAIN s
      /\ s.githubIssue = IF "githubIssue" \in DOMAIN e THEN e.githubIssue ELSE old.githubIssue
  BY DEF Spread, Entries
<1>2. Merged(old, e, bump) = [s EXCEPT !.recurrence = n]
  BY DEF Merged
<1> HIDE DEF s, n
<1>3. [s EXCEPT !.recurrence = n].githubIssue = s.githubIssue
  BY <1>1
<1> QED BY <1>1, <1>2, <1>3

(* The ledger as read off a file.                                          *)
StatusOf(q, f) == IF Find(q, f) = 0 THEN "none" ELSE q[Find(q, f)].status
CountOf(q, f)  == IF Find(q, f) = 0 THEN 0 ELSE q[Find(q, f)].recurrence
LinkedIn(q, f) == Find(q, f) # 0 /\ Linked(q[Find(q, f)])

LEMMA ReadOff ==
  ASSUME NEW q, NEW f, NEW e, Find(q, f) # 0, q[Find(q, f)] = e
  PROVE StatusOf(q, f) = e.status /\ CountOf(q, f) = e.recurrence /\ (LinkedIn(q, f) <=> Linked(e))
  BY Zenon DEF StatusOf, CountOf, LinkedIn

SameOf(q, w, f) == /\ StatusOf(w, f) = StatusOf(q, f) /\ CountOf(w, f) = CountOf(q, f)
                   /\ LinkedIn(q, f) => LinkedIn(w, f)

(* An upsert changes what the ledger says of its own defect only.          *)
LEMMA OthersSame ==
  ASSUME NEW q \in Seq(Entries), Unique(q), NEW e \in Patches, NEW bump \in BOOLEAN,
         Find(q, e.fingerprint) = 0 => e \in Entries,
         NEW g, g # e.fingerprint
  PROVE SameOf(q, Upserted(q, e, bump), g)
<1> DEFINE w == Upserted(q, e, bump)
           f == e.fingerprint
           i == Find(q, f)
<1>1. Find(w, g) = Find(q, g) /\ \A k \in DOMAIN q : k # i => w[k] = q[k]
  <2>1. UpsertEffect(q, e, bump, w)
    BY UpsertRows
  <2> HIDE DEF w
  <2> QED BY <2>1 DEF UpsertEffect
<1>2. CASE Find(q, g) = 0
  BY <1>1, <1>2 DEF SameOf, StatusOf, CountOf, LinkedIn
<1>3. CASE Find(q, g) # 0
  <2>1. Find(q, g) \in DOMAIN q /\ q[Find(q, g)].fingerprint = g
    BY <1>3, FindFinds
  <2>2. i # 0 => q[i].fingerprint = f
    BY FindFinds
  <2>3. Find(q, g) # i
    BY <1>3, <2>1, <2>2
  <2>4. w[Find(w, g)] = q[Find(q, g)]
    BY <1>1, <2>1, <2>3
  <2> HIDE DEF w
  <2>5. Find(w, g) # 0
    BY <1>1, <1>3
  <2> DEFINE row == q[Find(q, g)]
  <2>6. StatusOf(w, g) = row.status /\ CountOf(w, g) = row.recurrence /\ (LinkedIn(w, g) <=> Linked(row))
    BY <2>4, <2>5, ReadOff, Zenon
  <2>7. StatusOf(q, g) = row.status /\ CountOf(q, g) = row.recurrence /\ (LinkedIn(q, g) <=> Linked(row))
    BY <1>3, ReadOff, Zenon
  <2> HIDE DEF row, w
  <2> QED BY <2>6, <2>7 DEF SameOf, w
<1> QED BY <1>2, <1>3

(* A filing: its defect is new, and counted once more.                     *)
FilingPatch(q, f) == IF Find(q, f) # 0 THEN Fields(Candidate(f, 1)) ELSE Candidate(f, 1)

LEMMA CandidateLemma ==
  ASSUME NEW f \in Fingerprints
  PROVE /\ Candidate(f, 1) \in Entries /\ Candidate(f, 1).fingerprint = f
        /\ Candidate(f, 1).status = "new" /\ Candidate(f, 1).recurrence = 1
        /\ DOMAIN Fields(Candidate(f, 1)) = {"fingerprint", "status", "recurrence"}
        /\ Fields(Candidate(f, 1)).fingerprint = f /\ Fields(Candidate(f, 1)).status = "new"
  BY DEF Candidate, Entries, NoIssue, Fields

LEMMA Filed ==
  ASSUME NEW q \in Seq(Entries), Unique(q), NEW f \in Fingerprints
  PROVE LET w == Upserted(q, FilingPatch(q, f), TRUE)
        IN /\ w \in Seq(Entries) /\ Unique(w)
           /\ StatusOf(w, f) = "new" /\ CountOf(w, f) = CountOf(q, f) + 1
           /\ LinkedIn(q, f) => LinkedIn(w, f)
           /\ \A g : g # f => SameOf(q, w, g)
           /\ Find(w, f) # 0
<1> DEFINE p == FilingPatch(q, f)
           w == Upserted(q, p, TRUE)
           i == Find(q, f)
<1>1. p \in Patches /\ p.fingerprint = f /\ (i = 0 => p \in Entries)
      /\ "status" \in DOMAIN p /\ p.status = "new"
  <2>1. CASE i = 0
    <3>1. p = Candidate(f, 1)
      BY <2>1 DEF FilingPatch
    <3> HIDE DEF p
    <3> QED BY <3>1, CandidateLemma DEF Patches, Entries
  <2>2. CASE i # 0
    <3>1. p = Fields(Candidate(f, 1))
      BY <2>2 DEF FilingPatch
    <3> HIDE DEF p
    <3> QED BY <2>2, <3>1, CandidateLemma DEF Patches
  <2> QED BY <2>1, <2>2
<1>p. i = 0 => p = Candidate(f, 1)
  BY DEF FilingPatch
<1>q. i # 0 => "githubIssue" \notin DOMAIN p
  BY CandidateLemma DEF FilingPatch
<1> HIDE DEF p
<1>2. /\ w \in Seq(Entries) /\ Unique(w) /\ Find(w, f) # 0
      /\ w[Find(w, f)] = IF i = 0 THEN p ELSE Merged(q[i], p, TRUE)
  <2>1. UpsertEffect(q, p, TRUE, w)
    BY <1>1, UpsertRows
  <2> HIDE DEF w
  <2> QED BY <1>1, <2>1 DEF UpsertEffect
<1>3. ASSUME NEW g, g # f PROVE SameOf(q, w, g)
  BY <1>1, <1>3, OthersSame
<1>4. StatusOf(w, f) = "new" /\ CountOf(w, f) = CountOf(q, f) + 1 /\ (LinkedIn(q, f) => LinkedIn(w, f))
  <2>1. CASE i = 0
    <3>1. w[Find(w, f)] = Candidate(f, 1)
      BY <1>2, <1>p, <2>1
    <3> HIDE DEF w
    <3> QED BY <1>2, <2>1, <3>1, CandidateLemma DEF StatusOf, CountOf, LinkedIn
  <2>2. CASE i # 0
    <3>1. i \in DOMAIN q /\ q[i] \in Entries /\ q[i].fingerprint = f
      BY <2>2, FindFinds
    <3> DEFINE m == Merged(q[i], p, TRUE)
    <3>2. m.status = "new" /\ m.recurrence = q[i].recurrence + 1
      BY <1>1, <3>1, MergedRow
    <3>3. m.githubIssue = q[i].githubIssue
      BY <1>1, <1>q, <2>2, <3>1, MergedLink
    <3>4. w[Find(w, f)] = m
      BY <1>2, <2>2
    <3> HIDE DEF w, m, i
    <3>5. StatusOf(w, f) = m.status /\ CountOf(w, f) = m.recurrence /\ (LinkedIn(w, f) <=> Linked(m))
      BY <1>2, <3>4, ReadOff, Zenon
    <3>6. CountOf(q, f) = q[i].recurrence /\ (LinkedIn(q, f) <=> Linked(q[i]))
      BY <2>2, ReadOff, Zenon DEF i
    <3> QED BY <3>2, <3>3, <3>5, <3>6 DEF Linked
  <2> QED BY <2>1, <2>2
<1> QED BY <1>2, <1>3, <1>4 DEF p

(* The note of a conflict changes nothing the ledger tells.                *)
LEMMA Noted ==
  ASSUME NEW q \in Seq(Entries), Unique(q), NEW f \in Fingerprints, Find(q, f) # 0
  PROVE LET w == Upserted(q, Note(f), FALSE)
        IN /\ w \in Seq(Entries) /\ Unique(w)
           /\ \A g : SameOf(q, w, g)
<1> DEFINE w == Upserted(q, Note(f), FALSE)
           i == Find(q, f)
           m == Merged(q[i], Note(f), FALSE)
<1>1. Note(f) \in Patches /\ Note(f).fingerprint = f
      /\ "status" \notin DOMAIN Note(f) /\ "githubIssue" \notin DOMAIN Note(f)
  BY DEF Patches, Note
<1>2. /\ w \in Seq(Entries) /\ Unique(w) /\ Find(w, f) # 0
      /\ w[Find(w, f)] = m
  <2>1. UpsertEffect(q, Note(f), FALSE, w)
    BY <1>1, UpsertRows
  <2> HIDE DEF w
  <2> QED BY <1>1, <2>1 DEF UpsertEffect
<1>3. i \in DOMAIN q /\ q[i] \in Entries /\ q[i].fingerprint = f
  BY FindFinds
<1>4. m.status = q[i].status /\ m.recurrence = q[i].recurrence /\ m.githubIssue = q[i].githubIssue
  <2>1. m.status = q[i].status /\ m.recurrence = q[i].recurrence
    <3>1. /\ m.status = IF "status" \in DOMAIN Note(f) THEN Note(f).status ELSE q[i].status
          /\ m.recurrence = IF FALSE THEN q[i].recurrence + 1 ELSE q[i].recurrence
      BY <1>1, <1>3, MergedRow, Zenon
    <3> HIDE DEF m
    <3> QED BY <1>1, <3>1
  <2>2. m.githubIssue = q[i].githubIssue
    BY <1>1, <1>3, MergedLink
  <2> QED BY <2>1, <2>2
<1>5. ASSUME NEW g, g # f PROVE SameOf(q, w, g)
  BY <1>1, <1>5, OthersSame
<1> HIDE DEF w, m
<1>6. SameOf(q, w, f)
  BY <1>2, <1>4 DEF SameOf, StatusOf, CountOf, LinkedIn, Linked
<1> QED BY <1>2, <1>5, <1>6 DEF w

(* A backlink written over the row it was read from only links it.         *)
Backlink(e, n) == [e EXCEPT !.githubIssue = n]

LEMMA LinkedBack ==
  ASSUME NEW q \in Seq(Entries), Unique(q), NEW i \in DOMAIN q, NEW e,
         e = Backlink(q[i], e.githubIssue),
         e.githubIssue \in Nat, Linked(e),
         NEW w, w = Upserted(q, e, FALSE)
  PROVE /\ w \in Seq(Entries) /\ Unique(w) /\ Len(w) = Len(q)
        /\ \A k \in DOMAIN q : k # i => w[k] = q[k]
        /\ LinkedIn(w, e.fingerprint) /\ e.fingerprint = q[i].fingerprint
        /\ \A g : SameOf(q, w, g)
<1> DEFINE n == e.githubIssue
           f == q[i].fingerprint
           m == Merged(q[i], e, FALSE)
<1>1. q[i] \in Entries
  OBVIOUS
<1>2. n \in Nat /\ n # 0 /\ e = [q[i] EXCEPT !.githubIssue = n]
  BY DEF Linked, NoIssue, Backlink
<1> HIDE DEF n
<1>3. /\ e \in Entries /\ e.fingerprint = f /\ e.status = q[i].status
      /\ e.githubIssue = n /\ e.recurrence = q[i].recurrence
      /\ "status" \in DOMAIN e /\ "githubIssue" \in DOMAIN e
  BY <1>1, <1>2 DEF Entries
<1>4. e \in Patches /\ Find(q, f) = i /\ i # 0
  BY <1>3, FindIs DEF Patches
<1>5. /\ w \in Seq(Entries) /\ Unique(w) /\ Find(w, f) # 0 /\ w[Find(w, f)] = m
      /\ \A k \in DOMAIN q : k # i => w[k] = q[k]
      /\ Len(w) = Len(q)
  <2>1. Find(q, e.fingerprint) = i /\ i # 0 /\ e.fingerprint = f
    BY <1>3, <1>4
  <2>2. UpsertEffect(q, e, FALSE, w)
    BY <1>3, <1>4, UpsertRows
  <2> QED BY <2>1, <2>2 DEF UpsertEffect
<1>6. m.status = q[i].status /\ m.recurrence = q[i].recurrence /\ m.githubIssue = n
  <2>1. m.status = q[i].status /\ m.recurrence = q[i].recurrence
    BY <1>1, <1>3, <1>4, MergedRow
  <2>2. m.githubIssue = n
    BY <1>1, <1>3, <1>4, MergedLink
  <2> QED BY <2>1, <2>2
<1>7. ASSUME NEW g, g # f PROVE SameOf(q, w, g)
  BY <1>3, <1>4, <1>7, OthersSame
<1> HIDE DEF m
<1>8. SameOf(q, w, f) /\ LinkedIn(w, f)
  BY <1>2, <1>4, <1>5, <1>6 DEF SameOf, StatusOf, CountOf, LinkedIn, Linked, NoIssue
<1> QED BY <1>3, <1>5, <1>7, <1>8

(* A person's edit changes the status of one row.                          *)
LEMMA Decided ==
  ASSUME NEW q \in Seq(Entries), Unique(q), NEW i \in DOMAIN q, NEW s \in Statuses
  PROVE LET w == [q EXCEPT ![i].status = s]
            f == q[i].fingerprint
        IN /\ Find(q, f) = i /\ i # 0
           /\ StatusOf(w, f) = s /\ CountOf(w, f) = CountOf(q, f)
           /\ LinkedIn(q, f) => LinkedIn(w, f)
           /\ \A g : g # f => SameOf(q, w, g)
<1> DEFINE row == [q[i] EXCEPT !.status = s]
           w == [q EXCEPT ![i] = row]
           f == q[i].fingerprint
<1>1. q[i] \in Entries /\ Find(q, f) = i /\ i # 0
  BY FindIs
<1>2. row \in Entries /\ row.fingerprint = f /\ row.status = s
      /\ row.recurrence = q[i].recurrence /\ row.githubIssue = q[i].githubIssue
  BY <1>1 DEF Entries
<1> HIDE DEF row
<1>3. /\ w \in Seq(Entries) /\ DOMAIN w = DOMAIN q /\ w[i] = row
      /\ \A k \in DOMAIN q : k # i => w[k] = q[k]
  BY <1>1, <1>2
<1> HIDE DEF w
<1>4. \A k \in DOMAIN q : w[k].fingerprint = q[k].fingerprint
  BY <1>2, <1>3
<1>5. Unique(w)
  BY <1>3, <1>4 DEF Unique
<1>6. ASSUME NEW g PROVE Find(w, g) = Find(q, g)
  <2>1. CASE Find(q, g) # 0
    <3>1. Find(q, g) \in DOMAIN w /\ w[Find(q, g)].fingerprint = g
      BY <1>3, <1>4, <2>1, FindFinds
    <3> QED BY <1>3, <1>5, <3>1, FindIs
  <2>2. CASE Find(q, g) = 0
    <3>1. \A k \in DOMAIN w : w[k].fingerprint # g
      BY <1>3, <1>4, <2>2, FindFinds
    <3> QED BY <1>3, <2>2, <3>1, FindFinds
  <2> QED BY <2>1, <2>2
<1>7. ASSUME NEW g, g # f PROVE SameOf(q, w, g)
  <2>1. Find(q, g) # 0 => Find(q, g) \in DOMAIN q /\ Find(q, g) # i
    BY <1>7, FindFinds
  <2>2. Find(q, g) # 0 => w[Find(q, g)] = q[Find(q, g)]
    BY <1>3, <2>1
  <2> QED BY <1>6, <2>2 DEF SameOf, StatusOf, CountOf, LinkedIn
<1>8. /\ StatusOf(w, f) = s /\ CountOf(w, f) = CountOf(q, f)
      /\ LinkedIn(q, f) => LinkedIn(w, f)
  BY <1>1, <1>2, <1>3, <1>6 DEF StatusOf, CountOf, LinkedIn, Linked
<1>9. w = [q EXCEPT ![i].status = s]
  BY DEF w, row
<1> QED BY <1>1, <1>7, <1>8, <1>9
(* Until two actors overlap or one fails.                                  *)
Solo == ~overlapped /\ faults = 0

Key(r) == entry[r].fingerprint
Refused(r) == r \in Crons /\ Protected(queue, Key(r))
Patch(r) == IF Refused(r) THEN Note(Key(r)) ELSE FilingPatch(queue, Key(r))

(* What a filer is about to write is the upsert of its candidate into the  *)
(* file as it still is.                                                    *)
FilerInv(r) ==
  /\ pc[r] \notin {"next", "ask"}
  /\ pc[r] \in {"read", "write"} => entry[r] = Candidate(Key(r), 1) /\ Key(r) \in Fingerprints
  /\ pc[r] = "read" => bumps[r] = TRUE
  /\ pc[r] = "write" => body[r] = Upserted(queue, Patch(r), ~Refused(r))

(* The snapshot of a mirror is the file, from the entry it is at; what it  *)
(* is about to write back is that entry, linked.                           *)
MirrorInv(m) ==
  /\ pc[m] \in {"next", "ask", "read", "write"} =>
       /\ Len(snapshot[m]) = Len(queue)
       /\ \A i \in DOMAIN queue : index[m] <= i => queue[i] = snapshot[m][i]
  /\ pc[m] \in {"ask", "read", "write"} => index[m] \in DOMAIN queue
  /\ pc[m] \in {"read", "write"} =>
       /\ Key(m) = queue[index[m]].fingerprint /\ Linked(entry[m])
       /\ entry[m] = Backlink(queue[index[m]], entry[m].githubIssue)
  /\ pc[m] = "read" => bumps[m] = FALSE
  /\ pc[m] = "write" => body[m] = Upserted(queue, entry[m], FALSE)

(* The row of a published defect links its issue, or is about to.          *)
HasLink(f) == \/ LinkedIn(queue, f)
              \/ \E m \in Mirrors : pc[m] \in {"read", "write"} /\ Key(m) = f

SoloInv == Solo => /\ \A r, s \in InFlight : r = s
                   /\ \A r \in Locals \cup Crons : FilerInv(r)
                   /\ \A m \in Mirrors : MirrorInv(m)
                   /\ \A n \in DOMAIN tracker : HasLink(tracker[n])

LEMMA SoloInit == Init => SoloInv
<1> SUFFICES ASSUME Init PROVE SoloInv
  OBVIOUS
<1>1. \A r \in Runs : pc[r] = "ready"
  BY DEF Init
<1>2. DOMAIN tracker = {}
  BY DEF Init
<1>3. InFlight = {}
  BY <1>1 DEF InFlight
<1>4. \A r \in Locals \cup Crons : FilerInv(r)
  BY <1>1 DEF FilerInv, Runs
<1>5. \A m \in Mirrors : MirrorInv(m)
  BY <1>1 DEF MirrorInv, Runs
<1> QED BY <1>2, <1>3, <1>4, <1>5 DEF SoloInv

(* Only r is at work, and goes on alone.                                   *)
LEMMA SoloKeeps ==
  ASSUME NEW r \in Runs, InFlight \subseteq {r}, \A s \in Runs : s # r => pc'[s] = pc[s],
         r \in Locals \cup Crons => FilerInv(r)', r \in Mirrors => MirrorInv(r)',
         \A n \in DOMAIN tracker' : HasLink(tracker[n])'
  PROVE SoloInv'
<1>1. \A s \in Runs : s # r => pc'[s] \in {"ready", "done"}
  BY DEF InFlight
<1>2. \A s, t \in InFlight' : s = t
  BY <1>1 DEF InFlight
<1>3. ASSUME NEW s \in Locals \cup Crons PROVE FilerInv(s)'
  BY <1>1, <1>3 DEF FilerInv, Runs
<1>4. ASSUME NEW s \in Mirrors PROVE MirrorInv(s)'
  BY <1>1, <1>4 DEF MirrorInv, Runs
<1> QED BY <1>2, <1>3, <1>4 DEF SoloInv

(* Where the links stay, so do those of what is published.                 *)
LEMMA LinksKeep ==
  ASSUME NEW r \in Runs, InFlight \subseteq {r}, tracker' = tracker,
         \A n \in DOMAIN tracker : HasLink(tracker[n]),
         \A f : LinkedIn(queue, f) => LinkedIn(queue, f)',
         \A f : r \in Mirrors /\ pc[r] \in {"read", "write"} /\ Key(r) = f => HasLink(f)'
  PROVE \A n \in DOMAIN tracker' : HasLink(tracker[n])'
<1> SUFFICES ASSUME NEW n \in DOMAIN tracker PROVE HasLink(tracker[n])'
  OBVIOUS
<1>0. tracker'[n] = tracker[n]
  OBVIOUS
<1>1. HasLink(tracker[n])
  OBVIOUS
<1>2. CASE LinkedIn(queue, tracker[n])
  BY <1>2 DEF HasLink
<1>3. ASSUME NEW m \in Mirrors, pc[m] \in {"read", "write"}, Key(m) = tracker[n]
      PROVE HasLink(tracker[n])'
  <2>1. m = r
    BY <1>3 DEF InFlight, Runs
  <2> QED BY <1>3, <2>1
<1> QED BY <1>1, <1>2, <1>3 DEF HasLink

-----------------------------------------------------------------------------
(* The steps of the ledger.                                                *)
Stays == UNCHANGED Ledger!vars

LEMMA LedgerStays ==
  ASSUME tracker' = tracker, \A f : SameOf(queue, queue', f)
  PROVE Stays
<1>1. \A f : StatusOf(queue', f) = StatusOf(queue, f) /\ CountOf(queue', f) = CountOf(queue, f)
  BY DEF SameOf
<1> QED BY <1>1 DEF Stays, Ledger!vars, StatusOf, CountOf, Row

LEMMA SameSame == ASSUME NEW q, NEW f PROVE SameOf(q, q, f)
  BY DEF SameOf

LEMMA LedgerFiles ==
  ASSUME tracker' = tracker, NEW f \in Fingerprints,
         StatusOf(queue', f) = "new", CountOf(queue', f) = CountOf(queue, f) + 1,
         \A g : g # f => SameOf(queue, queue', g)
  PROVE Ledger!File(f)
<1>1. \A g : g # f => StatusOf(queue', g) = StatusOf(queue, g) /\ CountOf(queue', g) = CountOf(queue, g)
  BY DEF SameOf
<1> QED BY <1>1 DEF Ledger!File, StatusOf, CountOf, Row

LEMMA LedgerDecides ==
  ASSUME tracker' = tracker, NEW f \in Fingerprints, NEW s \in Statuses,
         StatusOf(queue, f) # "none", StatusOf(queue', f) = s, CountOf(queue', f) = CountOf(queue, f),
         \A g : g # f => SameOf(queue, queue', g)
  PROVE Ledger!Person(f)
<1>1. \A g : g # f => StatusOf(queue', g) = StatusOf(queue, g) /\ CountOf(queue', g) = CountOf(queue, g)
  BY DEF SameOf
<1> QED BY <1>1 DEF Ledger!Person, Ledger!Known, StatusOf, CountOf, Row

LEMMA LedgerMirrors ==
  ASSUME TypeOK, queue' = queue, NEW f \in Fingerprints, tracker' = Append(tracker, f),
         StatusOf(queue, f) \in Statuses, \A n \in DOMAIN tracker : tracker[n] # f
  PROVE Ledger!Mirror(f)
<1> DEFINE Of(g) == {n \in DOMAIN tracker : tracker[n] = g}
<1>1. tracker \in Seq(Fingerprints)
  BY DEF TypeOK
<1>2. DOMAIN tracker' = DOMAIN tracker \cup {Len(tracker) + 1} /\ Len(tracker) + 1 \notin DOMAIN tracker
      /\ tracker'[Len(tracker) + 1] = f /\ \A n \in DOMAIN tracker : tracker'[n] = tracker[n]
  BY <1>1
<1>3. Of(f) = {} /\ Of(f)' = {Len(tracker) + 1} /\ \A g : g # f => Of(g)' = Of(g)
  BY <1>2
<1>4. Cardinality(Of(f)) = 0 /\ Cardinality(Of(f)') = 1 /\ \A g : g # f => Cardinality(Of(g)') = Cardinality(Of(g))
  BY <1>3, FS_EmptySet, FS_Singleton
<1> QED BY <1>4 DEF Ledger!Mirror, StatusOf, Row
-----------------------------------------------------------------------------
(* The steps of one run at a time.  A filer files its defect, the judge    *)
(* only one that nobody has looked at; a mirror publishes.                 *)
LedgerStep(r) ==
  /\ r \in Locals \cup Crons =>
       \/ Stays
       \/ \E f \in Fingerprints :
            Ledger!File(f) /\ (r \in Crons => StatusOf(queue, f) \in {"none", "new"})
  /\ r \in Mirrors => Stays \/ \E f \in Fingerprints : Ledger!Mirror(f)

LEMMA Alone ==
  ASSUME SoloInv, Solo
  PROVE /\ \A r \in InFlight : InFlight \subseteq {r}
        /\ \A r \in Locals \cup Crons : FilerInv(r)
        /\ \A m \in Mirrors : MirrorInv(m)
        /\ \A n \in DOMAIN tracker : HasLink(tracker[n])
  BY DEF SoloInv

LEMMA EntersAlone == ASSUME Enters, ~overlapped' PROVE InFlight = {}
  BY DEF Enters

(* What neither writes the file nor opens an issue.                        *)
LEMMA StillLedger ==
  ASSUME queue' = queue, tracker' = tracker
  PROVE Stays /\ \A f : LinkedIn(queue, f) => LinkedIn(queue, f)'
  BY SameSame, LedgerStays DEF LinkedIn

LEMMA StartSolo ==
  ASSUME IInv, SoloInv, Solo, ~overlapped', NEW r \in Runs, NEW f \in Fingerprints, Start(r, f, 1)
  PROVE SoloInv' /\ LedgerStep(r)
<1>1. InFlight = {} /\ r \in Locals \cup Crons /\ r \notin Mirrors
  BY EntersAlone, FixQueueAssumption DEF Start
<1>2. /\ pc'[r] = "read" /\ entry'[r] = Candidate(f, 1) /\ bumps'[r] = TRUE
      /\ queue' = queue /\ tracker' = tracker
      /\ \A s \in Runs : s # r => pc'[s] = pc[s]
  BY DEF Start, Go, IInv, TypeOK
<1>3. Key(r)' = f
  BY <1>2, CandidateLemma DEF Key
<1>4. FilerInv(r)'
  BY <1>2, <1>3 DEF FilerInv
<1>5. \A n \in DOMAIN tracker' : HasLink(tracker[n])'
  BY <1>1, <1>2, Alone, StillLedger, LinksKeep
<1>6. SoloInv'
  BY <1>1, <1>2, <1>4, <1>5, SoloKeeps
<1> QED BY <1>1, <1>2, <1>6, StillLedger DEF LedgerStep

LEMMA StartMirrorSolo ==
  ASSUME IInv, SoloInv, Solo, ~overlapped', NEW m \in Runs, StartMirror(m)
  PROVE SoloInv' /\ LedgerStep(m)
<1>1. InFlight = {} /\ m \in Mirrors /\ m \notin Locals \cup Crons
  BY EntersAlone, FixQueueAssumption DEF StartMirror
<1>2. /\ pc'[m] = "next" /\ snapshot'[m] = queue /\ index'[m] = 1
      /\ queue' = queue /\ tracker' = tracker
      /\ \A s \in Runs : s # m => pc'[s] = pc[s]
  BY DEF StartMirror, Go, IInv, TypeOK
<1>3. MirrorInv(m)'
  BY <1>2 DEF MirrorInv
<1>4. pc[m] = "ready"
  BY DEF StartMirror
<1>5. \A n \in DOMAIN tracker' : HasLink(tracker[n])'
  BY <1>1, <1>2, <1>4, Alone, StillLedger, LinksKeep
<1>6. SoloInv'
  BY <1>1, <1>2, <1>3, <1>5, SoloKeeps
<1> QED BY <1>1, <1>2, <1>6, StillLedger DEF LedgerStep

(* What a mirror at work may assume.                                       *)
LEMMA MirrorAlone ==
  ASSUME IInv, SoloInv, Solo, NEW m \in Mirrors, pc[m] \notin {"ready", "done"}
  PROVE /\ InFlight \subseteq {m} /\ m \in Runs /\ m \notin Locals \cup Crons /\ MirrorInv(m)
        /\ index[m] \in Nat \ {0} /\ snapshot[m] \in Seq(Entries) /\ queue \in Seq(Entries)
        /\ Unique(queue) /\ pc \in [Runs -> {"ready", "read", "next", "ask", "write", "done"}]
<1>1. m \in Runs /\ m \in InFlight
  BY DEF Runs, InFlight
<1>2. InFlight \subseteq {m} /\ MirrorInv(m)
  BY <1>1, Alone
<1> QED BY <1>1, <1>2, FixQueueAssumption DEF IInv, TypeOK, Sound

LEMMA NextEntrySolo ==
  ASSUME IInv, SoloInv, Solo, NEW m \in Runs, NextEntry(m)
  PROVE SoloInv' /\ LedgerStep(m)
<1>1. m \in Mirrors /\ pc[m] = "next"
  BY DEF NextEntry
<1>2. /\ InFlight \subseteq {m} /\ m \notin Locals \cup Crons /\ MirrorInv(m)
      /\ index[m] \in Nat \ {0} /\ snapshot[m] \in Seq(Entries) /\ queue \in Seq(Entries)
  BY <1>1, MirrorAlone
<1>3. /\ queue' = queue /\ tracker' = tracker /\ snapshot' = snapshot
      /\ \A s \in Runs : s # m => pc'[s] = pc[s]
  BY DEF NextEntry, Go, Advance, IInv, TypeOK
<1>4. \/ pc'[m] = "done"
      \/ pc'[m] = "ask" /\ index'[m] = index[m] /\ index[m] <= Len(snapshot[m])
      \/ pc'[m] = "next" /\ index'[m] = index[m] + 1
  BY <1>1, <1>2 DEF NextEntry, Go, Advance, IInv, TypeOK
<1>5. MirrorInv(m)'
  <2>1. /\ Len(snapshot[m]) = Len(queue)
        /\ \A i \in DOMAIN queue : index[m] <= i => queue[i] = snapshot[m][i]
    BY <1>1, <1>2 DEF MirrorInv
  <2>2. CASE pc'[m] = "done"
    BY <2>2 DEF MirrorInv
  <2>3. CASE pc'[m] = "ask" /\ index'[m] = index[m] /\ index[m] <= Len(snapshot[m])
    <3>1. index[m] \in DOMAIN queue
      BY <1>2, <2>1, <2>3
    <3> QED BY <1>3, <2>1, <2>3, <3>1 DEF MirrorInv
  <2>4. CASE pc'[m] = "next" /\ index'[m] = index[m] + 1
    <3>1. \A i \in DOMAIN queue : index[m] + 1 <= i => index[m] <= i
      BY <1>2
    <3> QED BY <1>3, <2>1, <2>4, <3>1 DEF MirrorInv
  <2> QED BY <1>4, <2>2, <2>3, <2>4
<1>6. \A n \in DOMAIN tracker' : HasLink(tracker[n])'
  BY <1>1, <1>2, <1>3, Alone, StillLedger, LinksKeep
<1>7. SoloInv'
  BY <1>2, <1>3, <1>5, <1>6, SoloKeeps
<1> QED BY <1>2, <1>3, <1>7, StillLedger DEF LedgerStep

LEMMA EditSolo ==
  ASSUME IInv, SoloInv, Solo, NEW m \in Runs, Edit(m)
  PROVE SoloInv' /\ LedgerStep(m)
<1>1. m \in Mirrors /\ pc[m] = "ask"
  BY DEF Edit
<1>2. /\ InFlight \subseteq {m} /\ m \notin Locals \cup Crons /\ MirrorInv(m)
      /\ index[m] \in Nat \ {0} /\ snapshot[m] \in Seq(Entries) /\ queue \in Seq(Entries)
  BY <1>1, MirrorAlone
<1>3. /\ queue' = queue /\ tracker' = tracker /\ snapshot' = snapshot
      /\ pc'[m] = "next" /\ index'[m] = index[m] + 1
      /\ \A s \in Runs : s # m => pc'[s] = pc[s]
  BY DEF Edit, Go, Advance, IInv, TypeOK
<1>4. MirrorInv(m)'
  <2>1. /\ Len(snapshot[m]) = Len(queue)
        /\ \A i \in DOMAIN queue : index[m] <= i => queue[i] = snapshot[m][i]
    BY <1>1, <1>2 DEF MirrorInv
  <2>2. \A i \in DOMAIN queue : index[m] + 1 <= i => index[m] <= i
    BY <1>2
  <2> QED BY <1>3, <2>1, <2>2 DEF MirrorInv
<1>5. \A n \in DOMAIN tracker' : HasLink(tracker[n])'
  BY <1>1, <1>2, <1>3, Alone, StillLedger, LinksKeep
<1>6. SoloInv'
  BY <1>2, <1>3, <1>4, <1>5, SoloKeeps
<1> QED BY <1>2, <1>3, <1>6, StillLedger DEF LedgerStep
(* An issue is opened for a reviewed defect that has none.                 *)
LEMMA CreateSolo ==
  ASSUME IInv, SoloInv, Solo, NEW m \in Runs, Create(m)
  PROVE SoloInv' /\ LedgerStep(m)
<1> DEFINE i == index[m]
           e == queue[i]
           f == e.fingerprint
           n == Len(tracker')
<1>1. m \in Mirrors /\ pc[m] = "ask"
  BY DEF Create
<1>2. /\ InFlight \subseteq {m} /\ m \notin Locals \cup Crons /\ MirrorInv(m)
      /\ i \in Nat \ {0} /\ queue \in Seq(Entries) /\ Unique(queue)
  BY <1>1, MirrorAlone
<1>3. /\ Len(snapshot[m]) = Len(queue) /\ i \in DOMAIN queue /\ e = snapshot[m][i] /\ e \in Entries
      /\ \A k \in DOMAIN queue : i <= k => queue[k] = snapshot[m][k]
  BY <1>1, <1>2 DEF MirrorInv
<1>4. ~Linked(e) /\ Eligible(e) /\ f \in Fingerprints
  BY <1>1, <1>3 DEF Create, IInv, RunInv, Entries
<1>5. /\ tracker' = Append(tracker, f) /\ entry'[m] = [e EXCEPT !.githubIssue = n]
      /\ bumps'[m] = FALSE /\ pc'[m] = "read"
      /\ UNCHANGED <<queue, snapshot, index>>
      /\ \A s \in Runs : s # m => pc'[s] = pc[s]
  BY <1>3 DEF Create, Go, IInv, TypeOK
<1>6. tracker \in Seq(Fingerprints) /\ n = Len(tracker) + 1 /\ n \in Nat \ {0}
      /\ DOMAIN tracker' = DOMAIN tracker \cup {n} /\ tracker'[n] = f
      /\ \A k \in DOMAIN tracker : tracker'[k] = tracker[k]
  <2>1. tracker \in Seq(Fingerprints)
    BY DEF IInv, TypeOK
  <2> HIDE DEF f
  <2> QED BY <1>4, <1>5, <2>1
<1>7. Find(queue, f) = i /\ i # 0
  BY <1>2, <1>3, FindIs
<1>8. ~LinkedIn(queue, f) /\ StatusOf(queue, f) \in Statuses
  BY <1>3, <1>4, <1>7 DEF LinkedIn, StatusOf, Eligible, Entries
<1>9. ASSUME NEW k \in DOMAIN tracker PROVE LinkedIn(queue, tracker[k])
  <2>1. HasLink(tracker[k])
    BY Alone
  <2>2. \A o \in Mirrors : pc[o] \notin {"read", "write"}
    BY <1>1, <1>2 DEF InFlight, Runs
  <2> QED BY <2>1, <2>2 DEF HasLink
<1>10. Ledger!Mirror(f)
  <2>1. \A k \in DOMAIN tracker : tracker[k] # f
    BY <1>8, <1>9
  <2> HIDE DEF f
  <2> QED BY <1>4, <1>5, <1>8, <2>1, LedgerMirrors DEF IInv
<1>11. /\ entry'[m].githubIssue = n /\ Key(m)' = f
       /\ entry'[m] = Backlink(e, entry'[m].githubIssue)
  <2> HIDE DEF n
  <2> QED BY <1>3, <1>5 DEF Key, Entries, Backlink
<1>12. MirrorInv(m)'
  <2>1. Linked(entry[m])'
    BY <1>6, <1>11 DEF Linked, NoIssue
  <2> QED BY <1>3, <1>5, <1>11, <2>1 DEF MirrorInv
<1>13. ASSUME NEW k \in DOMAIN tracker' PROVE HasLink(tracker[k])'
  <2>1. CASE k = n
    BY <1>1, <1>5, <1>6, <1>11, <2>1 DEF HasLink
  <2>2. CASE k \in DOMAIN tracker
    <3>1. LinkedIn(queue, tracker[k])'
      BY <1>5, <1>6, <1>9, <2>2 DEF LinkedIn
    <3> QED BY <3>1 DEF HasLink
  <2> QED BY <1>6, <2>1, <2>2
<1>14. SoloInv'
  BY <1>2, <1>5, <1>12, <1>13, SoloKeeps
<1> QED BY <1>1, <1>2, <1>4, <1>10, <1>14 DEF LedgerStep

(* What a run reads is the file, which nobody changes until it has written.*)
LEMMA ReadSolo ==
  ASSUME IInv, SoloInv, Solo, NEW r \in Runs, ReadFile(r)
  PROVE SoloInv' /\ LedgerStep(r)
<1>1. pc[r] = "read" /\ r \in InFlight /\ InFlight \subseteq {r}
  BY Alone DEF ReadFile, InFlight
<1>2. /\ queue' = queue /\ tracker' = tracker /\ entry' = entry /\ snapshot' = snapshot /\ index' = index
      /\ pc'[r] = "write" /\ \A s \in Runs : s # r => pc'[s] = pc[s]
  BY DEF ReadFile, Go, IInv, TypeOK
<1>3. body'[r] = IF Refused(r) THEN Upserted(queue, [fingerprint |-> Key(r), conflict |-> TRUE], FALSE)
                 ELSE Upserted(queue, IF Find(queue, Key(r)) # 0 /\ r \notin Mirrors THEN Fields(entry[r])
                                      ELSE entry[r], bumps[r])
  BY DEF ReadFile, Refused, Key, IInv, TypeOK
<1>4. ASSUME r \in Locals \cup Crons PROVE FilerInv(r)'
  <2>1. r \notin Mirrors /\ entry[r] = Candidate(Key(r), 1) /\ Key(r) \in Fingerprints /\ bumps[r] = TRUE
    BY <1>1, <1>4, Alone, FixQueueAssumption DEF FilerInv
  <2>2. body'[r] = Upserted(queue, Patch(r), ~Refused(r))
    <3>1. CASE Refused(r)
      BY <1>3, <3>1, Zenon DEF Patch, Note
    <3>2. CASE ~Refused(r)
      <4>1. body'[r] = Upserted(queue, FilingPatch(queue, Key(r)), TRUE)
        <5>1. body'[r] = Upserted(queue, IF Find(queue, Key(r)) # 0 THEN Fields(entry[r]) ELSE entry[r], TRUE)
          BY <1>3, <2>1, <3>2
        <5>2. FilingPatch(queue, Key(r)) = IF Find(queue, Key(r)) # 0 THEN Fields(entry[r]) ELSE entry[r]
          BY <2>1, Zenon DEF FilingPatch
        <5> QED BY <5>1, <5>2
      <4>2. Patch(r) = FilingPatch(queue, Key(r)) /\ ~Refused(r) = TRUE
        BY <3>2 DEF Patch
      <4> QED BY <4>1, <4>2
    <3> QED BY <3>1, <3>2
  <2>3. Patch(r)' = Patch(r) /\ Refused(r)' = Refused(r) /\ Key(r)' = Key(r)
    BY <1>2 DEF Patch, Refused, Key, FilingPatch, Protected
  <2> QED BY <1>2, <2>1, <2>2, <2>3 DEF FilerInv
<1>5. ASSUME r \in Mirrors PROVE MirrorInv(r)'
  <2>1. r \notin Crons /\ MirrorInv(r)
    BY <1>5, Alone, FixQueueAssumption
  <2>2. body'[r] = Upserted(queue, entry[r], FALSE)
    BY <1>1, <1>3, <1>5, <2>1 DEF Refused, MirrorInv
  <2>3. Key(r)' = Key(r)
    BY <1>2 DEF Key
  <2> QED BY <1>1, <1>2, <2>1, <2>2, <2>3 DEF MirrorInv
<1>6. \A f : r \in Mirrors /\ pc[r] \in {"read", "write"} /\ Key(r) = f => HasLink(f)'
  BY <1>2 DEF HasLink, Key
<1>7. \A n \in DOMAIN tracker' : HasLink(tracker[n])'
  BY <1>1, <1>2, <1>6, Alone, StillLedger, LinksKeep
<1>8. SoloInv'
  BY <1>1, <1>2, <1>4, <1>5, <1>7, SoloKeeps
<1> QED BY <1>2, <1>8, StillLedger DEF LedgerStep

(* A filer writes: the defect is filed, or, if it was protected, kept.     *)
LEMMA FilerWrites ==
  ASSUME IInv, SoloInv, Solo, NEW r \in Locals \cup Crons, WriteFile(r)
  PROVE SoloInv' /\ LedgerStep(r)
<1> DEFINE f == Key(r)
<1>1. /\ pc[r] = "write" /\ InFlight \subseteq {r} /\ r \in Runs /\ r \notin Mirrors
      /\ FilerInv(r)
  <2>1. pc[r] = "write" /\ r \in Runs /\ r \in InFlight /\ r \notin Mirrors
    BY FixQueueAssumption DEF WriteFile, Runs, InFlight
  <2> QED BY <2>1, Alone
<1>2. /\ queue' = body[r] /\ tracker' = tracker /\ pc'[r] = "done"
      /\ \A s \in Runs : s # r => pc'[s] = pc[s]
  BY <1>1 DEF WriteFile, Go, IInv, TypeOK
<1>3. queue' = Upserted(queue, Patch(r), ~Refused(r)) /\ f \in Fingerprints
  BY <1>1, <1>2 DEF FilerInv
<1>4. queue \in Seq(Entries) /\ Unique(queue)
  BY DEF IInv, Sound
<1> HIDE DEF f
<1>5. CASE Refused(r)
  <2>1. queue' = Upserted(queue, Note(f), FALSE) /\ Find(queue, f) # 0
    BY <1>3, <1>5 DEF Patch, Refused, Protected, f
  <2>2. \A g : SameOf(queue, queue', g)
    BY <1>3, <1>4, <2>1, Noted
  <2>3. Stays /\ \A g : LinkedIn(queue, g) => LinkedIn(queue', g)
    BY <1>2, <2>2, LedgerStays DEF SameOf
  <2> QED
    <3>1. LedgerStep(r)
      BY <1>1, <2>3 DEF LedgerStep
    <3>2. \A n \in DOMAIN tracker' : HasLink(tracker[n])'
      BY <1>1, <1>2, <2>3, Alone, LinksKeep DEF LinkedIn
    <3>3. FilerInv(r)'
      BY <1>2 DEF FilerInv
    <3> QED BY <1>1, <1>2, <3>1, <3>2, <3>3, SoloKeeps
<1>6. CASE ~Refused(r)
  <2>1. queue' = Upserted(queue, FilingPatch(queue, f), TRUE)
    <3>1. Patch(r) = FilingPatch(queue, f) /\ ~Refused(r) = TRUE
      BY <1>6 DEF Patch, f
    <3> QED BY <1>3, <3>1
  <2>2. /\ StatusOf(queue', f) = "new" /\ CountOf(queue', f) = CountOf(queue, f) + 1
        /\ LinkedIn(queue, f) => LinkedIn(queue', f)
        /\ \A g : g # f => SameOf(queue, queue', g)
    BY <1>3, <1>4, <2>1, Filed
  <2>3. \A g : LinkedIn(queue, g) => LinkedIn(queue', g)
    BY <2>2 DEF SameOf
  <2>4. Ledger!File(f)
    BY <1>2, <1>3, <2>2, LedgerFiles
  <2>5. r \in Crons => StatusOf(queue, f) \in {"none", "new"}
    BY <1>6 DEF Refused, Protected, StatusOf, f
  <2>6. LedgerStep(r)
    BY <1>1, <1>3, <2>4, <2>5 DEF LedgerStep
  <2>7. \A n \in DOMAIN tracker' : HasLink(tracker[n])'
    BY <1>1, <1>2, <2>3, Alone, LinksKeep DEF LinkedIn
  <2>8. FilerInv(r)'
    BY <1>2 DEF FilerInv
  <2> QED BY <1>1, <1>2, <2>6, <2>7, <2>8, SoloKeeps
<1> QED BY <1>5, <1>6

(* A mirror writes its backlink: the row links its issue, and nothing else *)
(* of it changes.                                                          *)
LEMMA MirrorWrites ==
  ASSUME IInv, SoloInv, Solo, NEW m \in Mirrors, WriteFile(m)
  PROVE SoloInv' /\ LedgerStep(m)
<1> DEFINE i == index[m]
           f == Key(m)
<1>1. pc[m] = "write"
  BY DEF WriteFile
<1>2. /\ InFlight \subseteq {m} /\ m \in Runs /\ m \notin Locals \cup Crons /\ MirrorInv(m)
      /\ i \in Nat \ {0} /\ queue \in Seq(Entries) /\ Unique(queue) /\ snapshot[m] \in Seq(Entries)
  BY <1>1, MirrorAlone
<1>3. /\ queue' = body[m] /\ tracker' = tracker /\ pc'[m] = "next" /\ index'[m] = i + 1
      /\ snapshot' = snapshot /\ entry' = entry
      /\ \A s \in Runs : s # m => pc'[s] = pc[s]
  BY <1>2 DEF WriteFile, Go, Advance, IInv, TypeOK
<1>4. /\ i \in DOMAIN queue /\ Len(snapshot[m]) = Len(queue)
      /\ \A k \in DOMAIN queue : i <= k => queue[k] = snapshot[m][k]
      /\ Linked(entry[m]) /\ entry[m] = Backlink(queue[i], entry[m].githubIssue)
      /\ queue' = Upserted(queue, entry[m], FALSE)
  BY <1>1, <1>2, <1>3 DEF MirrorInv
<1>5. entry[m].githubIssue \in Nat
  BY <1>1, <1>2 DEF IInv, RunInv, Entries
<1>6. /\ queue' \in Seq(Entries) /\ Len(queue') = Len(queue)
      /\ \A k \in DOMAIN queue : k # i => queue'[k] = queue[k]
      /\ LinkedIn(queue', f) /\ \A g : SameOf(queue, queue', g)
  <2> DEFINE e == entry[m]
             w == queue'
  <2>1. e = Backlink(queue[i], e.githubIssue) /\ e.githubIssue \in Nat /\ Linked(e)
    BY <1>4, <1>5
  <2>2. w = Upserted(queue, e, FALSE) /\ f = e.fingerprint
    BY <1>4 DEF Key
  <2> HIDE DEF e, i, w
  <2>3. /\ w \in Seq(Entries) /\ Len(w) = Len(queue)
        /\ \A k \in DOMAIN queue : k # i => w[k] = queue[k]
        /\ LinkedIn(w, e.fingerprint) /\ \A g : SameOf(queue, w, g)
    <3>1. queue \in Seq(Entries) /\ Unique(queue) /\ i \in DOMAIN queue
      BY <1>2, <1>4
    <3> QED BY <2>1, <2>2, <3>1, LinkedBack
  <2> QED BY <2>2, <2>3 DEF w
<1>7. Stays /\ \A g : LinkedIn(queue, g) => LinkedIn(queue', g)
  BY <1>3, <1>6, LedgerStays DEF SameOf
<1>8. MirrorInv(m)'
  <2>1. DOMAIN queue' = DOMAIN queue /\ DOMAIN queue \subseteq Nat
    BY <1>2, <1>6
  <2>2. ASSUME NEW k \in DOMAIN queue, i + 1 <= k PROVE queue'[k] = snapshot[m][k]
    <3>1. k # i /\ i <= k
      BY <1>2, <2>1, <2>2
    <3> QED BY <1>4, <1>6, <2>2, <3>1
  <2> QED BY <1>3, <1>4, <1>6, <2>1, <2>2 DEF MirrorInv
<1>9. \A n \in DOMAIN tracker' : HasLink(tracker[n])'
  <2>1. \A g : LinkedIn(queue, g) => LinkedIn(queue, g)'
    BY <1>7 DEF LinkedIn
  <2>2. \A g : m \in Mirrors /\ pc[m] \in {"read", "write"} /\ Key(m) = g => HasLink(g)'
    BY <1>6 DEF HasLink, LinkedIn
  <2> QED BY <1>2, <1>3, <2>1, <2>2, Alone, LinksKeep
<1>10. SoloInv'
  BY <1>2, <1>3, <1>8, <1>9, SoloKeeps
<1> QED BY <1>2, <1>7, <1>10 DEF LedgerStep

(* A person decides while nobody is at work.                               *)
LEMMA DecideSolo ==
  ASSUME IInv, SoloInv, Solo, ~overlapped', NEW i \in DOMAIN queue, NEW s \in Statuses, Decide(i, s)
  PROVE SoloInv' /\ \E f \in Fingerprints : Ledger!Person(f)
<1> DEFINE f == queue[i].fingerprint
<1>1. InFlight = {}
  BY EntersAlone DEF Decide
<1>2. queue \in Seq(Entries) /\ Unique(queue) /\ queue[i] \in Entries
  BY DEF IInv, Sound
<1>3. queue' = [queue EXCEPT ![i].status = s] /\ tracker' = tracker /\ pc' = pc
  BY DEF Decide, runVars
<1>4. f \in Fingerprints /\ queue[i].status # "none"
  BY <1>2, FixQueueAssumption DEF Entries
<1>5. /\ Find(queue, f) = i /\ i # 0
      /\ StatusOf(queue', f) = s /\ CountOf(queue', f) = CountOf(queue, f)
      /\ LinkedIn(queue, f) => LinkedIn(queue', f)
      /\ \A g : g # f => SameOf(queue, queue', g)
  BY <1>2, <1>3, Decided
<1>6. StatusOf(queue, f) # "none"
  BY <1>4, <1>5 DEF StatusOf
<1>7. Ledger!Person(f)
  BY <1>3, <1>4, <1>5, <1>6, LedgerDecides
<1>8. \A g : LinkedIn(queue, g) => LinkedIn(queue', g)
  BY <1>5 DEF SameOf
<1>9. \A r \in Runs : pc'[r] \in {"ready", "done"}
  BY <1>1, <1>3 DEF InFlight
<1>10. \A n \in DOMAIN tracker' : HasLink(tracker[n])'
  <2>1. ASSUME NEW n \in DOMAIN tracker PROVE LinkedIn(queue, tracker[n])
    BY <1>3, <1>9, Alone DEF HasLink, Runs
  <2> QED BY <1>3, <1>8, <2>1 DEF HasLink, LinkedIn
<1>11. SoloInv'
  <2>1. \A a, b \in InFlight' : a = b
    BY <1>9 DEF InFlight
  <2>2. \A r \in Locals \cup Crons : FilerInv(r)'
    BY <1>9 DEF FilerInv, Runs
  <2>3. \A m \in Mirrors : MirrorInv(m)'
    BY <1>9 DEF MirrorInv, Runs
  <2> QED BY <1>10, <2>1, <2>2, <2>3 DEF SoloInv
<1> QED BY <1>4, <1>7, <1>11
-----------------------------------------------------------------------------
SoloStep(r) == SoloInv' /\ LedgerStep(r)

LEMMA WriteSolo ==
  ASSUME IInv, SoloInv, Solo, NEW r \in Runs, WriteFile(r)
  PROVE SoloStep(r)
  BY FilerWrites, MirrorWrites DEF SoloStep, Runs

(* A step that ends alone and without a failure began so.                  *)
LEMMA SoloBefore ==
  ASSUME IInv, [Next]_vars, Solo'
  PROVE Solo
<1>1. faults \in Nat
  BY FixQueueAssumption DEF IInv, TypeOK
<1> USE DEF Solo
<1>2. ASSUME NEW r \in Runs, Run(r) PROVE Solo
  <2>1. (overlapped => overlapped') /\ (faults' = faults \/ faults' = faults + 1)
    <3>1. CASE (\E f \in Fingerprints : Start(r, f, 1)) \/ StartMirror(r)
      BY <3>1 DEF Start, StartMirror, Enters
    <3>2. CASE Works(r)
      <4>1. CASE ReadFile(r)
        BY <4>1 DEF ReadFile
      <4>2. CASE WriteFile(r)
        BY <4>2 DEF WriteFile
      <4>3. CASE NextEntry(r) \/ Edit(r) \/ Create(r)
        BY <4>3 DEF NextEntry, Edit, Create
      <4> QED BY <3>2, <4>1, <4>2, <4>3 DEF Works
    <3>3. CASE GhFails(r) \/ Crash(r)
      BY <3>3 DEF GhFails, Crash
    <3> QED BY <1>2, <3>1, <3>2, <3>3 DEF Run
  <2> QED BY <1>1, <2>1
<1>3. ASSUME NEW i \in DOMAIN queue, NEW s \in Statuses, Decide(i, s) PROVE Solo
  BY <1>3 DEF Decide, Enters
<1>4. CASE UNCHANGED vars
  BY <1>4 DEF vars
<1> QED BY <1>2, <1>3, <1>4 DEF Next

LEMMA RunSolo ==
  ASSUME IInv, SoloInv, Solo', Solo, NEW r \in Runs, Run(r)
  PROVE SoloStep(r)
<1>1. ~overlapped' /\ faults' = 0 /\ faults = 0
  BY DEF Solo
<1>2. CASE GhFails(r) \/ Crash(r)
  BY <1>1, <1>2 DEF GhFails, Crash
<1>3. CASE WriteFile(r)
  BY <1>3, WriteSolo
<1>4. CASE Works(r) \/ StartMirror(r) \/ \E f \in Fingerprints : Start(r, f, 1)
  BY <1>1, <1>3, <1>4, StartSolo, StartMirrorSolo, NextEntrySolo, EditSolo, CreateSolo, ReadSolo
     DEF Works, SoloStep
<1> QED BY <1>2, <1>4 DEF Run

(* Before the first overlap and the first failure the file and the tracker *)
(* are the ledger of defects: the initial states and the steps are those of*)
(* DefectLedger, those of the judge its Judge, those of a mirror its       *)
(* Mirror (upsertQueueEntry, wrapCronUpsertQueueEntry, mirrorEntry).       *)
THEOREM LedgerKept == Spec => KeepsLedger
<1> DEFINE Judges == \A c \in Crons : Run(c) => [\E f \in Fingerprints : Ledger!Judge(f)]_(Ledger!vars)
           Publishes == \A m \in Mirrors : Run(m) => [\E f \in Fingerprints : Ledger!Mirror(f)]_(Ledger!vars)
           Step == ~overlapped' /\ faults' = 0 => [Ledger!Next]_(Ledger!vars) /\ Judges /\ Publishes
<1>1. Init => Ledger!Init
  <2> SUFFICES ASSUME Init PROVE Ledger!Init
    OBVIOUS
  <2>1. \A f : Find(queue, f) = 0
    BY DEF Init, Find
  <2>2. \A f : {n \in DOMAIN tracker : tracker[n] = f} = {}
    BY DEF Init
  <2> QED BY <2>1, <2>2, FS_EmptySet DEF Ledger!Init
<1>2. ASSUME IInv, SoloInv, [Next]_vars, Solo' PROVE SoloInv' /\ Step
  <2>1. Solo
    BY <1>2, SoloBefore
  <2>2. ASSUME NEW r \in Runs, Run(r) PROVE SoloInv' /\ LedgerStep(r)
    BY <1>2, <2>1, <2>2, RunSolo DEF SoloStep
  <2>3. Judges
    BY <2>2 DEF LedgerStep, Ledger!Judge, Stays, Runs, StatusOf, Row
  <2>4. Publishes
    BY <2>2 DEF LedgerStep, Stays, Runs
  <2>5. ASSUME NEW r \in Runs, Run(r) PROVE [Ledger!Next]_(Ledger!vars)
    BY <2>2, <2>5 DEF LedgerStep, Ledger!Next, Ledger!Person, Stays, Runs
  <2>6. ASSUME NEW i \in DOMAIN queue, NEW s \in Statuses, Decide(i, s)
        PROVE SoloInv' /\ Ledger!Next
    BY <1>2, <2>1, <2>6, DecideSolo DEF Ledger!Next, Solo
  <2>7. ASSUME UNCHANGED vars PROVE SoloInv' /\ UNCHANGED Ledger!vars
    <3>1. UNCHANGED <<queue, tracker, pc, entry, body, snapshot, index, bumps>>
      BY <2>7 DEF vars, runVars
    <3>2. \A r, s \in InFlight' : r = s
      BY <1>2, <2>1, <3>1 DEF InFlight, SoloInv
    <3>3. ASSUME NEW r \in Locals \cup Crons PROVE FilerInv(r)'
      <4>1. Key(r)' = Key(r) /\ Refused(r)' = Refused(r) /\ Patch(r)' = Patch(r)
        BY <3>1 DEF Key, Refused, Patch, FilingPatch, Protected
      <4> QED BY <1>2, <2>1, <3>1, <4>1, Alone DEF FilerInv
    <3>4. ASSUME NEW m \in Mirrors PROVE MirrorInv(m)'
      BY <1>2, <2>1, <3>1, Alone DEF MirrorInv, Key
    <3>5. ASSUME NEW n \in DOMAIN tracker' PROVE HasLink(tracker[n])'
      BY <1>2, <2>1, <3>1, Alone DEF HasLink, LinkedIn, Key
    <3>6. UNCHANGED Ledger!vars
      BY <3>1 DEF Ledger!vars, Row
    <3> QED BY <3>2, <3>3, <3>4, <3>5, <3>6 DEF SoloInv
  <2>8. SoloInv' /\ [Ledger!Next]_(Ledger!vars)
    BY <1>2, <2>2, <2>5, <2>6, <2>7 DEF Next
  <2> QED BY <2>3, <2>4, <2>8
<1>3. IInv /\ SoloInv /\ [Next]_vars => SoloInv' /\ Step
  <2>1. ~Solo' => SoloInv' /\ Step
    BY DEF SoloInv, Solo
  <2> HIDE DEF Step
  <2> QED BY <1>2, <2>1
<1>4. Step <=> (~overlapped' /\ faults' = 0 =>
          /\ [Ledger!Next]_(Ledger!vars)
          /\ \A c \in Crons : Run(c) => [\E f \in Fingerprints : Ledger!Judge(f)]_(Ledger!vars)
          /\ \A m \in Mirrors : Run(m) => [\E f \in Fingerprints : Ledger!Mirror(f)]_(Ledger!vars))
  OBVIOUS
<1> HIDE DEF Step
<1> QED BY <1>1, <1>3, <1>4, SoloInit, Invariant, PTL DEF Spec, KeepsLedger
-----------------------------------------------------------------------------
(* The judgement of a capture, and what emit-regression makes of it.       *)

BeforeCold == {"next", "start", "materialize", "gate"}
BeforeScan == BeforeCold \cup {"cold", "scan"}
Scanned    == {"compose", "file", "replay", "lock"}

(* What a judgement holds, it holds only where it still has to let go of   *)
(* it: the cold process while the session lasts, the directories of a      *)
(* materialization until its end, a replay server and its directory        *)
(* together, and none once all the replays were observed.                  *)
HoldInv ==
  /\ stage # "cold" => agda # "up" /\ pending = "none"
  /\ scratch \subseteq {"half", "cold", "replay"}
  /\ "cold" \in scratch => stage \in {"gate", "cold"}
  /\ "replay" \in scratch <=> harness
  /\ harness => stage = "replay" /\ Len(seen) < Rerun

(* What is known of the capture where the judgement stands, and who asked. *)
CauseInv ==
  /\ caller \in Callers /\ capture \in Captures /\ seen \in Seq(Observed)
  /\ caller # "cli" => only = Predicates
  /\ stage \in {"file", "replay"} => caller = "wrap-up" /\ verdict
  /\ stage = "lock" => caller = "emit" /\ verdict
  /\ stage = "replay" => o1 = "candidate"
  /\ queued \/ logged => stage = "done" /\ caller = "wrap-up"
  /\ stage \in BeforeScan => o2 = "none"
  /\ stage \in BeforeCold => o1 = "none"
  /\ stage = "cold" => capture.inside /\ ~Unfaithful
  /\ o1 = "candidate" => capture.inside /\ capture.drift = "none"
  /\ o2 = "cheat-flagged" => policy = "found" /\ \E kind \in found : ~Sanctioned(kind, policy)
  /\ stage \in Scanned /\ caller # "cli" => o2 \in {"no-target", "no-policy", "clean", "cheat-flagged"}
  /\ FiledWithCause

(* Past its refusals emit-regression works for a judgement that is at its  *)
(* end; up to the entry the matrix is as it was, and what the entry will   *)
(* need is on disk.                                                        *)
LockInv ==
  /\ lock \in {"materialize", "compose", "persist", "dry run", "locked"} => stage = "lock" /\ ~NotLockable
  /\ lock \in {"compose", "persist", "dry run"} => written \subseteq disk
  /\ lock \in {"persist", "locked"} => red /\ ~emit.dryRun
  /\ lock # "locked" => matrix = {OldEntry}
  /\ \A new \in matrix \ {OldEntry} : new.needs \subseteq disk

LEMMA HoldInit == LockInit => HoldInv
  BY RerunAssumption DEF LockInit, JudgeInit, HoldInv

(* What neither the judgement nor the session moves is held as before.     *)
LEMMA HoldStays ==
  ASSUME HoldInv, UNCHANGED <<stage, scratch, harness, seen>>,
         stage # "cold" => agda' \in {agda, "gone"} /\ pending' = pending
  PROVE  HoldInv'
  BY DEF HoldInv

LEMMA HoldCold ==
  ASSUME HoldInv, AgdaPrints \/ AgdaEnds \/ ReadLine PROVE HoldInv'
  BY HoldStays DEF AgdaPrints, AgdaEnds, ReadLine, gate

(* The end of the session: killed, and nothing of it on disk.              *)
LEMMA HoldLeave ==
  ASSUME HoldInv, NEW first, NEW third, Kill, Leave(first, third), stage \in {"gate", "cold", "start"}
  PROVE  HoldInv'
  BY DEF HoldInv, Kill, Leave, gate

LEMMA HoldContinue ==
  ASSUME HoldInv, stage = "cold", NEW lines, Continue(lines) PROVE HoldInv'
<1>1. CASE AfterVersion
  BY <1>1, HoldStays DEF AfterVersion, Send, gate
<1>2. CASE AfterLoad(lines)
  <2>1. CASE Abandon
    BY <2>1, HoldLeave DEF Abandon
  <2>2. CASE Send("infer") /\ UNCHANGED <<stage, scratch, gate>>
    BY <2>2, HoldStays DEF Send, gate
  <2>3. ASSUME NEW first, Kill, Leave(first, Unasked) PROVE HoldInv'
    BY <2>3, HoldLeave
  <2> QED BY <1>2, <2>1, <2>2, <2>3 DEF AfterLoad
<1>3. CASE AfterInfer(lines)
  BY <1>3, HoldLeave DEF AfterInfer
<1> QED BY <1>1, <1>2, <1>3 DEF Continue

LEMMA HoldJudge ==
  ASSUME HoldInv, JudgeStep PROVE HoldInv'
<1>1. CASE ReadCapture
  BY <1>1 DEF ReadCapture, HoldInv, cold, gate
<1>2. CASE StartReplay
  BY <1>2 DEF StartReplay, Leave, HoldInv, cold, gate
<1>3. CASE Materialize
  BY <1>3 DEF Materialize, HoldInv, cold, gate
<1>4. CASE Gate
  BY <1>4 DEF Gate, Leave, HoldInv, cold, gate
<1>5. CASE Reject
  BY <1>5, HoldLeave DEF Reject, Abandon
<1>6. CASE Idle \/ Closed
  BY <1>6, HoldContinue DEF Idle, Closed
<1>7. CASE Scan
  BY <1>7 DEF Scan, HoldInv, cold, gate
<1>8. CASE Compose
  BY <1>8 DEF Compose, HoldInv, cold, gate
<1>9. CASE File
  BY <1>9 DEF File, HoldInv, cold
<1>10. CASE ReplayStarts
  <2>1. stage = "replay" /\ ~harness /\ Len(seen) < Rerun /\ UNCHANGED <<agda, pending, seen>>
    BY <1>10 DEF ReplayStarts, HoldInv, cold
  <2>2. CASE scratch' = scratch \cup {"replay"} /\ harness' = TRUE /\ UNCHANGED stage
    BY <2>1, <2>2 DEF HoldInv
  <2>3. CASE stage' = "failed" /\ scratch' \in {scratch, scratch \cup {"half"}} /\ UNCHANGED harness
    BY <2>1, <2>3 DEF HoldInv
  <2> QED BY <1>10, <2>2, <2>3 DEF ReplayStarts
<1>11. CASE ReplayEnds
  BY <1>11 DEF ReplayEnds, HoldInv, cold
<1>12. CASE Classify
  BY <1>12 DEF Classify, HoldInv, cold
<1>13. CASE NextCapture
  BY <1>13 DEF NextCapture, HoldInv
<1>14. CASE Report
  BY <1>14 DEF Report, HoldInv, cold, gate
<1> QED BY <1>1, <1>2, <1>3, <1>4, <1>5, <1>6, <1>7, <1>8, <1>9, <1>10, <1>11, <1>12, <1>13, <1>14
        DEF JudgeStep

LEMMA HoldAlways == LockSpec => []HoldInv
<1>1. LockInit => HoldInv
  BY HoldInit
<1>2. HoldInv /\ [LockNext]_allVars => HoldInv'
  <2> SUFFICES ASSUME HoldInv, [LockNext]_allVars PROVE HoldInv'
    OBVIOUS
  <2>1. CASE JudgeNext
    BY <2>1, HoldCold, HoldJudge DEF JudgeNext
  <2>2. CASE UNCHANGED judgeVars
    BY <2>2, HoldStays DEF judgeVars
  <2> QED BY <2>1, <2>2 DEF LockNext, allVars
<1> QED BY <1>1, <1>2, PTL DEF LockSpec

(* Whatever Agda answers, and whatever fails or is cut off: a judgement    *)
(* that has ended leaves no Agda process, no replay server and no complete *)
(* directory (runSharedOrcl01AndOrcl03 and its finally, classifyFlakiness).*)
THEOREM HeldOnlyInside == LockSpec => []NothingIsLeft
<1>1. HoldInv => NothingIsLeft
  BY DEF HoldInv, NothingIsLeft
<1> QED BY <1>1, HoldAlways, PTL

-----------------------------------------------------------------------------
LEMMA CauseInit == LockInit => CauseInv
<1>1. (CHOOSE c \in Captures : TRUE) \in Captures
  <2> DEFINE c == [warm |-> "none", target |-> FALSE, inside |-> FALSE, signed |-> FALSE,
                   drift |-> "none", cold |-> "error"]
  <2>1. c \in Captures
    BY DEF Captures, CompletenessClassifications, Classes
  <2> QED BY <2>1
<1> QED BY <1>1 DEF LockInit, JudgeInit, NoCapture, CauseInv, FiledWithCause, Callers, BeforeScan, BeforeCold,
                    Scanned

(* What leaves the capture, its judgement and the gate as they are.        *)
LEMMA CauseStays ==
  ASSUME CauseInv, UNCHANGED <<caller, capture, only, stage, outcomes, verdict, seen, queued, logged>>
  PROVE  CauseInv'
  BY DEF CauseInv, FiledWithCause, Unfaithful, Shared, Sanctioned, outcomes

(* The end of the session: a candidate comes of a faithful replay.         *)
LEMMA CauseLeave ==
  ASSUME CauseInv, NEW first, NEW third, Leave(first, third), stage \in {"start", "gate", "cold"},
         first = "candidate" => capture.inside /\ capture.drift = "none"
  PROVE  CauseInv'
<1>1. /\ o1' = first /\ stage' = "scan" /\ o2 = "none" /\ ~queued /\ ~logged
      /\ UNCHANGED <<capture, only, o2, found, policy, verdict, caller, seen, queued, logged>>
  BY DEF Leave, gate, CauseInv, BeforeScan, BeforeCold
<1> QED BY <1>1 DEF CauseInv, FiledWithCause, BeforeScan, BeforeCold, Scanned

LEMMA CauseContinue ==
  ASSUME CauseInv, stage = "cold", NEW lines, Continue(lines) PROVE CauseInv'
<1>1. capture.inside /\ (Shared => capture.drift = "none")
  BY DEF CauseInv, Unfaithful, Captures
<1>2. CASE AfterVersion
  BY <1>2, CauseStays DEF AfterVersion, gate
<1>3. CASE AfterLoad(lines)
  <2>1. CASE Abandon
    BY <2>1, CauseLeave DEF Abandon
  <2>2. ASSUME ~Abandon PROVE CauseInv'
    <3>1. PICK parsed :
            LET first == IF ~Shared THEN "skip"
                         ELSE IF parsed = capture.warm THEN "pass" ELSE "candidate"
            IN  \/ o1' = first /\ UNCHANGED <<capture, only, stage, o2, found, policy, verdict, gate>>
                \/ Leave(first, Unasked)
      BY <1>3, <2>2 DEF AfterLoad
    <3> DEFINE first == IF ~Shared THEN "skip" ELSE IF parsed = capture.warm THEN "pass" ELSE "candidate"
    <3>2. first = "candidate" => capture.inside /\ capture.drift = "none"
      BY <1>1
    <3>3. (o1' = first /\ UNCHANGED <<capture, only, stage, o2, found, policy, verdict, gate>>)
            \/ Leave(first, Unasked)
      BY <3>1
    <3> HIDE DEF first
    <3>4. CASE o1' = first /\ UNCHANGED <<capture, only, stage, o2, found, policy, verdict, gate>>
      BY <3>2, <3>4 DEF CauseInv, FiledWithCause, Unfaithful, Shared, Sanctioned, gate, BeforeCold,
                        BeforeScan, Scanned
    <3>5. CASE Leave(first, Unasked)
      BY <3>2, <3>5, CauseLeave
    <3> QED BY <3>3, <3>4, <3>5
  <2> QED BY <2>1, <2>2
<1>4. CASE AfterInfer(lines)
  <2>1. o1 = "candidate" => capture.inside /\ capture.drift = "none"
    BY DEF CauseInv
  <2> QED BY <1>4, <2>1, CauseLeave DEF AfterInfer
<1> QED BY <1>2, <1>3, <1>4 DEF Continue

(* classifyFlakiness: replays that agree have observed one classification, *)
(* and not none; replays that do not have observed two, or none.           *)
LEMMA StableObserved ==
  ASSUME NEW s \in Seq(Observed), Len(s) = Rerun
  PROVE  /\ Stable(s) => Cardinality(ToSet(s)) = 1 /\ "null" \notin ToSet(s)
         /\ ~Stable(s) => Cardinality(ToSet(s)) > 1 \/ "null" \in ToSet(s)
<1>1. 1 \in DOMAIN s /\ DOMAIN s = 1..Rerun
  BY RerunAssumption
<1>2. ToSet(s) = {s[k] : k \in DOMAIN s}
  BY DEF ToSet
<1>3. ASSUME Stable(s) PROVE Cardinality(ToSet(s)) = 1 /\ "null" \notin ToSet(s)
  <2>1. ToSet(s) = {s[1]} /\ s[1] # "null"
    BY <1>1, <1>2, <1>3 DEF Stable
  <2> QED BY <2>1, FS_Singleton
<1>4. ASSUME ~Stable(s), "null" \notin ToSet(s) PROVE Cardinality(ToSet(s)) > 1
  <2>1. PICK k \in DOMAIN s : s[k] # s[1]
    BY <1>2, <1>4 DEF Stable
  <2>2. {s[1]} \subseteq ToSet(s) /\ {s[1]} # ToSet(s)
    BY <1>1, <1>2, <2>1
  <2>3. IsFiniteSet(ToSet(s))
    <3>1. ToSet(s) \subseteq Observed
      BY <1>2
    <3>2. IsFiniteSet(Observed)
      <4>1. Observed = (({} \cup {"same"}) \cup {"other"}) \cup {"null"}
        BY DEF Observed
      <4> QED BY <4>1, FS_EmptySet, FS_AddElement
    <3> QED BY <3>1, <3>2, FS_Subset
  <2>4. Cardinality({s[1]}) = 1 /\ Cardinality(ToSet(s)) \in Nat
    BY <2>3, FS_Singleton, FS_CardinalityType
  <2>5. Cardinality({s[1]}) <= Cardinality(ToSet(s)) /\ Cardinality({s[1]}) # Cardinality(ToSet(s))
    BY <2>2, <2>3, FS_Subset
  <2> QED BY <2>4, <2>5
<1> QED BY <1>3, <1>4

LEMMA CauseJudge ==
  ASSUME CauseInv, JudgeStep PROVE CauseInv'
<1> USE DEF BeforeScan, BeforeCold, Scanned
<1>1. CASE ReadCapture
  BY <1>1 DEF ReadCapture, CauseInv, FiledWithCause, outcomes, gate
<1>2. CASE StartReplay
  <2>1. CASE Leave("skip", Unasked)
    BY <1>2, <2>1, CauseLeave DEF StartReplay
  <2>2. CASE stage' = "materialize" /\ UNCHANGED <<capture, only, outcomes, verdict, gate>>
    BY <1>2, <2>2 DEF StartReplay, CauseInv, FiledWithCause, Sanctioned, outcomes, gate
  <2> QED BY <1>2, <2>1, <2>2 DEF StartReplay
<1>3. CASE Materialize
  BY <1>3 DEF Materialize, CauseInv, FiledWithCause, Sanctioned, outcomes, gate
<1>4. CASE Gate
  <2>1. ASSUME NEW first, Leave(first, Unasked), first # "candidate" PROVE CauseInv'
    BY <1>4, <2>1, CauseLeave DEF Gate
  <2>2. CASE stage' = "cold" /\ UNCHANGED <<capture, only, outcomes, verdict, gate>>
             /\ capture.inside /\ ~Unfaithful
    BY <1>4, <2>2 DEF Gate, CauseInv, FiledWithCause, Sanctioned, Unfaithful, Shared, outcomes, gate
  <2> QED BY <1>4, <2>1, <2>2 DEF Gate
<1>5. CASE Reject
  BY <1>5, CauseLeave DEF Reject, Abandon
<1>6. CASE Idle \/ Closed
  BY <1>6, CauseContinue DEF Idle, Closed
<1>7. CASE Scan
  <2>1. /\ stage = "scan" /\ ~queued /\ ~logged
        /\ UNCHANGED <<capture, only, o1, verdict, caller, seen, queued, logged>>
    BY <1>7 DEF Scan, CauseInv, gate
  <2>2. CASE stage' = "compose" /\ o2' = (IF "orcl-02" \notin only THEN "skip" ELSE "no-target")
    BY <2>1, <2>2 DEF CauseInv, FiledWithCause, Predicates
  <2>3. CASE stage' = "failed" /\ UNCHANGED <<o2, found, policy>>
    BY <2>1, <2>3 DEF CauseInv, FiledWithCause
  <2>4. CASE /\ stage' = "compose"
             /\ o2' = IF policy' = "none" /\ found' # {} THEN "no-policy"
                      ELSE IF \A kind \in found' : Sanctioned(kind, policy') THEN "clean"
                      ELSE "cheat-flagged"
             /\ policy' \in {"none", "found"}
    <3>1. o2' \in {"no-policy", "clean", "cheat-flagged"}
      BY <2>4
    <3>2. o2' = "cheat-flagged" => policy' = "found" /\ \E kind \in found' : ~Sanctioned(kind, policy')
      BY <2>4
    <3> QED BY <2>1, <2>4, <3>1, <3>2 DEF CauseInv, FiledWithCause, Sanctioned
  <2> QED BY <1>7, <2>2, <2>3, <2>4 DEF Scan, ResolvePolicy
<1>8. CASE Compose
  BY <1>8 DEF Compose, CauseInv, FiledWithCause, Sanctioned, Callers, outcomes, gate
<1>9. CASE File
  BY <1>9 DEF File, CauseInv, FiledWithCause, Sanctioned, outcomes
<1>10. CASE ReplayStarts
  BY <1>10 DEF ReplayStarts, CauseInv, FiledWithCause, Sanctioned, outcomes
<1>11. CASE ReplayEnds
  BY <1>11 DEF ReplayEnds, CauseInv, FiledWithCause, Sanctioned, outcomes
<1>12. CASE Classify
  <2>1. /\ stage = "replay" /\ seen \in Seq(Observed) /\ Len(seen) = Rerun /\ verdict /\ only = Predicates
        /\ caller = "wrap-up" /\ o1 = "candidate" /\ capture.inside /\ capture.drift = "none"
        /\ ~queued /\ ~logged
    BY <1>12 DEF Classify, CauseInv
  <2>2. UNCHANGED <<caller, capture, only, o1, o2, found, policy, verdict, seen>>
    BY <1>12 DEF Classify, outcomes
  <2>3. CASE stage' = "done" /\ queued' = Stable(seen) /\ logged' = ~Stable(seen)
    <3>1. /\ Stable(seen) => Cardinality(ToSet(seen)) = 1 /\ "null" \notin ToSet(seen)
          /\ ~Stable(seen) => Cardinality(ToSet(seen)) > 1 \/ "null" \in ToSet(seen)
      BY <2>1, StableObserved
    <3>2. FiledWithCause'
      BY <2>1, <2>2, <2>3, <3>1 DEF FiledWithCause
    <3> QED BY <2>1, <2>2, <2>3, <3>2 DEF CauseInv, Sanctioned
  <2>4. CASE stage' = "failed" /\ UNCHANGED <<queued, logged>>
    BY <2>1, <2>2, <2>4 DEF CauseInv, FiledWithCause, Sanctioned
  <2> QED BY <1>12, <2>3, <2>4 DEF Classify
<1>13. CASE NextCapture
  BY <1>13 DEF NextCapture, CauseInv, FiledWithCause, NoCapture
<1>14. CASE Report
  BY <1>14 DEF Report, CauseInv, FiledWithCause, Sanctioned, outcomes, gate
<1> QED BY <1>1, <1>2, <1>3, <1>4, <1>5, <1>6, <1>7, <1>8, <1>9, <1>10, <1>11, <1>12, <1>13, <1>14
        DEF JudgeStep

LEMMA CauseStep ==
  ASSUME CauseInv, [LockNext]_allVars PROVE CauseInv'
<1>1. CASE AgdaPrints \/ AgdaEnds \/ ReadLine
  BY <1>1, CauseStays DEF AgdaPrints, AgdaEnds, ReadLine, gate
<1>2. CASE JudgeStep
  BY <1>2, CauseJudge
<1>3. CASE UNCHANGED judgeVars
  BY <1>3, CauseStays DEF judgeVars, outcomes
<1> QED BY <1>1, <1>2, <1>3 DEF LockNext, JudgeNext, allVars

LEMMA CauseAlways == LockSpec => []CauseInv
  BY CauseInit, CauseStep, PTL DEF LockSpec

-----------------------------------------------------------------------------
(* The rest of the types of the judgement.                                 *)
Working  == {"next", "start", "materialize", "gate", "cold", "scan", "compose", "file", "replay",
             "done", "failed", "lock", "report"}
Reported == {"uploaded", "not uploaded", "no report"}

JudgeRest ==
  /\ only \subseteq Predicates
  /\ stage \in Working \cup Reported
  /\ agda \in {"none", "up", "broken", "gone"} /\ pending \in Commands \cup {"none"}
  /\ scratch \subseteq {"cold", "half", "replay"}
  /\ o1 \in {"none", "skip", "pass", "candidate", "inconclusive"}
  /\ o2 \in {"none", "skip", "no-target", "no-policy", "clean", "cheat-flagged"}
  /\ o3 \in {"none", "excluded", "vacuous", "flagged", "consistent"}
  /\ found \subseteq Texts /\ policy \in {"none", "found"}
  /\ Len(seen) <= Rerun

(* The Boolean part, whose proofs are Zenon's.                             *)
JudgeFlags ==
  /\ killed \in BOOLEAN /\ harness \in BOOLEAN /\ verdict \in BOOLEAN
  /\ queued \in BOOLEAN /\ logged \in BOOLEAN

LEMMA JudgeRestInit == LockInit => JudgeRest
  BY RerunAssumption DEF LockInit, JudgeInit, JudgeRest, Callers, Predicates, Working, Commands

LEMMA JudgeRestLeave ==
  ASSUME JudgeRest, NEW first \in {"none", "skip", "pass", "candidate", "inconclusive"},
         NEW third \in {"excluded", "vacuous", "flagged", "consistent"}, Leave(first, third),
         Kill \/ UNCHANGED cold
  PROVE  JudgeRest'
  BY DEF JudgeRest, Leave, Working, Kill, cold, gate

LEMMA UnaskedTyped == Unasked \in {"excluded", "vacuous", "flagged", "consistent"}
  BY DEF Unasked

LEMMA JudgeRestContinue ==
  ASSUME JudgeRest, NEW lines, Continue(lines) PROVE JudgeRest'
<1>1. ASSUME Abandon PROVE JudgeRest'
  BY <1>1, JudgeRestLeave, UnaskedTyped DEF Abandon
<1>2. CASE AfterVersion
  BY <1>2 DEF AfterVersion, Send, JudgeRest, Working, Commands, outcomes, gate
<1>3. CASE AfterLoad(lines)
  <2>1. PICK first \in {"skip", "pass", "candidate"} :
          \/ Abandon
          \/ o1' = first /\ Send("infer")
             /\ UNCHANGED <<capture, only, stage, scratch, o2, o3, found, policy, verdict, gate>>
          \/ Kill /\ Leave(first, Unasked)
    BY <1>3 DEF AfterLoad
  <2>2. CASE o1' = first /\ Send("infer")
             /\ UNCHANGED <<capture, only, stage, scratch, o2, o3, found, policy, verdict, gate>>
    BY <2>2 DEF Send, JudgeRest, Working, Commands, gate
  <2>3. CASE Kill /\ Leave(first, Unasked)
    BY <2>3, JudgeRestLeave, UnaskedTyped
  <2> QED BY <1>1, <2>1, <2>2, <2>3
<1>4. CASE AfterInfer(lines)
  BY <1>4, JudgeRestLeave DEF AfterInfer, JudgeRest
<1> QED BY <1>2, <1>3, <1>4 DEF Continue

LEMMA ScanTyped ==
  ASSUME NEW tree \in [Files -> Texts], NEW resolved PROVE ScanClosure(tree, resolved) \subseteq Texts
  BY DEF ScanClosure, Stripped

LEMMA JudgeRestStep ==
  ASSUME JudgeRest, CauseInv, HoldInv, JudgeStep PROVE JudgeRest'
<1>1. CASE ReadCapture
  BY <1>1 DEF ReadCapture, JudgeRest, Working, cold, outcomes, gate
<1>2. CASE StartReplay
  <2>1. CASE Leave("skip", Unasked) /\ UNCHANGED cold
    BY <2>1, JudgeRestLeave, UnaskedTyped
  <2>2. CASE stage' = "materialize" /\ UNCHANGED <<only, scratch, outcomes, gate, cold>>
    BY <2>2 DEF JudgeRest, Working, cold, outcomes, gate
  <2> QED BY <1>2, <2>1, <2>2 DEF StartReplay
<1>3. CASE Materialize
  BY <1>3 DEF Materialize, JudgeRest, Working, cold, outcomes, gate
<1>4. CASE Gate
  <2>1. CASE UNCHANGED cold /\ Leave(IF Shared THEN "inconclusive" ELSE "skip", Unasked)
    BY <2>1, JudgeRestLeave, UnaskedTyped
  <2>2. CASE /\ agda' \in {"up", "broken"} /\ pending' = "version" /\ killed' = FALSE
             /\ UNCHANGED <<capture, only, scratch, outcomes, verdict, gate>> /\ stage' = "cold"
    BY <2>2 DEF JudgeRest, Working, Commands, outcomes, gate
  <2> QED BY <1>4, <2>1, <2>2 DEF Gate
<1>5. CASE Reject
  BY <1>5, JudgeRestLeave, UnaskedTyped DEF Reject, Abandon
<1>6. CASE Idle \/ Closed
  BY <1>6, JudgeRestContinue DEF Idle, Closed
<1>7. CASE Scan
  <2>1. UNCHANGED <<only, cold, scratch, o1, o3, verdict, gate>> /\ stage' \in {"compose", "failed"}
    BY <1>7 DEF Scan
  <2>2. o2' \in {"none", "skip", "no-target", "no-policy", "clean", "cheat-flagged"}
    BY <1>7 DEF Scan, JudgeRest
  <2>3. found' \subseteq Texts /\ policy' \in {"none", "found"}
    BY <1>7, ScanTyped DEF Scan, ResolvePolicy, JudgeRest
  <2> QED BY <2>1, <2>2, <2>3 DEF JudgeRest, Working, cold, gate
<1>8. CASE Compose
  BY <1>8 DEF Compose, JudgeRest, Working, CauseInv, Callers, cold, outcomes, gate
<1>9. CASE File
  BY <1>9 DEF File, JudgeRest, Working, cold, outcomes
<1>10. CASE ReplayStarts
  <2>1. UNCHANGED <<only, cold, outcomes, seen>>
    BY <1>10 DEF ReplayStarts
  <2>2. stage' \in {stage, "failed"} /\ scratch' \subseteq scratch \cup {"replay", "half"}
    BY <1>10 DEF ReplayStarts
  <2> QED BY <2>1, <2>2 DEF JudgeRest, Working, cold, outcomes
<1>11. CASE ReplayEnds
  <2>1. Len(seen') <= Rerun
    BY <1>11, RerunAssumption DEF ReplayEnds, JudgeRest, Working, HoldInv, CauseInv
  <2> QED BY <1>11, <2>1 DEF ReplayEnds, JudgeRest, Working, cold, outcomes
<1>12. CASE Classify
  BY <1>12 DEF Classify, JudgeRest, Working, cold, outcomes
<1>13. CASE NextCapture
  BY <1>13, RerunAssumption DEF NextCapture, JudgeRest, Working, Commands
<1>14. CASE Report
  <2>1. stage' \in Reported
    BY <1>14, Zenon DEF Report, Reported
  <2>2. UNCHANGED <<only, cold, scratch, outcomes, gate>>
    BY <1>14 DEF Report
  <2> QED BY <2>1, <2>2 DEF JudgeRest, cold, outcomes, gate
<1> QED BY <1>1, <1>2, <1>3, <1>4, <1>5, <1>6, <1>7, <1>8, <1>9, <1>10, <1>11, <1>12, <1>13, <1>14
        DEF JudgeStep

LEMMA FlagsContinue == ASSUME JudgeFlags, NEW lines, Continue(lines) PROVE JudgeFlags'
<1>1. UNCHANGED <<harness, verdict, queued, logged>>
  BY Zenon DEF Continue, AfterVersion, AfterLoad, AfterInfer, Abandon, Leave, gate
<1>2. killed' = killed \/ killed' = (agda # "none")
  BY Zenon DEF Continue, AfterVersion, AfterLoad, AfterInfer, Abandon, Send, Kill
<1> QED BY <1>1, <1>2, Zenon DEF JudgeFlags

LEMMA FlagsStep == JudgeFlags /\ [LockNext]_allVars => JudgeFlags'
<1> SUFFICES ASSUME JudgeFlags, [LockNext]_allVars PROVE JudgeFlags'
  OBVIOUS
<1>1. CASE AgdaPrints \/ AgdaEnds \/ ReadLine
  BY <1>1, Zenon DEF AgdaPrints, AgdaEnds, ReadLine, JudgeFlags, gate
<1>2. CASE ReadCapture \/ StartReplay \/ Materialize \/ Report
  BY <1>2, Zenon DEF ReadCapture, StartReplay, Materialize, Report, Leave, JudgeFlags, cold, gate
<1>3. CASE Gate
  BY <1>3, Zenon DEF Gate, Leave, JudgeFlags, cold, gate
<1>4. CASE Reject
  BY <1>4, Zenon DEF Reject, Abandon, Kill, Leave, JudgeFlags, gate
<1>5. CASE Idle \/ Closed
  BY <1>5, FlagsContinue, Zenon DEF Idle, Closed
<1>6. CASE Scan \/ Compose
  <2>1. UNCHANGED <<cold, gate>>
    BY <1>6 DEF Scan, Compose
  <2>2. CASE Compose
    BY <2>1, <2>2, Zenon DEF Compose, JudgeFlags, cold, gate
  <2>3. CASE Scan
    <3>1. UNCHANGED verdict
      BY <2>3 DEF Scan
    <3> QED BY <2>1, <3>1, Zenon DEF JudgeFlags, cold, gate
  <2> QED BY <1>6, <2>2, <2>3
<1>7. CASE File \/ ReplayStarts \/ ReplayEnds
  BY <1>7, Zenon DEF File, ReplayStarts, ReplayEnds, JudgeFlags, cold
<1>8. CASE Classify
  <2>1. Stable(seen) \in BOOLEAN
    BY Zenon DEF Stable
  <2> QED BY <1>8, <2>1, Zenon DEF Classify, JudgeFlags, cold
<1>9. CASE NextCapture
  <2>1. killed' = FALSE /\ verdict' = FALSE /\ queued' = FALSE /\ logged' = FALSE /\ UNCHANGED harness
    BY <1>9, Zenon DEF NextCapture
  <2> QED BY <2>1, Zenon DEF JudgeFlags
<1>10. CASE UNCHANGED judgeVars
  BY <1>10, Zenon DEF judgeVars, JudgeFlags
<1> QED BY <1>1, <1>2, <1>3, <1>4, <1>5, <1>6, <1>7, <1>8, <1>9, <1>10
        DEF LockNext, JudgeNext, JudgeStep, allVars

(* The state of a judgement is well typed, and there are no more replays   *)
(* than Rerun (classifyFlakiness).                                         *)
THEOREM JudgementTyped == LockSpec => []JudgeTypeOK
<1>1. HoldInv /\ CauseInv /\ JudgeRest /\ [LockNext]_allVars => JudgeRest'
  <2> SUFFICES ASSUME HoldInv, CauseInv, JudgeRest, [LockNext]_allVars PROVE JudgeRest'
    OBVIOUS
  <2>1. CASE AgdaPrints \/ AgdaEnds \/ ReadLine
    BY <2>1 DEF AgdaPrints, AgdaEnds, ReadLine, JudgeRest, outcomes, gate
  <2>2. CASE UNCHANGED judgeVars
    BY <2>2 DEF judgeVars, JudgeRest
  <2> QED BY <2>1, <2>2, JudgeRestStep DEF LockNext, JudgeNext, allVars
<1>2. CauseInv /\ JudgeRest /\ JudgeFlags => JudgeTypeOK
  <2> SUFFICES ASSUME CauseInv, JudgeRest, JudgeFlags PROVE JudgeTypeOK
    OBVIOUS
  <2>1. stage \in {"next", "start", "materialize", "gate", "cold", "scan", "compose", "file", "replay",
                   "done", "failed", "lock", "report", "uploaded", "not uploaded", "no report"}
    BY Zenon DEF JudgeRest, Working, Reported
  <2>2. {killed, harness, verdict, queued, logged} \subseteq BOOLEAN
    BY Zenon DEF JudgeFlags
  <2>3. caller \in Callers /\ capture \in Captures /\ seen \in Seq(Observed)
    BY Zenon DEF CauseInv
  <2> QED BY <2>1, <2>2, <2>3, Zenon DEF JudgeRest, JudgeTypeOK
<1>3. LockInit => JudgeFlags
  BY Zenon DEF LockInit, JudgeInit, JudgeFlags
<1>4. JudgeFlags /\ [LockNext]_allVars => JudgeFlags'
  BY FlagsStep
<1> QED BY <1>1, <1>2, <1>3, <1>4, HoldAlways, CauseAlways, JudgeRestInit, PTL DEF LockSpec

-----------------------------------------------------------------------------
LEMMA LockInvInit == LockInit => LockInv
  BY DEF LockInit, LockInv

(* A judgement that waits for emit-regression is over.                     *)
LEMMA JudgementStands ==
  ASSUME JudgeNext, stage = "lock", caller # "wrap-up"
  PROVE  UNCHANGED <<stage, o1, o2, verdict>>
<1>1. ~JudgeStep
  BY DEF JudgeStep, ReadCapture, StartReplay, Materialize, Gate, Reject, Idle, Closed, Scan, Compose, File,
         ReplayStarts, ReplayEnds, Classify, NextCapture, Report
<1> QED BY <1>1 DEF JudgeNext, AgdaPrints, AgdaEnds, ReadLine, outcomes

LEMMA LockJudge ==
  ASSUME LockInv, CauseInv, JudgeNext, UNCHANGED lockVars PROVE LockInv'
<1>1. UNCHANGED <<lock, emit, written, disk, matrix, red>>
  BY DEF lockVars
<1>2. CASE lock \in {"materialize", "compose", "persist", "dry run", "locked"}
  <2>1. stage = "lock" /\ caller # "wrap-up"
    BY <1>2 DEF LockInv, CauseInv
  <2>2. UNCHANGED <<stage, o1, o2, verdict>>
    BY <2>1, JudgementStands
  <2> QED BY <1>1, <2>2 DEF LockInv, NotLockable
<1>3. CASE lock \notin {"materialize", "compose", "persist", "dry run", "locked"}
  BY <1>1, <1>3 DEF LockInv
<1> QED BY <1>2, <1>3

(* A rollback takes back nothing an entry needs: there is no new entry yet.*)
LEMMA LockAbort ==
  ASSUME LockInv, Abort, lock # "locked" PROVE LockInv'
  BY DEF LockInv, Abort

LEMMA LockEmit ==
  ASSUME LockInv, EmitStep, UNCHANGED judgeVars PROVE LockInv'
<1>1. UNCHANGED <<stage, o1, o2>> /\ NotLockable' = NotLockable
  BY DEF judgeVars, NotLockable
<1>2. CASE JudgeRefusal
  BY <1>1, <1>2 DEF JudgeRefusal, LockInv
<1>3. CASE MaterializeFixtures
  BY <1>1, <1>3 DEF MaterializeFixtures, LockInv
<1>4. CASE ReplayEntry
  <2>1. CASE Abort
    BY <1>4, <2>1, LockAbort DEF ReplayEntry
  <2>2. CASE /\ lock' = IF emit.dryRun THEN "dry run" ELSE "persist"
             /\ red' = TRUE /\ UNCHANGED <<emit, written, disk, matrix>>
    BY <1>1, <1>4, <2>2 DEF ReplayEntry, LockInv
  <2> QED BY <1>4, <2>1, <2>2 DEF ReplayEntry, Evidence
<1>5. CASE DryRun
  BY <1>5, LockAbort DEF DryRun
<1>6. CASE WriteMatrixEntry
  <2>1. CASE Abort
    BY <1>6, <2>1, LockAbort DEF WriteMatrixEntry
  <2> DEFINE new == [id |-> emit.id, dir |-> emit.dir, needs |-> written]
  <2>2. CASE /\ matrix' = matrix \cup {new} /\ lock' = "locked"
             /\ UNCHANGED <<emit, written, disk, red>>
    <3>1. new.needs \subseteq disk' /\ matrix = {OldEntry}
      BY <1>6, <2>2 DEF WriteMatrixEntry, LockInv
    <3> HIDE DEF new
    <3> QED BY <1>1, <1>6, <2>2, <3>1 DEF WriteMatrixEntry, LockInv
  <2> QED BY <1>6, <2>1, <2>2 DEF WriteMatrixEntry
<1> QED BY <1>2, <1>3, <1>4, <1>5, <1>6 DEF EmitStep

LEMMA LockStep ==
  ASSUME LockInv, CauseInv, [LockNext]_allVars PROVE LockInv'
<1>1. CASE JudgeNext /\ UNCHANGED lockVars
  BY <1>1, LockJudge
<1>2. CASE EmitStep /\ UNCHANGED judgeVars
  BY <1>2, LockEmit
<1>3. CASE UNCHANGED allVars
  BY <1>3 DEF allVars, lockVars, judgeVars, LockInv, NotLockable
<1> QED BY <1>1, <1>2, <1>3 DEF LockNext

(* A queue entry and an entry of the regression matrix have a cause,       *)
(* whatever the oracle finds, however the replays and the writes go.       *)
THEOREM Caused == LockSpec => []RecordedWithCause
<1>1. LockInit => CauseInv /\ LockInv
  BY CauseInit, LockInvInit
<1>2. (CauseInv /\ LockInv) /\ [LockNext]_allVars => (CauseInv /\ LockInv)'
  BY CauseStep, LockStep
<1>3. CauseInv /\ LockInv => RecordedWithCause
  <2> SUFFICES ASSUME CauseInv, LockInv, NEW new \in matrix \ {OldEntry}
               PROVE  /\ verdict /\ o1 = "candidate" /\ o2 \in {"clean", "no-target"}
                      /\ red /\ ~emit.dryRun /\ new.needs \subseteq disk
    BY DEF RecordedWithCause, CauseInv
  <2>1. lock = "locked"
    BY DEF LockInv
  <2>2. stage = "lock" /\ ~NotLockable /\ red /\ ~emit.dryRun /\ new.needs \subseteq disk
    BY <2>1 DEF LockInv
  <2>3. verdict /\ caller = "emit" /\ o2 \in {"no-target", "no-policy", "clean", "cheat-flagged"}
    BY <2>2 DEF CauseInv, Scanned
  <2> QED BY <2>2, <2>3 DEF NotLockable
<1> QED BY <1>1, <1>2, <1>3, PTL DEF LockSpec
=============================================================================
