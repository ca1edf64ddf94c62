----------------------------- MODULE AreteProofs -----------------------------
(***************************************************************************)
(* Proofs about the whole chain, for all values of its constants:          *)
(*   ChainImplements  every behaviour of the chain is, seen from the       *)
(*                    BackupRepository, one of BackupRepository: what is   *)
(*                    proved there holds here;                             *)
(*   ClaimIsCurrent   the claimed backup is never behind the bucket;       *)
(*   EmptyIsEmpty     if the first LIST and the inventory do not fail, the *)
(*                    manifest for an empty repository is not applied to   *)
(*                    one that has a backup.                               *)
(***************************************************************************)
EXTENDS Arete, BackupRepositoryProofs, WellFoundedInduction

-----------------------------------------------------------------------------
(* The BackupRepository in the chain                                       *)

(* A step of the chain is a step of the BackupRepository or leaves it      *)
(* alone.                                                                  *)
LEMMA ChainStep == AreteNext => [Next]_vars
<1> SUFFICES ASSUME AreteNext PROVE [Next]_vars
  OBVIOUS
<1> USE DEF repository
<1>1. CASE Probe
  <2>1. UNCHANGED now
    BY <1>1 DEF Probe, S3!probeRepository, S3!checkReachability,
                S3!listSentinels, S3!getSentinel,
                S3!readResticLatestSnapshotTime, S3!runInventoryProbe
  <2> QED
    BY <1>1, <2>1 DEF Probe, vars
<1>2. CASE BeginWithProbe
  BY <1>2 DEF BeginWithProbe, Next, Reconcile
<1>3. CASE Work
  BY <1>3 DEF Work, Next
<1>4. CASE PublishStatus
  BY <1>4 DEF PublishStatus, Next, Reconcile
<1>5. CASE Conditional \/ Requeue
  BY <1>5 DEF Conditional, Decide, Materialise, Requeue, vars
<1>6. CASE Cluster
  BY <1>6 DEF Cluster, Next, Environment
<1>7. CASE Produce
  <2>1. UNCHANGED now
    BY <1>7 DEF Produce, S3!Producer, S3!WriteData, S3!FinishBackup, S3!Retain
  <2> QED
    BY <1>7, <2>1 DEF Produce, vars
<1> QED
  BY <1>1, <1>2, <1>3, <1>4, <1>5, <1>6, <1>7 DEF AreteNext, Repository

(* Seen from the BackupRepository, every behaviour of the chain is one of  *)
(* BackupRepository, where the probe is a single step: its calls may be    *)
(* interleaved with the producer's writes without a new behaviour.         *)
THEOREM ChainImplements == AreteSpec => Spec
<1>1. AreteInit => Init
  BY DEF AreteInit
<1>2. [AreteNext]_avars => [Next]_vars
  BY ChainStep DEF avars
<1> QED
  BY <1>1, <1>2, PTL DEF AreteSpec, Spec

-----------------------------------------------------------------------------
(* What a probe finds                                                      *)

(* A mark is the time of a backup that has ended, and data came before it. *)
BucketInv ==
  /\ now >= 1
  /\ bucket \in [data : BOOLEAN, marks : SUBSET (1..now)]
  /\ bucket.marks # {} => bucket.data
  /\ before \in Nat /\ (before # 0 => bucket.data)

(* A time is unset or not behind the newest backup that was complete when  *)
(* the probe began.                                                        *)
NotBehind(t) == t \in Nat /\ (t = 0 \/ t >= before)

(* Until the marks were looked at one of them is as new as that backup:    *)
(* retention removes a mark only for a newer one.                          *)
ProbeInv ==
  /\ phase \in {"idle", "sentinels", "get", "inventory", "done"}
  /\ phase \in {"sentinels", "get"} /\ before # 0 =>
       \E m \in bucket.marks : m >= before
  /\ phase = "get" => NotBehind(listed)
  /\ phase # "idle" =>
       /\ result \in [reach : BOOLEAN, sec : BOOLEAN, last : Nat,
                      inv : {"none", "zero", "small"}]
       /\ NotBehind(result.last)
  /\ pc # "idle" => phase = "idle" /\ NotBehind(rec.probe.last)

ChainInv == TypeOK /\ BucketInv /\ ProbeInv

(* A bounded set of numbers that is not empty has a largest one.           *)
LEMMA LargestExists ==
  ASSUME NEW n \in Nat, NEW S \in SUBSET (1..n), S # {}
  PROVE  \E x \in S : \A y \in S : x >= y
<1> DEFINE T == {m \in Nat : \E x \in S : m = n - x}
<1>1. PICK x0 \in S : TRUE
  OBVIOUS
<1> DEFINE R == OpToRel(<, Nat)
<1>2. IsWellFoundedOn(R, Nat)
  BY NatLessThanWellFounded, Zenon
<1>3. R = {p \in Nat \X Nat : p[1] < p[2]}
  BY Zenon DEF OpToRel
<1>4. /\ T \subseteq Nat /\ \A m \in T : \E x \in S : m = n - x
      /\ \A x \in S : x \in Nat /\ n - x \in T
  OBVIOUS
<1> HIDE DEF R, T
<1>5. PICK m \in T : \A k \in T : ~(<<k, m>> \in R)
  BY <1>1, <1>2, <1>4, WFMin
<1>6. ASSUME NEW k \in T PROVE k >= m
  <2>1. k \in Nat /\ m \in Nat
    BY <1>4
  <2>2. ~(<<k, m>> \in R)
    BY <1>5
  <2>3. ~(k < m)
    BY <1>3, <2>1, <2>2
  <2> QED
    BY <2>1, <2>3
<1>7. PICK x \in S : m = n - x
  BY <1>4
<1>8. ASSUME NEW y \in S PROVE x >= y
  <2>1. n - y >= n - x
    BY <1>4, <1>6, <1>7
  <2>2. x \in Nat /\ y \in Nat
    BY <1>4
  <2> QED
    BY <2>1, <2>2
<1> QED
  BY <1>8

(* Max is that number.                                                     *)
LEMMA MaxIsLargest ==
  ASSUME NEW n \in Nat, NEW S \in SUBSET (1..n), S # {}
  PROVE  S3!Max(S) \in S /\ \A y \in S : S3!Max(S) >= y
<1>1. \E x \in S : \A y \in S : x >= y
  BY LargestExists
<1> QED
  BY <1>1 DEF S3!Max

(* The newest mark is not behind.                                          *)
LEMMA NewestIsNotBehind ==
  ASSUME now \in Nat, BucketInv,
         before # 0 => \E m \in bucket.marks : m >= before
  PROVE  NotBehind(S3!newestOf(bucket.marks))
<1>1. bucket.marks \in SUBSET (1..now) /\ before \in Nat
  BY DEF BucketInv
<1>2. CASE bucket.marks = {}
  BY <1>2 DEF S3!newestOf, NotBehind
<1>3. CASE bucket.marks # {}
  <2> DEFINE x == S3!Max(bucket.marks)
  <2>1. x \in bucket.marks /\ \A y \in bucket.marks : x >= y
    BY <1>1, <1>3, MaxIsLargest
  <2>2. S3!newestOf(bucket.marks) = x
    BY <1>3 DEF S3!newestOf
  <2> HIDE DEF x
  <2>3. x \in Nat /\ (before = 0 \/ x >= before)
    BY <1>1, <2>1
  <2> QED
    BY <1>1, <2>2, <2>3 DEF NotBehind
<1> QED
  BY <1>2, <1>3

(* A step of the producer keeps the bucket in order.                       *)
LEMMA ProducerKeeps ==
  ASSUME ChainInv, Produce
  PROVE  BucketInv' /\ ProbeInv'
<1> DEFINE marks == bucket.marks
<1>1. /\ UNCHANGED <<now, phase, listed, result, before, pc, rec>>
      /\ S3!WriteData \/ S3!FinishBackup \/ S3!Retain
  BY DEF Produce, repository, S3!Producer, S3!WriteData, S3!FinishBackup,
         S3!Retain, S3!probe
<1>2. /\ bucket \in [data : BOOLEAN, marks : SUBSET (1..now)]
      /\ marks \in SUBSET (1..now) /\ now \in Nat /\ now >= 1
      /\ (marks # {} => bucket.data)
      /\ before \in Nat /\ (before # 0 => bucket.data)
  BY DEF ChainInv, BucketInv, TypeOK, Time
<1>3. /\ bucket' \in [data : BOOLEAN, marks : SUBSET (1..now)]
      /\ bucket'.marks # {} => bucket'.data
      /\ bucket.data => bucket'.data
      /\ \A m \in marks : \E k \in bucket'.marks : k >= m
  <2>1. CASE S3!WriteData
    <3>1. bucket' = [bucket EXCEPT !.data = TRUE]
      BY <2>1 DEF S3!WriteData
    <3>2. /\ bucket'.marks = marks /\ bucket'.data = TRUE
          /\ bucket' \in [data : BOOLEAN, marks : SUBSET (1..now)]
      BY <1>2, <3>1
    <3>3. \A m \in marks : m \in Nat /\ m >= m
      BY <1>2
    <3> QED
      BY <3>2, <3>3
  <2>2. CASE S3!FinishBackup
    <3>1. bucket' = [bucket EXCEPT !.marks = @ \cup {now}] /\ bucket.data
      BY <2>2 DEF S3!FinishBackup
    <3> QED
      BY <1>2, <3>1
  <2>3. CASE S3!Retain
    <3>1. PICK o \in marks, p \in marks :
            o < p /\ bucket' = [bucket EXCEPT !.marks = @ \ {o}]
      BY <2>3 DEF S3!Retain
    <3>2. bucket'.marks = marks \ {o} /\ bucket'.data = bucket.data
          /\ bucket' \in [data : BOOLEAN, marks : SUBSET (1..now)]
      BY <1>2, <3>1
    <3>3. ASSUME NEW m \in marks PROVE \E k \in marks \ {o} : k >= m
      <4>1. m \in Nat /\ o \in Nat /\ p \in Nat /\ p # o
        BY <1>2, <3>1
      <4>2. CASE m = o
        BY <3>1, <4>1, <4>2
      <4>3. CASE m # o
        BY <4>1, <4>3
      <4> QED
        BY <4>2, <4>3
    <3> QED
      BY <1>2, <3>2, <3>3
  <2> QED
    BY <1>1, <2>1, <2>2, <2>3
<1>4. BucketInv'
  BY <1>1, <1>2, <1>3 DEF BucketInv
<1>5. ASSUME NEW m \in marks, m >= before
      PROVE  \E k \in bucket'.marks : k >= before
  <2>1. PICK k \in bucket'.marks : k >= m
    BY <1>3
  <2>2. k \in Nat /\ m \in Nat
    BY <1>2, <1>3
  <2> QED
    BY <1>2, <1>5, <2>1, <2>2
<1>6. ProbeInv'
  BY <1>1, <1>5 DEF ChainInv, ProbeInv, NotBehind
<1> QED
  BY <1>4, <1>6

(* A call of the probe keeps what it has found not behind.                 *)
LEMMA ProbeKeeps ==
  ASSUME ChainInv, Probe
  PROVE  BucketInv' /\ ProbeInv'
<1> DEFINE marks == bucket.marks
           R == [reach : BOOLEAN, sec : BOOLEAN, last : Nat,
                 inv : {"none", "zero", "small"}]
<1>1. /\ pc = "idle" /\ UNCHANGED <<pc, rec>>
      /\ S3!probeRepository
  BY DEF Probe, repository
<1>2. /\ marks \in SUBSET (1..now) /\ now \in Nat /\ now >= 1
      /\ (marks # {} => bucket.data)
      /\ before \in Nat /\ (before # 0 => bucket.data)
  BY DEF ChainInv, BucketInv, TypeOK, Time
<1>3. S3!Outcomes("list") \subseteq BOOLEAN
      /\ S3!Outcomes("security") \subseteq BOOLEAN
  BY DEF S3!Outcomes
<1>4. CASE S3!checkReachability
  <2>1. PICK ok \in S3!Outcomes("list"), sec \in S3!Outcomes("security") :
          /\ result' = [S3!NoResult EXCEPT !.reach = ok, !.sec = ok /\ sec]
          /\ phase' = IF ok THEN "sentinels" ELSE "done"
    BY <1>4 DEF S3!checkReachability
  <2>2. result' \in R /\ result'.last = 0 /\ phase' \in {"sentinels", "done"}
    BY <1>3, <2>1 DEF S3!NoResult
  <2>3. /\ before' = (IF marks = {} THEN 0 ELSE S3!Max(marks))
        /\ UNCHANGED <<now, bucket>>
    BY <1>4 DEF S3!checkReachability
  <2>4. before' \in Nat /\ (before' # 0 => before' \in marks)
    <3>1. CASE marks = {}
      BY <2>3, <3>1
    <3>2. CASE marks # {}
      <4>1. S3!Max(marks) \in marks
        BY <1>2, <3>2, MaxIsLargest
      <4> QED
        BY <1>2, <2>3, <3>2, <4>1
    <3> QED
      BY <3>1, <3>2
  <2>5. BucketInv'
    BY <1>2, <2>3, <2>4 DEF BucketInv, ChainInv
  <2>6. ProbeInv'
    BY <1>1, <1>2, <2>2, <2>3, <2>4 DEF ProbeInv, NotBehind
  <2> QED
    BY <2>5, <2>6
<1>5. ASSUME UNCHANGED <<now, bucket, before>>
      PROVE  BucketInv'
  BY <1>5 DEF ChainInv, BucketInv
<1>6. CASE S3!listSentinels
  <2>1. /\ phase = "sentinels" /\ phase' \in {"get", "inventory"}
        /\ listed' \in {0, S3!newestOf(marks)}
        /\ UNCHANGED <<now, bucket, result, before>>
    BY <1>6 DEF S3!listSentinels
  <2>2. NotBehind(S3!newestOf(marks)) /\ NotBehind(0)
    BY <1>2, <2>1, NewestIsNotBehind DEF ChainInv, ProbeInv, NotBehind
  <2>3. NotBehind(listed)'
    BY <2>1, <2>2 DEF NotBehind
  <2>4. ProbeInv'
    BY <1>1, <2>1, <2>3 DEF ChainInv, ProbeInv, NotBehind
  <2> QED
    BY <1>5, <2>1, <2>4
<1>7. CASE S3!getSentinel
  <2>1. /\ phase = "get" /\ phase' = "inventory"
        /\ result' \in {result, [result EXCEPT !.last = listed]}
        /\ UNCHANGED <<now, bucket, before>>
    BY <1>7 DEF S3!getSentinel
  <2>2. result' \in R /\ result'.last \in {result.last, listed}
    BY <2>1 DEF ChainInv, ProbeInv, NotBehind
  <2>3. ProbeInv'
    BY <1>1, <2>1, <2>2 DEF ChainInv, ProbeInv, NotBehind
  <2> QED
    BY <1>5, <2>1, <2>3
<1>8. CASE S3!readResticLatestSnapshotTime
  <2> DEFINE t == S3!newestOf(marks)
  <2>1. /\ phase = "sentinels" /\ phase' = "inventory"
        /\ result' \in {result, [result EXCEPT !.last = t]}
        /\ UNCHANGED <<now, bucket, before>>
    BY <1>8 DEF S3!readResticLatestSnapshotTime
  <2>2. NotBehind(t)
    BY <1>2, <2>1, NewestIsNotBehind DEF ChainInv, ProbeInv
  <2> HIDE DEF t
  <2>3. result' \in R /\ result'.last \in {result.last, t}
    BY <2>1, <2>2 DEF ChainInv, ProbeInv, NotBehind
  <2>4. ProbeInv'
    BY <1>1, <2>1, <2>2, <2>3 DEF ChainInv, ProbeInv, NotBehind
  <2> QED
    BY <1>5, <2>1, <2>4
<1>9. CASE S3!runInventoryProbe
  <2>1. /\ phase = "inventory" /\ phase' = "done"
        /\ \E v \in {"none", "zero", "small"} :
             result' = [result EXCEPT !.inv = v]
        /\ UNCHANGED <<now, bucket, before>>
    BY <1>9 DEF S3!runInventoryProbe
  <2>2. result' \in R /\ result'.last = result.last
    BY <2>1 DEF ChainInv, ProbeInv
  <2>3. ProbeInv'
    BY <1>1, <2>1, <2>2 DEF ChainInv, ProbeInv, NotBehind
  <2> QED
    BY <1>5, <2>1, <2>3
<1> QED
  BY <1>1, <1>4, <1>6, <1>7, <1>8, <1>9 DEF S3!probeRepository

(* Between the probe and the status write a reconcile leaves the probe's   *)
(* result and the status alone.                                            *)
LEMMA WorkKeeps ==
  ASSUME TypeOK, Work
  PROVE  /\ pc # "idle"
         /\ pc' = "idle" \/ rec'.probe = rec.probe
         /\ UNCHANGED <<now, claimed, inventory, store, brc, basis>>
<1>1. /\ pc \notin {"idle", "apply"} /\ Reconcile
      /\ UNCHANGED <<store, brc, basis>>
  BY DEF Work
<1>2. ProcessE2 \/ ProcessE3 \/ PanicE3 \/ ProcessE4 \/ ClearForceE4Annotation
  BY <1>1 DEF Reconcile, Begin, TolerateMissingCredentials,
              RecordCredentialsFailure, ApplyStatus, ApplyStatusFails
<1>3. pc' = "idle" \/ rec'.probe = rec.probe
  BY <1>2 DEF ProcessE2, ProcessE3, PanicE3, ProcessE4,
              ClearForceE4Annotation, ListFails, ProcessLevel, TypeOK, RecType
<1>4. UNCHANGED <<now, claimed, inventory>>
  BY <1>2 DEF ProcessE2, ProcessE3, PanicE3, ProcessE4,
              ClearForceE4Annotation, status
<1> QED
  BY <1>1, <1>3, <1>4

(* Every step of the chain keeps the claim from falling behind.            *)
LEMMA ChainPreserved ==
  ASSUME ChainInv, [AreteNext]_avars
  PROVE  ChainInv'
<1>0. TypeOK'
  BY ChainStep, TypePreserved DEF ChainInv, avars
<1>1. CASE Probe
  BY <1>0, <1>1, ProbeKeeps DEF ChainInv
<1>2. CASE Produce
  BY <1>0, <1>2, ProducerKeeps DEF ChainInv
<1>3. CASE BeginWithProbe
  <2>1. /\ phase = "done" /\ phase' = "idle" /\ rec'.probe = result
        /\ UNCHANGED <<now, bucket, before>>
    BY <1>3 DEF BeginWithProbe, Begin
  <2>2. BucketInv'
    BY <2>1 DEF ChainInv, BucketInv
  <2>3. ProbeInv'
    BY <2>1 DEF ChainInv, ProbeInv, NotBehind
  <2> QED
    BY <1>0, <2>2, <2>3 DEF ChainInv
<1>4. CASE Work
  <2>1. UNCHANGED <<now, bucket, phase, listed, result, before>>
    BY <1>4, WorkKeeps DEF store, ChainInv
  <2>2. pc # "idle" /\ (pc' = "idle" \/ rec'.probe = rec.probe)
    BY <1>4, WorkKeeps DEF ChainInv
  <2>3. BucketInv'
    BY <2>1 DEF ChainInv, BucketInv
  <2>4. ProbeInv'
    BY <2>1, <2>2 DEF ChainInv, ProbeInv, NotBehind
  <2> QED
    BY <1>0, <2>3, <2>4 DEF ChainInv
<1>5. CASE PublishStatus
  <2>1. /\ pc = "apply" /\ pc' = "idle" /\ before' = 0
        /\ UNCHANGED <<now, bucket, phase, listed, result>>
    BY <1>5 DEF PublishStatus, ApplyStatus
  <2>2. BucketInv'
    BY <2>1 DEF ChainInv, BucketInv
  <2>3. ProbeInv'
    BY <2>1 DEF ChainInv, ProbeInv, NotBehind
  <2> QED
    BY <1>0, <2>2, <2>3 DEF ChainInv
<1>6. CASE Conditional \/ Requeue \/ UNCHANGED avars
  <2>1. UNCHANGED <<now, bucket, phase, listed, result, before, pc, rec>>
    BY <1>6 DEF Conditional, Decide, Materialise, Requeue, avars, vars, store
  <2>2. BucketInv'
    BY <2>1 DEF ChainInv, BucketInv
  <2>3. ProbeInv'
    BY <2>1 DEF ChainInv, ProbeInv, NotBehind
  <2> QED
    BY <1>0, <2>2, <2>3 DEF ChainInv
<1>7. CASE Cluster
  <2>1. /\ now' \in {now, now + 1}
        /\ UNCHANGED <<bucket, phase, listed, result, before, pc, rec>>
    BY <1>7 DEF Cluster, Tick, FinishJob, ExpireJob, store
  <2>2. now \in Nat /\ now >= 1
    BY DEF ChainInv, BucketInv, TypeOK, Time
  <2>3. BucketInv'
    BY <2>1, <2>2 DEF ChainInv, BucketInv
  <2>4. ProbeInv'
    BY <2>1 DEF ChainInv, ProbeInv, NotBehind
  <2> QED
    BY <1>0, <2>3, <2>4 DEF ChainInv
<1> QED
  BY <1>1, <1>2, <1>3, <1>4, <1>5, <1>6, <1>7 DEF AreteNext, Repository

(* The invariant of the probe holds throughout.                            *)
LEMMA ChainInvariant == AreteSpec => []ChainInv
<1>1. AreteInit => ChainInv
  <2> SUFFICES ASSUME AreteInit PROVE ChainInv
    OBVIOUS
  <2>1. TypeOK
    BY TypeInit DEF AreteInit
  <2>2. BucketInv
    BY DEF AreteInit, Init, BucketInv, S3!EmptyBucket
  <2>3. ProbeInv
    BY DEF AreteInit, Init, ProbeInv
  <2> QED
    BY <2>1, <2>2, <2>3 DEF ChainInv
<1>2. ChainInv /\ [AreteNext]_avars => ChainInv'
  BY ChainPreserved
<1> QED
  BY <1>1, <1>2, PTL DEF AreteSpec

(* claimedLastSuccessfulBackup is never set to a time before the newest    *)
(* backup that was complete when its probe began, for both formats and     *)
(* whatever fails, is written or is retained between the probe's calls.    *)
THEOREM ClaimIsCurrent == AreteSpec => ClaimKeepsUp
<1>1. ASSUME ChainInv, [AreteNext]_avars, claimed' # claimed
      PROVE  claimed' = Nil \/ claimed' >= before
  <2>1. [Next]_vars
    BY <1>1, ChainStep DEF avars
  <2>2. ApplyStatus
    BY <1>1, <2>1
    DEF Next, Reconcile, Environment, Begin, TolerateMissingCredentials,
        RecordCredentialsFailure, ProcessE2, ProcessE3, PanicE3, ProcessE4,
        ClearForceE4Annotation, ApplyStatusFails, Tick, FinishJob,
        ExpireJob, AnnotateForceRevalidate, AnnotateForceE4, EditSpec,
        ChangeSecret, Crash, vars, status
  <2>3. pc = "apply" /\ claimed' = rec.probe.last
    BY <2>2 DEF ApplyStatus
  <2> QED
    BY <1>1, <2>3 DEF ChainInv, ProbeInv, NotBehind, Nil
<1>2. ChainInv /\ [AreteNext]_avars =>
        [claimed' # claimed => claimed' = Nil \/ claimed' >= before]_avars
  BY <1>1
<1> QED
  BY <1>2, ChainInvariant, PTL DEF AreteSpec, ClaimKeepsUp

-----------------------------------------------------------------------------
(* The empty repository                                                    *)

(* The first LIST and the inventory of a probe do not fail.                *)
InventoryKnown == S3Faults \cap {"list", "inventory"} = {}

(* The inventory of a probe before which a backup was complete, or not.    *)
Counts(inv, complete) == inv # "none" /\ (complete => inv # "zero")

IsRec(r) == r \in [br : {r.br}, slot : {r.slot}, ref : {r.ref},
                   manifest : {r.manifest}, retry : {r.retry}, st : {r.st}]

(* The inventory passes from the probe to the status, and from there to    *)
(* the decision, together with what is known of the backups.               *)
EmptyInv ==
  /\ phase = "done" => Counts(result.inv, before # 0)
  /\ pc # "idle" => Counts(rec.probe.inv, before # 0)
  /\ basis \in [status : BOOLEAN, decision : BOOLEAN]
  /\ basis.status => inventory # "zero"
  /\ cpc = "read" => IsRec(crec)
  /\ cpc \in {"read", "apply"} /\ basis.decision => crec.slot # "whenEmpty"

(* The inventory of a bucket that holds a backup is not empty.             *)
LEMMA ProbeCounts ==
  ASSUME InventoryKnown, ChainInv, EmptyInv, Probe
  PROVE  phase' = "done" => Counts(result'.inv, before' # 0)
<1>1. ASSUME phase' = "done" PROVE S3!runInventoryProbe
  <2>1. S3!Outcomes("list") = {TRUE}
    BY DEF S3!Outcomes, InventoryKnown
  <2> QED
    BY <1>1, <2>1
    DEF Probe, S3!probeRepository, S3!checkReachability, S3!listSentinels,
        S3!getSentinel, S3!readResticLatestSnapshotTime
<1>2. ASSUME S3!runInventoryProbe
      PROVE  Counts(result'.inv, before' # 0)
  <2>1. S3!Outcomes("inventory") = {TRUE}
    BY DEF S3!Outcomes, InventoryKnown
  <2> DEFINE v == IF bucket = S3!EmptyBucket THEN "zero" ELSE "small"
  <2>2. result' = [result EXCEPT !.inv = v] /\ before' = before
    BY <1>2, <2>1 DEF S3!runInventoryProbe
  <2>3. phase = "inventory"
    BY <1>2 DEF S3!runInventoryProbe
  <2>4. before # 0 => v # "zero"
    BY DEF ChainInv, BucketInv, S3!EmptyBucket
  <2>5. v # "none"
    OBVIOUS
  <2> HIDE DEF v
  <2>6. result'.inv = v
    BY <2>2, <2>3 DEF ChainInv, ProbeInv
  <2> QED
    BY <2>2, <2>4, <2>5, <2>6 DEF Counts
<1> QED
  BY <1>1, <1>2

(* A repository whose inventory is not zero is not taken to be empty.      *)
LEMMA NotDerivedEmpty ==
  ASSUME TypeOK, inventory # "zero", C!ChooseVariant
  PROVE  /\ IsRec(crec') /\ crec'.slot # "whenEmpty"
<1> DEFINE b == [found |-> TRUE, backup |-> claimed # Nil, inv |-> objectCount,
                 healthy |-> Healthy]
<1>1. objectCount # "zero"
  BY DEF objectCount
<1>2. C!deriveBRState(b) \in {"healthy", "degraded"}
  BY <1>1 DEF C!deriveBRState
<1>3. C!slotOf[C!deriveBRState(b)] # "whenEmpty"
  BY <1>2 DEF C!slotOf
<1>4. \E r, s : crec' = [C!IdleRec EXCEPT !.br = b,
                           !.slot = C!slotOf[C!deriveBRState(b)],
                           !.ref = r, !.st = s]
  BY DEF C!ChooseVariant
<1> HIDE DEF b
<1>5. PICK r, s : crec' = [C!IdleRec EXCEPT !.br = b,
                             !.slot = C!slotOf[C!deriveBRState(b)],
                             !.ref = r, !.st = s]
  BY <1>4
<1>6. IsRec(crec') /\ crec'.slot = C!slotOf[C!deriveBRState(b)]
  BY <1>5 DEF IsRec, C!IdleRec
<1> QED
  BY <1>3, <1>6

(* A reconcile of the BRC starts from the status as it is.                 *)
LEMMA DecideKeeps ==
  ASSUME ChainInv, EmptyInv, Decide
  PROVE  EmptyInv'
<1>1. /\ UNCHANGED <<pc, rec, inventory, phase, result, before>>
      /\ basis' = [basis EXCEPT !.decision = basis.status]
      /\ \/ C!ReportMissingRepository \/ C!PreserveDecision
         \/ C!RefuseState \/ C!ChooseVariant
  BY DEF Decide, vars, store, status
<1>2. /\ basis' \in [status : BOOLEAN, decision : BOOLEAN]
      /\ basis'.status = basis.status /\ basis'.decision = basis.status
  BY <1>1 DEF EmptyInv
<1>3. C!ChooseVariant \/ cpc' = "patch"
  BY <1>1 DEF C!ReportMissingRepository, C!PreserveDecision, C!RefuseState
<1>4. ASSUME C!ChooseVariant
      PROVE  IsRec(crec') /\ (basis.status => crec'.slot # "whenEmpty")
  <2>1. CASE basis.status
    BY <1>4, <2>1, NotDerivedEmpty DEF ChainInv, EmptyInv
  <2>2. IsRec(crec')
    BY <1>4 DEF C!ChooseVariant, IsRec, C!IdleRec
  <2> QED
    BY <2>1, <2>2
<1> QED
  BY <1>1, <1>2, <1>3, <1>4 DEF EmptyInv, IsRec, Counts

(* Materialising a decision does not change it.                            *)
LEMMA MaterialiseKeeps ==
  ASSUME EmptyInv, Materialise
  PROVE  EmptyInv'
<1>1. /\ UNCHANGED <<pc, rec, inventory, phase, result, before>>
      /\ basis' = IF cpc' = "idle" THEN [basis EXCEPT !.decision = FALSE]
                  ELSE basis
      /\ \/ C!ReadManifest \/ C!ApplyChild \/ C!ApplyChildFails
         \/ C!PatchStatus
  BY DEF Materialise, vars, store, status
<1>2. /\ basis' \in [status : BOOLEAN, decision : BOOLEAN]
      /\ basis'.status = basis.status
      /\ cpc' # "idle" => basis'.decision = basis.decision
  BY <1>1 DEF EmptyInv
<1>3. CASE C!ReadManifest
  <2>1. cpc = "read" /\ IsRec(crec) /\ cpc' \in {"patch", "apply"}
    BY <1>3 DEF C!ReadManifest, EmptyInv
  <2>2. \E s, m : crec' = [crec EXCEPT !.st = s, !.manifest = m]
    <3>1. \E s : crec' = [crec EXCEPT !.st = s]
                 \/ crec' = [crec EXCEPT !.st = s, !.manifest = source[crec.ref]]
      BY <1>3 DEF C!ReadManifest
    <3> QED
      BY <2>1, <3>1 DEF IsRec
  <2>3. crec'.slot = crec.slot
    BY <2>1, <2>2 DEF IsRec
  <2> QED
    BY <1>1, <1>2, <2>1, <2>3 DEF EmptyInv, Counts
<1>4. CASE C!ApplyChild \/ C!ApplyChildFails \/ C!PatchStatus
  <2>1. cpc' \in {"patch", "idle"}
    BY <1>4 DEF C!ApplyChild, C!ApplyChildFails, C!PatchStatus
  <2> QED
    BY <1>1, <1>2, <2>1 DEF EmptyInv, Counts
<1> QED
  BY <1>1, <1>3, <1>4

(* Every step of the chain passes the inventory on with the backups it     *)
(* goes with.                                                              *)
LEMMA EmptyPreserved ==
  ASSUME InventoryKnown, ChainInv, EmptyInv, [AreteNext]_avars
  PROVE  EmptyInv'
<1> USE DEF brc, brcRest
<1>0. ASSUME UNCHANGED <<inventory, basis, brc>>,
             phase' = "done" => Counts(result'.inv, before' # 0),
             pc' # "idle" => Counts(rec'.probe.inv, before' # 0)
      PROVE  EmptyInv'
  BY <1>0 DEF EmptyInv, IsRec, Counts
<1>1. CASE Probe
  BY <1>0, <1>1, ProbeCounts DEF Probe, repository, status
<1>2. CASE BeginWithProbe
  <2>1. /\ phase = "done" /\ phase' = "idle" /\ rec'.probe = result
        /\ UNCHANGED <<before, inventory, basis, brc>>
    BY <1>2 DEF BeginWithProbe, Begin, status
  <2> QED
    BY <1>0, <2>1 DEF EmptyInv
<1>3. CASE Work
  <2>1. /\ pc # "idle" /\ (pc' = "idle" \/ rec'.probe = rec.probe)
        /\ UNCHANGED <<inventory, store, brc, basis>>
    BY <1>3, WorkKeeps DEF ChainInv
  <2> QED
    BY <1>0, <2>1 DEF EmptyInv, store
<1>4. CASE PublishStatus
  <2>1. /\ pc = "apply" /\ pc' = "idle" /\ inventory' = observedInventory
        /\ basis' = [basis EXCEPT !.status = (before # 0)]
        /\ phase' = phase /\ UNCHANGED brcRest
    BY <1>4 DEF PublishStatus, ApplyStatus
  <2>2. phase = "idle" /\ Counts(rec.probe.inv, before # 0)
    BY <2>1 DEF ChainInv, ProbeInv, EmptyInv
  <2>3. /\ basis' \in [status : BOOLEAN, decision : BOOLEAN]
        /\ basis'.status = (before # 0) /\ basis'.decision = basis.decision
    BY <2>1 DEF EmptyInv
  <2>4. basis'.status => inventory' # "zero"
    BY <2>1, <2>2, <2>3 DEF observedInventory, Counts
  <2> QED
    BY <2>1, <2>2, <2>3, <2>4 DEF EmptyInv, IsRec
<1>5. CASE Conditional
  BY <1>5, DecideKeeps, MaterialiseKeeps DEF Conditional
<1>6. CASE Requeue
  <2>1. UNCHANGED <<pc, rec, inventory, phase, result, before, basis, cpc, crec>>
    BY <1>6 DEF Requeue, vars, store, status, C!TimerFires
  <2> QED
    BY <2>1 DEF EmptyInv, IsRec, Counts
<1>7. CASE Cluster
  <2>1. UNCHANGED <<pc, rec, inventory, phase, result, before, basis, brc>>
    BY <1>7 DEF Cluster, Tick, FinishJob, ExpireJob, status, store
  <2> QED
    BY <1>0, <2>1 DEF EmptyInv
<1>8. CASE Produce
  <2>1. UNCHANGED <<pc, rec, inventory, phase, result, before, basis, brc>>
    BY <1>8 DEF Produce, repository, status, S3!Producer, S3!WriteData,
                S3!FinishBackup, S3!Retain, S3!probe
  <2> QED
    BY <1>0, <2>1 DEF EmptyInv
<1>9. CASE UNCHANGED avars
  BY <1>0, <1>9 DEF EmptyInv, avars, vars, status, store
<1> QED
  BY <1>1, <1>2, <1>3, <1>4, <1>5, <1>6, <1>7, <1>8, <1>9
  DEF AreteNext, Repository

(* While the first LIST and the inventory of a probe succeed, a tenant is  *)
(* not initialised from nothing if a backup had been complete before the   *)
(* probe the decision goes back to: for any number of lost events, other   *)
(* failing calls and backups written and retained meanwhile.               *)
THEOREM EmptyIsEmpty ==
  ASSUME InventoryKnown
  PROVE  AreteSpec => []EmptyMeansEmpty
<1>1. AreteInit => EmptyInv
  BY DEF AreteInit, Init, EmptyInv
<1>2. ChainInv /\ EmptyInv /\ [AreteNext]_avars => EmptyInv'
  BY EmptyPreserved
<1>3. EmptyInv => EmptyMeansEmpty
  BY DEF EmptyInv, EmptyMeansEmpty
<1> QED
  BY <1>1, <1>2, <1>3, ChainInvariant, PTL DEF AreteSpec
=============================================================================
