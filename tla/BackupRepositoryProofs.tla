----------------------- MODULE BackupRepositoryProofs -----------------------
(***************************************************************************)
(* Proofs about BackupRepository, for all values of its constants:         *)
(*   TypeCorrect             every reachable state is well typed;          *)
(*   OneJobPerLevel          at most one Job of a level is in flight;      *)
(*   VerdictBesideTimestamp  timestamps and verdicts go together;          *)
(*   Sequencing              a level waits for the earlier ones.           *)
(* The first three rest on one inductive invariant, SafetyInv; Sequencing  *)
(* on TypeOK and Gated.                                                    *)
(***************************************************************************)
EXTENDS BackupRepository, TLAPS

-----------------------------------------------------------------------------
(* Types                                                                   *)

(* A rollup is a condition value, whatever it is taken over.               *)
LEMMA RollupType == ASSUME NEW vs PROVE rollupAND(vs) \in CondValue
BY DEF rollupAND, CondValue

(* applyConditions gives every condition type a proper value.              *)
LEMMA ApplyConditionsType ==
  ASSUME NEW old \in CondValue, NEW sp \in SpecType, NEW inv \in Inventories,
         NEW hasResult \in BOOLEAN,
         NEW in, in.reachable \in CondValue, in.bucketSecurityValid \in CondValue,
         in.backupCurrent \in CondValue, in.metadataValid \in CondValue,
         in.sampledIntegrityValid \in CondValue,
         in.fullRetrievalCompleted \in CondValue
  PROVE  applyConditions(old, sp, inv, hasResult, in) \in [CondTypes -> CondValue]
<1> DEFINE
      security   == OrElse(in.bucketSecurityValid, "Unknown")
      current    == OrElse(in.backupCurrent, "Unknown")
      size       == IF sp.budget THEN computeSizeWithinBudget(inv)
                                 ELSE "Absent"
      metadata   == OrElse(in.metadataValid, "Pending")
      sampled    == IF sp.e3 THEN OrElse(in.sampledIntegrityValid, "Pending")
                             ELSE "Absent"
      full       == fullRetrievalCondition(old, sp.e4, hasResult,
                                           in.e4JobActive,
                                           in.fullRetrievalCompleted)
      probe      == rollupAND({in.reachable, security, current, size})
      validation == rollupAND({metadata, sampled, full})
<1>1. security \in CondValue /\ current \in CondValue /\ metadata \in CondValue
  BY DEF OrElse, CondValue
<1>2. size \in CondValue /\ sampled \in CondValue
  BY DEF OrElse, CondValue, computeSizeWithinBudget, condFromBool
<1>3. full \in CondValue
  BY DEF fullRetrievalCondition, OrElse, CondValue
<1>4. probe \in CondValue /\ validation \in CondValue
      /\ rollupAND({probe, validation}) \in CondValue
  BY RollupType
<1> HIDE DEF security, current, size, metadata, sampled, full, probe, validation
<1>5. [Reachable              |-> in.reachable,
      BucketSecurityValid    |-> security,
      BackupCurrent          |-> current,
      SizeWithinBudget       |-> size,
      MetadataValid          |-> metadata,
      SampledIntegrityValid  |-> sampled,
      FullRetrievalCompleted |-> full,
      ProbeHealthy           |-> probe,
      ValidationHealthy      |-> validation,
      Healthy                |-> rollupAND({probe, validation})]
       \in [CondTypes -> CondValue]
  BY <1>1, <1>2, <1>3, <1>4 DEF CondTypes
<1> QED
  BY <1>5 DEF applyConditions, security, current, size, metadata, sampled, full,
              probe, validation

(* The three verdict conditions applyConditions writes.                    *)
LEMMA VerdictConditions ==
  ASSUME NEW old, NEW sp, NEW inv, NEW hasResult, NEW in
  PROVE  LET cs == applyConditions(old, sp, inv, hasResult, in)
         IN /\ cs["MetadataValid"] = OrElse(in.metadataValid, "Pending")
            /\ cs["SampledIntegrityValid"] =
                 IF sp.e3 THEN OrElse(in.sampledIntegrityValid, "Pending")
                          ELSE "Absent"
            /\ cs["FullRetrievalCompleted"] =
                 fullRetrievalCondition(old, sp.e4, hasResult, in.e4JobActive,
                                        in.fullRetrievalCompleted)
BY DEF applyConditions

(* recordValidationRun changes nothing of a Job but its count.             *)
LEMMA CountingKeepsJobs ==
  ASSUME NEW js \in SUBSET Job, NEW done \in SUBSET js,
         NEW x \in recordValidationRun(js, done)
  PROVE  /\ x \in Job
         /\ \E j \in js :
              /\ x.lvl = j.lvl /\ x.gen = j.gen /\ x.minute = j.minute
              /\ x.created = j.created /\ x.state = j.state
              /\ x.ended = j.ended
              /\ (x \in js) \/ (j \in done)
<1>1. CASE x \in js
  BY <1>1
<1>2. CASE x \notin js
  <2>1. PICK j \in done :
          x = [j EXCEPT !.counted = IF @ < MaxCount THEN @ + 1 ELSE @]
    BY <1>2 DEF recordValidationRun
  <2>2. j \in Job
    OBVIOUS
  <2> QED
    BY <2>1, <2>2 DEF Job, MaxCount
<1> QED
  BY <1>1, <1>2

(* What a level ingests comes from one of its completed Jobs.              *)
LEMMA IngestedIsCompleted ==
  ASSUME TypeOK, NEW l \in Levels, NEW r \in ingestResults(l)
  PROVE  /\ r.res \in Verdicts /\ r.at \in Time /\ r.manual \in BOOLEAN
         /\ r.job \in SUBSET Completed(l)
         /\ \/ r.res = "none"
            \/ \E j \in Completed(l) : r.at = jobCompletionTime(j)
<1>1. CASE r = NoResult
  BY <1>1 DEF NoResult, Verdicts, Time, Nil
<1>2. CASE r # NoResult
  <2>1. PICK j \in toIngest(l) :
          r = [res |-> verdictOf(j), at |-> jobCompletionTime(j),
               manual |-> j.manual, job |-> {j}]
    BY <1>2 DEF ingestResults
  <2>2. j \in Completed(l) /\ j \in Job
    BY <2>1 DEF toIngest, pickLatestCompletedJob, Completed, JobsOf, TypeOK
  <2>3. verdictOf(j) \in Verdicts /\ jobCompletionTime(j) \in Time
    BY <2>2 DEF verdictOf, Verdicts, jobCompletionTime, Job
  <2> QED
    BY <2>1, <2>2, <2>3 DEF Job
<1> QED
  BY <1>1, <1>2

(* The Job a level creates is well typed.                                  *)
LEMMA NewJobType ==
  ASSUME TypeOK, NEW l \in Levels, NEW m \in BOOLEAN
  PROVE  NewJob(l, rec.gen, m) \in Job
<1>1. now \div BucketLen \in Nat
  BY CadenceAssumption DEF TypeOK, Time
<1> QED
  BY <1>1 DEF NewJob, Job, TypeOK, RecType, JobStates, MaxCount, Time, Nil

(* The step of a level keeps the Jobs and the locals well typed.           *)
LEMMA LevelStep ==
  ASSUME TypeOK, NEW l \in Levels, NEW m \in BOOLEAN, NEW s \in BOOLEAN,
         NEW r \in ingestResults(l), NEW stats \in BOOLEAN,
         ProcessLevel(l, m, s, r, stats)
  PROVE  jobs' \subseteq Job /\ rec' \in RecType
<1>1. r.res \in Verdicts /\ r.at \in Time /\ r.manual \in BOOLEAN
      /\ r.job \in SUBSET jobs
  BY IngestedIsCompleted DEF Completed, JobsOf
<1>2. recordValidationRun(jobs, r.job) \subseteq Job
  BY <1>1, CountingKeepsJobs DEF TypeOK
<1>3. jobs' \subseteq Job
  BY <1>2, NewJobType DEF ProcessLevel, spawnJob
<1>4. rec' \in RecType
  BY <1>1 DEF ProcessLevel, RecType, TypeOK
<1> QED
  BY <1>3, <1>4

(* Whether an ingested E4 log holds statistics is a Boolean.               *)
LEMMA StatsAreBoolean ==
  ASSUME NEW r
  PROVE  parseE4Stats(r) \subseteq BOOLEAN
<1>1. SUFFICES ASSUME NEW lost \in MayFail("logs")
               PROVE  (r.res # "none" /\ ~lost) \in BOOLEAN
  BY DEF parseE4Stats
<1> QED
  OBVIOUS

(* The locals a reconcile starts with are well typed.                      *)
LEMMA IdleRecType == IdleRec \in RecType
BY DEF IdleRec, RecType, SpecType, ProbeType, Inventories, Verdicts, Time, Nil

(* The verdicts handed to applyConditions are condition values.            *)
LEMMA VerdictInputType ==
  ASSUME TypeOK, NEW l \in Levels
  PROVE  /\ verdictInput(l) \in CondValue
         /\ preservedCondition(conds[CondOf[l]]) \in CondValue
<1>1. conds[CondOf[l]] \in CondValue
  BY DEF TypeOK, CondOf, Levels, CondTypes
<1>2. rec.res[l] \in Verdicts
  BY DEF TypeOK, RecType
<1> QED
  BY <1>1, <1>2 DEF verdictInput, Verdicts, CondValue, preservedCondition

(* What recordCredentialsFailure writes is well typed.                     *)
LEMMA CredentialsFailedType ==
  ASSUME TypeOK
  PROVE  credentialsFailed \in [CondTypes -> CondValue]
<1>1. /\ CondOf["E2"] = "MetadataValid"
      /\ CondOf["E3"] = "SampledIntegrityValid"
      /\ CondOf["E4"] = "FullRetrievalCompleted"
  BY DEF CondOf
<1>2. /\ preservedCondition(conds["MetadataValid"]) \in CondValue
      /\ preservedCondition(conds["SampledIntegrityValid"]) \in CondValue
      /\ preservedCondition(conds["FullRetrievalCompleted"]) \in CondValue
  BY <1>1, VerdictInputType DEF Levels
<1>3. conds["FullRetrievalCompleted"] \in CondValue
  BY DEF TypeOK, CondTypes
<1>4. "False" \in CondValue /\ "Absent" \in CondValue
  BY DEF CondValue
<1> QED
  BY <1>2, <1>3, <1>4, ApplyConditionsType DEF credentialsFailed, TypeOK

(* What applyStatus writes is well typed.                                  *)
LEMMA ProbedConditionsType ==
  ASSUME TypeOK
  PROVE  probedConditions \in [CondTypes -> CondValue]
<1>1. /\ verdictInput("E2") \in CondValue
      /\ verdictInput("E3") \in CondValue
      /\ verdictInput("E4") \in CondValue
  BY VerdictInputType DEF Levels
<1>2. conds["FullRetrievalCompleted"] \in CondValue
  BY DEF TypeOK, CondTypes
<1>3. rec.spec \in SpecType /\ observedInventory \in Inventories
  BY DEF TypeOK, RecType, ProbeType, observedInventory
<1>4. /\ condFromBool(rec.probe.reach) \in CondValue
      /\ ifReachable(rec.probe.reach, condFromBool(rec.probe.sec)) \in CondValue
      /\ ifReachable(rec.probe.reach,
           computeBackupCurrent(rec.probe.last, now, MaxLag)) \in CondValue
  BY DEF condFromBool, ifReachable, computeBackupCurrent, CondValue
<1> QED
  BY <1>1, <1>2, <1>3, <1>4, ApplyConditionsType DEF probedConditions

(* What ApplyStatus stores is well typed.                                  *)
LEMMA StatusType ==
  ASSUME TypeOK
  PROVE  /\ verifiedAfter \in [Levels -> Time]
         /\ publishMetrics(probedConditions) \in [CondTypes -> CondValue]
         /\ honoredForceAt \in Time /\ honoredForceE4At \in Time
         /\ observedInventory \in Inventories
<1>1. verifiedAfter \in [Levels -> Time]
  BY DEF TypeOK, RecType, verifiedAfter, Time, Nil
<1>2. publishMetrics(probedConditions) \in [CondTypes -> CondValue]
  <2>1. probedConditions \in [CondTypes -> CondValue]
    BY ProbedConditionsType
  <2>2. gauge \in [CondTypes -> CondValue] /\ "Unknown" \in CondValue
    BY DEF TypeOK, CondValue
  <2> QED
    BY <2>1, <2>2 DEF publishMetrics
<1>3. honoredForceAt \in Time /\ honoredForceE4At \in Time
  BY DEF TypeOK, RecType, honoredForceAt, honoredForceE4At
<1>4. observedInventory \in Inventories
  BY DEF TypeOK, RecType, ProbeType, observedInventory
<1> QED
  BY <1>1, <1>2, <1>3, <1>4

(* The fields of a type-correct state, action by action.                   *)
LEMMA TypePreserved ==
  ASSUME TypeOK, [Next]_vars
  PROVE  TypeOK'
<1>1. CASE Begin
  <2>1. PICK p \in probeRepository :
          rec' = [IdleRec EXCEPT
                    !.spec = spec, !.gen = gen,
                    !.forceTS = resolveForce(annForce, lastForce),
                    !.forceE4TS = resolveForce(annE4, lastForcedE4),
                    !.need = forceNeeded(spec, resolveForce(annForce, lastForce),
                                         resolveForce(annE4, lastForcedE4)),
                    !.probe = p]
    BY <1>1 DEF Begin
  <2>2. p \in ProbeType
    BY EnvironmentAssumption DEF probeRepository
  <2>3. /\ resolveForce(annForce, lastForce) \in Time
        /\ resolveForce(annE4, lastForcedE4) \in Time
    BY DEF TypeOK, resolveForce, Time, Nil
  <2>4. forceNeeded(spec, resolveForce(annForce, lastForce),
                    resolveForce(annE4, lastForcedE4)) \in SUBSET Levels
    BY DEF forceNeeded
  <2>5. rec' \in RecType
    BY <2>1, <2>2, <2>3, <2>4, IdleRecType DEF RecType, TypeOK
  <2> QED
    BY <1>1, <2>5 DEF Begin, TypeOK, cluster, status, Time, Nil
<1>2. CASE TolerateMissingCredentials
  BY <1>2 DEF TolerateMissingCredentials, TypeOK, cluster, status, firstMissing
<1>3. CASE RecordCredentialsFailure
  <2>1. conds' \in [CondTypes -> CondValue] /\ obsGen' \in Nat
    BY <1>3, CredentialsFailedType DEF RecordCredentialsFailure, TypeOK
  <2>2. firstSeen' \in Time
    BY <1>3 DEF RecordCredentialsFailure, TypeOK, firstMissing
  <2> QED
    BY <1>3, <2>1, <2>2 DEF RecordCredentialsFailure, TypeOK, cluster
<1>4. CASE ProcessE2
  <2>1. jobs' \subseteq Job /\ rec' \in RecType
    <3>1. CASE ListFails
      BY <3>1 DEF ListFails, TypeOK
    <3>2. CASE \E r \in ingestResults("E2"), s \in spawnOutcomes("E2", wantE2) :
                 ProcessLevel("E2", FALSE, s, r, FALSE)
      BY <3>2, LevelStep DEF Levels, spawnOutcomes, MayFail
    <3> QED
      BY <1>4, <3>1, <3>2 DEF ProcessE2
  <2> QED
    BY <1>4, <2>1 DEF ProcessE2, afterE2, TypeOK, cluster, status, memory
<1>5. CASE ProcessE3
  <2>1. jobs' \subseteq Job /\ rec' \in RecType
    <3>1. CASE ListFails
      BY <3>1 DEF ListFails, TypeOK
    <3>2. CASE \E r \in ingestResults("E3"), s \in spawnOutcomes("E3", wantE3) :
                 ProcessLevel("E3", FALSE, s, r, FALSE)
      BY <3>2, LevelStep DEF Levels, spawnOutcomes, MayFail
    <3> QED
      BY <1>5, <3>1, <3>2 DEF ProcessE3
  <2> QED
    BY <1>5, <2>1 DEF ProcessE3, TypeOK, cluster, status, memory
<1>6. CASE PanicE3
  <2>1. PICK r \in ingestResults("E3") : jobs' = recordValidationRun(jobs, r.job)
    BY <1>6 DEF PanicE3
  <2>2. r.job \in SUBSET jobs
    BY IngestedIsCompleted DEF Completed, JobsOf, Levels
  <2>3. jobs' \subseteq Job
    BY <2>1, <2>2, CountingKeepsJobs DEF TypeOK
  <2> QED
    BY <1>6, <2>3, IdleRecType DEF PanicE3, TypeOK, cluster, status, memory
<1>7. CASE ProcessE4
  <2>1. jobs' \subseteq Job /\ rec' \in RecType
    <3>1. CASE ListFails
      BY <3>1 DEF ListFails, TypeOK
    <3>2. CASE \E r \in ingestResults("E4"), s \in spawnOutcomes("E4", wantE4) :
                 \E stats \in parseE4Stats(r) :
                   ProcessLevel("E4", "E4" \in rec.need, s, r, stats)
      <4>1. PICK r \in ingestResults("E4"), s \in spawnOutcomes("E4", wantE4) :
              \E stats \in parseE4Stats(r) :
                ProcessLevel("E4", "E4" \in rec.need, s, r, stats)
        BY <3>2
      <4>2. s \in BOOLEAN
        BY DEF spawnOutcomes, MayFail
      <4>3. ("E4" \in rec.need) \in BOOLEAN
        OBVIOUS
      <4>4. parseE4Stats(r) \subseteq BOOLEAN
        BY StatsAreBoolean
      <4> QED
        BY <4>1, <4>2, <4>3, <4>4, LevelStep DEF Levels
    <3> QED
      BY <1>7, <3>1, <3>2 DEF ProcessE4
  <2> QED
    BY <1>7, <2>1 DEF ProcessE4, TypeOK, cluster, status, memory
<1>8. CASE ClearForceE4Annotation
  <2>1. rec' \in RecType /\ annE4' \in Time
    <3>1. CASE UNCHANGED <<annE4, rec>>
      BY <3>1 DEF TypeOK
    <3>2. CASE annE4' = Nil /\ rec' = [rec EXCEPT !.spec = spec, !.gen = gen]
      <4>1. [rec EXCEPT !.spec = spec, !.gen = gen] \in RecType
        BY DEF TypeOK, RecType
      <4> QED
        BY <3>2, <4>1 DEF Time, Nil
    <3> QED
      BY <1>8, <3>1, <3>2 DEF ClearForceE4Annotation
  <2> QED
    BY <1>8, <2>1 DEF ClearForceE4Annotation, TypeOK, status, memory
<1>9. CASE ApplyStatus
  <2>1. claimed' \in Time /\ obsGen' \in Nat
    BY <1>9 DEF ApplyStatus, TypeOK, RecType, ProbeType, observedGeneration
  <2>2. lastTrigger' \in {"none", "scheduled", "manual"}
    BY <1>9 DEF ApplyStatus, TypeOK
  <2> QED
    BY <1>9, <2>1, <2>2, StatusType, ProbedConditionsType, IdleRecType
    DEF ApplyStatus, TypeOK, cluster
<1>10. CASE ApplyStatusFails
  BY <1>10, IdleRecType DEF ApplyStatusFails, TypeOK, cluster, status, memory
<1>11. CASE Crash
  <2>1. NoConditions \in [CondTypes -> CondValue]
    BY DEF NoConditions, CondValue
  <2> QED
    BY <1>11, <2>1, IdleRecType DEF Crash, TypeOK, cluster, status, Time, Nil
<1>12. CASE Tick
  BY <1>12 DEF Tick, TypeOK, cluster, status, memory, Time
<1>13. CASE FinishJob
  <2>1. PICK j \in jobs, v \in {"succeeded", "failed"} :
          jobs' = (jobs \ {j}) \cup {[j EXCEPT !.state = v, !.ended = now]}
    BY <1>13 DEF FinishJob
  <2>2. [j EXCEPT !.state = v, !.ended = now] \in Job
    BY DEF TypeOK, Job, JobStates
  <2> QED
    BY <1>13, <2>1, <2>2 DEF FinishJob, TypeOK, cluster, status, memory
<1>14. CASE ExpireJob
  BY <1>14 DEF ExpireJob, TypeOK, cluster, status, memory
<1>15. CASE AnnotateForceRevalidate
  BY <1>15, EnvironmentAssumption
  DEF AnnotateForceRevalidate, TypeOK, status, memory, Time, Nil
<1>16. CASE AnnotateForceE4
  BY <1>16, EnvironmentAssumption
  DEF AnnotateForceE4, TypeOK, status, memory, Time, Nil
<1>17. CASE EditSpec
  BY <1>17, EnvironmentAssumption DEF EditSpec, TypeOK, status, memory
<1>18. CASE ChangeSecret
  BY <1>18, EnvironmentAssumption
  DEF ChangeSecret, TypeOK, status, memory, Time, Nil
<1>19. CASE UNCHANGED vars
  BY <1>19 DEF vars, TypeOK, cluster, status, memory
<1> QED
  BY <1>1, <1>2, <1>3, <1>4, <1>5, <1>6, <1>7, <1>8, <1>9, <1>10, <1>11, <1>12,
     <1>13, <1>14, <1>15, <1>16, <1>17, <1>18, <1>19
  DEF Next, Reconcile, Environment

(* The initial states are well typed.                                      *)
LEMMA TypeInit == Init => TypeOK
BY EnvironmentAssumption, IdleRecType
DEF Init, TypeOK, NoConditions, CondValue, Time, Nil, Inventories

(* Type correctness: every reachable state is well typed, for all values   *)
(* of the constants.                                                       *)
THEOREM TypeCorrect == Spec => []TypeOK
BY TypeInit, TypePreserved, PTL DEF Spec

-----------------------------------------------------------------------------
(* The safety invariant.  AnchorHasVerdict is not inductive by itself: that*)
(* a recorded result has a timestamp rests on the Jobs and the ingested    *)
(* results being dated.                                                    *)

DatedJob(j) == j.created >= 1 /\ (jobSucceeded(j) => j.ended >= 1)

Dated ==
  /\ now >= 1
  /\ \A j \in jobs : DatedJob(j)
  /\ \A l \in Levels : rec.res[l] # "none" => rec.at[l] >= 1

SafetyInv == TypeOK /\ AtMostOneInFlight /\ Dated /\ AnchorHasVerdict

(* x is the Job j, perhaps counted once more.                              *)
Inherits(x, j) ==
  /\ x.lvl = j.lvl /\ x.created = j.created
  /\ x.state = j.state /\ x.ended = j.ended
  /\ jobInFlight(x) => x = j

(* Counting completed Jobs leaves the Jobs in flight alone.                *)
LEMMA CountingInherits ==
  ASSUME TypeOK, NEW l \in Levels, NEW done \in SUBSET Completed(l),
         NEW x \in recordValidationRun(jobs, done)
  PROVE  \E j \in jobs : Inherits(x, j)
<1>1. done \in SUBSET jobs
  BY DEF Completed, JobsOf
<1>2. PICK j \in jobs :
        /\ x.lvl = j.lvl /\ x.created = j.created
        /\ x.state = j.state /\ x.ended = j.ended
        /\ (x \in jobs) \/ (j \in done)
  BY <1>1, CountingKeepsJobs DEF TypeOK
<1>3. CASE x \in jobs
  BY <1>3 DEF Inherits
<1>4. CASE j \in done
  <2>1. ~jobInFlight(j)
    BY <1>4 DEF Completed
  <2>2. ~jobInFlight(x)
    BY <1>2, <2>1 DEF jobInFlight
  <2>3. Inherits(x, j)
    BY <1>2, <2>2 DEF Inherits
  <2> QED
    BY <2>3
<1> QED
  BY <1>2, <1>3, <1>4

(* After a level's step every Job is one that was there before or the one  *)
(* just created.                                                           *)
LEMMA LevelJobs ==
  ASSUME TypeOK, NEW l \in Levels, NEW m \in BOOLEAN, NEW s \in BOOLEAN,
         NEW r \in ingestResults(l), NEW stats \in BOOLEAN,
         ProcessLevel(l, m, s, r, stats), NEW x \in jobs'
  PROVE  \/ s /\ x = NewJob(l, rec.gen, m)
         \/ \E j \in jobs : Inherits(x, j)
<1>1. r.job \in SUBSET Completed(l)
  BY IngestedIsCompleted
<1>2. \/ x \in recordValidationRun(jobs, r.job)
      \/ s /\ x = NewJob(l, rec.gen, m)
  BY DEF ProcessLevel, spawnJob
<1> QED
  BY <1>1, <1>2, CountingInherits

(* A new Job is dated and in flight.                                       *)
LEMMA NewJobIsDated ==
  ASSUME TypeOK, now >= 1, NEW l \in Levels, NEW m \in BOOLEAN
  PROVE  LET j == NewJob(l, rec.gen, m)
         IN DatedJob(j) /\ j.lvl = l /\ jobInFlight(j)
BY DEF NewJob, DatedJob, jobSucceeded, jobInFlight

(* The step of a level creates no second Job in flight and dates what it   *)
(* ingests.                                                                *)
LEMMA LevelSafe ==
  ASSUME TypeOK, AtMostOneInFlight, Dated,
         NEW l \in Levels, NEW m \in BOOLEAN, NEW s \in BOOLEAN,
         NEW r \in ingestResults(l), NEW stats \in BOOLEAN,
         s => ~InFlight(l), UNCHANGED now,
         ProcessLevel(l, m, s, r, stats)
  PROVE  AtMostOneInFlight' /\ Dated'
<1> DEFINE new == NewJob(l, rec.gen, m)
<1>0. \A x \in jobs' : (s /\ x = new) \/ \E j \in jobs : Inherits(x, j)
  BY LevelJobs
<1>1. DatedJob(new) /\ new.lvl = l /\ jobInFlight(new)
  BY NewJobIsDated DEF Dated
<1> HIDE DEF new
<1>2. AtMostOneInFlight'
  <2> SUFFICES ASSUME NEW x \in jobs', NEW y \in jobs',
                      x.lvl = y.lvl, jobInFlight(x), jobInFlight(y)
               PROVE  x = y
    BY DEF AtMostOneInFlight, jobInFlight
  <2>1. (s /\ x = new) \/ x \in jobs
    BY <1>0 DEF Inherits
  <2>2. (s /\ y = new) \/ y \in jobs
    BY <1>0 DEF Inherits
  <2>3. s => \A j \in jobs : ~(j.lvl = l /\ jobInFlight(j))
    BY DEF InFlight, JobsOf
  <2> QED
    BY <1>1, <2>1, <2>2, <2>3 DEF AtMostOneInFlight
<1>3. \A x \in jobs' : DatedJob(x)
  BY <1>0, <1>1 DEF Dated, DatedJob, Inherits, jobSucceeded
<1>4. \A k \in Levels : rec'.res[k] # "none" => rec'.at[k] >= 1
  <2>1. r.res = "none" \/ r.at >= 1
    BY IngestedIsCompleted
    DEF Dated, DatedJob, jobCompletionTime, Completed, JobsOf
  <2>2. /\ rec'.res = [rec.res EXCEPT ![l] = r.res]
        /\ rec'.at = [rec.at EXCEPT ![l] = r.at]
    BY DEF ProcessLevel, TypeOK, RecType
  <2>3. rec.res \in [Levels -> Verdicts] /\ rec.at \in [Levels -> Time]
    BY DEF TypeOK, RecType
  <2> QED
    BY <2>1, <2>2, <2>3 DEF Dated
<1> QED
  BY <1>2, <1>3, <1>4 DEF Dated, DatedJob, jobSucceeded

(* A step that creates no Job and ingests nothing.                         *)
LEMMA NoSpawnSafe ==
  ASSUME TypeOK, AtMostOneInFlight, Dated,
         now' >= 1,
         \A x \in jobs' : \E j \in jobs : Inherits(x, j),
         rec' = rec \/ rec' = IdleRec
                \/ rec' = [rec EXCEPT !.spec = spec, !.gen = gen]
  PROVE  AtMostOneInFlight' /\ Dated'
<1>1. \A x \in jobs' : jobInFlight(x) => x \in jobs
  BY DEF Inherits
<1>2. AtMostOneInFlight'
  BY <1>1 DEF AtMostOneInFlight, jobInFlight
<1>3. \A x \in jobs' : DatedJob(x)
  BY DEF Dated, DatedJob, Inherits, jobSucceeded
<1>4. \A l \in Levels : rec'.res[l] # "none" => rec'.at[l] >= 1
  <2>1. CASE rec' = IdleRec
    BY <2>1 DEF IdleRec
  <2>2. CASE rec' # IdleRec
    <3>1. rec'.res = rec.res /\ rec'.at = rec.at
      BY <2>2 DEF TypeOK, RecType
    <3> QED
      BY <3>1 DEF Dated
  <2> QED
    BY <2>1, <2>2
<1> QED
  BY <1>2, <1>3, <1>4 DEF Dated, DatedJob, jobSucceeded

(* A level creates a Job only if none of it is active (firstActiveJob).    *)
LEMMA SpawnsWhenNoneActive ==
  ASSUME NEW l, NEW want, NEW s \in spawnOutcomes(l, want)
  PROVE  s \in BOOLEAN /\ (s => ~InFlight(l))
BY DEF spawnOutcomes, MayFail

(* Every step keeps at most one Job of a level in flight, and all dated.   *)
LEMMA JobsPreserved ==
  ASSUME TypeOK, AtMostOneInFlight, Dated, [Next]_vars
  PROVE  AtMostOneInFlight' /\ Dated'
<1> USE DEF cluster, status, memory
<1>0. jobs' = jobs => \A x \in jobs' : \E j \in jobs : Inherits(x, j)
  BY DEF Inherits
<1>a. now >= 1 /\ now \in Nat
  BY DEF Dated, TypeOK, Time
<1>1. CASE Begin
  <2>1. UNCHANGED <<now, jobs>> /\ rec'.res = [l \in Levels |-> "none"]
    BY <1>1 DEF Begin, IdleRec
  <2> QED
    BY <2>1 DEF AtMostOneInFlight, Dated, DatedJob, jobSucceeded, jobInFlight
<1>2. CASE ProcessE2
  <2>1. CASE ListFails
    BY <1>0, <1>2, <1>a, <2>1, NoSpawnSafe DEF ListFails, ProcessE2
  <2>2. CASE \E r \in ingestResults("E2"), s \in spawnOutcomes("E2", wantE2) :
               ProcessLevel("E2", FALSE, s, r, FALSE)
    BY <1>2, <2>2, LevelSafe, SpawnsWhenNoneActive DEF Levels, ProcessE2
  <2> QED
    BY <1>2, <2>1, <2>2 DEF ProcessE2
<1>3. CASE ProcessE3
  <2>1. CASE ListFails
    BY <1>0, <1>3, <1>a, <2>1, NoSpawnSafe DEF ListFails, ProcessE3
  <2>2. CASE \E r \in ingestResults("E3"), s \in spawnOutcomes("E3", wantE3) :
               ProcessLevel("E3", FALSE, s, r, FALSE)
    BY <1>3, <2>2, LevelSafe, SpawnsWhenNoneActive DEF Levels, ProcessE3
  <2> QED
    BY <1>3, <2>1, <2>2 DEF ProcessE3
<1>4. CASE PanicE3
  <2>1. PICK r \in ingestResults("E3") : jobs' = recordValidationRun(jobs, r.job)
    BY <1>4 DEF PanicE3
  <2>2. r.job \in SUBSET Completed("E3")
    BY IngestedIsCompleted DEF Levels
  <2>3. \A x \in jobs' : \E j \in jobs : Inherits(x, j)
    BY <2>1, <2>2, CountingInherits DEF Levels
  <2> QED
    BY <1>4, <1>a, <2>3, NoSpawnSafe DEF PanicE3
<1>5. CASE ProcessE4
  <2>1. CASE ListFails
    BY <1>0, <1>5, <1>a, <2>1, NoSpawnSafe DEF ListFails, ProcessE4
  <2>2. CASE \E r \in ingestResults("E4"), s \in spawnOutcomes("E4", wantE4) :
               \E stats \in parseE4Stats(r) :
                 ProcessLevel("E4", "E4" \in rec.need, s, r, stats)
    <3>1. PICK r \in ingestResults("E4"), s \in spawnOutcomes("E4", wantE4) :
            \E stats \in parseE4Stats(r) :
              ProcessLevel("E4", "E4" \in rec.need, s, r, stats)
      BY <2>2
    <3>2. s \in BOOLEAN /\ (s => ~InFlight("E4"))
      BY SpawnsWhenNoneActive
    <3>3. ("E4" \in rec.need) \in BOOLEAN
      OBVIOUS
    <3>4. parseE4Stats(r) \subseteq BOOLEAN
      BY StatsAreBoolean
    <3> QED
      BY <1>5, <3>1, <3>2, <3>3, <3>4, LevelSafe DEF Levels, ProcessE4
  <2> QED
    BY <1>5, <2>1, <2>2 DEF ProcessE4
<1>6. CASE FinishJob
  <2>1. PICK j \in jobs, v \in {"succeeded", "failed"} :
          jobs' = (jobs \ {j}) \cup {[j EXCEPT !.state = v, !.ended = now]}
    BY <1>6 DEF FinishJob
  <2> DEFINE done == [j EXCEPT !.state = v, !.ended = now]
  <2>2. /\ done.created = j.created /\ done.ended = now
        /\ ~jobInFlight(done)
    BY DEF TypeOK, Job, jobInFlight
  <2>3. \A x \in jobs' : x \in jobs \/ x = done
    BY <2>1
  <2> HIDE DEF done
  <2>4. AtMostOneInFlight'
    BY <2>2, <2>3 DEF AtMostOneInFlight, jobInFlight
  <2>5. \A x \in jobs' : DatedJob(x)
    BY <1>a, <2>2, <2>3 DEF Dated, DatedJob
  <2> QED
    BY <1>6, <2>4, <2>5 DEF FinishJob, Dated, DatedJob, jobSucceeded
<1>7. CASE ExpireJob
  <2>1. \A x \in jobs' : \E j \in jobs : Inherits(x, j)
    BY <1>7 DEF ExpireJob, Inherits
  <2> QED
    BY <1>7, <1>a, <2>1, NoSpawnSafe DEF ExpireJob
<1>8. CASE Tick
  BY <1>8, <1>0, <1>a, NoSpawnSafe DEF Tick
<1>9. CASE ClearForceE4Annotation
  BY <1>9, <1>0, <1>a, NoSpawnSafe DEF ClearForceE4Annotation
<1>10. CASE ApplyStatus \/ ApplyStatusFails \/ Crash
  BY <1>10, <1>0, <1>a, NoSpawnSafe DEF ApplyStatus, ApplyStatusFails, Crash
<1>11. CASE TolerateMissingCredentials \/ RecordCredentialsFailure
  BY <1>11, <1>0, <1>a, NoSpawnSafe
  DEF TolerateMissingCredentials, RecordCredentialsFailure
<1>12. CASE AnnotateForceRevalidate \/ AnnotateForceE4 \/ EditSpec
            \/ ChangeSecret \/ UNCHANGED vars
  BY <1>12, <1>0, <1>a, NoSpawnSafe
  DEF AnnotateForceRevalidate, AnnotateForceE4, EditSpec, ChangeSecret, vars
<1> QED
  BY <1>1, <1>2, <1>3, <1>4, <1>5, <1>6, <1>7, <1>8, <1>9, <1>10, <1>11, <1>12
  DEF Next, Reconcile, Environment

(* The status write of a reconcile without credentials keeps a verdict     *)
(* beside every timestamp.                                                 *)
LEMMA GapKeepsAnchors ==
  ASSUME TypeOK, AnchorHasVerdict, conds' = credentialsFailed,
         verified' = verified
  PROVE  AnchorHasVerdict'
<1>1. /\ credentialsFailed["MetadataValid"] =
           OrElse(preservedCondition(conds["MetadataValid"]), "Pending")
      /\ credentialsFailed["SampledIntegrityValid"] =
           IF spec.e3
           THEN OrElse(preservedCondition(conds["SampledIntegrityValid"]),
                       "Pending")
           ELSE "Absent"
      /\ credentialsFailed["FullRetrievalCompleted"] =
           fullRetrievalCondition(
             conds["FullRetrievalCompleted"], spec.e4, verified["E4"] # Nil,
             FALSE, preservedCondition(conds["FullRetrievalCompleted"]))
  BY DEF credentialsFailed, applyConditions
<1>2. Real(credentialsFailed["MetadataValid"])
        <=> Real(conds["MetadataValid"])
  BY <1>1 DEF OrElse, preservedCondition, Real
<1>3. Real(credentialsFailed["SampledIntegrityValid"])
        => Real(conds["SampledIntegrityValid"])
  BY <1>1 DEF OrElse, preservedCondition, Real
<1>4. verified["E4"] # Nil /\ Real(conds["FullRetrievalCompleted"])
        => Real(credentialsFailed["FullRetrievalCompleted"])
  BY <1>1 DEF fullRetrievalCondition, preservedCondition, Real
<1> QED
  BY <1>2, <1>3, <1>4 DEF AnchorHasVerdict, Real

(* The same for the status write at the end of a full reconcile.           *)
LEMMA ProbeKeepsAnchors ==
  ASSUME TypeOK, Dated, AnchorHasVerdict, conds' = probedConditions,
         verified' = verifiedAfter
  PROVE  AnchorHasVerdict'
<1>1. /\ probedConditions["MetadataValid"] =
           OrElse(verdictInput("E2"), "Pending")
      /\ probedConditions["SampledIntegrityValid"] =
           IF rec.spec.e3 THEN OrElse(verdictInput("E3"), "Pending")
                          ELSE "Absent"
      /\ probedConditions["FullRetrievalCompleted"] =
           fullRetrievalCondition(
             conds["FullRetrievalCompleted"], rec.spec.e4,
             verifiedAfter["E4"] # Nil, "E4" \in rec.active,
             verdictInput("E4"))
  BY VerdictConditions DEF probedConditions
<1>2. \A l \in Levels : rec.res[l] \in Verdicts
      /\ (rec.res[l] # "none" => rec.at[l] # Nil)
  BY DEF TypeOK, RecType, Dated, Nil, Time
<1>3. /\ CondOf["E2"] = "MetadataValid"
      /\ CondOf["E3"] = "SampledIntegrityValid"
      /\ CondOf["E4"] = "FullRetrievalCompleted"
      /\ "E2" \in Levels /\ "E3" \in Levels /\ "E4" \in Levels
  BY DEF CondOf, Levels
<1>4. verifiedAfter["E2"] # Nil <=> Real(probedConditions["MetadataValid"])
  <2>1. verifiedAfter["E2"] =
          IF rec.res["E2"] # "none" THEN rec.at["E2"]
          ELSE IF carried("E2") THEN verified["E2"] ELSE Nil
    BY <1>3 DEF verifiedAfter, recorded
  <2>2. verdictInput("E2") =
          IF rec.res["E2"] # "none" THEN rec.res["E2"]
          ELSE IF carried("E2") THEN conds["MetadataValid"] ELSE "Absent"
    BY <1>3 DEF verdictInput
  <2> QED
    BY <1>1, <1>2, <1>3, <2>1, <2>2 DEF carried, Real, OrElse, Verdicts
<1>5. Real(probedConditions["SampledIntegrityValid"])
        => verifiedAfter["E3"] # Nil
  <2>1. verifiedAfter["E3"] =
          IF rec.res["E3"] # "none" THEN rec.at["E3"]
          ELSE IF carried("E3") THEN verified["E3"] ELSE Nil
    BY <1>3 DEF verifiedAfter, recorded
  <2>2. verdictInput("E3") =
          IF rec.res["E3"] # "none" THEN rec.res["E3"]
          ELSE IF carried("E3") THEN conds["SampledIntegrityValid"]
          ELSE "Absent"
    BY <1>3 DEF verdictInput
  <2> QED
    BY <1>1, <1>2, <1>3, <2>1, <2>2 DEF carried, Real, OrElse, Verdicts
<1>6. verifiedAfter["E4"] # Nil
        => Real(probedConditions["FullRetrievalCompleted"])
  <2>1. verifiedAfter["E4"] # Nil => rec.res["E4"] # "none" \/ carried("E4")
    BY <1>3 DEF verifiedAfter, recorded
  <2>2. rec.res["E4"] # "none" \/ carried("E4") => Real(verdictInput("E4"))
    BY <1>2, <1>3 DEF verdictInput, carried, Real, Verdicts
  <2> QED
    BY <1>1, <2>1, <2>2 DEF fullRetrievalCondition, Real
<1> QED
  BY <1>4, <1>5, <1>6 DEF AnchorHasVerdict, Real

(* Every step keeps timestamps and verdicts together.                      *)
LEMMA AnchorsPreserved ==
  ASSUME TypeOK, Dated, AnchorHasVerdict, [Next]_vars
  PROVE  AnchorHasVerdict'
<1> USE DEF status
<1>1. CASE UNCHANGED <<verified, conds>>
  BY <1>1 DEF AnchorHasVerdict, Real
<1>2. CASE RecordCredentialsFailure
  <2>1. verified' = verified /\ (conds' = conds \/ conds' = credentialsFailed)
    BY <1>2 DEF RecordCredentialsFailure
  <2> QED
    BY <1>1, <2>1, GapKeepsAnchors
<1>3. CASE ApplyStatus
  BY <1>3, ProbeKeepsAnchors DEF ApplyStatus
<1>4. CASE Begin \/ TolerateMissingCredentials \/ ProcessE2 \/ ProcessE3
           \/ PanicE3 \/ ProcessE4 \/ ClearForceE4Annotation
           \/ ApplyStatusFails \/ Crash
  BY <1>1, <1>4
  DEF Begin, TolerateMissingCredentials, ProcessE2, ProcessE3, PanicE3,
      ProcessE4, ClearForceE4Annotation, ApplyStatusFails, Crash
<1>5. CASE Tick \/ FinishJob \/ ExpireJob \/ AnnotateForceRevalidate
           \/ AnnotateForceE4 \/ EditSpec \/ ChangeSecret \/ UNCHANGED vars
  BY <1>1, <1>5
  DEF Tick, FinishJob, ExpireJob, AnnotateForceRevalidate, AnnotateForceE4,
      EditSpec, ChangeSecret, vars
<1> QED
  BY <1>2, <1>3, <1>4, <1>5 DEF Next, Reconcile, Environment

(* The inductive invariant holds initially.                                *)
LEMMA SafetyInit == Init => SafetyInv
<1> SUFFICES ASSUME Init PROVE SafetyInv
  OBVIOUS
<1>1. TypeOK
  BY TypeInit
<1>2. AtMostOneInFlight /\ Dated
  BY DEF Init, AtMostOneInFlight, Dated, IdleRec
<1>3. AnchorHasVerdict
  BY DEF Init, AnchorHasVerdict, NoConditions, CondTypes, Levels, Real
<1> QED
  BY <1>1, <1>2, <1>3 DEF SafetyInv

(* The inductive invariant is preserved by every step.                     *)
LEMMA SafetyPreserved == SafetyInv /\ [Next]_vars => SafetyInv'
BY TypePreserved, JobsPreserved, AnchorsPreserved DEF SafetyInv

(* The inductive invariant holds in every reachable state.                 *)
THEOREM SafetyInvariant == Spec => []SafetyInv
BY SafetyInit, SafetyPreserved, PTL DEF Spec

(* Whatever fails or restarts, no level of a BR has two Jobs in flight.    *)
THEOREM OneJobPerLevel == Spec => []AtMostOneInFlight
<1>1. SafetyInv => AtMostOneInFlight
  BY DEF SafetyInv
<1> QED
  BY <1>1, SafetyInvariant, PTL

(* A timestamp that delays the next run never outlives its verdict.        *)
THEOREM VerdictBesideTimestamp == Spec => []AnchorHasVerdict
<1>1. SafetyInv => AnchorHasVerdict
  BY DEF SafetyInv
<1> QED
  BY <1>1, SafetyInvariant, PTL

-----------------------------------------------------------------------------
(* Sequencing.  What the reconcile found out about E2, and about E3 if it  *)
(* is enabled, still holds when a later level is processed: only this      *)
(* reconcile creates Jobs.                                                 *)
Gated ==
  /\ pc \in {"e3", "e4"} => ~InFlight("E2")
  /\ pc = "e4" /\ rec.spec.e3 => ~InFlight("E3")

(* The step of a level that ends without noting an active Job leaves none  *)
(* of this level, and one of another level creates none of this one.       *)
LEMMA LevelFlights ==
  ASSUME TypeOK, NEW l \in Levels, NEW m \in BOOLEAN, NEW s \in BOOLEAN,
         NEW r \in ingestResults(l), NEW stats \in BOOLEAN,
         ProcessLevel(l, m, s, r, stats), NEW k \in Levels, ~InFlight(k),
         k # l \/ ~s
  PROVE  ~InFlight(k)'
<1>1. NewJob(l, rec.gen, m).lvl = l
  BY DEF NewJob
<1>2. ASSUME NEW x \in jobs', x.lvl = k, jobInFlight(x) PROVE FALSE
  <2>1. x \in jobs
    BY <1>1, <1>2, LevelJobs DEF Inherits
  <2> QED
    BY <1>2, <2>1 DEF InFlight, JobsOf
<1> QED
  BY <1>2 DEF InFlight, JobsOf, jobInFlight

(* A step that creates no Job of any level.                                *)
LEMMA NoNewFlights ==
  ASSUME \A x \in jobs' : jobInFlight(x) => x \in jobs,
         NEW k \in Levels, ~InFlight(k)
  PROVE  ~InFlight(k)'
BY DEF InFlight, JobsOf, jobInFlight

(* Every step keeps the gates closed while an earlier level runs.          *)
LEMMA GatePreserved ==
  ASSUME "list" \notin Faults, TypeOK, Gated, [Next]_vars
  PROVE  Gated'
<1> USE DEF cluster, status, memory
<1>0. "E2" \in Levels /\ "E3" \in Levels /\ "E4" \in Levels /\ "E2" # "E3"
  BY DEF Levels
<1>1. CASE ProcessE2
  <2>1. PICK r \in ingestResults("E2"), s \in spawnOutcomes("E2", wantE2) :
          ProcessLevel("E2", FALSE, s, r, FALSE)
    BY <1>1 DEF ProcessE2, ListFails
  <2>2. /\ rec'.active = IF s \/ InFlight("E2") THEN rec.active \cup {"E2"}
                                                ELSE rec.active
        /\ rec'.spec = rec.spec
    BY <2>1 DEF ProcessLevel, TypeOK, RecType
  <2>a. s \in BOOLEAN
    BY SpawnsWhenNoneActive
  <2>3. pc' \in {"e3", "e4"} => ~s /\ ~InFlight("E2")
    BY <1>1, <2>2, SpawnsWhenNoneActive DEF ProcessE2, afterE2
  <2>4. pc' = "e4" => ~rec'.spec.e3
    BY <1>1, <2>2 DEF ProcessE2, afterE2
  <2>5. pc' \in {"e3", "e4"} => ~InFlight("E2")'
    BY <1>0, <2>1, <2>3, <2>a, LevelFlights
  <2> QED
    BY <2>4, <2>5 DEF Gated
<1>2. CASE ProcessE3
  <2>1. PICK r \in ingestResults("E3"), s \in spawnOutcomes("E3", wantE3) :
          ProcessLevel("E3", FALSE, s, r, FALSE)
    BY <1>2 DEF ProcessE3, ListFails
  <2>2. rec'.active = IF s \/ InFlight("E3") THEN rec.active \cup {"E3"}
                                             ELSE rec.active
    BY <2>1 DEF ProcessLevel, TypeOK, RecType
  <2>3. s \in BOOLEAN /\ ~InFlight("E2")
    BY <1>2, SpawnsWhenNoneActive DEF ProcessE3, Gated
  <2>4. ~InFlight("E2")'
    BY <1>0, <2>1, <2>3, LevelFlights
  <2>5. pc' = "e4" => ~s /\ ~InFlight("E3")
    BY <1>2, <2>2 DEF ProcessE3
  <2>6. pc' = "e4" => ~InFlight("E3")'
    BY <1>0, <2>1, <2>3, <2>5, LevelFlights
  <2> QED
    BY <2>4, <2>6 DEF Gated
<1>3. CASE pc' \notin {"e3", "e4"}
  BY <1>3 DEF Gated
<1>4. CASE /\ pc' = pc /\ rec' = rec
           /\ \A x \in jobs' : jobInFlight(x) => x \in jobs
  BY <1>0, <1>4, NoNewFlights DEF Gated
<1>5. CASE Begin \/ PanicE3 \/ ProcessE4 \/ ClearForceE4Annotation
           \/ ApplyStatus \/ ApplyStatusFails \/ Crash
  BY <1>3, <1>5
  DEF Begin, PanicE3, ProcessE4, ClearForceE4Annotation, ApplyStatus,
      ApplyStatusFails, Crash
<1>6. CASE TolerateMissingCredentials \/ RecordCredentialsFailure
  BY <1>3, <1>6 DEF TolerateMissingCredentials, RecordCredentialsFailure
<1>7. CASE FinishJob
  <2>1. PICK j \in jobs, v \in {"succeeded", "failed"} :
          jobs' = (jobs \ {j}) \cup {[j EXCEPT !.state = v, !.ended = now]}
    BY <1>7 DEF FinishJob
  <2>2. [j EXCEPT !.state = v, !.ended = now].state = v
    BY DEF TypeOK, Job
  <2>3. \A x \in jobs' : jobInFlight(x) => x \in jobs
    BY <2>1, <2>2 DEF jobInFlight
  <2> QED
    BY <1>4, <1>7, <2>3 DEF FinishJob
<1>8. CASE ExpireJob
  BY <1>4, <1>8 DEF ExpireJob
<1>9. CASE Tick \/ AnnotateForceRevalidate \/ AnnotateForceE4 \/ EditSpec
           \/ ChangeSecret \/ UNCHANGED vars
  BY <1>4, <1>9
  DEF Tick, AnnotateForceRevalidate, AnnotateForceE4, EditSpec, ChangeSecret,
      vars
<1> QED
  BY <1>1, <1>2, <1>5, <1>6, <1>7, <1>8, <1>9 DEF Next, Reconcile, Environment

(* The Job a level creates is of that level.                               *)
LEMMA LevelCreates ==
  ASSUME TypeOK, NEW l \in Levels, NEW m \in BOOLEAN, NEW s \in BOOLEAN,
         NEW r \in ingestResults(l), NEW stats \in BOOLEAN,
         ProcessLevel(l, m, s, r, stats), NEW j \in jobs', Created(j)
  PROVE  j.lvl = l
<1>1. j = NewJob(l, rec.gen, m)
  BY LevelJobs DEF Created, Inherits
<1> QED
  BY <1>1 DEF NewJob

(* A step that creates a Job respects the sequence of the levels.          *)
LEMMA SequencedStep ==
  ASSUME "list" \notin Faults, TypeOK, Gated, [Next]_vars,
         NEW j \in jobs', Created(j)
  PROVE  /\ j.lvl # "E2" => ~InFlight("E2")
         /\ j.lvl = "E4" /\ rec.spec.e3 => ~InFlight("E3")
<1> USE DEF cluster, status, memory
<1>0. "E2" \in Levels /\ "E3" \in Levels /\ "E4" \in Levels
  BY DEF Levels
<1>1. CASE ProcessE2
  <2>1. j.lvl = "E2"
    <3>1. PICK r \in ingestResults("E2"), s \in spawnOutcomes("E2", wantE2) :
            ProcessLevel("E2", FALSE, s, r, FALSE)
      BY <1>1 DEF ProcessE2, ListFails
    <3>2. s \in BOOLEAN
      BY SpawnsWhenNoneActive
    <3> QED
      BY <1>0, <3>1, <3>2, LevelCreates
  <2> QED
    BY <2>1
<1>2. CASE ProcessE3
  <2>1. j.lvl = "E3"
    <3>1. PICK r \in ingestResults("E3"), s \in spawnOutcomes("E3", wantE3) :
            ProcessLevel("E3", FALSE, s, r, FALSE)
      BY <1>2 DEF ProcessE3, ListFails
    <3>2. s \in BOOLEAN
      BY SpawnsWhenNoneActive
    <3> QED
      BY <1>0, <3>1, <3>2, LevelCreates
  <2> QED
    BY <1>2, <2>1 DEF Gated, ProcessE3
<1>3. CASE ProcessE4
  BY <1>3 DEF Gated, ProcessE4
<1>4. CASE \A x \in jobs' : jobInFlight(x) => x \in jobs
  BY <1>4 DEF Created
<1>5. CASE PanicE3
  <2>1. PICK r \in ingestResults("E3") : jobs' = recordValidationRun(jobs, r.job)
    BY <1>5 DEF PanicE3
  <2>2. r.job \in SUBSET Completed("E3")
    BY <1>0, IngestedIsCompleted
  <2>3. \A x \in jobs' : jobInFlight(x) => x \in jobs
    BY <1>0, <2>1, <2>2, CountingInherits DEF Inherits
  <2> QED
    BY <1>4, <2>3
<1>6. CASE FinishJob
  <2>1. PICK k \in jobs, v \in {"succeeded", "failed"} :
          jobs' = (jobs \ {k}) \cup {[k EXCEPT !.state = v, !.ended = now]}
    BY <1>6 DEF FinishJob
  <2>2. [k EXCEPT !.state = v, !.ended = now].state = v
    BY DEF TypeOK, Job
  <2>3. \A x \in jobs' : jobInFlight(x) => x \in jobs
    BY <2>1, <2>2 DEF jobInFlight
  <2> QED
    BY <1>4, <2>3
<1>7. CASE Begin \/ TolerateMissingCredentials \/ RecordCredentialsFailure
           \/ ClearForceE4Annotation \/ ApplyStatus \/ ApplyStatusFails \/ Crash
  BY <1>4, <1>7
  DEF Begin, TolerateMissingCredentials, RecordCredentialsFailure,
      ClearForceE4Annotation, ApplyStatus, ApplyStatusFails, Crash
<1>8. CASE Tick \/ ExpireJob \/ AnnotateForceRevalidate \/ AnnotateForceE4
           \/ EditSpec \/ ChangeSecret \/ UNCHANGED vars
  BY <1>4, <1>8
  DEF Tick, ExpireJob, AnnotateForceRevalidate, AnnotateForceE4, EditSpec,
      ChangeSecret, vars
<1> QED
  BY <1>1, <1>2, <1>3, <1>5, <1>6, <1>7, <1>8 DEF Next, Reconcile, Environment

(* As long as the Jobs can be listed, no Job of a later level is created   *)
(* while one of an earlier level that the reconcile looked at is in        *)
(* flight, for any spec edits, crashes, failing calls and Job durations.   *)
THEOREM Sequencing ==
  ASSUME "list" \notin Faults
  PROVE  Spec => SpawnsAreSequenced
<1>1. Init => Gated
  BY DEF Init, Gated
<1>2. TypeOK /\ Gated /\ [Next]_vars => Gated'
  BY GatePreserved
<1>3. TypeOK /\ Gated /\ [Next]_vars =>
        [\A j \in jobs' : Created(j) =>
           /\ j.lvl # "E2" => ~InFlight("E2")
           /\ j.lvl = "E4" /\ rec.spec.e3 => ~InFlight("E3")]_vars
  BY SequencedStep
<1> QED
  BY <1>1, <1>2, <1>3, TypeCorrect, PTL DEF Spec, SpawnsAreSequenced
=============================================================================
