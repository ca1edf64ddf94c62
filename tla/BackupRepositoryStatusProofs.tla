-------------------- MODULE BackupRepositoryStatusProofs --------------------
(***************************************************************************)
(* Proofs about what the status of a BackupRepository says, for all values *)
(* of its constants:                                                       *)
(*   SpecIsShown      a current observedGeneration shows the current spec; *)
(*   GapIsNoEvidence  missing credentials leave the verdicts alone;        *)
(*   NewestDecides    the newest finished Job decides its level;           *)
(*   HonoredWhenFresh a force-revalidate is honored after fresh runs;      *)
(*   CountsOnce       no Job is counted twice.                             *)
(* The last three have hypotheses, each of which is needed.                *)
(***************************************************************************)
EXTENDS BackupRepositoryRefinement

-----------------------------------------------------------------------------
(* The observed generation                                                 *)

(* The generation a reconcile or the status refers to is one the spec had, *)
(* and the newest one stands for the spec as it is.                        *)
Generations ==
  /\ gen >= 1 /\ obsGen <= gen /\ rec.gen <= gen
  /\ rec.gen = gen => rec.spec = spec

(* A condition list for the spec sp holds the optional conditions sp asks  *)
(* for.                                                                    *)
Shows(cs, sp) ==
  /\ cs["SampledIntegrityValid"] # "Absent" <=> sp.e3
  /\ cs["SizeWithinBudget"] # "Absent" <=> sp.budget
  /\ sp.e4 => cs["FullRetrievalCompleted"] # "Absent"

(* applyConditions writes such a list.                                     *)
LEMMA ApplyShows ==
  ASSUME NEW old, NEW sp \in SpecType, NEW inv, NEW hasResult, NEW in
  PROVE  Shows(applyConditions(old, sp, inv, hasResult, in), sp)
<1> DEFINE cs == applyConditions(old, sp, inv, hasResult, in)
<1>1. /\ cs["SampledIntegrityValid"] =
           IF sp.e3 THEN OrElse(in.sampledIntegrityValid, "Pending")
                    ELSE "Absent"
      /\ cs["SizeWithinBudget"] =
           IF sp.budget THEN computeSizeWithinBudget(inv) ELSE "Absent"
      /\ cs["FullRetrievalCompleted"] =
           fullRetrievalCondition(old, sp.e4, hasResult, in.e4JobActive,
                                  in.fullRetrievalCompleted)
  BY DEF applyConditions
<1> HIDE DEF cs
<1>2. cs["SampledIntegrityValid"] # "Absent" <=> sp.e3
  BY <1>1 DEF OrElse
<1>3. cs["SizeWithinBudget"] # "Absent" <=> sp.budget
  BY <1>1 DEF computeSizeWithinBudget, condFromBool
<1>4. sp.e4 => cs["FullRetrievalCompleted"] # "Absent"
  BY <1>1 DEF fullRetrievalCondition, OrElse
<1>5. Shows(cs, sp)
  BY <1>2, <1>3, <1>4 DEF Shows
<1> QED
  BY <1>5 DEF cs

(* The generations and the optional conditions stay in step.               *)
LEMMA ShownPreserved ==
  ASSUME TypeOK, Generations, ObservedSpecIsShown, [Next]_vars
  PROVE  Generations' /\ ObservedSpecIsShown'
<1> USE DEF cluster, status, memory
<1>0. /\ gen \in Nat /\ obsGen \in Nat /\ rec.gen \in Nat /\ IdleRec.gen = 0
      /\ spec \in SpecType /\ rec.spec \in SpecType
  BY DEF TypeOK, RecType, IdleRec
<1>a. ASSUME UNCHANGED <<spec, gen, conds, obsGen>>,
             \/ rec'.gen = rec.gen /\ rec'.spec = rec.spec
             \/ rec'.gen = 0
             \/ rec'.gen = gen /\ rec'.spec = spec
      PROVE  Generations' /\ ObservedSpecIsShown'
  BY <1>0, <1>a DEF Generations, ObservedSpecIsShown
<1>1. CASE Begin
  <2>1. rec'.gen = gen /\ rec'.spec = spec
    BY <1>1 DEF Begin, IdleRec
  <2> QED
    BY <1>1, <1>a, <2>1 DEF Begin
<1>2. CASE RecordCredentialsFailure
  <2>1. CASE UNCHANGED <<conds, obsGen>>
    BY <1>2, <1>a, <2>1 DEF RecordCredentialsFailure
  <2>2. CASE conds' = credentialsFailed /\ obsGen' = gen
    <3>1. Shows(conds', spec)
      BY <1>0, <2>2, ApplyShows DEF credentialsFailed
    <3> QED
      BY <1>0, <1>2, <2>2, <3>1
      DEF RecordCredentialsFailure, Shows, Generations, ObservedSpecIsShown
  <2> QED
    BY <1>2, <2>1, <2>2 DEF RecordCredentialsFailure
<1>3. CASE ProcessE2 \/ ProcessE3 \/ ProcessE4
  <2>1. rec'.gen = rec.gen /\ rec'.spec = rec.spec
    BY <1>3 DEF ProcessE2, ProcessE3, ProcessE4, ListFails, ProcessLevel,
                TypeOK, RecType
  <2> QED
    BY <1>3, <1>a, <2>1 DEF ProcessE2, ProcessE3, ProcessE4
<1>4. CASE ClearForceE4Annotation
  <2>1. \/ rec' = rec
        \/ rec'.gen = gen /\ rec'.spec = spec
    BY <1>4 DEF ClearForceE4Annotation, TypeOK, RecType
  <2> QED
    BY <1>4, <1>a, <2>1 DEF ClearForceE4Annotation
<1>5. CASE ApplyStatus
  <2>1. /\ conds' = probedConditions /\ obsGen' = rec.gen /\ rec'.gen = 0
        /\ UNCHANGED <<spec, gen>>
    BY <1>5 DEF ApplyStatus, observedGeneration, IdleRec
  <2>2. Shows(conds', rec.spec)
    BY <1>0, <2>1, ApplyShows DEF probedConditions
  <2> QED
    BY <1>0, <2>1, <2>2 DEF Shows, Generations, ObservedSpecIsShown
<1>6. CASE PanicE3 \/ ApplyStatusFails \/ Crash
  BY <1>0, <1>6, <1>a DEF PanicE3, ApplyStatusFails, Crash
<1>7. CASE EditSpec
  <2>1. gen' = gen + 1 /\ UNCHANGED <<conds, obsGen, rec>>
    BY <1>7 DEF EditSpec
  <2> QED
    BY <1>0, <2>1 DEF Generations, ObservedSpecIsShown
<1>8. CASE TolerateMissingCredentials \/ Tick \/ FinishJob \/ ExpireJob
           \/ AnnotateForceRevalidate \/ AnnotateForceE4 \/ ChangeSecret
           \/ UNCHANGED vars
  BY <1>8, <1>a
  DEF TolerateMissingCredentials, Tick, FinishJob, ExpireJob,
      AnnotateForceRevalidate, AnnotateForceE4, ChangeSecret, vars
<1> QED
  BY <1>1, <1>2, <1>3, <1>4, <1>5, <1>6, <1>7, <1>8
  DEF Next, Reconcile, Environment

(* Whenever the spec is edited, even between the calls of a reconcile,     *)
(* and whatever fails, a status whose observedGeneration is current has    *)
(* the optional conditions of the current spec.                            *)
THEOREM SpecIsShown == Spec => []ObservedSpecIsShown
<1>1. Init => Generations /\ ObservedSpecIsShown
  BY DEF Init, Generations, ObservedSpecIsShown, IdleRec, Nil
<1>2. TypeOK /\ Generations /\ ObservedSpecIsShown /\ [Next]_vars
        => Generations' /\ ObservedSpecIsShown'
  BY ShownPreserved
<1> QED
  BY <1>1, <1>2, TypeCorrect, PTL DEF Spec

-----------------------------------------------------------------------------
(* The credential gap                                                      *)

(* The status write of a reconcile without credentials keeps the verdicts  *)
(* of the enabled levels.                                                  *)
LEMMA GapKeeps ==
  ASSUME NEW l \in Levels, conds' = credentialsFailed,
         Real(conds[CondOf[l]]), verified[l] # Nil, l = "E3" => spec.e3
  PROVE  conds'[CondOf[l]] = conds[CondOf[l]]
<1>1. /\ conds'["MetadataValid"] =
           OrElse(preservedCondition(conds["MetadataValid"]), "Pending")
      /\ conds'["SampledIntegrityValid"] =
           IF spec.e3
           THEN OrElse(preservedCondition(conds["SampledIntegrityValid"]),
                       "Pending")
           ELSE "Absent"
      /\ conds'["FullRetrievalCompleted"] =
           fullRetrievalCondition(
             conds["FullRetrievalCompleted"], spec.e4, verified["E4"] # Nil,
             FALSE, preservedCondition(conds["FullRetrievalCompleted"]))
  BY DEF credentialsFailed, applyConditions
<1>2. /\ CondOf["E2"] = "MetadataValid"
      /\ CondOf["E3"] = "SampledIntegrityValid"
      /\ CondOf["E4"] = "FullRetrievalCompleted"
      /\ l \in {"E2", "E3", "E4"}
  BY DEF CondOf, Levels
<1> QED
  BY <1>1, <1>2
  DEF OrElse, preservedCondition, fullRetrievalCondition, Real

(* Whatever happens to the credentials and whichever patch fails, no       *)
(* reconcile without credentials, and nothing between two reconciles,      *)
(* touches a recorded verdict of an enabled level.                         *)
THEOREM GapIsNoEvidence == Spec => GapKeepsVerdicts
<1> USE DEF cluster, status, memory
<1>1. ASSUME [Next]_vars, pc = "idle", pc' = "idle"
      PROVE  conds' = conds \/ conds' = credentialsFailed
  <2>1. CASE Reconcile
    BY <1>1, <2>1
    DEF Reconcile, Begin, TolerateMissingCredentials,
        RecordCredentialsFailure, ProcessE2, ProcessE3, PanicE3, ProcessE4,
        ClearForceE4Annotation, ApplyStatus, ApplyStatusFails
  <2>2. CASE Environment
    BY <2>2
    DEF Environment, Tick, FinishJob, ExpireJob, AnnotateForceRevalidate,
        AnnotateForceE4, EditSpec, ChangeSecret, Crash
  <2> QED
    BY <1>1, <2>1, <2>2 DEF Next, vars
<1>2. [Next]_vars =>
        [pc = "idle" /\ pc' = "idle" =>
           \A l \in Levels :
             /\ Real(conds[CondOf[l]]) /\ verified[l] # Nil
             /\ l = "E3" => spec.e3
             => conds'[CondOf[l]] = conds[CondOf[l]]]_vars
  BY <1>1, GapKeeps
<1> QED
  BY <1>2, PTL DEF Spec, GapKeepsVerdicts

-----------------------------------------------------------------------------
(* The newest run                                                          *)

(* A Job ends no earlier than it was created, and neither is in the future.*)
Ordered ==
  \A j \in jobs : j.created <= now /\ (~jobInFlight(j) => j.created <= j.ended)

(* A step that creates no Job and ends none keeps the order.               *)
LEMMA OrderedRuns ==
  ASSUME TypeOK, Ordered, now' \in Nat, now' >= now,
         \A x \in jobs' : \E j \in jobs : Inherits(x, j)
  PROVE  Ordered'
<1>1. ASSUME NEW x \in jobs'
      PROVE  x.created <= now' /\ (x.state # "active" => x.created <= x.ended)
  <2>1. PICK j \in jobs : Inherits(x, j)
    OBVIOUS
  <2>2. j.created \in Nat /\ now \in Nat
    BY DEF TypeOK, Job, Time
  <2> QED
    BY <2>1, <2>2 DEF Inherits, Ordered, jobInFlight
<1> QED
  BY <1>1 DEF Ordered, jobInFlight

(* Neither does the step of a level.                                       *)
LEMMA LevelOrdered ==
  ASSUME TypeOK, Ordered, NEW l \in Levels, NEW m \in BOOLEAN,
         NEW s \in BOOLEAN, NEW r \in ingestResults(l), NEW stats \in BOOLEAN,
         ProcessLevel(l, m, s, r, stats), UNCHANGED now
  PROVE  Ordered'
<1>1. ASSUME NEW x \in jobs'
      PROVE  x.created <= now' /\ (x.state # "active" => x.created <= x.ended)
  <2>1. now \in Nat
    BY DEF TypeOK, Time
  <2>2. CASE x = NewJob(l, rec.gen, m)
    BY <2>1, <2>2 DEF NewJob
  <2>3. CASE \E j \in jobs : Inherits(x, j)
    BY <2>1, <2>3 DEF Inherits, Ordered, jobInFlight
  <2> QED
    BY <2>2, <2>3, LevelJobs
<1> QED
  BY <1>1 DEF Ordered, jobInFlight

(* Every step keeps the timestamps of the Jobs in order.                   *)
LEMMA OrderPreserved ==
  ASSUME TypeOK, Ordered, [Next]_vars
  PROVE  Ordered'
<1> USE DEF cluster, status, memory
<1>0. /\ now \in Nat /\ now >= now
      /\ "E2" \in Levels /\ "E3" \in Levels /\ "E4" \in Levels
      /\ jobs' = jobs => \A x \in jobs' : \E j \in jobs : Inherits(x, j)
  BY DEF TypeOK, Time, Levels, Inherits
<1>1. CASE ProcessE2
  <2>1. CASE ListFails
    BY <1>0, <1>1, <2>1, OrderedRuns DEF ProcessE2, ListFails
  <2>2. CASE \E r \in ingestResults("E2"), s \in spawnOutcomes("E2", wantE2) :
               ProcessLevel("E2", FALSE, s, r, FALSE)
    <3>1. PICK r \in ingestResults("E2"), s \in spawnOutcomes("E2", wantE2) :
            ProcessLevel("E2", FALSE, s, r, FALSE)
      BY <2>2
    <3>2. s \in BOOLEAN
      BY SpawnsWhenNoneActive
    <3> QED
      BY <1>0, <1>1, <3>1, <3>2, LevelOrdered DEF ProcessE2
  <2> QED
    BY <1>1, <2>1, <2>2 DEF ProcessE2
<1>2. CASE ProcessE3
  <2>1. CASE ListFails
    BY <1>0, <1>2, <2>1, OrderedRuns DEF ProcessE3, ListFails
  <2>2. CASE \E r \in ingestResults("E3"), s \in spawnOutcomes("E3", wantE3) :
               ProcessLevel("E3", FALSE, s, r, FALSE)
    <3>1. PICK r \in ingestResults("E3"), s \in spawnOutcomes("E3", wantE3) :
            ProcessLevel("E3", FALSE, s, r, FALSE)
      BY <2>2
    <3>2. s \in BOOLEAN
      BY SpawnsWhenNoneActive
    <3> QED
      BY <1>0, <1>2, <3>1, <3>2, LevelOrdered DEF ProcessE3
  <2> QED
    BY <1>2, <2>1, <2>2 DEF ProcessE3
<1>3. CASE ProcessE4
  <2>1. CASE ListFails
    BY <1>0, <1>3, <2>1, OrderedRuns DEF ProcessE4, ListFails
  <2>2. CASE \E r \in ingestResults("E4"), s \in spawnOutcomes("E4", wantE4) :
               \E stats \in parseE4Stats(r) :
                 ProcessLevel("E4", "E4" \in rec.need, s, r, stats)
    <3>1. PICK r \in ingestResults("E4"), s \in spawnOutcomes("E4", wantE4) :
            \E stats \in parseE4Stats(r) :
              ProcessLevel("E4", "E4" \in rec.need, s, r, stats)
      BY <2>2
    <3>2. /\ s \in BOOLEAN /\ parseE4Stats(r) \subseteq BOOLEAN
          /\ ("E4" \in rec.need) \in BOOLEAN
      BY SpawnsWhenNoneActive, StatsAreBoolean
    <3> QED
      BY <1>0, <1>3, <3>1, <3>2, LevelOrdered DEF ProcessE4
  <2> QED
    BY <1>3, <2>1, <2>2 DEF ProcessE4
<1>4. CASE PanicE3
  <2>1. PICK r \in ingestResults("E3") : jobs' = recordValidationRun(jobs, r.job)
    BY <1>4 DEF PanicE3
  <2>2. \A x \in jobs' : \E j \in jobs : Inherits(x, j)
    BY <1>0, <2>1, IngestedIsCompleted, CountingInherits
  <2> QED
    BY <1>0, <1>4, <2>2, OrderedRuns DEF PanicE3
<1>5. CASE FinishJob
  <2>1. PICK j \in jobs, v \in {"succeeded", "failed"} :
          jobs' = (jobs \ {j}) \cup {[j EXCEPT !.state = v, !.ended = now]}
    BY <1>5 DEF FinishJob
  <2> DEFINE done == [j EXCEPT !.state = v, !.ended = now]
  <2>2. done.created = j.created /\ done.ended = now
    BY DEF TypeOK, Job
  <2>3. \A x \in jobs' : x \in jobs \/ x = done
    BY <2>1
  <2>4. now' = now
    BY <1>5 DEF FinishJob
  <2> HIDE DEF done
  <2> QED
    BY <2>2, <2>3, <2>4 DEF Ordered, jobInFlight
<1>6. CASE ExpireJob
  <2>1. \A x \in jobs' : \E j \in jobs : Inherits(x, j)
    BY <1>6 DEF ExpireJob, Inherits
  <2> QED
    BY <1>0, <1>6, <2>1, OrderedRuns DEF ExpireJob
<1>7. CASE Tick
  BY <1>0, <1>7, OrderedRuns DEF Tick
<1>8. CASE Begin \/ TolerateMissingCredentials \/ RecordCredentialsFailure
           \/ ClearForceE4Annotation \/ ApplyStatus \/ ApplyStatusFails \/ Crash
  BY <1>0, <1>8, OrderedRuns
  DEF Begin, TolerateMissingCredentials, RecordCredentialsFailure,
      ClearForceE4Annotation, ApplyStatus, ApplyStatusFails, Crash
<1>9. CASE AnnotateForceRevalidate \/ AnnotateForceE4 \/ EditSpec
           \/ ChangeSecret \/ UNCHANGED vars
  BY <1>0, <1>9, OrderedRuns
  DEF AnnotateForceRevalidate, AnnotateForceE4, EditSpec, ChangeSecret, vars
<1> QED
  BY <1>1, <1>2, <1>3, <1>4, <1>5, <1>6, <1>7, <1>8, <1>9
  DEF Next, Reconcile, Environment

(* The newest run of a level, if it was created after the run on record    *)
(* and shares no completion stamp, is the one the level ingests.           *)
LEMMA NewestIsIngested ==
  ASSUME TypeOK, Ordered, NEW l \in Levels, NEW j \in jobs, NewestRun(l, j),
         verified[l] <= j.created, verified[l] # jobCompletionTime(j),
         \A k \in Completed(l) \ {j} :
           jobCompletionTime(k) # jobCompletionTime(j),
         NEW r \in ingestResults(l)
  PROVE  r.res = verdictOf(j)
<1>1. \A k \in Completed(l) : /\ k.created \in Nat /\ k.ended \in Nat
                              /\ k.created <= k.ended
                              /\ jobCompletionTime(k) \in {k.created, k.ended}
  BY DEF TypeOK, Job, Time, Completed, JobsOf, Ordered, jobCompletionTime
<1>2. j \in Completed(l) /\ \A k \in Completed(l) \ {j} : k.ended <= j.created
  BY DEF NewestRun
<1>3. \A k \in Completed(l) : jobCompletionTime(k) <= jobCompletionTime(j)
  BY <1>1, <1>2
<1>4. \A k \in Completed(l) \ {j} : ~(jobCompletionTime(j) <= jobCompletionTime(k))
  BY <1>1, <1>2
<1>5. pickLatestCompletedJob(l) = {j}
  BY <1>2, <1>3, <1>4 DEF pickLatestCompletedJob
<1>6. verified[l] \in Nat
  BY DEF TypeOK, Time
<1>7. ~alreadyIngested(l, j)
  BY <1>1, <1>2, <1>6 DEF alreadyIngested
<1>8. toIngest(l) = {j}
  BY <1>5, <1>7 DEF toIngest
<1>9. r = [res |-> verdictOf(j), at |-> jobCompletionTime(j),
           manual |-> j.manual, job |-> {j}]
  BY <1>8 DEF ingestResults
<1> QED
  BY <1>9

(* As long as the Jobs can be listed, the newest finished run of a level   *)
(* decides its verdict the next time the level is inspected, for any Job   *)
(* durations, cadences, crashes and failing calls.                         *)
THEOREM NewestDecides ==
  ASSUME "list" \notin Faults
  PROVE  Spec => NewestRunDecides
<1> USE DEF cluster, status, memory
<1>0. "E2" \in Levels /\ "E3" \in Levels /\ "E4" \in Levels
  BY DEF Levels
<1>1. Init => Ordered
  BY DEF Init, Ordered
<1>2. TypeOK /\ Ordered /\ [Next]_vars => Ordered'
  BY OrderPreserved
<1>3. ASSUME TypeOK, Dated, [Next]_vars, NEW l \in Levels, Inspects(l)
      PROVE  \E r \in ingestResults(l) : rec'.res[l] = r.res
  <2>1. CASE l = "E2"
    <3>1. ProcessE2
      BY <1>3, <2>1
      DEF Inspects, Next, Reconcile, Environment, Begin,
          TolerateMissingCredentials, RecordCredentialsFailure, ProcessE3,
          PanicE3, ProcessE4, ClearForceE4Annotation, ApplyStatus,
          ApplyStatusFails, Tick, FinishJob, ExpireJob,
          AnnotateForceRevalidate, AnnotateForceE4, EditSpec, ChangeSecret,
          Crash, vars
    <3>2. PICK r \in ingestResults("E2"), s \in spawnOutcomes("E2", wantE2) :
            ProcessLevel("E2", FALSE, s, r, FALSE)
      BY <3>1 DEF ProcessE2, ListFails
    <3>3. s \in BOOLEAN
      BY SpawnsWhenNoneActive
    <3> QED
      BY <1>0, <1>3, <2>1, <3>2, <3>3, LevelReads
  <2>2. CASE l = "E3"
    <3>1. ProcessE3
      BY <1>3, <2>2
      DEF Inspects, Next, Reconcile, Environment, Begin,
          TolerateMissingCredentials, RecordCredentialsFailure, ProcessE2,
          PanicE3, ProcessE4, ClearForceE4Annotation, ApplyStatus,
          ApplyStatusFails, Tick, FinishJob, ExpireJob,
          AnnotateForceRevalidate, AnnotateForceE4, EditSpec, ChangeSecret,
          Crash, vars
    <3>2. PICK r \in ingestResults("E3"), s \in spawnOutcomes("E3", wantE3) :
            ProcessLevel("E3", FALSE, s, r, FALSE)
      BY <3>1 DEF ProcessE3, ListFails
    <3>3. s \in BOOLEAN
      BY SpawnsWhenNoneActive
    <3> QED
      BY <1>0, <1>3, <2>2, <3>2, <3>3, LevelReads
  <2>3. CASE l = "E4"
    <3>1. ProcessE4
      BY <1>3, <2>3
      DEF Inspects, Next, Reconcile, Environment, Begin,
          TolerateMissingCredentials, RecordCredentialsFailure, ProcessE2,
          ProcessE3, PanicE3, ClearForceE4Annotation, ApplyStatus,
          ApplyStatusFails, Tick, FinishJob, ExpireJob,
          AnnotateForceRevalidate, AnnotateForceE4, EditSpec, ChangeSecret,
          Crash, vars
    <3>2. PICK r \in ingestResults("E4"), s \in spawnOutcomes("E4", wantE4) :
            \E stats \in parseE4Stats(r) :
              ProcessLevel("E4", "E4" \in rec.need, s, r, stats)
      BY <3>1 DEF ProcessE4, ListFails
    <3>3. /\ s \in BOOLEAN /\ parseE4Stats(r) \subseteq BOOLEAN
          /\ ("E4" \in rec.need) \in BOOLEAN
      BY SpawnsWhenNoneActive, StatsAreBoolean
    <3>4. PICK stats \in parseE4Stats(r) :
            ProcessLevel("E4", "E4" \in rec.need, s, r, stats)
      BY <3>2
    <3> DEFINE m == "E4" \in rec.need
    <3>5. m \in BOOLEAN /\ stats \in BOOLEAN /\ ProcessLevel("E4", m, s, r, stats)
      BY <3>3, <3>4
    <3> HIDE DEF m
    <3>6. rec'.res["E4"] = r.res
      BY <1>0, <1>3, <3>3, <3>5, LevelReads
    <3> QED
      BY <2>3, <3>6
  <2> QED
    BY <2>1, <2>2, <2>3 DEF Levels
<1>4. SafetyInv /\ Ordered /\ [Next]_vars =>
        [\A l \in Levels : Inspects(l) =>
           \A j \in jobs :
             /\ NewestRun(l, j)
             /\ verified[l] <= j.created /\ verified[l] # jobCompletionTime(j)
             /\ \A k \in Completed(l) \ {j} :
                  jobCompletionTime(k) # jobCompletionTime(j)
             => rec'.res[l] = verdictOf(j)]_vars
  BY <1>3, NewestIsIngested DEF SafetyInv
<1>5. SafetyInv => TypeOK
  BY DEF SafetyInv
<1> QED
  BY <1>1, <1>2, <1>4, <1>5, SafetyInvariant, PTL DEF Spec, NewestRunDecides

-----------------------------------------------------------------------------
(* Honoring force-revalidate                                               *)

(* Nothing changes the spec under a reconcile: no force-e4 annotation is   *)
(* in use, so that none is removed and the spec is never read again, or    *)
(* the spec is not edited.                                                 *)
SpecIsSteady == ForceE4Times = {} \/ MaxEdits = 0

Steady ==
  /\ ForceE4Times = {} =>
       annE4 = Nil /\ pc # "clear" /\ "E4" \notin rec.need
  /\ MaxEdits = 0 => gen = 1 /\ (pc # "idle" => rec.spec = spec)

(* A force-revalidate value the reconcile took up is a new one, and the    *)
(* levels it does not need to run have run since.                          *)
FreshNeeds ==
  rec.forceTS # Nil =>
    /\ rec.forceTS > lastForce
    /\ "E2" \in rec.need \/ levelVerifiedAfter("E2", rec.forceTS)
    /\ \/ "E3" \in rec.need \/ ~rec.spec.e3
       \/ levelVerifiedAfter("E3", rec.forceTS)

(* What a reconcile sets out to do.                                        *)
LEMMA BeginNeeds ==
  ASSUME Begin
  PROVE  LET ts == resolveForce(annForce, lastForce)
             tsE4 == resolveForce(annE4, lastForcedE4)
         IN /\ rec'.forceTS = ts /\ rec'.spec = spec
            /\ rec'.need = forceNeeded(spec, ts, tsE4)
BY DEF Begin, IdleRec

(* A level's step leaves alone what the reconcile set out to do.           *)
LEMMA LevelKeepsNeeds ==
  ASSUME TypeOK, ProcessE2 \/ ProcessE3 \/ ProcessE4
  PROVE  /\ rec'.forceTS = rec.forceTS /\ rec'.need = rec.need
         /\ rec'.spec = rec.spec
         /\ pc' = "clear" => pc = "e4" /\ "E4" \in rec.need
         /\ pc # "idle" /\ pc' # "idle"
<1>1. rec'.forceTS = rec.forceTS /\ rec'.need = rec.need /\ rec'.spec = rec.spec
  BY DEF ProcessE2, ProcessE3, ProcessE4, ListFails, ProcessLevel, TypeOK, RecType
<1>2. /\ pc' = "clear" => pc = "e4" /\ "E4" \in rec.need
      /\ pc # "idle" /\ pc' # "idle"
  BY DEF ProcessE2, ProcessE3, ProcessE4, ListFails, afterE2
<1> QED
  BY <1>1, <1>2

(* Every step keeps what the reconcile set out to do true.                 *)
LEMMA NeedsPreserved ==
  ASSUME SpecIsSteady, TypeOK, Steady, FreshNeeds, [Next]_vars
  PROVE  Steady' /\ FreshNeeds'
<1> USE DEF cluster, status, memory
<1>0. /\ IdleRec.forceTS = Nil /\ IdleRec.need = {}
      /\ annForce \in Nat /\ lastForce \in Nat
      /\ verified["E2"] \in Nat /\ verified["E3"] \in Nat
  BY DEF IdleRec, TypeOK, Time, Levels
<1>a. ASSUME UNCHANGED <<spec, gen, annE4, lastForce, verified>>,
             \/ rec' = IdleRec /\ pc' = "idle"
             \/ rec' = rec /\ pc' = pc
      PROVE  Steady' /\ FreshNeeds'
  BY <1>0, <1>a DEF Steady, FreshNeeds, levelVerifiedAfter
<1>1. CASE Begin
  <2> DEFINE ts == resolveForce(annForce, lastForce)
             tsE4 == resolveForce(annE4, lastForcedE4)
  <2>1. rec'.forceTS = ts /\ rec'.spec = spec
        /\ rec'.need = forceNeeded(spec, ts, tsE4)
    BY <1>1, BeginNeeds
  <2>2. ts # Nil => ts > lastForce
    BY <1>0 DEF resolveForce, Nil
  <2>3. annE4 = Nil => tsE4 = Nil
    BY DEF resolveForce
  <2> HIDE DEF ts, tsE4
  <2>4. /\ "E2" \in rec'.need <=> ts # Nil /\ ~levelVerifiedAfter("E2", ts)
        /\ "E3" \in rec'.need <=>
             ts # Nil /\ spec.e3 /\ ~levelVerifiedAfter("E3", ts)
        /\ "E4" \in rec'.need => tsE4 # Nil
    BY <2>1 DEF forceNeeded, Levels
  <2>5. FreshNeeds'
    BY <1>1, <2>1, <2>2, <2>4 DEF FreshNeeds, Begin, levelVerifiedAfter
  <2>6. Steady'
    BY <1>1, <2>1, <2>3, <2>4 DEF Steady, Begin
  <2> QED
    BY <2>5, <2>6
<1>2. CASE ProcessE2 \/ ProcessE3 \/ ProcessE4
  <2>1. UNCHANGED <<spec, gen, annE4, lastForce, verified>>
    BY <1>2 DEF ProcessE2, ProcessE3, ProcessE4
  <2> QED
    BY <1>2, <2>1, LevelKeepsNeeds DEF Steady, FreshNeeds, levelVerifiedAfter
<1>3. CASE ClearForceE4Annotation
  <2>1. /\ pc = "clear" /\ pc' = "apply"
        /\ UNCHANGED <<spec, gen, lastForce, verified>>
    BY <1>3 DEF ClearForceE4Annotation
  <2>2. MaxEdits = 0 /\ rec.spec = spec /\ ForceE4Times # {}
    BY <2>1 DEF SpecIsSteady, Steady
  <2>3. rec'.spec = spec /\ rec'.forceTS = rec.forceTS /\ rec'.need = rec.need
    BY <1>3, <2>2 DEF ClearForceE4Annotation, TypeOK, RecType
  <2> QED
    BY <2>1, <2>2, <2>3 DEF Steady, FreshNeeds, levelVerifiedAfter
<1>4. CASE ApplyStatus
  <2>1. rec' = IdleRec /\ pc' = "idle" /\ UNCHANGED <<spec, gen, annE4>>
    BY <1>4 DEF ApplyStatus
  <2> QED
    BY <1>0, <2>1 DEF Steady, FreshNeeds
<1>5. CASE PanicE3 \/ ApplyStatusFails \/ Crash
  BY <1>5, <1>a DEF PanicE3, ApplyStatusFails, Crash
<1>6. CASE EditSpec
  <2>1. MaxEdits # 0
    BY <1>6 DEF EditSpec, Steady
  <2> QED
    BY <1>6, <2>1 DEF EditSpec, Steady, FreshNeeds, levelVerifiedAfter
<1>7. CASE AnnotateForceE4
  <2>1. ForceE4Times = {} => annE4' = Nil
    BY <1>7 DEF AnnotateForceE4
  <2> QED
    BY <1>7, <2>1 DEF AnnotateForceE4, Steady, FreshNeeds, levelVerifiedAfter
<1>8. CASE TolerateMissingCredentials \/ RecordCredentialsFailure \/ Tick
           \/ FinishJob \/ ExpireJob \/ AnnotateForceRevalidate
           \/ ChangeSecret \/ UNCHANGED vars
  BY <1>8, <1>a
  DEF TolerateMissingCredentials, RecordCredentialsFailure, Tick, FinishJob,
      ExpireJob, AnnotateForceRevalidate, ChangeSecret, vars
<1> QED
  BY <1>1, <1>2, <1>3, <1>4, <1>5, <1>6, <1>7, <1>8
  DEF Next, Reconcile, Environment

(* While nothing changes the spec under a reconcile, a force-revalidate    *)
(* value is recorded as honored only after the levels it forces have       *)
(* results newer than it, in increasing order, for any annotation values,  *)
(* crashes and failing calls.                                              *)
THEOREM HonoredWhenFresh ==
  ASSUME SpecIsSteady
  PROVE  Spec => HonoredAfterFreshRuns
<1> USE DEF cluster, status, memory
<1>1. Init => Steady /\ FreshNeeds
  BY DEF Init, Steady, FreshNeeds, IdleRec
<1>2. TypeOK /\ Steady /\ FreshNeeds /\ [Next]_vars => Steady' /\ FreshNeeds'
  BY NeedsPreserved
<1>3. ASSUME [Next]_vars, lastForce' # lastForce
      PROVE  lastForce' = honoredForceAt
  BY <1>3
  DEF Next, Reconcile, Environment, Begin, TolerateMissingCredentials,
      RecordCredentialsFailure, ProcessE2, ProcessE3, PanicE3, ProcessE4,
      ClearForceE4Annotation, ApplyStatus, ApplyStatusFails, Tick, FinishJob,
      ExpireJob, AnnotateForceRevalidate, AnnotateForceE4, EditSpec,
      ChangeSecret, Crash, vars
<1>4. FreshNeeds /\ [Next]_vars =>
        [lastForce' # lastForce =>
           /\ lastForce' > lastForce
           /\ levelVerifiedAfter("E2", lastForce')
           /\ rec.spec.e3 => levelVerifiedAfter("E3", lastForce')]_vars
  <2>1. ASSUME FreshNeeds, [Next]_vars, lastForce' # lastForce
        PROVE  /\ lastForce' > lastForce
               /\ levelVerifiedAfter("E2", lastForce')
               /\ rec.spec.e3 => levelVerifiedAfter("E3", lastForce')
    <3>1. /\ lastForce' = rec.forceTS /\ rec.forceTS # Nil
          /\ "E2" \notin rec.need /\ "E3" \notin rec.need
      BY <1>3, <2>1 DEF honoredForceAt
    <3> QED
      BY <2>1, <3>1 DEF FreshNeeds, levelVerifiedAfter
  <2> QED
    BY <2>1
<1> QED
  BY <1>1, <1>2, <1>4, TypeCorrect, PTL DEF Spec, HonoredAfterFreshRuns

-----------------------------------------------------------------------------
(* Counting                                                                *)

(* Nothing comes between counting a run and recording it: the status patch *)
(* and the read of the E4 log do not fail, the controller does not stop.   *)
CountIsRecorded == Faults \cap {"patch", "crash", "logs"} = {}

(* E3 is not switched on or off, and never panics.                         *)
E3IsSteady ==
  /\ \A s, t \in Specs : s.e3 = t.e3
  /\ \A s \in Specs : s.e3 => s.objs

(* As E3 is never withdrawn, its timestamp keeps its verdict, too.         *)
E3Held ==
  /\ verified["E3"] # Nil => Real(conds["SampledIntegrityValid"])
  /\ Real(conds["SampledIntegrityValid"]) => spec.e3
  /\ spec \in Specs /\ (pc # "idle" => rec.spec \in Specs)
  /\ rec.res["E3"] # "none" \/ pc = "e3" => rec.spec.e3

(* A counted run has ended, and its result is on record or at hand.        *)
Accounted ==
  \A j \in jobs : j.counted # 0 =>
    /\ ~jobInFlight(j) /\ j.counted = 1
    /\ \/ verified[j.lvl] >= jobCompletionTime(j)
       \/ /\ rec.res[j.lvl] # "none"
          /\ rec.at[j.lvl] >= jobCompletionTime(j)
          /\ j.lvl = "E4" => rec.stats

(* What the status writes make of E3.                                      *)
LEMMA E3Written ==
  /\ credentialsFailed["SampledIntegrityValid"] =
       IF spec.e3
       THEN OrElse(preservedCondition(conds["SampledIntegrityValid"]), "Pending")
       ELSE "Absent"
  /\ probedConditions["SampledIntegrityValid"] =
       IF rec.spec.e3 THEN OrElse(verdictInput("E3"), "Pending") ELSE "Absent"
BY DEF credentialsFailed, probedConditions, applyConditions

(* Every step keeps E3 as it is.                                           *)
LEMMA E3Preserved ==
  ASSUME E3IsSteady, TypeOK, Dated, E3Held, [Next]_vars
  PROVE  E3Held'
<1> USE DEF cluster, status, memory
<1>0. /\ "E2" \in Levels /\ "E3" \in Levels /\ "E4" \in Levels
      /\ IdleRec.res["E3"] = "none" /\ CondOf["E3"] = "SampledIntegrityValid"
  BY DEF Levels, IdleRec, CondOf
<1>a. ASSUME UNCHANGED <<spec, conds, verified>>,
             \/ rec' = IdleRec /\ pc' = "idle"
             \/ rec' = rec /\ pc' = pc
      PROVE  E3Held'
  BY <1>0, <1>a DEF E3Held, Real
<1>1. CASE Begin
  <2>1. rec'.spec = spec
    BY <1>1 DEF Begin, IdleRec
  <2>2. rec'.res = [l \in Levels |-> "none"]
    BY <1>1 DEF Begin, IdleRec
  <2>3. UNCHANGED <<spec, conds, verified>> /\ pc' = "e2"
    BY <1>1 DEF Begin
  <2> QED
    BY <1>0, <2>1, <2>2, <2>3 DEF E3Held, Real
<1>2. CASE RecordCredentialsFailure
  <2>1. UNCHANGED <<spec, verified, pc, rec>>
        /\ (conds' = conds \/ conds' = credentialsFailed)
    BY <1>2 DEF RecordCredentialsFailure
  <2>2. CASE conds' = conds
    BY <1>a, <2>1, <2>2
  <2>3. CASE conds' = credentialsFailed
    <3>1. Real(conds'["SampledIntegrityValid"])
            <=> Real(conds["SampledIntegrityValid"])
      BY <2>3, E3Written DEF E3Held, Real, OrElse, preservedCondition
    <3> QED
      BY <2>1, <3>1 DEF E3Held, Real
  <2> QED
    BY <2>1, <2>2, <2>3
<1>3. CASE ProcessE2
  <2>1. UNCHANGED <<spec, conds, verified>> /\ rec'.spec = rec.spec
        /\ (pc' = "e3" => rec.spec.e3) /\ pc # "idle"
    BY <1>3, LevelKeepsNeeds DEF ProcessE2, afterE2
  <2>2. rec'.res["E3"] = rec.res["E3"]
    <3>1. CASE ListFails
      BY <3>1 DEF ListFails
    <3>2. CASE \E r \in ingestResults("E2"), s \in spawnOutcomes("E2", wantE2) :
                 ProcessLevel("E2", FALSE, s, r, FALSE)
      <4>1. PICK r \in ingestResults("E2"), s \in spawnOutcomes("E2", wantE2) :
              ProcessLevel("E2", FALSE, s, r, FALSE)
        BY <3>2
      <4>2. s \in BOOLEAN /\ "E3" \in Levels \ {"E2"}
        BY <1>0, SpawnsWhenNoneActive
      <4> QED
        BY <1>0, <4>1, <4>2, LevelReads
    <3> QED
      BY <1>3, <3>1, <3>2 DEF ProcessE2
  <2> QED
    BY <2>1, <2>2 DEF E3Held, Real
<1>4. CASE ProcessE3
  <2>1. UNCHANGED <<spec, conds, verified>> /\ rec'.spec = rec.spec /\ pc = "e3"
    BY <1>4, LevelKeepsNeeds DEF ProcessE3
  <2> QED
    BY <2>1 DEF E3Held, Real
<1>5. CASE ProcessE4
  <2>1. UNCHANGED <<spec, conds, verified>> /\ rec'.spec = rec.spec
        /\ pc' # "e3" /\ pc # "idle"
    BY <1>5, LevelKeepsNeeds DEF ProcessE4
  <2>2. rec'.res["E3"] = rec.res["E3"]
    <3>1. CASE ListFails
      BY <3>1 DEF ListFails
    <3>2. CASE \E r \in ingestResults("E4"), s \in spawnOutcomes("E4", wantE4) :
                 \E stats \in parseE4Stats(r) :
                   ProcessLevel("E4", "E4" \in rec.need, s, r, stats)
      <4>1. PICK r \in ingestResults("E4"), s \in spawnOutcomes("E4", wantE4) :
              \E stats \in parseE4Stats(r) :
                ProcessLevel("E4", "E4" \in rec.need, s, r, stats)
        BY <3>2
      <4> DEFINE m == "E4" \in rec.need
      <4>2. PICK stats \in parseE4Stats(r) : ProcessLevel("E4", m, s, r, stats)
        BY <4>1
      <4>3. s \in BOOLEAN /\ stats \in BOOLEAN /\ m \in BOOLEAN
            /\ "E3" \in Levels \ {"E4"}
        BY <1>0, SpawnsWhenNoneActive, StatsAreBoolean
      <4> HIDE DEF m
      <4> QED
        BY <1>0, <4>2, <4>3, LevelReads
    <3> QED
      BY <1>5, <3>1, <3>2 DEF ProcessE4
  <2> QED
    BY <2>1, <2>2 DEF E3Held, Real
<1>6. CASE ClearForceE4Annotation
  <2>1. /\ pc # "idle" /\ pc' = "apply" /\ rec'.res = rec.res
        /\ rec'.spec \in {rec.spec, spec} /\ UNCHANGED <<spec, conds, verified>>
    BY <1>6 DEF ClearForceE4Annotation, TypeOK, RecType
  <2> QED
    BY <2>1 DEF E3Held, E3IsSteady, Real
<1>7. CASE ApplyStatus
  <2>1. /\ conds' = probedConditions /\ verified' = verifiedAfter
        /\ rec' = IdleRec /\ pc' = "idle" /\ pc # "idle" /\ spec' = spec
    BY <1>7 DEF ApplyStatus
  <2>2. rec.spec.e3 = spec.e3
    BY <2>1 DEF E3Held, E3IsSteady
  <2>3. verified'["E3"] # Nil => rec.res["E3"] # "none" \/ carried("E3")
    BY <1>0, <2>1 DEF verifiedAfter, recorded
  <2>4. rec.res["E3"] # "none" \/ carried("E3") =>
          rec.spec.e3 /\ Real(verdictInput("E3"))
    BY <1>0, <2>2 DEF E3Held, carried, verdictInput, Real, TypeOK, RecType,
                      Verdicts
  <2>5. verified'["E3"] # Nil => Real(conds'["SampledIntegrityValid"])
    BY <2>1, <2>3, <2>4, E3Written DEF Real, OrElse
  <2>6. Real(conds'["SampledIntegrityValid"]) => spec'.e3
    BY <2>1, <2>2, E3Written DEF Real
  <2> QED
    BY <1>0, <2>1, <2>5, <2>6 DEF E3Held, Real
<1>8. CASE PanicE3 \/ ApplyStatusFails \/ Crash
  BY <1>8, <1>a DEF PanicE3, ApplyStatusFails, Crash
<1>9. CASE EditSpec
  <2>1. spec' \in Specs /\ UNCHANGED <<conds, verified, pc, rec>>
    BY <1>9 DEF EditSpec
  <2>2. spec'.e3 = spec.e3
    BY <2>1 DEF E3IsSteady, E3Held
  <2> QED
    BY <2>1, <2>2 DEF E3Held, Real
<1>10. CASE TolerateMissingCredentials \/ Tick \/ FinishJob \/ ExpireJob
            \/ AnnotateForceRevalidate \/ AnnotateForceE4 \/ ChangeSecret
            \/ UNCHANGED vars
  BY <1>10, <1>a
  DEF TolerateMissingCredentials, Tick, FinishJob, ExpireJob,
      AnnotateForceRevalidate, AnnotateForceE4, ChangeSecret, vars
<1> QED
  BY <1>1, <1>2, <1>3, <1>4, <1>5, <1>6, <1>7, <1>8, <1>9, <1>10
  DEF Next, Reconcile, Environment

(* A level ingests nothing or one of its ended Jobs, which completed after *)
(* the run on record.                                                      *)
LEMMA IngestedJob ==
  ASSUME TypeOK, Dated, NEW l \in Levels, NEW r \in ingestResults(l)
  PROVE  \/ r.job = {} /\ r.res = "none"
         \/ \E j \in Completed(l) :
              /\ r.job = {j} /\ r.res # "none"
              /\ r.at = jobCompletionTime(j) /\ r.at > verified[l]
<1>1. CASE r = NoResult
  BY <1>1 DEF NoResult
<1>2. CASE r # NoResult
  <2>1. PICK j \in toIngest(l) :
          r = [res |-> verdictOf(j), at |-> jobCompletionTime(j),
               manual |-> j.manual, job |-> {j}]
    BY <1>2 DEF ingestResults
  <2>2. j \in Completed(l)
    BY <2>1 DEF toIngest, pickLatestCompletedJob
  <2>3. r.job = {j} /\ r.at = jobCompletionTime(j) /\ r.res # "none"
    BY <2>1 DEF verdictOf
  <2>4. r.at > verified[l]
    BY <2>3, IngestedIsNewer
  <2> QED
    BY <2>2, <2>3, <2>4
<1> QED
  BY <1>1, <1>2

(* The step of a level counts a run that was not counted before, and has   *)
(* its result at hand afterwards.                                          *)
LEMMA LevelAccounts ==
  ASSUME TypeOK, Dated, Accounted, NEW l \in Levels, NEW m \in BOOLEAN,
         NEW s \in BOOLEAN, NEW r \in ingestResults(l), NEW stats \in BOOLEAN,
         ProcessLevel(l, m, s, r, stats), UNCHANGED verified,
         rec.res[l] = "none", l # "E4" => rec.res["E4"] = "none",
         l = "E4" /\ r.res # "none" => stats
  PROVE  Accounted'
<1> SUFFICES ASSUME NEW x \in jobs', x.counted # 0
             PROVE  /\ x.state # "active" /\ x.counted = 1
                    /\ \/ verified[x.lvl] >= jobCompletionTime(x)
                       \/ /\ rec'.res[x.lvl] # "none"
                          /\ rec'.at[x.lvl] >= jobCompletionTime(x)
                          /\ x.lvl = "E4" => rec'.stats
  BY DEF Accounted, jobInFlight, jobCompletionTime, jobSucceeded
<1>1. rec'.stats = stats
  BY DEF ProcessLevel, TypeOK, RecType
<1>2. /\ \A k \in Levels \ {l} :
           rec'.res[k] = rec.res[k] /\ rec'.at[k] = rec.at[k]
      /\ rec'.res[l] = r.res /\ rec'.at[l] = r.at
  BY LevelReads
<1>3. x # NewJob(l, rec.gen, m)
  BY DEF NewJob
<1>4. x \in recordValidationRun(jobs, r.job)
  BY <1>3 DEF ProcessLevel, spawnJob
<1>5. CASE x \in jobs
  <2>1. x.lvl \in Levels
    BY <1>5 DEF TypeOK, Job
  <2>2. /\ x.state # "active" /\ x.counted = 1
        /\ \/ verified[x.lvl] >= jobCompletionTime(x)
           \/ /\ rec.res[x.lvl] # "none"
              /\ rec.at[x.lvl] >= jobCompletionTime(x)
    BY <1>5 DEF Accounted, jobInFlight
  <2> QED
    BY <1>2, <2>1, <2>2
<1>6. CASE x \notin jobs
  <2>1. PICK j \in r.job :
          x = [j EXCEPT !.counted = IF @ < MaxCount THEN @ + 1 ELSE @]
    BY <1>4, <1>6 DEF recordValidationRun
  <2>2. /\ j \in Completed(l) /\ r.res # "none"
        /\ r.at = jobCompletionTime(j) /\ r.at > verified[l]
    BY <2>1, IngestedJob
  <2>3. j \in jobs /\ j \in Job /\ j.lvl = l /\ j.state # "active"
    BY <2>2 DEF Completed, JobsOf, TypeOK, jobInFlight
  <2>4. verified[l] \in Nat /\ jobCompletionTime(j) \in Nat
    BY <2>3 DEF TypeOK, Time, Job, jobCompletionTime
  <2>5. j.counted = 0
    BY <2>2, <2>3, <2>4 DEF Accounted
  <2>6. /\ x.lvl = l /\ x.state = j.state /\ x.counted = 1
        /\ jobCompletionTime(x) = jobCompletionTime(j)
    BY <2>1, <2>3, <2>5 DEF Job, MaxCount, jobCompletionTime, jobSucceeded
  <2> QED
    BY <1>1, <1>2, <2>2, <2>3, <2>4, <2>6
<1> QED
  BY <1>5, <1>6

(* The status write puts on record what was at hand, and forgets nothing.  *)
LEMMA ApplyAccounts ==
  ASSUME RefinementInv, E3Held, Accounted, verified' = verifiedAfter,
         jobs' = jobs
  PROVE  Accounted'
<1> USE DEF RefinementInv, SafetyInv
<1> SUFFICES ASSUME NEW j \in jobs, j.counted # 0
             PROVE  /\ j.state # "active" /\ j.counted = 1
                    /\ verifiedAfter[j.lvl] >= jobCompletionTime(j)
  BY DEF Accounted, jobInFlight, jobCompletionTime, jobSucceeded
<1> DEFINE l == j.lvl
<1>1. /\ j.state # "active" /\ j.counted = 1
      /\ \/ verified[l] >= jobCompletionTime(j)
         \/ /\ rec.res[l] # "none"
            /\ rec.at[l] >= jobCompletionTime(j)
            /\ l = "E4" => rec.stats
  BY DEF Accounted, jobInFlight
<1>2. l \in Levels /\ jobCompletionTime(j) \in Nat /\ jobCompletionTime(j) >= 1
  BY DEF TypeOK, Job, jobCompletionTime, Dated, DatedJob, Time
<1>3. verified[l] \in Nat /\ rec.at[l] \in Nat
  BY <1>2 DEF TypeOK, RecType, Time
<1>4. verified[l] # Nil => carried(l)
  BY <1>2 DEF carried, E3Held, AnchorHasVerdict, Levels, CondOf
<1>5. verifiedAfter[l] =
        IF recorded(l) THEN rec.at[l]
        ELSE IF rec.res[l] # "none" \/ carried(l) THEN verified[l] ELSE Nil
  BY <1>2 DEF verifiedAfter
<1>6. recorded(l) <=> rec.res[l] # "none" /\ (l = "E4" => rec.stats)
  BY DEF recorded
<1>7. rec.res[l] # "none" => rec.at[l] > verified[l]
  BY <1>2 DEF Newer
<1> HIDE DEF l
<1>8. verifiedAfter[l] >= jobCompletionTime(j)
  BY <1>1, <1>2, <1>3, <1>4, <1>5, <1>6, <1>7 DEF Nil
<1> QED
  BY <1>1, <1>8 DEF l

(* Every step keeps the runs accounted for.                                *)
LEMMA AccountsPreserved ==
  ASSUME CountIsRecorded, E3IsSteady, RefinementInv, E3Held, Accounted,
         [Next]_vars
  PROVE  Accounted'
<1> USE DEF cluster, status, memory
<1>0. /\ TypeOK /\ Dated /\ Unread
      /\ "E2" \in Levels /\ "E3" \in Levels /\ "E4" \in Levels
  BY DEF RefinementInv, SafetyInv, Levels
<1>a. ASSUME UNCHANGED verified, jobs' \subseteq jobs,
             rec'.res = rec.res, rec'.at = rec.at, rec'.stats = rec.stats
      PROVE  Accounted'
  BY <1>a DEF Accounted, jobInFlight, jobCompletionTime, jobSucceeded
<1>1. CASE Begin
  <2>1. UNCHANGED <<jobs, verified>> /\ pc = "idle"
    BY <1>1 DEF Begin
  <2>2. ASSUME NEW j \in jobs, j.counted # 0
        PROVE  /\ ~jobInFlight(j) /\ j.counted = 1
               /\ verified[j.lvl] >= jobCompletionTime(j)
    <3>1. j.lvl \in Levels
      BY <1>0 DEF TypeOK, Job
    <3> QED
      BY <1>0, <2>1, <2>2, <3>1 DEF Accounted, Unread
  <2> QED
    BY <2>1, <2>2 DEF Accounted, jobInFlight, jobCompletionTime, jobSucceeded
<1>2. CASE ProcessE2
  <2>1. CASE ListFails
    BY <1>2, <1>a, <2>1 DEF ProcessE2, ListFails
  <2>2. CASE \E r \in ingestResults("E2"), s \in spawnOutcomes("E2", wantE2) :
               ProcessLevel("E2", FALSE, s, r, FALSE)
    <3>1. PICK r \in ingestResults("E2"), s \in spawnOutcomes("E2", wantE2) :
            ProcessLevel("E2", FALSE, s, r, FALSE)
      BY <2>2
    <3>2. s \in BOOLEAN
      BY SpawnsWhenNoneActive
    <3>3. rec.res["E2"] = "none" /\ rec.res["E4"] = "none" /\ UNCHANGED verified
      BY <1>0, <1>2 DEF ProcessE2, Unread
    <3> QED
      BY <1>0, <3>1, <3>2, <3>3, LevelAccounts
  <2> QED
    BY <1>2, <2>1, <2>2 DEF ProcessE2
<1>3. CASE ProcessE3
  <2>1. CASE ListFails
    BY <1>3, <1>a, <2>1 DEF ProcessE3, ListFails
  <2>2. CASE \E r \in ingestResults("E3"), s \in spawnOutcomes("E3", wantE3) :
               ProcessLevel("E3", FALSE, s, r, FALSE)
    <3>1. PICK r \in ingestResults("E3"), s \in spawnOutcomes("E3", wantE3) :
            ProcessLevel("E3", FALSE, s, r, FALSE)
      BY <2>2
    <3>2. s \in BOOLEAN
      BY SpawnsWhenNoneActive
    <3>3. rec.res["E3"] = "none" /\ rec.res["E4"] = "none" /\ UNCHANGED verified
      BY <1>0, <1>3 DEF ProcessE3, Unread
    <3> QED
      BY <1>0, <3>1, <3>2, <3>3, LevelAccounts
  <2> QED
    BY <1>3, <2>1, <2>2 DEF ProcessE3
<1>4. CASE ProcessE4
  <2>1. CASE ListFails
    BY <1>4, <1>a, <2>1 DEF ProcessE4, ListFails
  <2>2. CASE \E r \in ingestResults("E4"), s \in spawnOutcomes("E4", wantE4) :
               \E stats \in parseE4Stats(r) :
                 ProcessLevel("E4", "E4" \in rec.need, s, r, stats)
    <3>1. PICK r \in ingestResults("E4"), s \in spawnOutcomes("E4", wantE4) :
            \E stats \in parseE4Stats(r) :
              ProcessLevel("E4", "E4" \in rec.need, s, r, stats)
      BY <2>2
    <3> DEFINE m == "E4" \in rec.need
    <3>2. PICK stats \in parseE4Stats(r) : ProcessLevel("E4", m, s, r, stats)
      BY <3>1
    <3>3. s \in BOOLEAN /\ stats \in BOOLEAN /\ m \in BOOLEAN
      BY SpawnsWhenNoneActive, StatsAreBoolean
    <3>4. r.res # "none" => stats
      BY <3>2 DEF parseE4Stats, MayFail, CountIsRecorded
    <3>5. rec.res["E4"] = "none" /\ UNCHANGED verified
      BY <1>0, <1>4 DEF ProcessE4, Unread
    <3> HIDE DEF m
    <3> QED
      BY <1>0, <3>2, <3>3, <3>4, <3>5, LevelAccounts
  <2> QED
    BY <1>4, <2>1, <2>2 DEF ProcessE4
<1>5. CASE PanicE3
  BY <1>5 DEF PanicE3, panicsE3, E3Held, E3IsSteady
<1>6. CASE ClearForceE4Annotation
  BY <1>0, <1>6, <1>a DEF ClearForceE4Annotation, TypeOK, RecType
<1>7. CASE ApplyStatus
  BY <1>7, ApplyAccounts DEF ApplyStatus
<1>8. CASE ApplyStatusFails \/ Crash
  BY <1>8 DEF ApplyStatusFails, Crash, CountIsRecorded
<1>9. CASE FinishJob
  <2>1. PICK j \in jobs, v \in {"succeeded", "failed"} :
          /\ jobInFlight(j)
          /\ jobs' = (jobs \ {j}) \cup {[j EXCEPT !.state = v, !.ended = now]}
    BY <1>9 DEF FinishJob
  <2> DEFINE done == [j EXCEPT !.state = v, !.ended = now]
  <2>2. done.counted = 0
    BY <1>0, <2>1 DEF Accounted, TypeOK, Job
  <2>3. jobs' = (jobs \ {j}) \cup {done} /\ UNCHANGED <<verified, rec>>
    BY <1>9, <2>1 DEF FinishJob
  <2> HIDE DEF done
  <2> QED
    BY <2>2, <2>3 DEF Accounted, jobInFlight, jobCompletionTime, jobSucceeded
<1>10. CASE ExpireJob
  BY <1>10, <1>a DEF ExpireJob
<1>11. CASE TolerateMissingCredentials \/ RecordCredentialsFailure \/ Tick
            \/ AnnotateForceRevalidate \/ AnnotateForceE4 \/ EditSpec
            \/ ChangeSecret \/ UNCHANGED vars
  BY <1>11, <1>a
  DEF TolerateMissingCredentials, RecordCredentialsFailure, Tick,
      AnnotateForceRevalidate, AnnotateForceE4, EditSpec, ChangeSecret, vars
<1> QED
  BY <1>1, <1>2, <1>3, <1>4, <1>5, <1>6, <1>7, <1>8, <1>9, <1>10, <1>11
  DEF Next, Reconcile, Environment

(* No Job is counted by two reconciles, while what is counted is recorded  *)
(* and E3 is neither switched on nor off: for any list, create and clear   *)
(* failures, credential gaps and forced runs.                              *)
THEOREM CountsOnce ==
  ASSUME CountIsRecorded, E3IsSteady
  PROVE  Spec => []CountedOnce
<1>1. Init => E3Held /\ Accounted
  BY DEF Init, E3Held, Accounted, Levels, NoConditions, CondTypes, Real, IdleRec
<1>2. RefinementInv /\ E3Held /\ Accounted /\ [Next]_vars
        => E3Held' /\ Accounted'
  BY E3Preserved, AccountsPreserved DEF RefinementInv, SafetyInv
<1>3. Accounted => CountedOnce
  BY DEF Accounted, CountedOnce
<1> QED
  BY <1>1, <1>2, <1>3, RefinementInvariant, PTL DEF Spec
=============================================================================
