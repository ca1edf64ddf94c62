-------------------------- MODULE BackupRepository --------------------------
(***************************************************************************)
(* One BackupRepository (BR) under its reconciler.                         *)
(*                                                                         *)
(* The reconciler is a single logical thread per BR: controller-runtime    *)
(* never runs two reconciles of one key at once.  A reconcile is a sequence*)
(* of API calls, so it is stepped at every call another actor can slip     *)
(* between: Begin (Get, credentials, annotations, E1 probe), processE2,    *)
(* processE3, processE4, clearForceE4Annotation, applyStatus.  The clock,  *)
(* the Job controller, the operator (annotations, spec edits), the tenant  *)
(* (credentials Secret) and crashes interleave with those steps.           *)
(*                                                                         *)
(* Every watch and every return path requeues the BR, so a reconcile may   *)
(* start whenever the previous one has ended.  Reads are taken to be fresh *)
(* (the informer cache has caught up with the reconciler's own writes).    *)
(*                                                                         *)
(* Timestamps have the granularity of metav1.Time, one tick; 0 is nil.     *)
(***************************************************************************)
EXTENDS Conditions, FiniteSets

CONSTANTS
  MaxTime,     \* bound: last value of the clock
  MaxEdits,    \* bound: number of spec edits (metadata.generation)
  Interval,    \* per level: cadence in ticks
  Deadline,    \* per level: activeDeadlineSeconds of a Job
  TTL,         \* ttlSecondsAfterFinished
  BucketLen,   \* ticks per minute: Job names carry the minute
  Tolerance,   \* credentialsTransientTolerance
  MaxLag,      \* spec.maxBackupLag
  Specs,       \* the spec variants an operator may apply
  Probes,      \* the outcomes an E1 probe may have
  ForceTimes,  \* values of the force-revalidate annotation
  ForceE4Times,\* values of the force-e4 annotation
  CredStates,  \* states of the credentials Secret
  Faults       \* which calls may fail

Levels == {"E2", "E3", "E4"}
Nil == 0
Time == Nat
FaultKinds == {"list", "create", "clear", "patch", "logs", "crash"}

SpecType == [e3 : BOOLEAN, objs : BOOLEAN, e4 : BOOLEAN, pvc : BOOLEAN,
             budget : BOOLEAN]
ProbeType == [reach : BOOLEAN, sec : BOOLEAN, last : Time, inv : Inventories]

ASSUME BoundsAssumption ==
  /\ MaxTime \in Nat \ {0}
  /\ MaxEdits \in Nat
ASSUME CadenceAssumption ==
  /\ Interval \in [Levels -> Nat \ {0}]
  /\ Deadline \in [Levels -> Nat \ {0}]
  /\ \A l \in Levels : Deadline[l] < Interval[l]
  /\ TTL \in Nat \ {0} /\ MaxLag \in Nat
  /\ BucketLen \in Nat \ {0}
  /\ Tolerance \in Nat \ {0}
ASSUME EnvironmentAssumption ==
  /\ Specs \subseteq SpecType /\ Specs # {}
  /\ Probes \subseteq ProbeType /\ Probes # {}
  /\ ForceTimes \subseteq Nat \ {0}
  /\ ForceE4Times \subseteq Nat \ {0}
  /\ CredStates \subseteq {"ok", "missing", "malformed"}
  /\ "ok" \in CredStates
  /\ Faults \subseteq FaultKinds

VARIABLES
  now,          \* the one clock all timestamps are taken from
  spec, gen,    \* the optional parts of spec, and metadata.generation
  annForce,     \* arete.io/force-revalidate, Nil when unset or malformed
  annE4,        \* arete.io/force-e4
  creds,        \* the credentials Secret
  jobs,         \* the validation Jobs in the cluster
  verified,     \* verifiedLastValidationAt, verifiedLastSampledRetrievalAt,
                \* lastFullRetrieval.completedAt
  lastTrigger,  \* lastFullRetrieval.triggerSource
  conds,        \* status.conditions
  lastForce,    \* status.lastForceRevalidatedAt
  lastForcedE4, \* status.lastForcedE4At
  claimed,      \* status.claimedLastSuccessfulBackup
  inventory,    \* status.observedInventory
  obsGen,       \* status.observedGeneration
  firstSeen,    \* credsTransient, in the memory of the controller
  gauge,        \* arete_condition_state, in the memory of the controller
  pc, rec       \* the reconcile in progress and its local variables

status  == <<verified, lastTrigger, conds, lastForce, lastForcedE4, claimed,
             inventory, obsGen>>
cluster == <<spec, gen, annForce, annE4, creds>>
memory  == <<firstSeen, gauge>>
vars    == <<now, cluster, jobs, status, memory, pc, rec>>

-----------------------------------------------------------------------------
(* Jobs.  A Job's name is the hash of (BR, level, generation, minute);     *)
(* ended is the time of its terminal condition; counted is how often       *)
(* recordValidationRun has counted it (saturating at MaxCount).            *)

MaxCount == 2
JobStates == {"active", "succeeded", "failed"}
Job == [lvl : Levels, gen : Nat, minute : Nat, created : Time,
        state : JobStates, ended : Time, manual : BOOLEAN,
        counted : 0..MaxCount]

jobInFlight(j) == j.state = "active"
jobSucceeded(j) == j.state = "succeeded"

(* The Job controller sets completionTime on success only.                 *)
jobCompletionTime(j) == IF jobSucceeded(j) THEN j.ended ELSE j.created

JobsOf(l) == {j \in jobs : j.lvl = l}
InFlight(l) == \E j \in JobsOf(l) : jobInFlight(j)
Completed(l) == {j \in JobsOf(l) : ~jobInFlight(j)}

(* Mutant: the sort order is reversed.                                     *)
pickEarliestCompletedJob(l) ==
  {j \in Completed(l) :
     \A k \in Completed(l) : jobCompletionTime(k) >= jobCompletionTime(j)}

(* sort.Slice is not stable: a tie may resolve either way.                 *)
pickLatestCompletedJob(l) ==
  {j \in Completed(l) :
     \A k \in Completed(l) : jobCompletionTime(k) <= jobCompletionTime(j)}

SameName(j, k) == j.lvl = k.lvl /\ j.gen = k.gen /\ j.minute = k.minute

NewJob(l, g, manual) ==
  [lvl |-> l, gen |-> g, minute |-> now \div BucketLen, created |-> now,
   state |-> "active", ended |-> Nil, manual |-> manual, counted |-> 0]

(* Create; AlreadyExists is treated as success.                            *)
spawnJob(js, j) == IF \E k \in js : SameName(j, k) THEN js ELSE js \cup {j}

recordValidationRun(js, done) ==
  (js \ done) \cup
  {[j EXCEPT !.counted = IF @ < MaxCount THEN @ + 1 ELSE @] : j \in done}

-----------------------------------------------------------------------------
(* The locals of a reconcile.                                              *)

CondOf == [E2 |-> "MetadataValid", E3 |-> "SampledIntegrityValid",
           E4 |-> "FullRetrievalCompleted"]
Verdicts == {"none", "True", "False"}

IdleRec ==
  [spec    |-> [e3 |-> FALSE, objs |-> FALSE, e4 |-> FALSE, pvc |-> FALSE,
                budget |-> FALSE],
   gen     |-> 0,
   forceTS |-> Nil, forceE4TS |-> Nil, need |-> {},
   probe   |-> [reach |-> FALSE, sec |-> FALSE, last |-> Nil, inv |-> "none"],
   active  |-> {},
   res     |-> [l \in Levels |-> "none"],
   at      |-> [l \in Levels |-> Nil],
   manual  |-> FALSE, stats |-> FALSE]

RecType ==
  [spec : SpecType, gen : Nat, forceTS : Time, forceE4TS : Time,
   need : SUBSET Levels, probe : ProbeType, active : SUBSET Levels,
   res : [Levels -> Verdicts], at : [Levels -> Time], manual : BOOLEAN,
   stats : BOOLEAN]

verdictOf(j) == IF jobSucceeded(j) THEN "True" ELSE "False"

levelVerifiedAfter(l, ts) == verified[l] # Nil /\ verified[l] > ts

(* resolveForceRevalidate, resolveForceE4: a value counts while it is      *)
(* newer than the one recorded as honored.                                 *)
resolveForce(ann, honored) ==
  IF ann # Nil /\ (honored = Nil \/ ann > honored) THEN ann ELSE Nil

forceNeeded(sp, ts, tsE4) ==
  {l \in Levels :
     \/ l = "E2" /\ ts # Nil /\ ~levelVerifiedAfter("E2", ts)
     \/ l = "E3" /\ ts # Nil /\ sp.e3 /\ ~levelVerifiedAfter("E3", ts)
     \/ l = "E4" /\ tsE4 # Nil /\ ~levelVerifiedAfter("E4", tsE4)}

enabled(l, sp) == l = "E2" \/ (l = "E3" /\ sp.e3) \/ (l = "E4" /\ sp.e4)

(* Mutant: the cooldown is dropped.                                        *)
shouldSpawnAlways(l, sp) == enabled(l, sp)

shouldSpawn(l, sp) ==
  /\ enabled(l, sp)
  /\ verified[l] = Nil \/ now - verified[l] >= Interval[l]

(* Mutant: Before instead of !After.                                       *)
alreadyIngestedStrictly(l, j) ==
  verified[l] # Nil /\ jobCompletionTime(j) < verified[l]

alreadyIngested(l, j) ==
  verified[l] # Nil /\ jobCompletionTime(j) <= verified[l]

toIngest(l) == {j \in pickLatestCompletedJob(l) : ~alreadyIngested(l, j)}

NoResult == [res |-> "none", at |-> Nil, manual |-> FALSE, job |-> {}]
ingestResults(l) ==
  IF toIngest(l) = {}
  THEN {NoResult}
  ELSE {[res |-> verdictOf(j), at |-> jobCompletionTime(j),
         manual |-> j.manual, job |-> {j}] : j \in toIngest(l)}

MayFail(f) == IF f \in Faults THEN BOOLEAN ELSE {FALSE}

-----------------------------------------------------------------------------
(* Reconcile: up to the probe                                              *)

(* The E1 probe, whose outcomes are those the object store allows: without *)
(* a first LIST nothing else is looked at; a failed inventory is "none".   *)
unreachable == [reach |-> FALSE, sec |-> FALSE, last |-> Nil, inv |-> "none"]

probeRepository ==
  {p \in Probes : p.last <= now /\ (p.reach \/ p = unreachable)}

(* Get, resolveCredentials, both annotations and the E1 probe.             *)
Begin ==
  /\ pc = "idle"
  /\ creds = "ok"
  /\ firstSeen' = Nil
  /\ \E p \in probeRepository :
       LET ts   == resolveForce(annForce, lastForce)
           tsE4 == resolveForce(annE4, lastForcedE4)
       IN rec' = [IdleRec EXCEPT
                    !.spec = spec, !.gen = gen,
                    !.forceTS = ts, !.forceE4TS = tsE4,
                    !.need = forceNeeded(spec, ts, tsE4),
                    !.probe = p]
  /\ pc' = "e2"
  /\ UNCHANGED <<now, cluster, jobs, status, gauge>>

(* Mutant: Store, every failing reconcile restarts the window.             *)
firstMissingRestarted == now

(* LoadOrStore: the first failing reconcile starts the tolerance window.   *)
firstMissing == IF firstSeen = Nil THEN now ELSE firstSeen

(* The Secret is missing for less than the tolerance: nothing is written.  *)
TolerateMissingCredentials ==
  /\ pc = "idle"
  /\ creds = "missing"
  /\ now - firstMissing < Tolerance
  /\ firstSeen' = firstMissing
  /\ UNCHANGED <<now, cluster, jobs, status, gauge, pc, rec>>

credentialsFailed ==
  applyConditions(conds["FullRetrievalCompleted"], spec, inventory,
                  verified["E4"] # Nil,
    [reachable |-> "False", bucketSecurityValid |-> "Absent",
     backupCurrent |-> "Absent",
     metadataValid          |-> preservedCondition(conds["MetadataValid"]),
     sampledIntegrityValid  |-> preservedCondition(conds["SampledIntegrityValid"]),
     fullRetrievalCompleted |-> preservedCondition(conds["FullRetrievalCompleted"]),
     e4JobActive |-> FALSE])

(* Missing beyond the tolerance, or unusable in any other way.  A failed   *)
(* status patch leaves only the tolerance window started.                  *)
RecordCredentialsFailure ==
  /\ pc = "idle"
  /\ \/ creds = "malformed" /\ UNCHANGED firstSeen
     \/ /\ creds = "missing"
        /\ now - firstMissing >= Tolerance
        /\ firstSeen' = firstMissing
  /\ \E failed \in MayFail("patch") :
       IF failed
       THEN UNCHANGED <<conds, obsGen>>
       ELSE conds' = credentialsFailed /\ obsGen' = gen
  /\ UNCHANGED <<now, cluster, jobs, verified, lastTrigger, lastForce,
                 lastForcedE4, claimed, inventory, gauge, pc, rec>>

-----------------------------------------------------------------------------
(* Reconcile: the three Job levels                                         *)

(* What processE2, processE3 and processE4 share once the Jobs are listed: *)
(* note an active Job, ingest the latest completed one if it is newer than *)
(* the one on record, spawn a Job if one is wanted and none is active.     *)
(* The decision to spawn reads the status as it was before the ingest.     *)
(* A level is skipped while an earlier one is active, E3 also when it is   *)
(* not enabled: the step that leads to it then moves past it.              *)
ProcessLevel(l, manual, spawned, r, stats) ==
  /\ jobs' = LET js == recordValidationRun(jobs, r.job)
             IN IF spawned THEN spawnJob(js, NewJob(l, rec.gen, manual)) ELSE js
  /\ rec' = [rec EXCEPT
               !.active = IF spawned \/ InFlight(l) THEN @ \cup {l} ELSE @,
               !.res[l] = r.res, !.at[l] = r.at,
               !.manual = r.manual, !.stats = stats]

(* Mutant: firstActiveJob is not consulted.                                *)
spawnOutcomesUnguarded(l, want) ==
  IF want THEN {~f : f \in MayFail("create")} ELSE {FALSE}

(* A wanted Job fails to spawn only if the Create call (or what prepares   *)
(* it) fails.                                                              *)
spawnOutcomes(l, want) ==
  IF want /\ ~InFlight(l) THEN {~f : f \in MayFail("create")} ELSE {FALSE}

(* A failing List ends the level with an empty outcome.                    *)
ListFails == "list" \in Faults /\ UNCHANGED <<jobs, rec>>

wantE2 == "E2" \in rec.need \/ shouldSpawn("E2", rec.spec)

(* Mutant: the later levels do not wait for E2.                            *)
afterE2Ungated == IF rec.spec.e3 THEN "e3" ELSE "e4"

(* Where the reconcile goes next: E3 and E4 wait for E2, and processE3     *)
(* returns at once if E3 is not enabled.                                   *)
afterE2 == IF "E2" \in rec'.active THEN "apply"
           ELSE IF rec.spec.e3 THEN "e3" ELSE "e4"

ProcessE2 ==
  /\ pc = "e2"
  /\ \/ ListFails
     \/ \E r \in ingestResults("E2"), s \in spawnOutcomes("E2", wantE2) :
          ProcessLevel("E2", FALSE, s, r, FALSE)
  /\ pc' = afterE2
  /\ UNCHANGED <<now, cluster, status, memory>>

wantE3 == "E3" \in rec.need \/ shouldSpawn("E3", rec.spec)

(* e3CommandArgsEnv dereferences sampledRetrievalObjects.                  *)
panicsE3 == wantE3 /\ ~InFlight("E3") /\ ~rec.spec.objs

ProcessE3 ==
  /\ pc = "e3"
  /\ \/ ListFails
     \/ /\ ~panicsE3
        /\ \E r \in ingestResults("E3"), s \in spawnOutcomes("E3", wantE3) :
             ProcessLevel("E3", FALSE, s, r, FALSE)
  /\ pc' = IF "E3" \in rec'.active THEN "apply" ELSE "e4"
  /\ UNCHANGED <<now, cluster, status, memory>>

(* The panic is recovered by controller-runtime and retried: the reconcile *)
(* ends after the ingest was counted and before the status is written.     *)
PanicE3 ==
  /\ pc = "e3"
  /\ panicsE3
  /\ \E r \in ingestResults("E3") : jobs' = recordValidationRun(jobs, r.job)
  /\ pc' = "idle" /\ rec' = IdleRec
  /\ UNCHANGED <<now, cluster, status, memory>>

wantE4 == /\ "E4" \in rec.need \/ shouldSpawn("E4", rec.spec)
          /\ rec.spec.pvc

(* Whether the log of an ingested Job held a STATS line.  A Job killed at  *)
(* its deadline or whose pod is gone has none.                             *)
parseE4Stats(r) == {r.res # "none" /\ ~lost : lost \in MayFail("logs")}

ProcessE4 ==
  /\ pc = "e4"
  /\ \/ ListFails /\ pc' = "apply"
     \/ \E r \in ingestResults("E4"), s \in spawnOutcomes("E4", wantE4) :
          /\ \E stats \in parseE4Stats(r) :
               ProcessLevel("E4", "E4" \in rec.need, s, r, stats)
          /\ pc' = IF s /\ "E4" \in rec.need THEN "clear" ELSE "apply"
  /\ UNCHANGED <<now, cluster, status, memory>>

(* The merge patch removes whatever value the annotation has by now, and   *)
(* its reply refreshes the in-memory object, spec and generation included. *)
ClearForceE4Annotation ==
  /\ pc = "clear"
  /\ \E failed \in MayFail("clear") :
       IF failed
       THEN UNCHANGED <<annE4, rec>>
       ELSE annE4' = Nil /\ rec' = [rec EXCEPT !.spec = spec, !.gen = gen]
  /\ pc' = "apply"
  /\ UNCHANGED <<now, spec, gen, annForce, creds, jobs, status,
                 memory>>

-----------------------------------------------------------------------------
(* Reconcile: the status                                                   *)

(* A result on record is carried over while its condition is a verdict.    *)
carried(l) == verified[l] # Nil /\ Real(conds[CondOf[l]])

verdictInput(l) ==
  IF rec.res[l] # "none" THEN rec.res[l]
  ELSE IF carried(l) THEN conds[CondOf[l]] ELSE "Absent"

(* Only E4 can have a verdict without a timestamp: no STATS line.          *)
recorded(l) == rec.res[l] # "none" /\ (l = "E4" => rec.stats)

verifiedAfter ==
  [l \in Levels |->
     IF recorded(l) THEN rec.at[l]
     ELSE IF rec.res[l] # "none" \/ carried(l) THEN verified[l] ELSE Nil]

(* Mutant: set before the MergeFrom snapshot, so never patched.            *)
honoredForceAtLost == lastForce

(* Mutant: E3 is not waited for.                                           *)
honoredForceAtAfterE2 ==
  IF rec.forceTS # Nil /\ "E2" \notin rec.need THEN rec.forceTS ELSE lastForce

honoredForceAt ==
  IF rec.forceTS # Nil /\ rec.need \cap {"E2", "E3"} = {}
  THEN rec.forceTS ELSE lastForce

honoredForceE4At ==
  IF rec.forceE4TS # Nil /\ "E4" \notin rec.need
  THEN rec.forceE4TS ELSE lastForcedE4

observedInventory ==
  IF rec.probe.inv # "none" THEN rec.probe.inv ELSE inventory

probedConditions ==
  applyConditions(conds["FullRetrievalCompleted"], rec.spec, observedInventory,
                  verifiedAfter["E4"] # Nil,
    [reachable |-> condFromBool(rec.probe.reach),
     bucketSecurityValid |-> ifReachable(rec.probe.reach,
                                         condFromBool(rec.probe.sec)),
     backupCurrent |-> ifReachable(rec.probe.reach,
                         computeBackupCurrent(rec.probe.last, now, MaxLag)),
     metadataValid          |-> verdictInput("E2"),
     sampledIntegrityValid  |-> verdictInput("E3"),
     fullRetrievalCompleted |-> verdictInput("E4"),
     e4JobActive |-> "E4" \in rec.active])

(* A gauge knows True, False and Unknown; the series of a condition that   *)
(* was removed is never deleted.                                           *)
publishMetrics(cs) ==
  [t \in CondTypes |->
     IF cs[t] = "Absent" THEN gauge[t]
     ELSE IF cs[t] = "Pending" THEN "Unknown" ELSE cs[t]]

(* Mutant: the generation at the time of the patch.                        *)
observedGenerationLive == gen

observedGeneration == rec.gen

(* applyStatus and publishMetrics.                                         *)
ApplyStatus ==
  /\ pc = "apply"
  /\ verified' = verifiedAfter
  /\ lastTrigger' = IF recorded("E4")
                    THEN (IF rec.manual THEN "manual" ELSE "scheduled")
                    ELSE IF verifiedAfter["E4"] = Nil THEN "none" ELSE lastTrigger
  /\ conds' = probedConditions
  /\ gauge' = publishMetrics(conds')
  /\ lastForce' = honoredForceAt
  /\ lastForcedE4' = honoredForceE4At
  /\ claimed' = rec.probe.last
  /\ inventory' = observedInventory
  /\ obsGen' = observedGeneration
  /\ pc' = "idle" /\ rec' = IdleRec
  /\ UNCHANGED <<now, cluster, jobs, firstSeen>>

(* The status patch fails: everything this reconcile learnt is dropped.    *)
ApplyStatusFails ==
  /\ pc = "apply"
  /\ "patch" \in Faults
  /\ pc' = "idle" /\ rec' = IdleRec
  /\ UNCHANGED <<now, cluster, jobs, status, memory>>

(* The controller restarts: locals, tolerance window and gauges are lost.  *)
Crash ==
  /\ "crash" \in Faults
  /\ firstSeen' = Nil
  /\ gauge' = NoConditions
  /\ pc' = "idle" /\ rec' = IdleRec
  /\ UNCHANGED <<now, cluster, jobs, status>>

Reconcile ==
  \/ Begin \/ TolerateMissingCredentials \/ RecordCredentialsFailure
  \/ ProcessE2 \/ ProcessE3 \/ PanicE3
  \/ ProcessE4 \/ ClearForceE4Annotation
  \/ ApplyStatus \/ ApplyStatusFails

-----------------------------------------------------------------------------
(* The cluster around the reconciler                                       *)

(* The Job and TTL controllers keep up to within a tick: the clock passes  *)
(* neither the deadline of a Job in flight nor the expiry of a finished    *)
(* one.                                                                    *)
Tick ==
  /\ now < MaxTime
  /\ \A j \in jobs : IF jobInFlight(j) THEN now < j.created + Deadline[j.lvl]
                                      ELSE now < j.ended + TTL
  /\ now' = now + 1
  /\ UNCHANGED <<cluster, jobs, status, memory, pc, rec>>

FinishJob ==
  /\ \E j \in jobs, v \in {"succeeded", "failed"} :
       /\ jobInFlight(j)
       /\ jobs' = (jobs \ {j}) \cup {[j EXCEPT !.state = v, !.ended = now]}
  /\ UNCHANGED <<now, cluster, status, memory, pc, rec>>

(* The TTL controller.                                                     *)
ExpireJob ==
  /\ \E j \in jobs :
       /\ ~jobInFlight(j)
       /\ now >= j.ended + TTL
       /\ jobs' = jobs \ {j}
  /\ UNCHANGED <<now, cluster, status, memory, pc, rec>>

(* An annotation is set to a timestamp or removed.                         *)
AnnotateForceRevalidate ==
  /\ \E ts \in ForceTimes \cup {Nil} : ts # annForce /\ annForce' = ts
  /\ UNCHANGED <<now, spec, gen, annE4, creds, jobs, status, memory,
                 pc, rec>>

AnnotateForceE4 ==
  /\ \E ts \in ForceE4Times \cup {Nil} : ts # annE4 /\ annE4' = ts
  /\ UNCHANGED <<now, spec, gen, annForce, creds, jobs, status,
                 memory, pc, rec>>

EditSpec ==
  /\ gen <= MaxEdits
  /\ \E s \in Specs : s # spec /\ spec' = s
  /\ gen' = gen + 1
  /\ UNCHANGED <<now, annForce, annE4, creds, jobs, status, memory,
                 pc, rec>>

ChangeSecret ==
  /\ \E c \in CredStates : c # creds /\ creds' = c
  /\ UNCHANGED <<now, spec, gen, annForce, annE4, jobs, status, memory, pc, rec>>

Environment ==
  \/ Tick \/ FinishJob \/ ExpireJob \/ AnnotateForceRevalidate
  \/ AnnotateForceE4 \/ EditSpec \/ ChangeSecret \/ Crash

-----------------------------------------------------------------------------
Init ==
  /\ now = 1
  /\ spec \in Specs /\ gen = 1
  /\ annForce = Nil /\ annE4 = Nil
  /\ creds \in CredStates
  /\ jobs = {}
  /\ verified = [l \in Levels |-> Nil]
  /\ lastTrigger = "none"
  /\ conds = NoConditions
  /\ lastForce = Nil /\ lastForcedE4 = Nil
  /\ claimed = Nil /\ inventory = "none" /\ obsGen = Nil
  /\ firstSeen = Nil
  /\ gauge = NoConditions
  /\ pc = "idle" /\ rec = IdleRec

Next == Reconcile \/ Environment

Spec == Init /\ [][Next]_vars

(* Fairness: the work queue always holds a wake-up for the BR (every       *)
(* return path requeues), the client calls return, and a Job ends by its   *)
(* deadline.  Nobody owes the system a tick, an edit or an annotation.     *)
Fairness == WF_vars(Reconcile) /\ WF_vars(FinishJob)

FairSpec == Spec /\ Fairness
-----------------------------------------------------------------------------
(* Properties                                                              *)

(* Every variable stays in its type.                                       *)
TypeOK ==
  /\ now \in Time
  /\ spec \in SpecType /\ gen \in Nat
  /\ annForce \in Time /\ annE4 \in Time
  /\ creds \in {"ok", "missing", "malformed"}
  /\ jobs \subseteq Job
  /\ verified \in [Levels -> Time]
  /\ lastTrigger \in {"none", "scheduled", "manual"}
  /\ conds \in [CondTypes -> CondValue]
  /\ lastForce \in Time /\ lastForcedE4 \in Time
  /\ claimed \in Time /\ inventory \in Inventories /\ obsGen \in Nat
  /\ firstSeen \in Time
  /\ gauge \in [CondTypes -> CondValue]
  /\ pc \in {"idle", "e2", "e3", "e4", "clear", "apply"}
  /\ rec \in RecType

(* No two Jobs of one level run at once for a BR, whatever fails or        *)
(* restarts between listing the Jobs and creating one (processE2/E3/E4     *)
(* check firstActiveJob, then Create).                                     *)
AtMostOneInFlight ==
  \A j, k \in jobs :
    j.lvl = k.lvl /\ jobInFlight(j) /\ jobInFlight(k) => j = k

(* The timestamp that delays the next run of a level is on record only     *)
(* together with a verdict: for E2 exactly then, for E4 every timestamp    *)
(* has one, for E3 every verdict has one.  So the branches of applyStatus  *)
(* that clear a timestamp whose condition was reset are dead for E2 and E4.*)
AnchorHasVerdict ==
  /\ verified["E2"] # Nil <=> Real(conds["MetadataValid"])
  /\ verified["E4"] # Nil => Real(conds["FullRetrievalCompleted"])
  /\ Real(conds["SampledIntegrityValid"]) => verified["E3"] # Nil

Created(j) == j \in jobs' \ jobs /\ jobInFlight(j)

(* E3 is never created while an E2 Job runs, nor E4 while an E2 Job or (if *)
(* E3 is enabled) an E3 Job runs: the sequencing in Reconcile that keeps   *)
(* restic's exclusive locks apart, across spec edits and restarts.         *)
SpawnsAreSequenced ==
  [][\A j \in jobs' : Created(j) =>
       /\ j.lvl # "E2" => ~InFlight("E2")
       /\ j.lvl = "E4" /\ rec.spec.e3 => ~InFlight("E3")]_vars

(* The steps in which the reconciler looks at the Jobs of a level.         *)
Inspects(l) ==
  \/ l = "E2" /\ pc = "e2" /\ pc' \in {"e3", "e4", "apply"}
  \/ l = "E3" /\ pc = "e3" /\ pc' \in {"e4", "apply"}
  \/ l = "E4" /\ pc = "e4" /\ pc' \in {"clear", "apply"}

NewestRun(l, j) ==
  j \in Completed(l) /\ \A k \in Completed(l) \ {j} : k.ended <= j.created

(* The newest finished Job of a level decides its verdict: if it was       *)
(* created after the run on record and neither that run nor another Job    *)
(* shares its completion stamp, the reconcile that inspects the level      *)
(* takes this Job's verdict (pickLatestCompletedJob, alreadyIngested).     *)
NewestRunDecides ==
  [][\A l \in Levels : Inspects(l) =>
       \A j \in jobs :
         /\ NewestRun(l, j)
         /\ verified[l] <= j.created /\ verified[l] # jobCompletionTime(j)
         /\ \A k \in Completed(l) \ {j} :
              jobCompletionTime(k) # jobCompletionTime(j)
         => rec'.res[l] = verdictOf(j)]_vars

(* jobCompletionTime "returns when a Job finished (success or failure)"    *)
(* (e2_job.go): so a failed run that is the newest of its level is         *)
(* reported by the reconcile that inspects it.                             *)
NoFailureLost ==
  [][\A l \in Levels : Inspects(l) =>
       \A j \in jobs :
         NewestRun(l, j) /\ verdictOf(j) = "False"
         => \/ rec'.res[l] = "False"
            \/ rec'.res[l] = "none" /\ conds[CondOf[l]] = "False"]_vars

(* arete_validation_runs_total "counts completed E2/E3/E4 Jobs by          *)
(* outcome": no Job is counted by two reconciles.                          *)
CountedOnce == \A j \in jobs : j.counted <= 1

(* lastForceRevalidatedAt moves to an annotation value only when E2, and   *)
(* E3 if the reconcile saw it enabled, already had a result newer than     *)
(* that value; it never moves back.                                        *)
HonoredAfterFreshRuns ==
  [][lastForce' # lastForce =>
       /\ lastForce' > lastForce
       /\ levelVerifiedAfter("E2", lastForce')
       /\ rec.spec.e3 => levelVerifiedAfter("E3", lastForce')]_vars

(* While observedGeneration is current, the optional conditions are those  *)
(* the current spec asks for, though the spec may be edited at any point   *)
(* of a reconcile and is re-read by clearForceE4Annotation.                *)
ObservedSpecIsShown ==
  obsGen = gen =>
    /\ conds["SampledIntegrityValid"] # "Absent" <=> spec.e3
    /\ conds["SizeWithinBudget"] # "Absent" <=> spec.budget
    /\ spec.e4 => conds["FullRetrievalCompleted"] # "Absent"

(* A credential gap is not evidence about the data: a reconcile without    *)
(* credentials leaves the recorded verdicts of the enabled levels alone.   *)
GapKeepsVerdicts ==
  [][pc = "idle" /\ pc' = "idle" =>
       \A l \in Levels :
         /\ Real(conds[CondOf[l]]) /\ verified[l] # Nil
         /\ l = "E3" => spec.e3
         => conds'[CondOf[l]] = conds[CondOf[l]]]_vars

(* A force-revalidate annotation in the past is honored, or replaced: the  *)
(* levels it forces do run and their results do get recorded, with no help *)
(* from the clock, as long as the credentials are there.                   *)
ForceIsHonored ==
  \A ts \in ForceTimes :
    annForce = ts /\ now > ts
      ~> lastForce >= ts \/ annForce # ts \/ creds # "ok"

(* Enabling E3 leads to an E3 verdict: E2, which goes first in every       *)
(* reconcile and makes the later levels wait, does not starve it, unless a *)
(* force-revalidate annotation dated now or later keeps forcing E2.        *)
E3Reports ==
  spec.e3 ~> \/ Real(conds["SampledIntegrityValid"])
             \/ ~spec.e3 \/ annForce >= now \/ creds # "ok"

-----------------------------------------------------------------------------
(* The levels implement ValidationLevels                                   *)

(* The results of a level: its ended Jobs and what was read of one.        *)
ResultsOf(l) ==
  {[v |-> verdictOf(j), at |-> jobCompletionTime(j)] : j \in Completed(l)}
  \cup (IF rec.res[l] = "none" THEN {}
        ELSE {[v |-> rec.res[l], at |-> rec.at[l]]})

Published ==
  INSTANCE ValidationLevels WITH
    Withdrawable <- Levels \ {"E2"},
    running <- [l \in Levels |-> InFlight(l)],
    results <- [l \in Levels |-> ResultsOf(l)],
    shown   <- [l \in Levels |-> IF Real(conds[CondOf[l]])
                                 THEN conds[CondOf[l]] ELSE "none"],
    at      <- verified

(* Each level keeps the promises of ValidationLevels through every         *)
(* interleaving: what applyStatus publishes is the result of a run that    *)
(* ended, newer than the one published before, and an E2 verdict is never  *)
(* taken back.                                                             *)
LevelsArePromised == Published!Spec

-----------------------------------------------------------------------------
(* Reconciling keeps reaching the status write: no spec the API server     *)
(* accepts stops the status from being refreshed.                          *)
StatusKeepsBeingWritten == []<>(pc = "apply")

(* A Secret that stays missing beyond the tolerance is reported.           *)
LongGapIsReported ==
  creds = "missing" /\ firstSeen # Nil /\ now - firstSeen >= Tolerance
    ~> conds["Reachable"] = "False" \/ creds # "missing"
=============================================================================
