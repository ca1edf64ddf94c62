------------------------------- MODULE Arete -------------------------------
(***************************************************************************)
(* The whole chain: a producer writes backups into a bucket, the E1 probe  *)
(* (S3Probe) reads the bucket call by call, the BackupRepository reconciler*)
(* turns the probe and the verdicts of its Jobs into a status, the status  *)
(* patch wakes the BackupRepositoryConditional reconciler, and that one    *)
(* decides from the status which manifest the tenant gets.                 *)
(*                                                                         *)
(* In BackupRepository the probe is one step of Begin.  Here it runs as    *)
(* the calls it consists of, just before the Begin that takes its result.  *)
(* The BR, its credentials and the manifests stay as they are: the runs of *)
(* the two reconcilers by themselves vary those.                           *)
(*                                                                         *)
(* A reconcile of the BRC reads the BR's status once, in its first step,   *)
(* and nobody else has a part in it.  It commutes with everything but the  *)
(* status patch, so it is taken between two reconciles of the BR, without  *)
(* a step of another in between; it may still come any number of patches   *)
(* late.                                                                   *)
(***************************************************************************)
EXTENDS BackupRepository

CONSTANTS
  Formats, MaxLost, S3Faults,                            \* of S3Probe
  Sources, Children, Bodies, Bootstrap, Foreign,         \* of the BRC
  Decisions, MaxTouches, BRCFaults,
  Contents                                               \* of the sources

VARIABLES
  format, bucket, phase, listed, result, before, lost,   \* S3Probe
  refs, cgen, source, child, cst, queued, timer, cpc, crec, edits,  \* the BRC
  basis  \* history: whether a backup was complete before the probe that the
         \* status, and the BRC's decision, go back to

S3 == INSTANCE S3Probe

(* A condition as its metav1 status, the inventory as its object count.    *)
Healthy == IF conds["Healthy"] = "Pending" THEN "Unknown" ELSE conds["Healthy"]
objectCount == IF inventory \in {"none", "zero"} THEN inventory ELSE "some"

C == INSTANCE BackupRepositoryConditional WITH
       br <- [found |-> TRUE, backup |-> claimed # Nil, inv |-> objectCount,
              healthy |-> Healthy],
       gen <- cgen, st <- cst, pc <- cpc, rec <- crec,
       Repositories <- {}, Specs <- Decisions, MaxEdits <- MaxTouches,
       Faults <- BRCFaults

ASSUME CompositionAssumption ==
  /\ S3!ProbeAssumption /\ Formats \subseteq {"walg", "restic"}
  /\ Probes = [reach : BOOLEAN, sec : BOOLEAN, last : 0..MaxTime, inv : Inventories]
  /\ Contents \in [Sources -> C!Manifests]
  /\ CredStates = {"ok"} /\ "patch" \notin Faults /\ "crash" \notin Faults

brcRest == <<refs, cgen, source, child, cst, timer, cpc, crec, edits>>
brc   == <<brcRest, queued>>
store == <<format, bucket, phase, listed, result, before, lost>>
repository == <<cluster, jobs, status, memory, pc, rec>>
avars == <<vars, store, brc, basis>>

-----------------------------------------------------------------------------
(* The BackupRepository reconciler                                         *)

Probe ==
  /\ pc = "idle"
  /\ S3!probeRepository
  /\ UNCHANGED <<repository, brc, basis>>

BeginWithProbe ==
  /\ phase = "done"
  /\ Begin /\ rec'.probe = result
  /\ phase' = "idle" /\ result' = S3!NoResult
  /\ UNCHANGED <<format, bucket, listed, before, lost, brc, basis>>

Work ==
  /\ pc \notin {"idle", "apply"}
  /\ Reconcile
  /\ UNCHANGED <<store, brc, basis>>

(* The patch always rewrites lastProbedAt, so the BRC gets an event.       *)
PublishStatus ==
  /\ ApplyStatus
  /\ C!wakesForRepository
  /\ basis' = [basis EXCEPT !.status = (before # 0)] /\ before' = 0
  /\ UNCHANGED <<format, bucket, phase, listed, result, lost, brcRest>>

Repository == Probe \/ BeginWithProbe \/ Work \/ PublishStatus

-----------------------------------------------------------------------------
(* The BackupRepositoryConditional reconciler                              *)

Decide ==
  /\ UNCHANGED <<vars, store>>
  /\ C!ReportMissingRepository \/ C!PreserveDecision \/ C!RefuseState
     \/ C!ChooseVariant
  /\ basis' = [basis EXCEPT !.decision = basis.status]

Materialise ==
  /\ UNCHANGED <<vars, store>>
  /\ C!ReadManifest \/ C!ApplyChild \/ C!ApplyChildFails \/ C!PatchStatus
  /\ basis' = IF cpc' = "idle" THEN [basis EXCEPT !.decision = FALSE] ELSE basis

Conditional == Decide \/ Materialise

(* The requeue after a preserved decision.                                 *)
Requeue ==
  /\ UNCHANGED <<vars, store, basis>>
  /\ C!TimerFires

-----------------------------------------------------------------------------
(* Everybody else                                                          *)

Cluster ==
  /\ Tick \/ FinishJob \/ ExpireJob
  /\ UNCHANGED <<store, brc, basis>>

Produce ==
  /\ S3!Producer
  /\ UNCHANGED <<repository, brc, basis>>

AreteInit ==
  /\ Init
  /\ format \in Formats /\ bucket = S3!EmptyBucket /\ phase = "idle" /\ listed = 0
  /\ result = S3!NoResult /\ before = 0 /\ lost = 0
  /\ refs \in Decisions /\ cgen = 1
  /\ source = Contents
  /\ child = [c \in Children |-> C!Absent]
  /\ cst = C!IdleRec.st /\ queued = TRUE /\ timer = FALSE
  /\ cpc = "idle" /\ crec = C!IdleRec /\ edits = 0
  /\ basis = [status |-> FALSE, decision |-> FALSE]

BetweenReconciles == pc = "idle" /\ phase = "idle"

AreteNext ==
  \/ BetweenReconciles /\ (Conditional \/ Requeue)
  \/ cpc = "idle" /\ (Repository \/ Cluster \/ Produce)

AreteSpec == AreteInit /\ [][AreteNext]_avars

(* A status patch, and one whose event reaches the BRC.                    *)
Patches == pc = "apply" /\ pc' = "idle"
Wakes == Patches /\ C!wakesForRepository /\ queued' = TRUE

(* Both work queues are served, that of the BRC at some of the moments     *)
(* AreteNext leaves it.  The status gets patched, and the map function     *)
(* does not lose every event.  Nothing is asked of clock, producer, Jobs.  *)
AreteFairness ==
  /\ WF_avars(Probe \/ BeginWithProbe \/ Work)
  /\ SF_avars(BetweenReconciles /\ Conditional)
  /\ WF_pc(Patches) /\ SF_<<pc, queued>>(Wakes)

AreteFairSpec == AreteSpec /\ AreteFairness
-----------------------------------------------------------------------------
(* Properties                                                              *)

(* "Empty: no successful backup AND no objects yet.  Catches the           *)
(* fresh-tenant scenario unambiguously" (deriveBRState): whenEmpty, which  *)
(* initialises a tenant from nothing, is not materialised if a backup had  *)
(* been completed before the probe the decision goes back to.              *)
EmptyMeansEmpty ==
  cpc = "apply" /\ crec.slot = "whenEmpty" => ~basis.decision

(* claimedLastSuccessfulBackup is never behind: it is unset, or at least   *)
(* as late as the newest backup that was complete when its probe began,    *)
(* although the probe lists the sentinels and reads one in two calls.      *)
ClaimKeepsUp ==
  [][claimed' # claimed => claimed' = Nil \/ claimed' >= before]_avars

(* Once the bucket and the Jobs stop changing, the child that the status   *)
(* asks for is in place, though events to the BRC get lost: the BR's own   *)
(* requeues keep waking the BRC.                                           *)
ChildFollows == C!Converges
=============================================================================
