----------------------------- MODULE Conditions -----------------------------
(***************************************************************************)
(* The condition algebra of the BackupRepository controller: how the E1    *)
(* probe and the E2/E3/E4 verdicts become status.conditions, and how those *)
(* roll up into ProbeHealthy, ValidationHealthy and Healthy.               *)
(*                                                                         *)
(* A condition is abstracted to the (status, reason) pairs the code tells  *)
(* apart:                                                                  *)
(*   "True", "False"  the metav1 status of the same name;                  *)
(*   "Pending"        Unknown with reason LayerTwoNotYetAvailable, the one *)
(*                    reason the controller compares against;              *)
(*   "Unknown"        Unknown with any other reason;                       *)
(*   "Absent"         the type is not in the list (nil for an input).      *)
(* Messages and the individual reasons of a False are left out.            *)
(***************************************************************************)
EXTENDS Integers

CondValue == {"True", "False", "Pending", "Unknown", "Absent"}

CondTypes == {"Reachable", "BucketSecurityValid", "BackupCurrent",
              "SizeWithinBudget", "MetadataValid", "SampledIntegrityValid",
              "FullRetrievalCompleted", "ProbeHealthy", "ValidationHealthy",
              "Healthy"}

NoConditions == [t \in CondTypes |-> "Absent"]

(* A verdict on record, as opposed to "no Job has reported yet".           *)
Real(c) == c \notin {"Absent", "Pending"}

OrElse(c, default) == IF c = "Absent" THEN default ELSE c

condFromBool(ok) == IF ok THEN "True" ELSE "False"

ifReachable(reachable, c) == IF reachable THEN c ELSE "Unknown"

(* Mutant: an observability gap blanks the verdict.                        *)
preservedConditionBlanked(c) == "Absent"

preservedCondition(c) == IF Real(c) THEN c ELSE "Absent"

(***************************************************************************)
(* inventory is the class of status.observedInventory the code tells       *)
(* apart: never recorded, no object at all, within the budget, above it.   *)
(***************************************************************************)
Inventories == {"none", "zero", "small", "large"}

computeSizeWithinBudget(inventory) ==
  IF inventory = "none" THEN "Pending" ELSE condFromBool(inventory # "large")

(* last = 0 stands for a nil claimedLastSuccessfulBackup.                  *)
computeBackupCurrent(last, now, maxLag) ==
  condFromBool(last # 0 /\ now - last <= maxLag)

(* Mutant: the inconclusive case is left at the zero value.                *)
rollupANDZero(vs) ==
  IF "False" \in vs THEN "False" ELSE IF "True" \in vs THEN "True" ELSE ""

(* rollupAND over the values of the requested types; an Absent one is      *)
(* skipped.                                                                *)
rollupAND(vs) ==
  IF "False" \in vs
  THEN "False"
  ELSE IF "True" \in vs /\ "Unknown" \notin vs /\ "Pending" \notin vs
       THEN "True"
       ELSE "Pending"

(* Mutant: a Job in flight hides the result that was just ingested.        *)
fullRetrievalConditionActiveFirst(old, interval, hasResult, active, verdict) ==
  IF ~(interval \/ hasResult \/ active)
  THEN "Absent"
  ELSE IF active THEN "Pending" ELSE OrElse(verdict, OrElse(old, "Pending"))

(***************************************************************************)
(* FullRetrievalCompleted is the one condition whose presence depends on   *)
(* more than the spec: interval set, a result on record, or a Job active.  *)
(***************************************************************************)
fullRetrievalCondition(old, interval, hasResult, active, verdict) ==
  IF ~(interval \/ hasResult \/ active)
  THEN "Absent"
  ELSE IF verdict # "Absent"
       THEN verdict
       ELSE IF active THEN "Pending" ELSE OrElse(old, "Pending")

(***************************************************************************)
(* applyConditions(old, spec, inventory, hasResult, in): the new condition *)
(* set.  old is the previous FullRetrievalCompleted, spec says which       *)
(* optional levels are configured, hasResult whether                       *)
(* status.lastFullRetrieval is set, in is the conditionInputs struct.      *)
(***************************************************************************)
applyConditions(old, spec, inventory, hasResult, in) ==
  LET security   == OrElse(in.bucketSecurityValid, "Unknown")
      current    == OrElse(in.backupCurrent, "Unknown")
      size       == IF spec.budget THEN computeSizeWithinBudget(inventory)
                                   ELSE "Absent"
      metadata   == OrElse(in.metadataValid, "Pending")
      sampled    == IF spec.e3 THEN OrElse(in.sampledIntegrityValid, "Pending")
                               ELSE "Absent"
      full       == fullRetrievalCondition(old, spec.e4, hasResult,
                                           in.e4JobActive,
                                           in.fullRetrievalCompleted)
      probe      == rollupAND({in.reachable, security, current, size})
      validation == rollupAND({metadata, sampled, full})
  IN [Reachable              |-> in.reachable,
      BucketSecurityValid    |-> security,
      BackupCurrent          |-> current,
      SizeWithinBudget       |-> size,
      MetadataValid          |-> metadata,
      SampledIntegrityValid  |-> sampled,
      FullRetrievalCompleted |-> full,
      ProbeHealthy           |-> probe,
      ValidationHealthy      |-> validation,
      Healthy                |-> rollupAND({probe, validation})]
=============================================================================
