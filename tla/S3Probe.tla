------------------------------ MODULE S3Probe ------------------------------
(***************************************************************************)
(* The E1 probe: four phases of calls to the object store, each of which   *)
(* may fail, while the producer of the backups keeps writing and removing  *)
(* objects between them.                                                   *)
(*                                                                         *)
(* A bucket holds data or not, and a mark for each completed backup: a     *)
(* wal-g stop sentinel or a restic snapshot file, represented by its time. *)
(* For a sentinel that is its FinishTime or, if that does not parse, its   *)
(* LastModified: the sentinel is uploaded when the backup ends, within a   *)
(* tick the two are the same.                                              *)
(***************************************************************************)
EXTENDS FiniteSetsExt, Naturals

CONSTANTS
  MaxLost,     \* bound: calls that fail, over a behaviour
  S3Faults     \* the phases whose calls may fail

VARIABLES
  now,         \* the clock
  format,      \* spec.format: "walg" or "restic", barman has no validator yet
  bucket,      \* what is under the prefix
  phase,       \* where the probe is, "idle" when none runs
  listed,      \* the sentinel that was picked and is about to be read, or 0
  result,      \* the probeResult so far
  before,      \* newest backup that was complete when the probe began
  lost         \* number of calls that failed so far

probe == <<phase, listed, result, before, lost>>

EmptyBucket == [data |-> FALSE, marks |-> {}]
NoResult == [reach |-> FALSE, sec |-> FALSE, last |-> 0, inv |-> "none"]

ProbeAssumption ==
  /\ MaxLost \in Nat
  /\ S3Faults \subseteq {"list", "security", "sentinels", "get", "inventory"}

(* Mutant: the sentinels are sorted in ascending order.                    *)
oldestOf(ts) == IF ts = {} THEN 0 ELSE Min(ts)

(* The most recent sentinel, or the most recent snapshot file.             *)
newestOf(ts) == IF ts = {} THEN 0 ELSE Max(ts)

(* Whether the calls of a phase succeed.                                   *)
Outcomes(ph) == IF ph \in S3Faults /\ lost < MaxLost THEN BOOLEAN ELSE {TRUE}
Count(ok) == lost' = IF ok THEN lost ELSE lost + 1

(* Phases 1 and 2, neither of which depends on what the bucket holds.      *)
(* Without a client or a first LIST nothing else is looked at; an error    *)
(* from the security checks counts as a missing guarantee.                 *)
checkReachability ==
  /\ phase = "idle"
  /\ \E ok \in Outcomes("list"), sec \in Outcomes("security") :
       /\ result' = [NoResult EXCEPT !.reach = ok, !.sec = ok /\ sec]
       /\ phase' = IF ok THEN "sentinels" ELSE "done"
       /\ Count(ok /\ sec)
  /\ before' = IF bucket.marks = {} THEN 0 ELSE Max(bucket.marks)
  /\ UNCHANGED <<now, format, bucket, listed>>

(* Phase 3, the LIST of readWalgSentinel: the most recent one is picked.   *)
listSentinels ==
  /\ phase = "sentinels" /\ format = "walg"
  /\ \E ok \in Outcomes("sentinels") :
       /\ listed' = IF ok THEN newestOf(bucket.marks) ELSE 0
       /\ phase' = IF listed' = 0 THEN "inventory" ELSE "get"
       /\ Count(ok)
  /\ UNCHANGED <<now, format, bucket, result, before>>

(* Phase 3, the GET: fails if the sentinel is gone by now.                 *)
getSentinel ==
  /\ phase = "get"
  /\ \E ok \in Outcomes("get") :
       /\ result' = IF ok /\ listed \in bucket.marks
                    THEN [result EXCEPT !.last = listed] ELSE result
       /\ Count(ok)
  /\ listed' = 0 /\ phase' = "inventory"
  /\ UNCHANGED <<now, format, bucket, before>>

(* Phase 3 for restic: the LastModified of the newest snapshot file.       *)
readResticLatestSnapshotTime ==
  /\ phase = "sentinels" /\ format = "restic"
  /\ \E ok \in Outcomes("sentinels") :
       /\ result' = IF ok THEN [result EXCEPT !.last = newestOf(bucket.marks)]
                    ELSE result
       /\ Count(ok)
  /\ phase' = "inventory"
  /\ UNCHANGED <<now, format, bucket, listed, before>>

(* Phase 4.  Sizes are left out, so "small" is any bucket with an object.  *)
runInventoryProbe ==
  /\ phase = "inventory"
  /\ \E ok \in Outcomes("inventory") :
       /\ result' = [result EXCEPT !.inv = IF ~ok THEN "none"
                                           ELSE IF bucket = EmptyBucket THEN "zero"
                                           ELSE "small"]
       /\ Count(ok)
  /\ phase' = "done"
  /\ UNCHANGED <<now, format, bucket, listed, before>>

probeRepository ==
  \/ checkReachability \/ listSentinels \/ getSentinel
  \/ readResticLatestSnapshotTime \/ runInventoryProbe

-----------------------------------------------------------------------------
(* The producer                                                            *)

WriteData ==
  /\ ~bucket.data
  /\ bucket' = [bucket EXCEPT !.data = TRUE]
  /\ UNCHANGED <<now, format, probe>>

(* A backup ends: data was written before its mark.                        *)
FinishBackup ==
  /\ bucket.data /\ now \notin bucket.marks
  /\ bucket' = [bucket EXCEPT !.marks = @ \cup {now}]
  /\ UNCHANGED <<now, format, probe>>

(* Retention removes a backup only when there is a newer one.              *)
Retain ==
  /\ \E o, p \in bucket.marks :
       o < p /\ bucket' = [bucket EXCEPT !.marks = @ \ {o}]
  /\ UNCHANGED <<now, format, probe>>

Producer == WriteData \/ FinishBackup \/ Retain
=============================================================================
