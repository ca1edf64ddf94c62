------------------------------ MODULE Validator ------------------------------
(***************************************************************************)
(* One validation Job at a time, as its pod runs its script against a      *)
(* repository that its producer keeps changing.                            *)
(*                                                                         *)
(* A script is a sequence of commands of wal-g or restic; restic commands  *)
(* lock the repository and wait a bounded time for the lock.  The producer *)
(* (for restic a VolSync mover) locks it too, writes, prunes and may die   *)
(* with its lock in place.  Objects go bad or disappear at any time.       *)
(*                                                                         *)
(* Time is kept as ages, all advanced by Tick: of a Job, of a wait for a   *)
(* lock, of a lock whose holder is dead.  repo[p] = "ok" is an object that *)
(* is there and readable; read, listed and log are what the commands found.*)
(***************************************************************************)
EXTENDS E2Output, FiniteSetsExt

CONSTANTS
  Formats,      \* the formats a repository may have
  Segments,     \* WAL segments a wal-g repository may hold
  SampleTarget, \* spec.sampledRetrievalObjects
  RetryLock,    \* --retry-lock
  Deadline,     \* per level: activeDeadlineSeconds
  StaleAge,     \* the age from which restic unlock removes a lock
  Noises,       \* what restic check may print
  Damages,      \* the objects that may go bad or disappear
  MaxLocks      \* bound: locks in the repository at once

Levels == {"E2", "E3", "E4"}
Objects == [walg |-> {"catalog", "base"} \cup Segments,
            restic |-> {"index", "pack"}]
Commands == {"backup-list", "wal-fetch", "backup-fetch", "unlock", "check",
             "snapshots", "check-subset", "check-data"}

ASSUME ValidatorAssumption ==
  /\ Formats \subseteq {"walg", "restic"} /\ Formats # {}
  /\ SampleTarget \in Nat \ {0} /\ RetryLock \in Nat \ {0}
  /\ Deadline \in [Levels -> Nat \ {0}] /\ StaleAge \in Nat \ {0}
  /\ Damages \subseteq Objects.walg \cup Objects.restic /\ MaxLocks \in Nat
  /\ IsFiniteSet(Segments)

VARIABLES
  fmt, clean, \* spec.format, spec.autoCleanStaleLocks
  repo,       \* per object: "ok", "bad" or "gone"
  snaps,      \* the snapshots in a restic repository
  locks,      \* the lock files in it
  busy,       \* who is at work under which kind of lock
  job,        \* the Job and the progress of its script
  latest      \* status.claimedLatestBackup as E2 wrote it

producer == <<repo, snaps>>
vars == <<fmt, clean, repo, snaps, locks, busy, job, latest>>

Lock == [who : {"mover", "job"}, excl : BOOLEAN, live : BOOLEAN,
         age : 0..StaleAge]

NoJob == [state |-> "none", lvl |-> "E2", script |-> <<>>, samples |-> <<>>,
          target |-> {}, retried |-> FALSE, seg |-> "none", age |-> 0,
          wait |-> 0, read |-> {}, listed |-> {}, log |-> <<>>]

-----------------------------------------------------------------------------
(* The scripts                                                             *)

(* Mutant: stale locks are never cleaned.                                  *)
unlockNever(l) == <<>>

(* autoCleanStaleLocks: restic only, and not in the E4 script.             *)
unlockFirst(l) ==
  IF clean /\ fmt = "restic" /\ l # "E4" THEN <<"unlock">> ELSE <<>>

(* e2ArgsFor and e2CommandFor, e3CommandArgsEnv, e4CommandArgsEnv.         *)
script(l) ==
  LET tool == [walg   |-> [E2 |-> <<"backup-list">>, E3 |-> <<"wal-fetch">>,
                           E4 |-> <<"backup-fetch">>],
               restic |-> [E2 |-> <<"check", "snapshots">>,
                           E3 |-> <<"check-subset">>, E4 |-> <<"check-data">>]]
  IN unlockFirst(l) \o tool[fmt][l]

(* The objects a command may read: check --read-data-subset picks packs at *)
(* random, so a given pack is among them or not.                           *)
reads(cmd) ==
  CASE cmd = "backup-list"  -> {{"catalog"}}
    [] cmd = "backup-fetch" -> {{"catalog", "base"}}
    [] cmd = "check"        -> {{"index"}}
    [] cmd = "check-subset" -> {{"index"}, {"index", "pack"}}
    [] cmd = "check-data"   -> {{"index", "pack"}}
    [] OTHER                -> {{}}

(* What a level promises to have read.                                     *)
covers(l) ==
  LET parts == [walg   |-> [E2 |-> {"catalog"}, E3 |-> job.target,
                            E4 |-> {"catalog", "base"}],
                restic |-> [E2 |-> {"index"}, E3 |-> {"index"},
                            E4 |-> {"index", "pack"}]]
  IN parts[fmt][l]

(* check takes an exclusive lock, snapshots a shared one.                  *)
exclusive(cmd) == cmd \in {"check", "check-subset", "check-data"}
locking(cmd) == exclusive(cmd) \/ cmd = "snapshots"

cmd == Head(job.script)
Running == job.state = "running"
Ended == job.state \in {"succeeded", "failed"}
Working(who) == {w \in busy : w.who = who}
Holding == Working("job") # {}
Waiting == Running /\ job.script # <<>> /\ locking(cmd) /\ ~Holding

compatible(excl) == IF excl THEN locks = {} ELSE \A k \in locks : ~k.excl

(* Mutant: restic unlock --remove-all.                                     *)
unlockedAll == {}

unlocked == {k \in locks : k.live \/ k.age < StaleAge}

(* A process takes a lock, gives it back, or dies and leaves it behind.    *)
LocksOf(who) == {k \in locks : k.who = who /\ k.live}

Take(who, excl) ==
  /\ compatible(excl)
  /\ locks' = locks \cup {[who |-> who, excl |-> excl, live |-> TRUE, age |-> 0]}
  /\ busy' = busy \cup {[who |-> who, excl |-> excl]}

Release(who) ==
  /\ locks' = locks \ LocksOf(who)
  /\ busy' = busy \ Working(who)

Abandon(who) ==
  /\ locks' = (locks \ LocksOf(who))
              \cup {[k EXCEPT !.live = FALSE] : k \in LocksOf(who)}
  /\ busy' = busy \ Working(who)

(* The pod ends, and with it the Job: backoffLimit is 0.                   *)
ended(j, ok) ==
  [j EXCEPT !.state = IF ok THEN "succeeded" ELSE "failed", !.script = <<>>,
            !.samples = <<>>, !.retried = FALSE, !.seg = "none", !.age = 0,
            !.wait = 0]

(* Whether the script goes on after a command, and exits with 0 if it was  *)
(* the last: the commands of E2 and E3 are chained with &&, that of E4 is  *)
(* piped into tail, whose status is the one the shell sees.                *)
exitStatus(ok) == ok \/ job.lvl = "E4"

-----------------------------------------------------------------------------
(* The Job                                                                 *)

(* pickWalgSamples: as many segments as wanted, or as there are.           *)
pickWalgSamples ==
  LET segments == {s \in Segments : repo[s] # "gone"}
      n == IF SampleTarget > Cardinality(segments)
           THEN Cardinality(segments) ELSE SampleTarget
  IN kSubset(n, segments) \ {{}}

(* No Job is created if there is nothing to sample.                        *)
Spawn(l) ==
  /\ job.state = "none"
  /\ \E ss \in IF fmt = "walg" /\ l = "E3" THEN pickWalgSamples ELSE {{}} :
       job' = [NoJob EXCEPT !.state = "running", !.lvl = l,
                            !.script = script(l), !.target = ss,
                            !.samples = SetToSeq(ss)]
  /\ UNCHANGED <<fmt, clean, producer, locks, busy, latest>>

AcquireLock ==
  /\ Waiting
  /\ Take("job", exclusive(cmd))
  /\ job' = [job EXCEPT !.wait = 0]
  /\ UNCHANGED <<fmt, clean, producer, latest>>

LockTimeout ==
  /\ Waiting
  /\ job.wait >= RetryLock
  /\ job' = ended(job, exitStatus(FALSE))
  /\ UNCHANGED <<fmt, clean, producer, locks, busy, latest>>

(* unlock || true: the script goes on either way.                          *)
Unlock ==
  /\ Running /\ job.script # <<>> /\ cmd = "unlock"
  /\ locks' \in {unlocked, locks}
  /\ job' = [job EXCEPT !.script = Tail(@)]
  /\ UNCHANGED <<fmt, clean, producer, busy, latest>>

(* A command other than unlock and wal-fetch reads what it reads.          *)
RunCommand ==
  /\ Running /\ job.script # <<>> /\ cmd \notin {"unlock", "wal-fetch"}
  /\ locking(cmd) => Holding
  /\ \E ps \in reads(cmd), noise \in IF cmd = "check" THEN Noises ELSE {<<>>},
        q \in IF cmd = "snapshots" THEN SetToSeqs(snaps) ELSE {<<>>} :
       LET ok  == \A p \in ps : repo[p] = "ok"
           out == IF cmd = "snapshots" THEN Encode(q) ELSE noise
           j   == [job EXCEPT !.read = IF ok THEN @ \cup ps ELSE @,
                              !.listed = IF cmd = "snapshots" THEN snaps ELSE @,
                              !.log = @ \o out, !.wait = 0,
                              !.script = Tail(@)]
       IN job' = IF exitStatus(ok) /\ j.script # <<>> THEN j
                 ELSE ended(j, exitStatus(ok))
  /\ Release("job")
  /\ UNCHANGED <<fmt, clean, producer, latest>>

(* Mutant: the file of the previous segment is left in place.              *)
rmKeeps(seg) == seg

(* rm -f /tmp/seg, before each segment and after each failed attempt.      *)
rm(seg) == "none"

(* One attempt to fetch the next sample; [ -s /tmp/seg ] decides.  The     *)
(* attempt may fail for a segment that is there.                           *)
FetchSegment ==
  /\ Running /\ job.samples # <<>>
  /\ LET s == Head(job.samples)
     IN \E ok \in IF repo[s] = "ok" THEN BOOLEAN ELSE {FALSE} :
          LET seg  == IF ok THEN s ELSE job.seg
              done == Len(job.samples) = 1
              j    == [job EXCEPT !.read = IF ok THEN @ \cup {s} ELSE @]
          IN IF seg # "none"
             THEN job' = IF done THEN ended(j, TRUE)
                         ELSE [j EXCEPT !.samples = Tail(@), !.retried = FALSE,
                                        !.seg = rm(seg)]
             ELSE IF ~job.retried
             THEN job' = [j EXCEPT !.retried = TRUE, !.seg = rm(seg)]
             ELSE job' = ended(j, FALSE)
  /\ UNCHANGED <<fmt, clean, producer, locks, busy, latest>>

(* The deadline: a killed restic may or may not get to remove its lock.    *)
Kill ==
  /\ Running
  /\ job.age >= Deadline[job.lvl]
  /\ job' = ended(job, FALSE)
  /\ Release("job") \/ Abandon("job")
  /\ UNCHANGED <<fmt, clean, producer, latest>>

(* ingestE2Result, once the Job has ended.                                 *)
TakeResult == Ended /\ job' = NoJob

Ingest ==
  /\ TakeResult
  /\ latest' = LET l == parseE2Output(fmt, readJobOutput(job.log))
               IN IF job.lvl = "E2" /\ job.state = "succeeded"
                     /\ l # NoSnapshot
                  THEN l ELSE latest
  /\ UNCHANGED <<fmt, clean, producer, locks, busy>>

(* The pod is gone before its log was read.                                *)
LoseLog ==
  /\ Ended /\ job.log # <<>>
  /\ job' = [job EXCEPT !.log = <<>>]
  /\ UNCHANGED <<fmt, clean, producer, locks, busy, latest>>

JobStep == AcquireLock \/ LockTimeout \/ Unlock \/ RunCommand \/ FetchSegment
           \/ Kill
-----------------------------------------------------------------------------
(* Time, and the producer                                                  *)

Tick ==
  /\ Running => job.age < Deadline[job.lvl]
  /\ Waiting => job.wait < RetryLock
  /\ job' = [job EXCEPT !.age = IF Running THEN @ + 1 ELSE @,
                        !.wait = IF Waiting THEN @ + 1 ELSE @]
  /\ locks' = {[k EXCEPT !.age = IF ~k.live /\ @ < StaleAge THEN @ + 1 ELSE @] :
                 k \in locks}
  /\ job' # job \/ locks' # locks
  /\ UNCHANGED <<fmt, clean, producer, busy, latest>>

MoverLock ==
  /\ fmt = "restic" /\ Working("mover") = {} /\ Cardinality(locks) < MaxLocks
  /\ \E x \in BOOLEAN : Take("mover", x)
  /\ UNCHANGED <<fmt, clean, producer, job, latest>>

MoverUnlock ==
  /\ Working("mover") # {}
  /\ Release("mover")
  /\ UNCHANGED <<fmt, clean, producer, job, latest>>

MoverDies ==
  /\ Working("mover") # {}
  /\ Abandon("mover")
  /\ UNCHANGED <<fmt, clean, producer, job, latest>>

(* backup under a shared lock, forget under an exclusive one.              *)
MoverWrites ==
  /\ \E w \in Working("mover"), s \in Snapshots :
       snaps' = IF w.excl THEN snaps \ {s} ELSE snaps \cup {s}
  /\ snaps' # snaps
  /\ UNCHANGED <<fmt, clean, repo, locks, busy, job, latest>>

(* Objects rot, are removed by retention, or are written (again).          *)
ChangeObject ==
  /\ \E p \in Damages \cap Objects[fmt], v \in {"ok", "bad", "gone"} :
       v # repo[p] /\ repo' = [repo EXCEPT ![p] = v]
  /\ UNCHANGED <<fmt, clean, snaps, locks, busy, job, latest>>

Producer == MoverLock \/ MoverUnlock \/ MoverDies \/ MoverWrites \/ ChangeObject

Init ==
  /\ fmt \in Formats /\ clean \in BOOLEAN
  /\ repo = [p \in Objects[fmt] |-> "ok"]
  /\ snaps = {} /\ locks = {} /\ busy = {}
  /\ job = NoJob /\ latest = NoSnapshot

Next == (\E l \in Levels : Spawn(l)) \/ JobStep \/ Ingest \/ LoseLog \/ Tick \/ Producer

Spec == Init /\ [][Next]_vars

(* Time passes, a pod makes progress and is killed at its deadline, E2 has *)
(* its turn among the levels, and an unlock that is tried again and again  *)
(* works in the end.  The mover owes nothing.                              *)
Fairness ==
  /\ WF_vars(Tick) /\ WF_vars(JobStep) /\ WF_job(TakeResult)
  /\ SF_vars(Spawn("E2"))
  /\ SF_vars(Unlock /\ locks' = unlocked)

FairSpec == Spec /\ Fairness
-----------------------------------------------------------------------------
(* Properties                                                              *)

(* A Job of E2 or E3 that succeeds did read, in good order, what its level *)
(* is about: the catalog or index, every WAL segment picked for it, even   *)
(* if attempts fail and segments vanish while it runs.                     *)
PassMeansRead ==
  job.state = "succeeded" /\ job.lvl # "E4" => covers(job.lvl) \subseteq job.read

(* "verified* - what arete proved by running a validator (... E4 full      *)
(* retrieval)": the same for E4.                                           *)
FullRetrievalMeansRead ==
  job.state = "succeeded" /\ job.lvl = "E4" => covers(job.lvl) \subseteq job.read

(* A validator and the mover never work under locks that exclude each      *)
(* other: cleaning stale locks "cannot disturb a live concurrent           *)
(* operation" (e2CommandFor).                                              *)
LiveLocksAreRespected ==
  \A v, w \in busy : v # w => ~v.excl /\ ~w.excl

(* With autoCleanStaleLocks a lock left behind by a mover or by a Job that *)
(* was killed goes away once it is stale, although the Jobs that shall     *)
(* remove it are themselves held up by it and killed at their deadline.    *)
StaleLocksGo ==
  clean /\ unlocked # locks ~> unlocked = locks

Newest(ss) == CHOOSE s \in ss : \A t \in ss : Taken[t] <= Taken[s]

(* claimedLatestBackup moves to the newest of the snapshots E2 listed, and *)
(* does so whenever the log is there in full: brackets in progress lines,  *)
(* in strings and behind escapes do not mislead the scanner.               *)
ClaimsNewestSnapshot ==
  [][job.state = "succeeded" /\ job.listed # {} /\ job.log # <<>>
     /\ job'.state = "none"
     => \/ latest' = Newest(job.listed)
        \/ latest' = latest /\ Len(job.log) > LogLimit]_vars
=============================================================================
