--------------------------- MODULE ValidatorProofs ---------------------------
(***************************************************************************)
(* Proofs about Validator, for all values of its constants:                *)
(*   LocksRespected  a validator and the mover never work under locks that *)
(*                   exclude each other;                                   *)
(*   PassIsRead      a Job of E2 or E3 that succeeds has read, in good     *)
(*                   order, what its level is about.                       *)
(***************************************************************************)
EXTENDS Validator, FiniteSetTheorems, SequenceTheorems, TLAPS

-----------------------------------------------------------------------------
(* Locks.  Whoever is at work still has a live lock of the kind it took:   *)
(* neither unlock nor time, nor another process that ends or dies, removes *)
(* or weakens it.                                                          *)

Backed(w) == \E k \in locks : k.live /\ k.who = w.who /\ k.excl = w.excl

LocksInv ==
  /\ locks \subseteq Lock
  /\ \A w \in busy : Backed(w)
  /\ LiveLocksAreRespected

(* A lock is taken only beside locks that do not exclude it.               *)
LEMMA TakeKeepsLocks ==
  ASSUME LocksInv, NEW who \in {"mover", "job"}, NEW excl \in BOOLEAN,
         Take(who, excl)
  PROVE  LocksInv'
<1> DEFINE new == [who |-> who, excl |-> excl, live |-> TRUE, age |-> 0]
           own == [who |-> who, excl |-> excl]
<1>1. locks' = locks \cup {new} /\ busy' = busy \cup {own}
  BY DEF Take
<1>2. /\ new \in Lock /\ new.live /\ new.who = own.who /\ new.excl = own.excl
      /\ own.excl = excl
  BY ValidatorAssumption DEF Lock
<1> HIDE DEF new, own
<1>3. \A w \in busy : ~w.excl /\ ~excl
  BY DEF Take, compatible, LocksInv, Backed
<1>4. \A w \in busy' : \E k \in locks' :
        k.live /\ k.who = w.who /\ k.excl = w.excl
  BY <1>1, <1>2 DEF LocksInv, Backed
<1>5. \A v, w \in busy' : v # w => ~v.excl /\ ~w.excl
  BY <1>1, <1>2, <1>3 DEF LocksInv, LiveLocksAreRespected
<1>6. locks' \subseteq Lock
  BY <1>1, <1>2 DEF LocksInv
<1> QED
  BY <1>4, <1>5, <1>6 DEF LocksInv, Backed, LiveLocksAreRespected

(* A step after which every lock in use is still there, perhaps older.     *)
LEMMA LocksInUseStay ==
  ASSUME LocksInv, busy' \subseteq busy, locks' \subseteq Lock,
         \A w \in busy' : \A k \in locks :
           k.live /\ k.who = w.who => \E x \in locks' :
             x.live /\ x.who = k.who /\ x.excl = k.excl
  PROVE  LocksInv'
<1>1. ASSUME NEW w \in busy'
      PROVE  \E x \in locks' : x.live /\ x.who = w.who /\ x.excl = w.excl
  BY <1>1 DEF LocksInv, Backed
<1>2. \A v, w \in busy' : v # w => ~v.excl /\ ~w.excl
  BY DEF LocksInv, LiveLocksAreRespected
<1> QED
  BY <1>1, <1>2 DEF LocksInv, Backed, LiveLocksAreRespected

(* Who gives its lock back, or dies with it, leaves the other at work.     *)
LEMMA EndKeepsLocks ==
  ASSUME LocksInv, NEW who, Release(who) \/ Abandon(who)
  PROVE  LocksInv'
<1>1. busy' \subseteq busy /\ \A w \in busy' : w.who # who
  BY DEF Release, Abandon, Working
<1>2. locks \ LocksOf(who) \subseteq locks'
  BY DEF Release, Abandon
<1>3. locks' \subseteq Lock
  <2>1. \A k \in LocksOf(who) : [k EXCEPT !.live = FALSE] \in Lock
    BY DEF LocksInv, LocksOf, Lock
  <2> QED
    BY <2>1 DEF Release, Abandon, LocksInv
<1>4. ASSUME NEW w \in busy', NEW k \in locks, k.who = w.who
      PROVE  k \in locks'
  BY <1>1, <1>2, <1>4 DEF LocksOf
<1> QED
  BY <1>1, <1>3, <1>4, LocksInUseStay

(* Every step leaves whoever is at work its lock.                          *)
LEMMA LocksPreserved ==
  ASSUME LocksInv, [Next]_vars
  PROVE  LocksInv'
<1> USE DEF producer
<1>1. CASE UNCHANGED <<locks, busy>>
  BY <1>1 DEF LocksInv, Backed, LiveLocksAreRespected
<1>2. CASE AcquireLock
  <2>1. exclusive(cmd) \in BOOLEAN
    BY DEF exclusive
  <2> QED
    BY <1>2, <2>1, TakeKeepsLocks DEF AcquireLock
<1>3. CASE MoverLock
  BY <1>3, TakeKeepsLocks DEF MoverLock
<1>4. CASE Unlock
  <2>1. /\ busy' = busy /\ locks' \subseteq locks
        /\ \A k \in locks : k.live => k \in locks'
    BY <1>4 DEF Unlock, unlocked
  <2>2. locks' \subseteq Lock
    BY <2>1 DEF LocksInv
  <2> QED
    BY <2>1, <2>2, LocksInUseStay
<1>5. CASE RunCommand \/ Kill
  BY <1>5, EndKeepsLocks DEF RunCommand, Kill
<1>6. CASE MoverUnlock \/ MoverDies
  BY <1>6, EndKeepsLocks DEF MoverUnlock, MoverDies
<1>7. CASE Tick
  <2> DEFINE older(k) ==
        [k EXCEPT !.age = IF ~k.live /\ @ < StaleAge THEN @ + 1 ELSE @]
  <2>1. locks' = {older(k) : k \in locks} /\ busy' = busy
    BY <1>7 DEF Tick
  <2>2. ASSUME NEW k \in locks
        PROVE  /\ older(k) \in Lock /\ older(k).live = k.live
               /\ older(k).who = k.who /\ older(k).excl = k.excl
    BY ValidatorAssumption DEF LocksInv, Lock
  <2> HIDE DEF older
  <2>3. locks' \subseteq Lock
    BY <2>1, <2>2
  <2>4. ASSUME NEW k \in locks, k.live
        PROVE  \E x \in locks' : x.live /\ x.who = k.who /\ x.excl = k.excl
    BY <2>1, <2>2, <2>4
  <2> QED
    BY <2>1, <2>3, <2>4, LocksInUseStay
<1>8. CASE \/ \E l \in Levels : Spawn(l)
           \/ LockTimeout \/ FetchSegment \/ Ingest \/ LoseLog
           \/ MoverWrites \/ ChangeObject \/ UNCHANGED vars
  BY <1>1, <1>8 DEF Spawn, LockTimeout, FetchSegment, Ingest, LoseLog,
                    MoverWrites, ChangeObject, vars
<1> QED
  BY <1>2, <1>3, <1>4, <1>5, <1>6, <1>7, <1>8 DEF Next, JobStep, Producer

(* No stale lock that a script removes is one a live process counts on:    *)
(* whoever is at work excludes those it must, for any ages, deadlines,     *)
(* kills and deaths.                                                       *)
THEOREM LocksRespected == Spec => []LiveLocksAreRespected
<1>1. Init => LocksInv
  BY DEF Init, LocksInv, LiveLocksAreRespected
<1>2. LocksInv /\ [Next]_vars => LocksInv'
  BY LocksPreserved
<1>3. LocksInv => LiveLocksAreRespected
  BY DEF LocksInv
<1> QED
  BY <1>1, <1>2, <1>3, PTL DEF Spec

-----------------------------------------------------------------------------
(* What a succeeded Job has read                                           *)

(* A Job is a record with these fields.                                    *)
IsJob(j) ==
  j \in [state : {j.state}, lvl : {j.lvl}, script : {j.script},
         samples : {j.samples}, target : {j.target}, retried : {j.retried},
         seg : {j.seg}, age : {j.age}, wait : {j.wait}, read : {j.read},
         listed : {j.listed}, log : {j.log}]

(* Samples are left to fetch only by E3 of a wal-g repository, every       *)
(* segment picked has been read or is among them, and no file of an        *)
(* earlier segment is in the way.                                          *)
Fetching(j) ==
  /\ j.samples \in Seq(Segments)
  /\ j.seg = "none"
  /\ j.target \subseteq j.read \cup ToSet(j.samples)
  /\ IF fmt = "walg" /\ j.lvl = "E3" THEN j.script = <<"wal-fetch">>
     ELSE j.samples = <<>>

(* The commands a running Job of E2 or E3 has yet to run: the index of a   *)
(* restic repository has been read once only snapshots is left.            *)
Remaining(j) ==
  /\ fmt = "walg" /\ j.lvl = "E2" => j.script = <<"backup-list">>
  /\ fmt = "restic" /\ j.lvl = "E2" =>
       \/ j.script = <<"unlock", "check", "snapshots">>
       \/ j.script = <<"check", "snapshots">>
       \/ j.script = <<"snapshots">> /\ "index" \in j.read
  /\ fmt = "restic" /\ j.lvl = "E3" =>
       \/ j.script = <<"unlock", "check-subset">>
       \/ j.script = <<"check-subset">>

(* What covers asks of a Job of E2 or E3.                                  *)
Covered(j) ==
  /\ fmt = "walg" /\ j.lvl = "E2" => "catalog" \in j.read
  /\ fmt = "walg" /\ j.lvl = "E3" => j.target \subseteq j.read
  /\ fmt = "restic" /\ j.lvl \in {"E2", "E3"} => "index" \in j.read

OnCourse(j) ==
  /\ IsJob(j) /\ j.lvl \in Levels
  /\ j.state = "running" => Fetching(j) /\ Remaining(j)
  /\ j.state # "running" => j.samples = <<>>
  /\ j.state = "succeeded" => Covered(j)

ReadInv == fmt \in {"walg", "restic"} /\ OnCourse(job)

(* The samples are a sequence of exactly the segments picked.              *)
LEMMA SamplesAreAll ==
  ASSUME NEW S, IsFiniteSet(S)
  PROVE  SetToSeq(S) \in Seq(S) /\ ToSet(SetToSeq(S)) = S
<1> DEFINE n == Cardinality(S)
           f == SetToSeq(S)
<1>1. n \in Nat /\ ExistsBijection(1..n, S)
  BY FS_CardinalityType
<1>2. f \in Injection(1..n, S)
  <2>1. PICK g \in [1..n -> S] : IsInjective(g)
    BY <1>1 DEF ExistsBijection, Bijection, Injection
  <2>2. f \in [1..n -> S] /\ IsInjective(f)
    BY <2>1 DEF SetToSeq
  <2> QED
    BY <2>2 DEF Injection
<1>3. IsFiniteSet(1..n) /\ Cardinality(1..n) = n
  BY <1>1, FS_Interval
<1>4. f \in Surjection(1..n, S)
  BY <1>2, <1>3, FS_Injection
<1>5. f \in [1..n -> S] /\ \A t \in S : \E i \in 1..n : f[i] = t
  BY <1>4 DEF Surjection
<1> HIDE DEF f, n
<1>6. f \in Seq(S)
  BY <1>1, <1>5
<1>7. ToSet(f) = S
  BY <1>5 DEF ToSet
<1> QED
  BY <1>6, <1>7 DEF f

(* The next sample and those after it.                                     *)
LEMMA NextSample ==
  ASSUME NEW S, NEW q \in Seq(S), q # <<>>
  PROVE  /\ Tail(q) \in Seq(S)
         /\ ToSet(q) \subseteq {Head(q)} \cup ToSet(Tail(q))
         /\ Len(q) = 1 => ToSet(q) = {Head(q)}
<1>1. Tail(q) \in Seq(S) /\ Len(q) \in Nat /\ Len(q) >= 1
  OBVIOUS
<1>2. ASSUME NEW i \in DOMAIN q
      PROVE  q[i] = Head(q) \/ q[i] \in ToSet(Tail(q))
  <2>1. i \in 1..Len(q)
    OBVIOUS
  <2>2. CASE i = 1
    BY <2>2
  <2>3. CASE i # 1
    <3>1. i - 1 \in DOMAIN Tail(q) /\ Tail(q)[i - 1] = q[i]
      BY <1>1, <2>1, <2>3
    <3> QED
      BY <3>1 DEF ToSet
  <2> QED
    BY <2>2, <2>3
<1>3. ASSUME Len(q) = 1 PROVE ToSet(q) = {Head(q)}
  BY <1>3 DEF ToSet
<1> QED
  BY <1>1, <1>2, <1>3 DEF ToSet

(* Only finitely many segments are picked.                                 *)
LEMMA PickedSegments ==
  ASSUME NEW ss \in pickWalgSamples
  PROVE  ss \subseteq Segments /\ IsFiniteSet(ss)
<1>1. ss \subseteq Segments
  BY DEF pickWalgSamples, kSubset
<1> QED
  BY <1>1, ValidatorAssumption, FS_Subset

(* A script that starts with unlock.                                       *)
LEMMA Prepended ==
  ASSUME NEW q \in Seq(Commands), NEW t \in Seq(Commands),
         Len(t) = Len(q) + 1,
         t[1] = "unlock", \A i \in 1..Len(q) : t[i + 1] = q[i]
  PROVE  <<"unlock">> \o q = t
<1> DEFINE u == <<"unlock">>
<1>1. u \in Seq(Commands) /\ Len(u) = 1 /\ u[1] = "unlock"
  BY DEF Commands
<1> HIDE DEF u
<1>2. /\ u \o q \in Seq(Commands) /\ Len(u \o q) = Len(u) + Len(q)
      /\ \A i \in 1 .. Len(u) + Len(q) :
           (u \o q)[i] = IF i <= Len(u) THEN u[i] ELSE q[i - Len(u)]
  BY <1>1, ConcatProperties
<1>3. /\ u \o q \in Seq(Commands) /\ Len(u \o q) = Len(t)
      /\ \A i \in 1..Len(t) :
           (u \o q)[i] = IF i <= 1 THEN u[i] ELSE q[i - 1]
  BY <1>1, <1>2
<1>4. ASSUME NEW i \in 1..Len(t) PROVE (u \o q)[i] = t[i]
  <2>1. CASE i = 1
    BY <1>1, <1>3, <2>1
  <2>2. CASE i # 1
    <3>1. i - 1 \in 1..Len(q) /\ t[(i - 1) + 1] = q[i - 1] /\ (i - 1) + 1 = i
      BY <2>2
    <3> QED
      BY <1>3, <2>2, <3>1
  <2> QED
    BY <2>1, <2>2
<1>5. u \o q = t
  BY <1>3, <1>4, SeqEqual
<1> QED
  BY <1>5 DEF u

(* The script of E2 behind unlock.                                        *)
LEMMA UnlockThenCheck ==
  <<"unlock">> \o <<"check", "snapshots">> = <<"unlock", "check", "snapshots">>
<1> DEFINE q == <<"check", "snapshots">>
           t == <<"unlock", "check", "snapshots">>
<1>1. q \in Seq(Commands) /\ t \in Seq(Commands) /\ Len(q) = 2 /\ Len(t) = 3
  BY DEF Commands
<1>2. t[1] = "unlock" /\ t[2] = q[1] /\ t[3] = q[2]
  OBVIOUS
<1> HIDE DEF q, t
<1>3. /\ \A i \in 1..Len(q) : t[i + 1] = q[i]
      /\ Len(t) = Len(q) + 1 /\ t[1] = "unlock"
      /\ q \in Seq(Commands) /\ t \in Seq(Commands)
  BY <1>1, <1>2
<1>4. <<"unlock">> \o q = t
  BY <1>3, Zenon, Prepended
<1> QED
  BY <1>4 DEF q, t

(* The script of E3 behind unlock.                                        *)
LEMMA UnlockThenSubset ==
  <<"unlock">> \o <<"check-subset">> = <<"unlock", "check-subset">>
<1> DEFINE q == <<"check-subset">>
           t == <<"unlock", "check-subset">>
<1>1. q \in Seq(Commands) /\ t \in Seq(Commands) /\ Len(q) = 1 /\ Len(t) = 2
  BY DEF Commands
<1>2. t[1] = "unlock" /\ t[2] = q[1]
  OBVIOUS
<1> HIDE DEF q, t
<1>3. /\ \A i \in 1..Len(q) : t[i + 1] = q[i]
      /\ Len(t) = Len(q) + 1 /\ t[1] = "unlock"
      /\ q \in Seq(Commands) /\ t \in Seq(Commands)
  BY <1>1, <1>2
<1>4. <<"unlock">> \o q = t
  BY <1>3, Zenon, Prepended
<1> QED
  BY <1>4 DEF q, t

(* The scripts of E2 and E3.                                               *)
LEMMA Scripts ==
  ASSUME fmt \in {"walg", "restic"}
  PROVE  /\ fmt = "walg" => /\ script("E2") = <<"backup-list">>
                            /\ script("E3") = <<"wal-fetch">>
         /\ fmt = "restic" =>
              /\ script("E2") \in {<<"unlock", "check", "snapshots">>,
                                   <<"check", "snapshots">>}
              /\ script("E3") \in {<<"unlock", "check-subset">>,
                                   <<"check-subset">>}
<1>1. unlockFirst("E2") \in {<<>>, <<"unlock">>}
      /\ unlockFirst("E3") \in {<<>>, <<"unlock">>}
      /\ (fmt = "walg" => unlockFirst("E2") = <<>> /\ unlockFirst("E3") = <<>>)
  BY DEF unlockFirst
<1>2. CASE fmt = "walg"
  <2>1. /\ script("E2") = unlockFirst("E2") \o <<"backup-list">>
        /\ script("E3") = unlockFirst("E3") \o <<"wal-fetch">>
    BY <1>2 DEF script
  <2> QED
    BY <1>1, <1>2, <2>1
<1>3. CASE fmt = "restic"
  <2>1. /\ script("E2") = unlockFirst("E2") \o <<"check", "snapshots">>
        /\ script("E3") = unlockFirst("E3") \o <<"check-subset">>
    BY <1>3 DEF script
  <2>2. /\ <<>> \o <<"check", "snapshots">> = <<"check", "snapshots">>
        /\ <<>> \o <<"check-subset">> = <<"check-subset">>
    OBVIOUS
  <2> QED
    BY <1>1, <1>3, <2>1, <2>2, UnlockThenCheck, UnlockThenSubset
<1> QED
  BY <1>2, <1>3

(* A Job that ends is on course if, when it succeeds, it has read its part.*)
LEMMA EndedOnCourse ==
  ASSUME NEW j, IsJob(j), j.lvl \in Levels, NEW ok \in BOOLEAN,
         ok => Covered(j)
  PROVE  OnCourse(ended(j, ok))
<1> DEFINE e == ended(j, ok)
<1>1. /\ IsJob(e) /\ e.lvl = j.lvl /\ e.samples = <<>>
      /\ e.target = j.target /\ e.read = j.read
      /\ e.state = IF ok THEN "succeeded" ELSE "failed"
  BY DEF IsJob, ended
<1> HIDE DEF e
<1>2. OnCourse(e)
  BY <1>1 DEF OnCourse, Covered
<1> QED
  BY <1>2 DEF e

(* The rest of a Job's state does not matter.                              *)
LEMMA SameCourse ==
  ASSUME NEW j, OnCourse(j), NEW k, IsJob(k),
         k.state = j.state, k.lvl = j.lvl, k.script = j.script,
         k.samples = j.samples, k.target = j.target, k.seg = j.seg,
         k.read = j.read
  PROVE  OnCourse(k)
BY DEF OnCourse, Fetching, Remaining, Covered

(* The step of a Job is judged under the format it was started for.        *)
LEMMA CourseKept ==
  ASSUME ReadInv, fmt' = fmt, OnCourse(job')
  PROVE  ReadInv'
BY DEF ReadInv, OnCourse, Fetching, Remaining, Covered

(* A Job starts on course: its samples are what was picked for it.         *)
LEMMA SpawnOnCourse ==
  ASSUME ReadInv, NEW l \in Levels, Spawn(l)
  PROVE  OnCourse(job')
<1>1. PICK ss \in IF fmt = "walg" /\ l = "E3" THEN pickWalgSamples ELSE {{}} :
        job' = [NoJob EXCEPT !.state = "running", !.lvl = l,
                             !.script = script(l), !.target = ss,
                             !.samples = SetToSeq(ss)]
  BY DEF Spawn
<1>2. ss \subseteq Segments /\ IsFiniteSet(ss)
  BY <1>1, PickedSegments, FS_EmptySet
<1> DEFINE q == SetToSeq(ss)
<1>3. q \in Seq(ss) /\ ToSet(q) = ss
  BY <1>2, SamplesAreAll
<1>4. /\ IsJob(job') /\ job'.state = "running" /\ job'.lvl = l
      /\ job'.script = script(l) /\ job'.target = ss /\ job'.samples = q
      /\ job'.seg = "none" /\ job'.read = {}
  BY <1>1 DEF NoJob, IsJob
<1> HIDE DEF q
<1>5. q \in Seq(Segments) /\ (ss = {} => q = <<>>)
  BY <1>2, <1>3
<1>6. Fetching(job')
  BY <1>1, <1>3, <1>4, <1>5, Scripts DEF Fetching, ReadInv
<1>7. Remaining(job')
  BY <1>4, Scripts DEF Remaining, ReadInv
<1> QED
  BY <1>4, <1>6, <1>7 DEF OnCourse

(* A command keeps the Job on course: it goes on, or ends it, having read  *)
(* what it is there for.                                                   *)
LEMMA CommandOnCourse ==
  ASSUME ReadInv, RunCommand
  PROVE  OnCourse(job')
<1>1. PICK ps \in reads(cmd),
           noise \in (IF cmd = "check" THEN Noises ELSE {<<>>}),
           q \in (IF cmd = "snapshots" THEN SetToSeqs(snaps) ELSE {<<>>}) :
        LET ok  == \A p \in ps : repo[p] = "ok"
            out == IF cmd = "snapshots" THEN Encode(q) ELSE noise
            j   == [job EXCEPT !.read = IF ok THEN @ \cup ps ELSE @,
                               !.listed = IF cmd = "snapshots" THEN snaps ELSE @,
                               !.log = @ \o out, !.wait = 0,
                               !.script = Tail(@)]
        IN job' = IF exitStatus(ok) /\ j.script # <<>> THEN j
                  ELSE ended(j, exitStatus(ok))
  BY DEF RunCommand
<1> DEFINE ok  == \A p \in ps : repo[p] = "ok"
           out == IF cmd = "snapshots" THEN Encode(q) ELSE noise
           j   == [job EXCEPT !.read = IF ok THEN @ \cup ps ELSE @,
                              !.listed = IF cmd = "snapshots" THEN snaps ELSE @,
                              !.log = @ \o out, !.wait = 0,
                              !.script = Tail(@)]
<1>2. job' = IF exitStatus(ok) /\ j.script # <<>> THEN j
             ELSE ended(j, exitStatus(ok))
  BY <1>1
<1>3. /\ IsJob(job) /\ job.lvl \in Levels /\ job.state = "running"
      /\ Fetching(job) /\ Remaining(job)
      /\ job.script # <<>> /\ cmd \notin {"unlock", "wal-fetch"}
  BY DEF RunCommand, ReadInv, OnCourse, Running
<1> HIDE DEF out
<1>4. /\ IsJob(j) /\ j.lvl = job.lvl /\ j.state = "running"
      /\ j.read = (IF ok THEN job.read \cup ps ELSE job.read)
      /\ j.script = Tail(job.script)
      /\ j.samples = job.samples /\ j.target = job.target /\ j.seg = job.seg
  BY <1>3 DEF IsJob
<1>5. exitStatus(ok) \in BOOLEAN /\ ok \in BOOLEAN
      /\ (exitStatus(ok) <=> ok \/ job.lvl = "E4")
  BY DEF exitStatus
<1> HIDE DEF j, ok
<1>6. fmt \in {"walg", "restic"}
  BY DEF ReadInv
<1>7. ~(fmt = "walg" /\ job.lvl = "E3")
  BY <1>3 DEF Fetching, cmd
<1>8. Fetching(j)
  BY <1>3, <1>4, <1>7 DEF Fetching
<1>9. /\ exitStatus(ok) /\ j.script # <<>> => Remaining(j)
      /\ exitStatus(ok) /\ j.script = <<>> => Covered(j)
  <2>1. CASE job.lvl = "E4"
    BY <1>4, <2>1 DEF Remaining, Covered
  <2>2. CASE fmt = "walg" /\ job.lvl = "E2"
    <3>0. job.script = <<"backup-list">>
      BY <1>3, <2>2 DEF Remaining
    <3>1. cmd = "backup-list" /\ j.script = <<>>
      BY <1>4, <3>0 DEF cmd
    <3>2. ps = {"catalog"}
      BY <1>1, <3>1 DEF reads
    <3> QED
      BY <1>4, <1>5, <2>2, <3>1, <3>2 DEF Covered
  <2>3. CASE fmt = "restic" /\ job.lvl = "E2"
    <3>1. CASE job.script = <<"check", "snapshots">>
      <4>1. cmd = "check" /\ j.script = <<"snapshots">>
        BY <1>4, <3>1 DEF cmd
      <4>2. ps = {"index"}
        BY <1>1, <4>1 DEF reads
      <4>3. exitStatus(ok) => "index" \in j.read
        BY <1>4, <1>5, <2>3, <4>2
      <4> QED
        BY <1>4, <2>3, <4>1, <4>3 DEF Remaining, Covered
    <3>2. CASE job.script = <<"snapshots">> /\ "index" \in job.read
      <4>1. j.script = <<>>
        BY <1>4, <3>2
      <4>2. "index" \in j.read
        BY <1>4, <3>2
      <4> QED
        BY <1>4, <2>3, <4>1, <4>2 DEF Covered
    <3>3. job.script # <<"unlock", "check", "snapshots">>
      BY <1>3 DEF cmd
    <3> QED
      BY <1>3, <2>3, <3>1, <3>2, <3>3 DEF Remaining
  <2>4. CASE fmt = "restic" /\ job.lvl = "E3"
    <3>1. job.script # <<"unlock", "check-subset">>
      BY <1>3 DEF cmd
    <3>2. job.script = <<"check-subset">>
      BY <1>3, <2>4, <3>1 DEF Remaining
    <3>3. cmd = "check-subset" /\ j.script = <<>>
      BY <1>4, <3>2 DEF cmd
    <3>4. "index" \in ps
      BY <1>1, <3>3 DEF reads
    <3> QED
      BY <1>4, <1>5, <2>4, <3>3, <3>4 DEF Covered
  <2> QED
    BY <1>3, <1>6, <1>7, <2>1, <2>2, <2>3, <2>4 DEF Levels
<1>10. CASE exitStatus(ok) /\ j.script # <<>>
  BY <1>2, <1>3, <1>4, <1>8, <1>9, <1>10 DEF OnCourse
<1>11. CASE ~(exitStatus(ok) /\ j.script # <<>>)
  <2>1. OnCourse(ended(j, exitStatus(ok)))
    BY <1>3, <1>4, <1>5, <1>9, <1>11, EndedOnCourse
  <2> QED
    BY <1>2, <1>11, <2>1
<1> QED
  BY <1>10, <1>11

(* An attempt to fetch a segment keeps the Job on course: the file that    *)
(* decides is the one this attempt wrote.                                  *)
LEMMA FetchOnCourse ==
  ASSUME ReadInv, FetchSegment
  PROVE  OnCourse(job')
<1> DEFINE s == Head(job.samples)
<1>1. /\ IsJob(job) /\ job.lvl \in Levels /\ job.state = "running"
      /\ Fetching(job) /\ Remaining(job) /\ job.samples # <<>>
  BY DEF FetchSegment, ReadInv, OnCourse, Running
<1>2. /\ job.samples \in Seq(Segments) /\ job.seg = "none"
      /\ job.target \subseteq job.read \cup ToSet(job.samples)
      /\ fmt = "walg" /\ job.lvl = "E3" /\ job.script = <<"wal-fetch">>
  BY <1>1 DEF Fetching
<1>3. /\ Tail(job.samples) \in Seq(Segments)
      /\ ToSet(job.samples) \subseteq {s} \cup ToSet(Tail(job.samples))
      /\ Len(job.samples) = 1 => ToSet(job.samples) = {s}
  BY <1>1, <1>2, NextSample
<1>4. PICK ok \in BOOLEAN :
        LET seg  == IF ok THEN s ELSE job.seg
            done == Len(job.samples) = 1
            j    == [job EXCEPT !.read = IF ok THEN @ \cup {s} ELSE @]
        IN IF seg # "none"
           THEN job' = IF done THEN ended(j, TRUE)
                       ELSE [j EXCEPT !.samples = Tail(@), !.retried = FALSE,
                                      !.seg = rm(seg)]
           ELSE IF ~job.retried
           THEN job' = [j EXCEPT !.retried = TRUE, !.seg = rm(seg)]
           ELSE job' = ended(j, FALSE)
  BY DEF FetchSegment
<1> DEFINE seg == IF ok THEN s ELSE job.seg
           j   == [job EXCEPT !.read = IF ok THEN @ \cup {s} ELSE @]
           t   == [j EXCEPT !.samples = Tail(@), !.retried = FALSE,
                            !.seg = rm(seg)]
           r   == [j EXCEPT !.retried = TRUE, !.seg = rm(seg)]
<1>5. \/ seg # "none" /\ Len(job.samples) = 1 /\ job' = ended(j, TRUE)
      \/ seg # "none" /\ job' = t
      \/ job' = r
      \/ job' = ended(j, FALSE)
  BY <1>4
<1>6. seg # "none" => ok
  BY <1>2
<1>7. /\ IsJob(j) /\ j.lvl = job.lvl /\ j.target = job.target
      /\ j.read = (IF ok THEN job.read \cup {s} ELSE job.read)
      /\ j.state = job.state /\ j.script = job.script
      /\ j.samples = job.samples
  BY <1>1 DEF IsJob
<1> HIDE DEF seg, s, j
<1>8. /\ IsJob(t) /\ t.lvl = job.lvl /\ t.target = job.target
      /\ t.read = j.read /\ t.state = job.state /\ t.script = job.script
      /\ t.samples = Tail(job.samples) /\ t.seg = "none"
  BY <1>7 DEF IsJob, rm
<1>9. /\ IsJob(r) /\ r.lvl = job.lvl /\ r.target = job.target
      /\ r.read = j.read /\ r.state = job.state /\ r.script = job.script
      /\ r.samples = job.samples /\ r.seg = "none"
  BY <1>7 DEF IsJob, rm
<1> HIDE DEF t, r
<1>10. CASE seg # "none" /\ Len(job.samples) = 1 /\ job' = ended(j, TRUE)
  <2>1. Covered(j)
    BY <1>2, <1>3, <1>6, <1>7, <1>10 DEF Covered
  <2> QED
    BY <1>1, <1>7, <1>10, <2>1, EndedOnCourse
<1>11. CASE seg # "none" /\ job' = t
  <2>1. t.target \subseteq t.read \cup ToSet(t.samples)
    BY <1>2, <1>3, <1>6, <1>7, <1>8, <1>11
  <2> QED
    BY <1>1, <1>2, <1>3, <1>8, <1>11, <2>1 DEF OnCourse, Fetching, Remaining
<1>12. CASE job' = r
  <2>1. r.target \subseteq r.read \cup ToSet(r.samples)
    BY <1>2, <1>7, <1>9
  <2> QED
    BY <1>1, <1>2, <1>9, <1>12, <2>1 DEF OnCourse, Fetching, Remaining
<1>13. CASE job' = ended(j, FALSE)
  BY <1>1, <1>7, <1>13, EndedOnCourse
<1> QED
  BY <1>5, <1>10, <1>11, <1>12, <1>13

(* Every step keeps the Job on course.                                     *)
LEMMA ReadPreserved ==
  ASSUME ReadInv, [Next]_vars
  PROVE  ReadInv'
<1> USE DEF producer
<1>0. OnCourse(job) /\ IsJob(job) /\ job.lvl \in Levels
  BY DEF ReadInv, OnCourse
<1>1. fmt' = fmt
  BY DEF Next, JobStep, Producer, Spawn, AcquireLock, LockTimeout, Unlock,
         RunCommand, FetchSegment, Kill, Ingest, LoseLog, Tick, MoverLock,
         MoverUnlock, MoverDies, MoverWrites, ChangeObject, vars
<1>2. SUFFICES OnCourse(job')
  BY <1>1, CourseKept
<1>3. CASE \E l \in Levels : Spawn(l)
  BY <1>3, SpawnOnCourse
<1>4. CASE AcquireLock \/ Tick \/ LoseLog
  <2>1. /\ IsJob(job') /\ job'.state = job.state /\ job'.lvl = job.lvl
        /\ job'.script = job.script /\ job'.samples = job.samples
        /\ job'.target = job.target /\ job'.seg = job.seg
        /\ job'.read = job.read
    BY <1>0, <1>4 DEF AcquireLock, Tick, LoseLog, IsJob
  <2> QED
    BY <1>0, <2>1, SameCourse
<1>5. CASE LockTimeout
  <2>1. job' = ended(job, job.lvl = "E4")
    BY <1>5 DEF LockTimeout, exitStatus
  <2>2. job.lvl = "E4" => Covered(job)
    BY DEF Covered
  <2> QED
    BY <1>0, <2>1, <2>2, EndedOnCourse
<1>6. CASE Unlock
  <2>1. /\ job' = [job EXCEPT !.script = Tail(@)] /\ job.state = "running"
        /\ job.script # <<>> /\ Head(job.script) = "unlock"
    BY <1>6 DEF Unlock, Running, cmd
  <2>2. /\ IsJob(job') /\ job'.state = job.state /\ job'.lvl = job.lvl
        /\ job'.script = Tail(job.script) /\ job'.samples = job.samples
        /\ job'.target = job.target /\ job'.seg = job.seg
        /\ job'.read = job.read
    BY <1>0, <2>1 DEF IsJob
  <2>3. Fetching(job) /\ Remaining(job)
    BY <2>1 DEF ReadInv, OnCourse
  <2>4. job.script # <<"wal-fetch">> /\ job.script # <<"backup-list">>
        /\ job.script # <<"check", "snapshots">>
        /\ job.script # <<"snapshots">> /\ job.script # <<"check-subset">>
    BY <2>1
  <2>5. Fetching(job')
    BY <2>2, <2>3, <2>4 DEF Fetching
  <2>6. /\ Tail(<<"unlock", "check", "snapshots">>) = <<"check", "snapshots">>
        /\ Tail(<<"unlock", "check-subset">>) = <<"check-subset">>
    OBVIOUS
  <2>7. Remaining(job')
    BY <2>2, <2>3, <2>4, <2>6 DEF Remaining
  <2> QED
    BY <1>0, <2>1, <2>2, <2>5, <2>7 DEF OnCourse
<1>7. CASE RunCommand
  BY <1>7, CommandOnCourse
<1>8. CASE FetchSegment
  BY <1>8, FetchOnCourse
<1>9. CASE Kill
  BY <1>0, <1>9, EndedOnCourse DEF Kill
<1>10. CASE Ingest
  BY <1>10 DEF Ingest, TakeResult, NoJob, OnCourse, IsJob, Levels
<1>11. CASE Producer \/ UNCHANGED vars
  <2>1. job' = job
    BY <1>11 DEF Producer, MoverLock, MoverUnlock, MoverDies, MoverWrites,
                 ChangeObject, vars
  <2> QED
    BY <1>0, <2>1
<1> QED
  BY <1>3, <1>4, <1>5, <1>6, <1>7, <1>8, <1>9, <1>10, <1>11
  DEF Next, JobStep

(* A Job of E2 or E3 that succeeds has read what its level is about, for   *)
(* any repository, sample size, deadline and order of events: the shell    *)
(* glue of the scripts (&&, the retry, rm -f and test -s) loses no failure.*)
THEOREM PassIsRead == Spec => []PassMeansRead
<1>1. Init => ReadInv
  <2>1. /\ IsJob(NoJob) /\ NoJob.lvl = "E2" /\ NoJob.state = "none"
        /\ NoJob.samples = <<>>
    BY DEF IsJob, NoJob
  <2> QED
    BY <2>1, ValidatorAssumption DEF Init, ReadInv, OnCourse, Levels
<1>2. ReadInv /\ [Next]_vars => ReadInv'
  BY ReadPreserved
<1>3. ReadInv => PassMeansRead
  <2> SUFFICES ASSUME ReadInv, job.state = "succeeded", job.lvl # "E4"
               PROVE  covers(job.lvl) \subseteq job.read
    BY DEF PassMeansRead
  <2>1. Covered(job) /\ job.lvl \in {"E2", "E3"} /\ fmt \in {"walg", "restic"}
    BY DEF ReadInv, OnCourse, Levels
  <2> QED
    BY <2>1 DEF Covered, covers
<1> QED
  BY <1>1, <1>2, <1>3, PTL DEF Spec
=============================================================================
