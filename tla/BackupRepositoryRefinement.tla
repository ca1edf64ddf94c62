--------------------- MODULE BackupRepositoryRefinement ---------------------
(***************************************************************************)
(* BackupRepository implements ValidationLevels, for all values of its     *)
(* constants and whatever fails or restarts.                               *)
(*                                                                         *)
(* Each step is looked at level by level: most of them lose a result or do *)
(* nothing (Lose); a level's step may Start a run, FinishJob is Finish,    *)
(* applyStatus is Publish, Withdraw or Lose.  Beyond SafetyInv this needs  *)
(* that a level has no result at hand before it is processed (Unread) and  *)
(* that a result at hand is newer than the one on record (Newer).          *)
(***************************************************************************)
EXTENDS BackupRepositoryProofs

-----------------------------------------------------------------------------
(* The mapping, one level at a time                                        *)

Shown(l) == IF Real(conds[CondOf[l]]) THEN conds[CondOf[l]] ELSE "none"

Remains(l) == Shown(l)' = Shown(l) /\ verified'[l] = verified[l]

(* The steps of ValidationLevels in terms of BackupRepository.             *)
LEMMA MappedSteps ==
  ASSUME NEW l \in Levels
  PROVE  /\ /\ InFlight(l)' <=> InFlight(l)
            /\ ResultsOf(l)' \subseteq ResultsOf(l)
            /\ Remains(l)
            => Published!Lose(l)
         /\ /\ ~InFlight(l) /\ InFlight(l)'
            /\ ResultsOf(l)' = ResultsOf(l)
            /\ Remains(l)
            => Published!Start(l)
         /\ /\ InFlight(l) /\ ~InFlight(l)'
            /\ \E r \in Published!Result : ResultsOf(l)' = ResultsOf(l) \cup {r}
            /\ Remains(l)
            => Published!Finish(l)
         /\ /\ InFlight(l)' <=> InFlight(l)
            /\ ResultsOf(l)' \subseteq ResultsOf(l)
            /\ \E r \in ResultsOf(l) : /\ r.at > verified[l]
                                       /\ Shown(l)' = r.v
                                       /\ verified'[l] \in {r.at, verified[l]}
            => Published!Publish(l)
         /\ /\ l # "E2"
            /\ InFlight(l)' <=> InFlight(l)
            /\ ResultsOf(l)' \subseteq ResultsOf(l)
            /\ Shown(l)' = "none"
            /\ verified'[l] \in {verified[l], 0} \cup {r.at : r \in ResultsOf(l)}
            => Published!Withdraw(l)
<1> DEFINE running == [k \in Levels |-> InFlight(k)]
           results == [k \in Levels |-> ResultsOf(k)]
           shown   == [k \in Levels |-> IF Real(conds[CondOf[k]])
                                        THEN conds[CondOf[k]] ELSE "none"]
<1>1. /\ running[l] = InFlight(l) /\ running'[l] = InFlight(l)'
      /\ results[l] = ResultsOf(l) /\ results'[l] = ResultsOf(l)'
      /\ shown[l] = Shown(l) /\ shown'[l] = Shown(l)'
  BY DEF Shown
<1>2. InFlight(l) \in BOOLEAN /\ InFlight(l)' \in BOOLEAN
  BY DEF InFlight
<1> QED
  BY <1>1, <1>2 DEF Remains, Published!Lose, Published!Start, Published!Finish,
                    Published!Publish, Published!Withdraw, Published!Keeps

-----------------------------------------------------------------------------
(* The Jobs                                                                *)

(* The result a Job leaves behind.                                         *)
ResultOf(j) == [v |-> verdictOf(j), at |-> jobCompletionTime(j)]
Ended(l) == {ResultOf(j) : j \in Completed(l)}
AtHand(l) == IF rec.res[l] = "none" THEN {}
             ELSE {[v |-> rec.res[l], at |-> rec.at[l]]}

(* The results of a level are those of its ended Jobs and the one at hand. *)
LEMMA ResultsSplit ==
  ASSUME NEW l
  PROVE  /\ ResultsOf(l) = Ended(l) \cup AtHand(l)
         /\ ResultsOf(l)' = Ended(l)' \cup AtHand(l)'
BY DEF ResultsOf, Ended, AtHand, ResultOf

(* x and j are the same run, however often it was counted.                 *)
SameRun(x, j) ==
  x.lvl = j.lvl /\ x.created = j.created /\ x.state = j.state /\ x.ended = j.ended

(* The same run has the same phase and the same result.                    *)
LEMMA SameRunSameResult ==
  ASSUME NEW x, NEW j, SameRun(x, j)
  PROVE  (jobInFlight(x) <=> jobInFlight(j)) /\ ResultOf(x) = ResultOf(j)
BY DEF SameRun, jobInFlight, ResultOf, verdictOf, jobCompletionTime, jobSucceeded

(* Counting a run forgets none.                                            *)
LEMMA CountingForgetsNone ==
  ASSUME NEW js \in SUBSET Job, NEW done \in SUBSET js, NEW j \in js
  PROVE  \E x \in recordValidationRun(js, done) : SameRun(x, j)
<1>1. CASE j \in done
  <2> DEFINE x == [j EXCEPT !.counted = IF @ < MaxCount THEN @ + 1 ELSE @]
  <2>1. x \in recordValidationRun(js, done)
    BY <1>1 DEF recordValidationRun
  <2>2. SameRun(x, j)
    BY DEF SameRun, Job
  <2> QED
    BY <2>1, <2>2
<1>2. CASE j \notin done
  BY <1>2 DEF recordValidationRun, SameRun
<1> QED
  BY <1>1, <1>2

(* A step after which every Job is one of before or newly created, every   *)
(* Job of before is still there, and counts aside nothing has changed of   *)
(* them, ends no run, and starts those it creates.                         *)
LEMMA SameRuns ==
  ASSUME NEW add \in SUBSET jobs', \A x \in add : jobInFlight(x),
         \A x \in jobs' : x \in add \/ \E j \in jobs : SameRun(x, j),
         \A j \in jobs : \E x \in jobs' : SameRun(x, j),
         NEW l
  PROVE  /\ Ended(l)' = Ended(l)
         /\ InFlight(l)' <=> (InFlight(l) \/ \E x \in add : x.lvl = l)
<1>1. ASSUME NEW x \in jobs', x.lvl = l, x \notin add
      PROVE  \E j \in jobs : /\ j.lvl = l /\ (jobInFlight(x) <=> jobInFlight(j))
                             /\ ResultOf(x) = ResultOf(j)
  BY <1>1, SameRunSameResult DEF SameRun
<1>2. ASSUME NEW j \in jobs, j.lvl = l
      PROVE  \E x \in jobs' : /\ x.lvl = l /\ (jobInFlight(x) <=> jobInFlight(j))
                              /\ ResultOf(x) = ResultOf(j)
  BY <1>2, SameRunSameResult DEF SameRun
<1>3. InFlight(l)' <=> \E x \in jobs' : x.lvl = l /\ jobInFlight(x)
  BY DEF InFlight, JobsOf, jobInFlight
<1>4. InFlight(l) <=> \E x \in jobs : x.lvl = l /\ jobInFlight(x)
  BY DEF InFlight, JobsOf
<1>5. Ended(l)' = {ResultOf(x) : x \in {y \in jobs' : y.lvl = l /\ ~jobInFlight(y)}}
  BY DEF Ended, Completed, JobsOf, ResultOf, verdictOf, jobCompletionTime,
         jobSucceeded, jobInFlight
<1>6. Ended(l) = {ResultOf(x) : x \in {y \in jobs : y.lvl = l /\ ~jobInFlight(y)}}
  BY DEF Ended, Completed, JobsOf
<1>7. Ended(l)' = Ended(l)
  BY <1>1, <1>2, <1>5, <1>6
<1>8. InFlight(l)' <=> (InFlight(l) \/ \E x \in add : x.lvl = l)
  BY <1>1, <1>2, <1>3, <1>4
<1> QED
  BY <1>7, <1>8

(* The Jobs after a count are the runs of before.                          *)
LEMMA CountedRuns ==
  ASSUME TypeOK, NEW l \in Levels, NEW done \in SUBSET Completed(l)
  PROVE  LET js == recordValidationRun(jobs, done)
         IN /\ \A x \in js : \E j \in jobs : SameRun(x, j)
            /\ \A j \in jobs : \E x \in js : SameRun(x, j)
<1>1. done \in SUBSET jobs /\ jobs \in SUBSET Job
  BY DEF Completed, JobsOf, TypeOK
<1> QED
  BY <1>1, CountingInherits, CountingForgetsNone DEF Inherits, SameRun

(* The step of a level ends no run and starts at most one, of this level.  *)
LEMMA LevelRuns ==
  ASSUME TypeOK, NEW l \in Levels, NEW m \in BOOLEAN, NEW s \in BOOLEAN,
         NEW r \in ingestResults(l), NEW stats \in BOOLEAN,
         ProcessLevel(l, m, s, r, stats), NEW k \in Levels
  PROVE  /\ Ended(k)' = Ended(k)
         /\ \/ InFlight(k)' <=> InFlight(k)
            \/ k = l /\ ~InFlight(k) /\ InFlight(k)'
<1> DEFINE js  == recordValidationRun(jobs, r.job)
           new == NewJob(l, rec.gen, m)
<1>1. /\ \A x \in js : \E j \in jobs : SameRun(x, j)
      /\ \A j \in jobs : \E x \in js : SameRun(x, j)
  BY IngestedIsCompleted, CountedRuns
<1>2. new.lvl = l /\ jobInFlight(new)
  BY DEF NewJob, jobInFlight
<1>3. jobs' = js \/ jobs' = js \cup {new}
  BY DEF ProcessLevel, spawnJob
<1> HIDE DEF js, new
<1>4. CASE jobs' = js
  <2> DEFINE add == {}
  <2>1. /\ add \in SUBSET jobs' /\ \A x \in add : jobInFlight(x)
        /\ \A x \in jobs' : x \in add \/ \E j \in jobs : SameRun(x, j)
        /\ \A j \in jobs : \E x \in jobs' : SameRun(x, j)
    BY <1>1, <1>4
  <2> HIDE DEF add
  <2>2. /\ Ended(k)' = Ended(k)
        /\ InFlight(k)' <=> (InFlight(k) \/ \E x \in add : x.lvl = k)
    BY <2>1, SameRuns
  <2> QED
    BY <2>2 DEF add
<1>5. CASE jobs' = js \cup {new}
  <2> DEFINE add == {new}
  <2>1. /\ add \in SUBSET jobs' /\ \A x \in add : jobInFlight(x)
        /\ \A x \in jobs' : x \in add \/ \E j \in jobs : SameRun(x, j)
        /\ \A j \in jobs : \E x \in jobs' : SameRun(x, j)
    BY <1>1, <1>2, <1>5
  <2> HIDE DEF add
  <2>2. /\ Ended(k)' = Ended(k)
        /\ InFlight(k)' <=> (InFlight(k) \/ \E x \in add : x.lvl = k)
    BY <2>1, SameRuns
  <2> QED
    BY <1>2, <2>2 DEF add
<1> QED
  BY <1>3, <1>4, <1>5

(* The end of a run: its result is added to those of its level.            *)
LEMMA FinishedRun ==
  ASSUME SafetyInv, NEW j \in jobs, jobInFlight(j),
         NEW v \in {"succeeded", "failed"},
         jobs' = (jobs \ {j}) \cup {[j EXCEPT !.state = v, !.ended = now]},
         NEW l \in Levels
  PROVE  \/ /\ l = j.lvl /\ InFlight(l) /\ ~InFlight(l)'
            /\ \E r \in Published!Result : Ended(l)' = Ended(l) \cup {r}
         \/ /\ l # j.lvl /\ (InFlight(l)' <=> InFlight(l))
            /\ Ended(l)' = Ended(l)
<1> DEFINE done == [j EXCEPT !.state = v, !.ended = now]
<1>1. /\ done.lvl = j.lvl /\ done.created = j.created /\ done.ended = now
      /\ done.state = v /\ ~jobInFlight(done)
  BY DEF SafetyInv, TypeOK, Job, jobInFlight
<1>2. ResultOf(done) \in Published!Result
  BY <1>1 DEF ResultOf, Published!Result, verdictOf, jobCompletionTime,
              SafetyInv, Dated, DatedJob, TypeOK, Job, Time
<1>3. jobs' = (jobs \ {j}) \cup {done}
  OBVIOUS
<1> HIDE DEF done
<1>4. InFlight(l)' <=> \E x \in jobs' : x.lvl = l /\ jobInFlight(x)
  BY DEF InFlight, JobsOf, jobInFlight
<1>5. InFlight(l) <=> \E x \in jobs : x.lvl = l /\ jobInFlight(x)
  BY DEF InFlight, JobsOf
<1>6. Ended(l)' = {ResultOf(x) : x \in {y \in jobs' : y.lvl = l /\ ~jobInFlight(y)}}
  BY DEF Ended, Completed, JobsOf, ResultOf, verdictOf, jobCompletionTime,
         jobSucceeded, jobInFlight
<1>7. Ended(l) = {ResultOf(x) : x \in {y \in jobs : y.lvl = l /\ ~jobInFlight(y)}}
  BY DEF Ended, Completed, JobsOf
<1>8. CASE l = j.lvl
  <2>1. InFlight(l) /\ ~InFlight(l)'
    BY <1>1, <1>3, <1>4, <1>5, <1>8 DEF SafetyInv, AtMostOneInFlight
  <2>2. {y \in jobs' : y.lvl = l /\ ~jobInFlight(y)} =
        {y \in jobs : y.lvl = l /\ ~jobInFlight(y)} \cup {done}
    BY <1>1, <1>3, <1>8
  <2>3. Ended(l)' = Ended(l) \cup {ResultOf(done)}
    BY <1>6, <1>7, <2>2
  <2> QED
    BY <1>2, <1>8, <2>1, <2>3
<1>9. CASE l # j.lvl
  <2>1. {y \in jobs' : y.lvl = l /\ ~jobInFlight(y)} =
        {y \in jobs : y.lvl = l /\ ~jobInFlight(y)}
    BY <1>1, <1>3, <1>9
  <2>2. InFlight(l)' <=> InFlight(l)
    BY <1>1, <1>3, <1>4, <1>5, <1>9
  <2> QED
    BY <1>6, <1>7, <1>9, <2>1, <2>2
<1> QED
  BY <1>8, <1>9

-----------------------------------------------------------------------------
(* The result at hand                                                      *)

(* A level has no result at hand before it is processed.                   *)
Unread ==
  /\ pc \in {"idle", "e2"} => \A l \in Levels : rec.res[l] = "none"
  /\ pc = "e3" => rec.res["E3"] = "none" /\ rec.res["E4"] = "none"
  /\ pc = "e4" => rec.res["E4"] = "none"

(* A result at hand is newer than the one on record.                       *)
Newer == \A l \in Levels : rec.res[l] # "none" => rec.at[l] > verified[l]

RefinementInv == SafetyInv /\ Unread /\ Newer

(* What a level ingests is the result of one of its ended Jobs, and newer  *)
(* than the one on record.                                                 *)
LEMMA IngestedIsNewer ==
  ASSUME TypeOK, Dated, NEW l \in Levels, NEW r \in ingestResults(l)
  PROVE  \/ r.res = "none"
         \/ [v |-> r.res, at |-> r.at] \in Ended(l) /\ r.at > verified[l]
<1>1. CASE r = NoResult
  BY <1>1 DEF NoResult
<1>2. CASE r # NoResult
  <2>1. PICK j \in toIngest(l) :
          r = [res |-> verdictOf(j), at |-> jobCompletionTime(j),
               manual |-> j.manual, job |-> {j}]
    BY <1>2 DEF ingestResults
  <2>2. j \in Completed(l) /\ j \in Job /\ j \in jobs
    BY <2>1 DEF toIngest, pickLatestCompletedJob, Completed, JobsOf, TypeOK
  <2>3. r.res = verdictOf(j) /\ r.at = jobCompletionTime(j)
    BY <2>1
  <2>4. ~alreadyIngested(l, j)
    BY <2>1 DEF toIngest
  <2>5. jobCompletionTime(j) \in Nat /\ jobCompletionTime(j) >= 1
    BY <2>2 DEF jobCompletionTime, Job, Dated, DatedJob, Time
  <2>6. verified[l] \in Nat
    BY DEF TypeOK, Time
  <2>7. jobCompletionTime(j) > verified[l]
    BY <2>4, <2>5, <2>6 DEF alreadyIngested, Nil
  <2> QED
    BY <2>2, <2>3, <2>7 DEF Ended, ResultOf
<1> QED
  BY <1>1, <1>2

(* The step of a level leaves the results at hand of the other levels.     *)
LEMMA LevelReads ==
  ASSUME TypeOK, Dated, NEW l \in Levels, NEW m \in BOOLEAN, NEW s \in BOOLEAN,
         NEW r \in ingestResults(l), NEW stats \in BOOLEAN,
         ProcessLevel(l, m, s, r, stats)
  PROVE  /\ \A k \in Levels \ {l} :
              rec'.res[k] = rec.res[k] /\ rec'.at[k] = rec.at[k]
         /\ rec'.res[l] = r.res /\ rec'.at[l] = r.at
<1>1. /\ rec'.res = [rec.res EXCEPT ![l] = r.res]
      /\ rec'.at = [rec.at EXCEPT ![l] = r.at]
  BY DEF ProcessLevel, TypeOK, RecType
<1>2. rec.res \in [Levels -> Verdicts] /\ rec.at \in [Levels -> Time]
  BY DEF TypeOK, RecType
<1> QED
  BY <1>1, <1>2

(* The step of a level maps, level by level, to nothing or to Start.       *)
LEMMA LevelRefines ==
  ASSUME TypeOK, Dated, NEW l \in Levels, NEW m \in BOOLEAN, NEW s \in BOOLEAN,
         NEW r \in ingestResults(l), NEW stats \in BOOLEAN,
         ProcessLevel(l, m, s, r, stats), rec.res[l] = "none",
         UNCHANGED status, NEW k \in Levels
  PROVE  Published!Lose(k) \/ Published!Start(k)
<1>1. Remains(k)
  BY DEF Remains, Shown, status, Real
<1>2. /\ Ended(k)' = Ended(k)
      /\ \/ InFlight(k)' <=> InFlight(k)
         \/ ~InFlight(k) /\ InFlight(k)'
  BY LevelRuns
<1>3. ResultsOf(k)' = ResultsOf(k)
  <2>1. ResultsOf(k)' = Ended(k)' \cup AtHand(k)'
        /\ ResultsOf(k) = Ended(k) \cup AtHand(k)
    BY ResultsSplit
  <2>2. CASE k # l
    <3>1. AtHand(k)' = AtHand(k)
      <4>1. rec'.res[k] = rec.res[k] /\ rec'.at[k] = rec.at[k]
        BY <2>2, LevelReads
      <4> QED
        BY <4>1 DEF AtHand
    <3> QED
      BY <1>2, <2>1, <3>1
  <2>3. CASE k = l
    <3>1. AtHand(k) = {}
      BY <2>3 DEF AtHand
    <3>2. AtHand(k)' \subseteq Ended(k)
      BY <2>3, LevelReads, IngestedIsNewer DEF AtHand
    <3> QED
      BY <1>2, <2>1, <3>1, <3>2
  <2> QED
    BY <2>2, <2>3
<1> QED
  BY <1>1, <1>2, <1>3, MappedSteps

(* A step that touches neither the Jobs nor the status, and drops the      *)
(* results at hand or keeps them, loses at most results.                   *)
LEMMA DropLoses ==
  ASSUME NEW l \in Levels, UNCHANGED <<conds, verified>>,
         \A k \in Levels : Ended(k)' \subseteq Ended(k),
         InFlight(l)' <=> InFlight(l),
         rec'.res[l] = "none" \/ (rec'.res[l] = rec.res[l] /\ rec'.at[l] = rec.at[l])
  PROVE  Published!Lose(l)
<1>1. Remains(l)
  BY DEF Remains, Shown, Real
<1>2. AtHand(l)' \subseteq AtHand(l)
  BY DEF AtHand
<1>3. ResultsOf(l)' \subseteq ResultsOf(l)
  BY <1>2, ResultsSplit
<1> QED
  BY <1>1, <1>3, MappedSteps

-----------------------------------------------------------------------------
(* The status                                                              *)

(* The status write of a reconcile without credentials shows, per level,   *)
(* what was shown before; E3 or E4 may stop showing a verdict.             *)
LEMMA GapRefines ==
  ASSUME TypeOK, RecordCredentialsFailure, NEW l \in Levels
  PROVE  Published!Lose(l) \/ Published!Withdraw(l)
<1>1. /\ UNCHANGED <<jobs, verified, rec>>
      /\ conds' = conds \/ conds' = credentialsFailed
  BY DEF RecordCredentialsFailure
<1>2. /\ InFlight(l)' <=> InFlight(l)
      /\ ResultsOf(l)' = ResultsOf(l)
  BY <1>1 DEF InFlight, JobsOf, jobInFlight, ResultsOf, Completed, verdictOf,
              jobCompletionTime, jobSucceeded
<1>3. /\ CondOf["E2"] = "MetadataValid"
      /\ CondOf["E3"] = "SampledIntegrityValid"
      /\ CondOf["E4"] = "FullRetrievalCompleted"
      /\ l \in {"E2", "E3", "E4"}
  BY DEF CondOf, Levels
<1>4. Shown(l)' = Shown(l) \/ (l # "E2" /\ Shown(l)' = "none")
  <2>1. CASE conds' = conds
    BY <2>1 DEF Shown, Real
  <2>2. CASE conds' = credentialsFailed
    <3>1. /\ conds'["MetadataValid"] =
               OrElse(preservedCondition(conds["MetadataValid"]), "Pending")
          /\ conds'["SampledIntegrityValid"] =
               IF spec.e3
               THEN OrElse(preservedCondition(conds["SampledIntegrityValid"]),
                           "Pending")
               ELSE "Absent"
          /\ conds'["FullRetrievalCompleted"] =
               fullRetrievalCondition(
                 conds["FullRetrievalCompleted"], spec.e4, verified["E4"] # Nil,
                 FALSE, preservedCondition(conds["FullRetrievalCompleted"]))
      BY <2>2 DEF credentialsFailed, applyConditions
    <3> QED
      BY <1>3, <3>1 DEF Shown, Real, OrElse, preservedCondition,
                        fullRetrievalCondition
  <2> QED
    BY <1>1, <2>1, <2>2
<1> QED
  BY <1>1, <1>2, <1>4, MappedSteps DEF Remains

(* The status write of a full reconcile publishes the result at hand of    *)
(* each level, keeps what it shows, or withdraws it (E3 and E4).           *)
LEMMA ApplyRefines ==
  ASSUME RefinementInv, ApplyStatus, NEW l \in Levels
  PROVE  Published!Lose(l) \/ Published!Publish(l) \/ Published!Withdraw(l)
<1>1. /\ jobs' = jobs /\ rec' = IdleRec
      /\ verified' = verifiedAfter /\ conds' = probedConditions
  BY DEF ApplyStatus
<1>2. /\ InFlight(l)' <=> InFlight(l)
      /\ ResultsOf(l)' \subseteq ResultsOf(l)
  <2>1. (InFlight(l)' <=> InFlight(l)) /\ Ended(l)' = Ended(l)
    BY <1>1 DEF InFlight, JobsOf, jobInFlight, Ended, Completed, ResultOf,
                verdictOf, jobCompletionTime, jobSucceeded
  <2>2. AtHand(l)' = {}
    BY <1>1 DEF AtHand, IdleRec
  <2> QED
    BY <2>1, <2>2, ResultsSplit
<1>3. /\ CondOf["E2"] = "MetadataValid"
      /\ CondOf["E3"] = "SampledIntegrityValid"
      /\ CondOf["E4"] = "FullRetrievalCompleted"
      /\ l \in {"E2", "E3", "E4"}
  BY DEF CondOf, Levels
<1>4. /\ conds'["MetadataValid"] = OrElse(verdictInput("E2"), "Pending")
      /\ conds'["SampledIntegrityValid"] =
           IF rec.spec.e3 THEN OrElse(verdictInput("E3"), "Pending")
                          ELSE "Absent"
      /\ conds'["FullRetrievalCompleted"] =
           fullRetrievalCondition(
             conds["FullRetrievalCompleted"], rec.spec.e4,
             verifiedAfter["E4"] # Nil, "E4" \in rec.active,
             verdictInput("E4"))
  BY <1>1, VerdictConditions DEF probedConditions
<1>5. rec.res[l] \in Verdicts
  BY DEF RefinementInv, SafetyInv, TypeOK, RecType
<1>6. CASE rec.res[l] # "none"
  <2> DEFINE r == [v |-> rec.res[l], at |-> rec.at[l]]
  <2>1. r \in ResultsOf(l) /\ r.at > verified[l] /\ r.v = rec.res[l]
        /\ r.at = rec.at[l]
    BY <1>6 DEF ResultsOf, RefinementInv, Newer
  <2>2. verified'[l] \in {rec.at[l], verified[l]}
    BY <1>1, <1>6 DEF verifiedAfter
  <2>3. Real(rec.res[l]) /\ verdictInput(l) = rec.res[l]
    BY <1>5, <1>6 DEF Real, Verdicts, verdictInput
  <2>4. Shown(l)' = rec.res[l] \/ (l # "E2" /\ Shown(l)' = "none")
    BY <1>3, <1>4, <2>3 DEF Shown, Real, OrElse, fullRetrievalCondition
  <2> HIDE DEF r
  <2> QED
    BY <1>2, <2>1, <2>2, <2>4, MappedSteps
<1>7. CASE rec.res[l] = "none" /\ carried(l)
  <2>1. verified'[l] = verified[l] /\ verified[l] # Nil
    BY <1>1, <1>7 DEF verifiedAfter, recorded, carried
  <2>2. verdictInput(l) = conds[CondOf[l]] /\ Real(conds[CondOf[l]])
    BY <1>7 DEF verdictInput, carried
  <2>3. Shown(l)' = Shown(l) \/ (l # "E2" /\ Shown(l)' = "none")
    BY <1>1, <1>3, <1>4, <2>1, <2>2
    DEF Shown, Real, OrElse, fullRetrievalCondition
  <2> QED
    BY <1>2, <2>1, <2>3, MappedSteps DEF Remains
<1>8. CASE rec.res[l] = "none" /\ ~carried(l)
  <2>1. verified'[l] = Nil /\ verdictInput(l) = "Absent"
    BY <1>1, <1>8 DEF verifiedAfter, recorded, verdictInput
  <2>2. CASE l = "E2"
    <3>1. verified["E2"] = Nil /\ ~Real(conds["MetadataValid"])
      BY <1>3, <1>8, <2>2 DEF carried, RefinementInv, SafetyInv, AnchorHasVerdict
    <3>2. Shown(l)' = Shown(l) /\ verified'[l] = verified[l]
      BY <1>3, <1>4, <2>1, <2>2, <3>1 DEF Shown, Real, OrElse
    <3> QED
      BY <1>2, <3>2, MappedSteps DEF Remains
  <2>3. CASE l = "E3"
    <3>1. Shown(l)' = "none"
      BY <1>3, <1>4, <2>1, <2>3 DEF Shown, Real, OrElse
    <3> QED
      BY <1>2, <2>1, <2>3, <3>1, MappedSteps DEF Nil
  <2>4. CASE l = "E4"
    <3>1. \/ Shown(l)' = "none"
          \/ Shown(l)' = Shown(l) /\ Real(conds[CondOf[l]])
      BY <1>3, <1>4, <2>1, <2>4 DEF Shown, Real, OrElse, fullRetrievalCondition
    <3>2. Real(conds[CondOf[l]]) => verified[l] = Nil
      BY <1>8 DEF carried
    <3> QED
      BY <1>2, <2>1, <2>4, <3>1, <3>2, MappedSteps DEF Nil, Remains
  <2> QED
    BY <1>3, <2>2, <2>3, <2>4
<1> QED
  BY <1>6, <1>7, <1>8

-----------------------------------------------------------------------------
(* The steps                                                               *)

(* The step of a level leaves only its own result at hand, a newer one.    *)
LEMMA LevelIsNewer ==
  ASSUME TypeOK, Dated, Newer, NEW l \in Levels, NEW m \in BOOLEAN,
         NEW s \in BOOLEAN, NEW r \in ingestResults(l), NEW stats \in BOOLEAN,
         ProcessLevel(l, m, s, r, stats), UNCHANGED status
  PROVE  Newer'
<1>1. verified' = verified
  BY DEF status
<1>2. ASSUME NEW k \in Levels, rec'.res[k] # "none"
      PROVE  rec'.at[k] > verified[k]
  <2>1. CASE k = l
    <3>1. rec'.res[k] = r.res /\ rec'.at[k] = r.at
      BY <2>1, LevelReads
    <3> QED
      BY <1>2, <2>1, <3>1, IngestedIsNewer
  <2>2. CASE k # l
    <3>1. rec'.res[k] = rec.res[k] /\ rec'.at[k] = rec.at[k]
      BY <2>2, LevelReads
    <3> QED
      BY <1>2, <3>1 DEF Newer
  <2> QED
    BY <2>1, <2>2
<1> QED
  BY <1>1, <1>2 DEF Newer

(* A step that drops the results at hand, or keeps them and the place of   *)
(* the reconcile.                                                          *)
LEMMA DropIsNewer ==
  ASSUME Unread, Newer,
         \/ \A l \in Levels : rec'.res[l] = "none"
         \/ /\ UNCHANGED verified /\ rec'.res = rec.res /\ rec'.at = rec.at
            /\ pc' = pc \/ pc' = "apply"
  PROVE  Unread' /\ Newer'
BY DEF Unread, Newer, Levels

(* What is known of the results at hand is preserved by every step.        *)
LEMMA ReadsPreserved ==
  ASSUME RefinementInv, [Next]_vars
  PROVE  Unread' /\ Newer'
<1> USE DEF cluster, status, memory
<1>0. /\ TypeOK /\ Dated /\ Unread /\ Newer
      /\ "E2" \in Levels /\ "E3" \in Levels /\ "E4" \in Levels
  BY DEF RefinementInv, SafetyInv, Levels
<1>1. CASE ProcessE2
  <2>1. CASE ListFails
    <3>1. \A l \in Levels : rec'.res[l] = "none"
      BY <1>0, <1>1, <2>1 DEF ProcessE2, ListFails, Unread
    <3> QED
      BY <1>0, <3>1, DropIsNewer
  <2>2. CASE \E r \in ingestResults("E2"), s \in spawnOutcomes("E2", wantE2) :
               ProcessLevel("E2", FALSE, s, r, FALSE)
    <3>1. PICK r \in ingestResults("E2"), s \in spawnOutcomes("E2", wantE2) :
            ProcessLevel("E2", FALSE, s, r, FALSE)
      BY <2>2
    <3>2. s \in BOOLEAN
      BY SpawnsWhenNoneActive
    <3>3. Newer'
      BY <1>0, <1>1, <3>1, <3>2, LevelIsNewer DEF ProcessE2
    <3>4. \A k \in Levels : k # "E2" => rec'.res[k] = rec.res[k]
      BY <1>0, <3>1, <3>2, LevelReads
    <3>5. Unread'
      BY <1>0, <1>1, <3>4 DEF ProcessE2, afterE2, Unread
    <3> QED
      BY <3>3, <3>5
  <2> QED
    BY <1>1, <2>1, <2>2 DEF ProcessE2
<1>2. CASE ProcessE3
  <2>1. CASE ListFails
    BY <1>0, <1>2, <2>1 DEF ProcessE3, ListFails, Unread, Newer
  <2>2. CASE \E r \in ingestResults("E3"), s \in spawnOutcomes("E3", wantE3) :
               ProcessLevel("E3", FALSE, s, r, FALSE)
    <3>1. PICK r \in ingestResults("E3"), s \in spawnOutcomes("E3", wantE3) :
            ProcessLevel("E3", FALSE, s, r, FALSE)
      BY <2>2
    <3>2. s \in BOOLEAN
      BY SpawnsWhenNoneActive
    <3>3. Newer'
      BY <1>0, <1>2, <3>1, <3>2, LevelIsNewer DEF ProcessE3
    <3>4. rec'.res["E4"] = rec.res["E4"]
      BY <1>0, <3>1, <3>2, LevelReads
    <3>5. Unread'
      BY <1>0, <1>2, <3>4 DEF ProcessE3, Unread
    <3> QED
      BY <3>3, <3>5
  <2> QED
    BY <1>2, <2>1, <2>2 DEF ProcessE3
<1>3. CASE ProcessE4
  <2>0. Unread'
    BY <1>3 DEF ProcessE4, Unread
  <2>1. CASE ListFails
    BY <1>0, <1>3, <2>0, <2>1 DEF ProcessE4, ListFails, Newer
  <2>2. CASE \E r \in ingestResults("E4"), s \in spawnOutcomes("E4", wantE4) :
               \E stats \in parseE4Stats(r) :
                 ProcessLevel("E4", "E4" \in rec.need, s, r, stats)
    <3>1. PICK r \in ingestResults("E4"), s \in spawnOutcomes("E4", wantE4) :
            \E stats \in parseE4Stats(r) :
              ProcessLevel("E4", "E4" \in rec.need, s, r, stats)
      BY <2>2
    <3>2. /\ s \in BOOLEAN /\ parseE4Stats(r) \subseteq BOOLEAN
          /\ ("E4" \in rec.need) \in BOOLEAN
      BY SpawnsWhenNoneActive, StatsAreBoolean
    <3>3. Newer'
      BY <1>0, <1>3, <3>1, <3>2, LevelIsNewer DEF ProcessE4
    <3> QED
      BY <2>0, <3>3
  <2> QED
    BY <1>3, <2>1, <2>2 DEF ProcessE4
<1>4. CASE Begin \/ PanicE3 \/ ApplyStatus \/ ApplyStatusFails \/ Crash
  <2>1. rec'.res = [l \in Levels |-> "none"]
    <3>1. CASE Begin
      BY <3>1 DEF Begin, IdleRec
    <3>2. CASE ~Begin
      BY <1>4, <3>2 DEF PanicE3, ApplyStatus, ApplyStatusFails, Crash, IdleRec
    <3> QED
      BY <3>1, <3>2
  <2> QED
    BY <1>0, <2>1, DropIsNewer
<1>5. CASE ClearForceE4Annotation
  <2>1. rec'.res = rec.res /\ rec'.at = rec.at
    BY <1>0, <1>5 DEF ClearForceE4Annotation, TypeOK, RecType
  <2> QED
    BY <1>0, <1>5, <2>1, DropIsNewer DEF ClearForceE4Annotation
<1>6. CASE TolerateMissingCredentials \/ RecordCredentialsFailure \/ Tick
           \/ FinishJob \/ ExpireJob
  BY <1>0, <1>6, DropIsNewer
  DEF TolerateMissingCredentials, RecordCredentialsFailure, Tick, FinishJob,
      ExpireJob
<1>7. CASE AnnotateForceRevalidate \/ AnnotateForceE4 \/ EditSpec
           \/ ChangeSecret \/ UNCHANGED vars
  BY <1>0, <1>7, DropIsNewer
  DEF AnnotateForceRevalidate, AnnotateForceE4, EditSpec, ChangeSecret, vars
<1> QED
  BY <1>1, <1>2, <1>3, <1>4, <1>5, <1>6, <1>7 DEF Next, Reconcile, Environment

(* Jobs left alone are results and runs left alone.                        *)
LEMMA SameJobs ==
  ASSUME jobs' = jobs, NEW l
  PROVE  (InFlight(l)' <=> InFlight(l)) /\ Ended(l)' = Ended(l)
BY DEF InFlight, JobsOf, jobInFlight, Ended, Completed, ResultOf, verdictOf,
       jobCompletionTime, jobSucceeded

(* Each step of BackupRepository is one of ValidationLevels, level by      *)
(* level.                                                                  *)
LEMMA StepRefines ==
  ASSUME RefinementInv, [Next]_vars, NEW l \in Levels
  PROVE  \/ Published!Lose(l) \/ Published!Start(l) \/ Published!Finish(l)
         \/ Published!Publish(l) \/ Published!Withdraw(l)
<1> USE DEF cluster, status, memory
<1>0. /\ TypeOK /\ Dated /\ Unread /\ SafetyInv
      /\ "E2" \in Levels /\ "E3" \in Levels /\ "E4" \in Levels
  BY DEF RefinementInv, SafetyInv, Levels
<1>a. ASSUME UNCHANGED <<jobs, conds, verified>>,
             \/ rec'.res[l] = "none"
             \/ rec'.res[l] = rec.res[l] /\ rec'.at[l] = rec.at[l]
      PROVE  Published!Lose(l)
  BY <1>a, SameJobs, DropLoses
<1>1. CASE ProcessE2
  <2>1. CASE ListFails
    BY <1>1, <1>a, <2>1 DEF ProcessE2, ListFails
  <2>2. CASE \E r \in ingestResults("E2"), s \in spawnOutcomes("E2", wantE2) :
               ProcessLevel("E2", FALSE, s, r, FALSE)
    <3>1. PICK r \in ingestResults("E2"), s \in spawnOutcomes("E2", wantE2) :
            ProcessLevel("E2", FALSE, s, r, FALSE)
      BY <2>2
    <3>2. s \in BOOLEAN
      BY SpawnsWhenNoneActive
    <3>3. rec.res["E2"] = "none" /\ UNCHANGED status
      BY <1>0, <1>1 DEF ProcessE2, Unread
    <3>4. Published!Lose(l) \/ Published!Start(l)
      BY <1>0, <3>1, <3>2, <3>3, LevelRefines
    <3> QED
      BY <3>4
  <2> QED
    BY <1>1, <2>1, <2>2 DEF ProcessE2
<1>2. CASE ProcessE3
  <2>1. CASE ListFails
    BY <1>2, <1>a, <2>1 DEF ProcessE3, ListFails
  <2>2. CASE \E r \in ingestResults("E3"), s \in spawnOutcomes("E3", wantE3) :
               ProcessLevel("E3", FALSE, s, r, FALSE)
    <3>1. PICK r \in ingestResults("E3"), s \in spawnOutcomes("E3", wantE3) :
            ProcessLevel("E3", FALSE, s, r, FALSE)
      BY <2>2
    <3>2. s \in BOOLEAN
      BY SpawnsWhenNoneActive
    <3>3. rec.res["E3"] = "none" /\ UNCHANGED status
      BY <1>0, <1>2 DEF ProcessE3, Unread
    <3>4. Published!Lose(l) \/ Published!Start(l)
      BY <1>0, <3>1, <3>2, <3>3, LevelRefines
    <3> QED
      BY <3>4
  <2> QED
    BY <1>2, <2>1, <2>2 DEF ProcessE3
<1>3. CASE ProcessE4
  <2>1. CASE ListFails
    BY <1>3, <1>a, <2>1 DEF ProcessE4, ListFails
  <2>2. CASE \E r \in ingestResults("E4"), s \in spawnOutcomes("E4", wantE4) :
               \E stats \in parseE4Stats(r) :
                 ProcessLevel("E4", "E4" \in rec.need, s, r, stats)
    <3>1. PICK r \in ingestResults("E4"), s \in spawnOutcomes("E4", wantE4) :
            \E stats \in parseE4Stats(r) :
              ProcessLevel("E4", "E4" \in rec.need, s, r, stats)
      BY <2>2
    <3>2. /\ s \in BOOLEAN /\ parseE4Stats(r) \subseteq BOOLEAN
          /\ ("E4" \in rec.need) \in BOOLEAN
      BY SpawnsWhenNoneActive, StatsAreBoolean
    <3>3. rec.res["E4"] = "none" /\ UNCHANGED status
      BY <1>0, <1>3 DEF ProcessE4, Unread
    <3>4. Published!Lose(l) \/ Published!Start(l)
      BY <1>0, <3>1, <3>2, <3>3, LevelRefines
    <3> QED
      BY <3>4
  <2> QED
    BY <1>3, <2>1, <2>2 DEF ProcessE4
<1>4. CASE PanicE3
  <2>1. PICK r \in ingestResults("E3") : jobs' = recordValidationRun(jobs, r.job)
    BY <1>4 DEF PanicE3
  <2> DEFINE add == {}
  <2>2. /\ \A x \in jobs' : x \in add \/ \E j \in jobs : SameRun(x, j)
        /\ \A j \in jobs : \E x \in jobs' : SameRun(x, j)
        /\ add \in SUBSET jobs' /\ \A x \in add : jobInFlight(x)
    BY <1>0, <2>1, IngestedIsCompleted, CountedRuns
  <2> HIDE DEF add
  <2>3. /\ \A k \in Levels : Ended(k)' = Ended(k)
        /\ InFlight(l)' <=> (InFlight(l) \/ \E x \in add : x.lvl = l)
    BY <2>2, SameRuns
  <2>4. rec'.res[l] = "none"
    BY <1>4 DEF PanicE3, IdleRec
  <2> QED
    BY <1>4, <2>3, <2>4, DropLoses DEF PanicE3, add
<1>5. CASE FinishJob
  <2>1. PICK j \in jobs, v \in {"succeeded", "failed"} :
          /\ jobInFlight(j)
          /\ jobs' = (jobs \ {j}) \cup {[j EXCEPT !.state = v, !.ended = now]}
    BY <1>5 DEF FinishJob
  <2>2. \/ /\ InFlight(l) /\ ~InFlight(l)'
           /\ \E r \in Published!Result : Ended(l)' = Ended(l) \cup {r}
        \/ (InFlight(l)' <=> InFlight(l)) /\ Ended(l)' = Ended(l)
    BY <1>0, <2>1, FinishedRun
  <2>3. Remains(l) /\ AtHand(l)' = AtHand(l)
    BY <1>5 DEF FinishJob, Remains, Shown, Real, AtHand
  <2>4. CASE (InFlight(l)' <=> InFlight(l)) /\ Ended(l)' = Ended(l)
    BY <2>3, <2>4, ResultsSplit, MappedSteps
  <2>5. CASE /\ InFlight(l) /\ ~InFlight(l)'
             /\ \E r \in Published!Result : Ended(l)' = Ended(l) \cup {r}
    <3>1. PICK r \in Published!Result : Ended(l)' = Ended(l) \cup {r}
      BY <2>5
    <3>2. ResultsOf(l)' = ResultsOf(l) \cup {r}
      BY <2>3, <3>1, ResultsSplit
    <3> QED
      BY <2>3, <2>5, <3>2, MappedSteps
  <2> QED
    BY <2>2, <2>4, <2>5
<1>6. CASE ExpireJob
  <2>1. PICK j \in jobs : ~jobInFlight(j) /\ jobs' = jobs \ {j}
    BY <1>6 DEF ExpireJob
  <2>2. InFlight(l)' <=> InFlight(l)
    BY <2>1 DEF InFlight, JobsOf, jobInFlight
  <2>3. \A k \in Levels : Ended(k)' \subseteq Ended(k)
    BY <2>1 DEF Ended, Completed, JobsOf, ResultOf, verdictOf,
                jobCompletionTime, jobSucceeded, jobInFlight
  <2> QED
    BY <1>6, <2>2, <2>3, DropLoses DEF ExpireJob
<1>7. CASE ApplyStatus
  BY <1>7, ApplyRefines
<1>8. CASE RecordCredentialsFailure
  BY <1>0, <1>8, GapRefines
<1>9. CASE Begin \/ ApplyStatusFails \/ Crash
  <2>1. rec'.res = [k \in Levels |-> "none"]
    <3>1. CASE Begin
      BY <3>1 DEF Begin, IdleRec
    <3>2. CASE ApplyStatusFails \/ Crash
      BY <3>2 DEF ApplyStatusFails, Crash, IdleRec
    <3> QED
      BY <1>9, <3>1, <3>2
  <2>2. UNCHANGED <<jobs, conds, verified>>
    BY <1>9 DEF Begin, ApplyStatusFails, Crash
  <2> QED
    BY <1>a, <2>1, <2>2
<1>10. CASE ClearForceE4Annotation
  <2>1. rec'.res = rec.res /\ rec'.at = rec.at
    BY <1>0, <1>10 DEF ClearForceE4Annotation, TypeOK, RecType
  <2> QED
    BY <1>10, <1>a, <2>1 DEF ClearForceE4Annotation
<1>11. CASE TolerateMissingCredentials \/ Tick \/ AnnotateForceRevalidate
            \/ AnnotateForceE4 \/ EditSpec \/ ChangeSecret \/ UNCHANGED vars
  BY <1>11, <1>a
  DEF TolerateMissingCredentials, Tick, AnnotateForceRevalidate,
      AnnotateForceE4, EditSpec, ChangeSecret, vars
<1> QED
  BY <1>1, <1>2, <1>3, <1>4, <1>5, <1>6, <1>7, <1>8, <1>9, <1>10, <1>11
  DEF Next, Reconcile, Environment

(* The results at hand are known to be newer in every reachable state.     *)
LEMMA RefinementInvariant == Spec => []RefinementInv
<1>1. Init => RefinementInv
  BY SafetyInit DEF Init, RefinementInv, Unread, Newer, IdleRec
<1>2. RefinementInv /\ [Next]_vars => RefinementInv'
  BY SafetyPreserved, ReadsPreserved DEF RefinementInv
<1> QED
  BY <1>1, <1>2, PTL DEF Spec

(* The reconciler, its Jobs and everything that may fail around them       *)
(* implement ValidationLevels: what is published of a level is the result  *)
(* of a run of it that ended, newer than what was published before, runs   *)
(* of a level follow one another, and an E2 verdict is never taken back.   *)
THEOREM Refinement == Spec => LevelsArePromised
<1>1. Init => Published!Init
  BY DEF Init, Published!Init, InFlight, JobsOf, ResultsOf, Completed, IdleRec,
         NoConditions, Real, CondOf, CondTypes, Levels, Nil
<1>2. RefinementInv /\ [Next]_vars => [Published!Next]_(Published!vars)
  BY StepRefines DEF Published!Next
<1> QED
  BY <1>1, <1>2, RefinementInvariant, PTL
  DEF Spec, LevelsArePromised, Published!Spec
=============================================================================
