-------------------- MODULE BackupRepositoryConditional --------------------
(***************************************************************************)
(* One BackupRepositoryConditional (BRC) under its reconciler: it reads    *)
(* the status of a BackupRepository (BR), picks one of three manifests and *)
(* server-side-applies it.                                                 *)
(*                                                                         *)
(* A reconcile is stepped at its API calls: the Gets of the BRC and the BR *)
(* (one of the four actions that lead out of "idle"), the Get of the       *)
(* manifest, the apply, the status patch.  In between, the BR, the         *)
(* manifests, the spec and the child may change.  Unlike the BR's, a BRC   *)
(* reconcile is not requeued when it ends: it runs again only for a watch  *)
(* event, an error or the timer of a preserved decision, so the wake-ups   *)
(* are part of the state.                                                  *)
(*                                                                         *)
(* A manifest is the child it names and a body; Bootstrap is the part of a *)
(* body that the child's API keeps immutable (cnpg's bootstrap.* fields).  *)
(* Reasons, messages and decidedAt are left out.                           *)
(***************************************************************************)
EXTENDS Naturals

CONSTANTS
  Repositories, \* the BR statuses the BR controller may publish
  Sources,      \* the ConfigMap and Secret keys that may hold a manifest
  Children,     \* the objects a manifest may name
  Bodies,       \* what a manifest may ask for
  Bootstrap,    \* per body: its immutable part
  Foreign,      \* children the BRC cannot own (namespace or controller)
  Specs,        \* the assignments of manifests to slots a user may apply
  MaxEdits,     \* bound: changes made by users and by the BR controller
  Faults        \* which calls may fail

Slots == {"whenHealthy", "whenEmpty", "whenDegraded"}
States == {"healthy", "empty", "degraded"}
None == "none"
Absent == "absent"

RepositoryType == [found : BOOLEAN, backup : BOOLEAN,
                   inv : {"none", "zero", "some"},
                   healthy : {"Absent", "True", "False", "Unknown"}]
NoRepository == [found |-> FALSE, backup |-> FALSE, inv |-> "none",
                 healthy |-> "Absent"]

Manifests == [child : Children, body : Bodies]
Missing == [child |-> None, body |-> "missing"]  \* no such object or key
Broken == [child |-> None, body |-> "broken"]    \* not a Kubernetes object

ASSUME InputAssumption ==
  /\ Repositories \subseteq {b \in RepositoryType : b.found}
  /\ Bootstrap \in [Bodies -> STRING] /\ Absent \notin Bodies
  /\ None \notin Sources \cup Children /\ Foreign \subseteq Children
  /\ Specs \subseteq [Slots -> Sources \cup {None}] /\ Specs # {}
  /\ MaxEdits \in Nat
  /\ Faults \subseteq {"apply", "patch", "map", "crash"}

VARIABLES
  br,      \* the BR as the API server has it
  refs,    \* spec: the manifest of each slot
  gen,     \* metadata.generation
  source,  \* the content of the manifest sources
  child,   \* the body of each child, Absent if it does not exist
  st,      \* status of the BRC
  queued,  \* the work queue holds the BRC
  timer,   \* a RequeueAfter is pending
  pc, rec, \* the reconcile in progress and its locals
  edits    \* number of changes so far

input == <<br, refs, gen, source, edits>>
vars  == <<input, child, st, queued, timer, pc, rec>>

CondStatus == {"Absent", "True", "False"}
Status == [state : States \cup {None}, decided : Slots \cup {None},
           applied : Children \cup {None}, gen : Nat,
           Found : CondStatus, Source : CondStatus, Parsed : CondStatus,
           Applied : CondStatus, Decided : CondStatus]

(* br: the BR read; refs: the spec read; st: the status to be patched.     *)
IdleRec == [br |-> NoRepository, slot |-> None, ref |-> None,
            manifest |-> Missing, retry |-> FALSE,
            st |-> [state |-> None, decided |-> None, applied |-> None,
                    gen |-> 0, Found |-> "Absent", Source |-> "Absent",
                    Parsed |-> "Absent", Applied |-> "Absent",
                    Decided |-> "Absent"]]

-----------------------------------------------------------------------------
(* The decision                                                            *)

(* Mutant: a repository without a claimed backup counts as empty.          *)
deriveBRStateNoBackup(b) ==
  IF ~b.backup THEN "empty"
  ELSE IF b.healthy = "True" THEN "healthy" ELSE "degraded"

deriveBRState(b) ==
  IF ~b.backup /\ b.inv = "zero" THEN "empty"
  ELSE IF b.healthy = "True" THEN "healthy" ELSE "degraded"

isHealthyUnknown(b) == b.healthy = "Unknown"

slotOf == [healthy |-> "whenHealthy", empty |-> "whenEmpty",
           degraded |-> "whenDegraded"]

pickVariant(sp, state) == sp[slotOf[state]]

(* Mutant: Unknown is treated like any other degraded state.               *)
preservesNothing(b, decided) == FALSE

(* A gap in what is known of the BR, with an earlier decision to keep.     *)
preserves(b, decided) ==
  /\ deriveBRState(b) = "degraded"
  /\ isHealthyUnknown(b)
  /\ decided # None

(* The status every reconcile starts from once the BR was read.            *)
resolved == [st EXCEPT !.gen = gen, !.Found = "True",
                       !.state = deriveBRState(br)]

Take == pc = "idle" /\ queued /\ queued' = FALSE

ReportMissingRepository ==
  /\ Take
  /\ ~br.found
  /\ rec' = [IdleRec EXCEPT
               !.st = [st EXCEPT !.gen = gen, !.Found = "False",
                                 !.Decided = "False"]]
  /\ pc' = "patch"
  /\ UNCHANGED <<input, child, st, timer>>

PreserveDecision ==
  /\ Take
  /\ br.found /\ preserves(br, st.decided)
  /\ rec' = [IdleRec EXCEPT !.br = br, !.retry = TRUE,
                            !.st = [resolved EXCEPT !.Decided = "True"]]
  /\ pc' = "patch"
  /\ UNCHANGED <<input, child, st, timer>>

RefuseState ==
  /\ Take
  /\ br.found /\ ~preserves(br, st.decided)
  /\ pickVariant(refs, deriveBRState(br)) = None
  /\ rec' = [IdleRec EXCEPT !.br = br,
                            !.st = [resolved EXCEPT !.Decided = "False"]]
  /\ pc' = "patch"
  /\ UNCHANGED <<input, child, st, timer>>

(* Mutant: a decision that has not changed is not applied again.           *)
ChooseVariantOnChange ==
  /\ Take
  /\ br.found /\ ~preserves(br, st.decided)
  /\ pickVariant(refs, deriveBRState(br)) # None
  /\ rec' = [IdleRec EXCEPT !.br = br, !.slot = slotOf[deriveBRState(br)],
                            !.ref = pickVariant(refs, deriveBRState(br)),
                            !.st = resolved]
  /\ pc' = IF st.decided = rec'.slot THEN "patch" ELSE "read"
  /\ UNCHANGED <<input, child, st, timer>>

ChooseVariant ==
  /\ Take
  /\ br.found /\ ~preserves(br, st.decided)
  /\ pickVariant(refs, deriveBRState(br)) # None
  /\ rec' = [IdleRec EXCEPT !.br = br, !.slot = slotOf[deriveBRState(br)],
                            !.ref = pickVariant(refs, deriveBRState(br)),
                            !.st = resolved]
  /\ pc' = "read"
  /\ UNCHANGED <<input, child, st, timer>>

-----------------------------------------------------------------------------
(* Materialising it                                                        *)

(* A manifest that is absent, does not parse, or names a child that cannot *)
(* be owned ends the reconcile; the error is only reported.                *)
ReadManifest ==
  LET m == source[rec.ref]
  IN /\ pc = "read"
     /\ \/ /\ m = Missing
           /\ rec' = [rec EXCEPT !.st.Source = "False", !.st.Decided = "False"]
           /\ pc' = "patch"
        \/ /\ m = Broken
           /\ rec' = [rec EXCEPT !.st.Source = "True", !.st.Parsed = "False",
                                 !.st.Decided = "False"]
           /\ pc' = "patch"
        \/ /\ m.child \in Foreign
           /\ rec' = [rec EXCEPT !.st.Source = "True", !.st.Parsed = "True",
                                 !.st.Applied = "False",
                                 !.st.Decided = "False"]
           /\ pc' = "patch"
        \/ /\ m.child \in Children \ Foreign
           /\ rec' = [rec EXCEPT !.st.Source = "True", !.st.Parsed = "True",
                                 !.manifest = m]
           /\ pc' = "apply"
     /\ UNCHANGED <<input, child, st, queued, timer>>

(* The API server refuses to change the immutable part of a child.         *)
immutableConflict(m) ==
  /\ child[m.child] # Absent
  /\ Bootstrap[child[m.child]] # Bootstrap[m.body]

(* Mutant: the state is recorded as the slot.                              *)
ApplyChildRecordsState ==
  /\ pc = "apply"
  /\ ~immutableConflict(rec.manifest)
  /\ child' = [child EXCEPT ![rec.manifest.child] = rec.manifest.body]
  /\ rec' = [rec EXCEPT !.st.decided = rec.st.state,
                        !.st.applied = rec.manifest.child,
                        !.st.Applied = "True", !.st.Decided = "True"]
  /\ pc' = "patch"
  /\ UNCHANGED <<input, st, queued, timer>>

ApplyChild ==
  /\ pc = "apply"
  /\ ~immutableConflict(rec.manifest)
  /\ child' = [child EXCEPT ![rec.manifest.child] = rec.manifest.body]
  /\ rec' = [rec EXCEPT !.st.decided = rec.slot,
                        !.st.applied = rec.manifest.child,
                        !.st.Applied = "True", !.st.Decided = "True"]
  /\ pc' = "patch"
  /\ UNCHANGED <<input, st, queued, timer>>

(* A conflict or any other error: reported, not retried.                   *)
ApplyChildFails ==
  /\ pc = "apply"
  /\ immutableConflict(rec.manifest) \/ "apply" \in Faults
  /\ rec' = [rec EXCEPT !.st.Applied = "False", !.st.Decided = "False"]
  /\ pc' = "patch"
  /\ UNCHANGED <<input, child, st, queued, timer>>

PatchStatus ==
  /\ pc = "patch"
  /\ st' = rec.st
  /\ timer' = (timer \/ rec.retry)
  /\ pc' = "idle" /\ rec' = IdleRec
  /\ UNCHANGED <<input, child, queued>>

(* The one error that is returned, so that the queue retries it.           *)
PatchStatusFails ==
  /\ pc = "patch"
  /\ "patch" \in Faults
  /\ queued' = TRUE
  /\ pc' = "idle" /\ rec' = IdleRec
  /\ UNCHANGED <<input, child, st, timer>>

TimerFires ==
  /\ timer
  /\ timer' = FALSE /\ queued' = TRUE
  /\ UNCHANGED <<input, child, st, pc, rec>>

(* A restart lists every BRC anew.                                         *)
Crash ==
  /\ "crash" \in Faults
  /\ queued' = TRUE /\ timer' = FALSE
  /\ pc' = "idle" /\ rec' = IdleRec
  /\ UNCHANGED <<input, child, st>>

Reconcile ==
  \/ ReportMissingRepository \/ PreserveDecision \/ RefuseState
  \/ ChooseVariant \/ ReadManifest \/ ApplyChild \/ ApplyChildFails
  \/ PatchStatus \/ PatchStatusFails

-----------------------------------------------------------------------------
(* What it watches, and what it does not                                   *)

(* Mutant: the watch has a GenerationChangedPredicate, as that of the BR   *)
(* controller: a status patch passes unnoticed.                            *)
wakesForGeneration == UNCHANGED queued

(* mapBRToConditionals drops the event if its List fails.                  *)
wakesForRepository ==
  \/ queued' = TRUE
  \/ "map" \in Faults /\ UNCHANGED queued

(* Mutant: the loop over the variants forgets whenEmpty.                   *)
wakesForSourceNotEmpty(s) ==
  queued' = (queued \/ \E slot \in Slots \ {"whenEmpty"} : refs[slot] = s)

(* matchesAnyVariantManifestRef: only a source some slot refers to.        *)
wakesForSource(s) == queued' = (queued \/ \E slot \in Slots : refs[slot] = s)

Edit == edits < MaxEdits /\ edits' = edits + 1

ChangeRepository ==
  /\ Edit
  /\ \E b \in Repositories \cup {NoRepository} : b # br /\ br' = b
  /\ wakesForRepository
  /\ UNCHANGED <<refs, gen, source, child, st, timer, pc, rec>>

(* Each probe of the BR controller rewrites status.lastProbedAt.           *)
TouchRepository ==
  /\ br.found
  /\ queued' = TRUE
  /\ UNCHANGED <<input, child, st, timer, pc, rec>>

EditManifest ==
  /\ Edit
  /\ \E s \in Sources, m \in Manifests \cup {Missing, Broken} :
       /\ m # source[s]
       /\ source' = [source EXCEPT ![s] = m]
       /\ wakesForSource(s)
  /\ UNCHANGED <<br, refs, gen, child, st, timer, pc, rec>>

EditSpec ==
  /\ Edit
  /\ \E sp \in Specs : sp # refs /\ refs' = sp
  /\ gen' = gen + 1
  /\ queued' = TRUE
  /\ UNCHANGED <<br, source, child, st, timer, pc, rec>>

(* The child is owned but not watched.                                     *)
DeleteChild ==
  /\ Edit
  /\ \E c \in Children : child[c] # Absent
                         /\ child' = [child EXCEPT ![c] = Absent]
  /\ UNCHANGED <<br, refs, gen, source, st, queued, timer, pc, rec>>

Environment ==
  \/ ChangeRepository \/ TouchRepository \/ EditManifest \/ EditSpec
  \/ DeleteChild \/ TimerFires \/ Crash

Init ==
  /\ br \in Repositories \cup {NoRepository}
  /\ refs \in Specs /\ gen = 1
  /\ source \in [Sources -> Manifests \cup {Missing, Broken}]
  /\ child = [c \in Children |-> Absent]
  /\ st = IdleRec.st
  /\ queued = TRUE /\ timer = FALSE
  /\ pc = "idle" /\ rec = IdleRec
  /\ edits = 0

Next == Reconcile \/ Environment

Spec == Init /\ [][Next]_vars

(* The queue is served and the BR controller keeps probing; an apply that  *)
(* can succeed is not refused for ever, and restarts do not for ever come  *)
(* before the same call.                                                   *)
Fairness ==
  /\ WF_vars(Reconcile) /\ WF_vars(TouchRepository)
  /\ SF_vars(ReadManifest) /\ SF_vars(ApplyChild) /\ SF_vars(PatchStatus)

FairSpec == Spec /\ Fairness
-----------------------------------------------------------------------------
(* Properties                                                              *)

(* Every variable stays in its type.                                       *)
TypeOK ==
  /\ br \in Repositories \cup {NoRepository}
  /\ refs \in Specs /\ gen \in Nat
  /\ source \in [Sources -> Manifests \cup {Missing, Broken}]
  /\ child \in [Children -> Bodies \cup {Absent}]
  /\ st \in Status
  /\ queued \in BOOLEAN /\ timer \in BOOLEAN
  /\ pc \in {"idle", "read", "apply", "patch"}
  /\ rec \in [br : Repositories \cup {NoRepository},
              slot : Slots \cup {None}, ref : Sources \cup {None},
              manifest : Manifests \cup {Missing}, retry : BOOLEAN,
              st : Status]
  /\ edits \in 0..MaxEdits

Settled == pc = "idle" /\ ~queued

(* No wake-up is lost: when the BRC has nothing left to do, its status is  *)
(* about the current spec, the BR as it is now and the manifest as it is   *)
(* now, whatever changed in the middle of a reconcile (the watches of      *)
(* SetupWithManager).  A child it reports as applied has the body of the   *)
(* current manifest, unless somebody deleted it.                           *)
SettledIsCurrent ==
  Settled =>
    /\ st.gen = gen
    /\ st.Found = IF br.found THEN "True" ELSE "False"
    /\ br.found => st.state = deriveBRState(br)
    /\ br.found /\ st.Decided = "True" /\ ~preserves(br, st.decided) =>
         /\ st.decided = slotOf[st.state]
         /\ child[st.applied] \in {source[refs[st.decided]].body, Absent}

(* "Hold the line on the prior decision until the BR reports a definitive  *)
(* state": a reconcile that saw Healthy=Unknown applies a manifest only if *)
(* no decision is on record, be it that there was none or that the patch   *)
(* that should have recorded it failed or was cut off by a restart.        *)
GapKeepsChild ==
  [][child' # child /\ pc = "apply" /\ isHealthyUnknown(rec.br)
     /\ deriveBRState(rec.br) = "degraded"
     => st.decided = None]_vars

Wanted ==
  IF br.found /\ ~preserves(br, st.decided)
     /\ pickVariant(refs, deriveBRState(br)) # None
  THEN source[pickVariant(refs, deriveBRState(br))]
  ELSE Missing

(* Once the inputs stop changing, the child the current state asks for is  *)
(* in place, even if it was deleted or an apply failed, unless its         *)
(* immutable part stands in the way.                                       *)
Converges ==
  <>[](LET m == Wanted
       IN m.child \in Children \ Foreign /\ ~immutableConflict(m)
          => child[m.child] = m.body)
=============================================================================
