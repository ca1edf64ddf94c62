----------------- MODULE BackupRepositoryConditionalProofs -----------------
(***************************************************************************)
(* Proofs about BackupRepositoryConditional, for all values of its         *)
(* constants:                                                              *)
(*   TypeCorrect     every reachable state is well typed;                  *)
(*   NoLostWakeUp    a BRC with nothing left to do is up to date;          *)
(*   LineIsHeld      a gap in what is known of the BR changes no child on  *)
(*                   whose manifest a decision is on record.               *)
(* The first two rest on inductive invariants of their own (TypeOK,        *)
(* Current), the third on Undecided.                                       *)
(***************************************************************************)
EXTENDS BackupRepositoryConditional, TLAPS

-----------------------------------------------------------------------------
(* The decision                                                            *)

(* Every BR has one of the three states, and each state a slot.            *)
LEMMA StateHasSlot ==
  ASSUME NEW b
  PROVE  /\ deriveBRState(b) \in States
         /\ slotOf[deriveBRState(b)] \in Slots
BY DEF deriveBRState, States, slotOf, Slots

(* The reference of a variant is a source, or nothing.                     *)
LEMMA VariantType ==
  ASSUME refs \in Specs, NEW state \in States
  PROVE  pickVariant(refs, state) \in Sources \cup {None}
<1>1. slotOf[state] \in Slots
  BY DEF States, slotOf, Slots
<1> QED
  BY <1>1, InputAssumption DEF pickVariant

-----------------------------------------------------------------------------
(* Types                                                                   *)

RecType ==
  [br : Repositories \cup {NoRepository},
   slot : Slots \cup {None}, ref : Sources \cup {None},
   manifest : Manifests \cup {Missing}, retry : BOOLEAN, st : Status]

(* The locals a reconcile starts with are well typed.                      *)
LEMMA IdleRecType == IdleRec \in RecType
BY DEF IdleRec, RecType, Status, CondStatus, Missing, NoRepository, None

(* The status every reconcile starts from is well typed.                   *)
LEMMA ResolvedType ==
  ASSUME TypeOK
  PROVE  resolved \in Status
BY StateHasSlot DEF resolved, TypeOK, Status, CondStatus

(* A reconcile that only goes on with its status keeps its locals.         *)
LEMMA StatusOfRec ==
  ASSUME NEW r \in RecType, NEW s \in Status
  PROVE  /\ [r EXCEPT !.st = s] \in RecType
         /\ [r EXCEPT !.st = s].st = s
BY DEF RecType

(* What a reconcile reads is there when it is used.                        *)
TypeInv ==
  /\ TypeOK
  /\ pc = "read" => rec.ref \in Sources
  /\ pc = "apply" => rec.manifest \in Manifests

(* A manifest that names a child is a proper one.                          *)
LEMMA ManifestType ==
  ASSUME TypeInv, pc = "read"
  PROVE  LET m == source[rec.ref]
         IN /\ m \in Manifests \cup {Missing, Broken}
            /\ m.child \in Children => m \in Manifests
<1>1. source[rec.ref] \in Manifests \cup {Missing, Broken}
  BY DEF TypeInv, TypeOK
<1>2. Missing.child \notin Children /\ Broken.child \notin Children
  BY InputAssumption DEF Missing, Broken
<1> QED
  BY <1>1, <1>2

(* The step that reads the manifest keeps the locals well typed, and goes  *)
(* on with the manifest it has read or gives up the decision.              *)
LEMMA ManifestRead ==
  ASSUME TypeInv, ReadManifest
  PROVE  /\ rec' \in RecType
         /\ rec'.br = rec.br /\ rec'.slot = rec.slot /\ rec'.ref = rec.ref
         /\ rec'.st.gen = rec.st.gen /\ rec'.st.Found = rec.st.Found
         /\ rec'.st.state = rec.st.state
         /\ \/ pc' = "patch" /\ rec'.st.Decided = "False"
            \/ /\ pc' = "apply" /\ rec'.manifest \in Manifests
               /\ rec'.manifest = source[rec.ref]
<1> DEFINE m == source[rec.ref]
<1>1. rec \in RecType /\ rec.st \in Status
  BY DEF TypeInv, TypeOK, RecType
<1>2. ASSUME NEW s \in Status, rec' = [rec EXCEPT !.st = s]
      PROVE  /\ rec' \in RecType /\ rec'.st = s
             /\ rec'.br = rec.br /\ rec'.slot = rec.slot /\ rec'.ref = rec.ref
  BY <1>1, <1>2 DEF RecType
<1>3. CASE /\ rec' = [rec EXCEPT !.st.Source = "False", !.st.Decided = "False"]
           /\ pc' = "patch"
  <2> DEFINE s == [rec.st EXCEPT !.Source = "False", !.Decided = "False"]
  <2>1. /\ s \in Status
        /\ s.gen = rec.st.gen /\ s.Found = rec.st.Found
        /\ s.state = rec.st.state /\ s.Decided = "False"
    BY <1>1 DEF Status, CondStatus
  <2>2. rec' = [rec EXCEPT !.st = s]
    BY <1>1, <1>3 DEF RecType, Status
  <2> HIDE DEF s
  <2> QED
    BY <1>2, <1>3, <2>1, <2>2
<1>4. CASE /\ rec' = [rec EXCEPT !.st.Source = "True", !.st.Parsed = "False",
                                !.st.Decided = "False"]
           /\ pc' = "patch"
  <2> DEFINE s == [rec.st EXCEPT !.Source = "True", !.Parsed = "False",
                                 !.Decided = "False"]
  <2>1. /\ s \in Status
        /\ s.gen = rec.st.gen /\ s.Found = rec.st.Found
        /\ s.state = rec.st.state /\ s.Decided = "False"
    BY <1>1 DEF Status, CondStatus
  <2>2. rec' = [rec EXCEPT !.st = s]
    BY <1>1, <1>4 DEF RecType, Status
  <2> HIDE DEF s
  <2> QED
    BY <1>2, <1>4, <2>1, <2>2
<1>5. CASE /\ rec' = [rec EXCEPT !.st.Source = "True", !.st.Parsed = "True",
                                !.st.Applied = "False", !.st.Decided = "False"]
           /\ pc' = "patch"
  <2> DEFINE s == [rec.st EXCEPT !.Source = "True", !.Parsed = "True",
                                 !.Applied = "False", !.Decided = "False"]
  <2>1. /\ s \in Status
        /\ s.gen = rec.st.gen /\ s.Found = rec.st.Found
        /\ s.state = rec.st.state /\ s.Decided = "False"
    BY <1>1 DEF Status, CondStatus
  <2>2. rec' = [rec EXCEPT !.st = s]
    BY <1>1, <1>5 DEF RecType, Status
  <2> HIDE DEF s
  <2> QED
    BY <1>2, <1>5, <2>1, <2>2
<1>6. CASE /\ m.child \in Children \ Foreign
           /\ rec' = [rec EXCEPT !.st.Source = "True", !.st.Parsed = "True",
                                 !.manifest = m]
           /\ pc' = "apply"
  <2>1. m \in Manifests
    BY <1>6, ManifestType DEF ReadManifest
  <2> DEFINE s == [rec.st EXCEPT !.Source = "True", !.Parsed = "True"]
  <2>2. /\ s \in Status
        /\ s.gen = rec.st.gen /\ s.Found = rec.st.Found /\ s.state = rec.st.state
    BY <1>1 DEF Status, CondStatus
  <2>3. rec' = [rec EXCEPT !.st = s, !.manifest = m]
    BY <1>1, <1>6 DEF RecType, Status
  <2> HIDE DEF s, m
  <2>4. /\ rec' \in RecType /\ rec'.st = s /\ rec'.manifest = m
        /\ rec'.br = rec.br /\ rec'.slot = rec.slot /\ rec'.ref = rec.ref
    BY <1>1, <2>1, <2>2, <2>3 DEF RecType
  <2> QED
    BY <1>6, <2>1, <2>2, <2>4 DEF m
<1> QED
  BY <1>3, <1>4, <1>5, <1>6 DEF ReadManifest

(* A step of the environment keeps the types.                              *)
LEMMA EnvironmentType ==
  ASSUME TypeInv, Environment
  PROVE  TypeInv'
<1> USE InputAssumption DEF TypeInv, TypeOK, input
<1>1. CASE ChangeRepository
  <2>1. queued' \in BOOLEAN
    BY <1>1 DEF ChangeRepository, wakesForRepository
  <2> QED
    BY <1>1, <2>1 DEF ChangeRepository, Edit
<1>2. CASE TouchRepository
  BY <1>2 DEF TouchRepository
<1>3. CASE EditManifest
  BY <1>3 DEF EditManifest, Edit, wakesForSource
<1>4. CASE EditSpec
  BY <1>4 DEF EditSpec, Edit
<1>5. CASE DeleteChild
  BY <1>5 DEF DeleteChild, Edit
<1>6. CASE TimerFires
  BY <1>6 DEF TimerFires
<1>7. CASE Crash
  BY <1>7, IdleRecType DEF Crash, RecType
<1> QED
  BY <1>1, <1>2, <1>3, <1>4, <1>5, <1>6, <1>7 DEF Environment

(* A step of the reconciler keeps the types.                               *)
LEMMA ReconcileType ==
  ASSUME TypeInv, Reconcile
  PROVE  TypeInv'
<1> USE DEF TypeInv, TypeOK, input, Take
<1>0. rec \in RecType /\ rec.st \in Status /\ resolved \in Status
      /\ IdleRec \in RecType
  BY ResolvedType, IdleRecType DEF RecType
<1>1. CASE ReportMissingRepository
  <2>1. [st EXCEPT !.gen = gen, !.Found = "False", !.Decided = "False"] \in Status
    BY DEF Status, CondStatus
  <2>2. rec' \in RecType
    BY <1>0, <1>1, <2>1 DEF ReportMissingRepository, RecType
  <2> QED
    BY <1>1, <2>2 DEF ReportMissingRepository, RecType
<1>2. CASE PreserveDecision
  <2>1. [resolved EXCEPT !.Decided = "True"] \in Status
    BY <1>0 DEF Status, CondStatus
  <2>2. rec' \in RecType
    BY <1>0, <1>2, <2>1 DEF PreserveDecision, RecType
  <2> QED
    BY <1>2, <2>2 DEF PreserveDecision, RecType
<1>3. CASE RefuseState
  <2>1. [resolved EXCEPT !.Decided = "False"] \in Status
    BY <1>0 DEF Status, CondStatus
  <2>2. rec' \in RecType
    BY <1>0, <1>3, <2>1 DEF RefuseState, RecType
  <2> QED
    BY <1>3, <2>2 DEF RefuseState, RecType
<1>4. CASE ChooseVariant
  <2>1. /\ slotOf[deriveBRState(br)] \in Slots
        /\ pickVariant(refs, deriveBRState(br)) \in Sources
    BY <1>4, StateHasSlot, VariantType DEF ChooseVariant
  <2>2. rec' \in RecType /\ rec'.ref = pickVariant(refs, deriveBRState(br))
    BY <1>0, <1>4, <2>1 DEF ChooseVariant, RecType
  <2> QED
    BY <1>4, <2>1, <2>2 DEF ChooseVariant, RecType
<1>5. CASE ReadManifest
  BY <1>5, ManifestRead DEF ReadManifest, RecType
<1>6. CASE ApplyChild
  <2>1. rec.manifest.child \in Children /\ rec.manifest.body \in Bodies
        /\ rec.slot \in Slots \cup {None}
    BY <1>0, <1>6 DEF ApplyChild, Manifests, RecType
  <2> DEFINE s == [rec.st EXCEPT !.decided = rec.slot,
                                 !.applied = rec.manifest.child,
                                 !.Applied = "True", !.Decided = "True"]
  <2>4. s \in Status
    BY <1>0, <2>1 DEF Status, CondStatus
  <2>5. rec' = [rec EXCEPT !.st = s]
    BY <1>0, <1>6 DEF ApplyChild, RecType, Status
  <2>2. rec' \in RecType
    BY <1>0, <2>4, <2>5, StatusOfRec
  <2>3. child' \in [Children -> Bodies \cup {Absent}]
    BY <1>6, <2>1 DEF ApplyChild
  <2> QED
    BY <1>6, <2>2, <2>3 DEF ApplyChild, RecType
<1>7. CASE ApplyChildFails
  <2> DEFINE s == [rec.st EXCEPT !.Applied = "False", !.Decided = "False"]
  <2>2. s \in Status
    BY <1>0 DEF Status, CondStatus
  <2>3. rec' = [rec EXCEPT !.st = s]
    BY <1>0, <1>7 DEF ApplyChildFails, RecType, Status
  <2>1. rec' \in RecType
    BY <1>0, <2>2, <2>3, StatusOfRec
  <2> QED
    BY <1>7, <2>1 DEF ApplyChildFails, RecType
<1>8. CASE PatchStatus
  BY <1>0, <1>8 DEF PatchStatus, RecType
<1>9. CASE PatchStatusFails
  BY <1>0, <1>9 DEF PatchStatusFails, RecType
<1> QED
  BY <1>1, <1>2, <1>3, <1>4, <1>5, <1>6, <1>7, <1>8, <1>9 DEF Reconcile

(* The types hold in every reachable state, and what was read is there.    *)
LEMMA TypeInvariant == Spec => []TypeInv
<1>1. Init => TypeInv
  <2> SUFFICES ASSUME Init PROVE TypeInv
    OBVIOUS
  <2>1. rec \in RecType /\ st \in Status
    BY IdleRecType DEF Init, RecType
  <2>2. edits \in 0..MaxEdits /\ gen \in Nat
    BY InputAssumption DEF Init
  <2>3. child \in [Children -> Bodies \cup {Absent}]
    BY DEF Init
  <2> QED
    BY <2>1, <2>2, <2>3 DEF Init, TypeInv, TypeOK, RecType
<1>2. TypeInv /\ [Next]_vars => TypeInv'
  <2>1. TypeInv /\ UNCHANGED vars => TypeInv'
    BY DEF TypeInv, TypeOK, vars, input
  <2> QED
    BY <2>1, EnvironmentType, ReconcileType DEF Next
<1> QED
  BY <1>1, <1>2, PTL DEF Spec

(* Every reachable state of a BRC and its reconciler is well typed.        *)
THEOREM TypeCorrect == Spec => []TypeOK
<1>1. TypeInv => TypeOK
  BY DEF TypeInv
<1> QED
  BY <1>1, TypeInvariant, PTL

-----------------------------------------------------------------------------
(* No wake-up is lost.  While no event is waiting in the queue, what the   *)
(* reconcile in progress has read is what the API server has: every change *)
(* of it would have queued the BRC.                                        *)

(* The status s is about the inputs as they are now.                       *)
UpToDate(s) ==
  /\ s.gen = gen
  /\ s.Found = IF br.found THEN "True" ELSE "False"
  /\ br.found => s.state = deriveBRState(br)

(* What s says of a decision is so, unless it is one preserved in a gap.   *)
Decision(s) ==
  br.found /\ s.Decided = "True" /\ ~preserves(br, s.decided) =>
    /\ s.decided = slotOf[s.state]
    /\ refs[s.decided] \in Sources /\ s.applied \in Children
    /\ child[s.applied] \in {source[refs[s.decided]].body, Absent}

Current ==
  ~queued =>
    /\ pc = "idle" => UpToDate(st) /\ Decision(st)
    /\ pc # "idle" => UpToDate(rec.st)
    /\ pc \in {"read", "apply"} =>
         /\ br.found
         /\ rec.slot = slotOf[deriveBRState(br)]
         /\ rec.ref = refs[rec.slot] /\ rec.ref \in Sources
    /\ pc = "apply" => rec.manifest = source[rec.ref]
    /\ pc = "patch" => Decision(rec.st)

(* A change of a manifest that no slot refers to leaves what is current.   *)
LEMMA ManifestWakes ==
  ASSUME TypeInv, Current, EditManifest
  PROVE  Current'
<1> SUFFICES ASSUME ~queued' PROVE Current'
  BY DEF Current
<1>1. PICK s \in Sources, m \in Manifests \cup {Missing, Broken} :
        /\ source' = [source EXCEPT ![s] = m]
        /\ queued' = (queued \/ \E slot \in Slots : refs[slot] = s)
  BY DEF EditManifest, wakesForSource
<1>2. ~queued /\ \A slot \in Slots : refs[slot] # s
  BY <1>1
<1>3. /\ br' = br /\ refs' = refs /\ gen' = gen /\ child' = child
      /\ st' = st /\ pc' = pc /\ rec' = rec
  BY DEF EditManifest
<1>4. \A slot \in Slots : refs[slot] \in Sources =>
        source'[refs[slot]] = source[refs[slot]]
  BY <1>1, <1>2 DEF TypeInv, TypeOK
<1>5. (UpToDate(st) => UpToDate(st)') /\ (UpToDate(rec.st) => UpToDate(rec.st)')
  BY <1>3 DEF UpToDate
<1>6. ASSUME NEW x \in Status, UpToDate(x), Decision(x)
      PROVE  br.found /\ x.Decided = "True" /\ ~preserves(br, x.decided) =>
               /\ x.decided = slotOf[x.state]
               /\ refs[x.decided] \in Sources /\ x.applied \in Children
               /\ child[x.applied] \in {source'[refs[x.decided]].body, Absent}
  BY <1>4, <1>6, StateHasSlot DEF UpToDate, Decision
<1>7. st \in Status /\ rec.st \in Status
  BY DEF TypeInv, TypeOK
<1>8. /\ UpToDate(st) /\ Decision(st) => Decision(st)'
      /\ UpToDate(rec.st) /\ Decision(rec.st) => Decision(rec.st)'
  BY <1>3, <1>6, <1>7 DEF Decision
<1>9. pc = "apply" => rec.manifest' = source'[rec.ref]
  BY <1>2, <1>3, <1>4, StateHasSlot DEF Current
<1> QED
  BY <1>2, <1>3, <1>5, <1>8, <1>9 DEF Current

(* A step of the environment that changes an input queues the BRC.         *)
LEMMA EnvironmentWakes ==
  ASSUME "map" \notin Faults, TypeInv, Current, Environment
  PROVE  Current'
<1> USE DEF input
<1>1. CASE queued'
  BY <1>1 DEF Current
<1>2. CASE ChangeRepository \/ TouchRepository \/ EditSpec \/ TimerFires \/ Crash
  BY <1>1, <1>2 DEF ChangeRepository, wakesForRepository, TouchRepository,
                    EditSpec, TimerFires, Crash
<1>3. CASE EditManifest
  BY <1>3, ManifestWakes
<1>4. CASE DeleteChild
  <2>1. PICK c \in Children : child' = [child EXCEPT ![c] = Absent]
    BY <1>4 DEF DeleteChild
  <2>2. UNCHANGED <<br, refs, gen, source, st, queued, pc, rec>>
    BY <1>4 DEF DeleteChild
  <2>3. \A x \in Children : child'[x] \in {child[x], Absent}
    BY <2>1 DEF TypeInv, TypeOK
  <2>4. (UpToDate(st) => UpToDate(st)') /\ (UpToDate(rec.st) => UpToDate(rec.st)')
    BY <2>2 DEF UpToDate
  <2>5. (Decision(st) => Decision(st)') /\ (Decision(rec.st) => Decision(rec.st)')
    BY <2>2, <2>3 DEF Decision
  <2> QED
    BY <2>2, <2>4, <2>5 DEF Current
<1> QED
  BY <1>2, <1>3, <1>4 DEF Environment

(* A step of the reconciler hands on what is current.                      *)
LEMMA ReconcileIsCurrent ==
  ASSUME TypeInv, Current, Reconcile
  PROVE  Current'
<1> SUFFICES ASSUME ~queued' PROVE Current'
  BY DEF Current
<1> USE DEF input, Take
<1>0. /\ rec \in RecType /\ rec.st \in Status /\ resolved \in Status
      /\ st \in Status /\ IdleRec \in RecType
  BY ResolvedType, IdleRecType DEF RecType, TypeInv, TypeOK
<1>1. CASE ReportMissingRepository
  <2>1. rec'.st = [st EXCEPT !.gen = gen, !.Found = "False", !.Decided = "False"]
    BY <1>0, <1>1 DEF ReportMissingRepository, RecType
  <2>2. rec'.st.gen = gen /\ rec'.st.Found = "False"
    BY <1>0, <2>1 DEF Status
  <2>3. UpToDate(rec.st)' /\ Decision(rec.st)'
    BY <1>1, <2>2 DEF ReportMissingRepository, UpToDate, Decision
  <2> QED
    BY <1>1, <2>3 DEF ReportMissingRepository, Current
<1>a. /\ resolved.gen = gen /\ resolved.Found = "True"
      /\ resolved.state = deriveBRState(br) /\ resolved.decided = st.decided
  BY <1>0 DEF resolved, Status
<1>2. CASE PreserveDecision
  <2>1. rec'.st = [resolved EXCEPT !.Decided = "True"]
    BY <1>0, <1>2 DEF PreserveDecision, RecType
  <2>2. /\ rec'.st.gen = gen /\ rec'.st.Found = "True"
        /\ rec'.st.state = deriveBRState(br) /\ rec'.st.decided = st.decided
    BY <1>0, <1>a, <2>1 DEF Status
  <2>3. UpToDate(rec.st)' /\ Decision(rec.st)'
    BY <1>2, <2>2 DEF PreserveDecision, UpToDate, Decision
  <2> QED
    BY <1>2, <2>3 DEF PreserveDecision, Current
<1>3. CASE RefuseState
  <2>1. rec'.st = [resolved EXCEPT !.Decided = "False"]
    BY <1>0, <1>3 DEF RefuseState, RecType
  <2>2. /\ rec'.st.gen = gen /\ rec'.st.Found = "True"
        /\ rec'.st.state = deriveBRState(br) /\ rec'.st.Decided = "False"
    BY <1>0, <1>a, <2>1 DEF Status
  <2>3. UpToDate(rec.st)' /\ Decision(rec.st)'
    BY <1>3, <2>2 DEF RefuseState, UpToDate, Decision
  <2> QED
    BY <1>3, <2>3 DEF RefuseState, Current
<1>4. CASE ChooseVariant
  <2>1. /\ rec'.st = resolved /\ rec'.slot = slotOf[deriveBRState(br)]
        /\ rec'.ref = pickVariant(refs, deriveBRState(br))
    BY <1>0, <1>4 DEF ChooseVariant, RecType
  <2>2. rec'.ref \in Sources /\ rec'.ref = refs[rec'.slot]
    BY <1>4, <2>1, StateHasSlot, VariantType
    DEF ChooseVariant, pickVariant, TypeInv, TypeOK
  <2>3. UpToDate(rec.st)'
    BY <1>4, <1>a, <2>1 DEF ChooseVariant, UpToDate
  <2> QED
    BY <1>4, <2>1, <2>2, <2>3 DEF ChooseVariant, Current
<1>5. CASE ReadManifest
  <2>1. /\ UpToDate(rec.st) /\ br.found
        /\ rec.slot = slotOf[deriveBRState(br)]
        /\ rec.ref = refs[rec.slot] /\ rec.ref \in Sources
    BY <1>5 DEF ReadManifest, Current
  <2>2. UNCHANGED <<br, refs, gen, source, child>>
    BY <1>5 DEF ReadManifest
  <2>3. UpToDate(rec.st)'
    BY <1>5, <2>1, <2>2, ManifestRead DEF UpToDate
  <2>4. pc' = "patch" => Decision(rec.st)'
    BY <1>5, ManifestRead DEF Decision
  <2>5. rec'.slot = slotOf[deriveBRState(br')] /\ rec'.ref = refs'[rec'.slot]
        /\ rec'.ref \in Sources /\ (pc' = "apply" => rec'.manifest = source'[rec'.ref])
    BY <1>5, <2>1, <2>2, ManifestRead
  <2>6. pc' \in {"apply", "patch"}
    BY <1>5, ManifestRead
  <2> QED
    BY <2>1, <2>2, <2>3, <2>4, <2>5, <2>6 DEF Current
<1>b. ASSUME pc = "apply", UNCHANGED <<br, refs, gen, source, queued>>,
             NEW s \in Status, rec' = [rec EXCEPT !.st = s], pc' = "patch",
             s.gen = rec.st.gen, s.Found = rec.st.Found,
             s.state = rec.st.state,
             \/ s.Decided = "False"
             \/ /\ s.decided = rec.slot /\ s.applied = rec.manifest.child
                /\ child'[rec.manifest.child] = rec.manifest.body
      PROVE  Current'
  <2>1. rec'.st = s
    BY <1>0, <1>b DEF RecType
  <2>2. /\ UpToDate(rec.st) /\ br.found
        /\ rec.slot = slotOf[deriveBRState(br)]
        /\ rec.ref = refs[rec.slot] /\ rec.ref \in Sources
        /\ rec.manifest = source[rec.ref] /\ rec.manifest.child \in Children
    BY <1>b DEF Current, TypeInv, Manifests
  <2>3. UpToDate(rec.st)'
    BY <1>b, <2>1, <2>2 DEF UpToDate
  <2>4. Decision(rec.st)'
    BY <1>b, <2>1, <2>2 DEF Decision, UpToDate
  <2> QED
    BY <1>b, <2>3, <2>4 DEF Current
<1>6. CASE ApplyChild
  <2> DEFINE s == [rec.st EXCEPT !.decided = rec.slot,
                                 !.applied = rec.manifest.child,
                                 !.Applied = "True", !.Decided = "True"]
  <2>1. rec.manifest.child \in Children /\ rec.slot \in Slots \cup {None}
    BY <1>0, <1>6 DEF ApplyChild, TypeInv, Manifests, RecType
  <2>2. /\ s \in Status /\ s.decided = rec.slot
        /\ s.applied = rec.manifest.child
        /\ s.gen = rec.st.gen /\ s.Found = rec.st.Found
        /\ s.state = rec.st.state
    BY <1>0, <2>1 DEF Status, CondStatus
  <2>3. rec' = [rec EXCEPT !.st = s]
    BY <1>0, <1>6 DEF ApplyChild, RecType, Status
  <2>4. child'[rec.manifest.child] = rec.manifest.body
    BY <1>6, <2>1 DEF ApplyChild, TypeInv, TypeOK
  <2> HIDE DEF s
  <2> QED
    BY <1>6, <1>b, <2>2, <2>3, <2>4 DEF ApplyChild
<1>7. CASE ApplyChildFails
  <2> DEFINE s == [rec.st EXCEPT !.Applied = "False", !.Decided = "False"]
  <2>2. /\ s \in Status /\ s.Decided = "False"
        /\ s.gen = rec.st.gen /\ s.Found = rec.st.Found
        /\ s.state = rec.st.state
    BY <1>0 DEF Status, CondStatus
  <2>3. rec' = [rec EXCEPT !.st = s]
    BY <1>0, <1>7 DEF ApplyChildFails, RecType, Status
  <2> HIDE DEF s
  <2> QED
    BY <1>7, <1>b, <2>2, <2>3 DEF ApplyChildFails
<1>8. CASE PatchStatus
  <2>1. UpToDate(rec.st) /\ Decision(rec.st) /\ st' = rec.st
    BY <1>8 DEF PatchStatus, Current
  <2>2. UpToDate(st)' /\ Decision(st)'
    BY <1>8, <2>1 DEF PatchStatus, UpToDate, Decision
  <2> QED
    BY <1>8, <2>2 DEF PatchStatus, Current
<1>9. CASE PatchStatusFails
  BY <1>9 DEF PatchStatusFails
<1> QED
  BY <1>1, <1>2, <1>3, <1>4, <1>5, <1>6, <1>7, <1>8, <1>9 DEF Reconcile

(* Unless an event of the BR is dropped, which mapBRToConditionals does    *)
(* when its List fails, no wake-up is lost: a BRC at rest reports on the   *)
(* spec, the BR and the manifest as they are, for any manifests, specs and *)
(* statuses of the BR, any number of changes at any point of a reconcile,  *)
(* failing patches and applies, restarts.                                  *)
THEOREM NoLostWakeUp ==
  ASSUME "map" \notin Faults
  PROVE  Spec => []SettledIsCurrent
<1>1. Init => Current
  BY DEF Init, Current
<1>2. TypeInv /\ Current /\ [Next]_vars => Current'
  <2>1. ASSUME Current, UNCHANGED vars PROVE Current'
    <3>1. /\ UNCHANGED <<br, refs, gen, source>>
          /\ UNCHANGED <<child, st, queued, pc, rec>>
      BY <2>1 DEF vars, input
    <3> QED
      BY <2>1, <3>1 DEF Current, UpToDate, Decision
  <2> QED
    BY <2>1, EnvironmentWakes, ReconcileIsCurrent DEF Next
<1>3. Current => SettledIsCurrent
  BY DEF Current, SettledIsCurrent, Settled, UpToDate, Decision
<1> QED
  BY <1>1, <1>2, <1>3, TypeInvariant, PTL DEF Spec

-----------------------------------------------------------------------------
(* Holding the line                                                        *)

(* A reconcile that goes for a manifest saw no decision to be preserved,   *)
(* and the status it saw is still the one on record.                       *)
Undecided ==
  pc \in {"read", "apply"} => ~preserves(rec.br, st.decided)

(* Every step keeps it so: only the last step of a reconcile writes the    *)
(* status, and no other reconcile of the BRC runs beside it.               *)
LEMMA UndecidedPreserved ==
  ASSUME TypeInv, Undecided, [Next]_vars
  PROVE  Undecided'
<1> USE DEF input
<1>1. CASE ChooseVariant
  <2>1. rec'.br = br
    BY <1>1 DEF ChooseVariant, IdleRec
  <2> QED
    BY <1>1, <2>1 DEF ChooseVariant, Undecided
<1>2. CASE ReadManifest
  BY <1>2, ManifestRead DEF ReadManifest, Undecided
<1>3. CASE pc' \notin {"read", "apply"}
  BY <1>3 DEF Undecided
<1>4. CASE UNCHANGED <<st, pc, rec>>
  BY <1>4 DEF Undecided
<1>5. CASE ReportMissingRepository \/ PreserveDecision \/ RefuseState
           \/ ApplyChild \/ ApplyChildFails \/ PatchStatus \/ PatchStatusFails
           \/ Crash
  BY <1>3, <1>5 DEF ReportMissingRepository, PreserveDecision, RefuseState,
                    ApplyChild, ApplyChildFails, PatchStatus,
                    PatchStatusFails, Crash
<1>6. CASE ChangeRepository \/ TouchRepository \/ EditManifest \/ EditSpec
           \/ DeleteChild \/ TimerFires \/ UNCHANGED vars
  BY <1>4, <1>6 DEF ChangeRepository, TouchRepository, EditManifest, EditSpec,
                    DeleteChild, TimerFires, vars
<1> QED
  BY <1>1, <1>2, <1>5, <1>6 DEF Next, Reconcile, Environment

(* Whatever changes, fails or restarts, a reconcile that met a gap in what *)
(* is known of the BR leaves the child alone if a decision is on record.   *)
THEOREM LineIsHeld == Spec => GapKeepsChild
<1>1. Init => Undecided
  BY DEF Init, Undecided
<1>2. TypeInv /\ Undecided /\ [Next]_vars => Undecided'
  BY UndecidedPreserved
<1>3. Undecided =>
        [child' # child /\ pc = "apply" /\ isHealthyUnknown(rec.br)
         /\ deriveBRState(rec.br) = "degraded" => st.decided = None]_vars
  BY DEF Undecided, preserves
<1> QED
  BY <1>1, <1>2, <1>3, TypeInvariant, PTL DEF Spec, GapKeepsChild
=============================================================================
