------------------- MODULE MCBackupRepositoryConditional -------------------
(* Values for the constants of BackupRepositoryConditional.                *)
EXTENDS BackupRepositoryConditional

MCRepository(backup, inv, healthy) ==
  [found |-> TRUE, backup |-> backup, inv |-> inv, healthy |-> healthy]
Fresh    == MCRepository(FALSE, "none", "Unknown")
Empty    == MCRepository(FALSE, "zero", "Unknown")
Healthy  == MCRepository(TRUE, "some", "True")
Gap      == MCRepository(TRUE, "some", "Unknown")
Degraded == MCRepository(TRUE, "some", "False")

FewRepositories == {Fresh, Empty, Healthy, Gap, Degraded}

(* initdb and recovery differ in the immutable part.                       *)
MCBootstrap ==
  [b \in Bodies |-> IF b = "initdb" THEN "initdb" ELSE "recovery"]

MCRefs(h, e, d) == [whenHealthy |-> h, whenEmpty |-> e, whenDegraded |-> d]
AllSlots == {MCRefs("a", "b", None), MCRefs("a", "b", "b")}
=============================================================================
