------------------------- MODULE MCBackupRepository -------------------------
(* Values for the constants of BackupRepository, shared by its runs.       *)
EXTENDS BackupRepository

MCShortInterval == [E2 |-> 2, E3 |-> 2, E4 |-> 2]
\* E2 and E3 run once (or twice), E4 keeps running.
MCE4Interval == [E2 |-> 9, E3 |-> 9, E4 |-> 2]
MCOnceInterval == [E2 |-> 9, E3 |-> 9, E4 |-> 9]
MCDeadline == [E2 |-> 1, E3 |-> 1, E4 |-> 1]

MCSpec(e3, objs, e4, pvc, budget) ==
  [e3 |-> e3, objs |-> objs, e4 |-> e4, pvc |-> pvc, budget |-> budget]

E2Only    == {MCSpec(FALSE, FALSE, FALSE, FALSE, FALSE)}
WithE3    == {MCSpec(TRUE, TRUE, FALSE, FALSE, FALSE)}
E3NoCount == {MCSpec(TRUE, FALSE, FALSE, FALSE, FALSE)}
WithE4    == {MCSpec(FALSE, FALSE, TRUE, TRUE, FALSE)}
ForcedE4  == {MCSpec(FALSE, FALSE, FALSE, TRUE, FALSE)}
NoPVC     == {MCSpec(FALSE, FALSE, TRUE, FALSE, FALSE)}
E4Specs   == WithE4 \cup ForcedE4 \cup NoPVC
E3OrE4 == E3NoCount \cup WithE3 \cup WithE4
Budgeted  == {MCSpec(TRUE, TRUE, FALSE, FALSE, TRUE)}
E3OrBudget == E2Only \cup Budgeted

MCProbe(reach, sec, last, inv) ==
  [reach |-> reach, sec |-> sec, last |-> last, inv |-> inv]
Unreachable == MCProbe(FALSE, FALSE, Nil, "none")
GoodProbe   == {MCProbe(TRUE, TRUE, 1, "small")}
SomeProbes  == {Unreachable, MCProbe(TRUE, TRUE, 1, "small"),
                MCProbe(TRUE, FALSE, Nil, "large")}
=============================================================================
