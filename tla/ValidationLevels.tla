-------------------------- MODULE ValidationLevels --------------------------
(***************************************************************************)
(* What the validation levels (E2, E3, E4) of a BackupRepository promise   *)
(* whoever reads its status, with the reconciler, its steps and its        *)
(* failures left out: runs of a level follow one another, a run that ends  *)
(* produces one result, and what is published is a result that was         *)
(* produced, newer than the one published before.  Results get lost; a     *)
(* published verdict is withdrawn only where a level can be switched off.  *)
(***************************************************************************)
EXTENDS Naturals

CONSTANTS
  Levels,
  Withdrawable  \* the levels that may stop showing their verdict

VARIABLES
  running,  \* per level: a run is under way
  results,  \* per level: results of ended runs that may still be published
  shown,    \* per level: the published verdict, "none" if there is none
  at        \* per level: the time published with it, 0 if there is none

vars == <<running, results, shown, at>>

Result == [v : {"True", "False"}, at : Nat \ {0}]

Init ==
  /\ running = [l \in Levels |-> FALSE]
  /\ results = [l \in Levels |-> {}]
  /\ shown = [l \in Levels |-> "none"]
  /\ at = [l \in Levels |-> 0]

Keeps(l) == shown'[l] = shown[l] /\ at'[l] = at[l]

Start(l) ==
  /\ ~running[l] /\ running'[l]
  /\ results'[l] = results[l]
  /\ Keeps(l)

Finish(l) ==
  /\ running[l] /\ ~running'[l]
  /\ \E r \in results'[l] :
       r \in Result /\ results'[l] = results[l] \cup {r}
  /\ Keeps(l)

(* The record of a run is deleted, or what was read of it is dropped; or   *)
(* nothing happens at all.                                                 *)
Lose(l) ==
  /\ running'[l] = running[l]
  /\ results'[l] \subseteq results[l]
  /\ Keeps(l)

(* A result without figures is shown, but does not count as the last run.  *)
Publish(l) ==
  /\ running'[l] = running[l]
  /\ results'[l] \subseteq results[l]
  /\ \E r \in results[l] : /\ r.at > at[l]
                           /\ shown'[l] = r.v
                           /\ at'[l] \in {r.at, at[l]}

Withdraw(l) ==
  /\ l \in Withdrawable
  /\ running'[l] = running[l]
  /\ results'[l] \subseteq results[l]
  /\ shown'[l] = "none"
  /\ at'[l] \in {at[l], 0} \cup {r.at : r \in results[l]}

(* One patch of the status publishes all levels at once.                   *)
Next ==
  \A l \in Levels :
    Lose(l) \/ Start(l) \/ Finish(l) \/ Publish(l) \/ Withdraw(l)

Spec == Init /\ [][Next]_vars
=============================================================================
