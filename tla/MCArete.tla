------------------------------- MODULE MCArete -------------------------------
(* Values for the constants of Arete.                                      *)
EXTENDS Arete

MCInterval == [E2 |-> 9, E3 |-> 9, E4 |-> 9]
MCDeadline == [E2 |-> 1, E3 |-> 1, E4 |-> 1]
MCSpecs == {[e3 |-> FALSE, objs |-> FALSE, e4 |-> FALSE, pvc |-> FALSE,
             budget |-> FALSE]}
MCProbes == [reach : BOOLEAN, sec : BOOLEAN, last : 0..MaxTime, inv : Inventories]

\* initdb and recovery differ in the immutable part
MCBootstrap == [b \in Bodies |-> b]
MCContents == [a |-> [child |-> "db", body |-> "recovery"],
               b |-> [child |-> "db", body |-> "initdb"]]
MCDecisions == {[whenHealthy |-> "a", whenEmpty |-> "b", whenDegraded |-> "none"]}
=============================================================================
