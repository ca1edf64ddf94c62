----------------------------- MODULE MCValidator -----------------------------
(* Values for the constants of Validator.                                  *)
EXTENDS Validator

MCTaken == [s1 |-> 1, s2 |-> 2]
\* paths with a closing bracket, and with an escaped quote and a bracket
MCText ==
  [s1 |-> <<"s1", "open", "quote", "close", "quote", "close">>,
   s2 |-> <<"s2", "open", "quote", "escape", "quote", "open", "quote", "close">>]
MCDeadline == [E2 |-> 2, E3 |-> 2, E4 |-> 3]
\* a progress line, an unbalanced bracket, and one before an odd quote
MCNoises == {<<"open", "text", "close">>, <<"open">>, <<"open", "quote">>}
=============================================================================
