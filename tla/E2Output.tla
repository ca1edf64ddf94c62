------------------------------ MODULE E2Output ------------------------------
(***************************************************************************)
(* How the log of a restic E2 Job becomes status.claimedLatestBackup: a    *)
(* scanner that looks for a JSON array of snapshots among lines that       *)
(* contain brackets of their own.                                          *)
(*                                                                         *)
(* A log is a sequence of tokens: "open" and "close" for the two brackets, *)
(* "quote", "escape" (the backslash), "text" for anything else, and for    *)
(* each snapshot one token that stands for the scalar part of its JSON     *)
(* object.  Text gives the tokens of the whole object, the array of paths  *)
(* included.                                                               *)
(***************************************************************************)
EXTENDS Naturals, SequencesExt

CONSTANTS
  Snapshots,  \* the snapshots a repository may hold
  Taken,      \* per snapshot: its time, 0 if it does not parse
  Text,       \* per snapshot: the tokens of its JSON object
  LogLimit    \* bound of the LimitReader, in tokens

ASSUME OutputAssumption ==
  /\ Taken \in [Snapshots -> Nat]
  /\ Text \in [Snapshots -> Seq(Snapshots \cup
                              {"open", "close", "quote", "escape", "text"})]
  /\ LogLimit \in Nat

NoSnapshot == "none"

(* What restic prints for a list of snapshots, and what json.Unmarshal     *)
(* accepts as one.                                                         *)
Encode(q) ==
  <<"open">> \o FlattenSeq([i \in DOMAIN q |-> Text[q[i]]]) \o <<"close">>

Decodes(body) ==
  {q \in SetToAllKPermutations(Snapshots) : body = Encode(q)}

(* Mutant: brackets inside string literals are counted.                    *)
scanNoStrings(st, i, c) ==
  [st EXCEPT !.depth = IF c = "open" THEN @ + 1
                       ELSE IF c = "close" THEN @ - 1 ELSE @,
             !.end = IF c = "close" /\ st.depth = 1 /\ @ = 0 THEN i ELSE @]

(* One step of the loop of extractBalanced, at position i; end is the      *)
(* position of the matching closer once it is found.                       *)
scan(st, i, c) ==
  IF st.end # 0 THEN st
  ELSE IF st.escaped THEN [st EXCEPT !.escaped = FALSE]
  ELSE IF st.inStr THEN [st EXCEPT !.escaped = (c = "escape"),
                                   !.inStr = (c # "quote")]
  ELSE [st EXCEPT !.inStr = (c = "quote"),
                  !.depth = IF c = "open" THEN @ + 1
                            ELSE IF c = "close" THEN @ - 1 ELSE @,
                  !.end = IF c = "close" /\ st.depth = 1 THEN i ELSE 0]

(* The balanced value that starts at start, <<>> if it is never closed.    *)
extractBalanced(log, start) ==
  LET st == FoldLeftDomain(
              LAMBDA s, i : IF i < start THEN s ELSE scan(s, i, log[i]),
              [depth |-> 0, inStr |-> FALSE, escaped |-> FALSE, end |-> 0],
              log)
  IN IF st.end = 0 THEN <<>> ELSE SubSeq(log, start, st.end)

(* Every opening bracket is tried, the first that decodes wins.            *)
findAndUnmarshalJSON(log) ==
  LET starts == {i \in DOMAIN log : /\ log[i] = "open"
                                    /\ Decodes(extractBalanced(log, i)) # {}}
  IN IF starts = {} THEN {}
     ELSE Decodes(extractBalanced(log, Min(starts)))

(* The loop starts from the last one and moves to a strictly newer one.    *)
latestOf(q) ==
  FoldLeft(LAMBDA s, t : IF Taken[t] > Taken[s] THEN t ELSE s, q[Len(q)], q)

parseResticSnapshotsJSON(log) ==
  LET found == findAndUnmarshalJSON(log)
  IN IF \E q \in found : q # <<>>
     THEN latestOf(CHOOSE q \in found : TRUE) ELSE NoSnapshot

parseE2Output(fmt, log) ==
  IF fmt = "restic" THEN parseResticSnapshotsJSON(log) ELSE NoSnapshot

(* The log is cut at a size limit, at its end.                             *)
readJobOutput(log) ==
  SubSeq(log, 1, IF Len(log) <= LogLimit THEN Len(log) ELSE LogLimit)
=============================================================================
