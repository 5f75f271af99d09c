--------------------------- MODULE MCCompletionGate ---------------------------
(***************************************************************************)
(* Instances of CompletionGate for TLC.                                    *)
(***************************************************************************)
EXTENDS CompletionGate, TLC

CONSTANTS g1, g2, b1, b2

TwoGates == {g1, g2}

TwoBundles == {b1, b2}

Running(stage) == [stage |-> stage, status |-> "running", ctx |-> None]

Packaging == {Running("packaging")}

\* Of one bundle and its confirmed candidate nothing is missing (Ready);
\* a second one has a directory and no verdict yet (Halfway).
Facts(validated, verdicts) ==
  [bundles |-> [b \in Bundles |-> IF b \in validated THEN "validated" ELSE "absent"],
   verdicts |-> verdicts, flaws |-> {}]

Clear == Facts({}, {})
Ready == Facts({b1}, {b1})
Halfway == Facts({b1, b2}, {b1})

EveryStart == {[facts |-> Clear, summary |-> Authored],
               [facts |-> Ready, summary |-> None],
               [facts |-> Halfway, summary |-> None]}

Reopening == {"reopen"}

Symmetry == Permutations(Gates)
=============================================================================
