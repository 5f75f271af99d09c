------------------------ MODULE MCEvidencePublication ------------------------
(***************************************************************************)
(* Instances of EvidencePublication for TLC.                               *)
(***************************************************************************)
EXTENDS EvidencePublication, TLC

CONSTANTS p1, p2, p3

ThreeProcs == {p1, p2, p3}

EnoughInodes == 1..6

\* One update at a time; and updates whose reads interleave, with the
\* identity of what was read as the expected one.
Disciplines ==
  {[serialized |-> "update", passes |-> FALSE, reuses |-> TRUE],
   [serialized |-> "write",  passes |-> TRUE,  reuses |-> FALSE]}

AnyUpdater == Permutations(Procs)
=============================================================================
