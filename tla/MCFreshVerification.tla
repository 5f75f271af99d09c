------------------------- MODULE MCFreshVerification -------------------------
(* Fresh runs about one candidate, and a call of the wrapper by hand. *)
EXTENDS FreshVerification, TLC

CasesOfRuns == {CaseId(k, r) : k \in Candidates, r \in RunIds}
\* Two fresh runs; a fresh run and a call by hand.
Pairs == {Verifiers} \cup {{v, h} : v \in Verifiers, h \in Hands}

ByHand == {Hands}

Symmetry == Permutations(Verifiers) \cup Permutations(RunIds)
=============================================================================
