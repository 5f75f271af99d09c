------------------------- MODULE MCStageFinalization -------------------------
(***************************************************************************)
(* Instances of StageFinalization for TLC: a partial and a complete result *)
(* of one triage batch, and a blocked recon result.                        *)
(***************************************************************************)
EXTENDS StageFinalization, TLC

CONSTANTS p1, p2, m

SomeProcs == {p1, p2}

SomeCodes == <<"blocked_by_a", "blocked_by_b", "gap">>

SomeContexts == {"blocked_by_a", "blocked_by_b", "gap"}

Batch(status, blockers, gaps, unprocessed) ==
  [stage |-> "triage", id |-> "batch", status |-> status, covered |-> TRUE,
   blockers |-> blockers, gaps |-> gaps, unprocessed |-> unprocessed]

BlockedByB == Batch("partial", {"blocked_by_b"}, {"gap"}, {})
Decided == Batch("complete", {}, {}, {})
Explored == [Batch("blocked", {"gap"}, {}, {})
               EXCEPT !.stage = "recon", !.id = "recon"]

ThreeDocuments == {BlockedByB, Decided, Explored}

\* Every result for its own stage, and one for the other stage.
OwnRequests == {[stage |-> d.stage, digest |-> d] : d \in Documents}

MixedRequests == OwnRequests \union {[stage |-> "recon", digest |-> Decided]}

Running(stage) == [stage |-> stage, status |-> "running", ctx |-> None]

EitherRuns == {Running("triage"), Running("recon")}

FewerKinds == {"resume", "reopen", "return"}
=============================================================================
