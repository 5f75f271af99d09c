-------------------------- MODULE VerificationFacts --------------------------
(***************************************************************************)
(* blocked_verification.py: what is read out of the documents of a         *)
(* workspace about verification that could not be finished.  Each document *)
(* says something of an identity (a case, a candidate, the verdict file,   *)
(* the workspace); what is said later overrides what was said before:      *)
(* result files first, verdict files next, and the journal last.  The      *)
(* ledger, which the gate derives from these facts, is in CompletionGate.  *)
(***************************************************************************)
EXTENDS Naturals, FiniteSets, Sequences

CONSTANTS Cases,    \* identities of verification cases
          NoCase,   \* an event that names no case
          None

ASSUME FactsAssumption == NoCase \notin Cases

\* A record of the journal as far as it matters here; `by` is a history variable: who wrote it.
Event(name, case, status, by) == [name |-> name, case |-> case, status |-> status, by |-> by]

Status(log) == log[Len(log)].status

\* The records that say how a case ended: a block, or a completed or rejected case.
Outcomes(log, c) ==
  {i \in DOMAIN log : /\ log[i].case = c
                      /\ \/ log[i].status = "blocked"
                         \/ log[i].name \in {"completed", "rejected"}}

\* The last record about the case decides, whenever its result file was written; the file counts
\* if there is no such record and it says that its event is not in the journal.
CaseBlocked(log, results, c) ==
  IF Outcomes(log, c) = {}
  THEN results[c] # None /\ results[c].wrapper = "uncommitted"
  ELSE log[CHOOSE i \in Outcomes(log, c) : \A j \in Outcomes(log, c) : j <= i].status = "blocked"

\* A block that names no case is a fact of its own.
WorkspaceBlocked(log) == \E i \in DOMAIN log : log[i].case = NoCase /\ log[i].status = "blocked"

\* detect_blocked_verification, with the verdict files that hold nothing.
VerificationBlocked(log, results, emptyVerdicts) ==
  \/ \E c \in Cases : CaseBlocked(log, results, c)
  \/ WorkspaceBlocked(log)
  \/ emptyVerdicts # {}
=============================================================================
