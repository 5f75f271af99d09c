------------------------ MODULE AuditTransitionPolicy ------------------------
(***************************************************************************)
(* The transition policy of the R2 audit-state protocol,                   *)
(* scripts/audit_transition_policy.py: which events may follow which       *)
(* workflow state.  Every definition here is a constant operator; the      *)
(* modules that own state (TransitionPolicyFSM, AuditStateIO) use them.    *)
(*                                                                         *)
(* A workflow state is [stage, status, ctx].  ctx stands for the pair      *)
(* (blocker, resume_step), which the code checks, copies and clears        *)
(* together: None when both are null, otherwise a context value.  The      *)
(* material of an event (reason_code, details.reason_detail, subjects,     *)
(* evidence_refs, next_actions) is abstracted to one Boolean: whether it   *)
(* satisfies the enhanced requirements of the event's kind.                *)
(***************************************************************************)
EXTENDS Naturals, Sequences

CONSTANTS None,      \* the null of a stage, a status, a context or a kind
          Contexts   \* the blocker / resume_step texts a caller may give

STAGES == {"intake", "recon", "candidate_generation", "triage",
           "verification", "severity_escalation", "variant_discovery",
           "packaging", "finalization", "recording"}

STATUSES == {"running", "paused", "blocked", "completed"}

TRANSITION_KINDS == {"start", "observe", "advance", "pause", "block",
                     "resume", "skip", "return", "reopen", "complete"}

Halted == {"paused", "blocked"}

\* Mutant of FORWARD_STAGE_EDGES: an edge that leaves verification out.
EdgesAroundVerification ==
  [s \in STAGES |->
     CASE s = "intake" -> {"recon"}
       [] s = "recon" -> {"candidate_generation"}
       [] s = "candidate_generation" -> {"triage"}
       [] s = "triage" -> {"verification", "packaging"}
       [] s = "recording" -> {}
       [] s = "finalization" -> {"recording"}
       [] OTHER -> {"packaging", "finalization"} \ {s}]

FORWARD_STAGE_EDGES ==
  [s \in STAGES |->
     CASE s = "intake"               -> {"recon"}
       [] s = "recon"                -> {"candidate_generation"}
       [] s = "candidate_generation" -> {"triage"}
       [] s = "triage"               -> {"verification"}
       [] s = "verification"         -> {"severity_escalation",
                                         "variant_discovery", "packaging",
                                         "finalization"}
       [] s = "severity_escalation"  -> {"variant_discovery", "packaging",
                                         "finalization"}
       [] s = "variant_discovery"    -> {"packaging", "finalization"}
       [] s = "packaging"            -> {"finalization"}
       [] s = "finalization"         -> {"recording"}
       [] s = "recording"            -> {}]

\* Mutant of RETURN_STAGE_EDGES: recording has nowhere to return to.
NoReturnFromRecording ==
  [s \in STAGES |->
     CASE s \in {"intake", "recon", "recording"} -> {}
       [] s = "candidate_generation" -> {"recon"}
       [] s = "triage" -> {"recon", "candidate_generation"}
       [] OTHER -> {"verification"} \ {s}]

RETURN_STAGE_EDGES ==
  [s \in STAGES |->
     CASE s \in {"intake", "recon"}  -> {}
       [] s = "candidate_generation" -> {"recon"}
       [] s = "triage"               -> {"recon", "candidate_generation"}
       [] s = "verification"         -> {"recon", "candidate_generation",
                                         "triage"}
       [] s \in {"severity_escalation", "variant_discovery"}
                                     -> {"verification"}
       [] s = "packaging"            -> {"verification",
                                         "severity_escalation",
                                         "variant_discovery"}
       [] s = "finalization"         -> {"verification",
                                         "severity_escalation",
                                         "variant_discovery", "packaging"}
       [] s = "recording"            -> {"finalization", "packaging"}]

OPTIONAL_STAGES == {"severity_escalation", "variant_discovery", "recording"}

EnhancedKinds == {"resume", "skip", "return", "reopen"}

ASSUME NoneIsNoValue ==
  None \notin Contexts \union STAGES \union STATUSES \union TRANSITION_KINDS

-----------------------------------------------------------------------------
\* States and events the policy speaks of.

TransitionState ==
  [stage : STAGES \union {None}, status : STATUSES \union {None},
   ctx : Contexts \union {None}]

NoState == [stage |-> None, status |-> None, ctx |-> None]

\* Mutant of Target: the kind of the event taken for the status it leads to.
TargetByKind(e) == [stage |-> e.stage, status |-> e.kind, ctx |-> e.ctx]

Target(e) == [stage |-> e.stage, status |-> e.status, ctx |-> e.ctx]

-----------------------------------------------------------------------------
\* The checks of validate_transition, one operator each.

\* The event records exactly the locked current stage and status.
SourceMatches(cur, e) ==
  /\ e.fromStage = cur.stage
  /\ cur.stage = None => e.fromStatus = None
  /\ cur.stage # None => e.fromStatus = cur.status

\* A halted target carries a blocker and a resume step, any other neither.
ContextFits(e) == (e.status \in Halted) <=> (e.ctx # None)

MaterialSuffices(e) == e.kind \in EnhancedKinds => e.material

\* An observation of a halted state keeps the context the state has.  A
\* state derived from a pre-policy record has none to keep.
ObservationKeepsContext(cur, e) ==
  (cur.status \in Halted /\ cur.ctx # None) => e.ctx = cur.ctx

StaysIn(cur, e) == e.stage = cur.stage

\* Mutant of FinalizationDoneFirst: a skip of recording is not checked.
FinalizationDoneFirstUnlessSkip(cur, e) ==
  (cur.stage = "finalization" /\ e.stage = "recording" /\ e.kind # "skip")
    => cur.status = "completed"

FinalizationDoneFirst(cur, e) ==
  (cur.stage = "finalization" /\ e.stage = "recording")
    => cur.status = "completed"

StartAllowed(e) ==
  /\ e.kind = "start"
  /\ e.stage = "intake"
  /\ e.status = "running"

ObserveAllowed(cur, e) ==
  /\ e.kind = "observe"
  /\ StaysIn(cur, e)
  /\ e.status = cur.status
  /\ ObservationKeepsContext(cur, e)

\* pause, block, resume, reopen and complete change the status of one stage.
StatusChanges ==
  [pause    |-> [from |-> {"running"},   to |-> "paused"],
   block    |-> [from |-> {"running"},   to |-> "blocked"],
   resume   |-> [from |-> Halted,        to |-> "running"],
   reopen   |-> [from |-> {"completed"}, to |-> "running"],
   complete |-> [from |-> {"running"},   to |-> "completed"]]

StatusChangeAllowed(cur, e) ==
  /\ e.kind \in DOMAIN StatusChanges
  /\ StaysIn(cur, e)
  /\ cur.status \in StatusChanges[e.kind].from
  /\ e.status = StatusChanges[e.kind].to

AdvanceAllowed(cur, e) ==
  /\ e.kind = "advance"
  /\ cur.status \in {"running", "completed"}
  /\ e.status = "running"
  /\ e.stage \in FORWARD_STAGE_EDGES[cur.stage] \ {cur.stage}
  /\ FinalizationDoneFirst(cur, e)

SkipAllowed(cur, e) ==
  /\ e.kind = "skip"
  /\ e.stage \in OPTIONAL_STAGES
  /\ e.status = "completed"
  /\ \/ /\ StaysIn(cur, e)
        /\ cur.status \in {"running", "paused", "blocked"}
     \/ /\ ~StaysIn(cur, e)
        /\ cur.status \in {"running", "completed"}
        /\ e.stage \in FORWARD_STAGE_EDGES[cur.stage]
  /\ FinalizationDoneFirst(cur, e)

ReturnAllowed(cur, e) ==
  /\ e.kind = "return"
  /\ cur.status = "running"
  /\ e.status = "running"
  /\ e.stage \in RETURN_STAGE_EDGES[cur.stage]

\* validate_transition: the event is legal in the current state.
Allowed(cur, e) ==
  /\ SourceMatches(cur, e)
  /\ ContextFits(e)
  /\ MaterialSuffices(e)
  /\ IF cur.stage = None
     THEN StartAllowed(e)
     ELSE \/ ObserveAllowed(cur, e)
          \/ StatusChangeAllowed(cur, e)
          \/ AdvanceAllowed(cur, e)
          \/ SkipAllowed(cur, e)
          \/ ReturnAllowed(cur, e)

-----------------------------------------------------------------------------
\* validate_transition_sequence.  The journal may begin with R2 records
\* written before the policy (e.policy = FALSE): they are accepted as they
\* are, only as a prefix, and stand for a state without context.

StateAfter(events, n) ==
  IF n = 0 THEN NoState
  ELSE [stage  |-> events[n].stage,
        status |-> events[n].status,
        ctx    |-> IF events[n].policy THEN events[n].ctx ELSE None]

PrePolicyOnlyAsPrefix(events) ==
  \A i, j \in 1..Len(events) :
    (i < j /\ events[i].policy) => events[j].policy

ValidSequence(events) ==
  /\ PrePolicyOnlyAsPrefix(events)
  /\ \A i \in 1..Len(events) :
       events[i].policy => Allowed(StateAfter(events, i - 1), events[i])
=============================================================================
