------------------------- MODULE TransitionPolicyFSM -------------------------
(***************************************************************************)
(* The workflow that the transition policy permits, seen as a state        *)
(* machine: from the current state any event validate_transition accepts   *)
(* may be recorded.  Two history variables remember what a journal would   *)
(* show: the stages entered so far and whether the current pass of         *)
(* finalization has completed.                                             *)
(***************************************************************************)
EXTENDS AuditTransitionPolicy

VARIABLES cur,       \* TransitionState(stage, status, blocker, resume_step)
          visited,   \* history: the stages entered so far
          finalized  \* history: finalization completed and not left since
                     \* to a stage other than recording

workflowVars == <<cur, visited, finalized>>

WorkflowInit ==
  /\ cur = NoState
  /\ visited = {}
  /\ finalized = FALSE

\* validate_transition accepts e and the journal records its target.
Record(e) ==
  /\ Allowed(cur, e)
  /\ cur' = Target(e)
  /\ visited' = visited \union {e.stage}
  /\ finalized' = CASE e.stage = "finalization" -> e.status = "completed"
                    [] e.stage = "recording"    -> finalized
                    [] OTHER                    -> FALSE

\* The writer takes from_stage and from_status from the locked state; events
\* that name another source are rejected and are not enumerated here.
EventsFrom(s) == {e \in [kind : TRANSITION_KINDS,
                         fromStage : {s.stage}, fromStatus : {s.status},
                         stage : STAGES, status : STATUSES,
                         ctx : Contexts \union {None}, material : {TRUE}] :
                    Allowed(s, e)}

WorkflowNext == \E e \in EventsFrom(cur) : Record(e)

WorkflowSpec == WorkflowInit /\ [][WorkflowNext]_workflowVars

-----------------------------------------------------------------------------
\* The shape of the state, which has a blocker or a resume step exactly while the stage is paused
\* or blocked.
WorkflowTypeOK ==
  /\ cur \in TransitionState
  /\ cur.status \in Halted <=> cur.ctx # None
  /\ visited \subseteq STAGES
  /\ finalized \in BOOLEAN

\* The stages no workflow may go around (OPTIONAL_STAGES and the comment
\* above it: verification, packaging and finalization cannot be skipped, and
\* the discovery stages have one forward edge each).
MandatoryBefore(s) ==
  LET Early == {None, "intake", "recon", "candidate_generation", "triage"}
  IN  {m \in STAGES :
         \/ m = "intake" /\ s \notin {None, "intake"}
         \/ m = "recon" /\ s \notin {None, "intake", "recon"}
         \/ m = "candidate_generation" /\ s \notin Early \ {"triage"}
         \/ m = "triage" /\ s \notin Early
         \/ m = "verification" /\ s \notin Early \union {"verification"}
         \/ m = "finalization" /\ s = "recording"}

\* No sequence of legal events reaches a stage without having entered every
\* mandatory stage before it: advances, skips, returns and reopens combined
\* never open a way around triage or verification.
NoStageBypassed == MandatoryBefore(cur.stage) \subseteq visited

\* A workflow is in recording only while the last pass of finalization stands
\* completed: a return from recording to packaging or finalization forces
\* that pass to be completed again before recording is re-entered.
RecordingOnlyAfterFinalization == cur.stage = "recording" => finalized

\* How far a workflow state is from a completed finalization: the length of
\* the forward path, halted and completed stages needing one event more.
Distance(s) ==
  LET stages == CASE s.stage = "intake"               -> 6
                  [] s.stage = "recon"                -> 5
                  [] s.stage = "candidate_generation" -> 4
                  [] s.stage = "triage"               -> 3
                  [] s.stage = "finalization"         -> 1
                  [] OTHER                            -> 2
  IN  CASE s.stage = "finalization" /\ s.status = "completed" -> 0
        [] s.status = "running"                               -> 2 * stages
        [] OTHER                                              -> 2 * stages + 1

\* No legal sequence of events strands a workflow: in every state that has
\* not completed finalization some legal event brings it nearer, so halts,
\* skips, returns, reopens and even recording can be corrected and finalized.
FinalizationStaysReachable ==
  (cur.stage # None /\ Distance(cur) > 0)
    => \E e \in EventsFrom(cur) : Distance(Target(e)) < Distance(cur)
=============================================================================
