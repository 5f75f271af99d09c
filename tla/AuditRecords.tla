----------------------------- MODULE AuditRecords -----------------------------
(***************************************************************************)
(* The two files of the audit-state protocol as data: the records of       *)
(* audit-events.jsonl, the view stage-status.json derived from them, and   *)
(* the checks and derivations of scripts/audit_state_io.py and             *)
(* scripts/validate_audit_protocol.py over a journal and a view.           *)
(*                                                                         *)
(* Abstractions.  The event_log_digest of a view is the sequence of        *)
(* records it digests (SHA-256 taken as injective).  The identity of an    *)
(* event (ts, event_type, event_name, details) is its submission number    *)
(* id.  A view that is no JSON object of its schema is Garbage.  An R1     *)
(* record keeps only its identity: nothing of R1 reads the rest.           *)
(***************************************************************************)
EXTENDS AuditTransitionPolicy

CONSTANTS Runs,      \* run ids, those of legacy journals and of callers
          FreshRun,  \* the run id a writer generates ("run-" + uuid4)
          Versions,  \* plugin_version values
          Version,   \* the installed plugin_version
          NoView,    \* stage-status.json is missing
          Garbage    \* stage-status.json is not a valid view

Modes == {"r1", "r2"}

ASSUME AuditRecordsAssumption ==
  /\ FreshRun \in Runs
  /\ Version \in Versions
  /\ None \notin Runs \union Versions \union Modes

R2Event ==
  [mode : {"r2"}, id : Nat, policy : BOOLEAN, pv : Versions \union {None},
   run : Runs, seq : Nat, rev : Nat, kind : TRANSITION_KINDS \union {None},
   fromStage : STAGES \union {None}, fromStatus : STATUSES \union {None},
   stage : STAGES, status : STATUSES, ctx : Contexts \union {None},
   material : BOOLEAN]

R1Event == [mode : {"r1"}, id : Nat]

Event == R1Event \union R2Event

R2View ==
  [mode : {"r2"}, pv : Versions, run : Runs, rev : Nat, seq : Nat,
   digest : Seq(Event), stage : STAGES, status : STATUSES,
   ctx : Contexts \union {None}, id : Nat]

R1View ==
  [mode : {"r1"}, stage : STAGES, status : STATUSES,
   ctx : Contexts \union {None}, id : Nat]

View == R1View \union R2View

Missing(v) == v \in {NoView, Garbage}

-----------------------------------------------------------------------------
\* inspect_journal_bytes on a journal whose lines are all well formed.

Last(j) == j[Len(j)]

SingleMode(j) == \A i \in 1..Len(j) : j[i].mode = j[1].mode

RevisionChain(j) ==
  \A i \in 1..Len(j) : /\ j[i].seq = i
                       /\ j[i].rev = i - 1
                       /\ j[i].run = j[1].run

\* The journal is complete_valid, or empty.
JournalValid(j) ==
  j # <<>> => /\ SingleMode(j)
              /\ j[1].mode = "r2" => RevisionChain(j) /\ ValidSequence(j)

JournalMode(j) == IF j = <<>> THEN "empty" ELSE j[1].mode

-----------------------------------------------------------------------------
\* The view a committed event leads to, and the view that matches a journal.

\* validate_r2_state: halted work has a blocker, other work has none.
ViewSchemaOK(v) == v.mode = "r2" => ((v.status \in Halted) <=> (v.ctx # None))

\* _r2_state_after_event.
StateAfterEvent(e, committed) ==
  [mode |-> "r2", pv |-> e.pv, run |-> e.run, rev |-> e.seq, seq |-> e.seq,
   digest |-> committed, stage |-> e.stage, status |-> e.status,
   ctx |-> IF e.status \in Halted THEN e.ctx ELSE None, id |-> e.id]

\* _validate_r2_state_sync: an R2 view that matches the last record.
StateSync(j, v) ==
  LET e == Last(j)
  IN  /\ v.run = e.run /\ v.seq = e.seq /\ v.rev = Len(j)
      /\ v.digest = j
      /\ v.stage = e.stage /\ v.status = e.status /\ v.id = e.id
      /\ e.pv # None => v.pv = e.pv
      /\ e.policy => v.ctx = e.ctx

\* Mutant of DetectedMode: the view is not compared with the journal.
ModeOfUnsyncedFiles(j, v, modePolicy) ==
  CASE j = <<>> /\ v = NoView -> IF modePolicy = "legacy-r1" THEN "r1" ELSE "r2"
    [] j # <<>> /\ ~Missing(v) /\ v.mode = JournalMode(j) -> v.mode
    [] OTHER -> None

\* read_workspace_snapshot with mode_policy auto, r2 or legacy-r1: the mode
\* of a readable pair of files, None when the read fails.
DetectedMode(j, v, modePolicy) ==
  CASE j = <<>> /\ v = NoView -> IF modePolicy = "legacy-r1" THEN "r1" ELSE "r2"
    [] /\ j # <<>> /\ ~Missing(v)
       /\ v.mode = JournalMode(j)
       /\ v.mode = "r2" => StateSync(j, v)  -> v.mode
    [] OTHER -> None

SnapshotMode(j, v, modePolicy) ==
  LET detected == DetectedMode(j, v, modePolicy)
  IN  CASE ~JournalValid(j)                                -> None
        [] modePolicy = "r2" /\ detected # "r2"            -> None
        [] modePolicy = "legacy-r1" /\ detected # "r1"     -> None
        [] OTHER                                           -> detected

-----------------------------------------------------------------------------
\* derive_r2_state: rebuilding a view from the journal, with plugin_version
\* and context taken from an old view only where that view is proven to
\* describe an exact prefix of the journal.

Anchored(j, v) ==
  /\ ~Missing(v)
  /\ v.mode = "r2"
  /\ v.seq \in 1..Len(j)
  /\ v.rev = v.seq
  /\ v.digest = SubSeq(j, 1, v.seq)
  /\ LET e == j[v.seq]
     IN  /\ v.run = e.run /\ v.stage = e.stage /\ v.status = e.status
         /\ v.id = e.id
         /\ e.pv # None => v.pv = e.pv
         /\ e.policy => v.ctx = e.ctx

\* Where the last record does not say, the anchored view has to.
VersionProven(j, v) == Last(j).pv # None \/ Anchored(j, v)

ContextProven(j, v) ==
  \/ Last(j).policy
  \/ Last(j).status \notin Halted
  \/ Anchored(j, v) /\ v.seq = Last(j).seq

DerivedState(j, v) ==
  LET e == Last(j)
  IN  [mode |-> "r2", pv |-> IF e.pv # None THEN e.pv ELSE v.pv,
       run |-> e.run, rev |-> Len(j), seq |-> e.seq, digest |-> j,
       stage |-> e.stage, status |-> e.status,
       ctx |-> IF e.policy THEN e.ctx
               ELSE IF e.status \notin Halted THEN None ELSE v.ctx,
       id |-> e.id]

Derivable(j, v) ==
  /\ j # <<>>
  /\ JournalValid(j)
  /\ JournalMode(j) = "r2"
  /\ VersionProven(j, v)
  /\ ContextProven(j, v)
  /\ ViewSchemaOK(DerivedState(j, v))
=============================================================================
