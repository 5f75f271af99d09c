---------------------------- MODULE MCAuditStateIO ----------------------------
(***************************************************************************)
(* AuditStateIO for TLC: the requests callers make, the files a run begins *)
(* with, and the faults it may meet.                                       *)
(***************************************************************************)
EXTENDS AuditStateIO, TLC

CONSTANTS c1, c2, run1, run2, oldVersion

Bound == MaxRequests

-----------------------------------------------------------------------------
\* Requests.  Base is an observation of the current state; the others differ
\* from it in what they name.
Base == [modePolicy |-> "auto", kind |-> "observe", fromStage |-> None,
         fromStatus |-> None, stage |-> "current", status |-> "current",
         run |-> None, ctx |-> None, material |-> FALSE, checked |-> FALSE]

Start   == [Base EXCEPT !.kind = "start", !.stage = "intake",
                        !.status = "running"]
Advance == [Base EXCEPT !.kind = "advance", !.stage = "recon",
                        !.status = "running", !.fromStage = "intake",
                        !.fromStatus = "running"]
Block   == [Base EXCEPT !.kind = "block", !.status = "blocked", !.ctx = c1,
                        !.checked = TRUE]
OtherRun     == [Base EXCEPT !.run = run2]
LegacyStart  == [Start EXCEPT !.modePolicy = "legacy-r1"]

RacingRequests == {Base, Start, Advance, Block, OtherRun}
MixedRequests  == {Start, Block, LegacyStart}

-----------------------------------------------------------------------------
\* Files to begin with: an empty workspace; a journal of records older than
\* the transition policy, whose view alone knows the version and the blocker;
\* a legacy R1 workspace.
Empty == [journal |-> <<>>, view |-> NoView]

PrePolicyEvent(n, stage, status) ==
  [mode |-> "r2", id |-> Bound + n, policy |-> FALSE, pv |-> None, run |-> run1,
   seq |-> n, rev |-> n - 1, kind |-> None, fromStage |-> None,
   fromStatus |-> None, stage |-> stage, status |-> status, ctx |-> None,
   material |-> FALSE]

PrePolicyJournal == <<PrePolicyEvent(1, "intake", "running"),
                      PrePolicyEvent(2, "recon", "paused")>>

PrePolicy ==
  [journal |-> PrePolicyJournal,
   view |-> [StateAfterEvent(Last(PrePolicyJournal), PrePolicyJournal)
               EXCEPT !.pv = oldVersion, !.ctx = c1]]

LegacyR1 ==
  [journal |-> <<[mode |-> "r1", id |-> Bound + 1]>>,
   view |-> [mode |-> "r1", stage |-> "recon", status |-> "paused",
             ctx |-> c1, id |-> Bound + 1]]

R2Files   == {Empty, PrePolicy}
AnyFiles  == {Empty, PrePolicy, LegacyR1}

-----------------------------------------------------------------------------
\* Faults.
Faults(crash, io, power, edit) ==
  [k \in FaultKinds |-> CASE k = "crash" -> crash
                          [] k = "io"    -> io
                          [] k = "power" -> power
                          [] OTHER       -> edit]

PowerFaults   == Faults(1, 1, 1, 0)
EditFaults    == Faults(1, 1, 0, 1)

AnyWriter == Permutations(Writers)

-----------------------------------------------------------------------------
Agrees ==
  \/ journal = <<>>
  \/ ~Missing(view) /\ view.mode = "r2" /\ StateSync(journal, view)

\* No call can read the files: read_workspace_snapshot raises.
Unreadable == tail # "clean" \/ Missing(view) \/ SnapshotMode(journal, view, "auto") = None

\* Callers without end.  MaxRequests bounds the commits; a call that finds the files unreadable is
\* refused under the lock and writes nothing, so there may be any number of those, and a recovery
\* may meet one of them at the lock each time it comes.
CallInVain(p) ==
  /\ p \in Writers
  /\ Goto(p, "idle", "locked") /\ lock = None /\ lock' = p
  /\ submitted = MaxRequests /\ journal # <<>> /\ Unreadable
  /\ req' = [req EXCEPT ![p] = [body |-> Base, cas |-> [intent |-> "accept", rev |-> 0], id |-> 0]]
  /\ UNCHANGED <<files, event, newView, reviewed, answers, submitted, faults>>

EndlessCalls ==
  /\ Init
  /\ [][Next \/ \E p \in Writers : CallInVain(p)]_vars
  /\ \A p \in Procs : WF_vars(Continue(p))

\* A view that can be rebuilt does not stay apart from its journal while somebody runs --check and
\* --apply again and again and does not meet a LOCK_TIMEOUT each time: the digests that --apply
\* compares under the lock do not starve the repair, for while the files are apart no commit passes
\* that could change the journal between the two, however many callers try.
DriftIsRepaired ==
  (\E p \in Recoverers : []<>(pc[p] = "locked")) => []<>(Agrees \/ ~CanRebuild)
=============================================================================
