-------------------------- MODULE FreshVerification --------------------------
(***************************************************************************)
(* verify_candidate.py --allow-execute: one fresh run that publishes the   *)
(* verdict about a candidate.  It binds its inputs and the journal, makes  *)
(* the paths of its run exclusively, reserves the two files it is going to *)
(* publish, has run_verification_case.sh try the candidate in Docker,      *)
(* checks that nothing else happened, and publishes.  A handled failure    *)
(* takes back the reservations and nothing else, as far as the system lets *)
(* it.                                                                     *)
(*                                                                         *)
(* Wrappers called by hand, other commands that record events, the         *)
(* completion gate and people who touch files go on meanwhile.  The inside *)
(* of the wrapper is DockerCases, that of a commit AuditStateIO and that   *)
(* of one publication EvidencePublication; here a system call and the      *)
(* check right before it are one step, and no inode number is used twice.  *)
(***************************************************************************)
EXTENDS VerificationFacts

CONSTANTS
  Verifiers,   \* fresh runs
  Hands,       \* calls of the wrapper by hand
  Candidates, RunIds,
  Casts,       \* which of them take part
  Somebody,    \* whoever writes a file and is not a verifier
  MaxMishaps,  \* faults, kills and meddling
  MaxOthers    \* events of other commands

CaseId(k, r) == <<"case", k, r>>   \* _case_id_for: a digest of candidate and run id

ASSUME FreshAssumption ==
  /\ \A k \in Candidates, r \in RunIds : CaseId(k, r) \in Cases
  /\ Verifiers \cap Hands = {} /\ Somebody \notin Verifiers \cup Hands
  /\ None \notin Verifiers \cup Hands \cup {Somebody}
  /\ RunIds # {} /\ MaxMishaps \in Nat /\ MaxOthers \in Nat

VARIABLES
  proc,     \* what each process is about and remembers
  disk,     \* the files and directories at the paths of fresh runs
  edited,   \* what is not as it was reviewed
  log,      \* the journal
  results,  \* verification-result.json of each case
  mishaps, others

vars == <<proc, disk, edited, log, results, mishaps, others>>

Ended == {"done", "failed", "dead"}

Processes == Verifiers \cup Hands

Run(k, r) == <<"run", k, r>>
Case(k, r) == CaseId(k, r)
Snapshot(r) == <<"snapshot", r>>
Binding(k, r) == <<"binding", k, r>>
Verdict(k) == <<"verdict", k>>
Paths ==
  UNION {{Run(k, r), Case(k, r), Snapshot(r), Binding(k, r), Verdict(k)} :
         k \in Candidates, r \in RunIds}
Published == {Verdict(k) : k \in Candidates} \cup {Binding(k, r) : k \in Candidates, r \in RunIds}

\* What is at a path: who made it, what is in it, its inode (counted for each path by itself) and
\* how often it was changed in place since it was made.
File(by, data, ino) == [by |-> by, data |-> data, ino |-> ino, changed |-> 0]
\* Mutant of Removed: the maker of a file that is gone is still on record.
RemovedInName(f) == [f EXCEPT !.data = "nothing", !.changed = 0]
Removed(f) == [f EXCEPT !.by = None, !.data = "nothing", !.changed = 0]
IsAbsent(x) == disk[x].data = "nothing"
New(x, by, data) == File(by, data, disk[x].ino + 1)

\* held: the reservations it can take back; warned: the paths it has said it leaves as they are;
\* left (history): the paths at which a system call of its own on its empty file went wrong.
Fresh(k, r) ==
  [pc |-> "idle", cand |-> k, run |-> r, base |-> 0, rev |-> 0, held |-> {}, outcome |-> "none",
   warned |-> {}, left |-> {}]

\* Each fresh run is for a candidate with a run id of its caller's choice.
Init ==
  /\ \E cast \in Casts, k \in [Processes -> Candidates], r \in [Processes -> RunIds] :
       proc = [p \in Processes |-> [Fresh(k[p], r[p]) EXCEPT !.pc = IF p \in cast THEN @ ELSE "dead"]]
  /\ disk = [x \in Paths |-> File(None, "nothing", 0)]
  /\ edited = {}
  /\ log = <<Event("stage", NoCase, "running", Somebody)>>
  /\ results = [c \in Cases |-> None]
  /\ mishaps = 0 /\ others = 0

Mine(p) == CaseId(proc[p].cand, proc[p].run)
Becomes(p, s) == proc' = [proc EXCEPT ![p] = s]
\* Of a process that has ended only its baseline matters, and what it has left behind.
EndOf(p, where) ==
  [Fresh(proc[p].cand, proc[p].run) EXCEPT
     !.pc = where, !.base = proc[p].base, !.warned = proc[p].warned, !.left = proc[p].left]
Goes(p, where) ==
  Becomes(p, IF where \in Ended THEN EndOf(p, where) ELSE [proc[p] EXCEPT !.pc = where])
Mishap == mishaps < MaxMishaps /\ mishaps' = mishaps + 1
Put(x, f) == disk' = [disk EXCEPT ![x] = f]

UnchangedWorld == UNCHANGED <<edited, log, results, mishaps, others>>
-----------------------------------------------------------------------------
(* Before the container *)

\* The execution input, the candidate and the target bear the reviewed digests.
DocumentsReviewed == "documents" \notin edited
\* The tested commit is the one of the target and the one checked out, with a readable tree.
CommitCheckedOut == "HEAD" \notin edited
PocReviewed == "poc" \notin edited

BindInputs(v) ==
  /\ proc[v].pc = "idle"
  /\ Goes(v, IF DocumentsReviewed /\ CommitCheckedOut /\ PocReviewed THEN "baseline" ELSE "failed")
  /\ UNCHANGED disk /\ UnchangedWorld

\* The file that is reserved or published.
Target(v) == IF proc[v].pc \in {"binding reserved", "bind", "binding"}
             THEN Binding(proc[v].cand, proc[v].run) ELSE Verdict(proc[v].cand)
Directories(v) ==
  <<Run(proc[v].cand, proc[v].run), Case(proc[v].cand, proc[v].run), Snapshot(proc[v].run)>>

\* Work is in verification, and nothing of the run is there yet.
BindJournal(v) ==
  /\ proc[v].pc = "baseline"
  /\ IF /\ Status(log) = "running"
        /\ IsAbsent(Verdict(proc[v].cand)) /\ \A i \in 1..3 : IsAbsent(Directories(v)[i])
     THEN Becomes(v, [proc[v] EXCEPT !.pc = "make", !.base = Len(log)])
     ELSE Goes(v, "failed")
  /\ UNCHANGED disk /\ UnchangedWorld

\* The directories, with the snapshot and the copies of the inputs: mkdir, up to the first that
\* has appeared meanwhile.
MakeDirectories(v) ==
  /\ proc[v].pc = "make"
  /\ LET made == {i \in 1..3 : \A j \in 1..i : IsAbsent(Directories(v)[j])}
     IN /\ disk' = [x \in Paths |-> IF \E i \in made : x = Directories(v)[i]
                                    THEN New(x, v, "directory") ELSE disk[x]]
        /\ Goes(v, IF made = 1..3 THEN "binding reserved" ELSE "release")
  /\ UnchangedWorld

\* open with O_CREAT and O_EXCL
CanReserve(x) == IsAbsent(x)

\* An empty file is made for the binding, then one for the verdict.
Reserve(v) ==
  /\ proc[v].pc \in {"binding reserved", "verdict reserved"}
  /\ LET x == Target(v)
     IN IF CanReserve(x)
        THEN /\ Put(x, New(x, v, "empty"))
             /\ Becomes(v, [proc[v] EXCEPT !.held = @ \cup {[path |-> x, file |-> New(x, v, "empty")]},
                              !.pc = IF @ = "binding reserved" THEN "verdict reserved" ELSE "capture"])
        ELSE UNCHANGED disk /\ Goes(v, "release")
  /\ UnchangedWorld

\* A system call of the reservation fails: before the file is made; behind it, when the run has
\* it on record; or in between, and the file stays, with a warning.
ReserveFails(v) ==
  /\ proc[v].pc \in {"binding reserved", "verdict reserved"}
  /\ Mishap
  /\ LET x == Target(v)
         f == New(x, v, "empty")
     IN \/ UNCHANGED disk /\ Goes(v, "release")
        \/ /\ CanReserve(x) /\ Put(x, f)
           /\ Becomes(v, [proc[v] EXCEPT !.held = @ \cup {[path |-> x, file |-> f]}, !.pc = "release"])
        \/ /\ CanReserve(x) /\ Put(x, f)
           /\ Becomes(v, [proc[v] EXCEPT !.warned = @ \cup {x}, !.left = @ \cup {x}, !.pc = "release"])
  /\ UNCHANGED <<edited, log, results, others>>
-----------------------------------------------------------------------------
(* The wrapper, of a fresh run or called by hand *)

Fails(p) == IF p \in Verifiers THEN "release" ELSE "done"
Document(p, w) == [by |-> p, wrapper |-> w, outcome |-> proc[p].outcome]
Writes(p, w) == results' = [results EXCEPT ![Mine(p)] = Document(p, w)]

\* A call by hand makes the directory of the case unless it is there.
CallByHand(h) ==
  /\ proc[h].pc = "idle"
  /\ Goes(h, "capture")
  /\ IF IsAbsent(Mine(h)) THEN Put(Mine(h), New(Mine(h), h, "directory")) ELSE UNCHANGED disk
  /\ UnchangedWorld

Capture(p) ==
  /\ proc[p].pc = "capture"
  /\ IF Status(log) \in {"running", "blocked"}
     THEN /\ Becomes(p, [proc[p] EXCEPT !.rev = Len(log),
                           !.pc = IF Status(log) = "blocked" THEN "resume" ELSE "start"])
          /\ UNCHANGED results
     ELSE Writes(p, "uncommitted") /\ Goes(p, Fails(p))
  /\ UNCHANGED disk /\ UNCHANGED <<edited, log, mishaps, others>>

\* An event of the wrapper is committed at the revision it knows; otherwise the result says so.
Commit(p, name, status) ==
  /\ Len(log) = proc[p].rev
  /\ log' = Append(log, Event(name, Mine(p), status, p))
CommitOrGiveUp(p, name, next) ==
  /\ \/ /\ Commit(p, name, "running")
        /\ Becomes(p, [proc[p] EXCEPT !.rev = @ + 1, !.pc = next])
        /\ UNCHANGED <<results, mishaps>>
     \/ /\ IF Len(log) = proc[p].rev THEN Mishap ELSE UNCHANGED mishaps
        /\ Writes(p, "uncommitted")
        /\ Goes(p, Fails(p))
        /\ UNCHANGED log
  /\ UNCHANGED disk /\ UNCHANGED <<edited, others>>

Resume(p) == proc[p].pc = "resume" /\ CommitOrGiveUp(p, "resumed", "start")
Start(p) == proc[p].pc = "start" /\ CommitOrGiveUp(p, "started", "running")

\* The container comes to an end, or what it left behind cannot be trusted.
ContainerEnds(p, outcome) ==
  /\ proc[p].pc = "running"
  /\ outcome \in {"completed", "rejected", "blocked", "untrusted"}
  /\ Becomes(p, [proc[p] EXCEPT !.outcome = outcome,
                   !.pc = IF outcome = "untrusted" THEN Fails(p) ELSE "event"])
  /\ results' = [results EXCEPT ![Mine(p)] =
       [by |-> p, outcome |-> outcome,
        wrapper |-> IF outcome = "untrusted" THEN "uncommitted" ELSE "pending"]]
  /\ UNCHANGED disk /\ UNCHANGED <<edited, log, mishaps, others>>

RecordOutcome(p) ==
  /\ proc[p].pc = "event"
  /\ \/ /\ Commit(p, proc[p].outcome, IF proc[p].outcome = "blocked" THEN "blocked" ELSE "running")
        /\ Goes(p, "final")
        /\ UNCHANGED mishaps
     \/ /\ IF Len(log) = proc[p].rev THEN Mishap ELSE UNCHANGED mishaps
        /\ Goes(p, "uncommitted")
        /\ UNCHANGED log
  /\ UNCHANGED disk /\ UNCHANGED <<edited, results, others>>

\* The result is published again with what became of its event; only a committed confirmation
\* makes the wrapper exit with zero.
Finish(p) ==
  /\ proc[p].pc \in {"final", "uncommitted"}
  /\ LET committed == proc[p].pc = "final"
     IN /\ Writes(p, IF committed THEN "completed" ELSE "uncommitted")
        /\ Goes(p, IF p \in Verifiers /\ committed /\ proc[p].outcome = "completed"
                   THEN "check" ELSE Fails(p))
  /\ UNCHANGED disk /\ UNCHANGED <<edited, log, mishaps, others>>

\* WRAPPER_TIMEOUT_SECONDS: the wrapper is stopped wherever it is.
TimeOut(v) ==
  /\ proc[v].pc \in {"capture", "resume", "start", "running", "event", "final", "uncommitted"}
  /\ Mishap
  /\ Goes(v, "release")
  /\ UNCHANGED disk /\ UNCHANGED <<edited, log, results, others>>
-----------------------------------------------------------------------------
(* After the container *)

\* _checked_wrapper_result: the result is the one of this run, and its confirmation is committed.
OwnResult(v) == results[Mine(v)] = [by |-> v, wrapper |-> "completed", outcome |-> "completed"]
\* _verify_snapshot_unchanged
SnapshotUnchanged(v) == LET x == Snapshot(proc[v].run) IN disk[x].by = v /\ disk[x].data = "directory"

\* The documents, the PoC and the snapshot are read once more; which commit is checked out does
\* not matter any longer.
Recheck(v) ==
  /\ proc[v].pc = "check"
  /\ Goes(v, IF OwnResult(v) /\ DocumentsReviewed /\ PocReviewed /\ SnapshotUnchanged(v)
             THEN "suffix" ELSE "release")
  /\ UNCHANGED disk /\ UnchangedWorld

IsOf(e, name, c) == e.name = name /\ e.case = c /\ e.status = "running"

\* Mutant of OwnSuffix: the last two records are looked at, and not how many there are.
LastTwo(v) ==
  /\ Len(log) >= proc[v].base + 2
  /\ IsOf(log[Len(log) - 1], "started", Mine(v)) /\ IsOf(log[Len(log)], "completed", Mine(v))
\* _verify_journal_suffix: since the baseline, the start and the completion of this case.
OwnSuffix(v) ==
  /\ Len(log) = proc[v].base + 2
  /\ IsOf(log[Len(log) - 1], "started", Mine(v)) /\ IsOf(log[Len(log)], "completed", Mine(v))

CheckSuffix(v) ==
  /\ proc[v].pc = "suffix"
  /\ Goes(v, IF OwnSuffix(v) THEN "bind" ELSE "release")
  /\ UNCHANGED disk /\ UnchangedWorld

Holds(v, x) == {h \in proc[v].held : h.path = x}

\* Mutant of StillHeld: the identity of the reservation is not handed to the publication.
WhateverIsThere(v, x) == ~IsAbsent(x)
\* expected_target_identity: the inode; the time of the last change is not part of it.
StillHeld(v, x) == ~IsAbsent(x) /\ \E h \in Holds(v, x) : h.file.ino = disk[x].ino

\* os.replace on the reservation; the new content can be read from here on.
Replace(v) ==
  /\ proc[v].pc \in {"bind", "conclude"}
  /\ IF StillHeld(v, Target(v))
     THEN /\ Put(Target(v), New(Target(v), v, "written"))
          /\ Goes(v, IF proc[v].pc = "bind" THEN "binding" ELSE "concluding")
     ELSE UNCHANGED disk /\ Goes(v, "release")
  /\ UnchangedWorld

\* The content is read back and validated; it is the verifier's no more to take back.
Settle(v) ==
  /\ proc[v].pc \in {"binding", "concluding"}
  /\ LET x == Target(v)
         own == disk[x].by = v /\ disk[x].data = "written"
     IN \/ ~own /\ Goes(v, "release")
        \/ own /\ proc[v].pc = "binding"
           /\ Becomes(v, [proc[v] EXCEPT !.held = @ \ Holds(v, x), !.pc = "conclude"])
        \/ own /\ proc[v].pc = "concluding" /\ Goes(v, "done")
  /\ UNCHANGED disk /\ UnchangedWorld

\* Mutant of Adopted: the identity of the restored file is not taken over.
NotAdopted(v, x, f) == proc[v].held
\* _adopt_verified_rollback_identity
Adopted(v, x, f) == (proc[v].held \ Holds(v, x)) \cup {[path |-> x, file |-> f]}

\* Something fails behind the replace: an empty file is put back, which is a new one, and the run
\* learns its identity; or it is put back, and what the writer does next to make sure of it fails,
\* or the run's own look at it, and the identity is not taken over; or nothing is put back.
RollBack(v) ==
  /\ proc[v].pc \in {"binding", "concluding"}
  /\ Mishap
  /\ LET x == Target(v)
         f == New(x, v, "empty")
     IN \/ /\ disk[x].by = v /\ disk[x].data = "written"
           /\ Put(x, f)
           /\ \/ Becomes(v, [proc[v] EXCEPT !.pc = "release", !.held = Adopted(v, x, f)])
              \/ Becomes(v, [proc[v] EXCEPT !.pc = "release", !.left = @ \cup {x}])
        \/ UNCHANGED disk /\ Goes(v, "release")
  /\ UNCHANGED <<edited, log, results, others>>

\* Mutant of MayRelease: whatever is empty at the path is removed.
AnyEmpty(h) == disk[h.path].data = "empty"
\* _reservation_matches: inode and time stamp, and nothing in it.
MayRelease(h) == disk[h.path] = h.file

\* _release_fresh_reservations: what is held just as it is is removed, unless a system call of the
\* removal fails; of everything else that is held the run says that it is left untouched.
Release(v) ==
  /\ proc[v].pc = "release"
  /\ \E failing \in SUBSET {h \in proc[v].held : MayRelease(h)} :
       LET held == {h.path : h \in proc[v].held}
           gone == {h.path : h \in {g \in proc[v].held : MayRelease(g)} \ failing}
       IN /\ IF failing = {} THEN UNCHANGED mishaps ELSE Mishap
          /\ disk' = [x \in Paths |-> IF x \in gone THEN Removed(disk[x]) ELSE disk[x]]
          /\ Becomes(v, [EndOf(v, "failed") EXCEPT !.warned = @ \cup (held \ gone),
                           !.left = @ \cup {h.path : h \in failing}])
  /\ UNCHANGED <<edited, log, results, others>>
-----------------------------------------------------------------------------
(* Everything else *)

Kill(p) ==
  /\ proc[p].pc \notin {"idle"} \cup Ended
  /\ Mishap
  /\ Goes(p, "dead")
  /\ UNCHANGED disk /\ UNCHANGED <<edited, log, results, others>>

\* Somebody removes an empty file, as a leftover of a killed run, whoever holds it.
Clear(x) ==
  /\ disk[x].data = "empty"
  /\ Mishap
  /\ Put(x, Removed(disk[x]))
  /\ UNCHANGED <<proc, edited, log, results, others>>

\* Somebody puts a file there, in the place of nothing or of an empty file; or writes into it.
Meddle(x) ==
  /\ disk[x].data \in {"nothing", "empty"}
  /\ Mishap
  /\ \/ Put(x, New(x, Somebody, "theirs"))
     \/ ~IsAbsent(x) /\ Put(x, [disk[x] EXCEPT !.changed = @ + 1, !.data = "theirs"])
  /\ UNCHANGED <<proc, edited, log, results, others>>

\* Somebody edits a file of a source snapshot, or an input.
EditSnapshot(r) ==
  /\ disk[Snapshot(r)].data = "directory"
  /\ Mishap
  /\ Put(Snapshot(r), [disk[Snapshot(r)] EXCEPT !.data = "theirs"])
  /\ UNCHANGED <<proc, edited, log, results, others>>

Edit(part) ==
  /\ Mishap
  /\ edited' = IF part \in edited THEN edited \ {part} ELSE edited \cup {part}
  /\ UNCHANGED disk /\ UNCHANGED <<proc, log, results, others>>

\* Another command records something: an observation, work resumed, or the next stage.
OtherEvent(from, to) ==
  /\ others < MaxOthers /\ others' = others + 1
  /\ Status(log) = from
  /\ log' = Append(log, Event("stage", NoCase, to, Somebody))
  /\ UNCHANGED disk /\ UNCHANGED <<proc, edited, results, mishaps>>

EmptyVerdicts == {x \in Published : x[1] = "verdict" /\ disk[x].data = "empty"}
Blocked == VerificationBlocked(log, results, EmptyVerdicts)

\* The completion gate returns blocked work to verification; its finalization_failed is a block
\* that names no case.
GateBlocks ==
  /\ Status(log) = "later" /\ Blocked
  /\ log' = log \o <<Event("gate", NoCase, "running", Somebody),
                     Event("gate", NoCase, "blocked", Somebody)>>
  /\ UNCHANGED disk /\ UNCHANGED <<proc, edited, results, mishaps, others>>

Wrapper(p) ==
  \/ Capture(p) \/ Resume(p) \/ Start(p) \/ RecordOutcome(p) \/ Finish(p)
  \/ \E o \in {"completed", "rejected", "blocked", "untrusted"} : ContainerEnds(p, o)

Verifier(v) ==
  \/ BindInputs(v) \/ BindJournal(v) \/ MakeDirectories(v) \/ Reserve(v) \/ ReserveFails(v)
  \/ TimeOut(v) \/ Recheck(v) \/ CheckSuffix(v) \/ Replace(v) \/ Settle(v) \/ RollBack(v)
  \/ Release(v)

World ==
  \/ \E x \in Published : Clear(x) \/ Meddle(x)
  \/ \E r \in RunIds : EditSnapshot(r)
  \/ \E part \in {"documents", "HEAD", "poc"} : Edit(part)
  \/ OtherEvent("running", "running") \/ OtherEvent("blocked", "running")
  \/ OtherEvent("running", "later")
  \/ GateBlocks

Next ==
  \/ \E v \in Verifiers : Verifier(v)
  \/ \E h \in Hands : CallByHand(h)
  \/ \E p \in Processes : Wrapper(p) \/ Kill(p)
  \/ World

Spec == Init /\ [][Next]_vars
-----------------------------------------------------------------------------
(* Properties *)

\* Types; a path without a file has no maker, and a run holds no path but the two it publishes.
TypeOK ==
  /\ \A x \in Paths :
       /\ disk[x] \in [by : Processes \cup {Somebody, None}, ino : Nat, changed : Nat,
                       data : {"nothing", "directory", "empty", "written", "theirs"}]
       /\ IsAbsent(x) <=> disk[x].by = None
  /\ edited \subseteq {"documents", "HEAD", "poc"}
  /\ \A i \in DOMAIN log : log[i].status \in {"running", "blocked", "later"}
  /\ \A p \in Processes : proc[p].warned \subseteq Paths /\ proc[p].left \subseteq Paths
  /\ \A p \in Processes, h \in UNION {proc[q].held : q \in Processes} :
       h \in proc[p].held =>
         h.path \in {Binding(proc[p].cand, proc[p].run), Verdict(proc[p].cand)} /\ h.file.by = p

\* A verdict rests on the two events of its own run, committed next to each other right behind
\* the journal the run was bound to, whatever other commands record meanwhile.
VerdictOnOwnEvents ==
  \A k \in Candidates :
    LET v == disk[Verdict(k)].by
    IN disk[Verdict(k)].data = "written" =>
         \A i \in {proc[v].base + 1, proc[v].base + 2} :
           i \in DOMAIN log /\ log[i].by = v /\ log[i].case = Mine(v)

\* Of the fresh runs about one candidate at most one ends with success, even if somebody takes
\* away a reservation that is still needed.
OneVerdictPerCandidate ==
  \A v, w \in Verifiers :
    proc[v].pc = "done" /\ proc[w].pc = "done" /\ proc[v].cand = proc[w].cand => v = w

\* A fresh run that ends with a handled failure leaves no empty file of its own in the way of the
\* next run, the one its writer has put back included: where one stays, a system call with which
\* the run made, put back or removed that very file has failed, and the run has said that it stays.
FailureReleases ==
  \A v \in Verifiers, x \in Published :
    proc[v].pc = "failed" /\ disk[x].by = v /\ disk[x].data = "empty" =>
      x \in proc[v].left /\ x \in proc[v].warned

\* Cleanup removes and publication replaces the file of the run itself: a file somebody has put
\* at the path, and the reservation of another run, stay.
OthersFilesKept ==
  [][\A x \in Published, v \in Verifiers :
       disk[x] # disk'[x] /\ disk[x].by # v /\ ~IsAbsent(x) =>
         proc[v] = proc'[v]]_vars

\* What docs/runner-contracts/audit-state-protocol-r2.md says of the facts: when a later confirmed
\* or rejected result of every case that was tried is there, nothing is blocked any more.
LaterResultResolves ==
  (/\ \A c \in Cases : Outcomes(log, c) = {} \/ ~CaseBlocked(log, results, c)
   /\ \A c \in Cases : results[c] = None \/ results[c].wrapper = "completed"
   /\ EmptyVerdicts = {}
   /\ \E c \in Cases : Outcomes(log, c) # {} /\ log[Len(log)].case = c)
  => ~Blocked
=============================================================================
