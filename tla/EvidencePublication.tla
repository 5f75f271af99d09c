-------------------------- MODULE EvidencePublication --------------------------
(***************************************************************************)
(* scripts/evidence_io.py, atomic_write_bytes: how the ledger, summaries,  *)
(* verdicts and receipts are published.  The target's identity (device,    *)
(* inode, links, owner, mode) is taken, the new content is staged in a     *)
(* temporary file and synced, the identity is checked again, os.replace    *)
(* publishes, and the result is read back and given to a validator.  After *)
(* a failure behind the replace the earlier content is put back, once the  *)
(* identity of what was published is known.                                *)
(*                                                                         *)
(* Each process makes one update of one target: it reads the content and   *)
(* publishes the content with its own entry added, as append_host_text and *)
(* the disposition ledger do.  The content is the set of the entries in    *)
(* it; the identity is the inode, every other part of it being the same in *)
(* all files published here.                                               *)
(***************************************************************************)
EXTENDS Naturals, FiniteSets

CONSTANTS Procs,           \* updaters; also the entries they add
          Inodes,          \* inode numbers of the file system
          None,
          Settings,        \* how the callers use atomic_write_bytes
          MaxFaults,       \* bound on failing system calls and rejections
          MaxCrashes       \* bound on killed processes

\* What callers do one at a time ("update" from the read on, "write" from
\* atomic_write_bytes on, or "nothing"); whether they give the identity of
\* the file they read as the expected one, as verify_candidate does with the
\* files it has reserved (they exist); whether the file system uses a freed
\* inode number again meanwhile.
ASSUME EvidenceAssumption ==
  /\ Settings \subseteq [serialized : {"update", "write", "nothing"},
                         passes : BOOLEAN, reuses : BOOLEAN]
  /\ None \notin Inodes

VARIABLES setting,  \* the one of this behaviour
          target,   \* the file at the path: inode (None if absent), content
          used,     \* inode numbers used so far
          pc, w,    \* where each updater is, and what it remembers
          faults, crashes

vars == <<setting, target, used, pc, w, faults, crashes>>

Absent == [ino |-> None, data |-> {}]

\* read: the file it read; expected, previous: identity and content at the
\* start of atomic_write_bytes; temp: its staged file; published: the identity
\* found at the path after the replace.
Forgotten == [read |-> Absent, expected |-> None, previous |-> Absent,
              temp |-> None, published |-> None]

Writing == {"stage", "recheck", "replace", "settle", "confirm", "validate",
            "check_undo", "undo", "verify_undo"}

Init ==
  /\ setting \in Settings
  /\ target \in {[ino |-> i, data |-> {}] : i \in Inodes}
                 \union (IF setting.passes THEN {} ELSE {Absent})
  /\ used = {target.ino} \ {None}
  /\ pc = [p \in Procs |-> "idle"]
  /\ w = [p \in Procs |-> Forgotten]
  /\ faults = 0
  /\ crashes = 0

-----------------------------------------------------------------------------
Goto(p, step) == pc' = [pc EXCEPT ![p] = step]

Remember(p, m) == w' = [w EXCEPT ![p] = m]

\* mkstemp: an inode number no file has.
FreeInodes ==
  Inodes \ (IF setting.reuses
            THEN {target.ino} \union {w[q].temp : q \in Procs}
            ELSE used)

\* The path changes: os.replace or os.unlink.
Put(file) == target' = file

Keep == UNCHANGED target

\* A system call fails, or the validator rejects.
Fault == faults < MaxFaults /\ faults' = faults + 1

NoFault == UNCHANGED faults

Alone(p, steps) == \A q \in Procs \ {p} : pc[q] \notin steps

-----------------------------------------------------------------------------
\* append_host_text, update_ledger_from_verdict: the content is read.
Load(p) ==
  /\ pc[p] = "idle"
  /\ setting.serialized = "update" => Alone(p, {"loaded"} \union Writing)
  /\ Remember(p, [Forgotten EXCEPT !.read = target])
  /\ Goto(p, "loaded")
  /\ Keep /\ NoFault /\ UNCHANGED <<used, crashes>>

\* Mutant of Begin: an expected identity is not compared.
BeginWithoutComparison(p) ==
  /\ pc[p] = "loaded"
  /\ setting.serialized = "write" => Alone(p, Writing)
  /\ Remember(p, [w[p] EXCEPT !.expected = target.ino, !.previous = target])
  /\ Goto(p, "stage")
  /\ Keep /\ NoFault /\ UNCHANGED <<used, crashes>>

\* atomic_write_bytes takes identity and content of the target; an expected
\* identity it was given must be the one it finds.
Begin(p) ==
  /\ pc[p] = "loaded"
  /\ setting.serialized = "write" => Alone(p, Writing)
  /\ IF setting.passes /\ target.ino # w[p].read.ino
     THEN Goto(p, "failed") /\ UNCHANGED w
     ELSE /\ Remember(p, [w[p] EXCEPT !.expected = target.ino,
                                      !.previous = target])
          /\ Goto(p, "stage")
  /\ Keep /\ NoFault /\ UNCHANGED <<used, crashes>>

\* Before the replace a failure only removes the temporary file.
GiveUp(p) ==
  /\ Goto(p, "failed")
  /\ Remember(p, [w[p] EXCEPT !.temp = None])
  /\ Keep

Stage(p) ==
  /\ pc[p] = "stage"
  /\ \/ \E i \in FreeInodes :
          /\ Remember(p, [w[p] EXCEPT !.temp = i])
          /\ used' = used \union {i}
          /\ Goto(p, "recheck")
          /\ Keep /\ NoFault
     \/ Fault /\ GiveUp(p) /\ UNCHANGED used
  /\ UNCHANGED crashes

Recheck(p) ==
  /\ pc[p] = "recheck"
  /\ IF target.ino = w[p].expected
     THEN Goto(p, "replace") /\ Keep /\ UNCHANGED w
     ELSE GiveUp(p)
  /\ NoFault /\ UNCHANGED <<used, crashes>>

Replace(p) ==
  /\ pc[p] = "replace"
  /\ \/ /\ Put([ino |-> w[p].temp, data |-> w[p].read.data \union {p}])
        /\ Remember(p, [w[p] EXCEPT !.temp = None])
        /\ Goto(p, "settle")
        /\ NoFault
     \/ Fault /\ GiveUp(p)
  /\ UNCHANGED <<used, crashes>>

\* The published identity is read back from the path; without one nothing
\* is undone: not where the path is gone, and not where the reading of the
\* identity itself fails, with the new content in place ("unsettled": the
\* caller gets an error as it does from "failed").
Settle(p) ==
  /\ pc[p] = "settle"
  /\ \/ /\ NoFault
        /\ Remember(p, [w[p] EXCEPT !.published = target.ino])
        /\ Goto(p, IF target.ino = None THEN "failed" ELSE "confirm")
     \/ Fault /\ Goto(p, "unsettled") /\ UNCHANGED w
  /\ Keep /\ UNCHANGED <<used, crashes>>

\* The directory is synced; identity and content are read back.
Confirm(p) ==
  /\ pc[p] = "confirm"
  /\ \/ /\ NoFault
        /\ Goto(p, IF /\ target.ino = w[p].published
                      /\ target.data = w[p].read.data \union {p}
                   THEN "validate" ELSE "check_undo")
     \/ Fault /\ Goto(p, "check_undo")
  /\ Keep /\ UNCHANGED <<used, crashes, w>>

\* Mutant of Validate: a rejected publication is reported, not undone.
ValidateWithoutUndo(p) ==
  /\ pc[p] = "validate"
  /\ \/ /\ NoFault
        /\ Goto(p, IF target.ino = w[p].published THEN "published"
                                                  ELSE "check_undo")
     \/ Fault /\ Goto(p, "failed")
  /\ Keep /\ UNCHANGED <<used, crashes, w>>

\* The post-write validator accepts and the identity is checked once more.
Validate(p) ==
  /\ pc[p] = "validate"
  /\ \/ /\ NoFault
        /\ Goto(p, IF target.ino = w[p].published THEN "published"
                                                  ELSE "check_undo")
     \/ Fault /\ Goto(p, "check_undo")
  /\ Keep /\ UNCHANGED <<used, crashes, w>>

-----------------------------------------------------------------------------
\* _rollback_publication

\* The target must still be what was found after the replace; the earlier
\* content is staged.
CheckUndo(p) ==
  /\ pc[p] = "check_undo"
  /\ \/ /\ NoFault
        /\ Goto(p, IF target.ino = w[p].published THEN "undo"
                                                  ELSE "rollback_failed")
     \/ Fault /\ Goto(p, "rollback_failed")
  /\ Keep /\ UNCHANGED <<used, crashes, w>>

\* The publication is taken back: the path is unlinked where there was no
\* file, replaced by a copy of the earlier content otherwise.
Undo(p) ==
  /\ pc[p] = "undo"
  /\ IF w[p].previous.ino = None
     THEN /\ Put(Absent)
          /\ \/ Goto(p, "failed") /\ NoFault
             \/ Goto(p, "rollback_failed") /\ Fault
          /\ UNCHANGED <<used, w>>
     ELSE \E i \in FreeInodes :
          /\ Put([ino |-> i, data |-> w[p].previous.data])
          /\ used' = used \union {i}
          /\ Remember(p, [w[p] EXCEPT !.published = i])
          /\ Goto(p, "verify_undo")
          /\ NoFault
  /\ UNCHANGED crashes

\* The restored file is synced and read back.
VerifyUndo(p) ==
  /\ pc[p] = "verify_undo"
  /\ \/ /\ NoFault
        /\ Goto(p, IF /\ target.ino = w[p].published
                      /\ target.data = w[p].previous.data
                   THEN "failed" ELSE "rollback_failed")
     \/ Fault /\ Goto(p, "rollback_failed")
  /\ Keep /\ UNCHANGED <<used, crashes, w>>

\* The updater is killed: nothing is undone, and a temporary file stays.
Crash(p) ==
  /\ pc[p] \in {"loaded"} \union Writing
  /\ crashes < MaxCrashes
  /\ crashes' = crashes + 1
  /\ Goto(p, "killed")
  /\ Keep /\ NoFault /\ UNCHANGED <<used, w>>

Next ==
  /\ \E p \in Procs :
       \/ Load(p) \/ Begin(p) \/ Stage(p) \/ Recheck(p) \/ Replace(p)
       \/ Settle(p) \/ Confirm(p) \/ Validate(p)
       \/ CheckUndo(p) \/ Undo(p) \/ VerifyUndo(p) \/ Crash(p)
  /\ UNCHANGED setting

Spec == Init /\ [][Next]_vars

-----------------------------------------------------------------------------
\* An entry whose publication was reported stays in the file, through
\* failing and killed updates of others.
PublishedKept == \A p \in Procs : pc[p] = "published" => p \in target.data

\* The entry of an update that was reported as failed is not in the file,
\* and does not come back with the update of another who has read it while
\* it was there.  Two reports are excepted, in which the code undoes nothing
\* or says that it could not: a failing read of the published identity
\* ("unsettled") and a failing rollback ("rollback_failed").
FailureUndone == \A p \in Procs : pc[p] = "failed" => p \notin target.data
=============================================================================
