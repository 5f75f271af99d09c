----------------------- MODULE FreshVerificationProofs -----------------------
(***************************************************************************)
(* Proofs about FreshVerification.  What makes cleanup and publication     *)
(* safe is an invariant about identities: a reservation a run remembers is *)
(* never newer than the file at its path, and if it is as new the file is  *)
(* the run's own, or gone.  What a verdict rests on, and what a run leaves *)
(* behind, is a second one on top of it: where its wrapper has committed,  *)
(* and that each empty file of its own is held just as it is.              *)
(***************************************************************************)
EXTENDS FreshVerification, TLAPS

Makers == Processes \cup {Somebody, None}
Files == [by : Makers, data : {"nothing", "directory", "empty", "written", "theirs"},
          ino : Nat, changed : Nat]
Holdings == [path : Paths, file : Files]
Places ==
  {"idle", "baseline", "make", "binding reserved", "verdict reserved", "capture", "resume",
   "start", "running", "event", "final", "uncommitted", "check", "suffix", "bind", "binding",
   "conclude", "concluding", "release", "done", "failed", "dead"}
Results == {"none", "completed", "rejected", "blocked", "untrusted"}
Names == Results \cup {"stage", "gate", "resumed", "started"}
Procs == [pc : Places, cand : Candidates, run : RunIds, base : Nat, rev : Nat,
          held : SUBSET Holdings, outcome : Results, warned : SUBSET Paths, left : SUBSET Paths]
Records == [name : Names, case : Cases \cup {NoCase}, status : {"running", "blocked", "later"},
            by : Processes \cup {Somebody}]

ProcTyped == proc \in [Processes -> Procs]
DiskTyped ==
  /\ disk \in [Paths -> Files]
  /\ \A x \in Paths : disk[x].data = "nothing" <=> disk[x].by = None
Others == log \in Seq(Records) /\ edited \subseteq {"documents", "HEAD", "poc"}

Own(p) == {Binding(proc[p].cand, proc[p].run), Verdict(proc[p].cand)}

\* A holding that is the run's own, and not newer than what is there.
Sound(p, h) ==
  /\ h.path \in Own(p) /\ h.file.by = p
  /\ h.file.ino <= disk[h.path].ino
  /\ h.file.ino = disk[h.path].ino => disk[h.path].by \in {p, None}

HeldSound == \A p \in Processes : \A h \in proc[p].held : Sound(p, h)

IInv == ProcTyped /\ DiskTyped /\ Others /\ HeldSound

\* How the disk may change: a file gets a new inode, or keeps its maker or is gone.
Grows ==
  \A x \in Paths : /\ disk[x].ino <= disk'[x].ino
                   /\ disk[x].ino = disk'[x].ino => disk'[x].by \in {disk[x].by, None}

\* How a process may change: it stays with its candidate and run, and holds what it held.
Moves(p) ==
  \E s \in Procs : /\ proc' = [proc EXCEPT ![p] = s]
                   /\ s.cand = proc[p].cand /\ s.run = proc[p].run
                   /\ s.held \subseteq proc[p].held
-----------------------------------------------------------------------------
\* The paths of a run are paths.
LEMMA PathsOfRun ==
  ASSUME NEW k \in Candidates, NEW r \in RunIds
  PROVE  {Run(k, r), Case(k, r), Snapshot(r), Binding(k, r), Verdict(k)} \subseteq Paths
  <1> DEFINE S == {Run(k, r), Case(k, r), Snapshot(r), Binding(k, r), Verdict(k)}
  <1>1. S \in {{Run(j, q), Case(j, q), Snapshot(q), Binding(j, q), Verdict(j)} :
                j \in Candidates, q \in RunIds}
    OBVIOUS
  <1>2. S \subseteq UNION {{Run(j, q), Case(j, q), Snapshot(q), Binding(j, q), Verdict(j)} :
                           j \in Candidates, q \in RunIds}
    <2> HIDE DEF S
    <2> QED
      BY <1>1
  <1> QED
    BY <1>2 DEF Paths

\* The published paths are paths.
LEMMA PublishedPaths ==
  ASSUME NEW x \in Published
  PROVE  x \in Paths
  <1>1. PICK r \in RunIds : TRUE
    BY FreshAssumption
  <1>2. CASE \E k \in Candidates : x = Verdict(k)
    BY <1>1, <1>2, PathsOfRun
  <1>3. CASE \E k \in Candidates, q \in RunIds : x = Binding(k, q)
    BY <1>3, PathsOfRun
  <1> QED
    BY <1>2, <1>3 DEF Published

\* A new file is typed, present and newer than what was there.
LEMMA NewTyped ==
  ASSUME DiskTyped, NEW x \in Paths, NEW by \in Makers \ {None},
         NEW data \in {"directory", "empty", "written", "theirs"}
  PROVE  /\ New(x, by, data) \in Files
         /\ New(x, by, data).ino = disk[x].ino + 1 /\ disk[x].ino \in Nat
         /\ New(x, by, data).by = by /\ New(x, by, data).data = data
  BY DEF DiskTyped, New, File, Files

\* A file that is removed keeps the count of its path.
LEMMA RemovedTyped ==
  ASSUME NEW f \in Files
  PROVE  /\ Removed(f) \in Files /\ Removed(f).ino = f.ino
         /\ Removed(f).by = None /\ Removed(f).data = "nothing"
  BY DEF Removed, Files, Makers

\* Nobody who makes files is None.
LEMMA NotNone == Processes \cup {Somebody} \subseteq Makers \ {None}
  BY FreshAssumption DEF Processes, Makers

\* A path that gets a new file: the disk stays typed and grows.
LEMMA PutNew ==
  ASSUME DiskTyped, NEW x \in Paths, NEW by \in Processes \cup {Somebody},
         NEW data \in {"directory", "empty", "written", "theirs"},
         Put(x, New(x, by, data))
  PROVE  DiskTyped' /\ Grows
  <1>1. by \in Makers \ {None}
    BY NotNone
  <1>2. /\ New(x, by, data) \in Files
        /\ New(x, by, data).ino = disk[x].ino + 1 /\ disk[x].ino \in Nat
        /\ New(x, by, data).by = by /\ New(x, by, data).data = data
    BY <1>1, NewTyped
  <1>3. \A y \in Paths : disk'[y] = IF y = x THEN New(x, by, data) ELSE disk[y]
    BY DEF Put, DiskTyped
  <1>4. disk' \in [Paths -> Files]
    BY <1>2 DEF Put, DiskTyped
  <1>5. \A y \in Paths : disk'[y].data = "nothing" <=> disk'[y].by = None
    BY <1>1, <1>2, <1>3 DEF DiskTyped
  <1>6. \A y \in Paths : disk[y].ino \in Nat
    BY DEF DiskTyped, Files
  <1>7. Grows
    BY <1>2, <1>3, <1>6 DEF Grows
  <1> QED
    BY <1>4, <1>5, <1>7 DEF DiskTyped

\* A path that loses its file.
LEMMA PutRemoved ==
  ASSUME DiskTyped, NEW S \in SUBSET Paths,
         disk' = [x \in Paths |-> IF x \in S THEN Removed(disk[x]) ELSE disk[x]]
  PROVE  DiskTyped' /\ Grows
  <1>1. \A x \in Paths : /\ Removed(disk[x]) \in Files /\ Removed(disk[x]).ino = disk[x].ino
                         /\ Removed(disk[x]).by = None /\ Removed(disk[x]).data = "nothing"
    BY RemovedTyped DEF DiskTyped
  <1>2. \A x \in Paths : disk[x].ino \in Nat
    BY DEF DiskTyped, Files
  <1> QED
    BY <1>1, <1>2 DEF DiskTyped, Grows

\* An untouched disk.
LEMMA SameDisk ==
  ASSUME DiskTyped, UNCHANGED disk
  PROVE  DiskTyped' /\ Grows
  BY DEF DiskTyped, Grows, Files

\* The holdings stay sound on a growing disk, and one that is added is that of the path's new file.
LEMMA HeldKept ==
  ASSUME IInv, ProcTyped', DiskTyped', Grows,
         \A p \in Processes :
           /\ proc'[p].cand = proc[p].cand /\ proc'[p].run = proc[p].run
           /\ \A h \in proc'[p].held :
                \/ h \in proc[p].held
                \/ h.path \in Own(p) /\ h.file.by = p /\ h.file = disk'[h.path]
  PROVE  HeldSound'
  <1> SUFFICES ASSUME NEW p \in Processes, NEW h \in proc'[p].held
               PROVE  Sound(p, h)'
    BY DEF HeldSound
  <1>1. Own(p)' = Own(p)
    BY DEF Own, Binding, Verdict
  <1>2. h \in Holdings
    BY DEF ProcTyped, Procs
  <1>3. h.path \in Paths /\ h.file.ino \in Nat /\ disk'[h.path].ino \in Nat
    BY <1>2 DEF Holdings, Files, DiskTyped
  <1>4. CASE h \in proc[p].held
    <2>1. Sound(p, h)
      BY <1>4 DEF IInv, HeldSound
    <2>2. /\ disk[h.path].ino \in Nat /\ disk[h.path].ino <= disk'[h.path].ino
          /\ disk[h.path].ino = disk'[h.path].ino => disk'[h.path].by \in {disk[h.path].by, None}
      BY <1>3 DEF Grows, IInv, DiskTyped, Files
    <2> QED
      BY <2>1, <2>2, <1>1, <1>3 DEF Sound
  <1>5. CASE h.path \in Own(p) /\ h.file.by = p /\ h.file = disk'[h.path]
    BY <1>5, <1>1, <1>3 DEF Sound
  <1> QED
    BY <1>4, <1>5

\* A step of one process that holds nothing new.
LEMMA MovesKeeps ==
  ASSUME IInv, NEW p \in Processes, Moves(p), DiskTyped', Grows
  PROVE  ProcTyped' /\ HeldSound'
  <1>1. PICK s \in Procs : /\ proc' = [proc EXCEPT ![p] = s]
                           /\ s.cand = proc[p].cand /\ s.run = proc[p].run
                           /\ s.held \subseteq proc[p].held
    BY DEF Moves
  <1>2. ProcTyped'
    BY <1>1 DEF IInv, ProcTyped
  <1>3. \A q \in Processes : proc'[q] = IF q = p THEN s ELSE proc[q]
    BY <1>1 DEF IInv, ProcTyped
  <1>4. HeldSound'
    BY <1>1, <1>2, <1>3, HeldKept
  <1> QED
    BY <1>2, <1>4

\* What is left of a process that ends.
LEMMA EndShape ==
  ASSUME NEW p, NEW w
  PROVE  LET s == EndOf(p, w)
         IN /\ s.pc = w /\ s.cand = proc[p].cand /\ s.run = proc[p].run /\ s.base = proc[p].base
            /\ s.held = {} /\ s.warned = proc[p].warned /\ s.left = proc[p].left
  BY DEF EndOf, Fresh

LEMMA EndTyped ==
  ASSUME ProcTyped, NEW p \in Processes, NEW w \in Places
  PROVE  EndOf(p, w) \in Procs
  <1>1. /\ proc[p].cand \in Candidates /\ proc[p].run \in RunIds /\ proc[p].base \in Nat
        /\ proc[p].warned \in SUBSET Paths /\ proc[p].left \in SUBSET Paths
        /\ "none" \in Results /\ {} \in SUBSET Holdings /\ 0 \in Nat
    BY DEF ProcTyped, Procs, Results
  <1> QED
    BY <1>1 DEF EndOf, Fresh, Procs

\* Going on, and ending.
LEMMA GoesMoves ==
  ASSUME ProcTyped, NEW p \in Processes, NEW w \in Places, Goes(p, w)
  PROVE  Moves(p)
  <1>1. proc[p] \in Procs
    BY DEF ProcTyped
  <1>2. EndOf(p, w) \in Procs
    BY EndTyped
  <1>3. [proc[p] EXCEPT !.pc = w] \in Procs
    BY <1>1 DEF Procs
  <1>4. CASE w \in Ended
    BY <1>1, <1>2, <1>4, EndShape DEF Goes, Becomes, Moves
  <1>5. CASE w \notin Ended
    BY <1>1, <1>3, <1>5 DEF Goes, Becomes, Moves, Procs
  <1> QED
    BY <1>4, <1>5

\* The places a process may be sent to.
LEMMA FailsString == ASSUME NEW p PROVE Fails(p) \in Places
  BY DEF Fails, Places

\* A record of a case is a record.
LEMMA CaseRecord ==
  ASSUME ProcTyped, NEW p \in Processes, NEW name \in Names, NEW status \in {"running", "blocked"}
  PROVE  Event(name, Mine(p), status, p) \in Records
  <1>1. proc[p].cand \in Candidates /\ proc[p].run \in RunIds
    BY DEF ProcTyped, Procs
  <1>2. Mine(p) \in Cases
    BY <1>1, FreshAssumption DEF Mine
  <1> QED
    BY <1>2 DEF Event, Records

\* A record somebody else adds is a record.
LEMMA OtherRecord ==
  ASSUME NEW name \in Names, NEW status \in {"running", "blocked", "later"}
  PROVE  Event(name, NoCase, status, Somebody) \in Records
  BY DEF Event, Records

LEMMA LogGrows ==
  ASSUME Others, NEW e \in Records, log' = Append(log, e), edited' = edited
  PROVE  Others'
  BY DEF Others

LEMMA SameOthers == ASSUME Others, UNCHANGED <<log, edited>> PROVE Others'
  BY DEF Others

\* A step of one process that leaves the disk alone.
LEMMA Quiet ==
  ASSUME IInv, NEW p \in Processes, Moves(p), UNCHANGED disk, Others'
  PROVE  IInv'
  BY SameDisk, MovesKeeps DEF IInv

\* A process that becomes a record that holds what it held.
LEMMA BecomesMoves ==
  ASSUME NEW p \in Processes, NEW s \in Procs, Becomes(p, s),
         s.cand = proc[p].cand, s.run = proc[p].run, s.held = proc[p].held
  PROVE  Moves(p)
  BY DEF Becomes, Moves

\* The baseline is a length.
LEMMA LogLength == ASSUME Others PROVE Len(log) \in Nat
  BY DEF Others
-----------------------------------------------------------------------------
(* The steps of the wrapper *)

LEMMA CommitOrGiveUpKeeps ==
  ASSUME IInv, NEW p \in Processes, NEW name \in Names, NEW next \in Places,
         CommitOrGiveUp(p, name, next)
  PROVE  IInv'
  <1>1. ProcTyped /\ Others /\ proc[p] \in Procs
    BY DEF IInv, ProcTyped
  <1>2. CASE /\ Commit(p, name, "running")
             /\ Becomes(p, [proc[p] EXCEPT !.rev = @ + 1, !.pc = next])
             /\ UNCHANGED disk /\ UNCHANGED edited
    <2>1. Event(name, Mine(p), "running", p) \in Records
      BY <1>1, CaseRecord
    <2>2. Others'
      BY <1>1, <1>2, <2>1, LogGrows DEF Commit
    <2>3. Moves(p)
      <3> DEFINE s == [proc[p] EXCEPT !.rev = @ + 1, !.pc = next]
      <3>1. proc[p].rev \in Nat /\ proc[p].rev + 1 \in Nat
        BY <1>1 DEF Procs
      <3>2. s \in Procs /\ s.cand = proc[p].cand /\ s.run = proc[p].run /\ s.held = proc[p].held
        BY <1>1, <3>1 DEF Procs
      <3> QED
        BY <1>2, <3>2, BecomesMoves
    <2> QED
      BY <1>2, <2>2, <2>3, Quiet
  <1>3. CASE Goes(p, Fails(p)) /\ UNCHANGED log /\ UNCHANGED disk /\ UNCHANGED edited
    <2>1. Moves(p)
      BY <1>1, <1>3, FailsString, GoesMoves
    <2> QED
      BY <1>1, <1>3, <2>1, Quiet, SameOthers
  <1> QED
    BY <1>2, <1>3 DEF CommitOrGiveUp

LEMMA WrapperKeeps ==
  ASSUME IInv, NEW p \in Processes, Wrapper(p)
  PROVE  IInv'
  <1>1. ProcTyped /\ Others /\ proc[p] \in Procs /\ Len(log) \in Nat
    BY LogLength DEF IInv, ProcTyped
  <1>2. ASSUME Capture(p) PROVE IInv'
    <2>1. CASE Status(log) \in {"running", "blocked"}
      <3>1. Moves(p)
        <4> DEFINE s == [proc[p] EXCEPT !.rev = Len(log),
                           !.pc = IF Status(log) = "blocked" THEN "resume" ELSE "start"]
        <4>1. s \in Procs /\ s.cand = proc[p].cand /\ s.run = proc[p].run /\ s.held = proc[p].held
          BY <1>1 DEF Procs, Places
        <4>2. Becomes(p, s)
          BY <1>2, <2>1 DEF Capture
        <4> QED
          BY <4>1, <4>2, BecomesMoves
      <3> QED
        BY <1>1, <1>2, <3>1, Quiet, SameOthers DEF Capture
    <2>2. CASE Status(log) \notin {"running", "blocked"}
      <3>1. Moves(p)
        BY <1>1, <1>2, <2>2, FailsString, GoesMoves DEF Capture
      <3> QED
        BY <1>1, <1>2, <3>1, Quiet, SameOthers DEF Capture
    <2> QED
      BY <2>1, <2>2
  <1>3. ASSUME Resume(p) PROVE IInv'
    BY <1>3, CommitOrGiveUpKeeps DEF Resume, Names, Places
  <1>4. ASSUME Start(p) PROVE IInv'
    BY <1>4, CommitOrGiveUpKeeps DEF Start, Names, Places
  <1>5. ASSUME RecordOutcome(p) PROVE IInv'
    <2>1. CASE /\ Commit(p, proc[p].outcome, IF proc[p].outcome = "blocked" THEN "blocked" ELSE "running")
               /\ Goes(p, "final") /\ UNCHANGED disk /\ UNCHANGED edited
      <3> DEFINE status == IF proc[p].outcome = "blocked" THEN "blocked" ELSE "running"
      <3>1. status \in {"running", "blocked"} /\ proc[p].outcome \in Names
        BY <1>1 DEF Procs, Names
      <3> HIDE DEF status
      <3>2. Event(proc[p].outcome, Mine(p), status, p) \in Records
        BY <1>1, <3>1, CaseRecord
      <3>3. Others'
        BY <1>1, <2>1, <3>2, LogGrows DEF Commit, status
      <3>4. Moves(p)
        BY <1>1, <2>1, GoesMoves DEF Places
      <3> QED
        BY <2>1, <3>3, <3>4, Quiet
    <2>2. CASE Goes(p, "uncommitted") /\ UNCHANGED log /\ UNCHANGED disk /\ UNCHANGED edited
      BY <1>1, <2>2, GoesMoves, Quiet, SameOthers DEF Places
    <2> QED
      BY <1>5, <2>1, <2>2 DEF RecordOutcome
  <1>6. ASSUME Finish(p) PROVE IInv'
    <2>1. PICK w \in Places : Goes(p, w)
      BY <1>6, FailsString DEF Finish, Places
    <2>2. Moves(p)
      BY <1>1, <2>1, GoesMoves
    <2> QED
      BY <1>1, <1>6, <2>2, Quiet, SameOthers DEF Finish
  <1>7. ASSUME NEW o \in {"completed", "rejected", "blocked", "untrusted"}, ContainerEnds(p, o)
        PROVE  IInv'
    <2>1. PICK w \in Places : Becomes(p, [proc[p] EXCEPT !.outcome = o, !.pc = w])
      <3>1. (IF o = "untrusted" THEN Fails(p) ELSE "event") \in Places
        BY FailsString DEF Places
      <3> QED
        BY <1>7, <3>1 DEF ContainerEnds
    <2>2. Moves(p)
      <3> DEFINE s == [proc[p] EXCEPT !.outcome = o, !.pc = w]
      <3>1. s \in Procs /\ s.cand = proc[p].cand /\ s.run = proc[p].run /\ s.held = proc[p].held
        BY <1>1 DEF Procs, Results
      <3> QED
        BY <2>1, <3>1, BecomesMoves
    <2> QED
      BY <1>1, <1>7, <2>2, Quiet, SameOthers DEF ContainerEnds
  <1> QED
    BY <1>2, <1>3, <1>4, <1>5, <1>6, <1>7 DEF Wrapper
-----------------------------------------------------------------------------
(* The steps of a fresh run *)

\* The file a run reserves or publishes is its own.
LEMMA TargetOwn ==
  ASSUME ProcTyped, NEW v \in Processes
  PROVE  Target(v) \in Own(v) /\ Target(v) \in Paths
  <1>1. proc[v].cand \in Candidates /\ proc[v].run \in RunIds
    BY DEF ProcTyped, Procs
  <1> QED
    BY <1>1, PathsOfRun DEF Target, Own

\* A step of one process that makes a file of its own and holds it.
LEMMA Takes ==
  ASSUME IInv, NEW p \in Processes, NEW x \in Own(p) \cap Paths,
         NEW data \in {"empty", "written"},
         Put(x, New(x, p, data)),
         NEW s \in Procs, Becomes(p, s), s.cand = proc[p].cand, s.run = proc[p].run,
         \A h \in s.held : h \in proc[p].held \/ h = [path |-> x, file |-> New(x, p, data)]
  PROVE  ProcTyped' /\ DiskTyped' /\ HeldSound'
  <1>1. DiskTyped' /\ Grows
    BY PutNew DEF IInv
  <1>2. ProcTyped' /\ \A q \in Processes : proc'[q] = IF q = p THEN s ELSE proc[q]
    BY DEF IInv, ProcTyped, Becomes
  <1>3. disk'[x] = New(x, p, data) /\ disk'[x].by = p
    BY DEF Put, IInv, DiskTyped, New, File
  <1>4. \A h \in s.held : h \in proc[p].held \/ (h.path = x /\ h.file = disk'[x] /\ h.file.by = p)
    BY <1>3
  <1>5. HeldSound'
    BY <1>1, <1>2, <1>4, HeldKept
  <1> QED
    BY <1>1, <1>2, <1>5

\* Letting go: what is removed, and what the run says of the rest.
Held(v) == {h.path : h \in proc[v].held}
Gone(v, failing) == {h.path : h \in {g \in proc[v].held : MayRelease(g)} \ failing}
Let(v, failing) ==
  [EndOf(v, "failed") EXCEPT !.warned = @ \cup (Held(v) \ Gone(v, failing)),
                             !.left = @ \cup {h.path : h \in failing}]
Releases(v, failing) ==
  /\ Gone(v, failing) \in SUBSET Paths
  /\ disk' = [x \in Paths |-> IF x \in Gone(v, failing) THEN Removed(disk[x]) ELSE disk[x]]
  /\ Becomes(v, Let(v, failing))

LEMMA ReleaseShape ==
  ASSUME ProcTyped, NEW v \in Processes, Release(v)
  PROVE  \E failing \in SUBSET {h \in proc[v].held : MayRelease(h)} : Releases(v, failing)
  <1>1. PICK failing \in SUBSET {h \in proc[v].held : MayRelease(h)} :
          /\ disk' = [x \in Paths |-> IF x \in Gone(v, failing) THEN Removed(disk[x]) ELSE disk[x]]
          /\ Becomes(v, Let(v, failing))
    BY DEF Release, Gone, Let, Held
  <1>2. Gone(v, failing) \in SUBSET Paths
    BY DEF ProcTyped, Procs, Holdings, Gone
  <1> QED
    BY <1>1, <1>2 DEF Releases

LEMMA ReleasedTyped ==
  ASSUME ProcTyped, NEW v \in Processes,
         NEW failing \in SUBSET {h \in proc[v].held : MayRelease(h)}
  PROVE  LET s == Let(v, failing)
         IN /\ s \in Procs /\ s.pc = "failed" /\ s.cand = proc[v].cand /\ s.run = proc[v].run
            /\ s.base = proc[v].base /\ s.held = {}
            /\ s.warned = proc[v].warned \cup (Held(v) \ Gone(v, failing))
            /\ s.left = proc[v].left \cup {h.path : h \in failing}
  <1>1. EndOf(v, "failed") \in Procs
    BY EndTyped DEF Places
  <1>2. \A h \in proc[v].held : h.path \in Paths
    BY DEF ProcTyped, Procs, Holdings
  <1>3. Held(v) \in SUBSET Paths /\ {h.path : h \in failing} \in SUBSET Paths
    BY <1>2 DEF Held
  <1>4. Let(v, failing) \in Procs
    BY <1>1, <1>3 DEF Let, Procs
  <1>5. LET s == EndOf(v, "failed")
        IN /\ s.pc = "failed" /\ s.cand = proc[v].cand /\ s.run = proc[v].run
           /\ s.base = proc[v].base
           /\ s.held = {} /\ s.warned = proc[v].warned /\ s.left = proc[v].left
    BY EndShape
  <1> QED
    BY <1>1, <1>4, <1>5 DEF Let, Procs

\* A file that is let go of was held just as it is.
LEMMA ReleasedHeld ==
  ASSUME ProcTyped, DiskTyped, NEW v \in Processes, Release(v), NEW x \in Paths, disk'[x] # disk[x]
  PROVE  disk'[x] = Removed(disk[x]) /\ \E h \in proc[v].held : h.path = x /\ MayRelease(h)
  <1>1. PICK failing \in SUBSET {h \in proc[v].held : MayRelease(h)} : Releases(v, failing)
    BY ReleaseShape
  <1>2. x \in Gone(v, failing) /\ disk'[x] = Removed(disk[x])
    BY <1>1 DEF Releases
  <1> QED
    BY <1>2 DEF Gone

LEMMA VerifierKeeps ==
  ASSUME IInv, NEW v \in Verifiers, Verifier(v)
  PROVE  IInv'
  <1>1. ProcTyped /\ DiskTyped /\ Others /\ v \in Processes /\ proc[v] \in Procs /\ Len(log) \in Nat
    BY LogLength DEF IInv, ProcTyped, Processes
  <1>2. \A w \in Places : Goes(v, w) => Moves(v)
    BY <1>1, GoesMoves
  <1>3. Target(v) \in Own(v) \cap Paths
    BY <1>1, TargetOwn
  <1>4. ASSUME BindInputs(v) PROVE IInv'
    <2>1. Moves(v)
      BY <1>2, <1>4 DEF BindInputs, Places
    <2> QED
      BY <1>1, <1>4, <2>1, Quiet, SameOthers DEF BindInputs, UnchangedWorld
  <1>5. ASSUME BindJournal(v) PROVE IInv'
    <2> DEFINE s == [proc[v] EXCEPT !.pc = "make", !.base = Len(log)]
    <2>1. Becomes(v, s) \/ Goes(v, "failed")
      BY <1>5 DEF BindJournal
    <2>2. Moves(v)
      <3>1. s \in Procs /\ s.cand = proc[v].cand /\ s.run = proc[v].run /\ s.held = proc[v].held
        BY <1>1 DEF Procs, Places
      <3> HIDE DEF s
      <3> QED
        BY <1>1, <1>2, <2>1, <3>1, BecomesMoves DEF Places
    <2> QED
      BY <1>1, <1>5, <2>2, Quiet, SameOthers DEF BindJournal, UnchangedWorld
  <1>6. ASSUME MakeDirectories(v) PROVE IInv'
    <2>1. PICK S \in SUBSET Paths :
            disk' = [x \in Paths |-> IF x \in S THEN New(x, v, "directory") ELSE disk[x]]
      <3> DEFINE S == {x \in Paths :
                         \E i \in {k \in 1..3 : \A j \in 1..k : IsAbsent(Directories(v)[j])} :
                           x = Directories(v)[i]}
      <3>1. disk' = [x \in Paths |-> IF x \in S THEN New(x, v, "directory") ELSE disk[x]]
        BY <1>6 DEF MakeDirectories
      <3> QED
        BY <3>1
    <2>2. DiskTyped' /\ Grows
      <3>1. v \in Makers \ {None}
        BY <1>1, NotNone
      <3>2. \A x \in Paths :
              /\ New(x, v, "directory") \in Files
              /\ New(x, v, "directory").ino = disk[x].ino + 1 /\ disk[x].ino \in Nat
              /\ New(x, v, "directory").by = v /\ New(x, v, "directory").data = "directory"
        BY <1>1, <3>1, NewTyped
      <3> QED
        BY <1>1, <2>1, <3>1, <3>2 DEF DiskTyped, Grows
    <2>3. Moves(v)
      BY <1>2, <1>6 DEF MakeDirectories, Places
    <2> QED
      BY <1>1, <1>6, <2>2, <2>3, MovesKeeps, SameOthers DEF MakeDirectories, UnchangedWorld, IInv
  <1>7. ASSUME Reserve(v) PROVE IInv'
    <2> DEFINE x == Target(v)
               s == [proc[v] EXCEPT !.held = @ \cup {[path |-> x, file |-> New(x, v, "empty")]},
                       !.pc = IF @ = "binding reserved" THEN "verdict reserved" ELSE "capture"]
    <2>1. CASE CanReserve(x)
      <3>1. Put(x, New(x, v, "empty")) /\ Becomes(v, s)
        BY <1>7, <2>1 DEF Reserve
      <3>2. New(x, v, "empty") \in Files
        BY <1>1, <1>3, NotNone, NewTyped
      <3>3. [path |-> x, file |-> New(x, v, "empty")] \in Holdings
        BY <1>3, <3>2 DEF Holdings
      <3> HIDE DEF x
      <3>4. s \in Procs /\ s.cand = proc[v].cand /\ s.run = proc[v].run
        BY <1>1, <3>3 DEF Procs, Places
      <3>5. \A h \in s.held : h \in proc[v].held \/ h = [path |-> x, file |-> New(x, v, "empty")]
        BY <1>1 DEF Procs
      <3>6. ProcTyped' /\ DiskTyped' /\ HeldSound'
        <4> x \in Own(v) \cap Paths
          BY <1>3 DEF x
        <4> HIDE DEF s
        <4> QED
          BY <1>1, <3>1, <3>4, <3>5, Takes
      <3> QED
        BY <1>1, <1>7, <3>6, SameOthers DEF Reserve, UnchangedWorld, IInv
    <2>2. CASE ~CanReserve(x)
      <3>1. Goes(v, "release") /\ UNCHANGED disk
        BY <1>7, <2>2 DEF Reserve
      <3> QED
        BY <1>1, <1>2, <1>7, <3>1, Quiet, SameOthers DEF Reserve, UnchangedWorld, Places
    <2> QED
      BY <2>1, <2>2
  <1>14. ASSUME ReserveFails(v) PROVE IInv'
    <2> DEFINE x == Target(v)
               f == New(x, v, "empty")
               s == [proc[v] EXCEPT !.held = @ \cup {[path |-> x, file |-> f]}, !.pc = "release"]
               t == [proc[v] EXCEPT !.warned = @ \cup {x}, !.left = @ \cup {x}, !.pc = "release"]
    <2>1. CASE Put(x, f) /\ Becomes(v, s)
      <3>1. [path |-> x, file |-> f] \in Holdings
        BY <1>1, <1>3, NotNone, NewTyped DEF Holdings
      <3> HIDE DEF x, f
      <3>2. s \in Procs /\ s.cand = proc[v].cand /\ s.run = proc[v].run
        BY <1>1, <3>1 DEF Procs, Places
      <3>3. \A h \in s.held : h \in proc[v].held \/ h = [path |-> x, file |-> f]
        BY <1>1 DEF Procs
      <3>4. ProcTyped' /\ DiskTyped' /\ HeldSound'
        <4> x \in Own(v) \cap Paths
          BY <1>3 DEF x
        <4> HIDE DEF s
        <4> QED
          BY <1>1, <2>1, <3>2, <3>3, Takes DEF f
      <3> QED
        BY <1>1, <1>14, <3>4, SameOthers DEF ReserveFails, IInv
    <2>2. CASE Put(x, f) /\ Becomes(v, t)
      <3>1. x \in Own(v) \cap Paths
        BY <1>3
      <3> HIDE DEF x, f
      <3>2. t \in Procs /\ t.cand = proc[v].cand /\ t.run = proc[v].run /\ t.held = proc[v].held
        BY <1>1, <3>1 DEF Procs, Places
      <3>3. ProcTyped' /\ DiskTyped' /\ HeldSound'
        <4> HIDE DEF t
        <4> QED
          BY <1>1, <2>2, <3>1, <3>2, Takes DEF f
      <3> QED
        BY <1>1, <1>14, <3>3, SameOthers DEF ReserveFails, IInv
    <2>3. CASE UNCHANGED disk /\ Goes(v, "release")
      BY <1>1, <1>2, <1>14, <2>3, Quiet, SameOthers DEF ReserveFails, Places
    <2> QED
      BY <1>14, <2>1, <2>2, <2>3 DEF ReserveFails
  <1>8. ASSUME TimeOut(v) PROVE IInv'
    BY <1>1, <1>2, <1>8, Quiet, SameOthers DEF TimeOut, Places
  <1>9. ASSUME Recheck(v) \/ CheckSuffix(v) PROVE IInv'
    <2>1. Moves(v)
      BY <1>2, <1>9 DEF Recheck, CheckSuffix, Places
    <2> QED
      BY <1>1, <1>9, <2>1, Quiet, SameOthers DEF Recheck, CheckSuffix, UnchangedWorld
  <1>10. ASSUME Replace(v) PROVE IInv'
    <2>1. Moves(v)
      BY <1>2, <1>10 DEF Replace, Places
    <2>2. DiskTyped' /\ Grows
      <3>1. CASE StillHeld(v, Target(v))
        BY <1>1, <1>3, <1>10, <3>1, PutNew DEF Replace
      <3>2. CASE ~StillHeld(v, Target(v))
        BY <1>1, <1>10, <3>2, SameDisk DEF Replace
      <3> QED
        BY <3>1, <3>2
    <2> QED
      BY <1>1, <1>10, <2>1, <2>2, MovesKeeps, SameOthers DEF Replace, UnchangedWorld, IInv
  <1>11. ASSUME Settle(v) PROVE IInv'
    <2> DEFINE s == [proc[v] EXCEPT !.held = @ \ Holds(v, Target(v)), !.pc = "conclude"]
    <2>1. Goes(v, "release") \/ Goes(v, "done") \/ Becomes(v, s)
      BY <1>11 DEF Settle
    <2>2. s \in Procs /\ s.cand = proc[v].cand /\ s.run = proc[v].run /\ s.held \subseteq proc[v].held
      BY <1>1 DEF Procs, Places
    <2>3. Moves(v)
      BY <1>2, <2>1, <2>2 DEF Moves, Becomes, Places
    <2> QED
      BY <1>1, <1>11, <2>3, Quiet, SameOthers DEF Settle, UnchangedWorld
  <1>12. ASSUME RollBack(v) PROVE IInv'
    <2> DEFINE x == Target(v)
               f == New(x, v, "empty")
               s == [proc[v] EXCEPT !.pc = "release", !.held = Adopted(v, x, f)]
               t == [proc[v] EXCEPT !.pc = "release", !.left = @ \cup {x}]
    <2>3. CASE Put(x, f) /\ Becomes(v, t)
      <3>1. x \in Own(v) \cap Paths
        BY <1>3
      <3> HIDE DEF x, f
      <3>2. t \in Procs /\ t.cand = proc[v].cand /\ t.run = proc[v].run /\ t.held = proc[v].held
        BY <1>1, <3>1 DEF Procs, Places
      <3>3. ProcTyped' /\ DiskTyped' /\ HeldSound'
        <4> HIDE DEF t
        <4> QED
          BY <1>1, <2>3, <3>1, <3>2, Takes DEF f
      <3> QED
        BY <1>1, <1>12, <3>3, SameOthers DEF RollBack, IInv
    <2>1. CASE Put(x, f) /\ Becomes(v, s)
      <3>2. f \in Files
        BY <1>1, <1>3, NotNone, NewTyped
      <3>3. [path |-> x, file |-> f] \in Holdings
        BY <1>3, <3>2 DEF Holdings
      <3> HIDE DEF x, f
      <3>4. s \in Procs /\ s.cand = proc[v].cand /\ s.run = proc[v].run
        BY <1>1, <3>3 DEF Procs, Places, Adopted
      <3>5. \A h \in s.held : h \in proc[v].held \/ h = [path |-> x, file |-> f]
        BY <1>1 DEF Procs, Adopted
      <3>6. ProcTyped' /\ DiskTyped' /\ HeldSound'
        <4>1. x \in Own(v) \cap Paths
          BY <1>3 DEF x
        <4> HIDE DEF s
        <4> QED
          BY <1>1, <2>1, <3>4, <3>5, <4>1, Takes DEF f
      <3> QED
        BY <1>1, <1>12, <3>6, SameOthers DEF RollBack, IInv
    <2>2. CASE UNCHANGED disk /\ Goes(v, "release")
      BY <1>1, <1>2, <1>12, <2>2, Quiet, SameOthers DEF RollBack, Places
    <2> QED
      BY <1>12, <2>1, <2>2, <2>3 DEF RollBack
  <1>13. ASSUME Release(v) PROVE IInv'
    <2>1. PICK failing \in SUBSET {h \in proc[v].held : MayRelease(h)} : Releases(v, failing)
      BY <1>1, <1>13, ReleaseShape
    <2>2. DiskTyped' /\ Grows
      BY <1>1, <2>1, PutRemoved DEF Releases
    <2>3. Moves(v)
      BY <1>1, <2>1, ReleasedTyped DEF Releases, Becomes, Moves
    <2> QED
      BY <1>1, <1>13, <2>2, <2>3, MovesKeeps, SameOthers DEF Release, IInv
  <1> QED
    BY <1>4, <1>5, <1>6, <1>7, <1>8, <1>9, <1>10, <1>11, <1>12, <1>13, <1>14 DEF Verifier
-----------------------------------------------------------------------------
(* The other steps *)

\* A step of others that touches no process.
LEMMA NoProcess ==
  ASSUME IInv, UNCHANGED proc, DiskTyped', Grows, Others'
  PROVE  IInv'
  <1>1. ProcTyped'
    BY DEF IInv, ProcTyped
  <1>2. HeldSound'
    BY <1>1, HeldKept
  <1> QED
    BY <1>1, <1>2 DEF IInv

\* A file that is changed where it is stays its maker's.
LEMMA PutInPlace ==
  ASSUME DiskTyped, NEW x \in Paths, ~IsAbsent(x), NEW f \in Files,
         f.ino = disk[x].ino, f.by = disk[x].by, f.data # "nothing", Put(x, f)
  PROVE  DiskTyped' /\ Grows
  <1>1. \A y \in Paths : disk'[y] = IF y = x THEN f ELSE disk[y]
    BY DEF Put, DiskTyped
  <1>2. disk' \in [Paths -> Files]
    BY DEF Put, DiskTyped
  <1>3. disk[x].by # None
    BY DEF DiskTyped, IsAbsent
  <1>4. \A y \in Paths : disk'[y].data = "nothing" <=> disk'[y].by = None
    BY <1>1, <1>3 DEF DiskTyped
  <1>5. \A y \in Paths : disk[y].ino \in Nat
    BY DEF DiskTyped, Files
  <1> QED
    BY <1>1, <1>2, <1>4, <1>5 DEF DiskTyped, Grows

LEMMA CallByHandKeeps ==
  ASSUME IInv, NEW h \in Hands, CallByHand(h)
  PROVE  IInv'
  <1>1. ProcTyped /\ DiskTyped /\ Others /\ h \in Processes
    BY DEF IInv, Processes
  <1>2. Moves(h)
    BY <1>1, GoesMoves DEF CallByHand, Places
  <1>3. Mine(h) \in Paths
    <2>1. proc[h].cand \in Candidates /\ proc[h].run \in RunIds
      BY <1>1 DEF ProcTyped, Procs
    <2> QED
      BY <2>1, PathsOfRun DEF Mine, Case
  <1>4. DiskTyped' /\ Grows
    BY <1>1, <1>3, PutNew, SameDisk DEF CallByHand
  <1> QED
    BY <1>1, <1>2, <1>4, MovesKeeps, SameOthers DEF CallByHand, UnchangedWorld, IInv

LEMMA KillKeeps ==
  ASSUME IInv, NEW p \in Processes, Kill(p)
  PROVE  IInv'
  BY GoesMoves, Quiet, SameOthers DEF Kill, Places, IInv

LEMMA WorldKeeps ==
  ASSUME IInv, World
  PROVE  IInv'
  <1>1. DiskTyped /\ Others
    BY DEF IInv
  <1>2. ASSUME NEW x \in Published, Clear(x) PROVE IInv'
    <2>1. x \in Paths
      BY PublishedPaths
    <2>2. disk' = [y \in Paths |-> IF y \in {x} THEN Removed(disk[y]) ELSE disk[y]]
      BY <1>1, <1>2, <2>1 DEF Clear, Put, DiskTyped
    <2>3. DiskTyped' /\ Grows
      <3> DEFINE S == {x}
      <3>1. S \in SUBSET Paths /\ disk' = [y \in Paths |-> IF y \in S THEN Removed(disk[y]) ELSE disk[y]]
        BY <2>1, <2>2
      <3> HIDE DEF S
      <3> QED
        BY <1>1, <3>1, PutRemoved
    <2> QED
      BY <1>1, <1>2, <2>3, NoProcess, SameOthers DEF Clear
  <1>3. ASSUME NEW x \in Published, Meddle(x) PROVE IInv'
    <2>1. x \in Paths
      BY PublishedPaths
    <2>2. CASE Put(x, New(x, Somebody, "theirs"))
      BY <1>1, <2>1, <2>2, PutNew, <1>3, NoProcess, SameOthers DEF Meddle
    <2>3. CASE ~IsAbsent(x) /\ Put(x, [disk[x] EXCEPT !.changed = @ + 1, !.data = "theirs"])
      <3> DEFINE f == [disk[x] EXCEPT !.changed = @ + 1, !.data = "theirs"]
      <3>0. disk[x] \in Files /\ disk[x].changed + 1 \in Nat
        BY <1>1, <2>1 DEF DiskTyped, Files
      <3>1. f \in Files /\ f.ino = disk[x].ino /\ f.by = disk[x].by /\ f.data # "nothing"
        BY <3>0 DEF Files
      <3> HIDE DEF f
      <3>2. DiskTyped' /\ Grows
        BY <1>1, <2>1, <2>3, <3>1, PutInPlace DEF f
      <3> QED
        BY <1>1, <1>3, <3>2, NoProcess, SameOthers DEF Meddle
    <2> QED
      BY <1>3, <2>2, <2>3 DEF Meddle
  <1>4. ASSUME NEW r \in RunIds, EditSnapshot(r) PROVE IInv'
    <2>1. CASE Snapshot(r) \in Paths
      <3> DEFINE x == Snapshot(r)
                 f == [disk[x] EXCEPT !.data = "theirs"]
      <3>1. f \in Files /\ f.ino = disk[x].ino /\ f.by = disk[x].by /\ f.data # "nothing"
        BY <1>1, <2>1 DEF DiskTyped, Files
      <3>2. ~IsAbsent(x) /\ Put(x, f)
        BY <1>4 DEF EditSnapshot, IsAbsent
      <3> HIDE DEF f, x
      <3>3. DiskTyped' /\ Grows
        BY <1>1, <2>1, <3>1, <3>2, PutInPlace DEF x
      <3> QED
        BY <1>1, <1>4, <3>3, NoProcess, SameOthers DEF EditSnapshot
    <2>2. CASE Snapshot(r) \notin Paths
      <3>1. UNCHANGED disk
        BY <1>1, <1>4, <2>2 DEF EditSnapshot, Put, DiskTyped
      <3> QED
        BY <1>1, <1>4, <3>1, SameDisk, NoProcess, SameOthers DEF EditSnapshot
    <2> QED
      BY <2>1, <2>2
  <1>5. ASSUME NEW part \in {"documents", "HEAD", "poc"}, Edit(part) PROVE IInv'
    <2>1. Others'
      BY <1>1, <1>5 DEF Edit, Others
    <2> QED
      BY <1>1, <1>5, <2>1, SameDisk, NoProcess DEF Edit
  <1>6. ASSUME NEW from, NEW to \in {"running", "later"}, OtherEvent(from, to) PROVE IInv'
    <2>1. Event("stage", NoCase, to, Somebody) \in Records
      BY OtherRecord DEF Names
    <2>2. Others'
      BY <1>1, <1>6, <2>1, LogGrows DEF OtherEvent
    <2> QED
      BY <1>1, <1>6, <2>2, SameDisk, NoProcess DEF OtherEvent
  <1>7. ASSUME GateBlocks PROVE IInv'
    <2> DEFINE e == Event("gate", NoCase, "running", Somebody)
               d == Event("gate", NoCase, "blocked", Somebody)
    <2>1. e \in Records /\ d \in Records
      BY OtherRecord DEF Names
    <2> HIDE DEF e, d
    <2>2. <<e, d>> \in Seq(Records)
      BY <2>1
    <2>3. log' = log \o <<e, d>>
      BY <1>7 DEF GateBlocks, e, d
    <2>4. Others'
      BY <1>1, <1>7, <2>2, <2>3 DEF GateBlocks, Others
    <2> QED
      BY <1>1, <1>7, <2>4, SameDisk, NoProcess DEF GateBlocks
  <1> QED
    BY <1>2, <1>3, <1>4, <1>5, <1>6, <1>7 DEF World
-----------------------------------------------------------------------------
(* The invariant and what it gives *)

\* The invariant holds at the start.
LEMMA InitIInv == ASSUME Init PROVE IInv
  <1>1. PICK cast \in Casts, k \in [Processes -> Candidates], r \in [Processes -> RunIds] :
          proc = [p \in Processes |-> [Fresh(k[p], r[p]) EXCEPT !.pc = IF p \in cast THEN @ ELSE "dead"]]
    BY DEF Init
  <1>2. ASSUME NEW p \in Processes PROVE proc[p] \in Procs /\ proc[p].held = {}
    <2>1. k[p] \in Candidates /\ r[p] \in RunIds /\ {} \in SUBSET Holdings /\ 0 \in Nat
      OBVIOUS
    <2> QED
      BY <1>1, <2>1 DEF Fresh, Procs, Places, Results
  <1>3. ProcTyped
    BY <1>1, <1>2 DEF ProcTyped
  <1>4. DiskTyped
    BY DEF Init, DiskTyped, Files, File, Makers
  <1>5. Others
    <2>1. Event("stage", NoCase, "running", Somebody) \in Records
      BY OtherRecord DEF Names
    <2> QED
      BY <2>1 DEF Init, Others
  <1> QED
    BY <1>2, <1>3, <1>4, <1>5 DEF IInv, HeldSound

\* Every step preserves it.
LEMMA NextIInv == ASSUME IInv, [Next]_vars PROVE IInv'
  <1>1. ASSUME NEW v \in Verifiers, Verifier(v) PROVE IInv'
    BY <1>1, VerifierKeeps
  <1>2. ASSUME NEW h \in Hands, CallByHand(h) PROVE IInv'
    BY <1>2, CallByHandKeeps
  <1>3. ASSUME NEW p \in Processes, Wrapper(p) \/ Kill(p) PROVE IInv'
    BY <1>3, WrapperKeeps, KillKeeps
  <1>4. ASSUME World PROVE IInv'
    BY <1>4, WorldKeeps
  <1>5. ASSUME UNCHANGED vars PROVE IInv'
    <2>1. UNCHANGED proc /\ DiskTyped' /\ Grows /\ Others'
      BY <1>5, SameDisk, SameOthers DEF IInv, vars
    <2> QED
      BY <2>1, NoProcess
  <1> QED
    BY <1>1, <1>2, <1>3, <1>4, <1>5 DEF Next

\* Types, and holdings that name the run's own files: a path without a file has no maker.
LEMMA IInvTypeOK == ASSUME IInv PROVE TypeOK
  <1>1. ASSUME NEW x \in Paths
        PROVE  /\ disk[x] \in [by : Processes \cup {Somebody, None}, ino : Nat, changed : Nat,
                               data : {"nothing", "directory", "empty", "written", "theirs"}]
               /\ IsAbsent(x) <=> disk[x].by = None
    BY DEF IInv, DiskTyped, Files, Makers, IsAbsent
  <1>2. ASSUME NEW i \in DOMAIN log PROVE log[i].status \in {"running", "blocked", "later"}
    <2>1. log \in Seq(Records)
      BY DEF IInv, Others
    <2>2. i \in 1..Len(log)
      BY <2>1
    <2>3. log[i] \in Records
      BY <2>1, <2>2
    <2> QED
      BY <2>3 DEF Records
  <1>3. \A p \in Processes : \A h \in proc[p].held :
          h.path \in {Binding(proc[p].cand, proc[p].run), Verdict(proc[p].cand)} /\ h.file.by = p
    BY DEF IInv, HeldSound, Sound, Own
  <1> QED
    BY <1>1, <1>2, <1>3 DEF TypeOK, IInv, Others, ProcTyped, Procs

\* What a step does to the file of somebody else it does not do for the run whose turn it is.
LEMMA StepKeepsOthers ==
  ASSUME IInv, [Next]_vars, NEW x \in Published, NEW v \in Verifiers,
         disk[x] # disk'[x], disk[x].by # v, ~IsAbsent(x)
  PROVE  proc[v] = proc'[v]
  <1>1. /\ ProcTyped /\ DiskTyped /\ x \in Paths /\ v \in Processes /\ disk[x].by # None
    BY PublishedPaths DEF IInv, Processes, DiskTyped, IsAbsent
  <1>2. ASSUME NEW p \in Processes, NEW s, Becomes(p, s), p # v PROVE proc[v] = proc'[v]
    BY <1>1, <1>2 DEF Becomes, ProcTyped
  <1>3. ASSUME NEW p \in Processes, NEW w, Goes(p, w), p # v PROVE proc[v] = proc'[v]
    BY <1>2, <1>3 DEF Goes
  <1>4. CASE \E p \in Processes : Wrapper(p) \/ Kill(p)
    BY <1>4 DEF Wrapper, Kill, Capture, Resume, Start, CommitOrGiveUp, RecordOutcome, Finish,
                ContainerEnds
  <1>5. CASE \E h \in Hands : CallByHand(h)
    BY <1>1, <1>3, <1>5, FreshAssumption DEF CallByHand, Processes
  <1>6. CASE World
    BY <1>6 DEF World, Clear, Meddle, EditSnapshot, Edit, OtherEvent, GateBlocks
  <1>7. CASE \E w \in Verifiers : w # v /\ Verifier(w)
    <2>1. PICK w \in Verifiers : w # v /\ Verifier(w)
      BY <1>7
    <2>2. (\E q : Goes(w, q)) \/ (\E s : Becomes(w, s))
      BY <2>1 DEF Verifier, BindInputs, BindJournal, MakeDirectories, Reserve, ReserveFails, TimeOut,
                  Recheck, CheckSuffix, Replace, Settle, RollBack, Release
    <2> QED
      BY <1>2, <1>3, <2>1, <2>2 DEF Processes
  <1>8. CASE Verifier(v)
    <2>1. CASE MakeDirectories(v)
      <3>1. PICK i \in 1..3 : IsAbsent(Directories(v)[i]) /\ x = Directories(v)[i]
        <4> DEFINE made == {i \in 1..3 : \A j \in 1..i : IsAbsent(Directories(v)[j])}
        <4>1. disk' = [y \in Paths |-> IF \E i \in made : y = Directories(v)[i]
                                      THEN New(y, v, "directory") ELSE disk[y]]
          BY <2>1 DEF MakeDirectories
        <4>2. PICK i \in made : x = Directories(v)[i]
          BY <1>1, <4>1
        <4>3. i \in 1..3 /\ i \in 1..i
          BY <4>2
        <4> QED
          BY <4>2, <4>3
      <3> QED
        BY <3>1
    <2>2. CASE Reserve(v) \/ ReserveFails(v)
      BY <1>1, <2>2 DEF Reserve, ReserveFails, CanReserve, Put, DiskTyped
    <2>3. CASE Replace(v)
      <3>1. StillHeld(v, Target(v)) /\ x = Target(v)
        BY <1>1, <2>3 DEF Replace, Put, DiskTyped
      <3>2. PICK h \in proc[v].held : h.path = x /\ h.file.ino = disk[x].ino
        BY <3>1 DEF StillHeld, Holds
      <3> QED
        BY <1>1, <3>2 DEF IInv, HeldSound, Sound
    <2>4. CASE RollBack(v)
      BY <1>1, <2>4 DEF RollBack, Put, DiskTyped
    <2>5. CASE Release(v)
      <3>1. PICK h \in proc[v].held : h.path = x /\ MayRelease(h)
        BY <1>1, <2>5, ReleasedHeld
      <3> QED
        BY <1>1, <3>1 DEF MayRelease, IInv, HeldSound, Sound
    <2>6. CASE UNCHANGED disk
      BY <2>6
    <2> QED
      BY <1>8, <2>1, <2>2, <2>3, <2>4, <2>5, <2>6
         DEF Verifier, BindInputs, BindJournal, TimeOut, Recheck, CheckSuffix, Settle
  <1>9. CASE UNCHANGED vars
    BY <1>9 DEF vars
  <1> QED
    BY <1>4, <1>5, <1>6, <1>7, <1>8, <1>9 DEF Next

\* Files, processes and journal are what they are declared to be, in every state of every number
\* of runs; a run remembers no reservation but of the two files it publishes.
THEOREM FreshTypes == Spec => []TypeOK
  <1>1. Init => IInv
    BY InitIInv
  <1>2. IInv /\ [Next]_vars => IInv'
    BY NextIInv
  <1>3. IInv => TypeOK
    BY IInvTypeOK
  <1> QED
    BY <1>1, <1>2, <1>3, PTL DEF Spec

\* Cleanup and publication of a fresh run never touch a file that is not its own, whoever races,
\* clears, meddles or is killed.
THEOREM FreshKeepsOthers == Spec => OthersFilesKept
  <1>1. Init => IInv
    BY InitIInv
  <1>2. IInv /\ [Next]_vars => IInv'
    BY NextIInv
  <1>3. IInv /\ [Next]_vars =>
          [\A x \in Published, v \in Verifiers :
             disk[x] # disk'[x] /\ disk[x].by # v /\ ~IsAbsent(x) => proc[v] = proc'[v]]_vars
    BY StepKeepsOthers
  <1> QED
    BY <1>1, <1>2, <1>3, PTL DEF Spec, OthersFilesKept
-----------------------------------------------------------------------------
(* What a fresh run leaves behind *)

\* Record i of the journal was committed by the wrapper of this run.
Committed(v, i) == i \in DOMAIN log /\ log[i].by = v /\ log[i].case = Mine(v)

\* Where a run has committed: behind its baseline, up to the revision it knows.
CommitsKnown(v) ==
  /\ proc[v].pc \notin {"idle", "baseline"} \cup Ended => proc[v].base <= Len(log)
  /\ proc[v].pc \in {"resume", "start"} => proc[v].base <= proc[v].rev
  /\ proc[v].pc \in {"running", "event"} => proc[v].base < proc[v].rev /\ Committed(v, proc[v].rev)
  /\ proc[v].pc \in {"final", "check", "suffix"} =>
       /\ proc[v].base < proc[v].rev
       /\ Committed(v, proc[v].rev) /\ Committed(v, proc[v].rev + 1)

\* The two records right behind the baseline are the run's own.
OwnRecords(v) == Committed(v, proc[v].base + 1) /\ Committed(v, proc[v].base + 2)

\* A run that has passed the check of the suffix, and one that has published, has them.
PublishesOnOwn(v) ==
  /\ proc[v].pc \in {"bind", "binding", "conclude", "concluding"} => OwnRecords(v)
  /\ \A x \in Paths : disk[x].by = v /\ disk[x].data = "written" => OwnRecords(v)

\* Nothing is there of a run that has not begun.
NothingYet(v) == proc[v].pc \in {"idle", "baseline"} => \A x \in Paths : disk[x].by # v

\* An empty file of a run is one it holds just as it is, unless the run was killed or is done; or
\* one on which a system call went wrong, and the run has warned of it, or is about to: it holds
\* something at the path and has only to let go.  One that has failed has none but those.
HeldAsItIs(v, x) == \E h \in proc[v].held : h.path = x /\ h.file = disk[x]
LeftBehind(v, x) ==
  /\ x \in proc[v].left
  /\ x \in proc[v].warned \/ (proc[v].pc = "release" /\ \E h \in proc[v].held : h.path = x)
EmptyIsHeld(v) ==
  \A x \in Paths :
    disk[x].by = v /\ disk[x].data = "empty" =>
      \/ proc[v].pc \in {"dead", "done"}
      \/ proc[v].pc # "failed" /\ HeldAsItIs(v, x)
      \/ LeftBehind(v, x)

\* What is being published was reserved.
PublishesHeld(v) ==
  proc[v].pc \in {"binding", "concluding"} => \E h \in proc[v].held : h.path = Target(v)

\* The verdict of a run that is done is there.
VerdictStands(v) ==
  proc[v].pc = "done" => LET f == disk[Verdict(proc[v].cand)] IN f.by = v /\ f.data = "written"

WrittenByRuns == \A x \in Paths : disk[x].data = "written" => disk[x].by \in Verifiers

RunInv(v) ==
  /\ CommitsKnown(v) /\ PublishesOnOwn(v) /\ NothingYet(v) /\ EmptyIsHeld(v) /\ VerdictStands(v)
  /\ PublishesHeld(v)

JInv == IInv /\ WrittenByRuns /\ \A v \in Verifiers : RunInv(v)
-----------------------------------------------------------------------------
(* How a step changes the journal and what a run sees of the others *)

\* The journal keeps what it has.
LogExtends ==
  /\ Len(log) <= Len(log')
  /\ \A i \in DOMAIN log : i \in DOMAIN log' /\ log'[i] = log[i]

\* A step of others: the run stays, no new file of its own is there, and a verdict it is done
\* with stays.
Foreign(v) ==
  /\ proc'[v] = proc[v]
  /\ \A x \in Paths :
       disk'[x] # disk[x] =>
         /\ disk'[x].by = v => disk'[x].data = "theirs" /\ disk[x].by = v
         /\ ~(disk[x].by = v /\ disk[x].data = "written" /\ proc[v].pc = "done")

\* One more record.
LEMMA AppendExtends ==
  ASSUME Others, NEW e, log' = Append(log, e)
  PROVE  LogExtends
  <1>1. Len(log) \in Nat /\ DOMAIN log = 1..Len(log)
    BY DEF Others
  <1>2. Len(log') = Len(log) + 1 /\ DOMAIN log' = 1..(Len(log) + 1)
    BY <1>1 DEF Others
  <1>3. \A i \in 1..Len(log) : log'[i] = log[i]
    BY <1>1 DEF Others
  <1> QED
    BY <1>1, <1>2, <1>3 DEF LogExtends

LEMMA SameLogExtends == ASSUME Others, UNCHANGED log PROVE LogExtends
  BY LogLength DEF LogExtends

LEMMA WrapperExtends ==
  ASSUME IInv, NEW p \in Processes, Wrapper(p)
  PROVE  LogExtends
  <1>1. Others
    BY DEF IInv
  <1>2. ASSUME NEW name, NEW status, Commit(p, name, status) PROVE LogExtends
    BY <1>1, <1>2, AppendExtends DEF Commit
  <1>3. ASSUME NEW name, NEW next, CommitOrGiveUp(p, name, next) PROVE LogExtends
    BY <1>1, <1>2, <1>3, SameLogExtends DEF CommitOrGiveUp
  <1>4. ASSUME RecordOutcome(p) PROVE LogExtends
    BY <1>1, <1>2, <1>4, SameLogExtends DEF RecordOutcome
  <1> QED
    BY <1>1, <1>3, <1>4, SameLogExtends
       DEF Wrapper, Capture, Resume, Start, Finish, ContainerEnds

LEMMA WorldExtends ==
  ASSUME IInv, World
  PROVE  LogExtends
  <1>1. Others
    BY DEF IInv
  <1>2. ASSUME NEW from, NEW to, OtherEvent(from, to) PROVE LogExtends
    BY <1>1, <1>2, AppendExtends DEF OtherEvent
  <1>3. ASSUME GateBlocks PROVE LogExtends
    <2> DEFINE e == Event("gate", NoCase, "running", Somebody)
               d == Event("gate", NoCase, "blocked", Somebody)
    <2>1. log \in Seq(Records) /\ e \in Records /\ d \in Records
      BY <1>1, OtherRecord DEF Names, Others
    <2>2. log' = log \o <<e, d>>
      BY <1>3 DEF GateBlocks
    <2> HIDE DEF e, d
    <2>3. Len(log') = Len(log) + 2 /\ Len(log) \in Nat /\ DOMAIN log = 1..Len(log)
      BY <2>1, <2>2
    <2>4. DOMAIN log' = 1..(Len(log) + 2) /\ \A i \in 1..Len(log) : log'[i] = log[i]
      BY <2>1, <2>2, <2>3
    <2> QED
      BY <2>3, <2>4 DEF LogExtends
  <1> QED
    BY <1>1, <1>2, <1>3, SameLogExtends DEF World, Clear, Meddle, EditSnapshot, Edit

LEMMA StepExtends ==
  ASSUME IInv, [Next]_vars
  PROVE  LogExtends
  <1>1. Others
    BY DEF IInv
  <1>2. ASSUME NEW v \in Verifiers, Verifier(v) PROVE LogExtends
    <2>1. UNCHANGED log
      BY <1>2 DEF Verifier, BindInputs, BindJournal, MakeDirectories, Reserve, ReserveFails, TimeOut,
                  Recheck, CheckSuffix, Replace, Settle, RollBack, Release, UnchangedWorld
    <2> QED
      BY <1>1, <2>1, SameLogExtends
  <1>3. ASSUME NEW h \in Hands, CallByHand(h) PROVE LogExtends
    BY <1>1, <1>3, SameLogExtends DEF CallByHand, UnchangedWorld
  <1>4. ASSUME NEW p \in Processes, Kill(p) PROVE LogExtends
    BY <1>1, <1>4, SameLogExtends DEF Kill
  <1>5. ASSUME UNCHANGED vars PROVE LogExtends
    BY <1>1, <1>5, SameLogExtends DEF vars
  <1> QED
    BY <1>2, <1>3, <1>4, <1>5, WrapperExtends, WorldExtends DEF Next

\* The wrapper and a kill leave the disk alone.
LEMMA WrapperQuiet ==
  ASSUME NEW p, Wrapper(p) \/ Kill(p)
  PROVE  UNCHANGED disk
  BY DEF Wrapper, Kill, Capture, Resume, Start, CommitOrGiveUp, RecordOutcome, Finish,
         ContainerEnds

\* What a step of the process p does to its memory it does to no other.
LEMMA OthersStay ==
  ASSUME IInv, NEW p \in Processes, NEW q \in Processes, p # q,
         CallByHand(p) \/ Wrapper(p) \/ Kill(p) \/ Verifier(p)
  PROVE  proc'[q] = proc[q]
  <1>1. ASSUME NEW s, Becomes(p, s) PROVE proc'[q] = proc[q]
    BY <1>1 DEF Becomes, IInv, ProcTyped
  <1>2. ASSUME NEW w, Goes(p, w) PROVE proc'[q] = proc[q]
    BY <1>1, <1>2 DEF Goes
  <1>3. CASE CallByHand(p)
    BY <1>2, <1>3 DEF CallByHand
  <1>4. CASE Wrapper(p) \/ Kill(p)
    <2>1. (\E w : Goes(p, w)) \/ (\E s : Becomes(p, s))
      BY <1>4 DEF Wrapper, Kill, Capture, Resume, Start, CommitOrGiveUp, RecordOutcome, Finish,
                  ContainerEnds
    <2> QED
      BY <1>1, <1>2, <2>1
  <1>5. CASE Verifier(p)
    <2>1. (\E w : Goes(p, w)) \/ (\E s : Becomes(p, s))
      BY <1>5 DEF Verifier, BindInputs, BindJournal, MakeDirectories, Reserve, ReserveFails, TimeOut,
                  Recheck, CheckSuffix, Replace, Settle, RollBack, Release
    <2> QED
      BY <1>1, <1>2, <2>1
  <1> QED
    BY <1>3, <1>4, <1>5

\* What a fresh run does to the disk: files of its own, or none, and nothing that somebody else
\* has written.
LEMMA RunOnDisk ==
  ASSUME IInv, NEW w \in Verifiers, Verifier(w), NEW x \in Paths, disk'[x] # disk[x]
  PROVE  /\ disk'[x].by \in {w, None}
         /\ disk[x].data = "written" => disk[x].by = w
  <1>1. ProcTyped /\ DiskTyped /\ w \in Processes /\ w # None
    BY FreshAssumption DEF IInv, Processes
  <1>2. \A y, d : New(y, w, d).by = w
    BY DEF New, File
  <1>3. CASE MakeDirectories(w)
    <2> DEFINE made == {i \in 1..3 : \A j \in 1..i : IsAbsent(Directories(w)[j])}
    <2>1. disk' = [y \in Paths |-> IF \E i \in made : y = Directories(w)[i]
                                  THEN New(y, w, "directory") ELSE disk[y]]
      BY <1>3 DEF MakeDirectories
    <2>2. PICK i \in made : x = Directories(w)[i]
      BY <2>1
    <2>3. i \in 1..3 /\ i \in 1..i
      BY <2>2
    <2>4. IsAbsent(x)
      BY <2>2, <2>3
    <2>5. disk'[x] = New(x, w, "directory")
      BY <2>1, <2>2
    <2> QED
      BY <1>2, <2>4, <2>5 DEF IsAbsent
  <1>4. CASE Reserve(w) \/ ReserveFails(w)
    <2>1. x = Target(w) /\ disk'[x] = New(x, w, "empty") /\ IsAbsent(x)
      BY <1>1, <1>4 DEF Reserve, ReserveFails, CanReserve, Put, DiskTyped
    <2> QED
      BY <1>2, <2>1 DEF IsAbsent
  <1>5. CASE Replace(w)
    <2>1. x = Target(w) /\ disk'[x] = New(x, w, "written") /\ StillHeld(w, x)
      BY <1>1, <1>5 DEF Replace, Put, DiskTyped
    <2>2. PICK h \in proc[w].held : h.path = x /\ h.file.ino = disk[x].ino
      BY <2>1 DEF StillHeld, Holds
    <2>3. disk[x].by \in {w, None}
      BY <1>1, <2>2 DEF IInv, HeldSound, Sound
    <2> QED
      BY <1>1, <1>2, <2>1, <2>3 DEF DiskTyped
  <1>6. CASE RollBack(w)
    <2>1. x = Target(w) /\ disk'[x] = New(x, w, "empty") /\ disk[x].by = w
      BY <1>1, <1>6 DEF RollBack, Put, DiskTyped
    <2> QED
      BY <1>2, <2>1
  <1>7. CASE Release(w)
    <2>1. PICK h \in proc[w].held : h.path = x /\ MayRelease(h)
      BY <1>1, <1>7, ReleasedHeld
    <2>2. disk'[x] = Removed(disk[x])
      BY <1>1, <1>7, ReleasedHeld
    <2>3. disk'[x].by = None
      BY <1>1, <2>2, RemovedTyped DEF DiskTyped
    <2> QED
      BY <1>1, <2>1, <2>3 DEF MayRelease, IInv, HeldSound, Sound
  <1>8. CASE UNCHANGED disk
    BY <1>8
  <1> QED
    BY <1>3, <1>4, <1>5, <1>6, <1>7, <1>8
       DEF Verifier, BindInputs, BindJournal, TimeOut, Recheck, CheckSuffix, Settle

\* What the others do to the disk: somebody's files, none, or theirs in the place of an unwritten
\* one.
LEMMA WorldOnDisk ==
  ASSUME IInv, World, NEW x \in Paths, disk'[x] # disk[x]
  PROVE  /\ disk[x].data # "written" /\ disk'[x].data # "written"
         /\ \/ disk'[x].by \in {Somebody, None}
            \/ disk'[x].data = "theirs" /\ disk'[x].by = disk[x].by
  <1>1. DiskTyped
    BY DEF IInv
  <1>2. ASSUME NEW y \in Published, Clear(y)
        PROVE  disk[x].data = "empty" /\ disk'[x].by = None /\ disk'[x].data = "nothing"
    <2>1. x = y /\ disk'[x] = Removed(disk[x]) /\ disk[x].data = "empty"
      BY <1>1, <1>2 DEF Clear, Put, DiskTyped
    <2> QED
      BY <1>1, <2>1, RemovedTyped DEF DiskTyped
  <1>3. ASSUME NEW y \in Published, Meddle(y)
        PROVE  /\ disk[x].data # "written" /\ disk'[x].data = "theirs"
               /\ disk'[x].by \in {Somebody, disk[x].by}
    <2>1. x = y /\ disk[x].data # "written"
      BY <1>1, <1>3 DEF Meddle, Put, DiskTyped
    <2>2. \/ disk'[x] = New(x, Somebody, "theirs")
          \/ disk'[x] = [disk[x] EXCEPT !.changed = @ + 1, !.data = "theirs"]
      BY <1>1, <1>3, <2>1 DEF Meddle, Put, DiskTyped
    <2>3. CASE disk'[x] = New(x, Somebody, "theirs")
      BY <2>1, <2>3 DEF New, File
    <2>4. CASE disk'[x] = [disk[x] EXCEPT !.changed = @ + 1, !.data = "theirs"]
      <3>1. disk[x] \in Files /\ disk[x].changed + 1 \in Nat
        BY <1>1 DEF DiskTyped, Files
      <3> DEFINE n == disk[x].changed + 1
      <3>2. disk'[x] = [disk[x] EXCEPT !.changed = n, !.data = "theirs"] /\ n \in Nat
        BY <2>4, <3>1
      <3> HIDE DEF n
      <3>3. disk'[x].data = "theirs" /\ disk'[x].by = disk[x].by
        BY <3>1, <3>2 DEF Files
      <3> QED
        BY <2>1, <3>3
    <2> QED
      BY <2>2, <2>3, <2>4
  <1>4. ASSUME NEW r \in RunIds, EditSnapshot(r)
        PROVE  disk[x].data = "directory" /\ disk'[x].by = disk[x].by /\ disk'[x].data = "theirs"
    <2>1. x = Snapshot(r) /\ disk'[x] = [disk[x] EXCEPT !.data = "theirs"]
      BY <1>1, <1>4 DEF EditSnapshot, Put, DiskTyped
    <2>2. disk[x] \in Files
      BY <1>1 DEF DiskTyped
    <2> QED
      BY <1>4, <2>1, <2>2 DEF EditSnapshot, Files
  <1>5. CASE UNCHANGED disk
    BY <1>5
  <1> QED
    BY <1>2, <1>3, <1>4, <1>5 DEF World, Edit, OtherEvent, GateBlocks

\* What a run sees of the steps that are not its own.
LEMMA ForeignStep ==
  ASSUME IInv, [Next]_vars, NEW v \in Verifiers, ~(Verifier(v) \/ Wrapper(v) \/ Kill(v))
  PROVE  Foreign(v)
  <1>1. v \in Processes /\ v # Somebody /\ v # None /\ v \notin Hands /\ DiskTyped
    BY FreshAssumption DEF Processes, IInv
  <1>2. ASSUME NEW w \in Verifiers, w # v, Verifier(w) PROVE Foreign(v)
    <2>1. w \in Processes
      BY DEF Processes
    <2>2. proc'[v] = proc[v]
      BY <1>1, <1>2, <2>1, OthersStay
    <2> QED
      BY <1>1, <1>2, <2>2, RunOnDisk DEF Foreign
  <1>3. ASSUME NEW h \in Hands, CallByHand(h) PROVE Foreign(v)
    <2>1. h \in Processes /\ h # v
      BY <1>1 DEF Processes
    <2>2. proc'[v] = proc[v]
      BY <1>1, <1>3, <2>1, OthersStay
    <2>3. ASSUME NEW x \in Paths, disk'[x] # disk[x]
          PROVE  disk'[x].by = h /\ disk[x].data = "nothing"
      BY <1>1, <1>3, <2>3 DEF CallByHand, Put, New, File, IsAbsent, DiskTyped
    <2> QED
      BY <2>1, <2>2, <2>3 DEF Foreign
  <1>4. ASSUME NEW p \in Processes, p # v, Wrapper(p) \/ Kill(p) PROVE Foreign(v)
    BY <1>1, <1>4, OthersStay, WrapperQuiet DEF Foreign
  <1>5. ASSUME World PROVE Foreign(v)
    <2>1. UNCHANGED proc
      BY <1>5 DEF World, Clear, Meddle, EditSnapshot, Edit, OtherEvent, GateBlocks
    <2> QED
      BY <1>1, <1>5, <2>1, WorldOnDisk DEF Foreign
  <1>6. ASSUME UNCHANGED vars PROVE Foreign(v)
    BY <1>6 DEF Foreign, vars
  <1> QED
    BY <1>2, <1>3, <1>4, <1>5, <1>6 DEF Next
-----------------------------------------------------------------------------
(* The steps of a run *)

\* Going on keeps what a run remembers; ending keeps its baseline.
LEMMA GoesShape ==
  ASSUME ProcTyped, NEW p \in Processes, NEW w \in Places, Goes(p, w)
  PROVE  /\ proc'[p].pc = w /\ proc'[p].cand = proc[p].cand /\ proc'[p].run = proc[p].run
         /\ proc'[p].base = proc[p].base
         /\ proc'[p].warned = proc[p].warned /\ proc'[p].left = proc[p].left
         /\ w \notin Ended => proc'[p].held = proc[p].held /\ proc'[p].rev = proc[p].rev
  <1>1. proc[p] \in Procs
    BY DEF ProcTyped
  <1>2. CASE w \in Ended
    BY <1>1, <1>2, EndShape DEF Goes, Becomes, ProcTyped
  <1>3. CASE w \notin Ended
    BY <1>1, <1>3 DEF Goes, Becomes, Procs, ProcTyped
  <1> QED
    BY <1>2, <1>3

\* The run stays the one it is.
SameRun(v) ==
  /\ proc'[v].cand = proc[v].cand /\ proc'[v].run = proc[v].run
  /\ proc'[v].base = proc[v].base
\* ... and has left nothing more behind.
Same(v) == SameRun(v) /\ proc'[v].warned = proc[v].warned /\ proc'[v].left = proc[v].left

\* A record that is committed stays committed.
LEMMA CommittedStays ==
  ASSUME LogExtends, NEW v, proc'[v].cand = proc[v].cand, proc'[v].run = proc[v].run,
         NEW i, Committed(v, i)
  PROVE  Committed(v, i)'
  BY DEF LogExtends, Committed, Mine

LEMMA OwnRecordsStay ==
  ASSUME LogExtends, NEW v, SameRun(v), OwnRecords(v)
  PROVE  OwnRecords(v)'
  BY CommittedStays DEF Same, SameRun, OwnRecords

\* What a run has committed stays known while it stands where it stood.
LEMMA CommitsStay ==
  ASSUME IInv, IInv', NEW v \in Verifiers, LogExtends, Same(v), CommitsKnown(v),
         proc'[v].pc = proc[v].pc, proc'[v].rev = proc[v].rev
  PROVE  CommitsKnown(v)'
  <1>1. \A i : Committed(v, i) => Committed(v, i)'
    BY CommittedStays DEF Same, SameRun
  <1>2. proc[v].base \in Nat /\ Len(log) \in Nat /\ Len(log') \in Nat /\ Len(log) <= Len(log')
    BY LogLength DEF IInv, ProcTyped, Procs, Processes, Others, LogExtends
  <1> QED
    BY <1>1, <1>2 DEF CommitsKnown, Same, SameRun

\* A step of others.
LEMMA ForeignKeeps ==
  ASSUME IInv, IInv', NEW v \in Verifiers, RunInv(v), LogExtends, Foreign(v)
  PROVE  RunInv(v)'
  <1>1. Same(v) /\ proc'[v] = proc[v] /\ v \in Processes
    BY DEF Foreign, Same, SameRun, Processes
  <1>2. CommitsKnown(v)'
    BY <1>1, CommitsStay DEF RunInv
  <1>3. PublishesOnOwn(v)'
    <2>1. OwnRecords(v) => OwnRecords(v)'
      BY <1>1, OwnRecordsStay DEF Same
    <2>2. \A x \in Paths : disk'[x].by = v /\ disk'[x].data = "written" => disk'[x] = disk[x]
      BY DEF Foreign
    <2> QED
      BY <1>1, <2>1, <2>2 DEF PublishesOnOwn, RunInv
  <1>4. NothingYet(v)'
    BY <1>1 DEF NothingYet, RunInv, Foreign
  <1>5. EmptyIsHeld(v)'
    <2>1. \A x \in Paths : disk'[x].by = v /\ disk'[x].data = "empty" => disk'[x] = disk[x]
      BY DEF Foreign
    <2> QED
      BY <1>1, <2>1 DEF EmptyIsHeld, RunInv, HeldAsItIs, LeftBehind
  <1>7. PublishesHeld(v)'
    BY <1>1 DEF PublishesHeld, RunInv, Target, Binding, Verdict
  <1>6. VerdictStands(v)'
    <2>1. Verdict(proc[v].cand) \in Paths
      BY <1>1, PathsOfRun DEF IInv, ProcTyped, Procs
    <2> QED
      BY <1>1, <2>1 DEF VerdictStands, RunInv, Foreign
  <1> QED
    BY <1>2, <1>3, <1>4, <1>5, <1>6, <1>7 DEF RunInv

\* A step of the run itself that makes no file, and loses none of what it holds while there is
\* something empty of its own.
LEMMA QuietKeeps ==
  ASSUME IInv, NEW v \in Verifiers, RunInv(v), LogExtends, Same(v),
         \A x \in Paths : disk'[x] = disk[x] \/ disk'[x].by = None,
         \/ proc'[v].held = proc[v].held /\ proc'[v].pc # "failed" /\ proc[v].pc # "release"
         \/ proc'[v].pc = "dead"
         \/ \A x \in Paths : ~(disk'[x].by = v /\ disk'[x].data = "empty"),
         proc'[v].pc \in {"idle", "baseline"} => proc[v].pc = "idle",
         proc[v].pc \notin {"dead", "done"}, proc'[v].pc # "done",
         CommitsKnown(v)',
         proc'[v].pc \notin {"binding", "concluding"},
         proc'[v].pc \in {"bind", "conclude"} => OwnRecords(v)
  PROVE  RunInv(v)'
  <1>1. v # None
    BY FreshAssumption
  <1>2. \A x \in Paths : disk'[x].by = v => disk'[x] = disk[x]
    BY <1>1
  <1>3. PublishesOnOwn(v)'
    <2>1. OwnRecords(v) => OwnRecords(v)'
      BY OwnRecordsStay DEF Same
    <2> QED
      BY <1>2, <2>1 DEF PublishesOnOwn, RunInv
  <1>4. NothingYet(v)'
    BY <1>2 DEF NothingYet, RunInv
  <1>5. EmptyIsHeld(v)'
    BY <1>2 DEF EmptyIsHeld, RunInv, HeldAsItIs, LeftBehind, Same
  <1>6. VerdictStands(v)' /\ PublishesHeld(v)'
    BY DEF VerdictStands, PublishesHeld
  <1> QED
    BY <1>3, <1>4, <1>5, <1>6 DEF RunInv
-----------------------------------------------------------------------------
(* Steps of the run that make no file *)

\* A run that gives up, or is killed, keeps its hands on what it holds, or is dead.
LEMMA GivesUp ==
  ASSUME IInv, NEW v \in Verifiers, RunInv(v), LogExtends,
         NEW w \in {"release", "dead"}, Goes(v, w), UNCHANGED disk,
         proc[v].pc \notin {"idle"} \cup Ended, w = "release" => proc[v].pc # "baseline" /\ proc[v].pc # "release"
  PROVE  RunInv(v)'
  <1>1. ProcTyped /\ v \in Processes /\ w \in Places
    BY DEF IInv, Processes, Places
  <1>2. /\ Same(v) /\ proc'[v].pc = w
        /\ w = "release" => proc'[v].held = proc[v].held
    BY <1>1, GoesShape DEF Same, SameRun, Ended
  <1>3. proc[v].base \in Nat /\ Len(log) \in Nat /\ Len(log') \in Nat /\ Len(log) <= Len(log')
    <2>1. proc[v].base \in Nat
      BY <1>1 DEF ProcTyped, Procs
    <2>2. log \in Seq(Records)
      BY DEF IInv, Others
    <2> QED
      BY <2>1, <2>2 DEF LogExtends
  <1>4. CommitsKnown(v)'
    BY <1>2, <1>3 DEF RunInv, CommitsKnown, Same, SameRun, Ended
  <1> QED
    BY <1>2, <1>4, QuietKeeps DEF Ended

\* An event of the wrapper that starts the case, or resumes the work before.
LEMMA CommitOrGiveUpRun ==
  ASSUME IInv, IInv', NEW v \in Verifiers, RunInv(v), LogExtends,
         NEW name \in Names, NEW next \in {"start", "running"}, CommitOrGiveUp(v, name, next),
         proc[v].pc \in {"resume", "start"}
  PROVE  RunInv(v)'
  <1>1. ProcTyped /\ v \in Processes /\ proc[v] \in Procs /\ log \in Seq(Records)
    BY DEF IInv, Processes, ProcTyped, Others
  <1>2. CASE /\ Commit(v, name, "running") /\ UNCHANGED disk
             /\ Becomes(v, [proc[v] EXCEPT !.rev = @ + 1, !.pc = next])
    <2>1. /\ proc[v].base <= proc[v].rev /\ proc[v].base \in Nat /\ proc[v].rev \in Nat
          /\ Len(log) = proc[v].rev
      BY <1>1, <1>2 DEF RunInv, CommitsKnown, Procs, Commit
    <2>2. /\ Same(v) /\ proc'[v].pc = next /\ proc'[v].held = proc[v].held
          /\ proc'[v].rev = proc[v].rev + 1
      BY <1>1, <1>2 DEF Becomes, ProcTyped, Procs, Same, SameRun
    <2> DEFINE e == Event(name, Mine(v), "running", v)
    <2>3. log' = Append(log, e) /\ e \in Records
      BY <1>1, <1>2, CaseRecord DEF Commit
    <2>4. e.by = v /\ e.case = Mine(v)
      BY DEF Event
    <2> HIDE DEF e
    <2>5. Len(log') = proc[v].rev + 1 /\ log'[proc[v].rev + 1] = e
          /\ DOMAIN log' = 1..(proc[v].rev + 1)
      BY <1>1, <2>1, <2>3
    <2>6. Committed(v, proc[v].rev)'
      BY <2>1, <2>2, <2>4, <2>5 DEF Committed, Mine, Same, SameRun
    <2>7. CommitsKnown(v)'
      BY <2>1, <2>2, <2>5, <2>6 DEF CommitsKnown, Same, SameRun, Committed, Mine
    <2> QED
      BY <1>2, <2>2, <2>7, QuietKeeps
  <1>3. CASE Goes(v, Fails(v)) /\ UNCHANGED disk
    BY <1>3, GivesUp DEF Fails, Ended
  <1> QED
    BY <1>2, <1>3 DEF CommitOrGiveUp

\* The outcome becomes the record behind the one of the start.
LEMMA RecordOutcomeRun ==
  ASSUME IInv, IInv', NEW v \in Verifiers, RunInv(v), LogExtends, RecordOutcome(v)
  PROVE  RunInv(v)'
  <1>1. /\ ProcTyped /\ v \in Processes /\ proc[v] \in Procs /\ log \in Seq(Records)
        /\ proc[v].pc = "event" /\ UNCHANGED disk
    BY DEF IInv, Processes, ProcTyped, Others, RecordOutcome
  <1>2. /\ proc[v].base < proc[v].rev /\ proc[v].base <= Len(log) /\ Committed(v, proc[v].rev)
        /\ proc[v].base \in Nat /\ proc[v].rev \in Nat
    BY <1>1 DEF RunInv, CommitsKnown, Procs, Ended
  <1> DEFINE status == IF proc[v].outcome = "blocked" THEN "blocked" ELSE "running"
             e == Event(proc[v].outcome, Mine(v), status, v)
  <1>3. CASE Commit(v, proc[v].outcome, status) /\ Goes(v, "final")
    <2>1. /\ Same(v) /\ proc'[v].pc = "final" /\ proc'[v].held = proc[v].held
          /\ proc'[v].rev = proc[v].rev
      BY <1>1, <1>3, GoesShape DEF Same, SameRun, Ended, Places
    <2>2. status \in {"running", "blocked"} /\ proc[v].outcome \in Names
      BY <1>1 DEF Procs, Names
    <2> HIDE DEF status
    <2>3. log' = Append(log, e) /\ e \in Records /\ Len(log) = proc[v].rev
      BY <1>1, <1>3, <2>2, CaseRecord DEF Commit
    <2>4. e.by = v /\ e.case = Mine(v)
      BY DEF Event
    <2> HIDE DEF e
    <2>5. Len(log') = proc[v].rev + 1 /\ log'[proc[v].rev + 1] = e
          /\ DOMAIN log' = 1..(proc[v].rev + 1)
      BY <1>1, <1>2, <2>3
    <2>6. Committed(v, proc[v].rev + 1)'
      BY <1>2, <2>1, <2>4, <2>5 DEF Committed, Mine, Same, SameRun
    <2>7. Committed(v, proc[v].rev)'
      BY <1>2, <2>1, CommittedStays DEF Same, SameRun
    <2>8. CommitsKnown(v)'
      BY <1>2, <2>1, <2>5, <2>6, <2>7 DEF CommitsKnown, Same, SameRun, Committed, Mine
    <2> QED
      BY <1>1, <2>1, <2>8, QuietKeeps
  <1>4. CASE Goes(v, "uncommitted") /\ UNCHANGED log
    <2>1. Same(v) /\ proc'[v].pc = "uncommitted" /\ proc'[v].held = proc[v].held
      BY <1>1, <1>4, GoesShape DEF Same, SameRun, Ended, Places
    <2>2. CommitsKnown(v)'
      BY <1>2, <1>4, <2>1 DEF CommitsKnown, Same, SameRun
    <2> QED
      BY <1>1, <2>1, <2>2, QuietKeeps
  <1> QED
    BY <1>3, <1>4 DEF RecordOutcome

\* The wrapper of a run, and whoever kills it.
LEMMA WrapperRun ==
  ASSUME IInv, IInv', NEW v \in Verifiers, RunInv(v), LogExtends, Wrapper(v) \/ Kill(v)
  PROVE  RunInv(v)'
  <1>1. /\ ProcTyped /\ v \in Processes /\ proc[v] \in Procs /\ log \in Seq(Records)
        /\ Fails(v) = "release"
    BY DEF IInv, Processes, ProcTyped, Others, Fails
  <1>2. proc[v].base \in Nat /\ proc[v].rev \in Nat /\ Len(log) \in Nat
    BY <1>1 DEF Procs
  <1>3. CASE Capture(v)
    <2>1. CASE Status(log) \in {"running", "blocked"}
      <3>1. /\ Same(v) /\ proc'[v].pc \in {"resume", "start"} /\ proc'[v].held = proc[v].held
            /\ proc'[v].rev = Len(log) /\ UNCHANGED <<disk, log>>
        <4>1. PICK w \in {"resume", "start"} :
                /\ proc' = [proc EXCEPT ![v] = [proc[v] EXCEPT !.rev = Len(log), !.pc = w]]
                /\ UNCHANGED <<disk, log>>
          BY <1>3, <2>1 DEF Capture, Becomes
        <4>2. proc'[v] = [proc[v] EXCEPT !.rev = Len(log), !.pc = w]
          BY <1>1, <4>1 DEF ProcTyped
        <4> QED
          BY <1>1, <4>1, <4>2 DEF Procs, Same, SameRun
      <3>2. CommitsKnown(v)'
        BY <1>2, <1>3, <3>1 DEF CommitsKnown, Same, SameRun, RunInv, Capture, Ended
      <3> QED
        BY <1>3, <3>1, <3>2, QuietKeeps DEF Capture
    <2>2. CASE Status(log) \notin {"running", "blocked"}
      BY <1>1, <1>3, <2>2, GivesUp DEF Capture, Ended
    <2> QED
      BY <2>1, <2>2
  <1>4. CASE Resume(v)
    BY <1>4, CommitOrGiveUpRun DEF Resume, Names
  <1>5. CASE Start(v)
    BY <1>5, CommitOrGiveUpRun DEF Start, Names
  <1>6. CASE RecordOutcome(v)
    BY <1>6, RecordOutcomeRun
  <1>7. CASE Finish(v)
    <2>1. CASE proc[v].pc = "final" /\ Goes(v, "check")
      <3>1. /\ Same(v) /\ proc'[v].pc = "check" /\ proc'[v].held = proc[v].held
            /\ proc'[v].rev = proc[v].rev /\ UNCHANGED <<disk, log>>
        BY <1>1, <1>7, <2>1, GoesShape DEF Finish, Same, SameRun, Ended, Places
      <3>2. CommitsKnown(v)'
        BY <1>2, <2>1, <3>1 DEF CommitsKnown, Committed, Mine, Same, SameRun, RunInv, Ended
      <3> QED
        BY <2>1, <3>1, <3>2, QuietKeeps
    <2>2. CASE Goes(v, "release")
      BY <1>7, <2>2, GivesUp DEF Finish, Ended
    <2> QED
      BY <1>1, <1>7, <2>1, <2>2 DEF Finish
  <1>8. CASE \E o \in {"completed", "rejected", "blocked", "untrusted"} : ContainerEnds(v, o)
    <2>1. /\ Same(v) /\ proc'[v].pc \in {"release", "event"} /\ proc'[v].held = proc[v].held
          /\ proc'[v].rev = proc[v].rev /\ UNCHANGED <<disk, log>> /\ proc[v].pc = "running"
      BY <1>1, <1>8 DEF ContainerEnds, Becomes, ProcTyped, Procs, Same, SameRun
    <2>2. CommitsKnown(v)'
      BY <1>2, <2>1 DEF CommitsKnown, Committed, Mine, Same, SameRun, RunInv, Ended
    <2> QED
      BY <2>1, <2>2, QuietKeeps
  <1>9. CASE Kill(v)
    BY <1>9, GivesUp DEF Kill
  <1> QED
    BY <1>3, <1>4, <1>5, <1>6, <1>7, <1>8, <1>9 DEF Wrapper

\* Binding the inputs.
LEMMA BindInputsRun ==
  ASSUME IInv, NEW v \in Verifiers, RunInv(v), LogExtends, BindInputs(v)
  PROVE  RunInv(v)'
  <1>1. /\ ProcTyped /\ v \in Processes /\ proc[v].pc = "idle" /\ UNCHANGED disk
        /\ \A x \in Paths : disk[x].by # v
    BY DEF IInv, Processes, BindInputs, RunInv, NothingYet
  <1>2. Same(v) /\ proc'[v].pc \in {"baseline", "failed"}
    BY <1>1, GoesShape DEF BindInputs, Same, SameRun, Places
  <1>3. CommitsKnown(v)'
    BY <1>2 DEF CommitsKnown, Ended
  <1> QED
    BY <1>1, <1>2, <1>3, QuietKeeps

\* Binding the journal: until then nothing of the run is there, so that its baseline may be set.
LEMMA BindJournalRun ==
  ASSUME IInv, NEW v \in Verifiers, RunInv(v), LogExtends, BindJournal(v)
  PROVE  RunInv(v)'
  <1>1. /\ ProcTyped /\ v \in Processes /\ proc[v].pc = "baseline" /\ UNCHANGED <<disk, log>>
        /\ \A x \in Paths : disk[x].by # v
    BY DEF IInv, Processes, BindJournal, RunInv, NothingYet, UnchangedWorld
  <1>2. CASE Goes(v, "failed")
    <2>1. Same(v) /\ proc'[v].pc = "failed"
      BY <1>1, <1>2, GoesShape DEF Same, SameRun, Places
    <2>2. CommitsKnown(v)'
      BY <2>1 DEF CommitsKnown, Ended
    <2> QED
      BY <1>1, <2>1, <2>2, QuietKeeps
  <1>3. CASE Becomes(v, [proc[v] EXCEPT !.pc = "make", !.base = Len(log)])
    <2>1. proc'[v].pc = "make" /\ proc'[v].base = Len(log)
      BY <1>1, <1>3 DEF Becomes, ProcTyped, Procs
    <2>2. Len(log) \in Nat
      BY LogLength DEF IInv
    <2>3. CommitsKnown(v)'
      BY <1>1, <2>1, <2>2 DEF CommitsKnown
    <2> QED
      BY <1>1, <2>1, <2>3 DEF RunInv, PublishesOnOwn, NothingYet, EmptyIsHeld, VerdictStands,
                              PublishesHeld
  <1> QED
    BY <1>2, <1>3 DEF BindJournal

\* The checks behind the container: the run's two records are the only ones behind the baseline.
LEMMA ChecksRun ==
  ASSUME IInv, NEW v \in Verifiers, RunInv(v), LogExtends, Recheck(v) \/ CheckSuffix(v)
  PROVE  RunInv(v)'
  <1>1. /\ ProcTyped /\ v \in Processes /\ proc[v] \in Procs /\ log \in Seq(Records)
        /\ UNCHANGED <<disk, log>>
    BY DEF IInv, Processes, ProcTyped, Others, Recheck, CheckSuffix, UnchangedWorld
  <1>2. /\ proc[v].base \in Nat /\ proc[v].rev \in Nat /\ Len(log) \in Nat
        /\ DOMAIN log = 1..Len(log)
    BY <1>1 DEF Procs
  <1>3. CASE Goes(v, "release")
    BY <1>1, <1>3, GivesUp DEF Recheck, CheckSuffix, Ended
  <1>4. CASE proc[v].pc = "check" /\ Goes(v, "suffix")
    <2>1. /\ Same(v) /\ proc'[v].pc = "suffix" /\ proc'[v].held = proc[v].held
          /\ proc'[v].rev = proc[v].rev
      BY <1>1, <1>4, GoesShape DEF Same, SameRun, Ended, Places
    <2>2. CommitsKnown(v)'
      BY <1>1, <1>2, <1>4, <2>1 DEF CommitsKnown, Committed, Mine, Same, SameRun, RunInv, Ended
    <2> QED
      BY <1>1, <1>4, <2>1, <2>2, QuietKeeps
  <1>5. CASE proc[v].pc = "suffix" /\ OwnSuffix(v) /\ Goes(v, "bind")
    <2>1. Same(v) /\ proc'[v].pc = "bind" /\ proc'[v].held = proc[v].held
      BY <1>1, <1>5, GoesShape DEF Same, SameRun, Ended, Places
    <2>2. CommitsKnown(v)'
      BY <1>1, <1>2, <1>5, <2>1 DEF CommitsKnown, Same, SameRun, RunInv, Ended
    <2>3. /\ proc[v].base < proc[v].rev /\ proc[v].rev + 1 <= Len(log)
          /\ Len(log) = proc[v].base + 2
      BY <1>2, <1>5 DEF RunInv, CommitsKnown, Committed, OwnSuffix
    <2>4. proc[v].rev = proc[v].base + 1 /\ proc[v].rev + 1 = proc[v].base + 2
      BY <1>2, <2>3
    <2>5. OwnRecords(v)
      BY <1>5, <2>4 DEF RunInv, CommitsKnown, OwnRecords
    <2> QED
      BY <1>1, <1>5, <2>1, <2>2, <2>5, QuietKeeps
  <1> QED
    BY <1>3, <1>4, <1>5 DEF Recheck, CheckSuffix
-----------------------------------------------------------------------------
(* Steps of the run that make or remove a file *)

\* A step that leaves the run's journal alone: what it knows is bounded still.
LEMMA MakerCommits ==
  ASSUME IInv, NEW v \in Verifiers, RunInv(v), UNCHANGED log, SameRun(v),
         proc[v].pc \notin {"idle", "baseline"} \cup Ended,
         proc'[v].pc \notin {"resume", "start", "running", "event", "final", "check", "suffix"}
  PROVE  CommitsKnown(v)'
  BY DEF RunInv, CommitsKnown, Same, SameRun

\* Making the directories: neither an empty nor a written file.
LEMMA MakeDirectoriesRun ==
  ASSUME IInv, NEW v \in Verifiers, RunInv(v), LogExtends, MakeDirectories(v)
  PROVE  RunInv(v)'
  <1>1. /\ ProcTyped /\ v \in Processes /\ UNCHANGED log /\ proc[v].pc = "make"
    BY DEF IInv, Processes, MakeDirectories, UnchangedWorld
  <1>2. PICK w \in {"binding reserved", "release"} : Goes(v, w)
    BY DEF MakeDirectories
  <1>3. Same(v) /\ proc'[v].pc = w /\ proc'[v].held = proc[v].held
    BY <1>1, <1>2, GoesShape DEF Same, SameRun, Ended, Places
  <1>4. CommitsKnown(v)'
    BY <1>1, <1>3, MakerCommits DEF Same, Ended
  <1>5. \A x \in Paths : disk'[x] = disk[x] \/ disk'[x].data = "directory"
    BY DEF MakeDirectories, New, File
  <1>6. PublishesOnOwn(v)'
    <2>1. OwnRecords(v) => OwnRecords(v)'
      BY <1>3, OwnRecordsStay DEF Same
    <2> QED
      BY <1>3, <1>5, <2>1 DEF RunInv, PublishesOnOwn
  <1>7. EmptyIsHeld(v)'
    <2> SUFFICES ASSUME NEW x \in Paths, disk'[x].by = v, disk'[x].data = "empty"
                 PROVE  (proc'[v].pc # "failed" /\ HeldAsItIs(v, x)') \/ LeftBehind(v, x)'
      BY DEF EmptyIsHeld
    <2>1. disk'[x] = disk[x]
      BY <1>5
    <2>2. HeldAsItIs(v, x) \/ LeftBehind(v, x)
      BY <1>1, <2>1 DEF RunInv, EmptyIsHeld
    <2> QED
      BY <1>1, <1>3, <2>1, <2>2 DEF HeldAsItIs, LeftBehind, Same
  <1> QED
    BY <1>3, <1>4, <1>6, <1>7 DEF RunInv, NothingYet, VerdictStands, PublishesHeld

\* A file of the run is made at one path, and held just as it is if it is empty; what else it
\* holds stays.
LEMMA PutsRun ==
  ASSUME IInv, NEW v \in Verifiers, RunInv(v), LogExtends, UNCHANGED log, SameRun(v),
         NEW x \in Paths, NEW data \in {"empty", "written"}, Put(x, New(x, v, data)),
         data = "empty" =>
           [path |-> x, file |-> New(x, v, data)] \in proc'[v].held \/ LeftBehind(v, x)',
         proc[v].left \subseteq proc'[v].left, proc[v].warned \subseteq proc'[v].warned,
         proc[v].pc # "release", PublishesHeld(v)',
         \A h \in proc[v].held : h \in proc'[v].held \/ h.path = x,
         data = "written" => OwnRecords(v),
         proc[v].pc \notin {"idle", "baseline"} \cup Ended,
         proc'[v].pc \notin {"idle", "baseline", "done", "failed", "resume", "start", "running",
                             "event", "final", "check", "suffix"},
         proc'[v].pc \in {"bind", "binding", "conclude", "concluding"} => OwnRecords(v)
  PROVE  RunInv(v)'
  <1> DEFINE f == New(x, v, data)
  <1>1. f.by = v /\ f.data = data
    BY DEF New, File
  <1>2. \A y \in Paths : disk'[y] = IF y = x THEN f ELSE disk[y]
    BY DEF Put, IInv, DiskTyped
  <1>3. CommitsKnown(v)'
    BY MakerCommits DEF Same
  <1>4. [path |-> x, file |-> f].path = x /\ [path |-> x, file |-> f].file = f
    OBVIOUS
  <1> HIDE DEF f
  <1>5. PublishesOnOwn(v)'
    <2>1. OwnRecords(v) => OwnRecords(v)'
      BY OwnRecordsStay DEF Same
    <2>2. \A y \in Paths : disk'[y].by = v /\ disk'[y].data = "written" => OwnRecords(v)
      BY <1>1, <1>2 DEF RunInv, PublishesOnOwn
    <2> QED
      BY <2>1, <2>2 DEF PublishesOnOwn
  <1>6. EmptyIsHeld(v)'
    <2> SUFFICES ASSUME NEW y \in Paths, disk'[y].by = v, disk'[y].data = "empty"
                 PROVE  HeldAsItIs(v, y)' \/ LeftBehind(v, y)'
      BY DEF EmptyIsHeld
    <2>1. CASE y = x
      <3>1. disk'[y] = f /\ data = "empty"
        BY <1>1, <1>2, <2>1
      <3>2. CASE [path |-> x, file |-> f] \in proc'[v].held
        BY <1>4, <2>1, <3>1, <3>2 DEF HeldAsItIs
      <3> QED
        BY <2>1, <3>1, <3>2 DEF f
    <2>2. CASE y # x
      <3>1. disk'[y] = disk[y]
        BY <1>2, <2>2
      <3>2. HeldAsItIs(v, y) \/ LeftBehind(v, y)
        BY <3>1 DEF RunInv, EmptyIsHeld, Ended
      <3> QED
        BY <2>2, <3>1, <3>2 DEF HeldAsItIs, LeftBehind
    <2> QED
      BY <2>1, <2>2
  <1> QED
    BY <1>3, <1>5, <1>6 DEF RunInv, NothingYet, VerdictStands

\* A reservation.
LEMMA ReserveRun ==
  ASSUME IInv, NEW v \in Verifiers, RunInv(v), LogExtends, Reserve(v)
  PROVE  RunInv(v)'
  <1>1. /\ ProcTyped /\ v \in Processes /\ proc[v] \in Procs /\ UNCHANGED log
        /\ proc[v].pc \in {"binding reserved", "verdict reserved"} /\ Target(v) \in Paths
    BY TargetOwn DEF IInv, Processes, ProcTyped, Reserve, UnchangedWorld
  <1> DEFINE x == Target(v)
             g == [path |-> x, file |-> New(x, v, "empty")]
  <1>2. CASE CanReserve(x)
    <2>1. /\ Put(x, New(x, v, "empty"))
          /\ Becomes(v, [proc[v] EXCEPT !.held = @ \cup {g},
                           !.pc = IF @ = "binding reserved" THEN "verdict reserved" ELSE "capture"])
      BY <1>2 DEF Reserve
    <2> HIDE DEF g, x
    <2>2. /\ Same(v) /\ proc'[v].held = proc[v].held \cup {g}
          /\ proc'[v].pc \in {"verdict reserved", "capture"}
      BY <1>1, <2>1 DEF Becomes, ProcTyped, Procs, Same, SameRun
    <2>3. x \in Paths /\ g = [path |-> x, file |-> New(x, v, "empty")] /\ g \in proc'[v].held
      BY <1>1, <2>2 DEF x, g
    <2> QED
      BY <1>1, <2>1, <2>2, <2>3, PutsRun DEF Ended, Same, PublishesHeld
  <1>3. CASE ~CanReserve(x)
    <2>1. UNCHANGED disk /\ Goes(v, "release")
      BY <1>3 DEF Reserve
    <2> QED
      BY <1>1, <2>1, GivesUp DEF Ended
  <1> QED
    BY <1>2, <1>3

\* A reservation that fails: the file that was made is held, or was warned of.
LEMMA ReserveFailsRun ==
  ASSUME IInv, NEW v \in Verifiers, RunInv(v), LogExtends, ReserveFails(v)
  PROVE  RunInv(v)'
  <1>1. /\ ProcTyped /\ v \in Processes /\ proc[v] \in Procs /\ UNCHANGED log
        /\ proc[v].pc \in {"binding reserved", "verdict reserved"} /\ Target(v) \in Paths
    BY TargetOwn DEF IInv, Processes, ProcTyped, ReserveFails
  <1> DEFINE x == Target(v)
             f == New(x, v, "empty")
             g == [path |-> x, file |-> f]
  <1>2. CASE /\ Put(x, f)
             /\ Becomes(v, [proc[v] EXCEPT !.held = @ \cup {g}, !.pc = "release"])
    <2>1. g = [path |-> x, file |-> New(x, v, "empty")] /\ Put(x, New(x, v, "empty")) /\ x \in Paths
      BY <1>1, <1>2
    <2> HIDE DEF f, g, x
    <2>2. Same(v) /\ proc'[v].held = proc[v].held \cup {g} /\ proc'[v].pc = "release"
      BY <1>1, <1>2 DEF Becomes, ProcTyped, Procs, Same, SameRun
    <2> QED
      BY <1>1, <2>1, <2>2, PutsRun DEF Ended, Same, PublishesHeld
  <1>3. CASE /\ Put(x, f)
             /\ Becomes(v, [proc[v] EXCEPT !.warned = @ \cup {x}, !.left = @ \cup {x}, !.pc = "release"])
    <2>1. PICK y \in Paths : y = x /\ Put(y, New(y, v, "empty"))
      BY <1>1, <1>3
    <2> HIDE DEF f, x
    <2>2. /\ SameRun(v) /\ proc'[v].held = proc[v].held /\ proc'[v].pc = "release"
          /\ proc'[v].warned = proc[v].warned \cup {y} /\ proc'[v].left = proc[v].left \cup {y}
      BY <1>1, <1>3, <2>1 DEF Becomes, ProcTyped, Procs, SameRun
    <2>3. LeftBehind(v, y)'
      BY <2>2 DEF LeftBehind
    <2> QED
      BY <1>1, <2>1, <2>2, <2>3, PutsRun DEF Ended, PublishesHeld
  <1>4. CASE UNCHANGED disk /\ Goes(v, "release")
    BY <1>1, <1>4, GivesUp DEF Ended
  <1> QED
    BY <1>2, <1>3, <1>4 DEF ReserveFails

\* A publication: of a run that has its records.
LEMMA ReplaceRun ==
  ASSUME IInv, NEW v \in Verifiers, RunInv(v), LogExtends, Replace(v)
  PROVE  RunInv(v)'
  <1>1. /\ ProcTyped /\ v \in Processes /\ UNCHANGED log
        /\ proc[v].pc \in {"bind", "conclude"} /\ Target(v) \in Paths
    BY TargetOwn DEF IInv, Processes, Replace, UnchangedWorld
  <1>2. CASE StillHeld(v, Target(v))
    <2>1. PICK w \in {"binding", "concluding"} :
            Goes(v, w) /\ (w = "binding" <=> proc[v].pc = "bind")
      BY <1>1, <1>2 DEF Replace
    <2>2. Same(v) /\ proc'[v].pc = w /\ proc'[v].held = proc[v].held
      BY <1>1, <2>1, GoesShape DEF Same, SameRun, Ended, Places
    <2>3. OwnRecords(v) /\ Put(Target(v), New(Target(v), v, "written"))
      BY <1>1, <1>2 DEF RunInv, PublishesOnOwn, Replace
    <2>4. PublishesHeld(v)'
      <3>1. Target(v)' = Target(v)
        BY <1>1, <2>1, <2>2 DEF Target, Same, SameRun
      <3> QED
        BY <1>2, <2>2, <3>1 DEF PublishesHeld, StillHeld, Holds
    <2> QED
      BY <1>1, <2>2, <2>3, <2>4, PutsRun DEF Ended, Same
  <1>3. CASE ~StillHeld(v, Target(v))
    <2>1. UNCHANGED disk /\ Goes(v, "release")
      BY <1>3 DEF Replace
    <2> QED
      BY <1>1, <2>1, GivesUp DEF Ended
  <1> QED
    BY <1>2, <1>3

\* What was published is read back: the run lets go of the binding, which is not empty, and ends
\* with the verdict in its place.
LEMMA SettleRun ==
  ASSUME IInv, NEW v \in Verifiers, RunInv(v), LogExtends, Settle(v)
  PROVE  RunInv(v)'
  <1> DEFINE x == Target(v)
  <1>1. /\ ProcTyped /\ v \in Processes /\ proc[v] \in Procs /\ UNCHANGED <<disk, log>>
        /\ proc[v].pc \in {"binding", "concluding"} /\ x \in Paths
    BY TargetOwn DEF IInv, Processes, ProcTyped, Settle, UnchangedWorld
  <1>2. CASE Goes(v, "release")
    BY <1>1, <1>2, GivesUp DEF Ended
  <1>3. CASE /\ disk[x].by = v /\ disk[x].data = "written" /\ proc[v].pc = "binding"
             /\ Becomes(v, [proc[v] EXCEPT !.held = @ \ Holds(v, x), !.pc = "conclude"])
    <2> HIDE DEF x
    <2>1. Same(v) /\ proc'[v].pc = "conclude" /\ proc'[v].held = proc[v].held \ Holds(v, x)
      BY <1>1, <1>3 DEF Becomes, ProcTyped, Procs, Same, SameRun
    <2>2. CommitsKnown(v)'
      BY <1>1, <2>1, MakerCommits DEF Same, Ended
    <2>3. PublishesOnOwn(v)'
      <3>1. OwnRecords(v) /\ OwnRecords(v)'
        BY <1>3, <2>1, OwnRecordsStay DEF Same, RunInv, PublishesOnOwn
      <3> QED
        BY <3>1 DEF PublishesOnOwn
    <2>4. EmptyIsHeld(v)'
      <3> SUFFICES ASSUME NEW y \in Paths, disk[y].by = v, disk[y].data = "empty"
                   PROVE  HeldAsItIs(v, y)' \/ LeftBehind(v, y)'
        BY <1>1, <2>1 DEF EmptyIsHeld
      <3>1. CASE LeftBehind(v, y)
        BY <1>3, <2>1, <3>1 DEF LeftBehind, Same
      <3>2. CASE HeldAsItIs(v, y)
        <4>1. PICK h \in proc[v].held : h.path = y /\ h.file = disk[y]
          BY <3>2 DEF HeldAsItIs
        <4>2. h \notin Holds(v, x)
          BY <1>3, <4>1 DEF Holds
        <4> QED
          BY <1>1, <2>1, <4>1, <4>2 DEF HeldAsItIs
      <3> QED
        BY <1>3, <3>1, <3>2 DEF RunInv, EmptyIsHeld
    <2> QED
      BY <2>1, <2>2, <2>3, <2>4 DEF RunInv, NothingYet, VerdictStands, PublishesHeld
  <1>4. CASE /\ disk[x].by = v /\ disk[x].data = "written" /\ proc[v].pc = "concluding"
             /\ Goes(v, "done")
    <2>1. Same(v) /\ proc'[v].pc = "done"
      BY <1>1, <1>4, GoesShape DEF Same, SameRun, Places
    <2>2. CommitsKnown(v)'
      BY <1>1, <2>1, MakerCommits DEF Same, Ended
    <2>3. PublishesOnOwn(v)'
      <3>1. OwnRecords(v) /\ OwnRecords(v)'
        BY <1>4, <2>1, OwnRecordsStay DEF Same, RunInv, PublishesOnOwn
      <3> QED
        BY <3>1 DEF PublishesOnOwn
    <2>4. x = Verdict(proc[v].cand)
      BY <1>4 DEF Target
    <2>5. VerdictStands(v)'
      BY <1>1, <1>4, <2>1, <2>4 DEF VerdictStands, Verdict, Same, SameRun
    <2> QED
      BY <2>1, <2>2, <2>3, <2>5 DEF RunInv, NothingYet, EmptyIsHeld, PublishesHeld
  <1> QED
    BY <1>2, <1>3, <1>4 DEF Settle

\* The empty file that is put back is the one the run holds from then on, or stays behind at a
\* path at which it holds something: letting go of that it will say so.
LEMMA RollBackRun ==
  ASSUME IInv, NEW v \in Verifiers, RunInv(v), LogExtends, RollBack(v)
  PROVE  RunInv(v)'
  <1> DEFINE x == Target(v)
             f == New(x, v, "empty")
             g == [path |-> x, file |-> f]
  <1>1. /\ ProcTyped /\ v \in Processes /\ proc[v] \in Procs /\ UNCHANGED log
        /\ proc[v].pc \in {"binding", "concluding"} /\ x \in Paths
    BY TargetOwn DEF IInv, Processes, ProcTyped, RollBack
  <1>2. CASE Put(x, f) /\ Becomes(v, [proc[v] EXCEPT !.pc = "release", !.held = Adopted(v, x, f)])
    <2>1. Adopted(v, x, f) = (proc[v].held \ Holds(v, x)) \cup {g}
      BY DEF Adopted
    <2>2. g = [path |-> x, file |-> New(x, v, "empty")] /\ Put(x, New(x, v, "empty"))
      BY <1>2
    <2> HIDE DEF f, x, g
    <2>3. Same(v) /\ proc'[v].pc = "release" /\ proc'[v].held = Adopted(v, x, f)
      BY <1>1, <1>2 DEF Becomes, ProcTyped, Procs, Same, SameRun
    <2>4. \A h \in proc[v].held : h \in proc'[v].held \/ h.path = x
      BY <2>1, <2>3 DEF Holds
    <2>5. g \in proc'[v].held
      BY <2>1, <2>3
    <2> QED
      BY <1>1, <2>2, <2>3, <2>4, <2>5, PutsRun DEF Ended, Same, PublishesHeld
  <1>4. CASE Put(x, f) /\ Becomes(v, [proc[v] EXCEPT !.pc = "release", !.left = @ \cup {x}])
    <2>1. \E h \in proc[v].held : h.path = x
      BY <1>1 DEF RunInv, PublishesHeld
    <2>2. PICK y \in Paths : y = x /\ Put(y, New(y, v, "empty"))
      BY <1>1, <1>4
    <2> HIDE DEF f, x, g
    <2>3. /\ SameRun(v) /\ proc'[v].held = proc[v].held /\ proc'[v].pc = "release"
          /\ proc'[v].warned = proc[v].warned /\ proc'[v].left = proc[v].left \cup {y}
      BY <1>1, <1>4, <2>2 DEF Becomes, ProcTyped, Procs, SameRun
    <2>4. LeftBehind(v, y)'
      BY <2>1, <2>2, <2>3 DEF LeftBehind
    <2> QED
      BY <1>1, <2>2, <2>3, <2>4, PutsRun DEF Ended, PublishesHeld
  <1>3. CASE UNCHANGED disk /\ Goes(v, "release")
    BY <1>1, <1>3, GivesUp DEF Ended
  <1> QED
    BY <1>2, <1>3, <1>4 DEF RollBack

\* Letting go: whatever is empty and the run's own is held just as it is, and removed unless that
\* fails; or it is left behind, and the run says so.
LEMMA ReleaseRun ==
  ASSUME IInv, NEW v \in Verifiers, RunInv(v), LogExtends, Release(v)
  PROVE  RunInv(v)'
  <1>1. /\ ProcTyped /\ DiskTyped /\ v \in Processes /\ UNCHANGED log /\ v # None
        /\ proc[v].pc = "release"
    BY FreshAssumption DEF IInv, Processes, Release
  <1>2. PICK failing \in SUBSET {h \in proc[v].held : MayRelease(h)} : Releases(v, failing)
    BY <1>1, ReleaseShape
  <1>3. /\ SameRun(v) /\ proc'[v].pc = "failed"
        /\ proc'[v].warned = proc[v].warned \cup (Held(v) \ Gone(v, failing))
        /\ proc'[v].left = proc[v].left \cup {h.path : h \in failing}
    <2> DEFINE s == Let(v, failing)
    <2>1. /\ s.pc = "failed" /\ s.cand = proc[v].cand /\ s.run = proc[v].run
          /\ s.base = proc[v].base
          /\ s.warned = proc[v].warned \cup (Held(v) \ Gone(v, failing))
          /\ s.left = proc[v].left \cup {h.path : h \in failing}
      BY <1>1, ReleasedTyped
    <2>2. proc'[v] = s
      BY <1>1, <1>2 DEF Releases, Becomes, ProcTyped
    <2> HIDE DEF s
    <2> QED
      BY <2>1, <2>2 DEF SameRun
  <1>4. \A x \in Paths : disk'[x] = IF x \in Gone(v, failing) THEN Removed(disk[x]) ELSE disk[x]
    BY <1>2 DEF Releases
  <1>5. \A x \in Paths : Removed(disk[x]).by = None
    BY <1>1, RemovedTyped DEF DiskTyped
  <1>6. \A x \in Paths : disk'[x].by = v => disk'[x] = disk[x] /\ x \notin Gone(v, failing)
    BY <1>1, <1>4, <1>5
  <1>7. EmptyIsHeld(v)'
    <2> SUFFICES ASSUME NEW x \in Paths, disk'[x].by = v, disk'[x].data = "empty"
                 PROVE  x \in proc'[v].left /\ x \in proc'[v].warned
      BY DEF EmptyIsHeld, LeftBehind
    <2>1. disk'[x] = disk[x] /\ x \notin Gone(v, failing)
      BY <1>6
    <2>2. CASE HeldAsItIs(v, x)
      <3>1. PICK h \in proc[v].held : h.path = x /\ h.file = disk[x]
        BY <2>2 DEF HeldAsItIs
      <3>2. MayRelease(h)
        BY <3>1 DEF MayRelease
      <3>3. h \in failing
        BY <2>1, <3>1, <3>2 DEF Gone
      <3> QED
        BY <1>3, <2>1, <3>1, <3>3 DEF Held
    <2>3. CASE LeftBehind(v, x)
      <3>1. x \in proc[v].warned \/ x \in Held(v)
        BY <2>3 DEF LeftBehind, Held
      <3> QED
        BY <1>3, <2>1, <2>3, <3>1 DEF LeftBehind
    <2> QED
      BY <1>1, <2>1, <2>2, <2>3 DEF RunInv, EmptyIsHeld
  <1>8. PublishesOnOwn(v)'
    <2>1. OwnRecords(v) => OwnRecords(v)'
      BY <1>3, OwnRecordsStay
    <2> QED
      BY <1>3, <1>6, <2>1 DEF PublishesOnOwn, RunInv
  <1>9. CommitsKnown(v)'
    BY <1>3 DEF CommitsKnown, Ended
  <1> QED
    BY <1>3, <1>7, <1>8, <1>9 DEF RunInv, NothingYet, VerdictStands, PublishesHeld

LEMMA TimeOutRun ==
  ASSUME IInv, NEW v \in Verifiers, RunInv(v), LogExtends, TimeOut(v)
  PROVE  RunInv(v)'
  BY GivesUp DEF TimeOut, Ended

\* Every step keeps what is known of a run.
LEMMA StepKeepsRun ==
  ASSUME IInv, IInv', [Next]_vars, NEW v \in Verifiers, RunInv(v)
  PROVE  RunInv(v)'
  <1>1. LogExtends
    BY StepExtends
  <1>2. CASE ~(Verifier(v) \/ Wrapper(v) \/ Kill(v))
    BY <1>1, <1>2, ForeignStep, ForeignKeeps
  <1>3. CASE Wrapper(v) \/ Kill(v)
    BY <1>1, <1>3, WrapperRun
  <1>4. CASE Verifier(v)
    BY <1>1, <1>4, BindInputsRun, BindJournalRun, MakeDirectoriesRun, ReserveRun, ReserveFailsRun,
       TimeOutRun, ChecksRun, ReplaceRun, SettleRun, RollBackRun, ReleaseRun DEF Verifier
  <1> QED
    BY <1>2, <1>3, <1>4

\* Only fresh runs write.
LEMMA StepKeepsWriters ==
  ASSUME IInv, [Next]_vars, WrittenByRuns
  PROVE  WrittenByRuns'
  <1> SUFFICES ASSUME NEW x \in Paths, disk'[x].data = "written"
               PROVE  disk'[x].by \in Verifiers
    BY DEF WrittenByRuns
  <1>1. CASE disk'[x] = disk[x]
    BY <1>1 DEF WrittenByRuns
  <1>2. CASE disk'[x] # disk[x]
    <2>1. ASSUME NEW w \in Verifiers, Verifier(w) PROVE disk'[x].by \in Verifiers
      <3>1. DiskTyped'
        BY NextIInv DEF IInv
      <3> QED
        BY <1>2, <2>1, <3>1, RunOnDisk DEF DiskTyped
    <2>2. ASSUME NEW h \in Hands, CallByHand(h) PROVE FALSE
      BY <1>2, <2>2 DEF CallByHand, Put, New, File, IInv, DiskTyped
    <2>3. ASSUME World PROVE FALSE
      BY <1>2, <2>3, WorldOnDisk
    <2> QED
      BY <1>2, <2>1, <2>2, <2>3, WrapperQuiet DEF Next, vars
  <1> QED
    BY <1>1, <1>2
-----------------------------------------------------------------------------
(* The invariant, and what it gives *)

LEMMA InitJInv == ASSUME Init PROVE JInv
  <1>1. IInv
    BY InitIInv
  <1>2. \A x \in Paths : disk[x].by = None /\ disk[x].data = "nothing"
    BY DEF Init, File
  <1>3. ASSUME NEW v \in Verifiers PROVE RunInv(v)
    <2>1. v \in Processes /\ v # None
      BY FreshAssumption DEF Processes
    <2>2. proc[v].pc \in {"idle", "dead"}
      BY <2>1 DEF Init, Fresh
    <2> QED
      BY <1>2, <2>1, <2>2 DEF RunInv, CommitsKnown, PublishesOnOwn, NothingYet, EmptyIsHeld,
                              VerdictStands, PublishesHeld, Ended
  <1> QED
    BY <1>1, <1>2, <1>3 DEF JInv, WrittenByRuns

LEMMA NextJInv == ASSUME JInv, [Next]_vars PROVE JInv'
  <1>1. IInv /\ IInv'
    BY NextIInv DEF JInv
  <1>2. WrittenByRuns'
    BY <1>1, StepKeepsWriters DEF JInv
  <1>3. \A v \in Verifiers : RunInv(v)'
    BY <1>1, StepKeepsRun DEF JInv
  <1> QED
    BY <1>1, <1>2, <1>3 DEF JInv

\* The verdict paths are paths.
LEMMA VerdictPath == ASSUME NEW k \in Candidates PROVE Verdict(k) \in Published
  BY DEF Published

\* A verdict rests on the two records of its own run behind the baseline it was bound to: nobody
\* else's event counts for it, and none comes between, however many runs, calls by hand and other
\* commands write to the journal.
THEOREM VerdictOnOwn == Spec => []VerdictOnOwnEvents
  <1>1. Init => JInv
    BY InitJInv
  <1>2. JInv /\ [Next]_vars => JInv'
    BY NextJInv
  <1>3. JInv => VerdictOnOwnEvents
    <2> SUFFICES ASSUME JInv, NEW k \in Candidates, disk[Verdict(k)].data = "written",
                        NEW i \in {proc[disk[Verdict(k)].by].base + 1,
                                   proc[disk[Verdict(k)].by].base + 2}
                 PROVE  /\ i \in DOMAIN log /\ log[i].by = disk[Verdict(k)].by
                        /\ log[i].case = Mine(disk[Verdict(k)].by)
      BY DEF VerdictOnOwnEvents
    <2>1. Verdict(k) \in Paths
      BY VerdictPath, PublishedPaths
    <2>2. disk[Verdict(k)].by \in Verifiers
      BY <2>1 DEF JInv, WrittenByRuns
    <2>3. OwnRecords(disk[Verdict(k)].by)
      BY <2>1, <2>2 DEF JInv, RunInv, PublishesOnOwn
    <2> QED
      BY <2>3 DEF OwnRecords, Committed
  <1> QED
    BY <1>1, <1>2, <1>3, PTL DEF Spec

\* At most one run about a candidate ends with success: the verdict of the first stays where it
\* is, so that no other can have its own there.
THEOREM OneVerdict == Spec => []OneVerdictPerCandidate
  <1>1. Init => JInv
    BY InitJInv
  <1>2. JInv /\ [Next]_vars => JInv'
    BY NextJInv
  <1>3. JInv => OneVerdictPerCandidate
    BY DEF JInv, RunInv, VerdictStands, OneVerdictPerCandidate
  <1> QED
    BY <1>1, <1>2, <1>3, PTL DEF Spec

\* A handled failure takes back every reservation of the run, the file its writer has put back
\* included: each empty file of a live run is held just as it is, or a system call on it went wrong
\* and the run has said, or is about to say, that it leaves it there.
THEOREM FailureTakesBack == Spec => []FailureReleases
  <1>1. Init => JInv
    BY InitJInv
  <1>2. JInv /\ [Next]_vars => JInv'
    BY NextJInv
  <1>3. JInv => FailureReleases
    <2> SUFFICES ASSUME JInv, NEW v \in Verifiers, NEW x \in Published, proc[v].pc = "failed",
                        disk[x].by = v, disk[x].data = "empty"
                 PROVE  x \in proc[v].left /\ x \in proc[v].warned
      BY DEF FailureReleases
    <2>1. x \in Paths /\ EmptyIsHeld(v)
      BY PublishedPaths DEF JInv, RunInv
    <2> QED
      BY <2>1 DEF EmptyIsHeld, LeftBehind
  <1> QED
    BY <1>1, <1>2, <1>3, PTL DEF Spec
=============================================================================
