----------------------- MODULE EvidencePublicationProofs -----------------------
(***************************************************************************)
(* Proofs about EvidencePublication: what makes updates of one file safe.  *)
(* Either whole updates exclude each other, or only the writes do and each *)
(* of them gives the identity of the file it has read, on a file system    *)
(* that uses no inode number twice.  Then the file an updater writes from  *)
(* is the file that is there, and the writer alone changes it.             *)
(***************************************************************************)
EXTENDS EvidencePublication, TLAPS

\* The callers that hold a lock around the update, and those that hold it around the write and
\* pass the identity they have read.
WholeUpdates == setting.serialized = "update"
Identified == setting.serialized = "write" /\ setting.passes /\ ~setting.reuses

Disciplined ==
  \A s \in Settings :
    s.serialized = "update" \/ (s.serialized = "write" /\ s.passes /\ ~s.reuses)

Files == {f \in [ino : Inodes \cup {None}, data : SUBSET Procs] : f.ino = None => f.data = {}}
Memories == [read : Files, expected : Inodes \cup {None}, previous : Files,
             temp : Inodes \cup {None}, published : Inodes \cup {None}]
Ended == {"published", "failed", "unsettled", "rollback_failed", "killed"}
Steps == {"idle", "loaded"} \cup Ended \cup Writing

Typed ==
  /\ setting \in Settings /\ target \in Files /\ used \subseteq Inodes
  /\ pc \in [Procs -> Steps] /\ w \in [Procs -> Memories]

\* One writer; when whole updates exclude each other, one that has read.
OneWriter ==
  \A p, q \in Procs : p # q =>
    /\ ~(pc[p] \in Writing /\ pc[q] \in Writing)
    /\ WholeUpdates => ~(pc[p] \in {"loaded"} \cup Writing /\ pc[q] \in {"loaded"} \cup Writing)

Before == {"stage", "recheck", "replace"}
Behind == {"settle", "confirm", "validate", "check_undo", "undo"}

\* What the writer finds at the path, by what it has read.
WriterAt(p) ==
  /\ pc[p] \in Writing => w[p].previous = w[p].read /\ p \notin w[p].read.data
  /\ pc[p] \in Before => target = w[p].read
  /\ pc[p] = "replace" => w[p].temp # None
  /\ pc[p] = "recheck" => w[p].temp # None
  /\ pc[p] \in Behind => target.ino # None /\ target.data = w[p].read.data \cup {p}
  /\ pc[p] = "verify_undo" => target.data = w[p].read.data

\* A file that was read and has the inode of the one that is there is the one that is there.
ReadIsCurrent(p) ==
  pc[p] = "loaded" => /\ WholeUpdates => w[p].read = target
                      /\ w[p].read.ino = target.ino => w[p].read = target

\* No inode number is used twice: those in use are told apart from one that is staged.
Numbers ==
  Identified =>
    /\ target.ino \in used
    /\ \A p \in Procs :
         /\ pc[p] \in {"loaded"} \cup Writing => w[p].read.ino \in used
         /\ pc[p] \in {"recheck", "replace"} =>
              /\ w[p].temp \in used /\ w[p].temp # target.ino
              /\ \A q \in Procs : pc[q] = "loaded" => w[q].read.ino # w[p].temp

\* An entry is not there before it was written and after it was taken back, and there once it was
\* reported; what the writer goes back to says the same.
Entries ==
  \A q \in Procs :
    /\ pc[q] \in {"idle", "loaded", "failed"} \cup Before =>
         /\ q \notin target.data
         /\ \A p \in Procs : pc[p] \in Writing => q \notin w[p].read.data
    /\ pc[q] = "published" =>
         /\ q \in target.data
         /\ \A p \in Procs : pc[p] \in Writing => q \in w[p].read.data

IInv ==
  /\ Typed /\ OneWriter /\ Numbers /\ Entries
  /\ \A p \in Procs : WriterAt(p) /\ ReadIsCurrent(p)
-----------------------------------------------------------------------------
\* One of the two disciplines is that of the behaviour.
LEMMA Discipline ==
  ASSUME Disciplined, Typed
  PROVE  WholeUpdates \/ Identified
  BY EvidenceAssumption DEF Disciplined, Typed, WholeUpdates, Identified

\* What a step of one updater does to the places and the memories.
LEMMA OneMoves ==
  ASSUME Typed, NEW p \in Procs, NEW s \in Steps, NEW m \in Memories,
         Goto(p, s), w' = [w EXCEPT ![p] = m], UNCHANGED setting,
         target' \in Files, used' \subseteq Inodes
  PROVE  /\ Typed'
         /\ pc'[p] = s /\ w'[p] = m
         /\ \A q \in Procs \ {p} : pc'[q] = pc[q] /\ w'[q] = w[q]
         /\ WholeUpdates' = WholeUpdates /\ Identified' = Identified
  BY DEF Typed, Goto, WholeUpdates, Identified

\* The memory of an updater that remembers nothing new.
LEMMA SameMemory ==
  ASSUME Typed, NEW p \in Procs
  PROVE  w[p] \in Memories /\ w = [w EXCEPT ![p] = w[p]] /\ pc[p] \in Steps
  BY DEF Typed

\* The one writer goes on, or ends, and the file stays.
LEMMA WriterContinues ==
  ASSUME IInv, NEW p \in Procs, pc[p] \in Writing,
         NEW s \in Writing \cup Ended,
         NEW m \in Memories, Goto(p, s), w' = [w EXCEPT ![p] = m],
         m.read = w[p].read, m.previous = w[p].previous,
         UNCHANGED <<setting, target>>, used \subseteq used', used' \subseteq Inodes,
         WriterAt(p)', s \in Before => pc[p] \in Before,
         s = "failed" => p \notin target.data, s = "published" => p \in target.data,
         s \in {"recheck", "replace"} /\ Identified =>
           /\ m.temp \in used' /\ m.temp # target.ino
           /\ \A q \in Procs : pc[q] = "loaded" => w[q].read.ino # m.temp
  PROVE  IInv'
  <1>1. /\ s \in Steps /\ target' \in Files
        /\ \A x \in Writing : x \notin {"idle", "loaded", "published", "failed"}
        /\ s # "idle" /\ s # "loaded"
    BY DEF IInv, Typed, Steps, Writing, Ended
  <1>2. /\ Typed' /\ pc'[p] = s /\ w'[p] = m
        /\ \A q \in Procs \ {p} : pc'[q] = pc[q] /\ w'[q] = w[q]
        /\ WholeUpdates' = WholeUpdates /\ Identified' = Identified
    BY <1>1, OneMoves DEF IInv
  <1>3. \A q \in Procs \ {p} : pc[q] \notin Writing /\ (WholeUpdates => pc[q] # "loaded")
    BY DEF IInv, OneWriter
  <1>4. OneWriter'
    BY <1>1, <1>2, <1>3 DEF OneWriter
  <1>5. Numbers'
    BY <1>1, <1>2, <1>3 DEF IInv, Numbers
  <1>6. Entries'
    <2>1. ASSUME NEW q \in Procs \ {p}
          PROVE  /\ pc'[q] \in {"idle", "loaded", "failed"} \cup Before =>
                      /\ q \notin target.data
                      /\ \A r \in Procs : pc'[r] \in Writing => q \notin w'[r].read.data
                 /\ pc'[q] = "published" =>
                      /\ q \in target.data
                      /\ \A r \in Procs : pc'[r] \in Writing => q \in w'[r].read.data
      BY <1>2, <1>3 DEF IInv, Entries
    <2>2. s \in {"idle", "loaded", "failed"} \cup Before =>
            /\ p \notin target.data
            /\ \A r \in Procs : pc'[r] \in Writing => p \notin w'[r].read.data
      <3>1. s \in Before => p \notin target.data /\ p \notin m.read.data
        BY DEF IInv, WriterAt
      <3>2. Before \subseteq Writing /\ s # "idle" /\ s # "loaded"
        BY <1>1 DEF Before, Writing
      <3> QED
        BY <1>1, <1>2, <1>3, <3>1, <3>2
    <2>3. s = "published" =>
            /\ p \in target.data
            /\ \A r \in Procs : pc'[r] \in Writing => p \in w'[r].read.data
      BY <1>1, <1>2, <1>3
    <2> QED
      BY <1>2, <2>1, <2>2, <2>3 DEF Entries
  <1>7. \A q \in Procs : WriterAt(q)' /\ ReadIsCurrent(q)'
    <2>1. ReadIsCurrent(p)'
      BY <1>1, <1>2 DEF ReadIsCurrent
    <2>2. ASSUME NEW q \in Procs \ {p} PROVE WriterAt(q)' /\ ReadIsCurrent(q)'
      BY <1>2 DEF IInv, WriterAt, ReadIsCurrent
    <2> QED
      BY <2>1, <2>2
  <1> QED
    BY <1>2, <1>4, <1>5, <1>6, <1>7 DEF IInv
-----------------------------------------------------------------------------
(* The steps *)

LEMMA LoadKeeps ==
  ASSUME IInv, NEW p \in Procs, Load(p), UNCHANGED setting
  PROVE  IInv'
  <1> DEFINE m == [Forgotten EXCEPT !.read = target]
  <1>1. pc[p] = "idle" /\ Goto(p, "loaded") /\ w' = [w EXCEPT ![p] = m] /\ UNCHANGED <<target, used>>
    BY DEF Load, Remember, Keep
  <1>2. m \in Memories /\ m.read = target
    BY DEF IInv, Typed, Forgotten, Absent, Memories, Files
  <1> HIDE DEF m
  <1>3. /\ "loaded" \in Steps /\ target' \in Files /\ used' \subseteq Inodes
        /\ "loaded" \notin Writing \cup Before /\ "published" # "loaded"
    BY <1>1 DEF IInv, Typed, Steps, Writing, Before
  <1>4. /\ Typed' /\ pc'[p] = "loaded" /\ w'[p] = m
        /\ \A q \in Procs \ {p} : pc'[q] = pc[q] /\ w'[q] = w[q]
        /\ WholeUpdates' = WholeUpdates /\ Identified' = Identified
    BY <1>1, <1>2, <1>3, OneMoves DEF IInv
  <1>5. WholeUpdates => \A q \in Procs \ {p} : pc[q] \notin {"loaded"} \cup Writing
    BY DEF Load, Alone, WholeUpdates
  <1>6. OneWriter'
    BY <1>3, <1>4, <1>5 DEF IInv, OneWriter
  <1>7. Numbers'
    BY <1>1, <1>2, <1>3, <1>4 DEF IInv, Numbers
  <1>8. Entries'
    BY <1>1, <1>3, <1>4 DEF IInv, Entries
  <1>9. \A q \in Procs : WriterAt(q)' /\ ReadIsCurrent(q)'
    <2>1. WriterAt(p)' /\ ReadIsCurrent(p)'
      <3>1. "loaded" \notin Behind /\ "loaded" # "replace" /\ "loaded" # "recheck"
            /\ "loaded" # "verify_undo"
        BY DEF Behind
      <3> QED
        BY <1>1, <1>2, <1>3, <1>4, <3>1 DEF WriterAt, ReadIsCurrent
    <2>2. ASSUME NEW q \in Procs \ {p} PROVE WriterAt(q)' /\ ReadIsCurrent(q)'
      BY <1>1, <1>4 DEF IInv, WriterAt, ReadIsCurrent
    <2> QED
      BY <2>1, <2>2
  <1> QED
    BY <1>4, <1>6, <1>7, <1>8, <1>9 DEF IInv

\* An updater that has read and does not write.
LEMMA ReaderLeaves ==
  ASSUME IInv, NEW p \in Procs, pc[p] = "loaded", NEW s \in {"failed", "killed"},
         Goto(p, s), UNCHANGED <<setting, target, used, w>>
  PROVE  IInv'
  <1>1. /\ s \in Steps /\ target' \in Files /\ used' \subseteq Inodes
        /\ s \notin {"loaded", "published", "idle"} \cup Writing \cup Before \cup Behind
    BY DEF IInv, Typed, Steps, Ended, Writing, Before, Behind
  <1>2. /\ Typed' /\ pc'[p] = s /\ w' = w
        /\ \A q \in Procs \ {p} : pc'[q] = pc[q]
        /\ WholeUpdates' = WholeUpdates /\ Identified' = Identified
    BY <1>1, OneMoves, SameMemory DEF IInv
  <1>3. OneWriter'
    BY <1>1, <1>2 DEF IInv, OneWriter
  <1>4. Numbers'
    <2>1. s # "recheck" /\ s # "replace" /\ s # "loaded"
      OBVIOUS
    <2> QED
      BY <1>1, <1>2, <2>1 DEF IInv, Numbers
  <1>5. Entries'
    BY <1>1, <1>2 DEF IInv, Entries
  <1>6. \A q \in Procs : WriterAt(q)' /\ ReadIsCurrent(q)'
    <2>1. s # "recheck" /\ s # "replace" /\ s # "verify_undo" /\ s # "loaded"
      OBVIOUS
    <2> QED
      BY <1>1, <1>2, <2>1 DEF IInv, WriterAt, ReadIsCurrent
  <1> QED
    BY <1>2, <1>3, <1>4, <1>5, <1>6 DEF IInv

\* The write begins: what was read is what is there.
LEMMA BeginKeeps ==
  ASSUME Disciplined, IInv, NEW p \in Procs, Begin(p), UNCHANGED setting
  PROVE  IInv'
  <1>1. pc[p] = "loaded" /\ UNCHANGED <<target, used>>
    BY DEF Begin, Keep
  <1>2. CASE Goto(p, "failed") /\ UNCHANGED w
    BY <1>1, <1>2, ReaderLeaves
  <1> DEFINE m == [w[p] EXCEPT !.expected = target.ino, !.previous = target]
  <1>3. CASE Goto(p, "stage") /\ w' = [w EXCEPT ![p] = m]
    <2>1. w[p] \in Memories /\ target \in Files /\ target.ino \in Inodes \cup {None}
      BY SameMemory DEF IInv, Typed, Files
    <2>2. m \in Memories /\ m.read = w[p].read /\ m.previous = target
      BY <2>1 DEF Memories
    <2>3. w[p].read = target
      <3>1. CASE WholeUpdates
        BY <1>1, <3>1 DEF IInv, ReadIsCurrent
      <3>2. CASE Identified
        <4>1. target.ino = w[p].read.ino
          BY <1>3, <3>2 DEF Begin, Identified, Goto, IInv, Typed
        <4> QED
          BY <1>1, <4>1 DEF IInv, ReadIsCurrent
      <3> QED
        BY <3>1, <3>2, Discipline DEF IInv
    <2>4. /\ "stage" \in Steps /\ target' \in Files /\ used' \subseteq Inodes
          /\ "stage" \in Writing /\ "stage" \in Before /\ "stage" \notin Behind
          /\ "loaded" \notin Writing
      BY <1>1 DEF IInv, Typed, Steps, Writing, Before, Behind
    <2> HIDE DEF m
    <2>5. /\ Typed' /\ pc'[p] = "stage" /\ w'[p] = m
          /\ \A q \in Procs \ {p} : pc'[q] = pc[q] /\ w'[q] = w[q]
          /\ WholeUpdates' = WholeUpdates /\ Identified' = Identified
      BY <1>3, <2>2, <2>4, OneMoves DEF IInv
    <2>6. \A q \in Procs \ {p} : pc[q] \notin Writing
      <3>1. CASE WholeUpdates
        BY <1>1, <3>1 DEF IInv, OneWriter
      <3>2. CASE Identified
        BY <3>2 DEF Begin, Identified, Alone
      <3> QED
        BY <3>1, <3>2, Discipline DEF IInv
    <2>7. OneWriter'
      BY <1>1, <2>4, <2>5, <2>6 DEF IInv, OneWriter
    <2>8. Numbers'
      BY <1>1, <2>2, <2>4, <2>5 DEF IInv, Numbers
    <2>9. Entries'
      BY <1>1, <2>2, <2>3, <2>4, <2>5, <2>6 DEF IInv, Entries
    <2>10. WriterAt(p)' /\ ReadIsCurrent(p)'
      <3>1. p \notin target.data
        BY <1>1 DEF IInv, Entries
      <3> QED
        BY <1>1, <2>2, <2>3, <2>4, <2>5, <3>1 DEF WriterAt, ReadIsCurrent
    <2>11. ASSUME NEW q \in Procs \ {p} PROVE WriterAt(q)' /\ ReadIsCurrent(q)'
      BY <1>1, <2>5 DEF IInv, WriterAt, ReadIsCurrent
    <2> QED
      BY <2>5, <2>7, <2>8, <2>9, <2>10, <2>11 DEF IInv
  <1> QED
    BY <1>2, <1>3 DEF Begin, Remember

\* A failure before the replace.
LEMMA GiveUpKeeps ==
  ASSUME IInv, NEW p \in Procs, pc[p] \in Before, GiveUp(p), UNCHANGED <<setting, used>>
  PROVE  IInv'
  <1> DEFINE m == [w[p] EXCEPT !.temp = None]
  <1>1. Goto(p, "failed") /\ w' = [w EXCEPT ![p] = m] /\ UNCHANGED target
    BY DEF GiveUp, Remember, Keep
  <1>2. m \in Memories /\ m.read = w[p].read /\ m.previous = w[p].previous
    BY SameMemory DEF IInv, Memories
  <1> HIDE DEF m
  <1>3. pc[p] \in Writing /\ p \notin target.data /\ used' \subseteq Inodes
    BY DEF IInv, WriterAt, Before, Writing, Typed
  <1>4. WriterAt(p)'
    <2>1. pc'[p] = "failed"
      BY <1>1 DEF Goto, IInv, Typed
    <2> QED
      BY <2>1 DEF WriterAt, Writing, Before, Behind
  <1> QED
    BY <1>1, <1>2, <1>3, <1>4, WriterContinues DEF Before, Ended

LEMMA StageKeeps ==
  ASSUME IInv, NEW p \in Procs, Stage(p), UNCHANGED setting
  PROVE  IInv'
  <1>1. pc[p] = "stage" /\ pc[p] \in Before /\ pc[p] \in Writing
    BY DEF Stage, Before, Writing
  <1>2. CASE \E i \in FreeInodes : /\ Remember(p, [w[p] EXCEPT !.temp = i])
                                   /\ used' = used \cup {i} /\ Goto(p, "recheck") /\ Keep
    <2>1. PICK i \in FreeInodes : /\ w' = [w EXCEPT ![p] = [w[p] EXCEPT !.temp = i]]
                                  /\ used' = used \cup {i} /\ Goto(p, "recheck")
                                  /\ UNCHANGED target
      BY <1>2 DEF Remember, Keep
    <2> DEFINE m == [w[p] EXCEPT !.temp = i]
    <2>2. i \in Inodes /\ i # None
      BY EvidenceAssumption DEF FreeInodes
    <2>3. m \in Memories /\ m.read = w[p].read /\ m.previous = w[p].previous /\ m.temp = i
      BY <2>2, SameMemory DEF IInv, Memories
    <2>4. w' = [w EXCEPT ![p] = m]
      BY <2>1
    <2> HIDE DEF m
    <2>5. Identified => /\ i \in used' /\ i # target.ino
                        /\ \A q \in Procs : pc[q] = "loaded" => w[q].read.ino # i
      BY <2>1 DEF FreeInodes, Identified, IInv, Numbers
    <2>6. pc'[p] = "recheck" /\ w'[p] = m
      BY <2>1, <2>4 DEF Goto, IInv, Typed
    <2>7. WriterAt(p)'
      BY <1>1, <2>1, <2>2, <2>3, <2>6 DEF IInv, WriterAt, Before, Behind, Writing
    <2>8. used \subseteq used' /\ used' \subseteq Inodes
      BY <2>1, <2>2 DEF IInv, Typed
    <2> QED
      BY <1>1, <2>1, <2>3, <2>4, <2>5, <2>7, <2>8, WriterContinues DEF Writing
  <1>3. CASE GiveUp(p) /\ UNCHANGED used
    BY <1>1, <1>3, GiveUpKeeps
  <1> QED
    BY <1>2, <1>3 DEF Stage

\* A step of the writer to which only its place changes.
LEMMA WriterMoves ==
  ASSUME IInv, NEW p \in Procs, pc[p] \in Writing,
         NEW s \in Writing \cup Ended,
         Goto(p, s), UNCHANGED <<setting, target, used, w>>,
         WriterAt(p)', s \in Before => pc[p] \in Before,
         s = "failed" => p \notin target.data, s = "published" => p \in target.data,
         s \in {"recheck", "replace"} => pc[p] \in {"recheck", "replace"}
  PROVE  IInv'
  <1>1. w[p] \in Memories /\ w' = [w EXCEPT ![p] = w[p]] /\ used' \subseteq Inodes
    BY SameMemory DEF IInv, Typed
  <1>2. s \in {"recheck", "replace"} /\ Identified =>
           /\ w[p].temp \in used' /\ w[p].temp # target.ino
           /\ \A q \in Procs : pc[q] = "loaded" => w[q].read.ino # w[p].temp
    BY DEF IInv, Numbers
  <1> QED
    BY <1>1, <1>2, WriterContinues

LEMMA RecheckKeeps ==
  ASSUME IInv, NEW p \in Procs, Recheck(p), UNCHANGED setting
  PROVE  IInv'
  <1>1. pc[p] = "recheck" /\ pc[p] \in Before /\ pc[p] \in Writing
    BY DEF Recheck, Before, Writing
  <1>2. CASE Goto(p, "replace") /\ Keep /\ UNCHANGED w
    <2>1. pc'[p] = "replace" /\ UNCHANGED <<target, w, used>>
      BY <1>2 DEF Goto, IInv, Typed, Keep, Recheck
    <2>2. WriterAt(p)'
      BY <1>1, <2>1 DEF IInv, WriterAt, Writing, Before, Behind
    <2> QED
      BY <1>1, <1>2, <2>1, <2>2, WriterMoves DEF Writing
  <1>3. CASE GiveUp(p)
    BY <1>1, <1>3, GiveUpKeeps DEF Recheck
  <1> QED
    BY <1>2, <1>3 DEF Recheck

\* The writer puts a file at the path whose inode is that of no file that was read.
LEMMA WriterPuts ==
  ASSUME IInv, NEW p \in Procs, pc[p] \in Writing, NEW s \in {"settle", "verify_undo"},
         NEW m \in Memories, Goto(p, s), w' = [w EXCEPT ![p] = m],
         m.read = w[p].read, m.previous = w[p].previous,
         NEW f \in Files, target' = f, f.ino # None,
         UNCHANGED setting, used \subseteq used', used' \subseteq Inodes,
         s = "settle" => f.data = w[p].read.data \cup {p},
         s = "verify_undo" => f.data = w[p].read.data,
         Identified => f.ino \in used' /\ \A q \in Procs : pc[q] = "loaded" => w[q].read.ino # f.ino,
         Disciplined
  PROVE  IInv'
  <1>1. /\ s \in Steps /\ s \in Writing /\ s \notin Before
        /\ s \notin {"idle", "loaded", "published", "failed", "recheck", "replace"}
        /\ \A x \in Writing : x \notin {"idle", "loaded", "published", "failed"}
    BY DEF Steps, Writing, Before
  <1>2. /\ Typed' /\ pc'[p] = s /\ w'[p] = m
        /\ \A q \in Procs \ {p} : pc'[q] = pc[q] /\ w'[q] = w[q]
        /\ WholeUpdates' = WholeUpdates /\ Identified' = Identified
    <2>1. Typed /\ target' \in Files
      BY DEF IInv
    <2> QED
      BY <1>1, <2>1, OneMoves, ZenonT(40)
  <1>3. \A q \in Procs \ {p} : pc[q] \notin Writing /\ (WholeUpdates => pc[q] # "loaded")
    BY DEF IInv, OneWriter
  <1>4. OneWriter'
    BY <1>1, <1>2, <1>3 DEF OneWriter
  <1>5. Numbers'
    <2>1. \A q \in Procs \ {p} : pc[q] # "recheck" /\ pc[q] # "replace"
      BY <1>3 DEF Writing
    <2> QED
      BY <1>1, <1>2, <1>3, <2>1 DEF IInv, Numbers
  <1>6. p \notin w[p].read.data
    BY DEF IInv, WriterAt
  <1>7. Entries'
    <2>1. ASSUME NEW q \in Procs \ {p}
          PROVE  /\ pc'[q] \in {"idle", "loaded", "failed"} \cup Before =>
                      /\ q \notin f.data
                      /\ \A r \in Procs : pc'[r] \in Writing => q \notin w'[r].read.data
                 /\ pc'[q] = "published" =>
                      /\ q \in f.data
                      /\ \A r \in Procs : pc'[r] \in Writing => q \in w'[r].read.data
      BY <1>2, <1>3 DEF IInv, Entries
    <2> QED
      BY <1>1, <1>2, <2>1 DEF Entries
  <1>8. WriterAt(p)' /\ ReadIsCurrent(p)'
    <2>1. s = "verify_undo" => s \notin Behind
      BY DEF Behind
    <2> QED
      BY <1>1, <1>2, <1>6, <2>1 DEF IInv, WriterAt, ReadIsCurrent
  <1>9. ASSUME NEW q \in Procs \ {p} PROVE WriterAt(q)' /\ ReadIsCurrent(q)'
    <2>1. pc'[q] \notin Writing
      BY <1>2, <1>3
    <2>2. WriterAt(q)'
      BY <2>1 DEF WriterAt, Writing, Before, Behind
    <2>3. ReadIsCurrent(q)'
      BY <1>2, <1>3, Discipline DEF ReadIsCurrent, IInv
    <2> QED
      BY <2>2, <2>3
  <1> QED
    BY <1>2, <1>4, <1>5, <1>7, <1>8, <1>9 DEF IInv

LEMMA ReplaceKeeps ==
  ASSUME Disciplined, IInv, NEW p \in Procs, Replace(p), UNCHANGED setting
  PROVE  IInv'
  <1>1. pc[p] = "replace" /\ pc[p] \in Before /\ pc[p] \in Writing /\ UNCHANGED used
    BY DEF Replace, Before, Writing
  <1> DEFINE m == [w[p] EXCEPT !.temp = None]
             f == [ino |-> w[p].temp, data |-> w[p].read.data \cup {p}]
  <1>2. CASE target' = f /\ w' = [w EXCEPT ![p] = m] /\ Goto(p, "settle")
    <2>1. m \in Memories /\ m.read = w[p].read /\ m.previous = w[p].previous
      BY SameMemory DEF IInv, Memories
    <2>2. w[p].temp # None
      BY <1>1 DEF IInv, WriterAt
    <2>3. f \in Files /\ f.ino = w[p].temp /\ f.data = w[p].read.data \cup {p}
      <3>1. w[p].temp \in Inodes /\ w[p].read.data \cup {p} \in SUBSET Procs
        BY <2>2, SameMemory DEF IInv, Memories, Files
      <3>2. f \in [ino : Inodes \cup {None}, data : SUBSET Procs]
        BY <3>1
      <3> QED
        BY <2>2, <3>2 DEF Files
    <2>4. Identified => /\ w[p].temp \in used'
                        /\ \A q \in Procs : pc[q] = "loaded" => w[q].read.ino # w[p].temp
      BY <1>1 DEF IInv, Numbers
    <2>5. used' \subseteq Inodes
      BY <1>1 DEF IInv, Typed
    <2> HIDE DEF m, f
    <2> QED
      BY <1>1, <1>2, <2>1, <2>2, <2>3, <2>4, <2>5, WriterPuts
  <1>3. CASE GiveUp(p)
    BY <1>1, <1>3, GiveUpKeeps
  <1> QED
    BY <1>2, <1>3 DEF Replace, Put, Remember

\* The published identity is read, or the update ends without it and leaves its entry.
LEMMA SettleKeeps ==
  ASSUME IInv, NEW p \in Procs, Settle(p), UNCHANGED setting
  PROVE  IInv'
  <1> DEFINE m == [w[p] EXCEPT !.published = target.ino]
  <1>1. /\ pc[p] = "settle" /\ pc[p] \in Writing
        /\ UNCHANGED <<target, used>> /\ target.ino # None
    BY DEF Settle, Keep, Writing, IInv, WriterAt, Behind
  <1>2. CASE w' = [w EXCEPT ![p] = m] /\ Goto(p, "confirm")
    <2>1. m \in Memories /\ m.read = w[p].read /\ m.previous = w[p].previous
      <3>1. target.ino \in Inodes \cup {None} /\ w[p] \in Memories
        BY SameMemory DEF IInv, Typed, Files
      <3> QED
        BY <3>1 DEF Memories
    <2> HIDE DEF m
    <2>2. pc'[p] = "confirm" /\ w'[p] = m /\ used' \subseteq Inodes
      BY <1>1, <1>2 DEF Goto, IInv, Typed
    <2>3. WriterAt(p)'
      BY <1>1, <2>1, <2>2 DEF IInv, WriterAt, Writing, Before, Behind
    <2> QED
      BY <1>1, <1>2, <2>1, <2>2, <2>3, WriterContinues DEF Writing, Before
  <1>3. CASE Goto(p, "unsettled") /\ UNCHANGED w
    <2>1. pc'[p] = "unsettled"
      BY <1>3 DEF Goto, IInv, Typed
    <2>2. WriterAt(p)'
      BY <2>1 DEF WriterAt, Writing, Before, Behind
    <2> QED
      BY <1>1, <1>3, <2>2, WriterMoves DEF Before, Ended
  <1> QED
    BY <1>1, <1>2, <1>3 DEF Settle, Remember

\* The steps behind the replace that leave the file alone.
LEMMA BehindKeeps ==
  ASSUME IInv, NEW p \in Procs, UNCHANGED setting,
         Confirm(p) \/ Validate(p) \/ CheckUndo(p) \/ VerifyUndo(p)
  PROVE  IInv'
  <1>1. UNCHANGED <<target, used, w>> /\ pc[p] \in Writing
    BY DEF Confirm, Validate, CheckUndo, VerifyUndo, Keep, Writing
  <1>2. PICK s \in {"validate", "check_undo", "undo", "published", "failed", "rollback_failed"} :
          /\ Goto(p, s)
          /\ s \in {"validate", "check_undo", "undo", "published"} => pc[p] \in Behind
          /\ s = "failed" => pc[p] = "verify_undo"
    BY DEF Confirm, Validate, CheckUndo, VerifyUndo, Behind
  <1>3. pc'[p] = s
    BY <1>2 DEF Goto, IInv, Typed
  <1>4. s = "published" => p \in target.data
    BY <1>2 DEF IInv, WriterAt
  <1>5. s = "failed" => p \notin target.data
    BY <1>1, <1>2 DEF IInv, WriterAt
  <1>6. WriterAt(p)'
    BY <1>1, <1>2, <1>3 DEF IInv, WriterAt, Writing, Before, Behind
  <1> QED
    BY <1>1, <1>2, <1>4, <1>5, <1>6, WriterMoves DEF Writing, Before, Ended

\* What was there before is put back: that is what the writer has read.
LEMMA UndoKeeps ==
  ASSUME Disciplined, IInv, NEW p \in Procs, Undo(p), UNCHANGED setting
  PROVE  IInv'
  <1>1. /\ pc[p] = "undo" /\ pc[p] \in Writing
        /\ w[p].previous = w[p].read /\ p \notin w[p].read.data
    BY DEF Undo, Writing, IInv, WriterAt
  <1>2. CASE w[p].previous.ino # None
    <2>1. PICK i \in FreeInodes : /\ target' = [ino |-> i, data |-> w[p].previous.data]
                                  /\ used' = used \cup {i}
                                  /\ w' = [w EXCEPT ![p] = [w[p] EXCEPT !.published = i]]
                                  /\ Goto(p, "verify_undo")
      BY <1>2 DEF Undo, Put, Remember
    <2> DEFINE m == [w[p] EXCEPT !.published = i]
               f == [ino |-> i, data |-> w[p].previous.data]
    <2>2. i \in Inodes /\ i # None
      BY EvidenceAssumption DEF FreeInodes
    <2>3. m \in Memories /\ m.read = w[p].read /\ m.previous = w[p].previous
      BY <2>2, SameMemory DEF IInv, Memories
    <2>4. f \in Files /\ f.ino = i /\ f.data = w[p].read.data
      BY <1>1, <2>2, SameMemory DEF IInv, Memories, Files
    <2>5. w' = [w EXCEPT ![p] = m] /\ target' = f
      BY <2>1
    <2>6. used \subseteq used' /\ used' \subseteq Inodes
      BY <2>1, <2>2 DEF IInv, Typed
    <2>7. Identified => i \in used' /\ \A q \in Procs : pc[q] = "loaded" => w[q].read.ino # i
      BY <2>1 DEF FreeInodes, Identified, IInv, Numbers
    <2> HIDE DEF m, f
    <2> QED
      BY <1>1, <2>1, <2>2, <2>3, <2>4, <2>5, <2>6, <2>7, WriterPuts
  <1>3. CASE w[p].previous.ino = None
    <2>1. target' = Absent /\ UNCHANGED <<used, w>>
      BY <1>3 DEF Undo, Put
    <2>2. PICK s \in {"failed", "rollback_failed"} : Goto(p, s)
      BY <1>3 DEF Undo
    <2>3. /\ s \in Steps /\ s \notin Writing \cup Before \cup Behind
          /\ s # "idle" /\ s # "loaded" /\ s # "published" /\ s # "recheck" /\ s # "replace"
          /\ s # "verify_undo"
      BY DEF Steps, Ended, Writing, Before, Behind
    <2>4. target' \in Files /\ used' \subseteq Inodes
      BY <2>1 DEF Absent, Files, IInv, Typed
    <2>5. /\ Typed' /\ pc'[p] = s /\ w' = w
          /\ \A q \in Procs \ {p} : pc'[q] = pc[q]
          /\ WholeUpdates' = WholeUpdates /\ Identified' = Identified
      BY <2>1, <2>2, <2>3, <2>4, OneMoves, SameMemory DEF IInv
    <2>6. ~Identified /\ WholeUpdates
      <3>1. ~Identified
        BY <1>1, <1>3, EvidenceAssumption DEF IInv, Numbers, Typed
      <3> QED
        BY <3>1, Discipline DEF IInv
    <2>7. \A q \in Procs \ {p} : pc[q] \notin Writing /\ pc[q] # "loaded"
      BY <1>1, <2>6 DEF IInv, OneWriter
    <2>8. OneWriter'
      BY <2>3, <2>5, <2>7 DEF OneWriter
    <2>9. Entries'
      <3>1. w[p].read.data = {}
        BY <1>1, <1>3, SameMemory DEF IInv, Memories, Files
      <3> QED
        BY <1>1, <2>1, <2>3, <2>5, <2>7, <3>1 DEF IInv, Entries, Absent
    <2>10. ASSUME NEW q \in Procs PROVE WriterAt(q)' /\ ReadIsCurrent(q)'
      <3>1. pc'[q] \notin Writing /\ pc'[q] # "loaded"
        BY <2>3, <2>5, <2>7
      <3> QED
        BY <3>1 DEF WriterAt, ReadIsCurrent, Writing, Before, Behind
    <2> QED
      BY <2>5, <2>6, <2>8, <2>9, <2>10 DEF IInv, Numbers
  <1> QED
    BY <1>2, <1>3

\* A killed updater leaves the file as it is, and nothing is said of its entry.
LEMMA CrashKeeps ==
  ASSUME IInv, NEW p \in Procs, Crash(p), UNCHANGED setting
  PROVE  IInv'
  <1>1. Goto(p, "killed") /\ UNCHANGED <<target, used, w>>
    BY DEF Crash, Keep
  <1>2. CASE pc[p] = "loaded"
    BY <1>1, <1>2, ReaderLeaves
  <1>3. CASE pc[p] \in Writing
    <2>1. pc'[p] = "killed"
      BY <1>1 DEF Goto, IInv, Typed
    <2>2. WriterAt(p)'
      BY <2>1 DEF WriterAt, Writing, Before, Behind
    <2> QED
      BY <1>1, <1>3, <2>2, WriterMoves DEF Before, Ended
  <1> QED
    BY <1>2, <1>3 DEF Crash
-----------------------------------------------------------------------------
(* The invariant, and what it gives *)

LEMMA InitIInv == ASSUME Init PROVE IInv
  <1>1. Typed
    <2>1. target \in Files
      BY DEF Init, Files, Absent
    <2>2. used \subseteq Inodes
      BY <2>1 DEF Init, Files
    <2>3. Absent \in Files
      BY DEF Absent, Files
    <2>4. Forgotten \in Memories
      BY <2>3 DEF Forgotten, Memories
    <2> QED
      BY <2>1, <2>2, <2>4 DEF Init, Typed, Steps
  <1>2. \A p \in Procs : pc[p] = "idle"
    BY DEF Init
  <1>3. "idle" \notin {"loaded"} \cup Writing \cup Before \cup Behind
    BY DEF Writing, Before, Behind
  <1>4. \A q \in Procs : q \notin target.data
    BY DEF Init, Absent
  <1>5. Identified => target.ino \in used
    BY EvidenceAssumption DEF Init, Identified
  <1>6. OneWriter /\ Entries
    BY <1>2, <1>3, <1>4 DEF OneWriter, Entries
  <1>7. Numbers
    BY <1>2, <1>3, <1>5 DEF Numbers
  <1>8. \A p \in Procs : WriterAt(p) /\ ReadIsCurrent(p)
    BY <1>2, <1>3 DEF WriterAt, ReadIsCurrent
  <1> QED
    BY <1>1, <1>6, <1>7, <1>8 DEF IInv

LEMMA NextIInv == ASSUME Disciplined, IInv, [Next]_vars PROVE IInv'
  <1>1. ASSUME NEW p \in Procs, UNCHANGED setting,
               \/ Load(p) \/ Begin(p) \/ Stage(p) \/ Recheck(p) \/ Replace(p)
               \/ Settle(p) \/ Confirm(p) \/ Validate(p)
               \/ CheckUndo(p) \/ Undo(p) \/ VerifyUndo(p) \/ Crash(p)
        PROVE  IInv'
    BY <1>1, LoadKeeps, BeginKeeps, StageKeeps, RecheckKeeps, ReplaceKeeps, SettleKeeps,
       BehindKeeps, UndoKeeps, CrashKeeps
  <1>2. ASSUME UNCHANGED vars PROVE IInv'
    BY <1>2 DEF vars, IInv, Typed, OneWriter, Numbers, Entries, WriterAt, ReadIsCurrent,
                WholeUpdates, Identified
  <1> QED
    BY <1>1, <1>2 DEF Next

\* An entry whose publication was reported stays, under both disciplines, whatever updates fail,
\* are rolled back or are killed behind it, for every number of updaters and of faults.
THEOREM PublishedStays == ASSUME Disciplined PROVE Spec => []PublishedKept
  <1>1. Init => IInv
    BY InitIInv
  <1>2. IInv /\ [Next]_vars => IInv'
    BY NextIInv
  <1>3. IInv => PublishedKept
    BY DEF IInv, Entries, PublishedKept
  <1> QED
    BY <1>1, <1>2, <1>3, PTL DEF Spec

\* The entry of an update that failed before its replace, or was rolled back with success, is not
\* in the file: nobody has read it meanwhile and writes it again.  Of an update whose rollback
\* failed, or that never learned the identity of what it published, nothing is said.
THEOREM FailedIsUndone == ASSUME Disciplined PROVE Spec => []FailureUndone
  <1>1. Init => IInv
    BY InitIInv
  <1>2. IInv /\ [Next]_vars => IInv'
    BY NextIInv
  <1>3. IInv => FailureUndone
    BY DEF IInv, Entries, FailureUndone
  <1> QED
    BY <1>1, <1>2, <1>3, PTL DEF Spec
=============================================================================
