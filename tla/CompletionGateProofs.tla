------------------------- MODULE CompletionGateProofs -------------------------
(***************************************************************************)
(* Proofs about CompletionGate.  The revision a gate passes with its       *)
(* records keeps every other writer out from its start on; the lock keeps  *)
(* the journal and the handoff as they are from the last check on; and the *)
(* history variable says since when nobody else has written.               *)
(***************************************************************************)
EXTENDS CompletionGate, TLAPS

Fields == {"pc", "result", "rev", "seen", "bad", "halted", "draft", "evidence", "basis"}

\* From the first record of a gate to its writer's lock, and under the lock.
Mid == {"inspect", "result", "synthesize", "publish", "reload", "docker", "evidence", "summary",
        "terminal"}
Under == {"derive", "publish handoff", "consistent", "append"}
Over == {"current", "assert", "partial", "done"}

IsJournal == \E S : journal \in Seq(S)

Shaped ==
  /\ DOMAIN gate = Gates /\ DOMAIN told = Gates /\ "items" \in DOMAIN ledger
  /\ \A g \in Gates : DOMAIN gate[g] = Fields /\ "items" \in DOMAIN gate[g].draft

Called(g) == gate[g].pc # "idle" => gate[g].result \in VALID_RESULTS

\* Since its start the journal holds the records of the gate alone.
Since(g) ==
  gate[g].pc \in Mid \cup Under =>
    /\ gate[g].rev \in Nat /\ gate[g].rev <= Len(journal)
    /\ \E s \in 1..gate[g].rev : /\ journal[s].name = "started"
                                 /\ \A i \in s..gate[g].rev : journal[i].by = g

\* Under the lock the journal is the one the gate knows.
Holds(g) == gate[g].pc \in Under => lock = g /\ gate[g].rev = Len(journal)

\* The handoff that was published for the record.
Handed(g) ==
  gate[g].pc \in {"consistent", "append"} =>
    /\ handoff.journal = Projected(g)
    /\ handoff.ledger.items = Validated(handoff.facts)
    /\ handoff.ledger.records = Validated(handoff.facts)

\* SUMMARY.md says the result, and how many bundles there are in S.
SummarySays(g, S) ==
  summary \in {Authored, [result |-> gate[g].result, count |-> Cardinality(S)]}

\* What is there of a gate since whose SUMMARY.md nobody else wrote.
Undisturbed(g) ==
  quiet = g =>
    /\ gate[g].pc \in {"terminal"} \cup Under \cup Over
    /\ gate[g].pc \in {"terminal"} \cup Under => SummarySays(g, gate[g].seen.validated)
    /\ gate[g].pc \in {"consistent", "append"} =>
         text = Rendered(Projected(g), handoff) /\ ledger.items = handoff.ledger.items
    /\ gate[g].pc = "append" => gate[g].seen.validated = Validated(handoff.facts)
    /\ gate[g].pc = "current" =>
         text = Rendered(journal, handoff) /\ SummarySays(g, Validated(handoff.facts))
    /\ gate[g].pc = "assert" =>
         /\ HandoffCurrent /\ text = Rendered(journal, handoff)
         /\ SummarySays(g, Validated(facts))

\* A gate that has passed is done, and would pass again.
Stands(g) ==
  told[g] = "passed" =>
    gate[g].pc = "done" /\ (quiet = g => RerunAccepts(gate[g].result))

GateInv(g) ==
  Called(g) /\ Since(g) /\ Holds(g) /\ Handed(g) /\ Undisturbed(g) /\ Stands(g)

IInv == IsJournal /\ Shaped /\ PassUninterrupted /\ \A g \in Gates : GateInv(g)
-----------------------------------------------------------------------------
(* The journal and the locals *)

\* One more record.
LEMMA AppendJournal ==
  ASSUME NEW j, \E S : j \in Seq(S), NEW e
  PROVE  /\ \E S : Append(j, e) \in Seq(S)
         /\ Len(j) \in Nat /\ Len(Append(j, e)) = Len(j) + 1
         /\ DOMAIN j = 1..Len(j) /\ DOMAIN Append(j, e) = 1..(Len(j) + 1)
         /\ \A i \in 1..Len(j) : Append(j, e)[i] = j[i]
         /\ Append(j, e)[Len(j) + 1] = e
  <1>1. PICK S : j \in Seq(S)
    OBVIOUS
  <1>2. j \in Seq(S \cup {e}) /\ e \in S \cup {e}
    BY <1>1
  <1>3. Append(j, e) \in Seq(S \cup {e})
    BY <1>2
  <1> QED
    BY <1>2, <1>3

LEMMA JournalLength ==
  ASSUME IsJournal
  PROVE  Len(journal) \in Nat /\ DOMAIN journal = 1..Len(journal)
  <1>1. PICK S : journal \in Seq(S)
    BY DEF IsJournal
  <1> QED
    BY <1>1

\* The locals of one gate are set.
LEMMA SetShape ==
  ASSUME Shaped, NEW g \in Gates, NEW l, DOMAIN l = Fields, Set(g, l)
  PROVE  /\ DOMAIN gate' = Gates /\ \A h \in Gates : DOMAIN gate'[h] = Fields
         /\ gate'[g] = l /\ \A h \in Gates : h # g => gate'[h] = gate[h]
  BY DEF Shaped, Set

LEMMA LocalsShape == DOMAIN Locals = Fields
  BY DEF Locals, Fields

\* A gate goes to another step.
LEMMA GotoShape ==
  ASSUME Shaped, NEW g \in Gates, NEW step, Goto(g, step)
  PROVE  /\ DOMAIN gate' = Gates /\ \A h \in Gates : DOMAIN gate'[h] = Fields
         /\ gate'[g].pc = step /\ gate'[g].result = gate[g].result /\ gate'[g].rev = gate[g].rev
         /\ gate'[g].seen = gate[g].seen /\ gate'[g].evidence = gate[g].evidence
         /\ gate'[g].draft = gate[g].draft
         /\ \A h \in Gates : h # g => gate'[h] = gate[h]
  <1> DEFINE l == [gate[g] EXCEPT !.pc = step]
  <1>1. DOMAIN gate[g] = Fields
    BY DEF Shaped
  <1>2. /\ DOMAIN l = Fields /\ l.pc = step /\ l.result = gate[g].result /\ l.rev = gate[g].rev
        /\ l.seen = gate[g].seen /\ l.evidence = gate[g].evidence /\ l.draft = gate[g].draft
    BY <1>1 DEF Fields
  <1>3. Set(g, l)
    BY DEF Goto
  <1> HIDE DEF l
  <1> QED
    BY <1>2, <1>3, SetShape

\* A gate goes to another step, with or without something it has read.
LEMMA OnwardShape ==
  ASSUME Shaped, NEW g \in Gates, NEW step, NEW basis,
         Set(g, [gate[g] EXCEPT !.pc = step, !.basis = basis])
  PROVE  /\ DOMAIN gate' = Gates /\ \A h \in Gates : DOMAIN gate'[h] = Fields
         /\ gate'[g].pc = step /\ gate'[g].result = gate[g].result /\ gate'[g].rev = gate[g].rev
         /\ gate'[g].seen = gate[g].seen /\ gate'[g].evidence = gate[g].evidence
         /\ gate'[g].draft = gate[g].draft
         /\ \A h \in Gates : h # g => gate'[h] = gate[h]
  <1> DEFINE l == [gate[g] EXCEPT !.pc = step, !.basis = basis]
  <1>1. DOMAIN gate[g] = Fields
    BY DEF Shaped
  <1>2. /\ DOMAIN l = Fields /\ l.pc = step /\ l.result = gate[g].result /\ l.rev = gate[g].rev
        /\ l.seen = gate[g].seen /\ l.evidence = gate[g].evidence /\ l.draft = gate[g].draft
    BY <1>1 DEF Fields
  <1>3. Set(g, l)
    OBVIOUS
  <1> HIDE DEF l
  <1> QED
    BY <1>2, <1>3, SetShape

\* Whoever goes to another step may as well keep what it has read.
LEMMA GotoOnward ==
  ASSUME Shaped, NEW g \in Gates, NEW step, Goto(g, step)
  PROVE  Set(g, [gate[g] EXCEPT !.pc = step, !.basis = gate[g].basis])
  <1>1. DOMAIN gate[g] = Fields
    BY DEF Shaped
  <1>2. [gate[g] EXCEPT !.pc = step] = [gate[g] EXCEPT !.pc = step, !.basis = gate[g].basis]
    BY <1>1 DEF Fields
  <1> QED
    BY <1>2 DEF Goto, Set

\* A call ends.
LEMMA AnswerShape ==
  ASSUME Shaped, NEW g \in Gates, NEW answer, Answer(g, answer), ledger' = ledger
  PROVE  /\ Shaped' /\ gate'[g].pc = "done" /\ gate'[g].result = gate[g].result
         /\ told'[g] = answer /\ lock' = IF lock = g THEN None ELSE lock
         /\ \A h \in Gates : h # g => gate'[h] = gate[h] /\ told'[h] = told[h]
  <1> DEFINE l == [Locals EXCEPT !.pc = "done", !.result = gate[g].result]
  <1>1. /\ DOMAIN l = Fields /\ l.pc = "done" /\ l.result = gate[g].result
        /\ "items" \in DOMAIN l.draft
    BY DEF Locals, Fields, EmptyLedger
  <1>2. Set(g, l)
    BY DEF Answer
  <1> HIDE DEF l
  <1>3. /\ DOMAIN gate' = Gates /\ \A h \in Gates : DOMAIN gate'[h] = Fields
        /\ gate'[g] = l /\ \A h \in Gates : h # g => gate'[h] = gate[h]
    BY <1>1, <1>2, SetShape
  <1> QED
    BY <1>1, <1>3 DEF Answer, Shaped

\* Nobody who is a gate is None.
LEMMA GateNotNone == None \notin Gates /\ None \notin VALID_RESULTS
  BY GateAssumption
-----------------------------------------------------------------------------
(* What a step keeps of the gates whose turn it is not *)

\* The journal has its records still, and perhaps one more.
Grows ==
  \/ journal' = journal
  \/ \E e : journal' = Append(journal, e)

\* For a gate h: its locals and its lock stay, nobody writes to the journal or the handoff while it
\* holds the lock, and if nobody is taken to have written, nobody has.
Spares(h) ==
  /\ gate'[h] = gate[h] /\ told'[h] = told[h]
  /\ lock = h => lock' = h /\ UNCHANGED <<journal, handoff>>
  /\ quiet' = h => quiet = h /\ UNCHANGED <<cur, journal, workspace>>

LEMMA GrowsJournal ==
  ASSUME IsJournal, Grows
  PROVE  /\ IsJournal' /\ Len(journal) <= Len(journal')
         /\ Len(journal) \in Nat /\ Len(journal') \in Nat
         /\ \A i \in 1..Len(journal) : journal'[i] = journal[i]
  <1>1. CASE journal' = journal
    BY <1>1, JournalLength DEF IsJournal
  <1>2. ASSUME NEW e, journal' = Append(journal, e)
        PROVE  /\ IsJournal' /\ Len(journal) <= Len(journal')
               /\ Len(journal) \in Nat /\ Len(journal') \in Nat
               /\ \A i \in 1..Len(journal) : journal'[i] = journal[i]
    <2>1. \E S : journal \in Seq(S)
      BY DEF IsJournal
    <2>2. /\ Len(journal) \in Nat /\ Len(journal') = Len(journal) + 1
          /\ \A i \in 1..Len(journal) : journal'[i] = journal[i]
      BY <1>2, <2>1, AppendJournal
    <2>3. \E S : Append(journal, e) \in Seq(S)
      BY <2>1, AppendJournal
    <2>4. IsJournal'
      BY <1>2, <2>3 DEF IsJournal
    <2> QED
      BY <2>2, <2>4
  <1> QED
    BY <1>1, <1>2 DEF Grows

LEMMA SinceStays ==
  ASSUME IsJournal, Grows, NEW h \in Gates, Since(h), gate'[h] = gate[h]
  PROVE  Since(h)'
  <1> SUFFICES ASSUME gate[h].pc \in Mid \cup Under
               PROVE  Since(h)'
    BY DEF Since
  <1>1. /\ Len(journal) \in Nat /\ Len(journal') \in Nat /\ Len(journal) <= Len(journal')
        /\ \A i \in 1..Len(journal) : journal'[i] = journal[i]
    BY GrowsJournal
  <1>2. gate[h].rev \in Nat /\ gate[h].rev <= Len(journal)
    BY DEF Since
  <1>3. PICK s \in 1..gate[h].rev : /\ journal[s].name = "started"
                                    /\ \A i \in s..gate[h].rev : journal[i].by = h
    BY DEF Since
  <1>4. /\ journal'[s].name = "started"
        /\ \A i \in s..gate[h].rev : journal'[i].by = h
    BY <1>1, <1>2, <1>3
  <1>5. gate[h].rev <= Len(journal')
    BY <1>1, <1>2
  <1> QED
    BY <1>2, <1>3, <1>4, <1>5 DEF Since

\* The properties of a gate that is spared stay.
LEMMA SparedKeeps ==
  ASSUME IsJournal, Grows, NEW h \in Gates, GateInv(h), Spares(h)
  PROVE  GateInv(h)'
  <1>1. gate'[h] = gate[h] /\ told'[h] = told[h]
    BY DEF Spares
  <1>2. Called(h)' /\ Since(h)' /\ Holds(h)'
    <2>1. Called(h)'
      BY <1>1 DEF GateInv, Called
    <2>2. Since(h)'
      BY <1>1, SinceStays DEF GateInv
    <2>3. Holds(h)'
      BY <1>1 DEF GateInv, Holds, Spares
    <2> QED
      BY <2>1, <2>2, <2>3
  <1>3. Handed(h)'
    <2> SUFFICES ASSUME gate[h].pc \in {"consistent", "append"}
                 PROVE  Handed(h)'
      BY <1>1 DEF Handed
    <2>1. UNCHANGED <<journal, handoff>>
      BY DEF GateInv, Holds, Under, Spares
    <2> QED
      BY <1>1, <2>1 DEF GateInv, Handed, Projected
  <1>4. quiet' = h => quiet = h /\ UNCHANGED <<cur, journal, workspace>>
    BY DEF Spares
  <1>5. Undisturbed(h)'
    BY <1>1, <1>4 DEF GateInv, Undisturbed, SummarySays, Projected, HandoffCurrent, CompletionHolds,
                      CompletionHoldsOf, Document, DocumentOf, workspace
  <1>6. Stands(h)'
    BY <1>1, <1>4 DEF GateInv, Stands, RerunAccepts, HandoffCurrent, CompletionHolds,
                      CompletionHoldsOf, Document, DocumentOf, Finalized, workspace
  <1> QED
    BY <1>2, <1>3, <1>5, <1>6 DEF GateInv

\* A journal that is longer by a record that is not a terminal one.
LEMMA PassStays ==
  ASSUME IsJournal, PassUninterrupted,
         journal' = journal \/ \E e : e.name # "succeeded" /\ journal' = Append(journal, e)
  PROVE  PassUninterrupted'
  <1>1. CASE journal' = journal
    BY <1>1 DEF PassUninterrupted, Terminals
  <1>2. ASSUME NEW e, e.name # "succeeded", journal' = Append(journal, e)
        PROVE  PassUninterrupted'
    <2>1. /\ Len(journal) \in Nat /\ DOMAIN journal = 1..Len(journal)
          /\ DOMAIN journal' = 1..(Len(journal) + 1)
          /\ \A i \in 1..Len(journal) : journal'[i] = journal[i]
          /\ journal'[Len(journal) + 1] = e
      BY <1>2, AppendJournal DEF IsJournal
    <2> SUFFICES ASSUME NEW t \in Terminals'
                 PROVE  \E s \in 1..t : /\ journal'[s].name = "started"
                                        /\ \A i \in s..t : journal'[i].by = journal'[t].by
      BY DEF PassUninterrupted
    <2>2. t \in 1..Len(journal) /\ t \in Terminals
      <3>1. t \in 1..(Len(journal) + 1) /\ journal'[t].name = "succeeded"
        BY <2>1 DEF Terminals
      <3>2. t # Len(journal) + 1
        BY <1>2, <2>1, <3>1
      <3>3. t \in 1..Len(journal)
        BY <2>1, <3>1, <3>2
      <3> QED
        BY <2>1, <3>1, <3>3 DEF Terminals
    <2>3. PICK s \in 1..t : /\ journal[s].name = "started"
                            /\ \A i \in s..t : journal[i].by = journal[t].by
      BY <2>2 DEF PassUninterrupted
    <2>4. journal'[s].name = "started" /\ \A i \in s..t : journal'[i].by = journal'[t].by
      BY <2>1, <2>2, <2>3
    <2> QED
      BY <2>4
  <1> QED
    BY <1>1, <1>2

\* A step of a gate: what there is to show is about the gate itself.
LEMMA StepOf ==
  ASSUME IInv, NEW g \in Gates, Shaped', Grows, PassUninterrupted',
         \A h \in Gates : h # g => Spares(h), GateInv(g)'
  PROVE  IInv'
  <1>1. IsJournal'
    BY GrowsJournal DEF IInv
  <1>2. \A h \in Gates : h # g => GateInv(h)'
    BY SparedKeeps DEF IInv
  <1> QED
    BY <1>1, <1>2 DEF IInv

\* A call ends: nothing is said of it, but that it stands if it has passed.
LEMMA AnswerKeeps ==
  ASSUME IInv, NEW g \in Gates, NEW answer, Answer(g, answer), gate[g].pc # "idle",
         UNCHANGED <<cur, journal, ledger>>,
         answer = "passed" /\ quiet' = g => RerunAccepts(gate[g].result)',
         handoff' = handoff \/ \A h \in Gates : h # g => lock # h,
         \A h \in Gates : h # g /\ quiet' = h => quiet = h /\ UNCHANGED workspace
  PROVE  IInv'
  <1>1. /\ Shaped' /\ gate'[g].pc = "done" /\ gate'[g].result = gate[g].result
        /\ told'[g] = answer /\ lock' = IF lock = g THEN None ELSE lock
        /\ \A h \in Gates : h # g => gate'[h] = gate[h] /\ told'[h] = told[h]
    BY AnswerShape DEF IInv
  <1>2. \A h \in Gates : h # g => Spares(h)
    BY <1>1 DEF Spares
  <1>3. GateInv(g)'
    <2>1. Called(g)'
      BY <1>1 DEF IInv, GateInv, Called
    <2>2. Since(g)' /\ Holds(g)' /\ Handed(g)'
      BY <1>1 DEF Since, Holds, Handed, Mid, Under
    <2>3. Undisturbed(g)'
      BY <1>1 DEF Undisturbed, Under, Over
    <2>4. Stands(g)'
      BY <1>1 DEF Stands
    <2> QED
      BY <2>1, <2>2, <2>3, <2>4 DEF GateInv
  <1>4. Grows /\ PassUninterrupted'
    BY PassStays DEF Grows, IInv
  <1> QED
    BY <1>1, <1>2, <1>3, <1>4, StepOf

LEMMA FailKeeps ==
  ASSUME IInv, NEW g \in Gates, gate[g].pc # "idle", Fail(g)
  PROVE  IInv'
  BY AnswerKeeps DEF Fail, workspace
-----------------------------------------------------------------------------
(* The gate: steps that are not yet, or no more, about its own record *)

\* A step that is none of a gate's: every gate is spared.
LEMMA AllSpared ==
  ASSUME IInv, Shaped', Grows, PassUninterrupted', \A h \in Gates : Spares(h)
  PROVE  IInv'
  <1>1. IsJournal'
    BY GrowsJournal DEF IInv
  <1>2. \A h \in Gates : GateInv(h)'
    BY SparedKeeps DEF IInv
  <1> QED
    BY <1>1, <1>2 DEF IInv

\* Steps before SUMMARY.md is there, or of a gate that gives up: the journal stays.
LEMMA PlainKeeps ==
  ASSUME IInv, NEW g \in Gates, NEW l, DOMAIN l = Fields, "items" \in DOMAIN l.draft,
         Set(g, l), UNCHANGED <<cur, journal, lock, told>>,
         gate[g].pc \notin {"terminal"} \cup Under \cup Over,
         l.result \in VALID_RESULTS, l.pc \notin Under,
         l.pc \in Mid => gate[g].pc \in Mid /\ l.rev = gate[g].rev,
         "items" \in DOMAIN ledger',
         handoff' = handoff \/ lock = None,
         (quiet' = quiet /\ UNCHANGED workspace) \/ Wrote(g)
  PROVE  IInv'
  <1>1. /\ DOMAIN gate' = Gates /\ \A h \in Gates : DOMAIN gate'[h] = Fields
        /\ gate'[g] = l /\ \A h \in Gates : h # g => gate'[h] = gate[h]
    BY SetShape DEF IInv
  <1>2. Shaped'
    BY <1>1 DEF Shaped, IInv
  <1>3. quiet # g
    BY DEF IInv, GateInv, Undisturbed
  <1>4. quiet' # g
    BY <1>3, GateNotNone DEF Wrote
  <1>5. \A h \in Gates : h # g => Spares(h)
    BY <1>1, <1>3, GateNotNone DEF Spares, Wrote
  <1>6. GateInv(g)'
    <2>1. Called(g)'
      BY <1>1 DEF Called
    <2>2. Since(g)'
      BY <1>1 DEF IInv, GateInv, Since
    <2>3. Holds(g)' /\ Handed(g)'
      BY <1>1 DEF Holds, Handed, Under
    <2>4. Undisturbed(g)'
      BY <1>4 DEF Undisturbed
    <2>5. Stands(g)'
      BY <1>1 DEF Stands, IInv, GateInv, Over
    <2> QED
      BY <2>1, <2>2, <2>3, <2>4, <2>5 DEF GateInv
  <1>7. Grows /\ PassUninterrupted'
    BY PassStays DEF Grows, IInv
  <1> QED
    BY <1>2, <1>5, <1>6, <1>7, StepOf

\* A record of the gate that is not its terminal one.  Its first begins the stretch of records
\* that are its own, and the revision it passes with the others lets no other record in between.
LEMMA RecordKeeps ==
  ASSUME IInv, NEW g \in Gates, NEW e, NEW name, NEW l, DOMAIN l = Fields,
         "items" \in DOMAIN l.draft, Record(g, e, name, l),
         gate[g].pc \notin {"idle", "terminal"} \cup Under \cup Over,
         l.result \in VALID_RESULTS, l.pc \notin {"terminal"} \cup Under,
         l.pc \in Mid => gate[g].pc \in Mid \/ name = "started",
         name # "succeeded"
  PROVE  IInv'
  <1>1. CASE ~Accepted(g, e) /\ Fail(g)
    BY <1>1, FailKeeps
  <1>2. CASE /\ Accepted(g, e)
             /\ journal' = Append(journal, RecordOf(g, name))
             /\ cur' = Target(e)
             /\ Set(g, [l EXCEPT !.rev = Len(journal')])
             /\ Wrote(g)
             /\ UNCHANGED <<workspace, lock, told, edits, kills>>
    <2> DEFINE n == [l EXCEPT !.rev = Len(journal')]
               r == RecordOf(g, name)
    <2>1. /\ DOMAIN n = Fields /\ "items" \in DOMAIN n.draft /\ n.rev = Len(journal')
          /\ n.pc = l.pc /\ n.result = l.result
      BY DEF Fields
    <2>2. r.name = name /\ r.by = g
      BY DEF RecordOf
    <2>3. lock = None /\ gate[g].rev = Len(journal) /\ journal' = Append(journal, r) /\ Set(g, n)
      BY <1>2 DEF Accepted
    <2> HIDE DEF n, r
    <2>4. /\ DOMAIN gate' = Gates /\ \A h \in Gates : DOMAIN gate'[h] = Fields
          /\ gate'[g] = n /\ \A h \in Gates : h # g => gate'[h] = gate[h]
      BY <2>1, <2>3, SetShape DEF IInv
    <2>5. Shaped' /\ UNCHANGED <<handoff, told, lock>>
      BY <1>2, <2>1, <2>4 DEF Shaped, IInv, workspace
    <2>6. quiet # g
      BY DEF IInv, GateInv, Undisturbed
    <2>7. \A h \in Gates : quiet' # h
      BY <1>2, <2>6, GateNotNone DEF Wrote
    <2>8. \A h \in Gates : h # g => Spares(h)
      BY <2>3, <2>4, <2>5, <2>7, GateNotNone DEF Spares
    <2>9. /\ Len(journal) \in Nat /\ Len(journal') = Len(journal) + 1
          /\ \A i \in 1..Len(journal) : journal'[i] = journal[i]
          /\ journal'[Len(journal) + 1] = r
      BY <2>3, AppendJournal DEF IInv, IsJournal
    <2>10. Since(g)'
      <3> SUFFICES ASSUME l.pc \in Mid \cup Under
                   PROVE  Since(g)'
        BY <2>1, <2>4 DEF Since
      <3>1. CASE name = "started"
        <4>1. /\ Len(journal') \in 1..Len(journal') /\ journal'[Len(journal')].name = "started"
              /\ \A i \in Len(journal')..Len(journal') : journal'[i].by = g
          BY <2>2, <2>9, <3>1
        <4> QED
          BY <2>1, <2>4, <2>9, <4>1 DEF Since
      <3>2. CASE gate[g].pc \in Mid
        <4>1. PICK s \in 1..Len(journal) : /\ journal[s].name = "started"
                                           /\ \A i \in s..Len(journal) : journal[i].by = g
          BY <2>3, <3>2 DEF IInv, GateInv, Since
        <4>2. /\ s \in 1..Len(journal') /\ journal'[s].name = "started"
              /\ \A i \in s..Len(journal') : journal'[i].by = g
          BY <2>2, <2>9, <4>1
        <4> QED
          BY <2>1, <2>4, <2>9, <4>2 DEF Since
      <3> QED
        BY <3>1, <3>2 DEF Under
    <2>11. GateInv(g)'
      <3>1. Called(g)'
        BY <2>1, <2>4 DEF Called
      <3>2. Holds(g)' /\ Handed(g)'
        BY <2>1, <2>4 DEF Holds, Handed, Under
      <3>3. Undisturbed(g)'
        BY <2>7 DEF Undisturbed
      <3>4. Stands(g)'
        BY <2>5 DEF Stands, IInv, GateInv, Over
      <3> QED
        BY <2>10, <3>1, <3>2, <3>3, <3>4 DEF GateInv
    <2>12. Grows /\ PassUninterrupted'
      BY <2>2, <2>3, PassStays DEF Grows, IInv
    <2> QED
      BY <2>5, <2>8, <2>11, <2>12, StepOf
  <1> QED
    BY <1>1, <1>2 DEF Record
-----------------------------------------------------------------------------
(* The actions of a gate before its writer takes the lock *)

LEMMA CallKeeps ==
  ASSUME IInv, NEW g \in Gates, NEW result \in VALID_RESULTS, Call(g, result)
  PROVE  IInv'
  <1> DEFINE l == [Locals EXCEPT !.pc = IF cur.status = "completed" THEN "rerun" ELSE "start",
                                 !.result = result, !.rev = Len(journal)]
  <1>1. /\ DOMAIN l = Fields /\ "items" \in DOMAIN l.draft /\ l.result = result
        /\ l.pc \in {"rerun", "start"}
    BY DEF Locals, Fields, EmptyLedger
  <1>2. Set(g, l) /\ gate[g].pc = "idle"
    BY DEF Call, At
  <1>3. UNCHANGED <<cur, journal, lock, told, quiet>> /\ UNCHANGED workspace
    BY DEF Call
  <1> HIDE DEF l
  <1>4. gate[g].pc \notin {"terminal"} \cup Under \cup Over
    BY <1>2 DEF Under, Over
  <1>5. l.pc \notin Under /\ l.pc \notin Mid
    BY <1>1 DEF Under, Mid
  <1>6. "items" \in DOMAIN ledger' /\ handoff' = handoff
    BY <1>3 DEF IInv, Shaped, workspace
  <1> QED
    BY <1>1, <1>2, <1>3, <1>4, <1>5, <1>6, PlainKeeps

\* The locals of a gate at a step have a result.
LEMMA CalledHas ==
  ASSUME IInv, NEW g \in Gates, gate[g].pc # "idle"
  PROVE  /\ gate[g].result \in VALID_RESULTS /\ DOMAIN gate[g] = Fields
         /\ "items" \in DOMAIN gate[g].draft /\ "items" \in DOMAIN ledger
  BY DEF IInv, GateInv, Called, Shaped

LEMMA StartKeeps ==
  ASSUME IInv, NEW g \in Gates, Start(g)
  PROVE  IInv'
  <1> DEFINE kind == IF cur.stage = "finalization" /\ cur.status = "running"
                     THEN "observe" ELSE "advance"
             e == Event(kind, "finalization", "running", None)
             l == [gate[g] EXCEPT !.pc = "inspect"]
  <1>1. gate[g].pc = "start" /\ Record(g, e, "started", l)
    BY DEF Start, At
  <1>2. /\ DOMAIN l = Fields /\ "items" \in DOMAIN l.draft /\ l.result \in VALID_RESULTS
        /\ l.pc = "inspect"
    BY <1>1, CalledHas DEF Fields
  <1> HIDE DEF e, l
  <1>3. gate[g].pc \notin {"idle", "terminal"} \cup Under \cup Over
    BY <1>1 DEF Under, Over
  <1>4. l.pc \notin {"terminal"} \cup Under
    BY <1>2 DEF Under
  <1> QED
    BY <1>1, <1>2, <1>3, <1>4, RecordKeeps

LEMMA InspectKeeps ==
  ASSUME IInv, NEW g \in Gates, Inspect(g)
  PROVE  IInv'
  <1> DEFINE l == [gate[g] EXCEPT !.pc = "result", !.seen = Inspection(facts)]
  <1>1. gate[g].pc = "inspect" /\ Record(g, Observed, "observed", l)
    BY DEF Inspect, At
  <1>2. /\ DOMAIN l = Fields /\ "items" \in DOMAIN l.draft /\ l.result \in VALID_RESULTS
        /\ l.pc = "result"
    BY <1>1, CalledHas DEF Fields
  <1> HIDE DEF l
  <1>3. gate[g].pc \notin {"idle", "terminal"} \cup Under \cup Over /\ gate[g].pc \in Mid
    BY <1>1 DEF Under, Over, Mid
  <1>4. l.pc \notin {"terminal"} \cup Under
    BY <1>2 DEF Under
  <1> QED
    BY <1>1, <1>2, <1>3, <1>4, RecordKeeps

LEMMA CheckConfirmedKeeps ==
  ASSUME IInv, NEW g \in Gates, CheckConfirmed(g)
  PROVE  IInv'
  <1> DEFINE see == gate[g].seen
             whole == see.validated # {} /\ see.unfinished = {}
             l == [gate[g] EXCEPT !.pc = "synthesize",
                                  !.bad = ~(whole /\ Supported(Confirmed, see))]
  <1>1. gate[g].pc = "result"
    BY DEF CheckConfirmed, At
  <1>2. \/ Record(g, Observed, "observed", l)
        \/ /\ Set(g, l)
           /\ UNCHANGED <<cur, journal, workspace, lock, told, edits, kills, quiet>>
    BY DEF CheckConfirmed
  <1>3. /\ DOMAIN l = Fields /\ "items" \in DOMAIN l.draft /\ l.result \in VALID_RESULTS
        /\ l.pc = "synthesize" /\ l.rev = gate[g].rev
    BY <1>1, CalledHas DEF Fields
  <1> HIDE DEF l
  <1>4. gate[g].pc \notin {"idle", "terminal"} \cup Under \cup Over /\ gate[g].pc \in Mid
    BY <1>1 DEF Under, Over, Mid
  <1>5. l.pc \notin {"terminal"} \cup Under
    BY <1>3 DEF Under
  <1>6. CASE Record(g, Observed, "observed", l)
    BY <1>3, <1>4, <1>5, <1>6, RecordKeeps
  <1>7. CASE /\ Set(g, l)
             /\ UNCHANGED <<cur, journal, workspace, lock, told, edits, kills, quiet>>
    <2>1. "items" \in DOMAIN ledger' /\ handoff' = handoff
      BY <1>7 DEF IInv, Shaped, workspace
    <2> QED
      BY <1>3, <1>4, <1>5, <1>7, <2>1, PlainKeeps
  <1> QED
    BY <1>2, <1>6, <1>7

LEMMA CheckNoConfirmedKeeps ==
  ASSUME IInv, NEW g \in Gates, CheckNoConfirmed(g)
  PROVE  IInv'
  <1> DEFINE see == gate[g].seen
             blocked == "blocked" \in facts.flaws
             l == [gate[g] EXCEPT !.pc = "synthesize", !.halted = blocked,
                                  !.bad = see.validated \union see.unfinished # {} \/ blocked]
  <1>1. gate[g].pc = "result" /\ Set(g, l)
    BY DEF CheckNoConfirmed, At
  <1>2. UNCHANGED <<cur, journal, workspace, lock, told, edits, kills, quiet>>
    BY DEF CheckNoConfirmed
  <1>3. /\ DOMAIN l = Fields /\ "items" \in DOMAIN l.draft /\ l.result \in VALID_RESULTS
        /\ l.pc = "synthesize" /\ l.rev = gate[g].rev
    BY <1>1, CalledHas DEF Fields
  <1> HIDE DEF l
  <1>4. gate[g].pc \notin {"terminal"} \cup Under \cup Over /\ gate[g].pc \in Mid
    BY <1>1 DEF Under, Over, Mid
  <1>5. l.pc \notin Under /\ "items" \in DOMAIN ledger' /\ handoff' = handoff
    BY <1>2, <1>3 DEF Under, IInv, Shaped, workspace
  <1> QED
    BY <1>1, <1>2, <1>3, <1>4, <1>5, PlainKeeps

LEMMA SynthesizeKeeps ==
  ASSUME IInv, NEW g \in Gates, Synthesize(g)
  PROVE  IInv'
  <1> DEFINE blocked == IF gate[g].result = NoConfirmed THEN gate[g].halted
                        ELSE "blocked" \in facts.flaws
             draft == [items |-> Dirs(facts), records |-> ledger.records,
                       open |-> IF blocked THEN {"blocked"} ELSE {}]
             l == [gate[g] EXCEPT !.pc = "publish", !.halted = blocked, !.draft = draft]
  <1>1. gate[g].pc = "synthesize" /\ Set(g, l)
    BY DEF Synthesize, At
  <1>2. UNCHANGED <<cur, journal, workspace, lock, told, edits, kills, quiet>>
    BY DEF Synthesize
  <1>3. "items" \in DOMAIN draft
    OBVIOUS
  <1> HIDE DEF draft, blocked
  <1>4. /\ DOMAIN l = Fields /\ "items" \in DOMAIN l.draft /\ l.result \in VALID_RESULTS
        /\ l.pc = "publish" /\ l.rev = gate[g].rev
    BY <1>1, <1>3, CalledHas DEF Fields
  <1> HIDE DEF l
  <1>5. gate[g].pc \notin {"terminal"} \cup Under \cup Over /\ gate[g].pc \in Mid
    BY <1>1 DEF Under, Over, Mid
  <1>6. l.pc \notin Under /\ "items" \in DOMAIN ledger' /\ handoff' = handoff
    BY <1>2, <1>4 DEF Under, IInv, Shaped, workspace
  <1> QED
    BY <1>1, <1>2, <1>4, <1>5, <1>6, PlainKeeps

LEMMA PublishLedgerKeeps ==
  ASSUME IInv, NEW g \in Gates, PublishLedger(g)
  PROVE  IInv'
  <1> DEFINE valid == ChainValid(gate[g].result, gate[g].seen.validated, facts, gate[g].draft)
             l == [gate[g] EXCEPT !.pc = "reload", !.bad = @ \/ ~valid, !.draft = EmptyLedger]
  <1>1. gate[g].pc = "publish" /\ Set(g, l) /\ ledger' = IF valid THEN gate[g].draft ELSE ledger
    BY DEF PublishLedger, At
  <1>2. Wrote(g) /\ UNCHANGED <<cur, journal, handoff, lock, told>>
    BY DEF PublishLedger
  <1> HIDE DEF valid
  <1>3. "items" \in DOMAIN EmptyLedger
    BY DEF EmptyLedger
  <1>4. /\ DOMAIN l = Fields /\ "items" \in DOMAIN l.draft /\ l.result \in VALID_RESULTS
        /\ l.pc = "reload" /\ l.rev = gate[g].rev
    BY <1>1, <1>3, CalledHas DEF Fields
  <1> HIDE DEF l
  <1>5. gate[g].pc \notin {"terminal"} \cup Under \cup Over /\ gate[g].pc \in Mid
    BY <1>1 DEF Under, Over, Mid
  <1>6. l.pc \notin Under /\ "items" \in DOMAIN ledger'
    BY <1>1, <1>4, CalledHas DEF Under
  <1> QED
    BY <1>1, <1>2, <1>4, <1>5, <1>6, PlainKeeps

LEMMA CheckLedgerKeeps ==
  ASSUME IInv, NEW g \in Gates, CheckLedger(g)
  PROVE  IInv'
  <1> DEFINE valid == ChainValid(gate[g].result, gate[g].seen.validated, facts, ledger)
             l == [gate[g] EXCEPT !.pc = "docker", !.bad = @ \/ ~valid]
  <1>1. gate[g].pc = "reload" /\ Record(g, Observed, "observed", l)
    BY DEF CheckLedger, At
  <1> HIDE DEF valid
  <1>2. /\ DOMAIN l = Fields /\ "items" \in DOMAIN l.draft /\ l.result \in VALID_RESULTS
        /\ l.pc = "docker"
    BY <1>1, CalledHas DEF Fields
  <1> HIDE DEF l
  <1>3. gate[g].pc \notin {"idle", "terminal"} \cup Under \cup Over /\ gate[g].pc \in Mid
    BY <1>1 DEF Under, Over, Mid
  <1>4. l.pc \notin {"terminal"} \cup Under
    BY <1>2 DEF Under
  <1> QED
    BY <1>1, <1>2, <1>3, <1>4, RecordKeeps

LEMMA CheckDockerKeeps ==
  ASSUME IInv, NEW g \in Gates, NEW clean \in BOOLEAN, CheckDocker(g, clean)
  PROVE  IInv'
  <1> DEFINE l == [gate[g] EXCEPT !.pc = "evidence"]
  <1>1. gate[g].pc = "docker" /\ Set(g, l)
    BY DEF CheckDocker, At, Goto
  <1>2. Wrote(g) /\ UNCHANGED <<cur, journal, ledger, handoff, lock, told>>
    BY DEF CheckDocker
  <1>3. /\ DOMAIN l = Fields /\ "items" \in DOMAIN l.draft /\ l.result \in VALID_RESULTS
        /\ l.pc = "evidence" /\ l.rev = gate[g].rev
    BY <1>1, CalledHas DEF Fields
  <1> HIDE DEF l
  <1>4. gate[g].pc \notin {"terminal"} \cup Under \cup Over /\ gate[g].pc \in Mid
    BY <1>1 DEF Under, Over, Mid
  <1>5. l.pc \notin Under /\ "items" \in DOMAIN ledger'
    BY <1>1, <1>2, <1>3, CalledHas DEF Under
  <1> QED
    BY <1>1, <1>2, <1>3, <1>4, <1>5, PlainKeeps

LEMMA ReadDockerKeeps ==
  ASSUME IInv, NEW g \in Gates, ReadDocker(g)
  PROVE  IInv'
  <1> DEFINE bad == gate[g].bad \/ ~docker.clean
             to == CASE ~bad -> "summary"
                     [] bad /\ gate[g].halted -> "return"
                     [] OTHER -> "fail"
             l == [gate[g] EXCEPT !.evidence = docker, !.bad = bad, !.pc = to]
  <1>1. gate[g].pc = "evidence" /\ Set(g, l)
    BY DEF ReadDocker, At
  <1>2. UNCHANGED <<cur, journal, workspace, lock, told, edits, kills, quiet>>
    BY DEF ReadDocker
  <1>3. to \in {"summary", "return", "fail"}
    OBVIOUS
  <1> HIDE DEF to, bad
  <1>4. /\ DOMAIN l = Fields /\ "items" \in DOMAIN l.draft /\ l.result \in VALID_RESULTS
        /\ l.pc = to /\ l.rev = gate[g].rev
    BY <1>1, CalledHas DEF Fields
  <1> HIDE DEF l
  <1>5. gate[g].pc \notin {"terminal"} \cup Under \cup Over /\ gate[g].pc \in Mid
    BY <1>1 DEF Under, Over, Mid
  <1>6. l.pc \notin Under /\ "items" \in DOMAIN ledger' /\ handoff' = handoff
    BY <1>2, <1>3, <1>4 DEF Under, IInv, Shaped, workspace
  <1> QED
    BY <1>1, <1>2, <1>4, <1>5, <1>6, PlainKeeps

\* A gate with errors: its records lead out of the stretch.
LEMMA ReturnKeeps ==
  ASSUME IInv, NEW g \in Gates,
         ReturnToVerification(g) \/ BlockVerification(g) \/ RecordFailure(g)
  PROVE  IInv'
  <1>1. PICK to \in {"block", "reread"}, name \in {"returned", "failed"} :
          \E e : Record(g, e, name, [gate[g] EXCEPT !.pc = to])
    BY DEF ReturnToVerification, BlockVerification, RecordFailure
  <1>2. gate[g].pc \in {"return", "block", "fail"}
    BY DEF ReturnToVerification, BlockVerification, RecordFailure, At
  <1> DEFINE l == [gate[g] EXCEPT !.pc = to]
  <1>3. PICK e : Record(g, e, name, l)
    BY <1>1
  <1>4. /\ DOMAIN l = Fields /\ "items" \in DOMAIN l.draft /\ l.result \in VALID_RESULTS
        /\ l.pc = to
    BY <1>2, CalledHas DEF Fields
  <1> HIDE DEF l
  <1>5. gate[g].pc \notin {"idle", "terminal"} \cup Under \cup Over
    BY <1>2 DEF Under, Over
  <1>6. l.pc \notin {"terminal"} \cup Under /\ l.pc \notin Mid /\ name # "succeeded"
    BY <1>4 DEF Under, Mid
  <1> QED
    BY <1>3, <1>4, <1>5, <1>6, RecordKeeps

LEMMA ReadEventsKeeps ==
  ASSUME IInv, NEW g \in Gates, ReadEvents(g)
  PROVE  IInv'
  <1> DEFINE l == [gate[g] EXCEPT !.pc = "refresh", !.basis = journal]
  <1>1. gate[g].pc = "reread" /\ Set(g, l)
    BY DEF ReadEvents, At
  <1>2. UNCHANGED <<cur, journal, workspace, lock, told, edits, kills, quiet>>
    BY DEF ReadEvents
  <1>3. /\ DOMAIN l = Fields /\ "items" \in DOMAIN l.draft /\ l.result \in VALID_RESULTS
        /\ l.pc = "refresh"
    BY <1>1, CalledHas DEF Fields
  <1> HIDE DEF l
  <1>4. gate[g].pc \notin {"terminal"} \cup Under \cup Over
    BY <1>1 DEF Under, Over
  <1>5. /\ l.pc \notin Under /\ l.pc \notin Mid
        /\ "items" \in DOMAIN ledger' /\ handoff' = handoff
    BY <1>2, <1>3 DEF Under, Mid, IInv, Shaped, workspace
  <1> QED
    BY <1>1, <1>2, <1>3, <1>4, <1>5, PlainKeeps

\* The handoff of a gate that fails is generated while nobody holds the lock.
LEMMA RefreshKeeps ==
  ASSUME IInv, NEW g \in Gates, RefreshHandoff(g)
  PROVE  IInv'
  <1>1. gate[g].pc = "refresh"
    BY DEF RefreshHandoff, At
  <1>2. CASE lock # None /\ Fail(g)
    BY <1>1, <1>2, FailKeeps
  <1>3. ASSUME lock = None, Wrote(g), UNCHANGED <<cur, journal, ledger, lock, told>>,
               Set(g, [gate[g] EXCEPT !.pc = "render",
                                      !.basis = Rendered(gate[g].basis, handoff')])
        PROVE  IInv'
    <2> DEFINE l == [gate[g] EXCEPT !.pc = "render",
                                    !.basis = Rendered(gate[g].basis, handoff')]
    <2>1. /\ DOMAIN l = Fields /\ "items" \in DOMAIN l.draft /\ l.result \in VALID_RESULTS
          /\ l.pc = "render"
      BY <1>1, CalledHas DEF Fields
    <2>2. Set(g, l)
      BY <1>3
    <2> HIDE DEF l
    <2>3. gate[g].pc \notin {"terminal"} \cup Under \cup Over
      BY <1>1 DEF Under, Over
    <2>4. l.pc \notin Under /\ l.pc \notin Mid /\ "items" \in DOMAIN ledger'
      BY <1>1, <1>3, <2>1, CalledHas DEF Under, Mid
    <2> QED
      BY <1>3, <2>1, <2>2, <2>3, <2>4, PlainKeeps
  <1> QED
    BY <1>2, <1>3 DEF RefreshHandoff

LEMMA RenderKeeps ==
  ASSUME IInv, NEW g \in Gates, RenderText(g)
  PROVE  IInv'
  <1>1. gate[g].pc = "render" /\ Answer(g, "failed") /\ Wrote(g)
    BY DEF RenderText, At
  <1>2. UNCHANGED <<cur, journal, ledger, handoff>>
    BY DEF RenderText
  <1>3. quiet # g
    BY <1>1 DEF IInv, GateInv, Undisturbed, Under, Over
  <1>4. \A h \in Gates : h # g => quiet' # h
    BY <1>1, <1>3, GateNotNone DEF Wrote
  <1> QED
    BY <1>1, <1>2, <1>4, AnswerKeeps
-----------------------------------------------------------------------------
(* The actions of a gate from its SUMMARY.md on *)

LEMMA WriteSummaryKeeps ==
  ASSUME IInv, NEW g \in Gates, WriteSummary(g)
  PROVE  IInv'
  <1>1. gate[g].pc = "summary" /\ Goto(g, "terminal") /\ quiet' = g
    BY DEF WriteSummary, At
  <1>2. UNCHANGED <<cur, journal, ledger, handoff, text, lock, told>>
    BY DEF WriteSummary
  <1>3. /\ DOMAIN gate' = Gates /\ \A h \in Gates : DOMAIN gate'[h] = Fields
        /\ gate'[g].pc = "terminal" /\ gate'[g].result = gate[g].result
        /\ gate'[g].rev = gate[g].rev /\ gate'[g].seen = gate[g].seen
        /\ gate'[g].draft = gate[g].draft
        /\ \A h \in Gates : h # g => gate'[h] = gate[h]
    BY <1>1, GotoShape DEF IInv
  <1>4. Shaped'
    <2>1. \A h \in Gates : "items" \in DOMAIN gate'[h].draft
      BY <1>3 DEF IInv, Shaped
    <2> QED
      BY <1>2, <1>3, <2>1 DEF IInv, Shaped
  <1>5. \A h \in Gates : h # g => Spares(h)
    BY <1>1, <1>2, <1>3 DEF Spares
  <1>6. GateInv(g)'
    <2>1. Called(g)'
      BY <1>1, <1>3 DEF IInv, GateInv, Called
    <2>2. Since(g)'
      BY <1>1, <1>2, <1>3 DEF IInv, GateInv, Since, Mid
    <2>3. Holds(g)' /\ Handed(g)'
      BY <1>3 DEF Holds, Handed, Under
    <2>4. SummarySays(g, gate[g].seen.validated)'
      BY <1>3 DEF WriteSummary, SummarySays
    <2>5. Undisturbed(g)'
      BY <1>3, <2>4 DEF Undisturbed
    <2>6. Stands(g)'
      BY <1>1, <1>2 DEF IInv, GateInv, Stands
    <2> QED
      BY <2>1, <2>2, <2>3, <2>5, <2>6 DEF GateInv
  <1>7. Grows /\ PassUninterrupted'
    BY <1>2, PassStays DEF Grows, IInv
  <1> QED
    BY <1>4, <1>5, <1>6, <1>7, StepOf

\* Steps from one step of the terminal record to the next that write neither SUMMARY.md nor the
\* ledger nor a record.
LEMMA OnwardKeeps ==
  ASSUME IInv, NEW g \in Gates, NEW to \in Under \cup Over, to # "done", NEW basis,
         Set(g, [gate[g] EXCEPT !.pc = to, !.basis = basis]),
         gate[g].pc \in {"terminal"} \cup Under \cup Over, gate[g].pc # "done",
         UNCHANGED <<cur, journal, ledger, summary, told>>,
         to \in Under => gate[g].pc \in {"terminal"} \cup Under,
         \A h \in Gates : h # g => lock # h,
         \A h \in Gates : h # g /\ quiet' = h => quiet = h /\ UNCHANGED <<cur, journal, workspace>>,
         quiet' = g => quiet = g,
         Holds(g)', Handed(g)',
         Undisturbed(g) /\ quiet = g => Undisturbed(g)'
  PROVE  IInv'
  <1>1. /\ DOMAIN gate' = Gates /\ \A h \in Gates : DOMAIN gate'[h] = Fields
        /\ gate'[g].pc = to /\ gate'[g].result = gate[g].result
        /\ gate'[g].rev = gate[g].rev /\ gate'[g].seen = gate[g].seen
        /\ gate'[g].draft = gate[g].draft
        /\ \A h \in Gates : h # g => gate'[h] = gate[h]
    BY OnwardShape DEF IInv
  <1>2. Shaped'
    <2>1. \A h \in Gates : "items" \in DOMAIN gate'[h].draft
      BY <1>1 DEF IInv, Shaped
    <2> QED
      BY <1>1, <2>1 DEF IInv, Shaped
  <1>3. \A h \in Gates : h # g => Spares(h)
    BY <1>1 DEF Spares
  <1>4. GateInv(g)'
    <2>1. Called(g)'
      BY <1>1 DEF IInv, GateInv, Called, Under, Over
    <2>2. Since(g)'
      <3>1. to \notin Mid
        BY DEF Under, Over, Mid
      <3>2. gate[g].pc = "terminal" => gate[g].pc \in Mid
        BY DEF Mid
      <3> QED
        BY <1>1, <3>1, <3>2 DEF IInv, GateInv, Since
    <2>3. Undisturbed(g)'
      BY DEF IInv, GateInv, Undisturbed
    <2>4. Stands(g)'
      BY DEF IInv, GateInv, Stands
    <2> QED
      BY <2>1, <2>2, <2>3, <2>4 DEF GateInv
  <1>5. Grows /\ PassUninterrupted'
    BY PassStays DEF Grows, IInv
  <1> QED
    BY <1>2, <1>3, <1>4, <1>5, StepOf

LEMMA TakeLockKeeps ==
  ASSUME IInv, NEW g \in Gates, TakeLock(g)
  PROVE  IInv'
  <1>1. gate[g].pc = "terminal"
    BY DEF TakeLock, At
  <1>2. CASE Fail(g)
    BY <1>1, <1>2, FailKeeps
  <1>3. CASE /\ Accepted(g, Terminal) /\ lock' = g /\ Goto(g, "derive")
             /\ UNCHANGED <<cur, journal, workspace, told, edits, kills, quiet>>
    <2>1. lock = None /\ gate[g].rev = Len(journal)
      BY <1>3 DEF Accepted
    <2>2. /\ gate'[g].pc = "derive" /\ gate'[g].result = gate[g].result
          /\ gate'[g].rev = gate[g].rev /\ gate'[g].seen = gate[g].seen
      BY <1>3, GotoShape DEF IInv
    <2>3. UNCHANGED <<cur, journal, ledger, summary, told, quiet, workspace>>
      BY <1>3 DEF workspace
    <2>4. Holds(g)' /\ Handed(g)'
      BY <1>3, <2>1, <2>2 DEF Holds, Handed
    <2>5. Undisturbed(g) /\ quiet = g => Undisturbed(g)'
      BY <1>1, <2>2, <2>3 DEF Undisturbed, SummarySays, Under
    <2>6. \A h \in Gates : h # g => lock # h
      BY <2>1, GateNotNone
    <2>7. "derive" \in Under \cup Over /\ "derive" # "done"
      BY DEF Under
    <2>8. Set(g, [gate[g] EXCEPT !.pc = "derive", !.basis = gate[g].basis])
      BY <1>3, GotoOnward DEF IInv
    <2> QED
      BY <1>1, <1>3, <2>3, <2>4, <2>5, <2>6, <2>7, <2>8, OnwardKeeps
  <1> QED
    BY <1>2, <1>3 DEF TakeLock

LEMMA ReadBundlesKeeps ==
  ASSUME IInv, NEW g \in Gates, ReadBundles(g)
  PROVE  IInv'
  <1>1. /\ gate[g].pc = "derive"
        /\ Set(g, [gate[g] EXCEPT !.pc = "publish handoff", !.basis = facts.bundles])
        /\ UNCHANGED <<cur, journal, workspace, lock, told, quiet>>
    BY DEF ReadBundles, At
  <1>2. lock = g /\ gate[g].rev = Len(journal)
    BY <1>1 DEF IInv, GateInv, Holds, Under
  <1>3. /\ gate'[g].pc = "publish handoff" /\ gate'[g].result = gate[g].result
        /\ gate'[g].rev = gate[g].rev /\ gate'[g].seen = gate[g].seen
    BY <1>1, OnwardShape DEF IInv
  <1>4. UNCHANGED <<cur, journal, ledger, summary, told, quiet, workspace>>
    BY <1>1 DEF workspace
  <1>5. Holds(g)' /\ Handed(g)'
    BY <1>1, <1>2, <1>3 DEF Holds, Handed
  <1>6. Undisturbed(g) /\ quiet = g => Undisturbed(g)'
    BY <1>1, <1>3, <1>4 DEF Undisturbed, SummarySays, Under
  <1>7. \A h \in Gates : h # g => lock # h
    BY <1>2
  <1>8. /\ "publish handoff" \in Under \cup Over /\ "publish handoff" # "done"
        /\ gate[g].pc \in Under /\ gate[g].pc # "done"
    BY <1>1 DEF Under
  <1> QED
    BY <1>1, <1>4, <1>5, <1>6, <1>7, <1>8, OnwardKeeps

\* The chain behind a result: as many bundles as items and as records.
LEMMA ChainCounts ==
  ASSUME NEW result \in VALID_RESULTS, NEW V, NEW F, NEW L, ChainValid(result, V, F, L)
  PROVE  V = L.items /\ L.records = V
  <1>1. L.items = Dirs(F) /\ L.items \subseteq V /\ V \subseteq Dirs(F)
    BY DEF ChainValid, LedgerValid
  <1>2. V = L.items
    BY <1>1
  <1>3. L.records = V
    BY DEF ChainValid
  <1> QED
    BY <1>2, <1>3

LEMMA PublishHandoffKeeps ==
  ASSUME IInv, NEW g \in Gates, PublishHandoff(g)
  PROVE  IInv'
  <1>1. gate[g].pc = "publish handoff"
    BY DEF PublishHandoff, At
  <1>2. CASE Fail(g)
    BY <1>1, <1>2, FailKeeps
  <1>3. CASE /\ DerivedValid(g)
             /\ handoff' = DocumentOf(Projected(g), AsRead(g))
             /\ text' = Rendered(Projected(g), handoff')
             /\ Set(g, [gate[g] EXCEPT !.pc = "consistent", !.basis = None])
             /\ Wrote(g)
             /\ UNCHANGED <<cur, journal, facts, ledger, docker, summary, lock,
                            told, edits, kills>>
    <2>1. lock = g /\ gate[g].rev = Len(journal)
      BY <1>1 DEF IInv, GateInv, Holds, Under
    <2>2. /\ gate'[g].pc = "consistent" /\ gate'[g].result = gate[g].result
          /\ gate'[g].rev = gate[g].rev /\ gate'[g].seen = gate[g].seen
          /\ gate'[g].evidence = gate[g].evidence
      BY <1>3, OnwardShape DEF IInv
    <2>3. Projected(g)' = Projected(g)
      BY <1>3, <2>2 DEF Projected, RecordOf
    <2>4. /\ handoff'.journal = Projected(g) /\ handoff'.facts = AsRead(g)
          /\ handoff'.ledger = ledger
      BY <1>3 DEF DocumentOf
    <2>5. gate[g].result \in VALID_RESULTS
      BY <1>1, CalledHas
    <2>6. ChainValid(gate[g].result, Validated(AsRead(g)), facts, ledger)
      BY <1>3, <2>5, GateNotNone DEF DerivedValid, CompletionHoldsOf
    <2>7. ledger.items = Validated(AsRead(g)) /\ ledger.records = Validated(AsRead(g))
      BY <2>5, <2>6, ChainCounts
    <2>8. Validated(handoff.facts)' = Validated(AsRead(g))
      BY <2>4 DEF Validated
    <2>9. Handed(g)'
      BY <2>3, <2>4, <2>7, <2>8 DEF Handed
    <2>10. Holds(g)'
      BY <1>3, <2>1, <2>2 DEF Holds
    <2>11. Undisturbed(g) /\ quiet = g => Undisturbed(g)'
      <3> SUFFICES ASSUME Undisturbed(g), quiet = g
                   PROVE  Undisturbed(g)'
        OBVIOUS
      <3>1. SummarySays(g, gate[g].seen.validated)
        BY <1>1 DEF Undisturbed, Under
      <3>2. SummarySays(g, gate[g].seen.validated)'
        BY <1>3, <2>2, <3>1 DEF SummarySays
      <3>3. text' = Rendered(Projected(g), handoff)'
        BY <1>3, <2>3 DEF Rendered
      <3> QED
        BY <1>3, <2>2, <2>4, <3>2, <3>3 DEF Undisturbed, Under
    <2>12. \A h \in Gates : h # g => lock # h /\ quiet' # h
      BY <1>3, <2>1, GateNotNone DEF Wrote
    <2>13. quiet' = g => quiet = g
      BY <1>3, GateNotNone DEF Wrote
    <2>14. "consistent" \in Under \cup Over /\ gate[g].pc \in Under
      BY <1>1 DEF Under
    <2> HIDE DEF Handed, Holds
    <2> QED
      BY <1>1, <1>3, <2>9, <2>10, <2>11, <2>12, <2>13, <2>14, OnwardKeeps
  <1> QED
    BY <1>2, <1>3 DEF PublishHandoff

LEMMA CheckConsistencyKeeps ==
  ASSUME IInv, NEW g \in Gates, CheckConsistency(g)
  PROVE  IInv'
  <1>1. gate[g].pc = "consistent"
    BY DEF CheckConsistency, At
  <1>2. CASE Fail(g)
    BY <1>1, <1>2, FailKeeps
  <1>3. CASE /\ ChainValid(gate[g].result, gate[g].seen.validated, facts, ledger)
             /\ Goto(g, "append")
             /\ UNCHANGED <<cur, journal, workspace, lock, told, edits, kills, quiet>>
    <2>1. lock = g /\ gate[g].rev = Len(journal)
      BY <1>1 DEF IInv, GateInv, Holds, Under
    <2>2. /\ gate'[g].pc = "append" /\ gate'[g].result = gate[g].result
          /\ gate'[g].rev = gate[g].rev /\ gate'[g].seen = gate[g].seen
          /\ gate'[g].evidence = gate[g].evidence
      BY <1>3, GotoShape DEF IInv
    <2>3. UNCHANGED <<cur, journal, ledger, summary, handoff, text, told, quiet, workspace>>
      BY <1>3 DEF workspace
    <2>4. Projected(g)' = Projected(g)
      BY <2>2, <2>3 DEF Projected, RecordOf
    <2>5. /\ handoff.journal = Projected(g)
          /\ handoff.ledger.items = Validated(handoff.facts)
          /\ handoff.ledger.records = Validated(handoff.facts)
      BY <1>1 DEF IInv, GateInv, Handed
    <2>6. Handed(g)'
      BY <2>3, <2>4, <2>5 DEF Handed
    <2>7. Holds(g)'
      BY <1>3, <2>1, <2>2 DEF Holds
    <2>8. Undisturbed(g) /\ quiet = g => Undisturbed(g)'
      <3> SUFFICES ASSUME Undisturbed(g), quiet = g
                   PROVE  Undisturbed(g)'
        OBVIOUS
      <3>1. /\ SummarySays(g, gate[g].seen.validated)
            /\ text = Rendered(Projected(g), handoff) /\ ledger.items = handoff.ledger.items
        BY <1>1 DEF Undisturbed, Under
      <3>2. gate[g].result \in VALID_RESULTS
        BY <1>1, CalledHas
      <3>3. gate[g].seen.validated = ledger.items
        BY <1>3, <3>2, ChainCounts
      <3>4. gate[g].seen.validated = Validated(handoff.facts)
        BY <2>5, <3>1, <3>3
      <3>5. SummarySays(g, gate[g].seen.validated)'
        BY <2>2, <2>3, <3>1 DEF SummarySays
      <3>6. (text = Rendered(Projected(g), handoff))'
        BY <2>3, <2>4, <3>1 DEF Rendered
      <3>7. (gate[g].seen.validated = Validated(handoff.facts))'
        BY <2>2, <2>3, <3>4
      <3> QED
        BY <2>2, <2>3, <3>1, <3>5, <3>6, <3>7 DEF Undisturbed, Under
    <2>9. \A h \in Gates : h # g => lock # h
      BY <2>1
    <2>10. "append" \in Under \cup Over /\ gate[g].pc \in Under
      BY <1>1 DEF Under
    <2>11. Set(g, [gate[g] EXCEPT !.pc = "append", !.basis = gate[g].basis])
      BY <1>3, GotoOnward DEF IInv
    <2> QED
      BY <1>1, <1>3, <2>3, <2>6, <2>7, <2>8, <2>9, <2>10, <2>11, OnwardKeeps
  <1> QED
    BY <1>2, <1>3 DEF CheckConsistency

LEMMA CheckCurrentKeeps ==
  ASSUME IInv, NEW g \in Gates, CheckCurrent(g)
  PROVE  IInv'
  <1>1. gate[g].pc = "current"
    BY DEF CheckCurrent, At
  <1>2. CASE Fail(g)
    BY <1>1, <1>2, FailKeeps
  <1>3. ASSUME lock = None,
               UNCHANGED <<cur, journal, workspace, lock, told, edits, kills, quiet>>,
               NEW to \in {"assert", "partial"}, Goto(g, to),
               to = "assert" => HandoffCurrent
        PROVE  IInv'
    <2>1. /\ gate'[g].pc = to /\ gate'[g].result = gate[g].result
          /\ gate'[g].rev = gate[g].rev /\ gate'[g].seen = gate[g].seen
      BY <1>3, GotoShape DEF IInv
    <2>2. UNCHANGED <<cur, journal, facts, docker, ledger, summary, handoff, text, told, quiet,
                      workspace>>
      BY <1>3 DEF workspace
    <2>3. Holds(g)' /\ Handed(g)'
      BY <2>1 DEF Holds, Handed, Under
    <2>4. Undisturbed(g) /\ quiet = g => Undisturbed(g)'
      <3> SUFFICES ASSUME Undisturbed(g), quiet = g
                   PROVE  Undisturbed(g)'
        OBVIOUS
      <3>1. text = Rendered(journal, handoff) /\ SummarySays(g, Validated(handoff.facts))
        BY <1>1 DEF Undisturbed
      <3>2. CASE to = "partial"
        BY <2>1, <3>2 DEF Undisturbed, Under, Over
      <3>3. CASE to = "assert"
        <4>1. handoff.facts = facts
          BY <1>3, <3>3 DEF HandoffCurrent, Document, DocumentOf
        <4>2. HandoffCurrent'
          BY <1>3, <2>2, <3>3 DEF HandoffCurrent, Document, DocumentOf, CompletionHolds,
                                    CompletionHoldsOf
        <4>3. SummarySays(g, Validated(facts))'
          BY <2>1, <2>2, <3>1, <4>1 DEF SummarySays
        <4>4. (text = Rendered(journal, handoff))'
          BY <2>2, <3>1
        <4> QED
          BY <2>1, <3>3, <4>2, <4>3, <4>4 DEF Undisturbed, Under, Over
      <3> QED
        BY <3>2, <3>3
    <2>5. \A h \in Gates : h # g => lock # h
      BY <1>3, GateNotNone
    <2>6. to \in Under \cup Over /\ to \notin Under /\ to # "done" /\ gate[g].pc \in Over
      BY <1>1 DEF Under, Over
    <2>7. Set(g, [gate[g] EXCEPT !.pc = to, !.basis = gate[g].basis])
      BY <1>3, GotoOnward DEF IInv
    <2> QED
      BY <1>1, <1>3, <2>2, <2>3, <2>4, <2>5, <2>6, <2>7, OnwardKeeps
  <1> QED
    BY <1>2, <1>3 DEF CheckCurrent

\* What passes is what a rerun accepts, unless somebody has written or changed something since.
LEMMA AssertKeeps ==
  ASSUME IInv, NEW g \in Gates, AssertFinalized(g)
  PROVE  IInv'
  <1>1. PICK answer : Answer(g, answer) /\ (answer = "passed" =>
               gate[g].pc = "assert" /\ Finalized /\ Claim(journal) = gate[g].result)
    BY DEF AssertFinalized, At
  <1>2. gate[g].pc \in {"assert", "partial"}
    BY DEF AssertFinalized, At
  <1>3. UNCHANGED <<cur, journal, facts, docker, ledger, summary, handoff, text, quiet, workspace>>
    BY DEF AssertFinalized, workspace
  <1>4. gate'[g].result = gate[g].result
    BY <1>1, <1>3, AnswerShape DEF IInv
  <1>5. ASSUME answer = "passed", quiet' = g PROVE RerunAccepts(gate[g].result)'
    <2>1. /\ HandoffCurrent /\ text = Rendered(journal, handoff)
          /\ SummarySays(g, Validated(facts))
      BY <1>1, <1>3, <1>5 DEF IInv, GateInv, Undisturbed
    <2>2. RerunAccepts(gate[g].result)
      BY <1>1, <1>5, <2>1 DEF RerunAccepts, SummarySays
    <2> QED
      BY <1>3, <1>4, <2>2 DEF RerunAccepts, HandoffCurrent, Document, DocumentOf,
                                  CompletionHolds, CompletionHoldsOf, Finalized
  <1> QED
    BY <1>1, <1>2, <1>3, <1>5, AnswerKeeps

\* A gate on a completed workspace writes nothing: it is not the one since whose SUMMARY.md
\* nobody wrote.
LEMMA RerunKeeps ==
  ASSUME IInv, NEW g \in Gates, Rerun(g)
  PROVE  IInv'
  <1>1. gate[g].pc = "rerun"
    BY DEF Rerun, At
  <1>2. CASE Fail(g)
    BY <1>1, <1>2, FailKeeps
  <1>3. CASE Answer(g, "passed") /\ UNCHANGED <<cur, journal, workspace, edits, kills, quiet>>
    <2>1. quiet' # g
      BY <1>1, <1>3 DEF IInv, GateInv, Undisturbed, Under, Over
    <2>2. ledger' = ledger /\ handoff' = handoff
      BY <1>3 DEF workspace
    <2> QED
      BY <1>1, <1>3, <2>1, <2>2, AnswerKeeps
  <1> QED
    BY <1>2, <1>3 DEF Rerun

LEMMA KillKeeps ==
  ASSUME IInv, NEW g \in Gates, Kill(g)
  PROVE  IInv'
  <1>1. Answer(g, "nothing") /\ gate[g].pc # "idle"
    BY DEF Kill
  <1>2. UNCHANGED <<cur, journal, workspace, quiet>>
    BY DEF Kill
  <1>3. ledger' = ledger /\ handoff' = handoff
    BY <1>2 DEF workspace
  <1> QED
    BY <1>1, <1>2, <1>3, AnswerKeeps
\* The terminal record closes a stretch of records of its gate alone.
LEMMA AppendKeeps ==
  ASSUME IInv, NEW g \in Gates, AppendTerminal(g)
  PROVE  IInv'
  <1> DEFINE r == [RecordOf(g, "succeeded") EXCEPT
                     !.result = gate[g].result,
                     !.count = Cardinality(gate[g].seen.validated),
                     !.evidence = gate[g].evidence]
  <1>1. gate[g].pc = "append" /\ Goto(g, "current") /\ lock' = None /\ Wrote(g)
    BY DEF AppendTerminal, At
  <1>2. UNCHANGED <<facts, ledger, docker, summary, handoff, text, told>>
    BY DEF AppendTerminal, workspace
  <1>3. journal' = Append(journal, r) /\ journal' = Projected(g)
    BY DEF AppendTerminal, Projected
  <1>4. r.by = g
    BY DEF RecordOf
  <1> HIDE DEF r
  <1>5. lock = g /\ gate[g].rev = Len(journal)
    BY <1>1 DEF IInv, GateInv, Holds, Under
  <1>6. /\ DOMAIN gate' = Gates /\ \A h \in Gates : DOMAIN gate'[h] = Fields
        /\ gate'[g].pc = "current" /\ gate'[g].result = gate[g].result
        /\ gate'[g].rev = gate[g].rev /\ gate'[g].seen = gate[g].seen
        /\ gate'[g].draft = gate[g].draft
        /\ \A h \in Gates : h # g => gate'[h] = gate[h]
    BY <1>1, GotoShape DEF IInv
  <1>7. Shaped'
    <2>1. \A h \in Gates : "items" \in DOMAIN gate'[h].draft
      BY <1>6 DEF IInv, Shaped
    <2> QED
      BY <1>2, <1>6, <2>1 DEF IInv, Shaped
  <1>8. \A h \in Gates : h # g => quiet' # h
    BY <1>1, GateNotNone DEF Wrote
  <1>9. \A h \in Gates : h # g => Spares(h)
    BY <1>2, <1>5, <1>6, <1>8 DEF Spares
  <1>10. GateInv(g)'
    <2>1. Called(g)'
      BY <1>1, <1>6 DEF IInv, GateInv, Called
    <2>2. Since(g)' /\ Holds(g)' /\ Handed(g)'
      BY <1>6 DEF Since, Holds, Handed, Mid, Under
    <2>3. Undisturbed(g)'
      <3> SUFFICES ASSUME quiet' = g
                   PROVE  Undisturbed(g)'
        BY DEF Undisturbed
      <3>1. quiet = g
        BY <1>1, GateNotNone DEF Wrote
      <3>2. /\ SummarySays(g, gate[g].seen.validated)
            /\ text = Rendered(Projected(g), handoff)
            /\ gate[g].seen.validated = Validated(handoff.facts)
        BY <1>1, <3>1 DEF IInv, GateInv, Undisturbed, Under
      <3>3. text' = Rendered(journal', handoff')
        BY <1>2, <1>3, <3>2
      <3>4. SummarySays(g, Validated(handoff.facts))'
        BY <1>2, <1>6, <3>2 DEF SummarySays
      <3>5. SummarySays(g, gate[g].seen.validated)'
        BY <1>2, <1>6, <3>2 DEF SummarySays
      <3> QED
        BY <1>6, <3>3, <3>4, <3>5 DEF Undisturbed, Over, Under
    <2>4. Stands(g)'
      BY <1>1, <1>2 DEF IInv, GateInv, Stands
    <2> QED
      BY <2>1, <2>2, <2>3, <2>4 DEF GateInv
  <1>11. PassUninterrupted'
    <2>1. /\ Len(journal) \in Nat /\ DOMAIN journal = 1..Len(journal)
          /\ DOMAIN journal' = 1..(Len(journal) + 1)
          /\ \A i \in 1..Len(journal) : journal'[i] = journal[i]
          /\ journal'[Len(journal) + 1] = r
      <3>1. journal' = Append(journal, r) /\ \E S : journal \in Seq(S)
        BY <1>3 DEF IInv, IsJournal
      <3> QED
        BY <3>1, AppendJournal
    <2>2. PICK s0 \in 1..Len(journal) : /\ journal[s0].name = "started"
                                        /\ \A i \in s0..Len(journal) : journal[i].by = g
      <3>1. Since(g) /\ gate[g].pc \in Mid \cup Under
        BY <1>1 DEF IInv, GateInv, Under
      <3>2. \E s \in 1..gate[g].rev : /\ journal[s].name = "started"
                                     /\ \A i \in s..gate[g].rev : journal[i].by = g
        BY <3>1 DEF Since
      <3> QED
        BY <1>5, <3>2
    <2> SUFFICES ASSUME NEW t \in Terminals'
                 PROVE  \E s \in 1..t : /\ journal'[s].name = "started"
                                        /\ \A i \in s..t : journal'[i].by = journal'[t].by
      BY DEF PassUninterrupted
    <2>3. CASE t = Len(journal) + 1
      <3>1. /\ s0 \in 1..t /\ journal'[s0].name = "started"
            /\ \A i \in s0..t : journal'[i].by = journal'[t].by
        BY <1>4, <2>1, <2>2, <2>3
      <3> QED
        BY <3>1
    <2>4. CASE t # Len(journal) + 1
      <3>1. t \in 1..(Len(journal) + 1) /\ journal'[t].name = "succeeded"
        BY <2>1 DEF Terminals
      <3>2. t \in 1..Len(journal)
        BY <2>1, <2>4, <3>1
      <3>3. t \in Terminals
        BY <2>1, <3>1, <3>2 DEF Terminals
      <3>4. PICK s \in 1..t : /\ journal[s].name = "started"
                              /\ \A i \in s..t : journal[i].by = journal[t].by
        BY <3>3 DEF IInv, PassUninterrupted
      <3>5. journal'[s].name = "started" /\ \A i \in s..t : journal'[i].by = journal'[t].by
        BY <2>1, <3>2, <3>4
      <3> QED
        BY <3>5
    <2> QED
      BY <2>3, <2>4
  <1>12. Grows
    BY <1>3 DEF Grows
  <1> QED
    BY <1>7, <1>9, <1>10, <1>11, <1>12, StepOf
-----------------------------------------------------------------------------
(* The environment *)

\* A change on the disk: from its record on a gate is no longer undisturbed.
LEMMA EditKeeps ==
  ASSUME IInv, Edit, ledger'.items = ledger.items, "items" \in DOMAIN ledger'
  PROVE  IInv'
  <1>1. UNCHANGED <<cur, journal, docker, summary, handoff, text, lock, gate, told>>
    BY DEF Edit
  <1>2. IsJournal' /\ Shaped' /\ PassUninterrupted'
    BY <1>1, PassStays DEF IInv, IsJournal, Shaped
  <1>3. ASSUME NEW h \in Gates PROVE GateInv(h)'
    <2>1. GateInv(h)
      BY DEF IInv
    <2>2. quiet' = h => quiet = h /\ gate[h].pc \notin {"current", "assert", "partial", "done"}
      BY GateNotNone DEF Edit, Disturbed
    <2>3. Called(h)' /\ Since(h)' /\ Holds(h)'
      BY <1>1, <2>1 DEF GateInv, Called, Since, Holds
    <2>4. Handed(h)'
      BY <1>1, <2>1 DEF GateInv, Handed, Projected
    <2>5. Undisturbed(h)'
      BY <1>1, <2>1, <2>2 DEF GateInv, Undisturbed, SummarySays, Projected
    <2>6. Stands(h)'
      BY <1>1, <2>1, <2>2 DEF GateInv, Stands
    <2> QED
      BY <2>3, <2>4, <2>5, <2>6 DEF GateInv
  <1> QED
    BY <1>2, <1>3 DEF IInv

LEMMA ChangeKeeps ==
  ASSUME IInv, ChangeBundle \/ ConfirmCandidate \/ ChangeFlaw
  PROVE  IInv'
  <1>1. Edit
    BY DEF ChangeBundle, ConfirmCandidate, ChangeFlaw
  <1>2. "items" \in DOMAIN ledger
    BY DEF IInv, Shaped
  <1>3. ledger'.items = ledger.items /\ "items" \in DOMAIN ledger'
    <2>1. CASE ledger' = ledger
      BY <1>2, <2>1
    <2>2. CASE ConfirmCandidate
      <3>1. PICK b : ledger' = [ledger EXCEPT !.records = @ \union {b}]
        BY <2>2 DEF ConfirmCandidate
      <3> QED
        BY <1>2, <3>1
    <2> QED
      BY <2>1, <2>2 DEF ChangeBundle, ChangeFlaw
  <1> QED
    BY <1>1, <1>3, EditKeeps

\* Another writer's record, while no gate holds the lock.
LEMMA OtherKeeps ==
  ASSUME IInv, OtherWriter
  PROVE  IInv'
  <1> DEFINE r == RecordOf(None, "other")
  <1>1. /\ lock = None /\ journal' = Append(journal, r) /\ quiet' = None
        /\ UNCHANGED <<workspace, lock, gate, told>>
    BY DEF OtherWriter
  <1>2. r.name # "succeeded"
    BY DEF RecordOf
  <1> HIDE DEF r
  <1>3. Shaped'
    BY <1>1 DEF IInv, Shaped, workspace
  <1>4. \A h \in Gates : Spares(h)
    BY <1>1, GateNotNone DEF Spares
  <1>5. Grows /\ PassUninterrupted'
    BY <1>1, <1>2, PassStays DEF Grows, IInv
  <1> QED
    BY <1>3, <1>4, <1>5, AllSpared

LEMMA StutterKeeps ==
  ASSUME IInv, UNCHANGED vars
  PROVE  IInv'
  <1>1. UNCHANGED <<cur, journal, workspace, ledger, handoff, lock, gate, told, quiet>>
    BY DEF vars, workspace
  <1>2. Shaped'
    BY <1>1 DEF IInv, Shaped
  <1>3. \A h \in Gates : Spares(h)
    BY <1>1 DEF Spares
  <1>4. Grows /\ PassUninterrupted'
    BY <1>1, PassStays DEF Grows, IInv
  <1> QED
    BY <1>2, <1>3, <1>4, AllSpared
-----------------------------------------------------------------------------
(* The invariant, and what follows from it *)

LEMMA InitHolds == Init => IInv
  <1> SUFFICES ASSUME Init
               PROVE  IInv
    OBVIOUS
  <1>1. IsJournal
    <2>1. journal \in Seq({})
      BY DEF Init
    <2> QED
      BY <2>1 DEF IsJournal
  <1>2. PassUninterrupted
    <2>1. DOMAIN journal = {}
      BY DEF Init
    <2> QED
      BY <2>1 DEF PassUninterrupted, Terminals
  <1>3. "items" \in DOMAIN ledger /\ quiet = None
    BY DEF Init, EmptyLedger
  <1>4. \A g \in Gates : gate[g] = Locals /\ told[g] = "nothing"
    BY DEF Init
  <1>5. Locals.pc = "idle" /\ "items" \in DOMAIN Locals.draft
    BY DEF Locals, EmptyLedger
  <1>6. Shaped
    BY <1>3, <1>4, <1>5, LocalsShape DEF Shaped, Init
  <1>7. ASSUME NEW g \in Gates PROVE GateInv(g)
    <2>1. gate[g].pc = "idle" /\ told[g] = "nothing" /\ quiet # g
      BY <1>3, <1>4, <1>5, GateNotNone
    <2> QED
      BY <2>1 DEF GateInv, Called, Since, Holds, Handed, Undisturbed, Stands, Mid, Under
  <1> QED
    BY <1>1, <1>2, <1>6, <1>7 DEF IInv

LEMMA ContinueKeeps ==
  ASSUME IInv, NEW g \in Gates, Continue(g)
  PROVE  IInv'
  <1>1. CASE Rerun(g) \/ Start(g) \/ Inspect(g) \/ CheckConfirmed(g) \/ CheckNoConfirmed(g)
    BY <1>1, RerunKeeps, StartKeeps, InspectKeeps, CheckConfirmedKeeps, CheckNoConfirmedKeeps
  <1>2. CASE \/ Synthesize(g) \/ PublishLedger(g) \/ CheckLedger(g)
             \/ \E clean \in BOOLEAN : CheckDocker(g, clean)
             \/ ReadDocker(g) \/ WriteSummary(g)
    BY <1>2, SynthesizeKeeps, PublishLedgerKeeps, CheckLedgerKeeps, CheckDockerKeeps,
       ReadDockerKeeps, WriteSummaryKeeps
  <1>3. CASE \/ ReturnToVerification(g) \/ BlockVerification(g) \/ RecordFailure(g)
             \/ ReadEvents(g) \/ RefreshHandoff(g) \/ RenderText(g)
    BY <1>3, ReturnKeeps, ReadEventsKeeps, RefreshKeeps, RenderKeeps
  <1>4. CASE \/ TakeLock(g) \/ ReadBundles(g) \/ PublishHandoff(g) \/ CheckConsistency(g)
             \/ AppendTerminal(g) \/ CheckCurrent(g) \/ AssertFinalized(g)
    BY <1>4, TakeLockKeeps, ReadBundlesKeeps, PublishHandoffKeeps, CheckConsistencyKeeps,
       AppendKeeps, CheckCurrentKeeps, AssertKeeps
  <1> QED
    BY <1>1, <1>2, <1>3, <1>4 DEF Continue

LEMMA StepKeeps == IInv /\ [Next]_vars => IInv'
  <1> SUFFICES ASSUME IInv, [Next]_vars
               PROVE  IInv'
    OBVIOUS
  <1>1. ASSUME NEW g \in Gates,
               Continue(g) \/ Kill(g) \/ \E result \in VALID_RESULTS : Call(g, result)
        PROVE  IInv'
    BY <1>1, ContinueKeeps, KillKeeps, CallKeeps
  <1>2. CASE ChangeBundle \/ ConfirmCandidate \/ ChangeFlaw \/ OtherWriter
    BY <1>2, ChangeKeeps, OtherKeeps
  <1>3. CASE UNCHANGED vars
    BY <1>3, StutterKeeps
  <1> QED
    BY <1>1, <1>2, <1>3 DEF Next

LEMMA GateInvariant == Spec => []IInv
  BY InitHolds, StepKeeps, PTL DEF Spec

\* From the start of a gate to its terminal record the journal holds the records of that gate
\* alone (_FinalizationEventWriter passes the revision of its last record with the next): for any
\* number of gates, other writers, edits and kills.
THEOREM NobodyBetween == Spec => []PassUninterrupted
  <1>1. IInv => PassUninterrupted
    BY DEF IInv
  <1> QED
    BY <1>1, GateInvariant, PTL

\* The handoff published ahead of the terminal record is the one of the journal with that record,
\* and shows as many validated bundles as ledger items and confirmed records
\* (prepare_terminal_artifacts under the writer's lock); and the record counts as many, if no other
\* program wrote since the SUMMARY.md of that gate.
THEOREM HandoffCounts == Spec => []CountOfHandoff
  <1>1. ASSUME IInv PROVE CountOfHandoff
    <2> SUFFICES ASSUME NEW g \in Gates, gate[g].pc = "append"
                 PROVE  /\ handoff.journal = Projected(g)
                        /\ handoff.ledger.items = Validated(handoff.facts)
                        /\ handoff.ledger.records = Validated(handoff.facts)
                        /\ quiet = g => Projected(g)[Len(journal) + 1].count
                                          = Cardinality(Validated(handoff.facts))
      BY DEF CountOfHandoff, At
    <2>1. /\ handoff.journal = Projected(g)
          /\ handoff.ledger.items = Validated(handoff.facts)
          /\ handoff.ledger.records = Validated(handoff.facts)
      BY <1>1 DEF IInv, GateInv, Handed
    <2>2. quiet = g => gate[g].seen.validated = Validated(handoff.facts)
      BY <1>1 DEF IInv, GateInv, Undisturbed
    <2>3. Projected(g)[Len(journal) + 1].count = Cardinality(gate[g].seen.validated)
      <3> DEFINE r == [RecordOf(g, "succeeded") EXCEPT
                         !.result = gate[g].result,
                         !.count = Cardinality(gate[g].seen.validated),
                         !.evidence = gate[g].evidence]
      <3>1. r.count = Cardinality(gate[g].seen.validated)
        BY DEF RecordOf
      <3>2. Append(journal, r)[Len(journal) + 1] = r
        BY <1>1, AppendJournal DEF IInv, IsJournal
      <3> QED
        BY <3>1, <3>2 DEF Projected
    <2> QED
      BY <2>1, <2>2, <2>3
  <1>2. IInv => CountOfHandoff
    BY <1>1
  <1> QED
    BY <1>2, GateInvariant, PTL

\* A gate that has passed would pass again with its files as they are, as long as nobody wrote
\* since its SUMMARY.md and nothing changed since its record (validate_completed_rerun accepts what
\* validate_finalization accepted): the handoff is the one of the disk, its text shows it,
\* SUMMARY.md has its count, and the completion is supported.
THEOREM PassIsRepeatable == Spec => []PassedStands
  <1>1. IInv => PassedStands
    BY DEF IInv, GateInv, Stands, PassedStands
  <1> QED
    BY <1>1, GateInvariant, PTL
=============================================================================
