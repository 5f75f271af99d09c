------------------------------- MODULE AuditLog -------------------------------
(***************************************************************************)
(* What the audit journal promises: an append-only log in which an event   *)
(* has at most one record, and a record whose commit was reported to its   *)
(* caller is never lost, whatever fails.  A record nobody was told of may  *)
(* disappear, together with all that follow it.                            *)
(***************************************************************************)
EXTENDS Naturals, Sequences

CONSTANT InitialLogs

VARIABLES log,      \* the records, each with the id of its event
          promised  \* the ids of the events reported as committed

vars == <<log, promised>>

Ids(l) == {l[i].id : i \in 1..Len(l)}

Init == log \in InitialLogs /\ promised = {}

\* A new event is recorded after the last.
Record ==
  LET new == log'[Len(log) + 1]
  IN  /\ Len(log') = Len(log) + 1
      /\ log' = Append(log, new)
      /\ new.id \notin Ids(log)
      /\ UNCHANGED promised

\* The caller learns that the record of its event is committed.
Promise ==
  \E id \in Ids(log) :
    /\ promised' = promised \union {id}
    /\ UNCHANGED log

\* The log loses records that nobody was promised.
Lose ==
  \E n \in 0..Len(log) :
    /\ log' = SubSeq(log, 1, n)
    /\ promised \subseteq Ids(log')
    /\ UNCHANGED promised

Next == Record \/ Promise \/ Lose

Spec == Init /\ [][Next]_vars
=============================================================================
