------------------------ MODULE DockerResourcesProofs ------------------------
(***************************************************************************)
(* Proofs about DockerCases and DockerResources, for any number of         *)
(* attempts at one case, overlapping as they may, any resources on the     *)
(* host and any numbers of rounds, scans, faults and commands.             *)
(***************************************************************************)
EXTENDS DockerResources, SequenceTheorems, TLAPS

CaseIds(a) == {<<"container", a>>, <<"volume", a>>}
Ids == Identities(Present) \cup {"container", "volume"} \X Attempts

Before == {"idle", "authority", "docker", "resume", "verify", "start"}
AtHelper == {"launching", "waiting", "signalled"}
Cleaning == {"before", "remove", "scan", "stable"}
Leaving == {"exit", "end", "handler"}
Afterwards == {"publish", "aborted"} \cup Leaving
Over == {"over", "failed", "died"}

Fields == {"pc", "rev", "from", "exists", "helper", "hold", "signal", "status", "unsafe",
           "recorded", "verified", "reported", "round", "stable", "failed", "found", "after"}
Shape(s) == DOMAIN s = Fields /\ s.stable \in Nat

Events == {"earlier", "resumed", "started", "completed", "rejected", "blocked", "other"}
Records == [event : Events, by : Attempts \cup {Nobody}, status : Statuses]
Requests == [resource : Resource(Ids), lag : 0..MaxLag]
Baselines == [available : BOOLEAN, ids : SUBSET Ids]
Processes == [pc : {"idle", "write", "store", "removing"} \cup Commands,
              base : Baselines \cup {Missing}, doc : Baselines \cup {Missing},
              plan : SUBSET Resource(Ids)]

Shapes ==
  /\ DOMAIN at = Attempts /\ \A a \in Attempts : Shape(at[a])
  /\ journal \in Seq(Records)
  /\ mode \in [Attempts -> {"docker-run", "docker-compose"}]
  /\ resources \subseteq Resource(Ids)
  /\ creating \subseteq Requests
  /\ baseline \in Baselines \cup {Missing}
  /\ mgr \in [Managers -> Processes]

-----------------------------------------------------------------------------
(* What is on the host *)

\* Nothing of an attempt is left, and nothing can come.
Nothing(a) == OwnedByCase(a) = {} /\ Pending(a) = {}

\* What bears the identity of an attempt bears its labels too, and only what attempts create bears
\* the labels of any.
Labelled(r) ==
  /\ \A a \in Attempts : r.id \in CaseIds(a) => CaseOwned(r, a) \/ ProjectOwned(r, a)
  /\ r.token # Nobody \/ r.project # Nobody => r.kind \in {"container", "volume"}

\* A request is of something that is not there yet, never was in a baseline and is requested once.
Host ==
  /\ \A r \in resources : Labelled(r)
  /\ \A c \in creating :
       /\ Labelled(c.resource)
       /\ c.resource.id \notin Identities(resources) \cup protected
       /\ \A d \in creating : d.resource.id = c.resource.id => d = c

-----------------------------------------------------------------------------
(* Where an attempt is *)

\* Where it goes on when the cleanup it is in is over.
Place(s) == IF s.pc \in Cleaning THEN s.after ELSE s.pc

Untouched(a) == Nothing(a) /\ CaseIds(a) \cap protected = {}

\* With every clean scan a request has less time left to hide.
Hiding(s, a) ==
  /\ s.pc \in {"before", "remove", "scan"} => s.stable = 0
  /\ s.pc \in {"remove", "scan", "stable"} => \A c \in Pending(a) : c.lag + s.stable + 1 <= MaxLag

\* Nothing is created before the helper is at work, and the wrapper goes on only when its helper
\* has ended.
HelperFits(s, a) ==
  /\ s.helper \in {"none", "early"} => Untouched(a)
  /\ s.pc \in Before => s.helper = "none" /\ ~s.exists /\ ~s.verified
  /\ ~s.exists /\ s.pc \notin {"done", "killed"} => s.helper = "none"
  /\ s.pc \notin AtHelper \cup {"killed"} => s.helper \in {"none"} \cup Over

\* A verified cleanup has left nothing, a confirmed case is a verified one, and what ended without
\* a report has left nothing either.
CleanFits(s, a) ==
  /\ s.pc \in AtHelper \cup {"killed"} => ~s.verified
  /\ s.pc \in Cleaning => s.exists /\ ~s.verified /\ s.after \in Afterwards
  /\ s.verified => Nothing(a)
  /\ s.pc = "event" => s.verified \/ s.status = "rejected_unsafe_sandbox"
  /\ s.pc = "done" /\ ~s.reported => Nothing(a)

InJournal(a, status) ==
  \E i \in DOMAIN journal : journal[i].by = a /\ journal[i].event = EventOf(status)

\* The outcome is recorded once, and its status stays.
RecordFits(s, a) ==
  /\ s.recorded => Place(s) \in {"log", "final"} \cup Leaving
  /\ s.pc \in {"log", "final"} /\ s.recorded => InJournal(a, s.status)

Fits(s, a) == HelperFits(s, a) /\ CleanFits(s, a) /\ Hiding(s, a) /\ RecordFits(s, a)

Attempted == \A a \in Attempts : Fits(at[a], a)

-----------------------------------------------------------------------------
(* The resource manager *)

\* What is protected is in a baseline, as far as it is still there; one that was captured alone
\* has nothing else.
Lists(d) ==
  d # Missing /\ d.available =>
    /\ \A r \in resources : r.id \in protected => r.id \in d.ids
    /\ weakened = {} => d.ids = protected

\* A process compares with a baseline that was there, or writes one without.
InOrder(p) ==
  /\ p.pc \in {"overwrite", "verify", "strict", "cleanup", "removing"} => p.base # Missing
  /\ p.base # Missing => baseline # Missing /\ p.base.available
  /\ p.pc = "store" <=> p.doc # Missing
  /\ p.pc = "removing" \/ p.plan = {}

Spares(p) == Lists(p.base) /\ Lists(p.doc) /\ \A r \in p.plan : r.id \notin protected

\* As long as every listing succeeds all baselines list what is protected, and no plan has any
\* of it.
Guards ==
  /\ \A m \in Managers : InOrder(mgr[m])
  /\ "listing" \notin weakened => Lists(baseline) /\ \A m \in Managers : Spares(mgr[m])

IInv == Shapes /\ Host /\ Attempted /\ CompletedIsRecorded /\ Guards

-----------------------------------------------------------------------------
(* What the host does to an attempt *)

\* An attempt of which there is nothing gets nothing, and its requests do not get more time.
Kept(b) ==
  /\ Nothing(b) => Nothing(b)'
  /\ Untouched(b) => Untouched(b)'
  /\ \A c \in Pending(b)' : \E d \in Pending(b) : c.lag <= d.lag

Grows ==
  /\ journal' \in Seq(Records) /\ Len(journal) <= Len(journal')
  /\ \A i \in 1..Len(journal) : journal'[i] = journal[i]

\* What exists is as before, but for some that are gone or at rest.
Fewer ==
  /\ resources' \subseteq Resource(Ids)
  /\ \A r \in resources' : \E q \in resources :
       r.id = q.id /\ r.kind = q.kind /\ r.token = q.token /\ r.project = q.project

LEMMA NobodyElse == Nobody \notin Attempts /\ MaxLag \in Nat /\ StableScans \in Nat \ {0}
  BY DaemonAssumption, CasesAssumption

LEMMA LagOf ==
  ASSUME Shapes, NEW c \in creating PROVE c.lag \in 0..MaxLag /\ c.resource \in Resource(Ids)
  BY DEF Shapes, Requests

LEMMA FitsKept ==
  ASSUME Shapes, Shapes', NEW a \in Attempts, NEW s, Shape(s), Fits(s, a), Kept(a), Grows
  PROVE  Fits(s, a)'
<1>1. HelperFits(s, a)'
  BY DEF Fits, HelperFits, Kept
<1>2. CleanFits(s, a)'
  BY DEF Fits, CleanFits, Kept
<1>3. Hiding(s, a)'
  <2>1. ASSUME s.pc \in {"remove", "scan", "stable"}, NEW c \in Pending(a)'
        PROVE  c.lag + s.stable + 1 <= MaxLag
    <3>1. PICK d \in Pending(a) : c.lag <= d.lag
      BY <2>1 DEF Kept
    <3>2. d.lag + s.stable + 1 <= MaxLag
      BY <2>1, <3>1 DEF Fits, Hiding
    <3>3. c.lag \in Nat /\ d.lag \in Nat
      BY <2>1, <3>1 DEF Pending, Shapes, Requests
    <3> QED
      BY <3>1, <3>2, <3>3, NobodyElse DEF Shape
  <2> QED
    BY <2>1 DEF Fits, Hiding
<1>4. InJournal(a, s.status) => InJournal(a, s.status)'
  <2>1. DOMAIN journal = 1..Len(journal) /\ DOMAIN journal' = 1..Len(journal')
    BY LenProperties DEF Shapes, Grows
  <2>2. Len(journal) \in Nat /\ Len(journal') \in Nat
    BY LenProperties DEF Shapes, Grows
  <2> QED
    BY <2>1, <2>2 DEF InJournal, Grows
<1>5. RecordFits(s, a)'
  BY <1>4 DEF Fits, RecordFits
<1> QED
  BY <1>1, <1>2, <1>3, <1>5 DEF Fits

LEMMA HostStays ==
  ASSUME Shapes, Host, UNCHANGED <<daemonVars, protected, mode>>
  PROVE  Host' /\ \A b \in Attempts : Kept(b)
<1>1. resources' = resources /\ creating' = creating /\ protected' = protected /\ mode' = mode
  BY DEF daemonVars
<1>2. \A b \in Attempts : Pending(b)' = Pending(b) /\ OwnedByCase(b)' = OwnedByCase(b)
  BY <1>1 DEF Pending, OwnedByCase, CaseOwned, ProjectOwned
<1>3. Host'
  BY <1>1 DEF Host, Labelled, CaseOwned, ProjectOwned, Identities
<1>4. ASSUME NEW b \in Attempts PROVE Kept(b)
  <2>1. \A c \in Pending(b) : c.lag <= c.lag
    BY LagOf, NobodyElse DEF Pending
  <2>2. Nothing(b)' = Nothing(b) /\ Untouched(b)' = Untouched(b)
    BY <1>1, <1>2 DEF Nothing, Untouched, CaseIds
  <2> QED
    BY <1>2, <2>1, <2>2 DEF Kept
<1> QED
  BY <1>3, <1>4

\* Removals, and containers that come to their end.
LEMMA HostShrinks ==
  ASSUME Shapes, Host, Fewer, UNCHANGED <<creating, protected, mode>>
  PROVE  Host' /\ \A b \in Attempts : Kept(b)
<1>1. \A b \in Attempts : Pending(b)' = Pending(b)
  BY DEF Pending
<1>2. Identities(resources') \subseteq Identities(resources)
  BY DEF Fewer, Identities
<1>3. ASSUME NEW b \in Attempts, OwnedByCase(b) = {} PROVE OwnedByCase(b)' = {}
  BY <1>3 DEF Fewer, OwnedByCase, CaseOwned, ProjectOwned
<1>4. Host'
  <2>1. \A r \in resources' : Labelled(r)'
    BY DEF Host, Fewer, Labelled, CaseOwned, ProjectOwned
  <2>2. \A c \in creating : Labelled(c.resource)'
    BY DEF Host, Labelled, CaseOwned, ProjectOwned
  <2>3. \A c \in creating : c.resource.id \notin Identities(resources)' \cup protected'
    BY <1>2 DEF Host, Identities
  <2> QED
    BY <2>1, <2>2, <2>3 DEF Host
<1>5. ASSUME NEW b \in Attempts PROVE Kept(b)
  <2>1. \A c \in Pending(b) : c.lag <= c.lag
    BY LagOf, NobodyElse DEF Pending
  <2>2. Nothing(b) => Nothing(b)'
    BY <1>1, <1>3 DEF Nothing
  <2> QED
    BY <1>1, <2>1, <2>2 DEF Kept, Untouched, CaseIds
<1> QED
  BY <1>4, <1>5

\* A scan of one attempt leaves the requests of the others alone.
LEMMA HostScanned ==
  ASSUME Shapes, Host, NEW a \in Attempts, ScanTakesTime(a), UNCHANGED <<protected, mode>>
  PROVE  /\ Host' /\ creating' \subseteq Requests
         /\ \A b \in Attempts : Kept(b)
         /\ \A c \in Pending(a)' : \E d \in Pending(a) : d.lag > 0 /\ c.lag = d.lag - 1
<1> DEFINE Aged(c) == [c EXCEPT !.lag = @ - 1]
<1>1. /\ \A c \in Pending(a) : c.lag > 0
      /\ creating' = (creating \ Pending(a)) \cup {Aged(c) : c \in Pending(a)}
      /\ resources' = resources
  BY DEF ScanTakesTime
<1>2. ASSUME NEW c \in Pending(a)
      PROVE  /\ Aged(c) \in Requests /\ Aged(c).resource = c.resource
             /\ Aged(c).lag = c.lag - 1 /\ c.lag \in Nat /\ c.lag > 0
  <2>1. c \in Requests /\ c.lag > 0
    BY <1>1, <1>2 DEF Pending, Shapes
  <2> QED
    BY <2>1, NobodyElse DEF Requests
<1>3. creating' \subseteq Requests
  BY <1>1, <1>2 DEF Shapes
<1>4. \A c \in creating' : \/ c \in creating \ Pending(a)
                           \/ \E d \in Pending(a) : c = Aged(d)
  BY <1>1
<1> HIDE DEF Aged
<1>5. \A c \in creating' : \E d \in creating : /\ c.resource = d.resource
                                               /\ d \in Pending(a) => c = Aged(d)
                                               /\ d \notin Pending(a) => c = d
  BY <1>2, <1>4 DEF Pending
<1>6. ASSUME NEW b \in Attempts, NEW c \in Pending(b)'
      PROVE  \E d \in Pending(b) : /\ c.lag <= d.lag
                                   /\ d \in Pending(a) => d.lag > 0 /\ c.lag = d.lag - 1
  <2>1. PICK d \in creating : /\ c.resource = d.resource
                              /\ d \in Pending(a) => c = Aged(d)
                              /\ d \notin Pending(a) => c = d
    BY <1>5, <1>6 DEF Pending
  <2>2. d \in Pending(b)
    BY <1>6, <2>1 DEF Pending
  <2>3. CASE d \in Pending(a)
    BY <1>2, <2>1, <2>2, <2>3
  <2>4. CASE d \notin Pending(a)
    BY <2>1, <2>2, <2>4, LagOf, NobodyElse
  <2> QED
    BY <2>3, <2>4
<1>7. ASSUME NEW c \in Pending(a)' PROVE \E d \in Pending(a) : d.lag > 0 /\ c.lag = d.lag - 1
  BY <1>6, <1>7
<1>8. Host'
  <2>1. \A r \in resources : Labelled(r)' = Labelled(r)
    BY DEF Labelled, CaseOwned, ProjectOwned
  <2>2. \A c \in creating : Labelled(c.resource)' = Labelled(c.resource)
    BY DEF Labelled, CaseOwned, ProjectOwned
  <2>3. ASSUME NEW c \in creating'
        PROVE  /\ Labelled(c.resource)'
               /\ c.resource.id \notin Identities(resources)' \cup protected'
               /\ \A d \in creating' : d.resource.id = c.resource.id => d = c
    <3>1. PICK x \in creating : /\ c.resource = x.resource
                                /\ x \in Pending(a) => c = Aged(x)
                                /\ x \notin Pending(a) => c = x
      BY <1>5, <2>3
    <3>2. ASSUME NEW d \in creating', d.resource.id = c.resource.id PROVE d = c
      <4>1. PICK y \in creating : /\ d.resource = y.resource
                                  /\ y \in Pending(a) => d = Aged(y)
                                  /\ y \notin Pending(a) => d = y
        BY <1>5, <3>2
      <4>2. x = y
        BY <3>1, <3>2, <4>1 DEF Host
      <4> QED
        BY <3>1, <4>1, <4>2
    <3> QED
      BY <1>1, <2>2, <3>1, <3>2 DEF Host, Identities
  <2> QED
    BY <1>1, <2>1, <2>3 DEF Host
<1>9. ASSUME NEW b \in Attempts PROVE Kept(b)
  <2>1. Nothing(b) => Nothing(b)'
    BY <1>1, <1>6 DEF Nothing, OwnedByCase, CaseOwned, ProjectOwned
  <2>2. Untouched(b) => Untouched(b)'
    BY <2>1 DEF Untouched, CaseIds
  <2>3. \A c \in Pending(b)' : \E d \in Pending(b) : c.lag <= d.lag
    BY <1>6
  <2> QED
    BY <2>1, <2>2, <2>3 DEF Kept
<1> QED
  BY <1>3, <1>7, <1>8, <1>9

\* What an attempt creates is new to the host, and nothing of another attempt.
LEMMA WhatIsCreated ==
  ASSUME Shapes, NEW a \in Attempts, NEW r \in CreatedBy(a)
  PROVE  /\ r \in Resource(Ids) /\ r.id \in CaseIds(a) /\ Labelled(r)
         /\ r.token \in {a, Nobody} /\ r.project \in {a, Nobody}
         /\ \A q \in CreatedBy(a) : q.id = r.id => q = r
<1>1. r \in {ContainerOf(a), VolumeOf(a)} /\ (r = VolumeOf(a) => mode[a] = "docker-compose")
  BY DEF CreatedBy, ContainerOf, VolumeOf
<1>2. <<"container", a>> \in Ids /\ <<"volume", a>> \in Ids
  BY DEF Ids
<1>3. r \in Resource(Ids) /\ r.id \in CaseIds(a)
  <2>1. (mode[a] = "docker-run") \in BOOLEAN
    OBVIOUS
  <2> DEFINE ws == mode[a] = "docker-run"
             project == IF mode[a] = "docker-compose" THEN a ELSE Nobody
  <2>2. ContainerOf(a) = [id |-> <<"container", a>>, kind |-> "container", token |-> a,
                          project |-> project, ws |-> ws, idle |-> FALSE]
    BY DEF ContainerOf
  <2>3. project \in Attempts \cup {Nobody}
    OBVIOUS
  <2> HIDE DEF ws, project
  <2>4. ContainerOf(a) \in Resource(Ids)
    BY <1>2, <2>1, <2>2, <2>3 DEF Resource, Kinds, ws
  <2>5. VolumeOf(a) \in Resource(Ids)
    BY <1>2 DEF VolumeOf, Resource, Kinds
  <2>6. ContainerOf(a).id \in CaseIds(a) /\ VolumeOf(a).id \in CaseIds(a)
    BY DEF ContainerOf, VolumeOf, CaseIds
  <2> QED
    BY <1>1, <2>4, <2>5, <2>6
<1>4. r.token \in {a, Nobody} /\ r.project \in {a, Nobody}
  BY <1>1 DEF ContainerOf, VolumeOf
<1>5. Labelled(r)
  <2>1. \A b \in Attempts : r.id \in CaseIds(b) => b = a
    BY <1>1 DEF ContainerOf, VolumeOf, CaseIds
  <2>2. CaseOwned(r, a) \/ ProjectOwned(r, a)
    BY <1>1 DEF ContainerOf, VolumeOf, CaseOwned, ProjectOwned
  <2>3. r.kind \in {"container", "volume"}
    BY <1>1 DEF ContainerOf, VolumeOf
  <2> QED
    BY <2>1, <2>2, <2>3 DEF Labelled
<1>6. ASSUME NEW q \in CreatedBy(a), q.id = r.id PROVE q = r
  <2>1. q \in {ContainerOf(a), VolumeOf(a)}
    BY DEF CreatedBy, ContainerOf, VolumeOf
  <2>2. ContainerOf(a).id # VolumeOf(a).id
    BY DEF ContainerOf, VolumeOf
  <2> QED
    BY <1>1, <1>6, <2>1, <2>2
<1> QED
  BY <1>3, <1>4, <1>5, <1>6

LEMMA HostAsked ==
  ASSUME Shapes, Host, NEW a \in Attempts, Untouched(a),
         creating' = creating \cup {[resource |-> r, lag |-> MaxLag] : r \in CreatedBy(a)},
         UNCHANGED <<resources, protected, mode>>
  PROVE  /\ Host' /\ creating' \subseteq Requests
         /\ \A b \in Attempts \ {a} : Kept(b)
<1>1. \A c \in creating' : \/ c \in creating
                           \/ \E r \in CreatedBy(a) : c = [resource |-> r, lag |-> MaxLag]
  OBVIOUS
<1>2. ASSUME NEW r \in CreatedBy(a)
      PROVE  /\ r.id \notin Identities(resources) \cup protected
             /\ \A c \in creating : c.resource.id # r.id
  <2>1. r.id \in CaseIds(a)
    BY WhatIsCreated
  <2>2. \A q \in resources : q.id # r.id
    BY <2>1 DEF Host, Labelled, Untouched, Nothing, OwnedByCase
  <2>3. \A c \in creating : c.resource.id # r.id
    BY <2>1 DEF Host, Labelled, Untouched, Nothing, Pending, CaseOwned, ProjectOwned
  <2> QED
    BY <2>1, <2>2, <2>3 DEF Identities, Untouched
<1>3. creating' \subseteq Requests
  <2>1. ASSUME NEW r \in CreatedBy(a) PROVE [resource |-> r, lag |-> MaxLag] \in Requests
    BY WhatIsCreated, NobodyElse DEF Requests
  <2> QED
    BY <1>1, <2>1 DEF Shapes
<1>4. Host'
  <2>1. \A r \in resources : Labelled(r)' = Labelled(r)
    BY DEF Labelled, CaseOwned, ProjectOwned
  <2>2. \A c \in creating : Labelled(c.resource)' = Labelled(c.resource)
    BY DEF Labelled, CaseOwned, ProjectOwned
  <2>3. \A r \in CreatedBy(a) : Labelled(r)'
    <3>1. \A r \in CreatedBy(a) : Labelled(r)' = Labelled(r)
      BY DEF Labelled, CaseOwned, ProjectOwned
    <3> QED
      BY <3>1, WhatIsCreated
  <2>4. ASSUME NEW c \in creating'
        PROVE  /\ Labelled(c.resource)'
               /\ c.resource.id \notin Identities(resources) \cup protected
    <3>1. CASE c \in creating
      BY <2>2, <3>1 DEF Host
    <3>2. CASE \E r \in CreatedBy(a) : c = [resource |-> r, lag |-> MaxLag]
      BY <1>2, <2>3, <3>2
    <3> QED
      BY <1>1, <3>1, <3>2
  <2>5. ASSUME NEW c \in creating', NEW d \in creating', d.resource.id = c.resource.id
        PROVE  d = c
    <3>1. CASE c \in creating /\ d \in creating
      BY <2>5, <3>1 DEF Host
    <3>2. ASSUME NEW r \in CreatedBy(a), c = [resource |-> r, lag |-> MaxLag] PROVE d = c
      <4>1. PICK q \in CreatedBy(a) : d = [resource |-> q, lag |-> MaxLag]
        BY <1>1, <1>2, <2>5, <3>2
      <4> QED
        BY <2>5, <3>2, <4>1, WhatIsCreated
    <3>3. ASSUME NEW r \in CreatedBy(a), d = [resource |-> r, lag |-> MaxLag] PROVE d = c
      <4>1. PICK q \in CreatedBy(a) : c = [resource |-> q, lag |-> MaxLag]
        BY <1>1, <1>2, <2>5, <3>3
      <4> QED
        BY <2>5, <3>3, <4>1, WhatIsCreated
    <3> QED
      BY <1>1, <3>1, <3>2, <3>3
  <2> QED
    BY <2>1, <2>4, <2>5 DEF Host, Identities
<1>5. ASSUME NEW b \in Attempts \ {a} PROVE Kept(b)
  <2>1. \A c \in Pending(b)' : c \in Pending(b)
    <3>1. \A r \in CreatedBy(a) : r.token # b /\ r.project # b
      BY WhatIsCreated, NobodyElse
    <3> QED
      BY <1>1, <3>1 DEF Pending
  <2>2. \A c \in Pending(b) : c.lag <= c.lag
    BY LagOf, NobodyElse DEF Pending
  <2>3. OwnedByCase(b)' = OwnedByCase(b)
    BY DEF OwnedByCase, CaseOwned, ProjectOwned
  <2>4. Nothing(b) => Nothing(b)'
    BY <2>1, <2>3 DEF Nothing
  <2> QED
    BY <2>1, <2>2, <2>4 DEF Kept, Untouched, CaseIds
<1> QED
  BY <1>3, <1>4, <1>5

\* The daemon carries out what it was asked for.
LEMMA HostServes ==
  ASSUME Shapes, Host, NEW c \in creating, Materialize(c), UNCHANGED <<protected, mode>>
  PROVE  /\ Host' /\ creating' \subseteq Requests /\ resources' \subseteq Resource(Ids)
         /\ \A b \in Attempts : Kept(b)
         /\ c.resource.id \notin protected
<1>1. creating' = creating \ {c} /\ resources' = resources \cup {c.resource}
  BY DEF Materialize
<1>2. Labelled(c.resource) /\ c.resource.id \notin protected
  BY DEF Host
<1>3. creating' \subseteq Requests /\ resources' \subseteq Resource(Ids)
  BY <1>1, LagOf DEF Shapes
<1>4. Host'
  <2>1. \A r \in resources' : Labelled(r)' = Labelled(r)
    BY DEF Labelled, CaseOwned, ProjectOwned
  <2>2. \A d \in creating' : Labelled(d.resource)' = Labelled(d.resource)
    BY DEF Labelled, CaseOwned, ProjectOwned
  <2>3. \A d \in creating' : d.resource.id # c.resource.id
    BY <1>1 DEF Host
  <2>4. \A d \in creating' : d.resource.id \notin Identities(resources') \cup protected
    BY <1>1, <2>3 DEF Host, Identities
  <2> QED
    BY <1>1, <1>2, <2>1, <2>2, <2>4 DEF Host
<1>5. ASSUME NEW b \in Attempts PROVE Kept(b)
  <2>1. \A d \in Pending(b)' : d \in Pending(b)
    BY <1>1 DEF Pending
  <2>2. \A d \in Pending(b) : d.lag <= d.lag
    BY LagOf, NobodyElse DEF Pending
  <2>3. Nothing(b) => Nothing(b)'
    BY <1>1, <2>1 DEF Nothing, OwnedByCase, Pending, CaseOwned, ProjectOwned
  <2> QED
    BY <2>1, <2>2, <2>3 DEF Kept, Untouched, CaseIds
<1> QED
  BY <1>2, <1>3, <1>4, <1>5

-----------------------------------------------------------------------------
(* What a step does to the invariant *)

\* The wrapper's way into a cleanup, or around it.
LEMMA CleanupFits ==
  ASSUME NEW a \in Attempts, NEW s, Shape(s), s.helper \in {"none"} \cup Over,
         ~s.exists => s.helper = "none", s.helper = "none" => Untouched(a),
         s.verified => Nothing(a),
         NEW where \in {"publish", "aborted", "exit", "end"},
         s.recorded => where \in {"exit", "end"}
  PROVE  Shape(WithCleanup(s, where)) /\ Fits(WithCleanup(s, where), a)
<1>1. CASE ~s.exists
  <2> DEFINE t == [s EXCEPT !.verified = TRUE, !.pc = where]
  <2>1. /\ DOMAIN t = Fields /\ t.stable = s.stable /\ t.pc = where /\ t.verified /\ ~t.exists
        /\ t.helper = "none" /\ t.recorded = s.recorded
    BY <1>1 DEF Shape, Fields
  <2>2. t = WithCleanup(s, where)
    BY <1>1 DEF WithCleanup
  <2>3. Untouched(a) /\ Nothing(a)
    BY <1>1 DEF Untouched
  <2> HIDE DEF t
  <2>4. Shape(t) /\ HelperFits(t, a) /\ CleanFits(t, a) /\ Hiding(t, a) /\ RecordFits(t, a)
    BY <2>1, <2>3 DEF Shape, HelperFits, CleanFits, Hiding, RecordFits, Place, Cleaning, Before,
       AtHelper, Over, Leaving, Afterwards
  <2> QED
    BY <2>2, <2>4 DEF Fits
<1>2. CASE s.exists /\ s.verified
  <2> DEFINE t == [s EXCEPT !.pc = where]
  <2>1. /\ DOMAIN t = Fields /\ t.stable = s.stable /\ t.pc = where /\ t.verified /\ t.exists
        /\ t.helper = s.helper /\ t.recorded = s.recorded
    BY <1>2 DEF Shape, Fields
  <2>2. t = WithCleanup(s, where)
    BY <1>2 DEF WithCleanup
  <2> HIDE DEF t
  <2>4. Shape(t) /\ HelperFits(t, a) /\ CleanFits(t, a) /\ Hiding(t, a) /\ RecordFits(t, a)
    BY <1>2, <2>1 DEF Shape, HelperFits, CleanFits, Hiding, RecordFits, Place, Cleaning, Before,
       AtHelper, Over, Leaving, Afterwards
  <2> QED
    BY <2>2, <2>4 DEF Fits
<1>3. CASE s.exists /\ ~s.verified
  <2> DEFINE t == [s EXCEPT !.pc = "before", !.round = 1, !.stable = 0, !.failed = FALSE,
                            !.found = {}, !.after = where]
  <2>1. /\ DOMAIN t = Fields /\ t.stable = 0 /\ t.pc = "before" /\ t.verified = s.verified
        /\ t.exists = s.exists /\ t.after = where
        /\ t.helper = s.helper /\ t.recorded = s.recorded
    BY DEF Shape, Fields
  <2>2. t = WithCleanup(s, where)
    BY <1>3 DEF WithCleanup
  <2> HIDE DEF t
  <2>4. Shape(t) /\ HelperFits(t, a) /\ CleanFits(t, a) /\ Hiding(t, a) /\ RecordFits(t, a)
    BY <1>3, <2>1 DEF Shape, HelperFits, CleanFits, Hiding, RecordFits, Place, Cleaning, Before,
       AtHelper, Over, Leaving, Afterwards
  <2> QED
    BY <2>2, <2>4 DEF Fits
<1> QED
  BY <1>1, <1>2, <1>3

\* What the manager relies on stands as long as nothing listed appears that was not there.
LEMMA GuardsKept ==
  ASSUME Guards, UNCHANGED resourceVars,
         \A r \in resources' : r.id \in protected => \E q \in resources : q.id = r.id
  PROVE  Guards'
<1>1. ASSUME NEW d, Lists(d) PROVE Lists(d)'
  BY <1>1 DEF Lists, resourceVars
<1>2. Lists(baseline) => Lists(baseline)'
  <2>1. PICK d : d = baseline
    OBVIOUS
  <2> QED
    BY <1>1, <2>1 DEF Lists, resourceVars
<1>3. ASSUME NEW m \in Managers
      PROVE  InOrder(mgr[m])' = InOrder(mgr[m]) /\ (Spares(mgr[m]) => Spares(mgr[m])')
  <2>1. PICK p : p = mgr[m]
    OBVIOUS
  <2>2. InOrder(p)' = InOrder(p) /\ (Spares(p) => Spares(p)')
    BY <1>1 DEF InOrder, Spares, resourceVars
  <2> QED
    BY <2>1, <2>2 DEF InOrder, Spares, Lists, resourceVars
<1> QED
  BY <1>2, <1>3 DEF Guards, resourceVars

\* A step of one attempt that the others do not notice but by the host and the journal.
LEMMA StepOf ==
  ASSUME IInv, NEW a \in Attempts, NEW s, Shape(s), at' = [at EXCEPT ![a] = s],
         Fits(s, a)', \A b \in Attempts \ {a} : Kept(b), Grows, CompletedIsRecorded', Host',
         creating' \subseteq Requests, resources' \subseteq Resource(Ids),
         \A r \in resources' : r.id \in protected => \E q \in resources : q.id = r.id,
         UNCHANGED <<resourceVars, mode>>
  PROVE  IInv'
<1>1. Shapes'
  BY DEF IInv, Shapes, Grows, resourceVars
<1>2. Guards'
  BY GuardsKept DEF IInv
<1>3. ASSUME NEW b \in Attempts PROVE Fits(at[b], b)'
  <2>1. PICK t : t = at'[b]
    OBVIOUS
  <2>2. Fits(t, b)'
    <3>1. CASE b = a
      <4>1. t = s
        BY <2>1, <3>1 DEF IInv, Shapes
      <4> QED
        BY <3>1, <4>1
    <3>2. CASE b # a
      <4>1. t = at[b]
        BY <2>1, <3>2 DEF IInv, Shapes
      <4>2. Fits(t, b) /\ Shape(t)
        BY <4>1 DEF IInv, Attempted, Shapes
      <4> QED
        BY <1>1, <3>2, <4>2, FitsKept DEF IInv
    <3> QED
      BY <3>1, <3>2
  <2> QED
    BY <2>1, <2>2 DEF Fits, HelperFits, CleanFits, Hiding, RecordFits, Place
<1> QED
  BY <1>1, <1>2, <1>3 DEF IInv, Attempted

\* A step that leaves the host alone.
LEMMA QuietStep ==
  ASSUME IInv, NEW a \in Attempts, NEW s, Shape(s), at' = [at EXCEPT ![a] = s],
         Fits(s, a), Grows, CompletedIsRecorded', UNCHANGED <<daemonVars, resourceVars, mode>>
  PROVE  IInv'
<1>1. Host' /\ \A b \in Attempts : Kept(b)
  BY HostStays DEF IInv, resourceVars
<1>2. Shapes'
  BY DEF IInv, Shapes, Grows, resourceVars, daemonVars
<1>3. Fits(s, a)'
  BY <1>1, <1>2, FitsKept DEF IInv
<1> QED
  BY <1>1, <1>3, StepOf DEF IInv, daemonVars, Shapes

LEMMA JournalStays == ASSUME Shapes, UNCHANGED journal PROVE Grows
  BY LenProperties DEF Shapes, Grows

LEMMA JournalGrows ==
  ASSUME Shapes, NEW r \in Records, journal' = Append(journal, r)
  PROVE  /\ Grows /\ Len(journal') = Len(journal) + 1 /\ Len(journal') \in DOMAIN journal'
         /\ journal'[Len(journal')] = r
<1>1. journal \in Seq(Records) /\ Len(journal) \in Nat
  BY LenProperties DEF Shapes
<1>2. /\ journal' \in Seq(Records) /\ Len(journal') = Len(journal) + 1
      /\ \A i \in 1..Len(journal) : journal'[i] = journal[i]
      /\ journal'[Len(journal) + 1] = r
  BY <1>1, AppendProperties
<1>3. DOMAIN journal' = 1..Len(journal')
  BY <1>2, LenProperties
<1> QED
  BY <1>1, <1>2, <1>3 DEF Grows

LEMMA CompletedStays ==
  ASSUME Shapes, CompletedIsRecorded, Grows, result' = result \/ result'.wrapper # "completed"
  PROVE  CompletedIsRecorded'
<1>1. DOMAIN journal = 1..Len(journal) /\ DOMAIN journal' = 1..Len(journal')
  BY LenProperties DEF Shapes, Grows
<1>2. Len(journal) \in Nat /\ Len(journal') \in Nat
  BY LenProperties DEF Shapes, Grows
<1> QED
  BY <1>1, <1>2 DEF CompletedIsRecorded, Grows

\* The usual step: the attempt goes on, and at most writes a result that is not final.
LEMMA PlainStep ==
  ASSUME IInv, NEW a \in Attempts, NEW s, Shape(s), at' = [at EXCEPT ![a] = s], Fits(s, a),
         UNCHANGED <<daemonVars, resourceVars, mode, journal>>,
         result' = result \/ result'.wrapper # "completed"
  PROVE  IInv'
  BY QuietStep, JournalStays, CompletedStays DEF IInv

\* A step with an event: nothing but the revision and the place of its attempt changes with it.
LEMMA EventStep ==
  ASSUME IInv, NEW a \in Attempts, NEW s, Shape(s), at' = [at EXCEPT ![a] = s], Fits(s, a),
         NEW r \in Records, journal' = Append(journal, r),
         UNCHANGED <<daemonVars, resourceVars, mode, result>>
  PROVE  IInv'
  BY QuietStep, JournalGrows, CompletedStays DEF IInv

\* The wrapper cleans up from wherever it is when no helper is at work.
LEMMA CleanupStep ==
  ASSUME IInv, NEW a \in Attempts, NEW s, Shape(s), s.helper = at[a].helper,
         s.exists = at[a].exists, s.verified => at[a].verified, s.recorded = at[a].recorded,
         at[a].helper \in {"none"} \cup Over, at[a].pc \notin {"done", "killed"},
         NEW where \in {"publish", "aborted", "exit", "end"},
         at[a].recorded => where \in {"exit", "end"},
         at' = [at EXCEPT ![a] = WithCleanup(s, where)],
         UNCHANGED <<daemonVars, resourceVars, mode, journal, result>>
  PROVE  IInv'
<1>1. Fits(at[a], a)
  BY DEF IInv, Attempted
<1>2. ~s.exists => s.helper = "none"
  BY <1>1 DEF Fits, HelperFits
<1>3. s.helper = "none" => Untouched(a)
  BY <1>1 DEF Fits, HelperFits
<1>4. s.verified => Nothing(a)
  BY <1>1 DEF Fits, CleanFits
<1>5. Shape(WithCleanup(s, where)) /\ Fits(WithCleanup(s, where), a)
  BY <1>2, <1>3, <1>4, CleanupFits
<1> QED
  BY <1>5, PlainStep

\* A step that leaves the attempts where they are.
LEMMA HostStep ==
  ASSUME IInv, Shapes', Host', Guards', \A b \in Attempts : Kept(b), UNCHANGED at, Grows,
         CompletedIsRecorded'
  PROVE  IInv'
<1>1. ASSUME NEW b \in Attempts PROVE Fits(at[b], b)'
  <2>1. PICK t : t = at[b]
    OBVIOUS
  <2>2. Fits(t, b)'
    BY <2>1, FitsKept DEF IInv, Attempted, Shapes
  <2> QED
    BY <2>1, <2>2 DEF Fits, HelperFits, CleanFits, Hiding, RecordFits, Place
<1> QED
  BY <1>1 DEF IInv, Attempted

-----------------------------------------------------------------------------
(* The steps of an attempt *)

\* An attempt that stays out of the helper and out of a cleanup: only its place changes, or
\* what nothing depends on.
LEMMA MoveFits ==
  ASSUME NEW a \in Attempts, NEW s, Shape(s), Fits(s, a), NEW t, DOMAIN t = Fields,
         t.stable = s.stable, t.helper = s.helper, t.exists = s.exists, t.verified = s.verified,
         t.recorded = s.recorded, s.pc \notin AtHelper \cup Cleaning \cup {"done", "killed"},
         t.pc \notin Cleaning \cup {"done"},
         t.pc \in Before \cup AtHelper \cup {"killed"} => s.pc \in Before,
         t.pc \in {"event", "log", "final"} => ~s.recorded,
         t.pc = "event" => s.verified \/ t.status = "rejected_unsafe_sandbox",
         s.recorded => t.pc \in {"exit", "end"}
  PROVE  Shape(t) /\ Fits(t, a)
<1>1. Shape(t)
  BY DEF Shape
<1>2. HelperFits(t, a)
  BY DEF Fits, HelperFits, Before, AtHelper, Cleaning, Over
<1>3. CleanFits(t, a)
  BY DEF Fits, HelperFits, CleanFits, Before, AtHelper, Cleaning, Over
<1>4. Hiding(t, a)
  BY DEF Hiding, Cleaning
<1>5. RecordFits(t, a)
  BY DEF RecordFits, Place, Cleaning, Leaving
<1> QED
  BY <1>1, <1>2, <1>3, <1>4, <1>5 DEF Fits

\* What is known of an attempt that has recorded nothing yet.
LEMMA NotRecorded ==
  ASSUME NEW a \in Attempts, NEW s, Fits(s, a),
         s.pc \notin Cleaning \cup {"log", "final"} \cup Leaving
  PROVE  ~s.recorded
  BY DEF Fits, RecordFits, Place

LEMMA CallKeeps ==
  ASSUME IInv, NEW a \in Attempts, NEW p, Call(a, p), UNCHANGED resourceVars
  PROVE  IInv'
<1> DEFINE t == [at[a] EXCEPT !.pc = IF ValidPolicy(p) THEN "authority" ELSE "done"]
<1>1. Shape(at[a]) /\ Fits(at[a], a) /\ at[a].pc = "idle"
  BY DEF Call, IInv, Attempted, Shapes
<1>2. /\ DOMAIN t = Fields /\ t.stable = at[a].stable /\ t.pc \in {"authority", "done"}
      /\ t.verified = at[a].verified /\ t.exists = at[a].exists
      /\ t.helper = at[a].helper /\ t.recorded = at[a].recorded
  BY <1>1 DEF Shape, Fields
<1>3. at' = [at EXCEPT ![a] = t] /\ UNCHANGED <<daemonVars, resourceVars, mode, journal, result>>
  BY DEF Call, Goes, Moves
<1> HIDE DEF t
<1>4. at[a].helper = "none" /\ Nothing(a) /\ ~at[a].recorded /\ ~at[a].exists /\ ~at[a].verified
  BY <1>1, NotRecorded DEF Fits, HelperFits, Before, Untouched, Cleaning, Leaving
<1>5. Shape(t) /\ Fits(t, a)
  <2>1. HelperFits(t, a) /\ Shape(t)
    BY <1>1, <1>2, <1>4 DEF Shape, Fits, HelperFits, Before, AtHelper, Over
  <2>2. CleanFits(t, a) /\ Hiding(t, a) /\ RecordFits(t, a)
    BY <1>1, <1>2, <1>4 DEF CleanFits, Hiding, RecordFits, AtHelper, Cleaning
  <2> QED
    BY <2>1, <2>2 DEF Fits
<1> QED
  BY <1>3, <1>5, PlainStep

LEMMA ReadAuthorityKeeps ==
  ASSUME IInv, NEW a \in Attempts, ReadAuthority(a), UNCHANGED resourceVars
  PROVE  IInv'
<1>1. Shape(at[a]) /\ Fits(at[a], a) /\ at[a].pc = "authority" /\ ~at[a].recorded
  BY NotRecorded DEF ReadAuthority, IInv, Attempted, Shapes, Cleaning, Leaving
<1>2. /\ UNCHANGED <<daemonVars, resourceVars, mode, journal>>
      /\ \/ /\ at' = [at EXCEPT ![a] = [at[a] EXCEPT !.pc = "docker", !.rev = Len(journal),
                                                     !.from = Status(journal)]]
            /\ result' = result
         \/ /\ at' = [at EXCEPT ![a] = [at[a] EXCEPT !.pc = "exit"]]
            /\ result' = Document(a, "blocked_state_precondition", "none")
  BY DEF ReadAuthority, Goes, Moves
<1>3. CASE /\ at' = [at EXCEPT ![a] = [at[a] EXCEPT !.pc = "docker", !.rev = Len(journal),
                                                    !.from = Status(journal)]]
           /\ result' = result
  <2> DEFINE t == [at[a] EXCEPT !.pc = "docker", !.rev = Len(journal), !.from = Status(journal)]
  <2>1. /\ DOMAIN t = Fields /\ t.stable = at[a].stable /\ t.pc = "docker"
        /\ t.verified = at[a].verified /\ t.exists = at[a].exists
        /\ t.helper = at[a].helper /\ t.recorded = at[a].recorded
    BY <1>1 DEF Shape, Fields
  <2>2. at' = [at EXCEPT ![a] = t]
    BY <1>3
  <2> HIDE DEF t
  <2>3. Shape(t) /\ Fits(t, a)
    BY <1>1, <2>1, MoveFits DEF Before, AtHelper, Cleaning
  <2> QED
    BY <1>2, <1>3, <2>2, <2>3, PlainStep
<1>4. CASE /\ at' = [at EXCEPT ![a] = [at[a] EXCEPT !.pc = "exit"]]
           /\ result' = Document(a, "blocked_state_precondition", "none")
  <2> DEFINE t == [at[a] EXCEPT !.pc = "exit"]
  <2>1. /\ DOMAIN t = Fields /\ t.stable = at[a].stable /\ t.pc = "exit"
        /\ t.verified = at[a].verified /\ t.exists = at[a].exists
        /\ t.helper = at[a].helper /\ t.recorded = at[a].recorded
    BY <1>1 DEF Shape, Fields
  <2>2. at' = [at EXCEPT ![a] = t] /\ result'.wrapper # "completed"
    BY <1>4 DEF Document
  <2> HIDE DEF t
  <2>3. Shape(t) /\ Fits(t, a)
    BY <1>1, <2>1, MoveFits DEF Before, AtHelper, Cleaning
  <2> QED
    BY <1>2, <2>2, <2>3, PlainStep
<1> QED
  BY <1>2, <1>3, <1>4

LEMMA GoesKeeps ==
  ASSUME IInv, NEW a \in Attempts, NEW where, Goes(a, where),
         at[a].pc \notin AtHelper \cup Cleaning \cup {"done", "killed"},
         where \notin AtHelper \cup Cleaning \cup {"event", "log", "final", "done", "killed"},
         where \in Before => at[a].pc \in Before,
         at[a].recorded => where \in {"exit", "end"},
         UNCHANGED <<daemonVars, resourceVars, mode, journal>>,
         result' = result \/ result'.wrapper # "completed"
  PROVE  IInv'
<1> DEFINE t == [at[a] EXCEPT !.pc = where]
<1>1. Shape(at[a]) /\ Fits(at[a], a)
  BY DEF IInv, Attempted, Shapes
<1>2. /\ DOMAIN t = Fields /\ t.stable = at[a].stable /\ t.pc = where
      /\ t.verified = at[a].verified /\ t.exists = at[a].exists
      /\ t.helper = at[a].helper /\ t.recorded = at[a].recorded
  BY <1>1 DEF Shape, Fields
<1>3. at' = [at EXCEPT ![a] = t]
  BY DEF Goes, Moves
<1> HIDE DEF t
<1>4. Shape(t) /\ Fits(t, a)
  BY <1>1, <1>2, MoveFits
<1> QED
  BY <1>3, <1>4, PlainStep

LEMMA CheckDockerKeeps ==
  ASSUME IInv, NEW a \in Attempts, NEW c, CheckDocker(a, c), UNCHANGED resourceVars
  PROVE  IInv'
<1>1. Shape(at[a]) /\ Fits(at[a], a) /\ at[a].pc = "docker" /\ ~at[a].recorded
  BY NotRecorded DEF CheckDocker, IInv, Attempted, Shapes, Cleaning, Leaving
<1>2. UNCHANGED <<daemonVars, resourceVars, mode, journal, result>>
  BY DEF CheckDocker
<1>3. \/ Goes(a, "resume")
      \/ \E s : Moves(a, WithCleanup([at[a] EXCEPT !.status = s], "publish"))
  BY DEF CheckDocker
<1>4. ASSUME NEW s, Moves(a, WithCleanup([at[a] EXCEPT !.status = s], "publish")) PROVE IInv'
  <2> DEFINE t == [at[a] EXCEPT !.status = s]
  <2>1. /\ Shape(t) /\ t.verified = at[a].verified /\ t.exists = at[a].exists
        /\ t.helper = at[a].helper /\ t.recorded = at[a].recorded
    BY <1>1 DEF Shape, Fields
  <2>2. at' = [at EXCEPT ![a] = WithCleanup(t, "publish")]
    BY <1>4 DEF Moves
  <2>3. at[a].helper = "none"
    BY <1>1 DEF Fits, HelperFits, Before
  <2> HIDE DEF t
  <2> QED
    BY <1>1, <1>2, <2>1, <2>2, <2>3, CleanupStep
<1>5. ASSUME Goes(a, "resume") PROVE IInv'
  BY <1>1, <1>2, <1>5, GoesKeeps DEF Before, AtHelper, Cleaning
<1> QED
  BY <1>3, <1>4, <1>5

LEMMA EventIsRecord ==
  ASSUME NEW a \in Attempts \cup {Nobody}, NEW s \in Statuses, NEW e \in Events
  PROVE  Event(e, a, s) \in Records
  BY DEF Event, Records

LEMMA BlockedKeeps ==
  ASSUME IInv, NEW a \in Attempts, NEW from, at[a].pc \in {"resume", "start"},
         BlockedBeforeExecution(a, from),
         UNCHANGED <<daemonVars, resourceVars, mode>>
  PROVE  IInv'
<1>1. Goes(a, "exit") /\ journal' = journal /\ result'.wrapper # "completed"
  BY DEF BlockedBeforeExecution, CommitFails, Document
<1> QED
  BY <1>1, GoesKeeps DEF Before, AtHelper, Cleaning

LEMMA ResumeKeeps ==
  ASSUME IInv, NEW a \in Attempts, Resume(a), UNCHANGED resourceVars
  PROVE  IInv'
<1>1. Shape(at[a]) /\ Fits(at[a], a) /\ at[a].pc = "resume" /\ ~at[a].recorded
  BY NotRecorded DEF Resume, IInv, Attempted, Shapes, Cleaning, Leaving
<1>2. UNCHANGED <<daemonVars, resourceVars, mode>>
  BY DEF Resume
<1>3. \/ Goes(a, "verify") /\ UNCHANGED <<journal, result>>
      \/ /\ journal' = Append(journal, Event("resumed", a, "running"))
         /\ Moves(a, [at[a] EXCEPT !.pc = "verify", !.rev = @ + 1]) /\ UNCHANGED result
      \/ BlockedBeforeExecution(a, "blocked")
  BY DEF Resume, Commits
<1>4. ASSUME Goes(a, "verify"), UNCHANGED <<journal, result>> PROVE IInv'
  BY <1>1, <1>2, <1>4, GoesKeeps DEF Before, AtHelper, Cleaning
<1>5. ASSUME journal' = Append(journal, Event("resumed", a, "running")),
             Moves(a, [at[a] EXCEPT !.pc = "verify", !.rev = @ + 1]), UNCHANGED result
      PROVE  IInv'
  <2> DEFINE t == [at[a] EXCEPT !.pc = "verify", !.rev = @ + 1]
  <2>1. /\ DOMAIN t = Fields /\ t.stable = at[a].stable /\ t.pc = "verify"
        /\ t.verified = at[a].verified /\ t.exists = at[a].exists
        /\ t.helper = at[a].helper /\ t.recorded = at[a].recorded
    BY <1>1 DEF Shape, Fields
  <2>2. at' = [at EXCEPT ![a] = t]
    BY <1>5 DEF Moves
  <2> HIDE DEF t
  <2>3. Shape(t) /\ Fits(t, a)
    BY <1>1, <2>1, MoveFits DEF Before, AtHelper, Cleaning
  <2>4. Event("resumed", a, "running") \in Records
    BY EventIsRecord DEF Statuses, Events
  <2> QED
    BY <1>2, <1>5, <2>2, <2>3, <2>4, EventStep
<1>6. ASSUME BlockedBeforeExecution(a, "blocked") PROVE IInv'
  BY <1>1, <1>2, <1>6, BlockedKeeps
<1> QED
  BY <1>3, <1>4, <1>5, <1>6

LEMMA VerifyPinnedKeeps ==
  ASSUME IInv, NEW a \in Attempts, VerifyPinned(a), UNCHANGED resourceVars
  PROVE  IInv'
<1>1. Fits(at[a], a) /\ at[a].pc = "verify" /\ ~at[a].recorded /\ Goes(a, "start")
  BY NotRecorded DEF VerifyPinned, IInv, Attempted, Shapes, Cleaning, Leaving
<1> QED
  BY <1>1, GoesKeeps DEF VerifyPinned, Before, AtHelper, Cleaning

\* From its start on an attempt answers for its container, which nobody has asked for yet.
LEMMA StartKeeps ==
  ASSUME IInv, NEW a \in Attempts, Start(a), UNCHANGED resourceVars
  PROVE  IInv'
<1>1. Shape(at[a]) /\ Fits(at[a], a) /\ at[a].pc = "start" /\ ~at[a].recorded
  BY NotRecorded DEF Start, IInv, Attempted, Shapes, Cleaning, Leaving
<1>2. UNCHANGED <<daemonVars, resourceVars, mode>>
  BY DEF Start
<1>3. ASSUME journal' = Append(journal, Event("started", a, "running")),
             Moves(a, [at[a] EXCEPT !.pc = "launching", !.rev = @ + 1, !.exists = TRUE,
                                    !.helper = "early"]),
             UNCHANGED result
      PROVE  IInv'
  <2> DEFINE t == [at[a] EXCEPT !.pc = "launching", !.rev = @ + 1, !.exists = TRUE,
                                !.helper = "early"]
  <2>1. /\ DOMAIN t = Fields /\ t.stable = at[a].stable /\ t.pc = "launching"
        /\ t.verified = at[a].verified /\ t.exists /\ t.helper = "early"
        /\ t.recorded = at[a].recorded
    BY <1>1 DEF Shape, Fields
  <2>2. at' = [at EXCEPT ![a] = t]
    BY <1>3 DEF Moves
  <2> HIDE DEF t
  <2>3. Untouched(a) /\ ~t.verified /\ ~t.recorded
    BY <1>1, <2>1 DEF Fits, HelperFits, Before
  <2>4. Shape(t) /\ Fits(t, a)
    BY <1>1, <2>1, <2>3 DEF Shape, Fits, HelperFits, CleanFits, Hiding, RecordFits, Before,
       AtHelper, Cleaning
  <2>5. Event("started", a, "running") \in Records
    BY EventIsRecord DEF Statuses, Events
  <2> QED
    BY <1>2, <1>3, <2>2, <2>4, <2>5, EventStep
<1>4. ASSUME BlockedBeforeExecution(a, "running") PROVE IInv'
  BY <1>1, <1>2, <1>4, BlockedKeeps
<1> QED
  BY <1>3, <1>4 DEF Start, Commits

\* A signal may end the helper, it never starts one.
LEMMA HelperAfterSignal ==
  ASSUME NEW h, NEW s
  PROVE  HelperAfter(h, s) = h \/ (h \in {"early", "writing"} /\ HelperAfter(h, s) = "died")
           \/ (h = "running" /\ HelperAfter(h, s) = "failed")
  BY DEF HelperAfter

\* What the wrapper, which is with its helper, does not wait for and what its helper does.
LEMMA WithHelper ==
  ASSUME NEW a \in Attempts, NEW s, Shape(s), Fits(s, a), s.pc \in AtHelper \cup {"killed"},
         NEW t, DOMAIN t = Fields, t.stable = s.stable, t.exists = s.exists,
         t.verified = s.verified, t.recorded = s.recorded,
         \/ t.pc \in AtHelper /\ s.pc \in AtHelper
         \/ t.pc = s.pc
         \/ t.pc = "read" /\ t.helper \in Over /\ s.pc \in AtHelper,
         t.helper = s.helper \/ (s.helper # "none" /\ t.helper \in {"writing"} \cup Over)
  PROVE  Shape(t) /\ Fits(t, a)
<1>1. Shape(t)
  BY DEF Shape
<1>2. HelperFits(t, a)
  BY DEF Fits, HelperFits, Before, AtHelper, Over
<1>3. CleanFits(t, a) /\ Hiding(t, a)
  BY DEF Fits, CleanFits, Hiding, AtHelper, Cleaning
<1>4. RecordFits(t, a)
  BY NotRecorded DEF RecordFits, AtHelper, Cleaning, Leaving
<1> QED
  BY <1>1, <1>2, <1>3, <1>4 DEF Fits

LEMMA LaunchedKeeps ==
  ASSUME IInv, NEW a \in Attempts, Launched(a), UNCHANGED resourceVars
  PROVE  IInv'
<1>1. Shape(at[a]) /\ Fits(at[a], a) /\ at[a].pc = "launching"
  BY DEF Launched, IInv, Attempted, Shapes
<1>2. UNCHANGED <<daemonVars, resourceVars, mode, journal, result>>
  BY DEF Launched
<1>3. ASSUME Goes(a, "waiting") PROVE IInv'
  <2> DEFINE t == [at[a] EXCEPT !.pc = "waiting"]
  <2>1. /\ DOMAIN t = Fields /\ t.stable = at[a].stable /\ t.pc = "waiting"
        /\ t.verified = at[a].verified /\ t.exists = at[a].exists
        /\ t.helper = at[a].helper /\ t.recorded = at[a].recorded
    BY <1>1 DEF Shape, Fields
  <2>2. at' = [at EXCEPT ![a] = t]
    BY <1>3 DEF Goes, Moves
  <2> HIDE DEF t
  <2>3. Shape(t) /\ Fits(t, a)
    BY <1>1, <2>1, WithHelper DEF AtHelper
  <2> QED
    BY <1>2, <2>2, <2>3, PlainStep
<1>4. ASSUME Moves(a, [at[a] EXCEPT !.pc = "waiting", !.signal = "none",
                                    !.helper = HelperAfter(@, at[a].signal)])
      PROVE  IInv'
  <2> DEFINE t == [at[a] EXCEPT !.pc = "waiting", !.signal = "none",
                                !.helper = HelperAfter(@, at[a].signal)]
  <2>1. /\ DOMAIN t = Fields /\ t.stable = at[a].stable /\ t.pc = "waiting"
        /\ t.verified = at[a].verified /\ t.exists = at[a].exists
        /\ t.helper = HelperAfter(at[a].helper, at[a].signal) /\ t.recorded = at[a].recorded
    BY <1>1 DEF Shape, Fields
  <2>2. at' = [at EXCEPT ![a] = t]
    BY <1>4 DEF Moves
  <2> HIDE DEF t
  <2>3. t.helper = at[a].helper \/ (at[a].helper # "none" /\ t.helper \in Over)
    BY <2>1, HelperAfterSignal DEF Over
  <2>4. Shape(t) /\ Fits(t, a)
    BY <1>1, <2>1, <2>3, WithHelper DEF AtHelper
  <2> QED
    BY <1>2, <2>2, <2>4, PlainStep
<1> QED
  BY <1>3, <1>4 DEF Launched

LEMMA WaitedKeeps ==
  ASSUME IInv, NEW a \in Attempts, Waited(a), UNCHANGED resourceVars
  PROVE  IInv'
<1> DEFINE t == [at[a] EXCEPT !.pc = "read"]
<1>1. Shape(at[a]) /\ Fits(at[a], a) /\ at[a].pc = "waiting" /\ at[a].helper \in Over
  BY DEF Waited, IInv, Attempted, Shapes, Over
<1>2. UNCHANGED <<daemonVars, resourceVars, mode, journal, result>> /\ at' = [at EXCEPT ![a] = t]
  BY DEF Waited, Goes, Moves
<1>3. /\ DOMAIN t = Fields /\ t.stable = at[a].stable /\ t.pc = "read"
      /\ t.verified = at[a].verified /\ t.exists = at[a].exists
      /\ t.helper = at[a].helper /\ t.recorded = at[a].recorded
  BY <1>1 DEF Shape, Fields
<1> HIDE DEF t
<1>4. Shape(t) /\ Fits(t, a)
  BY <1>1, <1>3, WithHelper DEF AtHelper
<1> QED
  BY <1>2, <1>4, PlainStep

\* No helper is at work where the wrapper reads or reports, so it may clean up there.
LEMMA NoHelperAt ==
  ASSUME NEW a \in Attempts, NEW s, Fits(s, a), s.pc \notin AtHelper \cup {"killed"}
  PROVE  s.helper \in {"none"} \cup Over
  BY DEF Fits, HelperFits

LEMMA ReadResponseKeeps ==
  ASSUME IInv, NEW a \in Attempts, ReadResponse(a), UNCHANGED resourceVars
  PROVE  IInv'
<1>1. Shape(at[a]) /\ Fits(at[a], a) /\ at[a].pc = "read" /\ ~at[a].recorded
  BY NotRecorded DEF ReadResponse, IInv, Attempted, Shapes, Cleaning, Leaving
<1>2. UNCHANGED <<daemonVars, resourceVars, mode, journal, result>>
  BY DEF ReadResponse
<1> DEFINE s == StatusOf(at[a].helper, response)
           u == s = "rejected_unsafe_sandbox"
<1>3. Moves(a, WithCleanup([at[a] EXCEPT !.status = s, !.unsafe = u], "publish"))
  BY DEF ReadResponse
<1> HIDE DEF s, u
<1> DEFINE t == [at[a] EXCEPT !.status = s, !.unsafe = u]
<1>4. /\ Shape(t) /\ t.verified = at[a].verified /\ t.exists = at[a].exists
      /\ t.helper = at[a].helper /\ t.recorded = at[a].recorded
  BY <1>1 DEF Shape, Fields
<1>5. at' = [at EXCEPT ![a] = WithCleanup(t, "publish")]
  BY <1>3 DEF Moves
<1> HIDE DEF t
<1>6. at[a].helper \in {"none"} \cup Over
  BY <1>1, NoHelperAt DEF AtHelper
<1> QED
  BY <1>1, <1>2, <1>4, <1>5, <1>6, CleanupStep

LEMMA LeavesKeeps ==
  ASSUME IInv, NEW a \in Attempts, at[a].pc \notin AtHelper \cup {"done", "killed"},
         NEW where \in {"aborted", "exit", "end"}, at[a].recorded => where \in {"exit", "end"},
         Moves(a, WithCleanup(at[a], where)),
         UNCHANGED <<daemonVars, resourceVars, mode, journal, result>>
  PROVE  IInv'
<1>1. Shape(at[a]) /\ Fits(at[a], a)
  BY DEF IInv, Attempted, Shapes
<1>2. at' = [at EXCEPT ![a] = WithCleanup(at[a], where)]
  BY DEF Moves
<1>3. at[a].helper \in {"none"} \cup Over
  BY <1>1, NoHelperAt
<1> QED
  BY <1>1, <1>2, <1>3, CleanupStep

LEMMA AbortOnDriftKeeps ==
  ASSUME IInv, NEW a \in Attempts, AbortOnDrift(a), UNCHANGED resourceVars
  PROVE  IInv'
<1>1. Fits(at[a], a) /\ at[a].pc \in {"docker", "verify", "read"}
  BY DEF AbortOnDrift, IInv, Attempted
<1>2. ~at[a].recorded
  BY <1>1, NotRecorded DEF Cleaning, Leaving
<1> QED
  BY <1>1, <1>2, LeavesKeeps DEF AbortOnDrift, AtHelper

LEMMA AbortedKeeps ==
  ASSUME IInv, NEW a \in Attempts, Aborted(a), UNCHANGED resourceVars
  PROVE  IInv'
<1>1. Shape(at[a]) /\ Fits(at[a], a) /\ at[a].pc = "aborted" /\ ~at[a].recorded
  BY NotRecorded DEF Aborted, IInv, Attempted, Shapes, Cleaning, Leaving
<1>2. UNCHANGED <<daemonVars, resourceVars, mode, journal, result>>
  BY DEF Aborted
<1>3. CASE Goes(a, "exit")
  BY <1>1, <1>2, <1>3, GoesKeeps DEF Before, AtHelper, Cleaning
<1>4. CASE Moves(a, WithCleanup([at[a] EXCEPT !.status = "rejected_unsafe_sandbox"], "publish"))
  <2> DEFINE t == [at[a] EXCEPT !.status = "rejected_unsafe_sandbox"]
  <2>1. /\ Shape(t) /\ t.verified = at[a].verified /\ t.exists = at[a].exists
        /\ t.helper = at[a].helper /\ t.recorded = at[a].recorded
    BY <1>1 DEF Shape, Fields
  <2>2. at' = [at EXCEPT ![a] = WithCleanup(t, "publish")]
    BY <1>4 DEF Moves
  <2> HIDE DEF t
  <2>3. at[a].helper \in {"none"} \cup Over
    BY <1>1, NoHelperAt DEF AtHelper
  <2> QED
    BY <1>1, <1>2, <2>1, <2>2, <2>3, CleanupStep
<1> QED
  BY <1>3, <1>4 DEF Aborted

\* The handler, once the helper that the signal was passed on to, or the cleanup, has ended.
LEMMA SignalHandledKeeps ==
  ASSUME IInv, NEW a \in Attempts, SignalHandled(a), UNCHANGED resourceVars
  PROVE  IInv'
<1>1. Shape(at[a]) /\ Fits(at[a], a)
  BY DEF IInv, Attempted, Shapes
<1>2. UNCHANGED <<daemonVars, resourceVars, mode, journal, result>>
  BY DEF SignalHandled
<1>3. ASSUME at[a].pc = "signalled", at[a].helper \in {"over", "failed", "died"},
             Moves(a, WithCleanup(at[a], "exit"))
      PROVE  IInv'
  <2>1. at' = [at EXCEPT ![a] = WithCleanup(at[a], "exit")] /\ at[a].helper \in Over
    BY <1>3 DEF Moves, Over
  <2> QED
    BY <1>1, <1>2, <1>3, <2>1, CleanupStep
<1>4. ASSUME at[a].pc = "handler",
             Moves(a, WithCleanup([at[a] EXCEPT !.verified = FALSE], "exit"))
      PROVE  IInv'
  <2> DEFINE s == [at[a] EXCEPT !.verified = FALSE]
  <2>1. /\ Shape(s) /\ ~s.verified /\ s.exists = at[a].exists
        /\ s.helper = at[a].helper /\ s.recorded = at[a].recorded
    BY <1>1 DEF Shape, Fields
  <2>2. at' = [at EXCEPT ![a] = WithCleanup(s, "exit")]
    BY <1>4 DEF Moves
  <2> HIDE DEF s
  <2>3. at[a].helper \in {"none"} \cup Over
    BY <1>1, <1>4, NoHelperAt DEF AtHelper
  <2> QED
    BY <1>1, <1>2, <1>4, <2>1, <2>2, <2>3, CleanupStep
<1> QED
  BY <1>3, <1>4 DEF SignalHandled

\* A wrapper that dies leaves the helper to itself.
LEMMA DeadKeeps ==
  ASSUME IInv, NEW a \in Attempts, Moves(a, Dead(at[a])),
         UNCHANGED <<daemonVars, resourceVars, mode, journal, result>>
  PROVE  IInv'
<1> DEFINE t == Dead(at[a])
<1>1. Shape(at[a]) /\ Fits(at[a], a)
  BY DEF IInv, Attempted, Shapes
<1>2. at' = [at EXCEPT ![a] = t]
  BY DEF Moves
<1>3. /\ DOMAIN t = Fields /\ t.stable = 0 /\ t.pc = "killed" /\ ~t.verified
      /\ t.helper = at[a].helper /\ ~t.recorded
  BY DEF Dead, Fresh, Fields
<1> HIDE DEF t
<1>4. Shape(t) /\ HelperFits(t, a)
  BY <1>1, <1>3 DEF Shape, Fits, HelperFits, Before
<1>5. CleanFits(t, a) /\ Hiding(t, a) /\ RecordFits(t, a)
  BY <1>3 DEF CleanFits, Hiding, RecordFits, Cleaning
<1> QED
  BY <1>2, <1>4, <1>5, PlainStep DEF Fits

LEMMA KillKeeps ==
  ASSUME IInv, NEW a \in Attempts, Kill(a), UNCHANGED resourceVars
  PROVE  IInv'
  BY DeadKeeps DEF Kill

LEMMA SignalKeeps ==
  ASSUME IInv, NEW a \in Attempts, NEW s, Signal(a, s), UNCHANGED resourceVars
  PROVE  IInv'
<1>1. Shape(at[a]) /\ Fits(at[a], a)
  BY DEF IInv, Attempted, Shapes
<1>2. UNCHANGED <<daemonVars, resourceVars, mode, journal, result>>
  BY DEF Signal
<1>3. ASSUME at[a].pc = "launching", Moves(a, [at[a] EXCEPT !.signal = s]) PROVE IInv'
  <2> DEFINE t == [at[a] EXCEPT !.signal = s]
  <2>1. /\ DOMAIN t = Fields /\ t.stable = at[a].stable /\ t.pc = at[a].pc
        /\ t.verified = at[a].verified /\ t.exists = at[a].exists
        /\ t.helper = at[a].helper /\ t.recorded = at[a].recorded
    BY <1>1 DEF Shape, Fields
  <2>2. at' = [at EXCEPT ![a] = t]
    BY <1>3 DEF Moves
  <2> HIDE DEF t
  <2>3. Shape(t) /\ Fits(t, a)
    BY <1>1, <1>3, <2>1, WithHelper DEF AtHelper
  <2> QED
    BY <1>2, <2>2, <2>3, PlainStep
<1>4. ASSUME at[a].pc \in {"waiting", "signalled"},
             Moves(a, [at[a] EXCEPT !.pc = "signalled", !.helper = HelperAfter(@, s)])
      PROVE  IInv'
  <2> DEFINE t == [at[a] EXCEPT !.pc = "signalled", !.helper = HelperAfter(@, s)]
  <2>1. /\ DOMAIN t = Fields /\ t.stable = at[a].stable /\ t.pc = "signalled"
        /\ t.verified = at[a].verified /\ t.exists = at[a].exists
        /\ t.helper = HelperAfter(at[a].helper, s) /\ t.recorded = at[a].recorded
    BY <1>1 DEF Shape, Fields
  <2>2. at' = [at EXCEPT ![a] = t]
    BY <1>4 DEF Moves
  <2> HIDE DEF t
  <2>3. t.helper = at[a].helper \/ (at[a].helper # "none" /\ t.helper \in Over)
    BY <2>1, HelperAfterSignal DEF Over
  <2>4. Shape(t) /\ Fits(t, a)
    BY <1>1, <1>4, <2>1, <2>3, WithHelper DEF AtHelper
  <2> QED
    BY <1>2, <2>2, <2>4, PlainStep
<1>5. ASSUME at[a].pc \in {"authority", "docker", "resume", "verify", "start", "read", "aborted",
                           "publish", "event", "log", "final", "exit"},
             Moves(a, WithCleanup(at[a], "exit"))
      PROVE  IInv'
  BY <1>2, <1>5, LeavesKeeps DEF AtHelper
<1>6. ASSUME CleansUp(at[a]), Moves(a, [at[a] EXCEPT !.after = "handler"]) PROVE IInv'
  <2> DEFINE t == [at[a] EXCEPT !.after = "handler"]
  <2>1. /\ DOMAIN t = Fields /\ t.stable = at[a].stable /\ t.pc = at[a].pc
        /\ t.verified = at[a].verified /\ t.exists = at[a].exists /\ t.after = "handler"
        /\ t.helper = at[a].helper /\ t.recorded = at[a].recorded
    BY <1>1 DEF Shape, Fields
  <2>2. at' = [at EXCEPT ![a] = t]
    BY <1>6 DEF Moves
  <2> HIDE DEF t
  <2>3. Shape(t) /\ HelperFits(t, a) /\ Hiding(t, a)
    BY <1>1, <2>1 DEF Shape, Fits, HelperFits, Hiding
  <2>4. CleanFits(t, a) /\ RecordFits(t, a)
    BY <1>1, <1>6, <2>1 DEF Fits, CleanFits, RecordFits, Place, CleansUp, Cleaning, Leaving,
       Afterwards
  <2> QED
    BY <1>2, <2>2, <2>3, <2>4, PlainStep DEF Fits
<1>7. ASSUME CleansUp(at[a]), Goes(a, "handler") PROVE IInv'
  <2> DEFINE t == [at[a] EXCEPT !.pc = "handler"]
  <2>1. /\ DOMAIN t = Fields /\ t.stable = at[a].stable /\ t.pc = "handler"
        /\ t.verified = at[a].verified /\ t.exists = at[a].exists
        /\ t.helper = at[a].helper /\ t.recorded = at[a].recorded
    BY <1>1 DEF Shape, Fields
  <2>2. at' = [at EXCEPT ![a] = t]
    BY <1>7 DEF Goes, Moves
  <2> HIDE DEF t
  <2>3. Shape(t) /\ HelperFits(t, a)
    BY <1>1, <1>7, <2>1 DEF Shape, Fits, HelperFits, CleanFits, CleansUp, Cleaning, Before, AtHelper
  <2>4. CleanFits(t, a) /\ Hiding(t, a) /\ RecordFits(t, a)
    BY <1>1, <1>7, <2>1 DEF Fits, CleanFits, Hiding, RecordFits, Place, CleansUp, Cleaning, Leaving,
       AtHelper
  <2> QED
    BY <1>2, <2>2, <2>3, <2>4, PlainStep DEF Fits
<1>8. ASSUME Moves(a, Dead(at[a])) PROVE IInv'
  BY <1>2, <1>8, DeadKeeps
<1> QED
  BY <1>3, <1>4, <1>5, <1>6, <1>7, <1>8 DEF Signal

\* What happens to the files of a case only.
LEMMA NothingMoves ==
  ASSUME IInv, UNCHANGED <<daemonVars, resourceVars, mode, at, journal, result>>
  PROVE  IInv'
<1>1. Host' /\ \A b \in Attempts : Kept(b)
  BY HostStays DEF IInv, resourceVars
<1>2. Shapes' /\ Grows
  BY JournalStays DEF IInv, Shapes, resourceVars, daemonVars
<1>3. CompletedIsRecorded'
  BY <1>2, CompletedStays DEF IInv
<1>4. Guards'
  BY GuardsKept DEF IInv, daemonVars
<1> QED
  BY <1>1, <1>2, <1>3, <1>4, HostStep

LEMMA DriftKeeps ==
  ASSUME IInv, NEW a \in Attempts, NEW what, Drift(a, what), UNCHANGED resourceVars
  PROVE  IInv'
  BY NothingMoves DEF Drift

LEMMA PublishKeeps ==
  ASSUME IInv, NEW a \in Attempts, Publish(a), UNCHANGED resourceVars
  PROVE  IInv'
<1>1. Shape(at[a]) /\ Fits(at[a], a) /\ at[a].pc = "publish" /\ ~at[a].recorded
  BY NotRecorded DEF Publish, IInv, Attempted, Shapes, Cleaning, Leaving
<1> DEFINE r == at[a].reported \/ ~at[a].verified
           t(where) == [at[a] EXCEPT !.status = StatusAfter(a), !.reported = r, !.pc = where]
<1>2. \E where \in {"exit", "event"} : at' = [at EXCEPT ![a] = t(where)]
  BY DEF Publish, Moves
<1>3. /\ UNCHANGED <<daemonVars, resourceVars, mode, journal>>
      /\ result' = result \/ result'.wrapper # "completed"
  BY DEF Publish, Document
<1> HIDE DEF r
<1>4. PICK where \in {"exit", "event"} : at' = [at EXCEPT ![a] = t(where)]
  BY <1>2
<1>5. /\ DOMAIN t(where) = Fields /\ t(where).stable = at[a].stable /\ t(where).pc = where
      /\ t(where).verified = at[a].verified /\ t(where).exists = at[a].exists
      /\ t(where).helper = at[a].helper /\ t(where).recorded = at[a].recorded
      /\ t(where).status = StatusAfter(a)
  BY <1>1 DEF Shape, Fields
<1> HIDE DEF t
<1>6. at[a].verified \/ StatusAfter(a) = "rejected_unsafe_sandbox"
  BY DEF StatusAfter
<1>7. Shape(t(where)) /\ Fits(t(where), a)
  BY <1>1, <1>5, <1>6, MoveFits DEF Before, AtHelper, Cleaning
<1> QED
  BY <1>3, <1>4, <1>7, PlainStep

\* The event and the record that it is there come in one step.
LEMMA RecordOutcomeKeeps ==
  ASSUME IInv, NEW a \in Attempts, RecordOutcome(a), UNCHANGED resourceVars
  PROVE  IInv'
<1>1. Shape(at[a]) /\ Fits(at[a], a) /\ at[a].pc = "event" /\ ~at[a].recorded
  BY NotRecorded DEF RecordOutcome, IInv, Attempted, Shapes, Cleaning, Leaving
<1>2. UNCHANGED <<daemonVars, resourceVars, mode, result>>
  BY DEF RecordOutcome
<1> DEFINE ev == EventOf(at[a].status)
           st == IF ev = "blocked" THEN "blocked" ELSE "running"
           where == IF ev = "blocked" THEN "log" ELSE "final"
<1>3. CASE /\ journal' = Append(journal, Event(ev, a, st))
           /\ Moves(a, [at[a] EXCEPT !.recorded = TRUE, !.rev = @ + 1, !.pc = where])
  <2> DEFINE t == [at[a] EXCEPT !.recorded = TRUE, !.rev = @ + 1, !.pc = where]
  <2>1. st \in Statuses /\ ev \in Events /\ where \in {"log", "final"}
    BY DEF Statuses, EventOf, Events
  <2> HIDE DEF st, where
  <2>2. /\ DOMAIN t = Fields /\ t.stable = at[a].stable /\ t.pc \in {"log", "final"}
        /\ t.verified = at[a].verified /\ t.exists = at[a].exists /\ t.status = at[a].status
        /\ t.helper = at[a].helper
    BY <1>1, <2>1 DEF Shape, Fields
  <2>3. at' = [at EXCEPT ![a] = t]
    BY <1>3 DEF Moves
  <2> HIDE DEF t, ev
  <2>a. PICK x : x = t
    OBVIOUS
  <2>4. Event(ev, a, st) \in Records
    BY <2>1, EventIsRecord
  <2>5. Grows /\ Len(journal') \in DOMAIN journal' /\ journal'[Len(journal')] = Event(ev, a, st)
    BY <1>3, <2>4, JournalGrows DEF IInv
  <2>6. InJournal(a, x.status)'
    <3>1. \E i \in DOMAIN journal' : journal'[i].by = a /\ journal'[i].event = ev
      BY <2>5 DEF Event
    <3>2. ev = EventOf(x.status)
      BY <2>a, <2>2 DEF ev
    <3> QED
      BY <3>1, <3>2 DEF InJournal
  <2>7. Host' /\ \A b \in Attempts : Kept(b)
    BY <1>2, HostStays DEF IInv, resourceVars
  <2>8. Shape(x) /\ Fits(x, a)'
    <3>1. Shape(x)
      BY <1>1, <2>a, <2>2 DEF Shape
    <3>2. HelperFits(x, a)'
      BY <1>1, <2>a, <2>2, <2>7 DEF Kept, Fits, HelperFits, Before, AtHelper
    <3>3. CleanFits(x, a)' /\ Hiding(x, a)'
      BY <1>1, <2>a, <2>2, <2>7 DEF Kept, Fits, CleanFits, Hiding, AtHelper, Cleaning
    <3>4. RecordFits(x, a)'
      BY <2>a, <2>2, <2>6 DEF RecordFits, Place, Cleaning
    <3> QED
      BY <3>1, <3>2, <3>3, <3>4 DEF Fits
  <2>9. CompletedIsRecorded'
    BY <1>2, <2>5, CompletedStays DEF IInv
  <2> QED
    BY <1>2, <2>a, <2>3, <2>5, <2>7, <2>8, <2>9, StepOf DEF IInv, daemonVars, Shapes
<1>4. CASE CommitFails(a, "running") /\ Goes(a, "final")
  <2> DEFINE t == [at[a] EXCEPT !.pc = "final"]
  <2>1. /\ DOMAIN t = Fields /\ t.stable = at[a].stable /\ t.pc = "final"
        /\ t.verified = at[a].verified /\ t.exists = at[a].exists
        /\ t.helper = at[a].helper /\ t.recorded = at[a].recorded
    BY <1>1 DEF Shape, Fields
  <2>2. at' = [at EXCEPT ![a] = t] /\ journal' = journal
    BY <1>4 DEF Goes, Moves, CommitFails
  <2> HIDE DEF t
  <2>3. Shape(t) /\ Fits(t, a)
    BY <1>1, <2>1, MoveFits DEF Before, AtHelper, Cleaning
  <2> QED
    BY <1>2, <2>2, <2>3, PlainStep
<1> QED
  BY <1>3, <1>4 DEF RecordOutcome, Commits

LEMMA AppendLogKeeps ==
  ASSUME IInv, NEW a \in Attempts, AppendLog(a), UNCHANGED resourceVars
  PROVE  IInv'
<1>1. Shape(at[a]) /\ Fits(at[a], a) /\ at[a].pc = "log"
  BY DEF AppendLog, IInv, Attempted, Shapes
<1>2. UNCHANGED <<daemonVars, resourceVars, mode, journal, result>>
  BY DEF AppendLog
<1>3. CASE Goes(a, "exit")
  BY <1>1, <1>2, <1>3, GoesKeeps DEF Before, AtHelper, Cleaning
<1>4. CASE Goes(a, "final")
  <2> DEFINE t == [at[a] EXCEPT !.pc = "final"]
  <2>1. /\ DOMAIN t = Fields /\ t.stable = at[a].stable /\ t.pc = "final"
        /\ t.verified = at[a].verified /\ t.exists = at[a].exists /\ t.status = at[a].status
        /\ t.helper = at[a].helper /\ t.recorded = at[a].recorded
    BY <1>1 DEF Shape, Fields
  <2>2. at' = [at EXCEPT ![a] = t]
    BY <1>4 DEF Goes, Moves
  <2> HIDE DEF t
  <2>3. Shape(t) /\ HelperFits(t, a)
    BY <1>1, <2>1 DEF Shape, Fits, HelperFits, Before, AtHelper
  <2>4. CleanFits(t, a) /\ Hiding(t, a) /\ RecordFits(t, a)
    BY <1>1, <2>1 DEF Fits, CleanFits, Hiding, RecordFits, AtHelper, Cleaning, Place
  <2> QED
    BY <1>2, <2>2, <2>3, <2>4, PlainStep DEF Fits
<1> QED
  BY <1>3, <1>4 DEF AppendLog

\* The final result calls the attempt completed only if the writer said so.
LEMMA PublishFinalKeeps ==
  ASSUME IInv, NEW a \in Attempts, PublishFinal(a), UNCHANGED resourceVars
  PROVE  IInv'
<1> DEFINE t == [at[a] EXCEPT !.pc = "exit"]
<1>1. Shape(at[a]) /\ Fits(at[a], a) /\ at[a].pc = "final"
  BY DEF PublishFinal, IInv, Attempted, Shapes
<1>2. /\ UNCHANGED <<daemonVars, resourceVars, mode, journal>>
      /\ at' = [at EXCEPT ![a] = t]
      /\ result' = result \/ result' = Document(a, at[a].status, FinalStatus(a))
  BY DEF PublishFinal, Goes, Moves
<1>3. /\ DOMAIN t = Fields /\ t.stable = at[a].stable /\ t.pc = "exit"
      /\ t.verified = at[a].verified /\ t.exists = at[a].exists
      /\ t.helper = at[a].helper /\ t.recorded = at[a].recorded
  BY <1>1 DEF Shape, Fields
<1> HIDE DEF t
<1>4. Shape(t) /\ Fits(t, a)
  BY <1>1, <1>3, MoveFits DEF Before, AtHelper, Cleaning
<1>5. CASE result' = result
  BY <1>2, <1>4, <1>5, PlainStep
<1>6. CASE result' = Document(a, at[a].status, FinalStatus(a))
  <2>1. result'.by = a /\ result'.status = at[a].status /\ result'.wrapper = FinalStatus(a)
    BY <1>6 DEF Document
  <2>2. CASE ~at[a].recorded
    <3>1. result'.wrapper # "completed"
      BY <2>1, <2>2 DEF FinalStatus
    <3> QED
      BY <1>2, <1>4, <3>1, PlainStep
  <2>3. CASE at[a].recorded
    <3>1. InJournal(a, at[a].status)
      BY <1>1, <2>3 DEF Fits, RecordFits
    <3>2. CompletedIsRecorded'
      BY <1>2, <2>1, <3>1 DEF CompletedIsRecorded, InJournal
    <3> QED
      BY <1>2, <1>4, <3>2, QuietStep, JournalStays DEF IInv
  <2> QED
    BY <2>2, <2>3
<1> QED
  BY <1>2, <1>5, <1>6

LEMMA ExitKeeps ==
  ASSUME IInv, NEW a \in Attempts, Exit(a), UNCHANGED resourceVars
  PROVE  IInv'
  BY LeavesKeeps DEF Exit, AtHelper

\* An attempt that could have left something and has not verified that it did not reports it.
LEMMA EndKeeps ==
  ASSUME IInv, NEW a \in Attempts, End(a), UNCHANGED resourceVars
  PROVE  IInv'
<1> DEFINE r == at[a].reported \/ (at[a].exists /\ ~at[a].verified)
<1> DEFINE t == [Fresh EXCEPT !.pc = "done", !.helper = at[a].helper, !.hold = at[a].hold,
                              !.reported = r]
<1>1. Shape(at[a]) /\ Fits(at[a], a) /\ at[a].pc = "end"
  BY DEF End, IInv, Attempted, Shapes
<1>2. /\ UNCHANGED <<daemonVars, resourceVars, mode, journal, result>>
      /\ at' = [at EXCEPT ![a] = t]
  BY DEF End, Moves
<1> HIDE DEF r
<1>3. /\ DOMAIN t = Fields /\ t.stable = 0 /\ t.pc = "done" /\ ~t.verified
      /\ t.helper = at[a].helper /\ ~t.recorded /\ t.reported = r
  BY DEF Fresh, Fields
<1> HIDE DEF t
<1>4. t.helper \in {"none"} \cup Over
  BY <1>1, <1>3, NoHelperAt DEF AtHelper
<1>5. ~r => Nothing(a)
  <2>1. ASSUME ~r PROVE Nothing(a)
    <3>1. CASE at[a].verified
      BY <1>1, <3>1 DEF Fits, CleanFits
    <3>2. CASE ~at[a].exists
      BY <1>1, <3>2 DEF Fits, HelperFits, Untouched
    <3> QED
      BY <2>1, <3>1, <3>2 DEF r
  <2> QED
    BY <2>1
<1>6. Shape(t) /\ HelperFits(t, a)
  BY <1>1, <1>3, <1>4 DEF Shape, Fits, HelperFits, Before, Over
<1>7. CleanFits(t, a) /\ Hiding(t, a) /\ RecordFits(t, a)
  BY <1>3, <1>5 DEF CleanFits, Hiding, RecordFits, Cleaning, AtHelper
<1> QED
  BY <1>2, <1>6, <1>7, PlainStep DEF Fits

-----------------------------------------------------------------------------
(* The steps of a helper *)

LEMMA HelperAtWork ==
  ASSUME NEW a \in Attempts, NEW s, Fits(s, a), s.helper \in {"early", "running", "writing"}
  PROVE  s.pc \in AtHelper \cup {"killed"}
  BY DEF Fits, HelperFits, Over

\* A step after which there is less on the host.
LEMMA ShrinkStep ==
  ASSUME IInv, NEW a \in Attempts, NEW s, Shape(s), at' = [at EXCEPT ![a] = s], Fits(s, a), Fewer,
         UNCHANGED <<creating, resourceVars, mode, journal, result>>
  PROVE  IInv'
<1>1. Host' /\ \A b \in Attempts : Kept(b)
  BY HostShrinks DEF IInv, resourceVars
<1>2. Grows /\ CompletedIsRecorded'
  BY JournalStays, CompletedStays DEF IInv
<1>3. Shapes'
  BY <1>2 DEF IInv, Shapes, Grows, resourceVars, Fewer
<1>4. Fits(s, a)'
  BY <1>1, <1>2, <1>3, FitsKept DEF IInv
<1> QED
  BY <1>1, <1>2, <1>4, StepOf DEF IInv, Shapes, Fewer

\* The helper asks for what its attempt, of which nothing is there yet, is going to create.
LEMMA HelperStartsKeeps ==
  ASSUME IInv, NEW a \in Attempts, HelperStarts(a), UNCHANGED resourceVars
  PROVE  IInv'
<1> DEFINE s == [at[a] EXCEPT !.helper = "running"]
<1>1. Shape(at[a]) /\ Fits(at[a], a) /\ at[a].helper = "early"
  BY DEF HelperStarts, IInv, Attempted, Shapes
<1>2. /\ DOMAIN s = Fields /\ s.stable = at[a].stable /\ s.pc = at[a].pc
      /\ s.verified = at[a].verified /\ s.exists = at[a].exists
      /\ s.helper = "running" /\ s.recorded = at[a].recorded
  BY <1>1 DEF Shape, Fields
<1>3. /\ at' = [at EXCEPT ![a] = s]
      /\ creating' = creating \cup {[resource |-> r, lag |-> MaxLag] : r \in CreatedBy(a)}
      /\ UNCHANGED <<resources, protected, mode, journal, result, resourceVars>>
  BY DEF HelperStarts, Moves, resourceVars
<1> HIDE DEF s
<1>4. PICK t : t = s
  OBVIOUS
<1>5. Untouched(a) /\ t.pc \in AtHelper \cup {"killed"}
  BY <1>1, <1>2, <1>4, HelperAtWork DEF Fits, HelperFits
<1>6. Host' /\ creating' \subseteq Requests /\ \A b \in Attempts \ {a} : Kept(b)
  BY <1>3, <1>5, HostAsked DEF IInv
<1>7. Shape(t) /\ HelperFits(t, a)'
  BY <1>1, <1>2, <1>4, <1>5 DEF Shape, Fits, HelperFits, Before, AtHelper
<1>8. CleanFits(t, a)' /\ Hiding(t, a)' /\ RecordFits(t, a)'
  <2>1. ~t.verified
    BY <1>1, <1>2, <1>4, <1>5 DEF Fits, CleanFits
  <2>2. ~t.recorded
    BY <1>1, <1>2, <1>4, <1>5, NotRecorded DEF AtHelper, Cleaning, Leaving
  <2> QED
    BY <1>5, <2>1, <2>2 DEF CleanFits, Hiding, RecordFits, AtHelper, Cleaning
<1>9. Grows /\ CompletedIsRecorded'
  BY <1>3, JournalStays, CompletedStays DEF IInv
<1> QED
  BY <1>3, <1>4, <1>6, <1>7, <1>8, <1>9, StepOf DEF IInv, Shapes, Fits

\* A container that has come to its end is still there.
LEMMA HelperEndsKeeps ==
  ASSUME IInv, NEW a \in Attempts, NEW k, HelperEnds(a, k), UNCHANGED resourceVars
  PROVE  IInv'
<1> DEFINE h == IF k # "size" /\ capture # a THEN "untrusted" ELSE k
           s == [at[a] EXCEPT !.helper = "writing", !.hold = h]
<1>1. Shape(at[a]) /\ Fits(at[a], a) /\ at[a].helper = "running"
  BY DEF HelperEnds, IInv, Attempted, Shapes
<1>2. at' = [at EXCEPT ![a] = s] /\ UNCHANGED <<creating, resourceVars, mode, journal, result>>
  BY DEF HelperEnds, Moves
<1> HIDE DEF h
<1>3. /\ DOMAIN s = Fields /\ s.stable = at[a].stable /\ s.pc = at[a].pc
      /\ s.verified = at[a].verified /\ s.exists = at[a].exists
      /\ s.helper = "writing" /\ s.recorded = at[a].recorded
  BY <1>1 DEF Shape, Fields
<1> HIDE DEF s
<1>4. Shape(s) /\ Fits(s, a)
  BY <1>1, <1>3, WithHelper, HelperAtWork
<1>5. Fewer
  <2> DEFINE Rest(r) == IF r.token = a THEN [r EXCEPT !.idle = TRUE] ELSE r
  <2>1. resources' = resources \/ resources' = {Rest(r) : r \in resources}
    BY DEF HelperEnds
  <2>2. ASSUME NEW r \in resources
        PROVE  /\ Rest(r) \in Resource(Ids) /\ Rest(r).id = r.id /\ Rest(r).kind = r.kind
               /\ Rest(r).token = r.token /\ Rest(r).project = r.project
    <3>1. r \in Resource(Ids)
      BY DEF IInv, Shapes
    <3> QED
      BY <3>1 DEF Resource
  <2>3. resources \subseteq Resource(Ids)
    BY DEF IInv, Shapes
  <2> HIDE DEF Rest
  <2> QED
    BY <2>1, <2>2, <2>3 DEF Fewer
<1> QED
  BY <1>2, <1>4, <1>5, ShrinkStep

LEMMA HelperWritesKeeps ==
  ASSUME IInv, NEW a \in Attempts, HelperWrites(a), UNCHANGED resourceVars
  PROVE  IInv'
<1> DEFINE h == IF at[a].hold = "size" THEN "failed" ELSE "over"
           s == [at[a] EXCEPT !.helper = h, !.hold = None]
<1>1. Shape(at[a]) /\ Fits(at[a], a) /\ at[a].helper = "writing"
  BY DEF HelperWrites, IInv, Attempted, Shapes
<1>2. /\ at' = [at EXCEPT ![a] = s]
      /\ UNCHANGED <<daemonVars, resourceVars, mode, journal, result>>
  BY DEF HelperWrites, Moves
<1>3. h \in Over
  BY DEF Over
<1> HIDE DEF h
<1>4. /\ DOMAIN s = Fields /\ s.stable = at[a].stable /\ s.pc = at[a].pc
      /\ s.verified = at[a].verified /\ s.exists = at[a].exists
      /\ s.helper = h /\ s.recorded = at[a].recorded
  BY <1>1 DEF Shape, Fields
<1> HIDE DEF s
<1>5. Shape(s) /\ Fits(s, a)
  BY <1>1, <1>3, <1>4, WithHelper, HelperAtWork
<1> QED
  BY <1>2, <1>5, PlainStep

-----------------------------------------------------------------------------
(* The steps of a cleanup *)

\* A cleanup goes on, or comes to a verdict, and only a verdict that nothing is left verifies it.
LEMMA CleaningFits ==
  ASSUME NEW a \in Attempts, NEW s, Shape(s), Fits(s, a), s.pc \in Cleaning, Kept(a),
         NEW t, DOMAIN t = Fields, t.stable \in Nat, t.helper = s.helper, t.exists = s.exists,
         t.recorded = s.recorded,
         \/ t.pc \in Cleaning /\ t.after = s.after /\ ~t.verified
         \/ t.pc = s.after /\ (t.verified => Nothing(a)'),
         Hiding(t, a)'
  PROVE  Shape(t) /\ Fits(t, a)'
<1>1. /\ s.after \in Afterwards /\ s.exists
      /\ s.helper \in {"none"} \cup Over
      /\ s.recorded => s.after \in Leaving
  BY DEF Fits, HelperFits, CleanFits, RecordFits, Place, Cleaning, AtHelper, Leaving, Afterwards
<1>2. HelperFits(t, a)'
  BY <1>1 DEF Fits, HelperFits, Kept, Before, AtHelper, Cleaning, Over, Leaving, Afterwards
<1>3. CleanFits(t, a)'
  BY <1>1 DEF CleanFits, AtHelper, Cleaning, Leaving, Afterwards
<1>4. RecordFits(t, a)'
  BY <1>1 DEF RecordFits, Place, Cleaning, Leaving, Afterwards
<1> QED
  BY <1>2, <1>3, <1>4 DEF Fits, Shape

LEMMA RefuseReceiptKeeps ==
  ASSUME IInv, NEW a \in Attempts, RefuseReceipt(a), UNCHANGED resourceVars
  PROVE  IInv'
<1> DEFINE s == [at[a] EXCEPT !.verified = FALSE, !.pc = at[a].after, !.found = {}]
<1>1. Shape(at[a]) /\ Fits(at[a], a) /\ at[a].pc = "before"
  BY DEF RefuseReceipt, IInv, Attempted, Shapes
<1>2. /\ at' = [at EXCEPT ![a] = s]
      /\ UNCHANGED <<daemonVars, resourceVars, mode, journal, result>>
  BY DEF RefuseReceipt, Moves, Verdict
<1>3. /\ DOMAIN s = Fields /\ s.stable = at[a].stable /\ s.pc = at[a].after
      /\ ~s.verified /\ s.exists = at[a].exists
      /\ s.helper = at[a].helper /\ s.recorded = at[a].recorded
  BY <1>1 DEF Shape, Fields
<1> HIDE DEF s
<1>4. PICK t : t = s
  OBVIOUS
<1>5. Host' /\ \A b \in Attempts : Kept(b)
  BY <1>2, HostStays DEF IInv, resourceVars
<1>6. at[a].after \in Afterwards /\ at[a].stable \in Nat
  BY <1>1 DEF Fits, CleanFits, Cleaning, Shape
<1>7. Hiding(t, a)'
  BY <1>3, <1>4, <1>6 DEF Hiding, Leaving, Afterwards
<1>8. Shape(t) /\ Fits(t, a)'
  BY <1>1, <1>3, <1>4, <1>5, <1>6, <1>7, CleaningFits DEF Cleaning
<1>9. Grows /\ CompletedIsRecorded'
  BY <1>2, JournalStays, CompletedStays DEF IInv
<1> QED
  BY <1>2, <1>4, <1>5, <1>8, <1>9, StepOf DEF IInv, daemonVars, Shapes

LEMMA RemoveKeeps ==
  ASSUME IInv, NEW a \in Attempts, Remove(a), UNCHANGED resourceVars
  PROVE  IInv'
<1>1. Shape(at[a]) /\ Fits(at[a], a) /\ at[a].pc = "remove"
  BY DEF Remove, IInv, Attempted, Shapes
<1>2. /\ \E f : at' = [at EXCEPT ![a] = [at[a] EXCEPT !.pc = "scan", !.failed = f]]
      /\ resources' \subseteq resources
  BY DEF Remove, Moves
<1>3. UNCHANGED <<creating, resourceVars, mode, journal, result>>
  BY DEF Remove
<1>4. PICK f : at' = [at EXCEPT ![a] = [at[a] EXCEPT !.pc = "scan", !.failed = f]]
  BY <1>2
<1> DEFINE s == [at[a] EXCEPT !.pc = "scan", !.failed = f]
<1>5. /\ DOMAIN s = Fields /\ s.stable = at[a].stable /\ s.pc = "scan" /\ s.after = at[a].after
      /\ s.verified = at[a].verified /\ s.exists = at[a].exists
      /\ s.helper = at[a].helper /\ s.recorded = at[a].recorded
  BY <1>1 DEF Shape, Fields
<1>6. at' = [at EXCEPT ![a] = s]
  BY <1>4
<1> HIDE DEF s
<1>7. Shape(s) /\ HelperFits(s, a)
  BY <1>1, <1>5 DEF Shape, Fits, HelperFits, Before, AtHelper
<1>8. CleanFits(s, a) /\ Hiding(s, a) /\ RecordFits(s, a)
  BY <1>1, <1>5 DEF Fits, CleanFits, Hiding, RecordFits, AtHelper, Cleaning, Place
<1>9. Fewer
  BY <1>2 DEF Fewer, IInv, Shapes
<1> QED
  BY <1>3, <1>6, <1>7, <1>8, <1>9, ShrinkStep DEF Fits

\* A scan lets the daemon do what it was asked for earlier.
LEMMA ScanStep ==
  ASSUME IInv, NEW a \in Attempts, ScanTakesTime(a), NEW t, Shape(t), Fits(t, a)',
         at' = [at EXCEPT ![a] = t], UNCHANGED <<resourceVars, mode, journal, result>>
  PROVE  IInv'
<1>1. Host' /\ creating' \subseteq Requests /\ \A b \in Attempts : Kept(b)
  BY HostScanned DEF IInv, resourceVars
<1>2. Grows /\ CompletedIsRecorded'
  BY JournalStays, CompletedStays DEF IInv
<1>3. resources' = resources
  BY DEF ScanTakesTime
<1> QED
  BY <1>1, <1>2, <1>3, StepOf DEF IInv, Shapes

LEMMA ScanBeforeKeeps ==
  ASSUME IInv, NEW a \in Attempts, ScanBefore(a), UNCHANGED resourceVars
  PROVE  IInv'
<1>1. Shape(at[a]) /\ Fits(at[a], a) /\ at[a].pc = "before"
  BY DEF ScanBefore, IInv, Attempted, Shapes
<1>2. /\ \E f, found : at' = [at EXCEPT ![a] = [at[a] EXCEPT !.pc = "remove", !.failed = f,
                                                           !.found = found]]
      /\ ScanTakesTime(a)
  BY DEF ScanBefore, Scans, Moves
<1>3. UNCHANGED <<resourceVars, mode, journal, result>>
  BY DEF ScanBefore
<1>4. PICK f, found : at' = [at EXCEPT ![a] = [at[a] EXCEPT !.pc = "remove", !.failed = f,
                                                           !.found = found]]
  BY <1>2
<1> DEFINE s == [at[a] EXCEPT !.pc = "remove", !.failed = f, !.found = found]
<1>5. /\ DOMAIN s = Fields /\ s.stable = at[a].stable /\ s.pc = "remove" /\ s.after = at[a].after
      /\ s.verified = at[a].verified /\ s.exists = at[a].exists
      /\ s.helper = at[a].helper /\ s.recorded = at[a].recorded
  BY <1>1 DEF Shape, Fields
<1>6. at' = [at EXCEPT ![a] = s]
  BY <1>4
<1> HIDE DEF s
<1>7. PICK t : t = s
  OBVIOUS
<1>8. /\ Kept(a)
      /\ \A c \in Pending(a)' : \E d \in Pending(a) : d.lag > 0 /\ c.lag = d.lag - 1
  BY <1>2, <1>3, HostScanned DEF IInv, resourceVars
<1>9. t.stable = 0
  BY <1>1, <1>5, <1>7 DEF Fits, Hiding
<1>10. Hiding(t, a)'
  <2>1. ASSUME NEW c \in Pending(a)' PROVE c.lag + t.stable + 1 <= MaxLag
    <3>1. PICK d \in Pending(a) : c.lag = d.lag - 1
      BY <1>8, <2>1
    <3>2. d.lag \in 0..MaxLag
      BY <3>1, LagOf DEF IInv, Pending
    <3> QED
      BY <1>9, <3>1, <3>2, NobodyElse
  <2> QED
    BY <1>9, <2>1 DEF Hiding
<1>11. t.pc \in Cleaning /\ t.after = at[a].after /\ ~t.verified /\ t.stable \in Nat
  BY <1>1, <1>5, <1>7, <1>9 DEF Fits, CleanFits, Cleaning
<1>12. Shape(t) /\ Fits(t, a)'
  BY <1>1, <1>5, <1>7, <1>8, <1>10, <1>11, CleaningFits DEF Cleaning
<1> QED
  BY <1>2, <1>3, <1>6, <1>7, <1>12, ScanStep

\* The last clean scan has waited for everything the daemon may still have to do.
LEMMA ScanAfterKeeps ==
  ASSUME IInv, NEW a \in Attempts, ScanAfter(a), UNCHANGED resourceVars
  PROVE  IInv'
<1>1. Shape(at[a]) /\ Fits(at[a], a) /\ at[a].pc \in {"scan", "stable"}
  BY DEF ScanAfter, IInv, Attempted, Shapes
<1>2. UNCHANGED <<resourceVars, mode, journal, result>>
  BY DEF ScanAfter
<1>3. PICK ok \in BOOLEAN, found \in SUBSET Identities(OwnedByCase(a)) :
        /\ Scans(a, ok, found)
        /\ Moves(a, IF ~ok \/ found # {} THEN NextRound(at[a], found)
                    ELSE IF at[a].stable + 1 >= StableScans THEN Verdict(at[a], ~at[a].failed)
                    ELSE [at[a] EXCEPT !.pc = "stable", !.stable = @ + 1])
  BY DEF ScanAfter
<1>4. ScanTakesTime(a) /\ resources' = resources
  BY <1>3 DEF Scans, ScanTakesTime
<1>5. /\ Kept(a)
      /\ \A c \in Pending(a)' : \E d \in Pending(a) : d.lag > 0 /\ c.lag = d.lag - 1
  BY <1>2, <1>4, HostScanned DEF IInv, resourceVars
<1>6. at[a].stable \in Nat /\ at[a].pc \in Cleaning
      /\ at[a].after \in Afterwards /\ ~at[a].verified
  BY <1>1 DEF Fits, CleanFits, Cleaning, Shape
<1>7. ASSUME NEW c \in Pending(a)'
      PROVE  /\ c.lag \in Nat /\ c.lag + (at[a].stable + 1) + 1 <= MaxLag
             /\ c.lag + 1 <= MaxLag
  <2>1. PICK d \in Pending(a) : d.lag > 0 /\ c.lag = d.lag - 1
    BY <1>5, <1>7
  <2>2. d.lag \in 0..MaxLag
    BY <2>1, LagOf DEF IInv, Pending
  <2>3. d.lag + at[a].stable + 1 <= MaxLag
    BY <1>1, <2>1 DEF Fits, Hiding
  <2> QED
    BY <1>6, <2>1, <2>2, <2>3, NobodyElse
\* Whatever the attempt goes on with, these are enough.
<1>8. ASSUME NEW t, DOMAIN t = Fields, t.stable \in Nat, t.helper = at[a].helper,
             t.exists = at[a].exists, t.recorded = at[a].recorded,
             \/ t.pc \in Cleaning /\ t.after = at[a].after /\ ~t.verified
             \/ t.pc = at[a].after /\ (t.verified => Nothing(a)'),
             t.pc \in Cleaning => \/ t.pc = "remove" /\ t.stable = 0
                                  \/ t.pc = "stable" /\ t.stable = at[a].stable + 1,
             Moves(a, t)
      PROVE  IInv'
  <2>1. Hiding(t, a)'
    BY <1>6, <1>7, <1>8 DEF Hiding, Cleaning
  <2>2. Shape(t) /\ Fits(t, a)'
    BY <1>1, <1>5, <1>6, <1>8, <2>1, CleaningFits
  <2> QED
    BY <1>2, <1>4, <1>8, <2>2, ScanStep DEF Moves
<1>9. ASSUME NEW v, v => Nothing(a)',
             Moves(a, [at[a] EXCEPT !.verified = v, !.pc = at[a].after, !.found = {}])
      PROVE  IInv'
  <2>1. PICK t : t = [at[a] EXCEPT !.verified = v, !.pc = at[a].after, !.found = {}]
    OBVIOUS
  <2>2. /\ DOMAIN t = Fields /\ t.stable = at[a].stable /\ t.pc = at[a].after /\ t.verified = v
        /\ t.exists = at[a].exists /\ t.helper = at[a].helper /\ t.recorded = at[a].recorded
    BY <1>1, <2>1 DEF Shape, Fields
  <2>3. Moves(a, t)
    BY <1>9, <2>1
  <2>4. t.pc \notin Cleaning
    BY <1>6, <2>2 DEF Cleaning, Leaving, Afterwards
  <2> QED
    BY <1>6, <1>8, <1>9, <2>2, <2>3, <2>4
<1>10. ASSUME ~ok \/ found # {} PROVE IInv'
  <2>1. Moves(a, NextRound(at[a], found))
    BY <1>3, <1>10
  <2>2. CASE at[a].round < Rounds
    <3> DEFINE s == [at[a] EXCEPT !.round = @ + 1, !.stable = 0, !.pc = "remove", !.found = found]
    <3>1. /\ DOMAIN s = Fields /\ s.stable = 0 /\ s.pc = "remove" /\ s.after = at[a].after
          /\ s.verified = at[a].verified /\ s.exists = at[a].exists
          /\ s.helper = at[a].helper /\ s.recorded = at[a].recorded
      BY <1>1 DEF Shape, Fields
    <3>2. Moves(a, s)
      BY <2>1, <2>2 DEF NextRound
    <3> HIDE DEF s
    <3>3. PICK t : t = s
      OBVIOUS
    <3> QED
      BY <1>6, <1>8, <3>1, <3>2, <3>3 DEF Cleaning
  <2>3. CASE ~(at[a].round < Rounds)
    BY <1>9, <2>1, <2>3 DEF NextRound, Verdict
  <2> QED
    BY <2>2, <2>3
<1>11. ASSUME ok, found = {}, at[a].stable + 1 >= StableScans PROVE IInv'
  <2>1. Moves(a, Verdict(at[a], ~at[a].failed))
    BY <1>3, <1>11
  <2>2. OwnedByCase(a) = {}
    BY <1>3, <1>11 DEF Scans, Identities
  <2>3. OwnedByCase(a)' = {}
    BY <1>2, <1>4, <2>2 DEF OwnedByCase, CaseOwned, ProjectOwned
  <2>4. Pending(a)' = {}
    <3>1. ASSUME NEW c \in Pending(a)' PROVE FALSE
      BY <1>6, <1>7, <1>11, CasesAssumption, NobodyElse
    <3> QED
      BY <3>1
  <2>5. Nothing(a)'
    BY <2>3, <2>4 DEF Nothing
  <2> DEFINE v == ~at[a].failed
  <2>6. Moves(a, [at[a] EXCEPT !.verified = v, !.pc = at[a].after, !.found = {}])
    BY <2>1 DEF Verdict
  <2> HIDE DEF v
  <2>7. PICK w : w = v
    OBVIOUS
  <2> QED
    BY <1>9, <2>5, <2>6, <2>7
<1>12. ASSUME ok, found = {}, ~(at[a].stable + 1 >= StableScans) PROVE IInv'
  <2> DEFINE s == [at[a] EXCEPT !.pc = "stable", !.stable = @ + 1]
  <2>1. /\ DOMAIN s = Fields /\ s.stable = at[a].stable + 1 /\ s.pc = "stable"
        /\ s.after = at[a].after /\ s.verified = at[a].verified /\ s.exists = at[a].exists
        /\ s.helper = at[a].helper /\ s.recorded = at[a].recorded
    BY <1>1 DEF Shape, Fields
  <2>2. Moves(a, s)
    BY <1>3, <1>12
  <2> HIDE DEF s
  <2>3. PICK t : t = s
    OBVIOUS
  <2> QED
    BY <1>6, <1>8, <2>1, <2>2, <2>3 DEF Cleaning
<1> QED
  BY <1>10, <1>11, <1>12

-----------------------------------------------------------------------------
(* The steps of others *)

LEMMA OtherEventKeeps ==
  ASSUME IInv, NEW s \in Statuses, OtherEvent(s), UNCHANGED resourceVars
  PROVE  IInv'
<1>1. UNCHANGED <<daemonVars, protected, mode, at, result>>
  BY DEF OtherEvent, resourceVars
<1>2. Event("other", Nobody, s) \in Records /\ journal' = Append(journal, Event("other", Nobody, s))
  BY EventIsRecord DEF Events, OtherEvent
<1>3. Grows
  BY <1>2, JournalGrows DEF IInv
<1>4. Host' /\ \A b \in Attempts : Kept(b)
  BY <1>1, HostStays DEF IInv
<1>5. Shapes'
  BY <1>1, <1>3 DEF IInv, Shapes, Grows, resourceVars, daemonVars
<1>6. CompletedIsRecorded'
  BY <1>1, <1>3, CompletedStays DEF IInv
<1>7. Guards'
  BY <1>1, GuardsKept DEF IInv, daemonVars
<1> QED
  BY <1>1, <1>3, <1>4, <1>5, <1>6, <1>7, HostStep

LEMMA DaemonKeeps ==
  ASSUME IInv, DaemonStep, UNCHANGED <<caseVars, resourceVars>>
  PROVE  IInv'
<1>1. UNCHANGED <<at, journal, result, mode, protected>>
  BY DEF caseVars, resourceVars
<1>2. Grows /\ CompletedIsRecorded'
  BY <1>1, JournalStays, CompletedStays DEF IInv
<1>3. ASSUME NEW c \in creating, Materialize(c) PROVE IInv'
  <2>1. /\ Host' /\ creating' \subseteq Requests /\ resources' \subseteq Resource(Ids)
        /\ \A b \in Attempts : Kept(b)
        /\ c.resource.id \notin protected
    BY <1>1, <1>3, HostServes DEF IInv
  <2>2. Shapes'
    BY <1>1, <1>2, <2>1 DEF IInv, Shapes, Grows, resourceVars
  <2>3. Guards'
    BY <1>3, <2>1, GuardsKept DEF IInv, Materialize
  <2> QED
    BY <1>1, <1>2, <2>1, <2>2, <2>3, HostStep
<1>4. ASSUME NEW r \in resources, Stop(r) PROVE IInv'
  <2> DEFINE s == [r EXCEPT !.idle = TRUE]
  <2>1. r \in Resource(Ids)
    BY DEF IInv, Shapes
  <2>2. /\ s \in Resource(Ids) /\ s.id = r.id /\ s.kind = r.kind /\ s.token = r.token
        /\ s.project = r.project
    BY <2>1 DEF Resource
  <2>3. resources' = (resources \ {r}) \cup {s} /\ creating' = creating
    BY <1>4 DEF Stop
  <2> HIDE DEF s
  <2>4. Fewer
    BY <2>2, <2>3 DEF Fewer, IInv, Shapes
  <2>5. Host' /\ \A b \in Attempts : Kept(b)
    BY <1>1, <2>3, <2>4, HostShrinks DEF IInv
  <2>6. Shapes'
    BY <1>1, <1>2, <2>3, <2>4 DEF IInv, Shapes, Grows, resourceVars, Fewer
  <2>7. Guards'
    BY <2>4, GuardsKept DEF IInv, Fewer
  <2> QED
    BY <1>1, <1>2, <2>5, <2>6, <2>7, HostStep
<1> QED
  BY <1>3, <1>4 DEF DaemonStep

-----------------------------------------------------------------------------
(* The steps of the resource manager *)

LEMMA IdleSpares == Idle \in Processes /\ InOrder(Idle) /\ Spares(Idle)
  BY DEF Idle, Processes, InOrder, Spares, Lists

\* What a process needs when it goes on, and what the others keep.
LEMMA GuardsAfter ==
  ASSUME IInv, NEW m \in Managers, NEW p \in Processes, Manager(m, p), InOrder(p),
         "listing" \notin weakened' => Spares(p), UNCHANGED <<baseline, protected>>,
         weakened \subseteq weakened', resources' \subseteq resources
  PROVE  Guards' /\ mgr' \in [Managers -> Processes]
<1>1. mgr \in [Managers -> Processes] /\ mgr' = [mgr EXCEPT ![m] = p]
  BY DEF IInv, Shapes, Manager
<1>2. mgr' \in [Managers -> Processes]
      /\ \A n \in Managers : mgr'[n] = IF n = m THEN p ELSE mgr[n]
  BY <1>1
<1>3. ASSUME NEW d, Lists(d) PROVE Lists(d)'
  BY <1>3 DEF Lists
<1>4. "listing" \notin weakened' => Lists(baseline)'
  <2>1. PICK d : d = baseline
    OBVIOUS
  <2> QED
    BY <1>3, <2>1 DEF IInv, Guards, Lists
<1>5. ASSUME NEW n \in Managers
      PROVE  InOrder(mgr[n])' /\ ("listing" \notin weakened' => Spares(mgr[n])')
  <2>1. PICK q : q = mgr'[n]
    OBVIOUS
  <2>2. InOrder(q) /\ ("listing" \notin weakened' => Spares(q))
    BY <1>2, <2>1 DEF IInv, Guards
  <2>3. InOrder(q)' /\ ("listing" \notin weakened' => Spares(q)')
    BY <1>3, <2>2 DEF InOrder, Spares
  <2> QED
    BY <2>1, <2>3 DEF InOrder, Spares, Lists
<1> QED
  BY <1>2, <1>4, <1>5 DEF Guards

\* A step of the manager that touches neither the host nor the protection.
LEMMA ManagerStep ==
  ASSUME IInv, Stays, UNCHANGED <<baseline, protected>>, weakened \subseteq weakened',
         NEW m \in Managers, NEW p \in Processes, Manager(m, p), InOrder(p),
         "listing" \notin weakened' => Spares(p)
  PROVE  IInv'
<1>1. Host' /\ \A b \in Attempts : Kept(b)
  BY HostStays DEF IInv, Stays
<1>2. Grows /\ CompletedIsRecorded'
  BY JournalStays, CompletedStays DEF IInv, Stays
<1>3. Guards' /\ mgr' \in [Managers -> Processes]
  BY GuardsAfter DEF Stays, daemonVars
<1>4. Shapes'
  BY <1>2, <1>3 DEF IInv, Shapes, Grows, Stays, daemonVars
<1> QED
  BY <1>1, <1>2, <1>3, <1>4, HostStep DEF Stays

LEMMA CommandKeeps ==
  ASSUME IInv, NEW m \in Managers, NEW c \in Commands, Command(m, c)
  PROVE  IInv'
<1>1. Stays /\ UNCHANGED <<baseline, protected, weakened>>
  BY DEF Command
<1>2. CASE Manager(m, [Idle EXCEPT !.pc = "write"])
  <2> DEFINE p == [Idle EXCEPT !.pc = "write"]
  <2>1. /\ p \in Processes /\ p.pc = "write" /\ p.base = Missing /\ p.doc = Missing /\ p.plan = {}
    BY DEF Idle, Processes
  <2>2. Manager(m, p)
    BY <1>2
  <2> HIDE DEF p
  <2>3. InOrder(p) /\ Spares(p)
    BY <2>1 DEF InOrder, Spares, Lists
  <2> QED
    BY <1>1, <2>1, <2>2, <2>3, ManagerStep
<1>3. CASE /\ baseline # Missing /\ baseline.available /\ c # "capture"
           /\ Manager(m, [Idle EXCEPT !.pc = c, !.base = baseline])
  <2> DEFINE p == [Idle EXCEPT !.pc = c, !.base = baseline]
  <2>1. /\ p \in Processes /\ p.pc = c /\ p.base = baseline /\ p.doc = Missing /\ p.plan = {}
    BY DEF Idle, Processes, IInv, Shapes
  <2>2. Manager(m, p)
    BY <1>3
  <2> HIDE DEF p
  <2>3. InOrder(p)
    BY <1>3, <2>1 DEF InOrder, Commands
  <2>4. "listing" \notin weakened' => Spares(p)
    BY <1>1, <2>1 DEF Spares, Lists, IInv, Guards
  <2> QED
    BY <1>1, <2>1, <2>2, <2>3, <2>4, ManagerStep
<1> QED
  BY <1>2, <1>3 DEF Command

LEMMA ProcessOf ==
  ASSUME IInv, NEW m \in Managers
  PROVE  /\ mgr[m] \in Processes /\ InOrder(mgr[m])
         /\ "listing" \notin weakened => Spares(mgr[m])
  BY DEF IInv, Shapes, Guards

LEMMA CheckResidueKeeps ==
  ASSUME IInv, NEW m \in Managers, NEW available \in BOOLEAN, NEW failed \in Kinds \cup {"none"},
         CheckResidue(m, available, failed)
  PROVE  IInv'
<1>1. Stays /\ UNCHANGED <<baseline, protected, weakened>> /\ mgr[m].pc = "overwrite"
  BY DEF CheckResidue
<1>2. Manager(m, [mgr[m] EXCEPT !.pc = "write"]) \/ Manager(m, Idle)
  BY DEF CheckResidue
<1>3. CASE Manager(m, [mgr[m] EXCEPT !.pc = "write"])
  <2> DEFINE p == [mgr[m] EXCEPT !.pc = "write"]
  <2>1. /\ p \in Processes /\ p.pc = "write" /\ p.base = mgr[m].base
        /\ p.doc = mgr[m].doc /\ p.plan = mgr[m].plan
    BY ProcessOf DEF Processes
  <2>2. Manager(m, p)
    BY <1>3
  <2> HIDE DEF p
  <2>3. InOrder(p)
    BY <1>1, <2>1, ProcessOf DEF InOrder
  <2>4. "listing" \notin weakened' => Spares(p)
    BY <1>1, <2>1, ProcessOf DEF Spares
  <2> QED
    BY <1>1, <2>1, <2>2, <2>3, <2>4, ManagerStep
<1>4. CASE Manager(m, Idle)
  BY <1>1, <1>4, IdleSpares, ManagerStep
<1> QED
  BY <1>2, <1>3, <1>4

\* A snapshot without a failed listing is of everything there is.
LEMMA WhatIsCaptured ==
  ASSUME Shapes, NEW available \in BOOLEAN, NEW failed \in Kinds \cup {"none"}
  PROVE  /\ Captured(resources, available, failed).available = available
         /\ Captured(resources, available, failed).resources \subseteq resources
         /\ available /\ failed = "none" =>
              Captured(resources, available, failed).resources = resources
<1>1. \A r \in resources : r.kind # "none"
  BY DEF Shapes, Resource, Kinds
<1> QED
  BY <1>1 DEF Captured, Snapshot

\* What a plan removes is new with respect to the baseline.
LEMMA WhatIsPlanned ==
  ASSUME NEW base, NEW current
  PROVE  LET plan == BuildPlan(base, current)
         IN /\ plan.remove \subseteq New(base, current)
            /\ OwnedResidue(plan) \cup plan.unattributed = New(base, current)
<1> DEFINE created == New(base, current)
           own == {r \in created : Owned(r)}
           running == {r \in own : r.kind = "container" /\ ~r.idle}
<1>1. BuildPlan(base, current) =
        [remove |-> own \ running, running |-> running, unattributed |-> created \ own]
  BY DEF BuildPlan
<1>2. own \subseteq created /\ running \subseteq own
  OBVIOUS
<1> HIDE DEF own, running, created
<1>3. /\ BuildPlan(base, current).remove = own \ running
      /\ BuildPlan(base, current).running = running
      /\ BuildPlan(base, current).unattributed = created \ own
  BY <1>1
<1>4. created = New(base, current)
  BY DEF created
<1> QED
  BY <1>2, <1>3, <1>4 DEF OwnedResidue

\* A process that has something to remove has compared it with a baseline.
LEMMA WhatRemains ==
  ASSUME IInv, NEW m \in Managers, NEW plan \in SUBSET Resource(Ids), Removing(m, plan),
         mgr[m].pc \in {"verify", "strict", "cleanup", "removing"}, weakened \subseteq weakened',
         "listing" \notin weakened' => \A r \in plan : r.id \notin protected
  PROVE  \E p \in Processes : /\ Manager(m, p) /\ InOrder(p)
                              /\ "listing" \notin weakened' => Spares(p)
<1>1. CASE plan = {}
  BY <1>1, IdleSpares DEF Removing
<1>2. CASE plan # {}
  <2> DEFINE p == [mgr[m] EXCEPT !.pc = "removing", !.plan = plan]
  <2>1. /\ p \in Processes /\ p.pc = "removing" /\ p.base = mgr[m].base
        /\ p.doc = mgr[m].doc /\ p.plan = plan
    BY ProcessOf DEF Processes
  <2>2. Manager(m, p)
    BY <1>2 DEF Removing
  <2> HIDE DEF p
  <2>3. InOrder(p)
    BY <2>1, ProcessOf DEF InOrder
  <2>4. "listing" \notin weakened' => Spares(p)
    BY <2>1, ProcessOf DEF Spares
  <2> QED
    BY <2>1, <2>2, <2>3, <2>4
<1> QED
  BY <1>1, <1>2

LEMMA InspectKeeps ==
  ASSUME IInv, NEW m \in Managers, NEW available \in BOOLEAN, NEW failed \in Kinds \cup {"none"},
         Inspect(m, available, failed)
  PROVE  IInv'
<1> DEFINE base == mgr[m].base
           current == Captured(resources, available, failed)
           plan == BuildPlan(base, current)
           rest == IF available /\ mgr[m].pc = "cleanup" THEN plan.remove ELSE {}
<1>1. /\ Stays /\ UNCHANGED <<baseline, protected>>
      /\ mgr[m].pc \in {"verify", "strict", "cleanup"}
      /\ Removing(m, rest)
      /\ weakened' = weakened \cup (IF failed = "none" THEN {} ELSE {"listing"})
  BY DEF Inspect
<1>2. /\ plan.remove \subseteq New(base, current)
      /\ current.resources \subseteq resources
      /\ available /\ failed = "none" => current.resources = resources
  BY WhatIsPlanned, WhatIsCaptured DEF IInv
<1>3. New(base, current) \subseteq current.resources
      /\ \A r \in New(base, current) : r.id \notin base.ids
  BY DEF New
<1>4. rest \subseteq New(base, current) /\ (rest # {} => available)
  BY <1>2
<1> HIDE DEF plan, current, rest
<1>5. rest \in SUBSET Resource(Ids)
  BY <1>2, <1>3, <1>4 DEF IInv, Shapes
<1>6. ASSUME "listing" \notin weakened', NEW r \in rest PROVE r.id \notin protected
  <2>1. r \in resources /\ r.id \notin base.ids
    BY <1>2, <1>3, <1>4, <1>6
  <2>2. base # Missing /\ base.available
    BY <1>1, ProcessOf DEF InOrder
  <2>3. Lists(base)
    BY <1>1, <1>6, ProcessOf DEF Spares
  <2> QED
    BY <2>1, <2>2, <2>3 DEF Lists
<1>7. PICK p \in Processes : /\ Manager(m, p) /\ InOrder(p)
                             /\ "listing" \notin weakened' => Spares(p)
  BY <1>1, <1>5, <1>6, WhatRemains
<1> QED
  BY <1>1, <1>7, ManagerStep

LEMMA RemovePlannedKeeps ==
  ASSUME IInv, NEW m \in Managers, RemovePlanned(m)
  PROVE  IInv'
<1>1. PICK r \in mgr[m].plan : Removing(m, mgr[m].plan \ {r}) /\ resources' \subseteq resources
  BY DEF RemovePlanned
<1>2. UNCHANGED <<creating, at, journal, result, mode, baseline, protected, weakened>>
      /\ mgr[m].pc = "removing"
  BY DEF RemovePlanned
<1>3. Fewer
  BY <1>1 DEF Fewer, IInv, Shapes
<1>4. Host' /\ \A b \in Attempts : Kept(b)
  BY <1>2, <1>3, HostShrinks DEF IInv
<1>5. Grows /\ CompletedIsRecorded'
  BY <1>2, JournalStays, CompletedStays DEF IInv
<1> DEFINE rest == mgr[m].plan \ {r}
<1>6. /\ rest \in SUBSET Resource(Ids) /\ Removing(m, rest)
      /\ "listing" \notin weakened' => \A x \in rest : x.id \notin protected
  BY <1>1, <1>2, ProcessOf DEF Processes, Spares
<1> HIDE DEF rest
<1>7. PICK p \in Processes : /\ Manager(m, p) /\ InOrder(p)
                             /\ "listing" \notin weakened' => Spares(p)
  BY <1>2, <1>6, WhatRemains
<1>8. Guards' /\ mgr' \in [Managers -> Processes]
  BY <1>1, <1>2, <1>7, GuardsAfter
<1>9. Shapes'
  BY <1>2, <1>3, <1>5, <1>8 DEF IInv, Shapes, Grows, Fewer
<1> QED
  BY <1>2, <1>4, <1>5, <1>8, <1>9, HostStep

\* A first baseline protects what is there, so nothing of an attempt of which there is nothing.
LEMMA CaptureBaselineKeeps ==
  ASSUME IInv, NEW m \in Managers, NEW available \in BOOLEAN, NEW failed \in Kinds \cup {"none"},
         CaptureBaseline(m, available, failed)
  PROVE  IInv'
<1> DEFINE current == Captured(resources, available, failed)
           ids == Identities(current.resources)
           first == baseline = Missing /\ \A n \in Managers : mgr[n].pc # "store"
<1> PICK doc : doc = [available |-> current.available, ids |-> ids]
  OBVIOUS
<1> PICK p : p = [mgr[m] EXCEPT !.pc = "store", !.doc = doc]
  OBVIOUS
<1>1. /\ Stays /\ baseline' = baseline /\ mgr[m].pc = "write" /\ Manager(m, p)
      /\ protected' = IF ~available \/ mgr[m].base # Missing THEN protected
                      ELSE IF first THEN ids ELSE protected \cap ids
      /\ weakened' = weakened \cup (IF failed = "none" THEN {} ELSE {"listing"})
                              \cup (IF first THEN {} ELSE {"again"})
  BY DEF CaptureBaseline
<1>2. /\ current.available = available /\ current.resources \subseteq resources
      /\ available /\ failed = "none" => current.resources = resources
  BY WhatIsCaptured DEF IInv
<1>3. first => /\ \A n \in Managers : mgr[n].base = Missing /\ mgr[n].doc = Missing /\ mgr[n].plan = {}
               /\ baseline = Missing
  BY ProcessOf DEF InOrder
<1> HIDE DEF current, first
<1>4. resources \subseteq Resource(Ids) /\ Identities(resources) \subseteq Ids
  BY DEF IInv, Shapes, Resource, Identities
<1>5. ids \subseteq Identities(resources)
  BY <1>2 DEF Identities
<1> HIDE DEF ids
<1>6. protected' \subseteq protected \cup Identities(resources)
  BY <1>1, <1>5
<1>7. doc \in Baselines /\ doc # Missing /\ doc.available = available /\ doc.ids = ids
  <2>1. doc \in Baselines
    BY <1>2, <1>4, <1>5 DEF Baselines
  <2> QED
    BY <1>2, <2>1, ResourcesAssumption DEF Baselines, Ids
<1>8. /\ p \in Processes /\ p.pc = "store" /\ p.base = mgr[m].base /\ p.doc = doc
      /\ p.plan = mgr[m].plan
  BY <1>7, ProcessOf DEF Processes
<1>9. UNCHANGED <<resources, creating, mode, at, journal, result>>
  BY <1>1 DEF Stays, daemonVars
<1>10. Grows /\ CompletedIsRecorded'
  BY <1>9, JournalStays, CompletedStays DEF IInv
<1>11. /\ mgr' \in [Managers -> Processes]
       /\ \A n \in Managers : mgr'[n] = IF n = m THEN p ELSE mgr[n]
  BY <1>1, <1>8 DEF Manager, IInv, Shapes
<1>12. Shapes'
  BY <1>1, <1>9, <1>10, <1>11 DEF IInv, Shapes, Grows
<1>13. Host'
  <2>1. \A r \in resources : Labelled(r)' = Labelled(r)
    BY <1>9 DEF Labelled, CaseOwned, ProjectOwned
  <2>2. \A c \in creating : Labelled(c.resource)' = Labelled(c.resource)
    BY <1>9 DEF Labelled, CaseOwned, ProjectOwned
  <2> QED
    BY <1>6, <1>9, <2>1, <2>2 DEF IInv, Host, Identities
<1>14. ASSUME NEW b \in Attempts PROVE Kept(b)
  <2>1. Pending(b)' = Pending(b) /\ OwnedByCase(b)' = OwnedByCase(b)
    BY <1>9 DEF Pending, OwnedByCase, CaseOwned, ProjectOwned
  <2>2. Nothing(b)' = Nothing(b)
    BY <2>1 DEF Nothing
  <2>3. \A c \in Pending(b) : c.lag <= c.lag
    BY LagOf, NobodyElse DEF IInv, Pending
  <2>4. ASSUME Untouched(b) PROVE Untouched(b)'
    <3>1. CaseIds(b) \cap Identities(resources) = {}
      BY <2>4 DEF IInv, Host, Labelled, Untouched, Nothing, OwnedByCase, Identities
    <3>2. CaseIds(b)' = CaseIds(b)
      BY DEF CaseIds
    <3> QED
      BY <1>6, <2>2, <2>4, <3>1, <3>2 DEF Untouched
  <2> QED
    BY <2>1, <2>2, <2>3, <2>4 DEF Kept
<1>15. ~first => protected' \subseteq protected /\ weakened' # {}
  BY <1>1
<1>16. ASSUME "listing" \notin weakened', NEW d, Lists(d), d = Missing \/ ~first PROVE Lists(d)'
  BY <1>9, <1>15, <1>16 DEF Lists
<1>17. ASSUME "listing" \notin weakened' PROVE Lists(doc)'
  <2>1. available => ids = Identities(resources)
    BY <1>1, <1>2, <1>17 DEF ids
  <2>2. first => mgr[m].base = Missing
    BY <1>3
  <2>3. CASE first
    BY <1>1, <1>7, <1>9, <2>1, <2>2, <2>3 DEF Lists, Identities
  <2>4. CASE ~first
    BY <1>7, <1>9, <1>15, <2>1, <2>4 DEF Lists, Identities
  <2> QED
    BY <2>3, <2>4
<1>18. "listing" \notin weakened' => "listing" \notin weakened
  BY <1>1
<1>19. "listing" \notin weakened' => Lists(baseline)'
  <2>1. PICK d : d = baseline
    OBVIOUS
  <2>2. "listing" \notin weakened' => Lists(d)'
    BY <1>3, <1>16, <1>18, <2>1 DEF IInv, Guards
  <2> QED
    BY <1>1, <2>1, <2>2 DEF Lists
<1>20. ASSUME NEW n \in Managers
       PROVE  InOrder(mgr[n])' /\ ("listing" \notin weakened' => Spares(mgr[n])')
  <2>1. PICK q : q = mgr'[n]
    OBVIOUS
  <2>2. q.base = mgr[n].base /\ q.plan = mgr[n].plan /\ (q.doc = doc \/ q.doc = mgr[n].doc)
    BY <1>8, <1>11, <2>1
  <2>3. InOrder(q)
    <3>1. CASE n = m
      <4>1. q.pc = "store" /\ q.base = mgr[m].base /\ q.doc = doc /\ q.plan = mgr[m].plan
        BY <1>8, <1>11, <2>1, <3>1
      <4>2. InOrder(mgr[m])
        BY ProcessOf
      <4> QED
        BY <1>1, <1>7, <4>1, <4>2 DEF InOrder
    <3>2. CASE n # m
      BY <1>11, <2>1, <3>2, ProcessOf
    <3> QED
      BY <3>1, <3>2
  <2>4. ASSUME "listing" \notin weakened' PROVE Spares(q)'
    <3>1. Lists(mgr[n].base) /\ Lists(mgr[n].doc) /\ \A r \in mgr[n].plan : r.id \notin protected
      BY <1>18, <2>4, ProcessOf DEF Spares
    <3>2. PICK b, d : b = mgr[n].base /\ d = mgr[n].doc
      OBVIOUS
    <3>3. Lists(b)' /\ Lists(d)'
      <4>1. (b = Missing \/ ~first) /\ (d = Missing \/ ~first) /\ Lists(b) /\ Lists(d)
        BY <1>3, <3>1, <3>2 DEF Lists
      <4> QED
        BY <1>16, <2>4, <4>1
    <3>4. \A r \in mgr[n].plan : r.id \notin protected'
      BY <1>3, <1>15, <3>1
    <3> QED
      BY <1>17, <2>2, <2>4, <3>2, <3>3, <3>4 DEF Spares, Lists
  <2>5. InOrder(q)'
    BY <1>1, <2>3 DEF InOrder
  <2> QED
    BY <2>1, <2>4, <2>5 DEF InOrder, Spares, Lists
<1>21. Guards'
  BY <1>19, <1>20 DEF Guards
<1> QED
  BY <1>9, <1>10, <1>12, <1>13, <1>14, <1>21, HostStep

LEMMA WriteBaselineKeeps ==
  ASSUME IInv, NEW m \in Managers, WriteBaseline(m)
  PROVE  IInv'
<1>1. /\ Stays /\ UNCHANGED <<protected, weakened>> /\ mgr[m].pc = "store"
      /\ baseline' = mgr[m].doc /\ Manager(m, Idle)
  BY DEF WriteBaseline
<1>2. mgr[m].doc # Missing /\ mgr[m].doc \in Baselines
  BY <1>1, ProcessOf DEF InOrder, Processes
<1>3. UNCHANGED <<resources, creating, mode, at, journal, result>>
  BY <1>1 DEF Stays, daemonVars
<1>4. Host' /\ \A b \in Attempts : Kept(b)
  BY <1>1, <1>3, HostStays DEF IInv, daemonVars
<1>5. Grows /\ CompletedIsRecorded'
  BY <1>3, JournalStays, CompletedStays DEF IInv
<1>6. /\ mgr' \in [Managers -> Processes]
      /\ \A n \in Managers : mgr'[n] = IF n = m THEN Idle ELSE mgr[n]
  BY <1>1, IdleSpares DEF Manager, IInv, Shapes
<1>7. Shapes'
  BY <1>1, <1>2, <1>3, <1>5, <1>6 DEF IInv, Shapes, Grows
<1>8. ASSUME NEW d PROVE Lists(d)' = Lists(d)
  BY <1>1, <1>3 DEF Lists
<1>9. "listing" \notin weakened' => Lists(baseline)'
  <2>1. PICK d : d = mgr[m].doc
    OBVIOUS
  <2>2. "listing" \notin weakened' => Lists(d)'
    BY <1>1, <1>8, <2>1, ProcessOf DEF Spares
  <2> QED
    BY <1>1, <2>1, <2>2 DEF Lists
<1>10. ASSUME NEW n \in Managers
       PROVE  InOrder(mgr[n])' /\ ("listing" \notin weakened' => Spares(mgr[n])')
  <2>1. PICK q : q = mgr'[n]
    OBVIOUS
  <2>2. InOrder(q) /\ ("listing" \notin weakened => Spares(q))
    BY <1>6, <2>1, ProcessOf, IdleSpares
  <2>3. InOrder(q)' /\ ("listing" \notin weakened' => Spares(q)')
    BY <1>1, <1>2, <1>8, <2>2 DEF InOrder, Spares
  <2> QED
    BY <2>1, <2>3 DEF InOrder, Spares, Lists
<1>11. Guards'
  BY <1>9, <1>10 DEF Guards
<1> QED
  BY <1>3, <1>4, <1>5, <1>7, <1>11, HostStep

-----------------------------------------------------------------------------
(* The theorems *)

LEMMA HostStarts ==
  ASSUME HostInit PROVE IInv
<1>1. /\ resources = Present /\ creating = {} /\ at = [a \in Attempts |-> Fresh]
      /\ result = None /\ mode \in [Attempts -> {"docker-run", "docker-compose"}]
      /\ protected \subseteq Identities(Present) /\ mgr = [m \in Managers |-> Idle] /\ weakened = {}
  BY DEF HostInit, Init, DaemonInit, CasesInit, ResourcesInit
<1>2. \/ baseline = Missing /\ protected = {}
      \/ /\ protected = Identities(Present)
         /\ baseline = [available |-> TRUE, ids |-> Identities(Present)]
  BY DEF HostInit, ResourcesInit
<1>3. PICK s \in Statuses : journal = <<Event("earlier", Nobody, s)>>
  BY StatusesAssumption DEF HostInit, Init, CasesInit
<1>4. resources \subseteq Resource(Ids)
  BY <1>1, DaemonAssumption DEF Resource, Ids
<1>5. [available |-> TRUE, ids |-> Identities(Present)] \in Baselines
  <2>1. Identities(Present) \subseteq Ids
    BY DEF Ids
  <2> QED
    BY <2>1 DEF Baselines
<1>6. [available |-> TRUE, ids |-> Identities(Present)] # Missing
  BY <1>5, ResourcesAssumption DEF Baselines, Ids
<1>7. Shapes
  <2>1. Event("earlier", Nobody, s) \in Records
    BY EventIsRecord DEF Events
  <2>2. journal \in Seq(Records)
    BY <1>3, <2>1
  <2>3. Shape(Fresh)
    BY DEF Fresh, Shape, Fields
  <2>4. baseline \in Baselines \cup {Missing}
    BY <1>2, <1>5
  <2>5. mgr \in [Managers -> Processes]
    BY <1>1, IdleSpares
  <2> QED
    BY <1>1, <1>4, <2>2, <2>3, <2>4, <2>5 DEF Shapes
<1>8. Host
  <2>1. \A r \in Present : Labelled(r)
    BY DaemonAssumption, CasesAssumption DEF Labelled, CaseIds
  <2> QED
    BY <1>1, <2>1 DEF Host
<1>9. ASSUME NEW a \in Attempts PROVE Fits(at[a], a)
  <2>1. Nothing(a)
    BY <1>1, DaemonAssumption DEF Nothing, OwnedByCase, CaseOwned, ProjectOwned, Pending
  <2>2. CaseIds(a) \cap protected = {}
    BY <1>1, CasesAssumption DEF CaseIds, Identities
  <2>3. at[a] = Fresh
    BY <1>1
  <2>4. HelperFits(Fresh, a)
    BY <2>1, <2>2 DEF HelperFits, Untouched, Fresh, Before, AtHelper
  <2>5. CleanFits(Fresh, a) /\ Hiding(Fresh, a) /\ RecordFits(Fresh, a)
    BY DEF CleanFits, Hiding, RecordFits, Fresh, AtHelper, Cleaning
  <2> QED
    BY <2>3, <2>4, <2>5 DEF Fits
<1>10. CompletedIsRecorded
  BY <1>1 DEF CompletedIsRecorded
<1>11. Guards
  <2>1. \A m \in Managers : mgr[m] = Idle
    BY <1>1
  <2>2. Lists(baseline)
    BY <1>1, <1>2, <1>6 DEF Lists, Identities
  <2> QED
    BY <2>1, <2>2, IdleSpares DEF Guards
<1> QED
  BY <1>7, <1>8, <1>9, <1>10, <1>11 DEF IInv, Attempted

LEMMA AttemptKeeps ==
  ASSUME IInv, NEW a \in Attempts, Attempt(a), UNCHANGED resourceVars PROVE IInv'
<1>1. ASSUME NEW p \in Requested, Call(a, p) PROVE IInv'
  BY <1>1, CallKeeps
<1>2. ASSUME ReadAuthority(a) PROVE IInv'
  BY <1>2, ReadAuthorityKeeps
<1>3. ASSUME NEW c \in Changes, CheckDocker(a, c) PROVE IInv'
  BY <1>3, CheckDockerKeeps
<1>4. ASSUME Resume(a) PROVE IInv'
  BY <1>4, ResumeKeeps
<1>5. ASSUME VerifyPinned(a) PROVE IInv'
  BY <1>5, VerifyPinnedKeeps
<1>6. ASSUME Start(a) PROVE IInv'
  BY <1>6, StartKeeps
<1>7. ASSUME Launched(a) PROVE IInv'
  BY <1>7, LaunchedKeeps
<1>8. ASSUME Waited(a) PROVE IInv'
  BY <1>8, WaitedKeeps
<1>9. ASSUME ReadResponse(a) PROVE IInv'
  BY <1>9, ReadResponseKeeps
<1>10. ASSUME AbortOnDrift(a) PROVE IInv'
  BY <1>10, AbortOnDriftKeeps
<1>11. ASSUME Aborted(a) PROVE IInv'
  BY <1>11, AbortedKeeps
<1>12. ASSUME RefuseReceipt(a) PROVE IInv'
  BY <1>12, RefuseReceiptKeeps
<1>13. ASSUME ScanBefore(a) PROVE IInv'
  BY <1>13, ScanBeforeKeeps
<1>14. ASSUME Remove(a) PROVE IInv'
  BY <1>14, RemoveKeeps
<1>15. ASSUME ScanAfter(a) PROVE IInv'
  BY <1>15, ScanAfterKeeps
<1>16. ASSUME Publish(a) PROVE IInv'
  BY <1>16, PublishKeeps
<1>17. ASSUME RecordOutcome(a) PROVE IInv'
  BY <1>17, RecordOutcomeKeeps
<1>18. ASSUME AppendLog(a) PROVE IInv'
  BY <1>18, AppendLogKeeps
<1>19. ASSUME PublishFinal(a) PROVE IInv'
  BY <1>19, PublishFinalKeeps
<1>20. ASSUME Exit(a) PROVE IInv'
  BY <1>20, ExitKeeps
<1>21. ASSUME End(a) PROVE IInv'
  BY <1>21, EndKeeps
<1>22. ASSUME SignalHandled(a) PROVE IInv'
  BY <1>22, SignalHandledKeeps
<1> QED
  BY <1>1, <1>2, <1>3, <1>4, <1>5, <1>6, <1>7, <1>8, <1>9, <1>10, <1>11, <1>12, <1>13, <1>14,
     <1>15, <1>16, <1>17, <1>18, <1>19, <1>20, <1>21, <1>22 DEF Attempt

LEMMA HostKeeps ==
  ASSUME IInv, [HostNext]_allVars PROVE IInv'
<1>1. ASSUME NEW a \in Attempts, Helper(a), UNCHANGED resourceVars PROVE IInv'
  BY <1>1, HelperStartsKeeps, HelperWritesKeeps, HelperEndsKeeps DEF Helper
<1>2. ASSUME NEW a \in Attempts, Trouble(a), UNCHANGED resourceVars PROVE IInv'
  BY <1>2, SignalKeeps, KillKeeps, DriftKeeps DEF Trouble
<1>3. ASSUME CasesStep, UNCHANGED resourceVars PROVE IInv'
  <2>1. ASSUME NEW a \in Attempts, Attempt(a) PROVE IInv'
    BY <1>3, <2>1, AttemptKeeps
  <2>2. ASSUME NEW s \in Others, OtherEvent(s) PROVE IInv'
    BY <1>3, <2>2, OtherEventKeeps, StatusesAssumption
  <2>3. ASSUME DaemonStep, UNCHANGED caseVars PROVE IInv'
    BY <1>3, <2>3, DaemonKeeps
  <2> QED
    BY <1>1, <1>2, <1>3, <2>1, <2>2, <2>3 DEF CasesStep
<1>4. ASSUME Manage PROVE IInv'
  BY <1>4, CommandKeeps, CheckResidueKeeps, CaptureBaselineKeeps, WriteBaselineKeeps, InspectKeeps,
     RemovePlannedKeeps DEF Manage
<1>5. ASSUME UNCHANGED allVars PROVE IInv'
  BY <1>5, NothingMoves DEF allVars, vars, caseVars
<1> QED
  BY <1>3, <1>4, <1>5 DEF HostNext

LEMMA HostInvariant == HostSpec => []IInv
<1>1. HostInit => IInv
  BY HostStarts
<1>2. IInv /\ [HostNext]_allVars => IInv'
  BY HostKeeps
<1> QED
  BY <1>1, <1>2, PTL DEF HostSpec

\* An attempt that came to its end and did not report that its cleanup failed has left nothing,
\* and nothing of it can still come: whatever the daemon has accepted, the three clean scans in a
\* row of docker_case_lifecycle.py:589 have waited for it, wherever a signal, an edited file, a
\* failing command or another attempt at the case met run_verification_case.sh.
THEOREM NothingStaysUnreported == HostSpec => []NothingLeftUnreported
<1>1. IInv => NothingLeftUnreported
  BY DEF IInv, Attempted, Fits, CleanFits, Nothing, NothingLeftUnreported
<1> QED
  BY <1>1, HostInvariant, PTL

\* The result file of a case calls an attempt completed only if the journal holds its outcome
\* (run_verification_case.sh:1543 classify_and_exit), whoever else wrote either file.
THEOREM CompletedRecorded == HostSpec => []CompletedIsRecorded
<1>1. IInv => CompletedIsRecorded
  BY DEF IInv
<1> QED
  BY <1>1, HostInvariant, PTL

LEMMA AppendTells ==
  ASSUME NEW j \in Seq(Records), NEW r, NEW q, Append(j, r) = Append(j, q)
  PROVE  r = q
<1>1. Len(j) \in Nat
  BY LenProperties
<1> DEFINE p(x) == Append(j, x)
<1>2. ASSUME NEW x PROVE p(x)[Len(j) + 1] = x
  BY <1>1
<1> QED
  BY <1>2

LEMMA AppendGrows ==
  ASSUME NEW j \in Seq(Records), NEW r \in Records PROVE Append(j, r) # j
  BY LenProperties, AppendProperties

\* What a step adds to the journal.
LEMMA WhatIsRecorded ==
  ASSUME [HostNext]_allVars
  PROVE  \/ journal' = journal
         \/ \E b \in Attempts : RecordOutcome(b)
         \/ \E b, s, e : e # "completed" /\ journal' = Append(journal, Event(e, b, s))
<1> DEFINE Else == \E b, s, e : e # "completed" /\ journal' = Append(journal, Event(e, b, s))
<1>1. ASSUME NEW b, NEW s, NEW e, e # "completed", journal' = Append(journal, Event(e, b, s))
      PROVE  Else
  BY <1>1
<1> HIDE DEF Else
<1>2. ASSUME NEW b \in Attempts, Attempt(b)
      PROVE  journal' = journal \/ RecordOutcome(b) \/ Else
  <2>1. ASSUME Resume(b) PROVE journal' = journal \/ Else
    <3>1. journal' = journal \/ journal' = Append(journal, Event("resumed", b, "running"))
      BY <2>1 DEF Resume, Commits, BlockedBeforeExecution, CommitFails
    <3> QED
      BY <1>1, <3>1
  <2>2. ASSUME Start(b) PROVE journal' = journal \/ Else
    <3>1. journal' = journal \/ journal' = Append(journal, Event("started", b, "running"))
      BY <2>2 DEF Start, Commits, BlockedBeforeExecution, CommitFails
    <3> QED
      BY <1>1, <3>1
  <2>3. ASSUME \/ (\E p \in Requested : Call(b, p)) \/ ReadAuthority(b)
               \/ (\E c \in Changes : CheckDocker(b, c)) \/ VerifyPinned(b) \/ Launched(b)
               \/ Waited(b) \/ ReadResponse(b) \/ AbortOnDrift(b) \/ Aborted(b) \/ RefuseReceipt(b)
               \/ ScanBefore(b) \/ Remove(b) \/ ScanAfter(b) \/ Publish(b) \/ AppendLog(b)
               \/ PublishFinal(b) \/ Exit(b) \/ End(b) \/ SignalHandled(b)
        PROVE  journal' = journal
    BY <2>3 DEF Call, ReadAuthority, CheckDocker, VerifyPinned, Launched, Waited, ReadResponse,
       AbortOnDrift, Aborted, RefuseReceipt, ScanBefore, Remove, ScanAfter, Publish, AppendLog,
       PublishFinal, Exit, End, SignalHandled
  <2> QED
    BY <1>2, <2>1, <2>2, <2>3 DEF Attempt
<1>3. ASSUME NEW b \in Attempts, Helper(b) \/ Trouble(b) PROVE journal' = journal
  BY <1>3 DEF Helper, HelperStarts, HelperWrites, HelperEnds, Trouble, Signal, Kill, Drift
<1>4. ASSUME NEW s \in Statuses, OtherEvent(s) PROVE Else
  BY <1>1, <1>4 DEF OtherEvent
<1>5. ASSUME UNCHANGED caseVars \/ UNCHANGED allVars PROVE journal' = journal
  BY <1>5 DEF caseVars, allVars, vars
<1>6. ASSUME Manage PROVE journal' = journal
  <2>1. PICK m \in Managers :
          \/ \E c \in Commands : Command(m, c)
          \/ \E available \in BOOLEAN, failed \in Kinds \cup {"none"} :
               CheckResidue(m, available, failed) \/ CaptureBaseline(m, available, failed)
                 \/ Inspect(m, available, failed)
          \/ WriteBaseline(m) \/ RemovePlanned(m)
    BY <1>6 DEF Manage
  <2> QED
    BY <2>1 DEF Command, CheckResidue, CaptureBaseline, WriteBaseline, Inspect, RemovePlanned, Stays
<1>7. journal' = journal \/ (\E b \in Attempts : RecordOutcome(b)) \/ Else
  BY <1>2, <1>3, <1>4, <1>5, <1>6, StatusesAssumption DEF HostNext, CasesStep
<1> QED
  BY <1>7 DEF Else

LEMMA ConfirmedStep ==
  ASSUME IInv, [HostNext]_allVars, NEW a \in Attempts,
         journal' = Append(journal, Event("completed", a, "running"))
  PROVE  Nothing(a)
<1>1. journal \in Seq(Records) /\ Event("completed", a, "running") \in Records
  BY EventIsRecord DEF IInv, Shapes, Events, Statuses
<1>2. journal' # journal
  BY <1>1, AppendGrows
<1>3. ~\E b, s, e : e # "completed" /\ journal' = Append(journal, Event(e, b, s))
  <2>1. ASSUME NEW b, NEW s, NEW e, journal' = Append(journal, Event(e, b, s))
        PROVE  e = "completed"
    <3>1. Event(e, b, s) = Event("completed", a, "running")
      BY <1>1, <2>1, AppendTells
    <3> QED
      BY <3>1 DEF Event
  <2> QED
    BY <2>1
<1>4. PICK b \in Attempts : RecordOutcome(b)
  BY <1>2, <1>3, WhatIsRecorded
<1>5. PICK s : journal' = Append(journal, Event(EventOf(at[b].status), b, s))
  BY <1>2, <1>4 DEF RecordOutcome, Commits, CommitFails
<1>6. b = a /\ EventOf(at[b].status) = "completed"
  <2>1. Event(EventOf(at[b].status), b, s) = Event("completed", a, "running")
    BY <1>1, <1>5, AppendTells
  <2> QED
    BY <2>1 DEF Event
<1>7. at[a].status = "confirmed_in_docker" /\ at[a].pc = "event"
  BY <1>4, <1>6 DEF EventOf, RecordOutcome
<1> QED
  BY <1>7 DEF IInv, Attempted, Fits, CleanFits

\* A confirmation enters the journal only after a cleanup that was verified, and nothing of its
\* attempt has come back since (classify_and_exit, run_verification_case.sh:1424, 1463).
THEOREM ConfirmedNeedsCleanup == HostSpec => ConfirmedAfterCleanup
<1> DEFINE P == \A a \in Attempts :
                  journal' = Append(journal, Event("completed", a, "running"))
                    => OwnedByCase(a) = {} /\ Pending(a) = {}
<1>1. IInv /\ [HostNext]_allVars => [P]_vars
  BY ConfirmedStep DEF Nothing
<1> QED
  BY <1>1, HostInvariant, PTL DEF HostSpec, ConfirmedAfterCleanup

\* What the first baseline of a workspace lists is never removed by the resource manager, whatever
\* labels and adoptions claim it, however often the baseline is overwritten and however many of
\* its commands overlap, as long as every listing succeeds (manage_docker_resources.py:471
\* apply_cleanup, main 809-842); of several captures that found none, what all of them listed.
THEOREM BaselineKept == HostSpec => BaselineResourcesKept
<1> DEFINE P == \A r \in resources : /\ r.id \in protected
                                     /\ r.id \notin Identities(resources')
                                     /\ "listing" \notin weakened
                                     => mgr' = mgr
<1>1. IInv /\ [HostNext]_allVars => [P]_allVars
  <2> SUFFICES ASSUME IInv, [HostNext]_allVars, NEW r \in resources, r.id \in protected,
                      r.id \notin Identities(resources'), "listing" \notin weakened
               PROVE  mgr' = mgr
    OBVIOUS
  <2>1. resources' # resources
    BY DEF Identities
  <2>2. ASSUME NEW m \in Managers, RemovePlanned(m) PROVE FALSE
    <3>1. PICK q \in mgr[m].plan :
            resources' = resources \/ resources' = {x \in resources : x.id # q.id}
      BY <2>2 DEF RemovePlanned
    <3>2. q.id \notin protected
      BY ProcessOf DEF Spares
    <3> QED
      BY <2>1, <3>1, <3>2 DEF Identities
  <2>3. ASSUME Manage PROVE \E m \in Managers : RemovePlanned(m)
    <3>1. PICK m \in Managers :
            \/ \E c \in Commands : Command(m, c)
            \/ \E available \in BOOLEAN, failed \in Kinds \cup {"none"} :
                 CheckResidue(m, available, failed) \/ CaptureBaseline(m, available, failed)
                   \/ Inspect(m, available, failed)
            \/ WriteBaseline(m) \/ RemovePlanned(m)
      BY <2>3 DEF Manage
    <3>2. ASSUME Stays PROVE FALSE
      BY <2>1, <3>2 DEF Stays, daemonVars
    <3> QED
      BY <3>1, <3>2 DEF Command, CheckResidue, CaptureBaseline, WriteBaseline, Inspect
  <2>4. ASSUME UNCHANGED resourceVars \/ UNCHANGED allVars PROVE mgr' = mgr
    BY <2>4 DEF allVars, resourceVars
  <2> QED
    BY <2>2, <2>3, <2>4 DEF HostNext
<1> QED
  BY <1>1, HostInvariant, PTL DEF HostSpec, BaselineResourcesKept

\* A strict check that says clean has looked at everything: as long as one baseline was captured
\* and every listing succeeds, no container and no volume an attempt created since is there,
\* whatever its mode and whatever became of its wrapper (manage_docker_resources.py:649).
THEOREM StrictCleanTrue == HostSpec => StrictCleanIsTruthful
<1> DEFINE P == cleanliness' # cleanliness /\ cleanliness' = [clean |-> TRUE, strict |-> TRUE]
                  /\ weakened' = {} =>
                \A r \in resources : (r.token = Nobody /\ r.project = Nobody) \/ r.id \in protected
<1>1. IInv /\ [HostNext]_allVars => [P]_allVars
  <2> SUFFICES ASSUME IInv, [HostNext]_allVars, cleanliness' # cleanliness,
                      cleanliness' = [clean |-> TRUE, strict |-> TRUE], weakened' = {},
                      NEW r \in resources, r.token # Nobody \/ r.project # Nobody
               PROVE  r.id \in protected
    OBVIOUS
  <2>1. PICK m \in Managers, available \in BOOLEAN, failed \in Kinds \cup {"none"} :
          Inspect(m, available, failed)
    BY DEF HostNext, Manage, Command, CheckResidue, CaptureBaseline, WriteBaseline, RemovePlanned,
       resourceVars, allVars
  <2> DEFINE current == Captured(resources, available, failed)
             base == mgr[m].base
             plan == BuildPlan(base, current)
             strict == mgr[m].pc = "strict"
             clean == CleanOf(plan, strict)
  <2>2. available /\ cleanliness' = [clean |-> clean, strict |-> strict]
    BY <2>1 DEF Inspect
  <2>3. /\ weakened' = weakened \cup (IF failed = "none" THEN {} ELSE {"listing"})
        /\ mgr[m].pc \in {"verify", "strict", "cleanup"}
    BY <2>1 DEF Inspect
  <2>4. New(base, current) = OwnedResidue(plan) \cup plan.unattributed
    BY WhatIsPlanned
  <2>5. failed = "none" /\ weakened = {} /\ current.resources = resources
    BY <2>2, <2>3, WhatIsCaptured DEF IInv
  <2> HIDE DEF plan, current
  <2>6. clean = TRUE /\ strict = TRUE
    <3> HIDE DEF clean, strict
    <3> QED
      BY <2>2
  <2>7. New(base, current) = {}
    BY <2>4, <2>6 DEF CleanOf
  <2>8. base.ids = protected
    BY <2>3, <2>5, ProcessOf DEF InOrder, Spares, Lists
  <2>9. r.kind # "network"
    BY DEF IInv, Host, Labelled
  <2> QED
    BY <2>5, <2>7, <2>8, <2>9 DEF New
<1> QED
  BY <1>1, HostInvariant, PTL DEF HostSpec, StrictCleanIsTruthful
=============================================================================
