-------------------------- MODULE ReportingProofs --------------------------
(***************************************************************************)
(* Theorems about Reporting, for any number of tasks, any limit of events  *)
(* and any number of failures of the delivery.                             *)
(***************************************************************************)
EXTENDS Reporting, FiniteSetTheorems, NaturalsInduction, WellFoundedInduction, TLAPS

-----------------------------------------------------------------------------
(* The inductive invariant.                                                *)

Ended == {t \in Tasks : status[t] # "running"}
Told == {t \in Published : publish[t] = "told"}

\* An id for each task that has ended and for each publication told; a task has
\* no row before.
Counted ==
    /\ last = Cardinality(Ended) + Cardinality(Told)
    /\ \A t \in Tasks : publish[t] # "no" => t \in Published
    /\ \A n \in DOMAIN notes :
          IF notes[n].kind = "terminal" THEN status[notes[n].task] # "running"
          ELSE publish[notes[n].task] = "told"

\* The ids that a client holds, or that were heard, have been given.
Given ==
    /\ heard \subseteq 1..last /\ client.todo \subseteq 1..last
    /\ client.pc = "ack" => client.todo # {} /\ First(client.todo) \in heard

\* What was recorded before something the client still holds, it holds too or it
\* has been heard.
HeldInOrder ==
    \A m \in DOMAIN notes, n \in client.todo : m < n /\ m \notin client.todo => m \in heard

\* The announcements that are going to be spoken again: heard, and still pending
\* or held, but for the one that is being acknowledged.
Owed ==
    {n \in heard : n \in Pending \/ n \in client.todo}
        \ {n \in client.todo : client.pc = "ack" /\ n = First(client.todo)}

\* A failure has been counted for each of them.
OwedForFailures == repeats + Cardinality(Owed) <= faults

IndInv ==
    /\ TypeOK /\ Counted /\ Given
    /\ AckedWasSpoken /\ HeldInOrder /\ SpokenInOrder
    /\ OwedForFailures /\ NoEventsOfDeleted

-----------------------------------------------------------------------------
(* Lemmas about the operators.                                             *)

\* The least of a set of numbers.
LEMMA LeastExists ==
    ASSUME NEW S \in SUBSET Nat, S # {}
    PROVE  Min(S) \in S /\ \A n \in S : Min(S) <= n
<1>1. PICK m \in S : \A n \in S : <<n, m>> \notin OpToRel(<, Nat)
  BY NatLessThanWellFounded, WFMin, Zenon
<1>2. \A n \in S : ~(n < m)
  BY <1>1, Zenon DEF OpToRel
<1>3. \A n \in S : m <= n
  BY <1>2
<1> QED BY <1>3 DEF Min

\* What the client speaks is the least id it holds.
LEMMA FirstIsLeast ==
    ASSUME NEW S \in SUBSET Nat, S # {}
    PROVE  First(S) \in S /\ \A n \in S : First(S) <= n
BY LeastExists DEF First

\* There are finitely many tasks and ids.
LEMMA FiniteIds ==
    /\ IsFiniteSet(Tasks) /\ Cardinality(Tasks) = NTasks
    /\ IsFiniteSet(Published) /\ Cardinality(Published) \in Nat
    /\ NTasks \in Nat /\ Ids \subseteq Nat
    /\ \A n \in Nat : n \in Ids \cup {0} <=> n <= NTasks + Cardinality(Published)
<1>1. NTasks \in Nat \ {0} /\ Published \in SUBSET Tasks
  BY ReportingAssumption
<1>2. IsFiniteSet(Tasks) /\ Cardinality(Tasks) = NTasks
  BY <1>1, FS_Interval DEF Tasks
<1>3. IsFiniteSet(Published) /\ Cardinality(Published) \in Nat
  BY <1>1, <1>2, FS_Subset, FS_CardinalityType
<1> QED BY <1>1, <1>2, <1>3 DEF Ids

\* Sets of tasks and of published tasks, and of ids given, are finite; these are
\* no more than ids are numbered.
LEMMA CountFacts ==
    /\ IsFiniteSet(Ended) /\ Cardinality(Ended) \in Nat /\ Cardinality(Ended) <= NTasks
    /\ IsFiniteSet(Told) /\ Cardinality(Told) \in Nat
    /\ Cardinality(Told) <= Cardinality(Published)
<1>1. Ended \in SUBSET Tasks /\ Told \in SUBSET Published
  BY DEF Ended, Told
<1>2. IsFiniteSet(Ended) /\ Cardinality(Ended) <= NTasks
  BY <1>1, FiniteIds, FS_Subset
<1>3. IsFiniteSet(Told) /\ Cardinality(Told) <= Cardinality(Published)
  BY <1>1, FiniteIds, FS_Subset
<1> QED BY <1>2, <1>3, FS_CardinalityType

\* Owed announcements are ids, and finitely many.
LEMMA OwedFacts ==
    ASSUME TypeOK
    PROVE  IsFiniteSet(Owed) /\ Cardinality(Owed) \in Nat
<1>1. IsFiniteSet(Ids)
  BY FiniteIds, FS_Interval DEF Ids
<1>2. Owed \in SUBSET Ids
  BY DEF Owed, TypeOK
<1> QED BY <1>1, <1>2, FS_Subset, FS_CardinalityType

-----------------------------------------------------------------------------
(* Announcements are recorded.                                             *)

\* A new announcement of task t, with the next id.
Announced(t, kind) ==
    /\ last' = last + 1 /\ heard' = heard
    /\ DOMAIN notes' = DOMAIN notes \cup {last + 1}
    /\ \A m \in DOMAIN notes : notes'[m] = notes[m]
    /\ notes'[last + 1] = [task |-> t, kind |-> kind, acked |-> FALSE]

\* When the task has no announcement of this kind yet, Notify makes one; its id
\* was neither given nor heard before.
LEMMA NotifyAnnounces ==
    ASSUME TypeOK, Given, NEW t, NEW kind, Notify(t, kind),
           \A m \in DOMAIN notes : ~(notes[m].task = t /\ notes[m].kind = kind)
    PROVE  Announced(t, kind)
<1>1. last \in Nat /\ last + 1 \notin DOMAIN notes /\ last + 1 \notin heard
  BY FiniteIds DEF TypeOK, Given
<1>2. /\ notes' = [m \in DOMAIN notes \cup {last + 1} |->
                     IF m = last + 1 THEN [task |-> t, kind |-> kind, acked |-> FALSE] ELSE notes[m]]
      /\ last' = last + 1 /\ heard' = heard \ {last + 1}
  BY Zenon DEF Notify, NextId
<1>3. heard' = heard
  BY <1>1, <1>2
<1>4. DOMAIN notes' = DOMAIN notes \cup {last + 1}
  BY <1>2
<1>5. \A m \in DOMAIN notes : notes'[m] = notes[m]
  BY <1>1, <1>2
<1>6. notes'[last + 1] = [task |-> t, kind |-> kind, acked |-> FALSE]
  BY <1>2
<1> QED BY <1>2, <1>3, <1>4, <1>5, <1>6 DEF Announced

\* The end of a task announces it, for the first time.
LEMMA FinishAnnounces ==
    ASSUME TypeOK, Counted, Given, NEW t \in Tasks, Finish(t)
    PROVE  Announced(t, "terminal")
<1>1. \A m \in DOMAIN notes : ~(notes[m].task = t /\ notes[m].kind = "terminal")
  BY DEF Counted, Finish
<1> QED BY <1>1, NotifyAnnounces DEF Finish

\* So does a publication.
LEMMA PublishAnnounces ==
    ASSUME TypeOK, Counted, Given, NEW t \in Tasks, PublishNotify(t)
    PROVE  Announced(t, "published")
<1>1. \A m \in DOMAIN notes : ~(notes[m].task = t /\ notes[m].kind = "published")
  BY DEF Counted, PublishNotify
<1> QED BY <1>1, NotifyAnnounces DEF PublishNotify

\* Rows go with their task, and nothing else does.
LEMMA RetireFacts ==
    ASSUME NEW t \in Tasks, Retire(t)
    PROVE  /\ DOMAIN notes' = {n \in DOMAIN notes : notes[n].task # t}
           /\ \A n \in DOMAIN notes' : notes'[n] = notes[n]
BY DEF Retire, Restrict

\* An acknowledgement marks the row with the least id held.
LEMMA AckFacts ==
    ASSUME TypeOK, Acknowledge
    PROVE  /\ DOMAIN notes' = DOMAIN notes
           /\ \A n \in DOMAIN notes :
                 /\ notes'[n].task = notes[n].task /\ notes'[n].kind = notes[n].kind
                 /\ notes'[n] \in [task: Tasks, kind: {"terminal", "published"}, acked: BOOLEAN]
                 /\ notes'[n].acked <=> notes[n].acked \/ n = First(client.todo)
<1>1. notes' = [n \in DOMAIN notes |->
                  [notes[n] EXCEPT !.acked = @ \/ n \in {First(client.todo)}]]
  BY DEF Acknowledge, Acks
<1>2. DOMAIN notes' = DOMAIN notes
  BY <1>1
<1>3. ASSUME NEW n \in DOMAIN notes
      PROVE  /\ notes'[n].task = notes[n].task /\ notes'[n].kind = notes[n].kind
             /\ notes'[n] \in [task: Tasks, kind: {"terminal", "published"}, acked: BOOLEAN]
             /\ notes'[n].acked <=> notes[n].acked \/ n = First(client.todo)
  <2>1. notes[n] \in [task: Tasks, kind: {"terminal", "published"}, acked: BOOLEAN]
    BY DEF TypeOK
  <2>2. notes'[n] = [notes[n] EXCEPT !.acked = notes[n].acked \/ n = First(client.todo)]
    BY <1>1
  <2>3. /\ notes'[n].task = notes[n].task /\ notes'[n].kind = notes[n].kind
        /\ notes'[n].acked = (notes[n].acked \/ n = First(client.todo))
    BY <2>1, <2>2
  <2>4. (notes[n].acked \/ n = First(client.todo)) \in BOOLEAN
    BY <2>1
  <2> QED BY <2>1, <2>2, <2>3, <2>4
<1> QED BY <1>2, <1>3

-----------------------------------------------------------------------------
(* Ids are enough, and the variables keep their types.                     *)

\* As many ids are given as tasks have ended and publications were told.
LEMMA CountedStep ==
    ASSUME TypeOK, Counted, Given, [Next]_vars
    PROVE  Counted'
<1> DEFINE Kinds == [task: Tasks, kind: {"terminal", "published"}, acked: BOOLEAN]
<1>0. \A n \in DOMAIN notes : notes[n] \in Kinds
  BY DEF TypeOK
<1>1. CASE \E t \in Tasks : Finish(t)
  <2>1. PICK t \in Tasks : Finish(t)
    BY <1>1
  <2>2. Announced(t, "terminal")
    BY <2>1, FinishAnnounces
  <2>3. /\ status[t] = "running" /\ status' = [status EXCEPT ![t] = "done"]
        /\ publish' = publish
    BY <2>1 DEF Finish
  <2>4. Ended' = Ended \cup {t} /\ t \notin Ended /\ Told' = Told
    BY <2>3 DEF Ended, Told, TypeOK
  <2>5. Cardinality(Ended') = Cardinality(Ended) + 1
    BY <2>4, CountFacts, FS_AddElement
  <2>6. last' = Cardinality(Ended)' + Cardinality(Told)'
    BY <2>2, <2>4, <2>5, CountFacts DEF Announced, Counted
  <2>7. ASSUME NEW n \in DOMAIN notes'
        PROVE  IF notes'[n].kind = "terminal" THEN status'[notes'[n].task] # "running"
               ELSE publish'[notes'[n].task] = "told"
    <3>1. CASE n = last + 1
      BY <2>2, <2>3, <3>1 DEF Announced, TypeOK
    <3>2. CASE n \in DOMAIN notes
      BY <1>0, <2>2, <2>3, <3>2 DEF Announced, Counted, TypeOK
    <3> QED BY <2>2, <3>1, <3>2 DEF Announced
  <2> QED BY <2>3, <2>6, <2>7 DEF Counted
<1>2. CASE \E t \in Tasks : PublishNotify(t)
  <2>1. PICK t \in Tasks : PublishNotify(t)
    BY <1>2
  <2>2. Announced(t, "published")
    BY <2>1, PublishAnnounces
  <2>3. /\ publish[t] = "returned" /\ publish' = [publish EXCEPT ![t] = "told"]
        /\ status' = status
    BY <2>1 DEF PublishNotify
  <2>4. Told' = Told \cup {t} /\ t \notin Told /\ Ended' = Ended
    BY <2>3, ReportingAssumption DEF Ended, Told, TypeOK, Counted
  <2>5. Cardinality(Told') = Cardinality(Told) + 1
    BY <2>4, CountFacts, FS_AddElement
  <2>6. last' = Cardinality(Ended)' + Cardinality(Told)'
    BY <2>2, <2>4, <2>5, CountFacts DEF Announced, Counted
  <2>7. ASSUME NEW n \in DOMAIN notes'
        PROVE  IF notes'[n].kind = "terminal" THEN status'[notes'[n].task] # "running"
               ELSE publish'[notes'[n].task] = "told"
    <3>1. CASE n = last + 1
      BY <2>2, <2>3, <3>1 DEF Announced, TypeOK
    <3>2. CASE n \in DOMAIN notes
      BY <1>0, <2>2, <2>3, <3>2 DEF Announced, Counted, TypeOK
    <3> QED BY <2>2, <3>1, <3>2 DEF Announced
  <2>8. \A u \in Tasks : publish'[u] # "no" => u \in Published
    BY <2>3 DEF Counted, TypeOK
  <2> QED BY <2>6, <2>7, <2>8 DEF Counted
<1>3. CASE \E t \in Tasks : PublishReturns(t)
  <2>1. PICK t \in Tasks : PublishReturns(t)
    BY <1>3
  <2>2. /\ t \in Published /\ publish[t] = "no" /\ publish' = [publish EXCEPT ![t] = "returned"]
        /\ UNCHANGED <<status, notes, last>>
    BY <2>1 DEF PublishReturns
  <2>3. Told' = Told /\ Ended' = Ended
    BY <2>2, ReportingAssumption DEF Ended, Told, TypeOK
  <2>4. \A n \in DOMAIN notes : publish[notes[n].task] = "told" => publish'[notes[n].task] = "told"
    BY <1>0, <2>2 DEF TypeOK
  <2>5. \A u \in Tasks : publish'[u] # "no" => u \in Published
    BY <2>2 DEF Counted, TypeOK
  <2> QED BY <2>2, <2>3, <2>4, <2>5 DEF Counted
<1>4. CASE \E t \in Tasks : Retire(t)
  <2>1. PICK t \in Tasks : Retire(t)
    BY <1>4
  <2>2. /\ status[t] = "done" /\ status' = [status EXCEPT ![t] = "deleted"]
        /\ UNCHANGED <<publish, last>>
    BY <2>1 DEF Retire
  <2>3. Told' = Told /\ Ended' = Ended
    BY <2>2 DEF Ended, Told, TypeOK
  <2>4. \A n \in DOMAIN notes' : n \in DOMAIN notes /\ notes'[n] = notes[n]
    BY <2>1, RetireFacts
  <2>5. \A u \in Tasks : status[u] # "running" => status'[u] # "running"
    BY <2>2 DEF TypeOK
  <2> QED BY <1>0, <2>2, <2>3, <2>4, <2>5 DEF Counted
<1>5. CASE Acknowledge
  <2>1. Told' = Told /\ Ended' = Ended /\ UNCHANGED <<status, publish, last>>
    BY <1>5 DEF Acknowledge, Keeps, Told, Ended
  <2> QED BY <1>5, <2>1, AckFacts DEF Counted
<1>6. CASE UNCHANGED <<status, publish, notes, last>>
  BY <1>6 DEF Counted, Told, Ended
<1>7. ASSUME Fetch \/ Speak \/ DeliveryStops \/ Tick
             \/ (\E t \in Tasks : Consume(t) \/ Disconnect(t)) \/ UNCHANGED vars
      PROVE  UNCHANGED <<status, publish, notes, last>>
  BY <1>7 DEF Fetch, Speak, DeliveryStops, Tick, Consume, Receive, AddEvent, Disconnect,
              Keeps, Rest, vars
<1> QED BY <1>1, <1>2, <1>3, <1>4, <1>5, <1>6, <1>7, Zenon DEF Next

\* So no more ids are given than there are.
LEMMA LastInRange == Counted => last \in Ids \cup {0} /\ last \in Nat
<1> SUFFICES ASSUME Counted PROVE last \in Ids \cup {0} /\ last \in Nat
  OBVIOUS
<1>1. last \in Nat /\ last <= NTasks + Cardinality(Published)
  BY CountFacts, FiniteIds DEF Counted
<1> QED BY <1>1, FiniteIds

\* The rows kept for a task.
LEMMA RecordedFacts ==
    ASSUME TypeOK, NEW t \in Tasks
    PROVE  /\ Recorded(t) \in [Tasks -> 0..Limit]
           /\ \A u \in Tasks : status[u] = "deleted" => Recorded(t)[u] = events[u]
<1>1. Limit \in Nat /\ events \in [Tasks -> 0..Limit]
  BY ReportingAssumption DEF TypeOK
<1> DEFINE S == {events[t] + 1, Limit}
           m == Min(S)
<1>2. S \in SUBSET Nat /\ S # {} /\ Limit \in S
  BY <1>1
<1> HIDE DEF S
<1>3. m \in S /\ m <= Limit
  BY <1>2, LeastExists
<1>4. Recorded(t) = IF status[t] = "deleted" THEN events ELSE [events EXCEPT ![t] = m]
  BY DEF Recorded, S
<1> HIDE DEF m
<1>5. m \in 0..Limit
  BY <1>1, <1>2, <1>3
<1> QED BY <1>1, <1>4, <1>5

\* The variables keep their types.
LEMMA TypeStep ==
    ASSUME TypeOK, Counted, Given, Counted', [Next]_vars
    PROVE  TypeOK'
<1> DEFINE Kinds == [task: Tasks, kind: {"terminal", "published"}, acked: BOOLEAN]
<1>0. /\ \A n \in DOMAIN notes : notes[n] \in Kinds
      /\ DOMAIN notes \subseteq 1..last /\ last \in Nat
  BY LastInRange DEF TypeOK
<1>b. last' \in Ids \cup {0} /\ last' \in Nat
  <2>1. (Counted => last \in Ids \cup {0} /\ last \in Nat)'
    BY LastInRange, PTL
  <2> QED BY <2>1
<1>a. \* What a record of an announcement leaves.
      ASSUME NEW t \in Tasks, NEW kind \in {"terminal", "published"}, Announced(t, kind)
      PROVE  /\ DOMAIN notes' \subseteq 1..last' /\ \A n \in DOMAIN notes' : notes'[n] \in Kinds
             /\ heard' = heard
  <2>1. [task |-> t, kind |-> kind, acked |-> FALSE] \in Kinds
    OBVIOUS
  <2>2. DOMAIN notes' = DOMAIN notes \cup {last + 1} /\ last' = last + 1 /\ heard' = heard
    BY <1>a DEF Announced
  <2>3. DOMAIN notes' \subseteq 1..last'
    BY <1>0, <2>2
  <2>4. \A n \in DOMAIN notes' : notes'[n] \in Kinds
    BY <1>0, <1>a, <2>1, <2>2, Zenon DEF Announced
  <2> QED BY <2>2, <2>3, <2>4
<1>1. CASE \E t \in Tasks : Finish(t)
  <2>1. PICK t \in Tasks : Finish(t)
    BY <1>1
  <2>2. Announced(t, "terminal")
    BY <2>1, FinishAnnounces
  <2>3. /\ status' \in [Tasks -> {"running", "done", "deleted"}]
        /\ UNCHANGED <<publish, client, repeats, faults, stream, events>>
    BY <2>1 DEF Finish, told, activity, TypeOK
  <2> QED BY <1>a, <1>b, <2>2, <2>3 DEF TypeOK
<1>2. CASE \E t \in Tasks : PublishNotify(t)
  <2>1. PICK t \in Tasks : PublishNotify(t)
    BY <1>2
  <2>2. Announced(t, "published")
    BY <2>1, PublishAnnounces
  <2>3. /\ publish' \in [Tasks -> {"no", "returned", "told"}]
        /\ UNCHANGED <<status, client, repeats, faults, stream, events>>
    BY <2>1 DEF PublishNotify, told, activity, TypeOK
  <2> QED BY <1>a, <1>b, <2>2, <2>3 DEF TypeOK
<1>3. CASE \E t \in Tasks : PublishReturns(t)
  BY <1>3 DEF PublishReturns, TypeOK, told, activity
<1>4. CASE \E t \in Tasks : Retire(t)
  <2>1. PICK t \in Tasks : Retire(t)
    BY <1>4
  <2>2. \A n \in DOMAIN notes' : n \in DOMAIN notes /\ notes'[n] = notes[n]
    BY <2>1, RetireFacts
  <2>3. /\ status' \in [Tasks -> {"running", "done", "deleted"}]
        /\ events' \in [Tasks -> 0..Limit]
        /\ UNCHANGED <<publish, last, client, heard, repeats, faults, stream>>
    BY <2>1, ReportingAssumption DEF Retire, told, TypeOK
  <2> QED BY <1>0, <2>2, <2>3 DEF TypeOK
<1>5. CASE Fetch
  <2>1. /\ client' = [client EXCEPT !.todo = Pending]
        /\ UNCHANGED <<status, publish, notes, last, heard, repeats, stream, events, faults>>
    BY <1>5 DEF Fetch, Keeps, activity
  <2>2. Pending \subseteq Ids
    BY <1>0, FiniteIds DEF Pending, TypeOK, Ids
  <2> QED BY <2>1, <2>2 DEF TypeOK
<1>6. CASE Speak
  <2>1. /\ heard' = heard \cup {First(client.todo)} /\ client' = [client EXCEPT !.pc = "ack"]
        /\ repeats' \in {repeats, repeats + 1}
        /\ UNCHANGED <<status, publish, notes, last, stream, events, faults>>
    BY <1>6 DEF Speak, Keeps, activity
  <2>2. client.todo \in SUBSET Nat /\ client.todo # {} /\ client.todo \subseteq Ids
    BY <1>6, FiniteIds DEF Speak, TypeOK
  <2>3. First(client.todo) \in Ids
    BY <2>2, FirstIsLeast
  <2> QED BY <2>1, <2>3 DEF TypeOK
<1>7. CASE Acknowledge
  <2>1. /\ client' = [pc |-> "speak", todo |-> client.todo \ {First(client.todo)}]
        /\ UNCHANGED <<status, publish, last, heard, repeats, stream, events, faults>>
    BY <1>7 DEF Acknowledge, Keeps, activity
  <2>2. client' \in [pc: {"speak", "ack"}, todo: SUBSET Ids]
    BY <2>1 DEF TypeOK
  <2> QED BY <1>0, <1>7, <2>1, <2>2, AckFacts DEF TypeOK
<1>8. CASE DeliveryStops
  <2>1. /\ client' = Idle /\ faults' = faults + 1 /\ faults < MaxFaults
        /\ UNCHANGED <<status, publish, notes, last, heard, repeats, stream, events>>
    BY <1>8 DEF DeliveryStops, Keeps, activity
  <2> QED BY <2>1, ReportingAssumption DEF TypeOK, Idle
<1>9. CASE Tick
  BY <1>9 DEF Tick, Rest, told, TypeOK
<1>10. CASE \E t \in Tasks : Consume(t) \/ Disconnect(t)
  <2>1. PICK t \in Tasks : Consume(t) \/ Disconnect(t)
    BY <1>10
  <2>2. UNCHANGED <<status, publish, notes, last, client, heard, repeats, faults>>
    BY <2>1 DEF Consume, Receive, AddEvent, Disconnect, Rest, told
  <2>3. stream' \in [Tasks -> {"none", "open", "add"}]
    BY <2>1 DEF Consume, Receive, AddEvent, Disconnect, TypeOK
  <2>4. events' \in {events, Recorded(t)}
    BY <2>1 DEF Consume, Receive, AddEvent, Disconnect
  <2> QED BY <2>2, <2>3, <2>4, RecordedFacts DEF TypeOK
<1>11. CASE UNCHANGED vars
  BY <1>11 DEF vars, TypeOK
<1> QED
  BY <1>1, <1>2, <1>3, <1>4, <1>5, <1>6, <1>7, <1>8, <1>9, <1>10, <1>11, Zenon DEF Next

-----------------------------------------------------------------------------
(* Delivery.                                                               *)

held == <<client, repeats, faults>>

\* A step that records an announcement.
Records ==
    /\ \E t \in Tasks, kind \in {"terminal", "published"} : Announced(t, kind)
    /\ UNCHANGED held

\* A step that inserts and updates no announcement, and may delete some.
Leaves ==
    /\ \A n \in DOMAIN notes' : n \in DOMAIN notes /\ notes'[n] = notes[n]
    /\ UNCHANGED <<last, heard>> /\ UNCHANGED held

\* What a step is to the delivery.
LEMMA DeliverySteps ==
    ASSUME TypeOK, Counted, Given, [Next]_vars
    PROVE  Records \/ Leaves \/ Fetch \/ Speak \/ Acknowledge \/ DeliveryStops
<1>1. ASSUME NEW t \in Tasks, Finish(t) PROVE Records
  <2>1. Announced(t, "terminal")
    BY <1>1, FinishAnnounces
  <2>2. UNCHANGED held
    BY <1>1 DEF Finish, told, held
  <2> QED BY <2>1, <2>2 DEF Records
<1>2. ASSUME NEW t \in Tasks, PublishNotify(t) PROVE Records
  <2>1. Announced(t, "published")
    BY <1>2, PublishAnnounces
  <2>2. UNCHANGED held
    BY <1>2 DEF PublishNotify, told, held
  <2> QED BY <2>1, <2>2 DEF Records
<1>3. ASSUME NEW t \in Tasks, Retire(t) PROVE Leaves
  <2>1. UNCHANGED <<last, heard>> /\ UNCHANGED held
    BY <1>3 DEF Retire, told, held
  <2> QED BY <1>3, <2>1, RetireFacts DEF Leaves
<1>4. ASSUME \/ \E t \in Tasks : PublishReturns(t) \/ Consume(t) \/ Disconnect(t)
             \/ Tick \/ UNCHANGED vars
      PROVE  Leaves
  <2>1. UNCHANGED <<notes, last, heard>> /\ UNCHANGED held
    BY <1>4 DEF PublishReturns, Consume, Receive, AddEvent, Disconnect, Tick, Rest, told, vars, held
  <2> QED BY <2>1 DEF Leaves
<1> QED BY <1>1, <1>2, <1>3, <1>4, Zenon DEF Next

\* Sets of ids given are sets of numbers, of which the first is the least.
LEMMA HeldFacts ==
    ASSUME TypeOK, Counted, Given
    PROVE  /\ last \in Nat /\ DOMAIN notes \subseteq 1..last
           /\ client.todo # {} => /\ First(client.todo) \in client.todo
                                  /\ \A n \in client.todo : First(client.todo) <= n
<1>1. last \in Nat /\ DOMAIN notes \subseteq 1..last
  BY LastInRange DEF TypeOK
<1>2. client.todo \in SUBSET Nat
  BY <1>1 DEF Given
<1> QED BY <1>1, <1>2, FirstIsLeast

\* What the steps of a delivery do to what the client holds and has spoken.
LEMMA ClientFacts ==
    ASSUME TypeOK
    PROVE  /\ Fetch => /\ client = Idle /\ client'.pc = "speak" /\ client'.todo = Pending
                       /\ UNCHANGED <<notes, last, heard, repeats, faults>>
           /\ Speak => /\ client.pc = "speak" /\ client.todo # {}
                       /\ client'.pc = "ack" /\ client'.todo = client.todo
                       /\ heard' = heard \cup {First(client.todo)}
                       /\ repeats' = IF First(client.todo) \in heard THEN repeats + 1 ELSE repeats
                       /\ UNCHANGED <<notes, last, faults>>
           /\ Acknowledge => /\ client.pc = "ack" /\ client'.pc = "speak"
                             /\ client'.todo = client.todo \ {First(client.todo)}
                             /\ UNCHANGED <<last, heard, repeats, faults>>
           /\ DeliveryStops => /\ client'.pc = "speak" /\ client'.todo = {}
                               /\ faults' = faults + 1
                               /\ UNCHANGED <<notes, last, heard, repeats>>
<1>1. client.pc \in {"speak", "ack"} /\ client = [pc |-> client.pc, todo |-> client.todo]
  BY DEF TypeOK
<1>2. Fetch => /\ client = Idle /\ client'.pc = "speak" /\ client'.todo = Pending
               /\ UNCHANGED <<notes, last, heard, repeats, faults>>
  BY DEF Fetch, Keeps, Idle
<1>3. Speak => /\ client.pc = "speak" /\ client.todo # {}
               /\ client'.pc = "ack" /\ client'.todo = client.todo
               /\ heard' = heard \cup {First(client.todo)}
               /\ repeats' = IF First(client.todo) \in heard THEN repeats + 1 ELSE repeats
               /\ UNCHANGED <<notes, last, faults>>
  BY <1>1 DEF Speak, Keeps
<1>4. Acknowledge => /\ client.pc = "ack" /\ client'.pc = "speak"
                     /\ client'.todo = client.todo \ {First(client.todo)}
                     /\ UNCHANGED <<last, heard, repeats, faults>>
  BY DEF Acknowledge, Keeps
<1>5. DeliveryStops => /\ client'.pc = "speak" /\ client'.todo = {}
                       /\ faults' = faults + 1
                       /\ UNCHANGED <<notes, last, heard, repeats>>
  BY DEF DeliveryStops, Keeps, Idle
<1> QED BY <1>2, <1>3, <1>4, <1>5

\* What is held and heard has been given.
LEMMA GivenStep ==
    ASSUME TypeOK, Counted, Given, [Next]_vars
    PROVE  Given'
<1>0. /\ last \in Nat /\ DOMAIN notes \subseteq 1..last
      /\ heard \subseteq 1..last /\ client.todo \subseteq 1..last
      /\ client.pc = "ack" => client.todo # {} /\ First(client.todo) \in heard
  BY HeldFacts DEF Given
<1>1. CASE Records
  <2>1. last' = last + 1 /\ heard' = heard /\ client' = client
    BY <1>1 DEF Records, Announced, held
  <2>2. 1..last \subseteq 1..last'
    BY <1>0, <2>1
  <2> QED BY <1>0, <2>1, <2>2 DEF Given
<1>2. CASE Leaves
  BY <1>0, <1>2 DEF Leaves, held, Given
<1>3. CASE Fetch
  <2>1. Pending \subseteq 1..last
    BY <1>0 DEF Pending
  <2>2. client'.pc = "speak" /\ client'.todo = Pending /\ UNCHANGED <<last, heard>>
    BY <1>3, ClientFacts
  <2> QED BY <1>0, <2>1, <2>2 DEF Given
<1>4. CASE Speak
  <2>1. First(client.todo) \in client.todo
    BY <1>4, HeldFacts DEF Speak
  <2>2. /\ client'.todo = client.todo /\ client.todo # {}
        /\ heard' = heard \cup {First(client.todo)} /\ last' = last
    BY <1>4, ClientFacts
  <2> QED BY <1>0, <2>1, <2>2 DEF Given
<1>5. CASE Acknowledge
  <2>1. /\ client'.pc = "speak" /\ client'.todo \subseteq client.todo
        /\ UNCHANGED <<last, heard>>
    BY <1>5, ClientFacts
  <2> QED BY <1>0, <2>1 DEF Given
<1>6. CASE DeliveryStops
  <2>1. client'.pc = "speak" /\ client'.todo = {} /\ UNCHANGED <<last, heard>>
    BY <1>6, ClientFacts
  <2> QED BY <1>0, <2>1 DEF Given
<1> QED BY <1>1, <1>2, <1>3, <1>4, <1>5, <1>6, DeliverySteps

\* What is acknowledged has been spoken, and its id is not given again.
LEMMA AckedStep ==
    ASSUME TypeOK, Counted, Given, AckedWasSpoken, [Next]_vars
    PROVE  AckedWasSpoken'
<1>1. CASE Records
  <2>1. PICK t \in Tasks, kind \in {"terminal", "published"} : Announced(t, kind)
    BY <1>1 DEF Records
  <2>2. /\ heard' = heard /\ DOMAIN notes' = DOMAIN notes \cup {last + 1}
        /\ \A m \in DOMAIN notes : notes'[m] = notes[m]
        /\ notes'[last + 1].acked = FALSE
    BY <2>1 DEF Announced
  <2> QED BY <2>2 DEF AckedWasSpoken
<1>2. CASE Leaves
  BY <1>2 DEF Leaves, AckedWasSpoken
<1>3. CASE Fetch \/ Speak \/ DeliveryStops
  <2>1. notes' = notes /\ heard \subseteq heard'
    BY <1>3, ClientFacts
  <2> QED BY <2>1 DEF AckedWasSpoken
<1>4. CASE Acknowledge
  <2>1. First(client.todo) \in heard /\ heard' = heard
    BY <1>4, ClientFacts DEF Given
  <2> QED BY <1>4, <2>1, AckFacts DEF AckedWasSpoken
<1> QED BY <1>1, <1>2, <1>3, <1>4, DeliverySteps

\* What is passed over in what the client holds has been heard.
LEMMA HeldInOrderStep ==
    ASSUME TypeOK, Counted, Given, AckedWasSpoken, HeldInOrder, [Next]_vars
    PROVE  HeldInOrder'
<1>0. last \in Nat /\ client.todo \subseteq 1..last /\ DOMAIN notes \subseteq 1..last
  BY HeldFacts DEF Given
<1>1. CASE Records
  <2>1. heard' = heard /\ client' = client /\ DOMAIN notes' = DOMAIN notes \cup {last + 1}
    BY <1>1 DEF Records, Announced, held
  <2>2. \A n \in client.todo : ~(last + 1 < n)
    BY <1>0
  <2> QED BY <2>1, <2>2 DEF HeldInOrder
<1>2. CASE Leaves
  BY <1>2 DEF Leaves, held, HeldInOrder
<1>3. CASE Fetch
  <2>1. client'.todo = Pending /\ UNCHANGED <<notes, heard>>
    BY <1>3, ClientFacts
  <2>2. \A m \in DOMAIN notes : m \notin Pending => m \in heard
    BY DEF Pending, AckedWasSpoken
  <2> QED BY <2>1, <2>2 DEF HeldInOrder
<1>4. CASE Speak
  <2>1. client'.todo = client.todo /\ notes' = notes /\ heard \subseteq heard'
    BY <1>4, ClientFacts
  <2> QED BY <2>1 DEF HeldInOrder
<1>5. CASE Acknowledge
  <2>1. /\ client'.todo = client.todo \ {First(client.todo)} /\ heard' = heard
        /\ First(client.todo) \in heard
    BY <1>5, ClientFacts DEF Given
  <2>2. DOMAIN notes' = DOMAIN notes
    BY <1>5, AckFacts
  <2> QED BY <2>1, <2>2 DEF HeldInOrder
<1>6. CASE DeliveryStops
  <2>1. client'.todo = {}
    BY <1>6, ClientFacts
  <2> QED BY <2>1 DEF HeldInOrder
<1> QED BY <1>1, <1>2, <1>3, <1>4, <1>5, <1>6, DeliverySteps

\* The first of what the client holds is never ahead of one not heard.
LEMMA SpokenInOrderStep ==
    ASSUME TypeOK, Counted, Given, HeldInOrder, SpokenInOrder, [Next]_vars
    PROVE  SpokenInOrder'
<1>0. last \in Nat /\ heard \subseteq 1..last /\ DOMAIN notes \subseteq 1..last
  BY HeldFacts DEF Given
<1>s. \A m \in DOMAIN notes, n \in heard : m < n => m \in heard
  BY <1>0 DEF SpokenInOrder
<1>1. CASE Records
  <2>1. heard' = heard /\ DOMAIN notes' = DOMAIN notes \cup {last + 1}
    BY <1>1 DEF Records, Announced
  <2>2. \A n \in heard : ~(last + 1 < n)
    BY <1>0
  <2> QED BY <1>s, <2>1, <2>2 DEF SpokenInOrder
<1>2. CASE Leaves
  BY <1>s, <1>2 DEF Leaves, SpokenInOrder
<1>3. CASE Fetch \/ DeliveryStops
  <2>1. UNCHANGED <<notes, heard>>
    BY <1>3, ClientFacts
  <2> QED BY <1>s, <2>1 DEF SpokenInOrder
<1>4. CASE Speak
  <2> DEFINE n == First(client.todo)
  <2>1. notes' = notes /\ heard' = heard \cup {n} /\ client.todo # {}
    BY <1>4, ClientFacts
  <2>2. n \in client.todo /\ \A k \in client.todo : n <= k
    BY <2>1, HeldFacts
  <2>3. client.todo \subseteq Nat /\ DOMAIN notes \subseteq Nat
    BY <1>0 DEF Given
  <2> HIDE DEF n
  <2>4. \A m \in DOMAIN notes : m < n => m \notin client.todo
    BY <2>2, <2>3
  <2>5. \A m \in DOMAIN notes : m < n => m \in heard
    BY <2>2, <2>4 DEF HeldInOrder
  <2> QED BY <1>s, <2>1, <2>5 DEF SpokenInOrder
<1>5. CASE Acknowledge
  <2>1. heard' = heard /\ DOMAIN notes' = DOMAIN notes
    BY <1>5, ClientFacts, AckFacts
  <2> QED BY <1>s, <2>1 DEF SpokenInOrder
<1> QED BY <1>1, <1>2, <1>3, <1>4, <1>5, DeliverySteps

\* A failure lets one more announcement be repeated, a repetition one less.
LEMMA OwedStep ==
    ASSUME TypeOK, TypeOK', Counted, Given, OwedForFailures, [Next]_vars
    PROVE  OwedForFailures'
<1>0. /\ last \in Nat /\ heard \subseteq 1..last /\ client.todo \subseteq 1..last
      /\ repeats \in Nat /\ faults \in Nat /\ IsFiniteSet(Owed) /\ Cardinality(Owed) \in Nat
  BY HeldFacts, OwedFacts, ReportingAssumption DEF Given, TypeOK
<1> DEFINE n == First(client.todo)
<1>n. client.todo # {} => n \in client.todo
  BY HeldFacts
<1> HIDE DEF n
<1>o. Owed = {i \in heard : i \in Pending \/ i \in client.todo}
                 \ {i \in client.todo : client.pc = "ack" /\ i = n}
  BY DEF Owed, n
<1>p. \* The same announcements after the step, or fewer.
      ASSUME Owed' \subseteq Owed, repeats' = repeats, faults' \in {faults, faults + 1}
      PROVE  OwedForFailures'
  <2>1. Cardinality(Owed') <= Cardinality(Owed) /\ Cardinality(Owed') \in Nat
    BY <1>0, <1>p, FS_Subset, FS_CardinalityType
  <2> QED BY <1>0, <1>p, <2>1 DEF OwedForFailures
<1>1. CASE Records
  <2>1. PICK t \in Tasks, kind \in {"terminal", "published"} : Announced(t, kind)
    BY <1>1 DEF Records
  <2>2. heard' = heard /\ UNCHANGED held /\ Pending' = Pending \cup {last + 1}
    BY <1>1, <2>1 DEF Records, Announced, Pending
  <2>3. last + 1 \notin heard
    BY <1>0
  <2>4. Owed' \subseteq Owed
    BY <2>2, <2>3 DEF Owed, held
  <2> QED BY <1>p, <2>2, <2>4 DEF held
<1>2. CASE Leaves
  <2>1. Pending' \subseteq Pending /\ heard' = heard /\ UNCHANGED held
    BY <1>2 DEF Leaves, Pending
  <2>2. Owed' \subseteq Owed
    BY <2>1 DEF Owed, held
  <2> QED BY <1>p, <2>1, <2>2 DEF held
<1>3. CASE Fetch
  <2>1. /\ client = Idle /\ client'.pc = "speak" /\ client'.todo = Pending
        /\ UNCHANGED <<notes, heard, repeats, faults>>
    BY <1>3, ClientFacts
  <2>2. Owed' \subseteq Owed
    BY <2>1 DEF Owed, Pending, Idle
  <2> QED BY <1>p, <2>1, <2>2
<1>4. CASE Speak
  <2>1. /\ client.pc = "speak" /\ client'.pc = "ack" /\ client'.todo = client.todo
        /\ client.todo # {} /\ heard' = heard \cup {n} /\ notes' = notes /\ faults' = faults
        /\ repeats' = IF n \in heard THEN repeats + 1 ELSE repeats
    BY <1>4, ClientFacts DEF n
  <2>2. Owed' = {i \in heard' : i \in Pending \/ i \in client.todo} \ {n}
    BY <1>n, <2>1 DEF Owed, Pending, n
  <2>3. Owed = {i \in heard : i \in Pending \/ i \in client.todo}
    BY <1>o, <2>1
  <2>4. Owed' = Owed \ {n} /\ (n \in Owed <=> n \in heard)
    BY <1>n, <2>1, <2>2, <2>3
  <2>5. CASE n \in heard
    <3>1. Cardinality(Owed') = Cardinality(Owed) - 1
      BY <1>0, <2>4, <2>5, FS_RemoveElement
    <3> QED BY <1>0, <2>1, <2>5, <3>1 DEF OwedForFailures
  <2>6. CASE n \notin heard
    BY <1>p, <2>1, <2>4, <2>6
  <2> QED BY <2>5, <2>6
<1>5. CASE Acknowledge
  <2>1. /\ client.pc = "ack" /\ client'.pc = "speak" /\ client'.todo = client.todo \ {n}
        /\ UNCHANGED <<heard, repeats, faults>>
    BY <1>5, ClientFacts DEF n
  <2>2. Pending' = Pending \ {n}
    BY <1>5, AckFacts DEF Pending, n
  <2>3. Owed' \subseteq {i \in heard : i \in Pending \/ i \in client.todo} \ {n}
    BY <2>1, <2>2 DEF Owed
  <2>4. Owed' \subseteq Owed
    BY <1>o, <2>3
  <2> QED BY <1>p, <2>1, <2>4
<1>6. CASE DeliveryStops
  <2>1. /\ client'.pc = "speak" /\ client'.todo = {} /\ faults' = faults + 1
        /\ UNCHANGED <<notes, heard, repeats>>
    BY <1>6, ClientFacts
  <2>2. Owed' \subseteq Owed \cup {n}
    BY <1>o, <2>1 DEF Owed, Pending
  <2>3. /\ IsFiniteSet(Owed \cup {n})
        /\ Cardinality(Owed \cup {n}) = IF n \in Owed THEN Cardinality(Owed) ELSE Cardinality(Owed) + 1
    BY <1>0, FS_AddElement
  <2>4. Cardinality(Owed') <= Cardinality(Owed) + 1 /\ Cardinality(Owed') \in Nat
    BY <1>0, <2>2, <2>3, FS_Subset, FS_CardinalityType
  <2> QED BY <1>0, <2>1, <2>4 DEF OwedForFailures
<1> QED BY <1>1, <1>2, <1>3, <1>4, <1>5, <1>6, DeliverySteps

-----------------------------------------------------------------------------
(* Activity.                                                               *)

\* A consumer that comes too late records nothing.
LEMMA NoEventsStep ==
    ASSUME TypeOK, NoEventsOfDeleted, [Next]_vars
    PROVE  NoEventsOfDeleted'
<1>1. CASE \E t \in Tasks : Retire(t)
  <2>1. PICK t \in Tasks : Retire(t)
    BY <1>1
  <2>2. status' = [status EXCEPT ![t] = "deleted"] /\ events' = [events EXCEPT ![t] = 0]
    BY <2>1 DEF Retire
  <2> QED BY <2>2 DEF NoEventsOfDeleted, TypeOK
<1>2. CASE \E t \in Tasks : Finish(t)
  <2>1. PICK t \in Tasks : Finish(t)
    BY <1>2
  <2>2. status' = [status EXCEPT ![t] = "done"] /\ events' = events
    BY <2>1 DEF Finish, activity
  <2> QED BY <2>2 DEF NoEventsOfDeleted, TypeOK
<1>3. CASE \E t \in Tasks : Consume(t) \/ Disconnect(t)
  <2>1. PICK t \in Tasks : Consume(t) \/ Disconnect(t)
    BY <1>3
  <2>2. status' = status /\ events' \in {events, Recorded(t)}
    BY <2>1 DEF Consume, Receive, AddEvent, Disconnect, Rest
  <2> QED BY <2>2, RecordedFacts DEF NoEventsOfDeleted
<1>4. ASSUME \/ Fetch \/ Speak \/ Acknowledge \/ DeliveryStops \/ Tick
             \/ \E t \in Tasks : PublishReturns(t) \/ PublishNotify(t)
             \/ UNCHANGED vars
      PROVE  UNCHANGED <<status, events>>
  BY <1>4 DEF Fetch, Speak, Acknowledge, DeliveryStops, Tick, PublishReturns, PublishNotify,
              Keeps, Rest, activity, vars
<1>5. CASE UNCHANGED <<status, events>>
  BY <1>5 DEF NoEventsOfDeleted
<1> QED BY <1>1, <1>2, <1>3, <1>4, <1>5, Zenon DEF Next

-----------------------------------------------------------------------------
(* Theorems.                                                               *)

\* At first nothing is announced.
LEMMA InvInit == Init => IndInv
<1> SUFFICES ASSUME Init PROVE IndInv
  OBVIOUS
<1>0. NTasks \in Nat \ {0} /\ Limit \in Nat \ {0} /\ MaxFaults \in Nat /\ 0 \in Ids \cup {0}
  BY ReportingAssumption
<1>1. DOMAIN notes = {} /\ client = [pc |-> "speak", todo |-> {}] /\ heard = {} /\ last = 0
  BY DEF Init, Idle
<1>2. TypeOK
  BY <1>0, <1>1 DEF Init, TypeOK
<1>3. Ended = {} /\ Told = {} /\ Owed = {}
  BY <1>1, ReportingAssumption DEF Ended, Told, Owed, Init
<1>4. Counted /\ OwedForFailures
  BY <1>1, <1>3, FS_EmptySet DEF Counted, OwedForFailures, Init
<1>5. Given /\ HeldInOrder
  BY <1>1 DEF Given, HeldInOrder
<1>6. AckedWasSpoken /\ SpokenInOrder
  BY <1>1 DEF AckedWasSpoken, SpokenInOrder
<1>7. NoEventsOfDeleted
  BY DEF Init, NoEventsOfDeleted
<1> QED BY <1>2, <1>4, <1>5, <1>6, <1>7 DEF IndInv

\* Each step keeps every part of the invariant.
LEMMA InvStep ==
    ASSUME IndInv, [Next]_vars
    PROVE  IndInv'
<1>1. Counted' /\ Given'
  BY CountedStep, GivenStep DEF IndInv
<1>2. TypeOK'
  BY <1>1, TypeStep DEF IndInv
<1>3. AckedWasSpoken' /\ HeldInOrder' /\ SpokenInOrder'
  BY AckedStep, HeldInOrderStep, SpokenInOrderStep DEF IndInv
<1>4. OwedForFailures' /\ NoEventsOfDeleted'
  BY <1>2, OwedStep, NoEventsStep DEF IndInv
<1> QED BY <1>1, <1>2, <1>3, <1>4 DEF IndInv

\* The inductive invariant holds of the announcements, their delivery and the
\* activity.
THEOREM ReportsCorrect == Spec => []IndInv
<1>1. IndInv /\ [Next]_vars => IndInv'
  BY InvStep
<1> QED BY <1>1, InvInit, PTL DEF Spec

\* Ids never run out of those there are for the tasks, no task keeps more events
\* than the limit (Store.notify, Store.add_event).
THEOREM TypeCorrect == Spec => []TypeOK
<1>1. IndInv => TypeOK
  BY DEF IndInv
<1> QED BY <1>1, ReportsCorrect, PTL

\* An announcement that counts as delivered has been spoken: ids are not given
\* twice, so that an acknowledgement cannot mark another row.
THEOREM NoneLost == Spec => []AckedWasSpoken
<1>1. IndInv => AckedWasSpoken
  BY DEF IndInv
<1> QED BY <1>1, ReportsCorrect, PTL

\* Announcements are first spoken in the order of their ids.
THEOREM InOrder == Spec => []SpokenInOrder
<1>1. IndInv => SpokenInOrder
  BY DEF IndInv
<1> QED BY <1>1, ReportsCorrect, PTL

\* There are no more repetitions than failures of the delivery.
THEOREM RepeatsForFailures == Spec => []OneRepeatPerFailure
<1>1. ASSUME IndInv PROVE OneRepeatPerFailure
  <2>1. Cardinality(Owed) \in Nat /\ repeats \in Nat /\ faults \in Nat
    BY <1>1, OwedFacts, ReportingAssumption DEF IndInv, TypeOK
  <2> QED BY <1>1, <2>1 DEF IndInv, OwedForFailures, OneRepeatPerFailure
<1> QED BY <1>1, ReportsCorrect, PTL

\* A deleted task has no events, whenever its consumer comes to record one.
THEOREM DeletedStayEmpty == Spec => []NoEventsOfDeleted
<1>1. IndInv => NoEventsOfDeleted
  BY DEF IndInv
<1> QED BY <1>1, ReportsCorrect, PTL

=============================================================================
