----------------------------- MODULE Reporting -----------------------------
(***************************************************************************)
(* What the user is told: announcements, which live.py speaks and then     *)
(* acknowledges in the table notifications of store.py, and activity, which *)
(* a consumer thread per task (Monitor, daemon.py) copies from the event   *)
(* stream of its session (iter_sse, agents.py) into the table events.      *)
(*                                                                         *)
(* A step is a transaction, a speech, or the arrival of an event.  Tasks   *)
(* are numbered in the order of creation.                                  *)
(***************************************************************************)
EXTENDS Naturals, SequencesExt

CONSTANTS
    NTasks,
    Limit,       \* of events kept per task: 200
    Published,   \* tasks that are published
    Lines,       \* of an event stream: <<kind, value>>, kind "event", "data" or "blank"
    MaxLines,    \* bound on the length of the streams that are parsed
    MaxFaults    \* bound on failures of the delivery

Tasks == 1..NTasks
Ids == 1..(NTasks + Cardinality(Published))

ASSUME ReportingAssumption ==
    {NTasks, Limit} \subseteq Nat \ {0} /\ Published \subseteq Tasks /\ MaxFaults \in Nat

VARIABLES
    status,   \* of a task: "running", "done", or "deleted" after its retention
    publish,  \* of a task: "no", "returned" from the publisher, or "told"
    notes,    \* notifications: the rows by id
    last,     \* the last id given (AUTOINCREMENT)
    client,   \* deliver_agent_notifications: the ids read and not yet done with
    heard,    \* history: the ids of the announcements spoken so far
    repeats,  \* history: how often one of them was spoken again
    stream,   \* the consumer thread of a task: "none", "open", or "add"
    events,   \* events: the number of rows kept, by task
    faults

vars == <<status, publish, notes, last, client, heard, repeats, stream, events, faults>>

told == <<client, repeats, faults>>
activity == <<stream, events>>

Idle == [pc |-> "speak", todo |-> {}]

Init ==
    /\ status = [t \in Tasks |-> "running"]
    /\ publish = [t \in Tasks |-> "no"]
    /\ notes = [n \in {} |-> {}] /\ last = 0
    /\ client = Idle
    /\ heard = {} /\ repeats = 0
    /\ stream = [t \in Tasks |-> "none"]
    /\ events = [t \in Tasks |-> 0]
    /\ faults = 0

-----------------------------------------------------------------------------
(* Announcements.                                                          *)

\* Mutant: PRIMARY KEY without AUTOINCREMENT, one more than the highest there.
NextFree(rows, given) == Max(DOMAIN rows \cup {0}) + 1

NextId(rows, given) == given + 1

\* INSERT OR IGNORE: a task has one announcement of each kind.
Notify(t, kind) ==
    LET n == NextId(notes, last) IN
    IF \E m \in DOMAIN notes : notes[m].task = t /\ notes[m].kind = kind
    THEN UNCHANGED <<notes, last, heard>>
    ELSE /\ notes' = [m \in DOMAIN notes \cup {n} |->
                        IF m = n THEN [task |-> t, kind |-> kind, acked |-> FALSE] ELSE notes[m]]
         /\ last' = n
         /\ heard' = heard \ {n}

\* finish_task: verdict and announcement.
Finish(t) ==
    /\ status[t] = "running"
    /\ status' = [status EXCEPT ![t] = "done"]
    /\ Notify(t, "terminal")
    /\ UNCHANGED <<publish, told, activity>>

PublishReturns(t) ==
    /\ t \in Published /\ status[t] = "done" /\ publish[t] = "no"
    /\ publish' = [publish EXCEPT ![t] = "returned"]
    /\ UNCHANGED <<status, notes, last, heard, told, activity>>

\* confirm_publish and recover, after the publisher has returned.
PublishNotify(t) ==
    /\ publish[t] = "returned"
    /\ publish' = [publish EXCEPT ![t] = "told"]
    /\ Notify(t, "published")
    /\ UNCHANGED <<status, told, activity>>

\* cleanup: the rows of a task past its retention.
Retire(t) ==
    /\ status[t] = "done"
    /\ status' = [status EXCEPT ![t] = "deleted"]
    /\ notes' = Restrict(notes, {n \in DOMAIN notes : notes[n].task # t})
    /\ events' = [events EXCEPT ![t] = 0]
    /\ UNCHANGED <<publish, last, heard, told, stream>>

Pending == {n \in DOMAIN notes : ~notes[n].acked}

\* Mutant: ORDER BY id DESC.
FirstDown(todo) == Max(todo)

\* ORDER BY id.
First(todo) == Min(todo)

Keeps == UNCHANGED <<status, publish, last, activity>>

\* pending_notifications.
Fetch ==
    /\ client = Idle /\ Pending # {}
    /\ client' = [client EXCEPT !.todo = Pending]
    /\ UNCHANGED <<notes, heard, repeats, faults>> /\ Keeps

Speak ==
    LET n == First(client.todo) IN
    /\ client.todo # {} /\ client.pc = "speak"
    /\ heard' = heard \cup {n}
    /\ repeats' = IF n \in heard THEN repeats + 1 ELSE repeats
    /\ client' = [client EXCEPT !.pc = "ack"]
    /\ UNCHANGED <<notes, faults>> /\ Keeps

\* Mutant: what has been read is acknowledged with the first of it.
AcksBatch(todo) == todo

\* Mutant: all is acknowledged once the last has been spoken.
AcksLast(todo) == IF Cardinality(todo) = 1 THEN 1..First(todo) ELSE {}

Acks(todo) == {First(todo)}

\* mark_notifications_delivered.
Acknowledge ==
    /\ client.pc = "ack"
    /\ notes' = [n \in DOMAIN notes |->
                   [notes[n] EXCEPT !.acked = @ \/ n \in Acks(client.todo)]]
    /\ client' = [pc |-> "speak", todo |-> client.todo \ {First(client.todo)}]
    /\ UNCHANGED <<heard, repeats, faults>> /\ Keeps

\* The speech raises, the acknowledgement does, or the process dies: the next
\* delivery starts over.
DeliveryStops ==
    /\ client # Idle /\ faults < MaxFaults
    /\ client' = Idle
    /\ faults' = faults + 1
    /\ UNCHANGED <<notes, heard, repeats>> /\ Keeps

-----------------------------------------------------------------------------
(* Activity.                                                               *)

Rest == UNCHANGED <<status, publish, notes, last, heard, told>>

\* Mutant: the loop ends at the first task that has its thread.
MustStartFirst(t) ==
    status[t] = "running" /\ \A u \in 1..t : stream[u] = "none"

\* A thread that has ended is replaced; streams holds those that have not.
MustStart(t) == status[t] = "running" /\ stream[t] = "none"

\* The threads that Monitor.tick starts.
Tick ==
    /\ \E t \in Tasks : MustStart(t)
    /\ stream' = [t \in Tasks |-> IF MustStart(t) THEN "open" ELSE stream[t]]
    /\ UNCHANGED events /\ Rest

\* Mutant: the status is not looked at again.
GoesOnAlways(s) == TRUE

GoesOn(s) == s = "running"

\* consume: an event, and the status of the task when it came.
Receive(t) ==
    /\ stream[t] = "open"
    /\ stream' = [stream EXCEPT ![t] = IF GoesOn(status[t]) THEN "add" ELSE "none"]
    /\ UNCHANGED events /\ Rest

\* Mutant: LIMIT is off by one.
RecordedPastLimit(t) ==
    IF status[t] = "deleted" THEN events ELSE [events EXCEPT ![t] = Min({@ + 1, Limit + 1})]

\* Mutant: no EXISTS.
RecordedAnyway(t) == [events EXCEPT ![t] = Min({@ + 1, Limit})]

\* add_event: nothing for a task that has no row; the oldest beyond the limit go.
Recorded(t) ==
    IF status[t] = "deleted" THEN events ELSE [events EXCEPT ![t] = Min({@ + 1, Limit})]

AddEvent(t) ==
    /\ stream[t] = "add"
    /\ stream' = [stream EXCEPT ![t] = "open"]
    /\ events' = Recorded(t)
    /\ Rest

\* The stream ends, with an exception or not: stream_disconnected is an event.
Disconnect(t) ==
    /\ stream[t] = "open"
    /\ stream' = [stream EXCEPT ![t] = "none"]
    /\ events' \in {events, Recorded(t)}
    /\ Rest

\* iter_sse, line by line; s.out are the events yielded.
NewEvent(out) == [event |-> "message", data |-> <<>>, out |-> out]

Yield(s) ==
    IF s.data \in {<<>>, <<"[DONE]">>} THEN s.out ELSE Append(s.out, <<s.event, s.data>>)

\* Mutant: the event name outlives the blank line.
ReadLineKeeping(s, line) ==
    CASE line[1] = "blank" -> [s EXCEPT !.data = <<>>, !.out = Yield(s)]
      [] line[1] = "event" -> [s EXCEPT !.event = line[2]]
      [] line[1] = "data" -> [s EXCEPT !.data = Append(@, line[2])]

ReadLine(s, line) ==
    CASE line[1] = "blank" -> NewEvent(Yield(s))
      [] line[1] = "event" -> [s EXCEPT !.event = line[2]]
      [] line[1] = "data" -> [s EXCEPT !.data = Append(@, line[2])]

IterSse(lines) == Yield(FoldLeft(ReadLine, NewEvent(<<>>), lines))

-----------------------------------------------------------------------------

Deliver == Fetch \/ Speak \/ Acknowledge
Consume(t) == Receive(t) \/ AddEvent(t)

Next ==
    \/ \E t \in Tasks : Finish(t) \/ PublishReturns(t) \/ PublishNotify(t) \/ Retire(t)
    \/ Fetch \/ Speak \/ Acknowledge \/ DeliveryStops
    \/ Tick
    \/ \E t \in Tasks : Consume(t) \/ Disconnect(t)

\* Deliveries are made again and again, the monitor ticks, and a consumer gets
\* an event or its read times out.
Spec ==
    /\ Init /\ [][Next]_vars
    /\ WF_vars(Deliver)
    /\ WF_vars(Tick)
    /\ \A t \in Tasks : WF_vars(Consume(t))

-----------------------------------------------------------------------------
(* Properties.                                                             *)

\* Every variable keeps to the values the code gives it.
TypeOK ==
    /\ status \in [Tasks -> {"running", "done", "deleted"}]
    /\ publish \in [Tasks -> {"no", "returned", "told"}]
    /\ last \in Ids \cup {0} /\ DOMAIN notes \subseteq 1..last
    /\ \A n \in DOMAIN notes :
          notes[n] \in [task: Tasks, kind: {"terminal", "published"}, acked: BOOLEAN]
    /\ client \in [pc: {"speak", "ack"}, todo: SUBSET Ids]
    /\ heard \subseteq Ids /\ repeats \in Nat /\ faults \in 0..MaxFaults
    /\ stream \in [Tasks -> {"none", "open", "add"}]
    /\ events \in [Tasks -> 0..Limit]

\* No announcement is lost: one that counts as delivered has been spoken, also
\* when its row was deleted and others were inserted while a client held its id
\* (mark_notifications_delivered, the ids of notifications).
AckedWasSpoken == \A n \in DOMAIN notes : notes[n].acked => n \in heard

\* A failure between speech and acknowledgement makes the next delivery repeat
\* that one announcement and no other (deliver_agent_notifications).
OneRepeatPerFailure == repeats <= faults

\* Announcements are first spoken in the order they were recorded, wherever
\* deliveries were broken off; only one deleted with its task may never be
\* heard.
SpokenInOrder ==
    \A m \in DOMAIN notes, n \in heard : m < n /\ n <= last => m \in heard

\* Events of a deleted task never come back, though its consumer may be between
\* the check of the task and add_event when the rows go.
NoEventsOfDeleted == \A t \in Tasks : status[t] = "deleted" => events[t] = 0

\* Whatever stream a consumer is going to get, and wherever it is broken off,
\* iter_sse makes of it one event for each block of lines between blank ones
\* that has data other than [DONE], with the last event name of that block or
\* "message".  All of them are tried when the first consumers start (tick).
Wires == BoundedSeq(Lines, MaxLines)
Values(kind, lines) ==
    LET of == SelectSeq(lines, LAMBDA l : l[1] = kind) IN [i \in DOMAIN of |-> of[i][2]]
EventsOf(lines) ==
    LET blank == {0, Len(lines) + 1} \cup {i \in DOMAIN lines : lines[i][1] = "blank"}
        block(i) == SubSeq(lines, i + 1, Min({j \in blank : j > i}) - 1)
        starts == {i \in blank \ {Len(lines) + 1} :
                     Values("data", block(i)) \notin {<<>>, <<"[DONE]">>}}
        event(i) == <<Last(<<"message">> \o Values("event", block(i))), Values("data", block(i))>> IN
    [k \in 1..Cardinality(starts) |-> event(SetToSortSeq(starts, <)[k])]
SseFaithful ==
    [][Tick /\ last = 0 => \A lines \in Wires : IterSse(lines) = EventsOf(lines)]_vars

\* Every announcement is spoken in the end unless its task is deleted first,
\* after any failures of deliveries.
AllAnnounced == \A n \in Ids : n \in DOMAIN notes ~> (n \in heard \/ n \notin DOMAIN notes)

\* A running task gets its consumer, again after each disconnection (tick).
Watched == \A t \in Tasks : status[t] = "running" ~> (stream[t] # "none" \/ status[t] # "running")

\* The consumer of a finished task ends (consume).
ConsumersEnd == \A t \in Tasks : status[t] # "running" ~> stream[t] = "none"

=============================================================================
