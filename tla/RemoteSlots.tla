----------------------------- MODULE RemoteSlots -----------------------------
(***************************************************************************)
(* What the journal of remote work promises, without the threads and       *)
(* tables that keep the promise: a task holds a slot from before its       *)
(* session is asked for until the session can no longer exist, and no more *)
(* than MaxActive tasks have a session or wait for one.                    *)
(* AgentService implements it (AgentService!ImplementsRemoteSlots).        *)
(***************************************************************************)
EXTENDS Naturals, FiniteSets

CONSTANTS Tasks, MaxActive

VARIABLES
    held,   \* tasks that hold a slot
    life    \* life[t]: what has become of the session of task t

vars == <<held, life>>

TypeOK == held \subseteq Tasks /\ life \in [Tasks -> {"new", "asked", "live", "over"}]

Init == held = {} /\ life = [t \in Tasks |-> "new"]

\* store.py:103: the count and the reservation are one transaction.
Reserve(t) ==
    /\ life[t] = "new"
    /\ Cardinality(held) < MaxActive
    /\ held' = held \cup {t}
    /\ UNCHANGED life

Become(t, from, to) ==
    /\ life[t] \in from
    /\ life' = [life EXCEPT ![t] = to]
    /\ UNCHANGED held

Ask(t) == t \in held /\ Become(t, {"new"}, "asked")
Open(t) == Become(t, {"asked"}, "live")
End(t) == Become(t, {"asked", "live"}, "over")

\* clear_remote: only when nothing is left at the provider.
Release(t) ==
    /\ life[t] = "over"
    /\ held' = held \ {t}
    /\ UNCHANGED life

\* A late confirm_cancel, or the backfill of a restart, puts rows back: it may
\* cost slots, but only of sessions that are over.
Retake(S) ==
    /\ \A t \in S : life[t] = "over"
    /\ held' = held \cup S
    /\ UNCHANGED life

Next ==
    \/ \E t \in Tasks : Reserve(t) \/ Ask(t) \/ Open(t) \/ End(t) \/ Release(t)
    \/ \E S \in SUBSET Tasks : Retake(S)

Spec == Init /\ [][Next]_vars

-----------------------------------------------------------------------------

Occupying == {t \in Tasks : life[t] \in {"asked", "live"}}

\* The provider never has more sessions, or requests for one, than slots.
Limit == Occupying \subseteq held /\ Cardinality(Occupying) <= MaxActive

=============================================================================
