------------------------------ MODULE Provider ------------------------------
(***************************************************************************)
(* The hosted-agent provider as the daemon sees it through AgentsClient    *)
(* (src/combadge/agents.py): one session per task, created by one POST,    *)
(* with a last turn that is working or has ended.  The service itself is   *)
(* not in the repository; this is what the code in src/ relies on.         *)
(***************************************************************************)
EXTENDS Naturals

CONSTANTS
    Sessions,  \* a session is named by the task in its metadata
    Outcomes   \* the turn outcomes explored, among those terminal_result knows

VARIABLES
    remote,    \* remote[t]: the session of task t
    reopened   \* history: sessions whose ended turn a steer message reopened

\* A turn is in progress, a cancel request possibly received.
Working == {"active", "cancelling"}

\* The session exists and can be listed, read, cancelled and deleted.
Live == Working \cup Outcomes

\* The session no longer exists and every call on it answers 404: deleted by
\* the daemon, or dropped by the provider or an operator.
Gone == {"deleted", "dropped"}

\* The create request was sent and may still be carried out, or has been.
MayExist == {"posted"} \cup Live

ProviderTypeOK ==
    /\ remote \in [Sessions -> {"none", "rejected"} \cup MayExist \cup Gone]
    /\ reopened \subseteq Sessions

ProviderInit ==
    /\ remote = [t \in Sessions |-> "none"]
    /\ reopened = {}

\* The create request is carried out, now or long after the client stopped
\* waiting for the answer.
ProviderCreate(t) ==
    /\ remote[t] = "posted"
    /\ remote' = [remote EXCEPT ![t] = "active"]
    /\ UNCHANGED reopened

\* The create request is refused with one of the statuses of confirm_start.
ProviderReject(t) ==
    /\ remote[t] = "posted"
    /\ remote' = [remote EXCEPT ![t] = "rejected"]
    /\ UNCHANGED reopened

\* The last turn ends.  A cancelled session may still end completed; a turn
\* ends cancelled only after a cancel request.
ProviderEnd(t, outcome) ==
    /\ remote[t] \in Working
    /\ outcome = "cancelled" => remote[t] = "cancelling"
    /\ remote' = [remote EXCEPT ![t] = outcome]
    /\ UNCHANGED reopened

\* A session disappears without a request of the daemon.
ProviderDrop(t) ==
    /\ remote[t] \in Live
    /\ remote' = [remote EXCEPT ![t] = "dropped"]
    /\ UNCHANGED reopened

\* Effects of the requests the daemon sends.
CreateSent(t) ==
    /\ remote[t] = "none"
    /\ remote' = [remote EXCEPT ![t] = "posted"]
    /\ UNCHANGED reopened

CancelReceived(t) ==
    /\ remote' = [remote EXCEPT ![t] = IF @ = "active" THEN "cancelling" ELSE @]
    /\ UNCHANGED reopened

DeleteReceived(t) ==
    /\ remote' = [remote EXCEPT ![t] = "deleted"]
    /\ UNCHANGED reopened

\* A message to a session whose turn has ended starts another turn.
SteerReceived(t) ==
    IF remote[t] \in Outcomes
    THEN /\ remote' = [remote EXCEPT ![t] = "active"]
         /\ reopened' = reopened \cup {t}
    ELSE UNCHANGED <<remote, reopened>>

\* terminal_result: the outcome of the last turn, or none while one is working.
terminal_result(t) == IF remote[t] \in Outcomes THEN remote[t] ELSE "none"

=============================================================================
