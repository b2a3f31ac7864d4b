--------------------------- MODULE MCAgentService ---------------------------
(* Instances of AgentService for TLC.                                      *)
EXTENDS AgentService, TLC

\* Tasks and cancelling threads are interchangeable: sound for the runs that
\* check no liveness property.
Symmetry == Permutations(Tasks) \cup Permutations(Cancellers)

\* Leaves out what a question does not depend on.
NoSteering == steer = {}
NoCancelling == \A t \in Tasks : confirmations["cancel"][t] = "none"

\* The fair behaviours without steer messages, where the listing may be down for
\* ever, or not.
OutageFairSpec == Init /\ [][Next /\ steer' = {}]_vars /\ Fairness
QuietFairSpec == OutageFairSpec /\ ListingWorks

\* Those among them in which status is not asked before the start is confirmed,
\* so that what goes wrong has another cause.
LateFairSpec == Init /\ [][Next /\ steer' = {} /\ ~rec'.early]_vars /\ Fairness /\ ListingWorks

=============================================================================
