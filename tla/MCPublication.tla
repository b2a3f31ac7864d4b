--------------------------- MODULE MCPublication ---------------------------
(* Instances of Publication for TLC.                                       *)
EXTENDS Publication

CONSTANT j3, t2   \* a job and a task of the instance

\* Two jobs of one task that differ in visibility only, and a third, of another
\* task, that asks for the same repository.
MCTaskOf == [j \in Jobs |-> IF j = j3 THEN t2 ELSE CHOOSE t \in Tasks : t # t2]
OneRepository == [j \in Jobs |-> CHOOSE r \in Repositories : TRUE]

\* The output of the other task holds a credential.
MCBlocked == {t2}

=============================================================================
