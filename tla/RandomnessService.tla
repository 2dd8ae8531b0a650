-------------------------- MODULE RandomnessService --------------------------
(***************************************************************************)
(* What the coordinator promises to those who see only the outcome of      *)
(* transactions.  A request is owed from the moment it is asked for until  *)
(* it is answered; an answer uses up one owed request; asking again under  *)
(* the same id while an answer is owed replaces the request.               *)
(***************************************************************************)
EXTENDS Integers

CONSTANT Id

VARIABLES
    asked,      \* how often each id was asked for
    owed,       \* the ids with an open request
    answered    \* how often each id was answered

vars == <<asked, owed, answered>>

Init ==
    /\ asked = [id \in Id |-> 0]
    /\ owed = {}
    /\ answered = [id \in Id |-> 0]

Open(id) == IF id \in owed THEN 1 ELSE 0

\* What one transaction, with all that its callbacks do, may do to one id: of the
\* requests that were open or are new, each answer uses up one; and one of them
\* is answered or still open at the end.
Serve(id) ==
    LET new == asked'[id] - asked[id]
        given == answered'[id] - answered[id]
    IN  /\ new >= 0 /\ given >= 0
        /\ given + Open(id)' <= new + Open(id)
        /\ new + Open(id) > 0 => given + Open(id)' > 0

Next ==
    /\ asked' \in [Id -> Int] /\ answered' \in [Id -> Int] /\ owed' \subseteq Id
    /\ \A id \in Id : Serve(id)

Spec == Init /\ [][Next]_vars
=============================================================================
