------------------------------ MODULE Messages ------------------------------
(***************************************************************************)
(* A transaction of the chain as the contracts rely on it: a handler       *)
(* returns messages, which run one after the other before whatever was     *)
(* waiting (depth first); the first message that fails undoes the whole    *)
(* transaction, what its handlers stored included.                         *)
(***************************************************************************)
EXTENDS Sequences

VARIABLE queue    \* messages the current transaction has still to run

Idle == queue = <<>>

Current(type) == queue # <<>> /\ Head(queue).type = type

\* What a handler returns runs next.
Then(messages) == queue' = messages \o Tail(queue)
=============================================================================
