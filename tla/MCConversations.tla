-------------------------- MODULE MCConversations --------------------------
(* Conversations for TLC: two identities, model values, nothing tells one  *)
(* from another; the turns are the numbers up to MaxTurns.                 *)
EXTENDS Conversations

Symmetric == Permutations(Keys)

\* Circumstances where nothing happens but what a scene adds.
Quiet == [turns |-> 3, sessions |-> 2, cap |-> 9, owner |-> None, budgets |-> {FALSE},
          archive |-> {TRUE}, due |-> {FALSE}, slow |-> FALSE,
          budget |-> [crash |-> 0, stop |-> 0, expire |-> 0, reset |-> 0, flip |-> 0]]

\* A crash at any step, and resets by the session limits.
Crashing == [Quiet EXCEPT !.due = BOOLEAN, !.budget.crash = 1]

\* Isolation entered and left, while turns run.
Isolating == [Quiet EXCEPT !.budget.flip = 2]

\* Eviction, sweeps, resets through the API, archives that fail, a message
\* cap of less than two exchanges and a shutdown that outruns its windows.
Churning == [Quiet EXCEPT !.turns = 2, !.sessions = 1, !.cap = 3, !.archive = BOOLEAN, !.slow = TRUE,
                          !.budget = [crash |-> 0, stop |-> 1, expire |-> 1, reset |-> 1, flip |-> 1]]

\* Conversations that outgrow their budget.
Compacting == [Quiet EXCEPT !.budgets = BOOLEAN, !.archive = BOOLEAN]

\* The owner's turns refused: more than the fallback may answer; with resets
\* and a crash; under isolation.
Refusing == {[Quiet EXCEPT !.owner = k] : k \in Keys}
Losing == {[Quiet EXCEPT !.turns = 2, !.owner = k, !.due = BOOLEAN, !.budget.crash = 1] : k \in Keys}
Suspected == {[Quiet EXCEPT !.turns = 2, !.owner = k, !.budget.flip = 2] : k \in Keys}

Whole == {Crashing, Isolating, Churning, Compacting} \cup Refusing \cup Losing \cup Suspected
=============================================================================
