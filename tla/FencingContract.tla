--------------------------- MODULE FencingContract ---------------------------
(***************************************************************************)
(* What the coordinator's durable lease table promises its callers, with   *)
(* no log, no files and no processes: for every resource, the fencing      *)
(* tokens handed out, in order, and how long the latest of them excludes   *)
(* everybody else.  DurableLeases implements this module.                  *)
(***************************************************************************)
EXTENDS Naturals, Sequences

CONSTANTS
  Resources,  \* what is leased
  Tokens,     \* the fencing tokens there are
  Times       \* the expiries there are

VARIABLES
  now,      \* the injected wall clock
  issued,   \* per resource, the tokens callers received, oldest first
  claim     \* per resource, the latest grant's exclusion:
            \*   term  - the expiry recorded durably with the grant
            \*   until - the expiry the holder was last told (renewals included)
            \*   free  - the holder gave the resource up

contractVars == <<now, issued, claim>>

Claims == [term: Nat, until: Nat, free: BOOLEAN]

ContractInit ==
  /\ now = 0
  /\ issued = [r \in Resources |-> <<>>]
  /\ claim = [r \in Resources |-> [term |-> 0, until |-> 0, free |-> TRUE]]

(* A grant carries a token above every token of the resource before it,    *)
(* and is made only when the previous grant has run out or was given up.   *)
GrantStep(r) ==
  \E token \in Tokens, until \in Times :
    /\ \A i \in 1..Len(issued[r]) : issued[r][i] < token
    /\ claim[r].free \/ now >= claim[r].until
    /\ issued' = [issued EXCEPT ![r] = Append(@, token)]
    /\ claim' = [claim EXCEPT ![r] = [term |-> until, until |-> until, free |-> FALSE]]
    /\ UNCHANGED now

(* Renewal extends the exclusion of a grant that is still running.         *)
RenewStep(r) ==
  \E until \in Times :
    /\ now < claim[r].until /\ claim[r].until <= until
    /\ claim' = [claim EXCEPT ![r].until = until]
    /\ UNCHANGED <<now, issued>>

RelinquishStep(r) ==
  /\ claim' = [claim EXCEPT ![r].free = TRUE]
  /\ UNCHANGED <<now, issued>>

(* A crash forgets renewals, and nothing else.                             *)
ForgetRenewals ==
  /\ claim' = [r \in Resources |-> [claim[r] EXCEPT !.until = claim[r].term]]
  /\ UNCHANGED <<now, issued>>

TimePasses ==
  /\ now' \in Nat /\ now' > now
  /\ UNCHANGED <<issued, claim>>

ContractNext ==
  \/ \E r \in Resources : GrantStep(r) \/ RenewStep(r) \/ RelinquishStep(r)
  \/ ForgetRenewals
  \/ TimePasses

ContractSpec == ContractInit /\ [][ContractNext]_contractVars
=============================================================================
