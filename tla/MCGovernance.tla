----------------------------- MODULE MCGovernance -----------------------------
(* An instance of Governance for TLC. *)
EXTENDS Governance

CONSTANTS o1, o2, o3, c1, c2

MCOperations == {o1, o2, o3}
MCCouncils == {c1, c2}
MCDelays == {0, 2}

\* o1 calls another contract, o2 has to wait for it and removes the minimum delay
\* before it calls another contract, o3 replaces the council.
MCpredecessor == [op \in MCOperations |-> IF op = o2 THEN o1 ELSE NoOperation]
MCcalls ==
    [op \in MCOperations |->
        CASE op = o1 -> <<[kind |-> "external"]>>
          [] op = o2 -> <<[kind |-> "updateDelay", arg |-> 0], [kind |-> "external"]>>
          [] op = o3 -> <<[kind |-> "updateSecurityCouncil", arg |-> c2]>>]
=============================================================================
