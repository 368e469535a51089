------------------------------ MODULE MCZKChain ------------------------------
(* Instances of ValidatorTimelock, and of the ZKChain behind it, for TLC. *)
EXTENDS ValidatorTimelock

CONSTANTS r0, r1

MCValidators == {Timelock}
MCRoots == {r0, r1}
MCChunks == {1}
MCDelays == {0, 1}

\* Batches with and without L2 transactions and priority operations, some of
\* which claim operations out of order.
MCContents ==
    {[root |-> r0, ops |-> <<>>, chunks |-> <<1>>],
     [root |-> r1, ops |-> <<StartIndex>>, chunks |-> <<>>],
     [root |-> r1, ops |-> <<StartIndex + 1>>, chunks |-> <<>>],
     [root |-> r0, ops |-> <<StartIndex, StartIndex + 1>>, chunks |-> <<1>>]}

\* A batch with L2 transactions, and one with an operation that is not requested.
MCEraContents ==
    {[root |-> r0, ops |-> <<>>, chunks |-> <<1>>],
     [root |-> r1, ops |-> <<StartIndex>>, chunks |-> <<>>],
     [root |-> r1, ops |-> <<>>, chunks |-> <<1>>]}
=============================================================================
