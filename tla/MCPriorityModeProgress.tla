----------------------- MODULE MCPriorityModeProgress -----------------------
(* Instances of PriorityModeProgress for TLC. *)
EXTENDS PriorityModeProgress

CONSTANTS r0

MCValidators == {Timelock}
MCRoots == {r0}
MCChunks == {1}
NoDelay == {0}

\* One batch of each kind.
MCContents ==
    {[root |-> r0, ops |-> <<>>, chunks |-> <<1>>],
     [root |-> r0, ops |-> <<StartIndex>>, chunks |-> <<>>],
     [root |-> r0, ops |-> <<StartIndex + 1>>, chunks |-> <<>>]}
=============================================================================
