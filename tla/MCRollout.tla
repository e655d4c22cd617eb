------------------------------ MODULE MCRollout ------------------------------
(* A line of history of four commits, one branch and one local clone.       *)
EXTENDS Rollout

CONSTANTS c1, c2, c3, c4, main, canonical

History    == <<c1, c2, c3, c4>>
MCCommit   == {c1, c2, c3, c4}
MCAncestry ==
    { <<History[ij[1]], History[ij[2]]>> :
        ij \in { pair \in (1 .. 4) \X (1 .. 4) : pair[1] <= pair[2] } }

MCPush == { MainPush(c) : c \in MCCommit } \cup { << >> }

=============================================================================
