------------------------------ MODULE MCParity ------------------------------
(* Three commits - a root and two that fork from it - two remote branches    *)
(* and the pushes of each kind.                                             *)
EXTENDS Parity

CONSTANTS c1, c2, c3, main, topic, tag, canonical, mirror

MCCommit   == {c1, c2, c3}
MCAncestry == { <<c, c>> : c \in MCCommit } \cup { <<c1, c2>>, <<c1, c3>> }
MCBranch   == {main, topic}

Put(local, sha, to) == [local |-> local, sha |-> sha, to |-> to]

\* git push origin main - rewound or moved to the other fork - two branches at
\* once, a branch and a tag
BranchPushes ==
    { <<Put("branch", c, main)>> : c \in {c1, c3} } \cup
    { <<Put("branch", c3, main), Put("branch", c2, topic)>>,
      <<Put("tag", c1, tag), Put("branch", c3, topic)>> }

\* git push --delete origin <branch>
DeletePushes == { <<Put("branch", None, b)>> : b \in MCBranch }

\* git push --force origin <sha>:main - git hands the hook the expression
ExpressionPushes == { <<Put("expression", c, main)>> : c \in MCCommit }

UncheckedPushes == DeletePushes \cup ExpressionPushes

=============================================================================
