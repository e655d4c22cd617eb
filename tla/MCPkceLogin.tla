----------------------------- MODULE MCPkceLogin -----------------------------
(* The admin and one other user, over two workers.                          *)
EXTENDS PkceLogin

CONSTANTS admin, guest

MCSub == {admin, guest}

\* Deletion, a superuser with a password, a row that has lost a role.
MCOperatorRow ==
    { None,
      [password |-> "usable", staff |-> TRUE, superuser |-> TRUE],
      [password |-> "unusable", staff |-> TRUE, superuser |-> FALSE] }

=============================================================================
