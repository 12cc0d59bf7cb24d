-------------------------- MODULE MCStatementCalls --------------------------
(* Small instances of StatementCalls.                                      *)
EXTENDS StatementCalls

CONSTANTS s1, s2, d1, d2

MCUsedTogether == {{s1}, {s2, d1}, {d1, d2}}
=============================================================================
