----------------------------- MODULE MCFailover -----------------------------
(* Small instances of Failover.                                            *)
EXTENDS Failover

MCQueries == {<<>>, <<"begin">>, <<"commit">>}
MCAutoCommitQueries == {<<"autocommit_off">>, <<"autocommit_on">>}
MCThreadQueries == {<<"dml">>}

MCSymmetry == Permutations(Conns)
=============================================================================
