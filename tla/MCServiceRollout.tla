-------------------------- MODULE MCServiceRollout --------------------------
(* A small instance of ServiceRollout for TLC.                             *)
EXTENDS ServiceRollout

\* A rollback to the first version, and a restart of it before the second.
RollbackOrRestart == {<<1, 2, 1>>, <<1, 1, 2>>}

=============================================================================
