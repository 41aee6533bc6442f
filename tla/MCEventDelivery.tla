-------------------------- MODULE MCEventDelivery --------------------------
(* Instances of EventDelivery for TLC.                                     *)
EXTENDS EventDelivery

CONSTANTS api, command, one, alias

\* Every process is configured with the same Redis URL.
OneTarget == [p \in Publishers |-> one]

\* The command line reaches the same Redis under another URL.
AliasedTarget == [p \in Publishers |-> IF p = command THEN alias ELSE one]
=============================================================================
