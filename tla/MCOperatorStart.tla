-------------------------- MODULE MCOperatorStart --------------------------
(* An instance of OperatorStart for TLC.  All but main call the            *)
(* Initializer once.  The metrics and the Initializer share no state: the  *)
(* loops run in processes in which nobody but main calls the Initializer,  *)
(* so that their states do not multiply.                                   *)
EXTENDS OperatorStart

CONSTANTS tests, client, daily, weekly, m1, m2

\* Options that nothing depends on once another is known.
MCInit ==
  /\ StartInit
  /\ options.path => options.namespace /\ ~options.pvc
  /\ options.port => options.metrics

Fresh(p) == at[p] = "out" /\ arg[p] = Unset /\ answer[p] = Unset

MCNext ==
  /\ StartNext
  /\ \A p \in Procs \ {main} : at[p] = "out" /\ at'[p] # "out" => Fresh(p)
  /\ options.metrics /\ options.namespace => \A p \in Procs \ {main} : Fresh(p)'

MCSpec == MCInit /\ [][MCNext]_vars /\ StartFairness
=============================================================================
