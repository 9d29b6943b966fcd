---------------------------- MODULE MCAgentJobs ----------------------------
(* Values for the constants of AgentJobs in the TLC runs. *)
EXTENDS AgentJobs, TLC

(* All jobs share one scope: same job name, same user. *)
OneKey == [j \in Jobs |-> CHOOSE k \in Keys : TRUE]

TryOnce == [j \in Jobs |-> 1]
TryTwice == [j \in Jobs |-> 2]

AnyFault == FaultKinds

WorkerSymmetry == Permutations(Workers)
=============================================================================
