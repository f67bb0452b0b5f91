------------------------- MODULE MC_ContainerEvents -------------------------
(* Instantiation of ContainerEvents for TLC: three process generations,    *)
(* two handler thread ids, one waiter.                                     *)
EXTENDS ContainerEvents, TLC

MC_Pids      == 1..3
MC_ExitCodes == {0, 1}

HostConfig(policy, maxRetry, autoRemove) ==
  [policy |-> policy, maxRetry |-> maxRetry, autoRemove |-> autoRemove]

\* restart=always; restart=on-failure:1 with --rm; restart=no with --rm;
\* restart=no.
MC_Always       == {HostConfig("always", 0, FALSE)}
MC_OnFailureRm  == {HostConfig("on-failure", 1, TRUE)}
MC_NoRm         == {HostConfig("no", 0, TRUE)}
MC_No           == {HostConfig("no", 0, FALSE)}
MC_HostConfigs  == MC_Always \cup MC_OnFailureRm

=============================================================================
