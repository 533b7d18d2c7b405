----------------------------- MODULE MCHostCall -----------------------------
(* Every function of the standard library on its own, and the pairs of     *)
(* calls that share the node selector or the npm client on two threads.    *)
EXTENDS HostCall

CONSTANTS t1, t2

StlGithubFns == INSTANCE StlGithub
StlSlackFns == INSTANCE StlSlack
StlCloudFns == INSTANCE StlCloud
StlEvmFns == INSTANCE StlEvm
StlSolanaFns == INSTANCE StlSolana
StlNpmFns == INSTANCE StlNpm
StlOtherFns == INSTANCE StlOther

Alone(fn, selection) ==
    [uses |-> [t \in Threads |-> IF t = t1 THEN {fn} ELSE {}], modes |-> BOOLEAN, selection |-> selection]
Together(fn1, fn2) ==
    [uses |-> [t \in Threads |-> IF t = t1 THEN {fn1} ELSE {fn2}], modes |-> {FALSE}, selection |-> "RoundRobin"]

RpcWrappers == StlEvmFns!Wrappers \cup StlSolanaFns!Wrappers
OtherWrappers ==
    StlGithubFns!Wrappers \cup StlSlackFns!Wrappers \cup StlCloudFns!Wrappers \cup StlNpmFns!Wrappers
        \cup StlOtherFns!Wrappers

MCDeployments ==
    {Alone(fn, "RoundRobin") : fn \in RpcWrappers \cup OtherWrappers}
        \cup {Alone(fn, "Random") : fn \in RpcWrappers}
        \cup {Together(StlEvmFns!get_balance, StlEvmFns!send_raw_transaction),
              Together(StlNpmFns!add_user_to_team, StlNpmFns!list_granular_tokens)}
MembershipDeployments == {Alone(StlGithubFns!check_org_membership_of_user, "RoundRobin")}

\* Every API but one is configured.
MCConfigured == {f.api : f \in to_api_function} \ {"rustica"}
=============================================================================
