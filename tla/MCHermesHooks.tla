---------------------------- MODULE MCHermesHooks ----------------------------
(* An instance of HermesHooks for TLC: two memory calls that share a task id, *)
(* and a skill call. Beside it an instance of DedupeCache; as the two share   *)
(* nothing, one of them stays where it began while the other moves.           *)
EXTENDS HermesHooks, DedupeCache, TLC

CONSTANTS add, edit, skill, task, skillCall, memoryMd, dream

MCInvocation ==
       add   :> [tool |-> "memory", id |-> task, args |-> "add", path |-> memoryMd]
    @@ edit  :> [tool |-> "memory", id |-> task, args |-> "replace", path |-> memoryMd]
    @@ skill :> [tool |-> "skill_manage", id |-> skillCall, args |-> "create",
                 path |-> "/skills/x"]

VARIABLE moves    \* which of the two moves

both == <<vars, cacheVars, moves>>

MCInit == Init /\ CacheInit /\ moves \in {"hooks", "cache"}

HooksMove  == moves = "hooks" /\ Next /\ UNCHANGED <<cacheVars, moves>>
CacheMoves == moves = "cache" /\ CacheNext /\ UNCHANGED <<vars, moves>>

MCNext == HooksMove \/ CacheMoves

MCSpec == MCInit /\ [][MCNext]_both
                 /\ WF_vars((\E f \in File : OnChange(f)) \/ Pair \/ SendChange)
=============================================================================
