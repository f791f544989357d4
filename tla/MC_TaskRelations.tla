-------------------------- MODULE MC_TaskRelations --------------------------
(* A small instance of TaskRelations for TLC, with a history variable: cut,   *)
(* the requests under whose walk relations were removed.                      *)
EXTENDS TaskRelations

VARIABLE cut

MCInit == Init /\ cut = {}

MCNext ==
    /\ Next
    /\ cut' = {r \in Request : pc'[r] = "search" /\ (r \in cut \/ ~(relations \subseteq relations'))}

\* The loop of detect_cycle goes on as long as its queries are answered.
MCSpec ==
    /\ MCInit /\ [][MCNext]_<<vars, cut>>
    /\ \A r \in Request : WF_vars(Search(r))

\* "사이클이 존재하면 True" (services/transition_service.py): detect_cycle refuses a
\* relation only if it would close a cycle or MAX_CHAIN_DEPTH tasks can be reached
\* from the new blocker, whatever is added under its walk; only a removal can make
\* it see what is no longer there.
RefusalJustifiedUnlessCut ==
    [][\A r \in Request :
         pc[r] = "search" /\ answer'[r] = 422 =>
            LET reached == Reach(relations, edge[r][2])
            IN  \/ edge[r][1] \in reached
                \/ Cardinality(reached) >= MAX_CHAIN_DEPTH
                \/ r \in cut]_vars
=============================================================================
