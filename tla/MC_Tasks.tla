------------------------------- MODULE MC_Tasks -------------------------------
(***************************************************************************)
(* TaskStatus beside the parts of MC_TaskData in one run: the initial      *)
(* state picks the one or the other, and only that one moves.  The         *)
(* requests of MC_TaskData are the movers here, so that they are told      *)
(* apart by nothing here as there; Writer changes relations.               *)
(***************************************************************************)
EXTENDS MC_TaskData

CONSTANTS Moved, Writer, NotMoving, MAX_BLOCKED_BY, MAX_CHAIN_DEPTH

VARIABLES side,
          relations, rStep, edge, visited, stack, doomed, refusal, missed, raced,
          status, step, moving, from, to, stale, unsettled

W == INSTANCE TaskStatus WITH Task <- Moved, Mover <- Request, Request <- Writer,
                              NoTask <- NotMoving, pc <- rStep, answer <- refusal

wVars == <<relations, rStep, edge, visited, stack, doomed, refusal, missed, raced,
           status, step, moving, from, to, stale, unsettled>>
dataVars == <<part, vars, cVars, lVars, aVars, tVars, pVars, sVars, dVars>>

TasksInit ==
    /\ side \in {"data", "status"}
    /\ MCInit /\ W!Init
    /\ side = "status" => part = "dashboard"

TasksNext ==
    /\ UNCHANGED side
    /\ \/ side = "data" /\ MCNext /\ UNCHANGED wVars
       \/ side = "status" /\ W!Next /\ UNCHANGED dataVars

TasksSpec == TasksInit /\ [][TasksNext]_<<side, dataVars, wVars>>

LegalUnlessStale == W!LegalUnlessStale
StartsUnblockedUnlessChanged == W!StartsUnblockedUnlessChanged
=============================================================================
