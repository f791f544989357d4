-------------------------- MODULE TaskStatusProofs --------------------------
(***************************************************************************)
(* For any number of tasks, movers and requests that change relations:     *)
(* what a mover read still holds when it writes, unless one of the writes  *)
(* that stale and unsettled record came in between.  The theorems are      *)
(* about W, TaskStatus as MC_Tasks instantiates it, where Moved are the    *)
(* tasks, Request the movers and Writer the requests.                      *)
(***************************************************************************)
EXTENDS MC_Tasks, TLAPS

\* The status a mover read is the task's, unless it is stale.
ReadIsCurrent ==
    \A m \in Request : step[m] # "idle" /\ ~ stale[m] => status[moving[m]] = from[m]

\* The blockers a mover checked are finished, unless one was added or reopened.
CheckIsCurrent ==
    \A m \in Request : step[m] = "write" /\ to[m] = "PROGRESS" /\ ~ unsettled[m] =>
        W!Unfinished(moving[m]) = {}

IInv == W!TypeOK /\ ReadIsCurrent /\ CheckIsCurrent

LEMMA InitIInv == W!Init => IInv
  BY DEF W!Init, IInv, W!TypeOK, ReadIsCurrent, CheckIsCurrent, W!Status

LEMMA ChangeRelationsIInv ==
    ASSUME IInv, W!ChangeRelations
    PROVE  IInv'
<1>1. UNCHANGED <<status, step, moving, from, to, stale>>
  BY DEF W!ChangeRelations, W!statusVars
<1>2. W!TypeOK'
  BY <1>1 DEF IInv, W!TypeOK, W!ChangeRelations
<1>3. ReadIsCurrent'
  BY <1>1 DEF IInv, ReadIsCurrent
<1>4. CheckIsCurrent'
  <2> SUFFICES ASSUME NEW m \in Request, step[m] = "write", to[m] = "PROGRESS", ~ unsettled'[m],
                      NEW b \in Moved, <<moving[m], b>> \in relations'
               PROVE  status[b] \in W!Finished
    BY <1>1 DEF CheckIsCurrent, W!Unfinished
  <2>1. ~ unsettled[m] /\ ~ \E e \in relations' \ relations : e[1] = moving[m]
    BY DEF W!ChangeRelations
  <2>2. <<moving[m], b>> \in relations
    BY <2>1
  <2> QED
    BY <2>1, <2>2 DEF IInv, CheckIsCurrent, W!Unfinished
<1> QED
  BY <1>2, <1>3, <1>4 DEF IInv

LEMMA BeginMoveIInv ==
    ASSUME IInv, NEW m \in Request, NEW t \in Moved, NEW s \in W!Status, W!BeginMove(m, t, s)
    PROVE  IInv'
<1>1. W!TypeOK'
  BY DEF IInv, W!TypeOK, W!BeginMove
<1>2. ReadIsCurrent'
  BY DEF IInv, W!TypeOK, ReadIsCurrent, W!BeginMove
<1>3. CheckIsCurrent'
  BY DEF IInv, W!TypeOK, CheckIsCurrent, W!Unfinished, W!BeginMove, W!relationVars
<1> QED
  BY <1>1, <1>2, <1>3 DEF IInv

LEMMA CheckBlockedByIInv ==
    ASSUME IInv, NEW m \in Request, W!CheckBlockedBy(m)
    PROVE  IInv'
<1>1. W!TypeOK'
  BY DEF IInv, W!TypeOK, W!CheckBlockedBy
<1>2. ReadIsCurrent'
  BY DEF IInv, W!TypeOK, ReadIsCurrent, W!CheckBlockedBy
<1>3. CheckIsCurrent'
  BY DEF IInv, W!TypeOK, CheckIsCurrent, W!Unfinished, W!CheckBlockedBy, W!relationVars
<1> QED
  BY <1>1, <1>2, <1>3 DEF IInv

\* A mover that ends without a write.
LEMMA EndIInv ==
    ASSUME IInv, NEW m \in Request, W!RefuseBlocked(m) \/ W!AbortMove(m)
    PROVE  IInv'
<1>1. W!TypeOK'
  BY DEF IInv, W!TypeOK, W!RefuseBlocked, W!AbortMove, W!EndMove, W!Status
<1>2. ReadIsCurrent'
  BY DEF IInv, W!TypeOK, ReadIsCurrent, W!RefuseBlocked, W!AbortMove, W!EndMove
<1>3. CheckIsCurrent'
  BY DEF IInv, W!TypeOK, CheckIsCurrent, W!Unfinished, W!RefuseBlocked, W!AbortMove,
     W!EndMove, W!relationVars
<1> QED
  BY <1>1, <1>2, <1>3 DEF IInv

\* A write makes the reads of its task stale, and unsettles the checks of the
\* tasks that wait for it when it is not a finishing one.
LEMMA WriteStatusIInv ==
    ASSUME IInv, NEW m \in Request, W!WriteStatus(m)
    PROVE  IInv'
<1>1. /\ moving[m] \in Moved
      /\ status' = [status EXCEPT ![moving[m]] = to[m]]
      /\ UNCHANGED relations
  BY DEF IInv, W!TypeOK, W!WriteStatus, W!relationVars
<1>2. \A n \in Request \ {m} : /\ step'[n] = step[n] /\ moving'[n] = moving[n]
                             /\ from'[n] = from[n] /\ to'[n] = to[n]
  BY DEF IInv, W!TypeOK, W!WriteStatus, W!EndMove
<1>3. W!TypeOK'
  <2>1. /\ stale' \in [Request -> BOOLEAN]
        /\ unsettled' \in [Request -> BOOLEAN]
    BY DEF W!WriteStatus
  <2> QED
    BY <1>1, <2>1 DEF IInv, W!TypeOK, W!WriteStatus, W!EndMove, W!Status
<1>4. ReadIsCurrent'
  <2> SUFFICES ASSUME NEW n \in Request, step'[n] # "idle", ~ stale'[n]
               PROVE  status'[moving'[n]] = from'[n]
    BY DEF ReadIsCurrent
  <2>1. n # m
    BY DEF IInv, W!TypeOK, W!WriteStatus, W!EndMove
  <2>2. ~ stale[n] /\ moving[n] # moving[m]
    BY <2>1 DEF W!WriteStatus
  <2>3. status[moving[n]] = from[n] /\ moving[n] \in Moved
    BY <1>2, <2>1, <2>2 DEF IInv, W!TypeOK, ReadIsCurrent
  <2> QED
    BY <1>1, <1>2, <2>1, <2>2, <2>3 DEF IInv, W!TypeOK
<1>5. CheckIsCurrent'
  <2> SUFFICES ASSUME NEW n \in Request, step'[n] = "write", to'[n] = "PROGRESS", ~ unsettled'[n],
                      NEW b \in Moved, <<moving'[n], b>> \in relations
               PROVE  status'[b] \in W!Finished
    BY <1>1 DEF CheckIsCurrent, W!Unfinished
  <2>1. n # m
    BY DEF IInv, W!TypeOK, W!WriteStatus, W!EndMove
  <2>2. ~ unsettled[n] /\ (b = moving[m] => to[m] \in W!Finished)
    BY <1>2, <2>1 DEF W!WriteStatus
  <2>3. status[b] \in W!Finished
    BY <1>2, <2>1, <2>2 DEF IInv, CheckIsCurrent, W!Unfinished
  <2> QED
    BY <1>1, <2>2, <2>3 DEF IInv, W!TypeOK
<1> QED
  BY <1>3, <1>4, <1>5 DEF IInv

LEMMA NextIInv == IInv /\ [W!Next]_(W!vars) => IInv'
<1> SUFFICES ASSUME IInv, [W!Next]_(W!vars)
             PROVE  IInv'
  OBVIOUS
<1>1. CASE UNCHANGED W!vars
  BY <1>1 DEF W!vars, W!statusVars, W!relationVars, IInv, W!TypeOK, ReadIsCurrent,
     CheckIsCurrent, W!Unfinished
<1>2. CASE W!ChangeRelations
  BY <1>2, ChangeRelationsIInv
<1>3. ASSUME NEW m \in Request, W!Move(m)
      PROVE  IInv'
  BY <1>3, BeginMoveIInv, CheckBlockedByIInv, EndIInv, WriteStatusIInv DEF W!Move
<1> QED
  BY <1>1, <1>2, <1>3 DEF W!Next

LEMMA Invariance == W!Spec => []IInv
  BY InitIInv, NextIInv, PTL DEF W!Spec

\* Every state of the movers is typed; what is written is an allowed transition
\* from what was read.
THEOREM TypeCorrect == W!Spec => []W!TypeOK
<1>1. IInv => W!TypeOK
  BY DEF IInv
<1> QED
  BY <1>1, Invariance, PTL

\* The status a step of m writes, and the task it writes.
LEMMA WriteStep ==
    ASSUME IInv, [W!Next]_(W!vars), NEW m \in Request, W!Writes(m)
    PROVE  /\ moving[m] \in Moved
           /\ to[m] = status'[moving[m]]
<1>1. ~ UNCHANGED status /\ ~ UNCHANGED step
  BY DEF W!Writes
<1>2. ~ W!ChangeRelations
  BY <1>1 DEF W!ChangeRelations, W!statusVars
<1>3. PICK n \in Request : W!WriteStatus(n)
  BY <1>1, <1>2 DEF W!Next, W!Move, W!BeginMove, W!CheckBlockedBy, W!RefuseBlocked,
     W!AbortMove, W!vars, W!statusVars
<1>4. n = m
  BY <1>3 DEF W!Writes, W!WriteStatus, W!EndMove, IInv, W!TypeOK
<1> QED
  BY <1>3, <1>4 DEF W!WriteStatus, IInv, W!TypeOK

\* A status changes along ALLOWED_TRANSITIONS unless two moves of one task
\* overlap.
THEOREM MovesAreLegal == W!Spec => LegalUnlessStale
<1> DEFINE Act == \A m \in Request : W!Writes(m) /\ ~ stale[m] =>
                  <<status[moving[m]], status'[moving[m]]>> \in W!ALLOWED_TRANSITIONS
<1>1. ASSUME IInv, [W!Next]_(W!vars)
      PROVE  Act
  <2> SUFFICES ASSUME NEW m \in Request, W!Writes(m), ~ stale[m]
               PROVE  <<status[moving[m]], status'[moving[m]]>> \in W!ALLOWED_TRANSITIONS
    OBVIOUS
  <2>1. status[moving[m]] = from[m] /\ <<from[m], to[m]>> \in W!ALLOWED_TRANSITIONS
    BY <1>1 DEF W!Writes, IInv, W!TypeOK, ReadIsCurrent
  <2> QED
    BY <1>1, <2>1, WriteStep
<1>2. IInv /\ [W!Next]_(W!vars) => [Act]_(W!vars)
  BY <1>1
<1> QED
  BY <1>2, Invariance, PTL DEF W!Spec, LegalUnlessStale, W!LegalUnlessStale

\* A task starts with all its blockers finished unless a blocker was added or
\* reopened after the check.
THEOREM StartsAreUnblocked == W!Spec => StartsUnblockedUnlessChanged
<1> DEFINE Act == \A m \in Request :
                  W!Writes(m) /\ ~ unsettled[m] /\ status'[moving[m]] = "PROGRESS" =>
                    W!Unfinished(moving[m]) = {}
<1>1. ASSUME IInv, [W!Next]_(W!vars)
      PROVE  Act
  <2> SUFFICES ASSUME NEW m \in Request, W!Writes(m), ~ unsettled[m],
                      status'[moving[m]] = "PROGRESS"
               PROVE  W!Unfinished(moving[m]) = {}
    OBVIOUS
  <2>1. to[m] = "PROGRESS"
    BY <1>1, WriteStep
  <2> QED
    BY <1>1, <2>1 DEF W!Writes, IInv, CheckIsCurrent
<1>2. IInv /\ [W!Next]_(W!vars) => [Act]_(W!vars)
  BY <1>1
<1> QED
  BY <1>2, Invariance, PTL DEF W!Spec, StartsUnblockedUnlessChanged,
     W!StartsUnblockedUnlessChanged

\* In MC_Tasks the parts of MC_TaskData and TaskStatus run each by its own, so what
\* is proved of their specifications holds there.
THEOREM SidesAreThemselves == TasksSpec => MCSpec /\ W!Spec
<1>1. TasksInit => MCInit /\ W!Init
  BY DEF TasksInit
<1>2. [TasksNext]_<<side, dataVars, wVars>> =>
         [MCNext]_<<part, vars, cVars, lVars, aVars, tVars, pVars, sVars, dVars>> /\ [W!Next]_(W!vars)
  <2> SUFFICES ASSUME [TasksNext]_<<side, dataVars, wVars>>
               PROVE  [MCNext]_<<part, vars, cVars, lVars, aVars, tVars, pVars, sVars, dVars>>
                      /\ [W!Next]_(W!vars)
    OBVIOUS
  <2>1. UNCHANGED wVars => UNCHANGED W!vars
    BY DEF wVars, W!vars, W!relationVars, W!statusVars
  <2>2. (MCNext /\ UNCHANGED wVars) \/ (W!Next /\ UNCHANGED dataVars) \/ UNCHANGED <<dataVars, wVars>>
    BY DEF TasksNext
  <2> QED
    BY <2>1, <2>2 DEF dataVars
<1> QED
  BY <1>1, <1>2, PTL DEF TasksSpec, MCSpec, W!Spec
=============================================================================
