------------------------- MODULE TaskNumberingProofs ------------------------
(***************************************************************************)
(* For every set of projects and requests: the numbers of a project are    *)
(* 1..task_counter, a create never conflicts, and the committed tasks are  *)
(* a TaskSequence.                                                         *)
(***************************************************************************)
EXTENDS TaskNumbering, TLAPS

\* A request is under way exactly with the row lock of its own project.
LockOwned ==
    \A r \in Request, p \in Project :
        lock[p] = r <=> (pc[r] \in Holding /\ project[r] = p)

\* What a request knows of the counter is never ahead of it; a create that
\* holds the lock, and any request past the flush, knows it exactly.
SeenIsCurrent ==
    \A r \in Request :
        /\ op[r] = "clone" /\ pc[r] \in {"lock", "flush"} => seen[r] <= counter[project[r]]
        /\ op[r] = "create" /\ pc[r] \in Holding => seen[r] = counter[project[r]]
        /\ pc[r] = "commit" => seen[r] = counter[project[r]]
        /\ pc[r] = "validate" => op[r] = "create"

\* The rows of tasks, as NumbersDense says, without the set of the numbers.
RowsDense ==
    \A p \in Project, n \in Nat : <<p, n>> \in tasks <=> n \in 1 .. counter[p]

IInv ==
    /\ TypeOK
    /\ LockOwned
    /\ SeenIsCurrent
    /\ RowsDense
    /\ CreateNeverConflicts

LEMMA DenseIff ==
    ASSUME TypeOK
    PROVE  RowsDense <=> NumbersDense
<1>1. \A p \in Project, n \in Nat : <<p, n>> \in tasks <=> n \in Numbers(p)
  BY DEF TypeOK, Numbers
<1>2. \A p \in Project : Numbers(p) \subseteq Nat
  BY DEF TypeOK, Numbers
<1>3. \A p \in Project : counter[p] \in Nat
  BY DEF TypeOK
<1>4. ASSUME RowsDense PROVE NumbersDense
  <2> SUFFICES ASSUME NEW p \in Project
               PROVE  Numbers(p) = 1 .. counter[p]
    BY DEF NumbersDense
  <2>1. \A n \in Nat : n \in Numbers(p) <=> n \in 1 .. counter[p]
    BY <1>1, <1>4 DEF RowsDense
  <2>2. 1 .. counter[p] \subseteq Nat
    BY <1>3
  <2> QED
    BY <1>2, <2>1, <2>2
<1>5. ASSUME NumbersDense PROVE RowsDense
  BY <1>1, <1>5 DEF RowsDense, NumbersDense
<1> QED
  BY <1>4, <1>5

LEMMA InitIInv == Init => IInv
  BY NumberingAssumption DEF Init, IInv, TypeOK, LockOwned, SeenIsCurrent,
     RowsDense, CreateNeverConflicts, Holding

\* The end of a transaction that wrote nothing keeps the invariant.
LEMMA FinishIInv ==
    ASSUME IInv, NEW r \in Request,
           NEW answer \in {"created", "rejected", "conflict", "aborted"},
           answer = "conflict" => op[r] = "clone",
           Finish(r, answer), UNCHANGED <<counter, tasks>>
    PROVE  IInv'
<1>1. TypeOK'
  BY DEF IInv, TypeOK, Finish
<1>2. LockOwned'
  BY NumberingAssumption DEF IInv, TypeOK, LockOwned, Finish, Holding
<1>3. SeenIsCurrent'
  BY DEF IInv, TypeOK, SeenIsCurrent, Finish, Holding
<1>4. RowsDense'
  BY DEF IInv, RowsDense
<1>5. CreateNeverConflicts'
  BY DEF IInv, TypeOK, CreateNeverConflicts, Finish
<1> QED
  BY <1>1, <1>2, <1>3, <1>4, <1>5 DEF IInv

LEMMA BeginIInv ==
    ASSUME IInv, NEW r \in Request, NEW p \in Project,
           BeginCreate(r, p) \/ BeginClone(r, p)
    PROVE  IInv'
<1>1. TypeOK'
  BY DEF IInv, TypeOK, BeginCreate, BeginClone, Begin
<1>2. LockOwned'
  BY DEF IInv, TypeOK, LockOwned, BeginCreate, BeginClone, Begin, Holding
<1>3. SeenIsCurrent'
  BY DEF IInv, TypeOK, SeenIsCurrent, BeginCreate, BeginClone, Begin, Holding
<1>4. RowsDense'
  BY DEF IInv, RowsDense, BeginCreate, BeginClone, Begin
<1>5. CreateNeverConflicts'
  BY DEF IInv, TypeOK, CreateNeverConflicts, BeginCreate, BeginClone, Begin
<1> QED
  BY <1>1, <1>2, <1>3, <1>4, <1>5 DEF IInv

LEMMA LockProjectIInv ==
    ASSUME IInv, NEW r \in Request, LockProject(r)
    PROVE  IInv'
<1>1. TypeOK'
  BY DEF IInv, TypeOK, LockProject, Holding
<1>2. LockOwned'
  BY NumberingAssumption DEF IInv, TypeOK, LockOwned, LockProject, Holding
<1>3. SeenIsCurrent'
  BY DEF IInv, TypeOK, SeenIsCurrent, LockProject, Holding
<1>4. RowsDense'
  BY DEF IInv, RowsDense, LockProject
<1>5. CreateNeverConflicts'
  BY DEF IInv, CreateNeverConflicts, LockProject
<1> QED
  BY <1>1, <1>2, <1>3, <1>4, <1>5 DEF IInv

LEMMA ValidateIInv ==
    ASSUME IInv, NEW r \in Request, AcceptAssignee(r) \/ FlushTask(r)
    PROVE  IInv'
<1>1. TypeOK'
  BY DEF IInv, TypeOK, AcceptAssignee, FlushTask, Holding
<1>2. LockOwned'
  BY DEF IInv, TypeOK, LockOwned, AcceptAssignee, FlushTask, Holding
<1>3. SeenIsCurrent'
  <2>1. CASE AcceptAssignee(r)
    BY <2>1 DEF IInv, TypeOK, SeenIsCurrent, AcceptAssignee, Holding
  <2>2. CASE FlushTask(r)
    \* Only the number after the last is free, so the counter read is current.
    <3>1. seen[r] + 1 \notin 1 .. counter[project[r]]
      BY <2>2 DEF IInv, TypeOK, RowsDense, FlushTask
    <3>2. seen[r] <= counter[project[r]]
      BY <2>2 DEF IInv, TypeOK, SeenIsCurrent, FlushTask, Holding
    <3>3. seen[r] = counter[project[r]]
      BY <3>1, <3>2 DEF IInv, TypeOK
    <3> QED
      BY <2>2, <3>3 DEF IInv, TypeOK, SeenIsCurrent, FlushTask, Holding
  <2> QED
    BY <2>1, <2>2
<1>4. RowsDense'
  BY DEF IInv, RowsDense, AcceptAssignee, FlushTask
<1>5. CreateNeverConflicts'
  BY DEF IInv, CreateNeverConflicts, AcceptAssignee, FlushTask
<1> QED
  BY <1>1, <1>2, <1>3, <1>4, <1>5 DEF IInv

\* A conflict needs a counter behind the committed one: only a clone has that.
LEMMA FlushConflictIInv ==
    ASSUME IInv, NEW r \in Request, FlushConflict(r)
    PROVE  IInv'
<1>1. seen[r] + 1 \in 1 .. counter[project[r]]
  BY DEF IInv, TypeOK, RowsDense, FlushConflict
<1>2. op[r] = "clone"
  BY <1>1 DEF IInv, TypeOK, SeenIsCurrent, FlushConflict, Holding
<1> QED
  BY <1>2, FinishIInv DEF FlushConflict

LEMMA CommitIInv ==
    ASSUME IInv, NEW r \in Request, Commit(r)
    PROVE  IInv'
<1> DEFINE p == project[r]
<1>1. /\ p \in Project
      /\ seen[r] = counter[p]
      /\ counter[p] \in Nat
      /\ lock[p] = r
  BY DEF IInv, TypeOK, SeenIsCurrent, LockOwned, Commit, Holding
<1>2. /\ counter' = [counter EXCEPT ![p] = counter[p] + 1]
      /\ tasks' = tasks \cup {<<p, counter[p] + 1>>}
  BY <1>1 DEF Commit
<1>3. TypeOK'
  BY <1>1, <1>2 DEF IInv, TypeOK, Commit, Finish
<1>4. LockOwned'
  BY NumberingAssumption DEF IInv, TypeOK, LockOwned, Commit, Finish, Holding
<1>5. SeenIsCurrent'
  \* Nobody else is under the lock of p; a clone that still waits falls behind.
  <2> SUFFICES ASSUME NEW q \in Request
               PROVE  /\ op'[q] = "clone" /\ pc'[q] \in {"lock", "flush"}
                          => seen'[q] <= counter'[project'[q]]
                      /\ op'[q] = "create" /\ pc'[q] \in Holding
                          => seen'[q] = counter'[project'[q]]
                      /\ pc'[q] = "commit" => seen'[q] = counter'[project'[q]]
                      /\ pc'[q] = "validate" => op'[q] = "create"
    BY DEF SeenIsCurrent
  <2>1. CASE q = r
    BY <2>1 DEF IInv, TypeOK, Commit, Finish, Holding
  <2>2. CASE q # r
    <3>1. /\ pc'[q] = pc[q]
          /\ op'[q] = op[q]
          /\ project'[q] = project[q]
          /\ seen'[q] = seen[q]
      BY <2>2 DEF IInv, TypeOK, Commit, Finish
    <3>2. project[q] = p => pc[q] \notin Holding
      BY <1>1, <2>2 DEF IInv, LockOwned
    <3>3. /\ project[q] \in Project
          /\ counter[project[q]] \in Nat
          /\ seen[q] \in Nat
          /\ counter'[project[q]] = IF project[q] = p THEN counter[p] + 1
                                    ELSE counter[project[q]]
      BY <1>1, <1>2 DEF IInv, TypeOK
    <3> QED
      BY <1>1, <3>1, <3>2, <3>3 DEF IInv, SeenIsCurrent, Holding
  <2> QED
    BY <2>1, <2>2
<1>6. RowsDense'
  <2> SUFFICES ASSUME NEW q \in Project, NEW n \in Nat
               PROVE  <<q, n>> \in tasks' <=> n \in 1 .. counter'[q]
    BY DEF RowsDense
  <2>1. <<q, n>> \in tasks <=> n \in 1 .. counter[q]
    BY DEF IInv, RowsDense
  <2>2. counter[q] \in Nat /\ counter'[q] = IF q = p THEN counter[p] + 1 ELSE counter[q]
    BY <1>1, <1>2 DEF IInv, TypeOK
  <2> HIDE DEF p
  <2> QED
    BY <1>1, <1>2, <2>1, <2>2
<1>7. CreateNeverConflicts'
  BY DEF IInv, TypeOK, CreateNeverConflicts, Commit, Finish
<1> QED
  BY <1>3, <1>4, <1>5, <1>6, <1>7 DEF IInv

LEMMA NextIInv == IInv /\ [Next]_vars => IInv'
<1> SUFFICES ASSUME IInv, [Next]_vars
             PROVE  IInv'
  OBVIOUS
<1>1. CASE UNCHANGED vars
  BY <1>1 DEF vars, IInv, TypeOK, LockOwned, SeenIsCurrent, RowsDense, CreateNeverConflicts
<1>2. ASSUME NEW r \in Request, NEW p \in Project, BeginCreate(r, p) \/ BeginClone(r, p)
      PROVE  IInv'
  BY <1>2, BeginIInv
<1>3. ASSUME NEW r \in Request, LockProject(r)
      PROVE  IInv'
  BY <1>3, LockProjectIInv
<1>4. ASSUME NEW r \in Request, AcceptAssignee(r) \/ FlushTask(r)
      PROVE  IInv'
  BY <1>4, ValidateIInv
<1>5. ASSUME NEW r \in Request, RejectAssignee(r) \/ Abort(r)
      PROVE  IInv'
  BY <1>5, FinishIInv DEF RejectAssignee, Abort
<1>6. ASSUME NEW r \in Request, FlushConflict(r)
      PROVE  IInv'
  BY <1>6, FlushConflictIInv
<1>7. ASSUME NEW r \in Request, Commit(r)
      PROVE  IInv'
  BY <1>7, CommitIInv
<1> QED
  BY <1>1, <1>2, <1>3, <1>4, <1>5, <1>6, <1>7 DEF Next, Handle

LEMMA Invariance == Spec => []IInv
  BY InitIInv, NextIInv, PTL DEF Spec

\* Every state of create_task and clone_task is typed.
THEOREM TypeCorrect == Spec => []TypeOK
<1>1. IInv => TypeOK
  BY DEF IInv
<1> QED
  BY <1>1, Invariance, PTL

\* However many requests number tasks at once, a project's tasks are numbered
\* 1..task_counter: the row lock and the UNIQUE constraint together suffice.
THEOREM NumbersAreDense == Spec => []NumbersDense
<1>1. IInv => NumbersDense
  BY DenseIff DEF IInv
<1> QED
  BY <1>1, Invariance, PTL

\* create_task never answers with a violated UNIQUE (project_id, number).
THEOREM CreatesDoNotConflict == Spec => []CreateNeverConflicts
<1>1. IInv => CreateNeverConflicts
  BY DEF IInv
<1> QED
  BY <1>1, Invariance, PTL

LEMMA InitSequence == Init => Sequence!Init
  BY DEF Init, Sequence!Init, Numbers

\* Every step but a commit leaves the numbers alone; a commit issues the next.
LEMMA NextSequence ==
    IInv /\ IInv' /\ [Next]_vars
        => [Sequence!Next]_[p \in Project |-> Numbers(p)]
<1> SUFFICES ASSUME IInv, IInv', [Next]_vars
             PROVE  [Sequence!Next]_[p \in Project |-> Numbers(p)]
  OBVIOUS
<1> DEFINE issued == [p \in Project |-> Numbers(p)]
<1>1. ASSUME tasks' = tasks
      PROVE  issued' = issued
  BY <1>1 DEF Numbers
<1>2. ASSUME NEW r \in Request, Commit(r)
      PROVE  Sequence!Next
  <2> DEFINE p == project[r]
  <2> DEFINE n == counter[p] + 1
  <2>1. /\ p \in Project
        /\ counter[p] \in Nat
        /\ counter' = [counter EXCEPT ![p] = n]
    BY <1>2 DEF IInv, TypeOK, SeenIsCurrent, Commit, Holding
  <2>2. NumbersDense /\ NumbersDense'
    BY DenseIff, PTL DEF IInv
  <2>3. \A q \in Project : issued[q] = 1 .. counter[q]
    BY <2>2 DEF NumbersDense
  <2>4. \A q \in Project : issued'[q] = 1 .. counter'[q]
    BY <2>2 DEF NumbersDense
  <2>5. n \in {1} \cup {m + 1 : m \in issued[p]}
    <3>1. CASE counter[p] = 0
      BY <3>1
    <3>2. CASE counter[p] # 0
      BY <2>1, <2>3, <3>2
    <3> QED
      BY <3>1, <3>2
  <2>6. n \notin issued[p] /\ 1 .. (n - 1) \subseteq issued[p]
    BY <2>1, <2>3
  <2>7. issued' = [issued EXCEPT ![p] = @ \cup {n}]
    <3>1. 1 .. n = (1 .. counter[p]) \cup {n}
      BY <2>1
    <3>2. \A q \in Project : issued'[q] = IF q = p THEN issued[q] \cup {n} ELSE issued[q]
      BY <2>1, <2>3, <2>4, <3>1 DEF IInv, TypeOK
    <3> QED
      BY <2>1, <3>2
  <2>8. Sequence!Issue(p)
    BY <2>5, <2>6, <2>7 DEF Sequence!Issue
  <2> QED
    BY <2>1, <2>8 DEF Sequence!Next
<1> QED
  BY <1>1, <1>2 DEF Next, Handle, BeginCreate, BeginClone, Begin, LockProject,
     AcceptAssignee, RejectAssignee, FlushTask, FlushConflict, Abort, Finish, vars

\* Behind the locks, stale reads and rollbacks is the plain sequence of numbers.
THEOREM ImplementsSequence == Spec => SequenceSpec
  BY InitSequence, NextSequence, Invariance, PTL DEF SequenceSpec, Sequence!Spec, Spec
=============================================================================
