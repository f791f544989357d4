------------------------ MODULE TaskRelationsProofs -------------------------
(***************************************************************************)
(* For every finite set of tasks and every number of overlapping requests: *)
(* the relations whose insertion missed no other one are acyclic and stay  *)
(* within MAX_BLOCKED_BY, whatever is deleted under the walks; and a walk  *)
(* refuses a relation only with a reason, unless it was cut.               *)
(***************************************************************************)
EXTENDS MC_TaskRelations, FiniteSetTheorems, SequenceTheorems, TLAPS

OnStack(r) == {stack[r][i] : i \in 1 .. Len(stack[r])}

\* Every edge leads into a set of tasks that no edge leaves, and starts outside.
Separated(E) ==
    \A e \in E : \E S \in SUBSET Task : e[1] \notin S /\ e[2] \in S /\ Closed(E, S)

\* The walk of r so far: what it visited leads only to what it visited or has
\* still on the stack, and never to the task that is to be blocked.
WalkClosed(r) ==
    /\ edge[r][2] \in visited[r] \cup OnStack(r)
    /\ edge[r][1] \notin visited[r]
    /\ \A e \in relations : e[1] \in visited[r] => e[2] \in visited[r] \cup OnStack(r)
    /\ pc[r] = "insert" => stack[r] = <<>>

BelowLimit(r) == Cardinality(Blockers(relations, edge[r][1])) < MAX_BLOCKED_BY

ChecksHold ==
    \A r \in Request : pc[r] \in Adding /\ ~ missed[r] => WalkClosed(r) /\ BelowLimit(r)

Fresh == \A r \in Request : pc[r] = "idle" => visited[r] = {}

IInv ==
    /\ TypeOK
    /\ Fresh
    /\ ChecksHold
    /\ Separated(relations \ raced)
    /\ LimitUnlessRaced

-----------------------------------------------------------------------------
\* Relations may go without closing a cycle.
LEMMA SeparatedShrinks ==
    ASSUME NEW E, NEW F, F \subseteq E, Separated(E)
    PROVE  Separated(F)
  BY DEF Separated, Closed

\* A relation out of reach of its own blocker closes no cycle: the separating
\* set of an old edge is cut down to V or enlarged by V where the new edge
\* would leave it.
LEMMA SeparatedGrows ==
    ASSUME NEW E, Separated(E), NEW e, NEW V \in SUBSET Task,
           Closed(E, V), e[2] \in V, e[1] \notin V
    PROVE  Separated(E \cup {e})
<1> SUFFICES ASSUME NEW f \in E \cup {e}
             PROVE  \E S \in SUBSET Task :
                        f[1] \notin S /\ f[2] \in S /\ Closed(E \cup {e}, S)
  BY DEF Separated
<1>1. CASE f = e
  BY <1>1 DEF Closed
<1>2. CASE f \in E
  <2>1. PICK S \in SUBSET Task : f[1] \notin S /\ f[2] \in S /\ Closed(E, S)
    BY <1>2 DEF Separated
  <2>2. CASE e[1] \notin S
    BY <2>1, <2>2 DEF Closed
  <2>3. CASE e[1] \in S /\ f[1] \notin V
    <3>1. Closed(E \cup {e}, S \cup V)
      BY <2>1 DEF Closed
    <3> QED
      BY <2>1, <2>3, <3>1
  <2>4. CASE f[1] \in V
    <3>1. f[2] \in V
      BY <1>2, <2>4 DEF Closed
    <3>2. Closed(E \cup {e}, S \cap V)
      BY <2>1 DEF Closed
    <3> QED
      BY <2>1, <3>1, <3>2
  <2> QED
    BY <2>2, <2>3, <2>4
<1> QED
  BY <1>1, <1>2

LEMMA SeparatedAcyclic ==
    ASSUME NEW E, Separated(E)
    PROVE  AcyclicOn(E)
  BY DEF Separated, AcyclicOn, Reach

LEMMA BlockersFinite ==
    ASSUME NEW E, NEW t
    PROVE  /\ IsFiniteSet(Blockers(E, t))
           /\ Cardinality(Blockers(E, t)) \in Nat
<1>1. Blockers(E, t) \subseteq Task
  BY DEF Blockers
<1> QED
  BY <1>1, RelationsAssumption, FS_Subset, FS_CardinalityType

\* Fewer relations, fewer blockers.
LEMMA BlockersShrink ==
    ASSUME NEW E, NEW F, F \subseteq E, NEW t
    PROVE  Cardinality(Blockers(F, t)) <= Cardinality(Blockers(E, t))
<1>1. Blockers(F, t) \subseteq Blockers(E, t)
  BY DEF Blockers
<1> QED
  BY <1>1, BlockersFinite, FS_Subset

\* One more relation of t, at most one more blocker.
LEMMA BlockersGrow ==
    ASSUME NEW E, NEW e \in Edge, NEW t \in Task
    PROVE  Cardinality(Blockers(E \cup {e}, t))
              <= IF t = e[1] THEN Cardinality(Blockers(E, t)) + 1
                             ELSE Cardinality(Blockers(E, t))
<1>1. e = <<e[1], e[2]>> /\ e[1] \in Task /\ e[2] \in Task
  BY DEF Edge
<1>2. CASE t = e[1]
  <2>1. Blockers(E \cup {e}, t) = Blockers(E, t) \cup {e[2]}
    BY <1>1, <1>2 DEF Blockers
  <2> DEFINE B == Blockers(E, t)
  <2> DEFINE n == Cardinality(B)
  <2>2. n \in Nat /\ IsFiniteSet(B)
    BY BlockersFinite
  <2>3. Cardinality(B \cup {e[2]}) = IF e[2] \in B THEN n ELSE n + 1
    <3> HIDE DEF B
    <3> QED
      BY <2>2, FS_AddElement
  <2>4. Cardinality(Blockers(E \cup {e}, t)) \in {n, n + 1}
    <3> HIDE DEF n, B
    <3> QED
      BY <2>1, <2>3 DEF B
  <2>5. Cardinality(Blockers(E \cup {e}, t)) <= n + 1
    <3> HIDE DEF n
    <3> QED
      BY <2>2, <2>4
  <2> QED
    BY <1>2, <2>5
<1>3. CASE t # e[1]
  <2>1. Blockers(E \cup {e}, t) = Blockers(E, t)
    BY <1>1, <1>3 DEF Blockers
  <2> QED
    BY <1>3, <2>1, BlockersFinite
<1> QED
  BY <1>2, <1>3

-----------------------------------------------------------------------------
\* The checks of a request survive the steps of others that insert nothing.
LEMMA Untouched ==
    ASSUME IInv, NEW q \in Request, pc[q] \in Adding, ~ missed[q],
           pc'[q] = pc[q], edge'[q] = edge[q], visited'[q] = visited[q],
           stack'[q] = stack[q], relations' \subseteq relations
    PROVE  WalkClosed(q)' /\ BelowLimit(q)'
<1>1. WalkClosed(q) /\ BelowLimit(q)
  BY DEF IInv, ChecksHold
<1>2. OnStack(q)' = OnStack(q)
  BY DEF OnStack
<1>3. WalkClosed(q)'
  BY <1>1, <1>2 DEF WalkClosed
<1>4. Cardinality(Blockers(relations', edge[q][1]))
         <= Cardinality(Blockers(relations, edge[q][1]))
  BY BlockersShrink
<1>5. Cardinality(Blockers(relations', edge[q][1])) < MAX_BLOCKED_BY
  BY <1>1, <1>4, BlockersFinite, RelationsAssumption DEF BelowLimit
<1>6. BelowLimit(q)' <=> Cardinality(Blockers(relations', edge'[q][1])) < MAX_BLOCKED_BY
  BY DEF BelowLimit, Blockers
<1> QED
  BY <1>3, <1>5, <1>6

LEMMA InitIInv == Init => IInv
<1> SUFFICES ASSUME Init
             PROVE  IInv
  OBVIOUS
<1>1. TypeOK /\ Fresh /\ ChecksHold
  BY DEF Init, TypeOK, Fresh, ChecksHold, Adding
<1>2. Separated(relations \ raced)
  BY DEF Init, Separated
<1>3. LimitUnlessRaced
  <2>1. \A t \in Task : Blockers(relations \ raced, t) = {}
    BY DEF Init, Blockers
  <2> QED
    BY <2>1, FS_EmptySet, RelationsAssumption DEF LimitUnlessRaced
<1> QED
  BY <1>1, <1>2, <1>3 DEF IInv

\* The end of a request, with or without deletions.
LEMMA AnswerIInv ==
    ASSUME IInv, NEW r \in Request, NEW code \in {0, 201, 204, 404, 422, 500},
           Answer(r, code), NEW D, relations' = relations \ D, raced' = raced \ D
    PROVE  IInv'
<1>1. TypeOK'
  BY DEF IInv, TypeOK, Answer, Adding
<1>2. Fresh'
  BY DEF IInv, TypeOK, Fresh, Answer
<1>3. ChecksHold'
  <2> SUFFICES ASSUME NEW q \in Request, pc'[q] \in Adding, ~ missed'[q]
               PROVE  WalkClosed(q)' /\ BelowLimit(q)'
    BY DEF ChecksHold
  <2>1. /\ q # r
        /\ pc'[q] = pc[q] /\ edge'[q] = edge[q]
        /\ visited'[q] = visited[q] /\ stack'[q] = stack[q]
    BY DEF IInv, TypeOK, Answer, Adding
  <2>2. ~ missed[q]
    BY <2>1 DEF IInv, TypeOK, Answer
  <2> QED
    BY <2>1, <2>2, Untouched
<1>4. relations' \ raced' \subseteq relations \ raced
  OBVIOUS
<1>5. Separated(relations' \ raced')
  BY <1>4, SeparatedShrinks DEF IInv
<1>6. LimitUnlessRaced'
  <2> SUFFICES ASSUME NEW t \in Task
               PROVE  Cardinality(Blockers(relations' \ raced', t)) <= MAX_BLOCKED_BY
    BY DEF LimitUnlessRaced, Blockers
  <2>1. Cardinality(Blockers(relations' \ raced', t))
           <= Cardinality(Blockers(relations \ raced, t))
    BY <1>4, BlockersShrink
  <2> QED
    BY <2>1, BlockersFinite, RelationsAssumption DEF IInv, LimitUnlessRaced
<1> QED
  BY <1>1, <1>2, <1>3, <1>5, <1>6 DEF IInv, Separated, Closed

\* Steps that write no row: what is left is the bookkeeping of one request.
LEMMA SameRelations ==
    ASSUME IInv, UNCHANGED <<relations, raced>>, TypeOK', Fresh', ChecksHold'
    PROVE  IInv'
  BY DEF IInv, LimitUnlessRaced, Separated, Closed, Blockers

LEMMA BeginAddIInv ==
    ASSUME IInv, NEW r \in Request, NEW t \in Task, NEW b \in Task, BeginAdd(r, t, b)
    PROVE  IInv'
<1>1. TypeOK'
  <2>1. <<t, b>> \in Edge /\ <<b>> \in Seq(Task)
    BY DEF BeginAdd, Edge
  <2>2. pc' \in [Request -> {"idle", "refresh", "delete", "commit"} \cup Adding]
    BY DEF IInv, TypeOK, BeginAdd, Adding
  <2>3. edge' \in [Request -> Edge \cup {NoEdge}] /\ stack' \in [Request -> Seq(Task)]
    BY <2>1 DEF IInv, TypeOK, BeginAdd
  <2>4. \A q \in Request : pc'[q] \in {"refresh", "delete"} \cup Adding => edge'[q] \in Edge
    BY <2>1 DEF IInv, TypeOK, BeginAdd
  <2> QED
    BY <2>2, <2>3, <2>4 DEF IInv, TypeOK, BeginAdd
<1>2. Fresh'
  BY DEF IInv, TypeOK, Fresh, BeginAdd
<1>3. ChecksHold'
  <2> SUFFICES ASSUME NEW q \in Request, pc'[q] \in Adding, ~ missed'[q]
               PROVE  WalkClosed(q)' /\ BelowLimit(q)'
    BY DEF ChecksHold
  <2>1. CASE q = r
    <3>1. /\ edge'[r] = <<t, b>> /\ visited'[r] = {} /\ stack'[r] = <<b>>
          /\ pc'[r] = "search"
      BY DEF IInv, TypeOK, Fresh, BeginAdd
    <3>2. OnStack(r)' = {b}
      BY <3>1 DEF OnStack
    <3>3. edge'[r][1] = t /\ edge'[r][2] = b
      BY <3>1
    <3>4. WalkClosed(r)'
      BY <3>1, <3>2, <3>3 DEF WalkClosed
    <3>5. BelowLimit(r)'
      <4>1. Blockers(relations', edge'[r][1]) = Blockers(relations, t)
        BY <3>3 DEF BeginAdd
      <4> QED
        BY <4>1 DEF BelowLimit, BeginAdd, Blockers
    <3> QED
      BY <2>1, <3>4, <3>5
  <2>2. CASE q # r
    <3>1. /\ pc'[q] = pc[q] /\ edge'[q] = edge[q] /\ relations' = relations
          /\ visited'[q] = visited[q] /\ stack'[q] = stack[q]
      BY <2>2 DEF IInv, TypeOK, BeginAdd
    <3>2. ~ missed[q]
      BY DEF BeginAdd
    <3> QED
      BY <3>1, <3>2, Untouched
  <2> QED
    BY <2>1, <2>2
<1> QED
  BY <1>1, <1>2, <1>3, SameRelations DEF BeginAdd

\* Whatever was on the stack is still on it, or is the popped top; the rows of
\* the query are on it too.
LEMMA VisitStack ==
    ASSUME IInv, NEW r \in Request, Visit(r)
    PROVE  LET top == stack[r][Len(stack[r])]
           IN  /\ top \in Task
               /\ stack' \in [Request -> Seq(Task)]
               /\ OnStack(r) \subseteq OnStack(r)' \cup {top}
               /\ top \notin visited[r] => Blockers(relations, top) \subseteq OnStack(r)'
<1> DEFINE top == stack[r][Len(stack[r])]
<1> DEFINE rest == SubSeq(stack[r], 1, Len(stack[r]) - 1)
<1>1. /\ stack \in [Request -> Seq(Task)]
      /\ stack[r] \in Seq(Task) /\ stack[r] # <<>>
      /\ Len(stack[r]) \in Nat /\ Len(stack[r]) > 0
      /\ top \in Task
  BY DEF IInv, TypeOK, Visit
<1>2. /\ rest \in Seq(Task)
      /\ Len(rest) = Len(stack[r]) - 1
      /\ \A i \in 1 .. Len(rest) : rest[i] = stack[r][i]
  <2>1. \A i \in 1 .. Len(stack[r]) - 1 : stack[r][i] \in Task
    BY <1>1, ElementOfSeq
  <2> DEFINE L == Len(stack[r]) - 1
  <2>2. L \in Nat
    BY <1>1
  <2> HIDE DEF L
  <2>3. /\ SubSeq(stack[r], 1, L) \in Seq(Task)
        /\ Len(SubSeq(stack[r], 1, L)) = IF 1 <= L THEN L - 1 + 1 ELSE 0
        /\ \A i \in 1 .. L - 1 + 1 : SubSeq(stack[r], 1, L)[i] = stack[r][1 + i - 1]
    BY <2>1, <2>2, SubSeqProperties DEF L
  <2>4. Len(SubSeq(stack[r], 1, L)) = L
    BY <2>2, <2>3
  <2>5. \A i \in 1 .. L : SubSeq(stack[r], 1, L)[i] = stack[r][i]
    BY <2>2, <2>3
  <2> QED
    BY <2>3, <2>4, <2>5 DEF L
<1>3. \A i \in 1 .. Len(stack[r]) : stack[r][i] = top \/ i \in 1 .. Len(rest)
  BY <1>1, <1>2
<1>4. CASE top \in visited[r]
  <2>1. stack' = [stack EXCEPT ![r] = rest]
    BY <1>4 DEF Visit
  <2>2. stack'[r] = rest
    BY <1>1, <2>1
  <2> HIDE DEF rest, top
  <2>3. OnStack(r) \subseteq OnStack(r)' \cup {top}
    BY <1>2, <1>3, <2>2 DEF OnStack
  <2> QED
    BY <1>1, <1>2, <1>4, <2>1, <2>3 DEF top
<1>5. CASE top \notin visited[r]
  <2>1. PICK parents \in Rows(top) : stack' = [stack EXCEPT ![r] = rest \o parents]
    BY <1>5 DEF Visit
  <2>2. /\ Blockers(relations, top) \subseteq Task
        /\ Cardinality(Blockers(relations, top)) \in Nat
    BY BlockersFinite DEF Blockers
  <2>3. /\ parents \in Seq(Task)
        /\ \A b \in Blockers(relations, top) : \E i \in 1 .. Len(parents) : parents[i] = b
    BY <2>2 DEF Rows
  <2> HIDE DEF rest, top
  <2>4. /\ rest \o parents \in Seq(Task)
        /\ Len(rest \o parents) = Len(rest) + Len(parents)
        /\ \A i \in 1 .. Len(rest) : (rest \o parents)[i] = rest[i]
        /\ \A i \in 1 .. Len(parents) : (rest \o parents)[Len(rest) + i] = parents[i]
    <3>1. Len(rest) \in Nat /\ Len(parents) \in Nat
      BY <1>2, <2>3, LenProperties
    <3>2. /\ rest \o parents \in Seq(Task)
          /\ Len(rest \o parents) = Len(rest) + Len(parents)
          /\ \A i \in 1 .. Len(rest) + Len(parents) :
                (rest \o parents)[i] = IF i <= Len(rest) THEN rest[i] ELSE parents[i - Len(rest)]
      BY <1>2, <2>3, ConcatProperties
    <3> QED
      BY <3>1, <3>2
  <2>5. stack'[r] = rest \o parents
    BY <1>1, <2>1
  <2>6. OnStack(r) \subseteq OnStack(r)' \cup {top}
    <3> SUFFICES ASSUME NEW i \in 1 .. Len(stack[r]), stack[r][i] # top
                 PROVE  stack[r][i] \in OnStack(r)'
      BY DEF OnStack
    <3>1. i \in 1 .. Len(rest) /\ stack[r][i] = (rest \o parents)[i]
      BY <1>2, <1>3, <2>4
    <3>2. i \in 1 .. Len(rest \o parents)
      BY <1>2, <2>3, <2>4, <3>1
    <3> QED
      BY <2>5, <3>1, <3>2 DEF OnStack
  <2>7. Blockers(relations, top) \subseteq OnStack(r)'
    <3> SUFFICES ASSUME NEW b \in Blockers(relations, top)
                 PROVE  b \in OnStack(r)'
      OBVIOUS
    <3>1. PICK i \in 1 .. Len(parents) : parents[i] = b
      BY <2>3
    <3>2. Len(rest) + i \in 1 .. Len(rest \o parents)
      BY <1>2, <2>3, <2>4
    <3> QED
      BY <2>4, <2>5, <3>1, <3>2 DEF OnStack
  <2> QED
    BY <1>1, <1>5, <2>1, <2>4, <2>6, <2>7 DEF top
<1> QED
  BY <1>4, <1>5

LEMMA VisitIInv ==
    ASSUME IInv, NEW r \in Request, Visit(r)
    PROVE  IInv'
<1> DEFINE top == stack[r][Len(stack[r])]
<1>1. /\ top \in Task
      /\ stack' \in [Request -> Seq(Task)]
      /\ OnStack(r) \subseteq OnStack(r)' \cup {top}
      /\ top \notin visited[r] => Blockers(relations, top) \subseteq OnStack(r)'
  BY VisitStack
<1>2. /\ pc[r] = "search" /\ top # edge[r][1]
      /\ visited' = [visited EXCEPT ![r] = @ \cup {top}]
      /\ UNCHANGED <<relations, pc, edge, doomed, answer, missed, raced>>
      /\ \A q \in Request \ {r} : stack'[q] = stack[q]
  BY DEF Visit, IInv, TypeOK
<1> HIDE DEF top
<1>3. TypeOK'
  BY <1>1, <1>2 DEF IInv, TypeOK
<1>4. Fresh'
  BY <1>2 DEF IInv, TypeOK, Fresh
<1>5. ChecksHold'
  <2> SUFFICES ASSUME NEW q \in Request, pc'[q] \in Adding, ~ missed'[q]
               PROVE  WalkClosed(q)' /\ BelowLimit(q)'
    BY DEF ChecksHold
  <2>1. WalkClosed(q) /\ BelowLimit(q)
    BY <1>2 DEF IInv, ChecksHold
  <2>2. BelowLimit(q)'
    BY <1>2, <2>1 DEF BelowLimit, Blockers
  <2>3. CASE q # r
    BY <1>2, <2>3, Untouched DEF IInv, TypeOK
  <2>4. CASE q = r
    <3>1. visited'[r] = visited[r] \cup {top}
      BY <1>2 DEF IInv, TypeOK
    <3>2. visited[r] \cup OnStack(r) \subseteq visited'[r] \cup OnStack(r)'
      BY <1>1, <3>1
    <3>3. ASSUME NEW e \in relations, e[1] \in visited'[r]
          PROVE  e[2] \in visited'[r] \cup OnStack(r)'
      <4>1. CASE e[1] \in visited[r]
        BY <2>1, <2>4, <3>2, <4>1 DEF WalkClosed
      <4>2. CASE e[1] = top /\ top \notin visited[r]
        <5>1. e = <<e[1], e[2]>> /\ e[2] \in Task
          BY DEF IInv, TypeOK, Edge
        <5>2. e[2] \in Blockers(relations, top)
          BY <4>2, <5>1 DEF Blockers
        <5> QED
          BY <1>1, <4>2, <5>2
      <4> QED
        BY <3>1, <3>3, <4>1, <4>2
    <3> QED
      BY <1>2, <2>1, <2>2, <2>4, <3>1, <3>2, <3>3 DEF WalkClosed
  <2> QED
    BY <2>3, <2>4
<1> QED
  BY <1>2, <1>3, <1>4, <1>5, SameRelations

LEMMA NoCycleIInv ==
    ASSUME IInv, NEW r \in Request, NoCycle(r)
    PROVE  IInv'
<1>1. TypeOK' /\ Fresh'
  BY DEF IInv, TypeOK, Fresh, NoCycle, Adding
<1>2. ChecksHold'
  <2> SUFFICES ASSUME NEW q \in Request, pc'[q] \in Adding, ~ missed'[q]
               PROVE  WalkClosed(q)' /\ BelowLimit(q)'
    BY DEF ChecksHold
  <2>1. pc[q] \in Adding /\ (pc'[q] = "insert" => pc[q] = "insert" \/ stack[q] = <<>>)
    BY DEF IInv, TypeOK, NoCycle, Adding
  <2>2. WalkClosed(q) /\ BelowLimit(q)
    BY <2>1 DEF IInv, ChecksHold, NoCycle
  <2> QED
    BY <2>1, <2>2 DEF NoCycle, WalkClosed, OnStack, BelowLimit, Blockers
<1> QED
  BY <1>1, <1>2, SameRelations DEF NoCycle

\* A clean insertion closes no cycle: the tasks visited separate its edge.
LEMMA InsertIInv ==
    ASSUME IInv, NEW r \in Request, Insert(r)
    PROVE  IInv'
<1> DEFINE e == edge[r]
<1>1. /\ pc[r] = "insert" /\ e \in Edge /\ e \notin relations
      /\ relations' = relations \cup {e}
      /\ raced \subseteq relations
      /\ visited[r] \in SUBSET Task
  BY DEF Insert, IInv, TypeOK, Adding
<1>2. ASSUME ~ missed[r]
      PROVE  relations' \ raced' = (relations \ raced) \cup {e}
  BY <1>1, <1>2 DEF Insert
<1>3. ASSUME missed[r]
      PROVE  relations' \ raced' = relations \ raced
  BY <1>1, <1>3 DEF Insert
<1>4. ASSUME ~ missed[r]
      PROVE  /\ Closed(relations, visited[r])
             /\ e[2] \in visited[r] /\ e[1] \notin visited[r]
             /\ Cardinality(Blockers(relations, e[1])) < MAX_BLOCKED_BY
  <2>1. WalkClosed(r) /\ BelowLimit(r)
    BY <1>1, <1>4 DEF IInv, ChecksHold, Adding
  <2>2. OnStack(r) = {}
    BY <1>1, <2>1 DEF WalkClosed, OnStack
  <2> QED
    BY <2>1, <2>2 DEF WalkClosed, BelowLimit, Closed
<1>5. TypeOK'
  <2>1. raced' \subseteq relations'
    BY <1>1 DEF Insert
  <2>2. missed' \in [Request -> BOOLEAN]
    BY DEF Insert
  <2> QED
    BY <1>1, <2>1, <2>2 DEF IInv, TypeOK, Insert, Adding
<1>6. Fresh'
  BY DEF IInv, TypeOK, Fresh, Insert
<1>7. ChecksHold'
  <2> SUFFICES ASSUME NEW q \in Request, pc'[q] \in Adding
               PROVE  missed'[q]
    BY DEF ChecksHold
  <2>1. q # r /\ pc[q] \in Adding
    BY DEF Insert, IInv, TypeOK, Adding
  <2> QED
    BY <2>1 DEF Insert
<1>8. Separated(relations' \ raced')
  <2>1. Separated(relations \ raced)
    BY DEF IInv
  <2>2. CASE missed[r]
    BY <1>3, <2>1, <2>2
  <2>3. CASE ~ missed[r]
    <3>1. Closed(relations \ raced, visited[r])
      BY <1>4, <2>3 DEF Closed
    <3>2. Separated((relations \ raced) \cup {e})
      BY <1>1, <1>4, <2>1, <2>3, <3>1, SeparatedGrows
    <3> QED
      BY <1>2, <2>3, <3>2
  <2> QED
    BY <2>2, <2>3
<1>9. LimitUnlessRaced'
  <2> SUFFICES ASSUME NEW t \in Task
               PROVE  Cardinality(Blockers(relations' \ raced', t)) <= MAX_BLOCKED_BY
    BY DEF LimitUnlessRaced, Blockers
  <2>1. Cardinality(Blockers(relations \ raced, t)) <= MAX_BLOCKED_BY
    BY DEF IInv, LimitUnlessRaced
  <2>2. CASE missed[r]
    BY <1>3, <2>1, <2>2
  <2>3. CASE ~ missed[r]
    <3>1. Cardinality(Blockers((relations \ raced) \cup {e}, t))
             <= IF t = e[1] THEN Cardinality(Blockers(relations \ raced, t)) + 1
                            ELSE Cardinality(Blockers(relations \ raced, t))
      BY <1>1, BlockersGrow
    <3>2. Cardinality(Blockers(relations \ raced, t)) <= Cardinality(Blockers(relations, t))
      BY BlockersShrink
    <3>3. /\ Cardinality(Blockers(relations \ raced, t)) \in Nat
          /\ Cardinality(Blockers(relations, t)) \in Nat
          /\ Cardinality(Blockers((relations \ raced) \cup {e}, t)) \in Nat
      BY BlockersFinite
    <3>4. t = e[1] => Cardinality(Blockers(relations, t)) < MAX_BLOCKED_BY
      BY <1>4, <2>3
    <3>5. Cardinality(Blockers((relations \ raced) \cup {e}, t)) <= MAX_BLOCKED_BY
      <4> HIDE DEF e
      <4> QED
        BY <2>1, <3>1, <3>2, <3>3, <3>4, RelationsAssumption
    <3> QED
      BY <1>2, <2>3, <3>5
  <2> QED
    BY <2>2, <2>3
<1> QED
  BY <1>5, <1>6, <1>7, <1>8, <1>9 DEF IInv, Separated, Closed

\* The steps of a removal or an archiving before its commit.
LEMMA BeforeDeleteIInv ==
    ASSUME IInv, NEW r \in Request,
           \/ \E e \in Edge : BeginRemove(r, e)
           \/ Delete(r)
           \/ \E t \in Task : Archive(r, t)
    PROVE  IInv'
<1> DEFINE Written ==
        /\ pc' \in [Request -> {"idle", "refresh", "delete", "commit"} \cup Adding]
        /\ edge' \in [Request -> Edge \cup {NoEdge}]
        /\ doomed' \in [Request -> SUBSET Edge]
        /\ answer' \in [Request -> {0, 201, 204, 404, 422, 500}]
        /\ pc'[r] \in {"delete", "commit"}
        /\ pc'[r] = "delete" => edge'[r] \in Edge
        /\ \A q \in Request \ {r} : pc'[q] = pc[q] /\ edge'[q] = edge[q]
        /\ UNCHANGED <<relations, visited, stack, raced>>
<1>1. Written
  <2>1. ASSUME NEW e \in Edge, BeginRemove(r, e)
        PROVE  Written
    BY <2>1 DEF IInv, TypeOK, BeginRemove
  <2>2. CASE Delete(r)
    BY <2>2 DEF IInv, TypeOK, Delete
  <2>3. ASSUME NEW t \in Task, Archive(r, t)
        PROVE  Written
    BY <2>3 DEF IInv, TypeOK, Archive
  <2> QED
    BY <2>1, <2>2, <2>3
<1>2. UNCHANGED missed
  BY DEF BeginRemove, Delete, Archive
<1>3. TypeOK'
  BY <1>1, <1>2 DEF IInv, TypeOK, Adding
<1>4. Fresh'
  BY <1>1 DEF IInv, Fresh
<1>5. ChecksHold'
  <2> SUFFICES ASSUME NEW q \in Request, pc'[q] \in Adding, ~ missed'[q]
               PROVE  WalkClosed(q)' /\ BelowLimit(q)'
    BY DEF ChecksHold
  <2>1. q # r
    BY <1>1 DEF Adding
  <2> QED
    BY <1>1, <1>2, <2>1, Untouched
<1> QED
  BY <1>1, <1>3, <1>4, <1>5, SameRelations

LEMMA NextIInv == IInv /\ [Next]_vars => IInv'
<1> SUFFICES ASSUME IInv, [Next]_vars
             PROVE  IInv'
  OBVIOUS
<1>1. CASE UNCHANGED vars
  <2>1. TypeOK' /\ Fresh'
    BY <1>1 DEF vars, IInv, TypeOK, Fresh
  <2>2. ChecksHold'
    BY <1>1 DEF vars, IInv, ChecksHold, WalkClosed, BelowLimit, OnStack, Blockers
  <2> QED
    BY <1>1, <2>1, <2>2, SameRelations DEF vars
<1>2. ASSUME NEW r \in Request, NEW code \in {0, 201, 204, 404, 422, 500},
             Answer(r, code), UNCHANGED <<relations, raced>>
      PROVE  IInv'
  <2>1. relations' = relations \ {} /\ raced' = raced \ {}
    BY <1>2
  <2> QED
    BY <1>2, <2>1, AnswerIInv
<1>3. ASSUME NEW r \in Request, NEW t \in Task, NEW b \in Task, RefuseAdd(r, t, b)
      PROVE  IInv'
  BY <1>2, <1>3 DEF RefuseAdd
<1>4. ASSUME NEW r \in Request, NEW t \in Task, NEW b \in Task, BeginAdd(r, t, b)
      PROVE  IInv'
  BY <1>4, BeginAddIInv
<1>5. ASSUME NEW r \in Request, FoundCycle(r) \/ InsertDuplicate(r) \/ Refresh(r) \/ Abort(r)
      PROVE  IInv'
  BY <1>2, <1>5 DEF FoundCycle, InsertDuplicate, Refresh, Abort
<1>6. ASSUME NEW r \in Request, Visit(r)
      PROVE  IInv'
  BY <1>6, VisitIInv
<1>7. ASSUME NEW r \in Request, NoCycle(r)
      PROVE  IInv'
  BY <1>7, NoCycleIInv
<1>8. ASSUME NEW r \in Request, Insert(r)
      PROVE  IInv'
  BY <1>8, InsertIInv
<1>9. ASSUME NEW r \in Request, NEW e \in Edge, RemoveMissing(r, e)
      PROVE  IInv'
  BY <1>2, <1>9 DEF RemoveMissing
<1>10. ASSUME NEW r \in Request,
              \/ \E e \in Edge : BeginRemove(r, e)
              \/ Delete(r)
              \/ \E t \in Task : Archive(r, t)
       PROVE  IInv'
  BY <1>10, BeforeDeleteIInv
<1>11. ASSUME NEW r \in Request, CommitDelete(r)
       PROVE  IInv'
  BY <1>11, AnswerIInv DEF CommitDelete
<1> QED
  BY <1>1, <1>3, <1>4, <1>5, <1>6, <1>7, <1>8, <1>9, <1>10, <1>11 DEF Next, Search

LEMMA Invariance == Spec => []IInv
  BY InitIInv, NextIInv, PTL DEF Spec

\* Every state of the relations and of the walks over them is typed; no task
\* blocks itself.
THEOREM TypeCorrect == Spec => []TypeOK
<1>1. IInv => TypeOK
  BY DEF IInv
<1> QED
  BY <1>1, Invariance, PTL

\* Adds that do not overlap never close a cycle, whatever is deleted meanwhile.
THEOREM NoCycleUnlessRaced == Spec => []AcyclicUnlessRaced
<1>1. IInv => AcyclicUnlessRaced
  BY SeparatedAcyclic DEF IInv, AcyclicUnlessRaced
<1> QED
  BY <1>1, Invariance, PTL

\* Adds that do not overlap never give a task more than MAX_BLOCKED_BY blockers.
THEOREM WithinLimitUnlessRaced == Spec => []LimitUnlessRaced
<1>1. IInv => LimitUnlessRaced
  BY DEF IInv
<1> QED
  BY <1>1, Invariance, PTL

-----------------------------------------------------------------------------
\* What a walk finds can be reached, unless relations were removed under it.

LEMMA ReachGrows ==
    ASSUME NEW E, NEW F, E \subseteq F, NEW x
    PROVE  Reach(E, x) \subseteq Reach(F, x)
  BY DEF Reach, Closed

LEMMA ReachBegins ==
    ASSUME NEW E, NEW x \in Task
    PROVE  x \in Reach(E, x)
  BY DEF Reach

LEMMA ReachGoesOn ==
    ASSUME NEW E, NEW x, NEW y \in Reach(E, x)
    PROVE  Blockers(E, y) \subseteq Reach(E, x)
<1> SUFFICES ASSUME NEW b \in Blockers(E, y), NEW S \in SUBSET Task, x \in S, Closed(E, S)
             PROVE  b \in S
  BY DEF Reach, Blockers
<1>1. y \in S
  BY DEF Reach
<1>2. <<y, b>> \in E
  BY DEF Blockers
<1> QED
  BY <1>1, <1>2 DEF Closed

WalkReachable(r) == visited[r] \cup OnStack(r) \subseteq Reach(relations, edge[r][2])

RInv ==
    \A r \in Request :
       /\ pc[r] = "search" => answer[r] = 0
       /\ pc[r] = "search" /\ r \notin cut => WalkReachable(r)

\* A walk that another request does not cut stays what it is.
LEMMA WalkStays ==
    ASSUME NEW q \in Request, WalkReachable(q), relations \subseteq relations',
           edge'[q] = edge[q], visited'[q] = visited[q], stack'[q] = stack[q]
    PROVE  WalkReachable(q)'
<1>1. OnStack(q)' = OnStack(q)
  BY DEF OnStack
<1>2. Reach(relations, edge[q][2]) \subseteq Reach(relations', edge[q][2])
  BY ReachGrows
<1>3. Reach(relations', edge[q][2]) = Reach(relations, edge[q][2])'
  BY DEF Reach, Closed
<1> QED
  BY <1>1, <1>2, <1>3 DEF WalkReachable

\* A visit pushes nothing but the rows of its query.
LEMMA VisitPushes ==
    ASSUME IInv, NEW r \in Request, Visit(r)
    PROVE  LET top == stack[r][Len(stack[r])]
           IN  /\ top \in OnStack(r)
               /\ OnStack(r)' \subseteq OnStack(r) \cup Blockers(relations, top)
<1> DEFINE top == stack[r][Len(stack[r])]
<1> DEFINE L == Len(stack[r]) - 1
<1> DEFINE rest == SubSeq(stack[r], 1, L)
<1>1. /\ stack[r] \in Seq(Task) /\ L \in Nat /\ Len(stack[r]) = L + 1
      /\ r \in DOMAIN stack
  BY DEF IInv, TypeOK, Visit
<1>2. top \in OnStack(r)
  BY <1>1 DEF OnStack
<1>3. /\ rest \in Seq(Task) /\ Len(rest) = L
      /\ \A i \in 1..L : rest[i] \in OnStack(r)
  <2>1. \A i \in 1..L : stack[r][i] \in Task
    BY <1>1, ElementOfSeq
  <2> HIDE DEF L
  <2>2. /\ SubSeq(stack[r], 1, L) \in Seq(Task)
        /\ Len(SubSeq(stack[r], 1, L)) = IF 1 <= L THEN L - 1 + 1 ELSE 0
        /\ \A i \in 1 .. L - 1 + 1 : SubSeq(stack[r], 1, L)[i] = stack[r][1 + i - 1]
    BY <1>1, <2>1, SubSeqProperties
  <2>3. Len(rest) = L
    BY <1>1, <2>2
  <2>4. \A i \in 1..L : rest[i] = stack[r][i]
    BY <1>1, <2>2
  <2>5. \A i \in 1..L : i \in 1 .. Len(stack[r])
    BY <1>1
  <2> QED
    BY <2>2, <2>3, <2>4, <2>5 DEF OnStack
<1> HIDE DEF rest, L
<1>4. CASE stack'[r] = rest
  BY <1>2, <1>3, <1>4 DEF OnStack
<1>5. ASSUME NEW parents \in Rows(top), stack'[r] = rest \o parents
      PROVE  OnStack(r)' \subseteq OnStack(r) \cup Blockers(relations, top)
  <2>1. /\ parents \in Seq(Task) /\ Len(parents) \in Nat
        /\ \A i \in 1 .. Len(parents) : parents[i] \in Blockers(relations, top)
    <3>1. /\ Blockers(relations, top) \subseteq Task
          /\ Cardinality(Blockers(relations, top)) \in Nat
      BY BlockersFinite DEF Blockers
    <3> QED
      BY <3>1 DEF Rows
  <2>2. /\ Len(rest \o parents) = L + Len(parents)
        /\ \A i \in 1 .. L + Len(parents) :
              (rest \o parents)[i] = IF i <= L THEN rest[i] ELSE parents[i - L]
    BY <1>3, <2>1, ConcatProperties
  <2> SUFFICES ASSUME NEW i \in 1 .. Len(stack'[r])
               PROVE  stack'[r][i] \in OnStack(r) \cup Blockers(relations, top)
    BY DEF OnStack
  <2>3. i \in 1 .. L + Len(parents)
    BY <1>5, <2>2
  <2>4. CASE i <= L
    <3>1. i \in 1..L
      BY <1>1, <2>3, <2>4
    <3> QED
      BY <1>3, <1>5, <2>2, <2>3, <2>4, <3>1
  <2>5. CASE ~(i <= L)
    <3>1. i - L \in 1 .. Len(parents)
      BY <1>1, <2>1, <2>3, <2>5
    <3> QED
      BY <1>5, <2>1, <2>2, <2>3, <2>5, <3>1
  <2> QED
    BY <2>4, <2>5
<1>6. stack'[r] = rest \/ \E parents \in Rows(top) : stack'[r] = rest \o parents
  BY <1>1 DEF Visit, rest, L
<1> QED
  BY <1>2, <1>4, <1>5, <1>6

\* A request that searches has just begun, or has visited a task, or stood still.
StoodStill(q) ==
    /\ pc[q] = "search" /\ edge'[q] = edge[q] /\ visited'[q] = visited[q]
    /\ stack'[q] = stack[q] /\ answer'[q] = answer[q]

LEMMA SearchSteps ==
    ASSUME IInv, Next, NEW q \in Request, pc'[q] = "search"
    PROVE  \/ \E t, b \in Task : BeginAdd(q, t, b)
           \/ Visit(q)
           \/ StoodStill(q)
<1> USE DEF IInv, TypeOK, StoodStill, Adding
<1>1. PICK r \in Request :
        \/ \E t, b \in Task : RefuseAdd(r, t, b) \/ BeginAdd(r, t, b)
        \/ Search(r)
        \/ Insert(r)
        \/ InsertDuplicate(r)
        \/ Refresh(r)
        \/ \E e \in Edge : RemoveMissing(r, e) \/ BeginRemove(r, e)
        \/ Delete(r)
        \/ \E t \in Task : Archive(r, t)
        \/ CommitDelete(r)
        \/ Abort(r)
  BY DEF Next
<1>2. ASSUME NEW code, Answer(r, code) PROVE StoodStill(q)
  BY <1>2 DEF Answer
<1>3. ASSUME NEW t \in Task, NEW b \in Task, RefuseAdd(r, t, b) PROVE StoodStill(q)
  BY <1>2, <1>3 DEF RefuseAdd
<1>4. ASSUME NEW t \in Task, NEW b \in Task, BeginAdd(r, t, b), q # r PROVE StoodStill(q)
  BY <1>4 DEF BeginAdd
<1>5. ASSUME FoundCycle(r) \/ InsertDuplicate(r) \/ Refresh(r) \/ CommitDelete(r) \/ Abort(r)
      PROVE  StoodStill(q)
  BY <1>2, <1>5 DEF FoundCycle, InsertDuplicate, Refresh, CommitDelete, Abort
<1>6. ASSUME Visit(r), q # r PROVE StoodStill(q)
  <2>1. /\ visited' = [visited EXCEPT ![r] = @ \cup {stack[r][Len(stack[r])]}]
        /\ \E s : stack' = [stack EXCEPT ![r] = s]
        /\ UNCHANGED <<pc, edge, answer>>
    BY <1>6 DEF Visit
  <2> QED
    BY <1>6, <2>1
<1>7. ASSUME NoCycle(r) \/ Insert(r) PROVE StoodStill(q)
  BY <1>7 DEF NoCycle, Insert
<1>8. ASSUME NEW e \in Edge, RemoveMissing(r, e) \/ BeginRemove(r, e) PROVE StoodStill(q)
  <2>1. CASE RemoveMissing(r, e)
    BY <1>2, <2>1 DEF RemoveMissing
  <2>2. CASE BeginRemove(r, e)
    BY <2>2 DEF BeginRemove
  <2> QED
    BY <1>8, <2>1, <2>2
<1>9. ASSUME NEW t \in Task, Archive(r, t) PROVE StoodStill(q)
  BY <1>9 DEF Archive
<1>10. ASSUME Delete(r) PROVE StoodStill(q)
  BY <1>10 DEF Delete
<1> HIDE DEF IInv, TypeOK, StoodStill, Adding
<1> QED
  BY <1>1, <1>3, <1>4, <1>5, <1>6, <1>7, <1>8, <1>9, <1>10 DEF Search

\* Only the walk itself refuses a request that walks.
LEMMA WalksRefuse ==
    ASSUME IInv, Next, NEW q \in Request, pc[q] = "search", answer'[q] \notin {0, answer[q]}
    PROVE  FoundCycle(q)
<1> USE DEF IInv, TypeOK
<1>1. PICK r \in Request :
        \/ \E t, b \in Task : RefuseAdd(r, t, b) \/ BeginAdd(r, t, b)
        \/ Search(r)
        \/ Insert(r)
        \/ InsertDuplicate(r)
        \/ Refresh(r)
        \/ \E e \in Edge : RemoveMissing(r, e) \/ BeginRemove(r, e)
        \/ Delete(r)
        \/ \E t \in Task : Archive(r, t)
        \/ CommitDelete(r)
        \/ Abort(r)
  BY DEF Next
<1>2. ASSUME NEW code, Answer(r, code) PROVE q = r /\ code # 0
  BY <1>2 DEF Answer
<1>3. ASSUME NEW t \in Task, NEW b \in Task, RefuseAdd(r, t, b) \/ BeginAdd(r, t, b) PROVE FALSE
  <2>1. CASE RefuseAdd(r, t, b)
    BY <1>2, <2>1 DEF RefuseAdd
  <2>2. CASE BeginAdd(r, t, b)
    BY <2>2 DEF BeginAdd
  <2> QED
    BY <1>3, <2>1, <2>2
<1>4. ASSUME InsertDuplicate(r) \/ Refresh(r) \/ CommitDelete(r) \/ Abort(r) PROVE FALSE
  BY <1>2, <1>4 DEF InsertDuplicate, Refresh, CommitDelete, Abort
<1>5. ASSUME Visit(r) \/ NoCycle(r) \/ Insert(r) \/ Delete(r) PROVE FALSE
  BY <1>5 DEF Visit, NoCycle, Insert, Delete
<1>6. ASSUME NEW e \in Edge, RemoveMissing(r, e) \/ BeginRemove(r, e) PROVE FALSE
  <2>1. CASE RemoveMissing(r, e)
    BY <1>2, <2>1 DEF RemoveMissing
  <2>2. CASE BeginRemove(r, e)
    BY <2>2 DEF BeginRemove
  <2> QED
    BY <1>6, <2>1, <2>2
<1>7. ASSUME NEW t \in Task, Archive(r, t) PROVE FALSE
  BY <1>7 DEF Archive
<1>8. ASSUME FoundCycle(r) PROVE FoundCycle(q)
  BY <1>2, <1>8 DEF FoundCycle
<1> HIDE DEF IInv, TypeOK
<1> QED
  BY <1>1, <1>3, <1>4, <1>5, <1>6, <1>7, <1>8 DEF Search

LEMMA InitRInv == MCInit => RInv
  BY DEF MCInit, Init, RInv

LEMMA NextRInv == IInv /\ RInv /\ [MCNext]_<<vars, cut>> => RInv'
<1>1. ASSUME RInv, UNCHANGED <<vars, cut>> PROVE RInv'
  BY <1>1, WalkStays DEF RInv, vars
<1> SUFFICES ASSUME IInv, RInv, MCNext, NEW q \in Request, pc'[q] = "search"
             PROVE  answer'[q] = 0 /\ (q \notin cut' => WalkReachable(q)')
  BY <1>1 DEF RInv
<1>2. Next /\ (q \notin cut' => q \notin cut /\ relations \subseteq relations')
  BY DEF MCNext
<1>3. ASSUME NEW t \in Task, NEW b \in Task, BeginAdd(q, t, b)
      PROVE  answer'[q] = 0 /\ WalkReachable(q)'
  <2>1. /\ edge'[q] = <<t, b>> /\ stack'[q] = <<b>> /\ visited'[q] = {} /\ answer'[q] = 0
    BY <1>3 DEF BeginAdd, IInv, TypeOK, Fresh
  <2>2. OnStack(q)' = {b} /\ edge'[q][2] = b
    BY <2>1 DEF OnStack
  <2>3. b \in Reach(relations', b)
    BY ReachBegins
  <2> QED
    BY <2>1, <2>2, <2>3 DEF WalkReachable, Reach, Closed
<1>4. ASSUME Visit(q)
      PROVE  answer'[q] = 0 /\ (q \notin cut' => WalkReachable(q)')
  <2> DEFINE top == stack[q][Len(stack[q])]
             R == Reach(relations, edge[q][2])
  <2>1. pc[q] = "search" /\ UNCHANGED <<edge, answer, relations>>
    BY <1>4 DEF Visit
  <2>2. visited'[q] = visited[q] \cup {top}
    BY <1>4 DEF Visit, IInv, TypeOK
  <2>3. top \in OnStack(q) /\ OnStack(q)' \subseteq OnStack(q) \cup Blockers(relations, top)
    BY <1>4, VisitPushes
  <2>4. ASSUME q \notin cut' PROVE WalkReachable(q)'
    <3>1. visited[q] \cup OnStack(q) \subseteq R
      BY <1>2, <2>1, <2>4 DEF RInv, WalkReachable
    <3>2. Blockers(relations, top) \subseteq R
      BY <2>3, <3>1, ReachGoesOn
    <3>3. Reach(relations, edge[q][2])' = R
      BY <2>1 DEF Reach, Closed
    <3> HIDE DEF R, top
    <3> QED
      BY <2>2, <2>3, <3>1, <3>2, <3>3 DEF WalkReachable
  <2> QED
    BY <2>1, <2>4 DEF RInv
<1>5. ASSUME StoodStill(q)
      PROVE  answer'[q] = 0 /\ (q \notin cut' => WalkReachable(q)')
  BY <1>2, <1>5, WalkStays DEF StoodStill, RInv
<1> QED
  BY <1>2, <1>3, <1>4, <1>5, SearchSteps

LEMMA CutsAreHistory == MCSpec => Spec
<1>1. MCInit => Init
  BY DEF MCInit
<1>2. [MCNext]_<<vars, cut>> => [Next]_vars
  BY DEF MCNext
<1> QED
  BY <1>1, <1>2, PTL DEF MCSpec, Spec

LEMMA RInvariance == MCSpec => []RInv
  BY InitRInv, NextRInv, CutsAreHistory, Invariance, PTL DEF MCSpec

\* The check for cycles refuses a relation only if it would close a cycle or the
\* tasks that can be reached exceed the depth, unless relations were removed under
\* its walk (services/transition_service.py: detect_cycle).
THEOREM RefusalsAreJustified == MCSpec => RefusalJustifiedUnlessCut
<1> DEFINE Justified(r) ==
        LET reached == Reach(relations, edge[r][2])
        IN  \/ edge[r][1] \in reached
            \/ Cardinality(reached) >= MAX_CHAIN_DEPTH
            \/ r \in cut
<1>1. ASSUME IInv, RInv, [MCNext]_<<vars, cut>>, NEW r \in Request,
             pc[r] = "search", answer'[r] = 422
      PROVE  Justified(r)
  <2>1. answer[r] = 0
    BY <1>1 DEF RInv
  <2>2. Next
    <3>1. MCNext
      BY <1>1, <2>1 DEF vars
    <3> QED
      BY <3>1 DEF MCNext
  <2>3. FoundCycle(r)
    BY <1>1, <2>1, <2>2, WalksRefuse
  <2>4. CASE r \in cut
    BY <2>4
  <2>5. CASE r \notin cut
    <3> DEFINE R == Reach(relations, edge[r][2])
    <3>1. visited[r] \cup OnStack(r) \subseteq R
      BY <1>1, <2>5 DEF RInv, WalkReachable
    <3>2. CASE stack[r][Len(stack[r])] = edge[r][1]
      <4>1. stack[r] \in Seq(Task) /\ stack[r] # <<>>
        BY <1>1, <2>3 DEF IInv, TypeOK, FoundCycle
      <4>2. Len(stack[r]) \in 1 .. Len(stack[r])
        BY <4>1
      <4> QED
        BY <3>1, <3>2, <4>2 DEF OnStack
    <3>3. CASE Cardinality(visited[r]) >= MAX_CHAIN_DEPTH
      <4>1. IsFiniteSet(R) /\ Cardinality(R) \in Nat
        BY RelationsAssumption, FS_Subset, FS_CardinalityType DEF Reach
      <4>2. Cardinality(visited[r]) <= Cardinality(R) /\ Cardinality(visited[r]) \in Nat
        BY <3>1, <4>1, FS_Subset, FS_CardinalityType
      <4> HIDE DEF R
      <4>3. Cardinality(R) >= MAX_CHAIN_DEPTH
        BY <3>3, <4>1, <4>2, RelationsAssumption
      <4> QED
        BY <4>3 DEF R
    <3> QED
      BY <2>3, <3>2, <3>3 DEF FoundCycle
  <2> QED
    BY <2>4, <2>5
<1> DEFINE Refusals ==
        \A r \in Request :
           pc[r] = "search" /\ answer'[r] = 422 =>
              LET reached == Reach(relations, edge[r][2])
              IN  \/ edge[r][1] \in reached
                  \/ Cardinality(reached) >= MAX_CHAIN_DEPTH
                  \/ r \in cut
<1>2. IInv /\ RInv /\ [MCNext]_<<vars, cut>> => [Refusals]_vars
  BY <1>1
<1> QED
  BY <1>2, RInvariance, CutsAreHistory, Invariance, PTL DEF MCSpec, RefusalJustifiedUnlessCut

\* What a request does while it walks: nothing, or it visits one more task, of which
\* there are MAX_CHAIN_DEPTH at most, or its stack becomes shorter.
WalkGoesOn(r) ==
    \/ visited'[r] = visited[r] /\ stack'[r] = stack[r]
    \/ /\ Cardinality(visited'[r]) = Cardinality(visited[r]) + 1
       /\ Cardinality(visited'[r]) <= MAX_CHAIN_DEPTH
    \/ visited'[r] = visited[r] /\ Len(stack'[r]) = Len(stack[r]) - 1

LEMMA VisitGoesOn ==
    ASSUME IInv, NEW r \in Request, Visit(r)
    PROVE  WalkGoesOn(r)
<1> DEFINE top == stack[r][Len(stack[r])]
           L == Len(stack[r]) - 1
           n == Cardinality(visited[r])
<1>1. /\ stack[r] \in Seq(Task) /\ L \in Nat /\ Len(stack[r]) = L + 1
      /\ visited[r] \subseteq Task /\ visited'[r] = visited[r] \cup {top}
      /\ n < MAX_CHAIN_DEPTH
  BY DEF IInv, TypeOK, Visit
<1>2. IsFiniteSet(visited[r]) /\ n \in Nat
  BY <1>1, RelationsAssumption, FS_Subset, FS_CardinalityType
<1>3. CASE top \in visited[r]
  <2>1. stack'[r] = SubSeq(stack[r], 1, L)
    BY <1>3 DEF IInv, TypeOK, Visit
  <2>2. Len(SubSeq(stack[r], 1, L)) = L
    <3>1. \A i \in 1..L : stack[r][i] \in Task
      BY <1>1, ElementOfSeq
    <3> HIDE DEF L
    <3>2. Len(SubSeq(stack[r], 1, L)) = IF 1 <= L THEN L - 1 + 1 ELSE 0
      BY <1>1, <3>1, SubSeqProperties
    <3> QED
      BY <1>1, <3>2
  <2>3. visited'[r] = visited[r]
    BY <1>1, <1>3
  <2> QED
    BY <2>1, <2>2, <2>3 DEF WalkGoesOn
<1>4. CASE top \notin visited[r]
  <2> HIDE DEF top
  <2>1. Cardinality(visited'[r]) = n + 1
    BY <1>1, <1>2, <1>4, FS_AddElement
  <2> HIDE DEF n
  <2>2. n + 1 <= MAX_CHAIN_DEPTH
    BY <1>1, <1>2, RelationsAssumption
  <2> QED
    BY <2>1, <2>2 DEF WalkGoesOn, n
<1> QED
  BY <1>3, <1>4

\* A walk uses itself up, even if relations are added under it as fast as it reads
\* them (services/transition_service.py: detect_cycle): what SearchEnds adds to this
\* is that its queries are answered.
THEOREM WalksUseThemselvesUp ==
    Spec => [][\A r \in Request : pc[r] = "search" /\ pc'[r] = "search" => WalkGoesOn(r)]_vars
<1>1. ASSUME IInv, [Next]_vars
      PROVE  [\A r \in Request : pc[r] = "search" /\ pc'[r] = "search" => WalkGoesOn(r)]_vars
  <2> SUFFICES ASSUME Next, NEW r \in Request, pc[r] = "search", pc'[r] = "search"
               PROVE  WalkGoesOn(r)
    BY <1>1
  <2>1. ~ \E t, b \in Task : BeginAdd(r, t, b)
    BY DEF BeginAdd
  <2>2. Visit(r) \/ StoodStill(r)
    BY <1>1, <2>1, SearchSteps
  <2>3. CASE StoodStill(r)
    BY <2>3 DEF StoodStill, WalkGoesOn
  <2> QED
    BY <1>1, <2>2, <2>3, VisitGoesOn
<1> QED
  BY <1>1, Invariance, PTL DEF Spec
=============================================================================
