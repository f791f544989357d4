---------------------------- MODULE TeamsProofs ----------------------------
(***************************************************************************)
(* For any users, requests and max_uses: an invite counts the joins it let *)
(* in unless two of them overlapped, and what leaders and invites permit   *)
(* is done under them unless they were taken away on the way.  For any     *)
(* projects, an archived team has archived ones only, and they are changed *)
(* for who may change them; for any names, a slug is the first free one.   *)
(***************************************************************************)
EXTENDS MC_Teams, FiniteSetTheorems, SequenceTheorems, TLAPS

\* A join has read a count that leaves a use.
ReadBelowMax == \A r \in Joining : read[r] < MAX_USES

\* What a join has read of the invite still holds unless it was overtaken.
ReadFresh == \A r \in Joining : ~overtaken[r] => invite = "open" /\ read[r] = uses

\* The parts hold one another up: a join keeps the count because it read the
\* one there is or was overlapped, and below the limit because of what it read.
IInv == TypeOK /\ UsesCounted /\ LeadersActUnlessRemoved /\ ReadBelowMax /\ ReadFresh

LEMMA InitIInv == Init => IInv
<1> SUFFICES ASSUME Init PROVE IInv
  OBVIOUS
<1> USE TeamsAssumption DEF Init, Joining, Leading
<1>1. TypeOK
  <2>1. pc \in [Request -> Leading \cup {"idle", "lookUp", "join"}] /\ read \in [Request -> Nat]
    OBVIOUS
  <2>2. /\ caller \in [Request -> User \cup {NoUser}] /\ target \in [Request -> User \cup {NoUser}]
        /\ overtaken \in [Request -> BOOLEAN]
    OBVIOUS
  <2> QED
    BY <2>1, <2>2 DEF TypeOK
<1>2. UsesCounted
  BY DEF UsesCounted
<1>3. LeadersActUnlessRemoved /\ ReadBelowMax /\ ReadFresh
  BY DEF LeadersActUnlessRemoved, ReadBelowMax, ReadFresh
<1> QED
  BY <1>1, <1>2, <1>3 DEF IInv

LEMMA FindNoMemberIInv ==
    ASSUME IInv, NEW r \in Request, FindNoMember(r)
    PROVE  IInv'
<1> USE TeamsAssumption DEF FindNoMember, GoTo, End, Joining, Leading, team, link
<1>1. TypeOK'
  <2>1. leader' \subseteq member' /\ member' \subseteq User /\ invite' \in {"none", "open", "closed"}
    BY DEF IInv, TypeOK
  <2>2. uses' \in Nat /\ joined' \in Nat
    BY DEF IInv, TypeOK
  <2>3. overlapped' \in BOOLEAN
    BY DEF IInv, TypeOK
  <2>4. pc' \in [Request -> Leading \cup {"idle", "lookUp", "join"}]
    BY DEF IInv, TypeOK
  <2>5. caller' \in [Request -> User \cup {NoUser}] /\ target' \in [Request -> User \cup {NoUser}]
    BY DEF IInv, TypeOK
  <2>6. read' \in [Request -> Nat]
    BY DEF IInv, TypeOK
  <2>7. overtaken' \in [Request -> BOOLEAN]
    BY DEF IInv, TypeOK
  <2>8. ASSUME NEW q \in Request
        PROVE  /\ pc'[q] # "idle" => target'[q] \in User /\ caller'[q] \in User
               /\ pc'[q] = "idle" => caller'[q] = NoUser /\ ~overtaken'[q]
    BY DEF IInv, TypeOK
  <2> QED
    BY <2>1, <2>2, <2>3, <2>4, <2>5, <2>6, <2>7, <2>8 DEF TypeOK
<1>2. UsesCounted'
  BY DEF IInv, TypeOK, UsesCounted
<1>3. LeadersActUnlessRemoved'
  BY DEF IInv, TypeOK, LeadersActUnlessRemoved
<1>4. ReadBelowMax'
  BY DEF IInv, TypeOK, ReadBelowMax, ReadFresh
<1>5. ReadFresh'
  BY DEF IInv, TypeOK, ReadFresh
<1> QED
  BY <1>1, <1>2, <1>3, <1>4, <1>5 DEF IInv

LEMMA InsertMemberIInv ==
    ASSUME IInv, NEW r \in Request, InsertMember(r)
    PROVE  IInv'
<1> USE TeamsAssumption DEF InsertMember, End, Joining, Leading, team, link
<1>1. TypeOK'
  <2>1. leader' \subseteq member' /\ member' \subseteq User /\ invite' \in {"none", "open", "closed"}
    BY DEF IInv, TypeOK
  <2>2. uses' \in Nat /\ joined' \in Nat
    BY DEF IInv, TypeOK
  <2>3. overlapped' \in BOOLEAN
    BY DEF IInv, TypeOK
  <2>4. pc' \in [Request -> Leading \cup {"idle", "lookUp", "join"}]
    BY DEF IInv, TypeOK
  <2>5. caller' \in [Request -> User \cup {NoUser}] /\ target' \in [Request -> User \cup {NoUser}]
    BY DEF IInv, TypeOK
  <2>6. read' \in [Request -> Nat]
    BY DEF IInv, TypeOK
  <2>7. overtaken' \in [Request -> BOOLEAN]
    BY DEF IInv, TypeOK
  <2>8. ASSUME NEW q \in Request
        PROVE  /\ pc'[q] # "idle" => target'[q] \in User /\ caller'[q] \in User
               /\ pc'[q] = "idle" => caller'[q] = NoUser /\ ~overtaken'[q]
    BY DEF IInv, TypeOK
  <2> QED
    BY <2>1, <2>2, <2>3, <2>4, <2>5, <2>6, <2>7, <2>8 DEF TypeOK
<1>2. UsesCounted'
  BY DEF IInv, TypeOK, UsesCounted
<1>3. LeadersActUnlessRemoved'
  BY DEF IInv, TypeOK, LeadersActUnlessRemoved
<1>4. ReadBelowMax'
  BY DEF IInv, TypeOK, ReadBelowMax, ReadFresh
<1>5. ReadFresh'
  BY DEF IInv, TypeOK, ReadFresh
<1> QED
  BY <1>1, <1>2, <1>3, <1>4, <1>5 DEF IInv

LEMMA FindMemberIInv ==
    ASSUME IInv, NEW r \in Request, FindMember(r)
    PROVE  IInv'
<1> USE TeamsAssumption DEF FindMember, GoTo, End, Joining, Leading, team, link
<1>1. TypeOK'
  <2>1. leader' \subseteq member' /\ member' \subseteq User /\ invite' \in {"none", "open", "closed"}
    BY DEF IInv, TypeOK
  <2>2. uses' \in Nat /\ joined' \in Nat
    BY DEF IInv, TypeOK
  <2>3. overlapped' \in BOOLEAN
    BY DEF IInv, TypeOK
  <2>4. pc' \in [Request -> Leading \cup {"idle", "lookUp", "join"}]
    BY DEF IInv, TypeOK
  <2>5. caller' \in [Request -> User \cup {NoUser}] /\ target' \in [Request -> User \cup {NoUser}]
    BY DEF IInv, TypeOK
  <2>6. read' \in [Request -> Nat]
    BY DEF IInv, TypeOK
  <2>7. overtaken' \in [Request -> BOOLEAN]
    BY DEF IInv, TypeOK
  <2>8. ASSUME NEW q \in Request
        PROVE  /\ pc'[q] # "idle" => target'[q] \in User /\ caller'[q] \in User
               /\ pc'[q] = "idle" => caller'[q] = NoUser /\ ~overtaken'[q]
    BY DEF IInv, TypeOK
  <2> QED
    BY <2>1, <2>2, <2>3, <2>4, <2>5, <2>6, <2>7, <2>8 DEF TypeOK
<1>2. UsesCounted'
  BY DEF IInv, TypeOK, UsesCounted
<1>3. LeadersActUnlessRemoved'
  BY DEF IInv, TypeOK, LeadersActUnlessRemoved
<1>4. ReadBelowMax'
  BY DEF IInv, TypeOK, ReadBelowMax, ReadFresh
<1>5. ReadFresh'
  BY DEF IInv, TypeOK, ReadFresh
<1> QED
  BY <1>1, <1>2, <1>3, <1>4, <1>5 DEF IInv

LEMMA DeleteMemberIInv ==
    ASSUME IInv, NEW r \in Request, DeleteMember(r)
    PROVE  IInv'
<1> USE TeamsAssumption DEF DeleteMember, End, Joining, Leading, team, link
<1>1. TypeOK'
  <2>1. leader' \subseteq member' /\ member' \subseteq User /\ invite' \in {"none", "open", "closed"}
    BY DEF IInv, TypeOK
  <2>2. uses' \in Nat /\ joined' \in Nat
    BY DEF IInv, TypeOK
  <2>3. overlapped' \in BOOLEAN
    BY DEF IInv, TypeOK
  <2>4. pc' \in [Request -> Leading \cup {"idle", "lookUp", "join"}]
    BY DEF IInv, TypeOK
  <2>5. caller' \in [Request -> User \cup {NoUser}] /\ target' \in [Request -> User \cup {NoUser}]
    BY DEF IInv, TypeOK
  <2>6. read' \in [Request -> Nat]
    BY DEF IInv, TypeOK
  <2>7. overtaken' \in [Request -> BOOLEAN]
    BY DEF IInv, TypeOK
  <2>8. ASSUME NEW q \in Request
        PROVE  /\ pc'[q] # "idle" => target'[q] \in User /\ caller'[q] \in User
               /\ pc'[q] = "idle" => caller'[q] = NoUser /\ ~overtaken'[q]
    BY DEF IInv, TypeOK
  <2> QED
    BY <2>1, <2>2, <2>3, <2>4, <2>5, <2>6, <2>7, <2>8 DEF TypeOK
<1>2. UsesCounted'
  BY DEF IInv, TypeOK, UsesCounted
<1>3. LeadersActUnlessRemoved'
  BY DEF IInv, TypeOK, LeadersActUnlessRemoved
<1>4. ReadBelowMax'
  BY DEF IInv, TypeOK, ReadBelowMax, ReadFresh
<1>5. ReadFresh'
  BY DEF IInv, TypeOK, ReadFresh
<1> QED
  BY <1>1, <1>2, <1>3, <1>4, <1>5 DEF IInv

LEMMA CreateInviteIInv ==
    ASSUME IInv, NEW r \in Request, CreateInvite(r)
    PROVE  IInv'
<1> USE TeamsAssumption DEF CreateInvite, End, Joining, Leading, team, link
<1>1. TypeOK'
  <2>1. leader' \subseteq member' /\ member' \subseteq User /\ invite' \in {"none", "open", "closed"}
    BY DEF IInv, TypeOK
  <2>2. uses' \in Nat /\ joined' \in Nat
    BY DEF IInv, TypeOK
  <2>3. overlapped' \in BOOLEAN
    BY DEF IInv, TypeOK
  <2>4. pc' \in [Request -> Leading \cup {"idle", "lookUp", "join"}]
    BY DEF IInv, TypeOK
  <2>5. caller' \in [Request -> User \cup {NoUser}] /\ target' \in [Request -> User \cup {NoUser}]
    BY DEF IInv, TypeOK
  <2>6. read' \in [Request -> Nat]
    BY DEF IInv, TypeOK
  <2>7. overtaken' \in [Request -> BOOLEAN]
    BY DEF IInv, TypeOK
  <2>8. ASSUME NEW q \in Request
        PROVE  /\ pc'[q] # "idle" => target'[q] \in User /\ caller'[q] \in User
               /\ pc'[q] = "idle" => caller'[q] = NoUser /\ ~overtaken'[q]
    BY DEF IInv, TypeOK
  <2> QED
    BY <2>1, <2>2, <2>3, <2>4, <2>5, <2>6, <2>7, <2>8 DEF TypeOK
<1>2. UsesCounted'
  BY DEF IInv, TypeOK, UsesCounted
<1>3. LeadersActUnlessRemoved'
  BY DEF IInv, TypeOK, LeadersActUnlessRemoved
<1>4. ReadBelowMax'
  BY DEF IInv, TypeOK, ReadBelowMax, ReadFresh
<1>5. ReadFresh'
  BY DEF IInv, TypeOK, ReadFresh
<1> QED
  BY <1>1, <1>2, <1>3, <1>4, <1>5 DEF IInv

LEMMA CloseInviteIInv ==
    ASSUME IInv, NEW r \in Request, CloseInvite(r)
    PROVE  IInv'
<1> USE TeamsAssumption DEF CloseInvite, End, Joining, Leading, team, link
<1>1. TypeOK'
  <2>1. leader' \subseteq member' /\ member' \subseteq User /\ invite' \in {"none", "open", "closed"}
    BY DEF IInv, TypeOK
  <2>2. uses' \in Nat /\ joined' \in Nat
    BY DEF IInv, TypeOK
  <2>3. overlapped' \in BOOLEAN
    BY DEF IInv, TypeOK
  <2>4. pc' \in [Request -> Leading \cup {"idle", "lookUp", "join"}]
    BY DEF IInv, TypeOK
  <2>5. caller' \in [Request -> User \cup {NoUser}] /\ target' \in [Request -> User \cup {NoUser}]
    BY DEF IInv, TypeOK
  <2>6. read' \in [Request -> Nat]
    BY DEF IInv, TypeOK
  <2>7. overtaken' \in [Request -> BOOLEAN]
    BY DEF IInv, TypeOK
  <2>8. ASSUME NEW q \in Request
        PROVE  /\ pc'[q] # "idle" => target'[q] \in User /\ caller'[q] \in User
               /\ pc'[q] = "idle" => caller'[q] = NoUser /\ ~overtaken'[q]
    BY DEF IInv, TypeOK
  <2> QED
    BY <2>1, <2>2, <2>3, <2>4, <2>5, <2>6, <2>7, <2>8 DEF TypeOK
<1>2. UsesCounted'
  BY DEF IInv, TypeOK, UsesCounted
<1>3. LeadersActUnlessRemoved'
  BY DEF IInv, TypeOK, LeadersActUnlessRemoved
<1>4. ReadBelowMax'
  BY DEF IInv, TypeOK, ReadBelowMax, ReadFresh
<1>5. ReadFresh'
  BY DEF IInv, TypeOK, ReadFresh
<1> QED
  BY <1>1, <1>2, <1>3, <1>4, <1>5 DEF IInv

LEMMA LookUpIInv ==
    ASSUME IInv, NEW r \in Request, LookUp(r)
    PROVE  IInv'
<1> USE TeamsAssumption DEF LookUp, GoTo, End, Joining, Leading, team, link
<1>1. TypeOK'
  <2>1. leader' \subseteq member' /\ member' \subseteq User /\ invite' \in {"none", "open", "closed"}
    BY DEF IInv, TypeOK
  <2>2. uses' \in Nat /\ joined' \in Nat
    BY DEF IInv, TypeOK
  <2>3. overlapped' \in BOOLEAN
    BY DEF IInv, TypeOK
  <2>4. pc' \in [Request -> Leading \cup {"idle", "lookUp", "join"}]
    BY DEF IInv, TypeOK
  <2>5. caller' \in [Request -> User \cup {NoUser}] /\ target' \in [Request -> User \cup {NoUser}]
    BY DEF IInv, TypeOK
  <2>6. read' \in [Request -> Nat]
    BY DEF IInv, TypeOK
  <2>7. overtaken' \in [Request -> BOOLEAN]
    BY DEF IInv, TypeOK
  <2>8. ASSUME NEW q \in Request
        PROVE  /\ pc'[q] # "idle" => target'[q] \in User /\ caller'[q] \in User
               /\ pc'[q] = "idle" => caller'[q] = NoUser /\ ~overtaken'[q]
    BY DEF IInv, TypeOK
  <2> QED
    BY <2>1, <2>2, <2>3, <2>4, <2>5, <2>6, <2>7, <2>8 DEF TypeOK
<1>2. UsesCounted'
  BY DEF IInv, TypeOK, UsesCounted
<1>3. LeadersActUnlessRemoved'
  BY DEF IInv, TypeOK, LeadersActUnlessRemoved
<1>4. ReadBelowMax'
  BY DEF IInv, TypeOK, ReadBelowMax, ReadFresh
<1>5. ReadFresh'
  BY DEF IInv, TypeOK, ReadFresh
<1> QED
  BY <1>1, <1>2, <1>3, <1>4, <1>5 DEF IInv

LEMMA JoinIInv ==
    ASSUME IInv, NEW r \in Request, Join(r)
    PROVE  IInv'
<1> USE TeamsAssumption DEF Join, End, Joining, Leading, team, link
<1>1. TypeOK'
  <2>1. leader' \subseteq member' /\ member' \subseteq User /\ invite' \in {"none", "open", "closed"}
    BY DEF IInv, TypeOK
  <2>2. uses' \in Nat /\ joined' \in Nat
    BY DEF IInv, TypeOK
  <2>3. overlapped' \in BOOLEAN
    BY DEF IInv, TypeOK
  <2>4. pc' \in [Request -> Leading \cup {"idle", "lookUp", "join"}]
    BY DEF IInv, TypeOK
  <2>5. caller' \in [Request -> User \cup {NoUser}] /\ target' \in [Request -> User \cup {NoUser}]
    BY DEF IInv, TypeOK
  <2>6. read' \in [Request -> Nat]
    BY DEF IInv, TypeOK
  <2>7. overtaken' \in [Request -> BOOLEAN]
    BY DEF IInv, TypeOK
  <2>8. ASSUME NEW q \in Request
        PROVE  /\ pc'[q] # "idle" => target'[q] \in User /\ caller'[q] \in User
               /\ pc'[q] = "idle" => caller'[q] = NoUser /\ ~overtaken'[q]
    BY DEF IInv, TypeOK
  <2> QED
    BY <2>1, <2>2, <2>3, <2>4, <2>5, <2>6, <2>7, <2>8 DEF TypeOK
<1>2. UsesCounted'
  <2>1. CASE target[r] \in member
    BY <2>1 DEF IInv, UsesCounted
  <2>2. CASE target[r] \notin member
    <3>1. uses' <= MAX_USES
      BY <2>2 DEF IInv, TypeOK, ReadBelowMax
    <3>2. CASE read[r] = uses
      <4>1. uses' = uses + 1 /\ joined' = joined + 1
        BY <2>2, <3>2
      <4>2. overlapped => overlapped'
        BY <2>2
      <4> QED
        BY <3>1, <4>1, <4>2 DEF IInv, UsesCounted
    <3>3. CASE read[r] # uses
      <4>1. overlapped'
        BY <2>2, <3>3
      <4> QED
        BY <3>1, <4>1 DEF UsesCounted
    <3> QED
      BY <3>2, <3>3
  <2> QED
    BY <2>1, <2>2
<1>3. LeadersActUnlessRemoved'
  BY DEF IInv, TypeOK, LeadersActUnlessRemoved
<1>4. ReadBelowMax'
  BY DEF IInv, TypeOK, ReadBelowMax, ReadFresh
<1>5. ReadFresh'
  BY DEF IInv, TypeOK, ReadFresh
<1> QED
  BY <1>1, <1>2, <1>3, <1>4, <1>5 DEF IInv

LEMMA BeginLeadingIInv ==
    ASSUME IInv, NEW r \in Request, NEW a \in User, NEW u \in User, NEW first \in Leading, BeginLeading(r, a, u, first)
    PROVE  IInv'
<1> USE TeamsAssumption DEF BeginLeading, Start, Joining, Leading, team, link
<1>1. TypeOK'
  <2>1. leader' \subseteq member' /\ member' \subseteq User /\ invite' \in {"none", "open", "closed"}
    BY DEF IInv, TypeOK
  <2>2. uses' \in Nat /\ joined' \in Nat
    BY DEF IInv, TypeOK
  <2>3. overlapped' \in BOOLEAN
    BY DEF IInv, TypeOK
  <2>4. pc' \in [Request -> Leading \cup {"idle", "lookUp", "join"}]
    BY DEF IInv, TypeOK
  <2>5. caller' \in [Request -> User \cup {NoUser}] /\ target' \in [Request -> User \cup {NoUser}]
    BY DEF IInv, TypeOK
  <2>6. read' \in [Request -> Nat]
    BY DEF IInv, TypeOK
  <2>7. overtaken' \in [Request -> BOOLEAN]
    BY DEF IInv, TypeOK
  <2>8. ASSUME NEW q \in Request
        PROVE  /\ pc'[q] # "idle" => target'[q] \in User /\ caller'[q] \in User
               /\ pc'[q] = "idle" => caller'[q] = NoUser /\ ~overtaken'[q]
    BY DEF IInv, TypeOK
  <2> QED
    BY <2>1, <2>2, <2>3, <2>4, <2>5, <2>6, <2>7, <2>8 DEF TypeOK
<1>2. UsesCounted'
  BY DEF IInv, TypeOK, UsesCounted
<1>3. LeadersActUnlessRemoved'
  BY DEF IInv, TypeOK, LeadersActUnlessRemoved
<1>4. ReadBelowMax'
  BY DEF IInv, TypeOK, ReadBelowMax, ReadFresh
<1>5. ReadFresh'
  BY DEF IInv, TypeOK, ReadFresh
<1> QED
  BY <1>1, <1>2, <1>3, <1>4, <1>5 DEF IInv

LEMMA BeginJoinIInv ==
    ASSUME IInv, NEW r \in Request, NEW u \in User, BeginJoin(r, u)
    PROVE  IInv'
<1> USE TeamsAssumption DEF BeginJoin, Start, Joining, Leading, team, link
<1>1. TypeOK'
  <2>1. leader' \subseteq member' /\ member' \subseteq User /\ invite' \in {"none", "open", "closed"}
    BY DEF IInv, TypeOK
  <2>2. uses' \in Nat /\ joined' \in Nat
    BY DEF IInv, TypeOK
  <2>3. overlapped' \in BOOLEAN
    BY DEF IInv, TypeOK
  <2>4. pc' \in [Request -> Leading \cup {"idle", "lookUp", "join"}]
    BY DEF IInv, TypeOK
  <2>5. caller' \in [Request -> User \cup {NoUser}] /\ target' \in [Request -> User \cup {NoUser}]
    BY DEF IInv, TypeOK
  <2>6. read' \in [Request -> Nat]
    BY DEF IInv, TypeOK
  <2>7. overtaken' \in [Request -> BOOLEAN]
    BY DEF IInv, TypeOK
  <2>8. ASSUME NEW q \in Request
        PROVE  /\ pc'[q] # "idle" => target'[q] \in User /\ caller'[q] \in User
               /\ pc'[q] = "idle" => caller'[q] = NoUser /\ ~overtaken'[q]
    BY DEF IInv, TypeOK
  <2> QED
    BY <2>1, <2>2, <2>3, <2>4, <2>5, <2>6, <2>7, <2>8 DEF TypeOK
<1>2. UsesCounted'
  BY DEF IInv, TypeOK, UsesCounted
<1>3. LeadersActUnlessRemoved'
  BY DEF IInv, TypeOK, LeadersActUnlessRemoved
<1>4. ReadBelowMax'
  BY DEF IInv, TypeOK, ReadBelowMax, ReadFresh
<1>5. ReadFresh'
  BY DEF IInv, TypeOK, ReadFresh
<1> QED
  BY <1>1, <1>2, <1>3, <1>4, <1>5 DEF IInv

LEMMA ExpireInviteIInv == IInv /\ ExpireInvite => IInv'
<1> SUFFICES ASSUME IInv, ExpireInvite PROVE IInv'
  OBVIOUS
<1> USE DEF ExpireInvite, Joining, Leading, team
<1>1. TypeOK'
  <2>1. overtaken' \in [Request -> BOOLEAN]
    BY DEF IInv, TypeOK
  <2> QED
    BY <2>1 DEF IInv, TypeOK
<1>2. UsesCounted'
  BY DEF IInv, UsesCounted
<1>3. LeadersActUnlessRemoved'
  BY DEF IInv, TypeOK, LeadersActUnlessRemoved
<1>4. ReadBelowMax' /\ ReadFresh'
  BY DEF IInv, TypeOK, ReadBelowMax, ReadFresh
<1> QED
  BY <1>1, <1>2, <1>3, <1>4 DEF IInv

LEMMA StutterIInv == IInv /\ UNCHANGED vars => IInv'
  BY DEF IInv, TypeOK, UsesCounted, LeadersActUnlessRemoved, ReadBelowMax, ReadFresh, Joining,
         Leading, vars, team, link, locals

LEMMA NextIInv == IInv /\ [Next]_vars => IInv'
<1> SUFFICES ASSUME IInv, Next PROVE IInv'
  BY StutterIInv
<1>1. ASSUME NEW r \in Request,
             \/ FindNoMember(r) \/ InsertMember(r) \/ FindMember(r) \/ DeleteMember(r)
             \/ CreateInvite(r) \/ CloseInvite(r) \/ LookUp(r) \/ Join(r)
      PROVE  IInv'
  BY <1>1, FindNoMemberIInv, InsertMemberIInv, FindMemberIInv, DeleteMemberIInv, CreateInviteIInv,
     CloseInviteIInv, LookUpIInv, JoinIInv
<1> QED
  <2>1. \A r \in Request, a, u \in User, first \in Leading : BeginLeading(r, a, u, first) => IInv'
    BY BeginLeadingIInv
  <2>2. ASSUME NEW r \in Request, NEW a \in User, NEW u \in User,
               BeginAdd(r, a, u) \/ BeginRemove(r, a, u)
               \/ BeginCreateInvite(r, a) \/ BeginCloseInvite(r, a)
        PROVE  IInv'
    BY <2>1, <2>2 DEF BeginAdd, BeginRemove, BeginCreateInvite, BeginCloseInvite, Leading
  <2> QED
    BY <1>1, <2>2, BeginJoinIInv, ExpireInviteIInv DEF Next

THEOREM Invariance == Spec => []IInv
  BY InitIInv, NextIInv, PTL DEF Spec

\* Type correctness of the team, its invite and the handlers.
THEOREM TypeCorrect == Spec => []TypeOK
<1>1. IInv => TypeOK
  BY DEF IInv
<1> QED
  BY <1>1, Invariance, PTL

\* The count of an invite is that of the users it let in, and within its limit,
\* unless two joins overlapped (services/invite_service.py: join_by_token).
THEOREM UsesAreCounted == Spec => []UsesCounted
<1>1. IInv => UsesCounted
  BY DEF IInv
<1> QED
  BY <1>1, Invariance, PTL

\* A join has an open invite with a use left, unless it was overtaken.
THEOREM JoinsAreHonoured == Spec => []JoinsHonoured
<1>1. IInv => JoinsHonoured
  BY DEF IInv, TypeOK, ReadBelowMax, ReadFresh, Joining, JoinsHonoured
<1> QED
  BY <1>1, Invariance, PTL

\* What check_team_permission lets in is done by a leader, unless the leader was
\* removed meanwhile (services/team_service.py: check_team_permission).
THEOREM LeadersAct == Spec => []LeadersActUnlessRemoved
<1>1. IInv => LeadersActUnlessRemoved
  BY DEF IInv
<1> QED
  BY <1>1, Invariance, PTL

-----------------------------------------------------------------------------
\* Projects.

\* A request that does not create a project is about one that is there.
ProjectsThere ==
    \A r \in Request : step[r] \in P!Inside \ {"insertProject"} =>
       project[r] \in P!Exists

\* One archive_team runs at a time; what it does not update came after it began.
CascadeAlone ==
    /\ \A q, r \in Request : step[q] = "cascade" /\ step[r] = "cascade" => q = r
    /\ \A r \in Request : step[r] = "cascade" => P!Exists \ updated \subseteq late

\* Whoever was let in belongs to the team, unless removed since.
CallersInTeam ==
    \A r \in Request : step[r] \in P!Inside => asker[r] \in teamMember \/ stale[r] = TRUE

PInv ==
    /\ P!TypeOK /\ ProjectsThere /\ CascadeAlone /\ CallersInTeam /\ ArchivedWithTeam
    /\ P!ManagersActUnlessRemoved /\ P!AddedFromTeam

LEMMA InitPInv == P!Init => PInv
<1> SUFFICES ASSUME P!Init PROVE PInv
  OBVIOUS
<1> USE DEF P!Init, P!Inside, P!Permitted, P!Exists
<1>1. P!TypeOK
  BY DEF P!TypeOK
<1>2. ProjectsThere /\ CascadeAlone /\ CallersInTeam
  BY DEF ProjectsThere, CascadeAlone, CallersInTeam
<1>3. ArchivedWithTeam /\ P!ManagersActUnlessRemoved /\ P!AddedFromTeam
  BY DEF ArchivedWithTeam, P!ArchivedWithTeam, P!ManagersActUnlessRemoved, P!AddedFromTeam
<1> QED
  BY <1>1, <1>2, <1>3 DEF PInv

LEMMA JoinTeamPInv ==
    ASSUME PInv, NEW u \in Staff, P!JoinTeam(u)
    PROVE  PInv'
<1> USE StaffAssumption DEF P!JoinTeam, P!Inside, P!Permitted, P!Exists, P!team, P!rows, P!locals
<1>1. P!TypeOK'
  BY DEF PInv, P!TypeOK, ProjectsThere
<1>2. ProjectsThere'
  BY DEF PInv, P!TypeOK, ProjectsThere
<1>3. CascadeAlone'
  BY DEF PInv, P!TypeOK, CascadeAlone, ProjectsThere
<1>4. CallersInTeam'
  BY DEF PInv, P!TypeOK, CallersInTeam
<1>5. ArchivedWithTeam'
  BY DEF PInv, P!TypeOK, CascadeAlone, ProjectsThere, ArchivedWithTeam, P!ArchivedWithTeam
<1>6. P!ManagersActUnlessRemoved'
  BY DEF PInv, P!TypeOK, CallersInTeam, ProjectsThere, P!ManagersActUnlessRemoved, P!Manages
<1>7. P!AddedFromTeam'
  BY DEF PInv, P!TypeOK, CallersInTeam, P!AddedFromTeam
<1> QED
  BY <1>1, <1>2, <1>3, <1>4, <1>5, <1>6, <1>7 DEF PInv

LEMMA LeaveTeamPInv ==
    ASSUME PInv, NEW u \in Staff, P!LeaveTeam(u)
    PROVE  PInv'
<1> USE StaffAssumption DEF P!LeaveTeam, P!Inside, P!Permitted, P!Exists, P!team, P!rows, P!locals
<1>1. P!TypeOK'
  BY DEF PInv, P!TypeOK, ProjectsThere
<1>2. ProjectsThere'
  BY DEF PInv, P!TypeOK, ProjectsThere
<1>3. CascadeAlone'
  BY DEF PInv, P!TypeOK, CascadeAlone, ProjectsThere
<1>4. CallersInTeam'
  BY DEF PInv, P!TypeOK, CallersInTeam
<1>5. ArchivedWithTeam'
  BY DEF PInv, P!TypeOK, CascadeAlone, ProjectsThere, ArchivedWithTeam, P!ArchivedWithTeam
<1>6. P!ManagersActUnlessRemoved'
  BY DEF PInv, P!TypeOK, CallersInTeam, ProjectsThere, P!ManagersActUnlessRemoved, P!Manages
<1>7. P!AddedFromTeam'
  BY DEF PInv, P!TypeOK, CallersInTeam, P!AddedFromTeam
<1> QED
  BY <1>1, <1>2, <1>3, <1>4, <1>5, <1>6, <1>7 DEF PInv

LEMMA BeginArchiveTeamPInv ==
    ASSUME PInv, NEW r \in Request, NEW a \in Staff, P!BeginArchiveTeam(r, a)
    PROVE  PInv'
<1> USE StaffAssumption DEF P!BeginArchiveTeam, P!Inside, P!Permitted, P!Exists, P!team, P!rows, P!locals
<1>1. P!TypeOK'
  BY DEF PInv, P!TypeOK, ProjectsThere
<1>2. ProjectsThere'
  BY DEF PInv, P!TypeOK, ProjectsThere
<1>3. CascadeAlone'
  BY DEF PInv, P!TypeOK, CascadeAlone, ProjectsThere
<1>4. CallersInTeam'
  BY DEF PInv, P!TypeOK, CallersInTeam
<1>5. ArchivedWithTeam'
  BY DEF PInv, P!TypeOK, CascadeAlone, ProjectsThere, ArchivedWithTeam, P!ArchivedWithTeam
<1>6. P!ManagersActUnlessRemoved'
  BY DEF PInv, P!TypeOK, CallersInTeam, ProjectsThere, P!ManagersActUnlessRemoved, P!Manages
<1>7. P!AddedFromTeam'
  BY DEF PInv, P!TypeOK, CallersInTeam, P!AddedFromTeam
<1> QED
  BY <1>1, <1>2, <1>3, <1>4, <1>5, <1>6, <1>7 DEF PInv

LEMMA BeginCreatePInv ==
    ASSUME PInv, NEW r \in Request, NEW a \in Staff, NEW p \in Project, P!BeginCreate(r, a, p)
    PROVE  PInv'
<1> USE StaffAssumption DEF P!BeginCreate, P!Start, P!Inside, P!Permitted, P!Exists, P!team, P!rows, P!locals
<1>1. P!TypeOK'
  BY DEF PInv, P!TypeOK, ProjectsThere
<1>2. ProjectsThere'
  BY DEF PInv, P!TypeOK, ProjectsThere
<1>3. CascadeAlone'
  BY DEF PInv, P!TypeOK, CascadeAlone, ProjectsThere
<1>4. CallersInTeam'
  BY DEF PInv, P!TypeOK, CallersInTeam
<1>5. ArchivedWithTeam'
  BY DEF PInv, P!TypeOK, CascadeAlone, ProjectsThere, ArchivedWithTeam, P!ArchivedWithTeam
<1>6. P!ManagersActUnlessRemoved'
  BY DEF PInv, P!TypeOK, CallersInTeam, ProjectsThere, P!ManagersActUnlessRemoved, P!Manages
<1>7. P!AddedFromTeam'
  BY DEF PInv, P!TypeOK, CallersInTeam, P!AddedFromTeam
<1> QED
  BY <1>1, <1>2, <1>3, <1>4, <1>5, <1>6, <1>7 DEF PInv

LEMMA BeginInProjectPInv ==
    ASSUME PInv, NEW r \in Request, NEW a \in Staff, NEW p \in Project, NEW u \in Staff \cup {NoUser}, NEW at \in {"mayAdd", "mayRemove", "mayArchive"}, u \in Staff \/ at = "mayArchive", P!BeginInProject(r, a, p, u, at)
    PROVE  PInv'
<1> USE StaffAssumption DEF P!BeginInProject, P!Start, P!Inside, P!Permitted, P!Exists, P!team, P!rows, P!locals
<1>1. P!TypeOK'
  BY DEF PInv, P!TypeOK, ProjectsThere
<1>2. ProjectsThere'
  BY DEF PInv, P!TypeOK, ProjectsThere
<1>3. CascadeAlone'
  BY DEF PInv, P!TypeOK, CascadeAlone, ProjectsThere
<1>4. CallersInTeam'
  BY DEF PInv, P!TypeOK, CallersInTeam
<1>5. ArchivedWithTeam'
  BY DEF PInv, P!TypeOK, CascadeAlone, ProjectsThere, ArchivedWithTeam, P!ArchivedWithTeam
<1>6. P!ManagersActUnlessRemoved'
  BY DEF PInv, P!TypeOK, CallersInTeam, ProjectsThere, P!ManagersActUnlessRemoved, P!Manages
<1>7. P!AddedFromTeam'
  BY DEF PInv, P!TypeOK, CallersInTeam, P!AddedFromTeam
<1> QED
  BY <1>1, <1>2, <1>3, <1>4, <1>5, <1>6, <1>7 DEF PInv

LEMMA ArchiveTeamPInv ==
    ASSUME PInv, NEW r \in Request, P!ArchiveTeam(r)
    PROVE  PInv'
<1> USE StaffAssumption DEF P!ArchiveTeam, P!End, P!Inside, P!Permitted, P!Exists, P!team, P!rows, P!locals
<1>1. P!TypeOK'
  BY DEF PInv, P!TypeOK, ProjectsThere
<1>2. ProjectsThere'
  BY DEF PInv, P!TypeOK, ProjectsThere
<1>3. CascadeAlone'
  BY DEF PInv, P!TypeOK, CascadeAlone, ProjectsThere
<1>4. CallersInTeam'
  BY DEF PInv, P!TypeOK, CallersInTeam
<1>5. ArchivedWithTeam'
  BY DEF PInv, P!TypeOK, CascadeAlone, ProjectsThere, ArchivedWithTeam, P!ArchivedWithTeam
<1>6. P!ManagersActUnlessRemoved'
  BY DEF PInv, P!TypeOK, CallersInTeam, ProjectsThere, P!ManagersActUnlessRemoved, P!Manages
<1>7. P!AddedFromTeam'
  BY DEF PInv, P!TypeOK, CallersInTeam, P!AddedFromTeam
<1> QED
  BY <1>1, <1>2, <1>3, <1>4, <1>5, <1>6, <1>7 DEF PInv

LEMMA InsertProjectPInv ==
    ASSUME PInv, NEW r \in Request, P!InsertProject(r)
    PROVE  PInv'
<1> USE StaffAssumption DEF P!InsertProject, P!End, P!Inside, P!Permitted, P!Exists, P!team, P!rows, P!locals
<1>1. P!TypeOK'
  <2>1. teamMember' \subseteq Staff /\ teamArchived' \in BOOLEAN
    BY DEF PInv, P!TypeOK, ProjectsThere
  <2>2. owner' \in [Project -> Staff \cup {NoUser}]
    BY DEF PInv, P!TypeOK, ProjectsThere
  <2>3. archived' \subseteq P!Exists' /\ late' \subseteq P!Exists' /\ updated' \subseteq P!Exists'
    BY DEF PInv, P!TypeOK, ProjectsThere
  <2>4. leads' \subseteq inProject' /\ inProject' \subseteq Project \X Staff
    BY DEF PInv, P!TypeOK, ProjectsThere
  <2>5. step' \in [Request -> P!Inside \cup {"idle", "cascade"}]
    BY DEF PInv, P!TypeOK, ProjectsThere
  <2>6. asker' \in [Request -> Staff \cup {NoUser}] /\ candidate' \in [Request -> Staff \cup {NoUser}]
    BY DEF PInv, P!TypeOK, ProjectsThere
  <2>7. project' \in [Request -> Project \cup {P!NoProject}]
    BY DEF PInv, P!TypeOK, ProjectsThere
  <2>8. stale' \in [Request -> BOOLEAN]
    BY DEF PInv, P!TypeOK, ProjectsThere
  <2>9. \A q \in Request : step'[q] \in P!Inside => project'[q] \in Project /\ asker'[q] \in Staff
    BY DEF PInv, P!TypeOK, ProjectsThere
  <2>10. \A q \in Request : step'[q] \in {"mayAdd", "add", "insertMember", "insertLeader", "mayRemove",
                                   "delete"} => candidate'[q] \in Staff
    BY DEF PInv, P!TypeOK, ProjectsThere
  <2>11. \A q \in Request : step'[q] = "idle" => asker'[q] = NoUser /\ ~stale'[q]
    BY DEF PInv, P!TypeOK, ProjectsThere
  <2> QED
    BY <2>1, <2>2, <2>3, <2>4, <2>5, <2>6, <2>7, <2>8, <2>9, <2>10, <2>11 DEF P!TypeOK
<1>2. ProjectsThere'
  BY DEF PInv, P!TypeOK, ProjectsThere
<1>3. CascadeAlone'
  BY DEF PInv, P!TypeOK, CascadeAlone, ProjectsThere
<1>4. CallersInTeam'
  BY DEF PInv, P!TypeOK, CallersInTeam
<1>5. ArchivedWithTeam'
  BY DEF PInv, P!TypeOK, CascadeAlone, ProjectsThere, ArchivedWithTeam, P!ArchivedWithTeam
<1>6. P!ManagersActUnlessRemoved'
  BY DEF PInv, P!TypeOK, CallersInTeam, ProjectsThere, P!ManagersActUnlessRemoved, P!Manages
<1>7. P!AddedFromTeam'
  BY DEF PInv, P!TypeOK, CallersInTeam, P!AddedFromTeam
<1> QED
  BY <1>1, <1>2, <1>3, <1>4, <1>5, <1>6, <1>7 DEF PInv

LEMMA CheckPermissionPInv ==
    ASSUME PInv, NEW r \in Request, P!CheckPermission(r)
    PROVE  PInv'
<1> USE StaffAssumption DEF P!CheckPermission, P!End, P!Permit, P!GoTo, P!Inside, P!Permitted, P!Exists, P!team, P!rows, P!locals
<1>1. P!TypeOK'
  <2>1. teamMember' \subseteq Staff /\ teamArchived' \in BOOLEAN
    BY DEF PInv, P!TypeOK, ProjectsThere
  <2>2. owner' \in [Project -> Staff \cup {NoUser}]
    BY DEF PInv, P!TypeOK, ProjectsThere
  <2>3. archived' \subseteq P!Exists' /\ late' \subseteq P!Exists' /\ updated' \subseteq P!Exists'
    BY DEF PInv, P!TypeOK, ProjectsThere
  <2>4. leads' \subseteq inProject' /\ inProject' \subseteq Project \X Staff
    BY DEF PInv, P!TypeOK, ProjectsThere
  <2>5. step' \in [Request -> P!Inside \cup {"idle", "cascade"}]
    BY DEF PInv, P!TypeOK, ProjectsThere
  <2>6. asker' \in [Request -> Staff \cup {NoUser}] /\ candidate' \in [Request -> Staff \cup {NoUser}]
    BY DEF PInv, P!TypeOK, ProjectsThere
  <2>7. project' \in [Request -> Project \cup {P!NoProject}]
    BY DEF PInv, P!TypeOK, ProjectsThere
  <2>8. stale' \in [Request -> BOOLEAN]
    BY DEF PInv, P!TypeOK, ProjectsThere
  <2>9. \A q \in Request : step'[q] \in P!Inside => project'[q] \in Project /\ asker'[q] \in Staff
    BY DEF PInv, P!TypeOK, ProjectsThere
  <2>10. \A q \in Request : step'[q] \in {"mayAdd", "add", "insertMember", "insertLeader", "mayRemove",
                                   "delete"} => candidate'[q] \in Staff
    BY DEF PInv, P!TypeOK, ProjectsThere
  <2>11. \A q \in Request : step'[q] = "idle" => asker'[q] = NoUser /\ ~stale'[q]
    BY DEF PInv, P!TypeOK, ProjectsThere
  <2> QED
    BY <2>1, <2>2, <2>3, <2>4, <2>5, <2>6, <2>7, <2>8, <2>9, <2>10, <2>11 DEF P!TypeOK
<1>2. ProjectsThere'
  BY DEF PInv, P!TypeOK, ProjectsThere
<1>3. CascadeAlone'
  BY DEF PInv, P!TypeOK, CascadeAlone, ProjectsThere
<1>4. CallersInTeam'
  BY DEF PInv, P!TypeOK, CallersInTeam
<1>5. ArchivedWithTeam'
  BY DEF PInv, P!TypeOK, CascadeAlone, ProjectsThere, ArchivedWithTeam, P!ArchivedWithTeam
<1>6. P!ManagersActUnlessRemoved'
  BY DEF PInv, P!TypeOK, CallersInTeam, ProjectsThere, P!ManagersActUnlessRemoved, P!Manages
<1>7. P!AddedFromTeam'
  BY DEF PInv, P!TypeOK, CallersInTeam, P!AddedFromTeam
<1> QED
  BY <1>1, <1>2, <1>3, <1>4, <1>5, <1>6, <1>7 DEF PInv

LEMMA FindCandidatePInv ==
    ASSUME PInv, NEW r \in Request, P!FindCandidate(r)
    PROVE  PInv'
<1> USE StaffAssumption DEF P!FindCandidate, P!End, P!GoTo, P!Inside, P!Permitted, P!Exists, P!team, P!rows, P!locals
<1>1. P!TypeOK'
  <2>1. teamMember' \subseteq Staff /\ teamArchived' \in BOOLEAN
    BY DEF PInv, P!TypeOK, ProjectsThere
  <2>2. owner' \in [Project -> Staff \cup {NoUser}]
    BY DEF PInv, P!TypeOK, ProjectsThere
  <2>3. archived' \subseteq P!Exists' /\ late' \subseteq P!Exists' /\ updated' \subseteq P!Exists'
    BY DEF PInv, P!TypeOK, ProjectsThere
  <2>4. leads' \subseteq inProject' /\ inProject' \subseteq Project \X Staff
    BY DEF PInv, P!TypeOK, ProjectsThere
  <2>5. step' \in [Request -> P!Inside \cup {"idle", "cascade"}]
    BY DEF PInv, P!TypeOK, ProjectsThere
  <2>6. asker' \in [Request -> Staff \cup {NoUser}] /\ candidate' \in [Request -> Staff \cup {NoUser}]
    BY DEF PInv, P!TypeOK, ProjectsThere
  <2>7. project' \in [Request -> Project \cup {P!NoProject}]
    BY DEF PInv, P!TypeOK, ProjectsThere
  <2>8. stale' \in [Request -> BOOLEAN]
    BY DEF PInv, P!TypeOK, ProjectsThere
  <2>9. \A q \in Request : step'[q] \in P!Inside => project'[q] \in Project /\ asker'[q] \in Staff
    BY DEF PInv, P!TypeOK, ProjectsThere
  <2>10. \A q \in Request : step'[q] \in {"mayAdd", "add", "insertMember", "insertLeader", "mayRemove",
                                   "delete"} => candidate'[q] \in Staff
    BY DEF PInv, P!TypeOK, ProjectsThere
  <2>11. \A q \in Request : step'[q] = "idle" => asker'[q] = NoUser /\ ~stale'[q]
    BY DEF PInv, P!TypeOK, ProjectsThere
  <2> QED
    BY <2>1, <2>2, <2>3, <2>4, <2>5, <2>6, <2>7, <2>8, <2>9, <2>10, <2>11 DEF P!TypeOK
<1>2. ProjectsThere'
  BY DEF PInv, P!TypeOK, ProjectsThere
<1>3. CascadeAlone'
  BY DEF PInv, P!TypeOK, CascadeAlone, ProjectsThere
<1>4. CallersInTeam'
  BY DEF PInv, P!TypeOK, CallersInTeam
<1>5. ArchivedWithTeam'
  BY DEF PInv, P!TypeOK, CascadeAlone, ProjectsThere, ArchivedWithTeam, P!ArchivedWithTeam
<1>6. P!ManagersActUnlessRemoved'
  BY DEF PInv, P!TypeOK, CallersInTeam, ProjectsThere, P!ManagersActUnlessRemoved, P!Manages
<1>7. P!AddedFromTeam'
  BY DEF PInv, P!TypeOK, CallersInTeam, P!AddedFromTeam
<1> QED
  BY <1>1, <1>2, <1>3, <1>4, <1>5, <1>6, <1>7 DEF PInv

LEMMA InsertMemberPInv ==
    ASSUME PInv, NEW r \in Request, P!InsertMember(r)
    PROVE  PInv'
<1> USE StaffAssumption DEF P!InsertMember, P!End, P!Inside, P!Permitted, P!Exists, P!team, P!rows, P!locals
<1>1. P!TypeOK'
  <2>1. teamMember' \subseteq Staff /\ teamArchived' \in BOOLEAN
    BY DEF PInv, P!TypeOK, ProjectsThere
  <2>2. owner' \in [Project -> Staff \cup {NoUser}]
    BY DEF PInv, P!TypeOK, ProjectsThere
  <2>3. archived' \subseteq P!Exists' /\ late' \subseteq P!Exists' /\ updated' \subseteq P!Exists'
    BY DEF PInv, P!TypeOK, ProjectsThere
  <2>4. leads' \subseteq inProject' /\ inProject' \subseteq Project \X Staff
    BY DEF PInv, P!TypeOK, ProjectsThere
  <2>5. step' \in [Request -> P!Inside \cup {"idle", "cascade"}]
    BY DEF PInv, P!TypeOK, ProjectsThere
  <2>6. asker' \in [Request -> Staff \cup {NoUser}] /\ candidate' \in [Request -> Staff \cup {NoUser}]
    BY DEF PInv, P!TypeOK, ProjectsThere
  <2>7. project' \in [Request -> Project \cup {P!NoProject}]
    BY DEF PInv, P!TypeOK, ProjectsThere
  <2>8. stale' \in [Request -> BOOLEAN]
    BY DEF PInv, P!TypeOK, ProjectsThere
  <2>9. \A q \in Request : step'[q] \in P!Inside => project'[q] \in Project /\ asker'[q] \in Staff
    BY DEF PInv, P!TypeOK, ProjectsThere
  <2>10. \A q \in Request : step'[q] \in {"mayAdd", "add", "insertMember", "insertLeader", "mayRemove",
                                   "delete"} => candidate'[q] \in Staff
    BY DEF PInv, P!TypeOK, ProjectsThere
  <2>11. \A q \in Request : step'[q] = "idle" => asker'[q] = NoUser /\ ~stale'[q]
    BY DEF PInv, P!TypeOK, ProjectsThere
  <2> QED
    BY <2>1, <2>2, <2>3, <2>4, <2>5, <2>6, <2>7, <2>8, <2>9, <2>10, <2>11 DEF P!TypeOK
<1>2. ProjectsThere'
  BY DEF PInv, P!TypeOK, ProjectsThere
<1>3. CascadeAlone'
  BY DEF PInv, P!TypeOK, CascadeAlone, ProjectsThere
<1>4. CallersInTeam'
  BY DEF PInv, P!TypeOK, CallersInTeam
<1>5. ArchivedWithTeam'
  BY DEF PInv, P!TypeOK, CascadeAlone, ProjectsThere, ArchivedWithTeam, P!ArchivedWithTeam
<1>6. P!ManagersActUnlessRemoved'
  BY DEF PInv, P!TypeOK, CallersInTeam, ProjectsThere, P!ManagersActUnlessRemoved, P!Manages
<1>7. P!AddedFromTeam'
  BY DEF PInv, P!TypeOK, CallersInTeam, P!AddedFromTeam
<1> QED
  BY <1>1, <1>2, <1>3, <1>4, <1>5, <1>6, <1>7 DEF PInv

LEMMA DeleteMemberPInv ==
    ASSUME PInv, NEW r \in Request, P!DeleteMember(r)
    PROVE  PInv'
<1> USE StaffAssumption DEF P!DeleteMember, P!End, P!Inside, P!Permitted, P!Exists, P!team, P!rows, P!locals
<1>1. P!TypeOK'
  BY DEF PInv, P!TypeOK, ProjectsThere
<1>2. ProjectsThere'
  BY DEF PInv, P!TypeOK, ProjectsThere
<1>3. CascadeAlone'
  BY DEF PInv, P!TypeOK, CascadeAlone, ProjectsThere
<1>4. CallersInTeam'
  BY DEF PInv, P!TypeOK, CallersInTeam
<1>5. ArchivedWithTeam'
  BY DEF PInv, P!TypeOK, CascadeAlone, ProjectsThere, ArchivedWithTeam, P!ArchivedWithTeam
<1>6. P!ManagersActUnlessRemoved'
  BY DEF PInv, P!TypeOK, CallersInTeam, ProjectsThere, P!ManagersActUnlessRemoved, P!Manages
<1>7. P!AddedFromTeam'
  BY DEF PInv, P!TypeOK, CallersInTeam, P!AddedFromTeam
<1> QED
  BY <1>1, <1>2, <1>3, <1>4, <1>5, <1>6, <1>7 DEF PInv

LEMMA ArchiveProjectPInv ==
    ASSUME PInv, NEW r \in Request, P!ArchiveProject(r)
    PROVE  PInv'
<1> USE StaffAssumption DEF P!ArchiveProject, P!End, P!Inside, P!Permitted, P!Exists, P!team, P!rows, P!locals
<1>1. P!TypeOK'
  BY DEF PInv, P!TypeOK, ProjectsThere
<1>2. ProjectsThere'
  BY DEF PInv, P!TypeOK, ProjectsThere
<1>3. CascadeAlone'
  BY DEF PInv, P!TypeOK, CascadeAlone, ProjectsThere
<1>4. CallersInTeam'
  BY DEF PInv, P!TypeOK, CallersInTeam
<1>5. ArchivedWithTeam'
  BY DEF PInv, P!TypeOK, CascadeAlone, ProjectsThere, ArchivedWithTeam, P!ArchivedWithTeam
<1>6. P!ManagersActUnlessRemoved'
  BY DEF PInv, P!TypeOK, CallersInTeam, ProjectsThere, P!ManagersActUnlessRemoved, P!Manages
<1>7. P!AddedFromTeam'
  BY DEF PInv, P!TypeOK, CallersInTeam, P!AddedFromTeam
<1> QED
  BY <1>1, <1>2, <1>3, <1>4, <1>5, <1>6, <1>7 DEF PInv

LEMMA NextPInv == PInv /\ [P!Next]_(P!vars) => PInv'
<1>1. ASSUME PInv, UNCHANGED P!vars PROVE PInv'
  BY <1>1 DEF PInv, P!TypeOK, ProjectsThere, CascadeAlone, CallersInTeam, ArchivedWithTeam, P!ArchivedWithTeam,
     P!ManagersActUnlessRemoved, P!Manages, P!AddedFromTeam, P!Exists, P!vars, P!team, P!rows, P!locals
<1> SUFFICES ASSUME PInv, P!Next PROVE PInv'
  BY <1>1
<1>2. CASE \E u \in Staff : P!JoinTeam(u) \/ P!LeaveTeam(u)
  BY <1>2, JoinTeamPInv, LeaveTeamPInv
<1>3. ASSUME NEW r \in Request, NEW a \in Staff, P!BeginArchiveTeam(r, a) PROVE PInv'
  BY <1>3, BeginArchiveTeamPInv
<1>4. ASSUME NEW r \in Request, NEW a \in Staff, NEW p \in Project, P!BeginCreate(r, a, p) \/ P!BeginArchive(r, a, p)
      PROVE  PInv'
  BY <1>4, BeginCreatePInv, BeginInProjectPInv DEF P!BeginArchive
<1>5. ASSUME NEW r \in Request, NEW a \in Staff, NEW p \in Project, NEW u \in Staff,
             P!BeginAdd(r, a, p, u) \/ P!BeginRemove(r, a, p, u)
      PROVE  PInv'
  BY <1>5, BeginInProjectPInv DEF P!BeginAdd, P!BeginRemove
<1>6. ASSUME NEW r \in Request,
             \/ P!ArchiveTeam(r) \/ P!InsertProject(r) \/ P!CheckPermission(r) \/ P!FindCandidate(r)
             \/ P!InsertMember(r) \/ P!DeleteMember(r) \/ P!ArchiveProject(r)
      PROVE  PInv'
  BY <1>6, ArchiveTeamPInv, InsertProjectPInv, CheckPermissionPInv, FindCandidatePInv,
     InsertMemberPInv, DeleteMemberPInv, ArchiveProjectPInv
<1> QED
  BY <1>2, <1>3, <1>4, <1>5, <1>6 DEF P!Next

LEMMA PInvariance == P!Spec => []PInv
  BY InitPInv, NextPInv, PTL DEF P!Spec

\* Type correctness of projects and their members (services/project_service.py).
THEOREM ProjectsTypeCorrect == P!Spec => []P!TypeOK
<1>1. PInv => P!TypeOK
  BY DEF PInv
<1> QED
  BY <1>1, PInvariance, PTL

\* The projects of an archived team are archived, but those created while it was
\* being archived or after (services/team_service.py: archive_team).
THEOREM ProjectsGoWithTeam == P!Spec => []ArchivedWithTeam
<1>1. PInv => ArchivedWithTeam
  BY DEF PInv
<1> QED
  BY <1>1, PInvariance, PTL

\* Whoever changes a project belongs to the team and manages the project, and whom
\* they add belongs to the team, unless removed after the check (api/deps.py:
\* check_project_permission, services/project_service.py: add_member).
THEOREM ManagersChangeProjects == P!Spec => []ChangesPermitted
<1>1. PInv => ChangesPermitted
  BY DEF PInv, ChangesPermitted, P!ChangesPermitted
<1> QED
  BY <1>1, PInvariance, PTL

-----------------------------------------------------------------------------
\* Slugs.

Creating == {r \in Request : loop[r] # "idle"}

\* The search has passed slugs that are taken, and nothing else.
PassedAreTaken ==
    \A r \in Creating : \A k \in 0 .. suffix[r] - 1 : S!Slug(base[r], k) \in taken

\* A slug found free is free unless another has committed it since.
FreeUnlessOvertaken ==
    \A r \in Request : loop[r] = "insert" => S!Slug(base[r], suffix[r]) \notin taken \/ claimed[r] = TRUE

\* A creation adds one slug.
SlugsCounted ==
    /\ IsFiniteSet(taken)
    /\ Cardinality(taken) + Cardinality(Creating) <= MAX_SLUGS + Cardinality(Request)

GInv == S!TypeOK /\ PassedAreTaken /\ FreeUnlessOvertaken /\ SlugsCounted

\* The instance counts with an operator of its own name.
LEMMA SameCardinality == \A T : S!Cardinality(T) = Cardinality(T)
  BY DEF S!Cardinality, Cardinality

\* base, base-1, base-2, ... differ.
LEMMA SlugsDiffer ==
    ASSUME NEW b \in Base, NEW i \in Nat, NEW k \in Nat, S!Slug(b, i) = S!Slug(b, k)
    PROVE  i = k
<1> DEFINE Part == {b[j] : j \in DOMAIN b} \cup Nat
<1>1. b \in Seq(Part)
  <2>1. b \in Seq({b[j] : j \in DOMAIN b})
    BY BasesAssumption
  <2> QED
    BY <2>1, SeqMonotonic
<1>2. ASSUME NEW n \in Nat
      PROVE  Len(Append(b, n)) = Len(b) + 1 /\ Append(b, n)[Len(b) + 1] = n /\ Len(b) \in Nat
  BY <1>1
<1> HIDE DEF Part
<1>3. CASE i = 0 /\ k # 0
  BY <1>2, <1>3 DEF S!Slug
<1>4. CASE i # 0 /\ k = 0
  BY <1>2, <1>4 DEF S!Slug
<1>5. CASE i # 0 /\ k # 0
  BY <1>2, <1>5 DEF S!Slug
<1> QED
  BY <1>3, <1>4, <1>5

\* So the loop is over after as many rounds as there are slugs, and one.
LEMMA SearchIsShort ==
    ASSUME GInv, NEW r \in Creating
    PROVE  suffix[r] \in Nat /\ suffix[r] <= Cardinality(taken)
<1> DEFINE n == suffix[r]
           passed == [k \in 0 .. n - 1 |-> S!Slug(base[r], k)]
<1>1. n \in Nat /\ base[r] \in Base
  BY DEF GInv, S!TypeOK, Creating
<1>2. \A k \in 0 .. n - 1 : S!Slug(base[r], k) \in taken
  BY DEF GInv, PassedAreTaken
<1> HIDE DEF n
<1>3. \A i, k \in 0 .. n - 1 : passed[i] = passed[k] => i = k
  BY <1>1, SlugsDiffer
<1>4. passed \in Injection(0 .. n - 1, taken)
  BY <1>2, <1>3 DEF Injection, IsInjective
<1>5. Cardinality(0 .. n - 1) <= Cardinality(taken)
  BY <1>4, FS_Injection DEF GInv, SlugsCounted
<1>6. Cardinality(0 .. n - 1) = n
  <2>1. n - 1 \in Int
    BY <1>1
  <2> QED
    BY <1>1, <2>1, FS_Interval
<1> QED
  BY <1>1, <1>5, <1>6 DEF n

LEMMA InitGInv == S!Init => GInv
<1> SUFFICES ASSUME S!Init PROVE GInv
  OBVIOUS
<1>1. S!TypeOK
  BY BasesAssumption DEF S!Init, S!TypeOK
<1>2. PassedAreTaken /\ FreeUnlessOvertaken
  BY DEF S!Init, PassedAreTaken, FreeUnlessOvertaken, Creating
<1>3. SlugsCounted
  <2>1. taken = {} /\ Creating = {}
    BY DEF S!Init, Creating
  <2>2. Cardinality(Request) \in Nat
    BY BasesAssumption, FS_CardinalityType
  <2> QED
    BY <2>1, <2>2, BasesAssumption, FS_EmptySet DEF SlugsCounted
<1> QED
  BY <1>1, <1>2, <1>3 DEF GInv

LEMMA CreatingCounted ==
    /\ IsFiniteSet(Creating) /\ Cardinality(Creating) \in Nat
    /\ Cardinality(Request) \in Nat /\ Cardinality(Creating) <= Cardinality(Request)
<1>1. Creating \in SUBSET Request
  BY DEF Creating
<1> QED
  BY <1>1, BasesAssumption, FS_Subset, FS_CardinalityType

LEMMA BeginGInv ==
    ASSUME GInv, NEW r \in Request, NEW b \in Base, S!Begin(r, b)
    PROVE  GInv'
<1>1. S!TypeOK'
  BY DEF S!Begin, GInv, S!TypeOK
<1>2. PassedAreTaken'
  BY DEF S!Begin, GInv, S!TypeOK, PassedAreTaken, Creating
<1>3. FreeUnlessOvertaken'
  BY DEF S!Begin, GInv, S!TypeOK, FreeUnlessOvertaken
<1>4. SlugsCounted'
  <2>1. Cardinality(taken) < MAX_SLUGS /\ taken' = taken
    BY SameCardinality, Zenon DEF S!Begin
  <2>2. IsFiniteSet(taken) /\ Cardinality(taken) \in Nat
    BY FS_CardinalityType DEF GInv, SlugsCounted
  <2>3. Cardinality(Creating)' \in Nat /\ Cardinality(Creating)' <= Cardinality(Request)
    <3>1. Creating' \in SUBSET Request
      BY DEF Creating
    <3> QED
      BY <3>1, BasesAssumption, FS_Subset, FS_CardinalityType
  <2>4. Cardinality(Request) \in Nat
    BY CreatingCounted
  <2> QED
    BY <2>1, <2>2, <2>3, <2>4, BasesAssumption DEF SlugsCounted
<1> QED
  BY <1>1, <1>2, <1>3, <1>4 DEF GInv

LEMMA LookGInv ==
    ASSUME GInv, NEW r \in Request, S!Look(r)
    PROVE  GInv'
<1>1. CASE S!Slug(base[r], suffix[r]) \in taken
  <2>1. /\ loop[r] = "look" /\ suffix' = [suffix EXCEPT ![r] = @ + 1]
        /\ UNCHANGED <<loop, taken, base, claimed>>
    BY <1>1 DEF S!Look
  <2>2. suffix[r] \in Nat /\ suffix' \in [Request -> Nat]
    BY <2>1 DEF GInv, S!TypeOK
  <2>3. S!TypeOK'
    BY <2>1, <2>2 DEF GInv, S!TypeOK
  <2>4. PassedAreTaken'
    <3> SUFFICES ASSUME NEW q \in Creating, NEW k \in 0 .. suffix'[q] - 1
                 PROVE  S!Slug(base[q], k) \in taken
      BY <2>1 DEF PassedAreTaken, Creating
    <3>1. CASE q = r
      <4>1. suffix'[r] = suffix[r] + 1
        BY <2>1 DEF GInv, S!TypeOK
      <4>2. k \in 0 .. suffix[r] - 1 \/ k = suffix[r]
        BY <2>2, <3>1, <4>1
      <4> QED
        BY <1>1, <3>1, <4>2 DEF GInv, PassedAreTaken
    <3>2. CASE q # r
      BY <2>1, <3>2 DEF GInv, S!TypeOK, PassedAreTaken, Creating
    <3> QED
      BY <3>1, <3>2
  <2>5. FreeUnlessOvertaken'
    BY <2>1 DEF GInv, S!TypeOK, FreeUnlessOvertaken
  <2>6. SlugsCounted'
    BY <2>1 DEF GInv, SlugsCounted, Creating
  <2> QED
    BY <2>3, <2>4, <2>5, <2>6 DEF GInv
<1>2. CASE S!Slug(base[r], suffix[r]) \notin taken
  <2>1. /\ loop[r] = "look" /\ loop' = [loop EXCEPT ![r] = "insert"]
        /\ UNCHANGED <<suffix, taken, base, claimed>>
    BY <1>2 DEF S!Look
  <2>2. S!TypeOK'
    BY <2>1 DEF GInv, S!TypeOK
  <2>3. Creating' = Creating
    BY <2>1 DEF GInv, S!TypeOK, Creating
  <2>4. PassedAreTaken'
    BY <2>1, <2>3 DEF GInv, PassedAreTaken
  <2>5. FreeUnlessOvertaken'
    BY <1>2, <2>1 DEF GInv, S!TypeOK, FreeUnlessOvertaken
  <2>6. SlugsCounted'
    BY <2>1, <2>3 DEF GInv, SlugsCounted
  <2> QED
    BY <2>2, <2>4, <2>5, <2>6 DEF GInv
<1> QED
  BY <1>1, <1>2

LEMMA InsertGInv ==
    ASSUME GInv, NEW r \in Request, S!Insert(r)
    PROVE  GInv'
<1> DEFINE slug == S!Slug(base[r], suffix[r])
<1>1. /\ loop[r] = "insert" /\ taken' = taken \cup {slug} /\ loop' = [loop EXCEPT ![r] = "idle"]
      /\ UNCHANGED <<base, suffix>>
      /\ claimed' = [q \in Request |->
                        claimed[q] \/ (loop[q] = "insert" /\ S!Slug(base[q], suffix[q]) = slug)]
  BY DEF S!Insert
<1>2. r \in Creating /\ Creating' = Creating \ {r}
  BY <1>1 DEF GInv, S!TypeOK, Creating
<1>3. IsFiniteSet(taken) /\ Cardinality(taken) \in Nat
  BY FS_CardinalityType DEF GInv, SlugsCounted
<1>4. /\ IsFiniteSet(taken') /\ Cardinality(taken') \in Nat
      /\ Cardinality(taken') <= Cardinality(taken) + 1
  <2>1. /\ IsFiniteSet(taken \cup {slug})
        /\ Cardinality(taken \cup {slug}) = IF slug \in taken THEN Cardinality(taken) ELSE Cardinality(taken) + 1
    BY <1>3, FS_AddElement
  <2>2. taken' = taken \cup {slug}
    BY <1>1
  <2> QED
    BY <1>3, <2>1, <2>2
<1>5. /\ Cardinality(Creating') = Cardinality(Creating) - 1
      /\ Cardinality(Creating) \in Nat /\ Cardinality(Request) \in Nat
  BY <1>2, CreatingCounted, FS_RemoveElement
<1>6. Cardinality(taken) + Cardinality(Creating) <= MAX_SLUGS + Cardinality(Request)
  BY DEF GInv, SlugsCounted
<1>7. Cardinality(Creating') \in Nat
  <2>1. IsFiniteSet(Creating')
    BY <1>2, CreatingCounted, FS_RemoveElement
  <2> QED
    BY <2>1, FS_CardinalityType
<1>8. SlugsCounted'
  BY <1>3, <1>4, <1>5, <1>6, BasesAssumption DEF SlugsCounted
<1>9. slug \in Base \cup {Append(b, k) : b \in Base, k \in 1 .. MAX_SLUGS + Cardinality(Request)}
  <2>1. suffix[r] \in Nat /\ suffix[r] <= Cardinality(taken)
    BY <1>2, SearchIsShort
  <2>2. suffix[r] <= MAX_SLUGS + Cardinality(Request)
    BY <1>3, <1>5, <1>6, <1>7, <2>1, BasesAssumption
  <2>3. base[r] \in Base
    BY DEF GInv, S!TypeOK
  <2>4. suffix[r] = 0 \/ suffix[r] \in 1 .. MAX_SLUGS + Cardinality(Request)
    BY <1>5, <2>1, <2>2, BasesAssumption
  <2> QED
    BY <2>3, <2>4 DEF S!Slug
<1>10. S!TypeOK'
  <2>1. loop' \in [Request -> {"idle", "look", "insert"}]
    BY <1>1 DEF GInv, S!TypeOK
  <2>2. base' \in [Request -> Base] /\ suffix' \in [Request -> Nat]
    BY <1>1 DEF GInv, S!TypeOK
  <2>3. claimed' \in [Request -> BOOLEAN]
    BY <1>1
  <2> DEFINE Slugs == Base \cup {Append(b, k) : b \in Base, k \in 1 .. MAX_SLUGS + Cardinality(Request)}
  <2>4. S!Cardinality(Request) = Cardinality(Request)
    BY SameCardinality
  <2>5. S!TypeOK => taken \subseteq Slugs
    BY <2>4 DEF S!TypeOK
  <2>6. /\ taken' \subseteq Slugs
        /\ loop' \in [Request -> {"idle", "look", "insert"}]
        /\ base' \in [Request -> Base] /\ suffix' \in [Request -> Nat]
        /\ claimed' \in [Request -> BOOLEAN]
        => S!TypeOK'
    BY <2>4 DEF S!TypeOK
  <2> HIDE DEF Slugs
  <2>7. taken' \subseteq Slugs
    <3>1. taken \subseteq Slugs
      BY <2>5 DEF GInv
    <3>2. slug \in Slugs
      BY <1>9 DEF Slugs
    <3>3. taken' = taken \cup {slug}
      BY <1>1
    <3> HIDE DEF slug
    <3> QED
      BY <3>1, <3>2, <3>3
  <2> QED
    BY <2>1, <2>2, <2>3, <2>6, <2>7
<1>11. PassedAreTaken'
  BY <1>1, <1>2 DEF GInv, PassedAreTaken
<1>12. FreeUnlessOvertaken'
  <2> SUFFICES ASSUME NEW q \in Request, loop'[q] = "insert", ~claimed'[q]
               PROVE  S!Slug(base[q], suffix[q]) \notin taken'
    BY <1>1 DEF FreeUnlessOvertaken
  <2>1. loop[q] = "insert"
    BY <1>1 DEF GInv, S!TypeOK
  <2>2. ~claimed[q] /\ S!Slug(base[q], suffix[q]) # slug
    BY <1>1, <2>1
  <2> QED
    BY <1>1, <2>1, <2>2 DEF GInv, FreeUnlessOvertaken
<1> QED
  BY <1>8, <1>10, <1>11, <1>12 DEF GInv

LEMMA NextGInv == GInv /\ [S!Next]_(S!vars) => GInv'
<1>1. ASSUME GInv, UNCHANGED S!vars PROVE GInv'
  BY <1>1 DEF GInv, S!TypeOK, PassedAreTaken, FreeUnlessOvertaken, SlugsCounted, Creating, S!vars
<1> QED
  BY <1>1, LookGInv, InsertGInv, BeginGInv DEF S!Next

LEMMA GInvariance == S!Spec => []GInv
  BY InitGInv, NextGInv, PTL DEF S!Spec

\* Type correctness of the slugs: one that is taken is a base, or a base and a number
\* no greater than the slugs there can be (utils/slug.py).
THEOREM SlugsTypeCorrect == S!Spec => []S!TypeOK
<1>1. GInv => S!TypeOK
  BY DEF GInv
<1> QED
  BY <1>1, GInvariance, PTL

\* The slug of a creation has the first suffix that is free, and is free unless
\* another creation committed it after the search (services/team_service.py:
\* _unique_team_slug, services/project_service.py: _unique_project_slug).
THEOREM SlugsAreFirstFree == S!Spec => []SlugFirstFree
<1>1. GInv => SlugFirstFree
  BY DEF GInv, S!TypeOK, PassedAreTaken, FreeUnlessOvertaken, Creating, SlugFirstFree, S!SlugFirstFree
<1> QED
  BY <1>1, GInvariance, PTL

\* The loop that looks for a slug ends: it has gone no further than the number of
\* slugs that are taken (the while loop of _unique_team_slug and
\* _unique_project_slug).
THEOREM SearchesEnd == S!Spec => [](\A r \in Creating : suffix[r] <= Cardinality(taken))
<1>1. GInv => \A r \in Creating : suffix[r] <= Cardinality(taken)
  BY SearchIsShort
<1> QED
  BY <1>1, GInvariance, PTL

-----------------------------------------------------------------------------
\* The parts side by side: whatever one does, the others stand still.
LEMMA PartsAreThemselves == MCSpec => P!Spec /\ S!Spec
<1>1. MCInit => P!Init /\ S!Init
  BY DEF MCInit
<1>2. [MCNext]_<<part, vars, projectVars, slugVars>> => [P!Next]_(P!vars) /\ [S!Next]_(S!vars)
  BY DEF MCNext, projectVars, slugVars, P!vars, P!team, P!rows, P!locals, S!vars
<1> QED
  BY <1>1, <1>2, PTL DEF MCSpec, P!Spec, S!Spec

\* Type correctness of projects and slugs.
THEOREM PartsTypeCorrect == MCSpec => []PartsTypeOK
<1>1. P!TypeOK /\ S!TypeOK => PartsTypeOK
  BY DEF PartsTypeOK
<1> QED
  BY <1>1, PartsAreThemselves, ProjectsTypeCorrect, SlugsTypeCorrect, PTL
=============================================================================
