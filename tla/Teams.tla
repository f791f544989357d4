-------------------------------- MODULE Teams --------------------------------
(***************************************************************************)
(* A team, its members and the first of its invites (api/teams.py,         *)
(* api/invites.py, services/team_service.py, services/invite_service.py,   *)
(* services/member_mixin.py).                                              *)
(*                                                                         *)
(* A handler that changes the team first asks whether its caller leads it, *)
(* then reads the row it is about, then writes and commits: three steps of *)
(* a transaction that locks nothing before its write.  A join reads the    *)
(* invite with its use_count and writes back the count it read plus one.   *)
(* Administrators, who pass every check, are left out.                     *)
(*                                                                         *)
(* joined, overlapped and overtaken are history variables: the memberships *)
(* that came from the invite; some join committed on a count that was no   *)
(* longer the invite's; what the request read (its caller's role, or the   *)
(* invite) has changed since.                                              *)
(***************************************************************************)
EXTENDS Naturals

CONSTANTS User,        \* users of the server
          Creator,     \* who creates the team
          Request,     \* request slots
          MAX_USES,    \* team_invites.max_uses
          NoUser       \* the user of an idle request

ASSUME TeamsAssumption ==
    /\ Creator \in User /\ NoUser \notin User
    /\ MAX_USES \in Nat \ {0}

VARIABLES member,      \* team_members, unique by (team, user)
          leader,      \* ... those whose role is LEADER
          invite,      \* is_active: "none", "open" or "closed" (deactivated or expired)
          uses,        \* use_count
          pc,          \* where the handler of a request is
          caller,      \* the user who sent it
          target,      \* the user it is about
          read,        \* the use_count a join has read
          joined,      \* history: see above
          overlapped,  \* history: see above
          overtaken    \* history: see above

team == <<member, leader>>
link == <<invite, uses, joined, overlapped>>
locals == <<pc, caller, target, read, overtaken>>
vars == <<team, link, locals>>

\* Steps of a request whose caller has been found to lead the team.
Leading == {"add", "insertMember", "insertLeader", "remove", "delete",
            "createInvite", "closeInvite"}

TypeOK ==
    /\ leader \subseteq member /\ member \subseteq User
    /\ invite \in {"none", "open", "closed"}
    /\ uses \in Nat /\ joined \in Nat
    /\ overlapped \in BOOLEAN
    /\ pc \in [Request -> Leading \cup {"idle", "lookUp", "join"}]
    /\ caller \in [Request -> User \cup {NoUser}]
    /\ target \in [Request -> User \cup {NoUser}]
    /\ read \in [Request -> Nat]
    /\ overtaken \in [Request -> BOOLEAN]
    /\ \A r \in Request : pc[r] # "idle" => target[r] \in User /\ caller[r] \in User
    /\ \A r \in Request : pc[r] = "idle" => caller[r] = NoUser /\ ~overtaken[r]

\* create_team commits the team together with its creator's membership.
Init ==
    /\ member = {Creator} /\ leader = {Creator}
    /\ invite = "none" /\ uses = 0 /\ joined = 0 /\ overlapped = FALSE
    /\ pc = [r \in Request |-> "idle"]
    /\ caller = [r \in Request |-> NoUser]
    /\ target = [r \in Request |-> NoUser]
    /\ read = [r \in Request |-> 0]
    /\ overtaken = [r \in Request |-> FALSE]

-----------------------------------------------------------------------------
Start(r, step, a, u) ==
    /\ pc[r] = "idle"
    /\ pc' = [pc EXCEPT ![r] = step]
    /\ caller' = [caller EXCEPT ![r] = a]
    /\ target' = [target EXCEPT ![r] = u]

GoTo(r, step) ==
    /\ pc' = [pc EXCEPT ![r] = step]
    /\ UNCHANGED <<caller, target, read, overtaken>>

\* The request is answered; its commit overtakes those in over.
End(r, over) ==
    /\ pc' = [pc EXCEPT ![r] = "idle"]
    /\ caller' = [caller EXCEPT ![r] = NoUser]
    /\ target' = [target EXCEPT ![r] = NoUser]
    /\ read' = [read EXCEPT ![r] = 0]
    /\ overtaken' = [q \in Request |-> q # r /\ (overtaken[q] \/ q \in over)]

Joining == {r \in Request : pc[r] \in {"lookUp", "join"}}

\* require_team_member and check_team_permission let a in.
BeginLeading(r, a, u, step) ==
    /\ a \in leader
    /\ Start(r, step, a, u)
    /\ UNCHANGED <<team, link, read, overtaken>>

\* POST and DELETE /{team_id}/members,
BeginAdd(r, a, u) == BeginLeading(r, a, u, "add")
BeginRemove(r, a, u) == BeginLeading(r, a, u, "remove")

\* POST and DELETE /{team_id}/invites.
BeginCreateInvite(r, a) == BeginLeading(r, a, a, "createInvite")
BeginCloseInvite(r, a) == BeginLeading(r, a, a, "closeInvite")

\* add_member: a member already (400), or on to the insert with a role.
FindNoMember(r) ==
    /\ pc[r] = "add"
    /\ IF target[r] \in member
       THEN End(r, {})
       ELSE \E step \in {"insertMember", "insertLeader"} : GoTo(r, step)
    /\ UNCHANGED <<team, link>>

\* The insert and the commit; UNIQUE(team_id, user_id) fails it (500).
InsertMember(r) ==
    /\ pc[r] \in {"insertMember", "insertLeader"}
    /\ member' = member \cup {target[r]}
    /\ leader' = IF pc[r] = "insertLeader" /\ target[r] \notin member
                 THEN leader \cup {target[r]} ELSE leader
    /\ End(r, {})
    /\ UNCHANGED link

\* remove_member: no such member (404), or on to the delete.
FindMember(r) ==
    /\ pc[r] = "remove"
    /\ IF target[r] \in member THEN GoTo(r, "delete") ELSE End(r, {})
    /\ UNCHANGED <<team, link>>

\* The last leader may go, too.
DeleteMember(r) ==
    /\ pc[r] = "delete"
    /\ member' = member \ {target[r]}
    /\ leader' = leader \ {target[r]}
    /\ End(r, {q \in Request : caller[q] = target[r] /\ pc[q] \in Leading})
    /\ UNCHANGED link

-----------------------------------------------------------------------------
\* create_invite; the invites after the first one are not followed.
CreateInvite(r) ==
    /\ pc[r] = "createInvite"
    /\ invite' = IF invite = "none" THEN "open" ELSE invite
    /\ End(r, {})
    /\ UNCHANGED <<team, uses, joined, overlapped>>

\* deactivate_invite
CloseInvite(r) ==
    /\ pc[r] = "closeInvite"
    /\ invite' = IF invite = "none" THEN "none" ELSE "closed"
    /\ End(r, Joining)
    /\ UNCHANGED <<team, uses, joined, overlapped>>

\* expires_at is over.
ExpireInvite ==
    /\ invite = "open"
    /\ invite' = "closed"
    /\ overtaken' = [q \in Request |-> overtaken[q] \/ q \in Joining]
    /\ UNCHANGED <<team, uses, joined, overlapped, pc, caller, target, read>>

\* join_by_token reads an invite that is open and has uses left (else 403).
BeginJoin(r, u) ==
    /\ invite = "open" /\ uses < MAX_USES
    /\ Start(r, "lookUp", u, u)
    /\ read' = [read EXCEPT ![r] = uses]
    /\ UNCHANGED <<team, link, overtaken>>

\* A member is answered with the membership there is.
LookUp(r) ==
    /\ pc[r] = "lookUp"
    /\ IF target[r] \in member THEN End(r, {}) ELSE GoTo(r, "join")
    /\ UNCHANGED <<team, link>>

\* Mutant: the count is committed even when the membership fails.
JoinCountedAnyway(r) ==
    /\ pc[r] = "join"
    /\ IF target[r] \in member
       THEN UNCHANGED <<member, invite, joined, overlapped>>
       ELSE /\ member' = member \cup {target[r]}
            /\ joined' = joined + 1
            /\ overlapped' = (overlapped \/ read[r] # uses)
            /\ UNCHANGED invite
    /\ uses' = read[r] + 1
    /\ End(r, Joining)
    /\ UNCHANGED leader

\* The membership and the count are committed together, or the membership is
\* there by now and both fail (500).
Join(r) ==
    /\ pc[r] = "join"
    /\ IF target[r] \in member
       THEN UNCHANGED <<member, link>> /\ End(r, {})
       ELSE /\ member' = member \cup {target[r]}
            /\ uses' = read[r] + 1
            /\ joined' = joined + 1
            /\ overlapped' = (overlapped \/ read[r] # uses)
            /\ End(r, Joining)
            /\ UNCHANGED invite
    /\ UNCHANGED leader

-----------------------------------------------------------------------------
Next ==
    \/ \E r \in Request : \/ FindNoMember(r) \/ InsertMember(r) \/ FindMember(r) \/ DeleteMember(r)
                          \/ CreateInvite(r) \/ CloseInvite(r) \/ LookUp(r) \/ Join(r)
    \/ \E r \in Request, a, u \in User : BeginAdd(r, a, u) \/ BeginRemove(r, a, u)
    \/ \E r \in Request, a \in User : BeginCreateInvite(r, a) \/ BeginCloseInvite(r, a)
    \/ \E r \in Request, u \in User : BeginJoin(r, u)
    \/ ExpireInvite

Spec == Init /\ [][Next]_vars

-----------------------------------------------------------------------------
\* "최대 사용 횟수를 초과한 초대 링크입니다." (services/invite_service.py:168): the
\* stored count never passes max_uses, and the users the invite let in are as
\* many as it says, unless a join committed on a count read before another's.
UsesCounted == uses <= MAX_USES /\ (joined = uses \/ overlapped)

\* A join that is under way has an open invite with a use left, unless the
\* invite was deactivated, expired or used since the request read it.
JoinsHonoured ==
    \A r \in Request : pc[r] = "join" => (invite = "open" /\ uses < MAX_USES) \/ overtaken[r]

\* What leaders may do is done by a leader, or by one who was removed from the
\* team between check_team_permission and the write.
LeadersActUnlessRemoved ==
    \A r \in Request : pc[r] \in Leading => caller[r] \in leader \/ overtaken[r]
=============================================================================
