------------------------------ MODULE Projects ------------------------------
(***************************************************************************)
(* The projects of a team, their members and who may change them           *)
(* (api/projects.py, api/deps.py, services/project_service.py), while the  *)
(* team's members come and go and the team is archived                     *)
(* (services/team_service.py: archive_team; see Teams for the members).    *)
(*                                                                         *)
(* A handler about a project asks whether its caller belongs to the team   *)
(* (require_project_access), then whether the caller owns or leads the     *)
(* project (check_project_permission), then reads, writes and commits.     *)
(* Administrators, who pass every check, are left out.                     *)
(*                                                                         *)
(* late and overtaken are history variables: the projects created since    *)
(* archive_team last updated the projects of the team; what the request    *)
(* found out about its caller, or about the user it adds, has changed      *)
(* since.                                                                  *)
(***************************************************************************)
EXTENDS Naturals

CONSTANTS User,        \* users of the server
          Project,     \* projects (keys, which are unique for good)
          Request,     \* request slots
          NoUser       \* the caller of an idle request

NoProject == "no project"

VARIABLES teamMember,  \* members of the team
          teamArchived,\* teams.is_archived
          owner,       \* projects.owner_id; NoUser before the project is created
          archived,    \* projects.is_archived
          member,      \* project_members: <<project, user>>
          leader,      \* ... whose role is LEADER
          pc,          \* where the handler of a request is
          caller,      \* the user who sent it
          project,     \* the project it is about
          target,      \* the user it adds or removes
          updated,     \* the projects a running archive_team has updated
          late,        \* history: see above
          overtaken    \* history: see above

team == <<teamMember, teamArchived>>
rows == <<owner, archived, member, leader>>
locals == <<pc, caller, project, target, updated, overtaken>>
vars == <<team, rows, locals, late>>

Exists == {p \in Project : owner[p] # NoUser}

Role == {"member", "leader"}

\* Steps of a request whose caller has been found in the team,
Inside == {"mayAdd", "mayRemove", "mayArchive", "insertProject", "add", "insertMember", "insertLeader", "delete", "archive"}

\* ... and to own or lead the project.
Permitted == {"add", "insertMember", "insertLeader", "delete", "archive"}

TypeOK ==
    /\ teamMember \subseteq User /\ teamArchived \in BOOLEAN
    /\ owner \in [Project -> User \cup {NoUser}]
    /\ archived \subseteq Exists /\ late \subseteq Exists /\ updated \subseteq Exists
    /\ leader \subseteq member /\ member \subseteq Project \X User
    /\ pc \in [Request -> Inside \cup {"idle", "cascade"}]
    /\ caller \in [Request -> User \cup {NoUser}]
    /\ project \in [Request -> Project \cup {NoProject}]
    /\ target \in [Request -> User \cup {NoUser}]
    /\ overtaken \in [Request -> BOOLEAN]
    /\ \A r \in Request : pc[r] \in Inside => project[r] \in Project /\ caller[r] \in User
    /\ \A r \in Request : pc[r] \in {"mayAdd", "add", "insertMember", "insertLeader", "mayRemove",
                                     "delete"} => target[r] \in User
    /\ \A r \in Request : pc[r] = "idle" => caller[r] = NoUser /\ ~overtaken[r]

Init ==
    /\ teamMember \in {{u} : u \in User} /\ teamArchived = FALSE
    /\ owner = [p \in Project |-> NoUser]
    /\ archived = {} /\ member = {} /\ leader = {} /\ late = {} /\ updated = {}
    /\ pc = [r \in Request |-> "idle"]
    /\ caller = [r \in Request |-> NoUser]
    /\ project = [r \in Request |-> NoProject]
    /\ target = [r \in Request |-> NoUser]
    /\ overtaken = [r \in Request |-> FALSE]

-----------------------------------------------------------------------------
Start(r, step, a, p, u) ==
    /\ pc[r] = "idle"
    /\ pc' = [pc EXCEPT ![r] = step]
    /\ caller' = [caller EXCEPT ![r] = a]
    /\ project' = [project EXCEPT ![r] = p]
    /\ target' = [target EXCEPT ![r] = u]
    /\ UNCHANGED <<updated, overtaken>>

GoTo(r, step) ==
    /\ pc' = [pc EXCEPT ![r] = step]
    /\ UNCHANGED <<caller, project, target, updated, overtaken>>

\* Mutant: the slot keeps its caller.
EndKept(r, over) ==
    /\ pc' = [pc EXCEPT ![r] = "idle"]
    /\ project' = [project EXCEPT ![r] = NoProject]
    /\ target' = [target EXCEPT ![r] = NoUser]
    /\ updated' = IF pc[r] = "cascade" THEN {} ELSE updated
    /\ overtaken' = [q \in Request |-> q # r /\ (overtaken[q] \/ q \in over)]
    /\ UNCHANGED caller

\* The request is answered; its commit overtakes those in over.
End(r, over) ==
    /\ pc' = [pc EXCEPT ![r] = "idle"]
    /\ caller' = [caller EXCEPT ![r] = NoUser]
    /\ project' = [project EXCEPT ![r] = NoProject]
    /\ target' = [target EXCEPT ![r] = NoUser]
    /\ updated' = IF pc[r] = "cascade" THEN {} ELSE updated
    /\ overtaken' = [q \in Request |-> q # r /\ (overtaken[q] \/ q \in over)]

-----------------------------------------------------------------------------
\* Teams: somebody joins the team,
JoinTeam(u) ==
    /\ u \notin teamMember
    /\ teamMember' = teamMember \cup {u}
    /\ UNCHANGED <<teamArchived, rows, locals, late>>

\* ... or is removed from it and keeps the memberships of its projects.
LeaveTeam(u) ==
    /\ u \in teamMember
    /\ teamMember' = teamMember \ {u}
    /\ overtaken' = [q \in Request |->
                        overtaken[q] \/ (pc[q] \in Inside /\ u \in {caller[q], target[q]})]
    /\ UNCHANGED <<teamArchived, rows, pc, caller, project, target, updated, late>>

\* archive_team: one UPDATE archives the projects committed so far,
BeginArchiveTeam(r, a) ==
    /\ a \in teamMember /\ pc[r] = "idle"
    /\ \A q \in Request : pc[q] # "cascade"
    /\ pc' = [pc EXCEPT ![r] = "cascade"]
    /\ caller' = [caller EXCEPT ![r] = a]
    /\ updated' = Exists
    /\ UNCHANGED <<team, rows, project, target, overtaken, late>>

\* Mutant: the projects are not archived with their team.
ArchiveTeamAlone(r) ==
    /\ pc[r] = "cascade"
    /\ teamArchived' = TRUE
    /\ End(r, {})
    /\ late' = late \ updated
    /\ UNCHANGED <<teamMember, rows>>

\* ... and the commit shows them and the archived team.
ArchiveTeam(r) ==
    /\ pc[r] = "cascade"
    /\ teamArchived' = TRUE
    /\ archived' = archived \cup updated
    /\ late' = late \ updated
    /\ End(r, {})
    /\ UNCHANGED <<teamMember, owner, member, leader>>

-----------------------------------------------------------------------------
\* POST /projects: the caller is in the team and the key is free.  Whether the
\* team is archived is not asked.
BeginCreate(r, a, p) ==
    /\ a \in teamMember /\ p \notin Exists
    /\ Start(r, "insertProject", a, p, NoUser)
    /\ UNCHANGED <<team, rows, late>>

\* create_project: the project and its owner's membership, or UNIQUE(key) (500).
InsertProject(r) ==
    /\ pc[r] = "insertProject"
    /\ IF project[r] \in Exists
       THEN UNCHANGED <<owner, member, leader, late>>
       ELSE /\ owner' = [owner EXCEPT ![project[r]] = caller[r]]
            /\ member' = member \cup {<<project[r], caller[r]>>}
            /\ leader' = leader \cup {<<project[r], caller[r]>>}
            /\ late' = IF teamArchived \/ \E q \in Request : pc[q] = "cascade"
                       THEN late \cup {project[r]} ELSE late
    /\ End(r, {})
    /\ UNCHANGED <<team, archived>>

\* require_project_access lets a in,
BeginInProject(r, a, p, u, step) ==
    /\ p \in Exists /\ a \in teamMember
    /\ Start(r, step, a, p, u)
    /\ UNCHANGED <<team, rows, late>>

\* ... to add a member, to remove one, to archive the project.
BeginAdd(r, a, p, u) == BeginInProject(r, a, p, u, "mayAdd")
BeginRemove(r, a, p, u) == BeginInProject(r, a, p, u, "mayRemove")
BeginArchive(r, a, p) == BeginInProject(r, a, p, NoUser, "mayArchive")

Manages(u, p) == u = owner[p] \/ <<p, u>> \in leader

Permit(r) ==
    GoTo(r, CASE pc[r] = "mayAdd" -> "add" [] pc[r] = "mayRemove" -> "delete"
              [] pc[r] = "mayArchive" -> "archive")

\* Mutant: any member of the project will do.
CheckPermissionOfMember(r) ==
    /\ pc[r] \in {"mayAdd", "mayRemove", "mayArchive"}
    /\ IF <<project[r], caller[r]>> \in member \/ caller[r] = owner[project[r]]
       THEN Permit(r) ELSE End(r, {})
    /\ UNCHANGED <<team, rows, late>>

\* check_project_permission: the owner or a leader (else 403).
CheckPermission(r) ==
    /\ pc[r] \in {"mayAdd", "mayRemove", "mayArchive"}
    /\ IF Manages(caller[r], project[r]) THEN Permit(r) ELSE End(r, {})
    /\ UNCHANGED <<team, rows, late>>

\* add_member: the user is in the team and not in the project yet (else 400).
FindCandidate(r) ==
    /\ pc[r] = "add"
    /\ IF target[r] \in teamMember /\ <<project[r], target[r]>> \notin member
       THEN \E step \in {"insertMember", "insertLeader"} : GoTo(r, step)
       ELSE End(r, {})
    /\ UNCHANGED <<team, rows, late>>

\* The insert and the commit; UNIQUE(project_id, user_id) fails it (500).
InsertMember(r) ==
    /\ pc[r] \in {"insertMember", "insertLeader"}
    /\ LET m == <<project[r], target[r]>>
       IN  /\ member' = member \cup {m}
           /\ leader' = IF pc[r] = "insertLeader" /\ m \notin member
                        THEN leader \cup {m} ELSE leader
    /\ End(r, {})
    /\ UNCHANGED <<team, owner, archived, late>>

\* remove_member, the owner and the last leader included; 404 is no step.
DeleteMember(r) ==
    /\ pc[r] = "delete"
    /\ member' = member \ {<<project[r], target[r]>>}
    /\ leader' = leader \ {<<project[r], target[r]>>}
    /\ End(r, {q \in Request : pc[q] \in Permitted /\ project[q] = project[r]
                               /\ caller[q] = target[r]})
    /\ UNCHANGED <<team, owner, archived, late>>

\* archive_project
ArchiveProject(r) ==
    /\ pc[r] = "archive"
    /\ archived' = archived \cup {project[r]}
    /\ End(r, {})
    /\ UNCHANGED <<team, owner, member, leader, late>>

-----------------------------------------------------------------------------
Next ==
    \/ \E u \in User : JoinTeam(u) \/ LeaveTeam(u)
    \/ \E r \in Request, a \in User :
          \/ BeginArchiveTeam(r, a)
          \/ \E p \in Project : BeginCreate(r, a, p) \/ BeginArchive(r, a, p)
          \/ \E p \in Project, u \in User : BeginAdd(r, a, p, u) \/ BeginRemove(r, a, p, u)
    \/ \E r \in Request :
          \/ ArchiveTeam(r) \/ InsertProject(r) \/ CheckPermission(r) \/ FindCandidate(r)
          \/ InsertMember(r) \/ DeleteMember(r) \/ ArchiveProject(r)

Spec == Init /\ [][Next]_vars

-----------------------------------------------------------------------------
\* archive_team takes the projects with it (services/team_service.py:159): every
\* project of an archived team is archived, unless it was created while the
\* team was being archived or after, which create_project does not refuse.
ArchivedWithTeam == teamArchived => Exists \ archived \subseteq late

\* "해당 사용자는 팀 멤버가 아닙니다." (services/project_service.py:260): a member of
\* the team is added to a project, or one who left it after the check.
AddedFromTeam ==
    \A r \in Request : pc[r] \in {"insertMember", "insertLeader"} =>
       target[r] \in teamMember \/ overtaken[r]

\* A project is changed by somebody in the team who owns or leads it, unless the
\* caller lost one or the other after the checks: one who was removed from the
\* team and still leads its project cannot begin.
ManagersActUnlessRemoved ==
    \A r \in Request : pc[r] \in Permitted =>
       (caller[r] \in teamMember /\ Manages(caller[r], project[r])) \/ overtaken[r]

\* Both: whoever may add somebody adds somebody of the team.
ChangesPermitted == ManagersActUnlessRemoved /\ AddedFromTeam
=============================================================================
