------------------------------ MODULE MC_Teams ------------------------------
(***************************************************************************)
(* Teams, Projects and Slugs in one run.  What they share, the members of  *)
(* a team, each models for itself; the initial state picks one of them,    *)
(* and only that one moves.                                                *)
(***************************************************************************)
EXTENDS Teams, Sequences, FiniteSets

CONSTANTS Staff, Project, Base, MAX_SLUGS

VARIABLES part, teamMember, teamArchived, owner, archived, inProject, leads, step, asker, project,
          candidate, updated, late, stale, taken, loop, base, suffix, claimed

P == INSTANCE Projects WITH User <- Staff, member <- inProject, leader <- leads, pc <- step, caller <- asker,
                            target <- candidate, overtaken <- stale

ASSUME StaffAssumption == NoUser \notin Staff

S == INSTANCE Slugs WITH pc <- loop, overtaken <- claimed

\* Slugs are sequences, and there are names to make them of.
ASSUME BasesAssumption ==
    /\ Base # {} /\ \A b \in Base : Len(b) \in Nat /\ b = [i \in 1..Len(b) |-> b[i]]
    /\ MAX_SLUGS \in Nat /\ IsFiniteSet(Request)

projectVars == <<teamMember, teamArchived, owner, archived, inProject, leads, step, asker, project,
                 candidate, updated, late, stale>>
slugVars == <<taken, loop, base, suffix, claimed>>

\* The words "a", "b" and "a 1".
Bases == {<<"a">>, <<"b">>, <<"a", 1>>}

MCInit ==
    /\ part \in {"teams", "projects", "slugs"}
    /\ Init /\ P!Init /\ S!Init

MCNext ==
    /\ UNCHANGED part
    /\ \/ part = "teams" /\ Next /\ UNCHANGED <<projectVars, slugVars>>
       \/ part = "projects" /\ P!Next /\ UNCHANGED <<vars, slugVars>>
       \/ part = "slugs" /\ S!Next /\ UNCHANGED <<vars, projectVars>>

MCSpec == MCInit /\ [][MCNext]_<<part, vars, projectVars, slugVars>>

PartsTypeOK == P!TypeOK /\ S!TypeOK

ArchivedWithTeam == P!ArchivedWithTeam
ChangesPermitted == P!ChangesPermitted
SlugFirstFree == S!SlugFirstFree
=============================================================================
