-------------------------------- MODULE Slugs --------------------------------
(***************************************************************************)
(* The slugs of teams and projects (utils/slug.py, _unique_team_slug of    *)
(* services/team_service.py, _unique_project_slug of                       *)
(* services/project_service.py): a creation asks for one candidate after   *)
(* the other, base, base-1, base-2, ..., and inserts the first it finds    *)
(* free.  Teams and the projects of one team run the same loop over slugs  *)
(* of their own; this is one of them.                                      *)
(*                                                                         *)
(* A base is the sequence of a word and of the numbers it ends with: the   *)
(* team "Core 1" has the base that "Core" gets with its first suffix.      *)
(* overtaken is a history variable: the slug the request found free has    *)
(* been committed by another since.                                        *)
(***************************************************************************)
EXTENDS Naturals, Sequences, FiniteSets

CONSTANTS Base,        \* what generate_slug makes of the names: non-empty sequences
          Request,     \* request slots
          MAX_SLUGS    \* bound: no creation begins once so many slugs are taken

VARIABLES taken,       \* committed slugs, unique; nothing is ever deleted
          pc,          \* where the creation is
          base,        \* base_slug
          suffix,      \* suffix
          overtaken    \* history: see above

vars == <<taken, pc, base, suffix, overtaken>>

\* f"{base_slug}-{suffix}", and the base alone at first.
Slug(b, k) == IF k = 0 THEN b ELSE Append(b, k)

TypeOK ==
    /\ taken \subseteq Base \cup {Append(b, k) : b \in Base, k \in 1 .. MAX_SLUGS + Cardinality(Request)}
    /\ pc \in [Request -> {"idle", "look", "insert"}]
    /\ base \in [Request -> Base] /\ suffix \in [Request -> Nat]
    /\ overtaken \in [Request -> BOOLEAN]

Init ==
    /\ taken = {}
    /\ pc = [r \in Request |-> "idle"]
    /\ base = [r \in Request |-> CHOOSE b \in Base : TRUE]
    /\ suffix = [r \in Request |-> 0]
    /\ overtaken = [r \in Request |-> FALSE]

\* generate_slug
Begin(r, b) ==
    /\ pc[r] = "idle" /\ Cardinality(taken) < MAX_SLUGS
    /\ pc' = [pc EXCEPT ![r] = "look"]
    /\ base' = [base EXCEPT ![r] = b]
    /\ suffix' = [suffix EXCEPT ![r] = 0]
    /\ overtaken' = [overtaken EXCEPT ![r] = FALSE]
    /\ UNCHANGED taken

\* Mutant: the number the search ended with is not the one the slug gets.
LookPast(r) ==
    /\ pc[r] = "look"
    /\ suffix' = [suffix EXCEPT ![r] = @ + 1]
    /\ pc' = IF Slug(base[r], suffix[r]) \in taken THEN pc ELSE [pc EXCEPT ![r] = "insert"]
    /\ UNCHANGED <<taken, base, overtaken>>

\* One round of the loop.
Look(r) ==
    /\ pc[r] = "look"
    /\ IF Slug(base[r], suffix[r]) \in taken
       THEN suffix' = [suffix EXCEPT ![r] = @ + 1] /\ UNCHANGED pc
       ELSE pc' = [pc EXCEPT ![r] = "insert"] /\ UNCHANGED suffix
    /\ UNCHANGED <<taken, base, overtaken>>

\* The insert and the commit, or UNIQUE fails it (500).
Insert(r) ==
    /\ pc[r] = "insert"
    /\ LET slug == Slug(base[r], suffix[r])
       IN  /\ taken' = taken \cup {slug}
           /\ overtaken' = [q \in Request |->
                               overtaken[q] \/ (pc[q] = "insert" /\ Slug(base[q], suffix[q]) = slug)]
    /\ pc' = [pc EXCEPT ![r] = "idle"]
    /\ UNCHANGED <<base, suffix>>

Next == \E r \in Request : Look(r) \/ Insert(r) \/ \E b \in Base : Begin(r, b)

Spec == Init /\ [][Next]_vars

-----------------------------------------------------------------------------
\* "동일 slug가 존재할 경우 -1, -2 등 숫자 접미사를 추가합니다." (services/team_service.py:32):
\* the slug a creation is about to insert has the first free suffix, and is
\* still free unless another creation committed it after the search.
SlugFirstFree ==
    \A r \in Request : pc[r] = "insert" =>
       /\ \A k \in 0 .. suffix[r] - 1 : Slug(base[r], k) \in taken
       /\ Slug(base[r], suffix[r]) \notin taken \/ overtaken[r]
=============================================================================
