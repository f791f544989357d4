-------------------------------- MODULE Search --------------------------------
(***************************************************************************)
(* One search (services/search_service.py) while tasks and comments are    *)
(* changed.                                                                *)
(*                                                                         *)
(* A search is one to three statements, each of which sees what is         *)
(* committed when it runs: tasks by full text, tasks by the similarity of  *)
(* their texts, comments; or tasks by a tag or by a number alone.  Each    *)
(* takes the rows that the page has room for, after it has skipped the     *)
(* offset.  Which rows those are the ranks decide: any of them, here.      *)
(* Filters are part of what matches.                                       *)
(*                                                                         *)
(* steady is a history variable: the tasks and comments that nobody has    *)
(* touched since the search began.                                         *)
(***************************************************************************)
EXTENDS Naturals, Sequences, FiniteSets

CONSTANTS Task,        \* tasks
          Comment,     \* comments on them
          LIMIT,       \* limit: the size of a page
          MAX_OFFSET   \* bound: offset

VARIABLES matches,     \* what each kind of statement would find now
          query,       \* the kinds of statements the search runs
          next,        \* the one that is next
          offset,      \* offset
          items,       \* the items found so far, each with the kind that found it
          answer,      \* the response: "none" yet, "found", or "failed" and empty
          steady       \* history: see above

vars == <<matches, query, next, offset, items, answer, steady>>

\* search and _search_fulltext: what a query leads to.  One with a letter of Hangul
\* is not looked up in the full text.
Queries ==
    {<<"tag">>, <<"number">>, <<"similar", "comment">>, <<"text", "similar", "comment">>}

Kinds == {query[i] : i \in DOMAIN query}
ItemsOf(k) == IF k = "comment" THEN Comment ELSE Task

TypeOK ==
    /\ query \in Queries /\ next \in 1..Len(query) + 1
    /\ DOMAIN matches = Kinds /\ \A k \in Kinds : matches[k] \subseteq ItemsOf(k)
    /\ offset \in 0..MAX_OFFSET
    /\ \A i \in items : \E n \in 1..next - 1 : i[1] = query[n] /\ i[2] \in ItemsOf(i[1])
    /\ answer \in {"none", "found", "failed"}
    /\ steady \subseteq Task \cup Comment

Init ==
    /\ query \in Queries /\ next = 1
    /\ matches \in [Kinds -> SUBSET (Task \cup Comment)]
    /\ \A k \in Kinds : matches[k] \subseteq ItemsOf(k)
    /\ offset \in 0..MAX_OFFSET
    /\ items = {} /\ answer = "none"
    /\ steady = Task \cup Comment

-----------------------------------------------------------------------------
\* A task or a comment is created, changed, tagged, archived, deleted.
Edit(x) ==
    /\ \E K \in SUBSET {k \in Kinds : x \in ItemsOf(k)} :
          matches' = [k \in Kinds |-> (matches[k] \ {x}) \cup {y \in {x} : k \in K}]
    /\ steady' = steady \ {x}
    /\ UNCHANGED <<query, next, offset, items, answer>>

Found == {i[2] : i \in items}

\* What the statement selects from: seen_ids keeps the tasks already found out.
Rows == matches[query[next]] \ Found

\* remaining
Room == LIMIT - Cardinality(items)

\* What is left of them after OFFSET.
Rest == IF Cardinality(Rows) <= offset THEN 0 ELSE Cardinality(Rows) - offset

\* Mutant: a source is asked only if those before it found nothing.
TakenAlone(R) ==
    IF items # {} THEN R = {}
    ELSE Cardinality(R) <= Room /\ Cardinality(R) <= Rest /\ Cardinality(R) \in {Room, Rest}

\* The rows of OFFSET offset LIMIT remaining.
Taken(R) == Cardinality(R) <= Room /\ Cardinality(R) <= Rest /\ Cardinality(R) \in {Room, Rest}

\* One statement; one that the page has no room for is not run.
Select ==
    /\ answer = "none" /\ next <= Len(query)
    /\ \E R \in SUBSET Rows :
          /\ Taken(R)
          /\ items' = items \cup {<<query[next], x>> : x \in R}
    /\ next' = next + 1
    /\ UNCHANGED <<matches, query, offset, answer, steady>>

Respond ==
    /\ answer = "none" /\ next > Len(query)
    /\ answer' = "found"
    /\ UNCHANGED <<matches, query, next, offset, items, steady>>

\* search answers an error of any kind with an empty page.
Fail ==
    /\ answer = "none"
    /\ answer' = "failed" /\ items' = {}
    /\ UNCHANGED <<matches, query, next, offset, steady>>

Next == Select \/ Respond \/ Fail \/ \E x \in Task \cup Comment : Edit(x)

Spec == Init /\ [][Next]_vars

-----------------------------------------------------------------------------
\* "trigram 보완 (FTS 미매칭 보완)" (services/search_service.py:424): the statements of a
\* page complement one another; no task is in it twice, although it may match more
\* than one and be changed in between, and the page is not too long.
PageHoldsEachOnce ==
    /\ Cardinality(items) <= LIMIT
    /\ \A i, j \in items : i[2] = j[2] => i = j

\* A first page with room left holds all there is: what matches and was not
\* touched meanwhile is in it.
ShortPageHoldsAll ==
    answer = "found" /\ offset = 0 /\ Cardinality(items) < LIMIT =>
       \A k \in Kinds : matches[k] \cap steady \subseteq Found

\* A page has neither repetitions nor gaps.
PageIsWhole == PageHoldsEachOnce /\ ShortPageHoldsAll
=============================================================================
