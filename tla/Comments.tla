------------------------------ MODULE Comments ------------------------------
(***************************************************************************)
(* The comments on one task and its watchers (api/comments.py,             *)
(* services/comment_service.py, mcp/tools/comments.py).                    *)
(*                                                                         *)
(* A comment and the watchers it brings are one transaction: the comment   *)
(* is flushed, the watchers there are are read, the missing ones inserted. *)
(* A comment is the set of the users it mentions.  Its author is settled   *)
(* by the check before the handler and left out, so are administrators.    *)
(* A new content that is the one the session has loaded is not written.    *)
(*                                                                         *)
(* overtaken is a history variable: since the request read the watchers,   *)
(* another has committed some.                                             *)
(***************************************************************************)
CONSTANTS User,        \* users of the server
          Comment,     \* comments
          Request,     \* request slots
          NoComment    \* the content of a comment that is not there

VARIABLES content,     \* the users each comment mentions; NoComment for none such
          watchers,    \* task_watchers, unique by (task, user)
          pc,          \* where the handler of a request is
          comment,     \* the comment it is about
          copy,        \* its content as the session loaded it
          text,        \* its new content
          missing,     \* the watchers it is to insert
          overtaken    \* history: see above

rows == <<content, watchers>>
locals == <<pc, comment, copy, text, missing, overtaken>>
vars == <<rows, locals>>

There == {c \in Comment : content[c] # NoComment}

\* Steps of a transaction that has written to its comment.
Written == {"watchers", "commit"}

TypeOK ==
    /\ content \in [Comment -> (SUBSET User) \cup {NoComment}]
    /\ watchers \subseteq User
    /\ pc \in [Request -> Written \cup {"idle", "insert", "update", "delete"}]
    /\ comment \in [Request -> Comment]
    /\ copy \in [Request -> (SUBSET User) \cup {NoComment}]
    /\ text \in [Request -> SUBSET User]
    /\ missing \in [Request -> SUBSET User]
    /\ overtaken \in [Request -> BOOLEAN]
    /\ \A r \in Request : pc[r] \notin Written => missing[r] = {} /\ ~overtaken[r]

Init ==
    /\ content = [c \in Comment |-> NoComment]
    /\ watchers = {}
    /\ pc = [r \in Request |-> "idle"]
    /\ comment = [r \in Request |-> CHOOSE c \in Comment : TRUE]
    /\ copy = [r \in Request |-> NoComment]
    /\ text = [r \in Request |-> {}]
    /\ missing = [r \in Request |-> {}]
    /\ overtaken = [r \in Request |-> FALSE]

-----------------------------------------------------------------------------
Start(r, step, c, t) ==
    /\ pc[r] = "idle"
    /\ pc' = [pc EXCEPT ![r] = step]
    /\ comment' = [comment EXCEPT ![r] = c]
    /\ copy' = [copy EXCEPT ![r] = content[c]]
    /\ text' = [text EXCEPT ![r] = t]
    /\ UNCHANGED <<rows, missing, overtaken>>

\* Mutant: what is missing is kept.
EndKept(r, over) ==
    /\ pc' = [pc EXCEPT ![r] = "idle"]
    /\ copy' = [copy EXCEPT ![r] = NoComment]
    /\ text' = [text EXCEPT ![r] = {}]
    /\ overtaken' = [q \in Request |-> q # r /\ (overtaken[q] \/ q \in over)]
    /\ UNCHANGED <<comment, missing>>

End(r, over) ==
    /\ pc' = [pc EXCEPT ![r] = "idle"]
    /\ copy' = [copy EXCEPT ![r] = NoComment]
    /\ text' = [text EXCEPT ![r] = {}]
    /\ missing' = [missing EXCEPT ![r] = {}]
    /\ overtaken' = [q \in Request |-> q # r /\ (overtaken[q] \/ q \in over)]
    /\ UNCHANGED comment

Writes(r) == text[r] # copy[r]

\* The row of a comment is held from its flush to the end of the transaction.
Held(c) == \E q \in Request : pc[q] \in Written /\ comment[q] = c /\ Writes(q)

-----------------------------------------------------------------------------
\* POST /tasks/{task_id}/comments, and the MCP tool add_comment.
BeginCreate(r, c, t) ==
    /\ c \notin There /\ \A q \in Request : pc[q] # "idle" => comment[q] # c
    /\ Start(r, "insert", c, t)

\* PUT /comments/{comment_id} reads a comment of the caller's (else 404, 403).
BeginUpdate(r, c, t) == c \in There /\ Start(r, "update", c, t)

\* DELETE /comments/{comment_id}
BeginDelete(r, c) == c \in There /\ Start(r, "delete", c, {})

\* create_comment flushes the comment.
FlushCreate(r) ==
    /\ pc[r] = "insert"
    /\ pc' = [pc EXCEPT ![r] = "watchers"]
    /\ UNCHANGED <<rows, comment, copy, text, missing, overtaken>>

\* update_comment: the row is held, or gone by now (404 or StaleDataError).
FlushUpdate(r) ==
    /\ pc[r] = "update" /\ (Writes(r) => ~Held(comment[r]))
    /\ IF comment[r] \notin There
       THEN End(r, {})
       ELSE /\ pc' = [pc EXCEPT ![r] = "watchers"]
            /\ UNCHANGED <<comment, copy, text, missing, overtaken>>
    /\ UNCHANGED rows

\* add_watchers reads the watchers among those mentioned.
ReadWatchers(r) ==
    /\ pc[r] = "watchers"
    /\ pc' = [pc EXCEPT ![r] = "commit"]
    /\ missing' = [missing EXCEPT ![r] = text[r] \ watchers]
    /\ UNCHANGED <<rows, comment, copy, text, overtaken>>

Merge(r) == IF Writes(r) THEN [content EXCEPT ![comment[r]] = text[r]] ELSE content

\* Mutant: the comment is committed on its own before the watchers.
CommitApart(r) ==
    /\ pc[r] = "commit"
    /\ content' = Merge(r)
    /\ IF missing[r] \cap watchers # {}
       THEN UNCHANGED watchers /\ End(r, {})
       ELSE /\ watchers' = watchers \cup missing[r]
            /\ End(r, IF missing[r] = {} THEN {} ELSE {q \in Request : pc[q] = "commit"})

\* The missing watchers and the commit; UNIQUE(task_id, user_id) takes the
\* comment back with them (500).
Commit(r) ==
    /\ pc[r] = "commit"
    /\ IF missing[r] \cap watchers # {}
       THEN UNCHANGED rows /\ End(r, {})
       ELSE /\ content' = Merge(r)
            /\ watchers' = watchers \cup missing[r]
            /\ End(r, IF missing[r] = {} THEN {} ELSE {q \in Request : pc[q] = "commit"})

\* delete_comment; a comment that is gone is deleted once more.
Delete(r) ==
    /\ pc[r] = "delete" /\ ~Held(comment[r])
    /\ content' = [content EXCEPT ![comment[r]] = NoComment]
    /\ End(r, {})
    /\ UNCHANGED watchers

Next ==
    \E r \in Request :
       \/ \E c \in Comment, t \in SUBSET User : BeginCreate(r, c, t) \/ BeginUpdate(r, c, t)
       \/ \E c \in Comment : BeginDelete(r, c)
       \/ FlushCreate(r) \/ FlushUpdate(r) \/ ReadWatchers(r) \/ Commit(r) \/ Delete(r)

Spec == Init /\ [][Next]_vars

-----------------------------------------------------------------------------
\* "@mention된 사용자들을 작업 감시자로 자동 등록합니다."
\* (services/comment_service.py:40): everybody a comment mentions watches its task.
MentionedWatch == \A c \in There : content[c] \subseteq watchers

\* "이미 감시자인 경우 중복 등록하지 않습니다." (services/comment_service.py:43): a comment
\* is lost to a watcher there already only if another comment brought the
\* watcher since this one asked.
LostOnlyIfOvertaken ==
    \A r \in Request : pc[r] = "commit" /\ missing[r] \cap watchers # {} => overtaken[r]
=============================================================================
