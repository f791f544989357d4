---------------------------- MODULE OAuthSettings ----------------------------
(***************************************************************************)
(* The Google OAuth settings (services/google_oauth.py, api/admin.py): one *)
(* configuration kept in three rows of system_settings, which save, delete *)
(* and read one after the other, each by a statement of its own under READ *)
(* COMMITTED.                                                              *)
(*                                                                         *)
(* A write is flushed by the next SELECT of the transaction, the last one  *)
(* by its commit.  It locks its row until the transaction ends; a row that *)
(* the SELECT saw and that is gone by now, or that it missed and that is   *)
(* there by now, fails the transaction (StaleDataError, IntegrityError).   *)
(* SQLAlchemy writes a row only if the value differs from the one it read: *)
(* the encrypted secret always differs, the client id and the redirect URI *)
(* do not when only the secret is rotated.                                 *)
(*                                                                         *)
(* PUT /admin/settings (services/user_service.py) writes any of the rows   *)
(* as well, with any text, of a configuration or not: one SELECT, then the *)
(* flush of the rows whose text it changes and the commit, which are one   *)
(* step, since nothing is read between them.                               *)
(*                                                                         *)
(* Any request may fail, by a deadlock if by nothing else.                 *)
(*                                                                         *)
(* overtaken is a history variable: another transaction has committed a    *)
(* write since this one began, or the stored configuration was no          *)
(* configuration when it began.                                            *)
(***************************************************************************)
EXTENDS Naturals, Sequences

CONSTANTS Request,    \* request slots
          NoRequest,  \* no request
          Config,     \* configurations: client id, secret, redirect URI
          Rotated,    \* the configurations that differ in the secret only
          Text        \* what PUT /admin/settings sends for a row

Absent == "absent"

VARIABLES stored,     \* the committed rows; an absent one means the environment's
          locker,     \* who has written the row and not yet committed
          job,        \* what the request does: "none", "read", "delete", "put", or the configuration it saves
          next,       \* the position in keys it has come to
          ready,      \* the row at that position has been read and not yet written
          seen,       \* the rows it has read, a save or a delete only the one it is at
          overtaken   \* history: see above

vars == <<stored, locker, job, next, ready, seen, overtaken>>

keys == <<"google_oauth_client_id", "google_oauth_client_secret", "google_oauth_redirect_uri">>

Key == {keys[i] : i \in 1 .. Len(keys)}

\* What a configuration keeps in a row.
Value(k, c) == IF k # "google_oauth_client_secret" /\ c \in Rotated THEN "shared" ELSE c

\* The rows of one configuration, or the environment's.
Whole(rows) ==
    \/ \A k \in Key : rows[k] = Absent
    \/ \E c \in Config : \A k \in Key : rows[k] = Value(k, c)

TypeOK ==
    /\ stored \in [Key -> Config \cup Text \cup {"shared", Absent}]
    /\ locker \in [Key -> Request \cup {NoRequest}]
    /\ job \in [Request -> Config \cup {"none", "read", "delete", "put"}]
    /\ next \in [Request -> 1 .. Len(keys) + 1]
    /\ ready \in [Request -> BOOLEAN]
    /\ seen \in [Request -> [Key -> Config \cup Text \cup {"shared", Absent}]]
    /\ overtaken \in [Request -> BOOLEAN]
    /\ \A k \in Key : locker[k] # NoRequest => job[locker[k]] \notin {"none", "read", "put"}

NoRows == [k \in Key |-> Absent]

Init ==
    /\ stored = NoRows
    /\ locker = [k \in Key |-> NoRequest]
    /\ job = [r \in Request |-> "none"]
    /\ next = [r \in Request |-> 1]
    /\ ready = [r \in Request |-> FALSE]
    /\ seen = [r \in Request |-> NoRows]
    /\ overtaken = [r \in Request |-> FALSE]

-----------------------------------------------------------------------------
Begin(r, what) ==
    /\ job[r] = "none"
    /\ job' = [job EXCEPT ![r] = what]
    /\ overtaken' = [overtaken EXCEPT ![r] = ~Whole(stored)]
    /\ UNCHANGED <<stored, locker, next, ready, seen>>

\* PUT /admin/oauth/google
BeginSave(r) == \E c \in Config : Begin(r, c)

\* DELETE /admin/oauth/google
BeginDelete(r) == Begin(r, "delete")

\* PUT /admin/settings
BeginPut(r) == Begin(r, "put")

\* GET /auth/google/authorize, the callback and GET /admin/oauth/google
BeginRead(r) == Begin(r, "read")

\* The slot is idle again and its locks are free; a commit of writes
\* overtakes the transactions that have begun.
Release(r, written) ==
    /\ locker' = [k \in Key |-> IF locker[k] = r THEN NoRequest ELSE locker[k]]
    /\ job' = [job EXCEPT ![r] = "none"]
    /\ next' = [next EXCEPT ![r] = 1]
    /\ ready' = [ready EXCEPT ![r] = FALSE]
    /\ seen' = [seen EXCEPT ![r] = NoRows]
    /\ overtaken' = [q \in Request |->
                        q # r /\ (overtaken[q] \/ (written /\ job[q] # "none"))]

\* The next row is read; a reader goes on to the one after it.
Select(r) ==
    /\ job[r] \notin {"none", "put"} /\ next[r] <= Len(keys) /\ ~ready[r]
    /\ LET k == keys[next[r]] IN seen' = [seen EXCEPT ![r][k] = stored[k]]
    /\ IF job[r] = "read"
       THEN next' = [next EXCEPT ![r] = @ + 1] /\ UNCHANGED ready
       ELSE ready' = [ready EXCEPT ![r] = TRUE] /\ UNCHANGED next
    /\ UNCHANGED <<stored, locker, job, overtaken>>

\* get_oauth_config returns the rows it read.
EndRead(r) ==
    /\ job[r] = "read" /\ next[r] > Len(keys)
    /\ Release(r, FALSE)
    /\ UNCHANGED stored

Advance(r) ==
    /\ next' = [next EXCEPT ![r] = @ + 1]
    /\ ready' = [ready EXCEPT ![r] = FALSE]
    /\ seen' = [seen EXCEPT ![r] = NoRows]
    /\ UNCHANGED <<stored, job, overtaken>>

\* _upsert_setting: nothing to write, the write, or its failure (500).
Upsert(r) ==
    /\ job[r] \in Config /\ ready[r]
    /\ LET k == keys[next[r]]
       IN  IF seen[r][k] = Value(k, job[r]) /\ k # "google_oauth_client_secret"
           THEN Advance(r) /\ UNCHANGED locker
           ELSE /\ locker[k] = NoRequest
                /\ IF (stored[k] = Absent) # (seen[r][k] = Absent)
                   THEN Release(r, FALSE) /\ UNCHANGED stored
                   ELSE locker' = [locker EXCEPT ![k] = r] /\ Advance(r)

\* delete_oauth_config: the row it saw is deleted unless it is gone.
DeleteRow(r) ==
    /\ job[r] = "delete" /\ ready[r]
    /\ LET k == keys[next[r]]
       IN  IF seen[r][k] = Absent
           THEN Advance(r) /\ UNCHANGED locker
           ELSE /\ locker[k] = NoRequest
                /\ Advance(r)
                /\ locker' = IF stored[k] = Absent THEN locker ELSE [locker EXCEPT ![k] = r]

\* Mutant: the redirect URI is left behind.
CommitPartly(r) ==
    /\ job[r] \notin {"none", "read", "put"} /\ next[r] > Len(keys)
    /\ stored' = [k \in Key |->
                    IF locker[k] # r \/ k = "google_oauth_redirect_uri" THEN stored[k]
                    ELSE IF job[r] = "delete" THEN Absent ELSE Value(k, job[r])]
    /\ Release(r, \E k \in Key : locker[k] = r)

\* The commit of the handlers in api/admin.py.
Commit(r) ==
    /\ job[r] \notin {"none", "read", "put"} /\ next[r] > Len(keys)
    /\ stored' = [k \in Key |->
                    IF locker[k] # r THEN stored[k]
                    ELSE IF job[r] = "delete" THEN Absent ELSE Value(k, job[r])]
    /\ Release(r, \E k \in Key : locker[k] = r)

-----------------------------------------------------------------------------
\* update_system_settings: the rows are read, ...
SelectAll(r) ==
    /\ job[r] = "put" /\ ~ready[r]
    /\ seen' = [seen EXCEPT ![r] = stored]
    /\ ready' = [ready EXCEPT ![r] = TRUE]
    /\ UNCHANGED <<stored, locker, job, next, overtaken>>

\* ... and the changed ones written and committed, unless one of them is gone, or
\* there, by now (500).
Put(r) ==
    /\ job[r] = "put" /\ ready[r]
    /\ \E changed \in SUBSET {k \in Key : locker[k] = NoRequest}, text \in [Key -> Text] :
          IF \A k \in changed : stored[k] = Absent <=> seen[r][k] = Absent
          THEN /\ stored' = [k \in Key |-> IF k \in changed THEN text[k] ELSE stored[k]]
               /\ Release(r, changed # {})
          ELSE Release(r, FALSE) /\ UNCHANGED stored

-----------------------------------------------------------------------------
\* The request fails and is rolled back.
Fail(r) ==
    /\ job[r] # "none"
    /\ Release(r, FALSE)
    /\ UNCHANGED stored

Next ==
    \E r \in Request :
       \/ BeginSave(r) \/ BeginDelete(r) \/ BeginRead(r) \/ BeginPut(r)
       \/ Select(r) \/ EndRead(r) \/ Upsert(r) \/ DeleteRow(r) \/ Commit(r)
       \/ SelectAll(r) \/ Put(r) \/ Fail(r)

Spec == Init /\ [][Next]_vars

-----------------------------------------------------------------------------
\* get_oauth_config answers one configuration, unless a commit came between its
\* three SELECTs, or the rows were none when it began.
ReadWholeUnlessTorn ==
    \A r \in Request : job[r] = "read" /\ next[r] > Len(keys) => Whole(seen[r]) \/ overtaken[r]

\* Three rows written by three statements stay one configuration, and are read
\* as one, unless a save or a delete was overtaken by the commit of another
\* request, or PUT /admin/settings wrote into them: a deletion that begins before
\* the first save commits leaves the client id alone in the table, and a rotation
\* of the secret lands in the client that replaced its own.
WholeUnlessOverlapped ==
    [][/\ ReadWholeUnlessTorn
       /\ Whole(stored) /\ ~Whole(stored') =>
             \E r \in Request :
                /\ job[r] # "none" /\ job'[r] = "none"
                /\ overtaken[r] \/ job[r] = "put"]_vars
=============================================================================
