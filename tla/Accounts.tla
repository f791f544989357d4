------------------------------ MODULE Accounts ------------------------------
(***************************************************************************)
(* Accounts, the setup wizard and the rights of administrators:            *)
(* api/setup.py, api/admin.py, the account half of api/auth.py and         *)
(* api/users.py, services/auth_service.py and services/user_service.py.    *)
(*                                                                         *)
(* A user is an e-mail address (users.email is unique) and has one Google  *)
(* identity; that an existing account gets its identity recorded at its    *)
(* first sign-in with Google is left out, since only later sign-ins read   *)
(* it and then change nothing.                                             *)
(*                                                                         *)
(* Every request runs in a transaction of its own under READ COMMITTED:    *)
(* what it reads is one step, its flush and the commit that follows are    *)
(* another, and other requests run in between.  A request refused at its   *)
(* first read changes nothing and is not a step.  The setup handlers that  *)
(* create the administrator and that complete the setup wait for           *)
(* pg_advisory_xact_lock(42), held until their transaction ends.           *)
(*                                                                         *)
(* founders, early and stale are history variables: the accounts created   *)
(* by the wizard; an account was created otherwise before any of those;    *)
(* what the request has checked changed before its write (the set of       *)
(* active administrators, or the completion of the setup).                 *)
(***************************************************************************)
CONSTANTS User,        \* e-mail addresses
          Request,     \* request slots of the server
          NoUser,      \* the user of an idle request
          NoRequest    \* the holder of a free lock

ASSUME AccountsAssumption == NoUser \notin User /\ NoRequest \notin Request

VARIABLES registered,  \* rows of users
          admin,       \* users.is_admin
          active,      \* users.is_active
          completed,   \* system_settings: setup_completed, absent or its value
          settings,    \* the other system settings: absent, or who wrote them
          lock,        \* holder of the advisory lock
          pc,          \* where the handler of a request is
          subject,     \* the user it is about
          found,       \* the keys of system_settings it has read the rows of
          founders,    \* history: see above
          early,       \* history: see above
          stale        \* history: see above

rows == <<registered, admin, active>>
wizard == <<completed, settings, lock, founders, early>>
locals == <<pc, subject, found, stale>>
vars == <<rows, wizard, locals>>

Steps == {"idle", "register", "googleInsert",
          "lockAdmin", "insertAdmin", "lockComplete", "complete", "writeCompletion",
          "saveSettings", "updateSettings",
          "readPromoted", "promote", "readDemoted", "countDemote", "demote",
          "countDeactivate", "deactivate"}

\* Handlers about the wizard or the settings name no user.
AboutNobody ==
    {"idle", "lockComplete", "complete", "writeCompletion", "saveSettings", "updateSettings"}

\* What setup_completed may be set to: the setup is completed, or anything else.
Completion == {"true", "other"}

\* Requests about to take an administrator's rights or account away.
Removing == {"demote", "deactivate"}

TypeOK ==
    /\ registered \subseteq User /\ founders \subseteq registered
    /\ admin \subseteq registered /\ active \subseteq registered
    /\ completed \in Completion \cup {"absent"} /\ early \in BOOLEAN
    /\ settings \in {"absent", "wizard", "administrator"}
    /\ lock \in Request \cup {NoRequest}
    /\ pc \in [Request -> Steps]
    /\ subject \in [Request -> User \cup {NoUser}]
    /\ found \in [Request -> SUBSET {"setup_completed", "others"}]
    /\ stale \in [Request -> BOOLEAN]
    /\ \A r \in Request : pc[r] \notin AboutNobody => subject[r] \in User
    /\ \A r \in Request : pc[r] = "idle" => subject[r] = NoUser /\ ~stale[r]

Init ==
    /\ registered = {} /\ admin = {} /\ active = {}
    /\ completed = "absent" /\ settings = "absent" /\ lock = NoRequest
    /\ founders = {} /\ early = FALSE
    /\ pc = [r \in Request |-> "idle"]
    /\ subject = [r \in Request |-> NoUser]
    /\ found = [r \in Request |-> {}]
    /\ stale = [r \in Request |-> FALSE]

-----------------------------------------------------------------------------
Admins == admin \cap active

\* Mutant: the count takes in the administrators who are deactivated.
LastAdminOfAll == \A u, v \in admin : u = v

\* The count of active administrators is at most one.
LastAdmin == \A u, v \in Admins : u = v

\* check_setup_completed
SetupCompleted == completed = "true"

\* The keys of system_settings that have a row.
Present ==
    (IF completed = "absent" THEN {} ELSE {"setup_completed"})
    \cup (IF settings = "absent" THEN {} ELSE {"others"})

Start(r, step, u) ==
    /\ pc[r] = "idle"
    /\ pc' = [pc EXCEPT ![r] = step]
    /\ subject' = [subject EXCEPT ![r] = u]

GoTo(r, step) ==
    /\ pc' = [pc EXCEPT ![r] = step]
    /\ UNCHANGED <<subject, found>>

\* The request is answered; its commit overtakes requests at some steps.
Finish(r, overtaken) ==
    /\ pc' = [pc EXCEPT ![r] = "idle"]
    /\ subject' = [subject EXCEPT ![r] = NoUser]
    /\ found' = [found EXCEPT ![r] = {}]
    /\ stale' = [q \in Request |-> q # r /\ (stale[q] \/ pc[q] \in overtaken)]

\* INSERT INTO users; UNIQUE(email) makes a second insert fail (500).
InsertUser(u) ==
    /\ registered' = registered \cup {u}
    /\ active' = IF u \in registered THEN active ELSE active \cup {u}

-----------------------------------------------------------------------------
\* POST /auth/register: the address is free.
BeginRegister(r, u) ==
    /\ u \notin registered
    /\ Start(r, "register", u)
    /\ UNCHANGED <<rows, wizard, found, stale>>

\* ... after the hash is computed, the insert and the commit.
Register(r) ==
    /\ pc[r] = "register"
    /\ InsertUser(subject[r])
    /\ early' = (early \/ founders = {})
    /\ Finish(r, {})
    /\ UNCHANGED <<admin, completed, settings, lock, founders>>

\* GET /auth/google/callback, after the exchange with Google: neither the
\* identity nor the address is known,
BeginGoogle(r, u) ==
    /\ u \notin registered
    /\ Start(r, "googleInsert", u)
    /\ UNCHANGED <<rows, wizard, found, stale>>

\* ... and an account is made; a conflict redirects to an error page.
InsertGoogle(r) ==
    /\ pc[r] = "googleInsert"
    /\ InsertUser(subject[r])
    /\ early' = (early \/ founders = {})
    /\ Finish(r, {})
    /\ UNCHANGED <<admin, completed, settings, lock, founders>>

-----------------------------------------------------------------------------
\* POST /setup/admin asks for the lock.
RequestAdmin(r, u) ==
    /\ Start(r, "lockAdmin", u)
    /\ UNCHANGED <<rows, wizard, found, stale>>

\* Mutant: no advisory lock.
CheckSetupAdminUnlocked(r) ==
    /\ pc[r] = "lockAdmin"
    /\ IF SetupCompleted \/ registered # {}
       THEN Finish(r, {}) /\ UNCHANGED lock
       ELSE GoTo(r, "insertAdmin") /\ UNCHANGED <<lock, stale>>
    /\ UNCHANGED <<rows, completed, settings, founders, early>>

\* Mutant: a refused request keeps its transaction, and the lock, open.
CheckSetupAdminLeaks(r) ==
    /\ pc[r] = "lockAdmin" /\ lock = NoRequest
    /\ lock' = r
    /\ IF SetupCompleted \/ registered # {}
       THEN Finish(r, {})
       ELSE GoTo(r, "insertAdmin") /\ UNCHANGED stale
    /\ UNCHANGED <<rows, completed, settings, founders, early>>

\* create_setup_admin gets the lock: 403 if completed, 409 if there are users.
CheckSetupAdmin(r) ==
    /\ pc[r] = "lockAdmin" /\ lock = NoRequest
    /\ IF SetupCompleted \/ registered # {}
       THEN Finish(r, {}) /\ UNCHANGED lock
       ELSE GoTo(r, "insertAdmin") /\ lock' = r /\ UNCHANGED stale
    /\ UNCHANGED <<rows, completed, settings, founders, early>>

\* The insert of the administrator and the commit, or the conflict (500).
InsertAdmin(r) ==
    /\ pc[r] = "insertAdmin"
    /\ InsertUser(subject[r])
    /\ lock' = NoRequest
    /\ IF subject[r] \in registered
       THEN UNCHANGED <<admin, founders>> /\ Finish(r, {})
       ELSE /\ admin' = admin \cup {subject[r]}
            /\ founders' = founders \cup {subject[r]}
            /\ Finish(r, Removing)
    /\ UNCHANGED <<completed, settings, early>>

\* POST /setup/complete asks for the lock.
RequestComplete(r) ==
    /\ Start(r, "lockComplete", NoUser)
    /\ UNCHANGED <<rows, wizard, found, stale>>

\* complete_setup gets the lock: 409 if completed, 400 if there is no user.
CheckComplete(r) ==
    /\ pc[r] = "lockComplete" /\ lock = NoRequest
    /\ IF SetupCompleted \/ registered = {}
       THEN Finish(r, {}) /\ UNCHANGED lock
       ELSE GoTo(r, "complete") /\ lock' = r /\ UNCHANGED stale
    /\ UNCHANGED <<rows, completed, settings, founders, early>>

\* _upsert_setting reads the row; if it has the value by now nothing is written.
FindCompletion(r) ==
    /\ pc[r] = "complete"
    /\ IF SetupCompleted
       THEN Finish(r, {}) /\ lock' = NoRequest
       ELSE /\ pc' = [pc EXCEPT ![r] = "writeCompletion"]
            /\ found' = [found EXCEPT ![r] = Present \cap {"setup_completed"}]
            /\ UNCHANGED <<lock, subject, stale>>
    /\ UNCHANGED <<rows, completed, settings, founders, early>>

\* The UPDATE, or the INSERT that fails when the row is there by now (500), and
\* the commit.
CompleteSetup(r) ==
    /\ pc[r] = "writeCompletion"
    /\ lock' = NoRequest
    /\ IF "setup_completed" \in Present \ found[r]
       THEN UNCHANGED completed /\ Finish(r, {})
       ELSE completed' = "true" /\ Finish(r, {"saveSettings"})
    /\ UNCHANGED <<rows, settings, founders, early>>

-----------------------------------------------------------------------------
\* POST /setup/settings: 403 if completed; _upsert_setting reads the row.
BeginSaveSettings(r) ==
    /\ ~SetupCompleted
    /\ Start(r, "saveSettings", NoUser)
    /\ found' = [found EXCEPT ![r] = Present \cap {"others"}]
    /\ UNCHANGED <<rows, wizard, stale>>

\* PUT /admin/settings by administrator a: update_system_settings reads.
BeginUpdateSettings(r, a) ==
    /\ a \in Admins
    /\ Start(r, "updateSettings", NoUser)
    /\ found' = [found EXCEPT ![r] = Present]
    /\ UNCHANGED <<rows, wizard, stale>>

\* The UPDATE, or the INSERT that fails when the row is there by now (500).
SaveSettings(r) ==
    /\ pc[r] = "saveSettings"
    /\ settings' = IF "others" \in Present \ found[r] THEN settings ELSE "wizard"
    /\ Finish(r, {})
    /\ UNCHANGED <<rows, completed, lock, founders, early>>

\* The keys sent are arbitrary, setup_completed as good as any: those whose value
\* changes are written, or none if one of them is to be inserted and is there by
\* now (500).
UpdateSettings(r) ==
    /\ pc[r] = "updateSettings"
    /\ \E sent \in SUBSET {"setup_completed", "others"}, value \in Completion :
          IF sent \cap Present \subseteq found[r]
          THEN /\ completed' = IF "setup_completed" \in sent THEN value ELSE completed
               /\ settings' = IF "others" \in sent THEN "administrator" ELSE settings
               /\ Finish(r, IF completed' = "true" THEN {"saveSettings"} ELSE {})
          ELSE UNCHANGED <<completed, settings>> /\ Finish(r, {})
    /\ UNCHANGED <<rows, lock, founders, early>>

-----------------------------------------------------------------------------
\* PUT /admin/users/{u}/role by administrator a, up to require_admin.
BeginRole(r, a, u) ==
    /\ a \in Admins /\ u \in registered
    /\ \E step \in {"readPromoted", "readDemoted"} : Start(r, step, u)
    /\ UNCHANGED <<rows, wizard, found, stale>>

\* update_user_role reads the target; a role it already has is no change.
ReadPromoted(r) ==
    /\ pc[r] = "readPromoted"
    /\ IF subject[r] \in admin
       THEN Finish(r, {})
       ELSE GoTo(r, "promote") /\ UNCHANGED stale
    /\ UNCHANGED <<rows, wizard>>

ReadDemoted(r) ==
    /\ pc[r] = "readDemoted"
    /\ IF subject[r] \in admin
       THEN GoTo(r, "countDemote") /\ UNCHANGED stale
       ELSE Finish(r, {})
    /\ UNCHANGED <<rows, wizard>>

Promote(r) ==
    /\ pc[r] = "promote"
    /\ admin' = admin \cup {subject[r]}
    /\ Finish(r, Removing)
    /\ UNCHANGED <<registered, active, wizard>>

\* DELETE /users/me by u; the row read by get_current_user says if u counts.
BeginDeactivate(r, u) ==
    /\ u \in active
    /\ Start(r, IF u \in admin THEN "countDeactivate" ELSE "deactivate", u)
    /\ UNCHANGED <<rows, wizard, found, stale>>

\* The active administrators are counted; 409 for the last one.
CountAdmins(r, step, next) ==
    /\ pc[r] = step
    /\ IF LastAdmin THEN Finish(r, {}) ELSE GoTo(r, next) /\ UNCHANGED stale
    /\ UNCHANGED <<rows, wizard>>

CountDemote(r) == CountAdmins(r, "countDemote", "demote")

CountDeactivate(r) == CountAdmins(r, "countDeactivate", "deactivate")

Demote(r) ==
    /\ pc[r] = "demote"
    /\ admin' = admin \ {subject[r]}
    /\ Finish(r, Removing)
    /\ UNCHANGED <<registered, active, wizard>>

Deactivate(r) ==
    /\ pc[r] = "deactivate"
    /\ active' = active \ {subject[r]}
    /\ Finish(r, Removing)
    /\ UNCHANGED <<registered, admin, wizard>>

-----------------------------------------------------------------------------
Begin(r) ==
    \/ \E u \in User : BeginRegister(r, u) \/ BeginGoogle(r, u) \/ RequestAdmin(r, u)
                       \/ BeginDeactivate(r, u) \/ BeginUpdateSettings(r, u)
    \/ \E a, u \in User : BeginRole(r, a, u)
    \/ RequestComplete(r)
    \/ BeginSaveSettings(r)

Locking(r) == CheckSetupAdmin(r) \/ CheckComplete(r)

Step(r) ==
    \/ Register(r) \/ InsertGoogle(r)
    \/ InsertAdmin(r) \/ FindCompletion(r) \/ CompleteSetup(r) \/ SaveSettings(r) \/ UpdateSettings(r)
    \/ ReadPromoted(r) \/ Promote(r) \/ ReadDemoted(r) \/ CountDemote(r) \/ Demote(r)
    \/ CountDeactivate(r) \/ Deactivate(r)

Next == \E r \in Request : Begin(r) \/ Locking(r) \/ Step(r)

Spec == Init /\ [][Next]_vars

\* A handler that is not waiting runs on; PostgreSQL queues the waiters of a lock.
Fairness == \A r \in Request : WF_vars(Step(r)) /\ SF_vars(Locking(r))

FairSpec == Spec /\ Fairness

-----------------------------------------------------------------------------
\* "마지막 관리자는 비활성화할 수 없습니다." and "마지막 관리자의 권한을 해제할 수
\* 없습니다." (services/user_service.py:76, :294): the last active administrator
\* is lost only to a request whose count, or whose reading that the account is
\* no administrator's, another commit had made stale.
AdminRemainsUnlessRaced ==
    [][Admins # {} /\ Admins' = {} =>
          \E r \in Request : pc[r] \in Removing /\ stale[r] /\ pc'[r] = "idle"]_vars

\* The advisory lock and the count of users let the wizard create one
\* administrator, however many requests to create one overlap.
OneFounder == \A u, v \in founders : u = v

\* "관리자가 존재해야 하며" (api/setup.py:176): the setup is completed after its
\* administrator was created, unless an account came from elsewhere first, for
\* the handler counts users and not administrators.
CompletedAfterFounder == SetupCompleted => founders # {} \/ early

\* "setup_completed=true인 경우 변경을 거부합니다." (api/setup.py:142): the wizard
\* overwrites the settings of a completed setup only when it was completed
\* between the check and the write.
SettingsFrozenUnlessStale ==
    [][SetupCompleted /\ settings' # settings /\ settings' = "wizard" =>
          \E r \in Request : pc[r] = "saveSettings" /\ stale[r] /\ pc'[r] = "idle"]_vars

\* No request waits for ever, the advisory lock notwithstanding.
RequestsEnd == \A r \in Request : pc[r] # "idle" ~> pc[r] = "idle"
=============================================================================
