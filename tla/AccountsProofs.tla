--------------------------- MODULE AccountsProofs ---------------------------
(***************************************************************************)
(* For any number of users and requests: the advisory lock lets the wizard *)
(* create one administrator, and the last active administrator is lost     *)
(* only to a request that another commit has overtaken.  For any number of *)
(* tokens and keys, a request acts for an account and with a key that were *)
(* not taken away before it read them; for any configurations the OAuth    *)
(* settings stay whole unless a writer was overtaken or wrote past them,   *)
(* and for any calls of a browser one refreshes for those that wait.       *)
(***************************************************************************)
EXTENDS MC_Accounts, Sequences, TLAPS

\* The advisory lock is held by whoever has passed a check of the wizard.
LockHeld ==
    \A r \in Request : pc[r] \in {"insertAdmin", "complete", "writeCompletion"} => lock = r

\* What a request has checked still holds at its write: under the lock, that there
\* is no administrator, or an account; and there is an account if there ever was an
\* administrator.
CheckedUnderLock ==
    \A r \in Request :
       /\ pc[r] = "insertAdmin" => founders = {}
       /\ pc[r] \in {"complete", "writeCompletion", "updateSettings"} => registered # {}

\* Accounts come from the wizard or before it; completion needs an account.
Origins ==
    /\ registered # {} => founders # {} \/ early
    /\ SetupCompleted => registered # {}

AnotherAdmin(r) == \E v \in Admins : v # subject[r]

\* A request that is about to take an administrator away, and that nobody has
\* overtaken, leaves another one.
AnotherRemains ==
    \A r \in Request : ~stale[r] =>
       /\ pc[r] = "demote" => AnotherAdmin(r)
       /\ pc[r] = "deactivate" => subject[r] \notin Admins \/ AnotherAdmin(r)

\* The setup is not completed when the wizard saves settings, unless overtaken.
StillOpen == \A r \in Request : pc[r] = "saveSettings" /\ ~stale[r] => ~SetupCompleted

\* The account whose role is changed was there when it was looked up.
TargetThere ==
    \A r \in Request : pc[r] \in {"readPromoted", "promote"} => subject[r] \in registered

IInv == /\ TypeOK /\ TargetThere /\ OneFounder /\ LockHeld /\ CheckedUnderLock
        /\ Origins /\ AnotherRemains /\ StillOpen

LEMMA InitIInv == Init => IInv
  BY DEF Init, IInv, TypeOK, OneFounder, LockHeld, CheckedUnderLock, Origins,
         AnotherRemains, AnotherAdmin, Admins, StillOpen, TargetThere,
         Steps, AboutNobody, SetupCompleted

\* The keys of system_settings that have a row are among the two.
LEMMA PresentKeys == Present \subseteq {"setup_completed", "others"}
  BY DEF Present

LEMMA BeginRegisterIInv ==
    ASSUME IInv, NEW r \in Request, NEW u \in User, BeginRegister(r, u)
    PROVE  IInv'
<1> USE AccountsAssumption DEF BeginRegister, Start, SetupCompleted, rows, wizard
<1>1. TypeOK'
  BY DEF IInv, TypeOK, Steps, AboutNobody
<1>2. OneFounder'
  BY DEF IInv, TypeOK, OneFounder, CheckedUnderLock
<1>3. LockHeld'
  BY DEF IInv, TypeOK, LockHeld
<1>4. CheckedUnderLock'
  BY DEF IInv, TypeOK, LockHeld, CheckedUnderLock
<1>5. Origins'
  BY DEF IInv, TypeOK, CheckedUnderLock, Origins
<1>6. AnotherRemains'
  BY DEF IInv, TypeOK, AnotherRemains, AnotherAdmin, Admins
<1>7. StillOpen'
  BY DEF IInv, TypeOK, StillOpen
<1>8. TargetThere'
  BY DEF IInv, TypeOK, TargetThere
<1> QED
  BY <1>1, <1>2, <1>3, <1>4, <1>5, <1>6, <1>7, <1>8 DEF IInv

LEMMA BeginGoogleIInv ==
    ASSUME IInv, NEW r \in Request, NEW u \in User, BeginGoogle(r, u)
    PROVE  IInv'
<1> USE AccountsAssumption DEF BeginGoogle, Start, SetupCompleted, rows, wizard
<1>1. TypeOK'
  BY DEF IInv, TypeOK, Steps, AboutNobody
<1>2. OneFounder'
  BY DEF IInv, TypeOK, OneFounder, CheckedUnderLock
<1>3. LockHeld'
  BY DEF IInv, TypeOK, LockHeld
<1>4. CheckedUnderLock'
  BY DEF IInv, TypeOK, LockHeld, CheckedUnderLock
<1>5. Origins'
  BY DEF IInv, TypeOK, CheckedUnderLock, Origins
<1>6. AnotherRemains'
  BY DEF IInv, TypeOK, AnotherRemains, AnotherAdmin, Admins
<1>7. StillOpen'
  BY DEF IInv, TypeOK, StillOpen
<1>8. TargetThere'
  BY DEF IInv, TypeOK, TargetThere
<1> QED
  BY <1>1, <1>2, <1>3, <1>4, <1>5, <1>6, <1>7, <1>8 DEF IInv

LEMMA RequestAdminIInv ==
    ASSUME IInv, NEW r \in Request, NEW u \in User, RequestAdmin(r, u)
    PROVE  IInv'
<1> USE AccountsAssumption DEF RequestAdmin, Start, SetupCompleted, rows, wizard
<1>1. TypeOK'
  BY DEF IInv, TypeOK, Steps, AboutNobody
<1>2. OneFounder'
  BY DEF IInv, TypeOK, OneFounder, CheckedUnderLock
<1>3. LockHeld'
  BY DEF IInv, TypeOK, LockHeld
<1>4. CheckedUnderLock'
  BY DEF IInv, TypeOK, LockHeld, CheckedUnderLock
<1>5. Origins'
  BY DEF IInv, TypeOK, CheckedUnderLock, Origins
<1>6. AnotherRemains'
  BY DEF IInv, TypeOK, AnotherRemains, AnotherAdmin, Admins
<1>7. StillOpen'
  BY DEF IInv, TypeOK, StillOpen
<1>8. TargetThere'
  BY DEF IInv, TypeOK, TargetThere
<1> QED
  BY <1>1, <1>2, <1>3, <1>4, <1>5, <1>6, <1>7, <1>8 DEF IInv

LEMMA RequestCompleteIInv ==
    ASSUME IInv, NEW r \in Request, RequestComplete(r)
    PROVE  IInv'
<1> USE AccountsAssumption DEF RequestComplete, Start, SetupCompleted, rows, wizard
<1>1. TypeOK'
  BY DEF IInv, TypeOK, Steps, AboutNobody
<1>2. OneFounder'
  BY DEF IInv, TypeOK, OneFounder, CheckedUnderLock
<1>3. LockHeld'
  BY DEF IInv, TypeOK, LockHeld
<1>4. CheckedUnderLock'
  BY DEF IInv, TypeOK, LockHeld, CheckedUnderLock
<1>5. Origins'
  BY DEF IInv, TypeOK, CheckedUnderLock, Origins
<1>6. AnotherRemains'
  BY DEF IInv, TypeOK, AnotherRemains, AnotherAdmin, Admins
<1>7. StillOpen'
  BY DEF IInv, TypeOK, StillOpen
<1>8. TargetThere'
  BY DEF IInv, TypeOK, TargetThere
<1> QED
  BY <1>1, <1>2, <1>3, <1>4, <1>5, <1>6, <1>7, <1>8 DEF IInv

LEMMA BeginSaveSettingsIInv ==
    ASSUME IInv, NEW r \in Request, BeginSaveSettings(r)
    PROVE  IInv'
<1> USE AccountsAssumption DEF BeginSaveSettings, Start, SetupCompleted, rows, wizard
<1>1. TypeOK'
  <2>1. /\ registered' \subseteq User /\ founders' \subseteq registered'
        /\ admin' \subseteq registered' /\ active' \subseteq registered'
    BY DEF IInv, TypeOK, Steps, AboutNobody
  <2>2. /\ completed' \in Completion \cup {"absent"} /\ early' \in BOOLEAN
        /\ settings' \in {"absent", "wizard", "administrator"}
        /\ lock' \in Request \cup {NoRequest}
    BY DEF IInv, TypeOK, Completion
  <2>3. pc' \in [Request -> Steps]
    BY DEF IInv, TypeOK, Steps
  <2>4. subject' \in [Request -> User \cup {NoUser}]
        /\ found' \in [Request -> SUBSET {"setup_completed", "others"}]
    BY PresentKeys DEF IInv, TypeOK
  <2>5. stale' \in [Request -> BOOLEAN]
    BY DEF IInv, TypeOK
  <2>6. ASSUME NEW q \in Request
        PROVE  /\ pc'[q] \notin AboutNobody => subject'[q] \in User
               /\ pc'[q] = "idle" => subject'[q] = NoUser /\ ~stale'[q]
    BY DEF IInv, TypeOK, Steps, AboutNobody
  <2> QED
    BY <2>1, <2>2, <2>3, <2>4, <2>5, <2>6 DEF TypeOK
<1>2. OneFounder'
  BY DEF IInv, TypeOK, OneFounder, CheckedUnderLock
<1>3. LockHeld'
  BY DEF IInv, TypeOK, LockHeld
<1>4. CheckedUnderLock'
  BY DEF IInv, TypeOK, LockHeld, CheckedUnderLock
<1>5. Origins'
  BY DEF IInv, TypeOK, CheckedUnderLock, Origins
<1>6. AnotherRemains'
  BY DEF IInv, TypeOK, AnotherRemains, AnotherAdmin, Admins
<1>7. StillOpen'
  BY DEF IInv, TypeOK, StillOpen
<1>8. TargetThere'
  BY DEF IInv, TypeOK, TargetThere
<1> QED
  BY <1>1, <1>2, <1>3, <1>4, <1>5, <1>6, <1>7, <1>8 DEF IInv

LEMMA BeginUpdateSettingsIInv ==
    ASSUME IInv, NEW r \in Request, NEW a \in User, BeginUpdateSettings(r, a)
    PROVE  IInv'
<1> USE AccountsAssumption DEF BeginUpdateSettings, Start, SetupCompleted, rows, wizard
<1>1. TypeOK'
  <2>1. /\ registered' \subseteq User /\ founders' \subseteq registered'
        /\ admin' \subseteq registered' /\ active' \subseteq registered'
    BY DEF IInv, TypeOK, Steps, AboutNobody
  <2>2. /\ completed' \in Completion \cup {"absent"} /\ early' \in BOOLEAN
        /\ settings' \in {"absent", "wizard", "administrator"}
        /\ lock' \in Request \cup {NoRequest}
    BY DEF IInv, TypeOK, Completion
  <2>3. pc' \in [Request -> Steps]
    BY DEF IInv, TypeOK, Steps
  <2>4. subject' \in [Request -> User \cup {NoUser}]
        /\ found' \in [Request -> SUBSET {"setup_completed", "others"}]
    BY PresentKeys DEF IInv, TypeOK
  <2>5. stale' \in [Request -> BOOLEAN]
    BY DEF IInv, TypeOK
  <2>6. ASSUME NEW q \in Request
        PROVE  /\ pc'[q] \notin AboutNobody => subject'[q] \in User
               /\ pc'[q] = "idle" => subject'[q] = NoUser /\ ~stale'[q]
    BY DEF IInv, TypeOK, Steps, AboutNobody
  <2> QED
    BY <2>1, <2>2, <2>3, <2>4, <2>5, <2>6 DEF TypeOK
<1>2. OneFounder'
  BY DEF IInv, TypeOK, OneFounder, CheckedUnderLock
<1>3. LockHeld'
  BY DEF IInv, TypeOK, LockHeld
<1>4. CheckedUnderLock'
  <2>1. registered # {}
    BY DEF IInv, TypeOK, Admins
  <2> QED
    BY <2>1 DEF IInv, TypeOK, LockHeld, CheckedUnderLock
<1>5. Origins'
  BY DEF IInv, TypeOK, CheckedUnderLock, Origins
<1>6. AnotherRemains'
  BY DEF IInv, TypeOK, AnotherRemains, AnotherAdmin, Admins
<1>7. StillOpen'
  BY DEF IInv, TypeOK, StillOpen
<1>8. TargetThere'
  BY DEF IInv, TypeOK, TargetThere
<1> QED
  BY <1>1, <1>2, <1>3, <1>4, <1>5, <1>6, <1>7, <1>8 DEF IInv

LEMMA BeginRoleIInv ==
    ASSUME IInv, NEW r \in Request, NEW a \in User, NEW u \in User, BeginRole(r, a, u)
    PROVE  IInv'
<1> USE AccountsAssumption DEF BeginRole, Start, SetupCompleted, rows, wizard
<1>1. TypeOK'
  BY DEF IInv, TypeOK, Steps, AboutNobody
<1>2. OneFounder'
  BY DEF IInv, TypeOK, OneFounder, CheckedUnderLock
<1>3. LockHeld'
  BY DEF IInv, TypeOK, LockHeld
<1>4. CheckedUnderLock'
  BY DEF IInv, TypeOK, LockHeld, CheckedUnderLock
<1>5. Origins'
  BY DEF IInv, TypeOK, CheckedUnderLock, Origins
<1>6. AnotherRemains'
  BY DEF IInv, TypeOK, AnotherRemains, AnotherAdmin, Admins
<1>7. StillOpen'
  BY DEF IInv, TypeOK, StillOpen
<1>8. TargetThere'
  BY DEF IInv, TypeOK, TargetThere
<1> QED
  BY <1>1, <1>2, <1>3, <1>4, <1>5, <1>6, <1>7, <1>8 DEF IInv

LEMMA BeginDeactivateIInv ==
    ASSUME IInv, NEW r \in Request, NEW u \in User, BeginDeactivate(r, u)
    PROVE  IInv'
<1> USE AccountsAssumption DEF BeginDeactivate, Start, SetupCompleted, rows, wizard
<1>1. TypeOK'
  BY DEF IInv, TypeOK, Steps, AboutNobody
<1>2. OneFounder'
  BY DEF IInv, TypeOK, OneFounder, CheckedUnderLock
<1>3. LockHeld'
  BY DEF IInv, TypeOK, LockHeld
<1>4. CheckedUnderLock'
  BY DEF IInv, TypeOK, LockHeld, CheckedUnderLock
<1>5. Origins'
  BY DEF IInv, TypeOK, CheckedUnderLock, Origins
<1>6. AnotherRemains'
  BY DEF IInv, TypeOK, AnotherRemains, AnotherAdmin, Admins
<1>7. StillOpen'
  BY DEF IInv, TypeOK, StillOpen
<1>8. TargetThere'
  BY DEF IInv, TypeOK, TargetThere
<1> QED
  BY <1>1, <1>2, <1>3, <1>4, <1>5, <1>6, <1>7, <1>8 DEF IInv

LEMMA CheckSetupAdminIInv ==
    ASSUME IInv, NEW r \in Request, CheckSetupAdmin(r)
    PROVE  IInv'
<1> USE AccountsAssumption DEF CheckSetupAdmin, GoTo, Finish, SetupCompleted, rows, wizard
<1>1. TypeOK'
  <2>1. /\ registered' \subseteq User /\ founders' \subseteq registered'
        /\ admin' \subseteq registered' /\ active' \subseteq registered'
    BY DEF IInv, TypeOK, Steps, AboutNobody
  <2>2. /\ completed' \in Completion \cup {"absent"} /\ early' \in BOOLEAN
        /\ settings' \in {"absent", "wizard", "administrator"}
        /\ lock' \in Request \cup {NoRequest}
    BY DEF IInv, TypeOK
  <2>3. pc' \in [Request -> Steps]
    BY DEF IInv, TypeOK, Steps
  <2>4. /\ subject' \in [Request -> User \cup {NoUser}]
        /\ found' \in [Request -> SUBSET {"setup_completed", "others"}]
    BY DEF IInv, TypeOK
  <2>5. stale' \in [Request -> BOOLEAN]
    BY DEF IInv, TypeOK
  <2>6. ASSUME NEW q \in Request
        PROVE  /\ pc'[q] \notin AboutNobody => subject'[q] \in User
               /\ pc'[q] = "idle" => subject'[q] = NoUser /\ ~stale'[q]
    BY DEF IInv, TypeOK, Steps, AboutNobody
  <2> QED
    BY <2>1, <2>2, <2>3, <2>4, <2>5, <2>6 DEF TypeOK
<1>2. OneFounder'
  BY DEF IInv, TypeOK, OneFounder, CheckedUnderLock
<1>3. LockHeld'
  BY DEF IInv, TypeOK, LockHeld
<1>4. CheckedUnderLock'
  BY DEF IInv, TypeOK, LockHeld, CheckedUnderLock
<1>5. Origins'
  BY DEF IInv, TypeOK, CheckedUnderLock, Origins
<1>6. AnotherRemains'
  BY DEF IInv, TypeOK, AnotherRemains, AnotherAdmin, Admins
<1>7. StillOpen'
  BY DEF IInv, TypeOK, StillOpen
<1>8. TargetThere'
  BY DEF IInv, TypeOK, TargetThere
<1> QED
  BY <1>1, <1>2, <1>3, <1>4, <1>5, <1>6, <1>7, <1>8 DEF IInv

LEMMA CheckCompleteIInv ==
    ASSUME IInv, NEW r \in Request, CheckComplete(r)
    PROVE  IInv'
<1> USE AccountsAssumption DEF CheckComplete, GoTo, Finish, SetupCompleted, rows, wizard
<1>1. TypeOK'
  <2>1. /\ registered' \subseteq User /\ founders' \subseteq registered'
        /\ admin' \subseteq registered' /\ active' \subseteq registered'
    BY DEF IInv, TypeOK, Steps, AboutNobody
  <2>2. /\ completed' \in Completion \cup {"absent"} /\ early' \in BOOLEAN
        /\ settings' \in {"absent", "wizard", "administrator"}
        /\ lock' \in Request \cup {NoRequest}
    BY DEF IInv, TypeOK
  <2>3. pc' \in [Request -> Steps]
    BY DEF IInv, TypeOK, Steps
  <2>4. /\ subject' \in [Request -> User \cup {NoUser}]
        /\ found' \in [Request -> SUBSET {"setup_completed", "others"}]
    BY DEF IInv, TypeOK
  <2>5. stale' \in [Request -> BOOLEAN]
    BY DEF IInv, TypeOK
  <2>6. ASSUME NEW q \in Request
        PROVE  /\ pc'[q] \notin AboutNobody => subject'[q] \in User
               /\ pc'[q] = "idle" => subject'[q] = NoUser /\ ~stale'[q]
    BY DEF IInv, TypeOK, Steps, AboutNobody
  <2> QED
    BY <2>1, <2>2, <2>3, <2>4, <2>5, <2>6 DEF TypeOK
<1>2. OneFounder'
  BY DEF IInv, TypeOK, OneFounder, CheckedUnderLock
<1>3. LockHeld'
  BY DEF IInv, TypeOK, LockHeld
<1>4. CheckedUnderLock'
  BY DEF IInv, TypeOK, LockHeld, CheckedUnderLock
<1>5. Origins'
  BY DEF IInv, TypeOK, CheckedUnderLock, Origins
<1>6. AnotherRemains'
  BY DEF IInv, TypeOK, AnotherRemains, AnotherAdmin, Admins
<1>7. StillOpen'
  BY DEF IInv, TypeOK, StillOpen
<1>8. TargetThere'
  BY DEF IInv, TypeOK, TargetThere
<1> QED
  BY <1>1, <1>2, <1>3, <1>4, <1>5, <1>6, <1>7, <1>8 DEF IInv

LEMMA RegisterIInv ==
    ASSUME IInv, NEW r \in Request, Register(r)
    PROVE  IInv'
<1> USE AccountsAssumption DEF Register, InsertUser, Finish, SetupCompleted, rows, wizard
<1>1. TypeOK'
  <2>1. /\ registered' \subseteq User /\ founders' \subseteq registered'
        /\ admin' \subseteq registered' /\ active' \subseteq registered'
    BY DEF IInv, TypeOK, Steps, AboutNobody
  <2>2. /\ completed' \in Completion \cup {"absent"} /\ early' \in BOOLEAN
        /\ settings' \in {"absent", "wizard", "administrator"}
        /\ lock' \in Request \cup {NoRequest}
    BY DEF IInv, TypeOK
  <2>3. pc' \in [Request -> Steps]
    BY DEF IInv, TypeOK, Steps
  <2>4. /\ subject' \in [Request -> User \cup {NoUser}]
        /\ found' \in [Request -> SUBSET {"setup_completed", "others"}]
    BY DEF IInv, TypeOK
  <2>5. stale' \in [Request -> BOOLEAN]
    BY DEF IInv, TypeOK
  <2>6. ASSUME NEW q \in Request
        PROVE  /\ pc'[q] \notin AboutNobody => subject'[q] \in User
               /\ pc'[q] = "idle" => subject'[q] = NoUser /\ ~stale'[q]
    BY DEF IInv, TypeOK, Steps, AboutNobody
  <2> QED
    BY <2>1, <2>2, <2>3, <2>4, <2>5, <2>6 DEF TypeOK
<1>2. OneFounder'
  BY DEF IInv, TypeOK, OneFounder, CheckedUnderLock
<1>3. LockHeld'
  BY DEF IInv, TypeOK, LockHeld
<1>4. CheckedUnderLock'
  BY DEF IInv, TypeOK, LockHeld, CheckedUnderLock
<1>5. Origins'
  BY DEF IInv, TypeOK, CheckedUnderLock, Origins
<1>6. AnotherRemains'
  BY DEF IInv, TypeOK, AnotherRemains, AnotherAdmin, Admins
<1>7. StillOpen'
  BY DEF IInv, TypeOK, StillOpen
<1>8. TargetThere'
  BY DEF IInv, TypeOK, TargetThere
<1> QED
  BY <1>1, <1>2, <1>3, <1>4, <1>5, <1>6, <1>7, <1>8 DEF IInv

LEMMA InsertGoogleIInv ==
    ASSUME IInv, NEW r \in Request, InsertGoogle(r)
    PROVE  IInv'
<1> USE AccountsAssumption DEF InsertGoogle, InsertUser, Finish, SetupCompleted, rows, wizard
<1>1. TypeOK'
  <2>1. /\ registered' \subseteq User /\ founders' \subseteq registered'
        /\ admin' \subseteq registered' /\ active' \subseteq registered'
    BY DEF IInv, TypeOK, Steps, AboutNobody
  <2>2. /\ completed' \in Completion \cup {"absent"} /\ early' \in BOOLEAN
        /\ settings' \in {"absent", "wizard", "administrator"}
        /\ lock' \in Request \cup {NoRequest}
    BY DEF IInv, TypeOK
  <2>3. pc' \in [Request -> Steps]
    BY DEF IInv, TypeOK, Steps
  <2>4. /\ subject' \in [Request -> User \cup {NoUser}]
        /\ found' \in [Request -> SUBSET {"setup_completed", "others"}]
    BY DEF IInv, TypeOK
  <2>5. stale' \in [Request -> BOOLEAN]
    BY DEF IInv, TypeOK
  <2>6. ASSUME NEW q \in Request
        PROVE  /\ pc'[q] \notin AboutNobody => subject'[q] \in User
               /\ pc'[q] = "idle" => subject'[q] = NoUser /\ ~stale'[q]
    BY DEF IInv, TypeOK, Steps, AboutNobody
  <2> QED
    BY <2>1, <2>2, <2>3, <2>4, <2>5, <2>6 DEF TypeOK
<1>2. OneFounder'
  BY DEF IInv, TypeOK, OneFounder, CheckedUnderLock
<1>3. LockHeld'
  BY DEF IInv, TypeOK, LockHeld
<1>4. CheckedUnderLock'
  BY DEF IInv, TypeOK, LockHeld, CheckedUnderLock
<1>5. Origins'
  BY DEF IInv, TypeOK, CheckedUnderLock, Origins
<1>6. AnotherRemains'
  BY DEF IInv, TypeOK, AnotherRemains, AnotherAdmin, Admins
<1>7. StillOpen'
  BY DEF IInv, TypeOK, StillOpen
<1>8. TargetThere'
  BY DEF IInv, TypeOK, TargetThere
<1> QED
  BY <1>1, <1>2, <1>3, <1>4, <1>5, <1>6, <1>7, <1>8 DEF IInv

LEMMA InsertAdminIInv ==
    ASSUME IInv, NEW r \in Request, InsertAdmin(r)
    PROVE  IInv'
<1> USE AccountsAssumption DEF InsertAdmin, InsertUser, Finish, Removing, SetupCompleted, rows, wizard
<1>1. TypeOK'
  <2>1. /\ registered' \subseteq User /\ founders' \subseteq registered'
        /\ admin' \subseteq registered' /\ active' \subseteq registered'
    BY DEF IInv, TypeOK, Steps, AboutNobody
  <2>2. /\ completed' \in Completion \cup {"absent"} /\ early' \in BOOLEAN
        /\ settings' \in {"absent", "wizard", "administrator"}
        /\ lock' \in Request \cup {NoRequest}
    BY DEF IInv, TypeOK
  <2>3. pc' \in [Request -> Steps]
    BY DEF IInv, TypeOK, Steps
  <2>4. /\ subject' \in [Request -> User \cup {NoUser}]
        /\ found' \in [Request -> SUBSET {"setup_completed", "others"}]
    BY DEF IInv, TypeOK
  <2>5. stale' \in [Request -> BOOLEAN]
    BY DEF IInv, TypeOK
  <2>6. ASSUME NEW q \in Request
        PROVE  /\ pc'[q] \notin AboutNobody => subject'[q] \in User
               /\ pc'[q] = "idle" => subject'[q] = NoUser /\ ~stale'[q]
    BY DEF IInv, TypeOK, Steps, AboutNobody
  <2> QED
    BY <2>1, <2>2, <2>3, <2>4, <2>5, <2>6 DEF TypeOK
<1>2. OneFounder'
  BY DEF IInv, TypeOK, OneFounder, CheckedUnderLock
<1>3. LockHeld'
  BY DEF IInv, TypeOK, LockHeld
<1>4. CheckedUnderLock'
  BY DEF IInv, TypeOK, LockHeld, CheckedUnderLock
<1>5. Origins'
  BY DEF IInv, TypeOK, CheckedUnderLock, Origins
<1>6. AnotherRemains'
  BY DEF IInv, TypeOK, AnotherRemains, AnotherAdmin, Admins
<1>7. StillOpen'
  BY DEF IInv, TypeOK, StillOpen
<1>8. TargetThere'
  BY DEF IInv, TypeOK, TargetThere
<1> QED
  BY <1>1, <1>2, <1>3, <1>4, <1>5, <1>6, <1>7, <1>8 DEF IInv

LEMMA FindCompletionIInv ==
    ASSUME IInv, NEW r \in Request, FindCompletion(r)
    PROVE  IInv'
<1> USE AccountsAssumption DEF FindCompletion, Finish, SetupCompleted, rows, wizard
<1>1. TypeOK'
  <2>1. /\ registered' \subseteq User /\ founders' \subseteq registered'
        /\ admin' \subseteq registered' /\ active' \subseteq registered'
    BY DEF IInv, TypeOK, Steps, AboutNobody
  <2>2. /\ completed' \in Completion \cup {"absent"} /\ early' \in BOOLEAN
        /\ settings' \in {"absent", "wizard", "administrator"}
        /\ lock' \in Request \cup {NoRequest}
    BY DEF IInv, TypeOK, Completion
  <2>3. pc' \in [Request -> Steps]
    BY DEF IInv, TypeOK, Steps
  <2>4. subject' \in [Request -> User \cup {NoUser}]
        /\ found' \in [Request -> SUBSET {"setup_completed", "others"}]
    BY PresentKeys DEF IInv, TypeOK
  <2>5. stale' \in [Request -> BOOLEAN]
    BY DEF IInv, TypeOK
  <2>6. ASSUME NEW q \in Request
        PROVE  /\ pc'[q] \notin AboutNobody => subject'[q] \in User
               /\ pc'[q] = "idle" => subject'[q] = NoUser /\ ~stale'[q]
    BY DEF IInv, TypeOK, Steps, AboutNobody
  <2> QED
    BY <2>1, <2>2, <2>3, <2>4, <2>5, <2>6 DEF TypeOK
<1>2. OneFounder'
  BY DEF IInv, TypeOK, OneFounder, CheckedUnderLock
<1>3. LockHeld'
  BY DEF IInv, TypeOK, LockHeld
<1>4. CheckedUnderLock'
  BY DEF IInv, TypeOK, LockHeld, CheckedUnderLock
<1>5. Origins'
  BY DEF IInv, TypeOK, CheckedUnderLock, Origins
<1>6. AnotherRemains'
  BY DEF IInv, TypeOK, AnotherRemains, AnotherAdmin, Admins
<1>7. StillOpen'
  BY DEF IInv, TypeOK, StillOpen
<1>8. TargetThere'
  BY DEF IInv, TypeOK, TargetThere
<1> QED
  BY <1>1, <1>2, <1>3, <1>4, <1>5, <1>6, <1>7, <1>8 DEF IInv

LEMMA CompleteSetupIInv ==
    ASSUME IInv, NEW r \in Request, CompleteSetup(r)
    PROVE  IInv'
<1> USE AccountsAssumption DEF CompleteSetup, Finish, SetupCompleted, rows, wizard
<1>1. TypeOK'
  <2>1. /\ registered' \subseteq User /\ founders' \subseteq registered'
        /\ admin' \subseteq registered' /\ active' \subseteq registered'
    BY DEF IInv, TypeOK, Steps, AboutNobody
  <2>2. /\ completed' \in Completion \cup {"absent"} /\ early' \in BOOLEAN
        /\ settings' \in {"absent", "wizard", "administrator"}
        /\ lock' \in Request \cup {NoRequest}
    BY DEF IInv, TypeOK, Completion
  <2>3. pc' \in [Request -> Steps]
    BY DEF IInv, TypeOK, Steps
  <2>4. subject' \in [Request -> User \cup {NoUser}]
        /\ found' \in [Request -> SUBSET {"setup_completed", "others"}]
    BY PresentKeys DEF IInv, TypeOK
  <2>5. stale' \in [Request -> BOOLEAN]
    BY DEF IInv, TypeOK
  <2>6. ASSUME NEW q \in Request
        PROVE  /\ pc'[q] \notin AboutNobody => subject'[q] \in User
               /\ pc'[q] = "idle" => subject'[q] = NoUser /\ ~stale'[q]
    BY DEF IInv, TypeOK, Steps, AboutNobody
  <2> QED
    BY <2>1, <2>2, <2>3, <2>4, <2>5, <2>6 DEF TypeOK
<1>2. OneFounder'
  BY DEF IInv, TypeOK, OneFounder, CheckedUnderLock
<1>3. LockHeld'
  BY DEF IInv, TypeOK, LockHeld
<1>4. CheckedUnderLock'
  BY DEF IInv, TypeOK, LockHeld, CheckedUnderLock
<1>5. Origins'
  BY DEF IInv, TypeOK, CheckedUnderLock, Origins
<1>6. AnotherRemains'
  BY DEF IInv, TypeOK, AnotherRemains, AnotherAdmin, Admins
<1>7. StillOpen'
  <2>1. ASSUME NEW q \in Request, pc'[q] = "saveSettings", ~stale'[q]
        PROVE  completed' # "true"
    <3>1. q # r /\ pc[q] = "saveSettings" /\ ~stale[q] /\ completed # "true"
      BY <2>1 DEF IInv, TypeOK, StillOpen
    <3>2. completed' = completed
      BY <2>1, <3>1 DEF IInv, TypeOK
    <3> QED
      BY <3>1, <3>2
  <2> QED
    BY <2>1 DEF StillOpen
<1>8. TargetThere'
  BY DEF IInv, TypeOK, TargetThere
<1> QED
  BY <1>1, <1>2, <1>3, <1>4, <1>5, <1>6, <1>7, <1>8 DEF IInv

LEMMA SaveSettingsIInv ==
    ASSUME IInv, NEW r \in Request, SaveSettings(r)
    PROVE  IInv'
<1> USE AccountsAssumption DEF SaveSettings, Finish, SetupCompleted, rows, wizard
<1>1. TypeOK'
  <2>1. /\ registered' \subseteq User /\ founders' \subseteq registered'
        /\ admin' \subseteq registered' /\ active' \subseteq registered'
    BY DEF IInv, TypeOK, Steps, AboutNobody
  <2>2. /\ completed' \in Completion \cup {"absent"} /\ early' \in BOOLEAN
        /\ settings' \in {"absent", "wizard", "administrator"}
        /\ lock' \in Request \cup {NoRequest}
    BY DEF IInv, TypeOK, Completion
  <2>3. pc' \in [Request -> Steps]
    BY DEF IInv, TypeOK, Steps
  <2>4. subject' \in [Request -> User \cup {NoUser}]
        /\ found' \in [Request -> SUBSET {"setup_completed", "others"}]
    BY PresentKeys DEF IInv, TypeOK
  <2>5. stale' \in [Request -> BOOLEAN]
    BY DEF IInv, TypeOK
  <2>6. ASSUME NEW q \in Request
        PROVE  /\ pc'[q] \notin AboutNobody => subject'[q] \in User
               /\ pc'[q] = "idle" => subject'[q] = NoUser /\ ~stale'[q]
    BY DEF IInv, TypeOK, Steps, AboutNobody
  <2> QED
    BY <2>1, <2>2, <2>3, <2>4, <2>5, <2>6 DEF TypeOK
<1>2. OneFounder'
  BY DEF IInv, TypeOK, OneFounder, CheckedUnderLock
<1>3. LockHeld'
  BY DEF IInv, TypeOK, LockHeld
<1>4. CheckedUnderLock'
  BY DEF IInv, TypeOK, LockHeld, CheckedUnderLock
<1>5. Origins'
  BY DEF IInv, TypeOK, CheckedUnderLock, Origins
<1>6. AnotherRemains'
  BY DEF IInv, TypeOK, AnotherRemains, AnotherAdmin, Admins
<1>7. StillOpen'
  BY DEF IInv, TypeOK, StillOpen
<1>8. TargetThere'
  BY DEF IInv, TypeOK, TargetThere
<1> QED
  BY <1>1, <1>2, <1>3, <1>4, <1>5, <1>6, <1>7, <1>8 DEF IInv

LEMMA UpdateSettingsIInv ==
    ASSUME IInv, NEW r \in Request, UpdateSettings(r)
    PROVE  IInv'
<1> USE AccountsAssumption DEF SetupCompleted, rows, wizard
<1>a. PICK sent \in SUBSET {"setup_completed", "others"}, value \in Completion :
         IF sent \cap Present \subseteq found[r]
         THEN /\ completed' = IF "setup_completed" \in sent THEN value ELSE completed
              /\ settings' = IF "others" \in sent THEN "administrator" ELSE settings
              /\ Finish(r, IF completed' = "true" THEN {"saveSettings"} ELSE {})
         ELSE UNCHANGED <<completed, settings>> /\ Finish(r, {})
  BY DEF UpdateSettings
<1>b. PICK passed \in SUBSET {"saveSettings"} :
         Finish(r, passed) /\ (completed' = "true" => completed = "true" \/ passed = {"saveSettings"})
  BY <1>a
<1>c. /\ pc[r] = "updateSettings" /\ UNCHANGED <<rows, lock, founders, early>>
      /\ completed' \in Completion \cup {"absent"}
      /\ settings' \in {"absent", "wizard", "administrator"}
  BY <1>a DEF UpdateSettings, IInv, TypeOK
<1> USE <1>b, <1>c DEF Finish
<1>1. TypeOK'
  <2>1. /\ registered' \subseteq User /\ founders' \subseteq registered'
        /\ admin' \subseteq registered' /\ active' \subseteq registered'
    BY DEF IInv, TypeOK, Steps, AboutNobody
  <2>2. /\ completed' \in Completion \cup {"absent"} /\ early' \in BOOLEAN
        /\ settings' \in {"absent", "wizard", "administrator"}
        /\ lock' \in Request \cup {NoRequest}
    BY DEF IInv, TypeOK, Completion
  <2>3. pc' \in [Request -> Steps]
    BY DEF IInv, TypeOK, Steps
  <2>4. subject' \in [Request -> User \cup {NoUser}]
        /\ found' \in [Request -> SUBSET {"setup_completed", "others"}]
    BY PresentKeys DEF IInv, TypeOK
  <2>5. stale' \in [Request -> BOOLEAN]
    BY DEF IInv, TypeOK
  <2>6. ASSUME NEW q \in Request
        PROVE  /\ pc'[q] \notin AboutNobody => subject'[q] \in User
               /\ pc'[q] = "idle" => subject'[q] = NoUser /\ ~stale'[q]
    BY DEF IInv, TypeOK, Steps, AboutNobody
  <2> QED
    BY <2>1, <2>2, <2>3, <2>4, <2>5, <2>6 DEF TypeOK
<1>2. OneFounder'
  BY DEF IInv, TypeOK, OneFounder, CheckedUnderLock
<1>3. LockHeld'
  BY DEF IInv, TypeOK, LockHeld
<1>4. CheckedUnderLock'
  BY DEF IInv, TypeOK, LockHeld, CheckedUnderLock
<1>5. Origins'
  BY DEF IInv, TypeOK, CheckedUnderLock, Origins
<1>6. AnotherRemains'
  BY DEF IInv, TypeOK, AnotherRemains, AnotherAdmin, Admins
<1>7. StillOpen'
  BY DEF IInv, TypeOK, StillOpen
<1>8. TargetThere'
  BY DEF IInv, TypeOK, TargetThere
<1> QED
  BY <1>1, <1>2, <1>3, <1>4, <1>5, <1>6, <1>7, <1>8 DEF IInv

LEMMA ReadPromotedIInv ==
    ASSUME IInv, NEW r \in Request, ReadPromoted(r)
    PROVE  IInv'
<1> USE AccountsAssumption DEF ReadPromoted, GoTo, Finish, SetupCompleted, rows, wizard
<1>1. TypeOK'
  BY DEF IInv, TypeOK, Steps, AboutNobody
<1>2. OneFounder'
  BY DEF IInv, TypeOK, OneFounder, CheckedUnderLock
<1>3. LockHeld'
  BY DEF IInv, TypeOK, LockHeld
<1>4. CheckedUnderLock'
  BY DEF IInv, TypeOK, LockHeld, CheckedUnderLock
<1>5. Origins'
  BY DEF IInv, TypeOK, CheckedUnderLock, Origins
<1>6. AnotherRemains'
  BY DEF IInv, TypeOK, AnotherRemains, AnotherAdmin, Admins
<1>7. StillOpen'
  BY DEF IInv, TypeOK, StillOpen
<1>8. TargetThere'
  BY DEF IInv, TypeOK, TargetThere
<1> QED
  BY <1>1, <1>2, <1>3, <1>4, <1>5, <1>6, <1>7, <1>8 DEF IInv

LEMMA ReadDemotedIInv ==
    ASSUME IInv, NEW r \in Request, ReadDemoted(r)
    PROVE  IInv'
<1> USE AccountsAssumption DEF ReadDemoted, GoTo, Finish, SetupCompleted, rows, wizard
<1>1. TypeOK'
  BY DEF IInv, TypeOK, Steps, AboutNobody
<1>2. OneFounder'
  BY DEF IInv, TypeOK, OneFounder, CheckedUnderLock
<1>3. LockHeld'
  BY DEF IInv, TypeOK, LockHeld
<1>4. CheckedUnderLock'
  BY DEF IInv, TypeOK, LockHeld, CheckedUnderLock
<1>5. Origins'
  BY DEF IInv, TypeOK, CheckedUnderLock, Origins
<1>6. AnotherRemains'
  BY DEF IInv, TypeOK, AnotherRemains, AnotherAdmin, Admins
<1>7. StillOpen'
  BY DEF IInv, TypeOK, StillOpen
<1>8. TargetThere'
  BY DEF IInv, TypeOK, TargetThere
<1> QED
  BY <1>1, <1>2, <1>3, <1>4, <1>5, <1>6, <1>7, <1>8 DEF IInv

LEMMA CountDemoteIInv ==
    ASSUME IInv, NEW r \in Request, CountDemote(r)
    PROVE  IInv'
<1> USE AccountsAssumption DEF CountDemote, CountAdmins, LastAdmin, GoTo, Finish, SetupCompleted, rows, wizard
<1>1. TypeOK'
  <2>1. /\ registered' \subseteq User /\ founders' \subseteq registered'
        /\ admin' \subseteq registered' /\ active' \subseteq registered'
    BY DEF IInv, TypeOK, Steps, AboutNobody
  <2>2. /\ completed' \in Completion \cup {"absent"} /\ early' \in BOOLEAN
        /\ settings' \in {"absent", "wizard", "administrator"}
        /\ lock' \in Request \cup {NoRequest}
    BY DEF IInv, TypeOK
  <2>3. pc' \in [Request -> Steps]
    BY DEF IInv, TypeOK, Steps
  <2>4. /\ subject' \in [Request -> User \cup {NoUser}]
        /\ found' \in [Request -> SUBSET {"setup_completed", "others"}]
    BY DEF IInv, TypeOK
  <2>5. stale' \in [Request -> BOOLEAN]
    BY DEF IInv, TypeOK
  <2>6. ASSUME NEW q \in Request
        PROVE  /\ pc'[q] \notin AboutNobody => subject'[q] \in User
               /\ pc'[q] = "idle" => subject'[q] = NoUser /\ ~stale'[q]
    BY DEF IInv, TypeOK, Steps, AboutNobody
  <2> QED
    BY <2>1, <2>2, <2>3, <2>4, <2>5, <2>6 DEF TypeOK
<1>2. OneFounder'
  BY DEF IInv, TypeOK, OneFounder, CheckedUnderLock
<1>3. LockHeld'
  BY DEF IInv, TypeOK, LockHeld
<1>4. CheckedUnderLock'
  BY DEF IInv, TypeOK, LockHeld, CheckedUnderLock
<1>5. Origins'
  BY DEF IInv, TypeOK, CheckedUnderLock, Origins
<1>6. AnotherRemains'
  BY DEF IInv, TypeOK, AnotherRemains, AnotherAdmin, Admins
<1>7. StillOpen'
  BY DEF IInv, TypeOK, StillOpen
<1>8. TargetThere'
  BY DEF IInv, TypeOK, TargetThere
<1> QED
  BY <1>1, <1>2, <1>3, <1>4, <1>5, <1>6, <1>7, <1>8 DEF IInv

LEMMA CountDeactivateIInv ==
    ASSUME IInv, NEW r \in Request, CountDeactivate(r)
    PROVE  IInv'
<1> USE AccountsAssumption DEF CountDeactivate, CountAdmins, LastAdmin, GoTo, Finish,
                               SetupCompleted, rows, wizard
<1>1. TypeOK'
  <2>1. /\ registered' \subseteq User /\ founders' \subseteq registered'
        /\ admin' \subseteq registered' /\ active' \subseteq registered'
    BY DEF IInv, TypeOK, Steps, AboutNobody
  <2>2. /\ completed' \in Completion \cup {"absent"} /\ early' \in BOOLEAN
        /\ settings' \in {"absent", "wizard", "administrator"}
        /\ lock' \in Request \cup {NoRequest}
    BY DEF IInv, TypeOK
  <2>3. pc' \in [Request -> Steps]
    BY DEF IInv, TypeOK, Steps
  <2>4. /\ subject' \in [Request -> User \cup {NoUser}]
        /\ found' \in [Request -> SUBSET {"setup_completed", "others"}]
    BY DEF IInv, TypeOK
  <2>5. stale' \in [Request -> BOOLEAN]
    BY DEF IInv, TypeOK
  <2>6. ASSUME NEW q \in Request
        PROVE  /\ pc'[q] \notin AboutNobody => subject'[q] \in User
               /\ pc'[q] = "idle" => subject'[q] = NoUser /\ ~stale'[q]
    BY DEF IInv, TypeOK, Steps, AboutNobody
  <2> QED
    BY <2>1, <2>2, <2>3, <2>4, <2>5, <2>6 DEF TypeOK
<1>2. OneFounder'
  BY DEF IInv, TypeOK, OneFounder, CheckedUnderLock
<1>3. LockHeld'
  BY DEF IInv, TypeOK, LockHeld
<1>4. CheckedUnderLock'
  BY DEF IInv, TypeOK, LockHeld, CheckedUnderLock
<1>5. Origins'
  BY DEF IInv, TypeOK, CheckedUnderLock, Origins
<1>6. AnotherRemains'
  BY DEF IInv, TypeOK, AnotherRemains, AnotherAdmin, Admins
<1>7. StillOpen'
  BY DEF IInv, TypeOK, StillOpen
<1>8. TargetThere'
  BY DEF IInv, TypeOK, TargetThere
<1> QED
  BY <1>1, <1>2, <1>3, <1>4, <1>5, <1>6, <1>7, <1>8 DEF IInv

LEMMA PromoteIInv ==
    ASSUME IInv, NEW r \in Request, Promote(r)
    PROVE  IInv'
<1> USE AccountsAssumption DEF Promote, Finish, Removing, SetupCompleted, rows, wizard
<1>1. TypeOK'
  <2>1. admin' \subseteq registered' /\ active' \subseteq registered'
    BY DEF IInv, TypeOK, TargetThere
  <2>2. stale' \in [Request -> BOOLEAN]
    BY DEF IInv, TypeOK
  <2>3. pc' \in [Request -> Steps]
    BY DEF IInv, TypeOK, Steps
  <2>4. /\ subject' \in [Request -> User \cup {NoUser}]
        /\ found' \in [Request -> SUBSET {"setup_completed", "others"}]
    BY DEF IInv, TypeOK
  <2>5. ASSUME NEW q \in Request
        PROVE  /\ pc'[q] \notin AboutNobody => subject'[q] \in User
               /\ pc'[q] = "idle" => subject'[q] = NoUser /\ ~stale'[q]
    BY DEF IInv, TypeOK, AboutNobody
  <2> QED
    BY <2>1, <2>2, <2>3, <2>4, <2>5 DEF IInv, TypeOK
<1>2. OneFounder'
  BY DEF IInv, TypeOK, OneFounder, CheckedUnderLock
<1>3. LockHeld'
  BY DEF IInv, TypeOK, LockHeld
<1>4. CheckedUnderLock'
  BY DEF IInv, TypeOK, LockHeld, CheckedUnderLock
<1>5. Origins'
  BY DEF IInv, TypeOK, CheckedUnderLock, Origins
<1>6. AnotherRemains'
  BY DEF IInv, TypeOK, AnotherRemains, AnotherAdmin, Admins
<1>7. StillOpen'
  BY DEF IInv, TypeOK, StillOpen
<1>8. TargetThere'
  BY DEF IInv, TypeOK, TargetThere
<1> QED
  BY <1>1, <1>2, <1>3, <1>4, <1>5, <1>6, <1>7, <1>8 DEF IInv

LEMMA DemoteIInv ==
    ASSUME IInv, NEW r \in Request, Demote(r)
    PROVE  IInv'
<1> USE AccountsAssumption DEF Demote, Finish, Removing, SetupCompleted, rows, wizard
<1>1. TypeOK'
  BY DEF IInv, TypeOK, Steps, AboutNobody
<1>2. OneFounder'
  BY DEF IInv, TypeOK, OneFounder, CheckedUnderLock
<1>3. LockHeld'
  BY DEF IInv, TypeOK, LockHeld
<1>4. CheckedUnderLock'
  BY DEF IInv, TypeOK, LockHeld, CheckedUnderLock
<1>5. Origins'
  BY DEF IInv, TypeOK, CheckedUnderLock, Origins
<1>6. AnotherRemains'
  BY DEF IInv, TypeOK, AnotherRemains, AnotherAdmin, Admins
<1>7. StillOpen'
  BY DEF IInv, TypeOK, StillOpen
<1>8. TargetThere'
  BY DEF IInv, TypeOK, TargetThere
<1> QED
  BY <1>1, <1>2, <1>3, <1>4, <1>5, <1>6, <1>7, <1>8 DEF IInv

LEMMA DeactivateIInv ==
    ASSUME IInv, NEW r \in Request, Deactivate(r)
    PROVE  IInv'
<1> USE AccountsAssumption DEF Deactivate, Finish, Removing, SetupCompleted, rows, wizard
<1>1. TypeOK'
  BY DEF IInv, TypeOK, Steps, AboutNobody
<1>2. OneFounder'
  BY DEF IInv, TypeOK, OneFounder, CheckedUnderLock
<1>3. LockHeld'
  BY DEF IInv, TypeOK, LockHeld
<1>4. CheckedUnderLock'
  BY DEF IInv, TypeOK, LockHeld, CheckedUnderLock
<1>5. Origins'
  BY DEF IInv, TypeOK, CheckedUnderLock, Origins
<1>6. AnotherRemains'
  BY DEF IInv, TypeOK, AnotherRemains, AnotherAdmin, Admins
<1>7. StillOpen'
  BY DEF IInv, TypeOK, StillOpen
<1>8. TargetThere'
  BY DEF IInv, TypeOK, TargetThere
<1> QED
  BY <1>1, <1>2, <1>3, <1>4, <1>5, <1>6, <1>7, <1>8 DEF IInv

LEMMA StutterIInv == IInv /\ UNCHANGED vars => IInv'
  BY DEF IInv, TypeOK, OneFounder, LockHeld, CheckedUnderLock, Origins, AnotherRemains,
         AnotherAdmin, Admins, StillOpen, TargetThere, SetupCompleted, vars, rows, wizard, locals

LEMMA NextIInv == IInv /\ [Next]_vars => IInv'
<1> SUFFICES ASSUME IInv, Next PROVE IInv'
  BY StutterIInv
<1>1. PICK r \in Request : Begin(r) \/ Locking(r) \/ Step(r)
  BY DEF Next
<1>2. CASE Begin(r)
  BY <1>2, BeginRegisterIInv, BeginGoogleIInv, RequestAdminIInv, RequestCompleteIInv,
     BeginSaveSettingsIInv, BeginUpdateSettingsIInv, BeginRoleIInv, BeginDeactivateIInv
     DEF Begin
<1>3. CASE Locking(r)
  BY <1>3, CheckSetupAdminIInv, CheckCompleteIInv DEF Locking
<1>4. CASE Step(r)
  BY <1>4, RegisterIInv, InsertGoogleIInv, InsertAdminIInv, FindCompletionIInv,
     CompleteSetupIInv, SaveSettingsIInv, UpdateSettingsIInv, ReadPromotedIInv, ReadDemotedIInv,
     CountDemoteIInv, CountDeactivateIInv, PromoteIInv, DemoteIInv, DeactivateIInv
     DEF Step
<1> QED
  BY <1>1, <1>2, <1>3, <1>4

THEOREM Invariance == Spec => []IInv
  BY InitIInv, NextIInv, PTL DEF Spec

\* Type correctness of accounts, wizard and handlers.
THEOREM TypeCorrect == Spec => []TypeOK
<1>1. IInv => TypeOK
  BY DEF IInv
<1> QED
  BY <1>1, Invariance, PTL

\* The wizard creates one administrator (api/setup.py: create_setup_admin).
THEOREM WizardCreatesOne == Spec => []OneFounder
<1>1. IInv => OneFounder
  BY DEF IInv
<1> QED
  BY <1>1, Invariance, PTL

\* The setup is completed after its administrator was created, unless an
\* account came from elsewhere first (api/setup.py: complete_setup).
THEOREM CompletionFollows == Spec => []CompletedAfterFounder
<1>1. IInv => CompletedAfterFounder
  BY DEF IInv, Origins, CompletedAfterFounder
<1> QED
  BY <1>1, Invariance, PTL

\* A step that leaves no active administrator was overtaken.
LEMMA LastAdminStep ==
    ASSUME IInv, Next, Admins # {}, Admins' = {}
    PROVE  \E r \in Request : pc[r] \in Removing /\ stale[r] /\ pc'[r] = "idle"
<1>1. PICK r \in Request : Begin(r) \/ Locking(r) \/ Step(r)
  BY DEF Next
<1>2. Demote(r) \/ Deactivate(r)
  <2>1. \E u \in Admins : u \notin admin' \/ u \notin active'
    BY DEF Admins
  <2>2. ~ Begin(r)
    BY <2>1 DEF Begin, BeginRegister, BeginGoogle, RequestAdmin, BeginDeactivate,
                BeginUpdateSettings, BeginRole, RequestComplete, BeginSaveSettings, rows, Admins
  <2>3. ~ Locking(r)
    BY <2>1 DEF Locking, CheckSetupAdmin, CheckComplete, rows, Admins
  <2>4. CASE Step(r)
    BY <2>1, <2>4 DEF Step, Register, InsertGoogle, InsertAdmin, InsertUser, FindCompletion, CompleteSetup,
                SaveSettings, UpdateSettings, ReadPromoted, Promote, ReadDemoted,
                CountDemote, CountDeactivate, CountAdmins, rows, Admins
  <2> QED
    BY <1>1, <2>2, <2>3, <2>4
<1>3. pc[r] \in Removing /\ pc'[r] = "idle"
  BY <1>2 DEF Demote, Deactivate, Finish, Removing, IInv, TypeOK
<1>4. stale[r]
  BY <1>2 DEF Demote, Deactivate, IInv, TypeOK, AnotherRemains, AnotherAdmin, Admins
<1> QED
  BY <1>3, <1>4

\* The last active administrator is lost only to a request that was overtaken
\* (services/user_service.py: deactivate_user, update_user_role).
THEOREM AdminRemains == Spec => AdminRemainsUnlessRaced
<1>1. IInv /\ [Next]_vars =>
        [Admins # {} /\ Admins' = {} =>
           \E r \in Request : pc[r] \in Removing /\ stale[r] /\ pc'[r] = "idle"]_vars
  BY LastAdminStep
<1> QED
  BY <1>1, Invariance, PTL DEF Spec, AdminRemainsUnlessRaced

\* A step that overwrites the settings of a completed setup was overtaken.
LEMMA SettingsStep ==
    ASSUME IInv, Next, SetupCompleted, settings' # settings, settings' = "wizard"
    PROVE  \E r \in Request : pc[r] = "saveSettings" /\ stale[r] /\ pc'[r] = "idle"
<1>1. PICK r \in Request : Begin(r) \/ Locking(r) \/ Step(r)
  BY DEF Next
<1>2. SaveSettings(r)
  <2>1. ~ Begin(r)
    BY DEF Begin, BeginRegister, BeginGoogle, RequestAdmin, BeginDeactivate,
           BeginUpdateSettings, BeginRole, RequestComplete, BeginSaveSettings, wizard
  <2>2. ~ Locking(r)
    BY DEF Locking, CheckSetupAdmin, CheckComplete
  <2>3. CASE Step(r)
    BY <2>3 DEF Step, Register, InsertGoogle, InsertAdmin, FindCompletion, CompleteSetup,
                UpdateSettings, ReadPromoted, Promote, ReadDemoted, CountDemote, CountDeactivate,
                CountAdmins, Demote, Deactivate, wizard
  <2> QED
    BY <1>1, <2>1, <2>2, <2>3
<1>3. pc[r] = "saveSettings" /\ pc'[r] = "idle"
  BY <1>2 DEF SaveSettings, Finish, IInv, TypeOK
<1> QED
  BY <1>3 DEF IInv, StillOpen

\* The wizard overwrites the settings of a completed setup only when it was
\* overtaken by the completion (api/setup.py: save_setup_settings).
THEOREM SettingsFrozen == Spec => SettingsFrozenUnlessStale
<1>1. IInv /\ [Next]_vars =>
        [SetupCompleted /\ settings' # settings /\ settings' = "wizard" =>
           \E r \in Request : pc[r] = "saveSettings" /\ stale[r] /\ pc'[r] = "idle"]_vars
  BY SettingsStep
<1> QED
  BY <1>1, Invariance, PTL DEF Spec, SettingsFrozenUnlessStale

-----------------------------------------------------------------------------
\* Sessions.  A request that compares keys has shown one, and the key is active
\* as long as the request is not overtaken; then it is so when the request acts.
ComparesAKey ==
    \A r \in Request : door[r] = "compare" =>
       shown[r] \in ApiKey /\ (revoked[r] \/ key[shown[r]] = "active")

SInv == S!TypeOK /\ ComparesAKey /\ ActsUnlessRevoked

LEMMA WrongStaysBounded ==
    /\ 0 \in 0 .. MAX_WRONG
    /\ \A n \in 0 .. MAX_WRONG : n < MAX_WRONG => n + 1 \in 0 .. MAX_WRONG
  BY BoundsAssumption

LEMMA InitSInv == S!Init => SInv
<1> SUFFICES ASSUME S!Init PROVE SInv
  OBVIOUS
<1>1. S!TypeOK
  <2>1. wrong \in 0 .. MAX_WRONG
    BY WrongStaysBounded DEF S!Init
  <2> QED
    BY <2>1 DEF S!Init, S!TypeOK, S!Nothing
<1>2. ComparesAKey /\ ActsUnlessRevoked
  BY DEF S!Init, ComparesAKey, ActsUnlessRevoked, S!ActsUnlessRevoked
<1> QED
  BY <1>1, <1>2 DEF SInv

LEMMA BeginLoginSInv ==
    ASSUME SInv, NEW r \in Request, S!BeginLogin(r)
    PROVE  SInv'
<1> USE DEF S!BeginLogin, S!account, S!credentials, S!locals, S!Nothing
<1>1. S!TypeOK'
  BY DEF SInv, S!TypeOK
<1>2. ComparesAKey'
  BY DEF SInv, S!TypeOK, ComparesAKey
<1>3. ActsUnlessRevoked'
  BY DEF SInv, S!TypeOK, ComparesAKey, ActsUnlessRevoked, S!ActsUnlessRevoked
<1> QED
  BY <1>1, <1>2, <1>3 DEF SInv

LEMMA WrongPasswordSInv ==
    ASSUME SInv, NEW r \in Request, S!WrongPassword(r)
    PROVE  SInv'
<1> USE DEF S!WrongPassword, S!Leave, S!account, S!credentials, S!locals, S!Nothing
<1>1. S!TypeOK'
  <2>1. wrong' \in 0 .. MAX_WRONG
    BY WrongStaysBounded DEF SInv, S!TypeOK
  <2> QED
    BY <2>1 DEF SInv, S!TypeOK
<1>2. ComparesAKey'
  BY DEF SInv, S!TypeOK, ComparesAKey
<1>3. ActsUnlessRevoked'
  BY DEF SInv, S!TypeOK, ComparesAKey, ActsUnlessRevoked, S!ActsUnlessRevoked
<1> QED
  BY <1>1, <1>2, <1>3 DEF SInv

LEMMA RightPasswordSInv ==
    ASSUME SInv, NEW r \in Request, S!RightPassword(r)
    PROVE  SInv'
<1> USE DEF S!RightPassword, S!Leave, S!NewSession, S!account, S!credentials, S!locals, S!Nothing
<1>1. S!TypeOK'
  <2>1. wrong' \in 0 .. MAX_WRONG
    BY WrongStaysBounded DEF SInv, S!TypeOK
  <2> QED
    BY <2>1 DEF SInv, S!TypeOK
<1>2. ComparesAKey'
  BY DEF SInv, S!TypeOK, ComparesAKey
<1>3. ActsUnlessRevoked'
  BY DEF SInv, S!TypeOK, ComparesAKey, ActsUnlessRevoked, S!ActsUnlessRevoked
<1> QED
  BY <1>1, <1>2, <1>3 DEF SInv

LEMMA BeginByAccessTokenSInv ==
    ASSUME SInv, NEW r \in Request, S!BeginByAccessToken(r)
    PROVE  SInv'
<1> USE ApiKeysAssumption DEF S!BeginByAccessToken, S!account, S!credentials, S!locals, S!Nothing
<1>1. S!TypeOK'
  BY DEF SInv, S!TypeOK
<1>2. ComparesAKey'
  BY DEF SInv, S!TypeOK, ComparesAKey
<1>3. ActsUnlessRevoked'
  BY DEF SInv, S!TypeOK, ComparesAKey, ActsUnlessRevoked, S!ActsUnlessRevoked
<1> QED
  BY <1>1, <1>2, <1>3 DEF SInv

LEMMA FindKeyOwnerSInv ==
    ASSUME SInv, NEW r \in Request, S!FindKeyOwner(r)
    PROVE  SInv'
<1> USE DEF S!FindKeyOwner, S!Leave, S!account, S!credentials, S!locals, S!Nothing
<1>1. S!TypeOK'
  <2>1. CASE enabled
    <3>1. door' = [door EXCEPT ![r] = "act"] /\ UNCHANGED <<shown, revoked>>
      BY <2>1
    <3> QED
      BY <2>1, <3>1 DEF SInv, S!TypeOK
  <2>2. CASE ~enabled
    <3>1. S!Leave(r)
      BY <2>2
    <3> QED
      BY <2>2, <3>1 DEF SInv, S!TypeOK
  <2> QED
    BY <2>1, <2>2
<1>2. ComparesAKey'
  <2>1. CASE enabled
    <3>1. door' = [door EXCEPT ![r] = "act"] /\ UNCHANGED <<shown, revoked>>
      BY <2>1
    <3> QED
      BY <2>1, <3>1 DEF SInv, S!TypeOK, ComparesAKey
  <2>2. CASE ~enabled
    <3>1. S!Leave(r)
      BY <2>2
    <3> QED
      BY <2>2, <3>1 DEF SInv, S!TypeOK, ComparesAKey
  <2> QED
    BY <2>1, <2>2
<1>3. ActsUnlessRevoked'
  <2>1. CASE enabled
    <3>1. door' = [door EXCEPT ![r] = "act"] /\ UNCHANGED <<shown, revoked>>
      BY <2>1
    <3> QED
      BY <2>1, <3>1 DEF SInv, S!TypeOK, ComparesAKey, ActsUnlessRevoked, S!ActsUnlessRevoked
  <2>2. CASE ~enabled
    <3>1. S!Leave(r)
      BY <2>2
    <3> QED
      BY <2>2, <3>1 DEF SInv, S!TypeOK, ComparesAKey, ActsUnlessRevoked, S!ActsUnlessRevoked
  <2> QED
    BY <2>1, <2>2
<1> QED
  BY <1>1, <1>2, <1>3 DEF SInv

LEMMA ActSInv ==
    ASSUME SInv, NEW r \in Request, S!Act(r)
    PROVE  SInv'
<1> USE DEF S!Act, S!Leave, S!account, S!credentials, S!locals, S!Nothing
<1>1. S!TypeOK'
  BY DEF SInv, S!TypeOK
<1>2. ComparesAKey'
  BY DEF SInv, S!TypeOK, ComparesAKey
<1>3. ActsUnlessRevoked'
  BY DEF SInv, S!TypeOK, ComparesAKey, ActsUnlessRevoked, S!ActsUnlessRevoked
<1> QED
  BY <1>1, <1>2, <1>3 DEF SInv

LEMMA BeginByKeySInv ==
    ASSUME SInv, NEW r \in Request, NEW k \in ApiKey, S!BeginByKey(r, k)
    PROVE  SInv'
<1> USE ApiKeysAssumption DEF S!BeginByKey, S!account, S!credentials, S!locals, S!Nothing
<1>1. S!TypeOK'
  BY DEF SInv, S!TypeOK
<1>2. ComparesAKey'
  BY DEF SInv, S!TypeOK, ComparesAKey
<1>3. ActsUnlessRevoked'
  BY DEF SInv, S!TypeOK, ComparesAKey, ActsUnlessRevoked, S!ActsUnlessRevoked
<1> QED
  BY <1>1, <1>2, <1>3 DEF SInv

LEMMA CreateKeySInv ==
    ASSUME SInv, NEW k \in ApiKey, S!CreateKey(k)
    PROVE  SInv'
<1> USE DEF S!CreateKey, S!account, S!credentials, S!locals, S!Nothing
<1>1. S!TypeOK'
  BY DEF SInv, S!TypeOK
<1>2. ComparesAKey'
  BY DEF SInv, S!TypeOK, ComparesAKey
<1>3. ActsUnlessRevoked'
  BY DEF SInv, S!TypeOK, ComparesAKey, ActsUnlessRevoked, S!ActsUnlessRevoked
<1> QED
  BY <1>1, <1>2, <1>3 DEF SInv

LEMMA DeleteKeySInv ==
    ASSUME SInv, NEW k \in ApiKey, S!DeleteKey(k)
    PROVE  SInv'
<1> USE DEF S!DeleteKey, S!Overtake, S!account, S!credentials, S!locals, S!Nothing
<1>1. S!TypeOK'
  BY DEF SInv, S!TypeOK
<1>2. ComparesAKey'
  BY DEF SInv, S!TypeOK, ComparesAKey
<1>3. ActsUnlessRevoked'
  BY DEF SInv, S!TypeOK, ComparesAKey, ActsUnlessRevoked, S!ActsUnlessRevoked
<1> QED
  BY <1>1, <1>2, <1>3 DEF SInv

LEMMA ExpireSInv ==
    ASSUME SInv, NEW t \in Token, S!Expire(t)
    PROVE  SInv'
<1> USE DEF S!Expire, S!account, S!credentials, S!locals, S!Nothing
<1>1. S!TypeOK'
  BY DEF SInv, S!TypeOK
<1>2. ComparesAKey'
  BY DEF SInv, S!TypeOK, ComparesAKey
<1>3. ActsUnlessRevoked'
  BY DEF SInv, S!TypeOK, ComparesAKey, ActsUnlessRevoked, S!ActsUnlessRevoked
<1> QED
  BY <1>1, <1>2, <1>3 DEF SInv

LEMMA RevokeSessionSInv ==
    ASSUME SInv, NEW t \in Token, S!RevokeSession(t)
    PROVE  SInv'
<1> USE DEF S!RevokeSession, S!account, S!credentials, S!locals, S!Nothing
<1>1. S!TypeOK'
  BY DEF SInv, S!TypeOK
<1>2. ComparesAKey'
  BY DEF SInv, S!TypeOK, ComparesAKey
<1>3. ActsUnlessRevoked'
  BY DEF SInv, S!TypeOK, ComparesAKey, ActsUnlessRevoked, S!ActsUnlessRevoked
<1> QED
  BY <1>1, <1>2, <1>3 DEF SInv

LEMMA RefreshSInv ==
    ASSUME SInv, S!Refresh
    PROVE  SInv'
<1> USE DEF S!Refresh, S!account, S!credentials, S!locals, S!Nothing
<1>1. S!TypeOK'
  BY DEF SInv, S!TypeOK
<1>2. ComparesAKey'
  BY DEF SInv, S!TypeOK, ComparesAKey
<1>3. ActsUnlessRevoked'
  BY DEF SInv, S!TypeOK, ComparesAKey, ActsUnlessRevoked, S!ActsUnlessRevoked
<1> QED
  BY <1>1, <1>2, <1>3 DEF SInv

LEMMA ExpireAccessSInv ==
    ASSUME SInv, S!ExpireAccess
    PROVE  SInv'
<1> USE DEF S!ExpireAccess, S!account, S!credentials, S!locals, S!Nothing
<1>1. S!TypeOK'
  BY DEF SInv, S!TypeOK
<1>2. ComparesAKey'
  BY DEF SInv, S!TypeOK, ComparesAKey
<1>3. ActsUnlessRevoked'
  BY DEF SInv, S!TypeOK, ComparesAKey, ActsUnlessRevoked, S!ActsUnlessRevoked
<1> QED
  BY <1>1, <1>2, <1>3 DEF SInv

LEMMA LogoutSInv ==
    ASSUME SInv, S!Logout
    PROVE  SInv'
<1> USE DEF S!Logout, S!account, S!credentials, S!locals, S!Nothing
<1>1. S!TypeOK'
  BY DEF SInv, S!TypeOK
<1>2. ComparesAKey'
  BY DEF SInv, S!TypeOK, ComparesAKey
<1>3. ActsUnlessRevoked'
  BY DEF SInv, S!TypeOK, ComparesAKey, ActsUnlessRevoked, S!ActsUnlessRevoked
<1> QED
  BY <1>1, <1>2, <1>3 DEF SInv

LEMMA DeactivateSInv ==
    ASSUME SInv, S!Deactivate
    PROVE  SInv'
<1> USE DEF S!Deactivate, S!Overtake, S!account, S!credentials, S!locals, S!Nothing
<1>1. S!TypeOK'
  BY DEF SInv, S!TypeOK
<1>2. ComparesAKey'
  BY DEF SInv, S!TypeOK, ComparesAKey
<1>3. ActsUnlessRevoked'
  BY DEF SInv, S!TypeOK, ComparesAKey, ActsUnlessRevoked, S!ActsUnlessRevoked
<1> QED
  BY <1>1, <1>2, <1>3 DEF SInv

LEMMA NextSInv == SInv /\ [S!Next]_(S!vars) => SInv'
<1>1. ASSUME SInv, UNCHANGED S!vars PROVE SInv'
  <2> USE <1>1 DEF SInv, S!vars, S!account, S!credentials, S!locals
  <2>1. S!TypeOK'
    BY DEF S!TypeOK
  <2>2. ComparesAKey' /\ ActsUnlessRevoked'
    BY DEF ComparesAKey, ActsUnlessRevoked, S!ActsUnlessRevoked
  <2> QED
    BY <2>1, <2>2
<1> SUFFICES ASSUME SInv, S!Next PROVE SInv'
  BY <1>1
<1> QED
  BY BeginLoginSInv, WrongPasswordSInv, RightPasswordSInv, BeginByAccessTokenSInv,
     FindKeyOwnerSInv, ActSInv, BeginByKeySInv, CreateKeySInv, DeleteKeySInv, ExpireSInv,
     RevokeSessionSInv, RefreshSInv, ExpireAccessSInv, LogoutSInv, DeactivateSInv DEF S!Next

\* Type correctness of the sessions (services/auth_service.py, api/sessions.py).
THEOREM SessionsTypeCorrect == S!Spec => []S!TypeOK
<1>1. SInv => S!TypeOK
  BY DEF SInv
<1> QED
  BY <1>1, InitSInv, NextSInv, PTL DEF S!Spec

\* A request acts for an active account, with a key that was not deleted, unless
\* the one or the other was taken away after it had been read (api/deps.py:
\* get_current_user, mcp/tools/common.py: _get_user_by_api_key).
THEOREM ActsWhileAllowed == S!Spec => []ActsUnlessRevoked
<1>1. SInv => ActsUnlessRevoked
  BY DEF SInv
<1> QED
  BY <1>1, InitSInv, NextSInv, PTL DEF S!Spec

-----------------------------------------------------------------------------
\* The request client.

\* failedQueue holds the calls that wait.
WaitingQueued == \A c \in Call : call[c] = "waiting" <=> c \in failedQueue

\* isRefreshing: one call refreshes, or none.
RefreshUnderWay ==
    /\ isRefreshing <=> \E c \in Call : call[c] = "refreshing"
    /\ \A c, d \in Call : call[c] = "refreshing" /\ call[d] = "refreshing" => c = d
    /\ failedQueue # {} => isRefreshing

\* Who is rejected was refused a second time after a refresh of its own, or had no
\* session or refresh.
RejectedForCause == rejected \subseteq retry \cup unserved

RInv == C!TypeOK /\ WaitingQueued /\ RefreshUnderWay /\ RejectedForCause

LEMMA InitRInv == C!Init => RInv
  BY DEF C!Init, RInv, C!TypeOK, WaitingQueued, RefreshUnderWay, RejectedForCause

LEMMA SendRInv ==
    ASSUME RInv, NEW c \in Call, C!Send(c)
    PROVE  RInv'
<1> USE DEF C!Send, C!Move, C!calls, C!client, C!server
<1>1. C!TypeOK'
  BY DEF RInv, C!TypeOK
<1>2. WaitingQueued'
  BY DEF RInv, C!TypeOK, WaitingQueued, RefreshUnderWay
<1>3. RefreshUnderWay'
  BY DEF RInv, C!TypeOK, WaitingQueued, RefreshUnderWay
<1>4. RejectedForCause'
  BY DEF RInv, C!TypeOK, WaitingQueued, RejectedForCause
<1> QED
  BY <1>1, <1>2, <1>3, <1>4 DEF RInv

LEMMA SucceedRInv ==
    ASSUME RInv, NEW c \in Call, C!Succeed(c)
    PROVE  RInv'
<1> USE DEF C!Succeed, C!Move, C!calls, C!client, C!server
<1>1. C!TypeOK'
  BY DEF RInv, C!TypeOK
<1>2. WaitingQueued'
  BY DEF RInv, C!TypeOK, WaitingQueued, RefreshUnderWay
<1>3. RefreshUnderWay'
  BY DEF RInv, C!TypeOK, WaitingQueued, RefreshUnderWay
<1>4. RejectedForCause'
  BY DEF RInv, C!TypeOK, WaitingQueued, RejectedForCause
<1> QED
  BY <1>1, <1>2, <1>3, <1>4 DEF RInv

LEMMA WaitRInv ==
    ASSUME RInv, NEW c \in Call, C!Wait(c)
    PROVE  RInv'
<1> USE DEF C!Wait, C!Move, C!calls, C!client, C!server
<1>1. C!TypeOK'
  BY DEF RInv, C!TypeOK
<1>2. WaitingQueued'
  BY DEF RInv, C!TypeOK, WaitingQueued, RefreshUnderWay
<1>3. RefreshUnderWay'
  BY DEF RInv, C!TypeOK, WaitingQueued, RefreshUnderWay
<1>4. RejectedForCause'
  BY DEF RInv, C!TypeOK, WaitingQueued, RejectedForCause
<1> QED
  BY <1>1, <1>2, <1>3, <1>4 DEF RInv

LEMMA RefreshRInv ==
    ASSUME RInv, NEW c \in Call, C!Refresh(c)
    PROVE  RInv'
<1> USE DEF C!Refresh, C!Move, C!calls, C!client, C!server
<1>1. C!TypeOK'
  BY DEF RInv, C!TypeOK
<1>2. WaitingQueued'
  BY DEF RInv, C!TypeOK, WaitingQueued, RefreshUnderWay
<1>3. RefreshUnderWay'
  BY DEF RInv, C!TypeOK, WaitingQueued, RefreshUnderWay
<1>4. RejectedForCause'
  BY DEF RInv, C!TypeOK, WaitingQueued, RejectedForCause
<1> QED
  BY <1>1, <1>2, <1>3, <1>4 DEF RInv

LEMMA RejectRInv ==
    ASSUME RInv, NEW c \in Call, C!Reject(c)
    PROVE  RInv'
<1> USE DEF C!Reject, C!Move, C!calls, C!client, C!server
<1>1. C!TypeOK'
  BY DEF RInv, C!TypeOK
<1>2. WaitingQueued'
  BY DEF RInv, C!TypeOK, WaitingQueued, RefreshUnderWay
<1>3. RefreshUnderWay'
  BY DEF RInv, C!TypeOK, WaitingQueued, RefreshUnderWay
<1>4. RejectedForCause'
  BY DEF RInv, C!TypeOK, WaitingQueued, RejectedForCause
<1> QED
  BY <1>1, <1>2, <1>3, <1>4 DEF RInv

LEMMA RefreshedRInv ==
    ASSUME RInv, NEW c \in Call, C!Refreshed(c)
    PROVE  RInv'
<1> USE DEF C!Refreshed, C!Move, C!calls, C!client, C!server
<1>1. C!TypeOK'
  BY DEF RInv, C!TypeOK
<1>2. WaitingQueued'
  BY DEF RInv, C!TypeOK, WaitingQueued, RefreshUnderWay
<1>3. RefreshUnderWay'
  BY DEF RInv, C!TypeOK, WaitingQueued, RefreshUnderWay
<1>4. RejectedForCause'
  BY DEF RInv, C!TypeOK, WaitingQueued, RejectedForCause
<1> QED
  BY <1>1, <1>2, <1>3, <1>4 DEF RInv

LEMMA RefreshFailsRInv ==
    ASSUME RInv, NEW c \in Call, C!RefreshFails(c)
    PROVE  RInv'
<1> USE DEF C!RefreshFails, C!Move, C!calls, C!client, C!server
<1>1. C!TypeOK'
  BY DEF RInv, C!TypeOK
<1>2. WaitingQueued'
  BY DEF RInv, C!TypeOK, WaitingQueued, RefreshUnderWay
<1>3. RefreshUnderWay'
  BY DEF RInv, C!TypeOK, WaitingQueued, RefreshUnderWay
<1>4. RejectedForCause'
  BY DEF RInv, C!TypeOK, WaitingQueued, RejectedForCause
<1> QED
  BY <1>1, <1>2, <1>3, <1>4 DEF RInv

LEMMA LoadRInv ==
    ASSUME RInv, C!Load
    PROVE  RInv'
<1> USE DEF C!Load, C!Move, C!calls, C!client, C!server
<1>1. C!TypeOK'
  BY DEF RInv, C!TypeOK
<1>2. WaitingQueued'
  BY DEF RInv, C!TypeOK, WaitingQueued, RefreshUnderWay
<1>3. RefreshUnderWay'
  BY DEF RInv, C!TypeOK, WaitingQueued, RefreshUnderWay
<1>4. RejectedForCause'
  BY DEF RInv, C!TypeOK, WaitingQueued, RejectedForCause
<1> QED
  BY <1>1, <1>2, <1>3, <1>4 DEF RInv

LEMMA AdministrateRInv ==
    ASSUME RInv, C!Administrate
    PROVE  RInv'
<1> USE DEF C!Administrate, C!calls, C!client, C!server
<1>1. C!TypeOK'
  BY DEF RInv, C!TypeOK
<1>2. WaitingQueued'
  BY DEF RInv, C!TypeOK, WaitingQueued, RefreshUnderWay
<1>3. RefreshUnderWay'
  BY DEF RInv, C!TypeOK, WaitingQueued, RefreshUnderWay
<1>4. RejectedForCause'
  BY DEF RInv, C!TypeOK, WaitingQueued, RejectedForCause
<1> QED
  BY <1>1, <1>2, <1>3, <1>4 DEF RInv

LEMMA EndSessionRInv ==
    ASSUME RInv, C!EndSession
    PROVE  RInv'
<1> USE DEF C!EndSession, C!calls, C!client, C!server
<1>1. C!TypeOK'
  BY DEF RInv, C!TypeOK
<1>2. WaitingQueued'
  BY DEF RInv, C!TypeOK, WaitingQueued, RefreshUnderWay
<1>3. RefreshUnderWay'
  BY DEF RInv, C!TypeOK, WaitingQueued, RefreshUnderWay
<1>4. RejectedForCause'
  BY DEF RInv, C!TypeOK, WaitingQueued, RejectedForCause
<1> QED
  BY <1>1, <1>2, <1>3, <1>4 DEF RInv

LEMMA SignInRInv ==
    ASSUME RInv, C!SignIn
    PROVE  RInv'
<1> USE DEF C!SignIn, C!calls, C!client, C!server
<1>1. C!TypeOK'
  BY DEF RInv, C!TypeOK
<1>2. WaitingQueued'
  BY DEF RInv, C!TypeOK, WaitingQueued, RefreshUnderWay
<1>3. RefreshUnderWay'
  BY DEF RInv, C!TypeOK, WaitingQueued, RefreshUnderWay
<1>4. RejectedForCause'
  BY DEF RInv, C!TypeOK, WaitingQueued, RejectedForCause
<1> QED
  BY <1>1, <1>2, <1>3, <1>4 DEF RInv

LEMMA NextRInv == RInv /\ [C!Next]_(C!vars) => RInv'
<1>1. ASSUME RInv, UNCHANGED C!vars PROVE RInv'
  BY <1>1 DEF RInv, C!TypeOK, WaitingQueued, RefreshUnderWay, RejectedForCause, C!vars, C!calls,
              C!client, C!server
<1> SUFFICES ASSUME RInv, C!Next PROVE RInv'
  BY <1>1
<1> QED
  BY SendRInv, SucceedRInv, WaitRInv, RefreshRInv, RejectRInv, RefreshedRInv, RefreshFailsRInv,
     LoadRInv, AdministrateRInv, EndSessionRInv, SignInRInv DEF C!Next, C!Answer

LEMMA RInvariance == C!Spec => []RInv
  BY InitRInv, NextRInv, PTL DEF C!Spec

\* Type correctness of the request client (frontend/src/api/client.ts).
THEOREM ClientTypeCorrect == C!Spec => []C!TypeOK
<1>1. RInv => C!TypeOK
  BY DEF RInv
<1> QED
  BY <1>1, RInvariance, PTL

\* However many calls are answered 401, one refreshes at a time, the others wait
\* only as long as it does, and none fails because others were refused
\* (frontend/src/api/client.ts: isRefreshing, failedQueue, processQueue).
THEOREM CallsShareARefresh == C!Spec => []RefreshIsShared
<1>1. RInv => RefreshIsShared
  BY DEF RInv, WaitingQueued, RefreshUnderWay, RejectedForCause, RefreshIsShared,
         C!RefreshIsShared
<1> QED
  BY <1>1, RInvariance, PTL

-----------------------------------------------------------------------------
\* The OAuth settings.

\* The rows before position n.
RowsBefore(n) == {O!keys[i] : i \in {j \in 1 .. Len(O!keys) : j < n}}

\* What a commit of the job leaves in a row.
Target(k, what) == IF what = "delete" THEN O!Absent ELSE O!Value(k, what)

\* A request that works on rows nobody has changed since it began.
Undisturbed(r) == job[r] # "none" /\ ~overtaken[r]

\* A row that has been read is one of the rows.
IdleAtStart ==
    \A r \in Request : /\ job[r] = "none" => next[r] = 1 /\ ready[r] = FALSE
                       /\ job[r] = "put" => next[r] = 1
                       /\ ready[r] = TRUE => next[r] <= Len(O!keys)

\* It finds one configuration,
FoundWhole == \A r \in Request : Undisturbed(r) => O!Whole(stored)

\* ... has read the rows as they are, or the one a writer is at,
SeenIsStored ==
    \A r \in Request : Undisturbed(r) =>
       /\ job[r] = "read" => \A k \in RowsBefore(next[r]) : seen[r][k] = stored[k]
       /\ ready[r] = TRUE => seen[r][O!keys[next[r]]] = stored[O!keys[next[r]]]

\* ... and has written those that were to change.
WrittenOrAsWanted ==
    \A r \in Request : Undisturbed(r) /\ job[r] \notin {"read", "put"} =>
       \A k \in RowsBefore(next[r]) : locker[k] = r \/ stored[k] = Target(k, job[r])

OInv == O!TypeOK /\ IdleAtStart /\ FoundWhole /\ SeenIsStored /\ WrittenOrAsWanted

LEMMA RowsInOrder ==
    /\ 1 \in 1 .. Len(O!keys) + 1 /\ RowsBefore(1) = {}
    /\ \A n \in 1 .. Len(O!keys) + 1 : n <= Len(O!keys) =>
          /\ O!keys[n] \in O!Key /\ O!keys[n] \notin RowsBefore(n) /\ n + 1 \in 1 .. Len(O!keys) + 1
          /\ RowsBefore(n + 1) = RowsBefore(n) \cup {O!keys[n]}
    /\ \A n \in 1 .. Len(O!keys) + 1 :
          RowsBefore(n) \subseteq O!Key /\ (n > Len(O!keys) => RowsBefore(n) = O!Key)
<1>1. Len(O!keys) = 3
  BY DEF O!keys
<1>2. O!keys[1] # O!keys[2] /\ O!keys[1] # O!keys[3] /\ O!keys[2] # O!keys[3]
  BY DEF O!keys
<1>3. \A n \in 1 .. 4 : RowsBefore(n) = {O!keys[i] : i \in {j \in 1 .. 3 : j < n}}
  BY <1>1 DEF RowsBefore
<1>4. O!Key = {O!keys[1], O!keys[2], O!keys[3]}
  BY <1>1 DEF O!Key
<1>5. /\ RowsBefore(1) = {} /\ RowsBefore(2) = {O!keys[1]}
      /\ RowsBefore(3) = {O!keys[1], O!keys[2]} /\ RowsBefore(4) = O!Key
  BY <1>3, <1>4
<1>6. \A n \in 1 .. 4 : n \in {1, 2, 3, 4}
  OBVIOUS
<1> QED
  BY <1>1, <1>2, <1>4, <1>5, <1>6

LEMMA InitOInv == O!Init => OInv
  BY RowsInOrder DEF O!Init, OInv, O!TypeOK, IdleAtStart, FoundWhole, SeenIsStored, WrittenOrAsWanted,
     Undisturbed, O!NoRows, O!Whole

LEMMA BeginOInv ==
    ASSUME OInv, NEW r \in Request, NEW what \in Config \cup {"read", "delete", "put"}, O!Begin(r, what)
    PROVE  OInv'
<1> USE RowsInOrder, AccountsAssumption, ConfigAssumption DEF O!Begin
<1>1. O!TypeOK'
  BY DEF OInv, O!TypeOK
<1>2. IdleAtStart'
  BY DEF OInv, O!TypeOK, IdleAtStart
<1>3. FoundWhole'
  BY DEF OInv, O!TypeOK, FoundWhole, Undisturbed
<1>4. SeenIsStored'
  BY DEF OInv, O!TypeOK, IdleAtStart, SeenIsStored, Undisturbed
<1>5. WrittenOrAsWanted'
  BY DEF OInv, O!TypeOK, IdleAtStart, SeenIsStored, WrittenOrAsWanted, Undisturbed
<1> QED
  BY <1>1, <1>2, <1>3, <1>4, <1>5 DEF OInv

\* The end of a request leaves those undisturbed that a commit does not overtake.
LEMMA ReleaseOInv ==
    ASSUME OInv, NEW r \in Request, NEW written \in BOOLEAN, O!Release(r, written),
           stored' \in [O!Key -> Config \cup Text \cup {"shared", O!Absent}],
           ~written => stored' = stored
    PROVE  OInv'
<1> USE DEF O!Release
<1>1. O!TypeOK'
  BY RowsInOrder, AccountsAssumption DEF OInv, O!TypeOK, O!NoRows
<1>2. IdleAtStart'
  BY DEF OInv, O!TypeOK, IdleAtStart
<1>3. ASSUME NEW q \in Request, Undisturbed(q)'
      PROVE  /\ Undisturbed(q) /\ stored' = stored
             /\ job'[q] = job[q] /\ next'[q] = next[q] /\ seen'[q] = seen[q]
             /\ ready'[q] = TRUE => ready[q] = TRUE
             /\ \A k \in O!Key : locker[k] = q => locker'[k] = q
  BY <1>3 DEF OInv, O!TypeOK, Undisturbed
<1>4. FoundWhole'
  BY <1>3 DEF OInv, FoundWhole
<1>5. SeenIsStored'
  <2> SUFFICES ASSUME NEW q \in Request, Undisturbed(q)'
               PROVE  /\ job'[q] = "read" => \A k \in RowsBefore(next'[q]) : seen'[q][k] = stored'[k]
                      /\ ready'[q] = TRUE => seen'[q][O!keys[next'[q]]] = stored'[O!keys[next'[q]]]
    BY DEF SeenIsStored
  <2>1. /\ job[q] = "read" => \A k \in RowsBefore(next[q]) : seen[q][k] = stored[k]
        /\ ready[q] = TRUE => seen[q][O!keys[next[q]]] = stored[O!keys[next[q]]]
    BY <1>3 DEF OInv, SeenIsStored
  <2> QED
    BY <1>3, <2>1
<1>6. WrittenOrAsWanted'
  <2> SUFFICES ASSUME NEW q \in Request, Undisturbed(q)', job'[q] \notin {"read", "put"}, NEW k \in RowsBefore(next'[q])
               PROVE  locker'[k] = q \/ stored'[k] = Target(k, job'[q])
    BY DEF WrittenOrAsWanted
  <2>1. next[q] \in 1 .. Len(O!keys) + 1
    BY DEF OInv, O!TypeOK
  <2>2. k \in RowsBefore(next[q]) /\ k \in O!Key
    BY <1>3, <2>1, RowsInOrder
  <2>3. locker[k] = q \/ stored[k] = Target(k, job[q])
    BY <1>3, <2>2 DEF OInv, WrittenOrAsWanted
  <2> QED
    BY <1>3, <2>2, <2>3
<1> QED
  BY <1>1, <1>2, <1>4, <1>5, <1>6 DEF OInv

\* So does a step to the next row that has written the last one or need not.
LEMMA AdvanceOInv ==
    ASSUME OInv, NEW r \in Request, job[r] \notin {"none", "read", "put"}, ready[r] = TRUE,
           O!Advance(r), NEW k \in O!Key, k = O!keys[next[r]],
           \/ locker' = locker
           \/ locker[k] = NoRequest /\ locker' = [locker EXCEPT ![k] = r],
           Undisturbed(r) => locker'[k] = r \/ stored[k] = Target(k, job[r])
    PROVE  OInv'
<1> USE DEF O!Advance
<1>1. next[r] <= Len(O!keys)
  BY DEF OInv, IdleAtStart
<1>2. O!TypeOK'
  <2>1. next[r] + 1 \in 1 .. Len(O!keys) + 1
    BY <1>1, RowsInOrder DEF OInv, O!TypeOK
  <2>2. seen' \in [Request -> [O!Key -> Config \cup Text \cup {"shared", O!Absent}]]
    BY DEF OInv, O!TypeOK, O!NoRows
  <2>3. next' \in [Request -> 1 .. Len(O!keys) + 1] /\ ready' \in [Request -> BOOLEAN]
    BY <2>1 DEF OInv, O!TypeOK
  <2>4. locker' \in [O!Key -> Request \cup {NoRequest}]
    BY DEF OInv, O!TypeOK
  <2>5. \A i \in O!Key : locker'[i] # NoRequest => job'[locker'[i]] \notin {"none", "read", "put"}
    BY DEF OInv, O!TypeOK
  <2> QED
    BY <2>2, <2>3, <2>4, <2>5 DEF OInv, O!TypeOK
<1>3. IdleAtStart'
  BY DEF OInv, O!TypeOK, IdleAtStart
<1>4. FoundWhole'
  BY DEF OInv, O!TypeOK, FoundWhole, Undisturbed
<1>5. RowsBefore(next'[r]) = RowsBefore(next[r]) \cup {k}
  BY <1>1, RowsInOrder DEF OInv, O!TypeOK
<1>6. SeenIsStored'
  BY <1>5, RowsInOrder DEF OInv, O!TypeOK, SeenIsStored, Undisturbed
<1>7. \A q \in Request, i \in O!Key : locker[i] = q => locker'[i] = q
  BY AccountsAssumption DEF OInv, O!TypeOK
<1>8. WrittenOrAsWanted'
  <2> SUFFICES ASSUME NEW q \in Request, Undisturbed(q), job[q] \notin {"read", "put"}, NEW i \in RowsBefore(next'[q])
               PROVE  locker'[i] = q \/ stored[i] = Target(i, job[q])
    BY DEF WrittenOrAsWanted, Undisturbed
  <2>1. CASE q = r /\ i = k
    BY <2>1
  <2>2. CASE i \in RowsBefore(next[q])
    <3>1. next[q] \in 1 .. Len(O!keys) + 1
      BY DEF OInv, O!TypeOK
    <3>2. i \in O!Key
      BY <2>2, <3>1, RowsInOrder
    <3>3. locker[i] = q \/ stored[i] = Target(i, job[q])
      BY <2>2 DEF OInv, WrittenOrAsWanted
    <3> QED
      BY <1>7, <3>2, <3>3
  <2> QED
    BY <1>5, <2>1, <2>2 DEF OInv, O!TypeOK
<1> QED
  BY <1>2, <1>3, <1>4, <1>6, <1>8 DEF OInv

LEMMA SelectOInv ==
    ASSUME OInv, NEW r \in Request, O!Select(r)
    PROVE  OInv'
<1> USE DEF O!Select
<1> DEFINE k == O!keys[next[r]]
<1>1. k \in O!Key /\ k \notin RowsBefore(next[r]) /\ next[r] + 1 \in 1 .. Len(O!keys) + 1
  BY RowsInOrder DEF OInv, O!TypeOK
<1>2. seen' \in [Request -> [O!Key -> Config \cup Text \cup {"shared", O!Absent}]]
  BY <1>1 DEF OInv, O!TypeOK
<1>3. /\ next' \in [Request -> 1 .. Len(O!keys) + 1] /\ ready' \in [Request -> BOOLEAN]
  BY <1>1 DEF OInv, O!TypeOK
<1>4. O!TypeOK'
  BY <1>2, <1>3 DEF OInv, O!TypeOK
<1>5. IdleAtStart'
  BY DEF OInv, O!TypeOK, IdleAtStart
<1>6. FoundWhole'
  BY DEF OInv, O!TypeOK, FoundWhole, Undisturbed
<1>7. seen'[r][k] = stored[k] /\ \A i \in O!Key : i # k => seen'[r][i] = seen[r][i]
  BY <1>1 DEF OInv, O!TypeOK
<1>8. SeenIsStored'
  BY <1>1, <1>7, RowsInOrder DEF OInv, O!TypeOK, SeenIsStored, Undisturbed
<1>9. WrittenOrAsWanted'
  BY RowsInOrder DEF OInv, O!TypeOK, WrittenOrAsWanted, Undisturbed
<1> QED
  BY <1>4, <1>5, <1>6, <1>8, <1>9 DEF OInv

LEMMA EndReadOInv ==
    ASSUME OInv, NEW r \in Request, O!EndRead(r)
    PROVE  OInv'
  BY ReleaseOInv DEF O!EndRead, OInv, O!TypeOK

LEMMA UpsertOInv ==
    ASSUME OInv, NEW r \in Request, O!Upsert(r)
    PROVE  OInv'
<1> DEFINE k == O!keys[next[r]]
<1>1. job[r] \in Config /\ ready[r] = TRUE /\ job[r] \notin {"none", "read", "delete", "put"}
  BY ConfigAssumption DEF OInv, O!TypeOK, O!Upsert
<1>2. k \in O!Key
  BY <1>1, RowsInOrder DEF OInv, O!TypeOK, IdleAtStart
<1>3. Undisturbed(r) => seen[r][k] = stored[k]
  BY <1>1 DEF OInv, SeenIsStored
<1>4. Target(k, job[r]) = O!Value(k, job[r])
  BY <1>1 DEF Target
<1>5. CASE seen[r][k] = O!Value(k, job[r]) /\ O!Advance(r) /\ UNCHANGED locker
  BY <1>1, <1>2, <1>3, <1>4, <1>5, AdvanceOInv
<1>6. CASE O!Release(r, FALSE) /\ UNCHANGED stored
  BY <1>6, ReleaseOInv DEF OInv, O!TypeOK
<1>7. CASE locker[k] = NoRequest /\ locker' = [locker EXCEPT ![k] = r] /\ O!Advance(r)
  <2>1. locker'[k] = r
    BY <1>2, <1>7 DEF OInv, O!TypeOK
  <2> QED
    BY <1>1, <1>2, <1>7, <2>1, AdvanceOInv
<1> QED
  BY <1>5, <1>6, <1>7 DEF O!Upsert

LEMMA DeleteRowOInv ==
    ASSUME OInv, NEW r \in Request, O!DeleteRow(r)
    PROVE  OInv'
<1> DEFINE k == O!keys[next[r]]
<1>1. job[r] = "delete" /\ ready[r] = TRUE
  BY DEF OInv, O!TypeOK, O!DeleteRow
<1>2. k \in O!Key
  BY <1>1, RowsInOrder DEF OInv, O!TypeOK, IdleAtStart
<1>3. Undisturbed(r) => seen[r][k] = stored[k]
  BY <1>1 DEF OInv, SeenIsStored
<1>4. Target(k, job[r]) = O!Absent
  BY <1>1 DEF Target
<1>5. CASE seen[r][k] = O!Absent /\ O!Advance(r) /\ UNCHANGED locker
  BY <1>1, <1>2, <1>3, <1>4, <1>5, AdvanceOInv
<1>6. CASE stored[k] = O!Absent /\ O!Advance(r) /\ UNCHANGED locker
  BY <1>1, <1>2, <1>4, <1>6, AdvanceOInv
<1>7. CASE locker[k] = NoRequest /\ locker' = [locker EXCEPT ![k] = r] /\ O!Advance(r)
  <2>1. locker'[k] = r
    BY <1>2, <1>7 DEF OInv, O!TypeOK
  <2> QED
    BY <1>1, <1>2, <1>7, <2>1, AdvanceOInv
<1> QED
  BY <1>5, <1>6, <1>7 DEF O!DeleteRow

LEMMA CommitOInv ==
    ASSUME OInv, NEW r \in Request, O!Commit(r)
    PROVE  OInv'
<1> DEFINE written == \E k \in O!Key : locker[k] = r
<1>1. stored' \in [O!Key -> Config \cup Text \cup {"shared", O!Absent}]
  BY DEF OInv, O!TypeOK, O!Commit, O!Value
<1>2. ~written => stored' = stored
  BY DEF OInv, O!TypeOK, O!Commit
<1>3. written \in BOOLEAN /\ O!Release(r, written)
  BY DEF O!Commit
<1> QED
  BY <1>1, <1>2, <1>3, ReleaseOInv

\* PUT /admin/settings reads all the rows, ...
LEMMA SelectAllOInv ==
    ASSUME OInv, NEW r \in Request, O!SelectAll(r)
    PROVE  OInv'
<1> USE DEF O!SelectAll
<1>1. O!TypeOK'
  BY DEF OInv, O!TypeOK
<1>2. IdleAtStart'
  <2>1. \A q \in Request : next'[q] = next[q] /\ job'[q] = job[q] /\ (q # r => ready'[q] = ready[q])
    BY DEF OInv, O!TypeOK
  <2>2. next[r] = 1 /\ 1 <= Len(O!keys) /\ job[r] # "none"
    BY RowsInOrder DEF OInv, IdleAtStart, O!keys
  <2> QED
    BY <2>1, <2>2 DEF OInv, IdleAtStart
<1>3. FoundWhole'
  BY DEF OInv, O!TypeOK, FoundWhole, Undisturbed
<1>4. SeenIsStored'
  BY DEF OInv, O!TypeOK, SeenIsStored, Undisturbed
<1>5. WrittenOrAsWanted'
  BY DEF OInv, O!TypeOK, WrittenOrAsWanted, Undisturbed
<1> QED
  BY <1>1, <1>2, <1>3, <1>4, <1>5 DEF OInv

\* ... and overtakes the others if it writes one.
LEMMA PutOInv ==
    ASSUME OInv, NEW r \in Request, O!Put(r)
    PROVE  OInv'
<1>1. CASE O!Release(r, FALSE) /\ UNCHANGED stored
  BY <1>1, ReleaseOInv DEF OInv, O!TypeOK
<1>2. ASSUME NEW changed \in SUBSET O!Key, NEW text \in [O!Key -> Text],
             stored' = [k \in O!Key |-> IF k \in changed THEN text[k] ELSE stored[k]],
             O!Release(r, changed # {})
      PROVE  OInv'
  <2>1. stored' \in [O!Key -> Config \cup Text \cup {"shared", O!Absent}]
    BY <1>2 DEF OInv, O!TypeOK
  <2>2. changed = {} => stored' = stored
    BY <1>2 DEF OInv, O!TypeOK
  <2>3. (changed # {}) \in BOOLEAN
    OBVIOUS
  <2> QED
    BY <1>2, <2>1, <2>2, <2>3, ReleaseOInv
<1> QED
  BY <1>1, <1>2 DEF O!Put

\* A request that fails writes nothing.
LEMMA FailOInv ==
    ASSUME OInv, NEW r \in Request, O!Fail(r)
    PROVE  OInv'
  BY ReleaseOInv DEF O!Fail, OInv, O!TypeOK

LEMMA NextOInv == OInv /\ [O!Next]_(O!vars) => OInv'
<1>1. ASSUME OInv, UNCHANGED O!vars PROVE OInv'
  BY <1>1 DEF OInv, O!TypeOK, IdleAtStart, FoundWhole, SeenIsStored, WrittenOrAsWanted, Undisturbed, O!vars
<1> SUFFICES ASSUME OInv, O!Next PROVE OInv'
  BY <1>1
<1>2. ASSUME NEW r \in Request, O!BeginSave(r) \/ O!BeginDelete(r) \/ O!BeginRead(r) \/ O!BeginPut(r)
      PROVE  OInv'
  BY <1>2, BeginOInv DEF O!BeginSave, O!BeginDelete, O!BeginRead, O!BeginPut
<1> QED
  BY <1>2, SelectOInv, EndReadOInv, UpsertOInv, DeleteRowOInv, CommitOInv, SelectAllOInv, PutOInv,
     FailOInv DEF O!Next

LEMMA OInvariance == O!Spec => []OInv
  BY InitOInv, NextOInv, PTL DEF O!Spec

LEMMA LastIsBehind ==
    ASSUME OInv, NEW r \in Request, next[r] > Len(O!keys)
    PROVE  RowsBefore(next[r]) = O!Key
<1>1. next[r] \in 1 .. Len(O!keys) + 1
  BY DEF OInv, O!TypeOK
<1> QED
  BY <1>1, RowsInOrder

\* A reader nobody has overtaken has read the rows of one configuration.
LEMMA ReadsAreWhole == OInv => O!ReadWholeUnlessTorn
<1> SUFFICES ASSUME OInv, NEW r \in Request, job[r] = "read", next[r] > Len(O!keys), ~overtaken[r]
             PROVE  O!Whole(seen[r])
  BY DEF O!ReadWholeUnlessTorn
<1>1. O!Whole(stored)
  BY DEF OInv, FoundWhole, Undisturbed
<1>2. \A k \in O!Key : seen[r][k] = stored[k]
  <2>1. RowsBefore(next[r]) = O!Key
    BY LastIsBehind
  <2> QED
    BY <2>1 DEF OInv, SeenIsStored, Undisturbed
<1> QED
  BY <1>1, <1>2 DEF O!Whole

\* A commit nobody has overtaken leaves the rows of its own configuration.
LEMMA CommitsAreWhole ==
    ASSUME OInv, NEW r \in Request, O!Commit(r), ~overtaken[r]
    PROVE  O!Whole(stored')
<1>1. Undisturbed(r) /\ job[r] \notin {"read", "put"} /\ RowsBefore(next[r]) = O!Key
  BY LastIsBehind DEF O!Commit, Undisturbed
<1>2. \A k \in O!Key : locker[k] = r \/ stored[k] = Target(k, job[r])
  BY <1>1 DEF OInv, WrittenOrAsWanted
<1>3. \A k \in O!Key : stored'[k] = Target(k, job[r])
  BY <1>2 DEF O!Commit, Target
<1>4. job[r] = "delete" \/ job[r] \in Config
  <2>1. job[r] \in Config \cup {"none", "read", "delete", "put"}
    BY DEF OInv, O!TypeOK
  <2> QED
    BY <2>1 DEF O!Commit
<1> QED
  BY <1>3, <1>4 DEF O!Whole, Target, O!Value

\* What nobody else writes stays.
LEMMA OnlyCommitsWrite ==
    ASSUME [O!Next]_(O!vars), stored' # stored
    PROVE  \E r \in Request : O!Commit(r) \/ O!Put(r)
  BY DEF O!Next, O!vars, O!BeginSave, O!BeginDelete, O!BeginRead, O!BeginPut, O!Begin, O!Select,
     O!EndRead, O!Upsert, O!DeleteRow, O!Advance, O!SelectAll, O!Fail

LEMMA WholeStep ==
    ASSUME OInv, [O!Next]_(O!vars), O!Whole(stored), ~O!Whole(stored')
    PROVE  \E r \in Request : /\ job[r] # "none" /\ job'[r] = "none"
                              /\ overtaken[r] \/ job[r] = "put"
<1>1. PICK r \in Request : O!Commit(r) \/ O!Put(r)
  BY OnlyCommitsWrite
<1>2. overtaken[r] \/ job[r] = "put"
  BY <1>1, CommitsAreWhole DEF O!Put
<1>3. job[r] # "none" /\ job'[r] = "none"
  BY <1>1 DEF OInv, O!TypeOK, O!Commit, O!Put, O!Release
<1> QED
  BY <1>2, <1>3

\* Type correctness of the OAuth settings (services/google_oauth.py).
THEOREM OAuthTypeCorrect == O!Spec => []O!TypeOK
<1>1. OInv => O!TypeOK
  BY DEF OInv
<1> QED
  BY <1>1, OInvariance, PTL

\* Three rows stay, and are read as, one configuration unless a save or a delete
\* was overtaken by another commit, or PUT /admin/settings wrote into them
\* (services/google_oauth.py: save_oauth_config, delete_oauth_config,
\* get_oauth_config; services/user_service.py: update_system_settings).
THEOREM SettingsStayWhole == O!Spec => WholeUnlessOverlapped
<1>1. OInv /\ [O!Next]_(O!vars) =>
         [/\ O!ReadWholeUnlessTorn
          /\ O!Whole(stored) /\ ~O!Whole(stored') =>
                \E r \in Request : /\ job[r] # "none" /\ job'[r] = "none"
                                   /\ overtaken[r] \/ job[r] = "put"]_(O!vars)
  BY ReadsAreWhole, WholeStep
<1> QED
  BY <1>1, OInvariance, PTL DEF O!Spec, WholeUnlessOverlapped, O!WholeUnlessOverlapped

-----------------------------------------------------------------------------
\* The parts side by side: whatever one does, the others stand still.
LEMMA PartsAreThemselves == MCSpec => S!Spec /\ O!Spec /\ C!Spec
<1>1. MCInit => S!Init /\ O!Init /\ C!Init
  BY DEF MCInit
<1>2. [MCNext]_<<part, vars, sessionVars, oauthVars, clientVars>> =>
         [S!Next]_(S!vars) /\ [O!Next]_(O!vars) /\ [C!Next]_(C!vars)
  BY DEF MCNext, sessionVars, oauthVars, clientVars, S!vars, S!account, S!credentials, S!locals,
         O!vars, C!vars, C!calls, C!client, C!server
<1> QED
  BY <1>1, <1>2, PTL DEF MCSpec, S!Spec, O!Spec, C!Spec

\* Type correctness of sessions, OAuth settings and request client.
THEOREM PartsTypeCorrect == MCSpec => []PartsTypeOK
<1>1. S!TypeOK /\ O!TypeOK /\ C!TypeOK => PartsTypeOK
  BY DEF PartsTypeOK
<1> QED
  BY <1>1, PartsAreThemselves, SessionsTypeCorrect, OAuthTypeCorrect, ClientTypeCorrect, PTL
=============================================================================
