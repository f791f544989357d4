------------------------- MODULE AlertDigestProofs -------------------------
(***************************************************************************)
(* Proofs about AlertDigest, for any instances, addresses and tasks, any   *)
(* number of attempts and any number of faults.                            *)
(*                                                                         *)
(* The argument: a session that is alive and in a round holds the advisory *)
(* lock, so there is one such round at most (LockHeld); what it has read   *)
(* stays pending until it commits (OwnsItsLogs, OwnsItsUpdates); therefore *)
(* every message with a log is either one of which the database never      *)
(* hears or the one that made it "sent" or will do so (EveryMessageCounts).*)
(*                                                                         *)
(* The theorems are about D, AlertDigest as MC_Locks instantiates it,      *)
(* where advisory is its lock and job its pc.                              *)
(***************************************************************************)
EXTENDS MC_Locks, TLAPS

InRound == {"read", "next", "send", "sent", "failed", "unlock"}

\* Only the holder of the lock has a live session in a round.
LockHeld ==
    \A i \in Instance : connected[i] /\ job[i] \in InRound => advisory = i

\* What a round has still to do, at each of its places.
RoundShape ==
    \A i \in Instance :
        /\ job[i] \in {"idle", "down", "read", "unlock"} => work[i] = {}
        /\ job[i] \in {"idle", "down", "read", "unlock", "next"} => group[i] = {}
        /\ job[i] = "send" => attempt[i] < MAX_RETRIES
        /\ \A l \in group[i] : l \notin work[i]

\* The logs that a live round has read are pending.
OwnsItsLogs ==
    \A i \in Instance : connected[i] =>
        \A l \in work[i] \cup group[i] : status[l] = "pending"

\* It updates logs it has come to, and they are pending for everybody else.
OwnsItsUpdates ==
    \A i \in Instance : \A l \in D!AlertLog : written[i][l] # "none" =>
        /\ connected[i]
        /\ job[i] \in {"next", "send", "sent", "failed"}
        /\ status[l] = "pending"
        /\ l \notin work[i]
        /\ l \notin group[i]

\* An event that has not been dispatched has no log.
NotYetDispatched ==
    \A l \in D!AlertLog : l.event > events => status[l] = "absent"

\* The database holds l as sent, or the open transaction of a round is about
\* to make it so.
Told(l) == status[l] = "sent" \/ \E i \in Instance : l \in D!Untold(i)

EveryMessageCounts ==
    \A l \in D!AlertLog :
        /\ Told(l) => delivered[l] = spoilt[l] + 1
        /\ ~Told(l) => delivered[l] = spoilt[l]

IInv ==
    /\ D!TypeOK
    /\ LockHeld
    /\ RoundShape
    /\ OwnsItsLogs
    /\ OwnsItsUpdates
    /\ NotYetDispatched
    /\ EveryMessageCounts
    /\ D!DecidedOnce

LEMMA CountedIsCount ==
    ASSUME NEW c \in [D!AlertLog -> Nat], NEW S
    PROVE  D!Counted(c, S) \in [D!AlertLog -> Nat]
  BY DEF D!Counted

LEMMA InitIInv == D!Init => IInv
<1> SUFFICES ASSUME D!Init PROVE IInv
  OBVIOUS
<1>1. D!TypeOK
  BY DigestAssumption DEF D!Init, D!TypeOK, D!Nothing
<1>2. LockHeld /\ RoundShape /\ OwnsItsLogs /\ OwnsItsUpdates
  BY DEF D!Init, LockHeld, RoundShape, OwnsItsLogs, OwnsItsUpdates, InRound, D!Nothing
<1>3. NotYetDispatched /\ D!DecidedOnce
  BY DEF D!Init, NotYetDispatched, D!DecidedOnce
<1>4. EveryMessageCounts
  BY DEF D!Init, EveryMessageCounts, Told, D!Untold, D!Nothing
<1> QED
  BY <1>1, <1>2, <1>3, <1>4 DEF IInv

\* A step after which the same logs are told, and the counts are the same,
\* keeps EveryMessageCounts.
LEMMA SameCounts ==
    ASSUME EveryMessageCounts, UNCHANGED <<delivered, spoilt>>,
           \A l \in D!AlertLog : Told(l)' <=> Told(l)
    PROVE  EveryMessageCounts'
  BY DEF EveryMessageCounts

LEMMA DispatchIInv ==
    ASSUME IInv, NEW t \in Task, NEW to \in SUBSET Address, D!Dispatch(t, to)
    PROVE  IInv'
<1>1. D!TypeOK'
  BY DigestAssumption DEF IInv, D!TypeOK, D!Dispatch
<1>2. \A l \in D!AlertLog : status'[l] # status[l] =>
          status[l] = "absent" /\ status'[l] = "pending"
  BY DigestAssumption DEF IInv, D!TypeOK, NotYetDispatched, D!Dispatch, D!AlertLog
<1>3. LockHeld' /\ RoundShape'
  BY DEF IInv, LockHeld, RoundShape, D!Dispatch
<1>4. OwnsItsLogs'
  BY <1>2 DEF IInv, D!TypeOK, OwnsItsLogs, D!Dispatch
<1>5. OwnsItsUpdates'
  BY <1>2 DEF IInv, OwnsItsUpdates, D!Dispatch
<1>6. NotYetDispatched'
  BY DigestAssumption DEF IInv, D!TypeOK, NotYetDispatched, D!Dispatch, D!AlertLog
<1>7. EveryMessageCounts'
  <2>1. \A l \in D!AlertLog : Told(l)' <=> Told(l)
    BY <1>2 DEF Told, D!Untold, D!Dispatch
  <2> QED
    BY <2>1, SameCounts DEF IInv, D!Dispatch
<1>8. D!DecidedOnce'
  BY <1>2 DEF IInv, D!DecidedOnce, D!Dispatch
<1> QED
  BY <1>1, <1>3, <1>4, <1>5, <1>6, <1>7, <1>8 DEF IInv

LEMMA TryLockIInv ==
    ASSUME IInv, NEW i \in Instance, D!TryLock(i)
    PROVE  IInv'
<1>1. D!TypeOK'
  BY DEF IInv, D!TypeOK, D!TryLock
<1>2. LockHeld'
  BY DigestAssumption DEF IInv, D!TypeOK, LockHeld, D!TryLock, InRound
<1>3. RoundShape'
  BY DEF IInv, D!TypeOK, RoundShape, D!TryLock
<1>4. OwnsItsLogs' /\ OwnsItsUpdates'
  BY DEF IInv, D!TypeOK, OwnsItsLogs, OwnsItsUpdates, D!TryLock
<1>5. NotYetDispatched' /\ D!DecidedOnce'
  BY DEF IInv, NotYetDispatched, D!DecidedOnce, D!TryLock
<1>6. EveryMessageCounts'
  <2>1. \A l \in D!AlertLog : Told(l)' <=> Told(l)
    BY DEF IInv, D!TypeOK, Told, D!Untold, D!TryLock
  <2> QED
    BY <2>1, SameCounts DEF IInv, D!TryLock
<1> QED
  BY <1>1, <1>2, <1>3, <1>4, <1>5, <1>6 DEF IInv

LEMMA ReadPendingIInv ==
    ASSUME IInv, NEW i \in Instance, D!ReadPending(i)
    PROVE  IInv'
<1>1. D!TypeOK'
  BY DEF IInv, D!TypeOK, D!ReadPending, D!Pending
<1>2. LockHeld'
  BY DEF IInv, D!TypeOK, LockHeld, D!ReadPending, InRound
<1>3. RoundShape'
  BY DEF IInv, D!TypeOK, RoundShape, D!ReadPending, D!Pending
<1>4. OwnsItsLogs'
  BY DEF IInv, D!TypeOK, OwnsItsLogs, RoundShape, D!ReadPending, D!Pending
<1>5. \A l \in D!AlertLog : written[i][l] = "none"
  BY DEF IInv, OwnsItsUpdates, D!ReadPending
<1>6. OwnsItsUpdates'
  BY <1>5 DEF IInv, D!TypeOK, OwnsItsUpdates, D!ReadPending
<1>7. NotYetDispatched' /\ D!DecidedOnce'
  BY DEF IInv, NotYetDispatched, D!DecidedOnce, D!ReadPending
<1>8. EveryMessageCounts'
  <2>1. \A l \in D!AlertLog : Told(l)' <=> Told(l)
    BY DEF IInv, D!TypeOK, Told, D!Untold, D!ReadPending
  <2> QED
    BY <2>1, SameCounts DEF IInv, D!ReadPending
<1> QED
  BY <1>1, <1>2, <1>3, <1>4, <1>6, <1>7, <1>8 DEF IInv

LEMMA NextGroupIInv ==
    ASSUME IInv, NEW i \in Instance, D!NextGroup(i)
    PROVE  IInv'
<1>1. PICK l \in work[i] :
         /\ group' = [group EXCEPT ![i] = {m \in work[i] : m.to = l.to /\ m.task = l.task}]
         /\ work' = [work EXCEPT
                       ![i] = work[i] \ {m \in work[i] : m.to = l.to /\ m.task = l.task}]
  BY DEF D!NextGroup
<1>2. group'[i] \subseteq work[i] /\ work'[i] = work[i] \ group'[i]
  BY <1>1 DEF IInv, D!TypeOK
<1>3. \A j \in Instance : j # i =>
         /\ group'[j] = group[j] /\ work'[j] = work[j]
         /\ attempt'[j] = attempt[j] /\ job'[j] = job[j]
  BY <1>1 DEF IInv, D!TypeOK, D!NextGroup
<1>4. D!TypeOK'
  <2>1. work' \in [Instance -> SUBSET D!AlertLog] /\ group' \in [Instance -> SUBSET D!AlertLog]
    BY <1>1 DEF IInv, D!TypeOK
  <2> QED
    BY <2>1, DigestAssumption DEF IInv, D!TypeOK, D!NextGroup
<1>5. LockHeld'
  BY DEF IInv, D!TypeOK, LockHeld, D!NextGroup, InRound
<1>6. job'[i] = "send" /\ attempt'[i] = 0 /\ job[i] = "next" /\ group[i] = {}
  BY DEF IInv, D!TypeOK, RoundShape, D!NextGroup
<1>7. RoundShape'
  BY <1>2, <1>3, <1>6, DigestAssumption DEF IInv, RoundShape
<1>8. OwnsItsLogs'
  <2> SUFFICES ASSUME NEW j \in Instance, connected[j], NEW m \in work'[j] \cup group'[j]
               PROVE  status[m] = "pending"
    BY DEF OwnsItsLogs, D!NextGroup
  <2>1. m \in work[j] \cup group[j]
    BY <1>2, <1>3
  <2> QED
    BY <2>1 DEF IInv, OwnsItsLogs
<1>9. OwnsItsUpdates'
  <2> SUFFICES ASSUME NEW j \in Instance, NEW m \in D!AlertLog, written[j][m] # "none"
               PROVE  /\ connected[j]
                      /\ job'[j] \in {"next", "send", "sent", "failed"}
                      /\ status[m] = "pending"
                      /\ m \notin work'[j]
                      /\ m \notin group'[j]
    BY DEF OwnsItsUpdates, D!NextGroup
  <2>1. /\ connected[j]
        /\ job[j] \in {"next", "send", "sent", "failed"}
        /\ status[m] = "pending"
        /\ m \notin work[j] /\ m \notin group[j]
    BY DEF IInv, OwnsItsUpdates
  <2> QED
    BY <1>2, <1>3, <1>6, <2>1
<1>10. NotYetDispatched' /\ D!DecidedOnce'
  BY DEF IInv, NotYetDispatched, D!DecidedOnce, D!NextGroup
<1>11. EveryMessageCounts'
  <2>1. \A m \in D!AlertLog : Told(m)' <=> Told(m)
    BY <1>3, <1>6 DEF Told, D!Untold, D!NextGroup
  <2> QED
    BY <2>1, SameCounts DEF IInv, D!NextGroup
<1> QED
  BY <1>4, <1>5, <1>7, <1>8, <1>9, <1>10, <1>11 DEF IInv

\* A live round that is about to send, or has failed to send, its group has
\* written nothing of it, and no other session has.
LEMMA GroupIsUntold ==
    ASSUME IInv, NEW i \in Instance, connected[i], job[i] \in {"send", "failed"},
           NEW l \in group[i]
    PROVE  ~ Told(l)
<1>1. l \in D!AlertLog
  BY DEF IInv, D!TypeOK
<1>2. status[l] = "pending"
  BY DEF IInv, OwnsItsLogs
<1>3. l \notin D!Untold(i)
  BY <1>1 DEF IInv, OwnsItsUpdates, D!Untold
<1>4. ASSUME NEW j \in Instance, j # i
      PROVE  l \notin D!Untold(j)
  <2>1. advisory = i
    BY DEF IInv, LockHeld, InRound
  <2>2. ~ (connected[j] /\ job[j] \in InRound)
    BY <1>4, <2>1 DEF IInv, LockHeld
  <2> QED
    BY <2>2 DEF IInv, OwnsItsUpdates, D!Untold, InRound
<1> QED
  BY <1>2, <1>3, <1>4 DEF Told

LEMMA SendSucceedsIInv ==
    ASSUME IInv, NEW i \in Instance, D!SendSucceeds(i)
    PROVE  IInv'
<1>1. D!TypeOK'
  BY CountedIsCount DEF IInv, D!TypeOK, D!SendSucceeds
<1>2. LockHeld'
  BY DEF IInv, D!TypeOK, LockHeld, D!SendSucceeds, InRound
<1>3. RoundShape'
  BY DEF IInv, D!TypeOK, RoundShape, D!SendSucceeds
<1>4. OwnsItsLogs' /\ OwnsItsUpdates'
  BY DEF IInv, D!TypeOK, OwnsItsLogs, OwnsItsUpdates, D!SendSucceeds
<1>5. NotYetDispatched' /\ D!DecidedOnce'
  BY DEF IInv, NotYetDispatched, D!DecidedOnce, D!SendSucceeds
<1>6. EveryMessageCounts'
  <2> SUFFICES ASSUME NEW l \in D!AlertLog
               PROVE  /\ Told(l)' => delivered'[l] = spoilt'[l] + 1
                      /\ ~ Told(l)' => delivered'[l] = spoilt'[l]
    BY DEF EveryMessageCounts
  <2>1. delivered[l] \in Nat /\ spoilt[l] \in Nat
    BY DEF IInv, D!TypeOK
  <2>2. delivered'[l] = IF l \in group[i] THEN delivered[l] + 1 ELSE delivered[l]
    BY DEF D!SendSucceeds, D!Counted
  <2>3. job[i] = "send" /\ job'[i] = "sent" /\ \A j \in Instance : j # i => job'[j] = job[j]
    BY DEF IInv, D!TypeOK, D!SendSucceeds
  <2>4. CASE connected[i] /\ l \in group[i]
    <3>1. ~ Told(l)
      BY <2>3, <2>4, GroupIsUntold
    <3>2. l \in D!Untold(i)'
      BY <2>3, <2>4 DEF D!Untold, D!SendSucceeds
    <3> QED
      BY <2>1, <2>2, <2>4, <3>1, <3>2 DEF Told, IInv, EveryMessageCounts, D!SendSucceeds
  <2>5. CASE ~ (connected[i] /\ l \in group[i])
    <3>1. Told(l)' <=> Told(l)
      BY <2>3, <2>5 DEF Told, D!Untold, D!SendSucceeds
    <3>2. spoilt'[l] = IF ~ connected[i] /\ l \in group[i] THEN spoilt[l] + 1 ELSE spoilt[l]
      BY DEF D!SendSucceeds, D!Counted
    <3> QED
      BY <2>1, <2>2, <2>5, <3>1, <3>2 DEF IInv, EveryMessageCounts
  <2> QED
    BY <2>4, <2>5
<1> QED
  BY <1>1, <1>2, <1>3, <1>4, <1>5, <1>6 DEF IInv

\* An attempt that failed leaves the round where it was, or at "failed".
LEMMA CountFailureMoves ==
    ASSUME IInv, NEW i \in Instance, job[i] = "send", D!CountFailure(i),
           UNCHANGED <<status, advisory, connected, work, group, written>>
    PROVE  /\ job' \in [Instance -> {"down", "idle", "read", "next", "send", "sent",
                                    "failed", "unlock"}]
           /\ attempt' \in [Instance -> 0 .. MAX_RETRIES]
           /\ LockHeld'
           /\ RoundShape'
           /\ OwnsItsLogs'
           /\ OwnsItsUpdates'
           /\ \A l \in D!AlertLog : Told(l)' <=> Told(l)
<1>1. attempt[i] < MAX_RETRIES
  BY DEF IInv, RoundShape
<1>2. /\ job'[i] \in {"send", "failed"}
      /\ job'[i] = "send" => attempt'[i] < MAX_RETRIES
      /\ attempt'[i] \in 0 .. MAX_RETRIES
  BY <1>1, DigestAssumption DEF IInv, D!TypeOK, D!CountFailure
<1>3. \A j \in Instance : j # i => job'[j] = job[j] /\ attempt'[j] = attempt[j]
  BY DEF IInv, D!TypeOK, D!CountFailure
<1>4. /\ job' \in [Instance -> {"down", "idle", "read", "next", "send", "sent",
                               "failed", "unlock"}]
      /\ attempt' \in [Instance -> 0 .. MAX_RETRIES]
  BY <1>1, DigestAssumption DEF IInv, D!TypeOK, D!CountFailure
<1>5. LockHeld'
  BY <1>2, <1>3 DEF IInv, LockHeld, InRound
<1>6. RoundShape'
  BY <1>2, <1>3 DEF IInv, RoundShape
<1>7. OwnsItsLogs'
  BY DEF IInv, OwnsItsLogs
<1>8. OwnsItsUpdates'
  BY <1>2, <1>3 DEF IInv, OwnsItsUpdates
<1>9. \A l \in D!AlertLog : Told(l)' <=> Told(l)
  BY <1>2, <1>3 DEF Told, D!Untold
<1> QED
  BY <1>4, <1>5, <1>6, <1>7, <1>8, <1>9

LEMMA SendFailsIInv ==
    ASSUME IInv, NEW i \in Instance, D!SendFails(i)
    PROVE  IInv'
<1>1. /\ job[i] = "send"
      /\ D!CountFailure(i)
      /\ UNCHANGED <<status, advisory, connected, work, group, written>>
      /\ UNCHANGED <<events, retry_count, faults, delivered, spoilt>>
  BY DEF D!SendFails
<1>2. D!TypeOK'
  BY <1>1, CountFailureMoves DEF IInv, D!TypeOK
<1>3. LockHeld' /\ RoundShape' /\ OwnsItsLogs' /\ OwnsItsUpdates'
  BY <1>1, CountFailureMoves
<1>4. NotYetDispatched' /\ D!DecidedOnce'
  BY <1>1 DEF IInv, NotYetDispatched, D!DecidedOnce
<1>5. EveryMessageCounts'
  BY <1>1, CountFailureMoves, SameCounts DEF IInv
<1> QED
  BY <1>2, <1>3, <1>4, <1>5 DEF IInv

LEMMA SendTimesOutIInv ==
    ASSUME IInv, NEW i \in Instance, D!SendTimesOut(i)
    PROVE  IInv'
<1>1. /\ job[i] = "send"
      /\ D!CountFailure(i)
      /\ UNCHANGED <<status, advisory, connected, work, group, written>>
      /\ UNCHANGED <<events, retry_count>>
      /\ D!Fault
      /\ delivered' = D!Counted(delivered, group[i])
      /\ spoilt' = D!Counted(spoilt, group[i])
  BY DEF D!SendTimesOut
<1>2. D!TypeOK'
  <2>1. faults' \in 0 .. MaxFaults
    BY <1>1, DigestAssumption DEF IInv, D!TypeOK, D!Fault
  <2> QED
    BY <1>1, <2>1, CountFailureMoves, CountedIsCount DEF IInv, D!TypeOK
<1>3. LockHeld' /\ RoundShape' /\ OwnsItsLogs' /\ OwnsItsUpdates'
  BY <1>1, CountFailureMoves
<1>4. NotYetDispatched' /\ D!DecidedOnce'
  BY <1>1 DEF IInv, NotYetDispatched, D!DecidedOnce
<1>5. EveryMessageCounts'
  <2> SUFFICES ASSUME NEW l \in D!AlertLog
               PROVE  /\ Told(l)' => delivered'[l] = spoilt'[l] + 1
                      /\ ~ Told(l)' => delivered'[l] = spoilt'[l]
    BY DEF EveryMessageCounts
  <2>1. delivered[l] \in Nat /\ spoilt[l] \in Nat
    BY DEF IInv, D!TypeOK
  <2>2. Told(l)' <=> Told(l)
    BY <1>1, CountFailureMoves
  <2>3. /\ delivered'[l] = IF l \in group[i] THEN delivered[l] + 1 ELSE delivered[l]
        /\ spoilt'[l] = IF l \in group[i] THEN spoilt[l] + 1 ELSE spoilt[l]
    BY <1>1 DEF D!Counted
  <2> QED
    BY <2>1, <2>2, <2>3 DEF IInv, EveryMessageCounts
<1> QED
  BY <1>2, <1>3, <1>4, <1>5 DEF IInv

LEMMA RecordIInv ==
    ASSUME IInv, NEW i \in Instance, D!Record(i)
    PROVE  IInv'
<1>1. /\ job'[i] = "next" /\ group'[i] = {}
      /\ \A j \in Instance : j # i => /\ job'[j] = job[j] /\ group'[j] = group[j]
                                     /\ written'[j] = written[j]
  BY DEF IInv, D!TypeOK, D!Record
<1>2. \A l \in D!AlertLog :
         written'[i][l] = IF l \in group[i] THEN job[i] ELSE written[i][l]
  BY DEF IInv, D!TypeOK, D!Record
<1>3. D!TypeOK'
  <2>1. [l \in D!AlertLog |-> IF l \in group[i] THEN job[i] ELSE written[i][l]]
            \in [D!AlertLog -> {"none", "sent", "failed"}]
    BY DEF IInv, D!TypeOK, D!Record
  <2>2. written' \in [Instance -> [D!AlertLog -> {"none", "sent", "failed"}]]
    BY <2>1 DEF IInv, D!TypeOK, D!Record
  <2> QED
    BY <2>2 DEF IInv, D!TypeOK, D!Record
<1>4. LockHeld'
  BY <1>1 DEF IInv, LockHeld, D!Record, InRound
<1>5. RoundShape'
  BY <1>1 DEF IInv, RoundShape, D!Record
<1>6. OwnsItsLogs'
  BY <1>1 DEF IInv, OwnsItsLogs, D!Record
<1>7. OwnsItsUpdates'
  <2> SUFFICES ASSUME NEW j \in Instance, NEW l \in D!AlertLog, written'[j][l] # "none"
               PROVE  /\ connected[j]
                      /\ job'[j] \in {"next", "send", "sent", "failed"}
                      /\ status[l] = "pending"
                      /\ l \notin work[j]
                      /\ l \notin group'[j]
    BY DEF OwnsItsUpdates, D!Record
  <2>1. CASE j = i /\ l \in group[i]
    BY <1>1, <2>1 DEF IInv, RoundShape, OwnsItsLogs, D!Record
  <2>2. CASE ~ (j = i /\ l \in group[i])
    <3>1. written[j][l] # "none"
      BY <1>1, <1>2, <2>2
    <3> QED
      BY <1>1, <3>1 DEF IInv, OwnsItsUpdates
  <2> QED
    BY <2>1, <2>2
<1>8. NotYetDispatched' /\ D!DecidedOnce'
  BY DEF IInv, NotYetDispatched, D!DecidedOnce, D!Record
<1>9. EveryMessageCounts'
  <2>1. ASSUME NEW l \in D!AlertLog, NEW j \in Instance
        PROVE  l \in D!Untold(j)' <=> l \in D!Untold(j)
    <3>1. CASE j # i
      BY <1>1, <3>1 DEF D!Untold, D!Record
    <3>2. CASE j = i /\ l \notin group[i]
      BY <1>1, <1>2, <3>2 DEF D!Untold, D!Record
    <3>3. CASE j = i /\ l \in group[i]
      <4>1. written[i][l] = "none"
        BY <3>3 DEF IInv, OwnsItsUpdates
      <4> QED
        BY <1>1, <1>2, <3>3, <4>1 DEF D!Untold, D!Record
    <3> QED
      BY <3>1, <3>2, <3>3
  <2>2. \A l \in D!AlertLog : Told(l)' <=> Told(l)
    BY <2>1 DEF Told, D!Record
  <2> QED
    BY <2>2, SameCounts DEF IInv, D!Record
<1> QED
  BY <1>3, <1>4, <1>5, <1>6, <1>7, <1>8, <1>9 DEF IInv

\* While the round of i is live, no other session has anything to commit.
LEMMA OthersHaveNothingUntold ==
    ASSUME IInv, NEW i \in Instance, connected[i], job[i] \in InRound,
           NEW j \in Instance, j # i
    PROVE  D!Untold(j) = {} /\ \A l \in D!AlertLog : written[j][l] = "none"
<1>1. ~ (connected[j] /\ job[j] \in InRound)
  BY DEF IInv, LockHeld
<1> QED
  BY <1>1 DEF IInv, OwnsItsUpdates, D!Untold, InRound

LEMMA CommitIInv ==
    ASSUME IInv, NEW i \in Instance, D!Commit(i)
    PROVE  IInv'
<1>1. /\ job[i] = "next" /\ work[i] = {} /\ group[i] = {} /\ connected[i]
      /\ job'[i] = "unlock"
      /\ \A j \in Instance : j # i => job'[j] = job[j] /\ written'[j] = written[j]
      /\ \A l \in D!AlertLog : written'[i][l] = "none"
  BY DEF IInv, D!TypeOK, RoundShape, D!Commit, D!Nothing
<1>2. \A j \in Instance : j # i =>
         /\ D!Untold(j) = {}
         /\ ~ (connected[j] /\ job[j] \in InRound)
         /\ \A l \in D!AlertLog : written[j][l] = "none"
  BY <1>1, OthersHaveNothingUntold DEF IInv, LockHeld, InRound
<1>3. D!TypeOK'
  <2>1. status' \in [D!AlertLog -> {"absent", "pending", "sent", "failed"}]
    BY DEF IInv, D!TypeOK, D!Commit
  <2>2. D!Nothing \in [D!AlertLog -> {"none", "sent", "failed"}]
    BY DEF D!Nothing
  <2> QED
    BY <2>1, <2>2, CountedIsCount DEF IInv, D!TypeOK, D!Commit
<1>4. LockHeld'
  BY <1>1 DEF IInv, LockHeld, D!Commit, InRound
<1>5. RoundShape'
  BY <1>1 DEF IInv, RoundShape, D!Commit
<1>6. OwnsItsLogs'
  <2> SUFFICES ASSUME NEW j \in Instance, connected[j], NEW l \in work[j] \cup group[j]
               PROVE  status'[l] = "pending"
    BY DEF OwnsItsLogs, D!Commit
  <2>1. j # i
    BY <1>1
  <2>2. job[j] \in InRound
    BY DEF IInv, D!TypeOK, RoundShape, InRound
  <2> QED
    BY <1>2, <2>1, <2>2
<1>7. OwnsItsUpdates'
  <2> SUFFICES ASSUME NEW j \in Instance, NEW l \in D!AlertLog
               PROVE  written'[j][l] = "none"
    BY DEF OwnsItsUpdates
  <2> QED
    BY <1>1, <1>2
<1>8. NotYetDispatched'
  BY DEF IInv, OwnsItsUpdates, NotYetDispatched, D!Commit
<1>9. D!DecidedOnce'
  <2> SUFFICES ASSUME NEW l \in D!AlertLog
               PROVE  retry_count'[l] =
                        IF status'[l] \in {"sent", "failed"} THEN 1 ELSE 0
    BY DEF D!DecidedOnce
  <2>1. CASE written[i][l] = "none"
    BY <2>1 DEF IInv, D!DecidedOnce, D!Commit, D!Counted
  <2>2. CASE written[i][l] # "none"
    <3>1. status[l] = "pending" /\ retry_count[l] = 0
      BY <2>2 DEF IInv, OwnsItsUpdates, D!DecidedOnce
    <3>2. written[i][l] \in {"sent", "failed"}
      BY <2>2 DEF IInv, D!TypeOK
    <3> QED
      BY <2>2, <3>1, <3>2 DEF D!Commit, D!Counted
  <2> QED
    BY <2>1, <2>2
<1>10. EveryMessageCounts'
  <2>1. ASSUME NEW l \in D!AlertLog
        PROVE  Told(l)' <=> Told(l)
    <3>1. \A j \in Instance : l \notin D!Untold(j)'
      BY <1>1, <1>2 DEF D!Untold, D!Commit
    <3>2. Told(l) <=> status[l] = "sent" \/ written[i][l] = "sent"
      BY <1>1, <1>2 DEF Told, D!Untold
    <3>3. written[i][l] # "none" => status[l] = "pending"
      BY DEF IInv, OwnsItsUpdates
    <3>4. status'[l] = IF written[i][l] = "none" THEN status[l] ELSE written[i][l]
      BY DEF D!Commit
    <3>5. Told(l)' <=> status'[l] = "sent"
      BY <3>1 DEF Told
    <3> QED
      BY <3>2, <3>3, <3>4, <3>5
  <2> QED
    BY <2>1, SameCounts DEF IInv, D!Commit
<1> QED
  BY <1>3, <1>4, <1>5, <1>6, <1>7, <1>8, <1>9, <1>10 DEF IInv

LEMMA GiveUpIInv ==
    ASSUME IInv, NEW i \in Instance, D!GiveUp(i)
    PROVE  IInv'
<1>1. /\ ~ connected[i]
      /\ job'[i] = "unlock" /\ work'[i] = {} /\ group'[i] = {} /\ attempt'[i] = 0
      /\ \A j \in Instance : j # i => /\ job'[j] = job[j] /\ work'[j] = work[j]
                                     /\ group'[j] = group[j] /\ attempt'[j] = attempt[j]
  BY DEF IInv, D!TypeOK, D!GiveUp, D!EndRound
<1>2. D!TypeOK'
  BY DigestAssumption DEF IInv, D!TypeOK, D!GiveUp, D!EndRound
<1>3. LockHeld'
  BY <1>1 DEF IInv, LockHeld, D!GiveUp, InRound
<1>4. RoundShape'
  BY <1>1 DEF IInv, RoundShape
<1>5. OwnsItsLogs'
  BY <1>1 DEF IInv, OwnsItsLogs, D!GiveUp
<1>6. OwnsItsUpdates'
  BY <1>1 DEF IInv, OwnsItsUpdates, D!GiveUp
<1>7. NotYetDispatched' /\ D!DecidedOnce'
  BY DEF IInv, NotYetDispatched, D!DecidedOnce, D!GiveUp
<1>8. EveryMessageCounts'
  <2>1. \A l \in D!AlertLog : Told(l)' <=> Told(l)
    BY <1>1 DEF Told, D!Untold, D!GiveUp
  <2> QED
    BY <2>1, SameCounts DEF IInv, D!GiveUp
<1> QED
  BY <1>2, <1>3, <1>4, <1>5, <1>6, <1>7, <1>8 DEF IInv

LEMMA UnlockIInv ==
    ASSUME IInv, NEW i \in Instance, D!Unlock(i)
    PROVE  IInv'
<1>1. /\ job[i] = "unlock" /\ job'[i] = "idle"
      /\ work[i] = {} /\ group[i] = {}
      /\ \A l \in D!AlertLog : written[i][l] = "none"
      /\ \A j \in Instance : j # i => job'[j] = job[j]
      /\ \A j \in Instance : j # i => connected'[j] = connected[j]
  <2>1. /\ job[i] = "unlock"
        /\ job' = [job EXCEPT ![i] = "idle"]
        /\ connected' = [connected EXCEPT ![i] = TRUE]
    BY DEF D!Unlock
  <2>2. job'[i] = "idle" /\ \A j \in Instance : j # i => job'[j] = job[j]
    BY <2>1 DEF IInv, D!TypeOK
  <2>3. \A j \in Instance : j # i => connected'[j] = connected[j]
    BY <2>1 DEF IInv, D!TypeOK
  <2> QED
    BY <2>1, <2>2, <2>3 DEF IInv, RoundShape, OwnsItsUpdates
<1>2. D!TypeOK'
  BY DEF IInv, D!TypeOK, D!Unlock
<1>3. LockHeld'
  BY <1>1 DEF IInv, LockHeld, D!Unlock, InRound
<1>4. RoundShape'
  BY <1>1 DEF IInv, RoundShape, D!Unlock
<1>5. OwnsItsLogs' /\ OwnsItsUpdates'
  BY <1>1 DEF IInv, OwnsItsLogs, OwnsItsUpdates, D!Unlock
<1>6. NotYetDispatched' /\ D!DecidedOnce'
  BY DEF IInv, NotYetDispatched, D!DecidedOnce, D!Unlock
<1>7. EveryMessageCounts'
  <2>1. \A l \in D!AlertLog : Told(l)' <=> Told(l)
    BY <1>1 DEF Told, D!Untold, D!Unlock
  <2> QED
    BY <2>1, SameCounts DEF IInv, D!Unlock
<1> QED
  BY <1>2, <1>3, <1>4, <1>5, <1>6, <1>7 DEF IInv

\* What a session has delivered and not committed is pending for the others.
LEMMA UntoldIsPending ==
    ASSUME IInv, NEW i \in Instance, NEW l, l \in D!Untold(i)
    PROVE  connected[i] /\ job[i] \in InRound /\ status[l] = "pending"
<1>1. l \in {m \in D!AlertLog : /\ connected[i]
                             /\ \/ written[i][m] = "sent"
                                \/ job[i] = "sent" /\ m \in group[i]}
  BY Zenon DEF D!Untold
<1>2. CASE written[i][l] = "sent"
  BY <1>1, <1>2 DEF IInv, OwnsItsUpdates, InRound
<1>3. CASE job[i] = "sent" /\ l \in group[i]
  BY <1>1, <1>3 DEF IInv, OwnsItsLogs, InRound
<1> QED
  BY <1>1, <1>2, <1>3

\* When the server ends a session, what it had not committed counts as spoilt.
LEMMA EndSessionKeepsCounts ==
    ASSUME IInv, NEW i \in Instance, D!EndSession(i), UNCHANGED <<status, delivered>>,
           D!Untold(i)' = {},
           \A j \in Instance : j # i => D!Untold(j)' = D!Untold(j)
    PROVE  EveryMessageCounts'
<1> SUFFICES ASSUME NEW l \in D!AlertLog
             PROVE  /\ Told(l)' => delivered'[l] = spoilt'[l] + 1
                    /\ ~ Told(l)' => delivered'[l] = spoilt'[l]
  BY DEF EveryMessageCounts
<1>1. delivered[l] \in Nat /\ spoilt[l] \in Nat /\ delivered'[l] = delivered[l]
  BY DEF IInv, D!TypeOK
<1>2. spoilt'[l] = IF l \in D!Untold(i) THEN spoilt[l] + 1 ELSE spoilt[l]
  BY DEF D!EndSession, D!Counted
<1>3. CASE l \in D!Untold(i)
  <2>1. connected[i] /\ job[i] \in InRound /\ status[l] = "pending"
    BY <1>3, UntoldIsPending
  <2>2. ~ Told(l)'
    BY <2>1, OthersHaveNothingUntold DEF Told
  <2>3. Told(l)
    BY <1>3 DEF Told
  <2> QED
    BY <1>1, <1>2, <1>3, <2>2, <2>3 DEF IInv, EveryMessageCounts
<1>4. CASE l \notin D!Untold(i)
  <2>1. Told(l)' <=> Told(l)
    BY <1>4 DEF Told
  <2> QED
    BY <1>1, <1>2, <1>4, <2>1 DEF IInv, EveryMessageCounts
<1> QED
  BY <1>3, <1>4

LEMMA LoseConnectionIInv ==
    ASSUME IInv, NEW i \in Instance, D!LoseConnection(i)
    PROVE  IInv'
<1>1. /\ connected' = [connected EXCEPT ![i] = FALSE]
      /\ D!EndSession(i)
      /\ D!Fault
      /\ UNCHANGED <<events, status, retry_count, job, work, group, attempt, delivered>>
  BY DEF D!LoseConnection
<1>2. /\ ~ connected'[i]
      /\ \A l \in D!AlertLog : written'[i][l] = "none"
      /\ \A j \in Instance : j # i => connected'[j] = connected[j] /\ written'[j] = written[j]
  BY <1>1 DEF IInv, D!TypeOK, D!EndSession, D!Nothing
<1>3. D!TypeOK'
  <2>1. D!Nothing \in [D!AlertLog -> {"none", "sent", "failed"}]
    BY DEF D!Nothing
  <2>2. written' \in [Instance -> [D!AlertLog -> {"none", "sent", "failed"}]]
    BY <1>1, <2>1 DEF IInv, D!TypeOK, D!EndSession
  <2>3. spoilt' \in [D!AlertLog -> Nat]
    BY <1>1, CountedIsCount DEF IInv, D!TypeOK, D!EndSession
  <2>4. faults' \in 0 .. MaxFaults /\ advisory' \in Instance \cup {Nobody}
    BY <1>1, DigestAssumption DEF IInv, D!TypeOK, D!EndSession, D!Fault
  <2>5. connected' \in [Instance -> BOOLEAN]
    BY <1>1 DEF IInv, D!TypeOK
  <2> QED
    BY <1>1, <2>2, <2>3, <2>4, <2>5 DEF IInv, D!TypeOK
<1>4. LockHeld'
  BY <1>1, <1>2 DEF IInv, LockHeld, D!EndSession
<1>5. RoundShape'
  BY <1>1 DEF IInv, RoundShape
<1>6. OwnsItsLogs'
  BY <1>1, <1>2 DEF IInv, OwnsItsLogs
<1>7. OwnsItsUpdates'
  BY <1>1, <1>2 DEF IInv, OwnsItsUpdates
<1>8. NotYetDispatched' /\ D!DecidedOnce'
  BY <1>1 DEF IInv, NotYetDispatched, D!DecidedOnce
<1>9. EveryMessageCounts'
  <2>1. D!Untold(i)' = {}
    BY <1>2 DEF D!Untold
  <2>2. \A j \in Instance : j # i => D!Untold(j)' = D!Untold(j)
    BY <1>1, <1>2 DEF D!Untold
  <2> QED
    BY <1>1, <2>1, <2>2, EndSessionKeepsCounts
<1> QED
  BY <1>3, <1>4, <1>5, <1>6, <1>7, <1>8, <1>9 DEF IInv

LEMMA CrashIInv ==
    ASSUME IInv, NEW i \in Instance, D!Crash(i)
    PROVE  IInv'
<1>1. /\ job' = [job EXCEPT ![i] = "down"]
      /\ connected' = [connected EXCEPT ![i] = TRUE]
      /\ D!EndSession(i)
      /\ D!EndRound(i)
      /\ D!Fault
      /\ UNCHANGED <<events, status, retry_count, delivered>>
  BY DEF D!Crash
<1>2. /\ job'[i] = "down" /\ work'[i] = {} /\ group'[i] = {}
      /\ \A l \in D!AlertLog : written'[i][l] = "none"
  BY <1>1 DEF IInv, D!TypeOK, D!EndSession, D!EndRound, D!Nothing
<1>3. \A j \in Instance : j # i =>
         /\ job'[j] = job[j] /\ connected'[j] = connected[j] /\ written'[j] = written[j]
         /\ work'[j] = work[j] /\ group'[j] = group[j] /\ attempt'[j] = attempt[j]
  BY <1>1 DEF IInv, D!TypeOK, D!EndSession, D!EndRound
<1>4. D!TypeOK'
  <2>1. D!Nothing \in [D!AlertLog -> {"none", "sent", "failed"}]
    BY DEF D!Nothing
  <2>2. written' \in [Instance -> [D!AlertLog -> {"none", "sent", "failed"}]]
    BY <1>1, <2>1 DEF IInv, D!TypeOK, D!EndSession
  <2>3. spoilt' \in [D!AlertLog -> Nat]
    BY <1>1, CountedIsCount DEF IInv, D!TypeOK, D!EndSession
  <2>4. faults' \in 0 .. MaxFaults /\ advisory' \in Instance \cup {Nobody}
    BY <1>1, DigestAssumption DEF IInv, D!TypeOK, D!EndSession, D!Fault
  <2>5. /\ connected' \in [Instance -> BOOLEAN]
        /\ job' \in [Instance -> {"down", "idle", "read", "next", "send", "sent",
                                 "failed", "unlock"}]
    BY <1>1 DEF IInv, D!TypeOK
  <2>6. /\ work' \in [Instance -> SUBSET D!AlertLog]
        /\ group' \in [Instance -> SUBSET D!AlertLog]
        /\ attempt' \in [Instance -> 0 .. MAX_RETRIES]
    BY <1>1, DigestAssumption DEF IInv, D!TypeOK, D!EndRound
  <2> QED
    BY <1>1, <2>2, <2>3, <2>4, <2>5, <2>6 DEF IInv, D!TypeOK
<1>5. LockHeld'
  BY <1>1, <1>2, <1>3 DEF IInv, LockHeld, D!EndSession, InRound
<1>6. RoundShape'
  BY <1>2, <1>3 DEF IInv, RoundShape
<1>7. OwnsItsLogs'
  BY <1>1, <1>2, <1>3 DEF IInv, OwnsItsLogs
<1>8. OwnsItsUpdates'
  BY <1>1, <1>2, <1>3 DEF IInv, OwnsItsUpdates
<1>9. NotYetDispatched' /\ D!DecidedOnce'
  BY <1>1 DEF IInv, NotYetDispatched, D!DecidedOnce
<1>10. EveryMessageCounts'
  <2>1. D!Untold(i)' = {}
    BY <1>2 DEF D!Untold
  <2>2. \A j \in Instance : j # i => D!Untold(j)' = D!Untold(j)
    BY <1>3 DEF D!Untold
  <2> QED
    BY <1>1, <2>1, <2>2, EndSessionKeepsCounts
<1> QED
  BY <1>4, <1>5, <1>6, <1>7, <1>8, <1>9, <1>10 DEF IInv

LEMMA RestartIInv ==
    ASSUME IInv, NEW i \in Instance, D!Restart(i)
    PROVE  IInv'
<1>1. D!TypeOK'
  BY DEF IInv, D!TypeOK, D!Restart
<1>2. LockHeld'
  BY DEF IInv, D!TypeOK, LockHeld, D!Restart, InRound
<1>3. RoundShape' /\ OwnsItsLogs' /\ OwnsItsUpdates'
  BY DEF IInv, D!TypeOK, RoundShape, OwnsItsLogs, OwnsItsUpdates, D!Restart
<1>4. NotYetDispatched' /\ D!DecidedOnce'
  BY DEF IInv, NotYetDispatched, D!DecidedOnce, D!Restart
<1>5. EveryMessageCounts'
  <2>1. \A l \in D!AlertLog : Told(l)' <=> Told(l)
    BY DEF IInv, D!TypeOK, Told, D!Untold, D!Restart
  <2> QED
    BY <2>1, SameCounts DEF IInv, D!Restart
<1> QED
  BY <1>1, <1>2, <1>3, <1>4, <1>5 DEF IInv

LEMMA StutterIInv == IInv /\ UNCHANGED D!vars => IInv'
<1> SUFFICES ASSUME IInv, UNCHANGED D!vars PROVE IInv'
  OBVIOUS
<1>1. D!TypeOK' /\ LockHeld' /\ RoundShape'
  BY DEF IInv, D!TypeOK, LockHeld, RoundShape, D!vars
<1>2. OwnsItsLogs' /\ OwnsItsUpdates' /\ NotYetDispatched' /\ D!DecidedOnce'
  BY DEF IInv, OwnsItsLogs, OwnsItsUpdates, NotYetDispatched, D!DecidedOnce, D!vars
<1>3. EveryMessageCounts'
  BY DEF IInv, EveryMessageCounts, Told, D!Untold, D!vars
<1> QED
  BY <1>1, <1>2, <1>3 DEF IInv

LEMMA NextIInv == IInv /\ [D!Next]_(D!vars) => IInv'
<1> SUFFICES ASSUME IInv, [D!Next]_(D!vars) PROVE IInv'
  OBVIOUS
<1>1. ASSUME NEW t \in Task, NEW to \in SUBSET Address, D!Dispatch(t, to) PROVE IInv'
  BY <1>1, DispatchIInv
<1>2. ASSUME NEW i \in Instance, D!TryLock(i) PROVE IInv'
  BY <1>2, TryLockIInv
<1>3. ASSUME NEW i \in Instance, D!Round(i) PROVE IInv'
  <2>1. CASE D!ReadPending(i)
    BY <2>1, ReadPendingIInv
  <2>2. CASE D!NextGroup(i)
    BY <2>2, NextGroupIInv
  <2>3. CASE D!SendSucceeds(i)
    BY <2>3, SendSucceedsIInv
  <2>4. CASE D!SendFails(i)
    BY <2>4, SendFailsIInv
  <2>5. CASE D!SendTimesOut(i)
    BY <2>5, SendTimesOutIInv
  <2>6. CASE D!Record(i)
    BY <2>6, RecordIInv
  <2>7. CASE D!Commit(i)
    BY <2>7, CommitIInv
  <2>8. CASE D!GiveUp(i)
    BY <2>8, GiveUpIInv
  <2>9. CASE D!Unlock(i)
    BY <2>9, UnlockIInv
  <2> QED
    BY <1>3, <2>1, <2>2, <2>3, <2>4, <2>5, <2>6, <2>7, <2>8, <2>9 DEF D!Round
<1>4. ASSUME NEW i \in Instance, D!LoseConnection(i) PROVE IInv'
  BY <1>4, LoseConnectionIInv
<1>5. ASSUME NEW i \in Instance, D!Crash(i) PROVE IInv'
  BY <1>5, CrashIInv
<1>6. ASSUME NEW i \in Instance, D!Restart(i) PROVE IInv'
  BY <1>6, RestartIInv
<1>7. CASE UNCHANGED D!vars
  BY <1>7, StutterIInv
<1> QED
  BY <1>1, <1>2, <1>3, <1>4, <1>5, <1>6, <1>7 DEF D!Next

\* The strengthened invariant holds in every state the instances can reach.
THEOREM Invariance == D!Spec => []IInv
  BY InitIInv, NextIInv, PTL DEF D!Spec

\* Every variable keeps its type; in particular no round counts more attempts
\* than MAX_RETRIES.
THEOREM TypeCorrect == D!Spec => []D!TypeOK
<1>1. IInv => D!TypeOK
  BY DEF IInv
<1> QED
  BY <1>1, Invariance, PTL

\* digest.py sends a log again only after a message with it that the database
\* could not be told of, for any number of instances and faults.
THEOREM DuplicatesAreExplained == D!Spec => []NoUnexplainedDuplicate
<1>1. IInv => NoUnexplainedDuplicate
  BY DEF IInv, D!TypeOK, EveryMessageCounts, NoUnexplainedDuplicate, D!NoUnexplainedDuplicate
<1> QED
  BY <1>1, Invariance, PTL

\* A log that process_digest marks as sent has reached its address.
THEOREM SentMeansDelivered == D!Spec => []SentWasDelivered
<1>1. IInv => SentWasDelivered
  BY DEF IInv, D!TypeOK, EveryMessageCounts, Told, SentWasDelivered, D!SentWasDelivered
<1> QED
  BY <1>1, Invariance, PTL

\* Two rounds never decide the same log, lost locks or not.
THEOREM LogsAreDecidedOnce == D!Spec => []DecidedOnce
<1>1. IInv => DecidedOnce
  BY DEF IInv, DecidedOnce
<1> QED
  BY <1>1, Invariance, PTL

\* In MC_Locks the digest runs by its own, so what is proved of D!Spec holds there.
THEOREM DigestIsItself == MCSpec => D!Spec
<1>1. MCInit => D!Init
  BY DEF MCInit
<1>2. UNCHANGED digestVars <=> UNCHANGED D!vars
  BY DEF digestVars, D!vars
<1>3. [MCNext]_<<part, vars, digestVars>> => [D!Next]_(D!vars)
  BY <1>2 DEF MCNext
<1> QED
  BY <1>1, <1>3, PTL DEF MCSpec, D!Spec
=============================================================================
