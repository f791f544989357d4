---------------------------- MODULE AlertDigest ----------------------------
(***************************************************************************)
(* The digest of pending notifications (services/alert/digest.py), run     *)
(* every five minutes by the scheduler of each backend instance            *)
(* (services/alert/scheduler.py) under a PostgreSQL advisory lock.         *)
(*                                                                         *)
(* The lock and the transaction of a round live on one connection: when    *)
(* it is lost, the server releases the first and rolls back the second at  *)
(* once, and the instance learns of it at its next statement.  A message   *)
(* leaves before the outcome is committed, and one commit closes the whole *)
(* round.                                                                  *)
(*                                                                         *)
(* A log is what dispatch wrote for one address (a user and a channel) and *)
(* one event of a task.  delivered and spoilt are history variables: how   *)
(* many messages with the log have reached the address, and how many of    *)
(* these the database was not told of, or can no longer be.                *)
(***************************************************************************)
EXTENDS DigestConstants

AlertLog == [to : Address, task : Task, event : 1 .. MaxAlerts]

VARIABLES events,       \* events dispatched so far
          status,       \* committed column, "absent" before the row exists
          retry_count,  \* committed column
          lock,         \* holder of the advisory lock
          pc,           \* where the job of an instance is
          connected,    \* its connection is alive
          work,         \* logs its round has read and not come to
          group,        \* the logs of the message it is sending
          attempt,      \* failed attempts to send that message
          written,      \* its uncommitted updates
          faults,       \* faults so far
          delivered,    \* history: see above
          spoilt        \* history: see above

vars == <<events, status, retry_count, lock, pc, connected, work, group,
          attempt, written, faults, delivered, spoilt>>

TypeOK ==
    /\ events \in 0 .. MaxAlerts
    /\ status \in [AlertLog -> {"absent", "pending", "sent", "failed"}]
    /\ retry_count \in [AlertLog -> Nat]
    /\ lock \in Instance \cup {Nobody}
    /\ pc \in [Instance -> {"down", "idle", "read", "next", "send", "sent",
                            "failed", "unlock"}]
    /\ connected \in [Instance -> BOOLEAN]
    /\ work \in [Instance -> SUBSET AlertLog]
    /\ group \in [Instance -> SUBSET AlertLog]
    /\ attempt \in [Instance -> 0 .. MAX_RETRIES]
    /\ written \in [Instance -> [AlertLog -> {"none", "sent", "failed"}]]
    /\ faults \in 0 .. MaxFaults
    /\ delivered \in [AlertLog -> Nat]
    /\ spoilt \in [AlertLog -> Nat]

Nothing == [l \in AlertLog |-> "none"]

Init ==
    /\ events = 0
    /\ status = [l \in AlertLog |-> "absent"]
    /\ retry_count = [l \in AlertLog |-> 0]
    /\ lock = Nobody
    /\ pc = [i \in Instance |-> "idle"]
    /\ connected = [i \in Instance |-> TRUE]
    /\ work = [i \in Instance |-> {}]
    /\ group = [i \in Instance |-> {}]
    /\ attempt = [i \in Instance |-> 0]
    /\ written = [i \in Instance |-> Nothing]
    /\ faults = 0
    /\ delivered = [l \in AlertLog |-> 0]
    /\ spoilt = [l \in AlertLog |-> 0]

-----------------------------------------------------------------------------
Pending == {l \in AlertLog : status[l] = "pending"}

\* c counts once more for every log of S.
Counted(c, S) == [l \in AlertLog |-> IF l \in S THEN c[l] + 1 ELSE c[l]]

\* What the live connection of i has yet to commit as delivered.
Untold(i) ==
    {l \in AlertLog : /\ connected[i]
                      /\ \/ written[i][l] = "sent"
                         \/ pc[i] = "sent" /\ l \in group[i]}

\* The server ends the session of i: transaction and advisory lock are gone.
EndSession(i) ==
    /\ lock' = IF lock = i THEN Nobody ELSE lock
    /\ written' = [written EXCEPT ![i] = Nothing]
    /\ spoilt' = Counted(spoilt, Untold(i))

EndRound(i) ==
    /\ work' = [work EXCEPT ![i] = {}]
    /\ group' = [group EXCEPT ![i] = {}]
    /\ attempt' = [attempt EXCEPT ![i] = 0]

Fault ==
    /\ faults < MaxFaults
    /\ faults' = faults + 1

-----------------------------------------------------------------------------
\* dispatch, and the commit of its caller: one pending log for each address.
Dispatch(t, to) ==
    /\ events < MaxAlerts
    /\ to # {}
    /\ events' = events + 1
    /\ status' = [l \in AlertLog |->
                    IF l.event = events' /\ l.task = t /\ l.to \in to
                    THEN "pending" ELSE status[l]]
    /\ UNCHANGED <<retry_count, lock, pc, connected, work, group, attempt,
                   written, faults, delivered, spoilt>>

\* Mutant: the answer of pg_try_advisory_lock is not looked at.
TryLockUnchecked(i) ==
    /\ pc[i] = "idle"
    /\ lock' = i
    /\ pc' = [pc EXCEPT ![i] = "read"]
    /\ UNCHANGED <<events, status, retry_count, connected, work, group, attempt,
                   written, faults, delivered, spoilt>>

\* The job fires and gets the lock; when it does not, it returns at once.
TryLock(i) ==
    /\ pc[i] = "idle"
    /\ lock = Nobody
    /\ lock' = i
    /\ pc' = [pc EXCEPT ![i] = "read"]
    /\ UNCHANGED <<events, status, retry_count, connected, work, group, attempt,
                   written, faults, delivered, spoilt>>

\* Mutant: the filter on the status is lost, every log is read.
ReadEverything(i) ==
    /\ pc[i] = "read"
    /\ connected[i]
    /\ LET rows == {l \in AlertLog : status[l] # "absent"}
       IN  /\ work' = [work EXCEPT ![i] = rows]
           /\ pc' = [pc EXCEPT ![i] = IF rows = {} THEN "unlock" ELSE "next"]
    /\ UNCHANGED <<events, status, retry_count, lock, connected, group, attempt,
                   written, faults, delivered, spoilt>>

\* process_digest reads the pending logs, and their users and configurations.
ReadPending(i) ==
    /\ pc[i] = "read"
    /\ connected[i]
    /\ work' = [work EXCEPT ![i] = Pending]
    /\ pc' = [pc EXCEPT ![i] = IF Pending = {} THEN "unlock" ELSE "next"]
    /\ UNCHANGED <<events, status, retry_count, lock, connected, group, attempt,
                   written, faults, delivered, spoilt>>

\* The next message: what the round has for one address about one task.
NextGroup(i) ==
    /\ pc[i] = "next"
    /\ \E l \in work[i] :
          LET same == {m \in work[i] : m.to = l.to /\ m.task = l.task}
          IN  /\ group' = [group EXCEPT ![i] = same]
              /\ work' = [work EXCEPT ![i] = @ \ same]
    /\ attempt' = [attempt EXCEPT ![i] = 0]
    /\ pc' = [pc EXCEPT ![i] = "send"]
    /\ UNCHANGED <<events, status, retry_count, lock, connected, written, faults,
                   delivered, spoilt>>

\* An attempt that the channel confirms.
SendSucceeds(i) ==
    /\ pc[i] = "send"
    /\ pc' = [pc EXCEPT ![i] = "sent"]
    /\ delivered' = Counted(delivered, group[i])
    /\ spoilt' = IF connected[i] THEN spoilt ELSE Counted(spoilt, group[i])
    /\ UNCHANGED <<events, status, retry_count, lock, connected, work, group,
                   attempt, written, faults>>

\* Mutant: a message that was refused counts as sent.
CountFailureAsSent(i) ==
    /\ attempt' = [attempt EXCEPT ![i] = @ + 1]
    /\ pc' = [pc EXCEPT ![i] =
                IF attempt[i] + 1 < MAX_RETRIES THEN "send" ELSE "sent"]

CountFailure(i) ==
    /\ attempt' = [attempt EXCEPT ![i] = @ + 1]
    /\ pc' = [pc EXCEPT ![i] =
                IF attempt[i] + 1 < MAX_RETRIES THEN "send" ELSE "failed"]

\* An attempt that does not reach the address; another one follows in time.
SendFails(i) ==
    /\ pc[i] = "send"
    /\ CountFailure(i)
    /\ UNCHANGED <<events, status, retry_count, lock, connected, work, group,
                   written, faults, delivered, spoilt>>

\* An attempt that reaches the address, but whose answer is late or lost.
SendTimesOut(i) ==
    /\ pc[i] = "send"
    /\ Fault
    /\ CountFailure(i)
    /\ delivered' = Counted(delivered, group[i])
    /\ spoilt' = Counted(spoilt, group[i])
    /\ UNCHANGED <<events, status, retry_count, lock, connected, work, group,
                   written>>

\* The UPDATE of the logs of the group.
Record(i) ==
    /\ pc[i] \in {"sent", "failed"}
    /\ connected[i]
    /\ written' = [written EXCEPT ![i] =
                     [l \in AlertLog |-> IF l \in group[i] THEN pc[i] ELSE @[l]]]
    /\ group' = [group EXCEPT ![i] = {}]
    /\ pc' = [pc EXCEPT ![i] = "next"]
    /\ UNCHANGED <<events, status, retry_count, lock, connected, work, attempt,
                   faults, delivered, spoilt>>

\* The one commit of the round.
Commit(i) ==
    /\ pc[i] = "next"
    /\ work[i] = {}
    /\ connected[i]
    /\ status' = [l \in AlertLog |->
                    IF written[i][l] = "none" THEN status[l] ELSE written[i][l]]
    /\ retry_count' = Counted(retry_count,
                              {l \in AlertLog : written[i][l] # "none"})
    /\ written' = [written EXCEPT ![i] = Nothing]
    /\ pc' = [pc EXCEPT ![i] = "unlock"]
    /\ UNCHANGED <<events, lock, connected, work, group, attempt, faults,
                   delivered, spoilt>>

\* A statement on the lost connection raises: the round is given up.
GiveUp(i) ==
    /\ ~connected[i]
    /\ \/ pc[i] \in {"read", "sent", "failed"}
       \/ pc[i] = "next" /\ work[i] = {}
    /\ pc' = [pc EXCEPT ![i] = "unlock"]
    /\ EndRound(i)
    /\ UNCHANGED <<events, status, retry_count, lock, connected, written, faults,
                   delivered, spoilt>>

\* Mutant: the round leaves without pg_advisory_unlock.
UnlockForgotten(i) ==
    /\ pc[i] = "unlock"
    /\ connected' = [connected EXCEPT ![i] = TRUE]
    /\ pc' = [pc EXCEPT ![i] = "idle"]
    /\ UNCHANGED <<events, status, retry_count, lock, work, group, attempt,
                   written, faults, delivered, spoilt>>

\* pg_advisory_unlock, on a new connection when the old one is lost: the lock
\* of another session is out of its reach.
Unlock(i) ==
    /\ pc[i] = "unlock"
    /\ lock' = IF lock = i THEN Nobody ELSE lock
    /\ connected' = [connected EXCEPT ![i] = TRUE]
    /\ pc' = [pc EXCEPT ![i] = "idle"]
    /\ UNCHANGED <<events, status, retry_count, work, group, attempt, written,
                   faults, delivered, spoilt>>

-----------------------------------------------------------------------------
LoseConnection(i) ==
    /\ pc[i] \notin {"down", "idle"}
    /\ connected[i]
    /\ Fault
    /\ connected' = [connected EXCEPT ![i] = FALSE]
    /\ EndSession(i)
    /\ UNCHANGED <<events, status, retry_count, pc, work, group, attempt,
                   delivered>>

\* The process dies, or is stopped in the middle of a round.
Crash(i) ==
    /\ pc[i] # "down"
    /\ Fault
    /\ pc' = [pc EXCEPT ![i] = "down"]
    /\ connected' = [connected EXCEPT ![i] = TRUE]
    /\ EndSession(i)
    /\ EndRound(i)
    /\ UNCHANGED <<events, status, retry_count, delivered>>

Restart(i) ==
    /\ pc[i] = "down"
    /\ pc' = [pc EXCEPT ![i] = "idle"]
    /\ UNCHANGED <<events, status, retry_count, lock, connected, work, group,
                   attempt, written, faults, delivered, spoilt>>

Round(i) ==
    \/ ReadPending(i)
    \/ NextGroup(i)
    \/ SendSucceeds(i)
    \/ SendFails(i)
    \/ SendTimesOut(i)
    \/ Record(i)
    \/ Commit(i)
    \/ GiveUp(i)
    \/ Unlock(i)

Next ==
    \/ \E t \in Task, to \in SUBSET Address : Dispatch(t, to)
    \/ \E i \in Instance :
          \/ TryLock(i)
          \/ Round(i)
          \/ LoseConnection(i)
          \/ Crash(i)
          \/ Restart(i)

Spec == Init /\ [][Next]_vars

\* The job fires every five minutes, a round it started goes on, and a process
\* that died is started again.
Fairness ==
    \A i \in Instance : WF_vars(TryLock(i)) /\ WF_vars(Round(i)) /\ WF_vars(Restart(i))

FairSpec == Spec /\ Fairness

-----------------------------------------------------------------------------
\* A log is in more messages than one only if the database was not told of the
\* others: the answer of the channel was late, or the process or its connection
\* went down between the message and the commit.  Whatever the instances do, the
\* lock keeps two of them from sending the same log on top of that.
NoUnexplainedDuplicate ==
    \A l \in AlertLog : delivered[l] <= spoilt[l] + 1

\* A log that is recorded as sent has reached its address.
SentWasDelivered ==
    \A l \in AlertLog : status[l] = "sent" => delivered[l] >= 1

\* One round decides a log, once: retry_count + 1 is committed for it with the
\* outcome, by no second round, not even by one that had lost its lock.
DecidedOnce ==
    \A l \in AlertLog :
        retry_count[l] = IF status[l] \in {"sent", "failed"} THEN 1 ELSE 0

\* Every pending log is sent or given up, whichever instances and connections
\* go down on the way.
EveryLogIsDecided ==
    \A l \in AlertLog :
        (status[l] = "pending") ~> (status[l] \in {"sent", "failed"})
=============================================================================
