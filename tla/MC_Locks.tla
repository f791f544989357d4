------------------------------- MODULE MC_Locks -------------------------------
(***************************************************************************)
(* TaskNumbering and AlertDigest, the two components that wait for locks   *)
(* of PostgreSQL, in one run.  They share no state, so instead of their    *)
(* product the initial state picks one of them, and only that one moves.   *)
(***************************************************************************)
EXTENDS TaskNumbering, DigestConstants

VARIABLES part, events, status, retry_count, advisory, job, connected, work, group,
          attempt, written, faults, delivered, spoilt

D == INSTANCE AlertDigest WITH lock <- advisory, pc <- job

digestVars == <<events, status, retry_count, advisory, job, connected, work, group,
                attempt, written, faults, delivered, spoilt>>

MCInit == part \in {"numbering", "digest"} /\ Init /\ D!Init

MCNext ==
    /\ UNCHANGED part
    /\ \/ part = "numbering" /\ Next /\ UNCHANGED digestVars
       \/ part = "digest" /\ D!Next /\ UNCHANGED vars

\* The fairness of the two parts; the job of the digest fires where it runs.
MCSpec ==
    /\ MCInit /\ [][MCNext]_<<part, vars, digestVars>>
    /\ Fairness
    /\ \A i \in Instance : /\ WF_digestVars(part = "digest" /\ D!TryLock(i))
                           /\ WF_digestVars(D!Round(i))
                           /\ WF_digestVars(D!Restart(i))

NoUnexplainedDuplicate == D!NoUnexplainedDuplicate
SentWasDelivered == D!SentWasDelivered
DecidedOnce == D!DecidedOnce
EveryLogIsDecided == D!EveryLogIsDecided
=============================================================================
