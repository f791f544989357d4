--------------------------- MODULE DigestConstants ---------------------------
(* The constants of AlertDigest. *)
EXTENDS Naturals

CONSTANTS Instance,         \* backend processes
          Nobody,           \* the advisory lock is free
          Address,          \* pairs of a user and a channel
          Task,
          MAX_RETRIES,      \* _MAX_RETRIES, 3 in the code
          MaxAlerts,        \* bound: events dispatched
          MaxFaults         \* bound: crashes, lost connections, late answers

ASSUME DigestAssumption ==
    /\ Nobody \notin Instance
    /\ MAX_RETRIES \in Nat \ {0}
    /\ MaxAlerts \in Nat
    /\ MaxFaults \in Nat
=============================================================================
