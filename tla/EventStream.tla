----------------------------- MODULE EventStream ----------------------------
(***************************************************************************)
(* What the event bus promises the clients of a project: each receives     *)
(* events of the project in the order of their arrival, none of them       *)
(* twice, and perhaps not all of them.                                     *)
(***************************************************************************)
EXTENDS Naturals, Sequences

CONSTANT Client

VARIABLES latest,       \* the events that have arrived are 1..latest
          received      \* received[c]: what client c has got, in order

vars == <<latest, received>>

Init ==
    /\ latest = 0
    /\ received = [c \in Client |-> <<>>]

Arrive ==
    /\ latest' = latest + 1
    /\ UNCHANGED received

\* An event is newer than everything the client has got before.
Receive(c) ==
    \E n \in 1 .. latest :
        /\ \A i \in DOMAIN received[c] : received[c][i] < n
        /\ received' = [received EXCEPT ![c] = Append(@, n)]
        /\ UNCHANGED latest

Next == Arrive \/ \E c \in Client : Receive(c)

Spec == Init /\ [][Next]_vars
=============================================================================
