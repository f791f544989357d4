--------------------------- MODULE EventBusProofs ---------------------------
(***************************************************************************)
(* For every number of clients and every size of the buffer and of the     *)
(* queues: the bus delivers in order and at most once, and a live client   *)
(* loses only what arrived during its replay or found its queue full.      *)
(***************************************************************************)
EXTENDS EventBus, SequenceTheorems, TLAPS

Rising(s) == \A i, j \in DOMAIN s : i < j => s[i] < s[j]

\* Everything in s came before everything in t.
Before(s, t) == \A i \in DOMAIN s, j \in DOMAIN t : s[i] < t[j]

\* s ends with k and has no gaps.
Tight(s, k) == \A i \in DOMAIN s : s[i] = k - Len(s) + i

InOrder(c) ==
    /\ Rising(received[c]) /\ Rising(replay[c]) /\ Rising(queue[c])
    /\ Before(received[c], replay[c]) /\ Before(received[c], queue[c])

\* Only a live client has a queue, only one that is not live yet a replay.
InPhase(c) ==
    /\ phase[c] # "live" => queue[c] = <<>>
    /\ phase[c] # "replay" => replay[c] = <<>>

\* What a connected client is owed it has got, is about to get, or has lost.
Accounted(c) ==
    phase[c] # "off" =>
        (base[c] + 1) .. latest
            \subseteq Elements(received[c]) \cup Elements(replay[c])
                        \cup Elements(queue[c]) \cup lost[c]

ClientOK(c) == InOrder(c) /\ InPhase(c) /\ Accounted(c)

IInv ==
    /\ TypeOK
    /\ Tight(buffer, latest)
    /\ \A c \in Client : ClientOK(c)

-----------------------------------------------------------------------------
\* What appending and taking the head do to a sequence that rises.
LEMMA AppendRising ==
    ASSUME NEW s \in Seq(Nat), Rising(s), NEW n \in Nat,
           \A i \in DOMAIN s : s[i] < n
    PROVE  Rising(Append(s, n))
  BY DEF Rising

LEMMA AppendElements ==
    ASSUME NEW S, NEW s \in Seq(S), NEW n \in S
    PROVE  Elements(Append(s, n)) = Elements(s) \cup {n}
<1>1. Elements(Append(s, n)) \subseteq Elements(s) \cup {n}
  BY DEF Elements
<1>2. \A i \in DOMAIN s : i \in DOMAIN Append(s, n) /\ Append(s, n)[i] = s[i]
  OBVIOUS
<1>3. Len(s) + 1 \in DOMAIN Append(s, n) /\ Append(s, n)[Len(s) + 1] = n
  OBVIOUS
<1> QED
  BY <1>1, <1>2, <1>3 DEF Elements

LEMMA HeadIsFirst ==
    ASSUME NEW S, NEW s \in Seq(S), s # <<>>
    PROVE  Head(s) = s[1] /\ 1 \in DOMAIN s /\ Head(s) \in S
<1>1. Head(s) \in S
  BY HeadTailProperties
<1> QED
  BY <1>1

LEMMA TailRising ==
    ASSUME NEW s \in Seq(Nat), s # <<>>, Rising(s)
    PROVE  /\ Rising(Tail(s))
           /\ \A i \in DOMAIN Tail(s) : Head(s) < Tail(s)[i]
<1>1. /\ Len(Tail(s)) = Len(s) - 1
      /\ \A i \in 1 .. Len(Tail(s)) : Tail(s)[i] = s[i + 1]
      /\ Tail(s) \in Seq(Nat)
  BY HeadTailProperties
<1> DEFINE t == Tail(s)
<1>2. DOMAIN t = 1 .. Len(t) /\ DOMAIN s = 1 .. Len(s) /\ Len(s) \in Nat \ {0}
  BY <1>1
<1>3. Head(s) = s[1]
  OBVIOUS
<1>4. \A i \in DOMAIN t : /\ t[i] = s[i + 1]
                         /\ i \in Nat \ {0}
                         /\ i + 1 \in DOMAIN s
                         /\ 1 \in DOMAIN s
  BY <1>1, <1>2
<1> HIDE DEF t
<1>5. Rising(t)
  BY <1>4 DEF Rising
<1>6. \A i \in DOMAIN t : s[1] < t[i]
  <2> SUFFICES ASSUME NEW i \in DOMAIN t
               PROVE  s[1] < s[i + 1]
    BY <1>4
  <2>1. 1 < i + 1
    BY <1>4
  <2> QED
    BY <1>4, <2>1 DEF Rising
<1> QED
  BY <1>3, <1>5, <1>6 DEF t

LEMMA HeadElements ==
    ASSUME NEW S, NEW s \in Seq(S), s # <<>>
    PROVE  Elements(s) = {Head(s)} \cup Elements(Tail(s))
<1>1. /\ Len(Tail(s)) = Len(s) - 1
      /\ \A i \in 1 .. Len(Tail(s)) : Tail(s)[i] = s[i + 1]
      /\ Tail(s) \in Seq(S)
  BY HeadTailProperties
<1>2. Head(s) = s[1] /\ 1 \in DOMAIN s
  OBVIOUS
<1>3. ASSUME NEW x \in Elements(s)
      PROVE  x \in {Head(s)} \cup Elements(Tail(s))
  <2>1. PICK i \in DOMAIN s : x = s[i]
    BY DEF Elements
  <2>2. CASE i = 1
    BY <1>2, <2>1, <2>2
  <2>3. CASE i # 1
    <3>1. i - 1 \in DOMAIN Tail(s) /\ Tail(s)[i - 1] = s[i]
      BY <1>1, <2>1, <2>3
    <3> QED
      BY <2>1, <3>1 DEF Elements
  <2> QED
    BY <2>2, <2>3
<1>4. \A i \in DOMAIN Tail(s) : i + 1 \in DOMAIN s /\ s[i + 1] = Tail(s)[i]
  BY <1>1
<1>5. Elements(Tail(s)) \subseteq Elements(s)
  BY <1>4 DEF Elements
<1> QED
  BY <1>2, <1>3, <1>5 DEF Elements

\* A suffix of a sequence without gaps, and the next number after it.
LEMMA TightSuffix ==
    ASSUME NEW k \in Nat, NEW s \in Seq(1 .. k), Tight(s, k),
           NEW a \in 1 .. Len(s) + 1
    PROVE  /\ SubSeq(s, a, Len(s)) \in Seq(1 .. k)
           /\ Len(SubSeq(s, a, Len(s))) = Len(s) - a + 1
           /\ Tight(SubSeq(s, a, Len(s)), k)
<1>1. \A i \in a .. Len(s) : s[i] \in 1 .. k
  OBVIOUS
<1> DEFINE b == Len(s)
<1>2. b \in Nat /\ a \in Int /\ b \in Int
  OBVIOUS
<1> DEFINE t == SubSeq(s, a, b)
<1>3. /\ t \in Seq(1 .. k)
      /\ Len(t) = IF a <= b THEN b - a + 1 ELSE 0
      /\ \A i \in 1 .. b - a + 1 : t[i] = s[a + i - 1]
  BY <1>1, <1>2, SubSeqProperties
<1>4. Len(t) = b - a + 1
  BY <1>2, <1>3
<1>5. \A i \in 1 .. Len(t) : a + i - 1 \in DOMAIN s
  BY <1>2, <1>4
<1>6. Tight(t, k)
  <2> HIDE DEF t
  <2>3. DOMAIN t = 1 .. Len(t)
    BY <1>3
  <2> SUFFICES ASSUME NEW i \in 1 .. Len(t)
               PROVE  t[i] = k - Len(t) + i
    BY <2>3 DEF Tight
  <2>1. t[i] = s[a + i - 1]
    BY <1>3, <1>4
  <2>2. s[a + i - 1] = k - b + (a + i - 1)
    BY <1>5 DEF Tight
  <2> QED
    BY <1>2, <1>4, <2>1, <2>2
<1> QED
  BY <1>3, <1>4, <1>6

LEMMA TightAppend ==
    ASSUME NEW k \in Nat, NEW s \in Seq(1 .. k), Tight(s, k)
    PROVE  /\ Append(s, k + 1) \in Seq(1 .. k + 1)
           /\ Tight(Append(s, k + 1), k + 1)
<1>1. s \in Seq(1 .. k + 1)
  <2>1. 1 .. k \subseteq 1 .. k + 1
    OBVIOUS
  <2> QED
    BY <2>1, SeqMonotonic
<1>2. k + 1 \in 1 .. k + 1
  OBVIOUS
<1> DEFINE t == Append(s, k + 1)
<1>3. /\ t \in Seq(1 .. k + 1)
      /\ Len(t) = Len(s) + 1
      /\ \A i \in 1 .. Len(s) : t[i] = s[i]
      /\ t[Len(s) + 1] = k + 1
  BY <1>1, <1>2, AppendProperties
<1>4. Len(s) \in Nat /\ \A i \in 1 .. Len(s) : s[i] = k - Len(s) + i
  BY DEF Tight
<1> HIDE DEF t
<1>5. ASSUME NEW i \in 1 .. Len(t)
      PROVE  t[i] = k + 1 - Len(t) + i
  <2> DEFINE l == Len(s)
  <2>1. l \in Nat /\ Len(t) = l + 1 /\ i \in 1 .. l + 1
    BY <1>3, <1>4
  <2>2. CASE i = l + 1
    BY <1>3, <2>1, <2>2
  <2>3. CASE i \in 1 .. l
    <3>1. t[i] = k - l + i
      BY <1>3, <1>4, <2>3
    <3> HIDE DEF l
    <3> QED
      BY <2>1, <2>3, <3>1
  <2> QED
    BY <2>1, <2>2, <2>3
<1> QED
  BY <1>3, <1>5 DEF Tight, t

\* A sequence without gaps rises, and lists the numbers after k - Len(s).
LEMMA TightLists ==
    ASSUME NEW k \in Nat, NEW s \in Seq(1 .. k), Tight(s, k)
    PROVE  /\ Rising(s)
           /\ \A i \in DOMAIN s : k - Len(s) < s[i]
           /\ (k - Len(s) + 1) .. k \subseteq Elements(s)
<1>1. Rising(s) /\ \A i \in DOMAIN s : k - Len(s) < s[i]
  BY DEF Tight, Rising
<1>2. ASSUME NEW x \in (k - Len(s) + 1) .. k
      PROVE  x \in Elements(s)
  <2>1. x - (k - Len(s)) \in 1 .. Len(s)
    OBVIOUS
  <2>2. s[x - (k - Len(s))] = k - Len(s) + (x - (k - Len(s)))
    BY <2>1 DEF Tight
  <2>3. s[x - (k - Len(s))] = x
    BY <2>2
  <2> QED
    BY <2>1, <2>3 DEF Elements
<1> QED
  BY <1>1, <1>2

\* The replay has exactly the events after n, or nothing.
LEMMA Buffered ==
    ASSUME TypeOK, Tight(buffer, latest), NEW n \in 1 .. latest
    PROVE  /\ BufferedAfter(n) \in Seq(1 .. latest)
           /\ Rising(BufferedAfter(n))
           /\ \A i \in DOMAIN BufferedAfter(n) : n < BufferedAfter(n)[i]
           /\ BufferedAfter(n) # <<>> =>
                 (n + 1) .. latest \subseteq Elements(BufferedAfter(n))
<1> DEFINE at == {i \in DOMAIN Unexpired : Unexpired[i] = n}
<1>1. latest \in Nat /\ buffer \in Seq(1 .. latest) /\ expired + 1 \in 1 .. Len(buffer) + 1
  BY DEF TypeOK
<1>2. Unexpired \in Seq(1 .. latest) /\ Tight(Unexpired, latest)
  BY <1>1, TightSuffix DEF Unexpired
<1>3. CASE at = {}
  <2>1. BufferedAfter(n) = <<>>
    BY <1>3 DEF BufferedAfter
  <2> QED
    BY <2>1 DEF Rising
<1>4. CASE at # {}
  <2> DEFINE i == CHOOSE j \in at : TRUE
  <2> DEFINE U == Unexpired
  <2> DEFINE m == SubSeq(U, i + 1, Len(U))
  <2>1. i \in at
    BY <1>4
  <2>2. i \in 1 .. Len(U) /\ U[i] = n
    BY <1>2, <2>1
  <2>3. BufferedAfter(n) = m
    BY <1>4 DEF BufferedAfter
  <2> HIDE DEF i, at
  <2>4. n = latest - Len(U) + i
    BY <1>2, <2>2 DEF Tight
  <2>5. m \in Seq(1 .. latest) /\ Len(m) = Len(U) - i /\ Tight(m, latest)
    <3>1. U \in Seq(1 .. latest) /\ Tight(U, latest) /\ i + 1 \in 1 .. Len(U) + 1
      BY <1>2, <2>2
    <3> HIDE DEF U
    <3>2. /\ m \in Seq(1 .. latest)
          /\ Len(m) = Len(U) - (i + 1) + 1
          /\ Tight(m, latest)
      BY <1>1, <3>1, TightSuffix
    <3>3. Len(U) \in Nat /\ i \in Nat
      BY <3>1, <2>2
    <3> QED
      BY <3>2, <3>3
  <2>6. latest - Len(m) = n
    <3> DEFINE l == Len(U)
    <3>1. l \in Nat /\ i \in 1 .. l /\ Len(m) = l - i /\ n = latest - l + i
      BY <1>2, <2>2, <2>4, <2>5
    <3> HIDE DEF l, m
    <3> QED
      BY <1>1, <3>1
  <2>7. Rising(m) /\ (\A j \in DOMAIN m : n < m[j]) /\ (n + 1) .. latest \subseteq Elements(m)
    <3> HIDE DEF m
    <3> QED
      BY <1>1, <2>5, <2>6, TightLists
  <2> QED
    BY <2>3, <2>5, <2>7
<1> QED
  BY <1>3, <1>4

-----------------------------------------------------------------------------
LEMMA ArriveTyped ==
    ASSUME IInv, Arrive
    PROVE  TypeOK' /\ Tight(buffer, latest)'
<1> DEFINE n == latest + 1
<1>1. latest \in Nat /\ latest' = n /\ n \in 1 .. n /\ 1 .. latest \subseteq 1 .. n
  BY DEF IInv, TypeOK, Arrive
<1>2. Unexpired \in Seq(1 .. latest) /\ Tight(Unexpired, latest)
  <2>1. buffer \in Seq(1 .. latest) /\ expired + 1 \in 1 .. Len(buffer) + 1
    BY DEF IInv, TypeOK
  <2> QED
    BY <1>1, <2>1, TightSuffix DEF IInv, Unexpired
<1> DEFINE fresh == Append(Unexpired, n)
<1>3. fresh \in Seq(1 .. n) /\ Tight(fresh, n) /\ Len(fresh) <= BUFFER_MAX_LEN + 1
  <2>1. fresh \in Seq(1 .. n) /\ Tight(fresh, n)
    BY <1>1, <1>2, TightAppend
  <2>2. Len(Unexpired) = Len(buffer) - (expired + 1) + 1
    <3>1. buffer \in Seq(1 .. latest) /\ expired + 1 \in 1 .. Len(buffer) + 1
      BY DEF IInv, TypeOK
    <3> QED
      BY <1>1, <3>1, TightSuffix DEF IInv, Unexpired
  <2>3. Len(fresh) = Len(Unexpired) + 1
    BY <1>2
  <2>4. Len(buffer) \in Nat /\ Len(buffer) <= BUFFER_MAX_LEN /\ expired \in Nat
    BY DEF IInv, TypeOK
  <2> HIDE DEF fresh
  <2> QED
    BY <2>1, <2>2, <2>3, <2>4, BusAssumption
<1>4. buffer' = IF Len(fresh) > BUFFER_MAX_LEN THEN Tail(fresh) ELSE fresh
  BY DEF Arrive
<1>5. /\ buffer' \in Seq(1 .. n)
      /\ Len(buffer') <= BUFFER_MAX_LEN
      /\ Tight(buffer', n)
  <2>1. CASE Len(fresh) > BUFFER_MAX_LEN
    <3>1. buffer' = Tail(fresh) /\ fresh # <<>>
      BY <1>1, <1>2, <1>4, <2>1
    <3>2. 2 \in 1 .. Len(fresh) + 1 /\ Len(fresh) \in Nat /\ n \in Nat
      BY <1>1, <1>3, <2>1, BusAssumption
    <3> HIDE DEF fresh, n
    <3>3. Tail(fresh) = SubSeq(fresh, 2, Len(fresh))
      BY <1>3, <3>1, TailIsSubSeq
    <3>4. /\ SubSeq(fresh, 2, Len(fresh)) \in Seq(1 .. n)
          /\ Len(SubSeq(fresh, 2, Len(fresh))) = Len(fresh) - 2 + 1
          /\ Tight(SubSeq(fresh, 2, Len(fresh)), n)
      BY <1>3, <3>2, TightSuffix
    <3> DEFINE u == SubSeq(fresh, 2, Len(fresh))
    <3>5. buffer' = u
      BY <3>1, <3>3
    <3>6. u \in Seq(1 .. n) /\ Len(u) <= BUFFER_MAX_LEN /\ Tight(u, n)
      <4> HIDE DEF u
      <4> QED
        BY <1>3, <3>2, <3>4, BusAssumption DEF u
    <3> HIDE DEF u
    <3> QED
      BY <3>5, <3>6
  <2>2. CASE ~ (Len(fresh) > BUFFER_MAX_LEN)
    <3>1. buffer' = fresh /\ Len(fresh) \in Nat
      BY <1>3, <1>4, <2>2
    <3> HIDE DEF fresh
    <3> QED
      BY <1>3, <2>2, <3>1, BusAssumption
  <2> QED
    BY <2>1, <2>2
<1>6. expired' \in 0 .. Len(buffer')
  BY <1>5 DEF Arrive
<1>7. phase' \in [Client -> {"off", "replay", "live"}]
  BY DEF IInv, TypeOK, Arrive
<1>8. \A T : T \in Seq(1 .. latest) => T \in Seq(1 .. n)
  BY <1>1, SeqMonotonic
<1>9. replay' \in [Client -> Seq(1 .. n)] /\ received' \in [Client -> Seq(1 .. n)]
  BY <1>8 DEF IInv, TypeOK, Arrive
<1>10. queue' \in [Client -> Seq(1 .. n)] /\ \A c \in Client : Len(queue'[c]) <= QUEUE_MAX
  <2>1. queue' = [c \in Client |->
            IF phase[c] = "live" /\ ~ (Len(queue[c]) >= QUEUE_MAX)
            THEN Append(queue[c], n) ELSE queue[c]]
    BY DEF Arrive
  <2>2. ASSUME NEW c \in Client
        PROVE  queue'[c] \in Seq(1 .. n) /\ Len(queue'[c]) <= QUEUE_MAX
    <3>1. queue[c] \in Seq(1 .. n) /\ Len(queue[c]) \in Nat /\ Len(queue[c]) <= QUEUE_MAX
      BY <1>8 DEF IInv, TypeOK
    <3>2. CASE queue'[c] = queue[c]
      BY <3>1, <3>2
    <3>3. CASE queue'[c] = Append(queue[c], n) /\ ~ (Len(queue[c]) >= QUEUE_MAX)
      <4>1. Append(queue[c], n) \in Seq(1 .. n) /\ Len(Append(queue[c], n)) = Len(queue[c]) + 1
        BY <1>1, <3>1, AppendProperties
      <4> QED
        BY <3>1, <3>3, <4>1, BusAssumption
    <3> QED
      BY <2>1, <3>2, <3>3
  <2> QED
    BY <2>1, <2>2
<1>11. base' \in [Client -> 0 .. n]
  <2>1. 0 .. latest \subseteq 0 .. n
    BY <1>1
  <2> QED
    BY <2>1 DEF IInv, TypeOK, Arrive
<1>12. lost' \in [Client -> SUBSET (1 .. n)]
  <2>1. \A c \in Client : lost[c] \subseteq 1 .. n
    BY <1>1 DEF IInv, TypeOK
  <2> QED
    BY <1>1, <2>1 DEF Arrive
<1> QED
  BY <1>1, <1>5, <1>6, <1>7, <1>9, <1>10, <1>11, <1>12 DEF TypeOK

LEMMA StepTyped ==
    ASSUME IInv, [Next]_vars
    PROVE  TypeOK' /\ Tight(buffer, latest)'
<1> USE DEF IInv
<1>1. CASE Arrive
  BY <1>1, ArriveTyped
<1>2. CASE Expire
  BY <1>2 DEF Expire, TypeOK, Tight
<1>3. ASSUME NEW c \in Client, Connect(c)
      PROVE  TypeOK' /\ Tight(buffer, latest)'
  <2> DEFINE last == received[c][Len(received[c])]
  <2> DEFINE missing == IF received[c] = <<>> THEN <<>> ELSE BufferedAfter(last)
  <2>1. received[c] # <<>> => last \in 1 .. latest
    BY DEF TypeOK
  <2>2. missing \in Seq(1 .. latest)
    <3>1. CASE received[c] = <<>>
      BY <3>1
    <3>2. CASE received[c] # <<>>
      <4> HIDE DEF last
      <4>1. BufferedAfter(last) \in Seq(1 .. latest)
        BY <2>1, <3>2, Buffered
      <4> QED
        BY <3>2, <4>1
    <3> QED
      BY <3>1, <3>2
  <2>3. missing # <<>> => last \in 0 .. latest
    BY <2>1
  <2>4. /\ phase' = [phase EXCEPT ![c] = IF missing = <<>> THEN "live" ELSE "replay"]
        /\ replay' = [replay EXCEPT ![c] = missing]
        /\ base' = [base EXCEPT ![c] = IF missing = <<>> THEN latest ELSE last]
        /\ lost' = [lost EXCEPT ![c] = {}]
        /\ UNCHANGED <<latest, buffer, expired, queue, received>>
    BY <1>3 DEF Connect
  <2> HIDE DEF missing, last
  <2> QED
    BY <2>2, <2>3, <2>4 DEF TypeOK, Tight
<1>4. ASSUME NEW c \in Client, SendReplay(c)
      PROVE  TypeOK' /\ Tight(buffer, latest)'
  <2>1. replay[c] \in Seq(1 .. latest) /\ received[c] \in Seq(1 .. latest) /\ replay[c] # <<>>
    BY <1>4 DEF SendReplay, TypeOK
  <2>2. Head(replay[c]) \in 1 .. latest /\ Tail(replay[c]) \in Seq(1 .. latest)
    BY <2>1, HeadTailProperties
  <2>3. Append(received[c], Head(replay[c])) \in Seq(1 .. latest)
    BY <2>1, <2>2
  <2> QED
    BY <1>4, <2>2, <2>3 DEF SendReplay, TypeOK, Tight
<1>5. ASSUME NEW c \in Client, Register(c)
      PROVE  TypeOK' /\ Tight(buffer, latest)'
  BY <1>5 DEF Register, TypeOK, Tight
<1>6. ASSUME NEW c \in Client, Deliver(c)
      PROVE  TypeOK' /\ Tight(buffer, latest)'
  <2>1. queue[c] \in Seq(1 .. latest) /\ received[c] \in Seq(1 .. latest) /\ queue[c] # <<>>
    BY <1>6 DEF Deliver, TypeOK
  <2>2. /\ Head(queue[c]) \in 1 .. latest
        /\ Tail(queue[c]) \in Seq(1 .. latest)
        /\ Len(Tail(queue[c])) = Len(queue[c]) - 1
    BY <2>1, HeadTailProperties
  <2>3. Append(received[c], Head(queue[c])) \in Seq(1 .. latest)
    BY <2>1, <2>2
  <2>4. queue' = [queue EXCEPT ![c] = Tail(queue[c])]
    BY <1>6 DEF Deliver
  <2>5. \A d \in Client : Len(queue'[d]) <= QUEUE_MAX
    <3>1. Len(Tail(queue[c])) <= QUEUE_MAX
      BY <2>1, <2>2, BusAssumption DEF TypeOK
    <3> QED
      BY <2>4, <3>1 DEF TypeOK
  <2>6. queue' \in [Client -> Seq(1 .. latest)]
    BY <2>2, <2>4 DEF TypeOK
  <2>7. received' \in [Client -> Seq(1 .. latest)]
    BY <1>6, <2>3 DEF TypeOK, Deliver
  <2> QED
    BY <1>6, <2>5, <2>6, <2>7 DEF Deliver, TypeOK, Tight
<1>7. ASSUME NEW c \in Client, Disconnect(c)
      PROVE  TypeOK' /\ Tight(buffer, latest)'
  BY <1>7, BusAssumption DEF Disconnect, TypeOK, Tight
<1>8. CASE Restart
  BY <1>8, BusAssumption DEF Restart, TypeOK, Tight
<1>9. CASE UNCHANGED vars
  BY <1>9 DEF vars, TypeOK, Tight
<1> QED
  BY <1>1, <1>2, <1>3, <1>4, <1>5, <1>6, <1>7, <1>8, <1>9 DEF Next, Serve

-----------------------------------------------------------------------------
\* A client none of whose variables a step changes stays in order.
LEMMA UntouchedClient ==
    ASSUME NEW d, ClientOK(d), latest' = latest,
           phase'[d] = phase[d], replay'[d] = replay[d], queue'[d] = queue[d],
           received'[d] = received[d], base'[d] = base[d], lost'[d] = lost[d]
    PROVE  ClientOK(d)'
  BY DEF ClientOK, InOrder, InPhase, Accounted, Elements, Rising, Before

LEMMA ArriveOrdered ==
    ASSUME IInv, Arrive, NEW d \in Client
    PROVE  ClientOK(d)'
<1> DEFINE n == latest + 1
<1>1. latest \in Nat /\ latest' = n
  BY DEF IInv, TypeOK, Arrive
<1>2. ClientOK(d)
  BY DEF IInv
<1>3. /\ phase'[d] = phase[d] /\ replay'[d] = replay[d]
      /\ received'[d] = received[d] /\ base'[d] = base[d]
  BY DEF Arrive
<1>4. received[d] \in Seq(1 .. latest) /\ queue[d] \in Seq(1 .. latest)
  BY DEF IInv, TypeOK
<1>5. base[d] \in 0 .. latest
  BY DEF IInv, TypeOK
<1>6. phase[d] \in {"off", "replay", "live"}
  BY DEF IInv, TypeOK
<1>7. /\ queue'[d] = IF phase[d] = "live" /\ ~ (Len(queue[d]) >= QUEUE_MAX)
                     THEN Append(queue[d], n) ELSE queue[d]
      /\ lost'[d] = IF phase[d] = "replay" \/ (phase[d] = "live" /\ Len(queue[d]) >= QUEUE_MAX)
                    THEN lost[d] \cup {n} ELSE lost[d]
  BY DEF Arrive
<1>8. (base[d] + 1) .. n = ((base[d] + 1) .. latest) \cup {n}
  BY <1>1, <1>5
<1> HIDE DEF n
<1>9. CASE phase[d] = "live" /\ ~ (Len(queue[d]) >= QUEUE_MAX)
  <2> DEFINE q == Append(queue[d], n)
  <2>1. queue'[d] = q /\ lost'[d] = lost[d]
    BY <1>7, <1>9
  <2>2. /\ Rising(q) /\ Before(received[d], q)
        /\ Elements(q) = Elements(queue[d]) \cup {n}
    <3>1. \A S \in Seq(1 .. latest) : \A i \in DOMAIN S : S[i] < n
      BY <1>1 DEF n
    <3>2. n \in Nat /\ n \in 1 .. n /\ 1 .. latest \subseteq 1 .. n /\ 1 .. n \subseteq Nat
      BY <1>1 DEF n
    <3>3. queue[d] \in Seq(Nat) /\ queue[d] \in Seq(1 .. n)
      BY <1>4, <3>2, SeqMonotonic
    <3>4. Rising(q)
      BY <1>2, <1>4, <3>1, <3>2, <3>3, AppendRising DEF ClientOK, InOrder
    <3>5. Elements(q) = Elements(queue[d]) \cup {n}
      BY <3>2, <3>3, AppendElements
    <3>6. Before(received[d], q)
      <4>1. \A j \in DOMAIN q : q[j] = n \/ (j \in DOMAIN queue[d] /\ q[j] = queue[d][j])
        BY <3>2, <3>3
      <4> QED
        BY <1>2, <1>4, <3>1, <4>1 DEF Before, ClientOK, InOrder
    <3> QED
      BY <3>4, <3>5, <3>6
  <2> HIDE DEF q
  <2>3. InOrder(d)'
    BY <1>2, <1>3, <2>1, <2>2 DEF ClientOK, InOrder, Rising, Before
  <2>4. InPhase(d)'
    BY <1>2, <1>3, <1>9 DEF ClientOK, InPhase
  <2>5. Accounted(d)'
    <3>1. /\ Elements(received[d])' = Elements(received[d])
          /\ Elements(replay[d])' = Elements(replay[d])
          /\ Elements(queue[d])' = Elements(q)
      BY <1>3, <2>1 DEF Elements
    <3> QED
      BY <1>1, <1>2, <1>3, <1>8, <1>9, <2>1, <2>2, <3>1 DEF ClientOK, Accounted
  <2> QED
    BY <2>3, <2>4, <2>5 DEF ClientOK
<1>10. CASE ~ (phase[d] = "live" /\ ~ (Len(queue[d]) >= QUEUE_MAX))
  <2>1. queue'[d] = queue[d]
    BY <1>7, <1>10
  <2>2. phase[d] # "off" => lost'[d] = lost[d] \cup {n}
    BY <1>6, <1>7, <1>10
  <2>3. InOrder(d)'
    BY <1>2, <1>3, <2>1 DEF ClientOK, InOrder, Rising, Before
  <2>4. InPhase(d)'
    BY <1>2, <1>3, <2>1 DEF ClientOK, InPhase
  <2>5. Accounted(d)'
    BY <1>1, <1>2, <1>3, <1>8, <2>1, <2>2 DEF ClientOK, Accounted, Elements
  <2> QED
    BY <2>3, <2>4, <2>5 DEF ClientOK
<1> QED
  BY <1>9, <1>10

\* The head of s moves to the end of r.
LEMMA HeadMoves ==
    ASSUME NEW k \in Nat, NEW r \in Seq(1 .. k), NEW s \in Seq(1 .. k), s # <<>>,
           Rising(r), Rising(s), Before(r, s)
    PROVE  /\ Rising(Append(r, Head(s))) /\ Rising(Tail(s))
           /\ Before(Append(r, Head(s)), Tail(s))
           /\ Elements(Append(r, Head(s))) \cup Elements(Tail(s))
                 = Elements(r) \cup Elements(s)
<1> DEFINE h == Head(s)
<1>1. r \in Seq(Nat) /\ s \in Seq(Nat) /\ 1 .. k \subseteq Nat
  <2>1. 1 .. k \subseteq Nat
    OBVIOUS
  <2> QED
    BY <2>1, SeqMonotonic
<1>2. h \in 1 .. k /\ Tail(s) \in Seq(1 .. k)
  BY HeadTailProperties
<1>3. h \in Nat
  BY <1>1, <1>2
<1>4. \A i \in DOMAIN r : r[i] < h
  <2>1. h = s[1] /\ 1 \in DOMAIN s
    OBVIOUS
  <2> QED
    BY <2>1 DEF Before
<1>5. Rising(Tail(s)) /\ \A i \in DOMAIN Tail(s) : h < Tail(s)[i]
  BY <1>1, TailRising
<1>6. Elements(s) = {h} \cup Elements(Tail(s))
  BY HeadElements
<1> DEFINE t == Tail(s)
<1>7. \A j \in DOMAIN t : \E i \in DOMAIN s : t[j] = s[i]
  <2>1. Len(t) = Len(s) - 1 /\ \A i \in 1 .. Len(t) : t[i] = s[i + 1]
    BY HeadTailProperties
  <2>2. \A j \in DOMAIN t : j + 1 \in DOMAIN s
    BY <1>2, <2>1
  <2> QED
    BY <1>2, <2>1, <2>2
<1> DEFINE u == Append(r, h)
<1>8. u \in Seq(Nat) /\ \A i \in DOMAIN u : u[i] = h \/ (i \in DOMAIN r /\ u[i] = r[i])
  BY <1>1, <1>3
<1> HIDE DEF h
<1>9. Rising(u)
  BY <1>1, <1>3, <1>4, AppendRising
<1>10. Elements(u) = Elements(r) \cup {h}
  BY <1>1, <1>3, AppendElements
<1> HIDE DEF t, u
<1>11. Before(u, t)
  <2> SUFFICES ASSUME NEW i \in DOMAIN u, NEW j \in DOMAIN t
               PROVE  u[i] < t[j]
    BY DEF Before
  <2>1. CASE u[i] = h
    BY <1>5, <2>1 DEF t
  <2>2. CASE i \in DOMAIN r /\ u[i] = r[i]
    BY <1>7, <2>2 DEF Before
  <2> QED
    BY <1>8, <2>1, <2>2
<1> QED
  BY <1>5, <1>6, <1>9, <1>10, <1>11 DEF h, t, u

LEMMA ConnectOrdered ==
    ASSUME IInv, NEW c \in Client, Connect(c)
    PROVE  ClientOK(c)'
<1> DEFINE last == received[c][Len(received[c])]
<1> DEFINE missing == IF received[c] = <<>> THEN <<>> ELSE BufferedAfter(last)
<1>1. received[c] \in Seq(1 .. latest) /\ latest \in Nat
  BY DEF IInv, TypeOK
<1>2. ClientOK(c) /\ phase[c] = "off"
  BY DEF IInv, Connect
<1>3. /\ phase' = [phase EXCEPT ![c] = IF missing = <<>> THEN "live" ELSE "replay"]
      /\ replay' = [replay EXCEPT ![c] = missing]
      /\ base' = [base EXCEPT ![c] = IF missing = <<>> THEN latest ELSE last]
      /\ lost' = [lost EXCEPT ![c] = {}]
      /\ UNCHANGED <<latest, buffer, expired, queue, received>>
  BY DEF Connect
<1>4. received[c] # <<>> =>
        /\ last \in 1 .. latest
        /\ \A i \in DOMAIN received[c] : received[c][i] <= last
  <2>1. received[c] # <<>> =>
           Len(received[c]) \in DOMAIN received[c] /\ Len(received[c]) \in Nat
    BY <1>1
  <2>2. \A i \in DOMAIN received[c] :
           i = Len(received[c]) \/ received[c][i] < received[c][Len(received[c])]
    BY <1>1, <1>2 DEF ClientOK, InOrder, Rising
  <2>3. \A i \in DOMAIN received[c] : received[c][i] \in 1 .. latest
    BY <1>1
  <2> HIDE DEF last
  <2>4. received[c] # <<>> => last \in 1 .. latest
    BY <2>1, <2>3 DEF last
  <2> QED
    BY <2>1, <2>2, <2>3, <2>4 DEF last
<1> HIDE DEF last
<1>5. /\ Rising(missing)
      /\ Before(received[c], missing)
      /\ missing # <<>> => (last + 1) .. latest \subseteq Elements(missing)
  <2>1. CASE received[c] = <<>>
    BY <2>1 DEF Rising, Before
  <2>2. CASE received[c] # <<>>
    <3> DEFINE b == BufferedAfter(last)
    <3>1. /\ b \in Seq(1 .. latest)
          /\ Rising(b)
          /\ \A i \in DOMAIN b : last < b[i]
          /\ b # <<>> => (last + 1) .. latest \subseteq Elements(b)
      BY <1>4, <2>2, Buffered DEF IInv
    <3>2. missing = b
      BY <2>2
    <3> HIDE DEF b, missing
    <3>3. Before(received[c], b)
      <4> SUFFICES ASSUME NEW i \in DOMAIN received[c], NEW j \in DOMAIN b
                   PROVE  received[c][i] < b[j]
        BY DEF Before
      <4>1. received[c][i] <= last /\ last < b[j]
        BY <1>4, <2>2, <3>1
      <4>2. received[c][i] \in Int /\ last \in Int /\ b[j] \in Int
        BY <1>1, <1>4, <2>2, <3>1
      <4> QED
        BY <4>1, <4>2
    <3> QED
      BY <3>1, <3>2, <3>3
  <2> QED
    BY <2>1, <2>2
<1> HIDE DEF missing
<1>6. /\ replay'[c] = missing /\ queue'[c] = <<>> /\ received'[c] = received[c]
      /\ latest' = latest
      /\ phase'[c] = IF missing = <<>> THEN "live" ELSE "replay"
      /\ base'[c] = IF missing = <<>> THEN latest ELSE last
  BY <1>2, <1>3 DEF IInv, TypeOK, ClientOK, InPhase
<1>7. InOrder(c)'
  BY <1>2, <1>5, <1>6 DEF ClientOK, InOrder, Rising, Before
<1>8. InPhase(c)'
  BY <1>6 DEF InPhase
<1>9. Accounted(c)'
  <2>1. Elements(replay[c])' = Elements(missing)
    BY <1>6 DEF Elements
  <2>2. CASE missing = <<>>
    <3>1. (base'[c] + 1) .. latest' = {}
      BY <1>1, <1>6, <2>2
    <3> QED
      BY <3>1 DEF Accounted
  <2>3. CASE missing # <<>>
    <3>1. (base'[c] + 1) .. latest' \subseteq Elements(missing)
      BY <1>5, <1>6, <2>3
    <3> QED
      BY <2>1, <3>1 DEF Accounted
  <2> QED
    BY <2>2, <2>3
<1> QED
  BY <1>7, <1>8, <1>9 DEF ClientOK

LEMMA SendReplayOrdered ==
    ASSUME IInv, NEW c \in Client, SendReplay(c)
    PROVE  ClientOK(c)'
<1>1. /\ latest \in Nat /\ received[c] \in Seq(1 .. latest)
      /\ replay[c] \in Seq(1 .. latest) /\ replay[c] # <<>>
  BY DEF IInv, TypeOK, SendReplay
<1>2. ClientOK(c) /\ phase[c] = "replay" /\ queue[c] = <<>>
  BY DEF IInv, SendReplay, ClientOK, InPhase
<1> DEFINE r == Append(received[c], Head(replay[c]))
<1> DEFINE t == Tail(replay[c])
<1>3. /\ received'[c] = r /\ replay'[c] = t
      /\ queue'[c] = <<>> /\ phase'[c] = "replay" /\ base'[c] = base[c]
      /\ lost'[c] = lost[c] /\ latest' = latest
  BY <1>2 DEF SendReplay, IInv, TypeOK
<1>4. /\ Rising(r) /\ Rising(t) /\ Before(r, t)
      /\ Elements(r) \cup Elements(t) = Elements(received[c]) \cup Elements(replay[c])
  BY <1>1, <1>2, HeadMoves DEF ClientOK, InOrder
<1> HIDE DEF r, t
<1>5. InOrder(c)'
  BY <1>3, <1>4 DEF InOrder, Rising, Before
<1>6. InPhase(c)'
  BY <1>3 DEF InPhase
<1>7. Accounted(c)'
  <2>1. /\ Elements(received[c])' = Elements(r) /\ Elements(replay[c])' = Elements(t)
        /\ Elements(queue[c])' = Elements(queue[c])
    BY <1>2, <1>3 DEF Elements
  <2> QED
    BY <1>2, <1>3, <1>4, <2>1 DEF Accounted, ClientOK
<1> QED
  BY <1>5, <1>6, <1>7 DEF ClientOK

LEMMA DeliverOrdered ==
    ASSUME IInv, NEW c \in Client, Deliver(c)
    PROVE  ClientOK(c)'
<1>1. /\ latest \in Nat /\ received[c] \in Seq(1 .. latest)
      /\ queue[c] \in Seq(1 .. latest) /\ queue[c] # <<>>
  BY DEF IInv, TypeOK, Deliver
<1>2. ClientOK(c) /\ phase[c] = "live" /\ replay[c] = <<>>
  BY DEF IInv, Deliver, ClientOK, InPhase
<1> DEFINE r == Append(received[c], Head(queue[c]))
<1> DEFINE t == Tail(queue[c])
<1>3. /\ received'[c] = r /\ queue'[c] = t
      /\ replay'[c] = <<>> /\ phase'[c] = "live" /\ base'[c] = base[c]
      /\ lost'[c] = lost[c] /\ latest' = latest
  BY <1>2 DEF Deliver, IInv, TypeOK
<1>4. /\ Rising(r) /\ Rising(t) /\ Before(r, t)
      /\ Elements(r) \cup Elements(t) = Elements(received[c]) \cup Elements(queue[c])
  BY <1>1, <1>2, HeadMoves DEF ClientOK, InOrder
<1> HIDE DEF r, t
<1>5. InOrder(c)'
  BY <1>3, <1>4 DEF InOrder, Rising, Before
<1>6. InPhase(c)'
  BY <1>3 DEF InPhase
<1>7. Accounted(c)'
  <2>1. /\ Elements(received[c])' = Elements(r) /\ Elements(queue[c])' = Elements(t)
        /\ Elements(replay[c])' = Elements(replay[c])
    BY <1>2, <1>3 DEF Elements
  <2> QED
    BY <1>2, <1>3, <1>4, <2>1 DEF Accounted, ClientOK
<1> QED
  BY <1>5, <1>6, <1>7 DEF ClientOK

LEMMA StepOrdered ==
    ASSUME IInv, [Next]_vars, NEW d \in Client
    PROVE  ClientOK(d)'
<1>0. ClientOK(d)
  BY DEF IInv
<1>1. CASE Arrive
  BY <1>1, ArriveOrdered
<1>2. CASE Expire
  BY <1>0, <1>2, UntouchedClient DEF Expire
<1>3. ASSUME NEW c \in Client, Connect(c)
      PROVE  ClientOK(d)'
  <2>1. CASE d = c
    BY <1>3, <2>1, ConnectOrdered
  <2>2. CASE d # c
    BY <1>0, <1>3, <2>2, UntouchedClient DEF Connect, IInv, TypeOK
  <2> QED
    BY <2>1, <2>2
<1>4. ASSUME NEW c \in Client, SendReplay(c)
      PROVE  ClientOK(d)'
  <2>1. CASE d = c
    BY <1>4, <2>1, SendReplayOrdered
  <2>2. CASE d # c
    BY <1>0, <1>4, <2>2, UntouchedClient DEF SendReplay, IInv, TypeOK
  <2> QED
    BY <2>1, <2>2
<1>5. ASSUME NEW c \in Client, Register(c)
      PROVE  ClientOK(d)'
  <2>1. CASE d = c
    BY <1>0, <1>5, <2>1
       DEF Register, ClientOK, InOrder, InPhase, Accounted, Elements, Rising, Before,
           IInv, TypeOK
  <2>2. CASE d # c
    BY <1>0, <1>5, <2>2, UntouchedClient DEF Register, IInv, TypeOK
  <2> QED
    BY <2>1, <2>2
<1>6. ASSUME NEW c \in Client, Deliver(c)
      PROVE  ClientOK(d)'
  <2>1. CASE d = c
    BY <1>6, <2>1, DeliverOrdered
  <2>2. CASE d # c
    BY <1>0, <1>6, <2>2, UntouchedClient DEF Deliver, IInv, TypeOK
  <2> QED
    BY <2>1, <2>2
<1>7. ASSUME NEW c \in Client, Disconnect(c)
      PROVE  ClientOK(d)'
  <2>1. CASE d = c
    <3>1. /\ phase'[d] = "off" /\ replay'[d] = <<>> /\ queue'[d] = <<>>
          /\ received'[d] = received[d]
      BY <1>7, <2>1 DEF Disconnect, IInv, TypeOK
    <3> QED
      BY <1>0, <3>1 DEF ClientOK, InOrder, InPhase, Accounted, Rising, Before
  <2>2. CASE d # c
    BY <1>0, <1>7, <2>2, UntouchedClient DEF Disconnect, IInv, TypeOK
  <2> QED
    BY <2>1, <2>2
<1>8. CASE Restart
  <2>1. /\ phase'[d] = "off" /\ replay'[d] = <<>> /\ queue'[d] = <<>>
        /\ received'[d] = received[d]
    BY <1>8 DEF Restart
  <2> QED
    BY <1>0, <2>1 DEF ClientOK, InOrder, InPhase, Accounted, Rising, Before
<1>9. CASE UNCHANGED vars
  BY <1>0, <1>9, UntouchedClient DEF vars
<1> QED
  BY <1>1, <1>2, <1>3, <1>4, <1>5, <1>6, <1>7, <1>8, <1>9 DEF Next, Serve

-----------------------------------------------------------------------------
LEMMA InitInductive == Init => IInv
<1> SUFFICES ASSUME Init
             PROVE  IInv
  OBVIOUS
<1>1. TypeOK
  BY BusAssumption DEF Init, TypeOK
<1> QED
  BY <1>1 DEF Init, IInv, Tight, ClientOK, InOrder, InPhase, Accounted, Rising, Before

LEMMA InductiveInvariant == Spec => []IInv
<1>1. IInv /\ [Next]_vars => IInv'
  BY StepTyped, StepOrdered DEF IInv
<1> QED
  BY InitInductive, <1>1, PTL DEF Spec

\* Type correctness: the buffer and the queues stay within their sizes.
THEOREM TypeCorrect == Spec => []TypeOK
<1>1. IInv => TypeOK
  BY DEF IInv
<1> QED
  BY <1>1, InductiveInvariant, PTL

\* A live client has or is about to get everything it is owed, but what came
\* during its replay or found its queue full.
THEOREM NothingElseIsLost == Spec => []NothingElseLost
<1>1. IInv => NothingElseLost
  <2> SUFFICES ASSUME IInv, NEW c \in Client, phase[c] = "live"
               PROVE  (base[c] + 1) .. latest
                         \subseteq Elements(received[c]) \cup Elements(queue[c]) \cup lost[c]
    BY DEF NothingElseLost
  <2>1. Accounted(c) /\ replay[c] = <<>>
    BY DEF IInv, ClientOK, InPhase
  <2>2. Elements(replay[c]) = {}
    BY <2>1 DEF Elements
  <2> QED
    BY <2>1, <2>2 DEF Accounted
<1> QED
  BY <1>1, InductiveInvariant, PTL

\* An event that a client gets is newer than all it had before.
LEMMA ReceivesNewer ==
    ASSUME IInv, NEW c \in Client, SendReplay(c) \/ Deliver(c)
    PROVE  Stream!Receive(c)
<1>1. \E s \in Seq(1 .. latest) :
        /\ s # <<>>
        /\ Before(received[c], s)
        /\ received' = [received EXCEPT ![c] = Append(@, Head(s))]
        /\ latest' = latest
  <2>1. CASE SendReplay(c)
    BY <2>1 DEF SendReplay, IInv, TypeOK, ClientOK, InOrder
  <2>2. CASE Deliver(c)
    BY <2>2 DEF Deliver, IInv, TypeOK, ClientOK, InOrder
  <2> QED
    BY <2>1, <2>2
<1>2. PICK s \in Seq(1 .. latest) :
        /\ s # <<>>
        /\ Before(received[c], s)
        /\ received' = [received EXCEPT ![c] = Append(@, Head(s))]
        /\ latest' = latest
  BY <1>1
<1>3. Head(s) = s[1] /\ 1 \in DOMAIN s /\ Head(s) \in 1 .. latest
  BY <1>2, HeadIsFirst
<1>4. \A i \in DOMAIN received[c] : received[c][i] < Head(s)
  BY <1>2, <1>3 DEF Before
<1> QED
  BY <1>2, <1>3, <1>4 DEF Stream!Receive

\* The bus implements EventStream: in order and at most once.
THEOREM ImplementsStream == Spec => StreamSpec
<1>1. Init => Stream!Init
  BY DEF Init, Stream!Init
<1>2. IInv /\ [Next]_vars => [Stream!Next]_(Stream!vars)
  <2> SUFFICES ASSUME IInv, [Next]_vars
               PROVE  Stream!Next \/ UNCHANGED Stream!vars
    OBVIOUS
  <2>1. CASE Arrive
    BY <2>1 DEF Arrive, Stream!Next, Stream!Arrive
  <2>2. ASSUME NEW c \in Client, SendReplay(c) \/ Deliver(c)
        PROVE  Stream!Next
    BY <2>2, ReceivesNewer DEF Stream!Next
  <2>3. ASSUME NEW c \in Client, Connect(c) \/ Register(c) \/ Disconnect(c)
        PROVE  UNCHANGED Stream!vars
    BY <2>3 DEF Connect, Register, Disconnect, Stream!vars
  <2>4. CASE Expire \/ Restart \/ UNCHANGED vars
    BY <2>4 DEF Expire, Restart, vars, Stream!vars
  <2> QED
    BY <2>1, <2>2, <2>3, <2>4 DEF Next, Serve
<1> QED
  BY <1>1, <1>2, InductiveInvariant, PTL DEF Spec, StreamSpec, Stream!Spec
=============================================================================
