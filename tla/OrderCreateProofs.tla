------------------------- MODULE OrderCreateProofs -------------------------
(* Proofs about OrderCreate: types, numbers, one order per key, the limit. *)
EXTENDS OrderCreate, FiniteSetTheorems, TLAPS

---------------------------------------------------------------------------
(* Types *)

\* A snapshot's next number lies between the first one and the present one.
SnapshotInv == \A c \in Calls : call[c].stage = "open" =>
    call[c].snap.next \in (Legacy + 1) .. (Legacy + Cardinality(book) + 1)

BookInv == CreateTypeOK /\ IsFiniteSet(book) /\ NumbersDense /\ SnapshotInv

LEMMA NextNumber ==
    ASSUME BookInv
    PROVE  /\ NextOrderNumber = Legacy + Cardinality(book) + 1
           /\ NextOrderNumber \in Nat /\ Cardinality(book) \in Nat /\ Legacy \in Nat
<1> DEFINE C == Cardinality(book)
           N == {Legacy + C} \cup {b.number : b \in book}
<1>1. C \in Nat /\ Legacy \in Nat
  BY FS_CardinalityType, CreateConstants DEF BookInv
<1>2. N = {Legacy + C} \cup (Legacy + 1) .. (Legacy + C)
  BY DEF BookInv, NumbersDense
<1> HIDE DEF C
<1>3. Legacy + C \in N /\ \A n \in N : Legacy + C >= n /\ n \in Nat
  BY <1>1, <1>2
<1>4. Highest(N) \in N /\ \A n \in N : Highest(N) >= n
  <2> HIDE DEF N
  <2> QED BY <1>3 DEF Highest
<1>5. Highest(N) = Legacy + C
  <2>1. Highest(N) >= Legacy + C /\ Legacy + C >= Highest(N) /\ Highest(N) \in Nat
    <3> HIDE DEF N
    <3> QED BY <1>3, <1>4
  <2> QED BY <1>1, <2>1
<1> QED BY <1>1, <1>5 DEF NextOrderNumber, C

\* The first number of a call's attempts that is free is the next one.
LEMMA WonNumber ==
    ASSUME BookInv, NEW c \in Calls, call[c].stage = "open",
           \E n \in Tried(call[c].snap) : ~Taken(n)
    PROVE  Won(call[c].snap) = Legacy + Cardinality(book) + 1
<1> DEFINE s == call[c].snap
           next == Legacy + Cardinality(book) + 1
           first(n) == ~Taken(n) /\ \A m \in Tried(s) : Taken(m) \/ n <= m
<1>1. Cardinality(book) \in Nat /\ Legacy \in Nat /\ next \in Nat
  BY NextNumber
<1>2. s.next \in (Legacy + 1) .. next /\ Attempts \in Nat
  BY CreateConstants DEF BookInv, SnapshotInv
<1>3. \A n : Taken(n) <=> n \in (Legacy + 1) .. (Legacy + Cardinality(book))
  BY DEF BookInv, NumbersDense, Taken
<1>4. \A n \in Tried(s) : n \in Int /\ n >= s.next
  BY <1>1, <1>2 DEF Tried
<1>5. \A n \in Tried(s) : ~Taken(n) => n >= next
  BY <1>1, <1>2, <1>3, <1>4
<1>6. next \in Tried(s) /\ ~Taken(next)
  BY <1>1, <1>2, <1>3, <1>5 DEF Tried
<1>7. first(next)
  BY <1>4, <1>5, <1>6, <1>1
<1>8. Won(s) \in Tried(s) /\ first(Won(s))
  BY <1>6, <1>7 DEF Won
<1>9. Won(s) >= next /\ Won(s) <= next
  BY <1>5, <1>6, <1>8
<1> QED BY <1>1, <1>4, <1>8, <1>9

\* A row with the next number keeps the numbers dense.
LEMMA AddRow ==
    ASSUME BookInv, NEW k \in Keys \cup {Other}, NEW h \in BOOLEAN,
           book' = book \cup {[key |-> k, number |-> Legacy + Cardinality(book) + 1, held |-> h]}
    PROVE  /\ NumbersDense' /\ IsFiniteSet(book') /\ book' \subseteq OrderRow
           /\ Cardinality(book') = Cardinality(book) + 1
<1> DEFINE C == Cardinality(book)
           row == [key |-> k, number |-> Legacy + C + 1, held |-> h]
<1>1. C \in Nat /\ Legacy \in Nat
  BY NextNumber
<1>2. \A b \in book : b.number \in (Legacy + 1) .. (Legacy + C)
  BY DEF BookInv, NumbersDense
<1>3. row.number = Legacy + C + 1 /\ row \in OrderRow
  BY <1>1 DEF OrderRow
<1>4. row \notin book
  BY <1>1, <1>2, <1>3
<1>5. IsFiniteSet(book') /\ Cardinality(book') = C + 1
  BY <1>4, FS_AddElement DEF BookInv
<1>6. book' \subseteq OrderRow
  BY <1>3 DEF BookInv, CreateTypeOK
<1>7. {b.number : b \in book} = (Legacy + 1) .. (Legacy + C)
  BY DEF BookInv, NumbersDense
<1>8. {b.number : b \in book'} = {b.number : b \in book} \cup {Legacy + C + 1}
  BY <1>3
<1> HIDE DEF C, row
<1>9. {b.number : b \in book'} = (Legacy + 1) .. (Legacy + (C + 1))
  BY <1>1, <1>7, <1>8
<1>10. ASSUME NEW a \in book', NEW b \in book', a.number = b.number PROVE a = b
  <2>1. book' = book \cup {row}
    BY DEF row, C
  <2>2. \A x, y \in book : x.number = y.number => x = y
    BY DEF BookInv, NumbersDense
  <2>3. Legacy + C + 1 \notin (Legacy + 1) .. (Legacy + C)
    BY <1>1
  <2> QED BY <1>2, <1>3, <1>10, <2>1, <2>2, <2>3 DEF C
<1> QED BY <1>5, <1>6, <1>9, <1>10 DEF NumbersDense, C

LEMMA InitBook == CreateInit => BookInv
<1> SUFFICES ASSUME CreateInit PROVE BookInv
  OBVIOUS
<1>1. Legacy \in Nat /\ book = {} /\ IsFiniteSet(book) /\ Cardinality(book) = 0
  BY CreateConstants, FS_EmptySet DEF CreateInit
<1>2. CreateTypeOK
  BY DEF CreateInit, CreateTypeOK, CallState, Snapshot, Idle, NoSnapshot
<1>3. NumbersDense
  <2>1. {b.number : b \in book} = {} /\ (Legacy + 1) .. (Legacy + 0) = {}
    BY <1>1
  <2> QED BY <1>1, <2>1 DEF NumbersDense
<1>4. SnapshotInv
  BY DEF CreateInit, SnapshotInv, Idle
<1> QED BY <1>1, <1>2, <1>3, <1>4 DEF BookInv

\* A call's state changes; the orders stay.
LEMMA CallStep ==
    ASSUME BookInv, NEW c \in Calls, NEW s \in CallState, call' = [call EXCEPT ![c] = s],
           s.stage = "open" => s.snap.next \in (Legacy + 1) .. (Legacy + Cardinality(book) + 1),
           book' = book, debt' \in Nat, overdue' \in BOOLEAN
    PROVE  BookInv'
<1>1. CreateTypeOK'
  BY DEF BookInv, CreateTypeOK
<1>2. NumbersDense' /\ IsFiniteSet(book')
  BY DEF BookInv, NumbersDense
<1>3. SnapshotInv'
  BY DEF BookInv, CreateTypeOK, SnapshotInv
<1> QED BY <1>1, <1>2, <1>3 DEF BookInv

\* An order is added; the call that added it is answered.
LEMMA RowStep ==
    ASSUME BookInv, NEW k \in Keys \cup {Other}, NEW h \in BOOLEAN,
           book' = book \cup {[key |-> k, number |-> Legacy + Cardinality(book) + 1, held |-> h]},
           call' \in [Calls -> CallState],
           \A c \in Calls : call'[c].stage = "open" => call'[c] = call[c],
           debt' \in Nat, overdue' \in BOOLEAN
    PROVE  BookInv'
<1>1. Cardinality(book) \in Nat /\ Legacy \in Nat
  BY NextNumber
<1>2. /\ NumbersDense' /\ IsFiniteSet(book') /\ book' \subseteq OrderRow
      /\ Cardinality(book') = Cardinality(book) + 1
  BY AddRow
<1>3. CreateTypeOK'
  BY <1>2 DEF CreateTypeOK
<1>4. SnapshotInv'
  <2> SUFFICES ASSUME NEW c \in Calls, call'[c].stage = "open"
               PROVE  call'[c].snap.next \in (Legacy + 1) .. (Legacy + Cardinality(book') + 1)
    BY DEF SnapshotInv
  <2>1. call[c].snap.next \in (Legacy + 1) .. (Legacy + Cardinality(book) + 1)
    BY DEF BookInv, SnapshotInv
  <2> QED BY <1>1, <1>2, <2>1
<1> QED BY <1>2, <1>3, <1>4 DEF BookInv

LEMMA ReplyState ==
    ASSUME BookInv, NEW c \in Calls, NEW a \in {"ok", "refused", "lost"}, Reply(c, a)
    PROVE  \E s \in CallState : s.stage = "done" /\ call' = [call EXCEPT ![c] = s]
<1> DEFINE s == [stage |-> "done", key |-> call[c].key, snap |-> NoSnapshot, answer |-> a]
<1>1. call[c].key \in Keys \cup {Other}
  BY DEF BookInv, CreateTypeOK, CallState
<1>2. s \in CallState
  BY <1>1 DEF CallState, Snapshot, NoSnapshot
<1> QED BY <1>2 DEF Reply

LEMMA ReplyStep ==
    ASSUME BookInv, NEW c \in Calls, NEW a \in {"ok", "refused", "lost"}, Reply(c, a),
           book' = book, debt' \in Nat, overdue' \in BOOLEAN
    PROVE  BookInv'
<1>1. PICK s \in CallState : s.stage = "done" /\ call' = [call EXCEPT ![c] = s]
  BY ReplyState
<1> QED BY <1>1, CallStep

LEMMA StepBook ==
    ASSUME BookInv, CreateNext
    PROVE  BookInv'
<1>0. debt \in Nat /\ overdue \in BOOLEAN /\ call \in [Calls -> CallState]
  BY DEF BookInv, CreateTypeOK
<1>1. ASSUME NEW c \in Calls, NEW k \in Keys, Arrive(c, k), UNCHANGED <<book, debt, overdue>>
      PROVE  BookInv'
  <2> DEFINE s == [call[c] EXCEPT !.stage = "sent", !.key = k]
  <2>1. call' = [call EXCEPT ![c] = s] /\ s.stage = "sent" /\ s \in CallState
    BY <1>0, <1>1 DEF Arrive, CallState
  <2> HIDE DEF s
  <2> QED BY <1>0, <1>1, <2>1, CallStep
<1>2. ASSUME NEW c \in Calls, Begin(c) PROVE BookInv'
  <2>1. UNCHANGED <<book, debt, overdue>>
    BY <1>2 DEF Begin
  <2>2. CASE Exists(call[c].key)
    BY <1>0, <1>2, <2>1, <2>2, ReplyStep DEF Begin
  <2>3. CASE ~Exists(call[c].key)
    <3> DEFINE snap == [next |-> NextOrderNumber, debt |-> debt, overdue |-> overdue]
               s == [call[c] EXCEPT !.stage = "open", !.snap = snap]
    <3>1. snap \in Snapshot
      BY <1>0, NextNumber DEF Snapshot
    <3>2. s \in CallState /\ s.snap.next = NextOrderNumber
      BY <1>0, <3>1 DEF CallState
    <3>3. call' = [call EXCEPT ![c] = s]
      BY <1>0, <1>2, <2>3 DEF Begin
    <3>4. s.snap.next \in (Legacy + 1) .. (Legacy + Cardinality(book) + 1)
      BY <3>2, NextNumber
    <3> HIDE DEF s
    <3> QED BY <1>0, <2>1, <3>2, <3>3, <3>4, CallStep
  <2> QED BY <2>2, <2>3
<1>3. ASSUME NEW c \in Calls, Refuse(c) \/ LoseCall(c) PROVE BookInv'
  BY <1>0, <1>3, ReplyStep DEF Refuse, LoseCall
<1>4. ASSUME NEW c \in Calls, Insert(c) PROVE BookInv'
  <2> DEFINE k == call[c].key
             s == call[c].snap
  <2>1. k \in Keys \cup {Other} /\ s.overdue \in BOOLEAN /\ overdue' \in BOOLEAN
    BY <1>0, <1>4 DEF Insert, CallState, Snapshot
  <2>2. CASE UNCHANGED <<book, debt>> /\ (Reply(c, "refused") \/ Reply(c, "ok"))
    BY <1>0, <2>1, <2>2, ReplyStep
  <2>3. CASE /\ \E n \in Tried(s) : ~Taken(n)
             /\ book' = book \cup {[key |-> k, number |-> Won(s), held |-> s.overdue]}
             /\ debt' = IF k \in OnCredit THEN debt + Total[k] ELSE debt
             /\ Reply(c, "ok")
    <3>1. Won(s) = Legacy + Cardinality(book) + 1
      BY <1>4, <2>3, WonNumber DEF Insert
    <3>2. debt' \in Nat
      <4>1. CASE k \in OnCredit
        <5>1. Total[k] \in Nat
          BY <4>1, CreateConstants
        <5>2. debt' = debt + Total[k]
          BY <2>3, <4>1
        <5> HIDE DEF k
        <5> QED BY <1>0, <5>1, <5>2
      <4>2. CASE k \notin OnCredit
        BY <1>0, <2>3, <4>2
      <4> QED BY <4>1, <4>2
    <3>3. PICK t \in CallState : t.stage = "done" /\ call' = [call EXCEPT ![c] = t]
      BY <2>3, ReplyState
    <3>4. /\ call' \in [Calls -> CallState]
          /\ \A d \in Calls : call'[d].stage = "open" => call'[d] = call[d]
      BY <1>0, <3>3
    <3> QED BY <2>1, <2>3, <3>1, <3>2, <3>4, RowStep
  <2> QED BY <1>4, <2>2, <2>3 DEF Insert
<1>5. ASSUME NEW c \in Calls, EndCall(c), UNCHANGED <<book, debt, overdue>> PROVE BookInv'
  <2>1. Idle \in CallState /\ Idle.stage = "idle"
    BY DEF Idle, CallState, Snapshot, NoSnapshot
  <2> QED BY <1>0, <1>5, <2>1, CallStep DEF EndCall
<1>6. CASE OthersOrder
  <2>1. /\ book' = book \cup {[key |-> Other, number |-> Legacy + Cardinality(book) + 1,
                               held |-> FALSE]}
        /\ UNCHANGED <<call, debt, overdue>>
    BY <1>6, NextNumber DEF OthersOrder
  <2> QED BY <1>0, <2>1, RowStep
<1>7. CASE OtherDealings
  <2>1. debt' \in Nat /\ overdue' \in BOOLEAN /\ UNCHANGED <<call, book>>
    BY <1>7, CreateConstants DEF OtherDealings
  <2> QED BY <2>1 DEF BookInv, CreateTypeOK, NumbersDense, SnapshotInv
<1> QED BY <1>1, <1>2, <1>3, <1>4, <1>5, <1>6, <1>7 DEF CreateNext, ServerStep

LEMMA NextBook == BookInv /\ [CreateNext]_createVars => BookInv'
<1>1. BookInv /\ UNCHANGED createVars => BookInv'
  BY DEF createVars, BookInv, CreateTypeOK, NumbersDense, SnapshotInv
<1> QED BY <1>1, StepBook

\* Every variable keeps its type.
THEOREM CreateTypes == CreateSpec => []CreateTypeOK
<1>1. CreateInit => BookInv
  BY InitBook
<1>2. BookInv /\ [CreateNext]_createVars => BookInv'
  BY NextBook
<1>3. BookInv => CreateTypeOK
  BY DEF BookInv
<1> QED BY <1>1, <1>2, <1>3, PTL DEF CreateSpec

\* Orders are numbered without gaps and repetitions, for any number of calls
\* and attempts.
THEOREM NumbersAlwaysDense == CreateSpec => []NumbersDense
<1>1. CreateInit => BookInv
  BY InitBook
<1>2. BookInv /\ [CreateNext]_createVars => BookInv'
  BY NextBook
<1>3. BookInv => NumbersDense
  BY DEF BookInv
<1> QED BY <1>1, <1>2, <1>3, PTL DEF CreateSpec

---------------------------------------------------------------------------
(* One order per key, and the credit limit *)

LEMMA NextOnePerKey == OnePerKey /\ [CreateNext]_createVars => OnePerKey'
<1> SUFFICES ASSUME OnePerKey, [CreateNext]_createVars PROVE OnePerKey'
  OBVIOUS
<1>1. CASE book' = book
  BY <1>1 DEF OnePerKey
<1>2. CASE \E c \in Calls : Insert(c)
  <2> PICK c \in Calls : Insert(c)
    BY <1>2
  <2>1. CASE ~Exists(call[c].key)
             /\ \E row : row.key = call[c].key /\ book' = book \cup {row}
    BY <2>1 DEF OnePerKey, Exists
  <2> QED BY <1>1, <2>1 DEF Insert, KeyClash
<1>3. CASE OthersOrder
  BY <1>3 DEF OthersOrder, OnePerKey
<1> QED BY <1>1, <1>2, <1>3 DEF CreateNext, createVars, ServerStep, Arrive, Begin, Refuse,
                              LoseCall, EndCall, OtherDealings

\* A key has one order, however requests are repeated and cross.
THEOREM OnePerKeyAlways == CreateSpec => []OnePerKey
<1>1. CreateInit => OnePerKey
  BY DEF CreateInit, OnePerKey
<1>2. OnePerKey /\ [CreateNext]_createVars => OnePerKey'
  BY NextOnePerKey
<1> QED BY <1>1, <1>2, PTL DEF CreateSpec

\* Orders on credit together never go over the limit.
THEOREM CreditAlwaysWithinLimit == CreateSpec => CreditWithinLimit
<1>1. [CreateNext]_createVars =>
          [book' # book /\ debt' # debt => debt' <= CreditLimit]_createVars
  <2> SUFFICES ASSUME CreateNext, book' # book, debt' # debt PROVE debt' <= CreditLimit
    OBVIOUS
  <2>1. PICK c \in Calls : Insert(c)
    BY DEF CreateNext, ServerStep, Arrive, Begin, Refuse, LoseCall, EndCall,
           OthersOrder, OtherDealings
  <2>2. /\ WithinLimit(call[c].key, call[c].snap)
        /\ debt' = IF call[c].key \in OnCredit THEN debt + Total[call[c].key] ELSE debt
    BY <2>1 DEF Insert
  <2> QED BY <2>2 DEF WithinLimit
<1> QED BY <1>1, PTL DEF CreateSpec, CreditWithinLimit
============================================================================
