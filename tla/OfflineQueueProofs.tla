------------------------ MODULE OfflineQueueProofs ------------------------
(***************************************************************************)
(* Proofs about OfflineQueue: its types, that the server inside it is the  *)
(* one of OrderCreate, that an order leaves the phone only when the server *)
(* has it, and that every step is one OrderPromise allows.                 *)
(***************************************************************************)
EXTENDS OfflineQueue, OrderCreateProofs, WellFoundedInduction

---------------------------------------------------------------------------
(* Types of the operators *)

LEMMA SavedType ==
    ASSUME NEW rows \in [Keys -> Row]
    PROVE  Saved(rows) \subseteq Keys /\ Waiting(rows) \subseteq Keys
           /\ Cardinality(Saved(rows)) \in Nat
<1>1. Saved(rows) \subseteq Keys /\ Waiting(rows) \subseteq Keys
  BY DEF Saved, Waiting
<1>2. IsFiniteSet(Saved(rows))
  BY <1>1, FS_Subset, CreateConstants
<1> QED BY <1>1, <1>2, FS_CardinalityType

LEMMA HookTypes ==
    ASSUME NEW s \in HookState, NEW rows \in [Keys -> Row], NEW on \in BOOLEAN,
           online \in BOOLEAN
    PROVE  /\ Started(s, rows, on) \in HookState
           /\ Effect(s, rows, on) \in HookState
           /\ Reloaded(s, rows) \in HookState
           /\ Mounted(s, rows) \in HookState
           /\ PassOver(s, rows) \in HookState
<1> DEFINE n == Cardinality(Saved(rows))
<1>1. n \in Nat /\ Waiting(rows) \subseteq Keys
  BY SavedType
<1>2. ASSUME NEW t \in HookState, NEW up \in BOOLEAN
      PROVE  Started(t, rows, up) \in HookState /\ Effect(t, rows, up) \in HookState
  BY <1>1 DEF Started, Effect, HookState
<1>3. ASSUME NEW t \in HookState PROVE Reloaded(t, rows) \in HookState
  <2>1. [t EXCEPT !.known = n] \in HookState
    BY <1>1 DEF HookState
  <2> QED BY <1>2, <2>1 DEF Reloaded
<1>4. Mounted(s, rows) \in HookState
  <2>1. [s EXCEPT !.up = TRUE, !.known = n] \in HookState
    BY <1>1 DEF HookState
  <2> QED BY <1>2, <2>1 DEF Mounted
<1>5. [s EXCEPT !.busy = FALSE] \in HookState
  BY DEF HookState
<1> QED BY <1>2, <1>3, <1>4, <1>5 DEF PassOver

LEMMA RowTypes ==
    ASSUME NEW rows \in [Keys -> Row], NEW k \in Keys, NEW a \in {"ok", "refused", "lost"}
    PROVE  /\ Leave(rows, k) \in [Keys -> Row]
           /\ RecordFailure(rows, k) \in [Keys -> Row]
           /\ Outcome(rows, k, a) \in [Keys -> Row]
<1>1. MaxTries \in Nat /\ 0 \in 0 .. MaxTries
  BY QueueConstants
<1>2. Leave(rows, k) \in [Keys -> Row]
  BY <1>1 DEF Leave, Gone, Row
<1>3. RecordFailure(rows, k) \in [Keys -> Row]
  <2>1. CASE rows[k].at # "saved" \/ Refused(rows[k])
    BY <2>1 DEF RecordFailure
  <2>2. CASE rows[k].at = "saved" /\ ~Refused(rows[k])
    <3>1. rows[k].tries + 1 \in 0 .. MaxTries
      BY <1>1, <2>2 DEF Refused, Row
    <3>2. [rows[k] EXCEPT !.tries = @ + 1] \in Row
      BY <3>1 DEF Row
    <3>3. RecordFailure(rows, k) = [rows EXCEPT ![k] = [rows[k] EXCEPT !.tries = @ + 1]]
      BY <2>2 DEF RecordFailure
    <3> QED BY <3>2, <3>3
  <2> QED BY <2>1, <2>2
<1> QED BY <1>2, <1>3 DEF Outcome

\* A pass takes an order of its list.
LEMMA FirstIsOne ==
    ASSUME NEW list \in SUBSET Keys, list # {}
    PROVE  First(list) \in list
<1>1. list \subseteq Nat
  BY CreateConstants
<1>2. \E k \in list : \A j \in list : ~(<<j, k>> \in OpToRel(<, Nat))
  BY <1>1, NatLessThanWellFounded, WFMin
<1>3. PICK k \in list : \A j \in list : ~(<<j, k>> \in OpToRel(<, Nat))
  BY <1>2
<1>4. ASSUME NEW j \in list PROVE k <= j
  <2>1. j \in Nat /\ k \in Nat /\ <<j, k>> \in Nat \X Nat
    BY <1>1
  <2>2. ~(j < k)
    BY <1>3, <2>1 DEF OpToRel
  <2> QED BY <2>1, <2>2
<1> QED BY <1>4 DEF First

---------------------------------------------------------------------------
(* The server within the composition *)

\* A call that has arrived carries an order; one answered "ok" has created it.
Replies == {"ok", "refused", "lost"}

CallInv == \A c \in Calls :
    /\ call[c].stage # "idle" => call[c].key \in Keys
    /\ call[c].stage = "done" => call[c].answer \in Replies
    /\ call[c].stage = "done" /\ call[c].answer = "ok" => Exists(call[c].key)

\* Calls are only changed one at a time, and orders stay.
LEMMA CallInvStep ==
    ASSUME CallInv, call \in [Calls -> CallState], NEW c \in Calls, NEW s,
           call' = [call EXCEPT ![c] = s], book \subseteq book',
           s.stage # "idle" => s.key \in Keys,
           s.stage = "done" => s.answer \in Replies,
           s.stage = "done" /\ s.answer = "ok" => \E b \in book' : b.key = s.key
    PROVE  CallInv'
<1> SUFFICES ASSUME NEW d \in Calls
             PROVE  /\ call'[d].stage # "idle" => call'[d].key \in Keys
                    /\ call'[d].stage = "done" => call'[d].answer \in Replies
                    /\ call'[d].stage = "done" /\ call'[d].answer = "ok"
                           => \E b \in book' : b.key = call'[d].key
  BY DEF CallInv, Exists
<1>1. CASE d = c
  <2>1. call'[d] = s
    BY <1>1
  <2> QED BY <2>1
<1>2. CASE d # c
  <2>1. call'[d] = call[d]
    BY <1>2
  <2> QED BY <2>1 DEF CallInv, Exists
<1> QED BY <1>1, <1>2

LEMMA CallInvReply ==
    ASSUME CallInv, call \in [Calls -> CallState], NEW c \in Calls,
           call[c].stage # "idle", NEW a \in Replies, Reply(c, a), book \subseteq book',
           a = "ok" => \E b \in book' : b.key = call[c].key
    PROVE  CallInv'
<1> DEFINE s == [stage |-> "done", key |-> call[c].key, snap |-> NoSnapshot, answer |-> a]
<1>1. call' = [call EXCEPT ![c] = s]
  BY DEF Reply
<1>2. s.stage = "done" /\ s.key = call[c].key /\ s.answer = a
  OBVIOUS
<1>3. call[c].key \in Keys
  BY DEF CallInv
<1> HIDE DEF s
<1> QED BY <1>1, <1>2, <1>3, CallInvStep

LEMMA NextCallInv ==
    ASSUME CallInv, call \in [Calls -> CallState], [CreateNext]_createVars
    PROVE  CallInv'
<1>1. CASE UNCHANGED createVars
  BY <1>1 DEF createVars, CallInv, Exists
<1>2. ASSUME NEW c \in Calls, NEW k \in Keys, Arrive(c, k), UNCHANGED <<book, debt, overdue>>
      PROVE  CallInv'
  <2> DEFINE s == [call[c] EXCEPT !.stage = "sent", !.key = k]
  <2>1. call' = [call EXCEPT ![c] = s] /\ s.stage = "sent" /\ s.key = k
    BY <1>2 DEF Arrive, CallState
  <2> HIDE DEF s
  <2> QED BY <1>2, <2>1, CallInvStep
<1>3. ASSUME NEW c \in Calls, Begin(c) PROVE CallInv'
  <2>1. call[c].stage = "sent" /\ book' = book /\ call[c] \in CallState
    BY <1>3 DEF Begin
  <2>2. CASE Exists(call[c].key)
    BY <1>3, <2>1, <2>2, CallInvReply DEF Begin, Exists, Replies
  <2>3. CASE ~Exists(call[c].key)
    <3> DEFINE snap == [next |-> NextOrderNumber, debt |-> debt, overdue |-> overdue]
               s == [call[c] EXCEPT !.stage = "open", !.snap = snap]
    <3>1. call' = [call EXCEPT ![c] = s]
      BY <1>3, <2>3 DEF Begin
    <3>2. s.stage = "open" /\ s.key = call[c].key
      BY <2>1 DEF CallState
    <3>3. call[c].key \in Keys
      BY <2>1 DEF CallInv
    <3> HIDE DEF s
    <3> QED BY <2>1, <3>1, <3>2, <3>3, CallInvStep
  <2> QED BY <2>2, <2>3
<1>4. ASSUME NEW c \in Calls, Refuse(c) \/ LoseCall(c) PROVE CallInv'
  BY <1>4, CallInvReply DEF Refuse, LoseCall, Replies
<1>5. ASSUME NEW c \in Calls, Insert(c) PROVE CallInv'
  <2>1. book \subseteq book' /\ call[c].stage = "open"
    BY <1>5 DEF Insert
  <2>2. CASE Reply(c, "refused")
    BY <2>1, <2>2, CallInvReply DEF Replies
  <2>3. CASE KeyClash(call[c].key) /\ Reply(c, "ok")
    BY <2>1, <2>3, CallInvReply DEF KeyClash, Exists, Replies
  <2>4. CASE /\ book' = book \cup {[key |-> call[c].key, number |-> Won(call[c].snap),
                                     held |-> call[c].snap.overdue]}
             /\ Reply(c, "ok")
    <3> DEFINE b == [key |-> call[c].key, number |-> Won(call[c].snap),
                     held |-> call[c].snap.overdue]
    <3>1. b \in book' /\ b.key = call[c].key
      BY <2>4
    <3> HIDE DEF b
    <3> QED BY <2>1, <2>4, <3>1, CallInvReply DEF Replies
  <2> QED BY <1>5, <2>2, <2>3, <2>4 DEF Insert
<1>6. ASSUME NEW c \in Calls, EndCall(c), UNCHANGED <<book, debt, overdue>> PROVE CallInv'
  <2>1. Idle.stage = "idle" /\ call' = [call EXCEPT ![c] = Idle]
    BY <1>6 DEF Idle, EndCall
  <2> QED BY <1>6, <2>1, CallInvStep
<1>7. CASE OthersOrder
  BY <1>7 DEF OthersOrder, CallInv, Exists
<1>8. CASE OtherDealings
  BY <1>8 DEF OtherDealings, CallInv, Exists
<1> QED BY <1>1, <1>2, <1>3, <1>4, <1>5, <1>6, <1>7, <1>8 DEF CreateNext, ServerStep

\* Every step of the composition is a step of the server or leaves it alone.
LEMMA ServerPart ==
    ASSUME QueueTypeOK, [Next]_vars
    PROVE  [CreateNext]_createVars
<1>0. hand \in Calls \cup {NoCall} /\ \A h \in Hooks :
          hook[h].wait \in Calls \cup {NoCall} /\ hook[h].list \subseteq Keys
  BY DEF QueueTypeOK, HookState
<1>1. CASE UNCHANGED createVars
  BY <1>1
<1>2. ASSUME NEW k \in Keys, ByHand(k) PROVE CreateNext
  BY <1>2 DEF ByHand, CreateNext
<1>3. CASE ByHandDone
  <2>1. hand \in Calls /\ EndCall(hand) /\ UNCHANGED <<book, debt, overdue>>
    BY <1>0, <1>3 DEF ByHandDone, EndCall
  <2> QED BY <2>1 DEF CreateNext
<1>4. ASSUME NEW h \in Hooks, Answered(h) PROVE CreateNext
  <2> DEFINE c == hook[h].wait
  <2>1. c \in Calls /\ EndCall(c) /\ UNCHANGED <<book, debt, overdue>>
    BY <1>0, <1>4 DEF Answered, EndCall
  <2> HIDE DEF c
  <2> QED BY <2>1 DEF CreateNext
<1>5. ASSUME NEW h \in Hooks, Send(h) PROVE [CreateNext]_createVars
  <2>1. CASE online
    <3>1. First(hook[h].list) \in Keys
      BY <1>0, <1>5, FirstIsOne DEF Send
    <3>2. \E c \in Calls : Arrive(c, First(hook[h].list))
      BY <1>5, <2>1 DEF Send
    <3> QED BY <1>5, <3>1, <3>2 DEF Send, CreateNext
  <2>2. CASE ~online
    BY <1>5, <2>2 DEF Send, createVars
  <2> QED BY <2>1, <2>2
<1>6. ASSUME NEW c \in Calls, Forgotten(c) PROVE CreateNext
  BY <1>6 DEF Forgotten, CreateNext
<1>7. ASSUME NEW c \in Calls, ServerStep(c) \/ LoseCall(c) PROVE CreateNext
  BY <1>7 DEF CreateNext
<1>8. CASE OthersOrder \/ OtherDealings
  BY <1>8 DEF CreateNext
<1>9. CASE ~UNCHANGED createVars
  <2>1. Next
    BY <1>9 DEF vars
  <2>2. \/ \E k \in Keys : ByHand(k)
        \/ ByHandDone
        \/ \E h \in Hooks : Answered(h) \/ Send(h)
        \/ \E c \in Calls : Forgotten(c) \/ ServerStep(c) \/ LoseCall(c)
        \/ OthersOrder \/ OtherDealings
    BY <1>9, <2>1 DEF Next, Person, GoOnline, GoOffline, Switch, Settle, StartApp, CloseApp,
          OpenPage, LeavePage, UserRefreshed, Save, RetryFailed, SyncPressed, DeleteLocal,
          HookStep, Finish, Broken
  <2> QED BY <1>2, <1>3, <1>4, <1>5, <1>6, <1>7, <1>8, <2>2
<1> QED BY <1>1, <1>9

---------------------------------------------------------------------------
(* Types of the composition *)

ClientTypeOK ==
    /\ row \in [Keys -> Row]
    /\ online \in BOOLEAN /\ calm \in BOOLEAN
    /\ hook \in [Hooks -> HookState]
    /\ hand \in Calls \cup {NoCall}

\* One use of the hook changes to another state of the hook.
LEMMA OneHook ==
    ASSUME ClientTypeOK, NEW h \in Hooks, NEW t \in HookState,
           hook' = [hook EXCEPT ![h] = t],
           row' \in [Keys -> Row], UNCHANGED <<online, calm>>, hand' \in Calls \cup {NoCall}
    PROVE  ClientTypeOK'
BY DEF ClientTypeOK

LEMMA PagesReloaded ==
    ASSUME ClientTypeOK, NEW rows \in [Keys -> Row], ReloadPages(rows)
    PROVE  hook' \in [Hooks -> HookState]
<1>1. \A h \in Hooks : Reloaded(hook[h], rows) \in HookState
  BY HookTypes DEF ClientTypeOK
<1> QED BY <1>1 DEF ReloadPages, ClientTypeOK

LEMMA PersonTypes ==
    ASSUME ClientTypeOK, CallInv, Person
    PROVE  ClientTypeOK'
<1>0. /\ row \in [Keys -> Row] /\ online \in BOOLEAN /\ calm \in BOOLEAN
      /\ hook \in [Hooks -> HookState] /\ hand \in Calls \cup {NoCall}
  BY DEF ClientTypeOK
<1>1. ASSUME NEW k \in Keys, Save(k) PROVE ClientTypeOK'
  <2>1. [row[k] EXCEPT !.at = "saved"] \in Row
    BY <1>0 DEF Row
  <2>2. row' = [row EXCEPT ![k] = [row[k] EXCEPT !.at = "saved"]]
    BY <1>1 DEF Save
  <2>3. row' \in [Keys -> Row]
    BY <1>0, <2>1, <2>2
  <2> QED BY <1>0, <1>1, <2>3 DEF Save, ClientTypeOK
<1>2. ASSUME NEW h \in Pages, OpenPage(h) PROVE ClientTypeOK'
  <2>1. h \in Hooks /\ Mounted(hook[h], row) \in HookState
    BY <1>0, HookTypes DEF Pages
  <2> QED BY <1>0, <1>2, <2>1, OneHook DEF OpenPage
<1>3. ASSUME NEW h \in Pages, LeavePage(h) PROVE ClientTypeOK'
  <2> DEFINE t == [hook[h] EXCEPT !.up = FALSE, !.known = 0]
  <2>1. h \in Hooks /\ t \in HookState /\ hook' = [hook EXCEPT ![h] = t]
    BY <1>0, <1>3 DEF Pages, HookState, LeavePage
  <2> HIDE DEF t
  <2> QED BY <1>0, <1>3, <2>1, OneHook DEF LeavePage
<1>4. ASSUME NEW k \in Keys, ByHand(k) PROVE ClientTypeOK'
  BY <1>0, <1>4 DEF ByHand, ClientTypeOK
<1>5. ASSUME NEW k \in Keys, DeleteLocal(k) PROVE ClientTypeOK'
  <2>1. Gone("dropped") \in Row
    BY QueueConstants DEF Gone, Row
  <2>2. row' \in [Keys -> Row]
    BY <1>0, <1>5, <2>1 DEF DeleteLocal
  <2>3. hook' \in [Hooks -> HookState]
    BY <1>5, <2>2, PagesReloaded DEF DeleteLocal
  <2> QED BY <1>0, <1>5, <2>2, <2>3 DEF DeleteLocal, ClientTypeOK
<1>6. ASSUME NEW h \in Pages, SyncPressed(h) PROVE ClientTypeOK'
  <2>1. h \in Hooks /\ Started(hook[h], row, online) \in HookState
    BY <1>0, HookTypes DEF Pages
  <2> QED BY <1>0, <1>6, <2>1, OneHook DEF SyncPressed
<1>7. ASSUME NEW h \in Pages, NEW k \in Keys, RetryFailed(h, k) PROVE ClientTypeOK'
  <2>1. [row[k] EXCEPT !.tries = 0] \in Row
    BY <1>0, QueueConstants DEF Row
  <2>2. row' = [row EXCEPT ![k] = [row[k] EXCEPT !.tries = 0]]
    BY <1>7 DEF RetryFailed
  <2>3. row' \in [Keys -> Row] /\ h \in Hooks
    BY <1>0, <2>1, <2>2 DEF Pages
  <2>4. Reloaded(hook[h], row') \in HookState
    BY <1>0, <2>3, HookTypes
  <2>5. Started(Reloaded(hook[h], row'), row', online) \in HookState
    BY <1>0, <2>3, <2>4, HookTypes
  <2> QED BY <1>0, <1>7, <2>3, <2>5, OneHook DEF RetryFailed
<1>8. ASSUME NEW h \in Hooks, UserRefreshed(h) PROVE ClientTypeOK'
  <2>1. Reloaded(hook[h], row) \in HookState
    BY <1>0, HookTypes
  <2> QED BY <1>0, <1>8, <2>1, OneHook DEF UserRefreshed
<1> QED BY <1>1, <1>2, <1>3, <1>4, <1>5, <1>6, <1>7, <1>8 DEF Person

LEMMA HookStepTypes ==
    ASSUME QueueTypeOK, ClientTypeOK, CallInv, NEW h \in Hooks,
           HookStep(h) \/ Send(h) \/ Broken(h)
    PROVE  ClientTypeOK'
<1>0. /\ row \in [Keys -> Row] /\ online \in BOOLEAN /\ calm \in BOOLEAN
      /\ hook[h] \in HookState /\ hook \in [Hooks -> HookState] /\ hand \in Calls \cup {NoCall}
      /\ call \in [Calls -> CallState]
  BY DEF ClientTypeOK, QueueTypeOK, CreateTypeOK
<1>1. hook[h].wait \in Calls \cup {NoCall} /\ hook[h].list \subseteq Keys
  BY <1>0 DEF HookState
<1>2. ASSUME NEW list \in SUBSET Keys, NEW c \in Calls \cup {NoCall}
      PROVE  [hook[h] EXCEPT !.list = list, !.wait = c] \in HookState
  BY <1>0 DEF HookState
<1>3. CASE Answered(h)
  <2> DEFINE c == hook[h].wait
             t == [hook[h] EXCEPT !.list = Rest(@, call[c].key, call[c].answer), !.wait = NoCall]
  <2>1. c \in Calls /\ call[c].stage = "done"
    BY <1>1, <1>3 DEF Answered
  <2>2. call[c].key \in Keys /\ call[c].answer \in Replies
    BY <2>1 DEF CallInv
  <2>3. row' \in [Keys -> Row]
    BY <1>0, <1>3, <2>2, RowTypes DEF Answered, Replies
  <2>4. t \in HookState /\ hook' = [hook EXCEPT ![h] = t]
    BY <1>1, <1>2, <1>3 DEF Answered, Rest
  <2> HIDE DEF t, c
  <2> QED BY <1>0, <1>3, <2>3, <2>4, OneHook DEF Answered
<1>4. CASE Finish(h)
  <2>1. PassOver(hook[h], row) \in HookState
    BY <1>0, HookTypes
  <2> QED BY <1>0, <1>4, <2>1, OneHook DEF Finish
<1>5. CASE Send(h)
  <2>1. CASE online
    <3>1. PICK c \in Calls : hook' = [hook EXCEPT ![h].wait = c]
      BY <1>5, <2>1 DEF Send
    <3> DEFINE t == [hook[h] EXCEPT !.wait = c]
    <3>2. t \in HookState /\ hook' = [hook EXCEPT ![h] = t]
      BY <1>0, <3>1 DEF HookState
    <3> HIDE DEF t
    <3> QED BY <1>0, <1>5, <3>2, OneHook DEF Send
  <2>2. CASE ~online
    <3> DEFINE t == [hook[h] EXCEPT !.list = {}]
    <3>1. t \in HookState /\ hook' = [hook EXCEPT ![h] = t]
      BY <1>0, <1>5, <2>2 DEF HookState, Send
    <3> HIDE DEF t
    <3> QED BY <1>0, <1>5, <3>1, OneHook DEF Send
  <2> QED BY <2>1, <2>2
<1>6. CASE Broken(h)
  <2> DEFINE t == [hook[h] EXCEPT !.list = Rest(@, call[hook[h].wait].key, "lost"),
                                  !.wait = NoCall]
  <2>1. row' = row
    BY <1>6 DEF Broken, Outcome
  <2>2. t \in HookState /\ hook' = [hook EXCEPT ![h] = t]
    BY <1>2, <1>6 DEF Broken, Rest
  <2> HIDE DEF t
  <2> QED BY <1>0, <1>6, <2>1, <2>2, OneHook DEF Broken
<1> QED BY <1>3, <1>4, <1>5, <1>6 DEF HookStep

LEMMA StepTypes ==
    ASSUME QueueTypeOK, CallInv, [Next]_vars
    PROVE  ClientTypeOK'
<1>0. /\ row \in [Keys -> Row] /\ online \in BOOLEAN /\ calm \in BOOLEAN
      /\ hook \in [Hooks -> HookState] /\ hand \in Calls \cup {NoCall} /\ ClientTypeOK
  BY DEF QueueTypeOK, ClientTypeOK
<1>1. CASE UNCHANGED clientVars
  BY <1>0, <1>1 DEF clientVars, ClientTypeOK
<1>2. ASSUME NEW on \in BOOLEAN, Switch(on) PROVE ClientTypeOK'
  <2>1. \A h \in Hooks : Effect(hook[h], row, on) \in HookState
    BY <1>0, <1>2, HookTypes
  <2>2. hook' \in [Hooks -> HookState]
    BY <1>0, <1>2, <2>1 DEF Switch
  <2> QED BY <1>0, <1>2, <2>2 DEF Switch, ClientTypeOK
<1>3. CASE Settle
  BY <1>0, <1>3 DEF Settle, ClientTypeOK
<1>4. CASE StartApp
  <2>1. Shell \in Hooks /\ Mounted(hook[Shell], row) \in HookState
    BY <1>0, HookTypes, QueueConstants
  <2> QED BY <1>0, <1>4, <2>1, OneHook DEF StartApp
<1>5. CASE CloseApp
  <2>1. Unmounted \in HookState
    BY DEF Unmounted, HookState
  <2> QED BY <1>0, <1>5, <2>1 DEF CloseApp, ClientTypeOK
<1>6. CASE Person
  BY <1>0, <1>6, PersonTypes
<1>7. CASE ByHandDone
  <2> DEFINE k == call[hand].key
             rows == [row EXCEPT ![k] =
                 IF call[hand].answer = "ok" /\ @.at \in {"draft", "saved"}
                 THEN Gone("sent") ELSE @]
  <2>1. Gone("sent") \in Row
    BY QueueConstants DEF Gone, Row
  <2>2. rows \in [Keys -> Row]
    BY <1>0, <2>1
  <2>3. row' = rows /\ ReloadPages(rows)
    BY <1>7 DEF ByHandDone
  <2> HIDE DEF rows
  <2>4. hook' \in [Hooks -> HookState]
    BY <1>0, <2>2, <2>3, PagesReloaded
  <2> QED BY <1>0, <1>7, <2>2, <2>3, <2>4 DEF ByHandDone, ClientTypeOK
<1>8. ASSUME NEW h \in Hooks, HookStep(h) \/ Send(h) \/ Broken(h) PROVE ClientTypeOK'
  BY <1>0, <1>8, HookStepTypes
<1> QED BY <1>1, <1>2, <1>3, <1>4, <1>5, <1>6, <1>7, <1>8
        DEF Next, vars, GoOnline, GoOffline, Forgotten

---------------------------------------------------------------------------
(* How rows change *)

\* What one step does to the row of k, r being the row after it.
RowMove(k, r) ==
    \/ row[k].at = "draft" /\ r = [row[k] EXCEPT !.at = "saved"]
    \/ row[k].at \in {"draft", "saved"} /\ r = Gone("sent") /\ Exists(k)
    \/ row[k].at = "saved" /\ r = Gone("dropped")
    \/ row[k].at = "saved" /\ ~Refused(row[k]) /\ r = [row[k] EXCEPT !.tries = @ + 1]
    \/ row[k].at = "saved" /\ Refused(row[k]) /\ r = [row[k] EXCEPT !.tries = 0]

RowMoved == /\ UNCHANGED book
            /\ \E k \in Keys : \E r : row' = [row EXCEPT ![k] = r] /\ RowMove(k, r)

LEMMA RowMoves ==
    ASSUME QueueTypeOK, CallInv, [Next]_vars, row' # row
    PROVE  RowMoved
<1>0. /\ row \in [Keys -> Row] /\ hand \in Calls \cup {NoCall}
      /\ \A h \in Hooks : hook[h].wait \in Calls \cup {NoCall}
  BY DEF QueueTypeOK, HookState
<1>1. ASSUME NEW k \in Keys, Save(k) PROVE RowMoved
  <2> DEFINE r == [row[k] EXCEPT !.at = "saved"]
  <2>1. row' = [row EXCEPT ![k] = r] /\ UNCHANGED book /\ RowMove(k, r)
    BY <1>1 DEF Save, InWizard, RowMove, createVars
  <2> QED BY <2>1 DEF RowMoved
<1>2. ASSUME NEW k \in Keys, DeleteLocal(k) PROVE RowMoved
  BY <1>2 DEF DeleteLocal, RowMoved, RowMove, createVars
<1>3. ASSUME NEW h \in Pages, NEW k \in Keys, RetryFailed(h, k) PROVE RowMoved
  <2> DEFINE r == [row[k] EXCEPT !.tries = 0]
  <2>1. row' = [row EXCEPT ![k] = r] /\ UNCHANGED book /\ RowMove(k, r)
    BY <1>3 DEF RetryFailed, RowMove, createVars
  <2> QED BY <2>1 DEF RowMoved
<1>4. CASE ByHandDone
  <2> DEFINE k == call[hand].key
  <2>1. hand \in Calls /\ k \in Keys /\ UNCHANGED book
    BY <1>0, <1>4 DEF ByHandDone, CallInv
  <2>2. row' = [row EXCEPT ![k] = IF call[hand].answer = "ok" /\ @.at \in {"draft", "saved"}
                                  THEN Gone("sent") ELSE @]
    BY <1>4 DEF ByHandDone
  <2>3. CASE call[hand].answer = "ok" /\ row[k].at \in {"draft", "saved"}
    <3>1. Exists(k) /\ row' = [row EXCEPT ![k] = Gone("sent")]
      BY <1>4, <2>1, <2>2, <2>3 DEF ByHandDone, CallInv
    <3> HIDE DEF k
    <3> QED BY <2>1, <2>3, <3>1 DEF RowMoved, RowMove
  <2>4. CASE ~(call[hand].answer = "ok" /\ row[k].at \in {"draft", "saved"})
    BY <1>0, <2>2, <2>4
  <2> QED BY <2>3, <2>4
<1>5. ASSUME NEW h \in Hooks, Answered(h) PROVE RowMoved
  <2> DEFINE k == call[hook[h].wait].key
             a == call[hook[h].wait].answer
  <2>1. hook[h].wait \in Calls /\ k \in Keys /\ a \in Replies /\ UNCHANGED book
    BY <1>0, <1>5 DEF Answered, CallInv
  <2>2. row' = Outcome(row, k, a) /\ (a = "ok" => Exists(k))
    BY <1>5, <2>1 DEF Answered, CallInv
  <2> HIDE DEF k, a
  <2>3. CASE a = "ok"
    <3>1. row' = Leave(row, k) /\ row[k].at = "saved"
      BY <1>0, <2>1, <2>2, <2>3 DEF Outcome, Leave
    <3>2. row' = [row EXCEPT ![k] = Gone("sent")] /\ RowMove(k, Gone("sent"))
      BY <2>2, <2>3, <3>1 DEF Leave, RowMove
    <3> QED BY <2>1, <3>2 DEF RowMoved
  <2>4. CASE a = "refused"
    <3>1. row' = RecordFailure(row, k) /\ row[k].at = "saved" /\ ~Refused(row[k])
      BY <2>1, <2>2, <2>4 DEF Outcome, RecordFailure
    <3> DEFINE r == [row[k] EXCEPT !.tries = @ + 1]
    <3>2. row' = [row EXCEPT ![k] = r] /\ RowMove(k, r)
      BY <3>1 DEF RecordFailure, RowMove
    <3> QED BY <2>1, <3>2 DEF RowMoved
  <2>5. CASE a = "lost"
    BY <2>2, <2>5 DEF Outcome
  <2> QED BY <2>1, <2>3, <2>4, <2>5 DEF Replies
<1>6. \/ \E k \in Keys : Save(k) \/ DeleteLocal(k)
      \/ \E h \in Pages, k \in Keys : RetryFailed(h, k)
      \/ ByHandDone
      \/ \E h \in Hooks : Answered(h)
  BY DEF Next, vars, clientVars, Person, GoOnline, GoOffline, Switch, Settle, StartApp, CloseApp,
         OpenPage, LeavePage, UserRefreshed, SyncPressed, ByHand, HookStep, Finish, Send,
         Broken, Outcome, Forgotten
<1> QED BY <1>1, <1>2, <1>3, <1>4, <1>5, <1>6

---------------------------------------------------------------------------
(* The inductive invariant *)

\* Drafts carry no count: saved, they are not shown.
DraftInv == \A k \in Keys : row[k].at = "draft" => row[k].tries = 0

OthersRows == {b \in book : b.key = Other}

OthersInv == Cardinality(OthersRows) <= MaxOthers

QueueInv == /\ QueueTypeOK /\ BookInv /\ OnePerKey /\ OthersInv
            /\ CallInv /\ DraftInv /\ SentIsCreated

\* Orders are added, one at a time, with the next number.
LEMMA BookMoves ==
    ASSUME QueueInv, [CreateNext]_createVars, book' # book
    PROVE  \/ OthersOrder
           \/ \E k \in Keys : \E held : /\ ~Exists(k)
                 /\ book' = book \cup {[key |-> k, number |-> Legacy + Cardinality(book) + 1,
                                         held |-> held]}
<1>1. CASE \E c \in Calls : Insert(c)
  <2>1. PICK c \in Calls : Insert(c)
    BY <1>1
  <2>2. /\ call[c].stage = "open" /\ ~Exists(call[c].key)
        /\ \E n \in Tried(call[c].snap) : ~Taken(n)
        /\ book' = book \cup {[key |-> call[c].key, number |-> Won(call[c].snap),
                                held |-> call[c].snap.overdue]}
    BY <2>1 DEF Insert, KeyClash
  <2>3. call[c].key \in Keys /\ Won(call[c].snap) = Legacy + Cardinality(book) + 1
    BY <2>2, WonNumber DEF QueueInv, CallInv
  <2> QED BY <2>2, <2>3
<1>2. OthersOrder \/ \E c \in Calls : Insert(c)
  BY DEF CreateNext, createVars, ServerStep, Arrive, Begin, Refuse, LoseCall, EndCall,
         OtherDealings
<1> QED BY <1>1, <1>2

LEMMA NextOthers ==
    ASSUME QueueInv, [CreateNext]_createVars
    PROVE  OthersInv'
<1>0. IsFiniteSet(OthersRows) /\ Cardinality(OthersRows) \in Nat /\ MaxOthers \in Nat
  <2>1. IsFiniteSet(book) /\ OthersRows \subseteq book
    BY DEF QueueInv, BookInv, OthersRows
  <2> QED BY <2>1, FS_Subset, FS_CardinalityType, CreateConstants
<1>1. CASE book' = book
  BY <1>1 DEF QueueInv, OthersInv, OthersRows
<1>2. CASE OthersOrder
  <2> DEFINE b == [key |-> Other, number |-> NextOrderNumber, held |-> FALSE]
  <2>1. OthersRows' = OthersRows \cup {b} /\ Cardinality(OthersRows) < MaxOthers
    BY <1>2 DEF OthersOrder, OthersRows
  <2> HIDE DEF b
  <2>2. Cardinality(OthersRows') <= Cardinality(OthersRows) + 1
    BY <1>0, <2>1, FS_AddElement
  <2>3. Cardinality(OthersRows') \in Nat
    BY <1>0, <2>1, FS_AddElement
  <2> QED BY <1>0, <2>1, <2>2, <2>3 DEF OthersInv
<1>3. CASE \E k \in Keys : \E x : x.key = k /\ book' = book \cup {x}
  <2>1. OthersRows' = OthersRows
    BY <1>3, CreateConstants DEF OthersRows
  <2> QED BY <2>1 DEF QueueInv, OthersInv
<1> QED BY <1>1, <1>2, <1>3, BookMoves

LEMMA InitQueue == Init => QueueInv
<1> SUFFICES ASSUME Init PROVE QueueInv
  OBVIOUS
<1>1. CreateInit /\ BookInv /\ book = {}
  BY InitBook DEF Init, CreateInit
<1>2. QueueTypeOK
  <2>1. Unmounted \in HookState
    BY DEF Unmounted, HookState
  <2>2. [at |-> "draft", tries |-> 0] \in Row
    BY QueueConstants DEF Row
  <2> QED BY <1>1, <2>1, <2>2 DEF Init, QueueTypeOK, BookInv
<1>3. OnePerKey /\ OthersRows = {}
  BY <1>1 DEF OnePerKey, OthersRows
<1>4. OthersInv
  BY <1>3, FS_EmptySet, CreateConstants DEF OthersInv
<1>5. CallInv
  BY <1>1 DEF CreateInit, CallInv, Idle
<1>6. DraftInv /\ SentIsCreated
  BY DEF Init, DraftInv, SentIsCreated
<1> QED BY <1>1, <1>2, <1>3, <1>4, <1>5, <1>6 DEF QueueInv

\* An order marked as sent was created before, and orders stay.
LEMMA RowsStep ==
    ASSUME QueueInv, [Next]_vars
    PROVE  DraftInv' /\ SentIsCreated'
<1>0. row \in [Keys -> Row] /\ [CreateNext]_createVars
  BY ServerPart DEF QueueInv, QueueTypeOK
<1>1. CASE row' = row
  <2>1. book \subseteq book'
    BY <1>0, BookMoves DEF OthersOrder
  <2> QED BY <1>1, <2>1 DEF QueueInv, DraftInv, SentIsCreated, Exists
<1>2. CASE row' # row
  <2>1. RowMoved
    BY <1>2, RowMoves DEF QueueInv
  <2>2. PICK k \in Keys : \E r : row' = [row EXCEPT ![k] = r] /\ RowMove(k, r)
    BY <2>1 DEF RowMoved
  <2>3. PICK r : row' = [row EXCEPT ![k] = r] /\ RowMove(k, r)
    BY <2>2
  <2>4. r.at # "draft" /\ (r.at = "sent" => Exists(k))
    <3>1. row[k] \in Row
      BY <1>0
    <3> QED BY <2>3, <3>1 DEF RowMove, Gone, Row
  <2>5. book' = book
    BY <2>1 DEF RowMoved
  <2>6. \A j \in Keys : row'[j] = IF j = k THEN r ELSE row[j]
    BY <1>0, <2>3
  <2> QED BY <2>4, <2>5, <2>6 DEF QueueInv, DraftInv, SentIsCreated, Exists
<1> QED BY <1>1, <1>2

LEMMA NextQueue == QueueInv /\ [Next]_vars => QueueInv'
<1> SUFFICES ASSUME QueueInv, [Next]_vars PROVE QueueInv'
  OBVIOUS
<1>1. /\ QueueTypeOK /\ BookInv /\ OnePerKey /\ CallInv
      /\ call \in [Calls -> CallState]
  BY DEF QueueInv, BookInv, CreateTypeOK
<1>2. [CreateNext]_createVars
  BY <1>1, ServerPart
<1>3. BookInv' /\ OnePerKey' /\ CallInv' /\ OthersInv'
  BY <1>1, <1>2, NextBook, NextOnePerKey, NextCallInv, NextOthers
<1>4. QueueTypeOK'
  BY <1>1, <1>3, StepTypes DEF QueueTypeOK, ClientTypeOK, BookInv
<1> QED BY <1>3, <1>4, RowsStep DEF QueueInv

\* Every variable of the queue and of the server keeps its type; the list of a
\* pass holds orders only and a failure is never counted beyond the last try.
THEOREM QueueTypes == Spec => []QueueTypeOK
<1>1. QueueInv => QueueTypeOK
  BY DEF QueueInv
<1> QED BY <1>1, InitQueue, NextQueue, PTL DEF Spec

\* An order leaves the phone by itself only when the server has it.
THEOREM SentAlwaysCreated == Spec => []SentIsCreated
<1>1. QueueInv => SentIsCreated
  BY DEF QueueInv
<1> QED BY <1>1, InitQueue, NextQueue, PTL DEF Spec

\* The queue is a client of order.create: whatever it does is a behaviour of
\* OrderCreate, so all that holds there holds of the orders it sends.
THEOREM QueueUsesCreate == Spec => CreateSpec
<1>1. Init => CreateInit
  BY DEF Init
<1>2. QueueInv /\ [Next]_vars => [CreateNext]_createVars
  BY ServerPart DEF QueueInv
<1> QED BY <1>1, <1>2, InitQueue, NextQueue, PTL DEF Spec, CreateSpec

---------------------------------------------------------------------------
(* The queue keeps OrderPromise *)

Kept == Saved(row)

Shown == {k \in Saved(row) : Refused(row[k])}

Made == {[key |-> b.key, number |-> b.number] : b \in {x \in book : x.key \in Keys}}

\* There are no more orders than keys and orders of others.
BookBounded == Cardinality(book) <= Cardinality(Keys) + MaxOthers

LEMMA BookSize ==
    ASSUME QueueInv
    PROVE  BookBounded
<1> DEFINE own == {b \in book : b.key \in Keys}
<1>1. /\ IsFiniteSet(book) /\ own \subseteq book /\ OthersRows \subseteq book
      /\ book = own \cup OthersRows /\ own \cap OthersRows = {}
  BY CreateConstants DEF QueueInv, BookInv, CreateTypeOK, OrderRow, OthersRows
<1>2. /\ IsFiniteSet(own) /\ IsFiniteSet(OthersRows)
      /\ Cardinality(own) \in Nat /\ Cardinality(OthersRows) \in Nat
  BY <1>1, FS_Subset, FS_CardinalityType
<1>3. Cardinality(book) = Cardinality(own) + Cardinality(OthersRows)
  <2>1. Cardinality(own \cap OthersRows) = 0
    BY <1>1, FS_EmptySet
  <2>2. Cardinality(own \cup OthersRows)
            = Cardinality(own) + Cardinality(OthersRows) - Cardinality(own \cap OthersRows)
    BY <1>2, FS_Union
  <2> HIDE DEF own
  <2> QED BY <1>1, <1>2, <2>1, <2>2
<1>4. Cardinality(own) <= Cardinality(Keys)
  <2> DEFINE f == [b \in own |-> b.key]
  <2>1. \A a, b \in own : f[a] = f[b] => a = b
    BY CreateConstants DEF QueueInv, OnePerKey
  <2>2. f \in [own -> Keys]
    OBVIOUS
  <2>3. f \in Injection(own, Keys)
    BY <2>1, <2>2 DEF Injection, IsInjective
  <2> QED BY <2>3, FS_Injection, CreateConstants
<1>5. Cardinality(Keys) \in Nat /\ MaxOthers \in Nat
  BY FS_CardinalityType, CreateConstants
<1> HIDE DEF own
<1> QED BY <1>2, <1>3, <1>4, <1>5 DEF QueueInv, OthersInv, BookBounded

\* A new order is one that OrderPromise lets the server make.
LEMMA BookStep ==
    ASSUME QueueInv, QueueInv', BookBounded', [CreateNext]_createVars,
           book' # book, row' = row
    PROVE  [Promise!Next]_(Promise!vars)
<1>0. Kept' = Kept /\ Shown' = Shown
  BY DEF Kept, Shown, Saved
<1>1. CASE OthersOrder
  <2>1. Made' = Made
    BY <1>1, CreateConstants DEF OthersOrder, Made
  <2> QED BY <1>0, <2>1 DEF Promise!vars, Kept, Shown, Made
<1>2. ASSUME NEW k \in Keys, NEW held, ~Exists(k),
             book' = book \cup {[key |-> k, number |-> Legacy + Cardinality(book) + 1,
                                 held |-> held]}
      PROVE  Promise!Next
  <2> DEFINE n == Legacy + Cardinality(book) + 1
             b == [key |-> k, number |-> n, held |-> held]
  <2>1. Made' = Made \cup {[key |-> k, number |-> n]}
    <3>1. b.key = k /\ b.number = n /\ book' = book \cup {b}
      BY <1>2
    <3> HIDE DEF b, n
    <3> QED BY <3>1 DEF Made
  <2>2. ~ \E m \in Made : m.key = k
    BY <1>2 DEF Made, Exists
  <2>3. Legacy \in Nat /\ Cardinality(book) \in Nat /\ n \in Nat
    BY NextNumber DEF QueueInv
  <2>4. \A m \in Made : m.number # n
    <3>1. \A x \in book : x.number \in (Legacy + 1) .. (Legacy + Cardinality(book))
      BY DEF QueueInv, BookInv, NumbersDense
    <3>2. \A x \in book : x.number # n
      BY <2>3, <3>1
    <3> HIDE DEF n
    <3> QED BY <3>2 DEF Made
  <2>5. n \in (Legacy + 1) .. (Legacy + Cardinality(Keys) + MaxOthers)
    <3>1. n \in {x.number : x \in book'}
      <4>1. b \in book' /\ b.number = n
        BY <1>2
      <4> QED BY <4>1
    <3>2. {x.number : x \in book'} = (Legacy + 1) .. (Legacy + Cardinality(book'))
      BY DEF QueueInv, BookInv, NumbersDense
    <3>3. Cardinality(book') \in Nat /\ Cardinality(Keys) \in Nat /\ MaxOthers \in Nat
      BY FS_CardinalityType, CreateConstants DEF QueueInv, BookInv
    <3>4. Cardinality(book') <= Cardinality(Keys) + MaxOthers
      BY DEF BookBounded
    <3> HIDE DEF n
    <3> QED BY <2>3, <3>1, <3>2, <3>3, <3>4
  <2> HIDE DEF n
  <2>6. Promise!Make(k)
    BY <1>0, <2>1, <2>2, <2>4, <2>5 DEF Promise!Make, Promise!HasOrder, Kept, Shown, Made
  <2> QED BY <2>6 DEF Promise!Next
<1> QED BY <1>1, <1>2, BookMoves

\* The orders on the phone after one row has changed.
LEMMA KeptAfter ==
    ASSUME row \in [Keys -> Row], NEW k \in Keys, NEW r, row' = [row EXCEPT ![k] = r]
    PROVE  /\ Kept' = IF r.at = "saved" THEN Kept \cup {k} ELSE Kept \ {k}
           /\ Shown' = IF r.at = "saved" /\ Refused(r) THEN Shown \cup {k} ELSE Shown \ {k}
           /\ k \in Kept <=> row[k].at = "saved"
           /\ k \in Shown <=> row[k].at = "saved" /\ Refused(row[k])
<1>1. \A j \in Keys : row'[j] = IF j = k THEN r ELSE row[j]
  OBVIOUS
<1>2. Kept' = IF r.at = "saved" THEN Kept \cup {k} ELSE Kept \ {k}
  BY <1>1 DEF Kept, Saved
<1>3. Shown' = IF r.at = "saved" /\ Refused(r) THEN Shown \cup {k} ELSE Shown \ {k}
  BY <1>1 DEF Shown, Saved
<1> QED BY <1>2, <1>3 DEF Kept, Shown, Saved

\* A change of a row is one that OrderPromise allows.
LEMMA PhoneStep ==
    ASSUME QueueInv, RowMoved
    PROVE  [Promise!Next]_(Promise!vars)
<1>0. row \in [Keys -> Row] /\ MaxTries \in Nat \ {0}
  BY QueueConstants DEF QueueInv, QueueTypeOK
<1>1. Made' = Made
  BY DEF RowMoved, Made
<1>2. PICK k \in Keys : \E r : row' = [row EXCEPT ![k] = r] /\ RowMove(k, r)
  BY DEF RowMoved
<1>3. PICK r : row' = [row EXCEPT ![k] = r] /\ RowMove(k, r)
  BY <1>2
<1>4. /\ Kept' = IF r.at = "saved" THEN Kept \cup {k} ELSE Kept \ {k}
      /\ Shown' = IF r.at = "saved" /\ Refused(r) THEN Shown \cup {k} ELSE Shown \ {k}
      /\ k \in Kept <=> row[k].at = "saved"
      /\ k \in Shown <=> row[k].at = "saved" /\ Refused(row[k])
  BY <1>0, <1>3, KeptAfter
<1>5. row[k] \in Row /\ row[k].tries \in 0 .. MaxTries
  BY <1>0 DEF Row
<1> USE DEF Kept, Shown, Made
<1>6. CASE row[k].at = "draft" /\ r = [row[k] EXCEPT !.at = "saved"]
  <2>1. r.at = "saved" /\ r.tries = 0
    BY <1>5, <1>6 DEF QueueInv, DraftInv, Row
  <2>2. Promise!Keep(k)
    BY <1>0, <1>1, <1>4, <1>6, <2>1 DEF Promise!Keep, Refused
  <2> QED BY <2>2 DEF Promise!Next
<1>7. CASE row[k].at \in {"draft", "saved"} /\ r = Gone("sent") /\ Exists(k)
  <2>1. r.at = "sent"
    BY <1>7 DEF Gone
  <2>2. CASE row[k].at = "draft"
    BY <1>1, <1>4, <2>1, <2>2 DEF Promise!vars
  <2>3. CASE row[k].at = "saved"
    <3>1. \E m \in Made : m.key = k
      <4>1. PICK b \in book : b.key = k
        BY <1>7 DEF Exists
      <4>2. [key |-> b.key, number |-> b.number] \in Made
        BY <4>1
      <4> QED BY <4>1, <4>2
    <3>2. Promise!Leave(k)
      BY <1>1, <1>4, <2>1, <2>3, <3>1 DEF Promise!Leave, Promise!HasOrder
    <3> QED BY <3>2 DEF Promise!Next
  <2> QED BY <1>7, <2>2, <2>3
<1>8. CASE row[k].at = "saved" /\ r = Gone("dropped")
  <2>1. r.at = "dropped"
    BY <1>8 DEF Gone
  <2>2. Promise!ThrowAway(k)
    BY <1>1, <1>4, <1>8, <2>1 DEF Promise!ThrowAway
  <2> QED BY <2>2 DEF Promise!Next
<1>9. CASE row[k].at = "saved" /\ ~Refused(row[k]) /\ r = [row[k] EXCEPT !.tries = @ + 1]
  <2>1. r.at = "saved"
    BY <1>5, <1>9 DEF Row
  <2>2. CASE Refused(r)
    <3>1. Promise!Show(k)
      BY <1>1, <1>4, <1>9, <2>1, <2>2 DEF Promise!Show
    <3> QED BY <3>1 DEF Promise!Next
  <2>3. CASE ~Refused(r)
    BY <1>1, <1>4, <1>9, <2>1, <2>3 DEF Promise!vars
  <2> QED BY <2>2, <2>3
<1>10. CASE row[k].at = "saved" /\ Refused(row[k]) /\ r = [row[k] EXCEPT !.tries = 0]
  <2>1. r.at = "saved" /\ r.tries = 0
    BY <1>5, <1>10 DEF Row
  <2>2. Promise!TryAgain(k)
    BY <1>0, <1>1, <1>4, <1>10, <2>1 DEF Promise!TryAgain, Refused
  <2> QED BY <2>2 DEF Promise!Next
<1> QED BY <1>3, <1>6, <1>7, <1>8, <1>9, <1>10 DEF RowMove

\* What the queue and the server do together is what OrderPromise allows: an
\* order is made once, and leaves the phone only made or thrown away.  That it
\* goes or is shown in the end is checked on instances.
THEOREM QueueKeepsPromise == Spec => Promise!Init /\ [][Promise!Next]_(Promise!vars)
<1>1. Init => Promise!Init
  <2> SUFFICES ASSUME Init PROVE Promise!Init
    OBVIOUS
  <2>1. book = {} /\ Saved(row) = {}
    BY DEF Init, CreateInit, Saved
  <2> QED BY <2>1 DEF Promise!Init
<1>2. QueueInv /\ QueueInv' /\ BookBounded' /\ [Next]_vars => [Promise!Next]_(Promise!vars)
  <2> SUFFICES ASSUME QueueInv, QueueInv', BookBounded', [Next]_vars
               PROVE  [Promise!Next]_(Promise!vars)
    OBVIOUS
  <2>1. [CreateNext]_createVars /\ QueueTypeOK /\ CallInv
    BY ServerPart DEF QueueInv
  <2>2. CASE row' # row
    BY <2>1, <2>2, RowMoves, PhoneStep
  <2>3. CASE row' = row /\ book' # book
    BY <2>1, <2>3, BookStep
  <2>4. CASE row' = row /\ book' = book
    BY <2>4 DEF Promise!vars, Saved
  <2> QED BY <2>2, <2>3, <2>4
<1>3. QueueInv => BookBounded
  BY BookSize
<1> QED BY <1>1, <1>2, <1>3, InitQueue, NextQueue, PTL DEF Spec
===========================================================================
