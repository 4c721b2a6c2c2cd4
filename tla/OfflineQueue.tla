---------------------------- MODULE OfflineQueue ----------------------------
(***************************************************************************)
(* The web client's queue of orders finished without a connection          *)
(* (src/src/hooks/useOfflineSync.ts, src/src/pages/OfflineOrders*.ts*,     *)
(* src/src/pages/NewOrder.tsx) together with order.create on the server.   *)
(*                                                                         *)
(* Every mounted use of the hook keeps its own guard against a second pass *)
(* and its own idea of how many orders wait: the one of the app's shell    *)
(* (App.tsx) and those of the page "Offline" run side by side.  A pass     *)
(* goes on after its page is left.  An order is a key and its row in       *)
(* IndexedDB; keys are numbered in the order the orders are finished,      *)
(* which is the order of localId.                                          *)
(***************************************************************************)
EXTENDS OrderCreate

CONSTANTS
    Hooks,      \* uses of useOfflineSync
    Shell,      \* the one of AppLayout; the others are visits to the page
    MaxTries,   \* maxAttempts of recordPendingFailure
    NoCall,     \* nothing is awaited
    Deeds       \* what the person does besides saving orders and looking

ASSUME QueueConstants ==
    /\ Shell \in Hooks
    /\ MaxTries \in Nat \ {0}
    /\ NoCall \notin Calls

VARIABLES
    row,      \* the orders on the phone
    online,   \* navigator.onLine
    calm,     \* from now on the connection holds
    hook,     \* uses of the hook
    hand      \* the call a person has started with a button

clientVars == <<row, online, calm, hook, hand>>
vars == <<createVars, clientVars>>

Pages == Hooks \ {Shell}

\* tries: failures counted so far; with MaxTries of them the row carries
\* lastError (more than that are not told apart).
Row == [at: {"draft", "saved", "sent", "dropped"}, tries: 0 .. MaxTries]

Gone(at) == [at |-> at, tries |-> 0]

Refused(r) == r.tries = MaxTries

\* up: mounted; the shell is while the app is open.  known: pending.length.
\* busy: running.current.  list: what is left of the pass,
\* which takes the orders in the order of their keys.
HookState == [up: BOOLEAN, known: Nat, busy: BOOLEAN,
              list: SUBSET Keys, wait: Calls \cup {NoCall}]

Unmounted == [up |-> FALSE, known |-> 0, busy |-> FALSE, list |-> {}, wait |-> NoCall]

QueueTypeOK ==
    /\ CreateTypeOK
    /\ row \in [Keys -> Row]
    /\ {online, calm} \subseteq BOOLEAN
    /\ hook \in [Hooks -> HookState]
    /\ hand \in Calls \cup {NoCall}

Init ==
    /\ CreateInit
    /\ row = [k \in Keys |-> [at |-> "draft", tries |-> 0]]
    /\ online = FALSE
    /\ calm = FALSE
    /\ hook = [h \in Hooks |-> Unmounted]
    /\ hand = NoCall

---------------------------------------------------------------------------

Saved(rows) == {k \in Keys : rows[k].at = "saved"}

\* getPendingOrders without those marked as refused.
Waiting(rows) == {k \in Saved(rows) : ~Refused(rows[k])}

\* syncAll(): nothing if a pass of this hook runs or there is no connection.
Started(s, rows, on) ==
    IF s.busy \/ ~on THEN s ELSE [s EXCEPT !.busy = TRUE, !.list = Waiting(rows)]

\* The effect on [online, pending.length], run when either has changed.
Effect(s, rows, on) == IF s.known > 0 THEN Started(s, rows, on) ELSE s

\* reload(): only another number of orders sets the effect off.
Reloaded(s, rows) ==
    LET n == Cardinality(Saved(rows))
    IN  IF s.up /\ n # s.known THEN Effect([s EXCEPT !.known = n], rows, online) ELSE s

Mounted(s, rows) ==
    Effect([s EXCEPT !.up = TRUE, !.known = Cardinality(Saved(rows))], rows, online)

ReloadPages(rows) ==
    hook' = [h \in Hooks |-> IF h \in Pages THEN Reloaded(hook[h], rows) ELSE hook[h]]

Leave(rows, k) == [rows EXCEPT ![k] = IF @.at = "saved" THEN Gone("sent") ELSE @]

\* Mutant of RecordFailure: failures are never counted.
ForgetFailure(rows, k) == rows

\* Mutant of RecordFailure: the mark is set at the last attempt exactly, and a
\* failure of another pass that comes after it lifts it.
MarkedOnce(rows, k) ==
    IF rows[k].at # "saved" THEN rows ELSE [rows EXCEPT ![k].tries = @ + 1]

\* recordPendingFailure: a row deleted meanwhile is left alone.
RecordFailure(rows, k) ==
    IF rows[k].at # "saved" \/ Refused(rows[k]) THEN rows
    ELSE [rows EXCEPT ![k].tries = @ + 1]

\* Mutant of Outcome: any answer of the server removes the order.
AnyAnswerRemoves(rows, k, a) == IF a = "lost" THEN rows ELSE Leave(rows, k)

\* What an answer does to the row: only a created order leaves, no answer at
\* all is not a failure.
Outcome(rows, k, a) ==
    CASE a = "ok" -> Leave(rows, k)
      [] a = "refused" -> RecordFailure(rows, k)
      [] a = "lost" -> rows

---------------------------------------------------------------------------
(* The connection and the app *)

\* The browser's event: every mounted hook runs its effect.
Switch(on) ==
    /\ online' = on
    /\ hook' = [h \in Hooks |-> IF hook[h].up THEN Effect(hook[h], row, on) ELSE hook[h]]
    /\ UNCHANGED <<createVars, row, calm, hand>>

GoOnline == ~online /\ Switch(TRUE)

GoOffline == online /\ ~calm /\ Switch(FALSE)

\* The connection has become stable; assumed to happen some day.
Settle ==
    /\ ~calm
    /\ calm' = TRUE
    /\ UNCHANGED <<createVars, row, online, hook, hand>>

AppOpen == hook[Shell].up

StartApp ==
    /\ ~AppOpen
    /\ hook' = [hook EXCEPT ![Shell] = Mounted(@, row)]
    /\ UNCHANGED <<createVars, row, online, calm, hand>>

\* The tab is closed or the person logs out: every pass is forgotten, calls
\* that the server already has go on.
CloseApp ==
    /\ AppOpen
    /\ ~calm
    /\ hook' = [h \in Hooks |-> Unmounted]
    /\ hand' = NoCall
    /\ UNCHANGED <<createVars, row, online, calm>>

OpenPage(h) ==
    /\ AppOpen
    /\ ~hook[h].up /\ ~hook[h].busy
    /\ hook' = [hook EXCEPT ![h] = Mounted(@, row)]
    /\ UNCHANGED <<createVars, row, online, calm, hand>>

LeavePage(h) ==
    /\ hook[h].up
    /\ hook' = [hook EXCEPT ![h].up = FALSE, ![h].known = 0]
    /\ UNCHANGED <<createVars, row, online, calm, hand>>

\* auth.me was asked again and gave a new object: the list is read again.
UserRefreshed(h) ==
    /\ hook[h].up
    /\ hook' = [hook EXCEPT ![h] = Reloaded(@, row)]
    /\ UNCHANGED <<createVars, row, online, calm, hand>>

---------------------------------------------------------------------------
(* The person *)

\* The order in the wizard: the earlier ones are finished or given up.
InWizard(k) ==
    /\ AppOpen
    /\ row[k].at = "draft"
    /\ \A j \in Keys : j < k => row[j].at # "draft"

\* Finished without a connection: into IndexedDB.  The shell is not told.
Save(k) ==
    /\ InWizard(k)
    /\ ~online
    /\ row' = [row EXCEPT ![k].at = "saved"]
    /\ UNCHANGED <<createVars, online, calm, hook, hand>>

\* Finished with a connection, or "Отправить" beside an order of the queue.
ByHand(k) ==
    /\ hand = NoCall
    /\ online
    /\ \/ InWizard(k)
       \/ row[k].at = "saved" /\ ~Refused(row[k]) /\ \E h \in Pages : hook[h].up
    /\ \E c \in Calls : Arrive(c, k) /\ hand' = c
    /\ UNCHANGED <<book, debt, overdue, row, online, calm, hook>>

\* No failure is recorded; after the button the page reads the list again.
ByHandDone ==
    /\ hand # NoCall
    /\ call[hand].stage = "done"
    /\ LET k == call[hand].key
           sent == call[hand].answer = "ok"
           rows == [row EXCEPT ![k] =
                        IF sent /\ @.at \in {"draft", "saved"} THEN Gone("sent") ELSE @]
       IN  row' = rows /\ ReloadPages(rows)
    /\ call' = [call EXCEPT ![hand] = Idle]
    /\ hand' = NoCall
    /\ UNCHANGED <<book, debt, overdue, online, calm>>

\* "Отправить ещё раз" beside a refused order.
RetryFailed(h, k) ==
    /\ hook[h].up
    /\ row[k].at = "saved" /\ Refused(row[k])
    /\ row' = [row EXCEPT ![k].tries = 0]
    /\ hook' = [hook EXCEPT ![h] = Started(Reloaded(@, row'), row', online)]
    /\ UNCHANGED <<createVars, online, calm, hand>>

\* "Синхронизировать".
SyncPressed(h) ==
    /\ hook[h].up /\ hook[h].known > 0 /\ online
    /\ hook' = [hook EXCEPT ![h] = Started(@, row, online)]
    /\ UNCHANGED <<createVars, row, online, calm, hand>>

DeleteLocal(k) ==
    /\ \E h \in Pages : hook[h].up
    /\ row[k].at = "saved"
    /\ row' = [row EXCEPT ![k] = Gone("dropped")]
    /\ ReloadPages(row')
    /\ UNCHANGED <<createVars, online, calm, hand>>

---------------------------------------------------------------------------
(* The hook *)

First(list) == CHOOSE k \in list : \A j \in list : k <= j

\* The next order of the pass; without a connection the request fails at once.
Send(h) ==
    /\ hook[h].busy /\ hook[h].list # {} /\ hook[h].wait = NoCall
    /\ IF online
       THEN \E c \in Calls : /\ Arrive(c, First(hook[h].list))
                             /\ hook' = [hook EXCEPT ![h].wait = c]
       ELSE UNCHANGED call /\ hook' = [hook EXCEPT ![h].list = {}]
    /\ UNCHANGED <<book, debt, overdue, row, online, calm, hand>>

\* Without an answer there is no connection for the rest either.
Rest(list, k, a) == IF a = "lost" THEN {} ELSE list \ {k}

\* The connection breaks under a request; the server may still carry it out.
Broken(h) ==
    /\ hook[h].wait # NoCall
    /\ ~calm
    /\ row' = Outcome(row, call[hook[h].wait].key, "lost")
    /\ hook' = [hook EXCEPT ![h].list = Rest(@, call[hook[h].wait].key, "lost"),
                            ![h].wait = NoCall]
    /\ UNCHANGED <<createVars, online, calm, hand>>

Answered(h) ==
    LET c == hook[h].wait
    IN
    /\ c # NoCall
    /\ call[c].stage = "done"
    /\ row' = Outcome(row, call[c].key, call[c].answer)
    /\ hook' = [hook EXCEPT ![h].list = Rest(@, call[c].key, call[c].answer),
                            ![h].wait = NoCall]
    /\ call' = [call EXCEPT ![c] = Idle]
    /\ UNCHANGED <<book, debt, overdue, online, calm, hand>>

PassOver(s, rows) == Reloaded([s EXCEPT !.busy = FALSE], rows)

Finish(h) ==
    /\ hook[h].busy /\ hook[h].list = {} /\ hook[h].wait = NoCall
    /\ hook' = [hook EXCEPT ![h] = PassOver(@, row)]
    /\ UNCHANGED <<createVars, row, online, calm, hand>>

Awaited(c) == hand = c \/ \E h \in Hooks : hook[h].wait = c

\* Nobody waits for the answer any more.
Forgotten(c) == ~Awaited(c) /\ EndCall(c) /\ UNCHANGED <<book, debt, overdue, clientVars>>

HookStep(h) == Answered(h) \/ Finish(h)

Person ==
    \/ \E k \in Keys : Save(k)
    \/ \E h \in Pages : OpenPage(h) \/ LeavePage(h)
    \/ "send" \in Deeds /\ \E k \in Keys : ByHand(k)
    \/ "delete" \in Deeds /\ \E k \in Keys : DeleteLocal(k)
    \/ "sync" \in Deeds /\ \E h \in Pages : SyncPressed(h)
    \/ "retry" \in Deeds /\ \E h \in Pages, k \in Keys : RetryFailed(h, k)
    \/ "browse" \in Deeds /\ \E h \in Hooks : UserRefreshed(h)

Next ==
    \/ GoOnline \/ GoOffline \/ Settle \/ StartApp \/ CloseApp
    \/ Person
    \/ ByHandDone
    \/ \E h \in Hooks : HookStep(h) \/ Send(h) \/ Broken(h)
    \/ \E c \in Calls : Forgotten(c)
    \/ \E c \in Calls : ServerStep(c) /\ UNCHANGED clientVars
    \/ \E c \in Calls : LoseCall(c) /\ ~calm /\ UNCHANGED clientVars
    \/ (OthersOrder \/ OtherDealings) /\ UNCHANGED clientVars

\* The code runs, the connection becomes stable some day and then returns, and
\* the app is opened.
CodeFairness ==
    /\ \A h \in Hooks : WF_vars(HookStep(h)) /\ SF_vars(Send(h))
    /\ \A c \in Calls : WF_vars(ServerStep(c) /\ UNCHANGED clientVars) /\ WF_vars(Forgotten(c))
    /\ WF_vars(ByHandDone)
    /\ WF_vars(Settle) /\ WF_vars(calm /\ GoOnline) /\ WF_vars(StartApp)

\* The person looks at the page "Offline" again and again.
Visits == \A h \in Pages : WF_vars(OpenPage(h)) /\ WF_vars(LeavePage(h))

Spec == Init /\ [][Next]_vars /\ CodeFairness /\ Visits

\* The same without the visits.
SpecElsewhere == Init /\ [][Next]_vars /\ CodeFairness

---------------------------------------------------------------------------
(* Properties *)

\* An order leaves the phone by itself only when the server has it.
SentIsCreated == \A k \in Keys : row[k].at = "sent" => Exists(k)

\* Every queued order goes, or is shown with the reason (useOfflineSync.ts:33-35),
\* one refused order does not hold up those behind it for ever.
QueueDrains == \A k \in Keys :
    row[k].at = "saved" ~> (row[k].at # "saved" \/ Refused(row[k]))

\* "Связь появилась — заказы ушли, на каком бы экране человек ни был"
\* (App.tsx:136-141): an order is at least tried once the connection is there.
TriedAnywhere == \A k \in Keys :
    (row[k].at = "saved" /\ AppOpen /\ online /\ calm)
        ~> (row[k].at # "saved" \/ row[k].tries > 0)

\* The queue and the server together keep OrderPromise.
Promise == INSTANCE OrderPromise WITH
    Numbers <- (Legacy + 1) .. (Legacy + Cardinality(Keys) + MaxOthers),
    kept <- Saved(row),
    shown <- {k \in Saved(row) : Refused(row[k])},
    made <- {[key |-> b.key, number |-> b.number] : b \in {x \in book : x.key \in Keys}}

KeepsPromise == Promise!Spec
=============================================================================
