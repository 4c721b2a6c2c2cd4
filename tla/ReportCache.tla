---------------------------- MODULE ReportCache ----------------------------
(***************************************************************************)
(* The cache of reports (lib/report-cache.ts) for one report of one tenant *)
(* in several server processes that share Redis: the memory of a process,  *)
(* the calculation it runs and who waits for it, the number of the data a  *)
(* process knows, the counter and the value in Redis, and the messages     *)
(* about a reset.  Contents are the number of writes the report shows.     *)
(*                                                                         *)
(* Commands of a process reach Redis in the order it sends them; a value   *)
(* a process stores is stored when the calculation ends.                   *)
(***************************************************************************)
EXTENDS Integers, FiniteSets

CONSTANTS
    Procs,       \* server processes
    Readers,     \* open screens that ask for the report
    Home,        \* Home[r]: the process that answers screen r
    Writers,     \* the processes that commit writes
    MaxWrites,   \* bound on the writes of the tenant
    MaxRestarts, \* bound on the restarts of processes
    Flaky        \* TRUE if a process may lose Redis and find it again

ASSUME CacheConstants ==
    /\ Home \in [Readers -> Procs] /\ Writers \subseteq Procs
    /\ MaxWrites \in Nat /\ MaxRestarts \in Nat /\ Flaky \in BOOLEAN

VARIABLES
    data,      \* writes committed to the database
    known,     \* versions: the number of the data a process knows
    mem,       \* memory: the entry a process holds
    work,      \* inflight: the calculation a process runs
    reset,     \* a write of the process between its commit and the reset's end
    redis,     \* reportver and the stored value
    avail,     \* isRedisAvailable() in a process
    mail,      \* messages on their way to a process
    screen,    \* what each screen waits for and was answered last
    restarts,
    told       \* history: the last write a process reset for or was told of

vars == <<data, known, mem, work, reset, redis, avail, mail, screen, restarts, told>>

Unknown == -1

\* A value with the number it was calculated at; in Redis and in memory.
Entry == [ver: Nat, val: Nat]
NoEntry == [ver |-> Unknown, val |-> 0]

Work == [stage: {"none", "shared", "found", "query", "ready"}, ver: Nat, val: Nat]
NoWork == [stage |-> "none", ver |-> 0, val |-> 0]

Reset == [stage: {"none", "committed", "bumped", "counted"}, write: Nat, ver: Nat]
NoReset == [stage |-> "none", write |-> 0, ver |-> 0]

Message == [ver: Nat, write: Nat]

\* need: the last write the process had been told of when the screen asked;
\* joined: it waits for a calculation which ran already.
Screen == [stage: {"idle", "version", "wait"}, need: Nat, seen: Nat, joined: BOOLEAN]

\* A screen that waits for nothing and shows v.
Shows(v) == [stage |-> "idle", need |-> 0, seen |-> v, joined |-> FALSE]

CacheTypeOK ==
    /\ data \in Nat
    /\ known \in [Procs -> Nat \cup {Unknown}]
    /\ mem \in [Procs -> Entry \cup {NoEntry}]
    /\ work \in [Procs -> Work]
    /\ reset \in [Procs -> Reset]
    /\ redis \in [ver: Nat, entry: Entry \cup {NoEntry}]
    /\ avail \in [Procs -> BOOLEAN]
    /\ mail \in [Procs -> SUBSET Message]
    /\ screen \in [Readers -> Screen]
    /\ restarts \in Nat
    /\ told \in [Procs -> Nat]

Init ==
    /\ data = 0
    /\ known = [p \in Procs |-> Unknown]
    /\ mem = [p \in Procs |-> NoEntry]
    /\ work = [p \in Procs |-> NoWork]
    /\ reset = [p \in Procs |-> NoReset]
    /\ redis = [ver |-> 0, entry |-> NoEntry]
    /\ avail \in {[p \in Procs |-> up] : up \in BOOLEAN}
    /\ mail = [p \in Procs |-> {}]
    /\ screen = [r \in Readers |-> Shows(0)]
    /\ restarts = 0
    /\ told = [p \in Procs |-> 0]

---------------------------------------------------------------------------

Greater(m, n) == IF m >= n THEN m ELSE n

\* Mutant of Adopted: the last number that arrives is taken.
LastOne(p, v) == v

\* adopt: the number a process knows only grows.
Adopted(p, v) == Greater(known[p], v)

\* Mutant of Usable: a stored value is taken whatever its number.
AnyShared(e, v) == e.ver # Unknown

\* A stored value calculated at this number or a later one.
Usable(e, v) == e.ver # Unknown /\ e.ver >= v

\* Mutant of Tag: the number is not kept with the value.
NoTag(p) == Unknown

\* Mutant of Tag: the number is read when the calculation is over.
TagAfter(p) == Greater(known[p], work[p].ver)

\* The number a result is remembered under: taken before the calculation.
Tag(p) == work[p].ver

\* Mutant of StoredOnAdopt: a neighbour's value is stored anew.
StoredAgain(p) == IF avail[p]
                  THEN [redis EXCEPT !.entry = [ver |-> work[p].ver, val |-> work[p].val]]
                  ELSE redis

\* A neighbour's value is not stored again, so its term is not extended.
StoredOnAdopt(p) == redis

\* The screens that wait for the calculation of p get v.
Served(p, v) == [r \in Readers |->
    IF Home[r] = p /\ screen[r].stage = "wait"
    THEN Shows(v) ELSE screen[r]]

\* The screens of p get an error, or no answer: they show what they showed.
Dropped(p) == [r \in Readers |->
    IF Home[r] = p /\ screen[r].stage # "idle"
    THEN Shows(screen[r].seen) ELSE screen[r]]

---------------------------------------------------------------------------
(* A read: ReportCache.get *)

\* get once the number v is known: the memory, the running calculation, or a
\* calculation of its own.  s is the screen as the question leaves it.
Look(r, v, s) ==
    LET p == Home[r] IN
    IF mem[p].ver = v
    THEN screen' = [screen EXCEPT ![r] = Shows(mem[p].val)] /\ UNCHANGED work
    ELSE /\ screen' = [screen EXCEPT ![r] =
                [s EXCEPT !.stage = "wait", !.joined = work[p] # NoWork]]
         /\ work' = [work EXCEPT ![p] = IF @ # NoWork THEN @
                ELSE [stage |-> "shared", ver |-> v, val |-> 0]]

\* A screen asks.  A known number is used at once; without Redis it is 0.
Ask(r) ==
    LET p == Home[r]
        s == [screen[r] EXCEPT !.need = told[p]]
    IN  /\ screen[r].stage = "idle"
        /\ IF known[p] = Unknown /\ avail[p]
           THEN screen' = [screen EXCEPT ![r] = [s EXCEPT !.stage = "version"]]
                /\ UNCHANGED work
           ELSE Look(r, Greater(known[p], 0), s)
        /\ UNCHANGED <<data, known, mem, reset, redis, avail, mail, restarts, told>>

\* fetchVersion: the counter of Redis, or 0 when it does not answer.
FetchVersion(r) ==
    LET p == Home[r]
        v == Adopted(p, IF avail[p] THEN redis.ver ELSE 0)
    IN  /\ screen[r].stage = "version"
        /\ reset[p].stage # "bumped"
        /\ known' = [known EXCEPT ![p] = v]
        /\ Look(r, v, screen[r])
        /\ UNCHANGED <<data, mem, reset, redis, avail, mail, restarts, told>>

\* fromRedis: the stored value, after the process's own INCR on the connection.
ReadShared(p) ==
    /\ work[p].stage = "shared"
    /\ reset[p].stage # "bumped"
    /\ work' = [work EXCEPT ![p] =
           IF avail[p] /\ Usable(redis.entry, @.ver)
           THEN [stage |-> "found", ver |-> redis.entry.ver, val |-> redis.entry.val]
           ELSE [@ EXCEPT !.stage = "query"]]
    /\ UNCHANGED <<data, known, mem, reset, redis, avail, mail, screen, restarts, told>>

\* A neighbour's value is remembered under the neighbour's number.
UseShared(p) ==
    /\ work[p].stage = "found"
    /\ known' = [known EXCEPT ![p] = Adopted(p, work[p].ver)]
    /\ mem' = [mem EXCEPT ![p] = [ver |-> work[p].ver, val |-> work[p].val]]
    /\ redis' = StoredOnAdopt(p)
    /\ screen' = Served(p, work[p].val)
    /\ work' = [work EXCEPT ![p] = NoWork]
    /\ UNCHANGED <<data, reset, avail, mail, restarts, told>>

\* fn(): the report is read from the database.
Query(p) ==
    /\ work[p].stage = "query"
    /\ work' = [work EXCEPT ![p].stage = "ready", ![p].val = data]
    /\ UNCHANGED <<data, known, mem, reset, redis, avail, mail, screen, restarts, told>>

\* fn() throws: everybody who waits gets the error, nothing is remembered.
QueryFails(p) ==
    /\ work[p].stage = "query"
    /\ work' = [work EXCEPT ![p] = NoWork]
    /\ screen' = Dropped(p)
    /\ UNCHANGED <<data, known, mem, reset, redis, avail, mail, restarts, told>>

\* The result is remembered, stored for the others and given to who waits.
Finish(p) ==
    LET e == [ver |-> Tag(p), val |-> work[p].val] IN
    /\ work[p].stage = "ready"
    /\ mem' = [mem EXCEPT ![p] = e]
    /\ redis' = IF avail[p] THEN [redis EXCEPT !.entry = e] ELSE redis
    /\ screen' = Served(p, e.val)
    /\ work' = [work EXCEPT ![p] = NoWork]
    /\ UNCHANGED <<data, known, reset, avail, mail, restarts, told>>

---------------------------------------------------------------------------
(* A write: the commit of a service, then ReportCache.invalidate *)

Commit(p) ==
    /\ p \in Writers
    /\ reset[p] = NoReset
    /\ data < MaxWrites
    /\ data' = data + 1
    /\ reset' = [reset EXCEPT ![p] = [stage |-> "committed", write |-> data + 1, ver |-> 0]]
    /\ UNCHANGED <<known, mem, work, redis, avail, mail, screen, restarts, told>>

\* The number in memory is raised at once.  Without Redis that is all.
Bump(p) ==
    /\ reset[p].stage = "committed"
    /\ known' = [known EXCEPT ![p] = Adopted(p, Greater(@, 0) + 1)]
    /\ IF avail[p]
       THEN reset' = [reset EXCEPT ![p].stage = "bumped"] /\ UNCHANGED told
       ELSE /\ reset' = [reset EXCEPT ![p] = NoReset]
            /\ told' = [told EXCEPT ![p] = Greater(@, reset[p].write)]
    /\ UNCHANGED <<data, mem, work, redis, avail, mail, screen, restarts>>

\* INCR at Redis; if Redis is gone the error is swallowed and the reset over.
Count(p) ==
    /\ reset[p].stage = "bumped"
    /\ IF avail[p]
       THEN /\ redis' = [redis EXCEPT !.ver = @ + 1]
            /\ reset' = [reset EXCEPT ![p].stage = "counted", ![p].ver = redis.ver + 1]
            /\ UNCHANGED told
       ELSE /\ reset' = [reset EXCEPT ![p] = NoReset]
            /\ told' = [told EXCEPT ![p] = Greater(@, reset[p].write)]
            /\ UNCHANGED redis
    /\ UNCHANGED <<data, known, mem, work, avail, mail, screen, restarts>>

\* The answer of INCR: the number is adopted and published; invalidate returns.
Publish(p) ==
    LET m == [ver |-> reset[p].ver, write |-> reset[p].write] IN
    /\ reset[p].stage = "counted"
    /\ known' = [known EXCEPT ![p] = Adopted(p, m.ver)]
    /\ mail' = IF avail[p]
               THEN [q \in Procs |-> IF q = p THEN mail[q] ELSE mail[q] \cup {m}]
               ELSE mail
    /\ told' = [told EXCEPT ![p] = Greater(@, m.write)]
    /\ reset' = [reset EXCEPT ![p] = NoReset]
    /\ UNCHANGED <<data, mem, work, redis, avail, screen, restarts>>

\* A message arrives: late, and after later ones, or is lost on the way.
Hear(p) == \E m \in mail[p] :
    /\ known' = [known EXCEPT ![p] = Adopted(p, m.ver)]
    /\ told' = [told EXCEPT ![p] = Greater(@, m.write)]
    /\ mail' = [mail EXCEPT ![p] = @ \ {m}]
    /\ UNCHANGED <<data, mem, work, reset, redis, avail, screen, restarts>>

Miss(p) == \E m \in mail[p] :
    /\ mail' = [mail EXCEPT ![p] = @ \ {m}]
    /\ UNCHANGED <<data, known, mem, work, reset, redis, avail, screen, restarts, told>>

---------------------------------------------------------------------------
(* Time and faults *)

\* The term of an entry ends, or it makes room for another report.
Expire(p) ==
    /\ mem[p] # NoEntry
    /\ mem' = [mem EXCEPT ![p] = NoEntry]
    /\ UNCHANGED <<data, known, work, reset, redis, avail, mail, screen, restarts, told>>

ExpireShared ==
    /\ redis.entry # NoEntry
    /\ redis' = [redis EXCEPT !.entry = NoEntry]
    /\ UNCHANGED <<data, known, mem, work, reset, avail, mail, screen, restarts, told>>

\* A time-out opens the breaker of one process, or its pause is over.
Breaker(p) ==
    /\ Flaky
    /\ avail' = [avail EXCEPT ![p] = ~@]
    /\ UNCHANGED <<data, known, mem, work, reset, redis, mail, screen, restarts, told>>

\* A process stops, between any two steps, and starts empty.
Restart(p) ==
    /\ restarts < MaxRestarts
    /\ restarts' = restarts + 1
    /\ known' = [known EXCEPT ![p] = Unknown]
    /\ mem' = [mem EXCEPT ![p] = NoEntry]
    /\ work' = [work EXCEPT ![p] = NoWork]
    /\ reset' = [reset EXCEPT ![p] = NoReset]
    /\ mail' = [mail EXCEPT ![p] = {}]
    /\ screen' = Dropped(p)
    /\ told' = [told EXCEPT ![p] = 0]
    /\ UNCHANGED <<data, redis, avail>>

Next ==
    \/ \E r \in Readers : Ask(r) \/ FetchVersion(r)
    \/ \E p \in Procs :
          \/ ReadShared(p) \/ UseShared(p) \/ Query(p) \/ QueryFails(p) \/ Finish(p)
          \/ Commit(p) \/ Bump(p) \/ Count(p) \/ Publish(p)
          \/ Hear(p) \/ Miss(p) \/ Expire(p) \/ Breaker(p) \/ Restart(p)
    \/ ExpireShared

\* Screens ask again and again, a process does what it has begun, terms end,
\* and a report that is tried again and again is calculated at last.  Nothing
\* is assumed of messages, of resets or of Redis.
CacheFairness ==
    /\ \A r \in Readers : WF_vars(Ask(r)) /\ WF_vars(FetchVersion(r))
    /\ \A p \in Procs :
          /\ WF_vars(ReadShared(p)) /\ WF_vars(UseShared(p))
          /\ SF_vars(Query(p)) /\ WF_vars(Finish(p))
          /\ WF_vars(Count(p)) /\ WF_vars(Expire(p))
    /\ WF_vars(ExpireShared)

Spec == Init /\ [][Next]_vars /\ CacheFairness

---------------------------------------------------------------------------
(* Properties *)

\* While Redis is there for all, or for none, what a process would answer from
\* its memory at once shows every write it has finished a reset for or has been
\* told of: a result of a calculation that a reset overtook is stale from the
\* start (report-cache.ts, produce).
HitIsFresh == ~Flaky => \A p \in Procs :
    mem[p].ver # Unknown /\ mem[p].ver = known[p] => mem[p].val >= told[p]

\* The screens that step answers, with what they asked for.
Answering(p) == {r \in Readers : Home[r] = p /\ screen[r].stage = "wait"}

\* While Redis is there for all, or for none, the answer of Redis or of the
\* database shows every write the process had been told of when the screen
\* asked, unless the screen joined a calculation which ran already (get,
\* produce, fetchVersion).
ReadIsFresh == [][\A p \in Procs : UseShared(p) \/ Finish(p) =>
    \A r \in Answering(p) :
        ~Flaky /\ ~screen[r].joined => screen'[r].seen >= screen[r].need]_vars

\* As above, for every screen: "a screen that reads again on the event gets the
\* new numbers" (the comment above invalidateReports).  The code breaks it: a
\* screen may join a calculation that began before the write.
EventIsFresh == [][\A p \in Procs : UseShared(p) \/ Finish(p) =>
    \A r \in Answering(p) : ~Flaky => screen'[r].seen >= screen[r].need]_vars

\* Whatever is lost and whoever restarts, a write is in what each screen shows
\* at last, and from then on: the terms of entries end and are never extended.
CatchesUp == \A r \in Readers : \A n \in 1..MaxWrites :
    data >= n ~> [](screen[r].seen >= n)
============================================================================
