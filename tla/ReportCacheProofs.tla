------------------------- MODULE ReportCacheProofs -------------------------
(***************************************************************************)
(* Proofs about ReportCache, for any processes, screens and bounds.  The   *)
(* type is proved for every Redis; freshness for a Redis that is there for *)
(* all processes, or for none.                                             *)
(***************************************************************************)
EXTENDS ReportCache, TLAPS

---------------------------------------------------------------------------
(* Types *)

LEMMA NumbersTyped ==
    ASSUME NEW m \in Nat \cup {Unknown}, NEW n \in Nat
    PROVE  /\ Greater(m, n) \in Nat
           /\ Greater(m, n) >= m /\ Greater(m, n) >= n
           /\ Greater(m, n) \in {m, n}
BY DEF Greater, Unknown

LEMMA ServedTyped ==
    ASSUME CacheTypeOK, NEW p \in Procs, NEW v \in Nat
    PROVE  Served(p, v) \in [Readers -> Screen]
BY DEF CacheTypeOK, Served, Shows, Screen

LEMMA DroppedTyped ==
    ASSUME CacheTypeOK, NEW p \in Procs
    PROVE  Dropped(p) \in [Readers -> Screen]
BY DEF CacheTypeOK, Dropped, Shows, Screen

LEMMA LookTyped ==
    ASSUME CacheTypeOK, NEW r \in Readers, NEW v \in Nat, NEW s \in Screen, Look(r, v, s)
    PROVE  screen' \in [Readers -> Screen] /\ work' \in [Procs -> Work]
<1>1. Home[r] \in Procs
  BY CacheConstants
<1>2. CASE mem[Home[r]].ver = v
  <2>1. mem[Home[r]].val \in Nat
    BY <1>1 DEF CacheTypeOK, Entry, NoEntry
  <2>2. Shows(mem[Home[r]].val) \in Screen
    BY <2>1 DEF Shows, Screen
  <2> QED
    BY <1>1, <1>2, <2>2 DEF CacheTypeOK, Look
<1>3. CASE mem[Home[r]].ver # v
  <2>1. [s EXCEPT !.stage = "wait", !.joined = work[Home[r]] # NoWork] \in Screen
    BY DEF Screen
  <2>2. [stage |-> "shared", ver |-> v, val |-> 0] \in Work
    BY DEF Work
  <2> QED
    BY <1>1, <1>3, <2>1, <2>2 DEF CacheTypeOK, Look
<1> QED
  BY <1>2, <1>3

LEMMA TypeInit == Init => CacheTypeOK
BY DEF Init, CacheTypeOK, Entry, NoEntry, Work, NoWork, Reset, NoReset, Message,
       Screen, Shows, Unknown

LEMMA TypeStep == CacheTypeOK /\ [Next]_vars => CacheTypeOK'
<1> SUFFICES ASSUME CacheTypeOK, [Next]_vars
             PROVE  CacheTypeOK'
  OBVIOUS
<1>1. ASSUME NEW r \in Readers, Ask(r)
      PROVE  CacheTypeOK'
  <2> DEFINE s == [screen[r] EXCEPT !.need = told[Home[r]]]
  <2>1. Home[r] \in Procs
    BY CacheConstants
  <2>2. s \in Screen /\ [s EXCEPT !.stage = "version"] \in Screen
    BY <2>1 DEF CacheTypeOK, Screen
  <2>3. Greater(known[Home[r]], 0) \in Nat
    BY <2>1, NumbersTyped DEF CacheTypeOK
  <2>4. screen' \in [Readers -> Screen] /\ work' \in [Procs -> Work]
    <3>1. CASE known[Home[r]] = Unknown /\ avail[Home[r]]
      BY <1>1, <2>2, <3>1 DEF Ask, CacheTypeOK
    <3>2. CASE ~(known[Home[r]] = Unknown /\ avail[Home[r]])
      <4>1. Look(r, Greater(known[Home[r]], 0), s)
        BY <1>1, <3>2 DEF Ask
      <4> QED
        BY <4>1, <2>2, <2>3, LookTyped
    <3> QED
      BY <3>1, <3>2
  <2> QED
    BY <1>1, <2>4 DEF Ask, CacheTypeOK
<1>2. ASSUME NEW r \in Readers, FetchVersion(r)
      PROVE  CacheTypeOK'
  <2> DEFINE v == Adopted(Home[r], IF avail[Home[r]] THEN redis.ver ELSE 0)
  <2>1. Home[r] \in Procs
    BY CacheConstants
  <2>2. v \in Nat
    BY <2>1, NumbersTyped DEF CacheTypeOK, Adopted
  <2>3. Look(r, v, screen[r]) /\ known' = [known EXCEPT ![Home[r]] = v]
    BY <1>2 DEF FetchVersion
  <2>4. screen[r] \in Screen
    BY DEF CacheTypeOK
  <2> HIDE DEF v
  <2>5. screen' \in [Readers -> Screen] /\ work' \in [Procs -> Work]
    BY <2>2, <2>3, <2>4, LookTyped
  <2>6. known' \in [Procs -> Nat \cup {Unknown}]
    BY <2>2, <2>3 DEF CacheTypeOK
  <2> QED
    BY <1>2, <2>5, <2>6 DEF FetchVersion, CacheTypeOK
<1>3. ASSUME NEW p \in Procs, ReadShared(p)
      PROVE  CacheTypeOK'
  <2>1. work'[p] \in Work /\ work' = [work EXCEPT ![p] = work'[p]]
    <3>1. CASE avail[p] /\ Usable(redis.entry, work[p].ver)
      <4>1. redis.entry \in Entry
        BY <3>1 DEF Usable, CacheTypeOK, NoEntry, Entry
      <4> QED
        BY <1>3, <3>1, <4>1 DEF ReadShared, Work, Entry, CacheTypeOK
    <3>2. CASE ~(avail[p] /\ Usable(redis.entry, work[p].ver))
      BY <1>3, <3>2 DEF ReadShared, Work, CacheTypeOK
    <3> QED
      BY <3>1, <3>2
  <2> QED
    BY <1>3, <2>1 DEF ReadShared, CacheTypeOK
<1>4. ASSUME NEW p \in Procs, UseShared(p)
      PROVE  CacheTypeOK'
  <2>1. work[p].ver \in Nat /\ work[p].val \in Nat
    BY DEF CacheTypeOK, Work
  <2>2. Adopted(p, work[p].ver) \in Nat
    BY <2>1, NumbersTyped DEF CacheTypeOK, Adopted
  <2>3. [ver |-> work[p].ver, val |-> work[p].val] \in Entry
    BY <2>1 DEF Entry
  <2>4. NoWork \in Work
    BY DEF NoWork, Work
  <2>5. Served(p, work[p].val) \in [Readers -> Screen]
    BY <2>1, ServedTyped
  <2> QED
    BY <1>4, <2>2, <2>3, <2>4, <2>5 DEF UseShared, StoredOnAdopt, CacheTypeOK
<1>5. ASSUME NEW p \in Procs, Query(p)
      PROVE  CacheTypeOK'
  BY <1>5 DEF Query, CacheTypeOK, Work
<1>6. ASSUME NEW p \in Procs, QueryFails(p)
      PROVE  CacheTypeOK'
  BY <1>6, DroppedTyped DEF QueryFails, CacheTypeOK, Work, NoWork
<1>7. ASSUME NEW p \in Procs, Finish(p)
      PROVE  CacheTypeOK'
  <2> DEFINE e == [ver |-> Tag(p), val |-> work[p].val]
  <2>1. e \in Entry /\ work[p].val \in Nat
    BY DEF CacheTypeOK, Work, Entry, Tag
  <2>2. NoWork \in Work
    BY DEF NoWork, Work
  <2>3. Served(p, work[p].val) \in [Readers -> Screen]
    BY <2>1, ServedTyped
  <2>4. /\ mem' = [mem EXCEPT ![p] = e]
        /\ redis' = IF avail[p] THEN [redis EXCEPT !.entry = e] ELSE redis
        /\ screen' = Served(p, work[p].val)
    BY <1>7 DEF Finish
  <2> HIDE DEF e
  <2> QED
    BY <1>7, <2>1, <2>2, <2>3, <2>4 DEF Finish, CacheTypeOK
<1>8. ASSUME NEW p \in Procs, Commit(p)
      PROVE  CacheTypeOK'
  BY <1>8 DEF Commit, CacheTypeOK, Reset
<1>9. ASSUME NEW p \in Procs, Bump(p)
      PROVE  CacheTypeOK'
  <2>1. Adopted(p, Greater(known[p], 0) + 1) \in Nat
    <3>1. known[p] \in Nat \cup {Unknown} /\ Greater(known[p], 0) \in Nat
      BY NumbersTyped DEF CacheTypeOK
    <3>2. Greater(known[p], 0) + 1 \in Nat
      BY <3>1
    <3> QED
      BY <3>1, <3>2, NumbersTyped DEF Adopted
  <2>2. Greater(told[p], reset[p].write) \in Nat
    BY DEF CacheTypeOK, Reset, Greater
  <2>3. NoReset \in Reset /\ [reset[p] EXCEPT !.stage = "bumped"] \in Reset
    BY DEF CacheTypeOK, Reset, NoReset
  <2> QED
    BY <1>9, <2>1, <2>2, <2>3 DEF Bump, CacheTypeOK
<1>10. ASSUME NEW p \in Procs, Count(p)
       PROVE  CacheTypeOK'
  <2>1. Greater(told[p], reset[p].write) \in Nat /\ redis.ver + 1 \in Nat
    BY DEF CacheTypeOK, Reset, Greater
  <2>2. /\ NoReset \in Reset
        /\ [reset[p] EXCEPT !.stage = "counted", !.ver = redis.ver + 1] \in Reset
    <3> DEFINE n == redis.ver + 1
    <3>1. n \in Nat /\ reset[p] \in Reset
      BY <2>1 DEF CacheTypeOK
    <3> HIDE DEF n
    <3>2. [reset[p] EXCEPT !.stage = "counted", !.ver = n] \in Reset
      BY <3>1 DEF Reset
    <3> QED
      BY <3>2 DEF n, Reset, NoReset
  <2>3. /\ reset' \in [Procs -> Reset]
        /\ redis' \in [ver: Nat, entry: Entry \cup {NoEntry}]
        /\ told' \in [Procs -> Nat]
    <3> DEFINE n == redis.ver + 1
               s == [reset[p] EXCEPT !.stage = "counted", !.ver = n]
               w == Greater(told[p], reset[p].write)
    <3>1. /\ redis' = redis \/ redis' = [redis EXCEPT !.ver = n]
          /\ reset' = [reset EXCEPT ![p] = s] \/ reset' = [reset EXCEPT ![p] = NoReset]
          /\ told' = told \/ told' = [told EXCEPT ![p] = w]
      BY <1>10 DEF Count
    <3>2. n \in Nat /\ s \in Reset /\ NoReset \in Reset /\ w \in Nat
      BY <2>1, <2>2
    <3> HIDE DEF n, s, w
    <3> QED
      BY <3>1, <3>2 DEF CacheTypeOK
  <2> QED
    BY <1>10, <2>3 DEF Count, CacheTypeOK
<1>11. ASSUME NEW p \in Procs, Publish(p)
       PROVE  CacheTypeOK'
  <2> DEFINE m == [ver |-> reset[p].ver, write |-> reset[p].write]
  <2>1. m \in Message
    BY DEF CacheTypeOK, Reset, Message
  <2>2. Adopted(p, m.ver) \in Nat
    BY <2>1, NumbersTyped DEF CacheTypeOK, Adopted, Message
  <2>3. Greater(told[p], m.write) \in Nat
    BY <2>1 DEF CacheTypeOK, Greater, Message
  <2>4. NoReset \in Reset
    BY DEF Reset, NoReset
  <2>5. /\ known' = [known EXCEPT ![p] = Adopted(p, m.ver)]
        /\ told' = [told EXCEPT ![p] = Greater(@, m.write)]
        /\ mail' = IF avail[p]
                   THEN [q \in Procs |-> IF q = p THEN mail[q] ELSE mail[q] \cup {m}]
                   ELSE mail
    BY <1>11 DEF Publish
  <2> HIDE DEF m
  <2> QED
    BY <1>11, <2>1, <2>2, <2>3, <2>4, <2>5 DEF Publish, CacheTypeOK
<1>12. ASSUME NEW p \in Procs, Hear(p)
       PROVE  CacheTypeOK'
  <2>1. PICK m \in mail[p] :
            /\ known' = [known EXCEPT ![p] = Adopted(p, m.ver)]
            /\ told' = [told EXCEPT ![p] = Greater(@, m.write)]
            /\ mail' = [mail EXCEPT ![p] = @ \ {m}]
    BY <1>12 DEF Hear
  <2>2. m \in Message
    BY DEF CacheTypeOK
  <2>3. Adopted(p, m.ver) \in Nat
    BY <2>2, NumbersTyped DEF CacheTypeOK, Adopted, Message
  <2>4. Greater(told[p], m.write) \in Nat
    BY <2>2 DEF CacheTypeOK, Greater, Message
  <2> QED
    BY <1>12, <2>1, <2>3, <2>4 DEF Hear, CacheTypeOK
<1>13. ASSUME NEW p \in Procs, Miss(p) \/ Expire(p) \/ Breaker(p)
       PROVE  CacheTypeOK'
  BY <1>13 DEF Miss, Expire, Breaker, CacheTypeOK
<1>14. ASSUME NEW p \in Procs, Restart(p)
       PROVE  CacheTypeOK'
  BY <1>14, DroppedTyped
     DEF Restart, CacheTypeOK, Work, NoWork, Reset, NoReset, Unknown
<1>15. CASE ExpireShared
  BY <1>15 DEF ExpireShared, CacheTypeOK
<1>16. CASE UNCHANGED vars
  BY <1>16 DEF vars, CacheTypeOK
<1> QED
  BY <1>1, <1>2, <1>3, <1>4, <1>5, <1>6, <1>7, <1>8, <1>9, <1>10, <1>11, <1>12, <1>13,
     <1>14, <1>15, <1>16 DEF Next

\* Every number, message, value and screen keeps its shape, whatever fails
\* (report-cache.ts).
THEOREM CacheTypes == Spec => []CacheTypeOK
<1>1. Init /\ [][Next]_vars => []CacheTypeOK
  BY TypeInit, TypeStep, PTL
<1> QED
  BY <1>1, PTL DEF Spec

---------------------------------------------------------------------------
(* What the processes hold *)

\* The value a calculation of p is about to hand out.
Result(p) == [ver |-> work[p].ver, val |-> work[p].val]

HasResult(p) == work[p].stage \in {"found", "ready"}

Own(p) == IF HasResult(p) THEN {mem[p], Result(p)} ELSE {mem[p]}

\* The values an answer of p may come from: with Redis, everybody's.
Visible(p) == IF avail[p]
              THEN {redis.entry} \cup UNION {Own(q) : q \in Procs}
              ELSE Own(p)

\* The writes up to w are in every value of S calculated at number v or later.
Covered(S, v, w) == \A e \in S : e.ver # Unknown /\ e.ver >= v => e.val >= w

\* Redis is there for all processes or for none.
OneRedis == \A p, q \in Procs : avail[p] = avail[q]

\* Without Redis there is no message, no stored value and no counting.
NoRedis == \A p \in Procs : ~avail[p] =>
    /\ redis.entry = NoEntry
    /\ mail[p] = {}
    /\ reset[p].stage \in {"none", "committed"}
    /\ work[p].stage # "found"

\* A screen waits only while a calculation of its process runs.
Waiting ==
    /\ \A p \in Procs : work[p].stage = "none" => work[p] = NoWork
    /\ \A r \in Readers : screen[r].stage = "wait" => work[Home[r]].stage # "none"
    /\ \A r \in Readers : screen[r].stage = "version" => screen[r].need <= told[Home[r]]

\* Nobody has been told of a write that is not in the database.
Committed ==
    /\ \A p \in Procs : /\ told[p] <= data /\ reset[p].write <= data
                        /\ \A m \in mail[p] : m.write <= data
    /\ \A r \in Readers : screen[r].need <= data

\* A process is ahead of the counter by its own unfinished INCR at most, and
\* behind no number it works with.
NumbersOf(p) ==
    /\ mem[p].ver <= Greater(known[p], 0)
    /\ work[p].stage # "found" => work[p].ver <= Greater(known[p], 0)
    /\ known[p] = Unknown => told[p] = 0
    /\ avail[p] => /\ reset[p].stage = "bumped" => known[p] <= redis.ver + 1
                   /\ reset[p].stage # "bumped" => known[p] <= redis.ver

Numbers == \A p \in Procs : NumbersOf(p)

\* With Redis no value and no message has a number the counter has not reached.
CountedBy(p) == avail[p] =>
    /\ redis.entry.ver <= redis.ver
    /\ mem[p].ver <= redis.ver
    /\ work[p].stage \in {"found", "query", "ready"} => work[p].ver <= redis.ver
    /\ reset[p].stage = "counted" => reset[p].ver <= redis.ver
    /\ \A m \in mail[p] : m.ver <= redis.ver

Counted == \A p \in Procs : CountedBy(p)

\* What a reset announced, and what a process was told, is in every value with
\* a number as high.
Announced == \A p \in Procs :
    /\ \A m \in mail[p] : Covered(Visible(p), m.ver, m.write)
    /\ reset[p].stage = "counted" => Covered(Visible(p), reset[p].ver, reset[p].write)
    /\ Covered(Visible(p), known[p], told[p])

\* The calculation a screen has started will answer with all it needs.
Promised == \A r \in Readers : LET p == Home[r] IN
    screen[r].stage = "wait" /\ ~screen[r].joined =>
        /\ work[p].stage = "shared" => Covered(Visible(p), work[p].ver, screen[r].need)
        /\ HasResult(p) => work[p].val >= screen[r].need

FreshInv ==
    /\ OneRedis /\ NoRedis
    /\ Waiting /\ Committed
    /\ Numbers /\ Counted
    /\ Announced /\ Promised

---------------------------------------------------------------------------
(* Lemmas about the steps *)

\* What a look at the report does to the screen and to the calculation.
LEMMA LookEffect ==
    ASSUME CacheTypeOK, NEW r \in Readers, NEW v \in Nat, NEW s \in Screen, Look(r, v, s)
    PROVE  /\ \A q \in Procs : q # Home[r] => work'[q] = work[q]
           /\ \A t \in Readers : t # r => screen'[t] = screen[t]
           /\ \/ screen'[r].stage = "idle" /\ screen'[r].need = 0 /\ work' = work
              \/ /\ screen'[r].stage = "wait" /\ screen'[r].need = s.need
                 /\ screen'[r].joined = (work[Home[r]] # NoWork)
                 /\ work[Home[r]] # NoWork => work' = work
                 /\ work[Home[r]] = NoWork =>
                        work'[Home[r]] = [stage |-> "shared", ver |-> v, val |-> 0]
<1>1. Home[r] \in Procs
  BY CacheConstants
<1>2. CASE mem[Home[r]].ver = v
  BY <1>1, <1>2 DEF Look, Shows, CacheTypeOK
<1>3. CASE mem[Home[r]].ver # v
  <2> DEFINE w == IF work[Home[r]] # NoWork THEN work[Home[r]]
                  ELSE [stage |-> "shared", ver |-> v, val |-> 0]
             x == [s EXCEPT !.stage = "wait", !.joined = work[Home[r]] # NoWork]
  <2>1. work' = [work EXCEPT ![Home[r]] = w] /\ screen' = [screen EXCEPT ![r] = x]
    BY <1>3 DEF Look
  <2>2. x.stage = "wait" /\ x.need = s.need /\ x.joined = (work[Home[r]] # NoWork)
    BY DEF Screen
  <2>3. work[Home[r]] # NoWork => work' = work
    BY <1>1, <2>1 DEF CacheTypeOK
  <2>4. /\ work'[Home[r]] = w
        /\ \A q \in Procs : q # Home[r] => work'[q] = work[q]
        /\ screen'[r] = x
        /\ \A t \in Readers : t # r => screen'[t] = screen[t]
    BY <1>1, <2>1 DEF CacheTypeOK
  <2> QED
    BY <2>2, <2>3, <2>4
<1> QED
  BY <1>2, <1>3

\* A step in which nothing new can be answered: values are those there were,
\* or what the database holds now.
ValuesStep ==
    /\ avail' = avail
    /\ \A q \in Procs : \A e \in Own(q)' :
          e \in Own(q) \/ e.ver = Unknown \/ e.val = data \/ (avail[q] /\ e = redis.entry)
    /\ \/ redis'.entry \in {redis.entry, NoEntry}
       \/ \E q \in Procs : avail[q] /\ redis'.entry \in Own(q)

LEMMA SameValues ==
    ASSUME mem' = mem, work' = work, redis'.entry = redis.entry, avail' = avail
    PROVE  ValuesStep
BY DEF ValuesStep, Own, HasResult, Result

LEMMA ValuesNext ==
    ASSUME CacheTypeOK, ~Flaky, [Next]_vars
    PROVE  ValuesStep
<1>1. ASSUME NEW r \in Readers, Ask(r) \/ FetchVersion(r)
      PROVE  ValuesStep
  <2>1. Home[r] \in Procs
    BY CacheConstants
  <2>2. \A q \in Procs : Own(q)' = Own(q)
    <3>1. \A q \in Procs : work'[q] = work[q] \/ (work[q] = NoWork /\ ~HasResult(q)')
      <4>1. CASE work' = work
        BY <4>1
      <4>2. ASSUME NEW v, NEW s, Look(r, v, s)
            PROVE  \A q \in Procs : work'[q] = work[q] \/ (work[q] = NoWork /\ ~HasResult(q)')
        BY <2>1, <4>2 DEF Look, CacheTypeOK, HasResult
      <4> QED
        BY <1>1, <4>1, <4>2 DEF Ask, FetchVersion
    <3>2. mem' = mem
      BY <1>1 DEF Ask, FetchVersion
    <3>3. \A q \in Procs : /\ HasResult(q)' = HasResult(q)
                           /\ HasResult(q) => work'[q] = work[q]
      BY <3>1 DEF HasResult, NoWork
    <3> QED
      BY <3>2, <3>3 DEF Own, Result
  <2> QED
    BY <1>1, <2>2 DEF Ask, FetchVersion, ValuesStep
<1>2. ASSUME NEW p \in Procs, ReadShared(p)
      PROVE  ValuesStep
  <2>1. /\ mem' = mem /\ redis' = redis /\ avail' = avail
        /\ \A q \in Procs : q # p => work'[q] = work[q]
        /\ \/ ~HasResult(p)'
           \/ avail[p] /\ Result(p)' = [ver |-> redis.entry.ver, val |-> redis.entry.val]
    BY <1>2 DEF ReadShared, CacheTypeOK, HasResult, Result, Work
  <2>2. redis.entry = [ver |-> redis.entry.ver, val |-> redis.entry.val]
    BY DEF CacheTypeOK, Entry, NoEntry
  <2> QED
    BY <2>1, <2>2 DEF ValuesStep, Own, HasResult, Result
<1>3. ASSUME NEW p \in Procs, UseShared(p)
      PROVE  ValuesStep
  <2>1. /\ redis' = redis /\ avail' = avail
        /\ \A q \in Procs : q # p => work'[q] = work[q] /\ mem'[q] = mem[q]
        /\ ~HasResult(p)' /\ HasResult(p) /\ mem'[p] = Result(p)
    BY <1>3 DEF UseShared, CacheTypeOK, HasResult, Result, NoWork, StoredOnAdopt
  <2> QED
    BY <2>1 DEF ValuesStep, Own, HasResult, Result
<1>4. ASSUME NEW p \in Procs, Query(p)
      PROVE  ValuesStep
  <2>1. /\ redis' = redis /\ avail' = avail /\ mem' = mem
        /\ \A q \in Procs : q # p => work'[q] = work[q]
        /\ Result(p)'.val = data
    BY <1>4 DEF Query, CacheTypeOK, Result, Work
  <2> QED
    BY <2>1 DEF ValuesStep, Own, HasResult, Result
<1>5. ASSUME NEW p \in Procs, QueryFails(p)
      PROVE  ValuesStep
  <2>1. /\ redis' = redis /\ avail' = avail /\ mem' = mem
        /\ \A q \in Procs : q # p => work'[q] = work[q]
        /\ ~HasResult(p)'
    BY <1>5 DEF QueryFails, CacheTypeOK, HasResult, NoWork
  <2> QED
    BY <2>1 DEF ValuesStep, Own, HasResult, Result
<1>6. ASSUME NEW p \in Procs, Finish(p)
      PROVE  ValuesStep
  <2>1. /\ avail' = avail
        /\ redis' = IF avail[p] THEN [redis EXCEPT !.entry = Result(p)] ELSE redis
        /\ \A q \in Procs : q # p => work'[q] = work[q] /\ mem'[q] = mem[q]
        /\ ~HasResult(p)' /\ HasResult(p) /\ mem'[p] = Result(p)
    BY <1>6 DEF Finish, CacheTypeOK, HasResult, Result, NoWork, Tag
  <2>2. redis'.entry = redis.entry \/ (avail[p] /\ redis'.entry = Result(p))
    BY <2>1 DEF CacheTypeOK
  <2> QED
    BY <2>1, <2>2 DEF ValuesStep, Own, HasResult, Result
<1>7. ASSUME NEW p \in Procs, Commit(p) \/ Bump(p) \/ Publish(p) \/ Hear(p) \/ Miss(p)
      PROVE  ValuesStep
  BY <1>7, SameValues DEF Commit, Bump, Publish, Hear, Miss
<1>8. ASSUME NEW p \in Procs, Count(p)
      PROVE  ValuesStep
  <2>1. redis'.entry = redis.entry
    <3> DEFINE n == redis.ver + 1
    <3>1. redis' = redis \/ redis' = [redis EXCEPT !.ver = n]
      BY <1>8 DEF Count
    <3> HIDE DEF n
    <3> QED
      BY <3>1 DEF CacheTypeOK
  <2> QED
    BY <1>8, <2>1, SameValues DEF Count
<1>9. ASSUME NEW p \in Procs, Expire(p)
      PROVE  ValuesStep
  <2>1. /\ redis' = redis /\ avail' = avail /\ work' = work
        /\ \A q \in Procs : q # p => mem'[q] = mem[q]
        /\ mem'[p].ver = Unknown
    BY <1>9 DEF Expire, CacheTypeOK, NoEntry
  <2> QED
    BY <2>1 DEF ValuesStep, Own, HasResult, Result
<1>10. CASE ExpireShared
  <2>1. redis'.entry = NoEntry
    BY <1>10 DEF ExpireShared, CacheTypeOK
  <2> QED
    BY <1>10, <2>1 DEF ExpireShared, ValuesStep, Own, HasResult, Result
<1>11. ASSUME NEW p \in Procs, Restart(p)
       PROVE  ValuesStep
  <2>1. /\ redis' = redis /\ avail' = avail
        /\ \A q \in Procs : q # p => work'[q] = work[q] /\ mem'[q] = mem[q]
        /\ mem'[p].ver = Unknown /\ ~HasResult(p)'
    BY <1>11 DEF Restart, CacheTypeOK, NoEntry, NoWork, HasResult
  <2> QED
    BY <2>1 DEF ValuesStep, Own, HasResult, Result
<1>12. CASE UNCHANGED vars
  BY <1>12, SameValues DEF vars
<1> QED
  BY <1>1, <1>2, <1>3, <1>4, <1>5, <1>6, <1>7, <1>8, <1>9, <1>10, <1>11, <1>12
  DEF Next, Breaker

\* A step adds to what p may answer nothing but what the database holds.
New(S, T, d) == \A e \in T : e \in S \/ e.ver = Unknown \/ e.val = d

LEMMA NewVisible ==
    ASSUME CacheTypeOK, OneRedis, ValuesStep, NEW p \in Procs
    PROVE  New(Visible(p), Visible(p)', data)
<1>1. avail' = avail
  BY DEF ValuesStep
<1>2. CASE avail[p]
  <2>1. /\ Visible(p) = {redis.entry} \cup UNION {Own(q) : q \in Procs}
        /\ Visible(p)' = {redis'.entry} \cup UNION {Own(q)' : q \in Procs}
    BY <1>1, <1>2 DEF Visible
  <2> QED
    BY <2>1 DEF New, ValuesStep, NoEntry
<1>3. CASE ~avail[p]
  <2>1. Visible(p) = Own(p) /\ Visible(p)' = Own(p)'
    BY <1>1, <1>3 DEF Visible
  <2> QED
    BY <1>3, <2>1 DEF New, ValuesStep
<1> QED
  BY <1>2, <1>3

LEMMA VisibleTyped ==
    CacheTypeOK => \A p \in Procs : \A e \in Visible(p) : e.ver \in Int /\ e.val \in Nat
<1> SUFFICES ASSUME CacheTypeOK, NEW p \in Procs
             PROVE  \A e \in Visible(p) : e.ver \in Int /\ e.val \in Nat
  OBVIOUS
<1>1. \A q \in Procs : \A e \in Own(q) : e.ver \in Int /\ e.val \in Nat
  BY DEF Own, Result, CacheTypeOK, Entry, NoEntry, Work, Unknown
<1>2. redis.entry.ver \in Int /\ redis.entry.val \in Nat
  BY DEF CacheTypeOK, Entry, NoEntry, Unknown
<1> QED
  BY <1>1, <1>2 DEF Visible

\* What is covered stays covered, for a higher number and fewer writes too.
LEMMA CoveredStays ==
    ASSUME NEW S, NEW T, NEW d \in Nat, New(S, T, d),
           \A e \in T : e.ver \in Int,
           NEW v \in Int, NEW w \in Nat, Covered(S, v, w), w <= d,
           NEW u \in Int, v <= u, NEW x \in Nat, x <= w,
           \A e \in S : e.val \in Nat
    PROVE  Covered(T, u, x)
BY DEF New, Covered

\* What a question does: it joins the calculation that runs, or starts one
\* with the number the process knows.
LEMMA AskEffect ==
    ASSUME CacheTypeOK, NEW r \in Readers, Ask(r) \/ FetchVersion(r)
    PROVE  /\ UNCHANGED <<data, mem, reset, redis, avail, mail, restarts, told>>
           /\ \A q \in Procs : q # Home[r] => known'[q] = known[q] /\ work'[q] = work[q]
           /\ \A t \in Readers : t # r => screen'[t] = screen[t]
           /\ known'[Home[r]] >= known[Home[r]]
           /\ \/ known'[Home[r]] = known[Home[r]]
              \/ /\ reset[Home[r]].stage # "bumped"
                 /\ known'[Home[r]] = IF avail[Home[r]] THEN redis.ver ELSE 0
           /\ \/ /\ screen'[r].stage = "version" /\ screen'[r].need = told[Home[r]]
                 /\ work' = work
              \/ /\ screen'[r].stage = "idle" /\ screen'[r].need = 0
                 /\ work' = work
              \/ /\ screen'[r].stage = "wait"
                 /\ \/ screen'[r].need = told[Home[r]]
                    \/ screen[r].stage = "version" /\ screen'[r].need = screen[r].need
                 /\ screen'[r].joined = (work[Home[r]] # NoWork)
                 /\ work[Home[r]] # NoWork => work' = work
                 /\ work[Home[r]] = NoWork => work'[Home[r]] =
                        [stage |-> "shared", ver |-> Greater(known'[Home[r]], 0), val |-> 0]
<1> DEFINE p == Home[r]
<1>1. p \in Procs
  BY CacheConstants
<1>2. CASE Ask(r)
  <2> DEFINE s == [screen[r] EXCEPT !.need = told[p]]
  <2>1. s \in Screen /\ s.need = told[p] /\ known' = known
    BY <1>1, <1>2 DEF CacheTypeOK, Screen, Ask
  <2>2. CASE known[p] = Unknown /\ avail[p]
    <3>1. screen' = [screen EXCEPT ![r] = [s EXCEPT !.stage = "version"]]
      BY <1>2, <2>2 DEF Ask
    <3>2. screen'[r].stage = "version" /\ screen'[r].need = told[p]
      BY <2>1, <3>1 DEF CacheTypeOK, Screen
    <3> QED
      BY <1>1, <1>2, <2>1, <2>2, <3>1, <3>2 DEF Ask, CacheTypeOK, Unknown
  <2>3. CASE ~(known[p] = Unknown /\ avail[p])
    <3>1. Look(r, Greater(known[p], 0), s)
      BY <1>2, <2>3 DEF Ask
    <3>2. Greater(known[p], 0) \in Nat
      BY <1>1, NumbersTyped DEF CacheTypeOK
    <3> HIDE DEF s
    <3> QED
      BY <1>1, <1>2, <2>1, <3>1, <3>2, LookEffect DEF Ask, CacheTypeOK, Unknown
  <2> QED
    BY <2>2, <2>3
<1>3. CASE FetchVersion(r)
  <2> DEFINE n == IF avail[p] THEN redis.ver ELSE 0
             v == Adopted(p, n)
  <2>1. n \in Nat /\ known[p] \in Nat \cup {Unknown}
    BY <1>1 DEF CacheTypeOK
  <2>2. v \in Nat /\ v >= known[p] /\ v \in {known[p], n}
    BY <2>1, NumbersTyped DEF Adopted
  <2>3. /\ Look(r, v, screen[r]) /\ known' = [known EXCEPT ![p] = v]
        /\ screen[r].stage = "version" /\ reset[p].stage # "bumped"
    BY <1>3 DEF FetchVersion
  <2>4. screen[r] \in Screen
    BY DEF CacheTypeOK
  <2> HIDE DEF v, n
  <2>5. known'[p] = v /\ \A q \in Procs : q # p => known'[q] = known[q]
    BY <1>1, <2>3 DEF CacheTypeOK
  <2>6. Greater(known'[p], 0) = v
    BY <2>2, <2>5 DEF Greater
  <2>7. UNCHANGED <<data, mem, reset, redis, avail, mail, restarts, told>>
    BY <1>3 DEF FetchVersion
  <2> QED
    BY <2>2, <2>3, <2>4, <2>5, <2>6, <2>7, LookEffect DEF n
<1> QED
  BY <1>2, <1>3

\* At the calculations: each stays, or starts from nothing.
LEMMA AskWork ==
    ASSUME CacheTypeOK, NEW r \in Readers, Ask(r) \/ FetchVersion(r)
    PROVE  /\ \A q \in Procs : work'[q] # work[q] =>
                 /\ q = Home[r] /\ work[q] = NoWork
                 /\ work'[q].stage = "shared" /\ work'[q].ver = Greater(known'[q], 0)
           /\ screen'[r].stage = "wait" => work'[Home[r]] # NoWork
           /\ screen'[r].stage = "version" => screen'[r].need = told[Home[r]]
<1> DEFINE new == [stage |-> "shared", ver |-> Greater(known'[Home[r]], 0), val |-> 0]
<1>1. \A q \in Procs : q # Home[r] => work'[q] = work[q]
  BY AskEffect
<1>2. \/ screen'[r].stage \in {"version", "idle"} /\ work' = work
      \/ /\ screen'[r].stage = "wait"
         /\ work[Home[r]] # NoWork => work' = work
         /\ work[Home[r]] = NoWork => work'[Home[r]] = new
  BY AskEffect
<1>3. screen'[r].stage = "version" => screen'[r].need = told[Home[r]]
  BY AskEffect
<1>4. new.stage = "shared" /\ new.ver = Greater(known'[Home[r]], 0) /\ new # NoWork
  BY DEF NoWork
<1> HIDE DEF new
<1> QED
  BY <1>1, <1>2, <1>3, <1>4

---------------------------------------------------------------------------
(* The invariant *)

LEMMA FreshInit == ~Flaky /\ Init => FreshInv
<1> SUFFICES ASSUME Init
             PROVE  FreshInv
  OBVIOUS
<1>1. OneRedis
  BY DEF Init, OneRedis
<1>2. NoRedis /\ Waiting /\ Committed /\ Promised
  BY CacheConstants DEF Init, NoRedis, Waiting, Committed, Promised, NoWork, NoReset, Shows
<1>3. Numbers /\ Counted
  BY DEF Init, Numbers, NumbersOf, Counted, CountedBy, NoWork, NoReset, NoEntry, Unknown, Greater
<1>4. Announced
  <2>1. \A p \in Procs : \A e \in Visible(p) : e.ver = Unknown
    BY DEF Init, Visible, Own, HasResult, NoWork, NoEntry
  <2> QED
    BY <2>1 DEF Init, Announced, Covered, NoReset
<1> QED
  BY <1>1, <1>2, <1>3, <1>4 DEF FreshInv

LEMMA NoRedisStep ==
    ASSUME CacheTypeOK, ~Flaky, OneRedis, NoRedis, [Next]_vars
    PROVE  OneRedis' /\ NoRedis'
<1>1. avail' = avail
  BY ValuesNext DEF ValuesStep
<1>2. OneRedis'
  BY <1>1 DEF OneRedis
<1>3. CASE \A q \in Procs : avail[q]
  BY <1>1, <1>2, <1>3 DEF NoRedis
<1>4. CASE \A q \in Procs : ~avail[q]
  <2>1. ASSUME NEW r \in Readers, Ask(r) \/ FetchVersion(r)
        PROVE  NoRedis'
    <3>1. /\ \A q \in Procs : work'[q] = work[q] \/ work'[q].stage = "shared"
          /\ UNCHANGED <<redis, mail, reset>>
      BY <2>1, AskWork, AskEffect
    <3> QED
      BY <1>1, <3>1 DEF NoRedis
  <2>2. ASSUME NEW p \in Procs,
               ReadShared(p) \/ UseShared(p) \/ Query(p) \/ QueryFails(p) \/ Finish(p)
        PROVE  NoRedis'
    BY <1>1, <1>4, <2>2
    DEF NoRedis, CacheTypeOK, Work, NoWork, ReadShared, UseShared, Query, QueryFails, Finish,
        StoredOnAdopt
  <2>3. ASSUME NEW p \in Procs,
               Commit(p) \/ Bump(p) \/ Count(p) \/ Publish(p)
        PROVE  NoRedis'
    <3>1. ~avail[p] /\ reset[p].stage \in {"none", "committed"}
      BY <1>4 DEF NoRedis
    <3>2. /\ work' = work /\ redis' = redis /\ mail' = mail
          /\ reset'[p].stage \in {"none", "committed"}
          /\ \A q \in Procs : q # p => reset'[q] = reset[q]
      BY <2>3, <3>1 DEF CacheTypeOK, Reset, NoReset, Commit, Bump, Count, Publish
    <3> QED
      BY <1>1, <3>2 DEF NoRedis
  <2>4. ASSUME NEW p \in Procs, Hear(p) \/ Miss(p) \/ Expire(p) \/ Restart(p)
        PROVE  NoRedis'
    BY <1>1, <1>4, <2>4
    DEF NoRedis, CacheTypeOK, NoWork, NoReset, Hear, Miss, Expire, Restart
  <2>5. CASE ExpireShared \/ UNCHANGED vars
    <3>1. /\ redis.entry = NoEntry => redis'.entry = NoEntry
          /\ UNCHANGED <<mail, reset, work>>
      BY <2>5 DEF ExpireShared, vars, CacheTypeOK
    <3> QED
      BY <1>1, <1>2, <3>1 DEF NoRedis
  <2> QED
    BY <1>2, <2>1, <2>2, <2>3, <2>4, <2>5 DEF Next, Breaker
<1> QED
  BY <1>2, <1>3, <1>4 DEF OneRedis

LEMMA WaitingStep ==
    ASSUME CacheTypeOK, ~Flaky, Waiting, [Next]_vars
    PROVE  Waiting'
<1>1. ASSUME NEW r \in Readers, Ask(r) \/ FetchVersion(r)
      PROVE  Waiting'
  <2>1. Home[r] \in Procs /\ \A t \in Readers : Home[t] \in Procs
    BY CacheConstants
  <2>2. /\ \A t \in Readers : t # r => screen'[t] = screen[t]
        /\ told' = told
    BY <1>1, AskEffect
  <2>3. /\ \A q \in Procs : work'[q] # work[q] => work[q] = NoWork /\ work'[q].stage = "shared"
        /\ screen'[r].stage = "wait" => work'[Home[r]] # NoWork
        /\ screen'[r].stage = "version" => screen'[r].need = told[Home[r]]
    BY <1>1, AskWork
  <2>4. \A q \in Procs : work'[q].stage = "none" => work'[q] = NoWork
    BY <2>3 DEF Waiting
  <2>5. \A t \in Readers : screen'[t].stage = "wait" => work'[Home[t]].stage # "none"
    BY <2>1, <2>2, <2>3, <2>4 DEF Waiting, NoWork
  <2>6. \A t \in Readers : screen'[t].stage = "version" => screen'[t].need <= told'[Home[t]]
    BY <2>1, <2>2, <2>3 DEF Waiting, CacheTypeOK
  <2> QED
    BY <2>4, <2>5, <2>6 DEF Waiting
<1>2. ASSUME NEW p \in Procs, ReadShared(p) \/ Query(p)
      PROVE  Waiting'
  <2>1. /\ UNCHANGED <<screen, told>>
        /\ work[p].stage # "none" /\ work'[p].stage # "none"
        /\ \A q \in Procs : q # p => work'[q] = work[q]
    BY <1>2 DEF CacheTypeOK, Work, ReadShared, Query
  <2> QED
    BY <2>1, CacheConstants DEF Waiting
<1>3. ASSUME NEW p \in Procs, UseShared(p) \/ QueryFails(p) \/ Finish(p)
      PROVE  Waiting'
  <2>1. /\ told' = told /\ work'[p] = NoWork
        /\ \A q \in Procs : q # p => work'[q] = work[q]
    BY <1>3 DEF CacheTypeOK, UseShared, QueryFails, Finish
  <2>2. \A t \in Readers : screen'[t].stage # "idle" =>
            screen'[t] = screen[t] /\ (screen[t].stage = "wait" => Home[t] # p)
    BY <1>3 DEF UseShared, QueryFails, Finish, Served, Dropped, Shows
  <2> QED
    BY <2>1, <2>2, CacheConstants DEF Waiting
<1>4. ASSUME NEW p \in Procs, Commit(p) \/ Miss(p) \/ Expire(p)
      PROVE  Waiting'
  BY <1>4 DEF Waiting, Commit, Miss, Expire
<1>5. ASSUME NEW p \in Procs, Bump(p) \/ Count(p) \/ Publish(p) \/ Hear(p)
      PROVE  Waiting'
  <2>1. \A q \in Procs : told'[q] >= told[q]
    BY <1>5 DEF CacheTypeOK, Reset, Message, Bump, Count, Publish, Hear, Greater
  <2>2. work' = work /\ screen' = screen
    BY <1>5 DEF Bump, Count, Publish, Hear
  <2> QED
    <3>1. \A t \in Readers : Home[t] \in Procs /\ screen[t].need \in Nat
      BY CacheConstants DEF CacheTypeOK, Screen
    <3>2. \A q \in Procs : told[q] \in Nat /\ told'[q] \in Nat
      BY TypeStep DEF CacheTypeOK
    <3> QED
      BY <2>1, <2>2, <3>1, <3>2 DEF Waiting
<1>6. ASSUME NEW p \in Procs, Restart(p)
      PROVE  Waiting'
  BY <1>6, CacheConstants DEF Waiting, CacheTypeOK, NoWork, Restart, Dropped, Shows
<1>7. CASE ExpireShared \/ UNCHANGED vars
  BY <1>7 DEF ExpireShared, vars, Waiting
<1> QED
  BY <1>1, <1>2, <1>3, <1>4, <1>5, <1>6, <1>7 DEF Next, Breaker

LEMMA CommittedStep ==
    ASSUME CacheTypeOK, ~Flaky, Committed, [Next]_vars
    PROVE  Committed'
<1>1. ASSUME NEW r \in Readers, Ask(r) \/ FetchVersion(r)
      PROVE  Committed'
  <2>1. Home[r] \in Procs
    BY CacheConstants
  <2>2. /\ UNCHANGED <<data, told, reset, mail>>
        /\ \A t \in Readers : t # r => screen'[t] = screen[t]
        /\ screen'[r].need \in {told[Home[r]], 0, screen[r].need}
    BY <1>1, AskEffect
  <2> QED
    BY <2>1, <2>2 DEF Committed, CacheTypeOK
<1>2. ASSUME NEW p \in Procs,
             ReadShared(p) \/ Query(p) \/ UseShared(p) \/ QueryFails(p) \/ Finish(p) \/ Expire(p)
      PROVE  Committed'
  BY <1>2
  DEF Committed, CacheTypeOK, ReadShared, Query, UseShared, QueryFails, Finish, Expire,
      Served, Dropped, Shows
<1>3. ASSUME NEW p \in Procs, Commit(p)
      PROVE  Committed'
  BY <1>3 DEF Committed, CacheTypeOK, Screen, Message, Reset, Commit
<1>4. ASSUME NEW p \in Procs, Bump(p) \/ Count(p)
      PROVE  Committed'
  BY <1>4 DEF Committed, CacheTypeOK, Reset, NoReset, Bump, Count, Greater
<1>5. ASSUME NEW p \in Procs, Publish(p)
      PROVE  Committed'
  BY <1>5 DEF Committed, CacheTypeOK, Reset, NoReset, Publish, Greater
<1>6. ASSUME NEW p \in Procs, Hear(p) \/ Miss(p)
      PROVE  Committed'
  BY <1>6 DEF Committed, CacheTypeOK, Message, Hear, Miss, Greater
<1>7. ASSUME NEW p \in Procs, Restart(p)
      PROVE  Committed'
  BY <1>7 DEF Committed, CacheTypeOK, NoReset, Restart, Dropped, Shows
<1>8. CASE ExpireShared \/ UNCHANGED vars
  BY <1>8 DEF ExpireShared, vars, Committed
<1> QED
  BY <1>1, <1>2, <1>3, <1>4, <1>5, <1>6, <1>7, <1>8 DEF Next, Breaker

\* The counter of Redis only grows.
LEMMA CounterGrows ==
    ASSUME CacheTypeOK, [Next]_vars
    PROVE  redis'.ver \in Nat /\ redis'.ver >= redis.ver
<1>1. redis'.ver = redis.ver \/ \E p \in Procs : Count(p)
  BY AskEffect
  DEF Next, vars, CacheTypeOK, ReadShared, UseShared, StoredOnAdopt, Query, QueryFails, Finish,
      Commit, Bump, Publish, Hear, Miss, Expire, Breaker, Restart, ExpireShared
<1>2. ASSUME NEW p \in Procs, Count(p)
      PROVE  redis'.ver = redis.ver \/ redis'.ver = redis.ver + 1
  <2> DEFINE n == redis.ver + 1
  <2>1. redis' = redis \/ redis' = [redis EXCEPT !.ver = n]
    BY <1>2 DEF Count
  <2> HIDE DEF n
  <2>2. redis'.ver = redis.ver \/ redis'.ver = n
    BY <2>1 DEF CacheTypeOK
  <2> QED
    BY <2>2 DEF n
<1> QED
  BY <1>1, <1>2 DEF CacheTypeOK

LEMMA NumbersKept ==
    ASSUME CacheTypeOK, NEW q \in Procs, NumbersOf(q),
           known'[q] = known[q], mem'[q] = mem[q], work'[q] = work[q],
           told'[q] = told[q], avail' = avail, reset'[q].stage = reset[q].stage,
           redis'.ver \in Nat, redis'.ver >= redis.ver
    PROVE  NumbersOf(q)'
BY DEF NumbersOf, CacheTypeOK, Unknown

LEMMA NumbersStep ==
    ASSUME CacheTypeOK, CacheTypeOK', ~Flaky, NoRedis, Numbers, Counted, [Next]_vars
    PROVE  Numbers'
<1>1. avail' = avail
  BY ValuesNext DEF ValuesStep
<1>2. redis'.ver \in Nat /\ redis'.ver >= redis.ver
  BY CounterGrows
<1> SUFFICES ASSUME NEW q \in Procs
             PROVE  NumbersOf(q)'
  BY DEF Numbers
<1>3. NumbersOf(q) /\ CountedBy(q)
  BY DEF Numbers, Counted
<1>4. /\ known[q] \in Nat \cup {Unknown} /\ known'[q] \in Nat \cup {Unknown}
      /\ redis.ver \in Nat
      /\ mem[q].ver \in Nat \cup {Unknown}
      /\ work[q].ver \in Nat
  BY DEF CacheTypeOK, Entry, NoEntry, Work
<1>4n. Greater(known[q], 0) \in Nat /\ Greater(known'[q], 0) \in Nat
  BY <1>4, NumbersTyped
<1>5. ASSUME NEW r \in Readers, Ask(r) \/ FetchVersion(r)
      PROVE  NumbersOf(q)'
  <2>1. UNCHANGED <<mem, reset, redis, avail, told>>
    BY <1>5, AskEffect
  <2>2. work'[q] # work[q] =>
            work'[q].stage = "shared" /\ work'[q].ver = Greater(known'[q], 0)
    BY <1>5, AskWork
  <2>3. /\ known'[q] >= known[q]
        /\ \/ known'[q] = known[q]
           \/ /\ reset[q].stage # "bumped"
              /\ known'[q] = IF avail[q] THEN redis.ver ELSE 0
    <3>1. CASE q = Home[r]
      BY <1>5, <3>1, AskEffect
    <3>2. CASE q # Home[r]
      <4>1. known'[q] = known[q]
        BY <1>5, <3>2, AskEffect
      <4> QED
        BY <1>4, <4>1 DEF Unknown
    <3> QED
      BY <3>1, <3>2
  <2>4. known'[q] = Unknown => told'[q] = 0
    BY <1>3, <1>4, <2>1, <2>3 DEF NumbersOf, Unknown
  <2>5. Greater(known'[q], 0) >= Greater(known[q], 0) /\ Greater(known'[q], 0) \in Nat
    BY <1>4, <2>3 DEF Greater, Unknown
  <2>6. mem'[q].ver <= Greater(known'[q], 0)
    BY <1>3, <1>4, <1>4n, <2>1, <2>5 DEF NumbersOf, Unknown
  <2>7. work'[q].stage # "found" => work'[q].ver <= Greater(known'[q], 0)
    BY <1>3, <1>4, <1>4n, <2>2, <2>5 DEF NumbersOf
  <2>8. avail'[q] => /\ reset'[q].stage = "bumped" => known'[q] <= redis'.ver + 1
                     /\ reset'[q].stage # "bumped" => known'[q] <= redis'.ver
    BY <1>3, <1>4, <2>1, <2>3 DEF NumbersOf, Unknown
  <2> QED
    BY <2>4, <2>6, <2>7, <2>8 DEF NumbersOf
<1>6. ASSUME NEW p \in Procs, ReadShared(p) \/ Query(p) \/ QueryFails(p) \/ Finish(p)
                              \/ Expire(p)
      PROVE  NumbersOf(q)'
  <2>1. UNCHANGED <<known, reset, told>>
    BY <1>6 DEF ReadShared, Query, QueryFails, Finish, Expire
  <2>2. \/ mem'[q] = mem[q]
        \/ mem'[q] = NoEntry
        \/ mem'[q].ver = work[q].ver /\ work[q].stage = "ready"
    BY <1>6 DEF CacheTypeOK, ReadShared, Query, QueryFails, Finish, Expire, Tag
  <2>3. \/ work'[q].stage = "found"
        \/ work'[q] = NoWork
        \/ work'[q].ver = work[q].ver /\ work[q].stage # "found"
        \/ work'[q] = work[q]
    BY <1>6 DEF CacheTypeOK, Work, ReadShared, Query, QueryFails, Finish, Expire
  <2>4. mem'[q].ver <= Greater(known'[q], 0)
    BY <1>3, <1>4, <1>4n, <2>1, <2>2 DEF NumbersOf, NoEntry, Unknown
  <2>5. work'[q].stage # "found" => work'[q].ver <= Greater(known'[q], 0)
    BY <1>3, <1>4, <1>4n, <2>1, <2>3 DEF NumbersOf, NoWork
  <2>6. avail'[q] => /\ reset'[q].stage = "bumped" => known'[q] <= redis'.ver + 1
                     /\ reset'[q].stage # "bumped" => known'[q] <= redis'.ver
    BY <1>1, <1>2, <1>3, <1>4, <2>1 DEF NumbersOf, Unknown
  <2> QED
    BY <1>3, <2>1, <2>4, <2>5, <2>6 DEF NumbersOf
<1>7. ASSUME NEW p \in Procs, q # p,
             UseShared(p) \/ Commit(p) \/ Bump(p) \/ Count(p) \/ Publish(p) \/ Hear(p)
             \/ Miss(p) \/ Restart(p)
      PROVE  NumbersOf(q)'
  <2>1. /\ known'[q] = known[q] /\ mem'[q] = mem[q] /\ work'[q] = work[q]
        /\ told'[q] = told[q] /\ reset'[q] = reset[q]
    BY <1>7 DEF CacheTypeOK, UseShared, Commit, Bump, Count, Publish, Hear, Miss, Restart
  <2> QED
    BY <1>1, <1>2, <1>3, <2>1, NumbersKept
<1>8. CASE UseShared(q)
  <2>1. /\ known'[q] = Greater(known[q], work[q].ver)
        /\ mem'[q].ver = work[q].ver /\ work'[q] = NoWork
        /\ UNCHANGED <<reset, redis, told>>
        /\ work[q].stage = "found"
    BY <1>8 DEF CacheTypeOK, UseShared, Adopted, StoredOnAdopt
  <2>2. avail[q] /\ work[q].ver <= redis.ver
    BY <1>3, <2>1 DEF NoRedis, CountedBy
  <2>3. known'[q] \in {known[q], work[q].ver} /\ known'[q] >= work[q].ver
        /\ known'[q] >= known[q] /\ known'[q] \in Nat
    BY <1>4, <2>1, NumbersTyped
  <2>4. Greater(known'[q], 0) = known'[q]
    BY <2>3 DEF Greater
  <2> QED
    BY <1>1, <1>3, <1>4, <2>1, <2>2, <2>3, <2>4 DEF NumbersOf, NoWork, Unknown
<1>9. CASE Commit(q) \/ Miss(q)
  <2>1. /\ UNCHANGED <<known, mem, work, told>>
        /\ reset'[q].stage = "bumped" => reset[q].stage = "bumped"
        /\ reset[q].stage = "bumped" => reset'[q].stage = "bumped"
    BY <1>9 DEF CacheTypeOK, Commit, Miss, NoReset
  <2> QED
    BY <1>1, <1>2, <1>3, <1>4, <2>1 DEF NumbersOf, Unknown
<1>10. CASE Bump(q)
  <2> DEFINE g == Greater(known[q], 0)
             n == g + 1
  <2>1. g \in Nat /\ g >= known[q] /\ g \in {known[q], 0}
    BY <1>4, NumbersTyped
  <2> HIDE DEF g
  <2>2. n \in Nat /\ n > known[q]
    BY <1>4, <2>1 DEF Unknown
  <2> HIDE DEF n
  <2>3. /\ known' = [known EXCEPT ![q] = Adopted(q, n)]
        /\ UNCHANGED <<mem, work, redis>>
        /\ reset[q].stage = "committed"
        /\ avail[q] => reset' = [reset EXCEPT ![q].stage = "bumped"]
    BY <1>10 DEF Bump, n, g
  <2>4. Adopted(q, n) = n
    BY <1>4, <2>2 DEF Adopted, Greater, Unknown
  <2>5. known'[q] = n
    BY <2>3, <2>4 DEF CacheTypeOK
  <2>6. avail[q] => reset'[q].stage = "bumped"
    BY <2>3 DEF CacheTypeOK, Reset
  <2>7. Greater(known'[q], 0) = n /\ n = g + 1
    BY <2>2, <2>5 DEF Greater, n
  <2>8. /\ mem[q].ver <= g
        /\ work[q].stage # "found" => work[q].ver <= g
        /\ avail[q] => known[q] <= redis.ver
    BY <1>3, <2>3 DEF NumbersOf, g
  <2> QED
    BY <1>1, <1>4, <2>1, <2>2, <2>3, <2>5, <2>6, <2>7, <2>8 DEF NumbersOf, Unknown
<1>11. CASE Count(q)
  <2>1. /\ UNCHANGED <<known, mem, work>>
        /\ reset[q].stage = "bumped"
        /\ reset'[q].stage # "bumped"
    BY <1>11 DEF CacheTypeOK, Count, Reset, NoReset
  <2>2. avail[q] => redis'.ver = redis.ver + 1 /\ told' = told
    <3> DEFINE n == redis.ver + 1
    <3>1. avail[q] => redis' = [redis EXCEPT !.ver = n] /\ told' = told
      BY <1>11 DEF Count
    <3> HIDE DEF n
    <3>2. avail[q] => redis'.ver = n /\ told' = told
      BY <3>1 DEF CacheTypeOK
    <3> QED
      BY <3>2 DEF n
  <2>3. avail[q]
    BY <2>1 DEF NoRedis
  <2> QED
    BY <1>1, <1>3, <1>4, <2>1, <2>2, <2>3 DEF NumbersOf, Unknown
<1>12. ASSUME NEW n \in Nat, known' = [known EXCEPT ![q] = Adopted(q, n)],
              avail[q], n <= redis.ver, reset[q].stage = "bumped" => reset'[q].stage = "bumped",
              UNCHANGED <<mem, work>>
       PROVE  NumbersOf(q)'
  <2>1. known'[q] = Greater(known[q], n)
    BY <1>12 DEF CacheTypeOK, Adopted
  <2>2. known'[q] \in {known[q], n} /\ known'[q] >= known[q] /\ known'[q] \in Nat
    BY <1>4, <2>1, NumbersTyped
  <2>3. Greater(known'[q], 0) = known'[q] /\ known'[q] >= Greater(known[q], 0)
    BY <1>4, <2>2 DEF Greater, Unknown
  <2>4. Greater(known[q], 0) \in Nat
    BY <1>4, NumbersTyped
  <2> QED
    BY <1>1, <1>2, <1>3, <1>4, <1>12, <2>2, <2>3, <2>4 DEF NumbersOf, Unknown
<1>13. CASE Publish(q)
  <2>1. /\ known' = [known EXCEPT ![q] = Adopted(q, reset[q].ver)]
        /\ reset[q].stage = "counted"
        /\ UNCHANGED <<mem, work>>
    BY <1>13 DEF Publish
  <2>2. avail[q] /\ reset[q].ver <= redis.ver /\ reset[q].ver \in Nat
    BY <1>3, <2>1 DEF NoRedis, CountedBy, CacheTypeOK, Reset
  <2> QED
    BY <1>12, <2>1, <2>2
<1>14. CASE Hear(q)
  <2>1. PICK m \in mail[q] : known' = [known EXCEPT ![q] = Adopted(q, m.ver)]
    BY <1>14 DEF Hear
  <2>2. UNCHANGED <<mem, work, reset>>
    BY <1>14 DEF Hear
  <2>3. avail[q] /\ m.ver <= redis.ver /\ m.ver \in Nat
    BY <1>3 DEF NoRedis, CountedBy, CacheTypeOK, Message
  <2> QED
    BY <1>12, <2>1, <2>2, <2>3
<1>15. CASE Restart(q)
  <2>1. /\ known'[q] = Unknown /\ mem'[q] = NoEntry /\ work'[q] = NoWork
        /\ reset'[q] = NoReset /\ told'[q] = 0
    BY <1>15 DEF CacheTypeOK, Restart
  <2> QED
    BY <1>2, <2>1 DEF NumbersOf, NoEntry, NoWork, NoReset, Greater, Unknown
<1>16. CASE ExpireShared \/ UNCHANGED vars
  BY <1>1, <1>2, <1>3, <1>16, NumbersKept DEF ExpireShared, vars
<1> QED
  BY <1>5, <1>6, <1>7, <1>8, <1>9, <1>10, <1>11, <1>13, <1>14, <1>15, <1>16 DEF Next, Breaker

LEMMA CountedStep ==
    ASSUME CacheTypeOK, CacheTypeOK', ~Flaky, OneRedis, Numbers, Counted, [Next]_vars
    PROVE  Counted'
<1>1. avail' = avail
  BY ValuesNext DEF ValuesStep
<1>2. redis'.ver \in Nat /\ redis'.ver >= redis.ver
  BY CounterGrows
<1> SUFFICES ASSUME NEW q \in Procs, avail[q]
             PROVE  CountedBy(q)'
  BY <1>1 DEF Counted, CountedBy
<1>3. \A p \in Procs : CountedBy(p) /\ NumbersOf(p) /\ avail[p]
  BY DEF Numbers, Counted, OneRedis
<1>4. /\ redis.ver \in Nat /\ redis.entry.ver \in Nat \cup {Unknown}
      /\ mem[q].ver \in Nat \cup {Unknown} /\ work[q].ver \in Nat /\ reset[q].ver \in Nat
      /\ \A m \in mail[q] : m.ver \in Nat
      /\ known[q] \in Nat \cup {Unknown}
  BY DEF CacheTypeOK, Entry, NoEntry, Work, Reset, Message
<1>5. /\ redis.entry.ver <= redis.ver
      /\ mem[q].ver <= redis.ver
      /\ work[q].stage \in {"found", "query", "ready"} => work[q].ver <= redis.ver
      /\ reset[q].stage = "counted" => reset[q].ver <= redis.ver
      /\ \A m \in mail[q] : m.ver <= redis.ver
  BY <1>3 DEF CountedBy
\* All that a step must tell.
<1>6. ASSUME redis'.entry.ver <= redis.ver, mem'[q].ver <= redis.ver,
             work'[q].stage \in {"found", "query", "ready"} => work'[q].ver <= redis.ver,
             reset'[q].stage = "counted" => reset'[q].ver <= redis'.ver,
             \A m \in mail'[q] : m.ver <= redis.ver
      PROVE  CountedBy(q)'
  <2>1. /\ redis'.entry.ver \in Int /\ mem'[q].ver \in Int /\ work'[q].ver \in Int
        /\ \A m \in mail'[q] : m.ver \in Int
    BY DEF CacheTypeOK, Entry, NoEntry, Work, Message, Unknown
  <2> QED
    BY <1>2, <1>4, <1>6, <2>1 DEF CountedBy
<1>7. ASSUME NEW r \in Readers, Ask(r) \/ FetchVersion(r)
      PROVE  CountedBy(q)'
  <2>1. UNCHANGED <<mem, reset, redis, mail>>
    BY <1>7, AskEffect
  <2>2. work'[q] # work[q] => work'[q].stage = "shared"
    BY <1>7, AskWork
  <2> QED
    BY <1>5, <1>6, <2>1, <2>2
<1>8. ASSUME NEW p \in Procs, ReadShared(p)
      PROVE  CountedBy(q)'
  <2>1. UNCHANGED <<mem, reset, redis, mail>>
    BY <1>8 DEF ReadShared
  <2>2. \/ work'[q] = work[q]
        \/ work'[q].ver = redis.entry.ver
        \/ /\ work[q].stage = "shared" /\ reset[q].stage # "bumped"
           /\ work'[q].ver = work[q].ver
    BY <1>8 DEF CacheTypeOK, Work, ReadShared
  <2>3. work[q].stage = "shared" /\ reset[q].stage # "bumped" => work[q].ver <= redis.ver
    BY <1>3, <1>4 DEF NumbersOf, Greater, Unknown
  <2> QED
    BY <1>5, <1>6, <2>1, <2>2, <2>3
<1>9. ASSUME NEW p \in Procs, UseShared(p) \/ Query(p) \/ QueryFails(p) \/ Finish(p) \/ Expire(p)
      PROVE  CountedBy(q)'
  <2>1. UNCHANGED <<reset, mail>>
    BY <1>9 DEF UseShared, Query, QueryFails, Finish, Expire
  <2>2. \/ mem'[q] = mem[q]
        \/ mem'[q] = NoEntry
        \/ mem'[q].ver = work[q].ver /\ work[q].stage \in {"found", "ready"}
    BY <1>9 DEF CacheTypeOK, UseShared, Query, QueryFails, Finish, Expire, Tag
  <2>3. \/ work'[q] = NoWork
        \/ work'[q].ver = work[q].ver /\ work[q].stage = "query"
        \/ work'[q] = work[q]
    BY <1>9 DEF CacheTypeOK, Work, UseShared, Query, QueryFails, Finish, Expire
  <2>4. \/ redis'.entry = redis.entry
        \/ redis'.entry.ver = work[p].ver /\ work[p].stage = "ready"
    BY <1>9 DEF CacheTypeOK, UseShared, StoredOnAdopt, Query, QueryFails, Finish, Expire, Tag
  <2>5. redis'.entry.ver <= redis.ver
    BY <1>3, <1>5, <2>4 DEF CountedBy
  <2>6. mem'[q].ver <= redis.ver
    BY <1>4, <1>5, <2>2 DEF NoEntry, Unknown
  <2> QED
    BY <1>2, <1>4, <1>5, <1>6, <2>1, <2>3, <2>5, <2>6 DEF NoWork
<1>10. ASSUME NEW p \in Procs, Commit(p) \/ Bump(p) \/ Hear(p) \/ Miss(p)
       PROVE  CountedBy(q)'
  <2>1. UNCHANGED <<mem, work, redis>>
    BY <1>10 DEF Commit, Bump, Hear, Miss
  <2>2. reset'[q].stage = "counted" => reset'[q] = reset[q]
    BY <1>10 DEF CacheTypeOK, Reset, NoReset, Commit, Bump, Hear, Miss
  <2>3. mail'[q] \subseteq mail[q]
    BY <1>10 DEF CacheTypeOK, Commit, Bump, Hear, Miss
  <2> QED
    BY <1>5, <1>6, <2>1, <2>2, <2>3
<1>11. ASSUME NEW p \in Procs, Count(p)
       PROVE  CountedBy(q)'
  <2> DEFINE n == redis.ver + 1
  <2>1. /\ UNCHANGED <<mem, work, mail>>
        /\ redis' = [redis EXCEPT !.ver = n]
        /\ reset' = [reset EXCEPT ![p].stage = "counted", ![p].ver = n]
    BY <1>3, <1>11 DEF Count
  <2> HIDE DEF n
  <2>2. redis'.entry = redis.entry /\ redis'.ver = n
    BY <2>1 DEF CacheTypeOK
  <2>3. reset'[q] = reset[q] \/ reset'[q].ver = n
    BY <2>1 DEF CacheTypeOK, Reset
  <2>4. n >= redis.ver /\ n \in Nat
    BY <1>4 DEF n
  <2>5. reset'[q].stage = "counted" => reset'[q].ver <= redis'.ver
    BY <1>4, <1>5, <2>2, <2>3, <2>4
  <2> QED
    BY <1>5, <1>6, <2>1, <2>2, <2>5
<1>12. ASSUME NEW p \in Procs, Publish(p)
       PROVE  CountedBy(q)'
  <2>1. UNCHANGED <<mem, work, redis>>
    BY <1>12 DEF Publish
  <2>2. reset'[q].stage = "counted" => reset'[q] = reset[q]
    BY <1>12 DEF CacheTypeOK, NoReset, Publish
  <2>3. \A m \in mail'[q] :
            m \in mail[q] \/ (m.ver = reset[p].ver /\ reset[p].stage = "counted")
    BY <1>12 DEF CacheTypeOK, Publish
  <2>4. \A m \in mail'[q] : m.ver <= redis.ver
    BY <1>3, <1>5, <2>3 DEF CountedBy
  <2> QED
    BY <1>5, <1>6, <2>1, <2>2, <2>4
<1>13. ASSUME NEW p \in Procs, Restart(p)
       PROVE  CountedBy(q)'
  <2>1. /\ redis' = redis
        /\ mem'[q] = mem[q] \/ mem'[q] = NoEntry
        /\ work'[q] = work[q] \/ work'[q] = NoWork
        /\ reset'[q] = reset[q] \/ reset'[q] = NoReset
        /\ mail'[q] \subseteq mail[q]
    BY <1>13 DEF CacheTypeOK, Restart
  <2> QED
    BY <1>4, <1>5, <1>6, <2>1 DEF NoEntry, NoWork, NoReset, Unknown
<1>14. CASE ExpireShared \/ UNCHANGED vars
  <2>1. /\ UNCHANGED <<mem, work, reset, mail>>
        /\ redis'.entry \in {redis.entry, NoEntry}
    BY <1>14 DEF ExpireShared, vars, CacheTypeOK
  <2> QED
    BY <1>2, <1>4, <1>5, <1>6, <2>1 DEF NoEntry, Unknown
<1> QED
  BY <1>7, <1>8, <1>9, <1>10, <1>11, <1>12, <1>13, <1>14 DEF Next, Breaker

\* No value has a number above the counter, or above what its process knows.
LEMMA VisibleBound ==
    ASSUME CacheTypeOK, OneRedis, NoRedis, Numbers, Counted, NEW p \in Procs
    PROVE  \A e \in Visible(p) : e.ver <= IF avail[p] THEN redis.ver ELSE Greater(known[p], 0)
<1>1. CASE avail[p]
  <2>1. \A q \in Procs : \A e \in Own(q) : e.ver <= redis.ver
    BY <1>1 DEF OneRedis, Counted, CountedBy, Own, HasResult, Result
  <2>2. redis.entry.ver <= redis.ver
    BY <1>1 DEF Counted, CountedBy
  <2> QED
    BY <1>1, <2>1, <2>2 DEF Visible
<1>2. CASE ~avail[p]
  <2>1. \A e \in Own(p) : e.ver <= Greater(known[p], 0)
    BY <1>2 DEF NoRedis, Numbers, NumbersOf, Own, HasResult, Result
  <2> QED
    BY <1>2, <2>1 DEF Visible
<1> QED
  BY <1>1, <1>2

\* The number a process knows grows, and with what it has been told of only in
\* a reset or by a message, unless it restarts.
LEMMA ToldNext ==
    ASSUME CacheTypeOK, CacheTypeOK', ~Flaky, [Next]_vars, NEW q \in Procs
    PROVE  \/ told'[q] = told[q] /\ known'[q] >= known[q]
           \/ (Bump(q) \/ Count(q)) /\ ~avail[q]
           \/ Publish(q) \/ Hear(q)
           \/ told'[q] = 0
<1>1. known[q] \in Nat \cup {Unknown} /\ \A p \in Procs : Greater(known[p], 0) \in Nat
  BY NumbersTyped DEF CacheTypeOK
<1>2. ASSUME NEW p \in Procs, NEW n \in Nat, told'[q] = told[q],
             known' = [known EXCEPT ![p] = Adopted(p, n)]
      PROVE  known'[q] >= known[q]
  <2>1. Adopted(p, n) >= known[p]
    BY <1>2, NumbersTyped DEF Adopted, CacheTypeOK
  <2> QED
    BY <1>1, <1>2, <2>1 DEF CacheTypeOK, Unknown
<1>3. known' = known => known'[q] >= known[q]
  BY <1>1 DEF Unknown
<1>4. ASSUME NEW r \in Readers, Ask(r) \/ FetchVersion(r)
      PROVE  told'[q] = told[q] /\ known'[q] >= known[q]
  <2>1. told' = told
    BY <1>4, AskEffect
  <2>2. CASE q = Home[r]
    BY <1>4, <2>1, <2>2, AskEffect
  <2>3. CASE q # Home[r]
    <3>1. known'[q] = known[q]
      BY <1>4, <2>3, AskEffect
    <3> QED
      BY <1>1, <2>1, <3>1 DEF Unknown
  <2> QED
    BY <2>2, <2>3
<1>5. ASSUME NEW p \in Procs, ReadShared(p) \/ Query(p) \/ QueryFails(p) \/ Finish(p)
                              \/ Commit(p) \/ Miss(p) \/ Expire(p)
      PROVE  told'[q] = told[q] /\ known'[q] >= known[q]
  BY <1>3, <1>5 DEF ReadShared, Query, QueryFails, Finish, Commit, Miss, Expire
<1>6. ASSUME NEW p \in Procs, UseShared(p)
      PROVE  told'[q] = told[q] /\ known'[q] >= known[q]
  <2>1. work[p].ver \in Nat
    BY DEF CacheTypeOK, Work
  <2> QED
    BY <1>2, <1>6, <2>1 DEF UseShared
<1>7. ASSUME NEW p \in Procs, Bump(p), p # q \/ avail[p]
      PROVE  told'[q] = told[q] /\ known'[q] >= known[q]
  <2> DEFINE n == Greater(known[p], 0) + 1
  <2>1. n \in Nat
    BY <1>1
  <2>2. known' = [known EXCEPT ![p] = Adopted(p, n)] /\ told'[q] = told[q]
    BY <1>7 DEF Bump, CacheTypeOK
  <2> HIDE DEF n
  <2> QED
    BY <1>2, <2>1, <2>2
<1>8. ASSUME NEW p \in Procs, Count(p), p # q \/ avail[p]
      PROVE  told'[q] = told[q] /\ known'[q] >= known[q]
  BY <1>3, <1>8 DEF Count, CacheTypeOK
<1>9. ASSUME NEW p \in Procs, Publish(p) \/ Hear(p) \/ Restart(p), p # q
      PROVE  told'[q] = told[q] /\ known'[q] >= known[q]
  <2>1. told'[q] = told[q] /\ known'[q] = known[q]
    BY <1>9 DEF Publish, Hear, Restart, CacheTypeOK
  <2> QED
    BY <1>1, <2>1 DEF Unknown
<1>10. CASE Restart(q)
  BY <1>10 DEF Restart, CacheTypeOK
<1>11. CASE ExpireShared \/ UNCHANGED vars
  BY <1>3, <1>11 DEF ExpireShared, vars
<1> QED
  BY <1>4, <1>5, <1>6, <1>7, <1>8, <1>9, <1>10, <1>11 DEF Next, Breaker

\* Messages come from a reset that was counted; a reset is counted by Redis.
LEMMA NoticesNext ==
    ASSUME CacheTypeOK, [Next]_vars, NEW q \in Procs
    PROVE  /\ \A m \in mail'[q] : m \in mail[q] \/ \E p \in Procs :
                 /\ reset[p].stage = "counted" /\ avail[p] /\ avail'[q] = avail[q]
                 /\ m = [ver |-> reset[p].ver, write |-> reset[p].write]
           /\ reset'[q].stage = "counted" => reset'[q] = reset[q] \/ (Count(q) /\ avail[q])
<1>1. ASSUME NEW r \in Readers, Ask(r) \/ FetchVersion(r)
      PROVE  UNCHANGED <<mail, reset>>
  BY <1>1, AskEffect
<1>2. ASSUME NEW p \in Procs, ReadShared(p) \/ UseShared(p) \/ Query(p) \/ QueryFails(p)
                              \/ Finish(p) \/ Expire(p) \/ Breaker(p)
      PROVE  UNCHANGED <<mail, reset>>
  BY <1>2 DEF ReadShared, UseShared, Query, QueryFails, Finish, Expire, Breaker
<1>3. ASSUME NEW p \in Procs, Commit(p) \/ Bump(p) \/ Hear(p) \/ Miss(p) \/ Restart(p)
      PROVE  /\ mail'[q] \subseteq mail[q]
             /\ reset'[q].stage = "counted" => reset'[q] = reset[q]
  BY <1>3 DEF CacheTypeOK, Reset, NoReset, Commit, Bump, Hear, Miss, Restart
<1>4. ASSUME NEW p \in Procs, Count(p)
      PROVE  /\ mail' = mail
             /\ reset'[q].stage = "counted" => reset'[q] = reset[q] \/ (p = q /\ avail[q])
  BY <1>4 DEF CacheTypeOK, Reset, NoReset, Count
<1>5. ASSUME NEW p \in Procs, Publish(p)
      PROVE  /\ \A m \in mail'[q] : m \in mail[q] \/
                   /\ reset[p].stage = "counted" /\ avail[p] /\ avail'[q] = avail[q]
                   /\ m = [ver |-> reset[p].ver, write |-> reset[p].write]
             /\ reset'[q].stage = "counted" => reset'[q] = reset[q]
  BY <1>5 DEF CacheTypeOK, Reset, NoReset, Publish
<1>6. CASE ExpireShared \/ UNCHANGED vars
  BY <1>6 DEF ExpireShared, vars
<1> QED
  BY <1>1, <1>2, <1>3, <1>4, <1>5, <1>6 DEF Next

\* What covered what a process may answer covers it after the step.
LEMMA CoveredNext ==
    ASSUME CacheTypeOK, CacheTypeOK', OneRedis, ~Flaky, [Next]_vars, NEW q \in Procs,
           NEW v \in Int, NEW w \in Nat, Covered(Visible(q), v, w), w <= data,
           NEW u \in Int, v <= u, NEW x \in Nat, x <= w
    PROVE  Covered(Visible(q)', u, x)
<1>1. New(Visible(q), Visible(q)', data)
  BY ValuesNext, NewVisible
<1>2. \A e \in Visible(q) : e.val \in Nat
  BY VisibleTyped
<1>3. \A e \in Visible(q)' : e.ver \in Int
  <2>1. (CacheTypeOK => \A p \in Procs : \A e \in Visible(p) : e.ver \in Int /\ e.val \in Nat)'
    BY VisibleTyped, PTL
  <2> QED
    BY <2>1
<1>4. data \in Nat
  BY DEF CacheTypeOK
<1> QED
  BY <1>1, <1>2, <1>3, <1>4, CoveredStays

LEMMA AnnouncedStep ==
    ASSUME CacheTypeOK, CacheTypeOK', ~Flaky, FreshInv, [Next]_vars
    PROVE  Announced'
<1> USE DEF FreshInv
<1> SUFFICES ASSUME NEW q \in Procs
             PROVE  /\ \A m \in mail'[q] : Covered(Visible(q)', m.ver, m.write)
                    /\ reset'[q].stage = "counted" =>
                           Covered(Visible(q)', reset'[q].ver, reset'[q].write)
                    /\ Covered(Visible(q)', known'[q], told'[q])
  BY DEF Announced
<1>1. /\ data \in Nat /\ told[q] \in Nat /\ told'[q] \in Nat /\ redis.ver \in Nat
      /\ known[q] \in Nat \cup {Unknown} /\ known'[q] \in Nat \cup {Unknown}
      /\ known[q] \in Int /\ known'[q] \in Int
      /\ \A p \in Procs : reset[p].ver \in Nat /\ reset[p].write \in Nat
      /\ \A m \in mail[q] : m.ver \in Nat /\ m.write \in Nat
  BY DEF CacheTypeOK, Reset, Message, Unknown
<1>2. /\ told[q] <= data
      /\ \A p \in Procs : reset[p].write <= data
      /\ \A m \in mail[q] : m.write <= data
  BY DEF Committed
<1>3. /\ \A m \in mail[q] : Covered(Visible(q), m.ver, m.write)
      /\ \A p \in Procs : reset[p].stage = "counted" =>
             Covered(Visible(p), reset[p].ver, reset[p].write)
      /\ Covered(Visible(q), known[q], told[q])
  BY DEF Announced
<1>4. \A m \in mail[q] : Covered(Visible(q)', m.ver, m.write)
  <2> SUFFICES ASSUME NEW m \in mail[q]
               PROVE  Covered(Visible(q)', m.ver, m.write)
    OBVIOUS
  <2>1. m.ver \in Int /\ m.write \in Nat /\ m.write <= data /\ m.ver <= m.ver
        /\ m.write <= m.write /\ Covered(Visible(q), m.ver, m.write)
    BY <1>1, <1>2, <1>3
  <2> QED
    BY <2>1, CoveredNext
<1>5. ASSUME NEW p \in Procs, reset[p].stage = "counted", avail[q] = avail[p]
      PROVE  Covered(Visible(q)', reset[p].ver, reset[p].write)
  <2>1. avail[p]
    BY <1>5 DEF NoRedis
  <2>2. Visible(q) = Visible(p)
    BY <1>5, <2>1 DEF Visible
  <2>3. /\ reset[p].ver \in Int /\ reset[p].write \in Nat /\ reset[p].write <= data
        /\ reset[p].ver <= reset[p].ver /\ reset[p].write <= reset[p].write
        /\ Covered(Visible(q), reset[p].ver, reset[p].write)
    BY <1>1, <1>2, <1>3, <1>5, <2>2
  <2> QED
    BY <2>3, CoveredNext
<1>6. \A m \in mail'[q] : Covered(Visible(q)', m.ver, m.write)
  <2> SUFFICES ASSUME NEW m \in mail'[q]
               PROVE  Covered(Visible(q)', m.ver, m.write)
    OBVIOUS
  <2>1. m \in mail[q] \/ \E p \in Procs :
            /\ reset[p].stage = "counted"
            /\ m = [ver |-> reset[p].ver, write |-> reset[p].write]
    BY NoticesNext
  <2>2. \A p \in Procs : avail[q] = avail[p]
    BY DEF OneRedis
  <2> QED
    BY <1>4, <1>5, <2>1, <2>2
<1>7. reset'[q].stage = "counted" => Covered(Visible(q)', reset'[q].ver, reset'[q].write)
  <2>1. CASE reset'[q] = reset[q]
    BY <1>5, <2>1
  <2>2. CASE Count(q) /\ avail[q]
    <3> DEFINE n == redis.ver + 1
    <3>1. /\ UNCHANGED <<mem, work, avail>>
          /\ redis' = [redis EXCEPT !.ver = n]
          /\ reset' = [reset EXCEPT ![q].stage = "counted", ![q].ver = n]
      BY <2>2 DEF Count
    <3> HIDE DEF n
    <3>2. redis'.entry = redis.entry /\ reset'[q].ver = n
      BY <3>1 DEF CacheTypeOK, Reset
    <3>3. Visible(q)' = Visible(q)
      BY <3>1, <3>2 DEF Visible, Own, HasResult, Result
    <3>4. \A e \in Visible(q) : e.ver \in Int /\ e.ver <= redis.ver
      BY <2>2, VisibleBound, VisibleTyped
    <3>5. n > redis.ver /\ n \in Nat
      BY <1>1 DEF n
    <3>6. \A e \in Visible(q) : ~(e.ver >= n)
      BY <1>1, <3>4, <3>5
    <3> QED
      BY <3>2, <3>3, <3>6 DEF Covered
  <2> QED
    BY <2>1, <2>2, NoticesNext
<1>8. Covered(Visible(q)', known'[q], told'[q])
  <2>1. CASE told'[q] = told[q] /\ known'[q] >= known[q]
    BY <1>1, <1>2, <1>3, <2>1, CoveredNext
  <2>2. CASE Bump(q) /\ ~avail[q]
    <3> DEFINE g == Greater(known[q], 0)
               n == g + 1
    <3>1. g \in Nat /\ g >= known[q]
      BY <1>1, NumbersTyped
    <3>2. known' = [known EXCEPT ![q] = Adopted(q, n)] /\ UNCHANGED <<mem, work, avail, redis>>
      BY <2>2 DEF Bump
    <3>3. \A e \in Visible(q) : e.ver \in Int /\ e.ver <= g
      BY <2>2, VisibleBound, VisibleTyped
    <3> HIDE DEF g
    <3>4. n \in Nat /\ n > g
      BY <3>1 DEF n
    <3> HIDE DEF n
    <3>5. known'[q] >= n
      <4>1. Adopted(q, n) >= n
        BY <1>1, <3>4, NumbersTyped DEF Adopted
      <4> QED
        BY <3>2, <4>1 DEF CacheTypeOK
    <3>6. Visible(q)' = Visible(q)
      BY <3>2 DEF Visible, Own, HasResult, Result
    <3>7. \A e \in Visible(q) : ~(e.ver >= known'[q])
      BY <1>1, <3>1, <3>3, <3>4, <3>5
    <3> QED
      BY <3>6, <3>7 DEF Covered
  <2>3. CASE Count(q) /\ ~avail[q]
    BY <2>3 DEF Count, NoRedis
  <2>4. ASSUME NEW v \in Nat, NEW w \in Nat, Covered(Visible(q)', v, w),
               known' = [known EXCEPT ![q] = Adopted(q, v)],
               told' = [told EXCEPT ![q] = Greater(@, w)]
        PROVE  Covered(Visible(q)', known'[q], told'[q])
    <3>1. known'[q] = Greater(known[q], v) /\ told'[q] = Greater(told[q], w)
      BY <2>4 DEF CacheTypeOK, Adopted
    <3>2. known'[q] >= known[q] /\ known'[q] >= v
      BY <1>1, <3>1, NumbersTyped
    <3>3. told'[q] \in {told[q], w}
      BY <3>1 DEF Greater
    <3>4. Covered(Visible(q)', known'[q], told[q])
      BY <1>1, <1>2, <1>3, <3>2, CoveredNext
    <3>5. \A e \in Visible(q)' : e.ver \in Int
      <4>1. (CacheTypeOK => \A p \in Procs : \A e \in Visible(p) : e.ver \in Int /\ e.val \in Nat)'
        BY VisibleTyped, PTL
      <4> QED
        BY <4>1
    <3>6. Covered(Visible(q)', known'[q], w)
      BY <1>1, <2>4, <3>2, <3>5 DEF Covered
    <3> QED
      BY <3>3, <3>4, <3>6
  <2>5. CASE Publish(q)
    <3>1. /\ known' = [known EXCEPT ![q] = Adopted(q, reset[q].ver)]
          /\ told' = [told EXCEPT ![q] = Greater(@, reset[q].write)]
          /\ reset[q].stage = "counted"
      BY <2>5 DEF Publish
    <3> QED
      BY <1>1, <1>5, <2>4, <3>1
  <2>6. CASE Hear(q)
    <3>1. PICK m \in mail[q] :
              /\ known' = [known EXCEPT ![q] = Adopted(q, m.ver)]
              /\ told' = [told EXCEPT ![q] = Greater(@, m.write)]
      BY <2>6 DEF Hear
    <3> QED
      BY <1>1, <1>4, <2>4, <3>1
  <2>7. CASE told'[q] = 0
    <3>1. (CacheTypeOK => \A p \in Procs : \A e \in Visible(p) : e.ver \in Int /\ e.val \in Nat)'
      BY VisibleTyped, PTL
    <3> QED
      BY <2>7, <3>1 DEF Covered
  <2> QED
    BY <2>1, <2>2, <2>3, <2>5, <2>6, <2>7, ToldNext
<1> QED
  BY <1>6, <1>7, <1>8

LEMMA PromisedStep ==
    ASSUME CacheTypeOK, CacheTypeOK', ~Flaky, FreshInv, [Next]_vars
    PROVE  Promised'
<1> USE DEF FreshInv
<1> SUFFICES ASSUME NEW r \in Readers, screen'[r].stage = "wait", ~screen'[r].joined
             PROVE  /\ work'[Home[r]].stage = "shared" =>
                           Covered(Visible(Home[r])', work'[Home[r]].ver, screen'[r].need)
                    /\ HasResult(Home[r])' => work'[Home[r]].val >= screen'[r].need
  BY DEF Promised
<1> DEFINE p == Home[r]
<1>1. p \in Procs
  BY CacheConstants
<1>2. /\ data \in Nat /\ told[p] \in Nat /\ known[p] \in Nat \cup {Unknown} /\ known[p] \in Int
      /\ known'[p] \in Nat \cup {Unknown} /\ known'[p] \in Int
      /\ screen[r].need \in Nat /\ work[p].ver \in Nat /\ work[p].val \in Nat
      /\ told[p] <= data /\ screen[r].need <= data
  BY <1>1 DEF CacheTypeOK, Screen, Work, Unknown, Committed
<1>3. screen[r].stage = "wait" => work[p].stage # "none"
  BY DEF Waiting
<1>4. screen[r].stage = "wait" /\ ~screen[r].joined =>
          /\ work[p].stage = "shared" => Covered(Visible(p), work[p].ver, screen[r].need)
          /\ HasResult(p) => work[p].val >= screen[r].need
  BY DEF Promised
\* The screen waits on, for a calculation that stays as it is.
<1>5. ASSUME screen'[r] = screen[r], work'[p] = work[p]
      PROVE  /\ work'[p].stage = "shared" =>
                    Covered(Visible(p)', work'[p].ver, screen'[r].need)
             /\ HasResult(p)' => work'[p].val >= screen'[r].need
  <2>1. ASSUME work[p].stage = "shared"
        PROVE  Covered(Visible(p)', work[p].ver, screen[r].need)
    <3>1. Covered(Visible(p), work[p].ver, screen[r].need)
      BY <1>4, <1>5, <2>1
    <3>2. /\ work[p].ver \in Int /\ work[p].ver <= work[p].ver
          /\ screen[r].need <= screen[r].need
      BY <1>2
    <3> QED
      BY <1>1, <1>2, <3>1, <3>2, CoveredNext
  <2>2. HasResult(p)' = HasResult(p)
    BY <1>5 DEF HasResult
  <2> QED
    BY <1>4, <1>5, <2>1, <2>2
<1> DEFINE Goal == /\ work'[p].stage = "shared" =>
                          Covered(Visible(p)', work'[p].ver, screen'[r].need)
                   /\ HasResult(p)' => work'[p].val >= screen'[r].need
<1>6. ASSUME NEW t \in Readers, Ask(t) \/ FetchVersion(t)
      PROVE  Goal
  <2>1. CASE t # r
    <3>1. screen'[r] = screen[r]
      BY <1>6, <2>1, AskEffect
    <3>2. work'[p] = work[p]
      BY <1>1, <1>3, <1>6, <3>1, AskWork DEF NoWork
    <3> QED
      BY <1>5, <3>1, <3>2
  <2>2. CASE t = r
    <3> DEFINE g == Greater(known'[p], 0)
    <3>1. /\ screen'[r].need \in {told[p], screen[r].need}
          /\ screen'[r].need = told[p] \/ screen[r].stage = "version"
          /\ work[p] = NoWork
          /\ work'[p] = [stage |-> "shared", ver |-> g, val |-> 0]
          /\ known'[p] >= known[p]
      BY <1>6, <2>2, AskEffect
    <3>2. g \in Nat /\ g >= known[p]
      <4>1. g \in Nat /\ g >= known'[p]
        BY <1>2, NumbersTyped
      <4> QED
        BY <1>2, <3>1, <4>1
    <3> HIDE DEF g
    <3>3. screen'[r].need \in Nat /\ screen'[r].need <= told[p]
      BY <1>2, <3>1 DEF Waiting
    <3>4. Covered(Visible(p), known[p], told[p])
      BY <1>1 DEF Announced
    <3>5. Covered(Visible(p)', g, screen'[r].need)
      BY <1>1, <1>2, <3>2, <3>3, <3>4, CoveredNext
    <3> QED
      BY <3>1, <3>5 DEF HasResult
  <2> QED
    BY <2>1, <2>2
<1>7. ASSUME NEW q \in Procs, ReadShared(q)
      PROVE  Goal
  <2>1. screen' = screen
    BY <1>7 DEF ReadShared
  <2>2. CASE q # p
    <3>1. work'[p] = work[p]
      BY <1>1, <1>7, <2>2 DEF ReadShared, CacheTypeOK
    <3> QED
      BY <1>5, <2>1, <3>1
  <2>3. CASE q = p
    <3>1. Covered(Visible(p), work[p].ver, screen[r].need)
      BY <1>4, <1>7, <2>1, <2>3 DEF ReadShared
    <3>2. CASE avail[p] /\ Usable(redis.entry, work[p].ver)
      <4>1. /\ work'[p].stage = "found"
            /\ work'[p].val = redis.entry.val
        BY <1>1, <1>7, <2>3, <3>2 DEF ReadShared, CacheTypeOK
      <4>2. redis.entry \in Visible(p)
        BY <3>2 DEF Visible
      <4>3. redis.entry.val >= screen[r].need
        BY <3>1, <3>2, <4>2 DEF Covered, Usable
      <4> QED
        BY <2>1, <4>1, <4>3
    <3>3. CASE ~(avail[p] /\ Usable(redis.entry, work[p].ver))
      <4>1. work'[p].stage = "query"
        BY <1>1, <1>7, <2>3, <3>3 DEF ReadShared, CacheTypeOK, Work
      <4> QED
        BY <4>1 DEF HasResult
    <3> QED
      BY <3>2, <3>3
  <2> QED
    BY <2>2, <2>3
<1>8. ASSUME NEW q \in Procs, Query(q)
      PROVE  Goal
  <2>1. screen' = screen
    BY <1>8 DEF Query
  <2>2. CASE q # p
    <3>1. work'[p] = work[p]
      BY <1>1, <1>8, <2>2 DEF Query, CacheTypeOK
    <3> QED
      BY <1>5, <2>1, <3>1
  <2>3. CASE q = p
    <3>1. work'[p].stage = "ready" /\ work'[p].val = data
      BY <1>1, <1>8, <2>3 DEF Query, CacheTypeOK, Work
    <3> QED
      BY <1>2, <2>1, <3>1
  <2> QED
    BY <2>2, <2>3
<1>9. ASSUME NEW q \in Procs, UseShared(q) \/ QueryFails(q) \/ Finish(q) \/ Restart(q)
      PROVE  Goal
  <2>1. screen'[r] = screen[r] /\ p # q
    BY <1>9 DEF UseShared, QueryFails, Finish, Restart, Served, Dropped, Shows
  <2>2. work'[p] = work[p]
    BY <1>1, <1>9, <2>1 DEF UseShared, QueryFails, Finish, Restart, CacheTypeOK
  <2> QED
    BY <1>5, <2>1, <2>2
<1>10. ASSUME NEW q \in Procs, Commit(q) \/ Bump(q) \/ Count(q) \/ Publish(q) \/ Hear(q)
                               \/ Miss(q) \/ Expire(q)
       PROVE  Goal
  <2>1. screen' = screen /\ work' = work
    BY <1>10 DEF Commit, Bump, Count, Publish, Hear, Miss, Expire
  <2> QED
    BY <1>5, <2>1
<1>11. CASE ExpireShared \/ UNCHANGED vars
  <2>1. screen' = screen /\ work' = work
    BY <1>11 DEF ExpireShared, vars
  <2> QED
    BY <1>5, <2>1
<1> QED
  BY <1>6, <1>7, <1>8, <1>9, <1>10, <1>11 DEF Next, Breaker

LEMMA FreshStep ==
    ~Flaky /\ CacheTypeOK /\ CacheTypeOK' /\ FreshInv /\ [Next]_vars => FreshInv'
<1> SUFFICES ASSUME ~Flaky, CacheTypeOK, CacheTypeOK', FreshInv, [Next]_vars
             PROVE  FreshInv'
  OBVIOUS
<1>1. OneRedis' /\ NoRedis'
  BY NoRedisStep DEF FreshInv
<1>2. Waiting'
  BY WaitingStep DEF FreshInv
<1>3. Committed'
  BY CommittedStep DEF FreshInv
<1>4. Numbers'
  BY NumbersStep DEF FreshInv
<1>5. Counted'
  BY CountedStep DEF FreshInv
<1>6. Announced' /\ Promised'
  BY AnnouncedStep, PromisedStep
<1> QED
  BY <1>1, <1>2, <1>3, <1>4, <1>5, <1>6 DEF FreshInv

\* With Redis there for all processes or for none, the invariant holds.
LEMMA FreshInvariant == ~Flaky => (Init /\ [][Next]_vars => []FreshInv)
<1> SUFFICES ASSUME ~Flaky
             PROVE  Init /\ [][Next]_vars => []FreshInv
  OBVIOUS
<1>1. Init /\ [][Next]_vars => []CacheTypeOK
  BY TypeInit, TypeStep, PTL
<1>2. Init => FreshInv
  BY FreshInit
<1>3. CacheTypeOK /\ CacheTypeOK' /\ FreshInv /\ [Next]_vars => FreshInv'
  BY FreshStep
<1> QED
  BY <1>1, <1>2, <1>3, PTL

---------------------------------------------------------------------------
(* Freshness *)

LEMMA HitFollows ==
    ASSUME CacheTypeOK, ~Flaky => FreshInv
    PROVE  HitIsFresh
<1> SUFFICES ASSUME ~Flaky, NEW p \in Procs, mem[p].ver # Unknown, mem[p].ver = known[p]
             PROVE  mem[p].val >= told[p]
  BY DEF HitIsFresh
<1>1. Covered(Visible(p), known[p], told[p])
  BY DEF FreshInv, Announced
<1>2. mem[p] \in Visible(p)
  BY DEF Visible, Own
<1>3. known[p] \in Int
  BY DEF CacheTypeOK, Unknown
<1> QED
  BY <1>1, <1>2, <1>3 DEF Covered

\* While Redis is there for all processes or for none, what a process answers
\* from its memory at once shows every write it was told of (report-cache.ts,
\* get and produce), for any processes, screens, writes and restarts.
THEOREM HitsAreFresh == Spec => []HitIsFresh
<1>1. Init /\ [][Next]_vars => []CacheTypeOK
  BY TypeInit, TypeStep, PTL
<1>2. CASE Flaky
  <2>1. CacheTypeOK => HitIsFresh
    BY <1>2, HitFollows
  <2> QED
    BY <1>1, <2>1, PTL DEF Spec
<1>3. CASE ~Flaky
  <2>1. Init /\ [][Next]_vars => []FreshInv
    BY <1>3, FreshInvariant
  <2>2. CacheTypeOK /\ FreshInv => HitIsFresh
    BY HitFollows
  <2> QED
    BY <1>1, <2>1, <2>2, PTL DEF Spec
<1> QED
  BY <1>2, <1>3

\* The body of ReadIsFresh.
FreshAnswers == \A p \in Procs : UseShared(p) \/ Finish(p) =>
    \A r \in Answering(p) :
        ~Flaky /\ ~screen[r].joined => screen'[r].seen >= screen[r].need

LEMMA AnswersFresh ==
    ASSUME CacheTypeOK, FreshInv
    PROVE  FreshAnswers
<1> SUFFICES ASSUME NEW p \in Procs, UseShared(p) \/ Finish(p), NEW r \in Answering(p),
                    ~screen[r].joined
             PROVE  screen'[r].seen >= screen[r].need
  BY DEF FreshAnswers
<1>1. HasResult(p)
  BY DEF UseShared, Finish, HasResult
<1>2. r \in Readers /\ Home[r] = p /\ screen[r].stage = "wait"
  BY DEF Answering
<1>3. screen'[r].seen = work[p].val
  BY <1>2 DEF UseShared, Finish, Served, Shows
<1> QED
  BY <1>1, <1>2, <1>3 DEF FreshInv, Promised

\* While Redis is there for all processes or for none, a screen that started
\* the calculation is answered with every write its process had been told of
\* when it asked (report-cache.ts, get, produce and fetchVersion).
THEOREM ReadsAreFresh == Spec => ReadIsFresh
<1>1. Init /\ [][Next]_vars => []CacheTypeOK
  BY TypeInit, TypeStep, PTL
<1>2. CASE Flaky
  <2>1. FreshAnswers
    BY <1>2 DEF FreshAnswers
  <2>2. [FreshAnswers]_vars
    BY <2>1
  <2> QED
    BY <2>2, PTL DEF ReadIsFresh, FreshAnswers
<1>3. CASE ~Flaky
  <2>1. Init /\ [][Next]_vars => []FreshInv
    BY <1>3, FreshInvariant
  <2>2. CacheTypeOK /\ FreshInv => [FreshAnswers]_vars
    BY AnswersFresh
  <2>3. Spec => [][FreshAnswers]_vars
    BY <1>1, <2>1, <2>2, PTL DEF Spec
  <2> QED
    BY <2>3 DEF ReadIsFresh, FreshAnswers
<1> QED
  BY <1>2, <1>3
=============================================================================
