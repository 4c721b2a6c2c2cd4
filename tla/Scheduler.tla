----------------------------- MODULE Scheduler -----------------------------
(***************************************************************************)
(* The daily jobs of cron/scheduler.ts in the replicas of the server: the  *)
(* tick, the memory of a replica and the marks in cron_runs, the catch-up, *)
(* the lock of a job, its run and the record of its success.               *)
(*                                                                         *)
(* Moments are counted in appointed times: a moment is known by the last   *)
(* appointed time of the job that is not later.  What the code compares    *)
(* with a length of time (the minute, the window of catchUpHours, the hour *)
(* between attempts) ends by an action of its own, at any moment.          *)
(*                                                                         *)
(* stopScheduler lets a replica finish its job and take no other one: it   *)
(* is Crash before Look.                                                   *)
(***************************************************************************)
EXTENDS Naturals

CONSTANTS
    JobCount,   \* daily jobs, numbered in the order of the list
    Replicas,   \* server processes
    Nobody,     \* holds a lock that is free
    MaxSlot,    \* bound on the appointed times of a job
    MaxCrashes, \* bound on the crashes of replicas
    MaxErrors   \* bound on the commands the database fails

ASSUME SchedulerConstants ==
    /\ JobCount \in Nat \ {0} /\ MaxSlot \in Nat \ {0}
    /\ MaxCrashes \in Nat /\ MaxErrors \in Nat
    /\ Nobody \notin Replicas

VARIABLES
    slot,      \* the last appointed time of a job; 1 was yesterday
    window,    \* it is the minute of that time, or catch-up is open, or shut
    mark,      \* cron_runs.lastSuccessAt; 0 is none
    replica,   \* what a server process does and remembers
    lock,      \* who holds the lock of a job
    crashes, errors,
    runs,      \* history: how often a job was run to its end for a time
    lost       \* history: how often a crash or the database hid a success

vars == <<slot, window, mark, replica, lock, crashes, errors, runs, lost>>

Jobs == 1..JobCount
Slot == 0..MaxSlot
Window == {"minute", "open", "shut"}
Locked == {"check", "run", "save", "release"}

Stage == {"down", "rest", "look", "lock", "check", "run", "save", "release"}
Pause == {"never", "recent", "old"}

Replica == [stage: Stage,
            loaded: BOOLEAN,            \* stateLoaded
            success: [Jobs -> Slot],    \* lastSuccess; 0 is none
            attempt: [Jobs -> Pause],   \* lastAttempt
            minute: [Jobs -> Slot],     \* lastRun: the minute already taken
            nowSlot: [Jobs -> Slot],    \* "now" of the tick
            nowWindow: [Jobs -> Window],
            job: Jobs,                  \* the job the tick is at
            due: Slot,                  \* the time it is to run for
            tries: 0..3]                \* attempts to record the success

Down == [stage |-> "down", loaded |-> FALSE,
         success |-> [j \in Jobs |-> 0], attempt |-> [j \in Jobs |-> "never"],
         minute |-> [j \in Jobs |-> 0], nowSlot |-> [j \in Jobs |-> 0],
         nowWindow |-> [j \in Jobs |-> "shut"], job |-> 1, due |-> 0, tries |-> 0]

SchedulerTypeOK ==
    /\ slot \in [Jobs -> 1..MaxSlot]
    /\ window \in [Jobs -> Window]
    /\ mark \in [Jobs -> Slot]
    /\ replica \in [Replicas -> Replica]
    /\ lock \in [Jobs -> Replicas \cup {Nobody}]
    /\ crashes \in Nat /\ errors \in Nat
    /\ runs \in [Jobs -> [1..MaxSlot -> Nat]]
    /\ lost \in [Jobs -> Nat]

\* A job is new, or was done yesterday.
Init ==
    /\ slot = [j \in Jobs |-> 1]
    /\ window = [j \in Jobs |-> "shut"]
    /\ mark \in [Jobs -> {0, 1}]
    /\ replica = [r \in Replicas |-> Down]
    /\ lock = [j \in Jobs |-> Nobody]
    /\ crashes = 0 /\ errors = 0
    /\ runs = [j \in Jobs |-> [n \in 1..MaxSlot |-> 0]]
    /\ lost = [j \in Jobs |-> 0]

---------------------------------------------------------------------------

\* The replica knows something of the job: a success, or its own attempt.
Known(p, j) == p.loaded /\ (p.success[j] > 0 \/ p.attempt[j] # "never")

\* dueSlot: within the window, no success since, no attempt within the hour.
DueSlot(p, j) == /\ p.nowWindow[j] # "shut"
                 /\ p.success[j] < p.nowSlot[j]
                 /\ p.attempt[j] # "recent"

ExactMinute(p, j) == p.nowWindow[j] = "minute" /\ p.minute[j] # p.nowSlot[j]

\* Mutant of Done: memory alone decides, as it did when the job was found due.
DoneInMemory(r, j) == replica[r].success[j] >= replica[r].due

\* Under the lock the mark in the database decides.
Done(r, j) == mark[j] >= replica[r].due

\* A success is dated by the end of the run.
EndedAt(r) == slot[replica[r].job]

\* loadState: the marks replace what the replica remembers.
Loaded(p) == [p EXCEPT !.loaded = TRUE,
    !.success = [j \in Jobs |-> IF mark[j] # 0 THEN mark[j] ELSE p.success[j]]]

\* Mutant of Onward: the list has one job more than it has.
PastTheEnd(p) == IF p.job <= JobCount
    THEN [p EXCEPT !.stage = "look", !.job = @ + 1, !.due = 0, !.tries = 0]
    ELSE [p EXCEPT !.stage = "rest", !.job = 1]

\* On to the next job of the tick, or to the end of the tick.
Onward(p) == IF p.job < JobCount
    THEN [p EXCEPT !.stage = "look", !.job = @ + 1, !.due = 0, !.tries = 0]
    ELSE [p EXCEPT !.stage = "rest", !.job = 1, !.due = 0, !.tries = 0,
                   !.nowSlot = Down.nowSlot, !.nowWindow = Down.nowWindow]

Becomes(r, p) == replica' = [replica EXCEPT ![r] = p]

\* A command the database refuses, or a connection it does not give.
Fails == errors < MaxErrors /\ errors' = errors + 1

Works == UNCHANGED errors

---------------------------------------------------------------------------
(* Time *)

\* The appointed times of a day come in the order of the list.
Appointed(j) ==
    /\ slot[j] < MaxSlot /\ window[j] # "minute"
    /\ \A i \in Jobs : IF i < j THEN slot[i] = slot[j] + 1 ELSE slot[i] = slot[j]
    /\ slot' = [slot EXCEPT ![j] = @ + 1]
    /\ window' = [window EXCEPT ![j] = "minute"]
    /\ UNCHANGED <<mark, replica, lock, crashes, errors, runs, lost>>

MinutePasses(j) ==
    /\ window[j] = "minute"
    /\ window' = [window EXCEPT ![j] = "open"]
    /\ UNCHANGED <<slot, mark, replica, lock, crashes, errors, runs, lost>>

WindowShuts(j) ==
    /\ window[j] = "open"
    /\ window' = [window EXCEPT ![j] = "shut"]
    /\ UNCHANGED <<slot, mark, replica, lock, crashes, errors, runs, lost>>

HourPasses(r, j) ==
    /\ replica[r].attempt[j] = "recent"
    /\ Becomes(r, [replica[r] EXCEPT !.attempt[j] = "old"])
    /\ UNCHANGED <<slot, window, mark, lock, crashes, errors, runs, lost>>

---------------------------------------------------------------------------
(* A replica *)

\* startScheduler; the marks that cannot be read are read at the next tick.
Start(r) ==
    /\ replica[r].stage = "down"
    /\ LET up == [replica[r] EXCEPT !.stage = "rest"] IN
       \/ Works /\ Becomes(r, Loaded(up))
       \/ Fails /\ Becomes(r, up)
    /\ UNCHANGED <<slot, window, mark, lock, crashes, runs, lost>>

\* tick: while one is at work the next one does nothing.
Tick(r) ==
    /\ replica[r].stage = "rest"
    /\ LET p == [replica[r] EXCEPT !.stage = "look", !.nowSlot = slot, !.nowWindow = window] IN
       \/ Works /\ Becomes(r, IF p.loaded THEN p ELSE Loaded(p))
       \/ ~p.loaded /\ Fails /\ Becomes(r, p)
    /\ UNCHANGED <<slot, window, mark, lock, crashes, runs, lost>>

\* The tick decides about one job; an attempt counts from here.
Look(r) ==
    LET p == replica[r]
        j == p.job
        exact == ~Known(p, j) /\ ExactMinute(p, j)
        seen == [p EXCEPT !.minute[j] = IF exact THEN p.nowSlot[j] ELSE @]
    IN  /\ p.stage = "look"
        /\ Becomes(r, IF exact \/ (Known(p, j) /\ DueSlot(p, j))
                      THEN [seen EXCEPT !.stage = "lock", !.due = p.nowSlot[j],
                                        !.attempt[j] = "recent"]
                      ELSE Onward(p))
        /\ UNCHANGED <<slot, window, mark, lock, crashes, errors, runs, lost>>

\* A connection and GET_LOCK(name, 0): no waiting for a lock that is taken.
Lock(r) ==
    LET p == replica[r] IN
    /\ p.stage = "lock"
    /\ \/ /\ lock[p.job] = Nobody /\ Works
          /\ lock' = [lock EXCEPT ![p.job] = r]
          /\ Becomes(r, [p EXCEPT !.stage = "check"])
       \/ lock[p.job] # Nobody /\ Works /\ Becomes(r, Onward(p)) /\ UNCHANGED lock
       \/ Fails /\ Becomes(r, Onward(p)) /\ UNCHANGED lock
    /\ UNCHANGED <<slot, window, mark, crashes, runs, lost>>

\* The mark is read again under the lock; if it cannot be read, the job runs.
Check(r) ==
    LET p == replica[r]
        j == p.job
    IN  /\ p.stage = "check"
        /\ \/ /\ Works /\ UNCHANGED lost
              /\ Becomes(r, IF Done(r, j)
                            THEN [p EXCEPT !.stage = "release", !.success[j] = mark[j]]
                            ELSE [p EXCEPT !.stage = "run"])
           \/ /\ Fails
              /\ lost' = [lost EXCEPT ![j] = IF mark[j] >= p.due THEN @ + 1 ELSE @]
              /\ Becomes(r, [p EXCEPT !.stage = "run"])
        /\ UNCHANGED <<slot, window, mark, lock, crashes, runs>>

\* The run ends well: the replica remembers it first, then records it.
RunSucceeds(r) ==
    LET p == replica[r] IN
    /\ p.stage = "run"
    /\ Becomes(r, [p EXCEPT !.stage = "save", !.success[p.job] = EndedAt(r), !.tries = 1])
    /\ runs' = [runs EXCEPT ![p.job][p.due] = @ + 1]
    /\ UNCHANGED <<slot, window, mark, lock, crashes, errors, lost>>

\* The run throws: the failure is recorded, the mark of success stays.
RunFails(r) ==
    /\ replica[r].stage = "run"
    /\ Becomes(r, [replica[r] EXCEPT !.stage = "release"])
    /\ UNCHANGED <<slot, window, mark, lock, crashes, errors, runs, lost>>

\* Three attempts to record the success.
Save(r) ==
    LET p == replica[r]
        j == p.job
    IN  /\ p.stage = "save"
        /\ \/ /\ Works /\ UNCHANGED lost
              /\ mark' = [mark EXCEPT ![j] = p.success[j]]
              /\ Becomes(r, [p EXCEPT !.stage = "release"])
           \/ /\ p.tries < 3 /\ Fails /\ UNCHANGED <<mark, lost>>
              /\ Becomes(r, [p EXCEPT !.tries = @ + 1])
           \/ /\ p.tries = 3 /\ Fails /\ UNCHANGED mark
              /\ lost' = [lost EXCEPT ![j] = @ + 1]
              /\ Becomes(r, [p EXCEPT !.stage = "release"])
        /\ UNCHANGED <<slot, window, lock, crashes, runs>>

Release(r) ==
    /\ replica[r].stage = "release"
    /\ lock' = [lock EXCEPT ![replica[r].job] = Nobody]
    /\ Becomes(r, Onward(replica[r]))
    /\ UNCHANGED <<slot, window, mark, crashes, errors, runs, lost>>

\* Mutant of Freed: a lock outlives the process that took it.
StillHeld(r) == lock

\* The lock belongs to the connection and ends with it.
Freed(r) == [j \in Jobs |-> IF lock[j] = r THEN Nobody ELSE lock[j]]

\* The process dies, between any two steps; its memory is gone.
Crash(r) ==
    /\ replica[r].stage # "down"
    /\ crashes < MaxCrashes
    /\ crashes' = crashes + 1
    /\ Becomes(r, Down)
    /\ lock' = Freed(r)
    /\ lost' = [lost EXCEPT ![replica[r].job] =
                   IF replica[r].stage = "save" THEN @ + 1 ELSE @]
    /\ UNCHANGED <<slot, window, mark, errors, runs>>

Next ==
    \/ \E j \in Jobs :
          \/ Appointed(j) \/ MinutePasses(j) \/ WindowShuts(j)
          \/ \E r \in Replicas : HourPasses(r, j)
    \/ \E r \in Replicas :
          \/ Start(r) \/ Tick(r) \/ Look(r) \/ Lock(r) \/ Check(r)
          \/ RunSucceeds(r) \/ RunFails(r) \/ Save(r) \/ Release(r) \/ Crash(r)

\* Processes are started again, the timer ticks, hours pass, the code goes on,
\* and a job that is tried again and again succeeds at last.
SchedulerFairness ==
    \A r \in Replicas :
        /\ WF_vars(Start(r)) /\ WF_vars(Tick(r)) /\ WF_vars(Look(r)) /\ WF_vars(Lock(r))
        /\ WF_vars(Check(r)) /\ SF_vars(RunSucceeds(r)) /\ WF_vars(Save(r))
        /\ WF_vars(Release(r))
        /\ \A j \in Jobs : WF_vars(HourPasses(r, j))

Spec == Init /\ [][Next]_vars /\ SchedulerFairness

---------------------------------------------------------------------------
(* Properties *)

\* A job is run again for a time it was already run for ("a second copy for
\* every recipient", scheduler.ts) only if a crash between the run and its
\* record, or the database, hid the success: however many replicas catch up,
\* fail, start and forget.
NoSecondCopy == \A j \in Jobs : \A n \in 1..MaxSlot : runs[j][n] <= 1 + lost[j]

\* A daily job that has succeeded once is run for each appointed time: as long
\* as its window is open and no later time has come, crashes, failed runs and a
\* failing database only delay it (the catch-up of scheduler.ts).
CatchesUp == \A j \in Jobs : \A n \in 2..MaxSlot :
    (slot[j] = n /\ mark[j] \in 1..(n - 1) /\ window[j] # "shut")
        ~> (mark[j] >= n \/ slot[j] > n \/ window[j] = "shut")
============================================================================
