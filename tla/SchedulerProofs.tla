-------------------------- MODULE SchedulerProofs --------------------------
(* Proofs about Scheduler: types, and no second copy of a job. *)
EXTENDS Scheduler, TLAPS

---------------------------------------------------------------------------
(* Types *)

LEMMA Members ==
    /\ "rest" \in Stage /\ "look" \in Stage /\ "lock" \in Stage /\ "check" \in Stage
    /\ "run" \in Stage /\ "save" \in Stage /\ "release" \in Stage /\ "down" \in Stage
    /\ "never" \in Pause /\ "recent" \in Pause /\ "old" \in Pause
    /\ "minute" \in Window /\ "open" \in Window /\ "shut" \in Window
    /\ 0 \in Slot /\ 1 \in Slot /\ 1..MaxSlot \subseteq Slot /\ 1 \in 1..MaxSlot
    /\ 1 \in Jobs /\ \A j \in Jobs : j < JobCount => j + 1 \in Jobs
    /\ 0 \in 0..3 /\ 1 \in 0..3 /\ \A t \in 0..3 : t < 3 => t + 1 \in 0..3
BY SchedulerConstants DEF Stage, Pause, Window, Slot, Jobs

LEMMA OnwardType ==
    ASSUME NEW p \in Replica
    PROVE  Onward(p) \in Replica
<1> DEFINE look == [p EXCEPT !.stage = "look", !.job = p.job + 1, !.due = 0, !.tries = 0]
           rest == [p EXCEPT !.stage = "rest", !.job = 1, !.due = 0, !.tries = 0,
                             !.nowSlot = Down.nowSlot, !.nowWindow = Down.nowWindow]
<1>1. p.job \in Jobs
  BY DEF Replica
<1>2. ASSUME p.job < JobCount PROVE look \in Replica
  <2>1. p.job + 1 \in Jobs
    BY <1>1, <1>2, Members
  <2> QED BY <2>1, Members DEF Replica
<1>3. rest \in Replica
  <2>1. Down.nowSlot \in [Jobs -> Slot] /\ Down.nowWindow \in [Jobs -> Window]
    BY Members DEF Down
  <2> QED BY <2>1, Members DEF Replica
<1>4. Onward(p) = IF p.job < JobCount THEN look ELSE rest
  BY DEF Onward
<1> HIDE DEF look, rest
<1> QED BY <1>2, <1>3, <1>4

LEMMA LoadedType ==
    ASSUME NEW p \in Replica, mark \in [Jobs -> Slot]
    PROVE  Loaded(p) \in Replica
BY DEF Loaded, Replica

LEMMA DownType == Down \in Replica
BY Members DEF Down, Replica

LEMMA BecomesType ==
    ASSUME SchedulerTypeOK, NEW r \in Replicas, NEW p \in Replica, Becomes(r, p)
    PROVE  replica' \in [Replicas -> Replica]
BY DEF SchedulerTypeOK, Becomes

LEMMA ErrorsType ==
    ASSUME SchedulerTypeOK, Works \/ Fails
    PROVE  errors' \in Nat
BY DEF SchedulerTypeOK, Works, Fails

LEMMA RowType ==
    ASSUME NEW S, NEW f \in [S -> Nat], NEW d
    PROVE  [f EXCEPT ![d] = f[d] + 1] \in [S -> Nat]
<1>1. CASE d \in S
  <2>1. f[d] + 1 \in Nat
    BY <1>1
  <2> QED BY <2>1
<1>2. CASE d \notin S
  <2>1. [f EXCEPT ![d] = f[d] + 1] = f
    BY <1>2
  <2> QED BY <2>1
<1> QED BY <1>1, <1>2

LEMMA InitType == Init => SchedulerTypeOK
<1> SUFFICES ASSUME Init PROVE SchedulerTypeOK
  OBVIOUS
<1>1. Down \in Replica
  BY DownType
<1>2. mark \in [Jobs -> Slot]
  BY Members DEF Init
<1> QED BY <1>1, <1>2, Members DEF Init, SchedulerTypeOK

\* Time changes the appointed times, their windows and the pauses.
LEMMA TimeType ==
    ASSUME SchedulerTypeOK, NEW j \in Jobs,
           \/ Appointed(j) \/ MinutePasses(j) \/ WindowShuts(j)
           \/ \E r \in Replicas : HourPasses(r, j)
    PROVE  SchedulerTypeOK'
<1> USE DEF SchedulerTypeOK
<1>1. CASE Appointed(j)
  <2>1. slot[j] + 1 \in 1..MaxSlot
    BY <1>1, SchedulerConstants DEF Appointed
  <2> QED BY <1>1, <2>1, Members DEF Appointed
<1>2. CASE MinutePasses(j) \/ WindowShuts(j)
  BY <1>2, Members DEF MinutePasses, WindowShuts
<1>3. CASE \E r \in Replicas : HourPasses(r, j)
  <2> PICK r \in Replicas : HourPasses(r, j)
    BY <1>3
  <2> DEFINE p == replica[r]
  <2>0. p \in Replica
    OBVIOUS
  <2>1. [p EXCEPT !.attempt[j] = "old"] \in Replica
    <3>1. [p.attempt EXCEPT ![j] = "old"] \in [Jobs -> Pause]
      BY <2>0, Members DEF Replica
    <3> QED BY <2>0, <3>1 DEF Replica
  <2> QED BY <2>1, BecomesType DEF HourPasses
<1> QED BY <1>1, <1>2, <1>3

LEMMA StepType ==
    ASSUME SchedulerTypeOK, NEW r \in Replicas,
           \/ Start(r) \/ Tick(r) \/ Look(r) \/ Lock(r) \/ Check(r)
           \/ RunSucceeds(r) \/ RunFails(r) \/ Save(r) \/ Release(r) \/ Crash(r)
    PROVE  SchedulerTypeOK'
<1> DEFINE p == replica[r]
           j == p.job
<1>0. /\ p \in Replica /\ j \in Jobs /\ p.due \in Slot /\ p.tries \in 0..3
      /\ slot \in [Jobs -> Slot] /\ slot \in [Jobs -> 1..MaxSlot]
      /\ window \in [Jobs -> Window] /\ mark \in [Jobs -> Slot]
      /\ lock \in [Jobs -> Replicas \cup {Nobody}] /\ lost \in [Jobs -> Nat]
      /\ runs \in [Jobs -> [1..MaxSlot -> Nat]] /\ crashes \in Nat /\ errors \in Nat
  BY Members DEF SchedulerTypeOK, Replica
<1>1. CASE Start(r)
  <2>1. [p EXCEPT !.stage = "rest"] \in Replica
    BY <1>0, Members DEF Replica
  <2>2. Loaded([p EXCEPT !.stage = "rest"]) \in Replica
    BY <1>0, <2>1, LoadedType
  <2>3. replica' \in [Replicas -> Replica] /\ errors' \in Nat
    BY <1>1, <2>1, <2>2, BecomesType, ErrorsType DEF Start
  <2> QED BY <1>1, <2>3 DEF Start, SchedulerTypeOK
<1>2. CASE Tick(r)
  <2> DEFINE t == [p EXCEPT !.stage = "look", !.nowSlot = slot, !.nowWindow = window]
  <2>1. t \in Replica
    BY <1>0, Members DEF Replica
  <2>2. Loaded(t) \in Replica
    BY <1>0, <2>1, LoadedType
  <2>3. replica' \in [Replicas -> Replica] /\ errors' \in Nat
    BY <1>2, <2>1, <2>2, BecomesType, ErrorsType DEF Tick
  <2> QED BY <1>2, <2>3 DEF Tick, SchedulerTypeOK
<1>3. CASE Look(r)
  <2> DEFINE seen == [p EXCEPT !.minute[j] =
                 IF ~Known(p, j) /\ ExactMinute(p, j) THEN p.nowSlot[j] ELSE @]
             wants == [seen EXCEPT !.stage = "lock", !.due = p.nowSlot[j],
                                   !.attempt[j] = "recent"]
  <2>1. seen \in Replica
    BY <1>0, Members DEF Replica
  <2>2. wants \in Replica
    BY <1>0, <2>1, Members DEF Replica
  <2>3. Onward(p) \in Replica
    BY <1>0, OnwardType
  <2>4. replica' \in [Replicas -> Replica]
    BY <1>3, <2>2, <2>3, BecomesType DEF Look
  <2> QED BY <1>3, <2>4 DEF Look, SchedulerTypeOK
<1>4. CASE Lock(r)
  <2>1. [p EXCEPT !.stage = "check"] \in Replica
    BY <1>0, Members DEF Replica
  <2>2. Onward(p) \in Replica
    BY <1>0, OnwardType
  <2>3. replica' \in [Replicas -> Replica] /\ errors' \in Nat
    BY <1>4, <2>1, <2>2, BecomesType, ErrorsType DEF Lock
  <2>4. lock' \in [Jobs -> Replicas \cup {Nobody}]
    BY <1>0, <1>4 DEF Lock
  <2> QED BY <1>4, <2>3, <2>4 DEF Lock, SchedulerTypeOK
<1>5. CASE Check(r)
  <2>1. /\ [p EXCEPT !.stage = "release", !.success[j] = mark[j]] \in Replica
        /\ [p EXCEPT !.stage = "run"] \in Replica
    BY <1>0, Members DEF Replica
  <2>2. replica' \in [Replicas -> Replica] /\ errors' \in Nat
    BY <1>5, <2>1, BecomesType, ErrorsType DEF Check
  <2>3. lost' \in [Jobs -> Nat]
    <3>1. lost[j] + 1 \in Nat
      BY <1>0
    <3>2. lost' = lost \/ \E n \in Nat : lost' = [lost EXCEPT ![j] = n]
      BY <1>0, <3>1, <1>5 DEF Check
    <3> QED BY <1>0, <3>2
  <2> QED BY <1>5, <2>2, <2>3 DEF Check, SchedulerTypeOK
<1>6. CASE RunSucceeds(r)
  <2>1. EndedAt(r) \in Slot
    BY <1>0 DEF EndedAt
  <2>2. [p EXCEPT !.stage = "save", !.success[j] = EndedAt(r), !.tries = 1] \in Replica
    BY <1>0, <2>1, Members DEF Replica
  <2>3. replica' \in [Replicas -> Replica]
    BY <1>6, <2>2, BecomesType DEF RunSucceeds
  <2>4. runs' \in [Jobs -> [1..MaxSlot -> Nat]]
    <3> DEFINE row == [runs[j] EXCEPT ![p.due] = runs[j][p.due] + 1]
    <3>1. runs' = [runs EXCEPT ![j] = row]
      BY <1>6 DEF RunSucceeds
    <3>2. row \in [1..MaxSlot -> Nat]
      BY <1>0, RowType
    <3> HIDE DEF row
    <3> QED BY <1>0, <3>1, <3>2
  <2> QED BY <1>6, <2>3, <2>4 DEF RunSucceeds, SchedulerTypeOK
<1>7. CASE RunFails(r)
  <2>1. [p EXCEPT !.stage = "release"] \in Replica
    BY <1>0, Members DEF Replica
  <2> QED BY <1>7, <2>1, BecomesType DEF RunFails, SchedulerTypeOK
<1>8. CASE Save(r)
  <2>1. [p EXCEPT !.stage = "release"] \in Replica
    BY <1>0, Members DEF Replica
  <2>2. p.tries < 3 => [p EXCEPT !.tries = @ + 1] \in Replica
    BY <1>0, Members DEF Replica
  <2>3. replica' \in [Replicas -> Replica] /\ errors' \in Nat
    BY <1>8, <2>1, <2>2, BecomesType, ErrorsType DEF Save
  <2>4. lost' \in [Jobs -> Nat] /\ p.success[j] \in Slot
    <3>1. p.success[j] \in Slot
      BY <1>0 DEF Replica
    <3>2. lost[j] + 1 \in Nat
      BY <1>0
    <3>3. lost' = lost \/ lost' = [lost EXCEPT ![j] = lost[j] + 1]
      BY <1>8 DEF Save
    <3> QED BY <1>0, <3>1, <3>2, <3>3
  <2>5. mark' \in [Jobs -> Slot]
    BY <1>0, <1>8, <2>4 DEF Save
  <2> QED BY <1>8, <2>3, <2>4, <2>5 DEF Save, SchedulerTypeOK
<1>9. CASE Release(r)
  <2>1. replica' \in [Replicas -> Replica]
    BY <1>0, <1>9, OnwardType, BecomesType DEF Release
  <2> QED BY <1>0, <1>9, <2>1 DEF Release, SchedulerTypeOK
<1>10. CASE Crash(r)
  <2>1. replica' \in [Replicas -> Replica]
    BY <1>10, DownType, BecomesType DEF Crash
  <2>2. lock' \in [Jobs -> Replicas \cup {Nobody}]
    BY <1>0, <1>10 DEF Crash, Freed
  <2>3. lost' \in [Jobs -> Nat] /\ crashes' \in Nat
    BY <1>0, <1>10 DEF Crash
  <2> QED BY <1>10, <2>1, <2>2, <2>3 DEF Crash, SchedulerTypeOK
<1> QED BY <1>1, <1>2, <1>3, <1>4, <1>5, <1>6, <1>7, <1>8, <1>9, <1>10

LEMMA NextType == SchedulerTypeOK /\ [Next]_vars => SchedulerTypeOK'
<1> SUFFICES ASSUME SchedulerTypeOK, [Next]_vars PROVE SchedulerTypeOK'
  OBVIOUS
<1>1. CASE UNCHANGED vars
  BY <1>1 DEF vars, SchedulerTypeOK
<1>2. CASE Next
  BY <1>2, TimeType, StepType DEF Next
<1> QED BY <1>1, <1>2

\* Every variable keeps its type.
THEOREM SchedulerTypes == Spec => []SchedulerTypeOK
<1>1. Init => SchedulerTypeOK
  BY InitType
<1>2. SchedulerTypeOK /\ [Next]_vars => SchedulerTypeOK'
  BY NextType
<1> QED BY <1>1, <1>2, PTL DEF Spec

---------------------------------------------------------------------------
(* No second copy *)

\* A job is run by the replica that holds its lock.
LockInv == \A r \in Replicas :
    replica[r].stage \in Locked => lock[replica[r].job] = r

\* No replica runs for a time that has not come.
DueInv == \A r \in Replicas :
    /\ replica[r].stage \notin {"down", "rest"} =>
          \A j \in Jobs : replica[r].nowSlot[j] \in 1..slot[j]
    /\ replica[r].stage \in Locked \cup {"lock"} =>
          replica[r].due \in 1..slot[replica[r].job]

\* A mark is not of the future.
MarkInv == \A j \in Jobs : mark[j] <= slot[j]

\* A success that is about to be recorded is not older than the mark.
SaveInv == \A r \in Replicas : replica[r].stage = "save" =>
    /\ mark[replica[r].job] <= replica[r].success[replica[r].job]
    /\ replica[r].success[replica[r].job] <= slot[replica[r].job]

\* A job that runs has no success for its time but hidden ones.
RunInv == \A r \in Replicas : replica[r].stage = "run" =>
    runs[replica[r].job][replica[r].due] <= lost[replica[r].job]

\* A success for time n is recorded, or its replica is about to record it.
Covered(j, n) ==
    \/ mark[j] >= n
    \/ \E r \in Replicas : /\ replica[r].stage = "save" /\ replica[r].job = j
                           /\ replica[r].success[j] >= n

\* Every success but the hidden ones is covered, and there is one at most.
CountInv == \A j \in Jobs : \A n \in 1..MaxSlot :
    /\ runs[j][n] <= 1 + lost[j]
    /\ runs[j][n] = 1 + lost[j] => Covered(j, n)

CopyInv == LockInv /\ DueInv /\ MarkInv /\ SaveInv /\ RunInv /\ CountInv

LEMMA Others ==
    ASSUME SchedulerTypeOK, NEW r \in Replicas, NEW p, Becomes(r, p)
    PROVE  replica'[r] = p /\ \A s \in Replicas \ {r} : replica'[s] = replica[s]
BY DEF SchedulerTypeOK, Becomes

LEMMA OnwardFacts ==
    ASSUME NEW p \in Replica
    PROVE  /\ Onward(p).stage \in {"look", "rest"}
           /\ Onward(p).stage = "look" => Onward(p).nowSlot = p.nowSlot
BY DEF Onward, Replica

LEMMA SlotNat == Slot \subseteq Nat /\ 1..MaxSlot \subseteq Nat
BY SchedulerConstants DEF Slot

LEMMA ReplicaNat ==
    ASSUME NEW p \in Replica
    PROVE  /\ p.job \in Jobs /\ p.due \in Nat
           /\ p.nowSlot \in [Jobs -> Nat] /\ p.success \in [Jobs -> Nat]
<1>1. /\ p.job \in Jobs /\ p.due \in Slot
      /\ p.nowSlot \in [Jobs -> Slot] /\ p.success \in [Jobs -> Slot]
  BY DEF Replica
<1> QED BY <1>1, SlotNat

LEMMA InitCopy == Init => CopyInv
<1> SUFFICES ASSUME Init PROVE CopyInv
  OBVIOUS
<1>1. \A r \in Replicas : replica[r].stage = "down"
  BY DEF Init, Down
<1>2. LockInv /\ DueInv /\ SaveInv /\ RunInv
  BY <1>1 DEF LockInv, DueInv, SaveInv, RunInv, Locked
<1>3. MarkInv
  BY DEF Init, MarkInv
<1>4. CountInv
  BY DEF Init, CountInv
<1> QED BY <1>2, <1>3, <1>4 DEF CopyInv

\* A step of r outside the run of a job, which ends outside it.
LEMMA QuietStep ==
    ASSUME SchedulerTypeOK, CopyInv, NEW r \in Replicas, NEW p \in Replica, Becomes(r, p),
           replica[r].stage # "save", p.stage \notin {"run", "save"},
           p.stage \in Locked => lock'[p.job] = r,
           p.stage \notin {"down", "rest"} => \A j \in Jobs : p.nowSlot[j] \in 1..slot[j],
           p.stage \in Locked \cup {"lock"} => p.due \in 1..slot[p.job],
           \A s \in Replicas \ {r} : \A j \in Jobs : lock[j] = s => lock'[j] = s,
           UNCHANGED <<slot, mark, runs, lost>>
    PROVE  CopyInv'
<1>1. replica'[r] = p /\ \A s \in Replicas \ {r} : replica'[s] = replica[s]
  BY Others
<1>2. \A s \in Replicas : replica[s].job \in Jobs
  BY DEF SchedulerTypeOK, Replica
<1>3. LockInv'
  BY <1>1, <1>2 DEF CopyInv, LockInv
<1>4. DueInv'
  BY <1>1 DEF CopyInv, DueInv
<1>5. MarkInv'
  BY DEF CopyInv, MarkInv
<1>6. SaveInv' /\ RunInv'
  BY <1>1 DEF CopyInv, SaveInv, RunInv
<1>7. ASSUME NEW j \in Jobs, NEW n \in 1..MaxSlot, Covered(j, n) PROVE Covered(j, n)'
  BY <1>1, <1>7 DEF Covered
<1>8. CountInv'
  BY <1>7 DEF CopyInv, CountInv
<1> QED BY <1>3, <1>4, <1>5, <1>6, <1>8 DEF CopyInv

LEMMA TimeCopy ==
    ASSUME SchedulerTypeOK, CopyInv, NEW j \in Jobs,
           \/ Appointed(j) \/ MinutePasses(j) \/ WindowShuts(j)
           \/ \E r \in Replicas : HourPasses(r, j)
    PROVE  CopyInv'
<1>1. CASE Appointed(j) \/ MinutePasses(j) \/ WindowShuts(j)
  <2>1. \A i \in Jobs : slot[i] \in Nat /\ slot'[i] \in Nat /\ slot[i] <= slot'[i]
    <3>1. slot \in [Jobs -> Nat]
      BY SchedulerConstants, SlotNat DEF SchedulerTypeOK
    <3>2. slot' = slot \/ slot' = [slot EXCEPT ![j] = slot[j] + 1]
      BY <1>1 DEF Appointed, MinutePasses, WindowShuts
    <3> QED BY <3>1, <3>2
  <2>2. UNCHANGED <<mark, replica, lock, runs, lost>>
    BY <1>1 DEF Appointed, MinutePasses, WindowShuts
  <2>3. \A s \in Replicas : /\ replica[s].job \in Jobs /\ replica[s].due \in Nat
                            /\ replica[s].nowSlot \in [Jobs -> Nat]
                            /\ replica[s].success \in [Jobs -> Nat]
    BY ReplicaNat DEF SchedulerTypeOK
  <2>4. \A i \in Jobs : mark[i] \in Nat
    BY SchedulerConstants DEF SchedulerTypeOK, Slot
  <2>5. LockInv' /\ RunInv' /\ CountInv'
    BY <2>2 DEF CopyInv, LockInv, RunInv, CountInv, Covered
  <2>6. DueInv'
    BY <2>1, <2>2, <2>3 DEF CopyInv, DueInv
  <2>7. MarkInv'
    BY <2>1, <2>2, <2>4 DEF CopyInv, MarkInv
  <2>8. SaveInv'
    BY <2>1, <2>2, <2>3 DEF CopyInv, SaveInv
  <2> QED BY <2>5, <2>6, <2>7, <2>8 DEF CopyInv
<1>2. CASE \E r \in Replicas : HourPasses(r, j)
  <2> PICK r \in Replicas : HourPasses(r, j)
    BY <1>2
  <2>1. UNCHANGED <<slot, mark, lock, runs, lost>>
    BY DEF HourPasses
  <2>2. replica[r] \in Replica
    BY DEF SchedulerTypeOK
  <2> DEFINE p == [replica[r] EXCEPT !.attempt[j] = "old"]
  <2>3. /\ p.stage = replica[r].stage /\ p.job = replica[r].job /\ p.due = replica[r].due
        /\ p.nowSlot = replica[r].nowSlot /\ p.success = replica[r].success
    BY <2>2 DEF Replica
  <2>4. Becomes(r, p)
    BY DEF HourPasses
  <2> HIDE DEF p
  <2>5. replica'[r] = p /\ \A s \in Replicas \ {r} : replica'[s] = replica[s]
    BY <2>4, Others
  <2>6. \A s \in Replicas :
            /\ replica'[s].stage = replica[s].stage /\ replica'[s].job = replica[s].job
            /\ replica'[s].due = replica[s].due /\ replica'[s].nowSlot = replica[s].nowSlot
            /\ replica'[s].success = replica[s].success
    BY <2>3, <2>5
  <2>7. LockInv' /\ DueInv' /\ MarkInv' /\ SaveInv' /\ RunInv'
    BY <2>1, <2>6 DEF CopyInv, LockInv, DueInv, MarkInv, SaveInv, RunInv
  <2>8. \A i \in Jobs : \A n \in 1..MaxSlot : Covered(i, n) => Covered(i, n)'
    BY <2>1, <2>6 DEF Covered
  <2>9. CountInv'
    BY <2>1, <2>8 DEF CopyInv, CountInv
  <2> QED BY <2>7, <2>9 DEF CopyInv
<1> QED BY <1>1, <1>2

LEMMA RunsLost ==
    ASSUME SchedulerTypeOK, NEW j \in Jobs, NEW n \in 1..MaxSlot
    PROVE  runs[j][n] \in Nat /\ lost[j] \in Nat
BY DEF SchedulerTypeOK

\* While r holds the lock of a job nobody else runs it or records it.
LEMMA Alone ==
    ASSUME CopyInv, NEW r \in Replicas, replica[r].stage \in Locked
    PROVE  \A s \in Replicas \ {r} :
               replica[s].stage \in Locked => replica[s].job # replica[r].job
BY DEF CopyInv, LockInv

\* From the check to the run: the time is not recorded, or its record unseen.
LEMMA CheckRun ==
    ASSUME SchedulerTypeOK, CopyInv, NEW r \in Replicas, NEW q \in Replica, Becomes(r, q),
           NEW j \in Jobs, replica[r].job = j, q.job = j,
           replica[r].stage = "check", q.stage = "run", q.due = replica[r].due,
           q.nowSlot = replica[r].nowSlot,
           \/ lost' = lost /\ ~Done(r, j)
           \/ lost' = [lost EXCEPT ![j] = IF mark[j] >= q.due THEN @ + 1 ELSE @],
           UNCHANGED <<slot, mark, lock, runs>>
    PROVE  CopyInv'
<1> DEFINE d == q.due
<1>1. replica'[r] = q /\ \A s \in Replicas \ {r} : replica'[s] = replica[s]
  BY Others
<1>2. \A s \in Replicas : replica[s].job \in Jobs /\ replica[s].due \in Nat
  BY ReplicaNat DEF SchedulerTypeOK
<1>3. d \in 1..slot[j]
  BY DEF CopyInv, DueInv, Locked
<1>4. /\ slot[j] \in 1..MaxSlot /\ mark[j] \in Nat /\ lost \in [Jobs -> Nat]
      /\ runs \in [Jobs -> [1..MaxSlot -> Nat]]
  BY SlotNat DEF SchedulerTypeOK
<1>5. d \in 1..MaxSlot
  BY <1>3, <1>4, SchedulerConstants
<1>6. \A i \in Jobs : lost'[i] \in Nat /\ lost[i] <= lost'[i] /\ (i # j => lost'[i] = lost[i])
  BY <1>4
<1>7. LockInv' /\ DueInv' /\ MarkInv' /\ SaveInv'
  BY <1>1 DEF CopyInv, LockInv, DueInv, MarkInv, SaveInv, Locked
<1>8. runs[j][d] <= lost'[j]
  <2>1. runs[j][d] \in Nat /\ lost[j] \in Nat /\ d \in Nat
    BY <1>2, <1>5, RunsLost
  <2>2. runs[j][d] <= 1 + lost[j] /\ (runs[j][d] = 1 + lost[j] => Covered(j, d))
    BY <1>5 DEF CopyInv, CountInv
  <2>3. CASE mark[j] >= d
    <3>1. lost'[j] = lost[j] + 1
      BY <1>4, <2>3 DEF Done
    <3> QED BY <2>1, <2>2, <3>1
  <2>4. CASE ~(mark[j] >= d)
    <3>1. ~Covered(j, d)
      BY <2>4, Alone DEF Covered, Locked
    <3> QED BY <1>6, <2>1, <2>2, <3>1
  <2> QED BY <2>3, <2>4
<1>9. RunInv'
  <2> SUFFICES ASSUME NEW s \in Replicas, replica'[s].stage = "run"
               PROVE  runs[replica'[s].job][replica'[s].due] <= lost'[replica'[s].job]
    BY DEF RunInv
  <2>1. CASE s = r
    BY <1>1, <1>8, <2>1
  <2>2. CASE s # r
    <3>1. replica'[s] = replica[s]
      BY <1>1, <2>2
    <3>2. runs[replica[s].job][replica[s].due] <= lost[replica[s].job]
      BY <3>1 DEF CopyInv, RunInv
    <3>3. replica[s].job # j
      BY <2>2, <3>1, Alone DEF Locked
    <3> QED BY <1>2, <1>6, <3>1, <3>2, <3>3
  <2> QED BY <2>1, <2>2
<1>10. ASSUME NEW i \in Jobs, NEW n \in 1..MaxSlot, Covered(i, n) PROVE Covered(i, n)'
  BY <1>1, <1>10 DEF Covered
<1>11. CountInv'
  <2> SUFFICES ASSUME NEW i \in Jobs, NEW n \in 1..MaxSlot
               PROVE  /\ runs[i][n] <= 1 + lost'[i]
                      /\ runs[i][n] = 1 + lost'[i] => Covered(i, n)'
    BY DEF CountInv
  <2>1. runs[i][n] <= 1 + lost[i] /\ (runs[i][n] = 1 + lost[i] => Covered(i, n))
    BY DEF CopyInv, CountInv
  <2>2. runs[i][n] \in Nat /\ lost[i] \in Nat
    BY RunsLost
  <2> QED BY <1>6, <1>10, <2>1, <2>2
<1> QED BY <1>7, <1>9, <1>11 DEF CopyInv

\* A replica that has lost a success forgets it, or dies.
LEMMA HiddenStep ==
    ASSUME SchedulerTypeOK, CopyInv, NEW r \in Replicas, NEW q \in Replica, Becomes(r, q),
           q.stage \in {"down", "release"},
           q.stage = "release" => /\ q.job = replica[r].job /\ q.due = replica[r].due
                                  /\ q.nowSlot = replica[r].nowSlot
                                  /\ replica[r].stage = "save" /\ lock' = lock,
           \A s \in Replicas \ {r} : \A i \in Jobs : lock[i] = s => lock'[i] = s,
           lost' = [lost EXCEPT ![replica[r].job] =
                       IF replica[r].stage = "save" THEN @ + 1 ELSE @],
           UNCHANGED <<slot, mark, runs>>
    PROVE  CopyInv'
<1> DEFINE j == replica[r].job
<1>1. replica'[r] = q /\ \A s \in Replicas \ {r} : replica'[s] = replica[s]
  BY Others
<1>2. \A s \in Replicas : replica[s].job \in Jobs /\ replica[s].due \in Nat
  BY ReplicaNat DEF SchedulerTypeOK
<1>3. /\ lost \in [Jobs -> Nat] /\ runs \in [Jobs -> [1..MaxSlot -> Nat]]
      /\ slot \in [Jobs -> 1..MaxSlot]
  BY DEF SchedulerTypeOK
<1>4. \A i \in Jobs : lost'[i] \in Nat /\ lost[i] <= lost'[i]
  BY <1>2, <1>3
<1>5. LockInv' /\ DueInv' /\ MarkInv' /\ SaveInv'
  BY <1>1, <1>2 DEF CopyInv, LockInv, DueInv, MarkInv, SaveInv, Locked
<1>6. RunInv'
  <2> SUFFICES ASSUME NEW s \in Replicas, replica'[s].stage = "run"
               PROVE  runs[replica'[s].job][replica'[s].due] <= lost'[replica'[s].job]
    BY DEF RunInv
  <2>1. s # r /\ replica'[s] = replica[s]
    BY <1>1
  <2>2. runs[replica[s].job][replica[s].due] <= lost[replica[s].job]
    BY <2>1 DEF CopyInv, RunInv
  <2>3. replica[s].due \in 1..MaxSlot
    <3>1. replica[s].due \in 1..slot[replica[s].job] /\ slot[replica[s].job] \in 1..MaxSlot
      BY <1>2, <1>3, <2>1 DEF CopyInv, DueInv, Locked
    <3> QED BY <3>1, SchedulerConstants
  <2>4. runs[replica[s].job][replica[s].due] \in Nat /\ lost[replica[s].job] \in Nat
    BY <1>2, <2>3, RunsLost
  <2> QED BY <1>2, <1>4, <2>1, <2>2, <2>4
<1>7. CountInv'
  <2> SUFFICES ASSUME NEW i \in Jobs, NEW n \in 1..MaxSlot
               PROVE  /\ runs[i][n] <= 1 + lost'[i]
                      /\ runs[i][n] = 1 + lost'[i] => Covered(i, n)'
    BY DEF CountInv
  <2>1. runs[i][n] <= 1 + lost[i] /\ (runs[i][n] = 1 + lost[i] => Covered(i, n))
    BY DEF CopyInv, CountInv
  <2>2. runs[i][n] \in Nat /\ lost[i] \in Nat
    BY RunsLost
  <2>3. CASE replica[r].stage = "save" /\ i = j
    <3>1. lost'[i] = lost[i] + 1
      BY <1>2, <1>3, <2>3
    <3> QED BY <2>1, <2>2, <3>1
  <2>4. CASE ~(replica[r].stage = "save" /\ i = j)
    <3>1. lost'[i] = lost[i]
      BY <1>2, <1>3, <2>4
    <3>2. Covered(i, n) => Covered(i, n)'
      BY <1>1, <2>4 DEF Covered
    <3> QED BY <2>1, <2>2, <3>1, <3>2
  <2> QED BY <2>3, <2>4
<1> QED BY <1>5, <1>6, <1>7 DEF CopyInv

\* The run ends: the success is remembered and not yet recorded.
LEMMA SuccessStep ==
    ASSUME SchedulerTypeOK, CopyInv, NEW r \in Replicas, RunSucceeds(r)
    PROVE  CopyInv'
<1> DEFINE p == replica[r]
           j == p.job
           d == p.due
           q == [p EXCEPT !.stage = "save", !.success[j] = EndedAt(r), !.tries = 1]
<1>0. p \in Replica /\ j \in Jobs /\ d \in Nat /\ slot[j] \in Slot
  <2>1. 1..MaxSlot \subseteq Slot
    BY Members
  <2> QED BY <2>1, ReplicaNat DEF SchedulerTypeOK
<1>1. /\ q \in Replica /\ q.stage = "save" /\ q.job = j /\ q.due = d
      /\ q.nowSlot = p.nowSlot /\ q.success[j] = slot[j]
  BY <1>0, Members DEF Replica, EndedAt
<1>2. /\ p.stage = "run" /\ Becomes(r, q) /\ UNCHANGED <<slot, mark, lock, lost>>
      /\ runs' = [runs EXCEPT ![j][d] = @ + 1]
  BY DEF RunSucceeds
<1> HIDE DEF q
<1>3. replica'[r] = q /\ \A s \in Replicas \ {r} : replica'[s] = replica[s]
  BY <1>2, Others
<1>4. \A s \in Replicas : replica[s].job \in Jobs /\ replica[s].due \in Nat
  BY ReplicaNat DEF SchedulerTypeOK
<1>5. /\ slot \in [Jobs -> 1..MaxSlot] /\ mark \in [Jobs -> Nat] /\ lost \in [Jobs -> Nat]
      /\ runs \in [Jobs -> [1..MaxSlot -> Nat]] /\ slot[j] \in Nat
  BY <1>0, SlotNat DEF SchedulerTypeOK
<1>6. d \in 1..slot[j] /\ mark[j] <= slot[j]
  BY <1>0, <1>2 DEF CopyInv, DueInv, MarkInv, Locked
<1>7. d \in 1..MaxSlot
  BY <1>0, <1>5, <1>6, SchedulerConstants
<1>8. LockInv' /\ DueInv' /\ MarkInv' /\ SaveInv'
  <2>1. SaveInv'
    <3> SUFFICES ASSUME NEW s \in Replicas, replica'[s].stage = "save"
                 PROVE  /\ mark[replica'[s].job] <= replica'[s].success[replica'[s].job]
                        /\ replica'[s].success[replica'[s].job] <= slot[replica'[s].job]
      BY <1>2 DEF SaveInv
    <3>1. CASE s = r
      <4>1. replica'[s].job = j /\ replica'[s].success[j] = slot[j]
        BY <1>1, <1>3, <3>1
      <4>2. mark[j] <= slot[j] /\ slot[j] <= slot[j]
        BY <1>5, <1>6
      <4> QED BY <4>1, <4>2
    <3>2. CASE s # r
      BY <1>3, <3>2 DEF CopyInv, SaveInv
    <3> QED BY <3>1, <3>2
  <2>2. LockInv' /\ DueInv' /\ MarkInv'
    BY <1>1, <1>2, <1>3 DEF CopyInv, LockInv, DueInv, MarkInv, Locked
  <2> QED BY <2>1, <2>2
<1>9. \A i \in Jobs : \A n \in 1..MaxSlot :
          runs'[i][n] = IF i = j /\ n = d THEN runs[j][d] + 1 ELSE runs[i][n]
  BY <1>0, <1>2, <1>5, <1>7
<1>10. RunInv'
  <2> SUFFICES ASSUME NEW s \in Replicas, replica'[s].stage = "run"
               PROVE  runs'[replica'[s].job][replica'[s].due] <= lost'[replica'[s].job]
    BY DEF RunInv
  <2>1. s # r /\ replica'[s] = replica[s]
    BY <1>1, <1>3
  <2>2. replica[s].job # j
    BY <1>2, <2>1, Alone DEF Locked
  <2>3. replica[s].due \in 1..MaxSlot
    <3>1. replica[s].due \in 1..slot[replica[s].job] /\ slot[replica[s].job] \in 1..MaxSlot
      BY <1>4, <1>5, <2>1 DEF CopyInv, DueInv, Locked
    <3> QED BY <3>1, SchedulerConstants
  <2>4. runs[replica[s].job][replica[s].due] <= lost[replica[s].job]
    BY <2>1 DEF CopyInv, RunInv
  <2> QED BY <1>2, <1>4, <1>9, <2>1, <2>2, <2>3, <2>4
<1>11. CountInv'
  <2> SUFFICES ASSUME NEW i \in Jobs, NEW n \in 1..MaxSlot
               PROVE  /\ runs'[i][n] <= 1 + lost'[i]
                      /\ runs'[i][n] = 1 + lost'[i] => Covered(i, n)'
    BY DEF CountInv
  <2>1. runs[i][n] <= 1 + lost[i] /\ (runs[i][n] = 1 + lost[i] => Covered(i, n))
    BY DEF CopyInv, CountInv
  <2>2. runs[i][n] \in Nat /\ lost[i] \in Nat
    BY RunsLost
  <2>3. Covered(i, n) => Covered(i, n)'
    BY <1>2, <1>3 DEF Covered
  <2>4. CASE i = j /\ n = d
    <3>1. runs[j][d] <= lost[j]
      BY <1>2 DEF CopyInv, RunInv
    <3>2. Covered(i, n)'
      <4>1. slot[j] >= d
        BY <1>0, <1>5, <1>6
      <4>2. replica'[r].stage = "save" /\ replica'[r].job = i /\ replica'[r].success[i] >= n
        BY <1>1, <1>3, <2>4, <4>1
      <4> QED BY <4>2 DEF Covered
    <3>3. runs'[j][d] = runs[j][d] + 1 /\ lost'[j] = lost[j]
      BY <1>0, <1>2, <1>7, <1>9
    <3>4. runs[j][d] \in Nat /\ lost[j] \in Nat
      BY <2>2, <2>4
    <3> QED BY <2>4, <3>1, <3>2, <3>3, <3>4
  <2>5. CASE ~(i = j /\ n = d)
    BY <1>2, <1>9, <2>1, <2>3, <2>5
  <2> QED BY <2>4, <2>5
<1> QED BY <1>8, <1>10, <1>11 DEF CopyInv

\* The success is recorded: the mark only moves on.
LEMMA RecordStep ==
    ASSUME SchedulerTypeOK, CopyInv, NEW r \in Replicas, NEW q \in Replica, Becomes(r, q),
           replica[r].stage = "save", q.stage = "release", q.job = replica[r].job,
           q.due = replica[r].due, q.nowSlot = replica[r].nowSlot,
           mark' = [mark EXCEPT ![q.job] = replica[r].success[q.job]],
           UNCHANGED <<slot, lock, runs, lost>>
    PROVE  CopyInv'
<1> DEFINE j == q.job
<1>1. replica'[r] = q /\ \A s \in Replicas \ {r} : replica'[s] = replica[s]
  BY Others
<1>2. \A s \in Replicas : /\ replica[s].job \in Jobs
                          /\ replica[s].success \in [Jobs -> Nat]
  BY ReplicaNat DEF SchedulerTypeOK
<1>3. mark \in [Jobs -> Nat]
  BY SlotNat DEF SchedulerTypeOK
<1>4. mark[j] <= replica[r].success[j] /\ replica[r].success[j] <= slot[j]
  BY DEF CopyInv, SaveInv
<1>5. /\ mark'[j] = replica[r].success[j] /\ mark[j] <= mark'[j]
      /\ \A i \in Jobs \ {j} : mark'[i] = mark[i]
  BY <1>2, <1>3, <1>4
<1>6. \A s \in Replicas \ {r} : replica[s].stage \in Locked => replica[s].job # j
  BY Alone DEF Locked
<1>7. LockInv' /\ DueInv' /\ RunInv'
  BY <1>1 DEF CopyInv, LockInv, DueInv, RunInv, Locked
<1>8. MarkInv'
  BY <1>4, <1>5 DEF CopyInv, MarkInv
<1>9. SaveInv'
  BY <1>1, <1>2, <1>5, <1>6 DEF CopyInv, SaveInv, Locked
<1>10. ASSUME NEW i \in Jobs, NEW n \in 1..MaxSlot, Covered(i, n) PROVE Covered(i, n)'
  <2>1. CASE mark[i] >= n
    <3>1. mark[i] <= mark'[i] /\ mark[i] \in Nat /\ mark'[i] \in Nat
      BY <1>2, <1>3, <1>5
    <3> QED BY <2>1, <3>1 DEF Covered
  <2>2. CASE \E s \in Replicas : /\ replica[s].stage = "save" /\ replica[s].job = i
                                 /\ replica[s].success[i] >= n
    BY <1>1, <1>5, <2>2 DEF Covered
  <2> QED BY <1>10, <2>1, <2>2 DEF Covered
<1>11. CountInv'
  BY <1>10 DEF CopyInv, CountInv
<1> QED BY <1>7, <1>8, <1>9, <1>11 DEF CopyInv

\* Another attempt to record it.
LEMMA RetryStep ==
    ASSUME SchedulerTypeOK, CopyInv, NEW r \in Replicas,
           Becomes(r, [replica[r] EXCEPT !.tries = @ + 1]),
           UNCHANGED <<slot, mark, lock, runs, lost>>
    PROVE  CopyInv'
<1> DEFINE q == [replica[r] EXCEPT !.tries = @ + 1]
<1>1. replica[r] \in Replica
  BY DEF SchedulerTypeOK
<1>2. /\ q.stage = replica[r].stage /\ q.job = replica[r].job /\ q.due = replica[r].due
      /\ q.nowSlot = replica[r].nowSlot /\ q.success = replica[r].success
  BY <1>1 DEF Replica
<1>3. Becomes(r, q)
  OBVIOUS
<1> HIDE DEF q
<1>4. \A s \in Replicas :
          /\ replica'[s].stage = replica[s].stage /\ replica'[s].job = replica[s].job
          /\ replica'[s].due = replica[s].due /\ replica'[s].nowSlot = replica[s].nowSlot
          /\ replica'[s].success = replica[s].success
  BY <1>2, <1>3, Others
<1>5. LockInv' /\ DueInv' /\ MarkInv' /\ SaveInv' /\ RunInv'
  BY <1>4 DEF CopyInv, LockInv, DueInv, MarkInv, SaveInv, RunInv
<1>6. \A i \in Jobs : \A n \in 1..MaxSlot : Covered(i, n) => Covered(i, n)'
  BY <1>4 DEF Covered
<1>7. CountInv'
  BY <1>6 DEF CopyInv, CountInv
<1> QED BY <1>5, <1>7 DEF CopyInv

LEMMA StepCopy ==
    ASSUME SchedulerTypeOK, CopyInv, NEW r \in Replicas,
           \/ Start(r) \/ Tick(r) \/ Look(r) \/ Lock(r) \/ Check(r)
           \/ RunSucceeds(r) \/ RunFails(r) \/ Save(r) \/ Release(r) \/ Crash(r)
    PROVE  CopyInv'
<1> DEFINE p == replica[r]
           j == p.job
<1>0. /\ p \in Replica /\ j \in Jobs /\ p.due \in Nat /\ p.due \in Slot
      /\ mark \in [Jobs -> Slot] /\ mark \in [Jobs -> Nat] /\ lost \in [Jobs -> Nat]
      /\ slot \in [Jobs -> 1..MaxSlot] /\ slot \in [Jobs -> Slot] /\ slot \in [Jobs -> Nat]
      /\ runs \in [Jobs -> [1..MaxSlot -> Nat]]
      /\ lock \in [Jobs -> Replicas \cup {Nobody}]
  <2>1. 1..MaxSlot \subseteq Slot
    BY Members
  <2> QED BY <2>1, SlotNat DEF SchedulerTypeOK, Replica
<1>a. \A i \in Jobs : i \in Nat
  BY DEF Jobs
<1>1. CASE Start(r)
  <2> DEFINE up == [p EXCEPT !.stage = "rest"]
  <2>1. up \in Replica /\ up.stage = "rest"
    BY <1>0, Members DEF Replica
  <2>2. Loaded(up) \in Replica /\ Loaded(up).stage = "rest"
    BY <1>0, <2>1, LoadedType DEF Loaded, Replica
  <2>3. PICK q \in {up, Loaded(up)} : Becomes(r, q)
    BY <1>1 DEF Start
  <2>4. q \in Replica /\ q.stage = "rest"
    BY <2>1, <2>2
  <2>5. p.stage = "down" /\ UNCHANGED <<slot, mark, lock, runs, lost>>
    BY <1>1 DEF Start
  <2> HIDE DEF up
  <2> QED BY <2>3, <2>4, <2>5, QuietStep DEF Locked
<1>2. CASE Tick(r)
  <2> DEFINE t == [p EXCEPT !.stage = "look", !.nowSlot = slot, !.nowWindow = window]
  <2>1. t \in Replica /\ t.stage = "look" /\ t.nowSlot = slot
    BY <1>0, Members DEF Replica, SchedulerTypeOK
  <2>2. Loaded(t) \in Replica /\ Loaded(t).stage = "look" /\ Loaded(t).nowSlot = slot
    BY <1>0, <2>1, LoadedType DEF Loaded, Replica
  <2>3. PICK q \in {t, Loaded(t)} : Becomes(r, q)
    BY <1>2 DEF Tick
  <2>4. q \in Replica /\ q.stage = "look" /\ q.nowSlot = slot
    BY <2>1, <2>2
  <2>5. p.stage = "rest" /\ UNCHANGED <<slot, mark, lock, runs, lost>>
    BY <1>2 DEF Tick
  <2>6. \A i \in Jobs : q.nowSlot[i] \in 1..slot[i]
    BY <1>0, <2>4
  <2> HIDE DEF t
  <2> QED BY <2>3, <2>4, <2>5, <2>6, QuietStep DEF Locked
<1>3. CASE Look(r)
  <2> DEFINE seen == [p EXCEPT !.minute[j] =
                 IF ~Known(p, j) /\ ExactMinute(p, j) THEN p.nowSlot[j] ELSE @]
             wants == [seen EXCEPT !.stage = "lock", !.due = p.nowSlot[j],
                                   !.attempt[j] = "recent"]
  <2>1. seen \in Replica /\ seen.job = j /\ seen.nowSlot = p.nowSlot
    BY <1>0 DEF Replica
  <2>2. /\ wants \in Replica /\ wants.stage = "lock" /\ wants.due = p.nowSlot[j]
        /\ wants.job = j /\ wants.nowSlot = p.nowSlot
    BY <1>0, <2>1, Members DEF Replica
  <2>3. p.stage = "look" /\ UNCHANGED <<slot, mark, lock, runs, lost>>
    BY <1>3 DEF Look
  <2>4. \A i \in Jobs : p.nowSlot[i] \in 1..slot[i]
    BY <2>3 DEF CopyInv, DueInv
  <2>5. CASE Becomes(r, wants)
    <3>1. p.nowSlot[j] \in 1..slot[j]
      BY <1>0, <2>4
    <3> HIDE DEF wants, seen
    <3> QED BY <2>2, <2>3, <2>4, <2>5, <3>1, QuietStep DEF Locked
  <2>6. CASE Becomes(r, Onward(p))
    BY <1>0, <2>3, <2>4, <2>6, OnwardType, OnwardFacts, QuietStep DEF Locked
  <2> QED BY <1>3, <2>5, <2>6 DEF Look
<1>b. p.stage \notin {"down", "rest"} =>
          /\ \A i \in Jobs : p.nowSlot[i] \in 1..slot[i]
          /\ Onward(p) \in Replica /\ Onward(p).stage \notin {"run", "save", "lock"} \cup Locked
          /\ Onward(p).stage \notin {"down", "rest"} =>
                \A i \in Jobs : Onward(p).nowSlot[i] \in 1..slot[i]
  BY <1>0, OnwardType, OnwardFacts DEF CopyInv, DueInv, Locked
<1>4. CASE Lock(r)
  <2> DEFINE q == [p EXCEPT !.stage = "check"]
  <2>1. /\ q \in Replica /\ q.stage = "check" /\ q.job = j /\ q.due = p.due
        /\ q.nowSlot = p.nowSlot
    BY <1>0, Members DEF Replica
  <2>2. p.stage = "lock" /\ UNCHANGED <<slot, mark, runs, lost>>
    BY <1>4 DEF Lock
  <2>3. p.due \in 1..slot[j]
    BY <2>2 DEF CopyInv, DueInv
  <2>4. CASE lock[j] = Nobody /\ lock' = [lock EXCEPT ![j] = r] /\ Becomes(r, q)
    <3>1. lock'[j] = r /\ \A s \in Replicas : \A i \in Jobs : lock[i] = s => lock'[i] = s
      BY <1>0, <2>4, SchedulerConstants
    <3> HIDE DEF q
    <3> QED BY <1>b, <2>1, <2>2, <2>3, <2>4, <3>1, QuietStep
  <2>5. CASE Becomes(r, Onward(p)) /\ lock' = lock
    BY <1>b, <2>2, <2>5, QuietStep
  <2> QED BY <1>4, <2>4, <2>5 DEF Lock
<1>5. CASE Check(r)
  <2> DEFINE done == [p EXCEPT !.stage = "release", !.success[j] = mark[j]]
             run == [p EXCEPT !.stage = "run"]
  <2>1. /\ done \in Replica /\ done.stage = "release" /\ done.job = j /\ done.due = p.due
        /\ done.nowSlot = p.nowSlot
    BY <1>0, Members DEF Replica
  <2>2. /\ run \in Replica /\ run.stage = "run" /\ run.job = j /\ run.due = p.due
        /\ run.nowSlot = p.nowSlot
    BY <1>0, Members DEF Replica
  <2>3. p.stage = "check" /\ UNCHANGED <<slot, mark, lock, runs>>
    BY <1>5 DEF Check
  <2>4. lock[j] = r /\ p.due \in 1..slot[j]
    BY <2>3 DEF CopyInv, LockInv, DueInv, Locked
  <2>5. CASE Becomes(r, done) /\ lost' = lost
    <3> HIDE DEF done
    <3> QED BY <1>b, <2>1, <2>3, <2>4, <2>5, QuietStep
  <2>6. CASE Becomes(r, run) /\ lost' = lost /\ ~Done(r, j)
    <3> HIDE DEF run
    <3> QED BY <1>0, <2>2, <2>3, <2>6, CheckRun
  <2>7. CASE Becomes(r, run)
             /\ lost' = [lost EXCEPT ![j] = IF mark[j] >= p.due THEN @ + 1 ELSE @]
    <3> HIDE DEF run
    <3> QED BY <1>0, <2>2, <2>3, <2>7, CheckRun
  <2> QED BY <1>5, <2>5, <2>6, <2>7 DEF Check
<1>6. CASE RunSucceeds(r)
  BY <1>6, SuccessStep
<1>7. CASE RunFails(r)
  <2> DEFINE q == [p EXCEPT !.stage = "release"]
  <2>1. /\ q \in Replica /\ q.stage = "release" /\ q.job = j /\ q.due = p.due
        /\ q.nowSlot = p.nowSlot
    BY <1>0, Members DEF Replica
  <2>2. p.stage = "run" /\ Becomes(r, q) /\ UNCHANGED <<slot, mark, lock, runs, lost>>
    BY <1>7 DEF RunFails
  <2>3. lock[j] = r /\ p.due \in 1..slot[j]
    BY <2>2 DEF CopyInv, LockInv, DueInv, Locked
  <2> HIDE DEF q
  <2> QED BY <1>b, <2>1, <2>2, <2>3, QuietStep
<1>8. CASE Save(r)
  <2> DEFINE q == [p EXCEPT !.stage = "release"]
  <2>1. /\ q \in Replica /\ q.stage = "release" /\ q.job = j /\ q.due = p.due
        /\ q.nowSlot = p.nowSlot
    BY <1>0, Members DEF Replica
  <2>2. p.stage = "save" /\ UNCHANGED <<slot, lock, runs>>
    BY <1>8 DEF Save
  <2>3. CASE Becomes(r, q) /\ lost' = lost /\ mark' = [mark EXCEPT ![j] = p.success[j]]
    <3> HIDE DEF q
    <3> QED BY <2>1, <2>2, <2>3, RecordStep
  <2>4. CASE p.tries < 3 /\ UNCHANGED <<mark, lost>> /\ Becomes(r, [p EXCEPT !.tries = @ + 1])
    BY <2>2, <2>4, RetryStep
  <2>5. CASE Becomes(r, q) /\ mark' = mark /\ lost' = [lost EXCEPT ![j] = @ + 1]
    <3> HIDE DEF q
    <3>1. lost' = [lost EXCEPT ![j] = IF p.stage = "save" THEN @ + 1 ELSE @]
      BY <2>2, <2>5
    <3> QED BY <2>1, <2>2, <2>5, <3>1, HiddenStep
  <2> QED BY <1>8, <2>3, <2>4, <2>5 DEF Save
<1>9. CASE Release(r)
  <2>1. /\ p.stage = "release" /\ Becomes(r, Onward(p)) /\ lock' = [lock EXCEPT ![j] = Nobody]
        /\ UNCHANGED <<slot, mark, runs, lost>>
    BY <1>9 DEF Release
  <2>2. lock[j] = r
    BY <2>1 DEF CopyInv, LockInv, Locked
  <2>3. \A s \in Replicas \ {r} : \A i \in Jobs : lock[i] = s => lock'[i] = s
    BY <1>0, <2>1, <2>2
  <2> QED BY <1>b, <2>1, <2>3, QuietStep
<1>10. CASE Crash(r)
  <2>1. /\ Becomes(r, Down) /\ lock' = Freed(r) /\ UNCHANGED <<slot, mark, runs>>
        /\ lost' = [lost EXCEPT ![j] = IF p.stage = "save" THEN @ + 1 ELSE @]
    BY <1>10 DEF Crash
  <2>2. \A s \in Replicas \ {r} : \A i \in Jobs : lock[i] = s => lock'[i] = s
    BY <1>0, <2>1 DEF Freed
  <2>3. Down.stage = "down" /\ Down \in Replica
    BY DownType DEF Down
  <2> QED BY <2>1, <2>2, <2>3, HiddenStep
<1> QED BY <1>1, <1>2, <1>3, <1>4, <1>5, <1>6, <1>7, <1>8, <1>9, <1>10

LEMMA NextCopy == SchedulerTypeOK /\ CopyInv /\ [Next]_vars => CopyInv'
<1> SUFFICES ASSUME SchedulerTypeOK, CopyInv, [Next]_vars PROVE CopyInv'
  OBVIOUS
<1>1. CASE UNCHANGED vars
  BY <1>1 DEF vars, CopyInv, LockInv, DueInv, MarkInv, SaveInv, RunInv, CountInv, Covered
<1>2. CASE Next
  BY <1>2, TimeCopy, StepCopy DEF Next
<1> QED BY <1>1, <1>2

LEMMA CopyInvNoSecondCopy == CopyInv => NoSecondCopy
BY DEF CopyInv, CountInv, NoSecondCopy

\* A job is run again for a time only if a crash or the database hid the
\* success, for every number of jobs, replicas, times, crashes and errors.
THEOREM NoSecondCopyAlways == Spec => []NoSecondCopy
<1>1. Init => SchedulerTypeOK /\ CopyInv
  BY InitType, InitCopy
<1>2. (SchedulerTypeOK /\ CopyInv) /\ [Next]_vars => (SchedulerTypeOK /\ CopyInv)'
  BY NextType, NextCopy
<1>3. CopyInv => NoSecondCopy
  BY CopyInvNoSecondCopy
<1> QED BY <1>1, <1>2, <1>3, PTL DEF Spec
============================================================================
