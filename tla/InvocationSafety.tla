-------------------------- MODULE InvocationSafety --------------------------
(***************************************************************************)
(* Safety of InvocationQueue for every value of its constants.             *)
(*                                                                         *)
(* That two invocations never reserve one thread is not inductive: a claim *)
(* reserves its thread some statements after it read that nobody else does.*)
(* What carries the decision over is the lock on the thread row, so the    *)
(* inductive invariant says what holds while a claim has it (Locked...),   *)
(* and what a task's token (invocation, fence) is worth (Token...).        *)
(***************************************************************************)
EXTENDS InvocationQueueProofs

\* A row that was not admitted reserves nothing.
AbsentFree == \A i \in Inv : row[i].status = "absent" => ~row[i].reserves

\* Claims that are past FOR UPDATE SKIP LOCKED hold different thread rows.
LockExclusive ==
  \A s, s2 \in Slot :
    s # s2 /\ task[s].pc \in LockPC /\ task[s2].pc \in LockPC
      => row[task[s].inv].thread # row[task[s2].inv].thread

\* Meanwhile nobody else reserves the thread,
LockedClear ==
  \A s \in Slot : task[s].pc \in LockPC =>
    \A j \in Inv \ {task[s].inv} :
      row[j].thread = row[task[s].inv].thread => ~row[j].reserves

\* and the invocation was at most canceled or expired since it was read.
LockedStatus ==
  \A s \in Slot : task[s].pc \in LockPC =>
    row[task[s].inv].status \in Claimable \cup {"canceled", "expired"}

\* A token is not newer than the row, and no two tasks have the same one.
TokenBound ==
  \A s \in Slot : task[s].pc \in ExecPC => task[s].fence <= row[task[s].inv].fence
TokenUnique ==
  \A s, s2 \in Slot :
    s # s2 /\ task[s].pc \in ExecPC /\ task[s2].pc \in ExecPC
      /\ task[s].inv = task[s2].inv => task[s].fence # task[s2].fence

IInv ==
  /\ TypeOK /\ LeaseCheck /\ ThreadExclusive /\ AbsentFree /\ CancelDecides
  /\ LockExclusive /\ LockedClear /\ LockedStatus /\ TokenBound /\ TokenUnique

----------------------------------------------------------------------------
(* What one step does to one row, and to one task.                         *)

\* The columns that say whose thread and lease it is.
SameLease(r, q) ==
  /\ q.status = r.status /\ q.thread = r.thread /\ q.reserves = r.reserves
  /\ q.holder = r.holder /\ q.fence = r.fence
  /\ q.live => r.live

RowKept(r, q) == SameLease(r, q) /\ q.cancel = r.cancel

RowAdmitted(r, q) ==
  /\ r.status = "absent" /\ q.status = "pending"
  /\ q.reserves = r.reserves /\ q.holder = r.holder /\ q.live = r.live
  /\ q.fence = r.fence /\ q.cancel = r.cancel

RowAsked(r, q) == r.status = "running" /\ SameLease(r, q)

RowStarted(r, q) ==
  /\ r.status = "leased" /\ q.status = "running" /\ q.thread = r.thread
  /\ q.reserves = r.reserves /\ q.holder = r.holder /\ q.live = r.live
  /\ q.fence = r.fence /\ q.cancel = r.cancel

RowCanceled(r, q) ==
  /\ r.status \notin Terminal \cup {"absent"}
  /\ q.status = "canceled" /\ q.thread = r.thread /\ ~q.reserves
  /\ q.holder = None /\ ~q.live /\ q.fence = r.fence + 1

RowExpired(r, q) ==
  /\ r.status \notin Held \cup {"absent", "needs_review", "succeeded", "failed"}
  /\ q.status = "expired" /\ q.thread = r.thread /\ ~q.reserves
  /\ q.holder = r.holder /\ q.live = r.live /\ q.fence = r.fence

RowReleased(r, q) ==
  /\ r.status \in Held /\ q.thread = r.thread /\ q.holder = None /\ ~q.live
  /\ q.status \in Claimable \cup {"needs_review", "succeeded", "failed", "canceled"}
  /\ q.status = "needs_review" => q.reserves
  /\ q.fence \in {r.fence, r.fence + 1}
  /\ q.cancel = r.cancel /\ (q.cancel => q.status = "canceled")

RowLeased(r, q) ==
  /\ q.status = "leased" /\ q.thread = r.thread /\ q.reserves
  /\ q.holder \in Worker /\ q.fence = r.fence + 1 /\ q.cancel = r.cancel

RowChange(r, q) ==
  \/ RowKept(r, q) \/ RowAdmitted(r, q) \/ RowAsked(r, q) \/ RowStarted(r, q)
  \/ RowCanceled(r, q) \/ RowExpired(r, q) \/ RowReleased(r, q)

\* The update statements have these effects.
LEMMA RowEffects ==
  ASSUME NEW r \in Row
  PROVE  /\ RowKept(r, r)
         /\ RowKept(r, [r EXCEPT !.live = FALSE])
         /\ RowKept(r, [r EXCEPT !.due = TRUE])
         /\ RowKept(r, [r EXCEPT !.deadline = "elapsed"])
         /\ r.status \notin Terminal \cup {"absent"} =>
              RowCanceled(r, Canceled(r)) /\ RowCanceled(r, Ended(r))
         /\ r.status = "running" => RowAsked(r, CancelAsked(r))
         /\ r.status = "leased" => RowStarted(r, Started(r))
         /\ r.status \notin Held \cup {"absent", "needs_review", "succeeded", "failed"} =>
              RowExpired(r, Expired(r))
         /\ \A w \in Worker : RowLeased(r, Leased(r, w))
<1>1. /\ RowKept(r, r)
      /\ RowKept(r, [r EXCEPT !.live = FALSE])
      /\ RowKept(r, [r EXCEPT !.due = TRUE])
      /\ RowKept(r, [r EXCEPT !.deadline = "elapsed"])
  BY DEF RowKept, SameLease, Row
<1>2. r.status \notin Terminal \cup {"absent"} =>
        RowCanceled(r, Canceled(r)) /\ RowCanceled(r, Ended(r))
  BY DEF RowCanceled, Canceled, Ended, Row
<1>3. r.status = "running" => RowAsked(r, CancelAsked(r))
  BY DEF RowAsked, SameLease, CancelAsked, Row
<1>4. r.status = "leased" => RowStarted(r, Started(r))
  BY DEF RowStarted, Started, Row
<1>5. r.status \notin Held \cup {"absent", "needs_review", "succeeded", "failed"} =>
        RowExpired(r, Expired(r))
  BY DEF RowExpired, Expired, Row
<1>6. \A w \in Worker : RowLeased(r, Leased(r, w))
  BY DEF RowLeased, Leased, Row
<1> QED BY <1>1, <1>2, <1>3, <1>4, <1>5, <1>6

\* So have the statements that give up a lease.
LEMMA ReleaseEffects ==
  ASSUME NEW r \in Row, r.status \in Held, NEW k \in BOOLEAN
  PROVE  /\ \A w \in Waits : ~r.cancel => RowReleased(r, Deferred(r, w, k))
         /\ ~r.cancel => RowReleased(r, Parked(r, k))
         /\ \A st \in {"needs_review", "succeeded", "failed", "canceled"} :
              (r.cancel => st = "canceled") =>
                RowReleased(r, Released(r, st, st = "needs_review"))
         /\ (~r.cancel /\ r.status = "running" => k) => RowReleased(r, Recovered(r, k))
<1>1. \A w \in Waits : ~r.cancel => RowReleased(r, Deferred(r, w, k))
  BY StatusType DEF RowReleased, Deferred, Released, Row, Claimable, Queued, Waits
<1>2. ~r.cancel => RowReleased(r, Parked(r, k))
  BY StatusType DEF RowReleased, Parked, Released, Row, Claimable
<1>3. \A st \in {"needs_review", "succeeded", "failed", "canceled"} :
        (r.cancel => st = "canceled") =>
          RowReleased(r, Released(r, st, st = "needs_review"))
  BY StatusType DEF RowReleased, Released, Row
<1>4. (~r.cancel /\ r.status = "running" => k) => RowReleased(r, Recovered(r, k))
  BY StatusType DEF RowReleased, Recovered, RecoveredStatus, Released, Row, Claimable,
     Queued, Waits
<1> QED BY <1>1, <1>2, <1>3, <1>4

\* A task keeps its lock or its token, or drops it.
TaskKept(k, q) ==
  /\ q.pc \in LockPC => k.pc \in LockPC /\ q.inv = k.inv
  /\ q.pc \in ExecPC => k.pc \in ExecPC /\ q.inv = k.inv /\ q.fence = k.fence

\* Every step but two takes no reservation, no thread lock and no token.
Quiet ==
  /\ \A i \in Inv : RowChange(row[i], row'[i])
  /\ \A s \in Slot : TaskKept(task[s], task'[s])

LockStep(s) ==
  /\ row' = row
  /\ \A s2 \in Slot \ {s} : task'[s2] = task[s2]
  /\ task'[s].pc \in LockPC /\ task'[s].inv \in Inv
  /\ row[task'[s].inv].status \in Claimable
  /\ ~OtherReserves(task'[s].inv) /\ ~ThreadLocked(row[task'[s].inv].thread)

LeaseStep(s) ==
  /\ task[s].pc \in LockPC
  /\ RowLeased(row[task[s].inv], row'[task[s].inv])
  /\ \A j \in Inv \ {task[s].inv} : row'[j] = row[j]
  /\ \A s2 \in Slot \ {s} : task'[s2] = task[s2]
  /\ task'[s].pc = "preflight" /\ task'[s].inv = task[s].inv
  /\ task'[s].fence = row[task[s].inv].fence + 1

\* What the steps of a task do to its lock and its token.
LEMMA TaskEffects ==
  ASSUME NEW k \in Task
  PROVE  /\ TaskKept(k, k) /\ TaskKept(k, Idle)
         /\ \A c \in SUBSET Inv : TaskKept(k, [Idle EXCEPT !.pc = "scan", !.cands = c])
         /\ k.pc \in LockPC => TaskKept(k, [k EXCEPT !.pc = "grant"])
         /\ k.pc \in ExecPC =>
              /\ TaskKept(k, [k EXCEPT !.pc = "prepare"])
              /\ TaskKept(k, [k EXCEPT !.pc = "execute"])
              /\ TaskKept(k, [k EXCEPT !.pc = "dispatched"])
              /\ TaskKept(k, [k EXCEPT !.pc = "execute", !.call = None])
              /\ \A c \in Call : TaskKept(k, [k EXCEPT !.pc = "recorded", !.call = c])
<1> USE DEF Task, LockPC, ExecPC, TaskKept
<1>1. /\ TaskKept(k, k) /\ TaskKept(k, Idle)
      /\ \A c \in SUBSET Inv : TaskKept(k, [Idle EXCEPT !.pc = "scan", !.cands = c])
  BY DEF Idle
<1>2. k.pc \in LockPC => TaskKept(k, [k EXCEPT !.pc = "grant"])
  OBVIOUS
<1>3. k.pc \in ExecPC =>
        /\ TaskKept(k, [k EXCEPT !.pc = "prepare"])
        /\ TaskKept(k, [k EXCEPT !.pc = "execute"])
        /\ TaskKept(k, [k EXCEPT !.pc = "dispatched"])
        /\ TaskKept(k, [k EXCEPT !.pc = "execute", !.call = None])
        /\ \A c \in Call : TaskKept(k, [k EXCEPT !.pc = "recorded", !.call = c])
  OBVIOUS
<1> QED BY <1>1, <1>2, <1>3

\* Rows and tasks that stay as they are change nothing.
LEMMA QuietRows ==
  ASSUME TypeOK, \A i \in Inv : row'[i] = row[i] \/ RowChange(row[i], row'[i]),
         \A s \in Slot : task'[s] = task[s] \/ TaskKept(task[s], task'[s])
  PROVE  Quiet
<1>1. ASSUME NEW j \in Inv PROVE RowChange(row[j], row'[j])
  BY RowEffects DEF TypeOK, RowChange
<1>2. ASSUME NEW s2 \in Slot PROVE TaskKept(task[s2], task'[s2])
  BY TaskEffects DEF TypeOK
<1> QED BY <1>1, <1>2 DEF Quiet

\* Owners admit, cancel and decide: none of their transactions touches a lease or a lock.
LEMMA OwnerQuiet == ASSUME TypeOK, Owner PROVE Quiet
<1>0. \A i \in Inv : row[i] \in Row
  BY DEF TypeOK
<1>1. ASSUME NEW i \in Inv, NEW t \in Thread, NEW o \in Origins, NEW d \in Deadlines,
             admit(i, t, o, d)
      PROVE  Quiet
  <2>1. row[i].status = "absent" => RowAdmitted(row[i], Admitted(row[i], t, o, d))
    BY <1>0 DEF RowAdmitted, Admitted, Row
  <2>2. \A j \in Superseded(t) : RowCanceled(row[j], Canceled(row[j]))
    BY <1>0, RowEffects DEF Superseded, Terminal
  <2>3. row[i].status = "absent" /\ task' = task
    BY <1>1 DEF admit
  <2>4. ASSUME NEW j \in Inv
        PROVE  \/ row'[j] = row[j]
               \/ j = i /\ row'[j] = Admitted(row[j], t, o, d)
               \/ j \in Superseded(t) /\ row'[j] = Canceled(row[j])
    BY <1>1 DEF admit
  <2>5. ASSUME NEW j \in Inv PROVE row'[j] = row[j] \/ RowChange(row[j], row'[j])
    BY <2>1, <2>2, <2>3, <2>4 DEF RowChange
  <2> QED BY <2>3, <2>5, QuietRows
<1>2. ASSUME NEW i \in Inv, requestCancel(i) \/ abandonReviewed(i) PROVE Quiet
  <2>1. task' = task /\ row[i].status \notin Terminal \cup {"absent"}
    BY <1>2 DEF requestCancel, abandonReviewed, Terminal
  <2>2. \/ row' = [row EXCEPT ![i] = Canceled(row[i])]
        \/ row[i].status = "running" /\ row' = [row EXCEPT ![i] = CancelAsked(row[i])]
    BY <1>2 DEF requestCancel, abandonReviewed
  <2>3. /\ RowChange(row[i], Canceled(row[i]))
        /\ row[i].status = "running" => RowChange(row[i], CancelAsked(row[i]))
    BY <1>0, <2>1, RowEffects, ZenonT(60) DEF RowChange
  <2>4. ASSUME NEW j \in Inv PROVE row'[j] = row[j] \/ RowChange(row[j], row'[j])
    BY <2>2, <2>3 DEF TypeOK
  <2> QED BY <2>1, <2>4, QuietRows
<1>3. CASE UNCHANGED <<row, task>>
  BY <1>3, QuietRows
<1> QED BY <1>1, <1>2, <1>3
        DEF Owner, decide, takeControl, requestClose, deleteThread, releaseAuthority

\* A statement that writes one row, and a step of one task.
LEMMA OneRow ==
  ASSUME TypeOK, NEW i \in Inv, NEW r, row' = [row EXCEPT ![i] = r], RowChange(row[i], r)
  PROVE  \A j \in Inv : row'[j] = row[j] \/ RowChange(row[j], row'[j])
BY DEF TypeOK

\* A statement of one task leaves the other tasks alone.
LEMMA OneTask ==
  ASSUME TypeOK, NEW s \in Slot, NEW k, task' = [task EXCEPT ![s] = k], TaskKept(task[s], k)
  PROVE  \A s2 \in Slot : task'[s2] = task[s2] \/ TaskKept(task[s2], task'[s2])
BY DEF TypeOK

\* A statement of claim changes nothing, locks a thread or takes the lease.
LEMMA ClaimSteps ==
  ASSUME TypeOK, LockedStatus, NEW s \in Slot, Claim(s)
  PROVE  Quiet \/ LockStep(s) \/ LeaseStep(s)
<1>0. task[s] \in Task /\ task \in [Slot -> Task] /\ row \in [Inv -> Row]
  BY SMTT(60) DEF TypeOK
<1>1. CASE claimScan(s)
  <2>1. TaskKept(task[s], [Idle EXCEPT !.pc = "scan", !.cands = {i \in Inv : Eligible(i)}])
    BY <1>0, TaskEffects, ZenonT(60)
  <2> QED BY <1>1, <2>1, OneTask, QuietRows, ZenonT(60) DEF claimScan
<1>2. CASE claimLock(s)
  <2>1. row' = row
    BY <1>2 DEF claimLock
  <2>2. CASE task' = [task EXCEPT ![s] = Idle]
    <3>1. TaskKept(task[s], Idle)
      BY <1>0, TaskEffects
    <3> QED BY <2>1, <2>2, <3>1, OneTask, QuietRows, SMTT(60)
  <2>3. ASSUME NEW i \in task[s].cands, NEW p \in {"expire", "count", "lease"},
               row[i].status \in Claimable, ~OtherReserves(i),
               ~ThreadLocked(row[i].thread),
               task' = [task EXCEPT ![s] = [Idle EXCEPT !.inv = i, !.pc = p]]
        PROVE  LockStep(s)
    <3>1. i \in Inv
      BY <1>0, TaskUpdates
    <3>2. task'[s].pc = p /\ task'[s].inv = i
      BY <1>0, <2>3 DEF Idle
    <3>3. \A s2 \in Slot \ {s} : task'[s2] = task[s2]
      BY <1>0, <2>3
    <3> QED BY <2>1, <2>3, <3>1, <3>2, <3>3, SMTT(60) DEF LockStep, LockPC
  <2> QED BY <1>2, <2>2, <2>3, ZenonT(60) DEF claimLock
<1>3. CASE claimExpire(s)
  <2>1. task[s].pc \in LockPC /\ task[s].inv \in Inv
    BY <1>0, <1>3, TaskUpdates DEF claimExpire, LockPC
  <2>2. row[task[s].inv].status
          \notin Held \cup {"absent", "needs_review", "succeeded", "failed"}
    BY <2>1 DEF LockedStatus, Held, Claimable, Queued, Waits
  <2>3. RowChange(row[task[s].inv], Expired(row[task[s].inv]))
    BY <1>0, <2>1, <2>2, RowEffects DEF RowChange
  <2>4. TaskKept(task[s], Idle)
    BY <1>0, TaskEffects
  <2>5. \A j \in Inv : row'[j] = row[j] \/ RowChange(row[j], row'[j])
    BY <1>3, <2>1, <2>3, OneRow DEF claimExpire
  <2>6. \A s2 \in Slot : task'[s2] = task[s2] \/ TaskKept(task[s2], task'[s2])
    BY <1>3, <2>4, OneTask, SMTT(60) DEF claimExpire
  <2> QED BY <2>5, <2>6, QuietRows, SMTT(60)
<1>4. CASE claimCount(s)
  <2>1. TaskKept(task[s], Idle) /\ TaskKept(task[s], [task[s] EXCEPT !.pc = "grant"])
    BY <1>0, <1>4, TaskEffects DEF claimCount, LockPC
  <2>2. \E k : task' = [task EXCEPT ![s] = k] /\ TaskKept(task[s], k)
    BY <1>4, <2>1 DEF claimCount
  <2> QED BY <1>4, <2>2, OneTask, QuietRows, ZenonT(60) DEF claimCount
<1>5. CASE claimLease(s)
  <2> DEFINE i == task[s].inv
  <2>1. task[s].pc \in LockPC /\ i \in Inv
    BY <1>0, <1>5, TaskUpdates DEF claimLease, LockPC
  <2>2. RowLeased(row[i], row'[i])
    BY <1>0, <1>5, <2>1, RowEffects, ConstantsAssumption DEF claimLease
  <2>3. /\ \A j \in Inv \ {i} : row'[j] = row[j]
        /\ \A s2 \in Slot \ {s} : task'[s2] = task[s2]
    BY <1>0, <1>5 DEF claimLease
  <2>4. /\ task'[s].pc = "preflight" /\ task'[s].inv = i
        /\ task'[s].fence = row[i].fence + 1
    BY <1>0, <1>5 DEF claimLease, Task
  <2> QED BY <2>1, <2>2, <2>3, <2>4, SMTT(60) DEF LeaseStep
<1> QED BY <1>1, <1>2, <1>3, <1>4, <1>5 DEF Claim

\* Maintenance and the passing of time take nothing.
LEMMA MaintainQuiet == ASSUME TypeOK, NEW i \in Inv, Maintain(i) \/ Time(i) PROVE Quiet
<1>0. row[i] \in Row /\ task' = task
  BY DEF TypeOK, Maintain, Time, expireQueued, recoverEnded, recoverLease,
         leaseLapses, retryDue, deadlinePasses
<1>1. \E r : row' = [row EXCEPT ![i] = r] /\ RowChange(row[i], r)
  <2>1. CASE expireQueued(i)
    <3>1. row[i].status \notin Held \cup {"absent", "needs_review", "succeeded", "failed"}
      BY <2>1 DEF expireQueued, Queued, Waits, Held
    <3> QED BY <1>0, <2>1, <3>1, RowEffects DEF expireQueued, RowChange
  <2>2. CASE recoverEnded(i)
    <3>1. row[i].status \notin Terminal \cup {"absent"}
      BY <2>2 DEF recoverEnded, BrowserEnded, Waits, Terminal
    <3> QED BY <1>0, <2>2, <3>1, RowEffects DEF recoverEnded, RowChange
  <2>3. CASE recoverLease(i)
    <3> DEFINE k == ~row[i].cancel /\ (row[i].status = "running" \/ KeepsThread(i))
    <3>1. row' = [row EXCEPT ![i] = Recovered(row[i], k)] /\ k \in BOOLEAN
      BY <2>3 DEF recoverLease
    <3>2. (~row[i].cancel /\ row[i].status = "running" => k) /\ row[i].status \in Held
      BY <2>3 DEF recoverLease, LeaseExpired
    <3> HIDE DEF k
    <3>3. RowReleased(row[i], Recovered(row[i], k))
      BY <1>0, <3>1, <3>2, ReleaseEffects
    <3> QED BY <3>1, <3>3 DEF RowChange
  <2>4. CASE Time(i)
    <3>1. /\ RowChange(row[i], [row[i] EXCEPT !.live = FALSE])
          /\ RowChange(row[i], [row[i] EXCEPT !.due = TRUE])
          /\ RowChange(row[i], [row[i] EXCEPT !.deadline = "elapsed"])
      BY <1>0, RowEffects DEF RowChange
    <3> QED BY <2>4, <3>1 DEF Time, leaseLapses, retryDue, deadlinePasses
  <2> QED BY <2>1, <2>2, <2>3, <2>4 DEF Maintain
<1> QED BY <1>0, <1>1, OneRow, QuietRows

\* An executor keeps or gives up what it holds.
LEMMA ExecuteQuiet == ASSUME TypeOK, NEW s \in Slot, Execute(s) PROVE Quiet
<1> DEFINE i == task[s].inv
<1>0. task[s] \in Task /\ task \in [Slot -> Task] /\ row \in [Inv -> Row]
  BY SMTT(60) DEF TypeOK
<1>a. TaskKept(task[s], Idle) /\ (task[s].pc \in ExecPC => i \in Inv /\ row[i] \in Row)
  BY <1>0, TaskEffects, TaskUpdates
<1>b. ASSUME row' = row, NEW k, task' = [task EXCEPT ![s] = k], TaskKept(task[s], k)
      PROVE  Quiet
  BY <1>b, OneTask, QuietRows
<1>c. ASSUME task[s].pc \in ExecPC, NEW r, row' = [row EXCEPT ![i] = r], RowChange(row[i], r),
             NEW k, task' = [task EXCEPT ![s] = k], TaskKept(task[s], k)
      PROVE  Quiet
  <2>1. \A j \in Inv : row'[j] = row[j] \/ RowChange(row[j], row'[j])
    BY <1>a, <1>c, OneRow
  <2>2. \A s2 \in Slot : task'[s2] = task[s2] \/ TaskKept(task[s2], task'[s2])
    BY <1>c, OneTask
  <2> QED BY <2>1, <2>2, QuietRows
<1>1. CASE start(s)
  <2>1. task[s].pc \in ExecPC /\ row[i].status = "leased"
    BY <1>1 DEF start, lockedLease, ExecPC
  <2>2. RowChange(row[i], Started(row[i]))
    BY <1>a, <2>1, RowEffects DEF RowChange
  <2>3. TaskKept(task[s], [task[s] EXCEPT !.pc = "prepare"])
    BY <1>0, <2>1, TaskEffects
  <2>4. row' = [row EXCEPT ![i] = Started(row[i])]
        /\ task' = [task EXCEPT ![s] = [task[s] EXCEPT !.pc = "prepare"]]
    BY <1>1, SMTT(60) DEF start
  <2> QED BY <1>c, <2>1, <2>2, <2>3, <2>4
<1>2. CASE prepareQuestionContinuation(s)
  <2>1. TaskKept(task[s], [task[s] EXCEPT !.pc = "execute"])
    BY <1>0, <1>2, TaskEffects DEF prepareQuestionContinuation, ExecPC
  <2> QED BY <1>b, <1>2, <2>1 DEF prepareQuestionContinuation
<1>3. ASSUME NEW w \in Delays, defer(s, w) PROVE Quiet
  <2>1. /\ task[s].pc \in ExecPC /\ row[i].status \in Held /\ ~row[i].cancel
        /\ w \in Waits /\ KeepsThread(i) \in BOOLEAN
    BY <1>3, ConstantsAssumption DEF defer, lockedLease, ExecPC, Held, Waits, KeepsThread
  <2>2. RowReleased(row[i], Deferred(row[i], w, KeepsThread(i)))
    BY <1>a, <2>1, ReleaseEffects
  <2>3. row' = [row EXCEPT ![i] = Deferred(row[i], w, KeepsThread(i))]
        /\ task' = [task EXCEPT ![s] = Idle]
    BY <1>3 DEF defer
  <2> QED BY <1>a, <1>c, <2>1, <2>2, <2>3 DEF RowChange
<1>4. ASSUME NEW c \in Call, NEW k \in Kinds, recordAction(s, c, k) PROVE Quiet
  <2>1. TaskKept(task[s], [task[s] EXCEPT !.pc = "recorded", !.call = c])
    BY <1>0, <1>4, TaskEffects DEF recordAction, ExecPC
  <2> QED BY <1>b, <1>4, <2>1 DEF recordAction
<1>5. CASE dispatch(s) \/ reportUnavailable(s)
  <2>1. TaskKept(task[s], [task[s] EXCEPT !.pc = "dispatched"])
    BY <1>0, <1>5, TaskEffects, ZenonT(60) DEF dispatch, reportUnavailable, ExecPC
  <2> QED BY <1>b, <1>5, <2>1, SMTT(60) DEF dispatch, reportUnavailable
<1>6. CASE completeAction(s)
  <2>1. TaskKept(task[s], [task[s] EXCEPT !.pc = "execute", !.call = None])
    BY <1>0, <1>6, TaskEffects DEF completeAction, ExecPC
  <2> QED BY <1>b, <1>6, <2>1 DEF completeAction
<1>7. CASE requestAgent(s)
  BY <1>7, QuietRows DEF requestAgent
<1>8. CASE Parks(s)
  <2>1. /\ task[s].pc \in ExecPC /\ row[i].status \in Held /\ ~row[i].cancel
        /\ task' = [task EXCEPT ![s] = Idle]
        /\ \E k \in BOOLEAN : row' = [row EXCEPT ![i] = Parked(row[i], k)]
    BY <1>8 DEF Parks, parkQuestion, parkReview, parkBrowserHandoff, parkReturnControl,
                park, lockedLease, ExecPC, Held
  <2>2. \A k \in BOOLEAN : RowReleased(row[i], Parked(row[i], k))
    BY <1>a, <2>1, ReleaseEffects, SMTT(60)
  <2> QED BY <1>a, <1>c, <2>1, <2>2 DEF RowChange
<1>9. ASSUME NEW o \in {"succeeded", "failed", "needs_review"}, finish(s, o) PROVE Quiet
  <2> DEFINE st == FinishStatus(i, o)
  <2>1. /\ task[s].pc \in ExecPC /\ row[i].status \in Held
        /\ task' = [task EXCEPT ![s] = Idle]
        /\ row' = [row EXCEPT ![i] = Released(row[i], st, st = "needs_review")]
    BY <1>9 DEF finish, HoldsLease
  <2>2. /\ st \in {"needs_review", "succeeded", "failed", "canceled"}
        /\ row[i].cancel => st = "canceled"
    BY DEF FinishStatus
  <2> HIDE DEF st
  <2>3. RowReleased(row[i], Released(row[i], st, st = "needs_review"))
    BY <1>a, <2>1, <2>2, ReleaseEffects
  <2> QED BY <1>a, <1>c, <2>1, <2>3 DEF RowChange
<1> QED BY <1>1, <1>2, <1>3, <1>4, <1>5, <1>6, <1>7, <1>8, <1>9 DEF Execute

\* Every step is one of the three.
LEMMA Steps ==
  ASSUME TypeOK, LockedStatus, [Next]_vars
  PROVE  Quiet \/ \E s \in Slot : LockStep(s) \/ LeaseStep(s)
<1>1. CASE Owner
  BY <1>1, OwnerQuiet
<1>2. ASSUME NEW s \in Slot, crash(s) PROVE Quiet
  <2>1. TaskKept(task[s], Idle)
    BY TaskEffects DEF TypeOK
  <2> QED BY <1>2, <2>1, OneTask, QuietRows DEF crash
<1>3. ASSUME NEW s \in Slot, Claim(s) \/ Execute(s)
      PROVE  Quiet \/ LockStep(s) \/ LeaseStep(s)
  BY <1>3, ClaimSteps, ExecuteQuiet
<1>4. ASSUME NEW i \in Inv, Maintain(i) \/ Time(i) PROVE Quiet
  BY <1>4, MaintainQuiet
<1>5. CASE UNCHANGED vars
  BY <1>5, QuietRows, SMTT(60) DEF vars
<1> QED BY <1>1, <1>2, <1>3, <1>4, <1>5 DEF Next

----------------------------------------------------------------------------
(* The invariant, row by row.                                              *)

LeaseOK(r) ==
  /\ r.status \in Held <=> r.holder # None
  /\ r.live => r.status \in Held
  /\ r.status \in Held \cup {"needs_review"} => r.reserves
CancelOK(r) == r.cancel => r.status \in {"running", "leased", "canceled", "expired"}
Lockable == Claimable \cup {"canceled", "expired"}

\* A quiet step keeps the lease check, takes no reservation, moves no admitted
\* invocation to another thread and changes no recorded outcome.
LEMMA QuietRow ==
  ASSUME NEW r \in Row, NEW q \in Row, RowChange(r, q), LeaseOK(r), CancelOK(r)
  PROVE  /\ LeaseOK(q) /\ CancelOK(q)
         /\ q.reserves => r.reserves
         /\ r.status # "absent" => q.thread = r.thread /\ q.status # "absent"
         /\ q.fence >= r.fence
         /\ r.status \in Lockable => q.status \in Lockable
         /\ r.status \in {"succeeded", "failed"} => q.status = r.status
         /\ ~r.reserves => ~q.reserves
<1>0. r.fence \in Nat /\ q.fence \in Nat
  BY DEF Row
<1> USE DEF LeaseOK, CancelOK, Lockable, Claimable, Queued, Waits, Held, Terminal
<1>1. CASE RowKept(r, q) \/ RowAsked(r, q)
  BY <1>0, <1>1 DEF RowKept, RowAsked, SameLease
<1>2. CASE RowAdmitted(r, q)
  BY <1>0, <1>2 DEF RowAdmitted
<1>3. CASE RowStarted(r, q)
  BY <1>0, <1>3 DEF RowStarted
<1>4. CASE RowCanceled(r, q)
  BY <1>0, <1>4 DEF RowCanceled
<1>5. CASE RowExpired(r, q)
  BY <1>0, <1>5 DEF RowExpired
<1>6. CASE RowReleased(r, q)
  <2>1. q.fence >= r.fence
    BY <1>0, <1>6 DEF RowReleased
  <2> QED BY <1>6, <2>1 DEF RowReleased
<1> QED BY <1>1, <1>2, <1>3, <1>4, <1>5, <1>6 DEF RowChange

\* A claimed row is as a leased row must be.
LEMMA LeasedRow ==
  ASSUME NEW r \in Row, NEW q \in Row, RowLeased(r, q), CancelOK(r)
  PROVE  /\ LeaseOK(q) /\ CancelOK(q) /\ q.status = "leased" /\ q.reserves
         /\ q.thread = r.thread /\ q.fence = r.fence + 1 /\ q.fence > r.fence
<1>1. q.holder # None
  BY ConstantsAssumption DEF RowLeased
<1>2. q.fence > r.fence
  BY DEF RowLeased, Row
<1> QED BY <1>1, <1>2 DEF RowLeased, LeaseOK, CancelOK, Held

\* The invariant read at one row.
LEMMA RowsOK ==
  ASSUME IInv, NEW i \in Inv
  PROVE  row[i] \in Row /\ LeaseOK(row[i]) /\ CancelOK(row[i])
BY SMTT(60) DEF IInv, TypeOK, LeaseCheck, CancelDecides, LeaseOK, CancelOK

\* A task that holds a lock or executes names an invocation.
LEMMA LockedInv ==
  ASSUME TypeOK, NEW s \in Slot
  PROVE  /\ task[s].pc \in LockPC \cup ExecPC => task[s].inv \in Inv
         /\ task[s].fence \in Nat
BY TaskUpdates DEF TypeOK

\* A step that neither locks nor leases keeps the inductive invariant.
LEMMA QuietKeeps == ASSUME IInv, TypeOK', Quiet PROVE IInv'
<1>1. ASSUME NEW i \in Inv
      PROVE  /\ row[i] \in Row /\ row'[i] \in Row /\ LeaseOK(row[i])
             /\ LeaseOK(row'[i]) /\ CancelOK(row'[i])
             /\ row'[i].reserves => row[i].reserves
             /\ row[i].status # "absent" =>
                  row'[i].thread = row[i].thread /\ row'[i].status # "absent"
             /\ row'[i].fence >= row[i].fence
             /\ row[i].status \in Lockable => row'[i].status \in Lockable
  <2>1. row'[i] \in Row
    BY DEF TypeOK
  <2> QED BY <2>1, RowsOK, QuietRow DEF Quiet
<1>2. \A i \in Inv : row'[i].reserves =>
        row[i].reserves /\ row[i].status # "absent" /\ row'[i].thread = row[i].thread
  BY <1>1 DEF IInv, AbsentFree
<1>3. \A s \in Slot : TaskKept(task[s], task'[s])
  BY DEF Quiet
<1>4. ASSUME NEW s \in Slot, task'[s].pc \in LockPC
      PROVE  /\ task[s].pc \in LockPC /\ task'[s].inv = task[s].inv /\ task[s].inv \in Inv
             /\ row[task[s].inv].status \in Lockable
             /\ row'[task[s].inv].thread = row[task[s].inv].thread
  <2>1. /\ task[s].pc \in LockPC /\ task'[s].inv = task[s].inv /\ task[s].inv \in Inv
        /\ row[task[s].inv].status \in Lockable
    BY <1>3, <1>4, LockedInv DEF TaskKept, IInv, LockedStatus, Lockable
  <2>2. row[task[s].inv].status # "absent"
    BY <2>1 DEF Lockable, Claimable, Queued, Waits
  <2> QED BY <1>1, <2>1, <2>2
<1>5. ASSUME NEW s \in Slot, task'[s].pc \in ExecPC
      PROVE  /\ task[s].pc \in ExecPC /\ task'[s].inv = task[s].inv
             /\ task'[s].fence = task[s].fence /\ task[s].inv \in Inv /\ task[s].fence \in Nat
  BY <1>3, <1>5, LockedInv DEF TaskKept, IInv
<1>6. LeaseCheck' /\ CancelDecides'
  BY <1>1 DEF LeaseCheck, CancelDecides, LeaseOK, CancelOK
<1>7. ThreadExclusive'
  BY <1>2 DEF IInv, ThreadExclusive
<1>8. AbsentFree'
  BY <1>1, <1>2 DEF AbsentFree
<1>9. LockExclusive'
  BY <1>4 DEF IInv, LockExclusive
<1>10. LockedClear'
  <2> SUFFICES ASSUME NEW s \in Slot, task'[s].pc \in LockPC,
                      NEW j \in Inv \ {task'[s].inv},
                      row'[j].thread = row'[task'[s].inv].thread, row'[j].reserves
               PROVE  FALSE
    BY DEF LockedClear
  <2> QED BY <1>2, <1>4 DEF IInv, LockedClear
<1>11. LockedStatus'
  BY <1>1, <1>4, SMTT(60) DEF LockedStatus, Lockable
<1>12. TokenBound'
  <2> SUFFICES ASSUME NEW s \in Slot, task'[s].pc \in ExecPC
               PROVE  task'[s].fence <= row'[task'[s].inv].fence
    BY DEF TokenBound
  <2>1. task[s].fence <= row[task[s].inv].fence
    BY <1>5 DEF IInv, TokenBound
  <2>2. row'[task[s].inv].fence >= row[task[s].inv].fence
        /\ row[task[s].inv].fence \in Nat /\ row'[task[s].inv].fence \in Nat
    BY <1>1, <1>5 DEF Row
  <2> QED BY <1>5, <2>1, <2>2
<1>13. TokenUnique'
  BY <1>5 DEF IInv, TokenUnique
<1> QED BY <1>6, <1>7, <1>8, <1>9, <1>10, <1>11, <1>12, <1>13, SMTT(60) DEF IInv

\* Locking a thread keeps it: the scan skips threads another claim holds.
LEMMA LockKeeps == ASSUME IInv, TypeOK', NEW s \in Slot, LockStep(s) PROVE IInv'
<1>0. row' = row /\ \A s2 \in Slot \ {s} : task'[s2] = task[s2]
  BY DEF LockStep
<1>1. LeaseCheck' /\ CancelDecides' /\ ThreadExclusive' /\ AbsentFree'
  BY <1>0 DEF IInv, LeaseCheck, CancelDecides, ThreadExclusive, AbsentFree
<1>2. task'[s].pc \in LockPC /\ task'[s].pc \notin ExecPC /\ task'[s].inv \in Inv
  BY DEF LockStep, LockPC, ExecPC
<1>3. \A s2 \in Slot : task[s2].pc \in LockPC =>
        row[task[s2].inv].thread # row[task'[s].inv].thread
  BY DEF LockStep, ThreadLocked
<1>4. LockExclusive'
  BY <1>0, <1>2, <1>3, SMTT(60) DEF IInv, LockExclusive
<1>5. LockedClear'
  BY <1>0, <1>2 DEF IInv, LockedClear, LockStep, OtherReserves
<1>6. LockedStatus'
  BY <1>0, <1>2 DEF IInv, LockedStatus, LockStep
<1>7. TokenBound' /\ TokenUnique'
  BY <1>0, <1>2 DEF IInv, TokenBound, TokenUnique
<1> QED BY <1>1, <1>4, <1>5, <1>6, <1>7 DEF IInv

\* Leasing keeps it: the lock excludes a second reserver and the new fence is fresh.
LEMMA LeaseKeeps == ASSUME IInv, TypeOK', NEW s \in Slot, LeaseStep(s) PROVE IInv'
<1> DEFINE i == task[s].inv
<1>0. /\ i \in Inv /\ task[s].pc \in LockPC
      /\ \A j \in Inv \ {i} : row'[j] = row[j]
      /\ \A s2 \in Slot \ {s} : task'[s2] = task[s2]
      /\ task'[s].pc = "preflight" /\ task'[s].inv = i
      /\ task'[s].fence = row[i].fence + 1
  BY LockedInv, SMTT(60) DEF LeaseStep, IInv
<1>1. /\ row[i] \in Row /\ row'[i] \in Row /\ LeaseOK(row'[i]) /\ CancelOK(row'[i])
      /\ row'[i].status = "leased" /\ row'[i].reserves /\ row'[i].thread = row[i].thread
      /\ row'[i].fence = row[i].fence + 1 /\ row'[i].fence > row[i].fence
  <2>1. row'[i] \in Row
    BY <1>0 DEF TypeOK
  <2>2. RowLeased(row[i], row'[i])
    BY Zenon DEF LeaseStep
  <2>3. row[i] \in Row /\ CancelOK(row[i])
    BY <1>0, RowsOK, ZenonT(60)
  <2> HIDE DEF i
  <2> QED BY <2>1, <2>2, <2>3, LeasedRow, ZenonT(60)
<1>2. \A j \in Inv : row'[j].thread = row[j].thread
  BY <1>0, <1>1
<1>3. task'[s].pc \notin LockPC /\ task'[s].pc \in ExecPC
  BY <1>0 DEF LockPC, ExecPC
<1>4. LeaseCheck' /\ CancelDecides'
  <2>1. \A j \in Inv : LeaseOK(row'[j]) /\ CancelOK(row'[j])
    BY <1>0, <1>1, RowsOK
  <2> QED BY <2>1, SMTT(60) DEF LeaseCheck, CancelDecides, LeaseOK, CancelOK
<1>5. ThreadExclusive'
  <2>1. \A j \in Inv \ {i} : row[j].thread = row[i].thread => ~row[j].reserves
    BY <1>0 DEF IInv, LockedClear
  <2> SUFFICES ASSUME NEW j \in Inv, NEW k \in Inv, row'[j].reserves, row'[k].reserves,
                      row'[j].thread = row'[k].thread, j # k
               PROVE  FALSE
    BY DEF ThreadExclusive
  <2>2. row[j].thread = row[k].thread
    BY <1>2
  <2>3. CASE j # i /\ k # i
    BY <1>0, <2>2, <2>3, SMTT(60) DEF IInv, ThreadExclusive
  <2>4. CASE j = i \/ k = i
    BY <1>0, <2>1, <2>2, <2>4, SMTT(60)
  <2> QED BY <2>3, <2>4, SMTT(60)
<1>6. AbsentFree'
  BY <1>0, <1>1, SMTT(60) DEF IInv, AbsentFree
<1>7. \A s2 \in Slot : task'[s2].pc \in LockPC =>
        /\ s2 # s /\ task'[s2] = task[s2] /\ task[s2].pc \in LockPC /\ task[s2].inv \in Inv
        /\ row[task[s2].inv].thread # row[i].thread /\ task[s2].inv # i
  BY <1>0, <1>3, LockedInv, SMTT(60) DEF IInv, LockExclusive
<1>8. LockExclusive'
  BY <1>2, <1>7, SMTT(60) DEF IInv, LockExclusive
<1>9. LockedClear'
  <2> SUFFICES ASSUME NEW s2 \in Slot, task'[s2].pc \in LockPC,
                      NEW j \in Inv \ {task'[s2].inv},
                      row'[j].thread = row'[task'[s2].inv].thread, row'[j].reserves
               PROVE  FALSE
    BY DEF LockedClear
  <2>1. row[j].thread = row[task[s2].inv].thread /\ j # i
    BY <1>2, <1>7, SMTT(60)
  <2> QED BY <1>0, <1>7, <2>1 DEF IInv, LockedClear
<1>10. LockedStatus'
  BY <1>0, <1>7, SMTT(60) DEF IInv, LockedStatus
<1>11. ASSUME NEW s2 \in Slot \ {s}, task'[s2].pc \in ExecPC
       PROVE  /\ task'[s2] = task[s2] /\ task[s2].pc \in ExecPC /\ task[s2].inv \in Inv
              /\ task[s2].fence <= row'[task[s2].inv].fence
              /\ task[s2].inv = i => task[s2].fence # task'[s].fence
  <2>1. task'[s2] = task[s2] /\ task[s2].pc \in ExecPC /\ task[s2].inv \in Inv
        /\ task[s2].fence \in Nat
    BY <1>0, <1>11, LockedInv, SMTT(60) DEF IInv
  <2>2. task[s2].fence <= row[task[s2].inv].fence
    BY <2>1, SMTT(60) DEF IInv, TokenBound
  <2>3. row[i].fence \in Nat /\ row'[i].fence \in Nat
    BY <1>1, SMTT(60) DEF Row
  <2>4. CASE task[s2].inv = i
    <3>1. \A a, n \in Nat : a <= n => a <= n + 1 /\ a # n + 1
      OBVIOUS
    <3>2. task[s2].fence <= row[i].fence
      BY <2>2, <2>4, SMTT(60)
    <3>3. task[s2].fence <= row[i].fence + 1 /\ task[s2].fence # row[i].fence + 1
      BY <2>1, <2>3, <3>1, <3>2, SMTT(60)
    <3>4. row'[i].fence = row[i].fence + 1 /\ task'[s].fence = row[i].fence + 1
      BY <1>0, <1>1, SMTT(60)
    <3> QED BY <2>1, <2>4, <3>3, <3>4
  <2>5. CASE task[s2].inv # i
    BY <1>0, <2>1, <2>2, <2>5
  <2> QED BY <2>1, <2>4, <2>5, SMTT(60)
<1>12. TokenBound'
  <2>1. task'[s].fence <= row'[task'[s].inv].fence
    <3>1. row[i].fence \in Nat
      BY <1>1 DEF Row
    <3> QED BY <1>0, <1>1, <3>1, SMTT(60)
  <2> QED BY <1>11, <2>1, SMTT(60) DEF TokenBound
<1>13. TokenUnique'
  <2> SUFFICES ASSUME NEW a \in Slot, NEW b \in Slot, a # b,
                      task'[a].pc \in ExecPC, task'[b].pc \in ExecPC,
                      task'[a].inv = task'[b].inv, task'[a].fence = task'[b].fence
               PROVE  FALSE
    BY DEF TokenUnique
  <2>1. CASE a # s /\ b # s
    BY <1>11, <2>1, SMTT(60) DEF IInv, TokenUnique
  <2>2. CASE a = s \/ b = s
    BY <1>0, <1>11, <2>2
  <2> QED BY <2>1, <2>2
<1> QED BY <1>4, <1>5, <1>6, <1>8, <1>9, <1>10, <1>12, <1>13, SMTT(60) DEF IInv

\* The invariant holds before any row exists.
LEMMA InitIInv == Init => IInv
<1> SUFFICES ASSUME Init PROVE IInv
  OBVIOUS
<1>1. TypeOK
  BY InitType, SMTT(60)
<1>2. \A i \in Inv : /\ row[i].status = "absent" /\ row[i].holder = None
                     /\ ~row[i].reserves /\ ~row[i].live /\ ~row[i].cancel
  BY DEF Init, NoRow
<1>3. \A s \in Slot : task[s].pc = "idle"
  BY DEF Init, Idle
<1>4. LeaseCheck /\ ThreadExclusive /\ AbsentFree /\ CancelDecides
  BY <1>2, SMTT(60) DEF LeaseCheck, ThreadExclusive, AbsentFree, CancelDecides, Held
<1>5. LockExclusive /\ LockedClear /\ LockedStatus /\ TokenBound /\ TokenUnique
  BY <1>3 DEF LockExclusive, LockedClear, LockedStatus, TokenBound, TokenUnique, LockPC, ExecPC
<1> QED BY <1>1, <1>4, <1>5 DEF IInv

\* The inductive invariant holds in every reachable state.
THEOREM InvariantHolds == Spec => []IInv
<1>1. IInv /\ [Next]_vars /\ TypeOK' => IInv'
  BY Steps, QuietKeeps, LockKeeps, LeaseKeeps DEF IInv
<1> QED BY <1>1, InitIInv, TypeCorrect, PTL DEF Spec

----------------------------------------------------------------------------
(* What follows.                                                           *)

\* No two invocations reserve one thread, for any number of processes, although
\* claim decides on what it read before it had the lock.
THEOREM ThreadExclusion == Spec => []ThreadExclusive
<1>1. IInv => ThreadExclusive
  BY DEF IInv
<1> QED BY <1>1, InvariantHolds, PTL

\* A worker and a lease are on record exactly while the invocation is leased or
\* running, and such an invocation, like one left for review, has its thread.
THEOREM LeaseDiscipline == Spec => []LeaseCheck
<1>1. IInv => LeaseCheck
  BY DEF IInv
<1> QED BY <1>1, InvariantHolds, PTL

\* What the owner asked to cancel is never recorded as a success, a failure or
\* a review, and never returns to the queue.
THEOREM CancellationWins == Spec => []CancelDecides
<1>1. IInv => CancelDecides
  BY SMTT(60) DEF IInv
<1> QED BY <1>1, InvariantHolds, PTL

\* Of all tasks of all processes, at most one passes lockedLease for a thread.
THEOREM ExecutorExclusion == Spec => []SingleExecutor
<1>1. IInv => SingleExecutor
  <2> SUFFICES ASSUME IInv, NEW s \in Slot, NEW s2 \in Slot, s # s2,
                      task[s].pc \in ExecPC, task[s2].pc \in ExecPC,
                      HoldsLease(s), HoldsLease(s2),
                      row[task[s].inv].thread = row[task[s2].inv].thread
               PROVE  FALSE
    BY DEF SingleExecutor
  <2>1. task[s].inv \in Inv /\ task[s2].inv \in Inv
    BY LockedInv, SMTT(60) DEF IInv
  <2>2. row[task[s].inv].reserves /\ row[task[s2].inv].reserves
    BY <2>1, SMTT(60) DEF IInv, LeaseCheck, HoldsLease
  <2>3. task[s].inv = task[s2].inv
    BY <2>1, <2>2 DEF IInv, ThreadExclusive
  <2> QED BY <2>3 DEF IInv, TokenUnique, HoldsLease
<1> QED BY <1>1, InvariantHolds, PTL

\* No step changes a recorded success or failure.
THEOREM OutcomeFinal == Spec => CompletedIsFinal
<1>1. IInv /\ TypeOK' /\ [Next]_vars =>
        [\A i \in Inv : row[i].status \in {"succeeded", "failed"} =>
           row'[i].status = row[i].status]_vars
  <2> SUFFICES ASSUME IInv, TypeOK', [Next]_vars, NEW i \in Inv,
                      row[i].status \in {"succeeded", "failed"}
               PROVE  row'[i].status = row[i].status
    BY SMTT(60)
  <2>1. CASE Quiet
    <3>1. row'[i] \in Row
      BY DEF TypeOK
    <3> QED BY <2>1, <3>1, RowsOK, QuietRow, SMTT(60) DEF Quiet
  <2>2. ASSUME NEW s \in Slot, LockStep(s) PROVE row'[i].status = row[i].status
    BY <2>2 DEF LockStep
  <2>3. ASSUME NEW s \in Slot, LeaseStep(s) PROVE row'[i].status = row[i].status
    <3>1. task[s].inv # i
      BY <2>3 DEF LeaseStep, IInv, LockedStatus, Claimable, Queued, Waits
    <3> QED BY <2>3, <3>1, SMTT(60) DEF LeaseStep
  <2> QED BY <2>1, <2>2, <2>3, Steps DEF IInv
<1> QED BY <1>1, InvariantHolds, TypeCorrect, PTL DEF Spec, CompletedIsFinal
=============================================================================
