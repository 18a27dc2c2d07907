---------------------- MODULE InvocationCapacityProofs ----------------------
(***************************************************************************)
(* The limit on the automations of a Bud, for every value of the constants.*)
(*                                                                         *)
(* claim counts under the Bud's advisory lock and reserves in a later      *)
(* statement.  Between the two nobody else may reserve a thread for an     *)
(* automation: not another new one, which needs the lock (GrantExclusive), *)
(* and not a continuation, which is claimed without counting because it    *)
(* has its reservation already (LeaseSlot).  The latter holds only because *)
(* a parked invocation loses its reservation by a cancellation and nothing *)
(* else, which is what InvocationOutcomes says of reservations and waits.  *)
(***************************************************************************)
EXTENDS InvocationOutcomes, FiniteSetTheorems

\* The automations that count: a canceled one is on its way out.
ActiveIn(b) == {j \in Reserving(b) : ~row[j].cancel}

BudOfTask(s) == BudOf[row[task[s].inv].thread]

GrantExclusive ==
  \A s, s2 \in Slot :
    task[s].pc = "grant" /\ task[s2].pc = "grant" /\ BudOfTask(s) = BudOfTask(s2) => s = s2

\* The count is still right when the reservation is made.
GrantRoom == \A s \in Slot : task[s].pc = "grant" => Cardinality(ActiveIn(BudOfTask(s))) < Cap

\* What is claimed without counting is no automation, is on its way out, or is
\* counted already.
LeaseSlot ==
  \A s \in Slot : task[s].pc = "lease" =>
    LET r == row[task[s].inv] IN
    r.origin = "human" \/ r.cancel \/ (r.status \in Claimable /\ r.reserves)

CInv == GrantExclusive /\ GrantRoom /\ LeaseSlot /\ CapacityHeld

----------------------------------------------------------------------------
(* What a step that takes no lease does to one row.                        *)

SlotStep(r, q) ==
  /\ q.reserves => r.reserves
  /\ r.status # "absent" => q.thread = r.thread /\ q.origin = r.origin
  /\ r.cancel => q.cancel
  /\ r.status \in Claimable /\ r.reserves => q.cancel \/ (q.status \in Claimable /\ q.reserves)

\* The rows keep their slots, and no task gets past the count.
SlotsKept ==
  /\ \A i \in Inv : SlotStep(row[i], row'[i])
  /\ \A s \in Slot : task'[s].pc \in {"lease", "grant"} => task'[s] = task[s]

LEMMA SlotEffects ==
  ASSUME NEW r \in Row
  PROVE  /\ SlotStep(r, r)
         /\ SlotStep(r, [r EXCEPT !.live = FALSE])
         /\ SlotStep(r, [r EXCEPT !.due = TRUE])
         /\ SlotStep(r, [r EXCEPT !.deadline = "elapsed"])
         /\ SlotStep(r, Canceled(r)) /\ SlotStep(r, CancelAsked(r))
         /\ ~(r.status \in Claimable /\ r.reserves) =>
              SlotStep(r, Ended(r)) /\ SlotStep(r, Expired(r))
<1>1. /\ SlotStep(r, r)
      /\ SlotStep(r, [r EXCEPT !.live = FALSE])
      /\ SlotStep(r, [r EXCEPT !.due = TRUE])
      /\ SlotStep(r, [r EXCEPT !.deadline = "elapsed"])
  BY DEF SlotStep, Row
<1>2. SlotStep(r, Canceled(r)) /\ SlotStep(r, CancelAsked(r))
  BY DEF SlotStep, Row, Canceled, CancelAsked
<1>3. ~(r.status \in Claimable /\ r.reserves) =>
        SlotStep(r, Ended(r)) /\ SlotStep(r, Expired(r))
  BY DEF SlotStep, Row, Ended, Canceled, Expired
<1> QED BY <1>1, <1>2, <1>3

LEMMA HeldSlotEffects ==
  ASSUME NEW r \in Row, r.status \in Held, r.reserves, NEW st, NEW k \in BOOLEAN
  PROVE  /\ SlotStep(r, Started(r)) /\ SlotStep(r, Released(r, st, k))
         /\ SlotStep(r, Deferred(r, st, k)) /\ SlotStep(r, Parked(r, k))
         /\ SlotStep(r, Recovered(r, k))
<1>1. r.status \notin Claimable
  BY DEF Held, Claimable, Queued, Waits
<1>2. SlotStep(r, Started(r)) /\ SlotStep(r, Released(r, st, k))
  BY <1>1 DEF SlotStep, Row, Started, Released
<1>3. SlotStep(r, Deferred(r, st, k)) /\ SlotStep(r, Parked(r, k)) /\ SlotStep(r, Recovered(r, k))
  BY <1>1 DEF SlotStep, Row, Deferred, Parked, Recovered, Released
<1> QED BY <1>2, <1>3

LEMMA OneSlot ==
  ASSUME TypeOK, NEW i \in Inv, NEW r, row' = [row EXCEPT ![i] = r], SlotStep(row[i], r)
  PROVE  \A j \in Inv : SlotStep(row[j], row'[j])
<1>1. \A j \in Inv : row'[j] = IF j = i THEN r ELSE row[j]
  BY DEF TypeOK
<1> QED BY <1>1, SlotEffects DEF TypeOK

\* The owner.  A new message supersedes what is parked by canceling it.
LEMMA OwnerSlots == ASSUME IInv, OInv, Owner  PROVE SlotsKept
<1>0. TypeOK /\ \A j \in Inv : row[j] \in Row
  BY DEF IInv, TypeOK
<1>t. task' = task
  BY OwnerCalm
<1>1. ASSUME NEW i \in Inv, NEW t \in Thread, NEW o \in Origins, NEW d \in Deadlines,
             admit(i, t, o, d)
      PROVE  \A j \in Inv : SlotStep(row[j], row'[j])
  <2> SUFFICES ASSUME NEW j \in Inv  PROVE SlotStep(row[j], row'[j])
    OBVIOUS
  <2>1. \/ row'[j] = row[j] \/ row'[j] = Canceled(row[j])
        \/ row[j].status = "absent" /\ row'[j] = Admitted(row[j], t, o, d)
    BY <1>1 DEF admit
  <2>2. row[j].status = "absent" => SlotStep(row[j], Admitted(row[j], t, o, d))
    <3>1. "absent" \notin Claimable
      BY DEF Claimable, Queued, Waits
    <3> QED BY <1>0, <3>1 DEF SlotStep, Admitted, Row
  <2> QED BY <1>0, <2>1, <2>2, SlotEffects
<1>2. ASSUME NEW i \in Inv, requestCancel(i) \/ abandonReviewed(i)
      PROVE  \A j \in Inv : SlotStep(row[j], row'[j])
  <2>1. \/ row' = [row EXCEPT ![i] = Canceled(row[i])]
        \/ row' = [row EXCEPT ![i] = CancelAsked(row[i])]
    BY <1>2 DEF requestCancel, abandonReviewed
  <2> QED BY <1>0, <2>1, SlotEffects, OneSlot
<1>3. ASSUME row' = row  PROVE \A j \in Inv : SlotStep(row[j], row'[j])
  BY <1>0, <1>3, SlotEffects
<1>4. \A j \in Inv : SlotStep(row[j], row'[j])
  BY <1>1, <1>2, <1>3 DEF Owner, decide, takeControl, requestClose, deleteThread, releaseAuthority
<1> QED BY <1>t, <1>4 DEF SlotsKept

\* Maintenance expires only what made no call, and ends only waits for a browser:
\* neither has a reservation.
LEMMA MaintainSlots ==
  ASSUME IInv, OInv, NEW i \in Inv, Maintain(i) \/ Time(i)  PROVE SlotsKept
<1>0. TypeOK /\ row[i] \in Row /\ RowActs(row[i], act[i])
  BY DEF IInv, TypeOK, OInv
<1>t. task' = task
  BY MaintainCalm
<1>1. \E r : row' = [row EXCEPT ![i] = r] /\ SlotStep(row[i], r)
  <2>1. CASE expireQueued(i)
    <3>1. ~(row[i].status \in Claimable /\ row[i].reserves)
      BY <1>0, <2>1 DEF expireQueued, Overdue, Waiting, RowActs, Awaits
    <3> QED BY <1>0, <2>1, <3>1, SlotEffects DEF expireQueued
  <2>2. CASE recoverEnded(i)
    <3>1. ~(row[i].status \in Claimable /\ row[i].reserves)
      BY <1>0, <2>2 DEF recoverEnded, BrowserEnded, hasBrowserWait, RowActs, BrowserWait
    <3> QED BY <1>0, <2>2, <3>1, SlotEffects DEF recoverEnded
  <2>3. CASE recoverLease(i)
    <3> DEFINE k == ~row[i].cancel /\ (row[i].status = "running" \/ KeepsThread(i))
    <3>1. row' = [row EXCEPT ![i] = Recovered(row[i], k)] /\ row[i].status \in Held
      BY <2>3 DEF recoverLease, LeaseExpired
    <3>2. row[i].reserves
      BY <3>1 DEF IInv, LeaseCheck
    <3>3. k \in BOOLEAN
      OBVIOUS
    <3> HIDE DEF k
    <3>4. SlotStep(row[i], Recovered(row[i], k))
      BY <1>0, <3>1, <3>2, <3>3, HeldSlotEffects
    <3> QED BY <3>1, <3>4
  <2>4. CASE Time(i)
    BY <1>0, <2>4, SlotEffects DEF Time, leaseLapses, retryDue, deadlinePasses
  <2> QED BY <2>1, <2>2, <2>3, <2>4 DEF Maintain
<1>2. \A j \in Inv : SlotStep(row[j], row'[j])
  BY <1>0, <1>1, OneSlot
<1> QED BY <1>t, <1>2 DEF SlotsKept

\* An executor has the reservation of its invocation, and gives it up or keeps it.
LEMMA ExecuteSlots == ASSUME IInv, NEW s \in Slot, Execute(s)  PROVE SlotsKept
<1> DEFINE i == task[s].inv
<1>0. TypeOK /\ \A j \in Inv : row[j] \in Row
  BY DEF IInv, TypeOK
<1>1. task[s].pc \in ExecPC /\ i \in Inv
  <2>1. task[s].pc \in ExecPC
    BY DEF Execute, Parks, start, prepareQuestionContinuation, defer, recordAction, dispatch,
       reportUnavailable, completeAction, requestAgent, parkQuestion, parkReview,
       parkBrowserHandoff, parkReturnControl, finish, ExecPC
  <2> QED BY <1>0, <2>1, LockedInv
<1>2. ASSUME NEW s2 \in Slot, task'[s2].pc \in {"lease", "grant"}  PROVE task'[s2] = task[s2]
  <2>1. s2 = s => task'[s2].pc \notin LockPC
    BY <1>0, <1>1, ExecuteQuiet DEF Quiet, TaskKept, LockPC, ExecPC
  <2> QED BY <1>0, <1>2, <2>1, OthersKept DEF LockPC
<1>h. HoldsLease(s) => row[i].status \in Held /\ row[i].reserves
  BY <1>1 DEF HoldsLease, IInv, LeaseCheck
<1>3. \A j \in Inv : SlotStep(row[j], row'[j])
  <2>0. ASSUME NEW r, row' = [row EXCEPT ![i] = r], SlotStep(row[i], r)
        PROVE  \A j \in Inv : SlotStep(row[j], row'[j])
    BY <1>0, <1>1, <2>0, OneSlot
  <2>1. CASE row' = row
    BY <1>0, <2>1, SlotEffects
  <2>2. CASE start(s)
    <3>1. HoldsLease(s) /\ row' = [row EXCEPT ![i] = Started(row[i])]
      BY <2>2 DEF start, lockedLease
    <3>2. SlotStep(row[i], Started(row[i]))
      BY <1>0, <1>1, <1>h, <3>1, HeldSlotEffects
    <3> QED BY <2>0, <3>1, <3>2
  <2>3. ASSUME NEW w \in Delays, defer(s, w)  PROVE \A j \in Inv : SlotStep(row[j], row'[j])
    <3>1. /\ HoldsLease(s) /\ row' = [row EXCEPT ![i] = Deferred(row[i], w, KeepsThread(i))]
          /\ KeepsThread(i) \in BOOLEAN
      BY <2>3 DEF defer, lockedLease, KeepsThread, Waiting
    <3>2. SlotStep(row[i], Deferred(row[i], w, KeepsThread(i)))
      BY <1>0, <1>1, <1>h, <3>1, HeldSlotEffects
    <3> QED BY <2>0, <3>1, <3>2
  <2>4. ASSUME NEW o, finish(s, o)  PROVE \A j \in Inv : SlotStep(row[j], row'[j])
    <3> DEFINE st == FinishStatus(i, o)
               k == st = "needs_review"
    <3>1. HoldsLease(s) /\ row' = [row EXCEPT ![i] = Released(row[i], st, k)] /\ k \in BOOLEAN
      BY <2>4 DEF finish
    <3> HIDE DEF st, k
    <3>2. SlotStep(row[i], Released(row[i], st, k))
      BY <1>0, <1>1, <1>h, <3>1, HeldSlotEffects
    <3> QED BY <2>0, <3>1, <3>2
  <2>5. CASE Parks(s)
    <3>1. PICK k \in BOOLEAN : HoldsLease(s) /\ row' = [row EXCEPT ![i] = Parked(row[i], k)]
      BY <2>5 DEF Parks, parkQuestion, parkReview, parkBrowserHandoff, parkReturnControl, park,
         lockedLease
    <3>2. SlotStep(row[i], Parked(row[i], k))
      BY <1>0, <1>1, <1>h, <3>1, HeldSlotEffects
    <3> QED BY <2>0, <3>1, <3>2
  <2> QED BY <2>1, <2>2, <2>3, <2>4, <2>5
          DEF Execute, prepareQuestionContinuation, recordAction, dispatch, reportUnavailable,
              completeAction, requestAgent
<1> QED BY <1>2, <1>3 DEF SlotsKept

\* A scan, an expiry under the lock and the death of a task.
LEMMA ClaimSlots ==
  ASSUME IInv, OInv, NEW s \in Slot, claimScan(s) \/ claimExpire(s) \/ crash(s)  PROVE SlotsKept
<1>0. TypeOK /\ (\A j \in Inv : row[j] \in Row) /\ task \in [Slot -> Task]
  BY DEF IInv, TypeOK
<1>1. ASSUME NEW s2 \in Slot, task'[s2].pc \in {"lease", "grant"}  PROVE task'[s2] = task[s2]
  <2>1. task'[s].pc \in {"idle", "scan"}
    <3>1. CASE claimScan(s)
      BY <1>0, <3>1 DEF claimScan, Idle
    <3>2. CASE claimExpire(s) \/ crash(s)
      BY <1>0, <3>2 DEF claimExpire, crash, Idle
    <3> QED BY <3>1, <3>2
  <2> QED BY <1>0, <1>1, <2>1, OthersKept DEF Claim
<1>2. \A j \in Inv : SlotStep(row[j], row'[j])
  <2>1. CASE row' = row
    BY <1>0, <2>1, SlotEffects
  <2>2. CASE claimExpire(s)
    <3> DEFINE i == task[s].inv
    <3>1. row' = [row EXCEPT ![i] = Expired(row[i])] /\ task[s].pc = "expire" /\ i \in Inv
      BY <1>0, <2>2, LockedInv DEF claimExpire, LockPC
    <3>2. Untouched(act[i]) /\ RowActs(row[i], act[i])
      BY <3>1 DEF OInv, LockedActs, LockPC
    <3>3. ~(row[i].status \in Claimable /\ row[i].reserves)
      BY <3>2 DEF RowActs, Untouched, Awaits
    <3>4. SlotStep(row[i], Expired(row[i]))
      BY <1>0, <3>1, <3>3, SlotEffects
    <3> QED BY <1>0, <3>1, <3>4, OneSlot
  <2> QED BY <2>1, <2>2 DEF claimScan, crash
<1> QED BY <1>1, <1>2 DEF SlotsKept

----------------------------------------------------------------------------
(* Counting.                                                               *)

LEMMA ActiveFinite ==
  ASSUME NEW b
  PROVE  /\ IsFiniteSet(Reserving(b)) /\ IsFiniteSet(ActiveIn(b))
         /\ Cardinality(ActiveIn(b)) \in Nat /\ Cardinality(Reserving(b)) \in Nat
         /\ Cardinality(ActiveIn(b)) <= Cardinality(Reserving(b))
<1>1. IsFiniteSet(Inv)
  BY FS_Interval, ConstantsAssumption DEF Inv
<1>2. Reserving(b) \subseteq Inv /\ ActiveIn(b) \subseteq Reserving(b)
  BY DEF Reserving, ActiveIn
<1>3. IsFiniteSet(Reserving(b))
  BY <1>1, <1>2, FS_Subset
<1>4. IsFiniteSet(ActiveIn(b)) /\ Cardinality(ActiveIn(b)) <= Cardinality(Reserving(b))
  BY <1>2, <1>3, FS_Subset
<1> QED BY <1>3, <1>4, FS_CardinalityType

\* A locked invocation is admitted, on a Bud.
LEMMA LockedBud ==
  ASSUME IInv, NEW s \in Slot, task[s].pc \in LockPC
  PROVE  /\ task[s].inv \in Inv /\ row[task[s].inv] \in Row
         /\ row[task[s].inv].status # "absent" /\ BudOfTask(s) \in Bud
<1>1. TypeOK /\ task[s].inv \in Inv
  BY LockedInv DEF IInv
<1>2. row[task[s].inv] \in Row
  BY <1>1 DEF TypeOK
<1>3. row[task[s].inv].status # "absent"
  BY DEF IInv, LockedStatus, Claimable, Queued, Waits
<1>4. BudOfTask(s) \in Bud
  BY <1>2, ConstantsAssumption DEF BudOfTask, Row
<1> QED BY <1>1, <1>2, <1>3, <1>4

LEMMA SlotsKeep == ASSUME IInv, CInv, SlotsKept  PROVE CInv'
<1>1. ASSUME NEW b \in Bud
      PROVE  /\ Cardinality(ActiveIn(b)') <= Cardinality(ActiveIn(b))
             /\ Cardinality(ActiveIn(b)') \in Nat /\ Cardinality(ActiveIn(b)) \in Nat
  <2>1. ActiveIn(b)' \subseteq ActiveIn(b)
    <3> SUFFICES ASSUME NEW j \in Inv, row'[j].origin = "automation", row'[j].reserves,
                        BudOf[row'[j].thread] = b, ~row'[j].cancel
                 PROVE  j \in ActiveIn(b)
      BY DEF ActiveIn, Reserving
    <3>1. SlotStep(row[j], row'[j])
      BY DEF SlotsKept
    <3>2. row[j].reserves /\ row[j].status # "absent"
      BY <3>1 DEF SlotStep, IInv, AbsentFree
    <3> QED BY <3>1, <3>2 DEF SlotStep, ActiveIn, Reserving
  <2> HIDE DEF ActiveIn
  <2> QED BY <2>1, ActiveFinite, FS_Subset, FS_CardinalityType
<1>2. ASSUME NEW s \in Slot, task'[s].pc \in {"lease", "grant"}
      PROVE  /\ task'[s] = task[s] /\ SlotStep(row[task[s].inv], row'[task[s].inv])
             /\ BudOfTask(s)' = BudOfTask(s) /\ BudOfTask(s) \in Bud
  <2>1. task'[s] = task[s] /\ task[s].pc \in LockPC
    BY <1>2 DEF SlotsKept, LockPC
  <2>2. /\ task[s].inv \in Inv /\ row[task[s].inv].status # "absent"
        /\ BudOfTask(s) \in Bud
    BY <2>1, LockedBud
  <2> QED BY <2>1, <2>2 DEF SlotsKept, SlotStep, BudOfTask
<1>3. GrantExclusive'
  <2> SUFFICES ASSUME NEW s \in Slot, NEW s2 \in Slot, task'[s].pc = "grant",
                      task'[s2].pc = "grant", BudOfTask(s)' = BudOfTask(s2)'
               PROVE  s = s2
    BY DEF GrantExclusive
  <2>1. task[s].pc = "grant" /\ task[s2].pc = "grant" /\ BudOfTask(s) = BudOfTask(s2)
    BY <1>2
  <2> QED BY <2>1 DEF CInv, GrantExclusive
<1>4. GrantRoom'
  <2> SUFFICES ASSUME NEW s \in Slot, task'[s].pc = "grant"
               PROVE  Cardinality(ActiveIn(BudOfTask(s))') < Cap
    BY DEF GrantRoom
  <2>1. task[s].pc = "grant" /\ BudOfTask(s) \in Bud
    BY <1>2
  <2>2. Cardinality(ActiveIn(BudOfTask(s))) < Cap
    BY <2>1 DEF CInv, GrantRoom
  <2> QED BY <1>1, <1>2, <2>1, <2>2, ConstantsAssumption
<1>5. LeaseSlot'
  <2> SUFFICES ASSUME NEW s \in Slot, task'[s].pc = "lease"
               PROVE  LET r == row'[task'[s].inv] IN
                      r.origin = "human" \/ r.cancel \/ (r.status \in Claimable /\ r.reserves)
    BY DEF LeaseSlot
  <2>1. /\ task'[s] = task[s] /\ task[s].pc = "lease"
        /\ SlotStep(row[task[s].inv], row'[task[s].inv])
    BY <1>2
  <2>2. row[task[s].inv].status # "absent"
    BY <2>1, LockedBud DEF LockPC
  <2> QED BY <2>1, <2>2 DEF CInv, LeaseSlot, SlotStep
<1>6. CapacityHeld'
  <2>1. \A b \in Bud : Cardinality(ActiveIn(b)) <= Cap
    BY DEF CInv, CapacityHeld, ActiveIn
  <2>2. \A b \in Bud : Cardinality(ActiveIn(b)') <= Cap
    BY <1>1, <2>1, ConstantsAssumption
  <2> QED BY <2>2 DEF CapacityHeld, ActiveIn
<1> QED BY <1>3, <1>4, <1>5, <1>6 DEF CInv

\* The lock is taken for what may be reserved without counting, or with it.
LEMMA LockSlots == ASSUME IInv, CInv, NEW s \in Slot, claimLock(s)  PROVE CInv'
<1>0. TypeOK /\ task \in [Slot -> Task] /\ (\A j \in Inv : row[j] \in Row)
  BY DEF IInv, TypeOK
<1>1. row' = row /\ \A s2 \in Slot \ {s} : task'[s2] = task[s2]
  BY <1>0, OthersKept DEF claimLock, Claim
<1>2. task'[s].pc # "grant" /\
      (task'[s].pc = "lease" =>
         LET r == row[task'[s].inv] IN
         r.origin = "human" \/ (r.status \in Claimable /\ r.reserves))
  <2>1. CASE task' = [task EXCEPT ![s] = Idle]
    BY <1>0, <2>1 DEF Idle
  <2>2. ASSUME NEW i \in task[s].cands, NEW p \in {"expire", "count", "lease"},
               row[i].status \in Claimable,
               p = "lease" => ~(row[i].origin = "automation" /\ ~row[i].reserves),
               task' = [task EXCEPT ![s] = [Idle EXCEPT !.inv = i, !.pc = p]]
        PROVE  /\ task'[s].pc # "grant"
               /\ task'[s].pc = "lease" =>
                    LET r == row[task'[s].inv] IN
                    r.origin = "human" \/ (r.status \in Claimable /\ r.reserves)
    <3>1. task'[s].pc = p /\ task'[s].inv = i
      BY <1>0, <2>2 DEF Idle
    <3>2. i \in Inv /\ row[i].origin \in {"human", "automation"}
      BY <1>0, TaskUpdates DEF Row
    <3> QED BY <2>2, <3>1, <3>2
  <2> QED BY <2>1, <2>2, ZenonT(60) DEF claimLock
<1>3. GrantExclusive' /\ GrantRoom'
  <2>1. \A s2 \in Slot : task'[s2].pc = "grant" =>
          task[s2].pc = "grant" /\ BudOfTask(s2)' = BudOfTask(s2)
    BY <1>1, <1>2 DEF BudOfTask
  <2>2. \A b : ActiveIn(b)' = ActiveIn(b)
    BY <1>1 DEF ActiveIn, Reserving
  <2>3. GrantExclusive'
    BY <2>1 DEF CInv, GrantExclusive
  <2>4. GrantRoom'
    BY <2>1, <2>2 DEF CInv, GrantRoom
  <2> QED BY <2>3, <2>4
<1>4. LeaseSlot'
  BY <1>1, <1>2 DEF CInv, LeaseSlot
<1>5. CapacityHeld'
  BY <1>1 DEF CInv, CapacityHeld, Reserving
<1> QED BY <1>3, <1>4, <1>5 DEF CInv

\* The advisory lock is taken, and there is room.
LEMMA CountSlots == ASSUME IInv, CInv, NEW s \in Slot, claimCount(s)  PROVE CInv'
<1>0. TypeOK /\ task \in [Slot -> Task] /\ task[s] \in Task
  BY DEF IInv, TypeOK
<1>1. /\ row' = row /\ \A s2 \in Slot \ {s} : task'[s2] = task[s2]
      /\ task[s].pc = "count"
  BY <1>0, OthersKept DEF claimCount, Claim
<1>2. \/ task'[s].pc = "idle"
      \/ /\ task'[s].pc = "grant" /\ task'[s].inv = task[s].inv
         /\ Granting(BudOfTask(s)) = {} /\ Cardinality(Reserving(BudOfTask(s))) < Cap
  <2> DEFINE k == [task[s] EXCEPT !.pc = "grant"]
  <2>1. k.pc = "grant" /\ k.inv = task[s].inv /\ Idle.pc = "idle"
    BY <1>0 DEF Task, Idle
  <2>2. \/ task' = [task EXCEPT ![s] = Idle]
        \/ /\ task' = [task EXCEPT ![s] = k]
           /\ Granting(BudOfTask(s)) = {} /\ Cardinality(Reserving(BudOfTask(s))) < Cap
    BY DEF claimCount, BudOfTask
  <2> HIDE DEF k
  <2> QED BY <1>0, <2>1, <2>2
<1>3. /\ \A s2 \in Slot : BudOfTask(s2)' = BudOf[row[task'[s2].inv].thread]
      /\ \A b : ActiveIn(b)' = ActiveIn(b)
  BY <1>1 DEF BudOfTask, ActiveIn, Reserving
<1>4. \A s2 \in Slot \ {s} : BudOfTask(s2)' = BudOfTask(s2)
  BY <1>1, <1>3 DEF BudOfTask
<1>5. CASE task'[s].pc = "idle"
  <2>1. GrantExclusive' /\ GrantRoom'
    BY <1>1, <1>3, <1>4, <1>5 DEF CInv, GrantExclusive, GrantRoom
  <2>2. LeaseSlot' /\ CapacityHeld'
    BY <1>1, <1>5 DEF CInv, LeaseSlot, CapacityHeld, Reserving
  <2> QED BY <2>1, <2>2 DEF CInv
<1>6. CASE /\ task'[s].pc = "grant" /\ task'[s].inv = task[s].inv
           /\ Granting(BudOfTask(s)) = {} /\ Cardinality(Reserving(BudOfTask(s))) < Cap
  <2>1. BudOfTask(s)' = BudOfTask(s)
    BY <1>3, <1>6 DEF BudOfTask
  <2>2. \A s2 \in Slot \ {s} : task[s2].pc = "grant" => BudOfTask(s2) # BudOfTask(s)
    BY <1>6 DEF Granting, BudOfTask
  <2>3. GrantExclusive'
    <3> SUFFICES ASSUME NEW s1 \in Slot, NEW s2 \in Slot, task'[s1].pc = "grant",
                        task'[s2].pc = "grant", BudOfTask(s1)' = BudOfTask(s2)', s1 # s2
                 PROVE  FALSE
      BY DEF GrantExclusive
    <3>1. CASE s1 = s
      BY <1>1, <1>4, <2>1, <2>2, <3>1
    <3>2. CASE s2 = s
      BY <1>1, <1>4, <2>1, <2>2, <3>2
    <3>3. CASE s1 # s /\ s2 # s
      BY <1>1, <1>4, <3>3 DEF CInv, GrantExclusive
    <3> QED BY <3>1, <3>2, <3>3
  <2>4. GrantRoom'
    <3> SUFFICES ASSUME NEW s2 \in Slot, task'[s2].pc = "grant"
                 PROVE  Cardinality(ActiveIn(BudOfTask(s2))') < Cap
      BY DEF GrantRoom
    <3>1. CASE s2 = s
      <4>1. Cardinality(ActiveIn(BudOfTask(s))) < Cap
        <5> DEFINE b == BudOfTask(s)
        <5> HIDE DEF b
        <5>1. /\ Cardinality(Reserving(b)) < Cap
              /\ Cardinality(ActiveIn(b)) <= Cardinality(Reserving(b))
              /\ Cardinality(ActiveIn(b)) \in Nat /\ Cardinality(Reserving(b)) \in Nat
              /\ Cap \in Nat
          BY <1>6, ActiveFinite, ConstantsAssumption DEF b
        <5>2. Cardinality(ActiveIn(b)) < Cap
          BY <5>1
        <5> QED BY <5>2 DEF b
      <4> QED BY <1>3, <2>1, <3>1, <4>1
    <3>2. CASE s2 # s
      BY <1>1, <1>3, <1>4, <3>2 DEF CInv, GrantRoom
    <3> QED BY <3>1, <3>2
  <2>5. LeaseSlot' /\ CapacityHeld'
    BY <1>1, <1>6 DEF CInv, LeaseSlot, CapacityHeld, Reserving
  <2> QED BY <2>3, <2>4, <2>5 DEF CInv
<1> QED BY <1>2, <1>5, <1>6

\* The reservation is made.
LEMMA LeaseSlots == ASSUME IInv, CInv, NEW s \in Slot, claimLease(s)  PROVE CInv'
<1> DEFINE i == task[s].inv
           b == BudOfTask(s)
<1>0. /\ TypeOK /\ task \in [Slot -> Task] /\ task[s] \in Task /\ row \in [Inv -> Row]
      /\ task[s].pc \in LockPC /\ task[s].pc \in {"lease", "grant"}
  BY DEF IInv, TypeOK, claimLease, LockPC
<1>1. /\ i \in Inv /\ row[i] \in Row /\ b \in Bud
  BY <1>0, LockedBud
<1>2. /\ \A j \in Inv \ {i} : row'[j] = row[j]
      /\ \A s2 \in Slot \ {s} : task'[s2] = task[s2]
      /\ task'[s].pc = "preflight"
      /\ row'[i].thread = row[i].thread /\ row'[i].origin = row[i].origin
      /\ row'[i].cancel = row[i].cancel
  BY <1>0, <1>1 DEF claimLease, Leased, Row, Task
<1>3. \A s2 \in Slot \ {s} : task[s2].pc \in LockPC =>
        /\ task[s2].inv \in Inv \ {i} /\ row'[task[s2].inv] = row[task[s2].inv]
        /\ BudOfTask(s2)' = BudOfTask(s2) /\ BudOfTask(s2) \in Bud
  <2> SUFFICES ASSUME NEW s2 \in Slot \ {s}, task[s2].pc \in LockPC
               PROVE  /\ task[s2].inv \in Inv \ {i} /\ row'[task[s2].inv] = row[task[s2].inv]
                      /\ BudOfTask(s2)' = BudOfTask(s2) /\ BudOfTask(s2) \in Bud
    OBVIOUS
  <2>1. task[s2].inv \in Inv /\ BudOfTask(s2) \in Bud
    BY LockedBud
  <2>2. task[s2].inv # i
    BY <1>0 DEF IInv, LockExclusive
  <2> QED BY <1>2, <2>1, <2>2 DEF BudOfTask
<1>4. ASSUME NEW d \in Bud  PROVE ActiveIn(d)' \subseteq ActiveIn(d) \cup (IF d = b THEN {i} ELSE {})
  <2> SUFFICES ASSUME NEW j \in Inv, row'[j].origin = "automation", row'[j].reserves,
                      BudOf[row'[j].thread] = d, ~row'[j].cancel, ~(d = b /\ j = i)
               PROVE  j \in ActiveIn(d)
    BY DEF ActiveIn, Reserving
  <2>1. j # i
    BY <1>2 DEF BudOfTask
  <2> QED BY <1>2, <2>1 DEF ActiveIn, Reserving
<1>5. task[s].pc = "lease" => \A d \in Bud : ActiveIn(d)' \subseteq ActiveIn(d)
  <2> SUFFICES ASSUME task[s].pc = "lease", NEW d \in Bud, NEW j \in ActiveIn(d)',
                      j \notin ActiveIn(d)
               PROVE  FALSE
    OBVIOUS
  <2>1. j = i
    BY <1>4
  <2>2. row[i].origin = "automation" /\ ~row[i].cancel /\ BudOf[row[i].thread] = d
    BY <1>2, <2>1 DEF ActiveIn, Reserving
  <2>3. row[i].reserves
    BY <2>2 DEF CInv, LeaseSlot
  <2> QED BY <1>1, <2>1, <2>2, <2>3 DEF ActiveIn, Reserving
<1>6. ASSUME NEW d \in Bud
      PROVE  /\ d # b \/ task[s].pc = "lease" => Cardinality(ActiveIn(d)') <= Cardinality(ActiveIn(d))
             /\ Cardinality(ActiveIn(d)') <= Cardinality(ActiveIn(d)) + 1
             /\ Cardinality(ActiveIn(d)') \in Nat /\ Cardinality(ActiveIn(d)) \in Nat
  <2> DEFINE A == ActiveIn(d)
             B == ActiveIn(d)'
  <2>1. IsFiniteSet(A) /\ Cardinality(A) \in Nat
    BY ActiveFinite
  <2>2. B \subseteq A \cup {i} /\ (d # b \/ task[s].pc = "lease" => B \subseteq A)
    BY <1>4, <1>5
  <2> HIDE DEF A, B
  <2>3. IsFiniteSet(A \cup {i}) /\ Cardinality(A \cup {i}) \in Nat
        /\ Cardinality(A \cup {i}) <= Cardinality(A) + 1
    <3>1. IsFiniteSet(A \cup {i})
      BY <2>1, FS_AddElement
    <3>2. Cardinality(A \cup {i}) \in {Cardinality(A), Cardinality(A) + 1}
      BY <2>1, FS_AddElement
    <3> QED BY <2>1, <3>1, <3>2
  <2>4. IsFiniteSet(B) /\ Cardinality(B) \in Nat /\ Cardinality(B) <= Cardinality(A \cup {i})
    BY <2>2, <2>3, FS_Subset, FS_CardinalityType
  <2>5. B \subseteq A => Cardinality(B) <= Cardinality(A)
    BY <2>1, FS_Subset
  <2>6. Cardinality(B) <= Cardinality(A) + 1
    BY <2>1, <2>3, <2>4
  <2> QED BY <2>1, <2>2, <2>4, <2>5, <2>6 DEF A, B
<1>7. CapacityHeld'
  <2>1. ASSUME NEW d \in Bud  PROVE Cardinality(ActiveIn(d)') <= Cap
    <3>1. Cardinality(ActiveIn(d)) <= Cap
      BY DEF CInv, CapacityHeld, ActiveIn
    <3>2. CASE d # b \/ task[s].pc = "lease"
      BY <1>6, <3>1, <3>2, ConstantsAssumption
    <3>3. CASE d = b /\ task[s].pc = "grant"
      <4>1. Cardinality(ActiveIn(d)) < Cap
        BY <3>3 DEF CInv, GrantRoom
      <4> QED BY <1>6, <4>1, ConstantsAssumption
    <3> QED BY <1>0, <3>2, <3>3
  <2> QED BY <2>1 DEF CapacityHeld, ActiveIn
<1>8. GrantExclusive'
  <2> SUFFICES ASSUME NEW s1 \in Slot, NEW s2 \in Slot, task'[s1].pc = "grant",
                      task'[s2].pc = "grant", BudOfTask(s1)' = BudOfTask(s2)'
               PROVE  s1 = s2
    BY DEF GrantExclusive
  <2>1. /\ task[s1].pc = "grant" /\ task[s2].pc = "grant"
        /\ BudOfTask(s1)' = BudOfTask(s1) /\ BudOfTask(s2)' = BudOfTask(s2)
    BY <1>2, <1>3 DEF LockPC
  <2> QED BY <2>1 DEF CInv, GrantExclusive
<1>9. GrantRoom'
  <2> SUFFICES ASSUME NEW s2 \in Slot, task'[s2].pc = "grant"
               PROVE  Cardinality(ActiveIn(BudOfTask(s2))') < Cap
    BY DEF GrantRoom
  <2>1. /\ task[s2].pc = "grant" /\ BudOfTask(s2)' = BudOfTask(s2)
        /\ BudOfTask(s2) \in Bud /\ s2 # s
    BY <1>2, <1>3 DEF LockPC
  <2>2. BudOfTask(s2) # b \/ task[s].pc = "lease"
    BY <1>0, <2>1 DEF CInv, GrantExclusive
  <2>3. Cardinality(ActiveIn(BudOfTask(s2))) < Cap
    BY <2>1 DEF CInv, GrantRoom
  <2> QED BY <1>6, <2>1, <2>2, <2>3, ConstantsAssumption
<1>10. LeaseSlot'
  <2> SUFFICES ASSUME NEW s2 \in Slot, task'[s2].pc = "lease"
               PROVE  LET r == row'[task'[s2].inv] IN
                      r.origin = "human" \/ r.cancel \/ (r.status \in Claimable /\ r.reserves)
    BY DEF LeaseSlot
  <2>1. task'[s2] = task[s2] /\ row'[task[s2].inv] = row[task[s2].inv]
    BY <1>2, <1>3 DEF LockPC
  <2> QED BY <2>1 DEF CInv, LeaseSlot
<1> QED BY <1>7, <1>8, <1>9, <1>10 DEF CInv

----------------------------------------------------------------------------
LEMMA InitCInv == Init => CInv
<1> SUFFICES ASSUME Init  PROVE CInv
  OBVIOUS
<1>1. (\A s \in Slot : task[s].pc = "idle") /\ \A j \in Inv : ~row[j].reserves
  BY DEF Init, Idle, NoRow
<1>2. \A b \in Bud : ActiveIn(b) = {}
  BY <1>1 DEF ActiveIn, Reserving
<1>3. CapacityHeld
  <2>1. Cardinality({}) <= Cap
    BY FS_EmptySet, ConstantsAssumption
  <2> QED BY <1>2, <2>1 DEF CapacityHeld, ActiveIn
<1> QED BY <1>1, <1>3 DEF CInv, GrantExclusive, GrantRoom, LeaseSlot

LEMMA CapacityStep == ASSUME IInv, OInv, CInv, [Next]_vars  PROVE CInv'
<1>1. CASE Owner
  BY <1>1, OwnerSlots, SlotsKeep
<1>2. ASSUME NEW i \in Inv, Maintain(i) \/ Time(i)  PROVE CInv'
  BY <1>2, MaintainSlots, SlotsKeep
<1>3. ASSUME NEW s \in Slot, Claim(s) \/ Execute(s) \/ crash(s)  PROVE CInv'
  BY <1>3, ClaimSlots, ExecuteSlots, SlotsKeep, LockSlots, CountSlots, LeaseSlots DEF Claim
<1>4. CASE UNCHANGED vars
  <2>1. SlotsKept
    BY <1>4, SlotEffects DEF vars, SlotsKept, IInv, TypeOK
  <2> QED BY <2>1, SlotsKeep
<1> QED BY <1>1, <1>2, <1>3, <1>4 DEF Next

\* The automations that reserve a thread of a Bud and are not being canceled are
\* within automationConcurrencyPerBud, for any number of Buds, threads and
\* processes, although claim counts in one statement and reserves in another.
THEOREM CapacityRespected == Spec => []CapacityHeld
<1>1. IInv /\ OInv /\ CInv /\ [Next]_vars => CInv'
  BY CapacityStep
<1>2. CInv => CapacityHeld
  BY DEF CInv
<1> QED BY <1>1, <1>2, InitCInv, InvariantHolds, OutcomeInvariant, PTL DEF Spec
=============================================================================
