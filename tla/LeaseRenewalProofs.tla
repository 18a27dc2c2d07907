------------------------- MODULE LeaseRenewalProofs -------------------------
(***************************************************************************)
(* Proofs about LeaseRenewal for any number of calls, failed heartbeats    *)
(* and timeouts: the turn under a lease always has a next heartbeat        *)
(* (HeartbeatKept), and an executor that saw a renewal fail dispatches     *)
(* nothing more (StaleNeverRevived).                                       *)
(*                                                                         *)
(* HeartbeatKept is not inductive: its case split over pc forgets why the  *)
(* heartbeat is there.  The reason is the flag ended (Beats): while it is  *)
(* off the next heartbeat is armed or a timer's link is in the chain, and  *)
(* it is off whenever the turn runs (Running).  That a settled link of the *)
(* turn finds the turn at its checkpoint needs MainLink.                   *)
(***************************************************************************)
EXTENDS LeaseRenewal, FiniteSetTheorems, SequenceTheorems, TLAPS

States == {"queued", "sent", "ok", "failed", "overtaken"}
Link == [by : Timer \cup {"main"}, st : States]
Active == {"preflight", "checkpoint", "start", "work", "record", "call", "wait"}

\* A renewal of the heartbeat timer is in the chain.
TimerLink(s) == \E k \in DOMAIN s : s[k].by # "main"

\* The renewals the turn awaits: none, or one while it is at a checkpoint.
MainLink(s, at) ==
  /\ \A k \in DOMAIN s : s[k].by = "main" => at = "checkpoint"
  /\ \A j, k \in DOMAIN s : s[j].by = "main" /\ s[k].by = "main" => j = k

Types ==
  /\ pc \in PC /\ next \in Goals \cup {None} /\ (pc = "checkpoint" => next \in Goals)
  /\ reply \in {"none", "parked", "refused", "error"}
  /\ chain \in Seq(Link)
  /\ broken \in BOOLEAN /\ ended \in BOOLEAN /\ parked \in BOOLEAN /\ seen \in BOOLEAN
  /\ aborted \in {"no", "stop", "lease", "park"}
  /\ lease \in {"held", "lost", "released"}
  /\ calls \in Nat /\ sent \in Nat /\ errors \in Nat

\* Until the heartbeat is switched off there is a next one.
Beats == ~ended => heartbeat \in armed \/ TimerLink(chain)

\* It is off only when the turn has parked or ended, or its signal is aborted.
Running == pc \in Active /\ aborted = "no" => ~ended

\* A failed renewal aborted the signal.
SeenAborts == seen => aborted # "no"

\* The inductive invariant.
IInv == Types /\ MainLink(chain, pc) /\ Beats /\ Running /\ SeenAborts

-----------------------------------------------------------------------------
(* The chain                                                               *)

\* One more link, by the turn or by a timer.
LEMMA AppendedLink ==
  ASSUME NEW s \in Seq(Link), NEW who \in Timer \cup {"main"}, NEW at,
         MainLink(s, at)
  PROVE  LET t == Append(s, [by |-> who, st |-> "queued"]) IN
         /\ t \in Seq(Link)
         /\ TimerLink(s) => TimerLink(t)
         /\ who # "main" => TimerLink(t) /\ MainLink(t, at)
         /\ who = "main" /\ at # "checkpoint" => MainLink(t, "checkpoint")
<1> DEFINE x == [by |-> who, st |-> "queued"]
           t == Append(s, x)
<1>1. x \in Link /\ x.by = who
  BY DEF Link, States
<1> HIDE DEF x
<1>2. /\ t \in Seq(Link) /\ Len(t) = Len(s) + 1 /\ Len(s) \in Nat
      /\ DOMAIN s = 1 .. Len(s) /\ DOMAIN t = 1 .. Len(t)
      /\ \A k \in 1 .. Len(s) : t[k] = s[k]
      /\ t[Len(s) + 1] = x
  BY <1>1
<1> HIDE DEF t
<1>3. TimerLink(s) => TimerLink(t)
  BY <1>2 DEF TimerLink
<1>4. who # "main" => TimerLink(t) /\ MainLink(t, at)
  BY <1>1, <1>2 DEF TimerLink, MainLink
<1>5. who = "main" /\ at # "checkpoint" => MainLink(t, "checkpoint")
  BY <1>1, <1>2 DEF MainLink
<1> QED BY <1>2, <1>3, <1>4, <1>5 DEF t, x

\* The first link changes its state.
LEMMA MarkedLink ==
  ASSUME NEW s \in Seq(Link), s # <<>>, NEW st \in States
  PROVE  LET t == [s EXCEPT ![1].st = st] IN
         /\ t \in Seq(Link)
         /\ TimerLink(s) => TimerLink(t)
         /\ \A at : MainLink(s, at) => MainLink(t, at)
<1> DEFINE t == [s EXCEPT ![1].st = st]
<1>1. /\ Len(s) \in Nat /\ Len(s) > 0 /\ DOMAIN s = 1 .. Len(s) /\ 1 \in DOMAIN s
      /\ s[1] \in Link
  OBVIOUS
<1>2. [s[1] EXCEPT !.st = st] \in Link /\ [s[1] EXCEPT !.st = st].by = s[1].by
  BY <1>1 DEF Link
<1>3. /\ t \in Seq(Link) /\ DOMAIN t = DOMAIN s
      /\ \A k \in DOMAIN s : t[k].by = s[k].by
  BY <1>1, <1>2
<1> HIDE DEF t
<1>4. TimerLink(s) => TimerLink(t)
  BY <1>3 DEF TimerLink
<1>5. \A at : MainLink(s, at) => MainLink(t, at)
  BY <1>3 DEF MainLink
<1> QED BY <1>3, <1>4, <1>5 DEF t

\* The first link leaves the chain.
LEMMA SettledLink ==
  ASSUME NEW s \in Seq(Link), s # <<>>, NEW at, MainLink(s, at)
  PROVE  /\ Tail(s) \in Seq(Link)
         /\ s[1].by = "main" => /\ at = "checkpoint"
                                /\ \A b : MainLink(Tail(s), b)
                                /\ TimerLink(s) => TimerLink(Tail(s))
         /\ s[1].by # "main" => MainLink(Tail(s), at)
<1> DEFINE t == Tail(s)
<1>1. /\ Len(s) \in Nat /\ Len(s) > 0 /\ DOMAIN s = 1 .. Len(s)
      /\ t \in Seq(Link) /\ Len(t) = Len(s) - 1 /\ DOMAIN t = 1 .. Len(t)
      /\ \A k \in 1 .. Len(t) : t[k] = s[k + 1]
  OBVIOUS
<1> HIDE DEF t
<1>2. /\ \A k \in DOMAIN t : k + 1 \in DOMAIN s /\ t[k] = s[k + 1] /\ k + 1 # 1
      /\ \A k \in DOMAIN s \ {1} : k - 1 \in DOMAIN t /\ t[k - 1] = s[k]
      /\ 1 \in DOMAIN s
  BY <1>1
<1>3. CASE s[1].by = "main"
  <2>1. at = "checkpoint" /\ \A k \in DOMAIN t : t[k].by # "main"
    BY <1>2, <1>3 DEF MainLink
  <2>2. \A b : MainLink(t, b)
    BY <2>1 DEF MainLink
  <2>3. TimerLink(s) => TimerLink(t)
    BY <1>2, <1>3 DEF TimerLink
  <2> QED BY <1>1, <1>3, <2>1, <2>2, <2>3 DEF t
<1>4. CASE s[1].by # "main"
  <2>1. \A j, k \in DOMAIN t : t[j].by = "main" /\ t[k].by = "main" => j + 1 = k + 1
    BY <1>2 DEF MainLink
  <2>2. \A j, k \in DOMAIN t : j + 1 = k + 1 => j = k
    BY <1>1
  <2>3. MainLink(t, at)
    BY <1>2, <2>1, <2>2 DEF MainLink
  <2> QED BY <1>1, <1>4, <2>3 DEF t
<1> QED BY <1>3, <1>4

-----------------------------------------------------------------------------
(* The steps                                                               *)

\* A renewal that is queued, sent or decided.
LEMMA ChainKeeps ==
  ASSUME IInv, (\E t \in Timer : fire(t)) \/ begin \/ decide
  PROVE  IInv'
<1>0. chain \in Seq(Link) /\ MainLink(chain, pc)
  BY DEF IInv, Types
<1>1. ASSUME NEW t \in Timer, fire(t)  PROVE IInv'
  <2>1. /\ chain' = Append(chain, [by |-> t, st |-> "queued"])
        /\ UNCHANGED <<pc, next, reply, calls, sent, broken, seen, errors, ended, parked,
                       aborted, lease>>
    BY <1>1 DEF fire, renew, turn, flags
  <2>2. t # "main"
    BY RenewalAssumption
  <2>3. chain' \in Seq(Link) /\ TimerLink(chain') /\ MainLink(chain', pc)
    BY <1>0, <2>1, <2>2, AppendedLink
  <2>4. Types'
    BY <2>1, <2>3 DEF IInv, Types
  <2> QED BY <2>1, <2>3, <2>4 DEF IInv, Beats, Running, SeenAborts
<1>2. ASSUME begin \/ decide  PROVE IInv'
  <2>1. chain # <<>>
    BY <1>2 DEF begin, decide
  <2>2. PICK st \in States : chain' = [chain EXCEPT ![1].st = st]
    <3>1. CASE begin
      BY <3>1 DEF begin, States
    <3>2. CASE decide
      <4>1. LockedLease \in States
        BY DEF LockedLease, States
      <4>2. "failed" \in States
        BY DEF States
      <4> QED BY <3>2, <4>1, <4>2 DEF decide
    <3> QED BY <1>2, <3>1, <3>2
  <2>3. /\ UNCHANGED <<pc, next, reply, calls, sent, broken, seen, ended, parked, aborted,
                       lease, armed, heartbeat>>
        /\ errors' \in {errors, errors + 1}
    BY <1>2 DEF begin, decide, turn, timeouts, flags
  <2>4. /\ chain' \in Seq(Link)
        /\ TimerLink(chain) => TimerLink(chain')
        /\ MainLink(chain', pc)
    BY <1>0, <2>1, <2>2, MarkedLink
  <2>5. Types'
    BY <2>3, <2>4 DEF IInv, Types
  <2> QED BY <2>3, <2>4, <2>5 DEF IInv, Beats, Running, SeenAborts
<1> QED BY <1>1, <1>2

\* A renewal that is settled: the turn goes on from its checkpoint, or the timer
\* is set again.
LEMMA SettleKeeps ==
  ASSUME IInv, settle
  PROVE  IInv'
<1> DEFINE first == chain[1]
           ok == first.st = "ok"
<1>0. /\ chain \in Seq(Link) /\ chain # <<>> /\ MainLink(chain, pc)
      /\ first \in Link
  BY DEF IInv, Types, settle
<1>1. /\ chain' = Tail(chain)
      /\ broken' = (broken \/ ~ok)
      /\ aborted' = Abort(first.st)
      /\ seen' = (seen \/ (~ok /\ ~parked))
      /\ UNCHANGED <<reply, calls, sent, parked, errors, lease>>
      /\ first.by = "main" => turnSettled(ok)
      /\ first.by # "main" => timerSettled
  BY DEF settle
<1>2. /\ Tail(chain) \in Seq(Link)
      /\ first.by = "main" => /\ pc = "checkpoint"
                              /\ \A b : MainLink(Tail(chain), b)
                              /\ TimerLink(chain) => TimerLink(Tail(chain))
      /\ first.by # "main" => MainLink(Tail(chain), pc)
  BY <1>0, SettledLink
<1>3. /\ aborted' \in {"no", "stop", "lease", "park"}
      /\ aborted # "no" => aborted' = aborted
      /\ ~ok /\ ~parked => aborted' # "no"
  <2>1. CASE parked \/ aborted # "no" \/ ok
    BY <1>1, <2>1 DEF Abort, IInv, Types
  <2>2. CASE ~(parked \/ aborted # "no" \/ ok)
    BY <1>1, <2>2 DEF Abort, IInv, Types
  <2> QED BY <2>1, <2>2
<1> HIDE DEF first, ok
<1>4. SeenAborts'
  BY <1>1, <1>3 DEF IInv, SeenAborts, Types
<1>5. CASE first.by = "main"
  <2>1. turnSettled(ok) /\ pc = "checkpoint" /\ next \in Goals
    BY <1>1, <1>2, <1>5 DEF IInv, Types
  <2>2. /\ next' = None /\ pc' \in PC \ {"checkpoint"}
        /\ \/ UNCHANGED <<ended, timeouts>>
           \/ ended' = TRUE /\ pc' = "park"
    BY <2>1 DEF turnSettled, PC, Goals
  <2>3. Types'
    BY <1>1, <1>2, <1>3, <2>2 DEF IInv, Types
  <2>4. MainLink(chain', pc')
    BY <1>1, <1>2, <1>5
  <2>5. Beats'
    BY <1>1, <1>2, <1>5, <2>2 DEF IInv, Beats, timeouts
  <2>6. Running'
    BY <1>3, <2>1, <2>2 DEF IInv, Running, Active
  <2> QED BY <1>4, <2>3, <2>4, <2>5, <2>6 DEF IInv
<1>6. CASE first.by # "main"
  <2>1. timerSettled
    BY <1>1, <1>6
  <2>2. /\ UNCHANGED <<pc, next, ended>>
        /\ ~ended => heartbeat' \in armed'
    BY <2>1 DEF timerSettled, scheduleHeartbeat
  <2>3. Types'
    BY <1>1, <1>2, <1>3, <2>2 DEF IInv, Types
  <2>4. MainLink(chain', pc')
    BY <1>1, <1>2, <1>6, <2>2
  <2>5. Beats'
    BY <2>2 DEF Beats
  <2>6. Running'
    BY <1>3, <2>2 DEF IInv, Running
  <2> QED BY <1>4, <2>3, <2>4, <2>5, <2>6 DEF IInv
<1> QED BY <1>5, <1>6

\* The turn reaches a checkpoint: it awaits one link, and nothing else of its own.
LEMMA CheckpointKeeps ==
  ASSUME IInv, NEW goal \in Goals, pc \in Active \ {"checkpoint"}, calls' \in Nat,
         checkpoint(goal)
  PROVE  IInv'
<1>1. /\ pc' = "checkpoint" /\ next' = goal
      /\ chain' = Append(chain, [by |-> "main", st |-> "queued"])
      /\ UNCHANGED <<reply, sent, broken, seen, errors, armed, heartbeat, ended, parked,
                     aborted, lease>>
  BY DEF checkpoint, renew, timeouts, flags
<1>2. /\ chain' \in Seq(Link)
      /\ TimerLink(chain) => TimerLink(chain')
      /\ MainLink(chain', "checkpoint")
  BY <1>1, AppendedLink DEF IInv, Types
<1>3. Types'
  BY <1>1, <1>2 DEF IInv, Types, PC
<1> QED BY <1>1, <1>2, <1>3 DEF IInv, Beats, Running, SeenAborts, Active

\* The steps of the turn that leave the chain alone.
LEMMA TurnKeeps ==
  ASSUME IInv,
         \/ thrown /\ pc # "checkpoint"
         \/ Reply \/ browserWait \/ stop \/ leaseLost \/ UNCHANGED vars
  PROVE  IInv'
<1>1. UNCHANGED <<chain, broken, seen, errors>>
  BY DEF thrown, Reply, browserWait, stop, leaseLost, vars, beats, start, record, parkDecided,
         parkReplied, browserWaitParked, release, close, closed
<1>2. aborted' \in {"no", "stop", "lease", "park"} /\ (aborted # "no" => aborted' = aborted)
  BY DEF thrown, Reply, browserWait, stop, leaseLost, vars, start, record, parkDecided,
         parkReplied, browserWaitParked, release, close, closed, IInv, Types
<1>3. \/ UNCHANGED <<pc, next>>
      \/ pc # "checkpoint" /\ pc' \in PC \ {"checkpoint"} /\ UNCHANGED next
  BY DEF thrown, Reply, browserWait, stop, leaseLost, vars, turn, start, record, parkDecided,
         parkReplied, browserWaitParked, release, close, closed, PC
<1>4. /\ reply' \in {"none", "parked", "refused", "error"}
      /\ lease' \in {"held", "lost", "released"}
      /\ calls' = calls /\ sent' \in {sent, sent + 1}
      /\ ended' \in BOOLEAN /\ parked' \in BOOLEAN
  BY DEF thrown, Reply, browserWait, stop, leaseLost, vars, turn, flags, start, record,
         parkDecided, parkReplied, browserWaitParked, release, close, closed, IInv, Types
<1>5. Types'
  BY <1>1, <1>2, <1>3, <1>4 DEF IInv, Types
<1>6. MainLink(chain', pc')
  BY <1>1, <1>3 DEF IInv, MainLink
<1>7. \/ UNCHANGED <<ended, armed, heartbeat>>
      \/ ended' = TRUE
      \/ ended' = FALSE /\ heartbeat' \in armed'
  BY DEF thrown, Reply, browserWait, stop, leaseLost, vars, timeouts, flags, start, record,
         parkDecided, parkReplied, browserWaitParked, release, close, closed, scheduleHeartbeat
<1>8. Beats'
  BY <1>1, <1>7 DEF IInv, Beats
<1>9. \/ pc' \notin Active
      \/ pc \in Active /\ ended' = ended
      \/ aborted # "no"
      \/ ended' = FALSE
  BY DEF thrown, Reply, browserWait, stop, leaseLost, vars, turn, flags, start, record,
         parkDecided, parkReplied, browserWaitParked, release, close, closed, Active
<1>10. Running' /\ SeenAborts'
  BY <1>1, <1>2, <1>9 DEF IInv, Running, SeenAborts
<1> QED BY <1>5, <1>6, <1>8, <1>10 DEF IInv

LEMMA StepKeeps == IInv /\ [Next]_vars => IInv'
<1> SUFFICES ASSUME IInv, [Next]_vars  PROVE IInv'
  OBVIOUS
<1>1. CASE (\E t \in Timer : fire(t)) \/ begin \/ decide
  BY <1>1, ChainKeeps
<1>2. CASE settle
  BY <1>2, SettleKeeps
<1>3. CASE preflight
  BY <1>3, CheckpointKeeps, TurnKeeps DEF preflight, Goals, Active, IInv, Types
<1>4. CASE work
  BY <1>4, CheckpointKeeps, TurnKeeps DEF work, Goals, Active, IInv, Types
<1>5. CASE call
  BY <1>5, CheckpointKeeps, TurnKeeps DEF call, Goals, Active, IInv, Types
<1>6. CASE Reply \/ browserWait \/ stop \/ leaseLost \/ UNCHANGED vars
  BY <1>6, TurnKeeps
<1> QED BY <1>1, <1>2, <1>3, <1>4, <1>5, <1>6 DEF Next, Beat

LEMMA InitHolds == Init => IInv
<1> SUFFICES ASSUME Init  PROVE IInv
  OBVIOUS
<1>1. Types
  <2>1. chain \in Seq(Link)
    BY DEF Init
  <2>2. /\ pc = "preflight" /\ next = None /\ reply = "none" /\ calls = 0 /\ sent = 0
        /\ broken = FALSE /\ seen = FALSE /\ errors = 0
        /\ ended = FALSE /\ parked = FALSE /\ aborted = "no" /\ lease = "held"
    BY DEF Init
  <2> QED BY <2>1, <2>2 DEF Types, PC
<1>2. MainLink(chain, pc)
  BY DEF Init, MainLink
<1>3. Beats /\ Running /\ SeenAborts
  BY DEF Init, Beats, Running, SeenAborts
<1> QED BY <1>1, <1>2, <1>3 DEF IInv

\* The inductive invariant of executeClaimed.
THEOREM RenewalInvariant == Spec => []IInv
<1> QED BY InitHolds, StepKeeps, PTL DEF Spec

\* For any number of calls and failed heartbeats: while the turn runs and its
\* signal is not aborted, the next heartbeat is armed or under way, also after a
\* refused park overwrote the handle of a timeout.
THEOREM HeartbeatNeverLost == Spec => []HeartbeatKept
<1>1. IInv => HeartbeatKept
  BY DEF IInv, Beats, Running, Active, TimerLink, HeartbeatKept
<1> QED BY <1>1, RenewalInvariant, PTL

\* Once a renewal failed in an executor that has parked nothing, it never hands
\* another call to an executor, whatever later heartbeats answer.
THEOREM StaleExecutorStays == Spec => StaleNeverRevived
<1>1. IInv /\ [Next]_vars => [seen => sent' = sent]_vars
  <2> SUFFICES ASSUME IInv, Next, seen  PROVE sent' = sent
    OBVIOUS
  <2>1. aborted # "no"
    BY DEF IInv, SeenAborts
  <2>2. CASE record
    BY <2>1, <2>2 DEF record
  <2>3. CASE \/ \E t \in Timer : fire(t)
             \/ Beat \/ preflight \/ work \/ call \/ browserWait \/ stop \/ leaseLost
    BY <2>3 DEF fire, Beat, begin, decide, settle, preflight, work, call, checkpoint, thrown,
                browserWait, stop, leaseLost, turn
  <2>4. CASE Reply /\ ~record
    BY <2>4 DEF Reply, start, parkDecided, parkReplied, browserWaitParked, release, close, closed
  <2> QED BY <2>2, <2>3, <2>4 DEF Next, Reply
<1> QED BY <1>1, RenewalInvariant, PTL DEF Spec, StaleNeverRevived

-----------------------------------------------------------------------------
(* Types: a fresh timeout exists as long as handles do not run out         *)

\* The timeouts somebody refers to are finitely many.
FewTimeouts == IsFiniteSet(armed) /\ armed \subseteq Timer /\ heartbeat \in Timer

LEMMA FreshTimer ==
  ASSUME ~IsFiniteSet(Timer), IInv, FewTimeouts
  PROVE  Fresh \in Timer
<1> DEFINE used == {chain[k].by : k \in DOMAIN chain}
           all == armed \cup used \cup {heartbeat}
<1>1. chain \in Seq(Link) /\ Len(chain) \in Nat /\ DOMAIN chain = 1 .. Len(chain)
  BY DEF IInv, Types
<1>2. IsFiniteSet(DOMAIN chain)
  BY <1>1, FS_Interval
<1>3. IsFiniteSet(used)
  <2> DEFINE by == [k \in DOMAIN chain |-> chain[k].by]
  <2>1. by \in Surjection(DOMAIN chain, used)
    BY DEF Surjection
  <2> QED BY <1>2, <2>1, FS_Surjection
<1>4. IsFiniteSet(armed \cup used)
  BY <1>3, FS_Union DEF FewTimeouts
<1>5. IsFiniteSet(all)
  BY <1>4, FS_AddElement
<1>6. \E t \in Timer : t \notin all
  BY <1>5, FS_Subset
<1>7. \E t \in Timer : /\ t # heartbeat /\ t \notin armed
                       /\ \A k \in DOMAIN chain : chain[k].by # t
  BY <1>6
<1> QED BY <1>7 DEF Fresh

LEMMA TimeoutsKeep ==
  ASSUME ~IsFiniteSet(Timer), IInv, FewTimeouts, [Next]_vars
  PROVE  FewTimeouts'
<1>1. Fresh \in Timer
  BY FreshTimer
<1>2. \/ UNCHANGED <<armed, heartbeat>>
      \/ scheduleHeartbeat
      \/ \E t : armed' = armed \ {t} /\ UNCHANGED heartbeat
  BY DEF Next, Beat, Reply, fire, begin, decide, settle, timerSettled, turnSettled, preflight,
         work, call, checkpoint, thrown, start, record, parkDecided, parkReplied, browserWait,
         browserWaitParked, release, close, closed, stop, leaseLost, clearHeartbeat, timeouts,
         vars
<1>3. CASE scheduleHeartbeat
  BY <1>1, <1>3, FS_AddElement DEF scheduleHeartbeat, FewTimeouts
<1>4. CASE \E t : armed' = armed \ {t} /\ UNCHANGED heartbeat
  BY <1>4, FS_Subset DEF FewTimeouts
<1> QED BY <1>2, <1>3, <1>4 DEF FewTimeouts

\* With timer handles that do not run out, as in the runtime, every variable of
\* executeClaimed keeps its type: in particular the turn never goes on from a
\* checkpoint to a step it did not ask for.
THEOREM RenewalTypes ==
  ASSUME ~IsFiniteSet(Timer)
  PROVE  Spec => []TypeOK
<1>1. Init => FewTimeouts
  <2>1. Timer # {}
    BY FS_EmptySet
  <2>2. Init => heartbeat \in Timer /\ armed = {heartbeat}
    BY <2>1 DEF Init
  <2> QED BY <2>2, FS_Singleton DEF FewTimeouts
<1>2. IInv /\ FewTimeouts /\ [Next]_vars => FewTimeouts'
  BY TimeoutsKeep
<1>3. IInv /\ FewTimeouts => TypeOK
  BY DEF IInv, Types, FewTimeouts, TypeOK, Link, States
<1> QED BY <1>1, <1>2, <1>3, RenewalInvariant, PTL DEF Spec
=============================================================================
