---------------------------- MODULE LeaseRenewal ----------------------------
(***************************************************************************)
(* One call of executeClaimed (service/src/agent/invocation-worker.ts):    *)
(* the heartbeat timer, the chain of renewals, the controller and the      *)
(* flags ended and parked, against an agent turn that reaches checkpoints, *)
(* records and parks calls, and a database that answers when it likes.     *)
(*                                                                         *)
(* A renewal is appended to the chain, starts when those before it are     *)
(* settled, is decided by the database, and its reply is processed later:  *)
(* four actions.  A park has a decision and a reply.  The other repository *)
(* calls of the turn race with nothing here and are one action.            *)
(***************************************************************************)
EXTENDS Integers, Sequences

CONSTANTS Timer,       \* identities for timeouts
          MaxCalls,    \* bound on the calls of the turn
          MaxErrors,   \* bound on heartbeats the database fails to answer
          None

ASSUME RenewalAssumption ==
  MaxCalls \in Nat /\ MaxErrors \in Nat /\ None \notin Timer /\ "main" \notin Timer

VARIABLES
  pc,         \* what executeClaimed or the turn under it awaits
  next,       \* what follows the checkpoint the turn awaits
  reply,      \* the database's answer to a park, not yet processed
  chain,      \* renewals not settled: by whom, and how far the first one is
  broken,     \* renewal is a rejected promise
  armed,      \* timeouts that will fire
  heartbeat,  \* the timeout in the variable heartbeat
  ended, parked,
  aborted,    \* why the controller's signal is aborted, or "no"
  lease,      \* the lease in the database: held, lost, or released by the turn
  calls,      \* calls of the turn so far
  sent,       \* how many of them were handed to their executor
  seen,       \* history: a renewal failed before anything was parked
  errors      \* unanswered heartbeats so far

vars == <<pc, next, reply, chain, broken, armed, heartbeat, ended, parked, aborted, lease,
          calls, sent, seen, errors>>
turn == <<pc, next, reply, calls, sent>>
beats == <<chain, broken, seen, errors>>
timeouts == <<armed, heartbeat>>
flags == <<ended, parked>>

PC == {"preflight", "checkpoint", "start", "work", "record", "call", "park", "wait", "defer",
       "finish", "finally", "closing", "done"}
Goals == {"defer", "start", "work", "record", "park", "finish"}

TypeOK ==
  /\ pc \in PC /\ next \in Goals \cup {None}
  /\ reply \in {"none", "parked", "refused", "error"}
  /\ chain \in Seq([by : Timer \cup {"main"},
                   st : {"queued", "sent", "ok", "failed", "overtaken"}])
  /\ broken \in BOOLEAN /\ ended \in BOOLEAN /\ parked \in BOOLEAN /\ seen \in BOOLEAN
  /\ armed \in SUBSET Timer /\ heartbeat \in Timer \cup {None}
  /\ aborted \in {"no", "stop", "lease", "park"}
  /\ lease \in {"held", "lost", "released"}
  /\ calls \in Nat /\ sent \in Nat /\ errors \in Nat

-----------------------------------------------------------------------------
(* Renewals and the timer                                                  *)

\* A timer handle nobody refers to any more.
Fresh == CHOOSE t \in Timer : /\ t # heartbeat /\ t \notin armed
                              /\ \A k \in DOMAIN chain : chain[k].by # t

\* scheduleHeartbeat(): the variable refers to the new timeout.  An older one
\* that is still armed stays armed.
scheduleHeartbeat == heartbeat' = Fresh /\ armed' = armed \cup {Fresh}

\* clearTimeout(heartbeat)
clearHeartbeat == armed' = armed \ {heartbeat} /\ UNCHANGED heartbeat

\* renew(): one more link of the chain.
renew(who) == chain' = Append(chain, [by |-> who, st |-> "queued"])

\* The timeout fires.
fire(t) ==
  /\ t \in armed
  /\ armed' = armed \ {t}
  /\ renew(t)
  /\ UNCHANGED <<turn, broken, seen, errors, heartbeat, flags, aborted, lease>>

\* The first link runs: after a rejected one, and for an aborted controller, it
\* rejects; otherwise it asks the database.
begin ==
  /\ chain # <<>> /\ chain[1].st = "queued"
  /\ chain' = [chain EXCEPT ![1].st = IF broken \/ aborted # "no" THEN "failed" ELSE "sent"]
  /\ UNCHANGED <<turn, broken, seen, errors, timeouts, flags, aborted, lease>>

\* lockedLease's answer.  A heartbeat that waited for the row behind the turn's
\* own park is told apart.
MutRenewLost == IF lease # "released" THEN "ok" ELSE "failed"
LockedLease ==
  CASE lease = "held" -> "ok"
    [] lease = "released" /\ pc \in {"park", "wait"} -> "overtaken"
    [] OTHER -> "failed"

\* The database decides the heartbeat, or the connection fails.
decide ==
  /\ chain # <<>> /\ chain[1].st = "sent"
  /\ \/ /\ chain' = [chain EXCEPT ![1].st = LockedLease]
        /\ UNCHANGED errors
     \/ /\ errors < MaxErrors /\ errors' = errors + 1
        /\ chain' = [chain EXCEPT ![1].st = "failed"]
  /\ UNCHANGED <<turn, broken, seen, timeouts, flags, aborted, lease>>

\* What a link that failed in this way does to the controller: nothing once the
\* turn is parked.
Abort(st) ==
  CASE parked \/ aborted # "no" \/ st = "ok" -> aborted
    [] OTHER -> IF st = "overtaken" THEN "park" ELSE "lease"

\* The timer's link is settled: another timeout unless the task has ended.
timerSettled ==
  /\ \/ ~ended /\ scheduleHeartbeat
     \/ ended /\ UNCHANGED timeouts
  /\ UNCHANGED <<pc, next, ended>>

\* The turn's link is settled.  A good one lets it go on; parking stops the
\* heartbeat first.  A bad one is thrown through the turn, and executeClaimed
\* records an outcome.
turnSettled(ok) ==
  \/ /\ ok /\ next = "park"
     /\ pc' = "park" /\ ended' = TRUE /\ clearHeartbeat
     /\ next' = None
  \/ /\ ok /\ next # "park"
     /\ pc' = next /\ next' = None
     /\ UNCHANGED <<timeouts, ended>>
  \/ /\ ~ok
     /\ pc' = "finish" /\ next' = None
     /\ UNCHANGED <<timeouts, ended>>

\* The reply to the first link is processed.  A rejection is kept.
settle ==
  /\ chain # <<>> /\ chain[1].st \notin {"queued", "sent"}
  /\ LET ok == chain[1].st = "ok" IN
     /\ chain' = Tail(chain)
     /\ broken' = (broken \/ ~ok)
     /\ aborted' = Abort(chain[1].st)
     /\ seen' = (seen \/ (~ok /\ ~parked))
     /\ IF chain[1].by = "main" THEN turnSettled(ok) ELSE timerSettled
  /\ UNCHANGED <<reply, calls, sent, parked, errors, lease>>

-----------------------------------------------------------------------------
(* The turn                                                                *)

\* executeClaimed up to the preflight.
Init ==
  /\ pc = "preflight" /\ next = None /\ reply = "none" /\ calls = 0 /\ sent = 0
  /\ chain = <<>> /\ broken = FALSE /\ seen = FALSE /\ errors = 0
  /\ heartbeat = (CHOOSE t \in Timer : TRUE) /\ armed = {heartbeat}
  /\ ended = FALSE /\ parked = FALSE /\ aborted = "no" /\ lease = "held"

\* await renew() with what follows it.
checkpoint(goal) ==
  /\ pc' = "checkpoint" /\ next' = goal
  /\ renew("main")
  /\ UNCHANGED <<reply, sent, broken, seen, errors, timeouts, flags, aborted, lease>>

\* Something is thrown: executeClaimed records an outcome.
thrown ==
  /\ pc' = "finish"
  /\ UNCHANGED <<next, reply, calls, sent, beats, timeouts, flags, aborted, lease>>

preflight ==
  /\ pc = "preflight"
  /\ \/ \E goal \in {"defer", "start"} : checkpoint(goal) /\ UNCHANGED calls
     \/ thrown

\* start and prepareQuestionContinuation, or their rejection.  A pause that won
\* defers the invocation.
start ==
  /\ pc = "start"
  /\ pc' \in IF lease = "held" THEN {"work", "defer", "finish"} ELSE {"finish"}
  /\ UNCHANGED <<next, reply, calls, sent, beats, timeouts, flags, aborted, lease>>

\* The turn reaches a checkpoint, a call to record, a call to park, or its end.
work ==
  /\ pc = "work"
  /\ \/ \E goal \in {"work", "finish"} : checkpoint(goal) /\ UNCHANGED calls
     \/ /\ calls < MaxCalls /\ calls' = calls + 1
        /\ \E goal \in {"record", "park"} : checkpoint(goal)
     \/ thrown

\* recordAction, and the dispatch it allows unless the signal is aborted.
record ==
  /\ pc = "record"
  /\ IF lease = "held" /\ aborted = "no" THEN pc' = "call" /\ sent' = sent + 1
                                          ELSE pc' = "finish" /\ UNCHANGED sent
  /\ UNCHANGED <<next, reply, calls, beats, timeouts, flags, aborted, lease>>

\* The call returns and reaches the checkpoint before its result is stored, or
\* throws.
call ==
  /\ pc = "call"
  /\ (checkpoint("work") /\ UNCHANGED calls) \/ thrown

\* The database decides a park: it releases the lease, refuses the request or
\* rejects.
parkDecided ==
  /\ pc = "park" /\ reply = "none"
  /\ \/ lease = "held" /\ reply' = "parked" /\ lease' = "released"
     \/ lease = "held" /\ reply' = "refused" /\ UNCHANGED lease
     \/ reply' = "error" /\ lease' \in {lease, IF lease = "held" THEN "released" ELSE lease}
  /\ UNCHANGED <<pc, next, calls, sent, beats, timeouts, flags, aborted>>

\* The park's reply.  After a park the turn returns waiting_for_user, unless the
\* handoff path finds the signal aborted and throws.  A refusal takes the
\* heartbeat up again; for an aborted controller only when nothing is thrown.
MutNoReschedule ==
  /\ pc = "park" /\ reply = "refused" /\ reply' = "none"
  /\ pc' = "work" /\ ended' = FALSE
  /\ UNCHANGED <<next, calls, sent, beats, timeouts, parked, aborted, lease>>
parkReplied ==
  /\ pc = "park" /\ reply # "none" /\ reply' = "none"
  /\ \/ /\ reply = "parked"
        /\ parked' = TRUE
        /\ pc' \in {"finally"} \cup (IF aborted # "no" THEN {"finish"} ELSE {})
        /\ UNCHANGED <<ended, timeouts>>
     \/ /\ reply = "refused"
        /\ pc' = "work"
        /\ \/ ended' = FALSE /\ scheduleHeartbeat
           \/ aborted # "no" /\ UNCHANGED <<ended, timeouts>>
        /\ UNCHANGED parked
     \/ /\ reply = "error"
        /\ pc' = "finish"
        /\ UNCHANGED <<ended, parked, timeouts>>
  /\ UNCHANGED <<next, calls, sent, beats, aborted, lease>>

\* A browser call finds the browser in human hands: its transaction parks the
\* invocation while the heartbeat goes on.
browserWait ==
  /\ pc = "call" /\ lease = "held"
  /\ pc' = "wait" /\ lease' = "released"
  /\ UNCHANGED <<next, reply, calls, sent, beats, timeouts, flags, aborted>>

\* The BrowserToolWait reaches the agent loop.
browserWaitParked ==
  /\ pc = "wait"
  /\ ended' = TRUE /\ parked' = TRUE
  /\ clearHeartbeat
  /\ pc' = "finally"
  /\ UNCHANGED <<next, reply, calls, sent, beats, aborted, lease>>

\* defer and finish release the lease when it is still held; otherwise the
\* outcome is not committed.  Either may fail to commit.
release ==
  /\ pc \in {"defer", "finish"}
  /\ pc' = "finally"
  /\ lease' \in IF lease = "held" THEN {"held", "released"} ELSE {lease}
  /\ UNCHANGED <<next, reply, calls, sent, beats, timeouts, flags, aborted>>

\* The finally block, and its wait for the renewals under way.
close ==
  /\ pc = "finally"
  /\ pc' = "closing" /\ ended' = TRUE
  /\ clearHeartbeat
  /\ UNCHANGED <<next, reply, calls, sent, beats, parked, aborted, lease>>

closed ==
  /\ pc = "closing" /\ chain = <<>>
  /\ pc' = "done"
  /\ UNCHANGED <<next, reply, calls, sent, beats, timeouts, flags, aborted, lease>>

-----------------------------------------------------------------------------
(* The rest of the service                                                 *)

\* stop() aborts the controllers.
stop ==
  /\ pc # "done" /\ aborted = "no"
  /\ aborted' = "stop"
  /\ UNCHANGED <<turn, beats, timeouts, flags, lease>>

\* A cancellation, a deleted thread or a lapse: heartbeats fail from now on.
leaseLost ==
  /\ lease = "held"
  /\ lease' = "lost"
  /\ UNCHANGED <<turn, beats, timeouts, flags, aborted>>

Beat == begin \/ decide \/ settle
Reply == start \/ record \/ parkDecided \/ parkReplied \/ browserWaitParked \/ release
         \/ close \/ closed

Next ==
  \/ \E t \in Timer : fire(t)
  \/ Beat \/ Reply
  \/ preflight \/ work \/ call \/ browserWait
  \/ stop \/ leaseLost

Spec == Init /\ [][Next]_vars

\* Timers fire, callbacks run and the database answers.  The turn itself may
\* hang in a model or tool call.
FairSpec ==
  Spec /\ WF_vars(Beat) /\ WF_vars(Reply) /\ \A t \in Timer : WF_vars(fire(t))

-----------------------------------------------------------------------------
(* Properties                                                              *)

\* While the turn runs under its lease there is always a next heartbeat, armed or
\* in the chain: a park that is refused while the timer's own renewal is under
\* way does not leave a long tool call without one.
HeartbeatKept ==
  pc \in {"preflight", "checkpoint", "start", "work", "record", "call", "wait"}
  /\ aborted = "no" =>
    heartbeat \in armed \/ \E k \in DOMAIN chain : chain[k].by # "main"

\* "Failed renewal stays rejected so a later checkpoint cannot revive a stale
\* executor": once a renewal failed, no further call is dispatched, although the
\* next heartbeat might succeed.
StaleNeverRevived == [][seen => sent' = sent]_vars

\* A turn that hangs in a model or tool call learns of a cancellation or a lost
\* lease through its heartbeat.
LossNoticed == lease = "lost" ~> aborted # "no" \/ pc = "done"

\* After the task has ended its heartbeats end too, also one whose handle was
\* overwritten and so was not cleared.
HeartbeatsEnd == pc = "done" ~> [](armed = {} /\ chain = <<>>)

\* "committed park must not abort the controller": a heartbeat that fails because
\* of the turn's own park leaves the signal alone.
ParkNeverAborts == aborted # "park"
=============================================================================
