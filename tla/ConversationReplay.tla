------------------------- MODULE ConversationReplay -------------------------
(***************************************************************************)
(* What the model is shown of a thread.  A turn writes message rows and     *)
(* provider calls (the "ledger") one at a time; the next turn, a resumed    *)
(* turn or a turn that was just compacted rebuilds the conversation from    *)
(* them, for the provider it is about to call.  A compaction summarizes the *)
(* conversation and cuts off everything up to a boundary; a turn can die    *)
(* between any two writes, park in the middle of a call's tools, give the   *)
(* thread up while a person holds the browser, and be resumed later.        *)
(*                                                                          *)
(* The log holds rows and calls in the order they take effect; "at" is that *)
(* time.  No two of them share a millisecond, and one executor at a time    *)
(* writes for a thread (the reservation of the invocation queue).           *)
(***************************************************************************)
EXTENDS Naturals, Sequences, FiniteSets

CONSTANTS
  Targets,         \* the model selections the thread's turns choose from
  MaxTurns,        \* turns of the thread
  MaxModelCalls,   \* answers the model gives, over all turns
  MaxCuts,         \* checkpoints, over all turns
  MaxParks,        \* times a turn parks, over all turns
  MaxFolds         \* timeline entries

VARIABLES
  history,        \* message rows (effective order) and llm_call rows
  turnState,  \* status of each turn's invocation
  wait,       \* the action a parked turn waits on
  cut,        \* the latest completed context checkpoint
  flow,       \* the running turn of runAgentFlow
  known,      \* log entries the running turn's conversation holds
  answers,    \* model answers so far: the next llmCallId
  parks,      \* times a turn has parked
  cuts        \* cut contents written so far, for OneCheckpointPerCutoff

replayVars == <<history, turnState, wait, cut, flow, known, answers, parks, cuts>>

Turns == 1..MaxTurns

\* What a turn asks for: OpenAI, Anthropic with extended thinking, and the same
\* Anthropic model with reasoning off.
AllTargets == {"gpt", "claude", "claude_plain"}
ProviderOf(target) == IF target = "gpt" THEN "openai" ELSE "anthropic"

ModelRow ==
  [kind : {"user", "assistant", "tool", "system", "entry", "compaction"},
   turn : 0..MaxTurns, call : 0..MaxModelCalls, use : 0..2, at : Nat]
LlmCall ==
  [kind : {"call"}, turn : Turns, call : 1..MaxModelCalls, at : Nat,
   target : AllTargets, uses : SUBSET (1..2), thinks : BOOLEAN]
ContextCheckpoint ==
  [msg : Nat, msgExact : BOOLEAN, call : Nat, callExact : BOOLEAN,
   covers : SUBSET Nat]

NoCut == [msg |-> 0, msgExact |-> TRUE, call |-> 0, callExact |-> TRUE,
          covers |-> {}]
NoWait == [call |-> 0, use |-> 0, keeps |-> FALSE]
IdleFlow == [stage |-> "idle", turn |-> 0, target |-> "gpt", call |-> 0,
             left |-> {}, keys |-> {}, then |-> "think"]

Now == Len(history) + 1
Row(kind, turn, call, use) ==
  [kind |-> kind, turn |-> turn, call |-> call, use |-> use, at |-> Now]

Rows == {i \in DOMAIN history : history[i].kind # "call"}
Calls == {i \in DOMAIN history : history[i].kind = "call"}

-----------------------------------------------------------------------------
(* Loading a conversation (conversation-loader.ts, provider-ledger.ts).    *)

\* A boundary time is read back as a millisecond Date; one that had a
\* microsecond part compares below the row it was taken from.
After(at, bound, exact) == at > bound \/ (at = bound /\ ~exact)

\* messageAfterCheckpointBoundary
RowsAfterBoundary(entries) ==
  {i \in DOMAIN entries :
     /\ entries[i].kind # "call"
     /\ cut.msg = 0 \/ After(entries[i].at, cut.msg, cut.msgExact)}
StoredRows == RowsAfterBoundary(history)

\* isProviderLedgerMessageCompatible: thinking blocks are only sent back to the
\* same Anthropic model with reasoning enabled.
IsCompatible(c, target) ==
  ~c.thinks \/ ProviderOf(target) # "anthropic" \/ target = "claude"

\* loadProviderLedgerMessages with llmCallAfterBoundary, then the compatible ones.
LedgerCalls(target) ==
  {i \in Calls :
     /\ ProviderOf(history[i].target) = ProviderOf(target)
     /\ cut.call = 0 \/ After(history[i].at, cut.call, cut.callExact)
     /\ IsCompatible(history[i], target)}

LedgerIds(target) == {history[i].call : i \in LedgerCalls(target)}

MutRowsBringUses(target) ==
  {[id |-> <<history[i].call, u>>, at |-> history[i].at, of |-> i] :
     <<i, u>> \in {<<c, v>> \in LedgerCalls(target) \X (1..2) : v \in history[c].uses}}
  \cup {[id |-> <<history[i].call, history[i].use>>, at |-> history[i].at, of |-> i] :
     i \in {r \in StoredRows : history[r].kind = "tool"}}

\* appendStoredMessage: a tool row whose call is not replayed from the ledger
\* brings its own tool_use.
ToolUses(target) ==
  {[id |-> <<history[i].call, u>>, at |-> history[i].at, of |-> i] :
     <<i, u>> \in {<<c, v>> \in LedgerCalls(target) \X (1..2) : v \in history[c].uses}}
  \cup {[id |-> <<history[i].call, history[i].use>>, at |-> history[i].at, of |-> i] :
     i \in {r \in StoredRows :
              history[r].kind = "tool" /\ history[r].call \notin LedgerIds(target)}}

ToolResults ==
  {[id |-> <<history[i].call, history[i].use>>, at |-> history[i].at, of |-> i] :
     i \in {r \in StoredRows : history[r].kind = "tool"}}

\* repairOrphanedToolCalls: every tool_use without a result gets one that says
\* that none was recorded.
RepairOrphaned(target) ==
  {[id |-> u.id, at |-> u.at, of |-> 0] :
     u \in {v \in ToolUses(target) : \A r \in ToolResults : r.id # v.id}}

\* loadInternal: the entries a loaded conversation holds, the checkpoint's
\* replacement history standing for those it covers.
LoadInternal(entries) == cut.covers \cup RowsAfterBoundary(entries)

-----------------------------------------------------------------------------
(* A turn.                                                                 *)

ReplayInit ==
  /\ history = <<>>
  /\ turnState = [t \in Turns |-> "none"]
  /\ wait = [t \in Turns |-> NoWait]
  /\ cut = NoCut
  /\ flow = IdleFlow
  /\ known = {}
  /\ answers = 0
  /\ parks = 0
  /\ cuts = <<>>

\* A thread is free when no turn runs or waits for an answer.
ThreadFree == \A s \in Turns : turnState[s] = "waiting" => ~wait[s].keeps

\* The input row was stored when the message was admitted and is not in the
\* model's context (model_context_at is null) until start() stamps it, after
\* everything visible.
StampInput(t) == Append(history, Row("user", t, 0, 0))

Begin(t, target, entries) ==
  /\ history' = entries
  /\ turnState' = [turnState EXCEPT ![t] = "running"]
  /\ flow' = [IdleFlow EXCEPT !.stage = "pre_turn", !.turn = t, !.target = target]
  /\ known' = LoadInternal(entries)
  /\ UNCHANGED <<cut, answers, parks, cuts>>

TurnBegins(t, target) ==
  /\ flow.stage = "idle" /\ turnState[t] = "none" /\ ThreadFree
  /\ \A s \in Turns : s < t => turnState[s] # "none"
  /\ Begin(t, target, StampInput(t))
  /\ UNCHANGED wait

\* prepareQuestionContinuation: the parked call's result and, for every later
\* tool_use of the same call, a result that says it was not executed; a takeover
\* that interrupted no call leaves a system note.
ContinuationRows(t) ==
  LET w == wait[t]
      c == CHOOSE i \in Calls : history[i].call = w.call
      open == {u \in history[c].uses : u >= w.use}
      row(u, n) == [Row("tool", t, w.call, u) EXCEPT !.at = Now + n]
  IN IF w.call = 0 THEN <<Row("system", t, 0, 0)>>
     ELSE IF Cardinality(open) = 1 THEN <<row(w.use, 0)>>
     ELSE <<row(w.use, 0), row(w.use + 1, 1)>>

ResumeTurn(t, target) ==
  /\ flow.stage = "idle" /\ turnState[t] = "waiting"
  /\ \A s \in Turns : s # t /\ turnState[s] = "waiting" => ~wait[s].keeps
  /\ Begin(t, target, history \o ContinuationRows(t))
  /\ wait' = [wait EXCEPT ![t] = NoWait]

\* A parked turn is canceled, expires, its browser ends, or a new instruction
\* supersedes the browser it waits for.
EndParked(t) ==
  /\ turnState[t] = "waiting"
  /\ turnState' = [turnState EXCEPT ![t] = "ended"]
  /\ wait' = [wait EXCEPT ![t] = NoWait]
  /\ UNCHANGED <<history, cut, flow, known, answers, parks, cuts>>

\* The turn fails, is canceled at one of its checkpoints, or the service dies
\* between two of its writes: nothing of the flow is kept.  A turn that was
\* running is never started again.
EndFlow ==
  /\ flow.stage # "idle"
  /\ turnState' = [turnState EXCEPT ![flow.turn] = "ended"]
  /\ flow' = IdleFlow
  /\ known' = {}
  /\ UNCHANGED <<history, wait, cut, answers, parks, cuts>>

\* fold: a location event older than what the conversation was told becomes a
\* system row of its own, at any time, without a turn.
Fold ==
  /\ Cardinality({i \in DOMAIN history : history[i].kind = "entry"}) < MaxFolds
  /\ history' = Append(history, Row("entry", 0, 0, 0))
  /\ UNCHANGED <<turnState, wait, cut, flow, known, answers, parks, cuts>>
-----------------------------------------------------------------------------
(* Compaction (agent-service.ts compactConversationIfNeeded,               *)
(* context-compactor.ts, context-checkpoint-repository.ts).                *)

Latest(S) == IF S = {} THEN 0
             ELSE CHOOSE n \in {history[i].at : i \in S} : \A i \in S : history[i].at <= n

\* Input rows carry a stamp and compaction rows a Date, both in milliseconds;
\* every other time is the database's.
MayBeExact(bound) ==
  \/ bound = 0
  \/ \E i \in Rows : history[i].at = bound /\ history[i].kind \in {"user", "compaction"}

\* getCurrentContextCheckpointBoundary: the latest visible message of any role and
\* the latest call of any provider.
CurrentBoundary == [msg |-> Latest(Rows), call |-> Latest(Calls)]

Content == Cardinality({i \in DOMAIN history : history[i].kind # "compaction"})

\* Below the threshold, disabled, or the boundary was compacted in this turn.
SkipCompaction ==
  /\ flow.stage \in {"pre_turn", "mid_turn"}
  /\ flow' = [flow EXCEPT !.stage = "think"]
  /\ UNCHANGED <<history, turnState, wait, cut, known, answers, parks, cuts>>

\* The summary and the recent instructions stand for what the conversation holds.
\* Trimming an overlong request is left out: it loses detail, not the cutoff.
BuildReplacementHistory == known

\* recordCompletedContextCheckpoint
RecordCompleted(b, exactly) ==
  cut' = [msg |-> b.msg, msgExact |-> exactly[1], call |-> b.call,
          callExact |-> exactly[2], covers |-> BuildReplacementHistory]

\* Compact: before the turn, between two steps, or, forced, when the provider
\* refused the request as too long; that happens once, and the request is retried.
Compact ==
  /\ flow.stage \in {"pre_turn", "mid_turn", "think"}
  /\ Len(cuts) < MaxCuts
  /\ CurrentBoundary \notin flow.keys
  /\ \E exactly \in BOOLEAN \X BOOLEAN :
       /\ MayBeExact(CurrentBoundary.msg) => exactly[1]
       /\ CurrentBoundary.call = 0 => exactly[2]
       /\ RecordCompleted(CurrentBoundary, exactly)
  /\ cuts' = Append(cuts, <<flow.turn, Content>>)
  /\ flow' = [flow EXCEPT !.stage = "mark", !.keys = @ \cup {CurrentBoundary},
                !.then = IF flow.stage = "think" THEN "retry" ELSE "think"]
  /\ UNCHANGED <<history, turnState, wait, known, answers, parks>>

\* The summary cannot be made: a failed checkpoint is recorded, which no load
\* reads, and the turn fails.
CompactionFails ==
  /\ flow.stage \in {"pre_turn", "mid_turn", "think"}
  /\ EndFlow

\* insertCompactionMessage, the transcript's marker for the cut, then the reload.
InsertCompactionMessage ==
  /\ flow.stage = "mark"
  /\ history' = Append(history, Row("compaction", flow.turn, 0, 0))
  /\ known' = LoadInternal(history')
  /\ flow' = [flow EXCEPT !.stage = flow.then, !.then = "think"]
  /\ UNCHANGED <<turnState, wait, cut, answers, parks, cuts>>

-----------------------------------------------------------------------------
(* The model's answers and their records (agent-service.ts runAgentFlow,   *)
(* transcript-writer.ts, provider-ledger.ts).                              *)

Answering == flow.stage \in {"think", "retry"} /\ answers < MaxModelCalls

\* recordAssistantTextSegment: the text of an answer that goes on with tools.
RecordAssistantTextSegment ==
  /\ Answering
  /\ answers' = answers + 1
  /\ history' = Append(history, Row("assistant", flow.turn, answers + 1, 0))
  /\ known' = known \cup {Len(history) + 1}
  /\ flow' = [flow EXCEPT !.call = answers + 1, !.stage = "ledger"]
  /\ UNCHANGED <<turnState, wait, cut, parks, cuts>>

\* extractToolCalls gives no directive for a call it cannot read: the recorded
\* content keeps its tool_use, the loop never runs it.  With no directive left
\* the answer is the final one.
AnswerShapes == {[uses |-> {1}, dropped |-> {}], [uses |-> {1, 2}, dropped |-> {}],
                 [uses |-> {1, 2}, dropped |-> {1}],
                 [uses |-> {}, dropped |-> {}], [uses |-> {1}, dropped |-> {1}]}
ExtractToolCalls(shape) == shape.uses \ shape.dropped

\* recordLlmCall: the call and its output items in one transaction.
RecordLlmCall ==
  /\ Answering \/ flow.stage = "ledger"
  /\ answers' = IF flow.stage = "ledger" THEN answers ELSE answers + 1
  /\ \E shape \in AnswerShapes :
       LET left == ExtractToolCalls(shape) IN
       /\ flow.stage = "ledger" => left # {}
       /\ history' = Append(history, [kind |-> "call", turn |-> flow.turn,
            call |-> answers', at |-> Now, target |-> flow.target,
            uses |-> shape.uses, thinks |-> flow.target = "claude"])
       /\ flow' = [flow EXCEPT !.left = left, !.call = answers',
                     !.stage = IF left = {} THEN "final" ELSE "tools"]
  /\ known' = known \cup {Len(history) + 1}
  /\ UNCHANGED <<turnState, wait, cut, parks, cuts>>

NextUse == CHOOSE u \in flow.left : \A v \in flow.left : u <= v

\* recordToolResult and recordLlmToolResultItem: one row for each tool that ran.
RecordToolResult ==
  /\ flow.stage = "tools"
  /\ history' = Append(history, Row("tool", flow.turn, flow.call, NextUse))
  /\ known' = known \cup {Len(history) + 1}
  /\ flow' = [flow EXCEPT !.left = @ \ {NextUse},
                !.stage = IF flow.left = {NextUse} THEN "mid_turn" ELSE "tools"]
  /\ UNCHANGED <<turnState, wait, cut, answers, parks, cuts>>

\* The turn parks: before a tool for an answer or a decision (it keeps the
\* thread) or for the browser (it does not), or, with the browser taken over,
\* between two steps.
ParkAt(w) ==
  /\ parks < MaxParks /\ parks' = parks + 1
  /\ wait' = [wait EXCEPT ![flow.turn] = w]
  /\ turnState' = [turnState EXCEPT ![flow.turn] = "waiting"]
  /\ flow' = IdleFlow
  /\ known' = {}
  /\ UNCHANGED <<history, cut, answers, cuts>>

ParkBeforeTool(keeps) ==
  /\ flow.stage = "tools"
  /\ ParkAt([call |-> flow.call, use |-> NextUse, keeps |-> keeps])

ParkBetweenSteps ==
  /\ flow.stage = "think"
  /\ ParkAt(NoWait)

\* recordFinalAssistant, and the turn is over.
RecordFinalAssistant ==
  /\ flow.stage = "final"
  /\ history' = Append(history, Row("assistant", flow.turn, flow.call, 0))
  /\ turnState' = [turnState EXCEPT ![flow.turn] = "ended"]
  /\ flow' = IdleFlow
  /\ known' = {}
  /\ UNCHANGED <<wait, cut, answers, parks, cuts>>

ReplayNext ==
  \/ \E t \in Turns, target \in Targets :
       TurnBegins(t, target) \/ ResumeTurn(t, target)
  \/ \E t \in Turns : EndParked(t)
  \/ EndFlow \/ Fold
  \/ SkipCompaction \/ Compact \/ CompactionFails \/ InsertCompactionMessage
  \/ RecordAssistantTextSegment \/ RecordLlmCall \/ RecordToolResult
  \/ (\E keeps \in BOOLEAN : ParkBeforeTool(keeps)) \/ ParkBetweenSteps
  \/ RecordFinalAssistant

ReplaySpec == ReplayInit /\ [][ReplayNext]_replayVars

-----------------------------------------------------------------------------
(* Properties.                                                             *)

\* Rows, calls and the checkpoint are well formed, and the running flow belongs
\* to the one turn that runs.
ReplayTypeOK ==
  /\ history \in Seq(ModelRow \cup LlmCall)
  /\ cut \in ContextCheckpoint
  /\ turnState \in [Turns -> {"none", "running", "waiting", "ended"}]
  /\ \A t \in Turns : turnState[t] = "running" <=> flow.turn = t
  /\ known \subseteq DOMAIN history

\* Whenever the conversation is loaded and for whichever provider, also after a
\* death between any two writes, every tool_use appears once and has exactly one
\* result, not before it, and there is no result without its tool_use
\* (loadInternal with repairOrphanedToolCalls, "so replay stays valid").
ReplayValid ==
  \A target \in AllTargets :
    LET uses == ToolUses(target)
        results == ToolResults \cup RepairOrphaned(target)
    IN \A id \in {b.id : b \in uses \cup results} :
         /\ Cardinality({u \in uses : u.id = id}) = 1
         /\ Cardinality({r \in results : r.id = id}) = 1
         /\ \A u \in uses, r \in results :
              u.id = id /\ r.id = id => u.at <= r.at

\* Nothing said in the thread falls behind a checkpoint unseen: a row that a load
\* no longer brings was in the conversation that was summarized.  An instruction
\* that was queued while the summary was made is still ahead of the boundary
\* (the stamp of start()), and so is what a resumed turn was answered.
NothingForgotten ==
  \A i \in Rows :
    history[i].kind \in {"user", "assistant", "tool", "system"} =>
      i \in LoadInternal(history)

\* A timeline entry is seen by the agent on its next run, as the comment on fold
\* says: it is in what a load brings or in what was summarized.
EntriesSeen ==
  \A i \in Rows : history[i].kind = "entry" => i \in LoadInternal(history)

\* repairOrphanedToolCalls shows the model "what actually happened": it reports
\* no missing result for a tool whose result was recorded.
RepairsAreTrue ==
  \A target \in AllTargets :
    \A r \in RepairOrphaned(target) :
      \A i \in Rows :
        history[i].kind = "tool" => <<history[i].call, history[i].use>> # r.id

\* Compacted history is not replayed twice: no row behind a checkpoint is loaded
\* along with the checkpoint's summary of it.
ReplayedOnce == cut.covers \cap StoredRows \subseteq
                  {i \in DOMAIN history : history[i].kind = "compaction"}

\* The per-turn boundary guard: a turn writes one checkpoint for one cutoff.
OneCheckpointPerCutoff ==
  \A a, b \in DOMAIN cuts : a # b => cuts[a] # cuts[b]
=============================================================================
