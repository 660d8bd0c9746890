--------------------------- MODULE ToolAgentLoop ---------------------------
(***************************************************************************)
(* One trajectory: the patched ToolAgentLoop.run of                        *)
(* verl/experimental/agent_loop/tool_agent_loop.py, the tau2 session it    *)
(* drives (tau3_grpo/envs/session.py), the interaction that owns the       *)
(* session (envs/interaction.py) and the process-local registry.           *)
(*                                                                         *)
(* Tokens are counted, and the mask and the log-probabilities are kept     *)
(* token by token: 1 is a generated token, 0 an observed one.  A text is   *)
(* what the loop tells apart: how many "<tool_call>" it holds, whether     *)
(* complete_tool_envelopes accepts it, and how many calls the permissive   *)
(* parser returns, three facts that hardly constrain one another.          *)
(* The loop keeps two histories, the policy's token prompt (view) and the  *)
(* session's official message list (log), which the verifier replays.      *)
(*                                                                         *)
(* Definitions under a comment "Variant" are slips of the definition that  *)
(* follows them; Spec uses none of them.                                   *)
(***************************************************************************)
EXTENDS TokenBudget, Sequences

CONSTANTS
  InitialLengths,     (* lengths of rendered initial prompts to consider   *)
  MaxAssistantTurns,  (* multi_turn.max_assistant_turns, SessionLimits     *)
  MaxUserTurns,       (* multi_turn.max_user_turns, SessionLimits          *)
  MaxCalls,           (* bound: calls in one assistant text                *)
  MaxObservation      (* bound: tokens of one rendered observation         *)

ASSUME LoopAssumption ==
  /\ InitialLengths \subseteq Nat
  /\ MaxAssistantTurns \in Nat \ {0}
  /\ MaxUserTurns \in Nat \ {0}
  /\ MaxCalls \in Nat \ {0}
  /\ MaxObservation \in Nat \ {0}

VARIABLES
  pc,              (* AgentState, with the awaits inside the handlers      *)
  budgeted,        (* tau3_token_protocol is configured                    *)
  initialLen,      (* tokens of the rendered initial prompt                *)
  promptLen,       (* len(prompt_ids)                                      *)
  mask,            (* response_mask                                        *)
  logp,            (* response_logprobs: 1 sampled, 0 padded               *)
  complete,        (* complete_generation_logprobs                         *)
  spans,           (* anchor_spans of the assistant segments               *)
  view,            (* roles of the messages whose tokens the policy sees   *)
  assistantTurns,  (* AgentData.assistant_turns                            *)
  userTurns,       (* AgentData.user_turns: observations, tool or user     *)
  reason,          (* AgentData.termination_reason                         *)
  maxTokens,       (* max_tokens of the request in flight                  *)
  batch,           (* AgentData.tool_calls: how many were parsed           *)
  emitted,         (* history: what the session is due of each generation  *)
  reply,           (* what generate_response returned                      *)
  log,             (* TrajectorySession._messages                          *)
  sAssistant,      (* TrajectorySession.assistant_turns                    *)
  sUser,           (* TrajectorySession.user_turns                         *)
  entryReason,     (* SessionEntry.termination_reason                      *)
  registered       (* the request id is in SESSIONS                        *)

config   == <<budgeted, initialLen>>
tokens   == <<promptLen, mask, logp, complete, spans, view>>
turn     == <<assistantTurns, maxTokens, batch, emitted>>
session  == <<log, sAssistant, sUser>>
vars == <<pc, config, tokens, turn, userTurns, reason, reply, session,
          entryReason, registered>>

Reasons == {"none", "max_steps", "context_window_exceeded", "agent_error",
            "user_stop"}
PCs == {"pending", "generating", "awaiting_generation", "processing_tools",
        "executing", "rendering_tools", "interacting", "awaiting_user",
        "user_replied", "terminated", "scoring", "done", "raised"}
Replies == {"none", "text", "stop", "limit", "overflow"}
Roles == {"user", "assistant", "tool"}

Ones(n)  == [i \in 1..n |-> 1]
Zeros(n) == [i \in 1..n |-> 0]

(* A log record: the assistant's turn, and the number of calls (assistant) *)
(* or the index of the answered call (tool).                               *)
Message(role, n) == [role |-> role, turn |-> sAssistant, n |-> n]

(* The last record's answered calls: 0 right after record_tool_batch.      *)
Answered == IF log # <<>> /\ log[Len(log)].role = "tool" THEN log[Len(log)].n ELSE 0
-----------------------------------------------------------------------------
(* What the native parser makes of a text.  It returns nothing without a   *)
(* "<tool_call>" or after an error.  Otherwise any number of calls: an     *)
(* envelope may hold no function or several, and its patterns end at the   *)
(* closing tag or at the end of the text, so a call that was cut off       *)
(* counts as well, and a text whose envelopes are open may have one call   *)
(* for each of them.  A text without an envelope may be incomplete too: a  *)
(* tag cut in its name, a stray one.                                       *)
Readings ==
  {t \in [envelopes: 0..MaxCalls, parsed: 0..MaxCalls, closed: BOOLEAN] :
     t.envelopes = 0 => t.parsed = 0}

(* What a generation returns: tokens, finish_reason, log-probabilities,    *)
(* and the text they decode to; no tokens decode to the empty text.        *)
Generations ==
  {g \in [tokens: 0..PerTurn + 1, finish: {"stop", "length", "abort", "missing"},
          logprobs: {"aligned", "none"}, text: Readings] :
     g.tokens = 0 => g.text = [envelopes |-> 0, parsed |-> 0, closed |-> TRUE]}

(* What the session is due of a generation under the token protocol, after *)
(* the comments of complete_tool_envelopes and generation_result: nothing  *)
(* of a text that was cut off or aborted, nor of one without calls that    *)
(* ran into its limit; otherwise as many calls as it has envelopes.        *)
Nothing == -1
Due(g) ==
  IF \/ ~g.text.closed \/ g.finish = "abort"
     \/ g.finish = "length" /\ g.text.envelopes = 0
  THEN Nothing ELSE g.text.envelopes
-----------------------------------------------------------------------------
(* start_interaction builds and registers the session, with the prompt's   *)
(* user turn mirrored into it when the row carries one.                    *)
Init ==
  /\ pc = "pending"
  /\ budgeted \in BOOLEAN
  /\ initialLen \in InitialLengths
  /\ promptLen = 0 /\ mask = <<>> /\ logp = <<>> /\ complete = TRUE /\ spans = <<>>
  /\ assistantTurns = 0 /\ userTurns = 0
  /\ reason = "none" /\ entryReason = "none" /\ reply = "none"
  /\ maxTokens = 0 /\ batch = 0 /\ emitted = <<>>
  /\ sAssistant = 0
  /\ \/ log = <<[role |-> "user", turn |-> 0, n |-> 0]>> /\ sUser = 1 /\ view = <<"user">>
     \/ log = <<>> /\ sUser = 0 /\ view = <<>>
  /\ registered = TRUE

(* Variant: the exception path forgets finalize_interaction.               *)
ReleaseSkipped == UNCHANGED registered

(* Any exception or cancellation inside run(): finalize_interaction pops   *)
(* the session, then the exception propagates.                             *)
Release == registered' = FALSE
Raise ==
  /\ pc' = "raised"
  /\ Release
  /\ UNCHANGED <<config, tokens, turn, userTurns, reason, reply, session, entryReason>>

Terminate(why) == pc' = "terminated" /\ reason' = why

(* _handle_pending_state: render the prompt, refuse one over prompt_length *)
HandlePending ==
  /\ pc = "pending"
  /\ \/ /\ initialLen <= PromptLimit
        /\ pc' = "generating"
        /\ promptLen' = initialLen
        /\ UNCHANGED <<config, mask, logp, complete, spans, view, turn, userTurns,
                       reason, reply, session, entryReason, registered>>
     \/ initialLen > PromptLimit /\ Raise

(* _handle_generating_state up to the await: the turn caps are tested      *)
(* before the next generation, never after the one just produced.          *)
Remaining ==
  IF budgeted THEN Allowance(promptLen, Len(mask)) ELSE ResponseLimit - Len(mask)

CapReached == assistantTurns >= MaxAssistantTurns \/ userTurns >= MaxUserTurns

RequestGeneration ==
  /\ pc = "generating"
  /\ \/ CapReached /\ Terminate("max_steps") /\ UNCHANGED maxTokens
     \/ ~CapReached /\ Remaining <= 0 /\ Terminate("context_window_exceeded") /\ UNCHANGED maxTokens
     \/ /\ ~CapReached /\ Remaining > 0
        /\ pc' = "awaiting_generation"
        /\ maxTokens' = Least(PerTurn, Remaining)
        /\ UNCHANGED reason
  /\ UNCHANGED <<config, tokens, assistantTurns, batch, emitted, userTurns, reply,
                 session, entryReason, registered>>

(* Variant: the parse check is trusted to find a cut-off batch.            *)
TokenEndPermissive(g) ==
  CASE g.finish = "abort" -> "agent_error"
    [] g.finish = "length" /\ g.text.envelopes = 0 -> "context_window_exceeded"
    [] OTHER -> "none"

(* Variant: the cap ends the turn just produced.                           *)
TokenEndAtCap(g) == IF assistantTurns + 1 >= MaxAssistantTurns THEN "max_steps" ELSE "none"

(* generation_result: the reason the token protocol ends the turn with.    *)
TokenEnd(g) ==
  CASE g.finish = "abort" -> "agent_error"
    [] g.finish # "abort"
         /\ ~(g.text.closed /\ (g.finish = "length" => g.text.envelopes > 0)) ->
         IF g.finish = "length" THEN "context_window_exceeded" ELSE "agent_error"
    [] OTHER -> "none"

(* generation_result raises on an unknown finish_reason or on a violated   *)
(* allowance.  Without the protocol the server honours max_tokens.         *)
Rejected(g) ==
  budgeted /\ (g.finish = "missing" \/ g.tokens = 0 \/ g.tokens > maxTokens)

(* Variant: a generation without log-probabilities is padded.              *)
AppendGenerationPadded(g) ==
  /\ promptLen' = promptLen + g.tokens
  /\ mask' = mask \o Ones(g.tokens)
  /\ spans' = Append(spans, <<Len(mask), Len(mask) + g.tokens>>)
  /\ view' = Append(view, "assistant")
  /\ logp' = logp \o (IF g.logprobs = "aligned" THEN Ones(g.tokens) ELSE Zeros(g.tokens))
  /\ UNCHANGED complete

AppendGeneration(g) ==
  /\ promptLen' = promptLen + g.tokens
  /\ mask' = mask \o Ones(g.tokens)
  /\ spans' = Append(spans, <<Len(mask), Len(mask) + g.tokens>>)
  /\ view' = Append(view, "assistant")
  /\ IF g.logprobs = "aligned"
     THEN logp' = logp \o Ones(g.tokens) /\ UNCHANGED complete
     ELSE complete' = FALSE /\ UNCHANGED logp

(* The permissive parser may drop a malformed call: the whole batch is     *)
(* refused before any write when the counts differ.                        *)
ParseMismatch(g) == budgeted /\ g.text.parsed # g.text.envelopes

ReceiveGeneration(g) ==
  /\ pc = "awaiting_generation"
  /\ budgeted \/ g.tokens <= maxTokens
  /\ \/ Rejected(g) /\ Raise
     \/ /\ ~Rejected(g)
        /\ AppendGeneration(g)
        /\ assistantTurns' = assistantTurns + 1
        /\ emitted' = Append(emitted, Due(g))
        /\ batch' = g.text.parsed
        /\ \/ budgeted /\ TokenEnd(g) # "none" /\ Terminate(TokenEnd(g))
           \/ /\ ~budgeted /\ Len(mask') >= ResponseLimit
              /\ Terminate("context_window_exceeded")
           \/ /\ IF budgeted THEN TokenEnd(g) = "none" ELSE Len(mask') < ResponseLimit
              /\ \/ ParseMismatch(g) /\ Terminate("agent_error")
                 \/ /\ ~ParseMismatch(g)
                    /\ pc' = IF g.text.parsed > 0 THEN "processing_tools" ELSE "interacting"
                    /\ UNCHANGED reason
        /\ UNCHANGED <<config, maxTokens, userTurns, reply, session, entryReason, registered>>
-----------------------------------------------------------------------------
(* _handle_processing_tools_state, sequential mode: record_tool_batch      *)
(* writes one assistant message with every call before the first executes. *)
RecordBatch ==
  /\ pc = "processing_tools"
  /\ pc' = "executing"
  /\ log' = Append(log, Message("assistant", batch))
  /\ sAssistant' = sAssistant + 1
  /\ UNCHANGED <<config, tokens, turn, userTurns, reason, reply, sUser, entryReason, registered>>

(* Variant: an error answer may end the batch.                             *)
ExecuteStopsEarly ==
  /\ pc = "executing" /\ Answered < batch
  /\ log' = Append(log, [role |-> "tool", turn |-> sAssistant - 1, n |-> Answered + 1])
  /\ pc' \in {"rendering_tools", "executing"}
  /\ pc' = "executing" => Answered + 1 < batch
  /\ UNCHANGED <<config, tokens, turn, userTurns, reason, reply, sAssistant, sUser,
                 entryReason, registered>>

(* _call_tool on the next recorded call: a valid call is executed by the   *)
(* tool; malformed arguments or an unknown name are executed through       *)
(* record_tool_failure. Either way the environment answers with one        *)
(* ToolMessage, an error included.                                         *)
ExecuteCall ==
  /\ pc = "executing" /\ Answered < batch
  /\ log' = Append(log, [role |-> "tool", turn |-> sAssistant - 1, n |-> Answered + 1])
  /\ pc' = IF Answered + 1 = batch THEN "rendering_tools" ELSE "executing"
  /\ UNCHANGED <<config, tokens, turn, userTurns, reason, reply, sAssistant, sUser,
                 entryReason, registered>>

(* An exception after dispatch began may have written: it is never retried *)
(* nor turned into an answer.                                              *)
ExecuteFails == pc = "executing" /\ Answered < batch /\ Raise

AppendObservation(role, k) ==
  /\ promptLen' = promptLen + k
  /\ mask' = mask \o Zeros(k)
  /\ logp' = IF logp # <<>> THEN logp \o Zeros(k) ELSE logp
  /\ view' = Append(view, role)
  /\ UNCHANGED <<complete, spans>>

(* The rest of the handler, after apply_chat_template: the calls have run, *)
(* an observation that does not fit is dropped and ends the trajectory.    *)
ObservationFits(k) ==
  IF budgeted THEN Fits(promptLen, Len(mask), k) ELSE Len(mask) + k < ResponseLimit

(* Variant: an observation that does not fit is dropped silently.          *)
ObserveToolsDropped(k) ==
  /\ pc = "rendering_tools"
  /\ IF ObservationFits(k) THEN AppendObservation("tool", k) ELSE UNCHANGED tokens
  /\ userTurns' = userTurns + 1
  /\ pc' = "generating"
  /\ UNCHANGED <<config, turn, reason, reply, session, entryReason, registered>>

ObserveTools(k) ==
  /\ pc = "rendering_tools"
  /\ \/ /\ ObservationFits(k)
        /\ AppendObservation("tool", k)
        /\ userTurns' = userTurns + 1
        /\ pc' = "generating"
        /\ UNCHANGED reason
     \/ /\ ~ObservationFits(k)
        /\ Terminate("context_window_exceeded")
        /\ UNCHANGED <<tokens, userTurns>>
  /\ UNCHANGED <<config, turn, reply, session, entryReason, registered>>
-----------------------------------------------------------------------------
(* generate_response up to the simulator thread: the assistant text is     *)
(* recorded first, so the last allowed turn still reaches the user.        *)
RecordText ==
  /\ pc = "interacting"
  /\ log' = Append(log, Message("assistant", 0))
  /\ sAssistant' = sAssistant + 1
  /\ IF sUser >= MaxUserTurns \/ sAssistant' > MaxAssistantTurns
     THEN pc' = "user_replied" /\ reply' = "limit" /\ entryReason' = "max_steps"
     ELSE pc' = "awaiting_user" /\ UNCHANGED <<reply, entryReason>>
  /\ UNCHANGED <<config, tokens, turn, userTurns, reason, sUser, registered>>

(* user_respond returns from its thread. A simulator context overflow is   *)
(* a termination only under the token protocol, otherwise it propagates.   *)
UserResponds(r) ==
  /\ pc = "awaiting_user"
  /\ \/ /\ r \in {"text", "stop"}
        /\ log' = Append(log, [role |-> "user", turn |-> sAssistant, n |-> 0])
        /\ sUser' = sUser + 1
        /\ entryReason' = IF r = "stop" THEN "user_stop" ELSE entryReason
     \/ /\ r = "overflow" /\ budgeted
        /\ entryReason' = "context_window_exceeded"
        /\ UNCHANGED <<log, sUser>>
  /\ pc' = "user_replied"
  /\ reply' = r
  /\ UNCHANGED <<config, tokens, turn, userTurns, reason, sAssistant, registered>>

(* The rest of _handle_interacting_state. An empty terminal reply adds no  *)
(* tokens under the protocol; a final STOP that does not fit keeps its     *)
(* reason. Without the protocol a user turn is appended unchecked.         *)
ReplyReason ==
  CASE reply = "stop" -> "user_stop"
    [] reply = "limit" -> "max_steps"
    [] reply = "overflow" -> "context_window_exceeded"
    [] OTHER -> "none"

HandleReply(k) ==
  /\ pc = "user_replied"
  /\ userTurns' = userTurns + 1
  /\ reply' = "none"
  /\ \/ /\ budgeted /\ (reply \in {"limit", "overflow"} \/ ~Fits(promptLen, Len(mask), k))
        /\ Terminate(IF reply = "text" THEN "context_window_exceeded" ELSE ReplyReason)
        /\ UNCHANGED tokens
     \/ /\ budgeted => reply \notin {"limit", "overflow"} /\ Fits(promptLen, Len(mask), k)
        /\ AppendObservation("user", k)
        /\ IF reply = "text" THEN pc' = "generating" /\ UNCHANGED reason
                             ELSE Terminate(ReplyReason)
  /\ UNCHANGED <<config, turn, session, entryReason, registered>>
-----------------------------------------------------------------------------
(* Variant: only a conversation the user closed is finalized.              *)
FinalizeOnStopOnly ==
  /\ pc = "terminated"
  /\ IF reason = "user_stop"
     THEN pc' = "scoring" /\ UNCHANGED <<config, tokens, turn, userTurns, reason, reply,
                                          session, entryReason, registered>>
     ELSE UNCHANGED vars

(* finalize_rollout scores in a thread and pops the session in `finally`.  *)
FinalizeRollout ==
  /\ pc = "terminated"
  /\ pc' = "scoring"
  /\ UNCHANGED <<config, tokens, turn, userTurns, reason, reply, session, entryReason, registered>>

(* execution_eligibility: these reasons stay in the training batch.        *)
Eligible(r) == r \in {"user_stop", "max_steps", "context_window_exceeded", "agent_error"}

Scored ==
  /\ pc = "scoring"
  /\ pc' = IF Eligible(reason) THEN "done" ELSE "raised"
  /\ Release
  /\ UNCHANGED <<config, tokens, turn, userTurns, reason, reply, session, entryReason>>

(* A cancellation is delivered, and a server, simulator, tokenizer or      *)
(* verifier exception raised, where the loop awaits something.             *)
Awaiting == {"pending", "awaiting_generation", "processing_tools", "rendering_tools",
             "interacting", "awaiting_user", "user_replied", "scoring"}
Interrupted == pc \in Awaiting /\ Raise

Finished == pc \in {"done", "raised"} /\ UNCHANGED vars

Step ==
  \/ HandlePending \/ RequestGeneration
  \/ \E g \in Generations : ReceiveGeneration(g)
  \/ RecordBatch \/ ExecuteCall \/ ExecuteFails
  \/ \E k \in 1..MaxObservation : ObserveTools(k) \/ HandleReply(k)
  \/ RecordText \/ \E r \in {"text", "stop", "overflow"} : UserResponds(r)
  \/ FinalizeRollout \/ Scored

Next == Step \/ Interrupted \/ Finished

(* The event loop keeps running a ready coroutine, and the awaited server, *)
(* simulator and verifier calls return or raise; nothing forces a          *)
(* cancellation.                                                           *)
Spec == Init /\ [][Next]_vars /\ WF_vars(Step)
-----------------------------------------------------------------------------
(* The AgentLoopOutput that run() builds from the finished trajectory.     *)
PublishedLength == Least(Len(mask), ResponseLimit)
PublishedMask == SubSeq(mask, 1, PublishedLength)
HasLogprobs == logp # <<>> /\ complete /\ Len(logp) = Len(mask)
PublishedLogprobs == IF HasLogprobs THEN SubSeq(logp, 1, PublishedLength) ELSE <<>>
PublishedPrompt == promptLen - Len(mask)
-----------------------------------------------------------------------------
(* Every variable keeps its range, the turn counters their caps.           *)
TypeOK ==
  /\ pc \in PCs /\ budgeted \in BOOLEAN /\ registered \in BOOLEAN /\ complete \in BOOLEAN
  /\ initialLen \in Nat /\ promptLen \in Nat
  /\ mask \in Seq({0, 1}) /\ logp \in Seq({0, 1}) /\ spans \in Seq(Nat \X Nat)
  /\ view \in Seq(Roles)
  /\ assistantTurns \in 0..MaxAssistantTurns /\ userTurns \in 0..MaxUserTurns
  /\ reason \in Reasons /\ entryReason \in Reasons /\ reply \in Replies
  /\ maxTokens \in 0..PerTurn /\ batch \in 0..MaxCalls /\ emitted \in Seq({Nothing} \cup 0..MaxCalls)
  /\ log \in Seq([role: Roles, turn: Nat, n: Nat])
  /\ sAssistant \in 0..MaxAssistantTurns /\ sUser \in 0..MaxUserTurns

(* The token protocol's promise (docs/architecture/token_harness): however *)
(* generations and observations interleave, neither the appended part nor  *)
(* the whole context ever outgrows its limit, and the prompt the output is *)
(* cut at is still the initial one.                                        *)
WithinBudget ==
  /\ budgeted => Len(mask) <= ResponseLimit /\ promptLen <= ContextLimit
  /\ pc \notin {"pending", "raised"} => promptLen = initialLen + Len(mask)

(* What training consumes, over four arrays that five handlers extend:     *)
(* log-probabilities are published only when they cover every token,       *)
(* sampled values exactly at generated positions and padding exactly at    *)
(* observed ones, within the response length; and the anchor spans step    *)
(* credit is assigned by cover the generated tokens exactly, none cut off. *)
OutputAligned ==
  pc = "done" =>
    /\ PublishedPrompt = initialLen
    /\ Len(PublishedMask) <= ResponseLimit
    /\ HasLogprobs => PublishedLogprobs = PublishedMask
    /\ {i \in 1..PublishedLength : PublishedMask[i] = 1} =
         UNION {spans[j][1] + 1..spans[j][2] : j \in 1..Len(spans)}

(* A session reaches the verifier only as an official message list: each   *)
(* assistant message with n calls is followed by its n answers, in order.  *)
(* Under the token protocol nothing of a text that was cut off or aborted, *)
(* or of which the parser did not return as many calls as it has           *)
(* envelopes, reaches the session, whatever calls the parser did return:   *)
(* what is recorded of a turn is what the session is due of its text.      *)
Answers ==
  /\ \A i \in 1..Len(log) : log[i].role = "assistant" =>
       \A j \in 1..log[i].n :
         /\ i + j <= Len(log)
         /\ log[i + j] = [role |-> "tool", turn |-> log[i].turn, n |-> j]
  /\ \A i \in 1..Len(log) : log[i].role = "tool" =>
       /\ log[i].n < i
       /\ log[i - log[i].n].role = "assistant" /\ log[i].n <= log[i - log[i].n].n

CallsAnswered ==
  /\ pc \in {"scoring", "done"} => Answers
  /\ budgeted => \A i \in 1..Len(log) :
       log[i].role = "assistant" => log[i].n = emitted[log[i].turn + 1]

(* What the records tell the policy: their roles, of the answers to one    *)
(* batch only the first, since one observation renders them all.           *)
Transcript ==
  LET told[i \in 0..Len(log)] ==
        IF i = 0 THEN <<>>
        ELSE IF log[i].role = "tool" /\ log[i].n # 1 THEN told[i - 1]
        ELSE Append(told[i - 1], log[i].role)
  IN  told[Len(log)]

(* The two histories agree whenever the policy is about to generate: the   *)
(* conversation whose tokens it sees is the one the simulator and the      *)
(* verifier see (record_initial_user_text's reason to exist).              *)
SameConversation == pc = "generating" => view = Transcript

(* "The last allowed turn must reach its tool/interaction handler and be   *)
(* recorded before the trajectory can be finalized": a turn cap never      *)
(* drops a generation from the official history.                           *)
LastTurnHandled == reason = "max_steps" => sAssistant = assistantTurns

(* The verdict's reason: scoring starts with a reason that keeps the row   *)
(* in the batch, and it is the interaction's own when that one ended it.   *)
VerdictReason ==
  pc \in {"terminated", "scoring", "done"} =>
    /\ Eligible(reason)
    /\ entryReason # "none" => reason = entryReason

(* The private session lives exactly as long as the trajectory: every way  *)
(* out of run(), an exception at any await included, releases it.          *)
SessionOwned == registered <=> pc \notin {"done", "raised"}

(* The turn caps and the budgets end every trajectory.                     *)
Terminates == <>(pc \in {"done", "raised"})
=============================================================================
