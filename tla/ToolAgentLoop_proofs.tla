------------------------ MODULE ToolAgentLoop_proofs -----------------------
(***************************************************************************)
(* Theorems about ToolAgentLoop for every budget, every turn cap and every *)
(* initial prompt.  The argument is inductive one part after the other:    *)
(* BudgetInv (tokens), TurnsInv (the turn counters of the loop and of the  *)
(* session, and the reasons), LogInv (the message list), ArraysInv (the    *)
(* arrays of the response and the spans in it), CallsInv and EmissionInv   *)
(* (the calls a generation asked for, and what became of them).            *)
(***************************************************************************)
EXTENDS ToolAgentLoop, SequenceTheorems, WellFoundedInduction, TLAPS

(* TokenBudget.allowance never grants more than what is left of either     *)
(* limit, nor more than a turn.                                            *)
LEMMA AllowanceBounds ==
  ASSUME NEW prompt \in Nat, NEW appended \in Nat
  PROVE  /\ Allowance(prompt, appended) \in 0..PerTurn
         /\ appended <= ResponseLimit => appended + Allowance(prompt, appended) <= ResponseLimit
         /\ prompt <= ContextLimit => prompt + Allowance(prompt, appended) <= ContextLimit
BY BudgetAssumption DEF Allowance, Least

(* TokenBudget.fits accepts exactly the observations after which neither   *)
(* limit is passed, equality included.                                     *)
LEMMA FitsExact ==
  ASSUME NEW prompt \in Nat, NEW appended \in Nat, NEW k \in Nat
  PROVE  Fits(prompt, appended, k) <=>
           appended + k \in 0..ResponseLimit /\ prompt + k \in 0..ContextLimit
BY BudgetAssumption DEF Fits

LEMMA OnesType ==
  ASSUME NEW n \in Nat
  PROVE  /\ Ones(n) \in Seq({0, 1}) /\ Len(Ones(n)) = n
         /\ Zeros(n) \in Seq({0, 1}) /\ Len(Zeros(n)) = n
BY DEF Ones, Zeros

LEMMA GenerationType ==
  ASSUME NEW g \in Generations
  PROVE  /\ g.tokens \in 0..PerTurn + 1 /\ g.text.parsed \in 0..MaxCalls
         /\ g.text.envelopes \in 0..MaxCalls /\ g.text.closed \in BOOLEAN
         /\ g.finish \in {"stop", "length", "abort", "missing"}
         /\ Due(g) \in {Nothing} \cup 0..MaxCalls
<1>1. /\ g.tokens \in 0..PerTurn + 1 /\ g.text \in Readings
      /\ g.finish \in {"stop", "length", "abort", "missing"}
  BY DEF Generations
<1>2. /\ g.text.parsed \in 0..MaxCalls /\ g.text.envelopes \in 0..MaxCalls
      /\ g.text.closed \in BOOLEAN
  BY <1>1 DEF Readings
<1> QED  BY <1>1, <1>2 DEF Due

(* The token protocol lets a turn go on exactly when its text is complete  *)
(* and not aborted, and has calls or ended by itself.                      *)
LEMMA TokenEndExact ==
  ASSUME NEW g \in Generations
  PROVE  /\ TokenEnd(g) = "none" <=> Due(g) # Nothing
         /\ Due(g) # Nothing => Due(g) = g.text.envelopes
<1>1. /\ g.text.envelopes \in 0..MaxCalls /\ g.text.closed \in BOOLEAN
      /\ g.finish \in {"stop", "length", "abort", "missing"}
  BY GenerationType
<1>2. g.text.envelopes # Nothing  BY <1>1, LoopAssumption DEF Nothing
<1> QED  BY <1>1, <1>2, LoopAssumption DEF TokenEnd, Due
-----------------------------------------------------------------------------
TokensOK ==
  /\ pc \in PCs /\ budgeted \in BOOLEAN /\ initialLen \in Nat /\ promptLen \in Nat
  /\ mask \in Seq({0, 1}) /\ logp \in Seq({0, 1}) /\ complete \in BOOLEAN
  /\ spans \in Seq(Nat \X Nat) /\ view \in Seq(Roles)
  /\ maxTokens \in 0..PerTurn

(* WithinBudget, and what the request in flight may still add to it.       *)
BudgetInv ==
  /\ TokensOK
  /\ WithinBudget
  /\ pc = "pending" => promptLen = 0 /\ mask = <<>>
  /\ pc = "awaiting_generation" /\ budgeted =>
       Len(mask) + maxTokens <= ResponseLimit /\ promptLen + maxTokens <= ContextLimit

LEMMA BudgetInit == Init => BudgetInv
<1>. HAVE Init
<1>. USE DEF Init
<1>1. initialLen \in Nat  BY LoopAssumption
<1>2. view \in Seq(Roles)
  <2>1. view = <<"user">> \/ view = << >>  OBVIOUS
  <2>2. <<"user">> \in Seq(Roles) /\ << >> \in Seq(Roles)  BY DEF Roles
  <2>. QED  BY <2>1, <2>2
<1>3. TokensOK  BY <1>1, <1>2, BudgetAssumption DEF TokensOK, PCs
<1>4. WithinBudget  BY BudgetAssumption DEF WithinBudget
<1>. QED  BY <1>3, <1>4 DEF BudgetInv

LEMMA ConcatBits ==
  ASSUME NEW a \in Seq({0, 1}), NEW b \in Seq({0, 1})
  PROVE  a \o b \in Seq({0, 1}) /\ Len(a \o b) = Len(a) + Len(b)
BY ConcatProperties

LEMMA AppendTyped ==
  ASSUME NEW S, NEW s \in Seq(S), NEW e \in S
  PROVE  Append(s, e) \in Seq(S)
BY AppendProperties

(* The appended tokens, and what they leave of the types.                  *)
LEMMA GenerationAppends ==
  ASSUME BudgetInv, NEW g \in Generations, AppendGeneration(g)
  PROVE  /\ promptLen' = promptLen + g.tokens /\ promptLen' \in Nat
         /\ mask' \in Seq({0, 1}) /\ Len(mask') = Len(mask) + g.tokens
         /\ logp' \in Seq({0, 1}) /\ complete' \in BOOLEAN
         /\ spans' \in Seq(Nat \X Nat) /\ view' \in Seq(Roles)
<1>0. /\ promptLen \in Nat /\ mask \in Seq({0, 1}) /\ logp \in Seq({0, 1})
      /\ complete \in BOOLEAN /\ spans \in Seq(Nat \X Nat) /\ view \in Seq(Roles)
  BY DEF BudgetInv, TokensOK
<1>1. g.tokens \in Nat  BY GenerationType
<1>2. promptLen' = promptLen + g.tokens /\ promptLen' \in Nat
  <2>1. promptLen \in Nat  BY <1>0
  <2>2. promptLen' = promptLen + g.tokens  BY DEF AppendGeneration
  <2>. QED  BY <1>1, <2>1, <2>2
<1>3. Ones(g.tokens) \in Seq({0, 1}) /\ Len(Ones(g.tokens)) = g.tokens
  BY <1>1, OnesType
<1>4. mask' \in Seq({0, 1}) /\ Len(mask') = Len(mask) + g.tokens
  <2>1. mask' = mask \o Ones(g.tokens)  BY DEF AppendGeneration
  <2>2. mask \in Seq({0, 1})  BY <1>0
  <2>3. /\ mask \o Ones(g.tokens) \in Seq({0, 1})
        /\ Len(mask \o Ones(g.tokens)) = Len(mask) + Len(Ones(g.tokens))
    BY <2>2, <1>3, ConcatBits
  <2>. QED  BY <2>1, <2>3, <1>3
<1>5. spans' \in Seq(Nat \X Nat)
  <2>1. <<Len(mask), Len(mask) + g.tokens>> \in Nat \X Nat  BY <1>0, <1>1
  <2>2. spans' = spans \/ spans' = Append(spans, <<Len(mask), Len(mask) + g.tokens>>)
    BY DEF AppendGeneration
  <2>3. spans \in Seq(Nat \X Nat)  BY <1>0
  <2>4. Append(spans, <<Len(mask), Len(mask) + g.tokens>>) \in Seq(Nat \X Nat)
    BY <2>1, <2>3, AppendTyped
  <2>. QED  BY <2>2, <2>3, <2>4
<1>6. view' \in Seq(Roles)
  <2>1. view' = view \/ view' = Append(view, "assistant")  BY DEF AppendGeneration
  <2>2. "assistant" \in Roles  BY DEF Roles
  <2>3. view \in Seq(Roles)  BY <1>0
  <2>4. Append(view, "assistant") \in Seq(Roles)  BY <2>2, <2>3, AppendTyped
  <2>. QED  BY <2>1, <2>3, <2>4
<1>7. logp' \in Seq({0, 1}) /\ complete' \in BOOLEAN
  <2>0. logp \in Seq({0, 1}) /\ complete \in BOOLEAN  BY <1>0
  <2>1. logp \o Ones(g.tokens) \in Seq({0, 1})  BY <2>0, <1>3, ConcatBits
  <2>2. logp' = logp \/ logp' = logp \o Ones(g.tokens)  BY DEF AppendGeneration
  <2>3. complete' = complete \/ complete' = FALSE  BY DEF AppendGeneration
  <2>. QED  BY <2>0, <2>1, <2>2, <2>3
<1>. QED  BY <1>2, <1>4, <1>5, <1>6, <1>7

LEMMA ObservationAppends ==
  ASSUME BudgetInv, NEW k \in Nat, NEW role \in Roles, AppendObservation(role, k)
  PROVE  /\ promptLen' = promptLen + k /\ promptLen' \in Nat
         /\ mask' \in Seq({0, 1}) /\ Len(mask') = Len(mask) + k
         /\ logp' \in Seq({0, 1}) /\ view' \in Seq(Roles)
         /\ complete' = complete /\ spans' = spans
<1>. USE DEF BudgetInv, TokensOK, AppendObservation
<1>1. mask' \in Seq({0, 1}) /\ Len(mask') = Len(mask) + k
  BY OnesType, ConcatProperties
<1>2. logp' \in Seq({0, 1})  BY OnesType, ConcatProperties
<1>3. view' \in Seq(Roles)  BY AppendProperties
<1>. QED  BY <1>1, <1>2, <1>3

(* Steps that leave the tokens alone and do not go back to a generation.   *)
LEMMA BudgetFrame ==
  ASSUME BudgetInv, UNCHANGED <<config, tokens, maxTokens>>,
         pc' \in PCs \ {"pending", "awaiting_generation"},
         pc \in {"pending", "raised"} => pc' = "raised"
  PROVE  BudgetInv'
<1>1. /\ budgeted' = budgeted /\ initialLen' = initialLen /\ promptLen' = promptLen
      /\ mask' = mask /\ logp' = logp /\ complete' = complete /\ spans' = spans
      /\ view' = view /\ maxTokens' = maxTokens
  BY DEF config, tokens
<1>2. TokensOK'  BY <1>1 DEF BudgetInv, TokensOK
<1>3. WithinBudget'  BY <1>1 DEF BudgetInv, WithinBudget
<1>. QED  BY <1>1, <1>2, <1>3 DEF BudgetInv

(* An observation the budget fits keeps the invariant.                     *)
LEMMA BudgetObserves ==
  ASSUME BudgetInv, NEW k \in Nat, NEW role \in Roles, AppendObservation(role, k),
         UNCHANGED <<config, maxTokens>>,
         budgeted => Fits(promptLen, Len(mask), k),
         pc \notin {"pending", "raised"}, pc' \in {"generating", "terminated"}
  PROVE  BudgetInv'
<1>1. /\ promptLen' = promptLen + k /\ Len(mask') = Len(mask) + k
      /\ budgeted' = budgeted /\ initialLen' = initialLen /\ maxTokens' = maxTokens
  BY ObservationAppends DEF config
<1>2. TokensOK'  BY <1>1, ObservationAppends DEF BudgetInv, TokensOK, PCs
<1>3. WithinBudget'
  <2>1. budgeted => Len(mask) + k <= ResponseLimit /\ promptLen + k <= ContextLimit
    BY DEF Fits
  <2>2. promptLen + k = initialLen + (Len(mask) + k)
    BY DEF BudgetInv, TokensOK, WithinBudget
  <2>. QED  BY <1>1, <2>1, <2>2 DEF WithinBudget
<1>. QED  BY <1>2, <1>3 DEF BudgetInv

LEMMA BudgetStep ==
  ASSUME BudgetInv, Next
  PROVE  BudgetInv'
<1>. USE DEF PCs
<1>1. CASE HandlePending
  <2>1. CASE Raise
    BY <2>1, BudgetFrame DEF Raise, turn
  <2>2. CASE ~Raise
    <3>1. /\ initialLen <= PromptLimit /\ pc = "pending" /\ pc' = "generating"
          /\ promptLen' = initialLen
          /\ UNCHANGED <<config, mask, logp, complete, spans, view, turn>>
      BY <1>1, <2>2 DEF HandlePending
    <3>. QED
      BY <3>1, BudgetAssumption DEF BudgetInv, TokensOK, WithinBudget, config, turn
  <2>. QED  BY <2>1, <2>2
<1>2. CASE RequestGeneration
  <2>1. CASE pc' = "terminated"
    BY <1>2, <2>1, BudgetFrame DEF RequestGeneration, Terminate
  <2>2. CASE pc' # "terminated"
    <3>1. /\ pc = "generating" /\ Remaining > 0 /\ pc' = "awaiting_generation"
          /\ maxTokens' = Least(PerTurn, Remaining)
          /\ UNCHANGED <<config, tokens>>
      BY <1>2, <2>2 DEF RequestGeneration, Terminate
    <3>2. Len(mask) \in Nat /\ promptLen \in Nat  BY DEF BudgetInv, TokensOK
    <3>5. Remaining \in Int /\ (budgeted => Remaining = Allowance(promptLen, Len(mask)))
      <4>1. Allowance(promptLen, Len(mask)) \in Int  BY <3>2, AllowanceBounds
      <4>. QED  BY <3>2, <4>1, BudgetAssumption DEF Remaining
    <3>3. maxTokens' \in 0..PerTurn /\ maxTokens' <= Remaining
      BY <3>1, <3>5, BudgetAssumption DEF Least
    <3>4. budgeted => /\ Len(mask) + maxTokens' <= ResponseLimit
                      /\ promptLen + maxTokens' <= ContextLimit
      <4>. HAVE budgeted
      <4>1. /\ Len(mask) + Remaining <= ResponseLimit
            /\ promptLen + Remaining <= ContextLimit
        BY <3>2, <3>5, AllowanceBounds DEF BudgetInv, WithinBudget
      <4>2. ResponseLimit \in Int /\ ContextLimit \in Int /\ maxTokens' \in Int
        BY <3>3, BudgetAssumption
      <4>3. Remaining \in Int /\ maxTokens' <= Remaining  BY <3>3, <3>5
      <4>4. Len(mask) \in Int /\ promptLen \in Int  BY <3>2
      <4>5. \A a, b, m, n \in Int : a + n <= b /\ m <= n => a + m <= b  OBVIOUS
      <4>6. /\ Len(mask) + maxTokens' <= ResponseLimit
            /\ promptLen + maxTokens' <= ContextLimit
        BY ONLY <4>1, <4>2, <4>3, <4>4, <4>5, Zenon
      <4>. QED  BY <4>6
    <3>. QED
      BY <3>1, <3>3, <3>4 DEF BudgetInv, TokensOK, WithinBudget, config, tokens
  <2>. QED  BY <2>1, <2>2
<1>3. ASSUME NEW g \in Generations, ReceiveGeneration(g)  PROVE BudgetInv'
  <2>1. CASE Rejected(g) /\ Raise
    BY <1>3, <2>1, BudgetFrame DEF ReceiveGeneration, Raise, turn
  <2>2. CASE ~(Rejected(g) /\ Raise)
    <3>1. /\ ~Rejected(g) /\ AppendGeneration(g) /\ pc = "awaiting_generation"
          /\ budgeted \/ g.tokens <= maxTokens
          /\ UNCHANGED <<config, maxTokens>>
          /\ pc' \in {"terminated", "processing_tools", "interacting"}
      BY <1>3, <2>2 DEF ReceiveGeneration, Terminate
    <3>2. g.tokens <= maxTokens /\ g.tokens \in Nat
      BY <3>1, GenerationType, BudgetAssumption DEF Rejected, BudgetInv, TokensOK
    <3>3. /\ promptLen' = promptLen + g.tokens /\ Len(mask') = Len(mask) + g.tokens
          /\ budgeted' = budgeted /\ initialLen' = initialLen /\ maxTokens' = maxTokens
      BY <3>1, GenerationAppends DEF config
    <3>4. TokensOK'
      BY <3>1, <3>3, GenerationAppends DEF BudgetInv, TokensOK
    <3>5. WithinBudget'
      <4>1. budgeted => /\ Len(mask) + g.tokens <= ResponseLimit
                        /\ promptLen + g.tokens <= ContextLimit
        BY <3>1, <3>2, BudgetAssumption DEF BudgetInv, TokensOK
      <4>2. promptLen + g.tokens = initialLen + (Len(mask) + g.tokens)
        BY <3>1, <3>2 DEF BudgetInv, TokensOK, WithinBudget
      <4>. QED  BY <3>1, <3>3, <4>1, <4>2 DEF WithinBudget
    <3>. QED  BY <3>1, <3>4, <3>5 DEF BudgetInv
  <2>. QED  BY <2>1, <2>2
<1>4. CASE RecordBatch  BY <1>4, BudgetFrame DEF RecordBatch, turn
<1>5. CASE ExecuteCall  BY <1>5, BudgetFrame DEF ExecuteCall, turn
<1>6. CASE ExecuteFails  BY <1>6, BudgetFrame DEF ExecuteFails, Raise, turn
<1>7. ASSUME NEW k \in 1..MaxObservation, ObserveTools(k)  PROVE BudgetInv'
  <2>1. CASE ~ObservationFits(k)
    BY <1>7, <2>1, BudgetFrame DEF ObserveTools, Terminate, turn
  <2>2. CASE ObservationFits(k)
    <3>1. /\ AppendObservation("tool", k) /\ pc = "rendering_tools" /\ pc' = "generating"
          /\ UNCHANGED <<config, maxTokens>>
      BY <1>7, <2>2 DEF ObserveTools, turn
    <3>2. k \in Nat /\ "tool" \in Roles  BY LoopAssumption DEF Roles
    <3>3. budgeted => Fits(promptLen, Len(mask), k)  BY <2>2 DEF ObservationFits
    <3>. QED  BY <3>1, <3>2, <3>3, BudgetObserves
  <2>. QED  BY <2>1, <2>2
<1>8. CASE RecordText  BY <1>8, BudgetFrame DEF RecordText, turn
<1>9. ASSUME NEW r \in {"text", "stop", "overflow"}, UserResponds(r)  PROVE BudgetInv'
  BY <1>9, BudgetFrame DEF UserResponds, turn
<1>10. ASSUME NEW k \in 1..MaxObservation, HandleReply(k)  PROVE BudgetInv'
  <2>1. CASE UNCHANGED tokens
    BY <1>10, <2>1, BudgetFrame DEF HandleReply, Terminate, turn
  <2>2. CASE ~UNCHANGED tokens
    <3>1. /\ AppendObservation("user", k) /\ pc = "user_replied"
          /\ budgeted => Fits(promptLen, Len(mask), k)
          /\ pc' \in {"generating", "terminated"}
          /\ UNCHANGED <<config, maxTokens>>
      BY <1>10, <2>2 DEF HandleReply, Terminate, turn
    <3>2. k \in Nat /\ "user" \in Roles  BY LoopAssumption DEF Roles
    <3>. QED  BY <3>1, <3>2, BudgetObserves
  <2>. QED  BY <2>1, <2>2
<1>11. CASE FinalizeRollout  BY <1>11, BudgetFrame DEF FinalizeRollout, turn
<1>12. CASE Scored  BY <1>12, BudgetFrame DEF Scored, turn
<1>13. CASE Interrupted  BY <1>13, BudgetFrame DEF Interrupted, Raise, turn
<1>14. CASE Finished  BY <1>14, BudgetFrame DEF Finished, vars, turn
<1>. QED
  BY <1>1, <1>2, <1>3, <1>4, <1>5, <1>6, <1>7, <1>8, <1>9, <1>10, <1>11, <1>12, <1>13,
     <1>14 DEF Next, Step

LEMMA BudgetInvariant == Spec => []BudgetInv
<1>1. BudgetInv /\ [Next]_vars => BudgetInv'
  <2>1. ASSUME BudgetInv, UNCHANGED vars  PROVE BudgetInv'
    BY <2>1 DEF BudgetInv, TokensOK, WithinBudget, vars, config, tokens, turn
  <2>. QED  BY <2>1, BudgetStep
<1>. QED  BY <1>1, BudgetInit, PTL DEF Spec

(* No trajectory outgrows its token budget (token_budget.py, and the       *)
(* handlers that call it): whatever the server, the tools and the user     *)
(* answer, generated and observed tokens stay within both limits, and the  *)
(* prompt the output is cut at stays the initial one.                      *)
THEOREM NeverOverBudget == Spec => []WithinBudget
<1>1. BudgetInv => WithinBudget  BY DEF BudgetInv
<1>. QED  BY <1>1, BudgetInvariant, PTL
-----------------------------------------------------------------------------
(* How far the loop's and the session's turn counters may drift apart, and *)
(* what each point of the loop knows of the reasons.                       *)
InTurn == {"awaiting_generation", "processing_tools", "executing", "rendering_tools",
           "interacting", "awaiting_user", "user_replied"}
Unrecorded == {"processing_tools", "interacting"}
Ended == {"terminated", "scoring", "done", "raised"}

TurnsOK ==
  /\ pc \in PCs /\ reason \in Reasons /\ entryReason \in Reasons /\ reply \in Replies
  /\ assistantTurns \in 0..MaxAssistantTurns /\ userTurns \in 0..MaxUserTurns
  /\ sAssistant \in 0..MaxAssistantTurns /\ sUser \in 0..MaxUserTurns

CountersAgree ==
  /\ pc \in InTurn => userTurns < MaxUserTurns
  /\ pc = "awaiting_generation" => assistantTurns < MaxAssistantTurns
  /\ pc = "awaiting_user" => sUser < MaxUserTurns
  /\ pc \in Unrecorded => sAssistant + 1 = assistantTurns
  /\ pc \notin Unrecorded \union Ended => sAssistant = assistantTurns
  /\ pc \in {"executing", "rendering_tools"} => sAssistant > 0

ReasonsAgree ==
  /\ pc \notin Ended => reason = "none"
  /\ pc \notin Ended \union {"user_replied"} => entryReason = "none" /\ reply = "none"
  /\ pc = "user_replied" => reply # "none" /\ entryReason = ReplyReason

TurnsInv ==
  TurnsOK /\ CountersAgree /\ ReasonsAgree /\ LastTurnHandled /\ VerdictReason

LEMMA TurnsInit == Init => TurnsInv
BY LoopAssumption
   DEF Init, TurnsInv, TurnsOK, CountersAgree, ReasonsAgree, LastTurnHandled, VerdictReason,
       PCs, Reasons, Replies, InTurn, Unrecorded, Ended

(* An exception or a cancellation keeps every counter and reason.          *)
LEMMA TurnsRaise == TurnsInv /\ Raise => TurnsInv'
BY DEF Raise, TurnsInv, TurnsOK, CountersAgree, ReasonsAgree, LastTurnHandled, VerdictReason,
       PCs, InTurn, Unrecorded, Ended, turn, session

LEMMA TurnsStep ==
  ASSUME TurnsInv, Next
  PROVE  TurnsInv'
<1>. USE LoopAssumption
     DEF TurnsInv, TurnsOK, CountersAgree, ReasonsAgree, LastTurnHandled, VerdictReason,
         PCs, InTurn, Unrecorded, Ended, turn, session
<1>1. CASE HandlePending
  BY <1>1, TurnsRaise DEF HandlePending
<1>2. CASE RequestGeneration
  BY <1>2 DEF RequestGeneration, CapReached, Terminate, Reasons, Eligible
<1>3. ASSUME NEW g \in Generations, ReceiveGeneration(g)  PROVE TurnsInv'
  <2>1. CASE Raise  BY <2>1, TurnsRaise
  <2>2. CASE ~Raise
    <3>1. /\ pc = "awaiting_generation" /\ assistantTurns' = assistantTurns + 1
          /\ \/ pc' \in Unrecorded /\ UNCHANGED reason
             \/ pc' = "terminated" /\ reason' \in {"agent_error", "context_window_exceeded"}
          /\ UNCHANGED <<userTurns, reply, session, entryReason>>
      BY <1>3, <2>2 DEF ReceiveGeneration, Terminate, TokenEnd
    <3>. QED  BY <3>1 DEF Reasons, Eligible
  <2>. QED  BY <2>1, <2>2
<1>4. CASE RecordBatch  BY <1>4 DEF RecordBatch, ReplyReason
<1>5. CASE ExecuteCall  BY <1>5 DEF ExecuteCall, ReplyReason
<1>6. CASE ExecuteFails  BY <1>6, TurnsRaise DEF ExecuteFails
<1>7. ASSUME NEW k \in 1..MaxObservation, ObserveTools(k)  PROVE TurnsInv'
  BY <1>7 DEF ObserveTools, Terminate, Reasons, Eligible
<1>8. CASE RecordText  BY <1>8 DEF RecordText, ReplyReason, Reasons, Replies
<1>9. ASSUME NEW r \in {"text", "stop", "overflow"}, UserResponds(r)  PROVE TurnsInv'
  BY <1>9 DEF UserResponds, ReplyReason, Reasons, Replies
<1>10. ASSUME NEW k \in 1..MaxObservation, HandleReply(k)  PROVE TurnsInv'
  <2>1. /\ pc = "user_replied" /\ userTurns' = userTurns + 1 /\ reply' = "none"
        /\ \/ reply = "text" /\ pc' = "generating" /\ UNCHANGED reason
           \/ reply = "text" /\ pc' = "terminated" /\ reason' = "context_window_exceeded"
           \/ reply # "text" /\ pc' = "terminated" /\ reason' = ReplyReason
        /\ UNCHANGED <<assistantTurns, session, entryReason>>
    BY <1>10 DEF HandleReply, Terminate
  <2>. QED  BY <2>1 DEF ReplyReason, Reasons, Replies, Eligible
<1>11. CASE FinalizeRollout  BY <1>11 DEF FinalizeRollout, Eligible
<1>12. CASE Scored  BY <1>12 DEF Scored, Eligible
<1>13. CASE Interrupted  BY <1>13, TurnsRaise DEF Interrupted
<1>14. CASE Finished  BY <1>14 DEF Finished, vars, Eligible
<1>. QED
  BY <1>1, <1>2, <1>3, <1>4, <1>5, <1>6, <1>7, <1>8, <1>9, <1>10, <1>11, <1>12, <1>13,
     <1>14 DEF Next, Step

LEMMA TurnsInvariant == Spec => []TurnsInv
<1>1. TurnsInv /\ [Next]_vars => TurnsInv'
  <2>1. ASSUME TurnsInv, UNCHANGED vars  PROVE TurnsInv'
    BY <2>1 DEF TurnsInv, TurnsOK, CountersAgree, ReasonsAgree, LastTurnHandled,
                VerdictReason, ReplyReason, Eligible, vars, turn, session
  <2>. QED  BY <2>1, TurnsStep
<1>. QED  BY <1>1, TurnsInit, PTL DEF Spec

(* A turn cap never drops a generation from the official history: the last *)
(* allowed turn reaches record_tool_batch or generate_response first.      *)
THEOREM LastTurnRecorded == Spec => []LastTurnHandled
<1>1. TurnsInv => LastTurnHandled  BY DEF TurnsInv
<1>. QED  BY <1>1, TurnsInvariant, PTL

(* Scoring starts with a reason execution_eligibility keeps in the batch,  *)
(* and with the interaction's own when that is what ended the rollout.     *)
THEOREM ReasonsOfVerdicts == Spec => []VerdictReason
<1>1. TurnsInv => VerdictReason  BY DEF TurnsInv
<1>. QED  BY <1>1, TurnsInvariant, PTL
-----------------------------------------------------------------------------
(* The session's message list keeps its shape; its records are written at  *)
(* points where the turn counters make sense (TurnsInv).                   *)
Records == [role: Roles, turn: Nat, n: Nat]

LogInv ==
  /\ batch \in 0..MaxCalls /\ emitted \in Seq({Nothing} \cup 0..MaxCalls)
  /\ log \in Seq(Records) /\ registered \in BOOLEAN

LEMMA RecordType ==
  ASSUME NEW role \in Roles, NEW t \in Nat, NEW n \in Nat
  PROVE  [role |-> role, turn |-> t, n |-> n] \in Records
BY DEF Records

LEMMA AnsweredType ==
  ASSUME LogInv
  PROVE  Answered \in Nat
<1>1. CASE log # << >>
  <2>1. log \in Seq(Records) /\ Len(log) \in 1..Len(log)  BY <1>1 DEF LogInv
  <2>2. log[Len(log)] \in Records  BY <2>1, ElementOfSeq
  <2>. QED  BY <2>2 DEF Answered, Records
<1>2. CASE log = << >>  BY <1>2 DEF Answered
<1>. QED  BY <1>1, <1>2

LEMMA LogInit == Init => LogInv
<1>. SUFFICES ASSUME Init PROVE LogInv  OBVIOUS
<1>1. [role |-> "user", turn |-> 0, n |-> 0] \in Records  BY RecordType DEF Roles
<1>2. <<[role |-> "user", turn |-> 0, n |-> 0]>> \in Seq(Records)  BY <1>1
<1>5. << >> \in Seq(Records)  OBVIOUS
<1>3. log = <<[role |-> "user", turn |-> 0, n |-> 0]>> \/ log = << >>  BY DEF Init
<1>4. log \in Seq(Records)  BY <1>2, <1>3, <1>5, Zenon
<1>. QED  BY <1>4, LoopAssumption DEF Init, LogInv

LEMMA LogFrame ==
  ASSUME LogInv, UNCHANGED <<batch, emitted, log>>, registered' \in BOOLEAN
  PROVE  LogInv'
BY DEF LogInv

(* Steps that only append to the message list.                             *)
LEMMA LogAppends ==
  ASSUME LogInv, NEW m \in Records, log' = Append(log, m),
         UNCHANGED <<batch, emitted, registered>>
  PROVE  LogInv'
<1>1. log' \in Seq(Records)  BY AppendProperties DEF LogInv
<1>. QED  BY <1>1 DEF LogInv

LEMMA LogStep ==
  ASSUME TurnsInv, LogInv, Next
  PROVE  LogInv'
<1>. USE DEF turn, session, Release
<1>0. registered \in BOOLEAN  BY DEF LogInv
<1>1. CASE HandlePending  BY <1>0, <1>1, LogFrame DEF HandlePending, Raise
<1>2. CASE RequestGeneration  BY <1>0, <1>2, LogFrame DEF RequestGeneration
<1>3. ASSUME NEW g \in Generations, ReceiveGeneration(g)  PROVE LogInv'
  <2>1. CASE Raise  BY <2>1, LogFrame DEF Raise
  <2>2. CASE ~Raise
    <3>1. emitted' = Append(emitted, Due(g)) /\ batch' = g.text.parsed
          /\ UNCHANGED <<log, registered>>
      BY <1>3, <2>2 DEF ReceiveGeneration
    <3>2. emitted' \in Seq({Nothing} \cup 0..MaxCalls)
      BY <3>1, GenerationType, AppendProperties DEF LogInv
    <3>. QED  BY <3>1, <3>2, GenerationType DEF LogInv
  <2>. QED  BY <2>1, <2>2
<1>4. CASE RecordBatch
  <2>1. Message("assistant", batch) \in Records
    BY RecordType, LoopAssumption DEF Message, Roles, TurnsInv, TurnsOK, LogInv
  <2>. QED  BY <1>4, <2>1, LogAppends DEF RecordBatch
<1>5. CASE ExecuteCall
  <2>1. sAssistant - 1 \in Nat /\ Answered + 1 \in Nat
    BY <1>5, AnsweredType DEF ExecuteCall, TurnsInv, TurnsOK, CountersAgree
  <2>2. [role |-> "tool", turn |-> sAssistant - 1, n |-> Answered + 1] \in Records
    BY <2>1, RecordType DEF Roles
  <2>. QED  BY <1>5, <2>2, LogAppends DEF ExecuteCall
<1>6. CASE ExecuteFails  BY <1>6, LogFrame DEF ExecuteFails, Raise
<1>7. ASSUME NEW k \in 1..MaxObservation, ObserveTools(k)  PROVE LogInv'
  BY <1>0, <1>7, LogFrame DEF ObserveTools
<1>8. CASE RecordText
  <2>1. Message("assistant", 0) \in Records
    BY RecordType DEF Message, Roles, TurnsInv, TurnsOK
  <2>. QED  BY <1>8, <2>1, LogAppends DEF RecordText
<1>9. ASSUME NEW r \in {"text", "stop", "overflow"}, UserResponds(r)  PROVE LogInv'
  <2>1. [role |-> "user", turn |-> sAssistant, n |-> 0] \in Records
    BY RecordType DEF Roles, TurnsInv, TurnsOK
  <2>. QED  BY <1>0, <1>9, <2>1, LogAppends, LogFrame DEF UserResponds
<1>10. ASSUME NEW k \in 1..MaxObservation, HandleReply(k)  PROVE LogInv'
  BY <1>0, <1>10, LogFrame DEF HandleReply
<1>11. CASE FinalizeRollout  BY <1>0, <1>11, LogFrame DEF FinalizeRollout
<1>12. CASE Scored  BY <1>12, LogFrame DEF Scored
<1>13. CASE Interrupted  BY <1>13, LogFrame DEF Interrupted, Raise
<1>14. CASE Finished  BY <1>0, <1>14, LogFrame DEF Finished, vars
<1>. QED
  BY <1>1, <1>2, <1>3, <1>4, <1>5, <1>6, <1>7, <1>8, <1>9, <1>10, <1>11, <1>12, <1>13,
     <1>14 DEF Next, Step

LEMMA LogInvariant == Spec => []LogInv
<1>1. TurnsInv /\ LogInv /\ [Next]_vars => LogInv'
  <2>1. ASSUME LogInv, UNCHANGED vars  PROVE LogInv'
    BY <2>1 DEF LogInv, vars, turn, session
  <2>. QED  BY <2>1, LogStep
<1>. QED  BY <1>1, LogInit, TurnsInvariant, PTL DEF Spec

(* Every variable of a trajectory keeps its range for ever: token lists    *)
(* and message records stay well formed, turn counters under their caps.   *)
THEOREM TypeCorrect == Spec => []TypeOK
<1>1. BudgetInv /\ TurnsInv /\ LogInv => TypeOK
  BY DEF BudgetInv, TokensOK, TurnsInv, TurnsOK, LogInv, Records, TypeOK
<1>. QED  BY <1>1, BudgetInvariant, TurnsInvariant, LogInvariant, PTL
-----------------------------------------------------------------------------
(* The session is popped from SESSIONS on every way out of run(), and on   *)
(* no other step.                                                          *)
THEOREM SessionReleased == Spec => []SessionOwned
<1>1. Init => SessionOwned  BY DEF Init, SessionOwned
<1>2. SessionOwned /\ [Next]_vars => SessionOwned'
  <2>. SUFFICES ASSUME SessionOwned, [Next]_vars PROVE SessionOwned'  OBVIOUS
  <2>1. CASE UNCHANGED vars  BY <2>1 DEF SessionOwned, vars
  <2>2. CASE Raise \/ Scored  BY <2>2 DEF SessionOwned, Raise, Scored, Release, Eligible
  <2>3. CASE Step /\ ~Raise /\ ~Scored
    <3>1. UNCHANGED registered /\ pc \notin {"done", "raised"} /\ pc' \notin {"done", "raised"}
      BY <2>3
         DEF Step, HandlePending, RequestGeneration, ReceiveGeneration, RecordBatch,
             ExecuteCall, ExecuteFails, ObserveTools, RecordText, UserResponds, HandleReply,
             FinalizeRollout, Terminate
    <3>. QED  BY <3>1 DEF SessionOwned
  <2>. QED  BY <2>1, <2>2, <2>3 DEF Next, Interrupted, Finished
<1>. QED  BY <1>1, <1>2, PTL DEF Spec
-----------------------------------------------------------------------------
(* The four arrays of the output grow together.  A generation adds a span  *)
(* and its tokens, an observation adds zeros; log-probabilities lag behind *)
(* for ever once a text was observed before the first sampled token.       *)
Sampled == complete => logp = mask \/ Len(logp) < Len(mask)

Spanned(i) == \E j \in 1..Len(spans) : spans[j][1] < i /\ i <= spans[j][2]

SpansWithin ==
  \A j \in 1..Len(spans) : spans[j][2] <= Len(mask) /\ spans[j][2] <= ResponseLimit

ArraysInv ==
  /\ Sampled
  /\ SpansWithin
  /\ \A i \in 1..Len(mask) : mask[i] = 1 <=> Spanned(i)
  /\ pc = "awaiting_generation" => Len(mask) + maxTokens <= ResponseLimit

LEMMA ArraysInit == Init => ArraysInv
BY DEF Init, ArraysInv, Sampled, SpansWithin, Spanned

(* Steps that append no token.                                             *)
LEMMA ArraysFrame ==
  ASSUME ArraysInv, UNCHANGED <<mask, logp, complete, spans>>, pc' # "awaiting_generation"
  PROVE  ArraysInv'
BY DEF ArraysInv, Sampled, SpansWithin, Spanned

(* Runs of generated and of observed tokens, appended.                     *)
LEMMA OnesAppended ==
  ASSUME NEW s \in Seq({0, 1}), NEW n \in Nat
  PROVE  /\ Len(s \o Ones(n)) = Len(s) + n
         /\ \A i \in 1..Len(s) + n : (s \o Ones(n))[i] = IF i <= Len(s) THEN s[i] ELSE 1
<1>1. Ones(n) \in Seq({0, 1}) /\ Len(Ones(n)) = n  BY OnesType
<1>2. \A i \in 1..n : Ones(n)[i] = 1  BY DEF Ones
<1>3. /\ Len(s \o Ones(n)) = Len(s) + n
      /\ \A i \in 1..Len(s) + n :
           (s \o Ones(n))[i] = IF i <= Len(s) THEN s[i] ELSE Ones(n)[i - Len(s)]
  BY <1>1, ConcatProperties
<1>. QED  BY <1>2, <1>3

LEMMA ZerosAppended ==
  ASSUME NEW s \in Seq({0, 1}), NEW n \in Nat
  PROVE  /\ Len(s \o Zeros(n)) = Len(s) + n
         /\ \A i \in 1..Len(s) + n : (s \o Zeros(n))[i] = IF i <= Len(s) THEN s[i] ELSE 0
<1>1. Zeros(n) \in Seq({0, 1}) /\ Len(Zeros(n)) = n  BY OnesType
<1>2. \A i \in 1..n : Zeros(n)[i] = 0  BY DEF Zeros
<1>3. /\ Len(s \o Zeros(n)) = Len(s) + n
      /\ \A i \in 1..Len(s) + n :
           (s \o Zeros(n))[i] = IF i <= Len(s) THEN s[i] ELSE Zeros(n)[i - Len(s)]
  BY <1>1, ConcatProperties
<1>. QED  BY <1>2, <1>3

LEMMA ArraysObserve ==
  ASSUME BudgetInv, ArraysInv, NEW k \in Nat, NEW role, AppendObservation(role, k),
         pc' # "awaiting_generation"
  PROVE  ArraysInv'
<1>. DEFINE padded == mask \o Zeros(k)
<1>0. mask \in Seq({0, 1}) /\ logp \in Seq({0, 1}) /\ spans \in Seq(Nat \X Nat)
  BY DEF BudgetInv, TokensOK
<1>2. /\ mask' = mask \o Zeros(k) /\ complete' = complete /\ spans' = spans
      /\ logp' = logp \/ logp' = logp \o Zeros(k)
      /\ logp # << >> => logp' = logp \o Zeros(k)
      /\ logp = << >> => logp' = logp
  BY DEF AppendObservation
<1>3. /\ Len(padded) = Len(mask) + k
      /\ \A i \in 1..Len(mask) + k :
           padded[i] = IF i <= Len(mask) THEN mask[i] ELSE 0
  BY <1>0, ZerosAppended
<1>4. Len(logp \o Zeros(k)) = Len(logp) + k  BY <1>0, ZerosAppended
<1>5. Len(mask) \in Nat /\ Len(logp) \in Nat  BY <1>0
<1>6. Sampled'
  <2>. SUFFICES ASSUME complete PROVE logp' = mask' \/ Len(logp') < Len(mask')
    BY <1>2 DEF Sampled
  <2>1. CASE logp = mask /\ logp # << >>  BY <2>1, <1>2
  <2>2. CASE logp = mask /\ logp = << >>
    <3>1. Len(logp') = 0 /\ Len(mask') = k
      <4>1. Len(mask) = 0 /\ logp' = << >>  BY <2>2, <1>2
      <4>2. Len(mask') = Len(mask) + k  BY <1>2, <1>3
      <4>. QED  BY <4>1, <4>2
    <3>2. CASE k = 0
      <4>1. Zeros(k) = << >>  BY <3>2 DEF Zeros
      <4>2. mask' = << >>  BY <4>1, <1>2, <2>2
      <4>. QED  BY <4>2, <2>2, <1>2
    <3>. QED  BY <3>1, <3>2
  <2>3. CASE Len(logp) < Len(mask)
    <3>1. Len(mask') = Len(mask) + k  BY <1>2, <1>3
    <3>2. Len(logp') = Len(logp) \/ Len(logp') = Len(logp) + k  BY <1>2, <1>4
    <3>. QED  BY <3>1, <3>2, <2>3, <1>5
  <2>. QED  BY <2>1, <2>2, <2>3 DEF ArraysInv, Sampled
<1>7. SpansWithin'
  <2>1. ASSUME NEW j \in 1..Len(spans)
        PROVE  spans[j][2] <= Len(mask) + k /\ spans[j][2] <= ResponseLimit
    <3>1. spans[j] \in Nat \X Nat  BY <1>0, ElementOfSeq
    <3>2. spans[j][2] \in Nat /\ spans[j][2] <= Len(mask) /\ spans[j][2] <= ResponseLimit
      BY <3>1 DEF ArraysInv, SpansWithin
    <3>. QED  BY <3>2, <1>5
  <2>. QED  BY <2>1, <1>2, <1>3 DEF SpansWithin
<1>8. \A i \in 1..Len(padded) : padded[i] = 1 <=> Spanned(i)
  <2>. SUFFICES ASSUME NEW i \in 1..Len(mask) + k PROVE padded[i] = 1 <=> Spanned(i)
    BY <1>3
  <2>1. CASE i <= Len(mask)
    <3>1. padded[i] = mask[i]  BY <2>1, <1>3
    <3>2. i \in 1..Len(mask)  BY <2>1, <1>5
    <3>3. mask[i] = 1 <=> Spanned(i)  BY <3>2 DEF ArraysInv
    <3>. QED  BY <3>1, <3>3
  <2>2. CASE ~(i <= Len(mask))
    <3>1. padded[i] = 0  BY <2>2, <1>3
    <3>2. ASSUME NEW j \in 1..Len(spans), i <= spans[j][2]  PROVE FALSE
      <4>1. spans[j] \in Nat \X Nat  BY <1>0, ElementOfSeq
      <4>2. spans[j][2] \in Nat /\ spans[j][2] <= Len(mask)
        BY <4>1 DEF ArraysInv, SpansWithin
      <4>. QED  BY <4>2, <3>2, <2>2, <1>5
    <3>. QED  BY <3>1, <3>2 DEF Spanned
  <2>. QED  BY <2>1, <2>2
<1>9. \A i \in 1..Len(mask') : mask'[i] = 1 <=> Spanned(i)'
  BY <1>2, <1>8 DEF Spanned
<1>. QED  BY <1>6, <1>7, <1>9 DEF ArraysInv

LEMMA ArraysGenerate ==
  ASSUME BudgetInv, ArraysInv, NEW g \in Generations, AppendGeneration(g),
         Len(mask) + g.tokens <= ResponseLimit, pc' # "awaiting_generation"
  PROVE  ArraysInv'
<1>. DEFINE n == Len(mask)
            t == g.tokens
            longer == mask \o Ones(t)
            more == Append(spans, <<n, n + t>>)
<1>0. /\ mask \in Seq({0, 1}) /\ logp \in Seq({0, 1}) /\ spans \in Seq(Nat \X Nat)
      /\ t \in Nat /\ n \in Nat /\ Len(logp) \in Nat /\ Len(spans) \in Nat
  BY GenerationType, BudgetAssumption DEF BudgetInv, TokensOK
<1>2. /\ mask' = longer /\ spans' = more
      /\ \/ logp' = logp \o Ones(t) /\ complete' = complete
         \/ complete' = FALSE
  BY DEF AppendGeneration
<1>3. /\ Len(longer) = n + t
      /\ \A i \in 1..n + t : longer[i] = IF i <= n THEN mask[i] ELSE 1
  BY <1>0, OnesAppended
<1>4. Len(logp \o Ones(t)) = Len(logp) + t  BY <1>0, OnesAppended
<1>5. /\ Len(more) = Len(spans) + 1
      /\ \A j \in 1..Len(spans) : more[j] = spans[j]
      /\ more[Len(spans) + 1] = <<n, n + t>>
  <2>1. <<n, n + t>> \in Nat \X Nat  BY <1>0
  <2>. QED  BY <1>0, <2>1, AppendProperties
<1>6. Sampled'
  <2>. SUFFICES ASSUME complete' PROVE logp' = mask' \/ Len(logp') < Len(mask')
    BY DEF Sampled
  <2>1. logp' = logp \o Ones(t) /\ complete  BY <1>2
  <2>2. CASE logp = mask  BY <2>1, <2>2, <1>2
  <2>3. CASE Len(logp) < Len(mask)
    <3>1. Len(mask') = n + t /\ Len(logp') = Len(logp) + t  BY <2>1, <1>2, <1>3, <1>4
    <3>. QED  BY <3>1, <2>3, <1>0
  <2>. QED  BY <2>1, <2>2, <2>3 DEF ArraysInv, Sampled
<1>7. ASSUME NEW j \in 1..Len(more)
      PROVE  more[j][2] <= n + t /\ more[j][2] <= ResponseLimit
  <2>1. CASE j \in 1..Len(spans)
    <3>1. spans[j] \in Nat \X Nat  BY <1>0, <2>1, ElementOfSeq
    <3>2. spans[j][2] \in Nat /\ spans[j][2] <= n /\ spans[j][2] <= ResponseLimit
      BY <3>1, <2>1 DEF ArraysInv, SpansWithin
    <3>. QED  BY <3>2, <2>1, <1>0, <1>5, SMTT(30)
  <2>2. CASE j = Len(spans) + 1
    <3>1. more[j][2] = n + t  BY <2>2, <1>5
    <3>. QED  BY <3>1, <1>0, SMTT(30)
  <2>. QED  BY <2>1, <2>2, <1>0, <1>5
<1>8. ASSUME NEW i \in 1..n + t
      PROVE  longer[i] = 1 <=> \E j \in 1..Len(more) : more[j][1] < i /\ i <= more[j][2]
  <2>1. CASE i <= n
    <3>1. i \in 1..Len(mask) /\ longer[i] = mask[i]  BY <2>1, <1>0, <1>3
    <3>2. longer[i] = 1 <=> Spanned(i)  BY <3>1 DEF ArraysInv
    <3>3. ASSUME NEW j \in 1..Len(spans), spans[j][1] < i /\ i <= spans[j][2]
          PROVE  \E m \in 1..Len(more) : more[m][1] < i /\ i <= more[m][2]
      <4>1. j \in 1..Len(more) /\ more[j] = spans[j]  BY <1>0, <1>5
      <4>. QED  BY <4>1, <3>3
    <3>4. ASSUME NEW j \in 1..Len(more), more[j][1] < i /\ i <= more[j][2]
          PROVE  Spanned(i)
      <4>1. CASE j = Len(spans) + 1
        <5>1. more[j][1] = n  BY <4>1, <1>5
        <5>. QED  BY <5>1, <3>4, <2>1, <1>0
      <4>2. CASE j \in 1..Len(spans)
        BY <4>2, <3>4, <1>5 DEF Spanned
      <4>. QED  BY <4>1, <4>2, <1>0, <1>5
    <3>. QED  BY <3>2, <3>3, <3>4 DEF Spanned
  <2>2. CASE ~(i <= n)
    <3>1. longer[i] = 1  BY <2>2, <1>3
    <3>2. /\ Len(spans) + 1 \in 1..Len(more)
          /\ more[Len(spans) + 1][1] < i /\ i <= more[Len(spans) + 1][2]
      <4>1. more[Len(spans) + 1][1] = n /\ more[Len(spans) + 1][2] = n + t  BY <1>5
      <4>. QED  BY <4>1, <2>2, <1>0, <1>5
    <3>. QED  BY <3>1, <3>2
  <2>. QED  BY <2>1, <2>2
<1>9. SpansWithin'  BY <1>2, <1>3, <1>7 DEF SpansWithin
<1>10. \A i \in 1..Len(mask') : mask'[i] = 1 <=> Spanned(i)'
  BY <1>2, <1>3, <1>8 DEF Spanned
<1>. QED  BY <1>6, <1>9, <1>10 DEF ArraysInv

(* A request never asks for more than the response has left, with or       *)
(* without the token protocol.                                             *)
LEMMA RequestFits ==
  ASSUME BudgetInv, RequestGeneration, pc' = "awaiting_generation"
  PROVE  Len(mask) + maxTokens' <= ResponseLimit
<1>0. Len(mask) \in Nat /\ promptLen \in Nat  BY DEF BudgetInv, TokensOK
<1>1. pc = "generating" /\ Remaining > 0 /\ maxTokens' = Least(PerTurn, Remaining)
  BY DEF RequestGeneration, Terminate
<1>2. CASE budgeted
  <2>1. Remaining = Allowance(promptLen, Len(mask))  BY <1>2 DEF Remaining
  <2>2. Remaining \in Int /\ Len(mask) + Remaining <= ResponseLimit
    BY <1>0, <1>2, <2>1, AllowanceBounds, BudgetAssumption DEF BudgetInv, WithinBudget
  <2>. QED  BY <1>0, <1>1, <2>2, BudgetAssumption DEF Least
<1>3. CASE ~budgeted
  <2>1. Remaining = ResponseLimit - Len(mask)  BY <1>3 DEF Remaining
  <2>. QED  BY <1>0, <1>1, <2>1, BudgetAssumption DEF Least
<1>. QED  BY <1>2, <1>3

LEMMA ArraysStep ==
  ASSUME BudgetInv, ArraysInv, Next
  PROVE  ArraysInv'
<1>. USE DEF tokens
<1>0. ASSUME Raise  PROVE ArraysInv'  BY <1>0, ArraysFrame DEF Raise
<1>1. CASE HandlePending  BY <1>0, <1>1, ArraysFrame DEF HandlePending
<1>2. CASE RequestGeneration
  <2>1. UNCHANGED <<mask, logp, complete, spans>>  BY <1>2 DEF RequestGeneration
  <2>2. CASE pc' # "awaiting_generation"  BY <2>1, <2>2, ArraysFrame
  <2>3. CASE pc' = "awaiting_generation"
    <3>1. Len(mask') + maxTokens' <= ResponseLimit  BY <1>2, <2>1, <2>3, RequestFits
    <3>. QED  BY <2>1, <3>1 DEF ArraysInv, Sampled, SpansWithin, Spanned
  <2>. QED  BY <2>2, <2>3
<1>3. ASSUME NEW g \in Generations, ReceiveGeneration(g)  PROVE ArraysInv'
  <2>1. CASE Raise  BY <1>0, <2>1
  <2>2. CASE ~Raise
    <3>1. /\ ~Rejected(g) /\ AppendGeneration(g) /\ pc = "awaiting_generation"
          /\ budgeted \/ g.tokens <= maxTokens
          /\ pc' \in {"terminated", "processing_tools", "interacting"}
      BY <1>3, <2>2 DEF ReceiveGeneration, Terminate
    <3>2. g.tokens <= maxTokens /\ g.tokens \in Nat /\ maxTokens \in Nat /\ Len(mask) \in Nat
      BY <3>1, GenerationType, BudgetAssumption DEF Rejected, BudgetInv, TokensOK
    <3>3. Len(mask) + g.tokens <= ResponseLimit
      BY <3>1, <3>2, BudgetAssumption DEF ArraysInv
    <3>. QED  BY <3>1, <3>3, ArraysGenerate
  <2>. QED  BY <2>1, <2>2
<1>4. CASE RecordBatch  BY <1>4, ArraysFrame DEF RecordBatch
<1>5. CASE ExecuteCall  BY <1>5, ArraysFrame DEF ExecuteCall
<1>6. CASE ExecuteFails  BY <1>0, <1>6 DEF ExecuteFails
<1>7. ASSUME NEW k \in 1..MaxObservation, ObserveTools(k)  PROVE ArraysInv'
  <2>1. CASE AppendObservation("tool", k) /\ pc' = "generating"
    BY <2>1, ArraysObserve, LoopAssumption
  <2>2. CASE ~(AppendObservation("tool", k) /\ pc' = "generating")
    BY <1>7, <2>2, ArraysFrame DEF ObserveTools, Terminate
  <2>. QED  BY <2>1, <2>2
<1>8. CASE RecordText  BY <1>8, ArraysFrame DEF RecordText
<1>9. ASSUME NEW r \in {"text", "stop", "overflow"}, UserResponds(r)  PROVE ArraysInv'
  BY <1>9, ArraysFrame DEF UserResponds
<1>10. ASSUME NEW k \in 1..MaxObservation, HandleReply(k)  PROVE ArraysInv'
  <2>0. pc' \in {"generating", "terminated"}  BY <1>10 DEF HandleReply, Terminate
  <2>1. CASE AppendObservation("user", k)
    BY <2>0, <2>1, ArraysObserve, LoopAssumption
  <2>2. CASE ~AppendObservation("user", k)
    BY <2>0, <1>10, <2>2, ArraysFrame DEF HandleReply
  <2>. QED  BY <2>1, <2>2
<1>11. CASE FinalizeRollout  BY <1>11, ArraysFrame DEF FinalizeRollout
<1>12. CASE Scored  BY <1>12, ArraysFrame DEF Scored
<1>13. CASE Interrupted  BY <1>0, <1>13 DEF Interrupted
<1>14. CASE Finished  BY <1>14, ArraysFrame DEF Finished, vars
<1>. QED
  BY <1>1, <1>2, <1>3, <1>4, <1>5, <1>6, <1>7, <1>8, <1>9, <1>10, <1>11, <1>12, <1>13,
     <1>14 DEF Next, Step

LEMMA ArraysInvariant == Spec => []ArraysInv
<1>1. BudgetInv /\ ArraysInv /\ [Next]_vars => ArraysInv'
  <2>1. ASSUME ArraysInv, UNCHANGED vars  PROVE ArraysInv'
    BY <2>1 DEF ArraysInv, Sampled, SpansWithin, Spanned, vars, tokens, turn
  <2>. QED  BY <2>1, ArraysStep
<1>. QED  BY <1>1, ArraysInit, BudgetInvariant, PTL DEF Spec

(* What run() publishes is aligned token by token: log-probabilities with  *)
(* the mask, and the anchor spans with the generated tokens, none of which *)
(* the cut at response_length can take away.                               *)
THEOREM ArraysAligned == Spec => []OutputAligned
<1>1. ASSUME BudgetInv, ArraysInv  PROVE OutputAligned
  <2>. SUFFICES ASSUME pc = "done"
                PROVE  /\ PublishedPrompt = initialLen
                       /\ Len(PublishedMask) <= ResponseLimit
                       /\ HasLogprobs => PublishedLogprobs = PublishedMask
                       /\ {i \in 1..PublishedLength : PublishedMask[i] = 1} =
                            UNION {spans[j][1] + 1..spans[j][2] : j \in 1..Len(spans)}
    BY DEF OutputAligned
  <2>0. /\ mask \in Seq({0, 1}) /\ spans \in Seq(Nat \X Nat)
        /\ Len(mask) \in Nat /\ initialLen \in Nat /\ promptLen \in Nat
    BY <1>1 DEF BudgetInv, TokensOK
  <2>1. PublishedPrompt = initialLen
    BY <1>1, <2>0 DEF PublishedPrompt, BudgetInv, WithinBudget
  <2>2. /\ PublishedLength \in 0..Len(mask) /\ PublishedLength <= ResponseLimit
        /\ Len(mask) <= ResponseLimit => PublishedLength = Len(mask)
        /\ Len(mask) > ResponseLimit => PublishedLength = ResponseLimit
    BY <2>0, BudgetAssumption DEF PublishedLength, Least
  <2>3. /\ Len(PublishedMask) = PublishedLength
        /\ \A i \in 1..PublishedLength : PublishedMask[i] = mask[i]
    <3>1. \A i \in 1..PublishedLength : mask[i] \in {0, 1}
      BY <2>0, <2>2, ElementOfSeq
    <3>2. /\ Len(SubSeq(mask, 1, PublishedLength)) = PublishedLength
          /\ \A i \in 1..PublishedLength : SubSeq(mask, 1, PublishedLength)[i] = mask[i]
      BY <2>2, <3>1, SubSeqProperties
    <3>. QED  BY <3>2 DEF PublishedMask
  <2>4. HasLogprobs => PublishedLogprobs = PublishedMask
    <3>1. HasLogprobs => logp = mask
      <4>1. Sampled  BY <1>1 DEF ArraysInv
      <4>. QED  BY <4>1, <2>0 DEF HasLogprobs, Sampled
    <3>. QED  BY <3>1 DEF PublishedLogprobs, PublishedMask
  <2>5. ASSUME NEW i
        PROVE  i \in 1..PublishedLength /\ PublishedMask[i] = 1 <=>
                 \E j \in 1..Len(spans) : i \in spans[j][1] + 1..spans[j][2]
    <3>1. ASSUME i \in 1..PublishedLength, PublishedMask[i] = 1
          PROVE  \E j \in 1..Len(spans) : i \in spans[j][1] + 1..spans[j][2]
      <4>1. i \in 1..Len(mask) /\ mask[i] = 1  BY <3>1, <2>2, <2>3
      <4>2. PICK j \in 1..Len(spans) : spans[j][1] < i /\ i <= spans[j][2]
        BY <4>1, <1>1 DEF ArraysInv, Spanned
      <4>3. spans[j] \in Nat \X Nat  BY <2>0, ElementOfSeq
      <4>. QED  BY <4>1, <4>2, <4>3
    <3>2. ASSUME NEW j \in 1..Len(spans), i \in spans[j][1] + 1..spans[j][2]
          PROVE  i \in 1..PublishedLength /\ PublishedMask[i] = 1
      <4>1. spans[j] \in Nat \X Nat  BY <2>0, ElementOfSeq
      <4>2. /\ spans[j][1] \in Nat /\ spans[j][2] \in Nat
            /\ spans[j][2] <= Len(mask) /\ spans[j][2] <= ResponseLimit
        BY <4>1, <1>1 DEF ArraysInv, SpansWithin
      <4>3. i \in Nat /\ spans[j][1] < i /\ i <= spans[j][2] /\ i >= 1
        BY <3>2, <4>2
      <4>4. i \in 1..Len(mask) /\ i \in 1..PublishedLength
        BY <4>2, <4>3, <2>0, <2>2, BudgetAssumption
      <4>5. mask[i] = 1  BY <4>3, <4>4, <1>1 DEF ArraysInv, Spanned
      <4>. QED  BY <4>4, <4>5, <2>3
    <3>. QED  BY <3>1, <3>2
  <2>6. {i \in 1..PublishedLength : PublishedMask[i] = 1} =
          UNION {spans[j][1] + 1..spans[j][2] : j \in 1..Len(spans)}
    <3>. DEFINE A == {i \in 1..PublishedLength : PublishedMask[i] = 1}
                B == UNION {spans[j][1] + 1..spans[j][2] : j \in 1..Len(spans)}
    <3>1. ASSUME NEW i  PROVE i \in A <=> i \in B
      <4>1. i \in A <=> i \in 1..PublishedLength /\ PublishedMask[i] = 1  OBVIOUS
      <4>2. i \in B <=> \E j \in 1..Len(spans) : i \in spans[j][1] + 1..spans[j][2]
        OBVIOUS
      <4>. QED  BY <4>1, <4>2, <2>5
    <3>. QED  BY <3>1
  <2>. QED  BY <2>1, <2>2, <2>3, <2>4, <2>6
<1>. QED  BY <1>1, BudgetInvariant, ArraysInvariant, PTL
-----------------------------------------------------------------------------
(* The message list: every answer is backed by its batch, every batch is   *)
(* answered unless it is the one being executed, which is answered as far  *)
(* as the last record says.                                                *)
Done(i) ==
  log[i].role = "assistant" =>
    \A j \in 1..log[i].n :
      /\ i + j <= Len(log)
      /\ log[i + j] = [role |-> "tool", turn |-> log[i].turn, n |-> j]

Backed(i) ==
  log[i].role = "tool" =>
    /\ log[i].n < i
    /\ log[i - log[i].n].role = "assistant" /\ log[i].n <= log[i - log[i].n].n

BatchAt == Len(log) - Answered

Executing ==
  /\ BatchAt >= 1 /\ Answered < batch
  /\ log[BatchAt] = [role |-> "assistant", turn |-> sAssistant - 1, n |-> batch]
  /\ \A j \in 1..Answered :
       log[BatchAt + j] = [role |-> "tool", turn |-> sAssistant - 1, n |-> j]

CallsInv ==
  /\ \A i \in 1..Len(log) : Backed(i)
  /\ pc # "raised" =>
       \A i \in 1..Len(log) : (pc = "executing" => i # BatchAt) => Done(i)
  /\ pc = "executing" => Executing
  /\ pc = "processing_tools" => batch > 0

LEMMA CallsInit == Init => CallsInv
<1>. SUFFICES ASSUME Init PROVE CallsInv  OBVIOUS
<1>1. log = <<[role |-> "user", turn |-> 0, n |-> 0]>> \/ log = << >>  BY DEF Init
<1>2. \A i \in 1..Len(log) : log[i].role = "user"
  <2>1. CASE log = << >>  BY <2>1
  <2>2. CASE log = <<[role |-> "user", turn |-> 0, n |-> 0]>>  BY <2>2
  <2>. QED  BY <1>1, <2>1, <2>2
<1>3. pc = "pending"  BY DEF Init
<1>. QED  BY <1>2, <1>3 DEF CallsInv, Backed, Done

(* Steps that record nothing.                                              *)
LEMMA CallsFrame ==
  ASSUME CallsInv, UNCHANGED log,
         pc' = "raised" \/ (pc \notin {"executing", "raised"} /\ pc' # "executing"),
         pc' = "processing_tools" => batch' > 0
  PROVE  CallsInv'
<1>1. \A i : (Backed(i)' <=> Backed(i)) /\ (Done(i)' <=> Done(i))  BY DEF Backed, Done
<1>. QED  BY <1>1 DEF CallsInv

(* What one more record changes.                                           *)
LEMMA Recorded ==
  ASSUME LogInv, NEW m \in Records, log' = Append(log, m)
  PROVE  /\ Len(log) \in Nat /\ Len(log') = Len(log) + 1 /\ log'[Len(log) + 1] = m
         /\ \A i \in 1..Len(log) : log'[i] = log[i] /\ log[i] \in Records
         /\ Answered' = IF m.role = "tool" THEN m.n ELSE 0
<1>1. log \in Seq(Records)  BY DEF LogInv
<1>2. /\ Len(Append(log, m)) = Len(log) + 1
      /\ \A i \in 1..Len(log) : Append(log, m)[i] = log[i]
      /\ Append(log, m)[Len(log) + 1] = m
      /\ Len(log) \in Nat
  BY <1>1, AppendProperties
<1>3. \A i \in 1..Len(log) : log[i] \in Records  BY <1>1, ElementOfSeq
<1>4. Len(log') = Len(log) + 1 /\ log'[Len(log')] = m  BY <1>2
<1>5. log' # << >>  BY <1>2, <1>4
<1>6. Answered' = IF m.role = "tool" THEN m.n ELSE 0  BY <1>4, <1>5 DEF Answered
<1>. QED  BY <1>2, <1>3, <1>4, <1>6

LEMMA OldRecords ==
  ASSUME LogInv, NEW m \in Records, log' = Append(log, m), NEW i \in 1..Len(log)
  PROVE  (Backed(i) => Backed(i)') /\ (Done(i) => Done(i)')
<1>1. /\ Len(log) \in Nat /\ Len(log') = Len(log) + 1
      /\ \A k \in 1..Len(log) : log'[k] = log[k] /\ log[k] \in Records
  BY Recorded
<1>2. log'[i] = log[i] /\ log[i].n \in Nat  BY <1>1 DEF Records
<1>3. ASSUME Backed(i)  PROVE Backed(i)'
  <2>. SUFFICES ASSUME log[i].role = "tool"
                PROVE  /\ log[i].n < i
                       /\ log'[i - log[i].n].role = "assistant"
                       /\ log[i].n <= log'[i - log[i].n].n
    BY <1>2 DEF Backed
  <2>1. /\ log[i].n < i
        /\ log[i - log[i].n].role = "assistant" /\ log[i].n <= log[i - log[i].n].n
    BY <1>3 DEF Backed
  <2>2. i - log[i].n \in 1..Len(log)  BY <1>1, <1>2, <2>1
  <2>. QED  BY <1>1, <2>1, <2>2
<1>4. ASSUME Done(i)  PROVE Done(i)'
  <2>. SUFFICES ASSUME log[i].role = "assistant", NEW j \in 1..log[i].n
                PROVE  /\ i + j <= Len(log')
                       /\ log'[i + j] = [role |-> "tool", turn |-> log[i].turn, n |-> j]
    BY <1>2 DEF Done
  <2>1. /\ i + j <= Len(log)
        /\ log[i + j] = [role |-> "tool", turn |-> log[i].turn, n |-> j]
    BY <1>4 DEF Done
  <2>2. i + j \in 1..Len(log)  BY <1>1, <1>2, <2>1
  <2>. QED  BY <1>1, <2>1, <2>2
<1>. QED  BY <1>3, <1>4

(* A text of the assistant or of the user.                                 *)
LEMMA CallsText ==
  ASSUME LogInv, CallsInv, NEW m \in Records, log' = Append(log, m),
         m.role # "tool", m.role = "assistant" => m.n = 0,
         pc \notin {"executing", "raised"}, pc' \notin {"executing", "processing_tools"}
  PROVE  CallsInv'
<1>1. /\ Len(log) \in Nat /\ Len(log') = Len(log) + 1 /\ log'[Len(log) + 1] = m
  BY Recorded
<1>2. ASSUME NEW i \in 1..Len(log')  PROVE Backed(i)' /\ Done(i)'
  <2>1. CASE i \in 1..Len(log)
    <3>1. Backed(i) /\ Done(i)  BY <2>1 DEF CallsInv
    <3>. QED  BY <2>1, <3>1, OldRecords
  <2>2. CASE i = Len(log) + 1  BY <1>1, <2>2 DEF Backed, Done
  <2>. QED  BY <1>1, <2>1, <2>2
<1>. QED  BY <1>2 DEF CallsInv

LEMMA CallsBatch ==
  ASSUME TurnsInv, LogInv, CallsInv, RecordBatch
  PROVE  CallsInv'
<1>. DEFINE L == Len(log)
            m == Message("assistant", batch)
<1>0. /\ m \in Records /\ log' = Append(log, m) /\ sAssistant \in Nat /\ batch \in Nat
      /\ sAssistant' = sAssistant + 1 /\ batch' = batch /\ batch > 0
      /\ pc = "processing_tools" /\ pc' = "executing"
      /\ m = [role |-> "assistant", turn |-> sAssistant, n |-> batch]
  BY RecordType, LoopAssumption
     DEF RecordBatch, turn, Message, Roles, TurnsInv, TurnsOK, LogInv, CallsInv
<1>1. /\ L \in Nat /\ Len(log') = L + 1 /\ log'[L + 1] = m /\ Answered' = 0
  <2>. HIDE DEF m
  <2>1. /\ L \in Nat /\ Len(log') = L + 1 /\ log'[L + 1] = m
        /\ Answered' = IF m.role = "tool" THEN m.n ELSE 0
    BY <1>0, Recorded
  <2>2. m.role = "assistant"  BY <1>0
  <2>. QED  BY <2>1, <2>2
<1>2. BatchAt' = L + 1  BY <1>1 DEF BatchAt
<1>3. ASSUME NEW i \in 1..L  PROVE Backed(i)' /\ Done(i)'
  <2>1. Backed(i) /\ Done(i)  BY <1>0 DEF CallsInv
  <2>2. m \in Records /\ log' = Append(log, m)  BY <1>0
  <2>. QED  BY <2>1, <2>2, OldRecords
<1>4. ASSUME NEW i, i = L + 1  PROVE Backed(i)'
  <2>1. log'[i].role = "assistant"  BY <1>0, <1>1, <1>4
  <2>. QED  BY <2>1 DEF Backed
<1>5. Executing'
  <2>1. log'[L + 1] = [role |-> "assistant", turn |-> sAssistant, n |-> batch]
    BY <1>0, <1>1
  <2>2. sAssistant' - 1 = sAssistant  BY <1>0
  <2>. QED  BY <1>0, <1>1, <1>2, <2>1, <2>2 DEF Executing
<1>6. \A i \in 1..Len(log') : i \in 1..L \/ i = L + 1  BY <1>1
<1>7. \A i \in 1..Len(log') : Backed(i)'  BY <1>3, <1>4, <1>6
<1>8. \A i \in 1..Len(log') : i # BatchAt' => Done(i)'  BY <1>2, <1>3, <1>6
<1>. QED  BY <1>0, <1>5, <1>7, <1>8 DEF CallsInv

LEMMA CallsAnswer ==
  ASSUME TurnsInv, LogInv, CallsInv, ExecuteCall
  PROVE  CallsInv'
<1>0. PICK L, a, h, b : L = Len(log) /\ a = Answered /\ h = BatchAt /\ b = batch
  OBVIOUS
<1>. DEFINE m == [role |-> "tool", turn |-> sAssistant - 1, n |-> a + 1]
<1>1. /\ pc = "executing" /\ a < b /\ log' = Append(log, m) /\ batch' = b
      /\ sAssistant' = sAssistant
      /\ pc' = IF a + 1 = b THEN "rendering_tools" ELSE "executing"
  BY <1>0 DEF ExecuteCall, turn
<1>2. /\ L \in Nat /\ a \in Nat /\ b \in Nat /\ h = L - a /\ h \in 1..L
      /\ sAssistant - 1 \in Nat
  BY <1>0, <1>1, AnsweredType
     DEF BatchAt, LogInv, CallsInv, Executing, TurnsInv, TurnsOK, CountersAgree
<1>3. m \in Records
  <2>1. "tool" \in Roles /\ a + 1 \in Nat  BY <1>2 DEF Roles
  <2>. QED  BY <1>2, <2>1, RecordType
<1>4. /\ Len(log') = L + 1 /\ log'[L + 1] = m /\ Answered' = a + 1
      /\ \A i \in 1..L : log'[i] = log[i]
  <2>. HIDE DEF m
  <2>1. /\ Len(log') = Len(log) + 1 /\ log'[Len(log) + 1] = m
        /\ \A i \in 1..Len(log) : log'[i] = log[i]
        /\ Answered' = IF m.role = "tool" THEN m.n ELSE 0
    BY <1>1, <1>3, Recorded
  <2>2. m.role = "tool" /\ m.n = a + 1  BY DEF m
  <2>. QED  BY <1>0, <2>1, <2>2
<1>5. BatchAt' = h  BY <1>2, <1>4 DEF BatchAt
<1>6. /\ log[h] = [role |-> "assistant", turn |-> sAssistant - 1, n |-> b]
      /\ \A j \in 1..a : log[h + j] = [role |-> "tool", turn |-> sAssistant - 1, n |-> j]
  BY <1>0, <1>1 DEF CallsInv, Executing
<1>7. /\ log'[h] = [role |-> "assistant", turn |-> sAssistant - 1, n |-> b]
      /\ \A j \in 1..a + 1 :
           log'[h + j] = [role |-> "tool", turn |-> sAssistant - 1, n |-> j]
  <2>1. log'[h] = log[h]  BY <1>2, <1>4
  <2>2. ASSUME NEW j \in 1..a + 1
        PROVE  log'[h + j] = [role |-> "tool", turn |-> sAssistant - 1, n |-> j]
    <3>1. CASE j \in 1..a
      <4>1. h + j \in 1..L  BY <1>2, <3>1
      <4>. QED  BY <1>4, <1>6, <3>1, <4>1
    <3>2. CASE j = a + 1
      <4>1. h + j = L + 1  BY <1>2, <3>2
      <4>. QED  BY <1>4, <3>2, <4>1
    <3>. QED  BY <1>2, <3>1, <3>2
  <2>. QED  BY <1>6, <2>1, <2>2
<1>8. ASSUME NEW i \in 1..L + 1  PROVE Backed(i)'
  <2>1. CASE i \in 1..L
    <3>1. Backed(i)  BY <1>0, <2>1 DEF CallsInv
    <3>2. i \in 1..Len(log)  BY <1>0, <2>1
    <3>. QED  BY <1>1, <1>3, <3>1, <3>2, OldRecords
  <2>2. CASE i = L + 1
    <3>1. log'[i] = m  BY <1>4, <2>2
    <3>2. m.n = a + 1 /\ i - (a + 1) = h  BY <1>2, <2>2
    <3>3. log'[h].role = "assistant" /\ log'[h].n = b  BY <1>7
    <3>4. a + 1 < i /\ a + 1 <= b  BY <1>1, <1>2, <2>2
    <3>. HIDE DEF m
    <3>. QED  BY <3>1, <3>2, <3>3, <3>4 DEF Backed
  <2>. QED  BY <1>2, <2>1, <2>2
<1>9. ASSUME NEW i \in 1..L + 1, i # h  PROVE Done(i)'
  <2>1. CASE i \in 1..L
    <3>1. i \in 1..Len(log)  BY <1>0, <2>1
    <3>2. Done(i)  BY <1>0, <1>1, <1>9, <3>1 DEF CallsInv
    <3>. QED  BY <1>1, <1>3, <3>1, <3>2, OldRecords
  <2>2. CASE i = L + 1
    <3>1. log'[i] = m  BY <1>4, <2>2
    <3>2. log'[i].role = "tool"  BY <3>1
    <3>. QED  BY <3>2 DEF Done
  <2>. QED  BY <1>2, <2>1, <2>2
<1>10. \A i \in 1..Len(log') : Backed(i)'  BY <1>4, <1>8
<1>11. CASE a + 1 # b
  <2>1. Executing'
    <3>1. a + 1 < b  BY <1>1, <1>2, <1>11
    <3>2. BatchAt' >= 1 /\ Answered' < batch'  BY <1>1, <1>2, <1>4, <1>5, <3>1
    <3>3. log'[BatchAt'] = [role |-> "assistant", turn |-> sAssistant' - 1, n |-> batch']
      BY <1>1, <1>5, <1>7
    <3>4. \A j \in 1..Answered' :
            log'[BatchAt' + j] = [role |-> "tool", turn |-> sAssistant' - 1, n |-> j]
      BY <1>1, <1>4, <1>5, <1>7
    <3>. QED  BY <3>2, <3>3, <3>4 DEF Executing
  <2>2. \A i \in 1..Len(log') : i # BatchAt' => Done(i)'  BY <1>4, <1>5, <1>9
  <2>3. pc' = "executing"  BY <1>1, <1>11
  <2>. QED  BY <1>10, <2>1, <2>2, <2>3 DEF CallsInv
<1>12. CASE a + 1 = b
  <2>1. ASSUME NEW i, i = h  PROVE Done(i)'
    <3>1. \A j \in 1..b : /\ h + j <= L + 1
                          /\ log'[h + j] = [role |-> "tool", turn |-> sAssistant - 1, n |-> j]
      BY <1>2, <1>7, <1>12
    <3>2. log'[h].turn = sAssistant - 1 /\ log'[h].n = b  BY <1>7
    <3>. QED  BY <1>4, <2>1, <3>1, <3>2 DEF Done
  <2>2. \A i \in 1..Len(log') : Done(i)'  BY <1>4, <1>9, <2>1
  <2>3. pc' = "rendering_tools"  BY <1>1, <1>12
  <2>. QED  BY <1>10, <2>2, <2>3 DEF CallsInv
<1>. QED  BY <1>11, <1>12

LEMMA CallsStep ==
  ASSUME TurnsInv, LogInv, CallsInv, Next
  PROVE  CallsInv'
<1>. USE DEF turn, session
<1>0. ASSUME Raise  PROVE CallsInv'  BY <1>0, CallsFrame DEF Raise
<1>1. CASE HandlePending  BY <1>0, <1>1, CallsFrame DEF HandlePending
<1>2. CASE RequestGeneration  BY <1>2, CallsFrame DEF RequestGeneration, Terminate
<1>3. ASSUME NEW g \in Generations, ReceiveGeneration(g)  PROVE CallsInv'
  <2>1. CASE Raise  BY <1>0, <2>1
  <2>2. CASE ~Raise
    <3>1. /\ pc = "awaiting_generation" /\ UNCHANGED log /\ batch' = g.text.parsed
          /\ pc' \in {"terminated", "processing_tools", "interacting"}
          /\ pc' = "processing_tools" => g.text.parsed > 0
      BY <1>3, <2>2 DEF ReceiveGeneration, Terminate
    <3>. QED  BY <3>1, CallsFrame
  <2>. QED  BY <2>1, <2>2
<1>4. CASE RecordBatch  BY <1>4, CallsBatch
<1>5. CASE ExecuteCall  BY <1>5, CallsAnswer
<1>6. CASE ExecuteFails  BY <1>0, <1>6 DEF ExecuteFails
<1>7. ASSUME NEW k \in 1..MaxObservation, ObserveTools(k)  PROVE CallsInv'
  BY <1>7, CallsFrame DEF ObserveTools, Terminate
<1>8. CASE RecordText
  <2>. DEFINE m == Message("assistant", 0)
  <2>1. m \in Records /\ m.role = "assistant" /\ m.n = 0
    BY RecordType DEF Message, Roles, TurnsInv, TurnsOK
  <2>2. /\ log' = Append(log, m) /\ pc = "interacting"
        /\ pc' \in {"user_replied", "awaiting_user"}
    BY <1>8 DEF RecordText
  <2>. HIDE DEF m
  <2>. QED  BY <2>1, <2>2, CallsText
<1>9. ASSUME NEW r \in {"text", "stop", "overflow"}, UserResponds(r)  PROVE CallsInv'
  <2>. DEFINE m == [role |-> "user", turn |-> sAssistant, n |-> 0]
  <2>1. m \in Records /\ m.role = "user"  BY RecordType DEF Roles, TurnsInv, TurnsOK
  <2>2. /\ log' = Append(log, m) \/ UNCHANGED log
        /\ pc = "awaiting_user" /\ pc' = "user_replied"
    BY <1>9 DEF UserResponds
  <2>. HIDE DEF m
  <2>3. CASE log' = Append(log, m)  BY <2>1, <2>2, <2>3, CallsText
  <2>4. CASE UNCHANGED log  BY <2>2, <2>4, CallsFrame
  <2>. QED  BY <2>2, <2>3, <2>4
<1>10. ASSUME NEW k \in 1..MaxObservation, HandleReply(k)  PROVE CallsInv'
  BY <1>10, CallsFrame DEF HandleReply, Terminate
<1>11. CASE FinalizeRollout  BY <1>11, CallsFrame DEF FinalizeRollout
<1>12. CASE Scored  BY <1>12, CallsFrame DEF Scored
<1>13. CASE Interrupted  BY <1>0, <1>13 DEF Interrupted
<1>14. CASE Finished  BY <1>14, CallsFrame DEF Finished, vars
<1>. QED
  BY <1>1, <1>2, <1>3, <1>4, <1>5, <1>6, <1>7, <1>8, <1>9, <1>10, <1>11, <1>12, <1>13,
     <1>14 DEF Next, Step

LEMMA CallsInvariant == Spec => []CallsInv
<1>1. TurnsInv /\ LogInv /\ CallsInv /\ [Next]_vars => CallsInv'
  <2>1. ASSUME CallsInv, UNCHANGED vars  PROVE CallsInv'
    BY <2>1 DEF CallsInv, Backed, Done, BatchAt, Answered, Executing, vars, turn, session
  <2>. QED  BY <2>1, CallsStep
<1>. QED  BY <1>1, CallsInit, TurnsInvariant, LogInvariant, PTL DEF Spec

(* What the session was due and what it was given: each recorded assistant *)
(* turn is an earlier generation, and carries what was due of it; the one  *)
(* not yet recorded has passed the envelope check and the parse check.     *)
Carried(i) ==
  log[i].role = "assistant" =>
    log[i].turn < sAssistant /\ (budgeted => log[i].n = emitted[log[i].turn + 1])

EmissionInv ==
  /\ Len(emitted) = assistantTurns /\ sAssistant <= assistantTurns
  /\ \A i \in 1..Len(log) : Carried(i)
  /\ budgeted /\ pc = "processing_tools" => emitted[assistantTurns] = batch
  /\ budgeted /\ pc = "interacting" => emitted[assistantTurns] = 0

LEMMA EmissionInit == Init => EmissionInv
<1>. SUFFICES ASSUME Init PROVE EmissionInv  OBVIOUS
<1>1. log = <<[role |-> "user", turn |-> 0, n |-> 0]>> \/ log = << >>  BY DEF Init
<1>2. \A i \in 1..Len(log) : log[i].role = "user"
  <2>1. CASE log = << >>  BY <2>1
  <2>2. CASE log = <<[role |-> "user", turn |-> 0, n |-> 0]>>  BY <2>2
  <2>. QED  BY <1>1, <2>1, <2>2
<1>3. pc = "pending" /\ emitted = << >> /\ assistantTurns = 0 /\ sAssistant = 0
  BY DEF Init
<1>. QED  BY <1>2, <1>3 DEF EmissionInv, Carried

LEMMA EmissionFrame ==
  ASSUME EmissionInv, UNCHANGED <<budgeted, emitted, assistantTurns, log, sAssistant>>,
         pc' \notin Unrecorded
  PROVE  EmissionInv'
BY DEF EmissionInv, Carried, Unrecorded

(* A record of a tool or of the user.                                      *)
LEMMA EmissionOther ==
  ASSUME LogInv, EmissionInv, NEW m \in Records, log' = Append(log, m),
         m.role # "assistant", UNCHANGED <<budgeted, emitted, assistantTurns, sAssistant>>,
         pc' \notin Unrecorded
  PROVE  EmissionInv'
<1>1. /\ Len(log) \in Nat /\ Len(log') = Len(log) + 1 /\ log'[Len(log) + 1] = m
      /\ \A i \in 1..Len(log) : log'[i] = log[i]
  BY Recorded
<1>2. ASSUME NEW i \in 1..Len(log')  PROVE Carried(i)'
  <2>1. CASE i \in 1..Len(log)
    <3>1. Carried(i) /\ log'[i] = log[i]  BY <1>1, <2>1 DEF EmissionInv
    <3>. QED  BY <3>1 DEF Carried
  <2>2. CASE i = Len(log) + 1  BY <1>1, <2>2 DEF Carried
  <2>. QED  BY <1>1, <2>1, <2>2
<1>. QED  BY <1>2 DEF EmissionInv, Unrecorded

(* The assistant's own record, in record_tool_batch or generate_response.  *)
LEMMA EmissionRecords ==
  ASSUME TurnsInv, LogInv, EmissionInv, NEW n \in Nat, NEW m \in Records,
         m = Message("assistant", n), log' = Append(log, m),
         sAssistant' = sAssistant + 1, UNCHANGED <<budgeted, emitted, assistantTurns>>,
         pc \in Unrecorded, pc' \notin Unrecorded,
         budgeted => emitted[assistantTurns] = n
  PROVE  EmissionInv'
<1>0. sAssistant \in Nat /\ assistantTurns \in Nat /\ sAssistant + 1 = assistantTurns
  BY LoopAssumption DEF TurnsInv, TurnsOK, CountersAgree
<1>1. /\ Len(log) \in Nat /\ Len(log') = Len(log) + 1 /\ log'[Len(log) + 1] = m
      /\ \A i \in 1..Len(log) : log'[i] = log[i] /\ log[i] \in Records
  BY Recorded
<1>2. m.turn = sAssistant /\ m.n = n  BY DEF Message
<1>3. ASSUME NEW i \in 1..Len(log')  PROVE Carried(i)'
  <2>1. CASE i \in 1..Len(log)
    <3>1. Carried(i) /\ log'[i] = log[i] /\ log[i].turn \in Nat
      BY <1>1, <2>1 DEF EmissionInv, Records
    <3>. QED  BY <1>0, <3>1 DEF Carried
  <2>2. CASE i = Len(log) + 1
    <3>1. log'[i].turn = sAssistant /\ log'[i].n = n  BY <1>1, <1>2, <2>2
    <3>. QED  BY <1>0, <3>1 DEF Carried
  <2>. QED  BY <1>1, <2>1, <2>2
<1>. QED  BY <1>0, <1>3 DEF EmissionInv, Unrecorded

LEMMA EmissionGenerates ==
  ASSUME TurnsInv, LogInv, EmissionInv, NEW g \in Generations, ReceiveGeneration(g), ~Raise
  PROVE  EmissionInv'
<1>0. /\ emitted \in Seq({Nothing} \cup 0..MaxCalls) /\ Len(emitted) = assistantTurns
      /\ assistantTurns \in Nat /\ sAssistant \in Nat /\ sAssistant <= assistantTurns
      /\ log \in Seq(Records) /\ budgeted' = budgeted
  BY LoopAssumption
     DEF LogInv, TurnsInv, TurnsOK, EmissionInv, ReceiveGeneration, config
<1>1. /\ emitted' = Append(emitted, Due(g)) /\ batch' = g.text.parsed
      /\ assistantTurns' = assistantTurns + 1 /\ UNCHANGED <<log, sAssistant>>
      /\ pc' \in {"terminated", "processing_tools", "interacting"}
      /\ pc' # "terminated" =>
           /\ ~ParseMismatch(g) /\ (budgeted => TokenEnd(g) = "none")
           /\ pc' = "processing_tools" <=> g.text.parsed > 0
  BY DEF ReceiveGeneration, Terminate, session
<1>2. /\ Len(emitted') = assistantTurns + 1
      /\ emitted'[assistantTurns + 1] = Due(g)
      /\ \A t \in 1..assistantTurns : emitted'[t] = emitted[t]
  <2>1. Due(g) \in {Nothing} \cup 0..MaxCalls  BY GenerationType
  <2>2. /\ Len(Append(emitted, Due(g))) = Len(emitted) + 1
        /\ \A t \in 1..Len(emitted) : Append(emitted, Due(g))[t] = emitted[t]
        /\ Append(emitted, Due(g))[Len(emitted) + 1] = Due(g)
    BY <1>0, <2>1, AppendProperties
  <2>. QED  BY <1>0, <1>1, <2>2
<1>3. ASSUME NEW i \in 1..Len(log)  PROVE Carried(i)'
  <2>. SUFFICES ASSUME log[i].role = "assistant"
                PROVE  /\ log[i].turn < sAssistant
                       /\ budgeted => log[i].n = emitted'[log[i].turn + 1]
    BY <1>0, <1>1 DEF Carried
  <2>1. /\ log[i].turn < sAssistant
        /\ budgeted => log[i].n = emitted[log[i].turn + 1]
    BY DEF EmissionInv, Carried
  <2>2. log[i] \in Records  BY <1>0, ElementOfSeq
  <2>3. log[i].turn + 1 \in 1..assistantTurns  BY <1>0, <2>1, <2>2 DEF Records
  <2>. QED  BY <1>2, <2>1, <2>3
<1>4. budgeted /\ pc' # "terminated" => Due(g) = g.text.parsed
  BY <1>1, TokenEndExact DEF ParseMismatch
<1>5. g.text.parsed \in Nat  BY GenerationType, LoopAssumption
<1>. QED  BY <1>0, <1>1, <1>2, <1>3, <1>4, <1>5 DEF EmissionInv

LEMMA EmissionStep ==
  ASSUME TurnsInv, LogInv, EmissionInv, Next
  PROVE  EmissionInv'
<1>. USE DEF config, turn, session, Unrecorded
<1>0. ASSUME Raise  PROVE EmissionInv'  BY <1>0, EmissionFrame DEF Raise
<1>1. CASE HandlePending  BY <1>0, <1>1, EmissionFrame DEF HandlePending
<1>2. CASE RequestGeneration  BY <1>2, EmissionFrame DEF RequestGeneration, Terminate
<1>3. ASSUME NEW g \in Generations, ReceiveGeneration(g)  PROVE EmissionInv'
  BY <1>0, <1>3, EmissionGenerates
<1>4. CASE RecordBatch
  <2>1. Message("assistant", batch) \in Records /\ batch \in Nat
    BY RecordType, LoopAssumption DEF Message, Roles, TurnsInv, TurnsOK, LogInv
  <2>2. budgeted => emitted[assistantTurns] = batch
    BY <1>4 DEF RecordBatch, EmissionInv
  <2>. QED  BY <1>4, <2>1, <2>2, EmissionRecords DEF RecordBatch
<1>5. CASE ExecuteCall
  <2>. DEFINE m == [role |-> "tool", turn |-> sAssistant - 1, n |-> Answered + 1]
  <2>1. sAssistant - 1 \in Nat /\ Answered + 1 \in Nat
    BY <1>5, AnsweredType DEF ExecuteCall, TurnsInv, TurnsOK, CountersAgree
  <2>2. m \in Records /\ m.role # "assistant"  BY <2>1, RecordType DEF Roles
  <2>3. log' = Append(log, m)  BY <1>5 DEF ExecuteCall
  <2>. HIDE DEF m
  <2>. QED  BY <1>5, <2>2, <2>3, EmissionOther DEF ExecuteCall
<1>6. CASE ExecuteFails  BY <1>0, <1>6 DEF ExecuteFails
<1>7. ASSUME NEW k \in 1..MaxObservation, ObserveTools(k)  PROVE EmissionInv'
  BY <1>7, EmissionFrame DEF ObserveTools, Terminate
<1>8. CASE RecordText
  <2>1. Message("assistant", 0) \in Records
    BY RecordType DEF Message, Roles, TurnsInv, TurnsOK
  <2>2. budgeted => emitted[assistantTurns] = 0
    BY <1>8 DEF RecordText, EmissionInv
  <2>. QED  BY <1>8, <2>1, <2>2, EmissionRecords DEF RecordText
<1>9. ASSUME NEW r \in {"text", "stop", "overflow"}, UserResponds(r)  PROVE EmissionInv'
  <2>. DEFINE m == [role |-> "user", turn |-> sAssistant, n |-> 0]
  <2>1. m \in Records /\ m.role # "assistant"
    BY RecordType DEF Roles, TurnsInv, TurnsOK
  <2>2. log' = Append(log, m) \/ UNCHANGED log  BY <1>9 DEF UserResponds
  <2>. HIDE DEF m
  <2>. QED  BY <1>9, <2>1, <2>2, EmissionOther, EmissionFrame DEF UserResponds
<1>10. ASSUME NEW k \in 1..MaxObservation, HandleReply(k)  PROVE EmissionInv'
  BY <1>10, EmissionFrame DEF HandleReply, Terminate
<1>11. CASE FinalizeRollout  BY <1>11, EmissionFrame DEF FinalizeRollout
<1>12. CASE Scored  BY <1>12, EmissionFrame DEF Scored
<1>13. CASE Interrupted  BY <1>0, <1>13 DEF Interrupted
<1>14. CASE Finished  BY <1>14, EmissionFrame DEF Finished, vars
<1>. QED
  BY <1>1, <1>2, <1>3, <1>4, <1>5, <1>6, <1>7, <1>8, <1>9, <1>10, <1>11, <1>12, <1>13,
     <1>14 DEF Next, Step

LEMMA EmissionInvariant == Spec => []EmissionInv
<1>1. TurnsInv /\ LogInv /\ EmissionInv /\ [Next]_vars => EmissionInv'
  <2>1. ASSUME EmissionInv, UNCHANGED vars  PROVE EmissionInv'
    BY <2>1 DEF EmissionInv, Carried, vars, config, turn, session
  <2>. QED  BY <2>1, EmissionStep
<1>. QED  BY <1>1, EmissionInit, TurnsInvariant, LogInvariant, PTL DEF Spec

(* The verifier never sees a half-answered batch, and under the token      *)
(* protocol the session is given of a text all its calls or nothing: also  *)
(* when the parser returns calls of a text that was cut off or aborted, or *)
(* more or fewer of them than the text has envelopes.                      *)
THEOREM BatchesWhole == Spec => []CallsAnswered
<1>1. ASSUME CallsInv, EmissionInv  PROVE CallsAnswered
  <2>1. ASSUME pc \in {"scoring", "done"}  PROVE Answers
    <3>1. \A i \in 1..Len(log) : Done(i) /\ Backed(i)  BY <1>1, <2>1 DEF CallsInv
    <3>. QED  BY <3>1 DEF Answers, Done, Backed
  <2>2. budgeted => \A i \in 1..Len(log) :
          log[i].role = "assistant" => log[i].n = emitted[log[i].turn + 1]
    BY <1>1 DEF EmissionInv, Carried
  <2>. QED  BY <2>1, <2>2 DEF CallsAnswered
<1>. QED  BY <1>1, CallsInvariant, EmissionInvariant, PTL
-----------------------------------------------------------------------------
(* Transcript's recursion as a table, and what a table says of a whole     *)
(* list of records.                                                        *)
Skipped(m) == m.role = "tool" /\ m.n # 1
Tells(s, t) ==
  t = [i \in 0..Len(s) |-> IF i = 0 THEN <<>>
                           ELSE IF Skipped(s[i]) THEN t[i - 1]
                           ELSE Append(t[i - 1], s[i].role)]
Told(s, x) == \E t : Tells(s, t) /\ x = t[Len(s)]

LEMMA TranscriptIs == Transcript = (CHOOSE t : Tells(log, t))[Len(log)]
BY DEF Transcript, Tells, Skipped

LEMMA TellsAt ==
  ASSUME NEW s, NEW t, Tells(s, t), NEW i \in 0..Len(s)
  PROVE  t[i] = IF i = 0 THEN <<>>
                ELSE IF Skipped(s[i]) THEN t[i - 1] ELSE Append(t[i - 1], s[i].role)
BY DEF Tells

(* A list of records has one table: a least place where two differ has a   *)
(* predecessor where they agree.                                           *)
LEMMA TablesAgree ==
  ASSUME NEW s, Len(s) \in Nat, NEW t, NEW u, Tells(s, t), Tells(s, u)
  PROVE  t[Len(s)] = u[Len(s)]
<1>. DEFINE Bad == {i \in 0..Len(s) : t[i] # u[i]}
            R == {p \in Nat \X Nat : p[1] < p[2]}
<1>. SUFFICES ASSUME Bad # {} PROVE FALSE
  OBVIOUS
<1>1. PICK i \in Bad : \A j \in Bad : ~(<<j, i>> \in R)
  <2>1. Bad \subseteq Nat  OBVIOUS
  <2>2. IsWellFoundedOn(R, Nat)  BY NatLessThanWellFounded DEF OpToRel
  <2>. HIDE DEF Bad, R
  <2>. QED  BY <2>1, <2>2, WFMin
<1>2. i \in 0..Len(s) /\ t[i] # u[i]  OBVIOUS
<1>3. i # 0  BY <1>2, TellsAt
<1>4. i - 1 \in 0..Len(s) /\ i - 1 < i /\ i - 1 \in Nat /\ i \in Nat  BY <1>2, <1>3
<1>5. <<i - 1, i>> \in R  BY <1>4
<1>6. t[i - 1] = u[i - 1]  BY <1>1, <1>4, <1>5
<1>. QED  BY <1>2, <1>6, TellsAt

LEMMA ToldOnce ==
  ASSUME Len(log) \in Nat, NEW x, Told(log, x)
  PROVE  Transcript = x
<1>1. PICK t : Tells(log, t) /\ x = t[Len(log)]  BY DEF Told
<1>. DEFINE u == CHOOSE v : Tells(log, v)
<1>2. Tells(log, u)  BY <1>1
<1>3. Transcript = u[Len(log)]  BY TranscriptIs
<1>. HIDE DEF u
<1>. QED  BY <1>1, <1>2, <1>3, TablesAgree

LEMMA ToldNothing == Told(<<>>, <<>>)
<1>. DEFINE t == [i \in 0..0 |-> <<>>]
<1>1. Tells(<<>>, t)  BY DEF Tells
<1>2. t[Len(<<>>)] = <<>>  OBVIOUS
<1>. QED  BY <1>1, <1>2 DEF Told

(* One more record.                                                        *)
LEMMA ToldMore ==
  ASSUME NEW s \in Seq(Records), NEW m \in Records, NEW q, q = Append(s, m),
         NEW x, Told(s, x)
  PROVE  Told(q, IF Skipped(m) THEN x ELSE Append(x, m.role))
<1>. DEFINE n == Len(s)
            y == IF Skipped(m) THEN x ELSE Append(x, m.role)
<1>1. PICK t : Tells(s, t) /\ x = t[n]  BY DEF Told
<1>2. /\ n \in Nat /\ Len(q) = n + 1 /\ q[n + 1] = m
      /\ \A i \in 1..n : q[i] = s[i]
  BY AppendProperties
<1>. HIDE DEF n, y
<1>. DEFINE u == [i \in 0..n + 1 |-> IF i = n + 1 THEN y ELSE t[i]]
<1>3. ASSUME NEW i \in 0..Len(q)
      PROVE  u[i] = IF i = 0 THEN <<>>
                    ELSE IF Skipped(q[i]) THEN u[i - 1] ELSE Append(u[i - 1], q[i].role)
  <2>1. CASE i = 0
    <3>1. 0 \in 0..Len(s) /\ 0 # n + 1  BY <1>2 DEF n
    <3>2. t[0] = <<>>  BY <1>1, <3>1, TellsAt
    <3>. QED  BY <1>2, <2>1, <3>1, <3>2
  <2>2. CASE i \in 1..n
    <3>1. i \in 0..Len(s) /\ i # 0  BY <1>2, <2>2 DEF n
    <3>2. t[i] = IF Skipped(s[i]) THEN t[i - 1] ELSE Append(t[i - 1], s[i].role)
      BY <1>1, <3>1, TellsAt
    <3>3. u[i] = t[i] /\ u[i - 1] = t[i - 1] /\ q[i] = s[i]  BY <1>2, <2>2
    <3>. HIDE DEF u
    <3>. QED  BY <3>1, <3>2, <3>3
  <2>3. CASE i = n + 1
    <3>1. u[i] = y /\ u[i - 1] = x /\ q[i] = m /\ i # 0  BY <1>1, <1>2, <2>3
    <3>. HIDE DEF u
    <3>. QED  BY <3>1 DEF y
  <2>. QED  BY <1>2, <2>1, <2>2, <2>3
<1>4. Tells(q, u)
  <2>1. u = [i \in 0..Len(q) |-> u[i]]  BY <1>2
  <2>. HIDE DEF u
  <2>. QED  BY <1>3, <2>1 DEF Tells
<1>5. u[Len(q)] = y  BY <1>2
<1>. QED  BY <1>4, <1>5 DEF Told, y
-----------------------------------------------------------------------------
(* How far the policy's view and the transcript are apart at each place:   *)
(* the loop shows a message before or after the session records it.        *)
Agreed(x) ==
  /\ pc \in {"pending", "generating", "awaiting_generation", "awaiting_user"} => view = x
  /\ pc \in {"processing_tools", "interacting"} => view = Append(x, "assistant")
  /\ pc = "executing" /\ Answered = 0 => view = x
  /\ pc = "executing" /\ Answered # 0 => x = Append(view, "tool")
  /\ pc = "rendering_tools" => x = Append(view, "tool")
  /\ pc = "user_replied" /\ reply \in {"text", "stop"} => x = Append(view, "user")
  /\ pc = "user_replied" /\ reply \notin {"text", "stop"} => view = x

ViewInv == \E x : Told(log, x) /\ Agreed(x)

LEMMA ViewInit == Init => ViewInv
<1>. SUFFICES ASSUME Init PROVE ViewInv  OBVIOUS
<1>1. CASE log = <<>> /\ view = <<>>
  BY <1>1, ToldNothing DEF Init, ViewInv, Agreed
<1>2. CASE log = <<[role |-> "user", turn |-> 0, n |-> 0]>> /\ view = <<"user">>
  <2>. PICK m : m = [role |-> "user", turn |-> 0, n |-> 0]  OBVIOUS
  <2>1. m \in Records /\ m.role = "user" /\ ~Skipped(m)
    BY RecordType DEF Roles, Skipped
  <2>2. log = Append(<<>>, m) /\ <<>> \in Seq(Records)  BY <1>2
  <2>3. Told(log, Append(<<>>, "user"))  BY <2>1, <2>2, ToldNothing, ToldMore
  <2>4. view = Append(<<>>, "user")  BY <1>2
  <2>. QED  BY <2>3, <2>4 DEF Init, ViewInv, Agreed
<1>. QED  BY <1>1, <1>2 DEF Init

(* A step that records m, given how the policy's view follows.             *)
LEMMA ViewRecords ==
  ASSUME LogInv, NEW m \in Records, log' = Append(log, m), NEW x, Told(log, x),
         NEW y, y = (IF Skipped(m) THEN x ELSE Append(x, m.role)), Agreed(y)'
  PROVE  ViewInv'
<1>1. Told(log', y)  BY ToldMore DEF LogInv
<1>. QED  BY <1>1 DEF ViewInv

LEMMA ViewRaises ==
  ASSUME ViewInv, Raise
  PROVE  ViewInv'
<1>1. PICK x : Told(log, x)  BY DEF ViewInv
<1>2. Agreed(x)'  BY DEF Raise, Agreed
<1>3. log' = log  BY DEF Raise, session
<1>. QED  BY <1>1, <1>2, <1>3 DEF ViewInv

LEMMA ViewStep ==
  ASSUME TurnsInv, LogInv, ViewInv, Next
  PROVE  ViewInv'
<1>. USE DEF session, tokens
<1>. PICK x : Told(log, x) /\ Agreed(x)  BY DEF ViewInv
<1>0. ASSUME UNCHANGED log, Agreed(x)'  PROVE ViewInv'  BY <1>0 DEF ViewInv
<1>1. CASE HandlePending
  <2>1. CASE Raise  BY <2>1, ViewRaises
  <2>2. CASE ~Raise
    <3>1. Agreed(x)'  BY <1>1, <2>2 DEF HandlePending, Agreed
    <3>. QED  BY <1>0, <1>1, <2>2, <3>1 DEF HandlePending
  <2>. QED  BY <2>1, <2>2
<1>2. CASE RequestGeneration
  <2>1. Agreed(x)'  BY <1>2 DEF RequestGeneration, Terminate, Agreed
  <2>. QED  BY <1>0, <1>2, <2>1 DEF RequestGeneration
<1>3. ASSUME NEW g \in Generations, ReceiveGeneration(g)  PROVE ViewInv'
  <2>1. CASE Raise  BY <2>1, ViewRaises
  <2>2. CASE ~Raise
    <3>1. /\ view' = Append(view, "assistant") /\ pc = "awaiting_generation"
          /\ pc' \in {"terminated", "processing_tools", "interacting"} /\ UNCHANGED log
      BY <1>3, <2>2 DEF ReceiveGeneration, AppendGeneration, Terminate
    <3>2. Agreed(x)'  BY <3>1 DEF Agreed
    <3>. QED  BY <1>0, <3>1, <3>2
  <2>. QED  BY <2>1, <2>2
<1>4. CASE RecordBatch
  <2>. PICK m : m = Message("assistant", batch)  OBVIOUS
  <2>1. m \in Records /\ m.role = "assistant" /\ ~Skipped(m)
    BY RecordType, LoopAssumption DEF Message, Roles, Skipped, LogInv, TurnsInv, TurnsOK
  <2>2. log' = Append(log, m)  BY <1>4 DEF RecordBatch
  <2>3. Answered' = 0  BY <2>1, <2>2, Recorded
  <2>. PICK y : y = Append(x, "assistant")  OBVIOUS
  <2>4. Agreed(y)'  BY <1>4, <2>3 DEF RecordBatch, Agreed
  <2>. QED  BY <2>1, <2>2, <2>4, ViewRecords
<1>5. CASE ExecuteCall
  <2>. PICK m : m = [role |-> "tool", turn |-> sAssistant - 1, n |-> Answered + 1]  OBVIOUS
  <2>1. sAssistant - 1 \in Nat /\ Answered \in Nat /\ Answered + 1 \in Nat
    BY <1>5, AnsweredType DEF ExecuteCall, TurnsInv, TurnsOK, CountersAgree
  <2>2. m \in Records /\ m.role = "tool" /\ m.n = Answered + 1
    BY <2>1, RecordType DEF Roles
  <2>3. log' = Append(log, m)  BY <1>5 DEF ExecuteCall
  <2>4. Answered' = Answered + 1  BY <2>2, <2>3, Recorded
  <2>5. Answered' # 0 /\ (Skipped(m) <=> Answered # 0)  BY <2>1, <2>2, <2>4 DEF Skipped
  <2>. PICK y : y = IF Skipped(m) THEN x ELSE Append(x, m.role)  OBVIOUS
  <2>6. y = IF Answered # 0 THEN x ELSE Append(x, "tool")  BY <2>2, <2>5
  <2>7. /\ pc = "executing" /\ pc' \in {"rendering_tools", "executing"} /\ view' = view
    BY <1>5 DEF ExecuteCall
  <2>8. y = Append(view, "tool")  BY <2>6, <2>7 DEF Agreed
  <2>9. Agreed(y)'  BY <2>5, <2>7, <2>8 DEF Agreed
  <2>. QED  BY <2>2, <2>3, <2>9, ViewRecords
<1>6. CASE ExecuteFails  BY <1>6, ViewRaises DEF ExecuteFails
<1>7. ASSUME NEW k \in 1..MaxObservation, ObserveTools(k)  PROVE ViewInv'
  <2>1. Agreed(x)'
    BY <1>7 DEF ObserveTools, AppendObservation, Terminate, Agreed
  <2>. QED  BY <1>0, <1>7, <2>1 DEF ObserveTools
<1>8. CASE RecordText
  <2>. PICK m : m = Message("assistant", 0)  OBVIOUS
  <2>1. m \in Records /\ m.role = "assistant" /\ ~Skipped(m)
    BY RecordType DEF Message, Roles, Skipped, TurnsInv, TurnsOK
  <2>2. log' = Append(log, m)  BY <1>8 DEF RecordText
  <2>. PICK y : y = Append(x, "assistant")  OBVIOUS
  <2>3. /\ view' = view /\ pc = "interacting"
        /\ \/ pc' = "awaiting_user"
           \/ pc' = "user_replied" /\ reply' = "limit"
    BY <1>8 DEF RecordText
  <2>4. Agreed(y)'  BY <2>3 DEF Agreed
  <2>. QED  BY <2>1, <2>2, <2>4, ViewRecords
<1>9. ASSUME NEW r \in {"text", "stop", "overflow"}, UserResponds(r)  PROVE ViewInv'
  <2>0. pc = "awaiting_user" /\ pc' = "user_replied" /\ view' = view /\ reply' = r
    BY <1>9 DEF UserResponds
  <2>. PICK m : m = [role |-> "user", turn |-> sAssistant, n |-> 0]  OBVIOUS
  <2>1. m \in Records /\ m.role = "user" /\ ~Skipped(m)
    BY RecordType DEF Roles, Skipped, TurnsInv, TurnsOK
  <2>2. CASE log' = Append(log, m) /\ r \in {"text", "stop"}
    <3>. PICK y : y = Append(x, "user")  OBVIOUS
    <3>1. Agreed(y)'  BY <2>0, <2>2 DEF Agreed
    <3>. QED  BY <2>1, <2>2, <3>1, ViewRecords
  <2>3. CASE UNCHANGED log /\ r = "overflow"
    <3>1. Agreed(x)'  BY <2>0, <2>3 DEF Agreed
    <3>. QED  BY <1>0, <2>3, <3>1
  <2>. QED  BY <1>9, <2>2, <2>3 DEF UserResponds
<1>10. ASSUME NEW k \in 1..MaxObservation, HandleReply(k)  PROVE ViewInv'
  <2>1. /\ pc = "user_replied" /\ pc' \in {"generating", "terminated"} /\ UNCHANGED log
        /\ pc' = "generating" => reply = "text" /\ view' = Append(view, "user")
    BY <1>10 DEF HandleReply, AppendObservation, Terminate
  <2>2. Agreed(x)'  BY <2>1 DEF Agreed
  <2>. QED  BY <1>0, <2>1, <2>2
<1>11. CASE FinalizeRollout
  <2>1. Agreed(x)'  BY <1>11 DEF FinalizeRollout, Agreed
  <2>. QED  BY <1>0, <1>11, <2>1 DEF FinalizeRollout
<1>12. CASE Scored
  <2>1. Agreed(x)'  BY <1>12 DEF Scored, Agreed
  <2>. QED  BY <1>0, <1>12, <2>1 DEF Scored
<1>13. CASE Interrupted  BY <1>13, ViewRaises DEF Interrupted
<1>14. CASE Finished
  <2>1. UNCHANGED <<pc, view, log, reply>>  BY <1>14 DEF Finished, vars
  <2>2. Agreed(x)'  BY <2>1 DEF Agreed, Answered
  <2>. QED  BY <1>0, <2>1, <2>2
<1>. QED
  BY <1>1, <1>2, <1>3, <1>4, <1>5, <1>6, <1>7, <1>8, <1>9, <1>10, <1>11, <1>12, <1>13,
     <1>14 DEF Next, Step

LEMMA ViewInvariant == Spec => []ViewInv
<1>1. TurnsInv /\ LogInv /\ ViewInv /\ [Next]_vars => ViewInv'
  <2>1. ASSUME ViewInv, UNCHANGED vars  PROVE ViewInv'
    <3>1. UNCHANGED <<pc, view, log, reply>>  BY <2>1 DEF vars, tokens, session
    <3>2. PICK x : Told(log, x) /\ Agreed(x)  BY <2>1 DEF ViewInv
    <3>3. Agreed(x)'  BY <3>1, <3>2 DEF Agreed, Answered
    <3>. QED  BY <3>1, <3>2, <3>3 DEF ViewInv
  <2>. QED  BY <2>1, ViewStep
<1>. QED  BY <1>1, ViewInit, TurnsInvariant, LogInvariant, PTL DEF Spec

(* The policy and the verifier never see two conversations: whenever the   *)
(* loop is about to generate, the messages whose tokens it holds are those *)
(* the session recorded, the answers to one batch rendered as one, whatever*)
(* the limits, the replies and the calls of earlier turns.                 *)
THEOREM HistoriesAgree == Spec => []SameConversation
<1>1. ASSUME LogInv, ViewInv  PROVE SameConversation
  <2>1. PICK x : Told(log, x) /\ Agreed(x)  BY <1>1 DEF ViewInv
  <2>2. Len(log) \in Nat  BY <1>1 DEF LogInv
  <2>3. Transcript = x  BY <2>1, <2>2, ToldOnce
  <2>. QED  BY <2>1, <2>3 DEF Agreed, SameConversation
<1>. QED  BY <1>1, LogInvariant, ViewInvariant, PTL
=============================================================================
