-------------------------- MODULE QueryAgentProofs --------------------------
(***************************************************************************)
(* What TLAPS proves of QueryAgent, and of McpServer that runs it, for any *)
(* number of agents and calls and any limits, with a clock that is never   *)
(* set back.                                                               *)
(***************************************************************************)
EXTENDS McpServer, SequenceTheorems, TLAPS

\* A state once handed out is never replaced: the call that paused is over.
PausedIsOver ==
  \A i \in Calls : paused[i].kind # "none" => pc[i] = "paused"

\* The memory holds what was redeemed, with the time its state carries.
MemoryIsTrue ==
  \A a \in Agents : \A e \in confirmed[a] :
    e.at = paused[e.key].at /\ redeemed[a][e.key] > 0

\* Only paused confirmations are redeemed.
RedeemedIsPaused ==
  \A a \in Agents, i \in Calls :
    redeemed[a][i] > 0 => paused[i].kind # "none"

\* A call about to run a change under a paused confirmation is the one that
\* redeemed it, and the change has not run yet.
ConsentIsFresh ==
  /\ \A c \in Calls :
       consent[c] \in Calls =>
         /\ pc[c] = "hook"
         /\ redeemed[on[c]][consent[c]] = 1
         /\ ran[on[c]][consent[c]] = 0
  /\ \A c, d \in Calls :
       consent[c] \in Calls /\ consent[c] = consent[d] /\ on[c] = on[d] => c = d

IInv ==
  /\ TypeOK
  /\ RedeemedOnce
  /\ ChangeRunsOnce
  /\ ForgottenMeansExpired
  /\ PausedIsOver
  /\ MemoryIsTrue
  /\ RedeemedIsPaused
  /\ ConsentIsFresh

-----------------------------------------------------------------------------
(* Conversations.                                                         *)

\* The model's message leaves a conversation well typed: its refused calls are
\* numbered among its calls.
LEMMA ToldType ==
  ASSUME NEW s \in Conversation, NEW n \in 1..MaxToolCalls
  PROVE  Told(s, n) \in Conversation
<1> DEFINE refused == [i \in 1..(n - 1) |-> i + 1]
<1>1. refused \in Seq(1..MaxToolCalls)
  <2>1. n - 1 \in Nat
    BY LimitsAssumption
  <2>2. \A i \in 1..(n - 1) : i + 1 \in 1..MaxToolCalls
    BY LimitsAssumption
  <2> QED
    BY <2>1, <2>2, IsASeq
<1>2. n \in 0..MaxToolCalls /\ s.turns + 1 \in Nat
  BY LimitsAssumption DEF Conversation
<1>3. Told(s, n) =
        [s EXCEPT !.turns = @ + 1, !.calls = n, !.replies = refused]
  BY DEF Told
<1> HIDE DEF refused
<1> QED
  BY <1>1, <1>2, <1>3 DEF Conversation

\* A conversation in which a call was made can take the reply to it.
LEMMA RepliedType ==
  ASSUME NEW s \in Conversation
  PROVE  Replied(s) \in Conversation
<1>1. 1 \in 1..MaxToolCalls
  BY LimitsAssumption
<1>2. Append(s.replies, 1) \in Seq(1..MaxToolCalls)
  BY <1>1 DEF Conversation
<1> QED
  BY <1>2 DEF Replied, Conversation

\* A reply that reports errors counts an attempt, and keeps the type.
LEMMA FailedOnceType ==
  ASSUME NEW s \in Conversation
  PROVE  FailedOnce(s) \in Conversation
<1> DEFINE r == Replied(s)
<1>1. r \in Conversation
  BY RepliedType
<1>2. FailedOnce(s) = [r EXCEPT !.attempts = @ + 1]
  BY DEF FailedOnce
<1> HIDE DEF r
<1>3. r.attempts + 1 \in Nat
  BY <1>1 DEF Conversation
<1> QED
  BY <1>1, <1>2, <1>3 DEF Conversation

\* A call starts with a well-typed conversation.
LEMMA NewConversationType == NewConversation \in Conversation
BY LimitsAssumption DEF NewConversation, Conversation

\* Counting one event of agent a and confirmation i.
LEMMA Counted ==
  ASSUME NEW f \in [Agents -> [Calls -> Nat]], NEW a \in Agents, NEW i \in Calls,
         NEW g, g = [f EXCEPT ![a][i] = @ + 1]
  PROVE  /\ g \in [Agents -> [Calls -> Nat]]
         /\ g[a][i] = f[a][i] + 1
         /\ \A b \in Agents, j \in Calls : b # a \/ j # i => g[b][j] = f[b][j]
<1>1. f[a] \in [Calls -> Nat] /\ f[a][i] + 1 \in Nat
  OBVIOUS
<1>2. [f[a] EXCEPT ![i] = @ + 1] \in [Calls -> Nat]
  BY <1>1
<1> QED
  BY <1>1, <1>2

-----------------------------------------------------------------------------
(* Types.                                                                 *)

Places == {"idle"} \cup Awaits \cup Ends

\* Moving a call to a place keeps what is said of its place and conversation.
LEMMA GotoType ==
  ASSUME TypeOK, NEW c \in Calls, NEW s \in Conversation, NEW place \in Places,
         Goto(c, s, place)
  PROVE  /\ conv' \in [Calls -> Conversation]
         /\ pc' \in [Calls -> Places]
BY NewConversationType DEF TypeOK, Goto, Places

\* _failed keeps the type, whether another attempt is left or not.
LEMMA FailedType ==
  ASSUME TypeOK, NEW c \in Calls, NEW s \in Conversation, Failed(c, s)
  PROVE  /\ conv' \in [Calls -> Conversation]
         /\ pc' \in [Calls -> Places]
         /\ \E place \in {"failed", "completing"} : pc' = [pc EXCEPT ![c] = place]
<1> DEFINE place == IF FailedOnce(s).attempts >= MaxAttempts
                      THEN "failed" ELSE "completing"
<1>1. place \in Places /\ place \in {"failed", "completing"}
  BY DEF Places, Awaits, Ends
<1>2. Goto(c, FailedOnce(s), place)
  BY DEF Failed
<1>3. FailedOnce(s) \in Conversation
  BY FailedOnceType
<1>4. pc' = [pc EXCEPT ![c] = place]
  BY <1>2 DEF Goto
<1> HIDE DEF place
<1> QED
  BY <1>1, <1>2, <1>3, <1>4, GotoType

\* The errors of an operation go back to the model, or end the call: both keep
\* the type.
LEMMA OperationFailedType ==
  ASSUME TypeOK, NEW c \in Calls, OperationFailed(c)
  PROVE  /\ conv' \in [Calls -> Conversation]
         /\ pc' \in [Calls -> Places]
         /\ op' \in [Calls -> Operation]
         /\ \E place \in {"failed", "completing"} : pc' = [pc EXCEPT ![c] = place]
<1>1. conv[c] \in Conversation
  BY DEF TypeOK
<1>2. op' \in [Calls -> Operation]
  BY DEF OperationFailed, TypeOK, NoOperation, Operation
<1>3. CASE op[c].tool = "lookup"
  <2>1. Goto(c, Replied(conv[c]), "completing")
    BY <1>3 DEF OperationFailed
  <2>2. "completing" \in Places
    BY DEF Places, Awaits
  <2> QED
    BY <1>1, <1>2, <2>1, <2>2, RepliedType, GotoType DEF Goto
<1>4. CASE op[c].tool # "lookup"
  <2>1. Failed(c, conv[c])
    BY <1>4 DEF OperationFailed
  <2> QED
    BY <1>1, <1>2, <2>1, FailedType
<1> QED
  BY <1>3, <1>4

\* The agents start well typed: no call runs, nothing is paused or redeemed.
THEOREM InitTypeOK == Init => TypeOK
<1> SUFFICES ASSUME Init PROVE TypeOK
  OBVIOUS
<1>1. NotPaused \in PausedState
  BY NewConversationType DEF NotPaused, PausedState
<1> QED
  BY <1>1, NewConversationType
     DEF Init, TypeOK, NoOperation, Operation

\* What the branches of the model's message leave the conversation with.
LEMMA LookupType ==
  ASSUME NEW s \in Conversation, NEW n \in 1..MaxToolCalls
  PROVE  /\ [Told(s, n) EXCEPT !.lookups = @ + 1] \in Conversation
         /\ AskedOnce(Told(s, n)) \in Conversation
<1> DEFINE t == Told(s, n)
<1>1. t \in Conversation
  BY ToldType
<1>2. AskedOnce(Told(s, n)) = [t EXCEPT !.clarifications = @ + 1]
  BY DEF AskedOnce
<1> HIDE DEF t
<1>3. t.lookups + 1 \in Nat /\ t.clarifications + 1 \in Nat
  BY <1>1 DEF Conversation
<1>4. [t EXCEPT !.lookups = @ + 1] \in Conversation
  BY <1>1, <1>3 DEF Conversation
<1>5. [t EXCEPT !.clarifications = @ + 1] \in Conversation
  BY <1>1, <1>3 DEF Conversation
<1> QED
  BY <1>2, <1>4, <1>5 DEF t

\* A step of call c that does not pause it, with its conversation and its
\* operation of the right type.
WellTypedMove(c) ==
  /\ conv' \in [Calls -> Conversation]
  /\ pc' \in [Calls -> Places]
  /\ op' \in [Calls -> Operation]
  /\ \E place \in Places \ {"paused"} : pc' = [pc EXCEPT ![c] = place]

\* Goto is such a move, when it does not pause the call.
LEMMA MoveByGoto ==
  ASSUME TypeOK, NEW c \in Calls, NEW s \in Conversation,
         NEW place \in Places \ {"paused"}, Goto(c, s, place),
         op' \in [Calls -> Operation]
  PROVE  WellTypedMove(c)
BY GotoType DEF WellTypedMove, Goto

\* So is _failed.
LEMMA MoveByFailed ==
  ASSUME TypeOK, NEW c \in Calls, NEW s \in Conversation, Failed(c, s),
         op' \in [Calls -> Operation]
  PROVE  WellTypedMove(c)
BY FailedType DEF WellTypedMove, Places, Awaits, Ends

\* What the awaits and the ends of a call are called.
LEMMA PlacesFacts ==
  /\ {"idle", "completing", "confirming", "asking", "hook", "executing",
      "answered", "failed"} = Places \ {"paused"}
  /\ "paused" \in Places
BY DEF Places, Awaits, Ends

\* The model's message moves its call, whichever tool it calls, and leaves the
\* memory and what is paused alone.
LEMMA ModelCallsToolMoves ==
  ASSUME TypeOK, NEW c \in Calls, ModelCallsTool(c)
  PROVE  /\ pc[c] = "completing"
         /\ WellTypedMove(c)
         /\ UNCHANGED <<on, consent, paused, confirmed, now, redeemed, ran>>
<1>1. PICK n \in 1..MaxToolCalls :
        \/ RunInvalid(c, n)
        \/ \E kind \in {"query", "mutation"} : RunGraphql(c, n, kind)
        \/ \E tool \in {"lookup", "ask_user", "other"} : UnknownTool(c, n, tool)
        \/ \E kind \in {"query", "mutation", "invalid"} : Lookup(c, n, kind)
        \/ \E usable \in BOOLEAN : AskUser(c, n, usable)
  BY DEF ModelCallsTool
<1>2. pc[c] = "completing"
      /\ UNCHANGED <<on, consent, paused, confirmed, now, redeemed, ran>>
  BY <1>1 DEF RunInvalid, RunGraphql, UnknownTool, Lookup, AskUser
<1> DEFINE t == Told(conv[c], n)
           looked == [t EXCEPT !.lookups = @ + 1]
           asked == AskedOnce(t)
<1>3. t \in Conversation /\ looked \in Conversation /\ asked \in Conversation
  BY ToldType, LookupType DEF TypeOK
<1>4. Replied(looked) \in Conversation /\ Replied(asked) \in Conversation
  BY <1>3, RepliedType
<1>5. op \in [Calls -> Operation]
  BY DEF TypeOK
<1>6. CASE RunInvalid(c, n)
  BY <1>6, <1>3, <1>5, MoveByFailed DEF RunInvalid
<1>7. ASSUME NEW kind \in {"query", "mutation"}, RunGraphql(c, n, kind)
      PROVE  WellTypedMove(c)
  <2>1. CASE kind \notin Allowed(c)
    BY <1>7, <2>1, <1>3, <1>5, MoveByFailed DEF RunGraphql
  <2>2. CASE kind \in Allowed(c)
    <3>1. op' \in [Calls -> Operation]
      BY <1>7, <2>2, <1>5 DEF RunGraphql, Operation
    <3>2. PICK place \in {"confirming", "hook"} : Goto(c, t, place)
      BY <1>7, <2>2 DEF RunGraphql
    <3> QED
      BY <3>1, <3>2, <1>3, MoveByGoto, PlacesFacts
  <2> QED
    BY <2>1, <2>2
<1>8. ASSUME NEW tool \in {"lookup", "ask_user", "other"}, UnknownTool(c, n, tool)
      PROVE  WellTypedMove(c)
  BY <1>8, <1>3, <1>5, MoveByFailed DEF UnknownTool
<1>9. ASSUME NEW kind \in {"query", "mutation", "invalid"}, Lookup(c, n, kind)
      PROVE  WellTypedMove(c)
  <2>1. op' \in [Calls -> Operation]
    BY <1>9, <1>5 DEF Lookup, Operation
  <2>2. Goto(c, looked, "hook") \/ Goto(c, Replied(looked), "completing")
    BY <1>9 DEF Lookup
  <2> QED
    BY <2>1, <2>2, <1>3, <1>4, MoveByGoto, PlacesFacts
<1>10. ASSUME NEW usable \in BOOLEAN, AskUser(c, n, usable)
       PROVE  WellTypedMove(c)
  <2>1. Goto(c, asked, "asking") \/ Goto(c, Replied(asked), "completing")
    BY <1>10 DEF AskUser
  <2>2. op' \in [Calls -> Operation]
    BY <1>10, <1>5 DEF AskUser
  <2> QED
    BY <2>1, <2>2, <1>3, <1>4, MoveByGoto, PlacesFacts
<1> QED
  BY <1>1, <1>2, <1>6, <1>7, <1>8, <1>9, <1>10


\* The steps of a call that touch neither the memory nor what is paused.
LEMMA ContinueMoves ==
  ASSUME TypeOK, NEW c \in Calls, Continue(c), ~Pause(c)
  PROVE  /\ pc[c] \in Awaits
         /\ WellTypedMove(c)
         /\ UNCHANGED <<on, paused, confirmed, now, redeemed>>
         /\ \/ pc[c] # "hook" /\ UNCHANGED consent
            \/ \E w \in {Nobody, InCall} : consent' = [consent EXCEPT ![c] = w]
         /\ ~HookAccepts(c) => UNCHANGED ran
<1>1. /\ conv[c] \in Conversation /\ Replied(conv[c]) \in Conversation
      /\ op \in [Calls -> Operation]
      /\ [op EXCEPT ![c] = NoOperation] \in [Calls -> Operation]
  BY RepliedType DEF TypeOK, NoOperation, Operation
<1>2. CASE ModelCallsTool(c)
  BY <1>2, ModelCallsToolMoves DEF Awaits
<1>3. CASE ConfirmedInCall(c)
  BY <1>1, <1>3, MoveByGoto, PlacesFacts DEF ConfirmedInCall, Awaits
<1>4. CASE AnsweredInCall(c)
  BY <1>1, <1>4, MoveByGoto, PlacesFacts DEF AnsweredInCall, Awaits
<1>5. CASE HookAccepts(c)
  BY <1>1, <1>5, MoveByGoto, PlacesFacts DEF HookAccepts, Awaits
<1>6. CASE HookRejects(c)
  <2>1. WellTypedMove(c)
    BY <1>6, OperationFailedType, PlacesFacts DEF HookRejects, WellTypedMove
  <2> QED
    BY <1>6, <2>1 DEF HookRejects, Awaits
<1>7. CASE ExecuteReturnsData(c)
  <2>1. WellTypedMove(c)
    BY <1>1, <1>7, MoveByGoto, PlacesFacts DEF ExecuteReturnsData
  <2> QED
    BY <1>7, <2>1 DEF ExecuteReturnsData, Awaits
<1>8. CASE ExecuteReturnsNoData(c)
  <2>1. WellTypedMove(c)
    BY <1>8, OperationFailedType, PlacesFacts
       DEF ExecuteReturnsNoData, WellTypedMove
  <2> QED
    BY <1>8, <2>1 DEF ExecuteReturnsNoData, Awaits
<1>9. CASE Raise(c)
  <2>1. WellTypedMove(c)
    BY <1>1, <1>9, MoveByGoto, PlacesFacts DEF Raise
  <2> QED
    BY <1>9, <2>1 DEF Raise
<1> QED
  BY <1>2, <1>3, <1>4, <1>5, <1>6, <1>7, <1>8, <1>9 DEF Continue

\* A step of a call after an await keeps the type.
LEMMA ContinueTypeOK ==
  ASSUME TypeOK, NEW c \in Calls, Continue(c)
  PROVE  TypeOK'
<1>1. CASE Pause(c)
  <2>1. conv[c] \in Conversation /\ now \in Nat
    BY DEF TypeOK
  <2>2. conv' \in [Calls -> Conversation] /\ pc' \in [Calls -> Places]
    BY <1>1, <2>1, GotoType, PlacesFacts DEF Pause
  <2>3. paused' \in [Calls -> PausedState]
    BY <1>1, <2>1 DEF Pause, TypeOK, PausedState
  <2>4. op' \in [Calls -> Operation]
    BY <1>1 DEF Pause, TypeOK, NoOperation, Operation
  <2> QED
    BY <1>1, <2>2, <2>3, <2>4 DEF Pause, TypeOK, Places
<1>2. CASE ~Pause(c)
  <2>1. /\ conv' \in [Calls -> Conversation] /\ pc' \in [Calls -> Places]
        /\ op' \in [Calls -> Operation]
        /\ UNCHANGED <<on, paused, confirmed, now, redeemed>>
    BY <1>2, ContinueMoves DEF WellTypedMove
  <2>2. consent' \in [Calls -> Calls \cup {Nobody, InCall}]
    BY <1>2, ContinueMoves DEF TypeOK
  <2>3. ran' \in [Agents -> [Calls -> Nat]]
    <3>1. ran \in [Agents -> [Calls -> Nat]] /\ on[c] \in Agents
      BY DEF TypeOK
    <3>2. CASE HookAccepts(c) /\ consent[c] \in Calls
      BY <3>1, <3>2, Counted DEF HookAccepts
    <3>3. CASE ~HookAccepts(c) \/ consent[c] \notin Calls
      BY <1>2, <3>1, <3>3, ContinueMoves DEF HookAccepts
    <3> QED
      BY <3>2, <3>3
  <2> QED
    BY <2>1, <2>2, <2>3 DEF TypeOK, Places
<1> QED
  BY <1>1, <1>2

\* A resumption keeps the type.
LEMMA ResumeTypeOK ==
  ASSUME TypeOK, NEW c \in Calls, NEW i \in Calls, Resume(c, i)
  PROVE  TypeOK'
<1>1. paused[i].conv \in Conversation /\ Replied(paused[i].conv) \in Conversation
      /\ paused[i].at \in Nat /\ on[c] \in Agents
  BY RepliedType DEF TypeOK, PausedState
<1>2. Unexpired(on[c]) \subseteq [key : Calls, at : Nat]
      /\ Remembered(on[c], i) \subseteq [key : Calls, at : Nat]
  BY <1>1 DEF Unexpired, Remembered, TypeOK
<1>3. CASE ResumeQuestion(c, i)
  BY <1>1, <1>3, GotoType, PlacesFacts DEF ResumeQuestion, TypeOK, Places
<1>4. CASE ResumeDeclined(c, i)
  BY <1>1, <1>4, GotoType, PlacesFacts DEF ResumeDeclined, TypeOK, Places
<1>5. CASE ResumeRefused(c, i)
  BY <1>1, <1>2, <1>5, GotoType, PlacesFacts DEF ResumeRefused, TypeOK, Places
<1>6. CASE ResumeConfirmed(c, i)
  <2>1. conv' \in [Calls -> Conversation] /\ pc' \in [Calls -> Places]
    BY <1>1, <1>6, GotoType, FailedType, PlacesFacts DEF ResumeConfirmed
  <2>2. op' \in [Calls -> Operation]
    <3>1. [tool |-> "run_graphql", kind |-> "mutation"] \in Operation
      BY DEF Operation
    <3>2. op' = op \/ op' = [op EXCEPT ![c] =
                              [tool |-> "run_graphql", kind |-> "mutation"]]
      BY <1>6 DEF ResumeConfirmed
    <3> QED
      BY <3>1, <3>2 DEF TypeOK
  <2>5. consent' \in [Calls -> Calls \cup {Nobody, InCall}]
    BY <1>6 DEF ResumeConfirmed, TypeOK
  <2>3. confirmed' \in [Agents -> SUBSET [key : Calls, at : Nat]]
    BY <1>1, <1>2, <1>6 DEF ResumeConfirmed, TypeOK
  <2>4. redeemed' \in [Agents -> [Calls -> Nat]]
    <3>1. redeemed' = [redeemed EXCEPT ![on[c]][i] = @ + 1]
      BY <1>6 DEF ResumeConfirmed
    <3>2. redeemed \in [Agents -> [Calls -> Nat]]
      BY DEF TypeOK
    <3> QED
      BY <1>1, <3>1, <3>2, Counted
  <2> QED
    BY <1>6, <2>1, <2>2, <2>3, <2>4, <2>5 DEF ResumeConfirmed, TypeOK, Places
<1> QED
  BY <1>3, <1>4, <1>5, <1>6 DEF Resume

\* So does every step.
LEMMA NextTypeOK == TypeOK /\ [Next]_vars => TypeOK'
<1> SUFFICES ASSUME TypeOK, [Next]_vars PROVE TypeOK'
  OBVIOUS
<1>1. ASSUME NEW c \in Calls, Ask(c) PROVE TypeOK'
  BY <1>1, GotoType, NewConversationType, PlacesFacts DEF Ask, TypeOK, Places
<1>2. CASE Tick
  BY <1>2 DEF Tick, TypeOK
<1>3. CASE UNCHANGED vars
  BY <1>3 DEF vars, TypeOK
<1> QED
  BY <1>1, <1>2, <1>3, ContinueTypeOK, ResumeTypeOK DEF Next

\* Every variable keeps its type, with any number of agents and calls.
THEOREM TypeCorrect == Spec => []TypeOK
BY InitTypeOK, NextTypeOK, PTL DEF Spec

-----------------------------------------------------------------------------
(* At most once.                                                          *)

\* Nothing is redeemed and nothing ran at first.
THEOREM InitIInv == Init => IInv
<1> SUFFICES ASSUME Init PROVE IInv
  OBVIOUS
<1>1. TypeOK
  BY InitTypeOK
<1> QED
  BY <1>1, AgentsAssumption
     DEF Init, IInv, RedeemedOnce, ChangeRunsOnce, ForgottenMeansExpired,
         PausedIsOver, MemoryIsTrue, RedeemedIsPaused, ConsentIsFresh, NotPaused

\* A step of a call that leaves the memory, the clock and both counts alone.
LEMMA QuietStep ==
  ASSUME IInv, TypeOK', NEW c \in Calls, NEW place \in Places,
         pc[c] # "paused", pc' = [pc EXCEPT ![c] = place],
         UNCHANGED <<on, paused, confirmed, now, redeemed, ran>>,
         \/ pc[c] # "hook" /\ UNCHANGED consent
         \/ \E w \in {Nobody, InCall} : consent' = [consent EXCEPT ![c] = w]
  PROVE  IInv'
<1> USE DEF IInv
<1>1. RedeemedOnce' /\ ChangeRunsOnce' /\ ForgottenMeansExpired'
      /\ MemoryIsTrue' /\ RedeemedIsPaused'
  BY DEF RedeemedOnce, ChangeRunsOnce, ForgottenMeansExpired, MemoryIsTrue,
         RedeemedIsPaused
<1>2. PausedIsOver'
  BY DEF PausedIsOver, TypeOK
<1>3. ConsentIsFresh'
  <2>1. CASE pc[c] # "hook" /\ UNCHANGED consent
    <3>1. consent[c] \notin Calls
      BY <2>1 DEF ConsentIsFresh
    <3> QED
      BY <2>1, <3>1 DEF ConsentIsFresh, TypeOK
  <2>2. ASSUME NEW w \in {Nobody, InCall}, consent' = [consent EXCEPT ![c] = w]
        PROVE  ConsentIsFresh'
    BY <2>2, AgentsAssumption DEF ConsentIsFresh, TypeOK
  <2> QED
    BY <2>1, <2>2
<1> QED
  BY <1>1, <1>2, <1>3

\* A pause gives its state the time it happened at; nothing was redeemed from a
\* call that has not paused.
LEMMA PauseSafe ==
  ASSUME IInv, TypeOK', NEW c \in Calls, Pause(c)
  PROVE  IInv'
<1> USE DEF IInv
<1>1. /\ pc[c] \in {"confirming", "asking"} /\ pc' = [pc EXCEPT ![c] = "paused"]
      /\ UNCHANGED <<on, consent, confirmed, now, redeemed, ran>>
      /\ paused[c].kind = "none"
      /\ \A i \in Calls \ {c} : paused'[i] = paused[i]
  BY DEF Pause, Goto, PausedIsOver, TypeOK
<1>2. \A a \in Agents : redeemed[a][c] = 0
  BY <1>1 DEF RedeemedIsPaused, TypeOK
<1>3. \A a \in Agents : \A e \in confirmed[a] : e.key \in Calls \ {c}
  BY <1>2 DEF MemoryIsTrue, TypeOK
<1>4. RedeemedOnce' /\ ChangeRunsOnce'
  BY <1>1 DEF RedeemedOnce, ChangeRunsOnce
<1>5. ForgottenMeansExpired' /\ MemoryIsTrue'
  BY <1>1, <1>2, <1>3 DEF ForgottenMeansExpired, MemoryIsTrue
<1>6. PausedIsOver' /\ RedeemedIsPaused'
  BY <1>1, <1>2 DEF PausedIsOver, RedeemedIsPaused, TypeOK
<1>7. ConsentIsFresh'
  <2>1. consent[c] \notin Calls
    BY <1>1 DEF ConsentIsFresh
  <2> QED
    BY <1>1, <2>1 DEF ConsentIsFresh, TypeOK
<1> QED
  BY <1>4, <1>5, <1>6, <1>7

\* A change that starts uses up the consent it runs on.
LEMMA HookAcceptsSafe ==
  ASSUME IInv, TypeOK', NEW c \in Calls, HookAccepts(c), consent[c] \in Calls
  PROVE  IInv'
<1> USE DEF IInv
<1> DEFINE a == on[c]
           i == consent[c]
<1>1. a \in Agents /\ redeemed[a][i] = 1 /\ ran[a][i] = 0 /\ pc[c] = "hook"
  BY DEF ConsentIsFresh, TypeOK
<1>2. /\ pc' = [pc EXCEPT ![c] = "executing"]
      /\ consent' = [consent EXCEPT ![c] = Nobody]
      /\ UNCHANGED <<on, paused, confirmed, now, redeemed>>
  BY DEF HookAccepts, Goto
<1>3. /\ ran'[a][i] = 1
      /\ \A b \in Agents, j \in Calls : b # a \/ j # i => ran'[b][j] = ran[b][j]
  <2>1. ran' = [ran EXCEPT ![a][i] = @ + 1] /\ ran \in [Agents -> [Calls -> Nat]]
    BY DEF HookAccepts, TypeOK
  <2> QED
    BY <1>1, <2>1, Counted
<1>4. RedeemedOnce' /\ ForgottenMeansExpired' /\ MemoryIsTrue' /\ RedeemedIsPaused'
  BY <1>2 DEF RedeemedOnce, ForgottenMeansExpired, MemoryIsTrue, RedeemedIsPaused
<1>5. ChangeRunsOnce'
  BY <1>1, <1>2, <1>3 DEF ChangeRunsOnce
<1>6. PausedIsOver'
  BY <1>1, <1>2 DEF PausedIsOver, TypeOK
<1>7. ConsentIsFresh'
  <2>1. \A d \in Calls : consent'[d] \in Calls =>
          d # c /\ consent'[d] = consent[d] /\ (on[d] # a \/ consent[d] # i)
    BY <1>2, AgentsAssumption DEF ConsentIsFresh, TypeOK
  <2> QED
    BY <1>2, <1>3, <2>1 DEF ConsentIsFresh, TypeOK
<1> QED
  BY <1>4, <1>5, <1>6, <1>7

\* The steps of a call after an await keep the invariant.
LEMMA ContinueSafe ==
  ASSUME IInv, TypeOK', NEW c \in Calls, Continue(c)
  PROVE  IInv'
<1>1. CASE Pause(c)
  BY <1>1, PauseSafe
<1>2. CASE HookAccepts(c) /\ consent[c] \in Calls
  BY <1>2, HookAcceptsSafe
<1>3. CASE ~Pause(c) /\ ~(HookAccepts(c) /\ consent[c] \in Calls)
  <2>1. TypeOK
    BY DEF IInv
  <2>2. UNCHANGED ran
    BY <1>3, <2>1, ContinueMoves DEF HookAccepts
  <2>3. PICK place \in Places : pc' = [pc EXCEPT ![c] = place]
    BY <1>3, <2>1, ContinueMoves DEF WellTypedMove
  <2>4. /\ pc[c] # "paused"
        /\ UNCHANGED <<on, paused, confirmed, now, redeemed, ran>>
        /\ \/ pc[c] # "hook" /\ UNCHANGED consent
           \/ \E w \in {Nobody, InCall} : consent' = [consent EXCEPT ![c] = w]
    BY <1>3, <2>1, <2>2, ContinueMoves DEF Awaits
  <2> QED
    BY <2>3, <2>4, QuietStep
<1> QED
  BY <1>1, <1>2, <1>3

\* Dropping what expired keeps everything a state could still be redeemed by.
LEMMA ResumeRefusedSafe ==
  ASSUME IInv, TypeOK', NEW c \in Calls, NEW i \in Calls, ResumeRefused(c, i)
  PROVE  IInv'
<1> USE DEF IInv
<1>1. /\ pc[c] = "idle" /\ pc' = [pc EXCEPT ![c] = "failed"]
      /\ on[c] \in Agents
      /\ confirmed' = [confirmed EXCEPT ![on[c]] = Unexpired(on[c])]
      /\ UNCHANGED <<on, consent, paused, now, redeemed, ran>>
  BY DEF ResumeRefused, Goto, TypeOK
<1>2. \A a \in Agents :
        /\ confirmed'[a] \subseteq confirmed[a]
        /\ \A e \in confirmed[a] \ confirmed'[a] : now - e.at >= ConfirmWithin
  BY <1>1, LimitsAssumption DEF Unexpired, TypeOK
<1>3. RedeemedOnce' /\ ChangeRunsOnce' /\ RedeemedIsPaused'
  BY <1>1 DEF RedeemedOnce, ChangeRunsOnce, RedeemedIsPaused
<1>4. MemoryIsTrue'
  BY <1>1, <1>2 DEF MemoryIsTrue
<1>5. ForgottenMeansExpired'
  BY <1>1, <1>2 DEF ForgottenMeansExpired, MemoryIsTrue
<1>6. PausedIsOver'
  BY <1>1 DEF PausedIsOver, TypeOK
<1>7. ConsentIsFresh'
  BY <1>1 DEF ConsentIsFresh, TypeOK
<1> QED
  BY <1>3, <1>4, <1>5, <1>6, <1>7

\* What can be redeemed has not been: had it been, the memory would hold it,
\* or it would have expired.
LEMMA RedeemableIsNew ==
  ASSUME IInv, NEW a \in Agents, NEW i \in Calls, Redeemable(a, i)
  PROVE  redeemed[a][i] = 0 /\ ran[a][i] = 0
<1> USE DEF IInv
<1>1. \A e \in confirmed[a] : e.key # i
  BY DEF Redeemable, Unexpired, MemoryIsTrue
<1>2. now - paused[i].at < ConfirmWithin
  BY DEF Redeemable
<1>3. redeemed[a][i] \in Nat /\ ran[a][i] \in Nat
  BY DEF TypeOK
<1>4. ~(redeemed[a][i] > 0)
  <2>1. paused[i].at \in Nat /\ now \in Nat
    BY DEF TypeOK, PausedState
  <2> QED
    BY <1>1, <1>2, <2>1, LimitsAssumption DEF ForgottenMeansExpired
<1> QED
  BY <1>3, <1>4 DEF ChangeRunsOnce

\* A redemption is the first of its confirmation, and is remembered.
LEMMA ResumeConfirmedSafe ==
  ASSUME IInv, TypeOK', NEW c \in Calls, NEW i \in Calls, ResumeConfirmed(c, i)
  PROVE  IInv'
<1> USE DEF IInv
<1> DEFINE a == on[c]
<1>1. /\ pc[c] = "idle" /\ paused[i].kind = "confirm" /\ a \in Agents
      /\ Redeemable(a, i)
      /\ UNCHANGED <<on, paused, now, ran>>
  BY DEF ResumeConfirmed, TypeOK
<1>2. redeemed[a][i] = 0 /\ ran[a][i] = 0
  BY <1>1, RedeemableIsNew
<1>3. /\ redeemed'[a][i] = 1
      /\ \A b \in Agents, j \in Calls :
           b # a \/ j # i => redeemed'[b][j] = redeemed[b][j]
  <2>1. /\ redeemed' = [redeemed EXCEPT ![a][i] = @ + 1]
        /\ redeemed \in [Agents -> [Calls -> Nat]]
    BY DEF ResumeConfirmed, TypeOK
  <2> QED
    BY <1>1, <1>2, <2>1, Counted
<1>4. /\ \E e \in confirmed'[a] : e.key = i
      /\ \A b \in Agents : \A e \in confirmed'[b] :
           e \in confirmed[b] \/ (b = a /\ e = [key |-> i, at |-> paused[i].at])
      /\ \A b \in Agents : \A e \in confirmed[b] \ confirmed'[b] :
           now - e.at >= ConfirmWithin
  <2>1. /\ confirmed'[a] = Unexpired(a) \cup {[key |-> i, at |-> paused[i].at]}
        /\ \A b \in Agents : b # a => confirmed'[b] = confirmed[b]
    BY <1>1 DEF ResumeConfirmed, Remembered, TypeOK
  <2>2. \A e \in confirmed[a] : e \in Unexpired(a) \/ now - e.at >= ConfirmWithin
    BY <1>1, LimitsAssumption DEF Unexpired, TypeOK
  <2>3. Unexpired(a) \subseteq confirmed[a]
    BY DEF Unexpired
  <2>4. \E e \in confirmed'[a] : e.key = i
    <3>1. [key |-> i, at |-> paused[i].at] \in confirmed'[a]
      BY <2>1
    <3> QED
      BY <3>1
  <2>5. ASSUME NEW b \in Agents, NEW e \in confirmed'[b]
        PROVE  \/ e \in confirmed[b]
               \/ b = a /\ e = [key |-> i, at |-> paused[i].at]
    BY <2>1, <2>3
  <2>6. ASSUME NEW b \in Agents, NEW e \in confirmed[b] \ confirmed'[b]
        PROVE  now - e.at >= ConfirmWithin
    BY <2>1, <2>2
  <2> QED
    BY <2>4, <2>5, <2>6
<1>5. PICK place \in {"hook", "failed", "completing"} :
        /\ pc' = [pc EXCEPT ![c] = place]
        /\ \/ UNCHANGED consent
           \/ place = "hook" /\ consent' = [consent EXCEPT ![c] = i]
  <2>1. CASE "mutation" \in Allowed(c)
    BY <2>1 DEF ResumeConfirmed, Goto
  <2>2. CASE "mutation" \notin Allowed(c)
    <3>1. Failed(c, paused[i].conv) /\ UNCHANGED consent
      BY <2>2 DEF ResumeConfirmed
    <3>2. paused[i].conv \in Conversation
      BY DEF TypeOK, PausedState
    <3> QED
      BY <3>1, <3>2, FailedType
  <2> QED
    BY <2>1, <2>2
<1>6. RedeemedOnce'
  BY <1>3 DEF RedeemedOnce
<1>7. ChangeRunsOnce'
  BY <1>1, <1>2, <1>3 DEF ChangeRunsOnce
<1>8. MemoryIsTrue'
  <2>1. ASSUME NEW b \in Agents, NEW e \in confirmed'[b]
        PROVE  e.at = paused'[e.key].at /\ redeemed'[b][e.key] > 0
    <3>1. CASE e \in confirmed[b]
      <4>1. e.key \in Calls /\ e.at = paused[e.key].at /\ redeemed[b][e.key] > 0
        BY <3>1 DEF MemoryIsTrue, TypeOK
      <4> QED
        BY <1>1, <1>3, <4>1
    <3>2. CASE b = a /\ e = [key |-> i, at |-> paused[i].at]
      BY <1>1, <1>3, <3>2
    <3> QED
      BY <1>4, <3>1, <3>2
  <2> QED
    BY <2>1 DEF MemoryIsTrue
<1>9. ForgottenMeansExpired'
  <2> SUFFICES ASSUME NEW b \in Agents, NEW j \in Calls, redeemed'[b][j] > 0,
                      \A e \in confirmed'[b] : e.key # j
               PROVE  now' - paused'[j].at >= ConfirmWithin
    BY DEF ForgottenMeansExpired
  <2>1. b # a \/ j # i
    BY <1>4
  <2>2. redeemed[b][j] > 0
    BY <1>3, <2>1
  <2>3. CASE \A e \in confirmed[b] : e.key # j
    BY <1>1, <2>2, <2>3 DEF ForgottenMeansExpired
  <2>4. ASSUME NEW e \in confirmed[b], e.key = j
        PROVE  now' - paused'[j].at >= ConfirmWithin
    <3>1. now - e.at >= ConfirmWithin
      BY <1>4, <2>4
    <3> QED
      BY <1>1, <2>4, <3>1 DEF MemoryIsTrue
  <2> QED
    BY <2>3, <2>4
<1>10. PausedIsOver' /\ RedeemedIsPaused'
  BY <1>1, <1>3, <1>5 DEF PausedIsOver, RedeemedIsPaused, TypeOK
<1>11. ConsentIsFresh'
  <2>1. /\ consent[c] \notin Calls
        /\ \A d \in Calls : consent[d] \in Calls => on[d] # a \/ consent[d] # i
    BY <1>1, <1>2 DEF ConsentIsFresh, TypeOK
  <2>2. \A d \in Calls \ {c} :
          /\ consent'[d] = consent[d] /\ pc'[d] = pc[d]
          /\ consent[d] \in Calls =>
               redeemed'[on[d]][consent[d]] = redeemed[on[d]][consent[d]]
    BY <1>3, <1>5, <2>1 DEF TypeOK
  <2>3. \/ consent'[c] \notin Calls
        \/ consent'[c] = i /\ pc'[c] = "hook"
    BY <1>5, <2>1 DEF TypeOK
  <2>4. ASSUME NEW d \in Calls, consent'[d] \in Calls
        PROVE  /\ pc'[d] = "hook"
               /\ redeemed'[on'[d]][consent'[d]] = 1
               /\ ran'[on'[d]][consent'[d]] = 0
    <3>1. CASE d = c
      BY <1>1, <1>2, <1>3, <2>3, <2>4, <3>1
    <3>2. CASE d # c
      BY <1>1, <2>2, <2>4, <3>2 DEF ConsentIsFresh
    <3> QED
      BY <3>1, <3>2
  <2>5. ASSUME NEW d \in Calls, NEW f \in Calls, consent'[d] \in Calls,
               consent'[d] = consent'[f], on'[d] = on'[f]
        PROVE  d = f
    BY <1>1, <2>1, <2>2, <2>3, <2>5 DEF ConsentIsFresh
  <2> QED
    BY <2>4, <2>5 DEF ConsentIsFresh
<1> QED
  BY <1>6, <1>7, <1>8, <1>9, <1>10, <1>11

\* Time only makes what expired stay expired.
LEMMA TickSafe == IInv /\ TypeOK' /\ Tick => IInv'
<1> SUFFICES ASSUME IInv, TypeOK', Tick PROVE IInv'
  OBVIOUS
<1> USE DEF IInv, Tick
<1>1. ForgottenMeansExpired'
  <2>1. \A i \in Calls : paused[i].at \in Nat
    BY DEF TypeOK, PausedState
  <2> QED
    BY <2>1, LimitsAssumption DEF ForgottenMeansExpired, TypeOK
<1>2. RedeemedOnce' /\ ChangeRunsOnce' /\ PausedIsOver' /\ MemoryIsTrue'
      /\ RedeemedIsPaused' /\ ConsentIsFresh'
  BY DEF RedeemedOnce, ChangeRunsOnce, PausedIsOver, MemoryIsTrue,
         RedeemedIsPaused, ConsentIsFresh
<1> QED
  BY <1>1, <1>2

\* Every step keeps the invariant, while the clock does not go back.
LEMMA NextIInv == IInv /\ [Next]_vars => IInv'
<1> SUFFICES ASSUME IInv, [Next]_vars PROVE IInv'
  OBVIOUS
<1>1. TypeOK' /\ TypeOK
  BY NextTypeOK DEF IInv
<1>2. ASSUME NEW c \in Calls, Ask(c) PROVE IInv'
  BY <1>1, <1>2, QuietStep, PlacesFacts DEF Ask, Goto
<1>3. ASSUME NEW c \in Calls, NEW i \in Calls, Resume(c, i) PROVE IInv'
  <2>1. CASE ResumeQuestion(c, i)
    BY <1>1, <2>1, QuietStep, PlacesFacts DEF ResumeQuestion, Goto
  <2>2. CASE ResumeDeclined(c, i)
    BY <1>1, <2>2, QuietStep, PlacesFacts DEF ResumeDeclined, Goto
  <2> QED
    BY <1>1, <1>3, <2>1, <2>2, ResumeRefusedSafe, ResumeConfirmedSafe DEF Resume
<1>4. CASE UNCHANGED vars
  BY <1>1, <1>4
     DEF vars, IInv, RedeemedOnce, ChangeRunsOnce, ForgottenMeansExpired,
         PausedIsOver, MemoryIsTrue, RedeemedIsPaused, ConsentIsFresh
<1> QED
  BY <1>1, <1>2, <1>3, <1>4, ContinueSafe, TickSafe DEF Next

\* On each agent a paused confirmation is redeemed at most once (_redeem).
THEOREM AtMostOneRedemption == Spec => []RedeemedOnce
<1>1. IInv => RedeemedOnce
  BY DEF IInv
<1> QED
  BY <1>1, InitIInv, NextIInv, PTL DEF Spec

\* On each agent the change of a paused confirmation is executed at most once,
\* and only when it was redeemed there.
THEOREM AtMostOneChange == Spec => []ChangeRunsOnce
<1>1. IInv => ChangeRunsOnce
  BY DEF IInv
<1> QED
  BY <1>1, InitIInv, NextIInv, PTL DEF Spec

\* What an agent forgets can no longer be redeemed.
THEOREM ForgettingIsSafe == Spec => []ForgottenMeansExpired
<1>1. IInv => ForgottenMeansExpired
  BY DEF IInv
<1> QED
  BY <1>1, InitIInv, NextIInv, PTL DEF Spec

\* A step of a call that runs no change does not touch the ledger; the one
\* that does is the ledger's Run.
LEMMA ContinueKeepsLedger ==
  ASSUME IInv, NEW c \in Calls, Continue(c)
  PROVE  [Ledger!Next]_<<redeemed, ran>>
<1>1. TypeOK
  BY DEF IInv
<1>2. CASE HookAccepts(c) /\ consent[c] \in Calls
  <2> DEFINE a == on[c]
             i == consent[c]
  <2>1. a \in Agents /\ redeemed[a][i] = 1 /\ ran[a][i] = 0
    BY <1>1, <1>2 DEF IInv, ConsentIsFresh, TypeOK
  <2>2. ran' = [ran EXCEPT ![a][i] = ran[a][i] + 1] /\ UNCHANGED redeemed
    BY <1>2 DEF HookAccepts
  <2>3. ran' = [ran EXCEPT ![a][i] = 1]
    BY <2>1, <2>2
  <2>4. Ledger!Run(a, i)
    BY <2>1, <2>2, <2>3 DEF Ledger!Run
  <2> QED
    BY <1>2, <2>1, <2>4 DEF Ledger!Next
<1>3. CASE Pause(c)
  BY <1>3 DEF Pause
<1>4. CASE ~Pause(c) /\ ~(HookAccepts(c) /\ consent[c] \in Calls)
  <2>1. UNCHANGED redeemed
    BY <1>1, <1>4, ContinueMoves
  <2>2. UNCHANGED ran
    BY <1>1, <1>4, ContinueMoves DEF HookAccepts
  <2> QED
    BY <2>1, <2>2
<1> QED
  BY <1>2, <1>3, <1>4

\* A resumption is the ledger's Redeem, or does not touch it.
LEMMA ResumeKeepsLedger ==
  ASSUME IInv, NEW c \in Calls, NEW i \in Calls, Resume(c, i)
  PROVE  [Ledger!Next]_<<redeemed, ran>>
<1>1. CASE ResumeConfirmed(c, i)
  <2> DEFINE a == on[c]
  <2>1. a \in Agents /\ Redeemable(a, i)
    BY <1>1 DEF IInv, TypeOK, ResumeConfirmed
  <2>2. redeemed[a][i] = 0
    BY <2>1, RedeemableIsNew
  <2>3. redeemed' = [redeemed EXCEPT ![a][i] = redeemed[a][i] + 1] /\ UNCHANGED ran
    BY <1>1 DEF ResumeConfirmed
  <2>4. redeemed' = [redeemed EXCEPT ![a][i] = 1]
    BY <2>2, <2>3
  <2>5. Ledger!Redeem(a, i)
    BY <2>2, <2>3, <2>4 DEF Ledger!Redeem
  <2> QED
    BY <2>1, <2>5 DEF Ledger!Next
<1>2. CASE ~ResumeConfirmed(c, i)
  BY <1>2 DEF Resume, ResumeQuestion, ResumeDeclined, ResumeRefused
<1> QED
  BY <1>1, <1>2

\* QueryAgent implements the ledger of its class docstring.
THEOREM ImplementsLedger == Spec => KeepsLedger
<1>1. Init => Ledger!Init
  BY DEF Init, Ledger!Init
<1>2. IInv /\ [Next]_vars => [Ledger!Next]_<<redeemed, ran>>
  <2> SUFFICES ASSUME IInv, [Next]_vars
               PROVE  [Ledger!Next]_<<redeemed, ran>>
    OBVIOUS
  <2>1. ASSUME NEW c \in Calls, Ask(c)
        PROVE  [Ledger!Next]_<<redeemed, ran>>
    BY <2>1 DEF Ask
  <2>2. CASE Tick
    BY <2>2 DEF Tick
  <2>3. CASE UNCHANGED vars
    BY <2>3 DEF vars
  <2> QED
    BY <2>1, <2>2, <2>3, ContinueKeepsLedger, ResumeKeepsLedger DEF Next
<1> QED
  BY <1>1, <1>2, InitIInv, NextIInv, PTL
     DEF Spec, KeepsLedger, Ledger!Spec, Ledger!ledger
-----------------------------------------------------------------------------
(* The loop with the model.                                               *)

\* The model's messages of a conversation are paid for, except the last n.
Owing(s, n) ==
  /\ s.turns = s.attempts + s.lookups + s.clarifications + n
  /\ s.attempts < MaxAttempts
  /\ s.lookups <= MaxLookups /\ s.clarifications <= MaxClarifications

AllReplied(s) == Len(s.replies) = s.calls /\ ToSet(s.replies) = 1..s.calls

\* All tool calls but the first, which is being carried out.
OneReplyLeft(s) ==
  /\ s.calls >= 1 /\ Len(s.replies) = s.calls - 1
  /\ ToSet(s.replies) = 2..s.calls

\* A lookup and a question are counted when they are called, an operation when
\* it has failed.
Between(s) == Owing(s, 0) /\ AllReplied(s)
InTool(s) == Owing(s, 0) /\ OneReplyLeft(s)
InRun(s) == Owing(s, 1) /\ OneReplyLeft(s)

ConversationFits(c) ==
  /\ pc[c] = "completing" => Between(conv[c])
  /\ pc[c] = "asking" => InTool(conv[c])
  /\ pc[c] = "confirming" =>
       /\ InRun(conv[c])
       /\ op[c].tool = "run_graphql" /\ on[c] \in Mutating
  /\ pc[c] \in {"hook", "executing"} =>
       /\ op[c].tool = "lookup" => InTool(conv[c]) /\ op[c].kind = "query"
       /\ op[c].tool = "run_graphql" => InRun(conv[c])
       /\ op[c].kind = "mutation" => on[c] \in Mutating
  /\ pc[c] = "hook" /\ op[c].kind = "mutation" /\ on[c] \in Confirming
       => consent[c] # Nobody

PausedFits(i) ==
  /\ paused[i].kind = "question" => InTool(paused[i].conv)
  /\ paused[i].kind = "confirm" => InRun(paused[i].conv)

TalkInv == \A c \in Calls : ConversationFits(c) /\ PausedFits(c)

\* A call starts with nothing owed and nothing to reply to.
LEMMA NewConversationFits == Between(NewConversation)
<1>1. ToSet(<<>>) = {} /\ 1..0 = {}
  BY DEF ToSet
<1> QED
  BY <1>1, LimitsAssumption
     DEF Between, Owing, AllReplied, NewConversation

\* The model's message is owed, and the call it carries out is left to reply to.
LEMMA ToldFits ==
  ASSUME NEW s \in Conversation, NEW n \in 1..MaxToolCalls, Between(s)
  PROVE  InRun(Told(s, n))
<1> DEFINE refused == [i \in 1..(n - 1) |-> i + 1]
           t == Told(s, n)
<1>1. n \in Nat /\ n >= 1 /\ n - 1 \in Nat
  BY LimitsAssumption
<1>2. Len(refused) = n - 1 /\ ToSet(refused) = 2..n
  <2>1. Len(refused) = n - 1 /\ DOMAIN refused = 1..(n - 1)
    BY <1>1, LenProperties
  <2>2. ASSUME NEW m \in 2..n PROVE m \in ToSet(refused)
    <3>1. m - 1 \in 1..(n - 1) /\ refused[m - 1] = m
      BY <1>1
    <3> QED BY <2>1, <3>1 DEF ToSet
  <2>3. ASSUME NEW m \in ToSet(refused) PROVE m \in 2..n
    BY <1>1, <2>1 DEF ToSet
  <2> QED BY <2>1, <2>2, <2>3
<1>3. /\ t.turns = s.turns + 1 /\ t.calls = n /\ t.replies = refused
      /\ t.attempts = s.attempts /\ t.lookups = s.lookups
      /\ t.clarifications = s.clarifications
  BY DEF Told, Conversation
<1>4. OneReplyLeft(t)
  BY <1>1, <1>2, <1>3 DEF OneReplyLeft
<1>5. Owing(t, 1)
  BY <1>3 DEF Between, Owing, Conversation
<1> QED BY <1>4, <1>5 DEF InRun

\* The reply to it is the last one.
LEMMA RepliedFits ==
  ASSUME NEW s \in Conversation, OneReplyLeft(s)
  PROVE  /\ AllReplied(Replied(s))
         /\ \A n \in Nat : Owing(s, n) => Owing(Replied(s), n)
<1> DEFINE all == Append(s.replies, 1)
           r == Replied(s)
<1>1. s.replies \in Seq(1..MaxToolCalls) /\ s.calls \in Nat
  BY DEF Conversation
<1>2. /\ r.replies = all /\ r.calls = s.calls /\ r.turns = s.turns
      /\ r.attempts = s.attempts /\ r.lookups = s.lookups
      /\ r.clarifications = s.clarifications
  BY DEF Replied, Conversation
<1>3. Len(all) = s.calls
  BY <1>1 DEF OneReplyLeft
<1>4. ToSet(all) = ToSet(s.replies) \cup {1}
  <2>1. /\ Len(s.replies) \in Nat /\ DOMAIN s.replies = 1..Len(s.replies)
        /\ Len(all) = Len(s.replies) + 1 /\ DOMAIN all = 1..(Len(s.replies) + 1)
        /\ \A j \in 1..Len(s.replies) : all[j] = s.replies[j]
        /\ all[Len(s.replies) + 1] = 1
    BY <1>1
  <2> HIDE DEF all
  <2>2. ASSUME NEW j \in DOMAIN all PROVE all[j] \in ToSet(s.replies) \cup {1}
    <3>1. j \in 1..Len(s.replies) \/ j = Len(s.replies) + 1
      BY <2>1
    <3> QED BY <2>1, <3>1 DEF ToSet
  <2>3. ASSUME NEW j \in DOMAIN s.replies PROVE s.replies[j] \in ToSet(all)
    <3>1. j \in DOMAIN all /\ all[j] = s.replies[j]
      BY <2>1
    <3> QED BY <3>1 DEF ToSet
  <2>4. 1 \in ToSet(all)
    <3>1. Len(s.replies) + 1 \in DOMAIN all
      BY <2>1
    <3> QED BY <2>1, <3>1 DEF ToSet
  <2> QED BY <2>2, <2>3, <2>4 DEF ToSet
<1>5. (2..s.calls) \cup {1} = 1..s.calls
  BY <1>1 DEF OneReplyLeft
<1> HIDE DEF all
<1>6. AllReplied(r)
  BY <1>2, <1>3, <1>4, <1>5 DEF AllReplied, OneReplyLeft
<1> QED BY <1>2, <1>6 DEF Owing

\* A tool that was counted when it was called leaves nothing owed.
LEMMA ToolReplied ==
  ASSUME NEW s \in Conversation, InTool(s)
  PROVE  Between(Replied(s))
BY RepliedFits DEF InTool, Between

\* An operation that failed is paid for by an attempt; if that was the last
\* one the call ends.
LEMMA FailedFits ==
  ASSUME TypeOK, NEW c \in Calls, NEW s \in Conversation, InRun(s), Failed(c, s)
  PROVE  /\ pc' = [pc EXCEPT ![c] = "failed"] \/ pc' = [pc EXCEPT ![c] = "completing"]
         /\ pc'[c] = "completing" => Between(conv'[c])
<1> DEFINE r == Replied(s)
           f == FailedOnce(s)
<1>1. r \in Conversation /\ AllReplied(r) /\ Owing(r, 1)
  BY RepliedType, RepliedFits DEF InRun
<1>2. /\ f.attempts = r.attempts + 1 /\ f.turns = r.turns
      /\ f.lookups = r.lookups /\ f.clarifications = r.clarifications
      /\ f.calls = r.calls /\ f.replies = r.replies
  <2> HIDE DEF r
  <2>1. f = [r EXCEPT !.attempts = @ + 1]
    BY DEF FailedOnce, r
  <2> QED BY <1>1, <2>1 DEF Conversation
<1>3. f.attempts < MaxAttempts => Between(f)
  BY <1>1, <1>2 DEF Between, Owing, AllReplied, Conversation
<1>4. /\ f.attempts \in Nat /\ MaxAttempts \in Nat
  BY <1>1, <1>2, LimitsAssumption DEF Conversation
<1>5. c \in DOMAIN pc /\ c \in DOMAIN conv
  BY DEF TypeOK
<1> HIDE DEF f
<1>6. CASE f.attempts >= MaxAttempts
  BY <1>5, <1>6 DEF Failed, Goto, f
<1>7. CASE f.attempts < MaxAttempts
  <2>1. ~(f.attempts >= MaxAttempts)
    BY <1>4, <1>7
  <2>2. Goto(c, f, "completing")
    BY <2>1 DEF Failed, f
  <2>3. conv'[c] = f /\ pc' = [pc EXCEPT ![c] = "completing"]
    BY <1>5, <2>2 DEF Goto, Ends
  <2> QED BY <1>3, <1>7, <2>3
<1> QED BY <1>4, <1>6, <1>7
\* Of the calls, only c may move in a step.
OthersStay(c) ==
  \A d \in Calls \ {c} :
    pc'[d] = pc[d] /\ conv'[d] = conv[d] /\ op'[d] = op[d]
      /\ consent'[d] = consent[d]

\* What the others are in the middle of is not disturbed by a call that moves.
LEMMA OneCallMoves ==
  ASSUME TalkInv, NEW c \in Calls, on' = on, OthersStay(c), ConversationFits(c)',
         \A i \in Calls : paused'[i] = paused[i] \/ PausedFits(i)'
  PROVE  TalkInv'
<1>1. ASSUME NEW d \in Calls PROVE ConversationFits(d)'
  <2>1. CASE d = c
    BY <2>1
  <2>2. CASE d # c
    <3>1. ConversationFits(d)
      BY DEF TalkInv
    <3>2. /\ pc'[d] = pc[d] /\ conv'[d] = conv[d] /\ op'[d] = op[d]
          /\ consent'[d] = consent[d] /\ on'[d] = on[d]
      BY <2>2 DEF OthersStay
    <3> QED BY <3>1, <3>2 DEF ConversationFits
  <2> QED BY <2>1, <2>2
<1>2. ASSUME NEW i \in Calls PROVE PausedFits(i)'
  BY DEF TalkInv, PausedFits
<1> QED BY <1>1, <1>2 DEF TalkInv

\* Goto moves one call, and keeps its conversation until it ends.
LEMMA GotoMoves ==
  ASSUME TypeOK, NEW c \in Calls, NEW s, NEW place, Goto(c, s, place)
  PROVE  /\ pc'[c] = place
         /\ place \notin Ends => conv'[c] = s
         /\ \A d \in Calls \ {c} : pc'[d] = pc[d] /\ conv'[d] = conv[d]
BY DEF Goto, TypeOK

\* So does _failed.
LEMMA FailedMoves ==
  ASSUME TypeOK, NEW c \in Calls, NEW s \in Conversation, InRun(s), Failed(c, s)
  PROVE  /\ pc'[c] \in {"failed", "completing"}
         /\ pc'[c] = "completing" => Between(conv'[c])
         /\ \A d \in Calls \ {c} : pc'[d] = pc[d] /\ conv'[d] = conv[d]
<1>1. \A d \in Calls \ {c} : pc'[d] = pc[d] /\ conv'[d] = conv[d]
  BY DEF Failed, Goto, TypeOK
<1>2. pc'[c] \in {"failed", "completing"}
  BY FailedFits DEF TypeOK
<1> QED BY <1>1, <1>2, FailedFits

\* Calls that wait for nothing but the model, or that ended, have little to fit.
LEMMA RestFits ==
  ASSUME NEW c \in Calls,
         \/ pc'[c] \in {"failed", "answered", "paused"}
         \/ pc'[c] = "completing" /\ Between(conv'[c])
  PROVE  ConversationFits(c)'
BY DEF ConversationFits

\* A tool is called with one more message owed; a lookup and a question are
\* counted at once.
LEMMA CountedToolFits ==
  ASSUME NEW s \in Conversation, NEW n \in 1..MaxToolCalls, Between(s)
  PROVE  /\ s.lookups < MaxLookups => InTool([Told(s, n) EXCEPT !.lookups = @ + 1])
         /\ s.clarifications < MaxClarifications => InTool(AskedOnce(Told(s, n)))
<1> DEFINE t == Told(s, n)
           looked == [t EXCEPT !.lookups = @ + 1]
           asked == [t EXCEPT !.clarifications = @ + 1]
<1>1. t \in Conversation /\ InRun(t)
  BY ToldType, ToldFits
<1>2. t.lookups = s.lookups /\ t.clarifications = s.clarifications
  BY DEF Told, Conversation
<1>3. AskedOnce(Told(s, n)) = asked
  BY DEF AskedOnce
<1> HIDE DEF t
<1>4. /\ looked.lookups = t.lookups + 1 /\ asked.clarifications = t.clarifications + 1
      /\ looked.clarifications = t.clarifications /\ asked.lookups = t.lookups
      /\ looked.turns = t.turns /\ asked.turns = t.turns
      /\ looked.attempts = t.attempts /\ asked.attempts = t.attempts
      /\ looked.calls = t.calls /\ asked.calls = t.calls
      /\ looked.replies = t.replies /\ asked.replies = t.replies
  BY <1>1 DEF Conversation
<1>5. /\ t.turns \in Nat /\ t.attempts \in Nat /\ t.lookups \in Nat
      /\ t.clarifications \in Nat
  BY <1>1 DEF Conversation
<1> HIDE DEF looked, asked
<1>6. OneReplyLeft(looked) /\ OneReplyLeft(asked)
  BY <1>1, <1>4 DEF InRun, OneReplyLeft
<1>7. s.lookups < MaxLookups => Owing(looked, 0)
  BY <1>1, <1>2, <1>4, <1>5, LimitsAssumption DEF InRun, Owing
<1>8. s.clarifications < MaxClarifications => Owing(asked, 0)
  BY <1>1, <1>2, <1>4, <1>5, LimitsAssumption DEF InRun, Owing
<1> QED BY <1>3, <1>6, <1>7, <1>8 DEF InTool, looked, t
\* A step in which only c moves, and fits what it does next.
FittingMove(c) == on' = on /\ OthersStay(c) /\ ConversationFits(c)'

\* The tools the model may call, each with its errors or its place to wait.
LEMMA ModelCallsToolFits ==
  ASSUME TypeOK, NEW c \in Calls, ConversationFits(c), ModelCallsTool(c)
  PROVE  FittingMove(c)
<1>1. PICK n \in 1..MaxToolCalls :
        \/ RunInvalid(c, n)
        \/ \E kind \in {"query", "mutation"} : RunGraphql(c, n, kind)
        \/ \E tool \in {"lookup", "ask_user", "other"} : UnknownTool(c, n, tool)
        \/ \E kind \in {"query", "mutation", "invalid"} : Lookup(c, n, kind)
        \/ \E usable \in BOOLEAN : AskUser(c, n, usable)
  BY DEF ModelCallsTool
<1>2. /\ pc[c] = "completing" /\ on' = on /\ consent' = consent
      /\ \A d \in Calls \ {c} : op'[d] = op[d]
  BY <1>1 DEF RunInvalid, RunGraphql, UnknownTool, Lookup, AskUser, TypeOK
<1> DEFINE s == conv[c]
           t == Told(s, n)
           looked == [t EXCEPT !.lookups = @ + 1]
           asked == AskedOnce(t)
<1>3. /\ s \in Conversation /\ t \in Conversation
      /\ looked \in Conversation /\ asked \in Conversation
  BY ToldType, LookupType DEF TypeOK
<1>4. Between(s) /\ InRun(t)
  BY <1>2, <1>3, ToldFits DEF ConversationFits
<1>5. /\ OffersLookup(s) => InTool(looked) /\ Between(Replied(looked))
      /\ OffersAskUser(s) => InTool(asked) /\ Between(Replied(asked))
  <2>1. /\ OffersLookup(s) => InTool(looked)
        /\ OffersAskUser(s) => InTool(asked)
    BY <1>3, <1>4, CountedToolFits DEF OffersLookup, OffersAskUser
  <2> QED BY <1>3, <2>1, ToolReplied
<1> HIDE DEF s, looked, asked, t
<1> SUFFICES ASSUME \/ RunInvalid(c, n)
                    \/ \E kind \in {"query", "mutation"} : RunGraphql(c, n, kind)
                    \/ \E tool \in {"lookup", "ask_user", "other"} :
                         UnknownTool(c, n, tool)
                    \/ \E kind \in {"query", "mutation", "invalid"} :
                         Lookup(c, n, kind)
                    \/ \E usable \in BOOLEAN : AskUser(c, n, usable)
             PROVE  /\ ConversationFits(c)'
                    /\ \A d \in Calls \ {c} : pc'[d] = pc[d] /\ conv'[d] = conv[d]
  BY <1>1, <1>2 DEF FittingMove, OthersStay
<1>6. ASSUME Failed(c, t)
      PROVE  /\ ConversationFits(c)'
             /\ \A d \in Calls \ {c} : pc'[d] = pc[d] /\ conv'[d] = conv[d]
  <2>1. /\ pc'[c] \in {"failed", "completing"}
        /\ pc'[c] = "completing" => Between(conv'[c])
        /\ \A d \in Calls \ {c} : pc'[d] = pc[d] /\ conv'[d] = conv[d]
    BY <1>3, <1>4, <1>6, FailedMoves
  <2> QED BY <2>1, RestFits
<1>7. ASSUME NEW kind \in {"query", "mutation"}, RunGraphql(c, n, kind),
             kind \in Allowed(c)
      PROVE  /\ ConversationFits(c)'
             /\ \A d \in Calls \ {c} : pc'[d] = pc[d] /\ conv'[d] = conv[d]
  <2>1. /\ op'[c] = [tool |-> "run_graphql", kind |-> kind]
        /\ Goto(c, t, IF MustConfirm(c, kind) THEN "confirming" ELSE "hook")
    BY <1>7 DEF RunGraphql, TypeOK, s, t
  <2>2. /\ pc'[c] = IF MustConfirm(c, kind) THEN "confirming" ELSE "hook"
        /\ conv'[c] = t
        /\ \A d \in Calls \ {c} : pc'[d] = pc[d] /\ conv'[d] = conv[d]
    BY <2>1, GotoMoves DEF Ends
  <2>3. kind = "mutation" => on[c] \in Mutating
    BY <1>7 DEF Allowed
  <2>4. MustConfirm(c, kind) => kind = "mutation"
    BY DEF MustConfirm
  <2>5. ~MustConfirm(c, kind) /\ kind = "mutation" => on[c] \notin Confirming
    BY DEF MustConfirm
  <2>6. op'[c].tool = "run_graphql" /\ op'[c].kind = kind
    BY <2>1
  <2>7. CASE MustConfirm(c, kind)
    BY <1>2, <1>4, <2>2, <2>3, <2>4, <2>6, <2>7 DEF ConversationFits
  <2>8. CASE ~MustConfirm(c, kind)
    BY <1>2, <1>4, <2>2, <2>3, <2>5, <2>6, <2>8 DEF ConversationFits
  <2> QED BY <2>2, <2>7, <2>8
<1>8. ASSUME NEW kind \in {"query", "mutation", "invalid"}, Lookup(c, n, kind)
      PROVE  /\ ConversationFits(c)'
             /\ \A d \in Calls \ {c} : pc'[d] = pc[d] /\ conv'[d] = conv[d]
  <2>1. OffersLookup(s)
    BY <1>8 DEF Lookup, s
  <2>2. CASE kind = "query"
    <3>1. op'[c] = [tool |-> "lookup", kind |-> kind] /\ Goto(c, looked, "hook")
      BY <1>8, <2>2 DEF Lookup, TypeOK, s, t, looked
    <3>2. op'[c].tool = "lookup" /\ op'[c].kind = "query"
      BY <2>2, <3>1
    <3>3. /\ pc'[c] = "hook" /\ conv'[c] = looked
          /\ \A d \in Calls \ {c} : pc'[d] = pc[d] /\ conv'[d] = conv[d]
      BY <3>1, GotoMoves DEF Ends
    <3> QED BY <1>5, <2>1, <3>2, <3>3 DEF ConversationFits
  <2>3. CASE kind # "query"
    <3>1. Goto(c, Replied(looked), "completing")
      BY <1>8, <2>3 DEF Lookup, s, t, looked
    <3>2. /\ pc'[c] = "completing" /\ conv'[c] = Replied(looked)
          /\ \A d \in Calls \ {c} : pc'[d] = pc[d] /\ conv'[d] = conv[d]
      BY <3>1, GotoMoves DEF Ends
    <3> QED BY <1>5, <2>1, <3>2, RestFits
  <2> QED BY <2>2, <2>3
<1>9. ASSUME NEW usable \in BOOLEAN, AskUser(c, n, usable)
      PROVE  /\ ConversationFits(c)'
             /\ \A d \in Calls \ {c} : pc'[d] = pc[d] /\ conv'[d] = conv[d]
  <2>1. OffersAskUser(s)
    BY <1>9 DEF AskUser, s
  <2>2. Goto(c, asked, "asking") \/ Goto(c, Replied(asked), "completing")
    BY <1>9 DEF AskUser, s, t, asked
  <2>3. /\ \/ pc'[c] = "asking" /\ conv'[c] = asked
           \/ pc'[c] = "completing" /\ conv'[c] = Replied(asked)
        /\ \A d \in Calls \ {c} : pc'[d] = pc[d] /\ conv'[d] = conv[d]
    BY <2>2, GotoMoves DEF Ends
  <2> QED BY <1>5, <2>1, <2>3, RestFits DEF ConversationFits
<1>10. CASE RunInvalid(c, n)
  BY <1>6, <1>10 DEF RunInvalid, s, t
<1>11. ASSUME NEW kind \in {"query", "mutation"}, RunGraphql(c, n, kind),
              kind \notin Allowed(c)
       PROVE  Failed(c, t)
  BY <1>11 DEF RunGraphql, s, t
<1>12. ASSUME NEW tool \in {"lookup", "ask_user", "other"}, UnknownTool(c, n, tool)
       PROVE  Failed(c, t)
  BY <1>12 DEF UnknownTool, s, t
<1> QED BY <1>6, <1>7, <1>8, <1>9, <1>10, <1>11, <1>12
\* An operation that did not answer the question fits again, whichever tool it
\* belongs to: the lookup has its reply, the run its attempt.
LEMMA OperationFailedFits ==
  ASSUME TypeOK, NEW c \in Calls, ConversationFits(c), pc[c] \in {"hook", "executing"},
         OperationFailed(c), on' = on,
         \A d \in Calls \ {c} : consent'[d] = consent[d]
  PROVE  FittingMove(c)
<1>1. conv[c] \in Conversation /\ op[c] \in Operation
  BY DEF TypeOK
<1>2. \A d \in Calls \ {c} : op'[d] = op[d]
  BY DEF OperationFailed, TypeOK
<1>3. CASE op[c].tool = "lookup"
  <2>1. Between(Replied(conv[c]))
    BY <1>1, <1>3, ToolReplied DEF ConversationFits
  <2>2. Goto(c, Replied(conv[c]), "completing")
    BY <1>3 DEF OperationFailed
  <2>3. /\ pc'[c] = "completing" /\ conv'[c] = Replied(conv[c])
        /\ \A d \in Calls \ {c} : pc'[d] = pc[d] /\ conv'[d] = conv[d]
    BY <2>2, GotoMoves DEF Ends
  <2> QED BY <1>2, <2>1, <2>3, RestFits DEF FittingMove, OthersStay
<1>4. CASE op[c].tool # "lookup"
  <2>1. InRun(conv[c])
    BY <1>1, <1>4 DEF ConversationFits, Operation
  <2>2. Failed(c, conv[c])
    BY <1>4 DEF OperationFailed
  <2>3. /\ pc'[c] \in {"failed", "completing"}
        /\ pc'[c] = "completing" => Between(conv'[c])
        /\ \A d \in Calls \ {c} : pc'[d] = pc[d] /\ conv'[d] = conv[d]
    BY <1>1, <2>1, <2>2, FailedMoves
  <2> QED BY <1>2, <2>3, RestFits DEF FittingMove, OthersStay
<1> QED BY <1>3, <1>4

\* A pause hands out what the call was in the middle of.
LEMMA PauseFits ==
  ASSUME TypeOK, NEW c \in Calls, ConversationFits(c), Pause(c)
  PROVE  FittingMove(c) /\ \A i \in Calls : paused'[i] = paused[i] \/ PausedFits(i)'
<1>1. /\ pc'[c] = "paused"
      /\ \A d \in Calls \ {c} : pc'[d] = pc[d] /\ conv'[d] = conv[d]
  BY GotoMoves DEF Pause
<1>2. FittingMove(c)
  BY <1>1, RestFits DEF Pause, FittingMove, OthersStay, TypeOK
<1>3. /\ \A i \in Calls \ {c} : paused'[i] = paused[i]
      /\ paused'[c].conv = conv[c]
      /\ paused'[c].kind = "confirm" => pc[c] = "confirming"
      /\ paused'[c].kind = "question" => pc[c] = "asking"
  BY DEF Pause, TypeOK
<1>4. PausedFits(c)'
  BY <1>3 DEF PausedFits, ConversationFits
<1> QED BY <1>2, <1>3, <1>4

\* The other awaits come back to a conversation that fits.
LEMMA ContinueFits ==
  ASSUME TypeOK, NEW c \in Calls, ConversationFits(c), Continue(c)
  PROVE  FittingMove(c) /\ \A i \in Calls : paused'[i] = paused[i] \/ PausedFits(i)'
<1> DEFINE s == conv[c]
<1>1. s \in Conversation /\ op[c] \in Operation
  BY DEF TypeOK
<1>2. ASSUME ~Pause(c) PROVE paused' = paused
  BY <1>2, ContinueMoves
<1>3. ASSUME NEW place, Goto(c, s, place),
             on' = on, \A d \in Calls \ {c} : op'[d] = op[d] /\ consent'[d] = consent[d]
      PROVE  /\ OthersStay(c) /\ pc'[c] = place
             /\ place \notin Ends => conv'[c] = s
             /\ place \in {"failed", "answered"} => FittingMove(c)
  <2>1. /\ OthersStay(c) /\ pc'[c] = place
        /\ place \notin Ends => conv'[c] = s
    BY <1>3, GotoMoves DEF OthersStay
  <2> QED BY <1>3, <2>1, RestFits DEF FittingMove
<1>4. ASSUME Goto(c, Replied(s), "completing"), InTool(s),
             on' = on, \A d \in Calls \ {c} : op'[d] = op[d] /\ consent'[d] = consent[d]
      PROVE  FittingMove(c)
  <2>1. /\ pc'[c] = "completing" /\ conv'[c] = Replied(s)
        /\ \A d \in Calls \ {c} : pc'[d] = pc[d] /\ conv'[d] = conv[d]
    BY <1>4, GotoMoves DEF Ends
  <2>2. Between(Replied(s))
    BY <1>1, <1>4, ToolReplied
  <2> QED BY <1>4, <2>1, <2>2, RestFits DEF FittingMove, OthersStay
<1> HIDE DEF s
<1>5. CASE ModelCallsTool(c)
  BY <1>5, ModelCallsToolFits, ModelCallsToolMoves
<1>6. CASE ConfirmedInCall(c)
  <2>1. /\ pc[c] = "confirming" /\ consent'[c] = InCall /\ on' = on /\ op' = op
        /\ Goto(c, s, "hook") /\ ~Pause(c)
        /\ \A d \in Calls \ {c} : consent'[d] = consent[d]
    BY <1>6 DEF ConfirmedInCall, TypeOK, s, Pause, Goto
  <2>2. OthersStay(c) /\ pc'[c] = "hook" /\ conv'[c] = s
    BY <1>3, <2>1 DEF Ends
  <2>3. ConversationFits(c)'
    BY <2>1, <2>2 DEF ConversationFits, s, InCall, Nobody
  <2>4. paused' = paused
    BY <1>6 DEF ConfirmedInCall
  <2> QED BY <2>1, <2>2, <2>3, <2>4 DEF FittingMove
<1>7. CASE AnsweredInCall(c)
  <2>1. /\ pc[c] = "asking" /\ UNCHANGED <<on, op, consent, paused>>
        /\ Goto(c, Replied(s), "completing")
    BY <1>7 DEF AnsweredInCall, s
  <2>2. InTool(s)
    BY <2>1 DEF ConversationFits, s
  <2> QED BY <1>4, <2>1, <2>2
<1>8. CASE Pause(c)
  BY <1>8, PauseFits
<1>9. CASE HookAccepts(c)
  <2>1. /\ pc[c] = "hook" /\ on' = on /\ op' = op /\ Goto(c, s, "executing")
        /\ paused' = paused
        /\ \A d \in Calls \ {c} : consent'[d] = consent[d]
    BY <1>9 DEF HookAccepts, TypeOK, s
  <2>2. OthersStay(c) /\ pc'[c] = "executing" /\ conv'[c] = s
    BY <1>3, <2>1 DEF Ends
  <2>3. ConversationFits(c)'
    BY <2>1, <2>2 DEF ConversationFits, s
  <2> QED BY <2>1, <2>2, <2>3 DEF FittingMove
<1>10. CASE HookRejects(c)
  <2>1. /\ pc[c] = "hook" /\ on' = on /\ paused' = paused /\ OperationFailed(c)
        /\ \A d \in Calls \ {c} : consent'[d] = consent[d]
    BY <1>10 DEF HookRejects, TypeOK
  <2> QED BY <2>1, OperationFailedFits
<1>11. CASE ExecuteReturnsData(c)
  <2>1. /\ pc[c] = "executing" /\ on' = on /\ consent' = consent /\ paused' = paused
        /\ \A d \in Calls \ {c} : op'[d] = op[d]
        /\ op[c].tool = "lookup" => Goto(c, Replied(s), "completing")
        /\ op[c].tool # "lookup" => Goto(c, s, "answered")
    BY <1>11 DEF ExecuteReturnsData, TypeOK, s
  <2>2. op[c].tool = "lookup" => InTool(s)
    BY <2>1 DEF ConversationFits, s
  <2> QED BY <1>3, <1>4, <2>1, <2>2
<1>12. CASE ExecuteReturnsNoData(c)
  <2>1. /\ pc[c] = "executing" /\ UNCHANGED <<on, consent, paused>>
        /\ OperationFailed(c)
    BY <1>12 DEF ExecuteReturnsNoData
  <2> QED BY <2>1, OperationFailedFits
<1>13. CASE Raise(c)
  <2>1. /\ on' = on /\ paused' = paused /\ Goto(c, s, "failed")
        /\ \A d \in Calls \ {c} : op'[d] = op[d] /\ consent'[d] = consent[d]
    BY <1>13 DEF Raise, TypeOK, s
  <2> QED BY <1>3, <2>1
<1> QED
  BY <1>5, <1>6, <1>7, <1>8, <1>9, <1>10, <1>11, <1>12, <1>13 DEF Continue

\* A resumption takes up what the state carries: the reply to a question, or the
\* confirmed change, which this agent may still refuse as an error.
LEMMA ResumeFits ==
  ASSUME TypeOK, NEW c \in Calls, NEW i \in Calls, PausedFits(i), Resume(c, i)
  PROVE  FittingMove(c) /\ paused' = paused
<1> DEFINE s == paused[i].conv
<1>1. s \in Conversation
  BY DEF TypeOK, PausedState
<1>2. CASE ResumeQuestion(c, i)
  <2>1. /\ Goto(c, Replied(s), "completing") /\ UNCHANGED <<on, op, consent, paused>>
        /\ InTool(s)
    BY <1>2 DEF ResumeQuestion, PausedFits
  <2>2. Between(Replied(s))
    BY <1>1, <2>1, ToolReplied
  <2>3. /\ pc'[c] = "completing" /\ conv'[c] = Replied(s)
        /\ \A d \in Calls \ {c} : pc'[d] = pc[d] /\ conv'[d] = conv[d]
    BY <2>1, GotoMoves DEF Ends
  <2> QED BY <2>1, <2>2, <2>3, RestFits DEF FittingMove, OthersStay
<1>3. CASE ResumeDeclined(c, i) \/ ResumeRefused(c, i)
  <2>1. Goto(c, s, "failed") /\ UNCHANGED <<on, op, consent, paused>>
    BY <1>3 DEF ResumeDeclined, ResumeRefused
  <2>2. /\ pc'[c] = "failed"
        /\ \A d \in Calls \ {c} : pc'[d] = pc[d] /\ conv'[d] = conv[d]
    BY <2>1, GotoMoves
  <2> QED BY <2>1, <2>2, RestFits DEF FittingMove, OthersStay
<1>4. CASE ResumeConfirmed(c, i)
  <2>1. InRun(s) /\ on' = on /\ paused' = paused
    BY <1>4 DEF ResumeConfirmed, PausedFits
  <2>2. CASE "mutation" \in Allowed(c)
    <3>1. /\ op'[c] = [tool |-> "run_graphql", kind |-> "mutation"]
          /\ consent'[c] = i /\ Goto(c, s, "hook")
          /\ \A d \in Calls \ {c} : op'[d] = op[d] /\ consent'[d] = consent[d]
      BY <1>4, <2>2 DEF ResumeConfirmed, TypeOK
    <3>2. /\ pc'[c] = "hook" /\ conv'[c] = s
          /\ \A d \in Calls \ {c} : pc'[d] = pc[d] /\ conv'[d] = conv[d]
      BY <3>1, GotoMoves DEF Ends
    <3>3. on[c] \in Mutating /\ i # Nobody
      BY <2>2, AgentsAssumption DEF Allowed
    <3>4. op'[c].tool = "run_graphql" /\ op'[c].kind = "mutation"
      BY <3>1
    <3>5. ConversationFits(c)'
      BY <2>1, <3>1, <3>2, <3>3, <3>4 DEF ConversationFits
    <3> QED BY <2>1, <3>1, <3>2, <3>5 DEF FittingMove, OthersStay
  <2>3. CASE "mutation" \notin Allowed(c)
    <3>1. Failed(c, s) /\ UNCHANGED <<op, consent>>
      BY <1>4, <2>3 DEF ResumeConfirmed
    <3>2. /\ pc'[c] \in {"failed", "completing"}
          /\ pc'[c] = "completing" => Between(conv'[c])
          /\ \A d \in Calls \ {c} : pc'[d] = pc[d] /\ conv'[d] = conv[d]
      BY <1>1, <2>1, <3>1, FailedMoves
    <3> QED BY <2>1, <3>1, <3>2, RestFits DEF FittingMove, OthersStay
  <2> QED BY <2>2, <2>3
<1> QED BY <1>2, <1>3, <1>4 DEF Resume

\* Every conversation fits where its call is, at first and after every step.
LEMMA InitTalkInv == Init => TalkInv
BY DEF Init, TalkInv, ConversationFits, PausedFits, NotPaused

LEMMA NextTalkInv == TypeOK /\ TalkInv /\ [Next]_vars => TalkInv'
<1> SUFFICES ASSUME TypeOK, TalkInv, [Next]_vars PROVE TalkInv'
  OBVIOUS
<1>1. ASSUME NEW c \in Calls, Ask(c) PROVE TalkInv'
  <2>1. Goto(c, NewConversation, "completing") /\ UNCHANGED <<on, op, consent, paused>>
    BY <1>1 DEF Ask
  <2>2. /\ pc'[c] = "completing" /\ conv'[c] = NewConversation
        /\ \A d \in Calls \ {c} : pc'[d] = pc[d] /\ conv'[d] = conv[d]
    BY <2>1, GotoMoves DEF Ends
  <2>3. OthersStay(c) /\ ConversationFits(c)'
    BY <2>1, <2>2, NewConversationFits, RestFits DEF OthersStay
  <2> QED BY <2>1, <2>3, OneCallMoves
<1>2. ASSUME NEW c \in Calls, NEW i \in Calls, Resume(c, i) PROVE TalkInv'
  <2>1. FittingMove(c) /\ paused' = paused
    BY <1>2, ResumeFits DEF TalkInv
  <2> QED BY <2>1, OneCallMoves DEF FittingMove
<1>3. ASSUME NEW c \in Calls, Continue(c) PROVE TalkInv'
  <2>1. FittingMove(c) /\ \A i \in Calls : paused'[i] = paused[i] \/ PausedFits(i)'
    BY <1>3, ContinueFits DEF TalkInv
  <2> QED BY <2>1, OneCallMoves DEF FittingMove
<1>4. CASE Tick \/ UNCHANGED vars
  BY <1>4 DEF Tick, vars, TalkInv, ConversationFits, PausedFits
<1> QED BY <1>1, <1>2, <1>3, <1>4 DEF Next

\* An agent that confirms mutations executes one only on somebody's word, only
\* if it allows them, and never from its lookup tool (_run, _confirm, _lookup).
THEOREM MutationsAreAgreed == Spec => []OnlyAgreedMutationsRun
<1>1. TypeOK /\ TalkInv => OnlyAgreedMutationsRun
  <2> SUFFICES ASSUME TypeOK, TalkInv, NEW c \in Calls
               PROVE  /\ pc[c] = "hook" /\ op[c].kind = "mutation"
                           /\ on[c] \in Confirming
                           => consent[c] # Nobody
                      /\ pc[c] \in {"hook", "executing"} /\ op[c].kind = "mutation"
                           => on[c] \in Mutating /\ op[c].tool = "run_graphql"
    BY DEF OnlyAgreedMutationsRun
  <2>1. op[c].tool \in {"run_graphql", "lookup"}
    BY DEF TypeOK, Operation
  <2> QED BY <2>1 DEF TalkInv, ConversationFits
<1> QED
  BY <1>1, InitTypeOK, NextTypeOK, InitTalkInv, NextTalkInv, PTL DEF Spec

\* Every message of the model is paid for from one of three budgets, along every
\* chain of pauses and resumptions (state["used"]).
THEOREM EveryTurnIsPaidFor == Spec => []TurnsArePaidFor
<1>1. TypeOK /\ TalkInv => TurnsArePaidFor
  BY DEF TurnsArePaidFor, TalkInv, ConversationFits, Between, Owing, TypeOK,
         Conversation
<1> QED
  BY <1>1, InitTypeOK, NextTypeOK, InitTalkInv, NextTalkInv, PTL DEF Spec

\* Whenever the model is asked again, each tool call of its last message has
\* exactly one reply, also when the reply came with a resumption.
THEOREM RepliesAreComplete == Spec => []EveryToolCallIsReplied
<1>1. TypeOK /\ TalkInv => EveryToolCallIsReplied
  BY DEF EveryToolCallIsReplied, TalkInv, ConversationFits, Between, AllReplied
<1> QED
  BY <1>1, InitTypeOK, NextTypeOK, InitTalkInv, NextTalkInv, PTL DEF Spec
-----------------------------------------------------------------------------
(* The server.                                                            *)

\* Whose word a change waits on was asked for where the server may ask: by a
\* clarifier, of a client that shows forms while the question runs, or with the
\* sealed state of a client that comes back.
WordIsKept ==
  /\ origin \in [Calls -> Calls \cup {Nobody}]
  /\ \A c \in Calls :
       /\ consent[c] = InCall =>
            /\ pc[c] = "hook"
            /\ OnClarify \/ (client[c] = "old" /\ origin[c] = Nobody)
       /\ consent[c] \in Calls => Resumable(consent[c]) /\ origin[c] = consent[c]

\* A step of the server is one of its agent, or leaves the agent alone.
LEMMA ServerStepIsAgentStep == [ServerNext]_serverVars => [Next]_vars
BY DEF ServerNext, ToolAsks, ToolContinues, ToolResumes, Next, serverVars

\* After an await, a call's consent is the one given in the call, or gone.
LEMMA ContinueConsent ==
  ASSUME TypeOK, NEW c \in Calls, Continue(c)
  PROVE  /\ \A d \in Calls \ {c} : consent'[d] = consent[d] /\ pc'[d] = pc[d]
         /\ \/ consent' = consent /\ pc[c] # "hook"
            \/ consent'[c] = Nobody
            \/ consent'[c] = InCall /\ pc'[c] = "hook" /\ ConfirmedInCall(c)
<1>1. CASE Pause(c)
  BY <1>1, GotoMoves DEF Pause
<1>2. CASE ~Pause(c)
  <2>1. \A d \in Calls \ {c} : consent'[d] = consent[d] /\ pc'[d] = pc[d]
    <3>1. WellTypedMove(c)
          /\ \/ UNCHANGED consent
             \/ \E w \in {Nobody, InCall} : consent' = [consent EXCEPT ![c] = w]
      BY <1>2, ContinueMoves
    <3> QED BY <3>1 DEF WellTypedMove, TypeOK
  <2>2. CASE ConfirmedInCall(c)
    BY <2>1, <2>2 DEF ConfirmedInCall, Goto, TypeOK
  <2>3. CASE HookAccepts(c) \/ HookRejects(c) \/ Raise(c)
    BY <2>1, <2>3 DEF HookAccepts, HookRejects, Raise, TypeOK
  <2>4. CASE ModelCallsTool(c)
    BY <2>1, <2>4, ModelCallsToolMoves
  <2>5. CASE AnsweredInCall(c) \/ ExecuteReturnsData(c) \/ ExecuteReturnsNoData(c)
    BY <2>1, <2>5 DEF AnsweredInCall, ExecuteReturnsData, ExecuteReturnsNoData
  <2> QED BY <1>2, <2>2, <2>3, <2>4, <2>5 DEF Continue
<1> QED BY <1>1, <1>2

\* The server asks only where it may, and an invocation resumes once.
LEMMA ServerNextWord ==
  IInv /\ WordIsKept /\ [ServerNext]_serverVars => WordIsKept'
<1> SUFFICES ASSUME IInv, WordIsKept, [ServerNext]_serverVars PROVE WordIsKept'
  OBVIOUS
<1>1. TypeOK /\ ConsentIsFresh
  BY DEF IInv
<1>2. ASSUME NEW c \in Calls, pc[c] # "hook"
      PROVE  consent[c] = Nobody
  BY <1>1, <1>2 DEF WordIsKept, ConsentIsFresh, TypeOK
<1>3. ASSUME NEW c \in Calls, ToolAsks(c) PROVE WordIsKept'
  <2>1. /\ pc[c] = "idle" /\ UNCHANGED <<consent, client, origin>>
        /\ \A d \in Calls \ {c} : pc'[d] = pc[d]
    BY <1>1, <1>3 DEF ToolAsks, Ask, Goto, TypeOK
  <2>2. \A d \in Calls : consent[d] = InCall => d # c
    BY <2>1 DEF WordIsKept
  <2> QED BY <2>1, <2>2 DEF WordIsKept, Resumable
<1>4. ASSUME NEW c \in Calls, ToolContinues(c) PROVE WordIsKept'
  <2>1. /\ \A d \in Calls \ {c} : consent'[d] = consent[d] /\ pc'[d] = pc[d]
        /\ \/ consent' = consent /\ pc[c] # "hook"
           \/ consent'[c] = Nobody
           \/ consent'[c] = InCall /\ pc'[c] = "hook" /\ ConfirmedInCall(c)
    BY <1>1, <1>4, ContinueConsent DEF ToolContinues
  <2>2. UNCHANGED <<client, origin>> /\ (ConfirmedInCall(c) => AnswersInCall(c))
    BY <1>4 DEF ToolContinues
  <2>3. ConfirmedInCall(c) => OnClarify \/ (client[c] = "old" /\ origin[c] = Nobody)
    BY <2>2 DEF AnswersInCall, HasClarifier, Forms, Resumable
  <2>4. Nobody \notin Calls /\ InCall \notin Calls /\ Nobody # InCall
    BY AgentsAssumption DEF Nobody, InCall
  <2>5. ASSUME NEW d \in Calls
        PROVE  /\ consent'[d] = InCall =>
                    /\ pc'[d] = "hook"
                    /\ OnClarify \/ (client'[d] = "old" /\ origin'[d] = Nobody)
               /\ consent'[d] \in Calls =>
                    Resumable(consent[d]) /\ origin'[d] = consent'[d]
                      /\ consent'[d] = consent[d]
    BY <1>2, <2>1, <2>2, <2>3, <2>4 DEF WordIsKept
  <2> QED BY <2>2, <2>5 DEF WordIsKept, Resumable
<1>5. ASSUME NEW c \in Calls, NEW i \in Calls, ToolResumes(c, i) PROVE WordIsKept'
  <2>1. /\ pc[c] = "idle" /\ client' = client /\ Resumable(i)
        /\ origin' = [origin EXCEPT ![c] = i]
        /\ consent' = consent \/ consent' = [consent EXCEPT ![c] = i]
        /\ \A d \in Calls \ {c} : pc'[d] = pc[d]
    <3>1. Resumable(i)
      BY <1>5 DEF ToolResumes, Returned
    <3>2. \A d \in Calls \ {c} : pc'[d] = pc[d]
      BY <1>1, <1>5
         DEF ToolResumes, Resume, ResumeQuestion, ResumeDeclined, ResumeRefused,
             ResumeConfirmed, Failed, Goto, TypeOK
    <3>3. /\ pc[c] = "idle" /\ client' = client
          /\ origin' = [origin EXCEPT ![c] = i]
          /\ consent' = consent \/ consent' = [consent EXCEPT ![c] = i]
      BY <1>5
         DEF ToolResumes, Resume, ResumeQuestion, ResumeDeclined, ResumeRefused,
             ResumeConfirmed
    <3> QED BY <3>1, <3>2, <3>3
  <2>2. consent[c] = Nobody
    BY <1>2, <2>1
  <2>3. Nobody \notin Calls /\ InCall \notin Calls /\ Nobody # InCall
    BY AgentsAssumption DEF Nobody, InCall
  <2> QED BY <1>1, <2>1, <2>2, <2>3 DEF WordIsKept, Resumable, TypeOK
<1>6. CASE Tick /\ UNCHANGED <<client, origin>>
  BY <1>6 DEF Tick, WordIsKept, Resumable
<1>7. CASE UNCHANGED serverVars
  BY <1>7 DEF serverVars, vars, WordIsKept, Resumable
<1> QED BY <1>3, <1>4, <1>5, <1>6, <1>7 DEF ServerNext
\* Behind the server, a change that needs confirming runs only after a form that
\* its client could show: in the call, or with the sealed state (server.py:47).
THEOREM ChangesWaitForAForm == ServerSpec => []ChangesNeedAForm
<1>1. ServerInit => IInv /\ TalkInv /\ WordIsKept
  <2> SUFFICES ASSUME ServerInit PROVE IInv /\ TalkInv /\ WordIsKept
    OBVIOUS
  <2>1. Init
    BY DEF ServerInit
  <2>2. \A c \in Calls : consent[c] = Nobody
    BY <2>1 DEF Init
  <2>3. Nobody \notin Calls /\ Nobody # InCall
    BY AgentsAssumption DEF Nobody, InCall
  <2>4. WordIsKept
    BY <2>2, <2>3 DEF ServerInit, WordIsKept
  <2> QED BY <2>1, <2>4, InitIInv, InitTalkInv
<1>2. IInv /\ TalkInv /\ WordIsKept /\ [ServerNext]_serverVars
        => IInv' /\ TalkInv' /\ WordIsKept'
  <2>1. IInv => TypeOK
    BY DEF IInv
  <2> QED BY <2>1, ServerStepIsAgentStep, ServerNextWord, NextIInv, NextTalkInv
<1>3. IInv /\ TalkInv /\ WordIsKept => ChangesNeedAForm
  <2> SUFFICES ASSUME IInv, TalkInv, WordIsKept, NEW c \in Calls,
                      pc[c] = "hook", op[c].kind = "mutation", on[c] \in Confirming,
                      ~OnClarify
               PROVE  \/ consent[c] = InCall /\ client[c] = "old" /\ origin[c] = Nobody
                      \/ /\ consent[c] \in Calls /\ Resumable(consent[c])
                         /\ origin[c] = consent[c]
    BY DEF ChangesNeedAForm
  <2>1. consent[c] # Nobody
    BY DEF TalkInv, ConversationFits
  <2>2. consent[c] \in Calls \cup {Nobody, InCall}
    BY DEF IInv, TypeOK
  <2> QED BY <2>1, <2>2 DEF WordIsKept
<1> QED
  BY <1>1, <1>2, <1>3, PTL DEF ServerSpec
=============================================================================
