----------------------------- MODULE QueryAgent -----------------------------
(***************************************************************************)
(* The natural-language query agent of contrib/mcp/agent.py.               *)
(*                                                                         *)
(* A call of ask() or resume() is a coroutine.  It alternates between the  *)
(* awaits where other calls may run -- the model's completion, the         *)
(* clarifier, the before_query hook, schema.execute -- and the code in     *)
(* between, which runs without interruption and is one action here.        *)
(*                                                                         *)
(* A clarification that nobody can answer now ends the call: its state     *)
(* goes to the caller, who may resume it any number of times, late, in     *)
(* any order, and on any agent of the deployment (one per process).        *)
(***************************************************************************)
EXTENDS Integers, Sequences, SequencesExt

CONSTANTS
  Agents,             \* the agents of the deployment, one per process
  Mutating,           \* those built with allow_mutations
  Calls,              \* the invocations of ask() and resume()
  Confirming,         \* those built with confirm_mutations
  Clarify,            \* QueryAgent(clarify = ...)
  Lookups,            \* QueryAgent(lookups = ...)
  MaxAttempts, MaxLookups, MaxClarifications,
  ConfirmWithin,      \* how long a paused confirmation may be redeemed
  MaxToolCalls,       \* bound: tool calls in one message of the model
  MaxTime             \* bound: the last instant of the clock

Nobody == "nobody"
InCall == "in call"

ASSUME AgentsAssumption ==
  /\ Mutating \subseteq Agents /\ Confirming \subseteq Agents
  /\ Nobody \notin Calls /\ InCall \notin Calls
  /\ Clarify \in BOOLEAN /\ Lookups \in BOOLEAN

ASSUME LimitsAssumption ==
  /\ MaxAttempts \in Nat \ {0}
  /\ MaxLookups \in Nat /\ MaxClarifications \in Nat
  /\ ConfirmWithin \in Nat
  /\ MaxToolCalls \in Nat \ {0} /\ MaxTime \in Nat

VARIABLES
  on,         \* the agent each call runs on
  pc,         \* where each call is
  conv,       \* the conversation of each call: state["messages"], state["used"]
  op,         \* the operation each call is about to run
  consent,    \* on whose word a mutation runs: the paused call, InCall or Nobody
  paused,     \* the state each paused call handed to its caller
  confirmed,  \* agent._confirmed
  now,        \* time.time()
  redeemed,   \* history: how often each agent redeemed each confirmation
  ran         \* history: how often each agent executed a change under it

vars == <<on, pc, conv, op, consent, paused, confirmed, now, redeemed, ran>>

Awaits == {"completing", "confirming", "asking", "hook", "executing"}
Ends == {"answered", "failed", "paused"}

(***************************************************************************)
(* A conversation keeps what the code decides by: the counters of          *)
(* state["used"], the tool calls of the model's last message and the       *)
(* replies given to them, in order.  turns counts the model's messages.    *)
(***************************************************************************)
Conversation ==
  [attempts : Nat, lookups : Nat, clarifications : Nat, turns : Nat,
   calls : 0..MaxToolCalls, replies : Seq(1..MaxToolCalls)]

NewConversation ==
  [attempts |-> 0, lookups |-> 0, clarifications |-> 0, turns |-> 0,
   calls |-> 0, replies |-> <<>>]

Operation == [tool : {"run_graphql", "lookup"}, kind : {"query", "mutation"}]

NoOperation == [tool |-> "run_graphql", kind |-> "query"]

\* state["pending"], with the conversation it is part of.  The id of a paused
\* confirmation is fresh and a call pauses at most once: the call names it.
PausedState ==
  [kind : {"none", "confirm", "question"}, at : Nat, conv : Conversation]

NotPaused == [kind |-> "none", at |-> 0, conv |-> NewConversation]

Init ==
  /\ on \in [Calls -> Agents]
  /\ pc = [c \in Calls |-> "idle"]
  /\ conv = [c \in Calls |-> NewConversation]
  /\ op = [c \in Calls |-> NoOperation]
  /\ consent = [c \in Calls |-> Nobody]
  /\ paused = [c \in Calls |-> NotPaused]
  /\ confirmed = [a \in Agents |-> {}]
  /\ now = 0
  /\ redeemed = [a \in Agents |-> [i \in Calls |-> 0]]
  /\ ran = [a \in Agents |-> [i \in Calls |-> 0]]

-----------------------------------------------------------------------------
(* What the code between two awaits does with a conversation.             *)

\* The model's message with n tool calls; all but the first are refused.
Told(s, n) ==
  [s EXCEPT !.turns = @ + 1, !.calls = n,
            !.replies = [i \in 1..(n - 1) |-> i + 1]]

\* Mutant of Replied: the reply is lost.
ReplyLost(s) == s

\* The reply to the call that is carried out.
Replied(s) == [s EXCEPT !.replies = Append(@, 1)]

FailedOnce(s) == [Replied(s) EXCEPT !.attempts = @ + 1]

\* Mutant of AskedOnce: the question is not counted.
AskedUncounted(s) == s

\* A question to the person counts when the model calls ask_user.
AskedOnce(s) == [s EXCEPT !.clarifications = @ + 1]

OffersLookup(s) == Lookups /\ s.lookups < MaxLookups
OffersAskUser(s) == Clarify /\ s.clarifications < MaxClarifications

Allowed(c) == IF on[c] \in Mutating THEN {"query", "mutation"} ELSE {"query"}

\* Mutant of MustConfirm: the wrong kind of operation is confirmed.
ConfirmsQueries(c, kind) == kind = "query" /\ on[c] \in Confirming

MustConfirm(c, kind) == kind = "mutation" /\ on[c] \in Confirming

\* A call that ended keeps nothing.
Goto(c, s, place) ==
  /\ conv' = [conv EXCEPT ![c] = IF place \in Ends THEN NewConversation ELSE s]
  /\ pc' = [pc EXCEPT ![c] = place]

\* QueryAgent._failed: the errors go back to the model, up to max_attempts.
Failed(c, s) ==
  LET f == FailedOnce(s)
  IN  Goto(c, f, IF f.attempts >= MaxAttempts THEN "failed" ELSE "completing")

-----------------------------------------------------------------------------
(* ask() and resume().                                                    *)

Ask(c) ==
  /\ pc[c] = "idle"
  /\ Goto(c, NewConversation, "completing")
  /\ UNCHANGED <<on, op, consent, paused, confirmed, now, redeemed, ran>>

\* A question that paused is answered, or declined: the reply goes to the model.
ResumeQuestion(c, i) ==
  /\ pc[c] = "idle"
  /\ paused[i].kind = "question"
  /\ Goto(c, Replied(paused[i].conv), "completing")
  /\ UNCHANGED <<on, op, consent, paused, confirmed, now, redeemed, ran>>

\* A confirmation comes back without a yes: nothing is redeemed.
ResumeDeclined(c, i) ==
  /\ pc[c] = "idle"
  /\ paused[i].kind = "confirm"
  /\ Goto(c, paused[i].conv, "failed")
  /\ UNCHANGED <<on, op, consent, paused, confirmed, now, redeemed, ran>>

\* QueryAgent._redeem keeps the confirmations that have not expired ...
Unexpired(a) == {e \in confirmed[a] : now - e.at < ConfirmWithin}

\* Mutant of Redeemable: what was redeemed before is not looked up.
RedeemableAgain(a, i) == now - paused[i].at < ConfirmWithin

\* ... and lets one through if it has not expired and is not among them.
Redeemable(a, i) ==
  /\ now - paused[i].at < ConfirmWithin
  /\ \A e \in Unexpired(a) : e.key # i

Remembered(a, i) == Unexpired(a) \cup {[key |-> i, at |-> paused[i].at]}

\* Mutant of ResumeRefused: the check takes the entry out of the memory (a pop).
ResumeRefusedForgets(c, i) ==
  /\ pc[c] = "idle"
  /\ paused[i].kind = "confirm"
  /\ ~Redeemable(on[c], i)
  /\ confirmed' = [confirmed EXCEPT ![on[c]] = {e \in Unexpired(on[c]) : e.key # i}]
  /\ Goto(c, paused[i].conv, "failed")
  /\ UNCHANGED <<on, op, consent, paused, now, redeemed, ran>>

ResumeRefused(c, i) ==
  /\ pc[c] = "idle"
  /\ paused[i].kind = "confirm"
  /\ ~Redeemable(on[c], i)
  /\ confirmed' = [confirmed EXCEPT ![on[c]] = Unexpired(on[c])]
  /\ Goto(c, paused[i].conv, "failed")
  /\ UNCHANGED <<on, op, consent, paused, now, redeemed, ran>>

\* The change is checked again: the agent it came back to may refuse mutations.
ResumeConfirmed(c, i) ==
  /\ pc[c] = "idle"
  /\ paused[i].kind = "confirm"
  /\ Redeemable(on[c], i)
  /\ confirmed' = [confirmed EXCEPT ![on[c]] = Remembered(on[c], i)]
  /\ redeemed' = [redeemed EXCEPT ![on[c]][i] = @ + 1]
  /\ IF "mutation" \in Allowed(c)
       THEN /\ op' = [op EXCEPT ![c] = [tool |-> "run_graphql", kind |-> "mutation"]]
            /\ consent' = [consent EXCEPT ![c] = i]
            /\ Goto(c, paused[i].conv, "hook")
       ELSE Failed(c, paused[i].conv) /\ UNCHANGED <<op, consent>>
  /\ UNCHANGED <<on, paused, now, ran>>

-----------------------------------------------------------------------------
(* The model's message, and the tool it calls first.                      *)

\* run_graphql with an operation that does not parse, validate or is too deep.
RunInvalid(c, n) ==
  /\ pc[c] = "completing"
  /\ Failed(c, Told(conv[c], n))
  /\ UNCHANGED <<on, op, consent, paused, confirmed, now, redeemed, ran>>

RunGraphql(c, n, kind) ==
  /\ pc[c] = "completing"
  /\ IF kind \notin Allowed(c)
       THEN Failed(c, Told(conv[c], n)) /\ UNCHANGED op
       ELSE /\ op' = [op EXCEPT ![c] = [tool |-> "run_graphql", kind |-> kind]]
            /\ Goto(c, Told(conv[c], n),
                    IF MustConfirm(c, kind) THEN "confirming" ELSE "hook")
  /\ UNCHANGED <<on, consent, paused, confirmed, now, redeemed, ran>>

\* A tool that does not exist, or is not offered any more.
UnknownTool(c, n, tool) ==
  /\ pc[c] = "completing"
  /\ tool = "lookup" => ~OffersLookup(conv[c])
  /\ tool = "ask_user" => ~OffersAskUser(conv[c])
  /\ Failed(c, Told(conv[c], n))
  /\ UNCHANGED <<on, op, consent, paused, confirmed, now, redeemed, ran>>

\* A lookup counts when it is called, and may only read.
Lookup(c, n, kind) ==
  /\ pc[c] = "completing"
  /\ OffersLookup(conv[c])
  /\ LET s == [Told(conv[c], n) EXCEPT !.lookups = @ + 1]
     IN  IF kind = "query"
           THEN /\ op' = [op EXCEPT ![c] = [tool |-> "lookup", kind |-> kind]]
                /\ Goto(c, s, "hook")
           ELSE Goto(c, Replied(s), "completing") /\ UNCHANGED op
  /\ UNCHANGED <<on, consent, paused, confirmed, now, redeemed, ran>>

AskUser(c, n, usable) ==
  /\ pc[c] = "completing"
  /\ OffersAskUser(conv[c])
  /\ LET s == AskedOnce(Told(conv[c], n))
     IN  IF usable THEN Goto(c, s, "asking")
                   ELSE Goto(c, Replied(s), "completing")
  /\ UNCHANGED <<on, op, consent, paused, confirmed, now, redeemed, ran>>

ModelCallsTool(c) ==
  \E n \in 1..MaxToolCalls :
    \/ RunInvalid(c, n)
    \/ \E kind \in {"query", "mutation"} : RunGraphql(c, n, kind)
    \/ \E tool \in {"lookup", "ask_user", "other"} : UnknownTool(c, n, tool)
    \/ \E kind \in {"query", "mutation", "invalid"} : Lookup(c, n, kind)
    \/ \E usable \in BOOLEAN : AskUser(c, n, usable)

-----------------------------------------------------------------------------
(* The other awaits come back.                                            *)

\* on_clarify or the clarifier answers the confirmation with a yes.
ConfirmedInCall(c) ==
  /\ pc[c] = "confirming"
  /\ consent' = [consent EXCEPT ![c] = InCall]
  /\ Goto(c, conv[c], "hook")
  /\ UNCHANGED <<on, op, paused, confirmed, now, redeemed, ran>>

\* They answer a question, or decline it.
AnsweredInCall(c) ==
  /\ pc[c] = "asking"
  /\ Goto(c, Replied(conv[c]), "completing")
  /\ UNCHANGED <<on, op, consent, paused, confirmed, now, redeemed, ran>>

\* Nobody can be asked now: the state goes to the caller.
Pause(c) ==
  /\ pc[c] \in {"confirming", "asking"}
  /\ paused' = [paused EXCEPT ![c] =
                  [kind |-> IF pc[c] = "confirming" THEN "confirm" ELSE "question",
                   at |-> now, conv |-> conv[c]]]
  /\ op' = [op EXCEPT ![c] = NoOperation]
  /\ Goto(c, conv[c], "paused")
  /\ UNCHANGED <<on, consent, confirmed, now, redeemed, ran>>

\* before_query lets the operation through and schema.execute starts.
HookAccepts(c) ==
  /\ pc[c] = "hook"
  /\ Goto(c, conv[c], "executing")
  /\ consent' = [consent EXCEPT ![c] = Nobody]
  /\ ran' = IF consent[c] \in Calls
              THEN [ran EXCEPT ![on[c]][consent[c]] = @ + 1]
              ELSE ran
  /\ UNCHANGED <<on, op, paused, confirmed, now, redeemed>>

\* Mutant of OperationFailed: the same operation is tried again at once.
OperationRetried(c) == Goto(c, conv[c], "hook") /\ UNCHANGED op

\* The errors of an operation that did not answer the question.
OperationFailed(c) ==
  /\ IF op[c].tool = "lookup" THEN Goto(c, Replied(conv[c]), "completing")
                              ELSE Failed(c, conv[c])
  /\ op' = [op EXCEPT ![c] = NoOperation]

HookRejects(c) ==
  /\ pc[c] = "hook"
  /\ consent' = [consent EXCEPT ![c] = Nobody]
  /\ OperationFailed(c)
  /\ UNCHANGED <<on, paused, confirmed, now, redeemed, ran>>

\* The rows of an answer go to the caller, those of a lookup to the model.
ExecuteReturnsData(c) ==
  /\ pc[c] = "executing"
  /\ IF op[c].tool = "lookup" THEN Goto(c, Replied(conv[c]), "completing")
                              ELSE Goto(c, conv[c], "answered")
  /\ op' = [op EXCEPT ![c] = NoOperation]
  /\ UNCHANGED <<on, consent, paused, confirmed, now, redeemed, ran>>

ExecuteReturnsNoData(c) ==
  /\ pc[c] = "executing"
  /\ OperationFailed(c)
  /\ UNCHANGED <<on, consent, paused, confirmed, now, redeemed, ran>>

\* An await raises: the model declines by calling no tool, the person says no,
\* a hook stops the agent, the provider fails, the task is cancelled.
Raise(c) ==
  /\ pc[c] \in Awaits
  /\ Goto(c, conv[c], "failed")
  /\ op' = [op EXCEPT ![c] = NoOperation]
  /\ consent' = [consent EXCEPT ![c] = Nobody]
  /\ UNCHANGED <<on, paused, confirmed, now, redeemed, ran>>

-----------------------------------------------------------------------------
Tick ==
  /\ now < MaxTime
  /\ now' = now + 1
  /\ UNCHANGED <<on, pc, conv, op, consent, paused, confirmed, redeemed, ran>>

Resume(c, i) ==
  \/ ResumeQuestion(c, i)
  \/ ResumeDeclined(c, i)
  \/ ResumeRefused(c, i)
  \/ ResumeConfirmed(c, i)

Continue(c) ==
  \/ ModelCallsTool(c)
  \/ ConfirmedInCall(c)
  \/ AnsweredInCall(c)
  \/ Pause(c)
  \/ HookAccepts(c)
  \/ HookRejects(c)
  \/ ExecuteReturnsData(c)
  \/ ExecuteReturnsNoData(c)
  \/ Raise(c)

Next ==
  \/ \E c \in Calls : Ask(c)
  \/ \E c \in Calls, i \in Calls : Resume(c, i)
  \/ \E c \in Calls : Continue(c)
  \/ Tick

\* With a clock that never goes back: were time.time() set back, _redeem could
\* let through again what it has dropped as expired.
Spec == Init /\ [][Next]_vars

-----------------------------------------------------------------------------
(* Properties.                                                            *)

\* Every variable has its type.
TypeOK ==
  /\ on \in [Calls -> Agents]
  /\ pc \in [Calls -> {"idle"} \cup Awaits \cup Ends]
  /\ conv \in [Calls -> Conversation]
  /\ op \in [Calls -> Operation]
  /\ consent \in [Calls -> Calls \cup {Nobody, InCall}]
  /\ paused \in [Calls -> PausedState]
  /\ confirmed \in [Agents -> SUBSET [key : Calls, at : Nat]]
  /\ now \in Nat
  /\ redeemed \in [Agents -> [Calls -> Nat]]
  /\ ran \in [Agents -> [Calls -> Nat]]

\* An agent lets a paused confirmation through at most once, however often and
\* however late its state is resumed (_redeem, agent.py:423).
RedeemedOnce == \A a \in Agents, i \in Calls : redeemed[a][i] <= 1

\* The change of a paused confirmation is executed at most once per agent, and
\* never without the confirmation having been redeemed there.
ChangeRunsOnce ==
  \A a \in Agents, i \in Calls : ran[a][i] <= 1 /\ ran[a][i] <= redeemed[a][i]

\* A redeemed confirmation the agent has forgotten can no longer be redeemed:
\* what _redeem drops from _confirmed is what its own time check refuses.
ForgottenMeansExpired ==
  \A a \in Agents, i \in Calls :
    redeemed[a][i] > 0 /\ (\A e \in confirmed[a] : e.key # i)
      => now - paused[i].at >= ConfirmWithin

\* With confirm_mutations, an agent executes a mutation only on somebody's word,
\* only if it allows mutations, and never from the lookup tool.
OnlyAgreedMutationsRun ==
  \A c \in Calls :
    /\ pc[c] = "hook" /\ op[c].kind = "mutation" /\ on[c] \in Confirming
         => consent[c] # Nobody
    /\ pc[c] \in {"hook", "executing"} /\ op[c].kind = "mutation"
         => on[c] \in Mutating /\ op[c].tool = "run_graphql"

\* Each call of the model is paid from one of the three budgets, along every
\* chain of pauses and resumptions, so a question costs a bounded number.
TurnsArePaidFor ==
  \A c \in Calls :
    pc[c] = "completing" =>
      LET s == conv[c]
      IN  /\ s.turns = s.attempts + s.lookups + s.clarifications
          /\ s.attempts < MaxAttempts
          /\ s.lookups <= MaxLookups
          /\ s.clarifications <= MaxClarifications

\* When the model is asked again, every tool call of its last message has
\* exactly one reply, as chat APIs demand, in-call, refused or resumed.
EveryToolCallIsReplied ==
  \A c \in Calls :
    pc[c] = "completing" =>
      /\ Len(conv[c].replies) = conv[c].calls
      /\ ToSet(conv[c].replies) = 1..conv[c].calls

\* Every call of ask() and resume() ends.
CallsEnd == \A c \in Calls : pc[c] \in Awaits ~> pc[c] \in Ends

\* The confirmations an agent let through and ran, as the ledger sees them.
Ledger == INSTANCE ConfirmationLedger WITH Confirmations <- Calls

\* Paused confirmations behave as the ledger of the class docstring says.
KeepsLedger == Ledger!Spec
=============================================================================
