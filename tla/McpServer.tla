----------------------------- MODULE McpServer -----------------------------
(***************************************************************************)
(* The MCP server of contrib/mcp/server.py: one tool, ask, that runs the   *)
(* query agent for clients of three kinds.                                 *)
(*                                                                         *)
(*   "new"   can show a form and come back with the sealed state           *)
(*   "old"   can show a form while the call waits                          *)
(*   "none"  cannot show forms                                             *)
(*                                                                         *)
(* An invocation of the tool is one call of the agent.  What the server    *)
(* returns is computed when the agent's call ends, without another await.  *)
(***************************************************************************)
EXTENDS QueryAgent

CONSTANTS
  OnClarify,   \* whether the application answers clarifications itself
  Clients      \* the kinds of client the invocations may come from

ASSUME ServerAssumption ==
  /\ OnClarify \in BOOLEAN
  /\ Clients \subseteq [Calls -> {"new", "old", "none"}]

VARIABLES
  client,   \* the kind of client each invocation comes from
  origin    \* the paused call an invocation resumes, or Nobody

serverVars == <<vars, client, origin>>

\* _supports_forms, and the protocol version for the sealed state.
Forms(c) == client[c] \in {"new", "old"}
Resumable(c) == client[c] = "new"

\* A form can be shown inside the call: ask() is given a clarifier, resume() not.
HasClarifier(c) == Forms(c) /\ ~Resumable(c) /\ origin[c] = Nobody

\* What the tool returns for an invocation whose call has ended.
Returned(i) ==
  CASE pc[i] = "answered" -> "answer"
    [] pc[i] = "paused" /\ Resumable(i) -> "input_required"
    [] pc[i] = "paused" /\ ~Resumable(i) /\ paused[i].kind = "question" -> "needs_input"
    [] OTHER -> "tool error"

ServerInit ==
  /\ Init
  /\ client \in Clients
  /\ origin = [c \in Calls |-> Nobody]

\* A new question.
ToolAsks(c) == Ask(c) /\ UNCHANGED <<client, origin>>

\* The state that input_required carried comes back, with an accepted form or
\* with another answer, from a client that need not be the one it went to.
ToolResumes(c, i) ==
  /\ Returned(i) = "input_required"
  /\ Resume(c, i)
  /\ origin' = [origin EXCEPT ![c] = i]
  /\ UNCHANGED client

\* Mutant of AnswersInCall: clients without forms are asked in the call, too.
AnyInCall(c) == TRUE

\* The person answers inside the call, or the application's on_clarify does.
AnswersInCall(c) == HasClarifier(c) \/ OnClarify

ToolContinues(c) ==
  /\ Continue(c)
  /\ ConfirmedInCall(c) \/ AnsweredInCall(c) => AnswersInCall(c)
  /\ UNCHANGED <<client, origin>>

ServerNext ==
  \/ \E c \in Calls : ToolAsks(c) \/ ToolContinues(c)
  \/ \E c, i \in Calls : ToolResumes(c, i)
  \/ Tick /\ UNCHANGED <<client, origin>>

ServerSpec == ServerInit /\ [][ServerNext]_serverVars

\* Every await comes back in the end.
ServerFairSpec == ServerSpec /\ \A c \in Calls : WF_serverVars(ToolContinues(c))

-----------------------------------------------------------------------------
(* Properties.                                                            *)

\* A change that needs confirming runs only after a form: one shown in the call
\* to a client that can, or one that came back with the state of a client that
\* can; "a change that needs confirming is refused" otherwise (server.py:47).
ChangesNeedAForm ==
  \A c \in Calls :
    /\ pc[c] = "hook" /\ op[c].kind = "mutation" /\ on[c] \in Confirming /\ ~OnClarify
    => \/ consent[c] = InCall /\ client[c] = "old" /\ origin[c] = Nobody
       \/ consent[c] \in Calls /\ Resumable(consent[c]) /\ origin[c] = consent[c]
=============================================================================
