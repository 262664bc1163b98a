---------------------------- MODULE CallerTokens ----------------------------
(***************************************************************************)
(* core/auth.py, the token half of core/tool_executor.py and the doors a   *)
(* tool call comes through: POST /tools/{name}, POST /workflow/approve and *)
(* the MCP endpoint (api/server.py, api/mcp_server.py).                    *)
(*                                                                         *)
(* A caller signs in with the platform (external) and holds a token; from  *)
(* it POST /mcp/token mints one for /mcp, and every tool call exchanges    *)
(* the one it came with for a short token with the tool's scopes.  Time    *)
(* passes between any two steps of a call, so each of the several looks at *)
(* one token may find it ended.                                            *)
(*                                                                         *)
(* ExpiryUncapped and OfferedToAgents stand beside Expiry and Dispatched:  *)
(* mistakes a change could make, which the properties tell from the code.  *)
(***************************************************************************)
EXTENDS Integers, FiniteSets

CONSTANTS Subjects,  \* who may sign in
          Tools,     \* the loaded tools, records of what their modules declare
          Calls,     \* the tool calls of a behaviour
          TOOL_TOKEN_LIFETIME,
          MCP_TOKEN_LIFETIME,
          MaxTime,   \* bound: the last value of the clock
          MaxTokens  \* bound: platform and MCP tokens in a behaviour

VARIABLES gated,   \* whether PLATFORM_JWT_SECRET is set
          now,     \* time.time()
          tokens,  \* the signed tokens, which whoever got one may present
          call     \* the tool calls

vars == <<gated, now, tokens, call>>

Roles == {"admin", "editor", "viewer"}

\* SCOPE_SOURCE_ROLES
SourceRoles(scope) ==
    IF scope = "geodukt:run" THEN {"admin", "editor"} ELSE Roles

Doors == {"tools", "approve", "mcp"}

NoToken == [use |-> "none"]

-----------------------------------------------------------------------------
(* Tokens: what is in one, who signs it, and which door it opens.  "from"  *)
(* is history, the token it was derived from.                              *)

\* platform_claims returns something
Live(t) == gated /\ t.use # "none" /\ t.exp > now

\* _caller_token_error
DoorError(t, forMcp) ==
    gated /\ \/ ~Live(t)
             \/ t.use \in {"tool", "feed"}
             \/ forMcp # (t.use = "mcp")

\* source_token_role: an MCP token keeps the role it was minted from
SourceRole(t) ==
    IF Live(t) /\ t.use \in {"platform", "mcp"} THEN t.role ELSE "none"

\* source_role_allows_scopes
Allows(role, scopes) == \A s \in scopes : role \in SourceRoles(s)

ExpiryUncapped(t) == now + TOOL_TOKEN_LIFETIME

\* sign_tool_token
Expiry(t) == IF t.exp < now + TOOL_TOKEN_LIFETIME
               THEN t.exp ELSE now + TOOL_TOKEN_LIFETIME

\* exchange_tool_token, for a live token of a caller
Exchanged(t, scopes) ==
    [use |-> "tool", sub |-> t.sub, role |-> "none", scopes |-> scopes,
     exp |-> Expiry(t), from |-> [use |-> t.use, sub |-> t.sub, role |-> t.role,
                                  exp |-> t.exp]]

\* downstream_token raises
Undelegated(t, scopes) ==
    gated /\ (~Allows(SourceRole(t), scopes) \/ SourceRole(t) = "none")

\* downstream_token; without the gate the bearer goes on unchanged
Downstream(t, scopes) == IF gated THEN Exchanged(t, scopes) ELSE t

\* ptolemy signs a caller in, agora hands out a token for one of its sockets
SignIn(s, role, use, end) ==
    /\ gated
    /\ Cardinality({t \in tokens : t.use # "tool"}) < MaxTokens
    /\ tokens' = tokens \cup
           {[use |-> use, sub |-> s, role |-> role, scopes |-> {}, exp |-> end,
             from |-> [use |-> "signin", sub |-> s, role |-> role, exp |-> end]]}
    /\ UNCHANGED <<gated, now, call>>

\* mint_mcp_token, which looks at the token twice: either look may refuse
MintMcp(t, lifetime) ==
    /\ Live(t) /\ ~DoorError(t, FALSE)
    /\ Cardinality({u \in tokens : u.use # "tool"}) < MaxTokens
    /\ tokens' = tokens \cup
           {[use |-> "mcp", sub |-> t.sub, role |-> t.role, scopes |-> {},
             exp |-> now + lifetime,
             from |-> [use |-> t.use, sub |-> t.sub, role |-> t.role, exp |-> t.exp]]}
    /\ UNCHANGED <<gated, now, call>>

-----------------------------------------------------------------------------
(* Which tools a door dispatches: offered_tools, external_tools, and the   *)
(* one tool of the approval route.  One without a schema is unknown.       *)

OfferedToAgents(door, tool) ==
    tool.schema /\ (door = "approve" <=> tool.approvalRoute)

Dispatched(door, tool) ==
    CASE door = "tools"   -> tool.schema /\ ~tool.approvalRoute
      [] door = "approve" -> tool.approvalRoute
      [] door = "mcp"     -> /\ tool.schema
                             /\ ~tool.callerCode
                             /\ ~tool.needsApproval
                             /\ ~tool.approvalRoute

-----------------------------------------------------------------------------
(* A call, from its bearer to its answer.                                  *)

Idle == [phase |-> "idle"]

Put(c, phase) == call' = [call EXCEPT ![c].phase = phase]

Answer(c, answer) == call' = [call EXCEPT ![c].phase = "answered", ![c].answer = answer]

\* The bearer at the door: require_platform_token, platform_auth or the
\* PlatformTokenGate in front of the MCP app.  "more" is the work after the run:
\* a note to the session, or a live document to publish into.
Arrive(c, door, tool, t, more) ==
    /\ call[c] = Idle
    /\ door = "approve" => ~more
    /\ call' = [call EXCEPT ![c] =
           [phase |-> IF DoorError(t, door = "mcp") THEN "answered" ELSE "inside",
            door |-> door, tool |-> tool, token |-> t, bearer |-> NoToken,
            more |-> more, ran |-> FALSE,
            answer |-> IF DoorError(t, door = "mcp") THEN "unauthorised" ELSE "none"]]
    /\ UNCHANGED <<gated, now, tokens>>

\* The lookup and the schema.  call_tool asks about the token again first.
LookUp(c) ==
    /\ call[c].phase = "inside"
    /\ IF call[c].door = "mcp" /\ DoorError(call[c].token, TRUE)
         THEN Answer(c, "unauthorised")
         ELSE IF Dispatched(call[c].door, call[c].tool)
           THEN Put(c, "exchange")
           ELSE Answer(c, "unknown")
    /\ UNCHANGED <<gated, now, tokens>>

InvalidArguments(c) ==
    /\ call[c].phase = "exchange"
    /\ call[c].door # "approve"
    /\ Answer(c, "invalid")
    /\ UNCHANGED <<gated, now, tokens>>

\* tool_execution_token, at the head of execute_tool
Exchange(c) ==
    /\ call[c].phase = "exchange"
    /\ LET t == call[c].token
           scopes == call[c].tool.scopes
       IN IF Undelegated(t, scopes)
            THEN Answer(c, "failed") /\ UNCHANGED tokens
            ELSE /\ call' = [call EXCEPT ![c].phase = "running",
                                         ![c].bearer = Downstream(t, scopes)]
                 /\ tokens' = tokens \cup ({Downstream(t, scopes)} \ {NoToken})
    /\ UNCHANGED <<gated, now>>

\* The tool raised, or a limit refused the run: both are an answer of their own.
ToolFails(c) ==
    /\ call[c].phase = "running"
    /\ Answer(c, "failed")
    /\ UNCHANGED <<gated, now, tokens>>

ToolReturns(c) ==
    /\ call[c].phase = "running"
    /\ call' = [call EXCEPT ![c].ran = TRUE,
                            ![c].phase = IF call[c].more THEN "after" ELSE "answered",
                            ![c].answer = IF call[c].more THEN @ ELSE "result"]
    /\ UNCHANGED <<gated, now, tokens>>

\* notify_agent swallows whatever goes wrong with the note.
Note(c) ==
    /\ call[c].phase = "after"
    /\ call[c].door = "tools"
    /\ Answer(c, "result")
    /\ UNCHANGED <<gated, now, tokens>>

\* The token of the publication is exchanged outside the try of the run and
\* outside publish, which raises nothing: what it raises ends the call.
Publish(c) ==
    /\ call[c].phase = "after"
    /\ call[c].door = "mcp"
    /\ LET t == call[c].token
       IN IF Undelegated(t, {"agora:write"})
            THEN Answer(c, "raised") /\ UNCHANGED tokens
            ELSE /\ Answer(c, "result")
                 /\ tokens' = tokens \cup ({Downstream(t, {"agora:write"})} \ {NoToken})
    /\ UNCHANGED <<gated, now>>

Tick ==
    /\ now < MaxTime
    /\ now' = now + 1
    /\ UNCHANGED <<gated, tokens, call>>

Init ==
    /\ gated \in BOOLEAN
    /\ now = 0
    /\ tokens = {}
    /\ call = [c \in Calls |-> Idle]

Next ==
    \/ \E s \in Subjects, role \in Roles, use \in {"platform", "feed"},
          end \in 1 .. MaxTime + 1 : SignIn(s, role, use, end)
    \/ \E t \in tokens, lifetime \in 1 .. MCP_TOKEN_LIFETIME : MintMcp(t, lifetime)
    \/ \E c \in Calls, door \in Doors, tool \in Tools, t \in tokens \cup {NoToken},
          more \in BOOLEAN : Arrive(c, door, tool, t, more)
    \/ \E c \in Calls : \/ LookUp(c) \/ InvalidArguments(c) \/ Exchange(c)
                        \/ ToolFails(c) \/ ToolReturns(c) \/ Note(c) \/ Publish(c)
    \/ Tick

Spec == Init /\ [][Next]_vars

-----------------------------------------------------------------------------

\* A token never gets wider on its way: a tool's token is its caller's, ends no
\* later than the token it was exchanged for, and holds scopes that the role at
\* the sign-in may delegate; an MCP token has the subject and the role of a
\* platform token and never comes from another MCP token, though it may outlast
\* the sign-in: it has a lifetime of its own (exchange_tool_token,
\* sign_tool_token, sign_mcp_token, mint_mcp_token).
TokensNeverWiden ==
    \A t \in tokens :
        /\ t.sub = t.from.sub
        /\ t.use = "mcp" => t.from.use = "platform" /\ t.role = t.from.role
        /\ t.use = "tool" => /\ t.from.use \in {"platform", "mcp"}
                             /\ t.exp <= t.from.exp
                             /\ Allows(t.from.role, t.scopes)

\* What runs came through a door that offers it, with a token for that door: the
\* record of an approval only by the approval route, and by an MCP token nothing
\* that runs a caller's code or needs an approval; under the gate it runs as the
\* caller of the token it came with (offered_tools, external_tools, call_tool).
RunsByItsDoor ==
    \A c \in Calls : call[c].phase \in {"running", "after"} =>
        LET k == call[c]
        IN /\ k.tool.approvalRoute <=> k.door = "approve"
           /\ k.door = "mcp" => ~k.tool.callerCode /\ ~k.tool.needsApproval
           /\ gated => /\ k.token.use = (IF k.door = "mcp" THEN "mcp" ELSE "platform")
                       /\ k.bearer.use = "tool"
                       /\ k.bearer.sub = k.token.sub

\* A tool that ran has its result reach the caller, as call_tool says before it
\* publishes.  It does not hold of the code.
ResultReachesCaller ==
    \A c \in Calls : call[c].phase = "answered" /\ call[c].ran
                         => call[c].answer = "result"
=============================================================================
