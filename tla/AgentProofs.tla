----------------------------- MODULE AgentProofs -----------------------------
(***************************************************************************)
(* Theorems about CallerTokens, AgentRun and WorkflowManifests, for any    *)
(* callers, tools and tokens, for any events and for any manifests: an     *)
(* inductive invariant of each, and what it promises.                      *)
(***************************************************************************)
EXTENDS AgentParts, TLAPS, SequenceTheorems, FiniteSetTheorems, WellFoundedInduction

-----------------------------------------------------------------------------
(* CallerTokens: of every token, what its signer and the token it was      *)
(* derived from say; of every call that the door let in, that its token is *)
(* one for that door, that the door offers its tool and, once it runs,     *)
(* whose token it runs with.                                               *)

Signed(t) ==
    /\ t.use \in {"platform", "feed", "mcp", "tool"}
    /\ t.exp \in Int
    /\ t.sub = t.from.sub
    /\ t.use = "mcp" => t.from.use = "platform" /\ t.role = t.from.role
    /\ t.use = "tool" => /\ t.from.use \in {"platform", "mcp"}
                         /\ t.exp <= t.from.exp
                         /\ Caller!Allows(t.from.role, t.scopes)

Presentable == tokens \cup {Caller!NoToken}

CallRecord ==
    [phase : {"inside", "exchange", "running", "after", "answered"},
     door : Caller!Doors, tool : Tools, token : Presentable, bearer : Presentable,
     more : BOOLEAN, ran : BOOLEAN,
     answer : {"none", "unauthorised", "unknown", "invalid", "failed", "result", "raised"}]

TokensSigned ==
    /\ now \in Nat
    /\ ~gated => tokens = {}
    /\ \A t \in tokens : Signed(t)

CallsTyped == call \in [Calls -> CallRecord \cup {Caller!Idle}]

ForDoor(k) == k.token.use = (IF k.door = "mcp" THEN "mcp" ELSE "platform")

Admitted(k) ==
    /\ k.phase \in {"inside", "exchange", "running", "after"} /\ gated => ForDoor(k)
    /\ k.phase \in {"exchange", "running", "after"} => Caller!Dispatched(k.door, k.tool)
    /\ k.phase \in {"running", "after"} /\ gated =>
           k.bearer.use = "tool" /\ k.bearer.sub = k.token.sub

CallerInv == TokensSigned /\ CallsTyped /\ \A c \in Calls : Admitted(call[c])

LEMMA CallerInitially == Caller!Init => CallerInv
  BY DEF Caller!Init, CallerInv, TokensSigned, CallsTyped, Admitted, Caller!Idle

(* What a step of one call has to show of that call alone.                 *)
LEMMA OneCall ==
    ASSUME CallerInv, NEW c \in Calls, NEW k \in CallRecord',
           tokens \subseteq tokens', gated' = gated,
           call' = [call EXCEPT ![c] = k], Admitted(k)
    PROVE  CallsTyped' /\ \A d \in Calls : Admitted(call[d])'
  <1>1. CallRecord \subseteq CallRecord'
    BY DEF CallRecord, Presentable
  <1>2. CallsTyped'
    BY <1>1 DEF CallsTyped, CallerInv, CallRecord
  <1>3. ASSUME NEW d \in Calls PROVE Admitted(call[d])'
    <2>1. CASE d = c
      BY <2>1 DEF CallerInv, CallsTyped, Admitted, ForDoor
    <2>2. CASE d # c
      <3>1. call'[d] = call[d]
        BY <2>2 DEF CallerInv, CallsTyped
      <3> QED
        BY <3>1 DEF CallerInv, Admitted, ForDoor
    <2> QED BY <2>1, <2>2
  <1> QED BY <1>2, <1>3

LEMMA SignInSigned ==
    ASSUME CallerInv, NEW s \in Subjects, NEW role \in Caller!Roles,
           NEW use \in {"platform", "feed"}, NEW end \in 1 .. MaxTime + 1,
           Caller!SignIn(s, role, use, end)
    PROVE  TokensSigned'
  BY DEF CallerInv, TokensSigned, Signed, Caller!SignIn

LEMMA MintSigned ==
    ASSUME CallerInv, NEW t \in tokens, NEW lifetime \in 1 .. MCP_TOKEN_LIFETIME,
           Caller!MintMcp(t, lifetime)
    PROVE  TokensSigned'
  <1>1. gated /\ t.use = "platform"
    BY DEF CallerInv, TokensSigned, Signed, Caller!MintMcp, Caller!Live, Caller!DoorError
  <1> QED
    BY <1>1 DEF CallerInv, TokensSigned, Signed, Caller!MintMcp

(* Under the gate, what downstream_token makes of a token that is not      *)
(* refused is a token of the same caller, for a tool.                      *)
LEMMA DownstreamSigned ==
    ASSUME TokensSigned, NEW t \in Presentable, NEW scopes,
           ~Caller!Undelegated(t, scopes), gated
    PROVE  /\ t \in tokens
           /\ Signed(Caller!Downstream(t, scopes))
           /\ Caller!Downstream(t, scopes).use = "tool"
           /\ Caller!Downstream(t, scopes).sub = t.sub
           /\ Caller!Downstream(t, scopes) # Caller!NoToken
  <1> DEFINE d == Caller!Downstream(t, scopes)
  <1>1. Caller!Live(t) /\ t.use \in {"platform", "mcp"} /\ Caller!Allows(t.role, scopes)
    BY DEF Caller!Undelegated, Caller!SourceRole
  <1>2. t \in tokens
    BY <1>1 DEF Presentable, Caller!NoToken
  <1>3. t.exp \in Int
    BY <1>2 DEF TokensSigned, Signed
  <1>4. Caller!Expiry(t) \in Int /\ Caller!Expiry(t) <= t.exp
    BY <1>3, AgentAssumption DEF Caller!Expiry, TokensSigned
  <1>5. d = [use |-> "tool", sub |-> t.sub, role |-> "none", scopes |-> scopes,
             exp |-> Caller!Expiry(t), from |-> [use |-> t.use, sub |-> t.sub,
                                                  role |-> t.role, exp |-> t.exp]]
    BY DEF Caller!Downstream, Caller!Exchanged
  <1> HIDE DEF d
  <1>6. d.from.role = t.role /\ d.scopes = scopes
    BY <1>5
  <1>7. Signed(d) /\ d.use = "tool" /\ d.sub = t.sub
    BY <1>1, <1>4, <1>5, <1>6 DEF Signed
  <1>8. d # Caller!NoToken
    BY <1>5 DEF Caller!NoToken
  <1> QED BY <1>2, <1>7, <1>8 DEF d

(* The token of a call, or of its publication, is exchanged.               *)
LEMMA ExchangeSigned ==
    ASSUME CallerInv, NEW t \in Presentable, NEW scopes,
           ~Caller!Undelegated(t, scopes), gated' = gated, now' = now,
           tokens' = tokens \cup ({Caller!Downstream(t, scopes)} \ {Caller!NoToken})
    PROVE  TokensSigned' /\ Caller!Downstream(t, scopes) \in Presentable'
  <1>1. CASE gated
    BY <1>1, DownstreamSigned DEF CallerInv, TokensSigned, Presentable, Signed
  <1>2. CASE ~gated
    BY <1>2 DEF CallerInv, TokensSigned, Presentable, Caller!Downstream
  <1> QED BY <1>1, <1>2

(* A step that leaves the tokens alone and moves one call on.              *)
LEMMA MovedOn ==
    ASSUME CallerInv, NEW c \in Calls, NEW k \in CallRecord,
           gated' = gated, now' = now, tokens' = tokens,
           call' = [call EXCEPT ![c] = k], Admitted(k)
    PROVE  CallerInv'
  <1>1. TokensSigned'
    BY DEF CallerInv, TokensSigned, Signed
  <1>2. k \in CallRecord'
    BY DEF CallRecord, Presentable
  <1> QED
    BY <1>1, <1>2, OneCall DEF CallerInv

LEMMA ArriveKept ==
    ASSUME CallerInv, NEW c \in Calls, NEW door \in Caller!Doors, NEW tool \in Tools,
           NEW t \in Presentable, NEW more \in BOOLEAN,
           Caller!Arrive(c, door, tool, t, more)
    PROVE  CallerInv'
  <1> DEFINE denied == Caller!DoorError(t, door = "mcp")
             k == [phase |-> IF denied THEN "answered" ELSE "inside",
                   door |-> door, tool |-> tool, token |-> t, bearer |-> Caller!NoToken,
                   more |-> more, ran |-> FALSE,
                   answer |-> IF denied THEN "unauthorised" ELSE "none"]
  <1>1. /\ call' = [call EXCEPT ![c] = k]
        /\ gated' = gated /\ now' = now /\ tokens' = tokens
    BY DEF Caller!Arrive
  <1>2. k \in CallRecord
    BY DEF CallRecord, Presentable
  <1>3. ASSUME ~denied, gated
        PROVE  t.use = (IF door = "mcp" THEN "mcp" ELSE "platform")
    <2>1. t \in tokens
      BY <1>3 DEF Caller!DoorError, Caller!Live, Presentable, Caller!NoToken
    <2> QED
      BY <1>3, <2>1 DEF Caller!DoorError, CallerInv, TokensSigned, Signed
  <1>4. Admitted(k)
    BY <1>3 DEF Admitted, ForDoor
  <1> HIDE DEF k
  <1> QED
    BY <1>1, <1>2, <1>4, MovedOn

(* The call's record, and what is the same in it whatever phase it is put  *)
(* in and whatever it is answered.                                         *)
LEMMA CallOf ==
    ASSUME CallerInv, NEW c \in Calls, call[c].phase # "idle"
    PROVE  call[c] \in CallRecord /\ Admitted(call[c])
  BY DEF CallerInv, CallsTyped, Caller!Idle

LEMMA AnswerKept ==
    ASSUME CallerInv, NEW c \in Calls, call[c].phase # "idle",
           NEW a \in {"none", "unauthorised", "unknown", "invalid", "failed",
                           "result", "raised"},
           gated' = gated, now' = now, tokens' = tokens, Caller!Answer(c, a)
    PROVE  CallerInv'
  <1> DEFINE k == [call[c] EXCEPT !.phase = "answered", !.answer = a]
  <1>1. call[c] \in CallRecord
    BY CallOf
  <1>2. call' = [call EXCEPT ![c] = k]
    BY DEF Caller!Answer, CallerInv, CallsTyped
  <1>3. k \in CallRecord /\ Admitted(k)
    BY <1>1 DEF CallRecord, Admitted
  <1> HIDE DEF k
  <1> QED
    BY <1>2, <1>3, MovedOn

LEMMA LookUpKept ==
    ASSUME CallerInv, NEW c \in Calls, Caller!LookUp(c)
    PROVE  CallerInv'
  <1> DEFINE k == [call[c] EXCEPT !.phase = "exchange"]
  <1>1. call[c] \in CallRecord /\ Admitted(call[c]) /\ call[c].phase = "inside"
    BY CallOf DEF Caller!LookUp
  <1>2. gated' = gated /\ now' = now /\ tokens' = tokens
    BY DEF Caller!LookUp
  <1>3. CASE Caller!Answer(c, "unauthorised") \/ Caller!Answer(c, "unknown")
    BY <1>1, <1>2, <1>3, AnswerKept
  <1>4. CASE Caller!Put(c, "exchange") /\ Caller!Dispatched(call[c].door, call[c].tool)
    <2>1. call' = [call EXCEPT ![c] = k]
      BY <1>4 DEF Caller!Put, CallerInv, CallsTyped
    <2>2. k \in CallRecord /\ k.door = call[c].door /\ k.tool = call[c].tool
          /\ k.token = call[c].token /\ k.phase = "exchange"
      BY <1>1 DEF CallRecord
    <2>3. Admitted(k)
      BY <1>1, <1>4, <2>2 DEF Admitted, ForDoor
    <2> HIDE DEF k
    <2> QED
      BY <1>2, <2>1, <2>2, <2>3, MovedOn
  <1> QED
    BY <1>3, <1>4 DEF Caller!LookUp

LEMMA ExchangeKept ==
    ASSUME CallerInv, NEW c \in Calls, Caller!Exchange(c)
    PROVE  CallerInv'
  <1> DEFINE t == call[c].token
             d == Caller!Downstream(t, call[c].tool.scopes)
             k == [call[c] EXCEPT !.phase = "running", !.bearer = d]
  <1>1. call[c] \in CallRecord /\ Admitted(call[c]) /\ call[c].phase = "exchange"
    BY CallOf DEF Caller!Exchange
  <1>2. t \in Presentable /\ gated' = gated /\ now' = now
    BY <1>1 DEF Caller!Exchange, CallRecord
  <1>3. CASE Caller!Undelegated(t, call[c].tool.scopes)
    BY <1>1, <1>3, AnswerKept DEF Caller!Exchange
  <1>4. CASE ~Caller!Undelegated(t, call[c].tool.scopes)
    <2>1. /\ call' = [call EXCEPT ![c] = k]
          /\ tokens' = tokens \cup ({d} \ {Caller!NoToken})
      BY <1>4 DEF Caller!Exchange, CallerInv, CallsTyped
    <2>2. TokensSigned' /\ d \in Presentable'
      BY <1>2, <1>4, <2>1, ExchangeSigned
    <2>3. gated => d.use = "tool" /\ d.sub = t.sub
      BY <1>2, <1>4, DownstreamSigned DEF CallerInv
    <2>4. Presentable \subseteq Presentable'
      BY <2>1 DEF Presentable
    <2> HIDE DEF d
    <2>5. k \in CallRecord' /\ k.door = call[c].door /\ k.tool = call[c].tool
          /\ k.token = t /\ k.phase = "running" /\ k.bearer = d
      BY <1>1, <2>2, <2>4 DEF CallRecord
    <2>6. Admitted(k)
      BY <1>1, <2>3, <2>5 DEF Admitted, ForDoor
    <2> HIDE DEF k
    <2> QED
      BY <1>2, <2>1, <2>2, <2>5, <2>6, OneCall DEF CallerInv
  <1> QED
    BY <1>3, <1>4

LEMMA ToolReturnsKept ==
    ASSUME CallerInv, NEW c \in Calls, Caller!ToolReturns(c)
    PROVE  CallerInv'
  <1> DEFINE k == [call[c] EXCEPT
                      !.ran = TRUE,
                      !.phase = IF call[c].more THEN "after" ELSE "answered",
                      !.answer = IF call[c].more THEN @ ELSE "result"]
  <1>1. call[c] \in CallRecord /\ Admitted(call[c]) /\ call[c].phase = "running"
    BY CallOf DEF Caller!ToolReturns
  <1>2. /\ gated' = gated /\ now' = now /\ tokens' = tokens
        /\ call' = [call EXCEPT ![c] = k]
    BY DEF Caller!ToolReturns, CallerInv, CallsTyped
  <1>3. k \in CallRecord /\ k.door = call[c].door /\ k.tool = call[c].tool
        /\ k.token = call[c].token /\ k.bearer = call[c].bearer
    BY <1>1 DEF CallRecord
  <1>4. Admitted(k)
    BY <1>1, <1>3 DEF Admitted, ForDoor
  <1> HIDE DEF k
  <1> QED
    BY <1>2, <1>3, <1>4, MovedOn

LEMMA PublishKept ==
    ASSUME CallerInv, NEW c \in Calls, Caller!Publish(c)
    PROVE  CallerInv'
  <1> DEFINE t == call[c].token
             k == [call[c] EXCEPT !.phase = "answered", !.answer = "result"]
  <1>1. call[c] \in CallRecord /\ Admitted(call[c]) /\ call[c].phase = "after"
    BY CallOf DEF Caller!Publish
  <1>2. t \in Presentable /\ gated' = gated /\ now' = now
    BY <1>1 DEF Caller!Publish, CallRecord
  <1>3. CASE Caller!Undelegated(t, {"agora:write"})
    BY <1>1, <1>3, AnswerKept DEF Caller!Publish
  <1>4. CASE ~Caller!Undelegated(t, {"agora:write"})
    <2>1. /\ call' = [call EXCEPT ![c] = k]
          /\ tokens' = tokens \cup ({Caller!Downstream(t, {"agora:write"})}
                                        \ {Caller!NoToken})
      BY <1>4 DEF Caller!Publish, Caller!Answer, CallerInv, CallsTyped
    <2>2. TokensSigned'
      BY <1>2, <1>4, <2>1, ExchangeSigned
    <2>3. Presentable \subseteq Presentable'
      BY <2>1 DEF Presentable
    <2>4. k \in CallRecord' /\ Admitted(k)
      BY <1>1, <2>3 DEF CallRecord, Admitted
    <2> HIDE DEF k
    <2> QED
      BY <1>2, <2>1, <2>2, <2>4, OneCall DEF CallerInv
  <1> QED
    BY <1>3, <1>4

LEMMA CallerNext ==
    ASSUME CallerInv, Caller!Next
    PROVE  CallerInv'
  <1>1. ASSUME NEW s \in Subjects, NEW role \in Caller!Roles,
               NEW use \in {"platform", "feed"}, NEW end \in 1 .. MaxTime + 1,
               Caller!SignIn(s, role, use, end)
        PROVE  CallerInv'
    <2>1. TokensSigned'
      BY <1>1, SignInSigned
    <2> QED
      BY <1>1, <2>1
         DEF Caller!SignIn, CallerInv, CallsTyped, CallRecord, Presentable, Admitted, ForDoor
  <1>2. ASSUME NEW t \in tokens, NEW lifetime \in 1 .. MCP_TOKEN_LIFETIME,
               Caller!MintMcp(t, lifetime)
        PROVE  CallerInv'
    <2>1. TokensSigned'
      BY <1>2, MintSigned
    <2> QED
      BY <1>2, <2>1
         DEF Caller!MintMcp, CallerInv, CallsTyped, CallRecord, Presentable, Admitted, ForDoor
  <1>3. ASSUME NEW c \in Calls, \/ Caller!InvalidArguments(c) \/ Caller!ToolFails(c)
                                \/ Caller!Note(c)
        PROVE  CallerInv'
    BY <1>3, AnswerKept DEF Caller!InvalidArguments, Caller!ToolFails, Caller!Note
  <1>4. CASE Caller!Tick
    BY <1>4 DEF Caller!Tick, CallerInv, TokensSigned, Signed, CallsTyped, CallRecord,
                Presentable, Admitted, ForDoor
  <1> QED
    BY <1>1, <1>2, <1>3, <1>4, ArriveKept, LookUpKept, ExchangeKept, ToolReturnsKept,
       PublishKept DEF Caller!Next, Presentable

LEMMA CallerInvariance == CallerInv /\ [Caller!Next]_callerVars => CallerInv'
  <1>1. ASSUME CallerInv, UNCHANGED callerVars PROVE CallerInv'
    BY <1>1 DEF callerVars, CallerInv, TokensSigned, Signed, CallsTyped, CallRecord,
                Presentable, Admitted, ForDoor
  <1> QED
    BY <1>1, CallerNext

LEMMA TokensPromised == CallerInv => Caller!TokensNeverWiden
  BY DEF CallerInv, TokensSigned, Signed, Caller!TokensNeverWiden

LEMMA DoorsPromised == CallerInv => Caller!RunsByItsDoor
  <1> SUFFICES ASSUME CallerInv, NEW c \in Calls, call[c].phase \in {"running", "after"}
               PROVE  LET k == call[c]
                      IN /\ k.tool.approvalRoute <=> k.door = "approve"
                         /\ k.door = "mcp" => ~k.tool.callerCode /\ ~k.tool.needsApproval
                         /\ gated => /\ k.token.use =
                                           (IF k.door = "mcp" THEN "mcp" ELSE "platform")
                                     /\ k.bearer.use = "tool"
                                     /\ k.bearer.sub = k.token.sub
    BY DEF Caller!RunsByItsDoor
  <1>1. call[c].door \in Caller!Doors /\ Admitted(call[c])
    BY CallOf DEF CallRecord
  <1> QED
    BY <1>1 DEF Admitted, ForDoor, Caller!Dispatched, Caller!Doors

-----------------------------------------------------------------------------
(* AgentRun: until the stream is closed, nothing that went to the browser  *)
(* is a last frame or a map, every message is whole, and whether a map was *)
(* announced, or a plan shown, is remembered.                              *)

AnEvent == Events \cup {Run!ThreadError, Run!EndOfRun}

Frame ==
    {"RUN_STARTED", "keepalive", "progress", "viewer_cmd", "plan", "run", "ui_spec",
     "TEXT_MESSAGE_START", "TEXT_MESSAGE_CONTENT", "TEXT_MESSAGE_END",
     "RUN_FINISHED", "RUN_ERROR"}

MessageAt(s, i) ==
    /\ i + 2 <= Len(s)
    /\ s[i] = "TEXT_MESSAGE_START"
    /\ s[i + 1] = "TEXT_MESSAGE_CONTENT"
    /\ s[i + 2] = "TEXT_MESSAGE_END"

\* Frames of a run that goes on
GoingOn(s) ==
    /\ s \in Seq(Frame)
    /\ \A i \in 1 .. Len(s) :
           /\ s[i] \notin {"RUN_FINISHED", "RUN_ERROR", "ui_spec"}
           /\ s[i] = "TEXT_MESSAGE_START" => MessageAt(s, i)

Announced == \E i \in DOMAIN taken : Run!Told(taken[i]) /\ taken[i].spec
PlanShown == \E i \in DOMAIN taken : Run!Told(taken[i]) /\ taken[i].plan

RunInv ==
    /\ stream \in {"new", "waiting", "closing", "ended", "gone"}
    /\ queue \in Seq(AnEvent) /\ taken \in Seq(AnEvent)
    /\ stream = "new" => frames = <<>>
    /\ stream \notin {"new", "ended"} => Len(frames) > 0 /\ frames[1] = "RUN_STARTED"
    /\ stream # "ended" => /\ GoingOn(frames)
                           /\ Announced => spec = "told"
                           /\ ~Announced => spec = "none"
                           /\ PlanShown => planned
    /\ Run!StreamWellFormed /\ Run!MapOutlivesTheRun

LEMMA EmptyGoesOn == GoingOn(<<>>)
  BY DEF GoingOn

LEMMA ConcatGoesOn ==
    ASSUME NEW s, NEW t, GoingOn(s), GoingOn(t)
    PROVE  GoingOn(s \o t)
  <1>1. PICK m \in Nat, n \in Nat : Len(s) = m /\ Len(t) = n
    BY DEF GoingOn
  <1>5. PICK st : st = s \o t
    OBVIOUS
  <1>6. s \in Seq(Frame) /\ t \in Seq(Frame)
    BY DEF GoingOn
  <1>2. st \in Seq(Frame) /\ Len(st) = m + n
    BY <1>1, <1>5, <1>6, ConcatProperties
  <1>3. \A i \in 1 .. m + n : st[i] = IF i <= m THEN s[i] ELSE t[i - m]
    BY <1>1, <1>5, <1>6, ConcatProperties
  <1>4. ASSUME NEW i \in 1 .. m + n
        PROVE  /\ st[i] \notin {"RUN_FINISHED", "RUN_ERROR", "ui_spec"}
               /\ st[i] = "TEXT_MESSAGE_START" => MessageAt(st, i)
    <2>1. CASE i <= m
      <3>1. i \in 1 .. m /\ st[i] = s[i]
        BY <1>3, <2>1
      <3>2. /\ s[i] \notin {"RUN_FINISHED", "RUN_ERROR", "ui_spec"}
            /\ s[i] = "TEXT_MESSAGE_START" => MessageAt(s, i)
        BY <1>1, <3>1 DEF GoingOn
      <3>3. ASSUME MessageAt(s, i) PROVE MessageAt(st, i)
        <4>1. i + 2 <= m /\ i + 1 \in 1 .. m + n /\ i + 2 \in 1 .. m + n /\ i + 1 <= m
          BY <1>1, <3>1, <3>3 DEF MessageAt
        <4> QED
          BY <1>2, <1>3, <3>1, <3>3, <4>1 DEF MessageAt
      <3> QED BY <3>1, <3>2, <3>3
    <2>2. CASE ~(i <= m)
      <3>1. i - m \in 1 .. n /\ st[i] = t[i - m]
        BY <1>3, <2>2
      <3>2. /\ t[i - m] \notin {"RUN_FINISHED", "RUN_ERROR", "ui_spec"}
            /\ t[i - m] = "TEXT_MESSAGE_START" => MessageAt(t, i - m)
        BY <1>1, <3>1 DEF GoingOn
      <3>3. ASSUME MessageAt(t, i - m) PROVE MessageAt(st, i)
        <4>1. /\ i - m + 2 <= n /\ i + 1 \in 1 .. m + n /\ i + 2 \in 1 .. m + n
              /\ ~(i + 1 <= m) /\ ~(i + 2 <= m)
              /\ (i + 1) - m = (i - m) + 1 /\ (i + 2) - m = (i - m) + 2
          BY <1>1, <2>2, <3>1, <3>3 DEF MessageAt
        <4>2. st[i + 1] = t[(i - m) + 1] /\ st[i + 2] = t[(i - m) + 2]
          BY <1>3, <4>1
        <4> QED
          BY <1>2, <3>1, <3>3, <4>1, <4>2 DEF MessageAt
      <3> QED BY <3>1, <3>2, <3>3
    <2> QED BY <2>1, <2>2
  <1> QED
    BY <1>2, <1>4, <1>5 DEF GoingOn

LEMMA IfGoesOn ==
    ASSUME NEW c, NEW s, GoingOn(s)
    PROVE  GoingOn(Run!If(c, s))
  BY EmptyGoesOn DEF Run!If

LEMMA OneGoesOn ==
    ASSUME NEW name \in {"RUN_STARTED", "keepalive", "progress", "viewer_cmd", "plan", "run"}
    PROVE  GoingOn(<<name>>)
  <1>1. name \in Frame
    BY DEF Frame
  <1>2. <<name>> \in Seq(Frame)
    BY <1>1
  <1>3. Len(<<name>>) = 1 /\ <<name>>[1] = name
    OBVIOUS
  <1> QED
    BY <1>2, <1>3 DEF GoingOn

LEMMA TextGoesOn == GoingOn(Run!TextFrames)
  <1>2. Run!TextFrames \in Seq(Frame)
    BY DEF Run!TextFrames, Frame
  <1>1. /\ Len(Run!TextFrames) = 3
        /\ Run!TextFrames[1] = "TEXT_MESSAGE_START"
        /\ Run!TextFrames[2] = "TEXT_MESSAGE_CONTENT"
        /\ Run!TextFrames[3] = "TEXT_MESSAGE_END"
    BY DEF Run!TextFrames
  <1> QED
    BY <1>1, <1>2 DEF GoingOn, MessageAt

LEMMA FramesGoOn == \A e : GoingOn(Run!FramesOf(e))
  <1> TAKE e
  <1> DEFINE refusal == Run!If(e.kind = "tool_return" /\ e.refused, <<"progress">>)
             command == Run!If(e.command, <<"viewer_cmd">>)
             aPlan == Run!If(e.plan, <<"plan">>)
             aRun == Run!If(e.report, <<"run">>)
             text == Run!If(e.kind = "text", Run!TextFrames)
             toolCall == Run!If(e.kind = "tool_call", <<"progress">>)
  <1>1. GoingOn(refusal) /\ GoingOn(command) /\ GoingOn(aPlan) /\ GoingOn(aRun)
        /\ GoingOn(toolCall)
    BY IfGoesOn, OneGoesOn
  <1>2. GoingOn(text)
    BY IfGoesOn, TextGoesOn
  <1>3. Run!FramesOf(e) = toolCall \o Run!If(Run!Told(e),
                              refusal \o command \o aPlan \o aRun \o text)
    BY DEF Run!FramesOf
  <1> HIDE DEF refusal, command, aPlan, aRun, text, toolCall
  <1>4. GoingOn(refusal \o command \o aPlan \o aRun \o text)
    BY <1>1, <1>2, ConcatGoesOn
  <1> QED
    BY <1>1, <1>3, <1>4, IfGoesOn, ConcatGoesOn

(* A message that is whole is its three frames.                            *)
LEMMA MessageIsWhole ==
    ASSUME NEW s \in Seq(Frame), NEW i \in 1 .. Len(s), MessageAt(s, i)
    PROVE  i + 2 <= Len(s) /\ SubSeq(s, i, i + 2) = Run!TextFrames
  <1>1. DOMAIN s = 1 .. Len(s) /\ Len(s) \in Nat
    OBVIOUS
  <1>2. /\ i \in Int /\ i + 2 \in Int /\ i <= i + 2 /\ (i + 2) - i + 1 = 3
        /\ \A k \in i .. i + 2 : s[k] \in Frame
    BY <1>1, ElementOfSeq DEF MessageAt
  <1> DEFINE message == SubSeq(s, i, i + 2)
  <1>3. /\ message \in Seq(Frame) /\ Len(message) = 3
        /\ \A k \in 1 .. 3 : message[k] = s[i + k - 1]
    BY <1>2, SubSeqProperties
  <1>4. Run!TextFrames \in Seq(Frame) /\ Len(Run!TextFrames) = 3
    BY DEF Run!TextFrames, Frame
  <1>5. \A k \in 1 .. 3 : message[k] = Run!TextFrames[k]
    <2>1. message[1] = s[i] /\ message[2] = s[i + 1] /\ message[3] = s[i + 2]
      BY <1>2, <1>3
    <2> HIDE DEF message
    <2>2. /\ message[1] = Run!TextFrames[1]
          /\ message[2] = Run!TextFrames[2]
          /\ message[3] = Run!TextFrames[3]
      BY <2>1 DEF MessageAt, Run!TextFrames
    <2>3. \A k \in 1 .. 3 : k = 1 \/ k = 2 \/ k = 3
      OBVIOUS
    <2> QED
      BY <2>2, <2>3
  <1> HIDE DEF message
  <1>6. message = Run!TextFrames
    BY <1>3, <1>4, <1>5, SeqEqual
  <1> QED
    BY <1>6 DEF message, MessageAt

MapsAt(c, k) == {i \in 1 .. k : c[i] = "ui_spec"}

EachInPlace(c, k) ==
    \A i \in 1 .. k : /\ c[i] = "TEXT_MESSAGE_START" => MessageAt(c, i)
                      /\ c[i] \in Run!Terminal => i = k

\* k frames, a map at the one after the first m of them if there is one, x the last
Closed(c, k, m, map, x) ==
    /\ c \in Seq(Frame) /\ Len(c) = k /\ c[k] = x
    /\ EachInPlace(c, k)
    /\ MapsAt(c, k) = IF map THEN {m + 1} ELSE {}

ClosedFrom(s, c, map, x) == \E k \in Nat \ {0} : Closed(c, k, Len(s), map, x)

LastOnes(map, x) == IF map THEN <<"ui_spec", x>> ELSE <<x>>

(* A stream that was going on, closed with a map or without one.           *)
LEMMA ClosedStream ==
    ASSUME NEW s, GoingOn(s), NEW x \in Run!Terminal, NEW map \in BOOLEAN,
           NEW c, c = s \o LastOnes(map, x)
    PROVE  /\ ClosedFrom(s, c, map, x)
           /\ Len(s) > 0 => c[1] = s[1]
  <1>1. PICK m \in Nat : m = Len(s)
    BY DEF GoingOn
  <1>2. PICK t : t = LastOnes(map, x)
    OBVIOUS
  <1>3. PICK n \in {1, 2} : n = IF map THEN 2 ELSE 1
    OBVIOUS
  <1>4. t \in Seq(Frame) /\ Len(t) = n /\ t[n] = x /\ (map => t[1] = "ui_spec")
    <2>1. x \in Frame /\ "ui_spec" \in Frame
      BY DEF Frame, Run!Terminal
    <2>2. CASE map
      <3>1. t = <<"ui_spec", x>> /\ n = 2
        BY <1>2, <1>3, <2>2 DEF LastOnes
      <3> QED
        BY <2>1, <3>1
    <2>3. CASE ~map
      <3>1. t = <<x>> /\ n = 1
        BY <1>2, <1>3, <2>3 DEF LastOnes
      <3> QED
        BY <2>1, <2>3, <3>1
    <2> QED BY <2>2, <2>3
  <1>5. c = s \o t
    BY <1>2
  <1>6. c \in Seq(Frame) /\ Len(c) = m + n
    BY <1>1, <1>4, <1>5, ConcatProperties DEF GoingOn
  <1>7. \A i \in 1 .. m + n : c[i] = IF i <= m THEN s[i] ELSE t[i - m]
    BY <1>1, <1>4, <1>5, ConcatProperties DEF GoingOn
  <1>8. /\ \A i \in 1 .. m : c[i] = s[i]
        /\ c[m + n] = x
        /\ map => n = 2 /\ c[m + 1] = "ui_spec"
        /\ ~map => n = 1
    <2>1. \A i \in 1 .. m : i \in 1 .. m + n /\ i <= m
      OBVIOUS
    <2>2. m + n \in 1 .. m + n /\ ~(m + n <= m) /\ (m + n) - m = n
          /\ m + 1 \in 1 .. m + n /\ ~(m + 1 <= m) /\ (m + 1) - m = 1
      OBVIOUS
    <2> QED
      BY <1>3, <1>4, <1>7, <2>1, <2>2
  <1>9. x # "ui_spec" /\ x # "TEXT_MESSAGE_START" /\ x \in {"RUN_FINISHED", "RUN_ERROR"}
    BY DEF Run!Terminal
  <1>10. ASSUME NEW i \in 1 .. m + n
         PROVE  i \in 1 .. m \/ i = m + n \/ (map /\ i = m + 1)
    BY <1>3
  <1>11. ASSUME NEW i \in 1 .. m
         PROVE  /\ c[i] \notin Run!Terminal /\ c[i] # "ui_spec"
                /\ c[i] = "TEXT_MESSAGE_START" => MessageAt(c, i)
    <2>1. /\ s[i] \notin {"RUN_FINISHED", "RUN_ERROR", "ui_spec"}
          /\ s[i] = "TEXT_MESSAGE_START" => MessageAt(s, i)
      BY <1>1 DEF GoingOn
    <2>2. ASSUME MessageAt(s, i) PROVE MessageAt(c, i)
      <3>1. i + 2 <= m /\ i + 1 \in 1 .. m /\ i + 2 \in 1 .. m /\ i + 2 <= m + n
        BY <1>1, <2>2 DEF MessageAt
      <3> QED
        BY <1>6, <1>8, <2>2, <3>1 DEF MessageAt
    <2> QED
      BY <1>8, <2>1, <2>2 DEF Run!Terminal
  <1>12. ASSUME NEW i \in 1 .. m + n
         PROVE  /\ c[i] = "TEXT_MESSAGE_START" => MessageAt(c, i)
                /\ c[i] \in Run!Terminal => i = m + n
                /\ c[i] = "ui_spec" <=> map /\ i = m + 1
    BY <1>8, <1>9, <1>10, <1>11 DEF Run!Terminal
  <1>13. {i \in 1 .. m + n : c[i] = "ui_spec"} = IF map THEN {m + 1} ELSE {}
    <2>1. map => m + 1 \in 1 .. m + n
      BY <1>3
    <2> QED
      BY <1>12, <2>1
  <1>14. m > 0 => c[1] = s[1]
    <2>1. m > 0 => 1 \in 1 .. m
      OBVIOUS
    <2> QED
      BY <1>8, <2>1
  <1>15. PICK k \in Nat \ {0} : k = m + n
    OBVIOUS
  <1>16. Len(c) = k /\ Len(s) = m
    BY <1>1, <1>6, <1>15
  <1>17. /\ c \in Seq(Frame) /\ c[k] = x
         /\ m > 0 => c[1] = s[1]
         /\ MapsAt(c, k) = IF map THEN {m + 1} ELSE {}
    BY <1>6, <1>8, <1>13, <1>14, <1>15 DEF MapsAt
  <1>18. EachInPlace(c, k)
    BY <1>12, <1>15 DEF EachInPlace
  <1>19. Closed(c, k, m, map, x)
    BY <1>16, <1>17, <1>18 DEF Closed
  <1> QED
    BY <1>1, <1>15, <1>17, <1>19 DEF ClosedFrom

LEMMA RunInitially == Run!Init => RunInv
  <1> SUFFICES ASSUME Run!Init PROVE RunInv
    OBVIOUS
  <1>1. /\ stream = "new" /\ queue = <<>> /\ taken = <<>> /\ frames = <<>>
        /\ spec = "none" /\ planned = FALSE
    BY DEF Run!Init
  <1>2. /\ queue \in Seq(AnEvent) /\ taken \in Seq(AnEvent) /\ GoingOn(frames)
        /\ DOMAIN taken = {} /\ DOMAIN frames = {}
    BY <1>1, EmptyGoesOn
  <1> QED
    BY <1>1, <1>2 DEF RunInv, Announced, PlanShown, Run!StreamWellFormed, Run!MapOutlivesTheRun

(* A step after which the run still goes on.                               *)
LEMMA RunGoesOn ==
    ASSUME stream' \in {"waiting", "closing", "gone"},
           queue' \in Seq(AnEvent), taken' \in Seq(AnEvent),
           GoingOn(frames'), Len(frames') > 0, frames'[1] = "RUN_STARTED",
           Announced' => spec' = "told", ~Announced' => spec' = "none",
           PlanShown' => planned'
    PROVE  RunInv'
  <1>1. DOMAIN frames' = 1 .. Len(frames') /\ Len(frames') \in Nat /\ frames' \in Seq(Frame)
    BY DEF GoingOn
  <1>2. ASSUME NEW i \in 1 .. Len(frames'), frames'[i] = Run!TextFrames[1]
        PROVE  i + 2 <= Len(frames') /\ SubSeq(frames', i, i + 2) = Run!TextFrames
    <2>1. MessageAt(frames', i)
      BY <1>2 DEF GoingOn, Run!TextFrames
    <2> QED
      BY <1>1, <2>1, MessageIsWhole
  <1>3. \A i \in 1 .. Len(frames') : frames'[i] \notin Run!Terminal
    BY DEF GoingOn, Run!Terminal
  <1>4. Run!StreamWellFormed'
    BY <1>1, <1>2, <1>3 DEF Run!StreamWellFormed
  <1>5. Run!MapOutlivesTheRun'
    BY DEF Run!MapOutlivesTheRun
  <1>6. stream' # "ended" /\ stream' # "new"
    OBVIOUS
  <1> QED
    BY <1>4, <1>5, <1>6 DEF RunInv

LEMMA ReaderStep ==
    ASSUME RunInv, queue' \in Seq(AnEvent), stream' = stream, frames' = frames,
           taken' = taken, spec' = spec, planned' = planned, failed' = failed
    PROVE  RunInv'
  <1>1. (Announced' <=> Announced) /\ (PlanShown' <=> PlanShown)
    BY DEF Announced, PlanShown
  <1>2. Run!StreamWellFormed' /\ Run!MapOutlivesTheRun'
    BY DEF RunInv, Run!StreamWellFormed, Run!MapOutlivesTheRun, Run!Places
  <1> QED
    BY <1>1, <1>2 DEF RunInv

LEMMA TakeEventStep ==
    ASSUME RunInv, Run!TakeEvent
    PROVE  RunInv'
  <1> DEFINE e == Head(queue)
  <1>1. /\ stream = "waiting" /\ queue # <<>> /\ queue' = Tail(queue)
        /\ frames' = frames \o Run!FramesOf(e)
        /\ taken' = Append(taken, e)
        /\ spec' = IF Run!Told(e) /\ e.spec /\ spec = "none" THEN "told" ELSE spec
        /\ planned' = (planned \/ (Run!Told(e) /\ e.plan))
        /\ stream' \in {"waiting", "closing"}
    BY DEF Run!TakeEvent
  <1>2. e \in AnEvent /\ queue' \in Seq(AnEvent)
    BY <1>1, HeadTailProperties DEF RunInv
  <1> HIDE DEF e
  <1>3. PICK k \in Nat : k = Len(taken) /\ DOMAIN taken = 1 .. k
    BY DEF RunInv
  <1>4. /\ taken' \in Seq(AnEvent) /\ Len(taken') = k + 1
        /\ \A i \in 1 .. k : taken'[i] = taken[i]
        /\ taken'[k + 1] = e
    BY <1>1, <1>2, <1>3, AppendProperties DEF RunInv
  <1>5. DOMAIN taken' = (1 .. k) \cup {k + 1}
    <2>1. DOMAIN taken' = 1 .. k + 1
      BY <1>4
    <2> QED BY <2>1
  <1>6. Announced' <=> Announced \/ (Run!Told(e) /\ e.spec)
    BY <1>3, <1>4, <1>5 DEF Announced
  <1>7. PlanShown' <=> PlanShown \/ (Run!Told(e) /\ e.plan)
    BY <1>3, <1>4, <1>5 DEF PlanShown
  <1>8. /\ GoingOn(frames) /\ Len(frames) > 0 /\ frames[1] = "RUN_STARTED"
        /\ Announced => spec = "told"
        /\ ~Announced => spec = "none"
        /\ PlanShown => planned
    BY <1>1 DEF RunInv
  <1>9. GoingOn(Run!FramesOf(e)) /\ GoingOn(frames')
    BY <1>1, <1>8, FramesGoOn, ConcatGoesOn
  <1>10. Len(frames') > 0 /\ frames'[1] = "RUN_STARTED"
    <2>1. PICK m \in Nat, n \in Nat : m = Len(frames) /\ n = Len(Run!FramesOf(e))
      BY <1>8, <1>9 DEF GoingOn
    <2>2. /\ Len(frames') = m + n
          /\ \A i \in 1 .. m + n : frames'[i] = IF i <= m THEN frames[i]
                                               ELSE Run!FramesOf(e)[i - m]
      BY <1>1, <1>8, <1>9, <2>1, ConcatProperties DEF GoingOn
    <2>3. m > 0 /\ 1 \in 1 .. m + n /\ 1 <= m
      BY <1>8, <2>1
    <2> QED
      BY <1>8, <2>1, <2>2, <2>3
  <1>11. /\ Announced' => spec' = "told"
         /\ ~Announced' => spec' = "none"
         /\ PlanShown' => planned'
    BY <1>1, <1>6, <1>7, <1>8
  <1> QED
    BY <1>1, <1>2, <1>4, <1>9, <1>10, <1>11, RunGoesOn

(* The last frames, with a map or without one.                             *)
LEMMA ClosedStep ==
    ASSUME RunInv, stream = "closing", stream' = "ended", queue' = queue, taken' = taken,
           NEW x \in Run!Terminal, NEW map \in BOOLEAN,
           frames' = frames \o LastOnes(map, x),
           x = IF failed' THEN "RUN_ERROR" ELSE "RUN_FINISHED",
           Announced => map, PlanShown /\ ~Announced => ~map
    PROVE  RunInv'
  <1>1. /\ GoingOn(frames) /\ Len(frames) > 0 /\ frames[1] = "RUN_STARTED"
    BY DEF RunInv
  <1>2. PICK c : c = frames'
    OBVIOUS
  <1>3. c = frames \o LastOnes(map, x)
    BY <1>2
  <1>6. PICK k \in Nat \ {0} : Closed(c, k, Len(frames), map, x)
    <2>1. ClosedFrom(frames, c, map, x)
      BY <1>1, <1>3, ClosedStream
    <2> QED
      BY <2>1 DEF ClosedFrom
  <1>7. c[1] = "RUN_STARTED"
    BY <1>1, <1>3, ClosedStream
  <1>8. /\ c \in Seq(Frame) /\ Len(c) = k /\ DOMAIN c = 1 .. k /\ c[k] = x
        /\ MapsAt(c, k) = IF map THEN {Len(frames) + 1} ELSE {}
    BY <1>6 DEF Closed
  <1>9. EachInPlace(c, k)
    BY <1>6 DEF Closed
  <1>4. Run!StreamWellFormed'
    <2>1. ASSUME NEW i \in 1 .. k, c[i] = Run!TextFrames[1]
          PROVE  i + 2 <= k /\ SubSeq(c, i, i + 2) = Run!TextFrames
      <3>1. MessageAt(c, i)
        BY <1>9, <2>1 DEF Run!TextFrames, EachInPlace
      <3> QED
        BY <1>8, <3>1, MessageIsWhole
    <2> QED
      BY <1>2, <1>7, <1>8, <1>9, <2>1 DEF Run!StreamWellFormed, EachInPlace
  <1>5. Run!MapOutlivesTheRun'
    <2>1. Run!Places("ui_spec")' = IF map THEN {Len(frames) + 1} ELSE {}
      BY <1>2, <1>8 DEF Run!Places, MapsAt
    <2>2. (Announced' <=> Announced) /\ (PlanShown' <=> PlanShown)
      BY DEF Announced, PlanShown
    <2>3. map => Len(frames) + 1 \in 1 .. k
      BY <1>8 DEF MapsAt
    <2>4. /\ Announced' => \E i \in DOMAIN frames' : Run!Places("ui_spec")' = {i}
          /\ PlanShown' /\ ~Announced' => Run!Places("ui_spec")' = {}
      BY <1>2, <1>8, <2>1, <2>2, <2>3
    <2> QED
      BY <2>4 DEF Run!MapOutlivesTheRun, Announced, PlanShown
  <1> QED
    BY <1>4, <1>5 DEF RunInv

LEMMA RunStep ==
    ASSUME RunInv, Run!Next
    PROVE  RunInv'
  <1> USE DEF Run!reader, Run!gathered
  <1>1. CASE Run!Connect
    BY <1>1, ReaderStep DEF Run!Connect, RunInv
  <1>2. ASSUME NEW e \in Events, Run!ReadLine(e) PROVE RunInv'
    <2>1. Append(queue, e) \in Seq(AnEvent)
      BY AppendProperties DEF RunInv, AnEvent
    <2> QED
      BY <1>2, <2>1, ReaderStep DEF Run!ReadLine
  <1>3. CASE Run!ThreadFails
    <2>1. <<Run!ThreadError, Run!EndOfRun>> \in Seq(AnEvent)
      BY DEF AnEvent
    <2>2. queue \o <<Run!ThreadError, Run!EndOfRun>> \in Seq(AnEvent)
      BY <2>1, ConcatProperties DEF RunInv
    <2> QED
      BY <1>3, <2>2, ReaderStep DEF Run!ThreadFails
  <1>4. CASE Run!AnswerEnds
    <2>1. Append(queue, Run!EndOfRun) \in Seq(AnEvent)
      BY AppendProperties DEF RunInv, AnEvent
    <2> QED
      BY <1>4, <2>1, ReaderStep DEF Run!AnswerEnds
  <1>5. CASE Run!Start
    <2>1. /\ frames' = <<"RUN_STARTED">> /\ stream = "new" /\ stream' = "waiting"
          /\ queue' = queue /\ taken' = taken /\ spec' = spec /\ planned' = planned
      BY <1>5 DEF Run!Start
    <2>2. GoingOn(frames') /\ Len(frames') > 0 /\ frames'[1] = "RUN_STARTED"
      BY <2>1, OneGoesOn
    <2>3. (Announced' <=> Announced) /\ (PlanShown' <=> PlanShown)
      BY <2>1 DEF Announced, PlanShown
    <2> QED
      BY <2>1, <2>2, <2>3, RunGoesOn DEF RunInv
  <1>6. CASE Run!Keepalive
    <2>1. /\ frames' = Append(frames, "keepalive") /\ stream = "waiting" /\ stream' = "waiting"
          /\ queue' = queue /\ taken' = taken /\ spec' = spec /\ planned' = planned
      BY <1>6 DEF Run!Keepalive
    <2>2. /\ GoingOn(frames) /\ Len(frames) > 0 /\ frames[1] = "RUN_STARTED"
          /\ frames \in Seq(Frame) /\ Len(frames) \in Nat /\ "keepalive" \in Frame
      BY <2>1 DEF RunInv, GoingOn, Frame
    <2>3. /\ frames' = frames \o <<"keepalive">>
          /\ Len(frames') = Len(frames) + 1
          /\ \A i \in 1 .. Len(frames) : frames'[i] = frames[i]
      BY <2>1, <2>2, AppendProperties, AppendIsConcat
    <2>4. GoingOn(frames') /\ Len(frames') > 0 /\ frames'[1] = "RUN_STARTED"
      BY <2>2, <2>3, OneGoesOn, ConcatGoesOn
    <2>5. (Announced' <=> Announced) /\ (PlanShown' <=> PlanShown)
      BY <2>1 DEF Announced, PlanShown
    <2> QED
      BY <2>1, <2>4, <2>5, RunGoesOn DEF RunInv
  <1>7. CASE Run!Close
    <2>1. /\ stream = "closing" /\ stream' = "ended" /\ queue' = queue /\ taken' = taken
          /\ frames' = frames \o Run!LastFrames /\ failed' = failed
      BY <1>7 DEF Run!Close
    <2>2. PICK x \in Run!Terminal : x = IF failed THEN "RUN_ERROR" ELSE "RUN_FINISHED"
      BY DEF Run!Terminal
    <2>3. PICK map \in BOOLEAN : map <=> Run!FinalSpec # "none"
      OBVIOUS
    <2>4. Run!LastFrames = IF map THEN <<"ui_spec", x>> ELSE <<x>>
      <3>1. Run!LastFrames = (IF map THEN <<"ui_spec">> ELSE <<>>) \o <<x>>
        BY <2>2, <2>3 DEF Run!LastFrames, Run!If
      <3>2. <<"ui_spec">> \o <<x>> = <<"ui_spec", x>> /\ <<>> \o <<x>> = <<x>>
        <4>1. <<"ui_spec">> \in Seq(Frame) /\ <<x>> \in Seq(Frame)
              /\ <<"ui_spec", x>> \in Seq(Frame)
          BY DEF Frame, Run!Terminal
        <4>2. <<>> \o <<x>> = <<x>>
          BY <4>1, ConcatEmptySeq
        <4>3. PICK c : c = <<"ui_spec">> \o <<x>>
          OBVIOUS
        <4>4. c \in Seq(Frame) /\ Len(c) = 2 /\ c[1] = "ui_spec" /\ c[2] = x
          BY <4>1, <4>3, ConcatProperties
        <4>5. c = <<"ui_spec", x>>
          BY <4>1, <4>4, SeqEqual
        <4> QED
          BY <4>2, <4>3, <4>5
      <3> QED BY <3>1, <3>2
    <2>5. /\ Announced => spec = "told"
          /\ ~Announced => spec = "none"
          /\ PlanShown => planned
      BY <2>1 DEF RunInv
    <2>6. (Announced => map) /\ (PlanShown /\ ~Announced => ~map)
      BY <2>3, <2>5 DEF Run!FinalSpec
    <2> QED
      BY <2>1, <2>2, <2>4, <2>6, ClosedStep DEF LastOnes
  <1>8. CASE Run!CloseRaises
    <2>1. /\ stream = "closing" /\ stream' = "ended" /\ queue' = queue /\ taken' = taken
          /\ frames' = Append(frames, "RUN_ERROR") /\ failed' = TRUE
          /\ spec = "none"
      BY <1>8 DEF Run!CloseRaises
    <2>2. "RUN_ERROR" \in Run!Terminal /\ "RUN_ERROR" \in Frame /\ ~Announced
      BY <2>1 DEF Run!Terminal, Frame, RunInv
    <2>3. frames' = frames \o <<"RUN_ERROR">>
      BY <2>1, <2>2, AppendIsConcat DEF RunInv, GoingOn
    <2>4. frames' = frames \o LastOnes(FALSE, "RUN_ERROR")
      BY <2>3 DEF LastOnes
    <2> QED
      BY <2>1, <2>2, <2>4, ClosedStep
  <1>9. CASE Run!BrowserGone
    <2>1. /\ stream \in {"waiting", "closing"} /\ stream' = "gone" /\ frames' = frames
          /\ queue' = queue /\ taken' = taken /\ spec' = spec /\ planned' = planned
      BY <1>9 DEF Run!BrowserGone
    <2>2. (Announced' <=> Announced) /\ (PlanShown' <=> PlanShown)
      BY <2>1 DEF Announced, PlanShown
    <2> QED
      BY <2>1, <2>2, RunGoesOn DEF RunInv
  <1> QED
    BY <1>1, <1>2, <1>3, <1>4, <1>5, <1>6, <1>7, <1>8, <1>9, TakeEventStep DEF Run!Next

LEMMA RunInvariance == RunInv /\ [Run!Next]_runVars => RunInv'
  <1>1. ASSUME RunInv, UNCHANGED runVars PROVE RunInv'
    BY <1>1, ReaderStep DEF runVars, RunInv
  <1> QED
    BY <1>1, RunStep

LEMMA StreamPromised == RunInv => Run!StreamWellFormed
  BY DEF RunInv

LEMMA MapPromised == RunInv => Run!MapOutlivesTheRun
  BY DEF RunInv

-----------------------------------------------------------------------------
(* WorkflowManifests: the paths.  A root is a directory and one below it,  *)
(* so what lies under it is known by the first two parts of its path.      *)

LEMMA LeastNatural ==
    ASSUME NEW S \in SUBSET Nat, S # {}
    PROVE  \E m \in S : \A n \in S : m =< n
  <1>1. PICK m \in S : \A n \in S : ~ (<<n, m>> \in OpToRel(<, Nat))
    BY WFMin, NatLessThanWellFounded
  <1>2. \A n \in S : ~ (n < m)
    BY <1>1 DEF OpToRel
  <1> QED
    BY <1>2

(* A prefix of two parts.                                                  *)
LEMMA FirstTwo ==
    ASSUME NEW S, NEW s \in Seq(S), Len(s) >= 2
    PROVE  /\ SubSeq(s, 1, 2) \in Seq(S) /\ Len(SubSeq(s, 1, 2)) = 2
           /\ SubSeq(s, 1, 2)[1] = s[1] /\ SubSeq(s, 1, 2)[2] = s[2]
  <1>1. \A i \in 1..2 : s[i] \in S
    OBVIOUS
  <1>2. /\ SubSeq(s, 1, 2) \in Seq(S) /\ Len(SubSeq(s, 1, 2)) = 2
        /\ \A i \in 1 .. 2 : SubSeq(s, 1, 2)[i] = s[1 + i - 1]
    BY <1>1, SubSeqProperties
  <1> QED
    BY <1>2

LEMMA TwoParts ==
    ASSUME NEW S, NEW root \in Seq(S), Len(root) = 2, NEW path \in Seq(S)
    PROVE  Manifests!IsPrefix(root, path) <=>
               Len(path) >= 2 /\ path[1] = root[1] /\ path[2] = root[2]
  <1>1. CASE Len(path) < 2
    BY <1>1 DEF Manifests!IsPrefix
  <1>2. CASE Len(path) >= 2
    <2> DEFINE two == SubSeq(path, 1, 2)
               all == SubSeq(root, 1, 2)
    <2>1. /\ two \in Seq(S) /\ Len(two) = 2 /\ two[1] = path[1] /\ two[2] = path[2]
      BY <1>2, FirstTwo
    <2>2. /\ all \in Seq(S) /\ Len(all) = 2 /\ all[1] = root[1] /\ all[2] = root[2]
      BY FirstTwo
    <2>3. Manifests!IsPrefix(root, path) <=> all = two
      BY <1>2 DEF Manifests!IsPrefix
    <2> HIDE DEF two, all
    <2>4. ASSUME all[1] = two[1], all[2] = two[2]
          PROVE  all = two
      <3>1. \A i \in 1 .. Len(all) : all[i] = two[i]
        BY <2>2, <2>4
      <3> QED
        BY <2>1, <2>2, <3>1, SeqEqual
    <2> QED
      BY <1>2, <2>1, <2>2, <2>3, <2>4
  <1> QED
    BY <1>1, <1>2

Paths == Seq(PathPart) \ {<<>>}

SinkRoots == {Manifests!Outputs, Manifests!UserData}
SourceRoots == SinkRoots \cup {Manifests!SharedSet}

UnderARoot(path, roots) ==
    path \in Paths /\ \E root \in roots : Manifests!IsPrefix(root, path)

LEMMA Roots ==
    \A root \in SourceRoots : root \in Seq(PathPart) /\ Len(root) = 2
  <1>1. {Me, "outputs", "user_data", "natural_earth", "10m"} \subseteq PathPart
    BY AgentAssumption
  <1>2. \A a, b \in PathPart : <<a, b>> \in Seq(PathPart) /\ Len(<<a, b>>) = 2
    OBVIOUS
  <1> QED
    BY <1>1, <1>2 DEF SourceRoots, SinkRoots, Manifests!Outputs, Manifests!UserData,
                      Manifests!SharedSet

LEMMA UnderIsTwoParts ==
    ASSUME NEW roots, roots \subseteq SourceRoots, NEW path \in Seq(PathPart)
    PROVE  UnderARoot(path, roots) <=>
               /\ Len(path) >= 2
               /\ \E root \in roots : path[1] = root[1] /\ path[2] = root[2]
  <1>1. \A root \in roots : Manifests!IsPrefix(root, path) <=>
               Len(path) >= 2 /\ path[1] = root[1] /\ path[2] = root[2]
    BY Roots, TwoParts
  <1>2. path = <<>> => Len(path) = 0
    OBVIOUS
  <1> QED
    BY <1>1, <1>2 DEF UnderARoot, Paths

LEMMA ARootIsUnder ==
    ASSUME NEW roots, roots \subseteq SourceRoots, NEW root \in roots
    PROVE  UnderARoot(root, roots)
  BY Roots, UnderIsTwoParts

(* What begins as a path under a root does is under it, too.               *)
LEMMA BelowTheRoot ==
    ASSUME NEW roots, roots \subseteq SourceRoots,
           NEW dir, UnderARoot(dir, roots), NEW path \in Seq(PathPart)
    PROVE  UnderARoot(dir \o path, roots)
  <1>1. dir \in Seq(PathPart)
    BY DEF UnderARoot, Paths
  <1>2. PICK root \in roots : Len(dir) >= 2 /\ dir[1] = root[1] /\ dir[2] = root[2]
    BY <1>1, UnderIsTwoParts
  <1>3. /\ dir \o path \in Seq(PathPart) /\ Len(dir \o path) >= 2
        /\ (dir \o path)[1] = dir[1] /\ (dir \o path)[2] = dir[2]
    BY <1>1, <1>2
  <1> QED
    BY <1>2, <1>3, UnderIsTwoParts

(* The directory that an uploaded archive was unpacked into.               *)
LEMMA UnpackedIsUnder ==
    ASSUME files \subseteq Paths, IsFiniteSet(files)
    PROVE  /\ \A dir \in Manifests!Unpacked : UnderARoot(dir, SinkRoots)
           /\ IsFiniteSet(Manifests!Unpacked)
  <1> DEFINE below == {g \in files : Manifests!Below(Manifests!UserData, g)}
             Cut(f) == SubSeq(f, 1, 3)
  <1>1. ASSUME NEW f \in below PROVE UnderARoot(Cut(f), SinkRoots)
    <2>1. f \in Seq(PathPart) /\ Manifests!UserData \in SourceRoots
      BY DEF Paths, SourceRoots, SinkRoots
    <2>2. /\ Manifests!UserData \in Seq(PathPart) /\ Len(Manifests!UserData) = 2
          /\ Len(f) >= 2 /\ f[1] = Manifests!UserData[1] /\ f[2] = Manifests!UserData[2]
          /\ f # Manifests!UserData
      BY <2>1, Roots, TwoParts DEF Manifests!Below, Manifests!IsStrictPrefix
    <2>3. Len(f) # 2
      <3>1. SUFFICES ASSUME Len(f) = 2 PROVE FALSE
        OBVIOUS
      <3>2. \A i \in 1 .. Len(f) : f[i] = Manifests!UserData[i]
        BY <2>2, <3>1
      <3> QED
        BY <2>1, <2>2, <3>1, <3>2, SeqEqual
    <2>4. /\ Cut(f) \in Seq(PathPart) /\ Len(Cut(f)) = 3
          /\ Cut(f)[1] = f[1] /\ Cut(f)[2] = f[2]
      <3>1. \A i \in 1 .. 3 : f[i] \in PathPart
        BY <2>1, <2>2, <2>3
      <3>2. /\ Cut(f) \in Seq(PathPart) /\ Len(Cut(f)) = 3
            /\ \A i \in 1 .. 3 : Cut(f)[i] = f[1 + i - 1]
        BY <3>1, SubSeqProperties
      <3> QED
        BY <3>2
    <2> HIDE DEF Cut
    <2>5. /\ SinkRoots \subseteq SourceRoots
          /\ \E root \in SinkRoots : Cut(f)[1] = root[1] /\ Cut(f)[2] = root[2]
      BY <2>2, <2>4 DEF SourceRoots, SinkRoots
    <2> QED
      BY <2>4, <2>5, UnderIsTwoParts
  <1>2. Manifests!Unpacked = {Cut(f) : f \in below} \ files
    BY DEF Manifests!Unpacked
  <1>3. IsFiniteSet({Cut(f) : f \in below})
    <2>1. IsFiniteSet(below)
      BY FS_Subset
    <2> HIDE DEF below, Cut
    <2> DEFINE image == [f \in below |-> Cut(f)]
    <2>2. image \in Surjection(below, {Cut(f) : f \in below})
      BY DEF Surjection
    <2> HIDE DEF image
    <2> QED
      BY <2>1, <2>2, FS_Surjection
  <1> HIDE DEF below, Cut
  <1> QED
    BY <1>1, <1>2, <1>3, FS_Subset

(* The parts of two sequences in a row.                                   *)
LEMMA TwoTogether ==
    ASSUME NEW All, NEW s \in Seq(All), NEW t \in Seq(All),
           NEW m \in Nat, NEW n \in Nat, m = Len(s), n = Len(t)
    PROVE  /\ s \o t \in Seq(All) /\ Len(s \o t) = m + n
           /\ \A i \in 1 .. m : (s \o t)[i] = s[i]
           /\ \A i \in 1 .. n : (s \o t)[m + i] = t[i]
  <1>1. /\ s \o t \in Seq(All) /\ Len(s \o t) = m + n
        /\ \A i \in 1 .. m + n : (s \o t)[i] = IF i <= m THEN s[i] ELSE t[i - m]
    BY ConcatProperties
  <1>2. \A i \in 1 .. m : i \in 1 .. m + n /\ i <= m
    OBVIOUS
  <1>3. \A i \in 1 .. n : m + i \in 1 .. m + n /\ ~(m + i <= m) /\ (m + i) - m = i
    OBVIOUS
  <1> QED
    BY <1>1, <1>2, <1>3

(* The directories that are looked in are the caller's and the shared set, *)
(* and that is among them when it holds a file.                            *)
LEMMA SearchedIsOwnOrShared ==
    ASSUME files \subseteq Paths, IsFiniteSet(files)
    PROVE  LET dirs == Manifests!LayerSearchDirs
           IN  /\ dirs \in Seq(Paths)
               /\ \A i \in DOMAIN dirs : UnderARoot(dirs[i], SinkRoots)
                                             \/ dirs[i] = Manifests!SharedSet
               /\ (\E f \in files : Manifests!Below(Manifests!SharedSet, f)) =>
                      \E i \in DOMAIN dirs : dirs[i] = Manifests!SharedSet
  <1> DEFINE Own == {dir \in Paths : UnderARoot(dir, SinkRoots)}
             shared == Manifests!SharedSet
             Dirs == Own \cup {shared}
             first == <<Manifests!Outputs, Manifests!UserData>>
             second == Manifests!SetToSeq(Manifests!Unpacked)
             one == IF \E f \in files : Manifests!Below(shared, f) THEN <<shared>> ELSE <<>>
             copy == Manifests!Outputs \o shared
             two == IF \E f \in files : Manifests!Below(copy, f) THEN <<copy>> ELSE <<>>
  <1>1. \A dir : UnderARoot(dir, SinkRoots) => dir \in Own
    BY DEF UnderARoot
  <1>2. Manifests!Outputs \in Own /\ Manifests!UserData \in Own
    BY ARootIsUnder DEF SourceRoots, SinkRoots, UnderARoot
  <1>3. copy \in Own
    <2>1. shared \in Seq(PathPart)
      BY Roots DEF SourceRoots
    <2>2. UnderARoot(copy, SinkRoots)
      BY <1>2, <2>1, BelowTheRoot DEF SourceRoots
    <2> QED
      BY <1>1, <2>2
  <1>4. second \in Seq(Own)
    <2> DEFINE all == Manifests!Unpacked
    <2>1. IsFiniteSet(all) /\ all \subseteq Own
      BY <1>1, UnpackedIsUnder
    <2> HIDE DEF all, Own
    <2>2. \E f \in [1 .. Cardinality(all) -> all] : Manifests!IsInjective(f)
      <3>1. Cardinality(all) \in Nat
        BY <2>1, FS_CardinalityType
      <3>2. PICK n \in Nat : ExistsBijection(1 .. n, all)
        BY <2>1, FS_NatBijection
      <3>3. Cardinality(all) = n
        BY <2>1, <3>2, FS_CountingElements
      <3>4. PICK f \in [1 .. n -> all] : \A i, j \in 1 .. n : f[i] = f[j] => i = j
        BY <3>2 DEF ExistsBijection, Bijection, Injection, IsInjective
      <3> QED
        BY <3>3, <3>4 DEF Manifests!IsInjective
    <2>3. Manifests!SetToSeq(all) \in [1 .. Cardinality(all) -> all]
      <3>1. Manifests!Cardinality(all) = Cardinality(all)
        BY Zenon DEF Manifests!Cardinality, Cardinality
      <3> QED
        BY <2>2, <3>1 DEF Manifests!SetToSeq
    <2>4. Cardinality(all) \in Nat
      BY <2>1, FS_CardinalityType
    <2>5. Manifests!SetToSeq(all) \in Seq(all)
      BY <2>3, <2>4
    <2> QED
      BY <2>1, <2>5, SeqMonotonic DEF all
  <1>5. Manifests!LayerSearchDirs = first \o second \o (one \o two)
    BY Zenon DEF Manifests!LayerSearchDirs, Manifests!NaturalEarthDirs
  <1>6. Own \subseteq Dirs /\ shared \in Dirs /\ copy \in Dirs
    BY <1>3
  <1>7. first \in Seq(Dirs) /\ second \in Seq(Dirs)
    <2>1. first \in Seq(Own)
      <3> HIDE DEF Own
      <3> QED
        BY <1>2
    <2> HIDE DEF Own, Dirs, first, second
    <2> QED
      BY <1>4, <1>6, <2>1, SeqMonotonic
  <1> HIDE DEF Own, Dirs
  <1>8. one \in Seq(Dirs) /\ two \in Seq(Dirs)
    <2>1. \A d \in Dirs : <<d>> \in Seq(Dirs)
      OBVIOUS
    <2> QED
      BY <1>6, <2>1, EmptySeq
  <1>9. PICK a, b, c, d : a = first /\ b = second /\ c = one /\ d = two
    OBVIOUS
  <1>10. /\ a \in Seq(Dirs) /\ b \in Seq(Dirs) /\ c \in Seq(Dirs) /\ d \in Seq(Dirs)
         /\ Manifests!LayerSearchDirs = a \o b \o (c \o d)
         /\ (\E f \in files : Manifests!Below(shared, f)) => c = <<shared>>
    BY <1>5, <1>7, <1>8, <1>9
  <1> HIDE DEF first, second, one, two, shared
  <1>11. PICK all : all = a \o b \o (c \o d)
    OBVIOUS
  <1>12. all \in Seq(Dirs) /\ (c = <<shared>> => \E i \in DOMAIN all : all[i] = shared)
    <2>1. PICK x, y : x = a \o b /\ y = c \o d
      OBVIOUS
    <2>2. /\ x \in Seq(Dirs) /\ y \in Seq(Dirs)
          /\ Len(x) \in Nat
      BY <1>10, <2>1, ConcatProperties
    <2>3. c = <<shared>> => Len(y) > 0 /\ y[1] = shared
      <3>1. SUFFICES ASSUME c = <<shared>> PROVE Len(y) > 0 /\ y[1] = shared
        OBVIOUS
      <3>2. Len(c) = 1 /\ c[1] = shared /\ Len(d) \in Nat
        BY <1>10, <3>1
      <3>3. Len(y) = 1 + Len(d) /\ y[1] = c[1]
        <4>1. PICK D : c \in Seq(D) /\ d \in Seq(D)
          BY <1>10
        <4>2. PICK k \in Nat, n \in Nat : k = Len(c) /\ n = Len(d)
          BY <4>1
        <4>3. Len(c \o d) = k + n /\ \A i \in 1 .. k : (c \o d)[i] = c[i]
          BY <4>1, <4>2, TwoTogether
        <4>4. k = 1
          BY <3>2, <4>2
        <4>5. Len(c \o d) = 1 + n /\ (c \o d)[1] = c[1]
          BY <4>3, <4>4
        <4> QED
          BY <2>1, <4>2, <4>5
      <3> QED
        BY <3>2, <3>3
    <2>4. /\ all \in Seq(Dirs) /\ Len(all) = Len(x) + Len(y)
          /\ \A i \in 1 .. Len(x) + Len(y) :
                 all[i] = IF i <= Len(x) THEN x[i] ELSE y[i - Len(x)]
      BY <1>11, <2>1, <2>2, ConcatProperties
    <2>5. PICK m \in Nat, n \in Nat : m = Len(x) /\ n = Len(y)
      BY <2>2
    <2>6. n > 0 => /\ m + 1 \in 1 .. m + n /\ ~(m + 1 <= m) /\ (m + 1) - m = 1
      OBVIOUS
    <2>7. n > 0 => m + 1 \in DOMAIN all /\ all[m + 1] = y[1]
      BY <2>4, <2>5, <2>6
    <2> QED
      BY <2>3, <2>4, <2>5, <2>7
  <1>13. \A i \in DOMAIN all : all[i] \in Dirs
    BY <1>12
  <1>14. all \in Seq(Paths)
    <2>1. Dirs \subseteq Paths
      BY ARootIsUnder DEF Dirs, Own, shared, SourceRoots, UnderARoot
    <2> QED
      BY <1>12, <2>1, SeqMonotonic
  <1> QED
    BY <1>10, <1>11, <1>12, <1>13, <1>14 DEF Dirs, Own, shared

LEMMA SearchedIsUnder ==
    ASSUME files \subseteq Paths, IsFiniteSet(files)
    PROVE  /\ Manifests!LayerSearchDirs \in Seq(Paths)
           /\ \A i \in DOMAIN Manifests!LayerSearchDirs :
                  UnderARoot(Manifests!LayerSearchDirs[i], SourceRoots)
  <1>1. UnderARoot(Manifests!SharedSet, SourceRoots)
    BY ARootIsUnder DEF SourceRoots
  <1>2. \A dir : UnderARoot(dir, SinkRoots) => UnderARoot(dir, SourceRoots)
    BY DEF UnderARoot, SourceRoots
  <1> QED
    BY <1>1, <1>2, SearchedIsOwnOrShared

(* What a model reads by a name, and what it writes by one.                *)
LEMMA InputIsUnder ==
    ASSUME files \subseteq Paths, IsFiniteSet(files), NEW path \in Paths
    PROVE  \/ Manifests!ToolInputPath(path) = Manifests!Refused
           \/ UnderARoot(Manifests!ToolInputPath(path), SourceRoots)
  <1> DEFINE dirs == Manifests!LayerSearchDirs
             Found(dir) == \/ dir \o path \in files
                           \/ dir \o <<Manifests!Last(path)>> \in files
             first == Manifests!SelectInSeq(dirs, LAMBDA dir : Found(dir))
             hits == {i \in 1 .. Len(dirs) : Found(dirs[i])}
  <1>1. CASE first = 0
    BY <1>1 DEF Manifests!ToolInputPath
  <1>2. CASE first # 0
    <2>1. hits # {} /\ first = Manifests!Min(hits)
      BY <1>2 DEF Manifests!SelectInSeq
    <2> HIDE DEF first
    <2>2. first \in hits
      <3>1. hits \in SUBSET Nat
        OBVIOUS
      <3> HIDE DEF hits
      <3>2. \E m \in hits : \A n \in hits : m =< n
        BY <2>1, <3>1, LeastNatural
      <3> QED
        BY <2>1, <3>2 DEF Manifests!Min
    <2>3. UnderARoot(dirs[first], SourceRoots)
      <3>1. first \in 1 .. Len(dirs)
        BY <2>2
      <3>2. dirs \in Seq(Paths)
        BY SearchedIsUnder
      <3>3. DOMAIN dirs = 1 .. Len(dirs)
        BY <3>2
      <3> QED
        BY <3>1, <3>3, SearchedIsUnder
    <2>4. Manifests!ToolInputPath(path) \in
              {dirs[first] \o path, dirs[first] \o <<Manifests!Last(path)>>}
      BY <1>2 DEF Manifests!ToolInputPath, first
    <2> HIDE DEF dirs
    <2>5. path \in Seq(PathPart) /\ <<Manifests!Last(path)>> \in Seq(PathPart)
      BY DEF Paths, Manifests!Last
    <2> QED
      BY <2>3, <2>4, <2>5, BelowTheRoot
  <1> QED
    BY <1>1, <1>2

LEMMA OutputIsUnder ==
    ASSUME NEW path \in Paths
    PROVE  \/ Manifests!ToolOutputPath(path) = Manifests!Refused
           \/ UnderARoot(Manifests!ToolOutputPath(path), SinkRoots)
  <1>1. UnderARoot(Manifests!Outputs, SinkRoots)
    BY ARootIsUnder DEF SourceRoots, SinkRoots
  <1>2. UnderARoot(Manifests!Outputs \o path, SinkRoots)
    BY <1>1, BelowTheRoot DEF SourceRoots, Paths
  <1> QED
    BY <1>2 DEF Manifests!ToolOutputPath

RootsOf(sink) == IF sink THEN SinkRoots ELSE SourceRoots

LEMMA ConfinedIsUnder ==
    ASSUME files \subseteq Paths, IsFiniteSet(files), NEW path \in Paths, NEW sink \in BOOLEAN
    PROVE  \/ Manifests!ConfinePath(path, sink) = Manifests!Refused
           \/ UnderARoot(Manifests!ConfinePath(path, sink), RootsOf(sink))
  <1> DEFINE confined == Manifests!ConfinePath(path, sink)
  <1>0. SinkRoots \subseteq RootsOf(sink) /\ RootsOf(sink) \subseteq SourceRoots
    BY DEF RootsOf, SourceRoots
  <1>1. path \in Seq(PathPart) /\ Len(path) >= 1 /\ Len(path) \in Nat
    BY DEF Paths
  <1>2. CASE confined = Tail(path) /\ \/ Manifests!IsPrefix(Manifests!Outputs, Tail(path))
                                      \/ Manifests!IsPrefix(Manifests!UserData, Tail(path))
    <2>1. Tail(path) \in Seq(PathPart)
      BY <1>1
    <2>2. \E root \in RootsOf(sink) : Manifests!IsPrefix(root, Tail(path))
      BY <1>0, <1>2 DEF SinkRoots
    <2>3. \A root \in RootsOf(sink) : Manifests!IsPrefix(root, Tail(path)) =>
              Len(Tail(path)) >= 2 /\ Tail(path)[1] = root[1] /\ Tail(path)[2] = root[2]
      BY <1>0, <2>1, Roots, TwoParts
    <2> QED
      BY <1>0, <1>2, <2>1, <2>2, <2>3, UnderIsTwoParts
  <1>3. CASE /\ path[1] \in {"outputs", "user_data"}
             /\ confined = Manifests!PrefixIntoCaller(path)
    <2>1. PICK root \in SinkRoots : root = <<path[1], Me>>
      BY <1>3 DEF SinkRoots, Manifests!Outputs, Manifests!UserData
    <2>2. UnderARoot(root, SinkRoots) /\ root[1] = path[1] /\ root[2] = Me
      BY <2>1, ARootIsUnder DEF SourceRoots
    <2>3. CASE Len(path) > 1 /\ path[2] = Me
      <3>1. confined = path
        BY <1>3, <2>3 DEF Manifests!PrefixIntoCaller
      <3>2. \E r \in RootsOf(sink) : path[1] = r[1] /\ path[2] = r[2]
        BY <1>0, <2>2, <2>3
      <3> QED
        BY <1>0, <1>1, <2>3, <3>1, <3>2, UnderIsTwoParts
    <2>4. CASE ~(Len(path) > 1 /\ path[2] = Me)
      <3>1. confined = root \o Tail(path)
        BY <1>3, <2>1, <2>4 DEF Manifests!PrefixIntoCaller
      <3>2. Tail(path) \in Seq(PathPart)
        BY <1>1
      <3>3. UnderARoot(root, RootsOf(sink))
        BY <1>0, <2>2 DEF UnderARoot
      <3> QED
        BY <1>0, <3>1, <3>2, <3>3, BelowTheRoot
    <2> QED
      BY <2>3, <2>4
  <1>4. CASE sink /\ confined = Manifests!ToolOutputPath(path)
    BY <1>4, OutputIsUnder DEF RootsOf
  <1>5. CASE ~sink /\ confined = Manifests!ToolInputPath(path)
    BY <1>5, InputIsUnder DEF RootsOf
  <1> QED
    BY <1>2, <1>3, <1>4, <1>5 DEF Manifests!ConfinePath

-----------------------------------------------------------------------------
(* WorkflowManifests: every text that a record is kept of is one whose     *)
(* paths are confined, and a plan with those paths has been shown; what is *)
(* posted has such a record.                                               *)

PathsUnder(entries, roots) ==
    \A i \in DOMAIN entries : entries[i].path = <<>> \/ UnderARoot(entries[i].path, roots)

Confined(t) ==
    /\ t \in ParsedManifest
    /\ PathsUnder(t.sources, SourceRoots) /\ PathsUnder(t.sinks, SinkRoots)

ShownAs(t) ==
    \E p \in shown : /\ p.datasets = Manifests!PathsOf(t.sources)
                     /\ p.outputs = Manifests!PathsOf(t.sinks)

FilesArePaths == files \subseteq Paths /\ IsFiniteSet(files)

ManifestsInv ==
    /\ FilesArePaths
    /\ \A t \in planRecords : Confined(t) /\ ShownAs(t)
    /\ \A p \in shown : p.manifest \in planRecords
    /\ posted \subseteq planRecords
    /\ report \subseteq wrote

(* What is made of the entries of one kind.                                *)
LEMMA EntriesConfined ==
    ASSUME FilesArePaths, NEW entries \in Seq(ManifestEntry), NEW sink \in BOOLEAN,
           \A i \in DOMAIN entries :
               Manifests!ConfineEntries(entries, sink)[i].path # Manifests!Refused
    PROVE  /\ Manifests!ConfineEntries(entries, sink) \in Seq(ManifestEntry)
           /\ PathsUnder(Manifests!ConfineEntries(entries, sink), RootsOf(sink))
  <1> DEFINE all == Manifests!ConfineEntries(entries, sink)
  <1>1. Len(entries) \in Nat /\ DOMAIN entries = 1 .. Len(entries) /\ DOMAIN all = DOMAIN entries
    BY DEF Manifests!ConfineEntries
  <1>2. ASSUME NEW i \in DOMAIN entries
        PROVE  /\ all[i] \in ManifestEntry
               /\ all[i].path = <<>> \/ UnderARoot(all[i].path, RootsOf(sink))
    <2>1. PICK e : e = entries[i]
      OBVIOUS
    <2>2. e \in ManifestEntry
      BY <1>1, <2>1
    <2>3. CASE e.path = <<>>
      BY <2>1, <2>2, <2>3 DEF Manifests!ConfineEntries
    <2>4. CASE e.path # <<>>
      <3>1. e.path \in Paths
        BY <2>2, <2>4 DEF ManifestEntry, Paths
      <3>2. PICK c : c = Manifests!ConfinePath(e.path, sink)
        OBVIOUS
      <3>3. all[i] = [e EXCEPT !.path = c]
        BY <2>1, <2>4, <3>2 DEF Manifests!ConfineEntries
      <3>4. all[i].path = c
        BY <2>2, <3>3 DEF ManifestEntry
      <3>5. UnderARoot(c, RootsOf(sink))
        BY <3>1, <3>2, <3>4, ConfinedIsUnder DEF FilesArePaths
      <3>6. c \in Seq(PathPart)
        BY <3>5 DEF UnderARoot, Paths
      <3>7. all[i] \in ManifestEntry
        BY <2>2, <3>3, <3>6 DEF ManifestEntry
      <3> QED
        BY <3>4, <3>5, <3>7
    <2> QED
      BY <2>3, <2>4
  <1>3. PICK n \in Nat : n = Len(entries)
    BY <1>1
  <1>4. all \in [1 .. n -> ManifestEntry]
    <2>1. all = [i \in DOMAIN entries |-> all[i]]
      BY DEF Manifests!ConfineEntries
    <2> HIDE DEF all
    <2> QED
      BY <1>1, <1>2, <1>3, <2>1
  <1> HIDE DEF all
  <1>5. all \in Seq(ManifestEntry)
    BY <1>3, <1>4
  <1> QED
    BY <1>1, <1>2, <1>5 DEF all, PathsUnder

LEMMA ManifestConfined ==
    ASSUME FilesArePaths, NEW m \in ParsedManifest,
           Manifests!ConfineManifest(m) # Manifests!Refused
    PROVE  /\ Confined(Manifests!ConfineManifest(m))
           /\ Manifests!ConfineManifest(m).sources = Manifests!ConfinedEntries(m).sources
           /\ Manifests!ConfineManifest(m).sinks = Manifests!ConfinedEntries(m).sinks
           /\ Manifests!ConfinedEntries(m) \in ParsedManifest
  <1> DEFINE confined == Manifests!ConfinedEntries(m)
             text == [m EXCEPT !.sources = Manifests!Rewritten(@, confined.sources),
                               !.sinks = Manifests!Rewritten(@, confined.sinks)]
             one == Manifests!ConfineEntries(m.sources, FALSE)
             two == Manifests!ConfineEntries(m.sinks, TRUE)
  <1>1. confined = [m EXCEPT !.sources = one, !.sinks = two]
    BY DEF Manifests!ConfinedEntries
  <1>2. /\ \A i \in DOMAIN (confined.sources \o confined.sinks) :
               (confined.sources \o confined.sinks)[i].path # Manifests!Refused
        /\ Manifests!PathsWereRewritten(text, confined)
        /\ Manifests!ConfineManifest(m) = text
    BY DEF Manifests!ConfineManifest
  <1>3. /\ m.sources \in Seq(ManifestEntry) /\ m.sinks \in Seq(ManifestEntry)
        /\ m.transforms \in Seq([name : STRING, input : STRING])
        /\ m = [sources |-> m.sources, transforms |-> m.transforms, sinks |-> m.sinks]
    BY DEF ParsedManifest
  <1> HIDE DEF confined, one, two
  <1>4. /\ confined.sources = one /\ confined.sinks = two
        /\ confined.transforms = m.transforms
        /\ confined = [sources |-> one, transforms |-> m.transforms, sinks |-> two]
    BY <1>1, <1>3
  <1>5. text.sources = one /\ text.sinks = two
    BY <1>2, <1>4 DEF Manifests!PathsWereRewritten
  <1>6. text = [sources |-> text.sources, transforms |-> m.transforms, sinks |-> text.sinks]
    <2>1. PICK a, b : /\ a = Manifests!Rewritten(m.sources, confined.sources)
                      /\ b = Manifests!Rewritten(m.sinks, confined.sinks)
      OBVIOUS
    <2>2. text = [m EXCEPT !.sources = a, !.sinks = b]
      BY <2>1
    <2> HIDE DEF text
    <2>3. PICK s, u, v : m = [sources |-> s, transforms |-> u, sinks |-> v]
      BY <1>3
    <2>4. text = [sources |-> a, transforms |-> u, sinks |-> b]
      BY <2>2, <2>3
    <2> QED
      BY <2>3, <2>4
  <1> HIDE DEF text
  <1>7. /\ \A i \in DOMAIN m.sources : one[i].path # Manifests!Refused
        /\ \A i \in DOMAIN m.sinks : two[i].path # Manifests!Refused
    <2> DEFINE All == {one[i] : i \in DOMAIN one} \cup {two[i] : i \in DOMAIN two}
    <2>1. /\ Len(m.sources) \in Nat /\ DOMAIN m.sources = 1 .. Len(m.sources)
          /\ Len(m.sinks) \in Nat /\ DOMAIN m.sinks = 1 .. Len(m.sinks)
      BY <1>3
    <2>2. PICK j \in Nat, k \in Nat : j = Len(m.sources) /\ k = Len(m.sinks)
      BY <2>1
    <2>3. /\ DOMAIN one = 1 .. j /\ one = [i \in 1 .. j |-> one[i]]
          /\ DOMAIN two = 1 .. k /\ two = [i \in 1 .. k |-> two[i]]
      BY <2>1, <2>2 DEF one, two, Manifests!ConfineEntries
    <2>4. one \in [1 .. j -> All] /\ two \in [1 .. k -> All]
      BY <2>3
    <2> HIDE DEF All
    <2>5. one \in Seq(All) /\ two \in Seq(All) /\ Len(one) = j /\ Len(two) = k
      BY <2>3, <2>4
    <2>6. /\ DOMAIN (one \o two) = 1 .. j + k
          /\ \A i \in 1 .. j : (one \o two)[i] = one[i]
          /\ \A i \in 1 .. k : (one \o two)[j + i] = two[i]
      BY <2>5
    <2>7. \A i \in 1 .. j + k : (one \o two)[i].path # Manifests!Refused
      BY <1>2, <1>4, <2>6
    <2>8. \A i \in 1 .. j : one[i].path # Manifests!Refused
      BY <2>6, <2>7
    <2>9. ASSUME NEW i \in 1 .. k PROVE two[i].path # Manifests!Refused
      <3>1. j + i \in 1 .. j + k
        OBVIOUS
      <3> QED
        BY <2>6, <2>7, <3>1
    <2> QED
      BY <2>1, <2>2, <2>8, <2>9
  <1>8. /\ one \in Seq(ManifestEntry) /\ PathsUnder(one, SourceRoots)
        /\ two \in Seq(ManifestEntry) /\ PathsUnder(two, SinkRoots)
    BY <1>3, <1>7, EntriesConfined DEF one, two, RootsOf
  <1>9. text \in ParsedManifest /\ confined \in ParsedManifest
    BY <1>3, <1>4, <1>5, <1>6, <1>8 DEF ParsedManifest
  <1> QED
    BY <1>2, <1>4, <1>5, <1>8, <1>9 DEF confined, Confined

(* The datasets and the outputs of a plan, in whatever order its steps are *)
(* listed, are the paths of what was confined.                             *)
PathsOfKind(steps, kind) ==
    {steps[i].path : i \in {j \in DOMAIN steps : steps[j].kind = kind}}

LEMMA StepsOfAManifest ==
    ASSUME NEW m \in ParsedManifest
    PROVE  LET steps == Manifests!ManifestSteps(m)
           IN /\ PathsOfKind(steps, "source") = {e.path : e \in Manifests!ToSet(m.sources)}
              /\ PathsOfKind(steps, "sink") = {e.path : e \in Manifests!ToSet(m.sinks)}
              /\ \A e \in Manifests!ToSet(m.sinks) : e.name \in Manifests!Names(steps)
              /\ \E All : steps \in Seq(All)
  <1> DEFINE Of(entries, kind) ==
                 [i \in DOMAIN entries |->
                     [kind |-> kind, name |-> entries[i].name, input |-> entries[i].input,
                      path |-> IF kind = "transform" THEN <<>> ELSE entries[i].path]]
             one == Of(m.sources, "source")
             two == Of(m.transforms, "transform")
             three == Of(m.sinks, "sink")
             All == {one[i] : i \in DOMAIN one} \cup {two[i] : i \in DOMAIN two}
                        \cup {three[i] : i \in DOMAIN three}
  <1>1. /\ m.sources \in Seq(ManifestEntry) /\ m.sinks \in Seq(ManifestEntry)
        /\ m.transforms \in Seq([name : STRING, input : STRING])
    BY DEF ParsedManifest
  <1>2. PICK j \in Nat, k \in Nat, n \in Nat :
            j = Len(m.sources) /\ k = Len(m.transforms) /\ n = Len(m.sinks)
    BY <1>1
  <1>3. /\ DOMAIN m.sources = 1 .. j /\ DOMAIN m.transforms = 1 .. k /\ DOMAIN m.sinks = 1 .. n
    BY <1>1, <1>2
  <1>4. /\ \A i \in 1 .. j : one[i].kind = "source" /\ one[i].path = m.sources[i].path
        /\ \A i \in 1 .. k : two[i].kind = "transform"
        /\ \A i \in 1 .. n : /\ three[i].kind = "sink" /\ three[i].path = m.sinks[i].path
                             /\ three[i].name = m.sinks[i].name
    BY <1>3
  <1>5. /\ one = [i \in 1 .. j |-> one[i]] /\ two = [i \in 1 .. k |-> two[i]]
        /\ three = [i \in 1 .. n |-> three[i]]
    BY <1>3
  <1>6. Manifests!ManifestSteps(m) = one \o two \o three
    BY DEF Manifests!ManifestSteps
  <1> HIDE DEF one, two, three
  <1>7. one \in [1 .. j -> All] /\ two \in [1 .. k -> All] /\ three \in [1 .. n -> All]
    BY <1>5
  <1> HIDE DEF All
  <1>8. /\ one \in Seq(All) /\ two \in Seq(All) /\ three \in Seq(All)
        /\ Len(one) = j /\ Len(two) = k /\ Len(three) = n
    BY <1>7
  <1>9. PICK h \in Nat : h = j + k
    OBVIOUS
  <1>10. /\ \A i \in 1 .. k : j + i \in 1 .. h /\ ~(j + i =< j) /\ (j + i) - j = i
         /\ \A i \in 1 .. j : i \in 1 .. h
         /\ \A i \in 1 .. n : h + i \in 1 .. h + n /\ ~(h + i =< h) /\ (h + i) - h = i
         /\ \A i \in 1 .. h : i \in 1 .. h + n
         /\ \A i \in 1 .. h : i \in 1 .. j \/ \E l \in 1 .. k : i = j + l
         /\ \A i \in 1 .. h + n : i \in 1 .. h \/ \E l \in 1 .. n : i = h + l
    <2>1. ASSUME NEW i \in 1 .. h PROVE i \in 1 .. j \/ \E l \in 1 .. k : i = j + l
      <3>1. i \in 1 .. j \/ (i - j \in 1 .. k /\ i = j + (i - j))
        BY <1>9
      <3> QED
        BY <3>1
    <2>2. ASSUME NEW i \in 1 .. h + n PROVE i \in 1 .. h \/ \E l \in 1 .. n : i = h + l
      <3>1. i \in 1 .. h \/ (i - h \in 1 .. n /\ i = h + (i - h))
        OBVIOUS
      <3> QED
        BY <3>1
    <2> QED
      BY <1>9, <2>1, <2>2
  <1>11. PICK both : both = one \o two
    OBVIOUS
  <1>12. /\ both \in Seq(All) /\ Len(both) = h
         /\ \A i \in 1 .. h : both[i] = IF i =< j THEN one[i] ELSE two[i - j]
    BY <1>8, <1>9, <1>11, ConcatProperties
  <1>13. PICK steps : steps = both \o three
    OBVIOUS
  <1>14. /\ steps \in Seq(All) /\ Len(steps) = h + n
         /\ \A i \in 1 .. h + n :
                steps[i] = IF i =< h THEN both[i] ELSE three[i - h]
    BY <1>8, <1>12, <1>13, ConcatProperties
  <1>15. DOMAIN steps = 1 .. h + n
    BY <1>14
  <1>16. Manifests!ManifestSteps(m) = steps
    BY <1>6, <1>11, <1>13
  <1>17. /\ \A i \in 1 .. j : i \in 1 .. h + n /\ steps[i] = one[i]
         /\ \A i \in 1 .. k : j + i \in 1 .. h + n /\ steps[j + i] = two[i]
         /\ \A i \in 1 .. n : h + i \in 1 .. h + n /\ steps[h + i] = three[i]
    <2>1. \A i \in 1 .. h : i =< h
      OBVIOUS
    <2>2. \A i \in 1 .. j : i =< j
      OBVIOUS
    <2>3. \A i \in 1 .. h : steps[i] = both[i]
      BY <1>10, <1>14, <2>1
    <2>4. \A i \in 1 .. j : i \in 1 .. h + n /\ steps[i] = one[i]
      BY <1>10, <1>12, <2>2, <2>3
    <2>5. \A i \in 1 .. k : j + i \in 1 .. h + n /\ steps[j + i] = two[i]
      <3>1. ASSUME NEW i \in 1 .. k PROVE both[j + i] = two[i]
        BY <1>10, <1>12
      <3> QED
        BY <1>10, <2>3, <3>1
    <2>6. \A i \in 1 .. n : h + i \in 1 .. h + n /\ steps[h + i] = three[i]
      BY <1>10, <1>14
    <2> QED
      BY <2>4, <2>5, <2>6
  <1>18. \A i \in 1 .. h + n :
             \/ i \in 1 .. j
             \/ \E l \in 1 .. k : i = j + l
             \/ \E l \in 1 .. n : i = h + l
    BY <1>10
  <1>19. /\ \A i \in 1 .. h + n : steps[i].kind = "source" =>
                \E l \in 1 .. j : steps[i].path = m.sources[l].path
         /\ \A i \in 1 .. h + n : steps[i].kind = "sink" =>
                \E l \in 1 .. n : steps[i].path = m.sinks[l].path
    <2>1. ASSUME NEW i \in 1 .. h + n
          PROVE  /\ steps[i].kind = "source" =>
                        \E l \in 1 .. j : steps[i].path = m.sources[l].path
                 /\ steps[i].kind = "sink" =>
                        \E l \in 1 .. n : steps[i].path = m.sinks[l].path
      <3>1. CASE i \in 1 .. j
        BY <1>4, <1>17, <3>1
      <3>2. ASSUME NEW l \in 1 .. k, i = j + l PROVE steps[i].kind = "transform"
        BY <1>4, <1>17, <3>2
      <3>3. ASSUME NEW l \in 1 .. n, i = h + l
            PROVE  steps[i].kind = "sink" /\ steps[i].path = m.sinks[l].path
        BY <1>4, <1>17, <3>3
      <3> QED
        BY <1>18, <3>1, <3>2, <3>3
    <2> QED
      BY <2>1
  <1>20. PathsOfKind(steps, "source") = {e.path : e \in Manifests!ToSet(m.sources)}
    <2>1. \A l \in 1 .. j : \E i \in 1 .. h + n :
              steps[i].kind = "source" /\ steps[i].path = m.sources[l].path
      BY <1>4, <1>17
    <2>2. {e.path : e \in Manifests!ToSet(m.sources)} = {m.sources[l].path : l \in 1 .. j}
      BY <1>3 DEF Manifests!ToSet
    <2>3. PathsOfKind(steps, "source") = {m.sources[l].path : l \in 1 .. j}
      <3>1. ASSUME NEW path \in PathsOfKind(steps, "source")
            PROVE  \E l \in 1 .. j : path = m.sources[l].path
        <4>1. PICK i \in 1 .. h + n : steps[i].kind = "source" /\ path = steps[i].path
          BY <1>15 DEF PathsOfKind
        <4> QED
          BY <1>19, <4>1
      <3>2. ASSUME NEW l \in 1 .. j PROVE m.sources[l].path \in PathsOfKind(steps, "source")
        <4>1. PICK i \in 1 .. h + n : steps[i].kind = "source" /\ steps[i].path = m.sources[l].path
          BY <2>1
        <4> QED
          BY <1>15, <4>1 DEF PathsOfKind
      <3> QED
        BY <3>1, <3>2
    <2> QED
      BY <2>2, <2>3
  <1>21. PathsOfKind(steps, "sink") = {e.path : e \in Manifests!ToSet(m.sinks)}
    <2>1. \A l \in 1 .. n : \E i \in 1 .. h + n :
              steps[i].kind = "sink" /\ steps[i].path = m.sinks[l].path
      BY <1>4, <1>17
    <2>2. {e.path : e \in Manifests!ToSet(m.sinks)} = {m.sinks[l].path : l \in 1 .. n}
      BY <1>3 DEF Manifests!ToSet
    <2>3. PathsOfKind(steps, "sink") = {m.sinks[l].path : l \in 1 .. n}
      <3>1. ASSUME NEW path \in PathsOfKind(steps, "sink")
            PROVE  \E l \in 1 .. n : path = m.sinks[l].path
        <4>1. PICK i \in 1 .. h + n : steps[i].kind = "sink" /\ path = steps[i].path
          BY <1>15 DEF PathsOfKind
        <4> QED
          BY <1>19, <4>1
      <3>2. ASSUME NEW l \in 1 .. n PROVE m.sinks[l].path \in PathsOfKind(steps, "sink")
        <4>1. PICK i \in 1 .. h + n : steps[i].kind = "sink" /\ steps[i].path = m.sinks[l].path
          BY <2>1
        <4> QED
          BY <1>15, <4>1 DEF PathsOfKind
      <3> QED
        BY <3>1, <3>2
    <2> QED
      BY <2>2, <2>3
  <1>22. \A e \in Manifests!ToSet(m.sinks) : e.name \in Manifests!Names(steps)
    <2>1. \A l \in 1 .. n : \E i \in 1 .. h + n : steps[i].name = m.sinks[l].name
      BY <1>4, <1>17
    <2> QED
      BY <1>3, <1>15, <2>1 DEF Manifests!ToSet, Manifests!Names
  <1>23. \E all : steps \in Seq(all)
    BY <1>14
  <1> QED
    BY <1>16, <1>20, <1>21, <1>22, <1>23

-----------------------------------------------------------------------------
(* The steps.                                                              *)

LEMMA ManifestsInitially == Manifests!Init => ManifestsInv
  <1> SUFFICES ASSUME Manifests!Init PROVE ManifestsInv
    OBVIOUS
  <1>1. FilesArePaths
    BY AgentAssumption, FS_Subset DEF Manifests!Init, FilesArePaths, Paths
  <1> QED
    BY <1>1 DEF Manifests!Init, ManifestsInv

(* A stable sort lists the steps that it was given.                        *)
LEMMA SortedPaths ==
    ASSUME NEW steps, NEW order, NEW listed \in Manifests!OrderSteps(steps, order), NEW kind
    PROVE  PathsOfKind(listed, kind) = PathsOfKind(steps, kind)
  <1>1. CASE listed = steps
    BY <1>1
  <1>2. ASSUME NEW p \in Manifests!Bijection(DOMAIN steps, DOMAIN steps),
               listed = [i \in DOMAIN steps |-> steps[p[i]]]
        PROVE  PathsOfKind(listed, kind) = PathsOfKind(steps, kind)
    <2> DEFINE after == PathsOfKind(listed, kind)
               before == PathsOfKind(steps, kind)
    <2>1. /\ p \in [DOMAIN steps -> DOMAIN steps]
          /\ \A i \in DOMAIN steps : \E j \in DOMAIN steps : p[j] = i
      BY DEF Manifests!Bijection, Manifests!Surjection
    <2>2. DOMAIN listed = DOMAIN steps /\ \A i \in DOMAIN steps : listed[i] = steps[p[i]]
      BY <1>2
    <2>3. ASSUME NEW path \in after PROVE path \in before
      <3>1. PICK i \in DOMAIN listed : listed[i].kind = kind /\ path = listed[i].path
        BY DEF PathsOfKind
      <3> QED
        BY <2>1, <2>2, <3>1 DEF PathsOfKind
    <2>4. ASSUME NEW path \in before PROVE path \in after
      <3>1. PICK i \in DOMAIN steps : steps[i].kind = kind /\ path = steps[i].path
        BY DEF PathsOfKind
      <3>2. PICK j \in DOMAIN steps : p[j] = i
        BY <2>1
      <3> QED
        BY <2>2, <3>1, <3>2 DEF PathsOfKind
    <2> HIDE DEF after, before
    <2>5. after = before
      BY <2>3, <2>4
    <2> QED
      BY <2>5 DEF after, before
  <1>3. listed = steps \/ \E p \in Manifests!Bijection(DOMAIN steps, DOMAIN steps) :
                              listed = [i \in DOMAIN steps |-> steps[p[i]]]
    BY DEF Manifests!OrderSteps
  <1> QED
    BY <1>1, <1>2, <1>3

LEMMA PlanKeeps ==
    ASSUME ManifestsInv, NEW m \in WrittenManifests, Manifests!PlanWorkflow(m)
    PROVE  ManifestsInv'
  <1> DEFINE text == Manifests!ConfineManifest(m)
             confined == Manifests!ConfinedEntries(m)
             steps == Manifests!ManifestSteps(confined)
  <1>1. /\ text # Manifests!Refused
        /\ planRecords' = planRecords \cup {text}
        /\ \E order \in Manifests!Orders(steps) : \E listed \in Manifests!OrderSteps(steps, order) :
               shown' = shown \cup {Manifests!PlanPayload(text, listed, order)}
        /\ files' = files /\ posted' = posted /\ wrote' = wrote /\ report' = report
    BY DEF Manifests!PlanWorkflow, Manifests!Digest
  <1>2. PICK order \in Manifests!Orders(steps) : \E listed \in Manifests!OrderSteps(steps, order) :
            shown' = shown \cup {Manifests!PlanPayload(text, listed, order)}
    BY <1>1
  <1>3. PICK listed \in Manifests!OrderSteps(steps, order) :
             shown' = shown \cup {Manifests!PlanPayload(text, listed, order)}
    BY <1>2
  <1>4. /\ Confined(text) /\ confined \in ParsedManifest
        /\ text.sources = confined.sources /\ text.sinks = confined.sinks
    <2>1. m \in ParsedManifest
      BY AgentAssumption
    <2> QED
      BY <1>1, <2>1, ManifestConfined DEF ManifestsInv
  <1> DEFINE payload == Manifests!PlanPayload(text, listed, order)
  <1>5. /\ payload.manifest = text
        /\ payload.datasets = Manifests!PathsOf(text.sources)
        /\ payload.outputs = Manifests!PathsOf(text.sinks)
    <2>1. /\ PathsOfKind(listed, "source") = PathsOfKind(steps, "source")
          /\ PathsOfKind(listed, "sink") = PathsOfKind(steps, "sink")
      <3> HIDE DEF steps
      <3> QED
        BY SortedPaths
    <2>2. /\ PathsOfKind(steps, "source") = {e.path : e \in Manifests!ToSet(text.sources)}
          /\ PathsOfKind(steps, "sink") = {e.path : e \in Manifests!ToSet(text.sinks)}
      BY <1>4, StepsOfAManifest
    <2>3. /\ payload.manifest = text
          /\ payload.datasets = PathsOfKind(listed, "source") \ {<<>>}
          /\ payload.outputs = PathsOfKind(listed, "sink") \ {<<>>}
      BY DEF Manifests!PlanPayload, PathsOfKind
    <2> HIDE DEF payload, text
    <2> QED
      BY <2>1, <2>2, <2>3 DEF Manifests!PathsOf
  <1> HIDE DEF payload, text, confined, steps
  <1>6. shown' = shown \cup {payload}
    BY <1>3 DEF payload
  <1>7. ASSUME NEW t \in planRecords' PROVE Confined(t) /\ ShownAs(t)'
    <2>1. CASE t = text
      BY <1>4, <1>5, <1>6, <2>1 DEF ShownAs
    <2>2. CASE t \in planRecords
      BY <1>6, <2>2 DEF ManifestsInv, ShownAs
    <2> QED
      BY <1>1, <2>1, <2>2
  <1>8. \A p \in shown' : p.manifest \in planRecords'
    BY <1>1, <1>5, <1>6 DEF ManifestsInv
  <1> QED
    BY <1>1, <1>7, <1>8 DEF ManifestsInv, FilesArePaths, Confined, PathsUnder, UnderARoot

LEMMA ApproveKeeps ==
    ASSUME ManifestsInv, NEW m, Manifests!ApproveWorkflow(m)
    PROVE  ManifestsInv'
  BY DEF ManifestsInv, Manifests!ApproveWorkflow, FilesArePaths, Confined, PathsUnder, UnderARoot,
         ShownAs

(* What a run wrote are sinks of what it was given, and what it reports is *)
(* a sink of it that was written.                                          *)
LEMMA RunKeeps ==
    ASSUME ManifestsInv, NEW m \in ParsedManifest, Manifests!RunWorkflow(m)
    PROVE  ManifestsInv'
  <1> DEFINE text == Manifests!ConfineManifest(m)
  <1>1. PICK record \in Manifests!Records(text) :
            /\ wrote' = Manifests!SinkPaths(text, record.done)
            /\ \/ report' = {e.path : e \in {s \in Manifests!ToSet(text.sinks) :
                                        s.path # <<>> /\ Manifests!Written(record, s)}}
               \/ report' = {}
    BY DEF Manifests!RunWorkflow
  <1>2. /\ text # Manifests!Refused /\ text \in planRecords /\ posted' = {text}
        /\ files' = files \cup wrote' /\ planRecords' = planRecords /\ shown' = shown
    BY DEF Manifests!RunWorkflow, Manifests!Digest
  <1> HIDE DEF text
  <1>3. Confined(text) /\ text \in ParsedManifest
    BY <1>2 DEF ManifestsInv, Confined
  <1>4. PICK sinks \in Seq(ManifestEntry) : sinks = text.sinks
    BY <1>3 DEF ParsedManifest
  <1>5. PICK n \in Nat : n = Len(sinks) /\ DOMAIN sinks = 1 .. n
    BY <1>4
  <1>6. wrote' \subseteq Paths
    BY <1>1, <1>3, <1>4 DEF Manifests!SinkPaths, Manifests!ToSet, Confined, PathsUnder, UnderARoot
  <1>7. IsFiniteSet(wrote')
    <2> DEFINE all == {sinks[i].path : i \in 1 .. n}
               image == [i \in 1 .. n |-> sinks[i].path]
    <2>1. image \in Surjection(1 .. n, all)
      BY DEF Surjection
    <2>2. IsFiniteSet(1 .. n)
      BY FS_Interval
    <2>3. IsFiniteSet(all)
      BY <2>1, <2>2, FS_Surjection
    <2>4. wrote' \subseteq all
      BY <1>1, <1>4, <1>5 DEF Manifests!SinkPaths, Manifests!ToSet
    <2> QED
      BY <2>3, <2>4, FS_Subset
  <1>8. report' \subseteq wrote'
    <2>1. SUFFICES ASSUME NEW s \in Manifests!ToSet(text.sinks), s.path # <<>>,
                          Manifests!Written(record, s)
                   PROVE  s.name \in record.done
      BY <1>1 DEF Manifests!SinkPaths
    <2>2. record.completed => record.done = Manifests!Names(Manifests!ManifestSteps(text))
      <3> DEFINE all == Manifests!Names(Manifests!ManifestSteps(text))
      <3>1. PICK done, listed :
                record = [done |-> done, completed |-> (done = all), steps |-> listed]
        BY DEF Manifests!Records
      <3> HIDE DEF all
      <3>2. record.done = done /\ record.completed = (done = all)
        BY <3>1, Zenon
      <3> QED
        BY <3>2 DEF all
    <2>3. s.name \in Manifests!Names(Manifests!ManifestSteps(text))
      BY <1>3, <2>1, StepsOfAManifest
    <2> QED
      BY <2>1, <2>2, <2>3 DEF Manifests!Written
  <1>9. FilesArePaths'
    BY <1>2, <1>6, <1>7, FS_Union DEF ManifestsInv, FilesArePaths, Paths
  <1>10. \A t \in planRecords' : Confined(t)' /\ ShownAs(t)'
    BY <1>2 DEF ManifestsInv, Confined, PathsUnder, UnderARoot, ShownAs
  <1> QED
    BY <1>2, <1>8, <1>9, <1>10 DEF ManifestsInv

LEMMA FilesMoveKeeps ==
    ASSUME ManifestsInv, NEW path \in CoastPlaces,
           Manifests!FileAppears(path) \/ Manifests!FileGoes(path)
    PROVE  ManifestsInv'
  <1>1. path \in Paths
    BY AgentAssumption DEF Paths
  <1>2. FilesArePaths'
    BY <1>1, FS_AddElement, FS_RemoveElement
       DEF ManifestsInv, FilesArePaths, Paths, Manifests!FileAppears, Manifests!FileGoes
  <1>3. \A t \in planRecords' : Confined(t)' /\ ShownAs(t)'
    BY DEF ManifestsInv, Confined, PathsUnder, UnderARoot, ShownAs,
           Manifests!FileAppears, Manifests!FileGoes
  <1> QED
    BY <1>2, <1>3 DEF ManifestsInv, Manifests!FileAppears, Manifests!FileGoes

LEMMA ManifestsInvariance ==
    ASSUME ManifestsInv, [Manifests!Next]_manifestVars
    PROVE  ManifestsInv'
  <1>1. ASSUME NEW m \in WrittenManifests, Manifests!PlanWorkflow(m) PROVE ManifestsInv'
    BY <1>1, PlanKeeps
  <1>2. ASSUME NEW m \in WrittenManifests, Manifests!RunWorkflow(m) PROVE ManifestsInv'
    BY <1>2, RunKeeps, AgentAssumption
  <1>3. ASSUME NEW p \in shown, Manifests!ApproveWorkflow(p.manifest) PROVE ManifestsInv'
    BY <1>3, ApproveKeeps
  <1>4. ASSUME NEW p \in shown, Manifests!RunWorkflow(p.manifest) PROVE ManifestsInv'
    <2>1. p.manifest \in ParsedManifest
      BY DEF ManifestsInv, Confined
    <2> QED
      BY <1>4, <2>1, RunKeeps
  <1>5. ASSUME NEW path \in CoastPlaces,
               Manifests!FileAppears(path) \/ Manifests!FileGoes(path)
        PROVE  ManifestsInv'
    BY <1>5, FilesMoveKeeps
  <1>6. CASE UNCHANGED manifestVars
    <2>1. \A t : (Confined(t)' <=> Confined(t)) /\ (ShownAs(t)' <=> ShownAs(t))
      BY <1>6 DEF manifestVars, Confined, PathsUnder, UnderARoot, ShownAs
    <2> QED
      BY <1>6, <2>1 DEF manifestVars, ManifestsInv, FilesArePaths
  <1> QED
    BY <1>1, <1>2, <1>3, <1>4, <1>5, <1>6 DEF Manifests!Next

LEMMA RunsPromised == ManifestsInv => Manifests!RunsAsShown
  <1> SUFFICES ASSUME ManifestsInv, NEW text \in posted
               PROVE  /\ \E p \in shown : /\ p.datasets = Manifests!PathsOf(text.sources)
                                          /\ p.outputs = Manifests!PathsOf(text.sinks)
                      /\ \A path \in Manifests!PathsOf(text.sources) :
                             \E root \in SourceRoots : Manifests!IsPrefix(root, path)
                      /\ \A path \in Manifests!PathsOf(text.sinks) :
                             \E root \in SinkRoots : Manifests!IsPrefix(root, path)
    BY DEF Manifests!RunsAsShown, ManifestsInv, SourceRoots, SinkRoots
  <1>1. Confined(text) /\ ShownAs(text)
    BY DEF ManifestsInv
  <1> QED
    BY <1>1 DEF Confined, ShownAs, PathsUnder, UnderARoot, Manifests!PathsOf, Manifests!ToSet

-----------------------------------------------------------------------------
(* A plan in geodukt's order lists no step before what it reads.           *)
LEMMA OrderedAsReported ==
    ASSUME NEW All, NEW steps \in Seq(All), steps # <<>>,
           NEW order \in Manifests!Orders(steps),
           NEW listed \in Manifests!OrderSteps(steps, order),
           Manifests!Names(listed) \subseteq Manifests!ToSet(order)
    PROVE  \A i, j \in DOMAIN listed : listed[i].input = listed[j].name => j < i
  <1> DEFINE names == Manifests!Names(steps)
             n == Len(steps)
             m == Cardinality(names)
             Rank(i) == Manifests!SelectInSeq(order, LAMBDA name : name = steps[i].name)
             Sorts(p) == \A i, j \in DOMAIN steps :
                             i < j => \/ Rank(p[i]) < Rank(p[j])
                                      \/ Rank(p[i]) = Rank(p[j]) /\ p[i] < p[j]
             Inputs(s) == \A i, j \in DOMAIN s : \A k \in DOMAIN steps :
                              steps[k].name = s[i] /\ steps[k].input = s[j] => j < i
             full == {s \in Manifests!SetToSeqs(names) : Inputs(s)}
  <1>1. DOMAIN steps = 1 .. n /\ n \in Nat /\ n > 0
    OBVIOUS
  <1>2. names = {steps[i].name : i \in 1 .. n}
    BY <1>1 DEF Manifests!Names
  <1>3. IsFiniteSet(names) /\ m \in Nat
    <2> DEFINE image == [i \in 1 .. n |-> steps[i].name]
    <2>1. image \in Surjection(1 .. n, names)
      BY <1>2 DEF Surjection
    <2>2. IsFiniteSet(1 .. n)
      BY <1>1, FS_Interval
    <2> QED
      BY <2>1, <2>2, FS_Surjection, FS_CardinalityType
  <1>4. \A s \in full : /\ s \in [1 .. m -> names] /\ Inputs(s)
                        /\ \A i, j \in 1 .. m : i # j => s[i] # s[j]
    <2>1. Manifests!Cardinality(names) = m
      BY Zenon DEF Manifests!Cardinality, Cardinality
    <2> HIDE DEF m, names, Inputs
    <2> QED
      BY <2>1, Zenon DEF Manifests!SetToSeqs
  <1>5. order = <<>> \/ order \in full \/ \E t \in full : t # <<>> /\ order = Tail(t)
    BY DEF Manifests!Orders
  <1>6. listed = steps \/ names \subseteq Manifests!ToSet(order)
    BY Zenon DEF Manifests!OrderSteps
  <1>7. names \subseteq Manifests!ToSet(order)
    BY <1>6
  <1>8. PICK p \in [1 .. n -> 1 .. n] :
            Sorts(p) /\ listed = [i \in 1 .. n |-> steps[p[i]]]
    <2>1. listed \in {[i \in DOMAIN steps |-> steps[p[i]]] :
                         p \in {q \in Manifests!Bijection(DOMAIN steps, DOMAIN steps) : Sorts(q)}}
      BY <1>7, Zenon DEF Manifests!OrderSteps
    <2>2. PICK p \in Manifests!Bijection(DOMAIN steps, DOMAIN steps) :
              Sorts(p) /\ listed = [i \in DOMAIN steps |-> steps[p[i]]]
      BY <2>1, Zenon
    <2>3. p \in [DOMAIN steps -> DOMAIN steps]
      BY DEF Manifests!Bijection, Manifests!Surjection
    <2> HIDE DEF Sorts, n
    <2> QED
      BY <1>1, <2>2, <2>3, Zenon
  <1> HIDE DEF names, m, full
  <1>9. order \in full
    <2>1. order # <<>>
      <3>1. SUFFICES ASSUME order = <<>> PROVE FALSE
        OBVIOUS
      <3>2. Manifests!ToSet(order) = {}
        BY <3>1 DEF Manifests!ToSet
      <3>3. steps[1].name \in names
        BY <1>1, <1>2
      <3> QED
        BY <1>7, <3>2, <3>3
    <2>2. ASSUME NEW t \in full, t # <<>>, order = Tail(t) PROVE FALSE
      <3>1. t \in [1 .. m -> names] /\ \A i, j \in 1 .. m : i # j => t[i] # t[j]
        BY <1>4
      <3>2. t \in Seq(names) /\ Len(t) = m /\ m > 0
        BY <1>3, <2>2, <3>1
      <3>3. DOMAIN order = 1 .. m - 1 /\ \A i \in 1 .. m - 1 : order[i] = t[i + 1]
        BY <2>2, <3>2
      <3>4. t[1] \in names
        BY <3>2
      <3>5. PICK i \in 1 .. m - 1 : order[i] = t[1]
        BY <1>7, <3>3, <3>4 DEF Manifests!ToSet
      <3>6. i + 1 \in 1 .. m /\ 1 \in 1 .. m /\ i + 1 # 1
        BY <1>3
      <3>7. t[i + 1] # t[1]
        BY <3>1, <3>6
      <3>8. order[i] = t[i + 1]
        BY <3>3, <3>5
      <3> QED
        BY <3>5, <3>7, <3>8
    <2> QED
      BY <1>5, <2>1, <2>2
  <1>10. /\ order \in [1 .. m -> names] /\ Inputs(order) /\ DOMAIN order = 1 .. m
         /\ Len(order) = m
    BY <1>3, <1>4, <1>9
  <1>11. ASSUME NEW i \in 1 .. n
         PROVE  Rank(i) \in 1 .. m /\ order[Rank(i)] = steps[i].name
    <2> DEFINE hits == {k \in 1 .. Len(order) : order[k] = steps[i].name}
    <2>1. Rank(i) = IF hits # {} THEN Manifests!Min(hits) ELSE 0
      BY DEF Manifests!SelectInSeq
    <2>2. steps[i].name \in Manifests!ToSet(order)
      BY <1>2, <1>7
    <2>3. hits # {} /\ hits \in SUBSET Nat /\ hits \subseteq 1 .. m
      BY <1>10, <2>2 DEF Manifests!ToSet
    <2>4. \A k \in hits : order[k] = steps[i].name
      OBVIOUS
    <2> HIDE DEF hits, Rank
    <2>5. Manifests!Min(hits) \in hits
      BY <2>3, LeastNatural DEF Manifests!Min
    <2> QED
      BY <2>1, <2>3, <2>4, <2>5
  <1>12. ASSUME NEW i \in 1 .. n, NEW j \in 1 .. n, listed[i].input = listed[j].name
         PROVE  j < i
    <2>1. p[i] \in 1 .. n /\ p[j] \in 1 .. n
      OBVIOUS
    <2>2. steps[p[i]].input = steps[p[j]].name
      BY <1>8, <1>12
    <2>3. /\ Rank(p[i]) \in 1 .. m /\ order[Rank(p[i])] = steps[p[i]].name
          /\ Rank(p[j]) \in 1 .. m /\ order[Rank(p[j])] = steps[p[j]].name
      BY <1>11, <2>1
    <2> HIDE DEF Rank
    <2>4. Rank(p[j]) < Rank(p[i])
      BY <1>1, <1>10, <2>1, <2>2, <2>3
    <2>5. i < j => Rank(p[i]) <= Rank(p[j])
      BY <1>1, <1>3, <1>8, <2>3
    <2>6. i # j
      BY <1>3, <2>3, <2>4
    <2> QED
      BY <1>1, <1>3, <2>3, <2>4, <2>5, <2>6
  <1>13. DOMAIN listed = 1 .. n
    BY <1>8
  <1> QED
    BY <1>12, <1>13

(* WorkflowManifests: a confined path is its own confinement.              *)

\* Where a file can be: one of a shared set is at its top.
Placed(path) ==
    /\ \A i \in 1 .. Len(path) : path[i] # ".."
    /\ path[1] = "natural_earth" => Len(path) = 3

Settled(path, sink) ==
    UnderARoot(path, RootsOf(sink)) /\ Placed(path)

FilesArePlaced == \A f \in files : Placed(f)

(* A name is the file of the first directory that has one.                 *)
LEMMA FirstFound ==
    ASSUME files \subseteq Paths, IsFiniteSet(files), NEW path \in Paths
    PROVE  LET dirs == Manifests!LayerSearchDirs
               Found(dir) == \/ dir \o path \in files
                             \/ dir \o <<Manifests!Last(path)>> \in files
           IN  \/ /\ Manifests!ToolInputPath(path) = Manifests!Refused
                  /\ \A i \in DOMAIN dirs : ~Found(dirs[i])
               \/ \E i \in DOMAIN dirs :
                      /\ Found(dirs[i])
                      /\ Manifests!ToolInputPath(path) =
                             IF dirs[i] \o path \in files THEN dirs[i] \o path
                             ELSE dirs[i] \o <<Manifests!Last(path)>>
  <1> DEFINE dirs == Manifests!LayerSearchDirs
             Found(dir) == \/ dir \o path \in files
                           \/ dir \o <<Manifests!Last(path)>> \in files
             first == Manifests!SelectInSeq(dirs, LAMBDA dir : Found(dir))
             hits == {i \in 1 .. Len(dirs) : Found(dirs[i])}
  <1>1. DOMAIN dirs = 1 .. Len(dirs) /\ Len(dirs) \in Nat
    BY SearchedIsUnder
  <1>2. first = IF hits # {} THEN Manifests!Min(hits) ELSE 0
    BY DEF Manifests!SelectInSeq
  <1>3. Manifests!ToolInputPath(path) =
            CASE first = 0 -> Manifests!Refused
              [] first # 0 /\ dirs[first] \o path \in files -> dirs[first] \o path
              [] OTHER -> dirs[first] \o <<Manifests!Last(path)>>
    BY DEF Manifests!ToolInputPath
  <1> HIDE DEF dirs, Found, first
  <1>4. CASE hits = {}
    <2>1. first = 0
      BY <1>2, <1>4
    <2>2. Manifests!ToolInputPath(path) = Manifests!Refused
      BY <1>3, <2>1
    <2> QED
      BY <1>1, <1>4, <2>2 DEF dirs, Found
  <1>5. CASE hits # {}
    <2>1. hits \in SUBSET Nat
      BY <1>1
    <2>2. first \in hits
      <3> HIDE DEF hits
      <3> QED
        BY <1>2, <1>5, <2>1, LeastNatural DEF Manifests!Min
    <2>3. first # 0 /\ first \in DOMAIN dirs /\ Found(dirs[first])
      BY <1>1, <2>2
    <2>4. Manifests!ToolInputPath(path) =
              IF dirs[first] \o path \in files THEN dirs[first] \o path
              ELSE dirs[first] \o <<Manifests!Last(path)>>
      BY <1>3, <2>3
    <2> QED
      BY <2>3, <2>4 DEF dirs, Found
  <1> QED
    BY <1>4, <1>5

(* A path that is found is one of the files.                               *)
LEMMA FoundIsThere ==
    ASSUME files \subseteq Paths, IsFiniteSet(files), NEW path \in Paths,
           Manifests!ToolInputPath(path) # Manifests!Refused
    PROVE  Manifests!ToolInputPath(path) \in files
  <1>1. PICK dir : /\ \/ dir \o path \in files
                      \/ dir \o <<Manifests!Last(path)>> \in files
                   /\ Manifests!ToolInputPath(path) =
                          IF dir \o path \in files THEN dir \o path
                          ELSE dir \o <<Manifests!Last(path)>>
    BY FirstFound, Zenon
  <1> QED
    BY <1>1, Zenon

(* A directory that is not the shared set's, and what lies in it.          *)
LEMMA PlacedBelow ==
    ASSUME NEW dir \in Paths, NEW path \in Seq(PathPart),
           dir[1] # "natural_earth",
           \A i \in 1 .. Len(dir) : dir[i] # "..", \A i \in 1 .. Len(path) : path[i] # ".."
    PROVE  Placed(dir \o path)
  <1>1. /\ Len(dir) \in Nat /\ Len(path) \in Nat /\ Len(dir) > 0
        /\ dir \in Seq(PathPart)
    BY DEF Paths
  <1>2. /\ Len(dir \o path) = Len(dir) + Len(path)
        /\ \A i \in 1 .. Len(dir) + Len(path) :
               (dir \o path)[i] = IF i <= Len(dir) THEN dir[i] ELSE path[i - Len(dir)]
    BY <1>1, ConcatProperties
  <1>3. (dir \o path)[1] = dir[1]
    BY <1>1, <1>2
  <1>4. PICK h \in Nat, k \in Nat : h = Len(dir) /\ k = Len(path)
    BY <1>1
  <1> DEFINE all == dir \o path
  <1>5. ASSUME NEW i \in 1 .. h + k PROVE all[i] # ".."
    <2>1. CASE i <= h
      BY <1>2, <1>4, <2>1
    <2>2. CASE ~(i <= h)
      <3>1. i - h \in 1 .. k
        BY <2>2
      <3>2. all[i] = path[i - h]
        BY <1>2, <1>4, <2>2
      <3> QED
        BY <1>4, <3>1, <3>2
    <2> QED
      BY <2>1, <2>2
  <1> QED
    BY <1>2, <1>3, <1>4, <1>5 DEF Placed

(* The fixed directories.                                                  *)
LEMMA FixedParts ==
    /\ Me # ".." /\ "outputs" # ".." /\ "user_data" # ".."
    /\ \A root \in SinkRoots :
           /\ root \in Paths /\ Len(root) = 2 /\ root[1] \in {"outputs", "user_data"}
           /\ root[2] = Me /\ \A i \in 1 .. Len(root) : root[i] # ".."
    /\ Manifests!SharedSet \in Paths /\ Len(Manifests!SharedSet) = 2
    /\ Manifests!SharedSet[1] = "natural_earth" /\ Manifests!SharedSet[2] = "10m"
  <1>1. Me # ".." /\ {Me, "outputs", "user_data", "natural_earth", "10m"} \subseteq PathPart
    BY AgentAssumption
  <1>2. \A a, b \in PathPart : <<a, b>> \in Paths /\ Len(<<a, b>>) = 2
    BY DEF Paths
  <1> QED
    BY <1>1, <1>2 DEF SinkRoots, Manifests!Outputs, Manifests!UserData, Manifests!SharedSet

(* What a path is confined to is where a file can be.                      *)
LEMMA ConfinedIsSettled ==
    ASSUME FilesArePaths, FilesArePlaced, NEW path \in Paths, NEW sink \in BOOLEAN,
           Manifests!ConfinePath(path, sink) # Manifests!Refused
    PROVE  Settled(Manifests!ConfinePath(path, sink), sink)
  <1> DEFINE confined == Manifests!ConfinePath(path, sink)
  <1>1. UnderARoot(confined, RootsOf(sink))
    BY ConfinedIsUnder DEF FilesArePaths
  <1>2. path \in Seq(PathPart) /\ Len(path) >= 1 /\ Len(path) \in Nat
    BY DEF Paths
  <1>3. \A i \in 1 .. Len(path) : path[i] # ".."
    <2>1. ~Manifests!Contains(path, "..")
      BY Zenon DEF Manifests!ConfinePath
    <2> QED
      BY <2>1, Zenon DEF Manifests!Contains
  <1>4. /\ Tail(path) \in Seq(PathPart) /\ Len(Tail(path)) = Len(path) - 1
        /\ \A i \in 1 .. Len(Tail(path)) : Tail(path)[i] = path[i + 1]
    BY <1>2
  <1>5. \A i \in 1 .. Len(Tail(path)) : Tail(path)[i] # ".."
    BY <1>2, <1>3, <1>4
  <1>6. CASE confined = Tail(path) /\ \/ Manifests!IsPrefix(Manifests!Outputs, Tail(path))
                                      \/ Manifests!IsPrefix(Manifests!UserData, Tail(path))
    <2>1. PICK root \in SinkRoots : Manifests!IsPrefix(root, Tail(path))
      BY <1>6 DEF SinkRoots
    <2>2. Tail(path)[1] = root[1]
      <3>1. root \in Seq(PathPart) /\ Len(root) = 2
        BY Roots DEF SourceRoots
      <3> QED
        BY <1>4, <2>1, <3>1, TwoParts
    <2>3. Tail(path)[1] # "natural_earth"
      BY <2>2, FixedParts
    <2> QED
      BY <1>1, <1>5, <1>6, <2>3 DEF Settled, Placed
  <1>7. CASE /\ path[1] \in {"outputs", "user_data"}
             /\ confined = Manifests!PrefixIntoCaller(path)
    <2>1. CASE confined = path
      BY <1>1, <1>3, <1>7, <2>1 DEF Settled, Placed
    <2>2. CASE confined = <<path[1], Me>> \o Tail(path)
      <3>1. PICK root \in SinkRoots : root = <<path[1], Me>>
        BY <1>7 DEF SinkRoots, Manifests!Outputs, Manifests!UserData
      <3>2. Placed(root \o Tail(path))
        BY <1>4, <1>5, FixedParts, PlacedBelow
      <3> QED
        BY <1>1, <2>2, <3>1, <3>2 DEF Settled
    <2> QED
      BY <1>7, <2>1, <2>2 DEF Manifests!PrefixIntoCaller
  <1>8. CASE sink /\ confined = Manifests!ToolOutputPath(path)
    <2>1. confined = Manifests!Outputs \o path
      BY <1>8 DEF Manifests!ToolOutputPath
    <2>2. Manifests!Outputs \in SinkRoots
      BY DEF SinkRoots
    <2>3. Placed(Manifests!Outputs \o path)
      BY <1>2, <1>3, <2>2, FixedParts, PlacedBelow
    <2> QED
      BY <1>1, <2>1, <2>3 DEF Settled
  <1>9. CASE ~sink /\ confined = Manifests!ToolInputPath(path)
    <2>1. confined \in files
      BY <1>9, FoundIsThere DEF FilesArePaths
    <2> QED
      BY <1>1, <2>1 DEF Settled, FilesArePlaced
  <1> QED
    BY <1>6, <1>7, <1>8, <1>9 DEF Manifests!ConfinePath

\* A path of the shared set is still there, and no file of the caller's is called
\* as it is.
Undisturbed(path) ==
    Manifests!IsPrefix(Manifests!SharedSet, path) =>
        /\ path \in files
        /\ ~\E f \in files : /\ \/ Manifests!IsPrefix(Manifests!Outputs, f)
                                \/ Manifests!IsPrefix(Manifests!UserData, f)
                             /\ Manifests!Last(f) = Manifests!Last(path)

(* The name of a file below a directory.                                   *)
LEMMA LastOfTwo ==
    ASSUME NEW All, NEW s \in Seq(All), NEW t \in Seq(All), t # <<>>
    PROVE  Manifests!Last(s \o t) = Manifests!Last(t)
  <1>1. Len(s) \in Nat /\ Len(t) \in Nat /\ Len(t) > 0
    OBVIOUS
  <1>2. PICK m \in Nat, n \in Nat : m = Len(s) /\ n = Len(t)
    BY <1>1
  <1>3. /\ Len(s \o t) = m + n
        /\ \A i \in 1 .. m + n : (s \o t)[i] = IF i <= m THEN s[i] ELSE t[i - m]
    BY <1>2, ConcatProperties
  <1>4. m + n \in 1 .. m + n /\ ~(m + n <= m) /\ (m + n) - m = n
    BY <1>1, <1>2
  <1>5. (s \o t)[m + n] = t[n]
    BY <1>3, <1>4
  <1> QED
    BY <1>2, <1>3, <1>5 DEF Manifests!Last

(* A file of the shared set is found where it is.                          *)
LEMMA SharedIsFound ==
    ASSUME FilesArePaths, FilesArePlaced, NEW path \in Paths,
           path[1] = "natural_earth", path[2] = "10m", Len(path) = 3, Undisturbed(path)
    PROVE  Manifests!ToolInputPath(path) = path
  <1> DEFINE dirs == Manifests!LayerSearchDirs
             shared == Manifests!SharedSet
             last == Manifests!Last(path)
             Found(dir) == dir \o path \in files \/ dir \o <<last>> \in files
  <1>1. /\ path \in Seq(PathPart) /\ path # <<>> /\ last = path[3] /\ last \in PathPart
        /\ <<last>> \in Seq(PathPart) /\ <<last>> # <<>>
        /\ Manifests!Last(<<last>>) = last
    BY DEF Paths, Manifests!Last
  <1>2. /\ shared \in Seq(PathPart) /\ Len(shared) = 2
        /\ shared[1] = path[1] /\ shared[2] = path[2]
    BY FixedParts DEF Paths
  <1>3. Manifests!IsPrefix(shared, path)
    BY <1>1, <1>2, TwoParts
  <1>4. /\ path \in files
        /\ \A f \in files : Manifests!Last(f) = last =>
               /\ ~Manifests!IsPrefix(Manifests!Outputs, f)
               /\ ~Manifests!IsPrefix(Manifests!UserData, f)
    BY <1>3 DEF Undisturbed
  <1> HIDE DEF last, shared
  <1>5. shared \o <<last>> = path
    <2>1. PICK all : all = shared \o <<last>>
      OBVIOUS
    <2>2. /\ all \in Seq(PathPart) /\ Len(all) = 3
          /\ all[1] = shared[1] /\ all[2] = shared[2] /\ all[3] = last
      <3>1. PICK s \in Seq(PathPart), t \in Seq(PathPart) : s = shared /\ t = <<last>>
        BY <1>1, <1>2
      <3>2. PICK m \in Nat, n \in Nat : m = Len(s) /\ n = Len(t)
        OBVIOUS
      <3>3. /\ s \o t \in Seq(PathPart) /\ Len(s \o t) = m + n
            /\ \A i \in 1 .. m : (s \o t)[i] = s[i]
            /\ \A i \in 1 .. n : (s \o t)[m + i] = t[i]
        BY <3>2, TwoTogether
      <3>4. m = 2 /\ n = 1 /\ t[1] = last
        BY <1>2, <3>1, <3>2
      <3>5. /\ Len(s \o t) = 3
            /\ (s \o t)[1] = s[1] /\ (s \o t)[2] = s[2] /\ (s \o t)[3] = t[1]
        BY <3>3, <3>4
      <3> QED
        BY <2>1, <3>1, <3>3, <3>4, <3>5
    <2>3. \A i \in 1 .. 3 : i = 1 \/ i = 2 \/ i = 3
      OBVIOUS
    <2>4. \A i \in 1 .. Len(all) : all[i] = path[i]
      BY <1>1, <1>2, <2>2, <2>3 DEF last
    <2>5. all = path
      BY <1>1, <2>2, <2>4, SeqEqual
    <2> QED
      BY <2>1, <2>5
  <1>6. shared \o path \notin files
    <2>1. Len(shared \o path) = 5 /\ (shared \o path)[1] = "natural_earth"
      <3>1. PICK s \in Seq(PathPart), t \in Seq(PathPart) : s = shared /\ t = path
        BY <1>1, <1>2
      <3>2. PICK m \in Nat, n \in Nat : m = Len(s) /\ n = Len(t)
        OBVIOUS
      <3>3. Len(s \o t) = m + n /\ \A i \in 1 .. m : (s \o t)[i] = s[i]
        BY <3>2, TwoTogether
      <3>4. m = 2 /\ n = 3 /\ s[1] = "natural_earth"
        BY <1>2, <3>1, <3>2
      <3>5. Len(s \o t) = 5 /\ (s \o t)[1] = "natural_earth"
        BY <3>3, <3>4
      <3> QED
        BY <3>1, <3>5
    <2>2. SUFFICES ASSUME shared \o path \in files PROVE FALSE
      OBVIOUS
    <2>3. PICK f \in files : f = shared \o path
      BY <2>2
    <2>4. Len(f) = 5 /\ f[1] = "natural_earth"
      BY <2>1, <2>3
    <2> QED
      BY <2>4 DEF FilesArePlaced, Placed
  <1>7. ASSUME NEW dir, UnderARoot(dir, SinkRoots) PROVE ~Found(dir)
    <2>1. dir \in Seq(PathPart)
      BY <1>7 DEF UnderARoot, Paths
    <2>2. ASSUME NEW end \in Seq(PathPart), end # <<>>, Manifests!Last(end) = last
          PROVE  dir \o end \notin files
      <3>1. UnderARoot(dir \o end, SinkRoots)
        BY <1>7, BelowTheRoot DEF SourceRoots
      <3>2. Manifests!Last(dir \o end) = last
        BY <2>1, <2>2, LastOfTwo
      <3> QED
        BY <1>4, <3>1, <3>2 DEF UnderARoot, SinkRoots
    <2>3. dir \o path \notin files
      <3>1. Manifests!Last(path) = last
        BY DEF last
      <3> QED
        BY <1>1, <2>2, <3>1
    <2>4. dir \o <<last>> \notin files
      BY <1>1, <2>2
    <2> QED
      BY <2>3, <2>4
  <1>8. /\ \A i \in DOMAIN dirs : UnderARoot(dirs[i], SinkRoots) \/ dirs[i] = shared
        /\ \E i \in DOMAIN dirs : dirs[i] = shared
    <2>1. shared # path
      <3>1. Len(shared) # Len(path)
        BY <1>2
      <3> QED
        BY <3>1, Zenon
    <2>2. Manifests!Below(shared, path)
      BY <1>3, <2>1 DEF Manifests!Below, Manifests!IsStrictPrefix
    <2> QED
      BY <1>4, <2>2, SearchedIsOwnOrShared DEF FilesArePaths, shared
  <1>9. \A i \in DOMAIN dirs : Found(dirs[i]) <=> dirs[i] = shared
    BY <1>4, <1>5, <1>7, <1>8
  <1>10. \/ \A i \in DOMAIN dirs : ~Found(dirs[i])
         \/ \E i \in DOMAIN dirs :
                /\ Found(dirs[i])
                /\ Manifests!ToolInputPath(path) =
                       IF dirs[i] \o path \in files THEN dirs[i] \o path
                       ELSE dirs[i] \o <<last>>
    BY FirstFound, Zenon DEF last, FilesArePaths
  <1> HIDE DEF dirs, Found
  <1>11. PICK i \in DOMAIN dirs :
             /\ Found(dirs[i])
             /\ Manifests!ToolInputPath(path) =
                    IF dirs[i] \o path \in files THEN dirs[i] \o path
                    ELSE dirs[i] \o <<last>>
    BY <1>8, <1>9, <1>10, Zenon
  <1>12. dirs[i] = shared
    BY <1>9, <1>11
  <1> QED
    BY <1>5, <1>6, <1>11, <1>12

(* A confined path is confined to itself.                                  *)
LEMMA ConfineAgain ==
    ASSUME FilesArePaths, FilesArePlaced, NEW path, NEW sink \in BOOLEAN,
           Settled(path, sink), sink \/ Undisturbed(path)
    PROVE  Manifests!ConfinePath(path, sink) = path
  <1>1. /\ path \in Paths /\ path \in Seq(PathPart) /\ Len(path) \in Nat
        /\ \A i \in 1 .. Len(path) : path[i] # ".."
    BY DEF Settled, UnderARoot, Placed, Paths
  <1>2. ~Manifests!Contains(path, "..")
    BY <1>1, Zenon DEF Manifests!Contains
  <1>3. PICK root \in RootsOf(sink) :
            Len(path) >= 2 /\ path[1] = root[1] /\ path[2] = root[2]
    <2>1. RootsOf(sink) \subseteq SourceRoots
      BY DEF RootsOf, SourceRoots
    <2> QED
      BY <1>1, <2>1, UnderIsTwoParts DEF Settled
  <1>4. CASE root \in SinkRoots
    <2>1. path[1] \in {"outputs", "user_data"} /\ path[2] = Me
      BY <1>3, <1>4, FixedParts
    <2>2. Manifests!PrefixIntoCaller(path) = path
      BY <1>3, <2>1 DEF Manifests!PrefixIntoCaller
    <2>3. path[1] # "/"
      BY <2>1
    <2> QED
      BY <1>2, <2>1, <2>2, <2>3 DEF Manifests!ConfinePath
  <1>5. CASE root \notin SinkRoots
    <2>1. ~sink /\ root = Manifests!SharedSet
      BY <1>3, <1>5 DEF RootsOf, SourceRoots
    <2>2. path[1] = "natural_earth" /\ path[2] = "10m" /\ Len(path) = 3 /\ Undisturbed(path)
      BY <1>3, <2>1, FixedParts DEF Settled, Placed
    <2>3. Manifests!ToolInputPath(path) = path
      BY <1>1, <2>2, SharedIsFound
    <2>4. path[1] \notin {"/", "outputs", "user_data"}
      BY <2>2
    <2> QED
      BY <1>2, <2>1, <2>3, <2>4 DEF Manifests!ConfinePath
  <1> QED
    BY <1>4, <1>5

(* A path under a root has two parts, and a refusal is no sequence of two. *)
LEMMA UnderIsNoRefusal ==
    ASSUME NEW roots, roots \subseteq SourceRoots, NEW path, UnderARoot(path, roots)
    PROVE  path # Manifests!Refused
  <1>1. PICK n \in Nat : DOMAIN path = 1 .. n /\ n >= 2
    <2>1. path \in Seq(PathPart)
      BY DEF UnderARoot, Paths
    <2>2. Len(path) >= 2
      BY <2>1, UnderIsTwoParts
    <2> QED
      BY <2>1, <2>2
  <1>2. 1 \in DOMAIN path /\ 2 \in DOMAIN path
    BY <1>1
  <1>3. DOMAIN Manifests!Refused = {"refused"}
    BY DEF Manifests!Refused
  <1> QED
    BY <1>2, <1>3

-----------------------------------------------------------------------------
(* WorkflowManifests: a text on record is its own confinement while its    *)
(* shared datasets are undisturbed, and a plan shows its datasets.         *)

EntriesSettled(entries, sink) ==
    \A i \in DOMAIN entries : entries[i].path = <<>> \/ Settled(entries[i].path, sink)

SettledText(t) == EntriesSettled(t.sources, FALSE) /\ EntriesSettled(t.sinks, TRUE)

InOrder(p) ==
    p.ordered => \A i, j \in DOMAIN p.steps : p.steps[i].input = p.steps[j].name => j < i

StandsInv ==
    /\ FilesArePlaced
    /\ \A t \in planRecords : SettledText(t)
    /\ \A p \in shown : p.datasets = Manifests!PathsOf(p.manifest.sources) /\ InOrder(p)

(* What the entries of one kind are confined to is settled.                *)
LEMMA EntriesSettle ==
    ASSUME FilesArePaths, FilesArePlaced, NEW entries \in Seq(ManifestEntry), NEW sink \in BOOLEAN,
           PathsUnder(Manifests!ConfineEntries(entries, sink), RootsOf(sink))
    PROVE  EntriesSettled(Manifests!ConfineEntries(entries, sink), sink)
  <1> DEFINE all == Manifests!ConfineEntries(entries, sink)
  <1>1. Len(entries) \in Nat /\ DOMAIN entries = 1 .. Len(entries) /\ DOMAIN all = DOMAIN entries
    BY DEF Manifests!ConfineEntries
  <1>2. ASSUME NEW i \in DOMAIN all PROVE all[i].path = <<>> \/ Settled(all[i].path, sink)
    <2>1. PICK e : e = entries[i]
      OBVIOUS
    <2>2. e \in ManifestEntry
      BY <1>1, <2>1
    <2>3. CASE e.path = <<>>
      BY <1>1, <2>1, <2>3 DEF Manifests!ConfineEntries
    <2>4. CASE e.path # <<>>
      <3>1. e.path \in Paths
        BY <2>2, <2>4 DEF ManifestEntry, Paths
      <3>2. PICK c : c = Manifests!ConfinePath(e.path, sink)
        OBVIOUS
      <3>3. all[i] = [e EXCEPT !.path = c]
        BY <1>1, <2>1, <2>4, <3>2 DEF Manifests!ConfineEntries
      <3>4. all[i].path = c
        BY <2>2, <3>3 DEF ManifestEntry
      <3>5. c = <<>> \/ UnderARoot(c, RootsOf(sink))
        BY <3>4 DEF PathsUnder
      <3>6. UnderARoot(c, RootsOf(sink)) => c # Manifests!Refused
        BY UnderIsNoRefusal DEF RootsOf, SourceRoots
      <3>7. UnderARoot(c, RootsOf(sink)) => Settled(c, sink)
        BY <3>1, <3>2, <3>6, ConfinedIsSettled
      <3> QED
        BY <3>4, <3>5, <3>7
    <2> QED
      BY <2>3, <2>4
  <1> HIDE DEF all
  <1>3. \A i \in DOMAIN all : all[i].path = <<>> \/ Settled(all[i].path, sink)
    BY <1>2
  <1> QED
    BY <1>3 DEF all, EntriesSettled

LEMMA ManifestSettles ==
    ASSUME FilesArePaths, FilesArePlaced, NEW m \in ParsedManifest,
           Manifests!ConfineManifest(m) # Manifests!Refused
    PROVE  SettledText(Manifests!ConfineManifest(m))
  <1> DEFINE text == Manifests!ConfineManifest(m)
             one == Manifests!ConfineEntries(m.sources, FALSE)
             two == Manifests!ConfineEntries(m.sinks, TRUE)
  <1>1. /\ Confined(text)
        /\ text.sources = Manifests!ConfinedEntries(m).sources
        /\ text.sinks = Manifests!ConfinedEntries(m).sinks
    BY ManifestConfined
  <1>2. /\ Manifests!ConfinedEntries(m).sources = one /\ Manifests!ConfinedEntries(m).sinks = two
    BY DEF Manifests!ConfinedEntries, ParsedManifest
  <1>3. m.sources \in Seq(ManifestEntry) /\ m.sinks \in Seq(ManifestEntry)
    BY DEF ParsedManifest
  <1> HIDE DEF text
  <1>4. PathsUnder(one, RootsOf(FALSE)) /\ PathsUnder(two, RootsOf(TRUE))
    BY <1>1, <1>2 DEF Confined, RootsOf
  <1>5. EntriesSettled(one, FALSE) /\ EntriesSettled(two, TRUE)
    BY <1>3, <1>4, EntriesSettle
  <1> QED
    BY <1>1, <1>2, <1>5 DEF SettledText, text

(* Settled entries are confined to themselves.                             *)
LEMMA EntriesAgain ==
    ASSUME FilesArePaths, FilesArePlaced, NEW entries \in Seq(ManifestEntry), NEW sink \in BOOLEAN,
           EntriesSettled(entries, sink),
           sink \/ \A path \in Manifests!PathsOf(entries) : Undisturbed(path)
    PROVE  Manifests!ConfineEntries(entries, sink) = entries
  <1>1. PICK n \in Nat : n = Len(entries) /\ DOMAIN entries = 1 .. n
    OBVIOUS
  <1>2. ASSUME NEW i \in 1 .. n
        PROVE  (IF entries[i].path = <<>> THEN entries[i]
                ELSE [entries[i] EXCEPT !.path = Manifests!ConfinePath(@, sink)]) = entries[i]
    <2>1. PICK e \in ManifestEntry : e = entries[i]
      BY <1>1
    <2>2. PICK c : c = Manifests!ConfinePath(e.path, sink)
      OBVIOUS
    <2>3. CASE e.path # <<>>
      <3>1. Settled(e.path, sink)
        BY <1>1, <2>1, <2>3 DEF EntriesSettled
      <3>2. e.path \in Manifests!PathsOf(entries)
        BY <1>1, <2>1, <2>3 DEF Manifests!PathsOf, Manifests!ToSet
      <3>3. c = e.path
        BY <2>2, <3>1, <3>2, ConfineAgain
      <3>4. [e EXCEPT !.path = c] = e
        BY <3>3 DEF ManifestEntry
      <3> QED
        BY <2>1, <2>2, <2>3, <3>4
    <2> QED
      BY <2>1, <2>3
  <1>3. Manifests!ConfineEntries(entries, sink) = [i \in 1 .. n |-> entries[i]]
    BY <1>1, <1>2 DEF Manifests!ConfineEntries
  <1> QED
    BY <1>1, <1>3

(* A settled manifest, whose shared datasets are undisturbed, as well.      *)
LEMMA ManifestAgain ==
    ASSUME FilesArePaths, FilesArePlaced, NEW t \in ParsedManifest, SettledText(t),
           \A path \in Manifests!PathsOf(t.sources) : Undisturbed(path)
    PROVE  Manifests!ConfineManifest(t) = t
  <1>0. PICK sources \in Seq(ManifestEntry), sinks \in Seq(ManifestEntry) :
            \E any : t = [sources |-> sources, transforms |-> any, sinks |-> sinks]
    BY DEF ParsedManifest
  <1>1. PICK steps : t = [sources |-> sources, transforms |-> steps, sinks |-> sinks]
    BY <1>0
  <1>2. t.sources = sources /\ t.sinks = sinks
    BY <1>1
  <1>3. /\ Manifests!ConfineEntries(sources, FALSE) = sources
        /\ Manifests!ConfineEntries(sinks, TRUE) = sinks
    BY <1>2, EntriesAgain DEF SettledText
  <1>4. Manifests!ConfinedEntries(t) = t
    <2>1. PICK a, b : a = sources /\ b = sinks
      OBVIOUS
    <2>2. Manifests!ConfinedEntries(t) = [t EXCEPT !.sources = a, !.sinks = b]
      BY <1>2, <1>3, <2>1 DEF Manifests!ConfinedEntries
    <2>3. PICK u : u = [t EXCEPT !.sources = a]
      OBVIOUS
    <2>4. u = [sources |-> a, transforms |-> steps, sinks |-> sinks]
      BY <1>1, <2>3
    <2>5. [u EXCEPT !.sinks = b] = [sources |-> a, transforms |-> steps, sinks |-> b]
      BY <2>4
    <2>6. Manifests!ConfinedEntries(t) = [u EXCEPT !.sinks = b]
      BY <2>2, <2>3
    <2> QED
      BY <1>1, <2>1, <2>5, <2>6
  <1>5. /\ Manifests!Rewritten(sources, sources) = sources
        /\ Manifests!Rewritten(sinks, sinks) = sinks
    BY DEF Manifests!Rewritten
  <1>6. \A i \in DOMAIN (sources \o sinks) : (sources \o sinks)[i].path # Manifests!Refused
    <2>1. PICK m \in Nat, n \in Nat : m = Len(sources) /\ n = Len(sinks)
      OBVIOUS
    <2>2. /\ sources \o sinks \in Seq(ManifestEntry) /\ Len(sources \o sinks) = m + n
          /\ \A i \in 1 .. m + n :
                 (sources \o sinks)[i] = IF i <= m THEN sources[i] ELSE sinks[i - m]
      BY <2>1, ConcatProperties
    <2>3. ASSUME NEW e, \/ \E i \in 1 .. m : e = sources[i]
                        \/ \E i \in 1 .. n : e = sinks[i]
          PROVE  e.path # Manifests!Refused
      <3>1. e.path = <<>> \/ \E sink \in BOOLEAN : Settled(e.path, sink)
        <4>1. DOMAIN sources = 1 .. m /\ DOMAIN sinks = 1 .. n
          BY <2>1
        <4>2. EntriesSettled(sources, FALSE) /\ EntriesSettled(sinks, TRUE)
          BY <1>2 DEF SettledText
        <4> QED
          BY <2>3, <4>1, <4>2 DEF EntriesSettled
      <3>2. \A sink \in BOOLEAN : Settled(e.path, sink) => e.path # Manifests!Refused
        BY UnderIsNoRefusal DEF Settled, RootsOf, SourceRoots
      <3>3. <<>> # Manifests!Refused
        <4>1. DOMAIN <<>> = {} /\ DOMAIN Manifests!Refused = {"refused"}
          BY DEF Manifests!Refused
        <4> QED
          BY <4>1
      <3> QED
        BY <3>1, <3>2, <3>3
    <2>4. ASSUME NEW i \in 1 .. m + n
          PROVE  \/ \E k \in 1 .. m : (sources \o sinks)[i] = sources[k]
                 \/ \E k \in 1 .. n : (sources \o sinks)[i] = sinks[k]
      <3>1. CASE i <= m
        BY <2>2, <3>1
      <3>2. CASE ~(i <= m)
        <4>1. i - m \in 1 .. n
          BY <3>2
        <4> QED
          BY <2>2, <3>2, <4>1
      <3> QED
        BY <3>1, <3>2
    <2> QED
      <3>1. PICK all : all = sources \o sinks
        OBVIOUS
      <3>2. DOMAIN all = 1 .. m + n
        BY <2>2, <3>1
      <3>3. ASSUME NEW i \in 1 .. m + n PROVE all[i].path # Manifests!Refused
        BY <2>3, <2>4, <3>1
      <3> QED
        BY <3>1, <3>2, <3>3
  <1>7. Manifests!PathsWereRewritten(t, t)
    BY DEF Manifests!PathsWereRewritten
  <1>8. [t EXCEPT !.sources = Manifests!Rewritten(@, t.sources),
                  !.sinks = Manifests!Rewritten(@, t.sinks)] = t
    BY <1>1, <1>2, <1>5
  <1> QED
    BY <1>2, <1>4, <1>6, <1>7, <1>8 DEF Manifests!ConfineManifest

-----------------------------------------------------------------------------
(* The steps.                                                              *)

LEMMA StandsInitially == Manifests!Init => StandsInv
  BY AgentAssumption DEF Manifests!Init, StandsInv, FilesArePlaced, Placed

(* A plan stands when it is made: with the text it records, in its order.  *)
LEMMA PlanStands ==
    ASSUME ManifestsInv, StandsInv, NEW m \in WrittenManifests, Manifests!PlanWorkflow(m)
    PROVE  StandsInv'
  <1> DEFINE text == Manifests!ConfineManifest(m)
             confined == Manifests!ConfinedEntries(m)
             steps == Manifests!ManifestSteps(confined)
  <1>1. /\ text # Manifests!Refused /\ steps # <<>>
        /\ planRecords' = planRecords \cup {text}
        /\ \E order \in Manifests!Orders(steps) : \E listed \in Manifests!OrderSteps(steps, order) :
               shown' = shown \cup {Manifests!PlanPayload(text, listed, order)}
        /\ files' = files
    BY DEF Manifests!PlanWorkflow, Manifests!Digest
  <1>2. PICK order \in Manifests!Orders(steps) : \E listed \in Manifests!OrderSteps(steps, order) :
            shown' = shown \cup {Manifests!PlanPayload(text, listed, order)}
    BY <1>1
  <1>3. PICK listed \in Manifests!OrderSteps(steps, order) :
             shown' = shown \cup {Manifests!PlanPayload(text, listed, order)}
    BY <1>2
  <1>4. m \in ParsedManifest
    BY AgentAssumption
  <1>5. /\ confined \in ParsedManifest /\ text.sources = confined.sources
        /\ SettledText(text)
    BY <1>1, <1>4, ManifestConfined, ManifestSettles DEF ManifestsInv, StandsInv
  <1> DEFINE payload == Manifests!PlanPayload(text, listed, order)
  <1>6. /\ PathsOfKind(steps, "source") = {e.path : e \in Manifests!ToSet(text.sources)}
        /\ \E All : steps \in Seq(All)
    BY <1>5, StepsOfAManifest
  <1> HIDE DEF text, confined, steps
  <1>7. payload.manifest = text /\ payload.datasets = Manifests!PathsOf(text.sources)
    <2>1. PathsOfKind(listed, "source") = PathsOfKind(steps, "source")
      BY SortedPaths
    <2>2. /\ payload.manifest = text
          /\ payload.datasets = PathsOfKind(listed, "source") \ {<<>>}
      BY DEF Manifests!PlanPayload, PathsOfKind
    <2> HIDE DEF payload
    <2> QED
      BY <1>6, <2>1, <2>2 DEF Manifests!PathsOf
  <1>8. InOrder(payload)
    <2>1. payload.steps = listed
      BY DEF Manifests!PlanPayload
    <2>2. payload.ordered = (Manifests!Names(listed) \subseteq Manifests!ToSet(order))
      BY Zenon DEF Manifests!PlanPayload
    <2>3. PICK All : steps \in Seq(All)
      BY <1>6
    <2> HIDE DEF payload
    <2> SUFFICES ASSUME Manifests!Names(listed) \subseteq Manifests!ToSet(order)
                 PROVE  \A i, j \in DOMAIN listed : listed[i].input = listed[j].name => j < i
      BY <2>1, <2>2 DEF InOrder
    <2> QED
      BY <1>1, <2>3, OrderedAsReported
  <1> HIDE DEF payload
  <1>9. shown' = shown \cup {payload}
    BY <1>3 DEF payload
  <1>10. \A t \in planRecords' : SettledText(t)
    BY <1>1, <1>5 DEF StandsInv
  <1>11. \A p \in shown' : p.datasets = Manifests!PathsOf(p.manifest.sources) /\ InOrder(p)
    BY <1>7, <1>8, <1>9 DEF StandsInv
  <1> QED
    BY <1>1, <1>10, <1>11
       DEF StandsInv, FilesArePlaced, Placed, SettledText, EntriesSettled, Settled, UnderARoot, InOrder

(* The runs write where their sinks are, and files come where they may.    *)
LEMMA RunStands ==
    ASSUME ManifestsInv, StandsInv, NEW m, Manifests!RunWorkflow(m)
    PROVE  StandsInv'
  <1> DEFINE text == Manifests!ConfineManifest(m)
  <1>1. PICK record \in Manifests!Records(text) :
            wrote' = Manifests!SinkPaths(text, record.done)
    BY DEF Manifests!RunWorkflow
  <1>2. /\ text \in planRecords /\ files' = files \cup wrote'
        /\ planRecords' = planRecords /\ shown' = shown
    BY DEF Manifests!RunWorkflow, Manifests!Digest
  <1> HIDE DEF text
  <1>3. SettledText(text) /\ Confined(text)
    BY <1>2 DEF StandsInv, ManifestsInv
  <1>4. text.sinks \in Seq(ManifestEntry)
    BY <1>3 DEF Confined, ParsedManifest
  <1>5. \A path \in wrote' : Placed(path)
    BY <1>1, <1>3, <1>4 DEF Manifests!SinkPaths, Manifests!ToSet, SettledText, EntriesSettled, Settled
  <1>6. FilesArePlaced'
    BY <1>2, <1>5 DEF StandsInv, FilesArePlaced, Placed
  <1> QED
    BY <1>2, <1>6 DEF StandsInv, SettledText, EntriesSettled, Settled, UnderARoot, Placed, InOrder

LEMMA FilesMoveStands ==
    ASSUME StandsInv, NEW path \in CoastPlaces,
           Manifests!FileAppears(path) \/ Manifests!FileGoes(path)
    PROVE  StandsInv'
  <1>1. Placed(path)
    BY AgentAssumption DEF Placed
  <1>2. /\ files' \subseteq files \cup {path} /\ planRecords' = planRecords /\ shown' = shown
    BY DEF Manifests!FileAppears, Manifests!FileGoes
  <1>3. FilesArePlaced'
    BY <1>1, <1>2 DEF StandsInv, FilesArePlaced, Placed
  <1> QED
    BY <1>2, <1>3 DEF StandsInv, SettledText, EntriesSettled, Settled, UnderARoot, Placed, InOrder

LEMMA StandsInvariance ==
    ASSUME ManifestsInv, StandsInv, [Manifests!Next]_manifestVars
    PROVE  StandsInv'
  <1>1. ASSUME files' = files, planRecords' = planRecords, shown' = shown PROVE StandsInv'
    BY <1>1 DEF StandsInv, FilesArePlaced, SettledText, EntriesSettled, Settled, UnderARoot,
                Placed, InOrder
  <1>2. ASSUME NEW m, Manifests!ApproveWorkflow(m) PROVE StandsInv'
    BY <1>1, <1>2 DEF Manifests!ApproveWorkflow
  <1>3. CASE UNCHANGED manifestVars
    BY <1>1, <1>3 DEF manifestVars
  <1> QED
    BY <1>2, <1>3, PlanStands, RunStands, FilesMoveStands DEF Manifests!Next

LEMMA PlansPromised == ManifestsInv /\ StandsInv => Manifests!ShownPlanIsItself
  <1> SUFFICES ASSUME ManifestsInv, StandsInv, NEW p \in shown,
                      \A path \in p.datasets : Undisturbed(path)
               PROVE  Manifests!ConfineManifest(p.manifest) = p.manifest
    BY DEF Manifests!ShownPlanIsItself, Undisturbed, StandsInv, InOrder
  <1>1. /\ p.manifest \in planRecords
        /\ p.datasets = Manifests!PathsOf(p.manifest.sources)
    BY DEF ManifestsInv, StandsInv
  <1>2. p.manifest \in ParsedManifest /\ SettledText(p.manifest)
    BY <1>1 DEF ManifestsInv, StandsInv, Confined
  <1> QED
    BY <1>1, <1>2, ManifestAgain DEF ManifestsInv, StandsInv
=============================================================================
