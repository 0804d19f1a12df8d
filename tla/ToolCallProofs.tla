--------------------------- MODULE ToolCallProofs ---------------------------
(***************************************************************************)
(* The tool call against the policy it runs under: for every policy, every *)
(* number of calls and every set of identities it is well typed, its trail *)
(* is true, and it implements AuditedCall.                                 *)
(***************************************************************************)
EXTENDS ToolCall, AuthorizationProofs

----------------------------------------------------------------------------
\* What an action on one call leaves alone.

Frame(c) ==
  \A d \in Calls : d # c =>
    /\ calls'[d] = calls[d] /\ wire'[d] = wire[d] /\ answers'[d] = answers[d]
    /\ effects'[d] = effects[d] /\ events'[d] = events[d]

\* The actions on one call.
CallStep(c) ==
  \/ \E ctx \in Contexts, t \in Tools, q \in Requests : Authenticate(c, ctx, t, q)
  \/ Gateway(c)
  \/ Server(c)
  \/ Crash(c)

LEMMA Steps ==
  [NextToolCall]_callSystemVars =>
    \/ [NextPolicy]_policyVars /\ UNCHANGED callVars
    \/ \E c \in Calls : CallStep(c) /\ UNCHANGED policyVars
  BY DEF NextToolCall, callSystemVars, CallStep, Requests, Gateway, Server, Authenticate,
         Refuse, Decide, ResolveCredential, CredentialRefused, CredentialRaises, Forward,
         Answered, AnsweredError, AnsweredRejection, NoAnswer, Crash,
         Answer, RejectCredential, NotServed, RunTool, FailTool

LEMMA StepFrame ==
  ASSUME ToolCallTypeOK, NEW c \in Calls, CallStep(c)
  PROVE  Frame(c)
  BY DEF CallStep, Gateway, Server, Authenticate, Audit, At,
         Refuse, Decide, ResolveCredential, CredentialRefused, CredentialRaises, Forward,
         Answered, AnsweredError, AnsweredRejection, NoAnswer, Crash,
         Answer, RejectCredential, NotServed, RunTool, FailTool,
         Frame, ToolCallTypeOK

----------------------------------------------------------------------------
\* Types.

LEMMA CallerIdentity ==
  ASSUME NEW ctx \in Contexts
  PROVE  execution_identity(ctx) \in Principals
  BY ContextKinds, PrincipalsDisjoint DEF execution_identity, Principals

LEMMA AuditType ==
  ASSUME ToolCallTypeOK, NEW c \in Calls, NEW decision \in {"allow", "deny", "error"},
         NEW identity \in Principals, Audit(c, decision, identity)
  PROVE  events' \in [Calls -> Seq(Event)]
<1>1. [decision |-> decision, identity |-> identity] \in Event
  BY DEF Event
<1> QED BY <1>1 DEF Audit, ToolCallTypeOK

\* The states of a call, one at a time.
LEMMA CallKinds ==
  ASSUME ToolCallTypeOK, NEW c \in Calls
  PROVE  /\ calls[c].at \in {"idle", "authenticated", "decided", "ready", "forwarded", "ended"}
         /\ calls[c].at = "authenticated" =>
              /\ calls[c].ctx \in Contexts /\ calls[c].tool \in Tools
              /\ calls[c].requested \in Requests
         /\ calls[c].at \in Permitted => calls[c].identity \in Principals
         /\ calls[c].at = "ended" =>
              /\ calls[c].how \in {"refused", "failed", "answered", "raised", "crashed"}
              /\ calls[c].identity \in Principals \union {None}
<1>1. calls[c] \in Call
  BY DEF ToolCallTypeOK
<1> QED BY <1>1 DEF Call, Requests, Permitted

LEMMA NewCalls ==
  /\ \A how \in {"refused", "failed", "answered", "raised", "crashed"},
        i \in Principals \union {None} : Ended(how, i) \in Call
  /\ \A stage \in Permitted, i \in Principals : At(stage, i) \in Call
  /\ \A ctx \in Contexts, t \in Tools, q \in Requests :
       [at |-> "authenticated", ctx |-> ctx, tool |-> t, requested |-> q] \in Call
  BY DEF Call, Ended, At, Requests

\* The type of what the code keeps of calls, without the history.
CallTypeOK ==
  /\ calls \in [Calls -> Call]
  /\ wire \in [Calls -> Principals \union {None}]
  /\ answers \in [Calls -> Replies \union {None}]
  /\ effects \in [Calls -> Principals \union {None}]
  /\ events \in [Calls -> Seq(Event)]

LEMMA GatewayType ==
  ASSUME PolicyTypeOK, ToolCallTypeOK, NEW c \in Calls, Gateway(c)
  PROVE  CallTypeOK'
<1> USE CallKinds, NewCalls, PrincipalsDisjoint DEF Permitted, ToolCallTypeOK, CallTypeOK
<1>1. CASE Refuse(c)
  <2>1. execution_identity(calls[c].ctx) \in Principals
    BY <1>1, CallerIdentity DEF Refuse
  <2>2. events' \in [Calls -> Seq(Event)]
    BY <1>1, <2>1, AuditType DEF Refuse
  <2> QED BY <1>1, <2>2 DEF Refuse
<1>2. CASE Decide(c)
  <2>1. Decision(c).execution_identity \in Principals
    BY <1>2, ExecutionIdentity DEF Decide, Decision
  <2> QED BY <1>2, <2>1 DEF Decide
<1>3. CASE CredentialRefused(c)
  <2>1. events' \in [Calls -> Seq(Event)]
    BY <1>3, AuditType DEF CredentialRefused
  <2> QED BY <1>3, <2>1 DEF CredentialRefused
<1>4. CASE ResolveCredential(c) \/ CredentialRaises(c)
  <2>1. At("ready", calls[c].identity) \in Call /\ Ended("raised", calls[c].identity) \in Call
    BY <1>4 DEF ResolveCredential, CredentialRaises
  <2>2. calls' \in [Calls -> Call]
    BY <1>4, <2>1 DEF ResolveCredential, CredentialRaises
  <2> QED BY <1>4, <2>2 DEF ResolveCredential, CredentialRaises
<1>5. CASE Forward(c)
  BY <1>5 DEF Forward
<1>6. CASE Answered(c) \/ AnsweredError(c) \/ NoAnswer(c)
  <2>1. events' \in [Calls -> Seq(Event)]
    BY <1>6, AuditType DEF Answered, AnsweredError, NoAnswer
  <2>2. Ended("answered", calls[c].identity) \in Call
    BY <1>6 DEF Answered, AnsweredError, NoAnswer
  <2>3. calls' \in [Calls -> Call]
    BY <1>6, <2>2 DEF Answered, AnsweredError, NoAnswer, CallTypeOK
  <2> QED BY <1>6, <2>1, <2>3 DEF Answered, AnsweredError, NoAnswer
<1>7. CASE AnsweredRejection(c)
  BY <1>7 DEF AnsweredRejection
<1> QED BY <1>1, <1>2, <1>3, <1>4, <1>5, <1>6, <1>7 DEF Gateway

LEMMA NextCallType ==
  PolicyTypeOK /\ ToolCallTypeOK /\ [NextToolCall]_callSystemVars => CallTypeOK'
<1> SUFFICES ASSUME PolicyTypeOK, ToolCallTypeOK, [NextToolCall]_callSystemVars
             PROVE  CallTypeOK'
  OBVIOUS
<1> USE DEF ToolCallTypeOK, CallTypeOK
<1>1. CASE UNCHANGED callVars
  BY <1>1 DEF callVars
<1>2. ASSUME NEW c \in Calls, CallStep(c)
      PROVE  CallTypeOK'
  <2>1. ASSUME NEW ctx \in Contexts, NEW t \in Tools, NEW q \in Requests,
               Authenticate(c, ctx, t, q)
        PROVE  CallTypeOK'
    BY <2>1, NewCalls DEF Authenticate
  <2>2. CASE Gateway(c)
    BY <2>2, GatewayType
  <2>3. CASE Server(c)
    BY <2>3 DEF Server, RejectCredential, NotServed, RunTool, FailTool, Answer, Replies
  <2>4. CASE Crash(c)
    BY <2>4, CallKinds, NewCalls DEF Crash
  <2> QED BY <1>2, <2>1, <2>2, <2>3, <2>4 DEF CallStep
<1> QED BY <1>1, <1>2, Steps

\* What the history of a step may be.
LEMMA HistoryGrows ==
  ASSUME ToolCallTypeOK, [NextToolCall]_callSystemVars, NEW c \in Calls
  PROVE  \/ authorized' = authorized /\ UNCHANGED <<policyVars, calls>>
         \/ authorized'[c] = authorized[c] \union PermittedAs(c)'
<1>1. CASE UNCHANGED callSystemVars
  BY <1>1 DEF callSystemVars, callVars
<1>2. CASE NextToolCall
  BY <1>2 DEF NextToolCall
<1> QED BY <1>1, <1>2

LEMMA NextToolCallType ==
  PolicyTypeOK /\ ToolCallTypeOK /\ [NextToolCall]_callSystemVars => ToolCallTypeOK'
<1> SUFFICES ASSUME PolicyTypeOK, ToolCallTypeOK, [NextToolCall]_callSystemVars
             PROVE  ToolCallTypeOK'
  OBVIOUS
<1>1. CallTypeOK'
  BY NextCallType
<1>2. \A c \in Calls : PermittedAs(c)' \subseteq Principals
  BY DEF PermittedAs
<1>3. authorized' \in [Calls -> SUBSET Principals]
  <2>1. CASE UNCHANGED callSystemVars
    BY <2>1 DEF callSystemVars, ToolCallTypeOK
  <2>2. CASE NextToolCall
    <3>1. authorized' = [c \in Calls |-> authorized[c] \union PermittedAs(c)']
      BY <2>2 DEF NextToolCall
    <3> QED BY <1>2, <3>1 DEF ToolCallTypeOK
  <2> QED BY <2>1, <2>2
<1> QED BY <1>1, <1>3 DEF ToolCallTypeOK, CallTypeOK

LEMMA InitToolCallType == InitToolCall => ToolCallTypeOK
  BY DEF InitToolCall, ToolCallTypeOK, Call

\* Whatever calls do, the policy behaves as Authorization says it does: the
\* handlers of calls change no row of it (services/mcp_service.py), so what
\* is proved of SpecPolicy holds while calls run.
THEOREM ToolCallUsesPolicy == SpecToolCall => SpecPolicy
<1>1. InitToolCall => InitPolicy
  BY DEF InitToolCall
<1>2. [NextToolCall]_callSystemVars => [NextPolicy]_policyVars
  BY Steps
<1> QED BY <1>1, <1>2, PTL DEF SpecToolCall, SpecPolicy

\* The records of calls, the wire and the audit trail always have the shape of
\* ToolCallTypeOK (services/mcp_service.py, audit/events.py).
THEOREM ToolCallTypeCorrect == SpecToolCall => []ToolCallTypeOK
  BY InitToolCallType, NextToolCallType, ToolCallUsesPolicy, PolicyTypeCorrect, PTL DEF SpecToolCall

----------------------------------------------------------------------------
\* The trail.

\* What has happened to a call, by where it is: nothing before it is forwarded;
\* then only its own identity goes over the wire or runs; a request still on
\* the wire has neither run nor been answered, and the effect agrees with the
\* answer.
CallOK(c) ==
  /\ calls[c].at \in {"idle", "authenticated", "decided", "ready"} =>
       /\ wire[c] = None /\ answers[c] = None
       /\ effects[c] = None /\ events[c] = <<>>
  /\ calls[c].at = "forwarded" => events[c] = <<>>
  /\ wire[c] # None =>
       /\ calls[c].at \in {"forwarded", "ended"} /\ calls[c].identity = wire[c]
       /\ effects[c] = None /\ answers[c] = None
  /\ effects[c] # None =>
       calls[c].at \in {"forwarded", "ended"} /\ calls[c].identity = effects[c]
  /\ answers[c] = "result" => effects[c] # None
  /\ answers[c] \in {None, "rejection", "nothing"} => effects[c] = None
  /\ calls[c].at = "ended" =>
       /\ calls[c].how \in {"refused", "failed", "raised"} => wire[c] = None /\ effects[c] = None
       /\ calls[c].how \in {"raised", "crashed"} => events[c] = <<>>
       /\ calls[c].how \in {"refused", "failed", "answered"} => Len(events[c]) = 1
       /\ calls[c].how = "refused" =>
            calls[c].identity = None /\ events[c][1].decision = "deny"
       /\ calls[c].how \in {"failed", "answered"} => events[c][1].identity = calls[c].identity
       /\ Len(events[c]) = 1 /\ events[c][1].decision = "allow" =>
            answers[c] \in {"result", "nothing"}

CallInv == \A c \in Calls : CallOK(c)

\* An action on one call leaves the others as they were.
LEMMA FrameKeepsOthers ==
  ASSUME NEW c \in Calls, Frame(c), NEW d \in Calls, d # c, CallOK(d)
  PROVE  CallOK(d)'
  BY DEF Frame, CallOK

LEMMA OneEvent ==
  ASSUME ToolCallTypeOK, NEW c \in Calls, events[c] = <<>>,
         NEW decision, NEW identity, Audit(c, decision, identity)
  PROVE  /\ Len(events'[c]) = 1
         /\ events'[c] # <<>>
         /\ events'[c][1] = [decision |-> decision, identity |-> identity]
<1>1. events'[c] = <<[decision |-> decision, identity |-> identity]>>
  BY DEF Audit, ToolCallTypeOK
<1> QED BY <1>1

\* An action of the gateway that ends the call and writes its event keeps
\* CallOK when the event is true of the call.
LEMMA EndKeepsCall ==
  ASSUME ToolCallTypeOK, NEW c \in Calls, CallOK(c),
         NEW how \in {"refused", "failed", "answered"}, NEW identity, NEW decision, NEW named,
         calls' = [calls EXCEPT ![c] = Ended(how, identity)],
         calls[c].at \in {"authenticated"} \union Permitted, Audit(c, decision, named),
         UNCHANGED <<wire, answers, effects>>,
         how = "refused" => /\ calls[c].at = "authenticated"
                            /\ identity = None /\ decision = "deny",
         how = "failed" => calls[c].at = "decided" /\ decision = "error",
         how = "answered" => calls[c].at = "forwarded",
         how \in {"failed", "answered"} => identity = calls[c].identity /\ named = identity,
         decision = "allow" => answers[c] \in {"result", "nothing"}
  PROVE  CallOK(c)'
<1>1. events[c] = <<>>
  BY DEF CallOK, Permitted
<1>2. /\ Len(events'[c]) = 1
      /\ events'[c][1].decision = decision /\ events'[c][1].identity = named
  <2>1. /\ Len(events'[c]) = 1
        /\ events'[c][1] = [decision |-> decision, identity |-> named]
    BY <1>1, OneEvent
  <2> QED BY <2>1
<1>3. calls'[c] = [at |-> "ended", how |-> how, identity |-> identity]
  BY DEF ToolCallTypeOK, Ended
<1> QED BY <1>2, <1>3 DEF CallOK

LEMMA GatewayKeepsCall ==
  ASSUME ToolCallTypeOK, NEW c \in Calls, CallOK(c), Gateway(c)
  PROVE  CallOK(c)'
<1> USE DEF Permitted
<1>1. CASE Refuse(c)
  BY <1>1, EndKeepsCall DEF Refuse
<1>2. CASE CredentialRefused(c)
  BY <1>2, EndKeepsCall DEF CredentialRefused
<1>3. CASE CredentialRaises(c)
  BY <1>3 DEF CredentialRaises, CallOK, ToolCallTypeOK, Ended
<1>4. CASE Decide(c) \/ ResolveCredential(c) \/ Forward(c)
  BY <1>4 DEF Decide, ResolveCredential, Forward, CallOK, ToolCallTypeOK, At
<1>5. CASE Answered(c)
  BY <1>5, EndKeepsCall DEF Answered
<1>6. CASE AnsweredError(c) \/ NoAnswer(c)
  BY <1>6, EndKeepsCall DEF AnsweredError, NoAnswer
<1>7. CASE AnsweredRejection(c)
  BY <1>7, NoneIsNoAnswer DEF AnsweredRejection, CallOK, ToolCallTypeOK, Ended, Replies
<1> QED BY <1>1, <1>2, <1>3, <1>4, <1>5, <1>6, <1>7 DEF Gateway

LEMMA ServerKeepsCall ==
  ASSUME ToolCallTypeOK, NEW c \in Calls, CallOK(c), Server(c)
  PROVE  CallOK(c)'
<1>1. /\ wire[c] \in Principals /\ wire'[c] = None
      /\ calls[c].at = "ended" => calls[c].how \notin {"refused", "failed", "raised"}
      /\ UNCHANGED <<calls, events>>
  BY DEF Server, RejectCredential, NotServed, RunTool, FailTool, Answer, CallOK, ToolCallTypeOK
<1>2. CASE RejectCredential(c) \/ NotServed(c)
  BY <1>1, <1>2, NoneIsNoAnswer
  DEF RejectCredential, NotServed, Answer, CallOK, ToolCallTypeOK, Replies
<1>3. CASE RunTool(c)
  BY <1>1, <1>3, NoneIsNoAnswer, PrincipalsDisjoint
  DEF RunTool, Answer, CallOK, ToolCallTypeOK, Replies
<1>4. CASE FailTool(c)
  BY <1>1, <1>4, NoneIsNoAnswer, PrincipalsDisjoint
  DEF FailTool, Answer, CallOK, ToolCallTypeOK, Replies
<1> QED BY <1>2, <1>3, <1>4 DEF Server

LEMMA NextCallInv ==
  ToolCallTypeOK /\ CallInv /\ [NextToolCall]_callSystemVars => CallInv'
<1> SUFFICES ASSUME ToolCallTypeOK, CallInv, [NextToolCall]_callSystemVars
             PROVE  CallInv'
  OBVIOUS
<1>1. CASE UNCHANGED callVars
  BY <1>1 DEF callVars, CallInv, CallOK
<1>2. ASSUME NEW c \in Calls, CallStep(c)
      PROVE  CallInv'
  <2>1. CallOK(c)
    BY DEF CallInv
  <2>2. CASE \E ctx \in Contexts, t \in Tools, q \in Requests : Authenticate(c, ctx, t, q)
    <3>1. CallOK(c)'
      BY <2>1, <2>2 DEF Authenticate, CallOK, ToolCallTypeOK
    <3> QED BY <1>2, <3>1, StepFrame, FrameKeepsOthers DEF CallInv
  <2>3. CASE Gateway(c)
    BY <1>2, <2>1, <2>3, GatewayKeepsCall, StepFrame, FrameKeepsOthers DEF CallInv
  <2>4. CASE Server(c)
    BY <1>2, <2>1, <2>4, ServerKeepsCall, StepFrame, FrameKeepsOthers DEF CallInv
  <2>5. CASE Crash(c)
    <3>1. CallOK(c)'
      BY <2>1, <2>5 DEF Crash, CallOK, ToolCallTypeOK, Ended, Permitted
    <3> QED BY <1>2, <3>1, StepFrame, FrameKeepsOthers DEF CallInv
  <2> QED BY <1>2, <2>2, <2>3, <2>4, <2>5 DEF CallStep
<1> QED BY <1>1, <1>2, Steps

LEMMA InitCallInv == InitToolCall => CallInv
<1> SUFFICES ASSUME InitToolCall, NEW c \in Calls PROVE CallOK(c)
  BY DEF CallInv
<1>1. /\ calls[c].at = "idle" /\ wire[c] = None /\ answers[c] = None
      /\ effects[c] = None /\ events[c] = <<>>
  BY DEF InitToolCall
<1> QED BY <1>1, NoneIsNoAnswer DEF CallOK, Replies

LEMMA CallCorrect == SpecToolCall => []CallInv
  BY InitCallInv, NextCallInv, ToolCallTypeCorrect, PTL DEF SpecToolCall

\* The trail of an ended call says what happened to it
\* (services/mcp_service.py, call_tool(); gateway/api/mcp.py, the final commit).
THEOREM TrailTheorem == SpecToolCall => []TrailMatchesEffects
<1>1. ToolCallTypeOK /\ CallInv => TrailMatchesEffects
  BY CallKinds DEF CallInv, CallOK, TrailMatchesEffects
<1> QED BY <1>1, ToolCallTypeCorrect, CallCorrect, PTL

----------------------------------------------------------------------------
\* What was authorized.

\* A call rests on an identity the documented rules allowed it: any of them while
\* it waits for the decision, one of them from then on.
AuthorizedOK(c) ==
  /\ PermittedAs(c) \subseteq authorized[c]
  /\ calls[c].at \in Permitted => calls[c].identity \in authorized[c]
  /\ calls[c].at = "ended" /\ calls[c].identity # None => calls[c].identity \in authorized[c]

\* The engine decides for one of the identities the documented rules allow.
LEMMA DecisionPermitted ==
  ASSUME PolicyTypeOK, ToolCallTypeOK, NEW c \in Calls, Decide(c)
  PROVE  Decision(c).execution_identity \in PermittedAs(c)
<1>1. /\ calls[c].at = "authenticated"
      /\ Allowed(calls[c].ctx, calls[c].tool, calls[c].requested)
  BY DEF Decide
<1>2. Decision(c).execution_identity \in Principals
  BY <1>1, CallKinds, ExecutionIdentity DEF Decision
<1>3. MayRunAs(calls[c].ctx, calls[c].tool, calls[c].requested, Decision(c).execution_identity)
  BY <1>1, <1>2, CallKinds, EngineIsPolicy DEF EngineMeetsPolicy, Allowed, Decision
<1> QED BY <1>1, <1>2, <1>3 DEF PermittedAs, Allowed

\* Every other step of a call keeps the identity it has, or drops it.
LEMMA IdentityKept ==
  ASSUME ToolCallTypeOK, [NextToolCall]_callSystemVars, NEW c \in Calls, ~Decide(c)
  PROVE  /\ calls'[c].at \in Permitted =>
              calls[c].at \in Permitted /\ calls'[c].identity = calls[c].identity
         /\ calls'[c].at = "ended" /\ calls'[c].identity # None =>
              /\ calls[c].at \in Permitted \/ calls[c].at = "ended"
              /\ calls'[c].identity = calls[c].identity
<1>1. CASE UNCHANGED callVars
  BY <1>1 DEF callVars
<1>2. ASSUME NEW d \in Calls, CallStep(d), d # c
      PROVE  calls'[c] = calls[c]
  BY <1>2, StepFrame DEF Frame
<1>3. CASE CallStep(c)
  <2> USE DEF ToolCallTypeOK, Permitted, At, Ended
  <2>1. CASE \E ctx \in Contexts, t \in Tools, q \in Requests : Authenticate(c, ctx, t, q)
    BY <2>1 DEF Authenticate
  <2>2. CASE Server(c)
    BY <2>2 DEF Server, RejectCredential, NotServed, RunTool, FailTool, Answer
  <2>3. CASE Crash(c)
    BY <2>3 DEF Crash
  <2>4. CASE Refuse(c) \/ ResolveCredential(c) \/ CredentialRefused(c) \/ CredentialRaises(c)
             \/ Forward(c)
    BY <2>4 DEF Refuse, ResolveCredential, CredentialRefused, CredentialRaises, Forward
  <2>5. CASE Answered(c) \/ AnsweredError(c) \/ AnsweredRejection(c) \/ NoAnswer(c)
    BY <2>5 DEF Answered, AnsweredError, AnsweredRejection, NoAnswer
  <2> QED BY <1>3, <2>1, <2>2, <2>3, <2>4, <2>5 DEF CallStep, Gateway
<1> QED BY <1>1, <1>2, <1>3, Steps

LEMMA NextAuthorized ==
  ASSUME PolicyTypeOK, ToolCallTypeOK, [NextToolCall]_callSystemVars, NEW c \in Calls,
         AuthorizedOK(c)
  PROVE  AuthorizedOK(c)'
<1>1. authorized[c] \subseteq authorized'[c]
  BY HistoryGrows
<1>2. PermittedAs(c)' \subseteq authorized'[c]
  <2>1. CASE UNCHANGED <<policyVars, calls>> /\ authorized' = authorized
    <3>1. PermittedAs(c)' = PermittedAs(c)
      BY <2>1 DEF PermittedAs, MayRunAs, permissions_for, policyVars, policy, registry
    <3> QED BY <2>1, <3>1 DEF AuthorizedOK
  <2> QED BY <2>1, HistoryGrows
<1>3. CASE Decide(c)
  <2>1. calls'[c] = At("decided", Decision(c).execution_identity)
    BY <1>3 DEF Decide, ToolCallTypeOK
  <2>2. Decision(c).execution_identity \in authorized'[c]
    BY <1>1, <1>3, DecisionPermitted DEF AuthorizedOK
  <2> QED BY <1>2, <2>1, <2>2 DEF AuthorizedOK, At
<1>4. CASE ~Decide(c)
  BY <1>1, <1>2, <1>4, IdentityKept DEF AuthorizedOK
<1> QED BY <1>3, <1>4

\* Nothing is sent, runs or is said to have been permitted but as an identity the
\* documented rules allowed the call after its caller was authenticated
\* (services/mcp_service.py, call_tool(), steps 1 to 5; authorization/engine.py).
THEOREM AuthorizedTheorem == SpecToolCall => []RunsAsAuthorized
<1> DEFINE AuthorizedInv == \A c \in Calls : AuthorizedOK(c)
<1>1. InitToolCall => AuthorizedInv
  BY DEF InitToolCall, AuthorizedOK, PermittedAs, Permitted
<1>2. PolicyTypeOK /\ ToolCallTypeOK /\ AuthorizedInv /\ [NextToolCall]_callSystemVars
        => AuthorizedInv'
  BY NextAuthorized
<1>3. ToolCallTypeOK /\ CallInv /\ AuthorizedInv => RunsAsAuthorized
  <2> SUFFICES ASSUME ToolCallTypeOK, CallInv, AuthorizedInv, NEW c \in Calls
               PROVE  /\ {wire[c], effects[c]} \ {None} \subseteq authorized[c]
                      /\ \A i \in DOMAIN events[c] :
                           events[c][i].decision # "deny" => events[c][i].identity \in authorized[c]
    BY DEF RunsAsAuthorized
  <2>1. CallOK(c) /\ AuthorizedOK(c) /\ events[c] \in Seq(Event)
    BY DEF CallInv, ToolCallTypeOK
  <2>2. \A i \in Principals : i # None
    BY PrincipalsDisjoint
  <2>3. {wire[c], effects[c]} \ {None} \subseteq authorized[c]
    BY <2>1 DEF CallOK, AuthorizedOK, Permitted
  <2>4. CASE events[c] = <<>>
    BY <2>3, <2>4
  <2>5. CASE events[c] # <<>>
    <3>1. /\ calls[c].at = "ended" /\ calls[c].how \in {"refused", "failed", "answered"}
          /\ Len(events[c]) = 1
      BY <2>1, <2>5, CallKinds DEF CallOK
    <3>2. DOMAIN events[c] = {1} /\ events[c][1] \in Event
      BY <2>1, <3>1
    <3> QED BY <2>1, <2>2, <2>3, <3>1, <3>2 DEF CallOK, AuthorizedOK, Event
  <2> QED BY <2>4, <2>5
<1> QED
  BY <1>1, <1>2, <1>3, ToolCallUsesPolicy, PolicyTypeCorrect, ToolCallTypeCorrect,
     CallCorrect, PTL
  DEF SpecToolCall

----------------------------------------------------------------------------
\* Decisions read across a commit.

\* permits() of what an identity holds through its roles, role by role.
LEMMA PermitsByRole ==
  ASSUME NEW entries, NEW rs, NEW permission
  PROVE  permits(from_roles(entries, rs), permission) <=>
           /\ \E r \in rs : any_matches(entries[r].allow, permission)
           /\ \A r \in rs : ~any_matches(entries[r].deny, permission)
  BY DEF permits, allowed_by, denied_by, from_roles, any_matches

\* A commit that takes nothing, or gives nothing, to any row a decision on a
\* tool with this permission reads.
Widens(permission) ==
  /\ \A p \in Principals :
       permitted_principal(p, permission) => permitted_principal(p, permission)'
  /\ sa_grants \subseteq sa_grants' /\ enabled \subseteq enabled'

Narrows(permission) ==
  /\ \A p \in Principals :
       permitted_principal(p, permission)' => permitted_principal(p, permission)
  /\ sa_grants' \subseteq sa_grants /\ enabled' \subseteq enabled

LEMMA PermittedByRole ==
  ASSUME NEW p, p # None, NEW permission
  PROVE  permitted_principal(p, permission) <=>
           /\ p \in active
           /\ \E r \in roles_of[p] : any_matches(role_entries[r].allow, permission)
           /\ \A r \in roles_of[p] : ~any_matches(role_entries[r].deny, permission)
  BY PermitsByRole DEF permitted_principal, denies, lacks, permissions_for, permits

LEMMA PermittedByRoleNext ==
  ASSUME NEW p, p # None, NEW permission
  PROVE  permitted_principal(p, permission)' <=>
           /\ p \in active'
           /\ \E r \in roles_of'[p] : any_matches(role_entries'[r].allow, permission)
           /\ \A r \in roles_of'[p] : ~any_matches(role_entries'[r].deny, permission)
  BY PermitsByRole DEF permitted_principal, denies, lacks, permissions_for, permits

\* The new entries of a role permit more than the old ones to every holder, or
\* less to every holder: neither allow, deny, nor nothing differ from holder
\* to holder.
LEMMA PutRoleOneWay ==
  ASSUME PolicyTypeOK, NEW r \in Roles, NEW body, PutRole(r, body), NEW permission
  PROVE  Widens(permission) \/ Narrows(permission)
<1>1. /\ role_entries'[r] = body
      /\ \A x \in Roles \ {r} : role_entries'[x] = role_entries[x]
      /\ roles_of' = roles_of /\ active' = active
      /\ sa_grants' = sa_grants /\ enabled' = enabled
      /\ \A p \in Principals : roles_of[p] \subseteq Roles
  BY DEF PutRole, PolicyTypeOK, registry
<1>2. \A p \in Principals : p # None
  BY PrincipalsDisjoint
<1>3. ASSUME NEW p \in Principals
      PROVE  permitted_principal(p, permission) <=>
               /\ p \in active
               /\ \E x \in roles_of[p] : any_matches(role_entries[x].allow, permission)
               /\ \A x \in roles_of[p] : ~any_matches(role_entries[x].deny, permission)
  BY <1>2, PermittedByRole
<1>4. ASSUME NEW p \in Principals
      PROVE  permitted_principal(p, permission)' <=>
               /\ p \in active
               /\ \E x \in roles_of[p] :
                    any_matches(IF x = r THEN body.allow ELSE role_entries[x].allow, permission)
               /\ \A x \in roles_of[p] :
                    ~any_matches(IF x = r THEN body.deny ELSE role_entries[x].deny, permission)
  BY <1>1, <1>2, PermittedByRoleNext
<1>5. CASE any_matches(body.deny, permission) \/ ~any_matches(body.allow, permission)
  <2>1. CASE any_matches(role_entries[r].deny, permission) /\ ~any_matches(body.deny, permission)
    BY <1>1, <1>3, <1>4, <2>1 DEF Widens
  <2>2. CASE ~(any_matches(role_entries[r].deny, permission) /\ ~any_matches(body.deny, permission))
    BY <1>1, <1>3, <1>4, <1>5, <2>2 DEF Narrows
  <2> QED BY <2>1, <2>2
<1>6. CASE ~any_matches(body.deny, permission) /\ any_matches(body.allow, permission)
  BY <1>1, <1>3, <1>4, <1>6 DEF Widens
<1> QED BY <1>5, <1>6

\* A commit that changes one identity only changes one row.
LEMMA OneIdentityOneWay ==
  ASSUME NEW x, NEW permission,
         \A p \in Principals \ {x} :
           permitted_principal(p, permission)' <=> permitted_principal(p, permission),
         sa_grants' = sa_grants, enabled' = enabled
  PROVE  Widens(permission) \/ Narrows(permission)
  BY DEF Widens, Narrows

\* Every commit of the policy moves the rows of a decision one way, and leaves
\* the tool in place when it moves them up.
LEMMA PolicyOneWay ==
  ASSUME PolicyTypeOK, [NextPolicy]_policyVars, NEW t \in Tools, tools[t] # None,
         NEW permission
  PROVE  Narrows(permission) \/ (Widens(permission) /\ tools'[t] = tools[t])
<1> USE DEF registry
<1>1. \A p \in Principals : p # None
  BY PrincipalsDisjoint
<1>2. ASSUME NEW x, active' \ {x} = active \ {x}, role_entries' = role_entries,
             \A p \in Principals \ {x} : roles_of'[p] = roles_of[p]
      PROVE  \A p \in Principals \ {x} :
               permitted_principal(p, permission)' <=> permitted_principal(p, permission)
  BY <1>1, <1>2, PermittedByRole, PermittedByRoleNext
<1>3. ASSUME UNCHANGED <<active, role_entries, roles_of>>
      PROVE  \A p \in Principals :
               permitted_principal(p, permission)' <=> permitted_principal(p, permission)
  BY <1>1, <1>3, PermittedByRole, PermittedByRoleNext
<1>4. CASE UNCHANGED policyVars
  BY <1>3, <1>4 DEF policyVars, policy, Narrows
<1>5. ASSUME NEW p \in Principals, NEW on \in BOOLEAN, SetActive(p, on)
      PROVE  Narrows(permission) \/ (Widens(permission) /\ tools'[t] = tools[t])
  BY <1>2, <1>5, OneIdentityOneWay DEF SetActive, policy
<1>6. CASE Administer
  <2>1. ASSUME NEW r \in Roles, NEW body \in RoleBodies, PutRole(r, body)
        PROVE  Narrows(permission) \/ (Widens(permission) /\ tools'[t] = tools[t])
    BY <2>1, PutRoleOneWay DEF PutRole
  <2>2. ASSUME NEW p \in Principals, NEW rs \in SUBSET Roles,
               NewIdentity(p, rs) \/ AssignRoles(p, rs)
        PROVE  Narrows(permission) \/ (Widens(permission) /\ tools'[t] = tools[t])
    <3>1. /\ active' \ {p} = active \ {p} /\ role_entries' = role_entries
          /\ \A x \in Principals \ {p} : roles_of'[x] = roles_of[x]
          /\ sa_grants' = sa_grants /\ enabled' = enabled /\ tools' = tools
      BY <2>2 DEF NewIdentity, AssignRoles, PolicyTypeOK
    <3> QED BY <1>2, <3>1, OneIdentityOneWay
  <2>3. ASSUME NEW g \in Users \union Agents, NEW sa \in ServiceAccounts,
               GrantServiceAccount(g, sa) \/ RevokeServiceAccount(g, sa)
        PROVE  Narrows(permission) \/ (Widens(permission) /\ tools'[t] = tools[t])
    BY <1>3, <2>3 DEF GrantServiceAccount, RevokeServiceAccount, Widens, Narrows
  <2>4. ASSUME NEW x \in Tools,
               DeleteTool(x) \/ \E spec \in ToolSpecs : RegisterTool(x, spec)
        PROVE  Narrows(permission) \/ (Widens(permission) /\ tools'[t] = tools[t])
    BY <1>3, <2>4 DEF RegisterTool, DeleteTool, Narrows
  <2>5. ASSUME NEW s \in Servers, DeleteServer(s) \/ \E on \in BOOLEAN :
               RegisterServer(s, on) \/ SetServerEnabled(s, on)
        PROVE  Narrows(permission) \/ (Widens(permission) /\ tools'[t] = tools[t])
    BY <1>3, <2>5 DEF DeleteServer, RegisterServer, SetServerEnabled, Widens, Narrows
  <2>6. \/ \E r \in Roles, body \in RoleBodies : PutRole(r, body)
        \/ \E p \in Principals, rs \in SUBSET Roles : NewIdentity(p, rs) \/ AssignRoles(p, rs)
        \/ \E g \in Users \union Agents, sa \in ServiceAccounts :
              GrantServiceAccount(g, sa) \/ RevokeServiceAccount(g, sa)
        \/ \E x \in Tools : DeleteTool(x) \/ \E spec \in ToolSpecs : RegisterTool(x, spec)
        \/ \E s \in Servers : DeleteServer(s) \/ \E on \in BOOLEAN :
              RegisterServer(s, on) \/ SetServerEnabled(s, on)
    BY <1>6 DEF Administer, CreateUser, CreateAgent, CreateServiceAccount, Principals
  <2> QED BY <2>1, <2>2, <2>3, <2>4, <2>5, <2>6
<1>7. CASE LetIn \/ EndWithoutCommit
  BY <1>3, <1>7 DEF LetIn, EndWithoutCommit, policy, Narrows
<1> QED BY <1>4, <1>5, <1>6, <1>7 DEF NextPolicy

\* The rows of one moment allow a call.
RowsAllow(ctx, t, q, tool, sa) ==
  /\ tool = tools[t] /\ tool # None /\ tool.enabled
  /\ ctx.scopes = {} \/ REQUIRED_TOOL_SCOPE \in ctx.scopes
  /\ ToolServer[t] \in enabled
  /\ ctx.user # None => permitted_principal(ctx.user, tool.permission)
  /\ ctx.agent # None => permitted_principal(ctx.agent, tool.permission)
  /\ sa = account_for(ctx, tool, q)
  /\ sa # None => permitted_principal(sa, tool.permission)
  /\ ctx.user # None \/ ctx.agent # None =>
       /\ tool.requires_service_account => sa # None
       /\ sa # None => <<grantee_for(ctx), sa>> \in sa_grants

RowsDecide ==
  \A ctx \in Contexts, t \in Tools, q \in Requests : \A tool, sa :
    RowsAllow(ctx, t, q, tool, sa) => Allowed(ctx, t, q)

LEMMA RowsDecideCorrect == PolicyTypeOK => RowsDecide
<1> SUFFICES ASSUME PolicyTypeOK, NEW ctx \in Contexts, NEW t \in Tools, NEW q \in Requests,
                    NEW tool, NEW sa, RowsAllow(ctx, t, q, tool, sa)
             PROVE  Allowed(ctx, t, q)
  BY DEF RowsDecide
<1>1. ASSUME NEW p, p # None
      PROVE  permitted_principal(p, tool.permission) <=> Usable(p, tool.permission)
  BY <1>1 DEF permitted_principal, Usable, denies, lacks, permits
<1>2. Admitted(ctx, t)
  BY <1>1 DEF RowsAllow, Admitted
<1>3. \A i, x : allow(i, x).effect = "allow"
  BY DEF allow
<1>4. CASE ctx.user = None /\ ctx.agent = None
  <2>1. sa = ctx.service_account /\ sa # None
    BY <1>4, ContextKinds DEF RowsAllow, account_for
  <2> QED BY <1>1, <1>2, <1>3, <1>4, <2>1, OwnDecision DEF RowsAllow, Allowed
<1>5. CASE ctx.user # None \/ ctx.agent # None
  <2>1. authorize_tool(ctx, t, q) = resolve_execution_identity(ctx, tools[t], q)
    BY <1>2, <1>5, ChainDecision
  <2>2. sa # None => sa \in active /\ ~lacks(sa, tool.permission)
    BY DEF RowsAllow, permitted_principal
  <2> QED
    BY <1>3, <1>5, <2>1, <2>2
    DEF RowsAllow, account_for, resolve_execution_identity, Allowed, may_use_service_account
<1> QED BY <1>4, <1>5

\* Rows read on both sides of a commit allow no more than those of its better side.
LEMMA ReadingOneWay ==
  ASSUME PolicyTypeOK, PolicyTypeOK', [NextPolicy]_policyVars, NEW ctx \in Contexts,
         NEW t \in Tools, NEW q \in Requests, NEW late \in SUBSET Rows,
         AllowedReading(ctx, t, q, late)
  PROVE  \E tool, sa : RowsAllow(ctx, t, q, tool, sa) \/ RowsAllow(ctx, t, q, tool, sa)'
<1>1. PICK tool \in {tools[t]} \ {None} : \E sa \in {account_for(ctx, tool, q)} :
        /\ ctx.scopes = {} \/ REQUIRED_TOOL_SCOPE \in ctx.scopes
        /\ tool.enabled
        /\ IF "server" \in late THEN ToolServer[t] \in enabled' ELSE ToolServer[t] \in enabled
        /\ ctx.user # None => ReadUsable("user", late, ctx.user, tool.permission)
        /\ ctx.agent # None => ReadUsable("agent", late, ctx.agent, tool.permission)
        /\ sa # None => ReadUsable("account", late, sa, tool.permission)
        /\ ctx.user # None \/ ctx.agent # None =>
             /\ tool.requires_service_account => sa # None
             /\ sa # None => IF "grant" \in late THEN <<grantee_for(ctx), sa>> \in sa_grants'
                                                 ELSE <<grantee_for(ctx), sa>> \in sa_grants
  BY DEF AllowedReading
<1>2. PICK sa \in {account_for(ctx, tool, q)} :
        /\ ctx.scopes = {} \/ REQUIRED_TOOL_SCOPE \in ctx.scopes
        /\ tool.enabled
        /\ IF "server" \in late THEN ToolServer[t] \in enabled' ELSE ToolServer[t] \in enabled
        /\ ctx.user # None => ReadUsable("user", late, ctx.user, tool.permission)
        /\ ctx.agent # None => ReadUsable("agent", late, ctx.agent, tool.permission)
        /\ sa # None => ReadUsable("account", late, sa, tool.permission)
        /\ ctx.user # None \/ ctx.agent # None =>
             /\ tool.requires_service_account => sa # None
             /\ sa # None => IF "grant" \in late THEN <<grantee_for(ctx), sa>> \in sa_grants'
                                                 ELSE <<grantee_for(ctx), sa>> \in sa_grants
  BY <1>1
<1>3. PICK permission : permission = tool.permission
  OBVIOUS
<1>4. ASSUME NEW row, NEW p
      PROVE  /\ ReadUsable(row, late, p, tool.permission) =>
                  IF row \in late THEN permitted_principal(p, permission)'
                                 ELSE permitted_principal(p, permission)
             /\ permitted_principal(p, permission) => permitted_principal(p, tool.permission)
             /\ permitted_principal(p, permission)' => permitted_principal(p, tool.permission)'
  BY <1>3 DEF ReadUsable
<1>5. /\ ctx.user # None => ctx.user \in Principals
      /\ ctx.agent # None => ctx.agent \in Principals
  BY ContextKinds DEF Principals
<1>6. sa # None => sa \in Principals
  <2>1. active \subseteq Principals /\ active' \subseteq Principals
    BY DEF PolicyTypeOK
  <2> QED BY <1>2, <2>1 DEF ReadUsable, permitted_principal
<1>7. CASE Narrows(permission)
  <2>1. \A row \in Rows, p \in Principals :
          ReadUsable(row, late, p, tool.permission) => permitted_principal(p, tool.permission)
    BY <1>7, <1>4 DEF Narrows
  <2>2. /\ ctx.user # None => permitted_principal(ctx.user, tool.permission)
        /\ ctx.agent # None => permitted_principal(ctx.agent, tool.permission)
        /\ sa # None => permitted_principal(sa, tool.permission)
    BY <1>2, <1>5, <1>6, <2>1 DEF Rows
  <2>3. ToolServer[t] \in enabled
    BY <1>2, <1>7 DEF Narrows
  <2>4. ctx.user # None \/ ctx.agent # None =>
          /\ tool.requires_service_account => sa # None
          /\ sa # None => <<grantee_for(ctx), sa>> \in sa_grants
    BY <1>2, <1>7 DEF Narrows
  <2>5. RowsAllow(ctx, t, q, tool, sa)
    BY <1>2, <2>2, <2>3, <2>4 DEF RowsAllow
  <2> QED BY <2>5
<1>8. CASE Widens(permission) /\ tools'[t] = tools[t]
  <2>1. \A row \in Rows, p \in Principals :
          ReadUsable(row, late, p, tool.permission) => permitted_principal(p, tool.permission)'
    BY <1>8, <1>4 DEF Widens
  <2>2. /\ ctx.user # None => permitted_principal(ctx.user, tool.permission)'
        /\ ctx.agent # None => permitted_principal(ctx.agent, tool.permission)'
        /\ sa # None => permitted_principal(sa, tool.permission)'
    BY <1>2, <1>5, <1>6, <2>1 DEF Rows
  <2>3. ToolServer[t] \in enabled'
    BY <1>2, <1>8 DEF Widens
  <2>4. ctx.user # None \/ ctx.agent # None =>
          /\ tool.requires_service_account => sa # None
          /\ sa # None => <<grantee_for(ctx), sa>> \in sa_grants'
    BY <1>2, <1>8 DEF Widens
  <2>5. RowsAllow(ctx, t, q, tool, sa)'
    BY <1>2, <1>8, <2>2, <2>3, <2>4 DEF RowsAllow
  <2> QED BY <2>5
<1> QED BY <1>2, <1>7, <1>8, PolicyOneWay

\* Whatever a decision reads before and after an administrator's commit, it
\* allows only what one of the two policies allows (authorization/engine.py,
\* _resolve_principals(), _resolve_execution_identity()).
THEOREM OneInstantTheorem == SpecToolCall => DecisionsAreOfOneInstant
<1> DEFINE OneInstant ==
      \A c \in Calls : \A call \in {calls[c]} : call.at = "authenticated" =>
        \A late \in SUBSET Rows :
          AllowedReading(call.ctx, call.tool, call.requested, late) =>
            \/ Allowed(call.ctx, call.tool, call.requested)
            \/ Allowed(call.ctx, call.tool, call.requested)'
<1>1. ASSUME PolicyTypeOK, PolicyTypeOK', ToolCallTypeOK, RowsDecide, RowsDecide',
             [NextPolicy]_policyVars
      PROVE  OneInstant
  <2> SUFFICES ASSUME NEW c \in Calls, NEW call \in {calls[c]}, call.at = "authenticated",
                      NEW late \in SUBSET Rows,
                      AllowedReading(call.ctx, call.tool, call.requested, late)
               PROVE  \/ Allowed(call.ctx, call.tool, call.requested)
                      \/ Allowed(call.ctx, call.tool, call.requested)'
    OBVIOUS
  <2>1. call.ctx \in Contexts /\ call.tool \in Tools /\ call.requested \in Requests
    BY <1>1, CallKinds
  <2>2. PICK tool, sa :
          \/ RowsAllow(call.ctx, call.tool, call.requested, tool, sa)
          \/ RowsAllow(call.ctx, call.tool, call.requested, tool, sa)'
    BY <1>1, <2>1, ReadingOneWay
  <2> QED BY <1>1, <2>1, <2>2 DEF RowsDecide
<1>2. /\ PolicyTypeOK /\ PolicyTypeOK' /\ ToolCallTypeOK /\ RowsDecide /\ RowsDecide'
      /\ [NextPolicy]_policyVars
      => [OneInstant]_callSystemVars
  BY <1>1
<1>3. SpecToolCall => [][NextPolicy]_policyVars
  BY ToolCallUsesPolicy, PTL DEF SpecPolicy
<1> QED
  BY <1>2, <1>3, ToolCallUsesPolicy, PolicyTypeCorrect, RowsDecideCorrect, ToolCallTypeCorrect, PTL
  DEF DecisionsAreOfOneInstant

----------------------------------------------------------------------------
\* The promise of AuditedCall.

\* A step of one call changes what AuditedCall sees of that call only.
LEMMA SeenOfOneCall ==
  ASSUME NEW c \in Calls, Frame(c)
  PROVE  /\ Verdict' = [Verdict EXCEPT ![c] = Verdict'[c]]
         /\ Log' = [Log EXCEPT ![c] = Log'[c]]
         /\ Verdict'[c] = Verdict[c] => Verdict' = Verdict
         /\ Log'[c] = Log[c] => Log' = Log
<1>1. \A d \in Calls : d # c => Verdict'[d] = Verdict[d] /\ Log'[d] = Log[d]
  BY DEF Frame, Verdict, Log
<1>2. /\ DOMAIN Verdict = Calls /\ DOMAIN Verdict' = Calls
      /\ Verdict = [d \in Calls |-> Verdict[d]] /\ Verdict' = [d \in Calls |-> Verdict'[d]]
      /\ DOMAIN Log = Calls /\ DOMAIN Log' = Calls
      /\ Log = [d \in Calls |-> Log[d]] /\ Log' = [d \in Calls |-> Log'[d]]
  BY DEF Verdict, Log
<1> QED BY <1>1, <1>2

\* What AuditedCall sees of a call, by where the call is.
LEMMA SeenOfCall ==
  ASSUME NEW c \in Calls
  PROVE  /\ calls[c].at \in {"idle", "authenticated"} => Verdict[c] = None
         /\ calls[c].at \in Permitted => Verdict[c] = calls[c].identity
         /\ calls[c].at = "ended" =>
              Verdict[c] = IF calls[c].how = "refused" THEN "refused" ELSE calls[c].identity
         /\ events[c] = <<>> => Log[c] = None
         /\ events[c] # <<>> => Log[c] = events[c][1]
  BY DEF Verdict, Log, Permitted

\* Where the call is after a step that goes on with it.
LEMMA SeenOfPermitted ==
  ASSUME ToolCallTypeOK, NEW c \in Calls, NEW stage \in Permitted, NEW identity,
         calls' = [calls EXCEPT ![c] = At(stage, identity)]
  PROVE  Verdict'[c] = identity
<1>1. calls'[c].at = stage /\ calls'[c].identity = identity
  BY DEF ToolCallTypeOK, At
<1>2. Verdict'[c] = CASE calls'[c].at \in Permitted -> calls'[c].identity
                      [] calls'[c].at = "ended" ->
                           IF calls'[c].how = "refused" THEN "refused" ELSE calls'[c].identity
                      [] OTHER -> None
  BY DEF Verdict
<1>3. calls'[c].at # "ended"
  BY <1>1 DEF Permitted
<1> QED BY <1>1, <1>2, <1>3

\* Where the call is after a step that ends it.
LEMMA SeenOfEnded ==
  ASSUME ToolCallTypeOK, NEW c \in Calls, NEW how, NEW identity,
         calls' = [calls EXCEPT ![c] = Ended(how, identity)]
  PROVE  Verdict'[c] = IF how = "refused" THEN "refused" ELSE identity
<1>1. calls'[c] = [at |-> "ended", how |-> how, identity |-> identity]
  BY DEF ToolCallTypeOK, Ended
<1>2. Verdict'[c] = CASE calls'[c].at \in Permitted -> calls'[c].identity
                      [] calls'[c].at = "ended" ->
                           IF calls'[c].how = "refused" THEN "refused" ELSE calls'[c].identity
                      [] OTHER -> None
  BY DEF Verdict
<1> QED BY <1>1, <1>2 DEF Permitted

\* The event of a step that ends a call, as AuditedCall sees it.
LEMMA SeenOfEvent ==
  ASSUME ToolCallTypeOK, NEW c \in Calls, CallOK(c),
         calls[c].at \in {"authenticated"} \union Permitted,
         NEW decision \in {"allow", "deny", "error"}, NEW identity \in Principals,
         Audit(c, decision, identity)
  PROVE  /\ Log[c] = None
         /\ Log'[c] = [decision |-> decision, identity |-> identity]
         /\ Log'[c] \in Promise!Event
<1>1. events[c] = <<>>
  BY DEF CallOK, Permitted
<1>2. events'[c] # <<>> /\ events'[c][1] = [decision |-> decision, identity |-> identity]
  BY <1>1, OneEvent
<1> QED BY <1>1, <1>2 DEF Log, Promise!Event

LEMMA RefusalPromised ==
  ASSUME ToolCallTypeOK, NEW c \in Calls, CallOK(c), Frame(c),
         calls[c].at = "authenticated", calls' = [calls EXCEPT ![c] = Ended("refused", None)],
         NEW identity \in Principals, Audit(c, "deny", identity), UNCHANGED <<answers, effects>>
  PROVE  Promise!Refuse(c)
<1>1. Verdict[c] = None /\ Verdict'[c] = "refused"
  BY SeenOfCall, SeenOfEnded
<1>2. Log'[c] \in Promise!Event /\ Log'[c].decision = "deny"
  <2>1. /\ Log'[c] \in Promise!Event
        /\ Log'[c] = [decision |-> "deny", identity |-> identity]
    BY SeenOfEvent
  <2> QED BY <2>1
<1>3. Verdict' = [Verdict EXCEPT ![c] = "refused"] /\ Log' = [Log EXCEPT ![c] = Log'[c]]
  BY <1>1, SeenOfOneCall
<1> QED BY <1>1, <1>2, <1>3 DEF Promise!Refuse

LEMMA ReportPromised ==
  ASSUME ToolCallTypeOK, NEW c \in Calls, CallOK(c), Frame(c), calls[c].at \in Permitted,
         NEW how \in {"failed", "answered"},
         calls' = [calls EXCEPT ![c] = Ended(how, calls[c].identity)],
         NEW decision \in {"allow", "error"}, Audit(c, decision, calls[c].identity),
         decision = "allow" => answers[c] \in {"result", "nothing"}, UNCHANGED <<answers, effects>>
  PROVE  Promise!Report(c)
<1>1. calls[c].identity \in Principals
  BY CallKinds
<1>2. Verdict[c] = calls[c].identity /\ Verdict' = Verdict
  <2>1. Verdict[c] = calls[c].identity
    BY SeenOfCall
  <2>2. Verdict'[c] = calls[c].identity
    BY SeenOfEnded
  <2> QED BY <2>1, <2>2, SeenOfOneCall
<1>3. /\ Log[c] = None /\ Log'[c] \in Promise!Event
      /\ Log'[c] = [decision |-> decision, identity |-> calls[c].identity]
  BY <1>1, SeenOfEvent
<1>4. Log' = [Log EXCEPT ![c] = Log'[c]]
  BY SeenOfOneCall
<1> QED BY <1>1, <1>2, <1>3, <1>4 DEF Promise!Report

\* A step that AuditedCall does not see.
Unseen == UNCHANGED <<Verdict, answers, effects, Log>>

\* A step that keeps the verdict and writes no event is not seen.
LEMMA QuietStep ==
  ASSUME NEW c \in Calls, Frame(c), Verdict'[c] = Verdict[c],
         UNCHANGED <<answers, effects, events>>
  PROVE  Unseen
<1>1. Log' = Log
  BY DEF Log
<1> QED BY <1>1, SeenOfOneCall DEF Unseen

LEMMA GatewayPromised ==
  ASSUME PolicyTypeOK, ToolCallTypeOK, NEW c \in Calls, CallOK(c), Frame(c), Gateway(c)
  PROVE  Promise!Refuse(c) \/ Promise!Permit(c) \/ Promise!Report(c) \/ Unseen
<1>1. CASE Refuse(c)
  <2>1. execution_identity(calls[c].ctx) \in Principals
    BY <1>1, CallKinds, CallerIdentity DEF Refuse
  <2> QED BY <1>1, <2>1, RefusalPromised DEF Refuse
<1>2. CASE Decide(c)
  <2>1. Decision(c).execution_identity \in Principals
    BY <1>2, CallKinds, ExecutionIdentity DEF Decide, Decision
  <2>2. Verdict[c] = None
    BY <1>2, SeenOfCall DEF Decide
  <2>3. Verdict'[c] = Decision(c).execution_identity
    <3>1. calls' = [calls EXCEPT ![c] = At("decided", Decision(c).execution_identity)]
      BY <1>2 DEF Decide
    <3>2. "decided" \in Permitted
      BY DEF Permitted
    <3> QED BY <3>1, <3>2, SeenOfPermitted
  <2>4. Log' = Log
    BY <1>2 DEF Decide, Log
  <2> QED BY <1>2, <2>1, <2>2, <2>3, <2>4, SeenOfOneCall DEF Decide, Promise!Permit
<1>3. CASE CredentialRefused(c)
  BY <1>3, ReportPromised DEF CredentialRefused, Permitted
<1>4. CASE ResolveCredential(c) \/ Forward(c)
  <2>1. PICK stage \in Permitted : calls' = [calls EXCEPT ![c] = At(stage, calls[c].identity)]
    BY <1>4 DEF ResolveCredential, Forward, Permitted
  <2>2. Verdict'[c] = calls[c].identity
    BY <2>1, SeenOfPermitted
  <2>3. Verdict[c] = calls[c].identity
    BY <1>4, SeenOfCall DEF ResolveCredential, Forward, Permitted
  <2> QED BY <1>4, <2>2, <2>3, QuietStep DEF ResolveCredential, Forward
<1>5. CASE CredentialRaises(c) \/ AnsweredRejection(c)
  <2>1. calls' = [calls EXCEPT ![c] = Ended("raised", calls[c].identity)]
    BY <1>5 DEF CredentialRaises, AnsweredRejection
  <2>2. Verdict'[c] = calls[c].identity
    BY <2>1, SeenOfEnded
  <2>3. Verdict[c] = calls[c].identity
    BY <1>5, SeenOfCall DEF CredentialRaises, AnsweredRejection, Permitted
  <2> QED BY <1>5, <2>2, <2>3, QuietStep DEF CredentialRaises, AnsweredRejection
<1>6. CASE Answered(c) \/ AnsweredError(c) \/ NoAnswer(c)
  BY <1>6, ReportPromised DEF Answered, AnsweredError, NoAnswer, Permitted
<1> QED BY <1>1, <1>2, <1>3, <1>4, <1>5, <1>6 DEF Gateway

LEMMA ServerPromised ==
  ASSUME ToolCallTypeOK, NEW c \in Calls, CallOK(c), Server(c)
  PROVE  Promise!Serve(c)
<1>1. wire[c] # None /\ UNCHANGED <<calls, events>>
  BY DEF Server, RejectCredential, NotServed, RunTool, FailTool, Answer
<1>2. Verdict' = Verdict /\ Log' = Log
  BY <1>1 DEF Verdict, Log
<1>3. wire[c] \in Principals /\ answers[c] = None
  BY <1>1 DEF CallOK, ToolCallTypeOK
<1>4. Verdict[c] = wire[c]
  <2>1. calls[c].at \in {"forwarded", "ended"} /\ calls[c].identity = wire[c]
    BY <1>1 DEF CallOK
  <2>2. calls[c].at = "ended" => calls[c].how # "refused"
    BY <1>1, <2>1 DEF CallOK
  <2> QED BY <2>1, <2>2, SeenOfCall DEF Permitted
<1>5. \E r \in Promise!Replies :
        /\ answers' = [answers EXCEPT ![c] = r]
        /\ \/ r # "result" /\ UNCHANGED effects
           \/ r \in {"result", "error"} /\ effects' = [effects EXCEPT ![c] = wire[c]]
  BY DEF Server, RejectCredential, NotServed, RunTool, FailTool, Answer, Promise!Replies
<1> QED BY <1>2, <1>3, <1>4, <1>5 DEF Promise!Serve

LEMMA NextPromised ==
  PolicyTypeOK /\ ToolCallTypeOK /\ CallInv /\ [NextToolCall]_callSystemVars
    => [Promise!Next]_<<Verdict, answers, effects, Log>>
<1> SUFFICES ASSUME PolicyTypeOK, ToolCallTypeOK, CallInv, [NextToolCall]_callSystemVars
             PROVE  Promise!Next \/ Unseen
  BY DEF Unseen
<1>1. CASE UNCHANGED callVars
  BY <1>1 DEF callVars, Unseen, Verdict, Log
<1>2. ASSUME NEW c \in Calls, CallStep(c)
      PROVE  Promise!Next \/ Unseen
  <2>1. CallOK(c) /\ Frame(c)
    BY <1>2, StepFrame DEF CallInv
  <2>2. CASE Gateway(c)
    BY <2>1, <2>2, GatewayPromised DEF Promise!Next
  <2>3. CASE Server(c)
    BY <2>1, <2>3, ServerPromised DEF Promise!Next
  <2>4. CASE Crash(c)
    <3>1. Verdict'[c] = Verdict[c]
      <4> DEFINE identity == IF calls[c].at \in Permitted THEN calls[c].identity ELSE None
      <4>1. calls' = [calls EXCEPT ![c] = Ended("crashed", identity)]
        BY <2>4 DEF Crash
      <4>2. Verdict[c] = identity
        BY <2>4, SeenOfCall DEF Crash, Permitted
      <4> HIDE DEF identity
      <4>3. Verdict'[c] = identity
        BY <4>1, SeenOfEnded
      <4> QED BY <4>2, <4>3
    <3> QED BY <2>1, <2>4, <3>1, QuietStep DEF Crash
  <2>5. CASE \E ctx \in Contexts, t \in Tools, q \in Requests : Authenticate(c, ctx, t, q)
    <3>1. Verdict'[c] = None /\ Verdict[c] = None
      BY <2>5 DEF Authenticate, Verdict, ToolCallTypeOK, Permitted
    <3> QED BY <2>1, <2>5, <3>1, QuietStep DEF Authenticate
  <2> QED BY <1>2, <2>2, <2>3, <2>4, <2>5 DEF CallStep
<1> QED BY <1>1, <1>2, Steps

LEMMA InitPromised == InitToolCall => Promise!Init
  BY DEF InitToolCall, Promise!Init, Verdict, Log, Permitted

\* A tool call keeps the promise of AuditedCall, for any number of calls and
\* under any policy (services/mcp_service.py, call_tool()).
THEOREM PromiseTheorem == SpecToolCall => PromiseKept
  BY InitPromised, NextPromised, ToolCallUsesPolicy, PolicyTypeCorrect, ToolCallTypeCorrect,
     CallCorrect, PTL
  DEF SpecToolCall, PromiseKept, Promise!Spec

=============================================================================
