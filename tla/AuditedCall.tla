---------------------------- MODULE AuditedCall ----------------------------
(***************************************************************************)
(* What the gateway promises of a tool call, without saying how a call is  *)
(* decided or carried: a call is refused, or is permitted as one identity; *)
(* a permitted call runs at most once, as that identity; a call leaves at  *)
(* most one audit event, which says "deny" of a refused call only, and     *)
(* otherwise names the permitted identity and says "allow" only of a call  *)
(* whose server answered and reported no error.                            *)
(***************************************************************************)
CONSTANTS Calls, Identities, None

VARIABLES
  verdict,  \* the identity a call was permitted as, "refused", or None
  reply,    \* how the server answered, or None
  effect,   \* the identity the tool ran as, or None
  log       \* the call's audit event, or None

Replies == {"rejection", "result", "error", "nothing"}

Event == [decision : {"allow", "deny", "error"}, identity : Identities]

Refuse(c) ==
  /\ verdict[c] = None
  /\ verdict' = [verdict EXCEPT ![c] = "refused"]
  /\ \E e \in Event : e.decision = "deny" /\ log' = [log EXCEPT ![c] = e]
  /\ UNCHANGED <<reply, effect>>

Permit(c) ==
  /\ verdict[c] = None
  /\ \E i \in Identities : verdict' = [verdict EXCEPT ![c] = i]
  /\ UNCHANGED <<reply, effect, log>>

\* The server answers once.  It has run the tool if it answers with a result, has
\* not if it refused or found nothing to run, and may have if it reports an error.
Serve(c) ==
  /\ verdict[c] \in Identities
  /\ reply[c] = None
  /\ \E r \in Replies :
       /\ reply' = [reply EXCEPT ![c] = r]
       /\ \/ r # "result" /\ UNCHANGED effect
          \/ /\ r \in {"result", "error"}
             /\ effect' = [effect EXCEPT ![c] = verdict[c]]
  /\ UNCHANGED <<verdict, log>>

Report(c) ==
  /\ verdict[c] \in Identities
  /\ log[c] = None
  /\ \E e \in Event : /\ e.identity = verdict[c]
                      /\ e.decision # "deny"
                      /\ e.decision = "allow" => reply[c] \in {"result", "nothing"}
                      /\ log' = [log EXCEPT ![c] = e]
  /\ UNCHANGED <<verdict, reply, effect>>

Init ==
  /\ verdict = [c \in Calls |-> None]
  /\ reply = [c \in Calls |-> None]
  /\ effect = [c \in Calls |-> None]
  /\ log = [c \in Calls |-> None]

Next == \E c \in Calls : Refuse(c) \/ Permit(c) \/ Serve(c) \/ Report(c)

Spec == Init /\ [][Next]_<<verdict, reply, effect, log>>

=============================================================================
