----------------------------- MODULE Authority -----------------------------
(***************************************************************************)
(* What the gateway promises of the credentials a login leads to, without  *)
(* saying how they are issued, exchanged or checked: a login happens once  *)
(* and gives its user a credential; a mandate is given once and gives an   *)
(* agent of the same user another; a credential works only while its login *)
(* is open and its mandate live; and what has ceased, a login, a mandate   *)
(* or a credential, never comes back.                                      *)
(***************************************************************************)
CONSTANTS Logins, Users, Agents, Mandates, None

VARIABLES
  begun,    \* the logins that have happened
  open,     \* those not over: <<login, user>>
  given,    \* the mandates that have been given
  live,     \* those not over: <<mandate, user, agent>>
  working   \* the credentials that work

authorityVars == <<begun, open, given, live, working>>

Credential(l, u, a, m) == [login |-> l, user |-> u, agent |-> a, mandate |-> m]

Backed(c) ==
  /\ <<c.login, c.user>> \in open
  /\ c.agent # None => <<c.mandate, c.user, c.agent>> \in live

Begin(l, u) ==
  /\ l \notin begun
  /\ begun' = begun \union {l}
  /\ open' = open \union {<<l, u>>}
  /\ working' = working \union {Credential(l, u, None, None)}
  /\ UNCHANGED <<given, live>>

Delegate(l, u, a, m) ==
  /\ <<l, u>> \in open /\ m \notin given
  /\ given' = given \union {m}
  /\ live' = live \union {<<m, u, a>>}
  /\ working' = working \union {Credential(l, u, a, m)}
  /\ UNCHANGED <<begun, open>>

\* The login may be over by the time the mandate is given, or the credential
\* be lost on its way: the mandate is then one nobody can use.
DelegateInVain(u, a, m) ==
  /\ m \notin given
  /\ given' = given \union {m}
  /\ live' = live \union {<<m, u, a>>}
  /\ UNCHANGED <<begun, open, working>>

\* The mandate's own time may be over, too.
DelegateTooLate(m) ==
  /\ m \notin given
  /\ given' = given \union {m}
  /\ UNCHANGED <<begun, open, live, working>>

Cease ==
  /\ UNCHANGED <<begun, given>>
  /\ open' \subseteq open
  /\ live' \subseteq live
  /\ working' \subseteq working
  /\ \A c \in working' : Backed(c)'

Init == begun = {} /\ open = {} /\ given = {} /\ live = {} /\ working = {}

Next ==
  \/ Cease
  \/ \E l \in Logins, u \in Users : Begin(l, u)
  \/ \E l \in Logins, u \in Users, a \in Agents, m \in Mandates : Delegate(l, u, a, m)
  \/ \E u \in Users, a \in Agents, m \in Mandates : DelegateInVain(u, a, m)
  \/ \E m \in Mandates : DelegateTooLate(m)

Spec == Init /\ [][Next]_authorityVars

----------------------------------------------------------------------------
\* What the specification gives: a credential that works is backed, and one
\* that begins to work owes it to a login or a mandate that is new, so nothing
\* that has ceased to work works again.
WorkingIsBacked == \A c \in working : Backed(c)

NothingReturns ==
  [][ \A c \in working' \ working : c.login \notin begun \/ c.mandate \notin given
    ]_authorityVars

=============================================================================
