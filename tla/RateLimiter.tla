---------------------------- MODULE RateLimiter ----------------------------
(***************************************************************************)
(* The fixed-window counter of requests per identity                       *)
(* (agentid/gateway/middleware/ratelimit.py), shared by the threads that   *)
(* authenticate requests.  rate_limit_enabled is on, as by default.        *)
(*                                                                         *)
(* A thread reads the clock first and takes the lock afterwards: other     *)
(* threads may count, and open windows, in between.                        *)
(***************************************************************************)
EXTENDS Integers, FiniteSets

CONSTANTS
  Calls,          \* requests
  KeyOf,          \* Calls -> the identity a request is counted under
  Limit,          \* rate_limit_requests
  WindowSeconds,  \* rate_limit_window_seconds
  MaxTime,        \* bound of the clock
  None

ASSUME LimiterAssumption ==
  /\ IsFiniteSet(Calls)
  /\ DOMAIN KeyOf = Calls
  /\ Limit \in Nat
  /\ WindowSeconds \in Nat \ {0}
  /\ MaxTime \in Nat
  /\ None \notin Nat

ASSUME NoneIsNoRecord ==
  None \notin [count : Nat, reset_at : Nat]
                \union [at : Nat, window : Nat, admitted : BOOLEAN]

Keys == {KeyOf[c] : c \in Calls}

VARIABLES
  now,         \* time.monotonic()
  windows,     \* Keys -> the window of the key, or None
  clock_read,  \* Calls -> the time the request's thread has read, or None
  counted      \* history: Calls -> when and in which window it was counted

limiterVars == <<now, windows, clock_read, counted>>

----------------------------------------------------------------------------
\* check(), before the lock.
ReadClock(c) ==
  /\ clock_read[c] = None
  /\ clock_read' = [clock_read EXCEPT ![c] = now]
  /\ UNCHANGED <<now, windows, counted>>

window_for_Sliding(c) ==
  [count |-> 0, reset_at |-> clock_read[c] + WindowSeconds]

window_for_Backwards(c) ==
  [count |-> 0, reset_at |-> clock_read[c] - WindowSeconds]

\* The window of the request's key, or a new one if that has run out.
window_for(c) ==
  LET window == windows[KeyOf[c]]
  IN  IF window = None \/ (window # None /\ window.reset_at <= clock_read[c])
      THEN [count |-> 0, reset_at |-> clock_read[c] + WindowSeconds]
      ELSE window

within_limit_OffByOne(c) == window_for(c).count + 1 < Limit

\* The request is counted, whether or not there is room for it.
within_limit(c) == window_for(c).count + 1 <= Limit

\* check(), under the lock.
Check(c) ==
  /\ clock_read[c] # None
  /\ counted[c] = None
  /\ windows' = [windows EXCEPT ![KeyOf[c]] =
                   [window_for(c) EXCEPT !.count = @ + 1]]
  /\ counted' = [counted EXCEPT ![c] =
       [at |-> now, window |-> window_for(c).reset_at, admitted |-> within_limit(c)]]
  /\ UNCHANGED <<now, clock_read>>

Tick ==
  /\ now < MaxTime
  /\ now' = now + 1
  /\ UNCHANGED <<windows, clock_read, counted>>

InitLimiter ==
  /\ now = 0
  /\ windows = [k \in Keys |-> None]
  /\ clock_read = [c \in Calls |-> None]
  /\ counted = [c \in Calls |-> None]

NextLimiter == Tick \/ \E c \in Calls : ReadClock(c) \/ Check(c)

SpecLimiter == InitLimiter /\ [][NextLimiter]_limiterVars

----------------------------------------------------------------------------
\* Properties.

\* The shape of the state.
LimiterTypeOK ==
  /\ now \in Nat
  /\ windows \in [Keys -> [count : Nat, reset_at : Nat] \union {None}]
  /\ clock_read \in [Calls -> Nat \union {None}]
  /\ counted \in [Calls -> [at : Nat, window : Nat, admitted : BOOLEAN] \union {None}]

Admitted(c) == counted[c] # None /\ counted[c].admitted
Refused(c) == counted[c] # None /\ ~counted[c].admitted

\* The thread of the request took the lock at the time it had read.
Prompt(c) == counted[c] # None /\ clock_read[c] = counted[c].at

AdmittedBetween(k, first, last) ==
  {c \in Calls : KeyOf[c] = k /\ Admitted(c) /\ counted[c].at \in first .. last}

\* Of the requests whose thread is not held up between the clock and the lock,
\* an identity gets at most twice its limit admitted in any interval as long as
\* a window, as much as around the boundary of two: slow threads, which open
\* windows of the past and count old requests in new ones, do not change that.
\* The slow ones themselves are bounded only by window (ratelimit.py, check()).
BurstBounded ==
  \A k \in Keys, t \in 0 .. MaxTime :
    Cardinality({c \in AdmittedBetween(k, t, t + WindowSeconds - 1) : Prompt(c)})
      <= 2 * Limit

AdmittedTo(k, window) ==
  {c \in Calls : KeyOf[c] = k /\ Admitted(c) /\ counted[c].window = window}

\* Who is refused has used up the limit: no identity is refused for what others
\* do, or by a window that had ended when the request's thread read the clock.
\* A thread that got the lock at once is refused only by requests admitted
\* within the last window's length; one that had to wait may be refused later
\* than that (ratelimit.py, check(): the window is replaced once reset_at has
\* come, by the clock of the thread).
RefusedAtLimitOnly ==
  \A c \in Calls : Refused(c) =>
    /\ clock_read[c] < counted[c].window
    /\ Cardinality(AdmittedTo(KeyOf[c], counted[c].window)) >= Limit
    /\ Prompt(c) =>
         Cardinality(AdmittedBetween(KeyOf[c], counted[c].at - WindowSeconds + 1,
                                     counted[c].at)) >= Limit

=============================================================================
