--------------------------- MODULE ServingProofs ---------------------------
(***************************************************************************)
(* Proofs about the rate limiter and about the transactions of requests.   *)
(*                                                                         *)
(* The limiter's invariant says that the windows of a key follow each      *)
(* other at least a window's length apart, that the count of a window is   *)
(* the number of requests counted in it, and that the first Limit of them  *)
(* are the ones that were admitted.                                        *)
(***************************************************************************)
EXTENDS Serving, FiniteSetTheorems, TLAPS

Window == [count : Nat, reset_at : Nat]

CountedRecord == [at : Nat, window : Nat, admitted : BOOLEAN]

\* The requests of key k counted in its window that ends at r.
CountedIn(k, r) ==
  {c \in Calls : KeyOf[c] = k /\ counted[c] # None /\ counted[c].window = r}

AdmittedIn(k, r) == {c \in CountedIn(k, r) : counted[c].admitted}

\* The admitted requests of a request's window that were not counted after it.
AdmittedBefore(c) ==
  {d \in AdmittedIn(KeyOf[c], counted[c].window) : counted[d].at <= counted[c].at}

\* A thread counts in a window that had begun, and had not ended when the
\* thread read the clock.
CountedInTime ==
  \A c \in Calls : counted[c] # None =>
    /\ clock_read[c] # None
    /\ clock_read[c] <= counted[c].at
    /\ clock_read[c] < counted[c].window
    /\ counted[c].at <= now
    /\ counted[c].window - WindowSeconds <= counted[c].at

ReadInTime == \A c \in Calls : clock_read[c] # None => clock_read[c] <= now

\* The current window of a key began in the past and is its last, and what it
\* counts is what was counted in it.
CurrentWindow ==
  \A k \in Keys : windows[k] # None =>
    /\ windows[k].reset_at - WindowSeconds <= now
    /\ windows[k].count = Cardinality(CountedIn(k, windows[k].reset_at))
    /\ \/ CountedIn(k, windows[k].reset_at) \subseteq AdmittedIn(k, windows[k].reset_at)
       \/ Cardinality(AdmittedIn(k, windows[k].reset_at)) >= Limit

LastWindow ==
  \A c \in Calls : counted[c] # None =>
    /\ windows[KeyOf[c]] # None
    /\ \/ counted[c].window = windows[KeyOf[c]].reset_at
       \/ counted[c].window + WindowSeconds <= windows[KeyOf[c]].reset_at

\* Two windows of a key are the same or do not overlap.
WindowsApart ==
  \A c, d \in Calls :
    counted[c] # None /\ counted[d] # None /\ KeyOf[c] = KeyOf[d] =>
      \/ counted[c].window = counted[d].window
      \/ counted[c].window + WindowSeconds <= counted[d].window
      \/ counted[d].window + WindowSeconds <= counted[c].window

WithinLimit ==
  \A k \in Keys, r \in Nat : Cardinality(AdmittedIn(k, r)) <= Limit

RefusedAfterLimit ==
  \A c \in Calls : Refused(c) => Cardinality(AdmittedBefore(c)) >= Limit

LimiterInv ==
  /\ LimiterTypeOK
  /\ ReadInTime
  /\ CountedInTime
  /\ CurrentWindow
  /\ LastWindow
  /\ WindowsApart
  /\ WithinLimit
  /\ RefusedAfterLimit

----------------------------------------------------------------------------
\* The sets of requests the invariant counts are finite.
LEMMA CountedFinite ==
  ASSUME NEW k, NEW r
  PROVE  /\ IsFiniteSet(CountedIn(k, r))
         /\ IsFiniteSet(AdmittedIn(k, r))
         /\ AdmittedIn(k, r) \subseteq CountedIn(k, r)
         /\ Cardinality(CountedIn(k, r)) \in Nat
         /\ Cardinality(AdmittedIn(k, r)) \in Nat
         /\ Cardinality(AdmittedIn(k, r)) <= Cardinality(CountedIn(k, r))
<1>1. CountedIn(k, r) \subseteq Calls BY DEF CountedIn
<1>2. AdmittedIn(k, r) \subseteq CountedIn(k, r) BY DEF AdmittedIn
<1>3. IsFiniteSet(CountedIn(k, r)) BY <1>1, FS_Subset, LimiterAssumption
<1>4. /\ IsFiniteSet(AdmittedIn(k, r))
      /\ Cardinality(AdmittedIn(k, r)) <= Cardinality(CountedIn(k, r))
  BY <1>2, <1>3, FS_Subset
<1> QED BY <1>2, <1>3, <1>4, FS_CardinalityType

\* The invariant holds before the first request.
LEMMA LimiterStarts == InitLimiter => LimiterInv
<1> SUFFICES ASSUME InitLimiter PROVE LimiterInv OBVIOUS
<1> USE LimiterAssumption DEF InitLimiter
<1>1. LimiterTypeOK BY DEF LimiterTypeOK
<1>2. \A c \in Calls : counted[c] = None /\ clock_read[c] = None OBVIOUS
<1>3. WithinLimit
  <2> SUFFICES ASSUME NEW k \in Keys, NEW r \in Nat
               PROVE  Cardinality(AdmittedIn(k, r)) <= Limit
    BY DEF WithinLimit
  <2>1. AdmittedIn(k, r) = {} BY <1>2 DEF AdmittedIn, CountedIn
  <2> QED BY <2>1, FS_EmptySet
<1>4. /\ ReadInTime /\ CountedInTime /\ LastWindow /\ WindowsApart
      /\ CurrentWindow /\ RefusedAfterLimit
  BY <1>2 DEF ReadInTime, CountedInTime, LastWindow, WindowsApart, CurrentWindow,
              RefusedAfterLimit, Refused, Keys
<1> QED BY <1>1, <1>3, <1>4 DEF LimiterInv

\* The sets depend on what was counted and on nothing else.
LEMMA CountedSame ==
  ASSUME counted' = counted
  PROVE  /\ \A k, r : CountedIn(k, r)' = CountedIn(k, r)
         /\ \A k, r : AdmittedIn(k, r)' = AdmittedIn(k, r)
         /\ \A c : AdmittedBefore(c)' = AdmittedBefore(c)
BY DEF CountedIn, AdmittedIn, AdmittedBefore

\* Reading the clock, and its ticking, preserve the invariant.
LEMMA ClockPreserves ==
  ASSUME LimiterInv, Tick \/ \E c \in Calls : ReadClock(c)
  PROVE  LimiterInv'
<1> USE LimiterAssumption DEF LimiterInv
<1>1. /\ counted' = counted /\ windows' = windows
      /\ now \in Nat /\ now' \in Nat /\ now <= now'
      /\ clock_read' \in [Calls -> Nat \union {None}]
      /\ \A c \in Calls : clock_read[c] # None => clock_read'[c] = clock_read[c]
      /\ \A c \in Calls : clock_read'[c] # None => clock_read'[c] <= now'
  <2>1. CASE Tick BY <2>1 DEF Tick, LimiterTypeOK, ReadInTime
  <2>2. ASSUME NEW c \in Calls, ReadClock(c) PROVE <1>1!:
    BY <2>2 DEF ReadClock, LimiterTypeOK, ReadInTime
  <2> QED BY <2>1, <2>2
<1>2. LimiterTypeOK' BY <1>1 DEF LimiterTypeOK
<1>3. ReadInTime' BY <1>1 DEF ReadInTime
<1>4. CountedInTime' BY <1>1 DEF CountedInTime, LimiterTypeOK
<1>5. CurrentWindow'
  BY <1>1, CountedSame, NoneIsNoRecord DEF CurrentWindow, LimiterTypeOK
<1>6. LastWindow' /\ WindowsApart' BY <1>1 DEF LastWindow, WindowsApart
<1>7. WithinLimit' BY <1>1, CountedSame DEF WithinLimit
<1>8. RefusedAfterLimit' BY <1>1, CountedSame DEF RefusedAfterLimit, Refused
<1> QED BY <1>2, <1>3, <1>4, <1>5, <1>6, <1>7, <1>8

\* What the window a request is counted in has counted before it.
LEMMA WindowFor ==
  ASSUME LimiterInv, NEW c \in Calls, Check(c)
  PROVE  LET k == KeyOf[c]
             w == window_for(c)
         IN  /\ w \in Window
             /\ clock_read[c] \in Nat
             /\ clock_read[c] < w.reset_at
             /\ w.reset_at - WindowSeconds <= now
             /\ w.count = Cardinality(CountedIn(k, w.reset_at))
             /\ \/ CountedIn(k, w.reset_at) \subseteq AdmittedIn(k, w.reset_at)
                \/ Cardinality(AdmittedIn(k, w.reset_at)) >= Limit
             /\ \A d \in Calls : counted[d] # None /\ KeyOf[d] = k =>
                  \/ counted[d].window = w.reset_at
                  \/ counted[d].window + WindowSeconds <= w.reset_at
<1> DEFINE k == KeyOf[c]
           w == window_for(c)
<1> USE LimiterAssumption, NoneIsNoRecord DEF LimiterInv, LimiterTypeOK
<1>1. k \in Keys BY DEF Keys
<1>2. clock_read[c] \in Nat /\ clock_read[c] <= now
  BY DEF Check, ReadInTime
<1>3. windows[k] = None \/ windows[k] \in Window BY <1>1 DEF Window
<1>4. CASE windows[k] # None /\ ~(windows[k].reset_at <= clock_read[c])
  <2>1. w = windows[k] BY <1>4 DEF window_for
  <2> HIDE DEF w
  <2>2. w \in Window /\ clock_read[c] < w.reset_at
    BY <1>2, <1>3, <1>4, <2>1 DEF Window
  <2>3. /\ w.reset_at - WindowSeconds <= now
        /\ w.count = Cardinality(CountedIn(k, w.reset_at))
        /\ \/ CountedIn(k, w.reset_at) \subseteq AdmittedIn(k, w.reset_at)
           \/ Cardinality(AdmittedIn(k, w.reset_at)) >= Limit
    BY <1>1, <1>4, <2>1 DEF CurrentWindow
  <2>4. \A d \in Calls : counted[d] # None /\ KeyOf[d] = k =>
          \/ counted[d].window = w.reset_at
          \/ counted[d].window + WindowSeconds <= w.reset_at
    BY <2>1 DEF LastWindow
  <2> QED BY <1>2, <2>2, <2>3, <2>4 DEF w
<1>5. CASE ~(windows[k] # None /\ ~(windows[k].reset_at <= clock_read[c]))
  <2>1. w = [count |-> 0, reset_at |-> clock_read[c] + WindowSeconds]
    BY <1>5 DEF window_for
  <2> HIDE DEF w
  <2>2. /\ w \in Window /\ w.count = 0
        /\ w.reset_at = clock_read[c] + WindowSeconds
    BY <1>2, <2>1 DEF Window
  <2>3. ASSUME NEW d \in Calls, counted[d] # None, KeyOf[d] = k
        PROVE  /\ counted[d].window \in Nat
               /\ counted[d].window + WindowSeconds <= w.reset_at
    <3>1. counted[d] \in CountedRecord BY <2>3 DEF CountedRecord
    <3>2. windows[k] # None /\ counted[d].window <= windows[k].reset_at
      BY <1>3, <2>3, <3>1 DEF LastWindow, Window, CountedRecord
    <3>3. windows[k].reset_at <= clock_read[c] /\ windows[k].reset_at \in Nat
      BY <1>3, <1>5, <3>2 DEF Window
    <3> QED BY <1>2, <2>2, <3>1, <3>2, <3>3 DEF CountedRecord
  <2>4. CountedIn(k, w.reset_at) = {}
    BY <2>2, <2>3 DEF CountedIn, Window
  <2>5. w.count = Cardinality(CountedIn(k, w.reset_at))
    BY <2>2, <2>4, FS_EmptySet
  <2>6. CountedIn(k, w.reset_at) \subseteq AdmittedIn(k, w.reset_at)
    BY <2>4
  <2>7. clock_read[c] < w.reset_at /\ w.reset_at - WindowSeconds <= now
    BY <1>2, <2>2
  <2> QED BY <1>2, <2>2, <2>3, <2>5, <2>6, <2>7 DEF w
<1> QED BY <1>4, <1>5

\* What counting a request adds to the sets.
LEMMA CountingAdds ==
  ASSUME LimiterInv, NEW c \in Calls, Check(c),
         NEW k, k = KeyOf[c],
         NEW r, r = window_for(c).reset_at,
         NEW fits, fits = within_limit(c)
  PROVE  /\ c \notin CountedIn(k, r)
         /\ CountedIn(k, r)' = CountedIn(k, r) \union {c}
         /\ AdmittedIn(k, r)' =
              IF fits THEN AdmittedIn(k, r) \union {c}
              ELSE AdmittedIn(k, r)
         /\ \A j, q : j # k \/ q # r =>
              /\ CountedIn(j, q)' = CountedIn(j, q)
              /\ AdmittedIn(j, q)' = AdmittedIn(j, q)
<1>1. /\ counted \in [Calls -> CountedRecord \union {None}]
      /\ counted[c] = None
      /\ counted' = [counted EXCEPT ![c] =
            [at |-> now, window |-> r, admitted |-> fits]]
      /\ None # [at |-> now, window |-> r, admitted |-> fits]
  <2>1. r \in Nat /\ now \in Nat
    BY WindowFor DEF Window, LimiterInv, LimiterTypeOK
  <2>2. fits \in BOOLEAN BY DEF within_limit
  <2> QED BY <2>1, <2>2, NoneIsNoRecord
          DEF Check, LimiterInv, LimiterTypeOK, CountedRecord
<1>2. /\ counted'[c] # None /\ counted'[c].window = r
      /\ counted'[c].admitted = fits
      /\ \A d \in Calls : d # c => counted'[d] = counted[d]
  BY <1>1
<1>3. /\ c \notin CountedIn(k, r)
      /\ CountedIn(k, r)' = CountedIn(k, r) \union {c}
      /\ AdmittedIn(k, r)' =
           IF fits THEN AdmittedIn(k, r) \union {c}
           ELSE AdmittedIn(k, r)
  BY <1>1, <1>2 DEF CountedIn, AdmittedIn
<1>4. \A j, q : j # k \/ q # r =>
        /\ CountedIn(j, q)' = CountedIn(j, q)
        /\ AdmittedIn(j, q)' = AdmittedIn(j, q)
  BY <1>1, <1>2 DEF CountedIn, AdmittedIn
<1> QED BY <1>3, <1>4

\* Counting a request preserves the invariant.
LEMMA CheckPreserves ==
  ASSUME LimiterInv, NEW c \in Calls, Check(c)
  PROVE  LimiterInv'
<1> USE LimiterAssumption
<1>b. within_limit(c) \in BOOLEAN BY DEF within_limit
<1>1. PICK k, r, n, fits :
        k = KeyOf[c] /\ r = window_for(c).reset_at /\ n = window_for(c).count
          /\ fits = within_limit(c) /\ fits \in BOOLEAN
  BY <1>b, Zenon
<1>2. /\ k \in Keys /\ r \in Nat /\ n \in Nat
      /\ clock_read[c] \in Nat
      /\ clock_read[c] < r
      /\ r - WindowSeconds <= now
      /\ n = Cardinality(CountedIn(k, r))
      /\ \/ CountedIn(k, r) \subseteq AdmittedIn(k, r)
         \/ Cardinality(AdmittedIn(k, r)) >= Limit
      /\ \A d \in Calls : counted[d] # None /\ KeyOf[d] = k =>
           \/ counted[d].window = r
           \/ counted[d].window + WindowSeconds <= r
  BY <1>1, WindowFor DEF Window, Keys
<1>f. fits \in BOOLEAN /\ (fits <=> n + 1 <= Limit)
  <2>1. fits <=> within_limit(c) BY <1>1, Zenon
  <2>2. within_limit(c) <=> n + 1 <= Limit BY <1>1, Zenon DEF within_limit
  <2> QED BY <1>1, <2>1, <2>2, Zenon
<1>3. /\ c \notin CountedIn(k, r)
      /\ CountedIn(k, r)' = CountedIn(k, r) \union {c}
      /\ AdmittedIn(k, r)' = IF fits THEN AdmittedIn(k, r) \union {c}
                             ELSE AdmittedIn(k, r)
      /\ \A j, q : j # k \/ q # r =>
           /\ CountedIn(j, q)' = CountedIn(j, q)
           /\ AdmittedIn(j, q)' = AdmittedIn(j, q)
  BY <1>1, CountingAdds
<1>4. /\ now \in Nat /\ now' = now
      /\ clock_read \in [Calls -> Nat \union {None}] /\ clock_read' = clock_read
      /\ windows \in [Keys -> Window \union {None}]
      /\ windows' = [windows EXCEPT ![k] = [count |-> n + 1, reset_at |-> r]]
      /\ counted \in [Calls -> CountedRecord \union {None}]
      /\ counted[c] = None
      /\ counted' = [counted EXCEPT ![c] =
            [at |-> now, window |-> r, admitted |-> fits]]
  <2>1. [window_for(c) EXCEPT !.count = @ + 1] = [count |-> n + 1, reset_at |-> r]
    BY <1>1, WindowFor DEF Window
  <2> QED BY <1>1, <2>1 DEF Check, LimiterInv, LimiterTypeOK, Window, CountedRecord
<1>5. /\ [count |-> n + 1, reset_at |-> r] \in Window
      /\ [at |-> now, window |-> r, admitted |-> fits] \in CountedRecord
      /\ None # [count |-> n + 1, reset_at |-> r]
      /\ None # [at |-> now, window |-> r, admitted |-> fits]
  BY <1>2, <1>4, <1>f, NoneIsNoRecord DEF Window, CountedRecord
<1>6. /\ windows' \in [Keys -> Window \union {None}]
      /\ windows'[k] # None /\ windows'[k].count = n + 1 /\ windows'[k].reset_at = r
      /\ \A j \in Keys : j # k => windows'[j] = windows[j]
      /\ counted' \in [Calls -> CountedRecord \union {None}]
      /\ counted'[c] # None /\ counted'[c].at = now /\ counted'[c].window = r
      /\ counted'[c].admitted = fits
      /\ \A d \in Calls : d # c => counted'[d] = counted[d]
  BY <1>2, <1>f, <1>4, <1>5
<1>7. LimiterTypeOK' BY <1>4, <1>6 DEF LimiterTypeOK, Window, CountedRecord
<1>8. ReadInTime' BY <1>4 DEF LimiterInv, ReadInTime
<1>9. CountedInTime'
  BY <1>2, <1>f, <1>4, <1>6 DEF LimiterInv, CountedInTime, ReadInTime, Check
<1>10. LastWindow'
  <2> SUFFICES ASSUME NEW d \in Calls, counted'[d] # None
               PROVE  /\ windows'[KeyOf[d]] # None
                      /\ \/ counted'[d].window = windows'[KeyOf[d]].reset_at
                         \/ counted'[d].window + WindowSeconds <= windows'[KeyOf[d]].reset_at
    BY DEF LastWindow
  <2>1. CASE d = c BY <1>1, <1>6, <2>1
  <2>2. CASE d # c /\ KeyOf[d] = k BY <1>2, <1>f, <1>6, <2>2
  <2>3. CASE d # c /\ KeyOf[d] # k
    BY <1>6, <2>3 DEF LimiterInv, LastWindow, Keys
  <2> QED BY <2>1, <2>2, <2>3
<1>11. WindowsApart'
  <2> SUFFICES ASSUME NEW d \in Calls, NEW e \in Calls,
                      counted'[d] # None, counted'[e] # None, KeyOf[d] = KeyOf[e]
               PROVE  \/ counted'[d].window = counted'[e].window
                      \/ counted'[d].window + WindowSeconds <= counted'[e].window
                      \/ counted'[e].window + WindowSeconds <= counted'[d].window
    BY DEF WindowsApart
  <2>1. CASE d = c BY <1>1, <1>2, <1>6, <2>1
  <2>2. CASE e = c BY <1>1, <1>2, <1>6, <2>2
  <2>3. CASE d # c /\ e # c BY <1>6, <2>3 DEF LimiterInv, WindowsApart
  <2> QED BY <2>1, <2>2, <2>3
<1>12. /\ Cardinality(CountedIn(k, r)') = n + 1
       /\ fits => Cardinality(AdmittedIn(k, r)') <= n + 1
       /\ Cardinality(AdmittedIn(k, r)') >= Cardinality(AdmittedIn(k, r))
       /\ Cardinality(AdmittedIn(k, r)') \in Nat
  <2>1. Cardinality(CountedIn(k, r)') = n + 1
    BY <1>2, <1>f, <1>3, CountedFinite, FS_AddElement
  <2>2. AdmittedIn(k, r)' \subseteq CountedIn(k, r)' BY <1>3, CountedFinite
  <2>3. IsFiniteSet(CountedIn(k, r)') BY <1>3, CountedFinite, FS_AddElement
  <2>4. /\ IsFiniteSet(AdmittedIn(k, r)')
        /\ Cardinality(AdmittedIn(k, r)') <= Cardinality(CountedIn(k, r)')
    BY <2>2, <2>3, FS_Subset
  <2>5. AdmittedIn(k, r) \subseteq AdmittedIn(k, r)' BY <1>3
  <2>6. Cardinality(AdmittedIn(k, r)) <= Cardinality(AdmittedIn(k, r)')
    BY <2>4, <2>5, FS_Subset
  <2> QED BY <2>1, <2>4, <2>6, FS_CardinalityType, CountedFinite
<1>13. WithinLimit'
  <2> SUFFICES ASSUME NEW j \in Keys, NEW q \in Nat
               PROVE  Cardinality(AdmittedIn(j, q)') <= Limit
    BY DEF WithinLimit
  <2>1. CASE j # k \/ q # r BY <1>3, <2>1 DEF LimiterInv, WithinLimit
  <2>2. CASE j = k /\ q = r /\ ~fits BY <1>3, <2>2 DEF LimiterInv, WithinLimit
  <2>3. CASE j = k /\ q = r /\ fits BY <1>2, <1>f, <1>12, <2>3
  <2> QED BY <1>2, <1>f, <2>1, <2>2, <2>3
<1>14. \/ CountedIn(k, r)' \subseteq AdmittedIn(k, r)'
       \/ Cardinality(AdmittedIn(k, r)') >= Limit
  <2>1. CASE Cardinality(AdmittedIn(k, r)) >= Limit
    BY <1>12, <2>1, CountedFinite
  <2>2. CASE CountedIn(k, r) \subseteq AdmittedIn(k, r) /\ fits BY <1>3, <2>2
  <2>3. CASE CountedIn(k, r) \subseteq AdmittedIn(k, r) /\ ~fits
    <3>1. CountedIn(k, r) = AdmittedIn(k, r) BY <2>3, CountedFinite
    <3> QED BY <1>2, <1>f, <1>12, <2>3, <3>1
  <2> QED BY <1>2, <1>f, <2>1, <2>2, <2>3
<1>15. CurrentWindow'
  <2> SUFFICES ASSUME NEW j \in Keys, windows'[j] # None
               PROVE  /\ windows'[j].reset_at - WindowSeconds <= now'
                      /\ windows'[j].count = Cardinality(CountedIn(j, windows[j].reset_at)')
                      /\ \/ CountedIn(j, windows[j].reset_at)'
                               \subseteq AdmittedIn(j, windows[j].reset_at)'
                         \/ Cardinality(AdmittedIn(j, windows[j].reset_at)') >= Limit
    BY DEF CurrentWindow
  <2>1. CASE j = k
    <3>1. PICK q : q = windows'[j].reset_at OBVIOUS
    <3>2. q = r BY <1>6, <2>1, <3>1
    <3>3. /\ CountedIn(j, windows[j].reset_at)' = CountedIn(k, r)'
          /\ AdmittedIn(j, windows[j].reset_at)' = AdmittedIn(k, r)'
      BY <2>1, <3>1, <3>2 DEF CountedIn, AdmittedIn
    <3> QED BY <1>2, <1>f, <1>4, <1>6, <1>12, <1>14, <2>1, <3>3
  <2>2. CASE j # k
    <3>1. PICK q : q = windows'[j].reset_at OBVIOUS
    <3>2. windows[j] # None /\ windows'[j] = windows[j] /\ q = windows[j].reset_at
      BY <1>6, <2>2, <3>1
    <3>3. /\ CountedIn(j, windows[j].reset_at)' = CountedIn(j, q)'
          /\ AdmittedIn(j, windows[j].reset_at)' = AdmittedIn(j, q)'
      BY <3>1 DEF CountedIn, AdmittedIn
    <3>4. /\ CountedIn(j, windows[j].reset_at)' = CountedIn(j, windows[j].reset_at)
          /\ AdmittedIn(j, windows[j].reset_at)' = AdmittedIn(j, windows[j].reset_at)
      BY <1>3, <2>2, <3>2, <3>3
    <3> QED BY <1>4, <3>2, <3>4 DEF LimiterInv, CurrentWindow
  <2> QED BY <2>1, <2>2
<1>16. RefusedAfterLimit'
  <2> SUFFICES ASSUME NEW d \in Calls, Refused(d)'
               PROVE  Cardinality(AdmittedBefore(d)') >= Limit
    BY DEF RefusedAfterLimit
  <2>1. CASE d # c
    <3>1. Refused(d) /\ counted'[d] = counted[d] BY <1>6, <2>1 DEF Refused
    <3>2. AdmittedBefore(d) \subseteq AdmittedBefore(d)'
      BY <1>4, <1>6, <3>1 DEF AdmittedBefore, AdmittedIn, CountedIn
    <3>3. AdmittedBefore(d)' \subseteq Calls
      BY DEF AdmittedBefore, AdmittedIn, CountedIn
    <3>4. /\ IsFiniteSet(AdmittedBefore(d)') /\ IsFiniteSet(AdmittedBefore(d))
          /\ Cardinality(AdmittedBefore(d)) <= Cardinality(AdmittedBefore(d)')
      BY <3>2, <3>3, FS_Subset
    <3>5. Cardinality(AdmittedBefore(d)) >= Limit
      BY <3>1 DEF LimiterInv, RefusedAfterLimit
    <3> QED BY <3>4, <3>5, FS_CardinalityType
  <2>2. CASE d = c
    <3>1. ~fits BY <1>6, <2>2 DEF Refused
    <3>2. AdmittedBefore(d)' = AdmittedIn(k, r)'
      <4>1. \A e \in Calls : counted'[e] # None => counted'[e].at <= counted'[c].at
        BY <1>4, <1>6 DEF LimiterInv, CountedInTime
      <4> QED BY <1>1, <1>6, <2>2, <4>1 DEF AdmittedBefore, AdmittedIn, CountedIn
    <3>3. Cardinality(AdmittedIn(k, r)') >= Limit
      <4>1. CASE Cardinality(AdmittedIn(k, r)) >= Limit
        BY <1>12, <4>1, CountedFinite
      <4>2. CASE CountedIn(k, r) \subseteq AdmittedIn(k, r)
        <5>1. CountedIn(k, r) = AdmittedIn(k, r) BY <4>2, CountedFinite
        <5> QED BY <1>2, <1>f, <1>12, <3>1, <5>1
      <4> QED BY <1>2, <1>f, <4>1, <4>2
    <3> QED BY <3>2, <3>3
  <2> QED BY <2>1, <2>2
<1> QED BY <1>7, <1>8, <1>9, <1>10, <1>11, <1>13, <1>15, <1>16 DEF LimiterInv

\* The limiter's invariant is inductive.
LEMMA LimiterStep == LimiterInv /\ [NextLimiter]_limiterVars => LimiterInv'
<1> SUFFICES ASSUME LimiterInv, [NextLimiter]_limiterVars PROVE LimiterInv'
  OBVIOUS
<1>1. CASE Tick \/ \E c \in Calls : ReadClock(c) BY <1>1, ClockPreserves
<1>2. ASSUME NEW c \in Calls, Check(c) PROVE LimiterInv' BY <1>2, CheckPreserves
<1>3. CASE UNCHANGED limiterVars
  <2>1. /\ now' = now /\ windows' = windows /\ clock_read' = clock_read
        /\ counted' = counted
    BY <1>3 DEF limiterVars
  <2>2. \A k, r : CountedIn(k, r)' = CountedIn(k, r) /\ AdmittedIn(k, r)' = AdmittedIn(k, r)
    BY <2>1, CountedSame
  <2>3. \A c : AdmittedBefore(c)' = AdmittedBefore(c) BY <2>1, CountedSame
  <2> QED
    BY <2>1, <2>2, <2>3
    DEF LimiterInv, LimiterTypeOK, ReadInTime, CountedInTime, CurrentWindow, LastWindow,
        WindowsApart, WithinLimit, RefusedAfterLimit, Refused
<1> QED BY <1>1, <1>2, <1>3 DEF NextLimiter

\* At most two windows of a key reach into an interval of a window's length,
\* and each of them lets through at most Limit requests.
LEMMA BurstFromWindows == LimiterInv => BurstBounded
<1> SUFFICES ASSUME LimiterInv, NEW k \in Keys, NEW t \in 0 .. MaxTime
             PROVE  Cardinality({c \in AdmittedBetween(k, t, t + WindowSeconds - 1) :
                                   Prompt(c)}) <= 2 * Limit
  BY DEF BurstBounded
<1> DEFINE S == {c \in AdmittedBetween(k, t, t + WindowSeconds - 1) : Prompt(c)}
<1> USE LimiterAssumption
<1>1. ASSUME NEW c \in S
      PROVE  /\ c \in Calls /\ KeyOf[c] = k /\ counted[c] # None
             /\ counted[c].window \in Nat
             /\ c \in AdmittedIn(k, counted[c].window)
             /\ t < counted[c].window
             /\ counted[c].window < t + 2 * WindowSeconds
  <2>1. /\ c \in Calls /\ KeyOf[c] = k /\ counted[c] # None /\ counted[c].admitted
        /\ counted[c].at \in t .. t + WindowSeconds - 1
        /\ clock_read[c] = counted[c].at
    BY DEF AdmittedBetween, Admitted, Prompt
  <2>2. counted[c] \in CountedRecord
    BY <2>1 DEF LimiterInv, LimiterTypeOK, CountedRecord
  <2>3. /\ clock_read[c] < counted[c].window
        /\ counted[c].window - WindowSeconds <= counted[c].at
    BY <2>1 DEF LimiterInv, CountedInTime
  <2>4. t \in Nat OBVIOUS
  <2>5. c \in AdmittedIn(k, counted[c].window)
    BY <2>1 DEF AdmittedIn, CountedIn
  <2> QED BY <2>1, <2>2, <2>3, <2>4, <2>5 DEF CountedRecord
<1> HIDE DEF S
<1>2. \A r \in Nat : /\ Cardinality(AdmittedIn(k, r)) <= Limit
                     /\ Cardinality(AdmittedIn(k, r)) \in Nat
                     /\ IsFiniteSet(AdmittedIn(k, r))
  BY CountedFinite DEF LimiterInv, WithinLimit
<1>3. CASE S = {}
  <2>1. Cardinality(S) = 0 BY <1>3, FS_EmptySet
  <2> QED BY <2>1 DEF S
<1>4. ASSUME NEW c \in S PROVE Cardinality(S) <= 2 * Limit
  <2>1. PICK r \in Nat : r = counted[c].window BY <1>1
  <2>2. CASE S \subseteq AdmittedIn(k, r)
    <3>1. Cardinality(S) <= Cardinality(AdmittedIn(k, r)) /\ IsFiniteSet(S)
      BY <1>2, <2>2, FS_Subset
    <3> QED BY <1>2, <3>1, FS_CardinalityType
  <2>3. ASSUME NEW d \in S, d \notin AdmittedIn(k, r) PROVE Cardinality(S) <= 2 * Limit
    <3>1. PICK q \in Nat : q = counted[d].window BY <1>1
    <3>2. q # r BY <1>1, <2>3, <3>1
    <3>3. ASSUME NEW e \in S PROVE e \in AdmittedIn(k, r) \union AdmittedIn(k, q)
      <4>1. /\ \/ counted[c].window = counted[d].window
               \/ counted[c].window + WindowSeconds <= counted[d].window
               \/ counted[d].window + WindowSeconds <= counted[c].window
            /\ \/ counted[c].window = counted[e].window
               \/ counted[c].window + WindowSeconds <= counted[e].window
               \/ counted[e].window + WindowSeconds <= counted[c].window
            /\ \/ counted[d].window = counted[e].window
               \/ counted[d].window + WindowSeconds <= counted[e].window
               \/ counted[e].window + WindowSeconds <= counted[d].window
        BY <1>1 DEF LimiterInv, WindowsApart
      <4>2. counted[e].window = r \/ counted[e].window = q
        BY <1>1, <2>1, <3>1, <3>2, <4>1
      <4> QED BY <1>1, <4>2
    <3>4. /\ IsFiniteSet(AdmittedIn(k, r) \union AdmittedIn(k, q))
          /\ Cardinality(AdmittedIn(k, r) \union AdmittedIn(k, q))
               = Cardinality(AdmittedIn(k, r)) + Cardinality(AdmittedIn(k, q))
                 - Cardinality(AdmittedIn(k, r) \intersect AdmittedIn(k, q))
      BY <1>2, FS_Union
    <3>5. /\ IsFiniteSet(AdmittedIn(k, r) \intersect AdmittedIn(k, q))
          /\ Cardinality(AdmittedIn(k, r) \intersect AdmittedIn(k, q)) \in Nat
      BY <1>2, FS_Intersection, FS_CardinalityType
    <3>6. /\ IsFiniteSet(S)
          /\ Cardinality(S) <= Cardinality(AdmittedIn(k, r) \union AdmittedIn(k, q))
      BY <3>3, <3>4, FS_Subset
    <3>7. Cardinality(S) \in Nat BY <3>6, FS_CardinalityType
    <3> QED BY <1>2, <3>4, <3>5, <3>6, <3>7
  <2> QED BY <2>2, <2>3
<1> QED BY <1>3, <1>4 DEF S

\* A refused request's window had admitted Limit requests.
LEMMA RefusedByWindow ==
  ASSUME LimiterInv, NEW c \in Calls, Refused(c)
  PROVE  /\ clock_read[c] < counted[c].window
         /\ Cardinality(AdmittedTo(KeyOf[c], counted[c].window)) >= Limit
<1>1. clock_read[c] < counted[c].window
  BY DEF LimiterInv, CountedInTime, Refused
<1>2. Cardinality(AdmittedBefore(c)) >= Limit
  BY DEF LimiterInv, RefusedAfterLimit
<1>3. /\ AdmittedBefore(c) \subseteq AdmittedTo(KeyOf[c], counted[c].window)
      /\ AdmittedTo(KeyOf[c], counted[c].window) \subseteq Calls
  BY DEF AdmittedBefore, AdmittedIn, CountedIn, AdmittedTo, Admitted
<1>4. /\ IsFiniteSet(AdmittedTo(KeyOf[c], counted[c].window))
      /\ IsFiniteSet(AdmittedBefore(c))
      /\ Cardinality(AdmittedBefore(c))
           <= Cardinality(AdmittedTo(KeyOf[c], counted[c].window))
  BY <1>3, LimiterAssumption, FS_Subset
<1>5. Cardinality(AdmittedTo(KeyOf[c], counted[c].window)) >= Limit
  BY <1>2, <1>4, LimiterAssumption, FS_CardinalityType
<1> QED BY <1>1, <1>5

\* And if it was counted at the time it had read, that window had begun at most
\* a window's length before.
LEMMA RefusedFromWindows == LimiterInv => RefusedAtLimitOnly
<1> SUFFICES ASSUME LimiterInv, NEW c \in Calls, Refused(c), Prompt(c)
             PROVE  Cardinality(AdmittedBetween(KeyOf[c],
                      counted[c].at - WindowSeconds + 1, counted[c].at)) >= Limit
  BY RefusedByWindow DEF RefusedAtLimitOnly
<1> DEFINE S == AdmittedBetween(KeyOf[c], counted[c].at - WindowSeconds + 1, counted[c].at)
<1> USE LimiterAssumption
<1>1. Cardinality(AdmittedBefore(c)) >= Limit
  BY DEF LimiterInv, RefusedAfterLimit
<1>2. ASSUME NEW d \in AdmittedBefore(c) PROVE d \in S
  <2>1. /\ d \in Calls /\ KeyOf[d] = KeyOf[c] /\ counted[d] # None
        /\ counted[d].window = counted[c].window /\ counted[d].admitted
        /\ counted[d].at <= counted[c].at
    BY DEF AdmittedBefore, AdmittedIn, CountedIn
  <2>2. counted[c] # None /\ clock_read[c] = counted[c].at BY DEF Prompt
  <2>3. counted[c] \in CountedRecord /\ counted[d] \in CountedRecord
    BY <2>1, <2>2 DEF LimiterInv, LimiterTypeOK, CountedRecord
  <2>4. /\ clock_read[c] < counted[c].window
        /\ counted[d].window - WindowSeconds <= counted[d].at
    BY <2>1, <2>2 DEF LimiterInv, CountedInTime
  <2>5. counted[d].at \in counted[c].at - WindowSeconds + 1 .. counted[c].at
    BY <2>1, <2>2, <2>3, <2>4 DEF CountedRecord
  <2> QED BY <2>1, <2>5 DEF AdmittedBetween, Admitted
<1>3. S \subseteq Calls BY DEF AdmittedBetween
<1> HIDE DEF S
<1>4. /\ IsFiniteSet(S) /\ IsFiniteSet(AdmittedBefore(c))
      /\ Cardinality(AdmittedBefore(c)) <= Cardinality(S)
  BY <1>2, <1>3, FS_Subset
<1>5. Cardinality(S) >= Limit BY <1>1, <1>4, FS_CardinalityType
<1> QED BY <1>5 DEF S

----------------------------------------------------------------------------
\* The limiter by itself.

\* However the threads interleave between reading the clock and taking the
\* lock, the requests of an identity that are counted at the time they have read
\* are admitted at most twice the limit in a window's length.
THEOREM LimiterBurst == SpecLimiter => []BurstBounded
<1>1. SpecLimiter => []LimiterInv BY LimiterStarts, LimiterStep, PTL DEF SpecLimiter
<1> QED BY <1>1, BurstFromWindows, PTL

\* Every refusal, of however slow a thread, is by a window that has let through
\* the limit and that had not ended when the thread read the clock.
THEOREM LimiterRefusals == SpecLimiter => []RefusedAtLimitOnly
<1>1. SpecLimiter => []LimiterInv BY LimiterStarts, LimiterStep, PTL DEF SpecLimiter
<1> QED BY <1>1, RefusedFromWindows, PTL

----------------------------------------------------------------------------
\* The requests.

\* The stages in which a request's handler can occupy the event loop.
OnLoop == {"resolving", "auditing", "committing"}

\* What a request at a stage has committed.
CommittedAs(c, s, k) ==
  /\ s = "answered" => c \in k
  /\ s = "raised" => c \in Tools /\ c \notin k
  /\ s \notin {"answered", "raised"} => k = {}

\* The invariant: only a request that was answered, or whose handler raised, has
\* committed anything, an answered one its event too, and the loop belongs to no
\* request that is still to be admitted or has ended.
ServingInv ==
  /\ stage \in [Calls -> Stages]
  /\ held \in [Calls -> SUBSET (Rows \union Calls)]
  /\ committed \in [Calls -> SUBSET (Rows \union Calls)]
  /\ loop \in Calls \union {None}
  /\ \A c \in Calls :
       /\ stage[c] = "authenticating" => KeyRow[c] \in Rows
       /\ stage[c] = "resolving" => SecretRow[c] \in Rows
       /\ Ended(c) => held[c] = {}
       /\ loop = c => stage[c] \in OnLoop
       /\ stage[c] \in {"resolving", "awaiting"} => c \in Tools
       /\ stage[c] = "committing" => c \in held[c] \/ c \in Tools
       /\ CommittedAs(c, stage[c], committed[c])

\* What a request's step is allowed to do for the invariant to stay.
LEMMA OneRequestMoves ==
  ASSUME ServingInv, NEW c \in Calls, NEW s \in Stages,
         stage' = [stage EXCEPT ![c] = s],
         NEW h \in SUBSET (Rows \union Calls), held' = [held EXCEPT ![c] = h],
         NEW k \in SUBSET (Rows \union Calls), committed' = [committed EXCEPT ![c] = k],
         loop' \in {loop, c, None}, loop' = c => s \in OnLoop,
         s = "authenticating" => KeyRow[c] \in Rows,
         s = "resolving" => SecretRow[c] \in Rows,
         s \in {"resolving", "awaiting"} => c \in Tools,
         s \in {"answered", "raised", "refused", "failed"} => h = {},
         s = "committing" => c \in h \/ c \in Tools,
         CommittedAs(c, s, k)
  PROVE  ServingInv'
<1>1. /\ stage' \in [Calls -> Stages]
      /\ held' \in [Calls -> SUBSET (Rows \union Calls)]
      /\ committed' \in [Calls -> SUBSET (Rows \union Calls)]
      /\ loop' \in Calls \union {None}
      /\ stage'[c] = s /\ held'[c] = h /\ committed'[c] = k
      /\ \A d \in Calls : d # c =>
           stage'[d] = stage[d] /\ held'[d] = held[d] /\ committed'[d] = committed[d]
  BY DEF ServingInv
<1>2. ASSUME NEW d \in Calls
      PROVE  /\ stage'[d] = "authenticating" => KeyRow[d] \in Rows
             /\ stage'[d] = "resolving" => SecretRow[d] \in Rows
             /\ Ended(d)' => held'[d] = {}
             /\ loop' = d => stage'[d] \in OnLoop
             /\ stage'[d] \in {"resolving", "awaiting"} => d \in Tools
             /\ stage'[d] = "committing" => d \in held'[d] \/ d \in Tools
             /\ CommittedAs(d, stage'[d], committed'[d])
  <2>1. CASE d = c BY <1>1, <2>1 DEF Ended
  <2>2. CASE d # c
    BY <1>1, <2>2, ServingAssumption DEF Ended, ServingInv
  <2> QED BY <2>1, <2>2
<1> QED BY <1>1, <1>2 DEF ServingInv

\* Requests start with nothing written, and every action keeps the invariant.
LEMMA ServingInductive ==
  /\ InitServing => ServingInv
  /\ ServingInv /\ [NextServing]_vars => ServingInv'
<1>1. InitServing => ServingInv
  BY ServingAssumption DEF InitServing, ServingInv, Stages, Ended, CommittedAs
<1>2. ASSUME ServingInv, [NextServing]_vars PROVE ServingInv'
  <2>1. CASE UNCHANGED servingVars
    BY <1>2, <2>1 DEF servingVars, ServingInv, Ended
  <2>2. ASSUME NEW c \in Calls, Arrive(c) \/ Step(c) PROVE ServingInv'
    <3> USE <1>2
    <3>1. /\ held = [held EXCEPT ![c] = held[c]]
          /\ committed = [committed EXCEPT ![c] = committed[c]]
          /\ held[c] \in SUBSET (Rows \union Calls)
          /\ committed[c] \in SUBSET (Rows \union Calls)
          /\ stage[c] \in Stages /\ c # None
      BY ServingAssumption DEF ServingInv
    <3>2. /\ stage[c] \notin {"answered", "raised"} => committed[c] = {}
          /\ loop = c => stage[c] \in OnLoop
          /\ stage[c] = "authenticating" => KeyRow[c] \in Rows
          /\ stage[c] = "resolving" => SecretRow[c] \in Rows
          /\ stage[c] \in {"resolving", "awaiting"} => c \in Tools
          /\ stage[c] = "committing" => c \in held[c] \/ c \in Tools
          /\ KeyRow[c] # None => KeyRow[c] \in Rows
          /\ SecretRow[c] # None => SecretRow[c] \in Rows
      BY DEF ServingInv, Rows, CommittedAs
    <3> USE <3>1, <3>2 DEF CommittedAs
    <3>3. CASE Arrive(c)
      <4>1. CASE KeyRow[c] = None
        <5>1. stage' = [stage EXCEPT ![c] = "counting"] BY <3>3, <4>1 DEF Arrive, Goto
        <5> QED BY <3>3, <5>1, OneRequestMoves DEF Arrive, Stages, OnLoop
      <4>2. CASE KeyRow[c] # None
        <5>1. stage' = [stage EXCEPT ![c] = "authenticating"]
          BY <3>3, <4>2 DEF Arrive, Goto
        <5> QED BY <3>3, <4>2, <5>1, OneRequestMoves DEF Arrive, Stages, OnLoop
      <4> QED BY <4>1, <4>2
    <3>4. CASE StampKey(c)
      <4>1. Wanted(c) = KeyRow[c] BY <3>4 DEF StampKey, Wanted
      <4>2. held' = [held EXCEPT ![c] = held[c] \union {KeyRow[c]}]
        BY <3>4, <4>1 DEF StampKey, Flush
      <4>3. held[c] \union {KeyRow[c]} \in SUBSET (Rows \union Calls)
        BY <3>4 DEF StampKey
      <4> QED BY <3>4, <4>2, <4>3, OneRequestMoves DEF StampKey, Goto, Stages, OnLoop
    <3>5. CASE LookAtClock(c) BY <3>5, <2>1 DEF LookAtClock
    <3>6. CASE Pass(c)
      BY <3>6, OneRequestMoves DEF Pass, Goto, Stages, OnLoop
    <3>7. CASE TurnAway(c)
      BY <3>7, OneRequestMoves DEF TurnAway, Goto, Stages, OnLoop
    <3>8. CASE Dismiss(c)
      BY <3>8, OneRequestMoves DEF Dismiss, Goto, Stages, OnLoop
    <3>9. CASE Close(c)
      BY <3>9, OneRequestMoves DEF Close, Goto, Stages, OnLoop
    <3>10. CASE Discover(c)
      BY <3>10, OneRequestMoves DEF Discover, Goto, Stages, OnLoop
    <3>11. CASE Begin(c)
      <4>1. CASE stage' = [stage EXCEPT ![c] = "auditing"]
        BY <3>11, <4>1, OneRequestMoves DEF Begin, Stages, OnLoop
      <4>2. CASE SecretRow[c] # None /\ stage' = [stage EXCEPT ![c] = "resolving"]
        BY <3>11, <4>2, OneRequestMoves DEF Begin, Stages, OnLoop
      <4>3. CASE stage' = [stage EXCEPT ![c] = "committing"]
        BY <3>11, <4>3, OneRequestMoves DEF Begin, Stages, OnLoop
      <4> QED BY <3>11, <4>1, <4>2, <4>3 DEF Begin, Goto
    <3>12. CASE Forward(c)
      BY <3>12, OneRequestMoves DEF Forward, Goto, Stages, OnLoop
    <3>13. CASE PersistSecret(c)
      <4>1. loop' # c BY <3>13 DEF PersistSecret, LeaveLoop
      <4>2. loop' \in {loop, c, None} BY <3>13 DEF PersistSecret, LeaveLoop
      <4>3. Wanted(c) = SecretRow[c] BY <3>13 DEF PersistSecret, Wanted
      <4>4. held' = [held EXCEPT ![c] = held[c] \union {SecretRow[c]}]
        BY <3>13, <4>3 DEF PersistSecret, Flush
      <4>5. held[c] \union {SecretRow[c]} \in SUBSET (Rows \union Calls)
        BY <3>13 DEF PersistSecret
      <4> QED BY <3>13, <4>1, <4>2, <4>4, <4>5, OneRequestMoves
              DEF PersistSecret, Goto, Stages, OnLoop
    <3>14. CASE Resume(c)
      <4>1. stage[c] = "awaiting" /\ UNCHANGED <<held, committed>> /\ loop' = c
        BY <3>14 DEF Resume
      <4>2. CASE stage' = [stage EXCEPT ![c] = "auditing"]
        BY <4>1, <4>2, OneRequestMoves DEF Stages, OnLoop
      <4>3. CASE stage' = [stage EXCEPT ![c] = "committing"]
        <5>1. c \in Tools BY <4>1 DEF ServingInv
        <5> QED BY <4>1, <4>3, <5>1, OneRequestMoves DEF Stages, OnLoop
      <4> QED BY <3>14, <4>2, <4>3 DEF Resume, Goto
    <3>15. CASE WriteEvent(c)
      <4>1. Wanted(c) = c BY <3>15 DEF WriteEvent, Wanted
      <4>2. held' = [held EXCEPT ![c] = held[c] \union {c}]
        BY <3>15, <4>1 DEF WriteEvent, Flush
      <4>3. held[c] \union {c} \in SUBSET (Rows \union Calls)
        BY <3>15 DEF WriteEvent
      <4>4. /\ stage' = [stage EXCEPT ![c] = "committing"]
            /\ committed' = [committed EXCEPT ![c] = {}]
            /\ loop' \in {loop, c, None}
            /\ "committing" \in Stages /\ "committing" \in OnLoop
        BY <3>15 DEF WriteEvent, Goto, Stages, OnLoop
      <4>5. c \in held[c] \union {c} OBVIOUS
      <4> QED BY <4>2, <4>3, <4>4, <4>5, OneRequestMoves
    <3>16. CASE Commit(c)
      <4>1. loop' # c BY <3>16 DEF Commit, LeaveLoop
      <4>2. loop' \in {loop, c, None} BY <3>16 DEF Commit, LeaveLoop
      <4>3. CASE c \in held[c]
        <5>1. stage' = [stage EXCEPT ![c] = "answered"] BY <3>16, <4>3 DEF Commit, Goto
        <5> QED BY <3>16, <4>1, <4>2, <4>3, <5>1, OneRequestMoves DEF Commit, Stages
      <4>4. CASE c \notin held[c]
        <5>1. stage' = [stage EXCEPT ![c] = "raised"] BY <3>16, <4>4 DEF Commit, Goto
        <5>2. committed' = [committed EXCEPT ![c] = held[c]] BY <3>16 DEF Commit
        <5> QED BY <3>16, <4>1, <4>2, <4>4, <5>1, <5>2, OneRequestMoves DEF Commit, Stages
      <4> QED BY <4>3, <4>4
    <3>17. CASE GiveUp(c)
      <4>1. loop' # c BY <3>17 DEF GiveUp, LeaveLoop
      <4>2. loop' \in {loop, c, None} BY <3>17 DEF GiveUp, LeaveLoop
      <4>3. stage[c] \notin {"answered", "raised"} BY <3>17 DEF GiveUp, Blocked, Wanted
      <4> QED BY <3>17, <4>1, <4>2, <4>3, OneRequestMoves DEF GiveUp, Goto, Stages, OnLoop
    <3> QED
      BY <2>2, <3>3, <3>4, <3>5, <3>6, <3>7, <3>8, <3>9, <3>10, <3>11, <3>12,
         <3>13, <3>14, <3>15, <3>16, <3>17 DEF Step
  <2> QED BY <1>2, <2>1, <2>2 DEF NextServing, vars
<1> QED BY <1>1, <1>2

\* The requests of the process use the limiter as its specification says: each
\* step of theirs is a step of the limiter or leaves it alone.
THEOREM ServingUsesLimiter == SpecServing => SpecLimiter
<1>1. InitServing => InitLimiter BY DEF InitServing
<1>2. ASSUME [NextServing]_vars PROVE [NextLimiter]_limiterVars
  <2>1. CASE Tick \/ UNCHANGED vars BY <2>1 DEF NextLimiter, vars
  <2>2. ASSUME NEW c \in Calls, Arrive(c) \/ Step(c)
        PROVE  UNCHANGED limiterVars \/ ReadClock(c) \/ Check(c)
    BY <2>2
    DEF Arrive, Step, StampKey, LookAtClock, Pass, TurnAway, Dismiss, Close, Discover,
        Begin, Forward, PersistSecret, Resume, WriteEvent, Commit, GiveUp
  <2> QED BY <1>2, <2>1, <2>2 DEF NextServing, NextLimiter
<1> QED BY <1>1, <1>2, PTL DEF SpecServing, SpecLimiter

\* The shape of the state.
THEOREM ServingType == SpecServing => []ServingTypeOK
<1>1. SpecServing => []ServingInv BY ServingInductive, PTL DEF SpecServing
<1>2. SpecServing => []LimiterInv
  BY ServingUsesLimiter, LimiterStarts, LimiterStep, PTL DEF SpecLimiter
<1>3. ServingInv /\ LimiterInv => ServingTypeOK
  BY DEF ServingInv, LimiterInv, ServingTypeOK
<1> QED BY <1>1, <1>2, <1>3, PTL

\* The limits hold for the requests of the process.
THEOREM ServingLimits == SpecServing => [](BurstBounded /\ RefusedAtLimitOnly)
BY ServingUsesLimiter, LimiterBurst, LimiterRefusals, PTL

\* No request leaves a lock, or the event loop, behind.
THEOREM ServingReleases == SpecServing => []EndedHoldsNothing
<1>1. SpecServing => []ServingInv BY ServingInductive, PTL DEF SpecServing
<1>2. ServingInv => EndedHoldsNothing
  BY DEF ServingInv, EndedHoldsNothing, Ended, OnLoop
<1> QED BY <1>1, <1>2, PTL

\* Nothing is kept of a request without its audit event, except of a call whose
\* handler raised.
THEOREM ServingKeepsTogether == SpecServing => []KeptWithItsEvent
<1>1. SpecServing => []ServingInv BY ServingInductive, PTL DEF SpecServing
<1>2. ServingInv => KeptWithItsEvent
  BY DEF ServingInv, CommittedAs, KeptWithItsEvent
<1> QED BY <1>1, <1>2, PTL

----------------------------------------------------------------------------
\* Who waits for whom.

\* The locks come in an order, the key's before the secret's before the event's,
\* and a request that has refreshed a secret is on the loop or awaits its
\* server; so is who holds the loop, and a request to be counted has not been.
OrderlyAs(c, s, h, n, l) ==
  /\ s \in {"idle", "authenticating"} => h = {}
  /\ s \in {"idle", "authenticating", "counting"} => n = None
  /\ h \subseteq {KeyRow[c], SecretRow[c], c}
  /\ SecretRow[c] \in h => c \in Tools /\ s \in {"awaiting", "auditing", "committing"}
  /\ s \in {"resolving", "awaiting"} => c \in Tools
  /\ c \in Tools /\ s \in OnLoop => l = c

Orderly(c) == OrderlyAs(c, stage[c], held[c], counted[c], loop)

OrderInv == \A c \in Calls : Orderly(c)

\* A request whose own part is in order leaves the others' in order, if it only
\* takes the loop when it is free.
LEMMA OneRequestInOrder ==
  ASSUME ServingInv, LimiterTypeOK, OrderInv, NEW c \in Calls,
         NEW s, stage' = [stage EXCEPT ![c] = s],
         NEW h, held' = [held EXCEPT ![c] = h],
         NEW n, counted' = [counted EXCEPT ![c] = n],
         loop \notin {c, None} => loop' = loop,
         OrderlyAs(c, s, h, n, loop')
  PROVE  OrderInv'
<1>1. stage'[c] = s /\ held'[c] = h /\ counted'[c] = n
  BY DEF ServingInv, LimiterTypeOK
<1>2. ASSUME NEW d \in Calls, d # c PROVE Orderly(d)'
  <2>1. stage'[d] = stage[d] /\ held'[d] = held[d] /\ counted'[d] = counted[d]
    BY <1>2 DEF ServingInv, LimiterTypeOK
  <2>2. Orderly(d) BY DEF OrderInv
  <2>3. loop = d => loop' = d BY <1>2, ServingAssumption
  <2> QED BY <2>1, <2>2, <2>3 DEF Orderly, OrderlyAs
<1>3. Orderly(c)' BY <1>1 DEF Orderly
<1> QED BY <1>2, <1>3 DEF OrderInv

LEMMA NextInOrder ==
  ServingInv /\ LimiterTypeOK /\ OrderInv /\ [NextServing]_vars => OrderInv'
<1> SUFFICES ASSUME ServingInv, LimiterTypeOK, OrderInv, [NextServing]_vars
             PROVE  OrderInv'
  OBVIOUS
<1>1. CASE UNCHANGED vars \/ (Tick /\ UNCHANGED servingVars)
  BY <1>1 DEF vars, limiterVars, servingVars, Tick, OrderInv, Orderly, OrderlyAs
<1>2. ASSUME NEW c \in Calls, Arrive(c) \/ Step(c) PROVE OrderInv'
  <2>1. /\ counted = [counted EXCEPT ![c] = counted[c]]
        /\ held = [held EXCEPT ![c] = held[c]]
        /\ stage = [stage EXCEPT ![c] = stage[c]]
    BY DEF ServingInv, LimiterTypeOK
  <2>2. /\ OrderlyAs(c, stage[c], held[c], counted[c], loop)
        /\ Ended(c) => held[c] = {}
        /\ loop = c => stage[c] \in OnLoop
        /\ held[c] \in SUBSET (Rows \union Calls)
        /\ None \notin Rows \union Calls
        /\ c \notin Rows
        /\ KeyRow[c] # SecretRow[c] \/ SecretRow[c] = None
        /\ SecretRow[c] # None => SecretRow[c] # c
    BY ServingAssumption DEF ServingInv, OrderInv, Orderly, Rows
  <2> USE <2>1, <2>2
  <2>3. CASE Arrive(c)
    <3>1. PICK s \in {"counting", "authenticating"} : stage' = [stage EXCEPT ![c] = s]
      BY <2>3 DEF Arrive, Goto
    <3>2. OrderlyAs(c, s, held[c], counted[c], loop')
      BY <2>3 DEF Arrive, OrderlyAs, OnLoop
    <3> QED BY <2>3, <3>1, <3>2, OneRequestInOrder DEF Arrive, limiterVars
  <2>4. CASE StampKey(c)
    <3>1. Wanted(c) = KeyRow[c] /\ KeyRow[c] \in Rows
      BY <2>4 DEF StampKey, Wanted, ServingInv
    <3>2. held' = [held EXCEPT ![c] = {KeyRow[c]}]
      BY <2>4, <3>1 DEF StampKey, Flush, OrderlyAs
    <3>3. OrderlyAs(c, "counting", {KeyRow[c]}, counted[c], loop')
      BY <2>4, <3>1 DEF StampKey, OrderlyAs, OnLoop
    <3> QED BY <2>4, <3>2, <3>3, OneRequestInOrder DEF StampKey, Goto, limiterVars
  <2>5. CASE LookAtClock(c)
    BY <2>5, OneRequestInOrder DEF LookAtClock, ReadClock, servingVars
  <2>6. CASE Pass(c) \/ TurnAway(c)
    <3>1. PICK n : counted' = [counted EXCEPT ![c] = n]
      BY <2>6 DEF Pass, TurnAway, Check
    <3>2. PICK s \in {"ready", "closing"} : stage' = [stage EXCEPT ![c] = s]
      BY <2>6 DEF Pass, TurnAway, Goto
    <3>3. OrderlyAs(c, s, held[c], n, loop')
      BY <2>6 DEF Pass, TurnAway, OrderlyAs, OnLoop
    <3> QED BY <2>6, <3>1, <3>2, <3>3, OneRequestInOrder DEF Pass, TurnAway
  <2>7. CASE Dismiss(c)
    <3>1. OrderlyAs(c, "closing", held[c], counted[c], loop')
      BY <2>7 DEF Dismiss, OrderlyAs, OnLoop
    <3> QED BY <2>7, <3>1, OneRequestInOrder DEF Dismiss, Goto, limiterVars
  <2>8. CASE Close(c)
    <3>1. OrderlyAs(c, "refused", {}, counted[c], loop')
      BY <2>8 DEF Close, OrderlyAs, OnLoop
    <3> QED BY <2>8, <3>1, OneRequestInOrder DEF Close, Goto, limiterVars
  <2>9. CASE Discover(c)
    <3>1. OrderlyAs(c, "auditing", held[c], counted[c], loop')
      BY <2>9 DEF Discover, OrderlyAs, OnLoop
    <3> QED BY <2>9, <3>1, OneRequestInOrder DEF Discover, Goto, limiterVars
  <2>10. CASE Begin(c)
    <3>1. PICK s \in {"auditing", "resolving", "committing"} : stage' = [stage EXCEPT ![c] = s]
      BY <2>10 DEF Begin, Goto
    <3>2. OrderlyAs(c, s, held[c], counted[c], loop')
      BY <2>10 DEF Begin, OrderlyAs, OnLoop
    <3> QED BY <2>10, <3>1, <3>2, OneRequestInOrder DEF Begin, limiterVars
  <2>11. CASE Forward(c)
    <3>1. OrderlyAs(c, "awaiting", held[c], counted[c], loop')
      BY <2>11 DEF Forward, OrderlyAs, OnLoop
    <3> QED BY <2>11, <3>1, OneRequestInOrder DEF Forward, Goto, limiterVars
  <2>12. CASE PersistSecret(c)
    <3>1. Wanted(c) = SecretRow[c] BY <2>12 DEF PersistSecret, Wanted
    <3>2. held' = [held EXCEPT ![c] = held[c] \union {SecretRow[c]}]
      BY <2>12, <3>1 DEF PersistSecret, Flush
    <3>3. OrderlyAs(c, "awaiting", held[c] \union {SecretRow[c]}, counted[c], loop')
      BY <2>12 DEF PersistSecret, OrderlyAs, OnLoop
    <3> QED BY <2>12, <3>2, <3>3, OneRequestInOrder
            DEF PersistSecret, Goto, LeaveLoop, limiterVars
  <2>13. CASE Resume(c)
    <3>1. PICK s \in {"auditing", "committing"} : stage' = [stage EXCEPT ![c] = s]
      BY <2>13 DEF Resume, Goto
    <3>2. OrderlyAs(c, s, held[c], counted[c], loop')
      BY <2>13 DEF Resume, OrderlyAs, OnLoop
    <3> QED BY <2>13, <3>1, <3>2, OneRequestInOrder DEF Resume, limiterVars
  <2>14. CASE WriteEvent(c)
    <3>1. Wanted(c) = c BY <2>14 DEF WriteEvent, Wanted
    <3>2. held' = [held EXCEPT ![c] = held[c] \union {c}]
      BY <2>14, <3>1 DEF WriteEvent, Flush
    <3>3. SecretRow[c] \in held[c] \union {c} => SecretRow[c] \in held[c]
      OBVIOUS
    <3>4. OrderlyAs(c, "committing", held[c] \union {c}, counted[c], loop')
      BY <2>14, <3>3 DEF WriteEvent, OrderlyAs, OnLoop
    <3> QED BY <2>14, <3>2, <3>4, OneRequestInOrder DEF WriteEvent, Goto, limiterVars
  <2>15. CASE Commit(c)
    <3>1. PICK s \in {"answered", "raised"} : stage' = [stage EXCEPT ![c] = s]
      BY <2>15 DEF Commit, Goto
    <3>2. OrderlyAs(c, s, {}, counted[c], loop')
      BY <2>15 DEF Commit, OrderlyAs, OnLoop
    <3> QED BY <2>15, <3>1, <3>2, OneRequestInOrder DEF Commit, LeaveLoop, limiterVars
  <2>16. CASE GiveUp(c)
    <3>1. OrderlyAs(c, "failed", {}, counted[c], loop')
      BY <2>16 DEF GiveUp, OrderlyAs, OnLoop
    <3> QED BY <2>16, <3>1, OneRequestInOrder DEF GiveUp, Goto, LeaveLoop, limiterVars
  <2> QED
    BY <1>2, <2>3, <2>4, <2>5, <2>6, <2>7, <2>8, <2>9, <2>10, <2>11, <2>12, <2>13,
       <2>14, <2>15, <2>16 DEF Step
<1> QED BY <1>1, <1>2 DEF NextServing

LEMMA OrderlyAlways == SpecServing => [](ServingInv /\ OrderInv)
<1>1. InitServing => OrderInv
  BY ServingAssumption DEF InitServing, InitLimiter, OrderInv, Orderly, OrderlyAs, OnLoop
<1>2. SpecServing => []LimiterTypeOK
  <2>1. LimiterInv => LimiterTypeOK BY DEF LimiterInv
  <2> QED BY <2>1, ServingUsesLimiter, LimiterStarts, LimiterStep, PTL DEF SpecLimiter
<1> QED BY <1>1, <1>2, ServingInductive, NextInOrder, PTL DEF SpecServing

\* Nobody else writes, or wants, the audit event of a request.
LEMMA EventIsOwn ==
  ASSUME OrderInv, ServingInv, NEW c \in Calls, stage[c] = "auditing"
  PROVE  Wanted(c) = c /\ (Database # "sqlite" => CanWrite(c, c))
<1>1. Wanted(c) = c BY DEF Wanted
<1>2. ASSUME NEW d \in Calls \ {c} PROVE c \notin held[d]
  <2>1. held[d] \subseteq {KeyRow[d], SecretRow[d], d} BY DEF OrderInv, Orderly, OrderlyAs
  <2>2. {KeyRow[d], SecretRow[d]} \ {None} \subseteq Rows BY DEF Rows
  <2> QED BY <2>1, <2>2, ServingAssumption
<1> QED BY <1>1, <1>2 DEF CanWrite

\* On SQLite every wait for a lock ends, on its own.
LEMMA LocksEndOnSQLite ==
  ASSUME ServingInv, NEW c \in Calls, Database = "sqlite",
         stage[c] \in {"authenticating", "resolving", "auditing"}
  PROVE  CanGoOn(c)
<1>1. Wanted(c) # None
  BY ServingAssumption DEF ServingInv, Wanted, Rows
<1> QED BY <1>1 DEF CanGoOn, Blocked

\* The handler on the loop goes on, or waits for a secret.
LEMMA HolderOfLoop ==
  ASSUME ServingInv, OrderInv, loop # None
  PROVE  \/ CanGoOn(loop)
         \/ /\ Database = "postgresql" /\ stage[loop] = "resolving"
            /\ \E d \in Calls : stage[d] = "awaiting" /\ SecretRow[loop] \in held[d]
<1>1. loop \in Calls /\ stage[loop] \in OnLoop BY DEF ServingInv
<1>2. CASE Database = "sqlite" \/ stage[loop] = "committing"
  BY <1>1, <1>2, LocksEndOnSQLite DEF OnLoop, CanGoOn
<1>3. CASE Database # "sqlite" /\ stage[loop] = "auditing"
  BY <1>1, <1>3, EventIsOwn DEF CanGoOn
<1>4. CASE Database # "sqlite" /\ stage[loop] = "resolving"
  <2>1. Wanted(loop) = SecretRow[loop] BY <1>4 DEF Wanted
  <2>2. CASE CanWrite(loop, Wanted(loop)) BY <1>4, <2>2 DEF CanGoOn
  <2>3. ASSUME NEW d \in Calls \ {loop}, SecretRow[loop] \in held[d]
        PROVE  stage[d] = "awaiting"
    <3>1. SecretRow[loop] \in Rows BY <1>1, <1>4 DEF ServingInv
    <3>2. held[d] \subseteq {KeyRow[d], SecretRow[d], d} BY DEF OrderInv, Orderly, OrderlyAs
    <3>3. SecretRow[loop] # d /\ SecretRow[loop] # KeyRow[d]
      BY <1>1, <3>1, ServingAssumption DEF Rows
    <3>4. SecretRow[d] \in held[d] BY <2>3, <3>2, <3>3
    <3> QED BY <3>4 DEF OrderInv, Orderly, OrderlyAs, OnLoop
  <2> QED BY <1>4, <2>1, <2>2, <2>3, ServingAssumption DEF CanWrite
<1> QED BY <1>1, <1>2, <1>3, <1>4 DEF OnLoop

\* With nobody on the loop only threads wait, and only for who has got further.
LEMMA FreeLoop ==
  ASSUME ServingInv, OrderInv, loop = None,
         NEW c \in Calls, stage[c] # "idle", ~Ended(c)
  PROVE  \E d \in Calls : CanGoOn(d)
<1>1. ASSUME NEW d \in Calls, stage[d] \notin {"idle", "authenticating"}, ~Ended(d)
      PROVE  CanGoOn(d)
  <2>1. stage[d] \in Stages /\ d # None BY ServingAssumption DEF ServingInv
  <2>2. stage[d] \notin {"resolving", "idle", "authenticating", "answered", "raised", "refused",
                       "failed"}
    BY <1>1, <2>1 DEF OrderInv, Orderly, OrderlyAs, OnLoop, Ended
  <2>3. stage[d] = "counting" => counted[d] = None BY DEF OrderInv, Orderly, OrderlyAs
  <2>4. stage[d] = "auditing" => CanGoOn(d)
    BY EventIsOwn, LocksEndOnSQLite DEF CanGoOn
  <2> QED BY <2>1, <2>2, <2>3, <2>4 DEF CanGoOn, Stages
<1>2. CASE stage[c] = "authenticating"
  <2>1. CASE Database = "sqlite" BY <1>2, <2>1, LocksEndOnSQLite
  <2>2. CASE CanWrite(c, Wanted(c)) BY <1>2, <2>2 DEF CanGoOn
  <2>3. CASE Database # "sqlite" /\ ~CanWrite(c, Wanted(c))
    <3>1. PICK d \in Calls \ {c} : held[d] # {} BY <2>3 DEF CanWrite
    <3>2. stage[d] \notin {"idle", "authenticating"} BY <3>1 DEF OrderInv, Orderly, OrderlyAs
    <3>3. ~Ended(d) BY <3>1 DEF ServingInv
    <3> QED BY <1>1, <3>2, <3>3
  <2> QED BY <2>1, <2>2, <2>3
<1> QED BY <1>1, <1>2

\* Requests under way never stop all together, on SQLite in no way and on
\* PostgreSQL in one.
THEOREM ServingGoesOn == SpecServing => []StopsOnlyForASecret
<1>1. ASSUME ServingInv, OrderInv PROVE StopsOnlyForASecret
  <2>1. loop \in Calls \union {None} BY <1>1 DEF ServingInv
  <2>2. CASE loop = None BY <1>1, <2>2, FreeLoop DEF StopsOnlyForASecret
  <2>3. CASE loop # None
    BY <1>1, <2>1, <2>3, HolderOfLoop DEF StopsOnlyForASecret
  <2> QED BY <2>2, <2>3
<1> QED BY <1>1, OrderlyAlways, PTL

\* The most steps a request can still take.
StepsLeft(c) ==
  CASE stage[c] = "idle" -> 9
    [] stage[c] = "authenticating" -> 8
    [] stage[c] = "counting" -> IF clock_read[c] = None THEN 7 ELSE 6
    [] stage[c] = "ready" -> 5
    [] stage[c] = "resolving" -> 4
    [] stage[c] = "awaiting" -> 3
    [] stage[c] = "auditing" -> 2
    [] stage[c] \in {"committing", "closing"} -> 1
    [] OTHER -> 0

\* What a step of one request does to the stages and the clocks of the others.
LEMMA OthersKeepPlace ==
  ASSUME ServingInv, LimiterTypeOK, NEW c \in Calls, Arrive(c) \/ Step(c),
         NEW d \in Calls, d # c
  PROVE  stage'[d] = stage[d] /\ clock_read'[d] = clock_read[d]
<1>1. CASE LookAtClock(c)
  BY <1>1 DEF LookAtClock, ReadClock, servingVars, LimiterTypeOK
<1>2. CASE ~LookAtClock(c)
  <2>1. clock_read' = clock_read
    BY <1>2
    DEF Arrive, Step, StampKey, Pass, TurnAway, Dismiss, Close, Discover, Begin, Forward,
        PersistSecret, Resume, WriteEvent, Commit, GiveUp, Check, limiterVars
  <2>2. \E s : stage' = [stage EXCEPT ![c] = s]
    BY <1>2
    DEF Arrive, Step, StampKey, Pass, TurnAway, Dismiss, Close, Discover, Begin, Forward,
        PersistSecret, Resume, WriteEvent, Commit, GiveUp, Goto
  <2> QED BY <2>1, <2>2 DEF ServingInv
<1> QED BY <1>1, <1>2

\* Every step of a request brings it nearer to its end and none of another takes
\* it back, so a request takes at most nine steps: with ServingGoesOn, requests
\* that are given their turns come to an end wherever the process cannot stop.
THEOREM ServingGoesForward ==
  SpecServing =>
    [][ \A c \in Calls : /\ StepsLeft(c)' <= StepsLeft(c)
                         /\ Step(c) => StepsLeft(c)' < StepsLeft(c) ]_vars
<1> DEFINE Forwards ==
      \A c \in Calls : /\ StepsLeft(c)' <= StepsLeft(c)
                       /\ Step(c) => StepsLeft(c)' < StepsLeft(c)
<1>1. ASSUME ServingInv, LimiterTypeOK, [NextServing]_vars PROVE [Forwards]_vars
  <2> SUFFICES ASSUME vars' # vars, NEW c \in Calls
               PROVE  /\ StepsLeft(c)' <= StepsLeft(c)
                      /\ Step(c) => StepsLeft(c)' < StepsLeft(c)
    OBVIOUS
  <2>1. CASE Arrive(c) \/ Step(c)
    <3>1. /\ stage[c] \in Stages
          /\ \A s : stage' = [stage EXCEPT ![c] = s] => stage'[c] = s
      BY <1>1 DEF ServingInv
    <3>2. StepsLeft(c)' < StepsLeft(c)
      <4>1. CASE Arrive(c)
        <5>1. stage[c] = "idle" /\ stage'[c] \in {"counting", "authenticating"}
          BY <3>1, <4>1 DEF Arrive, Goto
        <5>2. StepsLeft(c) = 9 BY <5>1 DEF StepsLeft
        <5>3. StepsLeft(c)' \in {6, 7, 8} BY <5>1 DEF StepsLeft
        <5> QED BY <5>2, <5>3
      <4>2. CASE StampKey(c)
        <5>1. stage[c] = "authenticating" /\ stage'[c] = "counting"
          BY <3>1, <4>2 DEF StampKey, Goto
        <5>2. StepsLeft(c) = 8 BY <5>1 DEF StepsLeft
        <5>3. StepsLeft(c)' \in {6, 7} BY <5>1 DEF StepsLeft
        <5> QED BY <5>2, <5>3
      <4>3. CASE LookAtClock(c)
        <5>1. clock_read'[c] = now /\ now # None /\ clock_read[c] = None
          BY <1>1, <4>3, LimiterAssumption DEF LookAtClock, ReadClock, LimiterTypeOK
        <5> QED BY <3>1, <4>3, <5>1 DEF LookAtClock, servingVars, StepsLeft
      <4>4. CASE Pass(c) \/ TurnAway(c) \/ Dismiss(c) \/ Close(c)
        BY <3>1, <4>4 DEF Pass, TurnAway, Dismiss, Close, Goto, StepsLeft
      <4>5. CASE Discover(c) \/ Begin(c) \/ Forward(c)
        BY <3>1, <4>5 DEF Discover, Begin, Forward, Goto, StepsLeft
      <4>6. CASE PersistSecret(c) \/ Resume(c) \/ WriteEvent(c) \/ Commit(c)
        BY <3>1, <4>6 DEF PersistSecret, Resume, WriteEvent, Commit, Goto, StepsLeft
      <4>7. CASE GiveUp(c)
        <5>1. /\ stage[c] \in {"authenticating", "resolving", "auditing"}
              /\ stage'[c] = "failed"
          BY <3>1, <4>7 DEF GiveUp, Blocked, Wanted, Goto
        <5>2. StepsLeft(c) \in {8, 4, 2} BY <5>1 DEF StepsLeft
        <5>3. StepsLeft(c)' = 0 BY <5>1 DEF StepsLeft
        <5> QED BY <5>2, <5>3
      <4> QED BY <2>1, <4>1, <4>2, <4>3, <4>4, <4>5, <4>6, <4>7 DEF Step
    <3>3. StepsLeft(c) \in Int /\ StepsLeft(c)' \in Int BY DEF StepsLeft
    <3> QED BY <3>2, <3>3
  <2>2. CASE ~(Arrive(c) \/ Step(c))
    <3>1. stage'[c] = stage[c] /\ clock_read'[c] = clock_read[c]
      BY <1>1, <2>2, OthersKeepPlace DEF NextServing, Tick, servingVars
    <3>2. StepsLeft(c)' = StepsLeft(c) /\ StepsLeft(c) \in Int
      BY <3>1 DEF StepsLeft
    <3> QED BY <2>2, <3>2
  <2> QED BY <2>1, <2>2
<1>2. SpecServing => []LimiterTypeOK
  <2>1. LimiterInv => LimiterTypeOK BY DEF LimiterInv
  <2> QED BY <2>1, ServingUsesLimiter, LimiterStarts, LimiterStep, PTL DEF SpecLimiter
<1> QED BY <1>1, <1>2, OrderlyAlways, PTL DEF SpecServing

=============================================================================
