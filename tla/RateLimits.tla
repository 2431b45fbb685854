----------------------------- MODULE RateLimits -----------------------------
(***************************************************************************)
(* The two rate limiters, for one caller.  That of the tool middleware     *)
(* keeps its window in the process, under a lock (contrib/middleware.py).  *)
(* That of the token endpoint is a counter in Django's cache with a time   *)
(* to live: it is created, and then incremented, by two calls of the cache *)
(* (contrib/oauth/_rate_limiting.py).                                      *)
(***************************************************************************)
EXTENDS Naturals, FiniteSets

CONSTANTS
    Limit,          \* calls per period
    Period,         \* seconds
    MaxTime         \* bound: when the clock of the model stops

ASSUME RateAssumption == Limit \in Nat \ {0} /\ Period \in Nat \ {0} /\ MaxTime \in Nat

VARIABLES
    now,            \* the clock
    window,         \* the middleware's: calls counted, and since when
    counter,        \* the endpoint's: calls counted, and until when
    admitted,       \* history: the calls let through, by limiter; "open" are those that the
                    \* endpoint let through without a count
    before          \* history: what had been let through when a moment began

rateVars == <<now, window, counter, admitted, before>>

RateInit ==
    /\ now = 0
    /\ window = [count |-> 0, start |-> 0]
    /\ counter = [count |-> 0, expires |-> 0]
    /\ admitted = [way \in {"tools", "token", "open"} |-> 0]
    /\ before = [s \in 0..MaxTime |-> admitted]

Tick ==
    /\ now < MaxTime
    /\ now' = now + 1
    /\ before' = [before EXCEPT ![now + 1] = admitted]
    /\ UNCHANGED <<window, counter, admitted>>

\* Bound: counts are compared with Limit only, and stop one above it.
OneMore(count) == IF count > Limit THEN count ELSE count + 1

Admit(way) == admitted' = [admitted EXCEPT ![way] = @ + 1]

-----------------------------------------------------------------------------
(* InMemoryRateLimitBackend.allow_request, for a call that read the clock at s. *)

Passed(s) == s >= window.start + Period

\* Seeded defect: the count goes on when the window moves.
MovedWindow(s) ==
    [count |-> OneMore(window.count), start |-> IF Passed(s) THEN s ELSE window.start]

\* A refused call is counted too.
CountedWindow(s) ==
    IF Passed(s) \/ window.count = 0 THEN [count |-> 1, start |-> s]
    ELSE [window EXCEPT !.count = OneMore(@)]

AllowRequest(s) ==
    /\ window' = CountedWindow(s)
    /\ IF window'.count <= Limit THEN Admit("tools") ELSE UNCHANGED admitted
    /\ UNCHANGED <<now, counter, before>>

-----------------------------------------------------------------------------
(* _token_rate_limit_exceeded, with a cache that answers. *)

Alive == now < counter.expires

\* add(): it leaves a counter that is there alone.
AddCounter ==
    /\ counter' = IF Alive THEN counter ELSE [count |-> 0, expires |-> now + Period]
    /\ UNCHANGED <<now, window, admitted, before>>

\* incr(): where the counter is gone by now it raises, and the call is let through.
IncrementCounter ==
    \/ /\ Alive
       /\ counter' = [counter EXCEPT !.count = OneMore(@)]
       /\ IF counter'.count <= Limit THEN Admit("token") ELSE UNCHANGED admitted
       /\ UNCHANGED <<now, window, before>>
    \/ /\ ~Alive
       /\ Admit("open")
       /\ UNCHANGED <<now, window, counter, before>>
-----------------------------------------------------------------------------
(* What was let through. *)

\* The moments of the period that ends now.
Recent == {s \in 0..now : now < s + Period}

\* The calls let through since moment s began.
Let(way, s) == admitted[way] - before[s][way]
=============================================================================
