----------------------------- MODULE RateLimiter ----------------------------
(***************************************************************************)
(* The token buckets of rate_limit.rs: one bucket per (endpoint, token,    *)
(* source), created full on first use, refilled on every check by the time *)
(* since the last one, capped at the burst.                                *)
(*                                                                         *)
(* The clock counts in ticks of 1/TicksPerMinute of a minute and a bucket  *)
(* in units of 1/TicksPerMinute of a token, so that a tick refills         *)
(* per_minute units and the f64 arithmetic of the code is exact here.      *)
(* check holds the mutex from reading the clock to storing the bucket, so  *)
(* it is one step.                                                         *)
(***************************************************************************)
EXTENDS Integers

CONSTANTS
    Clients,                          \* (token id, source) pairs
    LogsPerMinute, LogsBurst,
    CrashesPerMinute, CrashesBurst,   \* RateLimitConfig
    TicksPerMinute,                   \* resolution of the clock
    MaxNow                            \* bound on the clock, in ticks

ASSUME RateLimiterAssumption ==
    /\ LogsPerMinute \in Nat /\ LogsBurst \in Nat
    /\ CrashesPerMinute \in Nat /\ CrashesBurst \in Nat
    /\ TicksPerMinute \in Nat \ {0}
    /\ MaxNow \in Nat

Endpoints == {"logs", "crashes"}
RateKey == Endpoints \X Clients
PerMinute(k) == IF k[1] = "logs" THEN LogsPerMinute ELSE CrashesPerMinute
Burst(k) == IF k[1] = "logs" THEN LogsBurst ELSE CrashesBurst
Token == TicksPerMinute
Full(k) == Burst(k) * Token

VARIABLES
    present,        \* keys that have a bucket
    tokens,         \* Bucket.tokens, in units
    last,           \* Bucket.last_refill
    now,            \* Instant::now()
    start,          \* history: when the observation window was opened
    used,           \* history: requests granted since then
    refusedSince    \* history: first refusal since the last grant, or Never

Never == -1

buckets == <<present, tokens, last>>
vars == <<buckets, now, start, used, refusedSince>>

Init ==
    /\ present = {}
    /\ tokens = [k \in RateKey |-> 0]
    /\ last = [k \in RateKey |-> 0]
    /\ now = 0
    /\ start = 0
    /\ used = [k \in RateKey |-> 0]
    /\ refusedSince = [k \in RateKey |-> Never]

\* What the bucket holds at time t, before the request is charged.
Refilled(k, t) ==
    LET grown == tokens[k] + (t - last[k]) * PerMinute(k)
    IN  IF k \notin present \/ grown >= Full(k) THEN Full(k) ELSE grown

Grant(k, have) ==
    /\ have >= Token
    /\ tokens' = [tokens EXCEPT ![k] = have - Token]
    /\ used' = [used EXCEPT ![k] = used[k] + 1]
    /\ refusedSince' = [refusedSince EXCEPT ![k] = Never]

\* Defect: a refused request is charged as well.
Refuse_Charges(k, have) ==
    /\ have < Token
    /\ tokens' = [tokens EXCEPT ![k] = 0]
    /\ refusedSince' = [refusedSince EXCEPT ![k] = IF refusedSince[k] = Never THEN now
                                                   ELSE refusedSince[k]]
    /\ UNCHANGED used

Refuse(k, have) ==
    /\ have < Token
    /\ tokens' = [tokens EXCEPT ![k] = have]
    /\ refusedSince' = [refusedSince EXCEPT ![k] = IF refusedSince[k] = Never THEN now
                                                   ELSE refusedSince[k]]
    /\ UNCHANGED used

\* Defect: the clock is read before the mutex is taken, so that a check may
\* use an earlier time than the check before it.
Check_StaleClock(k) ==
    \E t \in Nat \cap {now, now - 1} :
        LET have == Refilled(k, IF t < last[k] THEN last[k] ELSE t)
        IN  /\ present' = present \cup {k}
            /\ last' = [last EXCEPT ![k] = t]
            /\ Grant(k, have) \/ Refuse(k, have)
            /\ UNCHANGED <<now, start>>

Check(k) ==
    /\ present' = present \cup {k}
    /\ last' = [last EXCEPT ![k] = now]
    /\ Grant(k, Refilled(k, now)) \/ Refuse(k, Refilled(k, now))
    /\ UNCHANGED <<now, start>>

Tick ==
    /\ now < MaxNow
    /\ now' = now + 1
    /\ UNCHANGED <<buckets, start, used, refusedSince>>

\* An observer starts to count granted requests.
OpenWindow ==
    /\ start' = now
    /\ used' = [k \in RateKey |-> 0]
    /\ UNCHANGED <<buckets, now, refusedSince>>

Next == (\E k \in RateKey : Check(k)) \/ Tick \/ OpenWindow

Spec == Init /\ [][Next]_vars

-----------------------------------------------------------------------------
\* Buckets never hold more than the burst nor less than nothing, and were
\* last refilled in the past.
TypeOK ==
    /\ present \subseteq RateKey
    /\ tokens \in [RateKey -> Nat]
    /\ last \in [RateKey -> Nat]
    /\ {now, start} \subseteq Nat
    /\ used \in [RateKey -> Nat]
    /\ refusedSince \in [RateKey -> Nat \cup {Never}]
    /\ start <= now
    /\ \A k \in RateKey :
        /\ tokens[k] <= Full(k)
        /\ last[k] <= now

\* In no window of time does a key get more requests through than its burst
\* plus what per_minute allows for the length of the window, however many
\* checks are made, granted or refused, and whenever the window begins.
WindowBound ==
    \A k \in RateKey : used[k] * Token <= Full(k) + PerMinute(k) * (now - start)

\* Asking is free: a client that is refused and keeps asking, at any pace, is
\* refused for less than the time one token takes to refill (burst >= 1).
RefusalsEnd ==
    \A k \in RateKey :
        Burst(k) > 0 /\ refusedSince[k] # Never =>
            (last[k] - refusedSince[k]) * PerMinute(k) < Token

-----------------------------------------------------------------------------
\* What WindowBound and RefusalsEnd rest on, for one key: what was granted in
\* the window and what is left never exceed the allowance up to the last
\* refill, and since a first refusal the bucket has kept all its refills.
Accounted(k) ==
    /\ k \notin present => used[k] = 0 /\ refusedSince[k] = Never
    /\ last[k] < start => used[k] = 0
    /\ k \in present /\ last[k] >= start =>
        used[k] * Token + tokens[k] <= Full(k) + PerMinute(k) * (last[k] - start)
    /\ refusedSince[k] # Never =>
        /\ refusedSince[k] <= last[k]
        /\ tokens[k] < Token
        /\ Burst(k) > 0 => tokens[k] >= (last[k] - refusedSince[k]) * PerMinute(k)

\* The inductive invariant.
IInv == TypeOK /\ \A k \in RateKey : Accounted(k)
=============================================================================
