-------------------------- MODULE RequestGateProofs -------------------------
(***************************************************************************)
(* Proofs about RateLimiter, for any limits, clients and clock bound, and  *)
(* about RequestGate, which extends it, for any tokens file, calls,        *)
(* handlers, limits and bounds.                                            *)
(***************************************************************************)
EXTENDS RequestGate, TLAPS

-----------------------------------------------------------------------------
(* The limiter                                                             *)

\* The limits of a key are naturals and its full bucket is one too.
LEMMA Limits ==
    ASSUME NEW k \in RateKey
    PROVE  /\ PerMinute(k) \in Nat
           /\ Burst(k) \in Nat
           /\ Token \in Nat \ {0}
           /\ Full(k) \in Nat
           /\ Burst(k) > 0 => Full(k) >= Token
           /\ Full(k) >= Token => Burst(k) > 0
  <1>1. PerMinute(k) \in Nat /\ Burst(k) \in Nat /\ Token \in Nat \ {0}
    BY RateLimiterAssumption, Zenon DEF PerMinute, Burst, Token
  <1>2. ASSUME NEW b \in Nat, NEW t \in Nat \ {0}
        PROVE  /\ b * t \in Nat
               /\ b > 0 => b * t >= t
               /\ b = 0 => b * t = 0
    OBVIOUS
  <1>. QED
    BY <1>1, <1>2 DEF Full

\* Multiplication by a natural distributes over the steps the proofs take.
LEMMA Products ==
    ASSUME NEW p \in Nat, NEW a \in Int, NEW b \in Int
    PROVE  /\ p * a \in Int
           /\ p * a = a * p
           /\ p * (a + b) = p * a + p * b
           /\ p * (a - b) = p * a - p * b
           /\ a >= 0 => p * a >= 0
  OBVIOUS

\* The product of a period is that of its two parts.
LEMMA SplitProduct ==
    ASSUME NEW p \in Nat, NEW x \in Nat, NEW y \in Nat, NEW z \in Nat
    PROVE  (x - z) * p = p * (x - y) + (y - z) * p
  OBVIOUS

\* Refilled caps the bucket, loses nothing of it and adds no more than the
\* elapsed time allows.
LEMMA RefillBounds ==
    ASSUME TypeOK, NEW k \in RateKey
    PROVE  /\ Refilled(k, now) \in Nat
           /\ Refilled(k, now) <= Full(k)
           /\ k \notin present => Refilled(k, now) = Full(k)
           /\ k \in present => Refilled(k, now) <= tokens[k] + PerMinute(k) * (now - last[k])
           /\ k \in present /\ Refilled(k, now) < Full(k) =>
                 Refilled(k, now) = tokens[k] + PerMinute(k) * (now - last[k])
  <1>1. /\ PerMinute(k) \in Nat
        /\ Full(k) \in Nat
        /\ tokens[k] \in Nat
        /\ now - last[k] \in Nat
    BY Limits DEF TypeOK
  <1>2. /\ PerMinute(k) * (now - last[k]) \in Nat
        /\ PerMinute(k) * (now - last[k]) = (now - last[k]) * PerMinute(k)
    BY <1>1, Products
  <1>. QED
    BY <1>1, <1>2 DEF Refilled

\* A check charges the bucket by what it adds to the window's count, granted
\* or refused, so the two together stay within the allowance.
LEMMA CheckKeepsWindow ==
    ASSUME IInv, NEW k \in RateKey
    PROVE  used[k] * Token + Refilled(k, now) <= Full(k) + PerMinute(k) * (now - start)
  <1>. DEFINE have == Refilled(k, now)
              pm == PerMinute(k)
              spent == used[k] * Token
  <1>1. /\ pm \in Nat
        /\ Full(k) \in Nat
        /\ Token \in Nat
        /\ have \in Nat
        /\ have <= Full(k)
        /\ tokens[k] \in Nat
        /\ used[k] \in Nat
        /\ {now, last[k], start} \subseteq Nat
        /\ last[k] <= now
        /\ start <= now
    BY Limits, RefillBounds, Zenon DEF IInv, TypeOK
  <1>2. /\ spent \in Nat
        /\ used[k] = 0 => spent = 0
        /\ pm * (now - start) >= 0
        /\ pm * (now - start) \in Int
        /\ pm * (last[k] - start) \in Int
        /\ pm * (now - last[k]) \in Int
        /\ pm * (now - start) = pm * (now - last[k]) + pm * (last[k] - start)
    <2>1. \A a, b \in Nat : a * b \in Nat /\ 0 * b = 0
      OBVIOUS
    <2>2. now - start = (now - last[k]) + (last[k] - start)
      BY <1>1
    <2>3. {now - start, now - last[k], last[k] - start} \subseteq Int /\ now - start >= 0
      BY <1>1
    <2>4. pm * (now - start) = pm * (now - last[k]) + pm * (last[k] - start)
      BY ONLY <1>1, <2>2, <2>3, Products
    <2>. QED
      BY ONLY <1>1, <2>1, <2>3, <2>4, Products
  <1>3. CASE k \notin present \/ last[k] < start
    BY <1>1, <1>2, <1>3 DEF IInv, Accounted
  <1>4. CASE k \in present /\ last[k] >= start
    <2>1. spent + tokens[k] <= Full(k) + pm * (last[k] - start)
      BY <1>4, Zenon DEF IInv, Accounted
    <2>2. have <= tokens[k] + pm * (now - last[k])
      BY <1>4, RefillBounds, Zenon DEF IInv, Accounted
    <2>. HIDE DEF have, pm, spent
    <2>3. spent + have <= Full(k) + pm * (now - start)
      BY <1>1, <1>2, <2>1, <2>2
    <2>. QED
      BY <2>3, Zenon DEF have, pm, spent
  <1>. QED
    BY <1>1, <1>3, <1>4 DEF IInv, Accounted

\* A refused check keeps what the bucket was refilled with since the first
\* refusal.
LEMMA RefuseKeepsRefill ==
    ASSUME IInv, NEW k \in RateKey, Refilled(k, now) < Token, Burst(k) > 0,
           refusedSince[k] # Never
    PROVE  Refilled(k, now) >= (now - refusedSince[k]) * PerMinute(k)
  <1>. DEFINE have == Refilled(k, now)
              pm == PerMinute(k)
              rs == refusedSince[k]
  <1>1. /\ pm \in Nat
        /\ have \in Nat
        /\ tokens[k] \in Nat
        /\ {now, last[k], rs} \subseteq Nat
    BY Limits, RefillBounds, Zenon DEF IInv, TypeOK
  <1>2. k \in present
    BY Zenon DEF IInv, Accounted
  <1>3. have = tokens[k] + pm * (now - last[k])
    <2>1. have < Full(k)
      BY Limits, <1>1
    <2>. QED
      BY <1>2, <2>1, RefillBounds, Zenon DEF IInv, Accounted
  <1>4. tokens[k] >= (last[k] - rs) * pm
    BY Zenon DEF IInv, Accounted
  <1>. HIDE DEF have, pm, rs
  <1>5. (now - rs) * pm = pm * (now - last[k]) + (last[k] - rs) * pm
    <2>1. pm \in Nat /\ now \in Nat /\ last[k] \in Nat /\ rs \in Nat
      BY <1>1
    <2>. QED
      BY ONLY <2>1, SplitProduct
  <1>6. {(now - rs) * pm, pm * (now - last[k]), (last[k] - rs) * pm} \subseteq Int
    BY ONLY <1>1, Products
  <1>7. have >= (now - rs) * pm
    BY <1>1, <1>3, <1>4, <1>5, <1>6
  <1>. QED
    BY <1>7, Zenon DEF have, pm, rs

\* A check keeps the types.
LEMMA CheckType ==
    ASSUME TypeOK, NEW k \in RateKey, Check(k)
    PROVE  TypeOK'
  <1>. DEFINE have == Refilled(k, now)
  <1>1. have \in Nat /\ have <= Full(k) /\ Token \in Nat /\ Full(k) \in Nat
    BY RefillBounds, Limits, Zenon
  <1>2. present' \subseteq RateKey /\ now' = now /\ start' = start
    BY Zenon DEF Check, TypeOK
  <1>3. last' = [last EXCEPT ![k] = now]
    BY Zenon DEF Check
  <1>. HIDE DEF have
  <1>4. Grant(k, have) \/ Refuse(k, have)
    BY Zenon DEF Check, have
  <1>5. \E n \in Nat : n <= have /\ tokens' = [tokens EXCEPT ![k] = n]
    <2>1. CASE Grant(k, have)
      <3>1. have - Token \in Nat /\ have - Token <= have
        BY <1>1, <2>1 DEF Grant
      <3>. QED
        BY <2>1, <3>1, Zenon DEF Grant
    <2>2. CASE Refuse(k, have)
      <3>1. tokens' = [tokens EXCEPT ![k] = have]
        BY <2>2, Zenon DEF Refuse
      <3>2. have \in Nat /\ have <= have
        BY <1>1
      <3>. QED
        BY ONLY <3>1, <3>2, Zenon
    <2>. QED
      BY <1>4, <2>1, <2>2, Zenon
  <1>6. used' \in [RateKey -> Nat]
    BY <1>4 DEF Grant, Refuse, TypeOK
  <1>7. refusedSince' \in [RateKey -> Nat \cup {Never}]
    BY <1>4, Zenon DEF Grant, Refuse, TypeOK
  <1>8. tokens' \in [RateKey -> Nat] /\ last' \in [RateKey -> Nat]
    BY <1>3, <1>5, Zenon DEF TypeOK
  <1>9. ASSUME NEW j \in RateKey
        PROVE  tokens'[j] <= Full(j) /\ last'[j] <= now
    BY <1>1, <1>3, <1>5 DEF TypeOK
  <1>. QED
    BY <1>2, <1>6, <1>7, <1>8, <1>9, Zenon DEF TypeOK, Full, Burst

\* A check keeps every key's account.
LEMMA CheckAccount ==
    ASSUME IInv, NEW k \in RateKey, Check(k), TypeOK', NEW j \in RateKey
    PROVE  Accounted(j)'
  <1>. DEFINE have == Refilled(k, now)
  <1>1. /\ have \in Nat
        /\ Token \in Nat
        /\ start <= now
        /\ {now, start} \subseteq Nat
        /\ used[k] \in Nat
        /\ refusedSince[k] \in Nat \cup {Never}
    BY RefillBounds, Limits, Zenon DEF IInv, TypeOK
  <1>2. /\ present' = present \cup {k}
        /\ last' = [last EXCEPT ![k] = now]
        /\ now' = now
        /\ start' = start
    BY Zenon DEF Check
  <1>3. Grant(k, have) \/ Refuse(k, have)
    BY Zenon DEF Check
  <1>4. used[k] * Token + have <= Full(k) + PerMinute(k) * (now - start)
    BY CheckKeepsWindow, Zenon
  <1>5. have < Token /\ Burst(k) > 0 /\ refusedSince[k] # Never =>
            have >= (now - refusedSince[k]) * PerMinute(k)
    BY RefuseKeepsRefill, Zenon
  <1>. HIDE DEF have
  <1>6. CASE j # k
    <2>1. /\ tokens'[j] = tokens[j]
          /\ used'[j] = used[j]
          /\ last'[j] = last[j]
          /\ refusedSince'[j] = refusedSince[j]
          /\ j \in present' <=> j \in present
      BY <1>2, <1>3, <1>6, ZenonT(40) DEF Grant, Refuse, IInv, TypeOK
    <2>. QED
      BY <1>2, <2>1, Zenon DEF IInv, Accounted, Full, Burst, PerMinute, Token
  <1>7. CASE j = k
    <2>1. k \in present' /\ last'[k] = now
      BY <1>2, Zenon DEF IInv, TypeOK
    <2>2. used'[k] * Token + tokens'[k] <= Full(k) + PerMinute(k) * (now - start)
      <3>1. used'[k] * Token + tokens'[k] = used[k] * Token + have
        <4>1. CASE Grant(k, have)
          <5>1. used'[k] = used[k] + 1 /\ tokens'[k] = have - Token
            BY <4>1, Zenon DEF Grant, IInv, TypeOK
          <5>2. (used[k] + 1) * Token = used[k] * Token + Token
            BY <1>1
          <5>3. used[k] * Token \in Int
            BY <1>1
          <5>. QED
            BY <1>1, <5>1, <5>2, <5>3
        <4>2. CASE Refuse(k, have)
          BY <4>2, Zenon DEF Refuse, IInv, TypeOK
        <4>. QED
          BY <1>3, <4>1, <4>2, Zenon
      <3>. QED
        BY <1>4, <3>1, Zenon
    <2>3. refusedSince'[k] # Never =>
             /\ refusedSince'[k] <= now
             /\ tokens'[k] < Token
             /\ Burst(k) > 0 => tokens'[k] >= (now - refusedSince'[k]) * PerMinute(k)
      <3>1. CASE Grant(k, have)
        BY <3>1, Zenon DEF Grant, IInv, TypeOK
      <3>2. CASE Refuse(k, have)
        <4>1. have < Token /\ tokens'[k] = have
          BY <3>2, Zenon DEF Refuse, IInv, TypeOK
        <4>2. CASE refusedSince[k] = Never
          <5>1. refusedSince'[k] = now
            BY <3>2, <4>2, Zenon DEF Refuse, IInv, TypeOK
          <5>2. PerMinute(k) \in Nat
            BY Limits, Zenon
          <5>3. (now - now) * PerMinute(k) = 0
            BY <1>1, <5>2
          <5>. QED
            BY <1>1, <4>1, <5>1, <5>3
        <4>3. CASE refusedSince[k] # Never
          <5>1. refusedSince'[k] = refusedSince[k]
            BY <3>2, <4>3, Zenon DEF Refuse, IInv, TypeOK
          <5>2. refusedSince[k] <= now
            BY <1>1, <4>3 DEF IInv, Accounted, TypeOK
          <5>. QED
            BY <1>5, <4>1, <4>3, <5>1, <5>2, Zenon
        <4>. QED
          BY <4>2, <4>3, Zenon
      <3>. QED
        BY <1>3, <3>1, <3>2, Zenon
    <2>. QED
      BY <1>1, <1>2, <1>7, <2>1, <2>2, <2>3 DEF Accounted, Full, Burst, PerMinute, Token
  <1>. QED
    BY <1>6, <1>7, Zenon

\* Every step keeps the inductive invariant.
LEMMA StepKeepsIInv == IInv /\ [Next]_vars => IInv'
  <1>. SUFFICES ASSUME IInv, [Next]_vars PROVE IInv'
    OBVIOUS
  <1>. USE DEF IInv
  <1>1. ASSUME NEW k \in RateKey, Check(k) PROVE IInv'
    BY <1>1, CheckType, CheckAccount, Zenon
  <1>2. CASE Tick
    BY <1>2 DEF Tick, buckets, TypeOK, Accounted, Full, Burst, PerMinute, Token
  <1>3. CASE OpenWindow
    <2>1. /\ start' = now
          /\ used' = [k \in RateKey |-> 0]
          /\ UNCHANGED <<present, tokens, last, now, refusedSince>>
      BY <1>3, Zenon DEF OpenWindow, buckets
    <2>2. TypeOK'
      BY <2>1 DEF TypeOK, Full, Burst, Token
    <2>3. ASSUME NEW k \in RateKey PROVE Accounted(k)'
      <3>1. last[k] <= now /\ {last[k], now, tokens[k], Full(k)} \subseteq Nat
            /\ tokens[k] <= Full(k) /\ PerMinute(k) \in Nat /\ Token \in Nat
        BY Limits, Zenon DEF TypeOK
      <3>2. last[k] >= now => PerMinute(k) * (last[k] - now) = 0
        BY <3>1
      <3>3. 0 * Token = 0
        BY <3>1
      <3>. QED
        BY <2>1, <3>1, <3>2, <3>3 DEF Accounted, Full, Burst, PerMinute, Token
    <2>. QED
      BY <2>2, <2>3, Zenon
  <1>4. CASE UNCHANGED vars
    BY <1>4, Zenon DEF vars, buckets, TypeOK, Accounted, Full, Burst, PerMinute, Token
  <1>. QED
    BY <1>1, <1>2, <1>3, <1>4, Zenon DEF Next

\* The inductive invariant holds of every behaviour of the limiter.
THEOREM Inductive == Spec => []IInv
  <1>1. Init => IInv
    <2>. SUFFICES ASSUME Init PROVE IInv
      OBVIOUS
    <2>1. \A k \in RateKey : Full(k) \in Nat
      BY Limits, Zenon
    <2>2. TypeOK
      BY <2>1 DEF Init, TypeOK, Never
    <2>. QED
      BY <2>2, Zenon DEF Init, IInv, Accounted
  <1>. QED
    BY <1>1, StepKeepsIInv, PTL DEF Spec

\* For all limits, no bucket holds less than nothing or more than its burst, and
\* refills never run ahead of the clock.
THEOREM TypeSafety == Spec => []TypeOK
  <1>1. IInv => TypeOK
    BY Zenon DEF IInv
  <1>. QED
    BY <1>1, Inductive, PTL

\* No window of time lets more requests of a key through than the burst plus
\* the sustained rate over the window, for all limits.
THEOREM WindowSafety == Spec => []WindowBound
  <1>1. IInv => WindowBound
    <2>. SUFFICES ASSUME IInv, NEW k \in RateKey
                  PROVE  used[k] * Token <= Full(k) + PerMinute(k) * (now - start)
      BY Zenon DEF WindowBound
    <2>1. used[k] * Token + Refilled(k, now) <= Full(k) + PerMinute(k) * (now - start)
      BY CheckKeepsWindow, Zenon
    <2>2. /\ Refilled(k, now) \in Nat
          /\ {used[k], Token, Full(k), PerMinute(k), now, start} \subseteq Nat
      BY Limits, RefillBounds, Zenon DEF IInv, TypeOK
    <2>3. used[k] * Token \in Int /\ PerMinute(k) * (now - start) \in Int
      BY <2>2
    <2>. QED
      BY <2>1, <2>2, <2>3
  <1>. QED
    BY <1>1, Inductive, PTL

\* A client that keeps asking is refused for less than the time one token
\* takes to refill, for all limits with a burst.
THEOREM RefusalSafety == Spec => []RefusalsEnd
  <1>1. IInv => RefusalsEnd
    <2>. SUFFICES ASSUME IInv, NEW k \in RateKey, Burst(k) > 0, refusedSince[k] # Never
                  PROVE  (last[k] - refusedSince[k]) * PerMinute(k) < Token
      BY Zenon DEF RefusalsEnd
    <2>1. /\ tokens[k] < Token
          /\ tokens[k] >= (last[k] - refusedSince[k]) * PerMinute(k)
      BY Zenon DEF IInv, Accounted
    <2>2. {tokens[k], Token, last[k], refusedSince[k], PerMinute(k)} \subseteq Nat
      BY Limits, Zenon DEF IInv, TypeOK
    <2>3. (last[k] - refusedSince[k]) * PerMinute(k) \in Int
      BY <2>2
    <2>. QED
      BY <2>1, <2>2, <2>3
  <1>. QED
    BY <1>1, Inductive, PTL

INSTANCE WellFoundedInduction

-----------------------------------------------------------------------------
(* The compiled schemas                                                    *)

\* A set of indices has a greatest one.
LEMMA GreatestIndex ==
  ASSUME NEW n \in Nat, NEW S \in SUBSET (1 .. n), S # {}
  PROVE  \E i \in S : \A j \in S : j <= i
  <1> DEFINE R == {ij \in Nat \X Nat : ij[1] < ij[2]}
             B == {n - i : i \in S}
  <1>1. IsWellFoundedOn(R, Nat)
    BY NatLessThanWellFounded, Zenon DEF OpToRel
  <1>2. \A i \in S : i \in Nat /\ n - i \in Nat
    OBVIOUS
  <1>3. B \subseteq Nat /\ B # {}
    BY <1>2, Zenon
  <1>4. PICK m \in B : \A y \in B : ~ (<<y, m>> \in R)
    <2> HIDE DEF R, B
    <2> QED BY <1>1, <1>3, WFMin, Zenon
  <1>5. PICK i \in S : m = n - i
    BY <1>4, Zenon
  <1>6. ASSUME NEW j \in S PROVE j <= i
    <2>1. n - j \in Nat /\ m \in Nat /\ ~ (<<n - j, m>> \in R)
      BY <1>2, <1>3, <1>4, Zenon
    <2>2. ~ (n - j < m)
      BY <2>1
    <2> QED BY <2>2, <1>5, <1>2
  <1> QED BY <1>6, Zenon

\* f is the map after each of the first k schemas.
IsLoop(f, schemas, k) ==
    f = [n \in 0 .. k |-> IF n = 0 THEN <<>> ELSE Insert(f[n - 1], schemas[n])]

\* The schemas for a project and a kind among the first n.
At(schemas, n, project, kind) ==
    {i \in 1 .. n : schemas[i].project = project /\ schemas[i].kind = kind}

\* The map holds, for each project and kind that the first n schemas name, what
\* the last of them for that pair accepts.
HoldsLast(map, schemas, n) ==
    \A project, kind :
        /\ <<project, kind>> \in DOMAIN map <=> At(schemas, n, project, kind) # {}
        /\ \A i \in At(schemas, n, project, kind) :
            (\A j \in At(schemas, n, project, kind) : j <= i) => map[<<project, kind>>] = schemas[i].accepts

\* The loop can be run over any number of schemas.
LEMMA LoopExists ==
  ASSUME NEW schemas, NEW k \in Nat
  PROVE  \E f : IsLoop(f, schemas, k)
  <1> DEFINE R == {ij \in Nat \X Nat : ij[1] < ij[2]}
             B == {n \in Nat : ~ \E f : IsLoop(f, schemas, n)}
  <1> SUFFICES ASSUME B # {} PROVE FALSE
    BY Zenon
  <1>1. IsWellFoundedOn(R, Nat)
    BY NatLessThanWellFounded, Zenon DEF OpToRel
  <1>2. B \subseteq Nat
    BY Zenon
  <1>3. PICK m \in B : \A y \in B : ~ (<<y, m>> \in R)
    <2> HIDE DEF R, B
    <2> QED BY <1>1, <1>2, WFMin, Zenon
  <1>4. m \in Nat /\ ~ \E f : IsLoop(f, schemas, m)
    BY <1>3, Zenon
  <1>5. CASE m = 0
    <2>1. PICK f : f = [n \in 0 .. 0 |-> <<>>]
      BY Zenon
    <2>2. \A n \in 0 .. 0 : n = 0
      BY SMT
    <2>3. f = [n \in 0 .. 0 |-> IF n = 0 THEN <<>> ELSE Insert(f[n - 1], schemas[n])]
      BY <2>1, <2>2, Zenon
    <2> QED BY <1>4, <1>5, <2>3, Zenon DEF IsLoop
  <1>6. CASE m # 0
    <2>1. m - 1 \in Nat /\ m - 1 < m /\ m \in Nat
      BY <1>4, <1>6, SMT
    <2>2. <<m - 1, m>> \in R
      BY <2>1
    <2>3. PICK g : IsLoop(g, schemas, m - 1)
      BY <1>3, <2>1, <2>2, Zenon
    <2>4. PICK f : f = [n \in 0 .. m |-> IF n = m THEN Insert(g[m - 1], schemas[m]) ELSE g[n]]
      BY Zenon
    <2>5. \A n \in 0 .. m : n # m => n \in 0 .. m - 1
      BY <1>4, SMT
    <2>6. \A n \in 0 .. m : n # 0 => n - 1 \in 0 .. m /\ n - 1 # m
      BY <1>4, SMT
    <2>7. m \in 0 .. m /\ m # 0 /\ m - 1 \in 0 .. m /\ m - 1 # m
      BY <1>4, <1>6, SMT
    <2>8. ASSUME NEW n \in 0 .. m
          PROVE  f[n] = IF n = 0 THEN <<>> ELSE Insert(f[n - 1], schemas[n])
      <3>1. CASE n = m
        <4>1. f[m] = Insert(g[m - 1], schemas[m]) /\ f[m - 1] = g[m - 1]
          BY <2>4, <2>7, Zenon
        <4> QED BY <2>7, <3>1, <4>1, Zenon
      <3>2. CASE n # m
        <4>1. f[n] = g[n] /\ n \in 0 .. m - 1
          BY <2>4, <2>5, <3>2, Zenon
        <4>2. g[n] = IF n = 0 THEN <<>> ELSE Insert(g[n - 1], schemas[n])
          BY <2>3, <4>1, Zenon DEF IsLoop
        <4>3. n # 0 => f[n - 1] = g[n - 1]
          BY <2>4, <2>6, Zenon
        <4> QED BY <4>1, <4>2, <4>3, Zenon
      <3> QED BY <3>1, <3>2, Zenon
    <2>9. IsLoop(f, schemas, m)
      BY <2>4, <2>8, Zenon DEF IsLoop
    <2> QED BY <1>4, <2>9, Zenon
  <1> QED BY <1>5, <1>6, Zenon

\* HashMap::insert keeps the last of the schemas for a pair.
LEMMA InsertLast ==
  ASSUME NEW map, NEW schemas, NEW n \in Nat, n # 0, HoldsLast(map, schemas, n - 1)
  PROVE  HoldsLast(Insert(map, schemas[n]), schemas, n)
  <1>1. PICK s, new : s = schemas[n] /\ new = Insert(map, s)
    BY Zenon
  <1>2. PICK pk : pk = <<s.project, s.kind>>
    BY Zenon
  <1>3. new = [x \in DOMAIN map \cup {pk} |-> IF x = pk THEN s.accepts ELSE map[x]]
    BY <1>1, <1>2, Zenon DEF Insert
  <1>4. /\ \A i : i \in 1 .. n <=> (i \in 1 .. n - 1 \/ i = n)
        /\ \A i \in 1 .. n - 1 : i <= n /\ ~ (n <= i)
        /\ n <= n
    BY SMT
  <1>5. ASSUME NEW project, NEW kind
        PROVE  /\ <<project, kind>> \in DOMAIN new <=> At(schemas, n, project, kind) # {}
               /\ \A i \in At(schemas, n, project, kind) :
                    (\A j \in At(schemas, n, project, kind) : j <= i) =>
                        new[<<project, kind>>] = schemas[i].accepts
    <2>1. /\ <<project, kind>> \in DOMAIN map <=> At(schemas, n - 1, project, kind) # {}
          /\ \A i \in At(schemas, n - 1, project, kind) :
                (\A j \in At(schemas, n - 1, project, kind) : j <= i) =>
                    map[<<project, kind>>] = schemas[i].accepts
      BY Zenon DEF HoldsLast
    <2>2. PICK at, old : at = At(schemas, n, project, kind) /\ old = At(schemas, n - 1, project, kind)
      BY Zenon
    <2>3. /\ <<project, kind>> \in DOMAIN new <=> at # {}
          /\ \A i \in at : (\A j \in at : j <= i) => new[<<project, kind>>] = schemas[i].accepts
      <3>1. CASE project = s.project /\ kind = s.kind
        <4>1. <<project, kind>> = pk
          BY <1>2, <3>1, Zenon
        <4>2. n \in at
          BY <1>1, <1>4, <2>2, <3>1, Zenon DEF At
        <4>3. pk \in DOMAIN new /\ new[pk] = s.accepts
          BY <1>3, Zenon
        <4>4. ASSUME NEW i \in at, \A j \in at : j <= i PROVE i = n
          <5>1. n <= i /\ i \in 1 .. n
            BY <2>2, <4>2, <4>4, Zenon DEF At
          <5> QED BY <1>4, <5>1, Zenon
        <4> QED BY <1>1, <4>1, <4>2, <4>3, <4>4, Zenon
      <3>2. CASE ~ (project = s.project /\ kind = s.kind)
        <4>1. <<project, kind>> # pk
          BY <1>2, <3>2, SMT
        <4>2. n \notin at
          BY <1>1, <2>2, <3>2, Zenon DEF At
        <4>3. at = old
          BY <1>4, <2>2, <4>2, Zenon DEF At
        <4>4. /\ <<project, kind>> \in DOMAIN new <=> <<project, kind>> \in DOMAIN map
              /\ <<project, kind>> \in DOMAIN map => new[<<project, kind>>] = map[<<project, kind>>]
          BY <1>3, <4>1, Zenon
        <4> QED BY <2>1, <2>2, <4>3, <4>4, Zenon
      <3> QED BY <3>1, <3>2, Zenon
    <2> QED BY <2>2, <2>3, Zenon
  <1>6. HoldsLast(new, schemas, n)
    BY <1>5, Zenon DEF HoldsLast
  <1> QED BY <1>1, <1>6, Zenon

\* What load_with_options compiles: the last schema for each project and kind.
LEMMA CompiledHoldsLast ==
  ASSUME NEW schemas, Len(schemas) \in Nat
  PROVE  HoldsLast(Compiled(schemas), schemas, Len(schemas))
  <1>0. PICK k \in Nat : k = Len(schemas)
    BY Zenon
  <1>1. PICK f : f = CHOOSE g : IsLoop(g, schemas, k)
    BY Zenon
  <1>2. Compiled(schemas) = f[k]
    BY <1>0, <1>1, Zenon DEF Compiled, IsLoop
  <1>3. IsLoop(f, schemas, k)
    BY <1>1, LoopExists, Zenon
  <1>4. f = [n \in 0 .. k |-> IF n = 0 THEN <<>> ELSE Insert(f[n - 1], schemas[n])]
    BY <1>3, Zenon DEF IsLoop
  <1> DEFINE R == {ij \in Nat \X Nat : ij[1] < ij[2]}
             B == {n \in 0 .. k : ~ HoldsLast(f[n], schemas, n)}
  <1>5. B = {}
    <2> SUFFICES ASSUME B # {} PROVE FALSE
      BY Zenon
    <2>1. IsWellFoundedOn(R, Nat)
      BY NatLessThanWellFounded, Zenon DEF OpToRel
    <2>2. B \subseteq Nat
      BY SMT
    <2>3. PICK m \in B : \A y \in B : ~ (<<y, m>> \in R)
      <3> HIDE DEF R, B
      <3> QED BY <2>1, <2>2, WFMin, Zenon
    <2>4. m \in 0 .. k /\ ~ HoldsLast(f[m], schemas, m)
      BY <2>3, Zenon
    <2>5. CASE m = 0
      <3>1. f[0] = <<>> /\ DOMAIN <<>> = {} /\ 1 .. 0 = {}
        <4>1. f[0] = <<>>
          BY <1>4, <2>4, <2>5, Zenon
        <4>2. DOMAIN <<>> = {} /\ 1 .. 0 = {}
          BY SMT
        <4> QED BY <4>1, <4>2, Zenon
      <3>2. HoldsLast(f[0], schemas, 0)
        BY <3>1, Zenon DEF HoldsLast, At
      <3> QED BY <2>4, <2>5, <3>2, Zenon
    <2>6. CASE m # 0
      <3>1. m - 1 \in 0 .. k /\ m - 1 \in Nat /\ m - 1 < m /\ m \in Nat
        BY <2>4, <2>6, SMT
      <3>2. <<m - 1, m>> \in R
        BY <3>1
      <3>3. HoldsLast(f[m - 1], schemas, m - 1)
        BY <2>3, <3>1, <3>2, Zenon
      <3>4. HoldsLast(Insert(f[m - 1], schemas[m]), schemas, m)
        BY <2>6, <3>1, <3>3, InsertLast, Zenon
      <3>5. f[m] = Insert(f[m - 1], schemas[m])
        BY <1>4, <2>4, <2>6, Zenon
      <3> QED BY <2>4, <3>4, <3>5, Zenon
    <2> QED BY <2>5, <2>6, Zenon
  <1>6. k \in 0 .. k
    BY SMT
  <1>7. HoldsLast(f[k], schemas, k)
    BY <1>5, <1>6, Zenon
  <1> QED BY <1>0, <1>2, <1>7, Zenon

\* The smallest element of a set of naturals is one of its elements.
LEMMA FirstIsElement ==
    ASSUME NEW S \in SUBSET Nat, S # {}
    PROVE  First(S) \in S
  <1>. DEFINE R == {ss \in Nat \X Nat : ss[1] < ss[2]}
  <1>1. IsWellFoundedOn(R, Nat)
    BY NatLessThanWellFounded, Zenon DEF OpToRel
  <1>2. \E x \in S : \A y \in S : ~(<<y, x>> \in R)
    <2>. HIDE DEF R
    <2>. QED
      BY <1>1, WFMin, Zenon
  <1>3. \E x \in S : \A y \in S : x =< y
    <2>1. PICK x \in S : \A y \in S : ~(<<y, x>> \in R)
      BY <1>2, Zenon
    <2>2. ASSUME NEW y \in S PROVE x =< y
      <3>1. <<y, x>> \in Nat \X Nat /\ ~(<<y, x>>[1] < <<y, x>>[2])
        BY <2>1, Zenon
      <3>. QED
        BY <3>1
    <2>. QED
      BY <2>2, Zenon
  <1>. QED
    BY <1>3, Zenon DEF First

\* Authentication finds a token of the file that has the presented secret.
LEMMA AuthenticateFinds ==
    ASSUME file \in ConfigFiles, NEW secret, Authenticate(secret) # None
    PROVE  /\ Authenticate(secret) \in Range(file.tokens)
           /\ Authenticate(secret) \in TokenContext
           /\ Authenticate(secret).secret = secret
  <1>. DEFINE match == {i \in DOMAIN file.tokens : file.tokens[i].secret = secret}
  <1>1. file.tokens \in Seq(TokenContext)
    BY GateAssumption, Zenon
  <1>2. match # {} /\ Authenticate(secret) = file.tokens[First(match)]
    BY Zenon DEF Authenticate
  <1>3. match \in SUBSET Nat
    BY <1>1
  <1>4. First(match) \in match
    BY <1>2, <1>3, FirstIsElement, Zenon
  <1>. QED
    <2>. DEFINE i == First(match)
    <2>1. i \in DOMAIN file.tokens /\ file.tokens[i].secret = secret
      BY <1>4, Zenon
    <2>. HIDE DEF i
    <2>2. file.tokens[i] \in TokenContext /\ file.tokens[i] \in Range(file.tokens)
      BY <1>1, <2>1 DEF Range
    <2>. QED
      BY <1>2, <2>1, <2>2 DEF i

-----------------------------------------------------------------------------
(* The inductive invariant                                                 *)

Request == [pc: {"idle", "logs", "entries", "crashes", "parts"}, call: Calls \cup {None},
            token: TokenContext \cup {None}, left: Seq(Entry)]

\* What is known of a request that is being served.
Live(h) ==
    /\ server = "up"
    /\ req[h].call \in Calls
    /\ req[h].token \in Range(file.tokens) /\ req[h].token.secret = req[h].call.secret
    /\ \/ req[h].pc \in {"logs", "entries"} /\ req[h].call.path = "logs"
       \/ req[h].pc \in {"crashes", "parts"} /\ req[h].call.path = "crashes" /\ req[h].left # <<>>
    /\ req[h].pc = "parts" =>
        IsSourceKey(Metadata(h).source) /\ Permits(req[h].token, Metadata(h).source)

\* A server that is not up serves nothing.
ServerOK ==
    /\ server \in {"down", "refused", "up"}
    /\ file \in ConfigFiles \cup {NoFile}
    /\ server = "up" => file \in ConfigFiles
    /\ server = "down" => stored = {} /\ present = {}

RequestsOK == req \in [Handlers -> Request] /\ \A h \in Handlers : req[h] = Idle \/ Live(h)

\* What was stored has a name that can be a path and is in a token's scope.
Scoped(item) ==
    /\ item.source \in Sources /\ IsSourceKey(item.source)
    /\ \E token \in Range(file.tokens) :
        /\ token.secret = item.secret
        /\ token.project = item.source.project
        /\ StartsWith(Canonical(item.source), token.prefix)

Busy(p) == {h \in Handlers : req[h] # Idle /\ req[h].call.path = p}

CountsOK ==
    /\ calls \in 0 .. MaxCalls
    /\ requestsTotal \in [Endpoints -> Nat]
    /\ validationFailures \in [Endpoints -> Nat]
    /\ owed \in [Endpoints -> Nat]
    /\ \A p \in Endpoints :
        /\ owed[p] = requestsTotal[p] + Cardinality(Busy(p))
        /\ owed[p] <= calls
        /\ validationFailures[p] <= requestsTotal[p]

GInv ==
    /\ ServerOK /\ RequestsOK /\ CountsOK
    /\ \A item \in stored : Scoped(item)
    /\ BucketsInScope

-----------------------------------------------------------------------------
(* Requests                                                                *)

\* A request that is served has the types of its call and of its token.
LEMMA LiveTypes ==
    ASSUME GInv, NEW h \in Handlers, req[h] # Idle
    PROVE  /\ Live(h)
           /\ req[h] \in Request
           /\ file \in ConfigFiles
           /\ req[h].call \in Calls /\ req[h].call \in Call /\ req[h].call.path \in Endpoints
           /\ req[h].token \in TokenContext
           /\ req[h].left \in Seq(Entry)
           /\ req[h].left # <<>> => Head(req[h].left) \in Entry
  <1>1. Live(h) /\ req[h] \in Request /\ file \in ConfigFiles
    BY Zenon DEF GInv, RequestsOK, ServerOK, Live
  <1>2. req[h].call \in Calls /\ req[h].call \in Call
    BY <1>1, GateAssumption, Zenon DEF Live
  <1>3. req[h].token \in TokenContext
    <2>1. file.tokens \in Seq(TokenContext)
      BY <1>1, GateAssumption, Zenon
    <2>. QED
      BY <1>1, <2>1 DEF Live, Range
  <1>4. req[h].left \in Seq(Entry)
    BY <1>1, Zenon DEF Request
  <1>5. req[h].left # <<>> => Head(req[h].left) \in Entry
    BY <1>4
  <1>. QED
    BY <1>1, <1>2, <1>3, <1>4, <1>5, Zenon DEF Call

\* The entry a log request charges and stores is an allowed one.
LEMMA LogsEntryAllowed ==
    ASSUME GInv, NEW h \in Handlers, LogsEntry(h)
    PROVE  LET entry == Head(req[h].left)
           IN  /\ req[h] # Idle
               /\ entry \in Entry
               /\ IsSourceKey(entry.source) /\ Permits(req[h].token, entry.source)
  <1>1. req[h] # Idle /\ req[h].left # <<>>
    BY SMTT(20) DEF LogsEntry, Idle
  <1>. QED
    BY <1>1, LiveTypes, Zenon DEF LogsEntry, EntryIsAllowed

\* So is the metadata a crash upload is charged for.
LEMMA CrashEnterAllowed ==
    ASSUME GInv, NEW h \in Handlers, CrashEnter(h)
    PROVE  /\ req[h] # Idle
           /\ Metadata(h) \in Entry
           /\ IsSourceKey(Metadata(h).source) /\ Permits(req[h].token, Metadata(h).source)
  <1>1. req[h] # Idle /\ req[h].pc = "crashes"
    BY DEF CrashEnter, Idle
  <1>2. req[h].left # <<>>
    BY <1>1, LiveTypes, Zenon DEF Live
  <1>. QED
    BY <1>1, <1>2, LiveTypes DEF CrashEnter, CrashIsWrong, Metadata

\* And the metadata that is stored.
LEMMA CrashPartsAllowed ==
    ASSUME GInv, NEW h \in Handlers, CrashParts(h)
    PROVE  /\ req[h] # Idle
           /\ Metadata(h) \in Entry
           /\ IsSourceKey(Metadata(h).source) /\ Permits(req[h].token, Metadata(h).source)
  <1>1. req[h] # Idle /\ req[h].pc = "parts"
    BY DEF CrashParts, Idle
  <1>2. req[h].left # <<>>
    BY <1>1, LiveTypes, Zenon DEF Live
  <1>. QED
    BY <1>1, <1>2, LiveTypes DEF Live, Metadata

\* The configuration does not change under a server that is up.
LEMMA FileStays ==
    ASSUME GInv, [GateNext]_gateVars, file' # file
    PROVE  server = "down" /\ stored' = stored /\ present' = present
  <1>1. ASSUME NEW h \in Handlers, Serve(h) PROVE file' = file
    BY <1>1, Zenon DEF Serve, LogsEnter, LogsEntryRefused, LogsEntry, LogsDone, CrashRefused,
                CrashEnter, CrashParts
  <1>2. Clock => file' = file
    BY Zenon DEF Clock
  <1>3. ASSUME NEW h \in Handlers, NEW c \in Calls, Arrive(h, c) \/ HangUp(h) PROVE file' = file
    BY <1>3, Zenon DEF Arrive, HangUp
  <1>4. ASSUME NEW f \in ConfigFiles, Start(f)
        PROVE  server = "down" /\ stored' = stored /\ present' = present
    BY <1>4, Zenon DEF Start, vars, buckets
  <1>5. ASSUME NEW h \in Handlers, HangUp(h) PROVE file' = file
    BY <1>5, Zenon DEF HangUp
  <1>. QED
    BY <1>1, <1>2, <1>3, <1>4, <1>5 DEF GateNext, gateVars

\* A step of one request leaves what is known of the others.
LEMMA OthersStay ==
    ASSUME RequestsOK, NEW h \in Handlers, NEW r \in Request, req' = [req EXCEPT ![h] = r],
           server' = server, file' = file, r = Idle \/ Live(h)'
    PROVE  RequestsOK'
  <1>1. req' \in [Handlers -> Request] /\ req'[h] = r
    BY ZenonT(40) DEF RequestsOK
  <1>2. ASSUME NEW g \in Handlers, g # h PROVE req'[g] = Idle \/ Live(g)'
    <2>1. req'[g] = req[g]
      BY <1>2, Zenon DEF RequestsOK
    <2>. QED
      BY <2>1 DEF RequestsOK, Live, Metadata, Permits
  <1>. QED
    BY <1>1, <1>2 DEF RequestsOK

Ends(h) ==
    /\ Answer(h, req[h].call.path)
    /\ \/ UNCHANGED validationFailures
       \/ validationFailures' = [validationFailures EXCEPT ![req[h].call.path] = @ + 1]

GoesOn(h) ==
    /\ \E r \in Request : r # Idle /\ r.call = req[h].call /\ req' = [req EXCEPT ![h] = r]
    /\ Live(h)'
    /\ UNCHANGED <<requestsTotal, validationFailures>>

\* A served request is answered, or goes on as the same request.
LEMMA ServeStep ==
    ASSUME GInv, NEW h \in Handlers, Serve(h)
    PROVE  /\ req[h] # Idle
           /\ UNCHANGED <<server, file, calls, owed>>
           /\ Ends(h) \/ GoesOn(h)
  <1>1. req[h] # Idle
    BY DEF Serve, LogsEnter, LogsEntryRefused, LogsEntry, LogsDone, CrashRefused, CrashEnter,
           CrashParts, Idle
  <1>2. UNCHANGED <<server, file, calls, owed>>
    BY Zenon DEF Serve, LogsEnter, LogsEntryRefused, LogsEntry, LogsDone, CrashRefused, CrashEnter,
           CrashParts
  <1>3. /\ Live(h) /\ req[h] \in Request /\ req[h].left \in Seq(Entry)
        /\ req \in [Handlers -> Request]
    BY <1>1, LiveTypes DEF GInv, RequestsOK
  <1>4. ASSUME LogsEnter(h) PROVE Ends(h) \/ GoesOn(h)
    <2>1. req[h].call.path = "logs"
      BY <1>3, <1>4 DEF Live, LogsEnter
    <2>2. CASE req' = [req EXCEPT ![h].pc = "entries"] /\ UNCHANGED <<requestsTotal, validationFailures>>
      <3>. DEFINE r == [req[h] EXCEPT !.pc = "entries"]
      <3>1. r \in Request /\ r # Idle /\ r.call = req[h].call /\ req' = [req EXCEPT ![h] = r]
        BY <1>3, <2>2, Zenon DEF Request, Idle
      <3>2. req'[h] = r /\ r.token = req[h].token /\ r.pc = "entries"
        BY <1>3, <2>2, SMTT(20) DEF Request
      <3>. HIDE DEF r
      <3>3. Live(h)'
        BY <1>2, <1>3, <2>1, <3>1, <3>2 DEF Live
      <3>. QED
        BY <2>2, <3>1, <3>3, Zenon DEF GoesOn
    <2>. QED
      BY <1>4, <2>1, <2>2 DEF LogsEnter, Refused, Ends
  <1>5. ASSUME LogsEntryRefused(h) PROVE Ends(h) \/ GoesOn(h)
    BY <1>5, Zenon DEF LogsEntryRefused, Refused, Ends
  <1>6. ASSUME LogsEntry(h) PROVE Ends(h) \/ GoesOn(h)
    <2>1. UNCHANGED validationFailures
      BY <1>6, Zenon DEF LogsEntry
    <2>2. CASE req' = [req EXCEPT ![h].left = Tail(@)] /\ UNCHANGED requestsTotal
      <3>. DEFINE r == [req[h] EXCEPT !.left = Tail(@)]
      <3>1. req[h].pc = "entries" /\ req[h].left # <<>>
        BY <1>6, Zenon DEF LogsEntry
      <3>2. Tail(req[h].left) \in Seq(Entry)
        BY <1>3, <3>1
      <3>3. r \in Request /\ r # Idle /\ r.call = req[h].call /\ req' = [req EXCEPT ![h] = r]
        BY <1>3, <2>2, <3>1, <3>2, Zenon DEF Request, Idle
      <3>4. req'[h] = r /\ r.token = req[h].token /\ r.pc = "entries"
        BY <1>3, <2>2, <3>1, SMTT(20) DEF Request
      <3>. HIDE DEF r
      <3>5. Live(h)'
        BY <1>2, <1>3, <3>1, <3>3, <3>4, SMTT(20) DEF Live
      <3>. QED
        BY <2>1, <2>2, <3>3, <3>5, Zenon DEF GoesOn
    <2>. QED
      BY <1>6, <2>1, <2>2 DEF LogsEntry, Refused, Ends
  <1>7. ASSUME LogsDone(h) PROVE Ends(h) \/ GoesOn(h)
    BY <1>3, <1>7 DEF LogsDone, Live, Ends
  <1>8. ASSUME CrashRefused(h) PROVE Ends(h) \/ GoesOn(h)
    BY <1>8, Zenon DEF CrashRefused, Refused, Ends
  <1>9. ASSUME CrashEnter(h) PROVE Ends(h) \/ GoesOn(h)
    <2>1. req[h].call.path = "crashes" /\ req[h].left # <<>>
      BY <1>3, <1>9 DEF Live, CrashEnter
    <2>2. CASE req' = [req EXCEPT ![h].pc = "parts"] /\ UNCHANGED <<requestsTotal, validationFailures>>
      <3>. DEFINE r == [req[h] EXCEPT !.pc = "parts"]
      <3>1. r \in Request /\ r # Idle /\ r.call = req[h].call /\ req' = [req EXCEPT ![h] = r]
        BY <1>3, <2>2 DEF Request, Idle
      <3>2. req'[h] = r /\ r.token = req[h].token /\ r.pc = "parts" /\ r.left = req[h].left
        BY <1>3, <2>2 DEF Request
      <3>3. IsSourceKey(Metadata(h).source) /\ Permits(req[h].token, Metadata(h).source)
        BY <1>9, CrashEnterAllowed, SMTT(20)
      <3>. HIDE DEF r
      <3>4. Live(h)'
        BY <1>2, <1>3, <2>1, <3>1, <3>2, <3>3 DEF Live, Metadata, Permits
      <3>. QED
        BY <2>2, <3>1, <3>4, Zenon DEF GoesOn
    <2>. QED
      BY <1>9, <2>1, <2>2 DEF CrashEnter, Refused, Ends
  <1>10. ASSUME CrashParts(h) PROVE Ends(h) \/ GoesOn(h)
    <2>1. req[h].call.path = "crashes"
      BY <1>3, <1>10, Zenon DEF Live, CrashParts
    <2>. QED
      BY <1>10, <2>1, Zenon DEF CrashParts, Refused, Ends
  <1>11. Ends(h) \/ GoesOn(h)
    BY <1>4, <1>5, <1>6, <1>7, <1>8, <1>9, <1>10, SMTT(20) DEF Serve
  <1>. QED
    BY <1>1, <1>2, <1>11

\* The server starts at most once and is up only with a file that loads.
LEMMA StepKeepsServer == GInv /\ [GateNext]_gateVars => ServerOK'
  <1>. SUFFICES ASSUME GInv, [GateNext]_gateVars PROVE ServerOK'
    OBVIOUS
  <1>. USE DEF GInv, ServerOK
  <1>1. ASSUME NEW f \in ConfigFiles, Start(f) PROVE ServerOK'
    BY <1>1, Zenon DEF Start
  <1>2. ASSUME NEW h \in Handlers, Serve(h) PROVE ServerOK'
    <2>1. UNCHANGED <<server, file>> /\ req[h] # Idle
      BY <1>2, ServeStep, Zenon
    <2>2. server = "up"
      BY <2>1, LiveTypes, Zenon DEF Live
    <2>. QED
      BY <2>1, <2>2, Zenon
  <1>3. ASSUME NEW h \in Handlers, NEW c \in Calls, Arrive(h, c) PROVE ServerOK'
    BY <1>3, Zenon DEF Arrive
  <1>4. ASSUME NEW h \in Handlers, HangUp(h) PROVE ServerOK'
    BY <1>4, Zenon DEF HangUp, vars, buckets
  <1>5. CASE Clock
    BY <1>5, Zenon DEF Clock, Tick, OpenWindow, buckets
  <1>6. CASE UNCHANGED gateVars
    BY <1>6 DEF gateVars, vars, buckets
  <1>. QED
    BY <1>1, <1>2, <1>3, <1>4, <1>5, <1>6 DEF GateNext

-----------------------------------------------------------------------------
(* Schemas                                                                 *)

\* A server that is up holds the last schema of the file for each pair.
RegistryOK == server = "up" => HoldsLast(registry, file.schemas, Len(file.schemas))

\* What a request has left after its schema check has passed it.
Vetted(h) ==
    /\ req[h].pc = "entries" =>
        \A entry \in Range(req[h].left) : Validate(req[h].token.project, "log_attributes", entry.payload)
    /\ req[h].pc = "parts" => Validate(Metadata(h).source.project, "crash_metadata", Metadata(h).payload)

KindOf(path) == IF path = "logs" THEN "log_attributes" ELSE "crash_metadata"

Conforms(item) == Validate(item.source.project, KindOf(item.path), item.payload)

ValidInv ==
    /\ RegistryOK
    /\ \A h \in Handlers : Vetted(h)
    /\ \A item \in stored : server = "up" /\ Conforms(item)

\* The steps that leave the configuration alone: what was vetted stays so.
LEMMA VettedStays ==
    ASSUME GInv, ValidInv, NEW h \in Handlers, NEW r, req' = [req EXCEPT ![h] = r],
           UNCHANGED <<server, file, registry>>,
           r.pc \notin {"entries", "parts"} \/ Vetted(h)',
           stored' = stored \/ \E item : stored' = stored \cup {item} /\ Conforms(item) /\ server = "up"
    PROVE  ValidInv'
  <1>1. req \in [Handlers -> Request] /\ req'[h] = r /\ \A g \in Handlers : g # h => req'[g] = req[g]
    BY Zenon DEF GInv, RequestsOK
  <1>2. \A project, kind, payload : Validate(project, kind, payload)' <=> Validate(project, kind, payload)
    BY Zenon DEF Validate
  <1>3. ASSUME NEW g \in Handlers PROVE Vetted(g)'
    <2>1. CASE g = h
      <3>1. r.pc \notin {"entries", "parts"} => Vetted(h)'
        BY <1>1, Zenon DEF Vetted
      <3> QED BY <2>1, <3>1, Zenon
    <2>2. CASE g # h
      <3>1. req'[g] = req[g] /\ Vetted(g)
        BY <1>1, <2>2, Zenon DEF ValidInv
      <3>2. Metadata(g)' = Metadata(g)
        BY <3>1, Zenon DEF Metadata
      <3> QED BY <3>1, <3>2, Zenon DEF Vetted, Validate
    <2> QED BY <2>1, <2>2, Zenon
  <1>4. RegistryOK'
    BY Zenon DEF ValidInv, RegistryOK
  <1>5. ASSUME NEW item \in stored' PROVE server' = "up" /\ Conforms(item)'
    <2>1. server = "up" /\ Conforms(item)
      BY <1>5, Zenon DEF ValidInv
    <2> QED BY <1>2, <2>1, Zenon DEF Conforms, Validate
  <1> QED BY <1>3, <1>4, <1>5, Zenon DEF ValidInv

\* A request ends: nothing is left of it.
LEMMA EndsVetted ==
    ASSUME GInv, ValidInv, NEW h \in Handlers, req' = [req EXCEPT ![h] = Idle],
           UNCHANGED <<server, file, registry>>,
           stored' = stored \/ \E item : stored' = stored \cup {item} /\ Conforms(item) /\ server = "up"
    PROVE  ValidInv'
  <1>1. Idle.pc \notin {"entries", "parts"}
    BY DEF Idle
  <1> QED BY <1>1, VettedStays, Zenon

\* LogsHandler::export: the batch is vetted, then its entries are stored.
LEMMA LogsVetted ==
    ASSUME GInv, ValidInv, NEW h \in Handlers,
           LogsEnter(h) \/ LogsEntryRefused(h) \/ LogsEntry(h) \/ LogsDone(h)
    PROVE  ValidInv'
  <1>1. UNCHANGED <<server, file, registry>>
    BY Zenon DEF LogsEnter, LogsEntryRefused, LogsEntry, LogsDone
  <1>2. req[h] # Idle /\ req \in [Handlers -> Request]
    <2>1. req[h].pc \in {"logs", "entries"}
      BY DEF LogsEnter, LogsEntryRefused, LogsEntry, LogsDone
    <2>2. Idle.pc \notin {"logs", "entries"}
      BY DEF Idle
    <2> QED BY <2>1, <2>2, Zenon DEF GInv, RequestsOK
  <1>3. Live(h) /\ req[h] \in Request /\ req[h].left \in Seq(Entry)
    BY <1>2, LiveTypes, Zenon
  <1>4. CASE LogsEnter(h)
    <2>1. stored' = stored
      BY <1>4, Zenon DEF LogsEnter
    <2>2. CASE Refused(h)
      <3>1. req' = [req EXCEPT ![h] = Idle]
        BY <2>2, Zenon DEF Refused, Answer
      <3> QED BY <1>1, <2>1, <3>1, EndsVetted, Zenon
    <2>3. CASE BatchIsValid(h) /\ req' = [req EXCEPT ![h].pc = "entries"]
      <3>1. PICK r : r = [req[h] EXCEPT !.pc = "entries"]
        BY Zenon
      <3>2. req' = [req EXCEPT ![h] = r] /\ req'[h] = r
        BY <1>2, <2>3, <3>1, Zenon
      <3>3. r.pc = "entries" /\ r.token = req[h].token /\ r.left = req[h].left
        BY <1>3, <3>1 DEF Request
      <3>4. "entries" # "parts"
        OBVIOUS
      <3>5. Vetted(h)'
        BY <1>1, <2>3, <3>2, <3>3, <3>4, Zenon DEF Vetted, BatchIsValid, Validate
      <3> QED BY <1>1, <2>1, <3>2, <3>5, VettedStays, Zenon
    <2> QED BY <1>4, <2>2, <2>3, Zenon DEF LogsEnter
  <1>5. CASE LogsEntryRefused(h)
    <2>1. req' = [req EXCEPT ![h] = Idle] /\ stored' = stored
      BY <1>5, Zenon DEF LogsEntryRefused, Refused, Answer
    <2> QED BY <1>1, <2>1, EndsVetted, Zenon
  <1>6. CASE LogsDone(h)
    <2>1. req' = [req EXCEPT ![h] = Idle] /\ stored' = stored
      BY <1>6, Zenon DEF LogsDone, Answer
    <2> QED BY <1>1, <2>1, EndsVetted, Zenon
  <1>7. CASE LogsEntry(h)
    <2>1. PICK left, entry : left = req[h].left /\ entry = Head(left)
      BY Zenon
    <2>2. req[h].pc = "entries" /\ left # <<>> /\ Permits(req[h].token, entry.source)
      BY <1>7, <2>1, Zenon DEF LogsEntry, EntryIsAllowed
    <2>3. entry \in Range(left) /\ Range(Tail(left)) \subseteq Range(left)
      <3>1. left \in Seq(Entry)
        BY <1>3, <2>1, Zenon
      <3>2. 1 \in DOMAIN left /\ entry = left[1] /\ \A i \in DOMAIN Tail(left) : i + 1 \in DOMAIN left /\ Tail(left)[i] = left[i + 1]
        BY <2>1, <2>2, <3>1, SMT
      <3> QED BY <3>2, Zenon DEF Range
    <2>4. \A e \in Range(left) : Validate(req[h].token.project, "log_attributes", e.payload)
      BY <2>1, <2>2, Zenon DEF ValidInv, Vetted
    <2>5. server = "up" /\ req[h].call.path = "logs"
      <3>1. "entries" \notin {"crashes", "parts"}
        OBVIOUS
      <3> QED BY <1>3, <2>2, <3>1, Zenon DEF Live
    <2>6. Conforms(Item(h, entry))
      <3>1. PICK item : item = Item(h, entry)
        BY Zenon
      <3>2. item.path = "logs" /\ item.source = entry.source /\ item.payload = entry.payload
        BY <2>5, <3>1, Zenon DEF Item
      <3>3. entry.source.project = req[h].token.project
        BY <2>2, Zenon DEF Permits
      <3>4. Validate(entry.source.project, "log_attributes", entry.payload)
        BY <2>3, <2>4, <3>3, Zenon
      <3>5. KindOf(item.path) = "log_attributes"
        BY <3>2, Zenon DEF KindOf
      <3> QED BY <3>1, <3>2, <3>4, <3>5, Zenon DEF Conforms
    <2>7. stored' = stored \/ \E item : stored' = stored \cup {item} /\ Conforms(item) /\ server = "up"
      BY <1>7, <2>1, <2>5, <2>6, Zenon DEF LogsEntry
    <2>8. CASE Refused(h)
      <3>1. req' = [req EXCEPT ![h] = Idle]
        BY <2>8, Zenon DEF Refused, Answer
      <3> QED BY <1>1, <2>7, <3>1, EndsVetted, Zenon
    <2>9. CASE req' = [req EXCEPT ![h].left = Tail(@)]
      <3>1. PICK r : r = [req[h] EXCEPT !.left = Tail(left)]
        BY Zenon
      <3>2. req' = [req EXCEPT ![h] = r] /\ req'[h] = r
        BY <1>2, <2>1, <2>9, <3>1, Zenon
      <3>3. r.pc = req[h].pc /\ r.token = req[h].token /\ r.left = Tail(left)
        BY <1>3, <3>1 DEF Request
      <3>4. "entries" # "parts"
        OBVIOUS
      <3>5. Vetted(h)'
        BY <1>1, <2>2, <2>3, <2>4, <3>2, <3>3, <3>4, Zenon DEF Vetted, Validate
      <3> QED BY <1>1, <2>7, <3>2, <3>5, VettedStays, Zenon
    <2> QED BY <1>7, <2>8, <2>9, Zenon DEF LogsEntry
  <1> QED BY <1>4, <1>5, <1>6, <1>7, Zenon

\* crashes_handler: the metadata is vetted, then stored with the parts.
LEMMA CrashVetted ==
    ASSUME GInv, ValidInv, NEW h \in Handlers, CrashRefused(h) \/ CrashEnter(h) \/ CrashParts(h)
    PROVE  ValidInv'
  <1>1. UNCHANGED <<server, file, registry>>
    BY Zenon DEF CrashRefused, CrashEnter, CrashParts
  <1>2. req[h] # Idle /\ req \in [Handlers -> Request]
    <2>1. req[h].pc \in {"crashes", "parts"}
      BY DEF CrashRefused, CrashEnter, CrashParts
    <2>2. Idle.pc \notin {"crashes", "parts"}
      BY DEF Idle
    <2> QED BY <2>1, <2>2, Zenon DEF GInv, RequestsOK
  <1>3. Live(h) /\ req[h] \in Request
    BY <1>2, LiveTypes, Zenon
  <1>4. CASE CrashRefused(h)
    <2>1. req' = [req EXCEPT ![h] = Idle] /\ stored' = stored
      BY <1>4, Zenon DEF CrashRefused, Refused, Answer
    <2> QED BY <1>1, <2>1, EndsVetted, Zenon
  <1>5. CASE CrashEnter(h)
    <2>1. stored' = stored
      BY <1>5, Zenon DEF CrashEnter
    <2>2. CASE Refused(h)
      <3>1. req' = [req EXCEPT ![h] = Idle]
        BY <2>2, Zenon DEF Refused, Answer
      <3> QED BY <1>1, <2>1, <3>1, EndsVetted, Zenon
    <2>3. CASE /\ Validate(Metadata(h).source.project, "crash_metadata", Metadata(h).payload)
               /\ req' = [req EXCEPT ![h].pc = "parts"]
      <3>1. PICK r : r = [req[h] EXCEPT !.pc = "parts"]
        BY Zenon
      <3>2. req' = [req EXCEPT ![h] = r] /\ req'[h] = r
        BY <1>2, <2>3, <3>1, Zenon
      <3>3. r.pc = "parts" /\ r.left = req[h].left
        BY <1>3, <3>1 DEF Request
      <3>4. "entries" # "parts"
        OBVIOUS
      <3>5. Metadata(h)' = Metadata(h)
        BY <3>2, <3>3, Zenon DEF Metadata
      <3>6. Vetted(h)'
        BY <1>1, <2>3, <3>2, <3>3, <3>4, <3>5, Zenon DEF Vetted, Validate
      <3> QED BY <1>1, <2>1, <3>2, <3>6, VettedStays, Zenon
    <2> QED BY <1>5, <2>2, <2>3, Zenon DEF CrashEnter
  <1>6. CASE CrashParts(h)
    <2>1. req[h].pc = "parts" /\ server = "up"
      BY <1>3, <1>6, Zenon DEF CrashParts, Live
    <2>2. req[h].call.path = "crashes"
      <3>1. "parts" \notin {"logs", "entries"}
        OBVIOUS
      <3> QED BY <1>3, <2>1, <3>1, Zenon DEF Live
    <2>3. Conforms(Item(h, Metadata(h)))
      <3>1. PICK item, meta : meta = Metadata(h) /\ item = Item(h, meta)
        BY Zenon
      <3>2. item.path = "crashes" /\ item.source = meta.source /\ item.payload = meta.payload
        BY <2>2, <3>1, Zenon DEF Item
      <3>3. Validate(meta.source.project, "crash_metadata", meta.payload)
        BY <2>1, <3>1, Zenon DEF ValidInv, Vetted
      <3>4. "crashes" # "logs"
        OBVIOUS
      <3>5. KindOf(item.path) = "crash_metadata"
        BY <3>2, <3>4, Zenon DEF KindOf
      <3> QED BY <3>1, <3>2, <3>3, <3>5, Zenon DEF Conforms
    <2>4. req' = [req EXCEPT ![h] = Idle]
      BY <1>6, Zenon DEF CrashParts, Refused, Answer
    <2>5. stored' = stored \/ \E item : stored' = stored \cup {item} /\ Conforms(item) /\ server = "up"
      BY <1>6, <2>1, <2>3, Zenon DEF CrashParts
    <2> QED BY <1>1, <2>4, <2>5, EndsVetted, Zenon
  <1> QED BY <1>4, <1>5, <1>6, Zenon

\* A request arrives, or its client goes away.
LEMMA ArriveVetted ==
    ASSUME GInv, ValidInv, NEW h \in Handlers, HangUp(h) \/ \E c \in Calls : Arrive(h, c)
    PROVE  ValidInv'
  <1>1. UNCHANGED <<server, file, registry>> /\ stored' = stored
    BY Zenon DEF Arrive, HangUp
  <1>2. CASE req' = [req EXCEPT ![h] = Idle]
    BY <1>1, <1>2, EndsVetted, Zenon
  <1>3. ASSUME NEW c \in Calls, NEW token,
               req' = [req EXCEPT ![h] = [pc |-> c.path, call |-> c, token |-> token, left |-> c.entries]]
        PROVE  ValidInv'
    <2>1. PICK r : r = [pc |-> c.path, call |-> c, token |-> token, left |-> c.entries]
      BY Zenon
    <2>2. c \in Call
      BY GateAssumption, Zenon
    <2>3. r.pc \in Endpoints
      BY <2>1, <2>2, Zenon DEF Call
    <2>4. r.pc \notin {"entries", "parts"}
      BY <2>3 DEF Endpoints
    <2> QED BY <1>1, <1>3, <2>1, <2>4, VettedStays, Zenon
  <1> QED BY <1>2, <1>3, Zenon DEF Arrive, HangUp, Answer

\* The server starts: it holds the last schema of the file for each pair, and
\* nothing is stored or in progress yet.
LEMMA StartVetted ==
    ASSUME GInv, ValidInv, NEW f \in ConfigFiles, Start(f)
    PROVE  ValidInv'
  <1>1. /\ server = "down" /\ server' = (IF Loads(f) THEN "up" ELSE "refused") /\ file' = f
        /\ registry' = (IF Loads(f) THEN Compiled(f.schemas) ELSE <<>>)
        /\ req' = req /\ stored' = stored
    BY Zenon DEF Start
  <1>2. "down" # "up" /\ "refused" # "up"
    OBVIOUS
  <1>3. stored = {}
    BY <1>1, Zenon DEF GInv, ServerOK
  <1>4. ASSUME NEW h \in Handlers PROVE req[h] = Idle
    BY <1>1, <1>2, Zenon DEF GInv, RequestsOK, Live
  <1>5. Idle.pc \notin {"entries", "parts"}
    BY DEF Idle
  <1>6. ASSUME NEW h \in Handlers PROVE Vetted(h)'
    <2>1. req'[h].pc \notin {"entries", "parts"}
      BY <1>1, <1>4, <1>5, Zenon
    <2> QED BY <2>1, Zenon DEF Vetted
  <1>7. Len(f.schemas) \in Nat
    <2>1. f.schemas \in Seq(SchemaEntry)
      BY GateAssumption, Zenon
    <2> QED BY <2>1, SMT
  <1>8. RegistryOK'
    BY <1>1, <1>2, <1>7, CompiledHoldsLast, Zenon DEF RegistryOK
  <1> QED BY <1>1, <1>3, <1>6, <1>8, Zenon DEF ValidInv

\* Every step keeps what was vetted.
LEMMA StepKeepsValid ==
    ASSUME GInv, ValidInv, [GateNext]_gateVars
    PROVE  ValidInv'
  <1>1. ASSUME NEW f \in ConfigFiles, Start(f) PROVE ValidInv'
    BY <1>1, StartVetted, Zenon
  <1>2. ASSUME NEW h \in Handlers, Serve(h) PROVE ValidInv'
    BY <1>2, LogsVetted, CrashVetted, Zenon DEF Serve
  <1>3. ASSUME NEW h \in Handlers, HangUp(h) \/ \E c \in Calls : Arrive(h, c) PROVE ValidInv'
    BY <1>3, ArriveVetted, Zenon
  <1>4. ASSUME Clock \/ UNCHANGED gateVars PROVE ValidInv'
    <2>1. UNCHANGED <<server, file, registry, req, stored>>
      BY <1>4, Zenon DEF Clock, gateVars
    <2> QED BY <2>1, Zenon DEF ValidInv, RegistryOK, Vetted, Metadata, Conforms, Validate
  <1> QED BY <1>1, <1>2, <1>3, <1>4, Zenon DEF GateNext

\* What conforms to the registry conforms to the schema that the file's reader
\* expects to apply.
LEMMA ConformsIsExpected ==
    ASSUME GInv, ValidInv, NEW item \in stored
    PROVE  item.payload \in Expected(item.source.project, KindOf(item.path))
  <1>1. PICK project, kind, payload :
            project = item.source.project /\ kind = KindOf(item.path) /\ payload = item.payload
    BY Zenon
  <1>2. server = "up" /\ Validate(project, kind, payload)
    BY <1>1, Zenon DEF ValidInv, Conforms
  <1>3. PICK schemas : schemas = file.schemas
    BY Zenon
  <1>4. PICK n : n = Len(schemas)
    BY Zenon
  <1>5. HoldsLast(registry, schemas, n)
    BY <1>2, <1>3, <1>4, Zenon DEF ValidInv, RegistryOK
  <1>6. n \in Nat /\ DOMAIN schemas = 1 .. n
    <2>1. schemas \in Seq(SchemaEntry)
      BY <1>2, <1>3, GateAssumption, Zenon DEF GInv, ServerOK
    <2> QED BY <1>4, <2>1, SMT
  <1> DEFINE at == {i \in DOMAIN file.schemas :
                        file.schemas[i].project = project /\ file.schemas[i].kind = kind}
  <1>7. at = At(schemas, n, project, kind)
    BY <1>3, <1>6, Zenon DEF At
  <1>8. at \in SUBSET (1 .. n)
    BY <1>3, <1>6, Zenon
  <1>9. Expected(project, kind) = IF at = {} THEN {x.payload : x \in stored}
                                  ELSE file.schemas[CHOOSE i \in at : \A j \in at : j <= i].accepts
    BY Zenon DEF Expected
  <1> HIDE DEF at
  <1>10. CASE at = {}
    BY <1>1, <1>9, <1>10, Zenon
  <1>11. CASE at # {}
    <2>1. PICK m : m = CHOOSE i \in at : \A j \in at : j <= i
      BY Zenon
    <2>2. m \in at /\ \A j \in at : j <= m
      BY <1>6, <1>8, <1>11, <2>1, GreatestIndex, Zenon
    <2>3. <<project, kind>> \in DOMAIN registry /\ registry[<<project, kind>>] = schemas[m].accepts
      BY <1>5, <1>7, <1>11, <2>2, Zenon DEF HoldsLast
    <2>4. payload \in schemas[m].accepts
      BY <1>2, <2>3, Zenon DEF Validate
    <2> QED BY <1>1, <1>3, <1>9, <1>11, <2>1, <2>4, Zenon
  <1> QED BY <1>10, <1>11, Zenon

INSTANCE SequenceTheorems

-----------------------------------------------------------------------------
(* Names                                                                   *)

\* A sequence of one element.
LEMMA Singleton ==
    ASSUME NEW S, NEW x \in S
    PROVE  <<x>> \in Seq(S) /\ Len(<<x>>) = 1 /\ <<x>>[1] = x
  OBVIOUS

\* The separator is a text.
LEMMA Separator == <<"/">> \in Seq(Char) /\ Len(<<"/">>) = 1 /\ <<"/">>[1] = "/"
  BY GateAssumption, Singleton, Zenon DEF Text

\* The characters of a joined name, by position.
LEMMA JoinedAt ==
    ASSUME NEW p \in Seq(Char), NEW q \in Seq(Char)
    PROVE  /\ p \o <<"/">> \o q \in Seq(Char)
           /\ Len(p \o <<"/">> \o q) = Len(p) + 1 + Len(q)
           /\ \A i \in 1 .. Len(p) : (p \o <<"/">> \o q)[i] = p[i]
           /\ (p \o <<"/">> \o q)[Len(p) + 1] = "/"
           /\ \A i \in 1 .. Len(q) : (p \o <<"/">> \o q)[Len(p) + 1 + i] = q[i]
  <1>. DEFINE head == p \o <<"/">>
  <1>1. <<"/">> \in Seq(Char) /\ Len(<<"/">>) = 1 /\ <<"/">>[1] = "/"
    BY Separator, Zenon
  <1>2. /\ head \in Seq(Char)
        /\ Len(head) = Len(p) + 1
        /\ \A i \in 1 .. Len(head) : head[i] = IF i <= Len(p) THEN p[i] ELSE <<"/">>[i - Len(p)]
    BY <1>1, ConcatProperties
  <1>3. Len(p) \in Nat /\ Len(q) \in Nat
    OBVIOUS
  <1>4. /\ \A i \in 1 .. Len(p) : head[i] = p[i]
        /\ head[Len(p) + 1] = "/"
    BY <1>1, <1>2, <1>3
  <1>. HIDE DEF head
  <1>5. /\ head \o q \in Seq(Char)
        /\ Len(head \o q) = Len(head) + Len(q)
        /\ \A i \in 1 .. Len(head) + Len(q) :
                (head \o q)[i] = IF i <= Len(head) THEN head[i] ELSE q[i - Len(head)]
    BY <1>2, ConcatProperties, Zenon
  <1>. DEFINE all == head \o q
  <1>. HIDE DEF all
  <1>6. \A i \in 1 .. Len(p) : all[i] = p[i]
    BY <1>2, <1>3, <1>4, <1>5 DEF all
  <1>7. all[Len(p) + 1] = "/"
    BY <1>2, <1>3, <1>4, <1>5 DEF all
  <1>8. ASSUME NEW i \in 1 .. Len(q) PROVE all[Len(p) + 1 + i] = q[i]
    <2>1. /\ Len(p) + 1 + i \in 1 .. Len(head) + Len(q)
          /\ ~(Len(p) + 1 + i <= Len(head))
          /\ Len(p) + 1 + i - Len(head) = i
      BY <1>2, <1>3
    <2>. QED
      BY <1>5, <2>1 DEF all
  <1>. QED
    BY <1>2, <1>5, <1>6, <1>7, <1>8 DEF all, head

\* Joined names with no separator in the first part are equal only if both
\* their parts are.
LEMMA JoinedInjective ==
    ASSUME NEW p \in Seq(Char), NEW q \in Seq(Char),
           NEW u \in Seq(Char), NEW v \in Seq(Char),
           "/" \notin Range(p), "/" \notin Range(u),
           p \o <<"/">> \o q = u \o <<"/">> \o v
    PROVE  p = u /\ q = v
  <1>. DEFINE c == p \o <<"/">> \o q
  <1>1. /\ \A i \in 1 .. Len(p) : p[i] # "/"
        /\ \A i \in 1 .. Len(u) : u[i] # "/"
    BY DEF Range
  <1>2. /\ Len(c) = Len(p) + 1 + Len(q)
        /\ Len(c) = Len(u) + 1 + Len(v)
        /\ \A i \in 1 .. Len(p) : c[i] = p[i]
        /\ \A i \in 1 .. Len(u) : c[i] = u[i]
        /\ c[Len(p) + 1] = "/" /\ c[Len(u) + 1] = "/"
        /\ \A i \in 1 .. Len(q) : c[Len(p) + 1 + i] = q[i]
        /\ \A i \in 1 .. Len(v) : c[Len(u) + 1 + i] = v[i]
    <2>1. c = u \o <<"/">> \o v
      BY Zenon
    <2>2. /\ Len(c) = Len(p) + 1 + Len(q)
          /\ \A i \in 1 .. Len(p) : c[i] = p[i]
          /\ c[Len(p) + 1] = "/"
          /\ \A i \in 1 .. Len(q) : c[Len(p) + 1 + i] = q[i]
      BY JoinedAt, ZenonT(40)
    <2>. HIDE DEF c
    <2>3. /\ Len(c) = Len(u) + 1 + Len(v)
          /\ \A i \in 1 .. Len(u) : c[i] = u[i]
          /\ c[Len(u) + 1] = "/"
          /\ \A i \in 1 .. Len(v) : c[Len(u) + 1 + i] = v[i]
      BY <2>1, JoinedAt
    <2>. QED
      BY <2>2, <2>3, Zenon
  <1>. HIDE DEF c
  <1>3. /\ Len(p) \in Nat /\ Len(q) \in Nat /\ Len(u) \in Nat /\ Len(v) \in Nat
    OBVIOUS
  <1>4. ~(Len(p) < Len(u)) /\ ~(Len(u) < Len(p))
    <2>1. Len(p) < Len(u) => Len(p) + 1 \in 1 .. Len(u)
      BY <1>3
    <2>2. Len(u) < Len(p) => Len(u) + 1 \in 1 .. Len(p)
      BY <1>3
    <2>. QED
      BY ONLY <1>1, <1>2, <2>1, <2>2, Zenon
  <1>5. Len(p) = Len(u) /\ Len(q) = Len(v)
    BY <1>2, <1>3, <1>4
  <1>6. /\ \A i \in 1 .. Len(p) : p[i] = u[i]
        /\ \A i \in 1 .. Len(q) : q[i] = v[i]
    BY <1>2, <1>5, Zenon
  <1>. QED
    BY <1>5, <1>6, SeqEqual, Zenon

\* Names without a separator can be told apart in the canonical form.
LEMMA CanonicalInjective ==
    ASSUME NEW x \in [project: Text, install: Text],
           NEW y \in [project: Text, install: Text],
           "/" \notin Range(x.project), "/" \notin Range(y.project),
           Canonical(x) = Canonical(y)
    PROVE  x = y
  <1>1. x.project = y.project /\ x.install = y.install
    BY JoinedInjective, Zenon DEF Canonical, Text
  <1>. QED
    BY <1>1

\* The canonical form of a source starts with its project and a separator.
LEMMA CanonicalPrefix ==
    ASSUME NEW s \in [project: Text, install: Text]
    PROVE  StartsWith(Canonical(s), s.project \o <<"/">>)
  <1>. DEFINE head == s.project \o <<"/">>
              all == head \o s.install
  <1>1. s.project \in Seq(Char) /\ s.install \in Seq(Char)
    BY Zenon DEF Text
  <1>2. head \in Seq(Char)
    BY <1>1, Separator, ConcatProperties, Zenon
  <1>. HIDE DEF head
  <1>3. /\ all \in Seq(Char)
        /\ Len(all) = Len(head) + Len(s.install)
        /\ Len(head) \in Nat /\ Len(s.install) \in Nat
        /\ \A i \in 1 .. Len(all) : all[i] = IF i <= Len(head) THEN head[i]
                                             ELSE s.install[i - Len(head)]
    BY <1>1, <1>2, ConcatProperties
  <1>. HIDE DEF all
  <1>4. Len(head) <= Len(all) /\ \A i \in 1 .. Len(head) : all[i] = head[i]
    BY <1>3
  <1>. QED
    BY <1>4, Zenon DEF StartsWith, head, all, Canonical

-----------------------------------------------------------------------------
(* What was stored and what was charged                                    *)

\* An entry whose source is a source key that the token permits is in scope,
\* and its key is one of the limiter's.
LEMMA AllowedEntry ==
    ASSUME GInv, NEW h \in Handlers, req[h] # Idle, NEW entry \in Entry,
           IsSourceKey(entry.source), Permits(req[h].token, entry.source), NEW p \in Endpoints
    PROVE  /\ Scoped(Item(h, entry))
           /\ KeyOf(p, req[h].token, entry.source) \in RateKey
           /\ \E token \in Range(file.tokens) :
                LET k == KeyOf(p, req[h].token, entry.source)
                IN  /\ token.id = k[2][1]
                    /\ StartsWith(k[2][2], token.prefix)
                    /\ StartsWith(k[2][2], token.project \o <<"/">>)
  <1>. DEFINE source == entry.source
              token == req[h].token
  <1>1. source \in Sources /\ source \in [project: Text, install: Text]
    BY GateAssumption, Zenon DEF IsSourceKey, Entry
  <1>2. /\ file \in ConfigFiles
        /\ token \in Range(file.tokens)
        /\ token.secret = req[h].call.secret
    BY LiveTypes, Zenon DEF Live
  <1>3. token.project = source.project /\ StartsWith(Canonical(source), token.prefix)
    BY Zenon DEF Permits
  <1>4. <<token.id, Canonical(source)>> \in Clients
    BY <1>1, <1>2, GateAssumption
  <1>5. StartsWith(Canonical(source), token.project \o <<"/">>)
    BY <1>1, <1>3, CanonicalPrefix
  <1>. DEFINE k == KeyOf(p, token, source)
  <1>6. k \in RateKey /\ k[2][1] = token.id /\ k[2][2] = Canonical(source)
    BY <1>4, ZenonT(40) DEF KeyOf, RateKey
  <1>7. Scoped(Item(h, entry))
    <2>1. Item(h, entry).source = source /\ Item(h, entry).secret = token.secret
      BY <1>2, Zenon DEF Item
    <2>. QED
      BY <1>1, <1>2, <1>3, <2>1 DEF Scoped
  <1>. HIDE DEF k
  <1>8. /\ token.id = k[2][1]
        /\ StartsWith(k[2][2], token.prefix)
        /\ StartsWith(k[2][2], token.project \o <<"/">>)
    BY <1>3, <1>5, <1>6
  <1>. QED
    BY <1>2, <1>6, <1>7, <1>8, Zenon DEF k

\* Every step of the gate is a step of the limiter or leaves it alone.
LEMMA LimiterStep == GInv /\ [GateNext]_gateVars => [Next]_vars
  <1>. SUFFICES ASSUME GInv, [GateNext]_gateVars PROVE [Next]_vars
    OBVIOUS
  <1>1. ASSUME NEW h \in Handlers, LogsEntry(h) PROVE Next
    <2>. DEFINE k == KeyOf("logs", req[h].token, Head(req[h].left).source)
    <2>1. k \in RateKey
      BY <1>1, LogsEntryAllowed, AllowedEntry, ZenonT(40) DEF Endpoints
    <2>2. Check(k)
      BY <1>1, Zenon DEF LogsEntry
    <2>. QED
      BY <2>1, <2>2, ZenonT(40) DEF Next
  <1>2. ASSUME NEW h \in Handlers, CrashEnter(h) PROVE Next
    <2>. DEFINE k == KeyOf("crashes", req[h].token, Metadata(h).source)
    <2>1. k \in RateKey
      BY <1>2, CrashEnterAllowed, AllowedEntry DEF Endpoints
    <2>2. Check(k)
      BY <1>2, Zenon DEF CrashEnter
    <2>. QED
      BY <2>1, <2>2, ZenonT(40) DEF Next
  <1>3. ASSUME NEW h \in Handlers, Serve(h) PROVE [Next]_vars
    BY <1>1, <1>2, <1>3 DEF Serve, LogsEnter, LogsEntryRefused, LogsDone, CrashRefused, CrashParts
  <1>4. CASE Clock
    BY <1>4, Zenon DEF Clock, Next
  <1>5. CASE UNCHANGED gateVars
    BY <1>5, Zenon DEF gateVars
  <1>. QED
    BY <1>3, <1>4, <1>5 DEF GateNext, Start, Arrive, HangUp

\* Only entries that are in scope are stored.
LEMMA StepKeepsScope ==
    ASSUME GInv, [GateNext]_gateVars, NEW item \in stored'
    PROVE  Scoped(item)'
  <1>1. ASSUME NEW h \in Handlers, Serve(h) PROVE item \in stored \/ Scoped(item)
    <2>1. CASE LogsEntry(h)
      <3>1. stored' = stored \/ stored' = stored \cup {Item(h, Head(req[h].left))}
        BY <2>1, ZenonT(40) DEF LogsEntry
      <3>2. Scoped(Item(h, Head(req[h].left)))
        BY <2>1, LogsEntryAllowed, AllowedEntry DEF Endpoints
      <3>. QED
        BY <3>1, <3>2, Zenon
    <2>2. CASE CrashParts(h)
      <3>1. stored' = stored \/ stored' = stored \cup {Item(h, Metadata(h))}
        BY <2>2, ZenonT(40) DEF CrashParts
      <3>2. Scoped(Item(h, Metadata(h)))
        BY <2>2, CrashPartsAllowed, AllowedEntry DEF Endpoints
      <3>. QED
        BY <3>1, <3>2
    <2>. QED
      BY <1>1, <2>1, <2>2 DEF Serve, LogsEnter, LogsEntryRefused, LogsDone, CrashRefused, CrashEnter
  <1>2. ASSUME ~ \E h \in Handlers : Serve(h) PROVE stored' = stored
    BY <1>2, Zenon DEF GateNext, Start, Arrive, HangUp, Clock, gateVars
  <1>3. Scoped(item) \/ item \in stored
    BY <1>1, <1>2
  <1>4. Scoped(item) /\ (file' = file \/ stored' = {})
    BY <1>3, FileStays DEF GInv, ServerOK
  <1>. QED
    BY <1>4, Zenon DEF Scoped

\* Only buckets of sources that are in scope are created.
LEMMA StepKeepsBuckets == GInv /\ [GateNext]_gateVars => BucketsInScope'
  <1>. SUFFICES ASSUME GInv, [GateNext]_gateVars, NEW k \in present'
                PROVE  \E token \in Range(file'.tokens) :
                          /\ token.id = k[2][1]
                          /\ StartsWith(k[2][2], token.prefix)
                          /\ StartsWith(k[2][2], token.project \o <<"/">>)
    BY ZenonT(40) DEF BucketsInScope
  <1>. DEFINE InScope == \E token \in Range(file.tokens) :
                          /\ token.id = k[2][1]
                          /\ StartsWith(k[2][2], token.prefix)
                          /\ StartsWith(k[2][2], token.project \o <<"/">>)
  <1>1. ASSUME NEW h \in Handlers, LogsEntry(h) PROVE k \in present \/ InScope
    <2>. DEFINE key == KeyOf("logs", req[h].token, Head(req[h].left).source)
    <2>1. k \in present \/ k = key
      BY <1>1, ZenonT(40) DEF LogsEntry, Check
    <2>2. req[h] # Idle /\ Head(req[h].left) \in Entry /\ "logs" \in Endpoints
          /\ IsSourceKey(Head(req[h].left).source) /\ Permits(req[h].token, Head(req[h].left).source)
      BY <1>1, LogsEntryAllowed, Zenon DEF Endpoints
    <2>3. \E token \in Range(file.tokens) :
            /\ token.id = key[2][1]
            /\ StartsWith(key[2][2], token.prefix)
            /\ StartsWith(key[2][2], token.project \o <<"/">>)
      BY <2>2, AllowedEntry, ZenonT(40)
    <2>. HIDE DEF key
    <2>. QED
      BY <2>1, <2>3, ZenonT(40)
  <1>2. ASSUME NEW h \in Handlers, CrashEnter(h) PROVE k \in present \/ InScope
    <2>. DEFINE key == KeyOf("crashes", req[h].token, Metadata(h).source)
    <2>1. k \in present \/ k = key
      BY <1>2, Zenon DEF CrashEnter, Check
    <2>2. req[h] # Idle /\ Metadata(h) \in Entry /\ "crashes" \in Endpoints
          /\ IsSourceKey(Metadata(h).source) /\ Permits(req[h].token, Metadata(h).source)
      BY <1>2, CrashEnterAllowed, Zenon DEF Endpoints
    <2>3. \E token \in Range(file.tokens) :
            /\ token.id = key[2][1]
            /\ StartsWith(key[2][2], token.prefix)
            /\ StartsWith(key[2][2], token.project \o <<"/">>)
      BY <2>2, AllowedEntry, ZenonT(40)
    <2>. HIDE DEF key
    <2>. QED
      BY <2>1, <2>3, ZenonT(40)
  <1>. HIDE DEF InScope
  <1>3. ASSUME NEW h \in Handlers, Serve(h) PROVE k \in present \/ InScope
    BY <1>1, <1>2, <1>3 DEF Serve, LogsEnter, LogsEntryRefused, LogsDone, CrashRefused,
                            CrashParts, vars, buckets
  <1>4. ASSUME ~ \E h \in Handlers : Serve(h) PROVE present' = present
    BY <1>4, Zenon DEF GateNext, Start, Arrive, HangUp, Clock, Tick, OpenWindow, gateVars, vars, buckets
  <1>5. k \in present \/ InScope
    BY <1>3, <1>4, Zenon
  <1>6. InScope /\ (file' = file \/ present' = {})
    BY <1>5, FileStays DEF GInv, ServerOK, BucketsInScope, InScope
  <1>. QED
    BY <1>6, Zenon DEF InScope

INSTANCE FiniteSetTheorems

-----------------------------------------------------------------------------
(* Requests and their counters                                             *)

\* The requests of an endpoint can be counted.
LEMMA BusyFinite ==
    ASSUME NEW p
    PROVE  IsFiniteSet(Busy(p)) /\ Cardinality(Busy(p)) \in Nat
  BY GateAssumption, FS_Subset, FS_CardinalityType DEF Busy

\* A request that ends leaves its endpoint with one request fewer.
LEMMA BusyEnds ==
    ASSUME req \in [Handlers -> Request], NEW h \in Handlers, req[h] # Idle,
           req' = [req EXCEPT ![h] = Idle], NEW p
    PROVE  Cardinality(Busy(p)') = IF req[h].call.path = p THEN Cardinality(Busy(p)) - 1
                                   ELSE Cardinality(Busy(p))
  <1>1. Busy(p)' = Busy(p) \ {h}
    BY Zenon DEF Busy
  <1>2. h \in Busy(p) <=> req[h].call.path = p
    BY Zenon DEF Busy
  <1>. QED
    BY <1>1, <1>2, BusyFinite, FS_RemoveElement, Zenon

\* One that begins adds one.
LEMMA BusyBegins ==
    ASSUME req \in [Handlers -> Request], NEW h \in Handlers, req[h] = Idle, NEW r, r # Idle,
           req' = [req EXCEPT ![h] = r], NEW p
    PROVE  Cardinality(Busy(p)') = IF r.call.path = p THEN Cardinality(Busy(p)) + 1
                                   ELSE Cardinality(Busy(p))
  <1>1. Busy(p)' = IF r.call.path = p THEN Busy(p) \cup {h} ELSE Busy(p)
    BY Zenon DEF Busy
  <1>2. h \notin Busy(p)
    BY Zenon DEF Busy
  <1>. QED
    BY <1>1, <1>2, BusyFinite, FS_AddElement, Zenon

\* One that goes on stays where it is.
LEMMA BusyGoesOn ==
    ASSUME req \in [Handlers -> Request], NEW h \in Handlers, req[h] # Idle, NEW r, r # Idle,
           r.call = req[h].call, req' = [req EXCEPT ![h] = r], NEW p
    PROVE  Cardinality(Busy(p)') = Cardinality(Busy(p))
  <1>1. Busy(p)' = Busy(p)
    BY ZenonT(40) DEF Busy
  <1>. QED
    BY <1>1, Zenon

\* An answered request is counted, and at most one validation failure with it.
LEMMA AnswerKeepsCounts ==
    ASSUME GInv, NEW h \in Handlers, req[h] # Idle, Answer(h, req[h].call.path),
           UNCHANGED <<calls, owed>>,
           \/ UNCHANGED validationFailures
           \/ validationFailures' = [validationFailures EXCEPT ![req[h].call.path] = @ + 1]
    PROVE  CountsOK'
  <1>. DEFINE path == req[h].call.path
  <1>1. path \in Endpoints /\ req \in [Handlers -> Request]
    BY LiveTypes, Zenon DEF GInv, RequestsOK
  <1>2. /\ req' = [req EXCEPT ![h] = Idle]
        /\ requestsTotal' = [requestsTotal EXCEPT ![path] = @ + 1]
    BY Zenon DEF Answer
  <1>3. \A p : Cardinality(Busy(p)') = IF path = p THEN Cardinality(Busy(p)) - 1
                                       ELSE Cardinality(Busy(p))
    BY <1>1, <1>2, BusyEnds, ZenonT(40)
  <1>4. \A p : Cardinality(Busy(p)) \in Nat
    BY BusyFinite, Zenon
  <1>. HIDE DEF path
  <1>5. CountsOK
    BY Zenon DEF GInv
  <1>6. /\ calls' \in 0 .. MaxCalls
        /\ requestsTotal' \in [Endpoints -> Nat]
        /\ validationFailures' \in [Endpoints -> Nat]
        /\ owed' \in [Endpoints -> Nat]
    BY <1>1, <1>2, <1>5 DEF CountsOK, path
  <1>7. ASSUME NEW p \in Endpoints
        PROVE  /\ owed'[p] = requestsTotal'[p] + Cardinality(Busy(p)')
               /\ owed'[p] <= calls'
               /\ validationFailures'[p] <= requestsTotal'[p]
    <2>1. Cardinality(Busy(p)) \in Nat /\ requestsTotal[p] \in Nat /\ validationFailures[p] \in Nat
      BY <1>4, <1>5, ZenonT(40) DEF CountsOK
    <2>2. CASE p = path
      <3>1. requestsTotal'[p] = requestsTotal[p] + 1 /\ Cardinality(Busy(p)') = Cardinality(Busy(p)) - 1
        BY <1>1, <1>2, <1>3, <1>5, <2>2, ZenonT(40) DEF CountsOK
      <3>2. validationFailures'[p] <= validationFailures[p] + 1
        BY <1>1, <1>5, <2>1, <2>2 DEF CountsOK, path
      <3>. QED
        BY <1>5, <1>6, <2>1, <3>1, <3>2 DEF CountsOK
    <2>3. CASE p # path
      <3>1. /\ requestsTotal'[p] = requestsTotal[p]
            /\ Cardinality(Busy(p)') = Cardinality(Busy(p))
            /\ validationFailures'[p] = validationFailures[p]
        BY <1>1, <1>2, <1>3, <1>5, <2>3, Zenon DEF CountsOK, path
      <3>. QED
        BY <1>5, <3>1, Zenon DEF CountsOK
    <2>. QED
      BY <2>2, <2>3, Zenon
  <1>. QED
    BY <1>6, <1>7 DEF CountsOK

\* Serving a request keeps the invariants of requests and counters.
LEMMA ServeKeeps ==
    ASSUME GInv, NEW h \in Handlers, Serve(h)
    PROVE  RequestsOK' /\ CountsOK'
  <1>1. /\ req[h] # Idle
        /\ UNCHANGED <<server, file, calls, owed>>
        /\ RequestsOK /\ CountsOK /\ req \in [Handlers -> Request]
    BY ServeStep, ZenonT(40) DEF GInv, RequestsOK
  <1>2. CASE Ends(h)
    <2>1. Idle \in Request /\ req' = [req EXCEPT ![h] = Idle]
      BY <1>2 DEF Ends, Answer, Idle, Request
    <2>. QED
      BY <1>1, <1>2, <2>1, OthersStay, AnswerKeepsCounts, Zenon DEF Ends
  <1>3. ASSUME NEW r \in Request, r # Idle, r.call = req[h].call, req' = [req EXCEPT ![h] = r],
               Live(h)', UNCHANGED <<requestsTotal, validationFailures>>
        PROVE  RequestsOK' /\ CountsOK'
    <2>1. RequestsOK'
      BY <1>1, <1>3, OthersStay, Zenon
    <2>2. \A p : Cardinality(Busy(p)') = Cardinality(Busy(p))
      BY <1>1, <1>3, BusyGoesOn, Zenon
    <2>. QED
      BY <1>1, <1>3, <2>1, <2>2, Zenon DEF CountsOK
  <1>. QED
    BY <1>2, <1>3, ServeStep DEF GoesOn

\* So does a request that arrives, whether its secret is known or not.
LEMMA ArriveKeeps ==
    ASSUME GInv, NEW h \in Handlers, NEW c \in Calls, Arrive(h, c)
    PROVE  RequestsOK' /\ CountsOK'
  <1>. DEFINE token == Authenticate(c.secret)
  <1>1. /\ RequestsOK /\ CountsOK /\ req \in [Handlers -> Request]
        /\ file \in ConfigFiles
        /\ c \in Call /\ c.path \in Endpoints /\ c.entries \in Seq(Entry)
        /\ c.path = "crashes" => c.entries # <<>>
    BY GateAssumption, Zenon DEF GInv, RequestsOK, ServerOK, Arrive, Call
  <1>2. /\ req[h] = Idle /\ calls < MaxCalls /\ server = "up"
        /\ calls' = calls + 1
        /\ owed' = [owed EXCEPT ![c.path] = @ + 1]
        /\ UNCHANGED <<server, file, validationFailures>>
    BY Zenon DEF Arrive
  <1>3. /\ calls' \in 0 .. MaxCalls
        /\ owed' \in [Endpoints -> Nat]
        /\ calls \in Nat
    <2>1. MaxCalls \in Nat
      BY GateAssumption, Zenon
    <2>2. calls \in 0 .. MaxCalls /\ owed \in [Endpoints -> Nat]
      BY <1>1, Zenon DEF CountsOK
    <2>3. calls' \in 0 .. MaxCalls /\ calls \in Nat
      BY <1>2, <2>1, <2>2
    <2>4. owed' \in [Endpoints -> Nat]
      <3>1. c.path \in Endpoints
        BY <1>1, Zenon
      <3>. QED
        BY <1>2, <2>2, <3>1
    <2>. QED
      BY <2>3, <2>4, Zenon
  <1>4. \A p : Cardinality(Busy(p)) \in Nat
    BY BusyFinite, Zenon
  <1>5. CASE token = None
    <2>1. /\ req' = [req EXCEPT ![h] = Idle]
          /\ requestsTotal' = [requestsTotal EXCEPT ![c.path] = @ + 1]
      BY <1>5, ZenonT(40) DEF Arrive, Answer
    <2>2. req' = req
      BY <1>1, <1>2, <2>1
    <2>3. RequestsOK'
      BY <1>1, <1>2, <2>2, ZenonT(40) DEF RequestsOK, Live, Metadata, Permits
    <2>4. \A p : Busy(p)' = Busy(p)
      BY <2>2, ZenonT(40) DEF Busy
    <2>5. requestsTotal' \in [Endpoints -> Nat]
      BY <1>1, <2>1 DEF CountsOK
    <2>6. ASSUME NEW p \in Endpoints
          PROVE  /\ owed'[p] = requestsTotal'[p] + Cardinality(Busy(p)')
                 /\ owed'[p] <= calls'
                 /\ validationFailures'[p] <= requestsTotal'[p]
      <3>1. /\ owed'[p] = IF p = c.path THEN owed[p] + 1 ELSE owed[p]
            /\ requestsTotal'[p] = IF p = c.path THEN requestsTotal[p] + 1 ELSE requestsTotal[p]
            /\ Cardinality(Busy(p)') = Cardinality(Busy(p)) /\ Cardinality(Busy(p)) \in Nat
        BY <1>1, <1>2, <1>4, <2>1, <2>4, Zenon DEF CountsOK
      <3>2. /\ owed[p] \in Nat /\ requestsTotal[p] \in Nat /\ validationFailures[p] \in Nat
            /\ owed[p] = requestsTotal[p] + Cardinality(Busy(p))
            /\ owed[p] <= calls
            /\ validationFailures[p] <= requestsTotal[p]
            /\ calls \in Nat /\ calls' = calls + 1
            /\ validationFailures' = validationFailures
        BY <1>1, <1>2, <1>3 DEF CountsOK
      <3>. QED
        BY ONLY <3>1, <3>2
    <2>. QED
      BY <1>1, <1>2, <1>3, <2>3, <2>5, <2>6, Zenon DEF CountsOK
  <1>6. CASE token # None
    <2>. DEFINE r == [pc |-> c.path, call |-> c, token |-> token, left |-> c.entries]
    <2>1. /\ token \in Range(file.tokens) /\ token \in TokenContext /\ token.secret = c.secret
      BY <1>1, <1>6, AuthenticateFinds
    <2>2. req' = [req EXCEPT ![h] = r] /\ UNCHANGED requestsTotal
      BY <1>6, ZenonT(40) DEF Arrive
    <2>. HIDE DEF token
    <2>3. r \in Request /\ r # Idle /\ r.call = c /\ req'[h] = r
      BY <1>1, <2>1, <2>2, ZenonT(40) DEF Request, Idle, Endpoints
    <2>4. Live(h)'
      <3>1. r.pc = c.path /\ r.token = token /\ r.left = c.entries
        OBVIOUS
      <3>. HIDE DEF r
      <3>. QED
        BY <1>1, <1>2, <2>1, <2>3, <3>1 DEF Live, Endpoints
    <2>5. RequestsOK'
      BY <1>1, <1>2, <2>2, <2>3, <2>4, OthersStay, ZenonT(40)
    <2>6. \A p : Cardinality(Busy(p)') = IF c.path = p THEN Cardinality(Busy(p)) + 1
                                         ELSE Cardinality(Busy(p))
      <3>. HIDE DEF r
      <3>. QED
        BY <1>1, <1>2, <2>2, <2>3, BusyBegins, ZenonT(40)
    <2>7. ASSUME NEW p \in Endpoints
          PROVE  /\ owed'[p] = requestsTotal'[p] + Cardinality(Busy(p)')
                 /\ owed'[p] <= calls'
                 /\ validationFailures'[p] <= requestsTotal'[p]
      <3>1. /\ owed'[p] = IF p = c.path THEN owed[p] + 1 ELSE owed[p]
            /\ Cardinality(Busy(p)) \in Nat
        BY <1>1, <1>2, <1>4 DEF CountsOK
      <3>2. /\ owed[p] = requestsTotal[p] + Cardinality(Busy(p)) /\ owed[p] <= calls
            /\ validationFailures[p] <= requestsTotal[p]
            /\ owed[p] \in Nat /\ requestsTotal[p] \in Nat
        BY <1>1, Zenon DEF CountsOK
      <3>3. calls' = calls + 1 /\ calls \in Nat /\ validationFailures' = validationFailures
        BY <1>2, <1>3, Zenon
      <3>4. requestsTotal' = requestsTotal
        BY <2>2, Zenon
      <3>5. Cardinality(Busy(p)') = IF c.path = p THEN Cardinality(Busy(p)) + 1
                                    ELSE Cardinality(Busy(p))
        BY <2>6, ZenonT(40)
      <3>. QED
        BY <3>1, <3>2, <3>3, <3>4, <3>5, SMTT(20)
    <2>. QED
      BY <1>1, <1>2, <1>3, <2>2, <2>5, <2>7, ZenonT(40) DEF CountsOK
  <1>. QED
    BY <1>5, <1>6, Zenon

\* And a client that goes away: its request is no longer owed an answer.
LEMMA HangUpKeeps ==
    ASSUME GInv, NEW h \in Handlers, HangUp(h)
    PROVE  RequestsOK' /\ CountsOK'
  <1>. DEFINE path == req[h].call.path
  <1>1. /\ req[h] # Idle
        /\ req' = [req EXCEPT ![h] = Idle]
        /\ owed' = [owed EXCEPT ![path] = @ - 1]
        /\ UNCHANGED <<server, file, calls, requestsTotal, validationFailures>>
        /\ RequestsOK /\ CountsOK /\ req \in [Handlers -> Request]
    BY ZenonT(40) DEF HangUp, GInv, RequestsOK
  <1>2. path \in Endpoints
    BY <1>1, LiveTypes
  <1>3. Idle \in Request
    BY DEF Idle, Request
  <1>4. RequestsOK'
    BY <1>1, <1>3, OthersStay, ZenonT(40)
  <1>5. \A p : Cardinality(Busy(p)') = IF path = p THEN Cardinality(Busy(p)) - 1
                                       ELSE Cardinality(Busy(p))
    BY <1>1, BusyEnds, Zenon
  <1>6. Cardinality(Busy(path)) # 0 /\ \A p : Cardinality(Busy(p)) \in Nat
    <2>1. h \in Busy(path)
      BY <1>1, Zenon DEF Busy
    <2>. QED
      BY <2>1, BusyFinite, FS_EmptySet
  <1>. HIDE DEF path
  <1>7. ASSUME NEW p \in Endpoints
        PROVE  /\ owed'[p] \in Nat
               /\ owed'[p] = requestsTotal'[p] + Cardinality(Busy(p)')
               /\ owed'[p] <= calls'
               /\ validationFailures'[p] <= requestsTotal'[p]
    <2>1. /\ owed'[p] = IF p = path THEN owed[p] - 1 ELSE owed[p]
          /\ Cardinality(Busy(p)) \in Nat /\ owed[p] \in Nat /\ requestsTotal[p] \in Nat
          /\ owed[p] = requestsTotal[p] + Cardinality(Busy(p))
          /\ owed[p] <= calls /\ calls \in Nat
          /\ validationFailures[p] <= requestsTotal[p]
      <3>1. /\ Cardinality(Busy(p)) \in Nat /\ owed[p] \in Nat /\ requestsTotal[p] \in Nat
            /\ owed[p] = requestsTotal[p] + Cardinality(Busy(p))
            /\ owed[p] <= calls /\ calls \in 0 .. MaxCalls
            /\ validationFailures[p] <= requestsTotal[p]
        BY <1>1, <1>6, Zenon DEF CountsOK
      <3>2. MaxCalls \in Nat
        BY GateAssumption, ZenonT(40)
      <3>3. calls \in Nat
        BY <3>1, <3>2
      <3>4. owed'[p] = IF p = path THEN owed[p] - 1 ELSE owed[p]
        BY <1>1, <1>2 DEF CountsOK
      <3>. QED
        BY <3>1, <3>3, <3>4
    <2>2. CASE p = path
      BY <1>1, <1>5, <1>6, <2>1, <2>2
    <2>3. CASE p # path
      BY <1>1, <1>5, <2>1, <2>3
    <2>. QED
      BY <2>2, <2>3, ZenonT(40)
  <1>8. owed' \in [Endpoints -> Nat]
    BY <1>1, <1>7, Zenon DEF CountsOK
  <1>. QED
    BY <1>1, <1>4, <1>7, <1>8 DEF CountsOK

\* Starting the server, time and stuttering change no request.
LEMMA IdleStepKeeps ==
    ASSUME GInv, (\E f \in ConfigFiles : Start(f)) \/ Clock \/ UNCHANGED gateVars
    PROVE  RequestsOK' /\ CountsOK'
  <1>1. UNCHANGED <<req, calls, counters>>
    BY Zenon DEF Start, Clock, gateVars
  <1>2. \A p : Busy(p)' = Busy(p)
    BY <1>1, Zenon DEF Busy
  <1>3. CountsOK'
    BY <1>1, <1>2 DEF GInv, CountsOK, counters
  <1>4. (server' = server /\ file' = file) \/ server = "down"
    BY ZenonT(40) DEF Start, Clock, gateVars
  <1>5. RequestsOK'
    BY <1>1, <1>4, ZenonT(40) DEF GInv, RequestsOK, Live, Metadata, Permits
  <1>. QED
    BY <1>3, <1>5, Zenon

\* Every step of the gate keeps the inductive invariant.
LEMMA StepKeepsGInv == GInv /\ [GateNext]_gateVars => GInv'
  <1>. SUFFICES ASSUME GInv, [GateNext]_gateVars PROVE GInv'
    OBVIOUS
  <1>1. RequestsOK' /\ CountsOK'
    BY IdleStepKeeps, ServeKeeps, ArriveKeeps, HangUpKeeps DEF GateNext
  <1>2. ServerOK' /\ BucketsInScope'
    BY StepKeepsServer, StepKeepsBuckets, Zenon
  <1>3. \A item \in stored' : Scoped(item)'
    BY StepKeepsScope, Zenon
  <1>. QED
    BY <1>1, <1>2, <1>3 DEF GInv

-----------------------------------------------------------------------------
(* The theorems                                                            *)

\* The invariant of the gate holds of every behaviour of the server.
THEOREM GateInductive == GateSpec => []GInv
  <1>1. GateInit => GInv
    <2>. SUFFICES ASSUME GateInit PROVE GInv
      OBVIOUS
    <2>1. ServerOK
      BY Zenon DEF GateInit, Init, ServerOK
    <2>2. RequestsOK
      <3>1. Idle \in Request
        BY DEF Idle, Request
      <3>. QED
        BY <3>1, Zenon DEF GateInit, RequestsOK
    <2>3. CountsOK
      <3>1. \A p : Cardinality(Busy(p)) = 0
        <4>1. \A p : Busy(p) = {}
          BY Zenon DEF GateInit, Busy
        <4>. QED
          BY <4>1, FS_EmptySet, Zenon
      <3>2. MaxCalls \in Nat
        BY GateAssumption, Zenon
      <3>. QED
        BY <3>1, <3>2 DEF GateInit, CountsOK
    <2>4. BucketsInScope /\ \A item \in stored : Scoped(item)
      BY Zenon DEF GateInit, Init, BucketsInScope
    <2>. QED
      BY <2>1, <2>2, <2>3, <2>4 DEF GInv
  <1>. QED
    BY <1>1, StepKeepsGInv, PTL DEF GateSpec

\* The gate implements the limiter's specification: whatever the handlers do,
\* the buckets change by checks of the limiter's own keys only, so the window
\* and refusal bounds proved of the limiter hold of the whole server.
THEOREM GateImplementsLimiter == GateSpec => Spec
  <1>1. GateInit => Init
    BY Zenon DEF GateInit
  <1>. QED
    BY <1>1, LimiterStep, GateInductive, PTL DEF GateSpec, Spec

\* Whatever is stored was sent with the secret of a token that covers its
\* source, for every tokens file and every call.
THEOREM ScopeSafety == GateSpec => []StoredInScope
  <1>1. GInv => StoredInScope
    BY DEF GInv, Scoped, StoredInScope
  <1>. QED
    BY <1>1, GateInductive, PTL

\* Sources that differ are stored apart, for all names clients can send.
THEOREM ApartSafety == GateSpec => []SourcesApart
  <1>1. GInv => SourcesApart
    <2>. SUFFICES ASSUME GInv, NEW x \in stored, NEW y \in stored,
                         Canonical(x.source) = Canonical(y.source)
                  PROVE  x.source = y.source
      BY ZenonT(40) DEF SourcesApart
    <2>1. ASSUME NEW item \in stored
          PROVE  /\ item.source \in [project: Text, install: Text]
                 /\ "/" \notin Range(item.source.project)
      BY GateAssumption DEF GInv, Scoped, IsSourceKey, ValidateComponent
    <2>. QED
      BY <2>1, CanonicalInjective
  <1>. QED
    BY <1>1, GateInductive, PTL

\* No request outside its token's scope touches a bucket.
THEOREM BucketSafety == GateSpec => []BucketsInScope
  <1>1. GInv => BucketsInScope
    BY SMTT(20) DEF GInv
  <1>. QED
    BY <1>1, GateInductive, PTL

\* Every answered request is counted once, for any number of handlers.
THEOREM CountSafety == GateSpec => []CountedOnce
  <1>1. GInv => CountedOnce
    BY SMTT(20) DEF GInv, CountsOK, CountedOnce, Busy
  <1>. QED
    BY <1>1, GateInductive, PTL

\* The types and the admission of served requests.
THEOREM GateTypes == GateSpec => []GateTypeOK
  <1>1. GInv => GateTypeOK
    <2>. SUFFICES ASSUME GInv PROVE GateTypeOK
      OBVIOUS
    <2>1. /\ server \in {"down", "refused", "up"}
          /\ file \in ConfigFiles \cup {NoFile}
          /\ calls \in 0 .. MaxCalls
      BY ZenonT(40) DEF GInv, ServerOK, CountsOK
    <2>2. ASSUME NEW p \in Endpoints
          PROVE  /\ requestsTotal[p] \in 0 .. MaxCalls
                 /\ validationFailures[p] \in 0 .. MaxCalls
                 /\ owed[p] \in 0 .. MaxCalls
      <3>1. Cardinality(Busy(p)) \in Nat
        BY BusyFinite, Zenon
      <3>2. /\ owed[p] = requestsTotal[p] + Cardinality(Busy(p)) /\ owed[p] <= calls
            /\ validationFailures[p] <= requestsTotal[p] /\ calls \in 0 .. MaxCalls
            /\ requestsTotal[p] \in Nat /\ validationFailures[p] \in Nat /\ MaxCalls \in Nat
        BY GateAssumption, Zenon DEF GInv, CountsOK
      <3>. QED
        BY <3>1, <3>2
    <2>3. /\ requestsTotal \in [Endpoints -> 0 .. MaxCalls]
          /\ validationFailures \in [Endpoints -> 0 .. MaxCalls]
          /\ owed \in [Endpoints -> 0 .. MaxCalls]
      BY <2>2, Zenon DEF GInv, CountsOK
    <2>4. ASSUME NEW h \in Handlers, req[h] # Idle
          PROVE  /\ server = "up"
                 /\ req[h].pc \in {"logs", "entries", "crashes", "parts"}
                 /\ req[h].call \in Calls
                 /\ req[h].token \in Range(file.tokens)
                 /\ req[h].pc = "parts" => Metadata(h).source.project = req[h].token.project
      BY <2>4, LiveTypes, Zenon DEF Live, Permits
    <2>. QED
      BY <2>1, <2>3, <2>4 DEF GateTypeOK
  <1>. QED
    BY <1>1, GateInductive, PTL

\* StoredIsValid, for every tokens file: log batches are held against the
\* schema of the token's project and crashes against that of the metadata's
\* source, and both are the schema of the project they are stored under.
THEOREM ValidSafety == GateSpec => []StoredIsValid
  <1>1. GateInit => ValidInv
    <2>. SUFFICES ASSUME GateInit PROVE ValidInv
      BY Zenon
    <2>1. Idle.pc \notin {"entries", "parts"} /\ "down" # "up"
      BY DEF Idle
    <2>2. ASSUME NEW h \in Handlers PROVE Vetted(h)
      <3>1. req[h] = Idle
        BY Zenon DEF GateInit
      <3>. QED
        BY <2>1, <3>1, Zenon DEF Vetted
    <2>3. RegistryOK /\ stored = {}
      BY <2>1, Zenon DEF GateInit, RegistryOK
    <2>. QED
      BY <2>2, <2>3, Zenon DEF ValidInv
  <1>2. GInv /\ ValidInv /\ [GateNext]_gateVars => ValidInv'
    BY StepKeepsValid, Zenon
  <1>3. GInv /\ ValidInv => StoredIsValid
    BY ConformsIsExpected, Zenon DEF StoredIsValid, KindOf
  <1>. QED
    BY <1>1, <1>2, <1>3, GateInductive, PTL DEF GateSpec

\* The limiter's bounds hold of the whole server: no run of requests and no
\* interleaving of handlers gets more out of a bucket than its window allows,
\* and a client that is refused is let in again when its bucket is refilled.
THEOREM GateLimits == GateSpec => [](WindowBound /\ RefusalsEnd)
  <1>. QED
    BY GateImplementsLimiter, WindowSafety, RefusalSafety, PTL

=============================================================================
