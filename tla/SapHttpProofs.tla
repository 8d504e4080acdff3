--------------------------- MODULE SapHttpProofs ---------------------------
(***************************************************************************)
(* Proofs about SapHttp, for any set of requests, any timeouts and any     *)
(* lifetimes of tokens, as long as the margin covers the timeouts          *)
(* (SapHttpAssumption): a cached token is alive, and an OData request      *)
(* carries a live token to SAP.                                            *)
(* About AdtXml, for documents of any size: what the ADT client reads from *)
(* an answer is what SAP put into it.                                      *)
(***************************************************************************)
EXTENDS SapHttp, AdtXml, NaturalsInduction, WellFoundedInduction, SequenceTheorems, TLAPS

\* The part of the type invariant the arguments below rest on.
LocalTypes ==
    /\ backend \in {"adt", "odata"}
    /\ auth \in {"static", "token"}
    /\ readOnly \in BOOLEAN
    /\ token \in [life : Nat, ttl : Nat]
    /\ hpc \in [Requests -> {"idle", "auth", "token", "store", "http", "reply", "done"}]
    /\ op \in [Requests -> AdtOps \cup ODataOps \cup {"none"}]
    /\ phase \in [Requests -> {"main", "csrf", "read"}]
    /\ bearer \in [Requests -> Nat]
    /\ grant \in [Requests -> Nat]
    /\ reply \in [Requests -> Statuses \cup {0}]
    /\ age \in [Requests -> 0..Timeout]
    /\ outcome \in [Requests -> Errors \cup {"none", "ok", "empty", "not_activated"}]
    /\ refused \subseteq Requests

\* A token under way to the cache has lost no more life than its exchange took.
Fresh ==
    \A r \in Requests : hpc[r] = "store" => grant[r] > Margin /\ bearer[r] + age[r] >= grant[r]

\* A token in the cache has what is left of the margin beyond its ttl.
Margined == token.ttl > 0 => token.life + Timeout >= token.ttl + Margin

\* A request of the OData client was sent with more than a timeout to live.
SentAlive ==
    backend = "odata" /\ auth = "token" =>
        \A r \in Requests : hpc[r] = "http" => bearer[r] + age[r] > ODataTimeout

TInv == LocalTypes /\ Fresh /\ Margined /\ SentAlive

-----------------------------------------------------------------------------

LEMMA TimeoutType == backend \in {"adt", "odata"} => Timeout \in Nat /\ Timeout <= Margin
  BY SapHttpAssumption DEF Timeout

LEMMA LeftType == \A n \in Nat : Left(n) \in Nat /\ Left(n) + 1 >= n /\ (Left(n) > 0 => Left(n) + 1 = n)
  BY DEF Left

LEMMA OutcomeType ==
    \A o, s : Outcome(o, s) \in Errors \cup {"ok", "empty", "not_activated"}
  BY DEF Outcome, Errors

LEMMA ReturnTypes ==
    ASSUME LocalTypes, NEW r \in Requests,
           NEW res \in Errors \cup {"ok", "empty", "not_activated"}, Return(r, res)
    PROVE  /\ hpc' \in [Requests -> {"idle", "auth", "token", "store", "http", "reply", "done"}]
           /\ bearer' \in [Requests -> Nat]
           /\ grant' \in [Requests -> Nat]
           /\ reply' \in [Requests -> Statuses \cup {0}]
           /\ outcome' \in [Requests -> Errors \cup {"none", "ok", "empty", "not_activated"}]
           /\ backend' = backend => age' \in [Requests -> 0..Timeout']
  <1>1. Timeout \in Nat
    BY TimeoutType DEF LocalTypes
  <1>2. backend' = backend => Timeout' = Timeout
    BY DEF Timeout
  <1> QED
    BY <1>1, <1>2 DEF LocalTypes, Return

LEMMA TypesInit == SapHttpInit => LocalTypes
  <1> SUFFICES ASSUME SapHttpInit PROVE LocalTypes
    OBVIOUS
  <1>1. Timeout \in Nat
    BY TimeoutType DEF SapHttpInit
  <1>2. readOnly \in BOOLEAN /\ backend \in {"adt", "odata"} /\ auth \in {"static", "token"}
    BY DEF SapHttpInit
  <1>3. token \in [life : Nat, ttl : Nat]
    BY DEF SapHttpInit, NoToken
  <1>4. reply \in [Requests -> Statuses \cup {0}] /\ age \in [Requests -> 0..Timeout]
    BY <1>1 DEF SapHttpInit
  <1> QED
    BY <1>1, <1>2, <1>3, <1>4 DEF SapHttpInit, LocalTypes

LEMMA TypesStep == LocalTypes /\ [SapHttpNext]_hvars => LocalTypes'
  <1> SUFFICES ASSUME LocalTypes, [SapHttpNext]_hvars
               PROVE  LocalTypes'
    OBVIOUS
  <1>0. /\ Timeout \in Nat
        /\ backend' = backend => Timeout' = Timeout
    BY TimeoutType DEF LocalTypes, Timeout
  <1>1. CASE SessionChange
    BY <1>0, <1>1 DEF SessionChange, configVars, requestVars, LocalTypes
  <1>2. CASE Pass
    <2>1. age' \in [Requests -> 0..Timeout]
      BY <1>0, <1>2 DEF Pass, Exchanging, LocalTypes
    <2>2. bearer' \in [Requests -> Nat] /\ token' \in [life : Nat, ttl : Nat]
      BY <1>2, LeftType DEF Pass, LocalTypes
    <2> QED
      BY <1>0, <1>2, <2>1, <2>2 DEF Pass, configVars, LocalTypes
  <1>3. ASSUME NEW r \in Requests, NEW o \in AdtOps \cup ODataOps, Begin(r, o)
        PROVE  LocalTypes'
    <2>1. CASE Precheck(o) # "none"
      <3>1. Precheck(o) \in Errors /\ Return(r, Precheck(o))
        BY <1>3, <2>1 DEF Begin, Precheck, Errors
      <3> QED
        BY <1>3, <2>1, <3>1, ReturnTypes DEF Begin, configVars, LocalTypes
    <2>2. CASE Precheck(o) = "none"
      BY <1>0, <1>3, <2>2 DEF Begin, configVars, LocalTypes
    <2> QED
      BY <2>1, <2>2
  <1>4. ASSUME NEW r \in Requests, ResolveAuth(r)
        PROVE  LocalTypes'
    BY <1>0, <1>4 DEF ResolveAuth, configVars, LocalTypes
  <1>5. ASSUME NEW r \in Requests, TokenRefused(r)
        PROVE  LocalTypes'
    <2>1. PICK res \in TokenErrors : Return(r, res)
      BY <1>5 DEF TokenRefused
    <2>2. res \in Errors
      BY DEF TokenErrors, Errors
    <2> QED
      BY <1>5, <2>1, <2>2, ReturnTypes DEF TokenRefused, configVars, LocalTypes
  <1>6. ASSUME NEW r \in Requests, NEW e \in ExpiresIn, TokenIssued(r, e)
        PROVE  LocalTypes'
    BY <1>0, <1>6, SapHttpAssumption DEF TokenIssued, configVars, LocalTypes
  <1>7. ASSUME NEW r \in Requests, StoreToken(r)
        PROVE  LocalTypes'
    <2>1. Ttl(grant[r]) \in Nat
      BY SapHttpAssumption DEF Ttl, LocalTypes
    <2> QED
      BY <1>0, <1>7, <2>1 DEF StoreToken, configVars, LocalTypes
  <1>8. ASSUME NEW r \in Requests, NEW status \in Statuses, Arrive(r, status)
        PROVE  LocalTypes'
    <2>1. refused' \subseteq Requests
      BY <1>8 DEF Arrive, LocalTypes
    <2> QED
      BY <1>0, <1>8, <2>1 DEF Arrive, configVars, LocalTypes
  <1>9. ASSUME NEW r \in Requests, Lost(r)
        PROVE  LocalTypes'
    <2>1. PICK res \in {"Http", "DestinationDown"} : Return(r, res)
      BY <1>9 DEF Lost
    <2> QED
      BY <1>9, <2>1, ReturnTypes DEF Lost, configVars, LocalTypes, Errors
  <1>10. ASSUME NEW r \in Requests, ReceiveMain(r)
         PROVE  LocalTypes'
    <2>1. Return(r, Outcome(op[r], reply[r]))
      BY <1>10 DEF ReceiveMain
    <2> QED
      BY <1>10, <2>1, ReturnTypes, OutcomeType DEF ReceiveMain, configVars, LocalTypes
  <1>11. ASSUME NEW r \in Requests, ReceiveCsrf(r)
         PROVE  LocalTypes'
    <2>1. CASE held[r] = 0
      BY <1>11, <2>1, ReturnTypes DEF ReceiveCsrf, configVars, LocalTypes, Errors
    <2>2. CASE held[r] # 0
      BY <1>0, <1>11, <2>2 DEF ReceiveCsrf, configVars, LocalTypes
    <2> QED
      BY <2>1, <2>2
  <1>12. ASSUME NEW r \in Requests, ReadCsrf(r)
         PROVE  LocalTypes'
    BY <1>0, <1>12 DEF ReadCsrf, configVars, LocalTypes
  <1>13. CASE UNCHANGED hvars
    BY <1>0, <1>13 DEF hvars, configVars, requestVars, LocalTypes
  <1> QED
    BY <1>1, <1>2, <1>3, <1>4, <1>5, <1>6, <1>7, <1>8, <1>9, <1>10, <1>11, <1>12, <1>13
    DEF SapHttpNext, RequestStep

-----------------------------------------------------------------------------

LEMMA TokenInit == SapHttpInit => Fresh /\ Margined /\ SentAlive
  BY DEF SapHttpInit, NoToken, Fresh, Margined, SentAlive

\* A step that leaves token, configuration, and the requests that are under
\* way or make none of them progress as they are.
LEMMA Quiet ==
    ASSUME TInv, NEW r \in Requests,
           backend' = backend, auth' = auth, token' = token,
           hpc'[r] \notin {"store", "http"},
           \A q \in Requests \ {r} : /\ hpc'[q] = hpc[q] /\ bearer'[q] = bearer[q]
                                     /\ grant'[q] = grant[q] /\ age'[q] = age[q]
    PROVE  Fresh' /\ Margined' /\ SentAlive'
  BY DEF TInv, Fresh, Margined, SentAlive, Timeout

LEMMA ReturnQuiet ==
    ASSUME TInv, NEW r \in Requests, NEW res, Return(r, res), UNCHANGED <<configVars, token>>
    PROVE  Fresh' /\ Margined' /\ SentAlive'
  BY Quiet DEF TInv, LocalTypes, Return, configVars

LEMMA TokenStep == TInv /\ [SapHttpNext]_hvars => Fresh' /\ Margined' /\ SentAlive'
  <1> SUFFICES ASSUME TInv, [SapHttpNext]_hvars
               PROVE  Fresh' /\ Margined' /\ SentAlive'
    OBVIOUS
  <1>0. LocalTypes /\ LocalTypes'
    BY TypesStep DEF TInv
  <1>1. CASE SessionChange
    BY <1>1 DEF SessionChange, configVars, requestVars, TInv, Fresh, Margined, SentAlive, Timeout
  <1>2. CASE Pass
    <2>1. /\ \A r \in Requests : bearer'[r] \in Nat /\ bearer'[r] + 1 >= bearer[r]
          /\ token'.life \in Nat /\ token'.ttl \in Nat
          /\ token'.life + 1 >= token.life
          /\ token'.ttl > 0 => token'.ttl + 1 = token.ttl
      BY <1>0, <1>2, LeftType DEF Pass, LocalTypes
    <2>2. /\ \A r \in Requests : hpc[r] \in {"store", "http"} => age'[r] = age[r] + 1
          /\ Timeout' = Timeout /\ Timeout \in Nat
      BY <1>0, <1>2, TimeoutType DEF Pass, Exchanging, Timeout, configVars, LocalTypes
    <2>3. Fresh'
      BY <1>0, <1>2, <2>1, <2>2, SapHttpAssumption DEF Pass, Fresh, TInv, LocalTypes
    <2>4. Margined'
      BY <1>0, <2>1, <2>2, SapHttpAssumption DEF Margined, TInv, LocalTypes
    <2>5. SentAlive'
      BY <1>0, <1>2, <2>1, <2>2, SapHttpAssumption
      DEF Pass, SentAlive, TInv, LocalTypes, configVars
    <2> QED
      BY <2>3, <2>4, <2>5
  <1>3. ASSUME NEW r \in Requests, NEW o \in AdtOps \cup ODataOps, Begin(r, o)
        PROVE  Fresh' /\ Margined' /\ SentAlive'
    <2>1. CASE Precheck(o) # "none"
      BY <1>3, <2>1, ReturnQuiet DEF Begin
    <2>2. CASE Precheck(o) = "none"
      BY <1>0, <1>3, <2>2, Quiet DEF Begin, configVars, LocalTypes
    <2> QED
      BY <2>1, <2>2
  <1>4. ASSUME NEW r \in Requests, ResolveAuth(r)
        PROVE  Fresh' /\ Margined' /\ SentAlive'
    <2>1. Fresh' /\ Margined'
      BY <1>0, <1>4 DEF ResolveAuth, configVars, TInv, Fresh, Margined, Timeout, LocalTypes
    <2>2. CASE auth = "token" /\ token.ttl = 0
      BY <1>0, <1>4, <2>2, Quiet DEF ResolveAuth, configVars, LocalTypes
    <2>3. CASE backend = "odata" /\ auth = "token" /\ token.ttl > 0
      <3>1. token.life > ODataTimeout
        BY <1>0, <2>3, SapHttpAssumption DEF TInv, Margined, Timeout, LocalTypes
      <3>2. bearer'[r] = token.life /\ age' = age
        BY <1>0, <1>4, <2>3 DEF ResolveAuth, LocalTypes
      <3>3. bearer'[r] + age'[r] > ODataTimeout
        BY <1>0, <3>1, <3>2, TimeoutType, SapHttpAssumption DEF LocalTypes
      <3> QED
        BY <1>0, <1>4, <2>1, <3>3 DEF ResolveAuth, configVars, TInv, SentAlive, LocalTypes
    <2>4. CASE ~(backend = "odata" /\ auth = "token")
      BY <1>4, <2>1, <2>4 DEF ResolveAuth, configVars, SentAlive
    <2> QED
      BY <1>0, <2>1, <2>2, <2>3, <2>4 DEF LocalTypes
  <1>5. ASSUME NEW r \in Requests, TokenRefused(r)
        PROVE  Fresh' /\ Margined' /\ SentAlive'
    BY <1>5, ReturnQuiet DEF TokenRefused
  <1>6. ASSUME NEW r \in Requests, NEW e \in ExpiresIn, TokenIssued(r, e)
        PROVE  Fresh' /\ Margined' /\ SentAlive'
    <2>1. e \in Nat /\ e > Margin
      BY SapHttpAssumption
    <2>2. Fresh'
      BY <1>0, <1>6, <2>1, TimeoutType, SapHttpAssumption DEF TokenIssued, TInv, Fresh, LocalTypes
    <2> QED
      BY <1>0, <1>6, <2>2
      DEF TokenIssued, configVars, TInv, Margined, SentAlive, Timeout, LocalTypes
  <1>7. ASSUME NEW r \in Requests, StoreToken(r)
        PROVE  Fresh' /\ Margined' /\ SentAlive'
    <2>1. /\ hpc[r] = "store" /\ grant[r] > Margin /\ bearer[r] + age[r] >= grant[r]
          /\ grant[r] \in Nat /\ bearer[r] \in Nat /\ age[r] \in 0..Timeout
      BY <1>0, <1>7 DEF StoreToken, TInv, Fresh, LocalTypes
    <2>2. token'.life = bearer[r] /\ token'.ttl = grant[r] - Margin
      BY <1>7, <2>1 DEF StoreToken, Ttl
    <2>3. Timeout' = Timeout /\ Timeout \in Nat
      BY <1>0, <1>7, TimeoutType DEF StoreToken, configVars, Timeout, LocalTypes
    <2>4. Margined'
      BY <2>1, <2>2, <2>3, SapHttpAssumption DEF Margined
    <2>5. Fresh'
      BY <1>0, <1>7 DEF StoreToken, TInv, Fresh, LocalTypes
    <2>6. backend = "odata" => bearer[r] > ODataTimeout
      BY <2>1, SapHttpAssumption DEF Timeout
    <2>7. SentAlive'
      BY <1>0, <1>7, <2>1, <2>6, SapHttpAssumption
      DEF StoreToken, configVars, TInv, SentAlive, LocalTypes
    <2> QED
      BY <2>4, <2>5, <2>7
  <1>8. ASSUME NEW r \in Requests, NEW status \in Statuses, Arrive(r, status)
        PROVE  Fresh' /\ Margined' /\ SentAlive'
    BY <1>0, <1>8, Quiet DEF Arrive, configVars, LocalTypes
  <1>9. ASSUME NEW r \in Requests, Lost(r)
        PROVE  Fresh' /\ Margined' /\ SentAlive'
    BY <1>9, ReturnQuiet DEF Lost
  <1>10. ASSUME NEW r \in Requests, ReceiveMain(r)
         PROVE  Fresh' /\ Margined' /\ SentAlive'
    BY <1>10, ReturnQuiet DEF ReceiveMain
  <1>11. ASSUME NEW r \in Requests, ReceiveCsrf(r)
         PROVE  Fresh' /\ Margined' /\ SentAlive'
    <2>1. CASE held[r] = 0
      BY <1>11, <2>1, ReturnQuiet DEF ReceiveCsrf
    <2>2. CASE held[r] # 0
      BY <1>0, <1>11, <2>2, Quiet DEF ReceiveCsrf, configVars, LocalTypes
    <2> QED
      BY <2>1, <2>2
  <1>12. ASSUME NEW r \in Requests, ReadCsrf(r)
         PROVE  Fresh' /\ Margined' /\ SentAlive'
    BY <1>12 DEF ReadCsrf, configVars, TInv, Fresh, Margined, SentAlive, Timeout
  <1>13. CASE UNCHANGED hvars
    BY <1>13 DEF hvars, configVars, requestVars, TInv, Fresh, Margined, SentAlive, Timeout
  <1> QED
    BY <1>1, <1>2, <1>3, <1>4, <1>5, <1>6, <1>7, <1>8, <1>9, <1>10, <1>11, <1>12, <1>13
    DEF SapHttpNext, RequestStep

LEMMA TInvInvariant == SapHttpSpec => []TInv
  BY TypesInit, TypesStep, TokenInit, TokenStep, PTL DEF SapHttpSpec, TInv

\* A token the cache hands out is alive at its issuer, for any number of
\* concurrent exchanges and stores in any order, because the margin is at
\* least a timeout (http.rs:203-208, odata.rs:331-338).
THEOREM CachedTokensLive == SapHttpSpec => []CachedTokenIsAlive
  <1>1. TInv => CachedTokenIsAlive
    BY TimeoutType, SapHttpAssumption DEF TInv, LocalTypes, Margined, CachedTokenIsAlive
  <1> QED
    BY <1>1, TInvInvariant, PTL

\* An OData request reaches SAP with a live token, because the margin is at
\* least two timeouts (odata.rs:278-338).
THEOREM TokensArriveAlive == SapHttpSpec => []NoExpiredTokenArrives
  <1>1. TInv => NoExpiredTokenArrives
    BY TimeoutType, SapHttpAssumption
    DEF TInv, LocalTypes, SentAlive, NoExpiredTokenArrives, Timeout
  <1> QED
    BY <1>1, TInvInvariant, PTL

-----------------------------------------------------------------------------
(* AdtXml: what the event loops return is what SAP sent.                   *)

\* The order of the naturals is well founded.
LEMMA LeastNatural ==
    ASSUME NEW T, T \subseteq Nat, T # {}
    PROVE  \E x \in T : \A y \in T : x <= y
<1> DEFINE R == OpToRel(<, Nat)
<1>1. IsWellFoundedOn(R, Nat)
  BY NatLessThanWellFounded
<1>2. \A y, x \in Nat : y < x => <<y, x>> \in R
  BY DEF OpToRel
<1> HIDE DEF R
<1>3. PICK x \in T : \A y \in T : ~ (<<y, x>> \in R)
  BY <1>1, WFMin
<1>4. \A y \in T : x \in Nat /\ y \in Nat /\ ~(y < x)
  BY <1>2, <1>3
<1>5. \A y \in T : x <= y
  BY <1>4
<1> QED BY <1>3, <1>5

\* Results gathered from the last place forwards.
Gathered(f, n, r) ==
    f = [j \in 0..n |-> IF j = 0 THEN <<>> ELSE r[j] \o f[j - 1]]

LEMMA GatheredExist ==
    ASSUME NEW r
    PROVE  \A n \in Nat : \E f : Gathered(f, n, r)
<1> DEFINE bad == {n \in Nat : ~\E f : Gathered(f, n, r)}
<1> SUFFICES ASSUME bad # {} PROVE FALSE
  OBVIOUS
<1>1. PICK n \in bad : \A k \in bad : n <= k
  <2>1. bad \subseteq Nat
    OBVIOUS
  <2> HIDE DEF bad
  <2> QED BY <2>1, LeastNatural
<1>2. n \in Nat /\ ~\E f : Gathered(f, n, r)
  OBVIOUS
<1>3. CASE n = 0
  <2> DEFINE f == [j \in 0..n |-> <<>>]
  <2>1. f = [j \in 0..n |-> IF j = 0 THEN <<>> ELSE r[j] \o f[j - 1]]
    BY <1>3
  <2> QED BY <2>1, <1>2 DEF Gathered
<1>4. CASE n # 0
  <2>1. n - 1 \in Nat /\ n - 1 \notin bad
    BY <1>1, <1>2, <1>4
  <2>2. PICK g : Gathered(g, n - 1, r)
    BY <2>1
  <2> DEFINE f == [j \in 0..n |-> IF j = n THEN r[n] \o g[n - 1] ELSE g[j]]
  <2>3. \A j \in 0..(n - 1) : g[j] = IF j = 0 THEN <<>> ELSE r[j] \o g[j - 1]
    BY <2>2 DEF Gathered
  <2>4. \A j \in 0..n : f[j] = IF j = 0 THEN <<>> ELSE r[j] \o f[j - 1]
    <3> TAKE j \in 0..n
    <3>1. CASE j = n
      <4>1. f[j] = r[n] \o g[n - 1] /\ f[n - 1] = g[n - 1]
        BY <3>1, <1>2, <1>4
      <4> QED BY <4>1, <3>1, <1>4
    <3>2. CASE j # n
      <4>1. j \in 0..(n - 1) /\ f[j] = g[j]
        BY <3>2, <1>2
      <4>2. j # 0 => j - 1 \in 0..n /\ j - 1 # n
        BY <4>1, <1>2
      <4>3. j # 0 => f[j - 1] = g[j - 1]
        BY <4>2
      <4> QED BY <2>3, <4>1, <4>3
    <3> QED BY <3>1, <3>2
  <2>5. f = [j \in 0..n |-> f[j]]
    OBVIOUS
  <2> HIDE DEF f
  <2>6. Gathered(f, n, r)
    BY <2>4, <2>5 DEF Gathered
  <2> QED BY <2>6, <1>2
<1> QED BY <1>3, <1>4

\* The results of the last parts, one part after the other.
LEMMA ResultsUnfold ==
    ASSUME NEW b, Len(b.parts) \in Nat
    PROVE  /\ ResultsOf(b, 0) = <<>>
           /\ \A j \in 1..Len(b.parts) :
                 ResultsOf(b, j) = ResultOf(b, b.parts[Len(b.parts) - j + 1]) \o ResultsOf(b, j - 1)
<1> DEFINE n == Len(b.parts)
           r == [j \in 1..n |-> ResultOf(b, b.parts[n - j + 1])]
           E(f) == [j \in 0..n |->
                      IF j = 0 THEN <<>> ELSE ResultOf(b, b.parts[n - j + 1]) \o f[j - 1]]
           T == CHOOSE g : g = E(g)
<1>1. PICK f : Gathered(f, n, r)
  BY GatheredExist
<1>2. f = E(f)
  <2>1. \A j \in 0..n : (IF j = 0 THEN <<>> ELSE r[j] \o f[j - 1])
                      = (IF j = 0 THEN <<>> ELSE ResultOf(b, b.parts[n - j + 1]) \o f[j - 1])
    <3> TAKE j \in 0..n
    <3>1. j # 0 => r[j] = ResultOf(b, b.parts[n - j + 1])
      OBVIOUS
    <3> HIDE DEF r
    <3> QED BY <3>1
  <2> HIDE DEF r
  <2> QED BY <1>1, <2>1 DEF Gathered
<1>3. T = E(T)
  <2> HIDE DEF E
  <2> QED BY <1>2
<1>4. \A k : ResultsOf(b, k) = T[k]
  BY DEF ResultsOf
<1> HIDE DEF T
<1>5. \A j \in 0..n : T[j] = IF j = 0 THEN <<>> ELSE ResultOf(b, b.parts[n - j + 1]) \o T[j - 1]
  <2> TAKE j \in 0..n
  <2>1. E(T)[j] = IF j = 0 THEN <<>> ELSE ResultOf(b, b.parts[n - j + 1]) \o T[j - 1]
    OBVIOUS
  <2> HIDE DEF E
  <2> QED BY <1>3, <2>1
<1> HIDE DEF E
<1>6. T[0] = <<>>
  BY <1>5
<1>7. ASSUME NEW j \in 1..n
      PROVE  T[j] = ResultOf(b, b.parts[n - j + 1]) \o T[j - 1]
  <2>1. j \in 0..n /\ j # 0
    OBVIOUS
  <2> QED BY <1>5, <2>1
<1> QED BY <1>4, <1>6, <1>7

\* What may be a result.
Worth(b) == {ObjectOf(b.parts[i]) : i \in 1..Len(b.parts)}
            \cup {RowOf(b, b.parts[i]) : i \in 1..Len(b.parts)}

LEMMA ResultIsWorth ==
    ASSUME NEW b, NEW i \in 1..Len(b.parts)
    PROVE  ResultOf(b, b.parts[i]) \in Seq(Worth(b))
<1>1. ObjectOf(b.parts[i]) \in Worth(b) /\ RowOf(b, b.parts[i]) \in Worth(b)
  BY DEF Worth
<1>2. <<>> \in Seq(Worth(b)) /\ \A x \in Worth(b) : <<x>> \in Seq(Worth(b))
  OBVIOUS
<1> QED BY <1>1, <1>2 DEF ResultOf

LEMMA ResultsAreWorth ==
    ASSUME NEW b, Len(b.parts) \in Nat
    PROVE  \A j \in 0..Len(b.parts) : ResultsOf(b, j) \in Seq(Worth(b))
<1> DEFINE n == Len(b.parts)
           bad == {j \in 0..n : ResultsOf(b, j) \notin Seq(Worth(b))}
<1> SUFFICES ASSUME bad # {} PROVE FALSE
  OBVIOUS
<1>1. PICK j \in bad : \A k \in bad : j <= k
  <2>1. bad \subseteq Nat
    OBVIOUS
  <2> HIDE DEF bad
  <2> QED BY <2>1, LeastNatural
<1>2. j \in 0..n /\ ResultsOf(b, j) \notin Seq(Worth(b))
  OBVIOUS
<1>3. j # 0
  <2>1. ResultsOf(b, 0) = <<>>
    BY ResultsUnfold
  <2>2. <<>> \in Seq(Worth(b))
    OBVIOUS
  <2> QED BY <1>2, <2>1, <2>2
<1>4. j - 1 \in 0..n /\ j - 1 \notin bad
  BY <1>1, <1>2, <1>3
<1>5. ResultsOf(b, j - 1) \in Seq(Worth(b))
  BY <1>4
<1>6. n - j + 1 \in 1..n /\ j \in 1..n
  BY <1>2, <1>3
<1>7. ResultOf(b, b.parts[n - j + 1]) \in Seq(Worth(b))
  BY <1>6, ResultIsWorth
<1>8. ResultsOf(b, j) = ResultOf(b, b.parts[n - j + 1]) \o ResultsOf(b, j - 1)
  BY <1>6, ResultsUnfold
<1>9. \A s, t \in Seq(Worth(b)) : s \o t \in Seq(Worth(b))
  OBVIOUS
<1> QED BY <1>2, <1>5, <1>7, <1>8, <1>9

-----------------------------------------------------------------------------
(* The documents.                                                          *)

LEMMA SeqsAre ==
    ASSUME NEW S, NEW n \in Nat, NEW s \in Seqs(S, n)
    PROVE  /\ Len(s) \in Nat /\ DOMAIN s = 1..Len(s)
           /\ \A i \in 1..Len(s) : s[i] \in S
<1>1. PICK k \in 0..n : s \in [1..k -> S]
  BY DEF Seqs
<1>2. Len(s) = k
  BY <1>1
<1> QED BY <1>1, <1>2

\* A part of a list of objects, and of a preview.
IsNode(p) ==
    /\ p.tag = "OBJ_NODE" /\ p.attrs = <<>>
    /\ Len(p.items) \in Nat /\ DOMAIN p.items = 1..Len(p.items)
    /\ \A i \in 1..Len(p.items) : p.items[i] \in Fields
    /\ \A i, j \in 1..Len(p.items) : p.items[i].tag = p.items[j].tag => i = j
IsReference(p) == p.tag = "objectReference" /\ p.items = <<>> /\ Len(p.items) = 0
IsColumn(p) ==
    /\ p.tag = "metadata" /\ p.ev \in {"empty", "start"} /\ p.attrs = [name |-> "c"]
    /\ p.items = <<>> /\ Len(p.items) = 0
IsRow(p) ==
    /\ p.tag = "row" /\ p.attrs = <<>>
    /\ Len(p.items) \in Nat /\ DOMAIN p.items = 1..Len(p.items)
    /\ \A i \in 1..Len(p.items) : p.items[i] \in Cells

LEMMA NodesAre ==
    ASSUME NEW p \in Nodes PROVE IsNode(p)
<1>1. MaxFields \in Nat
  BY AdtBoundsAssumption
<1>2. PICK f \in Seqs(Fields, MaxFields) :
         /\ \A i, j \in DOMAIN f : f[i].tag = f[j].tag => i = j
         /\ p = Nest("OBJ_NODE", f)
  BY DEF Nodes
<1>3. Len(f) \in Nat /\ DOMAIN f = 1..Len(f) /\ \A i \in 1..Len(f) : f[i] \in Fields
  BY <1>1, SeqsAre
<1>4. p.tag = "OBJ_NODE" /\ p.attrs = <<>> /\ p.items = f
  BY <1>2 DEF Nest
<1> QED BY <1>2, <1>3, <1>4 DEF IsNode

LEMMA RowsAre ==
    ASSUME NEW p \in Rows PROVE IsRow(p)
<1>1. MaxCells \in Nat
  BY AdtBoundsAssumption
<1>2. PICK c \in Seqs(Cells, MaxCells) : p = Nest("row", c)
  BY DEF Rows
<1>3. Len(c) \in Nat /\ DOMAIN c = 1..Len(c) /\ \A i \in 1..Len(c) : c[i] \in Cells
  BY <1>1, SeqsAre
<1>4. p.tag = "row" /\ p.attrs = <<>> /\ p.items = c
  BY <1>2 DEF Nest
<1> QED BY <1>3, <1>4 DEF IsRow

LEMMA ReferencesAre ==
    ASSUME NEW ev, NEW p \in LoneNodes(ev) PROVE IsReference(p) /\ p.ev = ev
  BY DEF LoneNodes, Lone, IsReference

\* What the parts of an answer are.
PartsAre(b) ==
    /\ Len(b.parts) \in Nat
    /\ \/ /\ b.form = "nodes"
          /\ \A i \in 1..Len(b.parts) :
                IsNode(b.parts[i]) \/ (IsReference(b.parts[i]) /\ b.parts[i].ev = "empty")
       \/ b.form = "references" /\ \A i \in 1..Len(b.parts) : IsReference(b.parts[i])
       \/ /\ b.form = "preview" /\ b.columns \in Nat /\ b.columns <= Len(b.parts)
          /\ \A i \in 1..Len(b.parts) : IF i <= b.columns THEN IsColumn(b.parts[i])
                                                          ELSE IsRow(b.parts[i])

LEMMA BodiesAre ==
    ASSUME NEW b \in Bodies PROVE PartsAre(b)
<1>1. MaxNodes \in Nat /\ MaxCells \in Nat
  BY AdtBoundsAssumption
<1>2. CASE b \in [form : {"nodes"}, columns : {0}, parts : Seqs(Nodes \cup LoneNodes("empty"), MaxNodes)]
  <2>1. b.form = "nodes" /\ b.parts \in Seqs(Nodes \cup LoneNodes("empty"), MaxNodes)
    BY <1>2
  <2>2. Len(b.parts) \in Nat /\ \A i \in 1..Len(b.parts) : b.parts[i] \in Nodes \cup LoneNodes("empty")
    BY <2>1, <1>1, SeqsAre
  <2> QED BY <2>1, <2>2, NodesAre, ReferencesAre DEF PartsAre
<1>3. CASE b \in [form : {"references"}, columns : {0},
                parts : Seqs(LoneNodes("empty") \cup LoneNodes("start"), MaxNodes)]
  <2>1. b.form = "references" /\ b.parts \in Seqs(LoneNodes("empty") \cup LoneNodes("start"), MaxNodes)
    BY <1>3
  <2>2. Len(b.parts) \in Nat /\ \A i \in 1..Len(b.parts) : b.parts[i] \in LoneNodes("empty") \cup LoneNodes("start")
    BY <2>1, <1>1, SeqsAre
  <2> QED BY <2>1, <2>2, ReferencesAre DEF PartsAre
<1>4. CASE b \in {Preview(n, ev, rows) : n \in 0..MaxCells, ev \in {"empty", "start"},
                                         rows \in Seqs(Rows, MaxNodes)}
  <2>1. PICK n \in 0..MaxCells, ev \in {"empty", "start"}, rows \in Seqs(Rows, MaxNodes) :
           b = Preview(n, ev, rows)
    BY <1>4
  <2>2. n \in Nat /\ Len(rows) \in Nat /\ \A i \in 1..Len(rows) : rows[i] \in Rows
    BY <2>1, <1>1, SeqsAre
  <2>3. /\ b.form = "preview" /\ b.columns = n
        /\ b.parts = [i \in 1..(n + Len(rows)) |-> IF i <= n THEN Column(ev) ELSE rows[i - n]]
    BY <2>1 DEF Preview
  <2>4. Len(b.parts) = n + Len(rows)
    BY <2>2, <2>3
  <2>5. IsColumn(Column(ev))
    BY DEF Column, Lone, IsColumn
  <2>6. ASSUME NEW i \in 1..Len(b.parts)
        PROVE  IF i <= b.columns THEN IsColumn(b.parts[i]) ELSE IsRow(b.parts[i])
    <3>1. b.parts[i] = IF i <= n THEN Column(ev) ELSE rows[i - n]
      BY <2>3, <2>4
    <3>2. ~(i <= n) => i - n \in 1..Len(rows)
      BY <2>2, <2>4
    <3>3. ~(i <= n) => IsRow(rows[i - n])
      BY <2>2, <3>2, RowsAre
    <3> QED BY <2>3, <2>5, <3>1, <3>3
  <2>7. Len(b.parts) \in Nat /\ b.columns \in Nat /\ b.columns <= Len(b.parts)
    BY <2>2, <2>3, <2>4
  <2> QED BY <2>3, <2>6, <2>7 DEF PartsAre
<1> QED BY <1>2, <1>3, <1>4 DEF Bodies

\* The events of an item.
LEMMA EventsOf ==
    ASSUME NEW x
    PROVE  /\ x.shape = "attribute" =>
                 Len(ItemEvents(x)) = 1 /\ ItemEvents(x)[1] = EvAttrs("empty", x.tag, [value |-> x.value])
           /\ x.shape = "bare" => Len(ItemEvents(x)) = 1 /\ ItemEvents(x)[1] = Ev("empty", x.tag)
           /\ x.shape = "opened" =>
                 /\ Len(ItemEvents(x)) = 2
                 /\ ItemEvents(x)[1] = EvAttrs("start", x.tag, [value |-> x.value])
                 /\ ItemEvents(x)[2] = Ev("end", x.tag)
           /\ x.shape = "hollow" =>
                 /\ Len(ItemEvents(x)) = 2
                 /\ ItemEvents(x)[1] = Ev("start", x.tag) /\ ItemEvents(x)[2] = Ev("end", x.tag)
           /\ x.shape = "text" =>
                 /\ Len(ItemEvents(x)) = 3
                 /\ ItemEvents(x)[1] = Ev("start", x.tag) /\ ItemEvents(x)[2] = EvText(x.value)
                 /\ ItemEvents(x)[3] = Ev("end", x.tag)
<1>1. CASE x.shape = "attribute"
  BY <1>1 DEF ItemEvents
<1>2. CASE x.shape = "bare"
  BY <1>2 DEF ItemEvents
<1>3. CASE x.shape = "opened"
  BY <1>3 DEF ItemEvents
<1>4. CASE x.shape = "hollow"
  BY <1>4 DEF ItemEvents
<1>5. CASE x.shape = "text"
  BY <1>5 DEF ItemEvents
<1> QED BY <1>1, <1>2, <1>3, <1>4, <1>5

-----------------------------------------------------------------------------
(* The reader's place, and what the registers hold there.                  *)

PlaceOK ==
    /\ at = Place(at.part, at.item, at.event)
    /\ at.part \in 1..(Len(body.parts) + 1) /\ at.item \in Nat /\ at.event \in Nat
    /\ ~AtEnd =>
          \/ at.item = 0 /\ at.event = 1
          \/ /\ ~IsLone(Part)
             /\ \/ at.item = Len(PartItems) + 1 /\ at.event = 1
                \/ /\ at.item \in 1..Len(PartItems)
                   /\ at.event \in 1..Len(ItemEvents(PartItems[at.item]))

IsRegisters(r) ==
    DOMAIN r = {"inNode", "field", "name", "kind", "desc",
                "columns", "inRow", "inCell", "cell", "text", "row"}
RegistersOK == IsRegisters(reg)

\* A register has the value of the field with its tag among the first n.
Kept(tag, v, items, n) ==
    /\ \A j \in 1..n : items[j].tag = tag => v = items[j].value
    /\ (\A j \in 1..n : items[j].tag # tag) => v = ""
KeptFields(r, items, n) ==
    /\ Kept("OBJECT_NAME", r.name, items, n)
    /\ Kept("OBJECT_TYPE", r.kind, items, n)
    /\ Kept("DESCRIPTION", r.desc, items, n)

\* Within an object.
NodeHeld ==
    /\ reg.inNode
    /\ IF at.item <= Len(PartItems) /\ at.event = 3
       THEN KeptFields(reg, PartItems, at.item) ELSE KeptFields(reg, PartItems, at.item - 1)
    /\ at.item <= Len(PartItems) /\ at.event = 2 => reg.field = PartItems[at.item].tag

\* The values of the first n cells under their columns.
Filled(items, n, columns) ==
    [j \in {j \in 1..Len(items) : j <= n /\ j <= columns} |-> items[j].value]

\* The counter may stay behind once there are no more columns.
Counted(r, n, columns) ==
    r.cell \in Nat /\ IF n <= columns THEN r.cell = n ELSE r.cell >= columns

\* The registers after the first n cells of a row.
RowSoFar(r, items, n, columns) ==
    r.inRow /\ Counted(r, n, columns) /\ r.row = Filled(items, n, columns)

\* Within a row.
RowAt(r, items, i, e, columns) ==
    /\ RowSoFar(r, items, i - 1, columns)
    /\ i <= Len(items) /\ e >= 2 =>
          r.inCell /\ (e = 3 \/ items[i].shape # "text" => r.text = items[i].value)
RowHeld == RowAt(reg, PartItems, at.item, at.event, body.columns)

ColumnsHeld == reg.columns = IF at.part <= body.columns THEN at.part - 1 ELSE body.columns

Held ==
    /\ RegistersOK
    /\ ~broken /\ body.form = "nodes" /\ ~AtEnd /\ at.item > 0 => NodeHeld
    /\ ~broken /\ body.form = "preview" /\ ~AtEnd => ColumnsHeld /\ (at.item > 0 => RowHeld)

\* What is collected and what the rest of the document stands for.
Collected ==
    /\ out \in Seq(Worth(body))
    /\ IF broken THEN AtEnd /\ \E t \in Seq(Worth(body)) : out \o t = Expected
       ELSE out \o ResultsOf(body, Len(body.parts) + 1 - at.part) = Expected

DInv == body \in Bodies /\ broken \in BOOLEAN /\ PlaceOK /\ Held /\ Collected

LEMMA PlaceFields ==
    ASSUME NEW p, NEW i, NEW e
    PROVE  Place(p, i, e).part = p /\ Place(p, i, e).item = i /\ Place(p, i, e).event = e
  BY DEF Place

\* The four kinds of places in a part.
AtLone == IsLone(Part) /\ at.item = 0 /\ at.event = 1
AtStart == ~IsLone(Part) /\ at.item = 0 /\ at.event = 1
AtItem ==
    /\ ~IsLone(Part) /\ at.item \in 1..Len(PartItems)
    /\ at.event \in 1..Len(ItemEvents(PartItems[at.item]))
AtClose == ~IsLone(Part) /\ at.item = Len(PartItems) + 1 /\ at.event = 1

LEMMA PartIs ==
    ASSUME PartsAre(body), PlaceOK, ~AtEnd
    PROVE  /\ at.part \in 1..Len(body.parts) /\ Len(body.parts) \in Nat
           /\ IsNode(Part) \/ IsReference(Part) \/ IsColumn(Part) \/ IsRow(Part)
           /\ Len(PartItems) \in Nat
           /\ body.form = "nodes" => IsNode(Part) \/ (IsReference(Part) /\ Part.ev = "empty")
           /\ body.form = "references" => IsReference(Part)
           /\ body.form = "preview" => /\ body.columns \in Nat /\ body.columns <= Len(body.parts)
                                       /\ IF at.part <= body.columns THEN IsColumn(Part) ELSE IsRow(Part)
<1>1. at.part \in 1..Len(body.parts) /\ Len(body.parts) \in Nat
  BY DEF PartsAre, PlaceOK, AtEnd
<1>2. /\ IsNode(Part) \/ IsReference(Part) \/ IsColumn(Part) \/ IsRow(Part)
      /\ body.form = "nodes" => IsNode(Part) \/ (IsReference(Part) /\ Part.ev = "empty")
      /\ body.form = "references" => IsReference(Part)
      /\ body.form = "preview" => /\ body.columns \in Nat /\ body.columns <= Len(body.parts)
                                  /\ IF at.part <= body.columns THEN IsColumn(Part) ELSE IsRow(Part)
  BY <1>1 DEF PartsAre, Part
<1>3. Len(PartItems) \in Nat
  BY <1>2 DEF IsNode, IsReference, IsColumn, IsRow, PartItems
<1> QED BY <1>1, <1>2, <1>3

LEMMA Whereabouts ==
    ASSUME PartsAre(body), PlaceOK, ~AtEnd
    PROVE  AtLone \/ AtStart \/ AtItem \/ AtClose
  BY DEF PlaceOK, AtLone, AtStart, AtItem, AtClose

LEMMA EventHere ==
    ASSUME PartsAre(body), PlaceOK, ~AtEnd
    PROVE  /\ AtLone => /\ Event = EvAttrs(Part.ev, Part.tag, Part.attrs)
                        /\ NextPlace = Place(at.part + 1, 0, 1)
           /\ AtStart => Event = Ev("start", Part.tag) /\ NextPlace = Place(at.part, 1, 1)
           /\ AtItem => /\ Event = ItemEvents(PartItems[at.item])[at.event]
                        /\ NextPlace = IF at.event < Len(ItemEvents(PartItems[at.item]))
                                       THEN Place(at.part, at.item, at.event + 1)
                                       ELSE Place(at.part, at.item + 1, 1)
           /\ AtClose => Event = Ev("end", Part.tag) /\ NextPlace = Place(at.part + 1, 0, 1)
<1>1. Len(PartItems) \in Nat /\ at.item \in Nat
  BY PartIs DEF PlaceOK
<1>2. AtLone => /\ Event = EvAttrs(Part.ev, Part.tag, Part.attrs)
                /\ NextPlace = Place(at.part + 1, 0, 1)
  BY <1>1 DEF AtLone, Event, NextPlace, Opening
<1>3. AtStart => Event = Ev("start", Part.tag) /\ NextPlace = Place(at.part, 1, 1)
  <2>1. AtStart => ~(at.item > Len(PartItems))
    BY <1>1 DEF AtStart
  <2> QED BY <2>1 DEF AtStart, Event, NextPlace, Opening
<1>4. AtItem => /\ Event = ItemEvents(PartItems[at.item])[at.event]
                /\ NextPlace = IF at.event < Len(ItemEvents(PartItems[at.item]))
                               THEN Place(at.part, at.item, at.event + 1)
                               ELSE Place(at.part, at.item + 1, 1)
  <2>1. AtItem => ~(at.item > Len(PartItems)) /\ at.item # 0
    BY <1>1 DEF AtItem
  <2> QED BY <2>1 DEF AtItem, Event, NextPlace
<1>5. AtClose => Event = Ev("end", Part.tag) /\ NextPlace = Place(at.part + 1, 0, 1)
  <2>1. AtClose => at.item > Len(PartItems) /\ at.item # 0
    BY <1>1 DEF AtClose
  <2> QED BY <2>1 DEF AtClose, Event, NextPlace
<1> QED BY <1>2, <1>3, <1>4, <1>5

LEMMA ItemHasEvents ==
    ASSUME IsNode(Part) \/ IsRow(Part), NEW i \in 1..Len(PartItems)
    PROVE  Len(ItemEvents(PartItems[i])) \in 1..3 /\ 1 \in 1..Len(ItemEvents(PartItems[i]))
<1>1. PartItems[i].shape \in {"attribute", "opened", "text", "bare", "hollow"}
  BY FieldsAssumption, CellsAssumption DEF IsNode, IsRow, PartItems
<1>2. Len(ItemEvents(PartItems[i])) = 1 \/ Len(ItemEvents(PartItems[i])) = 2
      \/ Len(ItemEvents(PartItems[i])) = 3
  BY <1>1, EventsOf
<1> QED BY <1>2

LEMMA PlaceKept ==
    ASSUME PartsAre(body), PlaceOK, ~AtEnd, at' = NextPlace, body' = body
    PROVE  PlaceOK'
<1>1. Len(PartItems) \in Nat /\ at.item \in Nat /\ at.part \in 1..Len(body.parts) /\ Len(body.parts) \in Nat
      /\ at.event \in Nat
  BY PartIs DEF PlaceOK
<1>2. CASE AtLone \/ AtClose
  <2>1. at' = Place(at.part + 1, 0, 1)
    BY <1>2, EventHere
  <2>2. at'.part = at.part + 1 /\ at'.item = 0 /\ at'.event = 1
    BY <2>1, PlaceFields
  <2> QED BY <1>1, <2>1, <2>2 DEF PlaceOK, AtEnd
<1>3. CASE AtStart \/ AtItem
  <2>1. IsNode(Part) \/ IsRow(Part)
    BY <1>3, PartIs DEF AtStart, AtItem, IsLone, IsReference, IsColumn
  <2>2. at'.part = at.part => Part' = Part /\ PartItems' = PartItems
    BY DEF Part, PartItems
  <2>3. CASE AtStart
    <3>1. at' = Place(at.part, 1, 1)
      BY <2>3, EventHere
    <3>2. at'.part = at.part /\ at'.item = 1 /\ at'.event = 1
      BY <3>1, PlaceFields
    <3>3. ASSUME 1 \in 1..Len(PartItems) PROVE 1 \in 1..Len(ItemEvents(PartItems[1]))
      BY <2>1, <3>3, ItemHasEvents
    <3>4. 1 = Len(PartItems) + 1 \/ 1 \in 1..Len(PartItems)
      BY <1>1
    <3> QED BY <1>1, <2>2, <2>3, <3>1, <3>2, <3>3, <3>4 DEF PlaceOK, AtEnd, AtStart
  <2>4. CASE AtItem /\ at.event < Len(ItemEvents(PartItems[at.item]))
    <3>1. at' = Place(at.part, at.item, at.event + 1)
      BY <2>4, EventHere
    <3>2. at'.part = at.part /\ at'.item = at.item /\ at'.event = at.event + 1
      BY <3>1, PlaceFields
    <3>3. at.event + 1 \in 1..Len(ItemEvents(PartItems[at.item]))
      BY <2>1, <2>4, ItemHasEvents DEF AtItem
    <3> QED BY <1>1, <2>2, <2>4, <3>1, <3>2, <3>3 DEF PlaceOK, AtEnd, AtItem
  <2>5. CASE AtItem /\ ~(at.event < Len(ItemEvents(PartItems[at.item])))
    <3>1. at' = Place(at.part, at.item + 1, 1)
      BY <2>5, EventHere
    <3>2. at'.part = at.part /\ at'.item = at.item + 1 /\ at'.event = 1
      BY <3>1, PlaceFields
    <3>3. ASSUME at.item + 1 \in 1..Len(PartItems)
          PROVE  1 \in 1..Len(ItemEvents(PartItems[at.item + 1]))
      BY <2>1, <3>3, ItemHasEvents
    <3>4. at.item + 1 = Len(PartItems) + 1 \/ at.item + 1 \in 1..Len(PartItems)
      BY <1>1, <2>5 DEF AtItem
    <3>5. PartItems' = PartItems /\ ~IsLone(Part') /\ Len(body.parts)' = Len(body.parts)
      BY <2>2, <2>5, <3>2 DEF AtItem
    <3>6. at.item + 1 \in Nat /\ at.part \in 1..(Len(body.parts) + 1)
      BY <1>1
    <3>7. \/ at'.item = Len(PartItems') + 1 /\ at'.event = 1
          \/ at'.item \in 1..Len(PartItems') /\ at'.event \in 1..Len(ItemEvents(PartItems'[at'.item]))
      <4>1. CASE at.item + 1 = Len(PartItems) + 1
        BY <3>2, <3>5, <4>1
      <4>2. CASE at.item + 1 \in 1..Len(PartItems)
        <5>1. PartItems'[at'.item] = PartItems[at.item + 1]
          BY <3>2, <3>5
        <5>2. at'.event \in 1..Len(ItemEvents(PartItems'[at'.item]))
          BY <3>2, <3>3, <4>2, <5>1
        <5> QED BY <3>2, <3>5, <4>2, <5>2
      <4> QED BY <3>4, <4>1, <4>2
    <3> QED BY <3>1, <3>2, <3>5, <3>6, <3>7 DEF PlaceOK
  <2> QED BY <1>3, <2>3, <2>4, <2>5
<1> QED BY <1>2, <1>3, Whereabouts

\* Going on to the next part with the result of this one.
LEMMA CollectedNext ==
    ASSUME PartsAre(body), PlaceOK, ~AtEnd, Collected, body' = body, broken' = broken,
           at'.part = at.part + 1, out' = out \o ResultOf(body, Part)
    PROVE  Collected'
<1> DEFINE n == Len(body.parts)
           W == Worth(body)
           k == n + 1 - at.part
<1>0. n \in Nat /\ at.part \in 1..n
  BY PartIs
<1>1. /\ k \in 1..n /\ k - 1 \in 0..n
      /\ n + 1 - at'.part = k - 1 /\ n - k + 1 = at.part
  <2> HIDE DEF n
  <2>1. \A p, q \in 1..n : n + 1 - p \in 1..n /\ (n + 1 - p) - 1 \in 0..n
                           /\ n - (n + 1 - p) + 1 = p /\ n + 1 - (p + 1) = (n + 1 - p) - 1
    BY <1>0
  <2> QED BY <1>0, <2>1
<1>2. ~broken /\ out \in Seq(W) /\ out \o ResultsOf(body, k) = Expected
  BY DEF Collected
<1>3. ResultsOf(body, k) = ResultOf(body, Part) \o ResultsOf(body, k - 1)
  BY <1>0, <1>1, ResultsUnfold DEF Part
<1>4. ResultsOf(body, k - 1) \in Seq(W) /\ ResultOf(body, Part) \in Seq(W)
  BY <1>0, <1>1, ResultsAreWorth, ResultIsWorth DEF Part
<1> HIDE DEF W, k, n
<1>5. \A r, s, t \in Seq(W) : (r \o s) \o t = r \o (s \o t) /\ r \o s \in Seq(W)
  OBVIOUS
<1>6. out' \in Seq(W) /\ out' \o ResultsOf(body, k - 1) = Expected
  <2>1. (out \o ResultOf(body, Part)) \o ResultsOf(body, k - 1)
          = out \o (ResultOf(body, Part) \o ResultsOf(body, k - 1))
    BY <1>2, <1>4, <1>5
  <2>2. out \o ResultOf(body, Part) \in Seq(W)
    BY <1>2, <1>4, <1>5
  <2> QED BY <1>2, <1>3, <2>1, <2>2
<1>7. Expected' = Expected /\ Worth(body)' = Worth(body) /\ Len(body.parts)' = n
  BY DEF Expected, n
<1>8. ResultsOf(body, Len(body.parts) + 1 - at.part)' = ResultsOf(body, k - 1)
  BY <1>1 DEF n
<1> QED BY <1>2, <1>6, <1>7, <1>8 DEF Collected, W

LEMMA CollectedSame ==
    ASSUME PlaceOK, ~AtEnd, Collected, body' = body, broken' = broken,
           at'.part = at.part, out' = out
    PROVE  Collected'
<1>1. Expected' = Expected /\ Worth(body)' = Worth(body) /\ AtEnd' = AtEnd
  BY DEF Expected, AtEnd
<1>2. ResultsOf(body, Len(body.parts) + 1 - at.part)' = ResultsOf(body, Len(body.parts) + 1 - at.part)
  OBVIOUS
<1> QED BY <1>1, <1>2 DEF Collected

-----------------------------------------------------------------------------
(* Objects.                                                                *)

LEMMA CollectIs ==
    ASSUME NEW W, out \in Seq(W), NEW h \in W
    PROVE  Collect(h) = out \o (IF h.name # "" THEN <<h>> ELSE <<>>)
<1>1. Append(out, h) = out \o <<h>>
  BY AppendIsConcat
<1>2. out \o <<>> = out
  OBVIOUS
<1> QED BY <1>1, <1>2 DEF Collect

LEMMA ReferenceCollected ==
    ASSUME PartsAre(body), PlaceOK, ~AtEnd, Collected, IsReference(Part)
    PROVE  AtLone /\ Collect(Hit(Event.attrs)) = out \o ResultOf(body, Part)
<1>1. IsLone(Part)
  BY DEF IsLone, IsReference
<1>2. AtLone
  BY <1>1, Whereabouts DEF AtLone, AtStart, AtItem, AtClose
<1>3. Event.attrs = Part.attrs
  <2>1. Event = EvAttrs(Part.ev, Part.tag, Part.attrs)
    BY <1>2, EventHere
  <2> QED BY <2>1 DEF EvAttrs
<1>4. Hit(Part.attrs) = ObjectOf(Part)
  BY <1>1 DEF ObjectOf
<1>5. ObjectOf(Part) \in Worth(body) /\ out \in Seq(Worth(body))
  BY PartIs DEF Worth, Part, Collected
<1>6. ResultOf(body, Part) = IF ObjectOf(Part).name # "" THEN <<ObjectOf(Part)>> ELSE <<>>
  BY DEF ResultOf, IsReference
<1> QED BY <1>2, <1>3, <1>4, <1>5, <1>6, CollectIs

LEMMA ReferencesStep ==
    ASSUME DInv, ~AtEnd, body.form = "references", ReadReferences(Event),
           at' = NextPlace, body' = body, broken' = broken
    PROVE  DInv'
<1>1. PartsAre(body) /\ PlaceOK /\ Collected /\ Held /\ body \in Bodies /\ broken \in BOOLEAN
  BY BodiesAre DEF DInv
<1>2. IsReference(Part)
  BY <1>1, PartIs
<1>3. AtLone /\ out' = out \o ResultOf(body, Part) /\ reg' = reg
  BY <1>1, <1>2, ReferenceCollected DEF ReadReferences
<1>4. at'.part = at.part + 1
  BY <1>1, <1>3, EventHere, PlaceFields
<1>5. Collected' /\ PlaceOK'
  BY <1>1, <1>3, <1>4, CollectedNext, PlaceKept
<1>6. Held'
  BY <1>1, <1>3 DEF Held, RegistersOK, IsRegisters
<1> QED BY <1>1, <1>5, <1>6 DEF DInv

\* A field more.
LEMMA KeptMore ==
    ASSUME NEW p, IsNode(p), NEW n \in 1..Len(p.items), NEW tag, NEW v, NEW w,
           Kept(tag, v, p.items, n - 1),
           p.items[n].tag = tag => w = p.items[n].value,
           p.items[n].tag # tag => w = v
    PROVE  Kept(tag, w, p.items, n)
<1>1. n \in Nat /\ \A j \in 1..n : j = n \/ j \in 1..(n - 1)
  BY DEF IsNode
<1>2. CASE p.items[n].tag = tag
  <2>1. \A j \in 1..(n - 1) : p.items[j].tag # tag
    <3> TAKE j \in 1..(n - 1)
    <3>1. j \in 1..Len(p.items) /\ j # n
      BY <1>1 DEF IsNode
    <3> QED BY <3>1, <1>2 DEF IsNode
  <2>2. n \in 1..n
    BY <1>1
  <2> QED BY <1>1, <1>2, <2>1, <2>2 DEF Kept
<1>3. CASE p.items[n].tag # tag
  <2>1. \A j \in 1..(n - 1) : j \in 1..n
    BY <1>1
  <2> QED BY <1>1, <1>3, <2>1 DEF Kept
<1> QED BY <1>2, <1>3

LEMMA KeptEmpty ==
    ASSUME NEW p, IsNode(p), NEW n \in 1..Len(p.items), NEW tag, NEW v,
           Kept(tag, v, p.items, n - 1), p.items[n].value = ""
    PROVE  Kept(tag, v, p.items, n)
<1>0. Len(p.items) \in Nat /\ \A j \in 1..(n - 1) : j \in 1..Len(p.items) /\ j # n
  <2>1. ASSUME NEW m \in Nat, NEW k \in 1..m, NEW j \in 1..(k - 1) PROVE j \in 1..m /\ j # k
    BY ONLY m \in Nat, k \in 1..m, j \in 1..(k - 1)
  <2>2. Len(p.items) \in Nat
    BY DEF IsNode
  <2> QED BY <2>1, <2>2
<1>1. p.items[n].tag = tag => \A j \in 1..(n - 1) : p.items[j].tag # tag
  BY <1>0 DEF IsNode
<1>2. p.items[n].tag = tag => v = ""
  BY <1>1 DEF Kept
<1> QED BY <1>2, KeptMore

LEMMA KeptAll ==
    ASSUME NEW p, IsNode(p), NEW tag, NEW v, Kept(tag, v, p.items, Len(p.items))
    PROVE  v = ValueOf(p.items, tag)
<1>1. DOMAIN p.items = 1..Len(p.items)
  BY DEF IsNode
<1>2. CASE \E i \in 1..Len(p.items) : p.items[i].tag = tag
  <2> DEFINE i == CHOOSE i \in DOMAIN p.items : p.items[i].tag = tag
  <2>1. i \in DOMAIN p.items /\ p.items[i].tag = tag
    BY <1>1, <1>2
  <2>2. ValueOf(p.items, tag) = p.items[i].value
    BY <1>1, <1>2 DEF ValueOf
  <2> HIDE DEF i
  <2> QED BY <1>1, <2>1, <2>2 DEF Kept
<1>3. CASE ~\E i \in 1..Len(p.items) : p.items[i].tag = tag
  BY <1>1, <1>3 DEF Kept, ValueOf
<1> QED BY <1>2, <1>3

LEMMA FieldsEmpty ==
    ASSUME NEW p, IsNode(p), NEW n \in 1..Len(p.items), NEW r,
           KeptFields(r, p.items, n - 1), p.items[n].value = ""
    PROVE  KeptFields(r, p.items, n)
  BY KeptEmpty DEF KeptFields

LEMMA FieldsMore ==
    ASSUME NEW p, IsNode(p), NEW n \in 1..Len(p.items), NEW r, NEW q,
           KeptFields(r, p.items, n - 1),
           q.kind = IF p.items[n].tag = "OBJECT_TYPE" THEN p.items[n].value ELSE r.kind,
           q.name = IF p.items[n].tag = "OBJECT_NAME" THEN p.items[n].value ELSE r.name,
           q.desc = IF p.items[n].tag = "DESCRIPTION" THEN p.items[n].value ELSE r.desc
    PROVE  KeptFields(q, p.items, n)
<1>1. Kept("OBJECT_TYPE", q.kind, p.items, n)
  BY KeptMore DEF KeptFields
<1>2. Kept("OBJECT_NAME", q.name, p.items, n)
  BY KeptMore DEF KeptFields
<1>3. Kept("DESCRIPTION", q.desc, p.items, n)
  BY KeptMore DEF KeptFields
<1> QED BY <1>1, <1>2, <1>3 DEF KeptFields

LEMMA NodesAtReference ==
    ASSUME DInv, ~AtEnd, body.form = "nodes", ReadNodes(Event), IsReference(Part),
           at' = NextPlace, body' = body, broken' = broken
    PROVE  DInv'
<1>1. PartsAre(body) /\ PlaceOK /\ Collected /\ Held /\ body \in Bodies /\ broken \in BOOLEAN
  BY BodiesAre DEF DInv
<1>2. AtLone /\ Collect(Hit(Event.attrs)) = out \o ResultOf(body, Part)
  BY <1>1, ReferenceCollected
<1>3. Event = EvAttrs("empty", "objectReference", Part.attrs) /\ at' = Place(at.part + 1, 0, 1)
  BY <1>1, <1>2, EventHere, PartIs DEF IsReference, IsNode
<1>4. Event.ev = "empty" /\ Event.tag = "objectReference"
  BY <1>3 DEF EvAttrs
<1>5. out' = out \o ResultOf(body, Part) /\ reg' = reg
  BY <1>2, <1>4 DEF ReadNodes, NodeEmpty
<1>6. at'.part = at.part + 1 /\ at'.item = 0
  BY <1>3, PlaceFields
<1>7. Collected' /\ PlaceOK'
  BY <1>1, <1>5, <1>6, CollectedNext, PlaceKept
<1>8. Held'
  BY <1>1, <1>5, <1>6 DEF Held, RegistersOK, IsRegisters
<1> QED BY <1>1, <1>7, <1>8 DEF DInv

\* The registers of an object at a place of it.
HeldAt(r, items, i, e) ==
    /\ r.inNode
    /\ IF i <= Len(items) /\ e = 3 THEN KeptFields(r, items, i) ELSE KeptFields(r, items, i - 1)
    /\ i <= Len(items) /\ e = 2 => r.field = items[i].tag

LEMMA HeldNext ==
    ASSUME NEW r, NEW items, Len(items) \in Nat, NEW n \in Nat, r.inNode, KeptFields(r, items, n)
    PROVE  HeldAt(r, items, n + 1, 1)
<1>1. n + 1 - 1 = n
  OBVIOUS
<1>2. KeptFields(r, items, n + 1 - 1)
  BY <1>1
<1> QED BY <1>2 DEF HeldAt

\* A step within an object collects nothing.
LEMMA NodeGoesOn ==
    ASSUME DInv, ~AtEnd, body.form = "nodes", NEW i, NEW e,
           at' = NextPlace, at' = Place(at.part, i, e), body' = body, broken' = broken, out' = out,
           RegistersOK', HeldAt(reg', PartItems, i, e)
    PROVE  DInv'
<1>1. PartsAre(body) /\ PlaceOK /\ Collected /\ Held /\ body \in Bodies /\ broken \in BOOLEAN
  BY BodiesAre DEF DInv
<1>2. at'.part = at.part /\ at'.item = i /\ at'.event = e
  BY PlaceFields
<1>3. Collected' /\ PlaceOK'
  BY <1>1, <1>2, CollectedSame, PlaceKept
<1>4. PartItems' = PartItems
  BY <1>2 DEF Part, PartItems
<1>5. NodeHeld'
  BY <1>2, <1>4 DEF NodeHeld, HeldAt, KeptFields, Kept
<1>6. Held'
  BY <1>5 DEF Held
<1> QED BY <1>1, <1>3, <1>6 DEF DInv

LEMMA NodesAtStart ==
    ASSUME DInv, ~AtEnd, body.form = "nodes", ReadNodes(Event), IsNode(Part), AtStart,
           at' = NextPlace, body' = body, broken' = broken
    PROVE  DInv'
<1>1. PartsAre(body) /\ PlaceOK /\ RegistersOK
  BY BodiesAre DEF DInv, Held
<1>2. Event = Ev("start", "OBJ_NODE") /\ at' = Place(at.part, 1, 1)
  BY <1>1, EventHere DEF IsNode
<1>3. Event.ev = "start" /\ Event.tag = "OBJ_NODE"
  BY <1>2 DEF Ev
<1>4. reg' = [reg EXCEPT !.inNode = TRUE, !.name = "", !.kind = "", !.desc = ""] /\ out' = out
  BY <1>3 DEF ReadNodes, NodeStart
<1>5. RegistersOK' /\ reg'.inNode /\ reg'.name = "" /\ reg'.kind = "" /\ reg'.desc = ""
  BY <1>1, <1>4 DEF RegistersOK, IsRegisters
<1>6. KeptFields(reg', PartItems, 0)
  <2>1. \A j \in 1..0 : FALSE
    OBVIOUS
  <2> QED BY <1>5, <2>1 DEF KeptFields, Kept
<1>7. HeldAt(reg', PartItems, 0 + 1, 1)
  BY <1>1, <1>5, <1>6, PartIs, HeldNext
<1>8. HeldAt(reg', PartItems, 1, 1)
  BY <1>7
<1> QED BY <1>2, <1>4, <1>5, <1>8, NodeGoesOn

LEMMA NodesAtItem ==
    ASSUME DInv, ~AtEnd, body.form = "nodes", ReadNodes(Event), IsNode(Part), AtItem,
           at' = NextPlace, body' = body, broken' = broken
    PROVE  DInv'
<1> DEFINE x == PartItems[at.item]
           n == at.item
<1>1. PartsAre(body) /\ PlaceOK /\ RegistersOK /\ NodeHeld
  <2>1. PartsAre(body) /\ PlaceOK /\ RegistersOK /\ Collected
    BY BodiesAre DEF DInv, Held
  <2>2. ~broken /\ at.item > 0
    BY <2>1, PartIs DEF Collected, AtItem
  <2> QED BY <2>1, <2>2 DEF DInv, Held
<1>2. n \in 1..Len(PartItems) /\ n \in Nat /\ Len(PartItems) \in Nat /\ n <= Len(PartItems)
  BY <1>1, PartIs DEF AtItem
<1>3. /\ x \in Fields /\ x.tag \notin {"OBJ_NODE", "objectReference"}
      /\ x.shape \in {"text", "bare", "hollow"} /\ (x.shape # "text" => x.value = "")
  BY <1>2, FieldsAssumption DEF IsNode, PartItems
<1>4. /\ Event = ItemEvents(x)[at.event]
      /\ at.event < Len(ItemEvents(x)) => at' = Place(at.part, n, at.event + 1)
      /\ at.event = Len(ItemEvents(x)) => at' = Place(at.part, n + 1, 1)
  <2>1. Len(ItemEvents(x)) \in 1..3
    BY <1>2, ItemHasEvents
  <2> QED BY <1>1, <2>1, EventHere
<1>5. reg.inNode
  BY <1>1 DEF NodeHeld
<1>6. at.event # 3 => KeptFields(reg, PartItems, n - 1)
  BY <1>1 DEF NodeHeld
<1> HIDE DEF x, n
<1>10. CASE x.shape = "bare"
  <2>1. Len(ItemEvents(x)) = 1 /\ ItemEvents(x)[1] = Ev("empty", x.tag)
    BY <1>10, EventsOf
  <2>2. at.event = 1 /\ at' = Place(at.part, n + 1, 1) /\ Event = Ev("empty", x.tag)
    BY <1>4, <2>1 DEF AtItem, x
  <2>3. Event.ev = "empty" /\ Event.tag = x.tag
    BY <2>2 DEF Ev
  <2>4. reg' = reg /\ out' = out
    BY <1>3, <2>3 DEF ReadNodes, NodeEmpty
  <2>5. KeptFields(reg, PartItems, n)
    <3>1. KeptFields(reg, Part.items, n - 1) /\ n \in 1..Len(Part.items)
      BY <1>2, <1>6, <2>2 DEF PartItems
    <3>2. Part.items[n] = x /\ x.value = ""
      BY <1>3, <1>10 DEF x, n, PartItems
    <3>3. KeptFields(reg, Part.items, n)
      BY <3>1, <3>2, FieldsEmpty
    <3> QED BY <3>3 DEF PartItems
  <2>6. HeldAt(reg', PartItems, n + 1, 1)
    BY <1>2, <1>5, <2>4, <2>5, HeldNext
  <2>7. RegistersOK'
    BY <1>1, <2>4 DEF RegistersOK, IsRegisters
  <2> QED BY <2>2, <2>4, <2>6, <2>7, NodeGoesOn
<1>11. CASE x.shape \in {"text", "hollow"} /\ at.event = 1
  <2>1. 1 < Len(ItemEvents(x)) /\ ItemEvents(x)[1] = Ev("start", x.tag)
    <3>1. x.shape = "text" => Len(ItemEvents(x)) = 3 /\ ItemEvents(x)[1] = Ev("start", x.tag)
      BY EventsOf
    <3>2. x.shape = "hollow" => Len(ItemEvents(x)) = 2 /\ ItemEvents(x)[1] = Ev("start", x.tag)
      BY EventsOf
    <3> QED BY <1>11, <3>1, <3>2
  <2>2. at' = Place(at.part, n, 2) /\ Event = Ev("start", x.tag)
    BY <1>4, <1>11, <2>1
  <2>3. Event.ev = "start" /\ Event.tag = x.tag
    BY <2>2 DEF Ev
  <2>4. reg' = [reg EXCEPT !.field = x.tag] /\ out' = out
    BY <1>3, <1>5, <2>3 DEF ReadNodes, NodeStart
  <2>5. /\ RegistersOK' /\ reg'.inNode = reg.inNode /\ reg'.name = reg.name /\ reg'.kind = reg.kind
        /\ reg'.desc = reg.desc /\ reg'.field = x.tag
    BY <1>1, <2>4 DEF RegistersOK, IsRegisters
  <2>6. HeldAt(reg', PartItems, n, 2)
    BY <1>5, <1>6, <1>11, <2>5 DEF HeldAt, KeptFields, x, n
  <2> QED BY <2>2, <2>4, <2>5, <2>6, NodeGoesOn
<1>12. CASE x.shape = "hollow" /\ at.event # 1
  <2>1. Len(ItemEvents(x)) = 2 /\ ItemEvents(x)[2] = Ev("end", x.tag)
    BY <1>12, EventsOf
  <2>2. at.event = 2 /\ at' = Place(at.part, n + 1, 1) /\ Event = Ev("end", x.tag)
    BY <1>4, <1>12, <2>1 DEF AtItem, x
  <2>3. Event.ev = "end" /\ Event.tag = x.tag
    BY <2>2 DEF Ev
  <2>4. reg' = [reg EXCEPT !.field = "none"] /\ out' = out
    BY <1>3, <2>3 DEF ReadNodes, NodeEnd
  <2>5. /\ RegistersOK' /\ reg'.inNode = reg.inNode /\ reg'.name = reg.name /\ reg'.kind = reg.kind
        /\ reg'.desc = reg.desc
    BY <1>1, <2>4 DEF RegistersOK, IsRegisters
  <2>6. KeptFields(reg, PartItems, n)
    <3>1. KeptFields(reg, Part.items, n - 1) /\ n \in 1..Len(Part.items)
      BY <1>2, <1>6, <2>2 DEF PartItems
    <3>2. Part.items[n] = x /\ x.value = ""
      BY <1>3, <1>12 DEF x, n, PartItems
    <3>3. KeptFields(reg, Part.items, n)
      BY <3>1, <3>2, FieldsEmpty
    <3> QED BY <3>3 DEF PartItems
  <2>7. HeldAt(reg', PartItems, n + 1, 1)
    <3>1. KeptFields(reg', PartItems, n)
      BY <2>5, <2>6 DEF KeptFields
    <3> QED BY <1>2, <1>5, <2>5, <3>1, HeldNext
  <2> QED BY <2>2, <2>4, <2>5, <2>7, NodeGoesOn
<1>13. CASE x.shape = "text" /\ at.event = 2
  <2>1. Len(ItemEvents(x)) = 3 /\ ItemEvents(x)[2] = EvText(x.value)
    BY <1>13, EventsOf
  <2>2. at' = Place(at.part, n, 3) /\ Event = EvText(x.value)
    BY <1>4, <1>13, <2>1
  <2>3. Event.ev = "text" /\ Event.text = x.value
    BY <2>2 DEF EvText
  <2>4. NodeText(Event)
    BY <2>3 DEF ReadNodes
  <2>5. reg.field = x.tag
    BY <1>1, <1>2, <1>13 DEF NodeHeld, x, n
  <2>6. /\ reg' = IF x.tag = "OBJECT_TYPE" THEN [reg EXCEPT !.kind = x.value]
                  ELSE IF x.tag = "OBJECT_NAME" THEN [reg EXCEPT !.name = x.value]
                  ELSE IF x.tag = "DESCRIPTION" THEN [reg EXCEPT !.desc = x.value]
                  ELSE reg
        /\ out' = out
    BY <1>5, <2>3, <2>4, <2>5 DEF NodeText
  <2>7. /\ RegistersOK' /\ reg'.inNode = reg.inNode
        /\ reg'.kind = IF x.tag = "OBJECT_TYPE" THEN x.value ELSE reg.kind
        /\ reg'.name = IF x.tag = "OBJECT_NAME" THEN x.value ELSE reg.name
        /\ reg'.desc = IF x.tag = "DESCRIPTION" THEN x.value ELSE reg.desc
    BY <1>1, <2>6 DEF RegistersOK, IsRegisters
  <2>8. KeptFields(reg', PartItems, n)
    <3>1. KeptFields(reg, Part.items, n - 1) /\ n \in 1..Len(Part.items) /\ Part.items[n] = x
      BY <1>2, <1>6, <1>13 DEF x, n, PartItems
    <3>2. KeptFields(reg', Part.items, n)
      BY <2>7, <3>1, FieldsMore
    <3> QED BY <3>2 DEF PartItems
  <2>9. HeldAt(reg', PartItems, n, 3)
    BY <1>2, <1>5, <2>7, <2>8 DEF HeldAt
  <2> QED BY <2>2, <2>6, <2>7, <2>9, NodeGoesOn
<1>14. CASE x.shape = "text" /\ at.event \notin {1, 2}
  <2>1. Len(ItemEvents(x)) = 3 /\ ItemEvents(x)[3] = Ev("end", x.tag)
    BY <1>14, EventsOf
  <2>2. at.event = 3 /\ at' = Place(at.part, n + 1, 1) /\ Event = Ev("end", x.tag)
    BY <1>4, <1>14, <2>1 DEF AtItem, x
  <2>3. Event.ev = "end" /\ Event.tag = x.tag
    BY <2>2 DEF Ev
  <2>4. reg' = [reg EXCEPT !.field = "none"] /\ out' = out
    BY <1>3, <2>3 DEF ReadNodes, NodeEnd
  <2>5. /\ RegistersOK' /\ reg'.inNode = reg.inNode /\ reg'.name = reg.name /\ reg'.kind = reg.kind
        /\ reg'.desc = reg.desc
    BY <1>1, <2>4 DEF RegistersOK, IsRegisters
  <2>6. KeptFields(reg, PartItems, n)
    BY <1>1, <1>2, <2>2 DEF NodeHeld, n
  <2>7. HeldAt(reg', PartItems, n + 1, 1)
    <3>1. KeptFields(reg', PartItems, n)
      BY <2>5, <2>6 DEF KeptFields
    <3> QED BY <1>2, <1>5, <2>5, <3>1, HeldNext
  <2> QED BY <2>2, <2>4, <2>5, <2>7, NodeGoesOn
<1> QED BY <1>3, <1>10, <1>11, <1>12, <1>13, <1>14

LEMMA NodesAtClose ==
    ASSUME DInv, ~AtEnd, body.form = "nodes", ReadNodes(Event), IsNode(Part), AtClose,
           at' = NextPlace, body' = body, broken' = broken
    PROVE  DInv'
<1> DEFINE h == [name |-> reg.name, kind |-> MapKind(reg.kind), desc |-> reg.desc]
<1>1. PartsAre(body) /\ PlaceOK /\ RegistersOK /\ NodeHeld /\ Collected
  <2>1. PartsAre(body) /\ PlaceOK /\ RegistersOK /\ Collected
    BY BodiesAre DEF DInv, Held
  <2>2. ~broken /\ at.item > 0
    BY <2>1, PartIs DEF Collected, AtClose
  <2> QED BY <2>1, <2>2 DEF DInv, Held
<1>2. Event = Ev("end", "OBJ_NODE") /\ at' = Place(at.part + 1, 0, 1)
  BY <1>1, EventHere DEF IsNode
<1>3. Event.ev = "end" /\ Event.tag = "OBJ_NODE"
  BY <1>2 DEF Ev
<1>4. NodeEnd(Event)
  BY <1>3 DEF ReadNodes
<1>5. reg.inNode /\ KeptFields(reg, Part.items, Len(Part.items))
  <2>1. Len(PartItems) \in Nat /\ at.item = Len(PartItems) + 1
    BY <1>1, PartIs DEF AtClose
  <2>2. ~(at.item <= Len(PartItems)) /\ at.item - 1 = Len(PartItems)
    BY <2>1
  <2> QED BY <1>1, <2>2 DEF NodeHeld, PartItems
<1>6. out' = Collect(h) /\ RegistersOK'
  <2>1. out' = Collect(h)
    BY <1>3, <1>4, <1>5 DEF NodeEnd
  <2>2. RegistersOK'
    BY <1>1, <1>3, <1>4 DEF NodeEnd, RegistersOK, IsRegisters
  <2> QED BY <2>1, <2>2
<1>7. h = ObjectOf(Part)
  <2>1. /\ reg.name = ValueOf(Part.items, "OBJECT_NAME")
        /\ reg.kind = ValueOf(Part.items, "OBJECT_TYPE")
        /\ reg.desc = ValueOf(Part.items, "DESCRIPTION")
    BY <1>5, KeptAll DEF KeptFields
  <2> QED BY <2>1 DEF ObjectOf, IsNode, IsLone
<1> HIDE DEF h
<1>8. ObjectOf(Part) \in Worth(body) /\ out \in Seq(Worth(body))
  BY <1>1, PartIs DEF Worth, Part, Collected
<1>9. ResultOf(body, Part) = IF ObjectOf(Part).name # "" THEN <<ObjectOf(Part)>> ELSE <<>>
  BY DEF ResultOf, IsNode
<1>10. out' = out \o ResultOf(body, Part)
  BY <1>6, <1>7, <1>8, <1>9, CollectIs
<1>11. at'.part = at.part + 1 /\ at'.item = 0
  BY <1>2, PlaceFields
<1>12. Collected' /\ PlaceOK'
  BY <1>1, <1>10, <1>11, CollectedNext, PlaceKept
<1>13. Held'
  BY <1>6, <1>11 DEF Held
<1> QED BY <1>12, <1>13 DEF DInv

LEMMA NodesStep ==
    ASSUME DInv, ~AtEnd, body.form = "nodes", ReadNodes(Event),
           at' = NextPlace, body' = body, broken' = broken
    PROVE  DInv'
<1>1. PartsAre(body) /\ PlaceOK
  BY BodiesAre DEF DInv
<1>2. IsNode(Part) \/ IsReference(Part)
  BY <1>1, PartIs
<1>3. IsNode(Part) => AtStart \/ AtItem \/ AtClose
  BY <1>1, Whereabouts DEF AtLone, IsLone, IsNode
<1> QED BY <1>2, <1>3, NodesAtReference, NodesAtStart, NodesAtItem, NodesAtClose

-----------------------------------------------------------------------------
(* The data preview.                                                       *)

LEMMA CellPut ==
    ASSUME NEW r, NEW items, NEW n \in 1..Len(items), NEW C \in Nat, Len(items) \in Nat,
           IsRegisters(r), r.columns = C, RowSoFar(r, items, n - 1, C)
    PROVE  LET q == NextCell(PutCell(r, items[n].value)) IN
           IsRegisters(q) /\ q.columns = C /\ RowSoFar(q, items, n, C)
<1> DEFINE v == items[n].value
           row == [c \in DOMAIN r.row \cup {r.cell + 1} |-> IF c = r.cell + 1 THEN v ELSE r.row[c]]
           p == PutCell(r, v)
           q == NextCell(p)
<1>0. n \in Nat /\ n - 1 \in Nat /\ n <= Len(items)
  OBVIOUS
<1>1. r.cell \in Nat /\ r.row = Filled(items, n - 1, C) /\ r.inRow
      /\ (IF n - 1 <= C THEN r.cell = n - 1 ELSE r.cell >= C)
  BY DEF RowSoFar, Counted
<1>2. CASE n <= C
  <2>1. r.cell = n - 1 /\ r.cell < r.columns /\ r.cell + 1 = n
    BY <1>0, <1>1, <1>2
  <2>2. p = [r EXCEPT !.row = row]
    BY <2>1 DEF PutCell
  <2>3. row = Filled(items, n, C)
    <3>1. DOMAIN r.row = {j \in 1..Len(items) : j <= n - 1 /\ j <= C}
      BY <1>1 DEF Filled
    <3>2. DOMAIN r.row \cup {r.cell + 1} = {j \in 1..Len(items) : j <= n /\ j <= C}
      BY <1>0, <1>2, <2>1, <3>1
    <3>3. \A j \in {j \in 1..Len(items) : j <= n /\ j <= C} :
             (IF j = r.cell + 1 THEN v ELSE r.row[j]) = items[j].value
      <4> TAKE j \in {j \in 1..Len(items) : j <= n /\ j <= C}
      <4>1. CASE j = n
        BY <2>1, <4>1
      <4>2. CASE j # n
        <5>1. j \in {k \in 1..Len(items) : k <= n - 1 /\ k <= C} /\ j # r.cell + 1
          BY <1>0, <2>1, <4>2
        <5>2. r.row[j] = items[j].value
          BY <1>1, <5>1 DEF Filled
        <5> QED BY <5>1, <5>2
      <4> QED BY <4>1, <4>2
    <3> QED BY <3>2, <3>3 DEF Filled
  <2> HIDE DEF row, p, v
  <2>4. /\ IsRegisters(p) /\ p.row = row /\ p.cell = r.cell /\ p.columns = r.columns /\ p.inRow = r.inRow
    BY <2>2 DEF IsRegisters
  <2>5. IsRegisters(q) /\ q.row = row /\ q.cell = r.cell + 1 /\ q.columns = r.columns /\ q.inRow = r.inRow
    BY <2>4 DEF NextCell, IsRegisters
  <2>6. Counted(q, n, C)
    BY <1>0, <1>2, <2>1, <2>5 DEF Counted
  <2> HIDE DEF q
  <2>7. IsRegisters(q) /\ q.columns = C /\ RowSoFar(q, items, n, C)
    BY <1>1, <2>3, <2>5, <2>6 DEF RowSoFar
  <2> QED BY <2>7 DEF q, p, v
<1>3. CASE ~(n <= C)
  <2>1. r.cell >= C /\ ~(r.cell < r.columns)
    BY <1>0, <1>1, <1>3
  <2>2. p = r
    BY <2>1 DEF PutCell
  <2>3. Filled(items, n, C) = Filled(items, n - 1, C)
    <3>1. {j \in 1..Len(items) : j <= n /\ j <= C} = {j \in 1..Len(items) : j <= n - 1 /\ j <= C}
      BY <1>0, <1>3
    <3> QED BY <3>1 DEF Filled
  <2> HIDE DEF p
  <2>5. IsRegisters(q) /\ q.row = r.row /\ q.cell = r.cell + 1 /\ q.columns = r.columns /\ q.inRow = r.inRow
    BY <2>2 DEF NextCell, IsRegisters
  <2>6. Counted(q, n, C)
    BY <1>0, <1>1, <1>3, <2>1, <2>5 DEF Counted
  <2> HIDE DEF q
  <2>7. IsRegisters(q) /\ q.columns = C /\ RowSoFar(q, items, n, C)
    BY <1>1, <2>3, <2>5, <2>6 DEF RowSoFar
  <2> QED BY <2>7 DEF q, p, v
<1> QED BY <1>2, <1>3

\* Without a column left a cell may also be passed over.
LEMMA CellBeyond ==
    ASSUME NEW r, NEW items, NEW n \in 1..Len(items), NEW C \in Nat, Len(items) \in Nat,
           r.columns = C, RowSoFar(r, items, n - 1, C), ~(r.cell < r.columns)
    PROVE  RowSoFar(r, items, n, C)
<1>0. n \in Nat /\ n - 1 \in Nat /\ n <= Len(items)
  OBVIOUS
<1>1. r.cell \in Nat /\ r.row = Filled(items, n - 1, C) /\ r.inRow
      /\ (IF n - 1 <= C THEN r.cell = n - 1 ELSE r.cell >= C)
  BY DEF RowSoFar, Counted
<1>2. r.cell >= C /\ ~(n <= C)
  BY <1>0, <1>1
<1>3. {j \in 1..Len(items) : j <= n /\ j <= C} = {j \in 1..Len(items) : j <= n - 1 /\ j <= C}
  BY <1>0, <1>2
<1>4. r.row = Filled(items, n, C)
  BY <1>1, <1>3 DEF Filled
<1> QED BY <1>1, <1>2, <1>4 DEF RowSoFar, Counted

LEMMA RowAtNext ==
    ASSUME NEW r, NEW items, Len(items) \in Nat, NEW n \in Nat, NEW C, RowSoFar(r, items, n, C)
    PROVE  RowAt(r, items, n + 1, 1, C)
<1>1. n + 1 - 1 = n
  OBVIOUS
<1>2. RowSoFar(r, items, n + 1 - 1, C)
  BY <1>1
<1> QED BY <1>2 DEF RowAt

\* A step within a row collects nothing.
LEMMA RowGoesOn ==
    ASSUME DInv, ~AtEnd, body.form = "preview", IsRow(Part), NEW i, NEW e,
           at' = NextPlace, at' = Place(at.part, i, e), body' = body, broken' = broken, out' = out,
           RegistersOK', reg'.columns = body.columns, RowAt(reg', PartItems, i, e, body.columns)
    PROVE  DInv'
<1>1. PartsAre(body) /\ PlaceOK /\ Collected /\ Held /\ body \in Bodies /\ broken \in BOOLEAN
  BY BodiesAre DEF DInv
<1>2. at'.part = at.part /\ at'.item = i /\ at'.event = e
  BY PlaceFields
<1>3. Collected' /\ PlaceOK'
  BY <1>1, <1>2, CollectedSame, PlaceKept
<1>4. PartItems' = PartItems
  BY <1>2 DEF Part, PartItems
<1>5. RowHeld'
  BY <1>2, <1>4 DEF RowHeld, RowAt, RowSoFar, Counted, Filled
<1>6. ColumnsHeld'
  <2>1. ~(at.part <= body.columns)
    BY <1>1, PartIs DEF IsColumn, IsRow
  <2> QED BY <1>2, <2>1 DEF ColumnsHeld
<1>7. Held'
  BY <1>5, <1>6 DEF Held
<1> QED BY <1>1, <1>3, <1>7 DEF DInv

LEMMA PreviewAtColumn ==
    ASSUME DInv, ~AtEnd, body.form = "preview", ReadPreview(Event), IsColumn(Part),
           at' = NextPlace, body' = body, broken' = broken
    PROVE  DInv'
<1>1. PartsAre(body) /\ PlaceOK /\ Collected /\ Held /\ body \in Bodies /\ broken \in BOOLEAN
  BY BodiesAre DEF DInv
<1>2. AtLone
  BY <1>1, Whereabouts DEF AtLone, AtStart, AtItem, AtClose, IsLone, IsColumn
<1>3. /\ Event = EvAttrs(Part.ev, "metadata", [name |-> "c"]) /\ Part.ev \in {"empty", "start"}
      /\ at' = Place(at.part + 1, 0, 1)
  BY <1>1, <1>2, EventHere DEF IsColumn
<1>4. Event.ev \in {"empty", "start"} /\ Event.tag = "metadata" /\ "name" \in DOMAIN Event.attrs
  BY <1>3 DEF EvAttrs
<1>5. reg' = [reg EXCEPT !.columns = @ + 1] /\ out' = out
  BY <1>4 DEF ReadPreview, PreviewEmpty, PreviewStart, NewColumn
<1>6. at'.part = at.part + 1 /\ at'.item = 0
  BY <1>3, PlaceFields
<1>7. out' = out \o ResultOf(body, Part)
  <2>1. ResultOf(body, Part) = <<>>
    BY DEF ResultOf, IsColumn
  <2>2. out \in Seq(Worth(body))
    BY <1>1 DEF Collected
  <2>3. out \o <<>> = out
    BY <2>2
  <2> QED BY <1>5, <2>1, <2>3
<1>8. Collected' /\ PlaceOK'
  BY <1>1, <1>6, <1>7, CollectedNext, PlaceKept
<1>9. RegistersOK' /\ reg'.columns = reg.columns + 1
  BY <1>1, <1>5 DEF Held, RegistersOK, IsRegisters
<1>10. ColumnsHeld'
  <2>1. at.part <= body.columns /\ body.columns \in Nat /\ at.part \in Nat
    BY <1>1, PartIs DEF IsColumn, IsRow
  <2>2. ~broken
    BY <1>1 DEF Collected
  <2>3. reg.columns = at.part - 1
    BY <1>1, <2>1, <2>2 DEF Held, ColumnsHeld
  <2>4. reg'.columns = at.part
    BY <1>9, <2>1, <2>3
  <2> QED BY <1>6, <2>1, <2>4 DEF ColumnsHeld
<1>11. Held'
  BY <1>6, <1>9, <1>10 DEF Held
<1> QED BY <1>1, <1>8, <1>11 DEF DInv

\* Where a row is read, all columns are known.
LEMMA RowKnown ==
    ASSUME DInv, ~AtEnd, body.form = "preview", IsRow(Part)
    PROVE  /\ PartsAre(body) /\ PlaceOK /\ RegistersOK /\ IsRegisters(reg) /\ Collected
           /\ body.columns \in Nat /\ Len(PartItems) \in Nat /\ reg.columns = body.columns
           /\ at.item \in Nat /\ (at.item > 0 => RowHeld)
<1>1. PartsAre(body) /\ PlaceOK /\ RegistersOK /\ IsRegisters(reg) /\ Collected /\ Held
  BY BodiesAre DEF DInv, Held, RegistersOK
<1>2. ~broken
  BY <1>1 DEF Collected
<1>3. body.columns \in Nat /\ Len(PartItems) \in Nat /\ ~(at.part <= body.columns)
  BY <1>1, PartIs DEF IsColumn, IsRow
<1>4. ColumnsHeld /\ (at.item > 0 => RowHeld)
  BY <1>1, <1>2 DEF Held
<1>5. at.item \in Nat
  BY <1>1 DEF PlaceOK
<1> QED BY <1>1, <1>3, <1>4, <1>5 DEF ColumnsHeld

LEMMA PreviewAtStart ==
    ASSUME DInv, ~AtEnd, body.form = "preview", ReadPreview(Event), IsRow(Part), AtStart,
           at' = NextPlace, body' = body, broken' = broken
    PROVE  DInv'
<1>1. /\ PartsAre(body) /\ PlaceOK /\ IsRegisters(reg) /\ reg.columns = body.columns
      /\ body.columns \in Nat /\ Len(PartItems) \in Nat
  BY RowKnown
<1>2. Event = Ev("start", "row") /\ at' = Place(at.part, 1, 1)
  BY <1>1, EventHere DEF IsRow
<1>3. Event.ev = "start" /\ Event.tag = "row"
  BY <1>2 DEF Ev
<1>4. reg' = [reg EXCEPT !.inRow = TRUE, !.cell = 0, !.row = <<>>] /\ out' = out
  BY <1>3 DEF ReadPreview, PreviewStart, NewColumn
<1>5. /\ IsRegisters(reg') /\ reg'.inRow /\ reg'.cell = 0 /\ reg'.row = <<>>
      /\ reg'.columns = body.columns
  BY <1>1, <1>4 DEF IsRegisters
<1>6. <<>> = Filled(PartItems, 0, body.columns)
  <2>1. {j \in 1..Len(PartItems) : j <= 0 /\ j <= body.columns} = {}
    BY <1>1
  <2>2. Filled(PartItems, 0, body.columns) = [j \in {} |-> PartItems[j].value]
    BY <2>1 DEF Filled
  <2> QED BY <2>2
<1>7. RowSoFar(reg', PartItems, 0, body.columns)
  BY <1>1, <1>5, <1>6 DEF RowSoFar, Counted
<1>8. RowAt(reg', PartItems, 0 + 1, 1, body.columns)
  BY <1>1, <1>7, RowAtNext
<1>9. RowAt(reg', PartItems, 1, 1, body.columns) /\ RegistersOK'
  BY <1>5, <1>8 DEF RegistersOK
<1> QED BY <1>2, <1>4, <1>5, <1>9, RowGoesOn

LEMMA PreviewAtItem ==
    ASSUME DInv, ~AtEnd, body.form = "preview", ReadPreview(Event), IsRow(Part), AtItem,
           at' = NextPlace, body' = body, broken' = broken
    PROVE  DInv'
<1> DEFINE x == PartItems[at.item]
           n == at.item
           C == body.columns
<1>1. /\ PartsAre(body) /\ PlaceOK /\ IsRegisters(reg) /\ reg.columns = C
      /\ C \in Nat /\ Len(PartItems) \in Nat /\ n \in Nat
  BY RowKnown
<1>2. n \in 1..Len(PartItems) /\ n <= Len(PartItems) /\ n > 0
  BY <1>1 DEF AtItem
<1>3. RowSoFar(reg, PartItems, n - 1, C) /\ reg.inRow
  BY <1>2, RowKnown DEF RowHeld, RowAt, RowSoFar
<1>4. /\ x.tag = "cell" /\ x.shape \in {"attribute", "opened", "text", "bare", "hollow"}
      /\ x.shape = "text" => x.value # ""
      /\ x.shape \in {"bare", "hollow"} => x.value = ""
  BY <1>2, CellsAssumption DEF IsRow, PartItems
<1>5. /\ Event = ItemEvents(x)[at.event]
      /\ at.event < Len(ItemEvents(x)) => at' = Place(at.part, n, at.event + 1)
      /\ at.event = Len(ItemEvents(x)) => at' = Place(at.part, n + 1, 1)
      /\ at.event \in 1..Len(ItemEvents(x))
  <2>1. Len(ItemEvents(x)) \in 1..3
    BY <1>2, ItemHasEvents
  <2> QED BY <1>1, <2>1, EventHere DEF AtItem
<1>6. at.event >= 2 => reg.inCell /\ (at.event = 3 \/ x.shape # "text" => reg.text = x.value)
  BY <1>2, RowKnown DEF RowHeld, RowAt
\* A cell is done.
<1>7. ASSUME at' = Place(at.part, n + 1, 1), out' = out,
             IsRegisters(reg'), reg'.columns = C, RowSoFar(reg', PartItems, n, C)
      PROVE  DInv'
  <2>1. RowAt(reg', PartItems, n + 1, 1, C)
    BY <1>1, <1>7, RowAtNext
  <2> QED BY <1>7, <2>1, RowGoesOn DEF RegistersOK
\* A cell has begun, or its text was read.
<1>8. ASSUME NEW e \in {2, 3}, at' = Place(at.part, n, e), out' = out,
             IsRegisters(reg'), reg'.columns = reg.columns, reg'.inRow = reg.inRow,
             reg'.cell = reg.cell, reg'.row = reg.row, reg'.inCell,
             e = 3 \/ x.shape # "text" => reg'.text = x.value
      PROVE  DInv'
  <2>1. RowSoFar(reg', PartItems, n - 1, C)
    BY <1>3, <1>8 DEF RowSoFar, Counted
  <2>2. RowAt(reg', PartItems, n, e, C)
    BY <1>8, <2>1 DEF RowAt
  <2> QED BY <1>1, <1>8, <2>2, RowGoesOn DEF RegistersOK
<1>9. LET q == NextCell(PutCell(reg, x.value)) IN
      IsRegisters(q) /\ q.columns = C /\ RowSoFar(q, PartItems, n, C)
  BY <1>1, <1>2, <1>3, CellPut
\* An end tag puts the text where it belongs.
<1>10. ASSUME at' = Place(at.part, n + 1, 1), Event = Ev("end", x.tag), reg.inCell, reg.text = x.value
       PROVE  DInv'
  <2> DEFINE q == NextCell(PutCell(reg, x.value))
  <2>1. Event.ev = "end" /\ Event.tag = "cell"
    BY <1>4, <1>10 DEF Ev
  <2>2. reg' = [NextCell(PutCell(reg, reg.text)) EXCEPT !.inCell = FALSE] /\ out' = out
    BY <1>10, <2>1 DEF ReadPreview, PreviewEnd
  <2>3. reg' = [q EXCEPT !.inCell = FALSE]
    BY <1>10, <2>2
  <2>4. IsRegisters(q) /\ q.columns = C /\ RowSoFar(q, PartItems, n, C)
    BY <1>9
  <2> HIDE DEF q
  <2>5. /\ IsRegisters(reg') /\ reg'.columns = q.columns /\ reg'.inRow = q.inRow
        /\ reg'.cell = q.cell /\ reg'.row = q.row
    BY <2>3, <2>4 DEF IsRegisters
  <2>6. RowSoFar(reg', PartItems, n, C)
    BY <2>4, <2>5 DEF RowSoFar, Counted
  <2> QED BY <1>7, <1>10, <2>2, <2>4, <2>5, <2>6
<1> HIDE DEF x, n, C
<1>11. CASE x.shape = "attribute"
  <2>1. Len(ItemEvents(x)) = 1 /\ ItemEvents(x)[1] = EvAttrs("empty", x.tag, [value |-> x.value])
    BY <1>11, EventsOf
  <2>2. at.event = 1 /\ at' = Place(at.part, n + 1, 1) /\ Event = EvAttrs("empty", x.tag, [value |-> x.value])
    BY <1>5, <2>1
  <2>3. Event.ev = "empty" /\ Event.tag = "cell" /\ Event.attrs = [value |-> x.value]
    BY <1>4, <2>2 DEF EvAttrs
  <2>4. EmptyCell(Event.attrs) = NextCell(PutCell(reg, x.value))
    BY <2>3 DEF EmptyCell
  <2>5. reg' = EmptyCell(Event.attrs) /\ out' = out
    BY <2>3 DEF ReadPreview, PreviewEmpty, NewColumn
  <2> QED BY <1>7, <1>9, <2>2, <2>4, <2>5
<1>12. CASE x.shape = "bare"
  <2>1. Len(ItemEvents(x)) = 1 /\ ItemEvents(x)[1] = Ev("empty", x.tag)
    BY <1>12, EventsOf
  <2>2. at.event = 1 /\ at' = Place(at.part, n + 1, 1) /\ Event = Ev("empty", x.tag)
    BY <1>5, <2>1
  <2>3. Event.ev = "empty" /\ Event.tag = "cell" /\ Event.attrs = <<>>
    BY <1>4, <2>2 DEF Ev
  <2>4. "value" \notin DOMAIN Event.attrs
    BY <2>3
  <2>5. EmptyCell(Event.attrs) = IF reg.cell < reg.columns THEN NextCell(PutCell(reg, x.value)) ELSE reg
    BY <1>4, <1>12, <2>4 DEF EmptyCell
  <2>6. reg' = EmptyCell(Event.attrs) /\ out' = out
    BY <2>3 DEF ReadPreview, PreviewEmpty, NewColumn
  <2>7. ~(reg.cell < reg.columns) => RowSoFar(reg, PartItems, n, C)
    BY <1>1, <1>2, <1>3, CellBeyond
  <2> QED BY <1>1, <1>7, <1>9, <2>2, <2>5, <2>6, <2>7
<1>13. CASE x.shape \in {"opened", "hollow", "text"} /\ at.event = 1
  <2>1. /\ 1 < Len(ItemEvents(x))
        /\ \E a : /\ ItemEvents(x)[1] = EvAttrs("start", x.tag, a)
                  /\ x.shape = "opened" => a = [value |-> x.value]
                  /\ x.shape # "opened" => a = <<>>
    <3>1. x.shape = "opened" => /\ Len(ItemEvents(x)) = 2
                                /\ ItemEvents(x)[1] = EvAttrs("start", x.tag, [value |-> x.value])
      BY EventsOf
    <3>2. x.shape = "hollow" => Len(ItemEvents(x)) = 2 /\ ItemEvents(x)[1] = Ev("start", x.tag)
      BY EventsOf
    <3>3. x.shape = "text" => Len(ItemEvents(x)) = 3 /\ ItemEvents(x)[1] = Ev("start", x.tag)
      BY EventsOf
    <3>4. Ev("start", x.tag) = EvAttrs("start", x.tag, <<>>)
      BY DEF Ev, EvAttrs
    <3>5. 1 < Len(ItemEvents(x))
      BY <1>13, <3>1, <3>2, <3>3
    <3> QED BY <1>13, <3>1, <3>2, <3>3, <3>4, <3>5
  <2>2. PICK a : /\ ItemEvents(x)[1] = EvAttrs("start", x.tag, a)
                 /\ x.shape = "opened" => a = [value |-> x.value]
                 /\ x.shape # "opened" => a = <<>>
    BY <2>1
  <2>3. at' = Place(at.part, n, 2) /\ Event = EvAttrs("start", x.tag, a)
    BY <1>5, <1>13, <2>1, <2>2
  <2>4. Event.ev = "start" /\ Event.tag = "cell" /\ Event.attrs = a
    BY <1>4, <2>3 DEF EvAttrs
  <2>5. reg' = [reg EXCEPT !.inCell = TRUE, !.text = Attr(a, "value")] /\ out' = out
    BY <1>3, <2>4 DEF ReadPreview, PreviewStart, NewColumn
  <2>6. x.shape # "text" => Attr(a, "value") = x.value
    <3>1. x.shape = "opened" => Attr(a, "value") = x.value
      BY <2>2 DEF Attr
    <3>2. x.shape = "hollow" => Attr(a, "value") = x.value
      <4>1. x.shape = "hollow" => a = <<>> /\ x.value = ""
        BY <1>4, <2>2
      <4>2. Attr(<<>>, "value") = ""
        BY DEF Attr
      <4> QED BY <4>1, <4>2
    <3> QED BY <1>13, <3>1, <3>2
  <2>7. /\ IsRegisters(reg') /\ reg'.columns = reg.columns /\ reg'.inRow = reg.inRow
        /\ reg'.cell = reg.cell /\ reg'.row = reg.row /\ reg'.inCell /\ reg'.text = Attr(a, "value")
    BY <1>1, <2>5 DEF IsRegisters
  <2> QED BY <1>8, <2>3, <2>5, <2>6, <2>7
<1>14. CASE x.shape \in {"opened", "hollow"} /\ at.event # 1
  <2>1. Len(ItemEvents(x)) = 2 /\ ItemEvents(x)[2] = Ev("end", x.tag)
    <3>1. x.shape = "opened" => Len(ItemEvents(x)) = 2 /\ ItemEvents(x)[2] = Ev("end", x.tag)
      BY EventsOf
    <3>2. x.shape = "hollow" => Len(ItemEvents(x)) = 2 /\ ItemEvents(x)[2] = Ev("end", x.tag)
      BY EventsOf
    <3> QED BY <1>14, <3>1, <3>2
  <2>2. at.event = 2 /\ at' = Place(at.part, n + 1, 1) /\ Event = Ev("end", x.tag)
    BY <1>5, <1>14, <2>1
  <2>3. reg.inCell /\ reg.text = x.value
    BY <1>6, <1>14, <2>2
  <2> QED BY <1>10, <2>2, <2>3
<1>15. CASE x.shape = "text" /\ at.event = 2
  <2>1. Len(ItemEvents(x)) = 3 /\ ItemEvents(x)[2] = EvText(x.value)
    BY <1>15, EventsOf
  <2>2. at' = Place(at.part, n, 3) /\ Event = EvText(x.value)
    BY <1>5, <1>15, <2>1
  <2>3. Event.ev = "text" /\ Event.text = x.value
    BY <2>2 DEF EvText
  <2>4. reg.inCell
    BY <1>6, <1>15
  <2>5. reg' = [reg EXCEPT !.text = x.value] /\ out' = out
    BY <1>4, <1>15, <2>3, <2>4 DEF ReadPreview, PreviewText
  <2>6. /\ IsRegisters(reg') /\ reg'.columns = reg.columns /\ reg'.inRow = reg.inRow
        /\ reg'.cell = reg.cell /\ reg'.row = reg.row /\ reg'.inCell = reg.inCell /\ reg'.text = x.value
    BY <1>1, <2>5 DEF IsRegisters
  <2> QED BY <1>8, <2>2, <2>4, <2>5, <2>6
<1>16. CASE x.shape = "text" /\ at.event \notin {1, 2}
  <2>1. Len(ItemEvents(x)) = 3 /\ ItemEvents(x)[3] = Ev("end", x.tag)
    BY <1>16, EventsOf
  <2>2. at.event = 3 /\ at' = Place(at.part, n + 1, 1) /\ Event = Ev("end", x.tag)
    BY <1>5, <1>16, <2>1
  <2>3. reg.inCell /\ reg.text = x.value
    BY <1>6, <1>16, <2>2
  <2> QED BY <1>10, <2>2, <2>3
<1> QED BY <1>4, <1>11, <1>12, <1>13, <1>14, <1>15, <1>16

LEMMA PreviewAtClose ==
    ASSUME DInv, ~AtEnd, body.form = "preview", ReadPreview(Event), IsRow(Part), AtClose,
           at' = NextPlace, body' = body, broken' = broken
    PROVE  DInv'
<1>1. /\ PartsAre(body) /\ PlaceOK /\ IsRegisters(reg) /\ Collected /\ reg.columns = body.columns
      /\ body.columns \in Nat /\ Len(PartItems) \in Nat
  BY RowKnown
<1>2. Event = Ev("end", "row") /\ at' = Place(at.part + 1, 0, 1)
  BY <1>1, EventHere DEF IsRow
<1>3. Event.ev = "end" /\ Event.tag = "row"
  BY <1>2 DEF Ev
<1>4. reg.inRow /\ reg.row = Filled(PartItems, Len(PartItems), body.columns)
  <2>1. at.item = Len(PartItems) + 1 /\ at.item > 0
    BY <1>1 DEF AtClose
  <2>2. at.item - 1 = Len(PartItems)
    BY <1>1, <2>1
  <2> QED BY <2>1, <2>2, RowKnown DEF RowHeld, RowAt, RowSoFar
<1>5. reg.row = RowOf(body, Part)
  <2>1. {i \in DOMAIN Part.items : i <= body.columns}
          = {j \in 1..Len(PartItems) : j <= Len(PartItems) /\ j <= body.columns}
    BY <1>1 DEF IsRow, PartItems
  <2> QED BY <1>4, <2>1 DEF RowOf, Filled, PartItems
<1>6. /\ out' = IF DOMAIN reg.row # {} THEN Append(out, reg.row) ELSE out
      /\ reg' = [reg EXCEPT !.inRow = FALSE, !.row = <<>>]
  BY <1>3, <1>4 DEF ReadPreview, PreviewEnd
<1>7. out' = out \o ResultOf(body, Part)
  <2>1. ResultOf(body, Part) = IF DOMAIN RowOf(body, Part) # {} THEN <<RowOf(body, Part)>> ELSE <<>>
    BY DEF ResultOf, IsRow
  <2>2. RowOf(body, Part) \in Worth(body) /\ out \in Seq(Worth(body))
    BY <1>1, PartIs DEF Worth, Part, Collected
  <2>3. Append(out, RowOf(body, Part)) = out \o <<RowOf(body, Part)>>
    BY <2>2, AppendIsConcat
  <2>4. out \o <<>> = out
    BY <2>2
  <2> QED BY <1>5, <1>6, <2>1, <2>3, <2>4
<1>8. at'.part = at.part + 1 /\ at'.item = 0
  BY <1>2, PlaceFields
<1>9. Collected' /\ PlaceOK'
  BY <1>1, <1>7, <1>8, CollectedNext, PlaceKept
<1>10. IsRegisters(reg') /\ reg'.columns = body.columns
  BY <1>1, <1>6 DEF IsRegisters
<1>11. ColumnsHeld'
  <2>1. ~(at.part <= body.columns) /\ at.part \in Nat
    BY <1>1, PartIs DEF IsColumn, IsRow
  <2>2. ~(at.part + 1 <= body.columns)
    BY <1>1, <2>1
  <2> QED BY <1>8, <1>10, <2>2 DEF ColumnsHeld
<1>12. Held'
  BY <1>8, <1>10, <1>11 DEF Held, RegistersOK
<1> QED BY <1>9, <1>12 DEF DInv

LEMMA PreviewStep ==
    ASSUME DInv, ~AtEnd, body.form = "preview", ReadPreview(Event),
           at' = NextPlace, body' = body, broken' = broken
    PROVE  DInv'
<1>1. PartsAre(body) /\ PlaceOK
  BY BodiesAre DEF DInv
<1>2. IsColumn(Part) \/ IsRow(Part)
  BY <1>1, PartIs
<1>3. IsRow(Part) => AtStart \/ AtItem \/ AtClose
  BY <1>1, Whereabouts DEF AtLone, IsLone, IsRow
<1> QED BY <1>2, <1>3, PreviewAtColumn, PreviewAtStart, PreviewAtItem, PreviewAtClose

-----------------------------------------------------------------------------

LEMMA AdtXmlStarts == AdtXmlInit => DInv
<1> SUFFICES ASSUME AdtXmlInit PROVE DInv
  OBVIOUS
<1>1. body \in Bodies /\ at = Place(1, 0, 1) /\ broken = FALSE /\ reg = Registers /\ out = <<>>
  BY DEF AdtXmlInit
<1>2. PartsAre(body) /\ Len(body.parts) \in Nat
  BY <1>1, BodiesAre DEF PartsAre
<1>3. at.part = 1 /\ at.item = 0 /\ at.event = 1
  BY <1>1, PlaceFields
<1>4. PlaceOK
  BY <1>1, <1>2, <1>3 DEF PlaceOK
<1>5. RegistersOK /\ reg.columns = 0
  BY <1>1 DEF RegistersOK, IsRegisters, Registers
<1>6. Held
  <2>1. body.form = "preview" /\ ~AtEnd => ColumnsHeld
    <3> SUFFICES ASSUME body.form = "preview", ~AtEnd PROVE ColumnsHeld
      OBVIOUS
    <3>1. body.columns \in Nat
      BY <1>2, <1>4, PartIs
    <3> QED BY <1>3, <1>5, <3>1 DEF ColumnsHeld
  <2> QED BY <1>3, <1>5, <2>1 DEF Held
<1>7. Collected
  <2>1. out \in Seq(Worth(body))
    BY <1>1
  <2>2. Len(body.parts) + 1 - at.part = Len(body.parts)
    BY <1>2, <1>3
  <2>3. ResultsOf(body, Len(body.parts)) \in Seq(Worth(body))
    BY <1>2, ResultsAreWorth
  <2>4. out \o ResultsOf(body, Len(body.parts)) = ResultsOf(body, Len(body.parts))
    BY <1>1, <2>3
  <2> QED BY <1>1, <2>1, <2>2, <2>4 DEF Collected, Expected
<1> QED BY <1>1, <1>4, <1>6, <1>7 DEF DInv

LEMMA AdtXmlBreaks == DInv /\ Break => DInv'
<1> SUFFICES ASSUME DInv, Break PROVE DInv'
  OBVIOUS
<1>1. PartsAre(body) /\ PlaceOK /\ Collected /\ Held /\ body \in Bodies
  BY BodiesAre DEF DInv
<1>2. /\ ~AtEnd /\ at' = Place(Len(body.parts) + 1, 0, 1) /\ broken' = TRUE
      /\ body' = body /\ reg' = reg /\ out' = out
  BY DEF Break
<1>3. at'.part = Len(body.parts) + 1 /\ at'.item = 0 /\ at'.event = 1 /\ Len(body.parts) \in Nat
  BY <1>1, <1>2, PlaceFields, PartIs
<1>4. AtEnd'
  BY <1>2, <1>3 DEF AtEnd
<1>5. PlaceOK'
  BY <1>2, <1>3, <1>4 DEF PlaceOK
<1>6. Held'
  BY <1>1, <1>2 DEF Held, RegistersOK
<1>7. Collected'
  <2>1. ~broken
    BY <1>1, <1>2 DEF Collected
  <2>2. Len(body.parts) + 1 - at.part \in 0..Len(body.parts)
    <3>1. at.part \in 1..Len(body.parts)
      BY <1>1, <1>2, PartIs
    <3> QED BY <1>3, <3>1
  <2>3. ResultsOf(body, Len(body.parts) + 1 - at.part) \in Seq(Worth(body))
    BY <1>3, <2>2, ResultsAreWorth
  <2>4. \E t \in Seq(Worth(body)) : out \o t = Expected
    BY <1>1, <2>1, <2>3 DEF Collected
  <2>5. Expected' = Expected /\ Worth(body)' = Worth(body)
    BY <1>2 DEF Expected
  <2> QED BY <1>1, <1>2, <1>4, <2>4, <2>5 DEF Collected
<1> QED BY <1>1, <1>2, <1>5, <1>6, <1>7 DEF DInv

LEMMA AdtXmlKeeps == DInv /\ [AdtXmlNext]_avars => DInv'
<1> SUFFICES ASSUME DInv, [AdtXmlNext]_avars PROVE DInv'
  OBVIOUS
<1>1. CASE ReadEvent
  BY <1>1, NodesStep, ReferencesStep, PreviewStep DEF ReadEvent
<1>2. CASE Break
  BY <1>2, AdtXmlBreaks
<1>3. CASE UNCHANGED avars
  <2>1. body' = body /\ at' = at /\ broken' = broken /\ reg' = reg /\ out' = out
    BY <1>3 DEF avars
  <2>2. PlaceOK' /\ AtEnd' = AtEnd /\ Part' = Part /\ PartItems' = PartItems
    BY <2>1 DEF DInv, PlaceOK, AtEnd, Part, PartItems
  <2>3. Held'
    BY <2>1, <2>2 DEF DInv, Held, RegistersOK, NodeHeld, ColumnsHeld, RowHeld
  <2>4. Collected'
    BY <2>1, <2>2 DEF DInv, Collected, Expected
  <2> QED BY <2>1, <2>2, <2>3, <2>4 DEF DInv
<1> QED BY <1>1, <1>2, <1>3 DEF AdtXmlNext

LEMMA CollectedIsBeginning == DInv => ReadsWhatWasSent
<1> SUFFICES ASSUME DInv PROVE ReadsWhatWasSent
  OBVIOUS
<1>1. PartsAre(body) /\ PlaceOK /\ Collected /\ Len(body.parts) \in Nat
  BY BodiesAre DEF DInv, PartsAre
<1>2. Len(body.parts) + 1 - at.part \in 0..Len(body.parts)
  BY <1>1 DEF PlaceOK
<1>3. \E t \in Seq(Worth(body)) : out \o t = Expected
  <2>1. ResultsOf(body, Len(body.parts) + 1 - at.part) \in Seq(Worth(body))
    BY <1>1, <1>2, ResultsAreWorth
  <2> QED BY <1>1, <2>1 DEF Collected
<1>4. PICK t \in Seq(Worth(body)) : out \o t = Expected
  BY <1>3
<1>5. out \in Seq(Worth(body))
  BY <1>1 DEF Collected
<1>6. Len(out) <= Len(Expected) /\ out = SubSeq(Expected, 1, Len(out))
  <2>1. \A s, u \in Seq(Worth(body)) : Len(s) <= Len(s \o u) /\ s = SubSeq(s \o u, 1, Len(s))
    BY SubSeqOfConcat1
  <2> QED BY <1>4, <1>5, <2>1
<1>7. AtEnd /\ ~broken => out = Expected
  <2> SUFFICES ASSUME AtEnd, ~broken PROVE out = Expected
    OBVIOUS
  <2>1. Len(body.parts) + 1 - at.part = 0
    BY <1>1 DEF PlaceOK, AtEnd
  <2>2. ResultsOf(body, Len(body.parts) + 1 - at.part) = <<>>
    BY <1>1, <2>1, ResultsUnfold
  <2>3. out \o <<>> = Expected
    BY <1>1, <2>2 DEF Collected
  <2>4. out \o <<>> = out
    BY <1>5
  <2> QED BY <2>3, <2>4
<1> QED BY <1>6, <1>7 DEF ReadsWhatWasSent

\* Whatever SAP sends to a list of objects, a search, a where-used query or a
\* data preview, and wherever the document breaks off, the event loops return
\* what was sent, whole and in order (http.rs:509-834).
THEOREM AnswersReadAsSent == AdtXmlSpec => []ReadsWhatWasSent
<1>1. DInv /\ [AdtXmlNext]_avars => DInv'
  BY AdtXmlKeeps
<1> QED BY <1>1, AdtXmlStarts, CollectedIsBeginning, PTL DEF AdtXmlSpec
=============================================================================
