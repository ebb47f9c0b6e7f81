-------------------------- MODULE RateLimit_proofs --------------------------
(***************************************************************************)
(* Proofs about the rate limiter, for any set of policies, connections and *)
(* concurrent calls: the windows admit no more than max_requests calls and *)
(* a fixed window refuses a call only when it has admitted that many.      *)
(*                                                                         *)
(* WindowInv ties the number of admitted calls to the counter in the       *)
(* store: the counter of a window that lasts has counted every call of it  *)
(* (ExpiryInv: it cannot have expired), and a sliding window has reserved  *)
(* an admission for each call that still waits for the previous counter.   *)
(*                                                                         *)
(* Bursts.  A call is decided upon by its own place among the calls of its *)
(* window (count), while NoBoundaryBurst speaks of the number admitted, and*)
(* calls are not admitted in the order they were counted in.  BurstInv says*)
(* that the last place c among those admitted fits beside the previous     *)
(* window, and that from c on there are places enough for the calls        *)
(* admitted and those not yet answered.  A bucket admits, between any two  *)
(* seconds, no more than it holds and what the time between refills:       *)
(* BucketInv keeps its account with regard to every earlier second at once.*)
(***************************************************************************)
EXTENDS RateLimit, FiniteSetTheorems, Induction, TLAPS

Lesser(a, b) == IF a <= b THEN a ELSE b

(* The counter of a window in the store.                                   *)
Val(cl, s) ==
  IF WindowKey(cl, s) \in DOMAIN data THEN data[WindowKey(cl, s)].val ELSE 0

(* Sliding-window calls that were counted among the first max_requests of  *)
(* their window and have not been answered.                                *)
Pending(cl, s) ==
  {k \in Calls : /\ call[k].pc \in {"get", "reading"}
                 /\ call[k].of = cl
                 /\ WindowOf(cl, call[k].at) = s
                 /\ call[k].count <= MaxRequests(cl)}

CallInv ==
  \A k \in Calls : call[k].pc \in Busy =>
    /\ call[k].at <= call[k].now
    /\ call[k].now <= clock
    /\ call[k].pc = "consuming" <=> Algorithm(call[k].of) = "bucket"
    /\ call[k].pc \in {"get", "reading"} => Algorithm(call[k].of) = "sliding"

ExpiryInv ==
  \A x \in DOMAIN data :
    x.kind = "window" => x.start + Window(x.of) <= data[x].exp

WindowInv ==
  \A cl \in Clients, s \in Nat :
    Algorithm(cl) # "bucket" /\ clock < s + Window(cl) =>
      /\ AdmittedIn(cl, s) + Cardinality(Pending(cl, s))
           <= Lesser(Val(cl, s), MaxRequests(cl))
      /\ Algorithm(cl) = "fixed"
           => AdmittedIn(cl, s) = Lesser(Val(cl, s), MaxRequests(cl))

IInv == TypeOK /\ CallInv /\ ExpiryInv /\ WindowInv /\ WindowBound

-----------------------------------------------------------------------------
(* Arithmetic of windows and refills.                                      *)

(* What holds of the multiples of a window holds of the numbers.           *)
LEMMA ScaledBound ==
  ASSUME NEW a \in Nat, NEW b \in Nat, NEW w \in Nat \ {0}, a * w <= b * w
  PROVE  a <= b
<1>1. SUFFICES ASSUME b + 1 <= a PROVE FALSE OBVIOUS
<1>2. (b + 1) * w <= a * w BY <1>1
<1>3. (b + 1) * w = b * w + w OBVIOUS
<1> QED BY <1>2, <1>3

(* A refill that is rounded down stays within the bucket.                  *)
LEMMA DivBound ==
  ASSUME NEW a \in Nat, NEW b \in Nat, NEW w \in Nat \ {0}, a <= b * w
  PROVE  a \div w \in 0 .. b
<1>1. a \div w \in Nat /\ (a \div w) * w <= a OBVIOUS
<1>2. (a \div w) * w <= b * w BY <1>1
<1> QED BY <1>1, <1>2, ScaledBound

(* The estimate of a sliding window is at least the present counter.       *)
LEMMA EstimateBound ==
  ASSUME NEW p \in Nat, NEW d \in Nat, NEW c \in Nat, NEW m \in Nat,
         NEW w \in Nat \ {0}, p * d + c * w <= m * w
  PROVE  c <= m
<1>1. p * d \in Nat OBVIOUS
<1>2. c * w <= m * w BY <1>1
<1> QED BY <1>2, ScaledBound

-----------------------------------------------------------------------------
(* Types of the parts.                                                     *)

(* The policy of a client exists.                                          *)
LEMMA ClientType ==
  ASSUME NEW cl \in Clients
  PROVE  /\ MaxRequests(cl) \in Nat
         /\ Window(cl) \in Nat \ {0}
         /\ Algorithm(cl) \in {"fixed", "sliding", "bucket"}
         /\ Ttl(cl) \in Nat
         /\ Window(cl) <= Ttl(cl)
<1>1. cl.policy \in Policies BY DEF Clients, Client, Limited
<1> QED BY <1>1, RateLimitAssumption DEF MaxRequests, Window, Algorithm, Ttl

(* A time lies in its window.                                              *)
LEMMA WindowOfType ==
  ASSUME NEW cl \in Clients, NEW t \in Nat
  PROVE  /\ WindowOf(cl, t) \in Nat
         /\ WindowOf(cl, t) <= t
         /\ t < WindowOf(cl, t) + Window(cl)
<1>1. Window(cl) \in Nat \ {0} BY ClientType
<1> DEFINE w == Window(cl)
<1> HIDE DEF w
<1>2. w \in Nat \ {0} BY <1>1 DEF w
<1>3. t \div w \in Nat BY <1>2
<1>4. (t \div w) * w \in Nat BY <1>2, <1>3
<1>5. (t \div w) * w <= t /\ t < (t \div w) * w + w BY <1>2
<1> QED BY <1>4, <1>5 DEF WindowOf, w

(* A busy call has a client and times.                                     *)
LEMMA BusyType ==
  ASSUME TypeOK, NEW k \in Calls, call[k].pc \in Busy
  PROVE  call[k] \in BusyCall
<1>1. call[k] \in BusyCall \cup Answered BY DEF TypeOK
<1> QED BY <1>1 DEF Answered, Busy, Settled

(* A counter read from the store is a number.                              *)
LEMMA GetType ==
  ASSUME TypeOK, NEW key, NEW now
  PROVE  Get(key, now) \in Nat
BY DEF TypeOK, StoreOK, Get

(* A refill leaves between none and max_requests tokens.                   *)
LEMMA RefillType ==
  ASSUME NEW cl \in Clients, NEW tokens \in Nat, NEW refill \in Nat, NEW now \in Nat
  PROVE  Refill(cl, tokens, refill, now) \in 0 .. MaxRequests(cl)
<1> DEFINE w == Window(cl)
           m == MaxRequests(cl)
           e == Elapsed(refill, now)
           sum == tokens * w + e * m
<1>1. w \in Nat \ {0} /\ m \in Nat BY ClientType
<1>2. e \in Nat BY DEF Elapsed
<1>3. Refill(cl, tokens, refill, now) =
        IF refill = 0 THEN m ELSE IF sum <= m * w THEN sum \div w ELSE m
  BY DEF Refill
<1> HIDE DEF w, m, e
<1>4. sum \in Nat
  <2>1. tokens * w \in Nat BY <1>1
  <2>2. e * m \in Nat BY <1>1, <1>2
  <2> QED BY <2>1, <2>2
<1> HIDE DEF sum
<1>5. CASE sum <= m * w BY <1>1, <1>3, <1>4, <1>5, DivBound DEF m
<1>6. CASE ~(sum <= m * w) BY <1>1, <1>3, <1>6 DEF m
<1> QED BY <1>5, <1>6

(* A store stays well-typed.                                               *)
LEMMA InsertType ==
  ASSUME NEW d, StoreOK(d), NEW key \in Keys, NEW val \in Nat, NEW exp \in Nat,
         key.kind = "tokens" => val <= MaxRequests(key.of)
  PROVE  StoreOK(Insert(d, key, val, exp))
<1> DEFINE e == Insert(d, key, val, exp)
<1>1. /\ DOMAIN e = DOMAIN d \cup {key}
      /\ e[key] = [val |-> val, exp |-> exp]
      /\ \A x \in DOMAIN d : x # key => e[x] = d[x]
  BY DEF Insert
<1> HIDE DEF e
<1>2. ASSUME NEW x \in DOMAIN e
      PROVE  /\ e[x] \in [val : Nat, exp : Nat]
             /\ x.kind = "tokens" => e[x].val <= MaxRequests(x.of)
  <2>1. CASE x = key BY <1>1, <2>1
  <2>2. CASE x # key BY <1>1, <2>2 DEF StoreOK
  <2> QED BY <2>1, <2>2
<1>3. DOMAIN e \subseteq Keys BY <1>1 DEF StoreOK
<1>4. StoreOK(e) BY <1>2, <1>3 DEF StoreOK
<1> QED BY <1>4 DEF e

-----------------------------------------------------------------------------
(* What the answer to a call changes.                                      *)

(* Types of what an answer changes.                                        *)
LEMMA AnswerType ==
  ASSUME TypeOK, NEW k \in Calls, call[k].pc \in Busy, NEW ok, Answer(k, ok)
  PROVE  /\ call' \in [Calls -> BusyCall \cup Answered]
         /\ DOMAIN admitted' \subseteq Clients \X Nat
         /\ \A x \in DOMAIN admitted' : admitted'[x] \in Nat
         /\ DOMAIN late' \subseteq Clients \X Nat
         /\ \A x \in DOMAIN late' : late'[x] \in Nat
<1>1. call[k] \in BusyCall BY BusyType
<1>2. call[k].of \in Clients /\ call[k].at \in Nat BY <1>1 DEF BusyCall
<1>3. Slot(k) \in Nat BY <1>2, WindowOfType DEF Slot
<1>4. [pc |-> IF ok THEN "allowed" ELSE "refused"] \in Answered
  BY DEF Answered, Settled
<1>5. call' \in [Calls -> BusyCall \cup Answered] BY <1>4 DEF Answer, TypeOK
<1>6. AdmittedIn(call[k].of, Slot(k)) \in Nat BY DEF AdmittedIn, TypeOK
<1>7. DOMAIN admitted' \subseteq Clients \X Nat /\ \A x \in DOMAIN admitted' : admitted'[x] \in Nat
  <2>1. CASE ok /\ InTime(k)
    <3>1. admitted' = [x \in DOMAIN admitted \cup {<<call[k].of, Slot(k)>>} |->
                        IF x = <<call[k].of, Slot(k)>>
                        THEN AdmittedIn(call[k].of, Slot(k)) + 1 ELSE admitted[x]]
      BY <2>1 DEF Answer
    <3> QED BY <3>1, <1>2, <1>3, <1>6 DEF TypeOK
  <2>2. CASE ~(ok /\ InTime(k)) BY <2>2 DEF Answer, TypeOK
  <2> QED BY <2>1, <2>2
<1>8. LateIn(call[k].of, Slot(k)) \in Nat BY DEF LateIn, TypeOK
<1>9. DOMAIN late' \subseteq Clients \X Nat /\ \A x \in DOMAIN late' : late'[x] \in Nat
  <2>1. CASE ok /\ JustOver(k)
    <3>1. late' = [x \in DOMAIN late \cup {<<call[k].of, Slot(k)>>} |->
                    IF x = <<call[k].of, Slot(k)>>
                    THEN LateIn(call[k].of, Slot(k)) + 1 ELSE late[x]]
      BY <2>1 DEF Answer
    <3> QED BY <3>1, <1>2, <1>3, <1>8 DEF TypeOK
  <2>2. CASE ~(ok /\ JustOver(k)) BY <2>2 DEF Answer, TypeOK
  <2> QED BY <2>1, <2>2
<1> QED BY <1>5, <1>7, <1>9

(* An answer counts as admitted in the slot of the call, or nowhere.       *)
LEMMA AnswerEffect ==
  ASSUME TypeOK, NEW k \in Calls, NEW ok, Answer(k, ok), NEW cl, NEW s
  PROVE  AdmittedIn(cl, s)' =
           IF ok /\ InTime(k) /\ cl = call[k].of /\ s = Slot(k)
           THEN AdmittedIn(cl, s) + 1 ELSE AdmittedIn(cl, s)
BY DEF Answer, AdmittedIn

(* Or it counts as late there.                                             *)
LEMMA LateEffect ==
  ASSUME TypeOK, NEW k \in Calls, NEW ok, Answer(k, ok), NEW cl, NEW s
  PROVE  LateIn(cl, s)' =
           IF ok /\ JustOver(k) /\ cl = call[k].of /\ s = Slot(k)
           THEN LateIn(cl, s) + 1 ELSE LateIn(cl, s)
BY DEF Answer, LateIn

-----------------------------------------------------------------------------
(* Types, times and expiries: each action preserves them.                  *)

(* Types are preserved.                                                    *)
LEMMA TypeStep == TypeOK /\ CallInv /\ [Next]_vars => TypeOK'
<1> SUFFICES ASSUME TypeOK, CallInv, [Next]_vars PROVE TypeOK' OBVIOUS
<1>1. ASSUME NEW k \in Calls, NEW c \in Conns, NEW h \in Handlers, CheckUnlimited(k, c, h)
      PROVE TypeOK'
  <2>1. [pc |-> "allowed"] \in Answered BY DEF Answered, Settled
  <2> QED BY <1>1, <2>1 DEF CheckUnlimited, TypeOK
<1>2. ASSUME NEW k \in Calls, NEW c \in Conns, NEW h \in Handlers, Check(k, c, h)
      PROVE TypeOK'
  <2>1. Client(c, h) \in Clients BY <1>2 DEF Check, Clients
  <2>2. [pc |-> IF Algorithm(Client(c, h)) = "bucket" THEN "consuming" ELSE "incr",
         of |-> Client(c, h), at |-> clock, now |-> clock, count |-> 0] \in BusyCall
    BY <2>1 DEF BusyCall, Busy, TypeOK
  <2>3. call' \in [Calls -> BusyCall \cup Answered] BY <1>2, <2>2 DEF Check, TypeOK
  <2>4. checks' \in 0 .. MaxChecks BY <1>2, RateLimitAssumption DEF Check, TypeOK
  <2> QED BY <1>2, <2>3, <2>4 DEF Check, TypeOK
<1>3. ASSUME NEW k \in Calls, ReadTime(k)
      PROVE TypeOK'
  <2>1. call[k] \in BusyCall BY <1>3, BusyType DEF ReadTime, Busy
  <2>2. call' \in [Calls -> BusyCall \cup Answered]
    BY <1>3, <2>1 DEF ReadTime, Continue, TypeOK, BusyCall, Busy
  <2> QED BY <1>3, <2>2 DEF ReadTime, TypeOK
<1>4. ASSUME NEW k \in Calls, Count(k)
      PROVE TypeOK'
  <2> DEFINE cl == call[k].of
             key == WindowKey(cl, WindowOf(cl, call[k].at))
             val == Get(key, call[k].now) + 1
             exp == call[k].now + Ttl(cl)
  <2>1. call[k].pc \in Busy /\ call[k] \in BusyCall BY <1>4, BusyType DEF Count, Busy
  <2>2. cl \in Clients /\ call[k].at \in Nat /\ call[k].now \in Nat BY <2>1 DEF BusyCall
  <2>3. key \in Keys BY <2>2, WindowOfType DEF WindowKey, Keys
  <2>4. val \in Nat /\ exp \in Nat BY <2>2, GetType, ClientType
  <2>5. data' = Insert(data, key, val, exp) BY <1>4 DEF Count
  <2>6. key.kind # "tokens" BY DEF WindowKey
  <2> HIDE DEF key, val, exp
  <2>7. StoreOK(data') BY <2>3, <2>4, <2>5, <2>6, InsertType DEF TypeOK
  <2>8. /\ call' \in [Calls -> BusyCall \cup Answered]
        /\ DOMAIN admitted' \subseteq Clients \X Nat
        /\ \A x \in DOMAIN admitted' : admitted'[x] \in Nat
        /\ DOMAIN late' \subseteq Clients \X Nat
        /\ \A x \in DOMAIN late' : late'[x] \in Nat
    <3>1. CASE Algorithm(cl) = "fixed"
      <4>1. Answer(k, WithinLimit(cl, val)) BY <1>4, <3>1 DEF Count, val, key
      <4> QED BY <2>1, <4>1, AnswerType
    <3>2. CASE Algorithm(cl) # "fixed"
      <4>1. Continue(k, "get", call[k].now, val) /\ UNCHANGED <<admitted, late>>
        BY <1>4, <3>2 DEF Count, val, key
      <4>2. call' \in [Calls -> BusyCall \cup Answered]
        BY <2>1, <2>4, <4>1 DEF Continue, TypeOK, BusyCall, Busy
      <4> QED BY <4>1, <4>2 DEF TypeOK
    <3> QED BY <3>1, <3>2
  <2> QED BY <1>4, <2>7, <2>8 DEF Count, TypeOK
<1>5. ASSUME NEW k \in Calls, Estimate(k)
      PROVE TypeOK'
  <2>1. call[k].pc \in Busy BY <1>5 DEF Estimate, Busy
  <2>2. PICK ok : Answer(k, ok) BY <1>5 DEF Estimate
  <2> QED BY <1>5, <2>1, <2>2, AnswerType DEF Estimate, TypeOK
<1>6. ASSUME NEW k \in Calls, Consume(k)
      PROVE TypeOK'
  <2> DEFINE cl == call[k].of
             at == call[k].at
             tokens == Refill(cl, Get(TokensKey(cl), at), Get(RefillKey(cl), at), at)
             rest == IF tokens > 0 THEN tokens - 1 ELSE 0
             exp == at + Ttl(cl)
             once == Insert(data, TokensKey(cl), rest, exp)
  <2>1. call[k].pc \in Busy /\ call[k] \in BusyCall BY <1>6, BusyType DEF Consume, Busy
  <2>2. cl \in Clients /\ at \in Nat BY <2>1 DEF BusyCall
  <2>3. tokens \in 0 .. MaxRequests(cl) BY <2>2, GetType, RefillType
  <2>4. exp \in Nat /\ MaxRequests(cl) \in Nat BY <2>2, ClientType
  <2>5. Answer(k, tokens > 0) /\ data' = Insert(once, RefillKey(cl), at, exp)
    BY <1>6 DEF Consume
  <2> HIDE DEF tokens, exp
  <2>6. rest \in Nat /\ rest <= MaxRequests(cl) BY <2>3, <2>4
  <2>7. /\ TokensKey(cl) \in Keys /\ RefillKey(cl) \in Keys
        /\ TokensKey(cl).of = cl /\ RefillKey(cl).kind # "tokens"
    BY <2>2 DEF TokensKey, RefillKey, Keys
  <2> HIDE DEF rest
  <2>8. StoreOK(once) BY <2>4, <2>6, <2>7, InsertType DEF TypeOK
  <2> HIDE DEF once
  <2>9. StoreOK(data') BY <2>2, <2>4, <2>5, <2>7, <2>8, InsertType
  <2>10. /\ call' \in [Calls -> BusyCall \cup Answered]
         /\ DOMAIN admitted' \subseteq Clients \X Nat
         /\ \A x \in DOMAIN admitted' : admitted'[x] \in Nat
         /\ DOMAIN late' \subseteq Clients \X Nat
         /\ \A x \in DOMAIN late' : late'[x] \in Nat
    BY <2>1, <2>5, AnswerType
  <2> QED BY <1>6, <2>2, <2>9, <2>10 DEF Consume, TypeOK
<1>7. ASSUME NEW now, Cleanup(now)
      PROVE TypeOK'
  BY <1>7 DEF Cleanup, Restrict, TypeOK, StoreOK
<1>8. CASE Tick BY <1>8 DEF Tick, TypeOK
<1>9. CASE UNCHANGED vars BY <1>9 DEF vars, TypeOK
<1> QED BY <1>1, <1>2, <1>3, <1>4, <1>5, <1>6, <1>7, <1>8, <1>9 DEF Next, CallNext

(* The times a call has read are in order, and it is where its algorithm   *)
(* leads.                                                                  *)
LEMMA CallStep == TypeOK /\ CallInv /\ [Next]_vars => CallInv'
<1> SUFFICES ASSUME TypeOK, CallInv, [Next]_vars PROVE CallInv' OBVIOUS
<1>a. clock \in Nat BY DEF TypeOK
<1>1. ASSUME NEW k \in Calls, NEW c \in Conns, NEW h \in Handlers, CheckUnlimited(k, c, h)
      PROVE CallInv'
  BY <1>1 DEF CheckUnlimited, CallInv, TypeOK, Busy
<1>2. ASSUME NEW k \in Calls, NEW c \in Conns, NEW h \in Handlers, Check(k, c, h)
      PROVE CallInv'
  BY <1>2, <1>a DEF Check, CallInv, TypeOK, Busy, Algorithm
<1>3. ASSUME NEW k \in Calls, ReadTime(k)
      PROVE CallInv'
  <2>1. call[k] \in BusyCall BY <1>3, BusyType DEF ReadTime, Busy
  <2>2. /\ call[k].at <= clock /\ Algorithm(call[k].of) # "bucket"
        /\ call[k].pc = "get" => Algorithm(call[k].of) = "sliding"
    BY <1>3, <1>a, <2>1 DEF ReadTime, CallInv, BusyCall, Busy
  <2> QED BY <1>3, <1>a, <2>2 DEF ReadTime, Continue, TypeOK, CallInv, Algorithm, Busy
<1>4. ASSUME NEW k \in Calls, NEW ok, Answer(k, ok), UNCHANGED clock
      PROVE CallInv'
  BY <1>4 DEF Answer, CallInv, TypeOK, Busy, Algorithm
<1>5. ASSUME NEW k \in Calls, Count(k)
      PROVE CallInv'
  <2>1. CASE Algorithm(call[k].of) = "fixed" BY <1>4, <1>5, <2>1 DEF Count
  <2>2. CASE Algorithm(call[k].of) # "fixed"
    <3>1. call[k] \in BusyCall BY <1>5, BusyType DEF Count, Busy
    <3>2. Algorithm(call[k].of) = "sliding"
      <4>1. Algorithm(call[k].of) # "bucket" BY <1>5 DEF Count, CallInv, Busy
      <4> QED BY <2>2, <3>1, <4>1, ClientType DEF BusyCall
    <3>3. PICK v : Continue(k, "get", call[k].now, v) BY <1>5, <2>2 DEF Count
    <3>4. call[k].at <= call[k].now /\ call[k].now <= clock
      BY <1>5 DEF Count, CallInv, Busy
    <3> QED BY <1>5, <3>2, <3>3, <3>4 DEF Count, Continue, TypeOK, CallInv, Algorithm, Busy
  <2> QED BY <2>1, <2>2
<1>6. ASSUME NEW k \in Calls, Estimate(k) PROVE CallInv' BY <1>4, <1>6 DEF Estimate
<1>7. ASSUME NEW k \in Calls, Consume(k) PROVE CallInv' BY <1>4, <1>7 DEF Consume
<1>8. ASSUME NEW now, Cleanup(now) PROVE CallInv'
  BY <1>8 DEF Cleanup, CallInv, Algorithm
<1>9. CASE Tick
  <2>1. clock <= clock' BY <1>9, <1>a DEF Tick
  <2>2. \A k \in Calls : call[k].pc \in Busy => call[k].now \in Nat
    BY BusyType DEF BusyCall
  <2> QED BY <1>9, <1>a, <2>1, <2>2 DEF Tick, CallInv, Algorithm
<1>10. CASE UNCHANGED vars BY <1>10 DEF vars, CallInv, Algorithm
<1> QED BY <1>1, <1>2, <1>3, <1>5, <1>6, <1>7, <1>8, <1>9, <1>10 DEF Next, CallNext

(* Init establishes the invariant.                                         *)
LEMMA InitInv == Init => IInv
<1> SUFFICES ASSUME Init PROVE IInv OBVIOUS
<1>1. TypeOK BY RateLimitAssumption DEF Init, TypeOK, StoreOK, NoCall, Answered, Settled
<1>2. CallInv BY DEF Init, CallInv, NoCall, Busy
<1>3. ExpiryInv BY DEF Init, ExpiryInv
<1>4. WindowInv
  <2> SUFFICES ASSUME NEW cl \in Clients, NEW s \in Nat
               PROVE  /\ AdmittedIn(cl, s) + Cardinality(Pending(cl, s))
                           <= Lesser(Val(cl, s), MaxRequests(cl))
                      /\ AdmittedIn(cl, s) = Lesser(Val(cl, s), MaxRequests(cl))
    BY DEF WindowInv
  <2>1. AdmittedIn(cl, s) = 0 /\ Val(cl, s) = 0 BY DEF Init, AdmittedIn, Val
  <2>2. Pending(cl, s) = {} BY DEF Init, Pending, NoCall
  <2>3. Cardinality(Pending(cl, s)) = 0 BY <2>2, FS_EmptySet
  <2> QED BY <2>1, <2>3, ClientType DEF Lesser
<1>5. WindowBound BY DEF Init, WindowBound
<1> QED BY <1>1, <1>2, <1>3, <1>4, <1>5 DEF IInv

(* A counter does not expire before its window is over: it was written at  *)
(* a time in or after the window.                                          *)
LEMMA ExpiryStep == TypeOK /\ CallInv /\ ExpiryInv /\ [Next]_vars => ExpiryInv'
<1> SUFFICES ASSUME TypeOK, CallInv, ExpiryInv, [Next]_vars PROVE ExpiryInv' OBVIOUS
<1>1. ASSUME UNCHANGED data PROVE ExpiryInv'
  BY <1>1 DEF ExpiryInv, Window
<1>2. ASSUME NEW k \in Calls, Count(k) PROVE ExpiryInv'
  <2> DEFINE cl == call[k].of
             start == WindowOf(cl, call[k].at)
             key == WindowKey(cl, start)
             val == Get(key, call[k].now) + 1
             exp == call[k].now + Ttl(cl)
  <2>1. call[k].pc \in Busy /\ call[k] \in BusyCall BY <1>2, BusyType DEF Count, Busy
  <2>2. cl \in Clients /\ call[k].at \in Nat /\ call[k].now \in Nat BY <2>1 DEF BusyCall
  <2>3. call[k].at <= call[k].now BY <2>1 DEF CallInv
  <2>4. start + Window(cl) <= exp BY <2>2, <2>3, WindowOfType, ClientType
  <2>5. key.start = start /\ key.of = cl BY DEF WindowKey
  <2>6. data' = Insert(data, key, val, exp) BY <1>2 DEF Count
  <2> HIDE DEF key, val, exp, start
  <2>7. /\ DOMAIN data' = DOMAIN data \cup {key}
        /\ data'[key].exp = exp
        /\ \A x \in DOMAIN data : x # key => data'[x] = data[x]
    BY <2>6 DEF Insert
  <2> QED BY <2>4, <2>5, <2>7 DEF ExpiryInv, Window
<1>3. ASSUME NEW k \in Calls, Consume(k) PROVE ExpiryInv'
  <2>1. PICK v, w, exp : data' = Insert(Insert(data, TokensKey(call[k].of), v, exp),
                                        RefillKey(call[k].of), w, exp)
    BY <1>3 DEF Consume
  <2>2. \A x \in DOMAIN data' :
          x.kind = "window" => x \in DOMAIN data /\ data'[x] = data[x]
    BY <2>1 DEF Insert, TokensKey, RefillKey
  <2> QED BY <2>2 DEF ExpiryInv, Window
<1>4. ASSUME NEW now, Cleanup(now) PROVE ExpiryInv'
  BY <1>4 DEF Cleanup, Restrict, ExpiryInv, Window
<1> QED
  BY <1>1, <1>2, <1>3, <1>4
     DEF Next, CallNext, CheckUnlimited, Check, ReadTime, Estimate, Tick, vars

-----------------------------------------------------------------------------
(* The counter of a window that lasts and the calls admitted in it.        *)

(* A call that is in time reads the counter as it is: it cannot have       *)
(* expired.                                                                *)
LEMMA FreshCounter ==
  ASSUME TypeOK, ExpiryInv, NEW cl \in Clients, NEW s \in Nat, NEW now \in Nat,
         now <= clock, clock < s + Window(cl)
  PROVE  Get(WindowKey(cl, s), now) = Val(cl, s)
<1> DEFINE key == WindowKey(cl, s)
<1>1. key.kind = "window" /\ key.start = s /\ key.of = cl BY DEF WindowKey
<1>2. ASSUME key \in DOMAIN data PROVE now < data[key].exp
  <2>1. s + Window(cl) <= data[key].exp BY <1>1, <1>2 DEF ExpiryInv
  <2>2. data[key].exp \in Nat BY <1>2 DEF TypeOK, StoreOK
  <2> QED BY <2>1, <2>2, ClientType DEF TypeOK
<1> QED BY <1>2 DEF Get, Val

(* Counters, admissions and pending calls are numbers.                     *)
LEMMA CountTypes ==
  ASSUME TypeOK, NEW cl \in Clients, NEW s \in Nat
  PROVE  /\ Val(cl, s) \in Nat
         /\ AdmittedIn(cl, s) \in Nat
         /\ IsFiniteSet(Pending(cl, s))
         /\ Cardinality(Pending(cl, s)) \in Nat
<1>1. Val(cl, s) \in Nat BY DEF Val, TypeOK, StoreOK
<1>2. AdmittedIn(cl, s) \in Nat BY DEF AdmittedIn, TypeOK
<1>3. Pending(cl, s) \subseteq Calls BY DEF Pending
<1>4. IsFiniteSet(Pending(cl, s)) BY <1>3, RateLimitAssumption, FS_Subset
<1> QED BY <1>1, <1>2, <1>4, FS_CardinalityType

(* The two numbers stay tied to each other.                                *)
LEMMA WindowStep ==
  TypeOK /\ CallInv /\ ExpiryInv /\ WindowInv /\ [Next]_vars => WindowInv'
<1> SUFFICES ASSUME TypeOK, CallInv, ExpiryInv, WindowInv, [Next]_vars,
                    NEW cl \in Clients, NEW s \in Nat,
                    Algorithm(cl) # "bucket", clock' < s + Window(cl)
             PROVE  /\ AdmittedIn(cl, s)' + Cardinality(Pending(cl, s)')
                         <= Lesser(Val(cl, s)', MaxRequests(cl))
                    /\ Algorithm(cl) = "fixed"
                         => AdmittedIn(cl, s)' = Lesser(Val(cl, s)', MaxRequests(cl))
  BY DEF WindowInv, Window, Algorithm, MaxRequests
<1> DEFINE Goal == /\ AdmittedIn(cl, s)' + Cardinality(Pending(cl, s)')
                         <= Lesser(Val(cl, s)', MaxRequests(cl))
                   /\ Algorithm(cl) = "fixed"
                         => AdmittedIn(cl, s)' = Lesser(Val(cl, s)', MaxRequests(cl))
<1>a. clock \in Nat /\ clock' \in Nat /\ clock <= clock'
  <2>1. clock \in Nat BY DEF TypeOK
  <2>2. clock' = clock \/ clock' = clock + 1
    BY DEF Next, CallNext, CheckUnlimited, Check, ReadTime, Count, Estimate, Consume,
       Cleanup, Tick, vars
  <2> QED BY <2>1, <2>2
<1>b. clock < s + Window(cl) BY <1>a, ClientType
<1>c. /\ AdmittedIn(cl, s) + Cardinality(Pending(cl, s))
           <= Lesser(Val(cl, s), MaxRequests(cl))
      /\ Algorithm(cl) = "fixed"
           => AdmittedIn(cl, s) = Lesser(Val(cl, s), MaxRequests(cl))
  BY <1>b DEF WindowInv
<1>d. /\ Val(cl, s) \in Nat /\ AdmittedIn(cl, s) \in Nat
      /\ IsFiniteSet(Pending(cl, s)) /\ Cardinality(Pending(cl, s)) \in Nat
      /\ MaxRequests(cl) \in Nat
  BY CountTypes, ClientType
<1>e. ASSUME Val(cl, s)' = Val(cl, s), AdmittedIn(cl, s)' = AdmittedIn(cl, s),
             Pending(cl, s)' = Pending(cl, s)
      PROVE  Goal
  BY <1>c, <1>e
<1>1. ASSUME NEW k \in Calls, NEW c \in Conns, NEW h \in Handlers,
             CheckUnlimited(k, c, h) \/ Check(k, c, h)
      PROVE  Goal
  <2>1. Pending(cl, s)' = Pending(cl, s)
    <3>1. call[k].pc \in Settled /\ call'[k].pc \in {"allowed", "consuming", "incr"}
      BY <1>1 DEF CheckUnlimited, Check, TypeOK
    <3>2. \A j \in Calls \ {k} : call'[j] = call[j]
      BY <1>1 DEF CheckUnlimited, Check, TypeOK
    <3> QED BY <3>1, <3>2 DEF Pending, WindowOf, Window, MaxRequests, Settled
  <2>2. UNCHANGED <<data, admitted>> BY <1>1 DEF CheckUnlimited, Check
  <2> QED BY <1>e, <2>1, <2>2 DEF Val, AdmittedIn
<1>2. ASSUME NEW k \in Calls, ReadTime(k) PROVE Goal
  <2>1. Pending(cl, s)' = Pending(cl, s)
    <3>1. \/ call[k].pc = "incr" /\ call'[k].pc = "counting"
          \/ /\ call[k].pc = "get" /\ call'[k].pc = "reading"
             /\ call'[k].of = call[k].of /\ call'[k].at = call[k].at
             /\ call'[k].count = call[k].count
      BY <1>2 DEF ReadTime, Continue, TypeOK
    <3>2. \A j \in Calls \ {k} : call'[j] = call[j] BY <1>2 DEF ReadTime, Continue, TypeOK
    <3> QED BY <3>1, <3>2 DEF Pending, WindowOf, Window, MaxRequests
  <2>2. UNCHANGED <<data, admitted>> BY <1>2 DEF ReadTime
  <2> QED BY <1>e, <2>1, <2>2 DEF Val, AdmittedIn
<1>3. ASSUME NEW k \in Calls, Count(k) PROVE Goal
  <2> DEFINE mine == call[k].of
             start == WindowOf(mine, call[k].at)
             key == WindowKey(mine, start)
             val == Get(key, call[k].now) + 1
  <2>1. /\ call[k].pc \in Busy /\ call[k].pc = "counting" /\ call[k] \in BusyCall
        /\ UNCHANGED clock
    BY <1>3, BusyType DEF Count, Busy
  <2>2. mine \in Clients /\ call[k].at \in Nat /\ call[k].now \in Nat BY <2>1 DEF BusyCall
  <2>3. call[k].now <= clock /\ Algorithm(mine) # "bucket" BY <2>1 DEF CallInv
  <2>4. start \in Nat BY <2>2, WindowOfType
  <2>5. data' = Insert(data, key, val, call[k].now + Ttl(mine)) BY <1>3 DEF Count
  <2>6. Slot(k) = start BY <2>3 DEF Slot
  <2>7. InTime(k) <=> clock < start + Window(mine) BY <2>3, <2>6 DEF InTime
  <2>8. CASE cl # mine \/ s # start
    <3>1. WindowKey(cl, s) # key BY <2>8 DEF WindowKey
    <3> HIDE DEF key, val
    <3>2. Val(cl, s)' = Val(cl, s) BY <2>5, <3>1 DEF Val, Insert
    <3> USE DEF key, val
    <3>3. CASE Algorithm(mine) = "fixed"
      <4>1. Answer(k, WithinLimit(mine, val)) BY <1>3, <3>3 DEF Count
      <4>2. AdmittedIn(cl, s)' = AdmittedIn(cl, s)
        BY <2>6, <2>8, <4>1, AnswerEffect
      <4>3. Pending(cl, s)' = Pending(cl, s)
        <5>1. call'[k].pc \in Settled /\ \A j \in Calls \ {k} : call'[j] = call[j]
          BY <4>1 DEF Answer, TypeOK, Settled
        <5> QED BY <2>1, <5>1 DEF Pending, WindowOf, Window, MaxRequests, Settled
      <4> QED BY <1>e, <3>2, <4>2, <4>3
    <3>4. CASE Algorithm(mine) # "fixed"
      <4>1. Continue(k, "get", call[k].now, val) /\ UNCHANGED admitted
        BY <1>3, <3>4 DEF Count
      <4>2. AdmittedIn(cl, s)' = AdmittedIn(cl, s) BY <4>1 DEF AdmittedIn
      <4>3. Pending(cl, s)' = Pending(cl, s)
        <5>1. /\ call'[k].of = mine /\ call'[k].at = call[k].at
              /\ \A j \in Calls \ {k} : call'[j] = call[j]
          BY <4>1 DEF Continue, TypeOK
        <5> HIDE DEF val
        <5> QED BY <2>1, <2>8, <5>1, ZenonT(60) DEF Pending, WindowOf, Window, MaxRequests
      <4> QED BY <1>e, <3>2, <4>2, <4>3
    <3> QED BY <3>3, <3>4
  <2>9. CASE cl = mine /\ s = start
    <3>1. val = Val(cl, s) + 1 BY <1>b, <2>2, <2>3, <2>9, FreshCounter
    <3>2. Val(cl, s)' = val
      <4> HIDE DEF val
      <4> QED BY <2>5, <2>9 DEF Val, Insert
    <3>3. InTime(k) BY <1>b, <2>7, <2>9
    <3>4. CASE Algorithm(mine) = "fixed"
      <4>1. Answer(k, WithinLimit(mine, val)) BY <1>3, <3>4 DEF Count
      <4>2. AdmittedIn(cl, s)' = IF val <= MaxRequests(cl) THEN AdmittedIn(cl, s) + 1
                                 ELSE AdmittedIn(cl, s)
        <5>1. WithinLimit(mine, val) <=> val <= MaxRequests(cl) BY <2>9 DEF WithinLimit
        <5> HIDE DEF val
        <5> QED BY <2>6, <2>9, <3>3, <4>1, <5>1, AnswerEffect
      <4>3. Pending(cl, s)' = Pending(cl, s)
        <5>1. call'[k].pc \in Settled /\ \A j \in Calls \ {k} : call'[j] = call[j]
          BY <4>1 DEF Answer, TypeOK, Settled
        <5> QED BY <2>1, <5>1 DEF Pending, WindowOf, Window, MaxRequests, Settled
      <4> HIDE DEF val
      <4> QED BY <1>c, <1>d, <2>9, <3>1, <3>2, <3>4, <4>2, <4>3 DEF Lesser
    <3>5. CASE Algorithm(mine) # "fixed"
      <4>1. Continue(k, "get", call[k].now, val) /\ UNCHANGED admitted
        BY <1>3, <3>5 DEF Count
      <4>2. AdmittedIn(cl, s)' = AdmittedIn(cl, s) BY <4>1 DEF AdmittedIn
      <4>3. /\ call'[k].pc = "get" /\ call'[k].of = mine /\ call'[k].at = call[k].at
            /\ call'[k].count = val
            /\ \A j \in Calls \ {k} : call'[j] = call[j]
        BY <4>1 DEF Continue, TypeOK
      <4>4. k \notin Pending(cl, s) BY <2>1 DEF Pending
      <4> HIDE DEF val
      <4>5. Pending(cl, s)' = IF val <= MaxRequests(cl) THEN Pending(cl, s) \cup {k}
                              ELSE Pending(cl, s)
        BY <2>1, <2>9, <4>3 DEF Pending, WindowOf, Window, MaxRequests
      <4>6. Cardinality(Pending(cl, s) \cup {k}) = Cardinality(Pending(cl, s)) + 1
        BY <1>d, <4>4, FS_AddElement
      <4> QED BY <1>c, <1>d, <2>9, <3>1, <3>2, <3>5, <4>2, <4>5, <4>6 DEF Lesser
    <3> QED BY <3>4, <3>5
  <2> QED BY <2>8, <2>9
<1>4. ASSUME NEW k \in Calls, Estimate(k) PROVE Goal
  <2> DEFINE mine == call[k].of
             previous == WindowKey(mine, WindowOf(mine, call[k].at) - Window(mine))
             p == Get(previous, call[k].now)
             ok == WithinEstimate(mine, p, call[k].count, call[k].at)
  <2>1. /\ call[k].pc = "reading" /\ call[k].pc \in Busy /\ call[k] \in BusyCall
        /\ UNCHANGED <<clock, data>>
    BY <1>4, BusyType DEF Estimate, Busy
  <2>2. mine \in Clients /\ call[k].at \in Nat /\ call[k].count \in Nat
    BY <2>1 DEF BusyCall
  <2>3. Answer(k, ok) BY <1>4 DEF Estimate
  <2>4. Algorithm(mine) = "sliding" BY <2>1 DEF CallInv
  <2>5. Slot(k) = WindowOf(mine, call[k].at) BY <2>4 DEF Slot
  <2>6. Val(cl, s)' = Val(cl, s) BY <2>1 DEF Val
  <2>7. ok => call[k].count <= MaxRequests(mine)
    <3>1. p \in Nat BY GetType
    <3>2. Window(mine) \in Nat \ {0} /\ MaxRequests(mine) \in Nat BY <2>2, ClientType
    <3>3. Window(mine) - (call[k].at - WindowOf(mine, call[k].at)) \in Nat
      BY <2>2, <3>2, WindowOfType
    <3> HIDE DEF p
    <3> QED BY <2>2, <3>1, <3>2, <3>3, EstimateBound DEF WithinEstimate
  <2>8. call'[k].pc \in Settled /\ \A j \in Calls \ {k} : call'[j] = call[j]
    BY <2>3 DEF Answer, TypeOK, Settled
  <2>9. Pending(cl, s)' = Pending(cl, s) \ {k}
    BY <2>8 DEF Pending, WindowOf, Window, MaxRequests, Settled
  <2>10. Cardinality(Pending(cl, s)') =
           IF k \in Pending(cl, s) THEN Cardinality(Pending(cl, s)) - 1
           ELSE Cardinality(Pending(cl, s))
    BY <1>d, <2>9, FS_RemoveElement
  <2>11. \/ AdmittedIn(cl, s)' = AdmittedIn(cl, s)
         \/ /\ AdmittedIn(cl, s)' = AdmittedIn(cl, s) + 1
            /\ k \in Pending(cl, s)
    <3>1. AdmittedIn(cl, s)' =
            IF ok /\ InTime(k) /\ cl = mine /\ s = Slot(k)
            THEN AdmittedIn(cl, s) + 1 ELSE AdmittedIn(cl, s)
      BY <2>3, AnswerEffect
    <3>2. ok /\ cl = mine /\ s = Slot(k) => k \in Pending(cl, s)
      BY <2>1, <2>5, <2>7 DEF Pending
    <3> QED BY <3>1, <3>2
  <2>12. Algorithm(cl) = "fixed" => k \notin Pending(cl, s)
    BY <2>4 DEF Pending
  <2> QED BY <1>c, <1>d, <2>6, <2>10, <2>11, <2>12 DEF Lesser
<1>5. ASSUME NEW k \in Calls, Consume(k) PROVE Goal
  <2>1. call[k].pc = "consuming" BY <1>5 DEF Consume
  <2>2. Algorithm(call[k].of) = "bucket" BY <2>1 DEF CallInv, Busy
  <2>3. PICK ok : Answer(k, ok) BY <1>5 DEF Consume
  <2>4. AdmittedIn(cl, s)' = AdmittedIn(cl, s) BY <2>2, <2>3, AnswerEffect
  <2>5. call'[k].pc \in Settled /\ \A j \in Calls \ {k} : call'[j] = call[j]
    BY <2>3 DEF Answer, TypeOK, Settled
  <2>6. Pending(cl, s)' = Pending(cl, s)
    BY <2>1, <2>5 DEF Pending, WindowOf, Window, MaxRequests, Settled
  <2>7. Val(cl, s)' = Val(cl, s)
    <3>1. PICK v, w, exp : data' = Insert(Insert(data, TokensKey(call[k].of), v, exp),
                                          RefillKey(call[k].of), w, exp)
      BY <1>5 DEF Consume
    <3> QED BY <3>1 DEF Val, Insert, TokensKey, RefillKey, WindowKey
  <2> QED BY <1>e, <2>4, <2>6, <2>7
<1>6. ASSUME NEW now \in Start .. clock, Cleanup(now) PROVE Goal
  <2>1. Val(cl, s)' = Val(cl, s)
    <3> DEFINE key == WindowKey(cl, s)
    <3>1. ASSUME key \in DOMAIN data PROVE now < data[key].exp
      <4>1. s + Window(cl) <= data[key].exp BY <3>1 DEF ExpiryInv, WindowKey
      <4>2. data[key].exp \in Nat BY <3>1 DEF TypeOK, StoreOK
      <4> QED BY <1>a, <1>b, <4>1, <4>2, ClientType, RateLimitAssumption
    <3> QED BY <1>6, <3>1 DEF Cleanup, Restrict, Val
  <2>2. UNCHANGED <<call, admitted>> BY <1>6 DEF Cleanup
  <2> QED BY <1>e, <2>1, <2>2 DEF Pending, AdmittedIn, WindowOf, Window, MaxRequests
<1>7. CASE Tick \/ UNCHANGED vars
  <2>1. UNCHANGED <<data, call, admitted>> BY <1>7 DEF Tick, vars
  <2> QED BY <1>e, <2>1 DEF Val, Pending, AdmittedIn, WindowOf, Window, MaxRequests
<1> QED BY <1>1, <1>2, <1>3, <1>4, <1>5, <1>6, <1>7 DEF Next, CallNext

(* What was admitted in a window is bounded by WindowInv while it lasts,   *)
(* and does not change any more afterwards.                                *)
LEMMA BoundStep ==
  TypeOK /\ CallInv /\ WindowInv' /\ WindowBound /\ TypeOK' /\ [Next]_vars => WindowBound'
<1> SUFFICES ASSUME TypeOK, CallInv, WindowInv', WindowBound, TypeOK', [Next]_vars
             PROVE  WindowBound'
  OBVIOUS
<1>1. ASSUME UNCHANGED admitted PROVE WindowBound'
  BY <1>1 DEF WindowBound, Algorithm, MaxRequests
<1>2. ASSUME NEW k \in Calls, NEW ok, Answer(k, ok), call[k].pc \in Busy, UNCHANGED clock
      PROVE  WindowBound'
  <2>1. call[k] \in BusyCall BY <1>2, BusyType
  <2>2. PICK cl \in Clients : cl = call[k].of BY <2>1 DEF BusyCall
  <2>3. PICK s \in Nat : s = Slot(k)
    BY <2>1, WindowOfType DEF Slot, BusyCall
  <2>4. CASE ~(ok /\ InTime(k)) BY <1>1, <1>2, <2>4 DEF Answer
  <2>5. CASE ok /\ InTime(k)
    <3>1. admitted' = [x \in DOMAIN admitted \cup {<<cl, s>>} |->
                        IF x = <<cl, s>> THEN AdmittedIn(cl, s) + 1 ELSE admitted[x]]
      BY <1>2, <2>2, <2>3, <2>5 DEF Answer
    <3>2. ASSUME Algorithm(cl) # "bucket" PROVE admitted'[<<cl, s>>] <= MaxRequests(cl)
      <4>1. clock' < s + Window(cl) BY <1>2, <2>2, <2>3, <2>5, <3>2 DEF InTime
      <4>2. AdmittedIn(cl, s)' + Cardinality(Pending(cl, s)')
              <= Lesser(Val(cl, s)', MaxRequests(cl))
        BY <3>2, <4>1 DEF WindowInv, Window, Algorithm, MaxRequests
      <4>3. Val(cl, s)' \in Nat /\ AdmittedIn(cl, s)' \in Nat /\ MaxRequests(cl) \in Nat
        BY ClientType DEF TypeOK, StoreOK, Val, AdmittedIn
      <4>4. Cardinality(Pending(cl, s)') \in Nat
        <5>1. Pending(cl, s)' \subseteq Calls BY DEF Pending
        <5> QED BY <5>1, RateLimitAssumption, FS_Subset, FS_CardinalityType
      <4>5. AdmittedIn(cl, s)' = admitted'[<<cl, s>>] BY <3>1 DEF AdmittedIn
      <4> QED BY <4>2, <4>3, <4>4, <4>5 DEF Lesser
    <3>3. \A x \in DOMAIN admitted' \ {<<cl, s>>} :
            x \in DOMAIN admitted /\ admitted'[x] = admitted[x]
      BY <3>1
    <3> QED BY <3>2, <3>3 DEF WindowBound, Algorithm, MaxRequests
  <2> QED BY <2>4, <2>5
<1>3. ASSUME NEW k \in Calls, Count(k) PROVE WindowBound'
  <2>1. call[k].pc \in Busy BY <1>3 DEF Count, Busy
  <2>2. \/ UNCHANGED admitted
        \/ \E ok : Answer(k, ok)
    BY <1>3 DEF Count
  <2> QED BY <1>1, <1>2, <1>3, <2>1, <2>2 DEF Count
<1>4. ASSUME NEW k \in Calls, Estimate(k) PROVE WindowBound'
  BY <1>2, <1>4 DEF Estimate, Busy
<1>5. ASSUME NEW k \in Calls, Consume(k) PROVE WindowBound'
  BY <1>2, <1>5 DEF Consume, Busy
<1> QED
  BY <1>1, <1>3, <1>4, <1>5
     DEF Next, CallNext, CheckUnlimited, Check, ReadTime, Cleanup, Tick, vars

-----------------------------------------------------------------------------
(* The theorems.                                                           *)

(* IInv is an inductive invariant of the rate limiter.                     *)
THEOREM Inductive == Spec => []IInv
<1>1. Init => IInv BY InitInv
<1>2. IInv /\ [Next]_vars => IInv'
  BY TypeStep, CallStep, ExpiryStep, WindowStep, BoundStep DEF IInv
<1> QED BY <1>1, <1>2, PTL DEF Spec

(* Type correctness: counters are numbers and no bucket holds more than    *)
(* max_requests tokens.                                                    *)
THEOREM TypeCorrect == Spec => []TypeOK
<1>1. IInv => TypeOK BY DEF IInv
<1> QED BY <1>1, Inductive, PTL

(* No window, fixed or sliding, admits more than max_requests of its calls *)
(* while it lasts, for any number of concurrent calls (try_acquire).       *)
THEOREM WindowsHold == Spec => []WindowBound
<1>1. IInv => WindowBound BY DEF IInv
<1> QED BY <1>1, Inductive, PTL

(* A fixed window refuses a call in time only when it is full.             *)
THEOREM RefusalsAreFull == Spec => FullWhenRefused
<1>1. IInv /\ [Next]_vars =>
        [\A k \in Calls :
           Refuses(k) /\ Algorithm(call[k].of) = "fixed" /\ InTime(k)
             => AdmittedIn(call[k].of, Slot(k)) = MaxRequests(call[k].of)]_vars
  <2> SUFFICES ASSUME IInv, Next, NEW k \in Calls, Refuses(k),
                      Algorithm(call[k].of) = "fixed", InTime(k)
               PROVE  AdmittedIn(call[k].of, Slot(k)) = MaxRequests(call[k].of)
    OBVIOUS
  <2> DEFINE cl == call[k].of
             s == WindowOf(cl, call[k].at)
             val == Get(WindowKey(cl, s), call[k].now) + 1
  <2>1. TypeOK /\ CallInv /\ ExpiryInv /\ WindowInv BY DEF IInv
  <2>2. call[k].pc \in Busy /\ call[k] \in BusyCall BY <2>1, BusyType DEF Refuses
  <2>3. cl \in Clients /\ call[k].at \in Nat /\ call[k].now \in Nat BY <2>2 DEF BusyCall
  <2>4. Count(k)
    <3>1. call'[k] # call[k] /\ call'[k].pc = "refused" BY DEF Refuses, Busy
    <3>2. \A j \in Calls, c \in Conns, h \in Handlers :
            CheckUnlimited(j, c, h) \/ Check(j, c, h)
              => ~(call'[k] # call[k] /\ call'[k].pc = "refused")
      BY <2>1 DEF CheckUnlimited, Check, TypeOK
    <3>3. \A j \in Calls :
            Count(j) \/ Estimate(j) \/ Consume(j) => j = k \/ call'[k] = call[k]
      BY <2>1 DEF Count, Estimate, Consume, Answer, Continue, TypeOK
    <3>4. ~Estimate(k) /\ ~Consume(k) BY <2>1, <2>2 DEF Estimate, Consume, CallInv
    <3>5. UNCHANGED call \/ \E j \in Calls : CallNext(j)
      BY DEF Next, Cleanup, Tick
    <3>6. PICK j \in Calls : CallNext(j) BY <3>1, <3>5
    <3>7. Count(j) \/ Estimate(j) \/ Consume(j)
      <4>1. \/ \E c \in Conns, h \in Handlers : CheckUnlimited(j, c, h) \/ Check(j, c, h)
            \/ ReadTime(j) \/ Count(j) \/ Estimate(j) \/ Consume(j)
        BY <3>6 DEF CallNext
      <4>2. ~ReadTime(j)
        <5>1. ReadTime(j) => ~(call'[k] # call[k] /\ call'[k].pc = "refused")
          BY <2>1 DEF ReadTime, Continue, TypeOK
        <5> QED BY <3>1, <5>1
      <4> QED BY <3>1, <3>2, <4>1, <4>2
    <3> QED BY <3>1, <3>3, <3>4, <3>7
  <2>5. Answer(k, WithinLimit(cl, val)) BY <2>4 DEF Count
  <2>6. ~(val <= MaxRequests(cl))
    <3> HIDE DEF val
    <3> QED BY <2>1, <2>5 DEF Answer, Refuses, WithinLimit, TypeOK
  <2>7. Slot(k) = s /\ clock < s + Window(cl) BY DEF Slot, InTime
  <2>8. s \in Nat /\ call[k].now <= clock
    BY <2>1, <2>2, <2>3, WindowOfType DEF CallInv
  <2>9. val = Val(cl, s) + 1 BY <2>1, <2>3, <2>7, <2>8, FreshCounter
  <2>10. AdmittedIn(cl, s) = Lesser(Val(cl, s), MaxRequests(cl))
    BY <2>1, <2>3, <2>7, <2>8 DEF WindowInv
  <2>11. Val(cl, s) \in Nat /\ MaxRequests(cl) \in Nat
    BY <2>1, <2>3, <2>8, CountTypes, ClientType
  <2> HIDE DEF val
  <2> QED BY <2>6, <2>7, <2>9, <2>10, <2>11 DEF Lesser
<1> QED BY <1>1, Inductive, PTL DEF Spec, FullWhenRefused

-----------------------------------------------------------------------------
(* No burst at the boundary of two sliding windows.                        *)

(* The calls that were counted among the first n of a window and have not  *)
(* been answered.                                                          *)
UpTo(cl, s, n) ==
  {k \in Calls : /\ call[k].pc \in {"get", "reading"}
                 /\ call[k].of = cl
                 /\ WindowOf(cl, call[k].at) = s
                 /\ call[k].count <= n}

(* The counter of a sliding window does not expire before the next is over.*)
LongExpiryInv ==
  \A x \in DOMAIN data :
    x.kind = "window" /\ Algorithm(x.of) = "sliding" => x.start + 2 * Window(x.of) <= data[x].exp

(* A call that is in time has a place the counter has reached.             *)
CountInv ==
  \A k \in Calls :
    /\ call[k].pc \in {"get", "reading"}
    /\ clock < WindowOf(call[k].of, call[k].at) + Window(call[k].of)
    => call[k].count <= Val(call[k].of, WindowOf(call[k].of, call[k].at))

(* The counter covers, until the next window is over, the calls admitted   *)
(* in time, those admitted late and those that may still be; and nothing is*)
(* admitted in a window that has not begun.                                *)
Used(cl, s) == AdmittedIn(cl, s) + LateIn(cl, s)
LateInv ==
  \A cl \in Clients, s \in Nat :
    Algorithm(cl) = "sliding" /\ clock < s + 2 * Window(cl) =>
      Used(cl, s) + Cardinality(Pending(cl, s)) <= Lesser(Val(cl, s), MaxRequests(cl))
FutureInv ==
  \A cl \in Clients, s \in Nat :
    Algorithm(cl) = "sliding" /\ clock < s => AdmittedIn(cl, s) = 0

Room(cl, s, c) ==
  /\ c <= Val(cl, s)
  /\ AdmittedIn(cl, s - Window(cl)) * (Window(cl) - (clock - s)) + c * Window(cl)
       <= MaxRequests(cl) * Window(cl)
  /\ \A n \in Nat : c <= n => AdmittedIn(cl, s) + Cardinality(UpTo(cl, s, n)) <= n

BurstInv ==
  \A cl \in Clients, s \in Nat :
    Algorithm(cl) = "sliding" /\ s = WindowOf(cl, clock) => \E c \in Nat : Room(cl, s, c)

JInv == LongExpiryInv /\ CountInv /\ LateInv /\ FutureInv /\ BurstInv

-----------------------------------------------------------------------------
(* Arithmetic.                                                             *)

(* Products grow with their factors.                                       *)
LEMMA ProductGrows ==
  ASSUME NEW a \in Nat, NEW b \in Nat, NEW w \in Nat, a <= b
  PROVE  a * w \in Nat /\ a * w <= b * w
<1>1. PICK d \in Nat : b = a + d
  <2>1. b - a \in Nat /\ b = a + (b - a) OBVIOUS
  <2> QED BY <2>1
<1>2. a * w \in Nat /\ d * w \in Nat OBVIOUS
<1>3. b * w = a * w + d * w BY <1>1
<1> QED BY <1>2, <1>3

(* What fits still fits with less of everything.                           *)
LEMMA Fits ==
  ASSUME NEW a \in Nat, NEW p \in Nat, NEW r \in Nat, NEW q \in Nat,
         NEW c \in Nat, NEW d \in Nat, NEW m \in Nat, NEW w \in Nat,
         a <= p, r <= q, c <= d, p * q + d * w <= m * w
  PROVE  a * r + c * w <= m * w
<1>1. a * r <= p * r /\ a * r \in Nat BY ProductGrows
<1>2. r * p <= q * p /\ r * p \in Nat BY ProductGrows
<1>3. p * r = r * p /\ p * q = q * p OBVIOUS
<1>4. c * w <= d * w /\ c * w \in Nat BY ProductGrows
<1>5. p * q \in Nat /\ d * w \in Nat /\ m * w \in Nat OBVIOUS
<1> DEFINE ar == a * r  pr == p * r  pq == p * q  cw == c * w  dw == d * w  mw == m * w
<1>6. /\ ar <= pr /\ pr <= pq /\ cw <= dw /\ pq + dw <= mw
      /\ ar \in Nat /\ pr \in Nat /\ pq \in Nat /\ cw \in Nat /\ dw \in Nat /\ mw \in Nat
  BY <1>1, <1>2, <1>3, <1>4, <1>5
<1> HIDE DEF ar, pr, pq, cw, dw, mw
<1>7. ar + cw <= mw BY <1>6
<1> QED BY <1>7 DEF ar, cw, mw

(* A time lies in one window only.                                         *)
LEMMA QuotientUnique ==
  ASSUME NEW q \in Nat, NEW t \in Nat, NEW w \in Nat \ {0}, q * w <= t, t < q * w + w
  PROVE  t \div w = q
<1> DEFINE p == t \div w
<1>1. p \in Nat /\ p * w <= t /\ t < p * w + w OBVIOUS
<1> HIDE DEF p
<1>2. q * w \in Nat /\ p * w \in Nat BY <1>1
<1>3. ~(p + 1 <= q)
  <2>1. p + 1 <= q => (p + 1) * w <= q * w BY <1>1, ProductGrows
  <2>2. (p + 1) * w = p * w + w BY <1>1
  <2> QED BY <1>1, <1>2, <2>1, <2>2
<1>4. ~(q + 1 <= p)
  <2>1. q + 1 <= p => (q + 1) * w <= p * w BY <1>1, ProductGrows
  <2>2. (q + 1) * w = q * w + w OBVIOUS
  <2> QED BY <1>1, <1>2, <2>1, <2>2
<1>5. p = q BY <1>1, <1>3, <1>4
<1> QED BY <1>5 DEF p

(* A time and a window that begins not after it: the window it lies in.    *)
LEMMA WindowOfUnique ==
  ASSUME NEW cl \in Clients, NEW t \in Nat, NEW u \in Nat
  PROVE  /\ WindowOf(cl, t) <= u /\ u < WindowOf(cl, t) + Window(cl)
              => WindowOf(cl, u) = WindowOf(cl, t)
         /\ u = WindowOf(cl, t) + Window(cl) => WindowOf(cl, u) = u
<1> DEFINE w == Window(cl)
           q == t \div w
<1>1. w \in Nat \ {0} BY ClientType
<1> HIDE DEF w
<1>2. q \in Nat BY <1>1
<1> HIDE DEF q
<1>3. q * w \in Nat /\ (q + 1) * w = q * w + w BY <1>1, <1>2
<1>4. WindowOf(cl, t) = q * w BY DEF WindowOf, q, w
<1>5. q * w <= u /\ u < q * w + w => u \div w = q BY <1>1, <1>2, QuotientUnique
<1>6. u = q * w + w => u \div w = q + 1
  <2>1. SUFFICES ASSUME u = q * w + w PROVE u \div w = q + 1 OBVIOUS
  <2>2. (q + 1) * w <= u /\ u < (q + 1) * w + w BY <1>1, <1>3, <2>1
  <2> QED BY <1>1, <1>2, <2>2, QuotientUnique
<1>7. WindowOf(cl, u) = (u \div w) * w BY DEF WindowOf, w
<1> QED BY <1>3, <1>4, <1>5, <1>6, <1>7 DEF w

-----------------------------------------------------------------------------
(* What a step does to the clock, to a counter and to the calls admitted.  *)

Admits(k, cl, s) ==
  /\ Estimate(k)
  /\ call[k].of = cl
  /\ WindowOf(cl, call[k].at) = s
  /\ clock < s + Window(cl)
  /\ WithinEstimate(cl, Get(WindowKey(cl, s - Window(cl)), call[k].now), call[k].count, call[k].at)
  /\ AdmittedIn(cl, s)' = AdmittedIn(cl, s) + 1

(* Only the clock moves when it does.                                      *)
LEMMA ClockStep ==
  ASSUME TypeOK, [Next]_vars
  PROVE  /\ clock \in Nat /\ clock' \in Nat
         /\ \/ clock' = clock
            \/ clock' = clock + 1 /\ UNCHANGED <<data, call, admitted>>
<1>1. clock \in Nat BY DEF TypeOK
<1>2. \/ clock' = clock
      \/ clock' = clock + 1 /\ UNCHANGED <<data, call, admitted>>
  BY DEF Next, CallNext, CheckUnlimited, Check, ReadTime, Count, Estimate, Consume,
         Cleanup, Tick, vars
<1> QED BY <1>1, <1>2

(* A sliding window admits a call when its estimate is made, if at all.    *)
LEMMA AdmissionStep ==
  ASSUME TypeOK, CallInv, [Next]_vars, NEW cl \in Clients, Algorithm(cl) = "sliding", NEW s
  PROVE  AdmittedIn(cl, s)' = AdmittedIn(cl, s) \/ \E k \in Calls : Admits(k, cl, s)
<1>1. ASSUME UNCHANGED admitted PROVE AdmittedIn(cl, s)' = AdmittedIn(cl, s)
  BY <1>1 DEF AdmittedIn
<1>2. ASSUME NEW k \in Calls, NEW ok, Answer(k, ok), Algorithm(call[k].of) # "sliding"
      PROVE  AdmittedIn(cl, s)' = AdmittedIn(cl, s)
  BY <1>2, AnswerEffect
<1>3. ASSUME NEW k \in Calls, Count(k) PROVE AdmittedIn(cl, s)' = AdmittedIn(cl, s)
  <2>1. CASE Algorithm(call[k].of) = "fixed" BY <1>2, <1>3, <2>1 DEF Count
  <2>2. CASE Algorithm(call[k].of) # "fixed" BY <1>1, <1>3, <2>2 DEF Count
  <2> QED BY <2>1, <2>2
<1>4. ASSUME NEW k \in Calls, Consume(k) PROVE AdmittedIn(cl, s)' = AdmittedIn(cl, s)
  <2>1. Algorithm(call[k].of) = "bucket" BY <1>4 DEF Consume, CallInv, Busy
  <2>2. PICK ok : Answer(k, ok) BY <1>4 DEF Consume
  <2> QED BY <1>2, <2>1, <2>2
<1>5. ASSUME NEW k \in Calls, Estimate(k)
      PROVE  AdmittedIn(cl, s)' = AdmittedIn(cl, s) \/ Admits(k, cl, s)
  <2> DEFINE mine == call[k].of
             start == WindowOf(mine, call[k].at)
             p == Get(WindowKey(mine, start - Window(mine)), call[k].now)
             ok == WithinEstimate(mine, p, call[k].count, call[k].at)
  <2>1. Answer(k, ok) BY <1>5 DEF Estimate
  <2>2. Algorithm(mine) = "sliding" BY <1>5 DEF Estimate, CallInv, Busy
  <2>3. Slot(k) = start BY <2>2 DEF Slot
  <2>4. InTime(k) <=> clock < start + Window(mine) BY <2>2, <2>3 DEF InTime
  <2>5. AdmittedIn(cl, s)' =
          IF ok /\ InTime(k) /\ cl = mine /\ s = start
          THEN AdmittedIn(cl, s) + 1 ELSE AdmittedIn(cl, s)
    BY <2>1, <2>3, AnswerEffect
  <2> QED BY <1>5, <2>4, <2>5 DEF Admits
<1> QED
  BY <1>1, <1>3, <1>4, <1>5
     DEF Next, CallNext, CheckUnlimited, Check, ReadTime, Cleanup, Tick, vars

(* What is found of the counter of a sliding window until the next is over *)
(* is what is there.                                                       *)
LEMMA StillThere ==
  ASSUME TypeOK, LongExpiryInv, NEW cl \in Clients, Algorithm(cl) = "sliding", NEW s \in Nat,
         NEW now \in Nat, now <= clock, clock < s + 2 * Window(cl)
  PROVE  /\ Get(WindowKey(cl, s), now) = Val(cl, s)
         /\ WindowKey(cl, s) \in DOMAIN data => now < data[WindowKey(cl, s)].exp
<1> DEFINE key == WindowKey(cl, s)
<1>1. key.kind = "window" /\ key.start = s /\ key.of = cl BY DEF WindowKey
<1>2. ASSUME key \in DOMAIN data PROVE now < data[key].exp
  <2>1. s + 2 * Window(cl) <= data[key].exp BY <1>1, <1>2 DEF LongExpiryInv
  <2>2. data[key].exp \in Nat BY <1>2 DEF TypeOK, StoreOK
  <2> QED BY <2>1, <2>2, ClientType DEF TypeOK
<1> QED BY <1>2 DEF Get, Val

(* The counter of a sliding window does not go back until then.            *)
LEMMA ValStep ==
  ASSUME TypeOK, CallInv, LongExpiryInv, [Next]_vars, NEW cl \in Clients,
         Algorithm(cl) = "sliding", NEW s \in Nat, clock < s + 2 * Window(cl)
  PROVE  Val(cl, s) \in Nat /\ Val(cl, s)' \in Nat /\ Val(cl, s) <= Val(cl, s)'
<1>0. Val(cl, s) \in Nat BY CountTypes
<1>a. SUFFICES Val(cl, s)' = Val(cl, s) \/ Val(cl, s)' = Val(cl, s) + 1 BY <1>0
<1>1. ASSUME UNCHANGED data PROVE Val(cl, s)' = Val(cl, s) BY <1>1 DEF Val
<1>2. ASSUME NEW k \in Calls, Count(k)
      PROVE  Val(cl, s)' = Val(cl, s) \/ Val(cl, s)' = Val(cl, s) + 1
  <2> DEFINE key == WindowKey(call[k].of, WindowOf(call[k].of, call[k].at))
             val == Get(key, call[k].now) + 1
             exp == call[k].now + Ttl(call[k].of)
  <2>1. data' = Insert(data, key, val, exp) BY <1>2 DEF Count
  <2>2. call[k].now \in Nat /\ call[k].now <= clock
    BY <1>2, BusyType DEF Count, Busy, BusyCall, CallInv
  <2>3. key = WindowKey(cl, s) => val = Val(cl, s) + 1 BY <2>2, StillThere
  <2> HIDE DEF key, val, exp
  <2>4. CASE key = WindowKey(cl, s)
    <3>1. WindowKey(cl, s) \in DOMAIN data' /\ data'[WindowKey(cl, s)].val = val
      BY <2>1, <2>4 DEF Insert
    <3> QED BY <2>3, <2>4, <3>1 DEF Val
  <2>5. CASE key # WindowKey(cl, s) BY <2>1, <2>5 DEF Val, Insert
  <2> QED BY <2>4, <2>5
<1>3. ASSUME NEW k \in Calls, Consume(k) PROVE Val(cl, s)' = Val(cl, s)
  <2>1. PICK v, w, exp : data' = Insert(Insert(data, TokensKey(call[k].of), v, exp),
                                        RefillKey(call[k].of), w, exp)
    BY <1>3 DEF Consume
  <2> QED BY <2>1 DEF Val, Insert, TokensKey, RefillKey, WindowKey
<1>4. ASSUME NEW now \in Start .. clock, Cleanup(now) PROVE Val(cl, s)' = Val(cl, s)
  <2>1. now \in Nat /\ now <= clock BY RateLimitAssumption DEF TypeOK
  <2>2. WindowKey(cl, s) \in DOMAIN data => now < data[WindowKey(cl, s)].exp
    BY <2>1, StillThere
  <2> QED BY <1>4, <2>2 DEF Cleanup, Restrict, Val
<1> QED
  BY <1>1, <1>2, <1>3, <1>4
     DEF Next, CallNext, CheckUnlimited, Check, ReadTime, Estimate, Tick, vars

(* The call that a sliding window counts until the next is over gets the   *)
(* next place.                                                             *)
LEMMA CountEffect ==
  ASSUME TypeOK, CallInv, LongExpiryInv, NEW k \in Calls, Count(k),
         NEW cl \in Clients, cl = call[k].of, Algorithm(cl) = "sliding",
         NEW s \in Nat, s = WindowOf(cl, call[k].at), clock < s + 2 * Window(cl)
  PROVE  /\ Val(cl, s)' = Val(cl, s) + 1
         /\ call' = [call EXCEPT ![k] = [pc |-> "get", of |-> cl, at |-> call[k].at,
                                         now |-> call[k].now, count |-> Val(cl, s) + 1]]
<1> DEFINE key == WindowKey(cl, s)
           val == Get(key, call[k].now) + 1
<1>1. call[k] \in BusyCall /\ call[k].now <= clock BY BusyType DEF Count, Busy, CallInv
<1>2. call[k].now \in Nat BY <1>1 DEF BusyCall
<1>3. val = Val(cl, s) + 1 BY <1>1, <1>2, StillThere
<1>4. data' = Insert(data, key, val, call[k].now + Ttl(cl)) BY DEF Count
<1>5. Continue(k, "get", call[k].now, val) BY DEF Count
<1> HIDE DEF val, key
<1>6. key \in DOMAIN data' /\ data'[key].val = val BY <1>4 DEF Insert
<1>7. Val(cl, s)' = val BY <1>6 DEF Val, key
<1> QED BY <1>3, <1>5, <1>7 DEF Continue

-----------------------------------------------------------------------------
(* The parts of JInv are preserved.                                        *)

(* A counter is written in or after its window, to last two of them.       *)
LEMMA LongExpiryStep ==
  TypeOK /\ CallInv /\ LongExpiryInv /\ [Next]_vars => LongExpiryInv'
<1> SUFFICES ASSUME TypeOK, CallInv, LongExpiryInv, [Next]_vars PROVE LongExpiryInv' OBVIOUS
<1>1. ASSUME UNCHANGED data PROVE LongExpiryInv'
  BY <1>1 DEF LongExpiryInv, Window, Algorithm
<1>2. ASSUME NEW k \in Calls, Count(k) PROVE LongExpiryInv'
  <2> DEFINE cl == call[k].of
             start == WindowOf(cl, call[k].at)
             key == WindowKey(cl, start)
             val == Get(key, call[k].now) + 1
             exp == call[k].now + Ttl(cl)
  <2>1. call[k].pc \in Busy /\ call[k] \in BusyCall BY <1>2, BusyType DEF Count, Busy
  <2>2. cl \in Clients /\ call[k].at \in Nat /\ call[k].now \in Nat BY <2>1 DEF BusyCall
  <2>3. call[k].at <= call[k].now BY <2>1 DEF CallInv
  <2>4. Algorithm(cl) = "sliding" => start + 2 * Window(cl) <= exp
    BY <2>2, <2>3, WindowOfType, ClientType DEF Ttl
  <2>5. key.start = start /\ key.of = cl BY DEF WindowKey
  <2>6. data' = Insert(data, key, val, exp) BY <1>2 DEF Count
  <2> HIDE DEF key, val, exp, start
  <2>7. /\ DOMAIN data' = DOMAIN data \cup {key}
        /\ data'[key].exp = exp
        /\ \A x \in DOMAIN data : x # key => data'[x] = data[x]
    BY <2>6 DEF Insert
  <2> QED BY <2>4, <2>5, <2>7 DEF LongExpiryInv, Window, Algorithm
<1>3. ASSUME NEW k \in Calls, Consume(k) PROVE LongExpiryInv'
  <2>1. PICK v, w, exp : data' = Insert(Insert(data, TokensKey(call[k].of), v, exp),
                                        RefillKey(call[k].of), w, exp)
    BY <1>3 DEF Consume
  <2>2. \A x \in DOMAIN data' :
          x.kind = "window" => x \in DOMAIN data /\ data'[x] = data[x]
    BY <2>1 DEF Insert, TokensKey, RefillKey
  <2> QED BY <2>2 DEF LongExpiryInv, Window, Algorithm
<1>4. ASSUME NEW now, Cleanup(now) PROVE LongExpiryInv'
  BY <1>4 DEF Cleanup, Restrict, LongExpiryInv, Window, Algorithm
<1> QED
  BY <1>1, <1>2, <1>3, <1>4
     DEF Next, CallNext, CheckUnlimited, Check, ReadTime, Estimate, Tick, vars

(* A call that waits for its estimate was counted before, or is now.       *)
LEMMA WaitingStep ==
  ASSUME TypeOK, CallInv, [Next]_vars, NEW k \in Calls, call'[k].pc \in {"get", "reading"}
  PROVE  /\ call'[k].of = call[k].of /\ call'[k].at = call[k].at
         /\ call[k] \in BusyCall
         /\ Algorithm(call[k].of) = "sliding"
         /\ \/ call[k].pc \in {"get", "reading"} /\ call'[k].count = call[k].count
            \/ Count(k)
<1> DEFINE Goal == /\ call'[k].of = call[k].of /\ call'[k].at = call[k].at
                   /\ call[k].pc \in Busy
                   /\ Algorithm(call[k].of) = "sliding"
                   /\ \/ call[k].pc \in {"get", "reading"} /\ call'[k].count = call[k].count
                      \/ Count(k)
<1>1. ASSUME call'[k] = call[k] PROVE Goal
  BY <1>1 DEF CallInv, Busy
<1>2. ASSUME NEW j \in Calls, NEW c \in Conns, NEW h \in Handlers,
             CheckUnlimited(j, c, h) \/ Check(j, c, h)
      PROVE  Goal
  <2>1. call'[j].pc \in {"allowed", "consuming", "incr"}
    BY <1>2 DEF CheckUnlimited, Check, TypeOK
  <2>2. j # k => call'[k] = call[k] BY <1>2 DEF CheckUnlimited, Check, TypeOK
  <2> QED BY <1>1, <2>1, <2>2
<1>3. ASSUME NEW j \in Calls, ReadTime(j) PROVE Goal
  <2>1. j # k => call'[k] = call[k] BY <1>3 DEF ReadTime, Continue, TypeOK
  <2>2. CASE j = k
    <3>1. /\ call[k].pc = "get"
          /\ call'[k].of = call[k].of /\ call'[k].at = call[k].at
          /\ call'[k].count = call[k].count
      BY <1>3, <2>2 DEF ReadTime, Continue, TypeOK
    <3> QED BY <3>1 DEF CallInv, Busy
  <2> QED BY <1>1, <2>1, <2>2
<1>4. ASSUME NEW j \in Calls, NEW ok, Answer(j, ok) PROVE Goal
  <2>1. call'[j].pc \in Settled BY <1>4 DEF Answer, TypeOK, Settled
  <2>2. j # k => call'[k] = call[k] BY <1>4 DEF Answer, TypeOK
  <2> QED BY <1>1, <2>1, <2>2 DEF Settled
<1>5. ASSUME NEW j \in Calls, Count(j) PROVE Goal
  <2>1. CASE Algorithm(call[j].of) = "fixed" BY <1>4, <1>5, <2>1 DEF Count
  <2>2. CASE Algorithm(call[j].of) # "fixed"
    <3>1. PICK v : Continue(j, "get", call[j].now, v) BY <1>5, <2>2 DEF Count
    <3>2. j # k => call'[k] = call[k] BY <3>1 DEF Continue, TypeOK
    <3>3. CASE j = k
      <4>1. call[k].pc = "counting" /\ call[k].pc \in Busy BY <1>5, <3>3 DEF Count, Busy
      <4>2. call[k] \in BusyCall BY <4>1, BusyType
      <4>3. Algorithm(call[k].of) # "bucket" BY <4>1 DEF CallInv
      <4>4. Algorithm(call[k].of) = "sliding"
        BY <2>2, <3>3, <4>2, <4>3, ClientType DEF BusyCall
      <4>5. call'[k].of = call[k].of /\ call'[k].at = call[k].at
        BY <3>1, <3>3 DEF Continue, TypeOK
      <4> QED BY <1>5, <3>3, <4>1, <4>4, <4>5
    <3> QED BY <1>1, <3>2, <3>3
  <2> QED BY <2>1, <2>2
<1>6. ASSUME NEW j \in Calls, Estimate(j) \/ Consume(j) PROVE Goal
  BY <1>4, <1>6 DEF Estimate, Consume
<1>7. ASSUME UNCHANGED call PROVE Goal BY <1>1, <1>7
<1>8. Goal
  BY <1>2, <1>3, <1>5, <1>6, <1>7 DEF Next, CallNext, Cleanup, Tick, vars
<1> QED BY <1>8, BusyType

(* A place that was given out stays within the counter.                    *)
LEMMA CountInvStep ==
  TypeOK /\ CallInv /\ LongExpiryInv /\ CountInv /\ [Next]_vars => CountInv'
<1> SUFFICES ASSUME TypeOK, CallInv, LongExpiryInv, CountInv, [Next]_vars,
                    NEW k \in Calls, call'[k].pc \in {"get", "reading"},
                    NEW cl, cl = call'[k].of,
                    NEW s, s = WindowOf(cl, call'[k].at), clock' < s + Window(cl)
             PROVE  call'[k].count <= Val(cl, s)'
  BY ZenonT(60) DEF CountInv, WindowOf, Window, Val, WindowKey
<1>0. cl \in Clients /\ s \in Nat
  <2>1. cl \in Clients /\ call'[k].at \in Nat BY WaitingStep DEF BusyCall
  <2> QED BY <2>1, WindowOfType
<1>1. /\ cl = call[k].of /\ s = WindowOf(cl, call[k].at)
      /\ call[k] \in BusyCall
      /\ Algorithm(cl) = "sliding"
      /\ \/ call[k].pc \in {"get", "reading"} /\ call'[k].count = call[k].count
         \/ Count(k)
  BY WaitingStep
<1>2. Window(cl) \in Nat \ {0} BY <1>0, ClientType
<1>3. clock < s + Window(cl) /\ clock < s + 2 * Window(cl) BY <1>0, <1>2, ClockStep
<1>4. Val(cl, s) \in Nat /\ Val(cl, s)' \in Nat /\ Val(cl, s) <= Val(cl, s)'
  BY <1>0, <1>1, <1>3, ValStep
<1>5. CASE call[k].pc \in {"get", "reading"} /\ call'[k].count = call[k].count
  <2>1. call[k].count <= Val(cl, s) BY <1>1, <1>3, <1>5 DEF CountInv
  <2>2. call[k].count \in Nat BY <1>1 DEF BusyCall
  <2> QED BY <1>4, <1>5, <2>1, <2>2
<1>6. CASE Count(k)
  <2>1. /\ Val(cl, s)' = Val(cl, s) + 1
        /\ call' = [call EXCEPT ![k] = [pc |-> "get", of |-> cl, at |-> call[k].at,
                                        now |-> call[k].now, count |-> Val(cl, s) + 1]]
    BY <1>0, <1>1, <1>3, <1>6, CountEffect
  <2>2. call'[k].count = Val(cl, s) + 1 BY <2>1 DEF TypeOK
  <2> QED BY <1>4, <2>1, <2>2
<1> QED BY <1>1, <1>5, <1>6

(* A sliding window admits one of the calls that were counted among its    *)
(* first max_requests, in time or late, or none.                           *)
LEMMA UsedStep ==
  ASSUME TypeOK, CallInv, [Next]_vars, NEW cl \in Clients, Algorithm(cl) = "sliding",
         NEW s \in Nat
  PROVE  \/ Used(cl, s)' = Used(cl, s)
         \/ \E k \in Pending(cl, s) :
              /\ Pending(cl, s)' = Pending(cl, s) \ {k}
              /\ Used(cl, s)' = Used(cl, s) + 1
<1>0. AdmittedIn(cl, s) \in Nat /\ LateIn(cl, s) \in Nat BY DEF AdmittedIn, LateIn, TypeOK
<1>1. ASSUME UNCHANGED <<admitted, late>> PROVE Used(cl, s)' = Used(cl, s)
  BY <1>1 DEF Used, AdmittedIn, LateIn
<1>2. ASSUME NEW k \in Calls, NEW ok, Answer(k, ok), Algorithm(call[k].of) # "sliding"
      PROVE  Used(cl, s)' = Used(cl, s)
  BY <1>2, AnswerEffect, LateEffect DEF Used
<1>3. ASSUME NEW k \in Calls, Count(k) PROVE Used(cl, s)' = Used(cl, s)
  <2>1. CASE Algorithm(call[k].of) = "fixed" BY <1>2, <1>3, <2>1 DEF Count
  <2>2. CASE Algorithm(call[k].of) # "fixed" BY <1>1, <1>3, <2>2 DEF Count
  <2> QED BY <2>1, <2>2
<1>4. ASSUME NEW k \in Calls, Consume(k) PROVE Used(cl, s)' = Used(cl, s)
  <2>1. Algorithm(call[k].of) = "bucket" BY <1>4 DEF Consume, CallInv, Busy
  <2>2. PICK ok : Answer(k, ok) BY <1>4 DEF Consume
  <2> QED BY <1>2, <2>1, <2>2
<1>5. ASSUME NEW k \in Calls, Estimate(k), Used(cl, s)' # Used(cl, s)
      PROVE  /\ k \in Pending(cl, s)
             /\ Pending(cl, s)' = Pending(cl, s) \ {k}
             /\ Used(cl, s)' = Used(cl, s) + 1
  <2> DEFINE mine == call[k].of
             start == WindowOf(mine, call[k].at)
             p == Get(WindowKey(mine, start - Window(mine)), call[k].now)
             ok == WithinEstimate(mine, p, call[k].count, call[k].at)
  <2>1. call[k].pc = "reading" /\ call[k] \in BusyCall /\ Algorithm(mine) = "sliding"
    BY <1>5, BusyType DEF Estimate, CallInv, Busy
  <2>2. mine \in Clients /\ call[k].at \in Nat /\ call[k].count \in Nat BY <2>1 DEF BusyCall
  <2>3. Answer(k, ok) BY <1>5 DEF Estimate
  <2>4. Slot(k) = start /\ ~(InTime(k) /\ JustOver(k)) BY <2>1 DEF Slot, JustOver
  <2> HIDE DEF ok
  <2>5. /\ AdmittedIn(cl, s)' = IF ok /\ InTime(k) /\ cl = mine /\ s = start
                                THEN AdmittedIn(cl, s) + 1 ELSE AdmittedIn(cl, s)
        /\ LateIn(cl, s)' = IF ok /\ JustOver(k) /\ cl = mine /\ s = start
                            THEN LateIn(cl, s) + 1 ELSE LateIn(cl, s)
    BY <2>3, <2>4, AnswerEffect, LateEffect
  <2>6. ok /\ cl = mine /\ s = start /\ Used(cl, s)' = Used(cl, s) + 1
    BY <1>0, <1>5, <2>4, <2>5 DEF Used
  <2>7. call[k].count <= MaxRequests(mine)
    <3>1. p \in Nat BY GetType
    <3>2. Window(mine) \in Nat \ {0} /\ MaxRequests(mine) \in Nat BY <2>2, ClientType
    <3>3. Window(mine) - (call[k].at - WindowOf(mine, call[k].at)) \in Nat
      BY <2>2, <3>2, WindowOfType
    <3> HIDE DEF p
    <3> QED BY <2>2, <2>6, <3>1, <3>2, <3>3, EstimateBound DEF WithinEstimate, ok
  <2>8. k \in Pending(cl, s) BY <2>1, <2>6, <2>7 DEF Pending
  <2>9. call'[k].pc \in Settled /\ \A j \in Calls \ {k} : call'[j] = call[j]
    BY <2>3 DEF Answer, TypeOK, Settled
  <2>10. Pending(cl, s)' = Pending(cl, s) \ {k}
    BY <2>9 DEF Pending, WindowOf, Window, MaxRequests, Settled
  <2> QED BY <2>6, <2>8, <2>10
<1> QED
  BY <1>1, <1>3, <1>4, <1>5
     DEF Next, CallNext, CheckUnlimited, Check, ReadTime, Cleanup, Tick, vars

(* The counter of a sliding window keeps covering the calls admitted: it   *)
(* grows with each call that may be, and each that is gives up its place.  *)
LEMMA LateStep ==
  TypeOK /\ CallInv /\ LongExpiryInv /\ LateInv /\ [Next]_vars => LateInv'
<1> SUFFICES ASSUME TypeOK, CallInv, LongExpiryInv, LateInv, [Next]_vars,
                    NEW cl \in Clients, NEW s \in Nat, Algorithm(cl) = "sliding",
                    clock' < s + 2 * Window(cl)
             PROVE  Used(cl, s)' + Cardinality(Pending(cl, s)')
                      <= Lesser(Val(cl, s)', MaxRequests(cl))
  BY DEF LateInv, Algorithm, Window, MaxRequests
<1> DEFINE some == Pending(cl, s)
           next == Pending(cl, s)'
<1>1. Window(cl) \in Nat \ {0} /\ MaxRequests(cl) \in Nat BY ClientType
<1>2. clock < s + 2 * Window(cl) BY <1>1, ClockStep
<1>3. Val(cl, s) \in Nat /\ Val(cl, s)' \in Nat /\ Val(cl, s) <= Val(cl, s)'
  BY <1>2, ValStep
<1>4. Used(cl, s) + Cardinality(some) <= Lesser(Val(cl, s), MaxRequests(cl))
  BY <1>2 DEF LateInv
<1>5. Used(cl, s) \in Nat BY DEF Used, AdmittedIn, LateIn, TypeOK
<1>6. IsFiniteSet(some) /\ Cardinality(some) \in Nat BY CountTypes
<1>7. ASSUME NEW k \in next
      PROVE  /\ k \in Calls
             /\ k \in some \/ (Count(k) /\ call[k].of = cl /\ WindowOf(cl, call[k].at) = s)
  <2>1. /\ k \in Calls /\ call'[k].pc \in {"get", "reading"} /\ call'[k].of = cl
        /\ WindowOf(cl, call'[k].at) = s /\ call'[k].count <= MaxRequests(cl)
    BY <1>7 DEF Pending, WindowOf, Window, MaxRequests
  <2>2. /\ call'[k].of = call[k].of /\ call'[k].at = call[k].at
        /\ \/ call[k].pc \in {"get", "reading"} /\ call'[k].count = call[k].count
           \/ Count(k)
    BY <2>1, WaitingStep
  <2> QED BY <2>1, <2>2 DEF Pending
<1>8. CASE Used(cl, s)' = Used(cl, s) /\ next \subseteq some
  <2>1. Cardinality(next) <= Cardinality(some) /\ Cardinality(next) \in Nat
    BY <1>6, <1>8, FS_Subset, FS_CardinalityType
  <2> QED BY <1>1, <1>3, <1>4, <1>5, <1>6, <1>8, <2>1 DEF Lesser
<1>9. ASSUME Used(cl, s)' = Used(cl, s), NEW k \in next, k \notin some
      PROVE  Used(cl, s)' + Cardinality(next) <= Lesser(Val(cl, s)', MaxRequests(cl))
  <2>1. k \in Calls /\ Count(k) /\ call[k].of = cl /\ WindowOf(cl, call[k].at) = s
    BY <1>7, <1>9
  <2>2. /\ Val(cl, s)' = Val(cl, s) + 1
        /\ call' = [call EXCEPT ![k] = [pc |-> "get", of |-> cl, at |-> call[k].at,
                                        now |-> call[k].now, count |-> Val(cl, s) + 1]]
    BY <1>2, <2>1, CountEffect
  <2>3. call'[k].count = Val(cl, s) + 1 /\ \A j \in Calls \ {k} : call'[j] = call[j]
    BY <2>1, <2>2 DEF TypeOK
  <2>4. Val(cl, s) + 1 <= MaxRequests(cl) BY <1>9, <2>3 DEF Pending, MaxRequests
  <2>5. next \subseteq some \cup {k}
    <3> SUFFICES ASSUME NEW j \in next, j # k PROVE j \in some OBVIOUS
    <3>1. j \in Calls /\ call'[j] = call[j] BY <1>7, <2>3
    <3> QED BY <3>1 DEF Pending, WindowOf, Window, MaxRequests
  <2>6. Cardinality(some \cup {k}) = Cardinality(some) + 1 /\ IsFiniteSet(some \cup {k})
    BY <1>6, <1>9, FS_AddElement
  <2>7. Cardinality(next) <= Cardinality(some) + 1 /\ Cardinality(next) \in Nat
    BY <2>5, <2>6, FS_Subset, FS_CardinalityType
  <2> QED BY <1>1, <1>3, <1>4, <1>5, <1>6, <1>9, <2>2, <2>4, <2>7 DEF Lesser
<1>10. ASSUME NEW k \in some, next = some \ {k}, Used(cl, s)' = Used(cl, s) + 1
       PROVE  Used(cl, s)' + Cardinality(next) <= Lesser(Val(cl, s)', MaxRequests(cl))
  <2>1. Cardinality(next) = Cardinality(some) - 1 BY <1>6, <1>10, FS_RemoveElement
  <2> QED BY <1>1, <1>3, <1>4, <1>5, <1>6, <1>10, <2>1 DEF Lesser
<1> QED BY <1>8, <1>9, <1>10, UsedStep

(* A call does not run before its window begins.                           *)
LEMMA FutureStep ==
  TypeOK /\ CallInv /\ FutureInv /\ [Next]_vars => FutureInv'
<1> SUFFICES ASSUME TypeOK, CallInv, FutureInv, [Next]_vars,
                    NEW cl \in Clients, NEW s \in Nat, Algorithm(cl) = "sliding", clock' < s
             PROVE  AdmittedIn(cl, s)' = 0
  BY DEF FutureInv, Algorithm
<1>1. clock < s BY ClockStep
<1>2. ASSUME NEW k \in Calls, Admits(k, cl, s) PROVE FALSE
  <2>1. call[k].pc \in Busy /\ call[k] \in BusyCall
    BY <1>2, BusyType DEF Admits, Estimate, Busy
  <2>2. call[k].at \in Nat /\ call[k].now \in Nat /\ call[k].at <= clock
    BY <2>1, ClockStep DEF BusyCall, CallInv
  <2>3. s <= call[k].at BY <1>2, <2>2, WindowOfType DEF Admits
  <2> QED BY <1>1, <2>2, <2>3, ClockStep
<1> QED BY <1>1, <1>2, AdmissionStep DEF FutureInv

-----------------------------------------------------------------------------
(* Calls that wait are finitely many.                                      *)
LEMMA UpToType ==
  ASSUME NEW cl, NEW s, NEW n
  PROVE  /\ IsFiniteSet(UpTo(cl, s, n)) /\ Cardinality(UpTo(cl, s, n)) \in Nat
         /\ IsFiniteSet(UpTo(cl, s, n)') /\ Cardinality(UpTo(cl, s, n)') \in Nat
<1>1. UpTo(cl, s, n) \subseteq Calls /\ UpTo(cl, s, n)' \subseteq Calls BY DEF UpTo
<1> QED BY <1>1, RateLimitAssumption, FS_Subset, FS_CardinalityType

(* What was admitted in the window before, and fits with the places of the *)
(* present one: neither changes within a window, except for the better.    *)
LEMMA PreviousKept ==
  ASSUME TypeOK, CallInv, [Next]_vars, NEW cl \in Clients, Algorithm(cl) = "sliding",
         NEW s \in Nat, s <= clock
  PROVE  /\ AdmittedIn(cl, s - Window(cl))' = AdmittedIn(cl, s - Window(cl))
         /\ AdmittedIn(cl, s - Window(cl)) \in Nat
<1>1. AdmittedIn(cl, s - Window(cl)) \in Nat BY DEF AdmittedIn, TypeOK
<1>2. ASSUME NEW k \in Calls, Admits(k, cl, s - Window(cl)) PROVE FALSE
  BY <1>2, ClientType, ClockStep DEF Admits
<1> QED BY <1>1, <1>2, AdmissionStep

(* Within a window, a step that admits no call leaves room as it was.      *)
LEMMA RoomKept ==
  ASSUME TypeOK, CallInv, LongExpiryInv, CountInv, [Next]_vars,
         NEW cl \in Clients, Algorithm(cl) = "sliding", NEW s \in Nat,
         s <= clock, clock < s + Window(cl), clock' = clock,
         NEW c \in Nat, Room(cl, s, c), NEW n \in Nat, c <= n,
         AdmittedIn(cl, s)' = AdmittedIn(cl, s)
  PROVE  AdmittedIn(cl, s)' + Cardinality(UpTo(cl, s, n)') <= n
<1>1. Window(cl) \in Nat \ {0} BY ClientType
<1>2. Val(cl, s) \in Nat /\ AdmittedIn(cl, s) \in Nat BY CountTypes
<1>3. \A m \in Nat : c <= m => AdmittedIn(cl, s) + Cardinality(UpTo(cl, s, m)) <= m
  BY DEF Room
<1>4. \A k \in Calls :
        call'[k].pc \in {"get", "reading"} =>
          /\ call'[k].of = call[k].of /\ call'[k].at = call[k].at
          /\ \/ call[k].pc \in {"get", "reading"} /\ call'[k].count = call[k].count
             \/ Count(k)
  BY WaitingStep
<1>5. CASE \E k \in Calls : Count(k) /\ call[k].of = cl /\ WindowOf(cl, call[k].at) = s
  <2>1. PICK k \in Calls : Count(k) /\ call[k].of = cl /\ WindowOf(cl, call[k].at) = s BY <1>5
  <2>2. call' = [call EXCEPT ![k] = [pc |-> "get", of |-> cl, at |-> call[k].at,
                                     now |-> call[k].now, count |-> Val(cl, s) + 1]]
    <3>1. clock < s + 2 * Window(cl) BY <1>1 DEF TypeOK
    <3> QED BY <2>1, <3>1, CountEffect
  <2>3. /\ call'[k].count = Val(cl, s) + 1
        /\ \A j \in Calls \ {k} : call'[j] = call[j]
    BY <2>2 DEF TypeOK
  <2>4. CASE n <= Val(cl, s)
    <3>1. UpTo(cl, s, n)' \subseteq UpTo(cl, s, n)
      BY <1>2, <2>3, <2>4 DEF UpTo, WindowOf, Window
    <3>2. Cardinality(UpTo(cl, s, n)') <= Cardinality(UpTo(cl, s, n))
      BY <3>1, UpToType, FS_Subset
    <3> QED BY <1>2, <1>3, <3>2, UpToType
  <2>5. CASE Val(cl, s) < n
    <3> DEFINE all == UpTo(cl, s, Val(cl, s))
    <3>1. UpTo(cl, s, n)' \subseteq all \cup {k}
      <4> SUFFICES ASSUME NEW j \in Calls, j # k, j \in UpTo(cl, s, n)' PROVE j \in all
        BY DEF UpTo
      <4>1. call'[j] = call[j] BY <2>3
      <4>2. /\ call[j].pc \in {"get", "reading"} /\ call[j].of = cl
            /\ WindowOf(cl, call[j].at) = s
        BY <4>1 DEF UpTo, WindowOf, Window
      <4>3. call[j].count <= Val(cl, s) BY <4>2 DEF CountInv
      <4> QED BY <4>2, <4>3 DEF UpTo
    <3>2. IsFiniteSet(all) /\ Cardinality(all) \in Nat BY UpToType
    <3>3. k \notin all BY <2>1 DEF UpTo, Count
    <3>4. IsFiniteSet(all \cup {k}) /\ Cardinality(all \cup {k}) = Cardinality(all) + 1
      BY <3>2, <3>3, FS_AddElement
    <3>5. Cardinality(UpTo(cl, s, n)') <= Cardinality(all) + 1
      BY <3>1, <3>4, FS_Subset
    <3>6. AdmittedIn(cl, s) + Cardinality(all) <= Val(cl, s)
      BY <1>2, <1>3 DEF Room
    <3> HIDE DEF all
    <3> QED BY <1>2, <2>5, <3>2, <3>5, <3>6, UpToType
  <2> QED BY <1>2, <2>4, <2>5
<1>6. CASE ~\E k \in Calls : Count(k) /\ call[k].of = cl /\ WindowOf(cl, call[k].at) = s
  <2>1. UpTo(cl, s, n)' \subseteq UpTo(cl, s, n)
    BY <1>4, <1>6 DEF UpTo, WindowOf, Window
  <2>2. Cardinality(UpTo(cl, s, n)') <= Cardinality(UpTo(cl, s, n))
    BY <2>1, UpToType, FS_Subset
  <2> QED BY <1>2, <1>3, <2>2, UpToType
<1> QED BY <1>5, <1>6

(* A call that is admitted gives up its place among those waiting.         *)
LEMMA AdmittedWaited ==
  ASSUME TypeOK, NEW k \in Calls, NEW cl, NEW s, Admits(k, cl, s), NEW n \in Nat, call[k].count <= n
  PROVE  Cardinality(UpTo(cl, s, n)') + 1 = Cardinality(UpTo(cl, s, n))
<1>1. PICK ok : Answer(k, ok) BY DEF Admits, Estimate
<1>2. call'[k].pc \in Settled /\ \A j \in Calls \ {k} : call'[j] = call[j]
  BY <1>1 DEF Answer, TypeOK, Settled
<1>3. k \in UpTo(cl, s, n) BY DEF UpTo, Admits, Estimate
<1>4. UpTo(cl, s, n)' = UpTo(cl, s, n) \ {k}
  BY <1>2 DEF UpTo, WindowOf, Window, Settled
<1>5. Cardinality(UpTo(cl, s, n)') = Cardinality(UpTo(cl, s, n)) - 1
  BY <1>3, <1>4, UpToType, FS_RemoveElement
<1> QED BY <1>5, UpToType

(* The weight of the previous window in the estimate of a call is at least *)
(* what it has now.                                                        *)
LEMMA AdmittedFits ==
  ASSUME TypeOK, CallInv, LongExpiryInv, LateInv, NEW k \in Calls,
         NEW cl \in Clients, Algorithm(cl) = "sliding", NEW s \in Nat, Admits(k, cl, s)
  PROVE  AdmittedIn(cl, s - Window(cl)) * (Window(cl) - (clock - s)) + call[k].count * Window(cl)
           <= MaxRequests(cl) * Window(cl)
<1> DEFINE w == Window(cl)
           m == MaxRequests(cl)
           a == AdmittedIn(cl, s - w)
           p == Get(WindowKey(cl, s - w), call[k].now)
           at == call[k].at
<1>1. w \in Nat \ {0} /\ m \in Nat BY ClientType
<1>2. call[k].pc \in Busy /\ call[k] \in BusyCall BY BusyType DEF Admits, Estimate, Busy
<1>3. /\ at \in Nat /\ call[k].now \in Nat /\ call[k].count \in Nat
      /\ at <= call[k].now /\ call[k].now <= clock /\ clock \in Nat
  BY <1>2 DEF BusyCall, CallInv, TypeOK
<1>4. s <= at /\ clock < s + w BY <1>3, WindowOfType DEF Admits
<1>5. p * (w - (at - s)) + call[k].count * w <= m * w BY DEF Admits, WithinEstimate
<1>6. p \in Nat BY GetType
<1>7. a \in Nat /\ a <= p
  <2>1. CASE s - w \in Nat
    <3>1. clock < (s - w) + 2 * w BY <1>1, <1>3, <1>4, <2>1
    <3>2. p = Val(cl, s - w) BY <1>3, <2>1, <3>1, StillThere
    <3>3. a \in Nat BY <2>1, CountTypes
    <3>4. a <= Val(cl, s - w)
      <4>1. Used(cl, s - w) + Cardinality(Pending(cl, s - w)) <= Lesser(Val(cl, s - w), m)
        BY <2>1, <3>1 DEF LateInv
      <4>2. LateIn(cl, s - w) \in Nat /\ Val(cl, s - w) \in Nat
            /\ Cardinality(Pending(cl, s - w)) \in Nat
        BY <2>1, CountTypes DEF LateIn, TypeOK
      <4> HIDE DEF w, m
      <4> QED BY <1>1, <3>3, <4>1, <4>2 DEF Used, Lesser, a
    <3> QED BY <3>2, <3>3, <3>4
  <2>2. CASE s - w \notin Nat
    <3>1. a = 0 BY <2>2 DEF AdmittedIn, TypeOK
    <3> QED BY <1>6, <3>1
  <2> QED BY <2>1, <2>2
<1>8. w - (clock - s) \in Nat /\ w - (at - s) \in Nat /\ w - (clock - s) <= w - (at - s)
  BY <1>1, <1>3, <1>4
<1> HIDE DEF w, m, a, p, at
<1>9. a * (w - (clock - s)) + call[k].count * w <= m * w
  BY <1>1, <1>3, <1>5, <1>6, <1>7, <1>8, Fits
<1> QED BY <1>9 DEF w, m, a

(* Room is left: in the present window by what the calls were given, in a  *)
(* new one because nothing was admitted in it yet.                         *)
LEMMA RoomStep ==
  IInv /\ JInv /\ [Next]_vars => BurstInv'
<1> SUFFICES ASSUME IInv, JInv, [Next]_vars,
                    NEW cl \in Clients, NEW z \in Nat, Algorithm(cl) = "sliding",
                    z = WindowOf(cl, clock')
             PROVE  \E c \in Nat : Room(cl, z, c)'
  BY DEF BurstInv, Algorithm, WindowOf, Window
<1> DEFINE w == Window(cl)
           m == MaxRequests(cl)
<1>a. TypeOK /\ CallInv /\ WindowBound BY DEF IInv
<1>b. LongExpiryInv /\ CountInv /\ LateInv /\ FutureInv /\ BurstInv BY DEF JInv
<1>c. w \in Nat \ {0} /\ m \in Nat BY ClientType
<1>d. /\ clock \in Nat /\ clock' \in Nat
      /\ \/ clock' = clock
         \/ clock' = clock + 1 /\ UNCHANGED <<data, call, admitted>>
  BY <1>a, ClockStep
<1>s. PICK s \in Nat : s = WindowOf(cl, clock) BY <1>d, WindowOfType
<1>e. s \in Nat /\ s <= clock /\ clock < s + w BY <1>d, <1>s, WindowOfType
<1>f. PICK c \in Nat : Room(cl, s, c) BY <1>b, <1>s DEF BurstInv
<1>g. z = IF clock' < s + w THEN s ELSE clock'
  BY <1>c, <1>d, <1>e, <1>s, WindowOfUnique
<1>h. AdmittedIn(cl, s - w) \in Nat /\ AdmittedIn(cl, s) \in Nat /\ Val(cl, s) \in Nat
  BY <1>a, <1>e, PreviousKept, CountTypes
<1>1. CASE clock' = clock
  <2>1. z = s BY <1>1, <1>e, <1>g
  <2>2. AdmittedIn(cl, s - w)' = AdmittedIn(cl, s - w) BY <1>a, <1>e, PreviousKept
  <2>3. Val(cl, s)' \in Nat /\ Val(cl, s) <= Val(cl, s)'
    BY <1>a, <1>b, <1>c, <1>d, <1>e, ValStep
  <2>4. c <= Val(cl, s) BY <1>f DEF Room
  <2>5. CASE AdmittedIn(cl, s)' = AdmittedIn(cl, s)
    <3>1. \A n \in Nat : c <= n => AdmittedIn(cl, s)' + Cardinality(UpTo(cl, s, n)') <= n
      BY <1>a, <1>b, <1>e, <1>f, <1>1, <2>5, RoomKept
    <3>2. c <= Val(cl, s)' BY <1>h, <2>3, <2>4
    <3>3. AdmittedIn(cl, s - w)' * (w - (clock' - s)) + c * w <= m * w
      BY <1>f, <1>1, <2>2 DEF Room
    <3>4. Room(cl, s, c)' BY <3>1, <3>2, <3>3 DEF Room, Window, MaxRequests
    <3> QED BY <2>1, <3>4
  <2>6. ASSUME NEW k \in Calls, Admits(k, cl, s) PROVE \E d \in Nat : Room(cl, z, d)'
    <3>1. /\ call[k] \in BusyCall /\ call[k].pc = "reading"
          /\ call[k].of = cl /\ WindowOf(cl, call[k].at) = s
      BY <1>a, <2>6, BusyType DEF Admits, Estimate, Busy
    <3>2. call[k].count \in Nat BY <3>1 DEF BusyCall
    <3>d. PICK d \in Nat : d = IF c <= call[k].count THEN call[k].count ELSE c BY <3>2
    <3>3. c <= d /\ call[k].count <= d BY <3>2, <3>d
    <3>4. call[k].count <= Val(cl, s) BY <1>b, <1>e, <3>1 DEF CountInv
    <3>5. d <= Val(cl, s)' BY <1>h, <2>3, <2>4, <3>2, <3>4, <3>d
    <3>6. AdmittedIn(cl, s - w)' * (w - (clock' - s)) + d * w <= m * w
      <4>1. AdmittedIn(cl, s - w) * (w - (clock - s)) + call[k].count * w <= m * w
        BY <1>a, <1>b, <1>e, <2>6, AdmittedFits
      <4>2. AdmittedIn(cl, s - w) * (w - (clock - s)) + c * w <= m * w
        BY <1>f DEF Room
      <4> QED BY <1>1, <2>2, <3>d, <4>1, <4>2
    <3>7. ASSUME NEW n \in Nat, d <= n
          PROVE  AdmittedIn(cl, s)' + Cardinality(UpTo(cl, s, n)') <= n
      <4>1. c <= n /\ call[k].count <= n BY <3>2, <3>3, <3>7
      <4>2. AdmittedIn(cl, s) + Cardinality(UpTo(cl, s, n)) <= n BY <1>f, <4>1 DEF Room
      <4>3. Cardinality(UpTo(cl, s, n)') + 1 = Cardinality(UpTo(cl, s, n))
        BY <1>a, <2>6, <4>1, AdmittedWaited
      <4>4. AdmittedIn(cl, s)' = AdmittedIn(cl, s) + 1 BY <2>6 DEF Admits
      <4> QED BY <1>h, <4>2, <4>3, <4>4, UpToType
    <3>8. Room(cl, s, d)' BY <3>5, <3>6, <3>7 DEF Room, Window, MaxRequests
    <3> QED BY <2>1, <3>3, <3>8
  <2> QED BY <1>a, <2>5, <2>6, AdmissionStep
<1>2. CASE clock' = clock + 1 /\ UNCHANGED <<data, call, admitted>> /\ clock' < s + w
  <2>1. z = s BY <1>g, <1>2
  <2>2. /\ AdmittedIn(cl, s - w)' = AdmittedIn(cl, s - w)
        /\ AdmittedIn(cl, s)' = AdmittedIn(cl, s)
        /\ Val(cl, s)' = Val(cl, s)
        /\ \A n \in Nat : UpTo(cl, s, n)' = UpTo(cl, s, n)
    BY <1>2 DEF AdmittedIn, Val, WindowKey, UpTo, WindowOf, Window
  <2>3. AdmittedIn(cl, s - w) * (w - (clock' - s)) + c * w <= m * w
    <3>1. AdmittedIn(cl, s - w) * (w - (clock - s)) + c * w <= m * w BY <1>f DEF Room
    <3>2. /\ w - (clock' - s) \in Nat /\ w - (clock - s) \in Nat
          /\ w - (clock' - s) <= w - (clock - s)
      BY <1>c, <1>d, <1>e, <1>2
    <3> HIDE DEF w, m
    <3> QED BY <1>c, <1>h, <3>1, <3>2, Fits
  <2>4. Room(cl, s, c)' BY <1>f, <2>2, <2>3 DEF Room, Window, MaxRequests
  <2> QED BY <2>1, <2>4
<1>3. CASE clock' = clock + 1 /\ UNCHANGED <<data, call, admitted>> /\ ~(clock' < s + w)
  <2>1. z = clock' /\ z = s + w BY <1>c, <1>d, <1>e, <1>g, <1>3
  <2>2. AdmittedIn(cl, z)' = 0
    <3>1. AdmittedIn(cl, z) = 0 BY <1>b, <1>d, <1>3, <2>1 DEF FutureInv
    <3> QED BY <1>3, <3>1 DEF AdmittedIn
  <2>3. AdmittedIn(cl, z - w)' = AdmittedIn(cl, s)
    <3>1. z - w = s BY <1>c, <1>e, <2>1
    <3> HIDE DEF w
    <3> QED BY <1>3, <3>1 DEF AdmittedIn
  <2>4. AdmittedIn(cl, s) <= m
    BY <1>a, <1>c DEF WindowBound, AdmittedIn
  <2>5. AdmittedIn(cl, z - w)' * (w - (clock' - z)) + 0 * w <= m * w
    <3>1. w - (clock' - z) = w BY <1>c, <1>d, <2>1
    <3> HIDE DEF w, m
    <3>2. AdmittedIn(cl, s) * w <= m * w BY <1>c, <1>h, <2>4, ProductGrows
    <3> QED BY <1>c, <1>h, <2>3, <3>1, <3>2
  <2>6. \A n \in Nat : UpTo(cl, z, n)' = {}
    <3> SUFFICES ASSUME NEW n \in Nat, NEW k \in Calls, k \in UpTo(cl, z, n)' PROVE FALSE
      BY DEF UpTo
    <3>1. call[k].pc \in Busy /\ call[k].of = cl /\ WindowOf(cl, call[k].at) = z
      BY <1>3 DEF UpTo, WindowOf, Window, Busy
    <3>2. /\ call[k].at \in Nat /\ call[k].now \in Nat
          /\ call[k].at <= call[k].now /\ call[k].now <= clock
      BY <1>a, <3>1, BusyType DEF BusyCall, CallInv
    <3>3. z <= call[k].at BY <3>1, <3>2, WindowOfType
    <3> QED BY <1>d, <1>3, <2>1, <3>2, <3>3
  <2>7. 0 <= Val(cl, z)'
    <3>1. Val(cl, z)' = Val(cl, z) BY <1>3 DEF Val, WindowKey
    <3> QED BY <1>a, <3>1, CountTypes
  <2>8. \A n \in Nat : AdmittedIn(cl, z)' + Cardinality(UpTo(cl, z, n)') <= n
    BY <2>2, <2>6, FS_EmptySet
  <2>9. Room(cl, z, 0)' BY <2>5, <2>7, <2>8 DEF Room, Window, MaxRequests
  <2> QED BY <2>9
<1> QED BY <1>d, <1>1, <1>2, <1>3

(* Init establishes the second part of the invariant.                      *)
LEMMA InitBurst == Init => JInv
<1> SUFFICES ASSUME Init PROVE JInv OBVIOUS
<1>1. LongExpiryInv BY DEF Init, LongExpiryInv
<1>2. CountInv BY DEF Init, CountInv, NoCall
<1>3. \A cl, s : AdmittedIn(cl, s) = 0 /\ LateIn(cl, s) = 0 /\ Val(cl, s) = 0
  BY DEF Init, AdmittedIn, LateIn, Val
<1>4. LateInv /\ FutureInv
  <2>1. \A cl, s : Pending(cl, s) = {} BY DEF Init, Pending, NoCall
  <2>2. \A cl, s : Cardinality(Pending(cl, s)) = 0 BY <2>1, FS_EmptySet
  <2> QED BY <1>3, <2>2, ClientType DEF LateInv, FutureInv, Used, Lesser
<1>5. BurstInv
  <2> SUFFICES ASSUME NEW cl \in Clients, NEW s \in Nat, s = WindowOf(cl, clock) PROVE Room(cl, s, 0)
    BY DEF BurstInv
  <2> DEFINE w == Window(cl)
             m == MaxRequests(cl)
  <2>1. w \in Nat \ {0} /\ m \in Nat BY ClientType
  <2>2. clock \in Nat BY RateLimitAssumption DEF Init
  <2>3. s <= clock /\ clock < s + w BY <2>2, WindowOfType
  <2>4. \A n \in Nat : UpTo(cl, s, n) = {} BY DEF Init, UpTo, NoCall
  <2>5. \A n \in Nat : AdmittedIn(cl, s) + Cardinality(UpTo(cl, s, n)) <= n
    BY <1>3, <2>4, FS_EmptySet
  <2>6. AdmittedIn(cl, s - w) * (w - (clock - s)) + 0 * w <= m * w
    <3>1. w - (clock - s) \in Nat BY <2>1, <2>2, <2>3
    <3>2. m * w \in Nat BY <2>1
    <3> HIDE DEF w, m
    <3> QED BY <1>3, <2>1, <3>1, <3>2
  <2> QED BY <1>3, <2>5, <2>6 DEF Room
<1> QED BY <1>1, <1>2, <1>4, <1>5 DEF JInv

(* A sliding window admits, of the calls that are answered while their     *)
(* window lasts, no burst at the boundary of two windows: what the window  *)
(* before weighs and what the present one has admitted stay within         *)
(* max_requests, however many calls are checked at the same time.  Calls   *)
(* of the window before that are answered only in the present one come on  *)
(* top, but with those it admitted in time they stay within max_requests.  *)
THEOREM NoBurst == Spec => []NoBoundaryBurst
<1>1. IInv /\ JInv /\ IInv' /\ [Next]_vars => JInv'
  BY LongExpiryStep, CountInvStep, LateStep, FutureStep, RoomStep DEF IInv, JInv
<1>2. IInv /\ JInv => NoBoundaryBurst
  <2> SUFFICES ASSUME IInv, JInv, NEW cl \in Clients, Algorithm(cl) = "sliding"
               PROVE  LET start == WindowOf(cl, clock)
                          before == start - Window(cl)
                      IN
                      /\ WithinEstimate(cl, AdmittedIn(cl, before), AdmittedIn(cl, start), clock)
                      /\ AdmittedIn(cl, before) + LateIn(cl, before) <= MaxRequests(cl)
    BY DEF NoBoundaryBurst
  <2> DEFINE w == Window(cl)
             m == MaxRequests(cl)
             s == WindowOf(cl, clock)
  <2>1. w \in Nat \ {0} /\ m \in Nat /\ clock \in Nat BY ClientType DEF IInv, TypeOK
  <2>2. s \in Nat /\ s <= clock /\ clock < s + w BY <2>1, WindowOfType
  <2>3. PICK c \in Nat : Room(cl, s, c) BY <2>2 DEF JInv, BurstInv
  <2>4. AdmittedIn(cl, s - w) * (w - (clock - s)) + c * w <= m * w BY <2>3 DEF Room
  <2>5. AdmittedIn(cl, s) <= c /\ AdmittedIn(cl, s) \in Nat
    <3>1. AdmittedIn(cl, s) + Cardinality(UpTo(cl, s, c)) <= c BY <2>3 DEF Room
    <3>2. AdmittedIn(cl, s) \in Nat BY <2>2, CountTypes DEF IInv
    <3> QED BY <3>1, <3>2, UpToType
  <2>6. AdmittedIn(cl, s - w) \in Nat BY DEF IInv, TypeOK, AdmittedIn
  <2>7. w - (clock - s) \in Nat BY <2>1, <2>2
  <2> HIDE DEF w, m, s
  <2>8. AdmittedIn(cl, s - w) * (w - (clock - s)) + AdmittedIn(cl, s) * w <= m * w
    BY <2>1, <2>4, <2>5, <2>6, <2>7, Fits
  <2>9. AdmittedIn(cl, s - w) + LateIn(cl, s - w) <= m
    <3>1. CASE s - w \in Nat
      <4>1. clock < (s - w) + 2 * w BY <2>1, <2>2, <3>1
      <4>2. Used(cl, s - w) + Cardinality(Pending(cl, s - w)) <= Lesser(Val(cl, s - w), m)
        BY <3>1, <4>1 DEF JInv, LateInv, w, m
      <4>3. LateIn(cl, s - w) \in Nat /\ Val(cl, s - w) \in Nat
            /\ Cardinality(Pending(cl, s - w)) \in Nat
        BY <3>1, CountTypes DEF IInv, LateIn, TypeOK
      <4> QED BY <2>1, <2>6, <4>2, <4>3 DEF Used, Lesser
    <3>2. CASE s - w \notin Nat
      BY <2>1, <3>2 DEF AdmittedIn, LateIn, IInv, TypeOK
    <3> QED BY <3>1, <3>2
  <2> QED BY <2>8, <2>9 DEF WithinEstimate, w, m, s
<1> QED BY <1>1, <1>2, InitBurst, Inductive, PTL DEF Spec

-----------------------------------------------------------------------------
(* Token buckets.  BucketInv keeps the account of a bucket: what it        *)
(* admitted since any second and what it still holds were paid for by a    *)
(* full bucket and the refill up to the last call.  Rounding a refill down *)
(* only loses tokens, and when the store forgets the bucket, the time gone *)
(* by since the last call has paid for a full one.                         *)
Buckets == {cl \in Clients : Algorithm(cl) = "bucket"}

(* Calls admitted in the seconds from .. to.                               *)
Between(cl, from, to) == SumFunctionOnSet(Admissions(cl), from .. to)

(* The store knows the bucket as it was left at r, with v tokens, or has   *)
(* nothing of it, two windows after r.                                     *)
Stored(cl, r, v) ==
  \/ /\ Start <= r
     /\ {TokensKey(cl), RefillKey(cl)} \subseteq DOMAIN data
     /\ data[TokensKey(cl)] = [val |-> v, exp |-> r + 2 * Window(cl)]
     /\ data[RefillKey(cl)] = [val |-> r, exp |-> r + 2 * Window(cl)]
  \/ /\ {TokensKey(cl), RefillKey(cl)} \cap DOMAIN data = {}
     /\ r + 2 * Window(cl) <= clock

BucketAt(cl, r, v) ==
  /\ \A t \in Nat : r < t => AdmittedIn(cl, t) = 0
  /\ \A from \in Start .. r :
       Between(cl, from, r) * Window(cl) + v * Window(cl)
         <= MaxRequests(cl) * (Window(cl) + r - from)
  /\ Stored(cl, r, v)

BucketInv ==
  /\ Start <= clock
  /\ \A cl \in Buckets \ overtaken :
       \E r \in 0 .. clock, v \in 0 .. MaxRequests(cl) : BucketAt(cl, r, v)

-----------------------------------------------------------------------------
(* Sums of admitted calls.                                                 *)

(* What is admitted between two seconds is a number.                       *)
LEMMA BetweenType ==
  ASSUME TypeOK, NEW cl \in Clients, NEW from \in Nat, NEW to \in Nat,
         Start <= from, to <= clock
  PROVE  /\ Between(cl, from, to) \in Nat
         /\ \A t \in from .. to : Admissions(cl)[t] = AdmittedIn(cl, t) /\ AdmittedIn(cl, t) \in Nat
<1>1. IsFiniteSet(from .. to) BY FS_Interval
<1>2. ASSUME NEW t \in from .. to
      PROVE  Admissions(cl)[t] = AdmittedIn(cl, t) /\ AdmittedIn(cl, t) \in Nat
  <2>1. Start \in Nat /\ clock \in Nat BY RateLimitAssumption DEF TypeOK
  <2>2. t \in Nat /\ t \in Start .. clock BY <2>1
  <2> QED BY <2>2, CountTypes DEF Admissions
<1> QED BY <1>1, <1>2, SumType DEF Between

(* The last second counts on its own.                                      *)
LEMMA BetweenExtend ==
  ASSUME TypeOK, NEW cl \in Clients, NEW from \in Nat, NEW to \in Nat,
         Start <= from, from <= to + 1, to + 1 <= clock
  PROVE  Between(cl, from, to + 1) = AdmittedIn(cl, to + 1) + Between(cl, from, to)
<1>1. IsFiniteSet(from .. to) BY FS_Interval
<1>2. (from .. to) \cup {to + 1} = from .. (to + 1) /\ to + 1 \notin from .. to OBVIOUS
<1>3. \A t \in from .. (to + 1) :
        Admissions(cl)[t] = AdmittedIn(cl, t) /\ Admissions(cl)[t] \in Nat
  BY BetweenType
<1>4. SumFunctionOnSet(Admissions(cl), (from .. to) \cup {to + 1})
        = Admissions(cl)[to + 1] + SumFunctionOnSet(Admissions(cl), from .. to)
  BY <1>1, <1>2, <1>3, SumAdd
<1> QED BY <1>2, <1>3, <1>4 DEF Between

(* Nothing was admitted in an empty time.                                  *)
LEMMA BetweenNone ==
  ASSUME NEW cl, NEW from \in Nat, NEW to \in Int, to < from
  PROVE  Between(cl, from, to) = 0
<1>1. from .. to = {} OBVIOUS
<1> QED BY <1>1, SumEmpty DEF Between

(* Seconds in which nothing is admitted do not count.                      *)
LEMMA BetweenIdle ==
  ASSUME TypeOK, NEW cl \in Clients, NEW from \in Nat, NEW r \in Nat, NEW to \in Nat,
         Start <= from, r <= to, to <= clock,
         \A t \in Start .. clock : r < t => AdmittedIn(cl, t) = 0
  PROVE  Between(cl, from, to) = IF from <= r THEN Between(cl, from, r) ELSE 0
<1> DEFINE rest == IF from <= r THEN Between(cl, from, r) ELSE 0
           T == {n \in Nat : r + n <= clock => Between(cl, from, r + n) = rest}
<1>1. 0 \in T
  <2>1. CASE from <= r BY <2>1
  <2>2. CASE r < from BY <2>2, BetweenNone
  <2> QED BY <2>1, <2>2
<1>2. ASSUME NEW n \in T PROVE n + 1 \in T
  <2> SUFFICES ASSUME r + (n + 1) <= clock PROVE Between(cl, from, r + (n + 1)) = rest OBVIOUS
  <2>0. clock \in Nat BY DEF TypeOK
  <2>1. Between(cl, from, r + n) = rest BY <2>0
  <2>2. CASE from <= r + n + 1
    <3>1. Between(cl, from, (r + n) + 1) = AdmittedIn(cl, (r + n) + 1) + Between(cl, from, r + n)
      BY <2>0, <2>2, BetweenExtend
    <3>2. AdmittedIn(cl, (r + n) + 1) = 0 BY <2>0, <2>2, RateLimitAssumption
    <3>3. Between(cl, from, r + n) \in Nat BY <2>0, BetweenType
    <3> QED BY <2>1, <3>1, <3>2, <3>3
  <2>3. CASE r + n + 1 < from
    <3>1. rest = 0 BY <2>3
    <3> QED BY <2>3, <3>1, BetweenNone
  <2> QED BY <2>2, <2>3
<1> HIDE DEF T
<1>3. T = Nat
  <2>1. T \subseteq Nat BY DEF T
  <2> QED BY <1>1, <1>2, <2>1, InductionNat
<1>4. to - r \in T BY <1>3
<1>5. r + (to - r) = to OBVIOUS
<1> QED BY <1>4, <1>5 DEF T

(* A step changes no sum over seconds it admits nothing in.                *)
LEMMA BetweenSame ==
  ASSUME TypeOK, TypeOK', clock <= clock', NEW cl \in Clients, NEW from \in Nat, NEW to \in Nat,
         Start <= from, to <= clock,
         \A t \in from .. to : AdmittedIn(cl, t)' = AdmittedIn(cl, t)
  PROVE  Between(cl, from, to)' = Between(cl, from, to)
<1>1. IsFiniteSet(from .. to) BY FS_Interval
<1>2. \A t \in from .. to : Admissions(cl)[t] = AdmittedIn(cl, t) /\ AdmittedIn(cl, t) \in Nat
  BY BetweenType
<1>3. \A t \in from .. to : Admissions(cl)'[t] = AdmittedIn(cl, t)'
  BY RateLimitAssumption DEF Admissions, TypeOK
<1>4. \A t \in from .. to : Admissions(cl)[t] = Admissions(cl)'[t] /\ Admissions(cl)[t] \in Nat
  BY <1>2, <1>3
<1> QED BY <1>1, <1>4, SumSame DEF Between

-----------------------------------------------------------------------------
(* Arithmetic of refills.                                                  *)

(* A refill gives no more than the time since the last call is worth.      *)
LEMMA RefillBound ==
  ASSUME NEW cl \in Clients, NEW v \in Nat, NEW r \in Nat \ {0}, NEW c \in Nat, r <= c
  PROVE  Refill(cl, v, r, c) * Window(cl) <= v * Window(cl) + (c - r) * MaxRequests(cl)
<1> DEFINE w == Window(cl)
           m == MaxRequests(cl)
           sum == v * w + (c - r) * m
<1>1. w \in Nat \ {0} /\ m \in Nat BY ClientType
<1>2. Refill(cl, v, r, c) = IF sum <= m * w THEN sum \div w ELSE m
  BY DEF Refill, Elapsed
<1> HIDE DEF w, m
<1>3. sum \in Nat
  <2>1. v * w \in Nat /\ c - r \in Nat BY <1>1
  <2>2. (c - r) * m \in Nat BY <1>1, <2>1
  <2> QED BY <2>1, <2>2
<1> HIDE DEF sum
<1>4. (sum \div w) * w <= sum BY <1>1, <1>3
<1>5. m * w \in Nat BY <1>1
<1>6. Refill(cl, v, r, c) * w <= sum BY <1>2, <1>3, <1>4, <1>5
<1> QED BY <1>6 DEF sum, w, m

(* The account after a call: s calls were admitted up to r and v tokens    *)
(* left, n tokens were there at c, a of them was taken, rest are left.     *)
LEMMA Account ==
  ASSUME NEW s \in Nat, NEW v \in Nat, NEW n \in Nat, NEW a \in Nat, NEW rest \in Nat,
         NEW w \in Nat, NEW m \in Nat, NEW from \in Nat, NEW r \in Nat, NEW c \in Nat,
         a + rest = n, from <= r, r <= c,
         s * w + v * w <= m * (w + r - from),
         n * w <= v * w + (c - r) * m
  PROVE  (s + a) * w + rest * w <= m * (w + c - from)
<1>1. (s + a) * w + rest * w = s * w + n * w
  <2>1. (s + a) * w + rest * w = s * w + (a + rest) * w OBVIOUS
  <2> QED BY <2>1
<1>2. m * (w + c - from) = m * (w + r - from) + (c - r) * m OBVIOUS
<1> DEFINE sw == s * w  vw == v * w  nw == n * w  x == m * (w + r - from)  y == (c - r) * m
<1>3. sw \in Int /\ vw \in Int /\ nw \in Int /\ x \in Int /\ y \in Int OBVIOUS
<1>4. sw + vw <= x /\ nw <= vw + y OBVIOUS
<1> HIDE DEF sw, vw, nw, x, y
<1>5. sw + nw <= x + y BY <1>3, <1>4
<1> QED BY <1>1, <1>2, <1>5 DEF sw, vw, nw, x, y

(* The account of a time that began with this call, or with a full bucket. *)
LEMMA FreshAccount ==
  ASSUME NEW n \in Nat, NEW a \in Nat, NEW rest \in Nat, NEW w \in Nat, NEW m \in Nat,
         NEW from \in Nat, NEW c \in Nat, a + rest = n, n <= m, from <= c
  PROVE  a * w + rest * w <= m * (w + c - from)
<1>1. a * w + rest * w = n * w
  <2>1. a * w + rest * w = (a + rest) * w OBVIOUS
  <2> QED BY <2>1
<1>2. n * w <= m * w BY ProductGrows
<1>3. m * (w + c - from) = m * w + m * (c - from) OBVIOUS
<1>4. m * w \in Nat /\ m * (c - from) \in Nat /\ n * w \in Nat
  <2>1. c - from \in Nat OBVIOUS
  <2> QED BY <2>1
<1> DEFINE nw == n * w  mw == m * w  y == m * (c - from)
<1> HIDE DEF nw, mw, y
<1>5. nw <= mw + y BY <1>2, <1>4 DEF nw, mw, y
<1> QED BY <1>1, <1>3, <1>5 DEF nw, mw, y

-----------------------------------------------------------------------------
(* What a step does to a bucket.                                           *)

(* A call takes from the bucket in time.                                   *)
Takes(k, cl) == Consume(k) /\ call[k].of = cl /\ call[k].at = clock

(* The entries of the bucket stay.                                         *)
EntriesStay(cl) ==
  \A key \in {TokensKey(cl), RefillKey(cl)} :
    /\ key \in DOMAIN data' <=> key \in DOMAIN data
    /\ key \in DOMAIN data => data'[key] = data[key]

(* Only a call of its own, or the cleanup, touches a bucket.               *)
LEMMA BucketStep ==
  ASSUME TypeOK, CallInv, [Next]_vars, NEW cl \in Buckets, cl \notin overtaken'
  PROVE  /\ cl \notin overtaken
         /\ \/ \E k \in Calls : Takes(k, cl)
            \/ /\ \A t : AdmittedIn(cl, t)' = AdmittedIn(cl, t)
               /\ EntriesStay(cl) \/ \E now \in Start .. clock : Cleanup(now)
<1> DEFINE Quiet == /\ cl \notin overtaken
                    /\ \A t : AdmittedIn(cl, t)' = AdmittedIn(cl, t)
                    /\ EntriesStay(cl) \/ \E now \in Start .. clock : Cleanup(now)
<1>0. cl \in Clients /\ Algorithm(cl) = "bucket" BY DEF Buckets
<1>1. ASSUME UNCHANGED <<data, admitted, overtaken>> PROVE Quiet
  BY <1>1 DEF AdmittedIn, EntriesStay
<1>2. ASSUME NEW k \in Calls, NEW ok, Answer(k, ok), call[k].of # cl
      PROVE  \A t : AdmittedIn(cl, t)' = AdmittedIn(cl, t)
  BY <1>2, AnswerEffect
<1>3. ASSUME NEW k \in Calls, Count(k) PROVE Quiet
  <2>1. call[k].of # cl BY <1>0, <1>3 DEF Count, CallInv, Busy
  <2>2. \A t : AdmittedIn(cl, t)' = AdmittedIn(cl, t)
    <3>1. CASE Algorithm(call[k].of) = "fixed" BY <1>2, <1>3, <2>1, <3>1 DEF Count
    <3>2. CASE Algorithm(call[k].of) # "fixed" BY <1>3, <3>2 DEF Count, AdmittedIn
    <3> QED BY <3>1, <3>2
  <2>3. PICK s, val, exp : data' = Insert(data, WindowKey(call[k].of, s), val, exp)
    BY <1>3 DEF Count
  <2>4. EntriesStay(cl)
    BY <2>3 DEF Insert, EntriesStay, WindowKey, TokensKey, RefillKey
  <2> QED BY <1>3, <2>2, <2>4 DEF Count
<1>4. ASSUME NEW k \in Calls, Estimate(k) PROVE Quiet
  <2>1. call[k].of # cl BY <1>0, <1>4 DEF Estimate, CallInv, Busy
  <2>2. PICK ok : Answer(k, ok) BY <1>4 DEF Estimate
  <2>3. EntriesStay(cl) BY <1>4 DEF Estimate, EntriesStay
  <2> QED BY <1>2, <1>4, <2>1, <2>2, <2>3 DEF Estimate
<1>5. ASSUME NEW k \in Calls, Consume(k) PROVE Quiet \/ (cl \notin overtaken /\ Takes(k, cl))
  <2>0. cl \notin overtaken BY <1>5 DEF Consume
  <2>1. CASE call[k].of # cl
    <3>1. PICK ok : Answer(k, ok) BY <1>5 DEF Consume
    <3>2. PICK v, r, exp : data' = Insert(Insert(data, TokensKey(call[k].of), v, exp),
                                          RefillKey(call[k].of), r, exp)
      BY <1>5 DEF Consume
    <3>3. EntriesStay(cl) BY <2>1, <3>2 DEF Insert, EntriesStay, TokensKey, RefillKey
    <3> QED BY <1>2, <2>0, <2>1, <3>1, <3>3
  <2>2. CASE call[k].of = cl
    <3>1. InTime(k) BY <1>5, <2>2 DEF Consume
    <3>2. call[k].at = clock BY <1>0, <2>2, <3>1 DEF InTime
    <3> QED BY <1>5, <2>0, <2>2, <3>2 DEF Takes
  <2> QED BY <2>1, <2>2
<1>6. ASSUME NEW now \in Start .. clock, Cleanup(now) PROVE Quiet
  BY <1>6 DEF Cleanup, AdmittedIn
<1> QED
  BY <1>1, <1>3, <1>4, <1>5, <1>6
     DEF Next, CallNext, CheckUnlimited, Check, ReadTime, Tick, vars

(* The store keeps what it knows of a bucket until it is full again.       *)
LEMMA StoredStep ==
  ASSUME TypeOK, TypeOK', clock <= clock', NEW cl \in Buckets, NEW r \in Nat, NEW v \in Nat,
         Stored(cl, r, v), EntriesStay(cl) \/ \E now \in Start .. clock : Cleanup(now)
  PROVE  Stored(cl, r, v)'
<1>1. clock \in Nat /\ clock' \in Nat /\ Start \in Nat /\ Window(cl) \in Nat
  BY RateLimitAssumption, ClientType DEF TypeOK, Buckets
<1>2. CASE EntriesStay(cl)
  BY <1>1, <1>2 DEF Stored, EntriesStay, TokensKey, RefillKey, Window
<1>3. ASSUME NEW now \in Start .. clock, Cleanup(now) PROVE Stored(cl, r, v)'
  <2> DEFINE e == r + 2 * Window(cl)
  <2>1. data' = [x \in {y \in DOMAIN data : now < data[y].exp} |-> data[x]] /\ clock' = clock
    BY <1>3 DEF Cleanup, Restrict
  <2>2. CASE {TokensKey(cl), RefillKey(cl)} \cap DOMAIN data = {} /\ e <= clock
    BY <2>1, <2>2 DEF Stored, TokensKey, RefillKey, Window
  <2>3. CASE /\ Start <= r
             /\ {TokensKey(cl), RefillKey(cl)} \subseteq DOMAIN data
             /\ data[TokensKey(cl)] = [val |-> v, exp |-> e]
             /\ data[RefillKey(cl)] = [val |-> r, exp |-> e]
    <3>1. CASE now < e BY <2>1, <2>3, <3>1 DEF Stored, TokensKey, RefillKey, Window
    <3>2. CASE e <= now
      <4>1. e <= clock BY <1>1, <3>2
      <4>2. {TokensKey(cl), RefillKey(cl)} \cap DOMAIN data' = {}
        BY <1>1, <2>1, <2>3, <3>2
      <4> QED BY <2>1, <4>1, <4>2 DEF Stored, TokensKey, RefillKey, Window
    <3> QED BY <1>1, <3>1, <3>2
  <2> QED BY <2>2, <2>3 DEF Stored
<1> QED BY <1>2, <1>3

(* One more call in the present second is one more since any other.        *)
LEMMA BetweenTake ==
  ASSUME TypeOK, TypeOK', clock' = clock, NEW cl \in Clients, NEW from \in Nat, NEW a \in Nat,
         Start <= from, from <= clock, 0 < clock,
         AdmittedIn(cl, clock)' = AdmittedIn(cl, clock) + a,
         \A t : t # clock => AdmittedIn(cl, t)' = AdmittedIn(cl, t)
  PROVE  Between(cl, from, clock)' = Between(cl, from, clock) + a
<1> DEFINE A == Admissions(cl)
           B == Admissions(cl)'
           S == from .. (clock - 1)
<1>0. Start \in Nat /\ clock \in Nat BY RateLimitAssumption DEF TypeOK
<1>1. clock - 1 \in Nat /\ (clock - 1) + 1 = clock BY <1>0
<1>2. IsFiniteSet(S) BY <1>1, FS_Interval
<1>3. from .. clock = S \cup {clock} /\ clock \notin S /\ S \subseteq Start .. clock BY <1>0
<1>4. ASSUME NEW t \in from .. clock
      PROVE  /\ A[t] = AdmittedIn(cl, t) /\ B[t] = AdmittedIn(cl, t)'
             /\ AdmittedIn(cl, t) \in Nat
  <2>1. t \in Nat /\ t \in Start .. clock BY <1>0
  <2> QED BY <2>1, CountTypes DEF Admissions
<1>5. Between(cl, from, clock) = SumFunctionOnSet(A, S \cup {clock}) BY <1>3 DEF Between
<1>6. Between(cl, from, clock)' = SumFunctionOnSet(B, S \cup {clock}) BY <1>3 DEF Between
<1>7. \A t \in S \cup {clock} : A[t] \in Nat /\ B[t] \in Nat
  <2> SUFFICES ASSUME NEW t \in S \cup {clock} PROVE A[t] \in Nat /\ B[t] \in Nat OBVIOUS
  <2>1. t \in from .. clock BY <1>3
  <2> HIDE DEF A, B
  <2>2. CASE t = clock BY <1>4, <2>1, <2>2
  <2>3. CASE t # clock BY <1>4, <2>1, <2>3
  <2> QED BY <2>2, <2>3
<1>8. \A t \in S : A[t] = B[t] /\ A[t] \in Nat
  <2> SUFFICES ASSUME NEW t \in S PROVE A[t] = B[t] /\ A[t] \in Nat OBVIOUS
  <2>1. t \in from .. clock /\ t # clock BY <1>3
  <2> HIDE DEF A, B
  <2> QED BY <1>4, <2>1
<1>9. A[clock] = AdmittedIn(cl, clock) /\ B[clock] = AdmittedIn(cl, clock) + a
  <2>1. clock \in from .. clock BY <1>0
  <2> HIDE DEF A, B
  <2> QED BY <1>4, <2>1
<1>10. clock \notin S BY <1>3
<1> HIDE DEF A, B, S
<1>11. SumFunctionOnSet(A, S \cup {clock}) = A[clock] + SumFunctionOnSet(A, S)
  BY <1>2, <1>7, <1>10, SumAdd
<1>12. SumFunctionOnSet(B, S \cup {clock}) = B[clock] + SumFunctionOnSet(B, S)
  BY <1>2, <1>7, <1>10, SumAdd
<1>13. SumFunctionOnSet(A, S) = SumFunctionOnSet(B, S) BY <1>2, <1>8, SumSame
<1>14. SumFunctionOnSet(A, S) \in Nat BY <1>2, <1>8, SumType
<1>15. AdmittedIn(cl, clock) \in Nat BY <1>0, CountTypes
<1> QED BY <1>5, <1>6, <1>9, <1>11, <1>12, <1>13, <1>14, <1>15

(* A call in time leaves the account in order.                             *)
LEMMA TakeStep ==
  ASSUME TypeOK, TypeOK', Start <= clock, NEW cl \in Buckets, NEW k \in Calls, Takes(k, cl),
         NEW r \in 0 .. clock, NEW v \in 0 .. MaxRequests(cl), BucketAt(cl, r, v)
  PROVE  \E rest \in 0 .. MaxRequests(cl) : BucketAt(cl, clock, rest)'
<1> DEFINE c == clock
           w == Window(cl)
           m == MaxRequests(cl)
           tokens == Get(TokensKey(cl), c)
           refill == Get(RefillKey(cl), c)
           n == Refill(cl, tokens, refill, c)
           rest == IF n > 0 THEN n - 1 ELSE 0
           a == IF n > 0 THEN 1 ELSE 0
<1>0. cl \in Clients /\ Algorithm(cl) = "bucket" BY DEF Buckets
<1>1. w \in Nat \ {0} /\ m \in Nat /\ c \in Nat /\ Start \in Nat \ {0}
  <2>1. cl.policy \in Policies BY <1>0 DEF Clients, Client, Limited
  <2>2. 2 * Window(cl) < Start BY <2>1, RateLimitAssumption DEF Window
  <2> QED BY <1>0, <2>2, ClientType, RateLimitAssumption DEF TypeOK
<1>2. n \in 0 .. m BY <1>0, <1>1, GetType, RefillType
<1>3. /\ data' = Insert(Insert(data, TokensKey(cl), rest, c + Ttl(cl)),
                        RefillKey(cl), c, c + Ttl(cl))
      /\ Answer(k, n > 0)
      /\ clock' = clock
  BY DEF Takes, Consume
<1>4. Ttl(cl) = 2 * w BY <1>0 DEF Ttl
<1>5. \A t : AdmittedIn(cl, t)' = IF n > 0 /\ t = c THEN AdmittedIn(cl, t) + 1 ELSE AdmittedIn(cl, t)
  <2>1. InTime(k) /\ Slot(k) = c BY <1>0 DEF Takes, InTime, Slot
  <2> HIDE DEF n
  <2>2. Answer(k, n > 0) /\ clock' = clock BY <1>3
  <2> QED BY <2>1, <2>2, AnswerEffect, ZenonT(60) DEF Takes
<1>6. n * w <= v * w + (c - r) * m
  <2>1. Stored(cl, r, v) BY DEF BucketAt
  <2>2. CASE /\ Start <= r /\ c < r + 2 * w
             /\ {TokensKey(cl), RefillKey(cl)} \subseteq DOMAIN data
             /\ data[TokensKey(cl)] = [val |-> v, exp |-> r + 2 * w]
             /\ data[RefillKey(cl)] = [val |-> r, exp |-> r + 2 * w]
    <3>1. tokens = v /\ refill = r BY <2>2 DEF Get
    <3> HIDE DEF tokens, refill
    <3>2. r \in Nat \ {0} /\ v \in Nat /\ r <= c BY <1>1, <2>2
    <3> QED BY <1>0, <1>1, <3>1, <3>2, RefillBound
  <2>3. CASE tokens = 0 /\ refill = 0 /\ r + 2 * w <= c
    <3>1. n = m BY <2>3 DEF Refill
    <3> HIDE DEF n, tokens, refill, w, m, c
    <3>2. w <= c - r /\ c - r \in Nat BY <1>1, <2>3 DEF c
    <3>3. w * m <= (c - r) * m BY <1>1, <3>2, ProductGrows
    <3>4. v * w \in Nat /\ m * w = w * m /\ (c - r) * m \in Nat /\ w * m \in Nat
      <4>1. v \in Nat BY <1>1 DEF m
      <4> QED BY <1>1, <3>2, <4>1
    <3> DEFINE x == v * w  y == (c - r) * m  z == w * m
    <3> HIDE DEF x, y, z
    <3>5. z <= x + y BY <3>3, <3>4 DEF x, y, z
    <3> QED BY <3>1, <3>4, <3>5 DEF x, y, z
  <2>4. \/ /\ Start <= r /\ c < r + 2 * w
           /\ {TokensKey(cl), RefillKey(cl)} \subseteq DOMAIN data
           /\ data[TokensKey(cl)] = [val |-> v, exp |-> r + 2 * w]
           /\ data[RefillKey(cl)] = [val |-> r, exp |-> r + 2 * w]
        \/ tokens = 0 /\ refill = 0 /\ r + 2 * w <= c
    BY <1>1, <2>1 DEF Stored, Get
  <2> QED BY <2>2, <2>3, <2>4
<1> HIDE DEF n
<1>7. a \in Nat /\ rest \in Nat /\ a + rest = n /\ rest \in 0 .. m BY <1>1, <1>2
<1>8. \A t \in Nat : clock' < t => AdmittedIn(cl, t)' = 0
  BY <1>1, <1>3, <1>5 DEF BucketAt
<1>b. PICK q \in 0 .. m : q = rest BY <1>7
<1>9. Stored(cl, clock, q)'
  <2>1. TokensKey(cl) # RefillKey(cl) BY DEF TokensKey, RefillKey
  <2>2. /\ {TokensKey(cl), RefillKey(cl)} \subseteq DOMAIN data'
        /\ data'[TokensKey(cl)] = [val |-> rest, exp |-> c + 2 * w]
        /\ data'[RefillKey(cl)] = [val |-> c, exp |-> c + 2 * w]
    <3> HIDE DEF rest, w
    <3> QED BY <1>3, <1>4, <2>1 DEF Insert
  <2> HIDE DEF rest
  <2> QED BY <1>b, <1>1, <1>3, <2>2 DEF Stored, TokensKey, RefillKey, Window
<1>10. ASSUME NEW from \in Start .. c
       PROVE  Between(cl, from, clock)' * w + rest * w <= m * (w + c - from)
  <2>0. from \in Nat /\ r \in Nat /\ v \in Nat /\ from <= c /\ r <= c BY <1>1
  <2>1. Between(cl, from, clock)' = Between(cl, from, c) + a
    <3>1. AdmittedIn(cl, c) \in Nat BY <1>0, <1>1, CountTypes
    <3>2. AdmittedIn(cl, c)' = AdmittedIn(cl, c) + a BY <1>3, <1>5, <3>1
    <3>3. \A t : t # c => AdmittedIn(cl, t)' = AdmittedIn(cl, t) BY <1>5
    <3> HIDE DEF a
    <3> QED BY <1>0, <1>1, <1>3, <1>7, <2>0, <3>2, <3>3, BetweenTake
  <2>2. Between(cl, from, c) = IF from <= r THEN Between(cl, from, r) ELSE 0
    <3>1. \A t \in Start .. clock : r < t => AdmittedIn(cl, t) = 0 BY <1>1 DEF BucketAt
    <3> QED BY <1>0, <1>1, <2>0, <3>1, BetweenIdle
  <2>3. CASE from <= r
    <3>1. Between(cl, from, r) \in Nat BY <1>0, <1>1, <2>0, <2>3, BetweenType
    <3>2. Between(cl, from, r) * w + v * w <= m * (w + r - from)
      BY <1>1, <2>0, <2>3 DEF BucketAt
    <3> DEFINE b == Between(cl, from, r)
    <3>3. Between(cl, from, clock)' = b + a BY <2>1, <2>2, <2>3
    <3> HIDE DEF b, a, rest, w, m, c
    <3>4. (b + a) * w + rest * w <= m * (w + c - from)
      BY <1>1, <1>2, <1>6, <1>7, <2>0, <2>3, <3>1, <3>2, Account DEF b
    <3> QED BY <3>3, <3>4
  <2>4. CASE r < from
    <3>1. Between(cl, from, clock)' = a BY <1>7, <2>0, <2>1, <2>2, <2>4
    <3> HIDE DEF a, rest, w, m, c
    <3>2. n \in Nat /\ n <= m BY <1>1, <1>2
    <3> QED BY <1>1, <1>7, <2>0, <3>1, <3>2, FreshAccount
  <2> QED BY <2>0, <2>3, <2>4
<1>11. \A from \in Start .. clock' :
         Between(cl, from, clock)' * w + q * w <= m * (w + clock' - from)
  <2> HIDE DEF rest, w, m
  <2> QED BY <1>b, <1>3, <1>10
<1>12. BucketAt(cl, clock, q)' BY <1>3, <1>8, <1>9, <1>11 DEF BucketAt, Window, MaxRequests
<1> QED BY <1>12

-----------------------------------------------------------------------------
(* The invariant and the theorem.                                          *)

(* Every account stays in order.                                           *)
LEMMA BucketInvStep ==
  TypeOK /\ CallInv /\ BucketInv /\ TypeOK' /\ [Next]_vars => BucketInv'
<1> SUFFICES ASSUME TypeOK, CallInv, BucketInv, TypeOK', [Next]_vars PROVE BucketInv' OBVIOUS
<1>1. clock \in Nat /\ clock' \in Nat /\ clock <= clock' /\ Start \in Nat
  BY ClockStep, RateLimitAssumption
<1>2. Start <= clock /\ Start <= clock' BY <1>1 DEF BucketInv
<1>3. ASSUME NEW cl \in Buckets, cl \notin overtaken'
      PROVE  \E r \in 0 .. clock', v \in 0 .. MaxRequests(cl) : BucketAt(cl, r, v)'
  <2>0. cl \in Clients BY DEF Buckets
  <2>1. cl \notin overtaken BY <1>3, BucketStep
  <2>2. PICK r \in 0 .. clock, v \in 0 .. MaxRequests(cl) : BucketAt(cl, r, v)
    BY <2>1 DEF BucketInv
  <2>3. ASSUME NEW k \in Calls, Takes(k, cl)
        PROVE  \E q \in 0 .. clock', z \in 0 .. MaxRequests(cl) : BucketAt(cl, q, z)'
    <3>1. PICK z \in 0 .. MaxRequests(cl) : BucketAt(cl, clock, z)'
      BY <1>2, <2>2, <2>3, TakeStep
    <3>2. clock' \in 0 .. clock' BY <1>1
    <3>3. PICK q \in 0 .. clock' : q = clock' BY <3>2
    <3>4. BucketAt(cl, q, z)' BY <3>1, <3>3 DEF BucketAt, Between, Stored
    <3> QED BY <3>4
  <2>4. ASSUME \A t : AdmittedIn(cl, t)' = AdmittedIn(cl, t),
               EntriesStay(cl) \/ \E now \in Start .. clock : Cleanup(now)
        PROVE  \E q \in 0 .. clock', z \in 0 .. MaxRequests(cl) : BucketAt(cl, q, z)'
    <3>0. r \in Nat /\ v \in Nat /\ r <= clock /\ r \in 0 .. clock'
      BY <1>1, <2>0, ClientType
    <3>1. Stored(cl, r, v)' BY <1>1, <2>2, <2>4, <3>0, StoredStep DEF BucketAt
    <3>2. \A t \in Nat : r < t => AdmittedIn(cl, t)' = 0 BY <2>2, <2>4 DEF BucketAt
    <3>3. ASSUME NEW from \in Start .. r
          PROVE  Between(cl, from, r)' * Window(cl) + v * Window(cl)
                   <= MaxRequests(cl) * (Window(cl) + r - from)
      <4>1. from \in Nat /\ Start <= from BY <1>1, <3>0
      <4>2. Between(cl, from, r)' = Between(cl, from, r)
        BY <1>1, <2>0, <2>4, <3>0, <4>1, BetweenSame
      <4> QED BY <2>2, <4>2 DEF BucketAt
    <3>4. BucketAt(cl, r, v)' BY <3>1, <3>2, <3>3 DEF BucketAt, Window, MaxRequests
    <3> QED BY <3>0, <3>4
  <2> QED BY <1>3, <2>3, <2>4, BucketStep
<1>4. BucketInv'
  <2> SUFFICES ASSUME NEW cl \in (Buckets \ overtaken)'
               PROVE  \E r \in 0 .. clock', v \in 0 .. MaxRequests(cl) : BucketAt(cl, r, v)'
    BY <1>2 DEF BucketInv, MaxRequests
  <2>1. cl \in Buckets /\ cl \notin overtaken' BY DEF Buckets, Algorithm
  <2> QED BY <1>3, <2>1
<1> QED BY <1>4

(* The time up to now.                                                     *)
BoundNow ==
  \A cl \in Buckets \ overtaken, from \in Start .. clock :
    Between(cl, from, clock) * Window(cl) <= MaxRequests(cl) * (Window(cl) + clock - from)

(* What the account says of the time up to now.                            *)
LEMMA AccountBound == TypeOK /\ BucketInv => BoundNow
<1> SUFFICES ASSUME TypeOK, BucketInv, NEW cl \in Buckets \ overtaken, NEW from \in Start .. clock
             PROVE  Between(cl, from, clock) * Window(cl)
                      <= MaxRequests(cl) * (Window(cl) + clock - from)
  BY DEF BoundNow
<1> DEFINE w == Window(cl)
           m == MaxRequests(cl)
<1>0. cl \in Clients BY DEF Buckets
<1>1. w \in Nat \ {0} /\ m \in Nat /\ clock \in Nat /\ Start \in Nat
  BY <1>0, ClientType, RateLimitAssumption DEF TypeOK
<1>2. PICK r \in 0 .. clock, v \in 0 .. MaxRequests(cl) : BucketAt(cl, r, v) BY DEF BucketInv
<1>3. from \in Nat /\ r \in Nat /\ v \in Nat /\ r <= clock /\ Start <= from /\ from <= clock
  BY <1>1
<1>4. \A t \in Start .. clock : r < t => AdmittedIn(cl, t) = 0 BY <1>1, <1>2 DEF BucketAt
<1>5. Between(cl, from, clock) = IF from <= r THEN Between(cl, from, r) ELSE 0
  BY <1>0, <1>1, <1>3, <1>4, BetweenIdle, SMTT(60)
<1>6. CASE from <= r
  <2>1. Between(cl, from, r) \in Nat BY <1>0, <1>1, <1>3, <1>6, BetweenType
  <2>2. Between(cl, from, r) * w + v * w <= m * (w + r - from)
    BY <1>1, <1>2, <1>3, <1>6 DEF BucketAt
  <2> DEFINE b == Between(cl, from, r)
  <2> HIDE DEF b, w, m
  <2>3. m * (w + r - from) <= m * (w + clock - from)
    <3>1. w + r - from \in Nat /\ w + clock - from \in Nat /\ w + r - from <= w + clock - from
      BY <1>1, <1>3, <1>6
    <3>2. (w + r - from) * m <= (w + clock - from) * m BY <1>1, <3>1, ProductGrows
    <3>3. \A x \in Nat : x * m = m * x BY <1>1
    <3> QED BY <3>1, <3>2, <3>3
  <2>4. v * w \in Nat /\ b * w \in Nat BY <1>1, <1>3, <2>1 DEF b
  <2>5. m * (w + r - from) \in Int /\ m * (w + clock - from) \in Int BY <1>1, <1>3
  <2> DEFINE x == v * w  y == b * w  p == m * (w + r - from)  q == m * (w + clock - from)
  <2>6. y + x <= p BY <2>2 DEF b
  <2> HIDE DEF x, y, p, q
  <2>7. y <= q BY <2>3, <2>4, <2>5, <2>6 DEF x, y, p, q
  <2> QED BY <1>5, <1>6, <2>7 DEF y, q, b, w, m
<1>7. CASE r < from
  <2>1. Between(cl, from, clock) = 0 BY <1>3, <1>5, <1>7
  <2> HIDE DEF w, m
  <2>2. m * (w + clock - from) \in Nat
    <3>1. w + clock - from \in Nat BY <1>1, <1>3
    <3> QED BY <1>1, <3>1
  <2> QED BY <1>1, <2>1, <2>2 DEF w, m
<1> QED BY <1>3, <1>6, <1>7

(* A step adds to the present second only.                                 *)
LEMMA BucketBoundStep ==
  TypeOK /\ CallInv /\ BucketInv /\ BucketBound /\ TypeOK' /\ BoundNow' /\ [Next]_vars
    => BucketBound'
<1> SUFFICES ASSUME TypeOK, CallInv, BucketInv, BucketBound, TypeOK', BoundNow', [Next]_vars,
                    NEW cl \in Buckets, cl \notin overtaken',
                    NEW from \in Start .. clock', NEW to \in Start .. clock', from <= to
             PROVE  Between(cl, from, to)' * Window(cl)
                      <= MaxRequests(cl) * (Window(cl) + to - from)
  BY DEF BucketBound, Buckets, Algorithm, Window, MaxRequests, Between
<1>0. cl \in Clients /\ Algorithm(cl) = "bucket" BY DEF Buckets
<1>1. /\ clock \in Nat /\ clock' \in Nat /\ Start \in Nat
      /\ \/ clock' = clock
         \/ clock' = clock + 1 /\ UNCHANGED <<data, call, admitted>>
  BY ClockStep, RateLimitAssumption
<1>2. CASE to = clock'
  <2>1. Between(cl, from, clock)' * Window(cl)
          <= MaxRequests(cl) * (Window(cl) + clock' - from)
    BY DEF BoundNow, Buckets, Algorithm, Window, MaxRequests
  <2>2. Between(cl, from, to)' = Between(cl, from, clock)' BY <1>2 DEF Between
  <2> QED BY <1>2, <2>1, <2>2
<1>3. CASE to < clock'
  <2>0. from \in Nat /\ to \in Nat /\ to <= clock /\ Start <= from /\ clock <= clock'
    BY <1>1, <1>3
  <2>1. \A t \in from .. to : AdmittedIn(cl, t)' = AdmittedIn(cl, t)
    <3>1. CASE clock' = clock + 1 BY <1>1, <3>1 DEF AdmittedIn
    <3>2. ASSUME NEW k \in Calls, Takes(k, cl), clock' = clock
          PROVE  \A t \in from .. to : AdmittedIn(cl, t)' = AdmittedIn(cl, t)
      <4>1. PICK ok : Answer(k, ok) BY <3>2 DEF Takes, Consume
      <4>2. Slot(k) = clock BY <1>0, <3>2 DEF Slot, Takes
      <4>3. clock \notin from .. to BY <1>1, <1>3, <3>2, <2>0
      <4> QED BY <4>1, <4>2, <4>3, AnswerEffect
    <3> QED BY <1>1, <3>1, <3>2, BucketStep
  <2>2. Between(cl, from, to)' = Between(cl, from, to)
    BY <1>0, <1>1, <2>0, <2>1, BetweenSame
  <2>3. cl \notin overtaken BY BucketStep
  <2>4. from \in Start .. clock /\ to \in Start .. clock BY <1>1, <2>0
  <2>5. Between(cl, from, to) * Window(cl) <= MaxRequests(cl) * (Window(cl) + to - from)
    BY <1>0, <2>3, <2>4 DEF BucketBound, Between
  <2> QED BY <2>2, <2>5
<1> QED BY <1>1, <1>2, <1>3

(* Init opens an account for each bucket.                                  *)
LEMMA InitBucket == Init => BucketInv
<1> SUFFICES ASSUME Init PROVE BucketInv OBVIOUS
<1>1. Start \in Nat /\ clock = Start BY RateLimitAssumption DEF Init
<1>2. ASSUME NEW cl \in Buckets PROVE BucketAt(cl, 0, 0) /\ 0 \in 0 .. MaxRequests(cl)
  <2>1. cl \in Clients BY DEF Buckets
  <2>2. cl.policy \in Policies BY <2>1 DEF Clients, Client, Limited
  <2>3. 2 * Window(cl) < Start BY <2>2, RateLimitAssumption DEF Window
  <2>4. Window(cl) \in Nat \ {0} /\ MaxRequests(cl) \in Nat BY <2>1, ClientType
  <2>5. Stored(cl, 0, 0) BY <1>1, <2>3, <2>4 DEF Stored, Init
  <2>6. Start .. 0 = {} BY <1>1, <2>3, <2>4
  <2>7. \A t : AdmittedIn(cl, t) = 0 BY DEF Init, AdmittedIn
  <2> QED BY <2>4, <2>5, <2>6, <2>7 DEF BucketAt
<1> QED BY <1>1, <1>2 DEF BucketInv

(* A token bucket admits between any two seconds no more calls than it     *)
(* holds and the refill of the time between adds, for any number of        *)
(* concurrent calls, as long as none of them was late                      *)
(* (try_consume_token_inner).                                              *)
THEOREM BucketsHold == Spec => []BucketBound
<1>1. Init => IInv BY InitInv
<1>2. IInv /\ IInv' /\ BucketInv /\ [Next]_vars => BucketInv' BY BucketInvStep DEF IInv
<1>3. IInv /\ BucketInv => BoundNow BY AccountBound DEF IInv
<1>4. Init /\ BoundNow => BucketBound
  <2> SUFFICES ASSUME Init, BoundNow, NEW cl \in Buckets, cl \notin overtaken,
                      NEW from \in Start .. clock, NEW to \in Start .. clock
               PROVE  Between(cl, from, to) * Window(cl)
                        <= MaxRequests(cl) * (Window(cl) + to - from)
    BY DEF BucketBound, Buckets, Between
  <2>1. to = clock BY RateLimitAssumption DEF Init
  <2> QED BY <2>1 DEF BoundNow
<1>5. IInv /\ IInv' /\ BucketInv /\ BucketBound /\ BoundNow' /\ [Next]_vars => BucketBound'
  BY BucketBoundStep DEF IInv
<1> QED BY <1>1, <1>2, <1>3, <1>4, <1>5, InitBucket, Inductive, PTL DEF Spec
=============================================================================
