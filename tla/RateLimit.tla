----------------------------- MODULE RateLimit -----------------------------
(***************************************************************************)
(* The rate limiter (rate_limit/mod.rs) over its InMemoryStore: requests   *)
(* of several connections are checked at the same time, in each of the     *)
(* three algorithms, against one store of expiring counters.               *)
(*                                                                         *)
(* Every store operation reads the time first and waits for the lock of    *)
(* the store afterwards.  A check is therefore a sequence of steps between *)
(* which other checks run, the clock ticks and the cleanup task purges: a  *)
(* call may act on a second that is over.                                  *)
(*                                                                         *)
(* Time is in whole seconds and does not run backwards.  The f64 sums of   *)
(* the code are exact here: both sides of a comparison are multiplied by   *)
(* the window, a refill is rounded down as the cast to u64 does.  Every    *)
(* key has a time to live, because a window has at least one second.       *)
(*                                                                         *)
(* A definition Bug... is a plausible mistake in the one that follows it.  *)
(***************************************************************************)
EXTENDS Integers, FiniteSets, Functions

CONSTANTS
  Calls,         (* requests that are checked at the same time              *)
  Conns,         (* client connections                                      *)
  IpOf,          (* IP address of a connection                              *)
  HeaderOf,      (* its cached value of the header of a policy, or None     *)
  PeerConns,     (* connections whose context holds IP:port (TCP, ws.rs)    *)
  Policy,        (* policies: id -> [key, algorithm, max, window]           *)
  PolicyName,    (* name_to_policy: handler -> policy id, or None           *)
  DefaultPolicy, (* default_policy, or None                                 *)
  None,          (* no header, no policy                                    *)
  Start,         (* time of the first request                               *)
  MaxTime,       (* last second looked at: bound of the model               *)
  MaxChecks      (* requests checked: bound of the model                    *)

Policies == DOMAIN Policy
Handlers == DOMAIN PolicyName

ASSUME RateLimitAssumption ==
  /\ Start \in Nat /\ MaxTime \in Nat /\ MaxChecks \in Nat
  /\ IsFiniteSet(Calls)
  /\ None \notin Policies
  /\ \A p \in Policies :
       /\ Policy[p].key \in {"Ip", "Header", "Connection", "Global"}
       /\ Policy[p].algorithm \in {"fixed", "sliding", "bucket"}
       /\ Policy[p].max \in Nat
       /\ Policy[p].window \in Nat \ {0}
       /\ 2 * Policy[p].window < Start

VARIABLES
  clock,     (* seconds since the epoch                                     *)
  data,      (* the store: key -> [val, exp], entries present only          *)
  call,      (* the check each request is in                                *)
  checks,    (* requests checked so far                                     *)
  admitted,  (* history: <<client, slot>> -> calls admitted in time, where  *)
             (* slot is a window, or for a bucket the second of the call    *)
  late,      (* history: <<client, slot>> -> calls of a sliding window that *)
             (* are admitted after it, while the next one lasts             *)
  overtaken  (* history: buckets a call was late for                        *)

vars == <<clock, data, call, checks, admitted, late, overtaken>>

-----------------------------------------------------------------------------
(* Which counter a request is charged to.                                  *)

(* Explicit policy of the handler, else the default if it exists.          *)
PolicyOf(h) ==
  CASE PolicyName[h] # None -> PolicyName[h]
    [] PolicyName[h] = None /\ DefaultPolicy \in Policies -> DefaultPolicy
    [] OTHER -> None

(* ConnectionContext.client_ip and extract_key.                            *)
ClientIp(c) == IF c \in PeerConns THEN c ELSE IpOf[c]
ExtractKey(c, p) ==
  CASE Policy[p].key = "Global" -> "_global"
    [] Policy[p].key = "Header" -> HeaderOf[c]
    [] OTHER -> ClientIp(c)

Limited(c, h) ==
  /\ PolicyOf(h) \in Policies
  /\ ExtractKey(c, PolicyOf(h)) # None

(* A client is a policy with a key: the prefix of its keys in the store.   *)
Client(c, h) == [policy |-> PolicyOf(h), key |-> ExtractKey(c, PolicyOf(h))]
Clients == UNION {{Client(c, h) : h \in {g \in Handlers : Limited(c, g)}} : c \in Conns}

Algorithm(cl) == Policy[cl.policy].algorithm
MaxRequests(cl) == Policy[cl.policy].max
Window(cl) == Policy[cl.policy].window
WindowOf(cl, t) == (t \div Window(cl)) * Window(cl)

BugTtl(cl) == Window(cl) - 1
BugTtlOne(cl) == Window(cl)
Ttl(cl) == IF Algorithm(cl) = "fixed" THEN Window(cl) ELSE 2 * Window(cl)

-----------------------------------------------------------------------------
(* InMemoryStore: an entry is worth nothing from its expiry on.            *)

WindowKey(cl, start) == [of |-> cl, kind |-> "window", start |-> start]
TokensKey(cl) == [of |-> cl, kind |-> "tokens", start |-> 0]
RefillKey(cl) == [of |-> cl, kind |-> "refill", start |-> 0]
Keys == [of : Clients, kind : {"window", "tokens", "refill"}, start : Nat]

Get(key, now) ==
  IF key \in DOMAIN data /\ now < data[key].exp THEN data[key].val ELSE 0

Insert(d, key, val, exp) ==
  [x \in DOMAIN d \cup {key} |-> IF x = key THEN [val |-> val, exp |-> exp] ELSE d[x]]

(* Tokens after a refill: all of them if the bucket is new.                *)
Elapsed(from, to) == IF from <= to THEN to - from ELSE 0
BugRefill(cl, tokens, refill, now) ==
  IF refill = 0 THEN MaxRequests(cl)
  ELSE (tokens * Window(cl) + Elapsed(refill, now) * MaxRequests(cl)) \div Window(cl)
Refill(cl, tokens, refill, now) ==
  IF refill = 0 THEN MaxRequests(cl)
  ELSE LET sum == tokens * Window(cl) + Elapsed(refill, now) * MaxRequests(cl)
       IN  IF sum <= MaxRequests(cl) * Window(cl) THEN sum \div Window(cl) ELSE MaxRequests(cl)

(* Fixed window: this request is one of the first max_requests.            *)
BugWithinLimit(cl, count) == count < MaxRequests(cl)
WithinLimit(cl, count) == count <= MaxRequests(cl)

(* Sliding window: the previous one weighs what is left of the present.    *)
WithinEstimate(cl, previous, count, at) ==
  previous * (Window(cl) - (at - WindowOf(cl, at))) + count * Window(cl)
    <= MaxRequests(cl) * Window(cl)

-----------------------------------------------------------------------------
(* A call: at is the time try_acquire read (for a bucket, the one read in  *)
(* try_consume_token_inner), now that of its current store operation.      *)

Settled == {"idle", "allowed", "refused"}
Busy == {"incr", "counting", "get", "reading", "consuming"}
NoCall == [pc |-> "idle"]

Init ==
  /\ clock = Start
  /\ data = [x \in {} |-> 0]
  /\ call = [k \in Calls |-> NoCall]
  /\ checks = 0
  /\ admitted = [x \in {} |-> 0]
  /\ late = [x \in {} |-> 0]
  /\ overtaken = {}

(* The part of time a call is charged to, whether it is not over yet, and  *)
(* whether it is the one just before the present (sliding windows).        *)
Slot(k) == IF Algorithm(call[k].of) = "bucket" THEN call[k].at
           ELSE WindowOf(call[k].of, call[k].at)
InTime(k) == IF Algorithm(call[k].of) = "bucket" THEN clock = call[k].at
             ELSE clock < Slot(k) + Window(call[k].of)

JustOver(k) == /\ Algorithm(call[k].of) = "sliding"
               /\ ~InTime(k)
               /\ clock < Slot(k) + 2 * Window(call[k].of)

AdmittedIn(cl, slot) ==
  IF <<cl, slot>> \in DOMAIN admitted THEN admitted[<<cl, slot>>] ELSE 0
LateIn(cl, slot) == IF <<cl, slot>> \in DOMAIN late THEN late[<<cl, slot>>] ELSE 0

(* Ok(()) or Error::RateLimited is returned.                               *)
Answer(k, ok) ==
  /\ call' = [call EXCEPT ![k] = [pc |-> IF ok THEN "allowed" ELSE "refused"]]
  /\ admitted' = IF ok /\ InTime(k)
                 THEN [x \in DOMAIN admitted \cup {<<call[k].of, Slot(k)>>} |->
                        IF x = <<call[k].of, Slot(k)>>
                        THEN AdmittedIn(call[k].of, Slot(k)) + 1 ELSE admitted[x]]
                 ELSE admitted
  /\ late' = IF ok /\ JustOver(k)
             THEN [x \in DOMAIN late \cup {<<call[k].of, Slot(k)>>} |->
                    IF x = <<call[k].of, Slot(k)>>
                    THEN LateIn(call[k].of, Slot(k)) + 1 ELSE late[x]]
             ELSE late

(* check returns at once where no policy applies.                          *)
CheckUnlimited(k, c, h) ==
  /\ call[k].pc \in Settled
  /\ ~Limited(c, h)
  /\ call' = [call EXCEPT ![k] = [pc |-> "allowed"]]
  /\ UNCHANGED <<clock, data, checks, admitted, late, overtaken>>

(* check, try_acquire: the policy is found, the time is read.              *)
Check(k, c, h) ==
  /\ call[k].pc \in Settled
  /\ Limited(c, h)
  /\ checks < MaxChecks
  /\ call' = [call EXCEPT ![k] =
       [pc |-> IF Algorithm(Client(c, h)) = "bucket" THEN "consuming" ELSE "incr",
        of |-> Client(c, h), at |-> clock, now |-> clock, count |-> 0]]
  /\ checks' = checks + 1
  /\ UNCHANGED <<clock, data, admitted, late, overtaken>>

(* The call goes on, with the time and the counter it has read.            *)
Continue(k, pc, now, count) ==
  call' = [call EXCEPT ![k] =
    [pc |-> pc, of |-> call[k].of, at |-> call[k].at, now |-> now, count |-> count]]

(* incr and get read the time again, before they wait for the lock.        *)
ReadTime(k) ==
  /\ \/ call[k].pc = "incr" /\ Continue(k, "counting", clock, 0)
     \/ call[k].pc = "get" /\ Continue(k, "reading", clock, call[k].count)
  /\ UNCHANGED <<clock, data, checks, admitted, late, overtaken>>

(* incr under the write lock; a fixed window answers right away.           *)
Count(k) ==
  LET cl == call[k].of
      key == WindowKey(cl, WindowOf(cl, call[k].at))
      val == Get(key, call[k].now) + 1
  IN
  /\ call[k].pc = "counting"
  /\ data' = Insert(data, key, val, call[k].now + Ttl(cl))
  /\ IF Algorithm(cl) = "fixed"
     THEN Answer(k, WithinLimit(cl, val))
     ELSE /\ Continue(k, "get", call[k].now, val)
          /\ UNCHANGED <<admitted, late>>
  /\ UNCHANGED <<clock, checks, overtaken>>

(* get of the previous window under the read lock.                         *)
Estimate(k) ==
  LET cl == call[k].of
      previous == WindowKey(cl, WindowOf(cl, call[k].at) - Window(cl))
  IN
  /\ call[k].pc = "reading"
  /\ Answer(k, WithinEstimate(cl, Get(previous, call[k].now), call[k].count, call[k].at))
  /\ UNCHANGED <<clock, data, checks, overtaken>>

(* try_consume_token_inner under the write lock.                           *)
Consume(k) ==
  LET cl == call[k].of
      at == call[k].at
      tokens == Refill(cl, Get(TokensKey(cl), at), Get(RefillKey(cl), at), at)
      rest == IF tokens > 0 THEN tokens - 1 ELSE 0
  IN
  /\ call[k].pc = "consuming"
  /\ data' = Insert(Insert(data, TokensKey(cl), rest, at + Ttl(cl)),
                    RefillKey(cl), at, at + Ttl(cl))
  /\ Answer(k, tokens > 0)
  /\ overtaken' = IF InTime(k) THEN overtaken ELSE overtaken \cup {cl}
  /\ UNCHANGED <<clock, checks>>

(* The cleanup task purges what had expired when it read the time.         *)
Cleanup(now) ==
  /\ data' = Restrict(data, {x \in DOMAIN data : now < data[x].exp})
  /\ UNCHANGED <<clock, call, checks, admitted, late, overtaken>>

Tick ==
  /\ clock < MaxTime
  /\ clock' = clock + 1
  /\ UNCHANGED <<data, call, checks, admitted, late, overtaken>>

CallNext(k) ==
  \/ \E c \in Conns, h \in Handlers : CheckUnlimited(k, c, h) \/ Check(k, c, h)
  \/ ReadTime(k)
  \/ Count(k)
  \/ Estimate(k)
  \/ Consume(k)

Next ==
  \/ \E k \in Calls : CallNext(k)
  \/ \E now \in Start .. clock : Cleanup(now)
  \/ Tick

Spec == Init /\ [][Next]_vars

-----------------------------------------------------------------------------
(* Properties.                                                             *)

BusyCall == [pc : Busy, of : Clients, at : Nat, now : Nat, count : Nat]
Answered == [pc : Settled]

(* What a store may hold.                                                  *)
StoreOK(d) ==
  /\ DOMAIN d \subseteq Keys
  /\ \A x \in DOMAIN d :
       /\ d[x] \in [val : Nat, exp : Nat]
       /\ x.kind = "tokens" => d[x].val <= MaxRequests(x.of)

(* Types.  A bucket never holds more than max_requests tokens.             *)
TypeOK ==
  /\ clock \in Nat
  /\ checks \in 0 .. MaxChecks
  /\ call \in [Calls -> BusyCall \cup Answered]
  /\ StoreOK(data)
  /\ DOMAIN admitted \subseteq Clients \X Nat
  /\ \A x \in DOMAIN admitted : admitted[x] \in Nat
  /\ DOMAIN late \subseteq Clients \X Nat
  /\ \A x \in DOMAIN late : late[x] \in Nat
  /\ overtaken \subseteq Clients

(* Fixed and sliding windows: while a window lasts, no more than           *)
(* max_requests of its calls are admitted, whatever the cleanup task and   *)
(* the expiry of entries do in between.                                    *)
WindowBound ==
  \A x \in DOMAIN admitted :
    Algorithm(x[1]) # "bucket" => admitted[x] <= MaxRequests(x[1])

(* A step that refuses the call k.                                         *)
Refuses(k) == call[k].pc \in Busy /\ call'[k].pc = "refused"

(* Sliding window: the calls of the present window admitted so far, and    *)
(* the calls of the window before that were admitted before it was over,   *)
(* weighed by what is left of the present one, stay within max_requests,   *)
(* although the counters are read and decided upon one after the other.    *)
(* A call of the window before that is answered only now comes on top of   *)
(* this estimate - the code lets that burst pass - but the calls of the    *)
(* window before, answered in time or now, stay within max_requests: a     *)
(* boundary lets pass no more than what that window had left.  Calls that  *)
(* are answered later still are not bounded: their counter may be gone.    *)
NoBoundaryBurst ==
  \A cl \in Clients :
    Algorithm(cl) = "sliding" =>
      LET start == WindowOf(cl, clock)
          before == start - Window(cl)
      IN
      /\ WithinEstimate(cl, AdmittedIn(cl, before), AdmittedIn(cl, start), clock)
      /\ AdmittedIn(cl, before) + LateIn(cl, before) <= MaxRequests(cl)

(* Fixed window: a call is refused in time only when max_requests others   *)
(* of its window were admitted: refused calls use up nothing.              *)
FullWhenRefused ==
  [][\A k \in Calls :
       Refuses(k) /\ Algorithm(call[k].of) = "fixed" /\ InTime(k)
         => AdmittedIn(call[k].of, Slot(k)) = MaxRequests(call[k].of)]_vars

(* The calls admitted in each second so far.                               *)
Admissions(cl) == [t \in Start .. clock |-> AdmittedIn(cl, t)]

(* Token bucket: between two seconds no more calls are admitted than the   *)
(* bucket holds and the refill of the time between adds - as long as no    *)
(* call waited for the lock until its second was over, for then it sets    *)
(* the time of the last refill back.                                       *)
BucketBound ==
  \A cl \in {d \in Clients : Algorithm(d) = "bucket"} \ overtaken :
    \A from, to \in Start .. clock :
      from <= to =>
        SumFunctionOnSet(Admissions(cl), from .. to) * Window(cl)
          <= MaxRequests(cl) * (Window(cl) + to - from)
=============================================================================
