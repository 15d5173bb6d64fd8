-------------------------- MODULE HttpClient_proofs --------------------------
(***************************************************************************)
(* Proofs about HttpClient, for any number of goroutines and any limits    *)
(* and timeouts.                                                           *)
(***************************************************************************)
EXTENDS HttpClient, WellFoundedInduction, TLAPS

\* The count is the length of the run of failures at the front of recent.
BreakerInv ==
    /\ failures \in 0..FailureLimit
    /\ state \in {"closed", "open"}
    /\ state = "open" <=> failures = FailureLimit
    /\ \A i \in 1..failures : recent[i] = "failed"
    /\ failures < FailureLimit => recent[failures + 1] # "failed"

LEMMA SuccessKeeps == BreakerInv /\ RecordSuccess => BreakerInv'
<1> SUFFICES ASSUME BreakerInv, RecordSuccess PROVE BreakerInv'
  OBVIOUS
<1>1. 1 \in 1..FailureLimit
  BY ConstantsAssumption
<1>2. recent'[1] = "answered"
  BY <1>1 DEF RecordSuccess, Remember
<1> QED
  BY <1>2, ConstantsAssumption DEF BreakerInv, RecordSuccess

LEMMA FailureKeeps == BreakerInv /\ RecordFailure => BreakerInv'
<1> SUFFICES ASSUME BreakerInv, RecordFailure PROVE BreakerInv'
  OBVIOUS
<1>1. \A i \in 1..FailureLimit :
        recent'[i] = IF i = 1 THEN "failed" ELSE recent[i - 1]
  BY DEF RecordFailure, Remember
<1>2. CASE failures < FailureLimit
  <2>1. failures' = failures + 1 /\ failures' \in 1..FailureLimit
    BY <1>2, ConstantsAssumption DEF BreakerInv, RecordFailure
  <2>2. \A i \in 1..failures' : recent'[i] = "failed"
    BY <1>1, <2>1, ConstantsAssumption DEF BreakerInv
  <2>3. failures' < FailureLimit => recent'[failures' + 1] # "failed"
    BY <1>1, <1>2, <2>1, ConstantsAssumption DEF BreakerInv
  <2>4. state' \in {"closed", "open"} /\ (state' = "open" <=> failures' = FailureLimit)
    BY <1>2, <2>1, ConstantsAssumption DEF BreakerInv, RecordFailure
  <2> QED
    BY <2>1, <2>2, <2>3, <2>4, ConstantsAssumption DEF BreakerInv
<1>3. CASE failures = FailureLimit
  <2>1. failures' = FailureLimit /\ state' = "open"
    BY <1>3, ConstantsAssumption DEF RecordFailure
  <2>2. \A i \in 1..FailureLimit : recent'[i] = "failed"
    BY <1>1, <1>3, ConstantsAssumption DEF BreakerInv
  <2> QED
    BY <2>1, <2>2, ConstantsAssumption DEF BreakerInv
<1> QED
  BY <1>2, <1>3, ConstantsAssumption DEF BreakerInv

LEMMA BreakerHolds == Spec => []BreakerInv
<1>1. Init => BreakerInv
  BY ConstantsAssumption DEF Init, BreakerInv
<1>2. BreakerInv /\ [Next]_vars => BreakerInv'
  <2> SUFFICES ASSUME BreakerInv, [Next]_vars PROVE BreakerInv'
    OBVIOUS
  <2>1. ASSUME UNCHANGED <<failures, state, recent>> PROVE BreakerInv'
    BY <2>1 DEF BreakerInv
  <2>2. ASSUME NEW c \in Caller, Do(c) \/ Cancel(c) PROVE BreakerInv'
    BY <2>1, <2>2 DEF Do, Begin, Refused, BodyUnread, Cancel, breaker
  <2>3. ASSUME NEW c \in Caller, Proceed(c) PROVE BreakerInv'
    <3>1. CASE Cancelled(c) \/ Send(c) \/ Sleep(c) \/ Wake(c)
      BY <2>1, <3>1 DEF Cancelled, Send, Sleep, Wake, breaker
    <3>2. CASE Answer(c)
      BY <3>2, SuccessKeeps DEF Answer
    <3>3. CASE GiveUp(c)
      BY <3>3, FailureKeeps DEF GiveUp
    <3> QED
      BY <2>3, <3>1, <3>2, <3>3 DEF Proceed
  <2>4. CASE ServerChanges \/ Tick \/ UNCHANGED vars
    BY <2>1, <2>4 DEF ServerChanges, Tick, vars, breaker
  <2> QED
    BY <2>2, <2>3, <2>4 DEF Next
<1> QED
  BY <1>1, <1>2, PTL DEF Spec

\* The breaker is open exactly while the last FailureLimit verdicts are all
\* failures, in whatever order the requests of any number of goroutines end
\* (client.go:260-280).
THEOREM BreakerFollowsVerdicts == Spec => []OpenAfterFailures
<1>1. BreakerInv => OpenAfterFailures
  BY ConstantsAssumption DEF BreakerInv, OpenAfterFailures
<1> QED
  BY <1>1, BreakerHolds, PTL

-----------------------------------------------------------------------------
(* Powers of two. *)

\* Mathematical induction, for a set.
LEMMA Induction ==
    ASSUME NEW S, 0 \in S, \A n \in Nat : n \in S => n + 1 \in S
    PROVE  Nat \subseteq S
<1> DEFINE T == Nat \ S
<1> SUFFICES ASSUME T # {}  PROVE FALSE
  OBVIOUS
<1>1. IsWellFoundedOn(OpToRel(<, Nat), Nat)
  BY NatLessThanWellFounded
<1>2. T \subseteq Nat
  OBVIOUS
<1>3. \E n \in T : \A m \in T : ~(<<m, n>> \in OpToRel(<, Nat))
  <2> HIDE DEF T
  <2> QED
    BY <1>1, <1>2, WFMin
<1>4. PICK n \in T : \A m \in T : ~(<<m, n>> \in OpToRel(<, Nat))
  BY <1>3
<1>5. \A m \in T : ~(m < n)
  BY <1>2, <1>4 DEF OpToRel
<1>6. n \in Nat /\ n \notin S
  OBVIOUS
<1>7. n # 0 /\ n - 1 \in Nat /\ n - 1 \notin T
  <2> HIDE DEF T
  <2> QED
    BY <1>5, <1>6
<1> QED
  BY <1>6, <1>7

\* p[n] is twice p[n - 1], up to k.
Doubles(p, k) == p[0] = 1 /\ \A n \in 1..k : p[n] = 2 * p[n - 1]

LEMMA PowersExist ==
    ASSUME NEW N \in Nat
    PROVE  \E p \in [0..N -> Nat] : Doubles(p, N)
<1> DEFINE Good == {k \in Nat : k <= N => \E p \in [0..N -> Nat] : Doubles(p, k)}
<1>1. 0 \in Good
  <2> DEFINE p == [n \in 0..N |-> 1]
  <2>1. p \in [0..N -> Nat] /\ Doubles(p, 0)
    BY DEF Doubles
  <2> QED
    BY <2>1
<1>2. ASSUME NEW k \in Nat, k \in Good  PROVE k + 1 \in Good
  <2> SUFFICES ASSUME k + 1 <= N
               PROVE  \E p \in [0..N -> Nat] : Doubles(p, k + 1)
    OBVIOUS
  <2>1. PICK p \in [0..N -> Nat] : Doubles(p, k)
    BY <1>2
  <2> DEFINE q == [p EXCEPT ![k + 1] = 2 * p[k]]
  <2>2. q \in [0..N -> Nat]
    OBVIOUS
  <2>3. q[k + 1] = 2 * p[k] /\ \A n \in 0..k : q[n] = p[n]
    OBVIOUS
  <2> HIDE DEF q
  <2>4. Doubles(q, k + 1)
    <3>1. q[0] = 1
      BY <2>1, <2>3 DEF Doubles
    <3>2. ASSUME NEW n \in 1..(k + 1)  PROVE q[n] = 2 * q[n - 1]
      <4>1. CASE n = k + 1
        BY <2>3, <4>1
      <4>2. CASE n \in 1..k
        BY <2>1, <2>3, <4>2 DEF Doubles
      <4> QED
        BY <4>1, <4>2
    <3> QED
      BY <3>1, <3>2 DEF Doubles
  <2> QED
    BY <2>2, <2>4
<1>3. N \in Good
  <2> HIDE DEF Good
  <2> QED
    BY <1>1, <1>2, Induction
<1> QED
  BY <1>3

LEMMA PowerDoubles ==
    /\ Power[0] = 1
    /\ \A n \in 1..(MaxRetries + 1) : Power[n] = 2 * Power[n - 1]
<1> DEFINE N == MaxRetries + 1
           Grows(p) == p = [n \in 0..N |-> IF n = 0 THEN 1 ELSE 2 * p[n - 1]]
<1>1. N \in Nat
  BY ConstantsAssumption
<1>2. PICK p \in [0..N -> Nat] : Doubles(p, N)
  <2> HIDE DEF N
  <2> QED
    BY <1>1, PowersExist
<1>3. Grows(p)
  <2>1. ASSUME NEW n \in 0..N  PROVE p[n] = IF n = 0 THEN 1 ELSE 2 * p[n - 1]
    <3>1. n # 0 => n \in 1..N
      BY <1>1
    <3> QED
      BY <1>2, <3>1 DEF Doubles
  <2>2. p = [n \in 0..N |-> p[n]]
    OBVIOUS
  <2> HIDE DEF N
  <2> QED
    BY <2>1, <2>2
<1>4. Grows(Power)
  <2>1. Power = CHOOSE f : Grows(f)
    BY DEF Power
  <2> HIDE DEF Grows
  <2> QED
    BY <1>3, <2>1
<1>5. \A n \in 0..N : Power[n] = IF n = 0 THEN 1 ELSE 2 * Power[n - 1]
  BY ONLY <1>4
<1>6. 0 \in 0..N
  BY <1>1
<1>7. ASSUME NEW n \in 1..N  PROVE Power[n] = 2 * Power[n - 1]
  <2>1. n \in 0..N /\ n # 0
    BY <1>1
  <2> QED
    BY ONLY <1>5, <2>1
<1> QED
  BY <1>5, <1>6, <1>7

LEMMA PowerIsPositive == \A n \in 0..(MaxRetries + 1) : Power[n] \in Nat \ {0}
<1> DEFINE N == MaxRetries + 1
           Good == {n \in Nat : n <= N => Power[n] \in Nat \ {0}}
<1>1. N \in Nat
  BY ConstantsAssumption
<1>2. 0 \in Good
  BY PowerDoubles
<1>3. ASSUME NEW n \in Nat, n \in Good  PROVE n + 1 \in Good
  <2> SUFFICES ASSUME n + 1 <= N  PROVE Power[n + 1] \in Nat \ {0}
    OBVIOUS
  <2>1. n + 1 \in 1..(MaxRetries + 1) /\ (n + 1) - 1 = n
    BY <1>1
  <2>2. Power[n] \in Nat \ {0} /\ Power[n + 1] = 2 * Power[n]
    BY <1>1, <1>3, <2>1, PowerDoubles
  <2> QED
    BY <2>2
<1>4. Nat \subseteq Good
  <2> HIDE DEF Good
  <2> QED
    BY <1>2, <1>3, Induction
<1> QED
  BY <1>1, <1>4

LEMMA PowerGrows ==
    ASSUME NEW m \in 0..MaxRetries
    PROVE  Power[m] <= Power[MaxRetries]
<1> DEFINE Good == {n \in Nat : m <= n /\ n <= MaxRetries => Power[m] <= Power[n]}
<1>1. MaxRetries \in Nat
  BY ConstantsAssumption
<1>2. 0 \in Good
  <2>1. Power[0] \in Nat /\ (m <= 0 => m = 0)
    BY <1>1, PowerIsPositive
  <2> QED
    BY <2>1
<1>3. ASSUME NEW n \in Nat, n \in Good  PROVE n + 1 \in Good
  <2> SUFFICES ASSUME m <= n + 1, n + 1 <= MaxRetries  PROVE Power[m] <= Power[n + 1]
    OBVIOUS
  <2>1. /\ n + 1 \in 1..(MaxRetries + 1) /\ (n + 1) - 1 = n
        /\ n \in 0..(MaxRetries + 1) /\ m \in 0..(MaxRetries + 1)
    BY <1>1
  <2>2. /\ Power[n + 1] = 2 * Power[n]
        /\ Power[n] \in Nat /\ Power[m] \in Nat
    BY <2>1, PowerDoubles, PowerIsPositive
  <2>3. m = n + 1 \/ Power[m] <= Power[n]
    BY <1>1, <1>3
  <2> QED
    BY <2>2, <2>3
<1>4. MaxRetries \in Good
  <2> HIDE DEF Good
  <2> QED
    BY <1>1, <1>2, <1>3, Induction
<1> QED
  BY <1>1, <1>4

\* What the rest uses of powers.
LEMMA PowerFacts ==
    ASSUME NEW n \in 0..MaxRetries
    PROVE  /\ Power[n] \in Nat \ {0}
           /\ Power[n + 1] = 2 * Power[n]
           /\ Power[n] <= Power[MaxRetries]
<1>1. /\ n \in 0..(MaxRetries + 1)
      /\ n + 1 \in 1..(MaxRetries + 1) /\ (n + 1) - 1 = n
  BY ConstantsAssumption
<1>2. Power[n + 1] = 2 * Power[n]
  BY <1>1, PowerDoubles
<1> QED
  BY <1>1, <1>2, PowerIsPositive, PowerGrows

-----------------------------------------------------------------------------
(* The time of a call. *)

\* What the attempts before this one and the backoffs after them take at most.
Spent(attempt) == attempt * Timeout + RetryBackoff * (Power[attempt] - 1)

LEMMA SpentGrows ==
    ASSUME NEW a \in 0..MaxRetries
    PROVE  /\ Spent(a) \in Nat /\ Backoff(a) \in Nat
           /\ Spent(a + 1) = Spent(a) + Timeout + Backoff(a)
<1>1. /\ a \in Nat /\ Timeout \in Nat /\ RetryBackoff \in Nat /\ Power[a] \in Nat \ {0}
      /\ Power[a + 1] = 2 * Power[a]
  BY PowerFacts, ConstantsAssumption
<1> DEFINE P == Power[a]
<1>2. /\ a * Timeout \in Nat /\ RetryBackoff * (P - 1) \in Nat /\ RetryBackoff * P \in Nat
      /\ RetryBackoff * (2 * P - 1) = RetryBackoff * (P - 1) + RetryBackoff * P
      /\ (a + 1) * Timeout = a * Timeout + Timeout
  BY <1>1
<1> QED
  BY <1>1, <1>2 DEF Spent, Backoff

LEMMA SpentInBudget ==
    ASSUME NEW a \in 0..MaxRetries
    PROVE  /\ Budget \in Nat
           /\ Spent(a) + Timeout <= Budget
           /\ a < MaxRetries => Spent(a + 1) <= Budget
<1>1. /\ a \in Nat /\ MaxRetries \in Nat /\ Timeout \in Nat /\ RetryBackoff \in Nat
      /\ MaxRetries \in 0..MaxRetries
  BY ConstantsAssumption
<1>2. Budget = Spent(MaxRetries) + Timeout
  <2>1. (MaxRetries + 1) * Timeout = MaxRetries * Timeout + Timeout
    BY <1>1
  <2>2. Power[MaxRetries] \in Nat \ {0}
    BY <1>1, PowerFacts
  <2>3. RetryBackoff * (Power[MaxRetries] - 1) \in Nat /\ MaxRetries * Timeout \in Nat
    BY <1>1, <2>2
  <2> QED
    BY <1>1, <2>1, <2>3 DEF Budget, Spent
<1>3. ASSUME NEW b \in 0..MaxRetries PROVE Spent(b) <= Spent(MaxRetries)
  <2> DEFINE P == Power[b]  Q == Power[MaxRetries]
  <2>1. b \in Nat /\ P \in Nat \ {0} /\ Q \in Nat \ {0} /\ P <= Q /\ b <= MaxRetries
    BY <1>1, PowerFacts
  <2>2. b * Timeout <= MaxRetries * Timeout
    BY <1>1, <2>1
  <2>3. RetryBackoff * (P - 1) <= RetryBackoff * (Q - 1)
    BY <1>1, <2>1
  <2>4. /\ b * Timeout \in Nat /\ MaxRetries * Timeout \in Nat
        /\ RetryBackoff * (P - 1) \in Nat /\ RetryBackoff * (Q - 1) \in Nat
    BY <1>1, <2>1
  <2> QED
    BY <2>2, <2>3, <2>4 DEF Spent
<1>4. Spent(MaxRetries) \in Nat /\ Spent(a) \in Nat
  BY <1>1, SpentGrows
<1>5. a < MaxRetries => a + 1 \in 0..MaxRetries
  BY <1>1
<1> QED
  BY <1>1, <1>2, <1>3, <1>4, <1>5, SpentGrows

\* A call has not used up more than its attempts so far, and what is left of the
\* one under way or the sleep, allow for.
InTime(k) ==
    /\ k.pc = "idle" => k.duration = 0
    /\ k.pc = "loop" => k.duration <= Spent(k.attempt)
    /\ k.pc = "sent" => k.duration + k.left <= Spent(k.attempt) + Timeout
    /\ k.pc = "sleep" => /\ k.attempt < MaxRetries
                         /\ k.duration + k.left <= Spent(k.attempt + 1)

TimeInv == TypeOK /\ \A c \in Caller : InTime(call[c])

LEMMA CallInTime ==
    ASSUME NEW k \in Call, InTime(k)
    PROVE  k.duration <= Budget
<1>1. /\ k.attempt \in 0..MaxRetries /\ k.duration \in Nat /\ k.left \in Nat
      /\ k.pc \in {"idle", "loop", "sent", "sleep"}
  BY ConstantsAssumption, SpentInBudget DEF Call
<1>2. /\ Budget \in Nat /\ Timeout \in Nat /\ Spent(k.attempt) \in Nat
      /\ Spent(k.attempt) + Timeout <= Budget
      /\ k.attempt < MaxRetries => /\ Spent(k.attempt + 1) <= Budget
                                   /\ Spent(k.attempt + 1) \in Nat
  BY <1>1, SpentGrows, SpentInBudget, ConstantsAssumption
<1> QED
  BY <1>1, <1>2 DEF InTime

LEMMA IdleInTime ==
    ASSUME NEW verdict \in Verdicts
    PROVE  Idle(verdict) \in Call /\ InTime(Idle(verdict))
<1>1. Budget \in Nat /\ 0 \in 0..MaxRetries
  BY SpentInBudget, ConstantsAssumption
<1> QED
  BY <1>1, ConstantsAssumption DEF Idle, Call, InTime

LEMMA ReturnsInTime ==
    ASSUME TimeInv, NEW c \in Caller, NEW verdict \in Verdicts, Return(c, verdict)
    PROVE  call' \in [Caller -> Call] /\ \A d \in Caller : InTime(call'[d])
<1>1. call \in [Caller -> Call]
  BY DEF TimeInv, TypeOK
<1> QED
  BY <1>1, IdleInTime DEF Return, TimeInv

\* A step that changes one call keeps the calls in time if that one stays so.
LEMMA OneCall ==
    ASSUME TimeInv, NEW c \in Caller, NEW k \in Call, InTime(k),
           call' = [call EXCEPT ![c] = k]
    PROVE  call' \in [Caller -> Call] /\ \A d \in Caller : InTime(call'[d])
<1>1. call \in [Caller -> Call]
  BY DEF TimeInv, TypeOK
<1> QED
  BY <1>1 DEF TimeInv

LEMMA CallsStayInTime ==
    ASSUME TimeInv, [Next]_vars
    PROVE  call' \in [Caller -> Call] /\ \A d \in Caller : InTime(call'[d])
<1>0. /\ call \in [Caller -> Call] /\ \A c \in Caller : InTime(call[c])
      /\ Timeout \in Nat \ {0} /\ MaxRetries \in Nat
  BY ConstantsAssumption DEF TimeInv, TypeOK
<1>1. CASE UNCHANGED call
  BY <1>0, <1>1
<1>2. ASSUME NEW c \in Caller,
             \/ Refused(c) \/ BodyUnread(c) \/ Cancelled(c) \/ Answer(c) \/ GiveUp(c)
      PROVE  call' \in [Caller -> Call] /\ \A d \in Caller : InTime(call'[d])
  <2>1. PICK verdict \in Verdicts : Return(c, verdict)
    BY <1>2 DEF Refused, BodyUnread, Cancelled, Answer, GiveUp, Verdicts
  <2> QED
    BY <2>1, ReturnsInTime
<1>3. ASSUME NEW c \in Caller,
             Begin(c) \/ Send(c) \/ Sleep(c) \/ Wake(c) \/ Cancel(c)
      PROVE  call' \in [Caller -> Call] /\ \A d \in Caller : InTime(call'[d])
  <2> DEFINE k == call[c]
  <2>1. /\ k \in Call /\ InTime(k) /\ k.attempt \in 0..MaxRetries
        /\ k.duration \in Nat /\ k.left \in Nat
    BY <1>0, SpentInBudget DEF Call
  <2>2. /\ Spent(k.attempt) \in Nat /\ Backoff(k.attempt) \in Nat
        /\ Spent(k.attempt + 1) = Spent(k.attempt) + Timeout + Backoff(k.attempt)
    BY <2>1, SpentGrows
  <2>3. CASE Begin(c)
    <3> DEFINE new == [Idle("none") EXCEPT !.pc = "loop"]
    <3>1. Idle("none") \in Call /\ Spent(0) \in Nat
      BY <1>0, IdleInTime, SpentGrows DEF Verdicts
    <3>2. /\ new.pc = "loop" /\ new.duration = 0 /\ new.attempt = 0
          /\ new \in Call
      BY <3>1 DEF Idle, Call
    <3>4. InTime(new)
      BY <3>1, <3>2 DEF InTime
    <3>3. call' = [call EXCEPT ![c] = new]
      BY <2>3 DEF Begin
    <3> HIDE DEF new
    <3> QED
      BY <3>2, <3>3, <3>4, OneCall
  <2>4. CASE Send(c)
    <3> DEFINE new == [k EXCEPT !.pc = "sent", !.left = Timeout]
    <3>1. k.pc = "loop" /\ call' = [call EXCEPT ![c] = new]
      BY <1>0, <2>4 DEF Send
    <3>2. new \in Call /\ new.pc = "sent" /\ new.left = Timeout
          /\ new.duration = k.duration /\ new.attempt = k.attempt
      BY <1>0, <2>1 DEF Call
    <3>3. InTime(new)
      BY <1>0, <2>1, <2>2, <3>1, <3>2 DEF InTime
    <3> HIDE DEF new
    <3> QED
      BY <3>1, <3>2, <3>3, OneCall
  <2>5. CASE Sleep(c)
    <3> DEFINE new == [k EXCEPT !.pc = "sleep", !.left = Backoff(k.attempt)]
    <3>1. k.pc = "sent" /\ k.attempt < MaxRetries /\ call' = [call EXCEPT ![c] = new]
      BY <1>0, <2>5 DEF Sleep, AttemptFails, MayRetry
    <3>2. new \in Call /\ new.pc = "sleep" /\ new.left = Backoff(k.attempt)
          /\ new.duration = k.duration /\ new.attempt = k.attempt
      BY <2>1, <2>2 DEF Call
    <3>3. InTime(new)
      BY <1>0, <2>1, <2>2, <3>1, <3>2 DEF InTime
    <3> HIDE DEF new
    <3> QED
      BY <3>1, <3>2, <3>3, OneCall
  <2>6. CASE Wake(c)
    <3> DEFINE new == [k EXCEPT !.pc = "loop", !.attempt = k.attempt + 1]
    <3>1. k.pc = "sleep" /\ k.left = 0 /\ call' = [call EXCEPT ![c] = new]
      BY <1>0, <2>6 DEF Wake
    <3>2. k.attempt < MaxRetries /\ k.duration <= Spent(k.attempt + 1)
      BY <2>1, <3>1 DEF InTime
    <3>3. new \in Call /\ new.pc = "loop" /\ new.duration = k.duration
          /\ new.attempt = k.attempt + 1
      <4>1. k.attempt + 1 \in 0..MaxRetries
        BY <1>0, <2>1, <3>2
      <4> QED
        BY <2>1, <4>1 DEF Call
    <3>4. InTime(new)
      BY <3>2, <3>3 DEF InTime
    <3> HIDE DEF new
    <3> QED
      BY <3>1, <3>3, <3>4, OneCall
  <2>7. CASE Cancel(c)
    <3> DEFINE new == [k EXCEPT !.cancelled = TRUE]
    <3>1. call' = [call EXCEPT ![c] = new]
      BY <1>0, <2>7 DEF Cancel
    <3>2. new \in Call /\ new.pc = k.pc /\ new.duration = k.duration
          /\ new.attempt = k.attempt /\ new.left = k.left
      BY <2>1 DEF Call
    <3>3. InTime(new)
      BY <2>1, <3>2 DEF InTime
    <3> HIDE DEF new
    <3> QED
      BY <3>1, <3>2, <3>3, OneCall
  <2> QED
    BY <1>3, <2>3, <2>4, <2>5, <2>6, <2>7
<1>4. CASE Tick
  <2> SUFFICES ASSUME NEW d \in Caller
               PROVE  call'[d] \in Call /\ InTime(call'[d])
    BY <1>4 DEF Tick
  <2> DEFINE k == call[d]
             new == [k EXCEPT !.left = @ - 1,
                              !.duration = IF @ > Budget THEN @ ELSE @ + 1]
  <2>1. /\ k \in Call /\ InTime(k) /\ ~Urgent(d) /\ k.duration <= Budget
        /\ call'[d] = IF k.pc = "idle" THEN k ELSE new
    BY <1>0, <1>4, CallInTime DEF Tick
  <2>2. CASE k.pc = "idle"
    BY <2>1, <2>2
  <2>3. CASE k.pc # "idle"
    <3>1. k.pc \in {"sent", "sleep"} /\ k.left \in Nat \ {0}
      BY <2>1, <2>3 DEF Urgent, Call
    <3>2. Budget \in Nat /\ k.duration \in Nat /\ k.attempt \in 0..MaxRetries
      BY <1>0, <2>1, SpentInBudget DEF Call
    <3>3. /\ new \in Call /\ new.pc = k.pc /\ new.attempt = k.attempt
          /\ new.left = k.left - 1 /\ new.duration = k.duration + 1
      <4>1. k.left - 1 \in Nat /\ k.duration + 1 \in 0..Budget + 1
        BY <2>1, <3>1, <3>2
      <4>2. (IF k.duration > Budget THEN k.duration ELSE k.duration + 1) = k.duration + 1
        BY <2>1, <3>2
      <4>3. new = [k EXCEPT !.left = k.left - 1, !.duration = k.duration + 1]
        BY <4>2
      <4> HIDE DEF new
      <4> QED
        BY <2>1, <4>1, <4>3 DEF Call
    <3>4. /\ Spent(k.attempt) \in Nat /\ Spent(k.attempt + 1) \in Nat
      BY <1>0, <3>2, SpentGrows
    <3>5. InTime(new)
      BY <1>0, <2>1, <3>1, <3>2, <3>3, <3>4 DEF InTime
    <3> HIDE DEF new
    <3> QED
      BY <2>1, <2>3, <3>3, <3>5
  <2> QED
    BY <2>2, <2>3
<1> QED
  BY <1>1, <1>2, <1>3, <1>4 DEF Next, Do, Proceed, ServerChanges, vars

LEMMA TimeHolds == Spec => []TimeInv
<1>1. Init => TimeInv
  BY IdleInTime, ConstantsAssumption DEF Init, TimeInv, TypeOK, Verdicts
<1>2. TimeInv /\ [Next]_vars => TimeInv'
  <2> SUFFICES ASSUME TimeInv, [Next]_vars PROVE TimeInv'
    OBVIOUS
  <2> USE ConstantsAssumption
  <2>0. TypeOK
    BY DEF TimeInv
  <2>1. ASSUME NEW verdict \in {"answered", "failed"}, Remember(verdict)
        PROVE  recent' \in [1..FailureLimit -> {"none", "answered", "failed"}]
    BY <2>0, <2>1 DEF Remember, TypeOK
  <2>2. ASSUME NEW c \in Caller, Do(c) \/ Proceed(c) \/ Cancel(c)
        PROVE  (UNCHANGED <<breaker, healthy, recent>>) \/ Answer(c) \/ GiveUp(c)
    BY <2>2 DEF Do, Proceed, Cancel, Begin, Refused, BodyUnread, Cancelled, Send, Sleep, Wake
  <2>3. ASSUME NEW c \in Caller, Answer(c) \/ GiveUp(c)
        PROVE  /\ failures' \in 0..FailureLimit /\ state' \in {"closed", "open"}
               /\ sinceFail' \in 0..ResetTimeout + 1 /\ healthy' \in BOOLEAN
               /\ recent' \in [1..FailureLimit -> {"none", "answered", "failed"}]
    BY <2>0, <2>1, <2>3 DEF Answer, GiveUp, RecordSuccess, RecordFailure, TypeOK
  <2>4. ASSUME ServerChanges \/ Tick \/ UNCHANGED vars
        PROVE  /\ UNCHANGED <<failures, state, recent>>
               /\ sinceFail' \in 0..ResetTimeout + 1 /\ healthy' \in BOOLEAN
    <3>1. healthy' \in BOOLEAN
      BY <2>0, <2>4, Zenon DEF ServerChanges, Tick, vars, TypeOK
    <3>2. UNCHANGED <<failures, state, recent>>
      BY <2>4 DEF ServerChanges, Tick, vars, breaker
    <3>3. sinceFail' = sinceFail \/ (sinceFail' = sinceFail + 1 /\ ~(sinceFail > ResetTimeout))
      BY <2>4 DEF ServerChanges, Tick, vars, breaker
    <3>4. sinceFail' \in 0..ResetTimeout + 1
      BY <2>0, <3>3 DEF TypeOK
    <3> QED
      BY <3>1, <3>2, <3>4
  <2>5. TypeOK'
    BY <2>0, <2>2, <2>3, <2>4, CallsStayInTime DEF Next, TypeOK, breaker
  <2> QED
    BY <2>5, CallsStayInTime DEF TimeInv
<1> QED
  BY <1>1, <1>2, PTL DEF Spec

\* The client's variables keep their types: no call makes more than MaxRetries + 1
\* attempts, and none sleeps or waits for a negative time.
THEOREM ClientTypesHold == Spec => []TypeOK
<1>1. TimeInv => TypeOK
  BY DEF TimeInv
<1> QED
  BY <1>1, TimeHolds, PTL

\* A call ends within the time of its attempts and backoffs, for any limits and
\* whatever the server and the caller's context do (client.go:150-224).
THEOREM RequestsEndInTime == Spec => []RequestInTime
<1>1. TimeInv => RequestInTime
  BY CallInTime DEF TimeInv, TypeOK, RequestInTime
<1> QED
  BY <1>1, TimeHolds, PTL

=============================================================================
