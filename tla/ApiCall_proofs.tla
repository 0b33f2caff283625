--------------------------- MODULE ApiCall_proofs ---------------------------
(***************************************************************************)
(* What the client of Amazon's interface keeps for any threads, buckets,   *)
(* allowances, patience and token life.                                    *)
(***************************************************************************)
EXTENDS ApiCall, FiniteSetTheorems, TLAPS

-----------------------------------------------------------------------------
(* The inductive invariant. *)

\* A token under way was usable when it left, and is older now by the time of the request.
Aging(t) == At(t, "flight") =>
    call[t].clock <= Timeout /\ client[t].token.age < Life - Margin + call[t].clock

\* Conversations that write are not begun by a practice-mode client.
Rehearses(t) == client[t].dry => call[t].kind \in {"none", "report", "check"}

\* A bucket nobody else drew from has earned at least as long as a call has waited.
Earned(t) == At(t, "taking") /\ ~call[t].robbed /\ Op(t) \in Metered =>
    credit[Op(t)] >= call[t].clock \/ credit[Op(t)] >= Cost[Op(t)]

\* Our bucket and the tokens taken from it fit into what is left of Amazon's allowance.
Fits(o) == ~repeated[o] => meter[o] >= credit[o] + Cost[o] * Cardinality(FirstAttempts(o))

\* A pause is followed by an attempt only if one is left.
Retries(t) == At(t, "backoff") => ~LastAttempt(call[t])

\* A token known to be refused is about to be dropped.
Drops(t) == client[t].token.standing = "refused" => At(t, "denied")

ThreadInv(t) == Aging(t) /\ Rehearses(t) /\ Earned(t) /\ Retries(t) /\ Drops(t)

IInv == TypeOK /\ (\A t \in Threads : ThreadInv(t)) /\ \A o \in Metered : Fits(o)
-----------------------------------------------------------------------------
(* The conversations. *)

LEMMA KindsAreScripts == Kinds \subseteq {"patch", "feed", "check", "report"}
BY KindAssumption DEF Kinds, Script

LEMMA ScriptLengths ==
    /\ Len(Script["patch"]) = 2 /\ Len(Script["feed"]) = 4
    /\ Len(Script["check"]) = 1 /\ Len(Script["report"]) = 3
BY DEF Script

LEMMA StepsInRange ==
    ASSUME NEW k \in Kinds
    PROVE  Len(Script[k]) \in 1..4
<1>1. k \in {"patch", "feed", "check", "report"} BY KindsAreScripts
<1> QED BY <1>1, ScriptLengths

\* What only reads, reads; what writes, writes first.
LEMMA Rehearsal ==
    /\ \A k \in {"report", "check"} : \A i \in 1..Len(Script[k]) :
          Script[k][i] \notin {"listings.patch", "feeds.create"}
    /\ \A k \in {"patch", "feed"} : Rehearsed(TRUE, Script[k][1])
<1>1. \A i \in 1..Len(Script["report"]) :
          Script["report"][i] \notin {"listings.patch", "feeds.create"}
    BY ScriptLengths DEF Script
<1>2. \A i \in 1..Len(Script["check"]) :
          Script["check"][i] \notin {"listings.patch", "feeds.create"}
    BY ScriptLengths DEF Script
<1>3. Rehearsed(TRUE, Script["patch"][1]) /\ Rehearsed(TRUE, Script["feed"][1])
    BY DEF Script, Rehearsed, Writes, ReadOnlyWrites
<1> QED BY <1>1, <1>2, <1>3

-----------------------------------------------------------------------------
(* Types. *)

THEOREM InitTyped == Init => TypeOK
<1> SUFFICES ASSUME Init PROVE TypeOK OBVIOUS
<1> USE DEF Init
<1>1. \A o \in Metered : Full(o) \in Nat /\ AmazonFull(o) \in Nat /\ Full(o) <= AmazonFull(o)
    BY BucketAssumption, AmazonAssumption, KindAssumption, FS_CardinalityType DEF Full, AmazonFull
<1>2. \A o \in Metered : credit[o] \in 0..Full(o) /\ meter[o] \in 0..AmazonFull(o)
    BY <1>1
<1>3. repeated \in [Metered -> BOOLEAN] OBVIOUS
<1>4. NoClient \in Clients
    BY TokenAssumption DEF NoClient, Clients, NoToken, Tokens
<1>5. Idle \in Calls
    BY TokenAssumption, CallAssumption DEF Idle, Calls, Phases
<1>6. \A t \in Threads : At(t, "idle") BY DEF At, Idle
<1> QED BY <1>2, <1>3, <1>4, <1>5, <1>6 DEF TypeOK
\* Where thread t may go on to without a token or a request: to the end, or to a call of
\* the same conversation that has not begun or has been tried before.
Onward(t, c) ==
    \/ c = Idle
    \/ /\ c \in Calls /\ c.phase \notin {"idle", "flight"} /\ c.kind = call[t].kind
       /\ c.kind \in Kinds /\ c.step \in 1..Len(Script[c.kind])
       /\ c.phase = "ready" => c.attempt > 1
       /\ c.phase = "taking" => c.clock = 0
       /\ c.phase = "backoff" => ~LastAttempt(c)

LEMMA IdleTyped == Idle \in Calls /\ NoClient \in Clients /\ NewToken \in Tokens /\ NoToken \in Tokens
BY TokenAssumption, CallAssumption DEF Idle, Calls, Phases, NoClient, Clients, NewToken, NoToken, Tokens

LEMMA CallTyped ==
    ASSUME TypeOK, NEW t \in Threads, ~At(t, "idle")
    PROVE  /\ call[t] \in Calls /\ call[t].kind \in Kinds /\ call[t].step \in 1..Len(Script[call[t].kind])
           /\ call[t].step \in 1..4 /\ call[t].attempt \in 1..MaxAttempts
           /\ call[t].clock \in Nat /\ call[t].polling \in 0..(PollLimit + 1)
           /\ call[t].robbed \in BOOLEAN
           /\ client[t] \in Clients
BY DEF TypeOK, Calls

\* Steps that neither draw from a bucket nor send.
Quiet(t) == \/ GiveUp(t) \/ NoExchange(t) \/ Troubled(t) \/ Refused(t) \/ Answered(t)
            \/ TryAgain(t) \/ LookAgain(t) \/ Transfer(t)

LEMMA AskingTyped ==
    ASSUME NEW c \in Calls
    PROVE  /\ Asking(c) \in Calls
           /\ Asking(c).phase = "taking" /\ Asking(c).clock = 0 /\ Asking(c).robbed = FALSE
           /\ Asking(c).kind = c.kind /\ Asking(c).step = c.step
           /\ Asking(c).attempt = 1 /\ Asking(c).polling = c.polling
<1>1. 1 \in 1..MaxAttempts /\ "taking" \in Phases /\ 0 \in Nat BY CallAssumption DEF Phases
<1>2. Asking(c) \in Calls BY <1>1 DEF Asking, Calls
<1>3. /\ Asking(c).phase = "taking" /\ Asking(c).clock = 0 /\ Asking(c).robbed = FALSE
      /\ Asking(c).kind = c.kind /\ Asking(c).step = c.step
      /\ Asking(c).attempt = 1 /\ Asking(c).polling = c.polling
    BY DEF Asking, Calls
<1> QED BY <1>2, <1>3

LEMMA NextCallIsOnward ==
    ASSUME TypeOK, NEW t \in Threads, ~At(t, "idle")
    PROVE  Onward(t, NextCall(call[t]))
<1>1. call[t] \in Calls /\ call[t].step \in 1..Len(Script[call[t].kind]) /\ call[t].step \in 1..4
    BY CallTyped
<1>2. CASE call[t].step = Len(Script[call[t].kind]) BY <1>2 DEF NextCall, Onward
<1>3. CASE call[t].step # Len(Script[call[t].kind])
  <2> DEFINE c == NextCall(call[t])
  <2>1. call[t].kind \in Kinds BY CallTyped
  <2>2. Len(Script[call[t].kind]) \in 1..4 BY <2>1, StepsInRange
  <2>3. call[t].step + 1 \in 1..Len(Script[call[t].kind]) /\ call[t].step + 1 \in 1..4
    <3> DEFINE len == Len(Script[call[t].kind])
    <3>1. call[t].step \in 1..len /\ call[t].step # len /\ len \in 1..4 BY <1>1, <1>3, <2>2
    <3> HIDE DEF len
    <3>2. call[t].step + 1 \in 1..len /\ call[t].step + 1 \in 1..4 BY <3>1
    <3> QED BY <3>2 DEF len
  <2> DEFINE n == call[t].step + 1
  <2> DEFINE e == [call[t] EXCEPT !.step = n]
  <2>4. e \in Calls /\ e.step = n /\ e.kind = call[t].kind
    <3>1. n \in 1..4 BY <2>3
    <3> HIDE DEF n
    <3> QED BY <1>1, <3>1 DEF Calls
  <2>5. NextCall(call[t]) = Asking(e) BY <1>3 DEF NextCall
  <2>6. /\ Asking(e) \in Calls /\ Asking(e).phase = "taking" /\ Asking(e).clock = 0
        /\ Asking(e).kind = call[t].kind /\ Asking(e).step = call[t].step + 1
    <3> HIDE DEF e
    <3> QED BY <2>4, AskingTyped
  <2> QED BY <2>1, <2>3, <2>5, <2>6 DEF Onward
<1> QED BY <1>2, <1>3

LEMMA QuietIsOnward ==
    ASSUME IInv, NEW t \in Threads, Quiet(t)
    PROVE  /\ ~At(t, "denied")
           /\ \E c : Onward(t, c) /\ GoesOn(t, c) /\ UNCHANGED <<credit, meter, repeated>>
<1> USE DEF IInv
<1>0. ~At(t, "idle") /\ ~At(t, "denied")
    BY DEF Quiet, GiveUp, NoExchange, Troubled, Refused, Answered, TryAgain, LookAgain, Transfer, At
<1> SUFFICES \E c : Onward(t, c) /\ GoesOn(t, c) /\ UNCHANGED <<credit, meter, repeated>>
    BY <1>0
<1>1. /\ call[t] \in Calls /\ call[t].kind \in Kinds
      /\ call[t].step \in 1..Len(Script[call[t].kind]) /\ call[t].attempt \in 1..MaxAttempts
    BY <1>0, CallTyped
<1>2. Onward(t, Idle) BY DEF Onward
<1>3. CASE GiveUp(t) \/ NoExchange(t) BY <1>2, <1>3 DEF GiveUp, NoExchange, Ends
<1>4. CASE Troubled(t)
  <2>1. CASE LastAttempt(call[t]) BY <1>2, <1>4, <2>1 DEF Troubled, Ends
  <2>2. CASE ~LastAttempt(call[t])
    <3>1. PICK p \in Pauses : GoesOn(t, [call[t] EXCEPT !.phase = "backoff", !.clock = p])
        BY <1>4, <2>2 DEF Troubled
    <3>2. Onward(t, [call[t] EXCEPT !.phase = "backoff", !.clock = p])
        BY <1>1, <2>2, CallAssumption DEF Onward, Calls, Phases, LastAttempt
    <3> QED BY <1>4, <3>1, <3>2 DEF Troubled
  <2> QED BY <2>1, <2>2
<1>5. CASE Answered(t)
  <2>1. Onward(t, NextCall(call[t])) BY <1>0, NextCallIsOnward
  <2>2. Onward(t, [call[t] EXCEPT !.phase = "transfer", !.clock = 0])
      BY <1>1 DEF Onward, Calls, Phases
  <2>3. Onward(t, StillWaits(call[t]))
    <3>1. CASE call[t].polling > PollLimit BY <1>2, <3>1 DEF StillWaits
    <3>2. CASE ~(call[t].polling > PollLimit)
        BY <1>1, <3>2 DEF StillWaits, Onward, Calls, Phases
    <3> QED BY <3>1, <3>2
  <2> QED BY <1>2, <1>5, <2>1, <2>2, <2>3 DEF Answered, Ends
<1>6. CASE TryAgain(t)
  <2>1. call[t].attempt # MaxAttempts BY <1>6 DEF TryAgain, ThreadInv, Retries, LastAttempt
  <2> DEFINE n == call[t].attempt + 1
  <2>2. n \in 1..MaxAttempts /\ n > 1 BY <1>1, <2>1, CallAssumption
  <2>3. Onward(t, [call[t] EXCEPT !.phase = "ready", !.attempt = n])
    <3> HIDE DEF n
    <3> QED BY <1>1, <2>2 DEF Onward, Calls, Phases
  <2> QED BY <1>6, <2>3 DEF TryAgain, Again
<1>7. CASE LookAgain(t)
  <2>1. Onward(t, Asking(call[t])) BY <1>1, AskingTyped DEF Onward
  <2> QED BY <1>7, <2>1 DEF LookAgain
<1>8. CASE Transfer(t)
  <2>1. Onward(t, NextCall(call[t])) BY <1>0, NextCallIsOnward
  <2> QED BY <1>2, <1>8, <2>1 DEF Transfer, Ends
<1>9. CASE Refused(t)
  <2>1. Onward(t, NextCall(call[t])) BY <1>0, NextCallIsOnward
  <2> QED BY <1>2, <1>9, <2>1 DEF Refused, Ends
<1> QED BY <1>3, <1>4, <1>5, <1>6, <1>7, <1>8, <1>9 DEF Quiet
-----------------------------------------------------------------------------
(* Buckets and allowances. *)

LEMMA BucketSizes ==
    ASSUME NEW o \in Metered
    PROVE  /\ Cost[o] \in Nat \ {0} /\ AmazonEarns[o] \in Nat \ {0}
           /\ Full(o) \in Nat /\ Cost[o] <= Full(o)
           /\ Cardinality(Threads) \in Nat
           /\ AmazonFull(o) \in Nat
           /\ Cost[o] * Cardinality(Threads) \in Nat
           /\ AmazonFull(o) >= Full(o) + Full(o)
           /\ AmazonFull(o) >= Full(o) + Cost[o] * Cardinality(Threads)
<1>1. Cardinality(Threads) \in Nat BY KindAssumption, FS_CardinalityType
<1>2. /\ Cost[o] \in Nat \ {0} /\ AmazonEarns[o] \in Nat \ {0} /\ Burst[o] \in Nat \ {0}
      /\ AmazonBurst[o] \in Nat /\ AmazonBurst[o] >= 2 * Burst[o]
      /\ AmazonBurst[o] >= Burst[o] + Cardinality(Threads)
    BY BucketAssumption, AmazonAssumption
<1>3. \A c, b, a, n \in Nat : c > 0 /\ b > 0 /\ a >= b + n =>
          /\ b * c \in Nat /\ c <= b * c /\ a * c \in Nat /\ c * n \in Nat
          /\ a * c >= b * c + c * n
  <2> TAKE c, b, a, n \in Nat
  <2> HAVE c > 0 /\ b > 0 /\ a >= b + n
  <2>1. PICK d \in Nat : a = b + n + d
    <3>1. a - (b + n) \in Nat OBVIOUS
    <3> QED BY <3>1
  <2>2. a * c = b * c + c * n + d * c BY <2>1
  <2>3. d * c \in Nat /\ b * c \in Nat /\ c * n \in Nat BY <2>1
  <2>4. c <= b * c
    <3>1. b - 1 \in Nat /\ b * c = (b - 1) * c + c OBVIOUS
    <3>2. (b - 1) * c \in Nat BY <3>1
    <3> QED BY <3>1, <3>2
  <2> QED BY <2>2, <2>3, <2>4
<1>4. /\ AmazonFull(o) \in Nat /\ Full(o) \in Nat /\ Cost[o] <= Full(o)
      /\ Cost[o] * Cardinality(Threads) \in Nat
      /\ AmazonFull(o) >= Full(o) + Cost[o] * Cardinality(Threads)
    BY <1>1, <1>2, <1>3 DEF Full, AmazonFull
\* The same for a second burst in place of the requests of the threads.
<1>5. AmazonFull(o) >= Full(o) + Full(o)
  <2>1. AmazonBurst[o] >= Burst[o] + Burst[o] BY <1>2
  <2>2. AmazonBurst[o] * Cost[o] >= Burst[o] * Cost[o] + Cost[o] * Burst[o] BY <1>2, <1>3, <2>1
  <2> QED BY <1>2, <2>2 DEF Full, AmazonFull
<1> QED BY <1>1, <1>2, <1>4, <1>5

LEMMA TimesGrows ==
    ASSUME NEW k \in Nat, NEW m \in Nat, NEW n \in Nat, m <= n
    PROVE  k * m \in Nat /\ k * n \in Nat /\ k * m <= k * n
<1>1. PICK d \in Nat : n = m + d
  <2>1. n - m \in Nat OBVIOUS
  <2> QED BY <2>1
<1>2. k * n = k * m + k * d BY <1>1
<1>3. k * m \in Nat /\ k * d \in Nat BY <1>1
<1> QED BY <1>2, <1>3

LEMMA FirstAttemptsCounted ==
    ASSUME NEW o \in Metered
    PROVE  /\ FirstAttempts(o) \subseteq Threads /\ IsFiniteSet(FirstAttempts(o))
           /\ Cardinality(FirstAttempts(o)) \in Nat
           /\ Cardinality(FirstAttempts(o)) <= Cardinality(Threads)
<1>1. FirstAttempts(o) \subseteq Threads BY DEF FirstAttempts
<1> QED BY <1>1, KindAssumption, FS_Subset, FS_CardinalityType

\* Fewer tokens under way, and no more in our bucket, fit as before.
LEMMA FewerFit ==
    ASSUME NEW o \in Metered, TypeOK, Fits(o), TypeOK',
           FirstAttempts(o)' \subseteq FirstAttempts(o),
           credit'[o] <= credit[o], meter'[o] >= meter[o], repeated[o] => repeated'[o]
    PROVE  Fits(o)'
<1>1. Cardinality(FirstAttempts(o)') \in Nat
      /\ Cardinality(FirstAttempts(o)') <= Cardinality(FirstAttempts(o))
      /\ Cardinality(FirstAttempts(o)) \in Nat
    BY FirstAttemptsCounted, FS_Subset, FS_CardinalityType
<1>2. Cost[o] * Cardinality(FirstAttempts(o)') <= Cost[o] * Cardinality(FirstAttempts(o))
      /\ Cost[o] * Cardinality(FirstAttempts(o)') \in Nat
      /\ Cost[o] * Cardinality(FirstAttempts(o)) \in Nat
    BY <1>1, TimesGrows, BucketSizes
<1>3. /\ credit[o] \in Int /\ meter[o] \in Int /\ credit'[o] \in Int /\ meter'[o] \in Int
    BY BucketSizes DEF TypeOK
<1> QED BY <1>2, <1>3 DEF Fits

-----------------------------------------------------------------------------
(* The steps. *)

LEMMA OnwardKeeps ==
    ASSUME IInv, NEW t \in Threads, ~At(t, "denied"), NEW c, Onward(t, c), GoesOn(t, c),
           UNCHANGED <<credit, meter, repeated>>
    PROVE  IInv'
<1>1. c \in Calls BY IdleTyped DEF Onward
<1>2. call' = [call EXCEPT ![t] = c] BY DEF GoesOn
<1>3. /\ call \in [Threads -> Calls] /\ client \in [Threads -> Clients]
      /\ client' \in [Threads -> Clients]
      /\ \A u \in Threads \ {t} : client'[u] = client[u]
      /\ (client'[t] = client[t] /\ c # Idle) \/ (client'[t] = NoClient /\ c = Idle)
  <2>1. call \in [Threads -> Calls] /\ client \in [Threads -> Clients] BY DEF IInv, TypeOK
  <2>2. client' = IF c = Idle THEN [client EXCEPT ![t] = NoClient] ELSE client BY DEF GoesOn
  <2>3. NoClient \in Clients BY IdleTyped
  <2>4. CASE c = Idle BY <2>1, <2>2, <2>3, <2>4
  <2>5. CASE c # Idle BY <2>1, <2>2, <2>5
  <2> QED BY <2>4, <2>5
<1>4. c.phase # "idle" => c.kind \in Kinds /\ c.step \in 1..Len(Script[c.kind])
    BY DEF Onward, Idle
<1>5. TypeOK'
    BY <1>1, <1>2, <1>3, <1>4 DEF IInv, TypeOK, At
<1>6. ASSUME NEW u \in Threads PROVE ThreadInv(u)'
  <2>1. CASE u # t
    <3>1. call'[u] = call[u] /\ client'[u] = client[u] BY <1>2, <1>3, <2>1
    <3>2. ThreadInv(u) BY DEF IInv
    <3> QED BY <3>1, <3>2 DEF ThreadInv, Aging, Rehearses, Earned, Retries, Drops, At, Op, LastAttempt
  <2>2. CASE u = t
    <3>1. call'[t] = c BY <1>2, <1>3
    <3>2. ThreadInv(t) BY DEF IInv
    <3>3. c.phase # "flight" BY DEF Onward, Idle
    <3>4. Rehearses(t)'
        BY <1>3, <3>1, <3>2 DEF ThreadInv, Rehearses, Onward, Idle, NoClient
    <3>5. Earned(t)'
      <4> SUFFICES ASSUME c.phase = "taking", Op(t)' \in Metered PROVE credit[Op(t)'] >= 0
          BY <3>1 DEF Earned, At, Onward, Idle
      <4> QED BY BucketSizes DEF IInv, TypeOK
    <3>6. Retries(t)' BY <3>1 DEF Retries, At, Onward, Idle
    <3>7. client'[t].token.standing # "refused" BY <1>3, <3>2 DEF ThreadInv, Drops, NoClient, NoToken
    <3> QED BY <2>2, <3>1, <3>3, <3>4, <3>5, <3>6, <3>7 DEF ThreadInv, Aging, Drops, At
  <2> QED BY <2>1, <2>2
<1>7. ASSUME NEW o \in Metered PROVE Fits(o)'
  <2>1. FirstAttempts(o)' \subseteq FirstAttempts(o)
    <3> SUFFICES ASSUME NEW u \in FirstAttempts(o)' PROVE u \in FirstAttempts(o) OBVIOUS
    <3>1. u \in Threads /\ call'[u].phase = "ready" /\ call'[u].attempt = 1 /\ Op(u)' = o
        BY DEF FirstAttempts, At
    <3>2. u # t BY <1>2, <1>3, <3>1 DEF Onward, Idle
    <3>3. call'[u] = call[u] BY <1>2, <3>1, <3>2
    <3> QED BY <3>1, <3>3 DEF FirstAttempts, At, Op
  <2>2. credit'[o] = credit[o] /\ meter'[o] = meter[o] /\ repeated'[o] = repeated[o] OBVIOUS
  <2>3. credit[o] \in Int /\ meter[o] \in Int BY BucketSizes DEF IInv, TypeOK
  <2> QED BY <1>5, <2>1, <2>2, <2>3, FewerFit DEF IInv
<1> QED BY <1>5, <1>6, <1>7 DEF IInv

LEMMA StartKeeps ==
    ASSUME IInv, NEW t \in Threads, Start(t)
    PROVE  IInv'
<1>1. PICK k \in KindsOf[t], dry \in BOOLEAN :
        /\ ~Rehearsed(dry, Script[k][1])
        /\ call' = [call EXCEPT ![t] = Asking([Idle EXCEPT !.kind = k])]
        /\ client' = [client EXCEPT ![t] =
              [dry |-> dry, token |-> IF k = "check" THEN NewToken ELSE NoToken]]
    BY DEF Start, ClientModes
<1>2. k \in Kinds /\ k \in {"patch", "feed", "check", "report"}
    BY KindAssumption, KindsAreScripts DEF Kinds
<1>3. Len(Script[k]) \in 1..4 BY <1>2, StepsInRange
<1> DEFINE c == Asking([Idle EXCEPT !.kind = k])
<1>4. /\ c \in Calls /\ c.phase = "taking" /\ c.kind = k /\ c.step = 1 /\ c.clock = 0
      /\ c.robbed = FALSE
  <2>1. [Idle EXCEPT !.kind = k] \in Calls BY <1>2, IdleTyped DEF Calls
  <2>2. [Idle EXCEPT !.kind = k].kind = k /\ [Idle EXCEPT !.kind = k].step = 1 BY DEF Idle
  <2> QED BY <2>1, <2>2, AskingTyped
<1> HIDE DEF c
<1>5. /\ call' = [call EXCEPT ![t] = c] /\ call \in [Threads -> Calls]
      /\ client \in [Threads -> Clients]
    BY <1>1 DEF c, IInv, TypeOK
<1>6. dry \in BOOLEAN OBVIOUS
<1>7. /\ client' \in [Threads -> Clients] /\ client'[t].dry = dry
      /\ client'[t].token \in {NewToken, NoToken}
      /\ \A u \in Threads \ {t} : client'[u] = client[u]
    BY <1>1, <1>5, <1>6, IdleTyped DEF Clients
<1>8. UNCHANGED <<credit, meter, repeated>> BY DEF Start
<1>9. 1 \in 1..Len(Script[k])
  <2>1. \A n \in 1..4 : 1 \in 1..n OBVIOUS
  <2> QED BY <1>3, <2>1
<1>10. TypeOK'
  <2>1. call' \in [Threads -> Calls] BY <1>4, <1>5
  <2>2. \A u \in Threads : ~At(u, "idle")' =>
           call'[u].kind \in Kinds /\ call'[u].step \in 1..Len(Script[call'[u].kind])
    <3> TAKE u \in Threads
    <3>1. CASE u = t BY <1>2, <1>4, <1>5, <1>9, <3>1
    <3>2. CASE u # t
      <4>1. call'[u] = call[u] BY <1>5, <3>2
      <4> QED BY <4>1 DEF IInv, TypeOK, At
    <3> QED BY <3>1, <3>2
  <2> QED BY <1>7, <1>8, <2>1, <2>2 DEF IInv, TypeOK
<1>11. ASSUME NEW u \in Threads PROVE ThreadInv(u)'
  <2>1. CASE u # t
    <3>1. call'[u] = call[u] /\ client'[u] = client[u] BY <1>5, <1>7, <2>1
    <3>2. ThreadInv(u) BY DEF IInv
    <3> QED BY <1>8, <3>1, <3>2 DEF ThreadInv, Aging, Rehearses, Earned, Retries, Drops, At, Op, LastAttempt
  <2>2. CASE u = t
    <3>1. call'[t] = c BY <1>5
    <3>2. Rehearses(t)' BY <1>1, <1>2, <1>4, <1>6, <1>7, <3>1, Rehearsal DEF Rehearses
    <3>3. Earned(t)'
      <4> SUFFICES ASSUME Op(t)' \in Metered PROVE credit[Op(t)'] >= 0
          BY <1>4, <1>8, <3>1 DEF Earned
      <4> QED BY BucketSizes DEF IInv, TypeOK
    <3>4. client'[t].token.standing # "refused" BY <1>7 DEF NewToken, NoToken
    <3> QED BY <1>4, <2>2, <3>1, <3>2, <3>3, <3>4 DEF ThreadInv, Aging, Retries, Drops, At
  <2> QED BY <2>1, <2>2
<1>12. ASSUME NEW o \in Metered PROVE Fits(o)'
  <2>1. FirstAttempts(o)' \subseteq FirstAttempts(o)
    <3> SUFFICES ASSUME NEW u \in FirstAttempts(o)' PROVE u \in FirstAttempts(o) OBVIOUS
    <3>1. u \in Threads /\ call'[u].phase = "ready" /\ call'[u].attempt = 1 /\ Op(u)' = o
        BY DEF FirstAttempts, At
    <3>2. call'[u] = call[u] BY <1>4, <1>5, <3>1
    <3> QED BY <3>1, <3>2 DEF FirstAttempts, At, Op
  <2>2. credit[o] \in Int /\ meter[o] \in Int BY BucketSizes DEF IInv, TypeOK
  <2> QED BY <1>8, <1>10, <2>1, <2>2, FewerFit DEF IInv
<1> QED BY <1>10, <1>11, <1>12 DEF IInv

LEMMA TakeTokenKeeps ==
    ASSUME IInv, NEW t \in Threads, TakeToken(t)
    PROVE  IInv'
<1>1. /\ call[t].phase = "taking" /\ Enough(Op(t))
      /\ credit' = [o \in Metered |-> IF o = Op(t) THEN Larger(0, credit[o] - Cost[o]) ELSE credit[o]]
      /\ UNCHANGED <<meter, repeated, client>>
    BY DEF TakeToken, At
<1>2. /\ call \in [Threads -> Calls] /\ client \in [Threads -> Clients]
      /\ \A o \in Metered : credit[o] \in 0..Full(o) /\ meter[o] \in 0..AmazonFull(o)
    BY DEF IInv, TypeOK
<1>3. \A o \in Metered :
        /\ Full(o) \in Nat /\ Cost[o] \in Nat
        /\ o = Op(t) => credit'[o] = credit[o] - Cost[o] /\ Cost[o] <= credit[o]
        /\ o # Op(t) => credit'[o] = credit[o]
        /\ credit'[o] \in 0..Full(o)
  <2> TAKE o \in Metered
  <2>1. Full(o) \in Nat /\ Cost[o] \in Nat BY BucketSizes
  <2> QED BY <1>1, <1>2, <2>1 DEF Enough, Larger
<1>4. call'[t] = [call[t] EXCEPT !.phase = "ready", !.clock = 0]
    BY DEF TakeToken
<1>5. /\ call'[t] \in Calls /\ call'[t].phase = "ready" /\ call'[t].kind = call[t].kind
      /\ call'[t].step = call[t].step
  <2>1. call[t] \in Calls /\ "ready" \in Phases /\ 0 \in Nat BY <1>2 DEF Phases
  <2> QED BY <1>4, <2>1 DEF Calls
<1>6. ASSUME NEW u \in Threads \ {t}
      PROVE  /\ call'[u] \in Calls /\ call'[u].phase = call[u].phase /\ call'[u].kind = call[u].kind
             /\ call'[u].step = call[u].step /\ call'[u].clock = call[u].clock
             /\ call'[u].attempt = call[u].attempt
             /\ At(u, "taking") /\ Op(u) = Op(t) => call'[u].robbed
             /\ call'[u].robbed \/ call'[u].robbed = call[u].robbed
  <2>1. call[u] \in Calls BY <1>2
  <2>2. CASE At(u, "taking") /\ Op(u) = Op(t)
    <3>1. call'[u] = [call[u] EXCEPT !.robbed = TRUE] BY <2>2 DEF TakeToken
    <3> QED BY <2>1, <3>1 DEF Calls
  <2>3. CASE ~(At(u, "taking") /\ Op(u) = Op(t))
    <3>1. call'[u] = call[u] BY <2>3 DEF TakeToken
    <3> QED BY <2>1, <2>3, <3>1
  <2> QED BY <2>2, <2>3
<1>7. call' \in [Threads -> Calls]
  <2>1. \A u \in Threads : call'[u] \in Calls BY <1>5, <1>6
  <2> DEFINE F(u) == IF u = t THEN [call[u] EXCEPT !.phase = "ready", !.clock = 0]
                     ELSE IF At(u, "taking") /\ Op(u) = Op(t) THEN [call[u] EXCEPT !.robbed = TRUE]
                     ELSE call[u]
  <2>2. call' = [u \in Threads |-> F(u)] BY DEF TakeToken
  <2> HIDE DEF F
  <2> QED BY <2>1, <2>2
<1>8. TypeOK'
    BY <1>1, <1>3, <1>5, <1>6, <1>7 DEF IInv, TypeOK, At
<1>9. ASSUME NEW u \in Threads PROVE ThreadInv(u)'
  <2>0. ThreadInv(u) BY DEF IInv
  <2>1. CASE u # t
    <3>1. Op(u)' = Op(u) BY <1>6, <2>1 DEF Op
    <3>2. Earned(u)'
      <4> SUFFICES ASSUME At(u, "taking")', ~call'[u].robbed, Op(u)' \in Metered
                   PROVE  credit'[Op(u)] >= call'[u].clock \/ credit'[Op(u)] >= Cost[Op(u)]
          BY <3>1 DEF Earned
      <4>1. At(u, "taking") /\ ~call[u].robbed /\ Op(u) # Op(t) /\ call'[u].clock = call[u].clock
          BY <1>6, <2>1 DEF At
      <4>2. credit'[Op(u)] = credit[Op(u)] BY <1>3, <3>1, <4>1
      <4> QED BY <2>0, <3>1, <4>1, <4>2 DEF ThreadInv, Earned
    <3> QED BY <1>1, <1>6, <2>0, <2>1, <3>2 DEF ThreadInv, Aging, Rehearses, Retries, Drops, At, LastAttempt
  <2>2. CASE u = t
    BY <1>1, <1>5, <2>0, <2>2 DEF ThreadInv, Aging, Rehearses, Earned, Retries, Drops, At
  <2> QED BY <2>1, <2>2
<1>10. ASSUME NEW o \in Metered PROVE Fits(o)'
  <2>1. FirstAttempts(o)' \subseteq FirstAttempts(o) \cup {t}
      BY <1>6 DEF FirstAttempts, At, Op
  <2>2. Op(t)' = Op(t) BY <1>5 DEF Op
  <2>3. CASE o # Op(t)
    <3>1. FirstAttempts(o)' \subseteq FirstAttempts(o) BY <2>1, <2>2, <2>3 DEF FirstAttempts
    <3> QED BY <1>1, <1>2, <1>3, <1>8, <2>3, <3>1, FewerFit DEF IInv
  <2>4. CASE o = Op(t)
    <3> DEFINE n == Cardinality(FirstAttempts(o))
    <3>1. t \notin FirstAttempts(o) BY <1>1 DEF FirstAttempts, At
    <3>2. n \in Nat /\ Cardinality(FirstAttempts(o) \cup {t}) = n + 1
          /\ IsFiniteSet(FirstAttempts(o) \cup {t})
        BY <3>1, FirstAttemptsCounted, FS_AddElement
    <3>3. Cardinality(FirstAttempts(o)') \in Nat /\ Cardinality(FirstAttempts(o)') <= n + 1
        BY <2>1, <3>2, FS_Subset, FS_CardinalityType
    <3>4. Cost[o] * Cardinality(FirstAttempts(o)') <= Cost[o] * (n + 1)
          /\ Cost[o] * Cardinality(FirstAttempts(o)') \in Nat
        BY <1>3, <3>2, <3>3, TimesGrows
    <3>5. Cost[o] * (n + 1) = Cost[o] * n + Cost[o] /\ Cost[o] * n \in Nat
        BY <1>3, <3>2
    <3>6. repeated[o] \/ meter[o] >= credit[o] + Cost[o] * n BY DEF IInv, Fits
    <3>7. credit'[o] = credit[o] - Cost[o] /\ meter'[o] = meter[o] /\ repeated'[o] = repeated[o]
        BY <1>1, <1>3, <2>4
    <3>8. credit[o] \in Int /\ meter[o] \in Int /\ Cost[o] \in Int BY <1>2, <1>3
    <3> HIDE DEF n
    <3>9. repeated'[o] \/ meter'[o] >= credit'[o] + Cost[o] * Cardinality(FirstAttempts(o)')
        BY <3>4, <3>5, <3>6, <3>7, <3>8
    <3> QED BY <3>9 DEF Fits
  <2> QED BY <2>3, <2>4
<1> QED BY <1>8, <1>9, <1>10 DEF IInv
LEMMA TokenOfIsUsable ==
    ASSUME IInv, NEW t \in Threads, call[t].phase = "ready"
    PROVE  /\ TokenOf(t) \in Tokens /\ TokenOf(t).standing # "refused"
           /\ TokenOf(t).age < Life - Margin
<1>1. client[t].token \in Tokens /\ client[t].token.standing # "refused"
    BY DEF IInv, TypeOK, Clients, ThreadInv, Drops, At
<1>2. /\ NewToken \in Tokens /\ NewToken.standing = "good" /\ NewToken.age = 0 /\ 0 < Life - Margin
    BY IdleTyped, TokenAssumption DEF NewToken
<1> QED BY <1>1, <1>2 DEF TokenOf, Usable

LEMMA SendKeeps ==
    ASSUME IInv, NEW t \in Threads, Send(t)
    PROVE  IInv'
<1> DEFINE o == Op(t)
<1>1. /\ call[t].phase = "ready"
      /\ client' = [client EXCEPT ![t].token = TokenOf(t)]
      /\ call' = [call EXCEPT ![t].phase = "flight", ![t].clock = 0]
      /\ meter' = [m \in Metered |-> IF m = o THEN Larger(0, meter[o] - Cost[o]) ELSE meter[m]]
      /\ repeated' = [m \in Metered |-> repeated[m] \/ (m = o /\ call[t].attempt > 1)]
      /\ UNCHANGED credit
    BY DEF Send, At
<1>2. /\ call \in [Threads -> Calls] /\ client \in [Threads -> Clients]
      /\ repeated \in [Metered -> BOOLEAN]
      /\ \A m \in Metered : credit[m] \in 0..Full(m) /\ meter[m] \in 0..AmazonFull(m)
    BY DEF IInv, TypeOK
<1>3. /\ call'[t] \in Calls /\ call'[t].phase = "flight" /\ call'[t].clock = 0
      /\ call'[t].kind = call[t].kind /\ call'[t].step = call[t].step
      /\ \A u \in Threads \ {t} : call'[u] = call[u]
      /\ call' \in [Threads -> Calls]
  <2>1. call[t] \in Calls /\ "flight" \in Phases /\ 0 \in Nat BY <1>2 DEF Phases
  <2>2. call'[t] = [call[t] EXCEPT !.phase = "flight", !.clock = 0] BY <1>1, <1>2
  <2>3. /\ call'[t] \in Calls /\ call'[t].phase = "flight" /\ call'[t].clock = 0
        /\ call'[t].kind = call[t].kind /\ call'[t].step = call[t].step
      BY <2>1, <2>2 DEF Calls
  <2>4. call' = [call EXCEPT ![t] = call'[t]] BY <1>1, <1>2
  <2> QED BY <1>2, <2>3, <2>4
<1>4. /\ client'[t].token = TokenOf(t) /\ client'[t].dry = client[t].dry
      /\ \A u \in Threads \ {t} : client'[u] = client[u]
      /\ client' \in [Threads -> Clients]
    BY <1>1, <1>2, TokenOfIsUsable DEF Clients
<1>5. \A m \in Metered :
        /\ Cost[m] \in Nat \ {0} /\ AmazonFull(m) \in Nat
        /\ m # o => meter'[m] = meter[m] /\ repeated'[m] = repeated[m]
        /\ m = o => meter'[m] = Larger(0, meter[m] - Cost[m])
        /\ meter'[m] \in 0..AmazonFull(m)
  <2> TAKE m \in Metered
  <2>1. Cost[m] \in Nat \ {0} /\ AmazonFull(m) \in Nat BY BucketSizes
  <2> HIDE DEF o
  <2> QED BY <1>1, <1>2, <2>1 DEF Larger
<1>6. TypeOK'
  <2>1. repeated' \in [Metered -> BOOLEAN] BY <1>1, <1>2
  <2>2. \A u \in Threads : ~At(u, "idle")' =>
           call'[u].kind \in Kinds /\ call'[u].step \in 1..Len(Script[call'[u].kind])
    <3> TAKE u \in Threads
    <3>1. CASE u = t
      <4>1. call[t].kind \in Kinds /\ call[t].step \in 1..Len(Script[call[t].kind])
          BY <1>1 DEF IInv, TypeOK, At
      <4> QED BY <1>3, <3>1, <4>1
    <3>2. CASE u # t BY <1>3, <3>2 DEF IInv, TypeOK, At
    <3> QED BY <3>1, <3>2
  <2> QED BY <1>1, <1>2, <1>3, <1>4, <1>5, <2>1, <2>2 DEF TypeOK
<1>7. ASSUME NEW u \in Threads PROVE ThreadInv(u)'
  <2>0. ThreadInv(u) BY DEF IInv
  <2>1. CASE u # t
    <3>1. call'[u] = call[u] /\ client'[u] = client[u] BY <1>3, <1>4, <2>1
    <3> QED BY <1>1, <2>0, <3>1 DEF ThreadInv, Aging, Rehearses, Earned, Retries, Drops, At, Op, LastAttempt
  <2>2. CASE u = t
    <3>1. Aging(t)'
      <4>1. TokenOf(t).age \in Nat BY <1>1, TokenOfIsUsable DEF Tokens
      <4> QED BY <1>1, <1>3, <1>4, <4>1, TokenOfIsUsable, TokenAssumption DEF Aging
    <3>2. Rehearses(t)' BY <1>3, <1>4, <2>0, <2>2 DEF ThreadInv, Rehearses
    <3> QED BY <1>1, <1>3, <1>4, <2>2, <3>1, <3>2, TokenOfIsUsable DEF ThreadInv, Earned, Retries, Drops, At
  <2> QED BY <2>1, <2>2
<1>8. ASSUME NEW m \in Metered PROVE Fits(m)'
  <2>1. FirstAttempts(m)' \subseteq FirstAttempts(m) \ {t}
    <3> SUFFICES ASSUME NEW u \in FirstAttempts(m)' PROVE u \in FirstAttempts(m) \ {t} OBVIOUS
    <3>1. u \in Threads /\ call'[u].phase = "ready" /\ call'[u].attempt = 1 /\ Op(u)' = m
        BY DEF FirstAttempts, At
    <3>2. u # t BY <1>3, <3>1
    <3>3. call'[u] = call[u] BY <1>3, <3>1, <3>2
    <3> QED BY <3>1, <3>2, <3>3 DEF FirstAttempts, At, Op
  <2>2. CASE m # o
    <3>1. FirstAttempts(m)' \subseteq FirstAttempts(m) BY <2>1
    <3>2. meter'[m] = meter[m] /\ repeated'[m] = repeated[m] BY <1>5, <2>2
    <3>3. credit'[m] = credit[m] /\ credit[m] \in Int /\ meter[m] \in Int
        BY <1>1, <1>2, BucketSizes
    <3> QED BY <1>6, <3>1, <3>2, <3>3, FewerFit DEF IInv
  <2>3. CASE m = o /\ call[t].attempt > 1
    <3>1. repeated'[m] BY <1>1, <2>3
    <3> QED BY <3>1 DEF Fits
  <2>4. CASE m = o /\ call[t].attempt = 1
    <3> DEFINE n == Cardinality(FirstAttempts(m))
    <3>1. t \in FirstAttempts(m) BY <1>1, <2>4 DEF FirstAttempts, At
    <3>2. n \in Nat /\ Cardinality(FirstAttempts(m) \ {t}) = n - 1
          /\ IsFiniteSet(FirstAttempts(m) \ {t}) /\ n - 1 \in Nat
      <4>1. IsFiniteSet(FirstAttempts(m)) /\ n \in Nat BY FirstAttemptsCounted
      <4>2. IsFiniteSet(FirstAttempts(m) \ {t}) /\ Cardinality(FirstAttempts(m) \ {t}) = n - 1
          BY <3>1, <4>1, FS_RemoveElement
      <4>3. Cardinality(FirstAttempts(m) \ {t}) \in Nat BY <4>2, FS_CardinalityType
      <4> QED BY <4>1, <4>2, <4>3
    <3>3. Cardinality(FirstAttempts(m)') \in Nat /\ Cardinality(FirstAttempts(m)') <= n - 1
        BY <2>1, <3>2, FS_Subset, FS_CardinalityType
    <3>4. Cost[m] * Cardinality(FirstAttempts(m)') <= Cost[m] * (n - 1)
          /\ Cost[m] * Cardinality(FirstAttempts(m)') \in Nat
        BY <1>5, <3>2, <3>3, TimesGrows
    <3>5. Cost[m] * n = Cost[m] * (n - 1) + Cost[m] /\ Cost[m] * (n - 1) \in Nat
        BY <1>5, <3>2
    <3>6. repeated[m] \/ meter[m] >= credit[m] + Cost[m] * n BY DEF IInv, Fits
    <3>7. meter'[m] = Larger(0, meter[m] - Cost[m]) /\ credit'[m] = credit[m]
          /\ (repeated[m] => repeated'[m])
        BY <1>1, <1>2, <1>5, <2>4
    <3>8. credit[m] \in Nat /\ meter[m] \in Nat /\ Cost[m] \in Nat BY <1>2, <1>5, BucketSizes
    <3> HIDE DEF n, o
    <3>9. repeated'[m] \/ meter'[m] >= credit'[m] + Cost[m] * Cardinality(FirstAttempts(m)')
        BY <3>4, <3>5, <3>6, <3>7, <3>8 DEF Larger
    <3> QED BY <3>9 DEF Fits
  <2>5. call[t].attempt \in Nat /\ call[t].attempt >= 1
      BY <1>2, CallAssumption DEF Calls
  <2> QED BY <2>2, <2>3, <2>4, <2>5
<1> QED BY <1>6, <1>7, <1>8 DEF IInv

\* A call that leaves its request with another token, to be denied, tried again or ended.
LEMMA TurnKeeps ==
    ASSUME IInv, NEW t \in Threads, ~At(t, "idle"), NEW c \in Calls, NEW k \in Tokens,
           call' = [call EXCEPT ![t] = c], client' = [client EXCEPT ![t].token = k],
           UNCHANGED <<credit, meter, repeated>>,
           c = Idle \/ (c.kind = call[t].kind /\ c.step = call[t].step /\ c.phase \in {"denied", "ready"}),
           c.phase = "ready" => c.attempt > 1,
           k.standing = "refused" => c.phase = "denied"
    PROVE  IInv'
<1>1. /\ call \in [Threads -> Calls] /\ client \in [Threads -> Clients]
      /\ call[t].kind \in Kinds /\ call[t].step \in 1..Len(Script[call[t].kind])
    BY DEF IInv, TypeOK
<1>2. /\ call' \in [Threads -> Calls] /\ call'[t] = c
      /\ \A u \in Threads \ {t} : call'[u] = call[u]
    BY <1>1
<1>3. /\ client' \in [Threads -> Clients]
      /\ client'[t].token = k /\ client'[t].dry = client[t].dry
      /\ \A u \in Threads \ {t} : client'[u] = client[u]
    BY <1>1 DEF Clients
<1>4. TypeOK'
  <2>1. \A u \in Threads : ~At(u, "idle")' =>
           call'[u].kind \in Kinds /\ call'[u].step \in 1..Len(Script[call'[u].kind])
    <3> TAKE u \in Threads
    <3>1. CASE u = t BY <1>1, <1>2, <3>1 DEF At, Idle
    <3>2. CASE u # t BY <1>2, <3>2 DEF IInv, TypeOK, At
    <3> QED BY <3>1, <3>2
  <2> QED BY <1>2, <1>3, <2>1 DEF IInv, TypeOK
<1>5. ASSUME NEW u \in Threads PROVE ThreadInv(u)'
  <2>0. ThreadInv(u) BY DEF IInv
  <2>1. CASE u # t
    <3>1. call'[u] = call[u] /\ client'[u] = client[u] BY <1>2, <1>3, <2>1
    <3> QED BY <2>0, <3>1 DEF ThreadInv, Aging, Rehearses, Earned, Retries, Drops, At, Op, LastAttempt
  <2>2. CASE u = t
    <3>1. c.phase \in {"idle", "denied", "ready"} BY DEF Idle
    <3>2. Rehearses(t)' BY <1>2, <1>3, <2>0, <2>2 DEF ThreadInv, Rehearses, Idle
    <3> QED BY <1>2, <1>3, <2>2, <3>1, <3>2 DEF ThreadInv, Aging, Earned, Retries, Drops, At
  <2> QED BY <2>1, <2>2
<1>6. ASSUME NEW o \in Metered PROVE Fits(o)'
  <2>1. FirstAttempts(o)' \subseteq FirstAttempts(o)
    <3> SUFFICES ASSUME NEW u \in FirstAttempts(o)' PROVE u \in FirstAttempts(o) OBVIOUS
    <3>1. u \in Threads /\ call'[u].phase = "ready" /\ call'[u].attempt = 1 /\ Op(u)' = o
        BY DEF FirstAttempts, At
    <3>2. u # t BY <1>2, <3>1
    <3>3. call'[u] = call[u] BY <1>2, <3>1, <3>2
    <3> QED BY <3>1, <3>3 DEF FirstAttempts, At, Op
  <2>2. credit[o] \in Int /\ meter[o] \in Int BY BucketSizes DEF IInv, TypeOK
  <2> QED BY <1>4, <2>1, <2>2, FewerFit DEF IInv
<1> QED BY <1>4, <1>5, <1>6 DEF IInv

LEMMA UnauthorisedKeeps ==
    ASSUME IInv, NEW t \in Threads, Unauthorised(t)
    PROVE  IInv'
<1> DEFINE c == [call[t] EXCEPT !.phase = "denied", !.clock = 0]
           k == [client[t].token EXCEPT !.standing = "refused"]
<1>1. /\ ~At(t, "idle") /\ UNCHANGED <<credit, meter, repeated>>
      /\ call' = [call EXCEPT ![t].phase = "denied", ![t].clock = 0]
      /\ client' = [client EXCEPT ![t].token.standing = "refused"]
    BY DEF Unauthorised, At
<1>2. /\ call \in [Threads -> Calls] /\ client \in [Threads -> Clients]
      /\ call[t] \in Calls /\ client[t].token \in Tokens
    BY DEF IInv, TypeOK, Clients
<1>3. c \in Calls /\ c.phase = "denied" /\ c.kind = call[t].kind /\ c.step = call[t].step
  <2>1. "denied" \in Phases /\ 0 \in Nat BY DEF Phases
  <2> QED BY <1>2, <2>1 DEF Calls
<1>4. k \in Tokens BY <1>2 DEF Tokens
<1>5. call' = [call EXCEPT ![t] = c] /\ client' = [client EXCEPT ![t].token = k] BY <1>1, <1>2
<1> HIDE DEF c, k
<1> QED BY <1>1, <1>3, <1>4, <1>5, TurnKeeps

\* invalidate drops the refused token before anything else is done with it.
LEMMA ReauthoriseKeeps ==
    ASSUME IInv, NEW t \in Threads, Reauthorise(t)
    PROVE  IInv'
<1> DEFINE n == call[t].attempt + 1
<1> DEFINE c == IF LastAttempt(call[t]) THEN Idle ELSE Again(call[t])
<1>1. /\ ~At(t, "idle") /\ UNCHANGED <<credit, meter, repeated>>
      /\ call' = [call EXCEPT ![t] = c] /\ client' = [client EXCEPT ![t].token = NoToken]
    BY DEF Reauthorise, At, Invalidate
<1>2. /\ call[t] \in Calls /\ call[t].attempt \in 1..MaxAttempts BY DEF IInv, TypeOK, Calls
<1>3. CASE LastAttempt(call[t])
  <2>1. c = Idle BY <1>3
  <2> HIDE DEF c
  <2>2. c \in Calls /\ c.phase = "idle" BY <2>1, IdleTyped DEF Idle
  <2> QED BY <1>1, <2>1, <2>2, IdleTyped, TurnKeeps DEF NoToken
<1>4. CASE ~LastAttempt(call[t])
  <2>1. n \in 1..MaxAttempts /\ n > 1 BY <1>2, <1>4, CallAssumption DEF LastAttempt
  <2>2. /\ c \in Calls /\ c.phase = "ready" /\ c.attempt = n
        /\ c.kind = call[t].kind /\ c.step = call[t].step
    <3>1. "ready" \in Phases BY DEF Phases
    <3>2. c = [call[t] EXCEPT !.phase = "ready", !.attempt = n] BY <1>4 DEF Again
    <3> HIDE DEF c, n
    <3> QED BY <1>2, <2>1, <3>1, <3>2 DEF Calls
  <2> HIDE DEF c, n
  <2> QED BY <1>1, <2>1, <2>2, IdleTyped, TurnKeeps DEF NoToken
<1> QED BY <1>3, <1>4

LEMMA PassesTyped ==
    ASSUME NEW c \in Calls
    PROVE  /\ Passes(c) \in Calls
           /\ Passes(c).kind = c.kind /\ Passes(c).step = c.step /\ Passes(c).phase = c.phase
           /\ Passes(c).attempt = c.attempt /\ Passes(c).robbed = c.robbed
           /\ c.phase = "taking" => Passes(c).clock <= c.clock + 1
           /\ c.phase = "flight" => Passes(c).clock = c.clock + 1
<1> DEFINE k == CASE c.phase = "taking" -> Smaller(c.clock + 1, Patience + 1)
                  [] c.phase = "flight" -> c.clock + 1
                  [] c.phase \in {"backoff", "pause"} -> Larger(c.clock - 1, 0)
                  [] OTHER -> c.clock
<1> DEFINE p == IF c.phase # "idle" /\ Script[c.kind][c.step] \in Polls
                THEN Smaller(c.polling + 1, PollLimit + 1) ELSE c.polling
<1>1. c.clock \in Nat /\ c.polling \in 0..(PollLimit + 1) BY DEF Calls
<1>2. /\ k \in Nat
      /\ c.phase = "taking" => k <= c.clock + 1
      /\ c.phase = "flight" => k = c.clock + 1
  <2>1. CASE c.phase = "taking" BY <1>1, <2>1, BucketAssumption DEF Smaller
  <2>2. CASE c.phase = "flight" BY <1>1, <2>2
  <2>3. CASE c.phase \in {"backoff", "pause"} BY <1>1, <2>3 DEF Larger
  <2>4. CASE c.phase \notin {"taking", "flight", "backoff", "pause"} BY <1>1, <2>4
  <2> QED BY <2>1, <2>2, <2>3, <2>4
<1>3. p \in 0..(PollLimit + 1) BY <1>1, TokenAssumption DEF Smaller
<1>4. Passes(c) = [c EXCEPT !.clock = k, !.polling = p] BY DEF Passes, Calls
<1> HIDE DEF k, p
<1> QED BY <1>2, <1>3, <1>4 DEF Calls

LEMMA TickKeeps ==
    ASSUME IInv, Tick
    PROVE  IInv'
<1>1. /\ \A t \in Threads : At(t, "flight") => call[t].clock < Timeout
      /\ credit' = [o \in Metered |-> Refill(o)]
      /\ meter' = [o \in Metered |-> Smaller(meter[o] + AmazonEarns[o], AmazonFull(o))]
      /\ repeated' = [o \in Metered |-> repeated[o] /\ meter'[o] < AmazonFull(o)]
      /\ client' = [t \in Threads |-> [client[t] EXCEPT !.token = Older(@)]]
      /\ call' = [t \in Threads |-> Passes(call[t])]
    BY DEF Tick
<1>2. /\ call \in [Threads -> Calls] /\ client \in [Threads -> Clients]
      /\ repeated \in [Metered -> BOOLEAN]
      /\ \A m \in Metered : credit[m] \in 0..Full(m) /\ meter[m] \in 0..AmazonFull(m)
    BY DEF IInv, TypeOK
<1>3. ASSUME NEW t \in Threads
      PROVE  /\ call[t] \in Calls /\ call'[t] \in Calls
             /\ call'[t].kind = call[t].kind /\ call'[t].step = call[t].step
             /\ call'[t].phase = call[t].phase /\ call'[t].attempt = call[t].attempt
             /\ call'[t].robbed = call[t].robbed
             /\ At(t, "taking") => call'[t].clock <= call[t].clock + 1
             /\ At(t, "flight") => call'[t].clock = call[t].clock + 1
  <2>1. call[t] \in Calls /\ call'[t] = Passes(call[t]) BY <1>1, <1>2
  <2> QED BY <2>1, PassesTyped DEF At
<1>4. ASSUME NEW t \in Threads
      PROVE  /\ client'[t] \in Clients /\ client'[t].dry = client[t].dry
             /\ client'[t].token.standing = client[t].token.standing
             /\ client[t].token.age \in Nat /\ client'[t].token.age \in Nat
             /\ client'[t].token.age <= client[t].token.age + 1
  <2>1. client[t] \in Clients /\ client[t].token \in Tokens BY <1>2 DEF Clients
  <2>2. client'[t] = [client[t] EXCEPT !.token = Older(client[t].token)] BY <1>1
  <2>3. /\ Older(client[t].token) \in Tokens
        /\ Older(client[t].token).standing = client[t].token.standing
        /\ client[t].token.age \in Nat /\ Older(client[t].token).age \in Nat
        /\ Older(client[t].token).age <= client[t].token.age + 1
      BY <2>1, TokenAssumption DEF Tokens, Older, Smaller
  <2> QED BY <2>1, <2>2, <2>3 DEF Clients
<1>5. ASSUME NEW o \in Metered
      PROVE  /\ Cost[o] \in Nat /\ Cost[o] <= Full(o) /\ Full(o) \in Nat /\ AmazonFull(o) \in Nat
             /\ credit[o] \in 0..Full(o) /\ meter[o] \in 0..AmazonFull(o)
             /\ credit'[o] = Smaller(credit[o] + 1, Full(o))
             /\ credit'[o] \in 0..Full(o)
             /\ meter'[o] \in 0..AmazonFull(o)
             /\ meter'[o] = AmazonFull(o) \/ meter'[o] >= meter[o] + 1
             /\ repeated'[o] = (repeated[o] /\ meter'[o] < AmazonFull(o))
  <2>1. credit'[o] = Smaller(credit[o] + 1, Full(o)) BY <1>1 DEF Refill
  <2>2. meter'[o] = Smaller(meter[o] + AmazonEarns[o], AmazonFull(o)) BY <1>1
  <2>3. repeated'[o] = (repeated[o] /\ meter'[o] < AmazonFull(o)) BY <1>1
  <2> QED BY <1>2, <2>1, <2>2, <2>3, BucketSizes DEF Smaller
<1>6. TypeOK'
  <2>1. call' \in [Threads -> Calls] /\ client' \in [Threads -> Clients]
      BY <1>1, <1>3, <1>4
  <2>2. repeated' \in [Metered -> BOOLEAN] BY <1>1, <1>2
  <2>3. \A t \in Threads : ~At(t, "idle")' =>
           call'[t].kind \in Kinds /\ call'[t].step \in 1..Len(Script[call'[t].kind])
      BY <1>3 DEF IInv, TypeOK, At
  <2> QED BY <1>5, <2>1, <2>2, <2>3 DEF TypeOK
<1>7. ASSUME NEW t \in Threads PROVE ThreadInv(t)'
  <2>0. ThreadInv(t) BY DEF IInv
  <2>1. Aging(t)'
    <3> SUFFICES ASSUME At(t, "flight")
                 PROVE  /\ call'[t].clock <= Timeout
                        /\ client'[t].token.age < Life - Margin + call'[t].clock
        BY <1>3 DEF Aging, At
    <3>1. call[t].clock \in Nat BY <1>3 DEF Calls
    <3>2. client[t].token.age < Life - Margin + call[t].clock BY <2>0 DEF ThreadInv, Aging
    <3> QED BY <1>1, <1>3, <1>4, <3>1, <3>2, TokenAssumption
  <2>2. Earned(t)'
    <3> SUFFICES ASSUME At(t, "taking"), ~call[t].robbed, Op(t) \in Metered
                 PROVE  credit'[Op(t)] >= call'[t].clock \/ credit'[Op(t)] >= Cost[Op(t)]
        BY <1>3 DEF Earned, At, Op
    <3>1. credit[Op(t)] >= call[t].clock \/ credit[Op(t)] >= Cost[Op(t)]
        BY <2>0 DEF ThreadInv, Earned
    <3>2. call[t].clock \in Nat /\ call'[t].clock \in Nat BY <1>3 DEF Calls
    <3> QED BY <1>3, <1>5, <3>1, <3>2 DEF Smaller
  <2> QED BY <1>3, <1>4, <2>0, <2>1, <2>2 DEF ThreadInv, Rehearses, Retries, Drops, At, LastAttempt
<1>8. ASSUME NEW o \in Metered PROVE Fits(o)'
  <2> DEFINE n == Cardinality(FirstAttempts(o))
  <2>1. FirstAttempts(o)' = FirstAttempts(o) BY <1>3 DEF FirstAttempts, At, Op
  <2>2. /\ n \in Nat /\ Cost[o] * n \in Nat
        /\ Full(o) + Cost[o] * n <= AmazonFull(o)
    <3>1. n \in Nat /\ n <= Cardinality(Threads) BY FirstAttemptsCounted
    <3>2. Cost[o] * n <= Cost[o] * Cardinality(Threads) /\ Cost[o] * n \in Nat
        BY <3>1, BucketSizes, TimesGrows
    <3> HIDE DEF n
    <3> QED BY <3>1, <3>2, BucketSizes
  <2>3. repeated[o] \/ meter[o] >= credit[o] + Cost[o] * n BY DEF IInv, Fits
  <2> HIDE DEF n
  <2>4. repeated'[o] \/ meter'[o] >= credit'[o] + Cost[o] * n
    <3>1. CASE meter'[o] = AmazonFull(o) BY <1>5, <2>2, <3>1
    <3>2. CASE meter'[o] # AmazonFull(o)
      <4>1. meter'[o] >= meter[o] + 1 /\ repeated'[o] = repeated[o] BY <1>2, <1>5, <3>2
      <4>2. credit'[o] <= credit[o] + 1 BY <1>5 DEF Smaller
      <4> QED BY <1>5, <2>2, <2>3, <4>1, <4>2
    <3> QED BY <3>1, <3>2
  <2> QED BY <2>1, <2>4 DEF Fits, n
<1> QED BY <1>6, <1>7, <1>8 DEF IInv
-----------------------------------------------------------------------------
(* The theorems. *)

LEMMA InitKeeps == Init => IInv
<1> SUFFICES ASSUME Init PROVE IInv OBVIOUS
<1>1. TypeOK BY InitTyped
<1>2. ASSUME NEW t \in Threads PROVE ThreadInv(t)
  <2>1. call[t] = Idle /\ client[t] = NoClient BY DEF Init
  <2> QED BY <2>1 DEF ThreadInv, Aging, Rehearses, Earned, Retries, Drops, At, Idle, NoClient, NoToken
<1>3. ASSUME NEW o \in Metered PROVE Fits(o)
  <2>1. FirstAttempts(o) = {} BY DEF Init, FirstAttempts, At, Idle
  <2>2. Cardinality(FirstAttempts(o)) = 0 BY <2>1, FS_EmptySet
  <2>3. credit[o] = Full(o) /\ meter[o] \in {AmazonFull(o), AmazonFull(o) - Full(o)}
      BY BucketSizes DEF Init
  <2> QED BY <2>2, <2>3, BucketSizes DEF Fits
<1> QED BY <1>1, <1>2, <1>3 DEF IInv

LEMMA StepKeeps == IInv /\ [Next]_vars => IInv'
<1> SUFFICES ASSUME IInv, [Next]_vars PROVE IInv' OBVIOUS
<1>1. CASE \E t \in Threads : Start(t) BY <1>1, StartKeeps
<1>2. ASSUME NEW t \in Threads, Continue(t) PROVE IInv'
  <2>1. CASE TakeToken(t) BY <2>1, TakeTokenKeeps
  <2>2. CASE Send(t) BY <2>2, SendKeeps
  <2>3. CASE Unauthorised(t) BY <2>3, UnauthorisedKeeps
  <2>4. CASE Reauthorise(t) BY <2>4, ReauthoriseKeeps
  <2>5. CASE Quiet(t) BY <2>5, QuietIsOnward, OnwardKeeps
  <2> QED BY <1>2, <2>1, <2>2, <2>3, <2>4, <2>5 DEF Continue, Quiet
<1>3. CASE Tick BY <1>3, TickKeeps
<1>4. CASE UNCHANGED vars
  BY <1>4 DEF vars, IInv, TypeOK, ThreadInv, Aging, Rehearses, Earned, Retries, Drops, Fits, FirstAttempts,
              At, Op, LastAttempt
<1> QED BY <1>1, <1>2, <1>3, <1>4 DEF Next

\* The state is well typed: no bucket is overdrawn or overfull.  (_Bucket)
THEOREM TypeCorrect == Spec => []TypeOK
<1>1. IInv => TypeOK BY DEF IInv
<1> QED BY <1>1, InitKeeps, StepKeeps, PTL DEF Spec

\* No access token expires on its way to Amazon.  (AccessToken.expired, TokenProvider.token)
THEOREM TokensAreFresh == Spec => []TokenIsFresh
<1>1. IInv => TokenIsFresh
  <2> SUFFICES ASSUME IInv, NEW t \in Threads, At(t, "flight")
               PROVE  client[t].token.age < Life
      BY DEF TokenIsFresh
  <2>1. /\ call[t].clock \in Nat /\ call[t].clock <= Timeout
        /\ client[t].token.age \in Nat
        /\ client[t].token.age < Life - Margin + call[t].clock
      BY DEF IInv, TypeOK, Calls, Clients, Tokens, ThreadInv, Aging
  <2> QED BY <2>1, TokenAssumption
<1> QED BY <1>1, InitKeeps, StepKeeps, PTL DEF Spec

\* A token that Amazon has answered with 401 is dropped before another request goes out,
\* of the same call or of a later one.  (request, TokenProvider.invalidate)
THEOREM RefusedTokensAreDropped == Spec => []RefusedTokenIsDropped
<1>1. IInv => RefusedTokenIsDropped BY DEF IInv, ThreadInv, Drops, At, RefusedTokenIsDropped
<1> QED BY <1>1, InitKeeps, StepKeeps, PTL DEF Spec

\* A practice-mode client sends nothing that changes the account.  (request)
THEOREM PracticeChangesNothing == Spec => []PracticeIsSilent
<1>1. IInv => PracticeIsSilent
  <2> SUFFICES ASSUME IInv, NEW t \in Threads, At(t, "flight"), client[t].dry
               PROVE  Op(t) \notin {"listings.patch", "feeds.create"}
      BY DEF PracticeIsSilent
  <2>1. call[t].kind \in Kinds /\ call[t].step \in 1..Len(Script[call[t].kind])
      BY DEF IInv, TypeOK, At
  <2>2. call[t].kind \in {"report", "check"}
      BY <2>1, KindsAreScripts DEF IInv, ThreadInv, Rehearses
  <2> QED BY <2>1, <2>2, Rehearsal DEF Op
<1> QED BY <1>1, InitKeeps, StepKeeps, PTL DEF Spec

\* First attempts find room in Amazon's allowance.  (_Bucket)
THEOREM AllowanceSuffices == Spec => []RoomAtAmazon
<1>1. IInv => RoomAtAmazon
  <2> SUFFICES ASSUME IInv, NEW o \in Metered, ~repeated[o]
               PROVE  meter[o] >= Cost[o] * Cardinality(FirstAttempts(o))
      BY DEF RoomAtAmazon
  <2>1. meter[o] >= credit[o] + Cost[o] * Cardinality(FirstAttempts(o)) BY DEF IInv, Fits
  <2>2. credit[o] \in Nat /\ meter[o] \in Int BY BucketSizes DEF IInv, TypeOK
  <2>3. Cost[o] * Cardinality(FirstAttempts(o)) \in Nat
      BY BucketSizes, FirstAttemptsCounted, TimesGrows
  <2> QED BY <2>1, <2>2, <2>3
<1> QED BY <1>1, InitKeeps, StepKeeps, PTL DEF Spec

\* A call that waits for a token is ended by nothing but giving up.
LEMMA WaitEndsInGivingUp ==
    ASSUME IInv, Next, NEW t \in Threads, At(t, "taking"), call'[t] = Idle
    PROVE  GiveUp(t)
<1>1. call \in [Threads -> Calls] BY DEF IInv, TypeOK
<1>2. call[t].phase = "taking" /\ call'[t].phase = "idle" BY DEF At, Idle
<1>3. ASSUME NEW u \in Threads \ {t}, NEW c, call' = [call EXCEPT ![u] = c] PROVE FALSE
    BY <1>1, <1>2, <1>3
<1>4. ASSUME NEW u \in Threads, Start(u) PROVE FALSE
  <2>1. u # t BY <1>2, <1>4 DEF Start, At
  <2>2. \E c : call' = [call EXCEPT ![u] = c] BY <1>4 DEF Start
  <2> QED BY <1>3, <2>1, <2>2
<1>5. ASSUME NEW u \in Threads, TakeToken(u) PROVE FALSE
  <2>1. call'[t] \in {[call[t] EXCEPT !.phase = "ready", !.clock = 0],
                      [call[t] EXCEPT !.robbed = TRUE], call[t]}
      BY <1>5 DEF TakeToken
  <2>2. call[t] \in Calls BY <1>1
  <2>3. call'[t].phase \in {"ready", "taking"} BY <1>2, <2>1, <2>2 DEF Calls
  <2> QED BY <1>2, <2>3
<1>6. ASSUME NEW u \in Threads, Send(u) PROVE FALSE
  <2>1. u # t BY <1>2, <1>6 DEF Send, At
  <2>2. call' = [call EXCEPT ![u].phase = "flight", ![u].clock = 0] BY <1>6 DEF Send
  <2>3. call'[t] = call[t] BY <1>1, <2>1, <2>2
  <2> QED BY <1>2, <2>3
<1>7. ASSUME NEW u \in Threads, Unauthorised(u) \/ Reauthorise(u) PROVE FALSE
  <2>1. u # t BY <1>2, <1>7 DEF Unauthorised, Reauthorise, At
  <2>2. call'[t] = call[t] BY <1>1, <1>7, <2>1 DEF Unauthorised, Reauthorise
  <2> QED BY <1>2, <2>2
<1>8. ASSUME NEW u \in Threads, Quiet(u) PROVE GiveUp(t)
  <2>1. CASE u = t BY <1>2, <1>8, <2>1
      DEF Quiet, NoExchange, Troubled, Refused, Answered, TryAgain, LookAgain, Transfer, At
  <2>2. CASE u # t
    <3>1. PICK c : GoesOn(u, c) BY <1>8, QuietIsOnward
    <3> QED BY <1>3, <2>2, <3>1 DEF GoesOn
  <2> QED BY <2>1, <2>2
<1>9. CASE Tick
  <2>1. call[t] \in Calls /\ call'[t] = Passes(call[t]) BY <1>1, <1>9 DEF Tick
  <2> QED BY <1>2, <2>1, PassesTyped
<1> QED BY <1>4, <1>5, <1>6, <1>7, <1>8, <1>9 DEF Next, Continue, Quiet

\* take gives up only for another thread's sake, or on an operation slower than its
\* patience.  (_Bucket.take)
THEOREM PatienceSuffices == Spec => NotRefusedAlone
<1>1. IInv /\ [Next]_vars =>
        [\A t \in Threads : At(t, "taking") /\ call'[t] = Idle =>
            call[t].robbed \/ Cost[Op(t)] > Patience]_vars
  <2> SUFFICES ASSUME IInv, Next, NEW t \in Threads, At(t, "taking"), call'[t] = Idle, ~call[t].robbed
               PROVE  Cost[Op(t)] > Patience
      OBVIOUS
  <2>1. call'[t].phase = "idle" /\ call[t].phase = "taking" BY DEF Idle, At
  <2>2. GiveUp(t) BY WaitEndsInGivingUp
  <2>3. Op(t) \in Metered /\ credit[Op(t)] < Cost[Op(t)]
    BY <2>2, BucketSizes DEF GiveUp, Enough, IInv, TypeOK
  <2>4. credit[Op(t)] >= call[t].clock BY <2>3, BucketSizes DEF IInv, TypeOK, ThreadInv, Earned
  <2>5. Patience \in Nat /\ Cost[Op(t)] \in Nat BY <2>3, BucketAssumption
  <2>6. credit[Op(t)] \in Nat BY <2>3, BucketSizes DEF IInv, TypeOK
  <2>7. call[t].clock \in Nat BY DEF IInv, TypeOK, Calls
  <2>8. call[t].clock + (Cost[Op(t)] - credit[Op(t)]) > Patience BY <2>2 DEF GiveUp, Shortfall
  <2> QED BY <2>4, <2>5, <2>6, <2>7, <2>8
<1> QED BY <1>1, InitKeeps, StepKeeps, PTL DEF Spec, NotRefusedAlone
=============================================================================
