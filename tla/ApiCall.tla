------------------------------ MODULE ApiCall ------------------------------
(***************************************************************************)
(* Calls to Amazon: what SpApiClient.request does with one call, and the   *)
(* conversations made of several calls.  Threads of one process share a    *)
(* token bucket for each operation; each has a client of its own with its  *)
(* own access token.  Amazon keeps an allowance of its own, answers, or    *)
(* does not.  Time is counted in ticks; a bucket holds ticks, and a call   *)
(* costs as many as it takes to earn one token.                            *)
(***************************************************************************)
EXTENDS FiniteSets, Integers, Sequences

CONSTANTS
    Threads,        \* threads of the process that talk to Amazon
    KindsOf,        \* the conversations of each, among those of Script
    Metered,        \* operations whose buckets are counted; those of the others earn
                    \* a token within a tick and are never empty
    Cost,           \* ticks in which the bucket of an operation earns one token
    Burst,          \* tokens the bucket of an operation holds
    Patience,       \* ticks after which take() gives up
    AmazonEarns,    \* what Amazon's allowance for an operation earns in one tick
    AmazonBurst,    \* requests Amazon's allowance for an operation holds
    MaxAttempts,    \* attempts of one call
    Pauses,         \* ticks a backoff may last, Retry-After included
    Timeout,        \* ticks until an unanswered request is given up
    Life,           \* ticks an access token is good for
    Margin,         \* ticks before its end a token is no longer used
    PollLimit       \* ticks a conversation waits for Amazon to finish

\* The calls of a conversation in their order, by the operation whose bucket each takes
\* from: a batch of patches, a feed document (reserve, submit, poll, fetch the result),
\* the test of the connection, the catalogue report (request, poll, fetch).
Script == [patch  |-> <<"listings.patch", "listings.patch">>,
           feed   |-> <<"feeds.create", "feeds.create", "feeds.get", "feeds.document">>,
           check  |-> <<"reports.get">>,
           report |-> <<"reports.create", "reports.get", "reports.document">>]

Kinds == UNION {KindsOf[t] : t \in Threads}

Ops == UNION {{Script[k][i] : i \in 1..Len(Script[k])} : k \in Kinds}

ASSUME KindAssumption ==
    /\ IsFiniteSet(Threads) /\ KindsOf \in [Threads -> SUBSET DOMAIN Script]
    /\ Metered \subseteq Ops
ASSUME BucketAssumption ==
    /\ Cost \in [Metered -> Nat \ {0}] /\ Burst \in [Metered -> Nat \ {0}]
    /\ Patience \in Nat
ASSUME AmazonAssumption ==
    /\ AmazonEarns \in [Metered -> Nat \ {0}] /\ AmazonBurst \in [Metered -> Nat]
    /\ \A o \in Metered : /\ AmazonBurst[o] >= 2 * Burst[o]
                           /\ AmazonBurst[o] >= Burst[o] + Cardinality(Threads)
ASSUME CallAssumption == MaxAttempts \in Nat \ {0} /\ Pauses \subseteq Nat /\ Pauses # {}
ASSUME TokenAssumption ==
    /\ Timeout \in Nat /\ Life \in Nat /\ Margin \in Nat /\ PollLimit \in Nat
    /\ Timeout < Margin /\ Margin < Life

VARIABLES
    credit,    \* ticks in our bucket of an operation
    meter,     \* ticks in Amazon's allowance for it
    repeated,  \* history: a call was repeated since Amazon's allowance was last full
    client,    \* the client of a thread: practice or not, and its access token
    call       \* the conversation of a thread and the call it is making

vars == <<credit, meter, repeated, client, call>>

Writes == {"listings.patch", "feeds.create", "reports.create"}
Polls == {"feeds.get", "reports.get"}

Full(o) == Burst[o] * Cost[o]
AmazonFull(o) == AmazonBurst[o] * Cost[o]

\* A token that is not there has age Life; a refused one has been answered with 401.
NoToken == [age |-> Life, standing |-> "none"]
NewToken == [age |-> 0, standing |-> "good"]
Tokens == [age: 0..Life, standing: {"none", "good", "refused"}]
Clients == [dry: BOOLEAN, token: Tokens]

\* clock: ticks waited for a token or an answer, or ticks of a pause to come;
\* polling: ticks since the conversation began to wait for Amazon's result;
\* robbed (history): another thread took a token this call was waiting for.
Phases == {"idle", "taking", "ready", "flight", "denied", "backoff", "transfer", "pause"}
Calls == [kind: Kinds \cup {"none"}, step: 1..4, phase: Phases, attempt: 1..MaxAttempts, clock: Nat,
          polling: 0..(PollLimit + 1), robbed: BOOLEAN]

Larger(m, n) == IF m > n THEN m ELSE n
Smaller(m, n) == IF m < n THEN m ELSE n

At(t, phase) == call[t].phase = phase
Op(t) == Script[call[t].kind][call[t].step]

TypeOK ==
    /\ \A o \in Metered : credit[o] \in 0..Full(o) /\ meter[o] \in 0..AmazonFull(o)
    /\ repeated \in [Metered -> BOOLEAN]
    /\ client \in [Threads -> Clients]
    /\ call \in [Threads -> Calls]
    /\ \A t \in Threads : ~At(t, "idle") =>
          call[t].kind \in Kinds /\ call[t].step \in 1..Len(Script[call[t].kind])

Idle == [kind |-> "none", step |-> 1, phase |-> "idle", attempt |-> 1, clock |-> 0,
         polling |-> 0, robbed |-> FALSE]

NoClient == [dry |-> FALSE, token |-> NoToken]

\* Buckets are full when a process starts, although its predecessor may have spent its
\* own a moment ago.
Init ==
    /\ credit = [o \in Metered |-> Full(o)]
    /\ \E used \in SUBSET Metered :
          meter = [o \in Metered |-> AmazonFull(o) - (IF o \in used THEN Full(o) ELSE 0)]
    /\ repeated = [o \in Metered |-> FALSE]
    /\ client = [t \in Threads |-> NoClient]
    /\ call = [t \in Threads |-> Idle]

-----------------------------------------------------------------------------
(* The start of a call. *)

\* A mutant of ReadOnlyWrites: the operations of a feed taken for harmless.
ReadOnlyWritesAndFeeds == {"reports.create", "feeds.create"}

\* A write verb that changes nothing on the account.
ReadOnlyWrites == {"reports.create"}

\* A practice-mode client answers such a call itself.
Rehearsed(dry, o) == dry /\ o \in Writes \ ReadOnlyWrites

\* Waits at take(), with the counts of a new call.
Asking(c) == [c EXCEPT !.phase = "taking", !.attempt = 1, !.clock = 0, !.robbed = FALSE]

\* The thread of t goes on with c; a client is closed with its conversation.
GoesOn(t, c) ==
    /\ call' = [call EXCEPT ![t] = c]
    /\ client' = IF c = Idle THEN [client EXCEPT ![t] = NoClient] ELSE client

Ends(t) == GoesOn(t, Idle)

\* Refreshing the catalogue and testing the connection only read, and ask for a
\* practice-mode client whatever the mode.
ClientModes(k) == IF k \in {"report", "check"} THEN {TRUE} ELSE BOOLEAN

\* Every job builds a client of its own.  A rehearsed write is answered by request
\* itself, without a token.  preflight obtains a token before it asks for anything.
Start(t) ==
    /\ At(t, "idle")
    /\ \E k \in KindsOf[t] : \E dry \in ClientModes(k) :
          /\ ~Rehearsed(dry, Script[k][1])
          /\ call' = [call EXCEPT ![t] = Asking([Idle EXCEPT !.kind = k])]
          /\ client' = [client EXCEPT ![t] =
                [dry |-> dry, token |-> IF k = "check" THEN NewToken ELSE NoToken]]
    /\ UNCHANGED <<credit, meter, repeated>>

-----------------------------------------------------------------------------
(* _Bucket.take: each look at the bucket happens under its lock. *)

Enough(o) == o \in Metered => credit[o] >= Cost[o]

TakeToken(t) ==
    /\ At(t, "taking") /\ Enough(Op(t))
    /\ credit' = [o \in Metered |-> IF o = Op(t) THEN Larger(0, credit[o] - Cost[o]) ELSE credit[o]]
    /\ call' = [u \in Threads |->
                  IF u = t THEN [call[u] EXCEPT !.phase = "ready", !.clock = 0]
                  ELSE IF At(u, "taking") /\ Op(u) = Op(t) THEN [call[u] EXCEPT !.robbed = TRUE]
                  ELSE call[u]]
    /\ UNCHANGED <<meter, repeated, client>>

Shortfall(t) == Cost[Op(t)] - credit[Op(t)]

\* The TimeoutError of take passes every handler of the client.
GiveUp(t) ==
    /\ At(t, "taking") /\ ~Enough(Op(t))
    /\ call[t].clock + Shortfall(t) > Patience
    /\ Ends(t)
    /\ UNCHANGED <<credit, meter, repeated>>

-----------------------------------------------------------------------------
(* One attempt: TokenProvider.token, the request, the answer. *)

\* A mutant of Usable: a token is used until its last moment.
UsableToTheEnd(token) == token.standing # "none" /\ token.age < Life

Usable(token) == token.standing # "none" /\ token.age < Life - Margin

\* The cached token, or a new one for the refresh token.
TokenOf(t) == IF Usable(client[t].token) THEN client[t].token ELSE NewToken

\* Amazon counts the request against what is left of its allowance.
Send(t) ==
    LET o == Op(t)
    IN  /\ At(t, "ready")
        /\ client' = [client EXCEPT ![t].token = TokenOf(t)]
        /\ call' = [call EXCEPT ![t].phase = "flight", ![t].clock = 0]
        /\ meter' = [m \in Metered |-> IF m = o THEN Larger(0, meter[o] - Cost[o]) ELSE meter[m]]
        /\ repeated' = [m \in Metered |-> repeated[m] \/ (m = o /\ call[t].attempt > 1)]
        /\ UNCHANGED <<credit>>

\* The exchange of the refresh token fails: AmazonAuthError passes every handler.
NoExchange(t) ==
    /\ At(t, "ready") /\ ~Usable(client[t].token)
    /\ Ends(t)
    /\ UNCHANGED <<credit, meter, repeated>>

LastAttempt(c) == c.attempt = MaxAttempts

Again(c) == [c EXCEPT !.phase = "ready", !.attempt = @ + 1]

\* An answer or none that is met by another attempt after a pause: the request or its
\* answer is lost, 429, 5xx.
Troubled(t) ==
    /\ At(t, "flight")
    /\ IF LastAttempt(call[t]) THEN Ends(t)
       ELSE \E p \in Pauses : GoesOn(t, [call[t] EXCEPT !.phase = "backoff", !.clock = p])
    /\ UNCHANGED <<credit, meter, repeated>>

\* 401: Amazon refuses the access token of the request, stale or revoked.
Unauthorised(t) ==
    /\ At(t, "flight")
    /\ client' = [client EXCEPT ![t].token.standing = "refused"]
    /\ call' = [call EXCEPT ![t].phase = "denied", ![t].clock = 0]
    /\ UNCHANGED <<credit, meter, repeated>>

\* A mutant of Invalidate: it is forgotten.
KeepToken(token) == token

\* TokenProvider.invalidate.
Invalidate(token) == NoToken

\* The token is dropped whatever follows: another attempt at once, with a new one, or,
\* after the last attempt, an error that ends the conversation, a batch of patches as well.
Reauthorise(t) ==
    /\ At(t, "denied")
    /\ client' = [client EXCEPT ![t].token = Invalidate(@)]
    /\ call' = [call EXCEPT ![t] = IF LastAttempt(@) THEN Idle ELSE Again(@)]
    /\ UNCHANGED <<credit, meter, repeated>>

TryAgain(t) ==
    /\ At(t, "backoff") /\ call[t].clock = 0
    /\ GoesOn(t, Again(call[t]))
    /\ UNCHANGED <<credit, meter, repeated>>

-----------------------------------------------------------------------------
(* The answer moves the conversation on. *)

\* A feed document is uploaded to Amazon's storage, and results are fetched from it.
Transfers(c) == \/ c.kind = "feed" /\ c.step \in {1, 4}
                \/ c.kind = "report" /\ c.step = 3

NextCall(c) == IF c.step = Len(Script[c.kind]) THEN Idle
               ELSE Asking([c EXCEPT !.step = @ + 1])

\* 403 or another 4xx: no further attempt.  A patch that is refused for itself, with 400 or
\* 404, is a rejected item of its batch, and the next patch goes out.
Refused(t) ==
    /\ At(t, "flight")
    /\ \/ Ends(t)
       \/ call[t].kind = "patch" /\ GoesOn(t, NextCall(call[t]))
    /\ UNCHANGED <<credit, meter, repeated>>

\* A mutant of StillWaits: every look at the status starts the wait anew.
StillWaitsAnew(c) == [c EXCEPT !.phase = "pause", !.clock = 1, !.polling = 0]

\* Not finished yet: another look after a pause, unless the wait is over.  A feed is
\* left for a later run to confirm, a report is given up.
StillWaits(c) ==
    IF c.polling > PollLimit THEN Idle
    ELSE [c EXCEPT !.phase = "pause", !.clock = 1]

Answered(t) ==
    /\ At(t, "flight") /\ client[t].token.standing = "good"
    /\ \/ GoesOn(t, IF Transfers(call[t]) THEN [call[t] EXCEPT !.phase = "transfer", !.clock = 0]
                    ELSE NextCall(call[t]))
       \/ Op(t) \in Polls /\ call[t].kind # "check" /\ GoesOn(t, StillWaits(call[t]))
       \/ Ends(t)
    /\ UNCHANGED <<credit, meter, repeated>>

LookAgain(t) ==
    /\ At(t, "pause") /\ call[t].clock = 0
    /\ GoesOn(t, Asking(call[t]))
    /\ UNCHANGED <<credit, meter, repeated>>

\* Without a token and without a retry.
Transfer(t) ==
    /\ At(t, "transfer")
    /\ GoesOn(t, NextCall(call[t])) \/ Ends(t)
    /\ UNCHANGED <<credit, meter, repeated>>

-----------------------------------------------------------------------------
(* The surroundings. *)

\* A mutant of Refill: a bucket that is not used goes on filling.
RefillOn(o) == Smaller(credit[o] + 1, AmazonFull(o) + Cost[o])

\* A mutant of Refill: a look at the bucket forgets the time since the last one.
RefillForgotten(o) ==
    IF \E t \in Threads : At(t, "taking") /\ Op(t) = o THEN credit[o]
    ELSE Smaller(credit[o] + 1, Full(o))

Refill(o) == Smaller(credit[o] + 1, Full(o))

Older(token) == [token EXCEPT !.age = Smaller(@ + 1, Life)]

Passes(c) ==
    [c EXCEPT !.clock = CASE c.phase = "taking" -> Smaller(@ + 1, Patience + 1)
                          [] c.phase = "flight" -> @ + 1
                          [] c.phase \in {"backoff", "pause"} -> Larger(@ - 1, 0)
                          [] OTHER -> @,
              !.polling = IF c.phase # "idle" /\ Script[c.kind][c.step] \in Polls
                          THEN Smaller(@ + 1, PollLimit + 1) ELSE @]

\* A tick.  No request stays unanswered for longer than its timeout.
Tick ==
    /\ \A t \in Threads : At(t, "flight") => call[t].clock < Timeout
    /\ credit' = [o \in Metered |-> Refill(o)]
    /\ meter' = [o \in Metered |-> Smaller(meter[o] + AmazonEarns[o], AmazonFull(o))]
    /\ repeated' = [o \in Metered |-> repeated[o] /\ meter'[o] < AmazonFull(o)]
    /\ client' = [t \in Threads |-> [client[t] EXCEPT !.token = Older(@)]]
    /\ call' = [t \in Threads |-> Passes(call[t])]

\* What the thread of a call does next, or what befalls its request.
Continue(t) ==
    \/ TakeToken(t) \/ GiveUp(t)
    \/ Send(t) \/ NoExchange(t)
    \/ Troubled(t) \/ Unauthorised(t) \/ Reauthorise(t) \/ Refused(t) \/ Answered(t)
    \/ TryAgain(t) \/ LookAgain(t) \/ Transfer(t)

Next ==
    \/ \E t \in Threads : Start(t) \/ Continue(t)
    \/ Tick

Spec == Init /\ [][Next]_vars

Fairness == WF_vars(Tick) /\ \A t \in Threads : WF_vars(Continue(t))

FairSpec == Spec /\ Fairness

-----------------------------------------------------------------------------
(* Properties. *)

FirstAttempts(o) == {t \in Threads : At(t, "ready") /\ call[t].attempt = 1 /\ Op(t) = o}

\* A call that has its token and is about to be made for the first time finds room in
\* Amazon's allowance, unless calls were repeated, which costs no token.  (_Bucket)
RoomAtAmazon == \A o \in Metered :
    ~repeated[o] => meter[o] >= Cost[o] * Cardinality(FirstAttempts(o))

\* No access token expires on its way to Amazon, however long the conversation lasts.
\* (AccessToken.expired, TokenProvider.token)
TokenIsFresh == \A t \in Threads : At(t, "flight") => client[t].token.age < Life

\* A token that Amazon has answered with 401 is not offered to it again, neither by the next
\* attempt nor by a later call.  (request, TokenProvider.invalidate)
RefusedTokenIsDropped == \A t \in Threads : At(t, "flight") => client[t].token.standing # "refused"

\* A practice-mode client sends nothing that changes the account.  (request)
PracticeIsSilent == \A t \in Threads :
    At(t, "flight") /\ client[t].dry => Op(t) \notin {"listings.patch", "feeds.create"}

\* take gives up only on a token another thread took meanwhile, or on an operation whose
\* tokens come more slowly than take will wait.  (_Bucket.take)
NotRefusedAlone ==
    [][\A t \in Threads : At(t, "taking") /\ call'[t] = Idle =>
          call[t].robbed \/ Cost[Op(t)] > Patience]_vars

\* Every conversation comes to an end: whatever Amazon answers, its thread goes on
\* and the run lock is freed.  (request, wait_for_feed, wait_for_report)
ConversationEnds == \A t \in Threads : ~At(t, "idle") ~> At(t, "idle")
=============================================================================
