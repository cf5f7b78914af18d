----------------------------- MODULE RateLimiter -----------------------------
(***************************************************************************)
(* RateLimiter and the calls AlpacaRestClient makes to it: waitOrDrop      *)
(* before a request, updateRateLimit with the reply.  The gateway and the  *)
(* fill listener have a client, and a limiter, each of their own, so one   *)
(* thread makes all the calls; the clock runs on in between.               *)
(***************************************************************************)
EXTENDS Integers

CONSTANTS
  Threshold,    \* the constructor's threshold
  MaxRequests,  \* kMaxRequestsPerWindow
  Window,       \* kWindowDurationNs
  MaxTime       \* bound: the last value of the clock

ASSUME LimiterAssumption ==
  /\ Threshold \in Int
  /\ MaxRequests \in Nat \ {0}
  /\ Window \in Nat
  /\ MaxTime \in Nat \ {0}

VARIABLES
  policy,     \* policy_: whether to wait or to drop, fixed by the constructor
  remaining,  \* remaining_
  start,      \* throttle_start_ns_
  clock,      \* nowNanos()
  pc,         \* between requests, waiting for leave, or waiting for a reply
  lowAt       \* history: when the last reply said that few requests were
              \* left, 0 if the last one that said anything said otherwise

vars == <<policy, remaining, start, clock, pc, lowAt>>

\* std::clamp in the constructor
threshold ==
  IF Threshold < 1 THEN 1
  ELSE IF Threshold > MaxRequests THEN MaxRequests ELSE Threshold

Init ==
  /\ policy \in {"Wait", "Drop"}
  /\ remaining = MaxRequests
  /\ start = 0
  /\ clock = 1
  /\ pc = "idle"
  /\ lowAt = 0

\* An off-by-one in the test of the window.
ExpiredLate == clock - start > Window

\* The throttle has lasted a whole window.
Expired == clock - start >= Window

\* canSend without the test of the window.
CanSendNever == (remaining >= threshold \/ start = 0) /\ UNCHANGED start

\* canSend that leaves an expired throttle in place.
CanSendKeepsStart ==
  (remaining >= threshold \/ start = 0 \/ Expired) /\ UNCHANGED start

\* canSend returns true; an expired throttle is cleared on the way.
CanSend ==
  \/ (remaining >= threshold \/ start = 0) /\ UNCHANGED start
  \/ remaining < threshold /\ start # 0 /\ Expired /\ start' = 0

\* canSend returns false.
CannotSend == remaining < threshold /\ start # 0 /\ ~Expired /\ UNCHANGED start

\* A request is due; the bound leaves time for a wait to end.
Due == pc = "idle" /\ clock + Window <= MaxTime

RequestSent ==
  /\ Due
  /\ CanSend
  /\ pc' = "sent"
  /\ UNCHANGED <<policy, remaining, clock, lowAt>>

\* waitOrDrop returns false.
RequestDropped ==
  /\ Due
  /\ policy = "Drop"
  /\ CannotSend
  /\ pc' = "dropped"
  /\ UNCHANGED <<policy, remaining, clock, lowAt>>

\* The caller is told, and goes on.
DropReported ==
  /\ pc = "dropped"
  /\ pc' = "idle"
  /\ UNCHANGED <<policy, remaining, start, clock, lowAt>>

\* waitOrDrop enters its loop ...
RequestWaits ==
  /\ Due
  /\ policy = "Wait"
  /\ CannotSend
  /\ pc' = "waiting"
  /\ UNCHANGED <<policy, remaining, clock, lowAt>>

\* ... sleeps as long as canSend is false, and leaves it.
WaitEnds ==
  /\ pc = "waiting"
  /\ CanSend
  /\ pc' = "sent"
  /\ UNCHANGED <<policy, remaining, clock, lowAt>>

-----------------------------------------------------------------------------

\* compare_exchange_strong(0, nowNanos())
StartThrottle == start' = IF start = 0 THEN clock ELSE start

\* The reply's header says n requests are left: update(max(n, 0)).
ReplyWithHeader(n) ==
  /\ pc = "sent"
  /\ remaining' = IF n < 0 THEN 0 ELSE n
  /\ IF n < threshold
     THEN StartThrottle /\ lowAt' = clock
     ELSE start' = 0 /\ lowAt' = 0
  /\ pc' = "idle"
  /\ UNCHANGED <<policy, clock>>

\* The reply is 429: onRateLimited.
ReplyTooMany ==
  /\ pc = "sent"
  /\ remaining' = 0
  /\ StartThrottle
  /\ lowAt' = clock
  /\ pc' = "idle"
  /\ UNCHANGED <<policy, clock>>

\* No reply, or one whose header is missing or is not a number.
ReplyWithoutHeader ==
  /\ pc = "sent"
  /\ pc' = "idle"
  /\ UNCHANGED <<policy, remaining, start, clock, lowAt>>

Tick ==
  /\ clock < MaxTime
  /\ clock' = clock + 1
  /\ UNCHANGED <<policy, remaining, start, pc, lowAt>>

\* The bound on the clock is reached.
TimeIsUp == clock = MaxTime /\ UNCHANGED vars

Request == RequestSent \/ RequestDropped \/ DropReported \/ RequestWaits \/ WaitEnds
Reply ==
  \/ \E n \in -1..MaxRequests : ReplyWithHeader(n)
  \/ ReplyTooMany
  \/ ReplyWithoutHeader

Next == Request \/ Reply \/ Tick \/ TimeIsUp

Spec == Init /\ [][Next]_vars

\* Time passes, and a thread that sleeps wakes up.
FairSpec == Spec /\ WF_vars(Tick) /\ WF_vars(WaitEnds)

-----------------------------------------------------------------------------

\* Every variable has its type; the requests left are never negative.
TypeOK ==
  /\ policy \in {"Wait", "Drop"}
  /\ remaining \in 0..MaxRequests
  /\ start \in 0..clock
  /\ clock \in 1..MaxTime
  /\ pc \in {"idle", "waiting", "dropped", "sent"}
  /\ lowAt \in 0..clock

\* A request goes out only if the last word from the broker was that enough
\* requests were left, or if a whole window has passed since it was not.
NoRequestInWindow ==
  [][(pc # "sent" /\ pc' = "sent")
       => (lowAt = 0 \/ clock - lowAt >= Window)]_vars

\* A request is dropped only within a window of the broker's warning: a
\* throttle always ends, and an old one never drops a request.
DroppedOnlyInWindow ==
  [][(pc # "dropped" /\ pc' = "dropped")
       => (lowAt # 0 /\ clock - lowAt < Window)]_vars

\* waitOrDrop returns, under the Wait policy: no throttle lasts for ever.
\* (Only tests select that policy; the gateway's REST client drops.)
WaitReturns == pc = "waiting" ~> pc = "sent"
=============================================================================
