------------------------- MODULE RateLimiter_proofs -------------------------
(***************************************************************************)
(* Proofs about RateLimiter, for every threshold, window and policy.       *)
(***************************************************************************)
EXTENDS RateLimiter, TLAPS

\* The provers get 30 seconds a leaf; most need one.
USE SMTT(30), ZenonT(30)

\* What makes the throttle exact.  A reply finds no throttle in place, so the
\* compare-exchange of a low reply always starts one; a throttle in place
\* dates from the last low reply; and a low reply without a throttle is at
\* least a window old.
Throttle ==
  /\ pc = "sent" => start = 0
  /\ start # 0 => start = lowAt /\ remaining < threshold
  /\ (lowAt # 0 /\ start = 0) => clock - lowAt >= Window

Inv == TypeOK /\ Throttle

\* The clamp of the constructor.
LEMMA ThresholdType == threshold \in 1..MaxRequests
BY LimiterAssumption DEF threshold

\* The inductive invariant holds at the start.
LEMMA InitInv == Init => Inv
BY LimiterAssumption, ThresholdType DEF Init, Inv, TypeOK, Throttle

\* Every step keeps it.
LEMMA NextInv == Inv /\ [Next]_vars => Inv'
<1> SUFFICES ASSUME Inv, [Next]_vars PROVE Inv'
  OBVIOUS
<1> USE LimiterAssumption, ThresholdType DEF Inv, TypeOK, Throttle
<1>1. CASE RequestSent
  BY <1>1 DEF RequestSent, Due, CanSend, Expired
<1>2. CASE RequestDropped
  BY <1>2 DEF RequestDropped, Due, CannotSend
<1>3. CASE DropReported
  BY <1>3 DEF DropReported
<1>4. CASE RequestWaits
  BY <1>4 DEF RequestWaits, Due, CannotSend
<1>5. CASE WaitEnds
  BY <1>5 DEF WaitEnds, CanSend, Expired
<1>6. ASSUME NEW n \in -1..MaxRequests, ReplyWithHeader(n) PROVE Inv'
  BY <1>6 DEF ReplyWithHeader, StartThrottle
<1>7. CASE ReplyTooMany
  BY <1>7 DEF ReplyTooMany, StartThrottle
<1>8. CASE ReplyWithoutHeader
  BY <1>8 DEF ReplyWithoutHeader
<1>9. CASE Tick
  BY <1>9 DEF Tick
<1>10. CASE UNCHANGED vars
  BY <1>10 DEF vars
<1> QED
  BY <1>1, <1>2, <1>3, <1>4, <1>5, <1>6, <1>7, <1>8, <1>9, <1>10
  DEF Next, Request, Reply, TimeIsUp

\* It holds throughout.
LEMMA Invariance == Spec => []Inv
BY InitInv, NextInv, PTL DEF Spec

\* Every value the limiter stores has its type; in particular the number of
\* requests left is never negative, whatever the header said.
THEOREM TypeCorrect == Spec => []TypeOK
BY Invariance, PTL DEF Inv

\* No request leaves within a window of a reply that said few were left.
THEOREM RequestsKeepOut == Spec => NoRequestInWindow
<1>1. Inv /\ [Next]_vars =>
        [(pc # "sent" /\ pc' = "sent")
           => (lowAt = 0 \/ clock - lowAt >= Window)]_vars
  BY LimiterAssumption, ThresholdType
  DEF Inv, TypeOK, Throttle, Next, Request, Reply, RequestSent, RequestDropped,
      DropReported, RequestWaits, WaitEnds, ReplyWithHeader, ReplyTooMany,
      ReplyWithoutHeader, Tick, TimeIsUp, CanSend, Expired, vars
<1> QED
  BY <1>1, Invariance, PTL DEF Spec, NoRequestInWindow

\* No request is dropped once a window has passed since such a reply.
THEOREM DropsEnd == Spec => DroppedOnlyInWindow
<1>1. Inv /\ [Next]_vars =>
        [(pc # "dropped" /\ pc' = "dropped")
           => (lowAt # 0 /\ clock - lowAt < Window)]_vars
  BY LimiterAssumption, ThresholdType
  DEF Inv, TypeOK, Throttle, Next, Request, Reply, RequestSent, RequestDropped,
      DropReported, RequestWaits, WaitEnds, ReplyWithHeader, ReplyTooMany,
      ReplyWithoutHeader, Tick, TimeIsUp, CannotSend, Expired, vars
<1> QED
  BY <1>1, Invariance, PTL DEF Spec, DroppedOnlyInWindow
=============================================================================
