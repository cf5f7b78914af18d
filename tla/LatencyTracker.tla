--------------------------- MODULE LatencyTracker ---------------------------
\* LatencyTracker: the times at which orders were submitted and two of its
\* five histograms, the wait in the queue and the round trip of a fill.  (The
\* other three are fed through the same record.)
EXTENDS Integers, Sequences

CONSTANTS
  Orders,   \* the client order ids
  Word,     \* 2^64: timestamps are unsigned words
  Highest   \* kHighestTrackable

VARIABLES
  submits,  \* submit_timestamps_; None where there is no entry
  waits,    \* the samples of MpscQueue, kept by the order they are about
  trips     \* the samples of FillRoundTrip, likewise

trackerVars == <<submits, waits, trips>>

None == -1

InitTracker ==
  /\ submits = [o \in Orders |-> None]
  /\ waits = [o \in Orders |-> <<>>]
  /\ trips = [o \in Orders |-> <<>>]

\* The uint64_t difference of two readings of the clock, cast to int64_t.
Elapsed(from, to) ==
  LET diff == (to - from) % Word
  IN  IF diff < Word \div 2 THEN diff ELSE diff - Word

\* A histogram that takes any value.
RecordedUnchecked(histogram, o, value) ==
  [histogram EXCEPT ![o] = Append(@, value)]

\* hdr_record_value_atomic ignores a value it cannot track.
Recorded(histogram, o, value) ==
  IF value \in 0..Highest
  THEN [histogram EXCEPT ![o] = Append(@, value)]
  ELSE histogram

\* record(MpscQueue, ...) with the operands of its difference swapped.
RecordSwapped(o, queuedAt, dequeuedAt) ==
  /\ waits' = Recorded(waits, o, Elapsed(dequeuedAt, queuedAt))
  /\ UNCHANGED <<submits, trips>>

\* record(MpscQueue, dequeued_at - queuedAt).
Record(o, queuedAt, dequeuedAt) ==
  /\ waits' = Recorded(waits, o, Elapsed(queuedAt, dequeuedAt))
  /\ UNCHANGED <<submits, trips>>

\* recordOrderSubmit, under the mutex, with the reading made before it.
RecordOrderSubmit(o, now) ==
  /\ submits' = [submits EXCEPT ![o] = now]
  /\ UNCHANGED <<waits, trips>>

\* A recordFillReceived that keeps the entry.
RecordFillKeepsEntry(o, now) ==
  /\ trips' = IF submits[o] = None
              THEN trips
              ELSE Recorded(trips, o, Elapsed(submits[o], now))
  /\ UNCHANGED <<submits, waits>>

\* recordFillReceived, under the mutex: the first fill after the submission
\* is measured and the entry erased; without an entry nothing happens.
RecordFillReceived(o, now) ==
  /\ trips' = IF submits[o] = None
              THEN trips
              ELSE Recorded(trips, o, Elapsed(submits[o], now))
  /\ submits' = [submits EXCEPT ![o] = None]
  /\ UNCHANGED waits
=============================================================================
