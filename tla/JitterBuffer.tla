---------------------------- MODULE JitterBuffer ----------------------------
(***************************************************************************)
(* The de-jitter buffer of the viewer (rda-decode/src/jitter.rs) and the   *)
(* window of deviations it sets its target by (JitterEstimator).           *)
(*                                                                         *)
(* A buffer is a record: the queue in the order of the timestamps, each    *)
(* entry with its deadline; the target; the window of samples; the last    *)
(* arrival and the last timestamp; the timestamp last played; the time of  *)
(* the last decay; and since when the queue has been empty.                *)
(***************************************************************************)
EXTENDS Integers, Sequences, SequencesExt

CONSTANTS
    MIN_TARGET_MS, MAX_TARGET_MS,
    DECAY_MS_PER_S, SECOND,
    MAX_QUEUED_FRAMES,
    CATCHUP_SLACK_MS, STALE_AFTER_MS, STARVED_AFTER_MS,
    JITTER_WINDOW_MS, MAX_DEVIATION_MS,
    Never                \* None

ASSUME JitterAssumption ==
    /\ MIN_TARGET_MS \in Nat /\ MAX_TARGET_MS \in Nat /\ MIN_TARGET_MS <= MAX_TARGET_MS
    /\ DECAY_MS_PER_S \in Nat /\ SECOND \in Nat \ {0}
    /\ MAX_QUEUED_FRAMES \in Nat \ {0}
    /\ CATCHUP_SLACK_MS \in Nat /\ STALE_AFTER_MS \in Nat /\ STARVED_AFTER_MS \in Nat
    /\ JITTER_WINDOW_MS \in Nat /\ MAX_DEVIATION_MS \in Nat
    /\ Never \notin Int

Larger(a, b)  == IF a >= b THEN a ELSE b
Smaller(a, b) == IF a <= b THEN a ELSE b
Minus(a, b)   == IF a >= b THEN a - b ELSE 0          \* saturating_sub
Clamp(x, lo, hi) == Smaller(Larger(x, lo), hi)

EmptyBuffer ==
    [queue |-> <<>>, target |-> MIN_TARGET_MS, samples |-> <<>>,
     arrival |-> Never, pts |-> Never, played |-> Never,
     decayed |-> 0, emptySince |-> Never]

\* What has left the window is popped from the front.
StillCounted(all, now) ==
    SubSeq(all, SelectInSeq(all, LAMBDA s : now - s.at <= JITTER_WINDOW_MS), Len(all))

\* JitterEstimator::sample
Sampled(samples, deviation, now) ==
    StillCounted(Append(samples, [at |-> now, dev |-> deviation]), now)

\* JitterEstimator::percentile_ms for a percentage: of the sorted deviations the one
\* at (n - 1) * p, rounded to the nearest whole: the least that is no smaller than as
\* many of them.
Percentile(samples, pct) ==
    LET n           == Len(samples)
        rank        == 1 + (2 * (n - 1) * pct + 100) \div 200
        notAbove(d) == {i \in 1..n : samples[i].dev <= d}
    IN  IF n = 0 THEN 0
        ELSE Min({d \in {samples[i].dev : i \in 1..n} : Cardinality(notAbove(d)) >= rank})

\* How far the gap between two arrivals is from the gap between their timestamps.
Deviation(jb, pts, now) ==
    LET arrivalGap == Minus(now, jb.arrival)
        ptsGap     == Minus(pts, jb.pts)
    IN  Smaller(Larger(arrivalGap - ptsGap, ptsGap - arrivalGap), MAX_DEVIATION_MS)

Measured(jb, pts, now) ==
    [jb EXCEPT !.samples = IF jb.arrival = Never THEN @ ELSE Sampled(@, Deviation(jb, pts, now), now),
               !.arrival = now,
               !.pts     = pts]

\* JitterBuffer::adapt_target: up at once, down by DECAY_MS_PER_S a second.
AdaptTarget(jb, now) ==
    LET observed == Percentile(jb.samples, 95)
        grow     == observed > jb.target
        decay    == ~grow /\ Minus(now, jb.decayed) >= SECOND
        decayed  == Minus(jb.target, DECAY_MS_PER_S * ((now - jb.decayed) \div SECOND))
        target   == IF grow THEN observed ELSE IF decay THEN decayed ELSE jb.target
    IN  [jb EXCEPT !.target  = Clamp(target, MIN_TARGET_MS, MAX_TARGET_MS),
                   !.decayed = IF grow \/ decay THEN now ELSE @]

\* Where a frame goes: before the first with a later timestamp.
PositionFor(queue, pts) ==
    LET later == SelectInSeq(queue, LAMBDA q : q.pts > pts)
    IN  IF later = 0 THEN Len(queue) + 1 ELSE later

\* The deadlines from position i on, none earlier than the one before it.
RaiseDeadlines(queue) ==
    LET latest(i) == CHOOSE d \in {queue[j].due : j \in 1..i} :
                       \A j \in 1..i : queue[j].due <= d
    IN  [i \in 1..Len(queue) |-> [queue[i] EXCEPT !.due = latest(i)]]

\* Mutant: an earlier frame that arrives late keeps a deadline of its own, and so
\* do the frames behind it.
InsertOnly(jb, pts, discardable, now) ==
    InsertAt(jb.queue, PositionFor(jb.queue, pts),
             [pts |-> pts, discardable |-> discardable, due |-> now + jb.target])

Insert(jb, pts, discardable, now) ==
    RaiseDeadlines(InsertAt(jb.queue, PositionFor(jb.queue, pts),
                            [pts |-> pts, discardable |-> discardable, due |-> now + jb.target]))

\* JitterBuffer::enforce_capacity: one frame too many gives way, a discardable one first.
EnforceCapacity(queue) ==
    LET victim == SelectInSeq(queue, LAMBDA q : q.discardable)
    IN  IF Len(queue) <= MAX_QUEUED_FRAMES THEN queue
        ELSE RemoveAt(queue, IF victim = 0 THEN 1 ELSE victim)

NotYetPassed(jb, pts) == jb.played = Never \/ pts > jb.played

\* JitterBuffer::push
Push(jb, pts, discardable, now) ==
    LET measured == Measured(jb, pts, now)
        adapted  == AdaptTarget(measured, now)
    IN  IF ~NotYetPassed(jb, pts) THEN measured
        ELSE [adapted EXCEPT !.queue      = EnforceCapacity(Insert(adapted, pts, discardable, now)),
                             !.emptySince = Never]

\* The frames poll skips: well overdue, with the next one due as well.
CaughtUp(queue, now) ==
    LET behind(i) == /\ i < Len(queue)
                     /\ now > queue[i].due + CATCHUP_SLACK_MS
                     /\ queue[i + 1].due <= now
        front == CHOOSE i \in 1..Len(queue) : ~behind(i) /\ \A j \in 1..(i - 1) : behind(j)
    IN  IF queue = <<>> THEN queue ELSE SubSeq(queue, front, Len(queue))

WithoutStale(queue, now) ==
    IF queue # <<>> /\ now > Head(queue).due + STALE_AFTER_MS THEN Tail(queue) ELSE queue

\* JitterBuffer::poll: the buffer it leaves, and its decision. The frame to
\* play is the one whose timestamp it leaves in played.
Poll(jb, now) ==
    LET queue   == WithoutStale(CaughtUp(jb.queue, now), now)
        starved == jb.emptySince # Never /\ Minus(now, jb.emptySince) > STARVED_AFTER_MS
    IN  IF queue = <<>>
          THEN [jb  |-> [jb EXCEPT !.queue = queue,
                                   !.emptySince = IF @ = Never \/ starved THEN now ELSE @],
                out |-> IF starved THEN "starved" ELSE "wait"]
        ELSE IF now < Head(queue).due
          THEN [jb |-> [jb EXCEPT !.queue = queue], out |-> "wait"]
        ELSE [jb  |-> [jb EXCEPT !.queue = Tail(queue), !.played = Head(queue).pts],
              out |-> "play"]
=============================================================================
