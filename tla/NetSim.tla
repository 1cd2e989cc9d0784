------------------------------- MODULE NetSim -------------------------------
(***************************************************************************)
(* LinkSim (rda-netsim/src/link.rs), the simulated one-way link the        *)
(* network tests run on: a bottleneck queue, a loss model, jitter and      *)
(* reordering over a clock its caller supplies.                            *)
(*                                                                         *)
(* A packet is its size and its times. Chances are nondeterministic; those *)
(* of the loss model are the outcomes it leaves open in its two states.    *)
(***************************************************************************)
EXTENDS Integers, Sequences, FiniteSets, FiniteSetsExt

CONSTANTS
    Sizes,                    \* payload lengths, in bytes
    QUEUE_BYTES,              \* LinkProfile::queue_bytes
    BANDWIDTH_BPS,            \* LinkProfile::bandwidth_bps
    BASE_DELAY,               \* LinkProfile::base_delay_ms
    Jitters,                  \* what the normal deviate may be
    LossInGood, LossInBad,    \* whether a packet may be lost: sets of outcomes
    MaxPackets, SimTime       \* bounds: packets offered, last time of the clock

ASSUME NetSimAssumption ==
    /\ Sizes \subseteq Nat /\ QUEUE_BYTES \in Nat /\ BANDWIDTH_BPS \in Nat \ {0}
    /\ BASE_DELAY \in Nat /\ Jitters \subseteq Int
    /\ LossInGood \subseteq BOOLEAN /\ LossInBad \subseteq BOOLEAN

Unseen == -1    \* last_delivered_sequence of None

VARIABLES
    simNow,        \* the caller's clock
    inFlight,      \* in_flight: a set, since poll sorts what it takes out
    queueBytes,    \* queue_bytes
    drainsAt,      \* queue_drains_at_ms
    inBadState,    \* in_bad_state of the Gilbert-Elliott model
    lastDelivered, \* last_delivered_sequence
    stats,         \* LinkStats; its sent is also the next sequence
    collected      \* history: what poll has returned so far

simVars == <<simNow, inFlight, queueBytes, drainsAt, inBadState, lastDelivered, stats, collected>>

AtLeast1(n) == IF n < 1 THEN 1 ELSE n
LaterOf(a, b) == IF a >= b THEN a ELSE b

SimInit ==
    /\ simNow = 0 /\ inFlight = {}
    /\ queueBytes = 0 /\ drainsAt = 0 /\ inBadState = FALSE
    /\ lastDelivered = Unseen
    /\ stats = [sent |-> 0, delivered |-> 0, lost |-> 0, overflowed |-> 0, reordered |-> 0]
    /\ collected = <<>>

\* drain_queue: everything leaves the queue at once, when the last byte has.
Drained == IF simNow >= drainsAt THEN [bytes |-> 0, at |-> simNow]
           ELSE [bytes |-> queueBytes, at |-> drainsAt]

\* roll_loss: whether it may answer lost once the model is in the state bad. The
\* Bernoulli model is the one with the same outcomes in both.
MayAnswer(bad, lost) == lost \in IF bad THEN LossInBad ELSE LossInGood

\* send, refused by the full queue: the loss model is not asked.
Overflows(size) ==
    /\ stats.sent < MaxPackets
    /\ Drained.bytes + size > QUEUE_BYTES
    /\ queueBytes' = Drained.bytes /\ drainsAt' = Drained.at
    /\ stats' = [stats EXCEPT !.sent = @ + 1, !.overflowed = @ + 1]
    /\ UNCHANGED <<simNow, inFlight, inBadState, lastDelivered, collected>>

\* send, with the packet dropped by the loss model.
LosesPacket(size) ==
    /\ stats.sent < MaxPackets
    /\ Drained.bytes + size <= QUEUE_BYTES
    /\ \E bad \in BOOLEAN : MayAnswer(bad, TRUE) /\ inBadState' = bad
    /\ queueBytes' = Drained.bytes /\ drainsAt' = Drained.at
    /\ stats' = [stats EXCEPT !.sent = @ + 1, !.lost = @ + 1]
    /\ UNCHANGED <<simNow, inFlight, lastDelivered, collected>>

\* A reordered packet's time: just ahead of the earliest in flight, but never now.
PulledForward(earliest) == LaterOf(IF earliest = 0 THEN 0 ELSE earliest - 1, simNow + 1)

\* send, with the packet queued: it is clocked out after those ahead of it and
\* arrives a delay later, or ahead of all the others when it is reordered.
Queued(size, jitter, reorder) ==
    LET clockedOut == LaterOf(simNow, Drained.at) + (size * 8 * 1000) \div BANDWIDTH_BPS
        natural == clockedOut + AtLeast1(BASE_DELAY + jitter)
        deliver == IF reorder /\ inFlight # {}
                   THEN PulledForward(Min({p.deliver : p \in inFlight}))
                   ELSE natural
    IN  /\ stats.sent < MaxPackets
        /\ Drained.bytes + size <= QUEUE_BYTES
        /\ \E bad \in BOOLEAN : MayAnswer(bad, FALSE) /\ inBadState' = bad
        /\ drainsAt' = clockedOut
        /\ queueBytes' = Drained.bytes + size
        /\ inFlight' = inFlight \cup {[sent |-> simNow, deliver |-> deliver, sequence |-> stats.sent]}
        /\ stats' = [stats EXCEPT !.sent = @ + 1, !.delivered = @ + 1]
        /\ UNCHANGED <<simNow, lastDelivered, collected>>

Earlier(p, q) == p.deliver < q.deliver \/ (p.deliver = q.deliver /\ p.sequence < q.sequence)

\* Packets sorted by their time and then as they were sent (due.sort_by_key).
ByTime(packets) ==
    [i \in 1..Cardinality(packets) |->
        CHOOSE p \in packets : Cardinality({q \in packets : Earlier(q, p)}) = i - 1]

\* Fault: what earlier polls returned is forgotten.
OvertakenInThisPoll(due) ==
    {i \in DOMAIN due : \E j \in 1..(i - 1) : due[i].sequence < due[j].sequence}
\* The sequences below the highest seen before them, in the order of delivery.
Overtaken(due) ==
    {i \in DOMAIN due : due[i].sequence < lastDelivered
                        \/ \E j \in 1..(i - 1) : due[i].sequence < due[j].sequence}

\* poll: the packets that are due, in order.
Collect ==
    LET due == ByTime({p \in inFlight : p.deliver <= simNow})
        seen == {due[i].sequence : i \in DOMAIN due}
    IN  /\ inFlight' = {p \in inFlight : p.deliver > simNow}
        /\ stats' = [stats EXCEPT !.reordered = @ + Cardinality(Overtaken(due))]
        /\ lastDelivered' = Max(seen \cup {lastDelivered})
        /\ collected' = collected \o due
        /\ UNCHANGED <<simNow, queueBytes, drainsAt, inBadState>>

SimTick ==
    /\ simNow < SimTime
    /\ simNow' = simNow + 1
    /\ UNCHANGED <<inFlight, queueBytes, drainsAt, inBadState, lastDelivered, stats, collected>>

SimNext ==
    \/ \E size \in Sizes :
          \/ Overflows(size) \/ LosesPacket(size)
          \/ \E jitter \in Jitters, reorder \in BOOLEAN : Queued(size, jitter, reorder)
    \/ Collect \/ SimTick

SimSpec == SimInit /\ [][SimNext]_simVars
-----------------------------------------------------------------------------
\* Every packet offered is accounted for once: it was dropped for one of the two
\* causes, or it is in flight, or it was collected, whenever the caller polls.
PacketsConserved ==
    /\ stats.sent = stats.lost + stats.overflowed + stats.delivered
    /\ stats.delivered = Cardinality(inFlight) + Len(collected)

\* Packets come out in the order of their delivery times over all polls, also
\* when a packet sent between two polls was pulled ahead of those in flight
\* (link.rs:258, "Returned in delivery-time order").
DeliveredByTime ==
    \A i, j \in DOMAIN collected : i < j => collected[i].deliver <= collected[j].deliver

\* The count of reordered packets is what a receiver sees: the packets that came
\* after one sent later, across polls too.
ReorderingSeen ==
    stats.reordered = Cardinality({i \in DOMAIN collected :
        \E j \in 1..(i - 1) : collected[j].sequence > collected[i].sequence})

\* The link invents, loses and reorders no packet without saying so.
LinkIsHonest == PacketsConserved /\ DeliveredByTime /\ ReorderingSeen
=============================================================================
