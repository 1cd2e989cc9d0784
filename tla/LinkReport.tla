----------------------------- MODULE LinkReport -----------------------------
(***************************************************************************)
(* The loss a viewer reports (SequenceTracker in rda-telemetry, the stats  *)
(* part of the session loop in rda-client) of what the host sends: its     *)
(* pings and its video fragments draw on one counter (rda-host/serve.rs),  *)
(* and only the fragments travel on the channel whose gaps are counted.    *)
(*                                                                         *)
(* A fragment is known here by the place of its number in all that was     *)
(* sent; on the wire it is that place modulo SequenceSpace (2^16).         *)
(***************************************************************************)
EXTENDS Integers, FiniteSets

CONSTANTS
    SequenceSpace,
    MAX_REORDER,
    MaxNumbers,          \* bound: numbers the host draws
    MaxPings,            \* bound: how many of them go to pings
    MaxReports           \* bound: reports the viewer sends

ASSUME LinkReportAssumption ==
    /\ SequenceSpace \in Nat \ {0} /\ MAX_REORDER \in Nat /\ 2 * MAX_REORDER < SequenceSpace
    /\ MaxNumbers \in Nat /\ MaxPings \in Nat /\ MaxReports \in Nat

NoSequence == -1

VARIABLES
    drawn,               \* how many numbers the host has used (seq)
    pings,               \* how many of them went to pings
    onWire,              \* the fragments on their way
    arrived,             \* the fragments the viewer saw, and the first of them
    firstSeen,
    highest, inPeriod, lostInPeriod,     \* the SequenceTracker
    reportedLost,        \* the losses of all the reports together
    reports,
    leapt                \* history: a fragment came from beyond the tracker's reach

linkVars == <<drawn, pings, onWire, arrived, firstSeen, highest, inPeriod, lostInPeriod,
              reportedLost, reports, leapt>>

LinkInit ==
    /\ drawn = 0 /\ pings = 0
    /\ onWire = {} /\ arrived = {} /\ firstSeen = NoSequence
    /\ highest = NoSequence /\ inPeriod = 0 /\ lostInPeriod = 0
    /\ reportedLost = 0 /\ reports = 0 /\ leapt = FALSE

Number(place) == place % SequenceSpace

\* The next fragment of a frame.
SendFragment ==
    /\ drawn < MaxNumbers
    /\ onWire' = onWire \cup {drawn}
    /\ drawn' = drawn + 1
    /\ UNCHANGED <<pings, arrived, firstSeen, highest, inPeriod, lostInPeriod, reportedLost, reports, leapt>>

\* The round-trip probe, on the control channel.
SendPing ==
    /\ drawn < MaxNumbers /\ pings < MaxPings
    /\ pings' = pings + 1
    /\ drawn' = drawn + 1
    /\ UNCHANGED <<onWire, arrived, firstSeen, highest, inPeriod, lostInPeriod, reportedLost, reports, leapt>>

\* Mutant: a fragment that was overtaken takes back two losses.
FillsTwo(lost) == IF lost >= 2 THEN lost - 2 ELSE 0

\* A hole already counted is filled.
Fills(lost) == IF lost >= 1 THEN lost - 1 ELSE 0

\* SequenceTracker::observe
Observe(number) ==
    LET advance == (number - highest) % SequenceSpace
        behind  == (highest - number) % SequenceSpace
        moved   == highest = NoSequence \/ advance \in 1..MAX_REORDER
                     \/ (advance # 0 /\ behind > MAX_REORDER)
    IN  /\ inPeriod' = inPeriod + 1
        /\ highest' = IF moved THEN number ELSE highest
        /\ lostInPeriod' =
             IF highest = NoSequence \/ advance = 0 THEN lostInPeriod
             ELSE IF advance <= MAX_REORDER THEN lostInPeriod + advance - 1
             ELSE IF behind <= MAX_REORDER THEN Fills(lostInPeriod)
             ELSE lostInPeriod

Newest == CHOOSE p \in arrived : \A q \in arrived : q <= p

\* Bursts of losses and of reordering that the tracker can tell from a peer that starts
\* its numbering afresh.
WithinReach(place) ==
    arrived # {} => place - Newest \in (-MAX_REORDER)..MAX_REORDER

Deliver ==
    /\ \E place \in onWire :
         /\ leapt' = (leapt \/ ~WithinReach(place))
         /\ onWire' = onWire \ {place}
         /\ arrived' = arrived \cup {place}
         /\ firstSeen' = IF arrived = {} THEN place ELSE firstSeen
         /\ Observe(Number(place))
    /\ UNCHANGED <<drawn, pings, reportedLost, reports>>

\* SequenceTracker::take, once a second.
Report ==
    /\ reports < MaxReports
    /\ reports' = reports + 1
    /\ reportedLost' = reportedLost + lostInPeriod
    /\ inPeriod' = 0 /\ lostInPeriod' = 0
    /\ UNCHANGED <<drawn, pings, onWire, arrived, firstSeen, highest, leapt>>

LinkNext == SendFragment \/ SendPing \/ Deliver \/ Report

LinkSpec == LinkInit /\ [][LinkNext]_linkVars

-----------------------------------------------------------------------------

\* The ranges of the counters; none of them goes below zero.
LinkTypeOK ==
    /\ drawn \in 0..MaxNumbers /\ pings \in 0..MaxPings
    /\ onWire \cup arrived \subseteq 0..(MaxNumbers - 1)
    /\ highest \in {NoSequence} \cup 0..(SequenceSpace - 1)
    /\ inPeriod \in 0..MaxNumbers /\ lostInPeriod \in Nat

Before == {p \in arrived : p < firstSeen}

\* No loss is hidden from the host: over all its reports, and across the wrap of the
\* counter, reordering and the start of a new period, the viewer has counted every
\* number that is missing between the first fragment it saw and the newest. There are two
\* exceptions. What the first one overtook takes back, when it comes, a loss that was
\* never counted. And after a leap of more than MAX_REORDER nothing is claimed: observe
\* takes a longer burst of losses for a peer that restarted its numbering, and counts none.
NoLossHidden ==
    arrived # {} /\ ~leapt =>
        reportedLost + lostInPeriod + Cardinality(Before)
            >= Cardinality((firstSeen..Newest) \ arrived)

\* The viewer counts every loss.
LossIsCounted == LinkTypeOK /\ NoLossHidden

\* A link on which every fragment arrived within the period is not reported to lose
\* any: the numbers are counted per channel and per direction (PROTOCOL.md, 6.4).
LosslessLinkReportsNoLoss ==
    (reports = 0 /\ onWire = {} /\ Before = {}) => lostInPeriod = 0
=============================================================================
