---------------------------- MODULE RateControl ----------------------------
(***************************************************************************)
(* The host's rate control: the viewer's reports feed a loss window and a  *)
(* bitrate estimate (rda-telemetry), the estimate and the loss choose a    *)
(* rung of the ladder with hysteresis, and the rung and the budget left    *)
(* after error correction become the encoder's directive (rda-encode).     *)
(*                                                                         *)
(* Bitrates are in kbit/s, losses in permille.                             *)
(***************************************************************************)
EXTENDS Integers, Sequences, SequencesExt

CONSTANTS
    LOSS_WINDOW, BITRATE_UPDATE_INTERVAL,
    MIN_ESTIMATE, MAX_ESTIMATE,          \* rda_telemetry::MIN_BITRATE_BPS, MAX_BITRATE_BPS
    MIN_VIDEO, MAX_VIDEO,                \* rda_encode::rate::MIN_BITRATE_BPS, MAX_BITRATE_BPS
    DemoteAfter, PromoteAfter,
    IDR_BUDGET,
    SCALE_CHANGE_THRESHOLD,
    InitialEstimate,
    Losses, Delays,                      \* what reports may say
    RateTime                             \* bound: the last time of the clock

ASSUME RateAssumption ==
    /\ LOSS_WINDOW \in Nat /\ BITRATE_UPDATE_INTERVAL \in Nat /\ IDR_BUDGET \in Nat
    /\ MIN_ESTIMATE \in Nat /\ MAX_ESTIMATE \in Nat /\ MIN_ESTIMATE <= MAX_ESTIMATE
    /\ MIN_VIDEO \in 0..4000 /\ MAX_VIDEO \in Nat /\ MIN_VIDEO <= MAX_VIDEO
    /\ DemoteAfter \in Nat /\ PromoteAfter \in Nat /\ SCALE_CHANGE_THRESHOLD \in Nat
    /\ InitialEstimate \in Nat /\ RateTime \in Nat
    /\ Losses \subseteq 0..1000 /\ Delays \subseteq Nat

Unset == -1

VARIABLES
    rateNow,
    turn,                \* where the host's loop is: "drain", "apply" or "done"
    lossWindow,          \* LossEstimator: the reports of the window, [at, lost]
    estimate, lastUpdate, delayPressure, lastPlayout,     \* BitrateEstimator
    rung, pendingRung, pendingSince,                      \* LadderController
    heldRung, heldSince,     \* history: the rung recommended, and since when without a break
    budgetUntil,         \* idr_budget_until_ms
    directive,
    encoderScale         \* the scale the running encoder was built for

rateVars == <<rateNow, turn, lossWindow, estimate, lastUpdate, delayPressure, lastPlayout, rung,
              pendingRung, pendingSince, heldRung, heldSince, budgetUntil, directive, encoderScale>>

Within(x, lo, hi) == IF x < lo THEN lo ELSE IF x > hi THEN hi ELSE x

\* LADDER
Fps   == <<60, 60, 30, 30, 20, 12, 5, 1>>
Scale == <<100, 100, 100, 75, 60, 50, 40, 40>>

\* select_rung
SelectRung(bwe, loss) ==
    IF loss > 250 THEN 7
    ELSE IF loss > 150 THEN 6
    ELSE LET reached == SelectInSeq(<<8000, 4000, 2500, 1500, 800, 400, 0>>,
                                    LAMBDA floor : bwe >= floor)
         IN  reached - 1

\* fec_schedule(..).approximate_overhead(), in percent of the video
FecOverhead(loss) ==
    IF loss < 5 THEN 0
    ELSE IF loss < 20 THEN 9
    ELSE IF loss < 50 THEN 22
    ELSE IF loss < 100 THEN 38
    ELSE 36

\* LossEstimator::permille: every report stands for 1000 fragments.
Permille(window) ==
    LET lost[i \in 0..Len(window)] == IF i = 0 THEN 0 ELSE lost[i - 1] + window[i].lost
    IN  IF window = <<>> THEN 0 ELSE lost[Len(window)] \div Len(window)

\* What has left the window is popped from the front.
InWindow(all, now) == SubSeq(all, SelectInSeq(all, LAMBDA s : now - s.at <= LOSS_WINDOW), Len(all))

\* LossEstimator::sample
LossSampled(window, lost, now) == InWindow(Append(window, [at |-> now, lost |-> lost]), now)

\* directive_for
DirectiveFor(r, bitrate) ==
    [bitrate |-> bitrate, fps |-> Fps[r + 1], scale |-> Scale[r + 1], rung |-> r]

RateInit ==
    /\ rateNow = 0 /\ turn = "drain"
    /\ lossWindow = <<>>
    /\ estimate = Within(InitialEstimate, MIN_ESTIMATE, MAX_ESTIMATE)
    /\ lastUpdate = Unset /\ delayPressure = FALSE /\ lastPlayout = Unset
    /\ rung = 0 /\ pendingRung = Unset /\ pendingSince = 0
    /\ heldRung = Unset /\ heldSince = 0
    /\ budgetUntil = 0
    /\ directive = DirectiveFor(0, 4000)
    /\ encoderScale = 100

-----------------------------------------------------------------------------

\* BitrateEstimator::update, for a loss and a delay that is or is not growing.
Estimated(loss, pressure) ==
    LET due  == lastUpdate = Unset \/ rateNow - lastUpdate >= BITRATE_UPDATE_INTERVAL
        next == IF loss > 100 THEN (estimate * (2000 - loss)) \div 2000
                ELSE IF loss < 20 /\ ~pressure THEN (estimate * 105) \div 100
                ELSE estimate
    IN  IF due THEN Within(next, MIN_ESTIMATE, MAX_ESTIMATE) ELSE estimate

\* apply_qos: a report of the viewer, of which there is at most one in a turn.
ApplyQos ==
    /\ turn = "drain" /\ turn' = "apply"
    /\ \E lost \in Losses, delay \in Delays :
         LET window   == LossSampled(lossWindow, lost, rateNow)
             pressure == IF lastPlayout = Unset THEN delayPressure
                         ELSE delay > lastPlayout + 20 /\ delay * 5 > lastPlayout * 6
         IN  /\ lossWindow' = window
             /\ delayPressure' = pressure
             /\ lastPlayout' = delay
             /\ estimate' = Estimated(Permille(window), pressure)
             /\ lastUpdate' = IF lastUpdate = Unset \/ rateNow - lastUpdate >= BITRATE_UPDATE_INTERVAL
                                THEN rateNow ELSE lastUpdate
    /\ UNCHANGED <<rateNow, rung, pendingRung, pendingSince, heldRung, heldSince, budgetUntil,
                   directive, encoderScale>>

\* An honoured keyframe request holds the bitrate down for a while.
HonourIdr ==
    /\ turn = "drain" /\ turn' = "apply"
    /\ budgetUntil <= rateNow
    /\ budgetUntil' = rateNow + IDR_BUDGET
    /\ UNCHANGED <<rateNow, lossWindow, estimate, lastUpdate, delayPressure, lastPlayout, rung,
                   pendingRung, pendingSince, heldRung, heldSince, directive, encoderScale>>

\* Mutant: a recommendation of the rung in force leaves the pending change alone.
KeepPending(target) == <<pendingRung, pendingSince>>

\* What pending becomes when nothing has to change.
DropPending(target) == <<Unset, 0>>

\* LadderController::update: the rung and the pending change <<target, since>> after it.
Ladder(target) ==
    LET required == IF target > rung THEN DemoteAfter ELSE PromoteAfter
        waited   == pendingRung = target /\ rateNow - pendingSince >= required
    IN  IF target = rung THEN [rung |-> rung, pending |-> DropPending(target)]
        ELSE IF waited THEN [rung |-> target, pending |-> <<Unset, 0>>]
        ELSE IF pendingRung = target THEN [rung |-> rung, pending |-> <<pendingRung, pendingSince>>]
        ELSE [rung |-> rung, pending |-> <<target, rateNow>>]

\* The video's share of the estimate, with the error correction taken out of it.
VideoBudget(loss) == (((estimate * 85) \div 100) * 100) \div (100 + FecOverhead(loss))

\* Pipeline::apply_telemetry with RateController::update, once in every turn. A rebuild
\* for another scale may fail; the directive is in force all the same.
ApplyDirective ==
    LET loss    == Permille(lossWindow)
        target  == SelectRung(estimate, loss)
        ladder  == Ladder(target)
        budget  == IF rateNow < budgetUntil THEN VideoBudget(loss) \div 2 ELSE VideoBudget(loss)
        next    == DirectiveFor(ladder.rung, Within(budget, MIN_VIDEO, MAX_VIDEO))
        diff    == next.scale - directive.scale
        rebuild == diff >= SCALE_CHANGE_THRESHOLD \/ -diff >= SCALE_CHANGE_THRESHOLD
    IN  /\ turn # "done" /\ turn' = "done"
        /\ rung' = ladder.rung
        /\ pendingRung' = ladder.pending[1] /\ pendingSince' = ladder.pending[2]
        /\ heldRung' = target
        /\ heldSince' = IF heldRung = target THEN heldSince ELSE rateNow
        /\ directive' = next
        /\ \/ rebuild /\ encoderScale' = next.scale
           \/ UNCHANGED encoderScale
        /\ UNCHANGED <<rateNow, lossWindow, estimate, lastUpdate, delayPressure, lastPlayout,
                       budgetUntil>>

NextTurn ==
    /\ turn = "done" /\ turn' = "drain"
    /\ rateNow < RateTime
    /\ rateNow' = rateNow + 1
    /\ UNCHANGED <<lossWindow, estimate, lastUpdate, delayPressure, lastPlayout, rung,
                   pendingRung, pendingSince, heldRung, heldSince, budgetUntil, directive, encoderScale>>

RateNext == ApplyQos \/ HonourIdr \/ ApplyDirective \/ NextTurn

RateSpec == RateInit /\ [][RateNext]_rateVars

-----------------------------------------------------------------------------

\* The ranges of the estimate, the ladder and the directive.
RateTypeOK ==
    /\ rateNow \in 0..RateTime /\ turn \in {"drain", "apply", "done"}
    /\ estimate \in MIN_ESTIMATE..MAX_ESTIMATE
    /\ rung \in 0..7 /\ pendingRung \in {Unset} \cup 0..7
    /\ delayPressure \in BOOLEAN
    /\ directive.bitrate \in MIN_VIDEO..Within(4000, MAX_VIDEO, 4000)
    /\ encoderScale \in ToSet(Scale)

\* The picture changes rungs only after the same rung was recommended without a break
\* for two seconds on the way down and ten on the way up, whatever happened to the
\* estimate in between: the hysteresis that keeps the ladder from swinging.
RungIsEarned ==
    [][rung' # rung =>
         /\ heldRung' = rung'
         /\ rateNow - heldSince' >= IF rung' > rung THEN DemoteAfter ELSE PromoteAfter]_rateVars

\* Error correction comes out of the video's share of the estimate and not on top of
\* it, except at the floor below which no video is sent.
FecComesOutOfTheBudget ==
    [][directive' # directive =>
         \/ directive'.bitrate = MIN_VIDEO
         \/ directive'.bitrate * (100 + FecOverhead(Permille(lossWindow))) <= estimate * 85]_rateVars

\* Neither the picture's size nor its bitrate moves without a reason.
RateIsSteady == []RateTypeOK /\ RungIsEarned /\ FecComesOutOfTheBudget
=============================================================================
