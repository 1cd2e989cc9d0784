----------------------------- MODULE MediaProofs -----------------------------
(***************************************************************************)
(* Proofs about the media path, for every value of the constants:          *)
(*                                                                         *)
(*   - the slot between the capture thread and the streaming task loses    *)
(*     neither a wake-up nor a frame (CaptureThread);                      *)
(*   - the rate control keeps its ranges, earns its rungs and pays for the *)
(*     error correction out of the video's share (RateControl);            *)
(*   - what is reported of the link is what was lost (LinkReport);         *)
(*   - a decoder that believes its references are good has those of the    *)
(*     encoder that is running (Recovery);                                 *)
(*   - the link the media tests run over counts what it carries, keeps the *)
(*     order of its deliveries and sees each reordering (NetSim);          *)
(*   - frames play whole, in order and once, near their time and within    *)
(*     the limits of the two stores (Playout);                             *)
(*   - the canvas of the application, which takes what the client played,  *)
(*     shows no picture after a later one and uploads one at a time        *)
(*     (AppCanvas).                                                        *)
(***************************************************************************)
EXTENDS CaptureThread, LinkReport, NetSim, RateControl, Recovery, Playout, AppCanvas,
        SequenceFacts

-----------------------------------------------------------------------------
(* The capture thread                                                      *)

\* A task that has found the slot empty and is about to wait is covered if a frame
\* has come since: by the permit, or by the notification that is still to come.
ArmedIsCovered ==
    recvPc = "armed" /\ slot # NoFrame => permit \/ capPc = "notify"

\* The thread ends with the failure that reaches the limit.
FailuresBelowLimit == capPc # "done" => failures < MAX_CONSECUTIVE_FAILURES

\* The inductive invariant.
CaptureInv == HandOver /\ ArmedIsCovered /\ FailuresBelowLimit

\* It holds at the start.
LEMMA InitCaptureInv == CaptureInit => CaptureInv
<1> SUFFICES ASSUME CaptureInit PROVE CaptureInv
  OBVIOUS
<1> USE CaptureAssumption DEF CaptureInit
<1>1. CaptureTypeOK
  <2>1. failures \in 0..MAX_CONSECUTIVE_FAILURES /\ restarts \in 0..MaxRestarts
    OBVIOUS
  <2>2. produced \in Nat /\ consumed \in Nat /\ dropped \in Nat
    OBVIOUS
  <2> QED BY <2>1, <2>2, Zenon DEF CaptureTypeOK
<1>2. NoLostWakeup /\ FramesConserved
  BY DEF NoLostWakeup, FramesConserved
<1>3. ArmedIsCovered /\ FailuresBelowLimit
  BY DEF ArmedIsCovered, FailuresBelowLimit
<1> QED BY <1>1, <1>2, <1>3 DEF CaptureInv, HandOver

\* Every step keeps it.
LEMMA NextCaptureInv == CaptureInv /\ [CaptureNext]_capVars => CaptureInv'
<1> SUFFICES ASSUME CaptureInv, [CaptureNext]_capVars PROVE CaptureInv'
  OBVIOUS
<1> USE CaptureAssumption DEF CaptureInv, HandOver, FailuresBelowLimit
<1>1. CASE Captured
  BY <1>1 DEF Captured, InLoop, CaptureTypeOK, NoLostWakeup, FramesConserved, ArmedIsCovered
<1>2. CASE Unchanged
  BY <1>2 DEF Unchanged, InLoop, CaptureTypeOK, NoLostWakeup, FramesConserved, ArmedIsCovered
<1>3. CASE Replace
  BY <1>3 DEF Replace, CaptureTypeOK, NoLostWakeup, FramesConserved, ArmedIsCovered
<1>4. CASE NotifyOne
  BY <1>4 DEF NotifyOne, CaptureTypeOK, NoLostWakeup, FramesConserved, ArmedIsCovered
<1>5. CASE SessionLost
  BY <1>5 DEF SessionLost, InLoop, CaptureTypeOK, NoLostWakeup, FramesConserved, ArmedIsCovered
<1>6. CASE RestartSucceeds
  BY <1>6 DEF RestartSucceeds, CaptureTypeOK, NoLostWakeup, FramesConserved, ArmedIsCovered
<1>7. CASE RestartFails
  BY <1>7 DEF RestartFails, CaptureTypeOK, NoLostWakeup, FramesConserved, ArmedIsCovered
<1>8. CASE Unrecoverable \/ Stopped
  BY <1>8 DEF Unrecoverable, Stopped, InLoop, CaptureTypeOK, NoLostWakeup, FramesConserved,
              ArmedIsCovered
<1>9. CASE StreamStep
  <2>1. CASE CallRecv
    BY <2>1 DEF CallRecv, CaptureTypeOK, NoLostWakeup, FramesConserved, ArmedIsCovered
  <2>2. CASE TryRecv
    BY <2>2 DEF TryRecv, CaptureTypeOK, NoLostWakeup, FramesConserved, ArmedIsCovered
  <2>3. CASE Await
    <3>1. CaptureTypeOK' /\ FramesConserved'
      BY <2>3 DEF Await, CaptureTypeOK, FramesConserved
    <3>2. NoLostWakeup' /\ ArmedIsCovered'
      BY <2>3 DEF Await, CaptureTypeOK, NoLostWakeup, ArmedIsCovered
    <3> QED BY <2>3, <3>1, <3>2 DEF Await
  <2> QED BY <1>9, <2>1, <2>2, <2>3 DEF StreamStep
<1>10. CASE RecvTimeout \/ StopCapture \/ SwitchResolution
  BY <1>10 DEF RecvTimeout, StopCapture, SwitchResolution, CaptureTypeOK, NoLostWakeup,
               FramesConserved, ArmedIsCovered
<1>11. CASE UNCHANGED capVars
  BY <1>11 DEF capVars, CaptureTypeOK, NoLostWakeup, FramesConserved, ArmedIsCovered
<1> QED
  BY <1>1, <1>2, <1>3, <1>4, <1>5, <1>6, <1>7, <1>8, <1>9, <1>10, <1>11
  DEF CaptureNext, CaptureStep

\* A streaming task never sleeps over a frame that lies in the slot, and every frame
\* captured is handed on, overwritten, in the slot or being published, wherever the two
\* threads interrupt each other (FrameSink::publish against FrameSource::recv).
THEOREM SlotHandsOver == CaptureSpec => []HandOver
<1>1. CaptureInv => HandOver
  BY DEF CaptureInv
<1> QED BY InitCaptureInv, NextCaptureInv, <1>1, PTL DEF CaptureSpec

-----------------------------------------------------------------------------
(* Rate control                                                            *)

Reports == [at : 0..RateTime, lost : Losses]

\* The loss of a window is a number.
LEMMA PermilleType ==
    ASSUME NEW window \in Seq(Reports)
    PROVE  Permille(window) \in Int
<1> DEFINE n == Len(window)
           lost == CHOOSE f : f = [i \in 0..n |-> IF i = 0 THEN 0 ELSE f[i - 1] + window[i].lost]
           Sums(k) == \E g \in [0..k -> Int] :
                         \A i \in 0..k : g[i] = IF i = 0 THEN 0 ELSE g[i - 1] + window[i].lost
           K == {k \in Nat : k <= n => Sums(k)}
<1>1. n \in Nat /\ \A i \in 1..n : window[i].lost \in Int
  <2>1. n \in Nat /\ \A i \in 1..n : window[i] \in Reports
    BY LenProperties, ElementOfSeq
  <2>2. ASSUME NEW r \in Reports PROVE r.lost \in Int
    <3>1. r.lost \in Losses
      BY DEF Reports
    <3>2. \A x \in Losses : x \in Int
      BY RateAssumption
    <3> QED BY <3>1, <3>2, Zenon
  <2> QED BY <2>1, <2>2
<1> HIDE DEF n
<1>2. 0 \in K
  <2> DEFINE g == [i \in 0..0 |-> 0]
  <2>1. g \in [0..0 -> Int] /\ \A i \in 0..0 : g[i] = IF i = 0 THEN 0 ELSE g[i - 1] + window[i].lost
    OBVIOUS
  <2>2. Sums(0)
    BY <2>1
  <2> QED BY <2>2
<1>3. ASSUME NEW k \in K \cap Nat PROVE k + 1 \in K
  <2>a. k + 1 \in Nat /\ (k <= n => Sums(k))
    <3> HIDE DEF Sums
    <3> QED OBVIOUS
  <2> SUFFICES ASSUME k + 1 <= n PROVE Sums(k + 1)
    <3> HIDE DEF Sums
    <3> QED BY <2>a
  <2>1. k \in Nat /\ k <= n /\ Sums(k)
    <3> HIDE DEF Sums
    <3> QED BY <1>1, <2>a
  <2>2. PICK g \in [0..k -> Int] : \A i \in 0..k : g[i] = IF i = 0 THEN 0 ELSE g[i - 1] + window[i].lost
    BY <2>1
  <2> DEFINE h == [i \in 0..(k + 1) |-> IF i <= k THEN g[i] ELSE g[k] + window[k + 1].lost]
  <2>3. g[k] \in Int /\ window[k + 1].lost \in Int
    BY <1>1, <2>1, <2>2
  <2>4. h \in [0..(k + 1) -> Int]
    BY <2>1, <2>2, <2>3
  <2>5. ASSUME NEW i \in 0..(k + 1) PROVE h[i] = IF i = 0 THEN 0 ELSE h[i - 1] + window[i].lost
    <3>1. CASE i <= k
      <4>1. i \in 0..k /\ h[i] = g[i] /\ (i # 0 => i - 1 \in 0..(k + 1) /\ i - 1 <= k /\ h[i - 1] = g[i - 1])
        BY <2>1, <3>1
      <4> QED BY <2>2, <4>1
    <3>2. CASE i = k + 1
      BY <2>1, <3>2
    <3> QED BY <2>1, <3>1, <3>2
  <2> QED BY <2>4, <2>5
<1>4. n \in K
  BY <1>1, <1>2, <1>3, InductionOverNat
<1>5. \E f : f = [i \in 0..n |-> IF i = 0 THEN 0 ELSE f[i - 1] + window[i].lost]
  <2>1. PICK g \in [0..n -> Int] : \A i \in 0..n : g[i] = IF i = 0 THEN 0 ELSE g[i - 1] + window[i].lost
    BY <1>1, <1>4
  <2>2. g = [i \in 0..n |-> IF i = 0 THEN 0 ELSE g[i - 1] + window[i].lost]
    BY <2>1
  <2> QED BY <2>2
<1>6. lost = [i \in 0..n |-> IF i = 0 THEN 0 ELSE lost[i - 1] + window[i].lost]
  BY <1>5
<1> HIDE DEF lost, K, Sums
<1> DEFINE J == {i \in Nat : i <= n => lost[i] \in Int}
<1>7. \A i \in 0..n : lost[i] = IF i = 0 THEN 0 ELSE lost[i - 1] + window[i].lost
  BY <1>6
<1>8. 0 \in J
  BY <1>1, <1>7
<1>9. ASSUME NEW k \in J \cap Nat PROVE k + 1 \in J
  <2> SUFFICES ASSUME k + 1 <= n PROVE lost[k + 1] \in Int
    OBVIOUS
  <2>1. k \in Nat /\ k <= n /\ k + 1 \in 0..n /\ k + 1 \in 1..n /\ (k + 1) - 1 = k /\ lost[k] \in Int
    BY <1>1
  <2>2. lost[k + 1] = lost[k] + window[k + 1].lost
    BY <1>7, <2>1
  <2> QED BY <1>1, <2>1, <2>2
<1>10. lost[n] \in Int
  <2>1. n \in J
    BY <1>1, <1>8, <1>9, InductionOverNat
  <2> QED BY <1>1, <2>1
<1>11. Permille(window) = IF window = <<>> THEN 0 ELSE lost[n] \div n
  BY DEF Permille, n, lost
<1>12. window # <<>> => n \in Nat \ {0}
  BY <1>1, EmptySeq DEF n
<1> QED BY <1>10, <1>11, <1>12
\* What is left of the window are reports, when the last one is of now.
LEMMA InWindowType ==
    ASSUME NEW all \in Seq(Reports), NEW now \in 0..RateTime, all # <<>>, all[Len(all)].at = now
    PROVE  InWindow(all, now) \in Seq(Reports)
<1> DEFINE recent == {i \in 1..Len(all) : now - all[i].at <= LOSS_WINDOW}
<1>1. Len(all) \in Nat /\ Len(all) \in 1..Len(all)
  BY LenProperties, EmptySeq
<1>2. Len(all) \in recent
  BY <1>1, RateAssumption
<1>3. recent \in SUBSET (1..Len(all)) /\ recent # {}
  BY <1>2
<1>4. InWindow(all, now) = SubSeq(all, IF recent # {} THEN Min(recent) ELSE 0, Len(all))
  BY Zenon DEF InWindow, SelectInSeq
<1> HIDE DEF recent
<1>5. InWindow(all, now) = SubSeq(all, Min(recent), Len(all))
  BY <1>3, <1>4
<1>6. Min(recent) \in 1..Len(all)
  BY <1>1, <1>3, FirstAmong
<1>7. \A i \in Min(recent)..Len(all) : all[i] \in Reports
  <2>1. \A i \in 1..Len(all) : all[i] \in Reports
    BY ElementOfSeq
  <2>2. \A m \in 1..Len(all) : \A i \in m..Len(all) : i \in 1..Len(all)
    BY <1>1
  <2> QED BY <1>6, <2>1, <2>2
<1>8. Min(recent) \in 1..(Len(all) + 1) /\ Len(all) \in (Min(recent) - 1)..Len(all)
  BY <1>1, <1>6
<1>9. SubSeq(all, Min(recent), Len(all)) \in Seq(Reports)
  BY <1>1, <1>6, <1>7, <1>8, SubSeqProperties
<1> QED BY <1>5, <1>9

\* So they are after a report.
LEMMA LossSampledType ==
    ASSUME NEW window \in Seq(Reports), NEW l \in Losses, NEW now \in 0..RateTime
    PROVE  LossSampled(window, l, now) \in Seq(Reports)
<1> DEFINE e == [at |-> now, lost |-> l]
           all == Append(window, e)
<1>1. e \in Reports /\ e.at = now
  BY DEF Reports
<1> HIDE DEF e
<1>2. all \in Seq(Reports) /\ Len(all) = Len(window) + 1 /\ all[Len(window) + 1] = e /\ all # <<>>
  BY <1>1, AppendProperties
<1>3. all[Len(all)].at = now
  BY <1>1, <1>2
<1> HIDE DEF all
<1>4. InWindow(all, now) \in Seq(Reports)
  BY <1>2, <1>3, InWindowType
<1> QED BY <1>4 DEF LossSampled, all, e

\* The ladder has a rung for every estimate.
LEMMA SelectRungType ==
    ASSUME NEW bwe \in Nat, NEW loss \in Int
    PROVE  SelectRung(bwe, loss) \in 0..7
<1> DEFINE floors == <<8000, 4000, 2500, 1500, 800, 400, 0>>
           under == {i \in 1..Len(floors) : bwe >= floors[i]}
<1>1. Len(floors) = 7 /\ floors[7] = 0
  OBVIOUS
<1>2. 7 \in under /\ under \in SUBSET (1..7) /\ under \in SUBSET Int
  BY <1>1
<1>4. Min(under) \in 1..7
  <2> HIDE DEF under
  <2> QED BY <1>2, FirstAmong
<1>5. SelectInSeq(floors, LAMBDA floor : bwe >= floor) = Min(under)
  BY <1>2 DEF SelectInSeq
<1> HIDE DEF under
<1>6. Min(under) - 1 \in 0..7
  BY <1>4
<1>7. SelectInSeq(floors, LAMBDA floor : bwe >= floor) - 1 \in 0..7
  BY <1>5, <1>6
<1> QED BY <1>7 DEF SelectRung

\* A clamped number is within its bounds, and not above one that is above the lower one.
LEMMA WithinBounds ==
    ASSUME NEW x \in Int, NEW lo \in Int, NEW hi \in Int, lo <= hi
    PROVE  /\ Within(x, lo, hi) \in lo..hi
           /\ Within(x, lo, hi) = lo \/ Within(x, lo, hi) <= x
  BY DEF Within

\* The video and its error correction fit the share of the estimate.
LEMMA BudgetIsKept ==
    ASSUME NEW loss \in Int, estimate \in Nat
    PROVE  /\ VideoBudget(loss) \in Nat
           /\ VideoBudget(loss) * (100 + FecOverhead(loss)) <= estimate * 85
           /\ (VideoBudget(loss) \div 2) \in Nat
           /\ (VideoBudget(loss) \div 2) * (100 + FecOverhead(loss)) <= estimate * 85
           /\ FecOverhead(loss) \in Nat
<1> DEFINE share == ((estimate * 85) \div 100) * 100
           F == FecOverhead(loss)
           B == share \div (100 + F)
<1>1. share \in Nat /\ share <= estimate * 85
  OBVIOUS
<1>2. F \in {0, 9, 22, 38, 36}
  BY DEF FecOverhead
<1>3. VideoBudget(loss) = B
  BY DEF VideoBudget
<1> HIDE DEF share, F
<1>4. B \in Nat /\ B * (100 + F) <= share /\ B \div 2 \in Nat /\ (B \div 2) * (100 + F) <= share
  <2>1. CASE F = 0 BY <1>1, <2>1
  <2>2. CASE F = 9 BY <1>1, <2>2
  <2>3. CASE F = 22 BY <1>1, <2>3
  <2>4. CASE F = 38 BY <1>1, <2>4
  <2>5. CASE F = 36 BY <1>1, <2>5
  <2> QED BY <1>2, <2>1, <2>2, <2>3, <2>4, <2>5
<1>5. F \in Nat
  BY <1>2
<1> HIDE DEF B
<1>6. /\ B \in Nat /\ B * (100 + F) <= estimate * 85
      /\ B \div 2 \in Nat /\ (B \div 2) * (100 + F) <= estimate * 85
  <2>1. \A x, y, z \in Int : x <= y /\ y <= z => x <= z
    OBVIOUS
  <2>2. B * (100 + F) \in Int /\ (B \div 2) * (100 + F) \in Int /\ estimate * 85 \in Int /\ share \in Int
    BY <1>1, <1>4, <1>5
  <2> QED BY <1>1, <1>4, <2>1, <2>2
<1> QED BY <1>3, <1>5, <1>6 DEF F

\* What the controller keeps, and that the rung that is waited for is the one that was
\* recommended, without a break, since the waiting began or before.
RateInv ==
    /\ RateTypeOK
    /\ lossWindow \in Seq(Reports)
    /\ lastUpdate \in Int /\ lastPlayout \in Int /\ budgetUntil \in Int
    /\ pendingSince \in Nat /\ heldSince \in Nat /\ heldSince <= rateNow
    /\ pendingRung # Unset => heldRung = pendingRung /\ heldSince <= pendingSince

\* RungIsEarned and FecComesOutOfTheBudget, of one step.
EarnedStep ==
    rung' # rung =>
        /\ heldRung' = rung'
        /\ rateNow - heldSince' >= IF rung' > rung THEN DemoteAfter ELSE PromoteAfter
BudgetStep ==
    directive' # directive =>
        \/ directive'.bitrate = MIN_VIDEO
        \/ directive'.bitrate * (100 + FecOverhead(Permille(lossWindow))) <= estimate * 85

\* It holds at the start.
LEMMA RateInitially == RateInit => RateInv
<1> SUFFICES ASSUME RateInit PROVE RateInv
  OBVIOUS
<1> USE RateAssumption
<1>1. estimate \in MIN_ESTIMATE..MAX_ESTIMATE
  BY DEF RateInit, Within
<1>2. directive.bitrate \in MIN_VIDEO..Within(4000, MAX_VIDEO, 4000)
  <2>1. directive.bitrate = 4000
    BY DEF RateInit, DirectiveFor
  <2> QED BY <2>1 DEF Within
<1>3. encoderScale \in ToSet(Scale)
  BY DEF RateInit, ToSet, Scale
<1>4. lossWindow \in Seq(Reports)
  BY DEF RateInit
<1>5. rateNow \in 0..RateTime /\ turn \in {"drain", "apply", "done"} /\ rung \in 0..7
        /\ pendingRung \in {Unset} \cup 0..7
  BY DEF RateInit
<1>6. delayPressure \in BOOLEAN
  <2>1. delayPressure = FALSE
    BY DEF RateInit
  <2> HIDE RateAssumption
  <2> QED BY <2>1
<1>7. RateTypeOK
  BY <1>1, <1>2, <1>3, <1>5, <1>6 DEF RateTypeOK
<1>8. lastUpdate \in Int /\ lastPlayout \in Int /\ budgetUntil \in Int
  BY DEF RateInit, Unset
<1>9. pendingSince \in Nat /\ heldSince \in Nat /\ heldSince <= rateNow /\ pendingRung = Unset
  BY DEF RateInit
<1> QED BY <1>4, <1>7, <1>8, <1>9 DEF RateInv

\* A report changes the estimate, and neither the rung nor the budget.
LEMMA QosStep ==
    ASSUME RateInv, ApplyQos
    PROVE  RateInv' /\ EarnedStep /\ BudgetStep
<1> USE RateAssumption
<1>1. PICK lost \in Losses, delay \in Delays :
        LET window   == LossSampled(lossWindow, lost, rateNow)
            pressure == IF lastPlayout = Unset THEN delayPressure
                        ELSE delay > lastPlayout + 20 /\ delay * 5 > lastPlayout * 6
        IN  /\ lossWindow' = window
            /\ delayPressure' = pressure
            /\ lastPlayout' = delay
            /\ estimate' = Estimated(Permille(window), pressure)
            /\ lastUpdate' = IF lastUpdate = Unset \/ rateNow - lastUpdate >= BITRATE_UPDATE_INTERVAL
                               THEN rateNow ELSE lastUpdate
  BY DEF ApplyQos
<1> DEFINE loss == Permille(LossSampled(lossWindow, lost, rateNow))
           pressure == IF lastPlayout = Unset THEN delayPressure
                       ELSE delay > lastPlayout + 20 /\ delay * 5 > lastPlayout * 6
<1>2. lossWindow' \in Seq(Reports) /\ loss \in Int
  <2>1. lost \in Losses /\ rateNow \in 0..RateTime /\ lossWindow \in Seq(Reports)
    BY DEF RateInv, RateTypeOK
  <2>2. LossSampled(lossWindow, lost, rateNow) \in Seq(Reports)
    <3> HIDE RateAssumption
    <3> QED BY <2>1, LossSampledType
  <2> QED BY <1>1, <2>2, PermilleType
<1>3. pressure \in BOOLEAN
  <2>1. delayPressure \in BOOLEAN
    BY DEF RateInv, RateTypeOK
  <2> HIDE RateAssumption
  <2>2. (delay > lastPlayout + 20 /\ delay * 5 > lastPlayout * 6) \in BOOLEAN
    OBVIOUS
  <2> QED BY <2>1, <2>2
<1>4. estimate' = Estimated(loss, pressure) /\ delayPressure' = pressure /\ lastPlayout' = delay
  BY <1>1
<1>5. lastUpdate' \in Int
  BY <1>1 DEF RateInv, RateTypeOK
<1> HIDE DEF loss, pressure
<1>6. estimate' \in MIN_ESTIMATE..MAX_ESTIMATE
  <2>1. estimate \in MIN_ESTIMATE..MAX_ESTIMATE /\ estimate \in Int /\ MIN_ESTIMATE \in Int
          /\ MAX_ESTIMATE \in Int /\ MIN_ESTIMATE <= MAX_ESTIMATE
    BY DEF RateInv, RateTypeOK
  <2>2. (estimate * (2000 - loss)) \div 2000 \in Int /\ (estimate * 105) \div 100 \in Int
    <3>1. estimate * (2000 - loss) \in Int /\ estimate * 105 \in Int
      BY <1>2, <2>1
    <3> QED BY <3>1
  <2> DEFINE next == IF loss > 100 THEN (estimate * (2000 - loss)) \div 2000
                     ELSE IF loss < 20 /\ ~pressure THEN (estimate * 105) \div 100
                     ELSE estimate
  <2>3. next \in Int
    BY <2>1, <2>2
  <2>4. estimate' = Within(next, MIN_ESTIMATE, MAX_ESTIMATE) \/ estimate' = estimate
    BY <1>4 DEF Estimated
  <2> HIDE DEF next
  <2>5. Within(next, MIN_ESTIMATE, MAX_ESTIMATE) \in MIN_ESTIMATE..MAX_ESTIMATE
    <3> HIDE RateAssumption
    <3> QED BY <2>1, <2>3, WithinBounds
  <2> QED BY <2>1, <2>4, <2>5
<1>7. UNCHANGED <<rateNow, rung, pendingRung, pendingSince, heldRung, heldSince, budgetUntil,
                  directive, encoderScale>> /\ turn' = "apply"
  BY DEF ApplyQos
<1>8. RateTypeOK'
  BY <1>3, <1>4, <1>6, <1>7 DEF RateInv, RateTypeOK
<1>9. RateInv'
  BY <1>2, <1>4, <1>5, <1>7, <1>8 DEF RateInv
<1> QED BY <1>7, <1>9 DEF EarnedStep, BudgetStep

\* Honouring a request for a keyframe changes the budget's end only.
LEMMA IdrStep ==
    ASSUME RateInv, HonourIdr
    PROVE  RateInv' /\ EarnedStep /\ BudgetStep
<1> USE RateAssumption
<1>1. RateTypeOK'
  BY DEF RateInv, RateTypeOK, HonourIdr
<1>2. budgetUntil' \in Int
  BY DEF RateInv, RateTypeOK, HonourIdr
<1> QED BY <1>1, <1>2 DEF RateInv, HonourIdr, EarnedStep, BudgetStep

\* A turn of the loop keeps it.
LEMMA TurnStep ==
    ASSUME RateInv, NextTurn
    PROVE  RateInv' /\ EarnedStep /\ BudgetStep
<1> USE RateAssumption
<1>1. RateTypeOK'
  BY DEF RateInv, RateTypeOK, NextTurn
<1>2. heldSince' <= rateNow'
  BY DEF RateInv, RateTypeOK, NextTurn
<1> QED BY <1>1, <1>2 DEF RateInv, NextTurn, EarnedStep, BudgetStep

\* A directive to the encoder keeps it.
LEMMA DirectiveStep ==
    ASSUME RateInv, ApplyDirective
    PROVE  RateInv' /\ EarnedStep /\ BudgetStep
<1> USE RateAssumption
<1> DEFINE loss == Permille(lossWindow)
           target == SelectRung(estimate, loss)
           ladder == Ladder(target)
           budget == IF rateNow < budgetUntil THEN VideoBudget(loss) \div 2 ELSE VideoBudget(loss)
           bitrate == Within(budget, MIN_VIDEO, MAX_VIDEO)
<1>1. /\ loss \in Int /\ estimate \in Nat
      /\ estimate \in MIN_ESTIMATE..MAX_ESTIMATE
      /\ rateNow \in Nat /\ rung \in 0..7 /\ pendingRung \in {Unset} \cup 0..7
      /\ pendingSince \in Nat /\ heldSince \in Nat /\ heldSince <= rateNow
  BY PermilleType DEF RateInv, RateTypeOK
<1>2. target \in 0..7
  <2> HIDE DEF loss
  <2> QED BY <1>1, SelectRungType
<1>3. /\ turn' = "done" /\ rung' = ladder.rung
      /\ pendingRung' = ladder.pending[1] /\ pendingSince' = ladder.pending[2]
      /\ heldRung' = target
      /\ heldSince' = IF heldRung = target THEN heldSince ELSE rateNow
      /\ directive' = DirectiveFor(ladder.rung, bitrate)
      /\ encoderScale' \in {encoderScale, DirectiveFor(ladder.rung, bitrate).scale}
      /\ UNCHANGED <<rateNow, lossWindow, estimate, lastUpdate, delayPressure, lastPlayout, budgetUntil>>
  BY DEF ApplyDirective
<1> HIDE DEF target
<1>4. /\ ladder.rung \in 0..7
      /\ ladder.pending[1] \in {Unset} \cup 0..7 /\ ladder.pending[2] \in Nat
      /\ ladder.pending[1] # Unset => ladder.pending[1] = target
      /\ ladder.pending[1] # Unset =>
            (pendingRung = target /\ ladder.pending[2] = pendingSince) \/ ladder.pending[2] = rateNow
      /\ ladder.rung # rung =>
            /\ ladder.rung = target /\ pendingRung = target
            /\ rateNow - pendingSince >= IF target > rung THEN DemoteAfter ELSE PromoteAfter
  BY <1>1, <1>2 DEF Ladder, DropPending, Unset
<1> HIDE DEF ladder
<1>5. /\ pendingRung = target => heldRung = target /\ heldSince <= pendingSince
      /\ heldSince' \in Nat /\ heldSince' <= rateNow'
  <2>1. target # Unset
    BY <1>2 DEF Unset
  <2> QED BY <1>1, <1>3, <2>1 DEF RateInv
<1>6. pendingRung' # Unset => heldRung' = pendingRung' /\ heldSince' <= pendingSince'
  BY <1>1, <1>3, <1>4, <1>5
<1>7. EarnedStep
  <2> SUFFICES ASSUME rung' # rung
               PROVE  heldRung' = rung' /\ rateNow - heldSince' >= IF rung' > rung THEN DemoteAfter ELSE PromoteAfter
    BY DEF EarnedStep
  <2>1. rung' = target /\ heldRung' = target /\ heldSince' = heldSince /\ heldSince <= pendingSince
    BY <1>3, <1>4, <1>5
  <2>2. rateNow - pendingSince >= IF rung' > rung THEN DemoteAfter ELSE PromoteAfter
    BY <1>3, <1>4, <2>1
  <2>3. rateNow - heldSince >= rateNow - pendingSince
    BY <1>1, <2>1
  <2>4. CASE rung' > rung
    BY <1>1, <2>1, <2>2, <2>3, <2>4
  <2>5. CASE ~(rung' > rung)
    BY <1>1, <2>1, <2>2, <2>3, <2>5
  <2> QED BY <2>4, <2>5
<1>8. /\ budget \in Nat /\ FecOverhead(loss) \in Nat
      /\ budget * (100 + FecOverhead(loss)) <= estimate * 85
  <2> HIDE DEF loss
  <2>1. CASE rateNow < budgetUntil
    <3>1. budget = VideoBudget(loss) \div 2
      BY <2>1
    <3> HIDE DEF budget
    <3> QED BY <1>1, <3>1, BudgetIsKept
  <2>2. CASE ~(rateNow < budgetUntil)
    <3>1. budget = VideoBudget(loss)
      BY <2>2
    <3> HIDE DEF budget
    <3> QED BY <1>1, <3>1, BudgetIsKept
  <2> QED BY <2>1, <2>2
<1> HIDE DEF budget
<1>9. /\ bitrate \in MIN_VIDEO..MAX_VIDEO /\ (bitrate = MIN_VIDEO \/ bitrate <= budget)
      /\ bitrate \in Nat
  <2>1. MIN_VIDEO \in Int /\ MAX_VIDEO \in Int /\ MIN_VIDEO <= MAX_VIDEO /\ budget \in Int
          /\ MIN_VIDEO \in Nat
    BY <1>8
  <2>2. bitrate \in MIN_VIDEO..MAX_VIDEO /\ (bitrate = MIN_VIDEO \/ bitrate <= budget)
    <3> HIDE RateAssumption
    <3> QED BY <2>1, WithinBounds
  <2> HIDE DEF bitrate
  <2> QED BY <2>1, <2>2
<1> HIDE DEF bitrate
<1>10. directive'.bitrate = bitrate /\ DirectiveFor(ladder.rung, bitrate).scale = Scale[ladder.rung + 1]
  BY <1>3 DEF DirectiveFor
<1>11. BudgetStep
  <2> SUFFICES ASSUME bitrate <= budget PROVE bitrate * (100 + FecOverhead(loss)) <= estimate * 85
    BY <1>9, <1>10 DEF BudgetStep
  <2> HIDE DEF loss
  <2>1. \A x, y, z \in Nat : x <= y => x * z <= y * z
    OBVIOUS
  <2>2. bitrate \in Nat /\ 100 + FecOverhead(loss) \in Nat
    <3>1. \A f \in Nat : 100 + f \in Nat
      OBVIOUS
    <3> QED BY <1>8, <1>9, <3>1
  <2>3. bitrate * (100 + FecOverhead(loss)) <= budget * (100 + FecOverhead(loss))
    BY <1>8, <2>1, <2>2
  <2>4. \A x, y, z \in Int : x <= y /\ y <= z => x <= z
    OBVIOUS
  <2>5. /\ bitrate * (100 + FecOverhead(loss)) \in Int /\ budget * (100 + FecOverhead(loss)) \in Int
        /\ estimate * 85 \in Int
    BY <1>1, <1>8, <2>2
  <2> QED BY <1>8, <2>3, <2>4, <2>5
<1>12. encoderScale' \in ToSet(Scale)
  <2>1. \A r \in 0..7 : Scale[r + 1] \in ToSet(Scale)
    BY DEF Scale, ToSet
  <2>2. Scale[ladder.rung + 1] \in ToSet(Scale) /\ encoderScale \in ToSet(Scale)
    <3>1. encoderScale \in ToSet(Scale)
      BY DEF RateInv, RateTypeOK
    <3> HIDE RateAssumption
    <3> QED BY <1>4, <2>1, <3>1
  <2>3. encoderScale' \in {encoderScale, Scale[ladder.rung + 1]}
    BY <1>3, <1>10
  <2> QED BY <2>2, <2>3
<1>13. directive'.bitrate \in MIN_VIDEO..Within(4000, MAX_VIDEO, 4000)
  BY <1>9, <1>10 DEF Within
<1>14. RateTypeOK'
  BY <1>3, <1>4, <1>12, <1>13 DEF RateInv, RateTypeOK
<1>15. RateInv'
  BY <1>3, <1>4, <1>5, <1>6, <1>14 DEF RateInv
<1> QED BY <1>7, <1>11, <1>15

\* Every step keeps it.
LEMMA RateStep ==
    ASSUME RateInv, [RateNext]_rateVars
    PROVE  RateInv' /\ EarnedStep /\ BudgetStep
<1>1. CASE UNCHANGED rateVars
  BY <1>1 DEF RateInv, RateTypeOK, EarnedStep, BudgetStep, rateVars
<1> QED BY <1>1, QosStep, IdrStep, TurnStep, DirectiveStep DEF RateNext

\* The estimate, the rung and the directive keep their ranges; a rung is taken only after
\* it was recommended without a break for as long as the ladder demands; and the video
\* with its error correction stays within its share of the estimate.
THEOREM RateStaysSteady == RateSpec => RateIsSteady
<1>1. RateInv => RateTypeOK
  BY DEF RateInv
<1>2. RateInv /\ [RateNext]_rateVars => RateInv' /\ [EarnedStep]_rateVars /\ [BudgetStep]_rateVars
  BY RateStep
<1> QED BY <1>1, <1>2, RateInitially, PTL
        DEF RateSpec, RateIsSteady, RungIsEarned, FecComesOutOfTheBudget, EarnedStep, BudgetStep

-----------------------------------------------------------------------------
(* The reports of the link                                                 *)

\* How far apart two numbers of the wire are, when their places are less than the
\* space of numbers apart.
LEMMA NumbersApart ==
    ASSUME NEW S \in Nat \ {0}, NEW a \in Nat, NEW b \in Nat
    PROVE  /\ a - b \in 0..(S - 1) => ((a % S) - (b % S)) % S = a - b
           /\ b - a \in 1..(S - 1) => ((a % S) - (b % S)) % S = S - (b - a)
<1>1. ASSUME NEW q \in Int, NEW y \in 0..(S - 1) PROVE (q * S + y) % S = y
  OBVIOUS
<1>2. \A c \in Nat : c % S \in 0..(S - 1) /\ c = (c \div S) * S + (c % S) /\ c \div S \in Int
  OBVIOUS
<1> DEFINE qa == a \div S
           qb == b \div S
           ra == a % S
           rb == b % S
<1>3. /\ ra \in 0..(S - 1) /\ a = qa * S + ra /\ qa \in Int
      /\ rb \in 0..(S - 1) /\ b = qb * S + rb /\ qb \in Int
  BY <1>2
<1> HIDE DEF qa, qb, ra, rb
<1>4. ra - rb = (qb - qa) * S + (a - b) /\ qb - qa \in Int
  BY <1>3
<1>5. ra - rb = (qb - qa - 1) * S + (S - (b - a)) /\ qb - qa - 1 \in Int
  BY <1>3
<1>6. a - b \in 0..(S - 1) => (ra - rb) % S = a - b
  BY <1>1, <1>4
<1>7. ASSUME b - a \in 1..(S - 1) PROVE (ra - rb) % S = S - (b - a)
  <2> DEFINE q == qb - qa - 1
             y == S - (b - a)
  <2>1. y \in 0..(S - 1) /\ q \in Int /\ ra - rb = q * S + y
    BY <1>5, <1>7
  <2> HIDE DEF q, y
  <2>2. (ra - rb) % S = y
    BY <1>1, <2>1
  <2> QED BY <2>2 DEF y
<1> QED BY <1>6, <1>7 DEF ra, rb

-----------------------------------------------------------------------------
\* What has been sent is on its way, has arrived or is lost for good; nothing twice.
SentOnce ==
    /\ drawn \in 0..MaxNumbers /\ pings \in 0..MaxPings
    /\ onWire \cup arrived \subseteq 0..(drawn - 1) /\ onWire \cap arrived = {}

\* The counters of a tracker that has seen nothing, and of one that has.
Counters ==
    /\ inPeriod \in Nat /\ lostInPeriod \in Nat /\ reportedLost \in Nat
    /\ inPeriod <= Cardinality(arrived)
    /\ highest \in {NoSequence} \cup 0..(SequenceSpace - 1)
    /\ arrived = {} => highest = NoSequence /\ lostInPeriod = 0

\* The tracker's highest number is that of the newest place n; a period counts no more
\* than lies between the first fragment and n, and all periods together no less than
\* what is missing there.
TracksTo(n) ==
    /\ n \in arrived /\ firstSeen \in arrived
    /\ \A q \in arrived : q <= n
    /\ highest = Number(n)
    /\ lostInPeriod <= n - firstSeen
    /\ reportedLost + lostInPeriod + Cardinality(Before) >= Cardinality((firstSeen..n) \ arrived)

\* The inductive invariant.
LinkInv == SentOnce /\ Counters /\ (arrived # {} /\ ~leapt => \E n \in arrived : TracksTo(n))

\* What can be counted.
LEMMA Counting ==
    ASSUME LinkInv
    PROVE  /\ arrived \in SUBSET Nat /\ IsFiniteSet(arrived) /\ Cardinality(arrived) \in Nat
           /\ Cardinality(arrived) <= MaxNumbers
           /\ IsFiniteSet(Before) /\ Cardinality(Before) \in Nat
<1>1. drawn \in Nat /\ drawn <= MaxNumbers /\ arrived \in SUBSET (0..(drawn - 1))
  BY LinkReportAssumption DEF LinkInv, SentOnce
<1>2. IsFiniteSet(0..(drawn - 1)) /\ Cardinality(0..(drawn - 1)) <= drawn
  <2>1. 0 \in Int /\ drawn - 1 \in Int
    BY <1>1
  <2>2. Cardinality(0..(drawn - 1)) = IF 0 > drawn - 1 THEN 0 ELSE (drawn - 1) - 0 + 1
    BY <2>1, FS_Interval
  <2>3. IsFiniteSet(0..(drawn - 1))
    BY <2>1, FS_Interval
  <2> QED BY <1>1, <2>2, <2>3
<1>3. IsFiniteSet(arrived) /\ Cardinality(arrived) <= Cardinality(0..(drawn - 1)) /\ Cardinality(arrived) \in Nat
      /\ Cardinality(0..(drawn - 1)) \in Nat
  BY <1>1, <1>2, FS_Subset, FS_CardinalityType
<1>4. Before \in SUBSET arrived
  BY DEF Before
<1>5. IsFiniteSet(Before) /\ Cardinality(Before) \in Nat
  BY <1>3, <1>4, FS_Subset, FS_CardinalityType
<1> QED BY <1>1, <1>2, <1>3, <1>5, LinkReportAssumption

\* The newest number that arrived.
LEMMA NewestIs ==
    ASSUME LinkInv, NEW n \in arrived, \A q \in arrived : q <= n
    PROVE  Newest = n
<1>1. arrived \in SUBSET Nat
  BY Counting
<1>2. Newest \in arrived /\ \A q \in arrived : q <= Newest
  BY DEF Newest
<1> QED BY <1>1, <1>2

\* The property follows from the invariant.
LEMMA LinkInvImplies == LinkInv => LossIsCounted
<1> SUFFICES ASSUME LinkInv PROVE LossIsCounted
  OBVIOUS
<1>1. LinkTypeOK
  <2>1. onWire \cup arrived \subseteq 0..(MaxNumbers - 1)
    BY LinkReportAssumption DEF LinkInv, SentOnce
  <2>2. inPeriod \in 0..MaxNumbers
    BY Counting, LinkReportAssumption DEF LinkInv, Counters
  <2> QED BY <2>1, <2>2 DEF LinkInv, SentOnce, Counters, LinkTypeOK
<1>2. NoLossHidden
  <2> SUFFICES ASSUME arrived # {}, ~leapt
               PROVE  reportedLost + lostInPeriod + Cardinality(Before) >= Cardinality((firstSeen..Newest) \ arrived)
    BY DEF NoLossHidden
  <2>1. PICK n \in arrived : TracksTo(n)
    BY DEF LinkInv
  <2> QED BY <2>1, NewestIs DEF TracksTo
<1> QED BY <1>1, <1>2 DEF LossIsCounted

\* What the tracker does with a fragment behind or ahead of the newest.
LEMMA ObserveEffects ==
    ASSUME NEW n \in Nat, NEW place \in Nat, highest = Number(n), lostInPeriod \in Nat,
           place # n, place - n \in (-MAX_REORDER)..MAX_REORDER, Observe(Number(place))
    PROVE  /\ inPeriod' = inPeriod + 1
           /\ place > n => highest' = Number(place) /\ lostInPeriod' = lostInPeriod + (place - n) - 1
           /\ place < n => highest' = highest /\ lostInPeriod' = Fills(lostInPeriod)
<1> DEFINE S == SequenceSpace
           advance == (Number(place) - highest) % S
           behind == (highest - Number(place)) % S
<1>0. S \in Nat \ {0} /\ MAX_REORDER \in Nat /\ 2 * MAX_REORDER < S
  BY LinkReportAssumption
<1>1. highest # NoSequence
  BY <1>0 DEF Number, NoSequence
<1>2. CASE place > n
  <2>1. place - n \in 0..(S - 1) /\ place - n \in 1..MAX_REORDER
    BY <1>0, <1>2
  <2>2. advance = place - n
    <3>1. ((place % S) - (n % S)) % S = place - n
      BY <1>0, <2>1, NumbersApart
    <3> QED BY <3>1 DEF Number
  <2> HIDE DEF S
  <2> QED BY <1>1, <1>2, <2>1, <2>2 DEF Observe, S
<1>3. CASE place < n
  <2>1. n - place \in 1..MAX_REORDER /\ n - place \in 1..(S - 1) /\ n - place \in 0..(S - 1)
    BY <1>0, <1>3
  <2>2. advance = S - (n - place) /\ behind = n - place
    <3>1. ((place % S) - (n % S)) % S = S - (n - place)
      BY <1>0, <2>1, NumbersApart
    <3>2. ((n % S) - (place % S)) % S = n - place
      BY <1>0, <2>1, NumbersApart
    <3> QED BY <3>1, <3>2 DEF Number
  <2>3. advance > MAX_REORDER /\ advance # 0 /\ behind <= MAX_REORDER
    BY <1>0, <2>1, <2>2
  <2> QED BY <1>0, <1>1, <1>3, <2>1, <2>2, <2>3 DEF Observe
<1> QED BY <1>2, <1>3

\* A fragment reaches the viewer.
LEMMA DeliverStep ==
    ASSUME LinkInv, Deliver
    PROVE  LinkInv'
<1>1. PICK place \in onWire :
           /\ leapt' = (leapt \/ ~WithinReach(place))
           /\ onWire' = onWire \ {place} /\ arrived' = arrived \cup {place}
           /\ firstSeen' = (IF arrived = {} THEN place ELSE firstSeen)
           /\ Observe(Number(place))
           /\ UNCHANGED <<drawn, pings, reportedLost, reports>>
  BY DEF Deliver
<1>2. place \in Nat /\ place \notin arrived /\ drawn \in Nat
  BY LinkReportAssumption DEF LinkInv, SentOnce
<1>3. SentOnce'
  BY <1>1 DEF LinkInv, SentOnce
<1>4. inPeriod' = inPeriod + 1 /\ inPeriod \in Nat /\ lostInPeriod \in Nat /\ reportedLost \in Nat
  BY <1>1 DEF Observe, LinkInv, Counters
<1>5. inPeriod' \in Nat /\ inPeriod' <= Cardinality(arrived')
  <2>1. Cardinality(arrived') = Cardinality(arrived) + 1
    BY <1>1, <1>2, Counting, FS_AddElement
  <2> QED BY <1>4, <2>1, Counting DEF LinkInv, Counters
<1>6. arrived' # {} /\ lostInPeriod' \in Nat /\ highest' \in {NoSequence} \cup 0..(SequenceSpace - 1)
  <2> DEFINE advance == (Number(place) - highest) % SequenceSpace
  <2>1. /\ highest \in {NoSequence} \cup 0..(SequenceSpace - 1) /\ Number(place) \in 0..(SequenceSpace - 1)
        /\ highest \in Int /\ Number(place) \in Int
    BY <1>2, LinkReportAssumption DEF LinkInv, Counters, Number, NoSequence
  <2>2. advance \in Nat
    BY <2>1, LinkReportAssumption
  <2>3. highest' \in {highest, Number(place)}
    BY <1>1 DEF Observe
  <2>4. \/ lostInPeriod' = lostInPeriod \/ lostInPeriod' = Fills(lostInPeriod)
        \/ advance # 0 /\ lostInPeriod' = lostInPeriod + advance - 1
    BY <1>1 DEF Observe
  <2>5. Fills(lostInPeriod) \in Nat
    BY <1>4 DEF Fills
  <2> HIDE DEF advance
  <2>6. lostInPeriod' \in Nat
    BY <1>4, <2>2, <2>4, <2>5
  <2> QED BY <1>1, <2>1, <2>3, <2>6
<1>7. CASE arrived = {}
  <2>1. highest = NoSequence /\ lostInPeriod = 0
    BY <1>7 DEF LinkInv, Counters
  <2>2. highest' = Number(place) /\ lostInPeriod' = 0
    BY <1>1, <2>1 DEF Observe
  <2>3. arrived' = {place} /\ firstSeen' = place
    BY <1>1, <1>7
  <2>4. (firstSeen'..place) \ arrived' = {} /\ Before' = {}
    BY <1>2, <2>3 DEF Before
  <2>5. TracksTo(place)'
    <3>1. reportedLost' \in Nat
      BY <1>1, <1>4
    <3>2. Cardinality(Before') = 0 /\ Cardinality((firstSeen'..place) \ arrived') = 0
      BY <2>4, FS_EmptySet
    <3>3. reportedLost' + lostInPeriod' + Cardinality(Before') >= Cardinality((firstSeen'..place) \ arrived')
      <4>1. \A t \in Nat : t + 0 + 0 >= 0
        OBVIOUS
      <4>2. reportedLost' + 0 + 0 >= 0
        BY <3>1, <4>1
      <4> QED BY <2>2, <3>2, <4>2, Zenon
    <3>4. /\ place \in arrived' /\ firstSeen' \in arrived' /\ (\A q \in arrived' : q <= place)
          /\ lostInPeriod' <= place - firstSeen'
      BY <1>2, <2>2, <2>3
    <3> QED BY <2>2, <3>3, <3>4 DEF TracksTo, Number
  <2> QED BY <1>1, <1>3, <1>4, <1>5, <1>6, <2>2, <2>3, <2>5 DEF LinkInv, Counters
<1>8. CASE arrived # {} /\ ~leapt'
  <2>0. ~leapt /\ WithinReach(place)
    BY <1>1, <1>8, Zenon
  <2>1. PICK n \in arrived : TracksTo(n)
    BY <1>8, <2>0 DEF LinkInv
  <2> DEFINE f == firstSeen
             missing == (f..n) \ arrived
  <2>2. /\ n \in Nat /\ f \in Nat /\ f <= n /\ f \in arrived /\ firstSeen' = f /\ Newest = n
        /\ place # n /\ place # f /\ place - n \in (-MAX_REORDER)..MAX_REORDER
    BY <1>1, <1>2, <1>8, <2>0, <2>1, NewestIs, Counting DEF TracksTo, WithinReach
  <2>3. /\ place > n => highest' = Number(place) /\ lostInPeriod' = lostInPeriod + (place - n) - 1
        /\ place < n => highest' = highest /\ lostInPeriod' = Fills(lostInPeriod)
    BY <1>1, <1>2, <1>4, <2>1, <2>2, ObserveEffects DEF TracksTo
  <2>4. IsFiniteSet(missing) /\ Cardinality(missing) \in Nat
    <3>1. IsFiniteSet(f..n) /\ missing \in SUBSET (f..n)
      BY <2>2, FS_Interval
    <3> QED BY <3>1, FS_Subset, FS_CardinalityType
  <2>5. /\ lostInPeriod <= n - f
        /\ reportedLost + lostInPeriod + Cardinality(Before) >= Cardinality(missing)
    BY <2>1 DEF TracksTo
  <2>6. IsFiniteSet(Before) /\ Cardinality(Before) \in Nat
    BY Counting
  <2>7. CASE place > n
    <3> DEFINE gap == (n + 1)..(place - 1)
               missing2 == (f..place) \ arrived'
    <3>1. Before' = Before
      BY <1>1, <2>2, <2>7 DEF Before
    <3>2. missing2 = missing \cup gap
      <4>1. \A q \in arrived : q \in Nat /\ q <= n
        BY <2>1, Counting DEF TracksTo
      <4> QED BY <1>1, <1>2, <2>2, <2>7, <4>1
    <3>3. missing \cap gap = {}
      BY <2>2
    <3>4. IsFiniteSet(gap) /\ Cardinality(gap) = (place - n) - 1
      <4>1. n + 1 \in Int /\ place - 1 \in Int
        BY <1>2, <2>2
      <4>2. IsFiniteSet(gap) /\ Cardinality(gap) = IF n + 1 > place - 1 THEN 0 ELSE (place - 1) - (n + 1) + 1
        BY <4>1, FS_Interval
      <4> HIDE DEF gap
      <4> QED BY <1>2, <2>2, <2>7, <4>2
    <3> HIDE DEF missing, gap
    <3>5. Cardinality(missing2) = Cardinality(missing) + ((place - n) - 1)
      <4>1. Cardinality(missing \cap gap) = 0
        BY <3>3, FS_EmptySet
      <4>2. Cardinality(missing \cup gap) = Cardinality(missing) + Cardinality(gap) - Cardinality(missing \cap gap)
        BY <2>4, <3>4, FS_Union
      <4> QED BY <1>2, <2>2, <2>4, <3>2, <3>4, <4>1, <4>2
    <3>6. /\ lostInPeriod' \in Nat /\ lostInPeriod' <= place - firstSeen'
          /\ reportedLost' + lostInPeriod' + Cardinality(Before') >= Cardinality(missing2)
      <4>1. lostInPeriod' = lostInPeriod + (place - n) - 1 /\ reportedLost' = reportedLost
        BY <1>1, <2>3, <2>7
      <4> HIDE DEF missing2
      <4> QED BY <1>2, <1>4, <2>2, <2>4, <2>5, <2>6, <2>7, <3>1, <3>5, <4>1
    <3>7. \A q \in arrived' : q <= place
      <4>1. \A q \in arrived : q \in Nat /\ q <= n
        BY <2>1, Counting DEF TracksTo
      <4> QED BY <1>1, <1>2, <2>2, <2>7, <4>1
    <3>8. TracksTo(place)'
      BY <1>1, <2>2, <2>3, <2>7, <3>6, <3>7 DEF TracksTo
    <3> QED BY <1>1, <1>3, <1>4, <1>5, <1>6, <3>6, <3>8 DEF LinkInv, Counters
  <2>8. CASE place < n
    <3> DEFINE missing2 == (f..n) \ arrived'
    <3>1. /\ lostInPeriod' \in Nat /\ lostInPeriod' <= lostInPeriod /\ lostInPeriod' + 1 >= lostInPeriod
      BY <1>4, <2>3, <2>8 DEF Fills
    <3>2. Cardinality(Before') + Cardinality(missing) = Cardinality(Before) + Cardinality(missing2) + 1
          /\ Cardinality(missing2) \in Nat /\ Cardinality(Before') \in Nat
      <4>1. CASE place < f
        <5>1. Before' = Before \cup {place} /\ place \notin Before
          BY <1>1, <1>2, <2>2, <4>1 DEF Before
        <5>2. missing2 = missing
          BY <1>1, <1>2, <2>2, <4>1
        <5> HIDE DEF missing, missing2
        <5>3. Cardinality(Before') = Cardinality(Before) + 1
          BY <2>6, <5>1, FS_AddElement
        <5> QED BY <2>4, <2>6, <5>2, <5>3
      <4>2. CASE place > f
        <5>1. Before' = Before
          BY <1>1, <1>2, <2>2, <4>2 DEF Before
        <5>2. missing2 = missing \ {place} /\ place \in missing
          BY <1>1, <1>2, <2>2, <2>8, <4>2
        <5> HIDE DEF missing, missing2
        <5>3. Cardinality(missing2) = Cardinality(missing) - 1 /\ IsFiniteSet(missing2)
          BY <2>4, <5>2, FS_RemoveElement
        <5>4. Cardinality(missing2) \in Nat
          BY <5>3, FS_CardinalityType
        <5> QED BY <2>4, <2>6, <5>1, <5>3, <5>4
      <4> QED BY <1>2, <2>2, <4>1, <4>2
    <3>3. /\ lostInPeriod' <= n - firstSeen'
          /\ reportedLost' + lostInPeriod' + Cardinality(Before') >= Cardinality(missing2)
      <4>1. reportedLost' = reportedLost
        BY <1>1
      <4>2. lostInPeriod' <= n - firstSeen'
        BY <1>4, <2>2, <2>5, <3>1
      <4>3. \A r, l, l2, b, b2, m, m2 \in Nat :
               l2 + 1 >= l /\ b2 + m = b + m2 + 1 /\ r + l + b >= m => r + l2 + b2 >= m2
        OBVIOUS
      <4> HIDE DEF missing, missing2
      <4> QED BY <1>4, <2>4, <2>5, <2>6, <3>1, <3>2, <4>1, <4>2, <4>3
    <3>4. \A q \in arrived' : q <= n
      BY <1>1, <1>2, <2>1, <2>2, <2>8 DEF TracksTo
    <3>5. TracksTo(n)' /\ n \in arrived'
      BY <1>1, <2>1, <2>2, <2>3, <2>8, <3>3, <3>4 DEF TracksTo, Number
    <3> QED BY <1>1, <1>3, <1>4, <1>5, <1>6, <3>1, <3>5 DEF LinkInv, Counters
  <2> QED BY <1>2, <2>2, <2>7, <2>8
<1>9. CASE leapt'
  BY <1>1, <1>3, <1>4, <1>5, <1>6, <1>9 DEF LinkInv, Counters
<1> QED BY <1>7, <1>8, <1>9

\* Every step keeps the invariant.
LEMMA LinkStep ==
    ASSUME LinkInv, [LinkNext]_linkVars
    PROVE  LinkInv'
<1>1. CASE SendFragment
  <2>1. SentOnce'
    BY <1>1, LinkReportAssumption DEF SendFragment, LinkInv, SentOnce
  <2>2. UNCHANGED <<arrived, firstSeen, highest, inPeriod, lostInPeriod, reportedLost, leapt>>
    BY <1>1 DEF SendFragment
  <2> QED BY <2>1, <2>2 DEF LinkInv, Counters, TracksTo, Before
<1>2. CASE SendPing
  <2>1. SentOnce'
    BY <1>2, LinkReportAssumption DEF SendPing, LinkInv, SentOnce
  <2>2. UNCHANGED <<arrived, firstSeen, highest, inPeriod, lostInPeriod, reportedLost, leapt>>
    BY <1>2 DEF SendPing
  <2> QED BY <2>1, <2>2 DEF LinkInv, Counters, TracksTo, Before
<1>3. CASE Deliver
  BY <1>3, DeliverStep
<1>4. CASE Report
  <2>1. SentOnce'
    BY <1>4 DEF Report, LinkInv, SentOnce
  <2>2. /\ UNCHANGED <<arrived, firstSeen, highest, leapt>> /\ Before' = Before
        /\ inPeriod' = 0 /\ lostInPeriod' = 0 /\ reportedLost' = reportedLost + lostInPeriod
    BY <1>4 DEF Report, Before
  <2>3. Counters'
    BY <2>2, Counting DEF LinkInv, Counters
  <2>4. ASSUME NEW n \in arrived, TracksTo(n) PROVE TracksTo(n)'
    <3>1. n \in Nat /\ firstSeen \in Nat /\ firstSeen <= n
      BY <2>4, Counting DEF TracksTo
    <3>2. reportedLost' + lostInPeriod' = reportedLost + lostInPeriod
      BY <2>2 DEF LinkInv, Counters
    <3>3. lostInPeriod' <= n - firstSeen'
      BY <2>2, <3>1
    <3>4. reportedLost' + lostInPeriod' + Cardinality(Before') >= Cardinality((firstSeen'..n) \ arrived')
      <4>1. reportedLost + lostInPeriod + Cardinality(Before) >= Cardinality((firstSeen..n) \ arrived)
        BY <2>4 DEF TracksTo
      <4> QED BY <2>2, <3>2, <4>1
    <3> QED BY <2>2, <2>4, <3>3, <3>4 DEF TracksTo, Number
  <2> QED BY <2>1, <2>2, <2>3, <2>4 DEF LinkInv
<1>5. CASE UNCHANGED linkVars
  BY <1>5 DEF linkVars, LinkInv, SentOnce, Counters, TracksTo, Before
<1> QED BY <1>1, <1>2, <1>3, <1>4, <1>5 DEF LinkNext

\* Over all its reports a viewer has counted every fragment that is missing, for any
\* size of the number space and reach of the reordering, across the wrap of the numbers
\* and whatever the pattern of losses, up to the first leap beyond that reach.
THEOREM LossesAreCounted == LinkSpec => []LossIsCounted
<1>1. LinkInit => LinkInv
  BY LinkReportAssumption, FS_EmptySet DEF LinkInit, LinkInv, SentOnce, Counters
<1>2. LinkSpec => []LinkInv
  BY <1>1, LinkStep, PTL DEF LinkSpec
<1> QED BY <1>2, LinkInvImplies, PTL

-----------------------------------------------------------------------------
(* Recovery                                                                *)

Frames == [kind : {"key", "delta"}, geometry : Geometries]
OnWire == Frames \cup {LostFrame}

\* The last keyframe under way, when nothing after it was lost, is of the encoder that is
\* running, unless that one has not sent its first.
KeyIsCurrent ==
    ~encoder.first =>
        \A i \in DOMAIN wire :
            wire[i].kind = "key" /\ (\A j \in DOMAIN wire : j > i => wire[j].kind = "delta")
                => wire[i].geometry = encoder.geometry

\* With nothing but deltas under way, a decoder with its references has those of the
\* encoder that is running.
ReferencesAreCurrent ==
    ~encoder.first /\ decoder.intact /\ (\A j \in DOMAIN wire : wire[j].kind = "delta")
        => decoder.geometry = encoder.geometry

RecInv ==
    /\ RecoveryTypeOK
    /\ wire \in Seq(OnWire)
    /\ KeyIsCurrent
    /\ ReferencesAreCurrent

\* A keyframe, a delta or a lost frame.
LEMMA FrameKinds ==
    /\ LostFrame.kind = "lost"
    /\ \A f \in OnWire : f \in Frames \/ f = LostFrame
    /\ \A f \in Frames : f.kind \in {"key", "delta"} /\ f.geometry \in Geometries
    /\ \A f \in OnWire : f # LostFrame => f \in Frames
  BY DEF OnWire, Frames, LostFrame

\* It holds at the start.
LEMMA RecInitially == RecoveryInit => RecInv
<1> SUFFICES ASSUME RecoveryInit PROVE RecInv
  OBVIOUS
<1> USE RecoveryAssumption
<1>1. PICK g \in Geometries :
        encoder = NewEncoder(g) /\ wanted = g /\ sinceIdr = IDR_MIN_INTERVAL /\ rebuilds = 0 /\ faults = 0
        /\ wire = <<>> /\ requests = 0 /\ decoder = EmptyDecoder /\ sinceRequest = KEYFRAME_REQUEST_INTERVAL
  BY DEF RecoveryInit
<1>2. RecoveryTypeOK
  BY <1>1 DEF RecoveryTypeOK, NewEncoder, EmptyDecoder
<1>3. wire \in Seq(OnWire) /\ encoder.first
  BY <1>1 DEF NewEncoder
<1> QED BY <1>2, <1>3 DEF RecInv, KeyIsCurrent, ReferencesAreCurrent

\* A frame is encoded from references that are current.
LEMMA EncodeStep == RecInv /\ EncodeFrame => RecInv'
<1> SUFFICES ASSUME RecInv, EncodeFrame PROVE RecInv'
  OBVIOUS
<1> USE RecoveryAssumption
<1>1. wire \in Seq(OnWire) /\ encoder \in [geometry : Geometries, first : BOOLEAN, force : BOOLEAN]
  BY DEF RecInv, RecoveryTypeOK
<1>2. Output \in Frames /\ Output \in OnWire
  BY <1>1 DEF Output, CodedFrame, Frames, OnWire
<1>3. wire' = Append(wire, Output) /\ encoder' = [encoder EXCEPT !.first = FALSE, !.force = FALSE]
        /\ Len(wire) < MaxWire
  BY DEF EncodeFrame
<1>4. /\ wire' \in Seq(OnWire) /\ Len(wire') = Len(wire) + 1 /\ Len(wire) + 1 \in DOMAIN wire'
      /\ DOMAIN wire \subseteq DOMAIN wire'
      /\ wire'[Len(wire) + 1] = Output
      /\ \A k \in DOMAIN wire : wire'[k] = wire[k]
      /\ \A k \in DOMAIN wire' : k \in DOMAIN wire \/ k = Len(wire) + 1
      /\ \A k \in DOMAIN wire : k \in Int /\ k < Len(wire) + 1
  <2>1. DOMAIN wire = 1..Len(wire) /\ Len(wire) \in Nat
    BY <1>1, LenProperties
  <2>2. \A k \in DOMAIN wire : k \in Int /\ k < Len(wire) + 1
    BY <2>1
  <2> QED BY <1>1, <1>2, <1>3, <2>2, AppendOf
<1>5. RecoveryTypeOK'
  <2>1. Len(wire') <= MaxWire
    <3>1. Len(wire) \in Nat
      BY <1>1, LenProperties
    <3> QED BY <1>3, <1>4, <3>1
  <2>2. encoder' \in [geometry : Geometries, first : BOOLEAN, force : BOOLEAN]
    BY <1>1, <1>3
  <2> QED BY <2>1, <2>2 DEF EncodeFrame, RecInv, RecoveryTypeOK
<1>6. /\ Output.geometry = encoder.geometry /\ encoder'.geometry = encoder.geometry
      /\ Output.kind = "delta" => ~encoder.first
      /\ Output.kind \in {"key", "delta"}
  BY <1>1, <1>3 DEF Output, CodedFrame
<1>7. KeyIsCurrent'
  <2> SUFFICES ASSUME NEW i \in DOMAIN wire', wire'[i].kind = "key",
                      \A j \in DOMAIN wire' : j > i => wire'[j].kind = "delta"
               PROVE  wire'[i].geometry = encoder'.geometry
    BY DEF KeyIsCurrent
  <2>1. CASE i = Len(wire) + 1
    BY <1>4, <1>6, <2>1
  <2>2. CASE i \in DOMAIN wire
    <3>1. Output.kind = "delta"
      BY <1>4, <2>2
    <3>2. \A j \in DOMAIN wire : j > i => wire[j].kind = "delta"
      BY <1>4
    <3> QED BY <1>4, <1>6, <2>2, <3>1, <3>2 DEF RecInv, KeyIsCurrent
  <2> QED BY <1>4, <2>1, <2>2
<1>8. ReferencesAreCurrent'
  <2> SUFFICES ASSUME decoder'.intact, \A j \in DOMAIN wire' : wire'[j].kind = "delta"
               PROVE  decoder'.geometry = encoder'.geometry
    BY DEF ReferencesAreCurrent
  <2>1. Output.kind = "delta" /\ \A j \in DOMAIN wire : wire[j].kind = "delta"
    BY <1>4
  <2>2. decoder' = decoder
    BY DEF EncodeFrame
  <2> QED BY <1>6, <2>1, <2>2 DEF RecInv, ReferencesAreCurrent
<1> QED BY <1>4, <1>5, <1>7, <1>8 DEF RecInv

\* A loss touches only frames that were not decoded.
LEMMA LoseStep == RecInv /\ Lose => RecInv'
<1> SUFFICES ASSUME RecInv, Lose PROVE RecInv'
  OBVIOUS
<1> USE RecoveryAssumption
<1>1. wire \in Seq(OnWire)
  BY DEF RecInv
<1>2. PICK i \in DOMAIN wire : wire' = [wire EXCEPT ![i] = LostFrame]
  BY DEF Lose
<1>3. /\ wire' \in Seq(OnWire) /\ Len(wire') = Len(wire) /\ DOMAIN wire' = DOMAIN wire
      /\ wire'[i].kind = "lost" /\ \A k \in DOMAIN wire : k # i => wire'[k] = wire[k]
  <2>1. LostFrame \in OnWire
    BY DEF OnWire
  <2>2. wire' \in Seq(OnWire) /\ Len(wire') = Len(wire)
    BY <1>1, <1>2, <2>1, ExceptSeq
  <2>3. DOMAIN wire' = DOMAIN wire /\ wire'[i] = LostFrame /\ \A k \in DOMAIN wire : k # i => wire'[k] = wire[k]
    BY <1>2
  <2> QED BY <2>2, <2>3, FrameKinds
<1>4. /\ UNCHANGED <<encoder, wanted, sinceIdr, rebuilds, requests, decoder, sinceRequest>>
      /\ faults < MaxFaults /\ faults' = faults + 1
  BY DEF Lose, Fault
<1>5. RecoveryTypeOK'
  BY <1>3, <1>4 DEF RecInv, RecoveryTypeOK
<1>6. KeyIsCurrent'
  <2> SUFFICES ASSUME ~encoder.first, NEW m \in DOMAIN wire', wire'[m].kind = "key",
                      \A j \in DOMAIN wire' : j > m => wire'[j].kind = "delta"
               PROVE  wire'[m].geometry = encoder.geometry
    BY <1>4 DEF KeyIsCurrent
  <2>1. m # i /\ ~(i > m)
    BY <1>3
  <2>2. \A j \in DOMAIN wire : j > m => wire[j].kind = "delta"
    BY <1>3, <2>1
  <2> QED BY <1>3, <2>1, <2>2 DEF RecInv, KeyIsCurrent
<1>7. ReferencesAreCurrent'
  BY <1>3 DEF ReferencesAreCurrent
<1> QED BY <1>3, <1>5, <1>6, <1>7 DEF RecInv

\* What every way to take a frame off the wire does to the decoder.
LEMMA TakeStep ==
    ASSUME RecInv, wire # <<>>, wire' = Tail(wire), encoder' = encoder, RecoveryTypeOK',
           \/ ~decoder'.intact
           \/ Head(wire).kind = "key" /\ decoder'.geometry = Head(wire).geometry
           \/ Head(wire).kind = "delta" /\ decoder.intact /\ decoder'.geometry = decoder.geometry
    PROVE  RecInv'
<1>1. wire \in Seq(OnWire)
  BY DEF RecInv
<1>2. /\ wire' \in Seq(OnWire) /\ Head(wire) = wire[1] /\ 1 \in DOMAIN wire
      /\ \A k \in DOMAIN wire' : k + 1 \in DOMAIN wire /\ wire'[k] = wire[k + 1]
      /\ \A k \in DOMAIN wire : k = 1 \/ (k - 1 \in DOMAIN wire' /\ wire'[k - 1] = wire[k])
  BY <1>1, TailOf
<1>3. DOMAIN wire = 1..Len(wire) /\ DOMAIN wire' = 1..Len(wire')
  BY <1>1, <1>2, LenProperties
<1>4. KeyIsCurrent'
  <2> SUFFICES ASSUME ~encoder.first, NEW m \in DOMAIN wire', wire'[m].kind = "key",
                      \A j \in DOMAIN wire' : j > m => wire'[j].kind = "delta"
               PROVE  wire'[m].geometry = encoder.geometry
    BY DEF KeyIsCurrent
  <2>1. m + 1 \in DOMAIN wire /\ wire[m + 1] = wire'[m]
    BY <1>2
  <2>2. \A j \in DOMAIN wire : j > m + 1 => wire[j].kind = "delta"
    <3> SUFFICES ASSUME NEW j \in DOMAIN wire, j > m + 1 PROVE wire[j].kind = "delta"
      OBVIOUS
    <3>1. j # 1 /\ j - 1 > m
      BY <1>3
    <3> QED BY <1>2, <3>1
  <2> QED BY <2>1, <2>2 DEF RecInv, KeyIsCurrent
<1>5. ReferencesAreCurrent'
  <2> SUFFICES ASSUME ~encoder.first, decoder'.intact, \A j \in DOMAIN wire' : wire'[j].kind = "delta"
               PROVE  decoder'.geometry = encoder.geometry
    BY DEF ReferencesAreCurrent
  <2>1. ASSUME NEW j \in DOMAIN wire, j # 1 PROVE wire[j].kind = "delta"
    <3>1. j - 1 \in DOMAIN wire' /\ wire'[j - 1] = wire[j]
      BY <1>2, <2>1
    <3>2. wire'[j - 1].kind = "delta"
      BY <3>1
    <3> QED BY <3>1, <3>2
  <2>2. CASE Head(wire).kind = "key" /\ decoder'.geometry = Head(wire).geometry
    <3>1. \A j \in DOMAIN wire : j > 1 => wire[j].kind = "delta"
      BY <1>3, <2>1
    <3> QED BY <1>2, <2>2, <3>1 DEF RecInv, KeyIsCurrent
  <2>3. CASE Head(wire).kind = "delta" /\ decoder.intact /\ decoder'.geometry = decoder.geometry
    BY <1>2, <2>1, <2>3 DEF RecInv, ReferencesAreCurrent
  <2> QED BY <2>2, <2>3
<1> QED BY <1>2, <1>4, <1>5 DEF RecInv

\* A frame that is decoded makes the decoder current up to it.
LEMMA PlayStep == RecInv /\ PlayFrame => RecInv'
<1> SUFFICES ASSUME RecInv, PlayFrame PROVE RecInv'
  OBVIOUS
<1> USE RecoveryAssumption
<1> DEFINE f == Head(wire)
           Decoders == [geometry : Geometries \cup {NoGeometry}, built : BOOLEAN, intact : BOOLEAN]
<1>1. wire \in Seq(OnWire) /\ wire # <<>> /\ wire' = Tail(wire) /\ f # LostFrame /\ encoder' = encoder
  BY DEF RecInv, PlayFrame
<1>2. f \in Frames /\ f.geometry \in Geometries /\ Len(wire') = Len(wire) - 1 /\ Len(wire) \in Nat
        /\ f.kind \in {"key", "delta"}
  <2>1. Head(wire) \in OnWire /\ Len(Tail(wire)) = Len(wire) - 1
    BY <1>1, TailOf
  <2>2. Len(wire) \in Nat
    BY <1>1, LenProperties
  <2> QED BY <1>1, <2>1, <2>2, FrameKinds
<1> HIDE DEF f
<1>3. decoder \in Decoders /\ EmptyDecoder \in Decoders /\ ~EmptyDecoder.intact
  BY DEF RecInv, RecoveryTypeOK, EmptyDecoder
<1>4. (SoftwareDecode(f) /\ UNCHANGED faults) \/ VideoToolboxDecode(f)
  BY DEF PlayFrame, f
<1>5. ASSUME NEW left \in Decoders, DecodeFails(left)
      PROVE  decoder' = left /\ requests' \in 0..MaxRequests /\ sinceRequest' \in 0..KEYFRAME_REQUEST_INTERVAL
  <2>1. requests \in 0..MaxRequests /\ sinceRequest \in 0..KEYFRAME_REQUEST_INTERVAL
    BY DEF RecInv, RecoveryTypeOK
  <2> QED BY <1>5, <2>1 DEF DecodeFails
<1>6. ASSUME NEW g \in Geometries \cup {NoGeometry}, DecodeShows(g)
      PROVE  /\ decoder' = ReadyDecoder(g) /\ decoder'.geometry = g /\ decoder' \in Decoders
             /\ requests' \in 0..MaxRequests /\ sinceRequest' \in 0..KEYFRAME_REQUEST_INTERVAL
  BY <1>6 DEF DecodeShows, ReadyDecoder, RecInv, RecoveryTypeOK
<1> DEFINE Kept ==
             /\ decoder' \in Decoders
             /\ requests' \in 0..MaxRequests /\ sinceRequest' \in 0..KEYFRAME_REQUEST_INTERVAL
             /\ faults' \in 0..MaxFaults
             /\ \/ ~decoder'.intact
                \/ f.kind = "key" /\ decoder'.geometry = f.geometry
                \/ f.kind = "delta" /\ decoder.intact /\ decoder'.geometry = decoder.geometry
<1>7. faults \in 0..MaxFaults /\ (Fault => faults' \in 0..MaxFaults)
  BY DEF RecInv, RecoveryTypeOK, Fault
<1>8. decoder.geometry \in Geometries \cup {NoGeometry}
  BY <1>3
<1> HIDE DEF Decoders
<1>9. ASSUME SoftwareDecode(f) /\ UNCHANGED faults PROVE Kept
  <2>1. CASE f.kind = "key" /\ DecodeShows(f.geometry)
    BY <1>2, <1>6, <1>7, <1>9, <2>1
  <2>2. CASE f.kind = "key" /\ DecodeFails(ReadyDecoder(f.geometry))
    <3>1. ReadyDecoder(f.geometry) \in Decoders /\ ReadyDecoder(f.geometry).geometry = f.geometry
      BY <1>2 DEF Decoders, ReadyDecoder
    <3> QED BY <1>5, <1>7, <1>9, <2>2, <3>1
  <2>3. CASE f.kind = "delta" /\ decoder.intact /\ DecodeShows(decoder.geometry)
    BY <1>6, <1>7, <1>8, <1>9, <2>3
  <2>4. CASE ~decoder.intact /\ DecodeFails(decoder)
    BY <1>3, <1>5, <1>7, <1>9, <2>4
  <2>5. CASE DecodeFails(EmptyDecoder)
    BY <1>3, <1>5, <1>7, <1>9, <2>5
  <2>6. CASE ~decoder.intact /\ DecodeSwallows(decoder)
    BY <1>3, <1>7, <1>9, <2>6 DEF DecodeSwallows, RecInv, RecoveryTypeOK
  <2> QED BY <1>9, <2>1, <2>2, <2>3, <2>4, <2>5, <2>6 DEF SoftwareDecode
<1>10. ASSUME VideoToolboxDecode(f) PROVE Kept
  <2>1. CASE f.kind = "key" /\ DecodeShows(f.geometry) /\ UNCHANGED faults
    BY <1>2, <1>6, <1>7, <2>1
  <2>2. CASE BuildFails(f)
    <3> DEFINE got == [geometry |-> f.geometry, built |-> FALSE, intact |-> FALSE]
    <3>1. got \in Decoders /\ ~got.intact
      BY <1>2 DEF Decoders
    <3> HIDE DEF got
    <3>2. Absorb(f) = got \/ (Absorb(f) = decoder /\ (f.kind = "key" => decoder.geometry = f.geometry))
      BY DEF Absorb, got
    <3>3. /\ Fault
          /\ \/ DecodeFails(EmptyDecoder) \/ DecodeFails(got)
             \/ DecodeFails(decoder) /\ (f.kind = "key" => decoder.geometry = f.geometry)
      BY <2>2, <3>2 DEF BuildFails
    <3>4. CASE DecodeFails(EmptyDecoder)
      BY <1>3, <1>5, <1>7, <3>3, <3>4
    <3>5. CASE DecodeFails(got)
      BY <1>5, <1>7, <3>1, <3>3, <3>5
    <3>6. CASE DecodeFails(decoder) /\ (f.kind = "key" => decoder.geometry = f.geometry)
      BY <1>2, <1>3, <1>5, <1>7, <3>3, <3>6
    <3> QED BY <3>3, <3>4, <3>5, <3>6
  <2>3. CASE f.kind = "delta" /\ decoder.intact /\ DecodeShows(decoder.geometry) /\ UNCHANGED faults
    BY <1>6, <1>7, <1>8, <2>3
  <2>4. CASE DecodeFails(EmptyDecoder) /\ UNCHANGED faults
    BY <1>3, <1>5, <1>7, <2>4
  <2>5. CASE ~decoder.intact /\ DecodeSwallows([decoder EXCEPT !.built = TRUE]) /\ UNCHANGED faults
    <3>1. [decoder EXCEPT !.built = TRUE] \in Decoders /\ [decoder EXCEPT !.built = TRUE].intact = decoder.intact
      BY <1>3 DEF Decoders
    <3> QED BY <1>7, <2>5, <3>1 DEF DecodeSwallows, RecInv, RecoveryTypeOK
  <2> QED BY <1>10, <2>1, <2>2, <2>3, <2>4, <2>5 DEF VideoToolboxDecode
<1>11. Kept
  BY <1>4, <1>9, <1>10
<1>12. RecoveryTypeOK'
  <2>1. Len(wire') <= MaxWire
    BY <1>2 DEF RecInv, RecoveryTypeOK
  <2> QED BY <1>11, <2>1 DEF PlayFrame, RecInv, RecoveryTypeOK, Decoders
<1> QED BY <1>1, <1>11, <1>12, TakeStep DEF f

\* Skipping a lost frame decodes nothing.
LEMMA SkipStep == RecInv /\ SkipLost => RecInv'
<1> SUFFICES ASSUME RecInv, SkipLost PROVE RecInv'
  OBVIOUS
<1>1. wire \in Seq(OnWire) /\ wire # <<>> /\ wire' = Tail(wire) /\ encoder' = encoder
        /\ decoder' = [decoder EXCEPT !.intact = FALSE]
  BY DEF RecInv, SkipLost
<1>2. decoder' \in [geometry : Geometries \cup {NoGeometry}, built : BOOLEAN, intact : BOOLEAN] /\ ~decoder'.intact
  BY <1>1 DEF RecInv, RecoveryTypeOK
<1>3. Len(wire') <= MaxWire
  <2>1. Len(Tail(wire)) = Len(wire) - 1
    BY <1>1, TailOf
  <2>2. Len(wire) \in Nat
    BY <1>1, LenProperties
  <2> QED BY <1>1, <2>1, <2>2, RecoveryAssumption DEF RecInv, RecoveryTypeOK
<1>4. RecoveryTypeOK'
  BY <1>2, <1>3 DEF SkipLost, RecInv, RecoveryTypeOK
<1> QED BY <1>1, <1>2, <1>4, TakeStep

\* Every step keeps it.
LEMMA RecStep == RecInv /\ [RecoveryNext]_recVars => RecInv'
<1> SUFFICES ASSUME RecInv, [RecoveryNext]_recVars PROVE RecInv'
  OBVIOUS
<1> USE RecoveryAssumption
<1>1. CASE EncoderDrops
  <2>1. /\ encoder' \in [geometry : Geometries, first : BOOLEAN, force : BOOLEAN]
        /\ encoder'.first = encoder.first /\ encoder'.geometry = encoder.geometry
    BY <1>1 DEF EncoderDrops, RecInv, RecoveryTypeOK
  <2>2. RecoveryTypeOK'
    BY <1>1, <2>1 DEF EncoderDrops, Fault, RecInv, RecoveryTypeOK
  <2> QED BY <1>1, <2>1, <2>2 DEF EncoderDrops, RecInv, KeyIsCurrent, ReferencesAreCurrent
<1>2. CASE OnRecoveryRequest
  <2>1. /\ encoder' \in [geometry : Geometries, first : BOOLEAN, force : BOOLEAN]
        /\ encoder'.first = encoder.first /\ encoder'.geometry = encoder.geometry
        /\ sinceIdr' \in 0..IDR_MIN_INTERVAL
    <3>1. /\ encoder \in [geometry : Geometries, first : BOOLEAN, force : BOOLEAN]
          /\ sinceIdr \in 0..IDR_MIN_INTERVAL
      BY DEF RecInv, RecoveryTypeOK
    <3>2. CASE sinceIdr' = 0 /\ encoder' = [encoder EXCEPT !.force = TRUE]
      <4>1. encoder' \in [geometry : Geometries, first : BOOLEAN, force : BOOLEAN]
        BY <3>1, <3>2
      <4>2. encoder'.first = encoder.first /\ encoder'.geometry = encoder.geometry
        BY <3>1, <3>2
      <4>3. sinceIdr' \in 0..IDR_MIN_INTERVAL
        BY <3>2
      <4> QED BY <4>1, <4>2, <4>3
    <3>3. CASE UNCHANGED <<sinceIdr, encoder>>
      BY <3>1, <3>3
    <3> QED BY <1>2, <3>2, <3>3 DEF OnRecoveryRequest
  <2>2. RecoveryTypeOK'
    BY <1>2, <2>1 DEF OnRecoveryRequest, RecInv, RecoveryTypeOK
  <2> QED BY <1>2, <2>1, <2>2 DEF OnRecoveryRequest, RecInv, KeyIsCurrent, ReferencesAreCurrent
<1>3. CASE ApplyTelemetry
  <2>1. PICK g \in Geometries : wanted' = g /\ rebuilds' = rebuilds + 1 /\ encoder' \in {encoder, NewEncoder(g)}
    BY <1>3 DEF ApplyTelemetry, Rebuilt
  <2>2. NewEncoder(g) \in [geometry : Geometries, first : BOOLEAN, force : BOOLEAN] /\ NewEncoder(g).first
    BY DEF NewEncoder
  <2>3. RecoveryTypeOK'
    BY <1>3, <2>1, <2>2 DEF ApplyTelemetry, RecInv, RecoveryTypeOK
  <2> QED BY <1>3, <2>1, <2>2, <2>3 DEF ApplyTelemetry, RecInv, KeyIsCurrent, ReferencesAreCurrent
<1>4. CASE TimePasses
  <2>1. RecoveryTypeOK'
    BY <1>4 DEF TimePasses, Upto, RecInv, RecoveryTypeOK
  <2> QED BY <1>4, <2>1 DEF TimePasses, RecInv, KeyIsCurrent, ReferencesAreCurrent
<1>5. CASE UNCHANGED recVars
  BY <1>5 DEF recVars, RecInv, RecoveryTypeOK, KeyIsCurrent, ReferencesAreCurrent
<1> QED BY <1>1, <1>2, <1>3, <1>4, <1>5, EncodeStep, LoseStep, PlayStep, SkipStep DEF RecoveryNext

\* A decoder that believes its references are good has those of the encoder that is
\* running, however frames were lost, encoders rebuilt and decoders reset.
THEOREM DecoderStaysCurrent == RecoverySpec => []DecoderIsCurrent
<1>1. RecInv => DecoderIsCurrent
  <2> SUFFICES ASSUME RecInv PROVE DecoderIsCurrent
    OBVIOUS
  <2>1. wire = <<>> => \A j \in DOMAIN wire : wire[j].kind = "delta"
    OBVIOUS
  <2> QED BY <2>1 DEF RecInv, DecoderIsCurrent, IntactMeansCurrent, ReferencesAreCurrent
<1> QED BY <1>1, RecInitially, RecStep, PTL DEF RecoverySpec

-----------------------------------------------------------------------------
(* The simulated link                                                     *)

\* A packet, and a set of them no two of which were sent with one number.
SimPackets == [sent : Nat, deliver : Nat, sequence : Nat]
Numbered(S) == S \in SUBSET SimPackets /\ \A p, q \in S : p.sequence = q.sequence => p = q

\* Earlier is a strict order, and total on such a set.
LEMMA EarlierOrders ==
    ASSUME NEW S, Numbered(S)
    PROVE  /\ \A p \in S : ~Earlier(p, p)
           /\ \A p, q \in S : p = q \/ Earlier(p, q) \/ Earlier(q, p)
           /\ \A p, q, r \in S : Earlier(p, q) /\ Earlier(q, r) => Earlier(p, r)
<1>1. \A p \in S : p.deliver \in Nat /\ p.sequence \in Nat
  BY DEF Numbered, SimPackets
<1>2. \A p \in S : ~Earlier(p, p)
  BY <1>1 DEF Earlier
<1>3. ASSUME NEW p \in S, NEW q \in S, p # q PROVE Earlier(p, q) \/ Earlier(q, p)
  <2>1. p.sequence # q.sequence
    BY <1>3 DEF Numbered
  <2> QED BY <1>1, <2>1 DEF Earlier
<1>4. ASSUME NEW p \in S, NEW q \in S, NEW r \in S, Earlier(p, q), Earlier(q, r) PROVE Earlier(p, r)
  BY <1>1, <1>4 DEF Earlier
<1> QED BY <1>2, <1>3, <1>4

\* The sorted sequence has each packet of the set once, the earlier ones first.
LEMMA ByTimeOf ==
    ASSUME NEW S, Numbered(S), IsFiniteSet(S)
    PROVE  /\ ByTime(S) \in Seq(SimPackets) /\ Len(ByTime(S)) = Cardinality(S)
           /\ DOMAIN ByTime(S) = 1..Cardinality(S) /\ Cardinality(S) \in Nat
           /\ \A i \in DOMAIN ByTime(S) : ByTime(S)[i] \in S
           /\ \A p \in S : \E i \in DOMAIN ByTime(S) : ByTime(S)[i] = p
           /\ \A i, j \in DOMAIN ByTime(S) : i < j => ByTime(S)[i].deliver <= ByTime(S)[j].deliver
<1> DEFINE n == Cardinality(S)
           below(p) == {q \in S : Earlier(q, p)}
           s == ByTime(S)
<1>1. n \in Nat
  BY FS_CardinalityType
<1>2. \A p \in S : below(p) \in SUBSET S /\ IsFiniteSet(below(p)) /\ Cardinality(below(p)) \in 0..(n - 1)
  <2> SUFFICES ASSUME NEW p \in S
               PROVE  below(p) \in SUBSET S /\ IsFiniteSet(below(p)) /\ Cardinality(below(p)) \in 0..(n - 1)
    OBVIOUS
  <2>1. below(p) \in SUBSET S /\ p \notin below(p)
    BY EarlierOrders
  <2>2. below(p) # S
    BY <2>1
  <2>3. IsFiniteSet(below(p)) /\ Cardinality(below(p)) <= n /\ Cardinality(below(p)) \in Nat
    BY <2>1, FS_Subset, FS_CardinalityType
  <2>4. Cardinality(below(p)) # n
    BY <2>1, <2>2, FS_Subset
  <2> HIDE DEF n, below
  <2> QED BY <1>1, <2>1, <2>3, <2>4
<1>3. \A p, q \in S : Earlier(p, q) => Cardinality(below(p)) < Cardinality(below(q))
  <2> SUFFICES ASSUME NEW p \in S, NEW q \in S, Earlier(p, q)
               PROVE  Cardinality(below(p)) < Cardinality(below(q))
    OBVIOUS
  <2>1. below(p) \in SUBSET below(q) /\ p \in below(q) /\ p \notin below(p)
    BY EarlierOrders
  <2>2. below(p) # below(q)
    BY <2>1
  <2>3. Cardinality(below(p)) <= Cardinality(below(q)) /\ Cardinality(below(p)) # Cardinality(below(q))
    <3> HIDE DEF below
    <3> QED BY <1>2, <2>1, <2>2, FS_Subset
  <2>4. Cardinality(below(p)) \in Nat /\ Cardinality(below(q)) \in Nat
    <3> HIDE DEF below, n
    <3>1. \A k \in 0..(n - 1) : k \in Nat
      BY <1>1
    <3> QED BY <1>2, <3>1
  <2> HIDE DEF below
  <2> QED BY <2>3, <2>4
<1>4. \A p, q \in S : Cardinality(below(p)) = Cardinality(below(q)) => p = q
  <2>1. \A k \in 0..(n - 1) : ~(k < k)
    BY <1>1
  <2> HIDE DEF below, n
  <2> QED BY <1>2, <1>3, <2>1, EarlierOrders
<1>5. \A i \in 1..n : \E p \in S : Cardinality(below(p)) = i - 1
  <2> DEFINE f == [p \in S |-> Cardinality(below(p)) + 1]
  <2>1. f \in [S -> 1..n] /\ \A p \in S : f[p] = Cardinality(below(p)) + 1
    <3>1. \A k \in 0..(n - 1) : k + 1 \in 1..n
      BY <1>1
    <3> HIDE DEF n, below
    <3> QED BY <1>2, <3>1
  <2>2. f \in Injection(S, 1..n)
    <3>1. \A a, b \in 0..(n - 1) : a + 1 = b + 1 => a = b
      BY <1>1
    <3>2. \A p, q \in S : f[p] = f[q] => p = q
      <4> HIDE DEF n, below, f
      <4> QED BY <1>2, <1>4, <2>1, <3>1
    <3> HIDE DEF f
    <3> QED BY <2>1, <3>2 DEF Injection, IsInjective
  <2>3. IsFiniteSet(1..n) /\ Cardinality(1..n) = n
    BY <1>1, FS_Interval
  <2> HIDE DEF f, n
  <2>4. Cardinality(S) = Cardinality(1..n)
    BY <2>3 DEF n
  <2>5. f \in Surjection(S, 1..n)
    BY <2>2, <2>3, <2>4, FS_Injection
  <2>6. ASSUME NEW i \in 1..n PROVE \E p \in S : Cardinality(below(p)) = i - 1
    <3>1. PICK p \in S : f[p] = i
      BY <2>5 DEF Surjection
    <3>2. Cardinality(below(p)) \in Int
      <4>1. \A k \in 0..(n - 1) : k \in Int
        BY <1>1
      <4> HIDE DEF below
      <4> QED BY <1>2, <4>1
    <3> HIDE DEF below
    <3> QED BY <1>1, <2>1, <3>1, <3>2
  <2> QED BY <2>6
<1>6. s = [i \in 1..n |-> CHOOSE p \in S : Cardinality(below(p)) = i - 1]
  BY DEF ByTime
<1>7. \A i \in 1..n : s[i] \in S /\ Cardinality(below(s[i])) = i - 1
  <2> HIDE DEF below, n, s
  <2> QED BY <1>5, <1>6
<1>8. s \in Seq(SimPackets) /\ Len(s) = n /\ DOMAIN s = 1..n
  <2>1. S \in SUBSET SimPackets
    BY DEF Numbered
  <2>2. s \in [1..n -> SimPackets]
    <3> HIDE DEF below, n, SimPackets
    <3>1. DOMAIN s = 1..n /\ s = [i \in 1..n |-> s[i]]
      BY <1>6
    <3> HIDE DEF s
    <3> QED BY <1>7, <2>1, <3>1
  <2> HIDE DEF n, s
  <2>3. s \in Seq(SimPackets)
    BY <1>1, <2>2, SeqDef
  <2> QED BY <1>1, <2>2, <2>3, LenProperties
<1>9. \A p \in S : \E i \in 1..n : s[i] = p
  <2> SUFFICES ASSUME NEW p \in S PROVE \E i \in 1..n : s[i] = p
    OBVIOUS
  <2> DEFINE i == Cardinality(below(p)) + 1
  <2>1. Cardinality(below(p)) \in 0..(n - 1)
    BY <1>2
  <2>2. i \in 1..n /\ i - 1 = Cardinality(below(p))
    <3> HIDE DEF below, n
    <3> QED BY <1>1, <2>1
  <2>3. s[i] \in S /\ Cardinality(below(s[i])) = i - 1
    <3> HIDE DEF below, n, s, i
    <3> QED BY <1>7, <2>2
  <2>4. s[i] = p
    <3> HIDE DEF below, n, s, i
    <3> QED BY <1>4, <2>2, <2>3
  <2> HIDE DEF i, s, n
  <2> QED BY <2>2, <2>4
<1>10. \A i, j \in 1..n : i < j => s[i].deliver <= s[j].deliver
  <2> SUFFICES ASSUME NEW i \in 1..n, NEW j \in 1..n, i < j PROVE s[i].deliver <= s[j].deliver
    OBVIOUS
  <2>1. s[i] \in S /\ s[j] \in S /\ Cardinality(below(s[i])) = i - 1 /\ Cardinality(below(s[j])) = j - 1
    <3> HIDE DEF below, n, s
    <3> QED BY <1>7
  <2> HIDE DEF s
  <2>2. ~Earlier(s[j], s[i]) /\ s[i].deliver \in Nat /\ s[j].deliver \in Nat
    <3>1. Earlier(s[j], s[i]) => j - 1 < i - 1
      <4> HIDE DEF below
      <4> QED BY <1>3, <2>1
    <3>2. ~(j - 1 < i - 1)
      BY <1>1
    <3>3. s[i] \in SimPackets /\ s[j] \in SimPackets
      BY <2>1 DEF Numbered
    <3> QED BY <3>1, <3>2, <3>3 DEF SimPackets
  <2> QED BY <2>2 DEF Earlier
<1> HIDE DEF s, n
<1> QED BY <1>1, <1>7, <1>8, <1>9, <1>10 DEF s, n

\* The positions of what came after a packet that was sent later.
Overtook(out) == {i \in DOMAIN out : \E j \in 1..(i - 1) : out[j].sequence > out[i].sequence}

\* The inductive invariant: the packets in flight are numbered, and come no earlier than
\* what was collected; the link remembers the highest number it delivered.
SimInv ==
    /\ simNow \in Nat /\ queueBytes \in Nat /\ drainsAt \in Nat /\ lastDelivered \in Int
    /\ stats \in [sent : Nat, delivered : Nat, lost : Nat, overflowed : Nat, reordered : Nat]
    /\ Numbered(inFlight) /\ IsFiniteSet(inFlight)
    /\ \A p \in inFlight : p.sequence < stats.sent
    /\ collected \in Seq(SimPackets)
    /\ \A i \in DOMAIN collected :
         /\ collected[i].deliver <= simNow /\ collected[i].sequence <= lastDelivered
         /\ \A p \in inFlight : collected[i].deliver <= p.deliver
    /\ lastDelivered = Unseen \/ \E i \in DOMAIN collected : collected[i].sequence = lastDelivered
    /\ LinkIsHonest

\* It holds at the start.
LEMMA SimInitially == SimInit => SimInv
<1> SUFFICES ASSUME SimInit PROVE SimInv
  OBVIOUS
<1> USE DEF SimInit
<1>1. /\ simNow \in Nat /\ queueBytes \in Nat /\ drainsAt \in Nat /\ lastDelivered \in Int
      /\ stats \in [sent : Nat, delivered : Nat, lost : Nat, overflowed : Nat, reordered : Nat]
      /\ lastDelivered = Unseen
  BY DEF Unseen
<1>2. IsFiniteSet(inFlight) /\ Cardinality(inFlight) = 0
  BY FS_EmptySet
<1>3. Numbered(inFlight) /\ \A p \in inFlight : p.sequence < stats.sent
  BY DEF Numbered
<1>4. collected \in Seq(SimPackets) /\ Len(collected) = 0 /\ DOMAIN collected = {}
  OBVIOUS
<1>5. PacketsConserved
  <2>1. stats.sent = 0 /\ stats.lost = 0 /\ stats.overflowed = 0 /\ stats.delivered = 0
    OBVIOUS
  <2> QED BY <1>2, <1>4, <2>1 DEF PacketsConserved
<1>6. DeliveredByTime
  BY <1>4 DEF DeliveredByTime
<1>7. ReorderingSeen
  <2> DEFINE late == {i \in DOMAIN collected :
                        \E j \in 1..(i - 1) : collected[j].sequence > collected[i].sequence}
  <2>1. late = {}
    BY <1>4
  <2>2. Cardinality(late) = 0
    <3> HIDE DEF late
    <3> QED BY <2>1, FS_EmptySet
  <2>3. stats.reordered = 0
    OBVIOUS
  <2> QED BY <2>2, <2>3 DEF ReorderingSeen
<1> QED BY <1>1, <1>2, <1>3, <1>4, <1>5, <1>6, <1>7 DEF SimInv, LinkIsHonest

\* A packet that is refused or lost is counted, and nothing else happens to the link.
LEMMA DropStep ==
    ASSUME SimInv, UNCHANGED <<simNow, inFlight, lastDelivered, collected>>,
           queueBytes' \in Nat, drainsAt' \in Nat,
           \/ stats' = [stats EXCEPT !.sent = @ + 1, !.overflowed = @ + 1]
           \/ stats' = [stats EXCEPT !.sent = @ + 1, !.lost = @ + 1]
    PROVE  SimInv'
<1>1. stats \in [sent : Nat, delivered : Nat, lost : Nat, overflowed : Nat, reordered : Nat]
  BY DEF SimInv
<1>2. /\ stats' \in [sent : Nat, delivered : Nat, lost : Nat, overflowed : Nat, reordered : Nat]
      /\ stats'.sent = stats.sent + 1 /\ stats'.delivered = stats.delivered
      /\ stats'.lost + stats'.overflowed = stats.lost + stats.overflowed + 1
      /\ stats'.reordered = stats.reordered
  <2>1. CASE stats' = [stats EXCEPT !.sent = @ + 1, !.overflowed = @ + 1]
    <3>1. stats' = [sent |-> stats.sent + 1, delivered |-> stats.delivered, lost |-> stats.lost,
                    overflowed |-> stats.overflowed + 1, reordered |-> stats.reordered]
      BY <1>1, <2>1
    <3> QED BY <1>1, <3>1
  <2>2. CASE stats' = [stats EXCEPT !.sent = @ + 1, !.lost = @ + 1]
    <3>1. stats' = [sent |-> stats.sent + 1, delivered |-> stats.delivered, lost |-> stats.lost + 1,
                    overflowed |-> stats.overflowed, reordered |-> stats.reordered]
      BY <1>1, <2>2
    <3> QED BY <1>1, <3>1
  <2> QED BY <2>1, <2>2
<1>3. \A p \in inFlight' : p.sequence < stats'.sent
  <2>1. \A p \in inFlight : p.sequence \in Nat /\ p.sequence < stats.sent
    BY DEF SimInv, Numbered, SimPackets
  <2> QED BY <1>1, <1>2, <2>1
<1>4. PacketsConserved'
  <2>1. stats.sent = stats.lost + stats.overflowed + stats.delivered
        /\ stats.delivered = Cardinality(inFlight) + Len(collected)
    BY DEF SimInv, LinkIsHonest, PacketsConserved
  <2>2. stats'.sent = stats'.lost + stats'.overflowed + stats'.delivered
    BY <1>1, <1>2, <2>1
  <2> QED BY <1>2, <2>1, <2>2 DEF PacketsConserved
<1>5. ReorderingSeen' /\ DeliveredByTime'
  BY <1>2 DEF SimInv, LinkIsHonest, ReorderingSeen, DeliveredByTime
<1> QED BY <1>2, <1>3, <1>4, <1>5 DEF SimInv, LinkIsHonest

\* The bottleneck's state stays a pair of numbers, and its end is not before now.
LEMMA DrainedOf ==
    ASSUME SimInv
    PROVE  Drained.bytes \in Nat /\ Drained.at \in Nat /\ LaterOf(simNow, Drained.at) \in Nat
           /\ LaterOf(simNow, Drained.at) >= simNow
<1>1. simNow \in Nat /\ queueBytes \in Nat /\ drainsAt \in Nat
  BY DEF SimInv
<1>2. Drained.bytes \in Nat /\ Drained.at \in Nat
  BY <1>1 DEF Drained
<1> QED BY <1>1, <1>2 DEF LaterOf

\* A packet that is queued arrives later than now, and so after all that was collected.
LEMMA QueuedStep ==
    ASSUME SimInv, NEW size \in Sizes, NEW extra \in Jitters, NEW reorder \in BOOLEAN,
           Queued(size, extra, reorder)
    PROVE  SimInv'
<1> DEFINE clockedOut == LaterOf(simNow, Drained.at) + (size * 8 * 1000) \div BANDWIDTH_BPS
           natural == clockedOut + AtLeast1(BASE_DELAY + extra)
           times == {p.deliver : p \in inFlight}
           deliver == IF reorder /\ inFlight # {} THEN PulledForward(Min(times)) ELSE natural
           packet == [sent |-> simNow, deliver |-> deliver, sequence |-> stats.sent]
<1>1. /\ drainsAt' = clockedOut /\ queueBytes' = Drained.bytes + size
      /\ inFlight' = inFlight \cup {packet}
      /\ stats' = [stats EXCEPT !.sent = @ + 1, !.delivered = @ + 1]
      /\ UNCHANGED <<simNow, lastDelivered, collected>>
  BY DEF Queued
<1>2. simNow \in Nat /\ stats \in [sent : Nat, delivered : Nat, lost : Nat, overflowed : Nat, reordered : Nat]
  BY DEF SimInv
<1>3. clockedOut \in Nat /\ clockedOut >= simNow
  <2> DEFINE bits == size * 8 * 1000
             more == bits \div BANDWIDTH_BPS
             base == LaterOf(simNow, Drained.at)
  <2>1. size \in Nat /\ BANDWIDTH_BPS \in Nat \ {0}
    BY NetSimAssumption
  <2>2. bits \in Nat
    BY <2>1
  <2> HIDE DEF bits
  <2>3. more \in Nat
    BY <2>1, <2>2
  <2> HIDE DEF more
  <2>4. base \in Nat /\ base >= simNow
    BY DrainedOf
  <2> HIDE DEF base
  <2>5. base + more \in Nat /\ base + more >= simNow
    BY <1>2, <2>3, <2>4
  <2> QED BY <2>5 DEF base, more, bits
<1> HIDE DEF clockedOut
<1>4. natural \in Nat /\ natural >= simNow + 1
  <2>1. AtLeast1(BASE_DELAY + extra) \in Nat /\ AtLeast1(BASE_DELAY + extra) >= 1
    <3>1. BASE_DELAY + extra \in Int
      BY NetSimAssumption
    <3> QED BY <3>1 DEF AtLeast1
  <2> QED BY <1>2, <1>3, <2>1
<1> HIDE DEF natural
<1>5. inFlight # {} => Min(times) \in Nat
  <2> SUFFICES ASSUME inFlight # {} PROVE Min(times) \in Nat
    OBVIOUS
  <2>1. times \in SUBSET Nat
    BY DEF SimInv, Numbered, SimPackets
  <2>2. IsFiniteSet(times)
    <3> DEFINE f == [p \in inFlight |-> p.deliver]
    <3>1. f \in Surjection(inFlight, times)
      BY DEF Surjection
    <3>2. IsFiniteSet(inFlight)
      BY DEF SimInv
    <3> HIDE DEF f, times
    <3> QED BY <3>1, <3>2, FS_Surjection
  <2>3. times # {}
    OBVIOUS
  <2>4. times \in SUBSET Int
    <3> HIDE DEF times
    <3> QED BY <2>1
  <2> HIDE DEF times
  <2>5. Min(times) \in times
    BY <2>2, <2>3, <2>4, LeastAndGreatest
  <2> QED BY <2>1, <2>5
<1> HIDE DEF times
<1>6. deliver \in Nat /\ deliver >= simNow + 1
  <2>1. ASSUME NEW k \in Nat PROVE PulledForward(k) \in Nat /\ PulledForward(k) >= simNow + 1
    BY <1>2 DEF PulledForward, LaterOf
  <2> QED BY <1>4, <1>5, <2>1
<1> HIDE DEF deliver
<1>7. packet \in SimPackets /\ packet.deliver = deliver /\ packet.sequence = stats.sent /\ stats.sent \in Nat
  BY <1>2, <1>6 DEF SimPackets
<1> HIDE DEF packet
<1>8. /\ stats' \in [sent : Nat, delivered : Nat, lost : Nat, overflowed : Nat, reordered : Nat]
      /\ stats'.sent = stats.sent + 1 /\ stats'.delivered = stats.delivered + 1
      /\ stats'.lost = stats.lost /\ stats'.overflowed = stats.overflowed
      /\ stats'.reordered = stats.reordered
  <2>1. stats' = [sent |-> stats.sent + 1, delivered |-> stats.delivered + 1, lost |-> stats.lost,
                  overflowed |-> stats.overflowed, reordered |-> stats.reordered]
    BY <1>1, <1>2
  <2> QED BY <1>2, <2>1
<1>9. \A p \in inFlight : p.sequence \in Nat /\ p.sequence < stats.sent
  BY DEF SimInv, Numbered, SimPackets
<1>10. packet \notin inFlight
  <2>1. \A k \in Nat : ~(k < k)
    OBVIOUS
  <2> QED BY <1>7, <1>9, <2>1
<1>11. Numbered(inFlight') /\ \A p \in inFlight' : p.sequence < stats'.sent
  <2>1. inFlight' \in SUBSET SimPackets
    BY <1>1, <1>7 DEF SimInv, Numbered
  <2>2. ASSUME NEW p \in inFlight', NEW q \in inFlight', p.sequence = q.sequence PROVE p = q
    <3>1. \A k \in inFlight : k.sequence # stats.sent
      BY <1>7, <1>9
    <3> QED BY <1>1, <1>7, <2>2, <3>1 DEF SimInv, Numbered
  <2>3. ASSUME NEW p \in inFlight' PROVE p.sequence < stats'.sent
    BY <1>1, <1>7, <1>8, <1>9
  <2> QED BY <2>1, <2>2, <2>3 DEF Numbered
<1>12. IsFiniteSet(inFlight') /\ Cardinality(inFlight') = Cardinality(inFlight) + 1 /\ Cardinality(inFlight) \in Nat
  <2>1. IsFiniteSet(inFlight)
    BY DEF SimInv
  <2> QED BY <1>1, <1>10, <2>1, FS_AddElement, FS_CardinalityType
<1>13. \A i \in DOMAIN collected : \A p \in inFlight' : collected[i].deliver <= p.deliver
  <2> SUFFICES ASSUME NEW i \in DOMAIN collected, NEW p \in inFlight' PROVE collected[i].deliver <= p.deliver
    OBVIOUS
  <2>1. CASE p \in inFlight
    BY <2>1 DEF SimInv
  <2>2. CASE p = packet
    <3>1. collected[i].deliver <= simNow
      BY DEF SimInv
    <3>2. collected[i].deliver \in Nat
      <4>1. collected \in Seq(SimPackets)
        BY DEF SimInv
      <4>2. collected[i] \in SimPackets
        BY <4>1, ElementOfSeq, LenProperties
      <4> QED BY <4>2 DEF SimPackets
    <3> QED BY <1>2, <1>6, <1>7, <2>2, <3>1, <3>2
  <2> QED BY <1>1, <2>1, <2>2
<1>14. PacketsConserved'
  <2>1. stats.sent = stats.lost + stats.overflowed + stats.delivered
        /\ stats.delivered = Cardinality(inFlight) + Len(collected) /\ Len(collected) \in Nat
    BY LenProperties DEF SimInv, LinkIsHonest, PacketsConserved
  <2>2. stats'.sent = stats'.lost + stats'.overflowed + stats'.delivered
    BY <1>2, <1>8, <2>1
  <2>3. stats'.delivered = Cardinality(inFlight') + Len(collected')
    BY <1>1, <1>8, <1>12, <2>1
  <2> QED BY <2>2, <2>3 DEF PacketsConserved
<1>15. ReorderingSeen' /\ DeliveredByTime'
  BY <1>1, <1>8 DEF SimInv, LinkIsHonest, ReorderingSeen, DeliveredByTime
<1>16. drainsAt' \in Nat /\ queueBytes' \in Nat
  <2>1. size \in Nat
    BY NetSimAssumption
  <2> QED BY <1>1, <1>3, <2>1, DrainedOf
<1> QED BY <1>1, <1>8, <1>11, <1>12, <1>13, <1>14, <1>15, <1>16 DEF SimInv, LinkIsHonest

\* What is collected comes after what was, in the order of the deliveries.
LEMMA CollectStep ==
    ASSUME SimInv, Collect
    PROVE  SimInv'
<1> DEFINE D == {p \in inFlight : p.deliver <= simNow}
           R == {p \in inFlight : p.deliver > simNow}
           due == ByTime(D)
           seen == {due[i].sequence : i \in DOMAIN due}
           out == collected \o due
           late == Overtook(collected)
           n == Len(collected)
<1>1. /\ inFlight' = R
      /\ stats' = [stats EXCEPT !.reordered = @ + Cardinality(Overtaken(due))]
      /\ lastDelivered' = Max(seen \cup {lastDelivered})
      /\ collected' = out
      /\ UNCHANGED <<simNow, queueBytes, drainsAt, inBadState>>
  BY DEF Collect
<1>2. /\ simNow \in Nat /\ lastDelivered \in Int
      /\ stats \in [sent : Nat, delivered : Nat, lost : Nat, overflowed : Nat, reordered : Nat]
      /\ Numbered(inFlight) /\ IsFiniteSet(inFlight) /\ collected \in Seq(SimPackets)
      /\ n \in Nat /\ DOMAIN collected = 1..n
  BY LenProperties DEF SimInv
<1>3. /\ Numbered(D) /\ IsFiniteSet(D) /\ Numbered(R) /\ IsFiniteSet(R)
      /\ Cardinality(inFlight) = Cardinality(D) + Cardinality(R)
      /\ Cardinality(D) \in Nat /\ Cardinality(R) \in Nat
  <2>1. D \in SUBSET inFlight /\ R \in SUBSET inFlight
    OBVIOUS
  <2>2. IsFiniteSet(D) /\ IsFiniteSet(R)
    <3> HIDE DEF D, R
    <3> QED BY <1>2, <2>1, FS_Subset
  <2>3. R = inFlight \ D
    <3>1. \A p \in inFlight : p.deliver \in Nat
      BY <1>2 DEF Numbered, SimPackets
    <3>2. \A p \in inFlight : p.deliver > simNow <=> ~(p.deliver <= simNow)
      BY <1>2, <3>1
    <3> QED BY <3>2
  <2>4. D \cap R = {} /\ D \cup R = inFlight
    <3> HIDE DEF D, R
    <3> QED BY <2>1, <2>3
  <2>5. Numbered(D) /\ Numbered(R)
    BY <1>2 DEF Numbered
  <2> HIDE DEF D, R
  <2>6. Cardinality(D) \in Nat /\ Cardinality(R) \in Nat
    BY <2>2, FS_CardinalityType
  <2>7. Cardinality(inFlight) = Cardinality(D) + Cardinality(R) - Cardinality(D \cap R)
    BY <2>2, <2>4, FS_Union
  <2>8. Cardinality(D \cap R) = 0
    BY <2>4, FS_EmptySet
  <2> QED BY <2>2, <2>5, <2>6, <2>7, <2>8
<1>4. /\ due \in Seq(SimPackets) /\ Len(due) = Cardinality(D) /\ DOMAIN due = 1..Len(due) /\ Len(due) \in Nat
      /\ \A i \in DOMAIN due : due[i] \in D
      /\ \A i, j \in DOMAIN due : i < j => due[i].deliver <= due[j].deliver
  <2> HIDE DEF D
  <2> QED BY <1>3, ByTimeOf
<1>5. \A i \in DOMAIN due : due[i] \in inFlight /\ due[i].deliver <= simNow /\ due[i].sequence \in Nat
                              /\ due[i].deliver \in Nat
  <2>1. \A i \in DOMAIN due : due[i] \in inFlight /\ due[i].deliver <= simNow
    BY <1>4
  <2> HIDE DEF due
  <2> QED BY <1>2, <2>1 DEF Numbered, SimPackets
<1> HIDE DEF due
<1>6. \A i \in DOMAIN collected : collected[i].sequence \in Nat /\ collected[i].deliver \in Nat
  <2>1. \A i \in DOMAIN collected : collected[i] \in SimPackets
    BY <1>2, ElementOfSeq
  <2> QED BY <2>1 DEF SimPackets
<1>7. /\ out \in Seq(SimPackets) /\ Len(out) = n + Len(due) /\ DOMAIN out = 1..(n + Len(due))
      /\ \A i \in 1..n : out[i] = collected[i]
      /\ \A k \in 1..Len(due) : n + k \in DOMAIN out /\ out[n + k] = due[k]
      /\ \A i \in DOMAIN out : i \in 1..n \/ \E k \in 1..Len(due) : i = n + k
  <2>1. out \in Seq(SimPackets) /\ Len(out) = n + Len(due)
        /\ \A i \in 1..(n + Len(due)) : out[i] = IF i <= n THEN collected[i] ELSE due[i - n]
    BY <1>2, <1>4, ConcatProperties
  <2> HIDE DEF out
  <2>2. DOMAIN out = 1..(n + Len(due))
    BY <2>1, LenProperties
  <2> HIDE DEF n
  <2>3. \A i \in 1..n : i \in 1..(n + Len(due)) /\ i <= n
    BY <1>2, <1>4
  <2>4. \A k \in 1..Len(due) : n + k \in 1..(n + Len(due)) /\ ~(n + k <= n) /\ (n + k) - n = k
    BY <1>2, <1>4
  <2>5. ASSUME NEW i \in 1..(n + Len(due)) PROVE i \in 1..n \/ \E k \in 1..Len(due) : i = n + k
    <3>1. CASE i <= n
      BY <1>2, <3>1
    <3>2. CASE ~(i <= n)
      <4>1. i - n \in 1..Len(due) /\ i = n + (i - n)
        BY <1>2, <1>4, <3>2
      <4> QED BY <4>1
    <3> QED BY <3>1, <3>2
  <2> QED BY <2>1, <2>2, <2>3, <2>4, <2>5
<1> HIDE DEF out
<1>8. /\ lastDelivered' \in Int /\ lastDelivered <= lastDelivered'
      /\ \A i \in DOMAIN due : due[i].sequence <= lastDelivered'
      /\ lastDelivered' = lastDelivered \/ \E i \in DOMAIN due : due[i].sequence = lastDelivered'
  <2> DEFINE S == seen \cup {lastDelivered}
  <2>1. S \in SUBSET Int
    BY <1>2, <1>5
  <2>2. IsFiniteSet(S)
    <3> DEFINE f == [i \in DOMAIN due |-> due[i].sequence]
    <3>1. f \in Surjection(DOMAIN due, seen)
      BY DEF Surjection
    <3>2. IsFiniteSet(DOMAIN due)
      <4>1. DOMAIN due = 1..Len(due) /\ Len(due) \in Int
        BY <1>4
      <4> QED BY <4>1, FS_Interval
    <3> HIDE DEF f, seen
    <3>3. IsFiniteSet(seen)
      BY <3>1, <3>2, FS_Surjection
    <3> QED BY <3>3, FS_AddElement
  <2>3. S # {}
    OBVIOUS
  <2>4. Max(S) \in S /\ \A y \in S : y <= Max(S)
    <3> HIDE DEF S
    <3> QED BY <2>1, <2>2, <2>3, LeastAndGreatest
  <2>5. lastDelivered' = Max(S)
    BY <1>1
  <2>6. lastDelivered' \in S /\ \A y \in S : y <= lastDelivered'
    <3> HIDE DEF S
    <3> QED BY <2>4, <2>5
  <2> QED BY <2>1, <2>6
<1>9. /\ stats' \in [sent : Nat, delivered : Nat, lost : Nat, overflowed : Nat, reordered : Nat]
      /\ stats'.sent = stats.sent /\ stats'.delivered = stats.delivered
      /\ stats'.lost = stats.lost /\ stats'.overflowed = stats.overflowed
      /\ stats'.reordered = stats.reordered + Cardinality(Overtaken(due))
      /\ IsFiniteSet(Overtaken(due)) /\ Cardinality(Overtaken(due)) \in Nat
  <2> DEFINE c == Cardinality(Overtaken(due))
  <2>1. IsFiniteSet(Overtaken(due)) /\ c \in Nat
    <3>1. Overtaken(due) \in SUBSET (1..Len(due))
      BY <1>4 DEF Overtaken
    <3>2. IsFiniteSet(1..Len(due))
      <4>1. Len(due) \in Int
        BY <1>4
      <4> QED BY <4>1, FS_Interval
    <3>3. IsFiniteSet(Overtaken(due))
      BY <3>1, <3>2, FS_Subset
    <3> QED BY <3>3, FS_CardinalityType
  <2>2. stats' = [stats EXCEPT !.reordered = @ + c]
    BY <1>1
  <2> HIDE DEF c
  <2>3. stats' = [sent |-> stats.sent, delivered |-> stats.delivered, lost |-> stats.lost,
                  overflowed |-> stats.overflowed, reordered |-> stats.reordered + c]
    BY <1>2, <2>2
  <2>4. /\ stats' \in [sent : Nat, delivered : Nat, lost : Nat, overflowed : Nat, reordered : Nat]
        /\ stats'.sent = stats.sent /\ stats'.delivered = stats.delivered
        /\ stats'.lost = stats.lost /\ stats'.overflowed = stats.overflowed
        /\ stats'.reordered = stats.reordered + c
    BY <1>2, <2>1, <2>3
  <2> QED BY <2>1, <2>4 DEF c
<1>10. ASSUME NEW i \in DOMAIN out
       PROVE  /\ out[i].deliver <= simNow /\ out[i].sequence <= lastDelivered'
              /\ \A p \in R : out[i].deliver <= p.deliver
  <2>1. CASE i \in 1..n
    <3>1. out[i] = collected[i] /\ i \in DOMAIN collected
      BY <1>2, <1>7, <2>1
    <3>2. collected[i].deliver <= simNow /\ collected[i].sequence <= lastDelivered
          /\ \A p \in inFlight : collected[i].deliver <= p.deliver
      BY <3>1 DEF SimInv
    <3>3. collected[i].sequence <= lastDelivered'
      BY <1>2, <1>6, <1>8, <3>1, <3>2
    <3> QED BY <3>1, <3>2, <3>3
  <2>2. CASE \E k \in 1..Len(due) : i = n + k
    <3>1. PICK k \in 1..Len(due) : i = n + k
      BY <2>2
    <3>2. out[i] = due[k] /\ k \in DOMAIN due
      BY <1>4, <1>7, <3>1
    <3>3. due[k].deliver <= simNow /\ due[k].sequence <= lastDelivered' /\ due[k].deliver \in Nat
      BY <1>5, <1>8, <3>2
    <3>4. ASSUME NEW p \in R PROVE due[k].deliver <= p.deliver
      <4>1. p.deliver \in Nat /\ p.deliver > simNow
        BY <1>2 DEF Numbered, SimPackets
      <4> QED BY <1>2, <3>3, <4>1
    <3> QED BY <3>2, <3>3, <3>4
  <2> QED BY <1>7, <2>1, <2>2
<1>11. lastDelivered' = Unseen \/ \E i \in DOMAIN out : out[i].sequence = lastDelivered'
  <2>1. CASE lastDelivered' = lastDelivered
    <3>1. lastDelivered = Unseen \/ \E i \in DOMAIN collected : collected[i].sequence = lastDelivered
      BY DEF SimInv
    <3>2. \A i \in DOMAIN collected : i \in DOMAIN out /\ out[i] = collected[i]
      BY <1>2, <1>4, <1>7
    <3> QED BY <2>1, <3>1, <3>2
  <2>2. CASE \E i \in DOMAIN due : due[i].sequence = lastDelivered'
    <3>1. PICK k \in DOMAIN due : due[k].sequence = lastDelivered'
      BY <2>2
    <3>2. n + k \in DOMAIN out /\ out[n + k] = due[k]
      BY <1>4, <1>7
    <3> QED BY <3>1, <3>2
  <2> QED BY <1>8, <2>1, <2>2
<1>12. PacketsConserved'
  <2>1. stats.sent = stats.lost + stats.overflowed + stats.delivered
        /\ stats.delivered = Cardinality(inFlight) + n
    BY DEF SimInv, LinkIsHonest, PacketsConserved
  <2>2. stats'.delivered = Cardinality(R) + Len(out)
    <3> HIDE DEF R, D, n
    <3> QED BY <1>2, <1>3, <1>4, <1>7, <1>9, <2>1
  <2> HIDE DEF R
  <2> QED BY <1>1, <1>9, <2>1, <2>2 DEF PacketsConserved
<1>13. DeliveredByTime'
  <2> SUFFICES ASSUME NEW i \in DOMAIN out, NEW j \in DOMAIN out, i < j
               PROVE  out[i].deliver <= out[j].deliver
    BY <1>1 DEF DeliveredByTime
  <2>1. CASE i \in 1..n /\ j \in 1..n
    BY <1>2, <1>7, <2>1 DEF SimInv, LinkIsHonest, DeliveredByTime
  <2>2. CASE i \in 1..n /\ \E k \in 1..Len(due) : j = n + k
    <3>1. PICK k \in 1..Len(due) : j = n + k
      BY <2>2
    <3>2. out[i] = collected[i] /\ out[j] = due[k] /\ due[k] \in inFlight
      BY <1>4, <1>5, <1>7, <2>2, <3>1
    <3> QED BY <1>2, <2>2, <3>2 DEF SimInv
  <2>3. CASE \E m \in 1..Len(due) : i = n + m
    <3>1. PICK m \in 1..Len(due) : i = n + m
      BY <2>3
    <3>2. PICK k \in 1..Len(due) : j = n + k
      <4>1. j \notin 1..n
        BY <1>2, <1>4, <3>1
      <4> QED BY <1>7, <4>1
    <3>3. m < k
      BY <1>2, <1>4, <3>1, <3>2
    <3>4. out[i] = due[m] /\ out[j] = due[k] /\ m \in DOMAIN due /\ k \in DOMAIN due
      BY <1>4, <1>7, <3>1, <3>2
    <3> QED BY <1>4, <3>3, <3>4
  <2> QED BY <1>7, <2>1, <2>2, <2>3
<1>14. ReorderingSeen'
  <2> DEFINE new == {n + k : k \in Overtaken(due)}
  <2>1. Overtook(out) = late \cup new
    <3>1. ASSUME NEW i \in 1..n PROVE i \in Overtook(out) <=> i \in late
      <4>1. i \in DOMAIN out /\ i \in DOMAIN collected
        BY <1>2, <1>4, <1>7
      <4>2. \A j \in 1..(i - 1) : j \in 1..n
        BY <1>2
      <4> QED BY <1>7, <4>1, <4>2 DEF Overtook
    <3>2. ASSUME NEW k \in 1..Len(due) PROVE n + k \in Overtook(out) <=> k \in Overtaken(due)
      <4>1. n + k \in DOMAIN out /\ out[n + k] = due[k] /\ k \in DOMAIN due
        BY <1>4, <1>7
      <4>2. ASSUME NEW j \in 1..(n + k - 1), out[j].sequence > due[k].sequence PROVE k \in Overtaken(due)
        <5>1. j \in DOMAIN out
          BY <1>2, <1>4, <1>7
        <5>2. CASE j \in 1..n
          <6>1. out[j] = collected[j] /\ j \in DOMAIN collected
            BY <1>2, <1>7, <5>2
          <6>2. collected[j].sequence <= lastDelivered
            BY <6>1 DEF SimInv
          <6>3. due[k].sequence < lastDelivered
            BY <1>2, <1>5, <1>6, <4>1, <4>2, <6>1, <6>2
          <6> QED BY <4>1, <6>3 DEF Overtaken
        <5>3. CASE \E m \in 1..Len(due) : j = n + m
          <6>1. PICK m \in 1..Len(due) : j = n + m
            BY <5>3
          <6>2. m \in 1..(k - 1) /\ out[j] = due[m] /\ m \in DOMAIN due
            BY <1>2, <1>4, <1>7, <6>1
          <6>3. due[k].sequence < due[m].sequence
            BY <1>5, <4>1, <4>2, <6>2
          <6> QED BY <4>1, <6>2, <6>3 DEF Overtaken
        <5> QED BY <1>7, <5>1, <5>2, <5>3
      <4>3. ASSUME k \in Overtaken(due)
            PROVE  \E j \in 1..(n + k - 1) : out[j].sequence > due[k].sequence
        <5>1. CASE due[k].sequence < lastDelivered
          <6>1. lastDelivered # Unseen
            BY <1>2, <1>5, <4>1, <5>1 DEF Unseen
          <6>2. PICK j \in DOMAIN collected : collected[j].sequence = lastDelivered
            BY <6>1 DEF SimInv
          <6>3. j \in 1..(n + k - 1) /\ out[j] = collected[j]
            BY <1>2, <1>4, <1>7
          <6>4. collected[j].sequence > due[k].sequence
            BY <1>2, <1>5, <4>1, <5>1, <6>2
          <6> QED BY <6>3, <6>4
        <5>2. CASE \E m \in 1..(k - 1) : due[k].sequence < due[m].sequence
          <6>1. PICK m \in 1..(k - 1) : due[k].sequence < due[m].sequence
            BY <5>2
          <6>2. m \in 1..Len(due) /\ n + m \in 1..(n + k - 1)
            BY <1>2, <1>4
          <6>3. out[n + m] = due[m] /\ due[m].sequence \in Nat /\ due[k].sequence \in Nat
            BY <1>4, <1>5, <1>7, <4>1, <6>2
          <6>4. out[n + m].sequence > due[k].sequence
            BY <6>1, <6>3
          <6> QED BY <6>2, <6>4
        <5> QED BY <4>3, <5>1, <5>2 DEF Overtaken
      <4> QED BY <4>1, <4>2, <4>3 DEF Overtook
    <3>3. late \in SUBSET (1..n)
      BY <1>2 DEF Overtook
    <3>4. Overtaken(due) \in SUBSET (1..Len(due)) /\ Overtook(out) \in SUBSET (DOMAIN out)
      BY <1>4 DEF Overtaken, Overtook
    <3> HIDE DEF late, n
    <3>5. ASSUME NEW i \in Overtook(out) PROVE i \in late \cup new
      <4>1. i \in 1..n \/ \E k \in 1..Len(due) : i = n + k
        BY <1>7, <3>4
      <4> QED BY <3>1, <3>2, <3>5, <4>1
    <3>6. ASSUME NEW i \in late PROVE i \in Overtook(out)
      BY <3>1, <3>3
    <3>7. ASSUME NEW i \in new PROVE i \in Overtook(out)
      BY <3>2, <3>4
    <3> QED BY <3>5, <3>6, <3>7
  <2>2. IsFiniteSet(late) /\ Cardinality(late) \in Nat /\ late \in SUBSET (1..n)
    <3>1. late \in SUBSET (1..n)
      BY <1>2 DEF Overtook
    <3>2. IsFiniteSet(1..n)
      <4>1. n \in Int
        BY <1>2
      <4> QED BY <4>1, FS_Interval
    <3> HIDE DEF late
    <3> QED BY <3>1, <3>2, FS_Subset, FS_CardinalityType
  <2>3. IsFiniteSet(new) /\ Cardinality(new) = Cardinality(Overtaken(due))
    <3> DEFINE f == [k \in Overtaken(due) |-> n + k]
    <3>1. Overtaken(due) \in SUBSET Nat
      BY <1>4 DEF Overtaken
    <3>2. f \in Surjection(Overtaken(due), new)
      BY DEF Surjection
    <3>3. f \in Injection(Overtaken(due), new)
      <4>1. \A a, b \in Nat : n + a = n + b => a = b
        BY <1>2
      <4>2. f \in [Overtaken(due) -> new] /\ \A k \in Overtaken(due) : f[k] = n + k
        OBVIOUS
      <4>3. \A a, b \in Overtaken(due) : f[a] = f[b] => a = b
        <5> HIDE DEF f, new, n
        <5> QED BY <3>1, <4>1, <4>2
      <4> HIDE DEF f, new
      <4> QED BY <4>2, <4>3 DEF Injection, IsInjective
    <3> HIDE DEF f, new
    <3> QED BY <1>9, <3>2, <3>3, FS_Surjection
  <2>4. late \cap new = {}
    <3>1. \A k \in 1..Len(due) : n + k \notin 1..n
      BY <1>2, <1>4
    <3>2. Overtaken(due) \in SUBSET (1..Len(due))
      BY <1>4 DEF Overtaken
    <3> HIDE DEF late, n
    <3> QED BY <2>2, <3>1, <3>2
  <2> HIDE DEF late, new
  <2>5. Cardinality(late \cup new) = Cardinality(late) + Cardinality(Overtaken(due))
    <3>1. Cardinality(late \cap new) = 0
      BY <2>4, FS_EmptySet
    <3>2. Cardinality(late \cup new) = Cardinality(late) + Cardinality(new) - Cardinality(late \cap new)
      BY <2>2, <2>3, FS_Union
    <3> QED BY <1>9, <2>2, <2>3, <3>1, <3>2
  <2>6. stats.reordered = Cardinality(late)
    BY DEF SimInv, LinkIsHonest, ReorderingSeen, late, Overtook
  <2>7. stats'.reordered = Cardinality(Overtook(out))
    BY <1>9, <2>1, <2>5, <2>6
  <2> QED BY <1>1, <2>7 DEF ReorderingSeen, Overtook
<1>15. \A p \in R : p.sequence < stats'.sent
  BY <1>9 DEF SimInv
<1>16. queueBytes' \in Nat /\ drainsAt' \in Nat /\ simNow' \in Nat
  BY <1>1 DEF SimInv
<1>17. \A i \in DOMAIN collected' :
         /\ collected'[i].deliver <= simNow' /\ collected'[i].sequence <= lastDelivered'
         /\ \A p \in inFlight' : collected'[i].deliver <= p.deliver
  <2> HIDE DEF R
  <2> QED BY <1>1, <1>10
<1> HIDE DEF R
<1> QED BY <1>1, <1>3, <1>7, <1>8, <1>9, <1>11, <1>12, <1>13, <1>14, <1>15, <1>16, <1>17
        DEF SimInv, LinkIsHonest

\* Every step keeps the invariant.
LEMMA SimStep == SimInv /\ [SimNext]_simVars => SimInv'
<1> SUFFICES ASSUME SimInv, [SimNext]_simVars PROVE SimInv'
  OBVIOUS
<1>1. CASE \E size \in Sizes : Overflows(size) \/ LosesPacket(size)
  BY <1>1, DropStep, DrainedOf DEF Overflows, LosesPacket
<1>2. CASE \E size \in Sizes : \E extra \in Jitters, reorder \in BOOLEAN : Queued(size, extra, reorder)
  BY <1>2, QueuedStep
<1>3. CASE Collect
  BY <1>3, CollectStep
<1>4. CASE SimTick
  <2>1. \A i \in DOMAIN collected : collected[i].deliver \in Nat
    <3>1. \A i \in DOMAIN collected : collected[i] \in SimPackets
      BY ElementOfSeq, LenProperties DEF SimInv
    <3> QED BY <3>1 DEF SimPackets
  <2>2. \A i \in DOMAIN collected : collected[i].deliver <= simNow + 1
    BY <2>1 DEF SimInv
  <2>3. LinkIsHonest'
    BY <1>4 DEF SimTick, SimInv, LinkIsHonest, PacketsConserved, DeliveredByTime, ReorderingSeen
  <2>4. simNow' = simNow + 1 /\ simNow' \in Nat
    BY <1>4 DEF SimTick, SimInv
  <2> QED BY <1>4, <2>2, <2>3, <2>4 DEF SimTick, SimInv
<1>5. CASE UNCHANGED simVars
  <2>1. LinkIsHonest'
    BY <1>5 DEF simVars, SimInv, LinkIsHonest, PacketsConserved, DeliveredByTime, ReorderingSeen
  <2> QED BY <1>5, <2>1 DEF simVars, SimInv
<1> QED BY <1>1, <1>2, <1>3, <1>4, <1>5 DEF SimNext

\* The simulated link invents no packet and loses and reorders none without counting it,
\* and hands packets out in the order of their delivery times over all polls.
THEOREM SimulatorIsHonest == SimSpec => []LinkIsHonest
<1>1. SimInv => LinkIsHonest
  BY DEF SimInv
<1> QED BY SimInitially, SimStep, <1>1, PTL DEF SimSpec

-----------------------------------------------------------------------------
(* The jitter buffer                                                       *)

\* What the queue and the window of deviations hold.
Entries == [pts : Nat, discardable : BOOLEAN, due : Nat]
Samples == [at : Nat, dev : Nat]

\* The buffer's state.
Buffers ==
    [queue : Seq(Entries), target : MIN_TARGET_MS..MAX_TARGET_MS, samples : Seq(Samples),
     arrival : Nat \cup {Never}, pts : Nat \cup {Never}, played : Nat \cup {Never},
     decayed : Nat, emptySince : Nat \cup {Never}]

\* The queue is in the order of the timestamps and of the deadlines; its timestamps are
\* among some, and no deadline is beyond a limit.
InQueueOrder(q) ==
    \A i, j \in DOMAIN q : i < j => q[i].pts < q[j].pts /\ q[i].due <= q[j].due
Holds(q, Pts, limit) == \A i \in DOMAIN q : q[i].pts \in Pts /\ q[i].due <= limit

\* Leaving frames out keeps a queue in order.
LEMMA PartOfQueue ==
    ASSUME NEW q \in Seq(Entries), NEW r \in Seq(Entries), NEW h \in [DOMAIN r -> DOMAIN q],
           \A i \in DOMAIN r : r[i] = q[h[i]], \A i, j \in DOMAIN r : i < j => h[i] < h[j],
           InQueueOrder(q), NEW Pts, NEW limit, Holds(q, Pts, limit)
    PROVE  InQueueOrder(r) /\ Holds(r, Pts, limit)
<1>1. InQueueOrder(r)
  <2> SUFFICES ASSUME NEW i \in DOMAIN r, NEW j \in DOMAIN r, i < j
               PROVE  r[i].pts < r[j].pts /\ r[i].due <= r[j].due
    BY DEF InQueueOrder
  <2>1. h[i] \in DOMAIN q /\ h[j] \in DOMAIN q /\ h[i] < h[j] /\ r[i] = q[h[i]] /\ r[j] = q[h[j]]
    OBVIOUS
  <2> QED BY <2>1 DEF InQueueOrder
<1>2. Holds(r, Pts, limit)
  <2> SUFFICES ASSUME NEW i \in DOMAIN r PROVE r[i].pts \in Pts /\ r[i].due <= limit
    BY DEF Holds
  <2>1. h[i] \in DOMAIN q /\ r[i] = q[h[i]]
    OBVIOUS
  <2> QED BY <2>1 DEF Holds
<1> QED BY <1>1, <1>2

\* Taking the first frame keeps a queue in order.
LEMMA TailOfQueue ==
    ASSUME NEW q \in Seq(Entries), q # <<>>, InQueueOrder(q), NEW Pts, NEW limit, Holds(q, Pts, limit)
    PROVE  /\ Tail(q) \in Seq(Entries) /\ InQueueOrder(Tail(q)) /\ Holds(Tail(q), Pts, limit)
           /\ Len(Tail(q)) <= Len(q)
           /\ Head(q) \in Entries /\ Head(q).pts \in Pts
           /\ \A i \in DOMAIN Tail(q) : Head(q).pts < Tail(q)[i].pts
<1> DEFINE r == Tail(q)
           h == [i \in DOMAIN r |-> i + 1]
<1>1. /\ r \in Seq(Entries) /\ Head(q) = q[1] /\ 1 \in DOMAIN q /\ q[1] \in Entries
      /\ Len(r) = Len(q) - 1
      /\ \A k \in DOMAIN r : k + 1 \in DOMAIN q /\ r[k] = q[k + 1]
  BY TailOf
<1>2. DOMAIN r = 1..Len(r) /\ Len(r) \in Nat /\ Len(q) \in Nat
  BY <1>1, LenProperties
<1> HIDE DEF r
<1>3. h \in [DOMAIN r -> DOMAIN q] /\ \A i \in DOMAIN r : h[i] = i + 1
  BY <1>1
<1>4. \A i \in DOMAIN r : r[i] = q[h[i]]
  BY <1>1
<1>5. \A i, j \in DOMAIN r : i < j => h[i] < h[j]
  BY <1>2
<1> HIDE DEF h
<1>6. InQueueOrder(r) /\ Holds(r, Pts, limit)
  BY <1>1, <1>3, <1>4, <1>5, PartOfQueue
<1>7. \A i \in DOMAIN r : q[1].pts < r[i].pts
  <2> SUFFICES ASSUME NEW i \in DOMAIN r PROVE q[1].pts < q[i + 1].pts
    BY <1>1
  <2>1. 1 < i + 1 /\ i + 1 \in DOMAIN q
    BY <1>1, <1>2
  <2> QED BY <1>1, <2>1 DEF InQueueOrder
<1>8. Len(r) <= Len(q)
  BY <1>1, <1>2
<1> QED BY <1>1, <1>6, <1>7, <1>8 DEF r, Holds

\* So does keeping its end only.
LEMMA EndOfQueue ==
    ASSUME NEW q \in Seq(Entries), NEW m \in 1..Len(q), InQueueOrder(q),
           NEW Pts, NEW limit, Holds(q, Pts, limit)
    PROVE  /\ SubSeq(q, m, Len(q)) \in Seq(Entries) /\ InQueueOrder(SubSeq(q, m, Len(q)))
           /\ Holds(SubSeq(q, m, Len(q)), Pts, limit) /\ Len(SubSeq(q, m, Len(q))) <= Len(q)
<1> DEFINE r == SubSeq(q, m, Len(q))
           h == [i \in DOMAIN r |-> m + i - 1]
<1>1. /\ r \in Seq(Entries) /\ Len(r) = Len(q) - m + 1
      /\ \A k \in 1..(Len(q) - m + 1) : r[k] = q[m + k - 1]
  BY EndOf
<1> HIDE DEF r
<1>2. DOMAIN r = 1..Len(r) /\ Len(r) \in Nat /\ Len(q) \in Nat /\ DOMAIN q = 1..Len(q)
  BY <1>1, LenProperties
<1>3. h \in [DOMAIN r -> DOMAIN q]
  BY <1>1, <1>2
<1>4. \A i \in DOMAIN r : r[i] = q[h[i]]
  BY <1>1, <1>2
<1>5. \A i, j \in DOMAIN r : i < j => h[i] < h[j]
  BY <1>2
<1>6. Len(r) <= Len(q)
  BY <1>1, <1>2
<1> HIDE DEF h
<1>7. InQueueOrder(r) /\ Holds(r, Pts, limit)
  BY <1>1, <1>3, <1>4, <1>5, PartOfQueue
<1> QED BY <1>1, <1>6, <1>7 DEF r

\* So does dropping one frame, wherever it is.
LEMMA QueueWithoutOne ==
    ASSUME NEW q \in Seq(Entries), NEW m \in 1..Len(q), InQueueOrder(q),
           NEW Pts, NEW limit, Holds(q, Pts, limit)
    PROVE  /\ RemoveAt(q, m) \in Seq(Entries) /\ InQueueOrder(RemoveAt(q, m))
           /\ Holds(RemoveAt(q, m), Pts, limit) /\ Len(RemoveAt(q, m)) = Len(q) - 1
<1> DEFINE r == RemoveAt(q, m)
           h == [i \in DOMAIN r |-> IF i < m THEN i ELSE i + 1]
<1>1. /\ r \in Seq(Entries) /\ Len(r) = Len(q) - 1
      /\ \A k \in 1..(Len(q) - 1) : r[k] = IF k < m THEN q[k] ELSE q[k + 1]
  BY RemoveAtOf
<1> HIDE DEF r
<1>2. DOMAIN r = 1..Len(r) /\ Len(r) \in Nat /\ Len(q) \in Nat /\ DOMAIN q = 1..Len(q)
  BY <1>1, LenProperties
<1>3. h \in [DOMAIN r -> DOMAIN q]
  BY <1>1, <1>2
<1>4. \A i \in DOMAIN r : r[i] = q[h[i]]
  BY <1>1, <1>2
<1>5. \A i, j \in DOMAIN r : i < j => h[i] < h[j]
  BY <1>2
<1> HIDE DEF h
<1>6. InQueueOrder(r) /\ Holds(r, Pts, limit)
  BY <1>1, <1>3, <1>4, <1>5, PartOfQueue
<1> QED BY <1>1, <1>6 DEF r

\* Where poll starts to look, after catching up.
LEMMA CaughtUpOf ==
    ASSUME NEW q \in Seq(Entries), NEW now \in Nat, InQueueOrder(q),
           NEW Pts, NEW limit, Holds(q, Pts, limit)
    PROVE  /\ CaughtUp(q, now) \in Seq(Entries) /\ InQueueOrder(CaughtUp(q, now))
           /\ Holds(CaughtUp(q, now), Pts, limit) /\ Len(CaughtUp(q, now)) <= Len(q)
<1>a. Len(q) \in Nat
  BY LenProperties
<1>1. CASE q = <<>>
  <2>1. CaughtUp(q, now) = q
    BY <1>1 DEF CaughtUp
  <2> QED BY <1>a, <2>1
<1>2. CASE q # <<>>
  <2> DEFINE n == Len(q)
             behind(i) == i < Len(q) /\ now > q[i].due + CATCHUP_SLACK_MS /\ q[i + 1].due <= now
             rest == {i \in 1..Len(q) : ~behind(i)}
             front == CHOOSE i \in 1..Len(q) : ~behind(i) /\ \A j \in 1..(i - 1) : behind(j)
  <2>1. n \in Nat /\ n \in 1..n
    BY <1>a, <1>2, EmptySeq
  <2>2. ~behind(n)
    BY <2>1
  <2>3. rest \in SUBSET (1..n) /\ rest # {}
    BY <2>1, <2>2
  <2>4. Min(rest) \in rest /\ Min(rest) \in 1..n /\ \A y \in rest : Min(rest) <= y
    <3> HIDE DEF rest, n
    <3> QED BY <2>1, <2>3, FirstAmong
  <2>5. ASSUME NEW j \in 1..(Min(rest) - 1) PROVE behind(j)
    <3>1. \A a \in 1..n : \A b \in 1..(a - 1) : b \in 1..n /\ ~(a <= b)
      BY <2>1
    <3>2. j \in 1..n /\ ~(Min(rest) <= j)
      <4> HIDE DEF rest, n
      <4> QED BY <2>4, <3>1
    <3>3. j \notin rest
      <4> HIDE DEF rest, n
      <4> QED BY <2>4, <3>2
    <3> QED BY <3>2, <3>3
  <2>6. \E i \in 1..Len(q) : ~behind(i) /\ \A j \in 1..(i - 1) : behind(j)
    <3>1. ~behind(Min(rest))
      BY <2>4
    <3> HIDE DEF behind, rest
    <3> QED BY <2>4, <2>5, <3>1
  <2>7. front \in 1..Len(q)
    <3> HIDE DEF behind, rest
    <3> QED BY <2>6
  <2>8. CaughtUp(q, now) = SubSeq(q, front, Len(q))
    BY <1>2 DEF CaughtUp
  <2> HIDE DEF front
  <2> QED BY <2>7, <2>8, EndOfQueue
<1> QED BY <1>1, <1>2

\* What a poll leaves in the queue, and what it plays.
LEMMA PollOf ==
    ASSUME NEW jb \in Buffers, NEW now \in Nat, InQueueOrder(jb.queue),
           NEW Pts, NEW limit, Holds(jb.queue, Pts, limit)
    PROVE  LET result == Poll(jb, now)
               after == result.jb
           IN  /\ after \in Buffers /\ InQueueOrder(after.queue) /\ Holds(after.queue, Pts, limit)
               /\ Len(after.queue) <= Len(jb.queue)
               /\ after.arrival = jb.arrival /\ after.pts = jb.pts
               /\ \/ result.out # "play" /\ after.played = jb.played
                  \/ /\ result.out = "play" /\ after.played \in Pts /\ after.played \in Nat
                     /\ \A i \in DOMAIN after.queue : after.played < after.queue[i].pts
<1> DEFINE c == CaughtUp(jb.queue, now)
           w == WithoutStale(c, now)
           starved == jb.emptySince # Never /\ Minus(now, jb.emptySince) > STARVED_AFTER_MS
           since == IF jb.emptySince = Never \/ starved THEN now ELSE jb.emptySince
<1>1. jb.queue \in Seq(Entries) /\ jb.emptySince \in Nat \cup {Never} /\ Len(jb.queue) \in Nat
  <2>1. jb.queue \in Seq(Entries) /\ jb.emptySince \in Nat \cup {Never}
    BY DEF Buffers
  <2> QED BY <2>1, LenProperties
<1>2. /\ c \in Seq(Entries) /\ InQueueOrder(c) /\ Holds(c, Pts, limit) /\ Len(c) <= Len(jb.queue)
  BY <1>1, CaughtUpOf
<1> HIDE DEF c
<1>3. /\ w \in Seq(Entries) /\ InQueueOrder(w) /\ Holds(w, Pts, limit) /\ Len(w) <= Len(jb.queue)
      /\ Len(w) \in Nat
  <2>1. Len(c) \in Nat
    BY <1>2, LenProperties
  <2>2. CASE c # <<>> /\ w = Tail(c)
    <3>1. Tail(c) \in Seq(Entries) /\ InQueueOrder(Tail(c)) /\ Holds(Tail(c), Pts, limit) /\ Len(Tail(c)) <= Len(c)
      BY <1>2, <2>2, TailOfQueue
    <3>2. Len(Tail(c)) \in Nat
      BY <3>1, LenProperties
    <3> HIDE DEF w
    <3> QED BY <1>1, <1>2, <2>1, <2>2, <3>1, <3>2
  <2>3. CASE w = c
    <3> HIDE DEF w
    <3> QED BY <1>2, <2>1, <2>3
  <2>4. w = c \/ (c # <<>> /\ w = Tail(c))
    <3>1. w = IF c # <<>> /\ now > Head(c).due + STALE_AFTER_MS THEN Tail(c) ELSE c
      BY Zenon DEF WithoutStale
    <3> HIDE DEF w
    <3>2. CASE c # <<>> /\ now > Head(c).due + STALE_AFTER_MS
      BY <3>1, <3>2
    <3>3. CASE ~(c # <<>> /\ now > Head(c).due + STALE_AFTER_MS)
      <4>1. w = c
        BY <3>1, <3>3
      <4> QED BY <4>1
    <3> QED BY <3>2, <3>3
  <2> QED BY <2>2, <2>3, <2>4
<1> HIDE DEF w
<1>4. since \in Nat \cup {Never}
  BY <1>1
<1> HIDE DEF starved
<1> DEFINE emptied == [jb EXCEPT !.queue = w, !.emptySince = since]
           waiting == [jb EXCEPT !.queue = w]
           shown == [jb EXCEPT !.queue = Tail(w), !.played = Head(w).pts]
<1>5. CASE w = <<>>
  <2>1. Poll(jb, now) = [jb |-> emptied, out |-> IF starved THEN "starved" ELSE "wait"]
    BY <1>5 DEF Poll, w, c, starved
  <2> HIDE DEF since
  <2>2. /\ emptied \in Buffers /\ emptied.queue = w /\ emptied.played = jb.played
        /\ emptied.arrival = jb.arrival /\ emptied.pts = jb.pts
    BY <1>3, <1>4 DEF Buffers
  <2>3. Poll(jb, now).jb = emptied /\ Poll(jb, now).out # "play"
    <3> HIDE DEF emptied
    <3> QED BY <2>1
  <2> HIDE DEF emptied
  <2> QED BY <1>3, <2>2, <2>3
<1>6. CASE w # <<>> /\ now < Head(w).due
  <2>1. Poll(jb, now) = [jb |-> waiting, out |-> "wait"]
    BY <1>6 DEF Poll, w, c
  <2>2. /\ waiting \in Buffers /\ waiting.queue = w /\ waiting.played = jb.played
        /\ waiting.arrival = jb.arrival /\ waiting.pts = jb.pts
    BY <1>3 DEF Buffers
  <2>3. Poll(jb, now).jb = waiting /\ Poll(jb, now).out # "play"
    <3> HIDE DEF waiting
    <3> QED BY <2>1
  <2> HIDE DEF waiting
  <2> QED BY <1>3, <2>2, <2>3
<1>7. CASE w # <<>> /\ ~(now < Head(w).due)
  <2>1. Poll(jb, now) = [jb |-> shown, out |-> "play"]
    BY <1>7 DEF Poll, w, c
  <2>2. /\ Tail(w) \in Seq(Entries) /\ InQueueOrder(Tail(w)) /\ Holds(Tail(w), Pts, limit)
        /\ Len(Tail(w)) <= Len(w) /\ Head(w) \in Entries /\ Head(w).pts \in Pts
        /\ \A i \in DOMAIN Tail(w) : Head(w).pts < Tail(w)[i].pts
    BY <1>3, <1>7, TailOfQueue
  <2>3. Head(w).pts \in Nat
    BY <2>2 DEF Entries
  <2>4. /\ shown \in Buffers /\ shown.queue = Tail(w) /\ shown.played = Head(w).pts
        /\ shown.arrival = jb.arrival /\ shown.pts = jb.pts
    BY <2>2, <2>3 DEF Buffers
  <2>5. Poll(jb, now).jb = shown /\ Poll(jb, now).out = "play"
    <3> HIDE DEF shown
    <3> QED BY <2>1
  <2>6. Len(Tail(w)) <= Len(jb.queue)
    <3>1. Len(Tail(w)) \in Nat
      BY <2>2, LenProperties
    <3> QED BY <1>1, <1>3, <2>2, <3>1
  <2> HIDE DEF shown
  <2> QED BY <2>2, <2>3, <2>4, <2>5, <2>6
<1> QED BY <1>5, <1>6, <1>7

\* Raised deadlines are in order, and none is beyond a limit that none was beyond.
LEMMA RaiseDeadlinesOf ==
    ASSUME NEW q \in Seq(Entries), NEW Pts, NEW limit \in Nat, Holds(q, Pts, limit),
           \A i, j \in DOMAIN q : i < j => q[i].pts < q[j].pts
    PROVE  /\ RaiseDeadlines(q) \in Seq(Entries) /\ Len(RaiseDeadlines(q)) = Len(q)
           /\ InQueueOrder(RaiseDeadlines(q)) /\ Holds(RaiseDeadlines(q), Pts, limit)
<1> DEFINE n == Len(q)
           latest(i) == CHOOSE d \in {q[j].due : j \in 1..i} : \A j \in 1..i : q[j].due <= d
           r == [i \in 1..n |-> [q[i] EXCEPT !.due = latest(i)]]
<1>1. n \in Nat /\ DOMAIN q = 1..n /\ \A i \in 1..n : q[i] \in Entries
  BY LenProperties, ElementOfSeq
<1>2. \A i \in 1..n : q[i].due \in Nat /\ q[i].due <= limit /\ q[i].pts \in Pts
  BY <1>1 DEF Entries, Holds
<1> HIDE DEF n
<1>3. ASSUME NEW i \in 1..n
      PROVE  /\ \E k \in 1..i : latest(i) = q[k].due
             /\ \A j \in 1..i : q[j].due <= latest(i)
  <2> DEFINE f == [j \in 1..i |-> q[j].due]
             S == {q[j].due : j \in 1..i}
  <2>1. i \in Nat \ {0} /\ \A j \in 1..i : j \in 1..n
    BY <1>1
  <2>2. f \in [1..i -> Int]
    BY <1>2, <2>1
  <2>3. \E m \in 1..i : \A j \in 1..i : f[j] <= f[m]
    <3> HIDE DEF f
    <3> QED BY <2>1, <2>2, GreatestOf
  <2>4. \E d \in S : \A j \in 1..i : q[j].due <= d
    BY <2>3
  <2>5. latest(i) \in S /\ \A j \in 1..i : q[j].due <= latest(i)
    BY <2>4
  <2> HIDE DEF latest
  <2> QED BY <2>5
<1> HIDE DEF latest
<1>4. ASSUME NEW i \in 1..n PROVE latest(i) \in Nat /\ latest(i) <= limit
  <2>1. PICK k \in 1..i : latest(i) = q[k].due
    BY <1>3
  <2>2. k \in 1..n
    BY <1>1
  <2> QED BY <1>2, <2>1, <2>2
<1>5. ASSUME NEW i \in 1..n, NEW j \in 1..n, i < j PROVE latest(i) <= latest(j)
  <2>1. PICK k \in 1..i : latest(i) = q[k].due
    BY <1>3
  <2>2. k \in 1..j
    BY <1>1, <1>5
  <2> QED BY <1>3, <2>1, <2>2
<1>6. ASSUME NEW i \in 1..n PROVE r[i] \in Entries /\ r[i].pts = q[i].pts /\ r[i].due = latest(i)
  <2>1. r[i] = [q[i] EXCEPT !.due = latest(i)]
    OBVIOUS
  <2>2. q[i] \in Entries /\ latest(i) \in Nat
    BY <1>1, <1>4
  <2> HIDE DEF r
  <2> QED BY <2>1, <2>2 DEF Entries
<1>7. r \in Seq(Entries) /\ Len(r) = n /\ DOMAIN r = 1..n
  <2>1. DOMAIN r = 1..n
    OBVIOUS
  <2>2. r \in [1..n -> Entries]
    BY <1>6
  <2> HIDE DEF r
  <2> QED BY <1>1, <2>1, <2>2, SeqDef, LenProperties
<1>8. RaiseDeadlines(q) = r
  BY DEF RaiseDeadlines, latest, n
<1> HIDE DEF r
<1>9. InQueueOrder(r)
  <2> SUFFICES ASSUME NEW i \in 1..n, NEW j \in 1..n, i < j
               PROVE  r[i].pts < r[j].pts /\ r[i].due <= r[j].due
    BY <1>7 DEF InQueueOrder
  <2> QED BY <1>1, <1>5, <1>6
<1>10. Holds(r, Pts, limit)
  BY <1>2, <1>4, <1>6, <1>7 DEF Holds
<1> QED BY <1>7, <1>8, <1>9, <1>10 DEF n

\* The place of a frame is right behind the earlier ones.
LEMMA PositionOf ==
    ASSUME NEW q \in Seq(Entries), NEW pts \in Nat,
           \A i, j \in DOMAIN q : i < j => q[i].pts < q[j].pts, \A i \in DOMAIN q : q[i].pts # pts
    PROVE  /\ PositionFor(q, pts) \in 1..(Len(q) + 1)
           /\ \A i \in DOMAIN q : i < PositionFor(q, pts) => q[i].pts < pts
           /\ \A i \in DOMAIN q : i >= PositionFor(q, pts) => pts < q[i].pts
<1> DEFINE n == Len(q)
           later == {i \in 1..n : q[i].pts > pts}
           first == IF later # {} THEN Min(later) ELSE 0
<1>1. n \in Nat /\ DOMAIN q = 1..n /\ \A i \in 1..n : q[i] \in Entries
  BY LenProperties, ElementOfSeq
<1>2. \A i \in 1..n : q[i].pts \in Nat
  BY <1>1 DEF Entries
<1>3. PositionFor(q, pts) = IF first = 0 THEN n + 1 ELSE first
  BY Zenon DEF PositionFor, SelectInSeq
<1>4. CASE later = {}
  <2>1. PositionFor(q, pts) = n + 1
    BY <1>3, <1>4
  <2>2. \A i \in 1..n : ~(q[i].pts > pts)
    BY <1>4
  <2> HIDE DEF n
  <2> QED BY <1>1, <1>2, <2>1, <2>2 DEF n
<1>5. CASE later # {}
  <2> DEFINE m == Min(later)
  <2>1. later \in SUBSET (1..n)
    OBVIOUS
  <2>2. m \in later /\ m \in 1..n /\ \A y \in later : m <= y
    <3> HIDE DEF later, n
    <3> QED BY <1>1, <1>5, <2>1, FirstAmong
  <2>3. first = m
    BY <1>5
  <2> HIDE DEF m, first, n
  <2>4. PositionFor(q, pts) = m
    <3>1. m # 0
      BY <1>1, <2>2
    <3> QED BY <1>3, <2>3, <3>1
  <2>5. q[m].pts > pts
    BY <2>2
  <2>6. \A i \in 1..n : i < m => q[i].pts < pts
    <3> SUFFICES ASSUME NEW i \in 1..n, i < m PROVE q[i].pts < pts
      OBVIOUS
    <3>1. i \notin later
      BY <1>1, <2>2
    <3>2. ~(q[i].pts > pts)
      BY <3>1
    <3> QED BY <1>1, <1>2, <3>2
  <2>7. \A i \in 1..n : i >= m => pts < q[i].pts
    <3> SUFFICES ASSUME NEW i \in 1..n, i >= m PROVE pts < q[i].pts
      OBVIOUS
    <3>1. CASE i = m
      BY <2>5, <3>1
    <3>2. CASE m < i
      <4>1. q[m].pts < q[i].pts
        BY <1>1, <2>2, <3>2
      <4> QED BY <1>2, <2>2, <2>5, <4>1
    <3> QED BY <1>1, <2>2, <3>1, <3>2
  <2>8. m \in 1..(n + 1)
    BY <1>1, <2>2
  <2> QED BY <1>1, <2>4, <2>6, <2>7, <2>8 DEF n
<1> QED BY <1>4, <1>5

\* The queue with a frame in its place, all deadlines raised.
LEMMA InsertOf ==
    ASSUME NEW jb \in Buffers, NEW now \in Nat, NEW pts \in Nat, NEW discardable \in BOOLEAN,
           InQueueOrder(jb.queue), \A i \in DOMAIN jb.queue : jb.queue[i].pts # pts,
           NEW Pts, pts \in Pts, NEW limit \in Nat, now + jb.target <= limit,
           Holds(jb.queue, Pts, limit)
    PROVE  LET after == Insert(jb, pts, discardable, now)
           IN  /\ after \in Seq(Entries) /\ Len(after) = Len(jb.queue) + 1
               /\ InQueueOrder(after) /\ Holds(after, Pts, limit)
<1> DEFINE q == jb.queue
           e == [pts |-> pts, discardable |-> discardable, due |-> now + jb.target]
           p == PositionFor(q, pts)
           r == InsertAt(q, p, e)
<1>1. q \in Seq(Entries) /\ jb.target \in Nat
  BY JitterAssumption DEF Buffers
<1>2. e \in Entries /\ e.pts = pts /\ e.due = now + jb.target
  BY <1>1 DEF Entries
<1>3. Insert(jb, pts, discardable, now) = RaiseDeadlines(r)
  BY DEF Insert
<1> HIDE DEF e, q
<1>4. Len(q) \in Nat /\ DOMAIN q = 1..Len(q)
  BY <1>1, LenProperties
<1>5. /\ p \in 1..(Len(q) + 1)
      /\ \A i \in DOMAIN q : i < p => q[i].pts < pts
      /\ \A i \in DOMAIN q : i >= p => pts < q[i].pts
  <2>1. \A i, j \in DOMAIN q : i < j => q[i].pts < q[j].pts
    BY DEF InQueueOrder, q
  <2>2. \A i \in DOMAIN q : q[i].pts # pts
    BY DEF q
  <2> QED BY <1>1, <2>1, <2>2, PositionOf
<1> HIDE DEF p
<1>6. /\ r \in Seq(Entries) /\ Len(r) = Len(q) + 1
      /\ \A k \in 1..(Len(q) + 1) : r[k] = IF k < p THEN q[k] ELSE IF k = p THEN e ELSE q[k - 1]
  BY <1>1, <1>2, <1>5, InsertAtOf
<1> HIDE DEF r
<1>7. DOMAIN r = 1..(Len(q) + 1)
  BY <1>6, LenProperties
<1>8. \A i, j \in DOMAIN q : i < j => q[i].pts < q[j].pts
  BY DEF InQueueOrder, q
<1>9. \A i \in DOMAIN q : q[i].pts \in Nat
  <2>1. \A i \in DOMAIN q : q[i] \in Entries
    BY <1>1, <1>4, ElementOfSeq
  <2> QED BY <2>1 DEF Entries
<1>10. ASSUME NEW i \in DOMAIN r, NEW j \in DOMAIN r, i < j PROVE r[i].pts < r[j].pts
  <2>a. i \in Int /\ j \in Int /\ p \in Int /\ i >= 1 /\ j <= Len(q) + 1
    BY <1>4, <1>5, <1>7
  <2>1. CASE j < p
    <3>1. i \in DOMAIN q /\ j \in DOMAIN q /\ i < p
      BY <1>4, <1>5, <1>10, <2>a, <2>1
    <3> QED BY <1>6, <1>7, <1>8, <1>10, <2>1, <3>1
  <2>2. CASE j = p
    <3>1. i \in DOMAIN q /\ i < p
      BY <1>4, <1>5, <1>10, <2>a, <2>2
    <3>2. r[i] = q[i] /\ r[j] = e
      BY <1>4, <1>6, <1>7, <2>a, <2>2, <3>1
    <3> QED BY <1>2, <1>5, <3>1, <3>2
  <2>3. CASE j > p
    <3>1. j - 1 \in DOMAIN q /\ j - 1 >= p
      BY <1>4, <1>5, <1>10, <2>a, <2>3
    <3>2. r[j] = q[j - 1]
      BY <1>4, <1>6, <1>7, <2>a, <2>3
    <3>3. CASE i < p
      <4>1. i \in DOMAIN q /\ r[i] = q[i] /\ i < j - 1
        BY <1>4, <1>5, <1>6, <1>7, <2>a, <2>3, <3>3
      <4> QED BY <1>8, <3>1, <3>2, <4>1
    <3>4. CASE i = p
      <4>1. r[i] = e
        BY <1>4, <1>6, <1>7, <2>a, <3>4
      <4> QED BY <1>2, <1>5, <3>1, <3>2, <4>1
    <3>5. CASE i > p
      <4>1. i - 1 \in DOMAIN q /\ i - 1 < j - 1
        BY <1>4, <1>5, <1>10, <2>a, <2>3, <3>5
      <4>2. r[i] = q[i - 1]
        BY <1>4, <1>6, <1>7, <2>a, <3>5
      <4> QED BY <1>8, <3>1, <3>2, <4>1, <4>2
    <3> QED BY <2>a, <3>3, <3>4, <3>5
  <2> QED BY <2>a, <2>1, <2>2, <2>3
<1>11. Holds(r, Pts, limit)
  <2> SUFFICES ASSUME NEW k \in DOMAIN r PROVE r[k].pts \in Pts /\ r[k].due <= limit
    BY DEF Holds
  <2>1. r[k] = e \/ \E i \in DOMAIN q : r[k] = q[i]
    <3>1. CASE k < p
      <4>1. k \in DOMAIN q /\ r[k] = q[k]
        BY <1>4, <1>5, <1>6, <1>7, <3>1
      <4> QED BY <4>1
    <3>2. CASE k = p
      BY <1>4, <1>5, <1>6, <1>7, <3>2
    <3>3. CASE k > p
      <4>1. k - 1 \in DOMAIN q /\ r[k] = q[k - 1]
        BY <1>4, <1>5, <1>6, <1>7, <3>3
      <4> QED BY <4>1
    <3>4. k < p \/ k = p \/ k > p
      BY <1>4, <1>5, <1>7
    <3> QED BY <3>1, <3>2, <3>3, <3>4
  <2> QED BY <1>2, <2>1 DEF Holds, q
<1>12. /\ RaiseDeadlines(r) \in Seq(Entries) /\ Len(RaiseDeadlines(r)) = Len(r)
       /\ InQueueOrder(RaiseDeadlines(r)) /\ Holds(RaiseDeadlines(r), Pts, limit)
  BY <1>6, <1>10, <1>11, RaiseDeadlinesOf
<1> QED BY <1>3, <1>6, <1>12 DEF q

\* One frame too many gives way.
LEMMA EnforceCapacityOf ==
    ASSUME NEW q \in Seq(Entries), InQueueOrder(q), NEW Pts, NEW limit, Holds(q, Pts, limit),
           Len(q) <= MAX_QUEUED_FRAMES + 1
    PROVE  /\ EnforceCapacity(q) \in Seq(Entries) /\ InQueueOrder(EnforceCapacity(q))
           /\ Holds(EnforceCapacity(q), Pts, limit) /\ Len(EnforceCapacity(q)) <= MAX_QUEUED_FRAMES
<1> USE JitterAssumption
<1> DEFINE n == Len(q)
           spare == {i \in 1..n : q[i].discardable}
           victim == IF spare # {} THEN Min(spare) ELSE 0
           v == IF victim = 0 THEN 1 ELSE victim
<1>1. n \in Nat /\ spare \in SUBSET (1..n)
  BY LenProperties
<1>2. EnforceCapacity(q) = IF n <= MAX_QUEUED_FRAMES THEN q ELSE RemoveAt(q, v)
  BY Zenon DEF EnforceCapacity, SelectInSeq
<1>3. CASE n <= MAX_QUEUED_FRAMES
  <2>1. EnforceCapacity(q) = q
    BY <1>2, <1>3
  <2> QED BY <1>3, <2>1
<1>4. CASE ~(n <= MAX_QUEUED_FRAMES)
  <2>1. v \in 1..n
    <3>1. spare # {} => Min(spare) \in 1..n
      <4> HIDE DEF spare, n
      <4> QED BY <1>1, FirstAmong
    <3>2. 1 \in 1..n
      BY <1>1, <1>4
    <3> HIDE DEF spare, n
    <3>3. CASE spare = {}
      BY <3>2, <3>3
    <3>4. CASE spare # {}
      BY <1>1, <3>1, <3>2, <3>4
    <3> QED BY <3>3, <3>4
  <2>2. EnforceCapacity(q) = RemoveAt(q, v)
    BY <1>2, <1>4
  <2> HIDE DEF v
  <2>3. /\ RemoveAt(q, v) \in Seq(Entries) /\ InQueueOrder(RemoveAt(q, v))
        /\ Holds(RemoveAt(q, v), Pts, limit) /\ Len(RemoveAt(q, v)) = n - 1
    BY <2>1, QueueWithoutOne
  <2>4. n - 1 <= MAX_QUEUED_FRAMES
    BY <1>1
  <2> QED BY <2>2, <2>3, <2>4
<1> QED BY <1>3, <1>4

\* What is still counted are samples.
LEMMA StillCountedOf ==
    ASSUME NEW all \in Seq(Samples), NEW now \in Nat, all # <<>>, all[Len(all)].at = now
    PROVE  StillCounted(all, now) \in Seq(Samples)
<1> DEFINE recent == {i \in 1..Len(all) : now - all[i].at <= JITTER_WINDOW_MS}
<1>1. Len(all) \in Nat /\ Len(all) \in 1..Len(all)
  BY LenProperties, EmptySeq
<1>2. Len(all) \in recent
  BY <1>1, JitterAssumption
<1>3. recent \in SUBSET (1..Len(all)) /\ recent # {}
  BY <1>2
<1>4. StillCounted(all, now) = SubSeq(all, IF recent # {} THEN Min(recent) ELSE 0, Len(all))
  BY Zenon DEF StillCounted, SelectInSeq
<1> HIDE DEF recent
<1>5. StillCounted(all, now) = SubSeq(all, Min(recent), Len(all))
  BY <1>3, <1>4
<1>6. Min(recent) \in 1..Len(all)
  BY <1>1, <1>3, FirstAmong
<1>7. SubSeq(all, Min(recent), Len(all)) \in Seq(Samples)
  BY <1>6, EndOf
<1> QED BY <1>5, <1>7

\* The percentile of the deviations is one of them, or 0 if there are none: the greatest
\* of them is no smaller than any, so there is a least that is no smaller than enough.
LEMMA PercentileOf ==
    ASSUME NEW samples \in Seq(Samples)
    PROVE  Percentile(samples, 95) \in Nat
<1> DEFINE n == Len(samples)
           rank == 1 + (2 * (n - 1) * 95 + 100) \div 200
           notAbove(d) == {i \in 1..n : samples[i].dev <= d}
           enough == {d \in {samples[i].dev : i \in 1..n} : Cardinality(notAbove(d)) >= rank}
<1>1. n \in Nat /\ \A i \in 1..n : samples[i] \in Samples
  BY LenProperties, ElementOfSeq
<1>2. \A i \in 1..n : samples[i].dev \in Nat
  BY <1>1 DEF Samples
<1>3. CASE n = 0
  BY <1>3 DEF Percentile
<1>4. CASE n # 0
  <2>1. Percentile(samples, 95) = Min(enough)
    BY <1>4 DEF Percentile
  <2> HIDE DEF n
  <2>2. rank \in Int /\ rank <= n
    BY <1>1, <1>4
  <2> HIDE DEF rank
  <2> DEFINE f == [i \in 1..n |-> samples[i].dev]
  <2>3. f \in [1..n -> Int] /\ n \in Nat \ {0}
    BY <1>1, <1>2, <1>4
  <2>4. \E m \in 1..n : \A j \in 1..n : f[j] <= f[m]
    <3> HIDE DEF f
    <3> QED BY <2>3, GreatestOf
  <2>5. PICK m \in 1..n : \A j \in 1..n : samples[j].dev <= samples[m].dev
    BY <2>4
  <2>6. notAbove(samples[m].dev) = 1..n
    BY <2>5
  <2>7. Cardinality(1..n) = n
    BY <1>1, FS_Interval
  <2>8. samples[m].dev \in enough
    <3>1. Cardinality(notAbove(samples[m].dev)) >= rank
      <4> HIDE DEF notAbove
      <4> QED BY <1>1, <2>2, <2>6, <2>7
    <3> HIDE DEF notAbove
    <3> QED BY <3>1
  <2>9. enough \in SUBSET Nat
    <3> HIDE DEF notAbove
    <3> QED BY <1>2
  <2>10. Min(enough) \in enough
    <3> HIDE DEF enough
    <3> QED BY <2>8, <2>9, LeastNatural
  <2> HIDE DEF enough
  <2> QED BY <2>1, <2>9, <2>10
<1> QED BY <1>3, <1>4

\* Measuring an arrival touches neither the queue nor what was played.
LEMMA MeasuredOf ==
    ASSUME NEW jb \in Buffers, (jb.arrival = Never) = (jb.pts = Never), NEW pts \in Nat, NEW now \in Nat
    PROVE  LET after == Measured(jb, pts, now)
           IN  /\ after \in Buffers /\ (after.arrival = Never) = (after.pts = Never)
               /\ after.queue = jb.queue /\ after.played = jb.played /\ after.target = jb.target
<1> USE JitterAssumption
<1> DEFINE d == Deviation(jb, pts, now)
           samples == IF jb.arrival = Never THEN jb.samples ELSE Sampled(jb.samples, d, now)
<1>1. /\ jb.arrival \in Nat \cup {Never} /\ jb.pts \in Nat \cup {Never} /\ jb.samples \in Seq(Samples)
  BY DEF Buffers
<1>2. ASSUME jb.arrival # Never PROVE Sampled(jb.samples, d, now) \in Seq(Samples)
  <2>1. jb.arrival \in Nat /\ jb.pts \in Nat
    BY <1>1, <1>2
  <2>2. d \in Nat
    BY <2>1 DEF Deviation, Minus, Smaller, Larger
  <2> HIDE DEF d
  <2> DEFINE e == [at |-> now, dev |-> d]
             all == Append(jb.samples, e)
  <2>3. e \in Samples /\ e.at = now
    BY <2>2 DEF Samples
  <2> HIDE DEF e
  <2>4. /\ all \in Seq(Samples) /\ Len(all) = Len(jb.samples) + 1
        /\ all[Len(jb.samples) + 1] = e /\ all # <<>>
    BY <1>1, <2>3, AppendProperties
  <2>5. all[Len(all)].at = now
    BY <2>3, <2>4
  <2> HIDE DEF all
  <2>6. StillCounted(all, now) \in Seq(Samples)
    BY <2>4, <2>5, StillCountedOf
  <2> QED BY <2>6 DEF Sampled, all, e
<1>3. samples \in Seq(Samples)
  BY <1>1, <1>2
<1>4. Measured(jb, pts, now) = [jb EXCEPT !.samples = samples, !.arrival = now, !.pts = pts]
  BY DEF Measured
<1> HIDE DEF samples
<1> DEFINE after == [jb EXCEPT !.samples = samples, !.arrival = now, !.pts = pts]
<1>5. /\ after \in Buffers /\ after.arrival = now /\ after.pts = pts
      /\ after.queue = jb.queue /\ after.played = jb.played /\ after.target = jb.target
  BY <1>3 DEF Buffers
<1>6. now # Never /\ pts # Never
  OBVIOUS
<1> HIDE DEF after
<1> QED BY <1>4, <1>5, <1>6 DEF after

\* Nor does adapting the target, which stays between its limits.
LEMMA AdaptTargetOf ==
    ASSUME NEW jb \in Buffers, NEW now \in Nat
    PROVE  LET after == AdaptTarget(jb, now)
           IN  /\ after \in Buffers /\ after.queue = jb.queue /\ after.played = jb.played
               /\ after.arrival = jb.arrival /\ after.pts = jb.pts
<1> USE JitterAssumption
<1> DEFINE observed == Percentile(jb.samples, 95)
           grow == observed > jb.target
           decay == ~grow /\ Minus(now, jb.decayed) >= SECOND
           lower == Minus(jb.target, DECAY_MS_PER_S * ((now - jb.decayed) \div SECOND))
           target == IF grow THEN observed ELSE IF decay THEN lower ELSE jb.target
           new == Clamp(target, MIN_TARGET_MS, MAX_TARGET_MS)
           at == IF grow \/ decay THEN now ELSE jb.decayed
<1>1. jb.target \in Nat /\ jb.decayed \in Nat /\ jb.samples \in Seq(Samples)
  BY DEF Buffers
<1>2. observed \in Nat
  BY <1>1, PercentileOf
<1>3. lower \in Int
  <2>1. (now - jb.decayed) \div SECOND \in Int
    BY <1>1
  <2>2. \A x \in Int : DECAY_MS_PER_S * x \in Int
    OBVIOUS
  <2> DEFINE x == DECAY_MS_PER_S * ((now - jb.decayed) \div SECOND)
  <2>3. x \in Int
    BY <2>1, <2>2
  <2> HIDE DEF x
  <2>4. Minus(jb.target, x) \in Int
    BY <1>1, <2>3 DEF Minus
  <2> QED BY <2>4 DEF x
<1> HIDE DEF observed, lower
<1>4. target \in Int
  BY <1>1, <1>2, <1>3
<1>5. at \in Nat
  BY <1>1
<1>6. AdaptTarget(jb, now) = [jb EXCEPT !.target = new, !.decayed = at]
  BY DEF AdaptTarget, observed, lower
<1> HIDE DEF target, at
<1>7. new \in MIN_TARGET_MS..MAX_TARGET_MS
  BY <1>4 DEF Clamp, Smaller, Larger
<1> HIDE DEF new
<1> DEFINE after == [jb EXCEPT !.target = new, !.decayed = at]
<1>8. /\ after \in Buffers /\ after.queue = jb.queue /\ after.played = jb.played
      /\ after.arrival = jb.arrival /\ after.pts = jb.pts
  BY <1>5, <1>7 DEF Buffers
<1> QED BY <1>6, <1>8

\* A frame is queued in its place, with a deadline no further away than the largest
\* target, or left out because a later one was played.
LEMMA PushOf ==
    ASSUME NEW jb \in Buffers, (jb.arrival = Never) = (jb.pts = Never),
           NEW pts \in Nat, NEW discardable \in BOOLEAN, NEW now \in Nat,
           InQueueOrder(jb.queue), Len(jb.queue) <= MAX_QUEUED_FRAMES,
           \A i \in DOMAIN jb.queue : jb.queue[i].pts # pts,
           NEW Pts, NotYetPassed(jb, pts) => pts \in Pts,
           Holds(jb.queue, Pts, now + MAX_TARGET_MS)
    PROVE  LET after == Push(jb, pts, discardable, now)
           IN  /\ after \in Buffers /\ (after.arrival = Never) = (after.pts = Never)
               /\ after.played = jb.played
               /\ InQueueOrder(after.queue) /\ Holds(after.queue, Pts, now + MAX_TARGET_MS)
               /\ Len(after.queue) <= MAX_QUEUED_FRAMES
<1> DEFINE measured == Measured(jb, pts, now)
           adapted == AdaptTarget(measured, now)
<1>1. /\ measured \in Buffers /\ (measured.arrival = Never) = (measured.pts = Never)
      /\ measured.queue = jb.queue /\ measured.played = jb.played
  BY MeasuredOf
<1> HIDE DEF measured
<1>2. /\ adapted \in Buffers /\ adapted.queue = jb.queue /\ adapted.played = jb.played
      /\ (adapted.arrival = Never) = (adapted.pts = Never)
  <2>1. /\ adapted \in Buffers /\ adapted.queue = measured.queue /\ adapted.played = measured.played
        /\ adapted.arrival = measured.arrival /\ adapted.pts = measured.pts
    BY <1>1, AdaptTargetOf
  <2> QED BY <1>1, <2>1
<1> HIDE DEF adapted
<1>3. CASE ~NotYetPassed(jb, pts)
  <2>1. Push(jb, pts, discardable, now) = measured
    BY <1>3 DEF Push, measured
  <2> QED BY <1>1, <2>1
<1>4. CASE NotYetPassed(jb, pts)
  <2> DEFINE limit == now + MAX_TARGET_MS
             r == Insert(adapted, pts, discardable, now)
             q == EnforceCapacity(r)
             after == [adapted EXCEPT !.queue = q, !.emptySince = Never]
  <2>1. limit \in Nat /\ now + adapted.target <= limit
    <3>1. adapted.target \in MIN_TARGET_MS..MAX_TARGET_MS
      BY <1>2 DEF Buffers
    <3> QED BY <3>1, JitterAssumption
  <2> HIDE DEF limit
  <2>2. Holds(adapted.queue, Pts, limit)
    BY <1>2 DEF limit
  <2>3. /\ r \in Seq(Entries) /\ Len(r) = Len(jb.queue) + 1
        /\ InQueueOrder(r) /\ Holds(r, Pts, limit)
    <3>1. InQueueOrder(adapted.queue) /\ \A i \in DOMAIN adapted.queue : adapted.queue[i].pts # pts
      BY <1>2
    <3>2. /\ r \in Seq(Entries) /\ Len(r) = Len(adapted.queue) + 1
          /\ InQueueOrder(r) /\ Holds(r, Pts, limit)
      BY <1>2, <1>4, <2>1, <2>2, <3>1, InsertOf
    <3> QED BY <1>2, <3>2
  <2> HIDE DEF r
  <2>4. Len(r) <= MAX_QUEUED_FRAMES + 1
    <3>1. Len(jb.queue) \in Nat
      <4>1. jb.queue \in Seq(Entries)
        BY DEF Buffers
      <4> QED BY <4>1, LenProperties
    <3> QED BY <2>3, <3>1, JitterAssumption
  <2>5. q \in Seq(Entries) /\ InQueueOrder(q) /\ Holds(q, Pts, limit) /\ Len(q) <= MAX_QUEUED_FRAMES
    BY <2>3, <2>4, EnforceCapacityOf
  <2> HIDE DEF q
  <2>6. /\ after \in Buffers /\ after.queue = q /\ after.played = adapted.played
        /\ after.arrival = adapted.arrival /\ after.pts = adapted.pts
    BY <1>2, <2>5 DEF Buffers
  <2>7. Push(jb, pts, discardable, now) = after
    BY <1>4 DEF Push, adapted, measured, q, r
  <2> HIDE DEF after
  <2>8. Holds(q, Pts, now + MAX_TARGET_MS)
    BY <2>5 DEF limit
  <2> QED BY <1>2, <2>5, <2>6, <2>7, <2>8
<1> QED BY <1>3, <1>4

-----------------------------------------------------------------------------
(* Reassembly                                                              *)

\* What the host sent, and what the reassembler keeps of it.
SentFrames == [id : Nat, pts : Nat, pieces : Nat \ {0}, discardable : BOOLEAN]
Partials == [pts : Nat, count : Nat, filled : SUBSET Nat, since : Nat]

\* The fragment of a frame at an index.
PieceOf(frame, k) == [id |-> frame.id, pts |-> frame.pts, index |-> k, count |-> frame.pieces]

\* Frames carry their number; timestamps grow with it, up to now.
SentInOrder(frames, now) ==
    /\ frames \in Seq(SentFrames)
    /\ \A i \in DOMAIN frames : frames[i].id = i /\ frames[i].pts <= now
    /\ \A i, j \in DOMAIN frames : i < j => frames[i].pts < frames[j].pts

\* A fragment is one of those its frame was cut into.
IsPiece(f, frames) ==
    /\ f.id \in DOMAIN frames
    /\ \E k \in 0..(frames[f.id].pieces - 1) : f = PieceOf(frames[f.id], k)

\* The partial frames are of frames that were sent, and what they are filled with arrived.
FilledFrom(re, frames, come) ==
    /\ re \in [DOMAIN re -> Partials]
    /\ \A id \in DOMAIN re :
         /\ id \in DOMAIN frames
         /\ re[id].pts = frames[id].pts /\ re[id].count = frames[id].pieces
         /\ re[id].filled \subseteq 0..(re[id].count - 1)
         /\ \A k \in re[id].filled : PieceOf(frames[id], k) \in come

\* Leaving partial frames out.
LEMMA FewerPartials ==
    ASSUME NEW re, NEW new, NEW frames, NEW come, FilledFrom(re, frames, come),
           new = [x \in DOMAIN new |-> re[x]], DOMAIN new \in SUBSET (DOMAIN re)
    PROVE  FilledFrom(new, frames, come)
<1>1. \A x \in DOMAIN new : x \in DOMAIN re /\ new[x] = re[x]
  OBVIOUS
<1>2. \A x \in DOMAIN re : re[x] \in Partials
  BY DEF FilledFrom
<1>3. new \in [DOMAIN new -> Partials]
  BY <1>1, <1>2
<1> QED BY <1>1, <1>3 DEF FilledFrom

\* Expiry only leaves partial frames out.
LEMMA ExpireOf ==
    ASSUME NEW re, NEW frames, NEW come, NEW now, FilledFrom(re, frames, come)
    PROVE  /\ FilledFrom(Expire(re, now), frames, come)
           /\ DOMAIN Expire(re, now) \in SUBSET (DOMAIN re)
           /\ \A id \in DOMAIN Expire(re, now) : Expire(re, now)[id] = re[id]
<1> DEFINE kept == {x \in DOMAIN re : now - re[x].since <= FRAGMENT_TIMEOUT_MS}
           new == [x \in kept |-> re[x]]
<1>1. Expire(re, now) = new
  BY Zenon DEF Expire, RestrictValues, Restrict
<1>2. kept \in SUBSET (DOMAIN re)
  OBVIOUS
<1> HIDE DEF kept
<1>3. DOMAIN new = kept /\ new = [x \in DOMAIN new |-> re[x]] /\ \A x \in kept : new[x] = re[x]
  OBVIOUS
<1> HIDE DEF new
<1>4. FilledFrom(new, frames, come)
  BY <1>2, <1>3, FewerPartials
<1> QED BY <1>1, <1>2, <1>3, <1>4

\* So does forgetting one of them.
LEMMA WithoutOf ==
    ASSUME NEW re, NEW frames, NEW come, NEW id, FilledFrom(re, frames, come)
    PROVE  FilledFrom(Without(re, id), frames, come) /\ DOMAIN Without(re, id) = DOMAIN re \ {id}
<1> DEFINE new == [x \in DOMAIN re \ {id} |-> re[x]]
<1>1. Without(re, id) = new
  BY DEF Without, Restrict
<1>2. DOMAIN new = DOMAIN re \ {id} /\ new = [x \in DOMAIN new |-> re[x]]
  OBVIOUS
<1> HIDE DEF new
<1>3. FilledFrom(new, frames, come)
  BY <1>2, FewerPartials
<1> QED BY <1>1, <1>2, <1>3

\* A frame comes out of the reassembler only with the last of its fragments; the partial
\* frames it keeps are of what arrived, and no more than it may keep.
AcceptedWell(result, frames, come, f) ==
    /\ FilledFrom(result.re, frames, come \cup {f})
    /\ Cardinality(DOMAIN result.re) <= MAX_PARTIAL_FRAMES
    /\ \/ result.frame = Incomplete
       \/ /\ result.frame.pts = frames[f.id].pts
          /\ FragmentVideo(frames[f.id], frames[f.id].pieces) \subseteq come \cup {f}

\* Every fragment is accepted that way.
LEMMA AcceptOf ==
    ASSUME NEW old, NEW frames, NEW come, NEW now \in Nat, NEW f, NEW time,
           SentInOrder(frames, time), FilledFrom(old, frames, come), IsPiece(f, frames),
           f \notin come, Cardinality(DOMAIN old) <= MAX_PARTIAL_FRAMES
    PROVE  AcceptedWell(Accept(old, f, now), frames, come, f)
<1> SUFFICES LET result == Accept(old, f, now)
             IN  /\ FilledFrom(result.re, frames, come \cup {f})
                 /\ Cardinality(DOMAIN result.re) <= MAX_PARTIAL_FRAMES
                 /\ \/ result.frame = Incomplete
                    \/ /\ result.frame.pts = frames[f.id].pts
                       /\ FragmentVideo(frames[f.id], frames[f.id].pieces) \subseteq come \cup {f}
  BY DEF AcceptedWell
<1> USE ReassemblyAssumption
<1> DEFINE more == come \cup {f}
           frame == frames[f.id]
           re == Expire(old, now)
           part == PartialOf(re, f, now)
           withPart == [id \in DOMAIN re \cup {f.id} |-> IF id = f.id THEN part ELSE re[id]]
           disagrees == part.count # f.count \/ part.pts # f.pts
           filled == [part EXCEPT !.filled = @ \cup {f.index}]
           grown == [withPart EXCEPT ![f.id] = filled]
           whole == [id |-> f.id, pts |-> f.pts, pieces |-> filled.filled]
<1>1. /\ f.id \in DOMAIN frames /\ frame \in SentFrames /\ frame.id = f.id
      /\ frame.pts \in Nat /\ frame.pieces \in Nat \ {0}
      /\ IsFiniteSet(DOMAIN frames)
  <2>1. f.id \in DOMAIN frames
    BY DEF IsPiece
  <2>2. frames \in Seq(SentFrames)
    BY DEF SentInOrder
  <2>3. DOMAIN frames = 1..Len(frames) /\ Len(frames) \in Nat
    BY <2>2, LenProperties
  <2>4. frame \in SentFrames
    BY <2>1, <2>2, <2>3, ElementOfSeq
  <2>5. IsFiniteSet(1..Len(frames))
    BY <2>3, FS_Interval
  <2>6. frame.pts \in Nat /\ frame.pieces \in Nat \ {0}
    <3> HIDE DEF frame
    <3> QED BY <2>4 DEF SentFrames
  <2> QED BY <2>1, <2>3, <2>4, <2>5, <2>6 DEF SentInOrder
<1> HIDE DEF frame
<1>2. PICK k \in 0..(frame.pieces - 1) : f = PieceOf(frame, k)
  BY DEF IsPiece, frame
<1>3. /\ f.id = frame.id /\ f.pts = frame.pts /\ f.index = k /\ f.count = frame.pieces
      /\ k \in Nat
  <2>1. k \in Nat
    BY <1>1
  <2> QED BY <1>2, <2>1 DEF PieceOf
<1>4. /\ FilledFrom(re, frames, come) /\ DOMAIN re \in SUBSET (DOMAIN old)
  BY ExpireOf
<1>5. /\ IsFiniteSet(DOMAIN old) /\ Cardinality(DOMAIN old) \in Nat
      /\ IsFiniteSet(DOMAIN re) /\ Cardinality(DOMAIN re) \in Nat
      /\ Cardinality(DOMAIN re) <= MAX_PARTIAL_FRAMES
  <2>1. DOMAIN old \in SUBSET (DOMAIN frames)
    BY DEF FilledFrom
  <2>2. IsFiniteSet(DOMAIN old)
    BY <1>1, <2>1, FS_Subset
  <2>3. IsFiniteSet(DOMAIN re) /\ Cardinality(DOMAIN re) <= Cardinality(DOMAIN old)
    <3> HIDE DEF re
    <3> QED BY <1>4, <2>2, FS_Subset
  <2>4. Cardinality(DOMAIN old) \in Nat /\ Cardinality(DOMAIN re) \in Nat
    <3> HIDE DEF re
    <3> QED BY <2>2, <2>3, FS_CardinalityType
  <2> HIDE DEF re
  <2> QED BY <2>2, <2>3, <2>4
<1> HIDE DEF re
<1>6. /\ part \in Partials /\ part.pts = f.pts /\ part.count = f.count
      /\ part.filled \subseteq 0..(f.count - 1) /\ k \notin part.filled
      /\ \A j \in part.filled : PieceOf(frame, j) \in come
  <2>1. CASE f.id \in DOMAIN re
    <3>1. part = re[f.id]
      BY <2>1 DEF PartialOf
    <3>2. /\ re[f.id] \in Partials /\ re[f.id].pts = frame.pts /\ re[f.id].count = frame.pieces
          /\ re[f.id].filled \subseteq 0..(re[f.id].count - 1)
          /\ \A j \in re[f.id].filled : PieceOf(frame, j) \in come
      BY <1>4, <2>1 DEF FilledFrom, frame
    <3> HIDE DEF part
    <3>3. k \notin part.filled
      BY <1>2, <3>1, <3>2
    <3> QED BY <1>3, <3>1, <3>2, <3>3
  <2>2. CASE f.id \notin DOMAIN re
    <3>1. part = [pts |-> f.pts, count |-> f.count, filled |-> {}, since |-> now]
      BY <2>2 DEF PartialOf
    <3> HIDE DEF part
    <3>2. part.pts = f.pts /\ part.count = f.count /\ part.filled = {}
      BY <3>1
    <3>3. part \in Partials
      BY <1>1, <1>3, <3>1 DEF Partials
    <3> QED BY <3>2, <3>3
  <2> QED BY <2>1, <2>2
<1> HIDE DEF part
<1>7. ~disagrees /\ ~(f.index \in part.filled)
  BY <1>3, <1>6
<1>8. /\ filled \in Partials /\ filled.pts = f.pts /\ filled.count = f.count
      /\ filled.filled = part.filled \cup {k}
      /\ filled.filled \subseteq 0..(f.count - 1)
      /\ \A j \in filled.filled : PieceOf(frame, j) \in more
  <2>1. filled.pts = f.pts /\ filled.count = f.count /\ filled.filled = part.filled \cup {k}
    BY <1>3, <1>6 DEF Partials
  <2>2. part.filled \cup {k} \in SUBSET Nat
    BY <1>3, <1>6 DEF Partials
  <2>3. filled \in Partials
    BY <1>3, <1>6, <2>2 DEF Partials
  <2> HIDE DEF filled
  <2>4. part.filled \cup {k} \subseteq 0..(f.count - 1)
    BY <1>2, <1>3, <1>6
  <2> QED BY <1>2, <1>6, <2>1, <2>3, <2>4
<1> HIDE DEF filled
<1>9. /\ DOMAIN grown = DOMAIN re \cup {f.id} /\ grown[f.id] = filled
      /\ \A id \in DOMAIN re : id # f.id => grown[id] = re[id]
      /\ grown = [id \in DOMAIN re \cup {f.id} |-> grown[id]]
  OBVIOUS
<1> HIDE DEF grown
<1>10. FilledFrom(grown, frames, more)
  <2>1. \A id \in DOMAIN grown : grown[id] \in Partials
    BY <1>4, <1>8, <1>9 DEF FilledFrom
  <2>2. grown \in [DOMAIN grown -> Partials]
    BY <1>9, <2>1
  <2>3. ASSUME NEW id \in DOMAIN grown
        PROVE  /\ id \in DOMAIN frames
               /\ grown[id].pts = frames[id].pts /\ grown[id].count = frames[id].pieces
               /\ grown[id].filled \subseteq 0..(grown[id].count - 1)
               /\ \A j \in grown[id].filled : PieceOf(frames[id], j) \in more
    <3>1. CASE id = f.id
      BY <1>1, <1>3, <1>8, <1>9, <3>1 DEF frame
    <3>2. CASE id # f.id
      <4>1. id \in DOMAIN re /\ grown[id] = re[id]
        BY <1>9, <3>2
      <4> QED BY <1>4, <4>1 DEF FilledFrom
    <3> QED BY <3>1, <3>2
  <2> HIDE DEF more
  <2> QED BY <2>2, <2>3 DEF FilledFrom
<1>11. FilledFrom(re, frames, more)
  BY <1>4 DEF FilledFrom
<1>12. IsFiniteSet(DOMAIN grown) /\ Cardinality(DOMAIN grown) \in Nat
         /\ Cardinality(DOMAIN grown) <= MAX_PARTIAL_FRAMES + 1
         /\ f.id \in DOMAIN grown
  <2>1. IsFiniteSet(DOMAIN re \cup {f.id})
          /\ Cardinality(DOMAIN re \cup {f.id})
               = IF f.id \in DOMAIN re THEN Cardinality(DOMAIN re) ELSE Cardinality(DOMAIN re) + 1
    BY <1>5, FS_AddElement
  <2> QED BY <1>5, <1>9, <2>1
<1> HIDE DEF more
<1>13. Accept(old, f, now) =
         IF f.count = 1 /\ f.id \notin DOMAIN re
           THEN [re |-> re, frame |-> whole]
         ELSE IF disagrees \/ f.index \in part.filled
           THEN [re |-> withPart, frame |-> Incomplete]
         ELSE IF IsComplete(filled)
           THEN [re |-> Without(grown, f.id), frame |-> whole]
         ELSE IF Cardinality(DOMAIN grown) > MAX_PARTIAL_FRAMES
           THEN [re |-> Without(grown, Oldest(grown)), frame |-> Incomplete]
         ELSE [re |-> grown, frame |-> Incomplete]
  BY Zenon DEF Accept, re, part, filled, grown
<1>14. ASSUME filled.filled = 0..(f.count - 1)
       PROVE  whole.pts = frames[f.id].pts /\ FragmentVideo(frames[f.id], frames[f.id].pieces) \subseteq more
  <2>1. whole.pts = frame.pts
    BY <1>3
  <2>2. ASSUME NEW x \in FragmentVideo(frame, frame.pieces) PROVE x \in more
    <3>1. PICK j \in 0..(frame.pieces - 1) :
            x = [id |-> frame.id, pts |-> frame.pts, index |-> j, count |-> frame.pieces]
      BY DEF FragmentVideo
    <3>2. x = PieceOf(frame, j)
      BY <3>1 DEF PieceOf
    <3>3. j \in filled.filled
      BY <1>3, <1>14, <3>1
    <3> QED BY <1>8, <3>2, <3>3
  <2> QED BY <2>1, <2>2 DEF frame
<1> HIDE DEF whole
<1>15. CASE f.count = 1 /\ f.id \notin DOMAIN re
  <2>1. Accept(old, f, now) = [re |-> re, frame |-> whole]
    BY <1>13, <1>15
  <2>2. Accept(old, f, now).re = re /\ Accept(old, f, now).frame = whole
    BY <2>1
  <2>3. filled.filled = 0..(f.count - 1)
    <3>1. 0..(f.count - 1) = {k} /\ k \in filled.filled
      BY <1>2, <1>3, <1>8, <1>15
    <3> QED BY <1>8, <3>1
  <2> QED BY <1>5, <1>11, <1>14, <2>2, <2>3 DEF more
<1>16. CASE ~(f.count = 1 /\ f.id \notin DOMAIN re) /\ IsComplete(filled)
  <2>1. Accept(old, f, now) = [re |-> Without(grown, f.id), frame |-> whole]
    BY <1>7, <1>13, <1>16
  <2>2. Accept(old, f, now).re = Without(grown, f.id) /\ Accept(old, f, now).frame = whole
    BY <2>1
  <2>3. filled.filled = 0..(f.count - 1)
    <3>1. f.count \in Nat \ {0}
      BY <1>1, <1>3
    <3>2. IsFiniteSet(0..(f.count - 1)) /\ Cardinality(0..(f.count - 1)) = f.count
      <4>1. 0 \in Int /\ f.count - 1 \in Int /\ ~(0 > f.count - 1) /\ (f.count - 1) - 0 + 1 = f.count
        BY <3>1
      <4> QED BY <4>1, FS_Interval
    <3>3. Cardinality(filled.filled) = Cardinality(0..(f.count - 1))
      BY <1>8, <1>16, <3>2 DEF IsComplete
    <3>4. filled.filled \in SUBSET (0..(f.count - 1))
      BY <1>8
    <3> QED BY <3>2, <3>3, <3>4, FS_Subset
  <2>4. FilledFrom(Without(grown, f.id), frames, more) /\ DOMAIN Without(grown, f.id) = DOMAIN grown \ {f.id}
    BY <1>10, WithoutOf
  <2>5. Cardinality(DOMAIN grown \ {f.id}) = Cardinality(DOMAIN grown) - 1
    BY <1>12, FS_RemoveElement
  <2>6. Cardinality(DOMAIN Without(grown, f.id)) <= MAX_PARTIAL_FRAMES
    BY <1>12, <2>4, <2>5
  <2> QED BY <1>14, <2>2, <2>3, <2>4, <2>6 DEF more
<1>17. CASE ~(f.count = 1 /\ f.id \notin DOMAIN re) /\ ~IsComplete(filled)
            /\ Cardinality(DOMAIN grown) > MAX_PARTIAL_FRAMES
  <2> DEFINE gone == Oldest(grown)
  <2>1. Accept(old, f, now) = [re |-> Without(grown, gone), frame |-> Incomplete]
    BY <1>7, <1>13, <1>17
  <2>2. Accept(old, f, now).re = Without(grown, gone) /\ Accept(old, f, now).frame = Incomplete
    BY <2>1
  <2>3. gone \in DOMAIN grown
    <3> DEFINE S == {grown[id].since : id \in DOMAIN grown}
    <3>1. \A id \in DOMAIN grown : grown[id].since \in Nat
      <4>1. \A id \in DOMAIN grown : grown[id] \in Partials
        BY <1>10 DEF FilledFrom
      <4> QED BY <4>1 DEF Partials
    <3>2. S \in SUBSET Nat /\ S # {}
      BY <1>12, <3>1
    <3>3. PICK s \in S : \A y \in S : s <= y
      <4> HIDE DEF S
      <4> QED BY <3>2, LeastNatural
    <3>4. \E id \in DOMAIN grown : \A other \in DOMAIN grown : grown[id].since <= grown[other].since
      BY <3>3
    <3> QED BY <3>4 DEF Oldest
  <2> HIDE DEF gone
  <2>4. FilledFrom(Without(grown, gone), frames, more) /\ DOMAIN Without(grown, gone) = DOMAIN grown \ {gone}
    BY <1>10, WithoutOf
  <2>5. Cardinality(DOMAIN grown \ {gone}) = Cardinality(DOMAIN grown) - 1
    BY <1>12, <2>3, FS_RemoveElement
  <2>6. Cardinality(DOMAIN Without(grown, gone)) <= MAX_PARTIAL_FRAMES
    BY <1>12, <2>4, <2>5
  <2> QED BY <2>2, <2>4, <2>6 DEF more
<1>18. CASE ~(f.count = 1 /\ f.id \notin DOMAIN re) /\ ~IsComplete(filled)
            /\ ~(Cardinality(DOMAIN grown) > MAX_PARTIAL_FRAMES)
  <2>1. Accept(old, f, now) = [re |-> grown, frame |-> Incomplete]
    BY <1>7, <1>13, <1>18
  <2>2. Accept(old, f, now).re = grown /\ Accept(old, f, now).frame = Incomplete
    BY <2>1
  <2>3. Cardinality(DOMAIN grown) <= MAX_PARTIAL_FRAMES
    BY <1>12, <1>18
  <2> QED BY <1>10, <2>2, <2>3 DEF more
<1> QED BY <1>15, <1>16, <1>17, <1>18

-----------------------------------------------------------------------------
(* Playout. The jitter buffer and the reassembler are functions of their   *)
(* state. So there is a lemma for each of their operations, of what it     *)
(* leaves true, and the steps of Playout put them together. The frames of  *)
(* which every fragment arrived (WholeOf) link the three parts: only they  *)
(* leave the reassembler, wait in the queue, and were played.              *)

\* The timestamps of the frames of which everything arrived, and those of them that
\* are later than the last one played.
WholeOf(frames, come) ==
    {frames[id].pts : id \in {i \in DOMAIN frames : FragmentVideo(frames[i], frames[i].pieces) \subseteq come}}
Ahead(P, last) == {p \in P : last = Never \/ p > last}

\* The buffer holds whole frames, later than the one played, in order and in time.
BufferOK(jb, W, limit) ==
    /\ jb \in Buffers /\ (jb.arrival = Never) = (jb.pts = Never)
    /\ InQueueOrder(jb.queue) /\ Len(jb.queue) <= MAX_QUEUED_FRAMES
    /\ Holds(jb.queue, Ahead(W, jb.played), limit)

\* What was played was whole, in order, and up to the last one.
PlayedOK(out, last, W) ==
    /\ out \in Seq(Nat)
    /\ \A i \in DOMAIN out : out[i] \in W /\ last # Never /\ out[i] <= last
    /\ \A i, j \in DOMAIN out : i < j => out[i] < out[j]

\* The inductive invariant.
PlayInv ==
    /\ playNow \in 0..PlayTime /\ Len(sent) <= PlayFrames
    /\ SentInOrder(sent, playNow)
    /\ network \cap received = {}
    /\ \A f \in network \cup received : IsPiece(f, sent)
    /\ FilledFrom(reassembler, sent, received)
    /\ Cardinality(DOMAIN reassembler) <= MAX_PARTIAL_FRAMES
    /\ BufferOK(jitter, WholeOf(sent, received), playNow + MAX_TARGET_MS)
    /\ PlayedOK(played, jitter.played, WholeOf(sent, received))

\* More frames whole, and more time passed, leave the buffer and what was played right.
LEMMA MoreIsFine ==
    ASSUME NEW jb, NEW W, NEW V, W \subseteq V, NEW limit \in Nat, NEW later \in Nat, limit <= later,
           BufferOK(jb, W, limit), NEW out, PlayedOK(out, jb.played, W)
    PROVE  BufferOK(jb, V, later) /\ PlayedOK(out, jb.played, V)
<1>1. jb.queue \in Seq(Entries)
  BY DEF BufferOK, Buffers
<1>2. \A i \in DOMAIN jb.queue : jb.queue[i].due \in Nat
  <2>1. \A i \in DOMAIN jb.queue : jb.queue[i] \in Entries
    BY <1>1, ElementOfSeq, LenProperties
  <2> QED BY <2>1 DEF Entries
<1>3. Holds(jb.queue, Ahead(V, jb.played), later)
  <2> SUFFICES ASSUME NEW i \in DOMAIN jb.queue
               PROVE  jb.queue[i].pts \in Ahead(V, jb.played) /\ jb.queue[i].due <= later
    BY DEF Holds
  <2>1. jb.queue[i].pts \in Ahead(W, jb.played) /\ jb.queue[i].due <= limit
    BY DEF BufferOK, Holds
  <2>2. jb.queue[i].pts \in Ahead(V, jb.played)
    BY <2>1 DEF Ahead
  <2> QED BY <1>2, <2>1, <2>2
<1>4. PlayedOK(out, jb.played, V)
  BY DEF PlayedOK
<1> QED BY <1>3, <1>4 DEF BufferOK

\* The poll that ends every turn.
LEMMA TurnEnds ==
    ASSUME NEW buffer, NEW W \in SUBSET Nat, NEW limit, playNow \in Nat, BufferOK(buffer, W, limit),
           PlayedOK(played, buffer.played, W), PollAndPlay(buffer)
    PROVE  BufferOK(jitter', W, limit) /\ PlayedOK(played', jitter'.played, W)
<1> USE JitterAssumption
<1> DEFINE result == Poll(buffer, playNow)
           after == result.jb
           Pts == Ahead(W, buffer.played)
<1>1. buffer \in Buffers /\ buffer.played \in Nat \cup {Never} /\ Len(buffer.queue) \in Nat
  <2>1. buffer \in Buffers
    BY DEF BufferOK
  <2>2. buffer.played \in Nat \cup {Never} /\ buffer.queue \in Seq(Entries)
    BY <2>1 DEF Buffers
  <2> QED BY <2>1, <2>2, LenProperties
<1>2. /\ after \in Buffers /\ InQueueOrder(after.queue) /\ Holds(after.queue, Pts, limit)
      /\ Len(after.queue) <= Len(buffer.queue)
      /\ after.arrival = buffer.arrival /\ after.pts = buffer.pts
      /\ \/ result.out # "play" /\ after.played = buffer.played
         \/ /\ result.out = "play" /\ after.played \in Pts /\ after.played \in Nat
            /\ \A i \in DOMAIN after.queue : after.played < after.queue[i].pts
  <2>1. InQueueOrder(buffer.queue) /\ Holds(buffer.queue, Pts, limit)
    BY DEF BufferOK
  <2> HIDE DEF Pts
  <2> QED BY <1>1, <2>1, PollOf
<1>3. jitter' = after /\ played' = IF result.out = "play" THEN Append(played, after.played) ELSE played
  BY DEF PollAndPlay
<1> HIDE DEF result
<1> HIDE DEF after
<1>4. Len(after.queue) <= MAX_QUEUED_FRAMES
  <2>1. after.queue \in Seq(Entries)
    BY <1>2 DEF Buffers
  <2>2. Len(after.queue) \in Nat
    BY <2>1, LenProperties
  <2> QED BY <1>1, <1>2, <2>2 DEF BufferOK
<1>5. (after.arrival = Never) = (after.pts = Never)
  BY <1>2 DEF BufferOK
<1>6. CASE result.out # "play" /\ after.played = buffer.played
  <2>1. BufferOK(after, W, limit)
    BY <1>2, <1>4, <1>5, <1>6 DEF BufferOK
  <2> QED BY <1>3, <1>6, <2>1
<1>7. CASE result.out = "play" /\ after.played \in Pts /\ after.played \in Nat
           /\ \A i \in DOMAIN after.queue : after.played < after.queue[i].pts
  <2>1. after.played \in W /\ after.played # Never /\ (buffer.played = Never \/ after.played > buffer.played)
    BY <1>7 DEF Ahead
  <2>2. Holds(after.queue, Ahead(W, after.played), limit)
    <3> SUFFICES ASSUME NEW i \in DOMAIN after.queue
                 PROVE  after.queue[i].pts \in Ahead(W, after.played) /\ after.queue[i].due <= limit
      BY DEF Holds
    <3>1. after.queue[i].pts \in W /\ after.queue[i].due <= limit
      BY <1>2 DEF Holds, Ahead
    <3>2. after.queue[i].pts \in Nat /\ after.played < after.queue[i].pts
      BY <1>7, <3>1
    <3> QED BY <1>7, <3>1, <3>2 DEF Ahead
  <2>3. BufferOK(after, W, limit)
    BY <1>2, <1>4, <1>5, <2>2 DEF BufferOK
  <2> DEFINE last == after.played
             out == Append(played, last)
  <2>4. played' = out
    BY <1>3, <1>7
  <2>5. played \in Seq(Nat)
    BY DEF PlayedOK
  <2>a. last \in Nat
    BY <1>7
  <2> HIDE DEF last
  <2>6. /\ out \in Seq(Nat) /\ out[Len(played) + 1] = last
        /\ \A k \in DOMAIN played : out[k] = played[k]
        /\ \A k \in DOMAIN out : k \in DOMAIN played \/ k = Len(played) + 1
    BY <2>5, <2>a, AppendOf
  <2> HIDE DEF out
  <2>7. DOMAIN played = 1..Len(played) /\ Len(played) \in Nat /\ \A k \in DOMAIN played : played[k] \in Nat
    BY <2>5, LenProperties, ElementOfSeq
  <2>8. \A k \in DOMAIN played : played[k] < last
    <3> SUFFICES ASSUME NEW k \in DOMAIN played PROVE played[k] < last
      OBVIOUS
    <3>1. buffer.played # Never /\ played[k] <= buffer.played
      BY DEF PlayedOK
    <3>2. buffer.played \in Nat /\ last > buffer.played
      BY <1>1, <2>1, <3>1 DEF last
    <3> QED BY <2>7, <2>a, <3>1, <3>2
  <2>9. \A i \in DOMAIN out : out[i] \in W /\ last # Never /\ out[i] <= last
    <3> SUFFICES ASSUME NEW i \in DOMAIN out PROVE out[i] \in W /\ last # Never /\ out[i] <= last
      OBVIOUS
    <3>1. CASE i \in DOMAIN played
      <4>1. out[i] = played[i] /\ played[i] \in W /\ played[i] < last /\ played[i] \in Nat
        BY <2>6, <2>7, <2>8, <3>1 DEF PlayedOK
      <4> QED BY <2>1, <2>a, <4>1 DEF last
    <3>2. CASE i = Len(played) + 1
      BY <2>1, <2>6, <2>a, <3>2 DEF last
    <3> QED BY <2>6, <3>1, <3>2
  <2>10. ASSUME NEW i \in DOMAIN out, NEW j \in DOMAIN out, i < j PROVE out[i] < out[j]
    <3>1. i \in DOMAIN played
      <4>1. i # Len(played) + 1
        BY <2>6, <2>7, <2>10
      <4> QED BY <2>6, <4>1
    <3>2. CASE j \in DOMAIN played
      BY <2>6, <2>10, <3>1, <3>2 DEF PlayedOK
    <3>3. CASE j = Len(played) + 1
      BY <2>6, <2>8, <3>1, <3>3
    <3> QED BY <2>6, <3>2, <3>3
  <2>11. PlayedOK(out, last, W)
    BY <2>6, <2>9, <2>10 DEF PlayedOK
  <2> QED BY <1>3, <2>3, <2>4, <2>11 DEF last
<1> QED BY <1>2, <1>6, <1>7

\* It holds at the start.
LEMMA PlayInitially == PlayoutInit => PlayInv
<1> SUFFICES ASSUME PlayoutInit PROVE PlayInv
  OBVIOUS
<1> USE PlayoutAssumption, ReassemblyAssumption, JitterAssumption
<1>1. playNow \in 0..PlayTime /\ sent = <<>> /\ Len(sent) <= PlayFrames /\ network = {} /\ received = {}
        /\ played = <<>> /\ jitter = EmptyBuffer /\ reassembler = EmptyReassembler
  BY DEF PlayoutInit
<1>2. SentInOrder(sent, playNow)
  BY <1>1 DEF SentInOrder
<1>3. DOMAIN reassembler = {}
  BY <1>1 DEF EmptyReassembler
<1>4. FilledFrom(reassembler, sent, received)
  <2>1. reassembler = [id \in {} |-> Incomplete]
    BY <1>1 DEF EmptyReassembler
  <2>2. reassembler \in [DOMAIN reassembler -> Partials]
    BY <2>1
  <2> QED BY <1>3, <2>2 DEF FilledFrom
<1>5. Cardinality(DOMAIN reassembler) <= MAX_PARTIAL_FRAMES
  BY <1>3, FS_EmptySet
<1>6. EmptyBuffer \in Buffers
  BY DEF EmptyBuffer, Buffers
<1>7. EmptyBuffer.arrival = Never /\ EmptyBuffer.pts = Never /\ EmptyBuffer.queue = <<>>
  BY DEF EmptyBuffer
<1>8. ASSUME NEW W, NEW limit PROVE BufferOK(EmptyBuffer, W, limit)
  <2>1. Len(EmptyBuffer.queue) <= MAX_QUEUED_FRAMES /\ DOMAIN EmptyBuffer.queue = {}
    BY <1>7
  <2>2. InQueueOrder(EmptyBuffer.queue) /\ \A P : Holds(EmptyBuffer.queue, P, limit)
    BY <2>1 DEF InQueueOrder, Holds
  <2> QED BY <1>6, <1>7, <2>1, <2>2 DEF BufferOK
<1>9. PlayedOK(played, jitter.played, WholeOf(sent, received))
  BY <1>1 DEF PlayedOK
<1> QED BY <1>1, <1>2, <1>4, <1>5, <1>8, <1>9 DEF PlayInv

\* Whole frames stay whole when more are sent and more arrives.
LEMMA WholeGrows ==
    ASSUME NEW frames, NEW more, NEW come, NEW now, DOMAIN frames \subseteq DOMAIN more,
           \A i \in DOMAIN frames : more[i] = frames[i], NEW arrivedThen, come \subseteq arrivedThen
    PROVE  WholeOf(frames, come) \subseteq WholeOf(more, arrivedThen)
<1> SUFFICES ASSUME NEW p \in WholeOf(frames, come) PROVE p \in WholeOf(more, arrivedThen)
  OBVIOUS
<1>1. PICK i \in DOMAIN frames : p = frames[i].pts /\ FragmentVideo(frames[i], frames[i].pieces) \subseteq come
  BY DEF WholeOf
<1>2. i \in DOMAIN more /\ more[i] = frames[i] /\ FragmentVideo(more[i], more[i].pieces) \subseteq arrivedThen
  BY <1>1
<1> QED BY <1>1, <1>2 DEF WholeOf

\* They are numbers.
LEMMA WholeAreNumbers ==
    ASSUME NEW frames, NEW now, SentInOrder(frames, now), NEW come
    PROVE  WholeOf(frames, come) \in SUBSET Nat
<1>1. \A i \in DOMAIN frames : frames[i] \in SentFrames
  BY ElementOfSeq, LenProperties DEF SentInOrder
<1>2. \A i \in DOMAIN frames : frames[i].pts \in Nat
  BY <1>1 DEF SentFrames
<1> QED BY <1>2 DEF WholeOf

\* A frame that is sent is the latest, and nothing of it arrived.
LEMMA SendStep == PlayInv /\ SendVideo => PlayInv'
<1> SUFFICES ASSUME PlayInv, SendVideo PROVE PlayInv'
  OBVIOUS
<1> USE PlayoutAssumption
<1>1. PICK pieces \in PieceCounts :
        LET frame == [id |-> Len(sent) + 1, pts |-> playNow,
                      pieces |-> pieces, discardable |-> Len(sent) + 1 \in UpperLayer]
        IN  /\ sent' = Append(sent, frame)
            /\ network' = network \cup FragmentVideo(frame, pieces)
  BY DEF SendVideo
<1> DEFINE n == Len(sent) + 1
           frame == [id |-> n, pts |-> playNow, pieces |-> pieces, discardable |-> n \in UpperLayer]
<1>2. /\ sent' = Append(sent, frame) /\ network' = network \cup FragmentVideo(frame, pieces)
      /\ UNCHANGED <<playNow, received, reassembler, jitter, played>>
      /\ Len(sent) < PlayFrames /\ \A i \in DOMAIN sent : sent[i].pts < playNow
  BY <1>1 DEF SendVideo
<1>3. sent \in Seq(SentFrames) /\ playNow \in Nat /\ Len(sent) \in Nat /\ n \in Nat /\ pieces \in Nat \ {0}
        /\ DOMAIN sent = 1..Len(sent)
  <2>1. sent \in Seq(SentFrames)
    BY DEF PlayInv, SentInOrder
  <2>2. Len(sent) \in Nat /\ DOMAIN sent = 1..Len(sent)
    BY <2>1, LenProperties
  <2> QED BY <2>1, <2>2 DEF PlayInv
<1>4. frame \in SentFrames /\ frame.id = n /\ frame.pts = playNow /\ frame.pieces = pieces
  BY <1>3 DEF SentFrames
<1> HIDE DEF frame
<1>5. /\ sent' \in Seq(SentFrames) /\ DOMAIN sent \subseteq DOMAIN sent'
      /\ Len(sent') = n /\ n \in DOMAIN sent' /\ sent'[n] = frame
      /\ \A k \in DOMAIN sent : sent'[k] = sent[k]
      /\ \A k \in DOMAIN sent' : k \in DOMAIN sent \/ k = n
  BY <1>2, <1>3, <1>4, AppendOf
<1>6. n \notin DOMAIN sent /\ \A k \in DOMAIN sent : k < n /\ k \in Int
  BY <1>3
<1> HIDE DEF n
<1>7. SentInOrder(sent', playNow')
  <2>1. \A i \in DOMAIN sent' : sent'[i].id = i /\ sent'[i].pts <= playNow'
    BY <1>2, <1>3, <1>4, <1>5 DEF PlayInv, SentInOrder
  <2>2. ASSUME NEW i \in DOMAIN sent', NEW j \in DOMAIN sent', i < j PROVE sent'[i].pts < sent'[j].pts
    <3>1. i \in DOMAIN sent
      <4> SUFFICES ASSUME i = n PROVE FALSE
        BY <1>5
      <4> QED BY <1>3, <1>5, <1>6, <2>2
    <3>2. CASE j \in DOMAIN sent
      BY <1>5, <2>2, <3>1, <3>2 DEF PlayInv, SentInOrder
    <3>3. CASE j = n
      BY <1>2, <1>4, <1>5, <3>1, <3>3
    <3> QED BY <1>5, <3>2, <3>3
  <2> QED BY <1>5, <2>1, <2>2 DEF SentInOrder
<1>8. ASSUME NEW f, IsPiece(f, sent) PROVE IsPiece(f, sent') /\ f.id # n
  <2>1. f.id \in DOMAIN sent
    BY <1>8 DEF IsPiece
  <2>2. f.id \in DOMAIN sent' /\ sent'[f.id] = sent[f.id] /\ f.id # n
    BY <1>5, <1>6, <2>1
  <2> QED BY <1>8, <2>2 DEF IsPiece
<1>9. ASSUME NEW f \in FragmentVideo(frame, pieces) PROVE IsPiece(f, sent') /\ f.id = n
  <2>1. PICK k \in 0..(pieces - 1) : f = [id |-> frame.id, pts |-> frame.pts, index |-> k, count |-> pieces]
    BY DEF FragmentVideo
  <2>2. f.id = n /\ f = PieceOf(frame, k)
    BY <1>4, <2>1 DEF PieceOf
  <2> QED BY <1>4, <1>5, <2>1, <2>2 DEF IsPiece
<1>10. network' \cap received' = {} /\ \A f \in network' \cup received' : IsPiece(f, sent')
  BY <1>2, <1>8, <1>9 DEF PlayInv
<1>11. FilledFrom(reassembler', sent', received')
  <2>1. \A id \in DOMAIN reassembler : id \in DOMAIN sent /\ id \in DOMAIN sent' /\ sent'[id] = sent[id]
    BY <1>5 DEF PlayInv, FilledFrom
  <2> QED BY <1>2, <2>1 DEF PlayInv, FilledFrom
<1>12. WholeOf(sent, received) \subseteq WholeOf(sent', received')
  BY <1>2, <1>5, WholeGrows
<1>13. playNow + MAX_TARGET_MS \in Nat
  BY <1>3, JitterAssumption
<1>14. /\ BufferOK(jitter, WholeOf(sent', received'), playNow + MAX_TARGET_MS)
       /\ PlayedOK(played, jitter.played, WholeOf(sent', received'))
  <2> DEFINE W == WholeOf(sent, received)
             V == WholeOf(sent', received')
             limit == playNow + MAX_TARGET_MS
  <2>1. BufferOK(jitter, W, limit) /\ PlayedOK(played, jitter.played, W) /\ W \subseteq V
          /\ limit \in Nat
    BY <1>12, <1>13 DEF PlayInv
  <2> HIDE DEF W, V, limit
  <2>2. limit <= limit
    BY <2>1
  <2>3. BufferOK(jitter, V, limit) /\ PlayedOK(played, jitter.played, V)
    BY <2>1, <2>2, MoreIsFine
  <2> QED BY <2>3 DEF V, limit
<1>15. Len(sent') <= PlayFrames
  BY <1>2, <1>3, <1>5 DEF n
<1> QED BY <1>2, <1>7, <1>10, <1>11, <1>14, <1>15 DEF PlayInv

\* Time only moves the limit of the deadlines.
LEMMA TickStep == PlayInv /\ PlayTick => PlayInv'
<1> SUFFICES ASSUME PlayInv, PlayTick PROVE PlayInv'
  OBVIOUS
<1> USE PlayoutAssumption, JitterAssumption
<1>1. /\ playNow \in Nat /\ playNow' = playNow + 1 /\ playNow' \in 0..PlayTime
      /\ UNCHANGED <<sent, network, received, reassembler, jitter, played>>
  BY DEF PlayInv, PlayTick
<1>2. SentInOrder(sent, playNow')
  <2>1. \A i \in DOMAIN sent : sent[i] \in SentFrames
    BY ElementOfSeq, LenProperties DEF PlayInv, SentInOrder
  <2>2. \A i \in DOMAIN sent : sent[i].pts \in Nat
    BY <2>1 DEF SentFrames
  <2> QED BY <1>1, <2>2 DEF PlayInv, SentInOrder
<1> DEFINE W == WholeOf(sent, received)
           limit == playNow + MAX_TARGET_MS
           later == playNow' + MAX_TARGET_MS
<1>3. limit \in Nat /\ later \in Nat /\ limit <= later
  BY <1>1
<1>4. BufferOK(jitter, W, limit) /\ PlayedOK(played, jitter.played, W)
  BY DEF PlayInv
<1> HIDE DEF W, limit, later
<1>5. BufferOK(jitter, W, later) /\ PlayedOK(played, jitter.played, W)
  BY <1>3, <1>4, MoreIsFine
<1> QED BY <1>1, <1>2, <1>5 DEF PlayInv, W, later

\* A fragment goes through the reassembler, and the frame it completes into the queue.
LEMMA FragmentStep == PlayInv /\ TurnWithFragment => PlayInv'
<1> SUFFICES ASSUME PlayInv, TurnWithFragment PROVE PlayInv'
  OBVIOUS
<1>1. PICK f \in network :
        LET result == Accept(reassembler, f, playNow)
        IN  /\ network' = network \ {f}
            /\ received' = received \cup {f}
            /\ reassembler' = result.re
            /\ PollAndPlay(IF result.frame = Incomplete THEN jitter
                           ELSE Push(jitter, result.frame.pts, sent[f.id].discardable, playNow))
  BY DEF TurnWithFragment
<1> DEFINE result == Accept(reassembler, f, playNow)
           pts == result.frame.pts
           W == WholeOf(sent, received)
           V == WholeOf(sent, received \cup {f})
           limit == playNow + MAX_TARGET_MS
           buffer == IF result.frame = Incomplete THEN jitter
                     ELSE Push(jitter, pts, sent[f.id].discardable, playNow)
<1>2. /\ network' = network \ {f} /\ received' = received \cup {f} /\ reassembler' = result.re
      /\ PollAndPlay(buffer) /\ UNCHANGED <<playNow, sent>>
  BY <1>1 DEF TurnWithFragment
<1>3. /\ playNow \in Nat /\ SentInOrder(sent, playNow) /\ IsPiece(f, sent) /\ f \notin received
      /\ FilledFrom(reassembler, sent, received)
      /\ Cardinality(DOMAIN reassembler) <= MAX_PARTIAL_FRAMES
  BY PlayoutAssumption DEF PlayInv
<1>4. /\ FilledFrom(result.re, sent, received \cup {f})
      /\ Cardinality(DOMAIN result.re) <= MAX_PARTIAL_FRAMES
      /\ \/ result.frame = Incomplete
         \/ /\ pts = sent[f.id].pts
            /\ FragmentVideo(sent[f.id], sent[f.id].pieces) \subseteq received \cup {f}
  <2>1. AcceptedWell(result, sent, received, f)
    BY <1>3, AcceptOf
  <2> HIDE DEF result
  <2> QED BY <2>1 DEF AcceptedWell
<1> HIDE DEF result
<1>5. W \subseteq V /\ V \in SUBSET Nat /\ limit \in Nat /\ limit <= limit
  <2>1. W \subseteq V
    BY WholeGrows
  <2>2. V \in SUBSET Nat
    BY <1>3, WholeAreNumbers
  <2>3. limit \in Nat /\ limit <= limit
    BY <1>3, JitterAssumption
  <2> QED BY <2>1, <2>2, <2>3
<1>6. BufferOK(jitter, W, limit) /\ PlayedOK(played, jitter.played, W)
  BY DEF PlayInv
<1>7. f.id \in DOMAIN sent /\ sent[f.id] \in SentFrames
  <2>1. f.id \in DOMAIN sent /\ sent \in Seq(SentFrames)
    BY <1>3 DEF IsPiece, SentInOrder
  <2> QED BY <2>1, ElementOfSeq, LenProperties
<1>8. sent[f.id].pts \in Nat /\ sent[f.id].discardable \in BOOLEAN
  BY <1>7 DEF SentFrames
<1>9. sent[f.id].pts \notin W
  <2> SUFFICES ASSUME sent[f.id].pts \in W PROVE FALSE
    OBVIOUS
  <2>1. PICK i \in DOMAIN sent : sent[i].pts = sent[f.id].pts /\ FragmentVideo(sent[i], sent[i].pieces) \subseteq received
    BY DEF WholeOf
  <2>2. i = f.id
    <3>1. i \in Int /\ f.id \in Int
      <4>1. DOMAIN sent = 1..Len(sent)
        BY <1>3, LenProperties DEF SentInOrder
      <4> QED BY <1>7, <2>1, <4>1
    <3>2. ~(i < f.id) /\ ~(f.id < i)
      <4>1. \A a \in Nat : ~(a < a)
        OBVIOUS
      <4> QED BY <1>3, <1>7, <1>8, <2>1, <4>1 DEF SentInOrder
    <3> QED BY <3>1, <3>2
  <2>3. f \in FragmentVideo(sent[f.id], sent[f.id].pieces)
    BY <1>3 DEF IsPiece, PieceOf, FragmentVideo
  <2> QED BY <1>3, <2>1, <2>2, <2>3
<1>10. BufferOK(jitter, V, limit) /\ PlayedOK(played, jitter.played, V)
  <2> HIDE DEF W, V, limit
  <2> QED BY <1>5, <1>6, MoreIsFine
<1>11. BufferOK(buffer, V, limit) /\ buffer.played = jitter.played
  <2>1. CASE result.frame = Incomplete
    BY <1>10, <2>1
  <2>2. CASE result.frame # Incomplete
    <3> DEFINE stamp == sent[f.id].pts
               kept == sent[f.id].discardable
               Pts == Ahead(V, jitter.played)
               pushed == Push(jitter, stamp, kept, playNow)
    <3>1. buffer = pushed
      BY <1>4, <2>2
    <3>2. stamp \in V
      BY <1>4, <1>7, <2>2 DEF WholeOf
    <3>3. \A i \in DOMAIN jitter.queue : jitter.queue[i].pts # stamp
      <4>1. \A i \in DOMAIN jitter.queue : jitter.queue[i].pts \in W
        BY <1>6 DEF BufferOK, Holds, Ahead
      <4> HIDE DEF W
      <4> QED BY <1>9, <4>1
    <3>4. stamp \in Nat /\ kept \in BOOLEAN
      BY <1>8
    <3> HIDE DEF stamp, kept, V
    <3>5. NotYetPassed(jitter, stamp) => stamp \in Pts
      BY <3>2 DEF NotYetPassed, Ahead
    <3>6. /\ jitter \in Buffers /\ (jitter.arrival = Never) = (jitter.pts = Never)
          /\ InQueueOrder(jitter.queue) /\ Len(jitter.queue) <= MAX_QUEUED_FRAMES
          /\ Holds(jitter.queue, Pts, playNow + MAX_TARGET_MS)
      BY <1>10 DEF BufferOK
    <3> HIDE DEF Pts
    <3>7. /\ pushed \in Buffers /\ (pushed.arrival = Never) = (pushed.pts = Never)
          /\ pushed.played = jitter.played
          /\ InQueueOrder(pushed.queue) /\ Holds(pushed.queue, Pts, playNow + MAX_TARGET_MS)
          /\ Len(pushed.queue) <= MAX_QUEUED_FRAMES
      <4> DEFINE T == playNow
                 J == jitter
      <4>1. /\ T \in Nat /\ stamp \in Nat /\ kept \in BOOLEAN
            /\ \A i \in DOMAIN J.queue : J.queue[i].pts # stamp
            /\ (NotYetPassed(J, stamp) => stamp \in Pts)
            /\ J \in Buffers /\ (J.arrival = Never) = (J.pts = Never)
            /\ InQueueOrder(J.queue) /\ Len(J.queue) <= MAX_QUEUED_FRAMES
            /\ Holds(J.queue, Pts, T + MAX_TARGET_MS)
        BY <1>3, <3>3, <3>4, <3>5, <3>6
      <4> HIDE DEF T, J
      <4>2. LET after == Push(J, stamp, kept, T)
            IN  /\ after \in Buffers /\ (after.arrival = Never) = (after.pts = Never)
                /\ after.played = J.played
                /\ InQueueOrder(after.queue) /\ Holds(after.queue, Pts, T + MAX_TARGET_MS)
                /\ Len(after.queue) <= MAX_QUEUED_FRAMES
        BY <4>1, PushOf
      <4> QED BY <4>2 DEF T, J
    <3> HIDE DEF pushed, buffer
    <3> QED BY <3>1, <3>7 DEF BufferOK, Pts
  <2> QED BY <2>1, <2>2
<1>12. BufferOK(jitter', V, limit) /\ PlayedOK(played', jitter'.played, V)
  <2>1. PlayedOK(played, buffer.played, V)
    <3> HIDE DEF buffer, V
    <3> QED BY <1>10, <1>11
  <2> HIDE DEF buffer, V, limit
  <2> QED BY <1>2, <1>3, <1>5, <1>11, <2>1, TurnEnds
<1>13. network' \cap received' = {} /\ \A g \in network' \cup received' : IsPiece(g, sent')
  BY <1>2 DEF PlayInv
<1> QED BY <1>2, <1>3, <1>4, <1>12, <1>13 DEF PlayInv

\* Every step keeps the invariant.
LEMMA PlayStepKeeps == PlayInv /\ [PlayoutNext]_playVars => PlayInv'
<1> SUFFICES ASSUME PlayInv, [PlayoutNext]_playVars PROVE PlayInv'
  OBVIOUS
<1>1. CASE TurnWithout
  <2> DEFINE W == WholeOf(sent, received)
             limit == playNow + MAX_TARGET_MS
  <2>1. BufferOK(jitter, W, limit) /\ PlayedOK(played, jitter.played, W) /\ PollAndPlay(jitter)
          /\ playNow \in Nat
    BY <1>1, PlayoutAssumption DEF PlayInv, TurnWithout
  <2>2. W \in SUBSET Nat
    BY WholeAreNumbers DEF PlayInv
  <2> HIDE DEF W, limit
  <2>3. BufferOK(jitter', W, limit) /\ PlayedOK(played', jitter'.played, W)
    BY <2>1, <2>2, TurnEnds
  <2> QED BY <1>1, <2>3 DEF PlayInv, TurnWithout, W, limit
<1>2. CASE UNCHANGED playVars
  BY <1>2 DEF PlayInv, playVars
<1> QED BY <1>1, <1>2, SendStep, TickStep, FragmentStep DEF PlayoutNext

\* The property is part of it.
LEMMA PlayInvImplies == PlayInv => PlayoutIsSound
<1> SUFFICES ASSUME PlayInv PROVE PlayoutIsSound
  OBVIOUS
<1> USE JitterAssumption
<1> DEFINE W == WholeOf(sent, received)
<1>1. BufferOK(jitter, W, playNow + MAX_TARGET_MS) /\ PlayedOK(played, jitter.played, W)
  BY DEF PlayInv
<1>2. PlayoutTypeOK
  BY DEF PlayInv, PlayoutTypeOK, FilledFrom, BufferOK
<1>3. OnlyWholeFramesPlay
  <2> SUFFICES ASSUME NEW pts \in ToSet(played) \cup {q.pts : q \in ToSet(jitter.queue)}
               PROVE  \E id \in DOMAIN sent : sent[id].pts = pts /\ Whole(id)
    BY DEF OnlyWholeFramesPlay
  <2>1. pts \in W
    <3>1. CASE pts \in ToSet(played)
      BY <1>1, <3>1 DEF ToSet, PlayedOK
    <3>2. CASE pts \in {q.pts : q \in ToSet(jitter.queue)}
      <4>1. PICK i \in DOMAIN jitter.queue : pts = jitter.queue[i].pts
        BY <3>2 DEF ToSet
      <4>2. jitter.queue[i].pts \in Ahead(W, jitter.played)
        BY <1>1 DEF BufferOK, Holds
      <4> QED BY <4>1, <4>2 DEF Ahead
    <3> QED BY <3>1, <3>2
  <2> QED BY <2>1 DEF WholeOf, Whole
<1>4. PlayedInOrder
  BY <1>1 DEF PlayedOK, PlayedInOrder
<1>5. DeadlinesInOrder
  <2>1. \A i \in DOMAIN jitter.queue : jitter.played = Never \/ jitter.queue[i].pts > jitter.played
    BY <1>1 DEF BufferOK, Holds, Ahead
  <2> QED BY <1>1, <2>1 DEF BufferOK, InQueueOrder, DeadlinesInOrder
<1>6. PlayoutDelayBounded
  BY <1>1 DEF BufferOK, Holds, PlayoutDelayBounded
<1> QED BY <1>2, <1>3, <1>4, <1>5, <1>6 DEF PlayoutIsSound

\* Frames play whole, in order and once, at deadlines that are in order and near, within
\* the limits of the reassembler and of the jitter buffer, whatever the channel loses or
\* delays and however irregular the arrivals are.
THEOREM PlayoutStaysSound == PlayoutSpec => []PlayoutIsSound
  BY PlayInitially, PlayStepKeeps, PlayInvImplies, PTL DEF PlayoutSpec

-----------------------------------------------------------------------------
(* The canvas of the Flutter application                                   *)

\* What waits in the client's buffer comes after what was played, at most one upload
\* is under way, and no picture being uploaded is older than the one that is shown.
CanvasInv ==
    /\ AppCanvasTypeOK
    /\ \A p \in buffered : p > lastPlayed
    /\ rendered <= lastPlayed
    /\ uploads # {} => decoding
    /\ \A u, v \in uploads : u = v
    /\ \A u \in uploads : u <= lastPlayed /\ (shownImage # NoPicture => shownImage <= u)
    /\ shownImage # NoPicture => shownImage <= lastPlayed

\* A step of the canvas shows no older picture.
NoOlderPicture == shownImage # NoPicture /\ shownImage' # NoPicture => shownImage' >= shownImage

\* The next frame the client plays is the first of its buffer, and comes after the last.
LEMMA NextPlayed ==
    ASSUME CanvasInv, buffered # {}
    PROVE  /\ Min(buffered) \in buffered /\ Min(buffered) \in 1..MaxPictures
           /\ Min(buffered) > lastPlayed
           /\ \A p \in buffered \ {Min(buffered)} : p > Min(buffered)
<1>1. MaxPictures \in Nat /\ buffered \in SUBSET (1..MaxPictures)
  BY AppCanvasAssumption DEF CanvasInv, AppCanvasTypeOK
<1>2. Min(buffered) \in buffered /\ Min(buffered) \in 1..MaxPictures /\ \A p \in buffered : Min(buffered) <= p
  BY <1>1, FirstAmong
<1>3. Min(buffered) > lastPlayed
  BY <1>2 DEF CanvasInv
<1> DEFINE m == Min(buffered)
<1> HIDE DEF m
<1>4. \A p \in buffered \ {m} : p > m
  BY <1>1, <1>2 DEF m
<1> QED BY <1>2, <1>3, <1>4 DEF m

\* It holds at the start.
LEMMA CanvasInitially == AppCanvasInit => CanvasInv
<1> SUFFICES ASSUME AppCanvasInit PROVE CanvasInv
  OBVIOUS
<1> USE DEF AppCanvasInit
<1>1. fatal \in BOOLEAN /\ onScreen \in BOOLEAN /\ decoding \in BOOLEAN /\ stalled \in BOOLEAN
  OBVIOUS
<1>2. lastPlayed \in 0..MaxPictures /\ rendered \in 0..MaxPictures /\ idle \in 0..(STALL_AFTER + 1)
      /\ seenRendered \in 0..rendered /\ rendered <= lastPlayed
  BY AppCanvasAssumption
<1>3. handle \in {"none", "live", "freed"} /\ buffered \subseteq 1..MaxPictures
      /\ uploads \subseteq 1..MaxPictures /\ shownImage \in 1..MaxPictures \cup {NoPicture}
  OBVIOUS
<1>4. AppCanvasTypeOK
  BY <1>1, <1>2, <1>3 DEF AppCanvasTypeOK
<1> QED BY <1>2, <1>4 DEF CanvasInv

\* A tick without a picture may show a stall, and nothing else of the canvas changes.
LEMMA IdleStep ==
    ASSUME CanvasInv, NoFrameYet
    PROVE  /\ stalled' \in BOOLEAN /\ idle' \in 0..(STALL_AFTER + 1)
           /\ UNCHANGED <<uploads, decoding, shownImage, fatal, seenRendered, onScreen>>
<1>1. stalled \in BOOLEAN /\ idle \in 0..(STALL_AFTER + 1)
  BY DEF CanvasInv, AppCanvasTypeOK
<1>2. stalled' \in BOOLEAN
  BY <1>1 DEF NoFrameYet
<1>3. idle' \in 0..(STALL_AFTER + 1)
  BY <1>1, AppCanvasAssumption DEF NoFrameYet
<1> QED BY <1>2, <1>3 DEF NoFrameYet

\* A tick plays the first frame of the buffer or none.
LEMMA IdleTickStep ==
    ASSUME CanvasInv, TickWithoutFrame
    PROVE  CanvasInv' /\ NoOlderPicture
<1>1. /\ stalled' \in BOOLEAN /\ idle' \in 0..(STALL_AFTER + 1)
      /\ UNCHANGED <<uploads, decoding, shownImage, fatal, seenRendered, onScreen, handle, rendered>>
  BY IdleStep DEF TickWithoutFrame
<1>2. NoOlderPicture
  BY <1>1, AppCanvasAssumption DEF NoOlderPicture, CanvasInv, AppCanvasTypeOK
<1>3. CASE UNCHANGED <<buffered, lastPlayed>>
  BY <1>1, <1>2, <1>3 DEF CanvasInv, AppCanvasTypeOK
<1>4. CASE buffered # {} /\ lastPlayed' = Min(buffered) /\ buffered' = buffered \ {Min(buffered)}
  <2> DEFINE m == Min(buffered)
  <2>1. m \in 1..MaxPictures /\ m > lastPlayed /\ \A p \in buffered \ {m} : p > m
    BY <1>4, NextPlayed
  <2>2. lastPlayed' = m /\ buffered' = buffered \ {m}
    BY <1>4
  <2> HIDE DEF m
  <2> QED BY <1>1, <1>2, <2>1, <2>2, AppCanvasAssumption DEF CanvasInv, AppCanvasTypeOK
<1> QED BY <1>3, <1>4 DEF TickWithoutFrame

\* A picture that is taken from the client is younger than all before it.
LEMMA PictureStep ==
    ASSUME CanvasInv, TickWithPicture
    PROVE  CanvasInv' /\ NoOlderPicture
<1> DEFINE m == Min(buffered)
<1>1. m \in 1..MaxPictures /\ m > lastPlayed /\ \A p \in buffered \ {m} : p > m
  BY NextPlayed DEF TickWithPicture
<1>2. /\ ~decoding /\ lastPlayed' = m /\ buffered' = buffered \ {m} /\ rendered' = rendered + 1
      /\ handle' = handle
      /\ \/ uploads' = uploads \cup {m} /\ decoding' = TRUE /\ UNCHANGED <<shownImage, idle, screenVars>>
         \/ NoFrameYet
  BY DEF TickWithPicture, MayTick
<1> HIDE DEF m
<1>3. uploads = {}
  BY <1>2 DEF CanvasInv
<1>4. CASE uploads' = uploads \cup {m} /\ decoding' = TRUE /\ UNCHANGED <<shownImage, idle, screenVars>>
  <2>1. uploads' = {m} /\ shownImage' = shownImage
    BY <1>3, <1>4
  <2>2. shownImage # NoPicture => shownImage \in 1..MaxPictures /\ shownImage <= lastPlayed
    BY DEF CanvasInv, AppCanvasTypeOK
  <2>3. \A u \in uploads' : u <= lastPlayed' /\ (shownImage' # NoPicture => shownImage' <= u)
    BY <1>1, <1>2, <2>1, <2>2, AppCanvasAssumption DEF CanvasInv, AppCanvasTypeOK
  <2> QED BY <1>1, <1>2, <1>4, <2>1, <2>2, <2>3, AppCanvasAssumption
          DEF CanvasInv, AppCanvasTypeOK, NoOlderPicture, screenVars
<1>5. CASE NoFrameYet
  BY <1>1, <1>2, <1>3, <1>5, IdleStep, AppCanvasAssumption DEF CanvasInv, AppCanvasTypeOK, NoOlderPicture
<1> QED BY <1>2, <1>4, <1>5

\* The image that is shown next is the one upload under way.
LEMMA UploadStep ==
    ASSUME CanvasInv, NEW u \in uploads, UploadEnds(u)
    PROVE  CanvasInv' /\ NoOlderPicture
<1>1. uploads' = {} /\ decoding' = FALSE /\ UNCHANGED <<clientVars, screenVars>>
  BY DEF UploadEnds, CanvasInv
<1>2. (shownImage' = u /\ idle' = 0) \/ UNCHANGED <<shownImage, idle>>
  BY DEF UploadEnds
<1>3. u \in 1..MaxPictures /\ u <= lastPlayed /\ (shownImage # NoPicture => shownImage <= u)
  BY DEF CanvasInv, AppCanvasTypeOK
<1>4. idle' \in 0..(STALL_AFTER + 1) /\ shownImage' \in 1..MaxPictures \cup {NoPicture}
      /\ decoding' \in BOOLEAN /\ (shownImage' # NoPicture => shownImage' <= lastPlayed')
  <2>1. idle \in 0..(STALL_AFTER + 1) /\ 0 \in 0..(STALL_AFTER + 1)
        /\ shownImage \in 1..MaxPictures \cup {NoPicture} /\ (shownImage # NoPicture => shownImage <= lastPlayed)
    BY AppCanvasAssumption DEF CanvasInv, AppCanvasTypeOK
  <2>2. lastPlayed' = lastPlayed
    BY <1>1 DEF clientVars
  <2>3. decoding' \in BOOLEAN
    BY <1>1
  <2> QED BY <1>2, <1>3, <2>1, <2>2, <2>3
<1>5. NoOlderPicture
  BY <1>2, <1>3, AppCanvasAssumption DEF NoOlderPicture, CanvasInv, AppCanvasTypeOK
<1>6. CanvasInv'
  BY <1>1, <1>4 DEF CanvasInv, AppCanvasTypeOK, clientVars, screenVars
<1> QED BY <1>5, <1>6

\* Every step keeps the invariant and the order of the pictures.
LEMMA CanvasStep ==
    ASSUME CanvasInv, [AppCanvasNext]_appCanvasVars
    PROVE  CanvasInv' /\ [NoOlderPicture]_appCanvasVars
<1> USE AppCanvasAssumption
<1>1. CASE \E p \in 1..MaxPictures : SubmitFrame(p)
  BY <1>1 DEF SubmitFrame, CanvasInv, AppCanvasTypeOK, canvasVars, screenVars, NoOlderPicture
<1>2. CASE TickWithoutFrame
  BY <1>2, IdleTickStep
<1>3. CASE TickWithPicture
  BY <1>3, PictureStep
<1>4. CASE \E u \in uploads : UploadEnds(u)
  BY <1>4, UploadStep
<1>5. CASE TelemetryPoll
  <2>1. stalled' \in BOOLEAN
    BY <1>5 DEF TelemetryPoll, CanvasInv, AppCanvasTypeOK
  <2>2. seenRendered' \in 0..rendered'
    BY <1>5 DEF TelemetryPoll, CanvasInv, AppCanvasTypeOK, clientVars
  <2>3. NoOlderPicture
    BY <1>5 DEF TelemetryPoll, CanvasInv, AppCanvasTypeOK, canvasVars, NoOlderPicture
  <2> QED BY <1>5, <2>1, <2>2, <2>3 DEF TelemetryPoll, CanvasInv, AppCanvasTypeOK, clientVars, canvasVars
<1>6. CASE IdlePasses
  BY <1>6 DEF IdlePasses, CanvasInv, AppCanvasTypeOK, clientVars, screenVars, NoOlderPicture
<1>7. CASE DisposeScreen
  BY <1>7 DEF DisposeScreen, CanvasInv, AppCanvasTypeOK, NoOlderPicture
<1>8. CASE UNCHANGED appCanvasVars
  BY <1>8 DEF appCanvasVars, clientVars, canvasVars, screenVars, CanvasInv, AppCanvasTypeOK
<1> QED BY <1>1, <1>2, <1>3, <1>4, <1>5, <1>6, <1>7, <1>8 DEF AppCanvasNext

\* The canvas of the application keeps its types, renders no more than was submitted and
\* never goes back to an older picture, for any number of frames, whichever uploads fail
\* and whenever the screen goes (_onTick, rda_client_poll_frame, dispose).
THEOREM CanvasStaysSafe == AppCanvasSpec => CanvasIsSafe
<1>1. CanvasInv => AppCanvasTypeOK
  BY DEF CanvasInv
<1>2. CanvasInv /\ [AppCanvasNext]_appCanvasVars => CanvasInv'
  BY CanvasStep
<1>3. CanvasInv /\ [AppCanvasNext]_appCanvasVars => [NoOlderPicture]_appCanvasVars
  BY CanvasStep
<1>4. AppCanvasSpec => []AppCanvasTypeOK
  BY CanvasInitially, <1>1, <1>2, PTL DEF AppCanvasSpec
<1>5. AppCanvasSpec => [][NoOlderPicture]_appCanvasVars
  BY CanvasInitially, <1>2, <1>3, PTL DEF AppCanvasSpec
<1> QED BY <1>4, <1>5, PTL DEF CanvasIsSafe, ShownInOrder, NoOlderPicture
=============================================================================
