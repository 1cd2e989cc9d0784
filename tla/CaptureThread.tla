---------------------------- MODULE CaptureThread ----------------------------
(***************************************************************************)
(* The capture thread of a session (rda-host/src/capture_thread.rs), the   *)
(* one-frame slot between it and the streaming task (rda-capture/sink.rs)  *)
(* and the macOS backend it drives (rda-capture/backend/macos.rs).         *)
(*                                                                         *)
(* publish() is three steps, because the streaming task runs between them: *)
(* count, replace under the lock, notify.  recv() is two: try_recv, then   *)
(* the wait on the Notify.  A Notify keeps one permit when nobody waits.   *)
(***************************************************************************)
EXTENDS Naturals

CONSTANTS
    Resolutions,               \* the sizes a display can be switched to
    MAX_CONSECUTIVE_FAILURES,
    MaxFrames,                 \* bound of the frames captured
    MaxRestarts,               \* the restart counter is followed up to here
    NoFrame, NotStarted

ASSUME CaptureAssumption ==
    /\ MAX_CONSECUTIVE_FAILURES \in Nat \ {0}
    /\ MaxFrames \in Nat /\ MaxRestarts \in Nat
    /\ NoFrame \notin Nat /\ NotStarted \notin Resolutions

VARIABLES
    capPc,      \* the capture thread: "loop", "publish", "notify", "restart", "done"
    stopFlag,   \* CaptureThread::stop
    screen,     \* the size of the display now
    known,      \* MacosCapturer::displays, enumerated when it was built
    active,     \* MacosCapturer::active: the size it was started with
    failures,   \* consecutive_failures
    restarts,
    slot, permit,                   \* Notify and the slot
    recvPc,     \* the streaming task: "busy", "recv", "armed", "waiting", "gone"
    produced, consumed, dropped     \* SinkStats

capVars == <<capPc, stopFlag, screen, known, active, failures, restarts,
             slot, permit, recvPc, produced, consumed, dropped>>

\* The ranges of the thread, the slot and the counters.
CaptureTypeOK ==
    /\ capPc \in {"loop", "publish", "notify", "restart", "done"}
    /\ stopFlag \in BOOLEAN
    /\ screen \in Resolutions /\ known \in Resolutions
    /\ active \in Resolutions \cup {NotStarted}
    /\ failures \in 0..MAX_CONSECUTIVE_FAILURES
    /\ restarts \in 0..MaxRestarts
    /\ slot \in Nat \cup {NoFrame}
    /\ permit \in BOOLEAN
    /\ recvPc \in {"busy", "recv", "armed", "waiting", "gone"}
    /\ produced \in Nat /\ consumed \in Nat /\ dropped \in Nat

\* spawn: the displays were enumerated and capture started.
CaptureInit ==
    /\ screen \in Resolutions
    /\ known = screen /\ active = screen
    /\ capPc = "loop" /\ stopFlag = FALSE
    /\ failures = 0 /\ restarts = 0
    /\ slot = NoFrame /\ permit = FALSE /\ recvPc = "busy"
    /\ produced = 0 /\ consumed = 0 /\ dropped = 0
-----------------------------------------------------------------------------
(* The capture thread.                                                      *)

InLoop == capPc = "loop" /\ ~stopFlag

\* next_frame gives a frame whose content differs from the last; publish counts it.
Captured ==
    /\ InLoop /\ active = screen /\ produced < MaxFrames
    /\ failures' = 0
    /\ produced' = produced + 1
    /\ capPc' = "publish"
    /\ UNCHANGED <<stopFlag, screen, known, active, restarts, slot, permit, recvPc,
                   consumed, dropped>>

\* next_frame gives an unchanged frame, or none within the frame interval.
Unchanged ==
    /\ InLoop /\ active = screen
    /\ failures' = 0
    /\ UNCHANGED <<capPc, stopFlag, screen, known, active, restarts, slot, permit, recvPc,
                   produced, consumed, dropped>>

\* FrameSink::publish, under the lock of the slot.
Replace ==
    /\ capPc = "publish"
    /\ slot' = produced
    /\ dropped' = IF slot = NoFrame THEN dropped ELSE dropped + 1
    /\ capPc' = "notify"
    /\ UNCHANGED <<stopFlag, screen, known, active, failures, restarts, permit, recvPc,
                   produced, consumed>>

\* Mutant: notify_waiters, which leaves nothing for a task that is not waiting yet.
NotifyWaiters ==
    /\ capPc = "notify"
    /\ recvPc' = IF recvPc = "waiting" THEN "recv" ELSE recvPc
    /\ capPc' = "loop"
    /\ UNCHANGED <<stopFlag, screen, known, active, failures, restarts, slot, permit,
                   produced, consumed, dropped>>

\* Notify::notify_one: wakes the waiter, or leaves it a permit.
NotifyOne ==
    /\ capPc = "notify"
    /\ IF recvPc = "waiting"
         THEN recvPc' = "recv" /\ permit' = permit
         ELSE permit' = TRUE /\ recvPc' = recvPc
    /\ capPc' = "loop"
    /\ UNCHANGED <<stopFlag, screen, known, active, failures, restarts, slot,
                   produced, consumed, dropped>>

\* next_frame reports SessionLost: the display gives no image, or one of another
\* size than the capture was started with.  The capturer is stopped first.
SessionLost ==
    /\ InLoop /\ active # NotStarted
    /\ restarts' = IF restarts < MaxRestarts THEN restarts + 1 ELSE restarts
    /\ active' = NotStarted
    /\ capPc' = "restart"
    /\ UNCHANGED <<stopFlag, screen, known, failures, slot, permit, recvPc,
                   produced, consumed, dropped>>

\* start finds the display among those enumerated at construction.
RestartSucceeds ==
    /\ capPc = "restart"
    /\ active' = known
    /\ capPc' = "loop"
    /\ UNCHANGED <<stopFlag, screen, known, failures, restarts, slot, permit, recvPc,
                   produced, consumed, dropped>>

\* start finds no image: the display sleeps, or the permission was withdrawn.
RestartFails ==
    /\ capPc = "restart"
    /\ failures' = failures + 1
    /\ capPc' = IF failures' >= MAX_CONSECUTIVE_FAILURES THEN "done" ELSE "loop"
    /\ UNCHANGED <<stopFlag, screen, known, active, restarts, slot, permit, recvPc,
                   produced, consumed, dropped>>

\* next_frame on a capturer that is not started: Unavailable, not recoverable.
Unrecoverable ==
    /\ InLoop /\ active = NotStarted
    /\ capPc' = "done"
    /\ UNCHANGED <<stopFlag, screen, known, active, failures, restarts, slot, permit,
                   recvPc, produced, consumed, dropped>>

Stopped ==
    /\ capPc = "loop" /\ stopFlag
    /\ capPc' = "done" /\ active' = NotStarted
    /\ UNCHANGED <<stopFlag, screen, known, failures, restarts, slot, permit, recvPc,
                   produced, consumed, dropped>>
-----------------------------------------------------------------------------
(* The streaming task, and the user who switches the display.               *)

\* recv_timeout, the first poll or the one after a wake-up.
CallRecv ==
    /\ recvPc = "busy"
    /\ recvPc' = "recv"
    /\ UNCHANGED <<capPc, stopFlag, screen, known, active, failures, restarts, slot, permit,
                   produced, consumed, dropped>>

TryRecv ==
    /\ recvPc = "recv"
    /\ IF slot # NoFrame
         THEN slot' = NoFrame /\ consumed' = consumed + 1 /\ recvPc' = "busy"
         ELSE recvPc' = "armed" /\ UNCHANGED <<slot, consumed>>
    /\ UNCHANGED <<capPc, stopFlag, screen, known, active, failures, restarts, permit,
                   produced, dropped>>

\* notified().await: takes the permit of an earlier publish, or waits.
Await ==
    /\ recvPc = "armed"
    /\ IF permit THEN recvPc' = "recv" ELSE recvPc' = "waiting"
    /\ permit' = FALSE
    /\ UNCHANGED <<capPc, stopFlag, screen, known, active, failures, restarts, slot,
                   produced, consumed, dropped>>

RecvTimeout ==
    /\ recvPc = "waiting"
    /\ recvPc' = "busy"
    /\ UNCHANGED <<capPc, stopFlag, screen, known, active, failures, restarts, slot, permit,
                   produced, consumed, dropped>>

\* The stream ends: CaptureThread::stop, which then joins the thread.
StopCapture ==
    /\ recvPc = "busy" /\ ~stopFlag
    /\ stopFlag' = TRUE /\ recvPc' = "gone"
    /\ UNCHANGED <<capPc, screen, known, active, failures, restarts, slot, permit,
                   produced, consumed, dropped>>

SwitchResolution ==
    /\ \E r \in Resolutions \ {screen} : screen' = r
    /\ UNCHANGED <<capPc, stopFlag, known, active, failures, restarts, slot, permit, recvPc,
                   produced, consumed, dropped>>
CaptureStep == Captured \/ Unchanged \/ Replace \/ NotifyOne \/ SessionLost
                 \/ RestartSucceeds \/ RestartFails \/ Unrecoverable \/ Stopped
StreamStep == CallRecv \/ TryRecv \/ Await

CaptureNext == CaptureStep \/ StreamStep \/ RecvTimeout \/ StopCapture \/ SwitchResolution

CaptureSpec == CaptureInit /\ [][CaptureNext]_capVars
-----------------------------------------------------------------------------
\* sink.rs:114 - no wake-up is lost: a streaming task that sleeps although a frame
\* lies in the slot is about to be notified, wherever publish() fell into the gap
\* between its look at the slot and its wait.
NoLostWakeup ==
    recvPc = "waiting" /\ slot # NoFrame => capPc = "notify"

\* sink.rs:77 - no frame disappears from the statistics between the two threads:
\* what was captured was handed on, was overwritten, lies in the slot or is being
\* published.
FramesConserved ==
    produced = consumed + dropped + (IF slot = NoFrame THEN 0 ELSE 1)
                                  + (IF capPc = "publish" THEN 1 ELSE 0)

\* The slot loses neither a wake-up nor a frame.
HandOver == CaptureTypeOK /\ NoLostWakeup /\ FramesConserved
=============================================================================
