------------------------------ MODULE AppCanvas ------------------------------
(***************************************************************************)
(* Video in the Flutter application: the native client handle              *)
(* (rda-ffi/src/client.rs), the Dart wrapper that copies a borrowed        *)
(* picture out of it (app/lib/src/ffi/client.dart), the canvas that        *)
(* uploads it (app/lib/src/ui/video_canvas.dart) and the screen that owns  *)
(* both (app/lib/main.dart).                                               *)
(*                                                                         *)
(* _onTick is split at its one await: the poll and the copy are a step,    *)
(* the end of the upload another, and the engine may finish two uploads in *)
(* any order. Frames are numbered by their presentation time; the jitter   *)
(* buffer of the client (JitterBuffer) never plays a smaller number after  *)
(* a greater one. The transport that will feed rda_client_submit_frame is  *)
(* not wired up yet: SubmitFrame is its caller. Nothing calls rda_client_reset. *)
(***************************************************************************)
EXTENDS Integers, FiniteSets, FiniteSetsExt

CONSTANTS
    MaxPictures,  \* bound of the frames submitted
    STALL_AFTER,  \* canvas ticks without a picture that make a stall (500 ms)
    NoPicture

ASSUME AppCanvasAssumption == MaxPictures \in Nat /\ STALL_AFTER \in Nat

VARIABLES
    handle,       \* the client handle: "none", "live" or "freed"
    fatal,        \* _fatalError is set
    buffered,     \* frames in the client's jitter buffer
    lastPlayed,   \* the last frame it played
    rendered,     \* frames_rendered
    uploads,      \* the pictures whose copies are being uploaded
    decoding,     \* _decoding
    shownImage,   \* _image
    idle,         \* time since _lastFrameAt
    stalled,      \* _stalled
    seenRendered, \* _telemetry.framesRendered
    onScreen      \* the canvas and the screen are mounted

clientVars == <<handle, buffered, lastPlayed, rendered>>
canvasVars == <<uploads, decoding, shownImage, idle>>
screenVars == <<fatal, stalled, seenRendered, onScreen>>
appCanvasVars == <<clientVars, canvasVars, screenVars>>

\* _start, in initState: the library may be stale, there may be no hardware
\* decoder, and the device id may be refused, which leaves the handle it has just
\* created behind.
AppCanvasInit ==
    /\ handle \in {"none", "live"} /\ fatal \in BOOLEAN /\ (handle = "none" => fatal)
    /\ onScreen = TRUE
    /\ buffered = {} /\ lastPlayed = 0 /\ rendered = 0
    /\ uploads = {} /\ decoding = FALSE /\ shownImage = NoPicture /\ idle = 0
    /\ stalled = FALSE /\ seenRendered = 0

\* The canvas is built once _start has returned.
Running == handle = "live" /\ ~fatal /\ onScreen

\* rda_client_submit_frame: the jitter buffer refuses what has passed.
SubmitFrame(p) ==
    /\ Running /\ p \notin buffered
    /\ p > lastPlayed
    /\ buffered' = buffered \cup {p}
    /\ UNCHANGED <<handle, lastPlayed, rendered, canvasVars, screenVars>>

\* _onTick without a picture: the stall after half a second, then the keyframe.
NoFrameYet ==
    /\ \/ idle > STALL_AFTER /\ stalled' = TRUE /\ idle' = 0
       \/ idle <= STALL_AFTER /\ UNCHANGED <<stalled, idle>>
    /\ UNCHANGED <<uploads, decoding, shownImage, fatal, seenRendered, onScreen>>

\* Fault: the guard that keeps one decode in flight is gone.
TickAnyway == Running
\* _onTick goes on when no decode is in flight and the canvas is mounted.
MayTick == ~decoding /\ Running

\* _onTick and rda_client_poll_frame: nothing due, or a frame that gave no picture
\* or an error. keyframe_requests is raised by the error and taken by the same
\* tick, because a failed poll returns no frame.
TickWithoutFrame ==
    /\ MayTick
    /\ \/ UNCHANGED <<buffered, lastPlayed>>
       \/ /\ buffered # {}
          /\ lastPlayed' = Min(buffered)
          /\ buffered' = buffered \ {Min(buffered)}
    /\ NoFrameYet
    /\ UNCHANGED <<handle, rendered>>

\* A picture: copied out of the client, then handed to the engine. The copy
\* fails (a null pointer, an empty buffer) after the picture was counted.
TickWithPicture ==
    /\ MayTick /\ buffered # {}
    /\ LET p == Min(buffered) IN
       /\ lastPlayed' = p
       /\ buffered' = buffered \ {p}
       /\ rendered' = rendered + 1
       /\ \/ /\ uploads' = uploads \cup {p}
             /\ decoding' = TRUE
             /\ UNCHANGED <<shownImage, idle, screenVars>>
          \/ NoFrameYet
    /\ UNCHANGED handle

\* The rest of _onTick: an unmounted canvas drops the image; an exception of the
\* engine passes through the finally.
UploadEnds(u) ==
    /\ u \in uploads
    /\ uploads' = uploads \ {u}
    /\ decoding' = FALSE
    /\ \/ onScreen /\ shownImage' = u /\ idle' = 0
       \/ UNCHANGED <<shownImage, idle>>
    /\ UNCHANGED <<clientVars, screenVars>>

\* Fault: every reading counts as progress.
AnyReading(before, after) == after >= before
\* _startTelemetryPolling: the stream has recovered if more was rendered.
Recovered(before, after) == after > before

TelemetryPoll ==
    /\ Running
    /\ seenRendered' = rendered
    /\ stalled' = IF Recovered(seenRendered, rendered) THEN FALSE ELSE stalled
    /\ UNCHANGED <<clientVars, canvasVars, fatal, onScreen>>

IdlePasses ==
    /\ Running /\ idle <= STALL_AFTER
    /\ idle' = idle + 1
    /\ UNCHANGED <<clientVars, uploads, decoding, shownImage, screenVars>>

\* The screen goes: the canvas's ticker and image, then the telemetry timer, the
\* encoder and the client. A failed _start has kept no reference to its handle.
DisposeScreen ==
    /\ onScreen /\ onScreen' = FALSE
    /\ handle' = IF handle = "live" /\ ~fatal THEN "freed" ELSE handle
    /\ shownImage' = NoPicture
    /\ UNCHANGED <<buffered, lastPlayed, rendered, uploads, decoding, idle,
                   fatal, stalled, seenRendered>>

AppCanvasNext ==
    \/ \E p \in 1..MaxPictures : SubmitFrame(p)
    \/ TickWithoutFrame \/ TickWithPicture
    \/ \E u \in uploads : UploadEnds(u)
    \/ TelemetryPoll \/ IdlePasses \/ DisposeScreen

\* The ticker and the telemetry timer run as long as the screen is there, time
\* passes, and the engine answers every upload.
AppCanvasFairness ==
    /\ WF_appCanvasVars(TickWithoutFrame)
    /\ WF_appCanvasVars(TelemetryPoll)
    /\ WF_appCanvasVars(IdlePasses)
    /\ WF_appCanvasVars(\E u \in uploads : UploadEnds(u))

AppCanvasSpec == AppCanvasInit /\ [][AppCanvasNext]_appCanvasVars /\ AppCanvasFairness
-----------------------------------------------------------------------------
\* The ranges of the client's, the canvas's and the screen's state; the handle is
\* freed at most once, by the screen that used it.
AppCanvasTypeOK ==
    LET Pictures == 1..MaxPictures IN
    /\ handle \in {"none", "live", "freed"} /\ fatal \in BOOLEAN /\ onScreen \in BOOLEAN
    /\ buffered \subseteq Pictures /\ lastPlayed \in 0..MaxPictures
    /\ rendered \in 0..MaxPictures
    /\ uploads \subseteq Pictures
    /\ decoding \in BOOLEAN /\ shownImage \in Pictures \cup {NoPicture}
    /\ idle \in 0..(STALL_AFTER + 1)
    /\ stalled \in BOOLEAN /\ seenRendered \in 0..rendered

\* The canvas never goes back to an older picture, in whatever order the engine
\* finishes its uploads (video_canvas.dart:14, "Only one decode is in flight").
ShownInOrder ==
    [][shownImage # NoPicture /\ shownImage' # NoPicture => shownImage' >= shownImage]_appCanvasVars

\* The canvas keeps its types, and its pictures in order.
CanvasIsSafe == []AppCanvasTypeOK /\ ShownInOrder

\* A stream that has ended is shown as stalled for good, although a telemetry
\* poll that comes after the stall may count the last picture as a recovery.
StallIsTold == <>[](stalled \/ ~Running)

\* A stall warning goes away once a picture was rendered after the last reading.
StallClears == (stalled /\ rendered > seenRendered) ~> (~stalled \/ ~Running)

\* The stall warning is neither missed nor left standing.
StallsAreShown == StallIsTold /\ StallClears
=============================================================================
