------------------------------ MODULE Recovery ------------------------------
(***************************************************************************)
(* How a viewer that cannot decode gets its picture back.                  *)
(*                                                                         *)
(* The host: the VideoToolbox encoder with its flag for a forced keyframe, *)
(* the pipeline that rebuilds it for another resolution, and the limiter   *)
(* of keyframe requests (rda-encode). The viewer: the software and the     *)
(* VideoToolbox decoder (rda-decode) and the part of the session loop that *)
(* asks for a keyframe (rda-client). Between them a lossy channel for the  *)
(* frames and a reliable one for the requests.                             *)
(*                                                                         *)
(* The clocks are counted up to the interval that matters and no further.  *)
(***************************************************************************)
EXTENDS Naturals, Sequences

CONSTANTS
    Geometries,                  \* the sizes the ladder may ask for
    NoGeometry,                  \* no parameter sets seen
    IDR_MIN_INTERVAL,            \* the host honours one request in that long
    KEYFRAME_REQUEST_INTERVAL,   \* the viewer asks once in that long
    MaxWire, MaxRequests,        \* bounds: frames and requests under way
    MaxRebuilds,                 \* bound: changes of the scale
    MaxFaults                    \* bound: frames lost or dropped, sessions refused

ASSUME RecoveryAssumption ==
    /\ NoGeometry \notin Geometries /\ Geometries # {}
    /\ IDR_MIN_INTERVAL \in Nat /\ KEYFRAME_REQUEST_INTERVAL \in Nat
    /\ MaxWire \in Nat \ {0} /\ MaxRequests \in Nat \ {0} /\ MaxRebuilds \in Nat /\ MaxFaults \in Nat

VARIABLES
    encoder,             \* [geometry, first (nothing encoded yet), force (force_keyframe)]
    wanted,              \* the geometry of the directive in force
    sinceIdr,            \* how long ago a request was honoured (last_idr_ms)
    rebuilds,
    faults,
    wire,                \* the frames on their way, in order; "lost" where one was
    requests,            \* how many keyframe requests are on their way
    backend,             \* which decoder the viewer has
    decoder,             \* [geometry, built (from them, if at all), intact: the next
                         \* delta has its references]
    sinceRequest,        \* how long ago the viewer asked (last_keyframe_request)
    picture              \* what became of the last frame given to the decoder: "shown",
                         \* "refused" with an error, or "swallowed" without one

recVars == <<encoder, wanted, sinceIdr, rebuilds, faults, wire, requests, backend, decoder,
             sinceRequest, picture>>

CodedFrame(key, geometry) == [kind |-> IF key THEN "key" ELSE "delta", geometry |-> geometry]

LostFrame == [kind |-> "lost"]

\* A fresh compression session: its first frame is a keyframe.
NewEncoder(geometry) == [geometry |-> geometry, first |-> TRUE, force |-> FALSE]

EmptyDecoder == [geometry |-> NoGeometry, built |-> FALSE, intact |-> FALSE]

\* A decoder with all it needs for the next frame of an encoder of that geometry.
ReadyDecoder(geometry) == [geometry |-> geometry, built |-> TRUE, intact |-> TRUE]

RecoveryInit ==
    \E g \in Geometries :
        /\ encoder = NewEncoder(g)
        /\ wanted = g
        /\ sinceIdr = IDR_MIN_INTERVAL
        /\ rebuilds = 0
        /\ faults = 0
        /\ wire = <<>>
        /\ requests = 0
        /\ backend \in {"software", "videotoolbox"}
        /\ decoder = EmptyDecoder
        /\ sinceRequest = KEYFRAME_REQUEST_INTERVAL
        /\ picture = "none"

\* One more thing goes wrong.
Fault == faults < MaxFaults /\ faults' = faults + 1

-----------------------------------------------------------------------------
(* The host                                                                *)

\* output_callback: the frame is called a keyframe when it is the first or one was forced.
Output == CodedFrame(encoder.first \/ encoder.force, encoder.geometry)

\* Pipeline::step: a frame comes out, at a time the screen and the pacing decide.
EncodeFrame ==
    /\ Len(wire) < MaxWire
    /\ wire' = Append(wire, Output)
    /\ encoder' = [encoder EXCEPT !.first = FALSE, !.force = FALSE]
    /\ UNCHANGED <<wanted, sinceIdr, rebuilds, faults, requests, backend, decoder, sinceRequest,
                   picture>>

\* The session takes the picture and drops it: the callback returns before it counts
\* the frame, but the flag is gone.
EncoderDrops ==
    /\ Fault
    /\ encoder' = [encoder EXCEPT !.force = FALSE]
    /\ UNCHANGED <<wanted, sinceIdr, rebuilds, wire, requests, backend, decoder, sinceRequest,
                   picture>>

\* RateController::on_recovery_request: whether the request is honoured.
Honoured == sinceIdr = IDR_MIN_INTERVAL

\* Pipeline::on_recovery_request. No long-term reference is ever acknowledged, so an
\* honoured request always forces a keyframe.
OnRecoveryRequest ==
    /\ requests > 0
    /\ requests' = requests - 1
    /\ IF Honoured
         THEN sinceIdr' = 0 /\ encoder' = [encoder EXCEPT !.force = TRUE]
         ELSE UNCHANGED <<sinceIdr, encoder>>
    /\ UNCHANGED <<wanted, rebuilds, faults, wire, backend, decoder, sinceRequest, picture>>

\* Mutant: the running session is resized, and its next frame is a delta.
ResizeInPlace(g) == [encoder EXCEPT !.geometry = g]

\* Pipeline::rebuild_for_scale, when the factory delivers.
Rebuilt(g) == NewEncoder(g)

\* Pipeline::apply_telemetry with a change of scale: the directive is stored before
\* the rebuild is tried, and a rebuild that fails leaves the old encoder running.
ApplyTelemetry ==
    /\ rebuilds < MaxRebuilds
    /\ \E g \in Geometries \ {wanted} :
         /\ wanted' = g
         /\ rebuilds' = rebuilds + 1
         /\ \/ encoder' = (IF g = encoder.geometry THEN encoder ELSE Rebuilt(g))
            \/ UNCHANGED encoder
    /\ UNCHANGED <<sinceIdr, faults, wire, requests, backend, decoder, sinceRequest, picture>>

-----------------------------------------------------------------------------
(* The channel and the clock                                               *)

\* A fragment of a frame is abandoned, or the frame is played too late.
Lose ==
    /\ Fault
    /\ \E i \in DOMAIN wire : wire[i] # LostFrame /\ wire' = [wire EXCEPT ![i] = LostFrame]
    /\ UNCHANGED <<encoder, wanted, sinceIdr, rebuilds, requests, backend, decoder,
                   sinceRequest, picture>>

Upto(t, limit) == IF t < limit THEN t + 1 ELSE t

TimePasses ==
    /\ sinceIdr' = Upto(sinceIdr, IDR_MIN_INTERVAL)
    /\ sinceRequest' = Upto(sinceRequest, KEYFRAME_REQUEST_INTERVAL)
    /\ <<sinceIdr, sinceRequest>>' # <<sinceIdr, sinceRequest>>
    /\ UNCHANGED <<encoder, wanted, rebuilds, faults, wire, requests, backend, decoder, picture>>

-----------------------------------------------------------------------------
(* The viewer                                                              *)

\* Mutant: a viewer asks only until its first picture.
AskAtStart == sinceRequest = KEYFRAME_REQUEST_INTERVAL /\ picture = "none"

\* due, in the session loop
KeyframeDue == sinceRequest = KEYFRAME_REQUEST_INTERVAL

\* The Err arm of the session loop: an error that is not recoverable resets the
\* decoder, and either kind asks for a keyframe when one is due.
DecodeFails(left) ==
    /\ decoder' = left
    /\ picture' = "refused"
    /\ IF KeyframeDue /\ requests < MaxRequests
         THEN requests' = requests + 1 /\ sinceRequest' = 0
         ELSE UNCHANGED <<requests, sinceRequest>>

DecodeShows(geometry) ==
    /\ decoder' = ReadyDecoder(geometry)
    /\ picture' = "shown"
    /\ UNCHANGED <<requests, sinceRequest>>

\* The Ok arm with no picture in it: nobody asks for a keyframe.
DecodeSwallows(left) ==
    /\ decoder' = left
    /\ picture' = "swallowed"
    /\ UNCHANGED <<requests, sinceRequest>>

\* SoftwareDecoder::decode. openh264 delivers a frame it can decode at once (external).
\* A change of size swallows the picture (FormatChanged). A missing reference is
\* AwaitingParameterSets or Failed, as openh264 words it, or Ok(None), as often as it likes.
SoftwareDecode(f) ==
    \/ /\ f.kind = "key"
       /\ IF decoder.geometry \in {NoGeometry, f.geometry}
            THEN DecodeShows(f.geometry)
            ELSE DecodeFails(ReadyDecoder(f.geometry))
    \/ f.kind = "delta" /\ decoder.intact /\ DecodeShows(decoder.geometry)
    \/ f.kind = "delta" /\ ~decoder.intact /\ DecodeFails(decoder)
    \/ f.kind = "delta" /\ ~decoder.intact /\ decoder.geometry # NoGeometry /\ DecodeFails(EmptyDecoder)
    \/ f.kind = "delta" /\ ~decoder.intact /\ DecodeSwallows(decoder)

\* absorb_parameter_sets: those of a keyframe replace the last ones, and the session of
\* others is dropped.
Absorb(f) ==
    IF f.kind = "key" /\ decoder.geometry # f.geometry
      THEN [geometry |-> f.geometry, built |-> FALSE, intact |-> FALSE]
      ELSE decoder

\* build_session fails. MalformedBitstream is recoverable, and the sets stay for the next
\* frame to try; Unavailable is not, and the reset forgets them.
BuildFails(f) ==
    /\ Absorb(f).geometry # NoGeometry /\ ~Absorb(f).built
    /\ Fault
    /\ DecodeFails(Absorb(f)) \/ DecodeFails(EmptyDecoder)

\* VideoToolboxDecoder::decode. Parameter sets without a session get one. An undecodable
\* delta is AwaitingParameterSets without any sets; else it is Failed, and the decoder
\* reset, or output_callback alone sees the error, as often as there are such deltas.
VideoToolboxDecode(f) ==
    \/ f.kind = "key" /\ DecodeShows(f.geometry) /\ UNCHANGED faults
    \/ BuildFails(f)
    \/ f.kind = "delta" /\ decoder.intact /\ DecodeShows(decoder.geometry) /\ UNCHANGED faults
    \/ f.kind = "delta" /\ ~decoder.intact /\ DecodeFails(EmptyDecoder) /\ UNCHANGED faults
    \/ /\ f.kind = "delta" /\ ~decoder.intact /\ decoder.geometry # NoGeometry
       /\ DecodeSwallows([decoder EXCEPT !.built = TRUE])
       /\ UNCHANGED faults

\* The next frame reaches the decoder.
PlayFrame ==
    /\ wire # <<>> /\ Head(wire) # LostFrame
    /\ \/ backend = "software" /\ SoftwareDecode(Head(wire)) /\ UNCHANGED faults
       \/ backend = "videotoolbox" /\ VideoToolboxDecode(Head(wire))
    /\ wire' = Tail(wire)
    /\ UNCHANGED <<encoder, wanted, sinceIdr, rebuilds, backend>>

\* A lost frame never reaches the decoder; the deltas after it refer to it.
SkipLost ==
    /\ wire # <<>> /\ Head(wire) = LostFrame
    /\ wire' = Tail(wire)
    /\ decoder' = [decoder EXCEPT !.intact = FALSE]
    /\ UNCHANGED <<encoder, wanted, sinceIdr, rebuilds, faults, requests, backend, sinceRequest, picture>>

RecoveryNext ==
    \/ EncodeFrame \/ EncoderDrops \/ OnRecoveryRequest \/ ApplyTelemetry
    \/ Lose \/ TimePasses
    \/ PlayFrame \/ SkipLost

\* The screen keeps changing, both loops keep running and time passes. A frame that is
\* not lost is played, and faults are bounded: the claim is about what happens after them.
\* Nothing bounds what a decoder swallows.
RecoveryFairness ==
    /\ WF_recVars(EncodeFrame)
    /\ WF_recVars(OnRecoveryRequest)
    /\ WF_recVars(TimePasses)
    /\ WF_recVars(PlayFrame \/ SkipLost)

RecoverySpec == RecoveryInit /\ [][RecoveryNext]_recVars /\ RecoveryFairness

-----------------------------------------------------------------------------

\* The ranges of the encoder, the wire and the decoder.
RecoveryTypeOK ==
    /\ encoder \in [geometry : Geometries, first : BOOLEAN, force : BOOLEAN]
    /\ wanted \in Geometries
    /\ sinceIdr \in 0..IDR_MIN_INTERVAL
    /\ rebuilds \in 0..MaxRebuilds
    /\ faults \in 0..MaxFaults
    /\ Len(wire) <= MaxWire
    /\ requests \in 0..MaxRequests
    /\ decoder \in [geometry : Geometries \cup {NoGeometry}, built : BOOLEAN, intact : BOOLEAN]
    /\ sinceRequest \in 0..KEYFRAME_REQUEST_INTERVAL

\* A decoder that believes its references are good has those of the encoder that is
\* running: no frame of a rebuilt encoder is ever decoded onto the pictures, and in the
\* size, of the one before it.
IntactMeansCurrent ==
    decoder.intact /\ wire = <<>> =>
        decoder.geometry = encoder.geometry \/ encoder.first

\* The decoder never mixes two encoders.
DecoderIsCurrent == RecoveryTypeOK /\ IntactMeansCurrent

\* A viewer without a picture gets one, or its decoder has stopped to say so: whatever was
\* lost, dropped by the encoder or discarded for a change of size, as long as the decoder
\* reports an error every now and then, its requests reach the host, the limiter lets one
\* through, and a keyframe arrives (the Err arm of the session loop and its answer in the
\* host's).
PictureReturns == (picture # "shown") ~> (picture = "shown" \/ [](picture = "swallowed"))

\* The same without the second half: "On an undecodable frame, the receiver sends
\* RequestKeyframe" (docs/PROTOCOL.md, 9.4), so no viewer waits in silence for ever.
NeverWaitsInSilence == (picture # "shown") ~> (picture = "shown")
=============================================================================
