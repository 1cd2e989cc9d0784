------------------------------- MODULE MCMedia -------------------------------
(* The media path in one run, from the host's screen to the viewer's: the    *)
(* capture thread, the pixels, the bitstream, the rate control, the wire     *)
(* format, the link and what is reported of it, playout, recovery, the       *)
(* window and the Flutter canvas.                                            *)
(* The variable part names the component whose steps a behaviour takes; the  *)
(* others share no state with it and keep an initial state.                  *)
EXTENDS CaptureThread, Screen, RateControl, WireFormat, NetSim, LinkReport, Playout, Recovery,
        AppCanvas

MCScreens == {[pixels |-> <<16, 10>>, scale |-> 2000], [pixels |-> <<16, 10>>, scale |-> 1500],
              [pixels |-> <<13, 7>>, scale |-> 1000]}
MCWindowSizes == {<<16, 10>>, <<9, 9>>, <<5, 12>>}
MCJitters == {-3, 1}

\* Colours at the corners of the cube and one inside it, on screens of odd and even
\* sides, with padded rows and without, and buffers one byte too short.
Palette == <<<<0, 0, 0>>, <<255, 255, 255>>, <<255, 0, 0>>, <<0, 255, 0>>, <<0, 0, 255>>, <<10, 200, 77>>>>
PixelSource(w, h, pad, spare, k) ==
    [width |-> w, height |-> h, stride |-> 4 * w + pad,
     length |-> (4 * w + pad) * (h - 1) + 4 * w + spare,
     pixels |-> [p \in (0..(w - 1)) \X (0..(h - 1)) |-> Palette[1 + ((k + p[1] + 2 * p[2]) % 6)]]]
MCSources ==
    {PixelSource(w, h, pad, spare, k) :
        w \in {1, 2, 3}, h \in {1, 3}, pad \in {0, 5}, spare \in {-1, 0, 5}, k \in {0, 2, 3}}
    \cup {PixelSource(4, 1, 0, 0, 1), PixelSource(0, 1, 0, 0, 1), PixelSource(2, 2, -1, 0, 1)}
MCSettings == [matrix : {"Bt709", "Bt601"}, range : {"Full", "Limited"}, chroma : {"Box", "Nearest"},
               format : {"Nv12", "I420"}]
MCAlignments == {-1, 0, 3}

\* NAL units with the zeros and escapes a start code could be mistaken for.
NalUnits == {<<101>>, <<65, 0, 1>>, <<101, 0, 0, 3>>, <<65, 0, 0, 3, 1>>}
MCSlices == {<<u>> : u \in NalUnits}
            \cup {<<<<65, 0, 1>>, u>> : u \in NalUnits} \cup {<<u, <<101, 0, 0, 3>>>> : u \in NalUnits}
MCSetPairs == {<<<<103, 1>>, <<104>>>>, <<<<103, 0, 0, 3, 1>>, <<104>>>>, <<<<103, 1>>, <<104, 0, 1>>>>}

\* One message of every type, with fields at and between the ends of their ranges.
U8s == {0, 255}
U16s == {0, 258, 65535}
I16s == {-32768, -2, 300}
U32s == {7, 16909060}
Texts == {<<>>, <<97>>, <<195, 169, 97, 97>>, <<97, 195, 169, 195, 169>>, <<97, 97, 97, 195, 169>>,
          <<226, 130, 172, 240, 144, 128, 128>>}
SessionPayloads ==
    [type : {"Ping"}, token : U32s] \cup [type : {"Pong"}, token : U32s, host_delay_us : U16s]
    \cup [type : {"EndSession"}, code : U16s] \cup [type : {"Error"}, code : {258}, message : Texts]
    \cup [type : {"QosReport"}, rtt_ms : {1}, jitter_ms : {2}, loss_permille : {1000},
          frames_decoded : {65535}, frames_dropped : {4}, render_fps_q8 : {7680},
          playout_delay_ms : {6}, decode_time_us : {7}]
    \cup [type : {"Hello"}, body : {<<>>, <<161, 1>>}]
    \cup [type : {"Unknown"}, msg_type : {96}, body : {<<5>>}]
InputPayloads ==
    [type : {"MouseMove"}, display_id : U8s, flags : {1}, x_norm : U16s, y_norm : U16s, modifiers : {1025}]
    \cup [type : {"MouseMoveRelative"}, dx : I16s, dy : I16s, modifiers : U16s, display_id : {3}]
    \cup [type : {"MouseButton"}, button : {1, 5}, action : {0, 1}, x_norm : U16s, y_norm : {2},
          modifiers : {8}, display_id : U8s, click_count : {1, 3}]
    \cup [type : {"MouseWheel"}, delta_v : I16s, delta_h : I16s, modifiers : {2}, display_id : {0}, flags : {1}]
    \cup [type : {"KeyEvent"}, usage_page : {7}, usage_id : {1, 231}, action : 0..2, flags : {0}, modifiers : U16s]
    \cup [type : {"KeyStateSync"}, modifiers : {258}, authoritative : BOOLEAN,
          pressed : {<<>>, <<4>>, <<4, 231>>, <<4, 5, 6>>}]
    \cup [type : {"TextInput"}, commit : BOOLEAN, preedit : BOOLEAN, text : Texts \ {<<>>}]
VideoPayloads ==
    [type : {"RequestKeyframe"}, mode : {0, 1}, ltr_index : U8s, reason : U16s]
    \cup [type : {"LtrAck"}, ltr_index : U8s, frame_id : U16s]
    \cup [type : {"CursorUpdate"}, shape_id : U32s, x_norm : U16s, y_norm : {1}, display_id : {2}, visible : BOOLEAN]
    \cup [type : {"CursorShape"}, shape_id : U32s, width : {2}, height : {1}, hotspot_x : {1}, hotspot_y : {0},
          format : {0}, data : {<<1, 2, 3, 4, 5, 6, 7, 8>>}]
    \cup [type : {"VideoFrame"}, frame_id : U32s, fragment_index : {0, 1}, fragment_count : {2}, kind : 0..2,
          temporal_layer : {1}, pts_high : {0, 1}, pts_low : U32s, data : {<<>>, <<9>>, <<9, 8>>}]
MCMessages == [payload : SessionPayloads \cup InputPayloads \cup VideoPayloads,
               flags : {0, 2}, sequence : {0, 65535}, timestamp_ms : {16909060}]
-----------------------------------------------------------------------------
VARIABLE part
Parts == {"capture", "pixels", "stream", "rate", "wire", "link", "report", "playout", "recovery", "window",
          "canvas"}
mediaVars == <<part, capVars, planarVars, streamVars, rateVars, wireVars, simVars, linkVars, playVars, recVars, pictureVars,
               appCanvasVars>>

\* A component that stands still has one initial state.
Still(p, v, S) == part # p => v = CHOOSE x \in S : TRUE

MediaInit ==
    /\ part \in Parts
    /\ CaptureInit /\ Still("capture", screen, Resolutions)
    /\ PlanarInit /\ Still("pixels", source, Sources) /\ Still("pixels", setting, Settings)
    /\ StreamInit /\ Still("stream", format, SetPairs)
    /\ RateInit /\ SimInit /\ LinkInit /\ PlayoutInit
    /\ IF part = "wire" THEN WireInit
       ELSE /\ message = CHOOSE m \in MCMessages : m.payload.type = "Ping"
            /\ bytes = Encode(message) /\ off = 0
    /\ RecoveryInit /\ Still("recovery", wanted, Geometries) /\ Still("recovery", backend, {"software"})
    /\ PictureInit /\ Still("window", display, Screens) /\ Still("window", window, WindowSizes)
    /\ AppCanvasInit /\ Still("canvas", <<handle, fatal>>, {<<"none", TRUE>>})

\* The components other than p stand still.
Others(p) ==
    /\ (p # "capture") => UNCHANGED capVars
    /\ (p # "pixels") => UNCHANGED planarVars
    /\ (p # "stream") => UNCHANGED streamVars
    /\ (p # "rate") => UNCHANGED rateVars
    /\ (p # "wire") => UNCHANGED wireVars
    /\ (p # "link") => UNCHANGED simVars
    /\ (p # "report") => UNCHANGED linkVars
    /\ (p # "playout") => UNCHANGED playVars
    /\ (p # "recovery") => UNCHANGED recVars
    /\ (p # "window") => UNCHANGED pictureVars
    /\ (p # "canvas") => UNCHANGED appCanvasVars
    /\ UNCHANGED part

MediaNext ==
    \/ part = "capture" /\ CaptureNext /\ Others("capture")
    \/ part = "pixels" /\ PlanarNext /\ Others("pixels")
    \/ part = "stream" /\ StreamNext /\ Others("stream")
    \/ part = "rate" /\ RateNext /\ Others("rate")
    \/ part = "wire" /\ WireNext /\ Others("wire")
    \/ part = "link" /\ SimNext /\ Others("link")
    \/ part = "report" /\ LinkNext /\ Others("report")
    \/ part = "playout" /\ PlayoutNext /\ Others("playout")
    \/ part = "recovery" /\ RecoveryNext /\ Others("recovery")
    \/ part = "window" /\ PictureNext /\ Others("window")
    \/ part = "canvas" /\ AppCanvasNext /\ Others("canvas")

\* The fairness of recovery and of the canvas, in the behaviours that are theirs.
MediaSpec ==
    /\ MediaInit /\ [][MediaNext]_mediaVars
    /\ WF_recVars(part = "recovery" /\ EncodeFrame)
    /\ WF_recVars(part = "recovery" /\ OnRecoveryRequest)
    /\ WF_recVars(part = "recovery" /\ TimePasses)
    /\ WF_recVars(part = "recovery" /\ (PlayFrame \/ SkipLost))
    /\ WF_appCanvasVars(part = "canvas" /\ TickWithoutFrame)
    /\ WF_appCanvasVars(part = "canvas" /\ TelemetryPoll)
    /\ WF_appCanvasVars(part = "canvas" /\ IdlePasses)
    /\ WF_appCanvasVars(part = "canvas" /\ \E u \in uploads : UploadEnds(u))

\* PictureReturns, in the behaviours of recovery: a viewer without a picture gets one,
\* whatever was lost, dropped by the encoder or discarded for a change of size, unless its
\* decoder swallows every frame from some time on.
ViewerGetsItsPicture ==
    (part = "recovery" /\ picture # "shown") ~> (picture = "shown" \/ [](picture = "swallowed"))
=============================================================================
