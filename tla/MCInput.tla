------------------------------- MODULE MCInput -------------------------------
(* The input components in one run. The variable part names the one whose    *)
(* steps a behaviour takes; the rest keep an initial state.                  *)
(*   path     the window's keys and buttons, the channels, the host's input; *)
(*   injector the injector alone, driven by every operation it has, with key *)
(*            2 that has no code on this platform, key 3 the table does not  *)
(*            know, and a second modifier, 5;                                *)
(*   layer    the input layer of the Flutter application.                    *)
EXTENDS MCInputPath, AppInput

VARIABLE part
inputVars == <<part, pathVars, appInputVars>>

OnlyPart(p) == part = p /\ UNCHANGED part

\* No viewer and no stream: the injector alone.
NoSession ==
    /\ keyDown = {} /\ buttonDown = FALSE /\ frames = 0 /\ quit = FALSE
    /\ keyChan = <<>> /\ pointerChan = {}
    /\ streaming = FALSE /\ osButton = FALSE /\ lastMove = 0 /\ refused = {}

\* The layer before its first event, with the pointer at one place.
NoLayer == AppInputInit /\ mouseAt = CHOOSE p \in AppPoints : TRUE

InputInit ==
    \/ part = "path" /\ PathInit /\ NoLayer
    \/ part = "injector" /\ Init /\ NoSession /\ NoLayer
    \/ part = "layer" /\ Init /\ mayInject /\ displays = {} /\ NoSession /\ AppInputInit

InputNext ==
    \/ OnlyPart("path") /\ PathNext /\ UNCHANGED appInputVars
    \/ OnlyPart("injector") /\ Next /\ UNCHANGED <<viewerVars, channelVars, hostVars, appInputVars>>
    \/ OnlyPart("layer") /\ AppInputNext /\ UNCHANGED pathVars

InputSpec == InputInit /\ [][InputNext]_inputVars /\ WF_pathVars(part = "path" /\ DeliverKey)
=============================================================================
