------------------------------ MODULE AppInput ------------------------------
(***************************************************************************)
(* Input in the Flutter application: the layer that captures key and       *)
(* pointer events (app/lib/src/ui/input_layer.dart, input_mapping.dart),   *)
(* its handle on the native encoder (app/lib/src/ffi/client.dart) and the  *)
(* encoder itself (rda-ffi/src/input.rs). Every Dart callback runs to its  *)
(* end before another starts, so each is one action.                       *)
(*                                                                         *)
(* The frames go to a host that applies what the layer emits in order, the *)
(* reliable input-k as well as the moves: remoteKeys, remoteButtons and    *)
(* remotePointer are what it holds once it has all of them, as             *)
(* rda-input/src/lib.rs applies them. Modifier masks are sets of usages.   *)
(***************************************************************************)
EXTENDS Integers, FiniteSets

CONSTANTS
    AppKeys,          \* usages hidUsageFor returns
    LeftModifiers,    \* the left-hand modifiers among them (0xE0-0xE3)
    RightModifiers,   \* the right-hand ones (0xE4-0xE7)
    AppButtons,       \* ids buttonIdFor returns; 1 is the primary one
    AppPoints,        \* normalised positions
    POINTER_INTERVAL, \* 1000 / POINTER_HZ
    APP_PRESSED_KEYS, \* MAX_PRESSED_KEYS
    AppTime,          \* bound of the clock
    NoMove            \* pending_move is None

ASSUME AppInputAssumption ==
    /\ LeftModifiers \subseteq AppKeys /\ RightModifiers \subseteq AppKeys
    /\ IsFiniteSet(AppKeys) /\ 1 \in AppButtons
    /\ APP_PRESSED_KEYS \in Nat /\ POINTER_INTERVAL \in Nat /\ AppTime \in Nat

VARIABLES
    appClock,      \* _nowMs
    focused,       \* _focus.hasFocus
    mounted,       \* the layer is in the tree; it is disposed before the encoder is
    physical,      \* the keys the user holds down
    mouseAt,       \* where the user has put the pointer
    mouseDown,     \* the mouse button the user holds, 0: none
    layerHeld,     \* _held
    syncTimer,     \* _syncTimer: "null", "active" or "cancelled"
    pendingMove,   \* RdaInputEncoder::pending_move
    lastPointerMs, \* RdaInputEncoder::last_pointer_ms
    remoteKeys,    \* host: the keys held
    remoteButtons, \* host: the buttons held
    remotePointer, \* host: the pointer
    repeated       \* history: keys sent by a repeat and not reported as held since

userVars == <<physical, mouseAt, mouseDown>>
encoderVars == <<pendingMove, lastPointerMs>>
remoteVars == <<remoteKeys, remoteButtons, remotePointer>>
appInputVars == <<appClock, focused, mounted, userVars, layerHeld, syncTimer, encoderVars,
                  remoteVars, repeated>>

Modifiers == LeftModifiers \cup RightModifiers

\* modifiersFor: the mask of the keys held.
ModifiersFor(held) == held \cap Modifiers

-----------------------------------------------------------------------------
\* What a frame makes the host hold: any frame but a snapshot first releases the
\* modifiers its mask does not name; an authoritative snapshot replaces the rest.
Reconciled(keys, mask) == keys \ (Modifiers \ mask)
OnKeyFrame(keys, usage, down, mask) ==
    IF down THEN Reconciled(keys, mask) \cup {usage} ELSE Reconciled(keys, mask) \ {usage}

\* rda_input_key_state_sync refuses a longer list, and RdaInput.keyStateSync then
\* returns no frame.
OnSnapshot(keys, held) == IF Cardinality(held) > APP_PRESSED_KEYS THEN keys ELSE held

AppInputInit ==
    /\ appClock = 0 /\ focused = TRUE /\ mounted = TRUE
    /\ physical = {} /\ mouseAt \in AppPoints /\ mouseDown = 0
    /\ layerHeld = {} /\ syncTimer = "null"
    /\ pendingMove = NoMove /\ lastPointerMs = 0
    /\ remoteKeys = {} /\ remoteButtons = {} /\ remotePointer = mouseAt
    /\ repeated = {}

\* _onKeyEvent, KeyDownEvent; a key pressed elsewhere never reaches the layer.
AppKeyDown(u) ==
    /\ u \notin physical
    /\ physical' = physical \cup {u}
    /\ \/ /\ focused /\ mounted
          /\ layerHeld' = layerHeld \cup {u}
          /\ syncTimer' = IF syncTimer = "null" THEN "active" ELSE syncTimer
          /\ remoteKeys' = OnKeyFrame(remoteKeys, u, TRUE, ModifiersFor(layerHeld'))
          /\ repeated' = repeated \ {u}
       \/ /\ ~(focused /\ mounted)
          /\ UNCHANGED <<layerHeld, syncTimer, remoteKeys, repeated>>
    /\ UNCHANGED <<appClock, focused, mounted, mouseAt, mouseDown, encoderVars,
                   remoteButtons, remotePointer>>

\* _onKeyEvent, KeyUpEvent.
AppKeyUp(u) ==
    /\ u \in physical
    /\ physical' = physical \ {u}
    /\ \/ /\ focused /\ mounted
          /\ layerHeld' = layerHeld \ {u}
          /\ remoteKeys' = OnKeyFrame(remoteKeys, u, FALSE, ModifiersFor(layerHeld'))
          /\ repeated' = repeated \ {u}
       \/ ~(focused /\ mounted) /\ UNCHANGED <<layerHeld, remoteKeys, repeated>>
    /\ UNCHANGED <<appClock, focused, mounted, mouseAt, mouseDown, syncTimer, encoderVars,
                   remoteButtons, remotePointer>>

\* _onKeyEvent, KeyRepeatEvent: the key goes out as pressed and _held is left
\* alone, also for a key that went down before the layer had the focus.
AppKeyRepeat(u) ==
    /\ u \in physical /\ focused /\ mounted
    /\ remoteKeys' = OnKeyFrame(remoteKeys, u, TRUE, ModifiersFor(layerHeld))
    /\ repeated' = IF u \in layerHeld THEN repeated ELSE repeated \cup {u}
    /\ UNCHANGED <<appClock, focused, mounted, userVars, layerHeld, syncTimer, encoderVars,
                   remoteButtons, remotePointer>>

\* Fault: the cancelled timer stays in _syncTimer.
LayerReleasesKeepsTimer ==
    /\ layerHeld' = {}
    /\ remoteKeys' = IF layerHeld = {} THEN remoteKeys ELSE {}
    /\ syncTimer' = IF layerHeld = {} THEN syncTimer ELSE "cancelled"
\* _releaseAll: nothing when nothing is held; else a release of each key, with
\* no modifiers, and an empty snapshot.
LayerReleases ==
    /\ layerHeld' = {}
    /\ remoteKeys' = IF layerHeld = {} THEN remoteKeys ELSE {}
    /\ syncTimer' = IF layerHeld = {} THEN syncTimer ELSE "null"

\* _onFocusChanged.
FocusChanges ==
    /\ mounted
    /\ focused' = ~focused
    /\ \/ focused /\ LayerReleases
       \/ ~focused /\ UNCHANGED <<layerHeld, remoteKeys, syncTimer>>
    /\ UNCHANGED <<appClock, mounted, userVars, encoderVars, remoteButtons, remotePointer, repeated>>

\* dispose: the timer is cancelled, then _releaseAll.
DisposeLayer ==
    /\ mounted /\ mounted' = FALSE
    /\ layerHeld' = {}
    /\ remoteKeys' = IF layerHeld = {} THEN remoteKeys ELSE {}
    /\ syncTimer' = IF layerHeld # {} THEN "null"
                    ELSE IF syncTimer = "active" THEN "cancelled" ELSE syncTimer
    /\ UNCHANGED <<appClock, focused, userVars, encoderVars, remoteButtons, remotePointer, repeated>>

\* The periodic callback: the snapshot, or the end of the timer.
SyncTimerFires ==
    /\ syncTimer = "active"
    /\ \/ layerHeld = {} /\ syncTimer' = "null" /\ UNCHANGED <<remoteKeys, repeated>>
       \/ /\ layerHeld # {}
          /\ remoteKeys' = OnSnapshot(remoteKeys, layerHeld)
          /\ repeated' = repeated \cap remoteKeys'
          /\ UNCHANGED syncTimer
    /\ UNCHANGED <<appClock, focused, mounted, userVars, layerHeld, encoderVars,
                   remoteButtons, remotePointer>>

-----------------------------------------------------------------------------
\* _onPointerMove and rda_input_pointer_move: a move inside the interval is kept
\* in pending_move, another one goes out and drops what was kept.
PointerMoves(p) ==
    /\ mounted /\ p # mouseAt
    /\ mouseAt' = p
    /\ \/ /\ appClock - lastPointerMs < POINTER_INTERVAL
          /\ pendingMove' = p
          /\ UNCHANGED <<lastPointerMs, remotePointer, remoteKeys>>
       \/ /\ appClock - lastPointerMs >= POINTER_INTERVAL
          /\ lastPointerMs' = appClock
          /\ pendingMove' = NoMove
          /\ remotePointer' = p
          /\ remoteKeys' = Reconciled(remoteKeys, ModifiersFor(layerHeld))
    /\ UNCHANGED <<appClock, focused, mounted, physical, mouseDown, layerHeld, syncTimer,
                   remoteButtons, repeated>>

\* _onPointerDown and rda_input_pointer_button: the focus is asked for, the
\* button's own position replaces what was kept.
PointerDown(b) ==
    /\ mounted /\ mouseDown = 0
    /\ mouseDown' = b
    /\ focused' = TRUE
    /\ pendingMove' = NoMove
    /\ remoteButtons' = remoteButtons \cup {b}
    /\ remotePointer' = mouseAt
    /\ remoteKeys' = Reconciled(remoteKeys, ModifiersFor(layerHeld))
    /\ UNCHANGED <<appClock, mounted, physical, mouseAt, layerHeld, syncTimer, lastPointerMs,
                   repeated>>

\* _onPointerUp: always button 1.
PointerUp ==
    /\ mounted /\ mouseDown # 0
    /\ mouseDown' = 0
    /\ pendingMove' = NoMove
    /\ remoteButtons' = remoteButtons \ {1}
    /\ remotePointer' = mouseAt
    /\ remoteKeys' = Reconciled(remoteKeys, ModifiersFor(layerHeld))
    /\ UNCHANGED <<appClock, focused, mounted, physical, mouseAt, layerHeld, syncTimer,
                   lastPointerMs, repeated>>

\* _onPointerSignal and rda_input_scroll.
Scrolls ==
    /\ mounted
    /\ remoteKeys' = Reconciled(remoteKeys, ModifiersFor(layerHeld))
    /\ UNCHANGED <<appClock, focused, mounted, userVars, layerHeld, syncTimer, encoderVars,
                   remoteButtons, remotePointer, repeated>>

AppTick ==
    /\ appClock < AppTime
    /\ appClock' = appClock + 1
    /\ UNCHANGED <<focused, mounted, userVars, layerHeld, syncTimer, encoderVars, remoteVars,
                   repeated>>

AppInputNext ==
    \/ \E u \in AppKeys : AppKeyDown(u) \/ AppKeyUp(u) \/ AppKeyRepeat(u)
    \/ FocusChanges \/ DisposeLayer \/ SyncTimerFires
    \/ \E p \in AppPoints : PointerMoves(p)
    \/ \E b \in AppButtons : PointerDown(b)
    \/ PointerUp \/ Scrolls \/ AppTick

AppInputSpec == AppInputInit /\ [][AppInputNext]_appInputVars

-----------------------------------------------------------------------------
\* The ranges of the layer's, the encoder's and the host's state.
AppInputTypeOK ==
    /\ appClock \in 0..AppTime /\ lastPointerMs \in 0..appClock
    /\ focused \in BOOLEAN /\ mounted \in BOOLEAN
    /\ physical \subseteq AppKeys /\ mouseAt \in AppPoints /\ mouseDown \in AppButtons \cup {0}
    /\ layerHeld \subseteq AppKeys /\ syncTimer \in {"null", "active", "cancelled"}
    /\ pendingMove \in AppPoints \cup {NoMove}
    /\ remoteKeys \subseteq AppKeys /\ remoteButtons \subseteq AppButtons
    /\ remotePointer \in AppPoints /\ repeated \subseteq AppKeys

\* The keys the layer reports as held are held by the user and by the host, and
\* the host holds no other key, except one that reached it as a repeat only: no
\* frame's mask takes a modifier of the user away, no focus change leaves one.
LayerAndHostAgree ==
    /\ layerHeld \subseteq physical \cap remoteKeys
    /\ remoteKeys \subseteq layerHeld \cup repeated

\* While the layer holds a key its heartbeat is running (input_layer.dart:13): a
\* timer cancelled by a loss of focus does not keep the next key press from
\* starting one.
HeartbeatWhileHeld == layerHeld # {} => syncTimer = "active"

\* The app's keyboard, its heartbeat and the keys of the host go together.
KeyboardsAgree == AppInputTypeOK /\ LayerAndHostAgree /\ HeartbeatWhileHeld
=============================================================================
