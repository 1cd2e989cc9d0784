----------------------------- MODULE InputPath -----------------------------
(***************************************************************************)
(* Input from the viewer's window to the host's keyboard: the window loop  *)
(* (rda-client/src/viewer.rs), the two data channels the session puts its  *)
(* events on (rda-client/src/session.rs), the host's stream loop           *)
(* (rda-host/src/serve.rs) and the injector it hands the frames to.        *)
(*                                                                         *)
(* input-k is reliable and ordered: a sequence. input-p is unordered and   *)
(* lossy: a set of moves from which any one may be delivered or dropped.   *)
(* The host's grant has input and the one shared display is display 0, the *)
(* id the client writes into every frame.                                  *)
(***************************************************************************)
EXTENDS Injector, Sequences

CONSTANTS
    TrackedKeys, \* tracked_keys: the keys the window loop looks at
    Gestures,    \* what the mouse may do in one iteration: subsets of "move", "click", "scroll"
    MaxFrames    \* bound of the iterations of the window loop

ASSUME PathAssumption ==
    TrackedKeys \subseteq Usages /\ 0 \notin Usages /\ 0 \in Displays /\ MaxFrames \in Nat

VARIABLES
    keyDown,     \* viewer: key_down, the keys last reported as held
    buttonDown,  \* viewer: buttons_down of one mouse button
    frames,      \* iterations of the window loop so far
    quit,        \* the window has closed and InputEvent::Quit was sent
    keyChan,     \* input-k in flight
    pointerChan, \* input-p in flight: <<sequence, mask>>
    streaming,   \* the host's stream loop is running
    osButton,    \* the button as the operating system takes it
    lastMove,    \* history: sequence of the last move the host applied
    refused      \* history: keys (0: the button) whose last frame was refused

viewerVars == <<keyDown, buttonDown, frames, quit>>
channelVars == <<keyChan, pointerChan>>
hostVars == <<streaming, osButton, lastMove, refused>>
pathVars == <<viewerVars, channelVars, hostVars, vars>>

\* A frame of input-k, as session::to_payload fills it; usage 0 is the button.
Frame(kind, usage, down, mask) == [kind |-> kind, usage |-> usage, down |-> down, mask |-> mask]

\* The one fault a step of this module can meet: an unmapped usage.
F0 == Usages \ Mapped

-----------------------------------------------------------------------------
PathInit ==
    /\ Init /\ mayInject = TRUE /\ displays = Displays
    /\ keyDown = {} /\ buttonDown = FALSE /\ frames = 0 /\ quit = FALSE
    /\ keyChan = <<>> /\ pointerChan = {}
    /\ streaming = TRUE /\ osButton = FALSE /\ lastMove = 0 /\ refused = {}

\* The i-th of a set of usages in the order of tracked_keys: the modifiers last.
InOrder(changed, i) == CHOOSE u \in changed : Cardinality({v \in changed : v <= u}) = i
\* Fault: only presses are reported.
KeyFramesPressesOnly(from, to, mask) ==
    [i \in 1..Cardinality(to \ from) |-> Frame("key", InOrder(to \ from, i), TRUE, mask)]
\* The transitions of one iteration.
KeyFrames(from, to, mask) ==
    LET changed == (from \ to) \cup (to \ from)
    IN  [i \in 1..Cardinality(changed) |->
            Frame("key", InOrder(changed, i), InOrder(changed, i) \in to, mask)]

\* One iteration of viewer::run, with the session's stream loop forwarding what
\* it emits: the window's keys are keys, its mask is theirs; the pointer first,
\* then the button, the wheel and the keys.
WindowLoop(keys, mouse) ==
    LET mask == keys \cap Mods
        button == IF "click" \in mouse THEN ~buttonDown ELSE buttonDown
        click == IF "click" \in mouse THEN <<Frame("button", 0, button, mask)>> ELSE <<>>
        wheel == IF "scroll" \in mouse THEN <<Frame("wheel", 0, FALSE, mask)>> ELSE <<>>
    IN  /\ ~quit /\ frames < MaxFrames
        /\ frames' = frames + 1
        /\ keyDown' = keys
        /\ buttonDown' = button
        /\ pointerChan' = IF "move" \in mouse
                          THEN pointerChan \cup {<<frames + 1, mask>>} ELSE pointerChan
        /\ keyChan' = keyChan \o click \o wheel \o KeyFrames(keyDown, keys, mask)
        /\ UNCHANGED <<quit, hostVars, vars>>

\* The end of viewer::run: every held key goes up with an empty mask, then Quit.
CloseWindow ==
    /\ ~quit
    /\ quit' = TRUE
    /\ keyChan' = keyChan \o KeyFrames(keyDown, {}, {})
    /\ keyDown' = {}
    /\ UNCHANGED <<buttonDown, frames, pointerChan, hostVars, vars>>

\* input-p loses a move (max_retransmits 0).
LoseMove(m) ==
    /\ m \in pointerChan
    /\ pointerChan' = pointerChan \ {m}
    /\ UNCHANGED <<viewerVars, keyChan, hostVars, vars>>

\* The stream loop's drain hands a move to Injector::apply; no sequence number
\* is looked at.
DeliverMove(m) ==
    /\ streaming /\ m \in pointerChan
    /\ pointerChan' = pointerChan \ {m}
    /\ \/ MouseMove(0, m[2], F0) /\ lastMove' = m[1]
       \/ PointerRateLimited /\ UNCHANGED lastMove
    /\ UNCHANGED <<viewerVars, keyChan, streaming, osButton, refused>>

\* The drain hands the next frame of input-k to Injector::apply; a refusal is
\* logged and the frame is gone.
DeliverKey ==
    /\ streaming /\ keyChan # <<>>
    /\ keyChan' = Tail(keyChan)
    /\ LET f == Head(keyChan) IN
       \/ /\ f.kind = "key"
          /\ IF f.down THEN KeyDown(f.usage, f.mask, F0) ELSE KeyUp(f.usage, f.mask, F0)
          /\ refused' = refused \ {f.usage}
          /\ UNCHANGED osButton
       \/ /\ \/ f.kind = "key" /\ RefuseKey(f.usage, f.mask)
             \/ RateLimited
          /\ refused' = IF f.kind = "wheel" THEN refused ELSE refused \cup {f.usage}
          /\ UNCHANGED osButton
       \/ /\ f.kind = "button"
          /\ MouseButton(0, f.mask, F0)
          /\ osButton' = f.down
          /\ refused' = refused \ {0}
       \/ /\ f.kind = "wheel"
          /\ MouseWheel(f.mask, F0)
          /\ UNCHANGED <<osButton, refused>>
    /\ UNCHANGED <<viewerVars, pointerChan, streaming, lastMove>>

\* serve::stream ends: its deadline, a failed or blocked send, or the peer gone.
\* The injector is dropped with its key state; nothing is sent to the backend.
EndStream ==
    /\ streaming
    /\ streaming' = FALSE
    /\ UNCHANGED <<viewerVars, channelVars, osButton, lastMove, refused, vars>>

\* The next iteration of the stream loop reads the clock.
ReadClock == streaming /\ Tick /\ UNCHANGED <<viewerVars, channelVars, hostVars>>

PathNext ==
    \/ \E keys \in SUBSET TrackedKeys, mouse \in Gestures : WindowLoop(keys, mouse)
    \/ CloseWindow
    \/ \E m \in pointerChan : LoseMove(m) \/ DeliverMove(m)
    \/ DeliverKey \/ EndStream \/ ReadClock

\* The drain of a running stream loop takes every frame that has arrived.
PathSpec == PathInit /\ [][PathNext]_pathVars /\ WF_pathVars(DeliverKey)
-----------------------------------------------------------------------------
\* The ranges of the window's, the channels' and the host's state.
PathTypeOK ==
    /\ TypeOK
    /\ keyDown \in SUBSET Usages /\ buttonDown \in BOOLEAN /\ quit \in BOOLEAN
    /\ frames \in 0..MaxFrames
    /\ keyChan \in Seq([kind : {"key", "button", "wheel"}, usage : Usages \cup {0},
                        down : BOOLEAN, mask : SUBSET Mods])
    /\ pointerChan \subseteq (1..MaxFrames) \X SUBSET Mods
    /\ streaming \in BOOLEAN /\ osButton \in BOOLEAN
    /\ lastMove \in 0..MaxFrames /\ refused \in SUBSET (Usages \cup {0})

\* What the last frame in flight about a key says of it.
About(u) == {i \in 1..Len(keyChan) : keyChan[i].kind # "wheel" /\ keyChan[i].usage = u}
Pending(u, down) == \E i \in About(u) : keyChan[i].down = down /\ \A j \in About(u) : j <= i

\* The host's keyboard differs from the viewer's only by what input-k still
\* carries or what the injector refused: otherwise a key down too long has its
\* release under way and an ordinary key not yet down its press, whatever moves
\* were lost or came late and whether or not the table had room for the key.
\* (Modifiers may be up too early.)
KeysInFlight ==
    streaming => \A u \in Usages \ refused :
       /\ u \in osDown /\ u \notin keyDown => Pending(u, FALSE)
       /\ u \in (keyDown \cap Mapped) \ Mods /\ u \notin osDown => Pending(u, TRUE)

\* The same of the mouse button, which no key state and no release-all covers.
ButtonInFlight ==
    streaming /\ 0 \notin refused /\ osButton # buttonDown => Pending(0, buttonDown)

\* A window that is closed leaves no key down once the host has applied what it
\* sent, without the help of a release-all on the host.
CleanExit ==
    quit /\ streaming /\ keyChan = <<>> => osDown \subseteq refused

\* Keys, button and the way out together: viewer and host differ by what is in
\* flight or was refused, and by nothing else.
DifferenceIsInFlight == PathTypeOK /\ KeysInFlight /\ ButtonInFlight /\ CleanExit

\* A key the viewer has let go of goes up on the host, unless the session ends
\* or the injector refuses the release.
KeysGoUp ==
    \A u \in TrackedKeys : (u \in osDown /\ u \notin keyDown)
       ~> (u \notin osDown \/ u \in keyDown \/ u \in refused \/ ~streaming)

\* docs/ARCHITECTURE.md 1.2: ending a session always releases all keys.
TeardownReleasesKeys == ~streaming => osDown = {}
=============================================================================
