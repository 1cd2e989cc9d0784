------------------------------ MODULE Injector ------------------------------
(***************************************************************************)
(* The injection facade (rda-input/src/lib.rs) over the key state          *)
(* (state.rs), the rate guard and the combination policy (grant.rs), and   *)
(* the keys of the host's operating system as its backend leaves them.     *)
(*                                                                         *)
(* Usages are the integers of is_valid_keyboard_usage: the order in which  *)
(* a batch reaches the backend is ascending, and the modifiers are the     *)
(* greatest usages, so release_all's "modifiers last" is ascending too.    *)
(* A call for a usage of the set F of a step fails.                        *)
(*                                                                         *)
(* A frame refused before the rate limit (the local user has control, the  *)
(* grant has no input) only counts in the statistics, which are left out:  *)
(* it is a stuttering step.                                                *)
(***************************************************************************)
EXTENDS RateWindow, FiniteSets

CONSTANTS
    Usages,          \* is_valid_keyboard_usage
    Known,           \* usages that hid::lookup finds
    Mapped,          \* usages this platform has a code for
    Mods,            \* MODIFIER_USAGES; a mask is the set of its modifiers
    Displays,        \* display ids
    Blocked,         \* CombinationPolicy::blocked, pairs <<mask, usage>>
    MayFail,         \* usages for which the operating system may refuse a call
    MAX_HELD_KEYS,   \* the capacity of KeyState
    KEY_LIMIT,       \* RateLimits::key_per_s
    POINTER_LIMIT,   \* RateLimits::pointer_per_s
    MaxTime          \* bound of the clock

ASSUME InjectorAssumption ==
    /\ Usages \subseteq Nat /\ IsFiniteSet(Usages)
    /\ Mods \subseteq Mapped /\ Mapped \subseteq Known /\ Known \subseteq Usages
    /\ \A m \in Mods, u \in Usages \ Mods : u < m
    /\ MayFail \subseteq Usages
    /\ Blocked \subseteq (SUBSET Mods) \X Usages
    /\ MAX_HELD_KEYS \in Nat /\ KEY_LIMIT \in Nat /\ POINTER_LIMIT \in Nat /\ MaxTime \in Nat

VARIABLES
    now,           \* now_ms, as the caller passes it
    mayInject,     \* SessionGrant::may_inject_input of the grant passed to apply
    displays,      \* ids of the shared displays
    control,       \* local_control
    held,          \* KeyState::held
    osDown,        \* keys the operating system takes as pressed by the backend
    keyWindow,     \* RateGuard::key
    pointerWindow, \* RateGuard::pointer
    clean          \* history: no backend call failed, no press met a full table

vars == <<now, mayInject, displays, control, held, osDown, keyWindow, pointerWindow, clean>>

-----------------------------------------------------------------------------
\* What a step's backend calls run into: an unmapped usage always fails
\* (platform_code), another one fails when the operating system refuses it.
Faults == {(Usages \ Mapped) \cup X : X \in SUBSET MayFail}

\* KeyState::press: a full table takes no new key.
Untracked(h, u) == Cardinality(h) >= MAX_HELD_KEYS /\ u \notin h
\* Fault: off by one at the capacity.
PressPastCapacity(h, u) == IF Cardinality(h) > MAX_HELD_KEYS /\ u \notin h THEN h ELSE h \cup {u}
Press(h, u) == IF Untracked(h, u) THEN h ELSE h \cup {u}

\* KeyState::reconcile_modifiers: the held modifiers the mask does not name.
\* It only ever releases.
NotInMask(mask) == (held \cap Mods) \ mask

\* A batch of calls in ascending order stops at the first failure (`?`).
Performed(batch, F) == {u \in batch : \A f \in batch \cap F : u < f}

\* CombinationPolicy::permits.
Permits(mask, u) == \A b \in Blocked : ~(b[2] = u /\ b[1] \subseteq mask)

Admitted == control = "Remote" /\ mayInject

-----------------------------------------------------------------------------
Init == /\ now = 0
        /\ mayInject \in BOOLEAN
        /\ displays \in SUBSET Displays
        /\ control = "Remote"
        /\ held = {}
        /\ osDown = {}
        /\ keyWindow = EmptyWindow
        /\ pointerWindow = EmptyWindow
        /\ clean = TRUE

Tick == /\ now < MaxTime
        /\ now' = now + 1
        /\ UNCHANGED <<mayInject, displays, control, held, osDown, keyWindow, pointerWindow, clean>>

\* SessionGrant::restrict to view-only: the grant only narrows.
Downgrade == /\ mayInject' = FALSE
             /\ UNCHANGED <<now, displays, control, held, osDown, keyWindow, pointerWindow, clean>>

\* Injector::set_displays.
SetDisplays(ds) == /\ displays' = ds
                   /\ UNCHANGED <<now, mayInject, control, held, osDown, keyWindow, pointerWindow, clean>>

\* rate_ok for the key class, and for the pointer class.
CountKey == keyWindow' = Counted(keyWindow, KEY_LIMIT, now) /\ UNCHANGED pointerWindow
CountPointer == pointerWindow' = Counted(pointerWindow, POINTER_LIMIT, now) /\ UNCHANGED keyWindow
KeyBudget == WithinBudget(keyWindow, KEY_LIMIT, now)
PointerBudget == WithinBudget(pointerWindow, POINTER_LIMIT, now)

\* Fault: the backend is told, the key state is not.
SyncModifiersUntracked(mask, F) ==
    /\ osDown' = osDown \ (NotInMask(mask) \ F)
    /\ clean' = (clean /\ NotInMask(mask) \cap F = {})
    /\ UNCHANGED held
\* sync_modifiers: each release is attempted, failures are ignored.
SyncModifiers(mask, F) ==
    /\ held' = held \ NotInMask(mask)
    /\ osDown' = osDown \ (NotInMask(mask) \ F)
    /\ clean' = (clean /\ NotInMask(mask) \cap F = {})

\* The frames that stop after the rate limiter: over budget, a display that is
\* not shared, a usage with no mapping, a blocked combination; and TextInput,
\* which holds no key.
NoKeyEffect ==
    /\ Admitted
    /\ CountKey
    /\ UNCHANGED <<now, mayInject, displays, control, held, osDown, clean>>

NoPointerEffect ==
    /\ Admitted
    /\ CountPointer
    /\ UNCHANGED <<now, mayInject, displays, control, held, osDown, clean>>

RateLimited == ~KeyBudget /\ NoKeyEffect
PointerRateLimited == ~PointerBudget /\ NoPointerEffect
UnknownDisplay(d) == /\ d \notin displays
                     /\ \/ PointerBudget /\ NoPointerEffect
                        \/ KeyBudget /\ NoKeyEffect
RefuseKey(u, mask) == /\ u \notin Known \/ ~Permits(mask, u)
                      /\ KeyBudget /\ NoKeyEffect
TextInput == KeyBudget /\ NoKeyEffect

\* MouseMove on a shared display; MouseMoveRelative has no display to check.
MouseMove(d, mask, F) ==
    /\ Admitted /\ PointerBudget
    /\ d \in displays
    /\ CountPointer
    /\ SyncModifiers(mask, F)
    /\ UNCHANGED <<now, mayInject, displays, control>>

MouseMoveRelative(mask, F) ==
    /\ Admitted /\ PointerBudget
    /\ CountPointer
    /\ SyncModifiers(mask, F)
    /\ UNCHANGED <<now, mayInject, displays, control>>

\* MouseButton and MouseWheel. Buttons are not part of KeyState.
MouseButton(d, mask, F) ==
    /\ Admitted /\ KeyBudget
    /\ d \in displays
    /\ CountKey
    /\ SyncModifiers(mask, F)
    /\ UNCHANGED <<now, mayInject, displays, control>>

MouseWheel(mask, F) ==
    /\ Admitted /\ KeyBudget
    /\ CountKey
    /\ SyncModifiers(mask, F)
    /\ UNCHANGED <<now, mayInject, displays, control>>

\* KeyEvent: the mask first, then the key; recorded before the backend is called.
KeyDown(u, mask, F) ==
    LET h == held \ NotInMask(mask)
        d == osDown \ (NotInMask(mask) \ F)
    IN  /\ Admitted /\ KeyBudget
        /\ u \in Known /\ Permits(mask, u)
        /\ CountKey
        /\ held' = Press(h, u)
        /\ osDown' = IF u \in F THEN d ELSE d \cup {u}
        /\ clean' = (clean /\ (NotInMask(mask) \cup {u}) \cap F = {} /\ ~Untracked(h, u))
        /\ UNCHANGED <<now, mayInject, displays, control>>

KeyUp(u, mask, F) ==
    LET h == held \ NotInMask(mask)
        d == osDown \ (NotInMask(mask) \ F)
    IN  /\ Admitted /\ KeyBudget
        /\ u \in Known /\ Permits(mask, u)
        /\ CountKey
        /\ held' = h \ {u}
        /\ osDown' = IF u \in F THEN d ELSE d \ {u}
        /\ clean' = (clean /\ (NotInMask(mask) \cup {u}) \cap F = {})
        /\ UNCHANGED <<now, mayInject, displays, control>>

\* KeyStateSync: the tracked state becomes the snapshot at once; the releases,
\* then the presses, reach the backend until one fails. The wire carries at most
\* MAX_PRESSED_KEYS = MAX_HELD_KEYS usages, and its mask is not used.
KeyStateSync(pressed, F) ==
    LET stale == held \ pressed
        lost == pressed \ held
    IN  /\ Admitted /\ KeyBudget
        /\ CountKey
        /\ held' = pressed
        /\ osDown' = (osDown \ Performed(stale, F))
                     \cup (IF stale \cap F = {} THEN Performed(lost, F) ELSE {})
        /\ clean' = (clean /\ (stale \cup lost) \cap F = {})
        /\ UNCHANGED <<now, mayInject, displays, control>>

\* KeyState::release_all through the backend: the state is cleared first.
ReleaseHeld(F) ==
    /\ held' = {}
    /\ osDown' = osDown \ Performed(held, F)
    /\ clean' = (clean /\ held \cap F = {})

\* Injector::release_all.
ReleaseAll(F) ==
    /\ ReleaseHeld(F)
    /\ UNCHANGED <<now, mayInject, displays, control, keyWindow, pointerWindow>>

\* Fault: control changes hands and the keys stay.
TakeControlKeepsKeys(F) ==
    /\ control' = "Local"
    /\ UNCHANGED <<now, mayInject, displays, held, osDown, clean, keyWindow, pointerWindow>>
\* Injector::set_local_control(Local): a failed release returns before control
\* changes hands. set_local_control(Remote) releases nothing.
TakeControl(F) ==
    /\ ReleaseHeld(F)
    /\ control' = IF held \cap F = {} THEN "Local" ELSE control
    /\ UNCHANGED <<now, mayInject, displays, keyWindow, pointerWindow>>

ReturnControl ==
    /\ control' = "Remote"
    /\ UNCHANGED <<now, mayInject, displays, held, osDown, keyWindow, pointerWindow, clean>>

Apply ==
    \/ RateLimited \/ PointerRateLimited \/ TextInput
    \/ \E d \in Displays : UnknownDisplay(d)
    \/ \E u \in Usages, mask \in SUBSET Mods : RefuseKey(u, mask)
    \/ \E mask \in SUBSET Mods, F \in Faults :
          \/ MouseMoveRelative(mask, F) \/ MouseWheel(mask, F)
          \/ \E d \in Displays : MouseMove(d, mask, F) \/ MouseButton(d, mask, F)
          \/ \E u \in Usages : KeyDown(u, mask, F) \/ KeyUp(u, mask, F)
    \/ \E pressed \in SUBSET Usages, F \in Faults :
          Cardinality(pressed) <= MAX_HELD_KEYS /\ KeyStateSync(pressed, F)

Next == \/ Tick \/ Downgrade \/ ReturnControl \/ Apply
        \/ \E ds \in SUBSET Displays : SetDisplays(ds)
        \/ \E F \in Faults : ReleaseAll(F) \/ TakeControl(F)

Spec == Init /\ [][Next]_vars
-----------------------------------------------------------------------------
Windows == [start : 0..MaxTime, count : Nat]
TypeOK == /\ now \in 0..MaxTime
          /\ mayInject \in BOOLEAN
          /\ displays \in SUBSET Displays
          /\ control \in {"Remote", "Local"}
          /\ held \in SUBSET Usages
          /\ osDown \in SUBSET Usages
          /\ keyWindow \in Windows /\ pointerWindow \in Windows
          /\ clean \in BOOLEAN

\* As long as no backend call failed and no press met a full table, the keys
\* pressed on the host are exactly the tracked ones, so release_all undoes all of
\* them: neither a mask, a snapshot nor a takeover lets the two drift apart.
HeldIsDown == clean => osDown = held

\* The local user always wins: while they have control, no key the peer pressed
\* is down (under the same conditions), however the takeover was reached.
LocalUserWins == clean /\ control = "Local" => osDown = {}

\* The table never holds more keys than its capacity (MAX_HELD_KEYS).
BoundedTable == Cardinality(held) <= MAX_HELD_KEYS

\* rda-input/src/lib.rs, set_local_control: taking control releases every held
\* key immediately. Stated for every backend, failing ones included.
TakeoverReleasesKeys == control = "Local" => osDown = {}
=============================================================================
