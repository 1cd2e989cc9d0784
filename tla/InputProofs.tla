---------------------------- MODULE InputProofs ----------------------------
(***************************************************************************)
(* Proofs about the injector and the two ways input takes to it.           *)
(*                                                                         *)
(* Injector: the type invariant, the agreement of the tracked and the      *)
(* pressed keys, the local user's precedence, and the capacity of the      *)
(* table, for every keyboard, capacity, policy and rate limit.             *)
(*                                                                         *)
(* InputPath, the viewer's window: the host's keys and button differ from  *)
(* the viewer's by what input-k carries or the injector refused, for any   *)
(* keyboard, policy, rate limit and capacity of the key table. The channel *)
(* is described by its last frame about a key (LastSays), and the          *)
(* injector's invariant is taken over as it is.                            *)
(*                                                                         *)
(* AppInput, the input layer of the Flutter application: the layer and the *)
(* host agree on the keyboard, for any set of keys, whichever of them are  *)
(* modifiers, and any limits.                                              *)
(***************************************************************************)
EXTENDS Injector, InputPath, AppInput, SequenceFacts, FiniteSetTheorems, TLAPS

\* The inductive invariant. LocalUserWins needs that a takeover leaves no tracked
\* key and that nothing is tracked while the local user has control.
IInv == /\ TypeOK
        /\ HeldIsDown
        /\ control = "Local" => held = {}
        /\ BoundedTable

\* Counting an event leaves a window of the type (Window::allow).
LEMMA CountedType ==
    ASSUME NEW w \in Windows, NEW t \in 0..MaxTime, NEW limit \in Nat
    PROVE  Counted(w, limit, t) \in Windows
  <1>1. Roll(w, t) \in Windows
    BY InjectorAssumption DEF Roll, Windows
  <1> QED
    BY <1>1 DEF Counted, Windows

\* Both counters keep their type in a step that counts an event of one class.
LEMMA CountingType ==
    ASSUME TypeOK, CountKey \/ CountPointer
    PROVE  keyWindow' \in Windows /\ pointerWindow' \in Windows
  BY CountedType, InjectorAssumption DEF TypeOK, CountKey, CountPointer

\* Releasing keys never takes the table past its capacity.
LEMMA ShrinkingTable ==
    ASSUME TypeOK, BoundedTable, NEW h \in SUBSET held
    PROVE  /\ IsFiniteSet(h) /\ Cardinality(h) \in Nat
           /\ Cardinality(h) <= MAX_HELD_KEYS
  <1>1. IsFiniteSet(held)
    BY InjectorAssumption, FS_Subset DEF TypeOK
  <1>2. IsFiniteSet(h) /\ Cardinality(h) <= Cardinality(held)
    BY <1>1, FS_Subset
  <1>3. Cardinality(h) \in Nat /\ Cardinality(held) \in Nat
    BY <1>1, <1>2, FS_CardinalityType
  <1> QED
    BY <1>2, <1>3, InjectorAssumption DEF BoundedTable

\* KeyState::press keeps the table within its capacity.
LEMMA PressBounded ==
    ASSUME NEW h, NEW u, IsFiniteSet(h), Cardinality(h) <= MAX_HELD_KEYS
    PROVE  Cardinality(Press(h, u)) <= MAX_HELD_KEYS
  <1>1. Cardinality(h) \in Nat
    BY FS_CardinalityType
  <1>2. CASE Untracked(h, u)
    BY <1>2 DEF Press
  <1>3. CASE u \in h
    <2>1. h \cup {u} = h
      BY <1>3
    <2> QED
      BY <2>1 DEF Press
  <1>4. CASE ~Untracked(h, u) /\ u \notin h
    <2>1. Cardinality(h \cup {u}) = Cardinality(h) + 1
      BY <1>4, FS_AddElement
    <2>2. Cardinality(h) < MAX_HELD_KEYS
      BY <1>4, <1>1, InjectorAssumption DEF Untracked
    <2> QED
      BY <2>1, <2>2, <1>1, <1>4, InjectorAssumption DEF Press
  <1> QED
    BY <1>2, <1>3, <1>4

\* A batch none of whose calls fails is performed as a whole.
LEMMA WholeBatch ==
    ASSUME NEW batch, NEW F, batch \cap F = {}
    PROVE  Performed(batch, F) = batch
  BY DEF Performed

\* A batch only ever performs calls of its own.
LEMMA PartOfBatch ==
    ASSUME NEW batch, NEW F
    PROVE  Performed(batch, F) \subseteq batch
  BY DEF Performed

\* The mask carried by any event keeps the invariant (sync_modifiers).
LEMMA SyncModifiersStep ==
    ASSUME IInv, NEW mask \in SUBSET Mods, NEW F \in Faults,
           SyncModifiers(mask, F), Admitted, CountKey \/ CountPointer,
           UNCHANGED <<now, mayInject, displays, control>>
    PROVE  IInv'
  <1>1. TypeOK'
    BY CountingType DEF IInv, TypeOK, SyncModifiers
  <1>2. HeldIsDown'
    <2> SUFFICES ASSUME clean' PROVE osDown' = held'
      BY DEF HeldIsDown
    <2>1. clean /\ NotInMask(mask) \cap F = {}
      BY Zenon DEF SyncModifiers
    <2> QED
      BY <2>1 DEF IInv, HeldIsDown, SyncModifiers
  <1>3. BoundedTable'
    BY ShrinkingTable DEF IInv, SyncModifiers, BoundedTable
  <1>4. control' = "Remote"
    BY DEF Admitted
  <1> QED
    BY <1>1, <1>2, <1>3, <1>4 DEF IInv

\* KeyEvent with the key going down.
LEMMA KeyDownStep ==
    ASSUME IInv, NEW u \in Usages, NEW mask \in SUBSET Mods, NEW F \in Faults,
           KeyDown(u, mask, F)
    PROVE  IInv'
  <1> DEFINE h == held \ NotInMask(mask)
  <1>1. TypeOK'
    <2>1. held' \in SUBSET Usages
      BY DEF IInv, TypeOK, KeyDown, Press
    <2>2. osDown' \in SUBSET Usages
      BY DEF IInv, TypeOK, KeyDown
    <2>3. clean' \in BOOLEAN
      BY DEF KeyDown
    <2> QED
      BY <2>1, <2>2, <2>3, CountingType DEF IInv, TypeOK, KeyDown
  <1>2. HeldIsDown'
    <2> SUFFICES ASSUME clean' PROVE osDown' = held'
      BY DEF HeldIsDown
    <2>1. clean /\ (NotInMask(mask) \cup {u}) \cap F = {} /\ ~Untracked(h, u)
      BY Zenon DEF KeyDown
    <2>2. held' = h \cup {u}
      BY <2>1 DEF KeyDown, Press
    <2>3. osDown' = (osDown \ NotInMask(mask)) \cup {u}
      BY <2>1 DEF KeyDown
    <2> QED
      BY <2>1, <2>2, <2>3 DEF IInv, HeldIsDown
  <1>3. BoundedTable'
    <2>1. IsFiniteSet(h) /\ Cardinality(h) <= MAX_HELD_KEYS
      BY ShrinkingTable DEF IInv
    <2>2. held' = Press(h, u)
      BY DEF KeyDown
    <2> QED
      BY <2>1, <2>2, PressBounded DEF BoundedTable
  <1>4. control' = "Remote"
    BY DEF KeyDown, Admitted
  <1> QED
    BY <1>1, <1>2, <1>3, <1>4 DEF IInv

\* KeyEvent with the key going up.
LEMMA KeyUpStep ==
    ASSUME IInv, NEW u \in Usages, NEW mask \in SUBSET Mods, NEW F \in Faults,
           KeyUp(u, mask, F)
    PROVE  IInv'
  <1>1. TypeOK'
    <2>1. osDown' \in SUBSET Usages
      BY DEF IInv, TypeOK, KeyUp
    <2>2. clean' \in BOOLEAN
      BY DEF KeyUp
    <2> QED
      BY <2>1, <2>2, CountingType DEF IInv, TypeOK, KeyUp
  <1>2. HeldIsDown'
    <2> SUFFICES ASSUME clean' PROVE osDown' = held'
      BY DEF HeldIsDown
    <2>1. clean /\ (NotInMask(mask) \cup {u}) \cap F = {}
      BY Zenon DEF KeyUp
    <2>2. osDown' = (osDown \ NotInMask(mask)) \ {u}
      BY <2>1 DEF KeyUp
    <2> QED
      BY <2>1, <2>2 DEF IInv, HeldIsDown, KeyUp
  <1>3. BoundedTable'
    BY ShrinkingTable DEF IInv, KeyUp, BoundedTable
  <1>4. control' = "Remote"
    BY DEF KeyUp, Admitted
  <1> QED
    BY <1>1, <1>2, <1>3, <1>4 DEF IInv

\* KeyStateSync, whose snapshot the wire keeps within the capacity.
LEMMA KeyStateSyncStep ==
    ASSUME IInv, NEW pressed \in SUBSET Usages, NEW F \in Faults,
           Cardinality(pressed) <= MAX_HELD_KEYS, KeyStateSync(pressed, F)
    PROVE  IInv'
  <1> DEFINE stale == held \ pressed
             lost == pressed \ held
  <1>1. TypeOK'
    <2>1. osDown' \in SUBSET Usages
      BY PartOfBatch DEF IInv, TypeOK, KeyStateSync
    <2>2. clean' \in BOOLEAN
      BY DEF KeyStateSync
    <2> QED
      BY <2>1, <2>2, CountingType DEF IInv, TypeOK, KeyStateSync
  <1>2. HeldIsDown'
    <2> SUFFICES ASSUME clean' PROVE osDown' = held'
      BY DEF HeldIsDown
    <2>1. clean /\ (stale \cup lost) \cap F = {}
      BY Zenon DEF KeyStateSync
    <2>2. stale \cap F = {} /\ lost \cap F = {}
      BY <2>1
    <2>3. Performed(stale, F) = stale /\ Performed(lost, F) = lost
      BY <2>2, WholeBatch
    <2>4. osDown' = (osDown \ stale) \cup lost
      BY <2>2, <2>3 DEF KeyStateSync
    <2>5. osDown = held
      BY <2>1 DEF IInv, HeldIsDown
    <2>6. held' = pressed
      BY DEF KeyStateSync
    <2> QED
      BY <2>4, <2>5, <2>6
  <1>3. BoundedTable'
    BY DEF KeyStateSync, BoundedTable
  <1>4. control' = "Remote"
    BY DEF KeyStateSync, Admitted
  <1> QED
    BY <1>1, <1>2, <1>3, <1>4 DEF IInv

\* release_all, alone or in a takeover: nothing is tracked afterwards.
LEMMA ReleaseHeldStep ==
    ASSUME IInv, NEW F \in Faults, ReleaseHeld(F),
           control' \in {"Remote", "Local"},
           UNCHANGED <<now, mayInject, displays, keyWindow, pointerWindow>>
    PROVE  IInv'
  <1>1. TypeOK'
    <2>1. clean' \in BOOLEAN
      BY DEF ReleaseHeld
    <2> QED
      BY <2>1 DEF IInv, TypeOK, ReleaseHeld
  <1>2. HeldIsDown'
    <2> SUFFICES ASSUME clean' PROVE osDown' = held'
      BY DEF HeldIsDown
    <2>1. clean /\ held \cap F = {}
      BY Zenon DEF ReleaseHeld
    <2>2. Performed(held, F) = held
      BY <2>1, WholeBatch
    <2> QED
      BY <2>1, <2>2 DEF IInv, HeldIsDown, ReleaseHeld
  <1>3. BoundedTable'
    <2>1. held' = {} /\ Cardinality({}) = 0
      BY FS_EmptySet DEF ReleaseHeld
    <2> QED
      BY <2>1, InjectorAssumption DEF BoundedTable
  <1> QED
    BY <1>1, <1>2, <1>3 DEF IInv, ReleaseHeld

\* The steps that leave the keys and who has control of them alone.
LEMMA KeysUntouched ==
    ASSUME IInv, TypeOK', UNCHANGED <<held, osDown, clean>>,
           control' = control \/ control' = "Remote"
    PROVE  IInv'
  BY DEF IInv, HeldIsDown, BoundedTable

\* Every step of the injector keeps the invariant.
LEMMA InvariantStep ==
    ASSUME IInv, [Next]_vars
    PROVE  IInv'
  <1>0. TypeOK
    BY DEF IInv
  <1>1. CASE Tick
    <2>1. TypeOK'
      BY <1>0, <1>1, InjectorAssumption DEF Tick, TypeOK, Windows
    <2> QED
      BY <1>1, <2>1, KeysUntouched DEF Tick
  <1>2. CASE Downgrade
    <2>1. TypeOK'
      BY <1>0, <1>2 DEF Downgrade, TypeOK
    <2> QED
      BY <1>2, <2>1, KeysUntouched DEF Downgrade
  <1>3. CASE ReturnControl
    <2>1. TypeOK'
      BY <1>0, <1>3 DEF ReturnControl, TypeOK
    <2> QED
      BY <1>3, <2>1, KeysUntouched DEF ReturnControl
  <1>4. CASE \E ds \in SUBSET Displays : SetDisplays(ds)
    <2>1. TypeOK'
      BY <1>0, <1>4 DEF SetDisplays, TypeOK
    <2> QED
      BY <1>4, <2>1, KeysUntouched DEF SetDisplays
  <1>5. CASE NoKeyEffect
    <2>1. TypeOK'
      BY <1>0, <1>5, CountingType DEF NoKeyEffect, TypeOK
    <2> QED
      BY <1>5, <2>1, KeysUntouched DEF NoKeyEffect
  <1>6. CASE NoPointerEffect
    <2>1. TypeOK'
      BY <1>0, <1>6, CountingType DEF NoPointerEffect, TypeOK
    <2> QED
      BY <1>6, <2>1, KeysUntouched DEF NoPointerEffect
  <1>7. ASSUME NEW mask \in SUBSET Mods, NEW F \in Faults, NEW d,
               \/ MouseMove(d, mask, F) \/ MouseButton(d, mask, F)
               \/ MouseMoveRelative(mask, F) \/ MouseWheel(mask, F)
        PROVE  IInv'
    BY <1>7, SyncModifiersStep DEF MouseMove, MouseButton, MouseMoveRelative, MouseWheel
  <1>8. CASE Apply
    <2>1. CASE RateLimited \/ PointerRateLimited \/ TextInput
      BY <2>1, <1>5, <1>6 DEF RateLimited, PointerRateLimited, TextInput
    <2>2. CASE \E d \in Displays : UnknownDisplay(d)
      BY <2>2, <1>5, <1>6 DEF UnknownDisplay
    <2>3. CASE \E u \in Usages, mask \in SUBSET Mods : RefuseKey(u, mask)
      BY <2>3, <1>5 DEF RefuseKey
    <2>4. CASE \E mask \in SUBSET Mods, F \in Faults :
                  \/ MouseMoveRelative(mask, F) \/ MouseWheel(mask, F)
                  \/ \E d \in Displays : MouseMove(d, mask, F) \/ MouseButton(d, mask, F)
      BY <2>4, <1>7
    <2>5. CASE \E mask \in SUBSET Mods, F \in Faults, u \in Usages :
                  KeyDown(u, mask, F) \/ KeyUp(u, mask, F)
      BY <2>5, KeyDownStep, KeyUpStep
    <2>6. CASE \E pressed \in SUBSET Usages, F \in Faults :
                  Cardinality(pressed) <= MAX_HELD_KEYS /\ KeyStateSync(pressed, F)
      BY <2>6, KeyStateSyncStep
    <2> QED
      BY <1>8, <2>1, <2>2, <2>3, <2>4, <2>5, <2>6 DEF Apply
  <1>9. CASE \E F \in Faults : ReleaseAll(F)
    <2>1. PICK F \in Faults : ReleaseAll(F)
      BY <1>9
    <2>2. control' \in {"Remote", "Local"}
      BY <1>0, <2>1 DEF ReleaseAll, TypeOK
    <2> QED
      BY <2>1, <2>2, ReleaseHeldStep DEF ReleaseAll
  <1>10. CASE \E F \in Faults : TakeControl(F)
    <2>1. PICK F \in Faults : TakeControl(F)
      BY <1>10
    <2>2. control' \in {"Remote", "Local"}
      BY <1>0, <2>1 DEF TakeControl, TypeOK
    <2> QED
      BY <2>1, <2>2, ReleaseHeldStep DEF TakeControl
  <1>11. CASE UNCHANGED vars
    <2>1. TypeOK'
      BY <1>0, <1>11 DEF vars, TypeOK
    <2> QED
      BY <1>11, <2>1, KeysUntouched DEF vars
  <1> QED
    BY <1>1, <1>2, <1>3, <1>4, <1>8, <1>9, <1>10, <1>11 DEF Next

\* A new injector tracks nothing and has pressed nothing.
LEMMA InitInvariant ==
    ASSUME Init
    PROVE  IInv
  <1>1. TypeOK
    BY InjectorAssumption DEF Init, TypeOK, Windows, EmptyWindow
  <1>2. Cardinality({}) = 0
    BY FS_EmptySet
  <1> QED
    BY <1>1, <1>2, InjectorAssumption DEF Init, IInv, HeldIsDown, BoundedTable

\* The invariant holds in every state an injector reaches.
THEOREM Invariant == Spec => []IInv
  BY InitInvariant, InvariantStep, PTL DEF Spec

\* The type invariant of the injector.
THEOREM TypeCorrect == Spec => []TypeOK
  <1>1. IInv => TypeOK
    BY DEF IInv
  <1> QED
    BY <1>1, Invariant, PTL

\* Until a backend call fails or a press meets a full table, what release_all
\* undoes is exactly what the peer has pressed.
THEOREM TrackedKeysAreDown == Spec => []HeldIsDown
  <1>1. IInv => HeldIsDown
    BY DEF IInv
  <1> QED
    BY <1>1, Invariant, PTL

\* A local user who has control shares the keyboard with no key of the peer's,
\* whichever sequence of frames, snapshots and takeovers came before.
THEOREM LocalUserHasKeyboard == Spec => []LocalUserWins
  <1>1. IInv => LocalUserWins
    BY DEF IInv, HeldIsDown, LocalUserWins
  <1> QED
    BY <1>1, Invariant, PTL

\* The key table stays within MAX_HELD_KEYS.
THEOREM TableStaysBounded == Spec => []BoundedTable
  <1>1. IInv => BoundedTable
    BY DEF IInv
  <1> QED
    BY <1>1, Invariant, PTL

-----------------------------------------------------------------------------
\* InOrder enumerates a finite set of usages: each of them once.
LEMMA InOrderOf ==
    ASSUME NEW S \in SUBSET Nat, IsFiniteSet(S)
    PROVE  /\ Cardinality(S) \in Nat
           /\ \A i \in 1..Cardinality(S) : InOrder(S, i) \in S /\ Rank(S, InOrder(S, i)) = i
           /\ \A u \in S : \E i \in 1..Cardinality(S) : InOrder(S, i) = u
<1>1. S \in SUBSET Int
  OBVIOUS
<1>2. /\ Cardinality(S) \in Nat
      /\ \A u \in S : Rank(S, u) \in 1..Cardinality(S)
      /\ \A u, w \in S : Rank(S, u) = Rank(S, w) => u = w
      /\ \A i \in 1..Cardinality(S) : \E u \in S : Rank(S, u) = i
  BY <1>1, RankOf
<1>3. \A i \in 1..Cardinality(S) : InOrder(S, i) \in S /\ Rank(S, InOrder(S, i)) = i
  BY <1>2 DEF InOrder, Rank
<1> QED BY <1>2, <1>3

-----------------------------------------------------------------------------
\* The frames of input-k, and those about a key (0: the button).
Frames == [kind : {"key"}, usage : Usages, down : BOOLEAN, mask : SUBSET Mods]
          \cup [kind : {"button", "wheel"}, usage : {0}, down : BOOLEAN, mask : SUBSET Mods]
AboutIn(chan, u) == {i \in 1..Len(chan) : chan[i].kind # "wheel" /\ chan[i].usage = u}

\* The last frame about a key, if there is one, says that it is down or up.
LastSays(chan, u, down) ==
    AboutIn(chan, u) # {} =>
        \E i \in AboutIn(chan, u) : chan[i].down = down /\ \A j \in AboutIn(chan, u) : j <= i

\* More frames, none of them about u.
LEMMA SendOthers ==
    ASSUME NEW chan \in Seq(Frames), NEW new \in Seq(Frames), NEW u, NEW down,
           AboutIn(new, u) = {}
    PROVE  /\ chan \o new \in Seq(Frames)
           /\ AboutIn(chan \o new, u) = AboutIn(chan, u)
           /\ LastSays(chan, u, down) => LastSays(chan \o new, u, down)
<1> DEFINE both == chan \o new
<1>1. /\ both \in Seq(Frames) /\ Len(both) = Len(chan) + Len(new) /\ Len(chan) \in Nat /\ Len(new) \in Nat
      /\ \A i \in 1..Len(both) : both[i] = IF i <= Len(chan) THEN chan[i] ELSE new[i - Len(chan)]
  BY ConcatProperties, LenProperties
<1> HIDE DEF both
<1>2. \A i \in 1..Len(both) : i <= Len(chan) \/ i - Len(chan) \in 1..Len(new)
  BY <1>1
<1>3. AboutIn(both, u) = AboutIn(chan, u)
  <2>1. \A i \in AboutIn(both, u) : i \in AboutIn(chan, u)
    <3> SUFFICES ASSUME NEW i \in AboutIn(both, u) PROVE i \in AboutIn(chan, u)
      OBVIOUS
    <3>1. i \in 1..Len(both) /\ i \in Nat
      BY <1>1 DEF AboutIn
    <3>2. i <= Len(chan)
      <4> SUFFICES ASSUME ~(i <= Len(chan)) PROVE FALSE
        OBVIOUS
      <4>1. i - Len(chan) \in 1..Len(new) /\ both[i] = new[i - Len(chan)]
        BY <1>1, <1>2, <3>1
      <4>2. i - Len(chan) \in AboutIn(new, u)
        BY <4>1 DEF AboutIn
      <4> QED BY <4>2
    <3> QED BY <1>1, <3>1, <3>2 DEF AboutIn
  <2>2. \A i \in AboutIn(chan, u) : i \in AboutIn(both, u)
    BY <1>1 DEF AboutIn
  <2> QED BY <2>1, <2>2
<1>4. \A i \in AboutIn(chan, u) : both[i] = chan[i]
  BY <1>1 DEF AboutIn
<1>5. LastSays(chan, u, down) => LastSays(both, u, down)
  BY <1>3, <1>4 DEF LastSays
<1> QED BY <1>1, <1>3, <1>5 DEF both

\* More frames, one of them about u.
LEMMA SendAbout ==
    ASSUME NEW chan \in Seq(Frames), NEW new \in Seq(Frames), NEW u, NEW i \in AboutIn(new, u),
           \A j \in AboutIn(new, u) : j = i
    PROVE  /\ chan \o new \in Seq(Frames)
           /\ AboutIn(chan \o new, u) # {}
           /\ LastSays(chan \o new, u, new[i].down)
<1> DEFINE both == chan \o new
           k == Len(chan) + i
<1>1. /\ both \in Seq(Frames) /\ Len(both) = Len(chan) + Len(new) /\ Len(chan) \in Nat /\ Len(new) \in Nat
      /\ \A x \in 1..Len(both) : both[x] = IF x <= Len(chan) THEN chan[x] ELSE new[x - Len(chan)]
  BY ConcatProperties, LenProperties
<1>2. i \in 1..Len(new) /\ k \in 1..Len(both) /\ ~(k <= Len(chan)) /\ k - Len(chan) = i /\ k \in Nat
  BY <1>1 DEF AboutIn
<1>3. both[k] = new[i]
  BY <1>1, <1>2
<1> HIDE DEF both, k
<1>4. k \in AboutIn(both, u)
  BY <1>2, <1>3 DEF AboutIn
<1>5. ASSUME NEW j \in AboutIn(both, u) PROVE j <= k
  <2>1. j \in 1..Len(both) /\ j \in Nat
    BY <1>1 DEF AboutIn
  <2>2. CASE j <= Len(chan)
    BY <1>1, <1>2, <2>1, <2>2
  <2>3. CASE ~(j <= Len(chan))
    <3>1. j - Len(chan) \in 1..Len(new) /\ both[j] = new[j - Len(chan)]
      BY <1>1, <2>1, <2>3
    <3>2. j - Len(chan) \in AboutIn(new, u)
      BY <3>1 DEF AboutIn
    <3> QED BY <1>1, <1>2, <2>1, <3>2
  <2> QED BY <2>2, <2>3
<1>6. LastSays(both, u, new[i].down)
  BY <1>3, <1>4, <1>5 DEF LastSays
<1> QED BY <1>1, <1>4, <1>6 DEF both

\* The host takes the first frame.
LEMMA TakeFirst ==
    ASSUME NEW chan \in Seq(Frames), chan # <<>>, NEW u, NEW down, LastSays(chan, u, down)
    PROVE  /\ Tail(chan) \in Seq(Frames) /\ Head(chan) \in Frames
           /\ LastSays(Tail(chan), u, down)
           /\ ~(Head(chan).kind # "wheel" /\ Head(chan).usage = u) /\ AboutIn(Tail(chan), u) = {} =>
                    AboutIn(chan, u) = {}
           /\ Head(chan).kind # "wheel" /\ Head(chan).usage = u /\ AboutIn(Tail(chan), u) = {} =>
                    Head(chan).down = down
<1>1. /\ Tail(chan) \in Seq(Frames) /\ Head(chan) = chan[1] /\ Head(chan) \in Frames
      /\ Len(chan) \in Nat /\ Len(chan) > 0 /\ Len(Tail(chan)) = Len(chan) - 1
      /\ \A k \in 1..(Len(chan) - 1) : Tail(chan)[k] = chan[k + 1]
  <2>1. /\ Tail(chan) \in Seq(Frames) /\ Head(chan) = chan[1] /\ chan[1] \in Frames
        /\ Len(Tail(chan)) = Len(chan) - 1
        /\ \A k \in DOMAIN Tail(chan) : Tail(chan)[k] = chan[k + 1]
    BY TailOf
  <2>2. Len(chan) \in Nat /\ Len(chan) > 0
    BY EmptySeq, LenProperties
  <2>3. DOMAIN Tail(chan) = 1..(Len(chan) - 1)
    BY <2>1, LenProperties
  <2> QED BY <2>1, <2>2, <2>3
<1> DEFINE rest == Tail(chan)
<1> HIDE DEF rest
<1>2. \A k \in AboutIn(rest, u) : k \in Nat /\ k + 1 \in AboutIn(chan, u) /\ rest[k] = chan[k + 1]
  BY <1>1 DEF AboutIn, rest
<1>3. \A k \in AboutIn(chan, u) : k \in Nat /\ k >= 1 /\ (k # 1 => k - 1 \in AboutIn(rest, u) /\ rest[k - 1] = chan[k])
  <2> SUFFICES ASSUME NEW k \in AboutIn(chan, u)
               PROVE  k \in Nat /\ k >= 1 /\ (k # 1 => k - 1 \in AboutIn(rest, u) /\ rest[k - 1] = chan[k])
    OBVIOUS
  <2>1. k \in 1..Len(chan) /\ k \in Nat /\ k >= 1
    BY <1>1 DEF AboutIn
  <2>2. ASSUME k # 1 PROVE k - 1 \in 1..(Len(chan) - 1) /\ (k - 1) + 1 = k
    BY <1>1, <2>1, <2>2
  <2> QED BY <1>1, <2>1, <2>2 DEF AboutIn, rest
<1>4. LastSays(rest, u, down)
  <2> SUFFICES ASSUME AboutIn(rest, u) # {}
               PROVE  \E i \in AboutIn(rest, u) : rest[i].down = down /\ \A j \in AboutIn(rest, u) : j <= i
    BY DEF LastSays
  <2>1. PICK k \in AboutIn(rest, u) : TRUE
    OBVIOUS
  <2>2. k + 1 \in AboutIn(chan, u) /\ k \in Nat /\ k >= 1
    BY <1>1, <1>2 DEF AboutIn, rest
  <2>3. PICK i \in AboutIn(chan, u) : chan[i].down = down /\ \A j \in AboutIn(chan, u) : j <= i
    BY <2>2 DEF LastSays
  <2>4. i \in Nat /\ i # 1 /\ i - 1 \in AboutIn(rest, u) /\ rest[i - 1] = chan[i]
    BY <1>3, <2>2, <2>3
  <2>5. \A j \in AboutIn(rest, u) : j <= i - 1
    BY <1>2, <2>3, <2>4
  <2> QED BY <2>3, <2>4, <2>5
<1>5. chan[1].kind # "wheel" /\ chan[1].usage = u <=> 1 \in AboutIn(chan, u)
  BY <1>1 DEF AboutIn
<1>6. ~(chan[1].kind # "wheel" /\ chan[1].usage = u) /\ AboutIn(rest, u) = {} => AboutIn(chan, u) = {}
  BY <1>3, <1>5
<1>7. chan[1].kind # "wheel" /\ chan[1].usage = u /\ AboutIn(rest, u) = {} => chan[1].down = down
  BY <1>3, <1>5 DEF LastSays
<1> QED BY <1>1, <1>4, <1>6, <1>7 DEF rest

\* The frames of one iteration: one about each key that has changed.
Reports(sent, from, to) ==
    /\ sent \in Seq(Frames)
    /\ \A u : u \notin (from \ to) \cup (to \ from) => AboutIn(sent, u) = {}
    /\ \A u \in (from \ to) \cup (to \ from) :
          \E i \in AboutIn(sent, u) : sent[i].down = (u \in to) /\ \A j \in AboutIn(sent, u) : j = i

\* KeyFrames sends such frames.
LEMMA KeyFramesOf ==
    ASSUME NEW from \in SUBSET Usages, NEW to \in SUBSET Usages, NEW mask \in SUBSET Mods
    PROVE  Reports(KeyFrames(from, to, mask), from, to)
<1> DEFINE S == (from \ to) \cup (to \ from)
           n == Cardinality(S)
           kf == KeyFrames(from, to, mask)
<1>1. S \in SUBSET Usages /\ S \in SUBSET Nat /\ IsFiniteSet(S)
  <2>1. S \in SUBSET Usages
    OBVIOUS
  <2> HIDE DEF S
  <2> QED BY <2>1, InjectorAssumption, FS_Subset
<1>2. kf = [i \in 1..n |-> Frame("key", InOrder(S, i), InOrder(S, i) \in to, mask)]
  BY DEF KeyFrames
<1> HIDE DEF S, kf
<1>3. /\ n \in Nat
      /\ \A i \in 1..n : InOrder(S, i) \in S /\ Rank(S, InOrder(S, i)) = i
      /\ \A u \in S : \E i \in 1..n : InOrder(S, i) = u
  BY <1>1, InOrderOf
<1> HIDE DEF n
<1>4. \A i \in 1..n : /\ kf[i] \in Frames /\ kf[i].kind = "key" /\ kf[i].usage = InOrder(S, i)
                      /\ kf[i].down = (InOrder(S, i) \in to)
  <2> SUFFICES ASSUME NEW i \in 1..n
               PROVE  /\ kf[i] \in Frames /\ kf[i].kind = "key" /\ kf[i].usage = InOrder(S, i)
                      /\ kf[i].down = (InOrder(S, i) \in to)
    OBVIOUS
  <2> DEFINE x == InOrder(S, i)
             d == x \in to
  <2>1. kf[i] = Frame("key", x, d, mask) /\ x \in Usages /\ d \in BOOLEAN
    <3>1. kf[i] = Frame("key", x, d, mask)
      BY <1>2
    <3>2. x \in Usages
      BY <1>1, <1>3
    <3> QED BY <3>1, <3>2
  <2> HIDE DEF d
  <2>2. kf[i] \in Frames /\ kf[i].kind = "key" /\ kf[i].usage = x /\ kf[i].down = d
    BY <2>1 DEF Frame, Frames
  <2> QED BY <2>2 DEF d
<1>5. kf \in Seq(Frames) /\ Len(kf) = n
  <2>1. kf \in [1..n -> Frames]
    BY <1>2, <1>4
  <2>2. kf \in Seq(Frames)
    BY <1>3, <2>1, SeqDef
  <2> QED BY <1>3, <2>1, <2>2, LenProperties
<1>6. \A u : AboutIn(kf, u) = {i \in 1..n : InOrder(S, i) = u}
  BY <1>4, <1>5 DEF AboutIn
<1>7. \A u : u \notin S => AboutIn(kf, u) = {}
  BY <1>3, <1>6
<1>8. ASSUME NEW u \in S
      PROVE  \E i \in AboutIn(kf, u) : kf[i].down = (u \in to) /\ \A j \in AboutIn(kf, u) : j = i
  BY <1>3, <1>4, <1>6
<1>9. Reports(kf, from, to)
  BY <1>5, <1>7, <1>8 DEF S, Reports
<1> QED BY <1>9 DEF kf

\* What the channel says of a key once they are sent.
LEMMA SendKeys ==
    ASSUME NEW chan \in Seq(Frames), NEW sent, NEW from, NEW to, Reports(sent, from, to),
           NEW u, LastSays(chan, u, u \in from)
    PROVE  /\ LastSays(chan \o sent, u, u \in to)
           /\ AboutIn(chan \o sent, u) = {} => AboutIn(chan, u) = {} /\ (u \in to <=> u \in from)
<1>1. sent \in Seq(Frames)
  BY DEF Reports
<1>2. CASE u \in (from \ to) \cup (to \ from)
  <2>1. PICK i \in AboutIn(sent, u) : sent[i].down = (u \in to) /\ \A j \in AboutIn(sent, u) : j = i
    BY <1>2 DEF Reports
  <2>2. AboutIn(chan \o sent, u) # {} /\ LastSays(chan \o sent, u, sent[i].down)
    BY <1>1, <2>1, SendAbout
  <2> QED BY <2>1, <2>2
<1>3. CASE u \notin (from \ to) \cup (to \ from)
  <2>1. AboutIn(chan \o sent, u) = AboutIn(chan, u) /\ LastSays(chan \o sent, u, u \in from)
    BY <1>1, <1>3, SendOthers DEF Reports
  <2>2. (u \in to) = (u \in from)
    BY <1>3
  <2> QED BY <2>1, <2>2
<1> QED BY <1>2, <1>3

-----------------------------------------------------------------------------
\* A key nothing is in flight about is down where the viewer has it down, unless
\* its last frame was refused; a modifier may be up.
KeySettled(u) ==
    streaming /\ u \notin refused /\ AboutIn(keyChan, u) = {} =>
        /\ u \in osDown => u \in keyDown
        /\ u \in (keyDown \cap Mapped) \ Mods => u \in osDown
ButtonSettled == streaming /\ 0 \notin refused /\ AboutIn(keyChan, 0) = {} => osButton = buttonDown

\* The last frame in flight about a key says how the viewer has it.
LastFramesAreTrue ==
    /\ \A u \in Usages : LastSays(keyChan, u, u \in keyDown)
    /\ LastSays(keyChan, 0, buttonDown)

\* The inductive invariant, with the one of the injector in it.
PathInv ==
    /\ IInv /\ PathTypeOK /\ keyChan \in Seq(Frames)
    /\ osDown \subseteq Mapped
    /\ quit => keyDown = {}
    /\ LastFramesAreTrue
    /\ \A u \in Usages : KeySettled(u)
    /\ ButtonSettled

\* The frames are of the type PathTypeOK gives the channel.
LEMMA ChannelType ==
    ASSUME NEW chan \in Seq(Frames)
    PROVE  chan \in Seq([kind : {"key", "button", "wheel"}, usage : Usages \cup {0},
                         down : BOOLEAN, mask : SUBSET Mods])
<1>1. Frames \subseteq [kind : {"key", "button", "wheel"}, usage : Usages \cup {0},
                        down : BOOLEAN, mask : SUBSET Mods]
  BY DEF Frames
<1> HIDE DEF Frames
<1> QED BY <1>1, SeqMonotonic

\* It says what DifferenceIsInFlight says.
LEMMA PathInvImplies == PathInv => DifferenceIsInFlight
<1> SUFFICES ASSUME PathInv PROVE DifferenceIsInFlight
  OBVIOUS
<1>1. \A u : About(u) = AboutIn(keyChan, u)
  BY DEF About, AboutIn
<1>2. KeysInFlight
  <2> SUFFICES ASSUME streaming, NEW u \in Usages \ refused
               PROVE  /\ u \in osDown /\ u \notin keyDown => Pending(u, FALSE)
                      /\ u \in (keyDown \cap Mapped) \ Mods /\ u \notin osDown => Pending(u, TRUE)
    BY DEF KeysInFlight
  <2>1. KeySettled(u) /\ LastSays(keyChan, u, u \in keyDown)
    BY DEF PathInv, LastFramesAreTrue
  <2>2. CASE AboutIn(keyChan, u) = {}
    BY <2>1, <2>2 DEF KeySettled
  <2>3. CASE AboutIn(keyChan, u) # {}
    <3>1. PICK i \in AboutIn(keyChan, u) :
              keyChan[i].down = (u \in keyDown) /\ \A j \in AboutIn(keyChan, u) : j <= i
      BY <2>1, <2>3 DEF LastSays
    <3>2. u \in keyDown => keyChan[i].down = TRUE
      BY <3>1
    <3>3. ASSUME u \notin keyDown PROVE keyChan[i].down = FALSE
      <4> DEFINE d == u \in keyDown
      <4>1. d = FALSE
        BY <3>3
      <4>2. keyChan[i].down = d
        BY <3>1
      <4> HIDE DEF d
      <4> QED BY <4>1, <4>2
    <3> QED BY <1>1, <3>1, <3>2, <3>3 DEF Pending
  <2> QED BY <2>2, <2>3
<1>3. ButtonInFlight
  <2> SUFFICES ASSUME streaming, 0 \notin refused, osButton # buttonDown PROVE Pending(0, buttonDown)
    BY DEF ButtonInFlight
  <2>1. AboutIn(keyChan, 0) # {}
    BY DEF PathInv, ButtonSettled
  <2> QED BY <1>1, <2>1 DEF PathInv, LastFramesAreTrue, LastSays, Pending
<1>4. CleanExit
  <2> SUFFICES ASSUME quit, streaming, keyChan = <<>>, NEW u \in osDown PROVE u \in refused
    BY DEF CleanExit
  <2>1. u \in Usages /\ u \notin keyDown /\ KeySettled(u)
    BY DEF PathInv, PathTypeOK, TypeOK
  <2>2. AboutIn(keyChan, u) = {}
    BY DEF AboutIn
  <2> QED BY <2>1, <2>2 DEF KeySettled
<1> QED BY <1>2, <1>3, <1>4 DEF DifferenceIsInFlight, PathInv

\* What an iteration sends, whichever keys have changed and whatever the mouse did.
LEMMA WindowLoopStep ==
    ASSUME PathInv, NEW keys \in SUBSET TrackedKeys, NEW mouse, WindowLoop(keys, mouse)
    PROVE  PathInv'
<1> DEFINE mask == keys \cap Mods
           click == IF "click" \in mouse THEN <<Frame("button", 0, buttonDown', mask)>> ELSE <<>>
           wheel == IF "scroll" \in mouse THEN <<Frame("wheel", 0, FALSE, mask)>> ELSE <<>>
           kf == KeyFrames(keyDown, keys, mask)
           one == keyChan \o click
           two == one \o wheel
<1>1. /\ keyDown' = keys /\ keyChan' = two \o kf /\ frames' = frames + 1 /\ ~quit /\ quit' = quit
      /\ buttonDown' = IF "click" \in mouse THEN ~buttonDown ELSE buttonDown
      /\ UNCHANGED <<hostVars, vars>> /\ frames < MaxFrames
      /\ pointerChan' \subseteq pointerChan \cup {<<frames + 1, mask>>}
  BY DEF WindowLoop
<1>2. /\ keyChan \in Seq(Frames) /\ keyDown \in SUBSET Usages /\ keys \in SUBSET Usages /\ mask \in SUBSET Mods
      /\ buttonDown \in BOOLEAN /\ 0 \notin Usages
  BY PathAssumption DEF PathInv, PathTypeOK
<1>3. buttonDown' \in BOOLEAN
  BY <1>1, <1>2
<1>4. /\ click \in Seq(Frames)
      /\ \A u : u # 0 => AboutIn(click, u) = {}
      /\ \/ AboutIn(click, 0) = {} /\ buttonDown' = buttonDown
         \/ 1 \in AboutIn(click, 0) /\ click[1].down = buttonDown' /\ \A j \in AboutIn(click, 0) : j = 1
  <2> DEFINE b == Frame("button", 0, buttonDown', mask)
  <2>1. b \in Frames /\ b.kind = "button" /\ b.usage = 0 /\ b.down = buttonDown'
    BY <1>2, <1>3 DEF Frame, Frames
  <2>2. /\ <<b>> \in Seq(Frames) /\ Len(<<b>>) = 1 /\ <<b>>[1] = b
        /\ <<>> \in Seq(Frames) /\ Len(<<>>) = 0
    BY <2>1
  <2>3. click = IF "click" \in mouse THEN <<b>> ELSE <<>>
    OBVIOUS
  <2> HIDE DEF b, click
  <2>4. CASE "click" \in mouse
    BY <2>1, <2>2, <2>3, <2>4 DEF AboutIn
  <2>5. CASE "click" \notin mouse
    BY <1>1, <2>2, <2>3, <2>5 DEF AboutIn
  <2> QED BY <2>4, <2>5
<1>5. wheel \in Seq(Frames) /\ \A u : AboutIn(wheel, u) = {}
  <2> DEFINE b == Frame("wheel", 0, FALSE, mask)
  <2>1. b \in Frames /\ b.kind = "wheel"
    BY <1>2 DEF Frame, Frames
  <2>3. wheel = IF "scroll" \in mouse THEN <<b>> ELSE <<>>
    OBVIOUS
  <2> HIDE DEF b, wheel
  <2>2. /\ <<b>> \in Seq(Frames) /\ Len(<<b>>) = 1 /\ <<b>>[1] = b
        /\ <<>> \in Seq(Frames) /\ Len(<<>>) = 0
    BY <2>1
  <2>4. CASE "scroll" \in mouse
    BY <2>1, <2>2, <2>3, <2>4 DEF AboutIn
  <2>5. CASE "scroll" \notin mouse
    BY <2>2, <2>3, <2>5 DEF AboutIn
  <2> QED BY <2>4, <2>5
<1> HIDE DEF mask
<1>6. Reports(kf, keyDown, keys) /\ kf \in Seq(Frames)
  <2>1. Reports(kf, keyDown, keys)
    BY <1>2, KeyFramesOf
  <2> QED BY <2>1 DEF Reports
<1> HIDE DEF click, wheel, kf
<1>7. one \in Seq(Frames) /\ two \in Seq(Frames) /\ keyChan' \in Seq(Frames)
  BY <1>1, <1>2, <1>4, <1>5, <1>6, ConcatProperties
<1>8. ASSUME NEW u \in Usages
      PROVE  /\ LastSays(two, u, u \in keyDown) /\ AboutIn(two, u) = AboutIn(keyChan, u)
  <2>1. u # 0 /\ LastSays(keyChan, u, u \in keyDown)
    BY <1>2 DEF PathInv, LastFramesAreTrue
  <2>2. LastSays(one, u, u \in keyDown) /\ AboutIn(one, u) = AboutIn(keyChan, u)
    BY <1>2, <1>4, <2>1, SendOthers
  <2> HIDE DEF one
  <2> QED BY <1>5, <1>7, <2>2, SendOthers
<1>9. LastSays(two, 0, buttonDown') /\ (AboutIn(two, 0) = {} => AboutIn(keyChan, 0) = {} /\ buttonDown' = buttonDown)
  <2>1. LastSays(keyChan, 0, buttonDown)
    BY DEF PathInv, LastFramesAreTrue
  <2>2. LastSays(one, 0, buttonDown') /\ (AboutIn(one, 0) = {} => AboutIn(keyChan, 0) = {} /\ buttonDown' = buttonDown)
    <3>1. CASE AboutIn(click, 0) = {} /\ buttonDown' = buttonDown
      BY <1>2, <1>4, <2>1, <3>1, SendOthers
    <3>2. CASE 1 \in AboutIn(click, 0) /\ click[1].down = buttonDown' /\ \A j \in AboutIn(click, 0) : j = 1
      BY <1>2, <1>4, <3>2, SendAbout
    <3> QED BY <1>4, <3>1, <3>2
  <2> HIDE DEF one
  <2>3. AboutIn(two, 0) = AboutIn(one, 0) /\ LastSays(two, 0, buttonDown')
    BY <1>5, <1>7, <2>2, SendOthers
  <2> QED BY <2>2, <2>3
<1> HIDE DEF two
<1>10. ASSUME NEW u \in Usages
       PROVE  /\ LastSays(keyChan', u, u \in keys)
              /\ AboutIn(keyChan', u) = {} => AboutIn(keyChan, u) = {} /\ (u \in keys <=> u \in keyDown)
  BY <1>1, <1>6, <1>7, <1>8, SendKeys
<1>11. LastSays(keyChan', 0, buttonDown') /\ (AboutIn(keyChan', 0) = {} => AboutIn(keyChan, 0) = {} /\ buttonDown' = buttonDown)
  <2>1. AboutIn(kf, 0) = {}
    BY <1>2, <1>6 DEF Reports
  <2> QED BY <1>1, <1>6, <1>7, <1>9, <2>1, SendOthers
<1>12. LastFramesAreTrue'
  BY <1>1, <1>10, <1>11 DEF LastFramesAreTrue
<1>13. (\A u \in Usages : KeySettled(u))' /\ ButtonSettled'
  <2>1. ASSUME NEW u \in Usages PROVE KeySettled(u)'
    <3>1. KeySettled(u)
      BY DEF PathInv
    <3> QED BY <1>1, <1>10, <3>1 DEF KeySettled, hostVars, vars
  <2>2. ButtonSettled'
    BY <1>1, <1>11 DEF PathInv, ButtonSettled, hostVars
  <2> QED BY <2>1, <2>2
<1>14. IInv'
  BY <1>1 DEF PathInv, IInv, TypeOK, HeldIsDown, BoundedTable, vars
<1>15. PathTypeOK'
  <2>1. frames' \in 0..MaxFrames /\ frames + 1 \in 1..MaxFrames
    BY <1>1, PathAssumption DEF PathInv, PathTypeOK
  <2>2. pointerChan' \subseteq (1..MaxFrames) \X SUBSET Mods
    BY <1>1, <1>2, <2>1 DEF PathInv, PathTypeOK
  <2>3. TypeOK' /\ keyDown' \in SUBSET Usages /\ quit' \in BOOLEAN
    BY <1>1, <1>2, <1>14 DEF IInv, PathInv, PathTypeOK
  <2> QED BY <1>1, <1>3, <1>7, <2>1, <2>2, <2>3, ChannelType DEF PathInv, PathTypeOK, hostVars
<1> QED BY <1>1, <1>7, <1>12, <1>13, <1>14, <1>15 DEF PathInv, vars

\* The window closes: every key goes up.
LEMMA CloseWindowStep ==
    ASSUME PathInv, CloseWindow
    PROVE  PathInv'
<1> DEFINE kf == KeyFrames(keyDown, {}, {})
<1>1. /\ quit' = TRUE /\ keyDown' = {} /\ keyChan' = keyChan \o kf
      /\ UNCHANGED <<buttonDown, frames, pointerChan, hostVars, vars>>
  BY DEF CloseWindow
<1>2. keyChan \in Seq(Frames) /\ keyDown \in SUBSET Usages /\ 0 \notin Usages
  BY PathAssumption DEF PathInv, PathTypeOK
<1>3. Reports(kf, keyDown, {})
  BY <1>2, KeyFramesOf
<1> HIDE DEF kf
<1>4. kf \in Seq(Frames) /\ AboutIn(kf, 0) = {}
  BY <1>2, <1>3 DEF Reports
<1>5. keyChan' \in Seq(Frames)
  BY <1>1, <1>2, <1>4, ConcatProperties
<1>6. ASSUME NEW u \in Usages
      PROVE  /\ LastSays(keyChan', u, u \in {})
             /\ AboutIn(keyChan', u) = {} => AboutIn(keyChan, u) = {} /\ (u \in {} <=> u \in keyDown)
  <2>1. LastSays(keyChan, u, u \in keyDown)
    BY DEF PathInv, LastFramesAreTrue
  <2> QED BY <1>1, <1>2, <1>3, <2>1, SendKeys
<1>7. LastSays(keyChan', 0, buttonDown) /\ AboutIn(keyChan', 0) = AboutIn(keyChan, 0)
  <2>1. LastSays(keyChan, 0, buttonDown)
    BY DEF PathInv, LastFramesAreTrue
  <2> QED BY <1>1, <1>2, <1>4, <2>1, SendOthers
<1>8. LastFramesAreTrue'
  BY <1>1, <1>6, <1>7 DEF LastFramesAreTrue
<1>9. ASSUME NEW u \in Usages PROVE KeySettled(u)'
  <2>1. KeySettled(u)
    BY DEF PathInv
  <2> QED BY <1>1, <1>6, <2>1 DEF KeySettled, hostVars, vars
<1>10. ButtonSettled'
  BY <1>1, <1>7 DEF PathInv, ButtonSettled, hostVars
<1>11. IInv'
  BY <1>1 DEF PathInv, IInv, TypeOK, HeldIsDown, BoundedTable, vars
<1>12. PathTypeOK'
  <2>1. TypeOK' /\ keyDown' \in SUBSET Usages /\ quit' \in BOOLEAN
    BY <1>1, <1>11 DEF IInv
  <2> QED BY <1>1, <1>5, <2>1, ChannelType DEF PathInv, PathTypeOK, hostVars
<1> QED BY <1>1, <1>5, <1>8, <1>9, <1>10, <1>11, <1>12 DEF PathInv, vars

\* The fault of this module is one of the injector's, its display a display.
LEMMA NoMappingFault == F0 \in Faults /\ 0 \in Displays
<1>1. F0 = (Usages \ Mapped) \cup {} /\ {} \in SUBSET MayFail
  BY DEF F0
<1> QED BY <1>1, PathAssumption DEF Faults

\* A step that leaves the viewer and input-k alone, and of the keys that are
\* down lets go of modifiers at most.
LEMMA QuietStep ==
    ASSUME PathInv, IInv', PathTypeOK',
           UNCHANGED <<keyDown, buttonDown, quit, keyChan, osButton, refused>>,
           streaming' => streaming,
           osDown' \subseteq osDown, osDown \ osDown' \subseteq Mods
    PROVE  PathInv'
<1>1. LastFramesAreTrue'
  BY DEF PathInv, LastFramesAreTrue
<1>2. ASSUME NEW u \in Usages PROVE KeySettled(u)'
  <2>1. KeySettled(u)
    BY DEF PathInv
  <2> QED BY <2>1 DEF KeySettled
<1>3. ButtonSettled'
  BY DEF PathInv, ButtonSettled
<1> QED BY <1>1, <1>2, <1>3 DEF PathInv

\* What a mask lets go of: modifiers, and none of those fails.
LEMMA MaskReleasesModifiers ==
    ASSUME NEW mask \in SUBSET Mods
    PROVE  NotInMask(mask) \subseteq Mods /\ NotInMask(mask) \cap F0 = {}
  BY InjectorAssumption DEF NotInMask, F0

\* A move reaches the host.
LEMMA DeliverMoveStep ==
    ASSUME PathInv, NEW m \in pointerChan, DeliverMove(m)
    PROVE  PathInv'
<1>1. m[1] \in 1..MaxFrames /\ m[2] \in SUBSET Mods
  BY DEF PathInv, PathTypeOK
<1>2. MouseMove(0, m[2], F0) \/ PointerRateLimited
  BY DEF DeliverMove
<1>3. IInv'
  <2>1. Next
    BY <1>1, <1>2, NoMappingFault DEF Next, Apply
  <2> QED BY <2>1, InvariantStep DEF PathInv
<1>4. osDown' \subseteq osDown /\ osDown \ osDown' \subseteq Mods
  BY <1>1, <1>2, MaskReleasesModifiers
     DEF MouseMove, SyncModifiers, PointerRateLimited, NoPointerEffect
<1>5. PathTypeOK'
  <2>1. lastMove' \in 0..MaxFrames
    BY <1>1, PathAssumption DEF DeliverMove, PathInv, PathTypeOK
  <2> QED BY <1>3, <2>1 DEF DeliverMove, PathInv, PathTypeOK, IInv, viewerVars
<1> QED BY <1>3, <1>4, <1>5, QuietStep DEF DeliverMove, viewerVars

\* The host takes a frame of input-k: what it did with it is all that matters.
LEMMA FrameTaken ==
    ASSUME PathInv, streaming, keyChan # <<>>, keyChan' = Tail(keyChan),
           IInv', UNCHANGED <<viewerVars, pointerChan, streaming, lastMove>>,
           osDown' \subseteq Mapped, osButton' \in BOOLEAN, refused' \in SUBSET (Usages \cup {0}),
           \A u \in Usages \cup {0} :
              ~(Head(keyChan).kind # "wheel" /\ Head(keyChan).usage = u) => (u \in refused' <=> u \in refused),
           \A u \in Usages :
              ~(Head(keyChan).kind # "wheel" /\ Head(keyChan).usage = u) =>
                 /\ u \in osDown' => u \in osDown
                 /\ u \in osDown \ Mods => u \in osDown',
           \A u \in Usages :
              Head(keyChan).kind # "wheel" /\ Head(keyChan).usage = u /\ u \notin refused' =>
                 /\ u \in osDown' => Head(keyChan).down = TRUE
                 /\ u \in Mapped \ Mods /\ Head(keyChan).down = TRUE => u \in osDown',
           ~(Head(keyChan).kind # "wheel" /\ Head(keyChan).usage = 0) => osButton' = osButton,
           Head(keyChan).kind # "wheel" /\ Head(keyChan).usage = 0 /\ 0 \notin refused' =>
              osButton' = Head(keyChan).down
    PROVE  PathInv'
<1> DEFINE f == Head(keyChan)
           about(u) == f.kind # "wheel" /\ f.usage = u
<1>1. keyChan \in Seq(Frames) /\ UNCHANGED <<keyDown, buttonDown, quit, frames>>
  BY DEF PathInv, viewerVars
<1>2. \A u \in Usages : LastSays(keyChan, u, u \in keyDown)
  BY DEF PathInv, LastFramesAreTrue
<1>3. LastSays(keyChan, 0, buttonDown)
  BY DEF PathInv, LastFramesAreTrue
<1>4. LastFramesAreTrue' /\ keyChan' \in Seq(Frames)
  BY <1>1, <1>2, <1>3, TakeFirst DEF LastFramesAreTrue
<1>5. ASSUME NEW u \in Usages PROVE KeySettled(u)'
  <2> SUFFICES ASSUME u \notin refused', AboutIn(Tail(keyChan), u) = {}
               PROVE  /\ u \in osDown' => u \in keyDown
                      /\ u \in (keyDown \cap Mapped) \ Mods => u \in osDown'
    BY <1>1 DEF KeySettled
  <2>1. KeySettled(u)
    BY DEF PathInv
  <2>2. CASE about(u)
    <3> DEFINE d == u \in keyDown
    <3>1. f.down = d
      BY <1>1, <1>2, <2>2, TakeFirst
    <3>2. /\ u \in osDown' => f.down = TRUE
          /\ u \in Mapped \ Mods /\ f.down = TRUE => u \in osDown'
      BY <2>2
    <3>3. f.down = TRUE => u \in keyDown
      BY <3>1
    <3>4. u \in keyDown => f.down = TRUE
      BY <3>1
    <3> QED BY <3>2, <3>3, <3>4
  <2>3. CASE ~about(u)
    <3>1. AboutIn(keyChan, u) = {}
      BY <1>1, <1>2, <2>3, TakeFirst
    <3>2. u \notin refused
      BY <2>3
    <3>3. /\ u \in osDown' => u \in osDown
          /\ u \in osDown \ Mods => u \in osDown'
      BY <2>3
    <3> QED BY <2>1, <3>1, <3>2, <3>3 DEF KeySettled
  <2> QED BY <2>2, <2>3
<1>6. ButtonSettled'
  <2> SUFFICES ASSUME 0 \notin refused', AboutIn(Tail(keyChan), 0) = {}
               PROVE  osButton' = buttonDown
    BY <1>1 DEF ButtonSettled
  <2>1. CASE about(0)
    BY <1>1, <1>3, <2>1, TakeFirst
  <2>2. CASE ~about(0)
    <3>1. AboutIn(keyChan, 0) = {}
      BY <1>1, <1>3, <2>2, TakeFirst
    <3> QED BY <2>2, <3>1 DEF PathInv, ButtonSettled
  <2> QED BY <2>1, <2>2
<1>7. PathTypeOK'
  <2>1. TypeOK'
    BY DEF IInv
  <2> QED BY <1>1, <1>4, <2>1, ChannelType DEF PathInv, PathTypeOK
<1> QED BY <1>1, <1>4, <1>5, <1>6, <1>7 DEF PathInv

\* A frame of input-k reaches the host.
LEMMA DeliverKeyStep ==
    ASSUME PathInv, DeliverKey
    PROVE  PathInv'
<1> DEFINE f == Head(keyChan)
<1>1. /\ streaming /\ keyChan # <<>> /\ keyChan' = Tail(keyChan)
      /\ UNCHANGED <<viewerVars, pointerChan, streaming, lastMove>>
  BY DEF DeliverKey
<1>2. f \in Frames
  <2>1. keyChan \in Seq(Frames)
    BY DEF PathInv
  <2> QED BY <1>1, <2>1, TailOf
<1>3. /\ f.kind \in {"key", "button", "wheel"} /\ f.down \in BOOLEAN /\ f.mask \in SUBSET Mods
      /\ f.kind = "key" => f.usage \in Usages
      /\ f.kind # "key" => f.usage = 0
      /\ 0 \notin Usages
  BY <1>2, PathAssumption DEF Frames
<1>4. /\ IInv /\ osDown \subseteq Mapped /\ osDown \subseteq Usages /\ osButton \in BOOLEAN
      /\ refused \in SUBSET (Usages \cup {0})
  BY DEF PathInv, PathTypeOK, IInv, TypeOK
<1>5. NotInMask(f.mask) \subseteq Mods /\ NotInMask(f.mask) \cap F0 = {}
  BY <1>3, MaskReleasesModifiers
<1> HIDE DEF f
<1>6. CASE f.kind = "key" /\ f.down /\ KeyDown(f.usage, f.mask, F0)
           /\ refused' = refused \ {f.usage} /\ UNCHANGED osButton
  <2>1. IInv'
    BY <1>3, <1>4, <1>6, NoMappingFault, KeyDownStep
  <2>2. /\ f.usage \in F0 => osDown' = osDown \ NotInMask(f.mask)
        /\ f.usage \notin F0 => osDown' = (osDown \ NotInMask(f.mask)) \cup {f.usage}
    BY <1>5, <1>6 DEF KeyDown
  <2>3. osDown' \subseteq Mapped
    BY <1>3, <1>4, <1>6, <2>2 DEF F0
  <2>4. refused' \in SUBSET (Usages \cup {0}) /\ osButton' \in BOOLEAN
    BY <1>4, <1>6
  <2> QED BY <1>1, <1>3, <1>4, <1>5, <1>6, <2>1, <2>2, <2>3, <2>4, FrameTaken DEF f, F0
<1>7. CASE f.kind = "key" /\ ~f.down /\ KeyUp(f.usage, f.mask, F0)
           /\ refused' = refused \ {f.usage} /\ UNCHANGED osButton
  <2>1. IInv'
    BY <1>3, <1>4, <1>7, NoMappingFault, KeyUpStep
  <2>2. /\ f.usage \in F0 => osDown' = osDown \ NotInMask(f.mask)
        /\ f.usage \notin F0 => osDown' = (osDown \ NotInMask(f.mask)) \ {f.usage}
    BY <1>5, <1>7 DEF KeyUp
  <2>3. osDown' \subseteq Mapped /\ f.usage \notin osDown'
    BY <1>3, <1>4, <1>7, <2>2 DEF F0
  <2>4. refused' \in SUBSET (Usages \cup {0}) /\ osButton' \in BOOLEAN /\ f.down = FALSE
    BY <1>3, <1>4, <1>7
  <2> QED BY <1>1, <1>3, <1>4, <1>5, <1>7, <2>1, <2>2, <2>3, <2>4, FrameTaken DEF f
<1>8. CASE ((f.kind = "key" /\ RefuseKey(f.usage, f.mask)) \/ RateLimited)
           /\ refused' = (IF f.kind = "wheel" THEN refused ELSE refused \cup {f.usage})
           /\ UNCHANGED osButton
  <2>1. IInv'
    <3>1. Next
      BY <1>3, <1>8 DEF Next, Apply
    <3> QED BY <1>4, <3>1, InvariantStep
  <2>2. osDown' = osDown
    BY <1>8 DEF RefuseKey, RateLimited, NoKeyEffect
  <2>3. refused' \in SUBSET (Usages \cup {0}) /\ osButton' \in BOOLEAN
    BY <1>3, <1>4, <1>8
  <2> QED BY <1>1, <1>3, <1>4, <1>8, <2>1, <2>2, <2>3, FrameTaken DEF f
<1>9. CASE f.kind = "button" /\ MouseButton(0, f.mask, F0) /\ osButton' = f.down
           /\ refused' = refused \ {0}
  <2>1. IInv'
    <3>1. Next
      BY <1>3, <1>9, NoMappingFault DEF Next, Apply
    <3> QED BY <1>4, <3>1, InvariantStep
  <2>2. osDown' = osDown \ NotInMask(f.mask)
    BY <1>5, <1>9 DEF MouseButton, SyncModifiers
  <2>3. refused' \in SUBSET (Usages \cup {0}) /\ osButton' \in BOOLEAN
    BY <1>3, <1>4, <1>9
  <2> QED BY <1>1, <1>3, <1>4, <1>5, <1>9, <2>1, <2>2, <2>3, FrameTaken DEF f
<1>10. CASE f.kind = "wheel" /\ MouseWheel(f.mask, F0) /\ UNCHANGED <<osButton, refused>>
  <2>1. IInv'
    <3>1. Next
      BY <1>3, <1>10, NoMappingFault DEF Next, Apply
    <3> QED BY <1>4, <3>1, InvariantStep
  <2>2. osDown' = osDown \ NotInMask(f.mask)
    BY <1>5, <1>10 DEF MouseWheel, SyncModifiers
  <2> QED BY <1>1, <1>3, <1>4, <1>5, <1>10, <2>1, <2>2, FrameTaken DEF f
<1> QED BY <1>6, <1>7, <1>8, <1>9, <1>10 DEF DeliverKey, f

\* Every step of the path keeps the invariant.
LEMMA PathStep ==
    ASSUME PathInv, [PathNext]_pathVars
    PROVE  PathInv'
<1>1. CASE \E keys \in SUBSET TrackedKeys, mouse \in Gestures : WindowLoop(keys, mouse)
  BY <1>1, WindowLoopStep
<1>2. CASE CloseWindow
  BY <1>2, CloseWindowStep
<1>3. ASSUME NEW m \in pointerChan, LoseMove(m) PROVE PathInv'
  <2>1. IInv' /\ PathTypeOK'
    BY <1>3 DEF LoseMove, PathInv, PathTypeOK, IInv, TypeOK, HeldIsDown, BoundedTable,
                viewerVars, hostVars, vars
  <2> QED BY <1>3, <2>1, QuietStep DEF LoseMove, viewerVars, hostVars, vars
<1>4. ASSUME NEW m \in pointerChan, DeliverMove(m) PROVE PathInv'
  BY <1>4, DeliverMoveStep
<1>5. CASE DeliverKey
  BY <1>5, DeliverKeyStep
<1>6. CASE EndStream
  <2>1. IInv' /\ PathTypeOK'
    BY <1>6 DEF EndStream, PathInv, PathTypeOK, IInv, TypeOK, HeldIsDown, BoundedTable,
                viewerVars, channelVars, vars
  <2> QED BY <1>6, <2>1, QuietStep DEF EndStream, viewerVars, channelVars, vars
<1>7. CASE ReadClock
  <2>1. IInv'
    <3>1. Next
      BY <1>7 DEF ReadClock, Next
    <3> QED BY <3>1, InvariantStep DEF PathInv
  <2>2. PathTypeOK'
    BY <1>7, <2>1 DEF ReadClock, PathInv, PathTypeOK, IInv, viewerVars, channelVars, hostVars
  <2> QED BY <1>7, <2>1, <2>2, QuietStep DEF ReadClock, Tick, viewerVars, channelVars, hostVars
<1>8. CASE UNCHANGED pathVars
  <2>1. IInv' /\ PathTypeOK'
    BY <1>8 DEF pathVars, PathInv, PathTypeOK, IInv, TypeOK, HeldIsDown, BoundedTable,
                viewerVars, channelVars, hostVars, vars
  <2> QED BY <1>8, <2>1, QuietStep DEF pathVars, viewerVars, channelVars, hostVars, vars
<1> QED BY <1>1, <1>2, <1>3, <1>4, <1>5, <1>6, <1>7, <1>8 DEF PathNext

\* At the start nothing is down and nothing is in flight.
LEMMA PathStarts ==
    ASSUME PathInit
    PROVE  PathInv
<1>1. IInv
  BY InitInvariant DEF PathInit
<1>2. keyChan = <<>> /\ keyChan \in Seq(Frames) /\ \A u : AboutIn(keyChan, u) = {}
  BY DEF PathInit, AboutIn
<1>3. PathTypeOK
  <2>1. TypeOK
    BY <1>1 DEF IInv
  <2>2. keyChan \in Seq([kind : {"key", "button", "wheel"}, usage : Usages \cup {0},
                         down : BOOLEAN, mask : SUBSET Mods])
    BY <1>2, ChannelType
  <2>3. 0 \in 0..MaxFrames
    BY PathAssumption
  <2> QED BY <2>1, <2>2, <2>3 DEF PathInit, PathTypeOK
<1>4. LastFramesAreTrue
  BY <1>2 DEF LastFramesAreTrue, LastSays
<1>5. osDown = {} /\ keyDown = {} /\ osButton = buttonDown
  BY DEF PathInit, Init
<1>6. (\A u \in Usages : KeySettled(u)) /\ ButtonSettled
  BY <1>5 DEF KeySettled, ButtonSettled
<1> QED BY <1>1, <1>2, <1>3, <1>4, <1>5, <1>6 DEF PathInv

\* Whatever the window reports, whichever moves are lost or late, whenever the
\* rate guard or the policy refuses a frame and wherever the stream ends: the
\* host's keys and button differ from the viewer's only by what is in flight or
\* was refused.
THEOREM InputDifferenceIsInFlight == PathSpec => []DifferenceIsInFlight
<1>1. PathSpec => []PathInv
  BY PathStarts, PathStep, PTL DEF PathSpec
<1> QED BY <1>1, PathInvImplies, PTL

-----------------------------------------------------------------------------

\* A layer without the focus, or out of the tree, reports no key as held, so that the
\* keys the user releases meanwhile are none of its own.
NothingHeldAway == ~focused \/ ~mounted => layerHeld = {}

\* A cancelled timer is left behind by the disposal only: _releaseAll forgets it.
NoDeadTimer == mounted => syncTimer # "cancelled"

\* The inductive invariant.
KeyboardInv == KeyboardsAgree /\ NothingHeldAway /\ NoDeadTimer

\* A frame with the mask of the keys held takes none of them away, and adds nothing.
LEMMA MaskKeepsHeldKeys ==
    ASSUME NEW keys, NEW down
    PROVE  /\ Reconciled(keys, ModifiersFor(down)) \subseteq keys
           /\ keys \cap down \subseteq Reconciled(keys, ModifiersFor(down))
  BY DEF Reconciled, ModifiersFor

\* A new layer has reported nothing.
LEMMA InitKeyboardInv == AppInputInit => KeyboardInv
<1> SUFFICES ASSUME AppInputInit PROVE KeyboardInv
  OBVIOUS
<1> USE AppInputAssumption DEF AppInputInit
<1>1. appClock \in 0..AppTime /\ lastPointerMs \in 0..appClock
  OBVIOUS
<1>2. AppInputTypeOK
  BY <1>1, Zenon DEF AppInputTypeOK
<1>3. LayerAndHostAgree /\ HeartbeatWhileHeld /\ NothingHeldAway /\ NoDeadTimer
  BY DEF LayerAndHostAgree, HeartbeatWhileHeld, NothingHeldAway, NoDeadTimer
<1> QED BY <1>2, <1>3 DEF KeyboardInv, KeyboardsAgree

\* What every action leaves of the types.
LEMMA NextAppInputTypeOK == AppInputTypeOK /\ [AppInputNext]_appInputVars => AppInputTypeOK'
<1> SUFFICES ASSUME AppInputTypeOK, [AppInputNext]_appInputVars PROVE AppInputTypeOK'
  OBVIOUS
<1> USE AppInputAssumption DEF AppInputTypeOK, remoteVars, encoderVars, userVars
<1>1. ASSUME NEW u \in AppKeys, AppKeyDown(u) \/ AppKeyUp(u) \/ AppKeyRepeat(u)
      PROVE  AppInputTypeOK'
  BY <1>1 DEF AppKeyDown, AppKeyUp, AppKeyRepeat, OnKeyFrame, Reconciled
<1>2. CASE FocusChanges \/ DisposeLayer
  BY <1>2 DEF FocusChanges, DisposeLayer, LayerReleases
<1>3. CASE SyncTimerFires
  BY <1>3 DEF SyncTimerFires, OnSnapshot
<1>4. ASSUME NEW p \in AppPoints, PointerMoves(p) PROVE AppInputTypeOK'
  BY <1>4 DEF PointerMoves, Reconciled
<1>5. ASSUME NEW b \in AppButtons, PointerDown(b) PROVE AppInputTypeOK'
  BY <1>5 DEF PointerDown, Reconciled
<1>6. CASE PointerUp \/ Scrolls
  BY <1>6 DEF PointerUp, Scrolls, Reconciled
<1>7. CASE AppTick
  BY <1>7 DEF AppTick
<1>8. CASE UNCHANGED appInputVars
  BY <1>8 DEF appInputVars
<1> QED BY <1>1, <1>2, <1>3, <1>4, <1>5, <1>6, <1>7, <1>8 DEF AppInputNext

\* Every step of the layer keeps the invariant.
LEMMA NextKeyboardInv == KeyboardInv /\ [AppInputNext]_appInputVars => KeyboardInv'
<1> SUFFICES ASSUME KeyboardInv, [AppInputNext]_appInputVars PROVE KeyboardInv'
  OBVIOUS
<1> DEFINE Agreed == LayerAndHostAgree /\ HeartbeatWhileHeld /\ NothingHeldAway /\ NoDeadTimer
<1>0. AppInputTypeOK /\ Agreed
  BY DEF KeyboardInv, KeyboardsAgree
<1>1. AppInputTypeOK'
  BY <1>0, NextAppInputTypeOK
<1>2. Agreed'
  <2> USE <1>0, AppInputAssumption
      DEF LayerAndHostAgree, HeartbeatWhileHeld, NothingHeldAway, NoDeadTimer
  <2>1. ASSUME NEW u \in AppKeys, AppKeyDown(u) PROVE Agreed'
    <3>1. CASE focused /\ mounted
      BY <2>1, <3>1, MaskKeepsHeldKeys DEF AppKeyDown, OnKeyFrame, AppInputTypeOK
    <3>2. CASE ~(focused /\ mounted)
      BY <2>1, <3>2 DEF AppKeyDown
    <3> QED BY <3>1, <3>2
  <2>2. ASSUME NEW u \in AppKeys, AppKeyUp(u) PROVE Agreed'
    <3>1. CASE focused /\ mounted
      BY <2>2, <3>1, MaskKeepsHeldKeys DEF AppKeyUp, OnKeyFrame
    <3>2. CASE ~(focused /\ mounted)
      BY <2>2, <3>2 DEF AppKeyUp
    <3> QED BY <3>1, <3>2
  <2>3. ASSUME NEW u \in AppKeys, AppKeyRepeat(u) PROVE Agreed'
    BY <2>3, MaskKeepsHeldKeys DEF AppKeyRepeat, OnKeyFrame, userVars
  <2>4. CASE FocusChanges
    BY <2>4 DEF FocusChanges, LayerReleases, userVars
  <2>5. CASE DisposeLayer
    BY <2>5 DEF DisposeLayer, userVars
  <2>6. CASE SyncTimerFires
    BY <2>6 DEF SyncTimerFires, OnSnapshot, userVars
  <2>7. ASSUME NEW p \in AppPoints, PointerMoves(p) PROVE Agreed'
    BY <2>7, MaskKeepsHeldKeys DEF PointerMoves
  <2>8. ASSUME NEW b \in AppButtons, PointerDown(b) PROVE Agreed'
    BY <2>8, MaskKeepsHeldKeys DEF PointerDown
  <2>9. CASE PointerUp
    BY <2>9, MaskKeepsHeldKeys DEF PointerUp
  <2>10. CASE Scrolls
    BY <2>10, MaskKeepsHeldKeys DEF Scrolls, userVars
  <2>11. CASE AppTick
    BY <2>11 DEF AppTick, userVars, remoteVars
  <2>12. CASE UNCHANGED appInputVars
    BY <2>12 DEF appInputVars, userVars, remoteVars
  <2> QED
    BY <2>1, <2>2, <2>3, <2>4, <2>5, <2>6, <2>7, <2>8, <2>9, <2>10, <2>11, <2>12
    DEF AppInputNext
<1> QED BY <1>1, <1>2 DEF KeyboardInv, KeyboardsAgree

\* The keys the layer reports as held are held by the user and by the host, the host
\* holds no others but repeats, and the heartbeat runs while a key is held, over any
\* sequence of presses, focus changes and timer callbacks (_InputLayerState).
THEOREM KeyboardsStayTogether == AppInputSpec => []KeyboardsAgree
<1>1. KeyboardInv => KeyboardsAgree
  BY DEF KeyboardInv
<1> QED BY InitKeyboardInv, NextKeyboardInv, <1>1, PTL DEF AppInputSpec
=============================================================================
