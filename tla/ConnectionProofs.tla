--------------------------- MODULE ConnectionProofs ---------------------------
(***************************************************************************)
(* Proofs about what it takes to open a session: the identity file         *)
(* (KeyFile), the PINs of the set-up (SessionSetup), the hand-over of      *)
(* early frames and the choice of relays (Transport), the guard on what a  *)
(* session may send (RateGuard), the limiter of a signaling connection     *)
(* (Registration), the call of a device (Dialing), and the server's tables *)
(* of who is there and who talks to whom (SignalServer). Each part is a    *)
(* specification of its own and has an inductive invariant of its own; the *)
(* last theorem is about their composition (Connection).                   *)
(***************************************************************************)
EXTENDS Connection, SignalServer, SequenceFacts, TLAPS

-----------------------------------------------------------------------------
(* The identity file                                                       *)

\* A first run at a time: nobody else stores, the file is not there before it is
\* created, and nobody has run before the key is written.
OneAtATime ==
    /\ \A p, q \in Processes : Storing(p) /\ Storing(q) => p = q
    /\ \A p \in Processes : at[p] = "create" => ~there
    /\ \A p \in Processes : at[p] = "key" => there /\ magic
    /\ \A p \in Processes : at[p] \in {"magic", "key"} => there /\ stored = NoKey /\ announced = {}
    /\ ~there => announced = {}

\* A process that stores has an identity to store.
HasIdentity == \A p \in Processes : Storing(p) => identity[p] \in Nat

\* The inductive invariant: AddressSurvives holds because a storing process has the
\* file, and the history, to itself.
KeyInv ==
    /\ KeyTypeOK
    /\ HasIdentity
    /\ raced \/ OneAtATime
    /\ AddressSurvives

\* It holds at the start.
LEMMA InitKeyInv == KeyInit => KeyInv
<1> SUFFICES ASSUME KeyInit PROVE KeyInv
  OBVIOUS
<1> USE DEF KeyInit
<1>1. KeyTypeOK
  BY DEF KeyTypeOK
<1>2. \A p \in Processes : at[p] = "off"
  OBVIOUS
<1>3. HasIdentity /\ OneAtATime
  BY <1>2 DEF HasIdentity, OneAtATime, Storing
<1>4. AddressSurvives
  BY DEF AddressSurvives
<1> QED BY <1>1, <1>3, <1>4 DEF KeyInv

\* Every step keeps it.
LEMMA NextKeyInv == KeyInv /\ [KeyNext]_keyVars => KeyInv'
<1> SUFFICES ASSUME KeyInv, [KeyNext]_keyVars PROVE KeyInv'
  OBVIOUS
<1> USE KeyFileAssumption
<1>1. ASSUME NEW p \in Processes, LoadStored(p) PROVE KeyInv'
  <2> USE DEF LoadStored, Runs, KeyInv, Found
  <2>1. KeyTypeOK' /\ HasIdentity'
    BY <1>1 DEF KeyTypeOK, HasIdentity, Storing
  <2>2. raced' \/ OneAtATime'
    BY <1>1 DEF KeyTypeOK, OneAtATime, Storing, AddressSurvives
  <2>3. AddressSurvives'
    BY <1>1 DEF KeyTypeOK, AddressSurvives
  <2> QED BY <2>1, <2>2, <2>3
<1>2. ASSUME NEW p \in Processes, LoadFails(p) \/ StoreFails(p) \/ Stop(p) PROVE KeyInv'
  <2>1. /\ at' = [at EXCEPT ![p] = "off"]
        /\ identity' = [identity EXCEPT ![p] = NoKey]
        /\ UNCHANGED <<there, private, magic, stored, generated, announced, raced>>
        /\ \E e \in {"none", "Permissions", "BadFormat", "Io"} :
              lastError' = [lastError EXCEPT ![p] = e] \/ lastError' = lastError
    BY <1>2 DEF LoadFails, StoreFails, Stop, Ends
  <2> QED BY <2>1 DEF KeyInv, KeyTypeOK, HasIdentity, OneAtATime, Storing, AddressSurvives
<1>3. ASSUME NEW p \in Processes, Generate(p) PROVE KeyInv'
  <2> USE DEF Generate, KeyInv, Found
  <2>1. KeyTypeOK' /\ HasIdentity'
    BY <1>3 DEF KeyTypeOK, HasIdentity, Storing
  <2>2. raced' \/ OneAtATime'
    BY <1>3 DEF KeyTypeOK, OneAtATime, Storing
  <2>3. AddressSurvives'
    BY <1>3 DEF AddressSurvives
  <2> QED BY <2>1, <2>2, <2>3
<1>4. ASSUME NEW p \in Processes, CreatePrivate(p) PROVE KeyInv'
  <2> USE DEF CreatePrivate, KeyInv
  <2>1. KeyTypeOK' /\ HasIdentity'
    BY <1>4 DEF KeyTypeOK, HasIdentity, Storing
  <2>2. raced' \/ OneAtATime'
    BY <1>4 DEF KeyTypeOK, OneAtATime, Storing
  <2>3. AddressSurvives'
    BY <1>4 DEF AddressSurvives, OneAtATime
  <2> QED BY <2>1, <2>2, <2>3
<1>5. ASSUME NEW p \in Processes, WriteMagic(p) PROVE KeyInv'
  <2> USE DEF WriteMagic, KeyInv
  <2>1. KeyTypeOK' /\ HasIdentity'
    BY <1>5 DEF KeyTypeOK, HasIdentity, Storing
  <2>2. raced' \/ OneAtATime'
    BY <1>5 DEF KeyTypeOK, OneAtATime, Storing
  <2>3. AddressSurvives'
    BY <1>5 DEF AddressSurvives
  <2> QED BY <2>1, <2>2, <2>3
<1>6. ASSUME NEW p \in Processes, WriteKey(p) PROVE KeyInv'
  <2> USE DEF WriteKey, Runs, KeyInv
  <2>1. KeyTypeOK' /\ HasIdentity'
    BY <1>6 DEF KeyTypeOK, HasIdentity, Storing
  <2>2. raced' \/ OneAtATime'
    BY <1>6 DEF KeyTypeOK, OneAtATime, Storing
  <2>3. AddressSurvives'
    BY <1>6 DEF AddressSurvives, OneAtATime
  <2> QED BY <2>1, <2>2, <2>3
<1>7. CASE ChangeMode
  BY <1>7 DEF ChangeMode, KeyInv, KeyTypeOK, HasIdentity, OneAtATime, Storing, AddressSurvives
<1>8. CASE UNCHANGED keyVars
  BY <1>8 DEF keyVars, KeyInv, KeyTypeOK, HasIdentity, OneAtATime, Storing, AddressSurvives
<1> QED BY <1>1, <1>2, <1>3, <1>4, <1>5, <1>6, <1>7, <1>8 DEF KeyNext

\* All the processes that ever ran on an identity file had the identity it holds, over
\* crashes, failed writes and changes of its mode, unless two first runs overlapped
\* (FileKeystore::load_or_create).
THEOREM AddressesSurvive == KeySpec => []AddressSurvives
<1>1. KeyInv => AddressSurvives
  BY DEF KeyInv
<1> QED BY InitKeyInv, NextKeyInv, <1>1, PTL DEF KeySpec

-----------------------------------------------------------------------------
(* The PINs of the set-up                                                  *)

\* What can be on the control channel.
HostMail ==
    [type : {"Hello", "AuthRequest"}, content : {0}]
        \cup [type : {"AuthConfirm"}, content : {"controller"} \X Nat \X Nat]
ViewerMail ==
    [type : {"HelloAck", "SessionReady"}, content : {0}]
        \cup [type : {"AuthResponse"}, content : {"host"} \X Nat \X Nat]

SetupTypes ==
    /\ SetupTypeOK
    /\ attempt \in Nat /\ inbox \in Seq(1..attempt)
    /\ viewerAt = "sleep" => tries < SETUP_ATTEMPTS
    /\ toHost \in Seq(HostMail) /\ toViewer \in Seq(ViewerMail)
    /\ opened \in Seq(Nat)

\* The confirmation of the attempt under way is made with the PIN its viewer was given.
ConfirmsArePersonal ==
    \A k \in DOMAIN toHost :
        toHost[k].type = "AuthConfirm" =>
            /\ toHost[k].content[3] <= attempt
            /\ toHost[k].content[3] = attempt => toHost[k].content[2] = typed

\* While both ends are in the handshake they are in the same session.
SameSession ==
    hostAt \in Handshake /\ viewerAt \in {"ack", "response", "ready"} => hostSid = attempt

\* A viewer that is told its session is ready was let in with its PIN.
ReadyMeansOpened ==
    viewerAt \in {"ack", "response", "ready"}
        => \A k \in DOMAIN toViewer : toViewer[k].type = "SessionReady"
                => \E i \in DOMAIN opened : opened[i] = typed

\* The PIN on the screen, if it was drawn, has opened nothing but the session that is streaming.
OpenedAreOlder ==
    ~fixedPin => \A i \in DOMAIN opened : opened[i] <= pin /\ (hostAt # "stream" => opened[i] < pin)

SetupInv ==
    /\ SetupTypes /\ ConfirmsArePersonal /\ SameSession /\ ReadyMeansOpened /\ OpenedAreOlder
    /\ OnePinOneSession /\ BothKnewThePin
LEMMA InitSetupInv == SetupInit => SetupInv
<1> SUFFICES ASSUME SetupInit PROVE SetupInv
  OBVIOUS
<1> USE SetupAssumption DEF SetupInit
<1>1. SetupTypeOK
  BY DEF SetupTypeOK, Handshake
<1>2. SetupTypes
  BY <1>1 DEF SetupTypes
<1> QED BY <1>2 DEF SetupInv, ConfirmsArePersonal, SameSession, ReadyMeansOpened, OpenedAreOlder,
                    OnePinOneSession, BothKnewThePin, Handshake
LEMMA NextSetupInv == SetupInv /\ [SetupNext]_setupVars => SetupInv'
<1> SUFFICES ASSUME SetupInv, [SetupNext]_setupVars PROVE SetupInv'
  OBVIOUS
<1> USE SetupAssumption DEF SetupInv, viewerVars, clockVars
<1>t. SetupTypeOK /\ SetupTypes
  BY DEF SetupTypes
<1>1. ASSUME WaitTimesOut \/ StaleEnvelope \/ Tick PROVE SetupInv'
  <2> USE DEF WaitTimesOut, StaleEnvelope, Tick, Mint
  <2>1. SetupTypeOK'
    BY <1>t, <1>1 DEF SetupTypeOK, Handshake
  <2>2. SetupTypes'
    BY <1>t, <1>1, <2>1 DEF SetupTypes
  <2>3. ConfirmsArePersonal'
    BY <1>t, <1>1 DEF ConfirmsArePersonal
  <2>4. (SameSession /\ ReadyMeansOpened)'
    BY <1>t, <1>1 DEF SameSession, ReadyMeansOpened, Handshake
  <2>5. (OpenedAreOlder /\ OnePinOneSession /\ BothKnewThePin)'
    BY <1>t, <1>1 DEF OpenedAreOlder, OnePinOneSession, BothKnewThePin, SetupTypes, SetupTypeOK
  <2> QED BY <2>2, <2>3, <2>4, <2>5
<1>2. ASSUME ConnectRequest PROVE SetupInv'
  <2> USE DEF ConnectRequest
  <2>0. inbox' \in Seq(1..attempt) /\ hostSid' \in 1..attempt
    BY <1>t, <1>2, TailOf DEF SetupTypes
  <2>1. SetupTypeOK'
    BY <1>t, <1>2, <2>0 DEF SetupTypeOK, SetupTypes, Handshake
  <2>2. SetupTypes'
    BY <1>t, <1>2, <2>1, <2>0 DEF SetupTypes
  <2>3. ConfirmsArePersonal'
    BY <1>t, <1>2 DEF ConfirmsArePersonal
  <2>4. (SameSession /\ ReadyMeansOpened)'
    BY <1>t, <1>2 DEF SameSession, ReadyMeansOpened, Handshake
  <2>5. (OpenedAreOlder /\ OnePinOneSession /\ BothKnewThePin)'
    BY <1>t, <1>2 DEF OpenedAreOlder, OnePinOneSession, BothKnewThePin
  <2> QED BY <2>2, <2>3, <2>4, <2>5
\* Whenever the host goes back to waiting, having read a message or not.
<1>3. ASSUME HostOver, toHost' = toHost \/ (toHost # <<>> /\ toHost' = Tail(toHost))
      PROVE  SetupInv'
  <2> USE DEF HostOver, NextPin, Mint
  <2>0. toHost' \in Seq(HostMail) /\ ConfirmsArePersonal'
    <3>1. CASE toHost' = toHost
      BY <1>t, <1>3, <3>1 DEF ConfirmsArePersonal, SetupTypes
    <3>2. CASE toHost # <<>> /\ toHost' = Tail(toHost)
      BY <1>t, <1>3, <3>2, TailOf DEF ConfirmsArePersonal, SetupTypes
    <3> QED BY <1>3, <3>1, <3>2
  <2>1. SetupTypeOK'
    BY <1>t, <1>3 DEF SetupTypeOK, SetupTypes, Handshake
  <2>2. SetupTypes'
    BY <1>t, <1>3, <2>1, <2>0 DEF SetupTypes
  <2>4. (SameSession /\ ReadyMeansOpened)'
    BY <1>t, <1>3 DEF SameSession, ReadyMeansOpened, Handshake
  <2>5. (OpenedAreOlder /\ OnePinOneSession /\ BothKnewThePin)'
    BY <1>t, <1>3 DEF OpenedAreOlder, OnePinOneSession, BothKnewThePin, SetupTypes, SetupTypeOK
  <2> QED BY <2>0, <2>2, <2>4, <2>5
<1>4. CASE HostNegotiationFails \/ HostTimesOut \/ HostStreamEnds
  BY <1>3, <1>4 DEF HostNegotiationFails, HostTimesOut, HostStreamEnds
\* A message the host answers with another, which is not SessionReady.
<1>5. ASSUME NEW m \in ViewerMail, m.type # "SessionReady", toHost # <<>>, toHost' = Tail(toHost),
             toViewer' = Append(toViewer, m), hostAt \in Handshake, hostAt' \in Handshake,
             UNCHANGED <<clockVars, inbox, hostSid, fresh, viewerVars, opened>>
      PROVE  SetupInv'
  <2>0. toHost' \in Seq(HostMail) /\ ConfirmsArePersonal'
    BY <1>t, <1>5, TailOf DEF ConfirmsArePersonal, SetupTypes
  <2>1. SetupTypeOK'
    BY <1>t, <1>5 DEF SetupTypeOK
  <2>2. SetupTypes'
    BY <1>t, <1>5, <2>1, <2>0, AppendOf DEF SetupTypes
  <2>4. (SameSession /\ ReadyMeansOpened)'
    BY <1>t, <1>5, AppendOf DEF SameSession, ReadyMeansOpened, SetupTypes
  <2>5. (OpenedAreOlder /\ OnePinOneSession /\ BothKnewThePin)'
    BY <1>t, <1>5 DEF OpenedAreOlder, OnePinOneSession, BothKnewThePin, Handshake
  <2> QED BY <2>0, <2>2, <2>4, <2>5
<1>6. CASE HostHello
  <2>1. Msg("HelloAck", 0) \in ViewerMail
    BY DEF ViewerMail, Msg
  <2> QED BY <1>5, <1>6, <2>1 DEF HostHello, Reads, Handshake, Msg
<1>7. CASE HostRespond
  <2>1. Msg("AuthResponse", Tag("host", pin, hostSid)) \in ViewerMail
    BY <1>t DEF ViewerMail, Msg, Tag, SetupTypeOK, SetupTypes
  <2>2. CASE fresh
    BY <1>5, <1>7, <2>1, <2>2 DEF HostRespond, Reads, Handshake, Msg
  <2>3. CASE ~fresh
    BY <1>3, <1>7, <2>3 DEF HostRespond, Reads
  <2> QED BY <2>2, <2>3
<1>8. CASE HostConfirm
  <2> DEFINE ok == TagMatches(Head(toHost).content, Tag("controller", pin, hostSid))
  <2>1. CASE ~ok
    BY <1>3, <1>8, <2>1 DEF HostConfirm, Reads
  <2>2. CASE ok
    <3> USE DEF HostConfirm, Reads
    <3>1. /\ toHost # <<>> /\ toHost' = Tail(toHost) /\ hostAt = "confirm" /\ hostAt' = "stream"
          /\ toViewer' = Append(toViewer, Msg("SessionReady", 0)) /\ opened' = Append(opened, pin)
          /\ UNCHANGED <<clockVars, inbox, hostSid, fresh, viewerVars>>
      BY <1>8, <2>2
    <3>2. Head(toHost) = toHost[1] /\ 1 \in DOMAIN toHost
      BY <1>t, <3>1, TailOf DEF SetupTypes
    <3>3. toHost[1].type = "AuthConfirm" /\ toHost[1].content = <<"controller", pin, hostSid>>
      BY <1>8, <2>2, <3>2 DEF TagMatches, Tag
    <3>4. hostSid = attempt => typed = pin
      BY <3>2, <3>3 DEF ConfirmsArePersonal
    <3>5. toHost' \in Seq(HostMail) /\ ConfirmsArePersonal'
      BY <1>t, <3>1, TailOf DEF ConfirmsArePersonal, SetupTypes
    <3>6. Msg("SessionReady", 0) \in ViewerMail
      BY DEF ViewerMail, Msg
    <3>7. SetupTypeOK'
      BY <1>t, <3>1 DEF SetupTypeOK, Handshake
    <3>8. SetupTypes'
      BY <1>t, <3>1, <3>5, <3>6, <3>7, AppendOf DEF SetupTypes, SetupTypeOK
    <3>9. pin \in Nat /\ opened \in Seq(Nat)
      BY <1>t DEF SetupTypeOK, SetupTypes
    <3>10. (SameSession /\ ReadyMeansOpened)'
      <4>1. \E i \in DOMAIN opened' : opened'[i] = pin
        BY <3>1, <3>9, AppendOf
      <4>2. SameSession'
        BY <3>1 DEF SameSession, Handshake
      <4>3. viewerAt \in {"ack", "response", "ready"} => typed = pin
        BY <3>1, <3>4 DEF SameSession, Handshake
      <4> QED BY <3>1, <4>1, <4>2, <4>3 DEF ReadyMeansOpened
    <3>11. (OpenedAreOlder /\ OnePinOneSession)'
      <4>1. ~fixedPin => \A i \in DOMAIN opened : opened[i] < pin /\ opened[i] # pin
        BY <3>1, <3>9, ElementOfSeq, LenProperties DEF OpenedAreOlder
      <4>2. \A i \in DOMAIN opened' : (i \in DOMAIN opened /\ opened'[i] = opened[i])
                                     \/ (i = Len(opened) + 1 /\ opened'[i] = pin)
        BY <3>1, <3>9, AppendOf
      <4> QED BY <3>1, <3>9, <4>1, <4>2 DEF OpenedAreOlder, OnePinOneSession
    <3>12. BothKnewThePin'
      <4>1. \A i \in DOMAIN opened : i \in DOMAIN opened' /\ opened'[i] = opened[i]
        BY <3>1, <3>9, AppendOf
      <4> QED BY <3>1, <3>4, <4>1 DEF BothKnewThePin
    <3> QED BY <3>5, <3>8, <3>10, <3>11, <3>12
  <2> QED BY <2>1, <2>2
\* A new attempt of the viewer.
<1>9. ASSUME StartViewer \/ Retry PROVE SetupInv'
  <2> USE DEF StartViewer, Retry, OnlyViewer
  <2>0. attempt' = attempt + 1 /\ attempt \in Nat /\ inbox' = Append(inbox, attempt + 1)
        /\ inbox \in Seq(1..attempt) /\ viewerAt' = "dial"
        /\ UNCHANGED <<hostAt, clockVars, hostSid, fresh, toHost, toViewer, opened>>
    BY <1>t, <1>9 DEF SetupTypes
  <2>a. inbox' \in Seq(1..attempt')
    <3>1. inbox \in Seq(1..attempt')
      BY <2>0, SeqMonotonic
    <3> QED BY <2>0, <3>1, AppendOf
  <2>b. hostSid' \in 0..attempt' /\ tries' \in 0..SETUP_ATTEMPTS /\ viewers' \in 0..MaxViewers
    BY <1>t, <1>9, <2>0 DEF SetupTypeOK, SetupTypes
  <2>c. typed' \in 0..pin' /\ why' \in {"none", "setup", "refused", "handshake", "BadPin"}
    BY <1>t, <1>9, <2>0 DEF SetupTypeOK
  <2>1. SetupTypeOK'
    BY <1>t, <2>0, <2>b, <2>c DEF SetupTypeOK
  <2>2. SetupTypes'
    BY <1>t, <1>9, <2>0, <2>a, <2>1 DEF SetupTypes
  <2>3. ConfirmsArePersonal'
    <3>1. ASSUME NEW k \in DOMAIN toHost, toHost[k].type = "AuthConfirm"
          PROVE  toHost[k].content[3] \in Nat
      <4>1. toHost[k] \in HostMail
        BY <1>t, ElementOfSeq, LenProperties DEF SetupTypes
      <4> QED BY <3>1, <4>1 DEF HostMail
    <3> QED BY <2>0, <3>1 DEF ConfirmsArePersonal
  <2>4. (SameSession /\ ReadyMeansOpened)'
    BY <2>0 DEF SameSession, ReadyMeansOpened
  <2>5. (OpenedAreOlder /\ OnePinOneSession /\ BothKnewThePin)'
    BY <1>t, <2>0 DEF OpenedAreOlder, OnePinOneSession, BothKnewThePin, SetupTypeOK
  <2> QED BY <2>2, <2>3, <2>4, <2>5
<1>10. ASSUME Negotiated PROVE SetupInv'
  <2> USE DEF Negotiated
  <2>0. toHost' \in Seq(HostMail) /\ toViewer' \in Seq(ViewerMail)
    BY <1>10 DEF HostMail, Msg
  <2>1. SetupTypeOK'
    BY <1>t, <1>10 DEF SetupTypeOK, Handshake
  <2>2. SetupTypes'
    BY <1>t, <1>10, <2>1, <2>0 DEF SetupTypes
  <2>3. (ConfirmsArePersonal /\ SameSession /\ ReadyMeansOpened)'
    BY <1>10 DEF ConfirmsArePersonal, SameSession, ReadyMeansOpened, Msg
  <2>5. (OpenedAreOlder /\ OnePinOneSession /\ BothKnewThePin)'
    BY <1>10 DEF OpenedAreOlder, OnePinOneSession, BothKnewThePin
  <2> QED BY <2>2, <2>3, <2>5
\* The viewer gives up, pauses or ends its session.
<1>11. ASSUME SetupFails \/ SetupRefused \/ ViewerTimesOut \/ ViewerStreamEnds PROVE SetupInv'
  <2> USE DEF SetupFails, SetupRefused, ViewerTimesOut, ViewerStreamEnds, GiveUp, OnlyViewer
  <2>0. /\ UNCHANGED <<hostAt, clockVars, hostSid, fresh, opened, inbox, toHost, toViewer, viewers, attempt,
                       tries, typed>>
        /\ viewerAt' \in {"failed", "sleep", "over"}
        /\ viewerAt' = "over" => viewerAt = "stream"
    BY <1>11
  <2>1. SetupTypeOK'
    BY <1>t, <1>11 DEF SetupTypeOK
  <2>a. viewerAt' = "sleep" => tries < SETUP_ATTEMPTS
    <3>1. tries \in 0..SETUP_ATTEMPTS
      BY <1>t DEF SetupTypeOK
    <3>2. viewerAt' = "sleep" => tries # SETUP_ATTEMPTS
      BY <1>11
    <3> QED BY <3>1, <3>2
  <2>2. SetupTypes'
    BY <1>t, <2>0, <2>1, <2>a DEF SetupTypes
  <2> QED BY <2>0, <2>2 DEF ConfirmsArePersonal, SameSession, ReadyMeansOpened, OpenedAreOlder,
                            OnePinOneSession, BothKnewThePin
\* The viewer reads an answer, and may send a message of its own.
<1>12. ASSUME toViewer # <<>>, toViewer' = Tail(toViewer),
              \/ toHost' = toHost
              \/ \E m \in HostMail :
                    /\ toHost' = Append(toHost, m)
                    /\ m.type = "AuthConfirm" => m.content[3] = attempt /\ m.content[2] = typed,
              viewerAt \in {"ack", "response", "ready"},
              viewerAt' \in {"response", "ready", "stream", "failed"},
              viewerAt' = "stream" => toViewer[1].type = "SessionReady",
              why' \in {why, "BadPin"},
              UNCHANGED <<hostAt, clockVars, hostSid, fresh, opened, inbox, viewers, attempt, tries, typed>>
       PROVE  SetupInv'
  <2>0. toHost' \in Seq(HostMail) /\ ConfirmsArePersonal'
    <3>1. CASE toHost' = toHost
      BY <1>t, <1>12, <3>1 DEF ConfirmsArePersonal, SetupTypes
    <3>2. CASE toHost' # toHost
      <4>1. PICK m \in HostMail :
                    /\ toHost' = Append(toHost, m)
                    /\ m.type = "AuthConfirm" => m.content[3] = attempt /\ m.content[2] = typed
        BY <1>12, <3>2
      <4>2. toHost \in Seq(HostMail) /\ attempt \in Nat
        BY <1>t DEF SetupTypes
      <4>3. \A k \in DOMAIN toHost' : (k \in DOMAIN toHost /\ toHost'[k] = toHost[k]) \/ toHost'[k] = m
        BY <4>1, <4>2, AppendOf
      <4> QED BY <1>12, <4>1, <4>2, <4>3, AppendOf DEF ConfirmsArePersonal
    <3> QED BY <3>1, <3>2
  <2>1. SetupTypeOK'
    BY <1>t, <1>12 DEF SetupTypeOK
  <2>2. SetupTypes'
    BY <1>t, <1>12, <2>1, <2>0, TailOf DEF SetupTypes
  <2>3. (SameSession /\ ReadyMeansOpened)'
    BY <1>t, <1>12, TailOf DEF SameSession, ReadyMeansOpened, SetupTypes
  <2>4. viewerAt' = "stream" => \E i \in DOMAIN opened : opened[i] = typed
    BY <1>t, <1>12, TailOf DEF ReadyMeansOpened, SetupTypes
  <2>5. (OpenedAreOlder /\ OnePinOneSession /\ BothKnewThePin)'
    BY <1>12, <2>4 DEF OpenedAreOlder, OnePinOneSession, BothKnewThePin
  <2> QED BY <2>0, <2>2, <2>3, <2>5
<1>13. CASE ViewerAck
  <2>1. Msg("AuthRequest", 0) \in HostMail /\ Msg("AuthRequest", 0).type # "AuthConfirm"
    BY DEF HostMail, Msg
  <2> QED BY <1>12, <1>13, <2>1 DEF ViewerAck, Answers, OnlyViewer
<1>14. CASE ViewerConfirm
  <2> DEFINE m == Msg("AuthConfirm", Tag("controller", typed, attempt))
  <2>1. m \in HostMail /\ m.content[3] = attempt /\ m.content[2] = typed
    BY <1>t DEF HostMail, Msg, Tag, SetupTypeOK, SetupTypes
  <2> HIDE DEF m
  <2>2. \/ toHost' = toHost
        \/ \E x \in HostMail :
              /\ toHost' = Append(toHost, x)
              /\ x.type = "AuthConfirm" => x.content[3] = attempt /\ x.content[2] = typed
    BY <1>14, <2>1 DEF ViewerConfirm, m
  <2>3. /\ toViewer # <<>> /\ toViewer' = Tail(toViewer) /\ viewerAt = "response"
        /\ viewerAt' \in {"ready", "failed"} /\ why' \in {why, "BadPin"}
        /\ UNCHANGED <<hostAt, clockVars, hostSid, fresh, opened, inbox, viewers, attempt, tries, typed>>
    BY <1>14 DEF ViewerConfirm, Answers, OnlyViewer, GiveUp
  <2> QED BY <1>12, <2>2, <2>3
<1>15. CASE ViewerReady
  <2>1. toViewer # <<>> => Head(toViewer) = toViewer[1]
    BY <1>t, TailOf DEF SetupTypes
  <2> QED BY <1>12, <1>15, <2>1 DEF ViewerReady, Answers, OnlyViewer
<1>16. CASE UNCHANGED setupVars
  BY <1>t, <1>16 DEF setupVars, SetupTypes, SetupTypeOK, ConfirmsArePersonal, SameSession,
      ReadyMeansOpened, OpenedAreOlder, OnePinOneSession, BothKnewThePin
<1> QED BY <1>1, <1>2, <1>4, <1>6, <1>7, <1>8, <1>9, <1>10, <1>11, <1>13, <1>14, <1>15, <1>16
  DEF SetupNext, HostStep, ViewerStep

\* No two sessions are opened with one draw of a PIN, and both ends of a session knew its
\* PIN, drawn or fixed by --pin, for any number of viewers, attempts and PINs (serve.rs draws one per session, auth.rs
\* confirms the key both ways).
THEOREM PinsOpenTheirSessions == SetupSpec => []PinOpensItsSession
<1>1. SetupInv => PinOpensItsSession
  BY DEF SetupInv, SetupTypes, PinOpensItsSession
<1> QED BY InitSetupInv, NextSetupInv, <1>1, PTL DEF SetupSpec

-----------------------------------------------------------------------------
(* The readers of a transport                                              *)

\* The event is a frame of the channel.
Carries(e, c) == e.kind = "frame" /\ e.channel = c

\* Two queues read one after the other hold the frames of the channel in order, ...
InOrder(c, a, b) ==
    /\ \A i, j \in DOMAIN a : i < j /\ Carries(a[i], c) /\ Carries(a[j], c) => a[i].number < a[j].number
    /\ \A i, j \in DOMAIN b : i < j /\ Carries(b[i], c) /\ Carries(b[j], c) => b[i].number < b[j].number
    /\ \A i \in DOMAIN a, j \in DOMAIN b :
            Carries(a[i], c) /\ Carries(b[j], c) => a[i].number < b[j].number

Holds(c, q, n) == \E i \in DOMAIN q : Carries(q[i], c) /\ q[i].number = n

\* ... and of them exactly those after the first g up to h.
InTransit(c, a, b, g, h) ==
    /\ g <= h /\ InOrder(c, a, b)
    /\ \A n \in Nat : (Holds(c, a, n) \/ Holds(c, b, n)) <=> (g < n /\ n <= h)

\* What is read before the event queue.
ReadFirst == IF reader = "negotiation" THEN early ELSE pending

TransportTypes ==
    /\ sentOn \in [Channels -> 0..MaxSent] /\ openChannels \subseteq Channels /\ linkUp \in BOOLEAN
    /\ stream \in [Channels -> Seq(1..MaxSent)] /\ got \in [Channels -> Seq(1..MaxSent)]
    /\ events \in Seq(TransportEvents) /\ early \in Seq(TransportEvents)
    /\ pending \in Seq(TransportEvents)
    /\ reader \in {"negotiation", "handshake", "stream", "gone"}

\* SCTP holds the last frames sent.
StreamInOrder(c) ==
    /\ Len(stream[c]) <= sentOn[c]
    /\ \A k \in DOMAIN stream[c] : stream[c][k] = sentOn[c] - Len(stream[c]) + k

\* The inductive invariant: each frame of a reliable channel is read, queued or in the
\* stream, in this order, and input waits for the handshake to end.
TransportInv ==
    /\ TransportTypes
    /\ reader = "negotiation" => pending = <<>>
    /\ reader \in {"handshake", "stream"} => early = <<>>
    /\ reader \in {"negotiation", "handshake"} => sentOn["input-k"] = 0
    /\ \A c \in Reliable : StreamInOrder(c)
    /\ reader # "gone" => \A c \in Reliable :
            InTransit(c, ReadFirst, events, Len(got[c]), sentOn[c] - Len(stream[c]))
    /\ ReliableInOrder

\* The types of the events' fields.
LEMMA EventTypes ==
  ASSUME NEW e \in TransportEvents
  PROVE  /\ e.kind \in {"frame", "open", "closed"} /\ e.channel \in Channels /\ e.number \in 0..MaxSent
         /\ e.kind = "frame" => e.number \in 1..MaxSent
  BY TransportAssumption DEF TransportEvents, FrameEvent, OpenEvent, ClosedEvent, Channels, Reliable

\* A frame joins the queue behind the others.
LEMMA QueueGrows ==
  ASSUME NEW a \in Seq(TransportEvents), NEW b \in Seq(TransportEvents), NEW e \in TransportEvents,
         NEW c, NEW g \in Nat, NEW h \in Nat, InTransit(c, a, b, g, h)
  PROVE  /\ Carries(e, c) /\ e.number = h + 1 => InTransit(c, a, Append(b, e), g, h + 1)
         /\ ~Carries(e, c) => InTransit(c, a, Append(b, e), g, h)
<1> DEFINE q == Append(b, e)
<1>1. /\ \A k \in DOMAIN b : k \in DOMAIN q /\ q[k] = b[k]
      /\ \A k \in DOMAIN q : (k \in DOMAIN b /\ q[k] = b[k]) \/ (k = Len(b) + 1 /\ q[k] = e)
      /\ Len(b) + 1 \in DOMAIN q /\ q[Len(b) + 1] = e
      /\ DOMAIN b = 1..Len(b) /\ Len(b) \in Nat
  BY AppendOf, LenProperties
<1> HIDE DEF q
<1>2. CASE ~Carries(e, c)
  <2>1. InOrder(c, a, q)
    BY <1>1, <1>2 DEF InTransit, InOrder
  <2>2. \A n : Holds(c, q, n) <=> Holds(c, b, n)
    BY <1>1, <1>2 DEF Holds
  <2> QED BY <1>2, <2>1, <2>2 DEF InTransit, q
<1>3. CASE Carries(e, c) /\ e.number = h + 1
  <2>1. \A i \in DOMAIN a : Carries(a[i], c) => a[i].number < h + 1
    <3> SUFFICES ASSUME NEW i \in DOMAIN a, Carries(a[i], c) PROVE a[i].number < h + 1
      OBVIOUS
    <3>1. a[i].number \in Nat
      BY ElementOfSeq, LenProperties, EventTypes, TransportAssumption
    <3>2. Holds(c, a, a[i].number)
      BY DEF Holds
    <3> QED BY <3>1, <3>2 DEF InTransit
  <2>2. \A i \in DOMAIN b : Carries(b[i], c) => b[i].number < h + 1
    <3> SUFFICES ASSUME NEW i \in DOMAIN b, Carries(b[i], c) PROVE b[i].number < h + 1
      OBVIOUS
    <3>1. b[i].number \in Nat
      BY ElementOfSeq, LenProperties, EventTypes, TransportAssumption
    <3>2. Holds(c, b, b[i].number)
      BY DEF Holds
    <3> QED BY <3>1, <3>2 DEF InTransit
  <2>3. InOrder(c, a, q)
    BY <1>1, <1>3, <2>1, <2>2 DEF InTransit, InOrder
  <2>4. \A n : Holds(c, q, n) <=> Holds(c, b, n) \/ n = h + 1
    BY <1>1, <1>3 DEF Holds
  <2>5. \A n \in Nat : (Holds(c, a, n) \/ Holds(c, q, n)) <=> (g < n /\ n <= h + 1)
    BY <2>4 DEF InTransit
  <2> QED BY <1>3, <2>3, <2>5 DEF InTransit, q
<1> QED BY <1>2, <1>3

\* The first event is taken off a queue nothing else is read before.
LEMMA TakeFirst ==
  ASSUME NEW a \in Seq(TransportEvents), NEW b \in Seq(TransportEvents), NEW c,
         NEW g \in Nat, NEW h \in Nat, InTransit(c, a, b, g, h), a # <<>>
  PROVE  /\ Carries(Head(a), c) => Head(a).number = g + 1 /\ g < h /\ InTransit(c, Tail(a), b, g + 1, h)
         /\ ~Carries(Head(a), c) => InTransit(c, Tail(a), b, g, h)
<1> DEFINE t == Tail(a)
           e == Head(a)
<1>1. /\ e = a[1] /\ 1 \in DOMAIN a /\ DOMAIN a = 1..Len(a) /\ Len(a) \in Nat
      /\ \A k \in DOMAIN t : k \in Nat /\ k > 0 /\ k + 1 \in DOMAIN a /\ t[k] = a[k + 1]
      /\ \A k \in DOMAIN a : k = 1 \/ (k - 1 \in DOMAIN t /\ t[k - 1] = a[k])
      /\ \A k \in DOMAIN a : a[k].number \in Nat
      /\ \A k \in DOMAIN b : b[k].number \in Nat
  BY TailOf, LenProperties, ElementOfSeq, EventTypes, TransportAssumption
<1> HIDE DEF t, e
<1>2. InOrder(c, t, b)
  <2>1. ASSUME NEW i \in DOMAIN t, NEW j \in DOMAIN t, i < j, Carries(t[i], c), Carries(t[j], c)
        PROVE  t[i].number < t[j].number
    <3>1. i + 1 < j + 1 /\ i + 1 \in DOMAIN a /\ j + 1 \in DOMAIN a /\ t[i] = a[i + 1] /\ t[j] = a[j + 1]
      BY <1>1, <2>1
    <3> QED BY <2>1, <3>1 DEF InTransit, InOrder
  <2>2. ASSUME NEW i \in DOMAIN t, NEW j \in DOMAIN b, Carries(t[i], c), Carries(b[j], c)
        PROVE  t[i].number < b[j].number
    BY <1>1, <2>2 DEF InTransit, InOrder
  <2> QED BY <2>1, <2>2 DEF InTransit, InOrder
<1>3. CASE ~Carries(e, c)
  <2>1. \A n : Holds(c, t, n) <=> Holds(c, a, n)
    <3>1. ASSUME NEW n, Holds(c, a, n) PROVE Holds(c, t, n)
      BY <1>1, <1>3, <3>1 DEF Holds
    <3>2. ASSUME NEW n, Holds(c, t, n) PROVE Holds(c, a, n)
      BY <1>1, <3>2 DEF Holds
    <3> QED BY <3>1, <3>2
  <2> QED BY <1>2, <1>3, <2>1 DEF InTransit, t, e
<1>4. CASE Carries(e, c)
  <2>1. \A k \in DOMAIN t : Carries(t[k], c) => e.number < t[k].number
    <3> SUFFICES ASSUME NEW k \in DOMAIN t, Carries(t[k], c) PROVE e.number < t[k].number
      OBVIOUS
    <3>1. 1 < k + 1 /\ k + 1 \in DOMAIN a /\ 1 \in DOMAIN a /\ t[k] = a[k + 1] /\ e = a[1]
      BY <1>1
    <3> QED BY <1>4, <3>1 DEF InTransit, InOrder
  <2>2. \A k \in DOMAIN b : Carries(b[k], c) => e.number < b[k].number
    BY <1>1, <1>4 DEF InTransit, InOrder
  <2>3. e.number \in Nat /\ g < e.number /\ e.number <= h
    <3>1. Holds(c, a, e.number) /\ e.number \in Nat
      BY <1>1, <1>4 DEF Holds
    <3> QED BY <3>1 DEF InTransit
  <2>4. \A n : Holds(c, a, n) <=> Holds(c, t, n) \/ n = e.number
    <3>1. ASSUME NEW n, Holds(c, a, n) PROVE Holds(c, t, n) \/ n = e.number
      BY <1>1, <3>1 DEF Holds
    <3>2. ASSUME NEW n, Holds(c, t, n) PROVE Holds(c, a, n)
      BY <1>1, <3>2 DEF Holds
    <3>3. Holds(c, a, e.number)
      BY <1>1, <1>4 DEF Holds
    <3> QED BY <3>1, <3>2, <3>3
  <2>5. \A n : (Holds(c, t, n) \/ Holds(c, b, n)) => e.number < n
    BY <2>1, <2>2 DEF Holds
  <2>6. e.number = g + 1
    <3>1. Holds(c, a, g + 1) \/ Holds(c, b, g + 1)
      BY <2>3 DEF InTransit
    <3> QED BY <2>3, <2>4, <2>5, <3>1
  <2>7. \A n \in Nat : (Holds(c, t, n) \/ Holds(c, b, n)) <=> (g + 1 < n /\ n <= h)
    <3> SUFFICES ASSUME NEW n \in Nat
                 PROVE  (Holds(c, t, n) \/ Holds(c, b, n)) <=> (g + 1 < n /\ n <= h)
      OBVIOUS
    <3>1. (Holds(c, t, n) \/ n = e.number \/ Holds(c, b, n)) <=> (g < n /\ n <= h)
      BY <2>4 DEF InTransit
    <3>2. (Holds(c, t, n) \/ Holds(c, b, n)) => g + 1 < n
      BY <2>5, <2>6
    <3> QED BY <2>6, <3>1, <3>2
  <2> QED BY <1>2, <1>4, <2>3, <2>6, <2>7 DEF InTransit, t, e
<1> QED BY <1>3, <1>4

\* With nothing before it, the second queue is the first.
LEMMA EmptyFirst ==
  ASSUME NEW c, NEW b, NEW g, NEW h
  PROVE  InTransit(c, <<>>, b, g, h) <=> InTransit(c, b, <<>>, g, h)
  BY DEF InTransit, InOrder, Holds

\* The negotiation keeps a frame it meets, and drops any other event.
LEMMA MoveFirst ==
  ASSUME NEW a \in Seq(TransportEvents), NEW b \in Seq(TransportEvents), NEW c,
         NEW g \in Nat, NEW h \in Nat, InTransit(c, a, b, g, h), b # <<>>
  PROVE  /\ InTransit(c, Append(a, Head(b)), Tail(b), g, h)
         /\ ~Carries(Head(b), c) => InTransit(c, a, Tail(b), g, h)
<1> DEFINE t == Tail(b)
           e == Head(b)
           p == Append(a, e)
<1>1. /\ e = b[1] /\ 1 \in DOMAIN b /\ DOMAIN b = 1..Len(b) /\ Len(b) \in Nat /\ e \in TransportEvents
      /\ \A k \in DOMAIN t : k \in Nat /\ k > 0 /\ k + 1 \in DOMAIN b /\ t[k] = b[k + 1]
      /\ \A k \in DOMAIN b : k = 1 \/ (k - 1 \in DOMAIN t /\ t[k - 1] = b[k])
  BY TailOf, LenProperties
<1>2. /\ \A k \in DOMAIN a : k \in DOMAIN p /\ p[k] = a[k] /\ k < Len(a) + 1 /\ k \in Nat
      /\ \A k \in DOMAIN p : (k \in DOMAIN a /\ p[k] = a[k]) \/ (k = Len(a) + 1 /\ p[k] = e)
      /\ Len(a) + 1 \in DOMAIN p /\ p[Len(a) + 1] = e /\ Len(a) \in Nat
  BY <1>1, AppendOf, LenProperties
<1> HIDE DEF t, e, p
<1>3. \A i, j \in DOMAIN t : i < j /\ Carries(t[i], c) /\ Carries(t[j], c) => t[i].number < t[j].number
  <2> SUFFICES ASSUME NEW i \in DOMAIN t, NEW j \in DOMAIN t, i < j, Carries(t[i], c), Carries(t[j], c)
               PROVE  t[i].number < t[j].number
    OBVIOUS
  <2>1. i + 1 < j + 1 /\ i + 1 \in DOMAIN b /\ j + 1 \in DOMAIN b /\ t[i] = b[i + 1] /\ t[j] = b[j + 1]
    BY <1>1
  <2> QED BY <2>1 DEF InTransit, InOrder
<1>4. \A i \in DOMAIN a, j \in DOMAIN t : Carries(a[i], c) /\ Carries(t[j], c) => a[i].number < t[j].number
  BY <1>1 DEF InTransit, InOrder
<1>5. \A j \in DOMAIN t : Carries(e, c) /\ Carries(t[j], c) => e.number < t[j].number
  <2> SUFFICES ASSUME NEW k \in DOMAIN t, Carries(e, c), Carries(t[k], c) PROVE e.number < t[k].number
    OBVIOUS
  <2>1. 1 < k + 1 /\ k + 1 \in DOMAIN b /\ 1 \in DOMAIN b /\ t[k] = b[k + 1] /\ e = b[1]
    BY <1>1
  <2> QED BY <2>1 DEF InTransit, InOrder
<1>6. \A i \in DOMAIN a : Carries(a[i], c) /\ Carries(e, c) => a[i].number < e.number
  BY <1>1 DEF InTransit, InOrder
<1>7. InTransit(c, p, t, g, h)
  <2>1. ASSUME NEW i \in DOMAIN p, NEW j \in DOMAIN p, i < j, Carries(p[i], c), Carries(p[j], c)
        PROVE  p[i].number < p[j].number
    <3>1. i \in DOMAIN a /\ p[i] = a[i]
      BY <1>2, <2>1
    <3>2. CASE j \in DOMAIN a
      BY <1>2, <2>1, <3>1, <3>2 DEF InTransit, InOrder
    <3>3. CASE p[j] = e
      BY <1>6, <2>1, <3>1, <3>3
    <3> QED BY <1>2, <3>2, <3>3
  <2>2. ASSUME NEW i \in DOMAIN p, NEW j \in DOMAIN t, Carries(p[i], c), Carries(t[j], c)
        PROVE  p[i].number < t[j].number
    BY <1>2, <1>4, <1>5, <2>2
  <2>3. InOrder(c, p, t)
    BY <1>3, <2>1, <2>2 DEF InOrder
  <2>4. ASSUME NEW n PROVE Holds(c, p, n) \/ Holds(c, t, n) <=> Holds(c, a, n) \/ Holds(c, b, n)
    <3>1. ASSUME Holds(c, a, n) PROVE Holds(c, p, n)
      BY <1>2, <3>1 DEF Holds
    <3>2. ASSUME Holds(c, b, n) PROVE Holds(c, p, n) \/ Holds(c, t, n)
      <4>1. PICK k \in DOMAIN b : Carries(b[k], c) /\ b[k].number = n
        BY <3>2 DEF Holds
      <4>2. CASE k = 1
        BY <1>1, <1>2, <4>1, <4>2 DEF Holds
      <4>3. CASE k # 1
        BY <1>1, <4>1, <4>3 DEF Holds
      <4> QED BY <4>2, <4>3
    <3>3. ASSUME Holds(c, p, n) PROVE Holds(c, a, n) \/ Holds(c, b, n)
      BY <1>1, <1>2, <3>3 DEF Holds
    <3>4. ASSUME Holds(c, t, n) PROVE Holds(c, b, n)
      BY <1>1, <3>4 DEF Holds
    <3> QED BY <3>1, <3>2, <3>3, <3>4
  <2> QED BY <2>3, <2>4 DEF InTransit
<1>8. CASE ~Carries(e, c)
  <2>1. InOrder(c, a, t)
    BY <1>3, <1>4 DEF InTransit, InOrder
  <2>2. ASSUME NEW n PROVE Holds(c, t, n) <=> Holds(c, b, n)
    BY <1>1, <1>8 DEF Holds
  <2> QED BY <1>7, <1>8, <2>1, <2>2 DEF InTransit, t, e, p
<1> QED BY <1>7, <1>8 DEF t, e, p

\* It holds at the start.
LEMMA InitTransportInv == TransportInit => TransportInv
<1> SUFFICES ASSUME TransportInit PROVE TransportInv
  OBVIOUS
<1> USE TransportAssumption DEF TransportInit
<1>1. TransportTypes
  BY DEF TransportTypes
<1>2. \A c \in Channels : stream[c] = <<>> /\ got[c] = <<>> /\ sentOn[c] = 0
  OBVIOUS
<1>3. \A c \in Reliable : c \in Channels
  BY DEF Channels
<1>4. \A c \in Reliable : StreamInOrder(c)
  BY <1>2, <1>3 DEF StreamInOrder
<1>5. ASSUME NEW c \in Reliable
      PROVE InTransit(c, ReadFirst, events, Len(got[c]), sentOn[c] - Len(stream[c]))
  <2>1. ReadFirst = <<>> /\ events = <<>> /\ Len(got[c]) = 0 /\ sentOn[c] - Len(stream[c]) = 0
    BY <1>2, <1>3 DEF ReadFirst
  <2> QED BY <2>1 DEF InTransit, InOrder, Holds
<1> QED BY <1>1, <1>2, <1>3, <1>4, <1>5 DEF TransportInv, ReliableInOrder, Channels, Reliable

\* Every step keeps it.
LEMMA NextTransportInv == TransportInv /\ [TransportNext]_transportVars => TransportInv'
<1> SUFFICES ASSUME TransportInv, [TransportNext]_transportVars PROVE TransportInv'
  OBVIOUS
<1> USE TransportAssumption DEF sctpVars, queueVars
<1>t. /\ TransportTypes
      /\ \A c \in Reliable : c \in Channels
      /\ \A c \in Channels : /\ stream[c] \in Seq(1..MaxSent) /\ Len(stream[c]) \in Nat
                             /\ got[c] \in Seq(1..MaxSent) /\ Len(got[c]) \in Nat
                             /\ sentOn[c] \in 0..MaxSent
      /\ ReadFirst \in Seq(TransportEvents) /\ events \in Seq(TransportEvents)
      /\ MaxSent \in Nat
  <2>1. \A c \in Channels : /\ stream[c] \in Seq(1..MaxSent)
                             /\ got[c] \in Seq(1..MaxSent)
                             /\ sentOn[c] \in 0..MaxSent
    BY DEF TransportInv, TransportTypes
  <2> QED BY <2>1, LenProperties DEF TransportInv, TransportTypes, ReadFirst, Channels
<1>g. ASSUME NEW c \in Reliable PROVE sentOn[c] - Len(stream[c]) \in Nat
  BY <1>t DEF TransportInv, StreamInOrder
\* An event that is not a frame is queued.
<1>1. ASSUME NEW e \in TransportEvents, e.kind # "frame", events' = Append(events, e),
             openChannels' \subseteq Channels, linkUp' \in BOOLEAN,
             UNCHANGED <<sentOn, stream, early, pending, reader, got>>
      PROVE  TransportInv'
  <2>1. TransportTypes'
    BY <1>t, <1>1, AppendOf DEF TransportTypes
  <2>2. ASSUME NEW c \in Reliable, reader # "gone"
        PROVE  InTransit(c, ReadFirst, events, Len(got[c]), sentOn[c] - Len(stream[c]))'
    <3>1. InTransit(c, ReadFirst, events, Len(got[c]), sentOn[c] - Len(stream[c])) /\ ~Carries(e, c)
      BY <1>1, <2>2 DEF TransportInv, Carries
    <3>2. InTransit(c, ReadFirst, events', Len(got[c]), sentOn[c] - Len(stream[c]))
      BY <1>t, <1>g, <1>1, <3>1, QueueGrows
    <3> QED BY <1>1, <3>2 DEF ReadFirst
  <2> QED BY <1>1, <2>1, <2>2 DEF TransportInv, StreamInOrder, ReliableInOrder
<1>2. ASSUME NEW c \in Channels, ChannelOpens(c) PROVE TransportInv'
  <2>1. OpenEvent(c) \in TransportEvents /\ OpenEvent(c).kind # "frame"
    BY DEF TransportEvents, OpenEvent
  <2>2. openChannels' \subseteq Channels /\ linkUp' \in BOOLEAN
    BY <1>t, <1>2 DEF ChannelOpens, TransportTypes
  <2> QED BY <1>1, <1>2, <2>1, <2>2 DEF ChannelOpens
<1>3. CASE ConnectionEnds
  <2>1. ClosedEvent \in TransportEvents /\ ClosedEvent.kind # "frame"
    BY DEF TransportEvents, ClosedEvent
  <2>2. openChannels' \subseteq Channels /\ linkUp' \in BOOLEAN
    BY <1>t, <1>3 DEF ConnectionEnds, TransportTypes
  <2> QED BY <1>1, <1>3, <2>1, <2>2 DEF ConnectionEnds
<1>4. ASSUME NEW c \in Channels, SendFrame(c) PROVE TransportInv'
  <2>0. /\ sentOn' = [sentOn EXCEPT ![c] = sentOn[c] + 1] /\ sentOn[c] < MaxSent
        /\ stream' = [stream EXCEPT ![c] = Append(stream[c], sentOn[c] + 1)]
        /\ UNCHANGED <<openChannels, linkUp, events, early, pending, reader, got>>
        /\ c = "input-k" => reader = "stream"
    BY <1>4 DEF SendFrame
  <2>1. /\ Append(stream[c], sentOn[c] + 1) \in Seq(1..MaxSent)
        /\ Len(Append(stream[c], sentOn[c] + 1)) = Len(stream[c]) + 1
        /\ \A k \in 1..(Len(stream[c]) + 1) : Append(stream[c], sentOn[c] + 1)[k] =
                IF k = Len(stream[c]) + 1 THEN sentOn[c] + 1 ELSE stream[c][k]
    <3>1. sentOn[c] + 1 \in 1..MaxSent
      BY <1>t, <2>0
    <3>2. stream[c] \in Seq(1..MaxSent)
      BY <1>t
    <3> QED BY <3>1, <3>2, AppendProperties, LenProperties
  <2>2. TransportTypes'
    BY <1>t, <2>0, <2>1 DEF TransportTypes
  <2>3. /\ sentOn'[c] = sentOn[c] + 1 /\ stream'[c] = Append(stream[c], sentOn[c] + 1)
        /\ \A d \in Channels : d # c => sentOn'[d] = sentOn[d] /\ stream'[d] = stream[d]
    BY <1>t, <2>0 DEF TransportTypes
  <2>4. ASSUME NEW d \in Reliable
        PROVE  StreamInOrder(d)' /\ sentOn'[d] - Len(stream'[d]) = sentOn[d] - Len(stream[d])
    <3>1. StreamInOrder(d) /\ d \in Channels
      BY <1>t DEF TransportInv
    <3>2. CASE d # c
      BY <2>3, <3>1, <3>2 DEF StreamInOrder
    <3>3. CASE d = c
      <4> DEFINE n == sentOn[c]
                 m == Len(stream[c])
      <4>1. n \in Nat /\ m \in Nat /\ m <= n /\ \A k \in 1..m : stream[c][k] = n - m + k
        BY <1>t, <3>1, <3>3, LenProperties DEF StreamInOrder
      <4>2. Len(stream'[c]) = m + 1 /\ DOMAIN stream'[c] = 1..(m + 1) /\ sentOn'[c] = n + 1
        BY <2>1, <2>3, LenProperties
      <4>3. \A k \in 1..(m + 1) : stream'[c][k] = IF k = m + 1 THEN n + 1 ELSE stream[c][k]
        BY <2>1, <2>3
      <4> HIDE DEF n, m
      <4>4. \A k \in 1..(m + 1) : stream'[c][k] = (n + 1) - (m + 1) + k
        BY <4>1, <4>3
      <4>5. m + 1 <= n + 1 /\ (n + 1) - (m + 1) = n - m
        BY <4>1
      <4> QED BY <3>3, <4>2, <4>4, <4>5 DEF StreamInOrder, n, m
    <3> QED BY <3>2, <3>3
  <2>5. reader' \in {"negotiation", "handshake"} => sentOn'["input-k"] = 0
    BY <2>0, <2>3 DEF TransportInv, Channels, Reliable
  <2> QED BY <2>0, <2>2, <2>4, <2>5 DEF TransportInv, ReadFirst, ReliableInOrder
\* What SCTP does to a stream.
<1>s. ASSUME NEW c \in Channels, NEW i \in DOMAIN stream[c],
             stream' = [stream EXCEPT ![c] = RemoveAt(stream[c], i)]
      PROVE  /\ stream' \in [Channels -> Seq(1..MaxSent)] /\ i \in 1..Len(stream[c])
             /\ stream'[c] = RemoveAt(stream[c], i)
             /\ Len(stream'[c]) = Len(stream[c]) - 1
             /\ \A k \in 1..(Len(stream[c]) - 1) :
                    stream'[c][k] = IF k < i THEN stream[c][k] ELSE stream[c][k + 1]
             /\ \A d \in Channels : d # c => stream'[d] = stream[d]
  <2>1. i \in 1..Len(stream[c])
    BY <1>t, LenProperties
  <2>2. /\ RemoveAt(stream[c], i) \in Seq(1..MaxSent)
        /\ Len(RemoveAt(stream[c], i)) = Len(stream[c]) - 1
        /\ \A k \in 1..(Len(stream[c]) - 1) :
              RemoveAt(stream[c], i)[k] = IF k < i THEN stream[c][k] ELSE stream[c][k + 1]
    BY <1>t, <2>1, RemoveAtOf
  <2> QED BY <1>t, <1>s, <2>1, <2>2 DEF TransportTypes
<1>5. ASSUME NEW c \in Channels, NEW i \in DOMAIN stream[c], LoseFrame(c, i) PROVE TransportInv'
  <2>1. /\ stream' \in [Channels -> Seq(1..MaxSent)] /\ c \notin Reliable
        /\ \A d \in Channels : d # c => stream'[d] = stream[d]
    BY <1>s, <1>5 DEF LoseFrame
  <2>2. TransportTypes' /\ UNCHANGED <<sentOn, events, early, pending, reader, got>>
    BY <1>t, <1>5, <2>1 DEF LoseFrame, TransportTypes
  <2>3. \A d \in Reliable : stream'[d] = stream[d]
    BY <1>t, <2>1
  <2> QED BY <2>2, <2>3 DEF TransportInv, StreamInOrder, ReliableInOrder, ReadFirst
<1>6. ASSUME NEW c \in Channels, NEW i \in Deliverable(c), OnMessage(c, i) PROVE TransportInv'
  <2> DEFINE e == FrameEvent(c, stream[c][i])
  <2>0. i \in DOMAIN stream[c] /\ (c \in Reliable => i = 1)
    BY DEF Deliverable
  <2>1. /\ stream' \in [Channels -> Seq(1..MaxSent)] /\ i \in 1..Len(stream[c])
        /\ stream'[c] = RemoveAt(stream[c], i)
        /\ Len(stream'[c]) = Len(stream[c]) - 1
        /\ \A k \in 1..(Len(stream[c]) - 1) :
               stream'[c][k] = IF k < i THEN stream[c][k] ELSE stream[c][k + 1]
        /\ \A d \in Channels : d # c => stream'[d] = stream[d]
    BY <1>s, <1>6, <2>0 DEF OnMessage
  <2>2. e \in TransportEvents /\ e.kind = "frame" /\ e.channel = c /\ e.number = stream[c][i]
    <3>1. stream[c][i] \in 1..MaxSent
      BY <1>t, <2>1, ElementOfSeq
    <3> QED BY <3>1 DEF FrameEvent, TransportEvents
  <2>3. events' = Append(events, e) /\ UNCHANGED <<sentOn, openChannels, linkUp, early, pending, reader, got>>
    BY <1>6 DEF OnMessage
  <2> HIDE DEF e
  <2>4. TransportTypes'
    BY <1>t, <2>1, <2>2, <2>3, AppendOf DEF TransportTypes
  <2>5. ASSUME NEW d \in Reliable
        PROVE  /\ StreamInOrder(d)'
               /\ reader # "gone" =>
                    InTransit(d, ReadFirst, events', Len(got[d]), sentOn[d] - Len(stream'[d]))
    <3>0. d \in Channels /\ StreamInOrder(d) /\ sentOn'[d] = sentOn[d]
      BY <1>t, <2>3 DEF TransportInv
    <3>1. CASE d # c
      <4>1. stream'[d] = stream[d] /\ ~Carries(e, d)
        BY <2>1, <2>2, <3>0, <3>1 DEF Carries
      <4>2. reader # "gone" => InTransit(d, ReadFirst, events, Len(got[d]), sentOn[d] - Len(stream[d]))
        BY DEF TransportInv
      <4>3. reader # "gone" => InTransit(d, ReadFirst, events', Len(got[d]), sentOn[d] - Len(stream[d]))
        BY <1>t, <1>g, <2>2, <2>3, <3>0, <4>1, <4>2, QueueGrows
      <4> QED BY <3>0, <4>1, <4>3 DEF StreamInOrder
    <3>2. CASE d = c
      <4> DEFINE n == sentOn[c]
                 m == Len(stream[c])
      <4>1. n \in Nat /\ m \in Nat /\ m > 0 /\ m <= n /\ i = 1
            /\ \A k \in 1..m : stream[c][k] = n - m + k
        BY <1>t, <2>0, <2>1, <3>0, <3>2, LenProperties DEF StreamInOrder
      <4>2. /\ Len(stream'[c]) = m - 1 /\ DOMAIN stream'[c] = 1..(m - 1)
            /\ \A k \in 1..(m - 1) : stream'[c][k] = stream[c][k + 1]
        <5>1. stream'[c] \in Seq(1..MaxSent)
          BY <2>1
        <5>2. \A k \in 1..(m - 1) : ~(k < i)
          BY <4>1
        <5> QED BY <2>1, <5>1, <5>2, LenProperties
      <4>3. Carries(e, c) /\ e.number = stream[c][1]
        BY <2>2, <4>1 DEF Carries
      <4> HIDE DEF n, m
      <4>4. stream[c][1] = n - m + 1 /\ n - (m - 1) = n - m + 1 /\ m - 1 <= n
        BY <4>1
      <4>5. ASSUME NEW k \in 1..(m - 1) PROVE stream'[c][k] = n - (m - 1) + k
        <5>1. k + 1 \in 1..m /\ n - m + (k + 1) = n - (m - 1) + k
          BY <4>1
        <5> QED BY <4>1, <4>2, <5>1
      <4>6. StreamInOrder(c)'
        BY <3>0, <3>2, <4>2, <4>4, <4>5 DEF StreamInOrder, n
      <4>7. reader # "gone" => InTransit(c, ReadFirst, events, Len(got[c]), n - m)
        BY <3>2 DEF TransportInv, n, m
      <4>8. n - m \in Nat /\ Len(got[c]) \in Nat
        BY <1>t, <4>1
      <4>9. reader # "gone" => InTransit(c, ReadFirst, events', Len(got[c]), n - m + 1)
        BY <1>t, <2>2, <2>3, <4>3, <4>4, <4>7, <4>8, QueueGrows
      <4> QED BY <3>2, <4>2, <4>4, <4>6, <4>9 DEF n
    <3> QED BY <3>1, <3>2
  <2> QED BY <2>3, <2>4, <2>5 DEF TransportInv, ReadFirst, ReliableInOrder
<1>7. CASE NegotiationReads
  <2> DEFINE e == Head(events)
  <2>1. /\ reader = "negotiation" /\ events # <<>> /\ events' = Tail(events)
        /\ early' = IF e.kind = "frame" THEN Append(early, e) ELSE early
        /\ reader' = IF e.kind = "closed" THEN "gone" ELSE "negotiation"
        /\ UNCHANGED <<sentOn, stream, openChannels, linkUp, pending, got>>
    BY <1>7 DEF NegotiationReads
  <2>2. e \in TransportEvents /\ Tail(events) \in Seq(TransportEvents) /\ early \in Seq(TransportEvents)
    BY <1>t, <2>1, TailOf DEF TransportTypes
  <2> HIDE DEF e
  <2>3. TransportTypes'
    BY <1>t, <2>1, <2>2, AppendOf DEF TransportTypes
  <2>4. ASSUME NEW c \in Reliable
        PROVE  InTransit(c, early', events', Len(got[c]), sentOn[c] - Len(stream[c]))
    <3>1. InTransit(c, early, events, Len(got[c]), sentOn[c] - Len(stream[c]))
      BY <2>1 DEF TransportInv, ReadFirst
    <3>2. /\ InTransit(c, Append(early, e), Tail(events), Len(got[c]), sentOn[c] - Len(stream[c]))
          /\ ~Carries(e, c) => InTransit(c, early, Tail(events), Len(got[c]), sentOn[c] - Len(stream[c]))
      BY <1>t, <1>g, <2>1, <2>2, <3>1, MoveFirst DEF e
    <3> QED BY <2>1, <3>2 DEF Carries
  <2> QED BY <2>1, <2>3, <2>4 DEF TransportInv, ReadFirst, StreamInOrder, ReliableInOrder
<1>8. CASE NegotiationEnds
  <2>1. /\ reader = "negotiation" /\ reader' = "handshake" /\ early' = <<>> /\ pending' = pending \o early
        /\ UNCHANGED <<sentOn, stream, openChannels, linkUp, events, got>>
    BY <1>8 DEF NegotiationEnds, PushBack
  <2>2. pending' = early
    BY <1>t, <2>1, ConcatEmptySeq DEF TransportInv, TransportTypes
  <2>3. TransportTypes'
    BY <1>t, <2>1, <2>2 DEF TransportTypes
  <2> QED BY <2>1, <2>2, <2>3 DEF TransportInv, ReadFirst, StreamInOrder, ReliableInOrder
\* The handshake or the stream loop takes an event.
<1>9. ASSUME reader \in {"handshake", "stream"}, TakeEvent
      PROVE  /\ NextEvent \in TransportEvents
             /\ pending' \in Seq(TransportEvents) /\ events' \in Seq(TransportEvents)
             /\ \A c \in Reliable :
                  /\ Carries(NextEvent, c) =>
                        /\ NextEvent.number = Len(got[c]) + 1
                        /\ InTransit(c, pending', events', Len(got[c]) + 1, sentOn[c] - Len(stream[c]))
                  /\ ~Carries(NextEvent, c) =>
                        InTransit(c, pending', events', Len(got[c]), sentOn[c] - Len(stream[c]))
  <2>0. pending \in Seq(TransportEvents) /\ events \in Seq(TransportEvents)
    BY <1>t DEF TransportTypes
  <2>1. ASSUME NEW c \in Reliable
        PROVE  /\ InTransit(c, pending, events, Len(got[c]), sentOn[c] - Len(stream[c]))
               /\ Len(got[c]) \in Nat /\ sentOn[c] - Len(stream[c]) \in Nat
    BY <1>t, <1>g, <1>9 DEF TransportInv, ReadFirst
  <2>2. CASE pending # <<>>
    <3>1. NextEvent = Head(pending) /\ pending' = Tail(pending) /\ events' = events
      BY <1>9, <2>2 DEF NextEvent, TakeEvent
    <3> QED BY <2>0, <2>1, <2>2, <3>1, TailOf, TakeFirst
  <2>3. CASE pending = <<>>
    <3>1. NextEvent = Head(events) /\ events # <<>> /\ events' = Tail(events) /\ pending' = <<>>
      BY <1>9, <2>3 DEF NextEvent, TakeEvent
    <3>2. Tail(events) \in Seq(TransportEvents) /\ Head(events) \in TransportEvents
      BY <2>0, <3>1, TailOf
    <3>3. ASSUME NEW c \in Reliable
          PROVE  /\ Carries(Head(events), c) =>
                        /\ Head(events).number = Len(got[c]) + 1
                        /\ InTransit(c, <<>>, Tail(events), Len(got[c]) + 1, sentOn[c] - Len(stream[c]))
                 /\ ~Carries(Head(events), c) =>
                        InTransit(c, <<>>, Tail(events), Len(got[c]), sentOn[c] - Len(stream[c]))
      <4>1. InTransit(c, events, <<>>, Len(got[c]), sentOn[c] - Len(stream[c]))
        BY <2>1, <2>3, EmptyFirst
      <4>2. <<>> \in Seq(TransportEvents)
        OBVIOUS
      <4>3. /\ Carries(Head(events), c) =>
                        /\ Head(events).number = Len(got[c]) + 1
                        /\ InTransit(c, Tail(events), <<>>, Len(got[c]) + 1, sentOn[c] - Len(stream[c]))
            /\ ~Carries(Head(events), c) =>
                        InTransit(c, Tail(events), <<>>, Len(got[c]), sentOn[c] - Len(stream[c]))
        BY <2>0, <2>1, <3>1, <4>1, <4>2, TakeFirst
      <4> QED BY <4>3, EmptyFirst
    <3> QED BY <3>1, <3>2, <3>3
  <2> QED BY <2>2, <2>3
\* ... and keeps it, if it is a frame it reads.
<1>10. ASSUME reader \in {"handshake", "stream"}, TakeEvent,
              reader' \in {reader, "stream", "gone"},
              \/ /\ NextEvent.kind = "frame"
                 /\ got' = [got EXCEPT ![NextEvent.channel] =
                                Append(got[NextEvent.channel], NextEvent.number)]
              \/ got' = got /\ \A c \in Reliable : ~Carries(NextEvent, c),
              UNCHANGED <<sctpVars, early>>
       PROVE  TransportInv'
  <2> DEFINE e == NextEvent
  <2>1. e \in TransportEvents /\ pending' \in Seq(TransportEvents) /\ events' \in Seq(TransportEvents)
    BY <1>9, <1>10
  <2>2. e.channel \in Channels /\ (e.kind = "frame" => e.number \in 1..MaxSent)
    BY <2>1, EventTypes
  <2> HIDE DEF e
  <2>3. ASSUME NEW c \in Channels
        PROVE  /\ ~Carries(e, c) => got'[c] = got[c]
               /\ Carries(e, c) /\ got' # got =>
                    /\ got'[c] \in Seq(1..MaxSent) /\ Len(got'[c]) = Len(got[c]) + 1
                    /\ DOMAIN got'[c] = 1..(Len(got[c]) + 1)
                    /\ \A k \in DOMAIN got'[c] :
                            got'[c][k] = IF k = Len(got[c]) + 1 THEN e.number ELSE got[c][k]
    <3>1. ~Carries(e, c) => got'[c] = got[c]
      BY <1>t, <1>10, <2>2 DEF Carries, TransportTypes, e
    <3>2. ASSUME Carries(e, c), got' # got PROVE got'[c] = Append(got[c], e.number) /\ e.number \in 1..MaxSent
      BY <1>t, <1>10, <2>2, <3>2 DEF Carries, TransportTypes, e
    <3>3. ASSUME Carries(e, c), got' # got
          PROVE  /\ got'[c] \in Seq(1..MaxSent) /\ Len(got'[c]) = Len(got[c]) + 1
                 /\ DOMAIN got'[c] = 1..(Len(got[c]) + 1)
                 /\ \A k \in DOMAIN got'[c] :
                        got'[c][k] = IF k = Len(got[c]) + 1 THEN e.number ELSE got[c][k]
      <4>1. /\ got[c] \in Seq(1..MaxSent) /\ e.number \in 1..MaxSent /\ got'[c] = Append(got[c], e.number)
            /\ Len(got[c]) \in Nat /\ DOMAIN got[c] = 1..Len(got[c])
        BY <1>t, <3>2, <3>3, LenProperties
      <4>2. /\ got'[c] \in Seq(1..MaxSent) /\ Len(got'[c]) = Len(got[c]) + 1
            /\ got'[c][Len(got[c]) + 1] = e.number
            /\ \A k \in 1..Len(got[c]) : got'[c][k] = got[c][k]
        BY <4>1, AppendProperties
      <4>3. DOMAIN got'[c] = 1..(Len(got[c]) + 1)
        BY <4>2, LenProperties
      <4> QED BY <4>1, <4>2, <4>3
    <3> QED BY <3>1, <3>3
  <2>4. got' \in [Channels -> Seq(1..MaxSent)]
    <3>1. CASE got' = got
      BY <1>t, <3>1 DEF TransportTypes
    <3>2. CASE got' # got
      <4>1. got' = [got EXCEPT ![e.channel] = got'[e.channel]]
        BY <1>t, <1>10, <2>2, <3>2 DEF e, TransportTypes
      <4>2. Carries(e, e.channel)
        BY <1>10, <3>2 DEF Carries, e
      <4> QED BY <1>t, <2>2, <2>3, <3>2, <4>1, <4>2 DEF TransportTypes
    <3> QED BY <3>1, <3>2
  <2>5. TransportTypes'
    BY <1>t, <1>10, <2>1, <2>4 DEF TransportTypes
  <2>6. ASSUME NEW c \in Reliable
        PROVE  /\ \A k \in DOMAIN got'[c] : got'[c][k] = k
               /\ InTransit(c, pending', events', Len(got'[c]), sentOn[c] - Len(stream[c]))
    <3>0. c \in Channels /\ Len(got[c]) \in Nat /\ DOMAIN got[c] = 1..Len(got[c])
          /\ \A k \in DOMAIN got[c] : got[c][k] = k
      BY <1>t, LenProperties DEF TransportInv, ReliableInOrder
    <3>1. CASE ~Carries(e, c)
      BY <1>9, <1>10, <2>3, <3>0, <3>1 DEF e
    <3>2. CASE Carries(e, c)
      <4>1. got' # got
        <5>1. e.kind = "frame" /\ got' = [got EXCEPT ![e.channel] = Append(got[e.channel], e.number)]
          BY <1>10, <3>2 DEF e
        <5>2. got'[c] = Append(got[c], e.number)
          BY <1>t, <3>0, <3>2, <5>1 DEF TransportTypes, Carries
        <5>3. Len(got'[c]) = Len(got[c]) + 1
          BY <1>t, <2>2, <3>0, <5>1, <5>2, AppendProperties
        <5> QED BY <3>0, <5>3
      <4>2. /\ e.number = Len(got[c]) + 1
            /\ InTransit(c, pending', events', Len(got[c]) + 1, sentOn[c] - Len(stream[c]))
        BY <1>9, <1>10, <3>2 DEF e
      <4>3. /\ Len(got'[c]) = Len(got[c]) + 1 /\ DOMAIN got'[c] = 1..(Len(got[c]) + 1)
            /\ \A k \in DOMAIN got'[c] :
                    got'[c][k] = IF k = Len(got[c]) + 1 THEN e.number ELSE got[c][k]
        BY <2>3, <3>0, <3>2, <4>1
      <4>4. ASSUME NEW k \in DOMAIN got'[c] PROVE got'[c][k] = k
        BY <3>0, <4>2, <4>3
      <4> QED BY <4>2, <4>3, <4>4
    <3> QED BY <3>1, <3>2
  <2>7. \A c \in Reliable : InTransit(c, ReadFirst, events, Len(got[c]), sentOn[c] - Len(stream[c]))'
    BY <1>10, <2>6 DEF ReadFirst
  <2> QED BY <1>10, <2>5, <2>6, <2>7 DEF TransportInv, StreamInOrder, ReliableInOrder
<1>11. CASE HandshakeReads
  <2> DEFINE e == NextEvent
  <2>1. reader = "handshake" /\ TakeEvent /\ reader' \in {reader, "stream", "gone"}
        /\ UNCHANGED <<sctpVars, early>>
    BY <1>11 DEF HandshakeReads
  <2>2. got' = IF e.kind = "frame" /\ e.channel = "control"
               THEN [got EXCEPT !["control"] = Append(got["control"], e.number)] ELSE got
    BY <1>11 DEF HandshakeReads
  <2>3. ~Carries(e, "input-k")
    <3>1. "input-k" \in Reliable /\ "input-k" \in Channels
      BY DEF Channels, Reliable
    <3>2. sentOn["input-k"] = 0 /\ sentOn["input-k"] - Len(stream["input-k"]) = 0
      BY <1>t, <1>g, <2>1, <3>1 DEF TransportInv
    <3>3. SUFFICES ASSUME Carries(e, "input-k") PROVE FALSE
      OBVIOUS
    <3>4. InTransit("input-k", pending', events', Len(got["input-k"]) + 1, 0)
      BY <1>9, <2>1, <3>1, <3>2, <3>3
    <3> QED BY <1>t, <3>1, <3>4 DEF InTransit
  <2>4. \/ /\ e.kind = "frame"
           /\ got' = [got EXCEPT ![e.channel] = Append(got[e.channel], e.number)]
        \/ got' = got /\ \A c \in Reliable : ~Carries(e, c)
    <3>1. CASE e.kind = "frame" /\ e.channel = "control"
      BY <2>2, <3>1
    <3>2. CASE ~(e.kind = "frame" /\ e.channel = "control")
      BY <2>2, <2>3, <3>2 DEF Carries, Reliable
    <3> QED BY <3>1, <3>2
  <2> QED BY <1>10, <2>1, <2>4
<1>12. CASE StreamReads
  <2> DEFINE e == NextEvent
  <2>1. reader = "stream" /\ TakeEvent /\ reader' \in {reader, "gone"} /\ UNCHANGED <<sctpVars, early>>
    BY <1>12 DEF StreamReads
  <2>2. got' = IF e.kind = "frame" THEN [got EXCEPT ![e.channel] = Append(got[e.channel], e.number)] ELSE got
    BY <1>12 DEF StreamReads
  <2>3. \/ /\ e.kind = "frame"
           /\ got' = [got EXCEPT ![e.channel] = Append(got[e.channel], e.number)]
        \/ got' = got /\ \A c \in Reliable : ~Carries(e, c)
    BY <2>2 DEF Carries
  <2> QED BY <1>10, <2>1, <2>3
<1>13. CASE UNCHANGED transportVars
  BY <1>13 DEF transportVars, TransportInv, TransportTypes, ReadFirst, StreamInOrder, ReliableInOrder
<1> QED BY <1>2, <1>3, <1>4, <1>5, <1>6, <1>7, <1>8, <1>11, <1>12, <1>13 DEF TransportNext

\* The frames of a reliable channel reach their readers in order and without a gap, over
\* both hand-overs, for any number of frames (Session::push_back_frames, next_event).
THEOREM ReliableChannelsStayInOrder == TransportSpec => []TransportIsSound
<1>1. TransportInv => TransportIsSound
  <2> SUFFICES ASSUME TransportInv PROVE TransportIsSound
    OBVIOUS
  <2>1. TransportTypes /\ ReliableInOrder
    BY DEF TransportInv
  <2>2. \A c \in Channels : Range(stream[c]) \cup Range(got[c]) \subseteq 1..MaxSent
    BY <2>1, RangeOfSeq DEF TransportTypes
  <2>3. Range(events) \cup Range(early) \cup Range(pending) \subseteq TransportEvents
    BY <2>1, RangeOfSeq DEF TransportTypes
  <2> QED BY <2>1, <2>2, <2>3 DEF TransportIsSound, TransportTypeOK, TransportTypes
<1> QED BY InitTransportInv, NextTransportInv, <1>1, PTL DEF TransportSpec

-----------------------------------------------------------------------------
(* The rate guard                                                          *)

\* How many seen the window that is open has let through.
Spent(w, limit) == IF w.count < limit THEN w.count ELSE limit

GuardTypes ==
    /\ guardNow \in Nat
    /\ windows \in [Classes -> [start : Nat, count : Nat]]
    /\ letThrough \in [Classes -> Seq(Nat)]

\* The last seen let through are those of the open window; all that came before are
\* older than it, and those with a limit's worth of seen between them and the window
\* are older by WINDOW.
OneWindow(w, limit, seen, now) ==
    /\ w.start <= now /\ Spent(w, limit) <= Len(seen)
    /\ \A i \in DOMAIN seen :
        /\ seen[i] <= now
        /\ seen[i] < w.start + WINDOW
        /\ i + Spent(w, limit) <= Len(seen) => seen[i] < w.start
        /\ i + limit + Spent(w, limit) <= Len(seen) => seen[i] + WINDOW <= w.start

GuardInv ==
    /\ GuardTypes
    /\ \A c \in Classes : OneWindow(windows[c], Limits[c], letThrough[c], guardNow)
    /\ AtMostTwiceTheLimit

\* The seen let through once another has asked.
LetIn(w, limit, seen, now) ==
    IF WithinBudget(w, limit, now) THEN Append(seen, now) ELSE seen

\* What one answer of Window::allow does to the window and to the seen let through.
LEMMA AllowKeepsWindow ==
  ASSUME NEW w \in [start : Nat, count : Nat], NEW limit \in Nat, NEW seen \in Seq(Nat),
         NEW now \in Nat, OneWindow(w, limit, seen, now)
  PROVE  LET next == LetIn(w, limit, seen, now) IN
         /\ Counted(w, limit, now) \in [start : Nat, count : Nat]
         /\ next \in Seq(Nat)
         /\ OneWindow(Counted(w, limit, now), limit, next, now)
         /\ \A i \in DOMAIN next : i + 2 * limit = Len(seen) + 1 /\ next # seen
                => next[i] + WINDOW <= now
<1> USE WindowAssumption
<1> DEFINE r == Roll(w, now)
           n == Counted(w, limit, now)
           next == LetIn(w, limit, seen, now)
<1>1. r \in [start : Nat, count : Nat] /\ n \in [start : Nat, count : Nat] /\ n.start = r.start
      /\ n.count = (IF r.count > limit THEN r.count ELSE r.count + 1)
  BY DEF Roll, Counted
<1>2. Len(seen) \in Nat /\ DOMAIN seen = 1..Len(seen) /\ \A i \in DOMAIN seen : seen[i] \in Nat
  BY LenProperties, ElementOfSeq
<1>3. OneWindow(r, limit, seen, now)
  <2>1. CASE now - w.start >= WINDOW
    <3>1. r = [start |-> now, count |-> 0]
      BY <2>1 DEF Roll
    <3>2. Spent(w, limit) \in 0..limit /\ Spent(r, limit) = 0 /\ w.start \in Nat
      BY <3>1 DEF Spent
    <3>3. ASSUME NEW i \in DOMAIN seen
          PROVE  /\ seen[i] <= now /\ seen[i] < now
                 /\ i + limit <= Len(seen) => seen[i] + WINDOW <= now
      <4> DEFINE e == seen[i]
                 sp == Spent(w, limit)
                 start == w.start
                 len == Len(seen)
      <4>1. /\ e \in Nat /\ sp \in 0..limit /\ start \in Nat /\ len \in Nat /\ i \in Nat
            /\ e <= now /\ e < start + WINDOW /\ (i + sp <= len => e < start)
            /\ start + WINDOW <= now
        BY <1>2, <2>1, <3>2 DEF OneWindow
      <4> HIDE DEF e, sp, start, len
      <4>2. e <= now /\ e < now /\ (i + limit <= len => e + WINDOW <= now)
        BY <4>1
      <4> QED BY <4>2 DEF e, len
    <3> QED BY <1>2, <3>1, <3>2, <3>3 DEF OneWindow
  <2>2. CASE ~(now - w.start >= WINDOW)
    BY <2>2 DEF Roll
  <2> QED BY <2>1, <2>2
<1>4. now < r.start + WINDOW
  BY DEF Roll
<1>s. n.start \in Nat /\ r.start \in Nat /\ r.count \in Nat /\ n.count \in Nat
  BY <1>1
<1> HIDE DEF r, n, next
<1>5. CASE r.count < limit
  <2>1. next = Append(seen, now)
    BY <1>5 DEF WithinBudget, LetIn, r, next
  <2>2. /\ next \in Seq(Nat) /\ Len(next) = Len(seen) + 1 /\ DOMAIN next = 1..(Len(seen) + 1)
        /\ \A i \in DOMAIN seen : next[i] = seen[i]
        /\ next[Len(seen) + 1] = now
    BY <1>2, <2>1, AppendOf, LenProperties
  <2>3. Spent(r, limit) = r.count /\ Spent(n, limit) = r.count + 1
    BY <1>1, <1>5 DEF Spent
  <2>4. ASSUME NEW i \in DOMAIN next
        PROVE  /\ next[i] <= now
               /\ next[i] < n.start + WINDOW
               /\ i + Spent(n, limit) <= Len(next) => next[i] < n.start
               /\ i + limit + Spent(n, limit) <= Len(next) => next[i] + WINDOW <= n.start
               /\ i + 2 * limit = Len(seen) + 1 => next[i] + WINDOW <= now
    <3>1. CASE i \in DOMAIN seen
      <4>1. /\ seen[i] <= now /\ seen[i] < r.start + WINDOW
            /\ i + r.count <= Len(seen) => seen[i] < r.start
            /\ i + limit + r.count <= Len(seen) => seen[i] + WINDOW <= r.start
            /\ r.start <= now
        BY <1>3, <2>3, <3>1 DEF OneWindow
      <4> DEFINE e == seen[i]
                 start == r.start
                 count == r.count
                 len == Len(seen)
      <4>2. /\ e \in Nat /\ count \in Nat /\ start \in Nat /\ len \in Nat /\ i \in Nat /\ i <= len
            /\ count < limit /\ next[i] = e /\ n.start = start /\ Len(next) = len + 1
            /\ Spent(n, limit) = count + 1
        BY <1>1, <1>2, <1>s, <1>5, <2>2, <2>3, <3>1
      <4>3. /\ e <= now /\ e < start + WINDOW /\ start <= now
            /\ i + count <= len => e < start
            /\ i + limit + count <= len => e + WINDOW <= start
        BY <4>1
      <4> HIDE DEF e, start, count, len
      <4>4. /\ e <= now /\ e < start + WINDOW
            /\ i + (count + 1) <= len + 1 => e < start
            /\ i + limit + (count + 1) <= len + 1 => e + WINDOW <= start
        BY <4>2, <4>3
      <4>5. i + 2 * limit = len + 1 => e + WINDOW <= now
        <5>1. 2 * limit = limit + limit /\ WINDOW \in Nat
          OBVIOUS
        <5>2. i + (limit + limit) = len + 1 => i + limit + count <= len
          BY <4>2
        <5> QED BY <4>2, <4>3, <5>1, <5>2
      <4> QED BY <4>2, <4>4, <4>5 DEF len
    <3>2. CASE i = Len(seen) + 1
      <4>1. next[i] = now /\ r.count < limit /\ r.start <= now
        BY <1>3, <1>5, <2>2, <3>2 DEF OneWindow
      <4>2. ~(i + Spent(n, limit) <= Len(next)) /\ ~(i + limit + Spent(n, limit) <= Len(next))
            /\ ~(i + 2 * limit = Len(seen) + 1)
        BY <1>2, <1>s, <2>2, <2>3, <3>2, <4>1
      <4> QED BY <1>1, <1>4, <4>1, <4>2
    <3> QED BY <1>2, <2>2, <3>1, <3>2
  <2>5. n.start <= now /\ Spent(n, limit) <= Len(next)
    BY <1>1, <1>2, <1>3, <2>2, <2>3 DEF OneWindow
  <2> QED BY <1>1, <2>2, <2>4, <2>5 DEF OneWindow, n, next
<1>6. CASE ~(r.count < limit)
  <2>1. next = seen
    BY <1>6 DEF WithinBudget, LetIn, r, next
  <2>2. Spent(r, limit) = limit /\ Spent(n, limit) = limit
    BY <1>1, <1>6 DEF Spent
  <2> QED BY <1>1, <1>2, <1>3, <2>1, <2>2 DEF OneWindow, n, next
<1> QED BY <1>5, <1>6

\* It holds at the start.
LEMMA InitGuardInv == GuardInit => GuardInv
<1> SUFFICES ASSUME GuardInit PROVE GuardInv
  OBVIOUS
<1> USE RateGuardAssumption DEF GuardInit
<1>1. GuardTypes
  BY DEF GuardTypes, EmptyWindow
<1>2. ASSUME NEW c \in Classes PROVE OneWindow(windows[c], Limits[c], letThrough[c], guardNow)
  <2>1. Limits[c] \in Nat /\ windows[c] = [start |-> 0, count |-> 0] /\ letThrough[c] = <<>>
    BY DEF EmptyWindow
  <2> QED BY <2>1 DEF OneWindow, Spent
<1> QED BY <1>1, <1>2 DEF GuardInv, AtMostTwiceTheLimit

\* Every step keeps it.
LEMMA NextGuardInv == GuardInv /\ [GuardNext]_guardVars => GuardInv'
<1> SUFFICES ASSUME GuardInv, [GuardNext]_guardVars PROVE GuardInv'
  OBVIOUS
<1> USE RateGuardAssumption, WindowAssumption DEF GuardInv
<1>1. CASE GuardTick
  <2>1. GuardTypes' /\ UNCHANGED <<windows, letThrough>> /\ guardNow' = guardNow + 1
    BY <1>1 DEF GuardTick, GuardTypes
  <2>2. ASSUME NEW c \in Classes
        PROVE  OneWindow(windows[c], Limits[c], letThrough[c], guardNow + 1)
    <3>1. windows[c] \in [start : Nat, count : Nat] /\ letThrough[c] \in Seq(Nat) /\ guardNow \in Nat
      BY DEF GuardTypes
    <3>2. \A i \in DOMAIN letThrough[c] : letThrough[c][i] \in Nat
      BY <3>1, ElementOfSeq, LenProperties
    <3> QED BY <3>1, <3>2 DEF OneWindow
  <2> QED BY <2>1, <2>2 DEF AtMostTwiceTheLimit
<1>2. ASSUME NEW c \in Classes, Allow(c) PROVE GuardInv'
  <2> DEFINE w == windows[c]
             seen == letThrough[c]
             next == letThrough'[c]
  <2>1. /\ w \in [start : Nat, count : Nat] /\ seen \in Seq(Nat) /\ guardNow \in Nat
        /\ Limits[c] \in Nat /\ guardNow' = guardNow
        /\ OneWindow(w, Limits[c], seen, guardNow)
    BY <1>2 DEF GuardTypes, Allow
  <2>2. /\ windows' = [windows EXCEPT ![c] = Counted(w, Limits[c], guardNow)]
        /\ letThrough' = [letThrough EXCEPT ![c] = next]
        /\ next = LetIn(w, Limits[c], seen, guardNow)
    BY <1>2 DEF Allow, GuardTypes, LetIn
  <2> HIDE DEF w, seen, next
  <2>3. /\ Counted(w, Limits[c], guardNow) \in [start : Nat, count : Nat]
        /\ next \in Seq(Nat)
        /\ OneWindow(Counted(w, Limits[c], guardNow), Limits[c], next, guardNow)
        /\ \A i \in DOMAIN next : i + 2 * Limits[c] = Len(seen) + 1 /\ next # seen
                => next[i] + WINDOW <= guardNow
    BY <2>1, <2>2, AllowKeepsWindow
  <2>4. GuardTypes'
    BY <2>1, <2>2, <2>3 DEF GuardTypes
  <2>5. \A d \in Classes : OneWindow(windows[d], Limits[d], letThrough[d], guardNow)'
    <3>1. \A d \in Classes : d # c => windows'[d] = windows[d] /\ letThrough'[d] = letThrough[d]
      BY <2>2 DEF GuardTypes
    <3>2. windows'[c] = Counted(w, Limits[c], guardNow) /\ letThrough'[c] = next
      BY <2>2 DEF GuardTypes, next
    <3> QED BY <2>1, <2>3, <3>1, <3>2
  <2>6. ASSUME NEW i \in DOMAIN next, NEW j \in DOMAIN next, j = i + 2 * Limits[c]
        PROVE  next[j] - next[i] >= WINDOW
    <3>1. CASE next = seen
      BY <2>6, <3>1 DEF AtMostTwiceTheLimit, seen
    <3>2. CASE next # seen
      <4>1. /\ next = Append(seen, guardNow)
            /\ \A k \in DOMAIN next : k \in DOMAIN seen \/ k = Len(seen) + 1
            /\ next[Len(seen) + 1] = guardNow
            /\ \A k \in DOMAIN seen : next[k] = seen[k]
            /\ DOMAIN seen = 1..Len(seen) /\ DOMAIN next = 1..(Len(seen) + 1)
            /\ Len(seen) \in Nat
        BY <2>1, <2>2, <3>2, AppendOf, LenProperties DEF LetIn
      <4>2. CASE j = Len(seen) + 1
        <5>1. next[i] \in Nat /\ next[i] + WINDOW <= guardNow
          BY <2>3, <2>6, <3>2, <4>2, ElementOfSeq, LenProperties
        <5> QED BY <2>1, <4>1, <4>2, <5>1
      <4>3. CASE j # Len(seen) + 1
        <5>1. j \in DOMAIN seen /\ i \in DOMAIN seen
          BY <2>1, <2>6, <4>1, <4>3
        <5>2. seen[j] - seen[i] >= WINDOW
          BY <2>6, <5>1 DEF AtMostTwiceTheLimit, seen
        <5> QED BY <4>1, <5>1, <5>2
      <4> QED BY <4>2, <4>3
    <3> QED BY <3>1, <3>2
  <2>7. AtMostTwiceTheLimit'
    <3>1. \A d \in Classes : d # c => letThrough'[d] = letThrough[d]
      BY <2>2 DEF GuardTypes
    <3> QED BY <2>6, <3>1 DEF AtMostTwiceTheLimit, next
  <2> QED BY <2>4, <2>5, <2>7
<1>3. CASE UNCHANGED guardVars
  BY <1>3 DEF guardVars, GuardTypes, AtMostTwiceTheLimit
<1> QED BY <1>1, <1>2, <1>3 DEF GuardNext

\* No stretch of WINDOW milliseconds lets through more than twice the limit, for any
\* classes, limits, window and sequence of seen (RateGuard::allow).
THEOREM GuardLetsThroughTwice == GuardSpec => []AtMostTwiceTheLimit
<1>1. GuardInv => AtMostTwiceTheLimit
  BY DEF GuardInv
<1> QED BY InitGuardInv, NextGuardInv, <1>1, PTL DEF GuardSpec

-----------------------------------------------------------------------------
(* The limiter of a signaling connection                                   *)

\* The messages the limiter has counted are the last ones, and came in its window.
LimiterInv ==
    /\ regNow \in Nat /\ limiter \in [start : Nat, count : Nat] /\ arrivals \in Seq(Nat)
    /\ limiter.start <= regNow /\ limiter.count <= Len(arrivals)
    /\ \A i \in DOMAIN arrivals : i > Len(arrivals) - limiter.count => arrivals[i] >= limiter.start
    /\ QuietClientStays

\* Every step keeps it.
LEMMA NextLimiterInv == LimiterInv /\ [RegNext]_regVars => LimiterInv'
<1> SUFFICES ASSUME LimiterInv, [RegNext]_regVars PROVE LimiterInv'
  OBVIOUS
<1> USE RegistrationAssumption
<1>1. ASSUME UNCHANGED <<limiter, arrivals, limited>>, regNow' \in {regNow, regNow + 1}
      PROVE  LimiterInv'
  BY <1>1 DEF LimiterInv, QuietClientStays
<1>2. CASE DialServer \/ ReadChallenge \/ ReadAck \/ ReceiveTask \/ SendTask \/ DropConnection
           \/ Acknowledge \/ Routes \/ RegTick
  BY <1>1, <1>2 DEF DialServer, ReadChallenge, ReadAck, ReceiveTask, SendTask, DropConnection,
                    Acknowledge, Routes, RegTick, serverVars
<1>3. CASE Turn /\ Head(toServer) = "close"
  BY <1>1, <1>3 DEF Turn
<1>4. CASE Turn /\ Head(toServer) # "close"
  <2>1. /\ limiter' = Rolled /\ arrivals' = Append(arrivals, regNow) /\ regNow' = regNow
        /\ limited' = ~Allows
    BY <1>4 DEF Turn
  <2>2. /\ regNow \in Nat /\ limiter \in [start : Nat, count : Nat] /\ arrivals \in Seq(Nat)
        /\ Len(arrivals) \in Nat /\ DOMAIN arrivals = 1..Len(arrivals)
        /\ \A i \in DOMAIN arrivals : arrivals[i] \in Nat
    BY LenProperties, ElementOfSeq DEF LimiterInv
  <2>3. /\ arrivals' \in Seq(Nat) /\ Len(arrivals') = Len(arrivals) + 1
        /\ DOMAIN arrivals' = 1..(Len(arrivals) + 1) /\ arrivals'[Len(arrivals) + 1] = regNow
        /\ \A i \in DOMAIN arrivals : arrivals'[i] = arrivals[i]
    BY <2>1, <2>2, AppendOf, LenProperties
  <2>4. /\ limiter' \in [start : Nat, count : Nat] /\ limiter'.start <= regNow
        /\ limiter'.count <= Len(arrivals')
        /\ \A i \in DOMAIN arrivals' : i > Len(arrivals') - limiter'.count => arrivals'[i] >= limiter'.start
        /\ regNow - limiter'.start <= RATE_WINDOW
    <3>1. CASE regNow - limiter.start > RATE_WINDOW
      <4>1. limiter' = [start |-> regNow, count |-> 1]
        BY <2>1, <3>1 DEF Rolled
      <4> QED BY <2>2, <2>3, <4>1
    <3>2. CASE ~(regNow - limiter.start > RATE_WINDOW)
      <4>1. limiter' = [start |-> limiter.start, count |-> limiter.count + 1]
        BY <2>1, <2>2, <3>2 DEF Rolled
      <4>2. /\ limiter.start \in Nat /\ limiter.count \in Nat /\ limiter.start <= regNow
            /\ limiter.count <= Len(arrivals)
            /\ \A i \in DOMAIN arrivals :
                    i > Len(arrivals) - limiter.count => arrivals[i] >= limiter.start
        BY DEF LimiterInv
      <4>3. ASSUME NEW i \in DOMAIN arrivals', i > Len(arrivals') - limiter'.count
            PROVE  arrivals'[i] >= limiter'.start
        <5>1. i \in 1..(Len(arrivals) + 1) /\ i > Len(arrivals) - limiter.count
          BY <2>2, <2>3, <4>1, <4>2, <4>3
        <5>2. limiter'.start = limiter.start
          BY <4>1
        <5> QED BY <2>2, <2>3, <4>2, <5>1, <5>2
      <4> QED BY <2>2, <2>3, <3>2, <4>1, <4>2, <4>3
    <3> QED BY <3>1, <3>2
  <2>5. ASSUME limited' PROVE \E i, j \in DOMAIN arrivals' :
            j = i + RATE_LIMIT /\ arrivals'[j] - arrivals'[i] <= RATE_WINDOW
    <3> DEFINE j == Len(arrivals) + 1
               i == j - RATE_LIMIT
    <3>0. limiter'.count \in Nat /\ limiter'.start \in Nat /\ RATE_LIMIT \in Nat /\ RATE_WINDOW \in Nat
      BY <2>4
    <3>1. limiter'.count > RATE_LIMIT
      <4>1. ~Allows
        BY <2>1, <2>5, Zenon
      <4> QED BY <2>1, <3>0, <4>1 DEF Allows
    <3>2. i \in DOMAIN arrivals' /\ j \in DOMAIN arrivals' /\ j = i + RATE_LIMIT
          /\ i > Len(arrivals') - limiter'.count
      <4> DEFINE len == Len(arrivals)
                 count == limiter'.count
      <4>1. /\ len \in Nat /\ count \in Nat /\ count <= len + 1 /\ Len(arrivals') = len + 1
            /\ DOMAIN arrivals' = 1..(len + 1)
        BY <2>2, <2>3, <2>4, <3>0
      <4>2. RATE_LIMIT < count
        BY <3>0, <3>1
      <4> HIDE DEF len, count
      <4>3. /\ (len + 1) - RATE_LIMIT \in 1..(len + 1) /\ len + 1 \in 1..(len + 1)
            /\ len + 1 = ((len + 1) - RATE_LIMIT) + RATE_LIMIT
            /\ (len + 1) - RATE_LIMIT > (len + 1) - count
        BY <3>0, <4>1, <4>2
      <4> QED BY <4>1, <4>3 DEF len, count
    <3>3. arrivals'[i] >= limiter'.start /\ arrivals'[j] = regNow /\ arrivals'[i] \in Nat
      BY <2>3, <2>4, <3>2, ElementOfSeq
    <3> HIDE DEF i, j
    <3>4. arrivals'[j] - arrivals'[i] <= RATE_WINDOW
      BY <2>2, <2>4, <3>0, <3>3
    <3> QED BY <3>2, <3>4
  <2> QED BY <2>1, <2>2, <2>3, <2>4, <2>5 DEF LimiterInv, QuietClientStays
<1>5. CASE UNCHANGED regVars
  BY <1>1, <1>5 DEF regVars
<1> QED BY <1>2, <1>3, <1>4, <1>5 DEF RegNext

\* A client is only ever closed by the limiter after more than RATE_LIMIT messages
\* within RATE_WINDOW, for any limit and window (RateLimiter::allow in ws::connection).
THEOREM QuietClientsStay == RegSpec => []QuietClientStays
<1>1. RegInit => LimiterInv
  BY DEF RegInit, LimiterInv, QuietClientStays
<1>2. LimiterInv => QuietClientStays
  BY DEF LimiterInv
<1> QED BY <1>1, <1>2, NextLimiterInv, PTL DEF RegSpec

-----------------------------------------------------------------------------
(* The call of a device                                                    *)

\* What a text that is no refusal reads as, and the texts themselves.
Ids == [1..DEVICE_ID_LEN -> Crockford]
IsText(text) == Len(text) \in Nat /\ DOMAIN text = 1..Len(text)

\* A character is one of the ways to write c exactly if it is read as c.
LEMMA GlyphIs ==
    ASSUME NEW c \in Crockford, NEW ch
    PROVE  ch \in Written(c) <=> Glyph(ch) = c
  BY DEF Crockford, Written, Glyph

\* The characters that are kept, each with the number of those up to it.
LEMMA KeptOf ==
    ASSUME NEW text, IsText(text)
    PROVE  /\ Cardinality(Places(text)) \in Nat
           /\ Ascending(Places(text)) \in [1..Cardinality(Places(text)) -> Places(text)]
           /\ \A i \in 1..Cardinality(Places(text)) : Rank(Places(text), Ascending(Places(text))[i]) = i
           /\ \A u \in Places(text) : \E i \in 1..Cardinality(Places(text)) : Ascending(Places(text))[i] = u
<1>1. DOMAIN text = 1..Len(text) /\ Len(text) \in Nat
  BY DEF IsText
<1>2. Places(text) \in SUBSET (1..Len(text)) /\ Places(text) \in SUBSET Int
  BY <1>1 DEF Places
<1>3. IsFiniteSet(Places(text))
  <2>1. Len(text) \in Int
    BY <1>1
  <2>2. IsFiniteSet(1..Len(text))
    BY <2>1, FS_Interval
  <2> QED BY <1>2, <2>2, FS_Subset
<1> QED BY <1>2, <1>3, AscendingOf

\* parse reads an identifier in a text exactly if the text is a way to write it.
LEMMA ParseOf ==
    ASSUME NEW text, IsText(text), NEW id \in Ids
    PROVE  /\ IsWriting(text, id) => Parse(text) = id
           /\ Parse(text) = id /\ id # Invalid => IsWriting(text, id)
<1> DEFINE P == Places(text)
           n == Cardinality(P)
           kept == Ascending(Places(text))
           out == [i \in DOMAIN kept |-> Glyph(text[kept[i]][1])]
<1>1. /\ n \in Nat /\ kept \in [1..n -> P] /\ \A i \in 1..n : Rank(P, kept[i]) = i
      /\ \A u \in P : \E i \in 1..n : kept[i] = u
  BY KeptOf
<1>2. Parse(text) = IF out \in Ids THEN out ELSE Invalid
  BY DEF Parse, Ids
<1>3. IsWriting(text, id) <=> n = DEVICE_ID_LEN /\ \A i \in P : text[i][1] \in Written(id[Rank(P, i)])
  <2>1. id \in Seq(Crockford) /\ Len(id) = DEVICE_ID_LEN
    <3>1. id \in [1..DEVICE_ID_LEN -> Crockford] /\ DEVICE_ID_LEN \in Nat
      BY DialingAssumption DEF Ids
    <3>2. id \in Seq(Crockford)
      BY <3>1, SeqDef
    <3> QED BY <3>1, <3>2, LenProperties
  <2> QED BY <2>1 DEF IsWriting, Rank
<1> HIDE DEF P, n, kept
<1>4. DOMAIN out = 1..n /\ \A i \in 1..n : out[i] = Glyph(text[kept[i]][1])
  BY <1>1
<1>5. \A k \in 1..DEVICE_ID_LEN : id[k] \in Crockford
  BY DEF Ids
<1>6. ASSUME n = DEVICE_ID_LEN, \A i \in P : text[i][1] \in Written(id[Rank(P, i)]) PROVE Parse(text) = id
  <2>1. ASSUME NEW k \in 1..n PROVE out[k] = id[k]
    <3>1. kept[k] \in P /\ Rank(P, kept[k]) = k
      BY <1>1
    <3>2. text[kept[k]][1] \in Written(id[k])
      BY <1>6, <3>1
    <3> QED BY <1>4, <1>5, <1>6, <3>2, GlyphIs
  <2>2. out = id
    <3>1. DOMAIN id = 1..n /\ id = [k \in 1..n |-> id[k]]
      BY <1>6 DEF Ids
    <3>2. out = [k \in 1..n |-> out[k]]
      BY <1>4
    <3> HIDE DEF out
    <3> QED BY <2>1, <3>1, <3>2
  <2> HIDE DEF out
  <2> QED BY <1>2, <2>2
<1>7. ASSUME Parse(text) = id, id # Invalid
      PROVE  n = DEVICE_ID_LEN /\ \A i \in P : text[i][1] \in Written(id[Rank(P, i)])
  <2>1. out = id
    <3> HIDE DEF out
    <3> QED BY <1>2, <1>7
  <2>2. 1..n = 1..DEVICE_ID_LEN
    <3>1. DOMAIN id = 1..DEVICE_ID_LEN
      BY DEF Ids
    <3> HIDE DEF out
    <3> QED BY <1>4, <2>1, <3>1
  <2>3. n = DEVICE_ID_LEN
    <3>1. DEVICE_ID_LEN \in Nat
      BY DialingAssumption
    <3>2. n \in Nat
      BY <1>1
    <3> HIDE DEF out
    <3> QED BY <2>2, <3>1, <3>2
  <2>4. ASSUME NEW i \in P PROVE text[i][1] \in Written(id[Rank(P, i)])
    <3>1. PICK k \in 1..n : kept[k] = i
      BY <1>1
    <3>2. Rank(P, i) = k /\ k \in 1..DEVICE_ID_LEN
      BY <1>1, <2>2, <3>1
    <3>3. Glyph(text[i][1]) = id[k]
      <4> HIDE DEF out
      <4> QED BY <1>4, <2>1, <3>1
    <3> QED BY <1>5, <3>2, <3>3, GlyphIs
  <2> QED BY <2>3, <2>4
<1> QED BY <1>3, <1>6, <1>7

\* What parse answers when it does not refuse is an identifier.
LEMMA ParseType ==
    ASSUME NEW text, Parse(text) # Invalid
    PROVE  Parse(text) \in Ids
  BY DEF Parse, Ids

\* A part of a text, and its length.
IsRun(x, n, A) == x \in Seq(A) /\ Len(x) = n /\ x \in [1..n -> A]

\* A letter of the alphabet separates nothing.
LEMMA LettersOnly ==
    \A x \in Crockford : x \notin Separators
  BY DEF Crockford, Separators

\* The form that is sent is one of the ways to write an identifier, so that parse reads
\* it as it was.
LEMMA GroupedOf ==
    ASSUME NEW id \in Ids
    PROVE  IsText(Grouped(id)) /\ Parse(Grouped(id)) = id
<1> DEFINE s == DEVICE_ID_LEN \div 3
           pair(x) == <<x, TRUE>>
           A == {pair(x) : x \in Crockford \cup {"-"}}
           g1 == [i \in 1..s |-> pair(id[(1 - 1) * s + i])]
           g2 == [i \in 1..s |-> pair(id[(2 - 1) * s + i])]
           g3 == [i \in 1..s |-> pair(id[(3 - 1) * s + i])]
           hyphen == <<pair("-")>>
           a == g1 \o hyphen
           b == a \o g2
           c == b \o hyphen
           t == c \o g3
<1>1. s \in Nat /\ DEVICE_ID_LEN = 3 * s
  BY DialingAssumption
<1>2. Grouped(id) = t
  BY DEF Grouped
<1>a. \A k \in 1..DEVICE_ID_LEN : id[k] \in Crockford
  BY DEF Ids
<1>3. \A k \in 1..DEVICE_ID_LEN : id[k] \in Crockford /\ id[k] \notin Separators
  BY <1>a, LettersOnly
<1>b. \A x \in Crockford \cup {"-"} : pair(x) \in A
  OBVIOUS
<1>f. \A x : pair(x)[1] = x
  OBVIOUS
<1> HIDE DEF pair
<1>5. IsRun(hyphen, 1, A) /\ hyphen[1] = pair("-")
  <2>1. pair("-") \in A
    BY <1>b
  <2> DEFINE e == pair("-")
  <2>2. hyphen = <<e>> /\ e \in A
    BY <2>1
  <2> HIDE DEF e, A, hyphen
  <2>3. hyphen \in Seq(A) /\ Len(hyphen) = 1 /\ hyphen[1] = e
    BY <2>2
  <2> QED BY <2>3, LenProperties DEF e, IsRun
<1>c. \A i \in 1..s : i \in 1..DEVICE_ID_LEN /\ s + i \in 1..DEVICE_ID_LEN /\ 2 * s + i \in 1..DEVICE_ID_LEN
  <2> HIDE DEF s
  <2> QED BY <1>1
<1>d. \A i \in 1..s : (1 - 1) * s + i = i /\ (2 - 1) * s + i = s + i /\ (3 - 1) * s + i = 2 * s + i
  <2> HIDE DEF s
  <2> QED BY <1>1
<1> HIDE DEF hyphen, A, s
<1>4. /\ g1 \in [1..s -> A] /\ \A i \in 1..s : g1[i] = pair(id[i])
      /\ g2 \in [1..s -> A] /\ \A i \in 1..s : g2[i] = pair(id[s + i])
      /\ g3 \in [1..s -> A] /\ \A i \in 1..s : g3[i] = pair(id[2 * s + i])
  <2>1. \A i \in 1..s : pair(id[i]) \in A /\ pair(id[s + i]) \in A /\ pair(id[2 * s + i]) \in A
    BY <1>3, <1>b, <1>c
  <2>2. g1 = [i \in 1..s |-> pair(id[i])]
    BY <1>d
  <2>3. g2 = [i \in 1..s |-> pair(id[s + i])]
    BY <1>d
  <2>4. g3 = [i \in 1..s |-> pair(id[2 * s + i])]
    BY <1>d
  <2> HIDE DEF g1, g2, g3
  <2>5. g1 \in [1..s -> A] /\ \A i \in 1..s : g1[i] = pair(id[i])
    BY <2>1, <2>2
  <2>6. g2 \in [1..s -> A] /\ \A i \in 1..s : g2[i] = pair(id[s + i])
    BY <2>1, <2>3
  <2>7. g3 \in [1..s -> A] /\ \A i \in 1..s : g3[i] = pair(id[2 * s + i])
    BY <2>1, <2>4
  <2> QED BY <2>5, <2>6, <2>7
<1> HIDE DEF g1, g2, g3
<1>g. IsRun(g1, s, A) /\ IsRun(g2, s, A) /\ IsRun(g3, s, A)
  <2>1. g1 \in Seq(A) /\ g2 \in Seq(A) /\ g3 \in Seq(A)
    BY <1>1, <1>4, SeqDef
  <2> QED BY <1>1, <1>4, <2>1, LenProperties DEF IsRun
<1>e. s \in Nat /\ 1 \in Nat /\ s + 1 \in Nat /\ 2 * s + 1 \in Nat /\ 2 * s + 2 \in Nat
      /\ (s + 1) + s = 2 * s + 1 /\ (2 * s + 1) + 1 = 2 * s + 2 /\ (2 * s + 2) + s = 3 * s + 2 /\ 1 \in 1..1
  BY <1>1
<1>6. /\ IsRun(a, s + 1, A)
      /\ \A k \in 1..(s) : a[k] = g1[k]
      /\ \A k \in 1..1 : a[(s) + k] = hyphen[k]
  <2>1. g1 \in Seq(A) /\ hyphen \in Seq(A) /\ Len(g1) = s /\ Len(hyphen) = 1
    BY <1>g, <1>5 DEF IsRun
  <2>2. /\ a \in Seq(A) /\ Len(a) = Len(g1) + Len(hyphen)
        /\ \A k \in 1..Len(g1) : a[k] = g1[k]
        /\ \A k \in 1..Len(hyphen) : a[Len(g1) + k] = hyphen[k]
    <3>1. g1 \in Seq(A) /\ hyphen \in Seq(A)
      BY <2>1
    <3> QED BY <3>1, JoinOf
  <2> HIDE DEF a
  <2>3. Len(a) = s + 1
    BY <1>1, <2>1, <2>2
  <2>4. a \in [1..(s + 1) -> A]
    BY <2>2, <2>3, LenProperties, ElementOfSeq
  <2>5. \A k \in 1..(s) : a[k] = g1[k]
    BY <2>1, <2>2
  <2>6. \A k \in 1..1 : a[(s) + k] = hyphen[k]
    BY <2>1, <2>2
  <2> QED BY <2>2, <2>3, <2>4, <2>5, <2>6 DEF IsRun
<1> HIDE DEF a
<1>7. /\ IsRun(b, 2 * s + 1, A)
      /\ \A k \in 1..(s + 1) : b[k] = a[k]
      /\ \A k \in 1..s : b[(s + 1) + k] = g2[k]
  <2>1. a \in Seq(A) /\ g2 \in Seq(A) /\ Len(a) = s + 1 /\ Len(g2) = s
    BY <1>6, <1>g DEF IsRun
  <2>2. /\ b \in Seq(A) /\ Len(b) = Len(a) + Len(g2)
        /\ \A k \in 1..Len(a) : b[k] = a[k]
        /\ \A k \in 1..Len(g2) : b[Len(a) + k] = g2[k]
    <3>1. a \in Seq(A) /\ g2 \in Seq(A)
      BY <2>1
    <3> QED BY <3>1, JoinOf
  <2> HIDE DEF b
  <2>3. Len(b) = 2 * s + 1
    BY <1>1, <2>1, <2>2
  <2>4. b \in [1..(2 * s + 1) -> A]
    BY <2>2, <2>3, LenProperties, ElementOfSeq
  <2>5. \A k \in 1..(s + 1) : b[k] = a[k]
    BY <2>1, <2>2
  <2>6. \A k \in 1..s : b[(s + 1) + k] = g2[k]
    BY <2>1, <2>2
  <2> QED BY <2>2, <2>3, <2>4, <2>5, <2>6 DEF IsRun
<1> HIDE DEF b
<1>8. /\ IsRun(c, 2 * s + 2, A)
      /\ \A k \in 1..(2 * s + 1) : c[k] = b[k]
      /\ \A k \in 1..1 : c[(2 * s + 1) + k] = hyphen[k]
  <2>1. b \in Seq(A) /\ hyphen \in Seq(A) /\ Len(b) = 2 * s + 1 /\ Len(hyphen) = 1
    BY <1>7, <1>5 DEF IsRun
  <2>2. /\ c \in Seq(A) /\ Len(c) = Len(b) + Len(hyphen)
        /\ \A k \in 1..Len(b) : c[k] = b[k]
        /\ \A k \in 1..Len(hyphen) : c[Len(b) + k] = hyphen[k]
    <3>1. b \in Seq(A) /\ hyphen \in Seq(A)
      BY <2>1
    <3> QED BY <3>1, JoinOf
  <2> HIDE DEF c
  <2>3. Len(c) = 2 * s + 2
    BY <1>1, <2>1, <2>2
  <2>4. c \in [1..(2 * s + 2) -> A]
    BY <2>2, <2>3, LenProperties, ElementOfSeq
  <2>5. \A k \in 1..(2 * s + 1) : c[k] = b[k]
    BY <2>1, <2>2
  <2>6. \A k \in 1..1 : c[(2 * s + 1) + k] = hyphen[k]
    BY <2>1, <2>2
  <2> QED BY <2>2, <2>3, <2>4, <2>5, <2>6 DEF IsRun
<1> HIDE DEF c
<1>9. /\ IsRun(t, 3 * s + 2, A)
      /\ \A k \in 1..(2 * s + 2) : t[k] = c[k]
      /\ \A k \in 1..s : t[(2 * s + 2) + k] = g3[k]
  <2>1. c \in Seq(A) /\ g3 \in Seq(A) /\ Len(c) = 2 * s + 2 /\ Len(g3) = s
    BY <1>8, <1>g DEF IsRun
  <2>2. /\ t \in Seq(A) /\ Len(t) = Len(c) + Len(g3)
        /\ \A k \in 1..Len(c) : t[k] = c[k]
        /\ \A k \in 1..Len(g3) : t[Len(c) + k] = g3[k]
    <3>1. c \in Seq(A) /\ g3 \in Seq(A)
      BY <2>1
    <3> QED BY <3>1, JoinOf
  <2> HIDE DEF t
  <2>3. Len(t) = 3 * s + 2
    BY <1>1, <2>1, <2>2
  <2>4. t \in [1..(3 * s + 2) -> A]
    BY <2>2, <2>3, LenProperties, ElementOfSeq
  <2>5. \A k \in 1..(2 * s + 2) : t[k] = c[k]
    BY <2>1, <2>2
  <2>6. \A k \in 1..s : t[(2 * s + 2) + k] = g3[k]
    BY <2>1, <2>2
  <2> QED BY <2>2, <2>3, <2>4, <2>5, <2>6 DEF IsRun
<1> HIDE DEF t
<1>10. \A k \in 1..s : t[k] = pair(id[k]) /\ k \in 1..DEVICE_ID_LEN
  <2> SUFFICES ASSUME NEW k \in 1..s PROVE t[k] = pair(id[k]) /\ k \in 1..DEVICE_ID_LEN
    OBVIOUS
  <2>1. k \in 1..(s + 1) /\ k \in 1..(2 * s + 1) /\ k \in 1..(2 * s + 2)
    BY <1>1
  <2>2. t[k] = g1[k]
    BY <1>6, <1>7, <1>8, <1>9, <2>1
  <2> QED BY <1>4, <1>c, <2>2
<1>11. t[s + 1] = pair("-") /\ t[2 * s + 2] = pair("-")
  <2>1. s + 1 \in 1..(s + 1) /\ s + 1 \in 1..(2 * s + 1) /\ s + 1 \in 1..(2 * s + 2) /\ 2 * s + 2 \in 1..(2 * s + 2)
    BY <1>1
  <2>2. t[s + 1] = hyphen[1]
    BY <1>6, <1>7, <1>8, <1>9, <1>e, <2>1
  <2>3. c[(2 * s + 1) + 1] = hyphen[1]
    BY <1>8, <1>e
  <2>4. t[2 * s + 2] = hyphen[1]
    BY <1>9, <1>e, <2>1, <2>3
  <2> QED BY <1>5, <2>2, <2>4
<1>12. \A k \in 1..s : t[s + 1 + k] = pair(id[s + k]) /\ s + k \in 1..DEVICE_ID_LEN
  <2> SUFFICES ASSUME NEW k \in 1..s PROVE t[s + 1 + k] = pair(id[s + k]) /\ s + k \in 1..DEVICE_ID_LEN
    OBVIOUS
  <2>1. s + 1 + k \in 1..(2 * s + 1) /\ s + 1 + k \in 1..(2 * s + 2) /\ s + 1 + k = (s + 1) + k
    BY <1>1
  <2> QED BY <1>4, <1>7, <1>8, <1>9, <1>c, <2>1
<1>13. \A k \in 1..s : t[2 * s + 2 + k] = pair(id[2 * s + k]) /\ 2 * s + k \in 1..DEVICE_ID_LEN
  BY <1>4, <1>9, <1>c
<1> DEFINE P == Places(t)
<1>14. P = ((1..(3 * s + 2)) \ {s + 1}) \ {2 * s + 2}
  <2>1. DOMAIN t = 1..(3 * s + 2)
    BY <1>9 DEF IsRun
  <2>2. "-" \in Separators
    BY DEF Separators
  <2>3. \A i \in 1..(3 * s + 2) : i # s + 1 /\ i # 2 * s + 2 => t[i][1] \notin Separators
    <3> SUFFICES ASSUME NEW i \in 1..(3 * s + 2), i # s + 1, i # 2 * s + 2 PROVE t[i][1] \notin Separators
      OBVIOUS
    <3>1. CASE i \in 1..s
      BY <1>3, <1>10, <1>f, <3>1
    <3>2. CASE \E k \in 1..s : i = s + 1 + k
      BY <1>3, <1>12, <1>f, <3>2
    <3>3. CASE \E k \in 1..s : i = 2 * s + 2 + k
      BY <1>3, <1>13, <1>f, <3>3
    <3>4. i \in 1..s \/ i - (s + 1) \in 1..s \/ i - (2 * s + 2) \in 1..s
      BY <1>1
    <3>5. i = s + 1 + (i - (s + 1)) /\ i = 2 * s + 2 + (i - (2 * s + 2))
      BY <1>1
    <3> QED BY <3>1, <3>2, <3>3, <3>4, <3>5
  <2> QED BY <1>11, <1>f, <2>1, <2>2, <2>3 DEF Places
<1> HIDE DEF P
<1>15. \A i \in P : i \in 1..(3 * s + 2) /\ {j \in P : j <= i} = ((1..i) \ {s + 1}) \ {2 * s + 2}
  BY <1>1, <1>14
<1>16. \A m \in Nat : IsFiniteSet(1..m) /\ Cardinality(1..m) = m
  BY FromOne
<1>17. ASSUME NEW m \in 0..(3 * s + 2)
       PROVE  /\ m <= s => Cardinality(((1..m) \ {s + 1}) \ {2 * s + 2}) = m
              /\ m \in (s + 1)..(2 * s + 1) => Cardinality(((1..m) \ {s + 1}) \ {2 * s + 2}) = m - 1
              /\ m >= 2 * s + 2 => Cardinality(((1..m) \ {s + 1}) \ {2 * s + 2}) = m - 2
  <2> DEFINE I == 1..m
             J == I \ {s + 1}
             K == J \ {2 * s + 2}
  <2>1. m \in Nat /\ IsFiniteSet(I) /\ Cardinality(I) = m
    BY <1>1, <1>16
  <2>2. m <= s => K = I
    BY <1>1
  <2>3. m \in (s + 1)..(2 * s + 1) => K = J /\ s + 1 \in I
    BY <1>1
  <2>4. m >= 2 * s + 2 => s + 1 \in I /\ 2 * s + 2 \in J
    BY <1>1
  <2> HIDE DEF I
  <2>5. s + 1 \in I => IsFiniteSet(J) /\ Cardinality(J) = m - 1
    BY <2>1, FS_RemoveElement
  <2> HIDE DEF J
  <2>6. s + 1 \in I /\ 2 * s + 2 \in J => Cardinality(K) = (m - 1) - 1
    BY <2>5, FS_RemoveElement
  <2>7. (m - 1) - 1 = m - 2
    BY <2>1
  <2> HIDE DEF K
  <2> QED BY <1>1, <2>1, <2>2, <2>3, <2>4, <2>5, <2>6, <2>7 DEF I, J, K
<1>18. Cardinality(P) = DEVICE_ID_LEN
  <2>1. 3 * s + 2 \in 0..(3 * s + 2) /\ 3 * s + 2 >= 2 * s + 2 /\ (3 * s + 2) - 2 = DEVICE_ID_LEN
    BY <1>1
  <2> QED BY <1>14, <1>17, <2>1
<1>19. ASSUME NEW i \in P PROVE t[i][1] = id[Rank(P, i)] /\ Rank(P, i) \in 1..DEVICE_ID_LEN
  <2> DEFINE r == Cardinality(((1..i) \ {s + 1}) \ {2 * s + 2})
  <2>1. i \in 1..(3 * s + 2) /\ i \in 0..(3 * s + 2) /\ i # s + 1 /\ i # 2 * s + 2 /\ Rank(P, i) = r
    BY <1>1, <1>14, <1>15 DEF Rank
  <2>2. /\ i <= s => r = i
        /\ i \in (s + 1)..(2 * s + 1) => r = i - 1
        /\ i >= 2 * s + 2 => r = i - 2
    BY <1>17, <2>1
  <2> HIDE DEF r
  <2>3. CASE i \in 1..s
    <3>1. r = i
      BY <1>1, <2>2, <2>3
    <3> QED BY <1>10, <1>f, <2>1, <2>3, <3>1
  <2>4. CASE i - (s + 1) \in 1..s
    <3> DEFINE k == i - (s + 1)
    <3>1. k \in 1..s /\ i = s + 1 + k /\ r = s + k
      BY <1>1, <2>1, <2>2, <2>4
    <3> HIDE DEF k
    <3> QED BY <1>12, <1>f, <2>1, <3>1
  <2>5. CASE i - (2 * s + 2) \in 1..s
    <3> DEFINE k == i - (2 * s + 2)
    <3>1. k \in 1..s /\ i = 2 * s + 2 + k /\ r = 2 * s + k
      BY <1>1, <2>1, <2>2, <2>5
    <3> HIDE DEF k
    <3> QED BY <1>13, <1>f, <2>1, <3>1
  <2>6. i \in 1..s \/ i - (s + 1) \in 1..s \/ i - (2 * s + 2) \in 1..s
    BY <1>1, <2>1
  <2> QED BY <2>3, <2>4, <2>5, <2>6
<1>20. IsWriting(t, id)
  <2>1. Len(id) = DEVICE_ID_LEN
    <3>1. id \in [1..DEVICE_ID_LEN -> Crockford] /\ DEVICE_ID_LEN \in Nat
      BY DialingAssumption DEF Ids
    <3>2. id \in Seq(Crockford)
      BY <3>1, SeqDef
    <3> QED BY <3>1, <3>2, LenProperties
  <2>2. \A i \in P : t[i][1] \in Written(id[Rank(P, i)])
    BY <1>19 DEF Written
  <2> QED BY <1>18, <2>1, <2>2 DEF IsWriting, Rank, P
<1>21. IsText(t)
  BY <1>9, LenProperties DEF IsText, IsRun
<1> QED BY <1>2, <1>20, <1>21, ParseOf

-----------------------------------------------------------------------------
\* What the server knows: its points of presence, and round trips that are numbers.
ServerKnows ==
    /\ fleet \in Fleets
    /\ DOMAIN probes = DeviceIds
    /\ \A d \in DeviceIds : \A pop \in DOMAIN probes[d] : probes[d][pop] \in Nat

\* The order of rank_pops for a pair, as a relation.
AheadOf(c, h) == {e \in ToSet(fleet) \X ToSet(fleet) : Ahead(c, h, e[1], e[2])}

\* Score and then code leave no two PoPs in the same place.
LEMMA AheadIsOrder ==
    ASSUME ServerKnows, NEW c \in DeviceIds, NEW h \in DeviceIds
    PROVE  /\ StrictOrder(AheadOf(c, h), ToSet(fleet))
           /\ \A p, q \in ToSet(fleet) : <<p, q>> \in AheadOf(c, h) <=> Ahead(c, h, p, q)
           /\ IsFiniteSet(ToSet(fleet)) /\ Cardinality(ToSet(fleet)) = Len(fleet)
           /\ Len(fleet) \in Nat /\ DOMAIN fleet = 1..Len(fleet)
<1> DEFINE S == ToSet(fleet)
<1>1. fleet \in Seq(Nat) /\ IsInjective(fleet)
  BY DialingAssumption DEF ServerKnows
<1>2. Len(fleet) \in Nat /\ DOMAIN fleet = 1..Len(fleet) /\ \A i \in 1..Len(fleet) : fleet[i] \in Nat
  BY <1>1, LenProperties, ElementOfSeq
<1>3. \A p \in S : p \in Nat
  BY <1>2 DEF ToSet
<1>4. IsFiniteSet(S) /\ Cardinality(S) = Len(fleet)
  <2>1. fleet \in [1..Len(fleet) -> S]
    BY <1>1, <1>2 DEF ToSet
  <2>2. fleet \in Bijection(1..Len(fleet), S)
    <3>1. fleet \in Injection(1..Len(fleet), S)
      BY <1>1, <1>2, <2>1 DEF Injection, IsInjective
    <3>2. fleet \in Surjection(1..Len(fleet), S)
      BY <1>2, <2>1 DEF Surjection, ToSet
    <3> QED BY <3>1, <3>2 DEF Bijection
  <2>4. IsFiniteSet(1..Len(fleet)) /\ Cardinality(1..Len(fleet)) = Len(fleet)
    BY <1>2, FromOne
  <2>5. ExistsBijection(1..Len(fleet), S)
    BY <2>2 DEF ExistsBijection
  <2> HIDE DEF S
  <2>6. IsFiniteSet(S) /\ Cardinality(S) = Cardinality(1..Len(fleet))
    BY <2>4, <2>5, FS_Bijection
  <2> QED BY <2>4, <2>6
<1>5. \A p \in S : Score(c, h, p) \in Nat
  <2> SUFFICES ASSUME NEW p \in S PROVE Score(c, h, p) \in Nat
    OBVIOUS
  <2>1. Rtt(c, p) \in Nat /\ Rtt(h, p) \in Nat
    BY DialingAssumption DEF Rtt, ServerKnows
  <2>2. U32_MAX \in Nat
    BY DialingAssumption
  <2> QED BY <2>1, <2>2 DEF Score
<1>6. \A p, q \in S : <<p, q>> \in AheadOf(c, h) <=> Ahead(c, h, p, q)
  BY DEF AheadOf
<1> HIDE DEF S
<1>7. StrictOrder(AheadOf(c, h), S)
  <2>1. \A p \in S : ~Ahead(c, h, p, p)
    BY <1>3, <1>5 DEF Ahead
  <2>2. \A p, q \in S : p = q \/ Ahead(c, h, p, q) \/ Ahead(c, h, q, p)
    BY <1>3, <1>5 DEF Ahead
  <2>3. \A p, q, r \in S : Ahead(c, h, p, q) /\ Ahead(c, h, q, r) => Ahead(c, h, p, r)
    BY <1>3, <1>5 DEF Ahead
  <2> QED BY <1>6, <2>1, <2>2, <2>3 DEF StrictOrder
<1> QED BY <1>2, <1>4, <1>6, <1>7 DEF S

\* rank_pops lists every PoP, and before the one at i are exactly i - 1 others.
LEMMA RankedOf ==
    ASSUME ServerKnows, NEW c \in DeviceIds, NEW h \in DeviceIds
    PROVE  /\ RankPops(c, h) \in [1..Len(fleet) -> ToSet(fleet)]
           /\ \A p \in ToSet(fleet) : \E i \in 1..Len(fleet) : RankPops(c, h)[i] = p
           /\ \A i \in 1..Len(fleet) :
                Cardinality({q \in ToSet(fleet) : Ahead(c, h, q, RankPops(c, h)[i])}) = i - 1
<1> DEFINE S == ToSet(fleet)
           n == Len(fleet)
           R == AheadOf(c, h)
           Sorted(s) == \A i, j \in 1..n : i < j => Ahead(c, h, s[i], s[j])
           r == RankPops(c, h)
<1>1. /\ StrictOrder(R, S) /\ IsFiniteSet(S) /\ Cardinality(S) = n /\ n \in Nat /\ DOMAIN fleet = 1..n
      /\ \A p, q \in S : <<p, q>> \in R <=> Ahead(c, h, p, q)
  BY AheadIsOrder
<1>2. r = CHOOSE s \in [1..n -> S] : Sorted(s)
  BY <1>1 DEF RankPops
<1> HIDE DEF S, n, R, r
<1>3. \E s \in [1..n -> S] : Sorted(s)
  <2>1. \E s \in [1..Cardinality(S) -> S] : \A i, j \in 1..Cardinality(S) : i < j => <<s[i], s[j]>> \in R
    BY <1>1, SortingExists
  <2>2. PICK s \in [1..n -> S] : \A i, j \in 1..n : i < j => <<s[i], s[j]>> \in R
    BY <1>1, <2>1
  <2>3. \A i \in 1..n : s[i] \in S
    BY <2>2
  <2> QED BY <1>1, <2>2, <2>3
<1>4. r \in [1..n -> S] /\ Sorted(r)
  <2> HIDE DEF Sorted
  <2> QED BY <1>2, <1>3
<1>5. r \in [1..Cardinality(S) -> S] /\ \A i, j \in 1..Cardinality(S) : i < j => <<r[i], r[j]>> \in R
  <2>1. \A i \in 1..n : r[i] \in S
    BY <1>4
  <2> QED BY <1>1, <1>4, <2>1
<1>6. \A p \in S : \E i \in 1..n : r[i] = p
  <2>1. \A p \in S : \E i \in 1..Cardinality(S) : r[i] = p
    BY <1>1, <1>5, SortedHas
  <2> QED BY <1>1, <2>1
<1>7. ASSUME NEW i \in 1..n PROVE Cardinality({q \in S : Ahead(c, h, q, r[i])}) = i - 1
  <2>1. \A k \in 1..Cardinality(S) : Cardinality(Below(R, S, r[k])) = k - 1
    <3>1. IsFiniteSet(S) /\ StrictOrder(R, S) /\ Cardinality(S) \in Nat
      BY <1>1
    <3> QED BY <1>5, <3>1, SortedHas
  <2>2. r[i] \in S
    BY <1>4
  <2>3. Below(R, S, r[i]) = {q \in S : Ahead(c, h, q, r[i])}
    BY <1>1, <2>2 DEF Below
  <2> QED BY <1>1, <2>1, <2>3
<1> QED BY <1>4, <1>6, <1>7 DEF S, n, r

\* The credentials that are minted for a pair are of its cheapest relays.
LEMMA MintedIsCheapest ==
    ASSUME ServerKnows, NEW c \in DeviceIds, NEW h \in DeviceIds, minted = BuildRelayCredentials(c, h)
    PROVE  RelaysAreCheapest /\ minted.host = h
<1> DEFINE S == ToSet(fleet)
           n == Len(fleet)
           r == RankPops(c, h)
           top == IF n < RELAY_POPS THEN n ELSE RELAY_POPS
           before(p) == {q \in S : Ahead(c, h, q, p)}
<1>1. /\ r \in [1..n -> S] /\ \A p \in S : \E i \in 1..n : r[i] = p
      /\ \A i \in 1..n : Cardinality(before(r[i])) = i - 1
  BY RankedOf
<1>2. n \in Nat /\ RELAY_POPS \in Nat
  BY AheadIsOrder, DialingAssumption
<1> HIDE DEF r
<1>3. r \in Seq(S) /\ Len(r) = n
  <2> HIDE DEF n, S
  <2>1. r \in Seq(S)
    BY <1>1, <1>2, SeqDef
  <2> QED BY <1>1, <1>2, <2>1, LenProperties
<1>4. /\ minted.controller = c /\ minted.host = h /\ minted.stun = S /\ minted.order = r
      /\ minted.relays = SubSeq(r, 1, top) /\ minted.ttl = IF RELAY_TTL < MAX_TTL THEN RELAY_TTL ELSE MAX_TTL
  BY <1>3 DEF BuildRelayCredentials, r
<1> HIDE DEF n, S
<1>5. top \in 0..n /\ top <= RELAY_POPS /\ \A i \in 1..n : (i <= top <=> i - 1 < RELAY_POPS)
  BY <1>2
<1>6. ToSet(minted.order) = S /\ Len(minted.order) = n
  <2>1. ToSet(r) = S
    BY <1>1 DEF ToSet
  <2> QED BY <1>3, <1>4, <2>1
<1> HIDE DEF top, before
<1>7. /\ SubSeq(r, 1, top) \in Seq(S) /\ Len(SubSeq(r, 1, top)) = top
      /\ \A k \in 1..top : SubSeq(r, 1, top)[k] = r[k]
  <2>1. \A k \in 1..top : r[k] \in S
    BY <1>1, <1>2, <1>5
  <2>2. 1 \in Int /\ top \in Int /\ top >= 0
    BY <1>2, <1>5
  <2>3. SubSeq(r, 1, top) \in Seq(S)
    BY <2>1, <2>2, SubSeqProperties
  <2>4. Len(SubSeq(r, 1, top)) = top /\ \A k \in 1..top : SubSeq(r, 1, top)[k] = r[k]
    BY <2>2, SubSeqProperties
  <2> QED BY <2>3, <2>4
<1>8. DOMAIN SubSeq(r, 1, top) = 1..top
  BY <1>7, LenProperties
<1>9. ToSet(minted.relays) = {r[k] : k \in 1..top}
  <2>1. ToSet(SubSeq(r, 1, top)) = {SubSeq(r, 1, top)[k] : k \in 1..top}
    BY <1>8 DEF ToSet
  <2> QED BY <1>4, <1>7, <2>1
<1>10. {r[k] : k \in 1..top} = {p \in S : Cardinality(before(p)) < RELAY_POPS}
  <2>1. ASSUME NEW k \in 1..top PROVE r[k] \in S /\ Cardinality(before(r[k])) < RELAY_POPS
    <3>1. k \in 1..n /\ k <= top
      BY <1>2, <1>5
    <3> QED BY <1>1, <1>5, <3>1
  <2>2. ASSUME NEW p \in S, Cardinality(before(p)) < RELAY_POPS PROVE \E k \in 1..top : r[k] = p
    <3>1. PICK k \in 1..n : r[k] = p
      BY <1>1
    <3>2. k - 1 < RELAY_POPS
      BY <1>1, <2>2, <3>1
    <3>3. k \in 1..top
      BY <1>2, <1>5, <3>2
    <3> QED BY <3>1, <3>3
  <2> QED BY <2>1, <2>2
<1>11. minted.ttl <= MAX_TTL
  BY <1>4, DialingAssumption
<1>12. ToSet(minted.relays) = {p \in S : Cardinality(before(p)) < RELAY_POPS}
  BY <1>9, <1>10
<1> QED BY <1>4, <1>6, <1>11, <1>12 DEF RelaysAreCheapest, S, n, before

-----------------------------------------------------------------------------
\* The inductive invariant: the peer is what was read in the text, and what is minted is
\* for that peer and for what the server knows now.
DialingInv ==
    /\ ServerKnows
    /\ IsText(dialled)
    /\ dialled # <<>> \/ peer # Invalid => peer = Parse(dialled)
    /\ minted # NoOne => /\ peer # Invalid
                         /\ \E c, h \in DeviceIds : h = peer /\ minted = BuildRelayCredentials(c, h)

\* It implies what a call promises.
LEMMA DialingInvIsRight == DialingInv => DialingIsRight
<1> SUFFICES ASSUME DialingInv PROVE DialingIsRight
  OBVIOUS
<1> USE DEF DialingInv
<1>1. \A id \in DeviceIds : id \in Ids /\ id # Invalid
  BY DialingAssumption DEF Ids
<1>2. ASSUME minted # NoOne PROVE RelaysAreCheapest /\ IsWriting(dialled, minted.host)
  <2>1. PICK c \in DeviceIds, h \in DeviceIds : h = peer /\ minted = BuildRelayCredentials(c, h)
    BY <1>2
  <2>2. RelaysAreCheapest /\ minted.host = h
    BY <2>1, MintedIsCheapest
  <2>3. Parse(dialled) = h /\ h \in Ids /\ h # Invalid
    BY <1>1, <1>2, <2>1
  <2> QED BY <2>2, <2>3, ParseOf
<1>3. ASSUME dialled # <<>>, NEW id \in DeviceIds PROVE IsWriting(dialled, id) <=> peer = id
  BY <1>1, <1>3, ParseOf
<1>4. minted = NoOne => RelaysAreCheapest
  BY DEF RelaysAreCheapest
<1> QED BY <1>2, <1>3, <1>4 DEF DialingIsRight, DialReachesTheDevice

\* It holds at the start, whatever fleet the server has.
LEMMA InitDialingInv == DialingInit => DialingInv
<1> SUFFICES ASSUME DialingInit PROVE DialingInv
  OBVIOUS
<1> USE DEF DialingInit
<1>1. ServerKnows
  BY DEF ServerKnows
<1>2. IsText(dialled)
  BY DEF IsText
<1> QED BY <1>1, <1>2 DEF DialingInv

\* Every step keeps it.
LEMMA NextDialingInv == DialingInv /\ [DialingNext]_dialingVars => DialingInv'
<1> SUFFICES ASSUME DialingInv, [DialingNext]_dialingVars PROVE DialingInv'
  OBVIOUS
<1> USE DEF DialingInv
<1>1. ASSUME UNCHANGED <<fleet, probes>> PROVE
        ServerKnows' /\ \A c, h : BuildRelayCredentials(c, h)' = BuildRelayCredentials(c, h)
  BY <1>1 DEF ServerKnows, BuildRelayCredentials, RankPops, Ahead, Score, Rtt
<1>2. CASE Reregister
  <2>1. PICK d \in DeviceIds, measured \in ProbeVectors : probes' = [probes EXCEPT ![d] = measured]
    BY <1>2 DEF Reregister
  <2>2. ServerKnows'
    BY <1>2, <2>1, DialingAssumption DEF Reregister, ServerKnows
  <2> QED BY <1>2, <2>2 DEF Reregister, IsText, Parse, Places
<1>3. CASE SetPeer
  <2>1. IsText(dialled)'
    BY <1>3, DialingAssumption DEF SetPeer, IsText
  <2> QED BY <1>1, <1>3, <2>1 DEF SetPeer
<1>4. CASE RouteCall
  <2>1. peer \in Ids
    BY <1>4, ParseType DEF RouteCall
  <2>2. Parse(Grouped(peer)) = peer
    BY <2>1, GroupedOf
  <2>3. PICK c \in DeviceIds : minted' = BuildRelayCredentials(c, peer)
    BY <1>4, <2>2 DEF RouteCall
  <2>4. peer \in DeviceIds /\ peer # Invalid
    BY <1>4, <2>2 DEF RouteCall
  <2>5. UNCHANGED <<fleet, probes, dialled, peer>>
    BY <1>4 DEF RouteCall
  <2>6. \E a, h \in DeviceIds : h = peer' /\ minted' = BuildRelayCredentials(a, h)'
    BY <1>1, <2>3, <2>4, <2>5
  <2> QED BY <1>1, <2>4, <2>5, <2>6 DEF IsText
<1>5. CASE UNCHANGED dialingVars
  BY <1>1, <1>5 DEF dialingVars, IsText
<1> QED BY <1>2, <1>3, <1>4, <1>5 DEF DialingNext

\* The call of a device alone.
THEOREM CallsAreRight == DialingSpec => []DialingIsRight
<1>1. DialingSpec => []DialingInv
  BY InitDialingInv, NextDialingInv, PTL DEF DialingSpec
<1> QED BY <1>1, DialingInvIsRight, PTL

-----------------------------------------------------------------------------
(* The relays a peer uses                                                  *)

\* build_configuration keeps every server but the relays that come after as many as
\* may be used.
LEMMA ConfigurationOf ==
    ASSUME NEW servers \in Seq({"stun", "turn"})
    PROVE  LET ice == BuildConfiguration(servers)
           IN  /\ Cardinality({i \in DOMAIN ice : ice[i] = "turn"}) <= MAX_RELAY_POPS
               /\ Cardinality({i \in DOMAIN ice : ice[i] = "stun"})
                    = Cardinality({i \in DOMAIN servers : servers[i] = "stun"})
<1> DEFINE D == DOMAIN servers
           T == {i \in D : servers[i] = "turn"}
           relaysTo(i) == Cardinality({j \in 1..i : servers[j] = "turn"})
           K == {i \in D : servers[i] = "turn" => relaysTo(i) <= MAX_RELAY_POPS}
           n == Cardinality(K)
           kept == Ascending(K)
           ice == [i \in DOMAIN kept |-> servers[kept[i]]]
           Seen(kind) == {i \in 1..n : servers[kept[i]] = kind}
           Were(kind) == {u \in K : servers[u] = kind}
<1>1. MAX_RELAY_POPS \in Nat /\ D = 1..Len(servers) /\ Len(servers) \in Nat
  BY TransportAssumption, LenProperties
<1>2. ice = BuildConfiguration(servers)
  BY DEF BuildConfiguration
<1>3. D \in SUBSET Int /\ K \in SUBSET D /\ T \in SUBSET D
  BY <1>1
<1>4. \A i \in T : {j \in 1..i : servers[j] = "turn"} = {j \in T : j <= i}
  <2> SUFFICES ASSUME NEW i \in T PROVE {j \in 1..i : servers[j] = "turn"} = {j \in T : j <= i}
    OBVIOUS
  <2>1. i \in 1..Len(servers)
    BY <1>1
  <2>2. \A j : j \in 1..i <=> j \in D /\ j <= i
    BY <1>1, <2>1
  <2> QED BY <2>2
<1>5. \A i \in T : relaysTo(i) = Rank(T, i)
  BY <1>4 DEF Rank
<1>6. Were("turn") = {i \in T : Rank(T, i) <= MAX_RELAY_POPS}
  <2> HIDE DEF relaysTo
  <2> QED BY <1>5
<1>7. Were("stun") = {i \in D : servers[i] = "stun"}
  <2>1. "stun" # "turn"
    OBVIOUS
  <2> HIDE DEF relaysTo, D
  <2> QED BY <2>1
<1> HIDE DEF D, T, K, relaysTo
<1>8. IsFiniteSet(D) /\ IsFiniteSet(K) /\ IsFiniteSet(T)
  <2>1. IsFiniteSet(D)
    BY <1>1, FromOne
  <2> QED BY <1>3, <2>1, FS_Subset
<1>9. K \in SUBSET Int /\ T \in SUBSET Int
  BY <1>3
<1>10. /\ n \in Nat /\ kept \in [1..n -> K] /\ \A i \in 1..n : Rank(K, kept[i]) = i
       /\ \A u \in K : \E i \in 1..n : kept[i] = u
  BY <1>8, <1>9, AscendingOf
<1> HIDE DEF n, kept
<1>11. \A i, j \in 1..n : kept[i] = kept[j] => i = j
  BY <1>10
<1>12. DOMAIN kept = 1..n /\ DOMAIN ice = 1..n /\ \A i \in 1..n : ice[i] = servers[kept[i]]
  BY <1>10
<1> HIDE DEF ice
<1>13. ASSUME NEW kind
       PROVE  Cardinality(Seen(kind)) = Cardinality(Were(kind)) /\ IsFiniteSet(Were(kind))
  <2> DEFINE A == Seen(kind)
             B == Were(kind)
             f == [i \in A |-> kept[i]]
  <2>1. \A i \in A : i \in 1..n /\ kept[i] \in B
    BY <1>10
  <2>2. \A u \in B : \E i \in A : kept[i] = u
    BY <1>10
  <2>3. A \in SUBSET (1..n) /\ B \in SUBSET K
    OBVIOUS
  <2> HIDE DEF A, B
  <2>4. f \in [A -> B] /\ \A i \in A : f[i] = kept[i]
    BY <2>1
  <2> HIDE DEF f
  <2>5. f \in Injection(A, B)
    BY <1>11, <2>1, <2>4 DEF Injection, IsInjective
  <2>6. f \in Surjection(A, B)
    BY <2>2, <2>4 DEF Surjection
  <2>7. ExistsBijection(A, B)
    BY <2>5, <2>6 DEF ExistsBijection, Bijection
  <2>8. IsFiniteSet(A) /\ IsFiniteSet(B)
    <3>1. IsFiniteSet(1..n)
      BY <1>10, FromOne
    <3> QED BY <1>8, <2>3, <3>1, FS_Subset
  <2> QED BY <2>7, <2>8, FS_Bijection DEF A, B
<1>14. \A kind : Seen(kind) = {i \in DOMAIN ice : ice[i] = kind}
  BY <1>12
<1>15. Cardinality(Were("turn")) <= MAX_RELAY_POPS
  <2> DEFINE B == Were("turn")
             m == Cardinality(T)
             g == [i \in B |-> Rank(T, i)]
  <2>1. m \in Nat /\ (\A u \in T : Rank(T, u) \in 1..m) /\ \A u, w \in T : Rank(T, u) = Rank(T, w) => u = w
    BY <1>8, <1>9, RankOf
  <2>2. \A u \in B : u \in T /\ Rank(T, u) <= MAX_RELAY_POPS
    BY <1>6
  <2> HIDE DEF m
  <2>3. \A u \in B : Rank(T, u) \in 1..MAX_RELAY_POPS
    BY <1>1, <2>1, <2>2
  <2>4. IsFiniteSet(B)
    BY <1>13
  <2> HIDE DEF B
  <2>5. g \in [B -> 1..MAX_RELAY_POPS] /\ \A u \in B : g[u] = Rank(T, u)
    BY <2>3
  <2> HIDE DEF g
  <2>6. g \in Injection(B, 1..MAX_RELAY_POPS)
    BY <2>1, <2>2, <2>5 DEF Injection, IsInjective
  <2>7. IsFiniteSet(1..MAX_RELAY_POPS) /\ Cardinality(1..MAX_RELAY_POPS) = MAX_RELAY_POPS
    BY <1>1, FromOne
  <2>8. Cardinality(B) <= Cardinality(1..MAX_RELAY_POPS)
    BY <2>6, <2>7, FS_Injection
  <2> QED BY <2>7, <2>8 DEF B
<1>16. Cardinality(Seen("turn")) <= MAX_RELAY_POPS
  BY <1>13, <1>15
<1>17. Cardinality(Seen("stun")) = Cardinality(Were("stun"))
  BY <1>13
<1> HIDE DEF Seen, Were
<1> QED BY <1>2, <1>7, <1>14, <1>16, <1>17 DEF D

\* The configuration is made once, from the list the server sent.
LEMMA InitRelaysCapped == TransportInit => RelaysCapped
<1> SUFFICES ASSUME TransportInit PROVE RelaysCapped
  OBVIOUS
<1>1. offered \in Seq({"stun", "turn"}) /\ iceServers = BuildConfiguration(offered)
  BY TransportAssumption DEF TransportInit
<1> QED BY <1>1, ConfigurationOf DEF RelaysCapped

LEMMA NextRelaysCapped == RelaysCapped /\ [TransportNext]_transportVars => RelaysCapped'
<1> SUFFICES ASSUME RelaysCapped, [TransportNext]_transportVars PROVE RelaysCapped'
  OBVIOUS
<1>1. UNCHANGED <<iceServers, offered>>
  BY DEF TransportNext, transportVars, ChannelOpens, SendFrame, LoseFrame, OnMessage, ConnectionEnds,
         NegotiationReads, NegotiationEnds, HandshakeReads, StreamReads
<1> QED BY <1>1 DEF RelaysCapped

-----------------------------------------------------------------------------
(* All of it together                                                      *)

\* The steps of the other components leave the call and the relays alone.
LEMMA NextCallsAndRelays ==
    DialingInv /\ RelaysCapped /\ [ConnectionNext]_connectionVars => DialingInv' /\ RelaysCapped'
<1> SUFFICES ASSUME DialingInv, RelaysCapped, [ConnectionNext]_connectionVars
             PROVE  DialingInv' /\ RelaysCapped'
  OBVIOUS
<1>1. [DialingNext]_dialingVars
  BY DEF ConnectionNext, Others, connectionVars
<1>2. [TransportNext]_transportVars
  BY DEF ConnectionNext, Others, connectionVars
<1> QED BY <1>1, <1>2, NextDialingInv, NextRelaysCapped

\* A call reaches the device that was dialled (ids.rs, ws.rs), over the relays that cost
\* the two peers least and no more of them than a peer uses (relay.rs, ice.rs): for every
\* text, set of devices, fleet, vector of measurements and list of servers.
THEOREM CallsAlwaysReach == ConnectionSpec => []CallsReachTheirDevice
<1>1. ConnectionInit => DialingInv /\ RelaysCapped
  BY InitDialingInv, InitRelaysCapped DEF ConnectionInit
<1>2. DialingInv /\ RelaysCapped => CallsReachTheirDevice
  BY DialingInvIsRight DEF CallsReachTheirDevice
<1> QED BY <1>1, <1>2, NextCallsAndRelays, PTL DEF ConnectionSpec

-----------------------------------------------------------------------------
(* The signaling server: routing and presence, for any number of devices,  *)
(* connections and sessions                                                *)

\* A dial holds the queue of a connection of the device it resolved.
DialsItsTarget ==
    \A c \in Conns : dialing[c] # None => DeviceOf[dialing[c].queue] = dialing[c].target

IInv == TypeOK /\ NoGhostPresence /\ OnlyParticipants /\ DialsItsTarget

\* Session::peer_of names the other participant, and only to a participant.
LEMMA PeerIsParticipant ==
    ASSUME NEW s \in Sids, NEW d \in Devices, PeerOf(s, d) # None
    PROVE  d \in Participants(s) /\ PeerOf(s, d) \in Participants(s)
  BY DEF PeerOf, Participants

\* What Registry::send_to queues goes to a connection of the addressed device.
LEMMA SendToReaches ==
    ASSUME TypeOK, NoGhostPresence, NEW d \in Devices \cup {None}, NEW from, NEW sid, NEW msg,
           NEW e \in SendTo(d, from, sid, msg)
    PROVE  /\ d \in Devices
           /\ e = Env(peers[d], from, sid, msg)
           /\ peers[d] \in Conns
           /\ DeviceOf[peers[d]] = d
  BY DEF TypeOK, NoGhostPresence, SendTo

\* What participants are told in a session satisfies OnlyParticipants and is a
\* well-formed envelope.
LEMMA SessionSend ==
    ASSUME TypeOK, NoGhostPresence, NEW s \in Sids, NEW d \in Devices, NEW msg,
           NEW e \in SendTo(PeerOf(s, d), d, s, msg)
    PROVE  /\ e = Env(e.to, d, s, msg)
           /\ e.to \in Conns
           /\ DeviceOf[e.to] \in Participants(s)
           /\ d \in Participants(s)
<1>1. PeerOf(s, d) \in Devices \cup {None}
  BY DEF TypeOK, PeerOf
<1>2. PeerOf(s, d) # None /\ e = Env(peers[PeerOf(s, d)], d, s, msg)
      /\ peers[PeerOf(s, d)] \in Conns /\ DeviceOf[peers[PeerOf(s, d)]] = PeerOf(s, d)
  <2>1. PeerOf(s, d) \in Devices
    BY <1>1, SendToReaches
  <2> QED BY <1>1, <2>1, SendToReaches, SignalServerAssumption
<1>3. d \in Participants(s) /\ PeerOf(s, d) \in Participants(s)
  BY <1>2, PeerIsParticipant
<1> QED BY <1>2, <1>3 DEF Env

\* Every step keeps the tables and the envelopes well typed.
LEMMA TypeStep == IInv /\ [Next]_vars => TypeOK'
<1> SUFFICES ASSUME IInv, [Next]_vars PROVE TypeOK'
  OBVIOUS
<1> USE SignalServerAssumption DEF IInv
<1>1. CASE UNCHANGED vars
  BY <1>1 DEF TypeOK, vars, tables
<1>2. ASSUME NEW c \in Conns, Open(c) \/ DropUnregistered(c) \/ Close(c) \/ Unregister(c) \/ RemovePeer(c)
      PROVE  TypeOK'
  BY <1>2 DEF TypeOK, Open, DropUnregistered, Close, Unregister, RemovePeer, tables, Phases
<1>3. ASSUME NEW c \in Conns, Register(c) PROVE TypeOK'
  <2>1. sent' \subseteq {Env(x, None, None, "peer_gone") : x \in Conns}
    <3>1. DeviceOf[c] \in Devices
      OBVIOUS
    <3> QED BY <1>3, <3>1 DEF Register, SendTo, TypeOK
  <2>2. \A x \in Conns : Env(x, None, None, "peer_gone") \in Envelopes
    BY DEF Env, Envelopes
  <2>3. sent' \subseteq Envelopes
    BY <2>1, <2>2
  <2> QED BY <1>3, <2>3 DEF TypeOK, Register, Phases
<1>4. ASSUME NEW c \in Conns, NEW d \in Devices, Offline(c, d) \/ Resolve(c, d)
      PROVE  TypeOK'
  <2>1. CASE Offline(c, d)
    BY <2>1 DEF TypeOK, Offline, Env, Envelopes, tables
  <2>2. CASE Resolve(c, d)
    <3>1. [target |-> d, queue |-> peers[d]] \in [target : Devices, queue : Conns]
      BY <2>2 DEF TypeOK, Resolve
    <3>2. dialing' \in [Conns -> [target : Devices, queue : Conns] \cup {None}]
      BY <2>2, <3>1 DEF TypeOK, Resolve
    <3> QED BY <2>2, <3>2 DEF TypeOK, Resolve, tables
  <2> QED BY <1>4, <2>1, <2>2
<1>5. ASSUME NEW c \in Conns, NEW s \in Sids, CreateSession(c, s) PROVE TypeOK'
  <2>1. dialing[c] \in [target : Devices, queue : Conns]
    BY <1>5 DEF CreateSession, TypeOK
  <2>2. /\ Env(dialing[c].queue, DeviceOf[c], s, "connect_request") \in Envelopes
        /\ Env(dialing[c].queue, None, s, "relay_credentials") \in Envelopes
        /\ Env(c, None, s, "relay_credentials") \in Envelopes
    BY <2>1 DEF Env, Envelopes
  <2>3. sent' \subseteq Envelopes
    BY <1>5, <2>2 DEF CreateSession
  <2>4. parties' \in [Sids -> [controller : Devices \cup {None}, host : Devices \cup {None}]]
    BY <1>5, <2>1 DEF TypeOK, CreateSession
  <2>5. dialing' \in [Conns -> [target : Devices, queue : Conns] \cup {None}]
    BY <1>5 DEF TypeOK, CreateSession
  <2> QED BY <1>5, <2>3, <2>4, <2>5 DEF TypeOK, CreateSession
<1>6. ASSUME NEW c \in Conns, NEW s \in Sids, RouteError(c, s) PROVE TypeOK'
  BY <1>6 DEF TypeOK, RouteError, Env, Envelopes, tables
<1>7. ASSUME NEW c \in Conns, NEW s \in Sids,
             \/ Forward(c, s)
             \/ \E accepted \in BOOLEAN : ConnectResponse(c, s, accepted)
      PROVE  TypeOK'
  <2>1. PICK msg \in {"session", "connect_response"} :
           sent' = SendTo(PeerOf(s, DeviceOf[c]), DeviceOf[c], s, msg)
    BY <1>7 DEF Forward, ConnectResponse
  <2>2. \A e \in sent' : e = Env(e.to, DeviceOf[c], s, msg) /\ e.to \in Conns
    BY <2>1, SessionSend
  <2>3. sent' \subseteq Envelopes
    BY <2>2 DEF Env, Envelopes
  <2> QED BY <1>7, <2>3 DEF TypeOK, Forward, ConnectResponse, tables
<1>8. ASSUME NEW c \in Conns, Sweep(c) PROVE TypeOK'
  <2>1. \A e \in sent' : \E s \in Sids : e \in SendTo(PeerOf(s, DeviceOf[c]), DeviceOf[c], s, "peer_gone")
    BY <1>8 DEF Sweep, SessionsFor, TypeOK
  <2>2. \A e \in sent' : \E s \in Sids : e = Env(e.to, DeviceOf[c], s, "peer_gone") /\ e.to \in Conns
    <3> SUFFICES ASSUME NEW e \in sent'
                 PROVE  \E s \in Sids : e = Env(e.to, DeviceOf[c], s, "peer_gone") /\ e.to \in Conns
      OBVIOUS
    <3>1. PICK s \in Sids : e \in SendTo(PeerOf(s, DeviceOf[c]), DeviceOf[c], s, "peer_gone")
      BY <2>1
    <3>2. e = Env(e.to, DeviceOf[c], s, "peer_gone") /\ e.to \in Conns
      BY <3>1, SessionSend
    <3> QED BY <3>2
  <2>3. sent' \subseteq Envelopes
    BY <2>2 DEF Env, Envelopes
  <2> QED BY <1>8, <2>3 DEF TypeOK, Sweep, Phases
<1> QED BY <1>1, <1>2, <1>3, <1>4, <1>5, <1>6, <1>7, <1>8 DEF Next, Teardown

\* No order of registrations and teardowns leaves a finished connection in the
\* table.
LEMMA PresenceStep == IInv /\ [Next]_vars => NoGhostPresence'
<1> SUFFICES ASSUME IInv, [Next]_vars PROVE NoGhostPresence'
  OBVIOUS
<1> USE SignalServerAssumption DEF IInv, NoGhostPresence, TypeOK
<1>1. CASE UNCHANGED <<phase, peers>>
  BY <1>1
<1>2. ASSUME NEW c \in Conns, Open(c) \/ DropUnregistered(c) \/ Close(c) \/ Unregister(c)
      PROVE  NoGhostPresence'
  BY <1>2 DEF Open, DropUnregistered, Close, Unregister, ShouldRemove, Ready, tables
<1>3. ASSUME NEW c \in Conns, Register(c) \/ RemovePeer(c) \/ Sweep(c)
      PROVE  NoGhostPresence'
  BY <1>3 DEF Register, RemovePeer, Sweep
<1> QED BY <1>1, <1>2, <1>3 DEF Next, Teardown, vars, tables, Offline, Resolve, CreateSession,
        Forward, RouteError, ConnectResponse

\* A dial keeps the queue it resolved to.
LEMMA DialStep == IInv /\ [Next]_vars => DialsItsTarget'
<1> SUFFICES ASSUME IInv, [Next]_vars PROVE DialsItsTarget'
  OBVIOUS
<1> USE SignalServerAssumption DEF IInv, DialsItsTarget
<1>1. CASE UNCHANGED dialing
  BY <1>1
<1>2. ASSUME NEW c \in Conns, NEW d \in Devices, Resolve(c, d) PROVE DialsItsTarget'
  BY <1>2 DEF Resolve, NoGhostPresence, TypeOK
<1>3. ASSUME NEW c \in Conns, NEW s \in Sids, CreateSession(c, s) PROVE DialsItsTarget'
  BY <1>3 DEF CreateSession, TypeOK
<1> QED BY <1>1, <1>2, <1>3 DEF Next, Teardown, vars, tables, Open, Register, DropUnregistered,
        Close, Unregister, RemovePeer, Sweep, Offline, Forward, RouteError, ConnectResponse

\* Every envelope a step queues for a session goes from one participant, or the
\* server, to a participant.
LEMMA RoutingStep == IInv /\ [Next]_vars => OnlyParticipants'
<1> SUFFICES ASSUME IInv, [Next]_vars PROVE OnlyParticipants'
  OBVIOUS
<1> USE SignalServerAssumption DEF IInv
<1>1. CASE UNCHANGED vars
  BY <1>1 DEF OnlyParticipants, Participants, vars, tables
<1>2. ASSUME NEW c \in Conns, Open(c) \/ DropUnregistered(c) \/ Close(c) \/ Unregister(c) \/ RemovePeer(c)
      PROVE  OnlyParticipants'
  BY <1>2 DEF OnlyParticipants, Open, DropUnregistered, Close, Unregister, RemovePeer
<1>3. ASSUME NEW c \in Conns, Register(c) PROVE OnlyParticipants'
  BY <1>3 DEF OnlyParticipants, Register, SendTo, Env
<1>4. ASSUME NEW c \in Conns, NEW d \in Devices, Offline(c, d) \/ Resolve(c, d)
      PROVE  OnlyParticipants'
  BY <1>4 DEF OnlyParticipants, Offline, Resolve, Env
<1>5. ASSUME NEW c \in Conns, NEW s \in Sids, CreateSession(c, s) PROVE OnlyParticipants'
  <2>1. dialing[c] \in [target : Devices, queue : Conns]
    BY <1>5 DEF CreateSession, TypeOK
  <2>2. Participants(s)' = {DeviceOf[c], dialing[c].target}
    BY <1>5 DEF CreateSession, Participants, TypeOK
  <2>3. DeviceOf[dialing[c].queue] = dialing[c].target
    BY <1>5 DEF DialsItsTarget, CreateSession
  <2> QED BY <1>5, <2>1, <2>2, <2>3 DEF OnlyParticipants, CreateSession, Env
<1>6. ASSUME NEW c \in Conns, NEW s \in Sids, RouteError(c, s) PROVE OnlyParticipants'
  BY <1>6 DEF OnlyParticipants, RouteError, Env
<1>7. ASSUME NEW c \in Conns, NEW s \in Sids,
             \/ Forward(c, s)
             \/ \E accepted \in BOOLEAN : ConnectResponse(c, s, accepted)
      PROVE  OnlyParticipants'
  <2>1. PICK msg : sent' = SendTo(PeerOf(s, DeviceOf[c]), DeviceOf[c], s, msg)
    BY <1>7 DEF Forward, ConnectResponse
  <2>2. \A e \in sent' : /\ e.sid = s /\ e.from = DeviceOf[c]
                         /\ DeviceOf[e.to] \in Participants(s) /\ DeviceOf[c] \in Participants(s)
    BY <2>1, SessionSend DEF Env
  <2>3. UNCHANGED parties
    BY <1>7 DEF Forward, ConnectResponse, tables
  <2> QED BY <2>2, <2>3 DEF OnlyParticipants, Participants
<1>8. ASSUME NEW c \in Conns, Sweep(c) PROVE OnlyParticipants'
  <2>1. \A e \in sent' : \E s \in Sids : e \in SendTo(PeerOf(s, DeviceOf[c]), DeviceOf[c], s, "peer_gone")
    BY <1>8 DEF Sweep, SessionsFor, TypeOK
  <2>2. \A e \in sent' : \E s \in Sids :
           /\ e.sid = s /\ e.from = DeviceOf[c]
           /\ DeviceOf[e.to] \in Participants(s) /\ DeviceOf[c] \in Participants(s)
    BY <2>1, SessionSend DEF Env
  <2>3. UNCHANGED parties
    BY <1>8 DEF Sweep
  <2> QED BY <2>2, <2>3 DEF OnlyParticipants, Participants
<1> QED BY <1>1, <1>2, <1>3, <1>4, <1>5, <1>6, <1>7, <1>8 DEF Next, Teardown

\* The invariant holds of a server in every state.
THEOREM Invariant == Spec => []IInv
<1>1. Init => IInv
  BY SignalServerAssumption DEF Init, IInv, TypeOK, NoGhostPresence, OnlyParticipants,
     DialsItsTarget, Unused, Phases
<1>2. IInv /\ [Next]_vars => IInv'
  BY TypeStep, PresenceStep, DialStep, RoutingStep DEF IInv
<1> QED BY <1>1, <1>2, PTL DEF Spec

\* What belongs to a session passes between its participants only, for any number
\* of devices, reconnections and sessions.
THEOREM RoutesWithinSessions == Spec => []OnlyParticipants
<1>1. IInv => OnlyParticipants
  BY DEF IInv
<1> QED BY <1>1, Invariant, PTL

\* Presence never names a connection that has finished its teardown.
THEOREM PresenceIsLive == Spec => []NoGhostPresence
<1>1. IInv => NoGhostPresence
  BY DEF IInv
<1> QED BY <1>1, Invariant, PTL
===============================================================================
