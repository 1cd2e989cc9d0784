---------------------------- MODULE SessionSetup ----------------------------
(***************************************************************************)
(* From the PIN on the host's screen to a running session: the serve loop  *)
(* of the host (rda-host/src/serve.rs), the viewer's attempts to connect   *)
(* (rda-client/src/session.rs) and the handshake between them              *)
(* (rda-session/src/auth.rs).                                              *)
(*                                                                         *)
(* A PIN is the number of the draw it came from; a host that was given     *)
(* --pin (digits that SessionPin accepts: it serves nobody with others)    *)
(* has one number for all its sessions. An attempt of the viewer           *)
(* is a session of its own; how the two negotiate is module Negotiation's, *)
(* here it succeeds or fails. The two halves of SPAKE2 agree on a key when *)
(* both were given the same PIN and session. Certificates, identities and  *)
(* the binding signature are those of module HostSession and always in     *)
(* order here, and so are the types of the handshake messages, which each  *)
(* side sends in the order the other expects. The viewer does not close a  *)
(* connection it gives up: the host finds out by its own time-out.         *)
(***************************************************************************)
EXTENDS Naturals, Sequences

CONSTANTS
    PIN_CHECK_INTERVAL,   \* the host looks at the age of the PIN after so long a silence
    PIN_REFRESH,          \* and replaces one that is this old
    PIN_TTL,              \* an older one is refused
    SETUP_ATTEMPTS,
    MaxRefreshes,         \* bound: PINs replaced while waiting
    MaxViewers            \* bound: viewers started one after the other

ASSUME SetupAssumption ==
    /\ PIN_CHECK_INTERVAL \in Nat \ {0} /\ PIN_REFRESH \in Nat \ {0}
    /\ PIN_TTL \in Nat \ {0} /\ PIN_REFRESH < PIN_TTL
    /\ SETUP_ATTEMPTS \in Nat \ {0} /\ MaxRefreshes \in Nat /\ MaxViewers \in Nat

VARIABLES
    hostAt,      \* where one_session and authenticate_as_host are
    fixedPin,    \* ServeOptions::fixed_pin is given
    pin,         \* the PIN on the screen
    pinAge,      \* how long ago it was drawn or renewed
    quiet,       \* how long the inbox has been silent
    refreshes,
    inbox,       \* the connect requests the host has not read
    hostSid,     \* the session the host is in
    fresh,       \* that session's handshake began with a usable PIN
    viewerAt,    \* where run_with_retry, run and authenticate_as_controller are
    viewers,     \* how many viewers were started
    attempt,     \* the attempt under way, of all viewers together
    tries,       \* and which one of its viewer's it is
    typed,       \* config.pin: the PIN the user gave the viewer
    why,         \* why the viewer gave up
    toHost, toViewer,   \* the control channel of the session, in both directions
    opened       \* history: the PIN of each session that got as far as streaming

setupVars == <<hostAt, fixedPin, pin, pinAge, quiet, refreshes, inbox, hostSid, fresh, viewerAt, viewers,
               attempt, tries, typed, why, toHost, toViewer, opened>>

clockVars == <<fixedPin, pin, pinAge, quiet, refreshes>>
viewerVars == <<viewerAt, viewers, attempt, tries, typed, why>>

SetupInit ==
    /\ fixedPin \in BOOLEAN
    /\ hostAt = "wait" /\ pin = 1 /\ pinAge = 0 /\ quiet = 0 /\ refreshes = 0
    /\ inbox = <<>> /\ hostSid = 0 /\ fresh = TRUE
    /\ viewerAt = "idle" /\ viewers = 0 /\ attempt = 0 /\ tries = 0 /\ typed = 0 /\ why = "none"
    /\ toHost = <<>> /\ toViewer = <<>>
    /\ opened = <<>>

Msg(type, content) == [type |-> type, content |-> content]

\* pake::confirm over the key of pake_password
Tag(role, secret, sid) == <<role, secret, sid>>

Handshake == {"hello", "request", "confirm"}

-----------------------------------------------------------------------------
(* The host                                                                *)

\* mint_pin: the digits of --pin with a new life, or a new PIN.
Mint ==
    /\ pin' = IF fixedPin THEN pin ELSE pin + 1
    /\ pinAge' = 0
    /\ UNCHANGED fixedPin

\* The wait timed out. An old PIN is replaced and shown.
WaitTimesOut ==
    /\ hostAt = "wait" /\ quiet = PIN_CHECK_INTERVAL
    /\ quiet' = 0
    /\ IF pinAge >= PIN_REFRESH
         THEN refreshes < MaxRefreshes /\ refreshes' = refreshes + 1 /\ Mint
         ELSE UNCHANGED <<fixedPin, pin, pinAge, refreshes>>
    /\ UNCHANGED <<hostAt, inbox, hostSid, fresh, viewerVars, toHost, toViewer, opened>>

\* An envelope of an earlier session, or credentials nobody waits for.
StaleEnvelope ==
    /\ hostAt = "wait" /\ quiet > 0
    /\ quiet' = 0
    /\ UNCHANGED <<hostAt, fixedPin, pin, pinAge, refreshes, inbox, hostSid, fresh, viewerVars, toHost,
                   toViewer, opened>>

ConnectRequest ==
    /\ hostAt = "wait" /\ inbox # <<>>
    /\ hostAt' = "negotiate"
    /\ hostSid' = Head(inbox)
    /\ inbox' = Tail(inbox)
    /\ quiet' = 0
    /\ UNCHANGED <<fixedPin, pin, pinAge, refreshes, fresh, viewerVars, toHost, toViewer, opened>>

\* Mutant: a PIN that was drawn outlives its session too, as if it were fixed.
KeepPin == pinAge' = 0 /\ UNCHANGED <<fixedPin, pin>>

\* The next round of the serve loop begins with mint_pin.
NextPin == Mint

\* authenticate_as_host or stream returned: the connection is closed, and one_session
\* is called again.
HostOver ==
    /\ hostAt' = "wait"
    /\ NextPin
    /\ quiet' = 0
    /\ hostSid' = 0
    /\ UNCHANGED <<refreshes, inbox, fresh, viewerVars, toViewer, opened>>

HostNegotiationFails ==
    hostAt = "negotiate" /\ HostOver /\ UNCHANGED toHost

Reads(type) == toHost # <<>> /\ Head(toHost).type = type /\ toHost' = Tail(toHost)

\* Hello and HelloAck
HostHello ==
    /\ hostAt = "hello" /\ Reads("Hello")
    /\ toViewer' = Append(toViewer, Msg("HelloAck", 0))
    /\ hostAt' = "request"
    /\ UNCHANGED <<clockVars, inbox, hostSid, fresh, viewerVars, opened>>

\* PinVerifier::respond
HostRespond ==
    /\ hostAt = "request" /\ Reads("AuthRequest")
    /\ IF fresh
         THEN /\ toViewer' = Append(toViewer, Msg("AuthResponse", Tag("host", pin, hostSid)))
              /\ hostAt' = "confirm"
              /\ UNCHANGED <<clockVars, inbox, hostSid, fresh, viewerVars, opened>>
         ELSE HostOver

\* confirm_matches
TagMatches(tag, own) == tag = own

\* The confirmation of the viewer, and the grant.
HostConfirm ==
    /\ hostAt = "confirm" /\ Reads("AuthConfirm")
    /\ IF TagMatches(Head(toHost).content, Tag("controller", pin, hostSid))
         THEN /\ toViewer' = Append(toViewer, Msg("SessionReady", 0))
              /\ hostAt' = "stream"
              /\ opened' = Append(opened, pin)
              /\ UNCHANGED <<clockVars, inbox, hostSid, fresh, viewerVars>>
         ELSE HostOver

\* Mutant: next_frame waits for as long as it takes.
WaitsForever == FALSE

\* next_frame gave up, or saw the connection fail.
StepTimesOut == hostAt \in Handshake

HostTimesOut == StepTimesOut /\ HostOver /\ UNCHANGED toHost

\* The duration is over, or the peer is gone.
HostStreamEnds == hostAt = "stream" /\ HostOver /\ UNCHANGED toHost

-----------------------------------------------------------------------------
(* The viewer                                                              *)

\* A user reads the PIN off the screen and starts a viewer with it.
StartViewer ==
    /\ viewerAt \in {"idle", "failed", "over"} /\ viewers < MaxViewers /\ hostAt = "wait"
    /\ viewers' = viewers + 1
    /\ typed' = pin
    /\ tries' = 1 /\ attempt' = attempt + 1 /\ why' = "none"
    /\ viewerAt' = "dial"
    /\ inbox' = Append(inbox, attempt + 1)
    /\ UNCHANGED <<hostAt, clockVars, hostSid, fresh, toHost, toViewer, opened>>

\* Both ends of pump are through, and the controller says hello.
Negotiated ==
    /\ hostAt = "negotiate" /\ viewerAt = "dial" /\ hostSid = attempt
    /\ hostAt' = "hello" /\ viewerAt' = "ack"
    /\ fresh' = (pinAge <= PIN_TTL)
    /\ toHost' = <<Msg("Hello", 0)>> /\ toViewer' = <<>>
    /\ UNCHANGED <<clockVars, inbox, hostSid, viewers, attempt, tries, typed, why, opened>>

GiveUp(reason) ==
    /\ viewerAt' = "failed" /\ why' = reason
    /\ UNCHANGED <<viewers, attempt, tries, typed>>

OnlyViewer == UNCHANGED <<hostAt, clockVars, hostSid, fresh, opened>>

\* run failed in a way that is_transient: the last attempt gives up, the others sleep.
SetupFails ==
    /\ viewerAt = "dial"
    /\ IF tries = SETUP_ATTEMPTS
         THEN GiveUp("setup")
         ELSE viewerAt' = "sleep" /\ UNCHANGED <<viewers, attempt, tries, typed, why>>
    /\ OnlyViewer /\ UNCHANGED <<inbox, toHost, toViewer>>

\* A refusal, or a peer that was never ready
SetupRefused ==
    /\ viewerAt = "dial" /\ GiveUp("refused")
    /\ OnlyViewer /\ UNCHANGED <<inbox, toHost, toViewer>>

Retry ==
    /\ viewerAt = "sleep"
    /\ viewerAt' = "dial"
    /\ attempt' = attempt + 1 /\ tries' = tries + 1
    /\ inbox' = Append(inbox, attempt + 1)
    /\ OnlyViewer /\ UNCHANGED <<viewers, typed, why, toHost, toViewer>>

Answers(type) == toViewer # <<>> /\ Head(toViewer).type = type /\ toViewer' = Tail(toViewer)

\* HelloAck: PinAuth::start
ViewerAck ==
    /\ viewerAt = "ack" /\ Answers("HelloAck")
    /\ toHost' = Append(toHost, Msg("AuthRequest", 0))
    /\ viewerAt' = "response"
    /\ OnlyViewer /\ UNCHANGED <<inbox, viewers, attempt, tries, typed, why>>

\* The tag of the host, and the confirmation
ViewerConfirm ==
    /\ viewerAt = "response" /\ Answers("AuthResponse")
    /\ IF TagMatches(Head(toViewer).content, Tag("host", typed, attempt))
         THEN /\ toHost' = Append(toHost, Msg("AuthConfirm", Tag("controller", typed, attempt)))
              /\ viewerAt' = "ready"
              /\ UNCHANGED <<viewers, attempt, tries, typed, why>>
         ELSE GiveUp("BadPin") /\ UNCHANGED toHost
    /\ OnlyViewer /\ UNCHANGED <<inbox>>

ViewerReady ==
    /\ viewerAt = "ready" /\ Answers("SessionReady")
    /\ viewerAt' = "stream"
    /\ OnlyViewer /\ UNCHANGED <<inbox, viewers, attempt, tries, typed, why, toHost>>

\* next_frame gave up or saw Closed; a failed handshake is not transient.
ViewerTimesOut ==
    /\ viewerAt \in {"ack", "response", "ready"}
    /\ GiveUp("handshake")
    /\ OnlyViewer /\ UNCHANGED <<inbox, toHost, toViewer>>

\* The user closes the window, or the host has closed the session.
ViewerStreamEnds ==
    /\ viewerAt = "stream"
    /\ viewerAt' = "over"
    /\ OnlyViewer /\ UNCHANGED <<inbox, viewers, attempt, tries, typed, why, toHost, toViewer>>

-----------------------------------------------------------------------------

Tick ==
    /\ pinAge <= PIN_TTL /\ ~(hostAt = "wait" /\ quiet = PIN_CHECK_INTERVAL)
    /\ pinAge' = pinAge + 1
    /\ quiet' = IF hostAt = "wait" THEN quiet + 1 ELSE quiet
    /\ UNCHANGED <<hostAt, fixedPin, pin, refreshes, inbox, hostSid, fresh, viewerVars, toHost,
                   toViewer, opened>>

HostStep ==
    \/ WaitTimesOut \/ StaleEnvelope \/ ConnectRequest \/ HostNegotiationFails
    \/ HostHello \/ HostRespond \/ HostConfirm \/ HostTimesOut \/ HostStreamEnds

ViewerStep ==
    \/ StartViewer \/ SetupFails \/ SetupRefused \/ Retry
    \/ ViewerAck \/ ViewerConfirm \/ ViewerReady \/ ViewerTimesOut \/ ViewerStreamEnds

SetupNext == HostStep \/ ViewerStep \/ Negotiated \/ Tick

\* Every wait of the set-up has a deadline: that of pump, STEP_TIMEOUT and the pause
\* between two attempts. A session may last for ever; the viewer notices a closed one.
SetupFairness ==
    /\ WF_setupVars(ConnectRequest)
    /\ WF_setupVars(HostNegotiationFails)
    /\ WF_setupVars(HostTimesOut)
    /\ WF_setupVars(SetupFails)
    /\ WF_setupVars(Retry)
    /\ WF_setupVars(ViewerTimesOut)

SetupSpec == SetupInit /\ [][SetupNext]_setupVars /\ SetupFairness

-----------------------------------------------------------------------------

\* The ranges of what host and viewer know of the set-up.
SetupTypeOK ==
    /\ hostAt \in {"wait", "negotiate", "stream"} \cup Handshake
    /\ fixedPin \in BOOLEAN /\ pin \in Nat \ {0} /\ pinAge \in 0..(PIN_TTL + 1)
    /\ quiet \in 0..PIN_CHECK_INTERVAL /\ refreshes \in 0..MaxRefreshes
    /\ hostSid \in 0..attempt /\ fresh \in BOOLEAN
    /\ viewerAt \in {"idle", "dial", "sleep", "ack", "response", "ready", "stream", "failed", "over"}
    /\ viewers \in 0..MaxViewers /\ tries \in 0..SETUP_ATTEMPTS /\ typed \in 0..pin
    /\ why \in {"none", "setup", "refused", "handshake", "BadPin"}

\* One drawn PIN opens one session: whatever fails, is retried or is left half done, no two
\* sessions are ever opened with the same draw (the serve loop draws one per session). The
\* digits of --pin are not for one session (the doc of fixed_pin, a_fixed_pin_survives_reissue).
OnePinOneSession == ~fixedPin => \A i, j \in DOMAIN opened : opened[i] = opened[j] => i = j

\* Both ends of a session knew its PIN: a viewer that believes it is connected was let in
\* with the PIN its user typed, and a host streams to the viewer that proved the PIN on
\* its screen (the two key confirmations of auth.rs).
BothKnewThePin ==
    /\ viewerAt \in {"stream", "over"} => \E i \in DOMAIN opened : opened[i] = typed
    /\ hostAt = "stream" /\ hostSid = attempt => typed = pin

\* A session has its own PIN unless the host has a fixed one, and both ends knew it.
PinOpensItsSession == SetupTypeOK /\ OnePinOneSession /\ BothKnewThePin

\* Nobody waits for ever: a viewer that was started is connected or has given up, and a
\* host that began a session streams or waits for the next one, although neither side
\* tells the other that it has given up (the deadlines of auth.rs and negotiate.rs).
SetupEnds ==
    /\ (viewerAt \in {"dial", "sleep", "ack", "response", "ready"})
            ~> (viewerAt \in {"stream", "failed", "over"})
    /\ (hostAt \in Handshake \cup {"negotiate"}) ~> (hostAt \in {"stream", "wait"})
=============================================================================
