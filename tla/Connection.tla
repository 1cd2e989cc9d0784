----------------------------- MODULE Connection -----------------------------
(* What it takes to open a session: the key file, a signaling connection, the *)
(* call of a device and the choice of relays, the set-up of a session, the    *)
(* transport, and the limit on what the session may then send. The variable   *)
(* part names the component whose steps a behaviour takes; the others share   *)
(* no state with it and keep their initial states.                            *)
EXTENDS Registration, Dialing, SessionSetup, Transport, KeyFile, RateGuard

VARIABLE part
Parts == {"registration", "dialing", "setup", "transport", "keyfile", "guard"}
connectionVars == <<part, regVars, dialingVars, setupVars, transportVars, keyVars, guardVars>>

ConnectionInit ==
    /\ part \in Parts
    /\ DialingInit /\ (part # "dialing" => fleet = <<1>>)
    /\ SetupInit /\ (part # "setup" => ~fixedPin)
    /\ RegInit /\ TransportInit /\ KeyInit /\ GuardInit

\* The components other than p stand still.
Others(p) ==
    /\ (p # "registration") => UNCHANGED regVars
    /\ (p # "dialing") => UNCHANGED dialingVars
    /\ (p # "setup") => UNCHANGED setupVars
    /\ (p # "transport") => UNCHANGED transportVars
    /\ (p # "keyfile") => UNCHANGED keyVars
    /\ (p # "guard") => UNCHANGED guardVars
    /\ UNCHANGED part

ConnectionNext ==
    \/ part = "registration" /\ RegNext /\ Others("registration")
    \/ part = "dialing" /\ DialingNext /\ Others("dialing")
    \/ part = "setup" /\ SetupNext /\ Others("setup")
    \/ part = "transport" /\ TransportNext /\ Others("transport")
    \/ part = "keyfile" /\ KeyNext /\ Others("keyfile")
    \/ part = "guard" /\ GuardNext /\ Others("guard")

\* No action that fairness is stated for is enabled in an initial state, so that
\* the fairness of a component asks nothing of the behaviours of another.
ConnectionSpec ==
    /\ ConnectionInit /\ [][ConnectionNext]_connectionVars
    /\ RegFairness /\ SetupFairness /\ TransportFairness

\* A call reaches the device that was dialled, by relays that are nearest and not too
\* many (ids.rs, relay.rs of the server, and ice.rs of the peers).
CallsReachTheirDevice == DialingIsRight /\ RelaysCapped
=============================================================================
