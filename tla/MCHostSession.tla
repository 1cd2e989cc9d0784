---------------------------- MODULE MCHostSession ----------------------------
(* A small instance of HostSession: identity keys k1 and k3 share a device id, *)
(* so that a changed key can be met; every request comes from device d1. The  *)
(* variable scenario keeps a behaviour to one of two parts of the instance:   *)
(*   pin    two sessions by PIN, with a changed key and no token;             *)
(*   token  one session by token or PIN, with two devices and one token.      *)
EXTENDS HostSession

CONSTANTS k1, k2, k3, d1, d2, s2

MCDeviceIdOf == [k \in Keys |-> IF k = k2 THEN d2 ELSE d1]
MCPeerOf == [s \in Sessions |-> d1]

VARIABLE scenario

\* The keys that a state knows of.
KeysSeen == {book[d] : d \in DeviceIds} \cup {peerIdentity[s] : s \in Sessions}
            \cup {r[3] : r \in redeemed} \cup {t.sub : t \in issued}

Within == IF scenario = "pin"
            THEN issued = {} /\ withdrawn = {} /\ k2 \notin KeysSeen
            ELSE state[s2] = "Absent" /\ k3 \notin KeysSeen

ScenarioInit == Init /\ scenario \in {"pin", "token"}
ScenarioNext == Next /\ UNCHANGED scenario /\ Within'
ScenarioSpec == ScenarioInit /\ [][ScenarioNext]_<<vars, scenario>>
=============================================================================
