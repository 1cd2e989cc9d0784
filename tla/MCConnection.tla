---------------------------- MODULE MCConnection ----------------------------
(* The values of the constants with which the opening of a session is checked, *)
(* and beside it the signaling server with all its connections: routing says   *)
(* that a behaviour takes the steps of the server.                             *)
EXTENDS Connection, MCSignalServer

VARIABLE routing

\* Two event classes with different limits, over two windows.
MCLimits == [c \in Classes |-> IF c = "key" THEN 1 ELSE 2]
\* More relays than may be used, with another server between them.
MCServerLists == {<<"turn", "stun", "turn">>}

\* Identifiers with digits that have look-alikes, and ways to write them or to go wrong.
MCDeviceIds == {<<"1", "0", "A">>, <<"1", "1", "A">>}
Capital(glyphs) == [i \in DOMAIN glyphs |-> <<glyphs[i], TRUE>>]
MCDialTexts ==
    {Capital(t) : t \in {<<"1", "-", "0", "-", "A">>, <<"1", "1", "A">>, <<"L", "O", "A">>,
                         <<"I", "-", "L", "A">>, <<"O", "O", "A">>, <<"1", "U", "A">>, <<"1", "0">>,
                         <<"1", "0", "A", "A">>}}
    \cup {<<<<"I", FALSE>>, <<"O", FALSE>>, <<" ", TRUE>>, <<"A", FALSE>>>>}
\* One fleet in two orders, a single PoP, none; probes that tie, that are slower than
\* UNMEASURED, and that are missing.
MCFleets == {<<2, 1, 3>>, <<3, 1, 2>>, <<1>>, <<>>}
MCProbeVectors == {<<>>, <<4>>, <<4, 6>>, <<4, 4, 4>>, <<6, 4, 3>>, [p \in {3} |-> 12]}

CallsInit == ConnectionInit /\ Init /\ routing \in BOOLEAN /\ (routing => part = "guard")

CallsNext ==
    /\ UNCHANGED routing
    /\ \/ ~routing /\ ConnectionNext /\ UNCHANGED vars
       \/ routing /\ Next /\ UNCHANGED connectionVars

CallsSpec ==
    /\ CallsInit /\ [][CallsNext]_<<routing, connectionVars, vars>>
    /\ RegFairness /\ SetupFairness /\ TransportFairness
    /\ \A c \in Conns : WF_vars(Teardown(c))
=============================================================================
