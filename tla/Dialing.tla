------------------------------- MODULE Dialing -------------------------------
(***************************************************************************)
(* From the identifier a user types to the relays the two peers try: the   *)
(* viewer parses what was typed, the identifier travels grouped and is     *)
(* parsed again (rda-proto/ids.rs), and the server ranks its points of     *)
(* presence by what the two peers measured, and mints credentials for the  *)
(* best of them (rda-signal-server/relay.rs and ws.rs).                    *)
(*                                                                         *)
(* A character is <<its capital, whether it is one>>; a PoP is a number,   *)
(* in the order of the codes. SignalServer has the sessions, and who is    *)
(* online; here every device is registered.                                *)
(***************************************************************************)
EXTENDS Naturals, Sequences, FiniteSets, SequencesExt, Listing

CONSTANTS
    DEVICE_ID_LEN,       \* in three groups
    DeviceIds,           \* sequences of characters, as device_id_from_pubkey derives them
    Texts,               \* what users type
    Fleets,              \* the configurations of the server: sequences of PoPs
    ProbeVectors,        \* what a device may have measured: functions of the PoPs it probed
    UNMEASURED,          \* counted for a PoP that was not probed
    U32_MAX,             \* where a sum of two measurements saturates
    RELAY_POPS,          \* MAX_RELAY_POPS, as the server counts
    MAX_TTL, RELAY_TTL,  \* the longest life of a credential, and the one configured
    Invalid, NoOne       \* no identifier, no credentials

Crockford == {"0", "1", "2", "3", "4", "5", "6", "7", "8", "9", "A", "B", "C", "D", "E", "F", "G",
              "H", "J", "K", "M", "N", "P", "Q", "R", "S", "T", "V", "W", "X", "Y", "Z"}
Separators == {"-", " "}

ASSUME DialingAssumption ==
    /\ DEVICE_ID_LEN \in Nat /\ DEVICE_ID_LEN % 3 = 0
    /\ DeviceIds \subseteq [1..DEVICE_ID_LEN -> Crockford] /\ Invalid \notin DeviceIds
    /\ \A text \in Texts : Len(text) \in Nat /\ DOMAIN text = 1..Len(text)
    /\ \A pops \in Fleets : pops \in Seq(Nat) /\ IsInjective(pops)
    /\ \A measured \in ProbeVectors : \A pop \in DOMAIN measured : measured[pop] \in Nat
    /\ UNMEASURED \in Nat /\ U32_MAX \in Nat /\ RELAY_POPS \in Nat
    /\ MAX_TTL \in Nat /\ RELAY_TTL \in Nat

VARIABLES
    fleet,               \* AppState::pops
    probes,              \* pop_rtt of each registration: a function of the PoPs probed
    dialled,             \* the text the viewer was started with
    peer,                \* what the viewer read in it
    minted               \* the credentials both peers were sent: [host, stun, relays, ttl, order]

dialingVars == <<fleet, probes, dialled, peer, minted>>

-----------------------------------------------------------------------------
(* Identifiers                                                             *)

\* Mutant: the letters that look like digits are taken for themselves.
PlainGlyph(capital) == capital

\* A reader's I and L are 1, and the O is 0.
Glyph(capital) ==
    IF capital \in {"I", "L"} THEN "1" ELSE IF capital = "O" THEN "0" ELSE capital

\* The places of a text that are no separators.
Places(text) == {i \in DOMAIN text : text[i][1] \notin Separators}

\* DeviceId::parse: separators are skipped, capitals and small letters are one, and a
\* character outside the alphabet or a wrong length refuses the text.
Parse(text) ==
    LET at == Ascending(Places(text))
        out == [i \in DOMAIN at |-> Glyph(text[at[i]][1])]
    IN  IF out \in [1..DEVICE_ID_LEN -> Crockford] THEN out ELSE Invalid

\* DeviceId::grouped, the form that is displayed and sent.
Grouped(id) ==
    LET size == DEVICE_ID_LEN \div 3
        group(g) == [i \in 1..size |-> <<id[(g - 1) * size + i], TRUE>>]
    IN  group(1) \o <<<<"-", TRUE>>>> \o group(2) \o <<<<"-", TRUE>>>> \o group(3)

-----------------------------------------------------------------------------
(* Relays                                                                  *)

Rtt(device, pop) == IF pop \in DOMAIN probes[device] THEN probes[device][pop] ELSE UNMEASURED

\* What a path through the PoP costs the pair, as rank_pops scores it: saturating_add.
Score(controller, host, pop) ==
    LET sum == Rtt(controller, pop) + Rtt(host, pop)
    IN  IF sum > U32_MAX THEN U32_MAX ELSE sum

\* The order of rank_pops: by score, then by code.
Ahead(controller, host, p, q) ==
    LET a == Score(controller, host, p)
        b == Score(controller, host, q)
    IN  a < b \/ (a = b /\ p < q)

\* rank_pops
RankPops(controller, host) ==
    CHOOSE ranked \in [DOMAIN fleet -> ToSet(fleet)] :
        \A i, j \in DOMAIN fleet : i < j => Ahead(controller, host, ranked[i], ranked[j])

\* build_relay_credentials: a STUN address of every PoP, TURN of the first ones.
BuildRelayCredentials(controller, host) ==
    LET ranked == RankPops(controller, host)
        top == IF Len(ranked) < RELAY_POPS THEN Len(ranked) ELSE RELAY_POPS
    IN  [controller |-> controller, host |-> host,
         stun |-> ToSet(fleet),
         relays |-> SubSeq(ranked, 1, top),
         ttl |-> IF RELAY_TTL < MAX_TTL THEN RELAY_TTL ELSE MAX_TTL,
         order |-> ranked]

-----------------------------------------------------------------------------

DialingInit ==
    /\ fleet \in Fleets
    /\ probes = [d \in DeviceIds |-> [p \in {} |-> UNMEASURED]]
    /\ dialled = <<>> /\ peer = Invalid /\ minted = NoOne

\* A device registers again with what it has measured since.
Reregister ==
    /\ \E d \in DeviceIds, measured \in ProbeVectors : probes' = [probes EXCEPT ![d] = measured]
    /\ minted' = NoOne
    /\ UNCHANGED <<fleet, dialled, peer>>

\* The viewer reads the identifier it was given: main and rda_client_set_peer.
SetPeer ==
    /\ dialled' \in Texts
    /\ peer' = Parse(dialled')
    /\ minted' = NoOne
    /\ UNCHANGED <<fleet, probes>>

\* connect_request: the identifier is read from the envelope, and both peers get what
\* is minted.
RouteCall ==
    /\ peer # Invalid /\ minted = NoOne
    /\ LET target == Parse(Grouped(peer))
       IN  /\ target \in DeviceIds
           /\ \E controller \in DeviceIds \ {target} :
                minted' = BuildRelayCredentials(controller, target)
    /\ UNCHANGED <<fleet, probes, dialled, peer>>

DialingNext == Reregister \/ SetPeer \/ RouteCall

DialingSpec == DialingInit /\ [][DialingNext]_dialingVars

-----------------------------------------------------------------------------

\* The characters a person may write for one of an identifier that is read out.
Written(c) ==
    {c} \cup (IF c = "1" THEN {"I", "L"} ELSE IF c = "0" THEN {"O"} ELSE {})

\* Whether the text is a way of writing the identifier, grouped as one likes.
IsWriting(text, id) ==
    LET at(i) == Cardinality({j \in Places(text) : j <= i})
    IN  /\ Cardinality(Places(text)) = Len(id)
        /\ \A i \in Places(text) : text[i][1] \in Written(id[at(i)])

\* The host that is asked is the one whose identifier the user wrote, in whatever
\* reasonable way (parse, over the grouped form on the wire), and a text that could be
\* no device's is refused by the viewer.
DialReachesTheDevice ==
    /\ minted # NoOne => IsWriting(dialled, minted.host)
    /\ dialled # <<>> => \A id \in DeviceIds : IsWriting(dialled, id) <=> peer = id

\* The relays of a pair are the ones that cost it least, as both peers measured last, and
\* depend on nothing else, not on the order the fleet is configured in: a PoP is used
\* exactly when fewer PoPs than may be used come before it. Every PoP is listed, and helps
\* to find a direct path (rank_pops, build_relay_credentials).
RelaysAreCheapest ==
    minted # NoOne =>
        LET before(p) == {q \in ToSet(fleet) : Ahead(minted.controller, minted.host, q, p)}
        IN  /\ ToSet(minted.relays) = {p \in ToSet(fleet) : Cardinality(before(p)) < RELAY_POPS}
            /\ ToSet(minted.order) = ToSet(fleet) /\ Len(minted.order) = Len(fleet)
            /\ minted.stun = ToSet(fleet) /\ minted.ttl <= MAX_TTL

\* The right device is called, over the right relays.
DialingIsRight == DialReachesTheDevice /\ RelaysAreCheapest
=============================================================================
