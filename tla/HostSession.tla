----------------------------- MODULE HostSession -----------------------------
(***************************************************************************)
(* The host's authorization state machine (rda-host/src/session.rs) with   *)
(* the credentials it consults: the session PIN (rda-crypto/src/pake.rs),  *)
(* the fingerprint binding (binding.rs), the unattended tokens (token.rs), *)
(* the address book (identity.rs) and the audit log (rda-input/grant.rs).  *)
(* A set of sessions shares one address book, token store and audit log.   *)
(*                                                                         *)
(* Keys, tags and signatures are abstracted to what the code compares:     *)
(* whether the peer's derived key equals the host's, which role a tag was  *)
(* computed for, whose key signed a proof and over the right context.      *)
(***************************************************************************)
EXTENDS Integers, Sequences

CONSTANTS
    Sessions,            \* session identifiers
    Keys,                \* public identity keys
    DeviceIds,           \* device ids
    DeviceIdOf,          \* device_id_from_pubkey: a digest, so keys may share one
    PeerOf,              \* the device id each session's request came from
    Caps,                \* the capabilities of SessionCaps
    Jtis,                \* token identifiers
    CONSENT_TIMEOUT,     \* how long the local user has to answer
    PIN_TTL,             \* how long a PIN is valid
    MAX_PIN_ATTEMPTS,    \* SPAKE2 rounds one PIN may serve
    MAX_TOKEN_LIFETIME,  \* the longest token the host issues or honours
    AUDIT_CAPACITY,      \* AuditLog::capacity; 0 keeps everything
    MaxTime,             \* bound of the clock
    None                 \* Option::None

ASSUME ConstantsAssumption ==
    /\ DeviceIdOf \in [Keys -> DeviceIds]
    /\ PeerOf \in [Sessions -> DeviceIds]
    /\ CONSENT_TIMEOUT \in Nat /\ PIN_TTL \in Nat
    /\ MAX_PIN_ATTEMPTS \in Nat \ {0}
    /\ MAX_TOKEN_LIFETIME \in Nat /\ AUDIT_CAPACITY \in Nat /\ MaxTime \in Nat

VARIABLES
    now,           \* the clock the callers read
    state,         \* SessionState, "Absent" before the request arrives
    requested,     \* requested_caps
    consented,     \* consented_caps
    grant,         \* the SessionGrant, or None
    pin,           \* the PinVerifier's SessionPin, or None
    pending,       \* pending_key: None, or how it relates to the peer's own key
    startedAt,     \* started_at_ms
    peerIdentity,  \* peer_identity
    book,          \* AddressBook::entries
    issued,        \* tokens the host has signed
    revoked,       \* TokenStore::revoked
    audit,         \* AuditLog::entries
    proved,        \* history: sessions whose peer derived the host's key
    redeemed,      \* history: <<session, token, who signed the binding>>
    withdrawn      \* history: every jti ever revoked

sessionVars == <<state, requested, consented, grant, pin, pending, startedAt, peerIdentity>>
historyVars == <<proved, redeemed, withdrawn>>
vars == <<now, sessionVars, book, issued, revoked, audit, historyVars>>

States == {"Absent", "AwaitingConsent", "Authenticating", "AwaitingConfirmation",
           "Established", "Closed", "Failed"}
Methods == {"SessionPin", "UnattendedToken"}
Grants == [caps : SUBSET Caps, method : Methods]
Pins == [issued : 0..MaxTime, attempts : 0..MAX_PIN_ATTEMPTS, consumed : BOOLEAN]
Tokens == [sub : Keys, caps : SUBSET Caps, iat : Nat, exp : Nat, jti : Jtis]
AuditEvents == [event : {"SessionStarted", "SessionEnded", "CapabilitiesChanged",
                         "InjectionRefused"},
                sid : Sessions, caps : SUBSET Caps]

ASSUME NoneAssumption ==
    /\ None \notin Keys \cup {"same", "different"}
    /\ \A x \in SUBSET Caps : x # None
    /\ \A x \in Grants : x # None
    /\ \A x \in Pins : x # None

-----------------------------------------------------------------------------
(* Helpers: one per decision the code takes.                               *)

\* Fault of clamp_to: disjunction for conjunction.
ClampToWidens(caps, limit) == caps \cup limit
\* SessionCaps::clamp_to: field by field conjunction.
ClampTo(caps, limit) == caps \cap limit

\* AuditLog::record: the oldest entry makes room when the log is full.
Record(log, e) ==
    IF AUDIT_CAPACITY > 0 /\ Len(log) >= AUDIT_CAPACITY
    THEN Append(Tail(log), e)
    ELSE Append(log, e)

Entry(event, s, caps) == [event |-> event, sid |-> s, caps |-> caps]

\* Fault: the expiry is stored where the time of issue belongs.
FreshPinStoresExpiry == [issued |-> now + PIN_TTL, attempts |-> 0, consumed |-> FALSE]
\* SessionPin::generate and SessionPin::is_usable.
FreshPin == [issued |-> now, attempts |-> 0, consumed |-> FALSE]
IsUsable(p) == /\ ~p.consumed
               /\ p.attempts < MAX_PIN_ATTEMPTS
               /\ now - p.issued <= PIN_TTL

\* pake::confirm. Tags differ when the key or the role differs; the host's own
\* tag for the session is on the wire, so the peer can always send that back.
Confirm(key, role) == [key |-> key, role |-> role]
PeerKey(s) == IF pending[s] = "same" THEN "host_key" ELSE "other_key"
PeerTags(s) == {Confirm(PeerKey(s), r) : r \in {"host", "controller"}}
               \cup {Confirm("host_key", "host")}
\* Fault: the role is left out of the tag.
ConfirmMatchesAnyRole(s, tag) == tag.key = "host_key"
\* The check of complete_pin_auth: the host's key, in the controller's role.
ConfirmMatches(s, tag) == tag = Confirm("host_key", "controller")

\* BindingVerifier::verify with the host's local role and an expected device id.
\* sigOK: the signature is identity's, over this session's binding_input.
Proofs == [role : {"controller", "host"}, identity : Keys, sigOK : BOOLEAN]
BindingVerifies(s, proof) == /\ proof.role = "controller"
                             /\ DeviceIdOf[proof.identity] = PeerOf[s]
                             /\ proof.sigOK

\* Fault: off by one at the expiry.
TokenExpiredLate(t) == now > t.exp
TokenExpired(t) == now >= t.exp
\* TokenStore::verify. A token that was not signed by this host, or does not
\* decode, is the value None.
TokenVerifies(t, identity) == /\ t # None
                              /\ t.sub = identity
                              /\ t.exp - t.iat <= MAX_TOKEN_LIFETIME
                              /\ ~TokenExpired(t)
                              /\ t.jti \notin revoked

-----------------------------------------------------------------------------
Init == /\ now = 0
        /\ state = [s \in Sessions |-> "Absent"]
        /\ requested = [s \in Sessions |-> {}]
        /\ consented = [s \in Sessions |-> None]
        /\ grant = [s \in Sessions |-> None]
        /\ pin = [s \in Sessions |-> None]
        /\ pending = [s \in Sessions |-> None]
        /\ startedAt = [s \in Sessions |-> 0]
        /\ peerIdentity = [s \in Sessions |-> None]
        /\ book = [d \in DeviceIds |-> None]
        /\ issued = {}
        /\ revoked = {}
        /\ audit = <<>>
        /\ proved = {}
        /\ redeemed = {}
        /\ withdrawn = {}

Tick == /\ now < MaxTime
        /\ now' = now + 1
        /\ UNCHANGED <<sessionVars, book, issued, revoked, audit, historyVars>>

\* HostSession::new, when a connection request arrives.
New(s, caps) ==
    /\ state[s] = "Absent"
    /\ state' = [state EXCEPT ![s] = "AwaitingConsent"]
    /\ requested' = [requested EXCEPT ![s] = caps]
    /\ startedAt' = [startedAt EXCEPT ![s] = now]
    /\ UNCHANGED <<now, consented, grant, pin, pending, peerIdentity,
                   book, issued, revoked, audit, historyVars>>

\* HostSession::apply_consent: an answer after the window is a failure whatever
\* it says, a denial fails the session, an acceptance draws a PIN.
ConsentTimesOut(s) ==
    /\ state[s] = "AwaitingConsent"
    /\ now - startedAt[s] > CONSENT_TIMEOUT
    /\ state' = [state EXCEPT ![s] = "Failed"]
    /\ UNCHANGED <<now, requested, consented, grant, pin, pending, startedAt,
                   peerIdentity, book, issued, revoked, audit, historyVars>>

Deny(s) ==
    /\ state[s] = "AwaitingConsent"
    /\ now - startedAt[s] <= CONSENT_TIMEOUT
    /\ state' = [state EXCEPT ![s] = "Failed"]
    /\ audit' = Record(audit, Entry("InjectionRefused", s, {}))
    /\ UNCHANGED <<now, requested, consented, grant, pin, pending, startedAt,
                   peerIdentity, book, issued, revoked, historyVars>>

Allow(s, caps) ==
    /\ state[s] = "AwaitingConsent"
    /\ now - startedAt[s] <= CONSENT_TIMEOUT
    /\ consented' = [consented EXCEPT ![s] = ClampTo(requested[s], caps)]
    /\ pin' = [pin EXCEPT ![s] = FreshPin]
    /\ state' = [state EXCEPT ![s] = "Authenticating"]
    /\ UNCHANGED <<now, requested, grant, pending, startedAt, peerIdentity,
                   book, issued, revoked, audit, historyVars>>

\* HostSession::begin_pin_auth over PinVerifier::respond. The attempt is counted
\* before the round runs; a round that cannot finish fails the session, one
\* under a wrong PIN succeeds and leaves the two sides with different keys.
RoundRetries(s) == UNCHANGED state  \* fault: another round is allowed
RoundFails(s) == state' = [state EXCEPT ![s] = "Failed"]

PinUnusable(s) ==
    /\ state[s] = "Authenticating" /\ pin[s] # None
    /\ ~IsUsable(pin[s])
    /\ RoundFails(s)
    /\ UNCHANGED <<now, requested, consented, grant, pin, pending, startedAt,
                   peerIdentity, book, issued, revoked, audit, historyVars>>

PinRoundMalformed(s) ==
    /\ state[s] = "Authenticating" /\ pin[s] # None
    /\ IsUsable(pin[s])
    /\ pin' = [pin EXCEPT ![s].attempts = @ + 1]
    /\ RoundFails(s)
    /\ UNCHANGED <<now, requested, consented, grant, pending, startedAt,
                   peerIdentity, book, issued, revoked, audit, historyVars>>

PinRound(s, outcome) ==
    /\ state[s] = "Authenticating" /\ pin[s] # None
    /\ IsUsable(pin[s])
    /\ pin' = [pin EXCEPT ![s].attempts = @ + 1]
    /\ pending' = [pending EXCEPT ![s] = outcome]
    /\ state' = [state EXCEPT ![s] = "AwaitingConfirmation"]
    /\ UNCHANGED <<now, requested, consented, grant, startedAt, peerIdentity,
                   book, issued, revoked, audit, historyVars>>

\* AddressBook::check_and_pin: the first key seen for an id is remembered.
KeyChanged(k) == book[DeviceIdOf[k]] \notin {None, k}
CheckAndPin(k) == book' = [book EXCEPT ![DeviceIdOf[k]] = k]

\* HostSession::complete_pin_auth, in the order of its checks. The pending key
\* is taken first; a new peer is pinned before its binding is verified.
ConfirmationFails(s, tag) ==
    /\ state[s] = "AwaitingConfirmation"
    /\ ~ConfirmMatches(s, tag)
    /\ pending' = [pending EXCEPT ![s] = None]
    /\ state' = [state EXCEPT ![s] = "Failed"]
    /\ UNCHANGED <<now, requested, consented, grant, pin, startedAt,
                   peerIdentity, book, issued, revoked, audit, historyVars>>

PeerKeyChanged(s, tag, identity) ==
    /\ state[s] = "AwaitingConfirmation"
    /\ ConfirmMatches(s, tag)
    /\ KeyChanged(identity)
    /\ pending' = [pending EXCEPT ![s] = None]
    /\ state' = [state EXCEPT ![s] = "Failed"]
    /\ UNCHANGED <<now, requested, consented, grant, pin, startedAt,
                   peerIdentity, book, issued, revoked, audit, historyVars>>

PinBindingFails(s, tag, identity, proof) ==
    /\ state[s] = "AwaitingConfirmation"
    /\ ConfirmMatches(s, tag)
    /\ ~KeyChanged(identity)
    /\ CheckAndPin(identity)
    /\ ~BindingVerifies(s, proof)
    /\ pending' = [pending EXCEPT ![s] = None]
    /\ state' = [state EXCEPT ![s] = "Failed"]
    /\ UNCHANGED <<now, requested, consented, grant, pin, startedAt,
                   peerIdentity, issued, revoked, audit, historyVars>>

CompletePinAuth(s, tag, identity, proof) ==
    /\ state[s] = "AwaitingConfirmation"
    /\ ConfirmMatches(s, tag)
    /\ ~KeyChanged(identity)
    /\ CheckAndPin(identity)
    /\ BindingVerifies(s, proof)
    /\ pending' = [pending EXCEPT ![s] = None]
    /\ pin' = [pin EXCEPT ![s].consumed = TRUE]
    /\ peerIdentity' = [peerIdentity EXCEPT ![s] = identity]
    /\ audit' = Record(audit, Entry("SessionStarted", s, consented[s]))
    /\ grant' = [grant EXCEPT ![s] = [caps |-> consented[s], method |-> "SessionPin"]]
    /\ state' = [state EXCEPT ![s] = "Established"]
    /\ proved' = IF pending[s] = "same" THEN proved \cup {s} ELSE proved
    /\ UNCHANGED <<now, requested, consented, startedAt, issued, revoked,
                   redeemed, withdrawn>>

\* HostSession::authenticate_with_token: no consent needed, no address book.
TokenStatesAny(s) == state[s] # "Absent"  \* fault: the state guard is lost
TokenStates(s) == state[s] \in {"AwaitingConsent", "Authenticating"}

TokenRejected(s, t, identity) ==
    /\ TokenStates(s)
    /\ ~TokenVerifies(t, identity)
    /\ state' = [state EXCEPT ![s] = "Failed"]
    /\ UNCHANGED <<now, requested, consented, grant, pin, pending, startedAt,
                   peerIdentity, book, issued, revoked, audit, historyVars>>

TokenBindingFails(s, t, identity, proof) ==
    /\ TokenStates(s)
    /\ TokenVerifies(t, identity)
    /\ ~BindingVerifies(s, proof)
    /\ state' = [state EXCEPT ![s] = "Failed"]
    /\ UNCHANGED <<now, requested, consented, grant, pin, pending, startedAt,
                   peerIdentity, book, issued, revoked, audit, historyVars>>

AuthenticateWithToken(s, t, identity, proof) ==
    /\ TokenStates(s)
    /\ TokenVerifies(t, identity)
    /\ BindingVerifies(s, proof)
    /\ LET caps == ClampTo(requested[s], t.caps) IN
       /\ grant' = [grant EXCEPT ![s] = [caps |-> caps, method |-> "UnattendedToken"]]
       /\ audit' = Record(audit, Entry("SessionStarted", s, caps))
    /\ peerIdentity' = [peerIdentity EXCEPT ![s] = identity]
    /\ state' = [state EXCEPT ![s] = "Established"]
    /\ redeemed' = redeemed \cup {<<s, t, proof.identity>>}
    /\ UNCHANGED <<now, requested, consented, pin, pending, startedAt, book,
                   issued, revoked, proved, withdrawn>>

\* Fault: the narrowing is not logged.
RestrictSilently(s, to) ==
    /\ grant[s] # None
    /\ grant' = [grant EXCEPT ![s].caps = ClampTo(grant[s].caps, to)]
    /\ UNCHANGED <<now, state, requested, consented, pin, pending, startedAt,
                   peerIdentity, book, issued, revoked, audit, historyVars>>

\* HostSession::restrict: the log records the narrowed set, not the argument.
Restrict(s, to) ==
    /\ grant[s] # None
    /\ LET narrowed == ClampTo(grant[s].caps, to) IN
       /\ audit' = Record(audit, Entry("CapabilitiesChanged", s, narrowed))
       /\ grant' = [grant EXCEPT ![s].caps = narrowed]
    /\ UNCHANGED <<now, state, requested, consented, pin, pending, startedAt,
                   peerIdentity, book, issued, revoked, historyVars>>
\* HostSession::close, from every state but Closed, Failed included.
Close(s) ==
    /\ state[s] \notin {"Absent", "Closed"}
    /\ grant' = [grant EXCEPT ![s] = None]
    /\ pending' = [pending EXCEPT ![s] = None]
    /\ state' = [state EXCEPT ![s] = "Closed"]
    /\ audit' = Record(audit, Entry("SessionEnded", s, {}))
    /\ UNCHANGED <<now, requested, consented, pin, startedAt, peerIdentity,
                   book, issued, revoked, historyVars>>

\* TokenIssuer::issue: too long a lifetime is refused, and jtis are random.
Issue(k, caps, lifetime, j) ==
    /\ lifetime <= MAX_TOKEN_LIFETIME
    /\ \A t \in issued : t.jti # j
    /\ issued' = issued \cup {[sub |-> k, caps |-> caps, iat |-> now,
                               exp |-> now + lifetime, jti |-> j]}
    /\ UNCHANGED <<now, sessionVars, book, revoked, audit, historyVars>>

\* TokenStore::revoke and TokenStore::prune_expired (called with expired jtis).
Revoke(j) ==
    /\ revoked' = revoked \cup {j}
    /\ withdrawn' = withdrawn \cup {j}
    /\ UNCHANGED <<now, sessionVars, book, issued, audit, proved, redeemed>>

PruneExpired(J) ==
    /\ \A j \in J : \E t \in issued : t.jti = j /\ now >= t.exp
    /\ revoked' = revoked \ J
    /\ UNCHANGED <<now, sessionVars, book, issued, audit, historyVars>>

\* AddressBook::repin and AddressBook::forget, on the user's explicit request.
Repin(k) == /\ book' = [book EXCEPT ![DeviceIdOf[k]] = k]
            /\ UNCHANGED <<now, sessionVars, issued, revoked, audit, historyVars>>

Forget(d) == /\ book' = [book EXCEPT ![d] = None]
             /\ UNCHANGED <<now, sessionVars, issued, revoked, audit, historyVars>>

PinAuth(s) ==
    \/ PinUnusable(s) \/ PinRoundMalformed(s)
    \/ \E outcome \in {"same", "different"} : PinRound(s, outcome)
    \/ \E tag \in PeerTags(s) : ConfirmationFails(s, tag)
    \/ \E tag \in PeerTags(s), k \in Keys : PeerKeyChanged(s, tag, k)
    \/ \E tag \in PeerTags(s), k \in Keys, p \in Proofs :
          PinBindingFails(s, tag, k, p) \/ CompletePinAuth(s, tag, k, p)

TokenAuth(s) ==
    \E t \in issued \cup {None}, k \in Keys :
       \/ TokenRejected(s, t, k)
       \/ \E p \in Proofs : TokenBindingFails(s, t, k, p) \/ AuthenticateWithToken(s, t, k, p)

Stores ==
    \/ \E k \in Keys, c \in SUBSET Caps, l \in 0..MAX_TOKEN_LIFETIME, j \in Jtis : Issue(k, c, l, j)
    \/ \E j \in Jtis : Revoke(j)
    \/ \E J \in SUBSET Jtis : PruneExpired(J)
    \/ \E k \in Keys : Repin(k)
    \/ \E d \in DeviceIds : Forget(d)

Next ==
    \/ Tick
    \/ \E s \in Sessions :
          \/ \E c \in SUBSET Caps : New(s, c) \/ Allow(s, c) \/ Restrict(s, c)
          \/ ConsentTimesOut(s) \/ Deny(s) \/ PinAuth(s) \/ TokenAuth(s) \/ Close(s)
    \/ Stores

Spec == Init /\ [][Next]_vars
-----------------------------------------------------------------------------
(* Properties.                                                             *)

TypeOK ==
    /\ now \in 0..MaxTime
    /\ state \in [Sessions -> States]
    /\ requested \in [Sessions -> SUBSET Caps]
    /\ consented \in [Sessions -> (SUBSET Caps) \cup {None}]
    /\ grant \in [Sessions -> Grants \cup {None}]
    /\ pin \in [Sessions -> Pins \cup {None}]
    /\ pending \in [Sessions -> {"same", "different", None}]
    /\ startedAt \in [Sessions -> 0..MaxTime]
    /\ peerIdentity \in [Sessions -> Keys \cup {None}]
    /\ book \in [DeviceIds -> Keys \cup {None}]
    /\ issued \subseteq Tokens
    /\ revoked \subseteq Jtis
    /\ audit \in Seq(AuditEvents)
    /\ proved \subseteq Sessions
    /\ redeemed \subseteq Sessions \X Tokens \X Keys
    /\ withdrawn \subseteq Jtis

\* HostSession::grant documents that it is None in every state but Established:
\* no path leaves a grant behind, and none establishes a session without one.
GrantIffEstablished == \A s \in Sessions : grant[s] # None <=> state[s] = "Established"

\* A grant never exceeds its authority: what was asked for and, by the method it
\* came through, what the local user consented to or what the token carries.
GrantWithinAuthority ==
    \A s \in Sessions : grant[s] # None =>
       /\ grant[s].caps \subseteq requested[s]
       /\ grant[s].method = "SessionPin" =>
             consented[s] # None /\ grant[s].caps \subseteq consented[s]
       /\ grant[s].method = "UnattendedToken" =>
             \E r \in redeemed : r[1] = s /\ grant[s].caps \subseteq r[2].caps

\* A grant by PIN means the peer derived the same key, whatever tags it could
\* send: complete_pin_auth cannot be satisfied by the host's own tag echoed back.
PinGrantProvesPin ==
    \A s \in Sessions :
       grant[s] # None /\ grant[s].method = "SessionPin" => s \in proved

\* A session's PIN serves one SPAKE2 round: begin_pin_auth leaves Authenticating
\* whether the round works or not, so the attempt cap is never what stops it.
PinServesOneRound ==
    \A s \in Sessions : pin[s] # None =>
       /\ pin[s].attempts <= 1
       /\ pin[s].attempts = 1 => state[s] # "Authenticating"

\* A revoked token never opens a session again, even after prune_expired dropped
\* its jti from the revocation list.
WithdrawnTokenStaysOut ==
    [][\A r \in redeemed' \ redeemed : r[2].jti \notin withdrawn]_vars

\* What the audit log last says of a live session's capabilities is what its
\* grant allows; a live session is missing only from a log that is full.
CapsEntries(s) == {i \in 1..Len(audit) :
    audit[i].sid = s /\ audit[i].event \in {"SessionStarted", "CapabilitiesChanged"}}
AuditTracksGrant ==
    \A s \in Sessions : grant[s] # None =>
       \/ CapsEntries(s) = {} /\ AUDIT_CAPACITY > 0 /\ Len(audit) = AUDIT_CAPACITY
       \/ \E i \in CapsEntries(s) :
             /\ \A j \in CapsEntries(s) : j <= i
             /\ audit[i].caps = grant[s].caps

\* The state machine implements the gate: asked once, admitted at most once and
\* within what was asked, only ever narrowed, and over for good.
PhaseOf(s) == IF state[s] = "Absent" THEN "none"
              ELSE IF state[s] = "Established" THEN "open"
              ELSE IF state[s] \in {"Closed", "Failed"} THEN "over"
              ELSE "pending"
AllowedTo(s) == IF grant[s] = None THEN {} ELSE grant[s].caps
Gate == INSTANCE AuthorizationGate WITH
           phase <- [s \in Sessions |-> PhaseOf(s)],
           asked <- requested,
           allowed <- [s \in Sessions |-> AllowedTo(s)]
RefinesGate == Gate!Spec
=============================================================================
