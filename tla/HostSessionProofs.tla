-------------------------- MODULE HostSessionProofs --------------------------
(***************************************************************************)
(* Proofs about HostSession for every set of sessions, keys, capabilities  *)
(* and tokens, and every value of the timeouts and limits.                 *)
(***************************************************************************)
EXTENDS HostSession, TLAPS

\* What AuditLog::record returns is a log of audit events again.
LEMMA RecordType ==
    ASSUME NEW log \in Seq(AuditEvents), NEW e \in AuditEvents
    PROVE  Record(log, e) \in Seq(AuditEvents)
BY ConstantsAssumption DEF Record

\* The entries the operations write are audit events.
LEMMA EntryType ==
    ASSUME NEW s \in Sessions, NEW c \in SUBSET Caps,
           NEW e \in {"SessionStarted", "SessionEnded", "CapabilitiesChanged",
                      "InjectionRefused"}
    PROVE  Entry(e, s, c) \in AuditEvents
BY DEF Entry, AuditEvents

\* A peer can only present a matching tag when its key is the host's: the
\* role in pake::confirm keeps the host's own tag from matching.
LEMMA MatchingTagMeansSameKey ==
    ASSUME NEW s \in Sessions, NEW tag \in PeerTags(s), ConfirmMatches(s, tag)
    PROVE  pending[s] = "same"
BY DEF PeerTags, PeerKey, Confirm, ConfirmMatches

\* PinVerifier::respond counts the first round and keeps the PIN well formed.
LEMMA FirstAttempt ==
    ASSUME NEW p \in Pins, p.attempts = 0
    PROVE  LET q == [p EXCEPT !.attempts = @ + 1]
           IN  q \in Pins /\ q.attempts = 1 /\ q # None
<1> DEFINE q == [p EXCEPT !.attempts = @ + 1]
<1>1. 1 \in 0..MAX_PIN_ATTEMPTS
  BY ConstantsAssumption
<1>2. q \in Pins /\ q.attempts = 1
  BY <1>1 DEF Pins
<1> QED BY <1>2, NoneAssumption

-----------------------------------------------------------------------------
\* In Authenticating and AwaitingConfirmation the user has consented and a PIN
\* was drawn; the consented set is within the request.
ConsentRecorded ==
    \A s \in Sessions :
       /\ state[s] \in {"Absent", "AwaitingConsent"} => consented[s] = None
       /\ state[s] \in {"Authenticating", "AwaitingConfirmation"} =>
             consented[s] # None /\ pin[s] # None
       /\ consented[s] # None => consented[s] \subseteq requested[s]
       /\ state[s] = "Authenticating" => pin[s].attempts = 0

IInv == /\ TypeOK
        /\ ConsentRecorded
        /\ GrantIffEstablished
        /\ GrantWithinAuthority
        /\ PinGrantProvesPin
        /\ PinServesOneRound

\* Steps that touch no session (the clock, the token store, the address book).
LEMMA StoreStep ==
    ASSUME IInv, Tick \/ Stores
    PROVE  IInv'
<1> USE DEF IInv, TypeOK, sessionVars, historyVars
<1>1. UNCHANGED sessionVars /\ UNCHANGED <<audit, proved, redeemed>>
  BY DEF Tick, Stores, Issue, Revoke, PruneExpired, Repin, Forget
<1>2. TypeOK'
  <2>1. now' \in 0..MaxTime
    BY ConstantsAssumption DEF Tick, Stores, Issue, Revoke, PruneExpired, Repin, Forget
  <2>2. issued' \subseteq Tokens
    BY ConstantsAssumption DEF Tick, Stores, Issue, Revoke, PruneExpired, Repin, Forget, Tokens
  <2>3. revoked' \subseteq Jtis /\ withdrawn' \subseteq Jtis
    BY DEF Tick, Stores, Issue, Revoke, PruneExpired, Repin, Forget
  <2>4. book' \in [DeviceIds -> Keys \cup {None}]
    BY ConstantsAssumption DEF Tick, Stores, Issue, Revoke, PruneExpired, Repin, Forget
  <2> QED BY <1>1, <2>1, <2>2, <2>3, <2>4
<1>3. ConsentRecorded' /\ GrantIffEstablished' /\ GrantWithinAuthority'
  BY <1>1 DEF ConsentRecorded, GrantIffEstablished, GrantWithinAuthority
<1>4. PinGrantProvesPin' /\ PinServesOneRound'
  BY <1>1 DEF PinGrantProvesPin, PinServesOneRound
<1> QED BY <1>2, <1>3, <1>4

\* The request and the local user's answer.
LEMMA ConsentStep ==
    ASSUME IInv, NEW s \in Sessions, NEW c \in SUBSET Caps,
           New(s, c) \/ Allow(s, c) \/ ConsentTimesOut(s) \/ Deny(s)
    PROVE  IInv'
<1> USE DEF IInv, TypeOK, historyVars, States
<1>1. CASE New(s, c)
  <2>1. TypeOK'
    BY <1>1 DEF New
  <2>2. ConsentRecorded' /\ GrantIffEstablished'
    BY <1>1, NoneAssumption DEF New, ConsentRecorded, GrantIffEstablished
  <2>3. GrantWithinAuthority' /\ PinGrantProvesPin' /\ PinServesOneRound'
    BY <1>1 DEF New, GrantIffEstablished, GrantWithinAuthority, PinGrantProvesPin, PinServesOneRound
  <2> QED BY <2>1, <2>2, <2>3
<1>2. CASE Allow(s, c)
  <2>1. FreshPin \in Pins /\ FreshPin # None /\ FreshPin.attempts = 0
    <3>1. FreshPin \in Pins /\ FreshPin.attempts = 0
      BY ConstantsAssumption DEF FreshPin, Pins
    <3> QED BY <3>1, NoneAssumption
  <2>2. ClampTo(requested[s], c) \in SUBSET requested[s] /\ ClampTo(requested[s], c) # None
    BY NoneAssumption DEF ClampTo
  <2>3. TypeOK'
    BY <1>2, <2>1, <2>2 DEF Allow
  <2>4. ConsentRecorded' /\ PinServesOneRound'
    BY <1>2, <2>1, <2>2 DEF Allow, ConsentRecorded, PinServesOneRound
  <2>5. GrantIffEstablished' /\ GrantWithinAuthority' /\ PinGrantProvesPin'
    BY <1>2 DEF Allow, GrantIffEstablished, GrantWithinAuthority, PinGrantProvesPin
  <2> QED BY <2>3, <2>4, <2>5
<1>3. CASE ConsentTimesOut(s) \/ Deny(s)
  <2>1. audit' \in Seq(AuditEvents)
    <3>1. Entry("InjectionRefused", s, {}) \in AuditEvents
      BY EntryType
    <3> QED BY <1>3, <3>1, RecordType DEF ConsentTimesOut, Deny
  <2>2. /\ state[s] = "AwaitingConsent" /\ state' = [state EXCEPT ![s] = "Failed"]
        /\ UNCHANGED <<now, requested, consented, grant, pin, pending, startedAt,
                       peerIdentity, book, issued, revoked, historyVars>>
    BY <1>3 DEF ConsentTimesOut, Deny
  <2>3. TypeOK'
    BY <2>1, <2>2
  <2>4. ConsentRecorded' /\ PinServesOneRound' /\ GrantIffEstablished'
    BY <2>2 DEF ConsentRecorded, PinServesOneRound, GrantIffEstablished
  <2>5. GrantWithinAuthority' /\ PinGrantProvesPin'
    BY <2>2 DEF GrantWithinAuthority, PinGrantProvesPin
  <2> QED BY <2>3, <2>4, <2>5
<1> QED BY <1>1, <1>2, <1>3

\* The failing steps of both authentication paths: the session fails, at most
\* the PIN's attempt count, the pending key and the address book change with it.
LEMMA FailStep ==
    ASSUME IInv, NEW s \in Sessions,
           /\ state[s] \in {"AwaitingConsent", "Authenticating", "AwaitingConfirmation"}
           /\ state' = [state EXCEPT ![s] = "Failed"]
           /\ \/ UNCHANGED pin
              \/ /\ state[s] = "Authenticating"
                 /\ IsUsable(pin[s])
                 /\ pin' = [pin EXCEPT ![s].attempts = @ + 1]
           /\ pending' \in [Sessions -> {"same", "different", None}]
           /\ book' \in [DeviceIds -> Keys \cup {None}]
           /\ UNCHANGED <<now, requested, consented, grant, startedAt, peerIdentity,
                          issued, revoked, audit, historyVars>>
    PROVE  IInv'
<1> USE DEF IInv, TypeOK, historyVars, States
<1>1. \/ UNCHANGED pin
      \/ /\ pin[s] \in Pins /\ pin[s].attempts = 0
         /\ pin' = [pin EXCEPT ![s].attempts = @ + 1]
         /\ pin'[s] \in Pins /\ pin'[s].attempts = 1
  <2> SUFFICES ASSUME state[s] = "Authenticating", IsUsable(pin[s]),
                      pin' = [pin EXCEPT ![s].attempts = @ + 1]
               PROVE  /\ pin[s] \in Pins /\ pin[s].attempts = 0
                      /\ pin'[s] \in Pins /\ pin'[s].attempts = 1
    OBVIOUS
  <2>1. pin[s] \in Pins /\ pin[s].attempts = 0
    BY DEF ConsentRecorded
  <2>2. pin'[s] = [pin[s] EXCEPT !.attempts = @ + 1]
    OBVIOUS
  <2> QED BY <2>1, <2>2, FirstAttempt
<1>2. TypeOK'
  BY <1>1
<1>3. ConsentRecorded' /\ GrantIffEstablished'
  BY <1>1 DEF ConsentRecorded, GrantIffEstablished
<1>4. GrantWithinAuthority' /\ PinGrantProvesPin'
  BY DEF GrantWithinAuthority, PinGrantProvesPin
<1>5. PinServesOneRound'
  BY <1>1 DEF PinServesOneRound
<1> QED BY <1>2, <1>3, <1>4, <1>5

\* A SPAKE2 round that runs: the session now waits for the confirmation.
LEMMA RoundStep ==
    ASSUME IInv, NEW s \in Sessions, NEW o \in {"same", "different"}, PinRound(s, o)
    PROVE  IInv'
<1> USE DEF IInv, historyVars
<1>1. pin[s] \in Pins /\ pin[s].attempts = 0
  BY DEF TypeOK, PinRound, ConsentRecorded
<1>2. pin'[s] \in Pins /\ pin'[s].attempts = 1 /\ pin'[s] # None
  <2>1. pin'[s] = [pin[s] EXCEPT !.attempts = @ + 1]
    BY DEF PinRound, TypeOK
  <2> QED BY <1>1, <2>1, FirstAttempt
<1>3. TypeOK'
  BY <1>2 DEF PinRound, TypeOK, States
<1>4. ConsentRecorded' /\ PinServesOneRound' /\ GrantIffEstablished'
  BY <1>2 DEF PinRound, TypeOK, ConsentRecorded, PinServesOneRound, GrantIffEstablished
<1>5. GrantWithinAuthority' /\ PinGrantProvesPin'
  BY DEF PinRound, TypeOK, GrantWithinAuthority, PinGrantProvesPin
<1> QED BY <1>3, <1>4, <1>5

\* The step that issues a grant by PIN.
LEMMA PinAdmitStep ==
    ASSUME IInv, NEW s \in Sessions, NEW tag \in PeerTags(s), NEW k \in Keys,
           NEW p \in Proofs, CompletePinAuth(s, tag, k, p)
    PROVE  IInv'
<1> USE DEF IInv
<1> DEFINE g == [caps |-> consented[s], method |-> "SessionPin"]
<1>1. consented[s] \in SUBSET Caps /\ consented[s] \subseteq requested[s]
  BY DEF TypeOK, CompletePinAuth, ConsentRecorded
<1>2. g \in Grants /\ g # None
  <2>1. g \in Grants
    BY <1>1 DEF Grants, Methods
  <2> QED BY <2>1, NoneAssumption
<1>3. grant'[s] = g /\ \A x \in Sessions \ {s} : grant'[x] = grant[x]
  BY DEF TypeOK, CompletePinAuth
<1>4. pin[s] \in Pins /\ pin'[s] \in Pins /\ pin'[s].attempts = pin[s].attempts
  <2>1. pin[s] \in Pins
    BY DEF TypeOK, CompletePinAuth, ConsentRecorded
  <2>2. pin'[s] = [pin[s] EXCEPT !.consumed = TRUE]
    BY DEF TypeOK, CompletePinAuth
  <2> QED BY <2>1, <2>2 DEF Pins
<1>5. TypeOK'
  <2>1. audit' \in Seq(AuditEvents)
    <3>1. Entry("SessionStarted", s, consented[s]) \in AuditEvents
      BY <1>1, EntryType
    <3> QED BY <3>1, RecordType DEF CompletePinAuth, TypeOK
  <2>2. book' \in [DeviceIds -> Keys \cup {None}]
    BY ConstantsAssumption DEF CompletePinAuth, CheckAndPin, TypeOK
  <2> QED BY <1>2, <1>4, <2>1, <2>2 DEF CompletePinAuth, TypeOK, States
<1>6. ConsentRecorded' /\ PinServesOneRound'
  BY <1>4 DEF CompletePinAuth, TypeOK, ConsentRecorded, PinServesOneRound
<1>7. GrantIffEstablished'
  BY <1>2, <1>3 DEF CompletePinAuth, TypeOK, GrantIffEstablished
<1>8. GrantWithinAuthority'
  <2> SUFFICES ASSUME NEW x \in Sessions, grant'[x] # None
               PROVE  /\ grant'[x].caps \subseteq requested'[x]
                      /\ grant'[x].method = "SessionPin" =>
                           consented'[x] # None /\ grant'[x].caps \subseteq consented'[x]
                      /\ grant'[x].method = "UnattendedToken" =>
                           \E r \in redeemed' : r[1] = x /\ grant'[x].caps \subseteq r[2].caps
    BY DEF GrantWithinAuthority
  <2>1. UNCHANGED <<requested, consented, redeemed>>
    BY DEF CompletePinAuth
  <2>2. CASE x = s
    <3>1. grant'[x].caps = consented[s] /\ grant'[x].method = "SessionPin"
      BY <1>3, <2>2
    <3>2. consented[s] # None
      BY <1>1, NoneAssumption
    <3> QED BY <1>1, <2>1, <2>2, <3>1, <3>2
  <2>3. CASE x # s
    <3>1. grant'[x] = grant[x]
      BY <1>3, <2>3
    <3> QED BY <2>1, <2>3, <3>1 DEF GrantWithinAuthority
  <2> QED BY <2>2, <2>3
<1>9. PinGrantProvesPin'
  <2>1. s \in proved'
    BY MatchingTagMeansSameKey DEF CompletePinAuth
  <2> QED BY <1>3, <2>1 DEF CompletePinAuth, PinGrantProvesPin
<1> QED BY <1>5, <1>6, <1>7, <1>8, <1>9

\* The step that issues a grant from a token.
LEMMA TokenAdmitStep ==
    ASSUME IInv, NEW s \in Sessions, NEW t \in issued \cup {None}, NEW k \in Keys,
           NEW p \in Proofs, AuthenticateWithToken(s, t, k, p)
    PROVE  IInv'
<1> USE DEF IInv
<1> DEFINE c == ClampTo(requested[s], t.caps)
           g == [caps |-> c, method |-> "UnattendedToken"]
<1>1. t \in Tokens
  BY DEF AuthenticateWithToken, TokenVerifies, TypeOK
<1>2. c \in SUBSET Caps /\ c \subseteq requested[s] /\ c \subseteq t.caps
  BY DEF ClampTo, TypeOK
<1>3. g \in Grants /\ g # None
  <2>1. g \in Grants
    BY <1>2 DEF Grants, Methods
  <2> QED BY <2>1, NoneAssumption
<1>4. grant'[s] = g /\ \A x \in Sessions \ {s} : grant'[x] = grant[x]
  BY DEF TypeOK, AuthenticateWithToken
<1>5. <<s, t, p.identity>> \in redeemed' /\ redeemed \subseteq redeemed'
  BY DEF AuthenticateWithToken
<1>6. TypeOK'
  <2>1. audit' \in Seq(AuditEvents)
    <3>1. Entry("SessionStarted", s, c) \in AuditEvents
      BY <1>2, EntryType
    <3> QED BY <3>1, RecordType DEF AuthenticateWithToken, TypeOK
  <2>2. p.identity \in Keys
    BY DEF Proofs
  <2>3. redeemed' \subseteq Sessions \X Tokens \X Keys
    BY <1>1, <2>2 DEF AuthenticateWithToken, TypeOK
  <2>4. grant' \in [Sessions -> Grants \cup {None}]
    BY <1>3 DEF AuthenticateWithToken, TypeOK
  <2> QED BY <2>1, <2>3, <2>4 DEF AuthenticateWithToken, TypeOK, States
<1>7. ConsentRecorded' /\ PinServesOneRound'
  BY DEF AuthenticateWithToken, TypeOK, ConsentRecorded, PinServesOneRound
<1>8. GrantIffEstablished'
  BY <1>3, <1>4 DEF AuthenticateWithToken, TypeOK, GrantIffEstablished
<1>9. GrantWithinAuthority'
  <2> SUFFICES ASSUME NEW x \in Sessions, grant'[x] # None
               PROVE  /\ grant'[x].caps \subseteq requested'[x]
                      /\ grant'[x].method = "SessionPin" =>
                           consented'[x] # None /\ grant'[x].caps \subseteq consented'[x]
                      /\ grant'[x].method = "UnattendedToken" =>
                           \E r \in redeemed' : r[1] = x /\ grant'[x].caps \subseteq r[2].caps
    BY DEF GrantWithinAuthority
  <2>1. UNCHANGED <<requested, consented>>
    BY DEF AuthenticateWithToken
  <2>2. CASE x = s
    <3>1. grant'[x].caps = c /\ grant'[x].method = "UnattendedToken"
      BY <1>4, <2>2
    <3> QED BY <1>2, <1>5, <2>1, <2>2, <3>1
  <2>3. CASE x # s
    <3>1. grant'[x] = grant[x]
      BY <1>4, <2>3
    <3> QED BY <1>5, <2>1, <2>3, <3>1 DEF GrantWithinAuthority
  <2> QED BY <2>2, <2>3
<1>10. PinGrantProvesPin'
  BY <1>4 DEF AuthenticateWithToken, PinGrantProvesPin
<1> QED BY <1>6, <1>7, <1>8, <1>9, <1>10

\* Narrowing a grant keeps it a grant, of the same method and no wider.
LEMMA RestrictStep ==
    ASSUME IInv, NEW s \in Sessions, NEW to \in SUBSET Caps, Restrict(s, to)
    PROVE  IInv'
<1> USE DEF IInv
<1> DEFINE c == ClampTo(grant[s].caps, to)
<1>1. grant[s] \in Grants
  BY DEF TypeOK, Restrict
<1>2. c \in SUBSET Caps /\ c \subseteq grant[s].caps
  BY <1>1 DEF ClampTo, Grants
<1>3. /\ grant'[s] \in Grants /\ grant'[s] # None
      /\ grant'[s].caps = c /\ grant'[s].method = grant[s].method
      /\ \A x \in Sessions \ {s} : grant'[x] = grant[x]
  <2>1. grant'[s] = [grant[s] EXCEPT !.caps = c]
    BY DEF TypeOK, Restrict
  <2>2. grant'[s] \in Grants /\ grant'[s].caps = c /\ grant'[s].method = grant[s].method
    BY <1>1, <1>2, <2>1 DEF Grants
  <2>3. \A x \in Sessions \ {s} : grant'[x] = grant[x]
    BY DEF TypeOK, Restrict
  <2> QED BY <2>2, <2>3, NoneAssumption
<1>4. TypeOK'
  <2>1. audit' \in Seq(AuditEvents)
    <3>1. Entry("CapabilitiesChanged", s, c) \in AuditEvents
      BY <1>2, EntryType
    <3> QED BY <3>1, RecordType DEF Restrict, TypeOK
  <2>2. grant' \in [Sessions -> Grants \cup {None}]
    BY <1>3 DEF Restrict, TypeOK
  <2> QED BY <2>1, <2>2 DEF Restrict, TypeOK, historyVars
<1>5. ConsentRecorded' /\ PinServesOneRound'
  BY DEF Restrict, ConsentRecorded, PinServesOneRound
<1>6. GrantIffEstablished'
  BY <1>3 DEF Restrict, GrantIffEstablished
<1>7. GrantWithinAuthority' /\ PinGrantProvesPin'
  <2>1. UNCHANGED <<requested, consented, redeemed, proved>> /\ grant[s] # None
    BY DEF Restrict, historyVars
  <2> QED BY <1>2, <1>3, <2>1 DEF GrantWithinAuthority, PinGrantProvesPin
<1> QED BY <1>4, <1>5, <1>6, <1>7

\* Closing takes the grant away whatever the state was.
LEMMA CloseStep ==
    ASSUME IInv, NEW s \in Sessions, Close(s)
    PROVE  IInv'
<1> USE DEF IInv
<1>1. TypeOK'
  <2>1. audit' \in Seq(AuditEvents)
    <3>1. Entry("SessionEnded", s, {}) \in AuditEvents
      BY EntryType
    <3> QED BY <3>1, RecordType DEF Close, TypeOK
  <2> QED BY <2>1 DEF Close, TypeOK, States, historyVars
<1>2. ConsentRecorded' /\ PinServesOneRound' /\ GrantIffEstablished'
  BY DEF Close, TypeOK, ConsentRecorded, PinServesOneRound, GrantIffEstablished
<1>3. GrantWithinAuthority' /\ PinGrantProvesPin'
  BY DEF Close, TypeOK, GrantWithinAuthority, PinGrantProvesPin, historyVars
<1> QED BY <1>1, <1>2, <1>3

\* Every failing step of the two authentication paths is an instance of FailStep.
LEMMA AuthFailureStep ==
    ASSUME IInv, NEW s \in Sessions,
           \/ PinUnusable(s) \/ PinRoundMalformed(s)
           \/ \E tag \in PeerTags(s) : ConfirmationFails(s, tag)
           \/ \E tag \in PeerTags(s), k \in Keys : PeerKeyChanged(s, tag, k)
           \/ \E tag \in PeerTags(s), k \in Keys, p \in Proofs : PinBindingFails(s, tag, k, p)
           \/ \E t \in issued \cup {None}, k \in Keys : TokenRejected(s, t, k)
           \/ \E t \in issued \cup {None}, k \in Keys, p \in Proofs :
                 TokenBindingFails(s, t, k, p)
    PROVE  IInv'
<1>1. TypeOK
  BY DEF IInv
<1>2. CASE PinUnusable(s) \/ PinRoundMalformed(s)
  BY <1>1, <1>2, FailStep DEF PinUnusable, PinRoundMalformed, RoundFails, TypeOK
<1>3. CASE \/ \E tag \in PeerTags(s) : ConfirmationFails(s, tag)
           \/ \E tag \in PeerTags(s), k \in Keys : PeerKeyChanged(s, tag, k)
  BY <1>1, <1>3, FailStep DEF ConfirmationFails, PeerKeyChanged, TypeOK
<1>4. ASSUME NEW tag \in PeerTags(s), NEW k \in Keys, NEW p \in Proofs,
             PinBindingFails(s, tag, k, p)
      PROVE  IInv'
  <2>1. book' \in [DeviceIds -> Keys \cup {None}]
    BY <1>1, <1>4, ConstantsAssumption DEF PinBindingFails, CheckAndPin, TypeOK
  <2> QED BY <1>1, <1>4, <2>1, FailStep DEF PinBindingFails, TypeOK
<1>5. CASE \/ \E t \in issued \cup {None}, k \in Keys : TokenRejected(s, t, k)
           \/ \E t \in issued \cup {None}, k \in Keys, p \in Proofs :
                 TokenBindingFails(s, t, k, p)
  BY <1>1, <1>5, FailStep DEF TokenRejected, TokenBindingFails, TokenStates, TypeOK
<1> QED BY <1>2, <1>3, <1>4, <1>5

\* Every step of the state machine keeps the invariant.
LEMMA InvariantStep ==
    ASSUME IInv, [Next]_vars
    PROVE  IInv'
<1>1. CASE Tick \/ Stores
  BY <1>1, StoreStep
<1>2. ASSUME NEW s \in Sessions, NEW c \in SUBSET Caps,
             New(s, c) \/ Allow(s, c) \/ Restrict(s, c)
      PROVE  IInv'
  BY <1>2, ConsentStep, RestrictStep
<1>3. ASSUME NEW s \in Sessions, ConsentTimesOut(s) \/ Deny(s)
      PROVE  IInv'
  <2>1. {} \in SUBSET Caps
    OBVIOUS
  <2> QED BY <1>3, <2>1, ConsentStep
<1>4. ASSUME NEW s \in Sessions, PinAuth(s)
      PROVE  IInv'
  BY <1>4, AuthFailureStep, RoundStep, PinAdmitStep DEF PinAuth
<1>5. ASSUME NEW s \in Sessions, TokenAuth(s)
      PROVE  IInv'
  BY <1>5, AuthFailureStep, TokenAdmitStep DEF TokenAuth
<1>6. ASSUME NEW s \in Sessions, Close(s)
      PROVE  IInv'
  BY <1>6, CloseStep
<1>7. CASE UNCHANGED vars
  BY <1>7 DEF vars, sessionVars, historyVars, IInv, TypeOK, ConsentRecorded,
     GrantIffEstablished, GrantWithinAuthority, PinGrantProvesPin, PinServesOneRound
<1> QED BY <1>1, <1>2, <1>3, <1>4, <1>5, <1>6, <1>7 DEF Next

\* A host that has been asked for nothing satisfies it.
LEMMA InitInvariant == Init => IInv
<1> SUFFICES ASSUME Init PROVE IInv
  OBVIOUS
<1>1. TypeOK
  BY ConstantsAssumption DEF Init, TypeOK, States
<1> QED BY <1>1 DEF Init, IInv, ConsentRecorded, GrantIffEstablished,
     GrantWithinAuthority, PinGrantProvesPin, PinServesOneRound

\* The inductive invariant: what consent, the PIN and the state say of each other.
THEOREM Invariant == Spec => []IInv
BY InitInvariant, InvariantStep, PTL DEF Spec

\* Every reachable state is well typed, for any constants.
THEOREM TypeCorrect == Spec => []TypeOK
<1>1. IInv => TypeOK
  BY DEF IInv
<1> QED BY <1>1, Invariant, PTL

\* HostSession::grant is Some exactly in Established, on every path.
THEOREM GrantsOnlyWhenEstablished == Spec => []GrantIffEstablished
<1>1. IInv => GrantIffEstablished
  BY DEF IInv
<1> QED BY <1>1, Invariant, PTL

\* No grant, by PIN or by token, narrowed or not, exceeds its authority.
THEOREM GrantsWithinAuthority == Spec => []GrantWithinAuthority
<1>1. IInv => GrantWithinAuthority
  BY DEF IInv
<1> QED BY <1>1, Invariant, PTL

\* A grant by PIN means the peer knew the PIN.
THEOREM PinGrantsProvePin == Spec => []PinGrantProvesPin
<1>1. IInv => PinGrantProvesPin
  BY DEF IInv
<1> QED BY <1>1, Invariant, PTL

\* A PIN serves at most one SPAKE2 round of its session.
THEOREM PinsServeOneRound == Spec => []PinServesOneRound
<1>1. IInv => PinServesOneRound
  BY DEF IInv
<1> QED BY <1>1, Invariant, PTL

-----------------------------------------------------------------------------
(* Revocation survives pruning.                                            *)

\* A withdrawn jti is still listed, or the one token that carries it expired.
Withdrawals ==
    /\ \A t, u \in issued : t.jti = u.jti => t = u
    /\ \A j \in withdrawn : j \in revoked \/ \E t \in issued : t.jti = j /\ now >= t.exp

\* A step keeps Withdrawals: only PruneExpired shortens the list, and the clock
\* does not run back.
LEMMA WithdrawalsStep ==
    ASSUME TypeOK, TypeOK', Withdrawals, [Next]_vars
    PROVE  Withdrawals'
<1>1. CASE Tick
  BY <1>1, ConstantsAssumption DEF Tick, Withdrawals, historyVars, TypeOK, Tokens
<1>2. ASSUME NEW k \in Keys, NEW c \in SUBSET Caps, NEW l \in 0..MAX_TOKEN_LIFETIME,
             NEW j \in Jtis, Issue(k, c, l, j)
      PROVE  Withdrawals'
  BY <1>2 DEF Issue, Withdrawals, historyVars
<1>3. ASSUME NEW j \in Jtis, Revoke(j) PROVE Withdrawals'
  BY <1>3 DEF Revoke, Withdrawals
<1>4. ASSUME NEW J \in SUBSET Jtis, PruneExpired(J) PROVE Withdrawals'
  BY <1>4 DEF PruneExpired, Withdrawals, historyVars
<1>5. CASE UNCHANGED <<now, issued, revoked, withdrawn>>
  BY <1>5 DEF Withdrawals
<1> QED
  BY <1>1, <1>2, <1>3, <1>4, <1>5
  DEF Next, Stores, Repin, Forget, PinAuth, TokenAuth, New, Allow, Restrict,
      ConsentTimesOut, Deny, Close, PinUnusable, PinRoundMalformed, PinRound,
      ConfirmationFails, PeerKeyChanged, PinBindingFails, CompletePinAuth,
      TokenRejected, TokenBindingFails, AuthenticateWithToken, vars, historyVars

\* Only authenticate_with_token redeems, and it redeems a verified token.
LEMMA RedeemStep ==
    ASSUME TypeOK, Withdrawals, [Next]_vars, NEW r \in redeemed' \ redeemed
    PROVE  r[2].jti \notin withdrawn
<1>1. PICK s \in Sessions, t \in issued \cup {None}, k \in Keys, p \in Proofs :
         AuthenticateWithToken(s, t, k, p)
  BY DEF Next, Stores, Tick, Issue, Revoke, PruneExpired, Repin, Forget, PinAuth,
      TokenAuth, New, Allow, Restrict, ConsentTimesOut, Deny, Close, PinUnusable,
      PinRoundMalformed, PinRound, ConfirmationFails, PeerKeyChanged,
      PinBindingFails, CompletePinAuth, TokenRejected, TokenBindingFails, vars,
      historyVars
<1>2. r[2] = t
  BY <1>1 DEF AuthenticateWithToken
<1>3. t \in issued /\ ~(now >= t.exp) /\ t.jti \notin revoked
  BY <1>1 DEF AuthenticateWithToken, TokenVerifies, TokenExpired
<1> QED BY <1>2, <1>3 DEF Withdrawals

\* A revoked token opens no session, not even once its jti has been pruned.
THEOREM WithdrawnTokensStayOut == Spec => WithdrawnTokenStaysOut
<1>1. Init => Withdrawals
  BY DEF Init, Withdrawals
<1>2. TypeOK /\ TypeOK' /\ Withdrawals /\ [Next]_vars => Withdrawals'
  BY WithdrawalsStep
<1>3. TypeOK /\ Withdrawals /\ [Next]_vars =>
         [\A r \in redeemed' \ redeemed : r[2].jti \notin withdrawn]_vars
  BY RedeemStep
<1> QED BY <1>1, <1>2, <1>3, TypeCorrect, PTL DEF Spec, WithdrawnTokenStaysOut

-----------------------------------------------------------------------------
(* HostSession implements AuthorizationGate.                               *)

\* A step of HostSession is a step of the gate or leaves it as it is.
LEMMA GateStep ==
    ASSUME IInv, IInv', [Next]_vars
    PROVE  [Gate!Next]_(Gate!vars)
<1> DEFINE mapped == <<state, requested, grant>>
<1> USE DEF Gate!Next, Gate!vars
<1>1. CASE UNCHANGED mapped
  BY <1>1 DEF Gate!vars, PhaseOf, AllowedTo
<1>2. ASSUME NEW s \in Sessions, NEW c \in SUBSET Caps, New(s, c)
      PROVE  Gate!Ask(s)
  BY <1>2 DEF New, Gate!Ask, PhaseOf, AllowedTo, IInv, TypeOK, States
<1>3. ASSUME NEW s \in Sessions, NEW c \in SUBSET Caps, Restrict(s, c)
      PROVE  Gate!Narrow(s)
  <2>1. state[s] = "Established" /\ grant'[s] # None
    BY <1>3 DEF Restrict, IInv, GrantIffEstablished
  <2>2. grant'[s].caps \subseteq grant[s].caps
    <3>1. grant[s] \in Grants
      BY <1>3 DEF Restrict, IInv, TypeOK
    <3>2. grant'[s] = [grant[s] EXCEPT !.caps = ClampTo(grant[s].caps, c)]
      BY <1>3 DEF Restrict, IInv, TypeOK
    <3> QED BY <3>1, <3>2 DEF ClampTo, Grants
  <2>3. AllowedTo(s)' \in SUBSET AllowedTo(s)
    BY <1>3, <2>1, <2>2 DEF AllowedTo, Restrict
  <2>4. \A x \in Sessions \ {s} : AllowedTo(x)' = AllowedTo(x)
    BY <1>3 DEF AllowedTo, Restrict, IInv, TypeOK
  <2>5. [x \in Sessions |-> AllowedTo(x)]' =
           [[x \in Sessions |-> AllowedTo(x)] EXCEPT ![s] = AllowedTo(s)']
    BY <2>4
  <2>6. UNCHANGED <<[x \in Sessions |-> PhaseOf(x)], requested>>
    BY <1>3 DEF Restrict, PhaseOf
  <2> QED BY <2>1, <2>3, <2>5, <2>6 DEF Gate!Narrow, PhaseOf
\* Admission by either method.
<1>4. ASSUME NEW s \in Sessions,
             state[s] \in {"AwaitingConsent", "Authenticating", "AwaitingConfirmation"},
             state' = [state EXCEPT ![s] = "Established"], UNCHANGED requested,
             \A x \in Sessions \ {s} : grant'[x] = grant[x]
      PROVE  Gate!Admit(s)
  <2>1. grant'[s] # None /\ grant'[s].caps \subseteq requested[s]
    <3>1. state'[s] = "Established"
      BY <1>4 DEF IInv, TypeOK
    <3> QED BY <1>4, <3>1 DEF IInv, GrantIffEstablished, GrantWithinAuthority
  <2>2. AllowedTo(s)' \in SUBSET requested[s]
    BY <2>1 DEF AllowedTo
  <2>3. [x \in Sessions |-> AllowedTo(x)]' =
           [[x \in Sessions |-> AllowedTo(x)] EXCEPT ![s] = AllowedTo(s)']
    BY <1>4 DEF AllowedTo
  <2>4. [x \in Sessions |-> PhaseOf(x)]' =
           [[x \in Sessions |-> PhaseOf(x)] EXCEPT ![s] = "open"]
    BY <1>4 DEF PhaseOf, IInv, TypeOK
  <2> QED BY <1>4, <2>2, <2>3, <2>4 DEF Gate!Admit, PhaseOf
\* Failure and close.
<1>5. ASSUME NEW s \in Sessions, NEW st \in {"Failed", "Closed"},
             state[s] \in States \ {"Absent", "Closed"},
             state' = [state EXCEPT ![s] = st], UNCHANGED requested,
             \A x \in Sessions \ {s} : grant'[x] = grant[x]
      PROVE  Gate!End(s) \/ UNCHANGED Gate!vars
  <2>1. grant'[s] = None
    <3>1. state'[s] # "Established"
      BY <1>5 DEF IInv, TypeOK
    <3> QED BY <3>1 DEF IInv, GrantIffEstablished
  <2>2. [x \in Sessions |-> AllowedTo(x)]' =
           [[x \in Sessions |-> AllowedTo(x)] EXCEPT ![s] = {}]
    BY <1>5, <2>1 DEF AllowedTo
  <2>3. [x \in Sessions |-> PhaseOf(x)]' =
           [[x \in Sessions |-> PhaseOf(x)] EXCEPT ![s] = "over"]
    BY <1>5 DEF PhaseOf, IInv, TypeOK
  <2>4. CASE state[s] # "Failed"
    BY <1>5, <2>2, <2>3, <2>4 DEF Gate!End, PhaseOf, States
  <2>5. CASE state[s] = "Failed"
    <3>1. PhaseOf(s) = "over" /\ AllowedTo(s) = {}
      BY <2>5 DEF PhaseOf, AllowedTo, IInv, GrantIffEstablished
    <3> QED BY <1>5, <2>2, <2>3, <3>1
  <2> QED BY <2>4, <2>5
<1>6. ASSUME NEW s \in Sessions, Close(s) PROVE Gate!End(s) \/ UNCHANGED Gate!vars
  BY <1>5, <1>6 DEF Close, IInv, TypeOK
<1>7. ASSUME NEW s \in Sessions, ConsentTimesOut(s) \/ Deny(s)
      PROVE  Gate!End(s) \/ UNCHANGED Gate!vars
  BY <1>5, <1>7 DEF ConsentTimesOut, Deny, States
<1>8. ASSUME NEW s \in Sessions, PinAuth(s) PROVE [Gate!Next]_(Gate!vars)
  <2>1. ASSUME NEW tag \in PeerTags(s), NEW k \in Keys, NEW p \in Proofs,
               CompletePinAuth(s, tag, k, p)
        PROVE  Gate!Admit(s)
    BY <1>4, <2>1 DEF CompletePinAuth, IInv, TypeOK
  <2>2. ASSUME NEW o \in {"same", "different"}, PinRound(s, o)
        PROVE  UNCHANGED Gate!vars
    <3>1. [x \in Sessions |-> PhaseOf(x)]' = [x \in Sessions |-> PhaseOf(x)]
      BY <2>2 DEF PinRound, PhaseOf, IInv, TypeOK
    <3> QED BY <2>2, <3>1 DEF PinRound, AllowedTo
  <2>3. CASE \/ PinUnusable(s) \/ PinRoundMalformed(s)
             \/ \E tag \in PeerTags(s) : ConfirmationFails(s, tag)
             \/ \E tag \in PeerTags(s), k \in Keys : PeerKeyChanged(s, tag, k)
             \/ \E tag \in PeerTags(s), k \in Keys, p \in Proofs : PinBindingFails(s, tag, k, p)
    BY <1>5, <2>3 DEF PinUnusable, PinRoundMalformed, RoundFails, ConfirmationFails,
       PeerKeyChanged, PinBindingFails, States
  <2> QED BY <1>8, <2>1, <2>2, <2>3 DEF PinAuth
<1>9. ASSUME NEW s \in Sessions, TokenAuth(s) PROVE [Gate!Next]_(Gate!vars)
  <2>1. ASSUME NEW t \in issued \cup {None}, NEW k \in Keys, NEW p \in Proofs,
               AuthenticateWithToken(s, t, k, p)
        PROVE  Gate!Admit(s)
    BY <1>4, <2>1 DEF AuthenticateWithToken, TokenStates, IInv, TypeOK
  <2>2. CASE \/ \E t \in issued \cup {None}, k \in Keys : TokenRejected(s, t, k)
             \/ \E t \in issued \cup {None}, k \in Keys, p \in Proofs :
                   TokenBindingFails(s, t, k, p)
    BY <1>5, <2>2 DEF TokenRejected, TokenBindingFails, TokenStates, States
  <2> QED BY <1>9, <2>1, <2>2 DEF TokenAuth
<1>10. ASSUME NEW s \in Sessions, NEW c \in SUBSET Caps, Allow(s, c)
       PROVE  UNCHANGED Gate!vars
  <2>1. [x \in Sessions |-> PhaseOf(x)]' = [x \in Sessions |-> PhaseOf(x)]
    BY <1>10 DEF Allow, PhaseOf, IInv, TypeOK
  <2> QED BY <1>10, <2>1 DEF Allow, AllowedTo
<1>11. CASE Tick \/ Stores
  BY <1>1, <1>11 DEF Tick, Stores, Issue, Revoke, PruneExpired, Repin, Forget, sessionVars
<1>12. CASE UNCHANGED vars
  BY <1>1, <1>12 DEF vars, sessionVars
<1> QED
  BY <1>2, <1>3, <1>6, <1>7, <1>8, <1>9, <1>10, <1>11, <1>12 DEF Next

\* Admission at most once, within the request, only narrowed, over for good:
\* the state machine refines the gate, for any number of sessions.
THEOREM ImplementsGate == Spec => RefinesGate
<1>1. Init => Gate!Init
  BY DEF Init, Gate!Init, PhaseOf, AllowedTo
<1>2. IInv /\ IInv' /\ [Next]_vars => [Gate!Next]_(Gate!vars)
  BY GateStep
<1> QED BY <1>1, <1>2, Invariant, PTL DEF Spec, RefinesGate, Gate!Spec

-----------------------------------------------------------------------------
\* AuditLog::record: the entry comes last, behind all the others or all but the
\* oldest, and the log only drops one when it is then full.
LEMMA RecordOf ==
    ASSUME NEW log \in Seq(AuditEvents), NEW e \in AuditEvents,
           AUDIT_CAPACITY > 0 => Len(log) <= AUDIT_CAPACITY
    PROVE  LET new == Record(log, e) IN
           \E d \in {0, 1} :
              /\ Len(log) \in Nat /\ Len(new) = Len(log) + 1 - d /\ Len(new) > 0
              /\ new[Len(new)] = e
              /\ \A i \in 1..Len(new) : i = Len(new) \/ (i + d \in 1..Len(log) /\ new[i] = log[i + d])
              /\ \A j \in 1..Len(log) : j <= d \/ (j - d \in 1..Len(new) /\ j - d < Len(new) /\ new[j - d] = log[j])
              /\ AUDIT_CAPACITY > 0 => Len(new) <= AUDIT_CAPACITY
              /\ d = 1 => AUDIT_CAPACITY > 0 /\ Len(new) = AUDIT_CAPACITY
              /\ AUDIT_CAPACITY > 0 /\ Len(log) = AUDIT_CAPACITY => d = 1
<1>c. AUDIT_CAPACITY \in Nat
  BY ConstantsAssumption
<1>1. CASE AUDIT_CAPACITY > 0 /\ Len(log) >= AUDIT_CAPACITY
  <2> DEFINE new == Append(Tail(log), e)
  <2>1. Len(log) = AUDIT_CAPACITY /\ log # <<>> /\ Len(log) \in Nat
    BY <1>1, <1>c
  <2>2. /\ Tail(log) \in Seq(AuditEvents) /\ Len(Tail(log)) = Len(log) - 1
        /\ \A i \in 1..(Len(log) - 1) : Tail(log)[i] = log[i + 1]
    BY <2>1
  <2>3. /\ Len(new) = Len(log) /\ new[Len(log)] = e
        /\ \A i \in 1..(Len(log) - 1) : new[i] = Tail(log)[i]
    BY <2>1, <2>2
  <2>4. Record(log, e) = new
    BY <1>1 DEF Record
  <2> HIDE DEF new
  <2>5. \A i \in 1..Len(new) : i = Len(new) \/ (i + 1 \in 1..Len(log) /\ new[i] = log[i + 1])
    BY <2>1, <2>2, <2>3
  <2>6. \A j \in 1..Len(log) : j <= 1 \/ (j - 1 \in 1..Len(new) /\ j - 1 < Len(new) /\ new[j - 1] = log[j])
    <3> SUFFICES ASSUME NEW j \in 1..Len(log), ~(j <= 1)
                 PROVE  j - 1 \in 1..Len(new) /\ j - 1 < Len(new) /\ new[j - 1] = log[j]
      OBVIOUS
    <3>1. j - 1 \in 1..(Len(log) - 1) /\ (j - 1) + 1 = j
      BY <2>1
    <3> QED BY <2>1, <2>2, <2>3, <3>1
  <2> QED BY <1>c, <2>1, <2>3, <2>4, <2>5, <2>6
<1>2. CASE ~(AUDIT_CAPACITY > 0 /\ Len(log) >= AUDIT_CAPACITY)
  <2> DEFINE new == Append(log, e)
  <2>1. Len(log) \in Nat /\ (AUDIT_CAPACITY > 0 => Len(log) < AUDIT_CAPACITY)
    BY <1>2, <1>c
  <2>2. /\ Len(new) = Len(log) + 1 /\ new[Len(new)] = e
        /\ \A i \in 1..Len(log) : new[i] = log[i]
    OBVIOUS
  <2>3. Record(log, e) = new
    BY <1>2 DEF Record
  <2> HIDE DEF new
  <2> QED BY <1>c, <2>1, <2>2, <2>3
<1> QED BY <1>1, <1>2

\* With what AuditTracksGrant says, the log's length stays within its capacity.
AuditInv == AuditTracksGrant /\ (AUDIT_CAPACITY > 0 => Len(audit) <= AUDIT_CAPACITY)

\* A step that records an entry, and changes only the grant the entry is about.
LEMMA RecordedStep ==
    ASSUME TypeOK, AuditInv, NEW e \in AuditEvents, audit' = Record(audit, e),
           \A s \in Sessions :
              \/ grant'[s] = None
              \/ /\ grant'[s] # None /\ grant'[s].caps = e.caps /\ e.sid = s
                 /\ e.event \in {"SessionStarted", "CapabilitiesChanged"}
              \/ /\ grant'[s] = grant[s]
                 /\ ~(e.sid = s /\ e.event \in {"SessionStarted", "CapabilitiesChanged"})
    PROVE  AuditInv'
<1>t. audit \in Seq(AuditEvents) /\ AUDIT_CAPACITY \in Nat /\ Len(audit) \in Nat
  BY ConstantsAssumption DEF TypeOK
<1>1. PICK d \in {0, 1} :
        /\ Len(audit) \in Nat /\ Len(audit') = Len(audit) + 1 - d /\ Len(audit') > 0
        /\ audit'[Len(audit')] = e
        /\ \A i \in 1..Len(audit') :
              i = Len(audit') \/ (i + d \in 1..Len(audit) /\ audit'[i] = audit[i + d])
        /\ \A j \in 1..Len(audit) :
              j <= d \/ (j - d \in 1..Len(audit') /\ j - d < Len(audit') /\ audit'[j - d] = audit[j])
        /\ AUDIT_CAPACITY > 0 => Len(audit') <= AUDIT_CAPACITY
        /\ d = 1 => AUDIT_CAPACITY > 0 /\ Len(audit') = AUDIT_CAPACITY
        /\ AUDIT_CAPACITY > 0 /\ Len(audit) = AUDIT_CAPACITY => d = 1
  BY <1>t, RecordOf DEF AuditInv
<1> DEFINE n == Len(audit')
<1>n. n \in Nat /\ n > 0 /\ n \in 1..n
  BY <1>1
<1> HIDE DEF n
<1>2. ASSUME NEW s \in Sessions, grant'[s] # None
      PROVE  \/ CapsEntries(s)' = {} /\ AUDIT_CAPACITY > 0 /\ Len(audit') = AUDIT_CAPACITY
             \/ \E i \in CapsEntries(s)' :
                   /\ \A j \in CapsEntries(s)' : j <= i
                   /\ audit'[i].caps = grant'[s].caps
  <2>0. CapsEntries(s)' = {i \in 1..n :
            audit'[i].sid = s /\ audit'[i].event \in {"SessionStarted", "CapabilitiesChanged"}}
    BY DEF CapsEntries, n
  <2>1. CASE e.sid = s /\ e.event \in {"SessionStarted", "CapabilitiesChanged"}
    <3>1. grant'[s].caps = e.caps
      BY <1>2, <2>1
    <3>2. n \in CapsEntries(s)' /\ audit'[n].caps = grant'[s].caps
      BY <1>n, <1>1, <2>0, <2>1, <3>1 DEF n
    <3>3. \A j \in CapsEntries(s)' : j <= n
      BY <1>n, <2>0
    <3> QED BY <3>2, <3>3
  <2>2. CASE ~(e.sid = s /\ e.event \in {"SessionStarted", "CapabilitiesChanged"})
    <3>1. grant'[s] = grant[s]
      BY <1>2, <2>2
    <3>2. \A i \in CapsEntries(s)' : i \in Nat /\ i + d \in CapsEntries(s) /\ audit'[i] = audit[i + d]
      BY <1>n, <1>1, <2>0, <2>2 DEF CapsEntries, n
    <3>3. \A j \in CapsEntries(s) :
             j \in Nat /\ (j <= d \/ (j - d \in CapsEntries(s)' /\ audit'[j - d] = audit[j]))
      BY <1>1, <1>t, <2>0 DEF CapsEntries, n
    <3>4. CASE CapsEntries(s) = {} /\ AUDIT_CAPACITY > 0 /\ Len(audit) = AUDIT_CAPACITY
      BY <1>1, <3>2, <3>4
    <3>5. ASSUME NEW i \in CapsEntries(s), \A j \in CapsEntries(s) : j <= i,
                 audit[i].caps = grant[s].caps
          PROVE  \/ CapsEntries(s)' = {} /\ d = 1
                 \/ \E k \in CapsEntries(s)' :
                        /\ \A j \in CapsEntries(s)' : j <= k
                        /\ audit'[k].caps = grant'[s].caps
      <4>1. CASE i <= d
        <5>1. d = 1 /\ i = 1
          BY <4>1, <1>1, <3>5, <1>t DEF CapsEntries
        <5>2. CapsEntries(s)' = {}
          <6> SUFFICES ASSUME NEW j \in CapsEntries(s)' PROVE FALSE
            OBVIOUS
          <6>1. j \in 1..n /\ j + 1 \in CapsEntries(s)
            BY <2>0, <3>2, <5>1
          <6>2. j + 1 <= 1
            BY <3>5, <5>1, <6>1
          <6> QED BY <1>n, <6>1, <6>2
        <5> QED BY <5>1, <5>2
      <4>2. CASE ~(i <= d)
        <5>1. i - d \in CapsEntries(s)' /\ audit'[i - d] = audit[i] /\ i \in Nat /\ d \in Nat
          BY <1>1, <3>3, <3>5, <4>2
        <5>2. \A j \in CapsEntries(s)' : j <= i - d
          BY <3>2, <3>5, <5>1
        <5> QED BY <3>1, <3>5, <5>1, <5>2
      <4> QED BY <4>1, <4>2
    <3>6. \/ CapsEntries(s) = {} /\ AUDIT_CAPACITY > 0 /\ Len(audit) = AUDIT_CAPACITY
          \/ \E i \in CapsEntries(s) :
                /\ \A j \in CapsEntries(s) : j <= i
                /\ audit[i].caps = grant[s].caps
      BY <1>2, <3>1 DEF AuditInv, AuditTracksGrant
    <3> QED BY <1>1, <3>4, <3>5, <3>6
  <2> QED BY <2>1, <2>2
<1>3. AuditTracksGrant'
  BY <1>2 DEF AuditTracksGrant
<1> QED BY <1>1, <1>3 DEF AuditInv

\* A step that leaves the log alone gives no grant.
LEMMA UnloggedStep ==
    ASSUME AuditInv, audit' = audit, \A s \in Sessions : grant'[s] = grant[s]
    PROVE  AuditInv'
BY DEF AuditInv, AuditTracksGrant, CapsEntries

\* Every operation that gives, narrows or takes a grant records it.
LEMMA AuditStep ==
    ASSUME IInv, AuditInv, [Next]_vars
    PROVE  AuditInv'
<1>t. TypeOK /\ GrantIffEstablished /\ ConsentRecorded
  BY DEF IInv
<1>1. CASE Tick \/ Stores \/ UNCHANGED vars
  BY <1>1, UnloggedStep DEF Tick, Stores, Issue, Revoke, PruneExpired, Repin, Forget, vars, sessionVars
<1>2. ASSUME NEW s \in Sessions, NEW c \in SUBSET Caps, New(s, c) \/ Allow(s, c)
      PROVE  AuditInv'
  BY <1>2, UnloggedStep DEF New, Allow
<1>3. ASSUME NEW s \in Sessions, NEW c \in SUBSET Caps, Restrict(s, c)
      PROVE  AuditInv'
  <2> DEFINE e == Entry("CapabilitiesChanged", s, ClampTo(grant[s].caps, c))
  <2>1. e \in AuditEvents /\ grant[s] \in Grants
    BY <1>t, <1>3, EntryType DEF Restrict, TypeOK, Grants, ClampTo
  <2>2. /\ e.sid = s /\ e.event = "CapabilitiesChanged" /\ e.caps = ClampTo(grant[s].caps, c)
        /\ audit' = Record(audit, e)
    BY <1>3 DEF Restrict, Entry
  <2>3. /\ grant'[s].caps = e.caps /\ grant'[s] # None
        /\ \A r \in Sessions : r # s => grant'[r] = grant[r]
    BY <1>t, <1>3, <2>1, <2>2, NoneAssumption DEF Restrict, TypeOK, Grants, ClampTo
  <2> HIDE DEF e
  <2> QED BY <1>t, <2>1, <2>2, <2>3, RecordedStep
<1>4. ASSUME NEW s \in Sessions, ConsentTimesOut(s) PROVE AuditInv'
  BY <1>4, UnloggedStep DEF ConsentTimesOut
<1>5. ASSUME NEW s \in Sessions, Deny(s) \/ Close(s) PROVE AuditInv'
  <2>1. PICK e \in AuditEvents : audit' = Record(audit, e) /\ e.event \in {"InjectionRefused", "SessionEnded"}
    <3>1. /\ Entry("InjectionRefused", s, {}) \in AuditEvents /\ Entry("SessionEnded", s, {}) \in AuditEvents
          /\ Entry("InjectionRefused", s, {}).event = "InjectionRefused"
          /\ Entry("SessionEnded", s, {}).event = "SessionEnded"
      BY EntryType DEF Entry
    <3> QED BY <1>5, <3>1 DEF Deny, Close
  <2>2. \A r \in Sessions : grant'[r] = grant[r] \/ grant'[r] = None
    BY <1>t, <1>5 DEF Deny, Close, TypeOK
  <2> QED BY <1>t, <2>1, <2>2, RecordedStep
<1>6. ASSUME NEW s \in Sessions, PinAuth(s) PROVE AuditInv'
  <2>1. ASSUME NEW tag \in PeerTags(s), NEW k \in Keys, NEW p \in Proofs, CompletePinAuth(s, tag, k, p)
        PROVE  AuditInv'
    <3> DEFINE e == Entry("SessionStarted", s, consented[s])
               g == [caps |-> consented[s], method |-> "SessionPin"]
    <3>1. consented[s] \in SUBSET Caps
      BY <1>t, <2>1 DEF CompletePinAuth, ConsentRecorded, TypeOK
    <3>2. e \in AuditEvents /\ e.sid = s /\ e.event = "SessionStarted" /\ e.caps = consented[s]
      BY <3>1, EntryType DEF Entry
    <3>3. g # None /\ g.caps = consented[s]
      BY <3>1, NoneAssumption DEF Grants, Methods
    <3>4. /\ audit' = Record(audit, e) /\ grant'[s] = g
          /\ \A r \in Sessions : r # s => grant'[r] = grant[r]
      BY <1>t, <2>1 DEF CompletePinAuth, TypeOK
    <3> HIDE DEF e, g
    <3> QED BY <1>t, <3>2, <3>3, <3>4, RecordedStep
  <2>2. CASE PinUnusable(s) \/ PinRoundMalformed(s) \/ \E outcome \in {"same", "different"} : PinRound(s, outcome)
    BY <2>2, UnloggedStep DEF PinUnusable, PinRoundMalformed, PinRound
  <2>3. CASE \/ \E tag \in PeerTags(s) : ConfirmationFails(s, tag)
             \/ \E tag \in PeerTags(s), k \in Keys : PeerKeyChanged(s, tag, k)
             \/ \E tag \in PeerTags(s), k \in Keys, p \in Proofs : PinBindingFails(s, tag, k, p)
    BY <2>3, UnloggedStep DEF ConfirmationFails, PeerKeyChanged, PinBindingFails
  <2> QED BY <1>6, <2>1, <2>2, <2>3 DEF PinAuth
<1>7. ASSUME NEW s \in Sessions, TokenAuth(s) PROVE AuditInv'
  <2>1. ASSUME NEW t \in issued \cup {None}, NEW k \in Keys, NEW p \in Proofs,
               AuthenticateWithToken(s, t, k, p)
        PROVE  AuditInv'
    <3> DEFINE c == ClampTo(requested[s], t.caps)
               e == Entry("SessionStarted", s, c)
               g == [caps |-> c, method |-> "UnattendedToken"]
    <3>1. c \in SUBSET Caps
      BY <1>t DEF ClampTo, TypeOK
    <3>2. /\ audit' = Record(audit, e) /\ grant'[s] = g
          /\ \A r \in Sessions : r # s => grant'[r] = grant[r]
      BY <1>t, <2>1 DEF AuthenticateWithToken, TypeOK
    <3> HIDE DEF c
    <3>3. e \in AuditEvents /\ e.sid = s /\ e.event = "SessionStarted" /\ e.caps = c
      BY <3>1, EntryType DEF Entry
    <3>4. g # None /\ g.caps = c
      BY <3>1, NoneAssumption DEF Grants, Methods
    <3> HIDE DEF e, g
    <3> QED BY <1>t, <3>2, <3>3, <3>4, RecordedStep
  <2>2. CASE \/ \E t \in issued \cup {None}, k \in Keys : TokenRejected(s, t, k)
             \/ \E t \in issued \cup {None}, k \in Keys, p \in Proofs : TokenBindingFails(s, t, k, p)
    BY <2>2, UnloggedStep DEF TokenRejected, TokenBindingFails
  <2> QED BY <1>7, <2>1, <2>2 DEF TokenAuth
<1> QED BY <1>1, <1>2, <1>3, <1>4, <1>5, <1>6, <1>7 DEF Next

\* What the log last says of a live session is what its grant allows: no path gives
\* or narrows a grant unlogged, and a full log only ever loses its oldest entry.
THEOREM AuditFollowsGrants == Spec => []AuditTracksGrant
<1>1. Init => AuditInv
  <2>1. Init => Len(audit) = 0 /\ \A s \in Sessions : grant[s] = None
    BY DEF Init
  <2> QED BY <2>1, ConstantsAssumption DEF AuditInv, AuditTracksGrant
<1>2. IInv /\ AuditInv /\ [Next]_vars => AuditInv'
  BY AuditStep
<1>3. AuditInv => AuditTracksGrant
  BY DEF AuditInv
<1> QED BY <1>1, <1>2, <1>3, Invariant, PTL DEF Spec
=============================================================================
