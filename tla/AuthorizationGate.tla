-------------------------- MODULE AuthorizationGate --------------------------
(***************************************************************************)
(* What the host's authorization state machine promises its callers        *)
(* (docs/ARCHITECTURE.md, 5.2): a session asks once, is admitted at most   *)
(* once and never with more than it asked for, can only lose capabilities  *)
(* while it is open, and once it is over it is over.                       *)
(***************************************************************************)
CONSTANTS Sessions,  \* session identifiers
          Caps       \* the capabilities a session may hold

VARIABLES phase,     \* "none", "pending", "open" or "over", per session
          asked,     \* the capabilities the session asked for
          allowed    \* the capabilities the host lets it exercise now

vars == <<phase, asked, allowed>>

Phases == {"none", "pending", "open", "over"}

Init == /\ phase = [s \in Sessions |-> "none"]
        /\ asked = [s \in Sessions |-> {}]
        /\ allowed = [s \in Sessions |-> {}]

\* A connection request arrives.
Ask(s) == /\ phase[s] = "none"
          /\ \E c \in SUBSET Caps : asked' = [asked EXCEPT ![s] = c]
          /\ phase' = [phase EXCEPT ![s] = "pending"]
          /\ UNCHANGED allowed

\* The host lets the peer in, with a part of what it asked for.
Admit(s) == /\ phase[s] = "pending"
            /\ \E c \in SUBSET asked[s] : allowed' = [allowed EXCEPT ![s] = c]
            /\ phase' = [phase EXCEPT ![s] = "open"]
            /\ UNCHANGED asked

\* The local user narrows a running session.
Narrow(s) == /\ phase[s] = "open"
             /\ \E c \in SUBSET allowed[s] : allowed' = [allowed EXCEPT ![s] = c]
             /\ UNCHANGED <<phase, asked>>

\* The session fails or is closed; whatever it could do is taken away.
End(s) == /\ phase[s] \in {"pending", "open"}
          /\ phase' = [phase EXCEPT ![s] = "over"]
          /\ allowed' = [allowed EXCEPT ![s] = {}]
          /\ UNCHANGED asked

Next == \E s \in Sessions : Ask(s) \/ Admit(s) \/ Narrow(s) \/ End(s)

Spec == Init /\ [][Next]_vars
=============================================================================
