------------------------------ MODULE RateGuard ------------------------------
(***************************************************************************)
(* RateGuard (rda-input/src/grant.rs): one window per event class, and     *)
(* what its answers let through over time.                                 *)
(***************************************************************************)
EXTENDS RateWindow, Sequences

CONSTANTS
    Classes,     \* EventClass
    Limits,      \* RateLimits, events per window for each class
    GuardTime,   \* bound of the clock
    MaxBurst     \* bound of the events of one class in one millisecond

ASSUME RateGuardAssumption ==
    /\ Limits \in [Classes -> Nat]
    /\ GuardTime \in Nat /\ MaxBurst \in Nat

VARIABLES
    guardNow,  \* now_ms
    windows,   \* the pointer, key and clipboard windows
    refusals,  \* Window::dropped
    burst,     \* history: events of this millisecond
    letThrough \* history: when each event that was let through came

guardVars == <<guardNow, windows, refusals, burst, letThrough>>

GuardInit == /\ guardNow = 0
             /\ windows = [c \in Classes |-> EmptyWindow]
             /\ refusals = [c \in Classes |-> 0]
             /\ burst = [c \in Classes |-> 0]
             /\ letThrough = [c \in Classes |-> <<>>]

GuardTick == /\ guardNow < GuardTime
             /\ guardNow' = guardNow + 1
             /\ burst' = [c \in Classes |-> 0]
             /\ UNCHANGED <<windows, refusals, letThrough>>

\* RateGuard::allow, the answer included in the step.
Allow(c) ==
    LET ok == WithinBudget(windows[c], Limits[c], guardNow)
    IN  /\ burst[c] < MaxBurst
        /\ burst' = [burst EXCEPT ![c] = @ + 1]
        /\ windows' = [windows EXCEPT ![c] = Counted(@, Limits[c], guardNow)]
        /\ refusals' = IF ok THEN refusals ELSE [refusals EXCEPT ![c] = @ + 1]
        /\ letThrough' = IF ok THEN [letThrough EXCEPT ![c] = Append(@, guardNow)] ELSE letThrough
        /\ UNCHANGED guardNow

GuardNext == GuardTick \/ \E c \in Classes : Allow(c)

GuardSpec == GuardInit /\ [][GuardNext]_guardVars
-----------------------------------------------------------------------------
\* The guard restarts its window rather than sliding it, and still no stretch of
\* WINDOW milliseconds lets through more than twice the limit, because it meets at
\* most two windows: the event after 2 * limit others comes WINDOW after the first.
AtMostTwiceTheLimit ==
    \A c \in Classes : \A i, j \in DOMAIN letThrough[c] :
        j = i + 2 * Limits[c] => letThrough[c][j] - letThrough[c][i] >= WINDOW

=============================================================================
