----------------------------- MODULE RateWindow -----------------------------
(***************************************************************************)
(* grant::Window, the counter behind RateGuard (rda-input/src/grant.rs):   *)
(* one window of WINDOW milliseconds at a time, restarted by the first     *)
(* event that arrives after it has run out.                                *)
(***************************************************************************)
EXTENDS Integers

CONSTANT WINDOW    \* 1000 ms in the code

ASSUME WindowAssumption == WINDOW \in Nat \ {0}

\* Window::default.
EmptyWindow == [start |-> 0, count |-> 0]

\* The restart at the head of Window::allow.
Roll(w, now) == IF now - w.start >= WINDOW THEN [start |-> now, count |-> 0] ELSE w

\* Fault: off by one at the limit.
WithinBudgetPlusOne(w, limit, now) == Roll(w, now).count <= limit
\* The answer of Window::allow, and the window it leaves. A refused event is
\* counted too; past limit + 1 the count can no longer change an answer, and the
\* model stops counting there.
WithinBudget(w, limit, now) == Roll(w, now).count < limit
Counted(w, limit, now) ==
    LET r == Roll(w, now)
    IN  [start |-> r.start, count |-> IF r.count > limit THEN r.count ELSE r.count + 1]
=============================================================================
