------------------------- MODULE NotificationWindow -------------------------
(***************************************************************************)
(* The time-of-day window both use cases test before they alert            *)
(* (isWithinWindow in item_price_watch_use_case.go). Times of day are      *)
(* numbers from 0; a window is <<from, to>> and <<>> is the nil window of  *)
(* a spec without one.                                                     *)
(***************************************************************************)
EXTENDS Naturals

Windows == {<<>>} \cup (Nat \X Nat)

\* Both bounds are included, and a window never crosses midnight: one whose
\* "from" is after its "to" holds no time at all.
IsWithinWindow(t, window) == window[1] <= t /\ t <= window[2]

OutsideOf(window, t) == window # <<>> /\ ~IsWithinWindow(t, window)

=============================================================================
