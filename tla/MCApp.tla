-------------------------------- MODULE MCApp --------------------------------
(***************************************************************************)
(* Two requests, one slot per window, a clock that lets a slot expire.     *)
(***************************************************************************)
EXTENDS App, TLC

CONSTANTS r1, r2

TwoRequests == {r1, r2}

\* "odd" stands for a header value that is not ASCII.
GoodBadAndOdd == {"good", "bad", "odd"}
Odd == {"odd"}
OneCost == {7}
=============================================================================
