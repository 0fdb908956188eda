---------------------------- MODULE MCActionFeed ----------------------------
(* ActionFeed for TLC: its bounds are given in the cfg file. *)
EXTENDS ActionFeed

\* the browser's clock is a window behind, right, or a second ahead
MCSkews == {-Fade, 0, 1}

=============================================================================
