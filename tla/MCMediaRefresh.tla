--------------------------- MODULE MCMediaRefresh ---------------------------
(* Instances of MediaRefresh for TLC: one library and one refresh target.    *)
EXTENDS MediaRefresh

Spending(targets, kinds, changes, scans, polls, prunes, requests, faults) ==
    [targets |-> targets, kinds |-> kinds, changes |-> changes, scans |-> scans,
     polls |-> polls, prunes |-> prunes, requests |-> requests, faults |-> faults]

One == {"catalog"}
Two == {"catalog", "removal"}

\* The feed on its own, with one and with two kinds of change; the refresh with
\* a fault; a target that is created; a target two users work on.
Scenarios == {Spending({}, One, 3, 1, 1, 1, 0, 0),
              Spending({}, Two, 2, 1, 1, 0, 0, 0),
              Spending({1}, One, 2, 0, 0, 0, 0, 1),
              Spending({}, One, 1, 0, 0, 0, 1, 0),
              Spending({1}, One, 1, 0, 0, 0, 2, 0)}

OneLateChange == {Spending({1}, One, 2, 1, 0, 0, 0, 0)}
=============================================================================
