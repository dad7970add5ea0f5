---------------------------- MODULE MCSettlement ----------------------------
(* TLC instances of Settlement.                                            *)
EXTENDS Settlement, TLC

CONSTANTS c1, c2, coded, dated, owner, m1

CallSymmetry == Permutations(Calls)

MCAmount == [p \in Payments |-> IF p = dated THEN 2 ELSE 1]

World(open, deciders, faults, early, pays, sends, last, asked) ==
    [open |-> open, deciders |-> deciders, faults |-> faults, early |-> early,
     pays |-> pays, sends |-> sends, last |-> last, payouts |-> asked]

\* One handler at a time, with answers lost, handlers that die and days settled
\* before they are over; two at a time on sales and settlements; two at a time
\* on payouts, of which one decides.
MCWorlds == {World(1, 1, TRUE, TRUE, {coded, dated}, 2, 2, 1),
             World(2, 1, FALSE, FALSE, {coded, dated}, 2, 2, 0),
             World(2, 1, FALSE, TRUE, {coded}, 1, 1, 2)}

\* Two payout requests at once.
MCRequests == {World(2, 1, FALSE, TRUE, {coded}, 1, 1, 2)}
=============================================================================
