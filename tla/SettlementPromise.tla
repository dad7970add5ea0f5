------------------------ MODULE SettlementPromise ------------------------
(***************************************************************************)
(* What the settlement of one merchant's card sales promises, with no      *)
(* requests, snapshots or periods in sight: a sale is taken, and then it   *)
(* is either cancelled or settled, once and for good; what it is settled   *)
(* for becomes the owner's.                                                *)
(***************************************************************************)
EXTENDS Integers, Sequences, Functions

CONSTANT OwnerPart  \* of each unit settled: the owner's net amount

VARIABLES
    sale,       \* every sale recorded, in order: its stage and amount
    earned,     \* what settling them has earned the owner
    lax         \* requests overlap: the end of a sale is then not promised

Init == sale = << >> /\ earned = 0 /\ lax \in BOOLEAN

Take ==
    /\ Len(sale') = Len(sale) + 1
    /\ sale'[Len(sale')].stage = "taken"
    /\ \A i \in DOMAIN sale : sale'[i] = sale[i]
    /\ UNCHANGED earned

Cancel ==
    /\ \E i \in DOMAIN sale :
          /\ sale[i].stage = "taken"
          /\ sale' = [sale EXCEPT ![i].stage = "cancelled"]
    /\ UNCHANGED earned

\* Some sales that were only taken are settled, each for its amount.
Settle ==
    \E rows \in SUBSET {i \in DOMAIN sale : sale[i].stage = "taken"} :
        /\ rows # {}
        /\ sale' = [i \in DOMAIN sale |->
                       IF i \in rows THEN [sale[i] EXCEPT !.stage = "settled"]
                       ELSE sale[i]]
        /\ earned' = earned + OwnerPart
                * SumFunctionOnSet([i \in DOMAIN sale |-> sale[i].amount], rows)

\* What overlapping requests may still not do: lose a sale or change its
\* amount, or take back what was earned.
Muddle ==
    /\ lax
    /\ \A i \in DOMAIN sale : i \in DOMAIN sale' /\ sale'[i].amount = sale[i].amount
    /\ earned' >= earned

Next ==
    /\ Take \/ Cancel \/ Settle \/ Muddle
    /\ UNCHANGED lax

Spec == Init /\ [][Next]_<<sale, earned, lax>>
=============================================================================
