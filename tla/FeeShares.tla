----------------------------- MODULE FeeShares -----------------------------
(***************************************************************************)
(* Who gets what of a shop's approved sales (compute_fee_distribution,     *)
(* _allocate_with_remainder and compute_distribution in                    *)
(* app/services/settlement_service.py; staff shares in                     *)
(* app/api/admin/settlement_routes.py).                                    *)
(*                                                                         *)
(* The fees of the whole are rounded first, then split over the staff by   *)
(* their sales; the last unit absorbs what rounding left over.  Amounts    *)
(* are whole won and rates and shares whole percents; Python's round()     *)
(* takes a tie to the even neighbour.                                      *)
(***************************************************************************)
EXTENDS Integers, Sequences, FiniteSets, FiniteSetsExt, Functions

CONSTANTS
    Staff,          \* ids of the shop's staff
    SaleAmounts,
    ShareRates,     \* the shares an administrator enters
    Rates,          \* [fee, cost, commission]
    MaxSales        \* per member of the staff

Unattributed == 0

ASSUME SharesAssumption ==
    /\ IsFiniteSet(Staff) /\ Staff \subseteq Nat \ {Unattributed}
    /\ SaleAmounts \subseteq Nat /\ ShareRates \subseteq Int
    /\ Rates \subseteq [fee : Nat, cost : Nat, commission : Nat]
    /\ \A r \in Rates : r.commission <= r.fee - r.cost

VARIABLES
    rates,          \* what the shop is settled at
    share,          \* staff.share_rate
    sales           \* the approved sales credited to each, and their sum

shareVars == <<rates, share, sales>>

SharesInit ==
    /\ rates \in Rates
    /\ share = [s \in Staff |-> 50]
    /\ sales = [s \in Staff \cup {Unattributed} |-> [count |-> 0, gross |-> 0]]

Sell(s, amount) ==
    /\ sales[s].count < MaxSales
    /\ sales' = [sales EXCEPT ![s] = [count |-> @.count + 1, gross |-> @.gross + amount]]
    /\ UNCHANGED <<rates, share>>

\* admin_update_staff_share_rate(): kept between nothing and all.
UpdateShare(s, x) ==
    /\ share' = [share EXCEPT ![s] = Max({0, Min({100, x})})]
    /\ UNCHANGED <<rates, sales>>

SharesNext ==
    \/ \E s \in Staff \cup {Unattributed}, a \in SaleAmounts : Sell(s, a)
    \/ \E s \in Staff, x \in ShareRates : UpdateShare(s, x)

SharesSpec == SharesInit /\ [][SharesNext]_shareVars

-----------------------------------------------------------------------------
(* The algorithms.                                                         *)

Total(seq) == SumFunction(seq)

\* round(n / d): half a unit more and cut off, a hair less where the tie would
\* go up from an even quotient.
Rounded(n, d) == (2 * n + d - 1 + ((n \div d) % 2)) \div (2 * d)

\* compute_fee_distribution(): VAT is a tenth on top of fee and cost, not of
\* the commission.
FeeDistribution(gross) ==
    LET fee == Rounded(gross * rates.fee * 11, 1000)
        cost == Rounded(gross * rates.cost * 11, 1000)
        commission == Rounded(gross * rates.commission, 100)
    IN  [fee |-> fee, cost |-> cost, commission |-> commission,
         profit |-> fee - cost - commission, net |-> gross - fee]

\* Wrong: every part is rounded for itself.
AllocateRounded(total, weights) ==
    [i \in DOMAIN weights |-> Rounded(total * weights[i], Total(weights))]

\* _allocate_with_remainder()
AllocateWithRemainder(total, weights) ==
    LET n == Len(weights)
        part == [i \in 1..n |-> IF Total(weights) = 0 THEN 0
                                ELSE Rounded(total * weights[i], Total(weights))]
    IN  [i \in 1..n |-> IF i < n THEN part[i] ELSE total - SumFunctionOnSet(part, 1..(n - 1))]

\* The staff with sales, the best first; sales nobody is credited with last.
Sellers == {s \in Staff : sales[s].count > 0}
Better(s, u) ==
    \/ sales[s].gross > sales[u].gross
    \/ sales[s].gross = sales[u].gross /\ s < u

Units ==
    [n \in 1..Cardinality(Sellers) |->
        CHOOSE s \in Sellers : Cardinality({u \in Sellers : Better(u, s)}) = n - 1]
    \o (IF sales[Unattributed].count > 0 THEN <<Unattributed>> ELSE <<>>)

\* compute_distribution(): one row per unit; the last one's net amount takes
\* what is missing from the net amount of the whole.
Distribution ==
    LET units == Units
        gross == [i \in DOMAIN units |-> sales[units[i]].gross]
        totals == FeeDistribution(Total(gross))
        charged == [c \in {"fee", "cost", "commission"} |->
                       AllocateWithRemainder(totals[c], gross)]
        raw == [i \in DOMAIN units |-> gross[i] - charged["fee"][i]]
        net == [i \in DOMAIN units |->
                   IF i < Len(units) THEN raw[i] ELSE raw[i] + totals.net - Total(raw)]
        designer(i) == IF units[i] = Unattributed THEN 0
                       ELSE Rounded(net[i] * share[units[i]], 100)
    IN  [i \in DOMAIN units |->
            [unit |-> units[i], gross |-> gross[i], fee |-> charged["fee"][i],
             cost |-> charged["cost"][i], commission |-> charged["commission"][i],
             net |-> net[i], designer |-> designer(i), owner |-> net[i] - designer(i)]]

\* Wrong: a member of the staff shares what the platform earns as well.
ViewOfProfit(s) ==
    LET own == FeeDistribution(sales[s].gross)
    IN  [net |-> own.net + own.profit, designer |-> Rounded((own.net + own.profit) * share[s], 100)]

\* designer_settlement(): the staff's own screen computes from the own sales
\* alone.
DesignerView(s) ==
    LET own == FeeDistribution(sales[s].gross)
    IN  [net |-> own.net, designer |-> Rounded(own.net * share[s], 100)]

\* merchant_stats(): the dealer's screen computes from the whole.
DealerView ==
    LET gross == SumFunction([s \in DOMAIN sales |-> sales[s].gross])
    IN  gross - Rounded(gross * rates.fee * 11, 1000)

-----------------------------------------------------------------------------

\* The breakdown a shop sees is the settlement it gets, to the won: the rows
\* add up to the totals computed from the whole, staff and owner share the net
\* amount with neither taking more than there is (a last row of a few won may
\* be left with a net amount below nothing: then both bear it), no row is
\* further from its exact part than rounding the others explains, and the
\* platform never loses more than one won (the identities in
\* compute_distribution's docstring).
DistributionAddsUp == \A rows \in {Distribution} :
    LET column(f) == Total([i \in DOMAIN rows |-> rows[i][f]])
        totals == FeeDistribution(column("gross"))
        slack(i) == IF i < Len(rows) THEN 1 ELSE Len(rows) - 1
        off(i) == 2 * (rows[i].fee * column("gross") - totals.fee * rows[i].gross)
    IN  rows # <<>> =>
            /\ \A f \in {"fee", "cost", "commission", "net"} : column(f) = totals[f]
            /\ column("designer") + column("owner") = totals.net
            /\ \A i \in DOMAIN rows :
                  /\ rows[i].designer \in (0..rows[i].net) \cup (rows[i].net..0)
                  /\ off(i) <= slack(i) * column("gross")
                  /\ -off(i) <= slack(i) * column("gross")
            /\ totals.profit >= -1

\* What a member of the staff and the dealer are shown is what the shop's
\* breakdown shows of them: the net amount to the won for the dealer, and for
\* the staff up to the won the breakdown's rounding moves between its rows
\* (designer_settlement's docstring: the same basis as net_payout).
ViewsAgree == \A rows \in {Distribution} :
    LET slack(i) == IF i < Len(rows) THEN 1 ELSE Len(rows) - 1
        far(x, y, i) == x - y > slack(i) \/ y - x > slack(i)
    IN  /\ DealerView = Total([i \in DOMAIN rows |-> rows[i].net])
        /\ \A i \in DOMAIN rows : rows[i].unit # Unattributed =>
              LET own == DesignerView(rows[i].unit)
              IN  ~far(own.net, rows[i].net, i) /\ ~far(own.designer, rows[i].designer, i)
=============================================================================
