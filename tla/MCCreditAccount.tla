-------------------------- MODULE MCCreditAccount ---------------------------
(* TLC instances of CreditAccount.                                         *)
EXTENDS CreditAccount

MCAmounts == {-1, 1, 2}
=============================================================================
