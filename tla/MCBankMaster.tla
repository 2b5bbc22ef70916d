---------------------------- MODULE MCBankMaster ----------------------------
(***************************************************************************)
(* One bank, met by operators and two rows, one of which carries the code  *)
(* of a member and the other the bank's own.  The aggregators' ids and the *)
(* operators are interchangeable.                                          *)
(***************************************************************************)
EXTENDS BankMaster, TLC

CONSTANTS bank, member, other, r1, r2

MCRowOf == r1 :> [bank |-> bank, code |-> member] @@ r2 :> [bank |-> bank, code |-> bank]
MCSymmetry == Permutations(Aggrs) \cup Permutations(Requests)
=============================================================================
