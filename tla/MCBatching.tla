----------------------------- MODULE MCBatching -----------------------------
(***************************************************************************)
(* Instances of Batching: three demand facts, of which a1 and a2 are the   *)
(* two legs of one bank row where a run needs it, and two banks.           *)
(***************************************************************************)
EXTENDS Batching

CONSTANTS a1, a2, a3, bankA, bankB

MCAsgns == {a1, a2, a3}
TwoLegs == [a \in MCAsgns |-> IF a = a3 THEN a3 ELSE a1]
MCBankOf == [a \in MCAsgns |-> IF a = a3 THEN bankB ELSE bankA]
NoOverride == [b \in {bankA, bankB} |-> 0]
=============================================================================
