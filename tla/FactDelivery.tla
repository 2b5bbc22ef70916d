---------------------------- MODULE FactDelivery ----------------------------
(***************************************************************************)
(* What the fact rail promises a producer and the consumer groups, with no *)
(* relay, topic, offset or crash: a fact accepted with the transaction     *)
(* that caused it takes effect at most once in each group, in any order,   *)
(* and is given up on only in the open, as a dead letter.                  *)
(* FactRail implements this specification; the facts and inbox of          *)
(* DamageCase move as accepted and applied do here.                        *)
(***************************************************************************)
EXTENDS Naturals

CONSTANTS Facts, Groups,
          Relay            \* who gives up on a fact that cannot be encoded

VARIABLES accepted,
          applied,         \* how often a fact has taken effect in a group
          dead

vars == <<accepted, applied, dead>>

Init == accepted = {} /\ applied = [e \in Groups \X Facts |-> 0] /\ dead = {}

Accept(f) == /\ accepted' = accepted \cup {f}
             /\ UNCHANGED <<applied, dead>>

Apply(g, f) == /\ f \in accepted /\ applied[<<g, f>>] = 0
               /\ applied' = [applied EXCEPT ![<<g, f>>] = 1]
               /\ UNCHANGED <<accepted, dead>>

GiveUp(who, f) == /\ f \in accepted
                  /\ dead' = dead \cup {<<who, f>>}
                  /\ UNCHANGED <<accepted, applied>>

Next == \E f \in Facts :
            \/ Accept(f)
            \/ \E g \in Groups : Apply(g, f)
            \/ \E who \in Groups \cup {Relay} : GiveUp(who, f)

Spec == Init /\ [][Next]_vars
=============================================================================
