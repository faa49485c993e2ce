----------------------------- MODULE MCSdSystem -----------------------------
(* Instances of SdSystem for TLC. *)
EXTENDS SdSystem, TLC

CONSTANTS d1, d2

Contents == Permutations({d1, d2})

Card(v, h, f, n) == [version |-> v, ccs |-> h, scr |-> f, host |-> n]

\* High capacity with and without SET_BLOCKCNT, standard capacity, version 1; and
\* controllers of versions 3, 2 and 1.
AnyCard == {Card(2, TRUE, {"BUS_WIDTH_4", "SET_BLKCNT"}, 2), Card(2, TRUE, {}, 1),
            Card(2, FALSE, {"BUS_WIDTH_4"}, 2), Card(1, FALSE, {"CCS"}, 0)}
=============================================================================
