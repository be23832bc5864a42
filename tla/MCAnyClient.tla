----------------------------- MODULE MCAnyClient -----------------------------
(* AnyClient with one memory block more than a pool needs. *)
EXTENDS AnyClient

CONSTANT c1

OneClient == {c1}
MCBlocks == 1 .. 2
TwoGeometries == {1, 2}
AllFamilies == Devices
\* The handlers for gc are copies of those for emmc.
TwoFamilies == {"emmc", "ms"}
\* Nobody looks at the data here: every sector is zeros.
Zeros == [d \in Devices |-> <<>>]
=============================================================================
