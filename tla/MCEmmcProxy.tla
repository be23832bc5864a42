----------------------------- MODULE MCEmmcProxy -----------------------------
EXTENDS EmmcProxy, TLC

CONSTANTS c1, c2

OneClient == {c1}
TwoClients == {c1, c2}
Symmetry == Permutations(TwoClients)
MCBlocks == 1 .. 2
MCGeometries == {SectorsPerCluster}
Raw == {"raw"}
RawOrEmpty == {"raw", "empty"}

\* Every sector has a word of its own.
Distinct == [emmc |-> [s \in 1 .. 12 |-> 100 + s], ms |-> [s \in 1 .. 12 |-> 200 + s],
             gc   |-> [s \in 1 .. 12 |-> 300 + s]]

\* The last sectors of the partition look like the commands of answers.
Lookalike == [Distinct EXCEPT !["emmc"] = <<0, 5, 0, 33, 34, 4, 4, 3>>]
=============================================================================
