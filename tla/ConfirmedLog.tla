----------------------------- MODULE ConfirmedLog -----------------------------
(***************************************************************************)
(* What the bulk writer promises to the next run of the indexer: batches   *)
(* land in any order, and the checkpoint document only ever names the      *)
(* highest block of a batch that landed together with all batches before   *)
(* it.  BulkWriter implements this specification.                          *)
(***************************************************************************)
EXTENDS Integers

CONSTANTS
    NumBatches,     \* batches the processor produces in one run
    MaxHeight       \* highest block number

VARIABLES
    maxBlock,       \* highest block of each batch
    applied,        \* batches whose documents Elasticsearch has applied
    stored          \* the checkpoint document, 0 when there is none

vars == <<maxBlock, applied, stored>>

Init ==
    /\ maxBlock \in [0 .. NumBatches - 1 -> 1 .. MaxHeight]
    /\ applied = {}
    /\ stored = 0

Land(i) ==
    /\ applied' = applied \cup {i}
    /\ UNCHANGED <<maxBlock, stored>>

\* Store the highest block of batch n over a lower checkpoint.
Persist(n) ==
    /\ 0 .. n \subseteq applied
    /\ maxBlock[n] > stored
    /\ stored' = maxBlock[n]
    /\ UNCHANGED <<maxBlock, applied>>

Next == \E i \in 0 .. NumBatches - 1 : Land(i) \/ Persist(i)

Spec == Init /\ [][Next]_vars
=============================================================================
