--------------------------- MODULE MCSamplerPool ----------------------------
(* Instances of SamplerPool for TLC. *)
EXTENDS SamplerPool

CONSTANTS train, valid

\* The training loader requests all of its two batches ahead, the second smaller
\* than the first; the other requests one ahead and drops an incomplete batch.
MCDataset == [l \in Loaders |-> IF l = train THEN 3 ELSE 5]
MCQueueSize == [l \in Loaders |-> IF l = train THEN 2 ELSE 1]
MCEpochs == [l \in Loaders |-> IF l = train THEN 2 ELSE 1]
=============================================================================
