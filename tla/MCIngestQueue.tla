--------------------------- MODULE MCIngestQueue ---------------------------
(* IngestQueue with two paths to the same bytes. *)
EXTENDS IngestQueue, TLC

CONSTANTS p, q, h

SameBytes == [x \in {p, q} |-> h]

OneManifest == {<<p, NoPath, p>>}

Symmetry == Permutations(Clients) \cup Permutations(Workers)
=============================================================================
