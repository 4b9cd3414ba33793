-------------------------- MODULE MCMappedBuffers --------------------------
(* Small instances of MappedBuffers: three buffers, two binding points.     *)
EXTENDS MappedBuffers

MCTargets == {"array", "unpack"}

(* One-copy: sizes that ALIGNBO rounds and one that it does not.            *)
OddSizes == [b \in Buffers |-> IF b = 1 THEN 1 ELSE IF b = 2 THEN 3 ELSE 2]

(* Host addresses: one for each buffer.                                      *)
Apart == [b \in Buffers |-> {10 * b}]

(* Zero-copy: whole pages.  The host has two banks of pages with the same    *)
(* offsets in the MBUFO area, so that mappings collide there.                *)
PageSizes == [b \in Buffers |-> IF b = 1 THEN 2 * Page ELSE Page]
Banks == [b \in Buffers |-> IF b = 1 THEN {3 * Page} ELSE IF b = 2 THEN {5 * Page, 14 * Page}
                            ELSE {13 * Page}]
===========================================================================
