------------------------ MODULE MCVendorGeneration ------------------------
(***************************************************************************)
(* A vendor session on a small instance.  Two buffer counts are enough for *)
(* a chain that is replaced by one with fewer, or more, back buffers.      *)
(***************************************************************************)
EXTENDS VendorGeneration

ASSUME TwoCounts == \E m, n \in BufferCounts : m < n
=============================================================================
