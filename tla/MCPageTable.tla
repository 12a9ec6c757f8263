---------------------------- MODULE MCPageTable -----------------------------
(* Requests for tables of two entries: the canonical pages are 0 to 7 and  *)
(* 24 to 31, the larger page sizes are 2 and 4.                            *)
EXTENDS PageTable

Q(v, t, n) == [vaddr |-> v, type |-> t, size |-> n]

\* Single pages, runs over a table's end, over what another request maps, into
\* the hole and up to the last address; a size that is no multiple of the page.
MixedRequests == {Q(0, "Page4K", 1), Q(1, "Page4K", 2), Q(6, "Page4K", 3),
                  Q(0, "Page2M", 3), Q(4, "Page1G", 1), Q(31, "Page4K", 1)}
=============================================================================
