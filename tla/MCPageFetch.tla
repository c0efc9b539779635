----------------------------- MODULE MCPageFetch -----------------------------
EXTENDS PageFetch

Timetable(rows) == [rows |-> rows, stub |-> FALSE, cancelled |-> 0]
Stub(rows) == [rows |-> rows, stub |-> TRUE, cancelled |-> 0]
Cancelled(rows, mentions) == [rows |-> rows, stub |-> FALSE, cancelled |-> mentions]

(* No rows, just below and at the size that is protected, pages that may   *)
(* lose 45 percent once (140, with the tie it may shrink to) and twice     *)
(* (256, 141, 78), a stub, and the two ways to bypass the guard.           *)
SampleDownloads == {Timetable(r) : r \in {0, 69, 70, 77, 78, 140, 141, 256}}
                     \cup {Stub(14), Cancelled(12, 16), Cancelled(42, 14)}
=============================================================================
