------------------------------ MODULE MCPaging ------------------------------
(* Tables of eight entries: a page and its neighbour, pages that share one, *)
(* two and three tables with it, and pages of the high half.               *)
EXTENDS Paging

MCPages  == {0, 1, 9, 65, 2047, 8192 - 2048, 8191}
MCFrames == {100}
MCFlags  == {{"PRESENT"}, {"PRESENT", "WRITE"}}
=============================================================================
