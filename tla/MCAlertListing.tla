--------------------------- MODULE MCAlertListing ---------------------------
(* The menu's link, one to a later page of another tab, one with everything *)
(* in its URL.                                                              *)
EXTENDS AlertListing

CONSTANTS mine, disk

MCLinks == {Plain, [Plain EXCEPT !.tab = "resolved", !.page = 3],
            [tab |-> "acknowledged", filter |-> mine, search |-> disk, page |-> 2]}
=============================================================================
