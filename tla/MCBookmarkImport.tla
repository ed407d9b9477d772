-------------------------- MODULE MCBookmarkImport --------------------------
(* Small instances of BookmarkImport: one authority with a homepage and two  *)
(* pages, one above the other, and one page of another authority.            *)
EXTENDS BookmarkImport

CONSTANTS home, page, leaf, alone, here, there, t1, t2, k1, k2

Authority(u) == IF u = alone THEN there ELSE here
Root(s)      == IF s = here THEN home ELSE alone
Ancestor(u, v) == u = v \/ u = home \/ (u = page /\ v = leaf)

\* A file of two chunks that share a page, a file of two pages of the
\* authority without its homepage, and an export without a bookmark.
Whole == [size |-> 2, parts |-> <<{home, page}, {page, alone}>>]
Deep  == [size |-> 1, parts |-> <<{page, leaf}>>]
Empty == [size |-> 1, parts |-> <<>>]

SwapTabs == {[t \in {t1, t2} |-> t], [t \in {t1, t2} |-> IF t = t1 THEN t2 ELSE t1]}
Files == {Whole, Deep, Empty}
NoSites   == {}
HomeKnown == {home}
=============================================================================
