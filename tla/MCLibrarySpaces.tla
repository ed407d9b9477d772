--------------------------- MODULE MCLibrarySpaces ---------------------------
(***************************************************************************)
(* A small library: w1 and w2 are alike, w3 is in the user's category.     *)
(* Space p1 holds w1 and w3; operation `join` adds w1 and w2 to p1, `make` *)
(* makes Space p2 with w2, `late` is `join` proposed once more for w2.     *)
(* Site w4, category `later`, tag blue and Space p3 come later.            *)
(***************************************************************************)
EXTENDS LibrarySpaces, TLC

CONSTANTS w1, w2, w3, w4, home, other, later, red, blue, p1, p2, p3, join, make, late, k1, k2, t1, t2

SiteRow(place, cat, key, by, tags) ==
    [row |-> "there", cat |-> cat, pos |-> place, ver |-> 1, rev |-> 1, text |-> 0, key |-> key,
     by |-> by, tags |-> tags, tby |-> "nobody"]

MCSites  == [s \in {w1, w2, w3, w4} |->
               CASE s = w1 -> SiteRow(0, home, k1, "nobody", {})
                 [] s = w2 -> SiteRow(1, home, k1, "nobody", {red})
                 [] s = w3 -> SiteRow(0, other, k2, "user", {})
                 [] s = w4 -> [SiteRow(0, home, k2, "nobody", {}) EXCEPT !.row = "absent"]]
MCSpaces == [x \in {p1, p2, p3} |->
               IF x = p1 THEN [row |-> "there", ver |-> 1, mem |-> {<<w1, 0>>, <<w3, 1>>}]
               ELSE [row |-> "absent", ver |-> 0, mem |-> {}]]
MCLabels == [x \in {home, other, later, red, blue} |-> IF x \in {later, blue} THEN 0 ELSE 1]
MCOrder  == [s \in {w1, w2, w3, w4} |-> CASE s = w1 -> 0 [] s = w2 -> 1 [] s = w3 -> 2 [] s = w4 -> 3]
MCPlan   == [o \in {join, make, late} |->
               CASE o = join -> [create |-> FALSE, space |-> p1, sites |-> {w1, w2}]
                 [] o = make  -> [create |-> TRUE, space |-> p2, sites |-> {w2}]
                 [] o = late -> [create |-> FALSE, space |-> p1, sites |-> {w2}]]
MCProposed == <<join, make>>
Tabs     == Permutations(Tab)
=============================================================================
