-------------------------- MODULE MCMetadataBackfill --------------------------
(* Small instances of MetadataBackfill. *)
EXTENDS MetadataBackfill, TLC

CONSTANTS a1, a2, b1, c1, c2, k1, k2

TwoOrigins(i) == IF i \in {a1, a2} THEN "a" ELSE "b"
OneEach(k)    == IF k = k1 THEN c1 ELSE c2
BothOfFirst(k) == c1

\* Exchanging two processes with their consumers, the consumers of one process,
\* or the targets of one origin, changes nothing.
Twin(x) == CASE x = a1 -> a2 [] x = a2 -> a1 [] x = c1 -> c2 [] x = c2 -> c1
             [] x = k1 -> k2 [] x = k2 -> k1
Exchange(M, F) == {[x \in M |-> IF x \in Y THEN Twin(x) ELSE x] : Y \in F}
SwapProcesses == Exchange({a1, a2, c1, c2, k1, k2},
                          {{a1, a2}, {c1, c2, k1, k2}, {a1, a2, c1, c2, k1, k2}})
SwapConsumers == Exchange({a1, a2, k1, k2}, {{a1, a2}, {k1, k2}, {a1, a2, k1, k2}})

\* Never analysed; analysed, but for the model's fields; without a page that
\* could be read; enriched before summaries existed.
Blank   == [there |-> TRUE, moved |-> FALSE, stale |-> FALSE, page |-> FALSE,
            status |-> "not_analyzed", stamp |-> None, llm |-> "missing"]
Partial == [Blank EXCEPT !.page = TRUE, !.status = "complete"]
Failing == [Blank EXCEPT !.status = "failed", !.llm = "settled"]
Legacy  == [Partial EXCEPT !.llm = "old"]

NeverAnalysed(i) == {Blank}
Mixed(i)         == IF i = a1 THEN {Blank, Legacy} ELSE {Failing, Blank}
=============================================================================
