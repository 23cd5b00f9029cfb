---------------------------- MODULE MCInternTable ----------------------------
EXTENDS InternTable

\* Two strings that share a hash, and homes that meet in small tables, wrap
\* around their end and part again in larger ones: 1 and 5 meet in 4 slots,
\* 3, 7 and 15 at the last slot of 4, 7 and 15 at the last slot of 8.
MCHash == [t \in Text |-> CASE t \in {"a", "b"} -> 7
                            [] t = "c" -> 15
                            [] t = "d" -> 3
                            [] t = "e" -> 5
                            [] OTHER   -> 1]
=============================================================================
