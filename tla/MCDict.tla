------------------------------- MODULE MCDict -------------------------------
EXTENDS Dict

\* Two plain keys that meet at the last slot of every capacity up to 4, one key
\* that hashes to 0, 0.0 and -0.0, equal and of different hashes, and a float
\* NaN, equal to nothing.
MCHash == [k \in AnyKey |-> CASE k = "a"          -> 3
                              [] k = "b"          -> 7
                              [] k = "zero"       -> 0
                              [] k = "+0.0"       -> 3
                              [] k = "-0.0"       -> 5
                              [] k = "NaN float"  -> 4
                              [] k = "nil"        -> 1
                              [] OTHER            -> 0]

MCEqual == {<<k, k>> : k \in Key \ {"NaN float"}}
             \cup {<<"+0.0", "-0.0">>, <<"-0.0", "+0.0">>}
=============================================================================
