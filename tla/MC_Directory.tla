---------------------------- MODULE MC_Directory ----------------------------
EXTENDS Directory, TLC

CONSTANTS r0, s1, s2, a, b, h1, h2

\* Paths of up to two tokens over the names, "." and "..".
MCPaths == UNION {[1..k -> Names \cup {".", ".."}] : k \in 0..2}

====
