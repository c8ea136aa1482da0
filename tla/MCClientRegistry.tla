--------------------------- MODULE MCClientRegistry ---------------------------
\* Small instances of ClientRegistry.  Two handlers refer to at most two objects
\* each and the dictionary to one while a third handler makes another: with six
\* objects one is always free.
EXTENDS ClientRegistry, TLC

Symmetric == Permutations(Handlers) \cup Permutations(Known)

\* An object is told from others by who refers to it, and one that nothing
\* refers to is as good as new.
View ==
    LET Object(i) == <<i = ases, {h \in Handlers : found[h] = i}, {h \in Handlers : home[h] = i},
                       entries[i], bids[i], primary[i]>> IN
    <<{Object(i) : i \in {i \in Instances : ~Unreachable(i)}}, pc, name, doubled>>

\* The invariants promise nothing after a double connection.
NotDoubled == ~doubled
=============================================================================
