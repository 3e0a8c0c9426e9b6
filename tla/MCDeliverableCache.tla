-------------------------- MODULE MCDeliverableCache -------------------------
EXTENDS DeliverableCache, TLC

CONSTANTS th1, th2, t1, t2, s1, s2, f1, f2

Symmetry == Permutations(Tokens)
\* every pair of paths, a path and itself among them
Pairs == Files \X Files

\* one request at a time over two subjects with a kill, and two at a time over one
OneByOne == [threads |-> {th1}, subjects |-> {s1, s2}, requests |-> 5, idles |-> 1, crashes |-> 1]
Beside == [threads |-> {th1, th2}, subjects |-> {s1}, requests |-> 4, idles |-> 1, crashes |-> 0]
Both == {OneByOne, Beside}
Race == {[Beside EXCEPT !.idles = 0]}

=============================================================================
