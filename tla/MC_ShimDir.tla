----------------------------- MODULE MC_ShimDir -----------------------------
EXTENDS ShimDir, TLC

CONSTANTS Out, None, h1, h2

\* The bucket of MC_Facade: under "p/" a file "b", a directory "c" holding
\* "c/b", and "a", both an object and a directory holding "a/b".
MCBucket == {<<"p", "a", "b">>, <<"p", "a">>, <<"p", "b">>, <<"p", "c", "b">>, <<"q", "a">>}
MCPrefix == <<"p">>
\* The root, a directory, a file (ENOENT: its listing is empty) and
\* an absent path.
MCDirs == {<<>>, <<"a">>, <<"b">>, <<"x">>}
MCHandles == {h1, h2}
\* A negative position and one past every listing's end.
MCBadLocs == {-1, 6}
Symm == Permutations(MCHandles)
=============================================================================
