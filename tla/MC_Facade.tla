----------------------------- MODULE MC_Facade -----------------------------
EXTENDS Facade

CONSTANTS Out, None

\* Under the store prefix "p/": a file "b", a directory "c" holding "c/b",
\* a directory "a" holding the file "a/b" and an object "a" that shares its
\* name with the directory; "q/a" lies outside the prefix.
MCBucket == {<<"p", "a", "b">>, <<"p", "a">>, <<"p", "b">>, <<"p", "c", "b">>, <<"q", "a">>}
\* The same with "a/b" also a directory, holding "a/b/a".
MCBucketNested == MCBucket \cup {<<"p", "a", "b", "a">>}
MCPrefix == <<"p">>
\* The root, the files, the directories, absent paths (one named like the
\* key outside the prefix), a path sanitize rejects, and for the nested
\* bucket the directory "a/b" and "a/a/b".
MCTargets == {<<>>, <<"a">>, <<"b">>, <<"c">>, <<"a", "b">>, <<"a", "a">>, <<"q">>, Out}
MCTargetsNested == MCTargets \cup {<<"a", "a", "b">>}
=============================================================================
