---------------------------- MODULE MC_PathJail ----------------------------
EXTENDS PathJail

\* Separator, dot and two letters: "r" names the root and "rx" is its
\* lookalike sibling.  Paths up to six characters reach "/r/../", "/rx/x",
\* "./r/x", "//r/.." and "/r/x/.".
Chars == {"/", ".", "r", "x"}
\* The same with a space, which only FileSystem.sanitize trims.
CharsSpace == Chars \cup {" "}

MCInputs == BoundedSeq(Chars, 6)
MCInputsSpace == BoundedSeq(CharsSpace, 5)

\* Absolute roots, given plainly, with a trailing separator and with
\* redundant elements.
MCRoots == {<<"/", "r">>, <<"/", "r", "/">>, <<"/", "/", "r", "/", ".">>}
MCCwd == <<"/", "r">>
=============================================================================
