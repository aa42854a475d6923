------------------------------ MODULE PathJail ------------------------------
(***************************************************************************)
(* The local-root jail, twice: the daemon's FileSystem.sanitize with the   *)
(* root normalisation of remotefs.New and joinLocal (src/pkg/remotefs/     *)
(* fs.go), and the shim's canonicalize_path, root set-up and              *)
(* path_within_root (src/shim/ldpreload/remotefs_shim.c).  The shim jails *)
(* a libc call's path and forwards the canonical absolute path to the      *)
(* daemon, which jails it again; the two must agree.                       *)
(*                                                                         *)
(* Strings are sequences of one-character strings over a small alphabet,   *)
(* because the properties are about characters: a separator, a dot, a      *)
(* space, a root name that is a textual prefix of a sibling.               *)
(***************************************************************************)
EXTENDS Integers, Sequences, SequencesExt

CONSTANTS
    Inputs,      \* the raw path strings a caller may pass
    RootCfgs,    \* raw configured roots (--local-root and REMOTEFS_ROOT)
    Cwd          \* the working directory of the intercepted process

VARIABLES
    rootCfg,     \* the configured root of this deployment
    input,       \* the path the caller passes
    daemonRes,   \* what the daemon's sanitize returned for it
    shimRes      \* what the shim's path_within_root returned for it

vars == <<rootCfg, input, daemonRes, shimRes>>

Slash == <<"/">>
Dot == <<".">>
DotDot == <<".", ".">>

\* Results: NoCall when the component was not reached.
NoCall == [called |-> FALSE]
Err == [called |-> TRUE, ok |-> FALSE]
Ok(rel) == [called |-> TRUE, ok |-> TRUE, rel |-> rel]

-----------------------------------------------------------------------------
(* String helpers of the Go strings package.                               *)

HasPrefix(s, p) == IsPrefix(p, s)

TrimPrefix(s, p) == IF HasPrefix(s, p) THEN SubSeq(s, Len(p) + 1, Len(s)) ELSE s

\* strings.TrimLeft(s, "/"): drop every leading separator.
TrimLeftSlash(s) ==
    LET keep == {i \in DOMAIN s : \E j \in 1..i : s[j] # "/"}
    IN  IF keep = {} THEN <<>> ELSE SubSeq(s, Min(keep), Len(s))

\* strings.TrimSpace over the alphabet, whose only white space is " ".
TrimSpace(s) ==
    LET inner == {i \in DOMAIN s : s[i] # " "}
    IN  IF inner = {} THEN <<>> ELSE SubSeq(s, Min(inner), Max(inner))

\* The segments between separators, empty ones included.
Segments(s) ==
    LET seps == <<0>> \o SetToSortSeq({i \in DOMAIN s : s[i] = "/"}, <)
                      \o <<Len(s) + 1>>
    IN  [j \in 1..(Len(seps) - 1) |-> SubSeq(s, seps[j] + 1, seps[j + 1] - 1)]

JoinSegments(st) ==
    IF st = <<>> THEN <<>>
    ELSE FlattenSeq([j \in DOMAIN st |-> IF j = 1 THEN st[1] ELSE Slash \o st[j]])

-----------------------------------------------------------------------------
(* Go's lexical path.Clean, which is filepath.Clean on a "/" system (and   *)
(* filepath.ToSlash is then the identity).                                 *)
Clean(s) ==
    LET rooted == s # <<>> /\ s[1] = "/"
        Step(st, seg) ==
            CASE seg = <<>> \/ seg = Dot -> st
              [] seg = DotDot /\ st # <<>> /\ Last(st) # DotDot -> Front(st)
              [] seg = DotDot /\ rooted -> st
              [] OTHER -> Append(st, seg)
        out == JoinSegments(FoldLeft(Step, <<>>, Segments(s)))
    IN  IF rooted THEN Slash \o out ELSE IF out = <<>> THEN Dot ELSE out

\* remotefs.New: the configured root is trimmed and cleaned, "." means none.
NewRoot(cfg) ==
    LET root == TrimSpace(cfg)
    IN  IF root = <<>> \/ Clean(root) = Dot THEN <<>> ELSE Clean(root)

\* Mutant: the prefix test against the bare root, without the separator.
SanitizeNoSeparator(root, local) ==
    LET l == TrimSpace(local)
        target == Clean(l)
        stripped == IF root = <<>> THEN TrimLeftSlash(target)
                    ELSE IF target = root THEN <<>> ELSE TrimPrefix(target, root)
        rel == TrimPrefix(Clean(stripped), Slash)
    IN  IF l = <<>> THEN Err
        ELSE IF root # <<>> /\ target # root /\ ~HasPrefix(target, root) THEN Err
        ELSE Ok(IF rel = Dot THEN <<>> ELSE rel)

\* Mutant: the root prefix is tested on the raw path, before cleaning.
SanitizeUncleaned(root, local) ==
    LET l == TrimSpace(local)
        target == l
        prefix == root \o Slash
        stripped == IF root = <<>> THEN TrimLeftSlash(target)
                    ELSE IF target = root THEN <<>> ELSE TrimPrefix(target, prefix)
        rel == TrimPrefix(Clean(stripped), Slash)
    IN  IF l = <<>> THEN Err
        ELSE IF root # <<>> /\ target # root /\ ~HasPrefix(target, prefix) THEN Err
        ELSE Ok(IF rel = Dot THEN <<>> ELSE rel)

\* FileSystem.sanitize(local) with localRoot root.
Sanitize(root, local) ==
    LET l == TrimSpace(local)
        target == Clean(l)
        prefix == root \o Slash
        stripped == IF root = <<>> THEN TrimLeftSlash(target)
                    ELSE IF target = root THEN <<>> ELSE TrimPrefix(target, prefix)
        rel == TrimPrefix(Clean(stripped), Slash)
    IN  IF l = <<>> THEN Err
        ELSE IF root # <<>> /\ target # root /\ ~HasPrefix(target, prefix) THEN Err
        ELSE Ok(IF rel = Dot THEN <<>> ELSE rel)

\* FileSystem.joinLocal(rel): the absolute path rendered in errors.
JoinLocal(root, rel) ==
    IF root = <<>> THEN (IF rel = <<>> THEN Slash ELSE Clean(Slash \o Slash \o rel))
    ELSE IF rel = <<>> THEN root ELSE Clean(root \o Slash \o rel)

-----------------------------------------------------------------------------
(* The shim.                                                               *)

\* canonicalize_path: relative paths are taken from the working directory;
\* runs of separators, "." and ".." are collapsed, ".." stops at "/".
ShimCanonicalize(path) ==
    LET scratch == IF path # <<>> /\ path[1] = "/" THEN path ELSE Cwd \o Slash \o path
        Step(st, seg) ==
            CASE seg = <<>> \/ seg = Dot -> st
              [] seg = DotDot -> IF st = <<>> THEN st ELSE Front(st)
              [] OTHER -> Append(st, seg)
    IN  Slash \o JoinSegments(FoldLeft(Step, <<>>, Segments(scratch)))

\* shim_init_once: REMOTEFS_ROOT, "/remote" when unset, canonicalized, with
\* a trailing separator dropped.
ShimRoot(cfg) ==
    LET r == ShimCanonicalize(IF cfg = <<>> THEN <<"/", "r", "e", "m", "o", "t", "e">> ELSE cfg)
    IN  IF Len(r) > 1 /\ Last(r) = "/" THEN Front(r) ELSE r

\* Mutant: path_within_root without the separator check after the root.
PathWithinRootNoSeparator(path) ==
    LET root == ShimRoot(rootCfg)
        norm == ShimCanonicalize(path)
        n == Len(root)
        offset == IF n < Len(norm) /\ norm[n + 1] = "/" THEN n + 1 ELSE n
    IN  IF ~HasPrefix(norm, root) THEN Err
        ELSE [called |-> TRUE, ok |-> TRUE, abs |-> norm,
              rel |-> IF offset >= Len(norm) THEN <<>> ELSE SubSeq(norm, offset + 1, Len(norm))]

\* path_within_root: the canonical path must start with the root and, for
\* a root longer than "/", continue with a separator or end there.
PathWithinRoot(path) ==
    LET root == ShimRoot(rootCfg)
        norm == ShimCanonicalize(path)
        n == Len(root)
        offset == IF n < Len(norm) /\ norm[n + 1] = "/" THEN n + 1 ELSE n
    IN  IF ~HasPrefix(norm, root) THEN Err
        ELSE IF n > 1 /\ n < Len(norm) /\ norm[n + 1] # "/" THEN Err
        ELSE [called |-> TRUE, ok |-> TRUE, abs |-> norm,
              rel |-> IF offset >= Len(norm) THEN <<>> ELSE SubSeq(norm, offset + 1, Len(norm))]

-----------------------------------------------------------------------------
Init ==
    /\ rootCfg \in RootCfgs
    /\ input \in Inputs
    /\ daemonRes = NoCall
    /\ shimRes = NoCall

\* A request that reaches the daemon with a raw path: an IPC client's
\* ?path= or a CLI argument, jailed by sanitize.
DaemonRequest ==
    /\ daemonRes' = Sanitize(NewRoot(rootCfg), input)
    /\ shimRes' = NoCall
    /\ UNCHANGED <<rootCfg, input>>

\* An intercepted libc call: path_within_root, and when it holds the shim
\* sends the canonical absolute path to the daemon, which sanitizes it.
ShimCall ==
    LET w == PathWithinRoot(input)
    IN  /\ shimRes' = w
        /\ daemonRes' = IF w.ok THEN Sanitize(NewRoot(rootCfg), w.abs) ELSE NoCall
        /\ UNCHANGED <<rootCfg, input>>

Next == DaemonRequest \/ ShimCall

Spec == Init /\ [][Next]_vars

-----------------------------------------------------------------------------
TypeOK ==
    /\ rootCfg \in RootCfgs
    /\ input \in Inputs
    /\ daemonRes.called \in BOOLEAN
    /\ shimRes.called \in BOOLEAN

\* Spec section 8: with a local root set, a path sanitize accepts renders
\* back (joinLocal: root + "/" + rel) to the canonical form of the path the
\* caller gave.  A lookalike sibling of the root, a ".." out of it or a
\* stray separator accepted by FileSystem.sanitize breaks it.
SanitizeRoundTrip ==
    (daemonRes.called /\ daemonRes.ok /\ shimRes = NoCall /\ NewRoot(rootCfg) # <<>>)
        => JoinLocal(NewRoot(rootCfg), daemonRes.rel) = Clean(input)

\* The shim and the daemon jail alike: every path the shim's
\* path_within_root lets through is accepted by the daemon's sanitize, with
\* the same relative key the shim computed.
ShimDaemonAgree ==
    (shimRes.called /\ shimRes.ok)
        => daemonRes.ok /\ daemonRes.rel = shimRes.rel

\* Spec section 8: a relative key sanitize returns has no empty, "." or ".."
\* segment and no leading separator, so it names an object below the
\* store prefix and never climbs out of it (FileSystem.sanitize's Clean
\* after the root is stripped).
SanitizeCanonical ==
    (daemonRes.called /\ daemonRes.ok /\ daemonRes.rel # <<>>)
        => \A j \in DOMAIN Segments(daemonRes.rel) :
               Segments(daemonRes.rel)[j] \notin {<<>>, Dot, DotDot}
=============================================================================
