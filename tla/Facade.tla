------------------------------- MODULE Facade -------------------------------
(***************************************************************************)
(* The metadata side of the daemon: the IPC handlers /stat and /ls         *)
(* (src/pkg/remotefs/ipc.go) over FileSystem.Stat and ReadDir, the         *)
(* one-shot WarmMetadataCache walk and its snapshot (src/pkg/remotefs/     *)
(* fs.go), the S3 adapter's key, Head and List (the objectstore part of    *)
(* src/pkg/cache/cache.go), and the daemon's start-up order                *)
(* (src/cmd/remotefs-cli/main.go).                                         *)
(*                                                                         *)
(* A key is a sequence of segment names.  The bucket is fixed while a      *)
(* daemon runs (spec section 1); every Head and List call may fail with a  *)
(* backend error.  sanitize is modelled in PathJail: here a request names  *)
(* either a relative key or Outside, a path sanitize rejects.  Handlers    *)
(* read only state that is fixed while the daemon serves, so each runs as  *)
(* one step.  A process is either the daemon (warm, then serve) or the     *)
(* CLI "serve" command (serve with no snapshot); Init allows both.         *)
(***************************************************************************)
EXTENDS Integers, Sequences, SequencesExt, FiniteSets

CONSTANTS
    Bucket,       \* the keys of the bucket, as sequences of segment names
    StorePrefix,  \* the S3Store prefix (--prefix), as segment names
    Targets,      \* the relative keys requests name, and Outside
    Outside,      \* a request path that sanitize rejects
    NoMeta        \* fs.meta before WarmMetadataCache installs a map

VARIABLES
    phase,    \* the daemon process: init, warming, ready, serving, aborted, exited
    pending,  \* directories populateMetadata still has to list
    dst,      \* the map WarmMetadataCache is filling
    meta,     \* fs.meta: NoMeta or the installed snapshot
    last      \* the last IPC response

vars == <<phase, pending, dst, meta, last>>

NoResp == [op |-> "none"]

-----------------------------------------------------------------------------
(* The bucket as the spec sees it: objects and the directories their keys  *)
(* imply, relative to the store prefix.                                    *)

Drop(s, n) == SubSeq(s, n + 1, Len(s))

ObjPaths == {Drop(k, Len(StorePrefix)) :
                k \in {k \in Bucket : Len(k) > Len(StorePrefix) /\ IsPrefix(StorePrefix, k)}}

DirPaths == UNION {{SubSeq(r, 1, i) : i \in 1..(Len(r) - 1)} : r \in ObjPaths}

\* What a path is: the root and implied directories are directories, an
\* object is a file (Head answers first, and List gives it precedence).
TrueKind(r) ==
    CASE r = <<>> -> "dir"
      [] r \in ObjPaths -> "file"
      [] r \in DirPaths -> "dir"
      [] OTHER -> "none"

\* Spec section 4.2: list(key) returns the direct children, each path being
\* join(key, last_segment).
Children(r) ==
    {[path |-> c, dir |-> TRUE] : c \in {c \in DirPaths : Len(c) = Len(r) + 1 /\ IsPrefix(r, c)}}
    \cup {[path |-> c, dir |-> FALSE] : c \in {c \in ObjPaths : Len(c) = Len(r) + 1 /\ IsPrefix(r, c)}}

\* ListObjectsV2 with Prefix p and Delimiter "/": the keys one segment
\* below p, and the common prefixes of the deeper ones.
S3Contents(p) == {k \in Bucket : Len(k) = Len(p) + 1 /\ IsPrefix(p, k)}
S3CommonPrefixes(p) ==
    {SubSeq(k, 1, Len(p) + 1) : k \in {k \in Bucket : Len(k) > Len(p) + 1 /\ IsPrefix(p, k)}}

-----------------------------------------------------------------------------
(* The S3 adapter.                                                         *)

\* S3Store.key: the store prefix joined with the clean relative key.
Key(rel) == StorePrefix \o rel

\* S3Store.Head succeeds exactly when the key is an object.
HeadFound(rel) == Key(rel) \in Bucket

\* Mutant: object names keep the store prefix.
ListUntrimmed(rel) ==
    LET prefix == Key(rel)
        dirName(cp) == Drop(cp, Len(StorePrefix))
    IN  {[path |-> IF rel = <<>> THEN dirName(cp) ELSE rel \o dirName(cp), dir |-> TRUE] :
            cp \in S3CommonPrefixes(prefix)}
        \cup
        {[path |-> k, dir |-> FALSE] :
            k \in {k \in S3Contents(prefix) : Len(k) = Len(rel) + 1 /\ IsPrefix(rel, k)}}

\* S3Store.List(rel) without a backend error: each common prefix, its store
\* prefix and trailing separator trimmed, is joined with rel; each object
\* one segment below rel is kept under its relative name.
List(rel) ==
    LET prefix == Key(rel)
        dirName(cp) == Drop(cp, Len(StorePrefix))
        fileName(k) == Drop(k, Len(StorePrefix))
    IN  {[path |-> IF rel = <<>> THEN dirName(cp) ELSE rel \o dirName(cp), dir |-> TRUE] :
            cp \in S3CommonPrefixes(prefix)}
        \cup
        {[path |-> fileName(k), dir |-> FALSE] :
            k \in {k \in S3Contents(prefix) :
                      Len(fileName(k)) = Len(rel) + 1 /\ IsPrefix(rel, fileName(k))}}

\* Mutant: the common prefixes are stored after the objects.
ListedKindsDirWins(items) ==
    [p \in {i.path : i \in items} |->
        IF [path |-> p, dir |-> TRUE] \in items THEN "dir" ELSE "file"]

\* The entries one listing stores: an object and a common prefix of the
\* same name (only possible at the root) leave the object, which the loop
\* over page.Contents writes after the loop over CommonPrefixes.
ListedKinds(items) ==
    [p \in {i.path : i \in items} |->
        IF [path |-> p, dir |-> FALSE] \in items THEN "file" ELSE "dir"]

-----------------------------------------------------------------------------
(* Responses.                                                              *)

Resp(op, t, status, kind, items, faulted) ==
    [op |-> op, target |-> t, status |-> status, kind |-> kind,
     items |-> items, faulted |-> faulted]

\* Mutant: a failed List after a NotFound Head is reported as NotFound.
StatListErrorNotFound(t, headFails, listFails) ==
    CASE t = Outside -> Resp("stat", t, 500, "none", {}, FALSE)
      [] t = <<>> -> Resp("stat", t, 200, "dir", {}, FALSE)
      [] meta # NoMeta /\ t \in DOMAIN meta -> Resp("stat", t, 200, meta[t], {}, FALSE)
      [] headFails -> Resp("stat", t, 500, "none", {}, TRUE)
      [] HeadFound(t) -> Resp("stat", t, 200, "file", {}, FALSE)
      [] listFails -> Resp("stat", t, 404, "none", {}, TRUE)
      [] List(t) # {} -> Resp("stat", t, 200, "dir", {}, FALSE)
      [] OTHER -> Resp("stat", t, 404, "none", {}, FALSE)

\* handleStat over FileSystem.Stat: the root, the snapshot, Head, then
\* List; writeErrorFor maps NotFoundError to 404 and anything else to 500.
StatResp(t, headFails, listFails) ==
    CASE t = Outside -> Resp("stat", t, 500, "none", {}, FALSE)
      [] t = <<>> -> Resp("stat", t, 200, "dir", {}, FALSE)
      [] meta # NoMeta /\ t \in DOMAIN meta -> Resp("stat", t, 200, meta[t], {}, FALSE)
      [] headFails -> Resp("stat", t, 500, "none", {}, TRUE)
      [] HeadFound(t) -> Resp("stat", t, 200, "file", {}, FALSE)
      [] listFails -> Resp("stat", t, 500, "none", {}, TRUE)
      [] List(t) # {} -> Resp("stat", t, 200, "dir", {}, FALSE)
      [] OTHER -> Resp("stat", t, 404, "none", {}, FALSE)

\* handleList over FileSystem.ReadDir: a failed List of a non-root path is
\* reported as NotFoundError, an empty non-root listing too.
ListResp(t, listFails) ==
    CASE t = Outside -> Resp("ls", t, 500, "none", {}, FALSE)
      [] listFails /\ t # <<>> -> Resp("ls", t, 404, "none", {}, TRUE)
      [] listFails -> Resp("ls", t, 500, "none", {}, TRUE)
      [] t # <<>> /\ List(t) = {} -> Resp("ls", t, 404, "none", {}, FALSE)
      [] OTHER -> Resp("ls", t, 200, "none", List(t), FALSE)

-----------------------------------------------------------------------------
Init ==
    /\ phase = "init"
    /\ pending = {}
    /\ dst = <<>>
    /\ meta = NoMeta
    /\ last = NoResp

\* The daemon main calls WarmMetadataCache before serving: the map starts
\* with the root, and populateMetadata("") is the first listing.
WarmMetadataCache ==
    /\ phase = "init"
    /\ phase' = "warming"
    /\ dst' = (<<>> :> "dir")
    /\ pending' = {<<>>}
    /\ UNCHANGED <<meta, last>>

\* The CLI "serve" command starts serving with no snapshot.
ServeCold ==
    /\ phase = "init"
    /\ phase' = "ready"
    /\ UNCHANGED <<pending, dst, meta, last>>

\* Mutant: populateMetadata does not descend into directories.
PopulateMetadataShallow(rel) ==
    /\ phase = "warming" /\ rel \in pending
    /\ \/ /\ dst' = ListedKinds(List(rel)) @@ dst
          /\ pending' = pending \ {rel}
          /\ UNCHANGED phase
       \/ /\ phase' = "aborted"
          /\ UNCHANGED <<pending, dst>>
    /\ UNCHANGED <<meta, last>>

\* One populateMetadata(rel) call: List(rel), each item stored and each
\* directory to be listed in turn.  A List error or the expired warm-up
\* context fails the walk, and main exits with log.Fatalf.
PopulateMetadata(rel) ==
    /\ phase = "warming" /\ rel \in pending
    /\ \/ /\ dst' = ListedKinds(List(rel)) @@ dst
          /\ pending' = (pending \ {rel}) \cup {i.path : i \in {i \in List(rel) : i.dir}}
          /\ UNCHANGED phase
       \/ /\ phase' = "aborted"
          /\ UNCHANGED <<pending, dst>>
    /\ UNCHANGED <<meta, last>>

\* The walk is done: the map is installed under metaMu in one assignment.
InstallSnapshot ==
    /\ phase = "warming" /\ pending = {}
    /\ meta' = dst
    /\ phase' = "ready"
    /\ UNCHANGED <<pending, dst, last>>

\* NewIPCServer and Serve: createListener binds the socket or the TCP
\* address, and a failure ends main with log.Fatalf.
Serve ==
    /\ phase = "ready"
    /\ phase' \in {"serving", "aborted"}
    /\ UNCHANGED <<pending, dst, meta, last>>

\* SIGINT or SIGTERM: Serve shuts the server down and main returns.
Shutdown ==
    /\ phase = "serving"
    /\ phase' = "exited"
    /\ UNCHANGED <<pending, dst, meta, last>>

\* The process is started again; nothing of fs survives it.
Restart ==
    /\ phase \in {"aborted", "exited"}
    /\ phase' = "init"
    /\ pending' = {}
    /\ dst' = <<>>
    /\ meta' = NoMeta
    /\ UNCHANGED last

HandleStat(t) ==
    /\ phase = "serving"
    /\ \E headFails, listFails \in BOOLEAN : last' = StatResp(t, headFails, listFails)
    /\ UNCHANGED <<phase, pending, dst, meta>>

HandleList(t) ==
    /\ phase = "serving"
    /\ \E listFails \in BOOLEAN : last' = ListResp(t, listFails)
    /\ UNCHANGED <<phase, pending, dst, meta>>

Next ==
    \/ WarmMetadataCache \/ ServeCold \/ InstallSnapshot \/ Serve
    \/ Shutdown \/ Restart
    \/ \E rel \in pending : PopulateMetadata(rel)
    \/ \E t \in Targets : HandleStat(t) \/ HandleList(t)

Spec == Init /\ [][Next]_vars

-----------------------------------------------------------------------------
TypeOK ==
    /\ phase \in {"init", "warming", "ready", "serving", "aborted", "exited"}
    /\ pending \subseteq Seq(STRING)
    /\ meta = NoMeta \/ DOMAIN meta \subseteq Seq(STRING)
    /\ last = NoResp \/ last.status \in {200, 404, 500}

\* /stat tells the truth about the bucket: a 200 names the kind the path
\* has, a 404 is given only for a path that is neither an object nor a
\* directory, and a 500 only when sanitize refused the path or a Head or
\* List call failed.  It covers the head-then-list fallback of
\* FileSystem.Stat and every answer the warmed snapshot gives.
StatSound ==
    last.op = "stat" =>
        /\ last.status = 200 => last.kind = TrueKind(last.target)
        /\ last.status = 404 => TrueKind(last.target) = "none"
        /\ last.status = 500 => last.faulted \/ last.target = Outside

\* A 200 from /ls lists exactly the direct children of the directory, each
\* under join(dir, name) (spec section 4.2), as S3Store.List must rebuild
\* them from the common prefixes and objects of one ListObjectsV2 call.
ReadDirExact ==
    (last.op = "ls" /\ last.status = 200) => last.items = Children(last.target)

\* Spec section 7: NotFound (404) is reported only for a path that is
\* absent; a backend failure surfaces as a 500.
ReadDirNotFoundSound ==
    (last.op = "ls" /\ last.status = 404) => last.target \notin DirPaths

\* The snapshot WarmMetadataCache installs holds every object and directory
\* of the bucket with its kind, and nothing else, so a warmed /stat never
\* needs Head (spec section 8, scenario 2).
WarmSnapshotExact ==
    meta # NoMeta =>
        meta = [r \in {<<>>} \cup ObjPaths \cup DirPaths |-> TrueKind(r)]
=============================================================================
