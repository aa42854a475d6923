------------------------------- MODULE ShimDir -------------------------------
(***************************************************************************)
(* The shim's directory handles (src/shim/ldpreload/remotefs_shim.c):     *)
(* opendir fetches /ls from the daemon once and materializes a shim_dir   *)
(* with ".", ".." and one dirent per child (populate_directory,           *)
(* relative_name); the handle is kept in the registry g_dirs; readdir,    *)
(* rewinddir, telldir, seekdir and closedir work on its cursor.           *)
(*                                                                         *)
(* The daemon side is Facade's handleList, taken by INSTANCE with a       *)
(* serving daemon, so a listing is what S3Store.List and ReadDir produce  *)
(* for the bucket.  A dirent name is a sequence of segments: a proper     *)
(* name has exactly one.  Registry operations hold g_dir_lock for their    *)
(* whole body and are one step each; a handle is used by one thread at a  *)
(* time, as POSIX requires of a program, so the threads of the process    *)
(* are not told apart.                                                     *)
(***************************************************************************)
EXTENDS Integers, Sequences, SequencesExt, FiniteSets

CONSTANTS
    Bucket, StorePrefix, Outside, NoMeta,  \* as in Facade
    Dirs,       \* the relative keys a program opens under the root
    Handles,    \* the addresses calloc may return for a shim_dir
    BadLocs     \* seekdir arguments telldir never returned

VARIABLES
    reg,    \* g_dirs: the registered handles
    dirs,   \* the shim_dir of each registered handle: rel, entries, index
    told,   \* per handle, the last value telldir returned (-1: none)
    err     \* errno left by the last failed opendir

vars == <<reg, dirs, told, err>>

F == INSTANCE Facade WITH Targets <- Dirs, phase <- "serving", pending <- {},
                          dst <- <<>>, meta <- NoMeta, last <- [op |-> "none"]

\* The state of an address that holds no shim_dir.
FreeDir == [rel |-> <<>>, entries |-> <<>>, index |-> 0]

DotEntry == [name |-> <<".">>, dir |-> TRUE]
DotDotEntry == [name |-> <<"..">>, dir |-> TRUE]

-----------------------------------------------------------------------------
\* Mutant: the separator after the directory's own path is not skipped, so
\* the name ends at once.
RelativeNameKeepSeparator(dirRel, entry) ==
    IF dirRel = <<>> THEN <<entry[1]>>
    ELSE IF ~IsPrefix(dirRel, entry) THEN entry
    ELSE <<>>

\* relative_name: the first segment of the entry's path below the
\* directory; the whole path when the directory is not a prefix of it.
RelativeName(dirRel, entry) ==
    IF dirRel = <<>> THEN <<entry[1]>>
    ELSE IF ~IsPrefix(dirRel, entry) THEN entry
    ELSE IF Len(entry) = Len(dirRel) THEN <<>>
    ELSE <<entry[Len(dirRel) + 1]>>

\* populate_directory: "." and "..", then each item of the /ls array in
\* order, named by relative_name; an empty name is skipped and the count
\* is the number of slots filled.
PopulateDirectory(rel, items) ==
    LET listed == SetToSeq(items)
        named == [j \in DOMAIN listed |->
                    [name |-> RelativeName(rel, listed[j].path), dir |-> listed[j].dir]]
    IN  <<DotEntry, DotDotEntry>> \o SelectSeq(named, LAMBDA e : e.name # <<>>)

-----------------------------------------------------------------------------
Init ==
    /\ reg = {}
    /\ dirs = [h \in Handles |-> FreeDir]
    /\ told = [h \in Handles |-> -1]
    /\ err = "none"

\* opendir on a path inside the root: GET /ls; 404 is ENOENT, any other
\* status EIO, a transport failure returns NULL without setting errno; a
\* 200 is materialized and registered under a fresh address.
Opendir(h, d) ==
    /\ h \notin reg
    /\ \E listFails \in BOOLEAN :
        LET r == F!ListResp(d, listFails)
        IN  \/ /\ r.status = 200
               /\ reg' = reg \cup {h}
               /\ dirs' = [dirs EXCEPT ![h] = [rel |-> d, index |-> 0,
                                               entries |-> PopulateDirectory(d, r.items)]]
               /\ told' = [told EXCEPT ![h] = -1]
               /\ UNCHANGED err
            \/ /\ r.status # 200
               /\ err' = IF r.status = 404 THEN "ENOENT" ELSE "EIO"
               /\ UNCHANGED <<reg, dirs, told>>

\* curl fails before any status: NULL, errno as curl left it.
OpendirTransportFailure ==
    /\ err' = "unset"
    /\ UNCHANGED <<reg, dirs, told>>

\* readdir (and readdir64, readdir_r): lookup_dir, then dir_next_entry.
\* At the end it returns NULL and changes nothing.
Readdir(h) ==
    /\ h \in reg
    /\ dirs[h].index < Len(dirs[h].entries)
    /\ dirs' = [dirs EXCEPT ![h].index = @ + 1]
    /\ UNCHANGED <<reg, told, err>>

\* closedir: unregister_dir and free_dir; the address is free again.
Closedir(h) ==
    /\ h \in reg
    /\ reg' = reg \ {h}
    /\ dirs' = [dirs EXCEPT ![h] = FreeDir]
    /\ told' = [told EXCEPT ![h] = -1]
    /\ UNCHANGED err

Rewinddir(h) ==
    /\ h \in reg
    /\ dirs' = [dirs EXCEPT ![h].index = 0]
    /\ UNCHANGED <<reg, told, err>>

Telldir(h) ==
    /\ h \in reg
    /\ told' = [told EXCEPT ![h] = dirs[h].index]
    /\ UNCHANGED <<reg, dirs, err>>

\* seekdir: the index moves only for 0 <= loc < count, so the end
\* position telldir returns after the last entry is ignored.
Seekdir(h, loc) ==
    /\ h \in reg
    /\ dirs' = IF loc >= 0 /\ loc < Len(dirs[h].entries)
               THEN [dirs EXCEPT ![h].index = loc] ELSE dirs
    /\ UNCHANGED <<reg, told, err>>

Next ==
    \/ \E h \in Handles, d \in Dirs : Opendir(h, d)
    \/ OpendirTransportFailure
    \/ \E h \in Handles :
          \/ Readdir(h) \/ Closedir(h) \/ Rewinddir(h) \/ Telldir(h)
          \/ \E loc \in BadLocs \cup ({told[h]} \ {-1}) : Seekdir(h, loc)

Spec == Init /\ [][Next]_vars

-----------------------------------------------------------------------------
TypeOK ==
    /\ reg \subseteq Handles
    /\ \A h \in Handles : dirs[h].index \in 0..Len(dirs[h].entries)
    /\ err \in {"none", "ENOENT", "EIO", "unset"}

\* What a program reads from an open handle is the directory as the spec
\* lists it: ".", "..", then one dirent per direct child, named by its last
\* segment and typed as a directory or a file, none lost and none twice.
\* It takes S3Store.List, ReadDir, handleList, the JSON array order,
\* relative_name and populate_directory's slot counting together.
DirentsExact ==
    \A h \in reg :
        LET e == dirs[h].entries
            kids == F!Children(dirs[h].rel)
        IN  /\ Len(e) = 2 + Cardinality(kids)
            /\ e[1] = DotEntry /\ e[2] = DotDotEntry
            /\ {e[j] : j \in 3..Len(e)} =
                   {[name |-> <<Last(c.path)>>, dir |-> c.dir] : c \in kids}
=============================================================================
