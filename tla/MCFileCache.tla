----------------------------- MODULE MCFileCache ----------------------------
(***************************************************************************)
(* Finite instances of FileCache for TLC.  The paths are d/f and d/f/g,    *)
(* and d itself where directories matter: each is a directory prefix of    *)
(* the next, so that they can get in the way of each other.  The targets   *)
(* are f and g, and f2, another spelling of f, which the upstream takes    *)
(* for another file.                                                       *)
(***************************************************************************)
EXTENDS FileCache, TLC

CONSTANTS d, f, g, f2

MCTargets == {f, f2, g}
MCCachePath == [t \in MCTargets |-> IF t = f2 THEN f ELSE t]

MCPaths == {f, g}
MCAbove == {<<f, g>>}

\* Liveness: two spellings of one path, and the directory above it.
MCSpellings == {f, f2}
MCSpellingsPath == [t \in MCSpellings |-> f]
MCSpellingsPaths == {d, f}
MCSpellingsAbove == {<<d, f>>}

MCDeepPaths == {d, f, g}
MCDeepAbove == {<<d, f>>, <<d, g>>, <<f, g>>}

\* Clients and versions are interchangeable; the paths are not.
Symmetry == Permutations(Clients) \cup Permutations(Versions)

=============================================================================
