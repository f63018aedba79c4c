----------------------------- MODULE MCManifest -----------------------------
(***************************************************************************)
(* An instance of the manifest file for TLC.                               *)
(***************************************************************************)
EXTENDS ManifestLog

\* no metadata, a pair, two keys, and one key twice
SomeMeta == {<<>>, <<<<1, 1>>>>, <<<<2, 1>>, <<1, 2>>>>, <<<<1, 1>>, <<1, 2>>>>}
=============================================================================
