--------------------------- MODULE MCFileManager ----------------------------
(* Trees and symmetry for the runs of FileManager.                         *)
EXTENDS FileManager, TLC

FilePaths == {<<"a">>, <<"b">>}
DirPaths  == {<<"d">>, <<"d", "e">>, <<"d", "e", "f">>}
MixedPaths == {<<"d">>, <<"d", "a">>, <<"b">>}

Symmetric == Permutations(Proc) \union Permutations(Ino)
=============================================================================
