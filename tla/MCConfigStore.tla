--------------------------- MODULE MCConfigStore ---------------------------
(* An instance of ConfigStore: three levels of keys, one array. *)
EXTENDS ConfigStore

MCScalarPaths == {<<"a">>, <<"a", "b", "c">>}
MCArrayPaths == {<<"a", "l">>}
MCBadParents == {<<"a", "b">>}
=============================================================================
