------------------------------ MODULE MCManufacture ------------------------------
(* A file in scope, one below a prohibited prefix and one of the control  *)
(* plane, which the scope alone would allow.                              *)
EXTENDS Manufacture

MCScope == {<<"src", "/">>, <<"docs", "/">>}
MCProhibited == {<<"src", "/", "vault">>}
MCFiles == {<<"src", "/", "a">>, <<"src", "/", "vault", "/", "k">>, <<"docs", "/", "governance", "/", "x">>}
=============================================================================
