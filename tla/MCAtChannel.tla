---------------------------- MODULE MCAtChannel -----------------------------
(* Instances of AtChannel for TLC. *)
EXTENDS AtChannel

OneCommand == {<<"NO_RESULT">>}
AllTypes == {<<"NUMERIC">>, <<"SINGLELINE">>, <<"MULTILINE">>, <<"SMS">>}
=============================================================================
