--------------------------- MODULE MCConfigFile ---------------------------
(* Instances of ConfigDoc for TLC. *)
EXTENDS ConfigDoc

CONSTANT letter

MCOther == {letter}

SomeFlags == {{}, {"BLANK"}, {"MULTI_VALUE", "X"}}
=============================================================================
