----------------------------- MODULE MCConfMenu -----------------------------
(* ConfMenu with the levels at the lower bound the menu checks.            *)
EXTENDS ConfMenu

MenuLevels == {-129, -128}
=============================================================================
