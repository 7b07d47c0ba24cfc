------------------------------ MODULE MCBlogging ------------------------------
(* Two browsers, so that one changes what the other's page shows; two rows in *)
(* each table, so that a post can move from a blog that goes to one that      *)
(* stays; one lost answer, so that each statement may run a second time.      *)
EXTENDS Blogging, TLC

BrowserSymmetry == Permutations(Browsers)
=============================================================================
