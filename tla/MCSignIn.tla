------------------------------ MODULE MCSignIn ------------------------------
(* Two people on one Windows account. *)
EXTENDS SignIn, TLC

Sym == Permutations(Person)
=============================================================================
