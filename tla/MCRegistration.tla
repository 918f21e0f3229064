--------------------------- MODULE MCRegistration ---------------------------
(* Registration for TLC; the requests and the names are interchangeable. *)
EXTENDS Registration, TLC

RegistrationSymmetry == Permutations(Request) \cup Permutations(Name)
=============================================================================
