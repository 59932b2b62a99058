------------------------------- MODULE MCOtp -------------------------------
(* Instances of Otp for TLC: requests are interchangeable.                 *)
EXTENDS Otp, TLC

Symmetry == Permutations(Requests)
=============================================================================
