----------------------------- MODULE MCVerifier -----------------------------
(* Model checking of Verifier, and of the invariant its proofs rest on.    *)
EXTENDS VerifierInv
=============================================================================
