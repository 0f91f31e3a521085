------------------------------ MODULE MCWorkflow ------------------------------
EXTENDS Workflow, TLC

CONSTANTS p1, p2, c1, c2, f1, f2

(* Plans, Contexts and fingerprints are only ever compared.                   *)
IdentitySymmetry ==
  Permutations(Plan) \cup Permutations(Context) \cup Permutations(Fingerprint)
================================================================================
