--------------------------- MODULE MCRemediation ---------------------------
(* Model-checking instances of Remediation.                                *)
EXTENDS Remediation
=============================================================================
