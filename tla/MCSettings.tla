----------------------------- MODULE MCSettings -----------------------------
(* Settings with one tool; tools do not influence each other's entries.  *)
EXTENDS Settings

MCHosts == {"gcs_bucket", "https_host", "s3_bucket"}
MCKinds == {"github", "https"}
=============================================================================
