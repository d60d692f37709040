--------------------------- MODULE MCGitHubRelease ---------------------------
(* GitHubRelease with three versions, and up to four releases on two pages.  *)
EXTENDS GitHubRelease
=============================================================================
