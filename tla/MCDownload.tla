------------------------------ MODULE MCDownload ------------------------------
(***************************************************************************)
(* Download on two platforms, without renaming, with the usual one and     *)
(* with one name for both architectures, as of universal binaries.         *)
(***************************************************************************)
EXTENDS Download

MCMappings ==
    {<< >>, [n \in {"x86_64", "darwin"} |->
                IF n = "darwin" THEN "macos" ELSE "amd64"],
     [n \in {"x86_64", "arm64"} |-> "universal"]}
=============================================================================
