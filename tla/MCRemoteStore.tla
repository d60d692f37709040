---------------------------- MODULE MCRemoteStore ----------------------------
(* RemoteStore with small archives of others.  *)
EXTENDS RemoteStore

MCUploads ==
    {[by |-> "others", form |-> f, members |-> m] :
        f \in {".zip", ".tar", ".tar.gz"},
        m \in UNION {[1 .. n -> {"tool", "other"}] : n \in 0 .. 2}}

MCNames == {"", ".zip", ".tar", ".tar.gz", ".tgz"}
=============================================================================
