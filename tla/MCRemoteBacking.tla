-------------------------- MODULE MCRemoteBacking --------------------------
(* Small instances of RemoteBacking; the values are in the cfg files.      *)
EXTENDS RemoteBacking
=============================================================================
