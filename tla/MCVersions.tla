----------------------------- MODULE MCVersions -----------------------------
(* The value of MaxSaved, which a configuration file cannot write.         *)
EXTENDS Versions

SavedTwo == <<2>>
SavedAll == <<>>
=============================================================================
