-------------------------- MODULE MCStatusPolling --------------------------
(* Instances of StatusPolling for TLC: sessions s and t, not related, in    *)
(* one directory.                                                           *)
EXTENDS StatusPolling
CONSTANTS s, t

NoParents == [i \in Ids |-> NoId]
OneDirectory == [i \in Ids |-> "d"]
=============================================================================
