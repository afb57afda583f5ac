-------------------------- MODULE MCCacheProtocols --------------------------
(* An instance of CacheProtocols for TLC. *)
EXTENDS CacheProtocols

\* No pod's name is a prefix of another's.
OwnNamesOnly == {<<p, p>> : p \in Pods}
=============================================================================
