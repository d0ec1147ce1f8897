----------------------------- MODULE MCMetadataSync -----------------------------
(* Instances of MetadataSync for TLC. *)
EXTENDS MetadataSync

CONSTANTS q1, q2

OneInUse  == <<q1>>
NoneInUse == <<>>
=============================================================================
