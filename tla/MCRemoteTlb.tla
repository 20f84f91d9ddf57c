----------------------------- MODULE MCRemoteTlb -----------------------------
(* Instances of RemoteTlb for TLC. *)
EXTENDS RemoteTlb

CONSTANTS s1

WithVma == {"retire", "vma"}
AllOperations == {"retire", "fault", "mprotect", "vma", "switch"}
=============================================================================
