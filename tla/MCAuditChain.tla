--------------------------- MODULE MCAuditChain ---------------------------
(* The instance of AuditChain for TLC. *)
EXTENDS AuditChain, TLC

(* hashtext() maps both tenants to the same advisory lock. *)
MCSharedKey == [t \in Tenants |-> "shared"]
=============================================================================
