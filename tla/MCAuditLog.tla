----------------------------- MODULE MCAuditLog -----------------------------
(* Small instances of AuditLog, given in the configuration.                *)
EXTENDS AuditLog
=============================================================================
