----------------------------- MODULE MCAuditLog -----------------------------
(***************************************************************************)
(* Instances of AuditLog: two AuditLog objects on one file - two sessions, *)
(* or one session and its restart - that others alter.                     *)
(***************************************************************************)
EXTENDS AuditLog
=============================================================================
