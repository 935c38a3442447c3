----------------------------- MODULE MCIssueStore -----------------------------
(* A small instance of IssueStore for TLC: its constants are model values. *)
EXTENDS IssueStore
===============================================================================
