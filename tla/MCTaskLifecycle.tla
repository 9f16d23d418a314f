--------------------------- MODULE MCTaskLifecycle ---------------------------
(* The states in which the runs let the user approve.                        *)
EXTENDS TaskLifecycle

SoftWaiting == {"SOFT_APPROVAL_WAITING"}
AnyWaiting == ApprovalStatuses
=============================================================================
