------------------------------- MODULE MCJobs -------------------------------
(* Jobs with a plan, two approvals of it and one batch beside it.         *)
EXTENDS Jobs
=============================================================================
