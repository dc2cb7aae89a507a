------------------------------ MODULE MCNpuJob ------------------------------
(* Instance of NpuJob for TLC: two submitters, so that one job can be queued *)
(* or committed while another is waited for, aborted or cleaned up, and jobs *)
(* of one or two hardware submissions.                                       *)
EXTENDS NpuJob
=============================================================================
