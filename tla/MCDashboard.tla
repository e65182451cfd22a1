---------------------------- MODULE MCDashboard ----------------------------
(* Instances of DashboardCache for TLC. *)
EXTENDS DashboardCache

CONSTANTS scrape, page1, page2, thread1, thread2
=============================================================================
