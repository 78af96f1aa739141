----------------------------- MODULE MCDashboard -----------------------------
(* A server for two clients, with or without a limit, or the evaluation of  *)
(* two scenarios, twice, beside another client.                             *)
EXTENDS DashboardEvaluation
=============================================================================
