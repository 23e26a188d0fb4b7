------------------------- MODULE MCControllerTasks --------------------------
(* The orders in which startTasks starts the tasks of a controller.        *)
EXTENDS ControllerTasks

OrderTwo == <<"monitor", "report">>
OrderCert == <<"monitor", "report", "renewCert">>
=============================================================================
