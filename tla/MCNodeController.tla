-------------------------- MODULE MCNodeController --------------------------
(* The calls of NodeController that can fail.                              *)
EXTENDS NodeController

AllFailures == Undone \cup {"DelUsers", "AddUsers", "DelNode(old)",
                   "AddNode(old)", "AddUsers(old)", "Close"}
=============================================================================
