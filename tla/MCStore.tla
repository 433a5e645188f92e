------------------------------ MODULE MCStore ------------------------------
(* Two project roots in one workspace.  In the second the setting may be     *)
(* relative to the root or name the file of the first.                       *)
EXTENDS ReportStore

MCPaths == {"a", "b"}
MCPathsIn == [a |-> {"a"}, b |-> {"a", "b"}]
=============================================================================
