------------------------------ MODULE MCEditor ------------------------------
(* Two project roots, the setting being as in MCStore.  The reports of the  *)
(* first have entries for one source file, for two, for the other or for    *)
(* none, those of the second too; resolved in the second root, the names    *)
(* are those of the other file.                                             *)
EXTENDS Editor

MCPaths == {"a", "b"}
MCPathsIn == [a |-> {"a"}, b |-> {"a", "b"}]
Listed(rep) ==
    CASE rep[2] = 0 -> {"u"} [] rep[2] = 1 -> {"u", "v"}
      [] rep = <<"a", 2>> -> {"v"} [] OTHER -> {}
MCEntries ==
    [r \in MCPaths |-> [rep \in Reports |->
        IF r = "a" THEN Listed(rep) ELSE {IF u = "u" THEN "v" ELSE "u" : u \in Listed(rep)}]]

\* What the runtime writes: msan_write_json_report ends every report with an
\* empty list of errors, whatever it has counted (Summary, JsonReport).
WrittenEntries == [r \in MCPaths |-> [rep \in Reports |-> {}]]
AllReports == Reports
=============================================================================
