---------------------------- MODULE MCExportJobs ----------------------------
(* Small instances of the export workers for TLC. *)
EXTENDS ExportJobs
CONSTANTS ann, bob, reports, w1, w2
Owners == [j \in Job |-> IF j = 1 THEN ann ELSE bob]
OneResource == [j \in Job |-> reports]
OneRegistry == [w \in Worker |-> {reports}]
=============================================================================
