---------------------------- MODULE MCImportJobs ----------------------------
(* ImportJobs with two upload requests for the station.                    *)
EXTENDS ImportJobs

CONSTANTS j1, j2

MCJobs == {j1, j2}
=============================================================================
