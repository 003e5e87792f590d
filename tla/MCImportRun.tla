---------------------------- MODULE MCImportRun ----------------------------
(* ImportRun on small files: one key, so that rows of the file collide     *)
(* with each other and with what was stored before.                        *)
EXTENDS ImportRun

CONSTANT k1

MCKeys == {k1}
=============================================================================
