----------------------------- MODULE MCFileHealth -----------------------------
(* The replica table over the instance of MCFileMeta.                       *)
EXTENDS MCFileMeta, FileHealth
=============================================================================
