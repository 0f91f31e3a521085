----------------------------- MODULE MCTaskFinish -----------------------------
(* Instances of TaskFinish for TLC.                                           *)
EXTENDS TaskFinish
================================================================================
