---------------------------- MODULE MCFileAssets ----------------------------
(* One file and its two jobs, drained by two workers; files share nothing  *)
(* but the workers.                                                        *)
EXTENDS FileAssets

MCAssets == {"file"}
MCJobs == Kinds \X MCAssets
=============================================================================
