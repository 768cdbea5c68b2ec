----------------------------- MODULE MCFileStore -----------------------------
(* Small instances of FileStore for TLC; the constants are in the cfgs. *)
EXTENDS FileStore
=============================================================================
