----------------------------- MODULE MCProfileStore -----------------------------
(* Small instances of ProfileStore.                                        *)
EXTENDS ProfileStore, TLC
CONSTANTS s1, s2, dir1

(* s1 is a local server in the directory dir1, s2 is not local.            *)
OneLocal == s1 :> s1 @@ dir1 :> s1
=============================================================================
