------------------------------ MODULE MCLockCheck ------------------------------
(* A file in a worktree with a twin of its own, and the main clone, whose  *)
(* twins are those registered farther up.                                  *)
EXTENDS LockCheck

MCDirs == {"repo", "clone", "twin", "archive", "root"}
MCChain ==
    [target |-> <<"repo", "root">>, main |-> <<"clone", "root">>,
     mirror |-> <<"twin">>, backup |-> <<"archive">>]
Says(status, targets) == [status |-> status, targets |-> targets]
MCTwins ==
    [repo  |-> Says("ok", {"mirror"}), clone |-> Says("not-applicable", {}),
     root  |-> Says("ok", {"mirror", "backup"}),
     twin  |-> Says("unmapped", {}), archive |-> Says("unmapped", {})]
=============================================================================
