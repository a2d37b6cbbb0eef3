----------------------------- MODULE MCThreadPool -----------------------------
(* Two workers, one client, and a few tasks that may add tasks. *)
EXTENDS ThreadPool

CONSTANTS W1, W2, C1

TwoWorkers == {W1, W2}
OneClient  == {C1}
=============================================================================
