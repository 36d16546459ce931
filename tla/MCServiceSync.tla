---------------------------- MODULE MCServiceSync ---------------------------
(* Small instances of ServiceSync for TLC.                                 *)
EXTENDS ServiceSync, TLC

OneService == <<"a">>
\* Connections are alike, and so are the texts of messages.
Symmetric == Permutations(Clients) \cup Permutations(Texts)
=============================================================================
