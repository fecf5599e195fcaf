----------------------------- MODULE MCGooseLink -----------------------------
(***************************************************************************)
(* Small instances of the GOOSE link for TLC.                              *)
(***************************************************************************)
EXTENDS GooseLink

\* Without a revision of its own the subscriber adopts the first it sees.
Adopting == {None}

Reconfigured == {<<1, FALSE>>, <<2, TRUE>>}
=============================================================================
