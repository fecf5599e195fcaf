------------------------------ MODULE MCMmsLink ------------------------------
(***************************************************************************)
(* A small instance of MmsLink for TLC.                                    *)
(***************************************************************************)
EXTENDS MmsLink

MCConfig(maxPdu, exp, budget) == [maxPdu |-> maxPdu, exp |-> exp, budget |-> budget, connect |-> TRUE, request |-> TRUE]
MCClients == {MCConfig(200, 8, 2)}
MCServers == {MCConfig(150, 7, 2)}
MCPayloads == 0 .. 3
=============================================================================
