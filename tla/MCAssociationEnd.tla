--------------------------- MODULE MCAssociationEnd --------------------------
(***************************************************************************)
(* A small instance of AssociationEnd for TLC: at most MaxOut TPDUs wait   *)
(* to be written.                                                          *)
(***************************************************************************)
EXTENDS AssociationEnd

CONSTANT MaxOut

MCCfg(exp, budget) == [maxPdu |-> 200, exp |-> exp, budget |-> budget, connect |-> TRUE, request |-> TRUE]
MCCfgs == {MCCfg(7, 2)}
MCPayloads == {0}

\* A TSDU of one piece, and one of two.
MCOne(t) == {[k |-> "DT", exp |-> 0, of |-> t, at |-> 1, len |-> 20, eot |-> TRUE]}
MCTwo(t) == {[k |-> "DT", exp |-> 0, of |-> t, at |-> i, len |-> 100, eot |-> i = 2] : i \in 1 .. 2}
MCInits == {[pdu |-> 150, calling |-> 1, called |-> 1], [pdu |-> 0, calling |-> 3, called |-> 3]}
MCMms == {Pdu(k, 1, 100, 0) : k \in {"Response", "Bad", "CancelRequest", "CancelResponse", "CancelError", "Request"}}
            \cup {Pdu(k, NoId, 100, 0) : k \in {"Reject", "Unconfirmed", "ConcludeRequest", "ConcludeResponse"}}
            \cup {Pdu("Reject", 2, 100, 0)}
MCPeers ==
    {Transport(k, x) : k \in {"CR", "CC"}, x \in {0}} \cup {Transport(k, 0) : k \in {"DR", "Other", "Bad"}}
        \cup UNION {MCOne(UserData(p)) : p \in MCMms}
        \cup UNION {MCOne(Associate(s, i)) : s \in {"Connect", "Accept"}, i \in MCInits}
        \cup UNION {MCOne(Control(s, "missing")) : s \in SpduKinds}
        \cup UNION {MCOne(Control("Accept", i)) : i \in {"refused", "wrong"}}
        \cup UNION {MCOne(Control("Data", i)) : i \in {"Release", "ReleaseResponse", "AbortApdu", "otherApdu", "wrong"}}
        \cup MCTwo(UserData(Pdu("Unconfirmed", NoId, 200, 0)))

MCBound == Len(e.out) <= MaxOut /\ Len(e.parts) <= 2
=============================================================================
