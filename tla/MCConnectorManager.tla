------------------------- MODULE MCConnectorManager -------------------------
(* ConnectorManager on a small instance.                                    *)
EXTENDS ConnectorManager, TLC

MCSymmetry == Permutations(Session) \cup Permutations(Connector) \cup Permutations(Credential) \cup Permutations(Secret)
=============================================================================
