--------------------------- MODULE MCRpcConnection ---------------------------
EXTENDS RpcConnection

MCId == {1, 2}
=============================================================================
