--------------------------- MODULE MCWebSocketClient ---------------------------
EXTENDS WebSocketClient, TLC

Symmetry == Permutations(Channels)
===============================================================================
