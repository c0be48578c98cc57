--------------------------- MODULE MCWebSocketProxy ---------------------------
(* Small instances of WebSocketProxy.                                        *)
EXTENDS ProxyInvariant
=============================================================================
