-------------------------- MODULE MCWebSocketServer --------------------------
(* An instance of the WebSocket server small enough for TLC.                *)
EXTENDS WebSocketServer
=============================================================================
