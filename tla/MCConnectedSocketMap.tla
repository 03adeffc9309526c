---- MODULE MCConnectedSocketMap ----
EXTENDS ConnectedSocketMap
====
