----------------------------- MODULE MCWebServer -----------------------------
(* Small instances of WebServer for TLC. *)
EXTENDS WebServer

CONSTANTS i1, i2, i3, k1, k2

ThreeInits == {i1, i2, i3}
OneClient == {k1}
TwoClients == {k1, k2}
==============================================================================
