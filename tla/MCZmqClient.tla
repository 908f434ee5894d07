---------------------------- MODULE MCZmqClient ----------------------------
(* Instances of ZmqClient for TLC; the .cfg files give the constants.      *)
EXTENDS ZmqClient
=============================================================================
