--------------------------- MODULE MCLinkExchange ---------------------------
(* Two blocks of parameters for TLC, alike, so that the reply for one could *)
(* be taken for one for the other.                                         *)
EXTENDS LinkExchange

CONSTANTS zero, one
MCBlock == {zero, one}
MCOne == <<zero>>
MCAlike == <<zero, zero>>
MCRefuses == {"SIGN_ON", "MDY_PRM", "SEND_START"}
MCWorlds == {[lossy |-> TRUE, prompt |-> TRUE, sampling |-> TRUE]}
MCPerfect == {[lossy |-> FALSE, prompt |-> TRUE, sampling |-> TRUE]}
MCAnyStatus == {"LINK_UNLINK", "LINK_IDLE"}
=============================================================================
