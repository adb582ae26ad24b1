--------------------------- MODULE MCCmdExchange ---------------------------
(* Two commands, a range of three indices and three worlds: one in which    *)
(* everything goes wrong, one with a prompt PRM, one without any fault.     *)
EXTENDS CmdExchange

CONSTANTS tare, step
MCCommand == {tare, step}

World(lossy, prompt, sampling) == [lossy |-> lossy, prompt |-> prompt, sampling |-> sampling]
MCWorlds == {World(TRUE, FALSE, TRUE), World(TRUE, TRUE, TRUE), World(FALSE, TRUE, FALSE)}
MCLate == {World(FALSE, FALSE, FALSE)}
=============================================================================
