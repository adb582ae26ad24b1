---------------------------- MODULE MCParamStore ----------------------------
(* Three areas of one to three bits: a password and the choice of a test,   *)
(* the data of the device, a gain.  Two of the password's values are a      *)
(* user's, one is the default, one is no password.                          *)
EXTENDS ParamStore

MCBits == [pcm |-> {"pass1", "pass2", "test"}, prm |-> {"dvc_info"}, prv |-> {"gain"}]
MCKept == [pcm |-> {"pass1", "pass2"}, prm |-> {"dvc_info"}, prv |-> {}]
MCDefault == {"pass1"}
MCSaveOrders == {<<"pcm">>, <<"pcm", "prm", "prv">>}
AllOfThem == {"pcm", "prm", "prv"}
=============================================================================
