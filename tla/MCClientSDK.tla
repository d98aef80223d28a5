---------------------------- MODULE MCClientSDK ----------------------------
(* Instance of ClientSDK.                                                  *)
EXTENDS ClientSDK

SdkServers == <<"a", "", "b", "a">>
=============================================================================
