------------------------------ MODULE MCGateway ------------------------------
(* A press with two tags in different output groups.                       *)
EXTENDS Gateway

CONSTANTS Press, Temp, Speed

MCDeviceTags == Press :> <<Temp, Speed>>
MCGroupOf == (Temp :> "hall") @@ (Speed :> "line")
==============================================================================
