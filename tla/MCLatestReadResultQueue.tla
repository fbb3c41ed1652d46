----------------------- MODULE MCLatestReadResultQueue -----------------------
(***************************************************************************)
(* A device with two tags, a device without enabled tags, whose error and  *)
(* whose empty read share a key, and two consumers: the publisher and one  *)
(* of an earlier start that outlived its join.                             *)
(***************************************************************************)
EXTENDS LatestReadResultQueue

CONSTANTS Press, Spare, Temp, Speed

MCDeviceTags == (Press :> <<Temp, Speed>>) @@ (Spare :> <<>>)
==============================================================================
