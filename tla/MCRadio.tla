------------------------------- MODULE MCRadio ------------------------------
(* The components of the radio and its vendor code, side by side: in every   *)
(* behaviour one of them, unit, moves and the others stay as they booted.    *)
(* Each is closed over what it shares with the rest of the system, so a run  *)
(* of the bench is a run of each.                                            *)
EXTENDS WifiApp, Blob, OsiWait, OsiClock, Mac, Radio

VARIABLE unit

Units == {"WifiApp", "Blob", "OsiWait", "OsiTimer", "OsiTime", "Mac",
          "Radio"}

BenchInit ==
    /\ unit \in Units
    /\ WifiInit /\ BlobInit /\ OsiWaitInit /\ OsiClockInit
    /\ MacInit /\ RadioInit

BenchNext ==
    \/ /\ unit = "WifiApp" /\ WifiNext
       /\ UNCHANGED <<unit, blobVars, osiVars, osiClockVars, macVars, radioVars>>
    \/ /\ unit = "Blob" /\ BlobNext
       /\ UNCHANGED <<unit, wifiVars, osiVars, osiClockVars, macVars, radioVars>>
    \/ /\ unit = "OsiWait" /\ OsiWaitNext
       /\ UNCHANGED <<unit, wifiVars, blobVars, osiClockVars, macVars, radioVars>>
    \/ /\ unit = "OsiTimer" /\ OsiTimerNext
       /\ UNCHANGED <<unit, wifiVars, blobVars, osiVars, macVars, radioVars>>
    \/ /\ unit = "OsiTime" /\ OsiTimeNext
       /\ UNCHANGED <<unit, wifiVars, blobVars, osiVars, macVars, radioVars>>
    \/ /\ unit = "Mac" /\ MacNext
       /\ UNCHANGED <<unit, wifiVars, blobVars, osiVars, osiClockVars, radioVars>>
    \/ /\ unit = "Radio" /\ RadioNext
       /\ UNCHANGED <<unit, wifiVars, blobVars, osiVars, osiClockVars, macVars>>

BenchSpec == BenchInit /\ [][BenchNext]_<<unit, wifiVars, blobVars, osiVars, osiClockVars, macVars, radioVars>>

\* Two states differ when the component that moves differs: the others cannot.
Moving ==
    CASE unit = "WifiApp" -> <<unit, wifiVars>>
      [] unit = "Blob" -> <<unit, blobVars>>
      [] unit = "OsiWait" -> <<unit, osiVars>>
      [] unit = "OsiTimer" -> <<unit, osiClockVars>>
      [] unit = "OsiTime" -> <<unit, osiClockVars>>
      [] unit = "Mac" -> <<unit, macVars>>
      [] unit = "Radio" -> <<unit, radioVars>>
=============================================================================
