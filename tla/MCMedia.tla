------------------------------- MODULE MCMedia ------------------------------
(* The components of sound, pictures and the panel, side by side: in every   *)
(* behaviour one of them, unit, moves and the others stay as they booted.    *)
(* Each is closed over what it shares with the rest of the system, so a run  *)
(* of the bench is a run of each.                                            *)
EXTENDS Pcm, Media, Display, View

VARIABLE unit

Units == {"Pcm", "Media", "Display", "View"}

BenchInit ==
    /\ unit \in Units
    /\ PcmInit /\ MediaInit /\ DisplayInit /\ ViewInit

BenchNext ==
    \/ /\ unit = "Pcm" /\ PcmNext
       /\ UNCHANGED <<unit, mediaVars, displayVars, viewVars>>
    \/ /\ unit = "Media" /\ MediaNext
       /\ UNCHANGED <<unit, pcmVars, displayVars, viewVars>>
    \/ /\ unit = "Display" /\ DisplayNext
       /\ UNCHANGED <<unit, pcmVars, mediaVars, viewVars>>
    \/ /\ unit = "View" /\ ViewNext
       /\ UNCHANGED <<unit, pcmVars, mediaVars, displayVars>>

BenchSpec == BenchInit /\ [][BenchNext]_<<unit, pcmVars, mediaVars, displayVars, viewVars>>

\* Two states differ when the component that moves differs: the others cannot.
Moving ==
    CASE unit = "Pcm" -> <<unit, pcmVars>>
      [] unit = "Media" -> <<unit, mediaVars>>
      [] unit = "Display" -> <<unit, displayVars>>
      [] unit = "View" -> <<unit, viewVars>>
=============================================================================
