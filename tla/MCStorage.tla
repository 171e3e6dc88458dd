------------------------------ MODULE MCStorage -----------------------------
(* The components of storage, the machine programs run on and the devices    *)
(* they reach, side by side: in every behaviour one of them, unit, moves and *)
(* the others stay as they booted. Each is closed over what it shares with   *)
(* the rest of the system, so a run of the bench is a run of each.           *)
EXTENDS Store, Sd, Fat, Notes, Device, Vm

VARIABLE unit

Units == {"Store", "Sd", "Fat", "Notes", "Device", "Vm"}

\* A volume of five clusters: a file of three, out of order, and a directory of two, with
\* a long name, fragments that a deleted entry parts from their file, and an orphan.
MCFAT == [c \in 2 .. 6 |-> CASE c = 3 -> 6 [] c = 6 -> 4 [] c = 2 -> 5 [] OTHER -> EOC]
MCChain == <<3, 6, 4>>
MCDirChain == <<2, 5>>
MCDir == << Ent("last", 2, 1), Ent("lfn", 1, 1), Ent("short", 0, 1),
            Ent("last", 1, 2), Ent("deleted", 0, 0), Ent("short", 0, 2),
            Ent("short", 0, 3), Ent("end", 0, 0) >>

BenchInit ==
    /\ unit \in Units
    /\ StoreInit /\ SdInit /\ FatInit /\ NotesInit
    /\ DeviceInit /\ VmInit

BenchNext ==
    \/ /\ unit = "Store" /\ StoreNext
       /\ UNCHANGED <<unit, sdVars, fatVars, noteVars, devVars, vmVars>>
    \/ /\ unit = "Sd" /\ SdNext
       /\ UNCHANGED <<unit, stVars, fatVars, noteVars, devVars, vmVars>>
    \/ /\ unit = "Fat" /\ FatNext
       /\ UNCHANGED <<unit, stVars, sdVars, noteVars, devVars, vmVars>>
    \/ /\ unit = "Notes" /\ NotesNext
       /\ UNCHANGED <<unit, stVars, sdVars, fatVars, devVars, vmVars>>
    \/ /\ unit = "Device" /\ DeviceNext
       /\ UNCHANGED <<unit, stVars, sdVars, fatVars, noteVars, vmVars>>
    \/ /\ unit = "Vm" /\ VmNext
       /\ UNCHANGED <<unit, stVars, sdVars, fatVars, noteVars, devVars>>

BenchSpec == BenchInit /\ [][BenchNext]_<<unit, stVars, sdVars, fatVars, noteVars, devVars, vmVars>>

\* Two states differ when the component that moves differs: the others cannot.
Moving ==
    CASE unit = "Store" -> <<unit, stVars>>
      [] unit = "Sd" -> <<unit, sdVars>>
      [] unit = "Fat" -> <<unit, fatVars>>
      [] unit = "Notes" -> <<unit, noteVars>>
      [] unit = "Device" -> <<unit, devVars>>
      [] unit = "Vm" -> <<unit, vmVars>>
=============================================================================
