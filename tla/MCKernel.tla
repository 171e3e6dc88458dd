------------------------------ MODULE MCKernel ------------------------------
(* The components of interrupts, crashes, touch, the two-wire bus and the    *)
(* network the browser reads from, side by side: in every behaviour one of   *)
(* them, unit, moves and the others stay as they booted. Each is closed over *)
(* what it shares with the rest of the system, so a run of the bench is a run*)
(* of each.                                                                  *)
EXTENDS Tick, Irq, Crash, Touch, I2c, Net, Browser

VARIABLE unit

Units == {"Tick", "Irq", "Crash", "Touch", "I2c", "Net",
          "Browser", "Html"}

\* Two pages: one whose second link is relative, one with a link the browser refuses.
MCBodies == {<<"x", "blank", "abs", "x", "br", "rel", "x">>,
             <<"x", "x", "x", "x", "x", "blank", "https", "x">>}

\* A slave at address 1, buffers of one and of two bytes of two bits.
MCSlaveAddr == <<1>>
MCBufs == {<<<<0, 1>>>>, <<<<1, 0>>, <<1, 1>>>>}
MCSlaveGives == <<<<0, 1>>, <<1, 0>>>>

BenchInit ==
    /\ unit \in Units
    /\ TickInit /\ IrqInit /\ CrashInit /\ TouchInit
    /\ I2cInit /\ NetInit /\ BrowserInit

BenchNext ==
    \/ /\ unit = "Tick" /\ TickNext
       /\ UNCHANGED <<unit, irqVars, crashVars, touchVars, i2cVars, netVars, browserVars>>
    \/ /\ unit = "Irq" /\ IrqNext
       /\ UNCHANGED <<unit, tickVars, crashVars, touchVars, i2cVars, netVars, browserVars>>
    \/ /\ unit = "Crash" /\ CrashNext
       /\ UNCHANGED <<unit, tickVars, irqVars, touchVars, i2cVars, netVars, browserVars>>
    \/ /\ unit = "Touch" /\ TouchNext
       /\ UNCHANGED <<unit, tickVars, irqVars, crashVars, i2cVars, netVars, browserVars>>
    \/ /\ unit = "I2c" /\ I2cNext
       /\ UNCHANGED <<unit, tickVars, irqVars, crashVars, touchVars, netVars, browserVars>>
    \/ /\ unit = "Net" /\ NetNext
       /\ UNCHANGED <<unit, tickVars, irqVars, crashVars, touchVars, i2cVars, browserVars>>
    \/ /\ unit = "Browser" /\ BrowserNext
       /\ UNCHANGED <<unit, tickVars, irqVars, crashVars, touchVars, i2cVars, netVars>>
    \/ /\ unit = "Html" /\ html_reads
       /\ UNCHANGED <<unit, tickVars, irqVars, crashVars, touchVars, i2cVars, netVars>>

BenchSpec == BenchInit /\ [][BenchNext]_<<unit, tickVars, irqVars, crashVars, touchVars, i2cVars, netVars, browserVars>>

\* Two states differ when the component that moves differs: the others cannot.
Moving ==
    CASE unit = "Tick" -> <<unit, tickVars>>
      [] unit = "Irq" -> <<unit, irqVars>>
      [] unit = "Crash" -> <<unit, crashVars>>
      [] unit = "Touch" -> <<unit, touchVars>>
      [] unit = "I2c" -> <<unit, i2cVars>>
      [] unit = "Net" -> <<unit, netVars>>
      [] unit = "Browser" -> <<unit, browserVars>>
      [] unit = "Html" -> <<unit, browserVars>>
=============================================================================
