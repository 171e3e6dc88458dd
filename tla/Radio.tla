-------------------------------- MODULE Radio -------------------------------
(* Bringing the radios up. The loader maps the vendor image and initialises its  *)
(* memory (blob.c), the PHY is calibrated (phyinit.c), the WiFi driver is        *)
(* started, configured and associated (wifi_init_cfg.c, wifi_osi_impl.c), from   *)
(* the shell or from the wifi view's job; Bluetooth boots on a task of its own   *)
(* (bt.c); the second core records the analogue bus (appcpu.c).                  *)
EXTENDS Integers, FiniteSets

CONSTANTS
    Starters,           \* the contexts that start the radio: "shell", "job"
    TakeTurns,          \* only one of them at a time
    MaxBtBoots          \* bound: Bluetooth boot tasks

ASSUME RadioAssumption ==
    /\ Starters \subseteq {"shell", "job"} /\ "shell" \in Starters
    /\ TakeTurns \in BOOLEAN /\ MaxBtBoots \in Nat

VARIABLES
    r_pc, r_cmd,        \* per starter: where it is, and in which command
    r_ready,            \* g_ready of blob.c
    r_bss,              \* the image's .bss: "raw", "zero" or "calibrated"
    r_phy, r_res,       \* g_phy_attempted, g_phy_result is 0
    r_copy,             \* which copy of libphy was calibrated
    r_want, r_quick, r_nocon,   \* g_want_start, g_bringup_quick, g_bringup_noconnect
    r_wifi,             \* the driver: "off", "inited", "started"
    r_tested, r_data,   \* the statics done (self-test) and started (data path)
    r_joined,            \* the network asked for
    r_bt, r_done, r_bphy,       \* bt.c's g_state and g_boot_done, bt_host.c's g_phy_done
    r_boots,            \* live btboot tasks, by where they are
    r_run, r_cap,       \* g_appcpu_run, the capture buffer installed or 0
    r_core, r_vals,     \* core 1: "off", "spin" or "holds", and the buffer it holds
    h_cals              \* history: calls of register_chipv7_phy

blobVs2 == <<r_ready, r_bss>>
phyVs   == <<r_phy, r_res, r_copy, h_cals>>
flagVs  == <<r_want, r_quick, r_nocon>>
wifiVs2 == <<r_wifi, r_tested, r_data, r_joined>>
btVs    == <<r_bt, r_done, r_bphy, r_boots>>
coreVs  == <<r_run, r_cap, r_core, r_vals>>
radioVars == <<r_pc, r_cmd, blobVs2, phyVs, flagVs, wifiVs2, btVs, coreVs>>

RadioInit ==
    /\ r_pc = [s \in Starters |-> "rest"] /\ r_cmd = [s \in Starters |-> "none"]
    /\ r_ready = FALSE /\ r_bss = "raw"
    /\ r_phy = FALSE /\ r_res = TRUE /\ r_copy = "none" /\ h_cals = 0
    /\ r_want = FALSE /\ r_quick = FALSE /\ r_nocon = FALSE
    /\ r_wifi = "off" /\ r_tested = FALSE /\ r_data = FALSE /\ r_joined = "none"
    /\ r_bt = "idle" /\ r_done = FALSE /\ r_bphy = FALSE /\ r_boots = {}
    /\ r_run = FALSE /\ r_cap = 0 /\ r_core = "off" /\ r_vals = 0

Steps(s, from, to) == r_pc[s] = from /\ r_pc' = [r_pc EXCEPT ![s] = to]

\* A shell line, or a press in the wifi view. The shell also offers the kernel's
\* own libphy and the bus trace; only it starts Bluetooth.
Commands(s) == IF s = "job" THEN {"start"} ELSE {"blobphy", "start", "init", "phyinit", "phytrace", "bt"}

Begins(s, c) ==
    /\ TakeTurns => \A o \in Starters : r_pc[o] = "rest"
    /\ Steps(s, "rest", CASE c = "bt" -> "btphy" [] c = "phyinit" -> "phy"
                          [] c = "phytrace" -> "arm" [] OTHER -> "map")
    /\ r_cmd' = [r_cmd EXCEPT ![s] = c]
    /\ UNCHANGED <<blobVs2, phyVs, flagVs, wifiVs2, btVs, coreVs>>

(* -------------------------------- The loader ------------------------------- *)
\* No image, or one of another version.
blob_map(s) ==
    /\ (Steps(s, "map", "load") \/ Steps(s, "map", "rest"))
    /\ UNCHANGED <<r_cmd, blobVs2, phyVs, flagVs, wifiVs2, btVs, coreVs>>

\* Mutant: the loader runs every time it is called.
blob_init_again(s) ==
    /\ Steps(s, "load", "copy")
    /\ UNCHANGED <<r_cmd, blobVs2, phyVs, flagVs, wifiVs2, btVs, coreVs>>

\* Once per boot; a header whose ranges leave the windows is refused.
blob_init(s) ==
    /\ IF r_ready THEN Steps(s, "load", "phy")
       ELSE Steps(s, "load", "copy") \/ Steps(s, "load", "rest")
    /\ UNCHANGED <<r_cmd, blobVs2, phyVs, flagVs, wifiVs2, btVs, coreVs>>

blob_init_copies(s) ==
    /\ Steps(s, "copy", "loaded") /\ r_bss' = "zero"
    /\ UNCHANGED <<r_cmd, r_ready, phyVs, flagVs, wifiVs2, btVs, coreVs>>

blob_init_ends(s) ==
    /\ Steps(s, "loaded", "phy") /\ r_ready' = TRUE
    /\ UNCHANGED <<r_cmd, r_bss, phyVs, flagVs, wifiVs2, btVs, coreVs>>

(* ---------------------------------- The PHY -------------------------------- *)
AfterPhy(s) ==
    CASE r_cmd[s] \in {"start", "init"} -> "flags" [] r_cmd[s] = "phytrace" -> "disarm"
      [] r_cmd[s] = "bt" -> "btphied" [] OTHER -> "rest"

\* Once per boot, whichever copy of libphy is asked for.
phyinit_run_at(s) ==
    /\ Steps(s, "phy", IF r_phy THEN AfterPhy(s) ELSE "prime")
    /\ UNCHANGED <<r_cmd, blobVs2, phyVs, flagVs, wifiVs2, btVs, coreVs>>

phyinit_attempts(s) ==
    /\ Steps(s, "prime", "calibrate") /\ r_phy' = TRUE
    /\ UNCHANGED <<r_cmd, blobVs2, r_res, r_copy, h_cals, flagVs, wifiVs2, btVs, coreVs>>

\* Under the blob lock. The image's copy keeps its state in the image's .bss.
register_chipv7_phy(s) ==
    LET copy == IF r_cmd[s] \in {"phyinit", "phytrace", "bt"} THEN "kernel" ELSE "image" IN
    /\ Steps(s, "calibrate", AfterPhy(s))
    /\ h_cals' = h_cals + 1 /\ r_copy' = copy /\ r_res' \in BOOLEAN
    /\ r_bss' = (IF copy = "image" THEN "calibrated" ELSE r_bss)
    /\ UNCHANGED <<r_cmd, r_ready, r_phy, flagVs, wifiVs2, btVs, coreVs>>

(* ------------------------------ The WiFi driver ---------------------------- *)
\* The shell clears the view's shortcuts, the view sets them.
wifi_start_enable(s) ==
    /\ Steps(s, "flags", "init")
    /\ r_want' = (r_cmd[s] = "start") /\ r_quick' = (s = "job") /\ r_nocon' = (s = "job")
    /\ UNCHANGED <<r_cmd, blobVs2, phyVs, wifiVs2, btVs, coreVs>>

wifi_bringup(s) ==
    /\ \/ Steps(s, "init", IF r_want THEN "wpa" ELSE "rest")
          /\ r_wifi' = (IF r_wifi = "off" THEN "inited" ELSE r_wifi)
       \/ Steps(s, "init", "rest") /\ UNCHANGED r_wifi         \* esp_wifi_init refused
    /\ UNCHANGED <<r_cmd, blobVs2, phyVs, flagVs, r_tested, r_data, r_joined, btVs, coreVs>>

\* The self-test runs once, never in a quick bring-up; then the callbacks.
wpa_register(s) ==
    /\ Steps(s, "wpa", "start") /\ r_tested' = (r_tested \/ ~r_quick)
    /\ UNCHANGED <<r_cmd, blobVs2, phyVs, flagVs, r_wifi, r_data, r_joined, btVs, coreVs>>

esp_wifi_start(s) ==
    /\ \/ Steps(s, "start", "config") /\ r_wifi' \in {"started", r_wifi}    \* an error is only printed
       \/ Steps(s, "start", "rest") /\ UNCHANGED r_wifi         \* no such entry
    /\ UNCHANGED <<r_cmd, blobVs2, phyVs, flagVs, r_tested, r_data, r_joined, btVs, coreVs>>

\* Power saving, promiscuous mode, its filter and callback, the channel.
wifi_configures(s) ==
    /\ Steps(s, "config", IF r_quick THEN "assoc" ELSE "beacons")
    /\ UNCHANGED <<r_cmd, blobVs2, phyVs, flagVs, wifiVs2, btVs, coreVs>>

wifi_tx_beacons(s) ==
    /\ Steps(s, "beacons", "sweep")
    /\ UNCHANGED <<r_cmd, blobVs2, phyVs, flagVs, wifiVs2, btVs, coreVs>>

wifi_scan_sweep(s) ==
    /\ Steps(s, "sweep", "assoc")
    /\ UNCHANGED <<r_cmd, blobVs2, phyVs, flagVs, wifiVs2, btVs, coreVs>>

\* A chosen network without a saved password retires the built-in one; a saved
\* one is joined; otherwise the built-in, if its configuration is accepted.
wifi_try_connect(s) ==
    /\ Steps(s, "assoc", IF r_nocon THEN "rest" ELSE "data")
    /\ IF r_nocon THEN UNCHANGED r_joined
       ELSE r_joined' \in {"retired", "saved", "built-in", r_joined}
    /\ UNCHANGED <<r_cmd, blobVs2, phyVs, flagVs, r_wifi, r_tested, r_data, btVs, coreVs>>

\* The first time the receive callback is registered, then DHCP only starts again.
wifi_data_path_start(s) ==
    /\ Steps(s, "data", "rest") /\ r_data' = (r_data \/ r_ready)
    /\ UNCHANGED <<r_cmd, blobVs2, phyVs, flagVs, r_wifi, r_tested, r_joined, btVs, coreVs>>

(* -------------------------------- Bluetooth -------------------------------- *)
bt_init(s) ==
    /\ \/ r_bt # "idle" /\ Steps(s, "btphy", "rest")
       \/ r_bt = "idle" /\ Steps(s, "btphy", IF r_bphy THEN "btphied" ELSE "phy")
    /\ UNCHANGED <<r_cmd, blobVs2, phyVs, flagVs, wifiVs2, btVs, coreVs>>

\* bt_host_phy_enable, then the boot task on g_boot_stack.
bt_init_boots(s) ==
    /\ r_bphy' = TRUE
    /\ \/ /\ r_res /\ r_copy = "kernel" /\ Cardinality(r_boots) < MaxBtBoots
          /\ Steps(s, "btphied", "btwait")
          /\ \E b \in (1 .. MaxBtBoots) \ {x[1] : x \in r_boots} : r_boots' = r_boots \cup {<<b, "init">>}
          /\ UNCHANGED r_bt
       \/ /\ ~(r_res /\ r_copy = "kernel") /\ Steps(s, "btphied", "rest")
          /\ r_bt' = "phy_failed" /\ UNCHANGED r_boots
       \/ /\ r_res /\ r_copy = "kernel" /\ Steps(s, "btphied", "rest")     \* no task slot
          /\ r_bt' = "init_failed" /\ UNCHANGED r_boots
    /\ UNCHANGED <<r_cmd, blobVs2, phyVs, flagVs, wifiVs2, r_done, coreVs>>

\* It waits 15 s and then reports whatever the state is.
bt_init_waits(s) ==
    /\ Steps(s, "btwait", "rest")
    /\ UNCHANGED <<r_cmd, blobVs2, phyVs, flagVs, wifiVs2, btVs, coreVs>>

bt_boot_task(b) ==
    /\ b \in r_boots
    /\ \/ /\ b[2] = "init" /\ r_boots' = (r_boots \ {b}) \cup {<<b[1], "hci">>} /\ UNCHANGED <<r_bt, r_done>>
       \/ /\ r_bt' \in (IF b[2] = "init" THEN {"init_failed", "enable_failed"}
                                         ELSE {"no_vhci", "no_reply", "ready"})
          /\ r_done' = TRUE /\ r_boots' = r_boots \ {b}
    /\ UNCHANGED <<r_pc, r_cmd, blobVs2, phyVs, flagVs, wifiVs2, r_bphy, coreVs>>

(* ------------------------------- The other core ---------------------------- *)
\* The core is started once; arming gets two buffers or gives up.
appcpu_arm(s) ==
    /\ r_pc[s] = "arm" /\ r_core' = (IF r_core = "off" THEN "spin" ELSE r_core)
    /\ Steps(s, "arm", "phy")
    /\ \/ ~r_run /\ r_cap' \in {1, 2} \ {r_vals} /\ r_run' = TRUE
       \/ UNCHANGED <<r_cap, r_run>>
    /\ UNCHANGED <<r_cmd, blobVs2, phyVs, flagVs, wifiVs2, btVs, r_vals>>

appcpu_disarm(s) ==
    /\ \/ Steps(s, "disarm", "free") /\ r_run' = FALSE /\ UNCHANGED r_cap
       \/ Steps(s, "free", "rest") /\ r_cap' = 0 /\ UNCHANGED r_run
    /\ UNCHANGED <<r_cmd, blobVs2, phyVs, flagVs, wifiVs2, btVs, r_core, r_vals>>

\* One turn of the capture loop: the flag, the pointers, then the stores.
appcpu_main ==
    /\ \/ r_core = "spin" /\ r_run /\ r_cap # 0 /\ r_core' = "holds" /\ r_vals' = r_cap
       \/ r_core = "holds" /\ r_core' = "spin" /\ r_vals' = 0
    /\ UNCHANGED <<r_pc, r_cmd, blobVs2, phyVs, flagVs, wifiVs2, btVs, r_run, r_cap>>

StarterSteps(s) ==
    \/ \E c \in Commands(s) : Begins(s, c)
    \/ blob_map(s) \/ blob_init(s) \/ blob_init_copies(s) \/ blob_init_ends(s)
    \/ phyinit_run_at(s) \/ phyinit_attempts(s) \/ register_chipv7_phy(s)
    \/ wifi_start_enable(s) \/ wifi_bringup(s) \/ wpa_register(s) \/ esp_wifi_start(s)
    \/ wifi_configures(s) \/ wifi_tx_beacons(s) \/ wifi_scan_sweep(s)
    \/ wifi_try_connect(s) \/ wifi_data_path_start(s)
    \/ bt_init(s) \/ bt_init_boots(s) \/ bt_init_waits(s)
    \/ appcpu_arm(s) \/ appcpu_disarm(s)

RadioNext ==
    \/ \E s \in Starters : StarterSteps(s)
    \/ (\E b \in r_boots : bt_boot_task(b))
    \/ appcpu_main

RadioSpec == RadioInit /\ [][RadioNext]_radioVars

(* -------------------------------- Properties ------------------------------- *)
\* phyinit.c:95 and blob.c:144, "Once per boot": over every sequence of commands
\* the PHY is calibrated at most once, and what calibration left in the image's
\* memory is not wiped by a later load.
CalibratedOnce ==
    /\ h_cals <= 1
    /\ r_copy = "image" => r_bss = "calibrated"

(* What the code does not keep: the README tells each counterexample.         *)
\* bt.c:488, "report rather than repeat": one boot task at a time uses the stack.
BtBootsOnce == Cardinality(r_boots) <= 1

\* appcpu.c:86-88: the buffers are freed only once core 1 has stopped using them.
CaptureIsSafe == r_core = "holds" => r_vals = r_cap
=============================================================================
