------------------------------ MODULE WifiApp -------------------------------
(* The WiFi view (wifiapp.c), the job queue it hands its work to (job.c), the   *)
(* three records it keeps (wificred.c, pmkcache.c, wifiprefs.c) and the join of  *)
(* wifi_osi_impl.c. The touch task runs the handlers, the net task the jobs and  *)
(* the sweep; the access point answers or does not.                              *)
EXTENDS Integers, Sequences, FiniteSets, SequencesExt

CONSTANTS
    Nets,               \* networks in the air
    Passes,             \* passphrases of a legal length
    Right,              \* the one every access point accepts
    RecordSlots,        \* WIFICRED_SLOTS and PMK_SLOTS
    SweepLength         \* channels of a sweep

NONE == "none"

ASSUME WifiAssumption ==
    /\ IsFiniteSet(Nets) /\ NONE \notin Nets \cup Passes /\ Right \in Passes
    /\ RecordSlots \in Nat \ {0} /\ SweepLength \in Nat \ {0}

VARIABLES
    w_cred, w_pmk,      \* the two records, oldest first: <<network, passphrase>>
    w_pref, w_enabled,  \* wifiprefs: the network, the switch
    g_aps, g_sel,       \* the list and the selected row (0: none)
    g_state, g_scan_ch, g_retried, g_ask, g_pass, g_join_row,
    g_fn, g_running, j_new,     \* job.c; j_new: job_seq differs from last_seq
    n_pc,               \* where the net task is
    n_job,              \* the job it took
    blob_ready, g_wpa_conn_cb, g_hs_pass,
    r_assoc,            \* external: the network the radio really is on
    r_key,              \* the network and key of the last connect
    w_loose             \* history: a passphrase was pushed out of the full record, a
                        \* network was forgotten with a job outstanding, or the list was
                        \* cleared under a sweep with a join waiting

recVars  == <<w_cred, w_pmk, w_pref, w_enabled, w_loose>>
viewVars == <<g_aps, g_sel, g_state, g_scan_ch, g_retried, g_ask, g_pass, g_join_row>>
jobVars  == <<g_fn, g_running, j_new, n_pc, n_job>>
radVars  == <<blob_ready, g_wpa_conn_cb, g_hs_pass, r_assoc, r_key>>
wifiVars == <<recVars, viewVars, jobVars, radVars>>

-----------------------------------------------------------------------------
(* The records: a list of at most RecordSlots entries, replaced in place. *)

Keys(rec) == {rec[i][1] : i \in DOMAIN rec}
RowOf(rec, net) == CHOOSE j \in DOMAIN rec : rec[j][1] = net
Entry(rec, net) == rec[RowOf(rec, net)][2]
Stored(rec, net) == IF net \in Keys(rec) THEN Entry(rec, net) ELSE NONE

put(rec, net, val) ==
    IF net \in Keys(rec)
    THEN [i \in DOMAIN rec |-> IF rec[i][1] = net THEN <<net, val>> ELSE rec[i]]
    ELSE Append(IF Len(rec) >= RecordSlots THEN Tail(rec) ELSE rec, <<net, val>>)
\* The entry goes and the gap is closed.
forget(rec, net) ==
    IF net \in Keys(rec)
    THEN [i \in 1 .. Len(rec) - 1 |-> rec[IF i < RowOf(rec, net) THEN i ELSE i + 1]]
    ELSE rec

\* Mutant: the derived key survives "forget".
pmkcache_forget_kept(net) == w_pmk

pmkcache_forget(net) == forget(w_pmk, net)

wificred_put(net, pass) ==
    /\ w_cred' = put(w_cred, net, pass)
    /\ w_loose' = (w_loose \/ ~(Keys(w_cred) \subseteq Keys(w_cred')))

-----------------------------------------------------------------------------
(* job.c *)

job_busy == g_fn # NONE \/ g_running

\* A refused submission is not noticed by any caller.
Submitted(fn) == IF job_busy THEN g_fn ELSE fn

-----------------------------------------------------------------------------
(* The view *)

WifiInit ==
    /\ w_cred = <<>> /\ w_pmk = <<>> /\ w_pref = NONE /\ w_enabled = TRUE
    /\ w_loose = FALSE
    /\ g_aps = <<>> /\ g_sel = 0 /\ g_state = "IDLE" /\ g_scan_ch = 0
    /\ g_retried = FALSE /\ g_ask = 0 /\ g_pass = NONE /\ g_join_row = 0
    /\ g_fn = NONE /\ g_running = FALSE /\ j_new = FALSE /\ n_pc = "idle" /\ n_job = NONE
    /\ blob_ready = FALSE /\ g_wpa_conn_cb = FALSE /\ g_hs_pass = Right
    /\ r_assoc = NONE /\ r_key = <<NONE, NONE>>

\* What the view should be doing, given the radio: the connected network is listed,
\* the preferred one is joined, an empty list starts a sweep.
view_settle(aps, sel, conn, fn, pref) ==
    LET busy    == fn # NONE \/ g_running
        list    == IF conn /\ aps = <<>> /\ pref # NONE THEN <<pref>> ELSE aps
        free    == ~busy /\ blob_ready /\ ~conn
        rejoin  == free /\ pref \in Keys(w_cred)
        sweep   == free /\ ~rejoin /\ list = <<>> /\ g_scan_ch = 0
    IN  /\ g_aps' = list
        /\ g_fn' = IF rejoin THEN "autojoin" ELSE fn
        /\ g_state' = IF rejoin THEN "JOINING"
                      ELSE IF sweep THEN "SCANNING"
                      ELSE IF busy THEN "STARTING"
                      ELSE IF ~blob_ready THEN "NORADIO"
                      ELSE IF conn THEN "JOINED" ELSE "IDLE"
        /\ g_sel' = IF sweep THEN 0 ELSE sel
        /\ g_scan_ch' = IF sweep THEN 1 ELSE g_scan_ch
        /\ g_retried' = IF sweep THEN FALSE ELSE g_retried

wifiapp_open ==
    /\ g_ask' = 0
    /\ IF ~w_enabled
       THEN /\ g_state' = "NORADIO" /\ g_sel' = 0
            /\ UNCHANGED <<g_aps, g_scan_ch, g_retried, g_fn>>
       ELSE view_settle(g_aps, 0, g_wpa_conn_cb,
                        IF blob_ready THEN g_fn ELSE Submitted("start"), w_pref)
    /\ UNCHANGED <<recVars, g_pass, g_join_row, g_running, j_new, n_pc, n_job, radVars>>

\* The first tap on a row selects it, the second joins it or asks for its passphrase.
TapRow(i) ==
    /\ g_state # "ASKPASS" /\ i \in DOMAIN g_aps
    /\ \/ /\ g_sel # i /\ g_sel' = i
          /\ UNCHANGED <<g_state, g_scan_ch, g_ask, g_pass, g_join_row, g_fn>>
       \/ /\ g_sel = i /\ ~job_busy /\ g_state \notin {"STARTING", "DERIVING"}
          /\ g_scan_ch' = 0 /\ g_pass' = Stored(w_cred, g_aps[i])
          /\ IF g_aps[i] \in Keys(w_cred)
             THEN /\ g_join_row' = i /\ g_fn' = Submitted("join") /\ g_state' = "DERIVING"
                  /\ UNCHANGED g_ask
             ELSE /\ g_ask' = i /\ g_state' = "ASKPASS" /\ UNCHANGED <<g_join_row, g_fn>>
          /\ UNCHANGED g_sel
    /\ UNCHANGED <<recVars, g_aps, g_retried, g_running, j_new, n_pc, n_job, radVars>>

\* The passphrase is saved before it is tried. The list may have changed meanwhile.
SubmitPass(pass) ==
    /\ g_state = "ASKPASS"
    /\ g_pass' = pass /\ g_ask' = 0
    /\ IF g_ask \in DOMAIN g_aps
       THEN /\ wificred_put(g_aps[g_ask], pass)
            /\ g_scan_ch' = 0 /\ g_join_row' = g_ask
            /\ g_fn' = Submitted("join") /\ g_state' = "DERIVING"
       ELSE /\ g_state' = "IDLE"
            /\ UNCHANGED <<w_cred, w_loose, g_scan_ch, g_join_row, g_fn>>
    /\ UNCHANGED <<w_pmk, w_pref, w_enabled, g_aps, g_sel, g_retried, g_running,
                   j_new, n_pc, n_job, radVars>>

\* wifi_leave: the driver disconnects and the supplicant's flag goes with it.
wifi_leave == IF g_wpa_conn_cb /\ blob_ready
              THEN g_wpa_conn_cb' = FALSE /\ r_assoc' = NONE
              ELSE UNCHANGED <<g_wpa_conn_cb, r_assoc>>

ToggleRadio ==
    /\ g_state # "ASKPASS"
    /\ w_enabled' = ~w_enabled
    /\ IF w_enabled THEN wifi_leave ELSE UNCHANGED <<g_wpa_conn_cb, r_assoc>>
    /\ view_settle(<<>>, 0, g_wpa_conn_cb', g_fn, w_pref)
    /\ w_loose' = (w_loose \/ (n_pc = "sweep" /\ g_fn = "join"))
    /\ UNCHANGED <<w_cred, w_pmk, w_pref, g_ask, g_pass, g_join_row, g_running,
                   j_new, n_pc, n_job, blob_ready, g_hs_pass, r_key>>

can_forget(row) == /\ row \in DOMAIN g_aps
                   /\ g_aps[row] \in Keys(w_cred) \/ (g_state = "JOINED" /\ g_wpa_conn_cb)

\* The derived key, the passphrase, the preference and the association all go.
ForgetNetwork ==
    /\ g_state # "ASKPASS" /\ can_forget(g_sel)
    /\ LET net  == g_aps[g_sel]
           pref == IF w_pref = net THEN NONE ELSE w_pref
       IN  /\ w_pmk' = pmkcache_forget(net) /\ w_cred' = forget(w_cred, net)
           /\ w_pref' = pref
           /\ w_loose' = (w_loose \/ job_busy \/ n_pc = "took")
           /\ wifi_leave
           /\ view_settle(<<>>, 0, g_wpa_conn_cb', g_fn, pref)
    /\ UNCHANGED <<w_enabled, g_ask, g_pass, g_join_row, g_running, j_new, n_pc, n_job,
                   blob_ready, g_hs_pass, r_key>>

\* wifiapp_frame: a job that has run for two minutes is given up by the view only.
wifiapp_frame == /\ job_busy /\ g_state' = "FAILED"
                 /\ UNCHANGED <<recVars, g_aps, g_sel, g_scan_ch, g_retried, g_ask, g_pass,
                                g_join_row, jobVars, radVars>>

-----------------------------------------------------------------------------
(* The net task *)

\* job_service clears the slot, then marks itself running: two stores.
job_service == /\ n_pc = "idle" /\ ~j_new /\ g_fn # NONE
               /\ n_job' = g_fn /\ g_fn' = NONE /\ n_pc' = "took"
               /\ UNCHANGED <<recVars, viewVars, g_running, j_new, radVars>>

JobEnds == g_running' = FALSE /\ j_new' = TRUE /\ n_pc' = "idle" /\ n_job' = NONE

start_radio ==
    \/ /\ n_pc = "took" /\ n_job = "start"
       /\ g_running' = TRUE /\ g_state' = "STARTING" /\ n_pc' = "starting"
       /\ UNCHANGED <<recVars, g_aps, g_sel, g_scan_ch, g_retried, g_ask, g_pass,
                      g_join_row, g_fn, j_new, n_job, radVars>>
    \/ /\ n_pc = "starting" /\ JobEnds
       /\ \/ /\ blob_ready' = TRUE /\ g_aps' = <<>> /\ g_sel' = 0 /\ UNCHANGED g_state
          \/ /\ g_state' = "NOSTART" /\ UNCHANGED <<blob_ready, g_aps, g_sel>>
       /\ UNCHANGED <<recVars, g_scan_ch, g_retried, g_ask, g_pass, g_join_row, g_fn,
                      g_wpa_conn_cb, g_hs_pass, r_assoc, r_key>>

\* wifi_join_ssid: the key comes from the cache or is derived and cached, and the
\* driver is told to connect. It leaves whatever network it was on.
wifi_join_ssid(net, pass) ==
    LET typed == IF pass = NONE THEN g_hs_pass ELSE pass
        key   == IF net \in Keys(w_pmk) THEN Entry(w_pmk, net) ELSE typed
    IN  /\ g_hs_pass' = typed
        /\ w_pmk' = IF net \in Keys(w_pmk) THEN w_pmk ELSE put(w_pmk, net, typed)
        /\ r_key' = <<net, key>> /\ r_assoc' = NONE

\* The network a join job is for: the row asked for, or the preference.
JoinTarget == IF n_job = "autojoin" THEN w_pref
              ELSE IF g_join_row \in DOMAIN g_aps THEN g_aps[g_join_row] ELSE NONE
JoinPass == IF n_job = "autojoin" \/ g_pass = NONE THEN Stored(w_cred, JoinTarget)
            ELSE g_pass
join ==
    /\ n_pc = "took" /\ n_job \in {"join", "autojoin"}
    /\ g_join_row' = IF n_job = "join" THEN 0 ELSE g_join_row
    /\ \/ /\ JoinTarget = NONE /\ JobEnds
          /\ UNCHANGED <<w_pmk, g_state, g_hs_pass, r_key, r_assoc>>
       \/ /\ JoinTarget # NONE /\ ~blob_ready /\ g_state' = "NORADIO" /\ JobEnds
          /\ UNCHANGED <<w_pmk, g_hs_pass, r_key, r_assoc>>
       \/ /\ JoinTarget # NONE /\ blob_ready
          /\ g_state' = "JOINING" /\ g_running' = TRUE /\ n_pc' = "joining"
          /\ wifi_join_ssid(JoinTarget, JoinPass)
          /\ UNCHANGED <<j_new, n_job>>
    /\ UNCHANGED <<w_cred, w_pref, w_enabled, w_loose, g_aps, g_sel, g_scan_ch, g_retried,
                   g_ask, g_pass, g_fn, blob_ready, g_wpa_conn_cb>>

\* The end of join_named's wait: the callback has come, or ten seconds have passed.
join_named ==
    /\ n_pc = "joining" /\ JobEnds
    /\ \/ /\ g_wpa_conn_cb /\ g_state' = "JOINED" /\ w_pref' = r_key[1]
       \/ /\ ~g_wpa_conn_cb /\ g_state' = "FAILED" /\ UNCHANGED w_pref
    /\ UNCHANGED <<w_cred, w_pmk, w_enabled, w_loose, g_aps, g_sel, g_scan_ch, g_retried,
                   g_ask, g_pass, g_join_row, g_fn, radVars>>

\* A job has ended since the last pass: a view that waits for it is settled.
wifiapp_service ==
    /\ n_pc = "idle" /\ j_new /\ j_new' = FALSE
    /\ IF g_state = "STARTING" THEN view_settle(g_aps, g_sel, g_wpa_conn_cb, g_fn, w_pref)
       ELSE UNCHANGED <<g_aps, g_fn, g_state, g_sel, g_scan_ch, g_retried>>
    /\ UNCHANGED <<recVars, g_ask, g_pass, g_join_row, g_running, n_pc, n_job, radVars>>

\* One channel of the sweep: the driver is away for 400 ms, then the networks heard
\* are merged and the position advanced.
scan_step ==
    /\ UNCHANGED <<recVars, g_sel, g_ask, g_pass, g_join_row, g_fn, g_running, j_new, n_job,
                   radVars>>
    /\ \/ /\ n_pc = "idle" /\ ~j_new /\ ~job_busy /\ g_scan_ch # 0 /\ blob_ready
          /\ n_pc' = "sweep" /\ UNCHANGED <<g_aps, g_state, g_scan_ch, g_retried>>
       \/ /\ n_pc = "sweep" /\ n_pc' = "idle"
          /\ \E heard \in SUBSET Nets :
               g_aps' = g_aps \o SetToSeq(heard \ Range(g_aps))
          /\ IF g_scan_ch + 1 <= SweepLength
             THEN g_scan_ch' = g_scan_ch + 1 /\ UNCHANGED <<g_state, g_retried>>
             ELSE IF g_aps' = <<>> /\ ~g_retried
                  THEN g_retried' = TRUE /\ g_scan_ch' = 1 /\ UNCHANGED g_state
                  ELSE /\ g_scan_ch' = 0 /\ UNCHANGED g_retried
                       /\ g_state' = IF g_state = "SCANNING" THEN "IDLE" ELSE g_state

-----------------------------------------------------------------------------
(* The air *)

\* The access point answers: only the right key completes the handshake.
ApAccepts == /\ n_pc = "joining" /\ r_assoc = NONE /\ r_key[2] = Right
             /\ r_assoc' = r_key[1] /\ g_wpa_conn_cb' = TRUE
             /\ UNCHANGED <<recVars, viewVars, jobVars, blob_ready, g_hs_pass, r_key>>

\* The link drops. Nothing clears the supplicant's flag.
LinkLost == /\ r_assoc # NONE /\ r_assoc' = NONE
            /\ UNCHANGED <<recVars, viewVars, jobVars, blob_ready, g_wpa_conn_cb, g_hs_pass, r_key>>

WifiNext ==
    \/ wifiapp_open \/ ToggleRadio \/ ForgetNetwork \/ wifiapp_frame
    \/ \E i \in 1 .. Cardinality(Nets) : TapRow(i)
    \/ \E p \in Passes : SubmitPass(p)
    \/ job_service \/ start_radio \/ join \/ join_named \/ wifiapp_service \/ scan_step
    \/ ApAccepts \/ LinkLost

WifiSpec == WifiInit /\ [][WifiNext]_wifiVars

-----------------------------------------------------------------------------
(* Properties *)

\* A key in the cache is the one derived from the passphrase that is saved for its
\* network: a password typed again after "forget" is never answered with the old key.
\* Three exceptions the code has: a passphrase pushed out of the full record leaves its
\* key behind; a network forgotten while a job is outstanding can be cached again by
\* that job; and a list cleared and swept again before a waiting join runs gives that
\* join another network's row, under which the passphrase in g_pass is cached.
KeyMatchesPass ==
    ~w_loose => \A net \in Keys(w_cred) \cap Keys(w_pmk) :
                    Entry(w_cred, net) = Entry(w_pmk, net)

\* A view that says it is starting is waiting for something: a job is queued or
\* running, or one has ended and the next pass of the net task will settle the view.
StartingIsAnswered == g_state = "STARTING" => job_busy \/ n_pc = "took" \/ j_new

\* The key a join uses fits the passphrase the record holds, and a view that says
\* it is starting has a job that will answer it (wifiapp.c, job.c).
JoinKeepsFaith == KeyMatchesPass /\ StartingIsAnswered

(* What the code does not keep: the README tells each counterexample.         *)
\* wifi_joined is "the one signal that means associated AND keyed": when a join ends
\* in JOINED, the radio is on the network the join was for.
JoinedIsTrue == [][(join_named /\ g_state' = "JOINED") => r_assoc = r_key[1]]_wifiVars

\* "Off by choice. Nothing is started": no join is handed to the net task while the
\* switch is off.
OffStaysOff == [][(g_fn # g_fn' /\ g_fn' # NONE) => w_enabled']_wifiVars
=============================================================================
