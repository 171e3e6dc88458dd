----------------------------- MODULE AppsProofs -----------------------------
(***************************************************************************)
(* Proofs about the life of an application, for calls that run to their end*)
(* (Preempts = FALSE): its arena, its memory, its mail, its grants and its *)
(* viewport, for any number of slots, arenas, blocks and programs; and     *)
(* about the page of the browser, whatever is fetched and tapped.          *)
(***************************************************************************)
EXTENDS Apps, Browser, Facts, SequenceTheorems, TLAPS

-----------------------------------------------------------------------------
(* The inductive invariant, for calls that are not interleaved.             *)

InUse(ac) == {a \in Arenas : ac[a] # NONE}

\* The arenas in use are the kernel's, those of the programs in live and those in fresh;
\* the heap has given out their blocks, less those of freed, and the blocks in loose.
Kept(m, ac, aa, vb, live, fresh, freed, loose) ==
    /\ 0 \in InUse(ac)
    /\ \A a, b \in InUse(ac) : ac[a] = ac[b] => a = b
    /\ \A id \in live : /\ aa[id] \in InUse(ac) /\ aa[id] # 0 /\ aa[id] \notin fresh
                        /\ vb[id] = ac[aa[id]]
    /\ \A i, j \in live : aa[i] = aa[j] => i = j
    /\ \A a \in InUse(ac) : a = 0 \/ a \in fresh \/ \E id \in live : aa[id] = a
    /\ \A a \in fresh : a \in InUse(ac) /\ a # 0
    /\ \A r \in Regions : r \in m <=> \/ \E a \in InUse(ac) : a \notin freed /\ ac[a] = r
                                      \/ r \in loose
    /\ \A a \in InUse(ac) : ac[a] \notin loose

Held(live, fresh, freed, loose) ==
    Kept(mem, arena, app_arena, vm_base, live, fresh, freed, loose)

\* The programs in live draw where the focus and the suspension say.
Drawn(focused, suspended, vw, live) ==
    /\ focused # -1 => focused \in live
    /\ \A id \in live : vw[id] = IF id = focused THEN "full"
                                 ELSE IF suspended THEN "none" ELSE "strip"

Shown(live) == Drawn(g_focused, g_views_suspended, view, live)

Whole(t)   == pc[t] \in {"create", "alloc", "grant", "focus", "free", "scan", "run", "send"}
Starting(t) == pc[t] \in {"create", "alloc", "store", "init", "publish"}
Retiring(t) == pc[t] \in {"free", "unbind", "clear", "revoke", "dead"}
Fading(t)  == pc[t] \in {"clear", "revoke", "dead"}

\* What is true of the tables and of its locals while t is inside a call.
Doing(t) ==
    /\ Whole(t) => Held(Running, {}, {}, {})
    /\ pc[t] = "store" => Held(Running, {}, {}, {mine[t]}) /\ mine[t] \in Regions
    /\ pc[t] \in {"init", "publish"} => Held(Running, {ar[t]}, {}, {})
    /\ pc[t] = "fields" => Held(Running \ {slot[t]}, {ar[t]}, {}, {})
    /\ pc[t] = "unbind" => Held(Running, {}, {ar[t]}, {}) /\ ar[t] = app_arena[slot[t]]
    /\ Fading(t) => Held(Running \ {slot[t]}, {}, {}, {})
    /\ Whole(t) \/ Starting(t) => Shown(Running)
    /\ pc[t] = "fields" \/ pc[t] = "unbind" \/ Fading(t) => Shown(Running \ {slot[t]})
    /\ Starting(t) => slot[t] \notin Running
    /\ pc[t] \in {"alloc", "store"} => ar[t] \in Arenas /\ arena[ar[t]] = NONE
    /\ pc[t] \in {"publish", "fields"} => vm_base[slot[t]] = arena[ar[t]]
    /\ pc[t] \in {"fields", "grant"} => tenant[slot[t]] = prog[t]
    /\ pc[t] \in {"fields", "grant", "run", "send"} => slot[t] \in Running
    /\ Retiring(t) => slot[t] \in Running /\ why[t] # "RUNNING"
    /\ pc[t] \in {"revoke", "dead"} => box[slot[t]] = NONE
    /\ pc[t] = "dead" => perms[slot[t]] = NONE
    /\ pc[t] = "send" => ar[t] \in Running /\ mine[t] = tenant[ar[t]]

AppsInv ==
    /\ NothingInherited
    /\ \A t, u \in Tasks : pc[t] # "idle" /\ pc[u] # "idle" => t = u
    /\ Quiet => Held(Running, {}, {}, {}) /\ Shown(Running)
    /\ \A t \in Tasks : pc[t] # "idle" => Doing(t)

-----------------------------------------------------------------------------
(* Facts the steps share.                                                   *)

LEMMA AppsNumbers ==
    /\ APP_MAX \in Nat /\ APP_MAX > 0 /\ ARENA_MAX \in Nat /\ APP_MAX < ARENA_MAX
    /\ 0 \in Ids /\ 0 \in Arenas /\ Ids \subseteq Arenas /\ Ids \subseteq Nat /\ Arenas \subseteq Nat
    /\ -1 \notin Ids /\ -1 \notin Arenas
    /\ NONE \notin Regions /\ NONE \notin Progs /\ "apps" \in Tasks
  BY AppsAssumption DEF Ids, Arenas, Tasks

\* After a step of t, the others idle, only what t is doing is left to show.
LEMMA Settles ==
    ASSUME NEW t \in Tasks, TypeOK, \A u \in Tasks \ {t} : pc[u] = "idle", NEW w \in Pc, Goto(t, w),
           NothingInherited',
           w = "idle" => Held(Running, {}, {}, {})' /\ Shown(Running)',
           w # "idle" => Doing(t)'
    PROVE  AppsInv'
  <1>1. pc'[t] = w /\ \A u \in Tasks \ {t} : pc'[u] = "idle"
    BY DEF Goto, TypeOK
  <1>2. \A x, u \in Tasks : pc'[x] # "idle" /\ pc'[u] # "idle" => x = u
    BY <1>1
  <1>3. Quiet' => Held(Running, {}, {}, {})' /\ Shown(Running)'
    BY <1>1 DEF Quiet
  <1>4. \A u \in Tasks : pc'[u] # "idle" => Doing(u)'
    BY <1>1
  <1> QED
    BY <1>2, <1>3, <1>4 DEF AppsInv

\* Whoever has its turn is alone.
LEMMA Alone ==
    ASSUME ~Preempts, AppsInv, NEW t \in Tasks, NEW w, At(t, w)
    PROVE  /\ pc[t] = w /\ \A u \in Tasks \ {t} : pc[u] = "idle"
           /\ w # "idle" => Doing(t)
           /\ w = "idle" => Quiet /\ Held(Running, {}, {}, {}) /\ Shown(Running)
           /\ TypeOK /\ MailIsOwn /\ GrantIsOwn
  <1>1. pc[t] = w /\ \A u \in Tasks \ {t} : pc[u] = "idle"
    BY DEF At, Turn
  <1>2. w = "idle" => Quiet
    BY <1>1 DEF Quiet
  <1> QED
    BY <1>1, <1>2 DEF AppsInv, NothingInherited

LEMMA InheritStays ==
    ASSUME TypeOK', MailIsOwn, GrantIsOwn, UNCHANGED <<box, perms, tenant, state>>
    PROVE  NothingInherited'
  BY DEF NothingInherited, MailIsOwn, GrantIsOwn, Running

LEMMA ReturnTyped ==
    ASSUME TypeOK, NEW t \in Tasks, Return(t)
    PROVE  /\ pc' \in [Tasks -> Pc] /\ slot' \in [Tasks -> Ids]
           /\ ar' \in [Tasks -> Arenas \cup {-1}]
           /\ mine' \in [Tasks -> Regions \cup Progs \cup {NONE}]
           /\ prog' \in [Tasks -> Progs \cup {NONE}]
           /\ why' \in [Tasks -> AppState]
           /\ Goto(t, "idle")
  BY AppsNumbers DEF TypeOK, Return, Goto, Pc, AppState

-----------------------------------------------------------------------------
(* What each step does to the arenas.                                       *)

\* The types of the arenas' tables.
ArenaTypes(m, ac, aa, vb) ==
    /\ m \subseteq Regions /\ ac \in [Arenas -> Regions \cup {NONE}]
    /\ aa \in [Ids -> Arenas \cup {-1}] /\ vb \in [Ids -> Regions \cup {NONE}]

LEMMA KeptAlloc ==
    ASSUME NEW m, NEW ac, NEW aa, NEW vb, ArenaTypes(m, ac, aa, vb), NEW live \in SUBSET Ids,
           Kept(m, ac, aa, vb, live, {}, {}, {}), NEW r \in Regions, r \notin m
    PROVE  Kept(m \cup {r}, ac, aa, vb, live, {}, {}, {r})
  BY DEF Kept, ArenaTypes

LEMMA KeptStore ==
    ASSUME NEW m, NEW ac, NEW aa, NEW vb, ArenaTypes(m, ac, aa, vb), NEW live \in SUBSET Ids,
           NEW r \in Regions, Kept(m, ac, aa, vb, live, {}, {}, {r}),
           NEW a \in Arenas, ac[a] = NONE
    PROVE  Kept(m, [ac EXCEPT ![a] = r], aa, vb, live, {a}, {}, {})
  <1> DEFINE k == [ac EXCEPT ![a] = r]
  <1>1. InUse(k) = InUse(ac) \cup {a} /\ a \notin InUse(ac)
    BY AppsNumbers DEF InUse, ArenaTypes
  <1>2. k[a] = r /\ \A b \in InUse(ac) : b # a /\ k[b] = ac[b]
    BY DEF InUse, ArenaTypes
  <1> HIDE DEF k
  <1>3. Kept(m, k, aa, vb, live, {a}, {}, {})
    BY <1>1, <1>2 DEF Kept
  <1> QED
    BY <1>3 DEF k

LEMMA KeptInit ==
    ASSUME NEW m, NEW ac, NEW aa, NEW vb, ArenaTypes(m, ac, aa, vb), NEW live \in SUBSET Ids,
           NEW fresh, Kept(m, ac, aa, vb, live, fresh, {}, {}), NEW s \in Ids, s \notin live, NEW x
    PROVE  Kept(m, ac, aa, [vb EXCEPT ![s] = x], live, fresh, {}, {})
  BY DEF Kept, ArenaTypes

LEMMA KeptBind ==
    ASSUME NEW m, NEW ac, NEW aa, NEW vb, ArenaTypes(m, ac, aa, vb), NEW live \in SUBSET Ids,
           NEW a \in Arenas, Kept(m, ac, aa, vb, live, {a}, {}, {}),
           NEW s \in Ids, s \notin live, vb[s] = ac[a]
    PROVE  Kept(m, ac, [aa EXCEPT ![s] = a], vb, live \cup {s}, {}, {}, {})
  <1> DEFINE k == [aa EXCEPT ![s] = a]
  <1>1. k[s] = a /\ \A i \in live : i # s /\ k[i] = aa[i]
    BY DEF ArenaTypes
  <1> HIDE DEF k
  <1>2. Kept(m, ac, k, vb, live \cup {s}, {}, {}, {})
    BY <1>1 DEF Kept
  <1> QED
    BY <1>2 DEF k

LEMMA KeptFree ==
    ASSUME NEW m, NEW ac, NEW aa, NEW vb, ArenaTypes(m, ac, aa, vb), NEW live \in SUBSET Ids,
           Kept(m, ac, aa, vb, live, {}, {}, {}), NEW s \in live
    PROVE  Kept(m \ {ac[aa[s]]}, ac, aa, vb, live, {}, {aa[s]}, {})
  BY DEF Kept, ArenaTypes

LEMMA KeptUnbind ==
    ASSUME NEW m, NEW ac, NEW aa, NEW vb, ArenaTypes(m, ac, aa, vb), NEW live \in SUBSET Ids,
           NEW s \in live, NEW a, a = aa[s], Kept(m, ac, aa, vb, live, {}, {a}, {})
    PROVE  Kept(m, [ac EXCEPT ![a] = NONE], [aa EXCEPT ![s] = -1], vb, live \ {s}, {}, {}, {})
  <1> DEFINE k == [ac EXCEPT ![a] = NONE]
             q == [aa EXCEPT ![s] = -1]
  <1>1. a \in InUse(ac) /\ a # 0
    BY DEF Kept
  <1>2. InUse(k) = InUse(ac) \ {a} /\ \A b \in InUse(k) : k[b] = ac[b]
    BY <1>1 DEF InUse, ArenaTypes
  <1>3. \A i \in live \ {s} : q[i] = aa[i] /\ aa[i] # a
    BY DEF ArenaTypes, Kept
  <1> HIDE DEF k, q
  <1>4. /\ 0 \in InUse(k)
        /\ \A x, b \in InUse(k) : k[x] = k[b] => x = b
        /\ \A id \in live \ {s} : /\ q[id] \in InUse(k) /\ q[id] # 0 /\ q[id] \notin {}
                                  /\ vb[id] = k[q[id]]
        /\ \A i, j \in live \ {s} : q[i] = q[j] => i = j
    BY <1>1, <1>2, <1>3 DEF Kept
  <1>5. \A x \in InUse(k) : x = 0 \/ x \in {} \/ \E id \in live \ {s} : q[id] = x
    BY <1>1, <1>2, <1>3 DEF Kept
  <1>6. \A r \in Regions : r \in m <=> \/ \E x \in InUse(k) : x \notin {} /\ k[x] = r
                                       \/ r \in {}
    BY <1>1, <1>2 DEF Kept
  <1>7. Kept(m, k, q, vb, live \ {s}, {}, {}, {})
    BY <1>4, <1>5, <1>6 DEF Kept
  <1> QED
    BY <1>7 DEF k, q

-----------------------------------------------------------------------------
(* Starting a program.                                                      *)

LEMMA StartsScan ==
    ASSUME ~Preempts, AppsInv, NEW t \in Tasks, NEW p \in Progs, StartScan(t, p)
    PROVE  AppsInv'
  <1>1. /\ \A u \in Tasks \ {t} : pc[u] = "idle"
        /\ Held(Running, {}, {}, {}) /\ Shown(Running) /\ TypeOK /\ MailIsOwn /\ GrantIsOwn
    BY Alone DEF StartScan
  <1>2. PICK id \in Ids : state[id] # "RUNNING" /\ slot' = [slot EXCEPT ![t] = id]
    BY DEF StartScan
  <1>3. /\ UNCHANGED <<tables, views, ar, mine, why>> /\ Goto(t, "create")
        /\ prog' = [prog EXCEPT ![t] = p]
    BY DEF StartScan
  <1>4. TypeOK'
    BY <1>1, <1>2, <1>3 DEF TypeOK, Goto, Pc, tables, views
  <1>5. Held(Running, {}, {}, {})' /\ Shown(Running)' /\ slot'[t] \notin Running'
    BY <1>1, <1>2, <1>3 DEF Held, Shown, Running, tables, views, TypeOK
  <1>6. pc'[t] = "create"
    BY <1>1, <1>3 DEF Goto, TypeOK
  <1>7. Doing(t)'
    BY <1>5, <1>6 DEF Doing, Whole, Starting, Retiring, Fading
  <1>8. NothingInherited'
    BY <1>1, <1>3, <1>4, InheritStays DEF tables
  <1> QED
    BY <1>1, <1>3, <1>7, <1>8, Settles DEF Pc

LEMMA CreatesScan ==
    ASSUME ~Preempts, AppsInv, NEW t \in Tasks, CreateScan(t)
    PROVE  AppsInv'
  <1>1. /\ \A u \in Tasks \ {t} : pc[u] = "idle"
        /\ pc[t] = "create" /\ Doing(t) /\ TypeOK /\ MailIsOwn /\ GrantIsOwn
    BY Alone DEF CreateScan
  <1>2. Held(Running, {}, {}, {}) /\ Shown(Running) /\ slot[t] \notin Running
    BY <1>1 DEF Doing, Whole, Starting
  <1>3. UNCHANGED <<tables, views>>
    BY DEF CreateScan
  <1>4. Held(Running, {}, {}, {})' /\ Shown(Running)'
    BY <1>2, <1>3 DEF Held, Shown, Running, tables, views
  <1>5. ASSUME NEW a \in Arenas, arena[a] = NONE, ar' = [ar EXCEPT ![t] = a], Goto(t, "alloc"),
               UNCHANGED <<slot, mine, prog, why>>
        PROVE  AppsInv'
    <2>1. TypeOK'
      BY <1>1, <1>3, <1>5 DEF TypeOK, Goto, Pc, tables, views
    <2>2. /\ pc'[t] = "alloc" /\ ar'[t] = a /\ arena'[a] = NONE /\ slot'[t] \notin Running'
      BY <1>1, <1>2, <1>3, <1>5 DEF Goto, TypeOK, tables, Running
    <2>3. Doing(t)'
      BY <1>4, <2>2 DEF Doing, Whole, Starting, Retiring, Fading
    <2>4. NothingInherited'
      BY <1>1, <1>3, <2>1, InheritStays DEF tables
    <2> QED
      BY <1>1, <1>5, <2>3, <2>4, Settles DEF Pc
  <1>6. ASSUME Return(t) PROVE AppsInv'
    <2>1. TypeOK'
      BY <1>1, <1>3, <1>6, ReturnTyped DEF TypeOK, tables, views
    <2>2. NothingInherited'
      BY <1>1, <1>3, <2>1, InheritStays DEF tables
    <2> QED
      BY <1>1, <1>4, <1>6, <2>2, Settles DEF Pc, Return
  <1> QED
    BY <1>5, <1>6 DEF CreateScan
LEMMA CreatesAlloc ==
    ASSUME ~Preempts, AppsInv, NEW t \in Tasks, CreateAlloc(t)
    PROVE  AppsInv'
  <1>1. /\ \A u \in Tasks \ {t} : pc[u] = "idle"
        /\ pc[t] = "alloc" /\ Doing(t) /\ TypeOK /\ MailIsOwn /\ GrantIsOwn
    BY Alone DEF CreateAlloc
  <1>2. /\ Held(Running, {}, {}, {}) /\ Shown(Running) /\ slot[t] \notin Running
        /\ ar[t] \in Arenas /\ arena[ar[t]] = NONE
    BY <1>1 DEF Doing, Whole, Starting
  <1>3. UNCHANGED <<arena, state, app_arena, vm_base, handler, tenant, box, perms, views>>
    BY DEF CreateAlloc
  <1>4. Shown(Running)' /\ Running' = Running
    BY <1>2, <1>3 DEF Shown, Running, views
  <1>5. ASSUME NEW r \in Regions, r \notin mem, mem' = mem \cup {r},
               mine' = [mine EXCEPT ![t] = r], Goto(t, "store"), UNCHANGED <<slot, ar, prog, why>>
        PROVE  AppsInv'
    <2>1. TypeOK'
      BY <1>1, <1>3, <1>5 DEF TypeOK, Goto, Pc, views
    <2>2. /\ pc'[t] = "store" /\ ar'[t] \in Arenas /\ arena'[ar'[t]] = NONE
          /\ slot'[t] \notin Running' /\ mine'[t] = r
      BY <1>1, <1>2, <1>3, <1>4, <1>5 DEF Goto, TypeOK
    <2>3. Held(Running, {}, {}, {mine[t]})'
      <3>1. ArenaTypes(mem, arena, app_arena, vm_base) /\ Running \in SUBSET Ids
        BY <1>1 DEF ArenaTypes, TypeOK, Running
      <3>2. Kept(mem \cup {r}, arena, app_arena, vm_base, Running, {}, {}, {r})
        BY <1>2, <1>5, <3>1, KeptAlloc DEF Held
      <3> QED
        BY <1>3, <1>4, <1>5, <2>2, <3>2 DEF Held
    <2>4. Doing(t)'
      BY <1>4, <2>2, <2>3 DEF Doing, Whole, Starting, Retiring, Fading
    <2>5. NothingInherited'
      BY <1>1, <1>3, <2>1, InheritStays
    <2> QED
      BY <1>1, <1>5, <2>4, <2>5, Settles DEF Pc
  <1>6. ASSUME Return(t), UNCHANGED mem PROVE AppsInv'
    <2>1. TypeOK'
      BY <1>1, <1>3, <1>6, ReturnTyped DEF TypeOK, views
    <2>2. NothingInherited'
      BY <1>1, <1>3, <2>1, InheritStays
    <2>3. Held(Running, {}, {}, {})'
      BY <1>2, <1>3, <1>4, <1>6 DEF Held
    <2> QED
      BY <1>1, <1>4, <1>6, <2>2, <2>3, Settles DEF Pc, Return
  <1> QED
    BY <1>5, <1>6 DEF CreateAlloc

LEMMA CreatesStore ==
    ASSUME ~Preempts, AppsInv, NEW t \in Tasks, CreateStore(t)
    PROVE  AppsInv'
  <1>1. /\ \A u \in Tasks \ {t} : pc[u] = "idle"
        /\ pc[t] = "store" /\ Doing(t) /\ TypeOK /\ MailIsOwn /\ GrantIsOwn
    BY Alone DEF CreateStore
  <1>2. /\ Held(Running, {}, {}, {mine[t]}) /\ mine[t] \in Regions
        /\ Shown(Running) /\ slot[t] \notin Running
        /\ ar[t] \in Arenas /\ arena[ar[t]] = NONE
    BY <1>1 DEF Doing, Whole, Starting
  <1>3. /\ arena' = [arena EXCEPT ![ar[t]] = mine[t]]
        /\ mine' = [mine EXCEPT ![t] = NONE] /\ Goto(t, "init")
        /\ UNCHANGED <<mem, state, app_arena, vm_base, handler, tenant, box, perms, views,
                       slot, ar, prog, why>>
    BY DEF CreateStore
  <1>4. Shown(Running)' /\ Running' = Running
    BY <1>2, <1>3 DEF Shown, Running, views
  <1>5. TypeOK'
    BY <1>1, <1>2, <1>3 DEF TypeOK, Goto, Pc, views
  <1>6. /\ pc'[t] = "init" /\ ar'[t] = ar[t] /\ slot'[t] \notin Running'
    BY <1>1, <1>2, <1>3, <1>4 DEF Goto, TypeOK
  <1>7. Held(Running, {ar[t]}, {}, {})'
    <2>1. ArenaTypes(mem, arena, app_arena, vm_base) /\ Running \in SUBSET Ids
      BY <1>1 DEF ArenaTypes, TypeOK, Running
    <2>2. Kept(mem, arena', app_arena, vm_base, Running, {ar[t]}, {}, {})
      BY <1>2, <1>3, <2>1, KeptStore DEF Held
    <2> QED
      BY <1>3, <1>4, <2>2 DEF Held
  <1>8. Doing(t)'
    BY <1>4, <1>6, <1>7 DEF Doing, Whole, Starting, Retiring, Fading
  <1>9. NothingInherited'
    BY <1>1, <1>3, <1>5, InheritStays
  <1> QED
    BY <1>1, <1>3, <1>8, <1>9, Settles DEF Pc

LEMMA StartsInit ==
    ASSUME ~Preempts, AppsInv, NEW t \in Tasks, StartInit(t)
    PROVE  AppsInv'
  <1>1. /\ \A u \in Tasks \ {t} : pc[u] = "idle"
        /\ pc[t] = "init" /\ Doing(t) /\ TypeOK /\ MailIsOwn /\ GrantIsOwn
    BY Alone DEF StartInit
  <1>2. /\ Held(Running, {ar[t]}, {}, {}) /\ Shown(Running) /\ slot[t] \notin Running
    BY <1>1 DEF Doing, Whole, Starting
  <1>3. ar[t] \in InUse(arena) /\ ar[t] \in Arenas /\ slot[t] \in Ids
    BY <1>1, <1>2 DEF Held, Kept, InUse, TypeOK
  <1>4. /\ vm_base' = [vm_base EXCEPT ![slot[t]] = arena[ar[t]]]
        /\ view' = [view EXCEPT ![slot[t]] = "panel"]
        /\ box' = [box EXCEPT ![slot[t]] = NONE]
        /\ Goto(t, "publish")
        /\ UNCHANGED <<slot, ar, mine, prog, why, mem, arena, state, app_arena, handler, tenant,
                       perms, g_focused, g_views_suspended>>
    BY <1>3 DEF StartInit, InUse
  <1>5. Running' = Running /\ Running \in SUBSET Ids
    BY <1>4 DEF Running
  <1>6. Shown(Running)'
    <2>1. \A id \in Running : view'[id] = view[id]
      BY <1>1, <1>2, <1>4, <1>5 DEF TypeOK
    <2>2. Drawn(g_focused, g_views_suspended, view', Running)
      BY <1>2, <2>1 DEF Shown, Drawn
    <2> QED
      BY <1>4, <1>5, <2>2 DEF Shown
  <1>7. TypeOK'
    BY <1>1, <1>3, <1>4 DEF TypeOK, Goto, Pc, View
  <1>8. /\ pc'[t] = "publish" /\ ar'[t] = ar[t] /\ slot'[t] \notin Running'
        /\ vm_base'[slot'[t]] = arena'[ar'[t]]
    BY <1>1, <1>2, <1>3, <1>4, <1>5 DEF Goto, TypeOK
  <1>9. Held(Running, {ar[t]}, {}, {})'
    <2>1. ArenaTypes(mem, arena, app_arena, vm_base)
      BY <1>1 DEF ArenaTypes, TypeOK
    <2>2. Kept(mem, arena, app_arena, vm_base', Running, {ar[t]}, {}, {})
      BY <1>2, <1>3, <1>4, <1>5, <2>1, KeptInit DEF Held
    <2> QED
      BY <1>4, <1>5, <2>2 DEF Held
  <1>10. Doing(t)'
    BY <1>6, <1>8, <1>9 DEF Doing, Whole, Starting, Retiring, Fading
  <1>11. NothingInherited'
    <2>1. MailIsOwn'
      BY <1>1, <1>3, <1>4, <1>5 DEF MailIsOwn, TypeOK
    <2>2. GrantIsOwn'
      BY <1>1, <1>4, <1>5 DEF GrantIsOwn
    <2> QED
      BY <1>7, <2>1, <2>2 DEF NothingInherited
  <1> QED
    BY <1>1, <1>4, <1>10, <1>11, Settles DEF Pc

LEMMA StartsPublish ==
    ASSUME ~Preempts, AppsInv, NEW t \in Tasks, StartPublish(t)
    PROVE  AppsInv'
  <1>1. /\ \A u \in Tasks \ {t} : pc[u] = "idle"
        /\ pc[t] = "publish" /\ Doing(t) /\ TypeOK /\ MailIsOwn /\ GrantIsOwn
    BY Alone DEF StartPublish
  <1>2. /\ Held(Running, {ar[t]}, {}, {}) /\ Shown(Running) /\ slot[t] \notin Running
        /\ vm_base[slot[t]] = arena[ar[t]] /\ slot[t] \in Ids
    BY <1>1 DEF Doing, Whole, Starting, TypeOK
  <1>3. /\ state' = [state EXCEPT ![slot[t]] = "RUNNING"]
        /\ tenant' = [tenant EXCEPT ![slot[t]] = prog[t]]
        /\ Goto(t, "fields")
        /\ UNCHANGED <<mem, arena, app_arena, vm_base, handler, box, perms, views,
                       slot, ar, mine, prog, why>>
    BY DEF StartPublish
  <1>4. Running' = Running \cup {slot[t]} /\ Running' \ {slot[t]} = Running
    BY <1>1, <1>2, <1>3 DEF Running, TypeOK
  <1>5. TypeOK'
    BY <1>1, <1>2, <1>3 DEF TypeOK, Goto, Pc, views, AppState
  <1>6. /\ pc'[t] = "fields" /\ ar'[t] = ar[t] /\ slot'[t] = slot[t] /\ slot'[t] \in Running'
        /\ vm_base'[slot'[t]] = arena'[ar'[t]] /\ tenant'[slot'[t]] = prog'[t]
    BY <1>1, <1>2, <1>3, <1>4 DEF Goto, TypeOK
  <1>7. Held(Running \ {slot[t]}, {ar[t]}, {}, {})' /\ Shown(Running \ {slot[t]})'
    BY <1>2, <1>3, <1>4 DEF Held, Shown, views
  <1>8. Doing(t)'
    BY <1>6, <1>7 DEF Doing, Whole, Starting, Retiring, Fading
  <1>9. NothingInherited'
    <2>1. box[slot[t]] = NONE /\ perms[slot[t]] = NONE
      BY <1>1, <1>2 DEF MailIsOwn, GrantIsOwn
    <2>2. \A id \in Ids : id # slot[t] => tenant'[id] = tenant[id]
      BY <1>1, <1>3 DEF TypeOK
    <2>3. MailIsOwn' /\ GrantIsOwn'
      BY <1>1, <1>3, <1>4, <2>1, <2>2 DEF MailIsOwn, GrantIsOwn
    <2> QED
      BY <1>5, <2>3 DEF NothingInherited
  <1> QED
    BY <1>1, <1>3, <1>8, <1>9, Settles DEF Pc
LEMMA StartsFields ==
    ASSUME ~Preempts, AppsInv, NEW t \in Tasks, StartFields(t)
    PROVE  AppsInv'
  <1>1. /\ \A u \in Tasks \ {t} : pc[u] = "idle"
        /\ pc[t] = "fields" /\ Doing(t) /\ TypeOK /\ MailIsOwn /\ GrantIsOwn
    BY Alone DEF StartFields
  <1>2. /\ Held(Running \ {slot[t]}, {ar[t]}, {}, {}) /\ Shown(Running \ {slot[t]})
        /\ slot[t] \in Running /\ tenant[slot[t]] = prog[t]
        /\ vm_base[slot[t]] = arena[ar[t]] /\ slot[t] \in Ids
    BY <1>1 DEF Doing, Whole, Starting, TypeOK
  <1>3. /\ app_arena' = [app_arena EXCEPT ![slot[t]] = ar[t]]
        /\ view' = [view EXCEPT ![slot[t]] =
                        apply_view(slot[t], state, g_focused, g_views_suspended)]
        /\ Goto(t, "grant")
        /\ UNCHANGED <<mem, arena, state, vm_base, handler, tenant, box, perms,
                       g_focused, g_views_suspended, slot, ar, mine, prog, why>>
    BY DEF StartFields
  <1>4. Running' = Running /\ Running \in SUBSET Ids /\ Running = (Running \ {slot[t]}) \cup {slot[t]}
    BY <1>2, <1>3 DEF Running
  <1>5. ar[t] \in Arenas
    BY <1>2 DEF Held, Kept, InUse
  <1>6. apply_view(slot[t], state, g_focused, g_views_suspended) =
            IF slot[t] = g_focused THEN "full" ELSE IF g_views_suspended THEN "none" ELSE "strip"
    BY <1>2 DEF apply_view, Running
  <1>7. TypeOK'
    <2>1. apply_view(slot[t], state, g_focused, g_views_suspended) \in View
      BY <1>6 DEF View
    <2> QED
      BY <1>1, <1>3, <1>5, <2>1 DEF TypeOK, Goto, Pc
  <1>8. /\ pc'[t] = "grant" /\ slot'[t] = slot[t] /\ slot'[t] \in Running'
        /\ tenant'[slot'[t]] = prog'[t]
    BY <1>1, <1>2, <1>3, <1>4 DEF Goto, TypeOK
  <1>9. Held(Running, {}, {}, {})'
    <2>1. ArenaTypes(mem, arena, app_arena, vm_base) /\ Running \ {slot[t]} \in SUBSET Ids
      BY <1>1, <1>4 DEF ArenaTypes, TypeOK
    <2>2. Kept(mem, arena, app_arena', vm_base, (Running \ {slot[t]}) \cup {slot[t]}, {}, {}, {})
      BY <1>2, <1>3, <1>5, <2>1, KeptBind DEF Held
    <2> QED
      BY <1>3, <1>4, <2>2 DEF Held
  <1>10. Shown(Running)'
    <2>1. view'[slot[t]] = IF slot[t] = g_focused THEN "full"
                           ELSE IF g_views_suspended THEN "none" ELSE "strip"
      BY <1>1, <1>2, <1>3, <1>6 DEF TypeOK
    <2>2. \A id \in Ids : id # slot[t] => view'[id] = view[id]
      BY <1>1, <1>3 DEF TypeOK
    <2>3. Drawn(g_focused, g_views_suspended, view', Running)
      BY <1>2, <1>4, <2>1, <2>2 DEF Shown, Drawn
    <2> QED
      BY <1>3, <1>4, <2>3 DEF Shown
  <1>11. Doing(t)'
    BY <1>8, <1>9, <1>10 DEF Doing, Whole, Starting, Retiring, Fading
  <1>12. NothingInherited'
    BY <1>1, <1>3, <1>7, InheritStays
  <1> QED
    BY <1>1, <1>3, <1>11, <1>12, Settles DEF Pc

LEMMA LaunchGrants ==
    ASSUME ~Preempts, AppsInv, NEW t \in Tasks, LaunchGrant(t)
    PROVE  AppsInv'
  <1>1. /\ \A u \in Tasks \ {t} : pc[u] = "idle"
        /\ pc[t] = "grant" /\ Doing(t) /\ TypeOK /\ MailIsOwn /\ GrantIsOwn
    BY Alone DEF LaunchGrant
  <1>2. /\ Held(Running, {}, {}, {}) /\ Shown(Running)
        /\ slot[t] \in Running /\ tenant[slot[t]] = prog[t] /\ slot[t] \in Ids
    BY <1>1 DEF Doing, Whole, Starting, TypeOK
  <1>3. /\ perms' = [perms EXCEPT ![slot[t]] = prog[t]]
        /\ UNCHANGED <<mem, arena, state, app_arena, vm_base, handler, tenant, box, views>>
    BY DEF LaunchGrant
  <1>4. Running' = Running /\ Held(Running, {}, {}, {})' /\ Shown(Running)'
    BY <1>2, <1>3 DEF Running, Held, Shown, views
  <1>5. MailIsOwn' /\ GrantIsOwn'
    BY <1>1, <1>2, <1>3, <1>4 DEF MailIsOwn, GrantIsOwn, TypeOK
  <1>6. ASSUME Goto(t, "focus"), UNCHANGED <<slot, ar, mine, prog, why>> PROVE AppsInv'
    <2>1. TypeOK'
      BY <1>1, <1>3, <1>6 DEF TypeOK, Goto, Pc, views
    <2>2. pc'[t] = "focus"
      BY <1>1, <1>6 DEF Goto, TypeOK
    <2>3. Doing(t)'
      BY <1>4, <2>2 DEF Doing, Whole, Starting, Retiring, Fading
    <2> QED
      BY <1>1, <1>5, <1>6, <2>1, <2>3, Settles DEF Pc, NothingInherited
  <1>7. ASSUME Return(t) PROVE AppsInv'
    <2>1. TypeOK'
      <3>1. perms' \in [Ids -> Progs \cup {NONE}]
        BY <1>1, <1>3 DEF TypeOK
      <3> QED
        BY <1>1, <1>3, <1>7, <3>1, ReturnTyped DEF TypeOK, views
    <2> QED
      BY <1>1, <1>4, <1>5, <1>7, <2>1, Settles DEF Pc, NothingInherited, Return
  <1> QED
    BY <1>6, <1>7 DEF LaunchGrant

-----------------------------------------------------------------------------
(* Viewports.                                                               *)

\* One function decides: after it has run for both the old and the new focus, every
\* running program is drawn as the new focus says.
LEMMA FocusShows ==
    ASSUME TypeOK, Shown(Running), NEW id \in Ids \cup {-1}, FocusOn(id),
           UNCHANGED <<state, g_views_suspended>>
    PROVE  Shown(Running)' /\ g_focused' \in Ids \cup {-1} /\ view' \in [Ids -> View]
  <1> DEFINE f == IF id >= 0 /\ state[id] = "RUNNING" THEN id ELSE -1
  <1>1. /\ g_focused' = f
        /\ view' = [k \in Ids |-> IF k \in {g_focused, f}
                                  THEN apply_view(k, state, f, g_views_suspended) ELSE view[k]]
    BY DEF FocusOn
  <1>2. f \in Ids \cup {-1} /\ (f # -1 => f \in Running)
    BY AppsNumbers DEF Running
  <1> HIDE DEF f
  <1>3. Running' = Running /\ Running \subseteq Ids /\ \A k \in Ids : k \in Running <=> state[k] = "RUNNING"
    BY DEF Running
  <1>4. ASSUME NEW k \in Ids PROVE apply_view(k, state, f, g_views_suspended) \in View
    BY DEF apply_view, TypeOK, View
  <1>5. view' \in [Ids -> View]
    BY <1>1, <1>4 DEF TypeOK
  <1>6. ASSUME NEW k \in Running
        PROVE  view'[k] = IF k = f THEN "full" ELSE IF g_views_suspended THEN "none" ELSE "strip"
    <2>1. CASE k \in {g_focused, f}
      BY <1>1, <1>3, <2>1 DEF apply_view
    <2>2. CASE k \notin {g_focused, f}
      BY <1>1, <1>3, <2>2 DEF Shown, Drawn
    <2> QED
      BY <2>1, <2>2
  <1>7. Drawn(f, g_views_suspended, view', Running)
    BY <1>2, <1>6 DEF Drawn
  <1> QED
    BY <1>1, <1>2, <1>3, <1>5, <1>7 DEF Shown

LEMMA Focuses ==
    ASSUME ~Preempts, AppsInv, NEW t \in Tasks, app_view_focus(t)
    PROVE  AppsInv'
  <1>1. ASSUME At(t, "focus"), FocusOn(slot[t]), Return(t), UNCHANGED <<tables, g_views_suspended>>
        PROVE  AppsInv'
    <2>1. /\ \A u \in Tasks \ {t} : pc[u] = "idle"
          /\ pc[t] = "focus" /\ Doing(t) /\ TypeOK /\ MailIsOwn /\ GrantIsOwn
      BY <1>1, Alone
    <2>2. Held(Running, {}, {}, {}) /\ Shown(Running) /\ slot[t] \in Ids
      BY <2>1 DEF Doing, Whole, Starting, TypeOK
    <2>3. Held(Running, {}, {}, {})'
      BY <1>1, <2>2 DEF Held, Running, tables
    <2>4. Shown(Running)' /\ g_focused' \in Ids \cup {-1} /\ view' \in [Ids -> View]
      BY <1>1, <2>1, <2>2, FocusShows DEF tables
    <2>5. TypeOK'
      BY <1>1, <2>1, <2>4, ReturnTyped DEF TypeOK, tables
    <2>6. NothingInherited'
      BY <1>1, <2>1, <2>5, InheritStays DEF tables
    <2> QED
      BY <1>1, <2>1, <2>3, <2>4, <2>6, Settles DEF Pc, Return
  <1>2. ASSUME At(t, "idle"), FocusOn(-1), UNCHANGED <<tables, g_views_suspended, locals>>
        PROVE  AppsInv'
    <2>1. /\ \A u \in Tasks \ {t} : pc[u] = "idle"
          /\ pc[t] = "idle" /\ TypeOK /\ MailIsOwn /\ GrantIsOwn
          /\ Held(Running, {}, {}, {}) /\ Shown(Running)
      BY <1>2, Alone
    <2>2. Held(Running, {}, {}, {})'
      BY <1>2, <2>1 DEF Held, Running, tables
    <2>3. Shown(Running)' /\ g_focused' \in Ids \cup {-1} /\ view' \in [Ids -> View]
      BY <1>2, <2>1, FocusShows DEF tables
    <2>4. TypeOK'
      BY <1>2, <2>1, <2>3 DEF TypeOK, tables, locals
    <2>5. NothingInherited'
      BY <1>2, <2>1, <2>4, InheritStays DEF tables
    <2>6. Goto(t, "idle")
      BY <1>2, <2>1 DEF Goto, TypeOK, locals
    <2> QED
      BY <2>1, <2>2, <2>3, <2>5, <2>6, Settles DEF Pc
  <1> QED
    BY <1>1, <1>2 DEF app_view_focus

LEMMA Suspends ==
    ASSUME ~Preempts, AppsInv, NEW on \in BOOLEAN, app_views_suspend(on)
    PROVE  AppsInv'
  <1>1. /\ "touch" \in Tasks /\ \A u \in Tasks \ {"touch"} : pc[u] = "idle"
        /\ pc["touch"] = "idle" /\ TypeOK /\ MailIsOwn /\ GrantIsOwn
        /\ Held(Running, {}, {}, {}) /\ Shown(Running)
    BY Alone DEF app_views_suspend
  <1>2. /\ g_views_suspended' = on
        /\ view' = [k \in Ids |-> apply_view(k, state, g_focused, on)]
        /\ UNCHANGED <<tables, g_focused, locals>>
    BY DEF app_views_suspend
  <1>3. Held(Running, {}, {}, {})' /\ Running' = Running /\ Running \subseteq Ids
    BY <1>1, <1>2 DEF Held, Running, tables
  <1>4. Shown(Running)'
    <2>1. \A id \in Running : view'[id] = IF id = g_focused THEN "full"
                                          ELSE IF on THEN "none" ELSE "strip"
      BY <1>2 DEF apply_view, Running
    <2>2. Drawn(g_focused, on, view', Running)
      BY <1>1, <2>1 DEF Shown, Drawn
    <2> QED
      BY <1>2, <1>3, <2>2 DEF Shown
  <1>5. view' \in [Ids -> View]
    BY <1>1, <1>2 DEF apply_view, TypeOK, View
  <1>6. TypeOK'
    BY <1>1, <1>2, <1>5 DEF TypeOK, tables, locals
  <1>7. NothingInherited'
    BY <1>1, <1>2, <1>6, InheritStays DEF tables
  <1>8. Goto("touch", "idle")
    BY <1>1, <1>2 DEF Goto, TypeOK, locals
  <1> QED
    BY <1>1, <1>3, <1>4, <1>7, <1>8, Settles DEF Pc
-----------------------------------------------------------------------------
(* Retiring a program.                                                      *)

LEMMA RetireFrees ==
    ASSUME ~Preempts, AppsInv, NEW t \in Tasks, RetireFree(t)
    PROVE  AppsInv'
  <1>1. /\ \A u \in Tasks \ {t} : pc[u] = "idle"
        /\ pc[t] = "free" /\ Doing(t) /\ TypeOK /\ MailIsOwn /\ GrantIsOwn
    BY Alone DEF RetireFree
  <1>2. /\ Held(Running, {}, {}, {}) /\ Shown(Running) /\ slot[t] \in Running
        /\ why[t] # "RUNNING" /\ slot[t] \in Ids
    BY <1>1 DEF Doing, Whole, Starting, Retiring, TypeOK
  <1>3. app_arena[slot[t]] \in Arenas /\ app_arena[slot[t]] >= 0
    <2>1. app_arena[slot[t]] \in InUse(arena)
      BY <1>2 DEF Held, Kept
    <2>2. app_arena[slot[t]] \in Arenas
      BY <2>1 DEF InUse
    <2>3. app_arena[slot[t]] \in Nat
      BY <2>2, AppsNumbers
    <2> QED
      BY <2>2, <2>3
  <1>4. /\ g_focused' = IF g_focused = slot[t] THEN -1 ELSE g_focused
        /\ mem' = mem \ {arena[app_arena[slot[t]]]}
        /\ ar' = [ar EXCEPT ![t] = app_arena[slot[t]]]
        /\ Goto(t, "unbind")
        /\ UNCHANGED <<arena, state, app_arena, vm_base, handler, tenant, box, perms,
                       g_views_suspended, view, slot, mine, prog, why>>
    BY <1>3 DEF RetireFree
  <1>5. Running' = Running /\ Running \in SUBSET Ids
    BY <1>4 DEF Running
  <1>6. TypeOK'
    BY <1>1, <1>3, <1>4 DEF TypeOK, Goto, Pc
  <1>7. /\ pc'[t] = "unbind" /\ slot'[t] = slot[t] /\ slot'[t] \in Running' /\ why'[t] # "RUNNING"
        /\ ar'[t] = app_arena[slot[t]] /\ ar'[t] = app_arena'[slot'[t]]
    BY <1>1, <1>2, <1>4, <1>5 DEF Goto, TypeOK
  <1>8. Held(Running, {}, {ar[t]}, {})'
    <2>1. ArenaTypes(mem, arena, app_arena, vm_base)
      BY <1>1 DEF ArenaTypes, TypeOK
    <2>2. Kept(mem \ {arena[app_arena[slot[t]]]}, arena, app_arena, vm_base, Running, {},
               {app_arena[slot[t]]}, {})
      BY <1>2, <1>5, <2>1, KeptFree DEF Held
    <2> QED
      BY <1>4, <1>5, <1>7, <2>2 DEF Held
  <1>9. Shown(Running \ {slot[t]})'
    <2>1. Drawn(g_focused', g_views_suspended, view, Running \ {slot[t]})
      <3>1. CASE g_focused = slot[t]
        <4>1. g_focused' = -1
          BY <1>4, <3>1
        <4>2. \A id \in Running \ {slot[t]} : id # g_focused /\ id # -1
          BY <1>5, <3>1, AppsNumbers
        <4>3. \A id \in Running \ {slot[t]} : view[id] = IF g_views_suspended THEN "none" ELSE "strip"
          BY <1>2, <4>2 DEF Shown, Drawn
        <4> QED
          BY <4>1, <4>2, <4>3 DEF Drawn
      <3>2. CASE g_focused # slot[t]
        <4>1. g_focused' = g_focused
          BY <1>4, <3>2
        <4> QED
          BY <1>2, <3>2, <4>1 DEF Shown, Drawn
      <3> QED
        BY <3>1, <3>2
    <2> QED
      BY <1>4, <1>5, <1>7, <2>1 DEF Shown
  <1>10. Doing(t)'
    BY <1>7, <1>8, <1>9 DEF Doing, Whole, Starting, Retiring, Fading
  <1>11. NothingInherited'
    BY <1>1, <1>4, <1>6, InheritStays
  <1> QED
    BY <1>1, <1>4, <1>10, <1>11, Settles DEF Pc

LEMMA RetireUnbinds ==
    ASSUME ~Preempts, AppsInv, NEW t \in Tasks, RetireUnbind(t)
    PROVE  AppsInv'
  <1>1. /\ \A u \in Tasks \ {t} : pc[u] = "idle"
        /\ pc[t] = "unbind" /\ Doing(t) /\ TypeOK /\ MailIsOwn /\ GrantIsOwn
    BY Alone DEF RetireUnbind
  <1>2. /\ Held(Running, {}, {ar[t]}, {}) /\ Shown(Running \ {slot[t]}) /\ slot[t] \in Running
        /\ why[t] # "RUNNING" /\ slot[t] \in Ids /\ ar[t] = app_arena[slot[t]]
    BY <1>1 DEF Doing, Whole, Starting, Retiring, TypeOK
  <1>3. /\ arena' = [arena EXCEPT ![ar[t]] = NONE]
        /\ app_arena' = [app_arena EXCEPT ![slot[t]] = -1]
        /\ Goto(t, "clear")
        /\ UNCHANGED <<mem, state, vm_base, handler, tenant, box, perms, views,
                       slot, ar, mine, prog, why>>
    BY DEF RetireUnbind
  <1>4. Running' = Running /\ Running \in SUBSET Ids
    BY <1>3 DEF Running
  <1>5. TypeOK'
    BY <1>1, <1>3 DEF TypeOK, Goto, Pc, views
  <1>6. pc'[t] = "clear" /\ slot'[t] = slot[t] /\ slot'[t] \in Running' /\ why'[t] # "RUNNING"
    BY <1>1, <1>2, <1>3, <1>4 DEF Goto, TypeOK
  <1>7. Held(Running \ {slot[t]}, {}, {}, {})'
    <2>1. ArenaTypes(mem, arena, app_arena, vm_base)
      BY <1>1 DEF ArenaTypes, TypeOK
    <2>2. Kept(mem, arena', app_arena', vm_base, Running \ {slot[t]}, {}, {}, {})
      BY <1>2, <1>3, <1>4, <2>1, KeptUnbind DEF Held
    <2> QED
      BY <1>3, <1>4, <1>6, <2>2 DEF Held
  <1>8. Shown(Running \ {slot[t]})'
    BY <1>2, <1>3, <1>4 DEF Shown, views
  <1>9. Doing(t)'
    BY <1>6, <1>7, <1>8 DEF Doing, Whole, Starting, Retiring, Fading
  <1>10. NothingInherited'
    BY <1>1, <1>3, <1>5, InheritStays
  <1> QED
    BY <1>1, <1>3, <1>9, <1>10, Settles DEF Pc

LEMMA RetireClears ==
    ASSUME ~Preempts, AppsInv, NEW t \in Tasks, RetireClear(t) \/ RetireRevoke(t)
    PROVE  AppsInv'
  <1>1. /\ \A u \in Tasks \ {t} : pc[u] = "idle"
        /\ pc[t] \in {"clear", "revoke"} /\ Doing(t) /\ TypeOK /\ MailIsOwn /\ GrantIsOwn
    BY Alone DEF RetireClear, RetireRevoke
  <1>2. /\ Held(Running \ {slot[t]}, {}, {}, {}) /\ Shown(Running \ {slot[t]})
        /\ slot[t] \in Running /\ why[t] # "RUNNING" /\ slot[t] \in Ids
        /\ pc[t] = "revoke" => box[slot[t]] = NONE
    BY <1>1 DEF Doing, Whole, Starting, Retiring, Fading, TypeOK
  <1>3. UNCHANGED <<mem, arena, state, app_arena, vm_base, handler, tenant, views,
                    slot, ar, mine, prog, why>>
    BY DEF RetireClear, RetireRevoke
  <1>4. /\ Running' = Running /\ slot'[t] \in Running' /\ why'[t] # "RUNNING"
        /\ Held(Running \ {slot[t]}, {}, {}, {})' /\ Shown(Running \ {slot[t]})'
    BY <1>2, <1>3 DEF Running, Held, Shown, views
  <1>5. CASE RetireClear(t)
    <2>1. box' = [box EXCEPT ![slot[t]] = NONE] /\ perms' = perms /\ Goto(t, "revoke")
      BY <1>5 DEF RetireClear
    <2>2. TypeOK'
      BY <1>1, <1>3, <2>1 DEF TypeOK, Goto, Pc, views
    <2>3. pc'[t] = "revoke" /\ box'[slot'[t]] = NONE
      BY <1>1, <1>2, <1>3, <2>1 DEF TypeOK, Goto
    <2>4. Doing(t)'
      BY <1>4, <2>3 DEF Doing, Whole, Starting, Retiring, Fading
    <2>5. MailIsOwn' /\ GrantIsOwn'
      BY <1>1, <1>2, <1>3, <1>4, <2>1 DEF MailIsOwn, GrantIsOwn, TypeOK
    <2> QED
      BY <1>1, <2>1, <2>2, <2>4, <2>5, Settles DEF Pc, NothingInherited
  <1>6. CASE RetireRevoke(t)
    <2>1. perms' = [perms EXCEPT ![slot[t]] = NONE] /\ box' = box /\ Goto(t, "dead")
          /\ pc[t] = "revoke"
      BY <1>6 DEF RetireRevoke, At
    <2>2. TypeOK'
      BY <1>1, <1>3, <2>1 DEF TypeOK, Goto, Pc, views
    <2>3. pc'[t] = "dead" /\ box'[slot'[t]] = NONE /\ perms'[slot'[t]] = NONE
      BY <1>1, <1>2, <1>3, <2>1 DEF TypeOK, Goto
    <2>4. Doing(t)'
      BY <1>4, <2>3 DEF Doing, Whole, Starting, Retiring, Fading
    <2>5. MailIsOwn' /\ GrantIsOwn'
      BY <1>1, <1>2, <1>3, <1>4, <2>1 DEF MailIsOwn, GrantIsOwn, TypeOK
    <2> QED
      BY <1>1, <2>1, <2>2, <2>4, <2>5, Settles DEF Pc, NothingInherited
  <1> QED
    BY <1>5, <1>6

\* The end of a call, or app_tick moving on to the next slot: nothing but locals change.
LEMMA MovesOn ==
    ASSUME TypeOK, NEW t \in Tasks, \A u \in Tasks \ {t} : pc[u] = "idle",
           NothingInherited', Held(Running, {}, {}, {})', Shown(Running)',
           Return(t) \/ (t = "apps" /\ NextSlot)
    PROVE  AppsInv'
  <1>1. CASE Return(t)
    BY <1>1, Settles DEF Pc, Return
  <1>2. CASE t = "apps" /\ NextSlot /\ slot["apps"] + 1 \in Ids
    <2>1. Goto(t, "scan")
      BY <1>2 DEF NextSlot
    <2>2. pc'[t] = "scan"
      BY <2>1 DEF Goto, TypeOK
    <2>3. Doing(t)'
      BY <2>2 DEF Doing, Whole, Starting, Retiring, Fading
    <2> QED
      BY <2>1, <2>3, Settles DEF Pc
  <1> QED
    BY <1>1, <1>2 DEF NextSlot

LEMMA NextSlotTyped ==
    ASSUME TypeOK, NEW t \in Tasks, Return(t) \/ (t = "apps" /\ NextSlot)
    PROVE  /\ pc' \in [Tasks -> Pc] /\ slot' \in [Tasks -> Ids]
           /\ ar' \in [Tasks -> Arenas \cup {-1}]
           /\ mine' \in [Tasks -> Regions \cup Progs \cup {NONE}]
           /\ prog' \in [Tasks -> Progs \cup {NONE}]
           /\ why' \in [Tasks -> AppState]
  <1>1. CASE Return(t)
    BY <1>1, ReturnTyped
  <1>2. CASE t = "apps" /\ NextSlot /\ slot["apps"] + 1 \in Ids
    BY <1>2 DEF NextSlot, TypeOK, Goto, Pc, AppState
  <1> QED
    BY <1>1, <1>2 DEF NextSlot

LEMMA RetiresDead ==
    ASSUME ~Preempts, AppsInv, NEW t \in Tasks, RetireDead(t)
    PROVE  AppsInv'
  <1>1. /\ \A u \in Tasks \ {t} : pc[u] = "idle"
        /\ pc[t] = "dead" /\ Doing(t) /\ TypeOK /\ MailIsOwn /\ GrantIsOwn
    BY Alone DEF RetireDead
  <1>2. /\ Held(Running \ {slot[t]}, {}, {}, {}) /\ Shown(Running \ {slot[t]})
        /\ slot[t] \in Running /\ why[t] # "RUNNING" /\ slot[t] \in Ids
        /\ box[slot[t]] = NONE /\ perms[slot[t]] = NONE
    BY <1>1 DEF Doing, Whole, Starting, Retiring, Fading, TypeOK
  <1>3. /\ state' = [state EXCEPT ![slot[t]] = why[t]]
        /\ Return(t) \/ (t = "apps" /\ NextSlot)
        /\ UNCHANGED <<mem, arena, app_arena, vm_base, handler, tenant, box, perms, views>>
    BY DEF RetireDead
  <1>4. Running' = Running \ {slot[t]}
    BY <1>1, <1>2, <1>3 DEF Running, TypeOK
  <1>5. Held(Running, {}, {}, {})' /\ Shown(Running)'
    BY <1>2, <1>3, <1>4 DEF Held, Shown, views
  <1>6. TypeOK'
    <2>1. state' \in [Ids -> AppState]
      BY <1>1, <1>3 DEF TypeOK
    <2> QED
      BY <1>1, <1>3, <2>1, NextSlotTyped DEF TypeOK, views
  <1>7. MailIsOwn' /\ GrantIsOwn'
    BY <1>1, <1>2, <1>3, <1>4 DEF MailIsOwn, GrantIsOwn
  <1> QED
    BY <1>1, <1>3, <1>5, <1>6, <1>7, MovesOn DEF NothingInherited

LEMMA Kills ==
    ASSUME ~Preempts, AppsInv, NEW t \in Tasks, NEW id \in Ids, app_kill(t, id)
    PROVE  AppsInv'
  <1>1. /\ \A u \in Tasks \ {t} : pc[u] = "idle"
        /\ Held(Running, {}, {}, {}) /\ Shown(Running) /\ TypeOK /\ MailIsOwn /\ GrantIsOwn
    BY Alone DEF app_kill
  <1>2. /\ state[id] = "RUNNING" /\ slot' = [slot EXCEPT ![t] = id]
        /\ why' = [why EXCEPT ![t] = "KILLED"] /\ Goto(t, "free")
        /\ UNCHANGED <<tables, views, ar, mine, prog>>
    BY DEF app_kill
  <1>3. TypeOK'
    BY <1>1, <1>2 DEF TypeOK, Goto, Pc, tables, views, AppState
  <1>4. /\ Held(Running, {}, {}, {})' /\ Shown(Running)' /\ slot'[t] \in Running'
        /\ why'[t] # "RUNNING"
    BY <1>1, <1>2 DEF Held, Shown, Running, tables, views, TypeOK
  <1>5. pc'[t] = "free"
    BY <1>1, <1>2 DEF Goto, TypeOK
  <1>6. Doing(t)'
    BY <1>4, <1>5 DEF Doing, Whole, Starting, Retiring, Fading
  <1>7. NothingInherited'
    BY <1>1, <1>2, <1>3, InheritStays DEF tables
  <1> QED
    BY <1>1, <1>2, <1>6, <1>7, Settles DEF Pc

-----------------------------------------------------------------------------
(* app_tick.                                                                *)

LEMMA TickBegins ==
    ASSUME ~Preempts, AppsInv, TickBegin
    PROVE  AppsInv'
  <1> DEFINE t == "apps"
  <1>0. t \in Tasks
    BY AppsNumbers
  <1>1. /\ \A u \in Tasks \ {t} : pc[u] = "idle"
        /\ Held(Running, {}, {}, {}) /\ Shown(Running) /\ TypeOK /\ MailIsOwn /\ GrantIsOwn
    BY <1>0, Alone DEF TickBegin
  <1>2. Goto(t, "scan") /\ UNCHANGED <<tables, views, slot, ar, mine, prog, why>>
    BY DEF TickBegin
  <1> HIDE DEF t
  <1>3. TypeOK'
    BY <1>0, <1>1, <1>2 DEF TypeOK, Goto, Pc, tables, views
  <1>4. Held(Running, {}, {}, {})' /\ Shown(Running)'
    BY <1>1, <1>2 DEF Held, Shown, Running, tables, views
  <1>5. pc'[t] = "scan"
    BY <1>0, <1>1, <1>2 DEF Goto, TypeOK
  <1>6. Doing(t)'
    BY <1>4, <1>5 DEF Doing, Whole, Starting, Retiring, Fading
  <1>7. NothingInherited'
    BY <1>1, <1>2, <1>3, InheritStays DEF tables
  <1> QED
    BY <1>0, <1>1, <1>2, <1>6, <1>7, Settles DEF Pc

\* The interpreter's loop: the slot scanned, the quantum spent, the program stopped.
LEMMA TickMoves ==
    ASSUME ~Preempts, AppsInv, TickSlot \/ RunEnds
    PROVE  AppsInv'
  <1> DEFINE t == "apps"
  <1>0. t \in Tasks
    BY AppsNumbers
  <1>1. /\ \A u \in Tasks \ {t} : pc[u] = "idle"
        /\ pc[t] \in {"scan", "run"} /\ Doing(t) /\ TypeOK /\ MailIsOwn /\ GrantIsOwn
    BY <1>0, Alone DEF TickSlot, RunEnds
  <1>2. /\ Held(Running, {}, {}, {}) /\ Shown(Running) /\ slot[t] \in Ids
        /\ pc[t] = "run" => slot[t] \in Running
    BY <1>0, <1>1 DEF Doing, Whole, Starting, TypeOK
  <1>3. UNCHANGED <<tables, views>>
    BY DEF TickSlot, RunEnds
  <1>4. Held(Running, {}, {}, {})' /\ Shown(Running)' /\ Running' = Running
    BY <1>2, <1>3 DEF Held, Shown, Running, tables, views
  <1>5. \/ NextSlot
        \/ /\ Goto(t, "run") /\ slot[t] \in Running
           /\ UNCHANGED <<slot, ar, mine, prog, why>>
        \/ /\ \E r \in {"HALTED", "FAULTED"} : why' = [why EXCEPT ![t] = r]
           /\ Goto(t, "free") /\ slot[t] \in Running
           /\ UNCHANGED <<slot, ar, mine, prog>>
    BY <1>2 DEF TickSlot, RunEnds, Running, At
  <1>6. CASE NextSlot
    <2>1. TypeOK'
      BY <1>0, <1>1, <1>3, <1>6, NextSlotTyped DEF TypeOK, tables, views
    <2>2. NothingInherited'
      BY <1>1, <1>3, <2>1, InheritStays DEF tables
    <2> QED
      BY <1>0, <1>1, <1>4, <1>6, <2>2, MovesOn
  <1> HIDE DEF t
  <1>7. CASE Goto(t, "run") /\ slot[t] \in Running /\ UNCHANGED <<slot, ar, mine, prog, why>>
    <2>1. TypeOK'
      BY <1>0, <1>1, <1>3, <1>7 DEF TypeOK, Goto, Pc, tables, views
    <2>2. NothingInherited'
      BY <1>1, <1>3, <2>1, InheritStays DEF tables
    <2>3. pc'[t] = "run" /\ slot'[t] \in Running'
      BY <1>0, <1>1, <1>4, <1>7 DEF Goto, TypeOK
    <2>4. Doing(t)'
      BY <1>4, <2>3 DEF Doing, Whole, Starting, Retiring, Fading
    <2> QED
      BY <1>0, <1>1, <1>7, <2>2, <2>4, Settles DEF Pc
  <1>8. ASSUME NEW r \in {"HALTED", "FAULTED"}, why' = [why EXCEPT ![t] = r],
               Goto(t, "free"), slot[t] \in Running, UNCHANGED <<slot, ar, mine, prog>>
        PROVE  AppsInv'
    <2>1. TypeOK'
      BY <1>0, <1>1, <1>3, <1>8 DEF TypeOK, Goto, Pc, tables, views, AppState
    <2>2. NothingInherited'
      BY <1>1, <1>3, <2>1, InheritStays DEF tables
    <2>3. pc'[t] = "free" /\ slot'[t] \in Running' /\ why'[t] # "RUNNING"
      BY <1>0, <1>1, <1>4, <1>8 DEF Goto, TypeOK
    <2>4. Doing(t)'
      BY <1>4, <2>3 DEF Doing, Whole, Starting, Retiring, Fading
    <2> QED
      BY <1>0, <1>1, <1>8, <2>2, <2>4, Settles DEF Pc
  <1> QED
    BY <1>5, <1>6, <1>7, <1>8

\* What a running program asks of the kernel between two of its steps.
LEMMA RunStays ==
    ASSUME ~Preempts, AppsInv, RunEvent \/ ipc_recv
    PROVE  AppsInv'
  <1> DEFINE t == "apps"
  <1>0. t \in Tasks
    BY AppsNumbers
  <1>1. /\ \A u \in Tasks \ {t} : pc[u] = "idle"
        /\ pc[t] = "run" /\ Doing(t) /\ TypeOK /\ MailIsOwn /\ GrantIsOwn
    BY <1>0, Alone DEF RunEvent, ipc_recv
  <1>2. /\ Held(Running, {}, {}, {}) /\ Shown(Running) /\ slot[t] \in Ids /\ slot[t] \in Running
    BY <1>0, <1>1 DEF Doing, Whole, Starting, TypeOK
  <1>3. UNCHANGED <<mem, arena, state, app_arena, vm_base, tenant, perms, views, locals>>
    BY DEF RunEvent, ipc_recv
  <1>4. Held(Running, {}, {}, {})' /\ Shown(Running)' /\ Running' = Running
    BY <1>2, <1>3 DEF Held, Shown, Running, views
  <1>5. /\ handler' \in [Ids -> Progs \cup {NONE}]
        /\ box' = box \/ box' = [box EXCEPT ![slot[t]] = NONE]
    BY <1>1, <1>2 DEF RunEvent, ipc_recv, TypeOK
  <1>6. Goto(t, "run") /\ pc' = pc /\ slot' = slot /\ why' = why
    BY <1>0, <1>1, <1>3 DEF Goto, locals, TypeOK
  <1> HIDE DEF t
  <1>7. box' \in [Ids -> Progs \cup {NONE}] /\ MailIsOwn'
    BY <1>1, <1>2, <1>3, <1>4, <1>5 DEF MailIsOwn, TypeOK
  <1>8. TypeOK'
    BY <1>1, <1>3, <1>5, <1>7 DEF TypeOK, locals, views
  <1>9. GrantIsOwn'
    BY <1>1, <1>3, <1>4 DEF GrantIsOwn
  <1>10. Doing(t)'
    BY <1>1, <1>2, <1>4, <1>6 DEF Doing, Whole, Starting, Retiring, Fading
  <1> QED
    BY <1>0, <1>1, <1>6, <1>7, <1>8, <1>9, <1>10, Settles DEF Pc, NothingInherited

LEMMA SendChecks ==
    ASSUME ~Preempts, AppsInv, NEW dst \in Ids, SendCheck(dst)
    PROVE  AppsInv'
  <1> DEFINE t == "apps"
  <1>0. t \in Tasks
    BY AppsNumbers
  <1>1. /\ \A u \in Tasks \ {t} : pc[u] = "idle"
        /\ pc[t] = "run" /\ Doing(t) /\ TypeOK /\ MailIsOwn /\ GrantIsOwn
    BY <1>0, Alone DEF SendCheck
  <1>2. /\ Held(Running, {}, {}, {}) /\ Shown(Running) /\ slot[t] \in Ids /\ slot[t] \in Running
    BY <1>0, <1>1 DEF Doing, Whole, Starting, TypeOK
  <1>3. /\ state[dst] = "RUNNING" /\ ar' = [ar EXCEPT ![t] = dst]
        /\ mine' = [mine EXCEPT ![t] = tenant[dst]] /\ Goto(t, "send")
        /\ UNCHANGED <<tables, views, slot, prog, why>>
    BY DEF SendCheck
  <1> HIDE DEF t
  <1>4. Held(Running, {}, {}, {})' /\ Shown(Running)' /\ Running' = Running
    BY <1>2, <1>3 DEF Held, Shown, Running, tables, views
  <1>5. dst \in Arenas /\ tenant[dst] \in Progs \cup {NONE} /\ dst \in Running
    BY <1>1, <1>3, AppsNumbers DEF TypeOK, Running
  <1>6. ar' \in [Tasks -> Arenas \cup {-1}] /\ mine' \in [Tasks -> Regions \cup Progs \cup {NONE}]
    BY <1>0, <1>1, <1>3, <1>5 DEF TypeOK
  <1>7. TypeOK'
    BY <1>0, <1>1, <1>3, <1>6 DEF TypeOK, Goto, Pc, tables, views
  <1>8. /\ pc'[t] = "send" /\ slot'[t] \in Running'
        /\ ar'[t] \in Running' /\ mine'[t] = tenant'[ar'[t]]
    BY <1>0, <1>1, <1>2, <1>3, <1>4, <1>5 DEF TypeOK, Goto, tables
  <1>9. Doing(t)'
    BY <1>4, <1>8 DEF Doing, Whole, Starting, Retiring, Fading
  <1>10. NothingInherited'
    BY <1>1, <1>3, <1>7, InheritStays DEF tables
  <1> QED
    BY <1>0, <1>1, <1>3, <1>9, <1>10, Settles DEF Pc

LEMMA SendStores ==
    ASSUME ~Preempts, AppsInv, SendStore
    PROVE  AppsInv'
  <1> DEFINE t == "apps"
             d == ar[t]
  <1>0. t \in Tasks
    BY AppsNumbers
  <1>1. /\ \A u \in Tasks \ {t} : pc[u] = "idle"
        /\ pc[t] = "send" /\ Doing(t) /\ TypeOK /\ MailIsOwn /\ GrantIsOwn
    BY <1>0, Alone DEF SendStore
  <1>2. /\ Held(Running, {}, {}, {}) /\ Shown(Running) /\ slot[t] \in Ids /\ slot[t] \in Running
        /\ d \in Running /\ mine[t] = tenant[d]
    BY <1>0, <1>1 DEF Doing, Whole, Starting, TypeOK
  <1>3. /\ box' = [box EXCEPT ![d] = IF @ = NONE THEN mine[t] ELSE @]
        /\ ar' = [ar EXCEPT ![t] = -1] /\ mine' = [mine EXCEPT ![t] = NONE] /\ Goto(t, "run")
        /\ UNCHANGED <<mem, arena, state, app_arena, vm_base, handler, tenant, perms, views,
                       slot, prog, why>>
    BY DEF SendStore
  <1> HIDE DEF t, d
  <1>4. Held(Running, {}, {}, {})' /\ Shown(Running)' /\ Running' = Running /\ d \in Ids
    BY <1>2, <1>3 DEF Held, Shown, Running, views
  <1>5. \A id \in Ids : box'[id] = box[id] \/ (id = d /\ box'[id] = tenant[d])
    BY <1>1, <1>2, <1>3, <1>4 DEF TypeOK
  <1>6. box' \in [Ids -> Progs \cup {NONE}]
    <2>1. tenant[d] \in Progs \cup {NONE}
      BY <1>1, <1>4 DEF TypeOK
    <2> QED
      BY <1>1, <1>2, <1>3, <1>4, <2>1 DEF TypeOK
  <1>7. MailIsOwn'
    BY <1>1, <1>2, <1>3, <1>4, <1>5 DEF MailIsOwn
  <1>8. GrantIsOwn'
    BY <1>1, <1>3, <1>4 DEF GrantIsOwn
  <1>9. TypeOK'
    BY <1>0, <1>1, <1>3, <1>6 DEF TypeOK, Goto, Pc, views
  <1>10. pc'[t] = "run" /\ slot'[t] \in Running'
    BY <1>0, <1>1, <1>2, <1>3, <1>4 DEF TypeOK, Goto
  <1>11. Doing(t)'
    BY <1>4, <1>10 DEF Doing, Whole, Starting, Retiring, Fading
  <1> QED
    BY <1>0, <1>1, <1>3, <1>7, <1>8, <1>9, <1>11, Settles DEF Pc, NothingInherited

-----------------------------------------------------------------------------
(* The invariant is inductive, and what follows from it.                    *)

LEMMA AppsInitInv ==
    ASSUME Init
    PROVE  AppsInv
  <1>1. TypeOK
    BY AppsNumbers DEF Init, TypeOK, AppState, View, Pc
  <1>2. Running = {}
    BY DEF Init, Running
  <1>3. MailIsOwn /\ GrantIsOwn
    BY DEF Init, MailIsOwn, GrantIsOwn
  <1>4. \A t \in Tasks : pc[t] = "idle"
    BY DEF Init
  <1>5. PICK r \in Regions : mem = {r} /\ arena = [a \in Arenas |-> IF a = 0 THEN r ELSE NONE]
    BY DEF Init
  <1>6. InUse(arena) = {0} /\ arena[0] = r
    BY <1>5, AppsNumbers DEF InUse
  <1>7. Held({}, {}, {}, {})
    BY <1>5, <1>6 DEF Held, Kept
  <1>8. Shown({})
    BY DEF Init, Shown, Drawn
  <1> QED
    BY <1>1, <1>2, <1>3, <1>4, <1>7, <1>8 DEF AppsInv, NothingInherited

LEMMA AppsStep ==
    ASSUME ~Preempts, AppsInv, [Next]_vars
    PROVE  AppsInv'
  <1>1. ASSUME NEW t \in Launchers, launch_entry(t) \/ app_view_focus(t) PROVE AppsInv'
    <2>1. t \in Tasks
      BY DEF Tasks
    <2> QED
      BY <1>1, <2>1, StartsScan, CreatesScan, CreatesAlloc, CreatesStore, StartsInit, StartsPublish,
         StartsFields, LaunchGrants, Focuses DEF launch_entry
  <1>2. ASSUME NEW t \in Killers, NEW id \in Ids, app_kill(t, id) PROVE AppsInv'
    BY <1>2, Kills DEF Tasks
  <1>3. ASSUME NEW t \in Tasks, retire(t) PROVE AppsInv'
    BY <1>3, RetireFrees, RetireUnbinds, RetireClears, RetiresDead DEF retire
  <1>4. ASSUME NEW on \in BOOLEAN, app_views_suspend(on) PROVE AppsInv'
    BY <1>4, Suspends
  <1>5. ASSUME app_tick PROVE AppsInv'
    BY <1>5, TickBegins, TickMoves, RunStays, SendChecks, SendStores DEF app_tick
  <1>6. ASSUME UNCHANGED vars PROVE AppsInv'
    <2>1. /\ UNCHANGED <<mem, arena, state, app_arena, vm_base, handler, tenant, box, perms>>
          /\ UNCHANGED <<g_focused, g_views_suspended, view, pc, slot, ar, mine, prog, why>>
      BY <1>6 DEF vars, tables, views, locals
    <2>2. TypeOK' /\ MailIsOwn' /\ GrantIsOwn'
      BY <2>1 DEF AppsInv, NothingInherited, TypeOK, MailIsOwn, GrantIsOwn, Running
    <2>3. Running' = Running /\ Quiet' = Quiet
      BY <2>1 DEF Running, Quiet
    <2>4. ASSUME NEW t \in Tasks, Doing(t) PROVE Doing(t)'
      BY <2>1, <2>3, <2>4 DEF Doing, Held, Shown, Whole, Starting, Retiring, Fading
    <2>5. Held(Running, {}, {}, {})' = Held(Running, {}, {}, {}) /\ Shown(Running)' = Shown(Running)
      BY <2>1, <2>3 DEF Held, Shown
    <2> QED
      BY <2>1, <2>2, <2>3, <2>4, <2>5 DEF AppsInv, NothingInherited
  <1> QED
    BY <1>1, <1>2, <1>3, <1>4, <1>5, <1>6 DEF Next

LEMMA AppsInvariant ==
    ASSUME ~Preempts
    PROVE  Spec => []AppsInv
  <1>1. Init => AppsInv
    BY AppsInitInv
  <1>2. AppsInv /\ [Next]_vars => AppsInv'
    BY AppsStep
  <1> QED
    BY <1>1, <1>2, PTL DEF Spec

\* Between calls the arenas in use are the kernel's and one for each running program, and the
\* heap holds no other block (retire, arena_create, arena_destroy), for any number of slots,
\* arenas and blocks.
THEOREM ArenasStayAccounted ==
    ASSUME ~Preempts
    PROVE  Spec => []ArenasAccounted
  <1>1. AppsInv => ArenasAccounted
    <2> SUFFICES ASSUME AppsInv, Quiet PROVE
            /\ \A i, j \in Running : i # j => app_arena[i] # app_arena[j]
            /\ {a \in Arenas : arena[a] # NONE} = {0} \cup {app_arena[id] : id \in Running}
            /\ mem = {arena[a] : a \in {a \in Arenas : arena[a] # NONE}}
      BY DEF ArenasAccounted
    <2>1. Kept(mem, arena, app_arena, vm_base, Running, {}, {}, {}) /\ TypeOK
      BY DEF AppsInv, Held, NothingInherited
    <2>2. \A i, j \in Running : i # j => app_arena[i] # app_arena[j]
      BY <2>1 DEF Kept
    <2>3. InUse(arena) = {0} \cup {app_arena[id] : id \in Running}
      BY <2>1 DEF Kept
    <2>4. mem = {arena[a] : a \in InUse(arena)}
      <3>1. \A a \in InUse(arena) : arena[a] \in Regions
        BY <2>1 DEF InUse, TypeOK
      <3> QED
        BY <2>1, <3>1 DEF Kept, TypeOK
    <2> QED
      BY <2>2, <2>3, <2>4 DEF InUse
  <1> QED
    BY <1>1, AppsInvariant, PTL

\* The interpreter only runs a program in memory the heap has given to it and to no other
\* running program, and never in the kernel's arena (app_start, arena_bounds, retire).
THEOREM ProgramsRunInOwnMemory ==
    ASSUME ~Preempts
    PROVE  Spec => []RunsInOwnMemory
  <1>1. AppsInv => RunsInOwnMemory
    <2> SUFFICES ASSUME AppsInv, pc["apps"] \in {"run", "send"} PROVE
            LET id == slot["apps"] IN
            /\ vm_base[id] \in mem /\ vm_base[id] # arena[0]
            /\ \A j \in Running \ {id} : vm_base[j] # vm_base[id]
      BY DEF RunsInOwnMemory
    <2> DEFINE id == slot["apps"]
    <2>1. /\ Kept(mem, arena, app_arena, vm_base, Running, {}, {}, {}) /\ id \in Running /\ TypeOK
      BY AppsNumbers DEF AppsInv, Doing, Whole, Held, NothingInherited
    <2> HIDE DEF id
    <2>2. \A a \in InUse(arena) : arena[a] \in Regions
      BY <2>1 DEF InUse, TypeOK
    <2>3. vm_base[id] \in mem /\ vm_base[id] # arena[0]
      BY <2>1, <2>2 DEF Kept
    <2>4. \A j \in Running \ {id} : vm_base[j] # vm_base[id]
      BY <2>1 DEF Kept
    <2> QED
      BY <2>3, <2>4 DEF id
  <1> QED
    BY <1>1, AppsInvariant, PTL

\* A slot's mail and grants are those of the program that runs in it now, however the last
\* one ended (ipc_send, ipc_clear, retire).
THEOREM NothingIsInherited ==
    ASSUME ~Preempts
    PROVE  Spec => []NothingInherited
  <1>1. AppsInv => NothingInherited
    BY DEF AppsInv
  <1> QED
    BY <1>1, AppsInvariant, PTL

\* Between calls each running program draws exactly where the focus and the suspension say, and
\* the focus is with a running program (apply_view, app_view_focus, app_views_suspend, retire).
THEOREM ViewsStayAgreed ==
    ASSUME ~Preempts
    PROVE  Spec => []ViewsAgree
  <1>1. AppsInv => ViewsAgree
    BY DEF AppsInv, ViewsAgree, Shown, Drawn
  <1> QED
    BY <1>1, AppsInvariant, PTL

-----------------------------------------------------------------------------
(* The pages (Browser.tla).                                                 *)

\* The two recursive functions of the model exist: one goes up the document, the other
\* down from the end of the text.
TurnsOf(s, f, n) ==
    f = [k \in 0 .. n |-> IF k = 0 THEN <<Empty, 0>> ELSE html_turn(f[k - 1][1], f[k - 1][2], s[k])]

LEMMA TurnsExist ==
    ASSUME NEW s, NEW n \in Nat
    PROVE  \E f : TurnsOf(s, f, n)
  <1> DEFINE S == {k \in Nat : \E f : TurnsOf(s, f, k)}
  <1>1. 0 \in S
    <2> DEFINE f == [k \in 0 .. 0 |-> <<Empty, 0>>]
    <2>1. TurnsOf(s, f, 0)
      BY DEF TurnsOf
    <2> QED
      BY <2>1
  <1>2. ASSUME NEW k \in Nat, k \in S PROVE k + 1 \in S
    <2>1. PICK f : TurnsOf(s, f, k)
      BY <1>2
    <2> DEFINE x == html_turn(f[k][1], f[k][2], s[k + 1])
               g == [j \in 0 .. k + 1 |-> IF j = k + 1 THEN x ELSE f[j]]
    <2>2. ASSUME NEW j \in 0 .. k + 1
          PROVE  g[j] = IF j = 0 THEN <<Empty, 0>> ELSE html_turn(g[j - 1][1], g[j - 1][2], s[j])
      <3>1. CASE j = k + 1
        <4>1. j - 1 = k /\ k \in 0 .. k + 1 /\ k # k + 1 /\ j # 0
          BY <3>1
        <4>2. g[j - 1] = f[k] /\ g[j] = x
          BY <3>1, <4>1
        <4> HIDE DEF g
        <4> QED
          BY <3>1, <4>1, <4>2
      <3>2. CASE j # k + 1
        <4>1. j \in 0 .. k
          BY <3>2
        <4>2. g[j] = f[j] /\ (j # 0 => j - 1 \in 0 .. k /\ g[j - 1] = f[j - 1])
          BY <4>1
        <4>3. f[j] = IF j = 0 THEN <<Empty, 0>> ELSE html_turn(f[j - 1][1], f[j - 1][2], s[j])
          BY <2>1, <4>1 DEF TurnsOf
        <4> HIDE DEF g
        <4> QED
          BY <4>2, <4>3
      <3> QED
        BY <3>1, <3>2
    <2>3. TurnsOf(s, g, k + 1)
      <3>1. g = [j \in 0 .. k + 1 |-> g[j]]
        OBVIOUS
      <3> HIDE DEF g
      <3>2. g = [j \in 0 .. k + 1 |-> IF j = 0 THEN <<Empty, 0>> ELSE html_turn(g[j - 1][1], g[j - 1][2], s[j])]
        BY <2>2, <3>1, Zenon
      <3> QED
        BY <3>2 DEF TurnsOf
    <2> QED
      BY <2>3
  <1> HIDE DEF S
  <1>3. Nat \subseteq S
    BY <1>1, <1>2, SetInduction
  <1> QED
    BY <1>3 DEF S

LEMMA TurnedIs ==
    ASSUME NEW s, Len(s) \in Nat
    PROVE  TurnsOf(s, Turned(s), Len(s))
  <1>1. \E f : TurnsOf(s, f, Len(s))
    BY TurnsExist
  <1>2. Turned(s) = CHOOSE f : TurnsOf(s, f, Len(s))
    BY DEF Turned, TurnsOf
  <1> QED
    BY <1>1, <1>2, Zenon

LEMMA GreatestOf ==
    ASSUME NEW n \in Nat, NEW T, T \subseteq 0 .. n, T # {}
    PROVE  \E x \in T : \A y \in T : y <= x
  <1> DEFINE D == {n - y : y \in T}
  <1>1. D \subseteq Nat /\ D # {}
    <2>1. \A y \in T : n - y \in Nat
      <3> TAKE y \in T
      <3>1. y \in 0 .. n
        OBVIOUS
      <3> QED
        BY <3>1
    <2> QED
      BY <2>1
  <1> HIDE DEF D
  <1>2. PICK d \in D : \A y \in D : d <= y
    BY <1>1, LeastNat
  <1> USE DEF D
  <1>3. PICK x \in T : d = n - x
    BY <1>2
  <1>4. ASSUME NEW y \in T PROVE y <= x
    <2>1. d <= n - y
      BY <1>2
    <2> QED
      BY <1>3, <2>1
  <1> QED
    BY <1>4

-----------------------------------------------------------------------------
(* Rows.                                                                    *)

Chars == {"x", "sp", "nl"}
Rows == [a : Nat, b : Nat, next : Nat]

\* A row begins where it was asked to, fits, and leaves out at most one blank or break
\* before the next.
RowIs(t, i, w) ==
    /\ w \in Rows /\ w.a = i /\ i <= w.b /\ w.b <= Len(t) /\ w.b - i <= COLS
    /\ w.next \in i + 1 .. Len(t)
    /\ w.next = w.b \/ (w.next = w.b + 1 /\ t[w.b + 1] # "x")

LEMMA WrapIs ==
    ASSUME NEW t \in Seq(Chars), NEW i \in 0 .. Len(t) - 1
    PROVE  RowIs(t, i, wrap_one(t, i))
  <1> DEFINE n == Len(t)
             stop == {e \in i .. n : e = n \/ e - i = COLS \/ t[e + 1] = "nl"}
             e == CHOOSE x \in stop : \A y \in stop : x <= y
             spaces == {k \in (i + 1) .. (e - 1) : t[k + 1] = "sp"}
             cuts == e < n /\ t[e + 1] # "nl" /\ e - i = COLS /\ spaces # {}
             cut == IF cuts THEN CHOOSE k \in spaces : \A j \in spaces : j <= k ELSE e
             w == [a |-> i, b |-> cut, next |-> IF cut < n /\ t[cut + 1] \in {"nl", "sp"} THEN cut + 1 ELSE cut]
  <1>1. wrap_one(t, i) = w
    BY DEF wrap_one
  <1>2. n \in Nat /\ i \in Nat /\ i < n /\ COLS \in Nat /\ COLS > 0
    BY BrowserAssumption, LenProperties
  <1>3. e \in stop /\ \A y \in stop : e <= y
    <2>1. stop \subseteq Nat /\ n \in stop
      BY <1>2
    <2>2. \E x \in stop : \A y \in stop : x <= y
      <3> HIDE DEF stop
      <3> QED
        BY <2>1, LeastNat
    <2> HIDE DEF stop
    <2> QED
      BY <2>2, Zenon
  <1>4. /\ e \in i .. n /\ e - i <= COLS
        /\ e = n \/ e - i = COLS \/ t[e + 1] = "nl"
    <2>1. e \in i .. n /\ (e = n \/ e - i = COLS \/ t[e + 1] = "nl")
      BY <1>3
    <2>2. i + COLS <= n => i + COLS \in stop
      BY <1>2
    <2>3. i + COLS <= n => e <= i + COLS
      BY <1>3, <2>2
    <2> HIDE DEF e, stop
    <2> QED
      BY <1>2, <2>1, <2>3
  <1>5. cuts => cut \in (i + 1) .. (e - 1)
    <2> SUFFICES ASSUME cuts PROVE cut \in spaces
      OBVIOUS
    <2> HIDE DEF stop, e
    <2>1. spaces \subseteq 0 .. n /\ spaces # {}
      <3>1. spaces # {}
        OBVIOUS
      <3>2. \A k \in (i + 1) .. (e - 1) : k \in 0 .. n
        BY <1>2, <1>4
      <3> QED
        BY <3>1, <3>2
    <2> DEFINE c == CHOOSE k \in spaces : \A j \in spaces : j <= k
    <2>2. cut = c
      OBVIOUS
    <2> HIDE DEF spaces, cuts
    <2>3. \E k \in spaces : \A j \in spaces : j <= k
      BY <1>2, <2>1, GreatestOf
    <2>4. c \in spaces
      BY <2>3, Zenon
    <2> QED
      BY <2>2, <2>4
  <1>6. ~cuts => cut = e
    OBVIOUS
  <1> HIDE DEF stop, e, spaces, cuts, cut
  <1>7. cut \in i .. n /\ cut - i <= COLS /\ (cut = i => t[cut + 1] = "nl" /\ cut < n)
    BY <1>2, <1>4, <1>5, <1>6
  <1>8. w.next \in i + 1 .. n /\ (w.next = cut \/ (w.next = cut + 1 /\ t[cut + 1] # "x"))
    BY <1>2, <1>7
  <1> QED
    BY <1>1, <1>2, <1>7, <1>8 DEF RowIs, Rows

RowsOf(t, f, m) ==
    f = [i \in m .. Len(t) |-> IF i = Len(t) THEN << >> ELSE <<wrap_one(t, i)>> \o f[wrap_one(t, i).next]]

LEMMA RowsExist ==
    ASSUME NEW t \in Seq(Chars)
    PROVE  \E f : RowsOf(t, f, 0)
  <1> DEFINE n == Len(t)
             S == {k \in Nat : k <= n => \E f : RowsOf(t, f, n - k)}
  <1>0. n \in Nat
    BY LenProperties
  <1>1. 0 \in S
    <2> DEFINE f == [i \in n .. n |-> << >>]
    <2>1. RowsOf(t, f, n)
      BY <1>0 DEF RowsOf
    <2>2. n - 0 = n
      BY <1>0
    <2> QED
      BY <2>1, <2>2
  <1>2. ASSUME NEW k \in Nat, k \in S PROVE k + 1 \in S
    <2> SUFFICES ASSUME k + 1 <= n PROVE \E f : RowsOf(t, f, n - (k + 1))
      OBVIOUS
    <2> DEFINE m == n - k
               l == n - (k + 1)
    <2>1. m \in Nat /\ l \in Nat /\ m = l + 1 /\ l <= n - 1 /\ m <= n
      BY <1>0
    <2>2. PICK f : RowsOf(t, f, m)
      BY <1>0, <1>2
    <2> HIDE DEF m, l
    <2> DEFINE x == <<wrap_one(t, l)>> \o f[wrap_one(t, l).next]
               g == [i \in l .. n |-> IF i = l THEN x ELSE f[i]]
               Def(i) == IF i = n THEN << >> ELSE <<wrap_one(t, i)>> \o g[wrap_one(t, i).next]
    <2>3. ASSUME NEW i \in l .. n PROVE g[i] = Def(i)
      <3>1. CASE i = l
        <4>1. RowIs(t, l, wrap_one(t, l)) /\ l # n
          BY <1>0, <2>1, WrapIs
        <4>2. wrap_one(t, l).next \in l + 1 .. n
          BY <4>1 DEF RowIs
        <4>3. g[wrap_one(t, l).next] = f[wrap_one(t, l).next]
          BY <1>0, <2>1, <4>2
        <4>4. g[l] = x
          BY <2>1, <3>1
        <4> HIDE DEF g
        <4> QED
          BY <3>1, <4>1, <4>3, <4>4
      <3>2. CASE i # l
        <4>1. i \in m .. n
          BY <1>0, <2>1, <3>2
        <4>2. g[i] = f[i]
          BY <3>2
        <4>3. f[i] = IF i = n THEN << >> ELSE <<wrap_one(t, i)>> \o f[wrap_one(t, i).next]
          BY <2>2, <4>1 DEF RowsOf
        <4>4. i # n => g[wrap_one(t, i).next] = f[wrap_one(t, i).next]
          <5> SUFFICES ASSUME i # n PROVE g[wrap_one(t, i).next] = f[wrap_one(t, i).next]
            OBVIOUS
          <5>1. i \in 0 .. n - 1
            BY <1>0, <2>1, <4>1
          <5>2. wrap_one(t, i).next \in i + 1 .. n
            BY <5>1, WrapIs DEF RowIs
          <5> QED
            BY <1>0, <2>1, <4>1, <5>2
        <4> HIDE DEF g
        <4> QED
          BY <4>2, <4>3, <4>4
      <3> QED
        BY <3>1, <3>2
    <2>4. RowsOf(t, g, l)
      <3>1. g = [i \in l .. n |-> g[i]]
        OBVIOUS
      <3> HIDE DEF g
      <3>2. g = [i \in l .. n |-> Def(i)]
        BY <2>3, <3>1, Zenon
      <3> QED
        BY <3>2 DEF RowsOf
    <2> QED
      BY <2>4 DEF l
  <1> HIDE DEF S
  <1>3. Nat \subseteq S
    BY <1>1, <1>2, SetInduction
  <1>4. n \in S /\ n - n = 0 /\ n <= n
    BY <1>0, <1>3
  <1> QED
    BY <1>4 DEF S

LEMMA RowsFromIs ==
    ASSUME NEW t \in Seq(Chars)
    PROVE  RowsOf(t, RowsFrom(t), 0)
  <1>1. \E f : RowsOf(t, f, 0)
    BY RowsExist
  <1>2. RowsFrom(t) = CHOOSE f : RowsOf(t, f, 0)
    BY DEF RowsFrom, RowsOf
  <1> QED
    BY <1>1, <1>2, Zenon

\* From offset i on, every row fits and every letter is in one of them.
Over(rows, r, k) == rows[r].a < k /\ k <= rows[r].b
InOneRow(rows, k) == \E r \in 1 .. Len(rows) : Over(rows, r, k) /\ \A q \in 1 .. Len(rows) : Over(rows, q, k) => q = r
RowsGood(t, i, rows) ==
    /\ rows \in Seq(Rows)
    /\ \A r \in 1 .. Len(rows) : rows[r].a >= i /\ rows[r].b - rows[r].a <= COLS
    /\ \A k \in i + 1 .. Len(t) : t[k] = "x" => InOneRow(rows, k)

LEMMA RowBefore ==
    ASSUME NEW t \in Seq(Chars), NEW i \in 0 .. Len(t) - 1, NEW w, RowIs(t, i, w), NEW rest, RowsGood(t, w.next, rest)
    PROVE  RowsGood(t, i, <<w>> \o rest)
  <1> DEFINE rows == <<w>> \o rest
             n == Len(t)
             x == w.next
  <1>0. n \in Nat /\ COLS \in Nat /\ i \in Nat /\ x \in Nat /\ x > i /\ x <= n /\ w \in Rows /\ w.a = i /\ w.b \in Nat
    BY BrowserAssumption, LenProperties DEF RowIs, Rows
  <1>1. rest \in Seq(Rows) /\ Len(rest) \in Nat
    BY LenProperties DEF RowsGood
  <1>2. <<w>> \in Seq(Rows) /\ Len(<<w>>) = 1 /\ <<w>>[1] = w
    BY <1>0
  <1>3. rows \in Seq(Rows) /\ Len(rows) = 1 + Len(rest) /\ rows[1] = w /\ \A r \in 2 .. Len(rows) : rows[r] = rest[r - 1]
    <2>1. rows \in Seq(Rows) /\ Len(rows) = 1 + Len(rest)
      BY <1>1, <1>2, ConcatProperties
    <2>2. \A r \in 1 .. 1 + Len(rest) : rows[r] = IF r <= 1 THEN <<w>>[r] ELSE rest[r - 1]
      BY <1>1, <1>2, ConcatProperties
    <2> HIDE DEF rows
    <2>3. rows[1] = w
      BY <1>1, <1>2, <2>2
    <2>4. ASSUME NEW r \in 2 .. Len(rows) PROVE rows[r] = rest[r - 1]
      BY <1>1, <2>1, <2>2
    <2> QED
      BY <2>1, <2>3, <2>4
  <1> HIDE DEF rows, x, n
  <1>4. ASSUME NEW r \in 2 .. Len(rows)
        PROVE  r - 1 \in 1 .. Len(rest) /\ rows[r] = rest[r - 1] /\ rest[r - 1].a \in Nat /\ rest[r - 1].b \in Nat
               /\ rest[r - 1].a >= x /\ rest[r - 1].b - rest[r - 1].a <= COLS
    <2>1. r - 1 \in 1 .. Len(rest)
      BY <1>1, <1>3
    <2>2. rest[r - 1] \in Rows
      BY <1>1, <2>1, ElementOfSeq
    <2> QED
      BY <1>3, <2>1, <2>2 DEF RowsGood, Rows, x
  <1>5. ASSUME NEW r \in 1 .. Len(rows) PROVE rows[r].a >= i /\ rows[r].b - rows[r].a <= COLS
    <2>1. CASE r = 1
      BY <1>0, <1>3, <2>1 DEF RowIs
    <2>2. CASE r # 1
      <3>1. r \in 2 .. Len(rows)
        BY <2>2
      <3>2. rows[r].a \in Nat /\ rows[r].a >= x /\ rows[r].b - rows[r].a <= COLS
        BY <1>4, <3>1
      <3> QED
        BY <1>0, <3>2
    <2> QED
      BY <2>1, <2>2
  <1>6. ASSUME NEW k \in i + 1 .. n, t[k] = "x" PROVE InOneRow(rows, k)
    <2>0. k \in Nat /\ i < k /\ k <= n /\ 1 \in 1 .. Len(rows)
      BY <1>0, <1>1, <1>3
    <2>1. CASE k <= w.b
      <3>1. Over(rows, 1, k)
        BY <1>0, <1>3, <2>0, <2>1 DEF Over
      <3>2. ASSUME NEW q \in 1 .. Len(rows), Over(rows, q, k) PROVE q = 1
        <4>1. SUFFICES ASSUME q # 1 PROVE FALSE
          OBVIOUS
        <4>2. q \in 2 .. Len(rows)
          BY <4>1
        <4>3. rows[q].a >= x /\ rows[q].a \in Nat /\ x >= w.b /\ rows[q].a < k
          <5>1. rows[q].a >= x /\ rows[q].a \in Nat
            BY <1>4, <4>2
          <5>2. rows[q].a < k
            BY <3>2 DEF Over
          <5>3. x >= w.b
            BY <1>0 DEF RowIs, x
          <5> QED
            BY <5>1, <5>2, <5>3
        <4> QED
          BY <1>0, <2>0, <2>1, <4>3
      <3> QED
        BY <2>0, <3>1, <3>2 DEF InOneRow
    <2>2. CASE k > w.b
      <3>1. k \in x + 1 .. n
        <4>1. k # x \/ x = w.b
          BY <1>0, <1>6 DEF RowIs, x
        <4>2. x = w.b \/ x = w.b + 1
          BY DEF RowIs, x
        <4> QED
          BY <1>0, <2>0, <2>2, <4>1, <4>2
      <3>2. PICK r \in 1 .. Len(rest) : Over(rest, r, k) /\ \A q \in 1 .. Len(rest) : Over(rest, q, k) => q = r
        BY <1>6, <3>1 DEF RowsGood, InOneRow, x, n
      <3>3. r + 1 \in 2 .. Len(rows) /\ r + 1 \in 1 .. Len(rows) /\ (r + 1) - 1 = r
        BY <1>1, <1>3
      <3>4. Over(rows, r + 1, k)
        BY <1>4, <3>2, <3>3 DEF Over
      <3>5. ASSUME NEW q \in 1 .. Len(rows), Over(rows, q, k) PROVE q = r + 1
        <4>1. q # 1
          BY <1>0, <1>3, <2>0, <2>2, <3>5 DEF Over
        <4>2. q \in 2 .. Len(rows)
          BY <4>1
        <4>3. q - 1 \in 1 .. Len(rest) /\ Over(rest, q - 1, k)
          BY <1>4, <3>5, <4>2 DEF Over
        <4>4. q - 1 = r
          BY <3>2, <4>3
        <4> QED
          BY <4>2, <4>4
      <3> QED
        BY <3>3, <3>4, <3>5 DEF InOneRow
    <2> QED
      BY <1>0, <2>0, <2>1, <2>2
  <1> QED
    BY <1>3, <1>5, <1>6 DEF RowsGood, rows, n

LEMMA LayoutIsGood ==
    ASSUME NEW t \in Seq(Chars)
    PROVE  RowsGood(t, 0, Layout(t))
  <1> DEFINE n == Len(t)
             f == RowsFrom(t)
             S == {k \in Nat : \A m \in 0 .. n : n - m <= k => RowsGood(t, m, f[m])}
  <1>0. n \in Nat
    BY LenProperties
  <1>1. ASSUME NEW m \in 0 .. n PROVE f[m] = IF m = n THEN << >> ELSE <<wrap_one(t, m)>> \o f[wrap_one(t, m).next]
    BY RowsFromIs DEF RowsOf
  <1> HIDE DEF f
  <1>5. RowsGood(t, n, f[n])
    <2>1. f[n] = << >>
      <3>1. n \in 0 .. n
        BY <1>0
      <3> HIDE DEF n
      <3> QED
        BY <1>1, <3>1
    <2>2. RowsGood(t, n, << >>)
      <3>1. << >> \in Seq(Rows) /\ Len(<< >>) = 0
        OBVIOUS
      <3>2. ~ \E k \in n + 1 .. n : TRUE
        BY <1>0
      <3> QED
        BY <1>0, <3>1, <3>2 DEF RowsGood
    <2> QED
      BY <2>1, <2>2
  <1>2. 0 \in S
    <2> SUFFICES ASSUME NEW m \in 0 .. n, n - m <= 0 PROVE RowsGood(t, m, f[m])
      OBVIOUS
    <2>1. m = n
      BY <1>0
    <2> QED
      BY <1>5, <2>1
  <1>3. ASSUME NEW k \in Nat, k \in S PROVE k + 1 \in S
    <2> SUFFICES ASSUME NEW m \in 0 .. n, n - m <= k + 1 PROVE RowsGood(t, m, f[m])
      OBVIOUS
    <2>1. CASE m = n
      BY <1>5, <2>1
    <2>2. CASE m # n
      <3> DEFINE w == wrap_one(t, m)
      <3>1. m \in 0 .. n - 1
        BY <1>0, <2>2
      <3>2. RowIs(t, m, w)
        BY <3>1, WrapIs
      <3>3. w.next \in m + 1 .. n
        BY <3>2 DEF RowIs
      <3>4. w.next \in 0 .. n /\ n - w.next <= k
        BY <1>0, <3>1, <3>3
      <3>5. RowsGood(t, w.next, f[w.next])
        BY <1>3, <3>4
      <3>6. f[m] = <<w>> \o f[w.next]
        BY <1>1, <2>2
      <3> HIDE DEF w
      <3> QED
        BY <3>1, <3>2, <3>5, <3>6, RowBefore
    <2> QED
      BY <2>1, <2>2
  <1> HIDE DEF S
  <1>4. n \in S /\ 0 \in 0 .. n /\ n - 0 <= n
    <2>1. Nat \subseteq S
      BY <1>2, <1>3, SetInduction
    <2> QED
      BY <1>0, <2>1
  <1>6. RowsGood(t, 0, f[0])
    BY <1>4 DEF S
  <1> QED
    BY <1>6 DEF Layout, f

LEMMA SubSeqIs ==
    ASSUME NEW s, NEW m \in Int, NEW n \in Int
    PROVE  /\ Len(SubSeq(s, m, n)) \in Nat
           /\ Len(SubSeq(s, m, n)) = IF m <= n THEN n - m + 1 ELSE 0
           /\ \A i \in 1 .. n - m + 1 : SubSeq(s, m, n)[i] = s[m + i - 1]
           /\ \A S : (\A i \in m .. n : s[i] \in S) => SubSeq(s, m, n) \in Seq(S)
  <1> DEFINE V == {s[i] : i \in m .. n}
  <1>1. \A i \in m .. n : s[i] \in V
    OBVIOUS
  <1> HIDE DEF V
  <1>2. /\ SubSeq(s, m, n) \in Seq(V)
        /\ Len(SubSeq(s, m, n)) = IF m <= n THEN n - m + 1 ELSE 0
        /\ \A i \in 1 .. n - m + 1 : SubSeq(s, m, n)[i] = s[m + i - 1]
    BY <1>1, SubSeqProperties
  <1>3. Len(SubSeq(s, m, n)) \in Nat
    BY <1>2, LenProperties
  <1>4. ASSUME NEW S, \A i \in m .. n : s[i] \in S PROVE SubSeq(s, m, n) \in Seq(S)
    BY <1>4, SubSeqProperties
  <1> QED
    BY <1>2, <1>3, <1>4

-----------------------------------------------------------------------------
(* The reader.                                                              *)

\* No break comes after a blank or another break.
BreaksApart(t) == \A k \in 2 .. Len(t) : t[k] = "nl" => t[k - 1] \notin {"sp", "nl"}
TextGood(t) == t \in Seq(Chars) /\ BreaksApart(t)
ReaderFields == {"text", "links", "dropped", "lost"}
ReaderShape(h) == h = [f \in ReaderFields |-> h[f]]
ReaderGood(h) == ReaderShape(h) /\ TextGood(h.text)

LEMMA LastIs ==
    ASSUME NEW t \in Seq(Chars)
    PROVE  /\ Len(t) \in Nat
           /\ Len(t) = 0 => last(t) = "none"
           /\ Len(t) # 0 => last(t) = t[Len(t)] /\ t[Len(t)] \in Chars
  <1>1. Len(t) \in Nat /\ (t = << >> <=> Len(t) = 0)
    BY LenProperties, EmptySeq
  <1>2. Len(t) # 0 => t[Len(t)] \in Chars
    <2> SUFFICES ASSUME Len(t) # 0 PROVE Len(t) \in 1 .. Len(t)
      BY ElementOfSeq
    <2> QED
      BY <1>1
  <1> QED
    BY <1>1, <1>2 DEF last

LEMMA AppendGood ==
    ASSUME NEW t, TextGood(t), NEW c \in Chars, c = "nl" => last(t) \notin {"sp", "nl"}
    PROVE  TextGood(Append(t, c))
  <1> DEFINE u == Append(t, c)
             n == Len(t)
  <1>1. t \in Seq(Chars) /\ n \in Nat
    BY LenProperties DEF TextGood
  <1>2. u \in Seq(Chars) /\ Len(u) = n + 1 /\ u[n + 1] = c /\ \A i \in 1 .. n : u[i] = t[i]
    BY <1>1, AppendProperties
  <1> HIDE DEF u, n
  <1>3. ASSUME NEW k \in 2 .. n + 1, u[k] = "nl" PROVE u[k - 1] \notin {"sp", "nl"}
    <2>1. CASE k = n + 1
      <3>1. n # 0 /\ k - 1 = n /\ n \in 1 .. n
        BY <1>1, <2>1
      <3>2. last(t) = t[n]
        BY <1>1, <3>1, LastIs DEF n
      <3> QED
        BY <1>2, <1>3, <2>1, <3>1, <3>2
    <2>2. CASE k # n + 1
      <3>1. k \in 2 .. n /\ k - 1 \in 1 .. n /\ k \in 1 .. n
        BY <1>1, <2>2
      <3> QED
        BY <1>2, <1>3, <3>1 DEF TextGood, BreaksApart, n
    <2> QED
      BY <2>1, <2>2
  <1> QED
    BY <1>2, <1>3 DEF TextGood, BreaksApart, u

LEMMA TrimIs ==
    ASSUME NEW t, TextGood(t), NEW blanks, "none" \notin blanks
    PROVE  TextGood(Trimmed(t, blanks)) /\ last(Trimmed(t, blanks)) \notin blanks
  <1> DEFINE n == Len(t)
             kept == {k \in 1 .. n : t[k] \notin blanks}
             m == IF kept = {} THEN 0 ELSE CHOOSE k \in kept : \A j \in kept : j <= k
             u == SubSeq(t, 1, m)
  <1>1. t \in Seq(Chars) /\ n \in Nat
    BY LenProperties DEF TextGood
  <1>2. Trimmed(t, blanks) = u
    BY DEF Trimmed
  <1>3. kept # {} => m \in kept
    <2>1. kept \subseteq 0 .. n
      BY <1>1
    <2> HIDE DEF kept
    <2>2. kept # {} => \E k \in kept : \A j \in kept : j <= k
      BY <1>1, <2>1, GreatestOf
    <2> QED
      BY <2>2, Zenon
  <1>4. kept = {} => m = 0
    OBVIOUS
  <1> HIDE DEF m
  <1>5. m \in 0 .. n /\ (m # 0 => t[m] \notin blanks)
    BY <1>1, <1>3, <1>4
  <1>6. \A i \in 1 .. m : t[i] \in Chars
    <2> TAKE i \in 1 .. m
    <2>1. i \in 1 .. n
      BY <1>1, <1>5
    <2> QED
      BY <1>1, <2>1, ElementOfSeq
  <1>7. /\ u \in Seq(Chars) /\ Len(u) = m
        /\ \A i \in 1 .. m : u[i] = t[i]
    <2>1. /\ Len(u) = IF 1 <= m THEN m - 1 + 1 ELSE 0
          /\ \A i \in 1 .. m - 1 + 1 : u[i] = t[1 + i - 1]
          /\ u \in Seq(Chars)
      BY <1>5, <1>6, SubSeqIs
    <2> HIDE DEF u
    <2>2. m - 1 + 1 = m /\ \A i \in 1 .. m : 1 + i - 1 = i
      BY <1>5
    <2> QED
      BY <1>5, <2>1, <2>2
  <1> HIDE DEF u
  <1>8. BreaksApart(u)
    <2> SUFFICES ASSUME NEW k \in 2 .. m, u[k] = "nl" PROVE u[k - 1] \notin {"sp", "nl"}
      BY <1>7 DEF BreaksApart
    <2>1. k \in 2 .. n /\ k \in 1 .. m /\ k - 1 \in 1 .. m
      BY <1>1, <1>5
    <2> QED
      BY <1>7, <2>1 DEF TextGood, BreaksApart, n
  <1>9. last(u) \notin blanks
    <2>1. CASE m = 0
      BY <1>7, <2>1, LastIs
    <2>2. CASE m # 0
      <3>1. last(u) = u[m] /\ m \in 1 .. m
        BY <1>5, <1>7, <2>2, LastIs
      <3> QED
        BY <1>5, <1>7, <2>2, <3>1
    <2> QED
      BY <2>1, <2>2
  <1> QED
    BY <1>2, <1>7, <1>8, <1>9 DEF TextGood

\* A new text in a reader.
LEMMA WithText ==
    ASSUME NEW h, ReaderGood(h), NEW t, TextGood(t)
    PROVE  ReaderGood([h EXCEPT !.text = t]) /\ [h EXCEPT !.text = t].text = t
  <1>1. [h EXCEPT !.text = t] = [f \in ReaderFields |-> IF f = "text" THEN t ELSE h[f]]
    BY DEF ReaderGood, ReaderShape, ReaderFields
  <1> DEFINE g == [h EXCEPT !.text = t]
  <1>2. g.text = t /\ ReaderShape(g)
    BY <1>1 DEF ReaderShape, ReaderFields
  <1> QED
    BY <1>2 DEF ReaderGood

\* Something else of it.
LEMMA WithoutText ==
    ASSUME NEW h, ReaderGood(h), NEW x
    PROVE  /\ ReaderGood([h EXCEPT !.links = x]) /\ ReaderGood([h EXCEPT !.lost = x])
           /\ ReaderGood([h EXCEPT !.dropped = x])
  <1> DEFINE With(f, v) == [g \in ReaderFields |-> IF g = f THEN v ELSE h[g]]
  <1>1. /\ [h EXCEPT !.links = x] = With("links", x) /\ [h EXCEPT !.lost = x] = With("lost", x)
        /\ [h EXCEPT !.dropped = x] = With("dropped", x)
    BY DEF ReaderGood, ReaderShape, ReaderFields
  <1>2. ASSUME NEW f \in {"links", "lost", "dropped"} PROVE ReaderGood(With(f, x))
    <2>1. With(f, x).text = h.text
      BY DEF ReaderFields
    <2>2. ReaderShape(With(f, x))
      BY DEF ReaderShape
    <2> HIDE DEF With
    <2> QED
      BY <2>1, <2>2 DEF ReaderGood
  <1> HIDE DEF With
  <1> QED
    BY <1>1, <1>2

LEMMA PutsCh ==
    ASSUME NEW h, ReaderGood(h), NEW c \in Chars, c = "nl" => last(h.text) \notin {"sp", "nl"}
    PROVE  ReaderGood(put_ch(h, c))
  <1>1. TextGood(Append(h.text, c))
    BY AppendGood DEF ReaderGood
  <1>2. ReaderGood([h EXCEPT !.text = Append(h.text, c)]) /\ ReaderGood([h EXCEPT !.dropped = h.dropped + 1])
    BY <1>1, WithText, WithoutText
  <1> QED
    BY <1>2 DEF put_ch

LEMMA PutsSpace ==
    ASSUME NEW h, ReaderGood(h)
    PROVE  ReaderGood(put_space(h))
  <1>1. "sp" \in Chars /\ "sp" # "nl"
    BY DEF Chars
  <1> QED
    BY <1>1, PutsCh DEF put_space

LEMMA PutsBreak ==
    ASSUME NEW h, ReaderGood(h)
    PROVE  ReaderGood(put_break(h))
  <1> DEFINE t == Trimmed(h.text, {"sp"})
             g == [h EXCEPT !.text = t]
  <1>1. TextGood(t) /\ last(t) \notin {"sp"}
    BY TrimIs DEF ReaderGood
  <1> HIDE DEF t
  <1>2. ReaderGood(g) /\ g.text = t
    BY <1>1, WithText
  <1>3. put_break(h) = IF last(g.text) \in {"none", "nl"} THEN g ELSE put_ch(g, "nl")
    BY DEF put_break, t
  <1> HIDE DEF g
  <1>4. "nl" \in Chars
    BY DEF Chars
  <1> QED
    BY <1>1, <1>2, <1>3, <1>4, PutsCh

LEMMA OpensLink ==
    ASSUME NEW h, ReaderGood(h), NEW r
    PROVE  ReaderGood(OpenLink(h, r))
  BY WithoutText DEF OpenLink

LEMMA ClosesLink ==
    ASSUME NEW h, ReaderGood(h), NEW open
    PROVE  ReaderGood(CloseLink(h, open))
  <1> DEFINE l == [h.links EXCEPT ![open].end = Len(h.text)]
             g == [h EXCEPT !.links = l]
  <1>1. ReaderGood(g)
    <2> HIDE DEF l
    <2> QED
      BY WithoutText
  <1>2. g = [h EXCEPT !.links[open].end = Len(h.text)]
    OBVIOUS
  <1> HIDE DEF l, g
  <1>3. ReaderGood([g EXCEPT !.links = SubSeq(g.links, 1, open - 1)])
    BY <1>1, WithoutText
  <1> QED
    BY <1>1, <1>2, <1>3 DEF CloseLink

LEMMA TurnGood ==
    ASSUME NEW h, ReaderGood(h), NEW open, NEW tok
    PROVE  ReaderGood(html_turn(h, open, tok)[1])
  <1>1. /\ ReaderGood(OpenLink(h, tok)) /\ ReaderGood(CloseLink(h, open)) /\ ReaderGood(put_space(h))
        /\ ReaderGood(put_break(h))
    BY OpensLink, ClosesLink, PutsSpace, PutsBreak
  <1>2. ReaderGood(put_ch(h, "x")) /\ ReaderGood(put_ch(h, "sp"))
    <2>1. "x" \in Chars /\ "sp" \in Chars /\ "x" # "nl" /\ "sp" # "nl"
      BY DEF Chars
    <2> QED
      BY <2>1, PutsCh
  <1>3. CASE tok \in Refs
    <2>1. html_turn(h, open, tok)[1] = OpenLink(h, tok)
      BY <1>3 DEF html_turn, Refs
    <2> QED
      BY <1>1, <2>1
  <1>4. CASE tok \notin Refs
    <2>1. html_turn(h, open, tok)[1] \in {h, CloseLink(h, open), put_ch(h, "x"), put_space(h), put_ch(h, "sp"), put_break(h)}
      <3>1. CASE tok = "/a"
        BY <1>4, <3>1 DEF html_turn
      <3>2. CASE tok = "x"
        BY <1>4, <3>2 DEF html_turn
      <3>3. CASE tok \in {"sp", "blank", "b"}
        BY <1>4, <3>3 DEF html_turn
      <3>4. CASE tok = "nbsp"
        BY <1>4, <3>4 DEF html_turn
      <3>5. CASE tok \in {"br", "script"}
        BY <1>4, <3>5 DEF html_turn
      <3>6. CASE tok \notin {"/a", "x", "sp", "blank", "b", "nbsp", "br", "script"}
        BY <1>4, <3>6 DEF html_turn
      <3> QED
        BY <3>1, <3>2, <3>3, <3>4, <3>5, <3>6
    <2> QED
      BY <1>1, <1>2, <2>1
  <1> QED
    BY <1>3, <1>4

LEMMA EndsGood ==
    ASSUME NEW h, ReaderGood(h), NEW open
    PROVE  ReaderGood(html_ends(h, open))
  <1> DEFINE l == [h.links EXCEPT ![open].end = Len(h.text)]
             g == IF open = 0 THEN h ELSE [h EXCEPT !.links = l]
             t == Trimmed(g.text, {"sp", "nl"})
  <1>1. ReaderGood(g)
    <2> HIDE DEF l
    <2> QED
      BY WithoutText
  <1>2. html_ends(h, open) = [g EXCEPT !.text = t]
    BY DEF html_ends
  <1> HIDE DEF g
  <1>3. TextGood(t)
    BY <1>1, TrimIs DEF ReaderGood
  <1> HIDE DEF t
  <1> QED
    BY <1>1, <1>2, <1>3, WithText

LEMMA EmptyGood == ReaderGood(Empty)
  <1>1. << >> \in Seq(Chars) /\ Len(<< >>) = 0
    OBVIOUS
  <1>2. TextGood(<< >>)
    BY <1>1 DEF TextGood, BreaksApart
  <1>3. Empty.text = << >> /\ ReaderShape(Empty)
    BY DEF Empty, ReaderShape, ReaderFields
  <1> QED
    BY <1>2, <1>3 DEF ReaderGood

LEMMA HeadersSkipped ==
    ASSUME NEW s, Len(s) \in Nat
    PROVE  Len(skip_headers(s)) \in Nat
  <1> DEFINE blank == {k \in 1 .. Len(s) : s[k] = "blank"}
             c == CHOOSE k \in blank : \A j \in blank : k <= j
  <1>1. skip_headers(s) = IF blank = {} THEN s ELSE SubSeq(s, c + 1, Len(s))
    BY DEF skip_headers
  <1>2. blank # {} => c \in Int
    <2>1. blank \subseteq Nat
      OBVIOUS
    <2> HIDE DEF blank
    <2>2. blank # {} => \E k \in blank : \A j \in blank : k <= j
      BY <2>1, LeastNat
    <2>3. blank # {} => c \in blank
      BY <2>2, Zenon
    <2> HIDE DEF c
    <2>4. \A k \in blank : k \in Int
      BY <2>1
    <2> QED
      BY <2>3, <2>4
  <1> HIDE DEF blank, c
  <1>3. blank # {} => Len(SubSeq(s, c + 1, Len(s))) \in Nat
    <2> SUFFICES ASSUME blank # {} PROVE Len(SubSeq(s, c + 1, Len(s))) \in Nat
      OBVIOUS
    <2>1. c + 1 \in Int /\ Len(s) \in Int
      BY <1>2
    <2> QED
      BY <2>1, SubSeqIs
  <1> QED
    BY <1>1, <1>3

LEMMA RenderGood ==
    ASSUME NEW src, Len(src) \in Nat
    PROVE  ReaderGood(html_render(src))
  <1> DEFINE s == skip_headers(src)
             n == Len(s)
             f == Turned(s)
             S == {k \in Nat : k <= n => ReaderGood(f[k][1])}
  <1>0. n \in Nat
    BY HeadersSkipped
  <1>1. ASSUME NEW k \in 0 .. n
        PROVE  f[k] = IF k = 0 THEN <<Empty, 0>> ELSE html_turn(f[k - 1][1], f[k - 1][2], s[k])
    BY <1>0, TurnedIs DEF TurnsOf
  <1>2. html_render(src) = html_ends(f[n][1], f[n][2])
    BY DEF html_render
  <1> HIDE DEF f, n, s
  <1>3. 0 \in S
    <2>1. f[0] = <<Empty, 0>>
      BY <1>0, <1>1
    <2>2. f[0][1] = Empty
      BY <2>1
    <2> QED
      BY <2>2, EmptyGood
  <1>4. ASSUME NEW k \in Nat, k \in S PROVE k + 1 \in S
    <2> SUFFICES ASSUME k + 1 <= n PROVE ReaderGood(f[k + 1][1])
      OBVIOUS
    <2>1. k + 1 \in 0 .. n /\ k + 1 # 0 /\ (k + 1) - 1 = k /\ k <= n
      BY <1>0
    <2>2. f[k + 1] = html_turn(f[k][1], f[k][2], s[k + 1])
      BY <1>1, <2>1
    <2>3. ReaderGood(f[k][1])
      BY <1>4, <2>1
    <2> QED
      BY <2>2, <2>3, TurnGood
  <1> HIDE DEF S
  <1>5. n \in S
    BY <1>0, <1>3, <1>4, SetInduction
  <1>6. ReaderGood(f[n][1])
    BY <1>0, <1>5 DEF S
  <1> QED
    BY <1>2, <1>6, EndsGood

-----------------------------------------------------------------------------
(* The view.                                                                *)

\* What a place of the panel maps back to is what is drawn there, once everything that
\* changed has been drawn; and the link selected is the one the first tap saw.
ShownKept ==
    e_frame = "rest" /\ e_dirty = FALSE /\ e_edit = FALSE =>
      \A row \in 1 .. Len(e_rows), col \in 0 .. COLS - 1 :
        HitAt(row, col) # 0 => e_shown[row][col] = e_html.links[HitAt(row, col)].href
SelectedKept == e_sel # 0 /\ e_frame # "rendered" => h_first = e_html.links[e_sel].href
ViewTyped ==
    /\ e_len \in Nat /\ e_scroll \in Nat /\ Len(e_rows) \in Nat
    /\ e_raw \in BOOLEAN /\ e_edit \in BOOLEAN /\ e_dirty \in BOOLEAN
    /\ e_frame \in {"rest", "rendered", "draw"}

BrowserInv == ViewTyped /\ ReaderGood(e_html) /\ ShownKept /\ SelectedKept /\ h_astray = FALSE

LEMMA TextNowIs ==
    ASSUME NEW h, ReaderGood(h), e_len \in Nat
    PROVE  TextNow(h) \in Seq(Chars)
  <1>1. RawText(e_len) \in Seq(Chars)
    <2>1. \A k \in 1 .. e_len : "x" \in Chars
      BY DEF Chars
    <2> QED
      BY <2>1, SeqDef DEF RawText
  <1> QED
    BY <1>1 DEF TextNow, ReaderGood, TextGood

LEMMA LayoutIs ==
    ASSUME NEW h, ReaderGood(h), e_len \in Nat, e_scroll \in Nat
    PROVE  Len(Visible(TextNow(h), e_scroll)) \in Nat /\ max_scroll(h) \in Nat
  <1> DEFINE t == TextNow(h)
             all == Layout(t)
  <1>1. Len(all) \in Nat
    <2>1. all \in Seq(Rows)
      BY TextNowIs, LayoutIsGood DEF RowsGood
    <2> HIDE DEF all
    <2> QED
      BY <2>1, LenProperties
  <1>2. ROWS \in Nat
    BY BrowserAssumption
  <1>3. max_scroll(h) = IF Len(all) > ROWS THEN Len(all) - ROWS ELSE 0
    BY DEF max_scroll
  <1>4. Visible(t, e_scroll) = SubSeq(all, e_scroll + 1, IF e_scroll + ROWS < Len(all) THEN e_scroll + ROWS ELSE Len(all))
    BY DEF Visible
  <1> HIDE DEF all, t
  <1>5. max_scroll(h) \in Nat
    BY <1>1, <1>2, <1>3
  <1> DEFINE n == IF e_scroll + ROWS < Len(all) THEN e_scroll + ROWS ELSE Len(all)
  <1>6. n \in Int /\ e_scroll + 1 \in Int
    BY <1>1, <1>2
  <1> HIDE DEF n
  <1>7. Len(SubSeq(all, e_scroll + 1, n)) \in Nat
    BY <1>6, SubSeqIs
  <1> QED
    BY <1>4, <1>5, <1>7 DEF n, t

LEMMA HalfIsNat == ROWS \div 2 \in Nat
  <1>1. ROWS \in Nat
    BY BrowserAssumption
  <1>2. \A r \in Nat : r \div 2 \in Nat
    OBVIOUS
  <1> QED
    BY <1>1, <1>2

\* Where the view, the text and the panel stay, so does what they have in common.
LEMMA SamePage ==
    ASSUME BrowserInv, ViewTyped', e_html' = e_html, h_astray' = h_astray,
           e_dirty' = TRUE \/ (e_frame' = e_frame /\ e_dirty' = e_dirty /\ e_edit' = e_edit /\ e_rows' = e_rows /\ e_shown' = e_shown /\ e_raw' = e_raw),
           e_sel' = 0 \/ (e_sel' = e_sel /\ h_first' = h_first /\ e_frame' = e_frame)
    PROVE  BrowserInv'
  <1>1. ReaderGood(e_html') /\ h_astray' = FALSE
    BY DEF BrowserInv
  <1>2. ShownKept'
    <2>1. CASE e_dirty' = TRUE
      BY <2>1 DEF ShownKept
    <2>2. CASE e_frame' = e_frame /\ e_dirty' = e_dirty /\ e_edit' = e_edit /\ e_rows' = e_rows /\ e_shown' = e_shown /\ e_raw' = e_raw
      BY <2>2 DEF BrowserInv, ShownKept, HitAt
    <2> QED
      BY <2>1, <2>2
  <1>3. SelectedKept'
    BY DEF BrowserInv, SelectedKept
  <1> QED
    BY <1>1, <1>2, <1>3 DEF BrowserInv

LEMMA FetchKept ==
    ASSUME BrowserInv, browser_fetch \/ webfetch_brings
    PROVE  BrowserInv'
  <1>1. /\ e_html' = e_html /\ e_sel' = e_sel /\ h_first' = h_first /\ h_astray' = h_astray /\ e_dirty' = e_dirty
        /\ e_frame' = e_frame /\ e_rows' = e_rows /\ e_shown' = e_shown /\ e_raw' = e_raw /\ e_edit' = e_edit
    BY DEF browser_fetch, webfetch_brings, htmlVs, viewVs, drawVs
  <1>2. e_len' \in Nat /\ e_scroll' \in Nat
    <2>1. e_len \in Nat /\ e_scroll \in Nat
      BY DEF BrowserInv, ViewTyped
    <2>2. CASE browser_fetch
      BY <2>1, <2>2 DEF browser_fetch
    <2>3. CASE webfetch_brings
      <3>1. \A n \in (e_len + 1) .. Len(e_body) : n \in Nat
        BY <2>1
      <3>2. e_len' \in (e_len + 1) .. Len(e_body) \/ e_len' = e_len
        BY <2>3 DEF webfetch_brings
      <3>3. e_scroll' = e_scroll
        BY <2>3 DEF webfetch_brings, viewVs
      <3> QED
        BY <2>1, <3>1, <3>2, <3>3
    <2> QED
      BY <2>2, <2>3
  <1>3. ViewTyped'
    BY <1>1, <1>2 DEF BrowserInv, ViewTyped
  <1> QED
    BY <1>1, <1>3, SamePage

LEMMA RendersKept ==
    ASSUME BrowserInv, frame_renders
    PROVE  BrowserInv'
  <1>1. /\ e_frame' = IF Stale THEN "rendered" ELSE "draw"
        /\ e_html' = IF Stale THEN html_render(SubSeq(e_body, 1, e_len)) ELSE e_html
        /\ e_sel' = e_sel /\ h_first' = h_first /\ h_astray' = h_astray /\ e_frame = "rest"
        /\ e_len' = e_len /\ e_scroll' = e_scroll /\ e_rows' = e_rows /\ e_raw' = e_raw /\ e_edit' = e_edit /\ e_dirty' = e_dirty
    BY DEF frame_renders, fetchVs2
  <1>2. ReaderGood(html_render(SubSeq(e_body, 1, e_len)))
    <2>1. e_len \in Int /\ 1 \in Int
      BY DEF BrowserInv, ViewTyped
    <2> QED
      BY <2>1, SubSeqIs, RenderGood
  <1>3. ReaderGood(e_html')
    BY <1>1, <1>2 DEF BrowserInv
  <1>4. ViewTyped'
    BY <1>1 DEF BrowserInv, ViewTyped
  <1>5. ShownKept' /\ SelectedKept'
    BY <1>1 DEF BrowserInv, ShownKept, SelectedKept
  <1> QED
    BY <1>1, <1>3, <1>4, <1>5 DEF BrowserInv

LEMMA UnselectsKept ==
    ASSUME BrowserInv, frame_unselects
    PROVE  BrowserInv'
  <1>1. /\ e_frame' = "draw" /\ e_sel' = 0 /\ e_html' = e_html /\ h_astray' = h_astray
        /\ e_len' = e_len /\ e_scroll' = e_scroll /\ e_rows' = e_rows /\ e_raw' = e_raw /\ e_edit' = e_edit /\ e_dirty' = e_dirty
    BY DEF frame_unselects, Reselected, htmlVs, fetchVs2
  <1>2. ViewTyped' /\ ShownKept' /\ SelectedKept'
    BY <1>1 DEF BrowserInv, ViewTyped, ShownKept, SelectedKept
  <1> QED
    BY <1>1, <1>2 DEF BrowserInv

LEMMA DrawsKept ==
    ASSUME BrowserInv, frame_draws
    PROVE  BrowserInv'
  <1>1. /\ e_frame = "draw" /\ e_frame' = "rest" /\ e_dirty' = FALSE /\ e_sel' = e_sel /\ e_html' = e_html
        /\ h_astray' = h_astray /\ h_first' = h_first
        /\ e_len' = e_len /\ e_scroll' = e_scroll /\ e_raw' = e_raw /\ e_edit' = e_edit
        /\ IF e_edit THEN e_rows' = e_rows /\ e_shown' = e_shown ELSE draw_text(e_html)
    BY DEF frame_draws, htmlVs, fetchVs2
  <1>2. SelectedKept' /\ ReaderGood(e_html')
    BY <1>1 DEF BrowserInv, SelectedKept
  <1>3. CASE e_edit
    <2>1. e_edit' = TRUE /\ e_rows' = e_rows
      BY <1>1, <1>3 DEF BrowserInv, ViewTyped
    <2>2. ViewTyped' /\ ShownKept'
      BY <1>1, <2>1 DEF BrowserInv, ViewTyped, ShownKept
    <2> QED
      BY <1>1, <1>2, <2>2 DEF BrowserInv
  <1>4. CASE ~e_edit
    <2> DEFINE rows == Visible(TextNow(e_html), e_scroll)
    <2>1. e_rows' = rows /\ e_shown' = LinksDrawn(e_html, rows)
      BY <1>1, <1>4 DEF draw_text
    <2>2. Len(rows) \in Nat
      BY LayoutIs DEF BrowserInv, ViewTyped
    <2> HIDE DEF rows
    <2>3. ViewTyped'
      BY <1>1, <2>1, <2>2 DEF BrowserInv, ViewTyped
    <2>4. ASSUME NEW row \in 1 .. Len(rows), NEW col \in 0 .. COLS - 1, HitAt(row, col)' # 0
          PROVE  e_shown'[row][col] = e_html.links[HitAt(row, col)'].href
      <3> DEFINE k == html_link_at(e_html, rows[row].a + col)
      <3>1. HitAt(row, col)' = IF e_raw \/ row > Len(rows) \/ rows[row].a + col >= rows[row].b THEN 0 ELSE k
        BY <1>1, <2>1 DEF HitAt
      <3>2. e_shown'[row][col] = IF e_raw \/ rows[row].a + col >= rows[row].b \/ k = 0 THEN "none" ELSE e_html.links[k].href
        BY <2>1 DEF LinksDrawn
      <3> HIDE DEF k
      <3> QED
        BY <2>4, <3>1, <3>2
    <2>5. ShownKept'
      BY <1>1, <2>1, <2>4 DEF ShownKept
    <2> QED
      BY <1>1, <1>2, <2>3, <2>5 DEF BrowserInv
  <1> QED
    BY <1>3, <1>4

LEMMA TouchKept ==
    ASSUME BrowserInv, touch_editing \/ touch_url_row \/ browser_goto \/ browser_open
    PROVE  BrowserInv'
  <1>1. /\ e_html' = e_html /\ h_astray' = h_astray /\ e_dirty' = TRUE /\ e_frame' = e_frame /\ e_len' = e_len /\ e_rows' = e_rows
    BY DEF touch_editing, touch_url_row, browser_goto, browser_open, htmlVs, fetchVs2, drawVs
  <1>2. e_scroll' \in {e_scroll, 0} /\ e_raw' \in {e_raw, ~e_raw} /\ e_edit' \in {e_edit, TRUE, FALSE}
    BY DEF touch_editing, touch_url_row, browser_goto, browser_open
  <1>3. e_sel' = 0 \/ (e_sel' = e_sel /\ h_first' = h_first)
    <2>1. CASE touch_editing \/ browser_open
      BY <2>1 DEF touch_editing, browser_open
    <2>2. CASE touch_url_row
      BY <2>2 DEF touch_url_row, Forgets
    <2>3. CASE browser_goto
      BY <2>3 DEF browser_goto
    <2> QED
      BY <2>1, <2>2, <2>3
  <1>4. ViewTyped'
    <2>1. ViewTyped
      BY DEF BrowserInv
    <2>2. e_scroll' \in Nat
      BY <1>2, <2>1 DEF ViewTyped
    <2>3. e_raw' \in BOOLEAN
      BY <1>2, <2>1 DEF ViewTyped
    <2>4. e_edit' \in BOOLEAN
      BY <1>2, <2>1 DEF ViewTyped
    <2> QED
      BY <1>1, <2>1, <2>2, <2>3, <2>4 DEF ViewTyped
  <1> QED
    BY <1>1, <1>3, <1>4, SamePage

LEMMA ScrollKept ==
    ASSUME BrowserInv, NEW row, NEW col, touch_scroll(row, col)
    PROVE  BrowserInv'
  <1>1. /\ e_html' = e_html /\ h_astray' = h_astray /\ e_dirty' = TRUE /\ e_frame' = e_frame /\ e_len' = e_len /\ e_rows' = e_rows
        /\ e_sel' = 0 /\ e_raw' = e_raw /\ e_edit' = e_edit
    BY DEF touch_scroll, htmlVs, fetchVs2, drawVs
  <1>2. e_scroll' \in Nat
    <2> DEFINE m == max_scroll(e_html)
               half == ROWS \div 2
    <2>1. e_scroll' = IF 2 * row > ROWS THEN (IF e_scroll + half > m THEN m ELSE e_scroll + half)
                      ELSE IF e_scroll >= half THEN e_scroll - half ELSE 0
      BY DEF touch_scroll
    <2>2. m \in Nat /\ half \in Nat /\ e_scroll \in Nat
      BY LayoutIs, HalfIsNat DEF BrowserInv, ViewTyped
    <2> HIDE DEF m, half
    <2>3. \A a, b, c \in Nat : a + b \in Nat /\ (a >= b => a - b \in Nat)
      OBVIOUS
    <2> QED
      BY <2>1, <2>2, <2>3
  <1>3. ViewTyped'
    BY <1>1, <1>2 DEF BrowserInv, ViewTyped
  <1> QED
    BY <1>1, <1>3, SamePage

LEMMA LinkKept ==
    ASSUME ~TapsOutrunFrames, BrowserInv, NEW row \in 1 .. ROWS, NEW col \in 0 .. COLS - 1, touch_link(row, col)
    PROVE  BrowserInv'
  <1> DEFINE hit == HitAt(row, col)
             ref == e_html.links[hit].href
  <1>1. /\ e_html' = e_html /\ e_dirty' = TRUE /\ e_frame' = e_frame /\ e_len' = e_len /\ e_rows' = e_rows
        /\ e_raw' = e_raw /\ e_edit' = e_edit /\ e_scroll' = e_scroll
    BY DEF touch_link, htmlVs, fetchVs2, drawVs
  <1>2. e_frame = "rest" /\ e_dirty = FALSE /\ e_edit = FALSE
    BY DEF touch_link, MayTap, BrowserInv, ViewTyped
  <1>3. hit # 0 /\ row \in 1 .. Len(e_rows)
    <2>1. Len(e_rows) \in Nat /\ ROWS \in Nat
      BY BrowserAssumption DEF BrowserInv, ViewTyped
    <2>2. hit # 0 /\ row <= Len(e_rows)
      BY DEF touch_link
    <2> QED
      BY <2>1, <2>2
  <1>4. e_shown[row][col] = ref
    BY <1>2, <1>3 DEF BrowserInv, ShownKept
  <1>5. ViewTyped' /\ ShownKept' /\ ReaderGood(e_html')
    BY <1>1 DEF BrowserInv, ViewTyped, ShownKept
  <1>6. CASE hit # e_sel
    <2>1. e_sel' = hit /\ h_first' = e_shown[row][col] /\ h_astray' = h_astray
      BY <1>6 DEF touch_link
    <2>2. SelectedKept'
      BY <1>1, <1>4, <2>1 DEF SelectedKept
    <2> QED
      BY <1>5, <2>1, <2>2 DEF BrowserInv
  <1>7. CASE hit = e_sel
    <2>1. /\ e_sel' = 0 \/ e_sel' = e_sel
          /\ h_astray' = (h_astray \/ e_shown[row][col] # ref \/ h_first # ref) /\ Forgets
      BY <1>7 DEF touch_link
    <2>2. h_first = ref
      BY <1>2, <1>3, <1>7 DEF BrowserInv, SelectedKept
    <2>3. h_astray' = FALSE
      BY <1>4, <2>1, <2>2 DEF BrowserInv
    <2>4. SelectedKept'
      BY <1>1, <2>1 DEF SelectedKept, BrowserInv, Forgets
    <2> QED
      BY <1>5, <2>3, <2>4 DEF BrowserInv
  <1> QED
    BY <1>6, <1>7

LEMMA BrowserStep ==
    ASSUME ~TapsOutrunFrames, BrowserInv, [BrowserNext]_browserVars
    PROVE  BrowserInv'
  <1>1. CASE browser_fetch \/ webfetch_brings
    BY <1>1, FetchKept
  <1>2. CASE frame_renders
    BY <1>2, RendersKept
  <1>3. CASE frame_unselects
    BY <1>3, UnselectsKept
  <1>4. CASE frame_draws
    BY <1>4, DrawsKept
  <1>5. CASE touch_editing \/ touch_url_row \/ browser_goto \/ browser_open
    BY <1>5, TouchKept
  <1>6. CASE \E row \in 1 .. ROWS, col \in 0 .. COLS - 1 : touch_link(row, col) \/ touch_scroll(row, col)
    BY <1>6, LinkKept, ScrollKept
  <1>7. CASE UNCHANGED browserVars
    BY <1>7 DEF browserVars, htmlVs, fetchVs2, viewVs, drawVs, BrowserInv, ViewTyped, ShownKept, SelectedKept, HitAt
  <1> QED
    BY <1>1, <1>2, <1>3, <1>4, <1>5, <1>6, <1>7 DEF BrowserNext

LEMMA HtmlStep ==
    ASSUME ReaderGood(e_html), h_astray = FALSE, [html_reads]_browserVars
    PROVE  ReaderGood(e_html') /\ h_astray' = FALSE
  <1>1. CASE html_reads
    BY <1>1, TurnGood DEF html_reads
  <1>2. CASE UNCHANGED browserVars
    BY <1>2 DEF browserVars, htmlVs
  <1> QED
    BY <1>1, <1>2

LEMMA BrowserStarts ==
    ASSUME BrowserInit
    PROVE  BrowserInv
  <1>1. /\ e_html = Empty /\ e_len = 0 /\ e_scroll = 0 /\ e_raw = FALSE /\ e_edit = FALSE /\ e_dirty = FALSE
        /\ e_frame = "rest" /\ e_rows = << >> /\ e_sel = 0 /\ h_astray = FALSE
    BY DEF BrowserInit
  <1>2. Len(e_rows) = 0
    BY <1>1
  <1>3. ViewTyped /\ SelectedKept
    BY <1>1, <1>2 DEF ViewTyped, SelectedKept
  <1>4. ShownKept
    BY <1>2 DEF ShownKept
  <1> QED
    BY <1>1, <1>3, <1>4, EmptyGood DEF BrowserInv

LEMMA PageReads ==
    ASSUME ReaderGood(e_html)
    PROVE  PageIsReadable
  <1> DEFINE page == html_ends(e_html, e_open)
             t == page.text
             rows == Layout(t)
  <1>1. t \in Seq(Chars) /\ BreaksApart(t)
    BY EndsGood DEF ReaderGood, TextGood
  <1> HIDE DEF page, t
  <1>2. RowsGood(t, 0, rows)
    BY <1>1, LayoutIsGood
  <1> HIDE DEF rows
  <1>3. ASSUME NEW k \in 1 .. Len(t), t[k] = "x"
        PROVE  Cardinality({r \in 1 .. Len(rows) : rows[r].a < k /\ k <= rows[r].b}) = 1
    <2>1. k \in 0 + 1 .. Len(t)
      OBVIOUS
    <2>2. InOneRow(rows, k)
      BY <1>2, <1>3, <2>1 DEF RowsGood
    <2>3. PICK r \in 1 .. Len(rows) : Over(rows, r, k) /\ \A q \in 1 .. Len(rows) : Over(rows, q, k) => q = r
      BY <2>2 DEF InOneRow
    <2>4. {q \in 1 .. Len(rows) : rows[q].a < k /\ k <= rows[q].b} = {r}
      BY <2>3 DEF Over
    <2> QED
      BY <2>4, FS_Singleton
  <1>4. \A r \in 1 .. Len(rows) : rows[r].b - rows[r].a <= COLS
    BY <1>2 DEF RowsGood
  <1> QED
    BY <1>1, <1>3, <1>4 DEF PageIsReadable, BreaksApart, page, t, rows

\* While every tap finds a panel that is drawn to the end, a second tap follows the link
\* that was under both, and no letter of a page is lost between its rows (browser.c, html.c).
THEOREM PageStaysTrue ==
    ASSUME ~TapsOutrunFrames
    PROVE  BrowserSpec => []PageIsTrue
  <1>1. BrowserInit => BrowserInv
    BY BrowserStarts
  <1>2. BrowserInv /\ [BrowserNext]_browserVars => BrowserInv'
    BY BrowserStep
  <1>3. BrowserInv => PageIsTrue
    BY PageReads DEF BrowserInv, PageIsTrue, FollowsWhatIsShown
  <1> QED
    BY <1>1, <1>2, <1>3, PTL DEF BrowserSpec

\* Whatever markup the reader is given, token by token, every letter of the page is in one
\* row, and no row break comes after a blank or another break (html.c, browser.c).
THEOREM AnyDocumentIsReadable == HtmlSpec => []PageIsTrue
  <1> DEFINE Inv == ReaderGood(e_html) /\ h_astray = FALSE
  <1>1. BrowserInit => Inv
    BY EmptyGood DEF BrowserInit
  <1>2. Inv /\ [html_reads]_browserVars => Inv'
    BY HtmlStep
  <1>3. Inv => PageIsTrue
    BY PageReads DEF PageIsTrue, FollowsWhatIsShown
  <1> QED
    BY <1>1, <1>2, <1>3, PTL DEF HtmlSpec

=============================================================================
