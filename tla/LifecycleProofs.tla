--------------------------- MODULE LifecycleProofs ---------------------------
(***************************************************************************)
(* Proofs about Lifecycle, for any number of processes, starts and         *)
(* requests: what the database has at each place main comes to, and which  *)
(* processes may still have requests at work there.                        *)
(***************************************************************************)
EXTENDS Lifecycle, TLAPS

\* What the first n statements create.
Prefix(n) == {SchemaSQL[i].creates : i \in 1..n}

\* The schema was executed to its end.
Prepared == {"notify", "wait", "shutdown", "close", "exit"}

Places == {"off", "config", "open", "schema"} \cup Prepared

Working == {"accepted", "written", "committed"}

LifecycleType ==
  /\ pc \in [Processes -> Places]
  /\ stmt \in [Processes -> Nat]
  /\ plan \in [Processes -> {"create", "skip", Nil}]
  /\ listener \in [Processes -> {"none", "starting", "listening", "closed"}]
  /\ ended \in [Processes -> {Nil, "fatal", "schema", "killed", "done"}]
  /\ whole \in [Processes -> BOOLEAN]
  /\ req \in [Requests -> {"new", "answered", "refused", "cut"} \cup Working]
  /\ at \in [Requests -> Processes \cup {Nil}]

\* The tables are those of the first statements, also between two statements.
InOrder == \E n \in 0..8 : tables = Prefix(n)

\* A process in the schema has all that is before its statement; one that is past it has
\* the whole, and so has one that found it whole and therefore creates nothing.
Executed(p) ==
  /\ pc[p] = "schema" => stmt[p] \in 1..9 /\ Prefix(stmt[p] - 1) \subseteq tables
  /\ plan[p] # Nil => pc[p] = "schema" /\ stmt[p] \in 1..8
  /\ plan[p] = "skip" => SchemaSQL[stmt[p]].creates \in tables
  /\ pc[p] \in Prepared => tables = Whole
  /\ whole[p] => tables = Whole /\ plan[p] # "create"

\* Main passes Shutdown only when nothing is at work or time is up, and the listener is
\* closed by then.
Drains(p) ==
  /\ listener[p] # "none" => pc[p] \in Prepared
  /\ listener[p] = "listening" => pc[p] \in {"notify", "wait"}
  /\ listener[p] = "starting" => pc[p] \in {"notify", "wait"}
  /\ pc[p] \in {"close", "exit"} => AtWork(p) = {} \/ p \in forced

\* A request at work was accepted by a process; one that was cut off, by a process that was
\* forced.
Served(r) ==
  /\ req[r] \in Working => at[r] \in Processes
  /\ req[r] \in {"cut", "refused"} => at[r] \in forced

IInv ==
  /\ LifecycleType
  /\ InOrder
  /\ \A p \in Processes : Executed(p) /\ Drains(p)
  /\ \A r \in Requests : Served(r)

-----------------------------------------------------------------------------
\* Each statement creates something of its own, and refers to what is created before it.
LEMMA Statements ==
  /\ Len(SchemaSQL) = 8 /\ DOMAIN SchemaSQL = 1..8
  /\ \A i, j \in 1..8 : SchemaSQL[i].creates = SchemaSQL[j].creates => i = j
  /\ \A i \in 1..8 : SchemaSQL[i].refers \subseteq Prefix(i - 1)
  <1>1. /\ Len(SchemaSQL) = 8 /\ DOMAIN SchemaSQL = 1..8
        /\ SchemaSQL[1] = Statement("users", {})
        /\ SchemaSQL[2] = Statement("feature_flags", {})
        /\ SchemaSQL[3] = Statement("flag_rules", {"feature_flags"})
        /\ SchemaSQL[4] = Statement("experiments", {})
        /\ SchemaSQL[5] = Statement("experiment_variants", {"experiments"})
        /\ SchemaSQL[6] = Statement("experiment_assignments", {"users", "experiments"})
        /\ SchemaSQL[7] = Statement("variant_experiment_fkey",
                                    {"experiment_assignments", "experiment_variants"})
        /\ SchemaSQL[8] = Statement("audit_logs", {})
    BY DEF SchemaSQL
  <1>2. /\ SchemaSQL[1].creates = "users" /\ SchemaSQL[1].refers = {}
        /\ SchemaSQL[2].creates = "feature_flags" /\ SchemaSQL[2].refers = {}
        /\ SchemaSQL[3].creates = "flag_rules" /\ SchemaSQL[3].refers = {"feature_flags"}
        /\ SchemaSQL[4].creates = "experiments" /\ SchemaSQL[4].refers = {}
        /\ SchemaSQL[5].creates = "experiment_variants" /\ SchemaSQL[5].refers = {"experiments"}
        /\ SchemaSQL[6].creates = "experiment_assignments"
        /\ SchemaSQL[6].refers = {"users", "experiments"}
        /\ SchemaSQL[7].creates = "variant_experiment_fkey"
        /\ SchemaSQL[7].refers = {"experiment_assignments", "experiment_variants"}
        /\ SchemaSQL[8].creates = "audit_logs" /\ SchemaSQL[8].refers = {}
    BY <1>1 DEF Statement
  <1>3. \A i \in 1..8 : i = 1 \/ i = 2 \/ i = 3 \/ i = 4 \/ i = 5 \/ i = 6 \/ i = 7 \/ i = 8
    OBVIOUS
  <1>4. \A i, j \in 1..8 : SchemaSQL[i].creates = SchemaSQL[j].creates => i = j
    <2> TAKE i, j \in 1..8
    <2> QED  BY <1>2, <1>3
  <1>5. \A i \in 1..8 : SchemaSQL[i].refers \subseteq Prefix(i - 1)
    <2> TAKE i \in 1..8
    <2>1. \A k \in 1..(i - 1) : SchemaSQL[k].creates \in Prefix(i - 1)
      BY DEF Prefix
    <2> HIDE DEF Prefix
    <2>2. CASE i = 3
      <3>1. SchemaSQL[2].creates \in Prefix(2)  BY <2>1, <2>2
      <3> QED  BY <2>2, <3>1, <1>2
    <2>3. CASE i = 5
      <3>1. SchemaSQL[4].creates \in Prefix(4)  BY <2>1, <2>3
      <3> QED  BY <2>3, <3>1, <1>2
    <2>4. CASE i = 6
      <3>1. SchemaSQL[1].creates \in Prefix(5) /\ SchemaSQL[4].creates \in Prefix(5)
        BY <2>1, <2>4
      <3> QED  BY <2>4, <3>1, <1>2
    <2>5. CASE i = 7
      <3>1. SchemaSQL[5].creates \in Prefix(6) /\ SchemaSQL[6].creates \in Prefix(6)
        BY <2>1, <2>5
      <3> QED  BY <2>5, <3>1, <1>2
    <2>6. CASE i \in {1, 2, 4, 8}  BY <2>6, <1>2
    <2> QED  BY <2>2, <2>3, <2>4, <2>5, <2>6, <1>3
  <1> QED  BY <1>1, <1>4, <1>5

LEMMA Prefixes ==
  /\ Whole = Prefix(8) /\ Prefix(0) = {}
  /\ \A i \in 1..8 : Prefix(i) = Prefix(i - 1) \cup {SchemaSQL[i].creates}
  /\ \A i \in 1..8, n \in 0..8 : SchemaSQL[i].creates \in Prefix(n) <=> i <= n
  /\ \A m, n \in 0..8 : m <= n => Prefix(m) \subseteq Prefix(n)
  <1>1. Whole = Prefix(8)  BY Statements DEF Whole, Prefix
  <1>2. Prefix(0) = {}  BY DEF Prefix
  <1>3. \A i \in 1..8 : Prefix(i) = Prefix(i - 1) \cup {SchemaSQL[i].creates}
    <2> TAKE i \in 1..8
    <2>1. 1..i = 1..(i - 1) \cup {i}  OBVIOUS
    <2> QED  BY <2>1 DEF Prefix
  <1>4. \A i \in 1..8, n \in 0..8 : SchemaSQL[i].creates \in Prefix(n) <=> i <= n
    <2> TAKE i \in 1..8, n \in 0..8
    <2>1. ASSUME SchemaSQL[i].creates \in Prefix(n) PROVE i <= n
      <3>1. PICK k \in 1..n : SchemaSQL[i].creates = SchemaSQL[k].creates
        BY <2>1 DEF Prefix
      <3>2. k \in 1..8  OBVIOUS
      <3>3. i = k  BY <3>1, <3>2, Statements
      <3> QED  BY <3>3
    <2>2. ASSUME i <= n PROVE SchemaSQL[i].creates \in Prefix(n)
      <3>1. i \in 1..n  BY <2>2
      <3> QED  BY <3>1 DEF Prefix
    <2> QED  BY <2>1, <2>2
  <1>5. \A m, n \in 0..8 : m <= n => Prefix(m) \subseteq Prefix(n)
    <2> TAKE m, n \in 0..8
    <2> HAVE m <= n
    <2>1. 1..m \subseteq 1..n  OBVIOUS
    <2> QED  BY <2>1 DEF Prefix
  <1> QED  BY <1>1, <1>2, <1>3, <1>4, <1>5

\* A process that has come to its statement has the tables of those before it.
LEMMA ComeTo ==
  ASSUME NEW n \in 0..8, NEW i \in 1..9, Prefix(i - 1) \subseteq Prefix(n)
  PROVE  i <= n + 1
  <1>1. CASE i = 1  BY <1>1
  <1>2. CASE i # 1
    <2>1. i - 1 \in 1..8  BY <1>2
    <2>2. SchemaSQL[i - 1].creates \in Prefix(i - 1)  BY <2>1, Prefixes
    <2> QED  BY <2>1, <2>2, Prefixes
  <1> QED  BY <1>1, <1>2

\* What a statement does to the tables: they stay those of the first statements.
LEMMA Grow ==
  ASSUME InOrder, NEW p, Executed(p), plan[p] = "create", Nil # "create",
         tables' = tables \cup {SchemaSQL[stmt[p]].creates}
  PROVE  InOrder' /\ tables \subseteq tables' /\ (tables = Whole => tables' = Whole)
  <1> DEFINE i == stmt[p]
  <1>1. PICK n \in 0..8 : tables = Prefix(n)  BY DEF InOrder
  <1>2. i \in 1..8 /\ Prefix(i - 1) \subseteq tables  BY DEF Executed
  <1>3. i <= n + 1  BY <1>1, <1>2, ComeTo
  <1>4. CASE i <= n
    <2>1. SchemaSQL[i].creates \in tables  BY <1>1, <1>2, <1>4, Prefixes
    <2>2. tables' = tables  BY <2>1
    <2> QED  BY <2>2, <1>1 DEF InOrder
  <1>5. CASE i = n + 1
    <2>1. tables' = Prefix(i)  BY <1>1, <1>2, <1>5, Prefixes
    <2>2. tables # Whole
      <3>1. SchemaSQL[i].creates \notin Prefix(n)  BY <1>2, <1>5, Prefixes
      <3>2. SchemaSQL[i].creates \in Prefix(8)  BY <1>2, Prefixes
      <3> QED  BY <3>1, <3>2, <1>1, Prefixes
    <2>3. InOrder'  BY <2>1, <1>2 DEF InOrder
    <2> QED  BY <2>2, <2>3
  <1> QED  BY <1>1, <1>2, <1>3, <1>4, <1>5

-----------------------------------------------------------------------------
\* A step of something else: main is where it was, and the tables have only grown.
LEMMA Undisturbed ==
  ASSUME NEW q, Executed(q), UNCHANGED <<pc[q], stmt[q], plan[q], whole[q]>>,
         tables \subseteq tables', tables = Whole => tables' = Whole
  PROVE  Executed(q)'
  BY DEF Executed

LEMMA StillDrains ==
  ASSUME NEW q, Drains(q), UNCHANGED <<pc[q], listener[q]>>, forced \subseteq forced',
         pc[q] \in {"close", "exit"} => AtWork(q)' \subseteq AtWork(q)
  PROVE  Drains(q)'
  BY DEF Drains

\* The tables when a process has gone: as they were, or with what its statement created.
LEMMA ExitTables ==
  ASSUME IInv, NEW p \in Processes, NEW why, Exit(p, why)
  PROVE  InOrder' /\ tables \subseteq tables' /\ (tables = Whole => tables' = Whole)
  <1>1. CASE UNCHANGED tables  BY <1>1 DEF IInv, InOrder
  <1>2. CASE plan[p] = "create" /\ tables' = tables \cup {SchemaSQL[stmt[p]].creates}
    <2>1. InOrder /\ Executed(p)  BY DEF IInv
    <2> QED  BY <1>2, <2>1, Grow, LifecycleAssumption
  <1> QED  BY <1>1, <1>2 DEF Exit

\* However a process goes, if it is noted as forced when it leaves requests behind.
LEMMA ExitStep ==
  ASSUME IInv, NEW p \in Processes, NEW why \in {"fatal", "schema", "killed", "done"},
         Exit(p, why), forced \subseteq forced', AtWork(p) = {} \/ p \in forced'
  PROVE  IInv'
  <1>1. LifecycleType'
    <2>1. /\ pc' \in [Processes -> Places] /\ ended' \in [Processes -> {Nil, "fatal", "schema", "killed", "done"}]
          /\ stmt' \in [Processes -> Nat] /\ whole' \in [Processes -> BOOLEAN]
          /\ plan' \in [Processes -> {"create", "skip", Nil}]
          /\ listener' \in [Processes -> {"none", "starting", "listening", "closed"}]
      BY DEF IInv, LifecycleType, Exit, Places
    <2>2. req' \in [Requests -> {"new", "answered", "refused", "cut"} \cup Working]
      BY DEF IInv, LifecycleType, Exit
    <2> QED  BY <2>1, <2>2 DEF IInv, LifecycleType, Exit
  <1>2. InOrder' /\ tables \subseteq tables' /\ (tables = Whole => tables' = Whole)
    BY ExitTables
  <1>3. ASSUME NEW q \in Processes PROVE Executed(q)' /\ Drains(q)'
    <2>1. CASE q = p
      <3>1. pc'[p] = "off" /\ plan'[p] = Nil /\ listener'[p] = "none" /\ whole'[p] = FALSE
        BY DEF Exit, IInv, LifecycleType
      <3> QED  BY <2>1, <3>1, LifecycleAssumption DEF Executed, Drains, Prepared
    <2>2. CASE q # p
      <3>1. UNCHANGED <<pc[q], stmt[q], plan[q], whole[q], listener[q]>>
        BY <2>2 DEF Exit, IInv, LifecycleType
      <3>2. Executed(q) /\ Drains(q)  BY DEF IInv
      <3>3. AtWork(q)' \subseteq AtWork(q)
        BY <2>2 DEF AtWork, Exit, IInv, LifecycleType
      <3> QED  BY <1>2, <3>1, <3>2, <3>3, Undisturbed, StillDrains
    <2> QED  BY <2>1, <2>2
  <1>4. ASSUME NEW r \in Requests PROVE Served(r)'
    <2>1. Served(r)  BY DEF IInv
    <2>2. CASE r \in AtWork(p)
      <3>1. at[r] = p /\ req'[r] = "cut" /\ at' = at /\ p \in forced'
        BY <2>2 DEF AtWork, Exit
      <3> QED  BY <3>1 DEF Served, Working
    <2>3. CASE r \notin AtWork(p)
      <3>1. req'[r] = req[r] /\ at' = at  BY <2>3 DEF Exit
      <3> QED  BY <2>1, <3>1 DEF Served
    <2> QED  BY <2>2, <2>3
  <1> QED  BY <1>1, <1>2, <1>3, <1>4 DEF IInv

LEMMA AbortStep ==
  ASSUME IInv, NEW p \in Processes, NEW why \in {"fatal", "schema", "killed"}, Abort(p, why)
  PROVE  IInv'
  <1>1. Exit(p, why) /\ forced \subseteq forced' /\ (AtWork(p) = {} \/ p \in forced')
    BY DEF Abort
  <1> QED  BY <1>1, ExitStep

\* A step of main that leaves the tables and the requests alone: what it comes to is what
\* has to be shown.
LEMMA MainStep ==
  ASSUME IInv, NEW p \in Processes, LifecycleType', UNCHANGED <<tables, calls>>,
         forced \subseteq forced', Executed(p)', Drains(p)',
         \A q \in Processes \ {p} :
            UNCHANGED <<pc[q], stmt[q], plan[q], whole[q], listener[q]>>
  PROVE  IInv'
  <1>1. InOrder'  BY DEF IInv, InOrder
  <1>2. ASSUME NEW q \in Processes PROVE Executed(q)' /\ Drains(q)'
    <2>1. CASE q = p  BY <2>1
    <2>2. CASE q # p
      <3>1. UNCHANGED <<pc[q], stmt[q], plan[q], whole[q], listener[q]>>  BY <2>2
      <3>2. Executed(q) /\ Drains(q)  BY DEF IInv
      <3>3. AtWork(q)' \subseteq AtWork(q)  BY DEF AtWork, calls
      <3> QED  BY <3>1, <3>2, <3>3, Undisturbed, StillDrains
    <2> QED  BY <2>1, <2>2
  <1>3. \A r \in Requests : Served(r)'  BY DEF IInv, Served, calls
  <1> QED  BY <1>1, <1>2, <1>3 DEF IInv

-----------------------------------------------------------------------------
LEMMA InitHolds == Init => IInv
  <1> SUFFICES ASSUME Init PROVE IInv  OBVIOUS
  <1>1. LifecycleType  BY DEF Init, LifecycleType, Places
  <1>2. InOrder  BY Prefixes DEF Init, InOrder
  <1>3. \A p \in Processes : Executed(p) /\ Drains(p)
    BY LifecycleAssumption DEF Init, Executed, Drains, Prepared
  <1>4. \A r \in Requests : Served(r)  BY DEF Init, Served, Working
  <1> QED  BY <1>1, <1>2, <1>3, <1>4 DEF IInv

LEMMA ExecuteStep ==
  ASSUME IInv, NEW p \in Processes, Execute(p)
  PROVE  IInv'
  <1> DEFINE i == stmt[p]
  <1>1. i \in 1..8 /\ Prefix(i - 1) \subseteq tables /\ pc[p] = "schema"
    BY DEF IInv, Executed, Execute
  <1>2. CASE /\ ~Duplicate(p) /\ ~Dangling(p)
             /\ tables' = IF plan[p] = "create" THEN tables \cup {SchemaSQL[i].creates} ELSE tables
             /\ stmt' = [stmt EXCEPT ![p] = @ + 1] /\ plan' = [plan EXCEPT ![p] = Nil]
             /\ UNCHANGED <<whole, server, calls>>
    <2>1. LifecycleType'
      BY <1>2 DEF IInv, LifecycleType, server, calls
    <2>2. InOrder' /\ tables \subseteq tables' /\ (tables = Whole => tables' = Whole)
      <3>1. CASE plan[p] = "create"
        BY <3>1, <1>2, Grow, LifecycleAssumption DEF IInv
      <3>2. CASE plan[p] # "create"  BY <3>2, <1>2 DEF IInv, InOrder
      <3> QED  BY <3>1, <3>2
    <2>3. SchemaSQL[i].creates \in tables'
      BY <1>2 DEF IInv, LifecycleType, Executed, Execute
    <2>4. ASSUME NEW q \in Processes PROVE Executed(q)' /\ Drains(q)'
      <3>1. Drains(q)'
        BY <1>2 DEF IInv, Drains, server, calls, AtWork
      <3>2. CASE q # p
        <4>1. UNCHANGED <<pc[q], stmt[q], plan[q], whole[q]>> /\ Executed(q)
          BY <1>2, <3>2 DEF IInv, LifecycleType, server
        <4> QED  BY <4>1, <2>2, <3>1, Undisturbed
      <3>3. CASE q = p
        <4>1. stmt'[p] = i + 1 /\ plan'[p] = Nil /\ UNCHANGED <<pc, whole>>
          BY <1>2 DEF IInv, LifecycleType, server
        <4>2. Prefix(i) \subseteq tables'  BY <1>1, <2>2, <2>3, Prefixes
        <4>3. whole[p] => tables = Whole  BY DEF IInv, Executed
        <4>4. i + 1 \in 1..9 /\ (i + 1) - 1 = i  BY <1>1
        <4> QED  BY <1>1, <2>2, <3>1, <3>3, <4>1, <4>2, <4>3, <4>4, LifecycleAssumption
                 DEF Executed, Prepared
      <3> QED  BY <3>2, <3>3
    <2>5. \A r \in Requests : Served(r)'  BY <1>2 DEF IInv, Served, server, calls
    <2> QED  BY <2>1, <2>2, <2>4, <2>5 DEF IInv
  <1>3. CASE Abort(p, "schema") \/ Abort(p, "fatal")  BY <1>3, AbortStep
  <1> QED  BY <1>2, <1>3 DEF Execute

\* What main does itself.
LEMMA AdvanceStep ==
  ASSUME IInv, NEW p \in Processes, Advance(p)
  PROVE  IInv'
  <1> USE DEF schema, server, calls, Goto
  <1>1. CASE Configure(p)
    <2>1. CASE \E why \in {"fatal"} : Abort(p, why)  BY <2>1, AbortStep
    <2>2. CASE /\ pc[p] = "config" /\ Goto(p, "open")
               /\ UNCHANGED <<schema, calls, listener, ended, starts, forced>>
      <3>1. LifecycleType'  BY <2>2 DEF IInv, LifecycleType, Places
      <3>2. pc'[p] = "open"  BY <2>2 DEF IInv, LifecycleType
      <3>3. Executed(p)' /\ Drains(p)'
        BY <2>2, <3>2 DEF IInv, Executed, Drains, Prepared
      <3>4. \A q \in Processes \ {p} : pc'[q] = pc[q]  BY <2>2 DEF IInv, LifecycleType
      <3> QED  BY <2>2, <3>1, <3>3, <3>4, MainStep
    <2> QED  BY <1>1, <2>1, <2>2 DEF Configure
  <1>2. CASE Open(p)
    <2>1. CASE Abort(p, "fatal")  BY <2>1, AbortStep
    <2>2. CASE /\ pc[p] = "open" /\ Goto(p, "schema") /\ stmt' = [stmt EXCEPT ![p] = 1]
               /\ whole' = [whole EXCEPT ![p] = tables = Whole]
               /\ UNCHANGED <<tables, plan, calls, listener, addr, ended, starts, forced>>
      <3>1. LifecycleType'
        <4>1. (tables = Whole) \in BOOLEAN  OBVIOUS
        <4>2. whole' \in [Processes -> BOOLEAN]  BY <2>2, <4>1 DEF IInv, LifecycleType
        <4> QED  BY <2>2, <4>2 DEF IInv, LifecycleType, Places
      <3>2. pc'[p] = "schema" /\ stmt'[p] = 1 /\ (whole'[p] <=> tables = Whole)
        BY <2>2 DEF IInv, LifecycleType
      <3>3. plan[p] = Nil  BY <2>2 DEF IInv, Executed
      <3>4. Executed(p)' /\ Drains(p)'
        BY <2>2, <3>2, <3>3, Prefixes, LifecycleAssumption DEF IInv, Executed, Drains, Prepared
      <3>5. \A q \in Processes \ {p} : UNCHANGED <<pc[q], stmt[q], whole[q]>>
        BY <2>2 DEF IInv, LifecycleType
      <3> QED  BY <2>2, <3>1, <3>4, <3>5, MainStep
    <2> QED  BY <1>2, <2>1, <2>2 DEF Open
  <1>3. CASE Look(p)
    <2> USE <1>3 DEF Look
    <2>1. LifecycleType'  BY DEF IInv, LifecycleType
    <2>2. plan'[p] = IF SchemaSQL[stmt[p]].creates \in tables THEN "skip" ELSE "create"
      BY DEF IInv, LifecycleType
    <2>3. stmt[p] \in 1..8  BY Statements DEF IInv, Executed
    <2>4. tables = Whole => plan'[p] # "create"
      BY <2>2, <2>3, Prefixes
    <2>5. Executed(p)' /\ Drains(p)'
      BY <2>2, <2>3, <2>4 DEF IInv, Executed, Drains, Prepared, AtWork
    <2>6. \A q \in Processes \ {p} : UNCHANGED plan[q]  BY DEF IInv, LifecycleType
    <2> QED  BY <2>1, <2>5, <2>6, MainStep
  <1>4. CASE Execute(p)  BY <1>4, ExecuteStep
  <1>5. CASE Serve(p)
    <2> USE <1>5 DEF Serve
    <2>1. LifecycleType'  BY DEF IInv, LifecycleType, Places, Prepared
    <2>2. pc'[p] = "notify" /\ listener'[p] = "starting"  BY DEF IInv, LifecycleType
    <2>3. stmt[p] = 9 /\ plan[p] = Nil  BY Statements DEF IInv, Executed
    <2>4. tables = Whole
      <3>1. Prefix(8) \subseteq tables  BY <2>3 DEF IInv, Executed
      <3>2. PICK n \in 0..8 : tables = Prefix(n)  BY DEF IInv, InOrder
      <3>3. Prefix(n) \subseteq Prefix(8)  BY Prefixes
      <3> QED  BY <3>1, <3>2, <3>3, Prefixes
    <2>5. Executed(p)' /\ Drains(p)'
      BY <2>2, <2>3, <2>4, LifecycleAssumption DEF IInv, Executed, Drains, Prepared
    <2>6. \A q \in Processes \ {p} : UNCHANGED <<pc[q], listener[q]>>  BY DEF IInv, LifecycleType
    <2> QED  BY <2>1, <2>5, <2>6, MainStep
  <1>6. CASE Listen(p)
    <2>1. CASE Abort(p, "fatal")  BY <2>1, AbortStep
    <2>2. CASE /\ listener[p] = "starting" /\ listener' = [listener EXCEPT ![p] = "listening"]
               /\ UNCHANGED <<schema, calls, pc, addr, ended, starts, forced>>
      <3>1. LifecycleType'  BY <2>2 DEF IInv, LifecycleType
      <3>2. pc[p] \in {"notify", "wait"}  BY <2>2 DEF IInv, Drains
      <3>3. Executed(p)' /\ Drains(p)'
        BY <2>2, <3>2 DEF IInv, Executed, Drains, Prepared
      <3>4. \A q \in Processes \ {p} : listener'[q] = listener[q]
        BY <2>2 DEF IInv, LifecycleType
      <3> QED  BY <2>2, <3>1, <3>3, <3>4, MainStep
    <2> QED  BY <1>6, <2>1, <2>2 DEF Listen
  <1>7. CASE Notify(p)
    <2> USE <1>7 DEF Notify
    <2>1. LifecycleType'  BY DEF IInv, LifecycleType, Places, Prepared
    <2>2. pc'[p] = "wait"  BY DEF IInv, LifecycleType
    <2>3. Executed(p)' /\ Drains(p)'  BY <2>2 DEF IInv, Executed, Drains, Prepared
    <2>4. \A q \in Processes \ {p} : UNCHANGED pc[q]  BY DEF IInv, LifecycleType
    <2> QED  BY <2>1, <2>3, <2>4, MainStep
  <1>8. CASE Drained(p)
    <2> USE <1>8 DEF Drained
    <2>1. LifecycleType'  BY DEF IInv, LifecycleType, Places, Prepared
    <2>2. pc'[p] = "close" /\ AtWork(p)' = {}  BY DEF IInv, LifecycleType, AtWork
    <2>3. Executed(p)' /\ Drains(p)'  BY <2>2 DEF IInv, Executed, Drains, Prepared
    <2>4. \A q \in Processes \ {p} : UNCHANGED pc[q]  BY DEF IInv, LifecycleType
    <2> QED  BY <2>1, <2>3, <2>4, MainStep
  <1>9. CASE TimedOut(p)
    <2> USE <1>9 DEF TimedOut
    <2>1. LifecycleType'  BY DEF IInv, LifecycleType, Places, Prepared
    <2>2. pc'[p] = "close" /\ p \in forced'  BY DEF IInv, LifecycleType
    <2>3. Executed(p)' /\ Drains(p)'  BY <2>2 DEF IInv, Executed, Drains, Prepared
    <2>4. \A q \in Processes \ {p} : UNCHANGED pc[q]  BY DEF IInv, LifecycleType
    <2> QED  BY <2>1, <2>3, <2>4, MainStep
  <1>10. CASE Close(p)
    <2> USE <1>10 DEF Close
    <2>1. LifecycleType'  BY DEF IInv, LifecycleType, Places, Prepared
    <2>2. pc'[p] = "exit" /\ AtWork(p)' = AtWork(p)  BY DEF IInv, LifecycleType, AtWork
    <2>3. Executed(p)' /\ Drains(p)'  BY <2>2 DEF IInv, Executed, Drains, Prepared
    <2>4. \A q \in Processes \ {p} : UNCHANGED pc[q]  BY DEF IInv, LifecycleType
    <2> QED  BY <2>1, <2>3, <2>4, MainStep
  <1>11. CASE Return(p)
    <2>1. AtWork(p) = {} \/ p \in forced'  BY <1>11 DEF Return, IInv, Drains
    <2> QED  BY <1>11, <2>1, ExitStep DEF Return
  <1> QED  BY <1>1, <1>2, <1>3, <1>4, <1>5, <1>6, <1>7, <1>8, <1>9, <1>10, <1>11 DEF Advance

\* A start, and the signal.
LEMMA OutsideStep ==
  ASSUME IInv, NEW p \in Processes, Start(p) \/ Signal(p) \/ Crash(p)
  PROVE  IInv'
  <1> USE DEF schema, server, calls, Goto
  <1>1. CASE Start(p)
    <2> USE <1>1 DEF Start
    <2>1. LifecycleType'  BY DEF IInv, LifecycleType, Places
    <2>2. pc'[p] = "config"  BY DEF IInv, LifecycleType
    <2>3. Executed(p)' /\ Drains(p)'  BY <2>2 DEF IInv, Executed, Drains, Prepared
    <2>4. \A q \in Processes \ {p} : UNCHANGED pc[q]  BY DEF IInv, LifecycleType
    <2> QED  BY <2>1, <2>3, <2>4, MainStep
  <1>2. CASE /\ pc[p] = "wait" /\ Goto(p, "shutdown") /\ listener' = [listener EXCEPT ![p] = "closed"]
             /\ UNCHANGED <<schema, calls, addr, ended, starts, forced>>
    <2>1. LifecycleType'  BY <1>2 DEF IInv, LifecycleType, Places, Prepared
    <2>2. pc'[p] = "shutdown" /\ listener'[p] = "closed"  BY <1>2 DEF IInv, LifecycleType
    <2>3. Executed(p)' /\ Drains(p)'  BY <1>2, <2>2 DEF IInv, Executed, Drains, Prepared
    <2>4. \A q \in Processes \ {p} : UNCHANGED <<pc[q], listener[q]>>
      BY <1>2 DEF IInv, LifecycleType
    <2> QED  BY <1>2, <2>1, <2>3, <2>4, MainStep
  <1>3. CASE Abort(p, "killed")  BY <1>3, AbortStep
  <1> QED  BY <1>1, <1>2, <1>3 DEF Signal, Crash

\* A request: main and the schema are left alone.
LEMMA RequestStep ==
  ASSUME IInv, NEW r \in Requests,
         \/ Write(r) \/ Commit(r) \/ Answer(r) \/ FindsClosed(r)
         \/ \E p \in Processes : Accept(r, p)
  PROVE  IInv'
  <1> USE DEF schema, server, Move
  <1>1. UNCHANGED <<schema, server>>
    BY DEF Write, Commit, Answer, FindsClosed, Accept
  <1>2. LifecycleType'
    BY DEF Write, Commit, Answer, FindsClosed, Accept, IInv, LifecycleType, Working
  <1>3. InOrder' /\ \A q \in Processes : Executed(q)'
    BY <1>1 DEF IInv, InOrder, Executed
  <1>4. ASSUME NEW q \in Processes PROVE Drains(q)'
    <2>1. Drains(q)  BY DEF IInv
    <2>2. CASE \E p \in Processes : Accept(r, p)
      <3>1. PICK p \in Processes : Accept(r, p)  BY <2>2
      <3>2. p # q \/ pc[q] \notin {"close", "exit"}  BY <3>1, <2>1 DEF Accept, Drains
      <3>3. p # q => AtWork(q)' \subseteq AtWork(q)
        BY <3>1 DEF Accept, AtWork, IInv, LifecycleType
      <3> QED  BY <1>1, <2>1, <3>2, <3>3, StillDrains
    <2>3. CASE Write(r) \/ Commit(r) \/ Answer(r) \/ FindsClosed(r)
      <3>1. AtWork(q)' \subseteq AtWork(q)
        BY <2>3 DEF Write, Commit, Answer, FindsClosed, AtWork, IInv, LifecycleType
      <3> QED  BY <1>1, <2>1, <3>1, StillDrains
    <2> QED  BY <2>2, <2>3
  <1>5. ASSUME NEW s \in Requests PROVE Served(s)'
    <2>1. Served(s)  BY DEF IInv
    <2>2. CASE s # r
      <3>1. req'[s] = req[s] /\ at'[s] = at[s]
        BY <2>2 DEF Write, Commit, Answer, FindsClosed, Accept, IInv, LifecycleType
      <3> QED  BY <1>1, <2>1, <3>1 DEF Served
    <2>3. CASE s = r /\ \E p \in Processes : Accept(r, p)
      <3>1. PICK p \in Processes : Accept(r, p)  BY <2>3
      <3>2. req'[r] = "accepted" /\ at'[r] = p  BY <3>1 DEF Accept, IInv, LifecycleType
      <3> QED  BY <2>3, <3>2 DEF Served
    <2>4. CASE s = r /\ (Write(r) \/ Commit(r) \/ Answer(r))
      <3>1. req'[r] \in {"written", "committed", "answered"} /\ at' = at /\ req[r] \in Working
        BY <2>4 DEF Write, Commit, Answer, IInv, LifecycleType, Working
      <3> QED  BY <2>1, <2>4, <3>1 DEF Served, Working
    <2>5. CASE s = r /\ FindsClosed(r)
      <3>1. req'[r] = "refused" /\ at' = at /\ at[r] \in Processes /\ pc[at[r]] = "exit"
        BY <2>1, <2>5 DEF FindsClosed, IInv, LifecycleType, Served, Working
      <3>2. r \in AtWork(at[r])  BY <2>5 DEF FindsClosed, AtWork
      <3>3. at[r] \in forced  BY <3>1, <3>2 DEF IInv, Drains
      <3> QED  BY <1>1, <2>5, <3>1, <3>3 DEF Served, Working
    <2> QED  BY <2>2, <2>3, <2>4, <2>5
  <1> QED  BY <1>2, <1>3, <1>4, <1>5 DEF IInv

LEMMA StepHolds == IInv /\ [Next]_vars => IInv'
  <1> SUFFICES ASSUME IInv, [Next]_vars PROVE IInv'  OBVIOUS
  <1>1. CASE UNCHANGED vars
    BY <1>1 DEF vars, schema, server, calls, IInv, LifecycleType, InOrder, Executed, Drains,
                Served, AtWork
  <1>2. CASE \E p \in Processes : Start(p) \/ Signal(p) \/ Crash(p)  BY <1>2, OutsideStep
  <1>3. CASE \E p \in Processes : Advance(p)  BY <1>3, AdvanceStep
  <1>4. CASE \E r \in Requests : \/ Write(r) \/ Commit(r) \/ Answer(r) \/ FindsClosed(r)
                                 \/ \E p \in Processes : Accept(r, p)
    BY <1>4, RequestStep
  <1> QED  BY <1>1, <1>2, <1>3, <1>4 DEF Next, AllOff

-----------------------------------------------------------------------------
\* Whatever the processes and requests are, the invariant holds at every step of main
\* (cmd/main.go).
THEOREM Invariance == Spec => []IInv
  BY InitHolds, StepHolds, PTL DEF Spec

\* The schema is what a number of its first statements make, and whole wherever requests are
\* accepted (EnsureSchema, internal/db/db.go), with any number of processes and crashes.
THEOREM SchemaOrdered == Spec => []SchemaInOrder
  <1>1. IInv => SchemaInOrder
    <2> SUFFICES ASSUME IInv PROVE SchemaInOrder  OBVIOUS
    <2>1. \E n \in 0..Len(SchemaSQL) : tables = {SchemaSQL[i].creates : i \in 1..n}
      BY Statements DEF IInv, InOrder, Prefix
    <2>2. \A p \in Processes : listener[p] = "listening" => tables = Whole
      BY DEF IInv, Executed, Drains
    <2> QED  BY <2>1, <2>2 DEF SchemaInOrder
  <1> QED  BY <1>1, Invariance, PTL

\* Only a process that was killed or ran out of its five seconds cuts a request off
\* (Shutdown and the deferred Close of cmd/main.go), for any number of requests.
THEOREM CutByForce == Spec => []CutOnlyByForce
  <1>1. IInv => CutOnlyByForce  BY DEF IInv, Served, CutOnlyByForce
  <1> QED  BY <1>1, Invariance, PTL

\* No step of EnsureSchema fails for a missing table, nor in a run that found the schema
\* whole: the only failure is what another process has just created.
THEOREM InitializedSafe == Spec => InitializedNeverFails
  <1> DEFINE Safe == \A p \in Processes :
               (ended'[p] = "schema" /\ ended[p] # "schema") => ~whole[p] /\ Duplicate(p)
  <1>1. IInv /\ [Next]_vars => [Safe]_vars
    <2> SUFFICES ASSUME IInv, Next, NEW p \in Processes, ended'[p] = "schema", ended[p] # "schema"
                 PROVE  ~whole[p] /\ Duplicate(p)
      OBVIOUS
    <2>1. ~Dangling(p)
      <3>1. SUFFICES ASSUME plan[p] = "create" PROVE SchemaSQL[stmt[p]].refers \subseteq tables
        BY DEF Dangling
      <3>2. stmt[p] \in 1..8 /\ Prefix(stmt[p] - 1) \subseteq tables
        BY <3>1, LifecycleAssumption DEF IInv, Executed
      <3> QED  BY <3>2, Statements
    <2>2. ASSUME NEW q \in Processes, NEW why, Exit(q, why) PROVE q = p /\ why = "schema"
      <3>1. ended' = [ended EXCEPT ![q] = why]  BY <2>2 DEF Exit
      <3> QED  BY <3>1 DEF IInv, LifecycleType
    <2>3. ended' # ended  OBVIOUS
    <2>4. Duplicate(p)
      <3>1. \A q \in Processes : ~Start(q)
        BY <2>3, LifecycleAssumption DEF Start, IInv, LifecycleType
      <3>2. \A q \in Processes : ~Signal(q) /\ ~Crash(q)
        BY <2>2, <2>3 DEF Signal, Crash, Abort
      <3>3. \A r \in Requests : /\ ~Write(r) /\ ~Commit(r) /\ ~Answer(r) /\ ~FindsClosed(r)
                                /\ \A q \in Processes : ~Accept(r, q)
        BY <2>3 DEF Write, Commit, Answer, FindsClosed, Accept, server
      <3>4. PICK q \in Processes : Advance(q)
        BY <2>3, <3>1, <3>2, <3>3 DEF Next, AllOff, vars, server
      <3>5. /\ ~Configure(q) /\ ~Open(q) /\ ~Listen(q) /\ ~Return(q)
            /\ ~Look(q) /\ ~Serve(q) /\ ~Notify(q) /\ ~Drained(q) /\ ~TimedOut(q) /\ ~Close(q)
        <4>1. ~Configure(q) /\ ~Open(q)  BY <2>2, <2>3 DEF Configure, Open, Abort
        <4>2. ~Listen(q) /\ ~Return(q)  BY <2>2, <2>3 DEF Listen, Return, Abort
        <4>3. ~Look(q) /\ ~Serve(q) /\ ~Notify(q)  BY <2>3 DEF Look, Serve, Notify, server
        <4>4. ~Drained(q) /\ ~TimedOut(q) /\ ~Close(q)  BY <2>3 DEF Drained, TimedOut, Close
        <4> QED  BY <4>1, <4>2, <4>3, <4>4
      <3>6. Execute(q)  BY <3>4, <3>5 DEF Advance
      <3>7. (Duplicate(q) \/ Dangling(q)) /\ Exit(q, "schema")
        BY <2>2, <2>3, <3>6 DEF Execute, Abort, server
      <3> QED  BY <2>1, <2>2, <3>7
    <2>5. ~whole[p]  BY <2>4 DEF Duplicate, IInv, Executed
    <2> QED  BY <2>4, <2>5
  <1> QED  BY <1>1, Invariance, PTL DEF Spec, InitializedNeverFails

-----------------------------------------------------------------------------
\* A process that has not been started does not run, and one that runs has not failed yet.
Started(p) == pc[p] # "off" => starts[p] # 0 /\ ended[p] # "schema"

\* The process that has created last: what it comes to next is not there, so that EnsureSchema
\* cannot fail in it.
Leads(p) ==
  /\ starts[p] # 0 /\ ended[p] # "schema"
  /\ pc[p] \notin {"config", "open"}
  /\ pc[p] = "schema" => tables = Prefix(stmt[p] - 1)

\* As long as no process is started twice, either nothing was created and nobody has failed,
\* or one process leads.
LInv ==
  /\ starts \in [Processes -> Nat]
  /\ \A p \in Processes : Started(p)
  /\ (\A p \in Processes : starts[p] <= 1) =>
       \/ tables = {} /\ \A p \in Processes : ended[p] # "schema"
       \/ \E p \in Processes : Leads(p)

\* What a step does in the process that makes it: a start, an end, a statement executed, or
\* another step of main.
Begins(q) ==
  starts'[q] = starts[q] + 1 /\ pc'[q] = "config" /\ ended'[q] = Nil /\ UNCHANGED tables

Ends(q) ==
  /\ pc[q] # "off" /\ pc'[q] = "off" /\ starts'[q] = starts[q]
  /\ ended'[q] = "schema" => Duplicate(q) /\ pc[q] = "schema"
  /\ \/ UNCHANGED tables
     \/ plan[q] = "create" /\ tables' = tables \cup {SchemaSQL[stmt[q]].creates}

Executes(q) ==
  /\ pc[q] = "schema" /\ pc'[q] = "schema" /\ starts'[q] = starts[q] /\ ended'[q] = ended[q]
  /\ plan[q] # Nil /\ stmt'[q] = stmt[q] + 1
  /\ tables' = IF plan[q] = "create" THEN tables \cup {SchemaSQL[stmt[q]].creates} ELSE tables

Moves(q) ==
  /\ pc[q] # "off" /\ pc'[q] # "off" /\ starts'[q] = starts[q] /\ ended'[q] = ended[q]
  /\ UNCHANGED tables
  /\ pc[q] \notin {"config", "open"} =>
       /\ pc'[q] \notin {"config", "open"}
       /\ pc'[q] = "schema" => pc[q] = "schema" /\ stmt'[q] = stmt[q]

Elsewhere(q) ==
  \A p \in Processes \ {q} : UNCHANGED <<pc[p], stmt[p], starts[p], ended[p]>>

LEMMA ExitShape ==
  ASSUME IInv, NEW q \in Processes, NEW why, Exit(q, why), pc[q] # "off",
         why = "schema" => Duplicate(q)
  PROVE  Elsewhere(q) /\ Ends(q)
  <1>1. ended'[q] = why /\ pc'[q] = "off" /\ UNCHANGED starts  BY DEF IInv, LifecycleType, Exit
  <1>2. Duplicate(q) => pc[q] = "schema"
    BY LifecycleAssumption DEF IInv, Executed, Duplicate
  <1>3. Elsewhere(q)  BY DEF IInv, LifecycleType, Exit, Elsewhere
  <1> QED  BY <1>1, <1>2, <1>3 DEF Ends, Exit

LEMMA NeverDangling ==
  ASSUME IInv, NEW p \in Processes
  PROVE  ~Dangling(p)
  <1>1. SUFFICES ASSUME plan[p] = "create" PROVE SchemaSQL[stmt[p]].refers \subseteq tables
    BY DEF Dangling
  <1>2. stmt[p] \in 1..8 /\ Prefix(stmt[p] - 1) \subseteq tables
    BY <1>1, LifecycleAssumption DEF IInv, Executed
  <1> QED  BY <1>2, Statements

LEMMA ProcessStep ==
  ASSUME IInv, starts \in [Processes -> Nat], NEW q \in Processes,
         Start(q) \/ Advance(q) \/ Signal(q) \/ Crash(q)
  PROVE  /\ starts' \in [Processes -> Nat]
         /\ Elsewhere(q) /\ (Begins(q) \/ Ends(q) \/ Executes(q) \/ Moves(q))
  <1> USE DEF schema, server, Goto
  <1>0. starts' \in [Processes -> Nat]
    BY DEF Start, Advance, Signal, Crash, Configure, Open, Look, Execute, Serve, Listen, Notify,
           Drained, TimedOut, Close, Return, Abort, Exit
  <1> USE <1>0
  <1>1. ASSUME NEW why \in {"fatal", "killed"}, Abort(q, why), pc[q] # "off"
        PROVE  Elsewhere(q) /\ Ends(q)
    BY <1>1, ExitShape DEF Abort
  <1>2. CASE Start(q)
    <2>1. Elsewhere(q) /\ pc'[q] = "config" /\ ended'[q] = Nil /\ UNCHANGED tables
      BY <1>2 DEF Start, Elsewhere, IInv, LifecycleType
    <2>2. starts'[q] = starts[q] + 1
      BY <1>2 DEF Start
    <2> QED  BY <2>1, <2>2 DEF Begins
  <1>3. CASE Configure(q)
    <2>1. CASE Abort(q, "fatal")  BY <1>1, <1>3, <2>1 DEF Configure
    <2>2. CASE Goto(q, "open") /\ UNCHANGED <<schema, ended, starts>>
      BY <1>3, <2>2 DEF Configure, Elsewhere, Moves, IInv, LifecycleType
    <2> QED  BY <1>3, <2>1, <2>2 DEF Configure
  <1>4. CASE Open(q)
    <2>1. CASE Abort(q, "fatal")  BY <1>1, <1>4, <2>1 DEF Open
    <2>2. CASE /\ Goto(q, "schema") /\ stmt' = [stmt EXCEPT ![q] = 1]
               /\ UNCHANGED <<tables, ended, starts>>
      BY <1>4, <2>2 DEF Open, Elsewhere, Moves, IInv, LifecycleType
    <2> QED  BY <1>4, <2>1, <2>2 DEF Open
  <1>5. CASE Execute(q)
    <2>1. CASE Abort(q, "fatal")  BY <1>1, <1>5, <2>1 DEF Execute
    <2>2. CASE (Duplicate(q) \/ Dangling(q)) /\ Abort(q, "schema")
      <3>1. Duplicate(q)  BY <2>2, NeverDangling
      <3> QED  BY <1>5, <2>2, <3>1, ExitShape DEF Execute, Abort
    <2>3. CASE /\ tables' = IF plan[q] = "create"
                            THEN tables \cup {SchemaSQL[stmt[q]].creates} ELSE tables
               /\ stmt' = [stmt EXCEPT ![q] = @ + 1] /\ UNCHANGED server
      BY <1>5, <2>3 DEF Execute, Elsewhere, Executes, IInv, LifecycleType
    <2> QED  BY <1>5, <2>1, <2>2, <2>3 DEF Execute
  <1>6. CASE Listen(q)
    <2>1. pc[q] \in {"notify", "wait"}  BY <1>6 DEF Listen, IInv, Drains
    <2>2. CASE Abort(q, "fatal")  BY <1>1, <2>1, <2>2
    <2>3. CASE UNCHANGED <<schema, pc, ended, starts>>
      BY <2>1, <2>3 DEF Elsewhere, Moves
    <2> QED  BY <1>6, <2>2, <2>3 DEF Listen
  <1>7. CASE Look(q) \/ Serve(q) \/ Notify(q) \/ Drained(q) \/ TimedOut(q) \/ Close(q)
    BY <1>7 DEF Look, Serve, Notify, Drained, TimedOut, Close, Elsewhere, Moves, IInv,
                LifecycleType
  <1>8. CASE Return(q)  BY <1>8, ExitShape DEF Return
  <1>9. CASE Crash(q)  BY <1>1, <1>9 DEF Crash, Running
  <1>10. CASE Signal(q)
    <2>1. CASE Abort(q, "killed") /\ pc[q] # "off"  BY <1>1, <2>1
    <2>2. CASE pc[q] = "wait" /\ Goto(q, "shutdown") /\ UNCHANGED <<schema, ended, starts>>
      BY <2>2 DEF Elsewhere, Moves, IInv, LifecycleType
    <2> QED  BY <1>10, <2>1, <2>2 DEF Signal
  <1> QED
    BY <1>2, <1>3, <1>4, <1>5, <1>6, <1>7, <1>8, <1>9, <1>10 DEF Advance

\* What is created is the next table of all.
LEMMA NewTable ==
  ASSUME IInv, NEW q \in Processes, plan[q] = "create",
         tables' = tables \cup {SchemaSQL[stmt[q]].creates}, tables' # tables
  PROVE  tables' = Prefix(stmt[q])
  <1> DEFINE i == stmt[q]
  <1>1. PICK n \in 0..8 : tables = Prefix(n)  BY DEF IInv, InOrder
  <1>2. i \in 1..8 /\ Prefix(i - 1) \subseteq tables
    BY LifecycleAssumption DEF IInv, Executed
  <1>3. i <= n + 1  BY <1>1, <1>2, ComeTo
  <1>4. ~(i <= n)  BY <1>1, <1>2, Prefixes
  <1>5. i = n + 1  BY <1>2, <1>3, <1>4
  <1> QED  BY <1>1, <1>2, <1>5, Prefixes

\* The one that leads does not find its statement executed.
LEMMA LeaderFree ==
  ASSUME IInv, NEW q \in Processes, Leads(q), pc[q] = "schema", plan[q] # Nil
  PROVE  plan[q] = "create" /\ ~Duplicate(q)
  <1>1. stmt[q] \in 1..8 /\ stmt[q] - 1 \in 0..8  BY DEF IInv, Executed
  <1>2. SchemaSQL[stmt[q]].creates \notin tables  BY <1>1, Prefixes DEF Leads
  <1> QED  BY <1>2 DEF IInv, LifecycleType, Executed, Duplicate

LEMMA LeaderStep ==
  ASSUME IInv, LInv, starts' \in [Processes -> Nat], NEW q \in Processes, Elsewhere(q),
         Begins(q) \/ Ends(q) \/ Executes(q) \/ Moves(q)
  PROVE  LInv'
  <1>1. \A p \in Processes : Started(p)  BY DEF LInv
  <1>2. \A p \in Processes : Started(p)'
    <2>1. \A p \in Processes : p # q => Started(p)'  BY <1>1 DEF Started, Elsewhere
    <2>2. Started(q)'
      BY <1>1, LifecycleAssumption DEF LInv, Started, Begins, Ends, Executes, Moves
    <2> QED  BY <2>1, <2>2
  <1>3. SUFFICES ASSUME \A p \in Processes : starts'[p] <= 1
                 PROVE  \/ tables' = {} /\ \A p \in Processes : ended'[p] # "schema"
                        \/ \E p \in Processes : Leads(p)'
    BY <1>2 DEF LInv
  <1>4. \A p \in Processes : starts[p] <= 1
    BY <1>3 DEF LInv, Elsewhere, Begins, Ends, Executes, Moves
  <1>5. CASE tables' # tables
    <2>1. plan[q] = "create" /\ tables' = tables \cup {SchemaSQL[stmt[q]].creates}
      BY <1>5 DEF Begins, Ends, Executes, Moves
    <2>2. tables' = Prefix(stmt[q])  BY <1>5, <2>1, NewTable
    <2>3. ~Duplicate(q)  BY <1>5, <2>1 DEF Duplicate
    <2>4. stmt[q] \in Nat  BY DEF IInv, LifecycleType
    <2>5. CASE Ends(q)  BY <1>1, <2>3, <2>5 DEF Ends, Started, Leads
    <2>6. CASE Executes(q)
      <3>1. stmt'[q] - 1 = stmt[q]  BY <2>4, <2>6 DEF Executes
      <3> QED  BY <1>1, <2>2, <2>6, <3>1 DEF Executes, Started, Leads, Prefix
    <2> QED  BY <1>5, <2>5, <2>6 DEF Begins, Moves
  <1>6. CASE tables' = tables /\ tables = {} /\ \A p \in Processes : ended[p] # "schema"
    <2>1. ~Duplicate(q)  BY <1>6 DEF Duplicate
    <2>2. ended'[q] # "schema"
      BY <1>6, <2>1, LifecycleAssumption DEF Begins, Ends, Executes, Moves
    <2> QED  BY <1>6, <2>2 DEF Elsewhere
  <1>7. ASSUME tables' = tables, NEW p \in Processes, Leads(p)
        PROVE  Leads(p)'
    <2>1. CASE p # q  BY <1>7, <2>1 DEF Leads, Elsewhere, Prefix
    <2>2. CASE p = q /\ Begins(q)
      <3>1. starts[q] # 0 /\ starts[q] \in Nat  BY <1>7, <2>2 DEF Leads, LInv
      <3> QED  BY <1>3, <2>2, <3>1 DEF Begins
    <2>3. CASE p = q /\ Ends(q)
      <3>1. ended'[q] # "schema"
        BY <1>7, <2>3, LeaderFree, LifecycleAssumption DEF Ends, Duplicate
      <3> QED  BY <1>7, <2>3, <3>1 DEF Leads, Ends
    <2>4. CASE p = q /\ Executes(q)
      <3>1. plan[q] = "create" /\ ~Duplicate(q)  BY <1>7, <2>4, LeaderFree DEF Executes
      <3> QED  BY <1>7, <2>4, <3>1 DEF Executes, Duplicate
    <2>5. CASE p = q /\ Moves(q)  BY <1>7, <2>5 DEF Leads, Moves, Prefix
    <2> QED  BY <2>1, <2>2, <2>3, <2>4, <2>5
  <1> QED  BY <1>4, <1>5, <1>6, <1>7 DEF LInv

\* However many processes start at once on an empty database, and wherever they are cut off,
\* EnsureSchema does not fail in all of them (internal/db/db.go).
THEOREM OneGetsThrough == Spec => []SomeoneGetsThrough
  <1>1. Init => LInv
    BY LifecycleAssumption DEF Init, LInv, Started
  <1>2. IInv /\ LInv /\ [Next]_vars => LInv'
    <2> SUFFICES ASSUME IInv, LInv, [Next]_vars PROVE LInv'
      OBVIOUS
    <2>1. starts \in [Processes -> Nat]  BY DEF LInv
    <2>2. ASSUME NEW q \in Processes, Start(q) \/ Advance(q) \/ Signal(q) \/ Crash(q)
          PROVE  LInv'
      BY <2>1, <2>2, ProcessStep, LeaderStep
    <2>3. CASE UNCHANGED <<schema, server>>
      BY <2>3 DEF schema, server, LInv, Started, Leads, Prefix
    <2>4. ASSUME NEW r \in Requests,
                 \/ Write(r) \/ Commit(r) \/ Answer(r) \/ FindsClosed(r)
                 \/ \E p \in Processes : Accept(r, p)
          PROVE  UNCHANGED <<schema, server>>
      BY <2>4 DEF Write, Commit, Answer, FindsClosed, Accept
    <2> QED  BY <2>2, <2>3, <2>4 DEF Next, AllOff, vars
  <1>3. LInv => SomeoneGetsThrough
    BY LifecycleAssumption DEF LInv, Leads, SomeoneGetsThrough
  <1> QED  BY <1>1, <1>2, <1>3, Invariance, PTL DEF Spec

=============================================================================
