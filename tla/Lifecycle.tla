------------------------------ MODULE Lifecycle ------------------------------
(***************************************************************************)
(* The life of the server processes (cmd/main.go, internal/app,            *)
(* transport/graphql/server.go) that share one database: configuration,    *)
(* db.Open, EnsureSchema, serving, the signal, Shutdown and Close, with    *)
(* crashes at any point and starts at any time, several at once.           *)
(*                                                                         *)
(* A statement of the schema is a transaction of its own with two steps:   *)
(* it looks whether what it creates is there, and creates it.  Another     *)
(* process may have created it in between: then PostgreSQL answers with a  *)
(* duplicate error, and main is left by log.Fatalf.                        *)
(***************************************************************************)
EXTENDS Naturals, Sequences, FiniteSets

CONSTANTS
  Processes, Requests,
  Addrs,       \* the listen addresses; processes with the same one are on one host
  MaxStarts,   \* bound on the number of times each process is started
  Nil

ASSUME LifecycleAssumption ==
  /\ Processes # {} /\ MaxStarts \in [Processes -> Nat]
  /\ Nil \notin Processes \cup {"create", "skip", "schema"}

\* schemaSQL: what each statement creates, and the tables it refers to.
Statement(creates, refers) == [creates |-> creates, refers |-> refers]

\* Mutant of SchemaSQL: the rules before the flags they refer to.
RulesFirst ==
  << Statement("users", {}),
     Statement("flag_rules", {"feature_flags"}),
     Statement("feature_flags", {}) >>

SchemaSQL ==
  << Statement("users", {}),
     Statement("feature_flags", {}),
     Statement("flag_rules", {"feature_flags"}),
     Statement("experiments", {}),
     Statement("experiment_variants", {"experiments"}),
     Statement("experiment_assignments", {"users", "experiments"}),
     Statement("variant_experiment_fkey", {"experiment_assignments", "experiment_variants"}),
     Statement("audit_logs", {}) >>

Whole == {SchemaSQL[i].creates : i \in DOMAIN SchemaSQL}

VARIABLES
  tables,    \* what the schema has: tables, and the constraint added last
  pc,        \* where main is in each process
  stmt,      \* the statement of the schema it has come to
  plan,      \* whether that found its table missing: "create", "skip" or Nil
  listener,  \* the goroutine of Run: "none", "starting", "listening" or "closed"
  addr,      \* the address the process listens on
  ended,     \* how the last run of the process ended, or Nil
  starts,    \* how often it was started
  whole,     \* history: EnsureSchema of this run found the schema whole
  forced,    \* history: the processes that once ended with requests at work
  req,       \* where each request is
  at,        \* the process that accepted it
  committed  \* the requests whose changes are in the database

schema == <<tables, stmt, plan, whole>>
server == <<pc, listener, addr, ended, starts, forced>>
calls == <<req, at, committed>>
vars == <<schema, server, calls>>

Init ==
  /\ tables = {}
  /\ pc = [p \in Processes |-> "off"] /\ stmt = [p \in Processes |-> 0]
  /\ plan = [p \in Processes |-> Nil] /\ listener = [p \in Processes |-> "none"]
  /\ addr = [p \in Processes |-> Nil] /\ ended = [p \in Processes |-> Nil]
  /\ starts = [p \in Processes |-> 0] /\ whole = [p \in Processes |-> FALSE]
  /\ forced = {}
  /\ req = [r \in Requests |-> "new"] /\ at = [r \in Requests |-> Nil] /\ committed = {}

Running(p) == pc[p] # "off"

AtWork(p) == {r \in Requests : at[r] = p /\ req[r] \in {"accepted", "written", "committed"}}

-----------------------------------------------------------------------------
\* The statement fails: what it creates has appeared, or what it refers to is not there.
Duplicate(p) == plan[p] = "create" /\ SchemaSQL[stmt[p]].creates \in tables
Dangling(p) == plan[p] = "create" /\ ~(SchemaSQL[stmt[p]].refers \subseteq tables)

\* The process is gone: its requests are cut off, and a COMMIT or a statement of the schema
\* that is under way may still take effect.
Exit(p, why) ==
  /\ pc' = [pc EXCEPT ![p] = "off"] /\ ended' = [ended EXCEPT ![p] = why]
  /\ stmt' = [stmt EXCEPT ![p] = 0] /\ plan' = [plan EXCEPT ![p] = Nil]
  /\ listener' = [listener EXCEPT ![p] = "none"] /\ addr' = [addr EXCEPT ![p] = Nil]
  /\ whole' = [whole EXCEPT ![p] = FALSE]
  /\ req' = [r \in Requests |-> IF r \in AtWork(p) THEN "cut" ELSE req[r]]
  /\ \E late \in SUBSET {r \in AtWork(p) : req[r] = "written"} : committed' = committed \cup late
  /\ \/ UNCHANGED tables
     \/ /\ plan[p] = "create" /\ ~Dangling(p)
        /\ tables' = tables \cup {SchemaSQL[stmt[p]].creates}
  /\ UNCHANGED <<starts, at>>

\* Fatal errors, signals before Notify, and crashes: nothing deferred is run.
Abort(p, why) ==
  /\ Exit(p, why)
  /\ forced' = IF AtWork(p) = {} THEN forced ELSE forced \cup {p}

Goto(p, place) == pc' = [pc EXCEPT ![p] = place]

Start(p) ==
  /\ pc[p] = "off" /\ starts[p] < MaxStarts[p]
  /\ Goto(p, "config") /\ starts' = [starts EXCEPT ![p] = @ + 1] /\ ended' = [ended EXCEPT ![p] = Nil]
  /\ UNCHANGED <<schema, calls, listener, addr, forced>>

\* GetJWTSecret: a missing secret or one that is too short is fatal.
ValidSecret(length) == length >= 32

\* LoadTLSConfig: one file alone is no TLS; two that cannot be loaded are fatal.
TLSLoads(cert, key, loads) == ~(cert /\ key) \/ loads

\* Everything main reads from the environment before it opens the database.
Configure(p) ==
  /\ pc[p] = "config"
  /\ \E length \in {0, 31, 32}, cert, key, loads \in BOOLEAN :
       IF ValidSecret(length) /\ TLSLoads(cert, key, loads)
       THEN /\ Goto(p, "open")
            /\ \E a \in Addrs : addr' = [addr EXCEPT ![p] = a]
            /\ UNCHANGED <<schema, calls, listener, ended, starts, forced>>
       ELSE Abort(p, "fatal")

\* db.Open: the ping fails or not.
Open(p) ==
  /\ pc[p] = "open"
  /\ \/ /\ Goto(p, "schema") /\ stmt' = [stmt EXCEPT ![p] = 1]
        /\ whole' = [whole EXCEPT ![p] = tables = Whole]
        /\ UNCHANGED <<tables, plan, calls, listener, addr, ended, starts, forced>>
     \/ Abort(p, "fatal")

-----------------------------------------------------------------------------
\* Mutant of Look: a statement without IF NOT EXISTS.
LookAway(p) ==
  /\ pc[p] = "schema" /\ plan[p] = Nil /\ stmt[p] <= Len(SchemaSQL)
  /\ plan' = [plan EXCEPT ![p] = "create"]
  /\ UNCHANGED <<tables, stmt, whole, server, calls>>

\* IF NOT EXISTS, in the snapshot of the statement.
Look(p) ==
  /\ pc[p] = "schema" /\ plan[p] = Nil /\ stmt[p] <= Len(SchemaSQL)
  /\ plan' = [plan EXCEPT ![p] = IF SchemaSQL[stmt[p]].creates \in tables THEN "skip" ELSE "create"]
  /\ UNCHANGED <<tables, stmt, whole, server, calls>>

\* Mutant of Execute: an error of a statement does not end EnsureSchema.
ExecuteIgnoringErrors(p) ==
  /\ pc[p] = "schema" /\ plan[p] # Nil
  /\ \/ UNCHANGED tables
     \/ ~Dangling(p) /\ tables' = tables \cup {SchemaSQL[stmt[p]].creates}
  /\ stmt' = [stmt EXCEPT ![p] = @ + 1] /\ plan' = [plan EXCEPT ![p] = Nil]
  /\ UNCHANGED <<whole, server, calls>>

\* EnsureSchema executes one statement to its end, and stops at the first that fails: for
\* what it finds in the database, or for any other reason.
Execute(p) ==
  /\ pc[p] = "schema" /\ plan[p] # Nil
  /\ \/ /\ ~Duplicate(p) /\ ~Dangling(p)
        /\ tables' = IF plan[p] = "create" THEN tables \cup {SchemaSQL[stmt[p]].creates} ELSE tables
        /\ stmt' = [stmt EXCEPT ![p] = @ + 1] /\ plan' = [plan EXCEPT ![p] = Nil]
        /\ UNCHANGED <<whole, server, calls>>
     \/ (Duplicate(p) \/ Dangling(p)) /\ Abort(p, "schema")
     \/ Abort(p, "fatal")

\* NewApp, and go a.Run: from here on the listener may come up before main goes on.
Serve(p) ==
  /\ pc[p] = "schema" /\ stmt[p] > Len(SchemaSQL)
  /\ Goto(p, "notify") /\ listener' = [listener EXCEPT ![p] = "starting"]
  /\ UNCHANGED <<schema, calls, addr, ended, starts, forced>>

\* ListenAndServe: log.Fatalf if the address is taken.
Listen(p) ==
  /\ listener[p] = "starting"
  /\ IF \E q \in Processes \ {p} : addr[q] = addr[p] /\ listener[q] = "listening"
     THEN Abort(p, "fatal")
     ELSE /\ listener' = [listener EXCEPT ![p] = "listening"]
          /\ UNCHANGED <<schema, calls, pc, addr, ended, starts, forced>>

Notify(p) ==
  /\ pc[p] = "notify" /\ Goto(p, "wait")
  /\ UNCHANGED <<schema, calls, listener, addr, ended, starts, forced>>

-----------------------------------------------------------------------------
\* SIGTERM: once Notify has been called it is kept for main, which then calls Shutdown
\* (no request is accepted any more); before that it kills, and later ones are ignored.
Signal(p) ==
  \/ /\ pc[p] = "wait"
     /\ Goto(p, "shutdown") /\ listener' = [listener EXCEPT ![p] = "closed"]
     /\ UNCHANGED <<schema, calls, addr, ended, starts, forced>>
  \/ /\ pc[p] \in {"config", "open", "schema", "notify"}
     /\ Abort(p, "killed")

\* Mutant of Drained: Shutdown does not wait.
CloseAtOnce(p) ==
  /\ pc[p] = "shutdown"
  /\ Goto(p, "close")
  /\ UNCHANGED <<schema, calls, listener, addr, ended, starts, forced>>

\* Shutdown returns nil: every request has been answered.
Drained(p) ==
  /\ pc[p] = "shutdown" /\ AtWork(p) = {}
  /\ Goto(p, "close")
  /\ UNCHANGED <<schema, calls, listener, addr, ended, starts, forced>>

\* Mutant of TimedOut: Shutdown with context.Background().
NeverTimedOut(p) == FALSE /\ UNCHANGED vars

\* The five seconds of shutdownCtx are over: main goes on all the same.
TimedOut(p) ==
  /\ pc[p] = "shutdown" /\ AtWork(p) # {}
  /\ Goto(p, "close") /\ forced' = forced \cup {p}
  /\ UNCHANGED <<schema, calls, listener, addr, ended, starts>>

\* The deferred database.Close: statements fail from now on.
Close(p) ==
  /\ pc[p] = "close" /\ Goto(p, "exit")
  /\ UNCHANGED <<schema, calls, listener, addr, ended, starts, forced>>

Return(p) == pc[p] = "exit" /\ Exit(p, "done") /\ UNCHANGED forced

Crash(p) == Running(p) /\ Abort(p, "killed")

-----------------------------------------------------------------------------
Move(r, place) == req' = [req EXCEPT ![r] = place]

Accept(r, p) ==
  /\ req[r] = "new" /\ listener[p] = "listening"
  /\ Move(r, "accepted") /\ at' = [at EXCEPT ![r] = p]
  /\ UNCHANGED <<schema, server, committed>>

\* Between BEGIN and COMMIT.
Write(r) ==
  /\ req[r] = "accepted" /\ pc[at[r]] # "exit"
  /\ Move(r, "written")
  /\ UNCHANGED <<schema, server, at, committed>>

Commit(r) ==
  /\ req[r] = "written" /\ pc[at[r]] # "exit"
  /\ Move(r, "committed") /\ committed' = committed \cup {r}
  /\ UNCHANGED <<schema, server, at>>

Answer(r) ==
  /\ req[r] = "committed"
  /\ Move(r, "answered")
  /\ UNCHANGED <<schema, server, at, committed>>

\* "sql: database is closed".
FindsClosed(r) ==
  /\ req[r] \in {"accepted", "written"} /\ pc[at[r]] = "exit"
  /\ Move(r, "refused")
  /\ UNCHANGED <<schema, server, at, committed>>

-----------------------------------------------------------------------------
\* What main does by itself.
Advance(p) ==
  \/ Configure(p) \/ Open(p) \/ Look(p) \/ Execute(p) \/ Serve(p) \/ Listen(p) \/ Notify(p)
  \/ Drained(p) \/ TimedOut(p) \/ Close(p) \/ Return(p)

AllOff == (\A p \in Processes : pc[p] = "off" /\ starts[p] = MaxStarts[p]) /\ UNCHANGED vars

Next ==
  \/ \E p \in Processes : Start(p) \/ Advance(p) \/ Signal(p) \/ Crash(p)
  \/ \E r \in Requests : Write(r) \/ Commit(r) \/ Answer(r) \/ FindsClosed(r)
  \/ \E r \in Requests, p \in Processes : Accept(r, p)
  \/ AllOff

Spec == Init /\ [][Next]_vars

\* A process goes on; nothing is assumed of the requests, which may hang.
FairSpec == Spec /\ \A p \in Processes : WF_vars(Advance(p))

-----------------------------------------------------------------------------
\* "Order matters" (internal/db/schema.go:3): wherever a process was cut off, and however
\* many of them execute the statements at once, the schema is what a number of the first
\* statements make, so that a later run can go on from there; and who accepts requests has
\* the whole of it.
SchemaInOrder ==
  /\ \E n \in 0..Len(SchemaSQL) : tables = {SchemaSQL[i].creates : i \in 1..n}
  /\ \A p \in Processes : listener[p] = "listening" => tables = Whole

\* "Safe to call on an already-initialized database" (internal/db/db.go:40): EnsureSchema
\* fails only where another process has created in between what it was about to create, never
\* for a missing table, and never in a run that found the schema whole.
InitializedNeverFails ==
  [][\A p \in Processes : (ended'[p] = "schema" /\ ended[p] # "schema") =>
       ~whole[p] /\ Duplicate(p)]_vars

\* Of processes that start at once on an empty database, EnsureSchema does not fail in all:
\* the one that created last goes on, unless something else ends it.
SomeoneGetsThrough ==
  (\A p \in Processes : starts[p] <= 1) => \E p \in Processes : ended[p] # "schema"

\* A request is cut off, or finds the database closed, only if its process was killed or
\* Shutdown ran out of time: the order of the deferred calls in main lets all others finish.
CutOnlyByForce == \A r \in Requests : req[r] \in {"cut", "refused"} => at[r] \in forced

\* After the signal a process ends, also if a request hangs (shutdownCtx).
SignalledProcessEnds == \A p \in Processes : (pc[p] = "shutdown") ~> (pc[p] = "off")

=============================================================================
