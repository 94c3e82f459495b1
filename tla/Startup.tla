------------------------------- MODULE Startup -------------------------------
(***************************************************************************)
(* How the processes of a deployment find each other: the coordinator      *)
(* (api1) makes the gateway chooser's shared memory, the database and, in  *)
(* boost-ipc, the shared memory of the slots; api2 and the proxy of        *)
(* boost-ipc open what it made (SharedMemoryManager, Connection,           *)
(* IpcConnection).  Boost, drogon and boost-ipc wait on semaphores and a   *)
(* condition; haproxy sleeps two seconds and hopes.  The proxy of boost    *)
(* and drogon only looks up the addresses of the two instances, once.      *)
(*                                                                         *)
(* What a process opens is known by the run of the coordinator that made   *)
(* it, for a removed segment or file lives on for those who have it open.  *)
(* Where the code trusts a sleep, the model lets it end at any time.       *)
(*                                                                         *)
(* Connection() may throw wherever it removes a file or calls LMDB.  The   *)
(* shared memory is taken to be there for the asking: that the system      *)
(* refuses to create, size or map a segment is left out.                   *)
(*                                                                         *)
(* StartupInit, StartupSpec and so on have this module's name in theirs,   *)
(* so that CoordinatorProofs can extend GatewayChooser as well.            *)
(***************************************************************************)
EXTENDS Integers, FiniteSets

CONSTANTS Variants,  \* a subset of {"boost", "ipc", "haproxy"}; drogon starts as boost does
          MaxRuns,   \* how often the coordinator is started (bound)
          MaxStarts  \* MaxStarts[p]: how often another process is started in one run (bound)

ASSUME VariantsAssumption == Variants \subseteq {"boost", "ipc", "haproxy"}

Coordinator == "api1"
Others      == {"api2", "proxy"}
Processes   == Others \cup {Coordinator}
Segments    == {"chooser", "ipc"}
Runs        == 1..MaxRuns
Removed     == -1  \* a database of the current run that has been removed
Parts       == {"chooser", "database", "ipc", "resolve"}  \* of the way to service

ASSUME BoundsAssumption   == MaxRuns \in Nat /\ MaxStarts \in [Others -> Nat]

VARIABLES
  variant,
  run,          \* the coordinator's current run
  at, step,     \* where each process is: the part of its startup, the step in it
  name,         \* name[s]: the run whose segment has that name, 0 for none
  stage,        \* stage[s][r]: how far the segment of run r has come
  ready,        \* ready[s][r]: the tokens of the semaphore, or the flag, in it
  mapped,       \* mapped[p][s]: the run whose segment p has open
  token,        \* the named semaphore of Database.cpp
  database,     \* the run whose data.mdb has the name, 0 for none
  opened,       \* opened[p]: the run whose database p has open, or Removed
  starts,       \* starts of each other process in this run
  nothingLeft,  \* this run found nothing of an earlier one that misleads (history)
  late          \* late[p]: the coordinator was in service when p started (history)

segmentVars == <<name, stage, ready>>
fileVars    == <<token, database>>
heldVars    == <<mapped, opened>>
runVars     == <<variant, run, starts, nothingLeft, late>>
startupVars == <<runVars, at, step, segmentVars, fileVars, heldVars>>

StartupInit ==
  /\ variant \in Variants
  /\ run = 0
  /\ at = [p \in Processes |-> "off"] /\ step = [p \in Processes |-> "begin"]
  /\ name = [s \in Segments |-> 0]
  /\ stage = [s \in Segments |-> [r \in Runs |-> "none"]]
  /\ ready = [s \in Segments |-> [r \in Runs |-> 0]]
  /\ mapped = [p \in Processes |-> [s \in Segments |-> 0]]
  /\ token = 0
  /\ database = 0
  /\ opened = [p \in Processes |-> 0]
  /\ starts = [p \in Others |-> 0]
  /\ nothingLeft = FALSE /\ late = [p \in Others |-> FALSE]

Is(p, part, s) == at[p] = part /\ step[p] = s
Go(p, s)       == step' = [step EXCEPT ![p] = s] /\ UNCHANGED at
Enter(p, part) == at' = [at EXCEPT ![p] = part] /\ step' = [step EXCEPT ![p] = "begin"]

\* The order of run(); the chooser's segment is opened before main.
Advance(p) ==
  Enter(p, CASE at[p] = "chooser"                       -> "database"
             [] at[p] = "database" /\ variant = "ipc"   -> "ipc"
             [] at[p] = "database" /\ variant # "ipc"   -> "serving"
             [] at[p] \in {"ipc", "resolve"}            -> "serving")

-----------------------------------------------------------------------------
(* The coordinator's side of a segment.                                    *)

RemoveSegment(s) ==
  /\ Is(Coordinator, s, "begin")
  /\ name' = [name EXCEPT ![s] = 0]
  /\ Go(Coordinator, "removed")
  /\ UNCHANGED <<stage, ready, fileVars, heldVars, runVars>>

\* A new segment is empty; it cannot be mapped.
CreateSegment(s) ==
  /\ Is(Coordinator, s, "removed")
  /\ name' = [name EXCEPT ![s] = run]
  /\ stage' = [stage EXCEPT ![s][run] = "empty"]
  /\ Go(Coordinator, "created")
  /\ UNCHANGED <<ready, fileVars, heldVars, runVars>>

\* Now it is all zeros, which passes for a semaphore or a mutex.
Truncate(s) ==
  /\ Is(Coordinator, s, "created")
  /\ stage' = [stage EXCEPT ![s][run] = "zeros"]
  /\ mapped' = [mapped EXCEPT ![Coordinator][s] = run]
  /\ Go(Coordinator, "truncated")
  /\ UNCHANGED <<name, ready, fileVars, opened, runVars>>

\* The placement new writes over whatever has been counted in there: a
\* process asleep on the zeros is forgotten.
Construct(s) ==
  /\ Is(Coordinator, s, "truncated")
  /\ stage' = [stage EXCEPT ![s][run] = "built"]
  /\ ready' = [ready EXCEPT ![s][run] = 0]
  /\ UNCHANGED at
  /\ step' = [p \in Processes |->
                CASE p = Coordinator                                      -> "constructed"
                  [] at[p] = s /\ step[p] = "waiting" /\ mapped[p][s] = run -> "forgotten"
                  [] OTHER                                                -> step[p]]
  /\ UNCHANGED <<name, fileVars, heldVars, runVars>>

\* Mutant: whoever sleeps is not woken.
Publish_NoNotify(s) ==
  /\ Is(Coordinator, s, "constructed")
  /\ ready' = IF variant = "haproxy" THEN ready ELSE [ready EXCEPT ![s][run] = 1]
  /\ at' = [at EXCEPT ![Coordinator] = IF s = "chooser" THEN "database" ELSE "serving"]
  /\ step' = [step EXCEPT ![Coordinator] = "begin"]
  /\ UNCHANGED <<name, stage, fileVars, heldVars, runVars>>

\* ready.post(), or the flag and notify_all: whoever sleeps looks again.
\* haproxy has nothing to post.
Publish(s) ==
  /\ Is(Coordinator, s, "constructed")
  /\ ready' = IF variant = "haproxy" THEN ready ELSE [ready EXCEPT ![s][run] = 1]
  /\ at' = [at EXCEPT ![Coordinator] = IF s = "chooser" THEN "database" ELSE "serving"]
  /\ step' = [p \in Processes |->
                CASE p = Coordinator                                      -> "begin"
                  [] at[p] = s /\ step[p] = "waiting" /\ mapped[p][s] = run -> "mapped"
                  [] OTHER                                                -> step[p]]
  /\ UNCHANGED <<name, stage, fileVars, heldVars, runVars>>

CreatorStep(s) ==
  RemoveSegment(s) \/ CreateSegment(s) \/ Truncate(s) \/ Construct(s) \/ Publish(s)

-----------------------------------------------------------------------------
(* The other side: open, map, wait until it is ready.                      *)

\* An exception before main, or out of the proxy's run(), ends the process.
EndsByException(p) == p = "proxy" \/ at[p] = "chooser"

\* Out of an API's run() it first joins the threads already started, whose
\* loops have no end.
Throw(p) == Enter(p, IF EndsByException(p) THEN "ended" ELSE "stuck")

OpenSegment(p, s) ==
  /\ Is(p, s, "begin")
  /\ name[s] # 0
  /\ mapped' = [mapped EXCEPT ![p][s] = name[s]]
  /\ Go(p, "opened")
  /\ UNCHANGED <<segmentVars, fileVars, opened, runVars>>

NoSegment(p, s) ==
  /\ Is(p, s, "begin")
  /\ name[s] = 0
  /\ Throw(p)
  /\ UNCHANGED <<segmentVars, fileVars, heldVars, runVars>>

MapSegment(p, s) ==
  /\ Is(p, s, "opened")
  /\ IF stage[s][mapped[p][s]] = "empty" THEN Throw(p) ELSE Go(p, "mapped")
  /\ UNCHANGED <<segmentVars, fileVars, heldVars, runVars>>

\* Mutant: the wait returns whether there is a token or not.
FindReady_NoWait(p, s) ==
  /\ Is(p, s, "mapped")
  /\ ready' = IF s = "chooser" /\ variant # "haproxy"
              THEN [ready EXCEPT ![s][mapped[p][s]] = @ - 1] ELSE ready
  /\ Advance(p)
  /\ UNCHANGED <<name, stage, fileVars, heldVars, runVars>>

\* A token of the semaphore is taken, the flag stays up; haproxy just goes on.
FindReady(p, s) ==
  /\ Is(p, s, "mapped")
  /\ variant = "haproxy" \/ ready[s][mapped[p][s]] > 0
  /\ ready' = IF s = "chooser" /\ variant # "haproxy"
              THEN [ready EXCEPT ![s][mapped[p][s]] = @ - 1] ELSE ready
  /\ Advance(p)
  /\ UNCHANGED <<name, stage, fileVars, heldVars, runVars>>

Sleep(p, s) ==
  /\ Is(p, s, "mapped")
  /\ variant # "haproxy" /\ ready[s][mapped[p][s]] = 0
  /\ Go(p, "waiting")
  /\ UNCHANGED <<segmentVars, fileVars, heldVars, runVars>>

OpenerStep(p, s) ==
  OpenSegment(p, s) \/ NoSegment(p, s) \/ MapSegment(p, s) \/ FindReady(p, s) \/ Sleep(p, s)

-----------------------------------------------------------------------------
(* Connection::Connection().                                               *)

\* A file this run has made already is there for an api2 that has it open.
RemoveDatabase ==
  /\ Is(Coordinator, "database", "begin")
  /\ database' = 0
  /\ opened' = [p \in Processes |-> IF opened[p] = run THEN Removed ELSE opened[p]]
  /\ Go(Coordinator, "told")
  /\ UNCHANGED <<segmentVars, token, mapped, runVars>>

\* Mutant: the same for the database.
WaitForDatabase_NoWait(p) ==
  /\ Is(p, "database", "begin") /\ p # Coordinator
  /\ token' = IF token = 0 THEN token ELSE token - 1
  /\ Go(p, "told")
  /\ UNCHANGED <<segmentVars, database, heldVars, runVars>>

\* ready.wait(), or haproxy's sleep.
WaitForDatabase(p) ==
  /\ Is(p, "database", "begin") /\ p # Coordinator
  /\ variant = "haproxy" \/ token > 0
  /\ token' = IF variant = "haproxy" THEN token ELSE token - 1
  /\ Go(p, "told")
  /\ UNCHANGED <<segmentVars, database, heldVars, runVars>>

\* Only the coordinator's mdb_env_open may create the file.
OpenDatabase(p) ==
  /\ Is(p, "database", "told")
  /\ p = Coordinator \/ database # 0
  /\ database' = IF database = 0 THEN run ELSE database
  /\ opened' = [opened EXCEPT ![p] = database']
  /\ Go(p, "opened")
  /\ UNCHANGED <<segmentVars, token, mapped, runVars>>

\* An exception of Connection().  haproxy's threads run before there is one:
\* in a processor's it ends the process (the coordinator's end is StopAll).
ThrowConnection(p) ==
  \/ Throw(p)
  \/ variant = "haproxy" /\ p # Coordinator /\ Enter(p, "ended")

NoDatabase(p) ==
  /\ Is(p, "database", "told")
  /\ p # Coordinator /\ database = 0
  /\ ThrowConnection(p)
  /\ UNCHANGED <<segmentVars, fileVars, heldVars, runVars>>

\* A file cannot be removed, or LMDB returns an error; mdb_env_open may have
\* created the file by then.  ~Transaction ends a transaction that has begun.
ConnectionThrows(p) ==
  /\ at[p] = "database"
  /\ step[p] \in {"told", "opened", "writing"} \/ (p = Coordinator /\ step[p] = "begin")
  /\ \/ UNCHANGED database
     \/ Is(Coordinator, "database", "told") /\ p = Coordinator /\ database' = run
  /\ ThrowConnection(p)
  /\ UNCHANGED <<segmentVars, token, heldVars, runVars>>

\* haproxy: run() is in its joins, but the threads serve.  A request may call
\* getConnection() again, which begins a new Connection().  The coordinator's
\* removes the file that its own last one has left.
ConnectAgain(p) ==
  /\ variant = "haproxy" /\ at[p] = "stuck"
  /\ Enter(p, "database")
  /\ nothingLeft' = (nothingLeft /\ (p = Coordinator => database = 0))
  /\ UNCHANGED <<segmentVars, fileVars, heldVars, variant, run, starts, late>>

\* LMDB has one writer at a time in each database.
BeginTransaction(p) ==
  /\ Is(p, "database", "opened")
  /\ \A q \in Processes : opened[q] = opened[p] => step[q] \notin {"writing", "posted"}
  /\ Go(p, "writing")
  /\ UNCHANGED <<segmentVars, fileVars, heldVars, runVars>>

\* Mutant: ready.post() is forgotten.
PostReady_NotPosted ==
  /\ Is(Coordinator, "database", "writing")
  /\ Go(Coordinator, "posted")
  /\ UNCHANGED <<segmentVars, fileVars, heldVars, runVars>>

\* The token is posted before the transaction ends.
PostReady ==
  /\ Is(Coordinator, "database", "writing")
  /\ token' = IF variant = "haproxy" THEN token ELSE token + 1
  /\ Go(Coordinator, "posted")
  /\ UNCHANGED <<segmentVars, database, heldVars, runVars>>

EndTransaction(p) ==
  /\ Is(p, "database", IF p = Coordinator THEN "posted" ELSE "writing")
  /\ Advance(p)
  /\ UNCHANGED <<segmentVars, fileVars, heldVars, runVars>>

ConnectionStep(p) ==
  \/ p = Coordinator /\ (RemoveDatabase \/ PostReady)
  \/ WaitForDatabase(p) \/ OpenDatabase(p) \/ NoDatabase(p)
  \/ BeginTransaction(p) \/ EndTransaction(p)

-----------------------------------------------------------------------------
(* resolveBackends(), in the proxy's constructor of Server or in its run().*)

\* The name of a container that does not run cannot be looked up.
ResolveBackends ==
  /\ Is("proxy", "resolve", "begin")
  /\ IF at["api2"] \in {"off", "ended"} THEN Throw("proxy") ELSE Advance("proxy")
  /\ UNCHANGED <<segmentVars, fileVars, heldVars, runVars>>

-----------------------------------------------------------------------------
(* Starts and ends.  The compose files put api2, and boost-ipc's proxy, in *)
(* the coordinator's pid and ipc namespaces: they do not start before it,  *)
(* and its end is theirs.  The proxy of boost and drogon has its own, but  *)
(* is started after the instances; what it is after the coordinator's end  *)
(* is left out, it ends as well.  ./data is a volume and outlives them;    *)
(* /dev/shm does so only where the ipc namespace is not the container's.   *)

StartCoordinator ==
  /\ at[Coordinator] = "off" /\ run < MaxRuns
  /\ run' = run + 1
  /\ Enter(Coordinator, "chooser")
  /\ starts' = [p \in Others |-> 0]
  /\ nothingLeft' = (/\ \A s \in Segments : name[s] = 0
                     /\ token = 0
                     /\ variant = "haproxy" => database = 0)
  /\ late' = [p \in Others |-> FALSE]
  /\ UNCHANGED <<variant, segmentVars, fileVars, heldVars>>

StartOther(p) ==
  /\ at[p] = "off" /\ at[Coordinator] # "off"
  /\ p = "proxy" => variant # "haproxy" /\ starts["api2"] > 0
  /\ starts[p] < MaxStarts[p]
  /\ starts' = [starts EXCEPT ![p] = @ + 1]
  /\ late' = [late EXCEPT ![p] = at[Coordinator] = "serving"]
  /\ Enter(p, CASE p = "api2"                         -> "chooser"
                [] p = "proxy" /\ variant = "ipc"      -> "ipc"
                [] p = "proxy" /\ variant = "boost"    -> "resolve")
  /\ UNCHANGED <<variant, run, nothingLeft, segmentVars, fileVars, heldVars>>

\* One of the others is stopped, crashes or is gone after an exception;
\* LMDB's lock is a robust mutex.
StopOther(p) ==
  /\ at[p] # "off"
  /\ Enter(p, "off")
  /\ mapped' = [mapped EXCEPT ![p] = [s \in Segments |-> 0]]
  /\ opened' = [opened EXCEPT ![p] = 0]
  /\ UNCHANGED <<segmentVars, fileVars, runVars>>

StopAll(sharedMemorySurvives) ==
  /\ at[Coordinator] # "off"
  /\ at' = [p \in Processes |-> "off"] /\ step' = [p \in Processes |-> "begin"]
  /\ mapped' = [p \in Processes |-> [s \in Segments |-> 0]]
  /\ opened' = [p \in Processes |-> 0]
  /\ name' = [s \in Segments |-> IF sharedMemorySurvives THEN name[s] ELSE 0]
  /\ token' = IF sharedMemorySurvives THEN token ELSE 0
  /\ stage' = [s \in Segments |-> [r \in Runs |-> IF r = name'[s] THEN stage[s][r] ELSE "none"]]
  /\ ready' = [s \in Segments |-> [r \in Runs |-> IF r = name'[s] THEN ready[s][r] ELSE 0]]
  /\ UNCHANGED <<database, runVars>>

ProcessStep(p) ==
  \/ \E s \in Segments : IF p = Coordinator THEN CreatorStep(s) ELSE OpenerStep(p, s)
  \/ ConnectionStep(p)
  \/ p = "proxy" /\ ResolveBackends

StartupNext ==
  \/ StartCoordinator
  \/ \E p \in Processes : ProcessStep(p) \/ ConnectionThrows(p) \/ ConnectAgain(p)
  \/ \E p \in Others : StartOther(p) \/ StopOther(p)
  \/ \E survives \in BOOLEAN : StopAll(survives)

\* A process that has been started runs, and the lock of LMDB's writers is not
\* denied for ever to one that waits for it.  No error has to occur, and no
\* request has to come.
StartupSpec ==
  /\ StartupInit
  /\ [][StartupNext]_startupVars
  /\ \A p \in Processes : WF_startupVars(ProcessStep(p))
  /\ \A p \in {Coordinator, "api2"} : SF_startupVars(BeginTransaction(p))

-----------------------------------------------------------------------------
StartupTypeOK ==
  /\ variant \in Variants /\ run \in 0..MaxRuns
  /\ at \in [Processes -> Parts \cup {"off", "serving", "ended", "stuck"}]
  /\ step \in [Processes -> {"begin", "removed", "created", "truncated", "constructed",
                             "opened", "mapped", "waiting", "forgotten",
                             "told", "writing", "posted"}]
  /\ name \in [Segments -> 0..MaxRuns]
  /\ stage \in [Segments -> [Runs -> {"none", "empty", "zeros", "built"}]]
  /\ ready \in [Segments -> [Runs -> 0..1]]
  /\ mapped \in [Processes -> [Segments -> 0..MaxRuns]]
  /\ token \in 0..MaxRuns /\ database \in 0..MaxRuns
  /\ opened \in [Processes -> 0..MaxRuns \cup {Removed}]
  /\ starts \in [Others -> Nat] /\ \A p \in Others : starts[p] <= MaxStarts[p]
  /\ nothingLeft \in BOOLEAN /\ late \in [Others -> BOOLEAN]

\* Whoever is in service works on what this run of the coordinator made: its
\* chooser's segment, its database, its slots, and in the variants that wait
\* none of it half made; nobody has a database open whose file was removed
\* since, and in the variants that wait nobody looks for it too early.  The
\* code gives this to a process that finds nothing of an earlier run (no
\* segment, no token; for haproxy no database either), or that starts when the
\* coordinator is in service.
SharesWithCoordinator ==
  \A p \in Others : nothingLeft \/ late[p] =>
    /\ at[p] = "serving" =>
         /\ p = "api2" => mapped[p]["chooser"] = run /\ opened[p] = run
         /\ variant = "ipc" => mapped[p]["ipc"] = run
         /\ variant # "haproxy" =>
              \A s \in Segments : mapped[p][s] # 0 => stage[s][mapped[p][s]] = "built"
    /\ opened[p] \in {0, database}
    /\ variant # "haproxy" /\ Is(p, "database", "told") => database = run

\* Waits of which nobody will wake the process: it slept on the zeros; the
\* coordinator's Connection() threw before the token was posted; a predecessor
\* in the same run took the only token; the segment is one of an earlier run.
WaitsForEver(p) ==
  /\ variant # "haproxy"
  /\ \/ step[p] = "forgotten"
     \/ /\ Is(p, "database", "begin") /\ token = 0
        /\ \/ at[Coordinator] = "stuck"
           \/ starts[p] > 1 /\ at[Coordinator] \in {"ipc", "serving"}
     \/ /\ step[p] = "waiting" /\ ready[at[p]][mapped[p][at[p]]] = 0
        /\ \/ mapped[p][at[p]] # run
           \/ starts[p] > 1 /\ at[Coordinator] \in {"database", "ipc", "serving", "stuck"}

\* Every start comes to an end: the process is in service, has ended, hangs
\* in the join of an exception, or waits for ever for one of the four reasons
\* above and no other.  The coordinator and haproxy's instances do not wait for
\* ever, nor does the first start of api2 in a run that maps this run's segment,
\* unless it slept on the zeros or the coordinator's Connection() threw.
EveryStartSettles ==
  \A p \in Processes :
    at[p] \in Parts ~>
      \/ at[p] \notin Parts
      \/ p # Coordinator /\ WaitsForEver(p)

\* In boost and drogon, an instance that opens the chooser's segment when it
\* has been built gets into service, if it is the first one of a run that
\* found nothing left and is not stopped; only an exception of its own or of
\* the coordinator's Connection() can prevent it.
LateOpenerServes ==
  (/\ variant = "boost" /\ nothingLeft /\ starts["api2"] = 1
   /\ Is("api2", "chooser", "opened") /\ stage["chooser"][run] = "built")
    ~> at["api2"] \in {"serving", "off", "stuck"} \/ at[Coordinator] = "stuck"
=============================================================================
