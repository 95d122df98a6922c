------------------------------ MODULE Heartbeat ------------------------------
(***************************************************************************)
(* How a Worker is found alive or dead: the heartbeat agent of nclet       *)
(* renews a Lease, the worker controller compares its age with its         *)
(* duration and writes the Ready condition of the Worker, and nclet, the   *)
(* worker controller and the operators all write the same Worker object.   *)
(*                                                                         *)
(* One Worker is modelled: no step of either program reads two Workers or  *)
(* two Leases.  Time is discrete.  What is stored is not the time of the   *)
(* last renewal but the age it has by now, so that passing time moves the  *)
(* ages; an age stops growing at MaxAge, where no test tells two apart.    *)
(***************************************************************************)
EXTENDS Integers, FiniteSets

CONSTANTS
    Duration,      \* leaseDurationSeconds
    HeartbeatInterval,
    MonitorPeriod, \* workerMonitorPeriod
    Skew,          \* how far the clock of the Worker is ahead of the controller-manager's
    MaxLag,        \* bound: how long a change takes to reach the controller-manager's cache
    MaxMisses,     \* bound: renewals that may fail in a row
    MaxRefusals,   \* bound: health checks in a row that may collide with another writer
    MemoryLevels   \* memory usage that nclet may report

ASSUME TimesAssumption ==
    /\ Duration \in Nat /\ Skew \in Int /\ MaxMisses \in Nat /\ MaxRefusals \in Nat
    /\ HeartbeatInterval \in Nat \ {0} /\ MonitorPeriod \in Nat \ {0} /\ MaxLag \in Nat
    /\ Duration + Skew >= 0

\* The heartbeat is fast enough for the lease, and the caches for the monitor.
ASSUME MarginAssumption ==
    /\ (MaxMisses + 1) * HeartbeatInterval + MaxLag < Duration + Skew
    /\ MaxLag < MonitorPeriod

VARIABLES
    agent,         \* the heartbeat agent: "down", "registered" (no lease written yet), "up"
    sinceBeat,     \* time since the heartbeat ticker fired
    misses,        \* renewals that failed since the last that did not
    age,           \* age of the stored lease
    seen,          \* age of the lease in the controller-manager's cache
    leaseLag,      \* how long that copy of the lease has been out of date
    worker,        \* the stored Worker
    copy,          \* the Worker as nclet and as the controller-manager have last seen it
    current,       \* whose copy has the stored resourceVersion
    workerLag,     \* how long the controller-manager's copy has been out of date
    sinceCheck,    \* time since the monitor ticker fired
    refusals,      \* health checks in a row whose write was refused
    interrupted    \* history: nclet stopped after the renewal that the manager has seen

agentVars == <<agent, sinceBeat, misses>>
leaseVars == <<age, seen, leaseLag>>
objectVars == <<worker, copy, current, workerLag>>
monitorVars == <<sinceCheck, refusals>>
vars == <<agentVars, leaseVars, objectVars, monitorVars, interrupted>>

NoLease == -1
MaxAge == Duration + Skew + MonitorPeriod * (MaxRefusals + 1) + MaxLag + 1

Unreported == -1
Worker ==
    [exists   : BOOLEAN,
     ready    : BOOLEAN,
     disabled : BOOLEAN,
     memory   : MemoryLevels \cup {Unreported}]

NoSuchWorker == [exists |-> FALSE, ready |-> FALSE, disabled |-> FALSE, memory |-> Unreported]

Readers == {"nclet", "manager"}

-----------------------------------------------------------------------------

Init ==
    /\ agent = "down" /\ sinceBeat = 0 /\ misses = 0
    /\ age = NoLease /\ seen = NoLease /\ leaseLag = 0
    /\ worker = NoSuchWorker
    /\ copy = [r \in Readers |-> worker] /\ current = Readers /\ workerLag = 0
    /\ sinceCheck \in 0..MonitorPeriod /\ refusals = 0
    /\ interrupted = TRUE

\* The stored Worker becomes "new"; if that changes it, no copy is current.
Store(new) ==
    /\ worker' = new
    /\ current' = IF new = worker THEN current ELSE {}
    /\ UNCHANGED <<copy, workerLag>>

-----------------------------------------------------------------------------
(***************************************************************************)
(* The heartbeat agent of nclet.                                           *)
(***************************************************************************)

\* Start: the Worker is created, or its labels are brought up to date.
RegisterWorker ==
    /\ agent = "down"
    /\ agent' = "registered"
    /\ Store(IF worker.exists THEN worker ELSE [NoSuchWorker EXCEPT !.exists = TRUE])
    /\ UNCHANGED <<sinceBeat, misses, leaseVars, monitorVars, interrupted>>

\* Mutant of Renewed: the renewal writes the lease but not its renewTime.
RenewedLate == age' = (IF age = NoLease THEN 0 ELSE age) /\ UNCHANGED <<seen, leaseLag>>

\* Mutant of Renewed: the time of expiry is stored as the time of the renewal.
RenewedAsExpiry == age' = -Duration /\ UNCHANGED <<seen, leaseLag>>

\* CreateOrUpdate of the lease with renewTime = now.
Renewed == age' = 0 /\ UNCHANGED <<seen, leaseLag>>

\* Start, continued: the lease, and then the loop with its tickers.
StartLoop ==
    /\ agent = "registered"
    /\ agent' = "up" /\ sinceBeat' = 0 /\ misses' = 0
    /\ Renewed
    /\ UNCHANGED <<objectVars, monitorVars, interrupted>>

\* The heartbeat ticker fires.  A renewal that fails is logged, and the next one
\* is tried a whole interval later.
Heartbeat ==
    /\ agent = "up" /\ sinceBeat = HeartbeatInterval
    /\ sinceBeat' = 0
    /\ \/ Renewed /\ misses' = 0
       \/ misses < MaxMisses /\ misses' = misses + 1 /\ UNCHANGED leaseVars
    /\ UNCHANGED <<agent, objectVars, monitorVars, interrupted>>

\* Mutant of Accepted: the last writer wins.
AcceptedAnyway(r) == worker.exists

\* The API server takes an update of the copy of r only if its version is the stored one.
Accepted(r) == r \in current /\ worker.exists

\* The status ticker: nclet writes its copy of the whole status with its own
\* measurements in it.  Without a copy it gives up, and the Worker is not created.
ReportStatus ==
    /\ agent = "up"
    /\ refusals < MaxRefusals
    /\ copy["nclet"].exists
    /\ IF Accepted("nclet")
       THEN \E m \in MemoryLevels :
                Store([worker EXCEPT !.ready = copy["nclet"].ready, !.memory = m])
       ELSE UNCHANGED objectVars
    /\ UNCHANGED <<agentVars, leaseVars, monitorVars, interrupted>>

\* The context is done, or nclet or its machine crashes.
Stop ==
    /\ agent # "down"
    /\ agent' = "down" /\ sinceBeat' = 0 /\ misses' = 0
    /\ interrupted' = TRUE
    /\ UNCHANGED <<leaseVars, objectVars, monitorVars>>

-----------------------------------------------------------------------------
(***************************************************************************)
(* The worker controller.                                                  *)
(***************************************************************************)

\* Mutant of Alive: a lease is taken for alive until it is three times as old.
AliveTooLong(a) == a - Skew < 3 * Duration

\* Mutant of Alive: a lease has to be renewed within one second.
AliveTooShort(a) == a - Skew < 2

\* expireTime.After(time.Now()), with the renewTime of one clock and the Now of the other.
Alive(a) == a - Skew < Duration

\* monitorWorkerHealth: a Worker whose lease is not found keeps its condition; the
\* condition is written on a transition only, and a refused write waits for the
\* next tick.
MonitorWorkerHealth ==
    LET transition == /\ copy["manager"].exists /\ seen # NoLease
                      /\ copy["manager"].ready # Alive(seen)
    IN  /\ sinceCheck = MonitorPeriod
        /\ sinceCheck' = 0
        /\ IF transition /\ Accepted("manager")
           THEN Store([worker EXCEPT !.memory = copy["manager"].memory, !.ready = Alive(seen)])
           ELSE UNCHANGED objectVars
        /\ refusals' = IF transition /\ ~Accepted("manager") THEN refusals + 1 ELSE 0
        /\ UNCHANGED <<agentVars, leaseVars, interrupted>>

-----------------------------------------------------------------------------
(***************************************************************************)
(* Operators, the watches, and time.                                       *)
(***************************************************************************)

\* kubectl netcon worker enable, and disable.
SetDisableSchedule ==
    /\ worker.exists
    /\ refusals < MaxRefusals
    /\ Store([worker EXCEPT !.disabled = ~@])
    /\ UNCHANGED <<agentVars, leaseVars, monitorVars, interrupted>>

DeleteWorker ==
    /\ worker.exists
    /\ refusals < MaxRefusals
    /\ Store(NoSuchWorker)
    /\ UNCHANGED <<agentVars, leaseVars, monitorVars, interrupted>>

ObserveLease ==
    /\ seen # age
    /\ seen' = age /\ leaseLag' = 0
    /\ interrupted' = (interrupted /\ agent # "up")
    /\ UNCHANGED <<age, agentVars, objectVars, monitorVars>>

ObserveWorker(r) ==
    /\ r \notin current
    /\ copy' = [copy EXCEPT ![r] = worker]
    /\ current' = current \cup {r}
    /\ workerLag' = IF r = "manager" THEN 0 ELSE workerLag
    /\ UNCHANGED <<worker, agentVars, leaseVars, monitorVars, interrupted>>

Older(a) == IF a = NoLease \/ a = MaxAge THEN a ELSE a + 1

\* Time passes, but not past the moment by which a ticker fires or a watch delivers.
Tick ==
    /\ agent = "up" => sinceBeat < HeartbeatInterval
    /\ sinceCheck < MonitorPeriod
    /\ seen # age => leaseLag < MaxLag
    /\ "manager" \notin current => workerLag < MaxLag
    /\ sinceBeat' = IF agent = "up" THEN sinceBeat + 1 ELSE 0
    /\ sinceCheck' = sinceCheck + 1
    /\ age' = Older(age) /\ seen' = Older(seen)
    /\ leaseLag' = IF seen # age THEN leaseLag + 1 ELSE 0
    /\ workerLag' = IF "manager" \notin current THEN workerLag + 1 ELSE 0
    /\ UNCHANGED <<agent, misses, worker, copy, current, refusals, interrupted>>

Next ==
    \/ RegisterWorker \/ StartLoop \/ Heartbeat \/ ReportStatus \/ Stop
    \/ MonitorWorkerHealth
    \/ SetDisableSchedule \/ DeleteWorker
    \/ ObserveLease \/ \E r \in Readers : ObserveWorker(r)
    \/ Tick

Spec == Init /\ [][Next]_vars

\* Time passes, the tickers are served, and the watches deliver.
Fairness ==
    /\ WF_vars(Tick) /\ WF_vars(Heartbeat) /\ WF_vars(MonitorWorkerHealth)
    /\ WF_vars(ObserveLease) /\ WF_vars(ObserveWorker("manager"))

FairSpec == Spec /\ Fairness

-----------------------------------------------------------------------------
(***************************************************************************)
(* Every variable has its type.  In particular no age is that of a renewal *)
(* in the future, and no ticker, cache or run of refused writes is late    *)
(* beyond its bound.                                                       *)
(***************************************************************************)
TypeOK ==
    /\ agent \in {"down", "registered", "up"}
    /\ sinceBeat \in 0..HeartbeatInterval /\ misses \in 0..MaxMisses
    /\ age \in {NoLease} \cup 0..MaxAge /\ seen \in {NoLease} \cup 0..MaxAge
    /\ leaseLag \in 0..MaxLag /\ workerLag \in 0..MaxLag
    /\ worker \in Worker /\ copy \in [Readers -> Worker] /\ current \subseteq Readers
    /\ sinceCheck \in 0..MonitorPeriod /\ refusals \in 0..MaxRefusals
    /\ interrupted \in BOOLEAN

(***************************************************************************)
(* A Worker that stays silent is found out: as long as it is Ready, its    *)
(* lease is not older than the duration, one monitor period, and one more  *)
(* period for each health check whose write has just been refused.         *)
(***************************************************************************)
DetectedInTime ==
    worker.ready => age <= Duration + Skew + MonitorPeriod * (1 + refusals)

(***************************************************************************)
(* No false alarm: the controller-manager declares a Worker down only if   *)
(* its nclet has stopped since the renewal that the controller-manager     *)
(* knows of.  Failed renewals within the margin, a lagging cache and a     *)
(* clock that is off by Skew do not suffice.                               *)
(***************************************************************************)
NoFalseAlarm ==
    [][worker.ready /\ ~worker'.ready /\ worker'.exists => interrupted]_vars

(***************************************************************************)
(* The two programs and the operators write one object, each of them whole *)
(* parts of it, and no write undoes another: every change of the Worker,   *)
(* and of what the controller-manager sees of it, is one of the steps that *)
(* WorkerRegistry gives to the scheduler.                                  *)
(***************************************************************************)
Registry ==
    INSTANCE WorkerRegistry WITH
        Workers <- {"w"}, Matching <- {"w"}, MemoryThreshold <- 0, Events <- {"workers"},
        worker <- [w \in {"w"} |-> worker], workerCache <- [w \in {"w"} |-> copy["manager"]],
        Envs <- {}, Clients <- {}, Passwords <- {}, NoWorker <- "", NoPassword <- "",
        pe <- <<>>, cache <- <<>>, fresh <- {}, queue <- {}

ImplementsRegistry ==
    [][Registry!WorkerStep("w") \/ Registry!ObserveWorkers]_<<worker, copy["manager"]>>

(***************************************************************************)
(* A Worker whose nclet keeps running becomes Ready and stays so, whatever *)
(* the writes of the health check collide with.                            *)
(***************************************************************************)
AliveBecomesReady ==
    <>[](agent = "up" /\ worker.exists) => <>[]worker.ready
=============================================================================
