--------------------------- MODULE HeartbeatProofs ---------------------------
(***************************************************************************)
(* Theorems about Heartbeat, for every lease duration, interval, period,   *)
(* skew and lag within the margins that the module assumes.                *)
(***************************************************************************)
EXTENDS Heartbeat, TLAPS

(***************************************************************************)
(* Arithmetic with products, once.                                         *)
(***************************************************************************)
\* One factor more.
LEMMA ProductNext ==
    ASSUME NEW p \in Nat, NEW n \in Nat
    PROVE  /\ p * n \in Nat /\ p * 0 = 0 /\ p * (n + 1) = p * n + p
           /\ n * p \in Nat /\ 0 * p = 0 /\ (n + 1) * p = n * p + p
BY SMT

\* A factor that grows.
LEMMA ProductMonotone ==
    ASSUME NEW p \in Nat, NEW n \in Nat, NEW m \in Nat, m <= n
    PROVE  m * p + p <= (n + 1) * p
<1>1. PICK k \in Nat : n = m + k
    <2>1. n - m \in Nat /\ n = m + (n - m)
        OBVIOUS
    <2> QED
        BY <2>1
<1>2. k * p \in Nat
    BY SMT
<1>3. (m + k + 1) * p = m * p + k * p + p
    BY SMT
<1> QED
    BY <1>1, <1>2, <1>3, SMT

-----------------------------------------------------------------------------
(***************************************************************************)
(* The invariant.                                                          *)
(***************************************************************************)

\* The types as far as the proofs need them.
Types ==
    /\ agent \in {"down", "registered", "up"}
    /\ sinceBeat \in 0..HeartbeatInterval /\ misses \in 0..MaxMisses
    /\ age \in {NoLease} \cup 0..MaxAge /\ seen \in {NoLease} \cup 0..MaxAge
    /\ leaseLag \in 0..MaxLag /\ workerLag \in 0..MaxLag
    /\ worker \in Worker /\ copy \in [Readers -> Worker] /\ current \subseteq Readers
    /\ sinceCheck \in 0..MonitorPeriod /\ refusals \in Nat
    /\ interrupted \in BOOLEAN

\* A copy with the stored resourceVersion is the stored Worker; a Worker that does not
\* exist is not Ready.
Copies ==
    /\ \A r \in current : copy[r] = worker
    /\ ~worker.exists => worker = NoSuchWorker
    /\ "manager" \in current => workerLag = 0

\* The controller-manager sees a lease no earlier, and no younger, than it is.
Lease == seen # NoLease => age # NoLease /\ age <= seen

\* Only the health check makes a Worker Ready, and long before the next health check the
\* controller-manager sees that it did.
ReadySeen ==
    worker.ready =>
        /\ seen # NoLease
        /\ \/ copy["manager"].exists /\ copy["manager"].ready
           \/ "manager" \notin current /\ sinceCheck <= workerLag

\* What DetectedInTime says, at every moment between two checks.
Detected == worker.ready => age <= Duration + Skew + sinceCheck + MonitorPeriod * refusals

\* While nclet runs, its lease is as old as its failed renewals make it, and what the
\* controller-manager sees of it is older by the lag only.
Punctual ==
    /\ agent = "up" => age # NoLease /\ age <= misses * HeartbeatInterval + sinceBeat
    /\ ~interrupted =>
          /\ agent = "up" /\ seen # NoLease
          /\ seen <= (MaxMisses + 1) * HeartbeatInterval + leaseLag

HeartbeatInv == Types /\ Copies /\ Lease /\ ReadySeen /\ Detected /\ Punctual

-----------------------------------------------------------------------------
\* Facts about the constants.
LEMMA Constants ==
    /\ Duration \in Nat /\ Skew \in Int /\ MaxMisses \in Nat /\ MaxRefusals \in Nat
    /\ HeartbeatInterval \in Nat /\ MonitorPeriod \in Nat /\ MaxLag \in Nat
    /\ HeartbeatInterval > 0 /\ MaxLag < MonitorPeriod /\ Duration + Skew >= 0
    /\ MaxAge \in Nat
    /\ (MaxMisses + 1) * HeartbeatInterval \in Nat
    /\ (MaxMisses + 1) * HeartbeatInterval + MaxLag < Duration + Skew
<1>1. MonitorPeriod * (MaxRefusals + 1) \in Nat /\ (MaxMisses + 1) * HeartbeatInterval \in Nat
    BY TimesAssumption, SMT
<1> QED
    BY <1>1, TimesAssumption, MarginAssumption DEF MaxAge

\* What Older returns.
LEMMA OlderOK ==
    ASSUME NEW a \in {NoLease} \cup 0..MaxAge
    PROVE  /\ Older(a) \in {NoLease} \cup 0..MaxAge
           /\ (Older(a) = NoLease) <=> (a = NoLease)
           /\ Older(a) <= a + 1
BY Constants DEF Older, NoLease

\* Older keeps the order of two ages.
LEMMA OlderMonotone ==
    ASSUME NEW a \in 0..MaxAge, NEW b \in 0..MaxAge, a <= b
    PROVE  Older(a) <= Older(b)
BY Constants DEF Older, NoLease

\* Nothing is there at the beginning.
LEMMA InitInv == Init => HeartbeatInv
<1> SUFFICES ASSUME Init PROVE HeartbeatInv
    OBVIOUS
<1>1. worker \in Worker /\ worker = NoSuchWorker /\ ~worker.ready /\ worker.exists = FALSE
    BY DEF Init, Worker, NoSuchWorker
<1>2. Types /\ Copies
    BY <1>1, Constants DEF Init, Types, Copies
<1>3. Lease /\ ReadySeen /\ Detected /\ Punctual
    BY <1>1 DEF Init, Lease, ReadySeen, Detected, Punctual
<1> QED
    BY <1>2, <1>3 DEF HeartbeatInv

-----------------------------------------------------------------------------
(***************************************************************************)
(* Steps that store a Worker.                                              *)
(***************************************************************************)

\* Everything but the Worker stays as it is, and the Worker does not become Ready.
QuietStore(new) ==
    /\ Store(new)
    /\ new \in Worker /\ (~new.exists => new = NoSuchWorker)
    /\ new.ready => worker.ready
    /\ UNCHANGED <<leaseVars, monitorVars, interrupted, sinceBeat, misses>>
    /\ agent' \in {"down", "registered", "up"}
    /\ agent' # agent => agent = "down" /\ agent' = "registered"

\* Such a step preserves the invariant: a copy that was current is not current after
\* it, unless the Worker is what it was.
LEMMA QuietStoreInv ==
    ASSUME HeartbeatInv, NEW new, QuietStore(new)
    PROVE  HeartbeatInv'
<1> USE Constants DEF HeartbeatInv, leaseVars, monitorVars
<1>1. Types'
    BY DEF QuietStore, Store, Types
<1>2. Copies'
    BY DEF QuietStore, Store, Copies, Types
<1>3. Lease' /\ Detected'
    BY DEF QuietStore, Store, Lease, Detected
<1>4. ReadySeen'
    BY DEF QuietStore, Store, ReadySeen
<1>5. Punctual'
    BY DEF QuietStore, Punctual
<1> QED
    BY <1>1, <1>2, <1>3, <1>4, <1>5

\* What nclet writes into the Worker.
LEMMA ReportedWorker ==
    ASSUME HeartbeatInv, Accepted("nclet"), NEW m \in MemoryLevels
    PROVE  [worker EXCEPT !.ready = copy["nclet"].ready, !.memory = m]
              = [worker EXCEPT !.memory = m]
BY DEF HeartbeatInv, Accepted, Copies, Types, Worker

\* The writers other than the health check.
LEMMA WritersInv ==
    ASSUME HeartbeatInv, RegisterWorker \/ ReportStatus \/ SetDisableSchedule \/ DeleteWorker
    PROVE  HeartbeatInv' \/ UNCHANGED vars
<1> USE DEF HeartbeatInv, agentVars, leaseVars, monitorVars
<1>0. NoSuchWorker \in Worker /\ NoSuchWorker.ready = FALSE /\ NoSuchWorker.exists = FALSE
    BY DEF NoSuchWorker, Worker
<1>1. CASE RegisterWorker
    <2>1. [NoSuchWorker EXCEPT !.exists = TRUE] \in Worker
          /\ [NoSuchWorker EXCEPT !.exists = TRUE].ready = FALSE
          /\ [NoSuchWorker EXCEPT !.exists = TRUE].exists = TRUE
        BY DEF NoSuchWorker, Worker
    <2>2. \E new : QuietStore(new)
        BY <1>1, <2>1 DEF RegisterWorker, QuietStore, Types, Copies
    <2> QED
        BY <2>2, QuietStoreInv
<1>2. CASE ReportStatus
    <2>1. CASE Accepted("nclet")
        <3>1. PICK m \in MemoryLevels : Store([worker EXCEPT !.memory = m])
            BY <1>2, <2>1, ReportedWorker DEF ReportStatus
        <3>2. QuietStore([worker EXCEPT !.memory = m])
            BY <1>2, <2>1, <3>1 DEF ReportStatus, QuietStore, Types, Copies, Accepted, Worker
        <3> QED
            BY <3>2, QuietStoreInv
    <2>2. CASE ~Accepted("nclet")
        BY <1>2, <2>2 DEF ReportStatus, vars
    <2> QED
        BY <2>1, <2>2
<1>3. CASE SetDisableSchedule
    <2>1. QuietStore([worker EXCEPT !.disabled = ~@])
        BY <1>3 DEF SetDisableSchedule, QuietStore, Types, Copies, Worker
    <2> QED
        BY <2>1, QuietStoreInv
<1>4. CASE DeleteWorker
    <2>1. QuietStore(NoSuchWorker)
        BY <1>0, <1>4 DEF DeleteWorker, QuietStore, Types
    <2> QED
        BY <2>1, QuietStoreInv
<1> QED
    BY <1>1, <1>2, <1>3, <1>4

-----------------------------------------------------------------------------
(***************************************************************************)
(* The lease, and time.                                                    *)
(***************************************************************************)

\* A renewal makes the lease young; a failed one leaves it at most an interval older.
LEMMA RenewalInv ==
    ASSUME HeartbeatInv, StartLoop \/ Heartbeat
    PROVE  HeartbeatInv'
<1> USE Constants DEF HeartbeatInv, leaseVars, monitorVars, objectVars
<1>1. UNCHANGED <<worker, copy, current, workerLag, sinceCheck, refusals, interrupted, seen, leaseLag>>
    BY DEF StartLoop, Heartbeat, Renewed
<1>2. age' = 0 \/ age' = age
    BY DEF StartLoop, Heartbeat, Renewed
<1>3. Types'
    BY <1>1, <1>2 DEF StartLoop, Heartbeat, Types, NoLease
<1>4. Copies' /\ ReadySeen'
    BY <1>1 DEF Copies, ReadySeen
<1>5. Lease'
    BY <1>1, <1>2 DEF Lease, Types, NoLease
<1>6. Detected'
    <2>1. MonitorPeriod * refusals \in Nat
        BY ProductNext DEF Types
    <2> QED
        BY <1>1, <1>2, <2>1 DEF Detected, Types
<1>7. Punctual'
    <2>1. agent' = "up" /\ (agent = "up" \/ age' = 0) /\ sinceBeat' = 0 /\ misses' \in Nat
        BY DEF StartLoop, Heartbeat, Renewed, Types
    <2>2. misses' * HeartbeatInterval \in Nat
        BY <2>1, ProductNext
    <2>3. age' # NoLease /\ age' <= misses' * HeartbeatInterval + sinceBeat'
        <3>1. CASE age' = 0
            <4> DEFINE product == misses' * HeartbeatInterval
            <4>1. product \in Nat
                BY <2>2
            <4> HIDE DEF product
            <4>2. age' # NoLease /\ age' <= product + sinceBeat'
                BY <2>1, <3>1, <4>1 DEF NoLease
            <4> QED
                BY <4>2 DEF product
        <3>2. CASE age' # 0
            <4>1. agent = "up" /\ sinceBeat = HeartbeatInterval /\ misses' = misses + 1 /\ age' = age
                BY <3>2 DEF StartLoop, Heartbeat, Renewed
            <4>2. (misses + 1) * HeartbeatInterval = misses * HeartbeatInterval + HeartbeatInterval
                BY ProductNext DEF Types
            <4> QED
                BY <2>1, <4>1, <4>2 DEF Punctual
        <3> QED
            BY <3>1, <3>2
    <2> QED
        BY <1>1, <2>1, <2>3 DEF Punctual
<1> QED
    BY <1>3, <1>4, <1>5, <1>6, <1>7

\* nclet stops.
LEMMA StopInv ==
    ASSUME HeartbeatInv, Stop
    PROVE  HeartbeatInv'
BY Constants DEF HeartbeatInv, Stop, leaseVars, objectVars, monitorVars, Types, Copies, Lease,
   ReadySeen, Detected, Punctual

\* The controller-manager sees the lease.
LEMMA ObserveLeaseInv ==
    ASSUME HeartbeatInv, ObserveLease
    PROVE  HeartbeatInv'
<1> USE Constants DEF HeartbeatInv, agentVars, objectVars, monitorVars
<1>1. Types' /\ Copies' /\ Lease' /\ Detected'
    BY DEF ObserveLease, Types, Copies, Lease, Detected, NoLease
<1>2. ReadySeen'
    BY DEF ObserveLease, ReadySeen, Lease, Types, NoLease
<1>3. Punctual'
    <2>1. agent' = agent /\ age' = age /\ misses' = misses /\ sinceBeat' = sinceBeat
          /\ seen' = age /\ leaseLag' = 0 /\ (~interrupted' => agent = "up" \/ ~interrupted)
        BY DEF ObserveLease, Types
    <2>2. agent = "up" => age <= (MaxMisses + 1) * HeartbeatInterval
        <3>1. misses * HeartbeatInterval \in Nat
              /\ misses * HeartbeatInterval + HeartbeatInterval <= (MaxMisses + 1) * HeartbeatInterval
            BY ProductMonotone, ProductNext DEF Types
        <3> QED
            BY <3>1 DEF Punctual, Types, NoLease
    <2> QED
        BY <2>1, <2>2 DEF Punctual, Types
<1> QED
    BY <1>1, <1>2, <1>3

\* A program sees the Worker.
LEMMA ObserveWorkerInv ==
    ASSUME HeartbeatInv, NEW r \in Readers, ObserveWorker(r)
    PROVE  HeartbeatInv'
<1> USE Constants DEF HeartbeatInv, agentVars, leaseVars, monitorVars
<1>0. UNCHANGED <<worker, agent, sinceBeat, misses, age, seen, leaseLag, sinceCheck, refusals, interrupted>>
    BY DEF ObserveWorker
<1>1. Types'
    BY <1>0 DEF ObserveWorker, Types
<1>2. Copies'
    BY <1>0 DEF ObserveWorker, Copies, Types, Readers
<1>3. Lease' /\ Detected' /\ Punctual'
    BY <1>0 DEF Lease, Detected, Punctual
<1>4. ReadySeen'
    <2>1. worker.ready => worker.exists
        BY DEF Copies, NoSuchWorker
    <2>2. CASE r = "manager"
        BY <1>0, <2>1, <2>2 DEF ObserveWorker, ReadySeen, Types, Readers
    <2>3. CASE r # "manager"
        BY <1>0, <2>3 DEF ObserveWorker, ReadySeen, Types, Readers
    <2> QED
        BY <2>2, <2>3
<1> QED
    BY <1>1, <1>2, <1>3, <1>4

\* Time passes.
LEMMA TickInv ==
    ASSUME HeartbeatInv, Tick
    PROVE  HeartbeatInv'
<1> USE Constants DEF HeartbeatInv
<1>1. Types'
    <2>1. age' \in {NoLease} \cup 0..MaxAge /\ seen' \in {NoLease} \cup 0..MaxAge
        BY OlderOK DEF Tick, Types
    <2> QED
        BY <2>1 DEF Tick, Types
<1>2. Copies'
    BY DEF Tick, Copies, Types
<1>3. Lease'
    <2>1. seen' # NoLease => seen # NoLease /\ age # NoLease /\ age <= seen
        BY OlderOK DEF Tick, Lease, Types
    <2> QED
        BY <2>1, OlderOK, OlderMonotone DEF Tick, Lease, Types, NoLease
<1>4. ReadySeen'
    BY OlderOK DEF Tick, ReadySeen, Types
<1>5. Detected'
    <2>1. MonitorPeriod * refusals \in Nat
        BY ProductNext DEF Types
    <2>2. age' <= age + 1 /\ age \in Int /\ age' \in Int
        BY OlderOK DEF Tick, Types, NoLease
    <2> QED
        BY <2>1, <2>2 DEF Tick, Detected, Types
<1>6. Punctual'
    <2>1. /\ age' <= age + 1 /\ (age' = NoLease <=> age = NoLease)
          /\ seen' <= seen + 1 /\ (seen' = NoLease <=> seen = NoLease)
          /\ age \in Int /\ age' \in Int /\ seen \in Int /\ seen' \in Int
        BY OlderOK DEF Tick, Types, NoLease
    <2>2. misses * HeartbeatInterval \in Nat
          /\ misses * HeartbeatInterval + HeartbeatInterval <= (MaxMisses + 1) * HeartbeatInterval
        BY ProductMonotone, ProductNext DEF Types
    <2>3. agent' = agent /\ misses' = misses /\ interrupted' = interrupted
          /\ (agent = "up" => sinceBeat' = sinceBeat + 1 /\ sinceBeat < HeartbeatInterval)
        BY DEF Tick
    <2>4. agent = "up" => age' # NoLease /\ age' <= misses * HeartbeatInterval + sinceBeat'
        BY <2>1, <2>2, <2>3 DEF Punctual, Types
    <2>5. ASSUME ~interrupted
          PROVE  agent = "up" /\ seen' # NoLease
                 /\ seen' <= (MaxMisses + 1) * HeartbeatInterval + leaseLag'
        <3>1. agent = "up" /\ seen # NoLease
              /\ seen <= (MaxMisses + 1) * HeartbeatInterval + leaseLag
            BY <2>5 DEF Punctual
        <3>2. CASE seen = age
            BY <2>1, <2>2, <2>3, <2>4, <3>1, <3>2 DEF Tick, Types
        <3>3. CASE seen # age
            BY <2>1, <3>1, <3>3 DEF Tick, Types
        <3> QED
            BY <3>2, <3>3
    <2> QED
        BY <2>3, <2>4, <2>5 DEF Punctual
<1> QED
    BY <1>1, <1>2, <1>3, <1>4, <1>5, <1>6

-----------------------------------------------------------------------------
(***************************************************************************)
(* The health check.                                                       *)
(***************************************************************************)

\* What it may find: a write that is accepted works on the stored Worker and on what
\* the controller-manager knows of the lease.
LEMMA MonitorInv ==
    ASSUME HeartbeatInv, MonitorWorkerHealth
    PROVE  HeartbeatInv'
<1> USE Constants DEF HeartbeatInv, agentVars, leaseVars
<1> DEFINE transition == /\ copy["manager"].exists /\ seen # NoLease
                         /\ copy["manager"].ready # Alive(seen)
           written == transition /\ Accepted("manager")
           new == [worker EXCEPT !.memory = copy["manager"].memory, !.ready = Alive(seen)]
<1>0. /\ sinceCheck = MonitorPeriod /\ sinceCheck' = 0
      /\ refusals' = IF transition /\ ~Accepted("manager") THEN refusals + 1 ELSE 0
      /\ UNCHANGED <<agent, sinceBeat, misses, age, seen, leaseLag, interrupted>>
    BY DEF MonitorWorkerHealth
<1>1. IF written THEN Store(new) ELSE UNCHANGED <<worker, copy, current, workerLag>>
    BY DEF MonitorWorkerHealth, objectVars
<1>2. Alive(seen) \in BOOLEAN /\ (Alive(seen) <=> seen - Skew < Duration)
    BY DEF Alive
<1>3. written => /\ "manager" \in current /\ copy["manager"] = worker /\ worker.exists
                 /\ new \in Worker /\ new.exists /\ new # worker /\ new.ready = Alive(seen)
    BY <1>2 DEF Accepted, Copies, Types, Worker, Readers
<1>4. copy' = copy /\ workerLag' = workerLag /\ (written => worker' = new /\ current' = {})
      /\ (~written => worker' = worker /\ current' = current)
    BY <1>1, <1>3 DEF Store
<1> HIDE DEF new
<1>5. Types'
    BY <1>0, <1>3, <1>4 DEF Types
<1>6. Copies'
    BY <1>3, <1>4 DEF Copies
<1>7. Lease' /\ Punctual'
    BY <1>0 DEF Lease, Punctual
<1>8. ReadySeen'
    BY <1>0, <1>3, <1>4 DEF ReadySeen, Types, Copies
<1>9. Detected'
    <2> SUFFICES ASSUME worker'.ready
                 PROVE  age <= Duration + Skew + MonitorPeriod * refusals'
        BY <1>0, <1>5 DEF Detected, Types
    <2>1. CASE written
        <3>1. MonitorPeriod * refusals' = 0
            BY <1>0, <2>1, ProductNext DEF Types
        <3>2. seen # NoLease /\ seen - Skew < Duration
            BY <1>2, <1>3, <1>4, <2>1
        <3> QED
            BY <3>1, <3>2 DEF Lease, Types, NoLease
    <2>2. CASE transition /\ ~Accepted("manager")
        <3>1. MonitorPeriod * refusals' = MonitorPeriod * refusals + MonitorPeriod
              /\ MonitorPeriod * refusals \in Nat
            BY <1>0, <2>2, ProductNext DEF Types
        <3>2. age <= Duration + Skew + MonitorPeriod + MonitorPeriod * refusals
            BY <1>0, <1>4, <2>2 DEF Detected
        <3> QED
            BY <3>1, <3>2 DEF Types, NoLease
    <2>3. CASE ~transition
        <3>1. MonitorPeriod * refusals' = 0
            BY <1>0, <2>3, ProductNext DEF Types
        <3>2. worker.ready
            BY <1>4, <2>3
        <3>3. copy["manager"].exists /\ copy["manager"].ready /\ seen # NoLease
            BY <1>0, <3>2 DEF ReadySeen, Types
        <3>4. seen - Skew < Duration
            BY <1>2, <2>3, <3>3 DEF Types, Worker, Readers
        <3> QED
            BY <3>1, <3>3, <3>4 DEF Lease, Types, NoLease
    <2> QED
        BY <2>1, <2>2, <2>3
<1> QED
    BY <1>5, <1>6, <1>7, <1>8, <1>9

-----------------------------------------------------------------------------
\* The invariant is inductive.
LEMMA HeartbeatInductive == HeartbeatInv /\ [Next]_vars => HeartbeatInv'
<1>1. HeartbeatInv /\ UNCHANGED vars => HeartbeatInv'
    BY DEF HeartbeatInv, vars, agentVars, leaseVars, objectVars, monitorVars, Types, Copies,
       Lease, ReadySeen, Detected, Punctual
<1> QED
    BY <1>1, WritersInv, RenewalInv, StopInv, ObserveLeaseInv, ObserveWorkerInv, TickInv,
       MonitorInv DEF Next

-----------------------------------------------------------------------------
(***************************************************************************)
(* How many writes in a row can be refused.                                *)
(***************************************************************************)

\* After MaxRefusals refusals nobody writes, and the controller-manager sees the Worker
\* before the next health check.  A Worker that it does not see yet is not checked.
Refused ==
    /\ refusals <= MaxRefusals
    /\ refusals = MaxRefusals =>
          "manager" \in current \/ ~copy["manager"].exists \/ sinceCheck <= workerLag

\* A health check begins a period: sinceCheck is not above any lag.  If it is the check
\* that follows MaxRefusals refused ones, its own write is not refused.
LEMMA MonitorRefused ==
    ASSUME HeartbeatInv, Refused, MonitorWorkerHealth
    PROVE  Refused'
<1> USE Constants DEF HeartbeatInv
<1>1. sinceCheck = MonitorPeriod /\ sinceCheck' = 0 /\ workerLag' = workerLag
    BY DEF MonitorWorkerHealth, Store, objectVars
<1>2. refusals' = 0 \/ (refusals' = refusals + 1 /\ copy["manager"].exists /\ ~Accepted("manager"))
    BY DEF MonitorWorkerHealth
<1>3. ASSUME copy["manager"].exists, ~Accepted("manager") PROVE refusals < MaxRefusals
    <2>1. "manager" \notin current
        BY <1>3 DEF Accepted, Copies
    <2>2. ~(sinceCheck <= workerLag)
        BY <1>1 DEF Types
    <2> QED
        BY <1>3, <2>1, <2>2 DEF Refused, Types
<1> QED
    BY <1>1, <1>2, <1>3 DEF Refused, Types

\* No step lets the refusals pass their bound.
LEMMA RefusedInductive == HeartbeatInv /\ Refused /\ [Next]_vars => Refused'
<1> SUFFICES ASSUME HeartbeatInv, Refused, [Next]_vars PROVE Refused'
    OBVIOUS
<1> USE Constants DEF HeartbeatInv, agentVars, leaseVars, monitorVars
<1>1. CASE RegisterWorker
    <2>1. CASE worker.exists
        BY <1>1, <2>1 DEF RegisterWorker, Store, Refused
    <2>2. CASE ~worker.exists
        <3>1. "manager" \in current => ~copy["manager"].exists
            BY <2>2 DEF Copies
        <3> QED
            BY <1>1, <3>1 DEF RegisterWorker, Store, Refused
    <2> QED
        BY <2>1, <2>2
<1>2. CASE ReportStatus \/ SetDisableSchedule \/ DeleteWorker
    <2>1. refusals < MaxRefusals /\ refusals' = refusals
        BY <1>2 DEF ReportStatus, SetDisableSchedule, DeleteWorker
    <2> QED
        BY <2>1 DEF Refused, Types
<1>3. CASE \E r \in Readers : ObserveWorker(r)
    BY <1>3 DEF ObserveWorker, Refused, Types, Readers
<1>4. CASE Tick
    BY <1>4 DEF Tick, Refused, Types
<1>5. CASE UNCHANGED <<objectVars, monitorVars>>
    BY <1>5 DEF objectVars, Refused
<1> QED
    BY <1>1, <1>2, <1>3, <1>4, <1>5, MonitorRefused
       DEF Next, StartLoop, Heartbeat, Stop, ObserveLease, vars

\* Every variable keeps its type: no age, ticker, cache or run of refused writes goes
\* past its bound.
THEOREM TypesAlwaysOK == Spec => []TypeOK
<1>1. Init => Refused
    BY Constants DEF Init, Refused, NoSuchWorker, Readers
<1>2. HeartbeatInv /\ Refused => TypeOK
    BY Constants DEF HeartbeatInv, Refused, Types, TypeOK
<1> QED
    BY <1>1, <1>2, InitInv, HeartbeatInductive, RefusedInductive, PTL DEF Spec

-----------------------------------------------------------------------------
(***************************************************************************)
(* What follows for the operators and the scheduler.                       *)
(***************************************************************************)

\* A Worker that stays silent loses Ready within the lease duration, the skew, a monitor
\* period, and a period more for each collision in a row.
THEOREM DetectedSafe == Spec => []DetectedInTime
<1>1. HeartbeatInv => DetectedInTime
    <2> SUFFICES ASSUME HeartbeatInv, worker.ready
                 PROVE  age <= Duration + Skew + MonitorPeriod * (1 + refusals)
        BY DEF DetectedInTime
    <2>1. MonitorPeriod * (refusals + 1) = MonitorPeriod * refusals + MonitorPeriod
          /\ MonitorPeriod * refusals \in Nat /\ refusals + 1 = 1 + refusals
        BY Constants, ProductNext DEF HeartbeatInv, Types
    <2> QED
        BY <2>1, Constants DEF HeartbeatInv, Types, Detected, NoLease
<1> QED
    BY <1>1, InitInv, HeartbeatInductive, PTL DEF Spec

\* Only a Worker whose nclet has stopped is declared down.
THEOREM NoFalseAlarmSafe == Spec => NoFalseAlarm
<1>1. HeartbeatInv /\ [Next]_vars =>
          (worker.ready /\ ~worker'.ready /\ worker'.exists => interrupted)
    <2> SUFFICES ASSUME HeartbeatInv, [Next]_vars, worker.ready, ~worker'.ready, worker'.exists,
                        ~interrupted
                 PROVE  FALSE
        BY DEF HeartbeatInv, Types
    <2>1. seen # NoLease /\ Alive(seen)
        BY Constants DEF HeartbeatInv, Punctual, Types, NoLease, Alive
    <2>2. worker.exists /\ worker \in Worker /\ Alive(seen) = TRUE
        BY <2>1 DEF HeartbeatInv, Copies, Types, NoSuchWorker, Alive
    <2>3. CASE MonitorWorkerHealth
        BY <2>2, <2>3 DEF MonitorWorkerHealth, Store, objectVars, Worker
    <2>4. CASE ReportStatus
        <3>1. CASE Accepted("nclet")
            <4>1. PICK m \in MemoryLevels : worker' = [worker EXCEPT !.memory = m]
                BY <2>4, <3>1, ReportedWorker DEF ReportStatus, Store
            <4> QED
                BY <2>2, <4>1 DEF Worker
        <3> QED
            BY <2>4, <3>1 DEF ReportStatus, objectVars
    <2>5. CASE SetDisableSchedule
        BY <2>2, <2>5 DEF SetDisableSchedule, Store, Worker
    <2>6. CASE DeleteWorker
        BY <2>6 DEF DeleteWorker, Store, NoSuchWorker
    <2>7. CASE RegisterWorker
        BY <2>2, <2>7 DEF RegisterWorker, Store
    <2>8. CASE UNCHANGED worker
        BY <2>8
    <2> QED
        BY <2>3, <2>4, <2>5, <2>6, <2>7, <2>8
           DEF Next, StartLoop, Heartbeat, Stop, ObserveLease, ObserveWorker, Tick, objectVars, vars
<1> QED
    BY <1>1, InitInv, HeartbeatInductive, PTL DEF Spec, NoFalseAlarm

\* A stored change of the Worker is a change of the Worker of WorkerRegistry.
LEMMA StoreIsChange ==
    ASSUME NEW new, Store(new)
    PROVE  Registry!ChangeWorker("w", new)
BY DEF Store, Registry!ChangeWorker

\* nclet, the controller-manager and the operators never undo each other's writes: what
\* they do to the Worker are the steps that the scheduler is verified against.
THEOREM RegistryImplemented == Spec => ImplementsRegistry
<1> DEFINE Step == Registry!WorkerStep("w") \/ Registry!ObserveWorkers
           Same == UNCHANGED <<worker, copy["manager"]>>
<1>1. HeartbeatInv /\ [Next]_vars => Step \/ Same
    <2> SUFFICES ASSUME HeartbeatInv, [Next]_vars PROVE Step \/ Same
        OBVIOUS
    <2>0. /\ worker \in Worker /\ copy \in [Readers -> Worker]
          /\ [w \in {"w"} |-> worker]["w"] = worker
        BY DEF HeartbeatInv, Types
    <2>1. CASE RegisterWorker
        <3>1. CASE worker.exists
            BY <2>1, <3>1 DEF RegisterWorker, Store
        <3>2. CASE ~worker.exists
            <4>1. Registry!ChangeWorker("w", [NoSuchWorker EXCEPT !.exists = TRUE])
                BY <2>1, <3>2, StoreIsChange DEF RegisterWorker
            <4>2. NoSuchWorker = Registry!NoSuchWorker
                BY DEF NoSuchWorker, Unreported, Registry!NoSuchWorker, Registry!Unreported
            <4> QED
                BY <2>0, <3>2, <4>1, <4>2 DEF Registry!WorkerStep, Registry!RegisterWorker
        <3> QED
            BY <3>1, <3>2
    <2>2. CASE ReportStatus
        <3>1. CASE Accepted("nclet")
            <4>1. PICK m \in MemoryLevels : Store([worker EXCEPT !.memory = m])
                BY <2>2, <3>1, ReportedWorker DEF ReportStatus
            <4>2. worker.exists /\ Registry!ChangeWorker("w", [worker EXCEPT !.memory = m])
                BY <3>1, <4>1, StoreIsChange DEF Accepted
            <4> QED
                BY <2>0, <4>2 DEF Registry!WorkerStep, Registry!ReportStatus
        <3> QED
            BY <2>2, <3>1 DEF ReportStatus, objectVars
    <2>3. CASE MonitorWorkerHealth
        <3>1. CASE /\ copy["manager"].exists /\ seen # NoLease
                   /\ copy["manager"].ready # Alive(seen) /\ Accepted("manager")
            <4>1. copy["manager"] = worker /\ worker.exists
                BY <3>1 DEF HeartbeatInv, Copies, Accepted
            <4>2. Alive(seen) = ~worker.ready
                <5>1. worker.ready \in BOOLEAN
                    BY <2>0 DEF Worker
                <5>2. Alive(seen) \in BOOLEAN
                    BY DEF Alive
                <5> QED
                    BY <3>1, <4>1, <5>1, <5>2
            <4>3. Store([worker EXCEPT !.memory = copy["manager"].memory, !.ready = Alive(seen)])
                BY <2>3, <3>1 DEF MonitorWorkerHealth
            <4>4. [worker EXCEPT !.memory = copy["manager"].memory, !.ready = Alive(seen)]
                     = [worker EXCEPT !.ready = ~@]
                BY <2>0, <4>1, <4>2 DEF Worker
            <4>5. Registry!ChangeWorker("w", [worker EXCEPT !.ready = ~@])
                BY <4>3, <4>4, StoreIsChange
            <4> QED
                BY <2>0, <4>1, <4>5 DEF Registry!WorkerStep, Registry!MonitorWorkerHealth
        <3> QED
            BY <2>3, <3>1 DEF MonitorWorkerHealth, objectVars
    <2>4. CASE SetDisableSchedule
        <3>1. worker.exists /\ Registry!ChangeWorker("w", [worker EXCEPT !.disabled = ~@])
            BY <2>4, StoreIsChange DEF SetDisableSchedule
        <3> QED
            BY <2>0, <3>1 DEF Registry!WorkerStep, Registry!SetDisableSchedule
    <2>5. CASE DeleteWorker
        <3>1. worker.exists /\ Registry!ChangeWorker("w", NoSuchWorker)
            BY <2>5, StoreIsChange DEF DeleteWorker
        <3>2. NoSuchWorker = Registry!NoSuchWorker
            BY DEF NoSuchWorker, Unreported, Registry!NoSuchWorker, Registry!Unreported
        <3> QED
            BY <2>0, <3>1, <3>2 DEF Registry!WorkerStep, Registry!DeleteWorker
    <2>6. ASSUME NEW r \in Readers, ObserveWorker(r) PROVE Step \/ Same
        <3>1. CASE r = "manager"
            <4>1. copy'["manager"] = worker /\ worker' = worker
                BY <2>0, <2>6, <3>1 DEF ObserveWorker, Readers
            <4> QED
                BY <2>0, <4>1 DEF Registry!ObserveWorkers
        <3>2. CASE r # "manager"
            BY <2>0, <2>6, <3>2 DEF ObserveWorker, Readers
        <3> QED
            BY <3>1, <3>2
    <2>7. CASE UNCHANGED objectVars
        BY <2>7 DEF objectVars
    <2> QED
        BY <2>1, <2>2, <2>3, <2>4, <2>5, <2>6, <2>7
           DEF Next, StartLoop, Heartbeat, Stop, ObserveLease, Tick, objectVars, vars
<1> HIDE DEF Step, Same
<1>2. HeartbeatInv /\ [Next]_vars => [Step]_<<worker, copy["manager"]>>
    BY <1>1 DEF Same
<1>3. Spec => [][Step]_<<worker, copy["manager"]>>
    BY <1>2, InitInv, HeartbeatInductive, PTL DEF Spec
<1> QED
    BY <1>3 DEF Step, ImplementsRegistry
=============================================================================
