----------------------------- MODULE Supervisor -----------------------------
(* supervisor.c: the process that forks the workers, reaps and restarts them *)
(* under a rate limit, reloads the configuration on SIGHUP, restarts all on  *)
(* SIGUSR1 and shuts everything down on SIGTERM.                             *)
(*                                                                           *)
(* The supervisor is one thread; pc is its place in supervisor_run.  Signals *)
(* arrive and workers die between any two of its steps.  Restart times are   *)
(* kept as ages in ticks, older than the window all alike.                   *)
EXTENDS Integers, FiniteSets

CONSTANTS
    MaxWorkers,    \* STATUS_MAX_WORKERS
    NumPids,       \* bound: process ids the kernel hands out
    MaxRestarts,   \* MAX_RESTARTS_IN_WINDOW
    RestartWindow, \* RESTART_WINDOW_SEC, in ticks
    MaxWaits,      \* max_timeout of the shutdown, in sleeps
    MaxEvents,     \* bound: crashes, SIGHUPs and SIGUSR1s
    MaxForkFails   \* bound: failures of fork()

ASSUME SupervisorAssumption ==
    /\ MaxWorkers \in Nat \ {0}
    /\ NumPids \in Nat \ {0}
    /\ NumPids >= MaxWorkers
    /\ MaxRestarts \in Nat \ {0}
    /\ RestartWindow \in Nat
    /\ MaxWaits \in Nat
    /\ MaxEvents \in Nat
    /\ MaxForkFails \in Nat

Idx == 0..(MaxWorkers - 1)

Pids == 1..NumPids

Old == RestartWindow + 1

VARIABLES
    pc,          \* place in supervisor_run
    k,           \* index of the loop that pc is in
    desired,     \* desired_workers
    pid,         \* workers[i].pid, 0 if not running
    times,       \* ages of workers[i].restart_times, newest first
    rateLimited, \* workers[i].rate_limited
    retiring,    \* workers[i].retiring
    stop,        \* supervisor_stop_flag
    reload,      \* supervisor_reload_flag
    usr1,        \* supervisor_restart_workers_flag
    waits,       \* timeout_count
    proc,        \* kernel: what each process is
    restarts,    \* history: ages of the restarts of each index, one more than times keeps
    events,      \* crashes and signals so far
    forkFails    \* failed forks so far

table == <<pid, times, rateLimited, retiring, restarts>>

flags == <<stop, reload, usr1>>

vars == <<pc, k, desired, table, flags, waits, proc, events, forkFails>>

ProcStates == {"free", "alive", "term", "zombie"}

-----------------------------------------------------------------------------
(* The kernel and the users (external).                                      *)

Crash(p) ==
    /\ proc[p] = "alive"
    /\ events < MaxEvents
    /\ proc' = [proc EXCEPT ![p] = "zombie"]
    /\ events' = events + 1
    /\ UNCHANGED <<pc, k, desired, table, flags, waits, forkFails>>

\* A worker that got SIGTERM leaves its loop and exits; it may also hang.
Exit(p) ==
    /\ proc[p] = "term"
    /\ proc' = [proc EXCEPT ![p] = "zombie"]
    /\ UNCHANGED <<pc, k, desired, table, flags, waits, events, forkFails>>

\* supervisor_sighup_handler, supervisor_sigusr1_handler
Sighup ==
    /\ events < MaxEvents
    /\ pc # "done"
    /\ reload' = TRUE
    /\ events' = events + 1
    /\ UNCHANGED <<pc, k, desired, table, stop, usr1, waits, proc, forkFails>>

Sigusr1 ==
    /\ events < MaxEvents
    /\ pc # "done"
    /\ usr1' = TRUE
    /\ events' = events + 1
    /\ UNCHANGED <<pc, k, desired, table, stop, reload, waits, proc, forkFails>>

\* supervisor_signal_handler
Sigterm ==
    /\ ~stop
    /\ stop' = TRUE
    /\ UNCHANGED <<pc, k, desired, table, reload, usr1, waits, proc, events, forkFails>>

\* kill(pid, SIGTERM) for the workers in s; a zombie stays one.
Terminated(s) ==
    [p \in Pids |-> IF proc[p] = "alive" /\ \E i \in s : pid[i] = p
                    THEN "term" ELSE proc[p]]

-----------------------------------------------------------------------------
(* The worker table.                                                         *)

Recent(ages) == Cardinality({j \in DOMAIN ages : ages[j] <= RestartWindow})

RestartAllowed(i) == Recent(times[i]) < MaxRestarts

\* spawn_worker: fork() gives a fresh process or fails.
SpawnWorker(i) ==
    \/ \E p \in Pids :
          /\ proc[p] = "free"
          /\ proc' = [proc EXCEPT ![p] = "alive"]
          /\ pid' = [pid EXCEPT ![i] = p]
          /\ retiring' = [retiring EXCEPT ![i] = FALSE]
          /\ UNCHANGED forkFails
    \/ /\ forkFails < MaxForkFails
       /\ forkFails' = forkFails + 1
       /\ UNCHANGED <<proc, pid, retiring>>

Shifted(ages) == [j \in DOMAIN ages |-> IF j = 1 THEN 0 ELSE ages[j - 1]]

\* record_restart, and the history the rate is judged by.
RecordRestart(i) ==
    /\ times' = [times EXCEPT ![i] = Shifted(@)]
    /\ restarts' = [restarts EXCEPT ![i] = Shifted(@)]
    /\ rateLimited' = [rateLimited EXCEPT ![i] = FALSE]

-----------------------------------------------------------------------------
(* supervisor_run.                                                           *)

\* Spawn all workers; the loop ends early on a stop signal.
StartWorker ==
    /\ pc = "start"
    /\ k < desired /\ ~stop
    /\ SpawnWorker(k)
    /\ k' = k + 1
    /\ UNCHANGED <<pc, desired, times, rateLimited, restarts, flags, waits, events>>

Started ==
    /\ pc = "start"
    /\ k >= desired \/ stop
    /\ pc' = IF stop THEN "shutdown" ELSE "reap"
    /\ k' = 0
    /\ UNCHANGED <<desired, table, flags, waits, proc, events, forkFails>>

\* Restart only worker indexes still desired by the current config.
ReapRestarts(i) == ~stop /\ i < desired /\ ~retiring[i]

\* One turn of the waitpid loop: a child is collected, its index freed (its
\* shared status reclaimed), and restarted if the rate allows.
Reap(i) ==
    /\ pc = "reap"
    /\ pid[i] # 0
    /\ proc[pid[i]] = "zombie"
    /\ LET freed == [proc EXCEPT ![pid[i]] = "free"]
       IN  \/ /\ ReapRestarts(i) /\ RestartAllowed(i)
              /\ RecordRestart(i)
              /\ \/ \E p \in Pids :
                       /\ freed[p] = "free"
                       /\ proc' = [freed EXCEPT ![p] = "alive"]
                       /\ pid' = [pid EXCEPT ![i] = p]
                       /\ retiring' = [retiring EXCEPT ![i] = FALSE]
                       /\ UNCHANGED forkFails
                 \/ /\ forkFails < MaxForkFails
                    /\ forkFails' = forkFails + 1
                    /\ proc' = freed
                    /\ pid' = [pid EXCEPT ![i] = 0]
                    /\ UNCHANGED retiring
           \/ /\ ~(ReapRestarts(i) /\ RestartAllowed(i))
              /\ proc' = freed
              /\ pid' = [pid EXCEPT ![i] = 0]
              /\ rateLimited' = [rateLimited EXCEPT ![i] = @ \/ ReapRestarts(i)]
              /\ UNCHANGED <<times, retiring, restarts, forkFails>>
    /\ UNCHANGED <<pc, k, desired, flags, waits, events>>

Reaped ==
    /\ pc = "reap"
    /\ \A i \in Idx : pid[i] # 0 => proc[pid[i]] # "zombie"
    /\ pc' = "limit"
    /\ k' = 0
    /\ UNCHANGED <<desired, table, flags, waits, proc, events, forkFails>>

\* Faulty variant: only a worker that runs is looked at.
CanUnlimitRunning(i) == rateLimited[i] /\ pid[i] # 0 /\ ~retiring[i] /\ ~stop /\ RestartAllowed(i)

CanUnlimit(i) == rateLimited[i] /\ pid[i] = 0 /\ ~retiring[i] /\ ~stop /\ RestartAllowed(i)

\* The pass over rate-limited workers, an index at a time.
Unlimit ==
    /\ pc = "limit"
    /\ k < desired
    /\ CanUnlimit(k)
    /\ RecordRestart(k)
    /\ SpawnWorker(k)
    /\ k' = k + 1
    /\ UNCHANGED <<pc, desired, flags, waits, events>>

UnlimitSkip ==
    /\ pc = "limit"
    /\ k < desired
    /\ ~CanUnlimit(k)
    /\ k' = k + 1
    /\ UNCHANGED <<pc, desired, table, flags, waits, proc, events, forkFails>>

Unlimited ==
    /\ pc = "limit"
    /\ k >= desired
    /\ pc' = "reload"
    /\ k' = 0
    /\ UNCHANGED <<desired, table, flags, waits, proc, events, forkFails>>

\* Where the main loop goes on from its top.
LoopTop == IF stop THEN "shutdown" ELSE "reap"

NoReload ==
    /\ pc = "reload"
    /\ ~reload
    /\ pc' = "usr1"
    /\ UNCHANGED <<k, desired, table, flags, waits, proc, events, forkFails>>

\* A snapshot, the file, the PID file or a listener fails: everything is
\* restored; the early ones also go straight back to the top of the loop.
ReloadFailed ==
    /\ pc = "reload"
    /\ reload
    /\ reload' = FALSE
    /\ pc' \in {LoopTop, "usr1"}
    /\ UNCHANGED <<k, desired, table, stop, usr1, waits, proc, events, forkFails>>

\* Faulty variant: an index that comes back still retires.
ReloadGrowStillRetiring(n, bindChanged) ==
    /\ pc = "reload"
    /\ reload
    /\ n >= desired
    /\ reload' = FALSE
    /\ desired' = n
    /\ proc' = IF bindChanged THEN Terminated(Idx) ELSE proc
    /\ pc' = "grow"
    /\ k' = desired
    /\ UNCHANGED <<pid, times, rateLimited, retiring, restarts, stop, usr1, waits, events, forkFails>>

\* More workers, or as many: new indexes are no longer retiring; with new
\* bind addresses all workers are terminated, else SIGHUP is forwarded.
ReloadGrow(n, bindChanged) ==
    /\ pc = "reload"
    /\ reload
    /\ n >= desired
    /\ reload' = FALSE
    /\ desired' = n
    /\ retiring' = [i \in Idx |-> retiring[i] /\ ~(desired <= i /\ i < n)]
    /\ proc' = IF bindChanged THEN Terminated(Idx) ELSE proc
    /\ pc' = "grow"
    /\ k' = desired
    /\ UNCHANGED <<pid, times, rateLimited, restarts, stop, usr1, waits, events, forkFails>>

\* Fewer workers: the excess ones retire and are terminated.
ReloadShrink(n, bindChanged) ==
    /\ pc = "reload"
    /\ reload
    /\ n < desired
    /\ reload' = FALSE
    /\ desired' = n
    /\ retiring' = [i \in Idx |-> retiring[i] \/ (n <= i /\ i < desired)]
    /\ rateLimited' = [i \in Idx |-> rateLimited[i] /\ ~(n <= i /\ i < desired)]
    /\ proc' = Terminated(IF bindChanged THEN Idx ELSE {i \in Idx : n <= i /\ i < desired})
    /\ pc' = "usr1"
    /\ UNCHANGED <<k, pid, times, restarts, stop, usr1, waits, events, forkFails>>

GrowSpawns(i) == pid[i] = 0

Grow ==
    /\ pc = "grow"
    /\ k < desired
    /\ GrowSpawns(k)
    /\ SpawnWorker(k)
    /\ k' = k + 1
    /\ UNCHANGED <<pc, desired, times, rateLimited, restarts, flags, waits, events>>

GrowSkip ==
    /\ pc = "grow"
    /\ k < desired
    /\ ~GrowSpawns(k)
    /\ k' = k + 1
    /\ UNCHANGED <<pc, desired, table, flags, waits, proc, events, forkFails>>

Grown ==
    /\ pc = "grow"
    /\ k >= desired
    /\ pc' = "usr1"
    /\ k' = 0
    /\ UNCHANGED <<desired, table, flags, waits, proc, events, forkFails>>

\* Handle SIGUSR1, then go to sleep.
RestartWorkers ==
    /\ pc = "usr1"
    /\ usr1' = FALSE
    /\ proc' = IF usr1 THEN Terminated(Idx) ELSE proc
    /\ pc' = "sleep"
    /\ UNCHANGED <<k, desired, table, stop, reload, waits, events, forkFails>>

Aged(ages) == [j \in DOMAIN ages |-> IF ages[j] < Old THEN ages[j] + 1 ELSE Old]

\* usleep, in which a tick may pass; then back to the top.
Sleep(tick) ==
    /\ pc = "sleep"
    /\ pc' = LoopTop
    /\ IF tick
       THEN /\ times' = [i \in Idx |-> Aged(times[i])]
            /\ restarts' = [i \in Idx |-> Aged(restarts[i])]
       ELSE UNCHANGED <<times, restarts>>
    /\ UNCHANGED <<k, desired, pid, rateLimited, retiring, flags, waits, proc, events, forkFails>>

\* The stop signal is passed on.
Shutdown ==
    /\ pc = "shutdown"
    /\ proc' = Terminated(Idx)
    /\ pc' = "wait"
    /\ UNCHANGED <<k, desired, table, flags, waits, events, forkFails>>

Running == {i \in Idx : pid[i] # 0}

\* The shutdown's waitpid loop.
WaitReap(i) ==
    /\ pc = "wait"
    /\ waits < MaxWaits
    /\ i \in Running
    /\ proc[pid[i]] = "zombie"
    /\ proc' = [proc EXCEPT ![pid[i]] = "free"]
    /\ pid' = [pid EXCEPT ![i] = 0]
    /\ UNCHANGED <<pc, k, desired, times, rateLimited, retiring, restarts, flags, waits,
                   events, forkFails>>

\* Faulty variant: the sleeps are not counted.
WaitSleepUncounted ==
    /\ pc = "wait"
    /\ waits < MaxWaits
    /\ Running # {}
    /\ \A i \in Running : proc[pid[i]] # "zombie"
    /\ UNCHANGED vars

WaitSleep ==
    /\ pc = "wait"
    /\ waits < MaxWaits
    /\ Running # {}
    /\ \A i \in Running : proc[pid[i]] # "zombie"
    /\ waits' = waits + 1
    /\ UNCHANGED <<pc, k, desired, table, flags, proc, events, forkFails>>

\* Faulty variant: the shutdown ends with the timeout.
FinishWithoutKill ==
    /\ pc = "wait"
    /\ Running = {} \/ waits >= MaxWaits
    /\ pid' = [i \in Idx |-> 0]
    /\ pc' = "done"
    /\ UNCHANGED <<k, desired, times, rateLimited, retiring, restarts, flags, waits, proc,
                   events, forkFails>>

\* All are gone, or the rest is killed and collected.
Finish ==
    /\ pc = "wait"
    /\ Running = {} \/ waits >= MaxWaits
    /\ proc' = [p \in Pids |-> IF \E i \in Idx : pid[i] = p THEN "free" ELSE proc[p]]
    /\ pid' = [i \in Idx |-> 0]
    /\ pc' = "done"
    /\ UNCHANGED <<k, desired, times, rateLimited, retiring, restarts, flags, waits,
                   events, forkFails>>

-----------------------------------------------------------------------------
Init ==
    /\ pc = "start"
    /\ k = 0
    /\ desired \in 1..MaxWorkers
    /\ pid = [i \in Idx |-> 0]
    /\ times = [i \in Idx |-> [j \in 1..MaxRestarts |-> Old]]
    /\ rateLimited = [i \in Idx |-> FALSE]
    /\ retiring = [i \in Idx |-> FALSE]
    /\ stop = FALSE
    /\ reload = FALSE
    /\ usr1 = FALSE
    /\ waits = 0
    /\ proc = [p \in Pids |-> "free"]
    /\ restarts = [i \in Idx |-> [j \in 1..(MaxRestarts + 1) |-> Old]]
    /\ events = 0
    /\ forkFails = 0

SupervisorStep ==
    \/ StartWorker \/ Started
    \/ \E i \in Idx : Reap(i)
    \/ Reaped \/ Unlimit \/ UnlimitSkip \/ Unlimited
    \/ NoReload \/ ReloadFailed
    \/ \E n \in 1..MaxWorkers, b \in BOOLEAN : ReloadGrow(n, b) \/ ReloadShrink(n, b)
    \/ Grow \/ GrowSkip \/ Grown
    \/ RestartWorkers
    \/ \E tick \in BOOLEAN : Sleep(tick)
    \/ Shutdown
    \/ \E i \in Idx : WaitReap(i)
    \/ WaitSleep \/ Finish

Next ==
    \/ SupervisorStep
    \/ \E p \in Pids : Crash(p) \/ Exit(p)
    \/ Sighup \/ Sigusr1 \/ Sigterm

(* The supervisor's loop runs and the clock advances.  Workers that got      *)
(* SIGTERM exit, which a reload or restart relies on; once the supervisor    *)
(* stops they may hang, for the shutdown has a timeout of its own.           *)
Spec ==
    /\ Init /\ [][Next]_vars
    /\ WF_vars(SupervisorStep)
    /\ SF_vars(Sleep(TRUE))
    /\ \A p \in Pids : WF_vars(~stop /\ Exit(p))

-----------------------------------------------------------------------------
TypeOK ==
    /\ pc \in {"start", "reap", "limit", "reload", "grow", "usr1", "sleep", "shutdown", "wait", "done"}
    /\ k \in 0..MaxWorkers
    /\ desired \in 1..MaxWorkers
    /\ pid \in [Idx -> Pids \cup {0}]
    /\ times \in [Idx -> [1..MaxRestarts -> 0..Old]]
    /\ restarts \in [Idx -> [1..(MaxRestarts + 1) -> 0..Old]]
    /\ rateLimited \in [Idx -> BOOLEAN]
    /\ retiring \in [Idx -> BOOLEAN]
    /\ <<stop, reload, usr1>> \in BOOLEAN \X BOOLEAN \X BOOLEAN
    /\ waits \in 0..MaxWaits
    /\ proc \in [Pids -> ProcStates]
    /\ events \in 0..MaxEvents
    /\ forkFails \in 0..MaxForkFails

\* Every process the supervisor forked is in its table, under one index, and
\* every pid in the table is such a process: no kill or status reclaim hits a
\* stranger, and no worker escapes the shutdown.
ChildrenTracked ==
    /\ \A p \in Pids : proc[p] # "free" <=> \E i \in Idx : pid[i] = p
    /\ \A i, j \in Running : pid[i] = pid[j] => i = j
    /\ pc = "start" => \A i \in Idx : k <= i => pid[i] = 0

\* Of any MaxRestarts + 1 restarts of an index in a row the first is out of the
\* window, across retiring, reloads and the rate-limited pass; the table keeps
\* the times of all but that one, newest first.
RestartRateHeld ==
    \A i \in Idx :
        /\ restarts[i][MaxRestarts + 1] = Old
        /\ \A j \in 1..MaxRestarts : times[i][j] = restarts[i][j]
        /\ \A j, l \in 1..MaxRestarts : j <= l => times[i][j] <= times[i][l]

\* A desired worker that is down is marked for the rate-limited pass, or the
\* loop that spawns it is still to come to it: as long as no fork() failed
\* nobody is forgotten, not even an index that retired before it was wanted again.
DownIsMarked ==
    /\ \A i \in Idx : retiring[i] => i >= desired
    /\ pc \in {"shutdown", "wait", "done"} => stop
    /\ ~stop /\ forkFails = 0 => \A i \in Idx :
         i < desired => pid[i] # 0 \/ rateLimited[i] \/ (pc \in {"start", "grow"} /\ k <= i)

\* The worker table between any two steps of supervisor_run: it matches the
\* processes, keeps the restart rate and forgets no worker that is wanted.
TableInv == TypeOK /\ ChildrenTracked /\ RestartRateHeld /\ DownIsMarked

Up(i) == pid[i] # 0 /\ proc[pid[i]] = "alive"

\* After the shutdown no worker is left, hung ones included.
NoneLeftBehind == pc = "done" => \A p \in Pids : proc[p] = "free"

\* A stop signal ends the supervisor although workers may ignore SIGTERM.
ShutdownCompletes == stop ~> pc = "done"

\* Once crashes and signals end, all desired workers run, whatever mixture
\* of restarts, rate limits, reductions and enlargements went before, as long
\* as no fork() failed.
WorkersComeBack ==
    <>[](stop \/ forkFails > 0 \/ \A i \in 0..(desired - 1) : Up(i))
=============================================================================
