-------------------------- MODULE SupervisorProofs --------------------------
(* The worker table of the supervisor, for every number of workers, process  *)
(* ids, restarts and signals.                                                *)
EXTENDS Supervisor, FiniteSetTheorems, TLAPS

USE SupervisorAssumption

-----------------------------------------------------------------------------
(* Types.                                                                    *)

LEMMA InitTypeOK == Init => TypeOK
<1> SUFFICES ASSUME Init PROVE TypeOK
  OBVIOUS
<1>1. /\ pc = "start" /\ k \in 0..MaxWorkers /\ desired \in 1..MaxWorkers
      /\ waits \in 0..MaxWaits /\ events \in 0..MaxEvents /\ forkFails \in 0..MaxForkFails
  BY DEF Init
<1>6. <<stop, reload, usr1>> \in BOOLEAN \X BOOLEAN \X BOOLEAN
  BY DEF Init
<1>2. /\ pid \in [Idx -> Pids \cup {0}] /\ proc \in [Pids -> ProcStates]
      /\ rateLimited \in [Idx -> BOOLEAN] /\ retiring \in [Idx -> BOOLEAN]
  BY DEF Init, ProcStates
<1>3. Old \in 0..Old
  BY DEF Old
<1>4. /\ times \in [Idx -> [1..MaxRestarts -> 0..Old]]
      /\ restarts \in [Idx -> [1..(MaxRestarts + 1) -> 0..Old]]
  BY <1>3 DEF Init
<1>5. QED
  BY <1>1, <1>2, <1>4, <1>6 DEF TypeOK

\* fork() hands out a process that is in nobody's hands.
LEMMA SpawnTypes ==
    ASSUME TypeOK, NEW i \in Idx, SpawnWorker(i)
    PROVE  /\ proc' \in [Pids -> ProcStates] /\ pid' \in [Idx -> Pids \cup {0}]
           /\ retiring' \in [Idx -> BOOLEAN] /\ forkFails' \in 0..MaxForkFails
<1>1. /\ proc \in [Pids -> ProcStates] /\ pid \in [Idx -> Pids \cup {0}]
      /\ retiring \in [Idx -> BOOLEAN] /\ forkFails \in 0..MaxForkFails
  BY DEF TypeOK
<1>2. "alive" \in ProcStates
  BY DEF ProcStates
<1>3. CASE forkFails < MaxForkFails /\ forkFails' = forkFails + 1 /\ UNCHANGED <<proc, pid, retiring>>
  <2>1. forkFails' \in 0..MaxForkFails
    BY <1>1, <1>3
  <2>2. QED
    BY <1>1, <1>3, <2>1
<1>4. ASSUME NEW p \in Pids, proc' = [proc EXCEPT ![p] = "alive"], pid' = [pid EXCEPT ![i] = p],
             retiring' = [retiring EXCEPT ![i] = FALSE], UNCHANGED forkFails
      PROVE  /\ proc' \in [Pids -> ProcStates] /\ pid' \in [Idx -> Pids \cup {0}]
             /\ retiring' \in [Idx -> BOOLEAN] /\ forkFails' \in 0..MaxForkFails
  BY <1>1, <1>2, <1>4
<1>5. QED
  BY <1>3, <1>4 DEF SpawnWorker

LEMMA RecordTypes ==
    ASSUME TypeOK, NEW i \in Idx, RecordRestart(i)
    PROVE  /\ times' \in [Idx -> [1..MaxRestarts -> 0..Old]]
           /\ restarts' \in [Idx -> [1..(MaxRestarts + 1) -> 0..Old]]
           /\ rateLimited' \in [Idx -> BOOLEAN]
           /\ times'[i] = Shifted(times[i]) /\ restarts'[i] = Shifted(restarts[i])
<1>1. ASSUME NEW n \in Nat, NEW f \in [1..n -> 0..Old]
      PROVE  Shifted(f) \in [1..n -> 0..Old]
  BY <1>1 DEF Shifted, Old
<1>2. Shifted(times[i]) \in [1..MaxRestarts -> 0..Old]
  BY <1>1 DEF TypeOK
<1>3. Shifted(restarts[i]) \in [1..(MaxRestarts + 1) -> 0..Old]
  <2>1. MaxRestarts + 1 \in Nat
    OBVIOUS
  <2>2. QED
    BY <1>1, <2>1 DEF TypeOK
<1>4. QED
  BY <1>2, <1>3 DEF TypeOK, RecordRestart

LEMMA TerminatedTypes ==
    ASSUME TypeOK, NEW s
    PROVE  Terminated(s) \in [Pids -> ProcStates]
BY DEF TypeOK, Terminated, ProcStates

LEMMA AgedTypes ==
    ASSUME NEW n \in Nat, NEW f \in [1..n -> 0..Old]
    PROVE  Aged(f) \in [1..n -> 0..Old]
BY DEF Aged, Old

LEMMA TypeStep == TypeOK /\ [Next]_vars => TypeOK'
<1> SUFFICES ASSUME TypeOK, [Next]_vars PROVE TypeOK'
  OBVIOUS
<1>1. CASE StartWorker
  <2>1. k \in Idx /\ k + 1 \in 0..MaxWorkers
    BY <1>1 DEF StartWorker, TypeOK, Idx
  <2>2. QED
    BY <1>1, <2>1, SpawnTypes DEF StartWorker, TypeOK, flags
<1>2. CASE Started
  BY <1>2 DEF Started, TypeOK, table, flags
<1>3. ASSUME NEW i \in Idx, Reap(i) PROVE TypeOK'
  <2>1. pid[i] \in Pids /\ UNCHANGED <<pc, k, desired, flags, waits, events>>
    BY <1>3 DEF Reap, TypeOK
  <2>2. /\ proc' \in [Pids -> ProcStates] /\ pid' \in [Idx -> Pids \cup {0}]
        /\ retiring' \in [Idx -> BOOLEAN] /\ forkFails' \in 0..MaxForkFails
    <3> DEFINE freed == [proc EXCEPT ![pid[i]] = "free"]
    <3>1. /\ "free" \in ProcStates /\ "alive" \in ProcStates
      BY DEF ProcStates
    <3>2. /\ freed \in [Pids -> ProcStates] /\ pid \in [Idx -> Pids \cup {0}]
          /\ retiring \in [Idx -> BOOLEAN] /\ forkFails \in 0..MaxForkFails
      BY <2>1, <3>1 DEF TypeOK
    <3>3. CASE proc' = freed /\ pid' = [pid EXCEPT ![i] = 0] /\ UNCHANGED retiring
               /\ (UNCHANGED forkFails \/ (forkFails < MaxForkFails /\ forkFails' = forkFails + 1))
      <4> HIDE DEF freed
      <4>1. forkFails' \in 0..MaxForkFails
        BY <3>2, <3>3
      <4>2. QED
        BY <3>2, <3>3, <4>1
    <3>4. ASSUME NEW p \in Pids, proc' = [freed EXCEPT ![p] = "alive"], pid' = [pid EXCEPT ![i] = p],
                 retiring' = [retiring EXCEPT ![i] = FALSE], UNCHANGED forkFails
          PROVE  /\ proc' \in [Pids -> ProcStates] /\ pid' \in [Idx -> Pids \cup {0}]
                 /\ retiring' \in [Idx -> BOOLEAN] /\ forkFails' \in 0..MaxForkFails
      <4> HIDE DEF freed
      <4>1. QED
        BY <3>1, <3>2, <3>4
    <3>5. QED
      BY <1>3, <3>3, <3>4 DEF Reap
  <2>3. /\ times' \in [Idx -> [1..MaxRestarts -> 0..Old]]
        /\ restarts' \in [Idx -> [1..(MaxRestarts + 1) -> 0..Old]]
        /\ rateLimited' \in [Idx -> BOOLEAN]
    <3>1. CASE RecordRestart(i)
      BY <3>1, RecordTypes
    <3>2. CASE ~RecordRestart(i)
      BY <1>3, <3>2 DEF Reap, TypeOK
    <3>3. QED
      BY <3>1, <3>2
  <2>4. QED
    BY <2>1, <2>2, <2>3 DEF TypeOK, flags
<1>4. CASE Reaped
  BY <1>4 DEF Reaped, TypeOK, table, flags
<1>5. CASE Unlimit
  <2>1. k \in Idx /\ k + 1 \in 0..MaxWorkers
    BY <1>5 DEF Unlimit, TypeOK, Idx
  <2>2. QED
    BY <1>5, <2>1, SpawnTypes, RecordTypes DEF Unlimit, TypeOK, flags
<1>6. CASE UnlimitSkip \/ Unlimited \/ NoReload \/ GrowSkip \/ Grown
  <2>1. k' \in 0..MaxWorkers
    BY <1>6 DEF UnlimitSkip, Unlimited, NoReload, GrowSkip, Grown, TypeOK
  <2>2. pc' \in {"limit", "reload", "usr1", "grow"}
    BY <1>6 DEF UnlimitSkip, Unlimited, NoReload, GrowSkip, Grown
  <2>3. UNCHANGED <<desired, table, flags, waits, proc, events, forkFails>>
    BY <1>6 DEF UnlimitSkip, Unlimited, NoReload, GrowSkip, Grown
  <2>4. QED
    BY <2>1, <2>2, <2>3 DEF TypeOK, table, flags
<1>7. CASE ReloadFailed
  <2>1. <<stop, reload, usr1>>' \in BOOLEAN \X BOOLEAN \X BOOLEAN
    BY <1>7 DEF ReloadFailed, TypeOK
  <2>2. pc' \in {"shutdown", "reap", "usr1"}
    BY <1>7 DEF ReloadFailed, LoopTop
  <2>3. QED
    BY <1>7, <2>1, <2>2 DEF ReloadFailed, TypeOK, table
<1>8. ASSUME NEW n \in 1..MaxWorkers, NEW b \in BOOLEAN, ReloadGrow(n, b) PROVE TypeOK'
  <2>1. proc' \in [Pids -> ProcStates]
    BY <1>8, TerminatedTypes DEF ReloadGrow, TypeOK
  <2>2. retiring' \in [Idx -> BOOLEAN] /\ k' \in 0..MaxWorkers
    BY <1>8 DEF ReloadGrow, TypeOK
  <2>3. QED
    BY <1>8, <2>1, <2>2 DEF ReloadGrow, TypeOK
<1>9. ASSUME NEW n \in 1..MaxWorkers, NEW b \in BOOLEAN, ReloadShrink(n, b) PROVE TypeOK'
  <2>1. proc' \in [Pids -> ProcStates]
    BY <1>9, TerminatedTypes DEF ReloadShrink
  <2>2. retiring' \in [Idx -> BOOLEAN] /\ rateLimited' \in [Idx -> BOOLEAN]
    BY <1>9 DEF ReloadShrink, TypeOK
  <2>3. QED
    BY <1>9, <2>1, <2>2 DEF ReloadShrink, TypeOK
<1>10. CASE Grow
  <2>1. k \in Idx /\ k + 1 \in 0..MaxWorkers
    BY <1>10 DEF Grow, TypeOK, Idx
  <2>2. QED
    BY <1>10, <2>1, SpawnTypes DEF Grow, TypeOK, flags
<1>11. CASE RestartWorkers
  BY <1>11, TerminatedTypes DEF RestartWorkers, TypeOK, table
<1>12. ASSUME NEW tick \in BOOLEAN, Sleep(tick) PROVE TypeOK'
  <2>1. \A i \in Idx : /\ Aged(times[i]) \in [1..MaxRestarts -> 0..Old]
                       /\ Aged(restarts[i]) \in [1..(MaxRestarts + 1) -> 0..Old]
    <3>1. MaxRestarts \in Nat /\ MaxRestarts + 1 \in Nat
      OBVIOUS
    <3>2. QED
      BY <3>1, AgedTypes DEF TypeOK
  <2>2. /\ times' \in [Idx -> [1..MaxRestarts -> 0..Old]]
        /\ restarts' \in [Idx -> [1..(MaxRestarts + 1) -> 0..Old]]
    <3>1. CASE tick
      BY <1>12, <2>1, <3>1 DEF Sleep
    <3>2. CASE ~tick
      BY <1>12, <3>2 DEF Sleep, TypeOK
    <3>3. QED
      BY <3>1, <3>2
  <2>3. QED
    BY <1>12, <2>2 DEF Sleep, LoopTop, TypeOK, flags
<1>13. CASE Shutdown
  BY <1>13, TerminatedTypes DEF Shutdown, TypeOK, table, flags
<1>14. ASSUME NEW i \in Idx, WaitReap(i) PROVE TypeOK'
  <2>1. pid[i] \in Pids /\ "free" \in ProcStates
    BY <1>14 DEF WaitReap, TypeOK, Running, ProcStates
  <2>2. proc' \in [Pids -> ProcStates] /\ pid' \in [Idx -> Pids \cup {0}]
    BY <1>14, <2>1 DEF WaitReap, TypeOK
  <2>3. QED
    BY <1>14, <2>2 DEF WaitReap, TypeOK, flags
<1>15. CASE WaitSleep
  BY <1>15 DEF WaitSleep, TypeOK, table, flags
<1>16. CASE Finish
  <2>1. proc' \in [Pids -> ProcStates] /\ pid' \in [Idx -> Pids \cup {0}]
    BY <1>16 DEF Finish, TypeOK, ProcStates
  <2>2. QED
    BY <1>16, <2>1 DEF Finish, TypeOK, flags
<1>17. ASSUME NEW p \in Pids, Crash(p) \/ Exit(p) PROVE TypeOK'
  <2>1. proc' \in [Pids -> ProcStates] /\ events' \in 0..MaxEvents
    <3>1. "zombie" \in ProcStates
      BY DEF ProcStates
    <3>2. proc' = [proc EXCEPT ![p] = "zombie"] /\ (events' = events \/ (events < MaxEvents /\ events' = events + 1))
      BY <1>17 DEF Crash, Exit
    <3>3. events' \in 0..MaxEvents
      BY <3>2 DEF TypeOK
    <3>4. QED
      BY <3>1, <3>2, <3>3 DEF TypeOK
  <2>2. QED
    BY <1>17, <2>1 DEF Crash, Exit, TypeOK, table, flags
<1>18. CASE Sighup \/ Sigusr1 \/ Sigterm
  <2>1. <<stop, reload, usr1>>' \in BOOLEAN \X BOOLEAN \X BOOLEAN
    BY <1>18 DEF Sighup, Sigusr1, Sigterm, TypeOK
  <2>2. events' \in 0..MaxEvents
    BY <1>18 DEF Sighup, Sigusr1, Sigterm, TypeOK
  <2>3. QED
    BY <1>18, <2>1, <2>2 DEF Sighup, Sigusr1, Sigterm, TypeOK, table
<1>19. CASE UNCHANGED vars
  BY <1>19 DEF vars, table, flags, TypeOK
<1>20. QED
  BY <1>1, <1>2, <1>3, <1>4, <1>5, <1>6, <1>7, <1>8, <1>9, <1>10, <1>11, <1>12, <1>13, <1>14,
     <1>15, <1>16, <1>17, <1>18, <1>19 DEF Next, SupervisorStep

-----------------------------------------------------------------------------
(* The table and the processes.                                              *)

\* kill(2), exits and crashes neither make nor collect a process.
LEMMA NoneCollected ==
    ASSUME ChildrenTracked, pid' = pid, \A p \in Pids : proc'[p] = "free" <=> proc[p] = "free",
           pc' = "start" => pc = "start" /\ k <= k'
    PROVE  TypeOK /\ TypeOK' => ChildrenTracked'
<1> SUFFICES ASSUME TypeOK, TypeOK' PROVE ChildrenTracked'
  OBVIOUS
<1>1. pc' = "start" => \A i \in Idx : k' <= i => pid'[i] = 0
  <2> SUFFICES ASSUME pc' = "start", NEW i \in Idx, k' <= i PROVE pid'[i] = 0
    OBVIOUS
  <2>1. k \in Int /\ k' \in Int /\ i \in Int /\ k <= k'
    BY DEF TypeOK, Idx
  <2>2. k <= i
    BY <2>1
  <2>3. QED
    BY <2>2 DEF ChildrenTracked
<1>2. QED
  BY <1>1 DEF ChildrenTracked, Running

LEMMA TerminatedFree ==
    ASSUME TypeOK, NEW s, NEW p \in Pids
    PROVE  Terminated(s)[p] = "free" <=> proc[p] = "free"
BY DEF TypeOK, Terminated

\* A worker is spawned under an index that has none.
LEMMA Spawned ==
    ASSUME TypeOK, ChildrenTracked, NEW i \in Idx, pid[i] = 0, SpawnWorker(i),
           pc' = pc, pc = "start" => k = i /\ k' = k + 1
    PROVE  ChildrenTracked'
<1>0. pc' = "start" => \A j \in Idx : k' <= j => k <= j /\ j # i
  <2> SUFFICES ASSUME pc' = "start", NEW j \in Idx, k' <= j PROVE k <= j /\ j # i
    OBVIOUS
  <2>1. k \in Int /\ j \in Int /\ k = i /\ k' = k + 1
    BY DEF TypeOK, Idx
  <2>2. QED
    BY <2>1
<1>1. CASE UNCHANGED <<proc, pid>>
  <2>1. pc' = "start" => \A j \in Idx : k' <= j => pid'[j] = 0
    BY <1>0, <1>1 DEF ChildrenTracked
  <2>2. QED
    BY <1>1, <2>1 DEF ChildrenTracked, Running
<1>2. ASSUME NEW p \in Pids, proc[p] = "free",
             proc' = [proc EXCEPT ![p] = "alive"], pid' = [pid EXCEPT ![i] = p]
      PROVE  ChildrenTracked'
  <2>1. \A j \in Idx : pid[j] # p
    BY <1>2 DEF ChildrenTracked
  <2>2. \A j \in Idx : pid'[j] = IF j = i THEN p ELSE pid[j]
    BY <1>2 DEF TypeOK
  <2>3. \A q \in Pids : proc'[q] = IF q = p THEN "alive" ELSE proc[q]
    BY <1>2 DEF TypeOK
  <2>4. \A q \in Pids : proc'[q] # "free" <=> \E j \in Idx : pid'[j] = q
    <3> SUFFICES ASSUME NEW q \in Pids
                 PROVE  proc'[q] # "free" <=> \E j \in Idx : pid'[j] = q
      OBVIOUS
    <3>1. CASE q = p
      BY <2>2, <2>3, <3>1
    <3>2. CASE q # p
      <4>1. pid[i] # q
        BY DEF Pids
      <4>2. QED
        BY <2>2, <2>3, <3>2, <4>1 DEF ChildrenTracked
    <3>3. QED
      BY <3>1, <3>2
  <2>5. \A j, l \in Running' : pid'[j] = pid'[l] => j = l
    BY <2>1, <2>2 DEF ChildrenTracked, Running
  <2>6. pc' = "start" => \A j \in Idx : k' <= j => pid'[j] = 0
    BY <1>0, <2>2 DEF ChildrenTracked
  <2>7. QED
    BY <2>4, <2>5, <2>6 DEF ChildrenTracked
<1>3. QED
  BY <1>1, <1>2 DEF SpawnWorker

\* A child is collected and its index freed, or given to a new process.
LEMMA Collected ==
    ASSUME TypeOK, ChildrenTracked, NEW i \in Idx, pid[i] # 0, NEW q \in Pids \cup {0},
           pid' = [pid EXCEPT ![i] = q], pc' = pc, pc # "start",
           \/ q = 0 /\ proc' = [proc EXCEPT ![pid[i]] = "free"]
           \/ /\ q \in Pids /\ (proc[q] = "free" \/ q = pid[i])
              /\ proc' = [[proc EXCEPT ![pid[i]] = "free"] EXCEPT ![q] = "alive"]
    PROVE  ChildrenTracked'
<1>1. pid[i] \in Pids /\ 0 \notin Pids
  BY DEF TypeOK, Pids
<1>2. \A j \in Idx : pid'[j] = IF j = i THEN q ELSE pid[j]
  BY DEF TypeOK
<1>3. \A j \in Idx : j # i => pid[j] # pid[i]
  BY <1>1 DEF ChildrenTracked, Running
<1>4. \A j \in Idx : j # i /\ q \in Pids => pid[j] # q
  BY <1>1, <1>3 DEF ChildrenTracked
<1>5. \A p \in Pids : proc'[p] = IF p = q THEN "alive" ELSE IF p = pid[i] THEN "free" ELSE proc[p]
  BY <1>1 DEF TypeOK
<1>6. ASSUME NEW p \in Pids
      PROVE  proc'[p] # "free" <=> \E j \in Idx : pid'[j] = p
  <2>1. CASE p = q
    BY <1>2, <1>5, <2>1
  <2>2. CASE p # q /\ p = pid[i]
    BY <1>2, <1>3, <1>5, <2>2
  <2>3. CASE p # q /\ p # pid[i]
    <3>1. proc'[p] = proc[p]
      BY <1>5, <2>3
    <3>2. (\E j \in Idx : pid'[j] = p) <=> (\E j \in Idx : pid[j] = p)
      BY <1>2, <2>3
    <3>3. QED
      BY <3>1, <3>2 DEF ChildrenTracked
  <2>4. QED
    BY <2>1, <2>2, <2>3
<1>7. ASSUME NEW j \in Running', NEW l \in Running', pid'[j] = pid'[l] PROVE j = l
  BY <1>2, <1>4, <1>7 DEF ChildrenTracked, Running
<1>8. QED
  BY <1>6, <1>7 DEF ChildrenTracked

LEMMA InitTracked == Init => ChildrenTracked
BY DEF Init, ChildrenTracked, Running, Pids, Idx

LEMMA TrackedStep == TypeOK /\ TypeOK' /\ ChildrenTracked /\ [Next]_vars => ChildrenTracked'
<1> SUFFICES ASSUME TypeOK, TypeOK', ChildrenTracked, [Next]_vars PROVE ChildrenTracked'
  OBVIOUS
<1>1. CASE StartWorker
  <2>1. k \in Idx /\ pid[k] = 0
    BY <1>1 DEF StartWorker, TypeOK, Idx, ChildrenTracked
  <2>2. QED
    BY <1>1, <2>1, Spawned DEF StartWorker
<1>2. CASE Started \/ Reaped \/ UnlimitSkip \/ Unlimited \/ NoReload \/ ReloadFailed \/ GrowSkip \/ Grown
           \/ WaitSleep \/ Sighup \/ Sigusr1 \/ Sigterm \/ UNCHANGED vars
  <2>1. UNCHANGED <<pid, proc>>
    BY <1>2 DEF Started, Reaped, UnlimitSkip, Unlimited, NoReload, ReloadFailed, GrowSkip, Grown,
                WaitSleep, Sighup, Sigusr1, Sigterm, vars, table
  <2>2. pc' = "start" => UNCHANGED <<pc, k>>
    BY <1>2 DEF Started, Reaped, UnlimitSkip, Unlimited, NoReload, ReloadFailed, GrowSkip, Grown,
                WaitSleep, Sighup, Sigusr1, Sigterm, vars, LoopTop
  <2>3. QED
    BY <2>1, <2>2 DEF ChildrenTracked, Running
<1>3. ASSUME NEW i \in Idx, Reap(i) PROVE ChildrenTracked'
  <2>1. pid[i] # 0 /\ pc = "reap" /\ pc' = pc /\ pid[i] \in Pids
    BY <1>3 DEF Reap, TypeOK
  <2>2. CASE proc' = [proc EXCEPT ![pid[i]] = "free"] /\ pid' = [pid EXCEPT ![i] = 0]
    BY <2>1, <2>2, Collected
  <2>3. ASSUME NEW p \in Pids, [proc EXCEPT ![pid[i]] = "free"][p] = "free",
               proc' = [[proc EXCEPT ![pid[i]] = "free"] EXCEPT ![p] = "alive"],
               pid' = [pid EXCEPT ![i] = p]
        PROVE  ChildrenTracked'
    <3>1. proc[p] = "free" \/ p = pid[i]
      BY <2>1, <2>3 DEF TypeOK
    <3>2. QED
      BY <2>1, <2>3, <3>1, Collected
  <2>4. QED
    BY <1>3, <2>2, <2>3 DEF Reap
<1>4. CASE Unlimit
  <2>1. k \in Idx /\ pid[k] = 0
    BY <1>4 DEF Unlimit, CanUnlimit, TypeOK, Idx
  <2>2. QED
    BY <1>4, <2>1, Spawned DEF Unlimit
<1>5. CASE Grow
  <2>1. k \in Idx /\ pid[k] = 0
    BY <1>5 DEF Grow, GrowSpawns, TypeOK, Idx
  <2>2. QED
    BY <1>5, <2>1, Spawned DEF Grow
<1>6. ASSUME NEW n \in 1..MaxWorkers, NEW b \in BOOLEAN, ReloadGrow(n, b) \/ ReloadShrink(n, b)
      PROVE  ChildrenTracked'
  <2>1. pid' = pid /\ pc' # "start" /\ (proc' = proc \/ \E s : proc' = Terminated(s))
    BY <1>6 DEF ReloadGrow, ReloadShrink
  <2>2. QED
    BY <2>1, TerminatedFree, NoneCollected
<1>7. CASE RestartWorkers \/ Shutdown
  <2>1. pid' = pid /\ pc' # "start" /\ (proc' = proc \/ \E s : proc' = Terminated(s))
    BY <1>7 DEF RestartWorkers, Shutdown, table
  <2>2. QED
    BY <2>1, TerminatedFree, NoneCollected
<1>8. ASSUME NEW tick \in BOOLEAN, Sleep(tick) PROVE ChildrenTracked'
  BY <1>8, NoneCollected DEF Sleep, LoopTop
<1>9. ASSUME NEW i \in Idx, WaitReap(i) PROVE ChildrenTracked'
  <2>1. pid[i] # 0
    BY <1>9 DEF WaitReap, Running
  <2>2. QED
    BY <1>9, <2>1, Collected DEF WaitReap
<1>10. CASE Finish
  <2>1. \A p \in Pids : proc'[p] = "free"
    BY <1>10 DEF Finish, ChildrenTracked
  <2>2. (\A i \in Idx : pid'[i] = 0) /\ pc' = "done"
    BY <1>10 DEF Finish
  <2>3. 0 \notin Pids
    BY DEF Pids
  <2>4. QED
    BY <2>1, <2>2, <2>3 DEF ChildrenTracked, Running
<1>11. ASSUME NEW p \in Pids, Crash(p) \/ Exit(p) PROVE ChildrenTracked'
  <2>1. pid' = pid /\ UNCHANGED <<pc, k>>
    BY <1>11 DEF Crash, Exit, table
  <2>2. \A q \in Pids : proc'[q] = "free" <=> proc[q] = "free"
    BY <1>11 DEF Crash, Exit, TypeOK
  <2>3. k <= k'
    BY <2>1 DEF TypeOK
  <2>4. QED
    BY <2>1, <2>2, <2>3, NoneCollected
<1>12. QED
  BY <1>1, <1>2, <1>3, <1>4, <1>5, <1>6, <1>7, <1>8, <1>9, <1>10, <1>11 DEF Next, SupervisorStep

-----------------------------------------------------------------------------
(* The restart rate.                                                         *)

\* restart_allowed looks at all the times kept, and they are sorted: when it
\* says yes, the oldest of them is out of the window.
LEMMA AllowedIsOld ==
    ASSUME TypeOK, RestartRateHeld, NEW i \in Idx, RestartAllowed(i)
    PROVE  times[i][MaxRestarts] = Old
<1> SUFFICES ASSUME times[i][MaxRestarts] # Old PROVE FALSE
  OBVIOUS
<1>1. times[i] \in [1..MaxRestarts -> 0..Old] /\ MaxRestarts \in 1..MaxRestarts
  BY DEF TypeOK
<1>2. times[i][MaxRestarts] <= RestartWindow
  BY <1>1 DEF Old
<1>3. ASSUME NEW j \in 1..MaxRestarts PROVE times[i][j] <= RestartWindow
  <2>1. times[i][j] <= times[i][MaxRestarts]
    BY <1>1 DEF RestartRateHeld
  <2>2. times[i][j] \in Int /\ times[i][MaxRestarts] \in Int
    BY <1>1 DEF Old
  <2>3. QED
    BY <1>2, <2>1, <2>2
<1>4. {j \in DOMAIN times[i] : times[i][j] <= RestartWindow} = 1..MaxRestarts
  BY <1>1, <1>3
<1>5. Cardinality(1..MaxRestarts) = MaxRestarts
  <2>1. Cardinality(1..MaxRestarts) = IF 1 > MaxRestarts THEN 0 ELSE MaxRestarts - 1 + 1
    BY FS_Interval
  <2>2. QED
    BY <2>1
<1>6. Recent(times[i]) = MaxRestarts
  BY <1>4, <1>5, Zenon DEF Recent
<1>7. QED
  BY <1>6 DEF RestartAllowed

\* A restart that was allowed keeps the rate (record_restart).
LEMMA RecordedInRate ==
    ASSUME TypeOK, RestartRateHeld, NEW i \in Idx, RestartAllowed(i), RecordRestart(i)
    PROVE  RestartRateHeld'
<1>1. /\ times[i] \in [1..MaxRestarts -> 0..Old] /\ restarts[i] \in [1..(MaxRestarts + 1) -> 0..Old]
      /\ times \in [Idx -> [1..MaxRestarts -> 0..Old]]
      /\ restarts \in [Idx -> [1..(MaxRestarts + 1) -> 0..Old]]
  BY DEF TypeOK
<1>2. /\ \A j \in 1..MaxRestarts : times'[i][j] = IF j = 1 THEN 0 ELSE times[i][j - 1]
      /\ \A j \in 1..(MaxRestarts + 1) : restarts'[i][j] = IF j = 1 THEN 0 ELSE restarts[i][j - 1]
  BY <1>1 DEF RecordRestart, Shifted
<1>3. \A l \in Idx : l # i => times'[l] = times[l] /\ restarts'[l] = restarts[l]
  BY <1>1 DEF RecordRestart
<1>4. restarts'[i][MaxRestarts + 1] = Old
  <2>1. restarts'[i][MaxRestarts + 1] = restarts[i][MaxRestarts]
    BY <1>2
  <2>2. restarts[i][MaxRestarts] = times[i][MaxRestarts]
    BY DEF RestartRateHeld
  <2>3. QED
    BY <2>1, <2>2, AllowedIsOld
<1>5. ASSUME NEW j \in 1..MaxRestarts PROVE times'[i][j] = restarts'[i][j]
  <2>1. CASE j = 1
    BY <1>2, <2>1
  <2>2. CASE j # 1
    <3>1. j - 1 \in 1..MaxRestarts /\ j \in 1..(MaxRestarts + 1)
      BY <2>2
    <3>2. times[i][j - 1] = restarts[i][j - 1]
      BY <3>1 DEF RestartRateHeld
    <3>3. QED
      BY <1>2, <2>2, <3>1, <3>2
  <2>3. QED
    BY <2>1, <2>2
<1>6. ASSUME NEW j \in 1..MaxRestarts, NEW l \in 1..MaxRestarts, j <= l
      PROVE  times'[i][j] <= times'[i][l]
  <2>1. CASE j = 1
    <3>1. times'[i][j] = 0
      BY <1>2, <2>1
    <3>2. times'[i][l] = 0 \/ (l - 1 \in 1..MaxRestarts /\ times'[i][l] = times[i][l - 1])
      BY <1>2
    <3>3. times'[i][l] \in Nat
      BY <1>1, <3>2 DEF Old
    <3>4. QED
      BY <3>1, <3>3
  <2>2. CASE j # 1
    <3>1. l # 1 /\ j - 1 \in 1..MaxRestarts /\ l - 1 \in 1..MaxRestarts /\ j - 1 <= l - 1
      BY <1>6, <2>2
    <3>2. times[i][j - 1] <= times[i][l - 1]
      BY <3>1 DEF RestartRateHeld
    <3>3. QED
      BY <1>2, <2>2, <3>1, <3>2
  <2>3. QED
    BY <2>1, <2>2
<1>7. QED
  BY <1>3, <1>4, <1>5, <1>6 DEF RestartRateHeld

\* So does a tick: ages grow together, and what is out of the window stays out.
LEMMA AgedInRate ==
    ASSUME TypeOK, RestartRateHeld, times' = [i \in Idx |-> Aged(times[i])],
           restarts' = [i \in Idx |-> Aged(restarts[i])]
    PROVE  RestartRateHeld'
<1> SUFFICES ASSUME NEW i \in Idx
             PROVE  /\ restarts'[i][MaxRestarts + 1] = Old
                    /\ \A j \in 1..MaxRestarts : times'[i][j] = restarts'[i][j]
                    /\ \A j, l \in 1..MaxRestarts : j <= l => times'[i][j] <= times'[i][l]
  BY DEF RestartRateHeld
<1>1. /\ times[i] \in [1..MaxRestarts -> 0..Old] /\ restarts[i] \in [1..(MaxRestarts + 1) -> 0..Old]
      /\ MaxRestarts + 1 \in 1..(MaxRestarts + 1) /\ Old \in Nat
  BY DEF TypeOK, Old
<1>2. /\ \A j \in 1..MaxRestarts : times'[i][j] = IF times[i][j] < Old THEN times[i][j] + 1 ELSE Old
      /\ \A j \in 1..(MaxRestarts + 1) :
            restarts'[i][j] = IF restarts[i][j] < Old THEN restarts[i][j] + 1 ELSE Old
  BY <1>1 DEF Aged
<1>3. restarts'[i][MaxRestarts + 1] = Old
  BY <1>1, <1>2 DEF RestartRateHeld
<1>4. \A j \in 1..MaxRestarts : times'[i][j] = restarts'[i][j]
  <2>1. \A j \in 1..MaxRestarts : j \in 1..(MaxRestarts + 1) /\ times[i][j] = restarts[i][j]
    BY DEF RestartRateHeld
  <2>2. QED
    BY <1>2, <2>1
<1>5. ASSUME NEW j \in 1..MaxRestarts, NEW l \in 1..MaxRestarts, j <= l
      PROVE  times'[i][j] <= times'[i][l]
  <2>1. times[i][j] \in 0..Old /\ times[i][l] \in 0..Old /\ times[i][j] <= times[i][l]
    BY <1>1, <1>5 DEF RestartRateHeld
  <2>2. QED
    BY <1>1, <1>2, <2>1
<1>6. QED
  BY <1>3, <1>4, <1>5

LEMMA InitRate == Init => RestartRateHeld
BY DEF Init, RestartRateHeld, Old

LEMMA RateStep == TypeOK /\ RestartRateHeld /\ [Next]_vars => RestartRateHeld'
<1> SUFFICES ASSUME TypeOK, RestartRateHeld, [Next]_vars PROVE RestartRateHeld'
  OBVIOUS
<1>1. CASE UNCHANGED <<times, restarts>>
  BY <1>1 DEF RestartRateHeld
<1>2. ASSUME NEW i \in Idx, Reap(i) PROVE RestartRateHeld'
  BY <1>1, <1>2, RecordedInRate DEF Reap
<1>3. CASE Unlimit
  <2>1. k \in Idx
    BY <1>3 DEF Unlimit, TypeOK, Idx
  <2>2. QED
    BY <1>3, <2>1, RecordedInRate DEF Unlimit, CanUnlimit
<1>4. ASSUME NEW tick \in BOOLEAN, Sleep(tick) PROVE RestartRateHeld'
  BY <1>1, <1>4, AgedInRate DEF Sleep
<1>5. CASE StartWorker \/ Grow
  BY <1>1, <1>5 DEF StartWorker, Grow
<1>6. CASE Started \/ Reaped \/ UnlimitSkip \/ Unlimited \/ NoReload \/ ReloadFailed \/ GrowSkip \/ Grown
           \/ RestartWorkers \/ Shutdown \/ WaitSleep \/ Sighup \/ Sigusr1 \/ Sigterm \/ UNCHANGED vars
  BY <1>1, <1>6 DEF Started, Reaped, UnlimitSkip, Unlimited, NoReload, ReloadFailed, GrowSkip, Grown,
                    RestartWorkers, Shutdown, WaitSleep, Sighup, Sigusr1, Sigterm, vars, table
<1>7. ASSUME NEW n \in 1..MaxWorkers, NEW b \in BOOLEAN, ReloadGrow(n, b) \/ ReloadShrink(n, b)
      PROVE  RestartRateHeld'
  BY <1>1, <1>7 DEF ReloadGrow, ReloadShrink
<1>8. ASSUME NEW i \in Idx, WaitReap(i) PROVE RestartRateHeld'
  BY <1>1, <1>8 DEF WaitReap
<1>9. CASE Finish
  BY <1>1, <1>9 DEF Finish
<1>10. ASSUME NEW p \in Pids, Crash(p) \/ Exit(p) PROVE RestartRateHeld'
  BY <1>1, <1>10 DEF Crash, Exit, table
<1>11. QED
  BY <1>2, <1>3, <1>4, <1>5, <1>6, <1>7, <1>8, <1>9, <1>10 DEF Next, SupervisorStep

-----------------------------------------------------------------------------
(* Nobody is forgotten.                                                      *)

\* A fork() that worked leaves the index running.
LEMMA SpawnedIsUp ==
    ASSUME TypeOK, NEW i \in Idx, SpawnWorker(i)
    PROVE  /\ \A j \in Idx : j # i => pid'[j] = pid[j]
           /\ \A j \in Idx : retiring'[j] => retiring[j]
           /\ forkFails' = 0 => forkFails = 0 /\ pid'[i] # 0
<1>1. CASE UNCHANGED <<pid, retiring>> /\ forkFails' = forkFails + 1
  BY <1>1 DEF TypeOK
<1>2. ASSUME NEW p \in Pids, pid' = [pid EXCEPT ![i] = p], UNCHANGED forkFails,
             retiring' = [retiring EXCEPT ![i] = FALSE]
      PROVE  /\ \A j \in Idx : j # i => pid'[j] = pid[j]
             /\ \A j \in Idx : retiring'[j] => retiring[j]
             /\ forkFails' = 0 => forkFails = 0 /\ pid'[i] # 0
  BY <1>2 DEF TypeOK, Pids
<1>3. QED
  BY <1>1, <1>2 DEF SpawnWorker

LEMMA InitMarked == Init => DownIsMarked
BY DEF Init, DownIsMarked, Idx

LEMMA MarkedStep == TypeOK /\ TypeOK' /\ DownIsMarked /\ [Next]_vars => DownIsMarked'
<1> SUFFICES ASSUME TypeOK, TypeOK', DownIsMarked, [Next]_vars PROVE DownIsMarked'
  OBVIOUS
<1>0. /\ k \in Int /\ k' \in Int /\ desired \in Int /\ desired' \in Int
      /\ \A i \in Idx : i \in Int
  BY DEF TypeOK, Idx
<1>1. ASSUME k \in Idx, SpawnWorker(k), k' = k + 1, UNCHANGED <<pc, desired, stop>>,
             pc \notin {"shutdown", "wait", "done"},
             \A i \in Idx : i # k => rateLimited'[i] = rateLimited[i]
      PROVE  DownIsMarked'
  <2>1. /\ \A j \in Idx : j # k => pid'[j] = pid[j]
        /\ \A j \in Idx : retiring'[j] => retiring[j]
        /\ forkFails' = 0 => forkFails = 0 /\ pid'[k] # 0
    BY <1>1, SpawnedIsUp
  <2>2. ASSUME NEW i \in Idx, i # k, k <= i PROVE k' <= i
    <3>1. i \in Int /\ k \in Int /\ k' = k + 1
      BY <1>0, <1>1
    <3>2. QED
      BY <2>2, <3>1
  <2>3. QED
    BY <1>1, <2>1, <2>2 DEF DownIsMarked
<1>2. CASE StartWorker
  <2>1. k \in Idx /\ stop' = stop
    BY <1>2 DEF StartWorker, TypeOK, Idx, flags
  <2>2. QED
    BY <1>1, <1>2, <2>1 DEF StartWorker
<1>3. CASE Unlimit
  <2>1. k \in Idx /\ stop' = stop
    BY <1>3 DEF Unlimit, TypeOK, Idx, flags
  <2>2. \A i \in Idx : i # k => rateLimited'[i] = rateLimited[i]
    BY <1>3 DEF Unlimit, RecordRestart, TypeOK
  <2>3. QED
    BY <1>1, <1>3, <2>1, <2>2 DEF Unlimit
<1>4. CASE Grow
  <2>1. k \in Idx /\ stop' = stop
    BY <1>4 DEF Grow, TypeOK, Idx, flags
  <2>2. QED
    BY <1>1, <1>4, <2>1 DEF Grow
<1>5. CASE Started \/ Grown
  <2>1. /\ UNCHANGED <<desired, pid, rateLimited, retiring, stop, forkFails>>
        /\ pc' \in {"shutdown", "wait", "done"} => stop
        /\ ~stop => k >= desired
    BY <1>5 DEF Started, Grown, table, flags
  <2>2. ~stop => \A i \in Idx : i < desired => ~(k <= i)
    BY <1>0, <2>1
  <2>3. QED
    BY <2>1, <2>2 DEF DownIsMarked
<1>6. CASE Reaped \/ UnlimitSkip \/ Unlimited \/ NoReload \/ ReloadFailed \/ RestartWorkers
           \/ \E tick \in BOOLEAN : Sleep(tick)
  <2>1. UNCHANGED <<desired, pid, rateLimited, retiring, stop, forkFails>>
    BY <1>6 DEF Reaped, UnlimitSkip, Unlimited, NoReload, ReloadFailed, RestartWorkers, Sleep, table, flags
  <2>2. pc \notin {"start", "grow"}
    BY <1>6 DEF Reaped, UnlimitSkip, Unlimited, NoReload, ReloadFailed, RestartWorkers, Sleep
  <2>3. pc' \in {"shutdown", "wait", "done"} => stop
    BY <1>6 DEF Reaped, UnlimitSkip, Unlimited, NoReload, ReloadFailed, RestartWorkers, Sleep, LoopTop
  <2>4. QED
    BY <2>1, <2>2, <2>3 DEF DownIsMarked
<1>7. CASE GrowSkip
  <2>1. /\ UNCHANGED <<pc, desired, pid, rateLimited, retiring, stop, forkFails>>
        /\ k' = k + 1 /\ pid[k] # 0
    BY <1>7 DEF GrowSkip, GrowSpawns, table, flags
  <2>2. \A i \in Idx : k <= i => i = k \/ k' <= i
    BY <1>0, <2>1
  <2>3. QED
    BY <2>1, <2>2 DEF DownIsMarked
<1>8. ASSUME NEW i \in Idx, Reap(i) PROVE DownIsMarked'
  <2>1. pc = "reap" /\ UNCHANGED <<pc, k, desired, stop>>
    BY <1>8 DEF Reap, flags
  <2>2. \A j \in Idx : /\ retiring'[j] => retiring[j]
                       /\ j # i => pid'[j] = pid[j] /\ rateLimited'[j] = rateLimited[j]
    <3>1. \A j \in Idx : j # i => pid'[j] = pid[j]
      BY <1>8 DEF Reap, TypeOK
    <3>2. \A j \in Idx : j # i => rateLimited'[j] = rateLimited[j]
      BY <1>8 DEF Reap, TypeOK, RecordRestart
    <3>3. \A j \in Idx : retiring'[j] => retiring[j]
      BY <1>8 DEF Reap, TypeOK
    <3>4. QED
      BY <3>1, <3>2, <3>3
  <2>3. forkFails' = 0 => forkFails = 0
    BY <1>8 DEF Reap, TypeOK
  <2>4. ASSUME ~stop, forkFails' = 0, i < desired PROVE pid'[i] # 0 \/ rateLimited'[i]
    <3>1. ReapRestarts(i)
      BY <1>0, <2>4 DEF ReapRestarts, DownIsMarked
    <3>2. CASE RestartAllowed(i)
      <4>1. forkFails' # forkFails + 1
        BY <2>3, <2>4
      <4>2. PICK p \in Pids : pid' = [pid EXCEPT ![i] = p]
        BY <1>8, <3>1, <3>2, <4>1 DEF Reap
      <4>3. QED
        BY <4>2 DEF TypeOK, Pids
    <3>3. CASE ~RestartAllowed(i)
      <4>1. rateLimited' = [rateLimited EXCEPT ![i] = @ \/ ReapRestarts(i)]
        BY <1>8, <3>3 DEF Reap
      <4>2. QED
        BY <3>1, <4>1 DEF TypeOK
    <3>4. QED
      BY <3>2, <3>3
  <2>5. QED
    BY <2>1, <2>2, <2>3, <2>4 DEF DownIsMarked
<1>9. ASSUME NEW n \in 1..MaxWorkers, NEW b \in BOOLEAN, ReloadGrow(n, b) PROVE DownIsMarked'
  <2>1. /\ pc = "reload" /\ pc' = "grow" /\ k' = desired /\ desired' = n
        /\ UNCHANGED <<pid, rateLimited, stop, forkFails>>
        /\ \A i \in Idx : retiring'[i] => retiring[i] /\ ~(desired <= i /\ i < n)
    BY <1>9 DEF ReloadGrow
  <2>2. ASSUME NEW i \in Idx, retiring'[i] PROVE i >= n
    <3>1. i \in Int /\ desired \in Int /\ n \in Int
      BY <1>0
    <3>2. retiring[i] => i >= desired
      BY DEF DownIsMarked
    <3>3. QED
      BY <2>1, <2>2, <3>1, <3>2
  <2>3. \A i \in Idx : i < desired \/ desired <= i
    BY <1>0
  <2>4. QED
    BY <2>1, <2>2, <2>3 DEF DownIsMarked
<1>10. ASSUME NEW n \in 1..MaxWorkers, NEW b \in BOOLEAN, ReloadShrink(n, b) PROVE DownIsMarked'
  <2>1. /\ pc = "reload" /\ pc' = "usr1" /\ desired' = n /\ n < desired
        /\ UNCHANGED <<pid, stop, forkFails>>
        /\ \A i \in Idx : /\ retiring'[i] => retiring[i] \/ (n <= i /\ i < desired)
                          /\ rateLimited[i] /\ ~(n <= i /\ i < desired) => rateLimited'[i]
    BY <1>10 DEF ReloadShrink
  <2>2. ASSUME NEW i \in Idx, retiring'[i] PROVE i >= n
    <3>1. i \in Int /\ desired \in Int /\ n \in Int
      BY <1>0
    <3>2. retiring[i] => i >= desired
      BY DEF DownIsMarked
    <3>3. QED
      BY <2>1, <2>2, <3>1, <3>2
  <2>3. \A i \in Idx : i < n => i < desired /\ ~(n <= i)
    BY <1>0, <2>1
  <2>4. QED
    BY <2>1, <2>2, <2>3 DEF DownIsMarked
<1>11. CASE Shutdown \/ WaitSleep \/ Finish \/ \E i \in Idx : WaitReap(i)
  <2>1. pc \in {"shutdown", "wait"} /\ UNCHANGED <<desired, retiring, stop>>
    BY <1>11 DEF Shutdown, WaitSleep, Finish, WaitReap, table, flags
  <2>2. QED
    BY <2>1 DEF DownIsMarked
<1>12. CASE Sigterm
  BY <1>12 DEF Sigterm, DownIsMarked, table
<1>13. CASE Sighup \/ Sigusr1 \/ (\E p \in Pids : Crash(p) \/ Exit(p)) \/ UNCHANGED vars
  <2>1. UNCHANGED <<pc, k, desired, pid, rateLimited, retiring, stop, forkFails>>
    BY <1>13 DEF Sighup, Sigusr1, Crash, Exit, vars, table, flags
  <2>2. QED
    BY <2>1 DEF DownIsMarked
<1>14. QED
  BY <1>2, <1>3, <1>4, <1>5, <1>6, <1>7, <1>8, <1>9, <1>10, <1>11, <1>12, <1>13 DEF Next, SupervisorStep

-----------------------------------------------------------------------------
(* The theorems.                                                             *)

\* Between any two steps of supervisor_run the table matches the processes, the
\* restart rate holds and no worker that is wanted is forgotten.
THEOREM TableInvariant == Spec => []TableInv
<1>1. Init => TableInv
  BY InitTypeOK, InitTracked, InitRate, InitMarked DEF TableInv
<1>2. TableInv /\ [Next]_vars => TableInv'
  BY TypeStep, TrackedStep, RateStep, MarkedStep DEF TableInv
<1>3. QED
  BY <1>1, <1>2, PTL DEF Spec

\* When the supervisor has shut down, no worker is left, not even one that hung.
THEOREM NoWorkerLeftBehind == Spec => []NoneLeftBehind
<1>1. Init => NoneLeftBehind
  BY DEF Init, NoneLeftBehind
<1>2. TableInv /\ NoneLeftBehind /\ [Next]_vars => NoneLeftBehind'
  <2> SUFFICES ASSUME TableInv, NoneLeftBehind, [Next]_vars, pc' = "done", NEW p \in Pids
               PROVE  proc'[p] = "free"
    BY DEF NoneLeftBehind
  <2>1. CASE Finish
    BY <2>1 DEF Finish, TableInv, ChildrenTracked
  <2>2. CASE UNCHANGED <<pc, proc>>
    BY <2>2 DEF NoneLeftBehind
  <2>3. ASSUME NEW q \in Pids, Crash(q) \/ Exit(q) PROVE proc'[p] = "free"
    BY <2>3 DEF Crash, Exit, NoneLeftBehind
  <2>4. CASE Sighup \/ Sigusr1 \/ Sigterm \/ WaitSleep \/ UNCHANGED vars
    BY <2>2, <2>4 DEF Sighup, Sigusr1, Sigterm, WaitSleep, vars
  <2>5. ASSUME SupervisorStep, ~Finish, ~WaitSleep PROVE FALSE
    BY <2>5 DEF SupervisorStep, StartWorker, Started, Reap, Reaped, Unlimit, UnlimitSkip, Unlimited,
                NoReload, ReloadFailed, ReloadGrow, ReloadShrink, Grow, GrowSkip, Grown, RestartWorkers,
                Sleep, Shutdown, WaitReap, LoopTop
  <2>6. QED
    BY <2>1, <2>3, <2>4, <2>5 DEF Next
<1>3. QED
  BY <1>1, <1>2, TableInvariant, PTL DEF Spec
=============================================================================
