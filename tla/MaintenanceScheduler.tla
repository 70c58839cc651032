------------------------ MODULE MaintenanceScheduler ------------------------
(***************************************************************************)
(* The loop trade_retry_scheduler of discord_bot/main.py.  A pass reads    *)
(* the clock once and then goes through the jobs in their order; a job     *)
(* that is due runs before the next one is looked at, and the clock value  *)
(* it is remembered with is the one the pass began with.                   *)
(*                                                                         *)
(* Time is counted in ticks of five minutes, the smallest interval of the  *)
(* code, and every length is kept up to Horizon: no comparison of the loop *)
(* tells longer ones apart.                                                *)
(***************************************************************************)
EXTENDS Naturals, Sequences

CONSTANTS
  Order,        \* the jobs, in the order of the loop body
  Interval,     \* the interval of each job
  Raising,      \* jobs whose failure reaches the loop; the others log it
  StopAudit, TakeAudit,
  Gap,          \* what must lie between the two audits: 5 * 60 in the code
  Horizon,
  PassBound     \* the longest pass

Jobs == {Order[i] : i \in DOMAIN Order}

ASSUME JobAssumption ==
  /\ Order \in Seq(Jobs)
  /\ \A i, k \in DOMAIN Order : Order[i] = Order[k] => i = k
  /\ \E i, k \in DOMAIN Order :
       i < k /\ Order[i] = StopAudit /\ Order[k] = TakeAudit
  /\ Raising \subseteq Jobs \ {StopAudit, TakeAudit}
ASSUME TimeAssumption ==
  /\ Horizon \in Nat /\ PassBound \in 0..Horizon
  /\ Interval \in [Jobs -> 1..Horizon]
  /\ Gap \in 1..Horizon

VARIABLES
  age,      \* current_time - last_<job>
  took,     \* how long ago current_time was read
  at,       \* the job the pass has come to; behind the last one it sleeps
  running,  \* the job at `at` has been started
  ran       \* history: the jobs started in this pass

vars == <<age, took, at, running, ran>>

TypeOK ==
  /\ age \in [Jobs -> 0..Horizon]
  /\ took \in 0..Horizon
  /\ at \in 1..(Len(Order) + 1)
  /\ running \in BOOLEAN
  /\ running => at \in DOMAIN Order
  /\ ran \subseteq Jobs

Capped(n) == IF n > Horizon THEN Horizon ELSE n

\* The timers start at zero, so that every job is due in the first pass.
Init ==
  /\ age = [j \in Jobs |-> Horizon]
  /\ took = 0
  /\ at = 1
  /\ running = FALSE
  /\ ran = {}

-----------------------------------------------------------------------------
\* Faulty variant: the take profit audit is on its own timer only.
DueByInterval(j) == age[j] >= Interval[j]

\* Faulty variant: the two audits are a whole interval apart.
DueLater(j) ==
  /\ age[j] >= Interval[j]
  /\ j = TakeAudit => age[StopAudit] >= Interval[StopAudit]

Due(j) ==
  /\ age[j] >= Interval[j]
  /\ j = TakeAudit => age[StopAudit] >= Gap

Sleeping == at \notin DOMAIN Order

\* The next look at the clock.
BeginPass ==
  /\ Sleeping
  /\ age' = [j \in Jobs |-> Capped(age[j] + took)]
  /\ took' = 0
  /\ at' = 1
  /\ ran' = {}
  /\ UNCHANGED running

PassBy ==
  /\ ~Sleeping /\ ~running
  /\ ~Due(Order[at])
  /\ at' = at + 1
  /\ UNCHANGED <<age, took, running, ran>>

Start ==
  /\ ~Sleeping /\ ~running
  /\ Due(Order[at])
  /\ running' = TRUE
  /\ ran' = ran \cup {Order[at]}
  /\ UNCHANGED <<age, took, at>>

\* Faulty variant: one timer for all the jobs.
SetTimers(j) == age' = [i \in Jobs |-> 0]

\* last_<job> = current_time
SetTimer(j) == age' = [age EXCEPT ![j] = 0]

Finish ==
  /\ running
  /\ SetTimer(Order[at])
  /\ running' = FALSE
  /\ at' = at + 1
  /\ UNCHANGED <<took, ran>>

\* Faulty variant: the job that raised is taken to be still running.
FailRunning ==
  /\ running
  /\ Order[at] \in Raising
  /\ at' = at + 1
  /\ UNCHANGED <<age, took, running, ran>>

\* The exception leaves the timer as it was: the job is due again in the next
\* pass, a second later.
Fail ==
  /\ running
  /\ Order[at] \in Raising
  /\ running' = FALSE
  /\ at' = at + 1
  /\ UNCHANGED <<age, took, ran>>

\* Time passes while a job is awaited and while the loop sleeps.
Tick ==
  /\ running \/ Sleeping
  /\ took < PassBound
  /\ took' = Capped(took + 1)
  /\ UNCHANGED <<age, at, running, ran>>

Next == BeginPass \/ PassBy \/ Start \/ Finish \/ Fail \/ Tick

Spec == Init /\ [][Next]_vars

\* The loop goes on, every job ends, and one that is tried again and again
\* does not always fail; time does not stand still over all passes.
FairSpec ==
  /\ Spec
  /\ WF_vars(BeginPass) /\ WF_vars(PassBy) /\ WF_vars(Start)
  /\ WF_vars(Finish \/ Fail) /\ SF_vars(Tick /\ Sleeping)
  /\ \A j \in Jobs : SF_vars(Finish /\ Order[at] = j)

-----------------------------------------------------------------------------
(* Properties *)

\* The audits of stop losses and of take profits, which cancel and create
\* orders of the same positions, do not run in one pass: the second waits.
AuditsApart == ~({StopAudit, TakeAudit} \subseteq ran)

\* Every job but the take profit audit is run again and again, however long
\* the passes are.
JobsRun == \A j \in Jobs \ {TakeAudit} : []<>(running /\ Order[at] = j)

\* The take profit audit is run again and again, although it waits for the
\* audit of stop losses, which is due as often: as long as the passes are
\* shorter than the interval of both.
TakeAuditRuns == []<>(running /\ Order[at] = TakeAudit)
=============================================================================
