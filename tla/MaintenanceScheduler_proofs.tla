-------------------- MODULE MaintenanceScheduler_proofs ---------------------
(***************************************************************************)
(* Proofs about MaintenanceScheduler, for any jobs, intervals and lengths. *)
(***************************************************************************)
EXTENDS MaintenanceScheduler, TLAPS

\* Which jobs a pass can have started: those before its place, and the one at
\* it.
Passed(j) ==
  \E i \in DOMAIN Order : Order[i] = j /\ (i < at \/ (i = at /\ running))

\* The inductive invariant: once the stop loss audit is started in a pass its
\* timer keeps the other one waiting, for it ends before the pass goes on.
AuditInv ==
  /\ TypeOK
  /\ \A j \in ran : Passed(j)
  /\ StopAudit \in ran =>
       \/ age[StopAudit] = 0
       \/ running /\ Order[at] = StopAudit
  /\ AuditsApart

LEMMA OrderFacts ==
  /\ Len(Order) \in Nat
  /\ DOMAIN Order = 1..Len(Order)
  /\ \A i \in DOMAIN Order : Order[i] \in Jobs
  /\ StopAudit \in Jobs /\ TakeAudit \in Jobs
BY JobAssumption DEF Jobs

LEMMA CappedType == ASSUME NEW n \in Nat PROVE Capped(n) \in 0..Horizon
BY TimeAssumption DEF Capped

LEMMA InitAudits == Init => AuditInv
<1> SUFFICES ASSUME Init PROVE AuditInv
  OBVIOUS
<1>1. age \in [Jobs -> 0..Horizon]
  BY TimeAssumption DEF Init
<1>2. took \in 0..Horizon /\ at \in 1..(Len(Order) + 1)
  BY OrderFacts, TimeAssumption DEF Init
<1>3. ~running /\ running \in BOOLEAN /\ ran = {}
  BY DEF Init
<1>. QED
  BY <1>1, <1>2, <1>3 DEF TypeOK, AuditInv, AuditsApart

LEMMA StepType == ASSUME TypeOK, [Next]_vars PROVE TypeOK'
<1>a. /\ \A j \in Jobs : age[j] \in Nat
      /\ age \in [Jobs -> 0..Horizon]
  BY TimeAssumption DEF TypeOK
<1>b. took \in Nat /\ at \in Nat /\ at \in 1..(Len(Order) + 1)
  BY OrderFacts, TimeAssumption DEF TypeOK
<1>c. running \in BOOLEAN /\ (running => at \in DOMAIN Order) /\ ran \subseteq Jobs
  BY DEF TypeOK
<1>1. CASE BeginPass
  <2>1. ASSUME NEW j \in Jobs PROVE Capped(age[j] + took) \in 0..Horizon
    <3>1. age[j] + took \in Nat
      BY <1>a, <1>b
    <3>. QED
      BY CappedType, <3>1
  <2>2. age' \in [Jobs -> 0..Horizon]
    BY <1>1, <2>1 DEF BeginPass
  <2>3. took' \in 0..Horizon /\ at' \in 1..(Len(Order) + 1)
    BY <1>1, OrderFacts, TimeAssumption DEF BeginPass
  <2>4. ~running
    BY <1>1, <1>c DEF BeginPass, Sleeping
  <2>5. running' = running /\ ran' = {}
    BY <1>1 DEF BeginPass
  <2>. QED
    BY <2>2, <2>3, <2>4, <2>5, <1>c DEF TypeOK
<1>2. CASE PassBy
  <2>1. at' \in 1..(Len(Order) + 1)
    BY <1>2, <1>b, OrderFacts DEF PassBy, Sleeping
  <2>2. ~running /\ running' = running /\ ran' = ran /\ age' = age /\ took' = took
    BY <1>2 DEF PassBy
  <2>. QED
    BY <2>1, <2>2 DEF TypeOK
<1>3. CASE Start
  <2>1. at \in DOMAIN Order /\ Order[at] \in Jobs
    BY <1>3, OrderFacts DEF Start, Sleeping
  <2>2. /\ running' = TRUE /\ ran' = ran \cup {Order[at]}
        /\ age' = age /\ took' = took /\ at' = at
    BY <1>3 DEF Start
  <2>. QED
    BY <2>1, <2>2 DEF TypeOK
<1>4. CASE Finish
  <2>1. at \in DOMAIN Order /\ at' = at + 1 /\ running' = FALSE
    BY <1>4, <1>c DEF Finish
  <2>2. at' \in 1..(Len(Order) + 1)
    BY <2>1, <1>b, OrderFacts
  <2>3. age' \in [Jobs -> 0..Horizon]
    <3>1. 0 \in 0..Horizon
      BY TimeAssumption
    <3>2. age' = [age EXCEPT ![Order[at]] = 0]
      BY <1>4 DEF Finish, SetTimer
    <3>. QED
      BY <1>a, <3>1, <3>2
  <2>4. took' = took /\ ran' = ran
    BY <1>4 DEF Finish
  <2>. QED
    BY <2>1, <2>2, <2>3, <2>4 DEF TypeOK
<1>5. CASE Fail
  <2>1. at \in DOMAIN Order /\ at' = at + 1 /\ running' = FALSE
    BY <1>5, <1>c DEF Fail
  <2>2. at' \in 1..(Len(Order) + 1)
    BY <2>1, <1>b, OrderFacts
  <2>3. took' = took /\ ran' = ran /\ age' = age
    BY <1>5 DEF Fail
  <2>. QED
    BY <2>1, <2>2, <2>3 DEF TypeOK
<1>6. CASE Tick
  <2>1. Capped(took + 1) \in 0..Horizon
    BY CappedType, <1>b
  <2>2. /\ took' = Capped(took + 1)
        /\ age' = age /\ at' = at /\ running' = running /\ ran' = ran
    BY <1>6 DEF Tick
  <2>. QED
    BY <2>1, <2>2 DEF TypeOK
<1>7. CASE UNCHANGED vars
  BY <1>7 DEF vars, TypeOK
<1>. QED
  BY <1>1, <1>2, <1>3, <1>4, <1>5, <1>6, <1>7 DEF Next

LEMMA StepAudits == AuditInv /\ [Next]_vars => AuditInv'
<1> SUFFICES ASSUME AuditInv, [Next]_vars PROVE AuditInv'
  OBVIOUS
<1>0. TypeOK'
  BY StepType DEF AuditInv
<1>1. CASE BeginPass
  BY <1>0, <1>1 DEF BeginPass, AuditInv, AuditsApart
<1>2. CASE PassBy
  <2>1. \A j \in ran' : Passed(j)'
    BY <1>2, OrderFacts DEF PassBy, AuditInv, TypeOK, Passed, Sleeping
  <2>. QED
    BY <1>0, <1>2, <2>1 DEF PassBy, AuditInv, AuditsApart
<1>3. CASE Start
  <2>1. /\ at \in DOMAIN Order /\ ~running /\ running' /\ at' = at
        /\ age' = age /\ ran' = ran \cup {Order[at]} /\ Due(Order[at])
    BY <1>3 DEF Start, Sleeping, AuditInv, TypeOK
  <2>2. \A j \in ran' : Passed(j)'
    BY <2>1 DEF AuditInv, Passed
  <2>3. StopAudit \in ran' =>
          \/ age'[StopAudit] = 0
          \/ running' /\ Order[at'] = StopAudit
    BY <2>1 DEF AuditInv
  \* The first audit comes first in the loop: the second is not yet started.
  <2>4. CASE Order[at] = StopAudit
    <3>1. TakeAudit \notin ran
      BY <2>1, <2>4, OrderFacts, JobAssumption DEF AuditInv, Passed, TypeOK
    <3>2. TakeAudit # StopAudit
      BY JobAssumption, OrderFacts
    <3>. QED
      BY <1>0, <2>1, <2>2, <2>3, <2>4, <3>1, <3>2 DEF AuditInv, AuditsApart
  \* Had the first been started in this pass, its timer would say no.
  <2>5. CASE Order[at] = TakeAudit
    <3>1. age[StopAudit] # 0
      BY <2>1, <2>5, TimeAssumption DEF Due
    <3>2. StopAudit \notin ran
      BY <2>1, <3>1 DEF AuditInv
    <3>3. TakeAudit # StopAudit
      BY JobAssumption, OrderFacts
    <3>. QED
      BY <1>0, <2>1, <2>2, <2>3, <2>5, <3>2, <3>3 DEF AuditInv, AuditsApart
  <2>6. CASE Order[at] \notin {StopAudit, TakeAudit}
    BY <1>0, <2>1, <2>2, <2>3, <2>6 DEF AuditInv, AuditsApart
  <2>. QED
    BY <2>4, <2>5, <2>6
<1>4. CASE Finish
  <2>1. \A j \in ran' : Passed(j)'
    BY <1>4, OrderFacts DEF Finish, AuditInv, TypeOK, Passed
  <2>2. StopAudit \in ran' => age'[StopAudit] = 0
    BY <1>4, OrderFacts DEF Finish, SetTimer, AuditInv, TypeOK
  <2>. QED
    BY <1>0, <1>4, <2>1, <2>2 DEF Finish, AuditInv, AuditsApart
<1>5. CASE Fail
  <2>1. \A j \in ran' : Passed(j)'
    BY <1>5, OrderFacts DEF Fail, AuditInv, TypeOK, Passed
  <2>2. Order[at] # StopAudit
    BY <1>5, JobAssumption DEF Fail
  <2>. QED
    BY <1>0, <1>5, <2>1, <2>2 DEF Fail, AuditInv, AuditsApart
<1>6. CASE Tick
  BY <1>0, <1>6 DEF Tick, AuditInv, AuditsApart, Passed
<1>7. CASE UNCHANGED vars
  BY <1>0, <1>7 DEF vars, AuditInv, AuditsApart, Passed
<1>. QED
  BY <1>1, <1>2, <1>3, <1>4, <1>5, <1>6, <1>7 DEF Next

LEMMA Invariance == Spec => []AuditInv
BY InitAudits, StepAudits, PTL DEF Spec

\* The loop stays within the jobs, whatever their number, and a job runs only at
\* the place the pass has come to; the timers never leave the horizon, however
\* long passes take.
THEOREM TypeCorrect == Spec => []TypeOK
<1>1. AuditInv => TypeOK
  BY DEF AuditInv
<1>. QED
  BY <1>1, Invariance, PTL

\* The audits of stop losses and of take profits are never started in the same
\* pass of trade_retry_scheduler.
THEOREM AuditsStayApart == Spec => []AuditsApart
<1>1. AuditInv => AuditsApart
  BY DEF AuditInv
<1>. QED
  BY <1>1, Invariance, PTL
=============================================================================
