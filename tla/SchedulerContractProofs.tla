----------------------- MODULE SchedulerContractProofs -----------------------
(***************************************************************************)
(* Proof that every job uses the agent as AgentRun promises: a run that is *)
(* started, crashed, shut down or finished maps to a run of the contract.  *)
(***************************************************************************)
EXTENDS SchedulerAuditProofs

\* What the contract reads of a run.
SameContract(q) == UNCHANGED <<pc[q], prev[q], cur[q], verdict[q], AlertsOf(q)>>

LEMMA ContractFrame ==
    ASSUME NEW q \in Profiles, SameContract(q)
    PROVE  UNCHANGED RunOf(q)!vars
  BY DEF SameContract, RunOf!vars, RunPhase, Alerted

\* The fields of a run that has not called the agent, or is over.
Fresh(q) == /\ pc[q] \in Ended \union {"started", "removing", "clearing", "raising"}
            /\ prev[q] = NoSnap /\ cur[q] = NoSnap /\ verdict[q] = "none"

\* Such a run is idle in the contract.
LEMMA FreshIsIdle ==
    ASSUME TypeOK, NEW q \in Profiles, Fresh(q)
    PROVE  RunPhase(q) = "idle" /\ Alerted(q) = FALSE
<1>1. \A a \in AlertsOf(q) : a.cur # NoSnap
  BY AlertTyped DEF Snapshot, NoSnap
<1>. QED
  BY <1>1 DEF Fresh, RunPhase, Ended, Awaiting, Alerted

\* A step into such a state ends the run of the contract.
LEMMA FreshEndsRun ==
    ASSUME TypeOK', NEW q \in Profiles, Fresh(q)'
    PROVE  RunOf(q)!End
<1>1. \A a \in AlertsOf(q)' : a.cur # NoSnap
  BY DEF TypeOK, AlertsOf, Delivery, Snapshot, NoSnap
<1>2. RunPhase(q)' = "idle" /\ Alerted(q)' = FALSE
  BY <1>1 DEF Fresh, RunPhase, Ended, Awaiting, Alerted
<1>. QED
  BY <1>2 DEF RunOf!End, Fresh

LEMMA ContractStep ==
    ASSUME TypeInv, RunInv, AlertInv, AuditInv, TypeOK', [Next]_vars, NEW q \in Profiles
    PROVE  [RunOf(q)!Next]_(RunOf(q)!vars)
<1> USE DEF RunOf!Next
<1>t. TypeOK /\ RunInvAt(q) /\ AlertInvAt(q) /\ AuditInvAt(q)
  BY DEF TypeInv, RunInv, AlertInv, AuditInv
<1>1. CASE Fire(q) \/ Run(q)
  <2> USE <1>t, <1>1 DEF TypeOK
  <2>1. CASE Fire(q) \/ FindOwnJob(q) \/ RemoveOwnJob(q) \/ ClearOwnSnapshots(q)
    <3>1. Fresh(q)'
      BY <2>1 DEF Fire, FindOwnJob, RemoveOwnJob, ClearOwnSnapshots, Fresh, RunInvAt,
         LocalsInv, Ended
    <3>. QED
      BY <3>1, FreshEndsRun
  <2>2. CASE LoadBaseline(q)
    <3>1. CASE pc' = [pc EXCEPT ![q] = "raising"] /\ UNCHANGED prev
      <4>1. Fresh(q)'
        BY <2>2, <3>1 DEF LoadBaseline, Fresh, RunInvAt, LocalsInv
      <4>. QED
        BY <4>1, FreshEndsRun
    <3>2. CASE pc' = [pc EXCEPT ![q] = "fetching"]
      <4>1. Fresh(q)
        BY <2>2 DEF LoadBaseline, Fresh, RunInvAt, LocalsInv
      <4>2. RunPhase(q) = "idle" /\ Alerted(q) = FALSE
        BY <4>1, FreshIsIdle
      <4>3. AlertsOf(q)' = AlertsOf(q) /\ cur'[q] = cur[q] /\ cur[q] = NoSnap
        BY <2>2, <4>1 DEF LoadBaseline, AlertsOf, Fresh
      <4>4. Alerted(q)' = FALSE
        <5>1. \A a \in AlertsOf(q) : a.cur # NoSnap
          BY AlertTyped DEF Snapshot, NoSnap
        <5>. QED
          BY <4>3, <5>1 DEF Alerted
      <4>5. RunPhase(q)' = "fetching"
        BY <3>2 DEF RunPhase, Awaiting
      <4>. QED
        BY <2>2, <4>2, <4>4, <4>5 DEF RunOf!Start, LoadBaseline
    <3>. QED
      BY <2>2, <3>1, <3>2 DEF LoadBaseline
  <2>3. CASE FetchForecast(q)
    <3>1. PICK f \in Forecasts :
             /\ cur' = [cur EXCEPT ![q] = [id |-> fetched[q] + 1, fc |-> f]]
             /\ \/ /\ prev[q] = NoSnap
                   /\ verdict' = [verdict EXCEPT ![q] = "first"]
                   /\ pc' = [pc EXCEPT ![q] = "storing"]
                \/ /\ prev[q] # NoSnap /\ <<prev[q].fc, f>> \notin Significant
                   /\ verdict' = [verdict EXCEPT ![q] = "quiet"]
                   /\ pc' = [pc EXCEPT ![q] = "storing"]
                \/ /\ prev[q] # NoSnap /\ <<prev[q].fc, f>> \in Significant
                   /\ verdict' = verdict
                   /\ pc' = [pc EXCEPT ![q] = "alerting"]
      BY <2>3 DEF FetchForecast
    <3>2. \/ /\ prev[q] = NoSnap
             /\ verdict'[q] = "first" /\ pc'[q] = "storing"
          \/ /\ prev[q] # NoSnap /\ <<prev[q].fc, f>> \notin Significant
             /\ verdict'[q] = "quiet" /\ pc'[q] = "storing"
          \/ /\ prev[q] # NoSnap /\ <<prev[q].fc, f>> \in Significant
             /\ verdict' = verdict /\ pc'[q] = "alerting"
      BY <3>1
    <3>3. /\ cur'[q] \in Snapshot /\ cur'[q].fc = f /\ cur'[q].id = fetched[q] + 1
          /\ fetched[q] \in Nat
      <4>1. cur'[q] = [id |-> fetched[q] + 1, fc |-> f]
        BY <3>1
      <4>2. fetched[q] \in Nat /\ fetched[q] + 1 \in 1..MaxFetches
        BY <2>3, SchedulerAssumption DEF FetchForecast
      <4>. QED
        BY <4>1, <4>2 DEF Snapshot
    <3>4. /\ pc[q] = "fetching" /\ cur[q] = NoSnap /\ verdict[q] = "none"
          /\ prev' = prev /\ AlertsOf(q)' = AlertsOf(q)
      BY <2>3 DEF FetchForecast, RunInvAt, LocalsInv, AlertsOf
    <3>5. Alerted(q) = FALSE /\ Alerted(q)' = FALSE
      <4>1. \A a \in AlertsOf(q) : a.cur # NoSnap /\ a.cur.id <= fetched[q] /\ a.cur.id \in Nat
        BY AlertTyped DEF AlertInvAt, Snapshot, NoSnap
      <4>2. \A a \in AlertsOf(q) : a.cur # cur'[q]
        BY <3>3, <4>1
      <4>. QED
        BY <3>4, <4>1, <4>2 DEF Alerted
    <3>6. RunPhase(q) = "fetching"
      BY <3>4 DEF RunPhase, Awaiting
    <3>7. <<prev[q], cur'[q]>> \in CrossingPairs
            <=> prev[q] \in Snapshot /\ <<prev[q].fc, f>> \in Significant
      BY <3>3 DEF CrossingPairs
    <3>8. CASE pc'[q] = "storing" /\ verdict'[q] \in {"first", "quiet"}
      <4>1. RunPhase(q)' = "done"
        BY <3>8 DEF RunPhase, Awaiting
      <4>2. \/ verdict'[q] = "first" /\ prev[q] = NoSnap
            \/ verdict'[q] = "quiet" /\ prev[q] # NoSnap /\ <<prev[q].fc, f>> \notin Significant
        BY <3>8, <3>2
      <4>. QED
        BY <3>3, <3>4, <3>5, <3>6, <3>7, <4>1, <4>2 DEF RunOf!Decide
    <3>9. CASE pc'[q] = "alerting"
      <4>1. RunPhase(q)' = "alerting"
        BY <3>9 DEF RunPhase, Awaiting
      <4>2. prev[q] # NoSnap /\ <<prev[q].fc, f>> \in Significant /\ verdict' = verdict
        BY <3>9, <3>2
      <4>. QED
        BY <3>3, <3>4, <3>5, <3>6, <3>7, <4>1, <4>2 DEF RunOf!Decide
    <3>. QED
      BY <3>8, <3>9, <3>2
  <2>4. CASE FetchFails(q) \/ Acknowledge(q) \/ NotifyFails(q)
    <3>1. AlertsOf(q)' = AlertsOf(q) /\ UNCHANGED <<prev[q], cur[q]>> /\ RunPhase(q)' = "done"
      BY <2>4 DEF FetchFails, Acknowledge, NotifyFails, AlertsOf, RunPhase, Awaiting
    <3>2. Alerted(q)' = Alerted(q)
      BY <3>1 DEF Alerted
    <3>. QED
      BY <2>4, <3>1, <3>2 DEF FetchFails, Acknowledge, NotifyFails, RunPhase, Awaiting,
         RunOf!FetchFails, RunOf!Acknowledge, RunOf!NotifyFails
  <2>5. CASE Deliver(q)
    <3>1. Alerted(q)'
      <4>1. PICK new : new = [profile |-> q, prev |-> prev[q], cur |-> cur[q],
                              chat |-> arg[q], late |-> row[q] = "inactive"]
        OBVIOUS
      <4>2. new \in AlertsOf(q)' /\ new.prev = prev'[q] /\ new.cur = cur'[q]
        BY <2>5, <4>1 DEF Deliver, AlertsOf
      <4>. QED
        BY <4>2 DEF Alerted
    <3>. QED
      BY <2>5, <3>1 DEF Deliver, RunOf!Deliver, RunPhase, Awaiting
  <2>6. CASE StoreSnapshot(q)
    <3>1. /\ UNCHANGED <<prev[q], cur[q], verdict[q], AlertsOf(q)>>
          /\ pc[q] = "storing" /\ pc'[q] \in {"writing", "raising"}
          /\ verdict[q] # "none"
      BY <2>6 DEF StoreSnapshot, AlertsOf, AuditInvAt, VerdictInv
    <3>. QED
      BY <3>1 DEF RunOf!vars, RunPhase, Awaiting, Alerted
  <2>7. CASE WritePoll(q)
    <3>1. Fresh(q)'
      BY <2>7 DEF WritePoll, Fresh, Ended
    <3>. QED
      BY <3>1, FreshEndsRun
  <2>. QED
    BY <1>1, <2>1, <2>2, <2>3, <2>4, <2>5, <2>6, <2>7 DEF Run
<1>2. ASSUME NEW p \in Profiles, p # q, Fire(p) \/ Run(p)
      PROVE  UNCHANGED RunOf(q)!vars
  BY <1>2, <1>t, OtherAlerts, ContractFrame DEF SameAlerts, SameRun, SameContract, OtherAudits, SameAudit
<1>3. ASSUME SameContract(q) PROVE UNCHANGED RunOf(q)!vars
  BY <1>3, ContractFrame
<1>4. ASSUME NEW p \in Profiles,
             \/ Post(p) \/ PatchChat(p) \/ EventPasses(p) \/ CorruptRow(p)
             \/ \E d \in Deleters : Delete(d, p)
      PROVE  SameContract(q)
  BY <1>4 DEF SameContract, AlertsOf, Post, PostSave, PostRegister, PostCommit, PatchChat,
     EventPasses, CorruptRow, Delete, DeleteFind, DeleteRemoveJob, DeleteClear,
     DeleteCommit, runVars
<1>5. CASE Crash \/ Shutdown
  <2>1. Fresh(q)'
    BY <1>5 DEF Crash, Shutdown, LoseMemory, Fresh, Ended
  <2>. QED
    BY <2>1, FreshEndsRun
<1>6. CASE Startup \/ StartupAborts \/ UNCHANGED vars
  BY <1>3, <1>6 DEF SameContract, AlertsOf, Startup, StartupAborts, vars, runVars
<1>. QED
  BY <1>1, <1>2, <1>3, <1>4, <1>5, <1>6 DEF Next, Process

\* The jobs use the agent as the contract says: at most one alert per run, for
\* a significant move, and a verdict that is true.
THEOREM JobsFollowContract == Spec => RunsFollowContract
<1>1. Init => RunsBegin
  <2> SUFFICES ASSUME Init, NEW p \in Profiles PROVE RunOf(p)!Init
    BY DEF RunsBegin
  <2>. QED
    BY DEF Init, RunOf!Init, RunPhase, Awaiting, Alerted, AlertsOf
<1>2. TypeInv /\ TypeInv' /\ RunInv /\ AlertInv /\ AuditInv /\ [Next]_vars
        => [RunsStep]_vars
  BY ContractStep DEF TypeInv, RunsStep
<1>. QED
  BY <1>1, <1>2, TypeInductive, RunsInductive, AlertsInductive, AuditsInductive, PTL
     DEF Spec, RunsFollowContract
=============================================================================
