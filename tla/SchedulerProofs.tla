--------------------------- MODULE SchedulerProofs ---------------------------
(***************************************************************************)
(* Proofs about the API process, for every set of profiles and forecasts,  *)
(* every significance relation, every number of worker threads, every set  *)
(* of faults and every bound.                                              *)
(***************************************************************************)
EXTENDS SchedulerInvariants, TLAPS

\* A fault is counted within its bound.
LEMMA FaultTyped ==
    ASSUME TypeOK, NEW kind, Fault(kind)
    PROVE  faults' \in 0..MaxFaults
  BY SchedulerAssumption DEF TypeOK, Fault

\* Every variable of the process, the tables and the world stays in its range
\* along every behaviour of jobs.py, routes.py, main.py and database.py.
LEMMA TypeInductive == Spec => []TypeInv
<1>1. Init => TypeInv
  BY SchedulerAssumption DEF Init, TypeInv, TypeOK, RunTyped, Deciding, ChatOrNone, RunPc, Ended, Awaiting,
     Verdicts, PostPc, DelPc
<1>2. TypeInv /\ [Next]_vars => TypeInv'
  <2> SUFFICES ASSUME TypeInv, [Next]_vars PROVE TypeInv'
    OBVIOUS
  <2> USE SchedulerAssumption DEF TypeInv, TypeOK, RunTyped, Deciding, dbVars, runVars, httpVars, RunPc, Ended,
          Awaiting, PostPc, DelPc, ChatOrNone, Verdicts
  <2>1. ASSUME NEW p \in Profiles, Fire(p) PROVE TypeInv'
    BY <2>1 DEF Fire
  <2>2. ASSUME NEW p \in Profiles, FindOwnJob(p) PROVE TypeInv'
    BY <2>2 DEF FindOwnJob
  <2>3. ASSUME NEW p \in Profiles, RemoveOwnJob(p) PROVE TypeInv'
    BY <2>3 DEF RemoveOwnJob
  <2>4. ASSUME NEW p \in Profiles, ClearOwnSnapshots(p) PROVE TypeInv'
    <3>1. live' \in [Profiles -> SUBSET Snapshot]
      BY <2>4 DEF ClearOwnSnapshots, Deregister
    <3>2. retired' \in [Profiles -> SUBSET Snapshot]
      BY <2>4 DEF ClearOwnSnapshots, Deregister
    <3>3. faults' \in 0..MaxFaults
      BY <2>4, FaultTyped DEF ClearOwnSnapshots
    <3>. QED
      BY <2>4, <3>1, <3>2, <3>3 DEF ClearOwnSnapshots
  <2>5. ASSUME NEW p \in Profiles, LoadBaseline(p) PROVE TypeInv'
    <3>1. prev' \in [Profiles -> Snapshot \union {NoSnap}]
      BY <2>5 DEF LoadBaseline, LatestSnapshots
    <3>2. faults' \in 0..MaxFaults
      BY <2>5, FaultTyped DEF LoadBaseline
    <3>. QED
      BY <2>5, <3>1, <3>2 DEF LoadBaseline
  <2>6. ASSUME NEW p \in Profiles, FetchForecast(p) PROVE TypeInv'
    <3>1. PICK f \in Forecasts : cur' = [cur EXCEPT ![p] = [id |-> fetched[p] + 1, fc |-> f]]
      BY <2>6 DEF FetchForecast
    <3>2. [id |-> fetched[p] + 1, fc |-> f] \in Snapshot /\ fetched[p] + 1 \in 0..MaxFetches
      BY <2>6 DEF FetchForecast, Snapshot
    <3>3. pc'[p] = "alerting" => prev[p] \in Snapshot
      BY <2>6 DEF FetchForecast
    <3>4. TypeOK'
      BY <2>6, <3>1, <3>2 DEF FetchForecast
    <3>5. RunTyped'
      BY <2>6, <3>1, <3>2, <3>3 DEF FetchForecast
    <3>. QED
      BY <3>4, <3>5
  <2>7. ASSUME NEW p \in Profiles, FetchFails(p) PROVE TypeInv'
    BY <2>7 DEF FetchFails
  <2>8. ASSUME NEW p \in Profiles, Deliver(p) PROVE TypeInv'
    <3> DEFINE a == [profile |-> p, prev |-> prev[p], cur |-> cur[p],
                     chat |-> arg[p], late |-> row[p] = "inactive"]
    <3>0. prev[p] \in Snapshot /\ cur[p] \in Snapshot /\ arg[p] \in ChatOrNone
      BY <2>8 DEF Deliver
    <3>1. a \in Delivery
      BY <3>0 DEF Delivery
    <3>2. sent' \subseteq Delivery
      BY <2>8, <3>1 DEF Deliver
    <3>. QED
      BY <2>8, <3>2 DEF Deliver
  <2>9. ASSUME NEW p \in Profiles, Acknowledge(p) PROVE TypeInv'
    BY <2>9 DEF Acknowledge
  <2>10. ASSUME NEW p \in Profiles, NotifyFails(p) PROVE TypeInv'
    BY <2>10 DEF NotifyFails
  <2>11. ASSUME NEW p \in Profiles, StoreSnapshot(p) PROVE TypeInv'
    <3>1. live' \in [Profiles -> SUBSET Snapshot]
      BY <2>11 DEF StoreSnapshot
    <3>2. faults' \in 0..MaxFaults
      BY <2>11, FaultTyped DEF StoreSnapshot
    <3>. QED
      BY <2>11, <3>1, <3>2 DEF StoreSnapshot
  <2>12. ASSUME NEW p \in Profiles, WritePoll(p) PROVE TypeInv'
    <3>1. cur[p].id \in 0..MaxFetches
      BY DEF Snapshot, NoSnap
    <3>2. DefaultRow(cur[p].id) \in PollRow /\ OutcomeRow(cur[p].id, verdict[p]) \in PollRow
      BY <3>1 DEF DefaultRow, OutcomeRow, PollRow
    <3>3. polls' \in [Profiles -> SUBSET PollRow]
      BY <2>12, <3>2 DEF WritePoll
    <3>4. faults' \in 0..MaxFaults
      BY <2>12, FaultTyped DEF WritePoll
    <3>. QED
      BY <2>12, <3>3, <3>4 DEF WritePoll
  <2>13. ASSUME NEW p \in Profiles, PostSave(p) PROVE TypeInv'
    BY <2>13 DEF PostSave
  <2>14. ASSUME NEW p \in Profiles, PostRegister(p) PROVE TypeInv'
    BY <2>14 DEF PostRegister
  <2>15. ASSUME NEW p \in Profiles, PostCommit(p) PROVE TypeInv'
    <3>1. faults' \in 0..MaxFaults
      BY <2>15, FaultTyped DEF PostCommit
    <3>. QED
      BY <2>15, <3>1 DEF PostCommit
  <2>16. ASSUME NEW p \in Profiles, PatchChat(p) PROVE TypeInv'
    BY <2>16 DEF PatchChat
  <2>17. ASSUME NEW p \in Profiles, EventPasses(p) PROVE TypeInv'
    BY <2>17 DEF EventPasses
  <2>18. ASSUME NEW p \in Profiles, CorruptRow(p) PROVE TypeInv'
    BY <2>18 DEF CorruptRow, Fault
  <2>19. ASSUME NEW d \in Deleters, NEW p \in Profiles, DeleteFind(d, p) PROVE TypeInv'
    BY <2>19 DEF DeleteFind
  <2>20. ASSUME NEW d \in Deleters, NEW p \in Profiles, DeleteRemoveJob(d, p) PROVE TypeInv'
    BY <2>20 DEF DeleteRemoveJob
  <2>21. ASSUME NEW d \in Deleters, NEW p \in Profiles, DeleteClear(d, p) PROVE TypeInv'
    <3>1. live' \in [Profiles -> SUBSET Snapshot]
      BY <2>21 DEF DeleteClear, Deregister
    <3>2. retired' \in [Profiles -> SUBSET Snapshot]
      BY <2>21 DEF DeleteClear, Deregister
    <3>3. faults' \in 0..MaxFaults
      BY <2>21, FaultTyped DEF DeleteClear
    <3>4. PICK x \in DelPc : del' = [del EXCEPT ![d][p] = x]
      BY <2>21 DEF DeleteClear
    <3>5. del' \in [Deleters -> [Profiles -> DelPc]]
      BY <3>4
    <3>. QED
      BY <2>21, <3>1, <3>2, <3>3, <3>5 DEF DeleteClear
  <2>22. ASSUME NEW d \in Deleters, NEW p \in Profiles, DeleteCommit(d, p) PROVE TypeInv'
    <3>1. live' \in [Profiles -> SUBSET Snapshot]
      BY <2>22 DEF DeleteCommit, Deregister
    <3>2. retired' \in [Profiles -> SUBSET Snapshot]
      BY <2>22 DEF DeleteCommit, Deregister
    <3>3. faults' \in 0..MaxFaults
      BY <2>22, FaultTyped DEF DeleteCommit
    <3>4. del' \in [Deleters -> [Profiles -> DelPc]]
      BY <2>22 DEF DeleteCommit
    <3>. QED
      BY <2>22, <3>1, <3>2, <3>3, <3>4 DEF DeleteCommit
  <2>23. CASE Crash
    BY <2>23 DEF Crash, LoseMemory, Fault
  <2>24. CASE Shutdown
    <3>1. \A p \in Profiles : DefaultRow(cur[p].id) \in PollRow
      BY DEF Snapshot, NoSnap, DefaultRow, PollRow
    <3>2. polls' \in [Profiles -> SUBSET PollRow]
      BY <2>24, <3>1 DEF Shutdown
    <3>3. faults' \in 0..MaxFaults
      BY <2>24, FaultTyped DEF Shutdown
    <3>. QED
      BY <2>24, <3>2, <3>3 DEF Shutdown, LoseMemory
  <2>25. CASE Startup
    BY <2>25 DEF Startup, Listed
  <2>26. CASE StartupAborts
    BY <2>26 DEF StartupAborts
  <2>27. CASE UNCHANGED vars
    BY <2>27 DEF vars
  <2>. QED
    BY <2>1, <2>2, <2>3, <2>4, <2>5, <2>6, <2>7, <2>8, <2>9, <2>10, <2>11, <2>12, <2>13, <2>14, <2>15, <2>16, <2>17, <2>18, <2>19, <2>20, <2>21, <2>22, <2>23, <2>24, <2>25, <2>26, <2>27
       DEF Next, Run, Post, Delete, Process
<1>3. QED
  BY <1>1, <1>2, PTL DEF Spec

\* Every variable stays in its range along every behaviour of the process.
THEOREM TypeCorrect == Spec => []TypeOK
  BY TypeInductive, PTL DEF TypeInv

-----------------------------------------------------------------------------
\* A DELETE that has removed the job keeps it removed until its commit, and a
\* deleted profile has none: a POST registers only before its row exists, and
\* start-up only active rows.
LEMMA RequestsInductive == Spec => []RequestInv
<1>1. Init => RequestInv
  <2> SUFFICES ASSUME Init, NEW p \in Profiles
               PROVE  /\ row[p] = "absent" /\ post[p] = "none" /\ jobs[p] = NoJob
                      /\ \A d \in Deleters : del[d][p] = "idle"
    BY DEF RequestInv, Deleted, Init
  <2>. QED
    BY DEF Init
<1>2. TypeOK /\ RequestInv /\ [Next]_vars => RequestInv'
  <2> SUFFICES ASSUME TypeOK, RequestInv, [Next]_vars PROVE RequestInv'
    OBVIOUS
  <2> USE SchedulerAssumption DEF TypeOK, RequestInv, Deleted, ChatOrNone
  <2>1. CASE UNCHANGED <<row, post, proc, jobs, del>>
    BY <2>1
  <2>2. ASSUME NEW p \in Profiles, Fire(p) \/ Run(p) PROVE RequestInv'
    <3>1. CASE RemoveOwnJob(p)
      BY <3>1 DEF RemoveOwnJob, dbVars, httpVars
    <3>2. CASE UNCHANGED <<row, post, proc, jobs, del>>
      BY <2>1, <3>2
    <3>. QED
      BY <2>2, <3>1, <3>2 DEF Run, Fire, FindOwnJob, ClearOwnSnapshots, LoadBaseline,
         FetchForecast, FetchFails, Deliver, Acknowledge, NotifyFails, StoreSnapshot,
         WritePoll, dbVars, httpVars
  <2>3. ASSUME NEW p \in Profiles, PostSave(p) PROVE RequestInv'
    BY <2>3 DEF PostSave, dbVars
  <2>4. ASSUME NEW p \in Profiles, PostRegister(p) PROVE RequestInv'
    BY <2>4 DEF PostRegister, dbVars
  <2>5. ASSUME NEW p \in Profiles, PostCommit(p) PROVE RequestInv'
    BY <2>5 DEF PostCommit
  <2>6. ASSUME NEW p \in Profiles, PatchChat(p) \/ EventPasses(p) \/ CorruptRow(p)
        PROVE  RequestInv'
    BY <2>1, <2>6 DEF PatchChat, EventPasses, CorruptRow, dbVars, httpVars
  <2>7. ASSUME NEW d \in Deleters, NEW p \in Profiles, DeleteFind(d, p) PROVE RequestInv'
    BY <2>7 DEF DeleteFind, dbVars
  <2>8. ASSUME NEW d \in Deleters, NEW p \in Profiles, DeleteRemoveJob(d, p)
        PROVE  RequestInv'
    BY <2>8 DEF DeleteRemoveJob, dbVars
  <2>9. ASSUME NEW d \in Deleters, NEW p \in Profiles, DeleteClear(d, p) PROVE RequestInv'
    <3>1. PICK x \in {"idle", "committing"} :
             /\ del[d][p] = "clearing" /\ del' = [del EXCEPT ![d][p] = x]
             /\ UNCHANGED <<row, post, proc, jobs>>
      BY <2>9 DEF DeleteClear
    <3>. QED
      BY <3>1
  <2>10. ASSUME NEW d \in Deleters, NEW p \in Profiles, DeleteCommit(d, p)
         PROVE  RequestInv'
    BY <2>10 DEF DeleteCommit
  <2>11. CASE Crash \/ Shutdown
    <3>1. /\ row' = row /\ proc' = "down"
          /\ jobs' = [q \in Profiles |-> NoJob]
          /\ post' = [q \in Profiles |->
                        IF post[q] \in {"saved", "scheduled"} THEN "failed" ELSE post[q]]
          /\ del' = [d \in Deleters |-> [q \in Profiles |-> "idle"]]
      BY <2>11 DEF Crash, Shutdown, LoseMemory, dbVars
    <3>2. \A q \in Profiles : jobs'[q] = NoJob /\ \A d \in Deleters : del'[d][q] = "idle"
      BY <3>1
    <3>3. \A q \in Profiles : /\ post'[q] \notin {"saved", "scheduled"}
                             /\ post'[q] = "done" <=> post[q] = "done"
      BY <3>1
    <3>4. \A q \in Profiles : row[q] # "absent" <=> post[q] = "done"
      OBVIOUS
    <3>. HIDE DEF TypeOK
    <3>. QED
      BY <3>1, <3>2, <3>3, <3>4
  <2>12. CASE Startup
    BY <2>12 DEF Startup, Listed, dbVars, httpVars
  <2>13. CASE StartupAborts
    BY <2>13 DEF StartupAborts, dbVars, httpVars
  <2>14. CASE UNCHANGED vars
    BY <2>1, <2>14 DEF vars, dbVars, httpVars
  <2>. QED
    BY <2>2, <2>3, <2>4, <2>5, <2>6, <2>7, <2>8, <2>9, <2>10, <2>11, <2>12, <2>13, <2>14
       DEF Next, Post, Delete, Process
<1>3. QED
  BY <1>1, <1>2, TypeCorrect, PTL DEF Spec

\* A profile whose DELETE was committed never runs again, whatever is in flight
\* and however often the process restarts.
THEOREM DeletedStaysQuiet == Spec => QuietAfterDelete
<1>1. TypeOK /\ RequestInv /\ [Next]_vars =>
        [\A p \in Profiles : (Deleted(p) /\ pc[p] \in Ended) => pc'[p] \in Ended]_vars
  <2> SUFFICES ASSUME TypeOK, RequestInv, Next,
                      NEW p \in Profiles, Deleted(p), pc[p] \in Ended
               PROVE  pc'[p] \in Ended
    OBVIOUS
  <2> USE DEF TypeOK, RequestInv, Deleted, Ended
  <2>1. ASSUME NEW q \in Profiles, Fire(q) \/ Run(q) PROVE pc'[p] \in Ended
    <3>1. pc[p] \notin {"started", "removing", "clearing", "raising", "storing", "writing"}
                       \union Awaiting /\ jobs[p] = NoJob
      BY DEF Awaiting
    <3>2. q # p
      BY <2>1, <3>1 DEF Fire, Run, FindOwnJob, RemoveOwnJob, ClearOwnSnapshots,
         LoadBaseline, FetchForecast, FetchFails, Deliver, Acknowledge, NotifyFails,
         StoreSnapshot, WritePoll, Awaiting
    <3>3. \E x : pc' = [pc EXCEPT ![q] = x]
      BY <2>1 DEF Fire, Run, FindOwnJob, RemoveOwnJob, ClearOwnSnapshots,
         LoadBaseline, FetchForecast, FetchFails, Deliver, Acknowledge, NotifyFails,
         StoreSnapshot, WritePoll
    <3>. QED
      BY <3>2, <3>3
  <2>2. CASE Process
    BY <2>2 DEF Process, Crash, Shutdown, Startup, StartupAborts, LoseMemory, runVars
  <2>3. CASE UNCHANGED pc
    BY <2>3
  <2>. QED
    BY <2>1, <2>2, <2>3 DEF Next, Post, Delete, PostSave, PostRegister, PostCommit,
       PatchChat, EventPasses, CorruptRow, DeleteFind, DeleteRemoveJob, DeleteClear,
       DeleteCommit, runVars
<1>2. QED
  BY <1>1, TypeCorrect, RequestsInductive, PTL DEF Spec, QuietAfterDelete

-----------------------------------------------------------------------------
\* Jobs and rows agree up to the requests in progress, for every profile that no
\* failed commit or clearing has left torn: each of these ends a request that is
\* half done.
LEMMA AgreementInductive == Spec => []AgreementInv
<1>1. Init => AgreementInv
  <2> SUFFICES ASSUME Init, NEW p \in Profiles
               PROVE  row[p] = "absent" /\ post[p] = "none" /\ jobs[p] = NoJob /\ pc[p] = "idle"
    BY DEF AgreementInv, Init
  <2>. QED
    BY DEF Init
<1>2. TypeOK /\ RequestInv /\ AgreementInv /\ [Next]_vars => AgreementInv'
  <2> SUFFICES ASSUME TypeOK, RequestInv, AgreementInv, [Next]_vars PROVE AgreementInv'
    OBVIOUS
  <2> USE SchedulerAssumption DEF TypeOK, RequestInv, AgreementInv, IsActive, ChatOrNone
  <2>1. CASE UNCHANGED <<row, post, proc, jobs, del, torn, expired, pc>>
    BY <2>1
  <2>2. ASSUME NEW p \in Profiles, Fire(p) \/ Run(p) PROVE AgreementInv'
    <3>1. CASE RemoveOwnJob(p)
      BY <3>1 DEF RemoveOwnJob, dbVars, httpVars
    <3>2. CASE FindOwnJob(p)
      BY <3>2 DEF FindOwnJob, dbVars, httpVars
    <3>3. ASSUME UNCHANGED <<row, post, proc, jobs, del, torn, expired>>,
                 NEW x, x # "removing", pc' = [pc EXCEPT ![p] = x]
          PROVE  AgreementInv'
      BY <3>3
    <3>4. CASE Fire(p) \/ ClearOwnSnapshots(p) \/ LoadBaseline(p)
      BY <3>3, <3>4 DEF Fire, ClearOwnSnapshots, LoadBaseline, dbVars, httpVars
    <3>5. CASE FetchForecast(p) \/ FetchFails(p) \/ Deliver(p)
      BY <3>3, <3>5 DEF FetchForecast, FetchFails, Deliver, dbVars, httpVars
    <3>6. CASE Acknowledge(p) \/ NotifyFails(p) \/ StoreSnapshot(p)
      BY <3>3, <3>6 DEF Acknowledge, NotifyFails, StoreSnapshot, dbVars, httpVars
    <3>7. CASE WritePoll(p)
      BY <3>3, <3>7 DEF WritePoll, httpVars
    <3>. QED
      BY <2>2, <3>1, <3>2, <3>4, <3>5, <3>6, <3>7 DEF Run
  <2>3. ASSUME NEW p \in Profiles, PostSave(p) PROVE AgreementInv'
    BY <2>3 DEF PostSave, dbVars, runVars
  <2>4. ASSUME NEW p \in Profiles, PostRegister(p) PROVE AgreementInv'
    BY <2>4 DEF PostRegister, dbVars, runVars
  <2>5. ASSUME NEW p \in Profiles, PostCommit(p) PROVE AgreementInv'
    <3>1. CASE /\ row' = [row EXCEPT ![p] = "active"]
               /\ post' = [post EXCEPT ![p] = "done"] /\ torn' = torn
      BY <2>5, <3>1 DEF PostCommit, runVars
    <3>2. CASE /\ row' = row
               /\ post' = [post EXCEPT ![p] = "failed"] /\ torn' = torn \union {p}
      BY <2>5, <3>2 DEF PostCommit, runVars
    <3>. QED
      BY <2>5, <3>1, <3>2 DEF PostCommit
  <2>6. ASSUME NEW p \in Profiles, PatchChat(p) \/ CorruptRow(p) PROVE AgreementInv'
    BY <2>1, <2>6 DEF PatchChat, CorruptRow, runVars, httpVars
  <2>7. ASSUME NEW p \in Profiles, EventPasses(p) PROVE AgreementInv'
    BY <2>7 DEF EventPasses, dbVars, runVars, httpVars
  <2>8. ASSUME NEW d \in Deleters, NEW p \in Profiles, DeleteFind(d, p)
        PROVE  AgreementInv'
    BY <2>8 DEF DeleteFind, dbVars, runVars
  <2>9. ASSUME NEW d \in Deleters, NEW p \in Profiles, DeleteRemoveJob(d, p)
        PROVE  AgreementInv'
    BY <2>9 DEF DeleteRemoveJob, dbVars, runVars
  <2>10. ASSUME NEW d \in Deleters, NEW p \in Profiles, DeleteClear(d, p)
         PROVE  AgreementInv'
    <3>1. CASE del' = [del EXCEPT ![d][p] = "committing"] /\ torn' = torn
      BY <2>10, <3>1 DEF DeleteClear, runVars
    <3>2. CASE del' = [del EXCEPT ![d][p] = "idle"] /\ torn' = torn \union {p}
      BY <2>10, <3>2 DEF DeleteClear, runVars
    <3>. QED
      BY <2>10, <3>1, <3>2 DEF DeleteClear
  <2>11. ASSUME NEW d \in Deleters, NEW p \in Profiles, DeleteCommit(d, p)
         PROVE  AgreementInv'
    <3>1. del[d][p] = "committing" /\ del' = [del EXCEPT ![d][p] = "idle"]
      BY <2>11 DEF DeleteCommit
    <3>2. CASE row' = [row EXCEPT ![p] = "inactive"] /\ torn' = torn \ {p}
      BY <2>11, <3>1, <3>2 DEF DeleteCommit, runVars
    <3>3. CASE row' = row /\ torn' = torn \union {p}
      BY <2>11, <3>1, <3>3 DEF DeleteCommit, runVars
    <3>. QED
      BY <2>11, <3>2, <3>3 DEF DeleteCommit
  <2>12. CASE Crash \/ Shutdown
    <3>1. proc' = "down" /\ pc' = [q \in Profiles |-> "idle"]
      BY <2>12 DEF Crash, Shutdown, LoseMemory
    <3>. QED
      BY <3>1
  <2>13. CASE Startup
    BY <2>13 DEF Startup, Listed, dbVars, runVars, httpVars
  <2>14. CASE StartupAborts
    BY <2>14 DEF StartupAborts, runVars
  <2>15. CASE UNCHANGED vars
    BY <2>1, <2>15 DEF vars, dbVars, runVars, httpVars
  <2>. QED
    BY <2>2, <2>3, <2>4, <2>5, <2>6, <2>7, <2>8, <2>9, <2>10, <2>11, <2>12, <2>13, <2>14, <2>15
       DEF Next, Post, Delete, Process
<1>3. QED
  BY <1>1, <1>2, TypeCorrect, RequestsInductive, PTL DEF Spec

\* What APScheduler polls is what the database says is monitored, whenever no
\* request is in progress: over restarts, crashes, expiry, concurrent DELETEs,
\* failing runs and failing requests; only a profile whose own request failed at
\* its commit or clearing may differ, until a DELETE of it succeeds or the
\* process starts again.
THEOREM SchedulerAgrees == Spec => []DbSchedulerConsistent
<1>1. AgreementInv => DbSchedulerConsistent
  BY DEF AgreementInv, DbSchedulerConsistent, Settled
<1>2. QED
  BY <1>1, AgreementInductive, PTL

-----------------------------------------------------------------------------
\* Chats.

\* A row's chat is written once, so what jobs, runs and alerts took from it stays
\* what it says.
LEMMA ChatsInductive == Spec => []ChatInv
<1>1. Init => ChatInv
  BY DEF Init, ChatInv, AlertsStayPrivate
<1>2. TypeOK /\ ChatInv /\ [Next]_vars => ChatInv'
  <2> SUFFICES ASSUME TypeOK, ChatInv, [Next]_vars PROVE ChatInv'
    OBVIOUS
  <2> USE SchedulerAssumption DEF TypeOK, ChatInv, AlertsStayPrivate, ChatOrNone
  <2>1. CASE UNCHANGED <<rowChat, jobs, arg, sent>>
    BY <2>1
  <2>2. ASSUME NEW p \in Profiles, Fire(p) \/ Run(p) PROVE ChatInv'
    <3>1. CASE Fire(p)
      <4>1. jobs[p] \in {NoChat, rowChat[p]}
        BY <3>1 DEF Fire
      <4>. QED
        BY <3>1, <4>1 DEF Fire, dbVars
    <3>2. CASE RemoveOwnJob(p)
      BY <3>2 DEF RemoveOwnJob, dbVars
    <3>3. CASE Deliver(p)
      <4>1. /\ UNCHANGED <<rowChat, jobs, arg>>
            /\ \A a \in sent' : a \in sent \/ (a.profile = p /\ a.chat = arg[p])
        BY <3>3 DEF Deliver, dbVars
      <4>. QED
        BY <4>1
    <3>4. CASE WritePoll(p)
      BY <3>4 DEF WritePoll
    <3>5. CASE \/ FindOwnJob(p) \/ ClearOwnSnapshots(p) \/ LoadBaseline(p)
               \/ FetchForecast(p) \/ FetchFails(p) \/ Acknowledge(p)
               \/ NotifyFails(p) \/ StoreSnapshot(p)
      BY <2>1, <3>5
         DEF FindOwnJob, ClearOwnSnapshots, LoadBaseline, FetchForecast, FetchFails,
             Acknowledge, NotifyFails, StoreSnapshot, dbVars
    <3>. QED
      BY <2>2, <3>1, <3>2, <3>3, <3>4, <3>5 DEF Run
  <2>3. ASSUME NEW p \in Profiles, Post(p) PROVE ChatInv'
    BY <2>3 DEF Post, PostSave, PostRegister, PostCommit, dbVars, runVars
  <2>4. ASSUME NEW p \in Profiles, PatchChat(p) PROVE ChatInv'
    <3>1. /\ rowChat[p] = NoChat /\ UNCHANGED <<jobs, arg, sent>>
          /\ \E c \in Chats : rowChat' = [rowChat EXCEPT ![p] = c]
      BY <2>4 DEF PatchChat, runVars
    <3>2. \A q \in Profiles : rowChat[q] = NoChat \/ rowChat'[q] = rowChat[q]
      BY <3>1
    <3>3. \A a \in sent : a.profile \in Profiles
      BY DEF Delivery
    <3>. QED
      BY <3>1, <3>2, <3>3
  <2>5. ASSUME NEW p \in Profiles, EventPasses(p) \/ CorruptRow(p) PROVE ChatInv'
    BY <2>1, <2>5 DEF EventPasses, CorruptRow, dbVars, runVars
  <2>6. ASSUME NEW d \in Deleters, NEW p \in Profiles, Delete(d, p) PROVE ChatInv'
    BY <2>6
       DEF Delete, DeleteFind, DeleteRemoveJob, DeleteClear, DeleteCommit, dbVars, runVars
  <2>7. CASE Crash \/ Shutdown
    BY <2>7 DEF Crash, Shutdown, LoseMemory, dbVars
  <2>8. CASE Startup
    BY <2>8 DEF Startup, dbVars, runVars
  <2>9. CASE StartupAborts
    BY <2>1, <2>9 DEF StartupAborts, dbVars, runVars
  <2>10. CASE UNCHANGED vars
    BY <2>1, <2>10 DEF vars, dbVars, runVars
  <2>. QED
    BY <2>2, <2>3, <2>4, <2>5, <2>6, <2>7, <2>8, <2>9, <2>10 DEF Next, Process
<1>3. QED
  BY <1>1, <1>2, TypeCorrect, PTL DEF Spec

\* Whatever is patched, restarted, deleted or in flight, an alert reaches its own
\* user or the default chat (_job_for_profile, register_profile, lifespan).
THEOREM AlertsArePrivate == Spec => []AlertsStayPrivate
<1>1. ChatInv => AlertsStayPrivate
  BY DEF ChatInv
<1>2. QED
  BY <1>1, ChatsInductive, PTL
=============================================================================
