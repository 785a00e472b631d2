---------------------------- MODULE BrokerProofs ----------------------------
(***************************************************************************)
(* Theorems about ComputeBroker for every set of jobs and agents, every    *)
(* clock bound and every number of restarts: types, that a teardown on HCS *)
(* is final, that no container is left unwatched, and that no deadline is  *)
(* later than the minutes its buyers paid for or still owe.                *)
(***************************************************************************)
EXTENDS ComputeBroker, FiniteSetTheorems, TLAPS

\* A job that waits for its own container: nothing else touches it yet.  A
\* process that is down waits for nothing.
JobInv ==
  /\ \A j \in Jobs :
       /\ stage[j] \in {"new", "quoted", "paid"} =>
            container[j] = "none" /\ j \notin booting
       /\ j \in booting =>
            stage[j] \in {"launching", "dropped"} /\ container[j] = "none"
       /\ stage[j] \in {"new", "quoted", "paid", "launching", "launched"} =>
            /\ j \notin tracked
            /\ stopping[j] = "no"
            /\ j \notin reported
       /\ stage[j] = "launched" => container[j] # "none"
       /\ container[j] = "none" => j \notin tracked /\ stopping[j] = "no"
       /\ stopping[j] \in {"request", "reaper"} => j \notin tracked /\ up
       /\ stage[j] \in {"launching", "launched"} => extends[j] = Fresh
       /\ stage[j] = "failed" => container[j] = "none" /\ j \notin booting
       /\ extends[j] # j
       /\ ~up => stage[j] \notin {"quoted", "paid", "launching", "launched"}
  /\ reaper # "asleep" => up

\* The extensions a container was given.
Extensions(c) ==
  {j \in Jobs : extends[j] = c /\ stage[j] \in {"settling", "unsettled", "done"}}

\* A deadline is the one on the label, put off once by each extension.
DeadlineInv ==
  \A c \in Jobs :
    /\ IsFiniteSet(Extensions(c))
    /\ c \in tracked => expires[c] <= label[c] + Minutes * Cardinality(Extensions(c))

\* Types are right at the start.
LEMMA TypeInit == Init => TypeOK
<1> SUFFICES ASSUME Init PROVE TypeOK
  OBVIOUS
<1> USE BrokerAssumption DEF Init
<1>1. now \in 0..MaxTime /\ crashes \in 0..MaxCrashes
  OBVIOUS
<1>2. /\ stage \in [Jobs -> {"new", "quoted", "paid", "launching", "launched",
                            "settling", "done", "unsettled", "failed", "dropped"}]
      /\ extends \in [Jobs -> Jobs \cup {Fresh}]
      /\ container \in [Jobs -> {"none", "running", "exited", "removed"}]
      /\ stopping \in [Jobs -> {"no", "request", "reaper", "lost"}]
  OBVIOUS
<1>3. /\ label \in [Jobs -> Nat]
      /\ expires \in [Jobs -> Nat]
      /\ status \in [Jobs -> {"running", "exited"}]
  OBVIOUS
<1> QED
  BY <1>1, <1>2, <1>3 DEF TypeOK

\* Every step keeps the types.
LEMMA TypeStep ==
  ASSUME TypeOK, [Next]_vars
  PROVE  TypeOK'
<1> USE BrokerAssumption
    DEF TypeOK, jobVars, dockerVars, trackedVars, reaperVars, historyVars
<1>1. ASSUME NEW j \in Jobs, NEW c \in Jobs \cup {Fresh}, Quote(j, c)
      PROVE  TypeOK'
  BY <1>1 DEF Quote
<1>2. ASSUME NEW j \in Jobs, Pay(j)
      PROVE  TypeOK'
  BY <1>2 DEF Pay
<1>3. ASSUME NEW j \in Jobs, Launch(j)
      PROVE  TypeOK'
  BY <1>3 DEF Launch
<1>4. ASSUME NEW j \in Jobs, Boot(j)
      PROVE  TypeOK'
  BY <1>4 DEF Boot
<1>5. ASSUME NEW j \in Jobs, Track(j)
      PROVE  TypeOK'
  BY <1>5 DEF Track
<1>6. ASSUME NEW j \in Jobs, Extend(j)
      PROVE  TypeOK'
  BY <1>6 DEF Extend
<1>7. ASSUME NEW j \in Jobs, HangUp(j)
      PROVE  TypeOK'
  BY <1>7 DEF HangUp, Dropped
<1>24. ASSUME NEW j \in Jobs, Settle(j)
       PROVE  TypeOK'
  BY <1>24 DEF Settle
<1>8. ASSUME NEW j \in Jobs, Exit(j)
      PROVE  TypeOK'
  BY <1>8 DEF Exit
<1>9. ASSUME NEW j \in Jobs, StopResource(j)
      PROVE  TypeOK'
  BY <1>9 DEF StopResource, Untrack
<1>10. ASSUME NEW j \in Jobs, Remove(j)
      PROVE  TypeOK'
  BY <1>10 DEF Remove
<1>11. ASSUME NEW j \in Jobs, Reap(j)
      PROVE  TypeOK'
  BY <1>11 DEF Reap, Untrack
<1>12. ASSUME NEW a \in Agents, CheckOwner(a)
      PROVE  TypeOK'
  BY <1>12 DEF CheckOwner
<1>13. ASSUME Wake
      PROVE  TypeOK'
  BY <1>13 DEF Wake
<1>14. ASSUME Rest
      PROVE  TypeOK'
  BY <1>14 DEF Rest
<1>15. ASSUME Survey
      PROVE  TypeOK'
  BY <1>15 DEF Survey
<1>16. ASSUME Revoked
      PROVE  TypeOK'
  BY <1>16 DEF Revoked
<1>17. ASSUME Checked
      PROVE  TypeOK'
  BY <1>17 DEF Checked
<1>18. ASSUME Crash
      PROVE  TypeOK'
  <2>1. crashes' \in 0..MaxCrashes
    BY <1>18 DEF Crash, Dropped
  <2>2. /\ stage' \in [Jobs -> {"new", "quoted", "paid", "launching", "launched",
                               "settling", "done", "unsettled", "failed", "dropped"}]
        /\ stopping' \in [Jobs -> {"no", "request", "reaper", "lost"}]
    BY <1>18 DEF Crash, Dropped
  <2>3. /\ tracked' \in SUBSET Jobs
        /\ expires' \in [Jobs -> Nat]
        /\ status' \in [Jobs -> {"running", "exited"}]
    BY <1>18 DEF Crash, Dropped
  <2> QED
    BY <1>18, <2>1, <2>2, <2>3 DEF Crash
<1>19. ASSUME Adopt
      PROVE  TypeOK'
  BY <1>19 DEF Adopt, Listed, Exists
<1>20. ASSUME Tick
      PROVE  TypeOK'
  BY <1>20 DEF Tick
<1>21. ASSUME NEW a \in Agents, Revoke(a)
      PROVE  TypeOK'
  BY <1>21 DEF Revoke
<1>22. ASSUME NEW a \in Agents, Seed(a)
      PROVE  TypeOK'
  BY <1>22 DEF Seed
<1>23. CASE UNCHANGED vars
  BY <1>23 DEF vars
<1> QED
  BY <1>1, <1>2, <1>3, <1>4, <1>5, <1>6,
     <1>7, <1>8, <1>9, <1>10, <1>11, <1>12, <1>13, <1>14,
     <1>15, <1>16, <1>17, <1>18, <1>19, <1>20, <1>21, <1>22, <1>23, <1>24
  DEF Next, Reaper

\* No step touches a container its buyer still waits for.
LEMMA JobStep ==
  ASSUME TypeOK, JobInv, [Next]_vars
  PROVE  JobInv'
<1> USE BrokerAssumption
    DEF TypeOK, JobInv, jobVars, dockerVars, trackedVars, reaperVars, historyVars
<1>1. ASSUME NEW j \in Jobs, NEW c \in Jobs \cup {Fresh}, Quote(j, c)
      PROVE  JobInv'
  BY <1>1 DEF Quote
<1>2. ASSUME NEW j \in Jobs, Pay(j)
      PROVE  JobInv'
  BY <1>2 DEF Pay
<1>3. ASSUME NEW j \in Jobs, Launch(j)
      PROVE  JobInv'
  BY <1>3 DEF Launch
<1>4. ASSUME NEW j \in Jobs, Boot(j)
      PROVE  JobInv'
  BY <1>4 DEF Boot
<1>5. ASSUME NEW j \in Jobs, Track(j)
      PROVE  JobInv'
  BY <1>5 DEF Track
<1>6. ASSUME NEW j \in Jobs, Extend(j)
      PROVE  JobInv'
  BY <1>6 DEF Extend
<1>7. ASSUME NEW j \in Jobs, HangUp(j)
      PROVE  JobInv'
  BY <1>7 DEF HangUp, Dropped
<1>24. ASSUME NEW j \in Jobs, Settle(j)
       PROVE  JobInv'
  BY <1>24 DEF Settle
<1>8. ASSUME NEW j \in Jobs, Exit(j)
      PROVE  JobInv'
  BY <1>8 DEF Exit
<1>9. ASSUME NEW j \in Jobs, StopResource(j)
      PROVE  JobInv'
  BY <1>9 DEF StopResource, Untrack
<1>10. ASSUME NEW j \in Jobs, Remove(j)
      PROVE  JobInv'
  BY <1>10 DEF Remove
<1>11. ASSUME NEW j \in Jobs, Reap(j)
      PROVE  JobInv'
  BY <1>11 DEF Reap, Untrack
<1>12. ASSUME NEW a \in Agents, CheckOwner(a)
      PROVE  JobInv'
  BY <1>12 DEF CheckOwner
<1>13. ASSUME Wake
      PROVE  JobInv'
  BY <1>13 DEF Wake
<1>14. ASSUME Rest
      PROVE  JobInv'
  BY <1>14 DEF Rest
<1>15. ASSUME Survey
      PROVE  JobInv'
  BY <1>15 DEF Survey
<1>16. ASSUME Revoked
      PROVE  JobInv'
  BY <1>16 DEF Revoked
<1>17. ASSUME Checked
      PROVE  JobInv'
  BY <1>17 DEF Checked
<1>18. ASSUME Crash
      PROVE  JobInv'
  BY <1>18 DEF Crash, Dropped
<1>19. ASSUME Adopt
      PROVE  JobInv'
  BY <1>19 DEF Adopt, Listed, Exists
<1>20. ASSUME Tick
      PROVE  JobInv'
  BY <1>20 DEF Tick
<1>21. ASSUME NEW a \in Agents, Revoke(a)
      PROVE  JobInv'
  BY <1>21 DEF Revoke
<1>22. ASSUME NEW a \in Agents, Seed(a)
      PROVE  JobInv'
  BY <1>22 DEF Seed
<1>23. CASE UNCHANGED vars
  BY <1>23 DEF vars
<1> QED
  BY <1>1, <1>2, <1>3, <1>4, <1>5, <1>6,
     <1>7, <1>8, <1>9, <1>10, <1>11, <1>12, <1>13, <1>14,
     <1>15, <1>16, <1>17, <1>18, <1>19, <1>20, <1>21, <1>22, <1>23, <1>24
  DEF Next, Reaper

\* Only an extension that is granted adds to a container's extensions.
LEMMA ExtensionsStay ==
  ASSUME TypeOK, JobInv, [Next]_vars, \A j \in Jobs : ~Extend(j), NEW c \in Jobs
  PROVE  Extensions(c)' = Extensions(c)
<1> USE BrokerAssumption DEF TypeOK, jobVars
<1> DEFINE given == {"settling", "unsettled", "done"}
<1>1. SUFFICES ASSUME NEW j \in Jobs
               PROVE  (extends'[j] = c /\ stage'[j] \in given)
                        <=> (extends[j] = c /\ stage[j] \in given)
  BY <1>1 DEF Extensions
<1>2. ASSUME NEW i \in Jobs, NEW d \in Jobs \cup {Fresh}, Quote(i, d)
      PROVE  (extends'[j] = c /\ stage'[j] \in given)
               <=> (extends[j] = c /\ stage[j] \in given)
  BY <1>2 DEF Quote
<1>3. ASSUME NEW i \in Jobs, Track(i)
      PROVE  (extends'[j] = c /\ stage'[j] \in given)
               <=> (extends[j] = c /\ stage[j] \in given)
  BY <1>3 DEF Track, JobInv
<1>4. ASSUME NEW i \in Jobs,
             Pay(i) \/ Launch(i) \/ Boot(i) \/ Settle(i) \/ HangUp(i) \/ Crash
      PROVE  (extends'[j] = c /\ stage'[j] \in given)
               <=> (extends[j] = c /\ stage[j] \in given)
  <2>1. extends' = extends
    BY <1>4 DEF Pay, Launch, Boot, Settle, HangUp, Crash
  <2>2. stage'[j] \in given <=> stage[j] \in given
    BY <1>4 DEF Pay, Launch, Boot, Settle, HangUp, Crash, Dropped
  <2> QED
    BY <2>1, <2>2
<1>5. ASSUME ~Crash, \A i \in Jobs :
               /\ ~Track(i) /\ ~Pay(i) /\ ~Launch(i) /\ ~Boot(i) /\ ~Settle(i) /\ ~HangUp(i)
               /\ \A d \in Jobs \cup {Fresh} : ~Quote(i, d)
      PROVE  UNCHANGED <<stage, extends>>
  BY <1>5 DEF Next, vars, Exit, StopResource, Remove, Reaper, Wake, Rest, Survey, Revoked,
              Checked, Reap, CheckOwner, Adopt, Tick, Revoke, Seed
<1> QED
  BY <1>2, <1>3, <1>4, <1>5

\* A container's minutes stay within its deadline when it gets no extension
\* and its deadline is the old one or the label's.
LEMMA DeadlineStays ==
  ASSUME TypeOK, DeadlineInv, NEW c \in Jobs,
         Extensions(c)' = Extensions(c), label'[c] = label[c],
         c \in tracked' => (c \in tracked /\ expires'[c] = expires[c]) \/ expires'[c] = label[c]
  PROVE  /\ IsFiniteSet(Extensions(c)')
         /\ c \in tracked' =>
              expires'[c] <= label'[c] + Minutes * Cardinality(Extensions(c)')
<1>1. IsFiniteSet(Extensions(c))
  BY DEF DeadlineInv
<1>2. Cardinality(Extensions(c)) \in Nat
  BY <1>1, FS_CardinalityType
<1>3. Minutes * Cardinality(Extensions(c)) \in Nat
  BY <1>2, BrokerAssumption
<1>4. label[c] \in Nat /\ label[c] <= label[c] + Minutes * Cardinality(Extensions(c))
  BY <1>3 DEF TypeOK
<1> QED
  BY <1>1, <1>4 DEF DeadlineInv

\* Every step keeps the deadlines within the minutes given.
LEMMA DeadlineStep ==
  ASSUME TypeOK, JobInv, DeadlineInv, [Next]_vars
  PROVE  DeadlineInv'
<1> USE BrokerAssumption DEF TypeOK, jobVars, dockerVars, trackedVars
<1>1. ASSUME NEW j \in Jobs, Extend(j)
      PROVE  DeadlineInv'
  <2>0. PICK c : c = extends[j]
    OBVIOUS
  <2>1. CASE c \in tracked /\ Owner[c] = Owner[j]
    <3>1. /\ stage[j] = "paid" /\ c \in Jobs
          /\ stage' = [stage EXCEPT ![j] = "settling"]
          /\ expires' = [expires EXCEPT ![c] = @ + Minutes]
          /\ UNCHANGED <<extends, label, tracked>>
      BY <1>1, <2>0, <2>1 DEF Extend
    <3>2. Extensions(c)' = Extensions(c) \cup {j} /\ j \notin Extensions(c)
      BY <2>0, <3>1 DEF Extensions
    <3>3. \A d \in Jobs \ {c} : Extensions(d)' = Extensions(d)
      BY <2>0, <3>1 DEF Extensions
    <3>4. IsFiniteSet(Extensions(c)) /\ Cardinality(Extensions(c)) \in Nat
      BY <3>1, FS_CardinalityType DEF DeadlineInv
    <3>5. /\ IsFiniteSet(Extensions(c)')
          /\ Cardinality(Extensions(c)') = Cardinality(Extensions(c)) + 1
      BY <3>2, <3>4, FS_AddElement
    <3>6. \A n \in Nat : Minutes * (n + 1) = Minutes * n + Minutes /\ Minutes * n \in Nat
      OBVIOUS
    <3>7. expires[c] <= label[c] + Minutes * Cardinality(Extensions(c))
      BY <2>1, <3>1 DEF DeadlineInv
    <3>8. expires'[c] <= label'[c] + Minutes * Cardinality(Extensions(c)')
      <4> DEFINE n == Cardinality(Extensions(c))
      <4>1. expires'[c] = expires[c] + Minutes /\ label'[c] = label[c]
        BY <3>1
      <4>2. Minutes * Cardinality(Extensions(c)') = Minutes * n + Minutes /\ Minutes * n \in Nat
        BY <3>4, <3>5, <3>6
      <4>3. expires[c] \in Nat /\ label[c] \in Nat /\ Minutes \in Nat
        BY <3>1
      <4> HIDE DEF n
      <4> QED
        BY <3>7, <4>1, <4>2, <4>3 DEF n
    <3>9. ASSUME NEW d \in Jobs \ {c}
          PROVE  /\ IsFiniteSet(Extensions(d)')
                 /\ d \in tracked' =>
                      expires'[d] <= label'[d] + Minutes * Cardinality(Extensions(d)')
      <4>1. expires'[d] = expires[d] /\ label'[d] = label[d] /\ tracked' = tracked
        BY <3>1
      <4> QED
        BY <3>3, <4>1, DeadlineStays
    <3>10. ASSUME NEW d \in Jobs
           PROVE  /\ IsFiniteSet(Extensions(d)')
                  /\ d \in tracked' =>
                       expires'[d] <= label'[d] + Minutes * Cardinality(Extensions(d)')
      <4>1. CASE d = c
        BY <3>5, <3>8, <4>1
      <4>2. CASE d # c
        BY <3>9, <4>2
      <4> QED
        BY <4>1, <4>2
    <3> QED
      BY <3>10 DEF DeadlineInv
  <2>2. CASE ~(c \in tracked /\ Owner[c] = Owner[j])
    <3>1. /\ stage[j] = "paid"
          /\ stage' = [stage EXCEPT ![j] = "failed"]
          /\ UNCHANGED <<extends, label, tracked, expires>>
      BY <1>1, <2>0, <2>2 DEF Extend
    <3>2. \A d \in Jobs : Extensions(d)' = Extensions(d)
      BY <3>1 DEF Extensions
    <3> QED
      BY <3>1, <3>2, DeadlineStays DEF DeadlineInv
  <2> QED
    BY <2>1, <2>2
<1>2. ASSUME \A j \in Jobs : ~Extend(j)
      PROVE  DeadlineInv'
  <2>1. \A c \in Jobs : Extensions(c)' = Extensions(c)
    BY <1>2, ExtensionsStay
  <2>2. ASSUME UNCHANGED label,
               \A c \in tracked' :
                 (c \in tracked /\ expires'[c] = expires[c]) \/ expires'[c] = label[c]
        PROVE  DeadlineInv'
    BY <2>1, <2>2, DeadlineStays DEF DeadlineInv
  <2>3. ASSUME NEW j \in Jobs, Launch(j)
        PROVE  DeadlineInv'
    <3>1. j \notin tracked /\ UNCHANGED <<tracked, expires>>
      BY <2>3 DEF Launch, JobInv
    <3>2. \A c \in Jobs \ {j} : label'[c] = label[c]
      BY <2>3 DEF Launch
    <3>3. ASSUME NEW c \in Jobs
          PROVE  /\ IsFiniteSet(Extensions(c)')
                 /\ c \in tracked' =>
                      expires'[c] <= label'[c] + Minutes * Cardinality(Extensions(c)')
      <4>1. CASE c = j
        BY <2>1, <3>1, <4>1 DEF DeadlineInv
      <4>2. CASE c # j
        BY <2>1, <3>1, <3>2, <4>2, DeadlineStays
      <4> QED
        BY <4>1, <4>2
    <3> QED
      BY <3>3 DEF DeadlineInv
  <2>4. ASSUME NEW j \in Jobs, Track(j)
        PROVE  DeadlineInv'
    BY <2>2, <2>4 DEF Track
  <2>5. ASSUME NEW j \in Jobs, StopResource(j) \/ Reap(j)
        PROVE  DeadlineInv'
    BY <2>2, <2>5 DEF StopResource, Reap, Untrack
  <2>6. CASE Crash
    BY <2>2, <2>6 DEF Crash
  <2>7. CASE Adopt
    <3>1. UNCHANGED label
      BY <2>7 DEF Adopt
    <3>2. ASSUME NEW c \in tracked'
          PROVE  (c \in tracked /\ expires'[c] = expires[c]) \/ expires'[c] = label[c]
      <4>1. CASE UNCHANGED trackedVars
        BY <4>1
      <4>2. CASE /\ tracked' = Listed
                 /\ expires' = [d \in Jobs |-> IF d \in Listed THEN label[d] ELSE expires[d]]
        <5>1. c \in Listed /\ c \in Jobs
          BY <4>2 DEF Listed
        <5> QED
          BY <4>2, <5>1
      <4> QED
        BY <2>7, <4>1, <4>2 DEF Adopt
    <3> QED
      BY <2>2, <3>1, <3>2
  <2>8. ASSUME ~Crash, ~Adopt,
               \A j \in Jobs : ~Launch(j) /\ ~Track(j) /\ ~StopResource(j) /\ ~Reap(j)
        PROVE  UNCHANGED <<label, tracked, expires>>
    BY <1>2, <2>8 DEF Next, vars, Quote, Pay, Boot, Settle, HangUp, Exit, Remove, Reaper, Wake,
                      Rest, Survey, Revoked, Checked, CheckOwner, Tick, Revoke, Seed
  <2> QED
    BY <2>2, <2>3, <2>4, <2>5, <2>6, <2>7, <2>8
<1> QED
  BY <1>1, <1>2

\* Every step leaves what was reported torn down alone.
LEMMA ReportedStep ==
  ASSUME TypeOK, JobInv, ReportedIsGone, [Next]_vars
  PROVE  ReportedIsGone'
<1> USE BrokerAssumption
    DEF TypeOK, JobInv, ReportedIsGone, jobVars, dockerVars, trackedVars, reaperVars, historyVars
<1>1. ASSUME NEW j \in Jobs, NEW c \in Jobs \cup {Fresh}, Quote(j, c)
      PROVE  ReportedIsGone'
  BY <1>1 DEF Quote
<1>2. ASSUME NEW j \in Jobs, Pay(j)
      PROVE  ReportedIsGone'
  BY <1>2 DEF Pay
<1>3. ASSUME NEW j \in Jobs, Launch(j)
      PROVE  ReportedIsGone'
  BY <1>3 DEF Launch
<1>4. ASSUME NEW j \in Jobs, Boot(j)
      PROVE  ReportedIsGone'
  BY <1>4 DEF Boot
<1>5. ASSUME NEW j \in Jobs, Track(j)
      PROVE  ReportedIsGone'
  BY <1>5 DEF Track
<1>6. ASSUME NEW j \in Jobs, Extend(j)
      PROVE  ReportedIsGone'
  BY <1>6 DEF Extend
<1>7. ASSUME NEW j \in Jobs, HangUp(j)
      PROVE  ReportedIsGone'
  BY <1>7 DEF HangUp, Dropped
<1>24. ASSUME NEW j \in Jobs, Settle(j)
       PROVE  ReportedIsGone'
  BY <1>24 DEF Settle
<1>8. ASSUME NEW j \in Jobs, Exit(j)
      PROVE  ReportedIsGone'
  BY <1>8 DEF Exit
<1>9. ASSUME NEW j \in Jobs, StopResource(j)
      PROVE  ReportedIsGone'
  BY <1>9 DEF StopResource, Untrack
<1>10. ASSUME NEW j \in Jobs, Remove(j)
      PROVE  ReportedIsGone'
  BY <1>10 DEF Remove
<1>11. ASSUME NEW j \in Jobs, Reap(j)
      PROVE  ReportedIsGone'
  BY <1>11 DEF Reap, Untrack
<1>12. ASSUME NEW a \in Agents, CheckOwner(a)
      PROVE  ReportedIsGone'
  BY <1>12 DEF CheckOwner
<1>13. ASSUME Wake
      PROVE  ReportedIsGone'
  BY <1>13 DEF Wake
<1>14. ASSUME Rest
      PROVE  ReportedIsGone'
  BY <1>14 DEF Rest
<1>15. ASSUME Survey
      PROVE  ReportedIsGone'
  BY <1>15 DEF Survey
<1>16. ASSUME Revoked
      PROVE  ReportedIsGone'
  BY <1>16 DEF Revoked
<1>17. ASSUME Checked
      PROVE  ReportedIsGone'
  BY <1>17 DEF Checked
<1>18. ASSUME Crash
      PROVE  ReportedIsGone'
  BY <1>18 DEF Crash, Dropped
<1>19. ASSUME Adopt
      PROVE  ReportedIsGone'
  BY <1>19 DEF Adopt, Listed, Exists
<1>20. ASSUME Tick
      PROVE  ReportedIsGone'
  BY <1>20 DEF Tick
<1>21. ASSUME NEW a \in Agents, Revoke(a)
      PROVE  ReportedIsGone'
  BY <1>21 DEF Revoke
<1>22. ASSUME NEW a \in Agents, Seed(a)
      PROVE  ReportedIsGone'
  BY <1>22 DEF Seed
<1>23. CASE UNCHANGED vars
  BY <1>23 DEF vars
<1> QED
  BY <1>1, <1>2, <1>3, <1>4, <1>5, <1>6,
     <1>7, <1>8, <1>9, <1>10, <1>11, <1>12, <1>13, <1>14,
     <1>15, <1>16, <1>17, <1>18, <1>19, <1>20, <1>21, <1>22, <1>23, <1>24
  DEF Next, Reaper

\* Every step leaves each container with someone to take it down.
LEMMA StrayStep ==
  ASSUME TypeOK, JobInv, NoStray, [Next]_vars
  PROVE  NoStray'
<1> USE BrokerAssumption
    DEF TypeOK, JobInv, NoStray, Exists, jobVars, dockerVars, trackedVars, reaperVars, historyVars
<1>1. ASSUME NEW j \in Jobs, NEW c \in Jobs \cup {Fresh}, Quote(j, c)
      PROVE  NoStray'
  BY <1>1 DEF Quote
<1>2. ASSUME NEW j \in Jobs, Pay(j)
      PROVE  NoStray'
  BY <1>2 DEF Pay
<1>3. ASSUME NEW j \in Jobs, Launch(j)
      PROVE  NoStray'
  BY <1>3 DEF Launch
<1>4. ASSUME NEW j \in Jobs, Boot(j)
      PROVE  NoStray'
  BY <1>4 DEF Boot
<1>5. ASSUME NEW j \in Jobs, Track(j)
      PROVE  NoStray'
  BY <1>5 DEF Track
<1>6. ASSUME NEW j \in Jobs, Extend(j)
      PROVE  NoStray'
  BY <1>6 DEF Extend
<1>7. ASSUME NEW j \in Jobs, HangUp(j)
      PROVE  NoStray'
  BY <1>7 DEF HangUp, Dropped
<1>24. ASSUME NEW j \in Jobs, Settle(j)
       PROVE  NoStray'
  BY <1>24 DEF Settle
<1>8. ASSUME NEW j \in Jobs, Exit(j)
      PROVE  NoStray'
  BY <1>8 DEF Exit
<1>9. ASSUME NEW j \in Jobs, StopResource(j)
      PROVE  NoStray'
  BY <1>9 DEF StopResource, Untrack
<1>10. ASSUME NEW j \in Jobs, Remove(j)
      PROVE  NoStray'
  BY <1>10 DEF Remove
<1>11. ASSUME NEW j \in Jobs, Reap(j)
      PROVE  NoStray'
  BY <1>11 DEF Reap, Untrack
<1>12. ASSUME NEW a \in Agents, CheckOwner(a)
      PROVE  NoStray'
  BY <1>12 DEF CheckOwner
<1>13. ASSUME Wake
      PROVE  NoStray'
  BY <1>13 DEF Wake
<1>14. ASSUME Rest
      PROVE  NoStray'
  BY <1>14 DEF Rest
<1>15. ASSUME Survey
      PROVE  NoStray'
  BY <1>15 DEF Survey
<1>16. ASSUME Revoked
      PROVE  NoStray'
  BY <1>16 DEF Revoked
<1>17. ASSUME Checked
      PROVE  NoStray'
  BY <1>17 DEF Checked
<1>18. ASSUME Crash
      PROVE  NoStray'
  BY <1>18 DEF Crash, Dropped
<1>19. ASSUME Adopt
      PROVE  NoStray'
  BY <1>19 DEF Adopt, Listed
<1>20. ASSUME Tick
      PROVE  NoStray'
  BY <1>20 DEF Tick
<1>21. ASSUME NEW a \in Agents, Revoke(a)
      PROVE  NoStray'
  BY <1>21 DEF Revoke
<1>22. ASSUME NEW a \in Agents, Seed(a)
      PROVE  NoStray'
  BY <1>22 DEF Seed
<1>23. CASE UNCHANGED vars
  BY <1>23 DEF vars
<1> QED
  BY <1>1, <1>2, <1>3, <1>4, <1>5, <1>6,
     <1>7, <1>8, <1>9, <1>10, <1>11, <1>12, <1>13, <1>14,
     <1>15, <1>16, <1>17, <1>18, <1>19, <1>20, <1>21, <1>22, <1>23, <1>24
  DEF Next, Reaper

-----------------------------------------------------------------------------
\* The conjunction the theorems rest on.
Inv == TypeOK /\ JobInv /\ DeadlineInv /\ ReportedIsGone /\ NoStray

\* It holds of every reachable state.
THEOREM BrokerInvariant == Spec => []Inv
<1>1. Init => Inv
  <2> SUFFICES ASSUME Init PROVE Inv
    OBVIOUS
  <2>1. TypeOK /\ JobInv /\ ReportedIsGone /\ NoStray
    BY TypeInit, BrokerAssumption DEF Init, JobInv, ReportedIsGone, NoStray, Exists
  <2>2. \A c \in Jobs : Extensions(c) = {} /\ c \notin tracked
    BY DEF Init, Extensions
  <2>3. DeadlineInv
    BY <2>2, FS_EmptySet DEF DeadlineInv
  <2> QED
    BY <2>1, <2>3 DEF Inv
<1>2. Inv /\ [Next]_vars => Inv'
  BY TypeStep, JobStep, DeadlineStep, ReportedStep, StrayStep DEF Inv
<1> QED
  BY <1>1, <1>2, PTL DEF Spec

\* Every variable of the broker keeps its type.
THEOREM TypeCorrect == Spec => []TypeOK
<1>1. Inv => TypeOK
  BY DEF Inv
<1> QED
  BY <1>1, BrokerInvariant, PTL

\* compute.rs:219-244: a teardown that was reported on HCS is final, whatever
\* the reaper, the stop route and a restart do to the same container.
THEOREM TeardownIsFinal == Spec => []ReportedIsGone
<1>1. Inv => ReportedIsGone
  BY DEF Inv
<1> QED
  BY <1>1, BrokerInvariant, PTL

\* compute.rs:5-8: no container is left unwatched, apart from those a hang-up,
\* a refusal of Docker's or a failed listing leaves behind.
THEOREM EveryContainerIsWatched == Spec => []NoStray
<1>1. Inv => NoStray
  BY DEF Inv
<1> QED
  BY <1>1, BrokerInvariant, PTL

\* compute.rs:130-201: whatever fails, is cut off or is restarted, the reaper
\* gives a container the minutes of those that paid and of those whose
\* settlement is out or was lost, each once.
THEOREM MinutesAreAccountedFor == Spec => []FreeMinutesAreOwed
<1>1. Inv => FreeMinutesAreOwed
  <2> SUFFICES ASSUME Inv, NEW c \in tracked
               PROVE  expires[c] + Minutes
                        <= label[c] + Minutes * (Cardinality(Paid(c)) + Cardinality(Owing(c)))
    BY DEF FreeMinutesAreOwed
  <2> USE DEF Inv
  <2>1. c \in Jobs
    BY DEF TypeOK
  <2>2. stage[c] \in {"settling", "unsettled", "done", "dropped"}
    BY <2>1 DEF TypeOK, JobInv
  <2>3. /\ Paid(c) \cup Owing(c) = Extensions(c) \cup {c}
        /\ Paid(c) \cap Owing(c) = {}
        /\ c \notin Extensions(c)
    BY <2>1, <2>2 DEF Paid, Owing, Buyers, Extensions, JobInv
  <2>4. IsFiniteSet(Extensions(c)) /\ Cardinality(Extensions(c)) \in Nat
    BY <2>1, FS_CardinalityType DEF DeadlineInv
  <2>5. /\ IsFiniteSet(Extensions(c) \cup {c})
        /\ Cardinality(Extensions(c) \cup {c}) = Cardinality(Extensions(c)) + 1
    BY <2>3, <2>4, FS_AddElement
  <2>6. IsFiniteSet(Paid(c)) /\ IsFiniteSet(Owing(c))
    BY <2>3, <2>5, FS_Subset
  <2>7. Cardinality(Paid(c)) + Cardinality(Owing(c)) = Cardinality(Extensions(c)) + 1
    <3>1. Cardinality(Paid(c) \cup Owing(c)) = Cardinality(Paid(c)) + Cardinality(Owing(c))
      <4>1. Cardinality(Paid(c) \cap Owing(c)) = 0
        BY <2>3, FS_EmptySet
      <4>2. Cardinality(Paid(c)) \in Nat /\ Cardinality(Owing(c)) \in Nat
        BY <2>6, FS_CardinalityType
      <4>3. Cardinality(Paid(c) \cup Owing(c))
              = Cardinality(Paid(c)) + Cardinality(Owing(c)) - Cardinality(Paid(c) \cap Owing(c))
        BY ONLY <2>6, FS_Union
      <4> QED
        BY ONLY <4>1, <4>2, <4>3
    <3> QED
      BY <2>3, <2>5, <3>1
  <2>8. \A n \in Nat : Minutes * (n + 1) = Minutes * n + Minutes /\ Minutes * n \in Nat
    BY BrokerAssumption
  <2>9. expires[c] <= label[c] + Minutes * Cardinality(Extensions(c))
    BY <2>1 DEF DeadlineInv
  <2>10. expires[c] \in Nat /\ label[c] \in Nat /\ Minutes \in Nat
    BY <2>1, BrokerAssumption DEF TypeOK
  <2> QED
    BY <2>4, <2>7, <2>8, <2>9, <2>10
<1> QED
  BY <1>1, BrokerInvariant, PTL
=============================================================================
