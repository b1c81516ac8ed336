------------------------------ MODULE VMProofs ------------------------------
(***************************************************************************)
(* Proofs about VMLifecycle, for any regions, runs, numbers of attempts    *)
(* and faults, and each of the five vendors.                               *)
(***************************************************************************)
EXTENDS VMLifecycle, TLAPS

-----------------------------------------------------------------------------
(* What does not change: the vendor and the configurations *)

Fixed == \E p \in Plans : vendor = p.vendor /\ setup = p.setup

LEMMA FixedFacts ==
  ASSUME Fixed
  PROVE  /\ vendor \in Vendors
         /\ DOMAIN setup \subseteq Attempts
         /\ \A a \in DOMAIN setup : setup[a] \in SetupRecords
<1>1. PICK p \in Plans : vendor = p.vendor /\ setup = p.setup
  BY DEF Fixed
<1>2. vendor \in Vendors /\ \E n \in Attempts : setup \in [1..n -> SetupRecords]
  BY <1>1, VMAssumption
<1>3. PICK n \in Attempts : setup \in [1..n -> SetupRecords]
  BY <1>2
<1>4. 1..n \subseteq Attempts
  BY VMAssumption DEF Attempts
<1> QED
  BY <1>2, <1>3, <1>4

\* Vendors differ in where a machine runs and who knows that.
LEMMA ClientFacts ==
  ASSUME vendor \in Vendors
  PROVE  /\ Client(vendor).creates \in {"selected", "configured", "endpoint"}
         /\ Client(vendor).creates = "endpoint" <=> Client(vendor).asks = "endpoint"
         /\ Client(vendor).reports = "actual" => Client(vendor).asks # "endpoint"
<1>1. CASE vendor = "alibaba-cloud"
  BY <1>1 DEF Client, AlibabaClient
<1>2. CASE vendor = "huawei-cloud"
  BY <1>2 DEF Client, HuaweiClient
<1>3. CASE vendor = "tencent-cloud"
  BY <1>3 DEF Client, TencentClient
<1>4. CASE vendor = "tianyi-cloud"
  BY <1>4 DEF Client, TianyiClient
<1>5. CASE vendor = "baidu-ai-cloud"
  BY <1>5 DEF Client, BaiduClient
<1> QED
  BY <1>1, <1>2, <1>3, <1>4, <1>5 DEF Vendors

LEMMA RegionFacts ==
  ASSUME Fixed, NEW a \in DOMAIN setup
  PROVE  /\ setup[a].home \in Regions /\ setup[a].selected \in Regions
         /\ RunsIn(a) \in Regions \cup {Endpoint}
         /\ ReportedRegion(a) \in Regions \cup {Endpoint}
         /\ FinalRegion(a) \in Regions \cup {Endpoint}
<1>1. setup[a].home \in Regions /\ setup[a].selected \in Regions
  BY FixedFacts DEF SetupRecords
<1>2. RunsIn(a) \in Regions \cup {Endpoint}
  BY <1>1, FixedFacts, ClientFacts DEF RunsIn
<1>3. ReportedRegion(a) \in Regions \cup {Endpoint}
  BY <1>1, <1>2 DEF ReportedRegion
<1> QED
  BY <1>1, <1>2, <1>3 DEF FinalRegion

\* An adapter finds the machine through the region it reports, and through the
\* configured one unless routing has selected another.
LEMMA SeesFacts ==
  ASSUME Fixed, NEW a \in DOMAIN setup
  PROVE  /\ Sees(setup[a].home, a) => Sees(ReportedRegion(a), a)
         /\ setup[a].selected = setup[a].home => Sees(setup[a].selected, a)
<1>1. CASE Client(vendor).asks = "endpoint"
  BY <1>1, FixedFacts, ClientFacts DEF Sees, RunsIn
<1>2. CASE Client(vendor).asks # "endpoint"
  BY <1>2, FixedFacts, ClientFacts DEF Sees, RunsIn, ReportedRegion
<1> QED
  BY <1>1, <1>2

-----------------------------------------------------------------------------
(* Type correctness *)

PCs ==
  {"idle", "create", "created", "start", "boot", "notify", "ssh", "monitor",
   "settle", "store", "returned", "over", "crashed"}

Typed ==
  /\ cloud \in [Attempts -> CloudStates]
  /\ row \in [Attempts -> RowRecords]
  /\ ref \in [Attempts -> BOOLEAN]
  /\ pc \in [Attempts -> PCs]
  /\ outcome \in [Attempts -> {"none", "zero", "nonzero", "error"}]
  /\ final \in [Attempts -> RowRecords]
  /\ attempt \in [Attempts -> {"none", "running", "ended", "canceled"}]
  /\ run \in {"none", "running", "ended", "canceled"}
  /\ kept \subseteq Attempts
  /\ held \in [Attempts -> RowRecords]
  /\ asked \in BOOLEAN

\* Only attempts with a configuration begin.
Configured == \A a \in Attempts : pc[a] # "idle" => a \in DOMAIN setup

LEMMA TypeParts == TypeOK <=> Fixed /\ Typed
  BY DEF TypeOK, Fixed, Typed, PCs

LEMMA NoRowType == NoRow \in RowRecords
  BY DEF NoRow, RowRecords, RowStates

\* What requests do to the cloud.
LEMMA CloudType ==
  ASSUME Typed, NEW a \in Attempts, NEW region,
         TerminateVM(region, a) \/ TerminateRefused(region, a)
  PROVE  /\ cloud' \in [Attempts -> CloudStates]
         /\ cloud' \in {cloud, Deleted(a)}
<1>1. Deleted(a) \in [Attempts -> CloudStates]
  BY DEF Typed, Deleted, CloudStates
<1> QED
  BY <1>1 DEF Typed, TerminateVM, TerminateRefused

LEMMA TypeStep == Fixed /\ Typed /\ Configured /\ [Next]_vars => Fixed' /\ Typed' /\ Configured'
<1> SUFFICES ASSUME Fixed, Typed, Configured, [Next]_vars PROVE Fixed' /\ Typed' /\ Configured'
  OBVIOUS
<1> USE DEF submitVars, runVars, cleanupVars, fixedVars
<1> DEFINE OK == Fixed' /\ Typed' /\ Configured'
<1>0. UNCHANGED fixedVars => Fixed'
  BY DEF Fixed
<1>1. ASSUME NEW a \in Attempts, Begin(a) PROVE OK
  BY <1>1, <1>0 DEF Begin, Goto, Typed, PCs, Configured
<1>2. ASSUME NEW a \in Attempts, CreateVM(a) PROVE OK
  BY <1>2, <1>0 DEF CreateVM, Goto, Typed, PCs, Configured, CloudStates
<1>3. ASSUME NEW a \in Attempts, CreateVMFails(a) PROVE OK
  BY <1>3, <1>0 DEF CreateVMFails, Goto, Typed, PCs, Configured, CloudStates
<1>4. ASSUME NEW a \in Attempts, NotifyCreated(a) PROVE OK
  <2>1. [state |-> "booting", region |-> setup[a].selected] \in RowRecords
    BY <1>4, RegionFacts DEF NotifyCreated, Goto, Configured, RowRecords, RowStates, ActiveStates
  <2> QED
    BY <1>4, <2>1, <1>0 DEF NotifyCreated, Store, Goto, Typed, PCs, Configured
<1>5. ASSUME NEW a \in Attempts, OnStarted(a) PROVE OK
  BY <1>5, <1>0 DEF OnStarted, Goto, Typed, PCs, Configured
<1>6. ASSUME NEW a \in Attempts, StartNotRecorded(a) PROVE OK
  <2>1. cloud' \in [Attempts -> CloudStates]
    BY <1>6, CloudType DEF StartNotRecorded
  <2>2. kept' \subseteq Attempts
    BY <1>6 DEF StartNotRecorded, Kept, Typed
  <2> QED
    BY <1>6, <2>1, <2>2, <1>0 DEF StartNotRecorded, Goto, Typed, PCs, Configured
<1>7. ASSUME NEW a \in Attempts, WaitForRunning(a) PROVE OK
  BY <1>7, <1>0 DEF WaitForRunning, Goto, Typed, PCs, Configured
<1>8. ASSUME NEW a \in Attempts, NotifyRunning(a) PROVE OK
  <2>1. [state |-> "running", region |-> ReportedRegion(a)] \in RowRecords
    BY <1>8, RegionFacts DEF NotifyRunning, Goto, Configured, RowRecords, RowStates, ActiveStates
  <2> QED
    BY <1>8, <2>1, <1>0 DEF NotifyRunning, Store, Goto, Typed, PCs, Configured
<1>9. ASSUME NEW a \in Attempts, RunningNotRecorded(a) PROVE OK
  BY <1>9, <1>0 DEF RunningNotRecorded, Goto, Typed, PCs, Configured
<1>10. ASSUME NEW a \in Attempts, WaitForReady(a) PROVE OK
  BY <1>10, <1>0 DEF WaitForReady, Goto, Typed, PCs, Configured
<1>11. ASSUME NEW a \in Attempts, NEW from \in PCs \ {"idle"},
              NEW how \in {"zero", "nonzero", "error"}, Ends(a, from, how) PROVE OK
  BY <1>11, <1>0 DEF Ends, Goto, Typed, PCs, Configured
<1>12. ASSUME NEW a \in Attempts, JobExits(a) \/ JobFails(a) \/ StatusRefused(a) PROVE OK
  <2>1. {"boot", "ssh", "monitor"} \subseteq PCs \ {"idle"}
    BY DEF PCs
  <2> QED
    BY <1>11, <1>12, <2>1 DEF JobExits, JobFails, StatusRefused
<1>13. ASSUME NEW a \in Attempts, Settle(a) PROVE OK
  <2>1. cloud' \in [Attempts -> CloudStates]
    BY <1>13, CloudType DEF Settle, Typed
  <2>2. kept' \subseteq Attempts
    BY <1>13 DEF Settle, Kept, Typed
  <2>3. PICK state \in {"terminating", "succeeded", "failed"} : Settled(a, state)
    BY <1>13 DEF Settle, JobState
  <2>4. [state |-> state, region |-> FinalRegion(a)] \in RowRecords
    BY <1>13, RegionFacts DEF Settle, Goto, Configured, RowRecords, RowStates
  <2> QED
    BY <1>13, <2>1, <2>2, <2>3, <2>4, <1>0 DEF Settle, Settled, Goto, Typed, PCs, Configured
<1>14. ASSUME NEW a \in Attempts, NotifyFinal(a) PROVE OK
  BY <1>14, <1>0, NoRowType DEF NotifyFinal, Goto, Typed, PCs, Configured
<1>15. ASSUME NEW a \in Attempts, AttemptOver(a) PROVE OK
  BY <1>15, <1>0 DEF AttemptOver, Goto, Typed, PCs, Configured
<1>16. ASSUME NEW a \in Attempts, Crash(a) PROVE OK
  BY <1>16, <1>0, NoRowType DEF Crash, Typed, PCs, Configured
<1>17. ASSUME NEW a \in Attempts, CloudStep(a) \/ CloudFault(a) PROVE OK
  BY <1>17, <1>0 DEF CloudStep, CloudFault, Typed, PCs, Configured, CloudStates
<1>18. ASSUME NEW a \in Attempts, NEW b \in Attempts, Cancel(a, b) PROVE OK
  <2>1. cloud' \in [Attempts -> CloudStates]
    BY <1>18, CloudType DEF Cancel
  <2>2. attempt' \in [Attempts -> {"none", "running", "ended", "canceled"}]
    BY <1>18 DEF Cancel, Typed
  <2> QED
    BY <1>18, <2>1, <2>2, <1>0 DEF Cancel, Typed, PCs, Configured
<1>19. ASSUME CleanupReads PROVE OK
  <2>1. held' \in [Attempts -> RowRecords]
    BY <1>19, NoRowType DEF CleanupReads, Typed
  <2> QED
    BY <1>19, <2>1, <1>0 DEF CleanupReads, Typed, PCs, Configured
<1>20. ASSUME NEW a \in Attempts, CleanupAsks(a) PROVE OK
  <2>1. cloud' \in [Attempts -> CloudStates]
    BY <1>20, CloudType DEF CleanupAsks
  <2> QED
    BY <1>20, <2>1, <1>0 DEF CleanupAsks, Typed, PCs, Configured
<1>21. ASSUME NEW a \in Attempts, CleanupStops(a) PROVE OK
  <2>1. cloud' \in [Attempts -> CloudStates]
    BY <1>21, CloudType DEF CleanupStops, Typed
  <2> QED
    BY <1>21, <2>1, <1>0, NoRowType DEF CleanupStops, Typed, PCs, Configured
<1>22. ASSUME NEW a \in Attempts, CleanupStores(a) PROVE OK
  <2>1. [state |-> "terminating", region |-> held[a].region] \in RowRecords
    BY DEF Typed, RowRecords, RowStates
  <2> QED
    BY <1>22, <2>1, <1>0, NoRowType DEF CleanupStores, Store, Typed, PCs, Configured
<1>23. CASE UNCHANGED vars
  BY <1>23, <1>0 DEF vars, Typed, Configured
<1> QED
  BY <1>1, <1>2, <1>3, <1>4, <1>5, <1>6, <1>7, <1>8, <1>9, <1>10, <1>12, <1>13,
     <1>14, <1>15, <1>16, <1>17, <1>18, <1>19, <1>20, <1>21, <1>22, <1>23
  DEF Next, SubmitStep, OperatorStep

LEMMA TypeInit == Init => Fixed /\ Typed /\ Configured
<1>1. Init => Fixed
  BY DEF Init, Fixed
<1>2. ASSUME Init PROVE Typed
  <2>1. cloud \in [Attempts -> CloudStates] /\ pc \in [Attempts -> PCs]
    BY <1>2 DEF Init, PCs, CloudStates
  <2>2. row \in [Attempts -> RowRecords] /\ final \in [Attempts -> RowRecords]
        /\ held \in [Attempts -> RowRecords]
    BY <1>2, NoRowType DEF Init
  <2> QED
    BY <1>2, <2>1, <2>2 DEF Init, Typed
<1>3. Init => Configured
  BY DEF Init, Configured
<1> QED
  BY <1>1, <1>2, <1>3

-----------------------------------------------------------------------------
(* Who writes what: each variable changes in a few actions only *)

LEMMA RowWriters ==
  ASSUME Typed, [Next]_vars, NEW a \in Attempts
  PROVE  row'[a] = row[a] \/ NotifyCreated(a) \/ NotifyRunning(a)
           \/ (NotifyFinal(a) /\ row'[a] = final[a]) \/ CleanupStores(a)
<1> USE DEF submitVars, runVars, cleanupVars, fixedVars, Typed, Store
<1>1. ASSUME NEW b \in Attempts, SubmitStep(b)
      PROVE  row' = row \/ NotifyCreated(b) \/ NotifyRunning(b) \/ NotifyFinal(b)
  BY <1>1 DEF SubmitStep, CreateVM, CreateVMFails, OnStarted, StartNotRecorded, WaitForRunning,
     RunningNotRecorded, WaitForReady, JobExits, JobFails, Ends, Settle, AttemptOver
<1>2. ASSUME NEW b \in Attempts, NotifyCreated(b) \/ NotifyRunning(b) \/ NotifyFinal(b)
      PROVE  row'[a] = row[a] \/ NotifyCreated(a) \/ NotifyRunning(a)
               \/ (NotifyFinal(a) /\ row'[a] = final[a])
  BY <1>2 DEF NotifyCreated, NotifyRunning, NotifyFinal
<1>3. ASSUME OperatorStep PROVE row'[a] = row[a] \/ CleanupStores(a)
  BY <1>3 DEF OperatorStep, Cancel, CleanupReads, CleanupAsks, CleanupStops, CleanupStores
<1>4. ASSUME NEW b \in Attempts,
             Begin(b) \/ StatusRefused(b) \/ Crash(b) \/ CloudStep(b) \/ CloudFault(b)
      PROVE  row' = row
  BY <1>4 DEF Begin, StatusRefused, Ends, Crash, CloudStep, CloudFault
<1> QED
  BY <1>1, <1>2, <1>3, <1>4 DEF Next, vars

\* A machine appears in the answer to a request to create it, and goes one way.
LEMMA GoneStays ==
  ASSUME Typed, [Next]_vars, NEW a \in Attempts, ~Exists(a)
  PROVE  ~Exists(a)' \/ CreateVM(a) \/ CreateVMFails(a)
<1> USE DEF submitVars, runVars, cleanupVars, fixedVars, Exists
<1>1. ASSUME NEW b \in Attempts, NEW region,
             TerminateVM(region, b) \/ TerminateRefused(region, b)
      PROVE  ~Exists(a)'
  BY <1>1, CloudType DEF Typed, Deleted
<1>2. ASSUME NEW b \in Attempts, SubmitStep(b)
      PROVE  ~Exists(a)' \/ CreateVM(b) \/ CreateVMFails(b)
  BY <1>1, <1>2 DEF SubmitStep, NotifyCreated, OnStarted, StartNotRecorded, WaitForRunning,
     NotifyRunning, RunningNotRecorded, WaitForReady, JobExits, JobFails, Ends, Settle,
     NotifyFinal, AttemptOver
<1>3. ASSUME NEW b \in Attempts, CreateVM(b) \/ CreateVMFails(b)
      PROVE  ~Exists(a)' \/ CreateVM(a) \/ CreateVMFails(a)
  BY <1>3 DEF CreateVM, CreateVMFails, Typed
<1>4. ASSUME OperatorStep PROVE ~Exists(a)'
  BY <1>1, <1>4 DEF OperatorStep, Cancel, CleanupReads, CleanupAsks, CleanupStops, CleanupStores
<1>5. ASSUME NEW b \in Attempts,
             Begin(b) \/ StatusRefused(b) \/ Crash(b) \/ CloudStep(b) \/ CloudFault(b)
      PROVE  ~Exists(a)'
  BY <1>5 DEF Begin, StatusRefused, Ends, Crash, CloudStep, CloudFault, Typed
<1> QED
  BY <1>2, <1>3, <1>4, <1>5 DEF Next, vars

\* Submit moves forward only, and only Submit moves.
LEMMA PcMoves ==
  ASSUME Typed, [Next]_vars, NEW a \in Attempts
  PROVE  pc'[a] = pc[a]
           \/ Begin(a) \/ CreateVM(a) \/ NotifyCreated(a) \/ OnStarted(a) \/ WaitForRunning(a)
           \/ (Settle(a) /\ pc'[a] = "store")
           \/ (pc[a] # "idle" /\ pc'[a] \in {"returned", "ssh", "monitor", "settle", "over", "crashed"}
                 /\ (pc[a] = "store" => NotifyFinal(a) \/ Crash(a)))
<1> USE DEF submitVars, runVars, cleanupVars, fixedVars, Goto, Typed
<1>1. ASSUME NEW b \in Attempts, b # a, SubmitStep(b) PROVE pc'[a] = pc[a]
  BY <1>1 DEF SubmitStep, CreateVM, CreateVMFails, NotifyCreated, OnStarted, StartNotRecorded,
     WaitForRunning, NotifyRunning, RunningNotRecorded, WaitForReady, JobExits, JobFails, Ends,
     Settle, NotifyFinal, AttemptOver
<1>2. ASSUME SubmitStep(a)
      PROVE  \/ CreateVM(a) \/ NotifyCreated(a) \/ OnStarted(a) \/ WaitForRunning(a)
             \/ (Settle(a) /\ pc'[a] = "store")
             \/ (pc[a] # "idle" /\ pc'[a] \in {"returned", "ssh", "monitor", "settle", "over"}
                 /\ (pc[a] = "store" => NotifyFinal(a)))
  BY <1>2 DEF SubmitStep, CreateVMFails, StartNotRecorded, NotifyRunning,
     RunningNotRecorded, WaitForReady, JobExits, JobFails, Ends, Settle, NotifyFinal, AttemptOver
<1>3. ASSUME OperatorStep PROVE pc' = pc
  BY <1>3 DEF OperatorStep, Cancel, CleanupReads, CleanupAsks, CleanupStops, CleanupStores
<1>4. ASSUME NEW b \in Attempts, Begin(b) \/ StatusRefused(b) \/ Crash(b) \/ CloudStep(b) \/ CloudFault(b)
      PROVE  pc'[a] = pc[a] \/ Begin(a)
             \/ (Crash(a) /\ pc[a] # "idle" /\ pc'[a] = "crashed")
             \/ (pc[a] \in {"boot", "monitor"} /\ pc'[a] = "settle")
  BY <1>4 DEF Begin, StatusRefused, Ends, Crash, CloudStep, CloudFault
<1> QED
  BY <1>1, <1>2, <1>3, <1>4 DEF Next, vars

LEMMA TerminateDeletes ==
  ASSUME Typed, NEW a \in Attempts, NEW region, TerminateVM(region, a)
  PROVE  ~Exists(a)'
BY DEF Typed, TerminateVM, Deleted, Exists

LEMMA RowsInHand ==
  ASSUME Typed, [Next]_vars, NEW a \in Attempts
  PROVE  /\ held'[a] \in {held[a], NoRow} \/ (CleanupReads /\ held'[a] \in {row[a], NoRow})
         /\ final'[a] = final[a] \/ (final'[a] = NoRow /\ pc'[a] # "store") \/ Settle(a)
         /\ ref'[a] = ref[a] \/ OnStarted(a)
         /\ attempt'[a] \in {attempt[a], "running", "ended"} \/ (ref[a] /\ ~Exists(a)')
<1> USE DEF submitVars, runVars, cleanupVars, fixedVars, Typed
<1> DEFINE OK ==
      /\ held'[a] \in {held[a], NoRow} \/ (CleanupReads /\ held'[a] \in {row[a], NoRow})
      /\ final'[a] = final[a] \/ (final'[a] = NoRow /\ pc'[a] # "store") \/ Settle(a)
      /\ ref'[a] = ref[a] \/ OnStarted(a)
      /\ attempt'[a] \in {attempt[a], "running", "ended"} \/ (ref[a] /\ ~Exists(a)')
<1>1. ASSUME NEW b \in Attempts, SubmitStep(b) PROVE OK
  <2>1. held' = held
    BY <1>1 DEF SubmitStep, CreateVM, CreateVMFails, NotifyCreated, OnStarted, StartNotRecorded,
       WaitForRunning, NotifyRunning, RunningNotRecorded, WaitForReady, JobExits, JobFails, Ends,
       Settle, NotifyFinal, AttemptOver
  <2>2. final'[a] = final[a] \/ (final'[a] = NoRow /\ pc'[a] # "store") \/ Settle(a)
    BY <1>1 DEF SubmitStep, CreateVM, CreateVMFails, NotifyCreated, OnStarted, StartNotRecorded,
       WaitForRunning, NotifyRunning, RunningNotRecorded, WaitForReady, JobExits, JobFails, Ends,
       Settle, Settled, NotifyFinal, AttemptOver, Goto
  <2>3. ref'[a] = ref[a] \/ OnStarted(a)
    BY <1>1 DEF SubmitStep, CreateVM, CreateVMFails, NotifyCreated, OnStarted, StartNotRecorded,
       WaitForRunning, NotifyRunning, RunningNotRecorded, WaitForReady, JobExits, JobFails, Ends,
       Settle, NotifyFinal, AttemptOver
  <2>4. attempt'[a] \in {attempt[a], "running", "ended"}
    BY <1>1 DEF SubmitStep, CreateVM, CreateVMFails, NotifyCreated, OnStarted, StartNotRecorded,
       WaitForRunning, NotifyRunning, RunningNotRecorded, WaitForReady, JobExits, JobFails, Ends,
       Settle, NotifyFinal, AttemptOver
  <2> QED
    BY <2>1, <2>2, <2>3, <2>4
<1>2. ASSUME OperatorStep PROVE OK
  <2>1. ASSUME NEW b \in Attempts, NEW c \in Attempts, Cancel(b, c) PROVE OK
    BY <1>2, <2>1, TerminateDeletes DEF Cancel
  <2> QED
    BY <1>2, <2>1 DEF OperatorStep, CleanupReads, CleanupAsks, CleanupStops, CleanupStores
<1>3. ASSUME NEW b \in Attempts,
             Begin(b) \/ StatusRefused(b) \/ Crash(b) \/ CloudStep(b) \/ CloudFault(b)
      PROVE  OK
  BY <1>3 DEF Begin, StatusRefused, Ends, Crash, CloudStep, CloudFault, Goto
<1> QED
  BY <1>1, <1>2, <1>3 DEF Next, vars

-----------------------------------------------------------------------------
(* Nothing is known of a machine before it is created *)

Early ==
  \A a \in Attempts :
    /\ pc[a] \in {"idle", "create"} => ~Exists(a)
    /\ pc[a] \in {"idle", "create", "created"} =>
         /\ row[a] = NoRow /\ final[a] = NoRow /\ held[a] = NoRow
         /\ ~ref[a] /\ attempt[a] # "canceled"

LEMMA EarlyStep == Typed /\ Early /\ [Next]_vars => Early'
<1> SUFFICES ASSUME Typed, Early, [Next]_vars, NEW a \in Attempts
             PROVE  /\ pc'[a] \in {"idle", "create"} => ~Exists(a)'
                    /\ pc'[a] \in {"idle", "create", "created"} =>
                         /\ row'[a] = NoRow /\ final'[a] = NoRow /\ held'[a] = NoRow
                         /\ ~ref'[a] /\ attempt'[a] # "canceled"
  BY DEF Early, Exists
<1>1. pc'[a] \in {"idle", "create", "created"} =>
        /\ pc[a] \in {"idle", "create", "created"}
        /\ pc'[a] # "created" => pc[a] # "created"
        /\ pc'[a] \in {"idle", "create"} => ~CreateVM(a) /\ ~CreateVMFails(a)
  BY PcMoves DEF Typed, Begin, CreateVM, CreateVMFails, NotifyCreated, OnStarted, WaitForRunning,
     Settle, Goto
<1>2. pc'[a] \in {"idle", "create"} => ~Exists(a)'
  BY <1>1, GoneStays DEF Early
<1>3. ASSUME pc'[a] \in {"idle", "create", "created"}
      PROVE  row'[a] = NoRow
  BY <1>1, <1>3, RowWriters DEF Early, Typed, NotifyCreated, NotifyRunning, NotifyFinal,
     CleanupStores, IsNext, Goto
<1>4. ASSUME pc'[a] \in {"idle", "create", "created"}
      PROVE  final'[a] = NoRow /\ held'[a] = NoRow /\ ~ref'[a] /\ attempt'[a] # "canceled"
  BY <1>1, <1>4, RowsInHand DEF Early, Settle, OnStarted, Goto
<1> QED
  BY <1>2, <1>3, <1>4

-----------------------------------------------------------------------------
(* What a row calls terminating, and what a command is about to call so *)

Going ==
  /\ asked => ~Idle
  /\ \A a \in Attempts :
       row[a].state = "terminating" \/ final[a].state = "terminating"
       \/ attempt[a] = "canceled" \/ (asked /\ IsNext(a)) => ~Exists(a)

\* Between the request and the row, cleanup holds the same rows.
LEMMA AskedWriters ==
  ASSUME Typed, Going, [Next]_vars, asked'
  PROVE  (asked /\ held' = held) \/ \E b \in Attempts : CleanupAsks(b)
<1> USE DEF submitVars, runVars, cleanupVars, fixedVars
<1>1. ASSUME NEW b \in Attempts, SubmitStep(b) PROVE UNCHANGED cleanupVars
  BY <1>1 DEF SubmitStep, CreateVM, CreateVMFails, NotifyCreated, OnStarted, StartNotRecorded,
     WaitForRunning, NotifyRunning, RunningNotRecorded, WaitForReady, JobExits, JobFails, Ends,
     Settle, NotifyFinal, AttemptOver
<1>2. ASSUME OperatorStep PROVE UNCHANGED cleanupVars \/ \E b \in Attempts : CleanupAsks(b)
  BY <1>2 DEF OperatorStep, Going, Cancel, CleanupReads, CleanupStops, CleanupStores
<1>3. ASSUME NEW b \in Attempts,
             Begin(b) \/ StatusRefused(b) \/ Crash(b) \/ CloudStep(b) \/ CloudFault(b)
      PROVE  UNCHANGED cleanupVars
  BY <1>3 DEF Begin, StatusRefused, Ends, Crash, CloudStep, CloudFault
<1> QED
  BY <1>1, <1>2, <1>3 DEF Next, vars

LEMMA GoingStep == Typed /\ Early /\ Going /\ [Next]_vars => Going'
<1> SUFFICES ASSUME Typed, Early, Going, [Next]_vars PROVE Going'
  OBVIOUS
<1>1. asked' => ~Idle'
  <2>1. ASSUME NEW b \in Attempts, CleanupAsks(b) PROVE ~Idle'
    BY <2>1 DEF CleanupAsks, IsNext, Idle
  <2>2. ASSUME asked, held' = held PROVE ~Idle'
    BY <2>2 DEF Going, Idle
  <2> QED
    BY <2>1, <2>2, AskedWriters
<1>2. ASSUME NEW a \in Attempts, ~Exists(a), pc[a] # "create" PROVE ~Exists(a)'
  BY <1>2, GoneStays DEF CreateVM, CreateVMFails, Goto
<1>3. ASSUME NEW a \in Attempts, row'[a].state = "terminating" PROVE ~Exists(a)'
  <2>1. CASE row'[a] = row[a]
    BY <1>2, <1>3, <2>1 DEF Early, Going, NoRow
  <2>2. CASE NotifyCreated(a) \/ NotifyRunning(a)
    BY <1>3, <2>2 DEF NotifyCreated, NotifyRunning, Store, Typed
  <2>3. CASE NotifyFinal(a) /\ row'[a] = final[a]
    BY <1>2, <1>3, <2>3 DEF NotifyFinal, Goto, Going
  <2>4. CASE CleanupStores(a)
    BY <1>2, <2>4 DEF CleanupStores, IsNext, Early, Going
  <2> QED
    BY <2>1, <2>2, <2>3, <2>4, RowWriters
<1>4. ASSUME NEW a \in Attempts, final'[a].state = "terminating" PROVE ~Exists(a)'
  <2>1. CASE final'[a] = final[a]
    BY <1>2, <1>4, <2>1 DEF Early, Going, NoRow
  <2>2. CASE Settle(a)
    <3>1. ASSUME NEW state, Settled(a, state) PROVE state = "terminating"
      BY <1>4, <3>1 DEF Settled, Typed
    <3> QED
      BY <2>2, <3>1, TerminateDeletes DEF Settle, JobState
  <2> QED
    BY <1>4, <2>1, <2>2, RowsInHand DEF NoRow
<1>5. ASSUME NEW a \in Attempts, attempt'[a] = "canceled" PROVE ~Exists(a)'
  BY <1>2, <1>5, RowsInHand DEF Early, Going
<1>6. ASSUME NEW a \in Attempts, asked', IsNext(a)' PROVE ~Exists(a)'
  <2>1. CASE asked /\ held' = held
    BY <1>2, <1>6, <2>1 DEF Early, Going, IsNext
  <2>2. ASSUME NEW b \in Attempts, CleanupAsks(b) PROVE ~Exists(a)'
    <3>1. IsNext(a) /\ IsNext(b)
      BY <1>6, <2>2 DEF CleanupAsks, IsNext
    <3>2. a \in Nat /\ b \in Nat
      BY VMAssumption DEF Attempts
    <3>3. a = b
      BY <3>1, <3>2, VMAssumption DEF IsNext, Attempts
    <3> QED
      BY <2>2, <3>3, TerminateDeletes DEF CleanupAsks
  <2> QED
    BY <1>6, <2>1, <2>2, AskedWriters
<1> QED
  BY <1>1, <1>3, <1>4, <1>5, <1>6 DEF Going

-----------------------------------------------------------------------------
(* Where the adapters look *)

\* Submit reports a machine as running that it has found in the configured
\* region; it never stores an active row at the end.
Leads ==
  /\ RowLeadsToVM
  /\ \A a \in Attempts :
       /\ pc[a] = "notify" => Sees(setup[a].home, a)
       /\ final[a].state \notin ActiveStates

LEMMA LeadsStep ==
  Fixed /\ Typed /\ Configured /\ Leads /\ [Next]_vars /\ UNCHANGED fixedVars => Leads'
<1> SUFFICES ASSUME Fixed, Typed, Configured, Leads, [Next]_vars, UNCHANGED fixedVars
             PROVE  Leads'
  OBVIOUS
<1> USE DEF fixedVars
<1>1. ASSUME NEW a \in Attempts, NEW region PROVE Sees(region, a)' <=> Sees(region, a)
  BY DEF Sees, RunsIn
<1>2. ASSUME NEW a \in Attempts, row'[a].state \in ActiveStates
      PROVE  \/ Sees(row'[a].region, a)
             \/ row'[a].state = "booting" /\ setup[a].selected # setup[a].home
  <2>1. CASE row'[a] = row[a]
    BY <1>2, <2>1 DEF Leads, RowLeadsToVM
  <2>2. CASE NotifyCreated(a)
    BY <2>2, SeesFacts DEF NotifyCreated, Store, Typed, Goto, Configured
  <2>3. CASE NotifyRunning(a)
    BY <2>3, SeesFacts DEF NotifyRunning, Store, Typed, Goto, Configured, Leads
  <2>4. CASE NotifyFinal(a) /\ row'[a] = final[a]
    BY <1>2, <2>4 DEF Leads
  <2>5. CASE CleanupStores(a)
    BY <1>2, <2>5 DEF CleanupStores, Store, Typed, ActiveStates
  <2> QED
    BY <2>1, <2>2, <2>3, <2>4, <2>5, RowWriters
<1>3. ASSUME NEW a \in Attempts, pc'[a] = "notify" PROVE Sees(setup[a].home, a)
  <2>1. pc'[a] = pc[a] \/ WaitForRunning(a)
    BY <1>3, PcMoves DEF Begin, CreateVM, NotifyCreated, OnStarted, Goto, Typed
  <2> QED
    BY <1>3, <2>1 DEF Leads, WaitForRunning, GetVM
<1>4. ASSUME NEW a \in Attempts PROVE final'[a].state \notin ActiveStates
  <2>1. CASE Settle(a)
    <3>1. PICK state \in {"terminating", "succeeded", "failed"} : Settled(a, state)
      BY <2>1 DEF Settle, JobState
    <3> QED
      BY <3>1 DEF Settled, Typed, ActiveStates
  <2> QED
    BY <2>1, RowsInHand DEF Leads, NoRow, ActiveStates
<1> QED
  BY <1>1, <1>2, <1>3, <1>4 DEF Leads, RowLeadsToVM

LEMMA FixedStays == [Next]_vars => UNCHANGED fixedVars
<1> SUFFICES ASSUME [Next]_vars PROVE UNCHANGED fixedVars
  OBVIOUS
<1>1. ASSUME NEW b \in Attempts, SubmitStep(b) PROVE UNCHANGED fixedVars
  BY <1>1 DEF SubmitStep, CreateVM, CreateVMFails, NotifyCreated, OnStarted, StartNotRecorded,
     WaitForRunning, NotifyRunning, RunningNotRecorded, WaitForReady, JobExits, JobFails, Ends,
     Settle, NotifyFinal, AttemptOver
<1>2. ASSUME OperatorStep PROVE UNCHANGED fixedVars
  BY <1>2 DEF OperatorStep, Cancel, CleanupReads, CleanupAsks, CleanupStops, CleanupStores
<1>3. ASSUME NEW b \in Attempts,
             Begin(b) \/ StatusRefused(b) \/ Crash(b) \/ CloudStep(b) \/ CloudFault(b)
      PROVE  UNCHANGED fixedVars
  BY <1>3 DEF Begin, StatusRefused, Ends, Crash, CloudStep, CloudFault
<1> QED
  BY <1>1, <1>2, <1>3 DEF Next, vars

-----------------------------------------------------------------------------
(* Machines that a finished row leaves behind *)

Books ==
  \A a \in Attempts :
    /\ row[a].state \in {"succeeded", "failed"} \/ final[a].state \in {"succeeded", "failed"} =>
         a \in kept
    /\ row[a].state = "none" => row[a] = NoRow
    /\ pc[a] = "store" => final[a].state # "none"

LEMMA BooksStep == Typed /\ Books /\ [Next]_vars => Books'
<1> SUFFICES ASSUME Typed, Books, [Next]_vars, NEW a \in Attempts
             PROVE  /\ row'[a].state \in {"succeeded", "failed"} \/ final'[a].state \in {"succeeded", "failed"} =>
                         a \in kept'
                    /\ row'[a].state = "none" => row'[a] = NoRow
                    /\ pc'[a] = "store" => final'[a].state # "none"
  BY DEF Books
<1>1. kept \subseteq kept'
  <2> USE DEF submitVars
  <2>1. ASSUME NEW b \in Attempts, SubmitStep(b) PROVE kept \subseteq kept'
    BY <2>1 DEF SubmitStep, CreateVM, CreateVMFails, NotifyCreated, OnStarted, StartNotRecorded,
       WaitForRunning, NotifyRunning, RunningNotRecorded, WaitForReady, JobExits, JobFails, Ends,
       Settle, Kept, NotifyFinal, AttemptOver
  <2>2. ASSUME OperatorStep PROVE kept' = kept
    BY <2>2 DEF OperatorStep, Cancel, CleanupReads, CleanupAsks, CleanupStops, CleanupStores
  <2>3. ASSUME NEW b \in Attempts,
               Begin(b) \/ StatusRefused(b) \/ Crash(b) \/ CloudStep(b) \/ CloudFault(b)
        PROVE  kept' = kept
    BY <2>3 DEF Begin, StatusRefused, Ends, Crash, CloudStep, CloudFault
  <2> QED
    BY <2>1, <2>2, <2>3 DEF Next, vars
<1>2. ASSUME Settle(a)
      PROVE  /\ final'[a].state \in {"terminating", "succeeded", "failed"}
             /\ final'[a].state \in {"succeeded", "failed"} => a \in kept'
  <2>1. PICK state : /\ Settled(a, state)
                     /\ state = "terminating" \/ (state \in {"succeeded", "failed"} /\ Kept(a))
    BY <1>2 DEF Settle, JobState
  <2>2. final'[a].state = state
    BY <2>1 DEF Settled, Typed
  <2> QED
    BY <2>1, <2>2 DEF Kept
<1>3. final'[a].state \in {"succeeded", "failed"} => a \in kept'
  BY <1>1, <1>2, RowsInHand DEF Books, NoRow
<1>4. /\ row'[a].state \in {"succeeded", "failed"} => a \in kept'
      /\ row'[a].state = "none" => row'[a] = NoRow
  <2>1. CASE row'[a] = row[a]
    BY <1>1, <2>1 DEF Books
  <2>2. CASE NotifyCreated(a) \/ NotifyRunning(a) \/ CleanupStores(a)
    BY <2>2 DEF NotifyCreated, NotifyRunning, CleanupStores, Store, Typed
  <2>3. CASE NotifyFinal(a) /\ row'[a] = final[a]
    BY <1>1, <2>3 DEF Books, NotifyFinal, Goto
  <2> QED
    BY <2>1, <2>2, <2>3, RowWriters
<1>5. pc'[a] = "store" => final'[a].state # "none"
  <2>1. CASE Settle(a)
    BY <1>2, <2>1
  <2>2. CASE ~Settle(a) /\ pc'[a] = "store"
    <3>1. pc'[a] = pc[a]
      BY <2>2, PcMoves DEF Begin, CreateVM, NotifyCreated, OnStarted, WaitForRunning, Goto, Typed
    <3>2. final'[a] = final[a]
      BY <2>2, <3>1, RowsInHand
    <3> QED
      BY <2>2, <3>1, <3>2 DEF Books
  <2> QED
    BY <2>1, <2>2
<1> QED
  BY <1>3, <1>4, <1>5

-----------------------------------------------------------------------------
(* The theorems *)

IInv == Fixed /\ Typed /\ Configured /\ Early /\ Going /\ Leads /\ Books

LEMMA Inductive == Spec => []IInv
<1>1. ASSUME Init PROVE Early /\ Going /\ Leads /\ Books
  BY <1>1 DEF Init, Early, Exists, Going, IsNext, Leads, RowLeadsToVM, Books, NoRow, ActiveStates
<1>2. IInv /\ [Next]_vars => IInv'
  BY TypeStep, EarlyStep, GoingStep, LeadsStep, FixedStays, BooksStep DEF IInv
<1>3. Init => IInv
  BY <1>1, TypeInit DEF IInv
<1> QED
  BY <1>2, <1>3, PTL DEF Spec

\* Every variable keeps its type (Submit, cancelRun, the cleanup command).
THEOREM TypeCorrect == Spec => []TypeOK
<1>1. IInv => TypeOK
  BY TypeParts DEF IInv
<1> QED
  BY <1>1, Inductive, PTL

\* Whoever writes that a machine is terminating or an attempt canceled has had
\* its request answered, and no later row or request makes that untrue (Submit,
\* cancelRun, the cleanup command).
THEOREM GoneRowsAreTrue == Spec => []GoneIsTrue
<1>1. IInv => GoneIsTrue
  BY DEF IInv, Going, GoneIsTrue
<1> QED
  BY <1>1, Inductive, PTL

\* Whatever the vendor does with regions, the region of an active row leads
\* cancel and cleanup to the machine, except while it boots in a region that
\* routing selected (notifyResource, cleanupAdapterForResource).
THEOREM RowsLeadToVMs == Spec => []RowLeadsToVM
<1>1. IInv => RowLeadsToVM
  BY DEF IInv, Leads
<1> QED
  BY <1>1, Inductive, PTL

\* A machine that Submit did not mean to keep stays visible to cleanup (Submit,
\* failureResult, resourceCleanupEligible).
THEOREM StrayVMsAreListed == Spec => []StrayVMIsListed
<1>1. ASSUME IInv, NEW a \in Attempts, Exists(a), row[a] # NoRow
      PROVE  row[a].state \in ActiveStates \/ a \in kept
  <2>1. row[a].state \in RowStates \ {"none", "terminating"}
    BY <1>1 DEF IInv, Typed, RowRecords, Books, Going
  <2> QED
    BY <1>1, <2>1 DEF IInv, Books, RowStates
<1>2. IInv => StrayVMIsListed
  BY <1>1 DEF StrayVMIsListed
<1> QED
  BY <1>2, Inductive, PTL

=============================================================================
