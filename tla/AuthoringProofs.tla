---------------------------- MODULE AuthoringProofs ----------------------------
(***************************************************************************)
(* What writing an automation promises, whatever the constants: the draft    *)
(* and its tests, the drafting jobs, one call of an agent's CLI and the reply   *)
(* and stream read from it, the rounds of a chat, the pulls of models and the    *)
(* provider's file.                                                         *)
(***************************************************************************)
EXTENDS MCAuthoring, FiniteSetTheorems, SequenceTheorems, TLAPS

-----------------------------------------------------------------------------
(***************************************************************************)
(* The draft.  A test with a record is of the draft that is there, or was    *)
(* live when that draft was settled: then it carries the mark that makes its *)
(* thread delete the record, and has been told to stop.                     *)
(***************************************************************************)
SettleFits ==
    /\ epoch \in Nat /\ version \in Nat \ {0} /\ record \subseteq Tests
    /\ lineage \in Seq(Nat) /\ Len(lineage) = version
    /\ DOMAIN test = Tests /\ DOMAIN born = Tests /\ DOMAIN ended = Tests
    /\ DOMAIN base = Editors

TestsFit ==
    \A t \in Tests :
        /\ test[t] = "none" => t \notin record
        /\ t \in record /\ test[t] = "over" => ended[t] # "none"

Settled(t) == t \in marked /\ t \in told /\ test[t] # "over"
OldTestsFit == \A t \in record : born[t] # epoch \/ removal = "gone" => Settled(t)

RemovalFits ==
    removal = "cancelled" => \A t \in LiveTests : t \in marked /\ t \in told

SummaryFits ==
    testYaml # None =>
        /\ testYaml \in Tests /\ test[testYaml] = "over"
        /\ born[testYaml] = epoch /\ removal # "gone"

DraftInv == /\ SettleFits /\ TestsFit /\ OldTestsFit /\ RemovalFits /\ SummaryFits
            /\ NoVersionIsOverlooked /\ DraftRunKeepsItsScripts

LEMMA DraftGives == DraftInv => DraftsSettle
BY DEF DraftInv, DraftsSettle, SettleFits, OldTestsFit, SummaryFits, SettledTestLeavesNothing,
       SettledTestIsToldToStop, LiveTests, Executing, Settled, None, Tests

LEMMA DraftStarts == SettleInit => DraftInv
BY DEF SettleInit, DraftInv, SettleFits, TestsFit, OldTestsFit, RemovalFits, SummaryFits,
       NoVersionIsOverlooked, DraftRunKeepsItsScripts, None, Tests, LiveTests, Executing

\* Steps that leave the tests alone, and the draft they are about.
LEMMA BookKeeps ==
  ASSUME DraftInv, UNCHANGED <<testVars, epoch>>, UNCHANGED <<version, lineage>>,
         DOMAIN base' = Editors, removal' \in {removal, "flagged"},
         removal' = removal \/ removal = "no",
         DraftRunKeepsItsScripts'
  PROVE  DraftInv'
<1>1. /\ UNCHANGED <<test, born, marked, told, ended, record, testYaml, epoch, version, lineage>>
      /\ LiveTests' = LiveTests
  BY DEF testVars, LiveTests, Executing
<1>2. (removal = "gone") = (removal' = "gone") /\ (removal = "cancelled") = (removal' = "cancelled")
  OBVIOUS
<1>3. SettleFits' /\ TestsFit' /\ NoVersionIsOverlooked'
  BY <1>1 DEF DraftInv, SettleFits, TestsFit, NoVersionIsOverlooked
<1>4. OldTestsFit' /\ SummaryFits'
  BY <1>1, <1>2 DEF DraftInv, OldTestsFit, SummaryFits, Settled
<1>5. RemovalFits'
  BY <1>1, <1>2 DEF DraftInv, RemovalFits
<1> QED
  BY <1>3, <1>4, <1>5 DEF DraftInv

\* The container goes: every test that is live is marked and told, every other
\* record is deleted.
LEMMA ContainerKeeps ==
  ASSUME DraftInv, ContainerGoes, UNCHANGED <<test, born, ended, removal>>
  PROVE  TestsFit' /\ OldTestsFit' /\ RemovalFits' /\ SummaryFits' /\ epoch' \in Nat
         /\ record' \subseteq Tests
<1>1. /\ testYaml' = None /\ epoch' \in Nat /\ record' = LiveTests
      /\ marked' = marked \cup LiveTests /\ told' = told \cup LiveTests
  BY DEF ContainerGoes, DraftInv, SettleFits
<1>2. \A t \in LiveTests : t \in Tests /\ t \in record /\ test[t] # "over" /\ ended[t] = "none"
  BY DEF LiveTests, Executing, DraftInv, TestsFit
<1>3. LiveTests' = LiveTests
  BY <1>1, <1>2 DEF LiveTests, Executing
<1> QED
  BY <1>1, <1>2, <1>3
  DEF DraftInv, TestsFit, OldTestsFit, RemovalFits, SummaryFits, Settled, None

LEMMA SettleEndsKeeps ==
  ASSUME DraftInv, NEW e \in Editors, SettleEnds(e)
  PROVE  DraftInv'
<1>1. TestsFit' /\ OldTestsFit' /\ RemovalFits' /\ SummaryFits' /\ epoch' \in Nat
      /\ record' \subseteq Tests
  BY ContainerKeeps DEF SettleEnds
<1>2. draftRun = None /\ draftRun' = None /\ UNCHANGED <<test, born, ended>>
  BY DEF SettleEnds, Acceptable, NoDraftRun
<1>3. CASE settle[e].kind = "save"
  <2>1. /\ base[e] = version /\ version' = version + 1 /\ lineage' = Append(lineage, version)
        /\ base' = [base EXCEPT ![e] = version + 1]
    BY <1>3 DEF SettleEnds, Acceptable, FreshBase
  <2>2. SettleFits'
    BY <1>1, <1>2, <2>1 DEF DraftInv, SettleFits
  <2>3. NoVersionIsOverlooked'
    BY <2>1 DEF DraftInv, SettleFits, NoVersionIsOverlooked
  <2> QED
    BY <1>1, <1>2, <2>2, <2>3 DEF DraftInv, DraftRunKeepsItsScripts
<1>4. CASE settle[e].kind # "save"
  <2>1. UNCHANGED <<version, lineage, base>>
    BY <1>4 DEF SettleEnds
  <2>2. SettleFits' /\ NoVersionIsOverlooked'
    BY <1>1, <1>2, <2>1 DEF DraftInv, SettleFits, NoVersionIsOverlooked
  <2> QED
    BY <1>1, <1>2, <2>2 DEF DraftInv, DraftRunKeepsItsScripts
<1> QED
  BY <1>3, <1>4

\* A settle or a removal marks the live tests, or cancels them.
LEMMA MarksKeep ==
  ASSUME DraftInv, marked \subseteq marked', told \subseteq told',
         UNCHANGED <<version, base, lineage, content, draftRun, epoch, test, born, ended, record,
                     testYaml>>,
         \/ removal' = removal
         \/ /\ removal = "flagged" /\ removal' = "cancelled"
            /\ LiveTests \subseteq marked' /\ LiveTests \subseteq told'
  PROVE  DraftInv'
<1>1. LiveTests' = LiveTests
  BY DEF LiveTests, Executing
<1>2. SettleFits' /\ TestsFit' /\ NoVersionIsOverlooked'
  BY DEF DraftInv, SettleFits, TestsFit, NoVersionIsOverlooked
<1>3. (removal = "gone") = (removal' = "gone")
  OBVIOUS
<1>4. OldTestsFit' /\ SummaryFits' /\ DraftRunKeepsItsScripts'
  BY <1>3 DEF DraftInv, OldTestsFit, SummaryFits, Settled, DraftRunKeepsItsScripts
<1>5. RemovalFits'
  BY <1>1 DEF DraftInv, RemovalFits
<1> QED
  BY <1>2, <1>4, <1>5 DEF DraftInv

LEMMA RemovalEndsKeeps ==
  ASSUME DraftInv, RemovalEnds
  PROVE  DraftInv'
<1>1. /\ testYaml' = None /\ record' = LiveTests /\ removal' = "gone" /\ removal = "cancelled"
      /\ UNCHANGED <<version, base, lineage, epoch, test, born, marked, told, ended>>
  BY DEF RemovalEnds
<1>2. \A t \in LiveTests : /\ t \in Tests /\ t \in record /\ test[t] # "over"
                           /\ ended[t] = "none" /\ t \in marked /\ t \in told
  BY <1>1 DEF LiveTests, Executing, DraftInv, TestsFit, RemovalFits
<1>3. SettleFits' /\ NoVersionIsOverlooked'
  BY <1>1, <1>2 DEF DraftInv, SettleFits, NoVersionIsOverlooked
<1>4. TestsFit' /\ OldTestsFit' /\ RemovalFits' /\ SummaryFits' /\ DraftRunKeepsItsScripts'
  BY <1>1, <1>2
  DEF DraftInv, TestsFit, OldTestsFit, RemovalFits, SummaryFits, Settled, DraftRunKeepsItsScripts
<1> QED
  BY <1>3, <1>4 DEF DraftInv

LEMMA TestStartsKeeps ==
  ASSUME DraftInv, NEW t \in Tests, TestStarts(t)
  PROVE  DraftInv'
<1>1. /\ test[t] = "none" /\ removal = "no" /\ removal' = "no" /\ record' = {t}
      /\ test' = [test EXCEPT ![t] = "thread"] /\ born' = [born EXCEPT ![t] = epoch]
      /\ UNCHANGED <<version, base, lineage, content, draftRun, epoch, marked, told, ended, testYaml>>
  BY DEF TestStarts, bookVars
<1>2. SettleFits' /\ NoVersionIsOverlooked' /\ DraftRunKeepsItsScripts' /\ RemovalFits'
  BY <1>1 DEF DraftInv, SettleFits, NoVersionIsOverlooked, DraftRunKeepsItsScripts, RemovalFits
<1>3. TestsFit' /\ OldTestsFit'
  BY <1>1 DEF DraftInv, SettleFits, TestsFit, OldTestsFit
<1>4. SummaryFits'
  BY <1>1 DEF DraftInv, SettleFits, SummaryFits, None
<1> QED
  BY <1>2, <1>3, <1>4 DEF DraftInv

\* The thread of a test: it may end, lose its record, and leave a summary if it
\* is of the draft that is there.
LEMMA TestKeeps ==
  ASSUME DraftInv, NEW t \in Tests, test[t] # "none",
         \A u \in Tests \ {t} : test'[u] = test[u] /\ ended'[u] = ended[u],
         test'[t] # "none", test'[t] = "over" => ended'[t] # "none",
         test[t] = "over" => test'[t] = "over",
         ended[t] # "none" => ended'[t] # "none",
         DOMAIN test' = Tests, DOMAIN ended' = Tests,
         record' \in {record, record \ {t}},
         test'[t] = "over" /\ t \in record' =>
             test[t] = "over" \/ (t \notin marked /\ removal # "gone"),
         testYaml' \in {None, testYaml, t},
         testYaml' = t /\ testYaml # t =>
             test'[t] = "over" /\ t \in record /\ t \notin marked /\ removal # "gone",
         UNCHANGED <<version, base, lineage, content, draftRun, epoch, born, marked, told, removal>>
  PROVE  DraftInv'
<1>1. SettleFits' /\ NoVersionIsOverlooked' /\ DraftRunKeepsItsScripts'
  BY DEF DraftInv, SettleFits, NoVersionIsOverlooked, DraftRunKeepsItsScripts
<1>2. TestsFit'
  BY DEF DraftInv, TestsFit
<1>3. OldTestsFit'
  BY DEF DraftInv, SettleFits, OldTestsFit, Settled
<1>4. LiveTests' \subseteq LiveTests
  BY DEF LiveTests, Executing
<1>5. RemovalFits'
  BY <1>4 DEF DraftInv, RemovalFits
<1>6. SummaryFits'
  BY DEF DraftInv, SummaryFits, OldTestsFit, Settled, None
<1> QED
  BY <1>1, <1>2, <1>3, <1>5, <1>6 DEF DraftInv

LEMMA TestStepKeeps ==
  ASSUME DraftInv, NEW t \in Tests,
         TestStopsEarly(t) \/ TestSetUp(t) \/ TestSetUpFails(t) \/ TestRuns(t) \/ TestLands(t)
  PROVE  DraftInv'
<1>0. DOMAIN test = Tests /\ DOMAIN ended = Tests
  BY DEF DraftInv, SettleFits
<1>1. CASE TestStopsEarly(t)
  <2>1. /\ test[t] \in {"thread", "files", "copying"}
        /\ ended' = [ended EXCEPT ![t] = "cancelled"] /\ test' = [test EXCEPT ![t] = "over"]
        /\ record' = IF Orphaned(t) THEN record \ {t} ELSE record
        /\ UNCHANGED <<version, base, lineage, content, draftRun, epoch, born, marked, told, removal,
                       testYaml>>
    BY <1>1 DEF TestStopsEarly, EndsBeforeRun, bookVars
  <2> QED
    BY <1>0, <2>1, TestKeeps DEF Orphaned
<1>2. CASE TestSetUp(t)
  <2>1. /\ test[t] \in {"thread", "files", "copying"}
        /\ \E to \in {"files", "copying", "running"} : test' = [test EXCEPT ![t] = to]
        /\ testYaml' \in {None, testYaml}
        /\ UNCHANGED <<version, base, lineage, content, draftRun, epoch, born, marked, told, removal,
                       ended, record>>
    BY <1>2 DEF TestSetUp, bookVars
  <2>2. t # None
    BY DEF Tests, None
  <2> QED
    BY <1>0, <2>1, <2>2, TestKeeps
<1>3. CASE TestSetUpFails(t)
  <2>1. /\ test[t] \in {"thread", "files", "copying"}
        /\ ended' = [ended EXCEPT ![t] = "failed"] /\ test' = [test EXCEPT ![t] = "over"]
        /\ record' = record \ {t}
        /\ UNCHANGED <<version, base, lineage, content, draftRun, epoch, born, marked, told, removal,
                       testYaml>>
    BY <1>3 DEF TestSetUpFails, bookVars
  <2> QED
    BY <1>0, <2>1, TestKeeps
<1>4. CASE TestRuns(t)
  <2>1. /\ test[t] = "running"
        /\ \E s \in {"succeeded", "failed", "cancelled"} : ended' = [ended EXCEPT ![t] = s]
        /\ UNCHANGED <<version, base, lineage, content, draftRun, epoch, born, marked, told, removal,
                       test, record, testYaml>>
    BY <1>4 DEF TestRuns, bookVars
  <2> QED
    BY <1>0, <2>1, TestKeeps
<1>5. CASE TestLands(t)
  <2>1. /\ test[t] = "running" /\ ended[t] # "none" /\ test' = [test EXCEPT ![t] = "over"]
        /\ record' = IF Orphaned(t) THEN record \ {t} ELSE record
        /\ testYaml' \in {testYaml, t} /\ (Orphaned(t) => testYaml' = testYaml)
        /\ UNCHANGED <<version, base, lineage, content, draftRun, epoch, born, marked, told, removal,
                       ended>>
    BY <1>5 DEF TestLands, bookVars
  <2> QED
    BY <1>0, <2>1, TestKeeps DEF Orphaned
<1> QED
  BY <1>1, <1>2, <1>3, <1>4, <1>5

LEMMA DraftKeeps == DraftInv /\ [SettleNext]_settleVars => DraftInv'
<1> SUFFICES ASSUME DraftInv, [SettleNext]_settleVars PROVE DraftInv' OBVIOUS
<1>0. DOMAIN base = Editors /\ DraftRunKeepsItsScripts
  BY DEF DraftInv, SettleFits
<1>1. ASSUME NEW e \in Editors,
             \/ Reopen(e) \/ PutDraft(e) \/ SettleRefused(e)
             \/ \E kind \in {"save", "discard"} : SettleBegins(e, kind)
      PROVE  DraftInv'
  <2>1. /\ UNCHANGED <<testVars, epoch, version, lineage, removal, draftRun>>
        /\ DOMAIN base' = Editors /\ (content' = content \/ draftRun = None)
    BY <1>0, <1>1 DEF Reopen, PutDraft, SettleRefused, SettleBegins, NoDraftRun
  <2> QED
    BY <1>0, <2>1, BookKeeps DEF DraftRunKeepsItsScripts
<1>2. ASSUME NEW e \in Editors, SettleMarks(e) \/ SettleCancels(e)
      PROVE  DraftInv'
  BY <1>2, MarksKeep DEF SettleMarks, SettleCancels
<1>3. CASE DraftRunStarts \/ DraftRunEnds
  <2>1. /\ UNCHANGED <<testVars, epoch, version, lineage, base, removal, content>>
        /\ draftRun' \in {content, None}
    BY <1>3 DEF DraftRunStarts, DraftRunEnds
  <2> QED
    BY <1>0, <2>1, BookKeeps DEF DraftRunKeepsItsScripts
<1>4. CASE RemovalBegins
  <2>1. /\ UNCHANGED <<testVars, epoch, version, lineage, base, content, draftRun>>
        /\ removal = "no" /\ removal' = "flagged"
    BY <1>4 DEF RemovalBegins, bookVars
  <2> QED
    BY <1>0, <2>1, BookKeeps DEF DraftRunKeepsItsScripts
<1>5. CASE RemovalCancels
  BY <1>5, MarksKeep DEF RemovalCancels, bookVars
<1>6. CASE UNCHANGED settleVars
  BY <1>0, <1>6, BookKeeps DEF settleVars, testVars, DraftRunKeepsItsScripts
<1> QED
  BY <1>1, <1>2, <1>3, <1>4, <1>5, <1>6, SettleEndsKeeps, RemovalEndsKeeps, TestStartsKeeps,
     TestStepKeeps DEF SettleNext

-----------------------------------------------------------------------------
(***************************************************************************)
(* The drafting jobs.  A building job that is of an older draft, or of an     *)
(* automation being removed, is before the scan of a settle or noted by one;  *)
(* a live program is named by its holder while its thread only reads; and     *)
(* none builds once the shutdown has begun.  What is said of the programs and *)
(* the threads is said while the backend runs.                              *)
(***************************************************************************)
InCall(j) == thread[j] \in {"calling", "spawned", "registered", "reading", "guarding"}
OneCalled == \A j, k \in Jobs : calls[j] > 0 /\ calls[k] > 0 => j = k

JobFits ==
    /\ generation \in Nat /\ known \subseteq Jobs
    /\ seen \in [Jobs -> Nat] /\ calls \in [Jobs -> Nat]
    /\ DOMAIN request = Jobs /\ DOMAIN thread = Jobs
    /\ snapshot \in [Jobs -> {"own", "changed"}]
    /\ status \in [Jobs -> {"none", "building", "cancelled"} \cup Held]
    /\ proc \in [Jobs -> {"none", "live", "killed"}]
    /\ script \in {"own", "changed"}

JobsFit ==
    \A j \in Jobs :
        /\ request[j] \in {"none", "read", "refused"} => status[j] = "none"
        /\ request[j] \in {"none", "read", "refused", "started"} => thread[j] = "none"
        /\ seen[j] <= generation
        /\ status[j] = "building" => j \in known
        /\ j \in known => status[j] # "none"
        /\ j \in grip <=> thread[j] \in {"registered", "reading"}
        /\ InCall(j) => calls[j] > 0

OneBuilds == \A j, k \in Building : j = k
NoneBuilds == backend # "runs" => Building = {}

ProcsFit == \A j \in Jobs : proc[j] # "none" => thread[j] \in {"spawned", "registered", "reading"}

StaleAreListed == \A j \in Building : seen[j] # generation \/ flagged => settling \/ j \in noted

ScriptFits ==
    OneCalled => /\ \A j \in Jobs : InCall(j) => snapshot[j] = "own"
                 /\ script # "own" => \E j \in Jobs : InCall(j)

JobLives == ProcsFit /\ StaleAreListed /\ ScriptFits /\ CancelReachesTheProgram

JobInv == JobFits /\ JobsFit /\ OneBuilds /\ NoneBuilds /\ (backend # "gone" => JobLives)

\* ... and so while the backend runs.
JobNow ==
    /\ JobFits /\ JobsFit /\ OneBuilds /\ NoneBuilds
    /\ ProcsFit /\ StaleAreListed /\ ScriptFits /\ CancelReachesTheProgram

LEMMA JobNowGives == JobNow => JobInv
BY DEF JobNow, JobInv, JobLives

LEMMA FewAreOne ==
  ASSUME NEW S \in SUBSET Jobs
  PROVE  (Cardinality(S) <= 1) <=> (\A j, k \in S : j = k)
<1>1. IsFiniteSet(S)
  <2>1. IsFiniteSet(1..MaxJobs)
    BY JobsAssumption, FS_Interval DEF JobsAssumption
  <2> QED
    BY <2>1, FS_Subset DEF Jobs
<1>2. Cardinality(S) \in Nat
  BY <1>1, FS_CardinalityType
<1>3. ASSUME Cardinality(S) <= 1, NEW j \in S, NEW k \in S, j # k PROVE FALSE
  <2>1. {j, k} \subseteq S
    OBVIOUS
  <2>2. Cardinality({j, k}) = 2
    <3>1. IsFiniteSet({j}) /\ Cardinality({j}) = 1
      BY FS_Singleton
    <3>2. Cardinality({j} \cup {k}) = 2
      BY <1>3, <3>1, FS_AddElement
    <3> QED
      BY <3>2
  <2> QED
    BY <1>1, <1>2, <1>3, <2>1, <2>2, FS_Subset
<1>4. ASSUME \A j, k \in S : j = k PROVE Cardinality(S) <= 1
  <2>1. CASE S = {}
    BY <2>1, FS_EmptySet
  <2>2. CASE S # {}
    <3>1. PICK j \in S : TRUE
      BY <2>2
    <3>2. S = {j}
      BY <1>4, <3>1
    <3> QED
      BY <3>2, FS_Singleton
  <2> QED
    BY <2>1, <2>2
<1> QED
  BY <1>3, <1>4

LEMMA JobInvGives == JobInv => JobsStayInTheirDraft
<1> SUFFICES ASSUME JobInv PROVE JobsStayInTheirDraft OBVIOUS
<1>1. OneJobBuilds
  BY FewAreOne DEF JobInv, JobFits, OneBuilds, OneJobBuilds, Building
<1>2. NoJobOutlivesItsDraft
  <2>1. CASE backend = "gone"
    BY <2>1 DEF JobInv, NoneBuilds, NoJobOutlivesItsDraft
  <2>2. CASE backend # "gone"
    BY <2>2 DEF JobInv, JobLives, StaleAreListed, NoJobOutlivesItsDraft, Building
  <2> QED
    BY <2>1, <2>2
<1>3. GuardRestores
  <2> SUFFICES ASSUME backend # "gone", InNoCall, Cardinality({j \in Jobs : calls[j] > 0}) <= 1
               PROVE  script = "own"
    BY DEF GuardRestores
  <2>1. OneCalled
    BY FewAreOne DEF OneCalled
  <2> QED
    BY <2>1 DEF JobInv, JobLives, ScriptFits, InNoCall, InCall
<1>4. CancelReachesTheProgram
  BY DEF JobInv, JobLives, CancelReachesTheProgram
<1> QED
  BY <1>1, <1>2, <1>3, <1>4 DEF JobsStayInTheirDraft

LEMMA JobsStart == JobsInit => JobInv
<1> SUFFICES ASSUME JobsInit PROVE JobNow BY JobNowGives
<1>1. JobFits
  BY DEF JobsInit, JobFits
<1>2. JobsFit
  BY DEF JobsInit, JobsFit, InCall
<1>3. OneBuilds /\ NoneBuilds /\ ProcsFit /\ StaleAreListed
  BY DEF JobsInit, OneBuilds, NoneBuilds, ProcsFit, StaleAreListed, Building
<1>4. ScriptFits /\ CancelReachesTheProgram
  BY DEF JobsInit, ScriptFits, CancelReachesTheProgram, InCall
<1> QED
  BY <1>1, <1>2, <1>3, <1>4 DEF JobNow

\* What the threads do with the script is as it was.
LEMMA ScriptKeeps ==
  ASSUME ScriptFits, UNCHANGED <<snapshot, script, calls>>, \A j \in Jobs : InCall(j)' = InCall(j)
  PROVE  ScriptFits'
BY DEF ScriptFits, OneCalled

\* The jobs js are marked cancelled, and somebody owes each of them the signal.
CancelsAll(js) ==
    /\ status' = [j \in Jobs |-> IF j \in js THEN "cancelled" ELSE status[j]]
    /\ owed \subseteq owed' /\ \A j \in js : \E c \in owed' : c.job = j

LEMMA MarkedAre ==
  ASSUME JobNow, NEW who, NEW js, MarksCancelled(who, js)
  PROVE  CancelsAll(Building \cap js)
<1>1. Building \subseteq Jobs
  BY DEF Building, JobNow, JobFits
<1>2. status' = [j \in Jobs |-> IF j \in Building \cap js THEN "cancelled" ELSE status[j]]
  BY DEF MarksCancelled
<1>3. owed \subseteq owed' /\ \A j \in Building \cap js : [job |-> j, by |-> who] \in owed'
  BY DEF MarksCancelled, Owes
<1>4. \A j : [job |-> j, by |-> who].job = j
  OBVIOUS
<1> QED
  BY <1>2, <1>3, <1>4 DEF CancelsAll

\* Nothing is cancelled.
LEMMA CancelsNone ==
  ASSUME JobNow, UNCHANGED <<status, owed>>
  PROVE  CancelsAll({})
<1>1. status = [j \in Jobs |-> status[j]]
  BY DEF JobNow, JobFits
<1> QED
  BY <1>1 DEF CancelsAll

\* What the requests and the registry do besides starting a job: they mark
\* some cancelled, drop others that are over, and move on.
LEMMA RegistryKeeps ==
  ASSUME JobNow, NEW js \in SUBSET Building, CancelsAll(js), UNCHANGED <<callVars, grip, proc>>,
         backend # "gone", backend' = backend \/ js = Building,
         known' \subseteq known, \A j \in Building \ js : j \in known',
         generation' \in Nat, generation' >= generation,
         seen' \in [Jobs -> Nat], \A j \in Jobs : seen'[j] <= generation',
         DOMAIN request' = Jobs,
         \A j \in Jobs : request'[j] \in {"none", "read", "refused"} =>
                            request[j] \in {"none", "read", "refused"},
         \A j \in Jobs : request'[j] = "started" => request[j] = "started",
         StaleAreListed'
  PROVE  JobNow'
<1>1. UNCHANGED <<thread, calls, snapshot, script, grip, proc>>
  BY DEF callVars
<1>2. \A j \in Jobs : status'[j] = IF j \in js THEN "cancelled" ELSE status[j]
  BY DEF CancelsAll
<1>3. js \subseteq known /\ \A j \in js : j \in Jobs /\ status[j] = "building"
  BY DEF Building, JobNow, JobFits
<1>4. JobFits'
  BY <1>1 DEF JobNow, JobFits, CancelsAll
<1>5. JobsFit'
  <2> SUFFICES ASSUME NEW j \in Jobs
               PROVE  /\ request'[j] \in {"none", "read", "refused"} => status'[j] = "none"
                      /\ request'[j] \in {"none", "read", "refused", "started"}
                            => thread'[j] = "none"
                      /\ seen'[j] <= generation'
                      /\ status'[j] = "building" => j \in known'
                      /\ j \in known' => status'[j] # "none"
                      /\ j \in grip' <=> thread'[j] \in {"registered", "reading"}
                      /\ InCall(j)' => calls'[j] > 0
    BY DEF JobsFit
  <2> QED
    BY <1>1, <1>2, <1>3 DEF JobNow, JobsFit, InCall, Building
<1>6. Building' \subseteq Building \ js
  BY <1>2 DEF Building, JobNow, JobFits
<1>7. OneBuilds' /\ NoneBuilds'
  BY <1>6 DEF JobNow, OneBuilds, NoneBuilds
<1>8. ScriptFits' /\ ProcsFit'
  BY <1>1, ScriptKeeps DEF JobNow, InCall, ProcsFit
<1>9. CancelReachesTheProgram'
  <2> SUFFICES ASSUME NEW j \in Jobs, status'[j] = "cancelled", proc'[j] = "live"
               PROVE  \/ j \in grip /\ \E c \in owed' : c.job = j
                      \/ thread[j] \in {"spawned", "registered"}
    BY <1>1 DEF CancelReachesTheProgram, Cancelled
  <2>1. CASE j \in js
    BY <1>1, <2>1 DEF JobNow, JobsFit, ProcsFit, CancelsAll
  <2>2. CASE j \notin js
    BY <1>1, <1>2, <2>2 DEF JobNow, CancelReachesTheProgram, Cancelled, CancelsAll
  <2> QED
    BY <2>1, <2>2
<1> QED
  BY <1>4, <1>5, <1>7, <1>8, <1>9 DEF JobNow

LEMMA PostAnswersKeeps ==
  ASSUME JobNow, backend # "gone", NEW j \in Jobs, PostAnswers(j) PROVE JobNow'
<1>0. /\ UNCHANGED <<callVars, grip, proc, generation, flagged, seen, settling, backend>>
      /\ request' = [request EXCEPT ![j] = "answered"]
      /\ known' \subseteq known /\ \A k \in Building : k \in known'
      /\ noted \subseteq noted'
  BY DEF PostAnswers, Building, Droppable
<1>1. CASE ~ flagged /\ seen[j] # generation
  <2>1. CancelsAll(Building \cap {j})
    BY <1>1, MarkedAre DEF PostAnswers
  <2>2. Building' \subseteq Building
    BY <1>0, <2>1 DEF CancelsAll, Building, JobNow, JobFits
  <2>3. StaleAreListed'
    BY <1>0, <2>2 DEF JobNow, StaleAreListed
  <2> QED
    BY <1>0, <2>1, <2>3, RegistryKeeps DEF JobNow, JobFits, JobsFit
<1>2. CASE flagged \/ seen[j] = generation
  <2>1. CancelsAll({})
    BY <1>2, CancelsNone DEF PostAnswers
  <2>2. Building' \subseteq Building
    BY <1>0, <1>2 DEF PostAnswers, Building
  <2>3. StaleAreListed'
    BY <1>0, <2>2 DEF JobNow, StaleAreListed
  <2> QED
    BY <1>0, <2>1, <2>3, RegistryKeeps DEF JobNow, JobFits, JobsFit
<1> QED
  BY <1>1, <1>2

LEMMA QuietRequests ==
  ASSUME JobNow, backend # "gone", NEW j \in Jobs, PostReads(j) \/ StartRefused(j) \/ Ack(j)
  PROVE  JobNow'
<1>1. /\ UNCHANGED <<callVars, grip, generation, flagged, settling, noted, owed, status, proc,
                      backend>>
      /\ known' \subseteq known /\ \A k \in Building : k \in known'
      /\ DOMAIN request' = Jobs
      /\ \A k \in Jobs : request'[k] \in {"none", "read", "refused"} =>
                            request[k] \in {"none", "read", "refused"}
      /\ \A k \in Jobs : request'[k] = "started" => request[k] = "started"
      /\ seen' \in [Jobs -> Nat] /\ \A k \in Jobs : seen'[k] <= generation'
      /\ \A k \in Building : seen'[k] = seen[k]
  BY DEF PostReads, StartRefused, Ack, JobNow, JobFits, JobsFit, Building
<1>2. CancelsAll({})
  BY <1>1, CancelsNone
<1>3. StaleAreListed'
  BY <1>1 DEF JobNow, StaleAreListed, Building
<1> QED
  BY <1>1, <1>2, <1>3, RegistryKeeps DEF JobNow, JobFits

LEMMA CancelKeeps ==
  ASSUME JobNow, backend # "gone", NEW j \in Jobs, UserCancels(j) \/ Cancels(j) PROVE JobNow'
<1>1. /\ UNCHANGED <<callVars, grip, proc, generation, flagged, known, request, seen, settling,
                      backend>>
      /\ MarksCancelled(Canceller, {j}) /\ noted \ {j} \subseteq noted'
  BY DEF UserCancels, Cancels
<1>2. CancelsAll(Building \cap {j})
  BY <1>1, MarkedAre
<1>3. Building' \subseteq Building \ {j}
  BY <1>1, <1>2 DEF CancelsAll, Building, JobNow, JobFits
<1>4. StaleAreListed'
  BY <1>1, <1>3 DEF JobNow, StaleAreListed
<1> QED
  BY <1>1, <1>2, <1>4, RegistryKeeps DEF JobNow, JobFits, JobsFit, Building

LEMMA SettleKeeps ==
  ASSUME JobNow, backend # "gone", SettleBumps \/ RemovalFlags \/ SettleScans PROVE JobNow'
<1>1. /\ UNCHANGED <<callVars, grip, request, seen, status, proc, owed, backend>>
      /\ known' \subseteq known /\ \A k \in Building : k \in known'
      /\ generation' \in Nat /\ generation' >= generation
  BY DEF SettleBumps, RemovalFlags, SettleScans, JobNow, JobFits, Droppable, Building
<1>2. CancelsAll({})
  BY <1>1, CancelsNone
<1>3. Building' = Building
  BY <1>1 DEF Building
<1>4. StaleAreListed'
  BY <1>3 DEF SettleBumps, RemovalFlags, SettleScans, StaleAreListed
<1>5. \A j \in Jobs : seen'[j] <= generation'
  BY <1>1 DEF JobNow, JobFits, JobsFit
<1> QED
  BY <1>1, <1>2, <1>4, <1>5, RegistryKeeps DEF JobNow, JobFits

LEMMA ShutdownKeeps == ASSUME JobNow, Shutdown PROVE JobNow'
<1>1. /\ UNCHANGED <<callVars, grip, proc, generation, flagged, known, request, seen>>
      /\ backend # "gone" /\ MarksCancelled(Stopper, Building)
  BY DEF Shutdown
<1>2. CancelsAll(Building)
  BY <1>1, MarkedAre
<1>3. Building' = {}
  BY <1>1, <1>2 DEF CancelsAll, Building, JobNow, JobFits
<1>4. StaleAreListed'
  BY <1>3 DEF StaleAreListed
<1> QED
  BY <1>1, <1>2, <1>4, RegistryKeeps DEF JobNow, JobFits, JobsFit, Building

\* The process ends: the threads with it, the programs not.
LEMMA ExitKeeps == ASSUME JobNow, Exits PROVE JobInv'
<1>1. /\ UNCHANGED <<generation, flagged, request, seen, status, known, calls, proc, snapshot,
                      script>>
      /\ thread' = [j \in Jobs |-> "none"] /\ grip' = {}
      /\ backend = "stops" /\ backend' = "gone"
  BY DEF Exits
<1>2. JobFits'
  BY <1>1 DEF JobNow, JobFits
<1>3. JobsFit'
  BY <1>1 DEF JobNow, JobsFit, InCall
<1>4. Building' = Building
  BY <1>1 DEF Building
<1>5. OneBuilds' /\ NoneBuilds'
  BY <1>1, <1>4 DEF JobNow, OneBuilds, NoneBuilds
<1> QED
  BY <1>1, <1>2, <1>3, <1>5 DEF JobInv

\* A signal that was owed: what the holder names by then is killed.
LEMMA SignalKeeps == ASSUME JobNow, NEW c \in owed, Signals(c) PROVE JobNow'
<1>1. /\ UNCHANGED <<generation, flagged, backend, request, seen, status, known, grip, settling,
                      noted, thread, calls, snapshot, script>>
      /\ owed' = owed \ {c} /\ DOMAIN proc = Jobs
      /\ proc' = [proc EXCEPT ![c.job] = IF c.job \in grip /\ @ = "live" THEN "killed" ELSE @]
  BY DEF Signals, callVars, JobNow, JobFits
<1>2. \A j \in Jobs : /\ proc'[j] # "none" => proc[j] # "none"
                      /\ proc'[j] = "live" => proc[j] = "live" /\ (j = c.job => j \notin grip)
  BY <1>1 DEF JobNow, JobFits
<1>3. proc' \in [Jobs -> {"none", "live", "killed"}]
  BY <1>1 DEF JobNow, JobFits
<1>4. JobFits' /\ JobsFit'
  BY <1>1, <1>3 DEF JobNow, JobFits, JobsFit, InCall
<1>5. OneBuilds' /\ NoneBuilds' /\ StaleAreListed'
  BY <1>1 DEF JobNow, OneBuilds, NoneBuilds, StaleAreListed, Building
<1>6. ProcsFit' /\ ScriptFits'
  BY <1>1, <1>2, ScriptKeeps DEF JobNow, ProcsFit, InCall
<1>7. CancelReachesTheProgram'
  BY <1>1, <1>2 DEF JobNow, CancelReachesTheProgram, Cancelled
<1> QED
  BY <1>4, <1>5, <1>6, <1>7 DEF JobNow

\* A start: the building job is marked cancelled and its signal owed, and the
\* new job is of the draft that is there.
LEMMA StartKeeps == ASSUME JobNow, NEW j \in Jobs, Start(j) PROVE JobNow'
<1>1. /\ UNCHANGED <<thread, calls, snapshot, script, grip, proc, generation, flagged, seen,
                      settling, noted, backend>>
      /\ known' = {j} /\ seen[j] = generation /\ ~ flagged /\ backend = "runs"
      /\ request[j] = "read" /\ request' = [request EXCEPT ![j] = "started"]
      /\ status' = [k \in Jobs |-> IF k = j THEN "building"
                                   ELSE IF k \in Building THEN "cancelled" ELSE status[k]]
      /\ owed' = owed \cup Owes(j, Building)
  BY DEF Start, Admits, callVars
<1>2. status[j] = "none" /\ thread[j] = "none" /\ j \notin Building
  BY <1>1 DEF JobNow, JobFits, JobsFit, Building
<1>3. owed \subseteq owed' /\ \A k \in Building : \E c \in owed' : c.job = k
  <2>1. \A k : [job |-> k, by |-> j].job = k
    OBVIOUS
  <2> QED
    BY <1>1, <2>1 DEF Owes
<1>4. JobFits'
  BY <1>1 DEF JobNow, JobFits
<1>5. JobsFit'
  <2> SUFFICES ASSUME NEW k \in Jobs
               PROVE  /\ request'[k] \in {"none", "read", "refused"} => status'[k] = "none"
                      /\ request'[k] \in {"none", "read", "refused", "started"}
                            => thread'[k] = "none"
                      /\ seen'[k] <= generation'
                      /\ status'[k] = "building" => k \in known'
                      /\ k \in known' => status'[k] # "none"
                      /\ k \in grip' <=> thread'[k] \in {"registered", "reading"}
                      /\ InCall(k)' => calls'[k] > 0
    BY DEF JobsFit
  <2> QED
    BY <1>1, <1>2 DEF JobNow, JobFits, JobsFit, InCall, Building
<1>6. Building' = {j}
  BY <1>1 DEF Building
<1>7. OneBuilds' /\ NoneBuilds' /\ StaleAreListed'
  BY <1>1, <1>6 DEF OneBuilds, NoneBuilds, StaleAreListed
<1>8. ScriptFits' /\ ProcsFit'
  BY <1>1, ScriptKeeps DEF JobNow, InCall, ProcsFit
<1>9. CancelReachesTheProgram'
  <2> SUFFICES ASSUME NEW k \in Jobs, status'[k] = "cancelled", proc[k] = "live"
               PROVE  \/ k \in grip /\ \E c \in owed' : c.job = k
                      \/ thread[k] \in {"spawned", "registered"}
    BY <1>1 DEF CancelReachesTheProgram, Cancelled
  <2>1. CASE k \in Building
    BY <1>3, <2>1 DEF JobNow, JobsFit, ProcsFit
  <2>2. CASE k \notin Building
    BY <1>1, <1>3, <2>2 DEF JobNow, CancelReachesTheProgram, Cancelled
  <2> QED
    BY <2>1, <2>2
<1> QED
  BY <1>4, <1>5, <1>7, <1>8, <1>9 DEF JobNow

\* Its thread begins.
LEMMA ThreadStartKeeps == ASSUME JobNow, NEW j \in Jobs, ThreadStarts(j) PROVE JobNow'
<1>1. /\ UNCHANGED <<generation, flagged, backend, seen, status, known, proc, grip, calls,
                      snapshot, script, settling, noted, owed>>
      /\ request[j] = "started" /\ request' = [request EXCEPT ![j] = "launched"]
      /\ thread' = [thread EXCEPT ![j] = "ready"]
  BY DEF ThreadStarts
<1>2. thread[j] = "none" /\ proc[j] = "none"
  BY <1>1 DEF JobNow, JobsFit, ProcsFit
<1>3. \A k \in Jobs : /\ thread'[k] = IF k = j THEN "ready" ELSE thread[k]
                      /\ request'[k] = IF k = j THEN "launched" ELSE request[k]
                      /\ InCall(k)' = InCall(k)
  BY <1>1, <1>2 DEF JobNow, JobFits, InCall
<1>4. JobFits'
  BY <1>1 DEF JobNow, JobFits
<1>5. JobsFit' /\ ProcsFit'
  BY <1>1, <1>2, <1>3 DEF JobNow, JobsFit, ProcsFit
<1>6. OneBuilds' /\ NoneBuilds' /\ StaleAreListed'
  BY <1>1 DEF JobNow, OneBuilds, NoneBuilds, StaleAreListed, Building
<1>7. ScriptFits'
  BY <1>1, <1>3, ScriptKeeps DEF JobNow
<1>8. CancelReachesTheProgram'
  BY <1>1, <1>2, <1>3 DEF JobNow, CancelReachesTheProgram, Cancelled
<1> QED
  BY <1>4, <1>5, <1>6, <1>7, <1>8 DEF JobNow

\* A step of job j's thread moves j alone, and leaves the registry to the others.
ThreadMoves(j) ==
    /\ UNCHANGED <<generation, flagged, backend, request, seen, known, settling, noted, owed>>
    /\ DOMAIN thread' = Jobs /\ thread[j] # "none"
    /\ status' \in [Jobs -> {"none", "building", "cancelled"} \cup Held]
    /\ proc' \in [Jobs -> {"none", "live", "killed"}]
    /\ calls' \in [Jobs -> Nat]
    /\ \A k \in Jobs : k # j => /\ thread'[k] = thread[k] /\ status'[k] = status[k]
                                /\ proc'[k] = proc[k] /\ calls'[k] = calls[k]
                                /\ (k \in grip' <=> k \in grip)
    /\ status'[j] = status[j] \/ (status[j] = "building" /\ status'[j] \in Held)
    /\ calls'[j] >= calls[j] /\ (InCall(j)' => calls'[j] > 0)
    /\ j \in grip' <=> thread'[j] \in {"registered", "reading"}
    /\ proc'[j] # "none" => thread'[j] \in {"spawned", "registered", "reading"}
    /\ proc'[j] = "live" /\ status'[j] = "cancelled" => thread'[j] \in {"spawned", "registered"}

LEMMA ThreadKeeps ==
  ASSUME JobNow, NEW j \in Jobs, ThreadMoves(j), ScriptFits',
         snapshot' \in [Jobs -> {"own", "changed"}], script' \in {"own", "changed"}
  PROVE  JobNow'
<1>1. Building' \subseteq Building
  BY DEF ThreadMoves, Building, JobNow, JobFits
<1>2. JobFits'
  BY DEF JobNow, JobFits, ThreadMoves
<1>3. JobsFit' /\ ProcsFit'
  <2> SUFFICES ASSUME NEW k \in Jobs
               PROVE  /\ request'[k] \in {"none", "read", "refused"} => status'[k] = "none"
                      /\ request'[k] \in {"none", "read", "refused", "started"}
                            => thread'[k] = "none"
                      /\ seen'[k] <= generation'
                      /\ status'[k] = "building" => k \in known'
                      /\ k \in known' => status'[k] # "none"
                      /\ k \in grip' <=> thread'[k] \in {"registered", "reading"}
                      /\ InCall(k)' => calls'[k] > 0
                      /\ proc'[k] # "none" => thread'[k] \in {"spawned", "registered", "reading"}
    BY DEF JobsFit, ProcsFit
  <2>1. CASE k = j
    BY <2>1 DEF JobNow, JobsFit, ThreadMoves, Held
  <2>2. CASE k # j
    BY <2>2 DEF JobNow, JobsFit, ProcsFit, ThreadMoves, InCall
  <2> QED
    BY <2>1, <2>2
<1>4. OneBuilds' /\ NoneBuilds' /\ StaleAreListed'
  BY <1>1 DEF JobNow, OneBuilds, NoneBuilds, StaleAreListed, ThreadMoves
<1>5. CancelReachesTheProgram'
  BY DEF JobNow, CancelReachesTheProgram, Cancelled, ThreadMoves
<1> QED
  BY <1>2, <1>3, <1>4, <1>5 DEF JobNow

\* The steps of the call itself: begun, spawned, registered, looked at, ended.
LEMMA CallBegins == ASSUME JobNow, NEW j \in Jobs, InvokeBegins(j) PROVE JobNow'
<1>1. ThreadMoves(j) /\ UNCHANGED script /\ snapshot' \in [Jobs -> {"own", "changed"}]
  BY DEF InvokeBegins, ThreadMoves, JobNow, JobFits, JobsFit, ProcsFit, InCall, CancelReachesTheProgram,
         Cancelled
<1>2. ScriptFits'
  <2>1. CASE thread' = [thread EXCEPT ![j] = "settling"] /\ UNCHANGED <<snapshot, calls>>
    <3>1. \A k \in Jobs : InCall(k)' = InCall(k)
      BY <2>1 DEF InvokeBegins, InCall, JobNow, JobFits
    <3> QED
      BY <1>1, <2>1, <3>1, ScriptKeeps DEF JobNow
  <2>2. CASE /\ thread' = [thread EXCEPT ![j] = "calling"]
             /\ snapshot' = [snapshot EXCEPT ![j] = script]
             /\ calls' = [calls EXCEPT ![j] = @ + 1]
    <3> SUFFICES ASSUME OneCalled' PROVE ScriptFits'
      BY DEF ScriptFits
    <3>1. \A k \in Jobs : calls'[k] >= calls[k] /\ calls'[k] \in Nat /\ calls[k] \in Nat
      BY <1>1 DEF ThreadMoves, JobNow, JobFits
    <3>2. calls'[j] > 0 /\ InCall(j)'
      BY <2>2 DEF InCall, JobNow, JobFits
    <3>3. OneCalled
      BY <3>1 DEF OneCalled
    <3>4. \A k \in Jobs : k # j => ~ InCall(k) /\ ~ InCall(k)'
      BY <1>1, <3>1, <3>2 DEF OneCalled, JobNow, JobsFit, ThreadMoves, InCall
    <3>5. ~ InCall(j)
      BY DEF InvokeBegins, InCall
    <3>6. script = "own"
      BY <3>3, <3>4, <3>5 DEF JobNow, ScriptFits
    <3>7. snapshot'[j] = "own"
      BY <2>2, <3>6 DEF JobNow, JobFits
    <3> QED
      BY <1>1, <3>4, <3>6, <3>7 DEF ScriptFits
  <2> QED
    BY <2>1, <2>2 DEF InvokeBegins
<1> QED
  BY <1>1, <1>2, ThreadKeeps DEF JobNow, JobFits

LEMMA CallRuns ==
  ASSUME JobNow, NEW j \in Jobs, Spawn(j) \/ Registers(j) \/ AbortCheck(j) \/ CallEnds(j)
  PROVE  JobNow'
<1>1. ThreadMoves(j) /\ UNCHANGED <<snapshot, script, calls>>
  <2>1. CASE Spawn(j)
    BY <2>1 DEF Spawn, ThreadMoves, JobNow, JobFits, JobsFit, ProcsFit, InCall, CancelReachesTheProgram
  <2>2. CASE Registers(j)
    BY <2>2 DEF Registers, ThreadMoves, JobNow, JobFits, JobsFit, ProcsFit, InCall, CancelReachesTheProgram
  <2>3. CASE AbortCheck(j)
    BY <2>3 DEF AbortCheck, ThreadMoves, JobNow, JobFits, JobsFit, ProcsFit, InCall,
                CancelReachesTheProgram, Cancelled
  <2>4. CASE CallEnds(j)
    BY <2>4 DEF CallEnds, ThreadMoves, JobNow, JobFits, JobsFit, ProcsFit, InCall, CancelReachesTheProgram
  <2> QED
    BY <2>1, <2>2, <2>3, <2>4
<1>2. \A k \in Jobs : InCall(k)' = InCall(k)
  <2> SUFFICES ASSUME NEW k \in Jobs PROVE InCall(k)' = InCall(k) OBVIOUS
  <2>1. k # j => thread'[k] = thread[k]
    BY <1>1 DEF ThreadMoves
  <2>2. k = j => InCall(k) /\ InCall(k)'
    BY DEF InCall, Spawn, Registers, AbortCheck, CallEnds, JobNow, JobFits
  <2> QED
    BY <2>1, <2>2 DEF InCall
<1>3. ScriptFits'
  BY <1>1, <1>2, ScriptKeeps DEF JobNow
<1> QED
  BY <1>1, <1>3, ThreadKeeps DEF JobNow, JobFits

\* The guard writes back what the call began with.
LEMMA GuardKeeps == ASSUME JobNow, NEW j \in Jobs, GuardCompares(j) PROVE JobNow'
<1>1. /\ ThreadMoves(j) /\ UNCHANGED <<snapshot, calls>> /\ script' = snapshot[j]
      /\ InCall(j) /\ ~ InCall(j)'
  BY DEF GuardCompares, ThreadMoves, JobNow, JobFits, JobsFit, ProcsFit, InCall, CancelReachesTheProgram
<1>2. ScriptFits'
  <2> SUFFICES ASSUME OneCalled PROVE ScriptFits'
    BY <1>1 DEF ScriptFits, OneCalled
  <2>1. snapshot[j] = "own"
    BY <1>1 DEF JobNow, ScriptFits
  <2>2. \A k \in Jobs : InCall(k)' => InCall(k)
    BY <1>1 DEF ThreadMoves, InCall
  <2> QED
    BY <1>1, <2>1, <2>2 DEF JobNow, ScriptFits
<1> QED
  BY <1>1, <1>2, ThreadKeeps DEF JobNow, JobFits

LEMMA AnswerKeeps == ASSUME JobNow, NEW j \in Jobs, GoesOn(j) \/ Settles(j) PROVE JobNow'
<1>1. ThreadMoves(j) /\ UNCHANGED <<snapshot, script, calls>>
  <2>1. CASE GoesOn(j)
    BY <2>1 DEF GoesOn, ThreadMoves, JobNow, JobFits, JobsFit, ProcsFit, InCall, CancelReachesTheProgram
  <2>2. CASE Settles(j)
    BY <2>2 DEF Settles, MaySettle, Held, ThreadMoves, JobNow, JobFits, JobsFit, ProcsFit, InCall,
                CancelReachesTheProgram
  <2> QED
    BY <2>1, <2>2
<1>2. \A k \in Jobs : InCall(k)' = InCall(k)
  <2> SUFFICES ASSUME NEW k \in Jobs PROVE InCall(k)' = InCall(k) OBVIOUS
  <2>1. k # j => thread'[k] = thread[k]
    BY <1>1 DEF ThreadMoves
  <2>2. k = j => ~ InCall(k) /\ ~ InCall(k)'
    BY DEF InCall, GoesOn, Settles, JobNow, JobFits
  <2> QED
    BY <2>1, <2>2 DEF InCall
<1>3. ScriptFits'
  BY <1>1, <1>2, ScriptKeeps DEF JobNow
<1> QED
  BY <1>1, <1>3, ThreadKeeps DEF JobNow, JobFits

LEMMA TamperKeeps == ASSUME JobNow, NEW j \in Jobs, Tamper(j) PROVE JobNow'
<1>1. /\ UNCHANGED <<generation, flagged, backend, request, seen, status, known, thread, calls,
                     proc, grip, snapshot, settling, noted, owed>>
      /\ proc[j] # "none" /\ script' = "changed"
  BY DEF Tamper
<1>2. InCall(j)
  BY <1>1 DEF JobNow, ProcsFit, InCall
<1>3. ScriptFits'
  BY <1>1, <1>2 DEF JobNow, ScriptFits, OneCalled, InCall
<1> QED
  BY <1>1, <1>3 DEF JobNow, JobFits, JobsFit, OneBuilds, NoneBuilds, ProcsFit, StaleAreListed,
                    CancelReachesTheProgram, Cancelled, Building, InCall

LEMMA JobStays == JobInv /\ UNCHANGED jobVars => JobInv'
BY DEF jobVars, JobInv, JobLives, JobFits, JobsFit, OneBuilds, NoneBuilds, ProcsFit,
       StaleAreListed, ScriptFits, OneCalled, CancelReachesTheProgram, Cancelled, Building, InCall

LEMMA JobKeeps == JobInv /\ [JobsNext]_jobVars => JobInv'
<1> SUFFICES ASSUME JobInv, JobsNext PROVE JobInv'
  BY JobStays
<1>1. JobNow /\ backend # "gone"
  BY DEF JobsNext, JobInv, JobLives, JobNow
<1>2. JobNow' => JobInv'
  BY DEF JobNow, JobInv, JobLives
<1>3. CASE RegistrySteps
  BY <1>1, <1>2, <1>3, StartKeeps, ThreadStartKeeps, PostAnswersKeeps, QuietRequests,
     CancelKeeps, SignalKeeps, SettleKeeps, ShutdownKeeps, ExitKeeps DEF RegistrySteps
<1>4. CASE \E j \in Jobs : JobSteps(j) \/ Tamper(j)
  BY <1>1, <1>2, <1>4, CallBegins, CallRuns, GuardKeeps, AnswerKeeps, TamperKeeps DEF JobSteps
<1> QED
  BY <1>3, <1>4 DEF JobsNext

\* Besides a start, what a step does to a status.
LEMMA StatusMoves ==
  ASSUME JobInv, [JobsNext]_jobVars, ~ \E i \in Jobs : Start(i)
  PROVE  /\ DOMAIN status = Jobs
         /\ \A j \in Jobs : \/ status'[j] = status[j]
                           \/ (status[j] = "building" /\ status'[j] # "none")
<1>0. DOMAIN status = Jobs /\ \A j \in Building : j \in Jobs /\ status[j] = "building"
  BY DEF JobInv, JobFits, Building
<1>1. ASSUME NEW who, NEW js, MarksCancelled(who, js)
      PROVE  \A j \in Jobs : status'[j] = status[j] \/ (status[j] = "building" /\ status'[j] # "none")
  BY <1>0, <1>1 DEF MarksCancelled
<1>2. ASSUME NEW i \in Jobs, Settles(i)
      PROVE  \A j \in Jobs : status'[j] = status[j] \/ (status[j] = "building" /\ status'[j] # "none")
  BY <1>0, <1>2 DEF Settles, MaySettle, Held
<1>3. ASSUME NEW i \in Jobs, PostAnswers(i) \/ UserCancels(i) \/ Cancels(i)
      PROVE  UNCHANGED status \/ MarksCancelled(Canceller, {i})
  BY <1>3 DEF PostAnswers, UserCancels, Cancels
<1>4. Shutdown => MarksCancelled(Stopper, Building)
  BY DEF Shutdown
<1>5. CASE RegistrySteps
  <2>1. \/ UNCHANGED status
        \/ \E i \in Jobs : PostAnswers(i) \/ UserCancels(i) \/ Cancels(i)
        \/ Shutdown
    BY <1>5 DEF RegistrySteps, PostReads, StartRefused, ThreadStarts, Ack, Signals, SettleBumps,
       RemovalFlags, SettleScans, Exits
  <2> QED
    BY <1>0, <1>1, <1>3, <1>4, <2>1
<1>6. CASE \E i \in Jobs : JobSteps(i) \/ Tamper(i)
  <2>1. UNCHANGED status \/ \E i \in Jobs : Settles(i)
    BY <1>6 DEF JobSteps, InvokeBegins, Spawn, Registers, AbortCheck, CallEnds, GuardCompares,
       GoesOn, Tamper
  <2> QED
    BY <1>0, <1>2, <2>1
<1> QED
  BY <1>0, <1>5, <1>6 DEF JobsNext, jobVars

\* No step puts a job into the place of one of a later draft, or moves one that
\* is over.
LEMMA JobsNeverGoBack ==
  ASSUME JobInv, [JobsNext]_jobVars PROVE StaleNeverSupersedes /\ OutcomeStands
<1>1. StaleNeverSupersedes
  <2> SUFFICES ASSUME NEW j \in Jobs, NEW k \in Jobs,
                      status[j] = "none", status'[j] = "building",
                      status[k] = "building", status'[k] = "cancelled"
               PROVE  seen[j] >= seen[k]
    BY DEF StaleNeverSupersedes
  <2>1. PICK i \in Jobs : Start(i)
    BY StatusMoves
  <2>2. seen[i] = generation /\ i = j
    BY <2>1 DEF Start, Admits, Building
  <2> QED
    BY <2>2 DEF JobInv, JobFits, JobsFit
<1>2. OutcomeStands
  <2> SUFFICES ASSUME NEW j \in Jobs, status[j] \in Held \cup {"cancelled"}
               PROVE  status'[j] = status[j]
    BY DEF OutcomeStands
  <2>1. status[j] # "none" /\ status[j] # "building" /\ j \notin Building
    BY DEF Held, Building
  <2>2. ASSUME NEW i \in Jobs, Start(i) PROVE status'[j] = status[j]
    <3>1. status[i] = "none"
      BY <2>2 DEF Start, JobInv, JobsFit
    <3> QED
      BY <2>1, <2>2, <3>1 DEF Start
  <2> QED
    BY <2>1, <2>2, StatusMoves
<1> QED
  BY <1>1, <1>2

-----------------------------------------------------------------------------
(***************************************************************************)
(* The pulls.  A pull that runs holds its model in the set of those being     *)
(* pulled; its figure is a percentage.                                      *)
(***************************************************************************)
PullInv ==
    /\ DOMAIN step = Pulls /\ percent \in [Pulls -> 0..100]
    /\ \A p \in Pulls : Active(p) => model[p] \in pulling
    /\ OnePullPerModel

LEMMA PullStarts == PullInit => PullInv
BY DEF PullInit, PullInv, OnePullPerModel, Active

LEMMA RaisedRises ==
  ASSUME NEW old \in 0..100, NEW new PROVE Raised(old, new) \in 0..100 /\ Raised(old, new) >= old
BY DEF Raised

\* What a line does to the figures.
LEMMA LineRaises ==
  ASSUME NEW p \in Pulls, percent \in [Pulls -> 0..100], LayerLine(p)
  PROVE  percent' \in [Pulls -> 0..100] /\ \A q \in Pulls : percent'[q] >= percent[q]
<1>1. PICK n : percent' = [percent EXCEPT ![p] = Raised(@, n)]
  BY DEF LayerLine
<1>2. Raised(percent[p], n) \in 0..100 /\ Raised(percent[p], n) >= percent[p]
  BY RaisedRises
<1> QED
  BY <1>1, <1>2

LEMMA PullKeeps ==
  ASSUME PullInv, [PullNext]_pullVars PROVE PullInv' /\ ProgressNeverFalls
<1>1. ASSUME NEW p \in Pulls, Accept(p) PROVE PullInv' /\ ProgressNeverFalls
  BY <1>1 DEF Accept, Idle, At, progress, PullInv, OnePullPerModel, Active, ProgressNeverFalls
<1>2. ASSUME NEW p \in Pulls, Frees(p) PROVE PullInv' /\ ProgressNeverFalls
  BY <1>2 DEF Frees, At, progress, PullInv, OnePullPerModel, Active, ProgressNeverFalls
<1>3. ASSUME NEW p \in Pulls, HttpLine(p) \/ CliLine(p) PROVE PullInv' /\ ProgressNeverFalls
  <2>1. /\ UNCHANGED <<model, pulling>> /\ DOMAIN step' = Pulls
        /\ \A q \in Pulls : step'[q] = step[q] \/ (step[q] = "read" /\ step'[q] = "reap")
        /\ LayerLine(p) \/ UNCHANGED percent
    BY <1>3 DEF HttpLine, CliLine, progress, PullInv
  <2>2. percent' \in [Pulls -> 0..100] /\ \A q \in Pulls : percent'[q] >= percent[q]
    BY <2>1, LineRaises DEF PullInv
  <2> QED
    BY <2>1, <2>2 DEF PullInv, OnePullPerModel, Active, ProgressNeverFalls
<1>4. ASSUME NEW p \in Pulls, HttpEnds(p) \/ CliFails(p) \/ CliReaps(p)
      PROVE  PullInv' /\ ProgressNeverFalls
  <2>1. /\ UNCHANGED <<model, pulling>> /\ step' = [step EXCEPT ![p] = "ending"] /\ Active(p)
        /\ percent' = [percent EXCEPT ![p] = 0]
    BY <1>4 DEF HttpEnds, CliFails, CliReaps, Announce, At, Active
  <2> QED
    BY <2>1 DEF PullInv, OnePullPerModel, Active, ProgressNeverFalls
<1>5. ASSUME NEW p \in Pulls, \/ Refuse(p) \/ Choose(p) \/ CliSpawns(p) \/ CliTracks(p) \/ CliEof(p)
      PROVE  PullInv' /\ ProgressNeverFalls
  <2>1. /\ UNCHANGED <<model, pulling, percent>> /\ DOMAIN step' = Pulls
        /\ \A q \in Pulls : Active(q)' => Active(q)
    BY <1>5 DEF Refuse, Choose, CliSpawns, CliTracks, CliEof, At, Active, progress, PullInv
  <2> QED
    BY <2>1 DEF PullInv, OnePullPerModel, Active, ProgressNeverFalls
<1>6. CASE \/ \E p \in Pulls : ChildEnds(p)
           \/ PullShutdown \/ PullTick \/ StatusPoll \/ ServerDies \/ UNCHANGED pullVars
  <2>1. UNCHANGED <<model, pulling, percent, step>>
    BY <1>6 DEF ChildEnds, PullShutdown, PullTick, StatusPoll, ServerDies, pullVars, progress
  <2> QED
    BY <2>1 DEF PullInv, OnePullPerModel, Active, ProgressNeverFalls
<1> QED
  BY <1>1, <1>2, <1>3, <1>4, <1>5, <1>6 DEF PullNext, PullThread

-----------------------------------------------------------------------------
(***************************************************************************)
(* The provider's file and its probe.  Where the directory can be written a   *)
(* call between the lock and the write holds the lock file, so what it read    *)
(* is what is there; a probing poll holds the probe's lock.                   *)
(***************************************************************************)
ProviderInv ==
    /\ DOMAIN merge = Callers /\ DOMAIN poller = Callers /\ DOMAIN read = Callers
    /\ \A c \in Callers :
          /\ writable /\ merge[c] \in {"locked", "read"} => fileLock = c
          /\ writable /\ merge[c] = "read" => read[c] = file.models
          /\ poller[c] = "probing" => probeLock = c
    /\ NoEntryIsDropped

LEMMA ProviderGives == ProviderInv => NoEntryIsDropped /\ OneProbeRuns
BY DEF ProviderInv, OneProbeRuns

LEMMA ProviderStarts == ProviderInit => ProviderInv
BY DEF ProviderInit, ProviderInv, NoEntryIsDropped

LEMMA MergeKeeps ==
  ASSUME ProviderInv, UNCHANGED probeVars,
         NEW c \in Callers, \/ TakeThreadLock(c) \/ TakeFileLock(c) \/ ReadConfig(c)
                            \/ WriteConfig(c) \/ Dies(c)
  PROVE  ProviderInv'
<1>0. c # Nobody
  BY CallersAssumption DEF CallersAssumption, Nobody
<1>1. CASE TakeThreadLock(c)
  BY <1>1 DEF TakeThreadLock, Moves, probeVars, ProviderInv, NoEntryIsDropped
<1>2. CASE TakeFileLock(c)
  <2>1. CASE writable
    BY <1>0, <1>2, <2>1, CallersAssumption
       DEF TakeFileLock, Moves, FileFree, Nobody, CallersAssumption, probeVars, ProviderInv,
           NoEntryIsDropped
  <2>2. CASE ~ writable
    BY <1>2, <2>2 DEF TakeFileLock, Moves, probeVars, ProviderInv, NoEntryIsDropped
  <2> QED
    BY <2>1, <2>2
<1>3. CASE ReadConfig(c)
  BY <1>3 DEF ReadConfig, Moves, Unlock, probeVars, ProviderInv, NoEntryIsDropped
<1>4. CASE WriteConfig(c)
  <2>1. CASE writable
    BY <1>4, <2>1 DEF WriteConfig, Moves, Unlock, probeVars, ProviderInv, NoEntryIsDropped
  <2>2. CASE ~ writable
    BY <1>4, <2>2 DEF WriteConfig, Moves, Unlock, probeVars, ProviderInv, NoEntryIsDropped
  <2> QED
    BY <2>1, <2>2
<1>5. CASE Dies(c)
  BY <1>5 DEF Dies, Unlock, probeVars, ProviderInv, NoEntryIsDropped
<1> QED
  BY <1>1, <1>2, <1>3, <1>4, <1>5

LEMMA PollKeeps ==
  ASSUME ProviderInv, UNCHANGED mergeVars,
         \/ \E c \in Callers : Ask(c) \/ FromCache(c) \/ Probe(c) \/ ProbeEnds(c)
         \/ SignsIn \/ WallTick \/ UNCHANGED probeVars
  PROVE  ProviderInv'
<1>1. UNCHANGED <<file, writable, merge, fileLock, read>>
  BY DEF mergeVars
<1>2. DOMAIN poller' = Callers /\ \A c \in Callers : poller'[c] = "probing" => probeLock' = c
  <2>1. ASSUME NEW c \in Callers, Ask(c) \/ FromCache(c)
        PROVE  DOMAIN poller' = Callers /\ \A d \in Callers : poller'[d] = "probing" => probeLock' = d
    BY <2>1 DEF Ask, FromCache, Says, ProviderInv
  <2>2. ASSUME NEW c \in Callers, Probe(c)
        PROVE  DOMAIN poller' = Callers /\ \A d \in Callers : poller'[d] = "probing" => probeLock' = d
    BY <2>2, CallersAssumption DEF Probe, LockFree, Nobody, CallersAssumption, ProviderInv
  <2>3. ASSUME NEW c \in Callers, ProbeEnds(c)
        PROVE  DOMAIN poller' = Callers /\ \A d \in Callers : poller'[d] = "probing" => probeLock' = d
    BY <2>3 DEF ProbeEnds, Says, ProviderInv
  <2>4. CASE SignsIn \/ WallTick \/ UNCHANGED probeVars
    BY <2>4 DEF SignsIn, WallTick, probeVars, ProviderInv
  <2> QED
    BY <2>1, <2>2, <2>3, <2>4
<1> QED
  BY <1>1, <1>2 DEF ProviderInv, NoEntryIsDropped

LEMMA ProviderKeeps == ProviderInv /\ [ProviderNext]_providerVars => ProviderInv'
<1> SUFFICES ASSUME ProviderInv, [ProviderNext]_providerVars PROVE ProviderInv' OBVIOUS
<1>1. ASSUME NEW c \in Callers, \/ TakeThreadLock(c) \/ TakeFileLock(c) \/ ReadConfig(c)
                                \/ WriteConfig(c) \/ Dies(c)
      PROVE  ProviderInv'
  <2>1. UNCHANGED probeVars
    BY <1>1 DEF TakeThreadLock, TakeFileLock, ReadConfig, WriteConfig, Dies
  <2> QED
    BY <1>1, <2>1, MergeKeeps
<1>2. CASE \/ \E c \in Callers : Ask(c) \/ FromCache(c) \/ Probe(c) \/ ProbeEnds(c)
           \/ SignsIn \/ WallTick \/ UNCHANGED providerVars
  <2>1. UNCHANGED mergeVars
    BY <1>2 DEF Ask, FromCache, Probe, ProbeEnds, SignsIn, WallTick, providerVars
  <2> QED
    BY <1>2, <2>1, PollKeeps DEF providerVars
<1> QED
  BY <1>1, <1>2 DEF ProviderNext

-----------------------------------------------------------------------------
(***************************************************************************)
(* One call of an agent.  The holder shows the whole process before the       *)
(* reading begins; a cancel that reached it later has released the pipes, and  *)
(* one that came earlier is seen by the second look at the flag.              *)
(***************************************************************************)
BeginsAlone ==
    call = "idle" => /\ child = "none" /\ held = "no" /\ canceller = "no"
                     /\ prompt = "unsent" /\ verdict = "none"

ChildIsReaped ==
    call \in {"stopping", "answering", "leaving", "returned"} => child # "running"

HolderShows ==
    /\ held = "no" => call \in {"idle", "spawned", "returned"}
    /\ call \in {"held", "built", "reading", "reaping"} => held = "both"

PromptLetsGo == prompt = "partly" => call # "returned"

CancelReleases ==
    call \in {"reading", "reaping"} =>
        /\ canceller \in {"kill", "gone"} => released
        /\ canceller = "gone" => child # "running"

VerdictIsDue ==
    IF call \in {"leaving", "returned"}
    THEN /\ child = "ok" => verdict \notin {"timeout", "hard cap", "failed"}
         /\ doc = "small" => verdict # "bare"
    ELSE verdict \in {"none", "too big", "error"}

CallInv == /\ BeginsAlone /\ ChildIsReaped /\ HolderShows /\ PromptLetsGo
           /\ CancelReleases /\ VerdictIsDue

LEMMA CallGives ==
  CallInv => /\ NothingOutlivesTheCall /\ FinishedIsAnswered
             /\ CancelFreesTheCall /\ DocumentsReachTheReply
BY DEF CallInv, ChildIsReaped, PromptLetsGo, CancelReleases, VerdictIsDue,
       NothingOutlivesTheCall, FinishedIsAnswered, CancelFreesTheCall, DocumentsReachTheReply

LEMMA CallStarts == CallInit => CallInv
BY DEF CallInit, CallInv, BeginsAlone, ChildIsReaped, HolderShows, PromptLetsGo, CancelReleases,
       VerdictIsDue

\* The invoking thread: where it goes, and what is left then.
LEMMA ReaderKeeps == ASSUME CallInv, ReaderThread PROVE CallInv'
<1> USE DEF CallInv, BeginsAlone, ChildIsReaped, HolderShows, PromptLetsGo, CancelReleases,
            VerdictIsDue, pipes, callEvents, watched, clock, KillCallGroup
<1>1. CASE CannotSpawn \/ SpawnAgent \/ Hold
  BY <1>1 DEF CannotSpawn, SpawnAgent, Hold
<1>2. CASE Build \/ BuildFails
  BY <1>2 DEF Build, BuildFails
<1>3. CASE CallRecheck
  <2>1. CASE Aborting
    BY <1>3, <2>1 DEF CallRecheck, ReleaseCall, Built, Assembling
  <2>2. CASE ~ Aborting
    BY <1>3, <2>2 DEF CallRecheck, Aborting
  <2> QED
    BY <2>1, <2>2
<1>4. CASE ReadLine \/ Eof \/ Reap \/ Raise
  BY <1>4 DEF ReadLine, Eof, Reap, Raise
<1>5. CASE Stop
  BY <1>5 DEF Stop
<1>6. CASE Answer
  <2>1. /\ call = "answering" /\ call' = "leaving"
        /\ UNCHANGED <<child, held, canceller, prompt, released, doc>>
    BY <1>6 DEF Answer
  <2>2. child = "ok" => verdict' \in {"reply", "bare", "too big"}
    BY <1>6 DEF Answer, TimedOut
  <2>3. doc = "small" => verdict' # "bare"
    BY <1>6 DEF Answer, TimedOut, Collected
  <2> QED
    BY <2>1, <2>2, <2>3
<1>7. CASE LeaveCall
  BY <1>7 DEF LeaveCall
<1> QED
  BY <1>1, <1>2, <1>3, <1>4, <1>5, <1>6, <1>7 DEF ReaderThread

\* Everybody else leaves the thread where it is, and stops a child at most.
LEMMA OthersKeep ==
  ASSUME CallInv, UNCHANGED <<call, held, verdict>>,
         child' = child \/ (child = "running" /\ child' \in {"killed", "ok", "bad"}),
         doc' = doc \/ child = "running",
         released => released', prompt' \in {prompt, "dropped", "sent"},
         prompt' = prompt \/ prompt = "partly",
         \/ canceller' = canceller
         \/ /\ call # "idle"
            /\ canceller' \in {"kill", "gone"} /\ call \in {"reading", "reaping"} => released'
            /\ canceller' = "gone" /\ call \in {"reading", "reaping"} => child' # "running"
  PROVE  CallInv'
BY DEF CallInv, BeginsAlone, ChildIsReaped, HolderShows, PromptLetsGo, CancelReleases, VerdictIsDue

LEMMA CancelCallKeeps == ASSUME CallInv, CancelCall PROVE CallInv'
<1>1. UNCHANGED <<call, held, verdict, prompt, doc>>
  BY DEF CancelCall, watched
<1>2. child' = child \/ (child = "running" /\ child' \in {"killed", "ok", "bad"})
  BY DEF CancelCall, KillCallGroup
<1>3. released => released'
  BY DEF CancelCall, ReleaseCall
<1>4. call # "idle"
  BY DEF CancelCall, CallInv, BeginsAlone
<1>5. ASSUME call \in {"reading", "reaping"}
      PROVE  /\ canceller' \in {"kill", "gone"} => released'
             /\ canceller' = "gone" => child' # "running"
  BY <1>5 DEF CancelCall, CallInv, HolderShows, CancelReleases, KillCallGroup, ReleaseCall, Built,
              Assembling
<1> QED
  BY <1>1, <1>2, <1>3, <1>4, <1>5, OthersKeep

LEMMA CallKeeps == CallInv /\ [CallNext]_agentCallVars => CallInv'
<1> SUFFICES ASSUME CallInv, [CallNext]_agentCallVars PROVE CallInv' OBVIOUS
<1>1. CASE Watchdog \/ Tick
  <2>1. /\ UNCHANGED <<call, held, verdict, canceller, prompt, doc>>
        /\ child' = child \/ (child = "running" /\ child' = "killed")
    BY <1>1 DEF Watchdog, WatchEnds, WatchDecides, WatchKills, Tick, pipes, watched,
                KillCallGroup
  <2>2. released => released'
    BY <1>1 DEF Watchdog, WatchEnds, WatchDecides, WatchKills, Tick, pipes, ReleaseCall
  <2> QED
    BY <2>1, <2>2, OthersKeep
<1>2. CASE WriterGivesUp \/ PollFinds \/ PollFeeds
  <2>1. /\ UNCHANGED <<call, held, verdict, canceller, doc>>
        /\ prompt' = prompt \/ (prompt = "partly" /\ prompt' = "dropped")
        /\ child' = child \/ (child = "running" /\ child' = "killed")
    BY <1>2 DEF WriterGivesUp, PollFinds, PollFeeds, pipes, watched, KillCallGroup
  <2>2. released => released'
    BY <1>2 DEF WriterGivesUp, PollFinds, PollFeeds, pipes, ReleaseCall
  <2> QED
    BY <2>1, <2>2, OthersKeep
<1>3. CASE Child
  <2>1. /\ UNCHANGED <<call, held, verdict, canceller, released>>
        /\ prompt' = prompt \/ (prompt = "partly" /\ prompt' = "sent")
        /\ child' = child \/ (child = "running" /\ child' \in {"ok", "bad"})
        /\ doc' = doc \/ child = "running"
    BY <1>3 DEF Child, ChildReads, ChildWrites, ChildSavesDocument, ChildLingers, ChildForks,
                ChildExits, pipes, watched
  <2> QED
    BY <2>1, OthersKeep
<1>4. CASE UNCHANGED agentCallVars
  BY <1>4, OthersKeep DEF agentCallVars, pipes, watched
<1> QED
  BY <1>1, <1>2, <1>3, <1>4, ReaderKeeps, CancelCallKeeps DEF CallNext

-----------------------------------------------------------------------------
(***************************************************************************)
(* The rounds of a chat call.  What is carried forward is the newest block    *)
(* of its name, and every block that came last in good form is carried.       *)
(***************************************************************************)
CarriesTheNewest ==
    /\ DOMAIN kept = Names /\ DOMAIN sent = Names /\ answer = spoke
    /\ \A f \in Names : Has(kept, f) => kept[f] = sent[f]
    /\ \A f \in ChatFiles \ {"actions.yaml"} : sent[f].is = "good" => Has(kept, f)
    /\ sent["stray"].is # "good"

RoundsInv == CarriesTheNewest /\ SettledIsValid /\ NewestGoodBlockSettles /\ LastProseSettles

LEMMA RoundsStart == ChatInit => RoundsInv
BY DEF ChatInit, RoundsInv, CarriesTheNewest, SettledIsValid, NewestGoodBlockSettles,
       LastProseSettles, Nothing, NoAnswer, Has, Names, ChatFiles

LEMMA NothingIsGood == Bad(Nothing) = {} /\ \A f \in Names : ~ Has(Nothing, f)
BY DEF Bad, Nothing, NoAnswer, Names, Conflict, TooEarly, Has

\* The validator drops nothing good but an action in bad company.
LEMMA GoodStays ==
  ASSUME NEW b, DOMAIN b = Names
  PROVE  /\ DOMAIN Good(b) = Names
         /\ \A f \in Names : Has(Good(b), f) => Good(b)[f] = b[f]
         /\ \A f \in ChatFiles \ {"actions.yaml"} : b[f].is = "good" => Good(b)[f] = b[f]
BY DEF Good, Bad, Has, ChatFiles, Names

\* What a response of this round offers, under a name the chat knows or none.
LEMMA ResponseFits ==
  ASSUME NEW b \in Responses
  PROVE  /\ DOMAIN b = Names /\ b["stray"].is # "good"
         /\ \A f \in Names : b[f].is = "good" => Has(b, f)
<1>1. PICK is \in ReplyKinds : b = Offered(is)
  BY DEF Responses
<1>2. is["stray"] \in {"none", "bad"}
  BY <1>1 DEF ReplyKinds, Names, Kinds
<1> QED
  BY <1>1, <1>2 DEF Offered, NoAnswer, Names, Has

\* A set of the newest blocks settles as it is.
LEMMA SettleFitsRounds ==
  ASSUME NEW blocks, NEW prose, Settle(blocks, prose), Bad(blocks) = {}, CarriesTheNewest',
         prose = spoke' \/ (blocks = Nothing /\ prose = 0),
         \A f \in Names : Has(blocks, f) => blocks[f] = sent'[f],
         \A f \in Names \ {"actions.yaml"} : sent'[f].is = "good" => Has(blocks, f)
  PROVE  RoundsInv'
BY DEF Settle, RoundsInv, SettledIsValid, NewestGoodBlockSettles, LastProseSettles

LEMMA ProseKeeps == ASSUME RoundsInv, ProseOnly PROVE RoundsInv'
<1>1. PICK prose \in BOOLEAN :
        /\ outcome = "asking"
        /\ answer' = IF prose THEN round ELSE answer
        /\ spoke' = IF prose THEN round ELSE spoke
        /\ IF kept = Nothing
              THEN Settle(Nothing, IF prose THEN round ELSE 0) /\ UNCHANGED <<round, kept>>
              ELSE IF Bad(kept) = {}
                   THEN Settle(kept, answer') /\ UNCHANGED <<round, kept>>
                   ELSE AskAgain /\ kept' = Good(kept) /\ UNCHANGED payload
        /\ UNCHANGED sent
  BY DEF ProseOnly
<1>2. answer' = spoke'
  BY <1>1 DEF RoundsInv, CarriesTheNewest
<1>3. CASE kept' = kept
  <2>1. CarriesTheNewest'
    BY <1>1, <1>2, <1>3 DEF RoundsInv, CarriesTheNewest, Has
  <2>2. \A f \in Names \ {"actions.yaml"} : sent'[f].is = "good" => Has(kept, f)
    BY <1>1 DEF RoundsInv, CarriesTheNewest, Names, ChatFiles
  <2>3. \A f \in Names : Has(kept, f) => kept[f] = sent'[f]
    BY <1>1 DEF RoundsInv, CarriesTheNewest
  <2>4. CASE kept = Nothing
    <3>1. Settle(kept, IF prose THEN round ELSE 0)
      BY <1>1, <2>4
    <3>2. (IF prose THEN round ELSE 0) = spoke' \/ (IF prose THEN round ELSE 0) = 0
      BY <1>1
    <3> QED
      BY <2>1, <2>2, <2>3, <2>4, <3>1, <3>2, NothingIsGood, SettleFitsRounds
  <2>5. CASE kept # Nothing /\ Bad(kept) = {}
    BY <1>1, <1>2, <2>1, <2>2, <2>3, <2>5, SettleFitsRounds
  <2>6. CASE kept # Nothing /\ Bad(kept) # {}
    BY <1>1, <2>1, <2>6 DEF AskAgain, RoundsInv, SettledIsValid, NewestGoodBlockSettles,
                            LastProseSettles
  <2> QED
    BY <2>4, <2>5, <2>6
<1>4. CASE AskAgain /\ kept' = Good(kept) /\ UNCHANGED payload
  <2>1. CarriesTheNewest'
    BY <1>1, <1>2, <1>4, GoodStays DEF RoundsInv, CarriesTheNewest, Has, Names, ChatFiles
  <2> QED
    BY <1>4, <2>1 DEF AskAgain, RoundsInv, SettledIsValid, NewestGoodBlockSettles,
                      LastProseSettles
<1> QED
  BY <1>1, <1>3, <1>4

LEMMA BlocksKeep == ASSUME RoundsInv, WithBlocks PROVE RoundsInv'
<1>1. PICK b \in Responses, prose \in BOOLEAN :
        /\ answer' = IF prose THEN round ELSE answer
        /\ spoke' = IF prose THEN round ELSE spoke
        /\ sent' = Merge(sent, b)
        /\ IF Bad(Judged(b)) = {}
              THEN Settle(Merge(kept, b), answer') /\ kept' = Merge(kept, b) /\ UNCHANGED round
              ELSE AskAgain /\ kept' = Good(Merge(kept, b)) /\ UNCHANGED payload
  BY DEF WithBlocks
<1> DEFINE m == Merge(kept, b)
<1>2. answer' = spoke'
  BY <1>1 DEF RoundsInv, CarriesTheNewest
<1>3. DOMAIN m = Names /\ DOMAIN sent' = Names /\ sent'["stray"].is # "good"
  BY <1>1, ResponseFits DEF RoundsInv, CarriesTheNewest, Merge, Names
<1>4. /\ \A f \in Names : Has(m, f) => m[f] = sent'[f]
      /\ \A f \in Names \ {"actions.yaml"} : sent'[f].is = "good" => Has(m, f)
  BY <1>1, <1>3, ResponseFits DEF RoundsInv, CarriesTheNewest, Merge, Has, Names, ChatFiles
<1> HIDE DEF m
<1>5. CASE Bad(m) = {}
  <2>1. Settle(m, answer') /\ kept' = m
    BY <1>1, <1>5 DEF m, Judged
  <2>2. CarriesTheNewest'
    BY <1>2, <1>3, <1>4, <2>1 DEF CarriesTheNewest, Has, Names, ChatFiles
  <2> QED
    BY <1>2, <1>4, <1>5, <2>1, <2>2, SettleFitsRounds
<1>6. CASE Bad(m) # {}
  <2>1. AskAgain /\ kept' = Good(m) /\ UNCHANGED payload
    BY <1>1, <1>6 DEF m, Judged
  <2>2. CarriesTheNewest'
    BY <1>2, <1>3, <1>4, <2>1, GoodStays DEF CarriesTheNewest, Has, Names, ChatFiles, NoAnswer
  <2> QED
    BY <2>1, <2>2 DEF AskAgain, RoundsInv, SettledIsValid, NewestGoodBlockSettles,
                      LastProseSettles
<1> QED
  BY <1>5, <1>6

LEMMA RoundsKeep == RoundsInv /\ [ChatNext]_chatVars => RoundsInv'
<1> SUFFICES ASSUME RoundsInv, [ChatNext]_chatVars PROVE RoundsInv' OBVIOUS
<1>1. CASE Malformed \/ Blocked \/ Diagnose \/ Cancel \/ UNCHANGED chatVars
  <2>1. /\ UNCHANGED <<kept, answer, payload, sent, spoke>>
        /\ outcome' = "done" => outcome = "done"
    BY <1>1 DEF Malformed, AskAgain, Blocked, Diagnose, Cancel, chatVars
  <2> QED
    BY <2>1 DEF RoundsInv, CarriesTheNewest, SettledIsValid, NewestGoodBlockSettles,
                LastProseSettles
<1> QED
  BY <1>1, ProseKeeps, BlocksKeep DEF ChatNext

-----------------------------------------------------------------------------
(***************************************************************************)
(* The stream scanner.  A match is settled once another line has begun after   *)
(* the blank lines behind it: only the last of them can still change, and a    *)
(* match that appears later lies in a line that had not ended, which the        *)
(* window reaches.                                                         *)
(***************************************************************************)
LEMMA LeastPlace == ASSUME NEW S, S \subseteq Nat, S # {} PROVE \E n \in S : \A j \in S : n <= j
<1> DEFINE T == {0..n : n \in S}
<1>1. IsWellFoundedOn(StrictSubsetOrdering(Nat), FiniteSubsetsOf(Nat))
    BY FS_StrictSubsetOrderingWellFounded
<1>2. T \subseteq FiniteSubsetsOf(Nat)
  <2> SUFFICES ASSUME NEW n \in S PROVE 0..n \in FiniteSubsetsOf(Nat) OBVIOUS
  <2>1. n \in Int /\ 0 \in Int /\ 0..n \subseteq Nat
      OBVIOUS
  <2>2. IsFiniteSet(0..n)
      BY <2>1, FS_Interval
  <2> QED BY <2>1, <2>2 DEF FiniteSubsetsOf
<1>3. T # {}
    OBVIOUS
<1>4. PICK x \in T : \A y \in T : ~(<<y, x>> \in StrictSubsetOrdering(Nat))
    <2> HIDE DEF T
    <2> QED BY <1>1, <1>2, <1>3, WFMin
<1>5. PICK n \in S : x = 0..n
    BY <1>4
<1>6. ASSUME NEW j \in S, j < n PROVE FALSE
  <2>1. 0..j \subseteq 0..n /\ 0..j # 0..n /\ 0..j \subseteq Nat /\ 0..n \subseteq Nat
      BY <1>6
  <2>2. <<0..j, 0..n>> \in StrictSubsetOrdering(Nat)
      BY <2>1 DEF StrictSubsetOrdering
  <2> QED BY <1>4, <1>5, <2>2
<1> QED BY <1>6

Texts == Seq(Tokens)
Blank(t, a, b) == \A k \in a..b : t[k] = "newline"
Solid(t, a, b) == \A k \in a..b : t[k] # "newline"
EndsAt(t, i, e) == e \in i..Len(t) /\ Solid(t, i, e) /\ (e = Len(t) \/ t[e + 1] = "newline")
Touches(t, i) == Blank(t, LineEnd(t, i) + 1, Len(t))
Goes(s, t) == /\ s \in Texts /\ t \in Texts /\ Len(s) <= Len(t)
              /\ \A k \in 1..Len(s) : t[k] = s[k]

LEMMA TextIs == ASSUME NEW t \in Texts PROVE Len(t) \in Nat /\ DOMAIN t = 1..Len(t)
  BY DEF Texts

LEMMA LineEnds ==
  ASSUME NEW t \in Texts, NEW i \in 1..Len(t), t[i] # "newline"
  PROVE  EndsAt(t, i, LineEnd(t, i)) /\ \A e : EndsAt(t, i, e) => e = LineEnd(t, i)
<1>1. Len(t) \in Nat
    BY TextIs
<1> DEFINE S == {k \in i..Len(t) : k = Len(t) \/ t[k + 1] = "newline"}
<1>2. PICK n \in S : \A j \in S : n <= j
  <2>1. S \subseteq Nat /\ Len(t) \in S
      BY <1>1
  <2> HIDE DEF S
  <2> QED BY <2>1, LeastPlace
<1>3. Solid(t, i, n)
  <2> SUFFICES ASSUME NEW k \in i..n, t[k] = "newline" PROVE FALSE
      BY DEF Solid
  <2>1. k - 1 \in i..Len(t) /\ (k - 1) + 1 = k /\ k - 1 < n
      BY <1>1
  <2>2. k - 1 \in S /\ n \in i..Len(t)
      BY <2>1
  <2> HIDE DEF S
  <2>3. n <= k - 1
      BY <1>2, <2>2
  <2> QED BY <1>1, <2>1, <2>2, <2>3
<1>4. EndsAt(t, i, n)
    BY <1>3 DEF EndsAt
<1>5. ASSUME NEW e, NEW f, EndsAt(t, i, e), EndsAt(t, i, f) PROVE e = f
  <2>1. e \in i..Len(t) /\ f \in i..Len(t)
      BY <1>5 DEF EndsAt
  <2>2. ~(e < f)
    <3> SUFFICES ASSUME e < f PROVE FALSE
        OBVIOUS
    <3>1. e + 1 \in i..f /\ e # Len(t)
        BY <1>1, <2>1
    <3> QED BY <1>5, <3>1 DEF EndsAt, Solid
  <2>3. ~(f < e)
    <3> SUFFICES ASSUME f < e PROVE FALSE
        OBVIOUS
    <3>1. f + 1 \in i..e /\ f # Len(t)
        BY <1>1, <2>1
    <3> QED BY <1>5, <3>1 DEF EndsAt, Solid
  <2> QED BY <1>1, <2>1, <2>2, <2>3
<1>6. LineEnd(t, i) = CHOOSE e \in i..Len(t) : EndsAt(t, i, e)
  <2>1. \A e \in i..Len(t) : EndsAt(t, i, e) <=> ((e = Len(t) \/ t[e + 1] = "newline")
                                                   /\ \A k \in i..e : t[k] # "newline")
      BY DEF EndsAt, Solid
  <2> QED BY <2>1 DEF LineEnd
<1>7. EndsAt(t, i, LineEnd(t, i))
    BY <1>4, <1>6
<1> QED BY <1>5, <1>7

LEMMA MatchEnds ==
  ASSUME NEW t \in Texts, NEW i \in 1..Len(t), t[i] # "newline", NEW e, e = LineEnd(t, i)
  PROVE  /\ Touches(t, i) => MatchEnd(t, i) = Len(t) + 1
         /\ \A x \in e + 1..Len(t) - 1 : Blank(t, e + 1, x) /\ t[x + 1] # "newline" => MatchEnd(t, i) = x
         /\ ~Touches(t, i) => \E x \in e + 1..Len(t) - 1 : Blank(t, e + 1, x) /\ t[x + 1] # "newline"
<1>1. Len(t) \in Nat /\ e \in i..Len(t) /\ EndsAt(t, i, e)
    BY TextIs, LineEnds DEF EndsAt
<1> DEFINE run == {k \in e + 1..Len(t) : \A n \in e + 1..k : t[n] = "newline"}
<1>2. MatchEnd(t, i) = IF run = {} THEN e + 1 ELSE IF Max(run) = Len(t) THEN Len(t) + 1 ELSE Max(run)
    BY DEF MatchEnd
<1>3. \A a, b \in Nat : a <= b => Max(a..b) = b
  <2> SUFFICES ASSUME NEW a \in Nat, NEW b \in Nat, a <= b PROVE Max(a..b) = b
      OBVIOUS
  <2> QED BY DEF Max
<1>4. ASSUME Touches(t, i) PROVE MatchEnd(t, i) = Len(t) + 1
  <2>1. \A n \in e + 1..Len(t) : t[n] = "newline"
      BY <1>4 DEF Touches, Blank
  <2>2. run = e + 1..Len(t)
      BY <1>1, <2>1
  <2>3. CASE e = Len(t)
      BY <1>1, <1>2, <2>2, <2>3
  <2>4. CASE e < Len(t)
    <3>1. e + 1 \in Nat /\ e + 1 <= Len(t) /\ Len(t) \in e + 1..Len(t)
        BY <1>1, <2>4
    <3>2. Max(e + 1..Len(t)) = Len(t)
        BY <1>1, <1>3, <3>1
    <3> HIDE DEF run
    <3> QED BY <1>2, <2>2, <3>1, <3>2
  <2> QED BY <1>1, <2>3, <2>4
<1>5. ASSUME NEW x \in e + 1..Len(t) - 1, Blank(t, e + 1, x), t[x + 1] # "newline" PROVE MatchEnd(t, i) = x
  <2>1. run = e + 1..x
      BY <1>1, <1>5 DEF Blank
  <2>2. e + 1 \in Nat /\ x \in Nat /\ e + 1 <= x /\ x \in e + 1..x /\ x # Len(t)
      BY <1>1
  <2>3. Max(e + 1..x) = x
      BY <1>3, <2>2
  <2> HIDE DEF run
  <2> QED BY <1>2, <2>1, <2>2, <2>3
<1>6. ASSUME ~Touches(t, i)
      PROVE  \E x \in e + 1..Len(t) - 1 : Blank(t, e + 1, x) /\ t[x + 1] # "newline"
  <2> DEFINE S == {k \in e + 1..Len(t) : t[k] # "newline"}
  <2>1. PICK n \in S : \A j \in S : n <= j
    <3>1. S \subseteq Nat /\ S # {}
        BY <1>1, <1>6 DEF Touches, Blank
    <3> HIDE DEF S
    <3> QED BY <3>1, LeastPlace
  <2>2. e # Len(t) /\ t[e + 1] = "newline"
      BY <1>1, <2>1 DEF EndsAt
  <2>3. n - 1 \in e + 1..Len(t) - 1 /\ (n - 1) + 1 = n
      BY <1>1, <2>1, <2>2
  <2>4. Blank(t, e + 1, n - 1)
    <3> SUFFICES ASSUME NEW k \in e + 1..n - 1, t[k] # "newline" PROVE FALSE
        BY DEF Blank
    <3>1. k \in S /\ k < n
        BY <1>1, <2>1, <2>3
    <3> QED BY <1>1, <2>1, <3>1
  <2> QED BY <2>1, <2>3, <2>4
<1> QED BY <1>4, <1>5, <1>6

\* A match with another line behind it is what it stays.
LEMMA MatchSettles ==
  ASSUME NEW s, NEW t, Goes(s, t), NEW i \in 1..Len(s), s[i] # "newline", ~Touches(s, i)
  PROVE  LineEnd(t, i) = LineEnd(s, i) /\ MatchEnd(t, i) = MatchEnd(s, i)
         /\ (Matches(t, i) <=> Matches(s, i)) /\ MatchEnd(s, i) <= Len(s)
<1> DEFINE e == LineEnd(s, i)
<1>1. /\ s \in Texts /\ t \in Texts /\ Len(s) \in Nat /\ Len(t) \in Nat /\ Len(s) <= Len(t)
      /\ DOMAIN s = 1..Len(s) /\ DOMAIN t = 1..Len(t) /\ \A k \in 1..Len(s) : t[k] = s[k]
    BY TextIs DEF Goes
<1>0. Len(s) \in Nat /\ Len(t) \in Nat /\ Len(s) <= Len(t) /\ i \in 1..Len(s)
    BY <1>1
<1>2. i \in 1..Len(t) /\ t[i] # "newline"
    BY <1>1
<1>3. EndsAt(s, i, e)
    BY <1>1, LineEnds
<1>4. PICK x \in e + 1..Len(s) - 1 : Blank(s, e + 1, x) /\ s[x + 1] # "newline" /\ MatchEnd(s, i) = x
    BY <1>1, MatchEnds
<1> HIDE DEF e
<1>5. e \in i..Len(s) /\ e < Len(s) /\ e + 1 \in 1..Len(s) /\ s[e + 1] = "newline"
  <2>1. e \in i..Len(s) /\ (e = Len(s) \/ s[e + 1] = "newline")
      BY <1>3 DEF EndsAt
  <2>2. e < Len(s) /\ e + 1 \in 1..Len(s)
      BY <1>0, <1>4, <2>1
  <2> QED BY <2>1, <2>2
<1>6. EndsAt(t, i, e)
  <2>1. \A k \in i..e : k \in 1..Len(s) /\ t[k] # "newline"
    <3>1. \A k \in i..e : k \in 1..Len(s) /\ s[k] # "newline"
        BY <1>1, <1>3, <1>5 DEF EndsAt, Solid
    <3> QED BY <1>1, <3>1
  <2>2. e \in i..Len(t) /\ t[e + 1] = "newline"
      BY <1>1, <1>5
  <2> QED BY <2>1, <2>2 DEF EndsAt, Solid
<1>7. LineEnd(t, i) = e
    BY <1>1, <1>2, <1>6, LineEnds
<1>8. x \in e + 1..Len(t) - 1 /\ Blank(t, e + 1, x) /\ t[x + 1] # "newline"
  <2>1. x + 1 \in 1..Len(s) /\ \A k \in e + 1..x : k \in 1..Len(s)
      BY <1>1, <1>4, <1>5
  <2> QED BY <1>1, <1>4, <1>5, <2>1 DEF Blank
<1>9. MatchEnd(t, i) = x
    BY <1>1, <1>2, <1>7, <1>8, MatchEnds
<1>10. LineStart(t, i) <=> LineStart(s, i)
  <2>1. i = 1 \/ i - 1 \in 1..Len(s)
      BY <1>1
  <2> QED BY <1>1, <2>1 DEF LineStart
<1>11. t[i] = s[i] /\ t[e] = s[e]
    BY <1>1, <1>5
<1>12. x <= Len(s)
    BY <1>1, <1>4
<1> QED BY <1>1, <1>2, <1>4, <1>7, <1>9, <1>10, <1>11, <1>12 DEF e, Matches

\* One that is found anew stands in the line that had not ended.
LEMMA NewInLastLine ==
  ASSUME NEW s, NEW t, Goes(s, t), NEW i \in 1..Len(s), Matches(t, i), ~Matches(s, i)
  PROVE  Solid(s, i, Len(s))
<1> DEFINE e == LineEnd(s, i)
<1>1. /\ s \in Texts /\ t \in Texts /\ Len(s) \in Nat /\ Len(t) \in Nat /\ Len(s) <= Len(t)
      /\ DOMAIN s = 1..Len(s) /\ DOMAIN t = 1..Len(t) /\ \A k \in 1..Len(s) : t[k] = s[k]
    BY TextIs DEF Goes
<1>0. Len(s) \in Nat /\ Len(t) \in Nat /\ Len(s) <= Len(t) /\ i \in 1..Len(s)
    BY <1>1
<1>2. t[i] = "open" /\ LineStart(t, i) /\ t[LineEnd(t, i)] = "close"
    BY DEF Matches
<1>3. s[i] = "open" /\ i \in 1..Len(t)
    BY <1>1, <1>2
<1>4. LineStart(s, i)
  <2>1. i = 1 \/ i - 1 \in 1..Len(s)
      BY <1>1
  <2> QED BY <1>1, <1>2, <2>1 DEF LineStart
<1>5. EndsAt(s, i, e)
    BY <1>1, <1>3, LineEnds
<1> HIDE DEF e
<1>6. e \in i..Len(s) /\ e \in 1..Len(s) /\ (e = Len(s) \/ s[e + 1] = "newline")
  <2>1. e \in i..Len(s) /\ (e = Len(s) \/ s[e + 1] = "newline")
      BY <1>5 DEF EndsAt
  <2> QED BY <1>0, <2>1
<1>7. e = Len(s)
  <2> SUFFICES ASSUME e # Len(s) PROVE FALSE
      OBVIOUS
  <2>1. e + 1 \in 1..Len(s) /\ s[e + 1] = "newline"
      BY <1>0, <1>6
  <2>2. EndsAt(t, i, e)
    <3>1. \A k \in i..e : k \in 1..Len(s) /\ s[k] # "newline"
        BY <1>0, <1>5, <1>6 DEF EndsAt, Solid
    <3>2. \A k \in i..e : t[k] # "newline"
        BY <1>1, <3>1
    <3>3. e \in i..Len(t) /\ t[e + 1] = "newline"
      <4>1. e \in i..Len(t)
          BY <1>0, <1>6
      <4>2. t[e + 1] = s[e + 1]
          BY <1>1, <2>1
      <4> QED BY <2>1, <4>1, <4>2
    <3> QED BY <3>2, <3>3 DEF EndsAt, Solid
  <2>3. LineEnd(t, i) = e
      BY <1>1, <1>2, <1>3, <2>2, LineEnds
  <2>4. s[e] = "close"
      BY <1>1, <1>2, <1>6, <2>3
  <2> QED BY <1>1, <1>3, <1>4, <2>4 DEF Matches, e
<1> QED BY <1>5, <1>7 DEF EndsAt

LEMMA OnlyLastTouches ==
  ASSUME NEW t \in Texts, NEW i \in 1..Len(t), NEW j \in 1..Len(t), Matches(t, i), Matches(t, j), i < j
  PROVE  ~Touches(t, i)
<1> DEFINE e == LineEnd(t, i)
<1>1. Len(t) \in Nat /\ t[i] = "open" /\ t[j] = "open" /\ LineStart(t, j)
    BY TextIs DEF Matches
<1>2. EndsAt(t, i, e)
    BY <1>1, LineEnds
<1> HIDE DEF e
<1>3. t[j - 1] = "newline" /\ j - 1 \in i..Len(t)
    BY <1>1 DEF LineStart
<1>4. e \in i..Len(t) /\ e < j - 1
    BY <1>1, <1>2, <1>3 DEF EndsAt, Solid
<1>5. j \in e + 1..Len(t) /\ t[j] # "newline"
    BY <1>1, <1>4
<1> QED BY <1>5 DEF Touches, Blank, e

\* The marks of a text: one for every place, in order.
TextMarks == [at : Nat, to : Nat]
MarksFit(ms, t, A) ==
  /\ ms \in Seq(TextMarks)
  /\ \A k \in DOMAIN ms : ms[k].at \in A /\ ms[k] = Mark(t, ms[k].at)
  /\ \A i \in A : \E k \in DOMAIN ms : ms[k].at = i
  /\ \A j, k \in DOMAIN ms : j < k => ms[j].at < ms[k].at

LEMMA AppendedFit ==
  ASSUME NEW t \in Texts, NEW olds, NEW A, MarksFit(olds, t, A), A \subseteq 1..Len(t),
         NEW N, N \subseteq 1..Len(t), \A i \in N : Matches(t, i),
         \A a \in A, n \in N : a < n, NEW q \in InOrder(N)
  PROVE  MarksFit(olds \o [k \in DOMAIN q |-> Mark(t, q[k])], t, A \cup N)
<1> DEFINE more == [k \in DOMAIN q |-> Mark(t, q[k])]  ms == olds \o more  c == Cardinality(N)
<1>0. Len(t) \in Nat /\ Len(olds) \in Nat /\ DOMAIN olds = 1..Len(olds) /\ olds \in Seq(TextMarks)
    BY TextIs DEF MarksFit
<1>1. IsFiniteSet(N) /\ c \in Nat
  <2>1. IsFiniteSet(1..Len(t))
      BY <1>0, FS_Interval
  <2> QED BY <2>1, FS_Subset, FS_CardinalityType
<1> HIDE DEF c
<1>2. q \in [1..c -> N] /\ DOMAIN q = 1..c /\ \A i, j \in 1..c : i < j => q[i] < q[j]
    BY DEF InOrder, c
<1>3. \A n \in N : \E k \in 1..c : q[k] = n
  <2>1. \A i, j \in 1..c : q[i] = q[j] => i = j
    <3> SUFFICES ASSUME NEW i \in 1..c, NEW j \in 1..c, q[i] = q[j] PROVE i = j
        OBVIOUS
    <3>1. q[i] \in 1..Len(t)
        BY <1>2
    <3>2. ~(i < j) /\ ~(j < i)
        BY <1>0, <1>2, <3>1
    <3> QED BY <1>1, <3>2
  <2>2. q \in Injection(1..c, N)
      BY <1>2, <2>1 DEF Injection, IsInjective
  <2>3. Cardinality(1..c) = Cardinality(N)
    <3>1. Cardinality(1..c) = IF 1 > c THEN 0 ELSE c - 1 + 1
        BY <1>1, FS_Interval
    <3>2. (IF 1 > c THEN 0 ELSE c - 1 + 1) = c
        BY <1>1
    <3> QED BY <3>1, <3>2 DEF c
  <2>4. q \in Surjection(1..c, N)
      BY <1>1, <2>2, <2>3, FS_Injection
  <2> QED BY <2>4 DEF Surjection
<1>4. more \in Seq(TextMarks) /\ Len(more) = c /\ \A k \in 1..c : more[k] = Mark(t, q[k])
  <2>1. \A k \in 1..c : Mark(t, q[k]) \in TextMarks
    <3> SUFFICES ASSUME NEW k \in 1..c PROVE Mark(t, q[k]) \in TextMarks
        OBVIOUS
    <3>1. q[k] \in 1..Len(t) /\ t[q[k]] # "newline"
        BY <1>2 DEF Matches
    <3>2. MatchEnd(t, q[k]) \in Nat
      <4>1. EndsAt(t, q[k], LineEnd(t, q[k]))
          BY <3>1, LineEnds
      <4>2. LineEnd(t, q[k]) \in Nat
          BY <1>0, <3>1, <4>1 DEF EndsAt
      <4> QED BY <1>0, <3>1, <4>2, MatchEnds
    <3> QED BY <1>0, <3>1, <3>2 DEF Mark, TextMarks
  <2> QED BY <1>1, <1>2, <2>1
<1> HIDE DEF more
<1>5. /\ ms \in Seq(TextMarks) /\ Len(ms) = Len(olds) + c /\ DOMAIN ms = 1..Len(olds) + c
      /\ \A k \in 1..Len(olds) : ms[k] = olds[k]
      /\ \A k \in 1..c : ms[Len(olds) + k] = Mark(t, q[k])
    BY <1>0, <1>1, <1>4
<1> HIDE DEF ms
<1>6. \A k \in DOMAIN ms : k \in 1..Len(olds) \/ (k - Len(olds) \in 1..c /\ Len(olds) + (k - Len(olds)) = k)
    BY <1>0, <1>1, <1>5
<1>7. \A i : Mark(t, i).at = i
    BY DEF Mark
<1>8. \A k \in 1..Len(olds) : ms[k].at \in A /\ ms[k] = Mark(t, ms[k].at)
    BY <1>0, <1>5 DEF MarksFit
<1>9. \A k \in 1..c : ms[Len(olds) + k].at = q[k] /\ q[k] \in N /\ ms[Len(olds) + k] = Mark(t, q[k])
    BY <1>2, <1>5, <1>7
<1>10. \A k \in DOMAIN ms : ms[k].at \in A \cup N /\ ms[k] = Mark(t, ms[k].at)
    BY <1>6, <1>8, <1>9
<1>11. \A i \in A \cup N : \E k \in DOMAIN ms : ms[k].at = i
  <2>1. ASSUME NEW i \in A PROVE \E k \in DOMAIN ms : ms[k].at = i
    <3>1. PICK k \in DOMAIN olds : olds[k].at = i
        BY DEF MarksFit
    <3>2. k \in DOMAIN ms
        BY <1>0, <1>1, <1>5, <3>1
    <3> QED BY <1>0, <1>5, <3>1, <3>2
  <2>2. ASSUME NEW n \in N PROVE \E k \in DOMAIN ms : ms[k].at = n
    <3>1. PICK k \in 1..c : q[k] = n
        BY <1>3
    <3>2. Len(olds) + k \in DOMAIN ms
        BY <1>0, <1>1, <1>5
    <3> QED BY <1>9, <3>1, <3>2
  <2> QED BY <2>1, <2>2
<1>12. \A j, k \in DOMAIN ms : j < k => ms[j].at < ms[k].at
  <2> SUFFICES ASSUME NEW j \in DOMAIN ms, NEW k \in DOMAIN ms, j < k PROVE ms[j].at < ms[k].at
      OBVIOUS
  <2>1. CASE k \in 1..Len(olds)
    <3>1. j \in 1..Len(olds)
        BY <1>0, <1>1, <1>5, <2>1
    <3>2. olds[j].at < olds[k].at
        BY <1>0, <2>1, <3>1 DEF MarksFit
    <3> QED BY <1>5, <2>1, <3>1, <3>2
  <2>2. CASE j \in 1..Len(olds) /\ k \notin 1..Len(olds)
    <3>1. ms[j].at \in A /\ ms[k].at \in N
        BY <1>6, <1>8, <1>9, <2>2
    <3> QED BY <3>1
  <2>3. CASE j \notin 1..Len(olds) /\ k \notin 1..Len(olds)
    <3>1. /\ j - Len(olds) \in 1..c /\ Len(olds) + (j - Len(olds)) = j
          /\ k - Len(olds) \in 1..c /\ Len(olds) + (k - Len(olds)) = k
          /\ j - Len(olds) < k - Len(olds)
        BY <1>0, <1>1, <1>5, <1>6, <2>3
    <3>2. q[j - Len(olds)] < q[k - Len(olds)]
        BY <1>2, <3>1
    <3>3. ms[j].at = q[j - Len(olds)] /\ ms[k].at = q[k - Len(olds)]
        BY <1>9, <3>1
    <3> QED BY <3>2, <3>3
  <2> QED BY <2>1, <2>2, <2>3
<1>13. MarksFit(ms, t, A \cup N)
    BY <1>5, <1>10, <1>11, <1>12 DEF MarksFit
<1> QED BY <1>13 DEF ms, more

\* What is kept of the marks when the text goes on.
LEMMA KeptFit ==
  ASSUME NEW t, NEW ms, Goes(text, t), MarksFit(ms, text, Found(text, 1))
  PROVE  MarksFit(Reverify(t, ms), t, {i \in Found(text, 1) : Matches(t, i)})
<1> DEFINE F == Found(text, 1)  A == {i \in F : Matches(t, i)}  n == Len(ms)
<1>0. /\ text \in Texts /\ t \in Texts /\ Len(text) \in Nat /\ Len(t) \in Nat /\ Len(text) <= Len(t)
      /\ ms \in Seq(TextMarks) /\ n \in Nat /\ DOMAIN ms = 1..n
    BY TextIs DEF Goes, MarksFit
<1>1. \A i \in F : i \in 1..Len(text) /\ Matches(text, i) /\ text[i] # "newline"
    BY DEF Found, Matches
<1>2. /\ \A k \in 1..n : ms[k].at \in F /\ ms[k] = Mark(text, ms[k].at)
      /\ \A i \in F : \E k \in 1..n : ms[k].at = i
      /\ \A j, k \in 1..n : j < k => ms[j].at < ms[k].at
    BY <1>0 DEF MarksFit
<1>3. \A i \in F : ~Touches(text, i) => Matches(t, i) /\ Mark(t, i) = Mark(text, i)
    BY <1>1, MatchSettles DEF Mark
<1> HIDE DEF F, n
<1>4. CASE ms = <<>>
  <2>1. n = 0
      BY <1>4 DEF n
  <2>2. F = {}
      BY <1>2, <2>1
  <2> QED BY <1>0, <1>4, <2>1, <2>2 DEF Reverify, MarksFit, F
<1>5. CASE ms # <<>>
  <2>1. n > 0 /\ n \in 1..n /\ Last(ms) = ms[n]
      BY <1>0, <1>5 DEF n, Last
  <2> DEFINE z == ms[n].at
  <2>2. z \in F /\ ms[n] = Mark(text, z)
      BY <1>2, <2>1
  <2>3. \A i \in F : i # z => i < z /\ ~Touches(text, i)
    <3> SUFFICES ASSUME NEW i \in F, i # z PROVE i < z /\ ~Touches(text, i)
        OBVIOUS
    <3>1. PICK k \in 1..n : ms[k].at = i
        BY <1>2
    <3>2. k < n
        BY <1>0, <3>1
    <3>3. i < z
        BY <1>2, <2>1, <3>1, <3>2
    <3> QED BY <1>0, <1>1, <2>2, <3>3, OnlyLastTouches
  <2>4. ms[n].to = MatchEnd(text, z)
      BY <2>2 DEF Mark
  <2> HIDE DEF z
  <2>5. CASE ms[n].to <= Len(text)
    <3>1. ~Touches(text, z)
      <4> SUFFICES ASSUME Touches(text, z) PROVE FALSE
          OBVIOUS
      <4>1. MatchEnd(text, z) = Len(text) + 1
          BY <1>0, <1>1, <2>2, MatchEnds
      <4> QED BY <1>0, <2>4, <2>5, <4>1
    <3>2. \A i \in F : Matches(t, i) /\ Mark(t, i) = Mark(text, i)
        BY <1>3, <2>3, <3>1
    <3>3. A = F /\ Reverify(t, ms) = ms
        BY <2>1, <2>5, <3>2 DEF Reverify
    <3>4. \A k \in DOMAIN ms : ms[k].at \in F /\ ms[k] = Mark(t, ms[k].at)
        BY <1>0, <1>2, <3>2
    <3>5. MarksFit(ms, t, F)
        BY <1>0, <1>2, <3>4 DEF MarksFit
    <3> QED BY <3>3, <3>5 DEF F
  <2>6. CASE ~(ms[n].to <= Len(text))
    <3> DEFINE front == Front(ms)
    <3>1. /\ front \in Seq(TextMarks) /\ Len(front) = n - 1 /\ DOMAIN front = 1..n - 1
          /\ \A k \in 1..n - 1 : front[k] = ms[k]
        BY <1>0, <2>1 DEF Front, n
    <3> HIDE DEF front
    <3>2. \A k \in 1..n - 1 : /\ k \in 1..n /\ front[k].at = ms[k].at
                              /\ front[k].at \in F \ {z} /\ front[k] = Mark(t, front[k].at)
      <4> SUFFICES ASSUME NEW k \in 1..n - 1
                   PROVE  /\ k \in 1..n /\ front[k].at = ms[k].at
                          /\ front[k].at \in F \ {z} /\ front[k] = Mark(t, front[k].at)
          OBVIOUS
      <4>1. k \in 1..n /\ k < n
          BY <1>0
      <4>2. ms[k].at \in F /\ ms[k] = Mark(text, ms[k].at) /\ ms[k].at < z
          BY <1>2, <2>1, <4>1 DEF z
      <4>3. z \in Nat
          BY <1>0, <1>1, <2>2
      <4>4. ms[k].at # z
          BY <4>2, <4>3
      <4>5. Mark(t, ms[k].at) = Mark(text, ms[k].at)
          BY <1>3, <2>3, <4>2, <4>4
      <4> QED BY <3>1, <4>1, <4>2, <4>4, <4>5
    <3>3. \A i \in F \ {z} : \E k \in 1..n - 1 : front[k].at = i
      <4> SUFFICES ASSUME NEW i \in F \ {z} PROVE \E k \in 1..n - 1 : front[k].at = i
          OBVIOUS
      <4>1. PICK k \in 1..n : ms[k].at = i
          BY <1>2
      <4>2. k \in 1..n - 1
          BY <1>0, <4>1 DEF z
      <4> QED BY <3>2, <4>1, <4>2
    <3>4. \A j, k \in 1..n - 1 : j < k => front[j].at < front[k].at
        BY <1>2, <3>2
    <3>5. Reverify(t, ms) = IF Matches(t, z) THEN Append(front, Mark(t, z)) ELSE front
        BY <1>5, <2>1, <2>6 DEF Reverify, front, z
    <3>6. \A i \in F \ {z} : Matches(t, i)
        BY <1>3, <2>3
    <3>7. CASE ~Matches(t, z)
      <4>1. A = F \ {z} /\ Reverify(t, ms) = front
          BY <2>2, <3>5, <3>6, <3>7
      <4>2. MarksFit(front, t, F \ {z})
          BY <3>1, <3>2, <3>3, <3>4 DEF MarksFit
      <4> QED BY <4>1, <4>2 DEF F
    <3>8. CASE Matches(t, z)
      <4> DEFINE more == Append(front, Mark(t, z))
      <4>1. A = F /\ Reverify(t, ms) = more
          BY <2>2, <3>5, <3>6, <3>8
      <4>2. Mark(t, z) \in TextMarks /\ Mark(t, z).at = z
        <5>1. z \in 1..Len(t) /\ t[z] # "newline" /\ z \in Nat
            BY <1>0, <1>1, <2>2, <3>8 DEF Matches
        <5>2. EndsAt(t, z, LineEnd(t, z))
            BY <1>0, <5>1, LineEnds
        <5>3. LineEnd(t, z) \in Nat
            BY <1>0, <5>1, <5>2 DEF EndsAt
        <5>4. MatchEnd(t, z) \in Nat
            BY <1>0, <5>1, <5>3, MatchEnds
        <5> QED BY <5>1, <5>4 DEF Mark, TextMarks
      <4>3. /\ more \in Seq(TextMarks) /\ DOMAIN more = 1..n /\ more[n] = Mark(t, z)
            /\ \A k \in 1..n - 1 : more[k] = front[k]
        <5>1. /\ more \in Seq(TextMarks) /\ Len(more) = n /\ more[n] = Mark(t, z)
              /\ \A k \in 1..n - 1 : more[k] = front[k]
            BY <1>0, <3>1, <4>2
        <5> QED BY <5>1
      <4> HIDE DEF more
      <4>4. \A k \in 1..n : k = n \/ k \in 1..n - 1
          BY <1>0
      <4>5. \A k \in 1..n : more[k].at = ms[k].at /\ more[k].at \in F /\ more[k] = Mark(t, more[k].at)
          BY <2>1, <2>2, <3>2, <4>2, <4>3, <4>4 DEF z
      <4>6. MarksFit(more, t, F)
          BY <1>2, <4>3, <4>5 DEF MarksFit
      <4> QED BY <4>1, <4>6 DEF F
    <3> QED BY <3>7, <3>8
  <2> QED BY <2>5, <2>6
<1> QED BY <1>4, <1>5

ScanInv ==
  /\ text \in Texts /\ MarksFit(marks, text, Found(text, 1))
  /\ tailStart \in 1..Len(text) + 1 /\ LineStart(text, tailStart)

LEMMA ScanGives == ScanInv => ScanAgrees
<1> SUFFICES ASSUME ScanInv PROVE ScanAgrees OBVIOUS
<1>1. MarksFit(marks, text, Found(text, 1))
    BY DEF ScanInv
<1>2. ToSet(marks) = {marks[k] : k \in DOMAIN marks}
    BY DEF ToSet
<1>3. ASSUME NEW i \in Found(text, 1) PROVE Mark(text, i) \in ToSet(marks)
  <2>1. PICK k \in DOMAIN marks : marks[k].at = i
      BY <1>1 DEF MarksFit
  <2>2. marks[k] = Mark(text, i)
      BY <1>1, <2>1 DEF MarksFit
  <2> QED BY <1>2, <2>2
<1>4. \A k \in DOMAIN marks : marks[k] \in {Mark(text, i) : i \in Found(text, 1)}
    BY <1>1 DEF MarksFit
<1>5. \A j, k \in DOMAIN marks : j < k => marks[j].at < marks[k].at
    BY <1>1 DEF MarksFit
<1> QED BY <1>2, <1>3, <1>4, <1>5 DEF ScanAgrees

LEMMA ScanStarts == ScanInit => ScanInv
<1> SUFFICES ASSUME ScanInit PROVE ScanInv OBVIOUS
<1>1. text = <<>> /\ marks = <<>> /\ tailStart = 1
    BY DEF ScanInit
<1>2. text \in Texts /\ Len(text) = 0 /\ marks \in Seq(TextMarks) /\ DOMAIN marks = {}
    BY <1>1 DEF Texts
<1>3. Found(text, 1) = {}
    BY <1>2 DEF Found
<1>4. MarksFit(marks, text, Found(text, 1))
    BY <1>2, <1>3 DEF MarksFit
<1> QED BY <1>1, <1>2, <1>4 DEF ScanInv, LineStart

\* The window begins at the start of a line, no later than that of a line which has not ended.
LEMMA WindowFits ==
  ASSUME ScanInv, NEW t, Goes(text, t), NEW w, w = WindowStart(t)
  PROVE  /\ w \in 1..Len(text) + 1 /\ LineStart(t, w)
         /\ \A i \in 1..Len(text) : Solid(text, i, Len(text)) => w <= i
<1>0. /\ text \in Texts /\ t \in Texts /\ tailStart \in 1..Len(text) + 1 /\ LineStart(text, tailStart)
      /\ \A k \in 1..Len(text) : t[k] = text[k]
    BY DEF ScanInv, Goes
<1>1. Len(text) \in Nat
    BY <1>0, TextIs
<1> DEFINE cut == IF Len(text) > Overlap THEN Len(text) - Overlap + 1 ELSE 1
           begins == {i \in tailStart..cut : LineStart(t, i)}
<1>2. cut \in 1..Len(text) + 1
    BY <1>1, ScanAssumption DEF ScanAssumption
<1>3. w = IF begins = {} THEN tailStart ELSE Max(begins)
    BY DEF WindowStart
<1> HIDE DEF cut
<1>4. begins # {} => Max(begins) \in begins
  <2> SUFFICES ASSUME begins # {} PROVE Max(begins) \in begins
      OBVIOUS
  <2> DEFINE back == {cut - i : i \in begins}
  <2>1. back \subseteq Nat /\ back # {}
      BY <1>0, <1>1, <1>2
  <2>2. PICK n \in back : \A j \in back : n <= j
    <3> HIDE DEF back
    <3> QED BY <2>1, LeastPlace
  <2>3. PICK x \in begins : n = cut - x
      BY <2>2
  <2>4. \A j \in begins : x >= j
    <3> SUFFICES ASSUME NEW j \in begins PROVE x >= j
        OBVIOUS
    <3>1. cut - x <= cut - j
        BY <2>2, <2>3
    <3>2. x \in tailStart..cut /\ j \in tailStart..cut
        BY <2>3
    <3> QED BY <1>0, <1>1, <1>2, <3>1, <3>2
  <2> HIDE DEF begins
  <2>5. \E y \in begins : \A j \in begins : y >= j
      BY <2>3, <2>4
  <2> QED BY <2>5 DEF Max
<1>5. w \in 1..Len(text) + 1 /\ LineStart(t, w)
  <2>1. CASE begins = {}
    <3>1. tailStart = 1 \/ tailStart - 1 \in 1..Len(text)
        BY <1>0, <1>1
    <3>2. LineStart(t, tailStart)
        BY <1>0, <3>1 DEF LineStart
    <3> QED BY <1>0, <1>3, <2>1, <3>2
  <2>2. CASE begins # {}
    <3>1. w \in tailStart..cut /\ LineStart(t, w)
        BY <1>3, <1>4, <2>2
    <3> QED BY <1>0, <1>1, <1>2, <3>1
  <2> QED BY <2>1, <2>2
<1>6. ASSUME NEW i \in 1..Len(text), Solid(text, i, Len(text)), i < w PROVE FALSE
  <2>1. w - 1 \in i..Len(text) /\ w - 1 \in 1..Len(text) /\ w # 1
      BY <1>1, <1>5, <1>6
  <2>2. text[w - 1] = "newline"
      BY <1>0, <1>5, <2>1 DEF LineStart
  <2> QED BY <1>6, <2>1, <2>2 DEF Solid
<1>7. \A i \in 1..Len(text) : Solid(text, i, Len(text)) => w <= i
    BY <1>1, <1>5, <1>6
<1> QED BY <1>5, <1>7

\* A line that has not ended begins after every match that has been seen.
LEMMA UnendedIsLast ==
  ASSUME text \in Texts, NEW i \in 1..Len(text), Solid(text, i, Len(text)),
         NEW j \in 1..Len(text), Matches(text, j)
  PROVE  j <= i
<1>1. Len(text) \in Nat
    BY TextIs
<1>2. SUFFICES ASSUME i < j PROVE FALSE
    BY <1>1
<1>3. j - 1 \in i..Len(text) /\ j # 1
    BY <1>1, <1>2
<1>4. text[j - 1] = "newline"
    BY <1>3 DEF Matches, LineStart
<1> QED BY <1>3, <1>4 DEF Solid

LEMMA FeedKeeps == ScanInv /\ Feed => ScanInv'
<1> SUFFICES ASSUME ScanInv, Feed PROVE ScanInv' OBVIOUS
<1>1. PICK n \in 1..MaxChunk, c \in [1..MaxChunk -> Tokens] :
        LET t == text \o SubSeq(c, 1, n)
            olds == Reverify(t, marks)
            start == IF olds = <<>> THEN 0 ELSE Last(olds).at
            new == {i \in Found(t, WindowStart(t)) : i > start}
        IN /\ text' = t
           /\ \E q \in InOrder(new) : marks' = olds \o [k \in DOMAIN q |-> Mark(t, q[k])]
           /\ tailStart' = WindowStart(t)
    BY DEF Feed
<1> DEFINE t == text \o SubSeq(c, 1, n)
           w == WindowStart(t)
           olds == Reverify(t, marks)
           start == IF olds = <<>> THEN 0 ELSE Last(olds).at
           new == {i \in Found(t, w) : i > start}
           A == {i \in Found(text, 1) : Matches(t, i)}
<1>2. /\ text' = t /\ tailStart' = w
      /\ \E q \in InOrder(new) : marks' = olds \o [k \in DOMAIN q |-> Mark(t, q[k])]
    BY <1>1
<1>3. Goes(text, t)
  <2> DEFINE b == SubSeq(c, 1, n)
  <2>1. b \in Texts /\ Len(b) \in Nat
    <3>1. n \in Int /\ 1 \in Int /\ \A i \in 1..n : c[i] \in Tokens
        BY ScanAssumption DEF ScanAssumption
    <3>2. b \in Seq(Tokens)
        BY <3>1, SubSeqProperties
    <3> QED BY <3>2, TextIs DEF Texts
  <2>2. text \in Texts /\ Len(text) \in Nat
      BY TextIs DEF ScanInv
  <2> HIDE DEF b
  <2>3. /\ text \o b \in Texts /\ Len(text \o b) = Len(text) + Len(b)
        /\ \A i \in 1..Len(text) : (text \o b)[i] = text[i]
    <3>1. /\ text \o b \in Seq(Tokens) /\ Len(text \o b) = Len(text) + Len(b)
          /\ \A i \in 1..Len(text) + Len(b) :
               (text \o b)[i] = IF i <= Len(text) THEN text[i] ELSE b[i - Len(text)]
        BY <2>1, <2>2, ConcatProperties DEF Texts
    <3>2. \A i \in 1..Len(text) : i \in 1..Len(text) + Len(b) /\ i <= Len(text)
        BY <2>1, <2>2
    <3> QED BY <3>1, <3>2 DEF Texts
  <2>4. Len(text) <= Len(text \o b)
      BY <2>1, <2>2, <2>3
  <2> QED BY <2>2, <2>3, <2>4 DEF Goes, b
<1> HIDE DEF t
<1>0. /\ text \in Texts /\ t \in Texts /\ Len(text) \in Nat /\ Len(t) \in Nat /\ Len(text) <= Len(t)
      /\ DOMAIN t = 1..Len(t)
    BY <1>3, TextIs DEF Goes
<1>4. /\ w \in 1..Len(text) + 1 /\ LineStart(t, w)
      /\ \A i \in 1..Len(text) : Solid(text, i, Len(text)) => w <= i
    BY <1>3, WindowFits
<1>5. MarksFit(olds, t, A)
    BY <1>3, KeptFit DEF ScanInv
<1> HIDE DEF w, olds
<1>6. A \subseteq 1..Len(t) /\ A \subseteq 1..Len(text) /\ (\A i \in A : Matches(text, i) /\ Matches(t, i))
    BY <1>0 DEF Found
<1> HIDE DEF A
<1>7. \A a \in A : a <= start
  <2>1. olds \in Seq(TextMarks) /\ DOMAIN olds = 1..Len(olds) /\ Len(olds) \in Nat
      BY <1>5 DEF MarksFit
  <2> SUFFICES ASSUME NEW a \in A PROVE a <= start
      OBVIOUS
  <2>2. PICK k \in DOMAIN olds : olds[k].at = a
      BY <1>5 DEF MarksFit
  <2>3. olds # <<>> /\ Len(olds) \in DOMAIN olds /\ Last(olds) = olds[Len(olds)]
      BY <2>1, <2>2 DEF Last
  <2>4. start = olds[Len(olds)].at
      BY <2>3
  <2>5. start \in A
      BY <1>5, <2>3, <2>4 DEF MarksFit
  <2> HIDE DEF start
  <2>6. a \in 1..Len(text) /\ start \in 1..Len(text)
      BY <1>6, <2>5
  <2>7. k = Len(olds) \/ k < Len(olds)
      BY <2>1, <2>2
  <2>8. k < Len(olds) => a < start
      BY <1>5, <2>2, <2>3, <2>4 DEF MarksFit
  <2> QED BY <1>0, <2>2, <2>4, <2>6, <2>7, <2>8
<1>8. start = 0 \/ start \in A
  <2> SUFFICES ASSUME olds # <<>> PROVE start \in A
      OBVIOUS
  <2>1. olds \in Seq(TextMarks) /\ DOMAIN olds = 1..Len(olds) /\ Len(olds) \in Nat
      BY <1>5 DEF MarksFit
  <2>2. Len(olds) \in DOMAIN olds /\ Last(olds) = olds[Len(olds)]
      BY <2>1 DEF Last
  <2> QED BY <1>5, <2>2 DEF MarksFit
<1> HIDE DEF start
<1>9. start \in 0..Len(text)
  <2>1. start = 0 \/ start \in 1..Len(text)
      BY <1>6, <1>8
  <2> QED BY <1>0, <2>1
<1>10. new \subseteq 1..Len(t) /\ (\A i \in new : Matches(t, i)) /\ \A a \in A, i \in new : a < i
  <2>1. \A i \in new : i \in w..Len(t) /\ i > start /\ Matches(t, i)
      BY DEF Found
  <2>2. \A i \in new : i \in 1..Len(t)
      BY <1>0, <1>4, <2>1
  <2>3. ASSUME NEW a \in A, NEW i \in new PROVE a < i
    <3>1. a <= start /\ a \in 1..Len(t) /\ i \in 1..Len(t) /\ i > start
        BY <1>6, <1>7, <2>1, <2>2
    <3> QED BY <1>0, <1>9, <3>1
  <2> QED BY <2>1, <2>2, <2>3
<1>11. A \cup new = Found(t, 1)
  <2>1. A \cup new \subseteq Found(t, 1)
      BY <1>6, <1>10 DEF Found
  <2>2. ASSUME NEW i \in Found(t, 1), i \notin A PROVE i \in new
    <3>1. i \in 1..Len(t) /\ Matches(t, i)
        BY <2>2 DEF Found
    <3>2. i > start /\ w <= i
      <4>1. CASE i \in 1..Len(text)
        <5>1. ~Matches(text, i)
          <6>1. Matches(text, i) => i \in Found(text, 1)
              BY <4>1 DEF Found
          <6> QED BY <2>2, <3>1, <6>1 DEF A
        <5>2. Solid(text, i, Len(text))
            BY <1>3, <3>1, <4>1, <5>1, NewInLastLine
        <5>3. start = 0 \/ (start \in 1..Len(text) /\ Matches(text, start))
            BY <1>6, <1>8
        <5>4. start = 0 \/ (start <= i /\ start # i)
            BY <1>0, <4>1, <5>1, <5>2, <5>3, UnendedIsLast
        <5>5. w <= i
            BY <1>4, <4>1, <5>2
        <5> QED BY <1>0, <1>9, <4>1, <5>4, <5>5
      <4>2. CASE i \notin 1..Len(text)
          BY <1>0, <1>4, <1>9, <3>1, <4>2
      <4> QED BY <4>1, <4>2
    <3>3. i \in w..Len(t)
        BY <1>0, <1>4, <3>1, <3>2
    <3> QED BY <3>1, <3>2, <3>3 DEF Found
  <2> QED BY <2>1, <2>2
<1>12. PICK q \in InOrder(new) : marks' = olds \o [k \in DOMAIN q |-> Mark(t, q[k])]
    BY <1>2
<1> HIDE DEF new
<1>13. MarksFit(marks', t, A \cup new)
    BY <1>0, <1>5, <1>6, <1>10, <1>12, AppendedFit
<1>14. MarksFit(marks', text', Found(text', 1))
    BY <1>2, <1>11, <1>13
<1>15. tailStart' \in 1..Len(t) + 1
    BY <1>0, <1>2, <1>4
<1> QED BY <1>0, <1>2, <1>4, <1>14, <1>15 DEF ScanInv

LEMMA ScanKeeps == ScanInv /\ [ScanNext]_scanVars => ScanInv'
  BY FeedKeeps DEF ScanNext, ScanInv, scanVars

-----------------------------------------------------------------------------
(***************************************************************************)
(* The reply.  Every marker line of the prose that is kept stands inside a     *)
(* code fence, and the fence the prose leaves open is closed, so that the       *)
(* first marker the readers see is that of the first document.               *)
(***************************************************************************)
Printed == Seq(Lines)
Plain == {"text", "fence"}
BodyLines == Plain \cup {"end"}   \* the lines of an unmarked document
Bodies == {NoneFound} \cup Seq(BodyLines)
Starts(s, t) == /\ s \in Printed /\ t \in Printed /\ Len(s) <= Len(t)
                /\ \A k \in 1..Len(s) : t[k] = s[k]

LEMMA PrintIs == ASSUME NEW s \in Printed PROVE Len(s) \in Nat /\ DOMAIN s = 1..Len(s) /\ s \in Seq(Lines)
  BY DEF Printed

LEMMA CountIs ==
  ASSUME NEW s \in Printed, NEW l PROVE IsFiniteSet({i \in DOMAIN s : s[i] = l}) /\ Count(s, l) \in Nat
<1>1. IsFiniteSet(DOMAIN s)
  <2>1. DOMAIN s = 1..Len(s) /\ 1 \in Int /\ Len(s) \in Int
      BY PrintIs
  <2> QED BY <2>1, FS_Interval
<1>2. {i \in DOMAIN s : s[i] = l} \subseteq DOMAIN s
    OBVIOUS
<1>3. IsFiniteSet({i \in DOMAIN s : s[i] = l})
    BY <1>1, <1>2, FS_Subset
<1> QED BY <1>3, FS_CardinalityType DEF Count

LEMMA CountMore ==
  ASSUME NEW s \in Printed, NEW l \in Lines PROVE Count(Append(s, l), l) = Count(s, l) + 1
<1> DEFINE t == Append(s, l)  S == {i \in DOMAIN s : s[i] = l}  n == Len(s) + 1
<1>1. /\ Len(s) \in Nat /\ DOMAIN s = 1..Len(s) /\ DOMAIN t = 1..n /\ t[n] = l
      /\ \A i \in 1..Len(s) : t[i] = s[i]
    BY PrintIs DEF Printed
<1> HIDE DEF t
<1>2. {i \in DOMAIN t : t[i] = l} = S \cup {n} /\ n \notin S
    BY <1>1
<1>3. IsFiniteSet(S)
    BY CountIs
<1> HIDE DEF S, n
<1>4. Cardinality(S \cup {n}) = Cardinality(S) + 1
    BY <1>2, <1>3, FS_AddElement
<1> QED BY <1>2, <1>4 DEF Count, S, t

LEMMA FencedSame ==
  ASSUME NEW s, NEW t, Starts(s, t)
  PROVE  /\ \A i \in 1..Len(s) : Fenced(t, i) <=> Fenced(s, i)
         /\ Fenced(t, Len(s) + 1) <=> LeftOpen(s)
<1>1. /\ s \in Seq(Lines) /\ t \in Seq(Lines) /\ Len(s) \in Nat /\ Len(t) \in Nat /\ Len(s) <= Len(t)
      /\ \A k \in 1..Len(s) : t[k] = s[k] /\ s[k] \in Lines
    BY PrintIs DEF Starts, Printed
<1> HIDE DEF Lines
<1>2. \A i \in 1..Len(s) + 1 : SubSeq(t, 1, i - 1) = SubSeq(s, 1, i - 1)
  <2> SUFFICES ASSUME NEW i \in 1..Len(s) + 1 PROVE SubSeq(t, 1, i - 1) = SubSeq(s, 1, i - 1)
      OBVIOUS
  <2> DEFINE a == SubSeq(s, 1, i - 1)  b == SubSeq(t, 1, i - 1)
  <2>1. 1 \in Int /\ i - 1 \in Int /\ i - 1 \in Nat /\ \A k \in 1..i - 1 : k \in 1..Len(s)
      BY <1>1
  <2>2. /\ a \in Seq(Lines) /\ Len(a) = IF 1 <= i - 1 THEN (i - 1) - 1 + 1 ELSE 0
        /\ \A k \in 1..(i - 1) - 1 + 1 : a[k] = s[1 + k - 1]
      BY <1>1, <2>1, SubSeqProperties
  <2>3. /\ b \in Seq(Lines) /\ Len(b) = IF 1 <= i - 1 THEN (i - 1) - 1 + 1 ELSE 0
        /\ \A k \in 1..(i - 1) - 1 + 1 : b[k] = t[1 + k - 1]
      BY <1>1, <2>1, SubSeqProperties
  <2> HIDE DEF a, b
  <2>4. Len(a) = Len(b) /\ Len(a) = i - 1
      BY <2>1, <2>2, <2>3
  <2>5. \A k \in 1..i - 1 : 1 + k - 1 = k /\ k \in 1..(i - 1) - 1 + 1
      BY <2>1
  <2>6. \A k \in 1..Len(a) : a[k] = b[k]
      BY <1>1, <2>1, <2>2, <2>3, <2>4, <2>5
  <2>7. a = b
      BY <2>2, <2>3, <2>4, <2>6, SeqEqual
  <2> QED BY <2>7 DEF a, b
<1>3. SubSeq(s, 1, Len(s)) = s /\ (Len(s) + 1) - 1 = Len(s)
    BY <1>1, SubSeqFull
<1>4. SubSeq(t, 1, (Len(s) + 1) - 1) = s
  <2>1. Len(s) + 1 \in 1..Len(s) + 1
      BY <1>1
  <2> QED BY <1>2, <1>3, <2>1
<1>5. \A i \in 1..Len(s) : i \in 1..Len(s) + 1
    BY <1>1
<1> QED BY <1>2, <1>4, <1>5 DEF Fenced, LeftOpen

LEMMA FirstIs ==
  ASSUME NEW S, S \subseteq Nat \ {0}
  PROVE  /\ First(S) = 0 <=> S = {}
         /\ S # {} => First(S) \in S /\ \A j \in S : First(S) <= j
         /\ \A m \in S : (\A j \in S : m <= j) => First(S) = m
<1>1. S # {} => Min(S) \in S /\ \A j \in S : Min(S) <= j
  <2> SUFFICES ASSUME S # {} PROVE Min(S) \in S /\ \A j \in S : Min(S) <= j
      OBVIOUS
  <2>1. \E n \in S : \A j \in S : n <= j
      BY LeastPlace
  <2> QED BY <2>1 DEF Min
<1>2. ASSUME NEW m \in S, \A j \in S : m <= j PROVE Min(S) = m
  <2>1. Min(S) \in S /\ Min(S) <= m /\ m <= Min(S)
      BY <1>1, <1>2
  <2>2. Min(S) \in Nat /\ m \in Nat
      BY <2>1
  <2> QED BY <2>1, <2>2
<1> QED BY <1>1, <1>2 DEF First

\* A line that stands outside every fence, and one that does not.
LEMMA OutsideIs ==
  ASSUME NEW s \in Printed, NEW M
  PROVE  /\ Outside(s, M) = 0 <=> \A i \in 1..Len(s) : s[i] \in M => Fenced(s, i)
         /\ Outside(s, M) # 0 => /\ Outside(s, M) \in 1..Len(s) /\ s[Outside(s, M)] \in M
                                 /\ ~Fenced(s, Outside(s, M))
         /\ \A i \in 1..Len(s) : s[i] \in M /\ ~Fenced(s, i) => Outside(s, M) <= i
         /\ \A m \in 1..Len(s) : /\ s[m] \in M /\ ~Fenced(s, m)
                                 /\ \A i \in 1..m - 1 : s[i] \in M => Fenced(s, i)
                                 => Outside(s, M) = m
<1> DEFINE S == {i \in DOMAIN s : s[i] \in M /\ ~Fenced(s, i)}
<1>1. Len(s) \in Nat /\ DOMAIN s = 1..Len(s)
    BY PrintIs
<1>2. S \subseteq Nat \ {0} /\ Outside(s, M) = First(S)
    BY <1>1 DEF Outside
<1>3. S = {} <=> \A i \in 1..Len(s) : s[i] \in M => Fenced(s, i)
    BY <1>1
<1>4. /\ First(S) = 0 <=> S = {}
      /\ S # {} => First(S) \in S /\ \A j \in S : First(S) <= j
      /\ \A m \in S : (\A j \in S : m <= j) => First(S) = m
  <2> HIDE DEF S
  <2> QED BY <1>2, FirstIs
<1>5. \A i : i \in S <=> i \in 1..Len(s) /\ s[i] \in M /\ ~Fenced(s, i)
    BY <1>1
<1> HIDE DEF S
<1>6. ASSUME NEW m \in 1..Len(s), s[m] \in M, ~Fenced(s, m),
             \A i \in 1..m - 1 : s[i] \in M => Fenced(s, i)
      PROVE  First(S) = m
  <2>1. m \in S
      BY <1>5, <1>6
  <2>2. ASSUME NEW j \in S PROVE m <= j
    <3>1. j \in 1..Len(s) /\ s[j] \in M /\ ~Fenced(s, j)
        BY <1>5
    <3>2. j \notin 1..m - 1
        BY <1>6, <3>1
    <3> QED BY <1>1, <3>1, <3>2
  <2> QED BY <1>4, <2>1, <2>2
<1> QED BY <1>2, <1>3, <1>4, <1>5, <1>6

\* A document stands from its marker to the next one, or to the end.
LEMMA BlockIs ==
  ASSUME NEW t \in Printed, NEW m \in 1..Len(t), NEW d \in Seq(Plain),
         m + Len(d) + 1 \in 1..Len(t), \A k \in 1..Len(d) : t[m + k] = d[k],
         t[m + Len(d) + 1] = "end" \/ t[m + Len(d) + 1] \in Files
  PROVE  Block(t, m) = StripFence(d)
<1> DEFINE n == Len(d)  e == m + n + 1
<1>1. Len(t) \in Nat /\ DOMAIN t = 1..Len(t) /\ n \in Nat /\ t \in Seq(Lines)
    BY PrintIs
<1>2. \A k \in 1..n : d[k] \in Plain
    OBVIOUS
<1>3. \A j \in m + 1..m + n : j - m \in 1..n /\ t[j] = d[j - m]
  <2> SUFFICES ASSUME NEW j \in m + 1..m + n PROVE j - m \in 1..n /\ t[j] = d[j - m]
      OBVIOUS
  <2>1. j - m \in 1..n /\ m + (j - m) = j
      BY <1>1
  <2> QED BY <2>1
<1> HIDE DEF n
<1>4. e \in Stops(t, m) /\ \A j \in Stops(t, m) : e <= j
  <2>1. e \in DOMAIN t /\ e > m
      BY <1>1 DEF n
  <2>2. e \in Stops(t, m)
      BY <2>1 DEF Stops, n
  <2>3. ASSUME NEW j \in Stops(t, m) PROVE e <= j
    <3>1. j \in 1..Len(t) /\ j > m /\ (t[j] = "end" \/ t[j] \in Files)
        BY <1>1 DEF Stops
    <3>2. j \notin m + 1..m + n
        BY <1>2, <1>3, <3>1 DEF Plain, Files
    <3> QED BY <1>1, <3>1, <3>2
  <2> QED BY <2>2, <2>3
<1>5. Min(Stops(t, m)) = e
  <2>1. Stops(t, m) \subseteq Nat
      BY <1>1 DEF Stops
  <2> HIDE DEF e
  <2>2. Min(Stops(t, m)) \in Stops(t, m) /\ \A j \in Stops(t, m) : Min(Stops(t, m)) <= j
      BY <1>4 DEF Min
  <2> QED BY <1>4, <2>1, <2>2
<1>6. SubSeq(t, m + 1, e - 1) = d
  <2> DEFINE b == SubSeq(t, m + 1, m + n)
  <2>1. m + 1 \in Int /\ m + n \in Int /\ \A i \in m + 1..m + n : t[i] \in Plain
      BY <1>1, <1>2, <1>3
  <2>2. /\ b \in Seq(Plain) /\ Len(b) = IF m + 1 <= m + n THEN (m + n) - (m + 1) + 1 ELSE 0
        /\ \A i \in 1..(m + n) - (m + 1) + 1 : b[i] = t[(m + 1) + i - 1]
      BY <2>1, SubSeqProperties
  <2> HIDE DEF b
  <2>3. Len(b) = n
      BY <1>1, <2>2
  <2>4. \A i \in 1..n : i \in 1..(m + n) - (m + 1) + 1 /\ (m + 1) + i - 1 = m + i
      BY <1>1
  <2>5. \A i \in 1..Len(b) : b[i] = d[i]
      BY <2>2, <2>3, <2>4 DEF n
  <2>6. b = d
      BY <2>2, <2>3, <2>5, SeqEqual DEF n
  <2>7. e - 1 = m + n
      BY <1>1
  <2> QED BY <2>6, <2>7 DEF b
<1> QED BY <1>5, <1>6 DEF Block

\* A document is cut before its first end line.
LEMMA CutIs ==
  ASSUME NEW d \in Seq(BodyLines)
  PROVE  /\ UpToEnd(d) \in Seq(Plain) /\ Len(UpToEnd(d)) \in Nat /\ Len(UpToEnd(d)) <= Len(d)
         /\ \A k \in 1..Len(UpToEnd(d)) : UpToEnd(d)[k] = d[k]
         /\ \/ Len(UpToEnd(d)) = Len(d)
            \/ Len(UpToEnd(d)) + 1 \in 1..Len(d) /\ d[Len(UpToEnd(d)) + 1] = "end"
<1> DEFINE E == {j \in DOMAIN d : j > 0 /\ d[j] = "end"}  e == First(E)
<1>1. Len(d) \in Nat /\ DOMAIN d = 1..Len(d) /\ \A k \in 1..Len(d) : d[k] \in BodyLines
    OBVIOUS
<1>2. UpToEnd(d) = IF e = 0 THEN d ELSE SubSeq(d, 1, e - 1)
    BY DEF UpToEnd, EndAfter
<1>3. E \subseteq Nat \ {0} /\ \A j : j \in E <=> j \in 1..Len(d) /\ d[j] = "end"
    BY <1>1
<1> HIDE DEF E
<1>4. /\ e = 0 <=> E = {}
      /\ E # {} => e \in E /\ \A j \in E : e <= j
    BY <1>3, FirstIs
<1> HIDE DEF e
<1>5. CASE e = 0
  <2>1. \A k \in 1..Len(d) : d[k] \in Plain
      BY <1>1, <1>3, <1>4, <1>5 DEF BodyLines
  <2>2. d \in Seq(Plain)
    <3> HIDE DEF Plain
    <3> QED BY <2>1, SeqDef
  <2> QED BY <1>1, <1>2, <1>5, <2>2
<1>6. CASE e # 0
  <2> DEFINE c == SubSeq(d, 1, e - 1)
  <2>1. e \in 1..Len(d) /\ d[e] = "end" /\ \A j \in 1..Len(d) : d[j] = "end" => e <= j
      BY <1>3, <1>4, <1>6
  <2>2. \A k \in 1..e - 1 : k \in 1..Len(d) /\ ~(e <= k)
      BY <1>1, <2>1
  <2>3. \A k \in 1..e - 1 : d[k] \in Plain
      BY <1>1, <2>1, <2>2 DEF BodyLines
  <2>4. 1 \in Int /\ e - 1 \in Int
      BY <2>1
  <2>5. /\ c \in Seq(Plain) /\ Len(c) = IF 1 <= e - 1 THEN (e - 1) - 1 + 1 ELSE 0
        /\ \A k \in 1..(e - 1) - 1 + 1 : c[k] = d[1 + k - 1]
    <3> HIDE DEF Plain
    <3> QED BY <2>3, <2>4, SubSeqProperties
  <2> HIDE DEF c
  <2>6. Len(c) = e - 1 /\ Len(c) \in Nat /\ Len(c) <= Len(d) /\ Len(c) + 1 = e
      BY <1>1, <2>1, <2>5
  <2>7. \A k \in 1..Len(c) : k \in 1..(e - 1) - 1 + 1 /\ 1 + k - 1 = k
      BY <2>1, <2>6
  <2>8. \A k \in 1..Len(c) : c[k] = d[k]
      BY <2>5, <2>7
  <2>9. UpToEnd(d) = c
      BY <1>2, <1>6 DEF c
  <2> QED BY <2>1, <2>5, <2>6, <2>8, <2>9
<1> QED BY <1>5, <1>6

-----------------------------------------------------------------------------
(* An envelope after some prose: the notes' frame, the spec's, the end line. *)
FrameOf(D, f) == IF D[f] = NoneFound THEN <<>> ELSE <<f>> \o D[f]
Laid(P, A, B, t) ==
    /\ P \in Printed /\ A \in Printed /\ B \in Printed /\ t \in Printed
    /\ Len(t) = Len(P) + Len(A) + Len(B) + 1
    /\ \A k \in 1..Len(P) : t[k] = P[k]
    /\ \A k \in 1..Len(A) : t[Len(P) + k] = A[k]
    /\ \A k \in 1..Len(B) : t[Len(P) + Len(A) + k] = B[k]
    /\ t[Len(t)] = "end"

LEMMA JoinIs ==
  ASSUME NEW s \in Printed, NEW t \in Printed
  PROVE  /\ s \o t \in Printed /\ Len(s \o t) = Len(s) + Len(t)
         /\ \A k \in 1..Len(s) : (s \o t)[k] = s[k]
         /\ \A k \in 1..Len(t) : (s \o t)[Len(s) + k] = t[k]
<1> DEFINE j == s \o t  a == Len(s)  b == Len(t)
<1>1. a \in Nat /\ b \in Nat /\ s \in Seq(Lines) /\ t \in Seq(Lines)
    BY PrintIs
<1>2. /\ j \in Seq(Lines) /\ Len(j) = a + b
      /\ \A i \in 1..a + b : j[i] = IF i <= a THEN s[i] ELSE t[i - a]
    BY <1>1, ConcatProperties
<1> HIDE DEF j, a, b
<1>3. /\ \A k \in 1..a : k \in 1..a + b /\ k <= a
      /\ \A k \in 1..b : a + k \in 1..a + b /\ ~(a + k <= a) /\ (a + k) - a = k
    BY <1>1
<1>4. \A k \in 1..a : j[k] = s[k]
    BY <1>2, <1>3
<1>5. \A k \in 1..b : j[a + k] = t[k]
    BY <1>2, <1>3
<1> QED BY <1>2, <1>4, <1>5 DEF Printed, j, a, b

LEMMA FrameIs ==
  ASSUME NEW D \in [Files -> Bodies], NEW f \in Files
  PROVE  /\ FrameOf(D, f) \in Printed
         /\ D[f] = NoneFound => Len(FrameOf(D, f)) = 0
         /\ D[f] # NoneFound =>
              /\ D[f] \in Seq(BodyLines) /\ Len(D[f]) \in Nat
              /\ Len(FrameOf(D, f)) = Len(D[f]) + 1 /\ FrameOf(D, f)[1] = f
              /\ \A k \in 1..Len(D[f]) : FrameOf(D, f)[k + 1] = D[f][k]
<1>1. CASE D[f] = NoneFound
  <2>1. FrameOf(D, f) = <<>> /\ <<>> \in Printed /\ Len(<<>>) = 0
      BY <1>1 DEF FrameOf, Printed
  <2> QED BY <1>1, <2>1
<1>2. CASE D[f] # NoneFound
  <2> DEFINE d == D[f]  o == <<f>>
  <2>1. d \in Seq(BodyLines) /\ FrameOf(D, f) = o \o d
      BY <1>2 DEF Bodies, FrameOf
  <2>2. Len(d) \in Nat /\ \A k \in 1..Len(d) : d[k] \in BodyLines
      BY <2>1
  <2>3. d \in Printed
    <3>1. BodyLines \subseteq Lines
        BY DEF BodyLines, Plain, Lines
    <3> QED BY <2>1, <3>1 DEF Printed
  <2>4. o \in Printed /\ Len(o) = 1 /\ o[1] = f
      BY DEF Printed, Lines
  <2> HIDE DEF d, o
  <2>5. /\ o \o d \in Printed /\ Len(o \o d) = Len(o) + Len(d)
        /\ \A k \in 1..Len(o) : (o \o d)[k] = o[k]
        /\ \A k \in 1..Len(d) : (o \o d)[Len(o) + k] = d[k]
      BY <2>3, <2>4, JoinIs
  <2>6. Len(o) + Len(d) = Len(d) + 1 /\ 1 \in 1..Len(o) /\ \A k \in 1..Len(d) : Len(o) + k = k + 1
      BY <2>2, <2>4
  <2>7. /\ Len(o \o d) = Len(d) + 1 /\ (o \o d)[1] = f
        /\ \A k \in 1..Len(d) : (o \o d)[k + 1] = d[k]
      BY <2>4, <2>5, <2>6
  <2> QED BY <1>2, <2>1, <2>2, <2>5, <2>7 DEF d
<1> QED BY <1>1, <1>2

LEMMA LaidIs ==
  ASSUME NEW P \in Printed, NEW A \in Printed, NEW B \in Printed
  PROVE  Laid(P, A, B, P \o A \o B \o <<"end">>)
<1> DEFINE u == P \o A  v == u \o B  t == v \o <<"end">>
<1>1. /\ u \in Printed /\ Len(u) = Len(P) + Len(A)
      /\ \A k \in 1..Len(P) : u[k] = P[k]
      /\ \A k \in 1..Len(A) : u[Len(P) + k] = A[k]
    BY JoinIs
<1> HIDE DEF u
<1>2. /\ v \in Printed /\ Len(v) = Len(u) + Len(B)
      /\ \A k \in 1..Len(u) : v[k] = u[k]
      /\ \A k \in 1..Len(B) : v[Len(u) + k] = B[k]
    BY <1>1, JoinIs
<1> HIDE DEF v
<1>3. <<"end">> \in Printed /\ Len(<<"end">>) = 1 /\ <<"end">>[1] = "end"
    BY DEF Printed, Lines
<1>4. /\ t \in Printed /\ Len(t) = Len(v) + 1
      /\ \A k \in 1..Len(v) : t[k] = v[k]
      /\ t[Len(v) + 1] = "end"
    BY <1>2, <1>3, JoinIs
<1> HIDE DEF t
<1>5. Len(P) \in Nat /\ Len(A) \in Nat /\ Len(B) \in Nat /\ Len(u) \in Nat /\ Len(v) \in Nat
    BY <1>1, <1>2, PrintIs
<1>6. /\ Len(v) = Len(P) + Len(A) + Len(B)
      /\ \A k \in 1..Len(P) : k \in 1..Len(u) /\ k \in 1..Len(v)
      /\ \A k \in 1..Len(A) : Len(P) + k \in 1..Len(u) /\ Len(P) + k \in 1..Len(v)
      /\ \A k \in 1..Len(B) : Len(u) + k \in 1..Len(v) /\ Len(u) + k = Len(P) + Len(A) + k
    BY <1>1, <1>2, <1>5
<1>7. \A k \in 1..Len(P) : t[k] = P[k]
    BY <1>1, <1>2, <1>4, <1>6
<1>8. \A k \in 1..Len(A) : t[Len(P) + k] = A[k]
    BY <1>1, <1>2, <1>4, <1>6
<1>9. \A k \in 1..Len(B) : t[Len(P) + Len(A) + k] = B[k]
    BY <1>1, <1>2, <1>4, <1>6
<1>10. Laid(P, A, B, t)
    BY <1>4, <1>6, <1>7, <1>8, <1>9 DEF Laid
<1> QED BY <1>10 DEF t, v, u

\* Where the documents of an envelope begin.
BeginsAt(P, D, f) ==
    IF f = "notes.md" THEN Len(P) + 1 ELSE Len(P) + Len(FrameOf(D, "notes.md")) + 1
Stands(t, m, f, d) ==
    /\ m \in 1..Len(t) /\ t[m] = f /\ m + Len(d) + 1 \in 1..Len(t)
    /\ \A k \in 1..Len(d) : t[m + k] = d[k]
    /\ t[m + Len(d) + 1] = "end" \/ t[m + Len(d) + 1] \in Files
Envelope(P, D, t) == Laid(P, FrameOf(D, "notes.md"), FrameOf(D, "spec.md"), t)

LEMMA EnvelopeStands ==
  ASSUME NEW P, NEW t, NEW D \in [Files -> Bodies], NEW f \in Files, Envelope(P, D, t), D[f] # NoneFound
  PROVE  BeginsAt(P, D, f) > Len(P) /\ Stands(t, BeginsAt(P, D, f), f, D[f])
<1> DEFINE A == FrameOf(D, "notes.md")  B == FrameOf(D, "spec.md")  d == D[f]
           p == Len(P)  a == Len(A)  b == Len(B)  n == Len(d)
<1>1. /\ p \in Nat /\ a \in Nat /\ b \in Nat /\ Len(t) = p + a + b + 1
      /\ \A k \in 1..a : t[p + k] = A[k]
      /\ \A k \in 1..b : t[p + a + k] = B[k]
      /\ t[Len(t)] = "end"
    BY PrintIs DEF Envelope, Laid
<1>2. Files = {"notes.md", "spec.md"} /\ "notes.md" \in Files /\ "spec.md" \in Files
    BY DEF Files
<1>3. CASE f = "notes.md"
  <2>1. /\ n \in Nat /\ a = n + 1 /\ A[1] = f
        /\ \A k \in 1..n : A[k + 1] = d[k]
      BY <1>2, <1>3, FrameIs
  <2> HIDE DEF A, B, d, p, a, b, n
  <2>2. /\ 1 \in 1..a /\ \A k \in 1..n : k + 1 \in 1..a /\ (p + 1) + k = p + (k + 1)
        /\ p + 1 \in 1..Len(t) /\ p + 1 > p /\ (p + 1) + n + 1 \in 1..Len(t)
      BY <1>1, <2>1
  <2>3. t[p + 1] = f /\ \A k \in 1..n : t[(p + 1) + k] = d[k]
      BY <1>1, <2>1, <2>2
  <2>4. t[(p + 1) + n + 1] = "end" \/ t[(p + 1) + n + 1] \in Files
    <3>1. CASE b = 0
      <4>1. (p + 1) + n + 1 = Len(t)
          BY <1>1, <2>1, <3>1
      <4> QED BY <1>1, <4>1
    <3>2. CASE b # 0
      <4>1. 1 \in 1..b /\ (p + 1) + n + 1 = p + a + 1
          BY <1>1, <2>1, <3>2
      <4>2. D["spec.md"] # NoneFound
          BY <1>2, <3>2, FrameIs DEF b, B
      <4>3. B[1] = "spec.md"
          BY <1>2, <4>2, FrameIs DEF B
      <4> QED BY <1>1, <1>2, <4>1, <4>3
    <3> QED BY <3>1, <3>2
  <2>5. BeginsAt(P, D, f) = p + 1
      BY <1>3 DEF BeginsAt, p
  <2> QED BY <2>2, <2>3, <2>4, <2>5 DEF Stands, p, d, n
<1>4. CASE f = "spec.md"
  <2>1. /\ n \in Nat /\ b = n + 1 /\ B[1] = f
        /\ \A k \in 1..n : B[k + 1] = d[k]
      BY <1>2, <1>4, FrameIs
  <2> HIDE DEF B, d, p, b, n
  <2>2. BeginsAt(P, D, f) = p + a + 1
      BY <1>4 DEF BeginsAt, p, a, A
  <2> HIDE DEF A, a
  <2>3. /\ 1 \in 1..b /\ \A k \in 1..n : k + 1 \in 1..b /\ (p + a + 1) + k = p + a + (k + 1)
        /\ p + a + 1 \in 1..Len(t) /\ p + a + 1 > p
        /\ (p + a + 1) + n + 1 \in 1..Len(t) /\ (p + a + 1) + n + 1 = Len(t)
      BY <1>1, <2>1
  <2>4. t[p + a + 1] = f /\ \A k \in 1..n : t[(p + a + 1) + k] = d[k]
      BY <1>1, <2>1, <2>3
  <2>5. t[(p + a + 1) + n + 1] = "end"
      BY <1>1, <2>3
  <2> QED BY <2>2, <2>3, <2>4, <2>5 DEF Stands, p, d, n
<1> QED BY <1>2, <1>3, <1>4

\* The only marker lines after the prose are those of its documents.
LEMMA EnvelopeMarks ==
  ASSUME NEW P, NEW t, NEW D \in [Files -> Bodies], Envelope(P, D, t),
         NEW i \in Len(P) + 1..Len(t), t[i] \in Files \/ t[i] = "blocked"
  PROVE  t[i] \in Files /\ D[t[i]] # NoneFound /\ i = BeginsAt(P, D, t[i])
<1> DEFINE A == FrameOf(D, "notes.md")  B == FrameOf(D, "spec.md")
           p == Len(P)  a == Len(A)  b == Len(B)
<1>1. /\ p \in Nat /\ a \in Nat /\ b \in Nat /\ Len(t) = p + a + b + 1
      /\ \A k \in 1..a : t[p + k] = A[k]
      /\ \A k \in 1..b : t[p + a + k] = B[k]
      /\ t[Len(t)] = "end"
    BY PrintIs DEF Envelope, Laid
<1>2. "notes.md" \in Files /\ "spec.md" \in Files /\ "end" \notin Files
    BY DEF Files
\* A line of a frame that is a marker is its first.
<1>3. ASSUME NEW f \in Files, NEW k \in 1..Len(FrameOf(D, f)),
             FrameOf(D, f)[k] \in Files \/ FrameOf(D, f)[k] = "blocked"
      PROVE  k = 1 /\ FrameOf(D, f)[k] = f /\ D[f] # NoneFound
  <2> DEFINE F == FrameOf(D, f)  d == D[f]
  <2>1. D[f] # NoneFound
    <3> SUFFICES ASSUME D[f] = NoneFound PROVE FALSE
        OBVIOUS
    <3>1. Len(F) = 0
        BY FrameIs
    <3> QED BY <1>3, <3>1
  <2>2. /\ d \in Seq(BodyLines) /\ Len(d) \in Nat /\ Len(F) = Len(d) + 1 /\ F[1] = f
        /\ \A j \in 1..Len(d) : F[j + 1] = d[j]
      BY <2>1, FrameIs
  <2> HIDE DEF F, d
  <2>3. ASSUME k # 1 PROVE FALSE
    <3>1. k \in 1..Len(F)
        BY DEF F
    <3>2. k - 1 \in 1..Len(d) /\ (k - 1) + 1 = k
        BY <2>2, <2>3, <3>1
    <3>3. F[k] = d[k - 1] /\ d[k - 1] \in BodyLines
        BY <2>2, <3>2
    <3> QED BY <1>3, <3>3 DEF F, BodyLines, Plain, Files
  <2> QED BY <2>1, <2>2, <2>3 DEF F
<1> HIDE DEF p
<1>4. i \in p + 1..Len(t)
    BY DEF p
<1>5. CASE i - p \in 1..a
  <2>1. p + (i - p) = i
      BY <1>1, <1>4
  <2>2. t[i] = A[i - p]
      BY <1>1, <1>5, <2>1
  <2>3. i - p = 1 /\ t[i] = "notes.md" /\ D["notes.md"] # NoneFound
      BY <1>2, <1>3, <1>5, <2>2
  <2>4. i = p + 1
      BY <1>1, <1>4, <2>3
  <2> QED BY <1>2, <2>3, <2>4 DEF BeginsAt, p
<1>6. CASE i - p - a \in 1..b
  <2> HIDE DEF A, a
  <2>1. p + a + (i - p - a) = i
      BY <1>1, <1>4
  <2>2. t[i] = B[i - p - a]
      BY <1>1, <1>6, <2>1
  <2>3. i - p - a = 1 /\ t[i] = "spec.md" /\ D["spec.md"] # NoneFound
      BY <1>2, <1>3, <1>6, <2>2
  <2>4. i = p + a + 1
      BY <1>1, <1>4, <2>3
  <2> QED BY <1>2, <2>3, <2>4 DEF BeginsAt, p, a, A
<1>7. CASE i = Len(t)
    BY <1>1, <1>2, <1>7
<1> HIDE DEF a, b
<1> QED BY <1>1, <1>4, <1>5, <1>6, <1>7

LEMMA EnvelopeReads ==
  ASSUME NEW P, NEW t, NEW D \in [Files -> Bodies], Envelope(P, D, t),
         D["spec.md"] # NoneFound \/ D["notes.md"] # NoneFound, FileMark(P) = 0, ~LeftOpen(P)
  PROVE  /\ FileMark(t) = Len(P) + 1 /\ ParseOK(t)
         /\ ParseEnvelope(t) = [f \in Files |-> IF D[f] = NoneFound THEN NoneFound
                                              ELSE StripFence(UpToEnd(D[f]))]
<1> DEFINE p == Len(P)  q == p + 1  n == Len(t)
<1>1. /\ P \in Printed /\ t \in Printed /\ p \in Nat /\ n \in Nat /\ p < n /\ DOMAIN t = 1..n
      /\ Starts(P, t) /\ t[n] = "end"
  <2>1. /\ P \in Printed /\ t \in Printed /\ t[n] = "end"
        /\ n = p + Len(FrameOf(D, "notes.md")) + Len(FrameOf(D, "spec.md")) + 1
        /\ FrameOf(D, "notes.md") \in Printed /\ FrameOf(D, "spec.md") \in Printed
        /\ \A k \in 1..p : t[k] = P[k]
      BY DEF Envelope, Laid
  <2>2. /\ p \in Nat /\ n \in Nat /\ DOMAIN t = 1..n
        /\ Len(FrameOf(D, "notes.md")) \in Nat /\ Len(FrameOf(D, "spec.md")) \in Nat
      BY <2>1, PrintIs
  <2> HIDE DEF p, n
  <2>3. p < n /\ p <= n
      BY <2>1, <2>2
  <2> QED BY <2>1, <2>2, <2>3 DEF Starts, p, n
<1>2. "notes.md" \in Files /\ "spec.md" \in Files /\ "end" \notin Files /\ Files = {"notes.md", "spec.md"}
    BY DEF Files
<1>3. \A f \in Files : D[f] # NoneFound =>
        BeginsAt(P, D, f) > p /\ Stands(t, BeginsAt(P, D, f), f, D[f]) /\ D[f] \in Seq(BodyLines)
    BY EnvelopeStands DEF Bodies
<1>4. \A i \in q..n : t[i] \in Files => D[t[i]] # NoneFound /\ i = BeginsAt(P, D, t[i])
    BY EnvelopeMarks
<1>5. q \in 1..n /\ t[q] \in Files
  <2>1. q \in 1..n
      BY <1>1
  <2>2. CASE D["notes.md"] # NoneFound
    <3>1. BeginsAt(P, D, "notes.md") = q
        BY DEF BeginsAt
    <3> QED BY <1>2, <1>3, <2>1, <2>2, <3>1 DEF Stands
  <2>3. CASE D["notes.md"] = NoneFound
    <3>1. D["spec.md"] # NoneFound /\ FrameOf(D, "notes.md") = <<>> /\ Len(<<>>) = 0
        BY <2>3 DEF FrameOf
    <3>2. BeginsAt(P, D, "spec.md") = p + 0 + 1
        BY <3>1 DEF BeginsAt
    <3>3. BeginsAt(P, D, "spec.md") = q
        BY <1>1, <3>2
    <3> QED BY <1>2, <1>3, <2>1, <3>1, <3>3 DEF Stands
  <2> QED BY <2>2, <2>3
<1>6. FileMark(t) = q
  <2>1. \A i \in 1..p : P[i] \in Files => Fenced(P, i)
      BY <1>1, OutsideIs DEF FileMark
  <2>2. /\ \A i \in 1..p : Fenced(t, i) <=> Fenced(P, i)
        /\ Fenced(t, q) <=> LeftOpen(P)
      BY <1>1, FencedSame
  <2>3. \A i \in 1..p : t[i] = P[i]
      BY <1>1 DEF Starts
  <2>4. \A i \in 1..q - 1 : i \in 1..p
      BY <1>1
  <2>5. \A i \in 1..q - 1 : t[i] \in Files => Fenced(t, i)
      BY <2>1, <2>2, <2>3, <2>4
  <2>6. ~Fenced(t, q)
      BY <2>2
  <2> QED BY <1>1, <1>5, <2>5, <2>6, OutsideIs DEF FileMark
<1>7. \A i : i \in Marks(t) <=> i \in q..n /\ t[i] \in Files
  <2>1. \A i : i \in 1..n /\ i >= q <=> i \in q..n
      BY <1>1
  <2> QED BY <1>1, <1>6, <2>1 DEF Marks
<1>8. \A i : i \in Marks(t) <=> \E f \in Files : D[f] # NoneFound /\ i = BeginsAt(P, D, f)
  <2>1. ASSUME NEW f \in Files, D[f] # NoneFound PROVE BeginsAt(P, D, f) \in Marks(t)
    <3>1. /\ BeginsAt(P, D, f) \in 1..n /\ BeginsAt(P, D, f) > p /\ t[BeginsAt(P, D, f)] = f
        BY <1>3, <2>1 DEF Stands
    <3>2. BeginsAt(P, D, f) \in q..n
        BY <1>1, <3>1
    <3> QED BY <1>7, <3>1, <3>2
  <2> QED BY <1>4, <1>7, <2>1
<1>9. Max(Marks(t)) \in Marks(t)
  <2> DEFINE S == Marks(t)  x == BeginsAt(P, D, "notes.md")  y == BeginsAt(P, D, "spec.md")
  <2>1. S \subseteq Nat /\ S # {} /\ S \subseteq {x, y}
      BY <1>1, <1>2, <1>5, <1>7, <1>8
  <2> HIDE DEF S, x, y
  <2>2. \E m \in S : \A j \in S : m >= j
    <3>1. CASE x \in S /\ y \in S
      <4>1. x \in Nat /\ y \in Nat
          BY <2>1, <3>1
      <4>2. x >= x /\ y >= y /\ (x >= y \/ y >= x)
          BY <4>1
      <4> QED BY <2>1, <3>1, <4>2
    <3>2. CASE ~(x \in S /\ y \in S)
      <4>1. \E m \in S : S = {m}
          BY <2>1, <3>2
      <4>2. PICK m \in S : S = {m}
          BY <4>1
      <4>3. m \in Nat
          BY <2>1
      <4>4. m >= m
          BY <4>3
      <4> QED BY <4>2, <4>4
    <3> QED BY <3>1, <3>2
  <2>3. Max(S) \in S
      BY <2>2 DEF Max
  <2> QED BY <2>3 DEF S
<1>10. ParseOK(t)
  <2> DEFINE m == Max(Marks(t))  E == {j \in DOMAIN t : j > m /\ t[j] = "end"}
  <2>1. m \in q..n /\ t[m] \in Files
      BY <1>7, <1>9
  <2> HIDE DEF m
  <2>2. m # n
      BY <1>1, <1>2, <2>1
  <2>3. n \in E /\ E \subseteq Nat \ {0}
    <3>1. p \in Nat /\ n \in Nat /\ p < n /\ m \in q..n /\ m # n
        BY <1>1, <2>1, <2>2
    <3> HIDE DEF p, n
    <3>2. n > m /\ n \in 1..n
        BY <3>1
    <3> QED BY <1>1, <3>2 DEF n
  <2> HIDE DEF E
  <2>4. First(E) \in E
      BY <2>3, FirstIs
  <2>5. First(E) > 0 /\ FileMark(t) > 0
    <3>1. First(E) \in Nat \ {0} /\ p \in Nat
        BY <1>1, <2>3, <2>4
    <3> HIDE DEF p
    <3>2. First(E) > 0 /\ q > 0
        BY <3>1
    <3> QED BY <1>6, <3>2
  <2>6. EndAfter(t, m) = First(E)
      BY DEF EndAfter, E
  <2> QED BY <2>5, <2>6 DEF ParseOK, m
<1>11. ASSUME NEW f \in Files
       PROVE  ParseEnvelope(t)[f] = IF D[f] = NoneFound THEN NoneFound ELSE StripFence(UpToEnd(D[f]))
  <2> DEFINE mine == {m \in Marks(t) : t[m] = f}  x == BeginsAt(P, D, f)
  <2>1. ParseEnvelope(t)[f] = IF mine = {} THEN NoneFound ELSE Block(t, Max(mine))
      BY DEF ParseEnvelope
  <2>2. CASE D[f] = NoneFound
    <3>1. mine = {}
        BY <1>4, <1>7, <2>2
    <3> QED BY <2>1, <2>2, <3>1
  <2>3. CASE D[f] # NoneFound
    <3>1. x \in Marks(t) /\ Stands(t, x, f, D[f]) /\ D[f] \in Seq(BodyLines)
        BY <1>3, <1>8, <2>3
    <3>2. x \in mine /\ x \in Nat
        BY <1>1, <3>1 DEF Stands
    <3>3. mine = {x}
        BY <1>4, <1>7, <3>2
    <3> HIDE DEF mine, x
    <3>4. Max(mine) = x
        BY <3>2, <3>3 DEF Max
    <3>5. Block(t, x) = StripFence(UpToEnd(D[f]))
      <4> DEFINE d == D[f]  c == UpToEnd(d)
      <4>1. /\ x \in 1..Len(t) /\ x + Len(d) + 1 \in 1..Len(t) /\ d \in Seq(BodyLines)
            /\ \A k \in 1..Len(d) : t[x + k] = d[k]
            /\ t[x + Len(d) + 1] = "end" \/ t[x + Len(d) + 1] \in Files
          BY <3>1 DEF Stands
      <4> HIDE DEF d
      <4>2. /\ c \in Seq(Plain) /\ Len(c) \in Nat /\ Len(c) <= Len(d)
            /\ \A k \in 1..Len(c) : c[k] = d[k]
            /\ Len(c) = Len(d) \/ (Len(c) + 1 \in 1..Len(d) /\ d[Len(c) + 1] = "end")
          BY <4>1, CutIs
      <4> HIDE DEF c, n, p
      <4>3. Len(d) \in Nat /\ Len(t) \in Nat /\ x \in Nat
          BY <1>1, <3>2, <4>1 DEF n
      <4>4. x + Len(c) + 1 \in 1..Len(t) /\ \A k \in 1..Len(c) : k \in 1..Len(d)
          BY <4>1, <4>2, <4>3
      <4>5. \A k \in 1..Len(c) : t[x + k] = c[k]
          BY <4>1, <4>2, <4>4
      <4>6. t[x + Len(c) + 1] = "end" \/ t[x + Len(c) + 1] \in Files
        <5>1. CASE Len(c) = Len(d)
            BY <4>1, <5>1
        <5>2. CASE Len(c) # Len(d)
          <6>1. Len(c) + 1 \in 1..Len(d) /\ d[Len(c) + 1] = "end" /\ x + (Len(c) + 1) = x + Len(c) + 1
              BY <4>2, <4>3, <5>2
          <6> QED BY <4>1, <6>1
        <5> QED BY <5>1, <5>2
      <4>7. Block(t, x) = StripFence(c)
          BY <1>1, <4>1, <4>2, <4>4, <4>5, <4>6, BlockIs
      <4> QED BY <4>7 DEF c, d
    <3>6. mine # {}
        BY <3>3
    <3> QED BY <2>1, <2>3, <3>4, <3>5, <3>6
  <2> QED BY <2>2, <2>3
<1>12. ParseEnvelope(t) = [f \in Files |-> IF D[f] = NoneFound THEN NoneFound ELSE StripFence(UpToEnd(D[f]))]
  <2>1. ParseEnvelope(t) = [f \in Files |-> ParseEnvelope(t)[f]]
      BY DEF ParseEnvelope
  <2> QED BY <1>11, <2>1
<1> QED BY <1>6, <1>10, <1>12

-----------------------------------------------------------------------------
LEMMA SliceSame ==
  ASSUME NEW s, NEW t, Starts(s, t), NEW a \in Int, NEW b \in Int, 1 <= a, b <= Len(s)
  PROVE  SubSeq(t, a, b) = SubSeq(s, a, b) /\ SubSeq(s, a, b) \in Printed
<1> DEFINE x == SubSeq(s, a, b)  y == SubSeq(t, a, b)
<1>1. /\ s \in Seq(Lines) /\ t \in Seq(Lines) /\ Len(s) \in Nat /\ Len(t) \in Nat /\ Len(s) <= Len(t)
      /\ \A k \in 1..Len(s) : t[k] = s[k] /\ s[k] \in Lines
    BY PrintIs DEF Starts, Printed
<1> HIDE DEF Lines
<1>2. \A i \in a..b : i \in 1..Len(s)
    BY <1>1
<1>3. \A i \in a..b : s[i] \in Lines /\ t[i] \in Lines /\ t[i] = s[i]
    BY <1>1, <1>2
<1>4. /\ x \in Seq(Lines) /\ Len(x) = IF a <= b THEN b - a + 1 ELSE 0
      /\ \A k \in 1..b - a + 1 : x[k] = s[a + k - 1]
    BY <1>3, SubSeqProperties
<1>5. /\ y \in Seq(Lines) /\ Len(y) = IF a <= b THEN b - a + 1 ELSE 0
      /\ \A k \in 1..b - a + 1 : y[k] = t[a + k - 1]
    BY <1>3, SubSeqProperties
<1> HIDE DEF x, y
<1>6. Len(x) = Len(y)
    BY <1>4, <1>5
<1>7. \A k \in 1..Len(x) : k \in 1..b - a + 1 /\ a + k - 1 \in a..b
    BY <1>4
<1>8. \A k \in 1..Len(x) : x[k] = y[k]
    BY <1>3, <1>4, <1>5, <1>7
<1>9. x = y
    BY <1>4, <1>5, <1>6, <1>8, SeqEqual
<1> QED BY <1>4, <1>9 DEF x, y, Printed

LEMMA ProseIs ==
  ASSUME NEW s \in Printed
  PROVE  Starts(Prose(s), s) /\ FileMark(Prose(s)) = 0
<1>1. Len(s) \in Nat /\ DOMAIN s = 1..Len(s) /\ Starts(s, s)
    BY PrintIs DEF Starts
<1>2. CASE FileMark(s) = 0
    BY <1>1, <1>2 DEF Prose
<1>3. CASE FileMark(s) # 0
  <2> DEFINE m == FileMark(s)  r == SubSeq(s, 1, m - 1)
  <2>1. m \in 1..Len(s) /\ \A i \in 1..Len(s) : s[i] \in Files /\ ~Fenced(s, i) => m <= i
      BY <1>3, OutsideIs DEF FileMark
  <2> HIDE DEF m
  <2>2. 1 \in Int /\ m - 1 \in Int /\ m - 1 <= Len(s) /\ m - 1 \in Nat
      BY <1>1, <2>1
  <2>3. r \in Printed
      BY <1>1, <2>2, SliceSame
  <2>4. \A k \in 1..m - 1 : k \in 1..Len(s) /\ ~(m <= k)
      BY <1>1, <2>1
  <2>5. \A k \in 1..m - 1 : s[k] \in Lines
    <3>1. \A k \in 1..Len(s) : s[k] \in Lines
      <4> HIDE DEF Lines
      <4> QED BY <1>1 DEF Printed
    <3> QED BY <2>4, <3>1
  <2>6. /\ Len(r) = IF 1 <= m - 1 THEN (m - 1) - 1 + 1 ELSE 0
        /\ \A k \in 1..(m - 1) - 1 + 1 : r[k] = s[1 + k - 1]
    <3> HIDE DEF Lines
    <3> QED BY <2>2, <2>5, SubSeqProperties
  <2> HIDE DEF r
  <2>7. Len(r) = m - 1 /\ Len(r) <= Len(s)
      BY <2>2, <2>6
  <2>8. \A k \in 1..Len(r) : k \in 1..(m - 1) - 1 + 1 /\ 1 + k - 1 = k /\ k \in 1..m - 1
      BY <2>2, <2>7
  <2>9. \A k \in 1..Len(r) : s[k] = r[k]
      BY <2>6, <2>8
  <2>10. Starts(r, s)
      BY <2>3, <2>7, <2>9 DEF Starts
  <2>11. \A i \in 1..Len(r) : Fenced(s, i) <=> Fenced(r, i)
      BY <2>10, FencedSame
  <2>12. \A i \in 1..Len(r) : r[i] \in Files => Fenced(r, i)
      BY <2>1, <2>4, <2>8, <2>9, <2>11
  <2>13. FileMark(r) = 0
      BY <2>3, <2>12, OutsideIs DEF FileMark
  <2>14. Prose(s) = r
      BY <1>3 DEF Prose, r, m
  <2> QED BY <2>10, <2>13, <2>14
<1> QED BY <1>2, <1>3

LEMMA ClosedIs ==
  ASSUME NEW r \in Printed
  PROVE  Starts(r, CloseFence(r)) /\ ~LeftOpen(CloseFence(r))
<1>1. Starts(r, r) /\ Count(r, "fence") \in Nat
  <2>1. Len(r) \in Nat /\ Len(r) <= Len(r)
      BY PrintIs
  <2> QED BY <2>1, CountIs DEF Starts
<1>2. CASE ~LeftOpen(r)
    BY <1>1, <1>2 DEF CloseFence
<1>3. CASE LeftOpen(r)
  <2> DEFINE P == Append(r, "fence")  c == Count(r, "fence")
  <2>1. CloseFence(r) = P
      BY <1>3 DEF CloseFence
  <2>2. P \in Printed /\ Len(P) = Len(r) + 1 /\ \A k \in 1..Len(r) : P[k] = r[k]
      BY PrintIs DEF Printed, Lines
  <2>3. Starts(r, P)
    <3> HIDE DEF P
    <3>1. Len(r) <= Len(P)
        BY <2>2, PrintIs
    <3> QED BY <2>2, <3>1 DEF Starts
  <2>4. Count(P, "fence") = c + 1
      BY CountMore DEF Lines
  <2>5. c % 2 = 1
      BY <1>3 DEF LeftOpen
  <2> HIDE DEF c, P
  <2>6. (c + 1) % 2 # 1
      BY <1>1, <2>5 DEF c
  <2>7. ~LeftOpen(P)
      BY <2>4, <2>6 DEF LeftOpen
  <2> QED BY <2>1, <2>3, <2>7
<1> QED BY <1>2, <1>3

\* The prose that is kept: its marker lines are all quoted, no fence stays open.
LEMMA KeptProse ==
  ASSUME NEW s \in Printed, BlockedMark(s) = 0
  PROVE  /\ CloseFence(Prose(s)) \in Printed /\ FileMark(CloseFence(Prose(s))) = 0
         /\ BlockedMark(CloseFence(Prose(s))) = 0 /\ ~LeftOpen(CloseFence(Prose(s)))
<1> DEFINE r == Prose(s)  P == CloseFence(r)
<1>1. Starts(r, s) /\ FileMark(r) = 0
    BY ProseIs
<1>2. r \in Printed /\ Len(r) \in Nat /\ Len(r) <= Len(s) /\ \A k \in 1..Len(r) : s[k] = r[k]
    BY <1>1, PrintIs DEF Starts
<1>3. \A i \in 1..Len(r) : r[i] \in Files => Fenced(r, i)
    BY <1>1, <1>2, OutsideIs DEF FileMark
<1>4. \A i \in 1..Len(r) : r[i] \in {"blocked"} => Fenced(r, i)
  <2>1. \A i \in 1..Len(r) : Fenced(s, i) <=> Fenced(r, i)
      BY <1>1, FencedSame
  <2>2. \A i \in 1..Len(s) : s[i] \in {"blocked"} => Fenced(s, i)
      BY OutsideIs DEF BlockedMark
  <2>3. \A i \in 1..Len(r) : i \in 1..Len(s)
      BY <1>2, PrintIs
  <2> QED BY <1>2, <2>1, <2>2, <2>3
<1>5. Starts(r, P) /\ ~LeftOpen(P)
    BY <1>2, ClosedIs
<1>6. P \in Printed /\ \A k \in 1..Len(r) : P[k] = r[k]
    BY <1>5 DEF Starts
<1>7. \A i \in 1..Len(r) : Fenced(P, i) <=> Fenced(r, i)
    BY <1>5, FencedSame
<1>8. \A i \in 1..Len(P) : i \in 1..Len(r) \/ P[i] = "fence"
  <2>1. CASE ~LeftOpen(r)
      BY <2>1 DEF CloseFence
  <2>2. CASE LeftOpen(r)
    <3>1. P = Append(r, "fence") /\ Len(P) = Len(r) + 1 /\ P[Len(r) + 1] = "fence"
        BY <1>2, <2>2 DEF CloseFence, Printed
    <3> HIDE DEF P, r
    <3>2. \A i \in 1..Len(P) : i \in 1..Len(r) \/ i = Len(r) + 1
        BY <1>2, <3>1
    <3> QED BY <3>1, <3>2
  <2> QED BY <2>1, <2>2
<1> HIDE DEF P, r
<1>9. \A i \in 1..Len(P) : P[i] \in Files => Fenced(P, i)
    BY <1>3, <1>6, <1>7, <1>8 DEF Files
<1>10. \A i \in 1..Len(P) : P[i] \in {"blocked"} => Fenced(P, i)
    BY <1>4, <1>6, <1>7, <1>8
<1>11. FileMark(P) = 0
    BY <1>6, <1>9, OutsideIs DEF FileMark
<1>12. BlockedMark(P) = 0
    BY <1>6, <1>10, OutsideIs DEF BlockedMark
<1> QED BY <1>5, <1>6, <1>11, <1>12 DEF P, r

ReplyInv == stdout \in Printed /\ docs \in [Files -> {NoneFound} \cup Printed]

LEMMA UnmarkedIs ==
  ASSUME ReplyInv, NEW f \in Files, Unmarked(f) PROVE docs[f] \in Bodies
<1>1. CASE docs[f] = NoneFound
    BY <1>1 DEF Bodies
<1>2. CASE docs[f] # NoneFound
  <2>1. docs[f] \in Seq(Lines) /\ \A i \in DOMAIN docs[f] : docs[f][i] \notin Files \cup {"blocked"}
      BY <1>2 DEF ReplyInv, Printed, Unmarked
  <2>2. \A i \in 1..Len(docs[f]) : docs[f][i] \in BodyLines
      BY <2>1 DEF BodyLines, Plain, Lines
  <2>3. docs[f] \in Seq(BodyLines)
    <3> HIDE DEF BodyLines
    <3> QED BY <2>1, <2>2
  <2> QED BY <2>3 DEF Bodies
<1> QED BY <1>1, <1>2

LEMMA FramedIs ==
  ASSUME docs \in [Files -> Bodies], NEW f \in Files
  PROVE  Framed(f) = FrameOf(docs, f) /\ Framed(f) \in Printed
BY FrameIs DEF Framed, FrameOf

LEMMA DocumentsRead == ReplyInv => DocumentsAreReadBack
<1> SUFFICES ASSUME ReplyInv, BlockedMark(stdout) = 0, docs # [f \in Files |-> NoneFound],
                    \A f \in Files : Unmarked(f)
             PROVE  /\ ParseBlockers(Canonical).is = "none" /\ ParseOK(Canonical)
                    /\ ParseEnvelope(Canonical) = [f \in Files |-> Read(f)]
    BY DEF DocumentsAreReadBack
<1> DEFINE P == CloseFence(Prose(stdout))  t == Canonical
<1>1. stdout \in Printed /\ docs \in [Files -> Bodies]
    BY UnmarkedIs DEF ReplyInv
<1>2. /\ P \in Printed /\ FileMark(P) = 0 /\ BlockedMark(P) = 0 /\ ~LeftOpen(P)
    BY <1>1, KeptProse
<1>3. "notes.md" \in Files /\ "spec.md" \in Files /\ Files = {"spec.md", "notes.md"}
    BY DEF Files
<1>4. docs["spec.md"] # NoneFound \/ docs["notes.md"] # NoneFound
  <2> SUFFICES ASSUME docs["spec.md"] = NoneFound, docs["notes.md"] = NoneFound PROVE FALSE
      OBVIOUS
  <2>1. \A f \in Files : docs[f] = NoneFound
      BY <1>3
  <2> QED BY <1>1, <2>1
<1>5. t = P \o Framed("notes.md") \o Framed("spec.md") \o <<"end">>
  <2>1. ~(BlockedMark(stdout) > 0)
      OBVIOUS
  <2> QED BY <1>4, <2>1 DEF Canonical, Recombine
<1>6. Envelope(P, docs, t)
  <2>1. /\ Framed("notes.md") = FrameOf(docs, "notes.md") /\ Framed("notes.md") \in Printed
        /\ Framed("spec.md") = FrameOf(docs, "spec.md") /\ Framed("spec.md") \in Printed
      BY <1>1, <1>3, FramedIs
  <2> HIDE DEF P, t
  <2> QED BY <1>2, <1>5, <2>1, LaidIs DEF Envelope
<1> HIDE DEF P, t
<1>7. /\ ParseOK(t)
      /\ ParseEnvelope(t) = [f \in Files |-> IF docs[f] = NoneFound THEN NoneFound ELSE StripFence(UpToEnd(docs[f]))]
    BY <1>1, <1>2, <1>4, <1>6, EnvelopeReads
<1>8. BlockedMark(t) = 0
  <2>1. /\ t \in Printed /\ Starts(P, t) /\ Len(P) \in Nat /\ Len(t) \in Nat
        /\ \A i \in 1..Len(P) : t[i] = P[i]
    <3>1. /\ t \in Printed /\ P \in Printed /\ \A k \in 1..Len(P) : t[k] = P[k]
          /\ Len(t) = Len(P) + Len(FrameOf(docs, "notes.md")) + Len(FrameOf(docs, "spec.md")) + 1
          /\ FrameOf(docs, "notes.md") \in Printed /\ FrameOf(docs, "spec.md") \in Printed
        BY <1>6 DEF Envelope, Laid
    <3>2. /\ Len(P) \in Nat /\ Len(t) \in Nat
          /\ Len(FrameOf(docs, "notes.md")) \in Nat /\ Len(FrameOf(docs, "spec.md")) \in Nat
        BY <3>1, PrintIs
    <3>3. Len(P) <= Len(t)
        BY <3>1, <3>2
    <3> QED BY <3>1, <3>2, <3>3 DEF Starts
  <2>2. \A i \in 1..Len(P) : Fenced(t, i) <=> Fenced(P, i)
      BY <2>1, FencedSame
  <2>3. \A i \in 1..Len(P) : P[i] \in {"blocked"} => Fenced(P, i)
      BY <1>2, OutsideIs DEF BlockedMark
  <2>4. \A i \in Len(P) + 1..Len(t) : t[i] # "blocked"
    <3>1. \A i \in Len(P) + 1..Len(t) : t[i] = "blocked" => t[i] \in Files
        BY <1>1, <1>6, EnvelopeMarks
    <3> QED BY <3>1 DEF Files
  <2>5. \A i \in 1..Len(t) : i \in 1..Len(P) \/ i \in Len(P) + 1..Len(t)
      BY <2>1
  <2>6. \A i \in 1..Len(t) : t[i] \in {"blocked"} => Fenced(t, i)
      BY <2>1, <2>2, <2>3, <2>4, <2>5
  <2> QED BY <2>1, <2>6, OutsideIs DEF BlockedMark
<1>9. ParseBlockers(t).is = "none"
    BY <1>8 DEF ParseBlockers
<1>10. \A f \in Files : Read(f) = IF docs[f] = NoneFound THEN NoneFound ELSE StripFence(UpToEnd(docs[f]))
    BY DEF Read
<1>11. ParseEnvelope(t) = [f \in Files |-> Read(f)]
    BY <1>7, <1>10
<1> QED BY <1>7, <1>9, <1>11 DEF t

\* More lines after a reply's end line leave its blocker where it was.
LEMMA BlockerStays ==
  ASSUME NEW s, NEW t, Starts(s, t), BlockedMark(s) # 0, EndAfter(s, BlockedMark(s)) # 0
  PROVE  /\ BlockedMark(t) = BlockedMark(s) /\ EndAfter(t, BlockedMark(s)) = EndAfter(s, BlockedMark(s))
         /\ BlockedMark(s) \in 1..Len(s) /\ EndAfter(s, BlockedMark(s)) \in BlockedMark(s) + 1..Len(s)
         /\ Body(t) = Body(s)
<1> DEFINE m == BlockedMark(s)  e == EndAfter(s, m)
           E(u) == {j \in DOMAIN u : j > m /\ u[j] = "end"}
<1>1. /\ s \in Printed /\ t \in Printed /\ Len(s) \in Nat /\ Len(t) \in Nat /\ Len(s) <= Len(t)
      /\ DOMAIN s = 1..Len(s) /\ DOMAIN t = 1..Len(t)
      /\ \A k \in 1..Len(s) : t[k] = s[k]
    BY PrintIs DEF Starts
<1>2. m \in 1..Len(s) /\ s[m] = "blocked" /\ ~Fenced(s, m)
    BY <1>1, OutsideIs DEF BlockedMark
<1>3. \A i \in 1..m - 1 : i \in 1..Len(s) /\ ~(m <= i)
  <2>1. Len(s) \in Nat /\ m \in 1..Len(s)
      BY <1>1, <1>2
  <2> HIDE DEF m
  <2> QED BY <2>1
<1>4. BlockedMark(t) = m
  <2>1. \A i \in 1..Len(s) : s[i] \in {"blocked"} /\ ~Fenced(s, i) => m <= i
      BY <1>1, OutsideIs DEF BlockedMark
  <2>2. \A i \in 1..Len(s) : Fenced(t, i) <=> Fenced(s, i)
      BY FencedSame
  <2>3. m \in 1..Len(t) /\ t[m] \in {"blocked"} /\ ~Fenced(t, m)
    <3>1. m \in 1..Len(t)
      <4>1. Len(s) \in Nat /\ Len(t) \in Nat /\ Len(s) <= Len(t) /\ m \in 1..Len(s)
          BY <1>1, <1>2
      <4> HIDE DEF m
      <4> QED BY <4>1
    <3> QED BY <1>1, <1>2, <2>2, <3>1
  <2>4. \A i \in 1..m - 1 : t[i] \in {"blocked"} => Fenced(t, i)
      BY <1>1, <1>3, <2>1, <2>2
  <2> HIDE DEF m
  <2> QED BY <1>1, <2>3, <2>4, OutsideIs DEF BlockedMark
<1> HIDE DEF m
<1>5. /\ E(s) \subseteq Nat \ {0} /\ E(t) \subseteq Nat \ {0}
      /\ e = First(E(s)) /\ EndAfter(t, m) = First(E(t)) /\ e # 0
    BY <1>1 DEF EndAfter, m
<1>6. e \in E(s) /\ \A j \in E(s) : e <= j
  <2>1. First(E(s)) # 0 /\ E(s) \subseteq Nat \ {0}
      BY <1>5
  <2> HIDE DEF E
  <2> QED BY <1>5, <2>1, FirstIs
<1>7. e \in 1..Len(s) /\ e > m /\ s[e] = "end"
    BY <1>1, <1>6
<1> HIDE DEF e
<1>8. e \in E(t)
  <2>1. e \in 1..Len(t)
      BY <1>1, <1>7
  <2> QED BY <1>1, <1>7, <2>1
<1>9. ASSUME NEW j \in E(t) PROVE e <= j
  <2>1. j \in 1..Len(t) /\ j > m /\ t[j] = "end"
      BY <1>1
  <2>2. CASE j \in 1..Len(s)
      BY <1>1, <1>6, <2>1, <2>2
  <2>3. CASE j \notin 1..Len(s)
      BY <1>1, <1>7, <2>1, <2>3
  <2> QED BY <2>2, <2>3
<1>10. EndAfter(t, m) = e
  <2> HIDE DEF E
  <2> QED BY <1>5, <1>8, <1>9, FirstIs
<1>11. e \in m + 1..Len(s)
    BY <1>1, <1>2, <1>7
<1>12. SubSeq(t, m + 1, e - 1) = SubSeq(s, m + 1, e - 1)
  <2>1. m + 1 \in Int /\ e - 1 \in Int /\ 1 <= m + 1 /\ e - 1 <= Len(s)
      BY <1>1, <1>2, <1>11
  <2> QED BY <2>1, SliceSame
<1>13. Body(t) = Body(s)
    BY <1>4, <1>10, <1>12 DEF Body, e, m
<1> QED BY <1>2, <1>4, <1>10, <1>11, <1>13 DEF e, m

\* What stands beside the blocker, and the same with an envelope after it.
LEMMA BesideIs ==
  ASSUME NEW s \in Printed, BlockedMark(s) \in 1..Len(s),
         EndAfter(s, BlockedMark(s)) \in BlockedMark(s) + 1..Len(s)
  PROVE  LET m == BlockedMark(s)  e == EndAfter(s, m)
         IN /\ Beside(s) \in Printed /\ Len(Beside(s)) = (m - 1) + (Len(s) - e)
            /\ \A k \in 1..m - 1 : Beside(s)[k] = s[k]
            /\ \A k \in 1..Len(s) - e : Beside(s)[(m - 1) + k] = s[e + k]
<1> DEFINE m == BlockedMark(s)  e == EndAfter(s, m)  x == SubSeq(s, 1, m - 1)  y == SubSeq(s, e + 1, Len(s))
<1>1. Len(s) \in Nat /\ s \in Seq(Lines) /\ Beside(s) = x \o y /\ m \in 1..Len(s) /\ e \in m + 1..Len(s)
    BY PrintIs DEF Beside
<1>2. \A k \in 1..Len(s) : s[k] \in Lines
  <2> HIDE DEF Lines
  <2> QED BY <1>1
<1> HIDE DEF m, e, Lines
<1>3. /\ 1 \in Int /\ m - 1 \in Nat /\ m - 1 \in Int /\ e + 1 \in Int /\ Len(s) \in Int /\ Len(s) - e \in Nat
      /\ \A k \in 1..m - 1 : k \in 1..Len(s)
      /\ \A k \in e + 1..Len(s) : k \in 1..Len(s)
    BY <1>1
<1>4. /\ x \in Seq(Lines) /\ Len(x) = IF 1 <= m - 1 THEN (m - 1) - 1 + 1 ELSE 0
      /\ \A k \in 1..(m - 1) - 1 + 1 : x[k] = s[1 + k - 1]
    BY <1>2, <1>3, SubSeqProperties
<1>5. /\ y \in Seq(Lines) /\ Len(y) = IF e + 1 <= Len(s) THEN Len(s) - (e + 1) + 1 ELSE 0
      /\ \A k \in 1..Len(s) - (e + 1) + 1 : y[k] = s[(e + 1) + k - 1]
    BY <1>2, <1>3, SubSeqProperties
<1> HIDE DEF x, y
<1>6. Len(x) = m - 1 /\ Len(y) = Len(s) - e
    BY <1>1, <1>3, <1>4, <1>5
<1>7. /\ \A k \in 1..m - 1 : k \in 1..(m - 1) - 1 + 1 /\ 1 + k - 1 = k
      /\ \A k \in 1..Len(s) - e : k \in 1..Len(s) - (e + 1) + 1 /\ (e + 1) + k - 1 = e + k
    BY <1>1, <1>3
<1>8. /\ \A k \in 1..Len(x) : x[k] = s[k]
      /\ \A k \in 1..Len(y) : y[k] = s[e + k]
    BY <1>4, <1>5, <1>6, <1>7
<1>9. /\ x \o y \in Printed /\ Len(x \o y) = Len(x) + Len(y)
      /\ \A k \in 1..Len(x) : (x \o y)[k] = x[k]
      /\ \A k \in 1..Len(y) : (x \o y)[Len(x) + k] = y[k]
    BY <1>4, <1>5, JoinIs DEF Printed
<1> QED BY <1>1, <1>6, <1>8, <1>9 DEF m, e

LEMMA BesideEnvelope ==
  ASSUME NEW s \in Printed, NEW A \in Printed, NEW t, t = s \o A \o <<"end">>,
         BlockedMark(s) # 0, EndAfter(s, BlockedMark(s)) # 0
  PROVE  /\ Starts(s, t) /\ Laid(Beside(s), A, <<>>, Beside(t))
<1> DEFINE m == BlockedMark(s)  e == EndAfter(s, m)  P == Beside(s)  u == Beside(t)
           l == Len(s)  a == Len(A)  p == Len(P)
<1>1. /\ t \in Printed /\ Len(t) = l + a + 1 /\ l \in Nat /\ a \in Nat
      /\ \A k \in 1..l : t[k] = s[k]
      /\ \A k \in 1..a : t[l + k] = A[k]
      /\ t[l + a + 1] = "end"
  <2> DEFINE v == s \o A
  <2>1. /\ v \in Printed /\ Len(v) = l + a
        /\ \A k \in 1..l : v[k] = s[k]
        /\ \A k \in 1..a : v[l + k] = A[k]
      BY JoinIs
  <2> HIDE DEF v
  <2> DEFINE o == <<"end">>
  <2>2. o \in Printed /\ Len(o) = 1 /\ o[1] = "end"
      BY DEF Printed, Lines
  <2>3. t = v \o o
      BY DEF v
  <2> HIDE DEF o
  <2>4. /\ v \o o \in Printed /\ Len(v \o o) = Len(v) + Len(o)
        /\ \A k \in 1..Len(v) : (v \o o)[k] = v[k]
        /\ \A k \in 1..Len(o) : (v \o o)[Len(v) + k] = o[k]
      BY <2>1, <2>2, JoinIs
  <2>5. /\ t \in Printed /\ Len(t) = Len(v) + 1
        /\ \A k \in 1..Len(v) : t[k] = v[k]
        /\ t[Len(v) + 1] = "end"
    <3>1. 1 \in 1..Len(o)
        BY <2>2
    <3> QED BY <2>2, <2>3, <2>4, <3>1
  <2>6. l \in Nat /\ a \in Nat
      BY PrintIs
  <2> HIDE DEF l, a
  <2>7. /\ \A k \in 1..l : k \in 1..l + a
        /\ \A k \in 1..a : l + k \in 1..l + a
      BY <2>6
  <2>8. \A k \in 1..l : t[k] = s[k]
      BY <2>1, <2>5, <2>7
  <2>9. \A k \in 1..a : t[l + k] = A[k]
      BY <2>1, <2>5, <2>7
  <2> QED BY <2>1, <2>5, <2>6, <2>8, <2>9
<1>2. Starts(s, t)
  <2>1. l <= Len(t)
      BY <1>1
  <2> QED BY <1>1, <2>1 DEF Starts
<1>3. /\ BlockedMark(t) = m /\ EndAfter(t, m) = e /\ m \in 1..l /\ e \in m + 1..l
    BY <1>2, BlockerStays
<1>4. m \in 1..Len(t) /\ e \in m + 1..Len(t)
  <2>1. l \in Nat /\ a \in Nat /\ Len(t) = l + a + 1 /\ m \in 1..l /\ e \in m + 1..l
      BY <1>1, <1>3
  <2> HIDE DEF m, e, l, a
  <2> QED BY <2>1
<1>5. /\ P \in Printed /\ p = (m - 1) + (l - e)
      /\ \A k \in 1..m - 1 : P[k] = s[k]
      /\ \A k \in 1..l - e : P[(m - 1) + k] = s[e + k]
    BY <1>3, BesideIs
<1>6. /\ u \in Printed /\ Len(u) = (m - 1) + (Len(t) - e)
      /\ \A k \in 1..m - 1 : u[k] = t[k]
      /\ \A k \in 1..Len(t) - e : u[(m - 1) + k] = t[e + k]
  <2>1. /\ t \in Printed /\ BlockedMark(t) \in 1..Len(t)
        /\ EndAfter(t, BlockedMark(t)) \in BlockedMark(t) + 1..Len(t)
      BY <1>1, <1>3, <1>4
  <2> DEFINE x == BlockedMark(t)  y == EndAfter(t, x)
  <2>2. /\ u \in Printed /\ Len(u) = (x - 1) + (Len(t) - y)
        /\ \A k \in 1..x - 1 : u[k] = t[k]
        /\ \A k \in 1..Len(t) - y : u[(x - 1) + k] = t[y + k]
      BY <2>1, BesideIs
  <2>3. x = m /\ y = e
      BY <1>3
  <2> HIDE DEF x, y, m, e, u
  <2> QED BY <2>2, <2>3
<1> HIDE DEF m, e, P, u, l, a, p
<1>7. /\ p \in Nat /\ Len(u) = p + a + 0 + 1
      /\ \A k \in 1..m - 1 : k \in 1..l
      /\ \A k \in 1..l - e : e + k \in 1..l /\ k \in 1..Len(t) - e
      /\ \A k \in 1..p : k \in 1..m - 1 \/ (k - (m - 1) \in 1..l - e /\ (m - 1) + (k - (m - 1)) = k)
      /\ \A k \in 1..a : /\ (l - e) + k \in 1..Len(t) - e /\ (m - 1) + ((l - e) + k) = p + k
                         /\ e + ((l - e) + k) = l + k
      /\ (l - e) + a + 1 \in 1..Len(t) - e /\ (m - 1) + ((l - e) + a + 1) = p + a + 0 + 1
      /\ e + ((l - e) + a + 1) = l + a + 1
  <2>1. /\ l \in Nat /\ a \in Nat /\ Len(t) = l + a + 1 /\ m \in 1..l /\ e \in m + 1..l
        /\ p = (m - 1) + (l - e) /\ Len(u) = (m - 1) + (Len(t) - e)
      BY <1>1, <1>3, <1>5, <1>6
  <2> QED BY <2>1
<1>8. \A k \in 1..m - 1 : u[k] = P[k]
    BY <1>1, <1>5, <1>6, <1>7
<1>9. \A k \in 1..l - e : u[(m - 1) + k] = P[(m - 1) + k]
  <2> SUFFICES ASSUME NEW k \in 1..l - e PROVE u[(m - 1) + k] = P[(m - 1) + k]
      OBVIOUS
  <2>1. e + k \in 1..l /\ k \in 1..Len(t) - e
      BY <1>7
  <2>2. u[(m - 1) + k] = t[e + k]
      BY <1>6, <2>1
  <2>3. t[e + k] = s[e + k]
      BY <1>1, <2>1
  <2>4. P[(m - 1) + k] = s[e + k]
      BY <1>5
  <2> QED BY <2>2, <2>3, <2>4
<1>10. \A k \in 1..p : u[k] = P[k]
  <2> SUFFICES ASSUME NEW k \in 1..p PROVE u[k] = P[k]
      OBVIOUS
  <2>1. k \in 1..m - 1 \/ (k - (m - 1) \in 1..l - e /\ (m - 1) + (k - (m - 1)) = k)
      BY <1>7
  <2>2. CASE k \in 1..m - 1
      BY <1>8, <2>2
  <2>3. CASE k - (m - 1) \in 1..l - e /\ (m - 1) + (k - (m - 1)) = k
    <3> DEFINE j == k - (m - 1)
    <3>1. j \in 1..l - e /\ (m - 1) + j = k
        BY <2>3
    <3> HIDE DEF j
    <3>2. u[(m - 1) + j] = P[(m - 1) + j]
        BY <1>9, <3>1
    <3> QED BY <3>1, <3>2
  <2> QED BY <2>1, <2>2, <2>3
<1>11. \A k \in 1..a : u[p + k] = A[k]
  <2> SUFFICES ASSUME NEW k \in 1..a PROVE u[p + k] = A[k]
      OBVIOUS
  <2> DEFINE j == (l - e) + k
  <2>1. j \in 1..Len(t) - e /\ (m - 1) + j = p + k /\ e + j = l + k
      BY <1>7
  <2> HIDE DEF j
  <2>2. u[(m - 1) + j] = t[e + j]
      BY <1>6, <2>1
  <2> QED BY <1>1, <2>1, <2>2
<1>12. u[Len(u)] = "end"
  <2> DEFINE j == (l - e) + a + 1
  <2>1. j \in 1..Len(t) - e /\ (m - 1) + j = Len(u) /\ e + j = l + a + 1
      BY <1>7
  <2> HIDE DEF j
  <2>2. u[(m - 1) + j] = t[e + j]
      BY <1>6, <2>1
  <2> QED BY <1>1, <2>1, <2>2
<1>13. <<>> \in Printed /\ Len(<<>>) = 0
    BY DEF Printed
<1>14. Laid(P, A, <<>>, u)
  <2>1. \A k \in 1..Len(<<>>) : u[p + a + k] = <<>>[k]
      BY <1>13
  <2> QED BY <1>5, <1>6, <1>7, <1>10, <1>11, <1>12, <1>13, <2>1 DEF Laid, p, a
<1> QED BY <1>2, <1>14 DEF P, u

LEMMA NotesRide == ReplyInv => NotesRideTheBlocker
<1> DEFINE s == stdout  t == Canonical  P == Beside(s)  u == Beside(t)
           A == Framed("notes.md")  m == BlockedMark(s)
           D == [f \in Files |-> IF f = "notes.md" THEN docs[f] ELSE NoneFound]
<1> SUFFICES ASSUME ReplyInv, ParseBlockers(s) = [is |-> "blocked", notes |-> NoneFound],
                    docs["notes.md"] # NoneFound, Unmarked("notes.md"),
                    ~LeftOpen(P), FileMark(P) = 0
             PROVE  ParseBlockers(t) = [is |-> "blocked", notes |-> Read("notes.md")]
    BY DEF NotesRideTheBlocker
<1>1. s \in Printed /\ docs["notes.md"] \in Bodies /\ "notes.md" \in Files /\ "spec.md" \in Files
    BY UnmarkedIs DEF ReplyInv, Files
<1>2. m # 0 /\ EndAfter(s, m) # 0 /\ Body(s) # <<>> /\ ToSet(Body(s)) = {"text"}
  <2>1. ParseBlockers(s).is = "blocked"
      OBVIOUS
  <2> QED BY <2>1 DEF ParseBlockers
<1>3. A = FrameOf(D, "notes.md") /\ A \in Printed /\ FrameOf(D, "spec.md") = <<>> /\ D \in [Files -> Bodies]
  <2>1. D["notes.md"] = docs["notes.md"] /\ D["spec.md"] = NoneFound
      BY <1>1
  <2>2. D \in [Files -> Bodies]
      BY <1>1 DEF Bodies
  <2>3. A = FrameOf(D, "notes.md") /\ FrameOf(D, "spec.md") = <<>>
    <3> HIDE DEF D
    <3> QED BY <2>1 DEF FrameOf, Framed
  <2>4. FrameOf(D, "notes.md") \in Printed
    <3> HIDE DEF D
    <3> QED BY <1>1, <2>2, FrameIs
  <2> QED BY <2>2, <2>3, <2>4
<1>4. t = s \o A \o <<"end">>
  <2>1. m \in Nat
      BY <1>1, <1>2, OutsideIs DEF BlockedMark
  <2> HIDE DEF m
  <2>2. m > 0
      BY <1>2, <2>1
  <2> QED BY <2>2 DEF m, Canonical, Recombine
<1> HIDE DEF t, A
<1>5. Starts(s, t) /\ Laid(P, A, <<>>, u)
    BY <1>1, <1>2, <1>3, <1>4, BesideEnvelope
<1>6. /\ BlockedMark(t) = m /\ EndAfter(t, m) = EndAfter(s, m) /\ Body(t) = Body(s)
    BY <1>2, <1>5, BlockerStays
<1>7. Envelope(P, D, u)
    BY <1>3, <1>5 DEF Envelope
<1>8. D["notes.md"] = docs["notes.md"] /\ D["spec.md"] = NoneFound
    BY <1>1
<1> HIDE DEF D, P, u, m
<1>9. /\ FileMark(u) = Len(P) + 1 /\ ParseOK(u)
      /\ ParseEnvelope(u) = [f \in Files |-> IF D[f] = NoneFound THEN NoneFound ELSE StripFence(UpToEnd(D[f]))]
    BY <1>3, <1>7, <1>8, EnvelopeReads
<1>10. ParseEnvelope(u)["spec.md"] = NoneFound /\ ParseEnvelope(u)["notes.md"] = Read("notes.md")
    BY <1>1, <1>8, <1>9 DEF Read
<1>11. FileMark(u) # 0
    BY <1>9 DEF ParseOK
<1>12. ParseBlockers(t) = [is |-> "blocked", notes |-> ParseEnvelope(u)["notes.md"]]
    BY <1>2, <1>6, <1>9, <1>10, <1>11 DEF ParseBlockers, OnlyNotes, u
<1> QED BY <1>10, <1>12

LEMMA RepliesRead == ReplyInv => DocumentsAreReadBack /\ NotesRideTheBlocker
  BY DocumentsRead, NotesRide

LEMMA ReplyStarts == ReplyInit => ReplyInv
<1> SUFFICES ASSUME ReplyInit PROVE ReplyInv
    OBVIOUS
<1>1. <<>> \in Printed /\ NoneFound \in {NoneFound} \cup Printed
    BY DEF Printed
<1> QED BY <1>1 DEF ReplyInit, ReplyInv

LEMMA ReplyKeeps == ReplyInv /\ [ReplyNext]_replyVars => ReplyInv'
<1> SUFFICES ASSUME ReplyInv, [ReplyNext]_replyVars PROVE ReplyInv'
    OBVIOUS
<1>1. CASE Prints
  <2>1. PICK l \in Lines : stdout' = Append(stdout, l)
      BY <1>1 DEF Prints
  <2>2. stdout' \in Printed
      BY <2>1, AppendProperties DEF ReplyInv, Printed
  <2> QED BY <1>1, <2>2 DEF Prints, ReplyInv
<1>2. CASE Writes
  <2>1. PICK f \in Files, l \in Lines :
          docs' = [docs EXCEPT ![f] = IF @ = NoneFound THEN <<l>> ELSE Append(@, l)]
      BY <1>2 DEF Writes
  <2>2. docs \in [Files -> {NoneFound} \cup Printed] /\ docs[f] \in {NoneFound} \cup Printed
      BY DEF ReplyInv
  <2>3. (IF docs[f] = NoneFound THEN <<l>> ELSE Append(docs[f], l)) \in {NoneFound} \cup Printed
    <3>1. CASE docs[f] = NoneFound
      <4>1. <<l>> \in Seq(Lines)
          OBVIOUS
      <4> QED BY <3>1, <4>1 DEF Printed
    <3>2. CASE docs[f] # NoneFound
      <4>1. docs[f] \in Seq(Lines)
          BY <2>2, <3>2 DEF Printed
      <4>2. Append(docs[f], l) \in Seq(Lines)
          BY <4>1, AppendProperties
      <4> QED BY <3>2, <4>2 DEF Printed
    <3> QED BY <3>1, <3>2
  <2>4. docs' \in [Files -> {NoneFound} \cup Printed]
      BY <2>1, <2>2, <2>3
  <2> QED BY <1>2, <2>4 DEF Writes, ReplyInv
<1>3. CASE UNCHANGED replyVars
    BY <1>3 DEF replyVars, ReplyInv
<1> QED BY <1>1, <1>2, <1>3 DEF ReplyNext

-----------------------------------------------------------------------------
(***************************************************************************)
(* The draft's types.  A version, and a draft settled, is one settle that has  *)
(* ended; the settles under way are the rest of those that were begun.        *)
(***************************************************************************)
SettleKinds ==
    /\ settle \in [Editors -> [pc : {"idle", "checked", "marked", "cancelled"},
                               kind : {"none", "save", "discard"}]]
    /\ test \in [Tests -> {"none", "thread", "files", "copying", "running", "over"}]
    /\ ended \in [Tests -> {"none", "succeeded", "failed", "cancelled"}]
    /\ marked \subseteq Tests /\ told \subseteq Tests /\ record \subseteq Tests
    /\ removal \in {"no", "flagged", "cancelled", "gone"}

PutsFit ==
    /\ content \in 0..MaxPuts /\ draftRun \in 0..MaxPuts /\ puts \in 0..MaxPuts
    /\ testYaml \in 0..MaxTests

UnderWay == {e \in Editors : settle[e] # Free}
SettlesFit ==
    /\ settles \in 0..MaxSettles /\ epoch \in Nat /\ version \in Nat \ {0}
    /\ IsFiniteSet(UnderWay) /\ epoch + Cardinality(UnderWay) <= settles
    /\ version <= epoch + 1

VersionsFit ==
    /\ base \in [Editors -> Nat] /\ \A e \in Editors : base[e] \in 1..version
    /\ lineage[1] = 0
    /\ born \in [Tests -> Nat] /\ \A t \in Tests : born[t] <= epoch

SettleTyped == SettleKinds /\ PutsFit /\ SettlesFit /\ VersionsFit

LEMMA SettleTypedGives == DraftInv /\ SettleTyped => SettleTypeOK
<1> SUFFICES ASSUME DraftInv, SettleTyped PROVE SettleTypeOK OBVIOUS
<1>1. /\ settles \in 0..MaxSettles /\ epoch \in 0..MaxSettles /\ version \in 1..(MaxSettles + 1)
      /\ version \in Nat
  <2>1. Cardinality(UnderWay) \in Nat
    BY FS_CardinalityType DEF SettleTyped, SettlesFit
  <2> QED
    BY <2>1, SettleAssumption DEF SettleAssumption, SettleTyped, SettlesFit
<1>2. base \in [Editors -> 1..(MaxSettles + 1)]
  BY <1>1, SettleAssumption DEF SettleAssumption, SettleTyped, VersionsFit
<1>3. born \in [Tests -> 0..MaxSettles]
  BY <1>1, SettleAssumption DEF SettleAssumption, SettleTyped, VersionsFit
<1>4. lineage \in [1..version -> 0..version]
  <2>1. lineage \in [1..version -> Nat]
    BY <1>1 DEF DraftInv, SettleFits
  <2>2. \A v \in 1..version : lineage[v] \in 0..version
    <3> SUFFICES ASSUME NEW v \in 1..version PROVE lineage[v] \in 0..version OBVIOUS
    <3>1. CASE v = 1
      BY <1>1, <3>1 DEF SettleTyped, VersionsFit
    <3>2. CASE v # 1
      BY <1>1, <3>2 DEF DraftInv, NoVersionIsOverlooked
    <3> QED
      BY <3>1, <3>2
  <2> QED
    BY <2>1, <2>2
<1> QED
  BY <1>1, <1>2, <1>3, <1>4 DEF SettleTyped, SettleKinds, PutsFit, SettleTypeOK

LEMMA SettleTypedFirst == SettleInit => SettleTyped
<1> SUFFICES ASSUME SettleInit PROVE SettleTyped OBVIOUS
<1>1. SettleKinds /\ PutsFit
  BY SettleAssumption DEF SettleAssumption, SettleInit, SettleKinds, PutsFit, Free, None
<1>2. SettlesFit
  <2>1. UnderWay = {}
    BY DEF SettleInit, UnderWay
  <2> QED
    BY <2>1, FS_EmptySet, SettleAssumption DEF SettleAssumption, SettleInit, SettlesFit
<1>3. VersionsFit
  BY DEF SettleInit, VersionsFit
<1> QED
  BY <1>1, <1>2, <1>3 DEF SettleTyped

LEMMA SettleKindsKeep == SettleKinds /\ [SettleNext]_settleVars => SettleKinds'
<1> SUFFICES ASSUME SettleKinds, [SettleNext]_settleVars PROVE SettleKinds' OBVIOUS
<1> USE DEF SettleKinds
<1>1. CASE UNCHANGED settleVars
  BY <1>1 DEF settleVars
<1>2. CASE \E e \in Editors : Reopen(e) \/ PutDraft(e) \/ SettleRefused(e)
  BY <1>2 DEF Reopen, PutDraft, SettleRefused, testVars, Free
<1>3. CASE \E e \in Editors : \E kind \in {"save", "discard"} : SettleBegins(e, kind)
  BY <1>3 DEF SettleBegins, testVars
<1>4. CASE \E e \in Editors : SettleMarks(e) \/ SettleCancels(e)
  BY <1>4 DEF SettleMarks, SettleCancels, LiveTests
<1>5. CASE \E e \in Editors : SettleEnds(e)
  BY <1>5 DEF SettleEnds, ContainerGoes, LiveTests, Free
<1>6. CASE DraftRunStarts \/ DraftRunEnds
  BY <1>6 DEF DraftRunStarts, DraftRunEnds, testVars
<1>7. CASE RemovalBegins \/ RemovalCancels \/ RemovalEnds
  BY <1>7 DEF RemovalBegins, RemovalCancels, RemovalEnds, testVars, bookVars, LiveTests
<1>8. CASE \E t \in Tests : TestStarts(t) \/ TestSetUp(t) \/ TestLands(t)
  BY <1>8 DEF TestStarts, TestSetUp, TestLands, bookVars
<1>9. CASE \E t \in Tests : TestStopsEarly(t) \/ TestSetUpFails(t)
  BY <1>9 DEF TestStopsEarly, EndsBeforeRun, TestSetUpFails, bookVars
<1>10. CASE \E t \in Tests : TestRuns(t)
  BY <1>10 DEF TestRuns, bookVars
<1> QED
  BY <1>1, <1>2, <1>3, <1>4, <1>5, <1>6, <1>7, <1>8, <1>9, <1>10 DEF SettleNext

LEMMA PutsKeep == PutsFit /\ [SettleNext]_settleVars => PutsFit'
<1> SUFFICES ASSUME PutsFit, [SettleNext]_settleVars PROVE PutsFit' OBVIOUS
<1> USE SettleAssumption DEF SettleAssumption, PutsFit
<1>1. CASE UNCHANGED <<content, draftRun, puts, testYaml>>
  BY <1>1
<1>2. CASE \E e \in Editors : PutDraft(e)
  BY <1>2 DEF PutDraft, testVars
<1>3. CASE \E e \in Editors : SettleEnds(e)
  BY <1>3 DEF SettleEnds, ContainerGoes, None
<1>4. CASE DraftRunStarts \/ DraftRunEnds
  BY <1>4 DEF DraftRunStarts, DraftRunEnds, testVars, None
<1>5. CASE RemovalEnds
  BY <1>5 DEF RemovalEnds, None
<1>6. CASE \E t \in Tests : TestSetUp(t) \/ TestLands(t)
  <2>1. UNCHANGED <<content, draftRun, puts>> /\ testYaml' \in {testYaml, None} \cup Tests
    BY <1>6 DEF TestSetUp, TestLands, bookVars
  <2> QED
    BY <2>1 DEF Tests, None
<1>7. CASE \/ UNCHANGED settleVars
           \/ \E e \in Editors : \/ Reopen(e) \/ SettleMarks(e) \/ SettleCancels(e) \/ SettleRefused(e)
                                 \/ \E kind \in {"save", "discard"} : SettleBegins(e, kind)
           \/ RemovalBegins \/ RemovalCancels
           \/ \E t \in Tests : TestStarts(t) \/ TestStopsEarly(t) \/ TestSetUpFails(t) \/ TestRuns(t)
  BY <1>1, <1>7 DEF settleVars, Reopen, SettleMarks, SettleCancels, SettleRefused, SettleBegins,
     RemovalBegins, RemovalCancels, TestStarts, TestStopsEarly, TestSetUpFails, TestRuns, testVars, bookVars
<1> QED
  BY <1>2, <1>3, <1>4, <1>5, <1>6, <1>7 DEF SettleNext

LEMMA SettlesKeep ==
  ASSUME SettleKinds, SettlesFit, VersionsFit, DraftInv, [SettleNext]_settleVars
  PROVE  SettlesFit' /\ VersionsFit'
<1>1. CASE \E e \in Editors : \E kind \in {"save", "discard"} : SettleBegins(e, kind)
  <2> PICK e \in Editors, kind \in {"save", "discard"} : SettleBegins(e, kind) BY <1>1
  <2>1. /\ settle[e] = Free /\ settle' = [settle EXCEPT ![e] = [pc |-> "checked", kind |-> kind]]
        /\ settles < MaxSettles /\ settles' = settles + 1
        /\ UNCHANGED <<version, base, lineage, epoch, born>>
    BY DEF SettleBegins, testVars
  <2>2. UnderWay' = UnderWay \cup {e} /\ e \notin UnderWay
    BY <2>1 DEF SettleKinds, UnderWay, Free
  <2>3. IsFiniteSet(UnderWay') /\ Cardinality(UnderWay') = Cardinality(UnderWay) + 1
    BY <2>2, FS_AddElement DEF SettlesFit
  <2>4. Cardinality(UnderWay) \in Nat
    BY FS_CardinalityType DEF SettlesFit
  <2>5. SettlesFit'
    BY <2>1, <2>3, <2>4, SettleAssumption DEF SettleAssumption, SettlesFit
  <2> QED
    BY <2>1, <2>5 DEF VersionsFit
<1>2. CASE \E e \in Editors : SettleEnds(e)
  <2> PICK e \in Editors : SettleEnds(e) BY <1>2
  <2>1. /\ settle[e].pc = "cancelled" /\ settle' = [settle EXCEPT ![e] = Free]
        /\ epoch' = epoch + 1 /\ UNCHANGED <<settles, born>>
        /\ \/ version' = version + 1 /\ lineage' = Append(lineage, base[e])
              /\ base' = [base EXCEPT ![e] = version + 1]
           \/ UNCHANGED <<version, lineage, base>>
    BY DEF SettleEnds, ContainerGoes
  <2>2. UnderWay' = UnderWay \ {e} /\ e \in UnderWay
    BY <2>1 DEF SettleKinds, UnderWay, Free
  <2>3. IsFiniteSet(UnderWay') /\ Cardinality(UnderWay') = Cardinality(UnderWay) - 1
    BY <2>2, FS_RemoveElement DEF SettlesFit
  <2>4. Cardinality(UnderWay) \in Nat
    BY FS_CardinalityType DEF SettlesFit
  <2>5. SettlesFit'
    BY <2>1, <2>3, <2>4 DEF SettlesFit
  <2>6. lineage'[1] = 0
    <3>1. lineage \in Seq(Nat) /\ Len(lineage) = version /\ version \in Nat \ {0} /\ lineage[1] = 0
      BY DEF VersionsFit, DraftInv, SettleFits
    <3>2. base[e] \in Nat
      BY DEF VersionsFit
    <3> QED
      BY <2>1, <3>1, <3>2
  <2>7. base' \in [Editors -> Nat] /\ \A d \in Editors : base'[d] \in 1..version'
    BY <2>1 DEF VersionsFit, SettlesFit
  <2>8. born' \in [Tests -> Nat] /\ \A t \in Tests : born'[t] <= epoch'
    BY <2>1 DEF VersionsFit, SettlesFit
  <2> QED
    BY <2>5, <2>6, <2>7, <2>8 DEF VersionsFit
<1>3. CASE \E e \in Editors : SettleRefused(e)
  <2> PICK e \in Editors : SettleRefused(e) BY <1>3
  <2>1. /\ settle[e].pc = "cancelled" /\ settle' = [settle EXCEPT ![e] = Free]
        /\ UNCHANGED <<version, base, lineage, epoch, settles, born>>
    BY DEF SettleRefused, testVars
  <2>2. UnderWay' = UnderWay \ {e} /\ e \in UnderWay
    BY <2>1 DEF SettleKinds, UnderWay, Free
  <2>3. IsFiniteSet(UnderWay') /\ Cardinality(UnderWay') = Cardinality(UnderWay) - 1
    BY <2>2, FS_RemoveElement DEF SettlesFit
  <2>4. Cardinality(UnderWay) \in Nat
    BY FS_CardinalityType DEF SettlesFit
  <2> QED
    BY <2>1, <2>3, <2>4 DEF SettlesFit, VersionsFit
<1>4. CASE \E e \in Editors : SettleMarks(e) \/ SettleCancels(e)
  <2> PICK e \in Editors : SettleMarks(e) \/ SettleCancels(e) BY <1>4
  <2>1. /\ settle[e].pc # "idle" /\ UNCHANGED <<version, base, lineage, epoch, settles, born>>
        /\ \E pc \in {"marked", "cancelled"} : settle' = [settle EXCEPT ![e].pc = pc]
    BY DEF SettleMarks, SettleCancels
  <2>2. UnderWay' = UnderWay
    BY <2>1 DEF SettleKinds, UnderWay, Free
  <2> QED
    BY <2>1, <2>2 DEF SettlesFit, VersionsFit
<1>5. CASE \E e \in Editors : Reopen(e)
  <2>1. UNCHANGED <<settle, version, lineage, epoch, settles, born>>
    BY <1>5 DEF Reopen, testVars
  <2>2. base' \in [Editors -> Nat] /\ \A d \in Editors : base'[d] \in 1..version
    BY <1>5 DEF Reopen, VersionsFit, SettlesFit
  <2> QED
    BY <2>1, <2>2 DEF SettlesFit, VersionsFit, UnderWay
<1>6. CASE \E t \in Tests : TestStarts(t)
  <2>1. UNCHANGED <<settle, version, lineage, epoch, settles, base>>
    BY <1>6 DEF TestStarts, bookVars
  <2>2. born' \in [Tests -> Nat] /\ \A t \in Tests : born'[t] <= epoch
    BY <1>6 DEF TestStarts, VersionsFit, SettlesFit
  <2> QED
    BY <2>1, <2>2 DEF SettlesFit, VersionsFit, UnderWay
<1>7. CASE UNCHANGED <<settle, version, lineage, epoch, settles, base, born>>
  BY <1>7 DEF SettlesFit, VersionsFit, UnderWay
<1>8. CASE \/ UNCHANGED settleVars \/ \E e \in Editors : PutDraft(e)
           \/ DraftRunStarts \/ DraftRunEnds \/ RemovalBegins \/ RemovalCancels \/ RemovalEnds
           \/ \E t \in Tests : \/ TestStopsEarly(t) \/ TestSetUp(t) \/ TestSetUpFails(t)
                               \/ TestRuns(t) \/ TestLands(t)
  BY <1>7, <1>8 DEF settleVars, PutDraft, DraftRunStarts, DraftRunEnds, RemovalBegins, RemovalCancels,
     RemovalEnds, TestStopsEarly, TestSetUp, TestSetUpFails, TestRuns, TestLands, testVars, bookVars
<1> QED
  BY <1>1, <1>2, <1>3, <1>4, <1>5, <1>6, <1>8 DEF SettleNext

LEMMA SettleTypedKeeps == DraftInv /\ SettleTyped /\ [SettleNext]_settleVars => SettleTyped'
BY SettleKindsKeep, PutsKeep, SettlesKeep DEF SettleTyped

-----------------------------------------------------------------------------
(***************************************************************************)
(* The jobs' types.                                                         *)
(***************************************************************************)
JobPlaces ==
    /\ request \in [Jobs -> {"none", "read", "refused", "started", "launched", "answered"}]
    /\ thread \in [Jobs -> {"none", "ready", "calling", "spawned", "registered", "reading",
                            "guarding", "returned", "tampered", "settling", "over"}]
    /\ backend \in {"runs", "stops", "gone"}

JobSets == noted \subseteq Jobs /\ grip \subseteq Jobs /\ owed \subseteq Signal

JobFlags == flagged \in BOOLEAN /\ settling \in BOOLEAN

JobCounts ==
    /\ generation \in 0..MaxDrafts /\ calls \in [Jobs -> 0..MaxCalls] /\ tampers \in 0..MaxTampers

JobTyped == JobPlaces /\ JobSets /\ JobFlags /\ JobCounts

LEMMA JobTypedGives == JobInv /\ JobTyped => JobsTypeOK
<1> SUFFICES ASSUME JobInv, JobTyped PROVE JobsTypeOK OBVIOUS
<1>1. seen \in [Jobs -> 0..MaxDrafts]
  BY JobsAssumption DEF JobsAssumption, JobInv, JobFits, JobsFit, JobTyped, JobCounts
<1> QED
  BY <1>1 DEF JobInv, JobFits, JobTyped, JobPlaces, JobSets, JobFlags, JobCounts, JobsTypeOK

LEMMA JobTypedFirst == JobsInit => JobTyped
<1>1. JobsInit => JobPlaces /\ JobSets
  BY DEF JobsInit, JobPlaces, JobSets
<1>2. JobsInit => JobFlags
  BY DEF JobsInit, JobFlags
<1>3. JobsInit => JobCounts
  BY JobsAssumption DEF JobsAssumption, JobsInit, JobCounts
<1> QED
  BY <1>1, <1>2, <1>3 DEF JobTyped

LEMMA JobPlacesKeep == JobPlaces /\ [JobsNext]_jobVars => JobPlaces'
<1> SUFFICES ASSUME JobPlaces, [JobsNext]_jobVars PROVE JobPlaces' OBVIOUS
<1> USE DEF JobPlaces
<1>1. CASE UNCHANGED jobVars
  BY <1>1 DEF jobVars
<1>2. CASE \E j \in Jobs : PostReads(j) \/ Start(j) \/ StartRefused(j) \/ ThreadStarts(j)
                         \/ PostAnswers(j)
  BY <1>2 DEF PostReads, Start, StartRefused, ThreadStarts, PostAnswers, callVars
<1>3. CASE \E j \in Jobs : UserCancels(j) \/ Cancels(j) \/ Ack(j)
  BY <1>3 DEF UserCancels, Cancels, Ack, callVars
<1>4. CASE \E c \in owed : Signals(c)
  BY <1>4 DEF Signals, callVars
<1>5. CASE SettleBumps \/ RemovalFlags \/ SettleScans \/ Shutdown \/ Exits
  BY <1>5 DEF SettleBumps, RemovalFlags, SettleScans, Shutdown, Exits, callVars
<1>6. CASE \E j \in Jobs : InvokeBegins(j) \/ Spawn(j) \/ Registers(j) \/ AbortCheck(j)
  BY <1>6 DEF InvokeBegins, Spawn, Registers, AbortCheck
<1>7. CASE \E j \in Jobs : CallEnds(j) \/ GuardCompares(j) \/ GoesOn(j)
  BY <1>7 DEF CallEnds, GuardCompares, GoesOn
<1>8. CASE \E j \in Jobs : Settles(j) \/ Tamper(j)
  BY <1>8 DEF Settles, Tamper
<1> QED
  BY <1>1, <1>2, <1>3, <1>4, <1>5, <1>6, <1>7, <1>8 DEF JobsNext, RegistrySteps, JobSteps

\* Whoever marks a job cancelled is named among those who can owe its signal.
LEMMA OwesAreSignals ==
  ASSUME NEW who \in 0..Stopper, NEW js \in SUBSET Jobs PROVE Owes(who, js) \subseteq Signal
BY DEF Owes, Signal

LEMMA JobSetsKeep == JobInv /\ JobSets /\ [JobsNext]_jobVars => JobSets'
<1> SUFFICES ASSUME JobInv, JobSets, [JobsNext]_jobVars PROVE JobSets' OBVIOUS
<1>1. Building \subseteq Jobs /\ \A js : js \cap Building \subseteq Jobs
  BY DEF JobInv, JobFits, Building
<1>2. Canceller \in 0..Stopper /\ Stopper \in 0..Stopper /\ \A j \in Jobs : j \in 0..Stopper
  BY JobsAssumption DEF JobsAssumption, Canceller, Stopper, Jobs
<1>3. ASSUME NEW who \in 0..Stopper, NEW js, MarksCancelled(who, js) PROVE owed' \subseteq Signal
  BY <1>1, <1>3, OwesAreSignals DEF MarksCancelled, JobSets
<1>4. owed' \subseteq Signal
  <2>1. CASE owed' \subseteq owed
    BY <2>1 DEF JobSets
  <2>2. ASSUME NEW j \in Jobs, Start(j) PROVE owed' \subseteq Signal
    BY <1>1, <1>2, <2>2, OwesAreSignals DEF Start, JobSets
  <2>3. ASSUME NEW j \in Jobs, PostAnswers(j) PROVE owed' \subseteq Signal
    BY <1>2, <1>3, <2>3 DEF PostAnswers, JobSets
  <2>4. ASSUME NEW j \in Jobs, UserCancels(j) \/ Cancels(j) PROVE owed' \subseteq Signal
    BY <1>2, <1>3, <2>4 DEF UserCancels, Cancels
  <2>5. CASE Shutdown
    BY <1>2, <1>3, <2>5 DEF Shutdown
  <2>6. CASE Exits
    BY <2>6 DEF Exits
  <2>7. CASE \E j \in Jobs : JobSteps(j) \/ Tamper(j)
    BY <2>1, <2>7 DEF JobSteps, InvokeBegins, Spawn, Registers, AbortCheck, CallEnds,
       GuardCompares, GoesOn, Settles, Tamper
  <2>8. CASE RegistrySteps
    BY <2>1, <2>2, <2>3, <2>4, <2>5, <2>6, <2>8 DEF RegistrySteps, PostReads, StartRefused,
       ThreadStarts, Ack, Signals, SettleBumps, RemovalFlags, SettleScans
  <2> QED
    BY <2>1, <2>7, <2>8 DEF JobsNext, jobVars
<1>5. noted' \subseteq noted \cup Building /\ grip' \subseteq grip \cup Jobs
  <2>1. CASE UNCHANGED jobVars
    BY <2>1 DEF jobVars
  <2>2. CASE RegistrySteps
    BY <2>2 DEF RegistrySteps, PostReads, Start, StartRefused, ThreadStarts, PostAnswers,
       UserCancels, Cancels, Ack, Signals, SettleBumps, RemovalFlags, SettleScans, Shutdown, Exits
  <2>3. CASE \E j \in Jobs : JobSteps(j) \/ Tamper(j)
    BY <2>3 DEF JobSteps, InvokeBegins, Spawn, Registers, AbortCheck, CallEnds, GuardCompares,
       GoesOn, Settles, Tamper
  <2> QED
    BY <2>1, <2>2, <2>3 DEF JobsNext
<1> QED
  BY <1>1, <1>4, <1>5 DEF JobSets

LEMMA JobFlagsKeep == JobFlags /\ [JobsNext]_jobVars => JobFlags'
<1> SUFFICES ASSUME JobFlags, [JobsNext]_jobVars PROVE JobFlags' OBVIOUS
<1>1. flagged' \in {flagged, TRUE} /\ settling' \in {settling, TRUE, FALSE}
  <2>1. CASE UNCHANGED jobVars
    BY <2>1 DEF jobVars
  <2>2. CASE RegistrySteps
    BY <2>2 DEF RegistrySteps, PostReads, Start, StartRefused, ThreadStarts, PostAnswers,
       UserCancels, Cancels, Ack, Signals, SettleBumps, RemovalFlags, SettleScans, Shutdown, Exits
  <2>3. CASE \E j \in Jobs : JobSteps(j) \/ Tamper(j)
    BY <2>3 DEF JobSteps, InvokeBegins, Spawn, Registers, AbortCheck, CallEnds, GuardCompares, GoesOn,
       Settles, Tamper
  <2> QED
    BY <2>1, <2>2, <2>3 DEF JobsNext
<1> QED
  BY <1>1 DEF JobFlags

LEMMA JobCountsKeep == JobCounts /\ [JobsNext]_jobVars => JobCounts'
<1> SUFFICES ASSUME JobCounts, [JobsNext]_jobVars PROVE JobCounts' OBVIOUS
<1> USE JobsAssumption DEF JobsAssumption, JobCounts
<1>1. CASE UNCHANGED <<generation, calls, tampers>>
  BY <1>1
<1>2. CASE UNCHANGED jobVars \/ (RegistrySteps /\ ~ SettleBumps)
  BY <1>1, <1>2 DEF jobVars, RegistrySteps, PostReads, Start, StartRefused, ThreadStarts,
     PostAnswers, UserCancels, Cancels, Ack, Signals, RemovalFlags, SettleScans, Shutdown, Exits,
     callVars
<1>3. CASE SettleBumps
  BY <1>3 DEF SettleBumps, callVars
<1>4. CASE \E j \in Jobs : Tamper(j)
  BY <1>4 DEF Tamper
<1>5. CASE \E j \in Jobs : InvokeBegins(j)
  BY <1>5 DEF InvokeBegins
<1>6. CASE \E j \in Jobs : \/ Spawn(j) \/ Registers(j) \/ AbortCheck(j) \/ CallEnds(j)
                         \/ GuardCompares(j) \/ GoesOn(j) \/ Settles(j)
  BY <1>1, <1>6 DEF Spawn, Registers, AbortCheck, CallEnds, GuardCompares, GoesOn, Settles
<1> QED
  BY <1>2, <1>3, <1>4, <1>5, <1>6 DEF JobsNext, JobSteps

LEMMA JobTypedKeeps == JobInv /\ JobTyped /\ [JobsNext]_jobVars => JobTyped'
BY JobPlacesKeep, JobSetsKeep, JobFlagsKeep, JobCountsKeep DEF JobTyped

-----------------------------------------------------------------------------
(***************************************************************************)
(* The types.  Most are kept step by step, the truth values apart from the      *)
(* rest; the counts are bounded by what they count: a version and an epoch by   *)
(* the settles that have ended.                                              *)
(***************************************************************************)
CallPlaces ==
    /\ call \in Assembling \cup {"idle", "reading", "reaping", "raising", "stopping",
                               "answering", "leaving", "returned"}
    /\ child \in {"none", "running", "ok", "bad", "killed"}
    /\ prompt \in {"unsent", "partly", "sent", "dropped"}
    /\ held \in {"no", "proc", "both"}
    /\ guard \in {"off", "watch", "due", "kill", "release", "ended"}
    /\ canceller \in {"no", "flagged", "term", "free", "kill", "gone"}
    /\ doc \in {"none", "small", "big"} /\ poll \in {"off", "wait", "reading", "stopped"}
    /\ fed \in {"none", "shown", "late"} /\ verdict \in Verdicts

CallFlags ==
    /\ helper \in BOOLEAN /\ line \in BOOLEAN /\ mute \in BOOLEAN /\ released \in BOOLEAN
    /\ drained \in BOOLEAN /\ expired \in BOOLEAN /\ capped \in BOOLEAN /\ overflow \in BOOLEAN
    /\ done \in BOOLEAN /\ dead \in BOOLEAN

CallClock == quiet \in 0..Silence /\ age \in 0..HardCap

CallTyped == CallPlaces /\ CallFlags /\ CallClock

LEMMA CallTypedGives == CallTyped => CallTypeOK
BY DEF CallTyped, CallPlaces, CallFlags, CallClock, CallTypeOK

LEMMA CallTypedFirst == CallInit => CallTyped
<1>1. CallInit => CallPlaces
  BY DEF CallInit, CallPlaces, Verdicts
<1>2. CallInit => CallFlags
  BY DEF CallInit, CallFlags
<1>3. CallInit => CallClock
  BY CallAssumption DEF CallAssumption, CallInit, CallClock
<1> QED
  BY <1>1, <1>2, <1>3 DEF CallTyped

LEMMA CallClockKeeps == CallClock /\ [CallNext]_agentCallVars => CallClock'
<1> SUFFICES ASSUME CallClock, [CallNext]_agentCallVars PROVE CallClock'
  OBVIOUS
<1>1. CASE Tick
  BY <1>1, CallAssumption DEF CallAssumption, Tick, CallClock
<1>2. CASE ReadLine \/ PollFeeds
  <2>1. quiet' = 0 /\ age' = age
    BY <1>2 DEF ReadLine, PollFeeds
  <2> QED
    BY <2>1, CallAssumption DEF CallAssumption, CallClock
<1>3. CASE UNCHANGED clock
  BY <1>3 DEF clock, CallClock
<1>4. CASE \/ CannotSpawn \/ SpawnAgent \/ Hold \/ Build \/ BuildFails \/ CallRecheck \/ Eof
           \/ Reap \/ Raise \/ Stop \/ Answer \/ LeaveCall \/ Watchdog \/ WriterGivesUp \/ PollFinds
           \/ CancelCall \/ Child \/ UNCHANGED agentCallVars
  BY <1>3, <1>4 DEF CannotSpawn, SpawnAgent, Hold, Build, BuildFails, CallRecheck, Eof, Reap, Raise,
     Stop, Answer, LeaveCall, Watchdog, WatchEnds, WatchDecides, WatchKills, WriterGivesUp, PollFinds,
     CancelCall, Child, ChildReads, ChildWrites, ChildSavesDocument, ChildLingers, ChildForks,
     ChildExits, agentCallVars
<1> QED
  BY <1>1, <1>2, <1>4 DEF CallNext, ReaderThread

LEMMA CallPlacesKeep == CallPlaces /\ [CallNext]_agentCallVars => CallPlaces'
<1> SUFFICES ASSUME CallPlaces, [CallNext]_agentCallVars PROVE CallPlaces'
  OBVIOUS
<1> USE DEF CallPlaces
<1>1. CASE CannotSpawn \/ SpawnAgent \/ Hold \/ Build
  BY <1>1 DEF CannotSpawn, SpawnAgent, Hold, Build, pipes, callEvents, clock, watched, Verdicts, Assembling
<1>2. CASE BuildFails \/ CallRecheck
  BY <1>2 DEF BuildFails, CallRecheck, KillCallGroup, ReleaseCall, Built, pipes, callEvents, clock, watched, Verdicts, Assembling
<1>3. CASE ReadLine
  <2>1. /\ call' \in {call, "raising"} /\ verdict' \in {verdict, "too big", "error"}
        /\ UNCHANGED <<child, prompt, held, guard, canceller, doc, poll, fed>>
    BY <1>3 DEF ReadLine, watched
  <2>2. verdict' \in Verdicts
    BY <2>1 DEF Verdicts
  <2>3. /\ call' \in Assembling \cup {"idle", "reading", "reaping", "raising", "stopping",
                                     "answering", "leaving", "returned"}
        /\ UNCHANGED <<child, prompt, held, guard, canceller, doc, poll, fed>>
    BY <2>1
  <2> QED
    BY <2>2, <2>3
<1>4. CASE Eof \/ Reap \/ Raise
  BY <1>4 DEF Eof, Reap, Raise, KillCallGroup, pipes, callEvents, clock, watched, Verdicts, Assembling
<1>5. CASE Stop
  <2>1. /\ call' \in {"answering", "leaving"} /\ prompt' \in {prompt, "dropped"}
        /\ poll' \in {poll, "stopped"} /\ fed' \in {fed, "shown"}
    BY <1>5 DEF Stop
  <2>2. UNCHANGED <<child, held, guard, canceller, doc, verdict>>
    BY <1>5 DEF Stop
  <2> QED
    BY <2>1, <2>2
<1>6. CASE Answer \/ LeaveCall
  BY <1>6 DEF Answer, LeaveCall, pipes, callEvents, clock, watched, Verdicts, Assembling
<1>7. CASE WatchEnds \/ WatchDecides
  BY <1>7 DEF WatchEnds, WatchDecides, pipes, callEvents, clock, watched
<1>8. CASE WatchKills \/ WriterGivesUp
  BY <1>8 DEF WatchKills, WriterGivesUp, KillCallGroup, ReleaseCall, Built, pipes, callEvents, clock, watched
<1>9. CASE Tick \/ PollFeeds
  BY <1>9, CallAssumption DEF CallAssumption, Tick, PollFeeds, pipes, callEvents, clock, watched
<1>10. CASE PollFinds \/ CancelCall
  BY <1>10 DEF PollFinds, CancelCall, KillCallGroup, ReleaseCall, Built, pipes, callEvents, clock, watched
<1>11. CASE ChildReads \/ ChildWrites \/ ChildSavesDocument
  BY <1>11, CallAssumption DEF CallAssumption, ChildReads, ChildWrites, ChildSavesDocument, pipes, callEvents, clock, watched
<1>12. CASE ChildLingers \/ ChildForks \/ ChildExits
  BY <1>12 DEF ChildLingers, ChildForks, ChildExits, pipes, callEvents, clock, watched
<1>13. CASE UNCHANGED agentCallVars
  BY <1>13 DEF agentCallVars, pipes, callEvents, clock, watched
<1> QED
  BY <1>1, <1>2, <1>3, <1>4, <1>5, <1>6, <1>7, <1>8, <1>9, <1>10, <1>11, <1>12, <1>13
     DEF CallNext, ReaderThread, Watchdog, Child

LEMMA CallFlagsKeep == CallFlags /\ [CallNext]_agentCallVars => CallFlags'
<1> SUFFICES ASSUME CallFlags, [CallNext]_agentCallVars PROVE CallFlags'
  OBVIOUS
<1> USE DEF CallFlags
<1>1. CASE CannotSpawn \/ SpawnAgent \/ Hold \/ Build
  BY <1>1 DEF CannotSpawn, SpawnAgent, Hold, Build, pipes, callEvents, clock, watched
<1>2. CASE BuildFails \/ CallRecheck
  BY <1>2 DEF BuildFails, CallRecheck, KillCallGroup, ReleaseCall, Built, pipes, callEvents, clock, watched, Aborting
<1>3. CASE ReadLine
  BY <1>3 DEF ReadLine, pipes, callEvents, clock, watched
<1>4. CASE Eof \/ Reap \/ Raise
  BY <1>4 DEF Eof, Reap, Raise, KillCallGroup, pipes, callEvents, clock, watched
<1>5. CASE Stop
  BY <1>5 DEF Stop, pipes, callEvents, clock, watched
<1>6. CASE Answer \/ LeaveCall
  BY <1>6 DEF Answer, LeaveCall, pipes, callEvents, clock, watched
<1>7. CASE WatchEnds \/ WatchDecides
  BY <1>7 DEF WatchEnds, WatchDecides, pipes, callEvents, clock, watched
<1>8. CASE WatchKills \/ WriterGivesUp
  BY <1>8 DEF WatchKills, WriterGivesUp, KillCallGroup, ReleaseCall, Built, pipes, callEvents, clock, watched
<1>9. CASE Tick \/ PollFeeds
  BY <1>9 DEF Tick, PollFeeds, pipes, callEvents, clock, watched
<1>10. CASE PollFinds \/ CancelCall
  <2>1. CASE PollFinds
    <3>1. /\ overflow' \in {overflow, TRUE}
          /\ UNCHANGED <<helper, line, mute, drained, expired, capped, done, dead>>
      BY <2>1 DEF PollFinds
    <3>2. released' \in BOOLEAN
      BY <2>1 DEF PollFinds, ReleaseCall, Built
    <3> QED
      BY <3>1, <3>2
  <2>2. CASE CancelCall
    BY <2>2 DEF CancelCall, KillCallGroup, ReleaseCall, Built, pipes, callEvents, clock, watched
  <2> QED
    BY <1>10, <2>1, <2>2
<1>11. CASE ChildReads \/ ChildWrites \/ ChildSavesDocument
  BY <1>11 DEF ChildReads, ChildWrites, ChildSavesDocument, pipes, callEvents, clock, watched
<1>12. CASE ChildLingers \/ ChildForks \/ ChildExits
  BY <1>12 DEF ChildLingers, ChildForks, ChildExits, pipes, callEvents, clock, watched
<1>13. CASE UNCHANGED agentCallVars
  BY <1>13 DEF agentCallVars, pipes, callEvents, clock, watched
<1> QED
  BY <1>1, <1>2, <1>3, <1>4, <1>5, <1>6, <1>7, <1>8, <1>9, <1>10, <1>11, <1>12, <1>13
     DEF CallNext, ReaderThread, Watchdog, Child

LEMMA CallTypedKeeps == CallTyped /\ [CallNext]_agentCallVars => CallTyped'
BY CallPlacesKeep, CallFlagsKeep, CallClockKeeps DEF CallTyped

-----------------------------------------------------------------------------
(***************************************************************************)
(* The types of a reply, a stream and a chat: what is read is as long as it may  *)
(* grow, and a block is of a round that has been asked.                       *)
(***************************************************************************)
LEMMA BoundedIs ==
  ASSUME NEW S, NEW n \in Nat, NEW s \in Seq(S), Len(s) <= n
  PROVE  s \in SeqOf(S, n)
<1>1. Len(s) \in 0..n /\ s \in [1..Len(s) -> S]
  OBVIOUS
<1> QED
  BY <1>1 DEF SeqOf

ReplyTyped ==
    /\ Len(stdout) <= MaxLines
    /\ \A f \in Files : docs[f] # NoneFound => Len(docs[f]) <= MaxBody

LEMMA ReplyTypedGives == ReplyInv /\ ReplyTyped => ReplyTypeOK
<1> SUFFICES ASSUME ReplyInv, ReplyTyped PROVE ReplyTypeOK OBVIOUS
<1>1. stdout \in SeqOf(Lines, MaxLines)
  BY BoundedIs, ReplyAssumption DEF ReplyAssumption, ReplyInv, ReplyTyped, Printed
<1>2. \A f \in Files : docs[f] \in {NoneFound} \cup SeqOf(Lines, MaxBody)
  <2> SUFFICES ASSUME NEW f \in Files, docs[f] # NoneFound
               PROVE  docs[f] \in SeqOf(Lines, MaxBody)
    OBVIOUS
  <2>1. docs[f] \in Seq(Lines) /\ Len(docs[f]) <= MaxBody
    BY DEF ReplyInv, ReplyTyped, Printed
  <2> QED
    BY <2>1, BoundedIs, ReplyAssumption DEF ReplyAssumption
<1> QED
  BY <1>1, <1>2 DEF ReplyInv, ReplyTypeOK

LEMMA ReplyTypedFirst == ReplyInit => ReplyTyped
BY ReplyAssumption DEF ReplyAssumption, ReplyInit, ReplyTyped

LEMMA ReplyTypedKeeps == ReplyInv /\ ReplyTyped /\ [ReplyNext]_replyVars => ReplyTyped'
<1> SUFFICES ASSUME ReplyInv, ReplyTyped, [ReplyNext]_replyVars PROVE ReplyTyped' OBVIOUS
<1>1. CASE Prints
  <2>1. PICK l \in Lines : stdout' = Append(stdout, l) BY <1>1 DEF Prints
  <2>2. Len(stdout') = Len(stdout) + 1 /\ Len(stdout) \in Nat
    BY <2>1 DEF ReplyInv, Printed
  <2> QED
    BY <1>1, <2>2, ReplyAssumption DEF ReplyAssumption, Prints, ReplyTyped
<1>2. CASE Writes
  <2>1. PICK f \in Files, l \in Lines :
          /\ Size("spec.md") + Size("notes.md") < MaxBody
          /\ docs' = [docs EXCEPT ![f] = IF @ = NoneFound THEN <<l>> ELSE Append(@, l)]
    BY <1>2 DEF Writes
  <2>5. docs[f] # NoneFound => Len(docs[f]) < MaxBody
    <3>1. \A g \in Files : Size(g) \in Nat
      BY DEF Size, ReplyInv, Printed
    <3>2. \A g \in Files : Size(g) <= Size("spec.md") + Size("notes.md")
      BY <3>1 DEF Files
    <3>3. Size(f) < MaxBody
      BY <2>1, <3>1, <3>2, ReplyAssumption DEF ReplyAssumption, Files
    <3> QED
      BY <3>3 DEF Size
  <2>2. docs'[f] = IF docs[f] = NoneFound THEN <<l>> ELSE Append(docs[f], l)
    BY <2>1 DEF ReplyInv
  <2>3. Len(docs'[f]) <= MaxBody
    <3>1. CASE docs[f] = NoneFound
      <4>1. Len(<<l>>) = 1
        OBVIOUS
      <4> QED
        BY <2>2, <3>1, <4>1, ReplyAssumption DEF ReplyAssumption
    <3>2. CASE docs[f] # NoneFound
      <4>1. docs[f] \in Seq(Lines)
        BY <3>2 DEF ReplyInv, Printed
      <4>2. Len(docs'[f]) = Len(docs[f]) + 1 /\ Len(docs[f]) \in Nat
        BY <2>2, <3>2, <4>1
      <4> QED
        BY <2>5, <3>2, <4>2, ReplyAssumption DEF ReplyAssumption
    <3> QED
      BY <3>1, <3>2
  <2>4. \A g \in Files \ {f} : docs'[g] = docs[g]
    BY <2>1 DEF ReplyInv
  <2> QED
    BY <1>2, <2>3, <2>4 DEF Writes, ReplyTyped
<1>3. CASE UNCHANGED replyVars
  BY <1>3 DEF replyVars, ReplyTyped
<1> QED
  BY <1>1, <1>2, <1>3 DEF ReplyNext

LEMMA ScanTypedGives == ScanInv /\ Len(text) <= MaxText => ScanTypeOK
<1> SUFFICES ASSUME ScanInv, Len(text) <= MaxText PROVE ScanTypeOK OBVIOUS
<1>0. text \in Texts /\ Len(text) \in Nat /\ MaxText \in Nat
  BY TextIs, ScanAssumption DEF ScanAssumption, ScanInv
<1>1. text \in SeqOf(Tokens, MaxText)
  BY <1>0, BoundedIs DEF Texts
<1>2. ASSUME NEW k \in DOMAIN marks PROVE marks[k] \in [at : 1..MaxText, to : 1..MaxText + 1]
  <2>1. PICK i \in Found(text, 1) : marks[k].at = i /\ marks[k] = Mark(text, i)
    BY DEF ScanInv, MarksFit
  <2>2. i \in 1..Len(text) /\ text[i] # "newline"
    BY <2>1 DEF Found, Matches
  <2>3. LineEnd(text, i) \in i..Len(text)
    BY <1>0, <2>2, LineEnds DEF EndsAt
  <2>4. MatchEnd(text, i) \in 1..Len(text) + 1
    BY <1>0, <2>2, <2>3, MatchEnds
  <2> QED
    BY <1>0, <2>1, <2>2, <2>4 DEF Mark
<1>3. tailStart \in 1..MaxText + 1
  BY <1>0 DEF ScanInv
<1> QED
  BY <1>1, <1>2, <1>3 DEF ScanTypeOK

LEMMA TextIsBounded ==
  /\ ScanInit => Len(text) <= MaxText
  /\ ScanInv /\ Len(text) <= MaxText /\ [ScanNext]_scanVars => (Len(text) <= MaxText)'
<1>1. ScanInit => Len(text) <= MaxText
  BY ScanAssumption DEF ScanAssumption, ScanInit
<1>2. SUFFICES ASSUME ScanInv, Len(text) <= MaxText, [ScanNext]_scanVars PROVE Len(text') <= MaxText
  BY <1>1
<1>3. CASE Feed
  <2>1. PICK n \in 1..MaxChunk, c \in [1..MaxChunk -> Tokens] :
          Len(text) + n =< MaxText /\ text' = text \o SubSeq(c, 1, n)
    BY <1>3 DEF Feed
  <2>2. n \in Nat /\ MaxChunk \in Nat /\ n <= MaxChunk
    BY ScanAssumption DEF ScanAssumption
  <2>3. SubSeq(c, 1, n) \in Seq(Tokens) /\ Len(SubSeq(c, 1, n)) = n
    BY <2>2
  <2>4. Len(text') = Len(text) + n
    BY <2>1, <2>3 DEF ScanInv, Texts
  <2> QED
    BY <2>1, <2>4
<1>4. CASE UNCHANGED scanVars
  <2>1. text' = text
    BY <1>4 DEF scanVars
  <2> QED
    BY <1>2, <2>1
<1> QED
  BY <1>2, <1>3, <1>4 DEF ScanNext

LEMMA MadeBlocksAreBlocks ==
  ASSUME round \in 1..RepairRounds + 1
  PROVE  /\ Nothing \in [Names -> FencedBlock]
         /\ \A b \in Responses : b \in [Names -> FencedBlock]
         /\ \A a, b \in [Names -> FencedBlock] : Merge(a, b) \in [Names -> FencedBlock]
         /\ \A b \in [Names -> FencedBlock] : Good(b) \in [Names -> FencedBlock]
<1>1. Nothing \in [Names -> FencedBlock]
  BY DEF Nothing, FencedBlock
<1>2. ASSUME NEW b \in Responses PROVE b \in [Names -> FencedBlock]
  <2>1. PICK is \in ReplyKinds : b = Offered(is)
    BY DEF Responses
  <2>2. \A f \in Names : is[f] # "none" => [in |-> round, is |-> is[f]] \in FencedBlock
    BY DEF ReplyKinds, FencedBlock
  <2>3. NoAnswer \in FencedBlock
    BY DEF FencedBlock
  <2> QED
    BY <2>1, <2>2, <2>3 DEF Offered
<1>3. ASSUME NEW a \in [Names -> FencedBlock], NEW b \in [Names -> FencedBlock]
      PROVE  Merge(a, b) \in [Names -> FencedBlock]
  BY DEF Merge
<1>4. ASSUME NEW b \in [Names -> FencedBlock] PROVE Good(b) \in [Names -> FencedBlock]
  <2>1. NoAnswer \in FencedBlock
    BY DEF FencedBlock
  <2> QED
    BY <2>1 DEF Good
<1> QED
  BY <1>1, <1>2, <1>3, <1>4

LEMMA ChatTypedFirst == ChatInit => ChatTypeOK
<1> SUFFICES ASSUME ChatInit PROVE ChatTypeOK OBVIOUS
<1>1. round \in 1..RepairRounds + 1 /\ 0 \in 0..RepairRounds + 1
  BY RoundsAssumption DEF RoundsAssumption, ChatInit
<1>2. Nothing \in [Names -> FencedBlock]
  BY <1>1, MadeBlocksAreBlocks
<1> QED
  BY <1>1, <1>2 DEF ChatInit, ChatTypeOK, Outcomes

LEMMA ChatTypedKeeps == ChatTypeOK /\ [ChatNext]_chatVars => ChatTypeOK'
<1> SUFFICES ASSUME ChatTypeOK, [ChatNext]_chatVars PROVE ChatTypeOK' OBVIOUS
<1>0. /\ round \in 1..RepairRounds + 1 /\ round \in 0..RepairRounds + 1 /\ 0 \in 0..RepairRounds + 1
      /\ kept \in [Names -> FencedBlock] /\ sent \in [Names -> FencedBlock]
      /\ answer \in 0..RepairRounds + 1 /\ spoke \in 0..RepairRounds + 1 /\ outcome \in Outcomes
      /\ payload.blocks \in [Names -> FencedBlock] /\ payload.answer \in 0..RepairRounds + 1
  BY RoundsAssumption DEF RoundsAssumption, ChatTypeOK
<1>1. ASSUME AskAgain PROVE round' \in 1..RepairRounds + 1 /\ outcome' \in Outcomes
  BY <1>0, <1>1, RoundsAssumption DEF RoundsAssumption, AskAgain, RoundsLeft, Outcomes
<1>2. ASSUME NEW blocks \in [Names -> FencedBlock], NEW prose \in 0..RepairRounds + 1,
             Settle(blocks, prose)
      PROVE  /\ payload'.blocks \in [Names -> FencedBlock] /\ payload'.answer \in 0..RepairRounds + 1
             /\ outcome' \in Outcomes
  BY <1>2 DEF Settle, Outcomes
<1>3. CASE Malformed \/ Blocked \/ Diagnose \/ Cancel \/ UNCHANGED chatVars
  <2>1. UNCHANGED <<kept, answer, payload, sent, spoke>>
    BY <1>3 DEF Malformed, Blocked, Diagnose, Cancel, chatVars
  <2>2. round' \in 1..RepairRounds + 1 /\ outcome' \in Outcomes
    BY <1>0, <1>1, <1>3 DEF Malformed, Blocked, Diagnose, Cancel, chatVars, Outcomes
  <2> QED
    BY <1>0, <2>1, <2>2 DEF ChatTypeOK
<1>4. CASE ProseOnly
  <2>1. PICK prose \in BOOLEAN :
          /\ answer' = IF prose THEN round ELSE answer
          /\ spoke' = IF prose THEN round ELSE spoke
          /\ \/ Settle(Nothing, IF prose THEN round ELSE 0) /\ UNCHANGED <<round, kept>>
             \/ Settle(kept, answer') /\ UNCHANGED <<round, kept>>
             \/ AskAgain /\ kept' = Good(kept) /\ UNCHANGED payload
          /\ UNCHANGED sent
    BY <1>4 DEF ProseOnly
  <2>2. /\ answer' \in 0..RepairRounds + 1 /\ spoke' \in 0..RepairRounds + 1
        /\ sent' \in [Names -> FencedBlock] /\ (IF prose THEN round ELSE 0) \in 0..RepairRounds + 1
    BY <1>0, <2>1
  <2>3. CASE Settle(Nothing, IF prose THEN round ELSE 0) /\ UNCHANGED <<round, kept>>
    BY <1>0, <1>2, <2>2, <2>3, MadeBlocksAreBlocks DEF ChatTypeOK
  <2>4. CASE Settle(kept, answer') /\ UNCHANGED <<round, kept>>
    BY <1>0, <1>2, <2>2, <2>4 DEF ChatTypeOK
  <2>5. CASE AskAgain /\ kept' = Good(kept) /\ UNCHANGED payload
    BY <1>0, <1>1, <2>2, <2>5, MadeBlocksAreBlocks DEF ChatTypeOK
  <2> QED
    BY <2>1, <2>3, <2>4, <2>5
<1>5. CASE WithBlocks
  <2>1. PICK b \in Responses, prose \in BOOLEAN :
          /\ answer' = IF prose THEN round ELSE answer
          /\ spoke' = IF prose THEN round ELSE spoke
          /\ sent' = Merge(sent, b)
          /\ \/ Settle(Merge(kept, b), answer') /\ kept' = Merge(kept, b) /\ UNCHANGED round
             \/ AskAgain /\ kept' = Good(Merge(kept, b)) /\ UNCHANGED payload
    BY <1>5 DEF WithBlocks
  <2>2. answer' \in 0..RepairRounds + 1 /\ spoke' \in 0..RepairRounds + 1
    BY <1>0, <2>1
  <2>3. sent' \in [Names -> FencedBlock] /\ Merge(kept, b) \in [Names -> FencedBlock]
    BY <1>0, <2>1, MadeBlocksAreBlocks
  <2>4. CASE Settle(Merge(kept, b), answer') /\ kept' = Merge(kept, b) /\ UNCHANGED round
    BY <1>0, <1>2, <2>2, <2>3, <2>4 DEF ChatTypeOK
  <2>5. CASE AskAgain /\ kept' = Good(Merge(kept, b)) /\ UNCHANGED payload
    <3>1. kept' \in [Names -> FencedBlock]
      BY <1>0, <2>3, <2>5, MadeBlocksAreBlocks
    <3> QED
      BY <1>0, <1>1, <2>2, <2>3, <2>5, <3>1 DEF ChatTypeOK
  <2> QED
    BY <2>1, <2>4, <2>5
<1> QED
  BY <1>3, <1>4, <1>5 DEF ChatNext

-----------------------------------------------------------------------------
(***************************************************************************)
(* The types of the pulls; a pull has one terminal event, announced as its path  *)
(* ends.                                                                      *)
(***************************************************************************)
OneTerminal == \A p \in Pulls : step[p] \notin {"ending", "gone"} => terminal[p] = 0

PullPlaces ==
    /\ model \in [Pulls -> Models] /\ step \in [Pulls -> Steps]
    /\ pulling \subseteq Models /\ procs \subseteq Pulls

PullFlags == running \in [Pulls -> BOOLEAN] /\ closing \in BOOLEAN /\ up \in BOOLEAN

PullCounts ==
    /\ waited \in [Pulls -> 0..Deadline + 1] /\ layers \in [Pulls -> [Layers -> 0..LayerSize + 1]]
    /\ terminal \in [Pulls -> 0..1] /\ OneTerminal
    /\ sinceServe \in 0..Cooldown + 1 /\ serves \in 0..MaxServes

PullTyped == PullPlaces /\ PullFlags /\ PullCounts

LEMMA PullTypedGives == PullInv /\ PullTyped => PullTypeOK
BY DEF PullInv, PullTyped, PullPlaces, PullFlags, PullCounts, PullTypeOK

LEMMA PullTypedFirst == PullInit => PullTyped
<1>1. PullInit => PullPlaces
  BY DEF PullInit, PullPlaces, Steps
<1>2. PullInit => PullFlags
  BY DEF PullInit, PullFlags
<1>3. PullInit => PullCounts
  BY PullAssumption DEF PullAssumption, PullInit, PullCounts, OneTerminal
<1> QED
  BY <1>1, <1>2, <1>3 DEF PullTyped

LEMMA PullPlacesKeep == PullPlaces /\ [PullNext]_pullVars => PullPlaces'
<1> SUFFICES ASSUME PullPlaces, [PullNext]_pullVars PROVE PullPlaces' OBVIOUS
<1> USE DEF PullPlaces
<1>1. CASE \E p \in Pulls : Accept(p) \/ Refuse(p) \/ Choose(p)
  BY <1>1 DEF Accept, Refuse, Choose, At, Steps
<1>2. CASE \E p \in Pulls : HttpLine(p) \/ CliLine(p) \/ HttpEnds(p) \/ CliFails(p)
  BY <1>2 DEF HttpLine, CliLine, HttpEnds, CliFails, At, Steps
<1>3. CASE \E p \in Pulls : CliSpawns(p) \/ CliTracks(p) \/ CliEof(p) \/ CliReaps(p)
  BY <1>3 DEF CliSpawns, CliTracks, CliEof, CliReaps, At, Steps
<1>4. CASE \E p \in Pulls : Frees(p) \/ ChildEnds(p)
  BY <1>4 DEF Frees, ChildEnds, At, Steps
<1>5. CASE PullShutdown \/ PullTick \/ StatusPoll \/ ServerDies \/ UNCHANGED pullVars
  BY <1>5 DEF PullShutdown, PullTick, StatusPoll, ServerDies, pullVars
<1> QED
  BY <1>1, <1>2, <1>3, <1>4, <1>5 DEF PullNext, PullThread

LEMMA PullFlagsKeep == PullFlags /\ [PullNext]_pullVars => PullFlags'
<1> SUFFICES ASSUME PullFlags, [PullNext]_pullVars PROVE PullFlags' OBVIOUS
<1> USE DEF PullFlags
<1>1. CASE UNCHANGED <<running, closing, up>>
  BY <1>1
<1>2. CASE \/ \E p \in Pulls : \/ Accept(p) \/ Refuse(p) \/ Choose(p) \/ HttpLine(p) \/ HttpEnds(p)
                               \/ CliFails(p) \/ CliTracks(p) \/ CliEof(p) \/ CliReaps(p) \/ Frees(p)
           \/ PullTick \/ UNCHANGED pullVars
  BY <1>1, <1>2 DEF Accept, Refuse, Choose, HttpLine, HttpEnds, CliFails, CliTracks, CliEof, CliReaps,
     Frees, PullTick, pullVars, server
<1>3. CASE \E p \in Pulls : CliSpawns(p) \/ ChildEnds(p) \/ CliLine(p)
  <2> PICK p \in Pulls : CliSpawns(p) \/ ChildEnds(p) \/ CliLine(p) BY <1>3
  <2>1. /\ UNCHANGED <<closing, up>>
        /\ running' = running \/ \E b \in BOOLEAN : running' = [running EXCEPT ![p] = b]
    BY DEF CliSpawns, ChildEnds, CliLine, server
  <2> QED
    BY <2>1
<1>4. CASE PullShutdown
  <2>1. closing' = TRUE /\ up' = up
    BY <1>4 DEF PullShutdown, server
  <2>2. running' = [p \in Pulls |-> running[p] /\ p \notin procs]
    BY <1>4 DEF PullShutdown
  <2> QED
    BY <2>1, <2>2
<1>5. CASE StatusPoll \/ ServerDies
  BY <1>5 DEF StatusPoll, ServerDies
<1> QED
  BY <1>2, <1>3, <1>4, <1>5 DEF PullNext, PullThread

LEMMA PullCountsKeep == PullPlaces /\ PullCounts /\ [PullNext]_pullVars => PullCounts'
<1> SUFFICES ASSUME PullPlaces, PullCounts, [PullNext]_pullVars PROVE PullCounts' OBVIOUS
<1>0. /\ waited \in [Pulls -> 0..Deadline + 1] /\ layers \in [Pulls -> [Layers -> 0..LayerSize + 1]]
      /\ terminal \in [Pulls -> 0..1] /\ sinceServe \in 0..Cooldown + 1 /\ serves \in 0..MaxServes
      /\ DOMAIN step = Pulls
  BY DEF PullCounts, PullPlaces
<1>1. CASE \/ UNCHANGED pullVars
           \/ \E p \in Pulls : \/ Accept(p) \/ Refuse(p) \/ Choose(p) \/ CliSpawns(p) \/ CliTracks(p)
                               \/ CliEof(p) \/ Frees(p) \/ ChildEnds(p)
           \/ PullShutdown \/ ServerDies
  <2>1. UNCHANGED <<waited, layers, terminal, sinceServe, serves>>
    BY <1>1 DEF pullVars, Accept, Refuse, Choose, CliSpawns, CliTracks, CliEof, Frees, ChildEnds,
       PullShutdown, ServerDies, progress, server
  <2>2. OneTerminal'
    BY <1>0, <1>1, <2>1 DEF pullVars, Accept, Refuse, Choose, CliSpawns, CliTracks, CliEof, Frees,
       ChildEnds, PullShutdown, ServerDies, At, PullCounts, OneTerminal
  <2> QED
    BY <2>1, <2>2 DEF PullCounts
<1>2. CASE \E p \in Pulls : HttpEnds(p) \/ CliFails(p) \/ CliReaps(p)
  <2> PICK p \in Pulls : HttpEnds(p) \/ CliFails(p) \/ CliReaps(p) BY <1>2
  <2>1. /\ terminal[p] = 0 /\ Announce(p) /\ step' = [step EXCEPT ![p] = "ending"]
        /\ UNCHANGED <<sinceServe, serves>>
    BY DEF HttpEnds, CliFails, CliReaps, At, PullCounts, OneTerminal, server
  <2>2. terminal' \in [Pulls -> 0..1] /\ OneTerminal'
    BY <1>0, <2>1 DEF Announce, PullCounts, OneTerminal
  <2>3. waited' \in [Pulls -> 0..Deadline + 1]
    BY <1>0, <2>1, PullAssumption DEF PullAssumption, Announce
  <2>4. layers' \in [Pulls -> [Layers -> 0..LayerSize + 1]]
    BY <1>0, <2>1, PullAssumption DEF PullAssumption, Announce
  <2> QED
    BY <2>1, <2>2, <2>3, <2>4 DEF PullCounts
<1>3. CASE \E p \in Pulls : HttpLine(p) \/ CliLine(p)
  <2> PICK p \in Pulls : HttpLine(p) \/ CliLine(p) BY <1>3
  <2>1. /\ UNCHANGED <<waited, terminal, sinceServe, serves>>
        /\ layers' = layers \/ LayerLine(p)
        /\ step' = step \/ (step[p] = "read" /\ step' = [step EXCEPT ![p] = "reap"])
    BY DEF HttpLine, CliLine, server, progress
  <2>2. layers' \in [Pulls -> [Layers -> 0..LayerSize + 1]]
    <3>1. CASE layers' = layers
      BY <1>0, <3>1
    <3>2. CASE LayerLine(p)
      <4>1. PICK l \in Layers, n \in 0..LayerSize : layers' = [layers EXCEPT ![p][l] = n + 1]
        BY <3>2 DEF LayerLine
      <4>2. n + 1 \in 0..LayerSize + 1
        BY PullAssumption DEF PullAssumption
      <4> QED
        BY <1>0, <4>1, <4>2
    <3> QED
      BY <2>1, <3>1, <3>2
  <2>3. OneTerminal'
    <3>1. \A q \in Pulls : step'[q] \notin {"ending", "gone"} => step[q] \notin {"ending", "gone"}
      BY <1>0, <2>1
    <3> QED
      BY <2>1, <3>1 DEF PullCounts, OneTerminal
  <2>4. UNCHANGED <<waited, terminal, sinceServe, serves>>
    BY <2>1
  <2> QED
    BY <1>0, <2>2, <2>3, <2>4 DEF PullCounts
<1>4. CASE PullTick
  <2>1. waited' \in [Pulls -> 0..Deadline + 1]
    BY <1>0, <1>4, PullAssumption DEF PullAssumption, PullTick, Counting, TooLong
  <2>2. sinceServe' \in 0..Cooldown + 1
    BY <1>0, <1>4, PullAssumption DEF PullAssumption, PullTick
  <2>3. UNCHANGED <<step, layers, terminal, serves>>
    BY <1>4 DEF PullTick, progress
  <2> QED
    BY <2>1, <2>2, <2>3 DEF PullCounts, OneTerminal
<1>5. CASE StatusPoll
  <2>1. sinceServe' = 0 /\ serves' = serves + 1 /\ serves < MaxServes
        /\ UNCHANGED <<step, layers, terminal, waited>>
    BY <1>5 DEF StatusPoll, progress
  <2> QED
    BY <1>0, <2>1, PullAssumption DEF PullAssumption, PullCounts, OneTerminal
<1> QED
  BY <1>1, <1>2, <1>3, <1>4, <1>5 DEF PullNext, PullThread

LEMMA PullTypedKeeps == PullTyped /\ [PullNext]_pullVars => PullTyped'
BY PullPlacesKeep, PullFlagsKeep, PullCountsKeep DEF PullTyped

-----------------------------------------------------------------------------
(***************************************************************************)
(* The types of the provider's file and of its probe.                         *)
(***************************************************************************)
MergePlaces ==
    /\ file \in [kind : {"absent", "json", "jsonc"}, models : SUBSET Callers]
    /\ merge \in [Callers -> MergeSteps] /\ read \in [Callers -> SUBSET Callers]

MergeLocks ==
    /\ threadLock \in [Processes -> Callers \cup {Nobody}] /\ fileLock \in Callers \cup {Nobody}
    /\ probeLock \in Callers \cup {Nobody}
    /\ poller \in [Callers -> {"away", "waiting", "probing", "yes", "no"}]

ProbeCounts ==
    /\ cache = [at |-> cache.at, yes |-> cache.yes] /\ cache.at \in 0..MaxTime + 1
    /\ probes \in 0..MaxProbes /\ wall \in 0..MaxTime

ProviderFlags == writable \in BOOLEAN /\ truth \in BOOLEAN /\ cache.yes \in BOOLEAN

ProviderTyped == MergePlaces /\ MergeLocks /\ ProbeCounts /\ ProviderFlags

LEMMA ProviderTypedGives == ProviderTyped => ProviderTypeOK
<1> SUFFICES ASSUME ProviderTyped PROVE ProviderTypeOK OBVIOUS
<1>1. cache \in [at : 0..MaxTime + 1, yes : BOOLEAN]
  BY DEF ProviderTyped, ProbeCounts, ProviderFlags
<1> QED
  BY <1>1 DEF ProviderTyped, MergePlaces, MergeLocks, ProbeCounts, ProviderFlags, ProviderTypeOK

LEMMA ProviderTypedFirst == ProviderInit => ProviderTyped
<1> SUFFICES ASSUME ProviderInit PROVE ProviderTyped OBVIOUS
<1>1. MergePlaces
  BY DEF ProviderInit, MergePlaces, MergeSteps
<1>2. MergeLocks
  BY DEF ProviderInit, MergeLocks
<1>3. cache = [at |-> MaxTime + 1, yes |-> FALSE] /\ probes = 0 /\ wall = 0
  BY DEF ProviderInit
<1>4. ProbeCounts
  BY <1>3, CallersAssumption DEF CallersAssumption, ProbeCounts
<1>5. ProviderFlags
  <2>1. writable \in BOOLEAN /\ truth = FALSE /\ cache.yes = FALSE
    BY <1>3 DEF ProviderInit
  <2> QED
    BY <2>1 DEF ProviderFlags
<1> QED
  BY <1>1, <1>2, <1>4, <1>5 DEF ProviderTyped

LEMMA ProviderTypedKeeps == ProviderTyped /\ [ProviderNext]_providerVars => ProviderTyped'
<1> SUFFICES ASSUME ProviderTyped, [ProviderNext]_providerVars PROVE ProviderTyped' OBVIOUS
<1>0. MergePlaces /\ MergeLocks /\ ProbeCounts /\ ProviderFlags
  BY DEF ProviderTyped
<1>1. \A c \in Callers : ProcessOf[c] \in Processes
  BY DEF Processes
<1>2. CASE UNCHANGED providerVars
  BY <1>0, <1>2 DEF providerVars, mergeVars, probeVars, ProviderTyped, MergePlaces, MergeLocks,
     ProbeCounts, ProviderFlags
<1>3. CASE \E c \in Callers : TakeThreadLock(c) \/ TakeFileLock(c) \/ ReadConfig(c) \/ Dies(c)
  <2> PICK c \in Callers : TakeThreadLock(c) \/ TakeFileLock(c) \/ ReadConfig(c) \/ Dies(c) BY <1>3
  <2>1. UNCHANGED <<file, writable, truth, poller, probeLock, cache, probes, wall>>
    BY DEF TakeThreadLock, TakeFileLock, ReadConfig, Dies, Unlock, probeVars
  <2>2. \E to \in MergeSteps : merge' = [merge EXCEPT ![c] = to]
    BY DEF TakeThreadLock, TakeFileLock, ReadConfig, Dies, Moves, MergeSteps
  <2>3. read' \in {read, [read EXCEPT ![c] = file.models]}
    BY DEF TakeThreadLock, TakeFileLock, ReadConfig, Dies
  <2>4. MergePlaces'
    BY <1>0, <2>1, <2>2, <2>3 DEF MergePlaces
  <2>5. /\ \/ threadLock' = threadLock
           \/ \E x \in {c, Nobody} : threadLock' = [threadLock EXCEPT ![ProcessOf[c]] = x]
        /\ fileLock' \in {fileLock, c, Nobody}
    BY DEF TakeThreadLock, TakeFileLock, ReadConfig, Dies, Unlock
  <2>6. MergeLocks'
    BY <1>0, <1>1, <2>1, <2>5 DEF MergeLocks
  <2> QED
    BY <1>0, <2>1, <2>4, <2>6 DEF ProviderTyped, ProbeCounts, ProviderFlags
<1>4. CASE \E c \in Callers : WriteConfig(c)
  <2> PICK c \in Callers : WriteConfig(c) BY <1>4
  <2>1. /\ UNCHANGED <<writable, read, truth, poller, probeLock, cache, probes, wall>>
        /\ \E to \in MergeSteps : merge' = [merge EXCEPT ![c] = to]
        /\ file' = file \/ file' = [kind |-> "json", models |-> read[c] \cup {c}]
    BY DEF WriteConfig, Moves, MergeSteps, probeVars
  <2>2. file' \in [kind : {"absent", "json", "jsonc"}, models : SUBSET Callers]
    BY <1>0, <2>1 DEF MergePlaces
  <2>3. MergePlaces'
    BY <1>0, <2>1, <2>2 DEF MergePlaces
  <2>4. MergeLocks'
    BY <1>0, <1>1, <2>1 DEF WriteConfig, Unlock, MergeLocks
  <2> QED
    BY <1>0, <2>1, <2>3, <2>4 DEF ProviderTyped, ProbeCounts, ProviderFlags
<1>5. CASE \E c \in Callers : Ask(c) \/ FromCache(c) \/ Probe(c)
  <2> PICK c \in Callers : Ask(c) \/ FromCache(c) \/ Probe(c) BY <1>5
  <2>1. /\ UNCHANGED <<mergeVars, truth, cache, wall>>
        /\ \E to \in {"waiting", "probing", "yes", "no"} : poller' = [poller EXCEPT ![c] = to]
        /\ probeLock' \in {probeLock, c}
        /\ probes' = probes \/ (probes' = probes + 1 /\ probes < MaxProbes)
    BY DEF Ask, FromCache, Probe, Says
  <2>2. MergePlaces' /\ MergeLocks'
    <3>1. UNCHANGED <<file, merge, read, threadLock, fileLock>>
      BY <2>1 DEF mergeVars
    <3>2. poller' \in [Callers -> {"away", "waiting", "probing", "yes", "no"}]
      BY <1>0, <2>1 DEF MergeLocks
    <3> QED
      BY <1>0, <2>1, <3>1, <3>2 DEF MergePlaces, MergeLocks
  <2>3. ProviderFlags'
    BY <1>0, <2>1 DEF mergeVars, ProviderFlags
  <2>4. ProbeCounts'
    BY <1>0, <2>1, CallersAssumption DEF CallersAssumption, ProbeCounts
  <2> QED
    BY <2>2, <2>3, <2>4 DEF ProviderTyped
<1>6. CASE \E c \in Callers : ProbeEnds(c)
  <2> PICK c \in Callers : ProbeEnds(c) BY <1>6
  <2>1. PICK yes \in {truth, FALSE} :
          /\ cache' = [at |-> wall, yes |-> yes] /\ poller' = [poller EXCEPT ![c] = Says(yes)]
          /\ probeLock' \in {probeLock, Nobody} /\ UNCHANGED <<mergeVars, truth, probes, wall>>
    BY DEF ProbeEnds
  <2>2. Says(yes) \in {"yes", "no"}
    BY DEF Says
  <2>3. MergePlaces' /\ MergeLocks'
    BY <1>0, <2>1, <2>2 DEF mergeVars, MergePlaces, MergeLocks
  <2>4. cache'.at = wall /\ cache'.yes = yes /\ yes \in BOOLEAN
    BY <1>0, <2>1 DEF ProviderFlags
  <2>5. ProviderFlags'
    BY <1>0, <2>1, <2>4 DEF mergeVars, ProviderFlags
  <2>6. ProbeCounts'
    BY <1>0, <2>1, <2>4, CallersAssumption DEF CallersAssumption, ProbeCounts
  <2> QED
    BY <2>3, <2>5, <2>6 DEF ProviderTyped
<1>7. CASE SignsIn \/ WallTick
  <2>1. /\ UNCHANGED <<mergeVars, poller, probeLock, cache, probes>> /\ truth' \in {truth, TRUE, FALSE}
        /\ wall' = wall \/ (wall' = wall + 1 /\ wall < MaxTime)
    BY <1>7 DEF SignsIn, WallTick
  <2>2. MergePlaces' /\ MergeLocks'
    BY <1>0, <2>1 DEF mergeVars, MergePlaces, MergeLocks
  <2>3. ProviderFlags'
    BY <1>0, <2>1 DEF mergeVars, ProviderFlags
  <2>4. ProbeCounts'
    BY <1>0, <2>1, CallersAssumption DEF CallersAssumption, ProbeCounts
  <2> QED
    BY <2>2, <2>3, <2>4 DEF ProviderTyped
<1> QED
  BY <1>2, <1>3, <1>4, <1>5, <1>6, <1>7 DEF ProviderNext

-----------------------------------------------------------------------------
(* The parts together: a behaviour of the composition is about one of them.   *)
AuthoringInv ==
    /\ part = "draft" => DraftInv
    /\ part = "jobs" => JobInv
    /\ part = "call" => CallInv
    /\ part = "reply" => ReplyInv
    /\ part = "stream" => ScanInv
    /\ part = "rounds" => RoundsInv
    /\ part = "pulls" => PullInv
    /\ part = "provider" => ProviderInv

LEMMA AuthoringStarts == Init => AuthoringInv
BY DraftStarts, JobsStart, CallStarts, ReplyStarts, ScanStarts, RoundsStart, PullStarts,
    ProviderStarts DEF Init, AuthoringInv

\* The part a behaviour is about takes its steps, or stays as it is.
LEMMA OnePartMoves ==
  ASSUME [Next]_allVars
  PROVE  /\ UNCHANGED part
         /\ part = "draft" => [SettleNext]_settleVars
         /\ part = "jobs" => [JobsNext]_jobVars
         /\ part = "call" => [CallNext]_agentCallVars
         /\ part = "reply" => [ReplyNext]_replyVars
         /\ part = "stream" => [ScanNext]_scanVars
         /\ part = "rounds" => [ChatNext]_chatVars
         /\ part = "pulls" => [PullNext]_pullVars
         /\ part = "provider" => [ProviderNext]_providerVars
<1>1. CASE UNCHANGED allVars
  BY <1>1 DEF allVars
<1>2. CASE Next
  BY <1>2 DEF Next, Still
<1> QED
  BY <1>1, <1>2

LEMMA AuthoringKeeps == AuthoringInv /\ [Next]_allVars => AuthoringInv'
<1> SUFFICES ASSUME AuthoringInv, [Next]_allVars PROVE AuthoringInv' OBVIOUS
<1>1. UNCHANGED part
  BY OnePartMoves
<1>2. part = "draft" => DraftInv'
  BY OnePartMoves, DraftKeeps DEF AuthoringInv
<1>3. part = "jobs" => JobInv'
  BY OnePartMoves, JobKeeps DEF AuthoringInv
<1>4. part = "call" => CallInv'
  BY OnePartMoves, CallKeeps DEF AuthoringInv
<1>5. part = "rounds" => RoundsInv'
  BY OnePartMoves, RoundsKeep DEF AuthoringInv
<1>6. part = "pulls" => PullInv'
  BY OnePartMoves, PullKeeps DEF AuthoringInv
<1>7. part = "provider" => ProviderInv'
  BY OnePartMoves, ProviderKeeps DEF AuthoringInv
<1>8. part = "reply" => ReplyInv'
  BY OnePartMoves, ReplyKeeps DEF AuthoringInv
<1>9. part = "stream" => ScanInv'
  BY OnePartMoves, ScanKeeps DEF AuthoringInv
<1> QED
  BY <1>1, <1>2, <1>3, <1>4, <1>5, <1>6, <1>7, <1>8, <1>9 DEF AuthoringInv

THEOREM AuthoringInvariant == Spec => []AuthoringInv
  BY AuthoringStarts, AuthoringKeeps, PTL DEF Spec

(* The types of the part a behaviour is about.                                *)
AuthoringTyped ==
    /\ part \in {"draft", "jobs", "call", "reply", "stream", "rounds", "pulls", "provider"}
    /\ part = "draft" => SettleTyped
    /\ part = "jobs" => JobTyped
    /\ part = "call" => CallTyped
    /\ part = "reply" => ReplyTyped
    /\ part = "stream" => Len(text) <= MaxText
    /\ part = "rounds" => ChatTypeOK
    /\ part = "pulls" => PullTyped
    /\ part = "provider" => ProviderTyped

LEMMA AuthoringTypedFirst == Init => AuthoringTyped
BY SettleTypedFirst, JobTypedFirst, CallTypedFirst, ReplyTypedFirst, TextIsBounded, ChatTypedFirst,
    PullTypedFirst, ProviderTypedFirst DEF Init, AuthoringTyped

LEMMA AuthoringTypedKeeps == AuthoringInv /\ AuthoringTyped /\ [Next]_allVars => AuthoringTyped'
<1> SUFFICES ASSUME AuthoringInv, AuthoringTyped, [Next]_allVars PROVE AuthoringTyped' OBVIOUS
<1>1. UNCHANGED part
  BY OnePartMoves
<1>2. part = "draft" => SettleTyped'
  BY OnePartMoves, SettleTypedKeeps DEF AuthoringInv, AuthoringTyped
<1>3. part = "jobs" => JobTyped'
  BY OnePartMoves, JobTypedKeeps DEF AuthoringInv, AuthoringTyped
<1>4. part = "call" => CallTyped'
  BY OnePartMoves, CallTypedKeeps DEF AuthoringTyped
<1>5. part = "reply" => ReplyTyped'
  BY OnePartMoves, ReplyTypedKeeps DEF AuthoringInv, AuthoringTyped
<1>6. part = "stream" => (Len(text) <= MaxText)'
  BY OnePartMoves, TextIsBounded DEF AuthoringInv, AuthoringTyped
<1>7. part = "rounds" => ChatTypeOK'
  BY OnePartMoves, ChatTypedKeeps DEF AuthoringTyped
<1>8. part = "pulls" => PullTyped'
  BY OnePartMoves, PullTypedKeeps DEF AuthoringTyped
<1>9. part = "provider" => ProviderTyped'
  BY OnePartMoves, ProviderTypedKeeps DEF AuthoringTyped
<1> QED
  BY <1>1, <1>2, <1>3, <1>4, <1>5, <1>6, <1>7, <1>8, <1>9 DEF AuthoringTyped

(* Whatever the races, every variable of the draft, of the jobs, of a call, of a   *)
(* reply, a stream, a chat, a pull and of the provider's file keeps its type: no     *)
(* version is numbered past the settles that were begun, no job calls its agent       *)
(* more often than it may, and a pull publishes one terminal event                   *)
(* (api.py:938-1464, 2769-2958, drafting.py:2140-2497, harness.py:1294-1732).        *)
THEOREM AuthoringAlwaysTyped == Spec => []AuthoringTypeOK
<1>1. AuthoringInv /\ AuthoringTyped => AuthoringTypeOK
    BY SettleTypedGives, JobTypedGives, CallTypedGives, ReplyTypedGives, ScanTypedGives, PullTypedGives,
       ProviderTypedGives DEF AuthoringInv, AuthoringTyped, AuthoringTypeOK
<1> QED BY <1>1, AuthoringInvariant, AuthoringTypedFirst, AuthoringTypedKeeps, PTL DEF Spec

(* A save takes over the version its editor saw, a run of the draft keeps its      *)
(* scripts, and a settle deletes the record of every test of the old draft that is  *)
(* over and tells the others to stop, for any editors, tests and versions            *)
(* (api.py:938-1464, testexec.py:40-362).                                          *)
THEOREM DraftsAlwaysSettle == Spec => []DraftsSettle
<1>1. AuthoringInv => DraftsSettle
    BY DraftGives DEF AuthoringInv, DraftsSettle
<1> QED BY <1>1, AuthoringInvariant, PTL

(* However many requests race a settle, a removal and a shutdown, one job builds    *)
(* the draft that is there, a cancel reaches its program, and what the program       *)
(* changed of a locked script is undone (drafting.py:2140-2497).                    *)
THEOREM JobsAlwaysStay == Spec => []JobsStayInTheirDraft
<1>1. AuthoringInv => JobsStayInTheirDraft
    BY JobInvGives DEF AuthoringInv, JobsStayInTheirDraft
<1> QED BY <1>1, AuthoringInvariant, PTL

(* A job that is over stays as it ended, one of an older draft never takes the       *)
(* place of a newer one, and the figure of a pull never falls                        *)
(* (drafting.py:2210-2497, api.py:2769-2958).                                      *)
THEOREM WorkNeverBack == Spec => WorkNeverGoesBack
<1>1. AuthoringInv /\ [Next]_allVars =>
        [/\ part = "jobs" => StaleNeverSupersedes /\ OutcomeStands
         /\ part = "pulls" => ProgressNeverFalls]_allVars
    BY OnePartMoves, JobsNeverGoBack, PullKeeps DEF AuthoringInv
<1> QED BY <1>1, AuthoringInvariant, PTL DEF Spec, WorkNeverGoesBack

(* Whatever the child does and whenever a cancel comes, a call that returned has a   *)
(* dead child and no writer, and says what the child's end and its documents said;    *)
(* one pull runs for a model and one probe for a provider, and no merged entry is       *)
(* lost (harness.py:1294-1732, 1881-1990, api.py:2814-2958).                          *)
THEOREM AgentsAlwaysReleased == Spec => []AgentsAreReleased
<1>1. AuthoringInv => AgentsAreReleased
    BY CallGives, ProviderGives DEF AuthoringInv, PullInv, AgentsAreReleased
<1> QED BY <1>1, AuthoringInvariant, PTL

(* However the agent quotes markers, leaves fences open or prints an envelope of     *)
(* its own, the documents it wrote are the ones read back, and its notes ride with a   *)
(* printed blocker; however a stream is cut, the marks found are those of the whole    *)
(* text; and what a chat settles on is valid as a whole, the newest good block of each  *)
(* file and the last prose (harness.py:682-716, 1181-1228, drafting.py:116-200,        *)
(* 804-960, 2569-2702).                                                             *)
THEOREM RepliesAlwaysReadBack == Spec => []RepliesAreReadBack
<1>1. AuthoringInv => RepliesAreReadBack
    BY RepliesRead, ScanGives DEF AuthoringInv, RoundsInv, RepliesAreReadBack
<1> QED BY <1>1, AuthoringInvariant, PTL
================================================================================
