---------------------------- MODULE DraftSettle ----------------------------
(***************************************************************************)
(* One automation's draft between the editors, its test runs and its draft *)
(* executions: src/backend/autowright/api.py (put_draft_container,         *)
(* save_version, delete_draft_container, delete_auto), testexec.py and     *)
(* storage.py delete_draft, delete_test_execs.                             *)
(*                                                                         *)
(* Saving or discarding settles the draft in two lock holds: a check, then *)
(* (outside the lock, for it kills processes) the cancel of the draft's    *)
(* live test, then the checks again and the change.  A test is a thread of *)
(* its own that looks at the lock only now and then.                       *)
(***************************************************************************)
EXTENDS Integers, Sequences, FiniteSets

CONSTANTS Editors,        \* clients that edit the draft or save a version
          MaxTests,       \* test runs ever started
          MaxPuts,        \* draft contents ever stored
          MaxSettles      \* saves and discards ever begun

ASSUME SettleAssumption == MaxTests \in Nat /\ MaxPuts \in Nat /\ MaxSettles \in Nat

None  == 0
Tests == 1..MaxTests
Free  == [pc |-> "idle", kind |-> "none"]

VARIABLES
  version,      \* a["current_version"]
  base,         \* editor -> the version its content was seeded from
  lineage,      \* version -> the version the editor that saved it had seen
  content,      \* the draft's content on disk, None when there is no draft
  puts,
  draftRun,     \* the content a live draft execution started from, or None
  settle,       \* editor -> its save or discard under way
  settles,
  epoch,        \* how many drafts have been settled
  test,         \* test -> "none","thread","files","copying","running","over"
  born,         \* test -> the epoch it was started in
  marked,       \* tests marked _draft_settled
  told,         \* tests whose live-engine entry carries a cancel
  ended,        \* test -> the status its run ended in
  record,       \* tests with an execution record
  testYaml,     \* the test draft/test.yaml is about, or None
  removal       \* delete_auto: "no", "flagged", "cancelled", "gone"

settleVars == <<version, base, lineage, content, puts, draftRun, settle, settles, epoch,
                test, born, marked, told, ended, record, testYaml, removal>>

SettleInit ==
  /\ version = 1 /\ base = [e \in Editors |-> 1] /\ lineage = <<0>>
  /\ content = None /\ puts = 0 /\ draftRun = None
  /\ settle = [e \in Editors |-> Free] /\ settles = 0 /\ epoch = 0
  /\ test = [t \in Tests |-> "none"] /\ born = [t \in Tests |-> 0]
  /\ marked = {} /\ told = {} /\ ended = [t \in Tests |-> "none"]
  /\ record = {} /\ testYaml = None /\ removal = "no"

Here     == removal # "gone"
testVars == <<test, born, marked, told, ended, record, testYaml>>
bookVars == <<version, base, lineage, content, puts, draftRun, settle, settles, epoch>>

(* A test record whose status is executing.                                *)
Executing(t) == t \in record /\ ended[t] = "none"
LiveTests == {t \in Tests : Executing(t)}

-----------------------------------------------------------------------------
(* The editor loads the automation again.                                  *)
Reopen(e) ==
  /\ Here /\ settle[e] = Free /\ base[e] # version
  /\ base' = [base EXCEPT ![e] = version]
  /\ UNCHANGED <<version, lineage, content, puts, draftRun, settle, settles, epoch,
                 removal, testVars>>

(* _reject_stale_base and _reject_live_draft_exec.                         *)
AnyBase(e) == TRUE
FreshBase(e) == base[e] = version
IgnoresDraftRun == TRUE
NoDraftRun == draftRun = None

PutDraft(e) ==
  /\ Here /\ puts < MaxPuts /\ FreshBase(e) /\ NoDraftRun
  /\ puts' = puts + 1 /\ content' = puts'
  /\ UNCHANGED <<version, base, lineage, draftRun, settle, settles, epoch, removal,
                 testVars>>

(* engine.start of a Draft-version execution; its steps read their scripts *)
(* one by one while it runs.                                               *)
DraftRunStarts ==
  /\ removal = "no" /\ NoDraftRun /\ content # None
  /\ draftRun' = content
  /\ UNCHANGED <<version, base, lineage, content, puts, settle, settles, epoch, removal,
                 testVars>>

DraftRunEnds ==
  /\ draftRun # None /\ draftRun' = None
  /\ UNCHANGED <<version, base, lineage, content, puts, settle, settles, epoch, removal,
                 testVars>>

-----------------------------------------------------------------------------
(* save_version / delete_draft_container up to the refusal that leaves no  *)
(* side effect.                                                            *)
Acceptable(e, kind) == NoDraftRun /\ (kind = "save" => FreshBase(e))

SettleBegins(e, kind) ==
  /\ Here /\ settle[e] = Free /\ settles < MaxSettles
  /\ Acceptable(e, kind)
  /\ settle' = [settle EXCEPT ![e] = [pc |-> "checked", kind |-> kind]]
  /\ settles' = settles + 1
  /\ UNCHANGED <<version, base, lineage, content, puts, draftRun, epoch, removal, testVars>>

(* _cancel_live_draft_work: mark the live tests under the lock ...         *)
SettleMarks(e) ==
  /\ settle[e].pc = "checked"
  /\ marked' = marked \cup LiveTests
  /\ settle' = [settle EXCEPT ![e].pc = "marked"]
  /\ UNCHANGED <<version, base, lineage, content, puts, draftRun, settles, epoch, removal,
                 test, born, told, ended, record, testYaml>>

(* ... and cancel them outside it.                                         *)
SettleCancels(e) ==
  /\ settle[e].pc = "marked"
  /\ told' = told \cup (marked \cap LiveTests)
  /\ settle' = [settle EXCEPT ![e].pc = "cancelled"]
  /\ UNCHANGED <<version, base, lineage, content, puts, draftRun, settles, epoch, removal,
                 test, born, marked, ended, record, testYaml>>

(* delete_draft: a test started since is marked and cancelled here, the    *)
(* container goes, and the records of tests that are over go with it.      *)
ContainerGoesQuietly ==
  /\ content' = None /\ testYaml' = None /\ epoch' = epoch + 1
  /\ UNCHANGED <<marked, told>> /\ record' = LiveTests
ContainerGoes ==
  /\ content' = None /\ testYaml' = None /\ epoch' = epoch + 1
  /\ marked' = marked \cup LiveTests /\ told' = told \cup LiveTests
  /\ record' = LiveTests

(* The second lock hold: checked again, then the version, the container    *)
(* and the answer.                                                         *)
SettleEnds(e) ==
  /\ settle[e].pc = "cancelled" /\ Here /\ Acceptable(e, settle[e].kind)
  /\ settle' = [settle EXCEPT ![e] = Free]
  /\ IF settle[e].kind = "save"
     THEN /\ version' = version + 1
          /\ lineage' = Append(lineage, base[e])
          /\ base' = [base EXCEPT ![e] = version + 1]
     ELSE UNCHANGED <<version, lineage, base>>
  /\ ContainerGoes
  /\ UNCHANGED <<puts, draftRun, settles, removal, test, born, ended>>

SettleRefused(e) ==
  /\ settle[e].pc = "cancelled" /\ ~ (Here /\ Acceptable(e, settle[e].kind))
  /\ settle' = [settle EXCEPT ![e] = Free]
  /\ UNCHANGED <<version, base, lineage, content, puts, draftRun, settles, epoch, removal,
                 testVars>>

-----------------------------------------------------------------------------
(* delete_auto: close the admission window, settle the draft's work, wait  *)
(* for its threads (a bounded wait), remove the directory and the records. *)
RemovalBegins ==
  /\ removal = "no" /\ removal' = "flagged"
  /\ UNCHANGED <<bookVars, testVars>>

RemovalCancels ==
  /\ removal = "flagged" /\ removal' = "cancelled"
  /\ marked' = marked \cup LiveTests /\ told' = told \cup LiveTests
  /\ UNCHANGED <<bookVars, test, born, ended, record, testYaml>>

RemovalEnds ==
  /\ removal = "cancelled" /\ removal' = "gone"
  /\ content' = None /\ testYaml' = None /\ record' = LiveTests
  /\ UNCHANGED <<version, base, lineage, puts, draftRun, settle, settles, epoch,
                 test, born, marked, told, ended>>

-----------------------------------------------------------------------------
(* testexec.start, in one lock hold: one live test per container, and only *)
(* the latest record kept.                                                 *)
TestStarts(t) ==
  /\ test[t] = "none" /\ removal = "no" /\ LiveTests = {}
  /\ \A u \in Tests : u < t => test[u] # "none"
  /\ test' = [test EXCEPT ![t] = "thread"] /\ born' = [born EXCEPT ![t] = epoch]
  /\ record' = {t}
  /\ UNCHANGED <<bookVars, marked, told, ended, testYaml, removal>>

(* _stopped_before_run, under the lock.                                    *)
Stopped(t) == t \in told \/ t \in marked \/ removal # "no"

(* _finish_before_run, and the same end for a copy that was aborted: an    *)
(* orphaned record is deleted.                                             *)
ForgetsTheMark(t) == t \notin record \/ removal = "gone"
Orphaned(t) == t \in marked \/ t \notin record \/ removal = "gone"

EndsBeforeRun(t) ==
  /\ ended' = [ended EXCEPT ![t] = "cancelled"] /\ test' = [test EXCEPT ![t] = "over"]
  /\ record' = IF Orphaned(t) THEN record \ {t} ELSE record

TestStopsEarly(t) ==
  /\ \/ test[t] \in {"thread", "files"} /\ Stopped(t)
     \/ test[t] = "copying" /\ t \in told
  /\ EndsBeforeRun(t)
  /\ UNCHANGED <<bookVars, born, marked, told, testYaml, removal>>

TestSetUp(t) ==
  /\ \/ /\ test[t] = "thread" /\ ~ Stopped(t)
        /\ test' = [test EXCEPT ![t] = "files"] /\ UNCHANGED testYaml
     \/ /\ test[t] = "files" /\ ~ Stopped(t)
        /\ test' = [test EXCEPT ![t] = "copying"] /\ UNCHANGED testYaml
     \/ /\ test[t] = "copying"
        /\ test' = [test EXCEPT ![t] = "running"] /\ testYaml' = None
  /\ UNCHANGED <<bookVars, born, marked, told, ended, record, removal>>

(* Setting up fails: the record goes, whatever else happened.              *)
TestSetUpFails(t) ==
  /\ test[t] \in {"thread", "files", "copying"}
  /\ test' = [test EXCEPT ![t] = "over"] /\ ended' = [ended EXCEPT ![t] = "failed"]
  /\ record' = record \ {t}
  /\ UNCHANGED <<bookVars, born, marked, told, testYaml, removal>>

(* engine._execute finishes the record ...                                 *)
TestRuns(t) ==
  /\ test[t] = "running" /\ ended[t] = "none"
  /\ \E s \in IF t \in told THEN {"cancelled"} ELSE {"succeeded", "failed", "cancelled"} :
        ended' = [ended EXCEPT ![t] = s]
  /\ UNCHANGED <<bookVars, test, born, marked, told, record, testYaml, removal>>

(* ... and _run lands it: checked and written in one lock hold.            *)
TestLands(t) ==
  /\ test[t] = "running" /\ ended[t] # "none"
  /\ test' = [test EXCEPT ![t] = "over"]
  /\ IF Orphaned(t) THEN record' = record \ {t} /\ UNCHANGED testYaml
     ELSE /\ testYaml' = IF ended[t] \in {"succeeded", "failed"} THEN t ELSE testYaml
          /\ UNCHANGED record
  /\ UNCHANGED <<bookVars, born, marked, told, ended, removal>>

SettleNext ==
  \/ \E e \in Editors :
        \/ Reopen(e) \/ PutDraft(e)
        \/ \E kind \in {"save", "discard"} : SettleBegins(e, kind)
        \/ SettleMarks(e) \/ SettleCancels(e) \/ SettleEnds(e) \/ SettleRefused(e)
  \/ DraftRunStarts \/ DraftRunEnds
  \/ RemovalBegins \/ RemovalCancels \/ RemovalEnds
  \/ \E t \in Tests : \/ TestStarts(t) \/ TestStopsEarly(t) \/ TestSetUp(t)
                      \/ TestSetUpFails(t) \/ TestRuns(t) \/ TestLands(t)

SettleSpec == SettleInit /\ [][SettleNext]_settleVars

-----------------------------------------------------------------------------
(* Every variable has its type.                                            *)
SettleTypeOK ==
  /\ version \in 1..(MaxSettles + 1) /\ base \in [Editors -> 1..(MaxSettles + 1)]
  /\ lineage \in [1..version -> 0..version]
  /\ content \in 0..MaxPuts /\ draftRun \in 0..MaxPuts /\ puts \in 0..MaxPuts
  /\ settle \in [Editors -> [pc : {"idle", "checked", "marked", "cancelled"},
                             kind : {"none", "save", "discard"}]]
  /\ settles \in 0..MaxSettles /\ epoch \in 0..MaxSettles
  /\ test \in [Tests -> {"none", "thread", "files", "copying", "running", "over"}]
  /\ born \in [Tests -> 0..MaxSettles] /\ marked \subseteq Tests /\ told \subseteq Tests
  /\ ended \in [Tests -> {"none", "succeeded", "failed", "cancelled"}]
  /\ record \subseteq Tests /\ testYaml \in 0..MaxTests
  /\ removal \in {"no", "flagged", "cancelled", "gone"}

(* No version is saved over one its editor never saw: each was made from   *)
(* the version before it, however two saves interleave their two lock      *)
(* holds.                                                                  *)
NoVersionIsOverlooked == \A v \in 2..version : lineage[v] = v - 1

(* The scripts of a live draft execution do not change under it.           *)
DraftRunKeepsItsScripts ==
  (draftRun # None /\ removal # "gone") => content = draftRun

(* A settled draft's test leaves nothing in the draft that follows it: no  *)
(* summary it could be shown, and once its thread is over no record.       *)
SettledTestLeavesNothing ==
  /\ testYaml # None => born[testYaml] = epoch /\ removal # "gone"
  /\ \A t \in record : test[t] = "over" => born[t] = epoch /\ removal # "gone"

(* A test that nobody's settle or removal will come back for is not left   *)
(* running: a live test of a settled draft has been told to stop.          *)
SettledTestIsToldToStop ==
  \A t \in LiveTests : born[t] # epoch \/ removal = "gone" => t \in told

=============================================================================
