------------------------------ MODULE MCStorage -------------------------------
(***************************************************************************)
(* What the app keeps on disk and what it exchanges with others: execution     *)
(* records, memory and its snapshots, versions and the draft, archives, the     *)
(* import slot, downloads and marketplaces.  These parts share no state in the   *)
(* code, so a behaviour is about one of them.                                  *)
(***************************************************************************)
EXTENDS ExecStore, MemorySnapshots, Versions, DraftSwap, Transfer, ImportPark, Fetch, Market

VARIABLE part     \* the part a behaviour is about

(***************************************************************************)
(* Archives: a name is a set of words (0 is no name), over the small stores    *)
(* and automations archives are made from and landed in.                       *)
(***************************************************************************)
TheTokens == [t \in 0..4 |-> CASE t = 0 -> {} [] t = 1 -> {"git", "hub"}
                                 [] t = 2 -> {"git", "hub", "ci"}
                                 [] t = 3 -> {"mail"} [] t = 4 -> {"git", "hub", "work"}]

TheSecrets == {-11, -12}
TheAgents == {-21, -22}
SecretRecs(n, m, d) ==
  [i \in TheSecrets |-> [name |-> IF i = -11 THEN n ELSE m, desc |-> IF i = -11 THEN 3 ELSE d]]
AgentRecs(n, m, c) ==
  [i \in TheAgents |-> [name |-> IF i = -21 THEN n ELSE m, desc |-> 0,
                        config |-> IF i = -21 THEN "c" ELSE c]]
MayShare(n, m) == n # m \/ n = 0

TheStores ==
  {[secrets |-> SecretRecs(x[1], x[2], x[3]), agents |-> AgentRecs(1, 3, "d"), default |-> -21]
     : x \in {x \in (0..4) \X (0..3) \X {0, 3} : MayShare(x[1], x[2])}}
  \cup
  {[secrets |-> SecretRecs(1, 3, 0), agents |-> AgentRecs(x[1], x[2], x[3]),
    default |-> IF x[1] # 0 THEN -21 ELSE IF x[2] # 0 THEN -22 ELSE NoRef]
     : x \in {x \in (0..4) \X (0..3) \X {"c", "d"} : MayShare(x[1], x[2])}}
TheOrigins ==
  {st \in TheStores : /\ st.secrets[-11].name = 1 /\ st.agents[-21].name = 1
                      /\ st.agents[-22].name \in {0, 3}}

AgentStep == [name |-> 1, agent |-> TRUE, agents |-> {-21}, secrets |-> {-11}, codeS |-> {-11},
              codeA |-> {-21}, script |-> "sealed", timeout |-> 0, noTimeout |-> FALSE]
PlainStep == [AgentStep EXCEPT !.name = 2, !.agent = FALSE, !.agents = {}, !.codeA = {},
                               !.secrets = {-12}, !.codeS = {}]
FirstSteps ==
  {AgentStep, [AgentStep EXCEPT !.timeout = 3], [AgentStep EXCEPT !.timeout = 1, !.noTimeout = TRUE],
   [AgentStep EXCEPT !.timeout = 2], [AgentStep EXCEPT !.timeout = -1],
   [AgentStep EXCEPT !.script = "missing"], [AgentStep EXCEPT !.script = "modified"],
   [AgentStep EXCEPT !.agent = FALSE], [AgentStep EXCEPT !.agent = FALSE, !.codeA = {}],
   [AgentStep EXCEPT !.codeS = {0}], [AgentStep EXCEPT !.codeS = {-11, -12}],
   [AgentStep EXCEPT !.agents = {-21, -22}], [AgentStep EXCEPT !.codeA = {-22}],
   [AgentStep EXCEPT !.name = 2]}
ThePlans ==
  {[steps |-> <<s>>, agent |-> g, tokens |-> {}, params |-> {}, values |-> {}]
     : s \in FirstSteps, g \in {-21, -22}}
  \cup
  {[steps |-> <<s, PlainStep>>, agent |-> -22, tokens |-> t, params |-> {<<"p", "num">>},
    values |-> {<<"p", "num">>, <<"q", "num">>}] : s \in FirstSteps, t \in {{}, {-12}}}

NotThisPart == 0   \* a variable of a part the behaviour is not about

Init ==
  /\ part \in {"executions", "memory", "versions", "draft", "transfer", "parking", "fetch", "catalogs"}
  /\ IF part = "executions" THEN StoreInit
     ELSE /\ dir = NotThisPart /\ yaml = NotThisPart /\ pgid = NotThisPart
          /\ aside = NotThisPart /\ recent = NotThisPart /\ base = NotThisPart
          /\ wal = NotThisPart /\ order = NotThisPart /\ phase = NotThisPart
          /\ execs = NotThisPart /\ live = NotThisPart /\ thread = NotThisPart
          /\ group = NotThisPart /\ op = NotThisPart /\ stale = NotThisPart
          /\ newer = NotThisPart /\ doomed = NotThisPart /\ crashes = NotThisPart
          /\ told = NotThisPart /\ stranded = NotThisPart /\ kept = NotThisPart
          /\ gone = NotThisPart
  /\ IF part = "memory" THEN SnapInit
     ELSE /\ mem = NotThisPart /\ tmp = NotThisPart /\ old = NotThisPart
          /\ snaps = NotThisPart /\ made = NotThisPart /\ twin = NotThisPart
          /\ up = NotThisPart /\ reg = NotThisPart /\ runs = NotThisPart
          /\ owed = NotThisPart /\ written = NotThisPart /\ task = NotThisPart
          /\ deaths = NotThisPart /\ expect = NotThisPart
  /\ IF part = "versions" THEN VersionsInit
     ELSE /\ folder = NotThisPart /\ pointer = NotThisPart /\ asideVersion = NotThisPart
          /\ copied = NotThisPart /\ versions = NotThisPart /\ current = NotThisPart
          /\ writing = NotThisPart /\ saves = NotThisPart /\ promised = NotThisPart
          /\ upsets = NotThisPart /\ hands = NotThisPart
  /\ IF part = "draft" THEN SwapInit
     ELSE /\ owner = NotThisPart /\ dd = NotThisPart /\ asideCopy = NotThisPart
          /\ staged = NotThisPart /\ draft = NotThisPart /\ swap = NotThisPart
          /\ saved = NotThisPart /\ answered = NotThisPart /\ doubtful = NotThisPart
          /\ swapUpsets = NotThisPart
  /\ IF part = "transfer" THEN TransferInit
     ELSE /\ store = NotThisPart /\ auto = NotThisPart /\ archive = NotThisPart
          /\ landed = NotThisPart /\ pristine = NotThisPart /\ handled = NotThisPart
  /\ IF part = "parking" THEN ParkInit
     ELSE /\ now = NotThisPart /\ slot = NotThisPart /\ timer = NotThisPart
          /\ firing = NotThisPart /\ resweeps = NotThisPart /\ spool = NotThisPart
          /\ parking = NotThisPart /\ confirm = NotThisPart /\ imported = NotThisPart
          /\ leftover = NotThisPart /\ running = NotThisPart /\ mishaps = NotThisPart
  /\ IF part = "fetch" THEN FetchInit
     ELSE /\ step = NotThisPart /\ link = NotThisPart /\ asking = NotThisPart
          /\ spent = NotThisPart /\ limit = NotThisPart /\ patience = NotThisPart
          /\ got = NotThisPart /\ declared = NotThisPart /\ hops = NotThisPart
          /\ came = NotThisPart /\ plain = NotThisPart
  /\ IF part = "catalogs" THEN MarketInit
     ELSE /\ rows = NotThisPart /\ table = NotThisPart /\ copy = NotThisPart
          /\ place = NotThisPart /\ job = NotThisPart /\ archives = NotThisPart
          /\ lost = NotThisPart /\ garbled = NotThisPart /\ readOnly = NotThisPart
          /\ unsaved = NotThisPart /\ opened = NotThisPart /\ halting = NotThisPart
          /\ jobs = NotThisPart /\ slips = NotThisPart /\ changes = NotThisPart

Still(p) ==
  /\ UNCHANGED part
  /\ p # "executions" => UNCHANGED storeVars
  /\ p # "memory" => UNCHANGED snapVars
  /\ p # "versions" => UNCHANGED versionVars
  /\ p # "draft" => UNCHANGED swapVars
  /\ p # "transfer" => UNCHANGED transferVars
  /\ p # "parking" => UNCHANGED parkVars
  /\ p # "fetch" => UNCHANGED fetchVars
  /\ p # "catalogs" => UNCHANGED marketVars

Next ==
  \/ part = "executions" /\ StoreNext /\ Still("executions")
  \/ part = "memory" /\ SnapNext /\ Still("memory")
  \/ part = "versions" /\ VersionsNext /\ Still("versions")
  \/ part = "draft" /\ SwapNext /\ Still("draft")
  \/ part = "transfer" /\ TransferNext /\ Still("transfer")
  \/ part = "parking" /\ ParkNext /\ Still("parking")
  \/ part = "fetch" /\ FetchNext /\ Still("fetch")
  \/ part = "catalogs" /\ MarketNext /\ Still("catalogs")

allVars ==
    <<part, storeVars, snapVars, versionVars, swapVars, transferVars, parkVars,
    fetchVars, marketVars>>

Spec == Init /\ [][Next]_allVars

-----------------------------------------------------------------------------
(* Every variable of every part keeps its type.                               *)
StorageTypeOK ==
  CASE part = "executions" -> StoreTypeOK  [] part = "memory"  -> SnapTypeOK
    [] part = "versions" -> VersionsTypeOK [] part = "draft" -> SwapTypeOK
    [] part = "transfer" -> TransferTypeOK [] part = "parking" -> ParkTypeOK
    [] part = "fetch" -> FetchTypeOK       [] part = "catalogs" -> MarketTypeOK

(* Across crashes, failed writes and damaged files no execution record is     *)
(* lost or brought back, no outcome changes, and a slot is free only when the *)
(* step group that held it is dead (storage.py:1043-1154, 2701-2848, api.py:3605-3712).  *)
RecordsSurvive ==
  part = "executions" => NothingLost /\ DeletedStaysGone /\ OutcomeIsKept /\ FreeSlotMeansDead

(* What a repair, a prune or a save may never do: override execution.yaml by   *)
(* the index, delete a live execution, prune a named snapshot, or remove the    *)
(* copies a table that could not be read still names (storage.py:1043-1154,    *)
(* 3269-3352, 3727-3742, marketplace.py:830-878).                                         *)
RepairsSpare ==
  [][/\ part = "executions" => YamlIsAuthoritative /\ SweepSparesLive
     /\ part = "memory" => NamedAreSpared
     /\ part = "catalogs" => GarbledLosesNothing]_allVars

(* Memory survives a death anywhere in a restore, a copy taken while an        *)
(* execution wrote is never kept, a restore can be repeated, and a deleted      *)
(* automation's memory stays gone (storage.py:3662-3855).                       *)
MemoryIsKept ==
  part = "memory" => CopiesAreWhole /\ MemorySurvives /\ RestoreIsRepeatable /\ DeletedStaysEmpty

(* The history is what the client was answered, the pointer resolves, a seal   *)
(* names the files it was computed over, and a draft being swapped survives a  *)
(* crash at any rename (storage.py:1670-2355, 2468-2511).                       *)
VersionsAreKept ==
  /\ part = "versions" =>
       HistoryIsWhatWasAnswered /\ AnsweredIsKept /\ PointerResolves /\ SealsAreHonest
  /\ part = "draft" => DraftSurvives

(* An archive lands as what was exported, with every reference resolved or     *)
(* reported and no grant it does not use (transfer.py:1159-1480).               *)
ArchivesLandWhole ==
  part = "transfer" => RoundTrip /\ EveryReferenceIsAccounted /\ GrantsAreReferred

(* What comes from outside stays what it was: a parked import lands once, in    *)
(* time, with its file; a body is read within the deadline and whole; a catalog *)
(* said to have been read shows its own place, and the page shows the table the *)
(* next launch will have (api.py:1566-1722, marketplace.py:858-1268).           *)
FetchedStaysTrue ==
  /\ part = "parking" => LandsOnceInTime /\ SpoolIsAccounted
  /\ part = "fetch" => BodiesEndByTheDeadline /\ AcceptedIsWhole
  /\ part = "catalogs" => ReadMeansItsOwnPlace /\ TableIsShown
==============================================================================
