----------------------------- MODULE MCAuthoring ------------------------------
(***************************************************************************)
(* How an automation is written: the draft and its versions, the drafting jobs   *)
(* of the chat, one call of an agent's CLI and what is read from its reply, the   *)
(* repair rounds, and the local models and provider settings behind it.  A        *)
(* behaviour is about one of them.                                              *)
(***************************************************************************)
EXTENDS DraftSettle, DraftJobs, AgentCall, AgentReply, ChatRounds, OllamaPull, ProviderConfig

VARIABLE part     \* the part a behaviour is about

(* Two callers in the backend, one in an executor process.                     *)
TheProcess == [c \in {"b1", "b2", "x1"} |-> IF c = "x1" THEN "executor" ELSE "backend"]

NotThisPart == 0   \* a variable of a part the behaviour is not about

Init ==
  /\ part \in {"draft", "jobs", "call", "reply", "stream", "rounds", "pulls", "provider"}
  /\ IF part = "draft" THEN SettleInit
     ELSE /\ version = NotThisPart /\ base = NotThisPart /\ lineage = NotThisPart
          /\ content = NotThisPart /\ puts = NotThisPart /\ draftRun = NotThisPart
          /\ settle = NotThisPart /\ settles = NotThisPart /\ epoch = NotThisPart
          /\ test = NotThisPart /\ born = NotThisPart /\ marked = NotThisPart
          /\ told = NotThisPart /\ ended = NotThisPart /\ record = NotThisPart
          /\ testYaml = NotThisPart /\ removal = NotThisPart
  /\ IF part = "jobs" THEN JobsInit
     ELSE /\ generation = NotThisPart /\ flagged = NotThisPart /\ backend = NotThisPart
          /\ request = NotThisPart /\ seen = NotThisPart /\ status = NotThisPart
          /\ known = NotThisPart /\ thread = NotThisPart /\ calls = NotThisPart
          /\ proc = NotThisPart /\ grip = NotThisPart /\ snapshot = NotThisPart
          /\ script = NotThisPart /\ tampers = NotThisPart /\ settling = NotThisPart
          /\ noted = NotThisPart /\ owed = NotThisPart
  /\ IF part = "call" THEN CallInit
     ELSE /\ call = NotThisPart /\ child = NotThisPart /\ helper = NotThisPart
          /\ prompt = NotThisPart /\ line = NotThisPart /\ mute = NotThisPart
          /\ held = NotThisPart /\ released = NotThisPart /\ drained = NotThisPart
          /\ expired = NotThisPart /\ capped = NotThisPart /\ overflow = NotThisPart
          /\ done = NotThisPart /\ guard = NotThisPart /\ canceller = NotThisPart
          /\ quiet = NotThisPart /\ age = NotThisPart /\ doc = NotThisPart
          /\ poll = NotThisPart /\ dead = NotThisPart /\ fed = NotThisPart
          /\ verdict = NotThisPart
  /\ IF part = "reply" THEN ReplyInit
     ELSE /\ stdout = NotThisPart /\ docs = NotThisPart
  /\ IF part = "stream" THEN ScanInit
     ELSE /\ text = NotThisPart /\ marks = NotThisPart /\ tailStart = NotThisPart
  /\ IF part = "rounds" THEN ChatInit
     ELSE /\ round = NotThisPart /\ kept = NotThisPart /\ answer = NotThisPart
          /\ outcome = NotThisPart /\ payload = NotThisPart /\ sent = NotThisPart
          /\ spoke = NotThisPart
  /\ IF part = "pulls" THEN PullInit
     ELSE /\ model = NotThisPart /\ step = NotThisPart /\ running = NotThisPart
          /\ waited = NotThisPart /\ layers = NotThisPart /\ percent = NotThisPart
          /\ terminal = NotThisPart /\ pulling = NotThisPart /\ procs = NotThisPart
          /\ closing = NotThisPart /\ up = NotThisPart /\ sinceServe = NotThisPart
          /\ serves = NotThisPart
  /\ IF part = "provider" THEN ProviderInit
     ELSE /\ file = NotThisPart /\ writable = NotThisPart /\ merge = NotThisPart
          /\ threadLock = NotThisPart /\ fileLock = NotThisPart /\ read = NotThisPart
          /\ truth = NotThisPart /\ poller = NotThisPart /\ probeLock = NotThisPart
          /\ cache = NotThisPart /\ probes = NotThisPart /\ wall = NotThisPart

Still(p) ==
  /\ UNCHANGED part
  /\ p # "draft" => UNCHANGED settleVars
  /\ p # "jobs" => UNCHANGED jobVars
  /\ p # "call" => UNCHANGED agentCallVars
  /\ p # "reply" => UNCHANGED replyVars
  /\ p # "stream" => UNCHANGED scanVars
  /\ p # "rounds" => UNCHANGED chatVars
  /\ p # "pulls" => UNCHANGED pullVars
  /\ p # "provider" => UNCHANGED providerVars

\* A bound: a program rewrites the locked script in behaviours without a settle,
\* a removal or a shutdown, none of which looks at it.
TampersAlone == tampers' > 0 => generation' = 0 /\ ~ flagged' /\ backend' = "runs"

Next ==
  \/ part = "draft" /\ SettleNext /\ Still("draft")
  \/ part = "jobs" /\ JobsNext /\ TampersAlone /\ Still("jobs")
  \/ part = "call" /\ CallNext /\ Still("call")
  \/ part = "reply" /\ ReplyNext /\ Still("reply")
  \/ part = "stream" /\ ScanNext /\ Still("stream")
  \/ part = "rounds" /\ ChatNext /\ Still("rounds")
  \/ part = "pulls" /\ PullNext /\ Still("pulls")
  \/ part = "provider" /\ ProviderNext /\ Still("provider")

allVars ==
    <<part, settleVars, jobVars, agentCallVars, replyVars, scanVars, chatVars,
    pullVars, providerVars>>

Spec == Init /\ [][Next]_allVars

-----------------------------------------------------------------------------
(* Every variable of every part keeps its type.                               *)
AuthoringTypeOK ==
  CASE part = "draft" -> SettleTypeOK [] part = "jobs" -> JobsTypeOK
    [] part = "call" -> CallTypeOK    [] part = "reply" -> ReplyTypeOK
    [] part = "stream" -> ScanTypeOK  [] part = "rounds" -> ChatTypeOK
    [] part = "pulls" -> PullTypeOK   [] part = "provider" -> ProviderTypeOK

(* A save never takes over a version it has not seen, a draft's run keeps the    *)
(* scripts it started with, and a settled test leaves nothing behind and was told *)
(* to stop (api.py:938-1464, testexec.py:40-362).                              *)
DraftsSettle ==
  part = "draft" => /\ NoVersionIsOverlooked /\ DraftRunKeepsItsScripts
                    /\ SettledTestLeavesNothing /\ SettledTestIsToldToStop

(* One job builds a draft, none outlives the draft it is for, a cancel reaches     *)
(* the program whatever it is doing, and the scripts guarded during a call are      *)
(* what they were after it (drafting.py:2140-2497).                                *)
JobsStayInTheirDraft ==
  part = "jobs" => OneJobBuilds /\ NoJobOutlivesItsDraft /\ CancelReachesTheProgram /\ GuardRestores

(* A job that is over stays as it ended, a job for an older draft never replaces a  *)
(* newer one, and a pull's progress never falls (drafting.py:2210-2497,            *)
(* api.py:2769-2958).                                                              *)
WorkNeverGoesBack ==
  [][/\ part = "jobs" => StaleNeverSupersedes /\ OutcomeStands
     /\ part = "pulls" => ProgressNeverFalls]_allVars

(* Whatever way an agent call is left - answered, timed out, cancelled while it     *)
(* spawns, its child escaped - no process and no thread of it stays, a CLI that      *)
(* finished is not reported as timed out, and its documents are in the reply;         *)
(* one model is pulled and one probe runs at a time, and of two merges into the        *)
(* provider's file none is lost (harness.py:1294-1732, 1881-1990,                *)
(* api.py:2814-2958).                                                                   *)
AgentsAreReleased ==
  /\ part = "call" => /\ NothingOutlivesTheCall /\ FinishedIsAnswered
                      /\ CancelFreesTheCall /\ DocumentsReachTheReply
  /\ part = "pulls" => OnePullPerModel
  /\ part = "provider" => NoEntryIsDropped /\ OneProbeRuns

(* What the reader of a reply settles on is what the agent wrote: documents without   *)
(* marker lines are read back whole, and one with an ===END=== line up to it;           *)
(* the marks of a stream fed in pieces are those of the whole text,                    *)
(* and what a chat settles on was validated, the newest good block of each file         *)
(* (harness.py:682-716, 1181-1228, drafting.py:116-200, 804-960, 2569-2702).                                      *)
RepliesAreReadBack ==
  /\ part = "reply" => DocumentsAreReadBack /\ NotesRideTheBlocker
  /\ part = "stream" => ScanAgrees
  /\ part = "rounds" => SettledIsValid /\ NewestGoodBlockSettles /\ LastProseSettles
==============================================================================
