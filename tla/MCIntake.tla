------------------------------- MODULE MCIntake -------------------------------
(***************************************************************************)
(* What makes an execution start: the scheduler's ticks, the hourly sweeps      *)
(* beside them, chat messages from the Discord gateway and the Messages          *)
(* database, app launches, and what a trigger's text means.  A behaviour is      *)
(* about one of them.                                                          *)
(***************************************************************************)
EXTENDS Scheduler, Sweeps, Gateway, ChatWatcher, Launches, TriggerTexts

VARIABLE part     \* the part a behaviour is about

(* A zone: its offset a before the instant k, b from there on.                *)
Zone(a, b, k) == [u \in 0..7 |-> IF u < k THEN a ELSE b]
FallBack == Zone(2, 0, 5)
Ahead == Zone(0, 2, 4)
Trigger(kind, at, zoned, missed) == [kind |-> kind, at |-> at, zoned |-> zoned, missed |-> missed]

TheZones == {FallBack, Ahead}
TheTriggers ==
  [c |-> Trigger("cron", {5}, {}, TRUE), d |-> Trigger("cron", {4, 6}, {}, FALSE),
   z |-> Trigger("cron", {5}, {FallBack}, TRUE), i |-> Trigger("interval", {3}, {}, TRUE),
   o |-> Trigger("time", {6}, {}, TRUE)]
TheGroups == {{"c", "o"}, {"d"}, {"z"}, {"i"}}

TheHolds == [a |-> <<"s", "t">>, b |-> <<"s">>]

(* Lengths as days, hours, minutes and seconds; triggers a badge is asked for. *)
TheLengths == {<<0, 1, 30, 0>>, <<1, 0, 0, 0>>, <<0, 24, 0, 0>>, <<0, 0, 0, 10>>, <<0, 0, 1, 5>>,
               <<365, 0, 0, 1>>, <<0, 6, 0, 0>>}
TheBadged == {Trigger("cron", {3, 5}, {}, TRUE), Trigger("cron", {4, 5, 6}, {FallBack}, TRUE),
              Trigger("interval", {2}, {}, TRUE)}
TheBadgeZones == {FallBack, Ahead, Zone(1, 1, 1)}

NotThisPart == 0   \* a variable of a part the behaviour is not about

Init ==
  /\ part \in {"schedule", "sweeps", "gateway", "messages", "launches", "texts"}
  /\ IF part = "schedule" THEN SchedInit /\ (focus = {"i"} => zone = FallBack)
     ELSE /\ focus = NotThisPart /\ utc = NotThisPart /\ zone = NotThisPart
          /\ book = NotThisPart /\ there = NotThisPart /\ base = NotThisPart
          /\ lastFired = NotThisPart /\ prev = NotThisPart /\ ran = NotThisPart
          /\ refusing = NotThisPart /\ cutOff = NotThisPart /\ tick = NotThisPart
          /\ left = NotThisPart /\ seen = NotThisPart /\ answered = NotThisPart
          /\ from = NotThisPart /\ lost = NotThisPart /\ misread = NotThisPart
          /\ fired = NotThisPart /\ again = NotThisPart /\ glitch = NotThisPart
          /\ edits = NotThisPart /\ steps = NotThisPart
          /\ closing = NotThisPart /\ voided = NotThisPart /\ turnedAway = NotThisPart
  /\ IF part = "sweeps" THEN SweepInit
     ELSE /\ wall = NotThisPart /\ backs = NotThisPart /\ lastRetention = NotThisPart
          /\ lastOverdue = NotThisPart /\ sweeper = NotThisPart /\ overdue = NotThisPart
          /\ mute = NotThisPart /\ streak = NotThisPart /\ told = NotThisPart
          /\ posted = NotThisPart /\ announced = NotThisPart /\ waited = NotThisPart
  /\ IF part = "gateway" THEN GateInit
     ELSE /\ wants = NotThisPart /\ conns = NotThisPart /\ table = NotThisPart
          /\ recon = NotThisPart /\ managerStops = NotThisPart /\ halted = NotThisPart
          /\ inStop = NotThisPart /\ seenMsgs = NotThisPart /\ msgs = NotThisPart
          /\ dispatching = NotThisPart /\ firings = NotThisPart /\ lookups = NotThisPart
          /\ looked = NotThisPart /\ outOfReach = NotThisPart
          /\ flips = NotThisPart /\ faults = NotThisPart
  /\ IF part = "messages" THEN ChatInit
     ELSE /\ chat = NotThisPart /\ readable = NotThisPart /\ hour = NotThisPart
          /\ wanted = NotThisPart /\ watcher = NotThisPart /\ open = NotThisPart
          /\ cursor = NotThisPart /\ hasCursor = NotThisPart /\ pass = NotThisPart
          /\ stopped = NotThisPart /\ toldOf = NotThisPart /\ marker = NotThisPart
          /\ since = NotThisPart /\ firedFor = NotThisPart /\ excused = NotThisPart
          /\ notices = NotThisPart /\ wrong = NotThisPart /\ upsets = NotThisPart
  /\ IF part = "launches" THEN LaunchInit
     ELSE /\ served = NotThisPart /\ requests = NotThisPart /\ answeredIds = NotThisPart
          /\ starts = NotThisPart /\ off = NotThisPart /\ sends = NotThisPart
          /\ crowded = NotThisPart
  /\ IF part = "texts" THEN TextInit
     ELSE /\ field = NotThisPart /\ parts = NotThisPart /\ badge = NotThisPart

Still(p) ==
  /\ UNCHANGED part
  /\ p # "schedule" => UNCHANGED schedVars
  /\ p # "sweeps" => UNCHANGED sweepVars
  /\ p # "gateway" => UNCHANGED gateVars
  /\ p # "messages" => UNCHANGED chatVars
  /\ p # "launches" => UNCHANGED launchVars
  /\ p # "texts" => UNCHANGED textVars

Next ==
  \/ part = "schedule" /\ SchedNext /\ Still("schedule")
  \/ part = "sweeps" /\ SweepNext /\ Still("sweeps")
  \/ part = "gateway" /\ GateNext /\ Still("gateway")
  \/ part = "messages" /\ ChatNext /\ Still("messages")
  \/ part = "launches" /\ LaunchNext /\ Still("launches")
  \/ part = "texts" /\ TextNext /\ Still("texts")

allVars ==
    <<part, schedVars, sweepVars, gateVars, chatVars, launchVars, textVars>>

Spec == Init /\ [][Next]_allVars

\* The scheduler alone.
ScheduleSpec == part = "schedule" /\ Init /\ [][Next]_allVars

-----------------------------------------------------------------------------
(* Every variable of every part keeps its type.                               *)
IntakeTypeOK ==
  CASE part = "schedule" -> SchedTypeOK [] part = "sweeps" -> SweepTypeOK
    [] part = "gateway" -> GateTypeOK   [] part = "messages" -> ChatTypeOK
    [] part = "launches" -> LaunchTypeOK [] part = "texts" -> TRUE

(* Across ticks, sleep, clock and zone changes, edits and travel, every         *)
(* occurrence of an enabled trigger is answered, none fires twice unless its     *)
(* wall time repeats, a one-shot is not lost, and only what was slept through     *)
(* is dropped (scheduler.py:172-438, triggers.py:126-391).                       *)
OccurrencesFireOnce ==
  part = "schedule" => NothingSwallowed /\ FiresOnce /\ OneShotKept /\ OnlySleptThroughDrops

(* The hourly sweeps never stall, and an overdue automation is told of once a    *)
(* stretch, whatever the clock does (scheduler.py:83-166, 440-497).                        *)
SweepsKeepGoing == part = "sweeps" => ToldOnceAStretch /\ SweepNeverStalls

(* A message starts what it asks for once, though two connections or a resume     *)
(* deliver it again; history read when a watch begins starts nothing, and nothing *)
(* that came after is passed over; a launch starts an automation once              *)
(* (listeners.py:439-741, api.py:1812-1850).                                       *)
MessagesFireOnce ==
  /\ part = "gateway" => MessageFiresOnce
  /\ part = "messages" => HistoryNeverFires /\ NothingPassedOver
  /\ part = "launches" => LaunchStartsOnce

(* A bot has one live connection, none outlives the stop, a stopped watcher never *)
(* opens the database again, and a notice is shown once (listeners.py:231-655).    *)
ListenersStop ==
  /\ part = "gateway" => NoneOutlivesStop /\ OneConnectionEach
  /\ part = "messages" => StaysClosed /\ NoticedOnce

(* A field an earlier release saved fires when it did, a length keeps its seconds *)
(* through its text, and a missed badge means two runs missed                     *)
(* (triggers.py:39-87, 200-288, 857-905).                                                 *)
TextsMeanWhatTheySay ==
  part = "texts" => LegacyFieldsKeepFiring /\ LengthsKeepTheirSeconds /\ BadgeMeansTwoMissed
==============================================================================
