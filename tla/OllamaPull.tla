------------------------------ MODULE OllamaPull ------------------------------
(***************************************************************************)
(* The local Ollama server and its model pulls (api.ollama_pull and the    *)
(* two pull paths, harness.ollama_status): one thread per accepted pull,   *)
(* the set of models being pulled, the CLI children the shutdown sweep     *)
(* kills, the overall percentage, and the status polls that start a        *)
(* stopped server at most once per cooldown.                               *)
(***************************************************************************)
EXTENDS Naturals, FiniteSets, FiniteSetsExt

CONSTANTS Pulls,      \* pull requests; each is accepted at most once
          Models,     \* model names
          Layers,     \* the layers a model has; each is LayerSize big
          LayerSize,
          Deadline,   \* PULL_DEADLINE_S, in ticks
          Cooldown,   \* _SERVE_COOLDOWN_S, in ticks
          MaxServes   \* bound on the servers a run spawns

ASSUME PullAssumption ==
  LayerSize \in Nat /\ Deadline \in Nat /\ Cooldown \in Nat /\ MaxServes \in Nat

VARIABLES model,      \* what a request asks for
          step,       \* where its thread is
          running,    \* its CLI child is alive
          waited,     \* ticks since the pull started
          layers,     \* _PullProgress._layers: done bytes of each layer seen
          percent,    \* _PullProgress.percent
          terminal,   \* the terminal events published for it
          pulling,    \* the set _pulling
          procs,      \* the set _pull_procs
          closing,    \* the backend is shutting down
          up,         \* the server answers
          sinceServe, \* ticks since the last spawn of `ollama serve`
          serves      \* spawns so far

pullVars == <<model, step, running, waited, layers, percent, terminal, pulling, procs,
              closing, up, sinceServe, serves>>
progress == <<layers, percent>>
server == <<up, sinceServe, serves>>

Steps == {"none", "accepted", "http", "cli", "spawned", "read", "reap", "ending", "gone"}
Active(p) == step[p] \notin {"none", "gone"}

PullTypeOK ==
    /\ model \in [Pulls -> Models] /\ step \in [Pulls -> Steps]
    /\ running \in [Pulls -> BOOLEAN] /\ waited \in [Pulls -> 0..Deadline + 1]
    /\ layers \in [Pulls -> [Layers -> 0..LayerSize + 1]]
    /\ percent \in [Pulls -> 0..100]
    /\ terminal \in [Pulls -> 0..1] /\ pulling \subseteq Models /\ procs \subseteq Pulls
    /\ closing \in BOOLEAN /\ up \in BOOLEAN
    /\ sinceServe \in 0..Cooldown + 1 /\ serves \in 0..MaxServes

PullInit ==
    /\ model \in [Pulls -> Models] /\ step = [p \in Pulls |-> "none"]
    /\ running = [p \in Pulls |-> FALSE] /\ waited = [p \in Pulls |-> 0]
    /\ layers = [p \in Pulls |-> [l \in Layers |-> 0]]
    /\ percent = [p \in Pulls |-> 0] /\ terminal = [p \in Pulls |-> 0]
    /\ pulling = {} /\ procs = {} /\ closing = FALSE
    /\ up \in BOOLEAN /\ sinceServe = Cooldown + 1 /\ serves = 0

At(p, from, to) == step[p] = from /\ step' = [step EXCEPT ![p] = to]

\* The terminal done event; the progress was the path's own.
Announce(p) ==
    /\ terminal' = [terminal EXCEPT ![p] = @ + 1]
    /\ layers' = [layers EXCEPT ![p] = [l \in Layers |-> 0]]
    /\ percent' = [percent EXCEPT ![p] = 0] /\ waited' = [waited EXCEPT ![p] = 0]

-----------------------------------------------------------------------------
(* POST /ollama/pull and the thread's choice of a path.                    *)

AnyModel(m) == TRUE
Idle(m) == m \notin pulling

Accept(p) ==
    /\ ~closing /\ Idle(model[p])
    /\ At(p, "none", "accepted")
    /\ pulling' = pulling \cup {model[p]}
    /\ UNCHANGED <<model, running, waited, progress, terminal, procs, closing, server>>

\* 409 already pulling.
Refuse(p) ==
    /\ ~Idle(model[p]) /\ At(p, "none", "gone")
    /\ UNCHANGED <<model, running, waited, progress, terminal, pulling, procs, closing, server>>

Choose(p) ==
    /\ At(p, "accepted", IF up THEN "http" ELSE "cli")
    /\ UNCHANGED <<model, running, waited, progress, terminal, pulling, procs, closing, server>>

-----------------------------------------------------------------------------
(* Progress: a line names a layer (a layer is counted once it was seen),   *)
(* or is a bare percentage; the overall figure never falls.                *)

SeenLayers(p) == {l \in Layers : layers'[p][l] > 0}
DoneIn(p) == MapThenSumSet(LAMBDA l : layers'[p][l] - 1, SeenLayers(p))
Percent(p) == (100 * DoneIn(p)) \div (LayerSize * Cardinality(SeenLayers(p)))
Latest(old, new) == new
Raised(old, new) == IF new \in old..100 THEN new ELSE IF new > 100 THEN 100 ELSE old

\* layers[p][l] is one more than the bytes done, 0 for a layer not yet seen.
LayerLine(p) ==
    \E l \in Layers, n \in 0..LayerSize :
        /\ layers' = [layers EXCEPT ![p][l] = n + 1]
        /\ percent' = [percent EXCEPT ![p] = Raised(@, Percent(p))]

-----------------------------------------------------------------------------
(* The server's own stream: every read has a timeout, every line looks at  *)
(* the clock first.                                                        *)

TooLong(p) == waited[p] > Deadline

HttpLine(p) ==
    /\ step[p] = "http" /\ up /\ ~TooLong(p) /\ LayerLine(p)
    /\ UNCHANGED <<model, step, running, waited, terminal, pulling, procs, closing, server>>

\* Success, an error line, a line past the deadline, a read that timed out,
\* a broken connection: one terminal event each.
HttpEnds(p) ==
    /\ At(p, "http", "ending") /\ Announce(p)
    /\ UNCHANGED <<model, running, pulling, procs, closing, server>>

-----------------------------------------------------------------------------
(* The CLI path.                                                           *)

\* No binary, or the spawn fails.
CliFails(p) ==
    /\ At(p, "cli", "ending") /\ Announce(p)
    /\ UNCHANGED <<model, running, pulling, procs, closing, server>>

CliSpawns(p) ==
    /\ At(p, "cli", "spawned")
    /\ running' = [running EXCEPT ![p] = TRUE]
    /\ UNCHANGED <<model, waited, progress, terminal, pulling, procs, closing, server>>

CliTracks(p) ==
    /\ At(p, "spawned", "read")
    /\ procs' = procs \cup {p}
    /\ UNCHANGED <<model, running, waited, progress, terminal, pulling, closing, server>>

\* The deadline is looked at when a line arrives, and only then.
CliLine(p) ==
    /\ step[p] = "read" /\ running[p]
    /\ IF TooLong(p)
          THEN /\ step' = [step EXCEPT ![p] = "reap"]
               /\ running' = [running EXCEPT ![p] = FALSE] /\ UNCHANGED progress
          ELSE LayerLine(p) /\ UNCHANGED <<step, running>>
    /\ UNCHANGED <<model, waited, terminal, pulling, procs, closing, server>>

CliEof(p) ==
    /\ ~running[p] /\ At(p, "read", "reap")
    /\ UNCHANGED <<model, running, waited, progress, terminal, pulling, procs, closing, server>>

CliReaps(p) ==
    /\ ~running[p] /\ At(p, "reap", "ending")
    /\ procs' = procs \ {p} /\ Announce(p)
    /\ UNCHANGED <<model, running, pulling, closing, server>>

ChildEnds(p) ==
    /\ running[p]
    /\ running' = [running EXCEPT ![p] = FALSE]
    /\ UNCHANGED <<model, step, waited, progress, terminal, pulling, procs, closing, server>>

\* The thread's finally.
Frees(p) ==
    /\ At(p, "ending", "gone")
    /\ pulling' = pulling \ {model[p]}
    /\ UNCHANGED <<model, running, waited, progress, terminal, procs, closing, server>>

-----------------------------------------------------------------------------
\* The lifespan's shutdown kills every tracked child by its group.
PullShutdown ==
    /\ ~closing /\ closing' = TRUE
    /\ procs' = {}
    /\ running' = [p \in Pulls |-> running[p] /\ p \notin procs]
    /\ UNCHANGED <<model, step, waited, progress, terminal, pulling, server>>

\* Each path starts its own clock.
Counting(p) == step[p] \in {"http", "read"} /\ ~TooLong(p)

PullTick ==
    /\ \E p \in Pulls : Counting(p)
    /\ waited' = [p \in Pulls |-> IF Counting(p) THEN waited[p] + 1 ELSE waited[p]]
    /\ sinceServe' = IF sinceServe > Cooldown THEN sinceServe ELSE sinceServe + 1
    /\ UNCHANGED <<model, step, running, progress, terminal, pulling, procs, closing, up, serves>>

-----------------------------------------------------------------------------
(* GET /ollama/status: an installed server that does not answer is started *)
(* by the poll that claims the spawn.  The server (external) comes and goes. *)

ClaimServeSpawn == sinceServe > Cooldown

StatusPoll ==
    /\ ~up /\ ClaimServeSpawn /\ serves < MaxServes
    /\ sinceServe' = 0 /\ serves' = serves + 1
    /\ up' \in BOOLEAN
    /\ UNCHANGED <<model, step, running, waited, progress, terminal, pulling, procs, closing>>

ServerDies ==
    /\ up /\ up' = FALSE
    /\ UNCHANGED <<model, step, running, waited, progress, terminal, pulling, procs, closing,
                   sinceServe, serves>>

-----------------------------------------------------------------------------
PullThread(p) == Choose(p) \/ HttpLine(p) \/ HttpEnds(p) \/ CliFails(p) \/ CliSpawns(p)
                 \/ CliTracks(p) \/ CliLine(p) \/ CliEof(p) \/ CliReaps(p) \/ Frees(p)

PullNext ==
    \/ \E p \in Pulls : Accept(p) \/ Refuse(p) \/ PullThread(p) \/ ChildEnds(p)
    \/ PullShutdown \/ PullTick \/ StatusPoll \/ ServerDies

PullSpec == PullInit /\ [][PullNext]_pullVars

\* Time passes, every pull thread moves when it can; a CLI child's lines and
\* its exit are its own business.
PullFair ==
    /\ PullSpec /\ WF_pullVars(PullTick)
    /\ \A p \in Pulls :
          /\ WF_pullVars(Choose(p) \/ HttpEnds(p) \/ CliFails(p) \/ CliSpawns(p) \/ CliTracks(p))
          /\ WF_pullVars(CliEof(p) \/ CliReaps(p) \/ Frees(p))

-----------------------------------------------------------------------------
(* Two pulls of one model never run at the same time, from the request to  *)
(* the end of the first one's thread.                                      *)
OnePullPerModel ==
    \A p, q \in Pulls : p /= q /\ Active(p) /\ Active(q) => model[p] /= model[q]

(* The progress bar of a pull never runs backwards, though every new layer *)
(* raises the total.                                                       *)
ProgressNeverFalls ==
    \A p \in Pulls : Active(p) /\ step'[p] /= "ending" => percent'[p] >= percent[p]

(* A pull ends: it runs under a wall-clock cap.                            *)
PullsEnd == \A p \in Pulls : (step[p] = "accepted") ~> (step[p] = "gone")
=============================================================================
