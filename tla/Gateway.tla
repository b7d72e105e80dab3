-------------------------------- MODULE Gateway --------------------------------
(***************************************************************************)
(* Discord listeners (backend/autowright/listeners.py): one connection      *)
(* thread per bot-token secret, reconciled against the enabled triggers,    *)
(* and the dispatch of the messages they receive.  Each connection sees     *)
(* every message of the one watched channel while its session is ready;     *)
(* there is no resume, so what arrives while it is not is missed.  A        *)
(* dispatch holds the store's lock while it looks its automations up, one    *)
(* by one, in the memory of what has fired.                                  *)
(***************************************************************************)
EXTENDS Integers, Sequences, FiniteSets, SequencesExt

CONSTANTS Secrets,       \* bot-token secrets
          Bots,          \* automations
          Holds,         \* automation -> the secrets its triggers name, in list order
          SeenLimit,     \* DISCORD_SEEN_LIMIT
          MaxMsgs, MaxConns, MaxFlips, MaxFaults   \* bounds
ASSUME GatewayAssumption ==
  MaxConns \in Nat /\ MaxMsgs \in Nat /\ SeenLimit \in Nat \ {0} /\ IsFiniteSet(Bots)

VARIABLES wants,         \* {<<automation, secret>>}: enabled discord triggers
          conns,         \* connection threads: 1..MaxConns -> record
          table,         \* _conns: secret -> connection, 0 for none
          recon,         \* the reconcile pass in progress
          managerStops,  \* the manager's _stop
          halted,        \* stop() has stopped its snapshot
          inStop,        \* connections stop() has still to stop
          dispatching,   \* the dispatch that holds store.lock: connection (0 for none),
                         \* message, automations still to look up
          seenMsgs,      \* _discord_seen: pairs, oldest first
          msgs,          \* messages posted so far
          firings,       \* ghost: <<automation, message>> -> firings
          lookups,       \* ghost: lookups so far
          looked,        \* ghost: pair -> the last lookup of it, 0 for none
          outOfReach,    \* ghost: pair -> lookups of it that came after SeenLimit others
          flips, faults

memoryVars == <<dispatching, seenMsgs, lookups, looked, outOfReach>>
gateVars == <<wants, conns, table, recon, managerStops, halted, inStop, memoryVars, msgs,
              firings, flips, faults>>

ConnIds == 1..MaxConns
Unused == [secret |-> "none", st |-> "unused", stop |-> FALSE, deaf |-> FALSE,
           awaiting |-> FALSE, inbox |-> <<>>, hits |-> {}]
ConnIdle == [phase |-> "idle", want |-> {}]
Pairs == Bots \X (1..MaxMsgs)
NoDispatch == [conn |-> 0, msg |-> 0, todo |-> {}]
InDispatch(k) == dispatching.conn = k \/ conns[k].hits # {}
ConnAlive(k) == conns[k].st \notin {"unused", "gone"}

GateInit ==
  /\ wants = {w \in Bots \X Secrets : w[2] \in Range(Holds[w[1]])}
  /\ conns = [k \in ConnIds |-> Unused] /\ table = [s \in Secrets |-> 0]
  /\ recon = ConnIdle /\ managerStops = FALSE /\ halted = FALSE /\ inStop = {}
  /\ dispatching = NoDispatch /\ seenMsgs = <<>> /\ msgs = 0
  /\ firings = [p \in Pairs |-> 0] /\ lookups = 0
  /\ looked = [p \in Pairs |-> 0] /\ outOfReach = [p \in Pairs |-> 0]
  /\ flips = 0 /\ faults = 0

(***************************************************************************)
(* Users and the gateway.                                                   *)
(***************************************************************************)
Flip(a, s) ==
  /\ flips < MaxFlips /\ dispatching = NoDispatch /\ s \in Range(Holds[a])
  /\ wants' = IF <<a, s>> \in wants THEN wants \ {<<a, s>>} ELSE wants \cup {<<a, s>>}
  /\ flips' = flips + 1
  /\ UNCHANGED <<conns, table, recon, managerStops, halted, inStop, memoryVars, msgs, firings, faults>>

Hears(k) == conns[k].st = "ready" /\ ~conns[k].deaf
Post ==
  /\ msgs < MaxMsgs
  /\ msgs' = msgs + 1
  /\ conns' = [k \in ConnIds |-> IF Hears(k) THEN [conns[k] EXCEPT !.inbox = Append(@, msgs + 1)]
                             ELSE conns[k]]
  /\ UNCHANGED <<wants, table, recon, managerStops, halted, inStop, memoryVars, firings, flips, faults>>

(***************************************************************************)
(* One connection thread (_Conn._run, _session).                            *)
(***************************************************************************)
Thread(k, rec) ==
  /\ conns' = [conns EXCEPT ![k] = rec]
  /\ UNCHANGED <<wants, table, recon, managerStops, halted, inStop, memoryVars, msgs, firings, flips>>

(* The token is read at every attempt; a store that does not answer, or a   *)
(* secret with no value, parks the thread.                                   *)
TokenRead(k) ==
  /\ conns[k].st = "asking" /\ ~conns[k].stop
  /\ Thread(k, [conns[k] EXCEPT !.st = "session"]) /\ UNCHANGED faults

TokenMissing(k) ==
  /\ conns[k].st = "asking" /\ ~conns[k].stop /\ faults < MaxFaults
  /\ faults' = faults + 1
  /\ Thread(k, [conns[k] EXCEPT !.st = "waiting"])

Ready(k) ==
  /\ conns[k].st = "session"
  /\ Thread(k, [conns[k] EXCEPT !.st = "ready"]) /\ UNCHANGED faults

(* A session that fails or closes: back to waiting, its unread frames lost. *)
Closed(k) == [conns[k] EXCEPT !.st = "waiting", !.inbox = <<>>, !.deaf = FALSE,
                              !.awaiting = FALSE]
SessionDrops(k) ==
  /\ conns[k].st \in {"session", "ready"} /\ ~InDispatch(k) /\ faults < MaxFaults
  /\ faults' = faults + 1
  /\ Thread(k, Closed(k))

(* The path dies without a close; heartbeats go out and none is acknowledged. *)
PathDies(k) ==
  /\ conns[k].st = "ready" /\ ~conns[k].deaf /\ faults < MaxFaults
  /\ faults' = faults + 1
  /\ Thread(k, [conns[k] EXCEPT !.deaf = TRUE, !.inbox = <<>>])

(* The heartbeat at its deadline: an unacknowledged one ends the session.   *)
Beat(k) ==
  /\ conns[k].st = "ready" /\ ~conns[k].stop /\ ~InDispatch(k)
  /\ Thread(k, IF conns[k].awaiting THEN Closed(k)
               ELSE [conns[k] EXCEPT !.awaiting = conns[k].deaf])
  /\ UNCHANGED faults

Retries(k) ==
  /\ conns[k].st = "waiting" /\ ~conns[k].stop
  /\ Thread(k, [conns[k] EXCEPT !.st = "asking"]) /\ UNCHANGED faults

(* The stop flag is looked at between frames and cuts every wait short.     *)
ConnLeaves(k) ==
  /\ ConnAlive(k) /\ conns[k].stop /\ ~InDispatch(k)
  /\ Thread(k, [conns[k] EXCEPT !.st = "gone", !.inbox = <<>>]) /\ UNCHANGED faults

(* Something escapes the loop: the thread is dead without being stopped.    *)
Dies(k) ==
  /\ ConnAlive(k) /\ faults < MaxFaults /\ ~InDispatch(k)
  /\ faults' = faults + 1
  /\ Thread(k, [conns[k] EXCEPT !.st = "gone", !.inbox = <<>>])

(***************************************************************************)
(* dispatch: under the store lock the message is matched and remembered,    *)
(* then each hit is fired on its own.                                       *)
(***************************************************************************)
Matching(k) == {a \in Bots : <<a, conns[k].secret>> \in wants}

Dispatch(k) ==
  /\ conns[k].st = "ready" /\ ~InDispatch(k) /\ conns[k].inbox # <<>>
  /\ dispatching = NoDispatch
  /\ dispatching' = IF Matching(k) = {} THEN NoDispatch
                    ELSE [conn |-> k, msg |-> Head(conns[k].inbox), todo |-> Matching(k)]
  /\ conns' = [conns EXCEPT ![k].inbox = Tail(@)]
  /\ UNCHANGED <<wants, table, recon, managerStops, halted, inStop, seenMsgs, lookups, looked,
                 outOfReach, msgs, firings, flips, faults>>

(* _seen_discord: a remembered pair moves to the end, a new one may push    *)
(* the oldest out.                                                           *)
Remembered(p) == Contains(seenMsgs, p)
Place(p) == CHOOSE i \in DOMAIN seenMsgs : seenMsgs[i] = p
Recall(p) ==
  IF Remembered(p) THEN Append(RemoveAt(seenMsgs, Place(p)), p)
  ELSE LET kept == Append(seenMsgs, p)
       IN IF Len(kept) > SeenLimit THEN Tail(kept) ELSE kept

(* The other pairs looked up since a pair was: a reference for the memory.  *)
LookedUpSince(p) == {q \in Pairs : looked[q] > looked[p]}

LookUp(k, a) ==
  /\ dispatching.conn = k /\ a \in dispatching.todo
  /\ LET p == <<a, dispatching.msg>>
     IN /\ seenMsgs' = Recall(p)
        /\ conns' = IF Remembered(p) THEN conns ELSE [conns EXCEPT ![k].hits = @ \cup {p}]
        /\ lookups' = lookups + 1
        /\ looked' = [looked EXCEPT ![p] = lookups + 1]
        /\ outOfReach' = IF looked[p] # 0 /\ Cardinality(LookedUpSince(p)) >= SeenLimit
                         THEN [outOfReach EXCEPT ![p] = @ + 1] ELSE outOfReach
  /\ dispatching' = IF dispatching.todo = {a} THEN NoDispatch
                    ELSE [dispatching EXCEPT !.todo = @ \ {a}]
  /\ UNCHANGED <<wants, table, recon, managerStops, halted, inStop, msgs, firings, flips, faults>>

Fire(k, p) ==
  /\ p \in conns[k].hits /\ dispatching.conn # k
  /\ conns' = [conns EXCEPT ![k].hits = @ \ {p}]
  /\ firings' = [firings EXCEPT ![p] = @ + 1]
  /\ UNCHANGED <<wants, table, recon, managerStops, halted, inStop, memoryVars, msgs, flips, faults>>

(***************************************************************************)
(* The manager thread (_reconcile) and shutdown (stop).                     *)
(***************************************************************************)
Desired == {s \in Secrets : \E a \in Bots : <<a, s>> \in wants}

ReconcileStarts ==
  /\ recon = ConnIdle /\ ~managerStops /\ dispatching = NoDispatch
  /\ recon' = [phase |-> "clean", want |-> Desired]
  /\ UNCHANGED <<wants, conns, table, managerStops, halted, inStop, memoryVars, msgs, firings, flips, faults>>

(* A connection whose thread is gone is no connection. *)
DropDead ==
  /\ recon.phase = "clean"
  /\ table' = [s \in Secrets |-> IF table[s] # 0 /\ ~ConnAlive(table[s]) THEN 0 ELSE table[s]]
  /\ recon' = [recon EXCEPT !.phase = "create"]
  /\ UNCHANGED <<wants, conns, managerStops, halted, inStop, memoryVars, msgs, firings, flips, faults>>

Missing == {s \in recon.want : table[s] = 0}
CreateOpen(s, k) ==
  /\ recon.phase = "create" /\ s \in Missing /\ conns[k].st = "unused"
  /\ table' = [table EXCEPT ![s] = k]
  /\ conns' = [conns EXCEPT ![k] = [Unused EXCEPT !.secret = s, !.st = "asking"]]
  /\ UNCHANGED <<wants, recon, managerStops, halted, inStop, memoryVars, msgs, firings, flips, faults>>

(* The flag is read again under the lock stop() takes its snapshot under.   *)
CreateConn(s, k) == ~managerStops /\ CreateOpen(s, k)

CreateRefused ==
  /\ recon.phase = "create" /\ Missing # {} /\ managerStops
  /\ recon' = ConnIdle
  /\ UNCHANGED <<wants, conns, table, managerStops, halted, inStop, memoryVars, msgs, firings, flips, faults>>

Created ==
  /\ recon.phase = "create" /\ Missing = {}
  /\ recon' = [recon EXCEPT !.phase = "drop"]
  /\ UNCHANGED <<wants, conns, table, managerStops, halted, inStop, memoryVars, msgs, firings, flips, faults>>

DropOne(s) ==
  /\ recon.phase = "drop" /\ s \notin recon.want /\ table[s] # 0
  /\ table' = [table EXCEPT ![s] = 0]
  /\ conns' = [conns EXCEPT ![table[s]].stop = TRUE]
  /\ UNCHANGED <<wants, recon, managerStops, halted, inStop, memoryVars, msgs, firings, flips, faults>>

ReconcileEnds ==
  /\ recon.phase = "drop" /\ \A s \in Secrets : s \notin recon.want => table[s] = 0
  /\ recon' = ConnIdle
  /\ UNCHANGED <<wants, conns, table, managerStops, halted, inStop, memoryVars, msgs, firings, flips, faults>>

StopBegins ==
  /\ ~managerStops
  /\ managerStops' = TRUE
  /\ inStop' = {table[s] : s \in {s \in Secrets : table[s] # 0}}
  /\ UNCHANGED <<wants, conns, table, recon, halted, memoryVars, msgs, firings, flips, faults>>

StopEnds ==
  /\ managerStops /\ ~halted
  /\ conns' = [k \in ConnIds |-> IF k \in inStop THEN [conns[k] EXCEPT !.stop = TRUE] ELSE conns[k]]
  /\ halted' = TRUE /\ inStop' = {}
  /\ UNCHANGED <<wants, table, recon, managerStops, memoryVars, msgs, firings, flips, faults>>

Works(k) == \/ TokenRead(k) \/ Ready(k) \/ Beat(k) \/ Retries(k) \/ ConnLeaves(k)
            \/ Dispatch(k) \/ (\E a \in Bots : LookUp(k, a)) \/ (\E p \in Pairs : Fire(k, p))
Reconciles == \/ ReconcileStarts \/ DropDead \/ CreateRefused \/ Created \/ ReconcileEnds
              \/ \E s \in Secrets : DropOne(s) \/ \E k \in ConnIds : CreateConn(s, k)

GateNext ==
  \/ Post \/ StopBegins \/ StopEnds \/ Reconciles
  \/ \E a \in Bots, s \in Secrets : Flip(a, s)
  \/ \E k \in ConnIds : \/ Works(k) \/ TokenMissing(k) \/ SessionDrops(k) \/ PathDies(k) \/ Dies(k)

GateSpec == GateInit /\ [][GateNext]_gateVars
GateFairness ==
  /\ WF_gateVars(Reconciles)
  /\ \A k \in ConnIds : WF_gateVars(Works(k))

GateTypeOK ==
  /\ wants \subseteq Bots \X Secrets /\ table \in [Secrets -> 0..MaxConns]
  /\ \A k \in ConnIds : conns[k].st \in {"unused", "asking", "session", "ready", "waiting", "gone"}
  /\ dispatching.conn \in 0..MaxConns /\ dispatching.todo \subseteq Bots
  /\ Len(seenMsgs) <= SeenLimit

(* A message that reaches an automation over two connections fires it once,  *)
(* and again only when SeenLimit other pairs were looked up between          *)
(* (listeners.py:682-723).                                                    *)
MessageFiresOnce == \A p \in Pairs : firings[p] <= 1 + outOfReach[p]

(* Once stop() is through and no reconcile pass is left running, every       *)
(* connection thread has been told to stop: none was started behind stop()'s *)
(* back (listeners.py:566-640).                                               *)
NoneOutlivesStop ==
  (halted /\ recon = ConnIdle) => \A k \in ConnIds : ConnAlive(k) => conns[k].stop

(* A secret never has two connections that both mean to stay.                *)
OneConnectionEach ==
  \A i, j \in ConnIds : (/\ ConnAlive(i) /\ ConnAlive(j) /\ conns[i].secret = conns[j].secret
                     /\ ~conns[i].stop /\ ~conns[j].stop) => i = j

(* An enabled trigger is listened to again, whatever was lost - a dropped    *)
(* session, a dead path, a dead thread, a missing token - as long as the      *)
(* trigger stays enabled and the backend runs (listeners.py:603-640, 293-413). *)
Heard(s) == table[s] # 0 /\ Hears(table[s])
ListenedTo == \A s \in Secrets : (s \in Desired /\ ~managerStops) ~> (Heard(s) \/ s \notin Desired \/ managerStops)
================================================================================
