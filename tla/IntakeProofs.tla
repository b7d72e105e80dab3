------------------------------ MODULE IntakeProofs ------------------------------
(***************************************************************************)
(* What starts an execution, whatever the constants: the sweeps beside the   *)
(* scheduler's ticks, the listeners' connections and what they remember, the  *)
(* watcher of the Messages database, app launches, and trigger texts.        *)
(***************************************************************************)
EXTENDS MCIntake, FiniteSetTheorems, SequenceTheorems, TLAPS

-----------------------------------------------------------------------------
(***************************************************************************)
(* The hourly sweeps.  A notification is out exactly while the automation is  *)
(* in _overdue_notified, which only a streak of two sightings lets it into;   *)
(* and the time waited is what the clock shows since the last sweep, but for  *)
(* an hour dropped with every step back.                                        *)
(***************************************************************************)
StretchFits ==
  /\ streak \in [Autos -> 0..2] /\ told \subseteq Autos
  /\ posted \in [Autos -> Nat] /\ announced \in [Autos -> Nat]
  /\ \A a \in Autos :
        /\ posted[a] = IF a \in told THEN 1 ELSE 0
        /\ announced[a] = IF streak[a] = 2 THEN 1 ELSE 0
        /\ a \in told => streak[a] = 2

Hours(n) == (Hour + 1) * n

WaitFits ==
  /\ wall \in Int /\ lastOverdue \in Int /\ backs \in Nat /\ waited \in Nat
  /\ Hours(backs) \in Nat
  /\ wall - lastOverdue <= Hour + 1
  /\ waited <= Hours(backs) + (IF wall < lastOverdue THEN 0 ELSE wall - lastOverdue)

SweepInv == StretchFits /\ WaitFits

LEMMA OneHourMore == \A n \in Nat : Hours(n + 1) = Hours(n) + (Hour + 1) /\ Hours(n) \in Nat
  BY SweepsAssumption DEF SweepsAssumption, Hours

LEMMA SweepInvGives == SweepInv => ToldOnceAStretch /\ SweepNeverStalls
<1> SUFFICES ASSUME SweepInv PROVE ToldOnceAStretch /\ SweepNeverStalls OBVIOUS
<1>1. ToldOnceAStretch
    BY DEF SweepInv, StretchFits, ToldOnceAStretch
<1>2. Hours(backs + 1) = Hours(backs) + (Hour + 1) /\ Hours(backs) \in Nat
    BY OneHourMore DEF SweepInv, WaitFits
<1>3. waited <= Hours(backs + 1)
    BY <1>2, SweepsAssumption DEF SweepsAssumption, SweepInv, WaitFits
<1>4. Hours(backs + 1) = (Hour + 1) * (1 + backs)
    BY DEF Hours, SweepInv, WaitFits
<1> QED BY <1>1, <1>3, <1>4 DEF SweepNeverStalls

LEMMA SweepStarts == SweepInit => SweepInv
<1> SUFFICES ASSUME SweepInit PROVE SweepInv OBVIOUS
<1>1. StretchFits
    BY DEF SweepInit, StretchFits
<1>2. Hours(0) \in Nat
    BY OneHourMore
<1>3. WaitFits
    BY <1>2, SweepsAssumption DEF SweepsAssumption, SweepInit, WaitFits
<1> QED BY <1>1, <1>3 DEF SweepInv

LEMMA OverdueSweepKeeps == StretchFits /\ OverdueSweep => StretchFits'
<1> SUFFICES ASSUME StretchFits, OverdueSweep PROVE StretchFits' OBVIOUS
<1>1. /\ streak' = [a \in Autos |-> Sighted(a)]
      /\ told' = {a \in told : overdue[a]} \cup {a \in Autos : Telling(a)}
      /\ posted' = [a \in Autos |-> IF ~overdue[a] THEN 0
                                    ELSE posted[a] + (IF Telling(a) THEN 1 ELSE 0)]
      /\ announced' = [a \in Autos |-> IF ~overdue[a] THEN 0
                                       ELSE announced[a] + (IF Announcing(a) THEN 1 ELSE 0)]
    BY DEF OverdueSweep
<1>2. ASSUME NEW a \in Autos
      PROVE  /\ streak'[a] \in 0..2 /\ posted'[a] \in Nat /\ announced'[a] \in Nat
             /\ posted'[a] = IF a \in told' THEN 1 ELSE 0
             /\ announced'[a] = IF streak'[a] = 2 THEN 1 ELSE 0
             /\ a \in told' => streak'[a] = 2
  <2>1. /\ streak[a] \in 0..2 /\ posted[a] \in Nat /\ announced[a] \in Nat
        /\ posted[a] = IF a \in told THEN 1 ELSE 0
        /\ announced[a] = IF streak[a] = 2 THEN 1 ELSE 0
        /\ a \in told => streak[a] = 2
      BY DEF StretchFits
  <2>2. CASE ~overdue[a]
    <3>1. streak'[a] = 0 /\ posted'[a] = 0 /\ announced'[a] = 0
        BY <1>1, <2>2 DEF Sighted
    <3>2. a \notin told'
        BY <1>1, <2>2 DEF Telling, Sighted
    <3> QED BY <3>1, <3>2
  <2>3. CASE overdue[a]
    <3>1. streak'[a] = Sighted(a) /\ Sighted(a) = IF streak[a] = 2 THEN 2 ELSE streak[a] + 1
        BY <1>1, <2>3 DEF Sighted
    <3>2. /\ posted'[a] = posted[a] + (IF Telling(a) THEN 1 ELSE 0)
          /\ announced'[a] = announced[a] + (IF Announcing(a) THEN 1 ELSE 0)
          /\ a \in told' <=> a \in told \/ Telling(a)
        BY <1>1, <2>3 DEF StretchFits
    <3>3. /\ Telling(a) => a \notin told /\ Sighted(a) = 2
          /\ Announcing(a) <=> streak[a] = 1
        BY <2>1, <3>1 DEF Telling, Announcing
    <3>4. streak'[a] \in 0..2 /\ (streak'[a] = 2 <=> streak[a] \in {1, 2})
        BY <2>1, <3>1
    <3> QED BY <2>1, <3>1, <3>2, <3>3, <3>4
  <2> QED BY <2>2, <2>3
<1>3. told' \subseteq Autos
    BY <1>1 DEF StretchFits
<1>4. /\ streak' \in [Autos -> 0..2] /\ posted' \in [Autos -> Nat] /\ announced' \in [Autos -> Nat]
    BY <1>1, <1>2
<1> QED BY <1>2, <1>3, <1>4 DEF StretchFits

LEMMA HourlyTickKeeps == SweepInv /\ HourlyTick => SweepInv'
<1> SUFFICES ASSUME SweepInv, HourlyTick PROVE SweepInv' OBVIOUS
<1>1. wall' = wall + 1 /\ backs' = backs
    BY DEF HourlyTick
<1>2. Hours(backs') = Hours(backs)
    BY <1>1
<1>3. CASE Due(lastOverdue)
  <2>1. lastOverdue' = wall /\ waited' = 0 /\ OverdueSweep
      BY <1>3 DEF HourlyTick
  <2>2. StretchFits'
      BY <2>1, OverdueSweepKeeps DEF SweepInv
  <2>3. WaitFits'
      BY <1>1, <1>2, <2>1, SweepsAssumption DEF SweepsAssumption, SweepInv, WaitFits
  <2> QED BY <2>2, <2>3 DEF SweepInv
<1>4. CASE ~Due(lastOverdue)
  <2>1. waited' = waited + 1 /\ UNCHANGED <<lastOverdue, streak, told, posted, announced>>
      BY <1>4 DEF HourlyTick
  <2>2. StretchFits'
      BY <2>1 DEF SweepInv, StretchFits
  <2>3. 0 <= wall - lastOverdue /\ wall - lastOverdue <= Hour
      BY <1>4, SweepsAssumption DEF SweepsAssumption, Due, SweepInv, WaitFits
  <2>4. WaitFits'
      BY <1>1, <1>2, <2>1, <2>3, SweepsAssumption DEF SweepsAssumption, SweepInv, WaitFits
  <2> QED BY <2>2, <2>4 DEF SweepInv
<1> QED BY <1>3, <1>4

LEMMA StepsBackKeeps == \A k \in 1..(3 * Hour) : SweepInv /\ StepsBack(k) => SweepInv'
<1> SUFFICES ASSUME NEW k \in 1..(3 * Hour), SweepInv, StepsBack(k) PROVE SweepInv' OBVIOUS
<1>1. wall' = wall - k /\ backs' = backs + 1 /\ k \in Nat \ {0}
      /\ UNCHANGED <<lastOverdue, streak, told, posted, announced, waited>>
    BY SweepsAssumption DEF SweepsAssumption, StepsBack
<1>2. Hours(backs') = Hours(backs) + (Hour + 1) /\ Hours(backs') \in Nat
    BY <1>1, OneHourMore DEF SweepInv, WaitFits
<1>3. StretchFits'
    BY <1>1 DEF SweepInv, StretchFits
<1>4. WaitFits'
    BY <1>1, <1>2, SweepsAssumption DEF SweepsAssumption, SweepInv, WaitFits
<1> QED BY <1>3, <1>4 DEF SweepInv

LEMMA SweepKeeps == SweepInv /\ [SweepNext]_sweepVars => SweepInv'
<1> SUFFICES ASSUME SweepInv, [SweepNext]_sweepVars PROVE SweepInv' OBVIOUS
<1>1. CASE UNCHANGED <<wall, backs, lastOverdue, streak, told, posted, announced, waited>>
    BY <1>1 DEF SweepInv, StretchFits, WaitFits
<1>2. CASE RetentionEnds \/ (\E a \in Autos : Changes(a) \/ MuteChanges(a)) \/ UNCHANGED sweepVars
    BY <1>1, <1>2 DEF RetentionEnds, Changes, MuteChanges, sweepVars
<1> QED BY <1>2, HourlyTickKeeps, StepsBackKeeps DEF SweepNext

-----------------------------------------------------------------------------
(***************************************************************************)
(* The gateway's connections.  One that lives and has not been told to stop   *)
(* is in _conns under its secret, so there is one of each, and the snapshot    *)
(* that stop() takes of the table is all of them.                            *)
(***************************************************************************)
ConnStates == {"unused", "asking", "session", "ready", "waiting", "gone"}
ConnFields == {"secret", "st", "stop", "deaf", "awaiting", "inbox", "hits"}

ConnsFit ==
  /\ DOMAIN conns = ConnIds
  /\ \A k \in ConnIds :
        /\ DOMAIN conns[k] = ConnFields /\ conns[k] = [f \in ConnFields |-> conns[k][f]]
        /\ conns[k].st \in ConnStates
        /\ conns[k].st # "unused" => conns[k].secret \in Secrets

TableFits ==
  /\ table \in [Secrets -> 0..MaxConns]
  /\ \A s \in Secrets : table[s] # 0 =>
        conns[table[s]].st # "unused" /\ conns[table[s]].secret = s

Staying(k) == ConnAlive(k) /\ ~conns[k].stop
StayersListed == \A k \in ConnIds : Staying(k) => table[conns[k].secret] = k

StopFits ==
  /\ halted => managerStops
  /\ managerStops /\ ~halted => \A k \in ConnIds : Staying(k) => k \in inStop
  /\ halted => \A k \in ConnIds : ~Staying(k)

GateInv == ConnsFit /\ TableFits /\ StayersListed /\ StopFits

LEMMA GateInvGives == GateInv => NoneOutlivesStop /\ OneConnectionEach
  BY DEF GateInv, StayersListed, StopFits, Staying, NoneOutlivesStop, OneConnectionEach

LEMMA GateStarts == GateInit => GateInv
<1> SUFFICES ASSUME GateInit PROVE GateInv OBVIOUS
<1>1. /\ conns = [k \in ConnIds |-> Unused] /\ table = [s \in Secrets |-> 0]
      /\ managerStops = FALSE /\ halted = FALSE
    BY DEF GateInit
<1>2. ConnsFit
    BY <1>1 DEF ConnsFit, Unused, ConnFields, ConnStates
<1>3. TableFits
    BY <1>1, GatewayAssumption DEF GatewayAssumption, TableFits
<1>4. \A k \in ConnIds : ~Staying(k)
    BY <1>1 DEF Staying, ConnAlive, Unused
<1> QED BY <1>1, <1>2, <1>3, <1>4 DEF GateInv, StayersListed, StopFits

\* Most steps create no connection, stop none and leave the table alone.
Alike(k) ==
  /\ DOMAIN conns'[k] = ConnFields /\ conns'[k] = [f \in ConnFields |-> conns'[k][f]]
  /\ conns'[k].st \in ConnStates
  /\ conns'[k].st = "unused" <=> conns[k].st = "unused"
  /\ conns[k].st = "gone" => conns'[k].st = "gone"
  /\ conns'[k].secret = conns[k].secret /\ conns'[k].stop = conns[k].stop

LEMMA AlikeKeeps ==
  ASSUME GateInv, DOMAIN conns' = ConnIds, \A k \in ConnIds : Alike(k),
         UNCHANGED <<table, managerStops, halted, inStop>>
  PROVE  GateInv'
<1>1. ConnsFit'
    BY DEF GateInv, ConnsFit, ConnIds, Alike
<1>2. TableFits'
    BY GatewayAssumption DEF GatewayAssumption, GateInv, TableFits, ConnIds, Alike
<1>3. ASSUME NEW k \in ConnIds, Staying(k)' PROVE Staying(k)
    BY <1>3 DEF Staying, ConnAlive, Alike, GateInv, ConnsFit
<1>4. StayersListed'
    BY <1>3 DEF GateInv, StayersListed, ConnIds, Alike
<1>5. StopFits'
    BY <1>3, Zenon DEF GateInv, StopFits, ConnIds
<1> QED BY <1>1, <1>2, <1>4, <1>5 DEF GateInv

LEMMA SelfAlike == ASSUME GateInv, NEW k \in ConnIds, conns'[k] = conns[k] PROVE Alike(k)
  BY DEF GateInv, ConnsFit, Alike

\* A connection thread's own steps.
LEMMA ThreadKeeps ==
  ASSUME GateInv, NEW k \in ConnIds, NEW rec, conns' = [conns EXCEPT ![k] = rec],
         DOMAIN rec = ConnFields, rec = [f \in ConnFields |-> rec[f]],
         rec.st \in ConnStates \ {"unused"}, rec.secret = conns[k].secret, rec.stop = conns[k].stop,
         ConnAlive(k), UNCHANGED <<table, managerStops, halted, inStop>>
  PROVE  GateInv'
<1>1. DOMAIN conns' = ConnIds /\ conns'[k] = rec
    BY DEF GateInv, ConnsFit
<1>2. Alike(k)
    BY <1>1 DEF Alike, ConnAlive
<1>3. ASSUME NEW j \in ConnIds, j # k PROVE Alike(j)
    BY <1>1, <1>3, SelfAlike
<1> QED BY <1>1, <1>2, <1>3, AlikeKeeps

LEMMA WorksKeeps ==
  ASSUME GateInv, NEW k \in ConnIds,
         \/ TokenRead(k) \/ Ready(k) \/ Beat(k) \/ Retries(k) \/ ConnLeaves(k)
         \/ TokenMissing(k) \/ SessionDrops(k) \/ PathDies(k) \/ Dies(k)
  PROVE  GateInv'
<1>1. DOMAIN conns[k] = ConnFields /\ conns[k] = [f \in ConnFields |-> conns[k][f]]
      /\ conns[k].st \in ConnStates
    BY DEF GateInv, ConnsFit
<1>2. PICK rec :
        /\ Thread(k, rec) /\ ConnAlive(k)
        /\ \/ rec = [conns[k] EXCEPT !.st = "session"]
           \/ rec = [conns[k] EXCEPT !.st = "waiting"]
           \/ rec = [conns[k] EXCEPT !.st = "ready"]
           \/ rec = [conns[k] EXCEPT !.st = "asking"]
           \/ rec = [conns[k] EXCEPT !.st = "gone", !.inbox = <<>>]
           \/ rec = [conns[k] EXCEPT !.deaf = TRUE, !.inbox = <<>>]
           \/ rec = [conns[k] EXCEPT !.awaiting = conns[k].deaf]
           \/ rec = Closed(k)
  <2>1. CASE TokenRead(k)      BY <2>1 DEF TokenRead, ConnAlive
  <2>2. CASE Ready(k)          BY <2>2 DEF Ready, ConnAlive
  <2>3. CASE Beat(k)           BY <2>3 DEF Beat, ConnAlive
  <2>4. CASE Retries(k)        BY <2>4 DEF Retries, ConnAlive
  <2>5. CASE ConnLeaves(k)     BY <2>5 DEF ConnLeaves
  <2>6. CASE TokenMissing(k)   BY <2>6 DEF TokenMissing, ConnAlive
  <2>7. CASE SessionDrops(k)   BY <2>7 DEF SessionDrops, ConnAlive
  <2>8. CASE PathDies(k)       BY <2>8 DEF PathDies, ConnAlive
  <2>9. CASE Dies(k)           BY <2>9 DEF Dies
  <2> QED BY <2>1, <2>2, <2>3, <2>4, <2>5, <2>6, <2>7, <2>8, <2>9
<1>3. /\ DOMAIN rec = ConnFields /\ rec = [f \in ConnFields |-> rec[f]]
      /\ rec.st \in ConnStates \ {"unused"}
      /\ rec.secret = conns[k].secret /\ rec.stop = conns[k].stop
    BY <1>1, <1>2 DEF Closed, ConnFields, ConnStates, ConnAlive
<1>4. conns' = [conns EXCEPT ![k] = rec] /\ UNCHANGED <<table, managerStops, halted, inStop>>
    BY <1>2 DEF Thread
<1> QED BY <1>2, <1>3, <1>4, ThreadKeeps

\* Messages move between a connection's inbox and its hits.
LEMMA PostKeeps == GateInv /\ Post => GateInv'
<1> SUFFICES ASSUME GateInv, Post PROVE GateInv' OBVIOUS
<1>1. /\ DOMAIN conns' = ConnIds /\ UNCHANGED <<table, managerStops, halted, inStop>>
      /\ \A k \in ConnIds : conns'[k] = IF Hears(k)
            THEN [conns[k] EXCEPT !.inbox = Append(conns[k].inbox, msgs + 1)] ELSE conns[k]
    BY DEF Post
<1>2. ASSUME NEW k \in ConnIds PROVE Alike(k)
    BY <1>1 DEF GateInv, ConnsFit, ConnFields, Alike
<1> QED BY <1>1, <1>2, AlikeKeeps

LEMMA DispatchKeeps == \A k \in ConnIds : GateInv /\ Dispatch(k) => GateInv'
<1> SUFFICES ASSUME NEW k \in ConnIds, GateInv, Dispatch(k) PROVE GateInv' OBVIOUS
<1> DEFINE rec == [conns[k] EXCEPT !.inbox = Tail(conns[k].inbox)]
<1>1. /\ conns' = [conns EXCEPT ![k] = rec] /\ ConnAlive(k)
      /\ UNCHANGED <<table, managerStops, halted, inStop>>
    BY DEF Dispatch, ConnAlive, GateInv, ConnsFit
<1>2. /\ DOMAIN rec = ConnFields /\ rec = [f \in ConnFields |-> rec[f]]
      /\ rec.st \in ConnStates \ {"unused"}
      /\ rec.secret = conns[k].secret /\ rec.stop = conns[k].stop
    BY <1>1 DEF GateInv, ConnsFit, ConnFields, ConnStates, ConnAlive
<1> HIDE DEF rec
<1> QED BY <1>1, <1>2, ThreadKeeps

LEMMA LookUpKeeps == \A k \in ConnIds, a \in Bots : GateInv /\ LookUp(k, a) => GateInv'
<1> SUFFICES ASSUME NEW k \in ConnIds, NEW a \in Bots, GateInv, LookUp(k, a) PROVE GateInv' OBVIOUS
<1>1. UNCHANGED <<table, managerStops, halted, inStop>>
    BY DEF LookUp
<1>2. PICK hits : conns' = conns \/ conns' = [conns EXCEPT ![k].hits = hits]
    BY DEF LookUp
<1>3. DOMAIN conns' = ConnIds
    BY <1>2 DEF GateInv, ConnsFit
<1>4. ASSUME NEW j \in ConnIds PROVE Alike(j)
    BY <1>2 DEF GateInv, ConnsFit, ConnFields, Alike
<1> QED BY <1>1, <1>3, <1>4, AlikeKeeps

LEMMA FireKeeps ==
  \A k \in ConnIds, p \in Pairs : GateInv /\ Fire(k, p) => GateInv'
<1> SUFFICES ASSUME NEW k \in ConnIds, NEW p \in Pairs, GateInv, Fire(k, p)
             PROVE  GateInv'
    OBVIOUS
<1> DEFINE rec == [conns[k] EXCEPT !.hits = conns[k].hits \ {p}]
<1>1. conns' = [conns EXCEPT ![k] = rec] /\ UNCHANGED <<table, managerStops, halted, inStop>>
    BY DEF Fire, GateInv, ConnsFit
<1>2. DOMAIN conns' = ConnIds /\ conns'[k] = rec /\ \A j \in ConnIds : j # k => conns'[j] = conns[j]
    BY <1>1 DEF GateInv, ConnsFit
<1>3. Alike(k)
    BY <1>2 DEF GateInv, ConnsFit, ConnFields, Alike
<1>4. ASSUME NEW j \in ConnIds, j # k PROVE Alike(j)
    BY <1>2, <1>4, SelfAlike
<1> QED BY <1>1, <1>2, <1>3, <1>4, AlikeKeeps

\* The manager's steps.
LEMMA DropDeadKeeps == GateInv /\ DropDead => GateInv'
<1> SUFFICES ASSUME GateInv, DropDead PROVE GateInv' OBVIOUS
<1>1. /\ table' = [s \in Secrets |-> IF table[s] # 0 /\ ~ConnAlive(table[s]) THEN 0 ELSE table[s]]
      /\ UNCHANGED <<conns, managerStops, halted, inStop>>
    BY DEF DropDead
<1>2. ConnsFit' /\ \A k \in ConnIds : Staying(k)' <=> Staying(k)
    BY <1>1 DEF GateInv, ConnsFit, ConnIds, Staying, ConnAlive
<1>3. TableFits'
    BY <1>1, GatewayAssumption DEF GatewayAssumption, GateInv, TableFits
<1>4. StayersListed'
  <2> SUFFICES ASSUME NEW k \in ConnIds, Staying(k)' PROVE table'[conns'[k].secret] = k
      BY DEF StayersListed, ConnIds
  <2>1. ConnAlive(k) /\ conns[k].secret \in Secrets /\ table[conns[k].secret] = k
      BY <1>2 DEF GateInv, ConnsFit, StayersListed, Staying, ConnAlive
  <2> QED BY <1>1, <2>1
<1>5. StopFits'
    BY <1>1, <1>2, Zenon DEF GateInv, StopFits, ConnIds
<1> QED BY <1>2, <1>3, <1>4, <1>5 DEF GateInv

LEMMA CreateKeeps ==
  \A s \in Secrets, k \in ConnIds : GateInv /\ CreateConn(s, k) => GateInv'
<1> SUFFICES ASSUME NEW s \in Secrets, NEW k \in ConnIds, GateInv, CreateConn(s, k)
             PROVE  GateInv'
    OBVIOUS
<1> DEFINE rec == [Unused EXCEPT !.secret = s, !.st = "asking"]
<1>1. /\ table' = [table EXCEPT ![s] = k] /\ conns' = [conns EXCEPT ![k] = rec]
      /\ table[s] = 0 /\ conns[k].st = "unused"
      /\ UNCHANGED <<managerStops, halted, inStop>>
    BY DEF CreateConn, CreateOpen, Missing
<1>2. ~managerStops
    BY DEF CreateConn
<1>3. /\ DOMAIN rec = ConnFields /\ rec = [f \in ConnFields |-> rec[f]]
      /\ rec.st = "asking" /\ rec.secret = s
    BY DEF Unused, ConnFields
<1> HIDE DEF rec
<1>4. /\ DOMAIN conns' = ConnIds /\ conns'[k] = rec
      /\ \A j \in ConnIds : j # k => conns'[j] = conns[j]
      /\ k \in Nat \ {0} /\ k \in 0..MaxConns
    BY <1>1, GatewayAssumption DEF GatewayAssumption, GateInv, ConnsFit, ConnIds
<1>5. /\ table' \in [Secrets -> 0..MaxConns] /\ table'[s] = k
      /\ \A t \in Secrets : t # s => table'[t] = table[t]
    BY <1>1, <1>4 DEF GateInv, TableFits
<1>6. ConnsFit'
    BY <1>3, <1>4 DEF GateInv, ConnsFit, ConnIds, ConnStates
<1>7. TableFits'
  <2> SUFFICES ASSUME NEW t \in Secrets, table'[t] # 0
               PROVE  conns'[table'[t]].st # "unused" /\ conns'[table'[t]].secret = t
      BY <1>5 DEF TableFits
  <2>1. CASE t = s
      BY <1>3, <1>4, <1>5, <2>1
  <2>2. CASE t # s
    <3>1. table'[t] = table[t] /\ table[t] \in ConnIds /\ conns[table[t]].st # "unused"
          /\ conns[table[t]].secret = t
        BY <1>5, <2>2, GatewayAssumption DEF GatewayAssumption, GateInv, TableFits, ConnIds
    <3> QED BY <1>1, <1>4, <3>1
  <2> QED BY <2>1, <2>2
<1>8. StayersListed'
  <2> SUFFICES ASSUME NEW j \in ConnIds, Staying(j)' PROVE table'[conns'[j].secret] = j
      BY DEF StayersListed, ConnIds
  <2>1. CASE j = k
      BY <1>3, <1>4, <1>5, <2>1
  <2>2. CASE j # k
    <3>1. conns'[j] = conns[j]
        BY <1>4, <2>2
    <3>2. Staying(j)
        BY <3>1 DEF Staying, ConnAlive
    <3>3. conns[j].secret \in Secrets /\ table[conns[j].secret] = j /\ j # 0
        BY <3>2, GatewayAssumption
        DEF GatewayAssumption, GateInv, ConnsFit, StayersListed, Staying, ConnAlive, ConnIds
    <3>4. conns[j].secret # s
        BY <1>1, <3>3
    <3> QED BY <1>5, <3>1, <3>3, <3>4
  <2> QED BY <2>1, <2>2
<1>9. StopFits'
  <2>1. ~managerStops' /\ ~halted'
      BY <1>1, <1>2 DEF GateInv, StopFits
  <2> QED BY <2>1 DEF StopFits
<1> QED BY <1>6, <1>7, <1>8, <1>9 DEF GateInv

LEMMA DropOneKeeps == \A s \in Secrets : GateInv /\ DropOne(s) => GateInv'
<1> SUFFICES ASSUME NEW s \in Secrets, GateInv, DropOne(s) PROVE GateInv' OBVIOUS
<1> DEFINE k == table[s]
<1>1. k \in ConnIds /\ k # 0
    BY GatewayAssumption DEF GatewayAssumption, DropOne, GateInv, TableFits, ConnIds
<1>2. /\ table' = [table EXCEPT ![s] = 0] /\ conns' = [conns EXCEPT ![k].stop = TRUE]
      /\ UNCHANGED <<managerStops, halted, inStop>>
    BY DEF DropOne
<1> HIDE DEF k
<1>3. /\ DOMAIN conns' = ConnIds /\ conns'[k] = [conns[k] EXCEPT !.stop = TRUE]
      /\ \A j \in ConnIds : j # k => conns'[j] = conns[j]
    BY <1>1, <1>2 DEF GateInv, ConnsFit
<1>4. /\ DOMAIN conns'[k] = ConnFields /\ conns'[k] = [f \in ConnFields |-> conns'[k][f]]
      /\ conns'[k].st = conns[k].st /\ conns'[k].secret = conns[k].secret /\ conns'[k].stop = TRUE
    BY <1>1, <1>3 DEF GateInv, ConnsFit, ConnFields
<1>5. ConnsFit'
  <2> SUFFICES ASSUME NEW j \in ConnIds
               PROVE  /\ DOMAIN conns'[j] = ConnFields /\ conns'[j] = [f \in ConnFields |-> conns'[j][f]]
                      /\ conns'[j].st \in ConnStates
                      /\ conns'[j].st # "unused" => conns'[j].secret \in Secrets
      BY <1>3 DEF ConnsFit, ConnIds
  <2>1. CASE j = k
      BY <1>4, <2>1 DEF GateInv, ConnsFit
  <2>2. CASE j # k
      BY <1>3, <2>2 DEF GateInv, ConnsFit
  <2> QED BY <2>1, <2>2
<1>6. TableFits'
    BY <1>2, <1>3, <1>4, GatewayAssumption
    DEF GatewayAssumption, GateInv, TableFits, ConnIds
<1>7. ASSUME NEW j \in ConnIds, Staying(j)' PROVE Staying(j) /\ j # k /\ conns'[j] = conns[j]
    BY <1>3, <1>4, <1>7 DEF Staying, ConnAlive
<1>8. StayersListed'
  <2> SUFFICES ASSUME NEW j \in ConnIds, Staying(j)' PROVE table'[conns'[j].secret] = j
      BY DEF StayersListed, ConnIds
  <2>1. Staying(j) /\ j # k /\ conns'[j] = conns[j]
      BY <1>7
  <2>2. conns[j].secret \in Secrets /\ table[conns[j].secret] = j
      BY <2>1 DEF GateInv, ConnsFit, StayersListed, Staying, ConnAlive
  <2>3. conns[j].secret # s
      BY <2>1, <2>2 DEF k
  <2> QED BY <1>2, <2>1, <2>2, <2>3 DEF GateInv, TableFits
<1>9. StopFits'
    BY <1>2, <1>7, Zenon DEF GateInv, StopFits, ConnIds
<1> QED BY <1>5, <1>6, <1>8, <1>9 DEF GateInv

LEMMA StopBeginsKeeps == GateInv /\ StopBegins => GateInv'
<1> SUFFICES ASSUME GateInv, StopBegins PROVE GateInv' OBVIOUS
<1>1. /\ inStop' = {table[s] : s \in {s \in Secrets : table[s] # 0}}
      /\ ~managerStops /\ UNCHANGED <<conns, table, halted>>
    BY DEF StopBegins
<1>2. managerStops' = TRUE
    BY DEF StopBegins
<1>3. ConnsFit' /\ TableFits' /\ StayersListed'
    BY <1>1 DEF GateInv, ConnsFit, TableFits, StayersListed, ConnIds, Staying, ConnAlive
<1>4. \A k \in ConnIds : Staying(k)' => k \in inStop'
  <2> SUFFICES ASSUME NEW k \in ConnIds, Staying(k)' PROVE k \in inStop' OBVIOUS
  <2>1. conns[k].secret \in Secrets /\ table[conns[k].secret] = k /\ k # 0
      BY <1>1, GatewayAssumption
      DEF GatewayAssumption, GateInv, ConnsFit, StayersListed, Staying, ConnAlive, ConnIds
  <2> QED BY <1>1, <2>1
<1>5. ~halted'
    BY <1>1 DEF GateInv, StopFits
<1>6. StopFits'
    BY <1>2, <1>4, <1>5 DEF StopFits, ConnIds
<1> QED BY <1>3, <1>6 DEF GateInv

LEMMA StopEndsKeeps == GateInv /\ StopEnds => GateInv'
<1> SUFFICES ASSUME GateInv, StopEnds PROVE GateInv' OBVIOUS
<1>1. /\ DOMAIN conns' = ConnIds /\ UNCHANGED <<table, managerStops>>
      /\ \A k \in ConnIds : conns'[k] = IF k \in inStop THEN [conns[k] EXCEPT !.stop = TRUE]
                                       ELSE conns[k]
    BY DEF StopEnds
<1>2. managerStops /\ ~halted
    BY DEF StopEnds
<1>3. halted' = TRUE
    BY DEF StopEnds
<1>4. ASSUME NEW k \in ConnIds
      PROVE  /\ DOMAIN conns'[k] = ConnFields /\ conns'[k] = [f \in ConnFields |-> conns'[k][f]]
             /\ conns'[k].st = conns[k].st /\ conns'[k].secret = conns[k].secret
             /\ k \in inStop => conns'[k].stop = TRUE
             /\ k \notin inStop => conns'[k] = conns[k]
    BY <1>1 DEF GateInv, ConnsFit, ConnFields
<1>5. ConnsFit'
    BY <1>1, <1>4 DEF GateInv, ConnsFit, ConnIds
<1>6. TableFits'
  <2> SUFFICES ASSUME NEW s \in Secrets, table[s] # 0
               PROVE  conns'[table[s]].st # "unused" /\ conns'[table[s]].secret = s
      BY <1>1 DEF GateInv, TableFits
  <2>1. /\ table[s] \in ConnIds /\ conns[table[s]].st # "unused"
        /\ conns[table[s]].secret = s
      BY GatewayAssumption DEF GatewayAssumption, GateInv, TableFits, ConnIds
  <2> QED BY <1>4, <2>1
<1>7. ASSUME NEW k \in ConnIds PROVE ~Staying(k)'
  <2>1. CASE k \in inStop
      BY <1>4, <2>1 DEF Staying
  <2>2. CASE k \notin inStop
    <3>1. ~Staying(k)
        BY <1>2, <2>2 DEF GateInv, StopFits
    <3> QED BY <1>4, <2>2, <3>1 DEF Staying, ConnAlive
  <2> QED BY <2>1, <2>2
<1>8. StayersListed' /\ StopFits'
    BY <1>1, <1>2, <1>3, <1>7 DEF StayersListed, StopFits, ConnIds
<1> QED BY <1>5, <1>6, <1>8 DEF GateInv

LEMMA GateKeeps == GateInv /\ [GateNext]_gateVars => GateInv'
<1> SUFFICES ASSUME GateInv, [GateNext]_gateVars PROVE GateInv' OBVIOUS
<1>1. CASE UNCHANGED <<conns, table, managerStops, halted, inStop>>
  <2>1. \A k \in ConnIds : Alike(k)
      BY <1>1, SelfAlike
  <2> QED BY <1>1, <2>1, AlikeKeeps DEF GateInv, ConnsFit
<1>2. CASE \/ ReconcileStarts \/ CreateRefused \/ Created \/ ReconcileEnds
           \/ (\E a \in Bots, s \in Secrets : Flip(a, s)) \/ UNCHANGED gateVars
    BY <1>1, <1>2
    DEF ReconcileStarts, CreateRefused, Created, ReconcileEnds, Flip, gateVars
<1> QED BY <1>2, PostKeeps, StopBeginsKeeps, StopEndsKeeps, DropDeadKeeps, CreateKeeps,
           DropOneKeeps, WorksKeeps, DispatchKeeps, LookUpKeeps, FireKeeps
    DEF GateNext, Reconciles, Works

-----------------------------------------------------------------------------
(***************************************************************************)
(* The memory of what fired.  It holds the pairs looked up last, in the order   *)
(* of their lookups; a pair that is not in it was pushed out by as many others   *)
(* as it has room for.  Each pair let through is held by the dispatch that will   *)
(* fire it, once.                                                            *)
(***************************************************************************)
RecallTypes ==
  /\ wants \subseteq Bots \X Secrets /\ msgs \in 0..MaxMsgs
  /\ \A k \in ConnIds : conns[k].inbox \in Seq(1..MaxMsgs) /\ conns[k].hits \subseteq Pairs
  /\ dispatching \in [conn : 0..MaxConns, msg : 0..MaxMsgs, todo : SUBSET Bots]
  /\ dispatching.conn # 0 => dispatching.msg # 0
  /\ seenMsgs \in Seq(Pairs) /\ lookups \in Nat
  /\ looked \in [Pairs -> Nat] /\ outOfReach \in [Pairs -> Nat] /\ firings \in [Pairs -> Nat]

RecallFits ==
  /\ Len(seenMsgs) <= SeenLimit
  /\ \A p \in Pairs : looked[p] <= lookups
  /\ \A i \in DOMAIN seenMsgs : looked[seenMsgs[i]] > 0
  /\ \A i, j \in DOMAIN seenMsgs : i < j => looked[seenMsgs[i]] < looked[seenMsgs[j]]
  /\ \A p \in Pairs : looked[p] > 0 /\ ~Remembered(p) =>
        Len(seenMsgs) = SeenLimit /\ \A i \in DOMAIN seenMsgs : looked[p] < looked[seenMsgs[i]]

Holding(p) == {k \in ConnIds : p \in conns[k].hits}
LetThrough(p) == firings[p] + Cardinality(Holding(p))
FiringsFit == \A p \in Pairs : LetThrough(p) <= IF looked[p] = 0 THEN 0 ELSE 1 + outOfReach[p]

RecallInv == RecallTypes /\ RecallFits /\ FiringsFit

LEMMA HoldingFinite == \A p : IsFiniteSet(Holding(p)) /\ Cardinality(Holding(p)) \in Nat
<1> SUFFICES ASSUME NEW p PROVE IsFiniteSet(Holding(p))
    BY FS_CardinalityType
<1>1. IsFiniteSet(ConnIds)
    BY GatewayAssumption, FS_Interval DEF GatewayAssumption, ConnIds
<1>2. Holding(p) \subseteq ConnIds
    BY DEF Holding
<1> QED BY <1>1, <1>2, FS_Subset

LEMMA RecallGives == RecallInv => MessageFiresOnce
<1> SUFFICES ASSUME RecallInv, NEW p \in Pairs PROVE firings[p] <= 1 + outOfReach[p]
    BY DEF MessageFiresOnce
<1>1. firings[p] \in Nat /\ outOfReach[p] \in Nat /\ looked[p] \in Nat
    BY DEF RecallInv, RecallTypes
<1>2. LetThrough(p) <= IF looked[p] = 0 THEN 0 ELSE 1 + outOfReach[p]
    BY DEF RecallInv, FiringsFit
<1> QED BY <1>1, <1>2, HoldingFinite DEF LetThrough

LEMMA RecallStarts == GateInit => RecallInv
<1> SUFFICES ASSUME GateInit PROVE RecallInv OBVIOUS
<1>1. /\ wants \subseteq Bots \X Secrets /\ conns = [k \in ConnIds |-> Unused]
      /\ dispatching = NoDispatch /\ seenMsgs = <<>> /\ msgs = 0 /\ lookups = 0
      /\ firings = [p \in Pairs |-> 0] /\ looked = [p \in Pairs |-> 0]
      /\ outOfReach = [p \in Pairs |-> 0]
    BY DEF GateInit
<1>2. NoDispatch \in [conn : 0..MaxConns, msg : 0..MaxMsgs, todo : SUBSET Bots]
    BY GatewayAssumption DEF GatewayAssumption, NoDispatch
<1>3. RecallTypes
  <2>1. \A k \in ConnIds : conns[k].inbox \in Seq(1..MaxMsgs) /\ conns[k].hits \subseteq Pairs
    <3>1. Unused.inbox = <<>> /\ Unused.hits = {}
        BY DEF Unused
    <3>2. <<>> \in Seq(1..MaxMsgs)
        OBVIOUS
    <3> QED BY <1>1, <3>1, <3>2
  <2>2. dispatching.conn = 0 /\ 0 \in 0..MaxMsgs
      BY <1>1, GatewayAssumption DEF GatewayAssumption, NoDispatch
  <2>3. seenMsgs \in Seq(Pairs)
      BY <1>1
  <2> QED BY <1>1, <1>2, <2>1, <2>2, <2>3 DEF RecallTypes
<1>4. RecallFits
    BY <1>1, GatewayAssumption DEF GatewayAssumption, RecallFits
<1>5. \A p \in Pairs : Holding(p) = {}
    BY <1>1 DEF Holding, Unused
<1>6. FiringsFit
  <2> SUFFICES ASSUME NEW p \in Pairs PROVE LetThrough(p) <= IF looked[p] = 0 THEN 0 ELSE 1 + outOfReach[p]
      BY DEF FiringsFit
  <2>1. firings[p] = 0 /\ looked[p] = 0
      BY <1>1
  <2>2. Cardinality(Holding(p)) = 0
      BY <1>5, FS_EmptySet
  <2> QED BY <2>1, <2>2 DEF LetThrough
<1> QED BY <1>3, <1>4, <1>6 DEF RecallInv

\* Most steps look nothing up and take hits from nobody but the one that fires.
LEMMA RecallStays ==
  ASSUME RecallInv, UNCHANGED <<seenMsgs, lookups, looked, outOfReach, firings>>,
         dispatching' = dispatching \/ RecallTypes',
         wants' \subseteq Bots \X Secrets, msgs' \in 0..MaxMsgs,
         \A k \in ConnIds : conns'[k].hits \subseteq conns[k].hits /\ conns'[k].inbox \in Seq(1..MaxMsgs)
  PROVE  RecallInv'
<1>1. RecallTypes'
  <2> SUFFICES ASSUME dispatching' = dispatching PROVE RecallTypes'
      OBVIOUS
  <2>1. \A k \in ConnIds : conns'[k].hits \subseteq Pairs
      BY DEF RecallInv, RecallTypes
  <2> QED BY <2>1 DEF RecallInv, RecallTypes, ConnIds, Pairs
<1>2. RecallFits'
    BY DEF RecallInv, RecallFits, Remembered, Contains, Pairs
<1>3. FiringsFit'
  <2> SUFFICES ASSUME NEW p \in Pairs
               PROVE  LetThrough(p)' <= IF looked[p] = 0 THEN 0 ELSE 1 + outOfReach[p]
      BY DEF FiringsFit, Pairs
  <2>1. Holding(p)' \subseteq Holding(p)
      BY DEF Holding, ConnIds
  <2>2. Cardinality(Holding(p)') <= Cardinality(Holding(p)) /\ Cardinality(Holding(p)') \in Nat
      BY <2>1, HoldingFinite, FS_Subset, FS_CardinalityType
  <2>3. LetThrough(p)' = firings[p] + Cardinality(Holding(p)')
      BY DEF LetThrough
  <2>4. /\ LetThrough(p) <= IF looked[p] = 0 THEN 0 ELSE 1 + outOfReach[p]
        /\ firings[p] \in Nat /\ outOfReach[p] \in Nat
      BY DEF RecallInv, RecallTypes, FiringsFit
  <2> QED BY <2>2, <2>3, <2>4, HoldingFinite DEF LetThrough
<1> QED BY <1>1, <1>2, <1>3 DEF RecallInv

\* What a lookup makes of the memory: of the old pairs one is dropped or none, and
\* the one looked up comes last.
Longer(s, n) == Len(n) = Len(s) + 1 /\ \A j \in 1..Len(s) : n[j] = s[j]
Dropped(s, n, d) ==
  Len(n) = Len(s) /\ \A j \in 1..Len(s) - 1 : n[j] = IF j < d THEN s[j] ELSE s[j + 1]

LEMMA DropsOne ==
  ASSUME NEW S, NEW s \in Seq(S), NEW d \in DOMAIN s, NEW e \in S,
         NEW n, n = Append(RemoveAt(s, d), e)
  PROVE  n \in Seq(S) /\ n[Len(s)] = e /\ Dropped(s, n, d)
<1>1. d \in 1..Len(s) /\ Len(s) \in Nat
    OBVIOUS
<1> DEFINE a == SubSeq(s, 1, d - 1)  b == SubSeq(s, d + 1, Len(s))  r == RemoveAt(s, d)
<1>2. a \in Seq(S) /\ Len(a) = d - 1 /\ \A j \in 1..d - 1 : a[j] = s[j]
    BY <1>1
<1>3. b \in Seq(S) /\ Len(b) = Len(s) - d /\ \A j \in 1..Len(s) - d : b[j] = s[d + j]
    BY <1>1
<1>4. r = a \o b
    BY DEF RemoveAt
<1> HIDE DEF a, b, r
<1>5. r \in Seq(S) /\ Len(r) = Len(s) - 1
    BY <1>1, <1>2, <1>3, <1>4
<1>6. \A j \in 1..Len(s) - 1 : r[j] = IF j < d THEN s[j] ELSE s[j + 1]
  <2> SUFFICES ASSUME NEW j \in 1..Len(s) - 1 PROVE r[j] = IF j < d THEN s[j] ELSE s[j + 1]
      OBVIOUS
  <2>1. CASE j < d
      BY <1>1, <1>2, <1>3, <1>4, <2>1
  <2>2. CASE ~(j < d)
    <3>1. j - (d - 1) \in 1..Len(s) - d /\ d + (j - (d - 1)) = j + 1
        BY <1>1, <2>2
    <3>0. Len(a) = d - 1 /\ Len(b) = Len(s) - d /\ j \in 1..Len(a) + Len(b) /\ ~(j <= Len(a))
        BY <1>1, <1>2, <1>3, <2>2
    <3>2. (a \o b)[j] = b[j - Len(a)]
        BY <1>2, <1>3, <3>0, ConcatProperties
    <3>3. r[j] = b[j - (d - 1)]
        BY <1>4, <3>0, <3>2
    <3> QED BY <1>3, <2>2, <3>1, <3>3
  <2> QED BY <2>1, <2>2
<1>7. n = Append(r, e)
    BY DEF r
<1>8. /\ n \in Seq(S) /\ Len(n) = Len(s) /\ n[Len(s)] = e
      /\ \A j \in 1..Len(s) - 1 : n[j] = r[j]
    BY <1>1, <1>5, <1>7
<1> QED BY <1>6, <1>8 DEF Dropped

LEMMA RecallDrops ==
  ASSUME RecallInv, NEW p \in Pairs, NEW n, n = Recall(p)
  PROVE  /\ n \in Seq(Pairs) /\ Len(n) \in Nat /\ Len(n) > 0 /\ n[Len(n)] = p
         /\ \/ ~Remembered(p) /\ Len(seenMsgs) < SeenLimit /\ Longer(seenMsgs, n)
            \/ \E d \in DOMAIN seenMsgs :
                 /\ \/ seenMsgs[d] = p
                    \/ d = 1 /\ Len(seenMsgs) = SeenLimit /\ ~Remembered(p)
                 /\ Dropped(seenMsgs, n, d)
<1> DEFINE s == seenMsgs
<1>1. s \in Seq(Pairs) /\ Len(s) \in Nat /\ DOMAIN s = 1..Len(s) /\ Len(s) <= SeenLimit
  <2> HIDE DEF Pairs
  <2> QED BY DEF RecallInv, RecallTypes, RecallFits
<1>2. SeenLimit \in Nat \ {0}
    BY GatewayAssumption DEF GatewayAssumption
<1>0. /\ Remembered(p) => \E i \in DOMAIN s : s[i] = p
      /\ Place(p) = CHOOSE i \in DOMAIN s : s[i] = p
      /\ n = IF Remembered(p) THEN Append(RemoveAt(s, Place(p)), p)
             ELSE IF Len(Append(s, p)) > SeenLimit THEN Tail(Append(s, p)) ELSE Append(s, p)
    BY <1>1 DEF Remembered, Contains, Place, Recall
<1> HIDE DEF Pairs, s
<1>3. CASE Remembered(p)
  <2>1. PICK d \in DOMAIN s : d = Place(p) /\ s[d] = p
      BY <1>0, <1>3
  <2>2. n = Append(RemoveAt(s, d), p)
      BY <1>0, <1>3, <2>1
  <2>3. n \in Seq(Pairs) /\ n[Len(s)] = p /\ Dropped(s, n, d)
    <3>1. s \in Seq(Pairs) /\ d \in DOMAIN s /\ p \in Pairs
        BY <1>1, <2>1
    <3> QED BY <2>2, <3>1, DropsOne
  <2>4. Len(n) = Len(s)
      BY <2>3 DEF Dropped
  <2>5. Len(s) > 0
      BY <1>1, <2>1
  <2> QED BY <1>1, <2>1, <2>3, <2>4, <2>5 DEF s
<1>4. CASE ~Remembered(p)
  <2> DEFINE kept == Append(s, p)
  <2>1. /\ kept \in Seq(Pairs) /\ Len(kept) = Len(s) + 1 /\ kept[Len(s) + 1] = p
        /\ \A j \in 1..Len(s) : kept[j] = s[j]
      BY <1>1
  <2>2. n = IF Len(kept) > SeenLimit THEN Tail(kept) ELSE kept
      BY <1>0, <1>4
  <2> HIDE DEF kept
  <2>3. CASE Len(s) < SeenLimit
    <3>1. n = kept
        BY <1>1, <1>2, <2>1, <2>2, <2>3
    <3>2. n \in Seq(Pairs) /\ Len(n) = Len(s) + 1 /\ n[Len(n)] = p /\ Longer(s, n)
        BY <2>1, <3>1 DEF Longer
    <3>3. Len(n) \in Nat /\ Len(n) > 0
        BY <1>1, <3>2
    <3> QED BY <1>4, <2>3, <3>2, <3>3 DEF s
  <2>4. CASE Len(s) = SeenLimit
    <3>1. n = Tail(kept)
        BY <1>1, <1>2, <2>1, <2>2, <2>4
    <3>2. n \in Seq(Pairs) /\ Len(n) = Len(s) /\ \A j \in 1..Len(s) : n[j] = kept[j + 1]
        BY <1>1, <2>1, <3>1
    <3>3. \A j \in 1..Len(s) - 1 : n[j] = s[j + 1]
        BY <1>1, <2>1, <3>2
    <3>4. n[Len(n)] = p /\ Len(n) \in Nat /\ Len(n) > 0 /\ 1 \in DOMAIN s
        BY <1>1, <1>2, <2>1, <2>4, <3>2
    <3>5. Dropped(s, n, 1)
        BY <1>1, <3>2, <3>3 DEF Dropped
    <3> QED BY <1>4, <2>4, <3>2, <3>4, <3>5 DEF s
  <2>5. Len(s) < SeenLimit \/ Len(s) = SeenLimit
    <3>1. Len(s) \in Nat /\ Len(s) <= SeenLimit
        BY <1>1
    <3> QED BY <1>2, <3>1
  <2> QED BY <2>3, <2>4, <2>5
<1> QED BY <1>3, <1>4

\* A lookup keeps the memory the pairs looked up last, in order.
LEMMA RecallKeeps ==
  ASSUME RecallInv, NEW p \in Pairs, seenMsgs' = Recall(p), lookups' = lookups + 1,
         looked' = [looked EXCEPT ![p] = lookups + 1]
  PROVE  RecallFits'
<1> DEFINE s == seenMsgs  n == Recall(p)  l == looked'
<1>1. /\ s \in Seq(Pairs) /\ Len(s) \in Nat /\ DOMAIN s = 1..Len(s) /\ Len(s) <= SeenLimit
      /\ looked \in [Pairs -> Nat] /\ lookups \in Nat
      /\ \A i \in DOMAIN s : s[i] \in Pairs
  <2> HIDE DEF Pairs
  <2> QED BY DEF RecallInv, RecallTypes, RecallFits
<1>2. SeenLimit \in Nat \ {0}
    BY GatewayAssumption DEF GatewayAssumption
<1>3. /\ \A q \in Pairs : looked[q] <= lookups
      /\ \A i \in DOMAIN s : looked[s[i]] > 0
      /\ \A i, j \in DOMAIN s : i < j => looked[s[i]] < looked[s[j]]
      /\ \A q \in Pairs : looked[q] > 0 /\ ~Remembered(q) =>
            Len(s) = SeenLimit /\ \A i \in DOMAIN s : looked[q] < looked[s[i]]
    BY DEF RecallInv, RecallFits
<1>4a. n = Recall(p) /\ seenMsgs' = n
    OBVIOUS
<1>6. \A q : Remembered(q) <=> \E i \in DOMAIN s : s[i] = q
    BY <1>1 DEF Remembered, Contains
<1>5. /\ l \in [Pairs -> Nat] /\ l[p] = lookups + 1
      /\ \A q \in Pairs : q # p => l[q] = looked[q]
    BY <1>1
<1> HIDE DEF n, Pairs, l
<1>4b. /\ n \in Seq(Pairs) /\ Len(n) \in Nat /\ Len(n) > 0 /\ n[Len(n)] = p
       /\ \/ ~Remembered(p) /\ Len(s) < SeenLimit /\ Longer(s, n)
          \/ \E d \in DOMAIN s :
               /\ s[d] = p \/ (d = 1 /\ Len(s) = SeenLimit /\ ~Remembered(p))
               /\ Dropped(s, n, d)
    BY <1>4a, RecallDrops
<1> HIDE DEF s
<1>4. n \in Seq(Pairs) /\ Len(n) \in Nat /\ Len(n) > 0 /\ n[Len(n)] = p
    BY <1>4b
<1>4c. \/ ~Remembered(p) /\ Len(s) < SeenLimit /\ Len(n) = Len(s) + 1
       \/ Len(s) <= SeenLimit /\ Len(n) = Len(s)
    BY <1>1, <1>4b DEF Longer, Dropped
<1>8. DOMAIN n = 1..Len(n) /\ (\A j \in DOMAIN n : n[j] \in Pairs)
      /\ \A j \in DOMAIN n : j = Len(n) \/ j \in 1..Len(n) - 1
  <2>1. DOMAIN n = 1..Len(n) /\ \A j \in DOMAIN n : n[j] \in Pairs
      BY <1>4
  <2> QED BY <1>4, <2>1
\* Where each of them was before: nothing changes places.
<1>9. \E at \in [1..Len(n) - 1 -> DOMAIN s] :
        /\ \A j \in 1..Len(n) - 1 : n[j] = s[at[j]] /\ s[at[j]] # p
        /\ \A i, j \in 1..Len(n) - 1 : i < j => at[i] < at[j]
  <2>1. CASE ~Remembered(p) /\ Len(s) < SeenLimit /\ Longer(s, n)
    <3> DEFINE at == [j \in 1..Len(n) - 1 |-> j]
    <3>0. Len(n) = Len(s) + 1 /\ \A j \in 1..Len(s) : n[j] = s[j]
        BY <2>1 DEF Longer
    <3>1. at \in [1..Len(n) - 1 -> DOMAIN s]
        BY <1>1, <3>0
    <3>2. \A j \in 1..Len(n) - 1 : n[j] = s[at[j]] /\ s[at[j]] # p
        BY <1>1, <1>6, <2>1, <3>0
    <3>3. \A i, j \in 1..Len(n) - 1 : i < j => at[i] < at[j]
        OBVIOUS
    <3> QED BY <3>1, <3>2, <3>3
  <2>2. ASSUME NEW d \in DOMAIN s, s[d] = p \/ ~Remembered(p), Dropped(s, n, d)
        PROVE  \E at \in [1..Len(n) - 1 -> DOMAIN s] :
                 /\ \A j \in 1..Len(n) - 1 : n[j] = s[at[j]] /\ s[at[j]] # p
                 /\ \A i, j \in 1..Len(n) - 1 : i < j => at[i] < at[j]
    <3> DEFINE at == [j \in 1..Len(n) - 1 |-> IF j < d THEN j ELSE j + 1]
    <3>0. Len(n) = Len(s) /\ \A j \in 1..Len(s) - 1 : n[j] = IF j < d THEN s[j] ELSE s[j + 1]
        BY <2>2 DEF Dropped
    <3>1. at \in [1..Len(n) - 1 -> DOMAIN s]
        BY <1>1, <3>0
    <3>2. ASSUME NEW j \in 1..Len(n) - 1 PROVE n[j] = s[at[j]] /\ s[at[j]] # p
      <4>0. at[j] \in DOMAIN s /\ at[j] = IF j < d THEN j ELSE j + 1
          BY <3>1
      <4> HIDE DEF at
      <4>1. n[j] = s[at[j]] /\ at[j] \in DOMAIN s /\ at[j] # d
          BY <1>1, <3>0, <4>0
      <4>2. CASE s[d] = p
        <5>1. at[j] < d \/ d < at[j]
            BY <1>1, <4>1
        <5>2. looked[s[at[j]]] < looked[s[d]] \/ looked[s[d]] < looked[s[at[j]]]
            BY <1>3, <4>1, <5>1
        <5>3. looked[s[d]] \in Nat /\ looked[s[at[j]]] \in Nat
            BY <1>1, <4>1
        <5> QED BY <4>1, <4>2, <5>2, <5>3
      <4>3. CASE ~Remembered(p)
          BY <1>6, <4>1, <4>3
      <4> QED BY <2>2, <4>1, <4>2, <4>3
    <3>3. \A i, j \in 1..Len(n) - 1 : i < j => at[i] < at[j]
        BY <1>1, <3>0
    <3> QED BY <3>1, <3>2, <3>3
  <2> QED BY <1>4b, <2>1, <2>2
<1>10. PICK at \in [1..Len(n) - 1 -> DOMAIN s] :
        /\ \A j \in 1..Len(n) - 1 : n[j] = s[at[j]] /\ s[at[j]] # p
        /\ \A i, j \in 1..Len(n) - 1 : i < j => at[i] < at[j]
    BY <1>9
<1>11. ASSUME NEW j \in 1..Len(n) - 1
       PROVE  /\ l[n[j]] = looked[s[at[j]]] /\ looked[s[at[j]]] > 0
              /\ looked[s[at[j]]] <= lookups /\ looked[s[at[j]]] \in Nat
  <2>1. at[j] \in DOMAIN s /\ n[j] = s[at[j]] /\ s[at[j]] # p
      BY <1>10
  <2>2. s[at[j]] \in Pairs
      BY <1>1, <2>1
  <2> QED BY <1>1, <1>3, <1>5, <2>1, <2>2
<1>12. Len(n) <= SeenLimit
    BY <1>1, <1>2, <1>4c
<1>13. \A q \in Pairs : l[q] <= lookups + 1
  <2> SUFFICES ASSUME NEW q \in Pairs PROVE l[q] <= lookups + 1
      OBVIOUS
  <2>1. looked[q] <= lookups /\ looked[q] \in Nat
      BY <1>1, <1>3
  <2>2. l[q] = lookups + 1 \/ l[q] = looked[q]
      BY <1>5
  <2> QED BY <1>1, <2>1, <2>2
<1>14. \A i \in DOMAIN n : l[n[i]] > 0
  <2> SUFFICES ASSUME NEW i \in DOMAIN n PROVE l[n[i]] > 0
      OBVIOUS
  <2>1. CASE i = Len(n)
      BY <1>1, <1>4, <1>5, <2>1
  <2>2. CASE i \in 1..Len(n) - 1
      BY <1>11, <2>2
  <2> QED BY <1>8, <2>1, <2>2
<1>15. \A i, j \in DOMAIN n : i < j => l[n[i]] < l[n[j]]
  <2> SUFFICES ASSUME NEW i \in DOMAIN n, NEW j \in DOMAIN n, i < j PROVE l[n[i]] < l[n[j]]
      OBVIOUS
  <2>1. i \in 1..Len(n) - 1 /\ (j = Len(n) \/ j \in 1..Len(n) - 1)
      BY <1>4, <1>8
  <2>2. CASE j = Len(n)
    <3>1. l[n[j]] = lookups + 1
        BY <1>4, <1>5, <2>2
    <3>2. l[n[i]] <= lookups /\ l[n[i]] \in Nat
        BY <1>11, <2>1
    <3> QED BY <1>1, <3>1, <3>2
  <2>3. CASE j \in 1..Len(n) - 1
    <3>1. at[i] < at[j] /\ at[i] \in DOMAIN s /\ at[j] \in DOMAIN s
        BY <1>10, <2>1, <2>3
    <3>2. looked[s[at[i]]] < looked[s[at[j]]]
        BY <1>3, <3>1
    <3>3. l[n[i]] = looked[s[at[i]]] /\ l[n[j]] = looked[s[at[j]]]
        BY <1>11, <2>1, <2>3
    <3> QED BY <3>2, <3>3
  <2> QED BY <2>1, <2>2, <2>3
\* One that is out of it now was out of it before, or has just been pushed out.
<1>16. ASSUME NEW q \in Pairs, l[q] > 0, \A i \in DOMAIN n : n[i] # q
       PROVE  Len(n) = SeenLimit /\ \A i \in DOMAIN n : l[q] < l[n[i]]
  <2>1. q # p /\ l[q] = looked[q] /\ looked[q] \in Nat /\ looked[q] <= lookups
    <3>1. Len(n) \in DOMAIN n
        BY <1>4, <1>8
    <3>2. q # p
        BY <1>4, <1>16, <3>1
    <3> QED BY <1>1, <1>3, <1>5, <3>2
  <2>2. l[q] < l[n[Len(n)]]
      BY <1>1, <1>4, <1>5, <2>1
  <2>3. CASE ~Remembered(q)
    <3>1. Len(s) = SeenLimit /\ \A i \in DOMAIN s : looked[q] < looked[s[i]]
        BY <1>3, <1>16, <2>1, <2>3
    <3>2. Len(n) = SeenLimit
        BY <1>1, <1>2, <1>4c, <3>1
    <3>3. ASSUME NEW i \in 1..Len(n) - 1 PROVE l[q] < l[n[i]]
      <4>1. at[i] \in DOMAIN s /\ l[n[i]] = looked[s[at[i]]]
          BY <1>10, <1>11
      <4> QED BY <2>1, <3>1, <4>1
    <3> QED BY <1>8, <2>2, <3>2, <3>3
  <2>4. CASE Remembered(q)
    <3>1. PICK i \in DOMAIN s : s[i] = q
        BY <1>6, <2>4
    <3>2. PICK d \in DOMAIN s :
            /\ s[d] = p \/ (d = 1 /\ Len(s) = SeenLimit /\ ~Remembered(p))
            /\ Dropped(s, n, d)
      <4>1. ~Longer(s, n)
        <5>1. SUFFICES ASSUME Longer(s, n) PROVE FALSE
            OBVIOUS
        <5>2. n[i] = s[i] /\ i \in DOMAIN n
            BY <1>1, <1>4, <1>8, <3>1, <5>1 DEF Longer
        <5> QED BY <1>16, <3>1, <5>2
      <4> QED BY <1>4b, <4>1
    <3>2a. Len(n) = Len(s) /\ \A j \in 1..Len(s) - 1 : n[j] = IF j < d THEN s[j] ELSE s[j + 1]
        BY <3>2 DEF Dropped
    <3>3. i = d
      <4>1. CASE i < d
        <5>0. i \in 1..Len(s) - 1 /\ i \in 1..Len(n)
            BY <1>1, <3>2a, <4>1
        <5>1. n[i] = s[i] /\ i \in DOMAIN n
            BY <1>8, <3>2a, <4>1, <5>0
        <5> QED BY <1>16, <3>1, <5>1
      <4>2. CASE d < i
        <5>0. i - 1 \in 1..Len(s) - 1 /\ ~(i - 1 < d) /\ (i - 1) + 1 = i /\ i - 1 \in 1..Len(n)
            BY <1>1, <3>2a, <4>2
        <5>1. i - 1 \in 1..Len(s) - 1 /\ ~(i - 1 < d) /\ (i - 1) + 1 = i /\ i - 1 \in DOMAIN n
            BY <1>8, <5>0
        <5>2. n[i - 1] = q
            BY <3>1, <3>2a, <5>1
        <5> QED BY <1>16, <5>1, <5>2
      <4> QED BY <1>1, <4>1, <4>2
    <3>4. d = 1 /\ Len(n) = SeenLimit
        BY <2>1, <3>1, <3>2, <3>2a, <3>3
    <3>5. ASSUME NEW j \in 1..Len(n) - 1 PROVE l[q] < l[n[j]]
      <4>1. n[j] = s[j + 1] /\ j + 1 \in DOMAIN s /\ 1 < j + 1
          BY <1>1, <3>2a, <3>4
      <4>2. looked[q] < looked[s[j + 1]]
          BY <1>3, <3>1, <3>3, <3>4, <4>1
      <4>3. n[j] # p /\ n[j] \in Pairs
          BY <1>8, <1>10
      <4>4. l[n[j]] = looked[n[j]]
          BY <1>5, <4>3
      <4> QED BY <2>1, <4>1, <4>2, <4>4
    <3> QED BY <1>8, <2>2, <3>4, <3>5
  <2> QED BY <2>3, <2>4
<1>17. \A q : Remembered(q)' <=> \E i \in DOMAIN n : n[i] = q
    BY <1>4a, <1>8 DEF Remembered, Contains
<1>18. lookups' = lookups + 1 /\ seenMsgs' = n /\ looked' = l
    BY <1>4a DEF l
<1> QED BY <1>12, <1>13, <1>14, <1>15, <1>16, <1>17, <1>18 DEF RecallFits, Pairs

\* As many others were looked up after one that has left the memory.
LEMMA OthersSince ==
  ASSUME RecallInv, NEW p \in Pairs, looked[p] > 0, ~Remembered(p)
  PROVE  Cardinality(LookedUpSince(p)) >= SeenLimit
<1> DEFINE s == seenMsgs  S == 1..Len(s)  T == LookedUpSince(p)  f == [i \in S |-> s[i]]
<1>1. Len(s) \in Nat /\ DOMAIN s = S /\ \A i \in S : s[i] \in Pairs
  <2> HIDE DEF Pairs
  <2> QED BY DEF RecallInv, RecallTypes
<1>2. /\ Len(s) = SeenLimit /\ \A i \in S : looked[p] < looked[s[i]]
      /\ \A i, j \in S : i < j => looked[s[i]] < looked[s[j]]
      /\ \A q \in Pairs : looked[q] \in Nat
    BY <1>1 DEF RecallInv, RecallTypes, RecallFits
<1>3. IsFiniteSet(T)
  <2>1. IsFiniteSet(Bots) /\ IsFiniteSet(1..MaxMsgs)
      BY GatewayAssumption, FS_Interval DEF GatewayAssumption
  <2>2. IsFiniteSet(Pairs)
      BY <2>1, FS_Product DEF Pairs
  <2>3. T \subseteq Pairs
      BY DEF LookedUpSince
  <2> QED BY <2>2, <2>3, FS_Subset
<1> HIDE DEF Pairs, s
<1>4. f \in [S -> T]
    BY <1>1, <1>2 DEF LookedUpSince
<1>5. ASSUME NEW i \in S, NEW j \in S, s[i] = s[j] PROVE i = j
  <2>1. looked[s[i]] \in Nat
      BY <1>1, <1>2
  <2>2. ~(i < j) /\ ~(j < i)
      BY <1>2, <1>5, <2>1
  <2> QED BY <2>2
<1>6. IsInjective(f)
    BY <1>5 DEF IsInjective
<1> HIDE DEF T, f, S
<1>7. f \in Injection(S, T)
    BY <1>4, <1>6 DEF Injection
<1>8. Cardinality(S) <= Cardinality(T)
    BY <1>3, <1>7, FS_Injection
<1>9. Cardinality(S) = SeenLimit
  <2>0. 1 \in Int /\ Len(s) \in Int
      BY <1>1
  <2>1. Cardinality(1..Len(s)) = IF 1 > Len(s) THEN 0 ELSE Len(s) - 1 + 1
      BY <2>0, FS_Interval
  <2>2. (IF 1 > Len(s) THEN 0 ELSE Len(s) - 1 + 1) = Len(s)
      BY <1>1
  <2> QED BY <1>2, <2>1, <2>2 DEF S
<1>10. Cardinality(T) \in Nat /\ SeenLimit \in Nat
    BY <1>3, GatewayAssumption, FS_CardinalityType DEF GatewayAssumption
<1> QED BY <1>8, <1>9, <1>10 DEF T

LEMMA LookUpFits == \A k \in ConnIds, a \in Bots : GateInv /\ RecallInv /\ LookUp(k, a) => RecallInv'
<1> SUFFICES ASSUME NEW k \in ConnIds, NEW a \in Bots, GateInv, RecallInv, LookUp(k, a)
             PROVE  RecallInv'
    OBVIOUS
<1> DEFINE p == <<a, dispatching.msg>>
<1>1. /\ dispatching.conn = k /\ a \in dispatching.todo
      /\ seenMsgs' = Recall(p) /\ lookups' = lookups + 1
      /\ conns' = IF Remembered(p) THEN conns ELSE [conns EXCEPT ![k].hits = conns[k].hits \cup {p}]
      /\ looked' = [looked EXCEPT ![p] = lookups + 1]
      /\ outOfReach' = IF looked[p] # 0 /\ Cardinality(LookedUpSince(p)) >= SeenLimit
                       THEN [outOfReach EXCEPT ![p] = outOfReach[p] + 1] ELSE outOfReach
      /\ dispatching' = IF dispatching.todo = {a} THEN NoDispatch
                        ELSE [dispatching EXCEPT !.todo = dispatching.todo \ {a}]
      /\ UNCHANGED <<wants, msgs, firings>>
    BY DEF LookUp
<1>2. dispatching \in [conn : 0..MaxConns, msg : 0..MaxMsgs, todo : SUBSET Bots] /\ dispatching.msg # 0
    BY <1>1, GatewayAssumption DEF GatewayAssumption, RecallInv, RecallTypes, ConnIds
<1>3. p \in Pairs
    BY <1>2, GatewayAssumption DEF GatewayAssumption, Pairs
<1> HIDE DEF p
<1>4. RecallFits'
    BY <1>1, <1>3, RecallKeeps
<1>5. /\ \A j \in ConnIds : j # k \/ Remembered(p) => conns'[j] = conns[j]
      /\ ~Remembered(p) => conns'[k] = [conns[k] EXCEPT !.hits = conns[k].hits \cup {p}]
      /\ DOMAIN conns[k] = ConnFields
    BY <1>1 DEF GateInv, ConnsFit
<1>6. \A j \in ConnIds : /\ conns'[j].inbox = conns[j].inbox
                         /\ conns'[j].hits = conns[j].hits \/ conns'[j].hits = conns[j].hits \cup {p}
    BY <1>5 DEF ConnFields
<1>7. RecallTypes'
  <2>1. wants' \subseteq Bots \X Secrets /\ msgs' \in 0..MaxMsgs
      BY <1>1 DEF RecallInv, RecallTypes
  <2>2. \A j \in ConnIds : conns'[j].inbox \in Seq(1..MaxMsgs) /\ conns'[j].hits \subseteq Pairs
    <3>1. \A j \in ConnIds : conns[j].inbox \in Seq(1..MaxMsgs) /\ conns[j].hits \subseteq Pairs
        BY DEF RecallInv, RecallTypes
    <3> HIDE DEF Pairs
    <3> QED BY <1>3, <1>6, <3>1
  <2>3. dispatching' \in [conn : 0..MaxConns, msg : 0..MaxMsgs, todo : SUBSET Bots]
      BY <1>1, <1>2, GatewayAssumption DEF GatewayAssumption, NoDispatch
  <2>4. dispatching'.conn # 0 => dispatching'.msg # 0
      BY <1>1, <1>2 DEF NoDispatch
  <2>5. seenMsgs' \in Seq(Pairs)
    <3> HIDE DEF Pairs
    <3> QED BY <1>1, <1>3, RecallDrops
  <2>6. /\ lookups \in Nat /\ looked \in [Pairs -> Nat] /\ outOfReach \in [Pairs -> Nat]
        /\ firings \in [Pairs -> Nat]
      BY DEF RecallInv, RecallTypes
  <2>7. lookups' \in Nat /\ looked' \in [Pairs -> Nat]
    <3> HIDE DEF Pairs
    <3> QED BY <1>1, <1>3, <2>6
  <2>8. outOfReach' \in [Pairs -> Nat] /\ firings' \in [Pairs -> Nat]
    <3> HIDE DEF Pairs
    <3> QED BY <1>1, <1>3, <2>6
  <2> QED BY <2>1, <2>2, <2>3, <2>4, <2>5, <2>7, <2>8 DEF RecallTypes, ConnIds, Pairs
<1>8. FiringsFit'
  <2> SUFFICES ASSUME NEW q \in Pairs
               PROVE  LetThrough(q)' <= IF looked'[q] = 0 THEN 0 ELSE 1 + outOfReach'[q]
      BY DEF FiringsFit, Pairs
  <2>1. /\ LetThrough(q) <= IF looked[q] = 0 THEN 0 ELSE 1 + outOfReach[q]
        /\ firings[q] \in Nat /\ outOfReach[q] \in Nat /\ looked[q] \in Nat /\ lookups \in Nat
        /\ looked \in [Pairs -> Nat] /\ outOfReach \in [Pairs -> Nat]
      BY DEF RecallInv, RecallTypes, FiringsFit
  <2>2. /\ LetThrough(q) = firings[q] + Cardinality(Holding(q))
        /\ LetThrough(q)' = firings[q] + Cardinality(Holding(q)')
        /\ Cardinality(Holding(q)) \in Nat /\ IsFiniteSet(Holding(q))
      BY <1>1, HoldingFinite DEF LetThrough
  <2> HIDE DEF Pairs
  <2>3. outOfReach'[q] \in Nat /\ outOfReach'[q] >= outOfReach[q]
      BY <1>1, <1>3, <2>1
  <2>4. ASSUME q # p \/ Remembered(p) PROVE Holding(q)' = Holding(q)
      BY <1>5, <1>6, <2>4 DEF Holding, ConnIds
  <2>5. CASE q # p
    <3>1. looked'[q] = looked[q]
        BY <1>1, <1>3, <2>1, <2>5
    <3> QED BY <2>1, <2>2, <2>3, <2>4, <2>5, <3>1
  <2>6. CASE q = p /\ Remembered(p)
    <3>1. looked'[q] # 0
        BY <1>1, <1>3, <2>1, <2>6
    <3> QED BY <2>1, <2>2, <2>3, <2>4, <2>6, <3>1
  <2>7. CASE q = p /\ ~Remembered(p)
    <3>1. looked'[q] # 0
        BY <1>1, <1>3, <2>1, <2>7
    <3>2. Holding(q)' \subseteq Holding(q) \cup {k}
        BY <1>5, <1>6, <2>7 DEF Holding, ConnIds
    <3>3. Cardinality(Holding(q)') <= Cardinality(Holding(q)) + 1 /\ Cardinality(Holding(q)') \in Nat
      <4>1. IsFiniteSet(Holding(q) \cup {k}) /\ Cardinality(Holding(q) \cup {k}) <= Cardinality(Holding(q)) + 1
        <5>1. CASE k \in Holding(q)
          <6>1. Holding(q) \cup {k} = Holding(q)
              BY <5>1
          <6>2. IsFiniteSet(Holding(q) \cup {k}) /\ Cardinality(Holding(q) \cup {k}) = Cardinality(Holding(q))
              BY <2>2, <6>1, Zenon
          <6> QED BY <2>2, <6>2
        <5>2. CASE k \notin Holding(q)
          <6>1. IsFiniteSet(Holding(q))
              BY <2>2
          <6>2. /\ IsFiniteSet(Holding(q) \cup {k})
                /\ Cardinality(Holding(q) \cup {k}) = Cardinality(Holding(q)) + 1
              BY <5>2, <6>1, FS_AddElement
          <6> QED BY <2>2, <6>2
        <5> QED BY <5>1, <5>2
      <4>2. IsFiniteSet(Holding(q)') /\ Cardinality(Holding(q)') <= Cardinality(Holding(q) \cup {k})
          BY <3>2, <4>1, FS_Subset
      <4>3. Cardinality(Holding(q)') \in Nat /\ Cardinality(Holding(q) \cup {k}) \in Nat
          BY <4>1, <4>2, FS_CardinalityType
      <4> QED BY <2>2, <4>1, <4>2, <4>3
    <3>4. CASE looked[q] = 0
        BY <2>1, <2>2, <2>3, <3>1, <3>3, <3>4
    <3>5. CASE looked[q] # 0
      <4>1. Cardinality(LookedUpSince(p)) >= SeenLimit
        <5>1. looked[p] > 0
            BY <2>1, <2>7, <3>5
        <5> QED BY <1>3, <2>7, <5>1, OthersSince
      <4>2. outOfReach'[q] = outOfReach[q] + 1
          BY <1>1, <1>3, <2>1, <2>7, <3>5, <4>1
      <4> QED BY <2>1, <2>2, <3>1, <3>3, <3>5, <4>2
    <3> QED BY <3>4, <3>5
  <2> QED BY <2>5, <2>6, <2>7
<1> QED BY <1>4, <1>7, <1>8 DEF RecallInv

LEMMA FireFits == \A k \in ConnIds, p \in Pairs : GateInv /\ RecallInv /\ Fire(k, p) => RecallInv'
<1> SUFFICES ASSUME NEW k \in ConnIds, NEW p \in Pairs, GateInv, RecallInv, Fire(k, p)
             PROVE  RecallInv'
    OBVIOUS
<1>1. /\ p \in conns[k].hits
      /\ conns' = [conns EXCEPT ![k].hits = conns[k].hits \ {p}]
      /\ firings' = [firings EXCEPT ![p] = firings[p] + 1]
      /\ UNCHANGED <<dispatching, seenMsgs, lookups, looked, outOfReach, wants, msgs>>
    BY DEF Fire, memoryVars
<1>2. /\ \A j \in ConnIds : j # k => conns'[j] = conns[j]
      /\ conns'[k].hits = conns[k].hits \ {p} /\ conns'[k].inbox = conns[k].inbox
    BY <1>1 DEF GateInv, ConnsFit, ConnFields
<1>3. RecallTypes'
  <2>1. \A j \in ConnIds : conns'[j].inbox \in Seq(1..MaxMsgs) /\ conns'[j].hits \subseteq Pairs
    <3>1. \A j \in ConnIds : conns[j].inbox \in Seq(1..MaxMsgs) /\ conns[j].hits \subseteq Pairs
        BY DEF RecallInv, RecallTypes
    <3> HIDE DEF Pairs
    <3> QED BY <1>2, <3>1
  <2>2. firings' \in [Pairs -> Nat]
    <3>1. firings \in [Pairs -> Nat]
        BY DEF RecallInv, RecallTypes
    <3> HIDE DEF Pairs
    <3> QED BY <1>1, <3>1
  <2> QED BY <1>1, <2>1, <2>2 DEF RecallInv, RecallTypes, ConnIds, Pairs
<1>4. RecallFits'
    BY <1>1 DEF RecallInv, RecallFits, Remembered, Contains, Pairs
<1>5. FiringsFit'
  <2> SUFFICES ASSUME NEW q \in Pairs
               PROVE  LetThrough(q)' <= IF looked[q] = 0 THEN 0 ELSE 1 + outOfReach[q]
      BY <1>1 DEF FiringsFit, Pairs
  <2>1. /\ LetThrough(q) <= IF looked[q] = 0 THEN 0 ELSE 1 + outOfReach[q]
        /\ firings[q] \in Nat /\ firings \in [Pairs -> Nat]
      BY DEF RecallInv, RecallTypes, FiringsFit
  <2>2. /\ LetThrough(q) = firings[q] + Cardinality(Holding(q))
        /\ LetThrough(q)' = firings'[q] + Cardinality(Holding(q)')
        /\ Cardinality(Holding(q)) \in Nat /\ IsFiniteSet(Holding(q))
      BY HoldingFinite DEF LetThrough
  <2> HIDE DEF Pairs
  <2>3. CASE q # p
    <3>1. firings'[q] = firings[q]
        BY <1>1, <2>1, <2>3
    <3>2. Holding(q)' = Holding(q)
        BY <1>2, <2>3 DEF Holding, ConnIds
    <3> QED BY <2>1, <2>2, <3>1, <3>2
  <2>4. CASE q = p
    <3>1. firings'[q] = firings[q] + 1
        BY <1>1, <2>1, <2>4
    <3>2. Holding(q)' = Holding(q) \ {k} /\ k \in Holding(q)
        BY <1>1, <1>2, <2>4 DEF Holding, ConnIds
    <3>3. Cardinality(Holding(q) \ {k}) = Cardinality(Holding(q)) - 1
        BY <2>2, <3>2, FS_RemoveElement
    <3>4. Cardinality(Holding(q)') = Cardinality(Holding(q)) - 1
        BY <3>2, <3>3
    <3> QED BY <2>1, <2>2, <3>1, <3>4
  <2> QED BY <2>3, <2>4
<1> QED BY <1>3, <1>4, <1>5 DEF RecallInv

LEMMA DispatchFits == \A k \in ConnIds : GateInv /\ RecallInv /\ Dispatch(k) => RecallInv'
<1> SUFFICES ASSUME NEW k \in ConnIds, GateInv, RecallInv, Dispatch(k) PROVE RecallInv'
    OBVIOUS
<1>1. /\ conns[k].inbox # <<>> /\ conns' = [conns EXCEPT ![k].inbox = Tail(conns[k].inbox)]
      /\ dispatching' = IF Matching(k) = {} THEN NoDispatch
                        ELSE [conn |-> k, msg |-> Head(conns[k].inbox), todo |-> Matching(k)]
      /\ UNCHANGED <<seenMsgs, lookups, looked, outOfReach, firings, wants, msgs>>
    BY DEF Dispatch
<1>2. /\ wants \subseteq Bots \X Secrets /\ msgs \in 0..MaxMsgs
      /\ \A j \in ConnIds : conns[j].inbox \in Seq(1..MaxMsgs) /\ conns[j].hits \subseteq Pairs
    BY DEF RecallInv, RecallTypes
<1>3. Head(conns[k].inbox) \in 1..MaxMsgs /\ Tail(conns[k].inbox) \in Seq(1..MaxMsgs)
  <2> DEFINE q == conns[k].inbox  S == 1..MaxMsgs
  <2>1. q \in Seq(S) /\ q # <<>>
      BY <1>1, <1>2
  <2> HIDE DEF q, S
  <2>2. Head(q) \in S /\ Tail(q) \in Seq(S)
      BY <2>1
  <2> QED BY <2>2 DEF q, S
<1>4. /\ \A j \in ConnIds : j # k => conns'[j] = conns[j]
      /\ conns'[k].hits = conns[k].hits /\ conns'[k].inbox = Tail(conns[k].inbox)
    BY <1>1 DEF GateInv, ConnsFit, ConnFields
<1>5. \A j \in ConnIds : conns'[j].hits \subseteq conns[j].hits /\ conns'[j].inbox \in Seq(1..MaxMsgs)
    BY <1>2, <1>3, <1>4
<1>6. \A j \in ConnIds : conns'[j].hits \subseteq Pairs
    BY <1>2, <1>5
<1>7. /\ dispatching' \in [conn : 0..MaxConns, msg : 0..MaxMsgs, todo : SUBSET Bots]
      /\ dispatching'.conn # 0 => dispatching'.msg # 0
  <2>1. CASE Matching(k) = {}
      BY <1>1, <2>1, GatewayAssumption DEF GatewayAssumption, NoDispatch
  <2>2. CASE Matching(k) # {}
    <3>1. Matching(k) \subseteq Bots
        BY DEF Matching
    <3>2. k \in 0..MaxConns /\ Head(conns[k].inbox) \in 0..MaxMsgs /\ Head(conns[k].inbox) # 0
        BY <1>3, GatewayAssumption DEF GatewayAssumption, ConnIds
    <3> QED BY <1>1, <2>2, <3>1, <3>2
  <2> QED BY <2>1, <2>2
<1>8. RecallTypes'
    BY <1>1, <1>5, <1>6, <1>7 DEF RecallInv, RecallTypes, ConnIds, Pairs
<1> QED BY <1>1, <1>2, <1>5, <1>8, RecallStays

LEMMA PostFits == GateInv /\ RecallInv /\ Post => RecallInv'
<1> SUFFICES ASSUME GateInv, RecallInv, Post PROVE RecallInv' OBVIOUS
<1>1. /\ msgs < MaxMsgs /\ msgs' = msgs + 1
      /\ \A k \in ConnIds : conns'[k] = IF Hears(k)
            THEN [conns[k] EXCEPT !.inbox = Append(conns[k].inbox, msgs + 1)] ELSE conns[k]
      /\ UNCHANGED <<dispatching, seenMsgs, lookups, looked, outOfReach, firings, wants>>
    BY DEF Post, memoryVars
<1>2. /\ wants \subseteq Bots \X Secrets /\ msgs \in 0..MaxMsgs
      /\ \A j \in ConnIds : conns[j].inbox \in Seq(1..MaxMsgs) /\ conns[j].hits \subseteq Pairs
    BY DEF RecallInv, RecallTypes
<1>3. msgs + 1 \in 1..MaxMsgs /\ msgs' \in 0..MaxMsgs
    BY <1>1, <1>2, GatewayAssumption DEF GatewayAssumption
<1>4. ASSUME NEW j \in ConnIds
      PROVE  conns'[j].hits \subseteq conns[j].hits /\ conns'[j].inbox \in Seq(1..MaxMsgs)
  <2>1. /\ conns'[j].hits = conns[j].hits
        /\ conns'[j].inbox = conns[j].inbox \/ conns'[j].inbox = Append(conns[j].inbox, msgs + 1)
      BY <1>1 DEF GateInv, ConnsFit, ConnFields
  <2>2. Append(conns[j].inbox, msgs + 1) \in Seq(1..MaxMsgs)
      BY <1>2, <1>3
  <2> QED BY <1>2, <2>1, <2>2
<1> QED BY <1>1, <1>2, <1>3, <1>4, RecallStays

\* The other steps of a connection, of the manager and of the user's switches.
LEMMA ThreadFits ==
  ASSUME GateInv, RecallInv, NEW k \in ConnIds,
         \/ TokenRead(k) \/ Ready(k) \/ Beat(k) \/ Retries(k) \/ ConnLeaves(k)
         \/ TokenMissing(k) \/ SessionDrops(k) \/ PathDies(k) \/ Dies(k)
  PROVE  RecallInv'
<1>1. DOMAIN conns[k] = ConnFields
    BY DEF GateInv, ConnsFit
<1>2. PICK rec :
        /\ Thread(k, rec)
        /\ \/ rec = [conns[k] EXCEPT !.st = "session"]
           \/ rec = [conns[k] EXCEPT !.st = "waiting"]
           \/ rec = [conns[k] EXCEPT !.st = "ready"]
           \/ rec = [conns[k] EXCEPT !.st = "asking"]
           \/ rec = [conns[k] EXCEPT !.st = "gone", !.inbox = <<>>]
           \/ rec = [conns[k] EXCEPT !.deaf = TRUE, !.inbox = <<>>]
           \/ rec = [conns[k] EXCEPT !.awaiting = conns[k].deaf]
           \/ rec = Closed(k)
  <2>1. CASE TokenRead(k)      BY <2>1 DEF TokenRead
  <2>2. CASE Ready(k)          BY <2>2 DEF Ready
  <2>3. CASE Beat(k)           BY <2>3 DEF Beat
  <2>4. CASE Retries(k)        BY <2>4 DEF Retries
  <2>5. CASE ConnLeaves(k)     BY <2>5 DEF ConnLeaves
  <2>6. CASE TokenMissing(k)   BY <2>6 DEF TokenMissing
  <2>7. CASE SessionDrops(k)   BY <2>7 DEF SessionDrops
  <2>8. CASE PathDies(k)       BY <2>8 DEF PathDies
  <2>9. CASE Dies(k)           BY <2>9 DEF Dies
  <2> QED BY <2>1, <2>2, <2>3, <2>4, <2>5, <2>6, <2>7, <2>8, <2>9
<1>3. rec.hits = conns[k].hits /\ (rec.inbox = conns[k].inbox \/ rec.inbox = <<>>)
    BY <1>1, <1>2 DEF Closed, ConnFields
<1>4. /\ conns' = [conns EXCEPT ![k] = rec]
      /\ UNCHANGED <<dispatching, seenMsgs, lookups, looked, outOfReach, firings, wants, msgs>>
    BY <1>2 DEF Thread, memoryVars
<1>5. conns'[k] = rec /\ \A j \in ConnIds : j # k => conns'[j] = conns[j]
    BY <1>4 DEF GateInv, ConnsFit
<1>6. /\ wants \subseteq Bots \X Secrets /\ msgs \in 0..MaxMsgs
      /\ \A j \in ConnIds : conns[j].inbox \in Seq(1..MaxMsgs)
    BY DEF RecallInv, RecallTypes
<1>7. <<>> \in Seq(1..MaxMsgs)
    OBVIOUS
<1>8. \A j \in ConnIds : conns'[j].hits \subseteq conns[j].hits /\ conns'[j].inbox \in Seq(1..MaxMsgs)
    BY <1>3, <1>5, <1>6, <1>7
<1> QED BY <1>4, <1>6, <1>8, RecallStays

LEMMA OthersFit ==
  ASSUME GateInv, RecallInv,
         \/ StopBegins \/ StopEnds \/ Reconciles \/ UNCHANGED gateVars
         \/ \E a \in Bots, s \in Secrets : Flip(a, s)
  PROVE  RecallInv'
<1>1. /\ wants \subseteq Bots \X Secrets /\ msgs \in 0..MaxMsgs
      /\ \A j \in ConnIds : conns[j].inbox \in Seq(1..MaxMsgs)
      /\ DOMAIN conns = ConnIds /\ \A j \in ConnIds : DOMAIN conns[j] = ConnFields
    BY DEF RecallInv, RecallTypes, GateInv, ConnsFit
<1>2. UNCHANGED <<dispatching, seenMsgs, lookups, looked, outOfReach, firings, msgs>>
    BY DEF StopBegins, StopEnds, Reconciles, ReconcileStarts, DropDead, CreateRefused, Created,
           ReconcileEnds, DropOne, CreateConn, CreateOpen, Flip, memoryVars, gateVars
<1>3. wants' \subseteq Bots \X Secrets
  <2>1. ASSUME NEW a \in Bots, NEW s \in Secrets, Flip(a, s) PROVE wants' \subseteq Bots \X Secrets
      BY <1>1, <2>1 DEF Flip
  <2>2. CASE UNCHANGED wants
      BY <1>1, <2>2
  <2> QED BY <2>1, <2>2 DEF StopBegins, StopEnds, Reconciles, ReconcileStarts, DropDead, CreateRefused,
             Created, ReconcileEnds, DropOne, CreateConn, CreateOpen, gateVars
<1>4. \A j \in ConnIds : conns'[j].hits \subseteq conns[j].hits /\ conns'[j].inbox \in Seq(1..MaxMsgs)
  <2>1. CASE UNCHANGED conns
      BY <1>1, <2>1
  <2>2. CASE StopEnds
    <3>1. \A j \in ConnIds : conns'[j] = conns[j] \/ conns'[j] = [conns[j] EXCEPT !.stop = TRUE]
        BY <2>2 DEF StopEnds
    <3> QED BY <1>1, <3>1 DEF ConnFields
  <2>3. ASSUME NEW s \in Secrets, DropOne(s)
        PROVE  \A j \in ConnIds : conns'[j].hits \subseteq conns[j].hits /\ conns'[j].inbox \in Seq(1..MaxMsgs)
    <3>1. conns' = [conns EXCEPT ![table[s]].stop = TRUE]
        BY <2>3 DEF DropOne
    <3>2. \A j \in ConnIds : conns'[j] = conns[j] \/ conns'[j] = [conns[j] EXCEPT !.stop = TRUE]
        BY <1>1, <3>1
    <3> QED BY <1>1, <3>2 DEF ConnFields
  <2>4. ASSUME NEW s \in Secrets, NEW k \in ConnIds, CreateConn(s, k)
        PROVE  \A j \in ConnIds : conns'[j].hits \subseteq conns[j].hits /\ conns'[j].inbox \in Seq(1..MaxMsgs)
    <3>1. /\ conns'[k].hits = {} /\ conns'[k].inbox = <<>>
          /\ \A j \in ConnIds : j # k => conns'[j] = conns[j]
        BY <1>1, <2>4 DEF CreateConn, CreateOpen, Unused
    <3>2. <<>> \in Seq(1..MaxMsgs)
        OBVIOUS
    <3> QED BY <1>1, <3>1, <3>2
  <2>5. \/ UNCHANGED conns \/ StopEnds \/ (\E s \in Secrets : DropOne(s))
        \/ \E s \in Secrets, k \in ConnIds : CreateConn(s, k)
      BY DEF StopBegins, Reconciles, ReconcileStarts, DropDead, CreateRefused, Created,
             ReconcileEnds, Flip, gateVars
  <2> QED BY <2>1, <2>2, <2>3, <2>4, <2>5
<1> QED BY <1>1, <1>2, <1>3, <1>4, RecallStays

LEMMA RecallStep == GateInv /\ RecallInv /\ [GateNext]_gateVars => RecallInv'
<1> SUFFICES ASSUME GateInv, RecallInv, [GateNext]_gateVars PROVE RecallInv' OBVIOUS
<1>1. CASE \/ StopBegins \/ StopEnds \/ Reconciles \/ UNCHANGED gateVars
           \/ \E a \in Bots, s \in Secrets : Flip(a, s)
    BY <1>1, OthersFit
<1>2. CASE Post
    BY <1>2, PostFits
<1>3. ASSUME NEW k \in ConnIds,
             Works(k) \/ TokenMissing(k) \/ SessionDrops(k) \/ PathDies(k) \/ Dies(k)
      PROVE  RecallInv'
  <2>1. CASE \E a \in Bots : LookUp(k, a)
      BY <2>1, LookUpFits
  <2>2. CASE \E p \in Pairs : Fire(k, p)
      BY <2>2, FireFits
  <2>3. CASE Dispatch(k)
      BY <2>3, DispatchFits
  <2> QED BY <1>3, <2>1, <2>2, <2>3, ThreadFits DEF Works
<1> QED BY <1>1, <1>2, <1>3 DEF GateNext

-----------------------------------------------------------------------------
(***************************************************************************)
(* The watcher of the Messages database.  The rows the watch is answerable    *)
(* for lie between the row it began at and the cursor; what fired is at or     *)
(* before the cursor, so a row read now fires for the first time.            *)
(***************************************************************************)
Messages == [who : Senders, born : Nat, plain : BOOLEAN]
Passes == [phase : {"none", "begun", "read", "rows", "dispatch"},
           want : SUBSET Senders, top : Nat, rows : SUBSET Nat]

ChatTypes ==
  /\ chat \in Seq(Messages) /\ hour \in Nat /\ wanted \subseteq Senders
  /\ cursor \in Nat /\ since \in Nat /\ firedFor \subseteq Nat /\ notices \in Nat
  /\ pass \in Passes

CursorFits ==
  /\ open => hasCursor /\ cursor <= Len(chat)
  /\ pass.phase \in {"read", "rows", "dispatch"} => hasCursor /\ cursor <= Len(chat)
  /\ pass.phase = "rows" => cursor <= pass.top /\ pass.top <= Len(chat)
  /\ pass.phase # "dispatch" => pass.rows = {}
  /\ hasCursor => since <= cursor

FiredFits ==
  /\ \A i \in firedFor : i <= Len(chat) /\ (hasCursor => i <= cursor)
  /\ \A i \in pass.rows : since < i /\ i <= cursor /\ i \notin firedFor

NoticeFits ==
  /\ marker => notices = 0
  /\ notices <= 1
  /\ toldOf = "connected" => ~marker

ChatInv ==
  /\ ChatTypes /\ CursorFits /\ FiredFits /\ NoticeFits
  /\ HistoryNeverFires /\ NothingPassedOver /\ StaysClosed

LEMMA ChatInvGives ==
  ChatInv => HistoryNeverFires /\ NothingPassedOver /\ StaysClosed /\ NoticedOnce
  BY DEF ChatInv, NoticeFits, NoticedOnce

\* The least of some row numbers: of the intervals up to them, the smallest.
LEMMA LeastRow == ASSUME NEW S, S \subseteq Nat, S # {} PROVE \E n \in S : \A j \in S : n <= j
<1> DEFINE T == {0..n : n \in S}
<1>1. IsWellFoundedOn(StrictSubsetOrdering(Nat), FiniteSubsetsOf(Nat))
    BY FS_StrictSubsetOrderingWellFounded
<1>2. T \subseteq FiniteSubsetsOf(Nat)
  <2> SUFFICES ASSUME NEW n \in S PROVE 0..n \in FiniteSubsetsOf(Nat) OBVIOUS
  <2>1. n \in Int /\ 0 \in Int /\ 0..n \subseteq Nat
      OBVIOUS
  <2>2. IsFiniteSet(0..n)
      BY <2>1, FS_Interval
  <2> QED BY <2>1, <2>2 DEF FiniteSubsetsOf
<1>3. T # {}
    OBVIOUS
<1>4. PICK x \in T : \A y \in T : ~(<<y, x>> \in StrictSubsetOrdering(Nat))
    <2> HIDE DEF T
    <2> QED BY <1>1, <1>2, <1>3, WFMin
<1>5. PICK n \in S : x = 0..n
    BY <1>4
<1>6. ASSUME NEW j \in S, j < n PROVE FALSE
  <2>1. 0..j \subseteq 0..n /\ 0..j # 0..n /\ 0..j \subseteq Nat /\ 0..n \subseteq Nat
      BY <1>6
  <2>2. <<0..j, 0..n>> \in StrictSubsetOrdering(Nat)
      BY <2>1 DEF StrictSubsetOrdering
  <2> QED BY <1>4, <1>5, <2>2
<1>7. \A j \in S : n <= j
    BY <1>6
<1> QED BY <1>7

LEMMA AnySender == (CHOOSE s \in Senders : TRUE) \in Senders
  BY WatcherAssumption DEF WatcherAssumption

LEMMA ARow == \A s \in Senders, b \in Nat, p \in BOOLEAN :
                 [who |-> s, born |-> b, plain |-> p] \in Messages
  BY Zenon DEF Messages

LEMMA ChatStarts == ChatInit => ChatInv
<1> SUFFICES ASSUME ChatInit PROVE ChatInv OBVIOUS
<1>1. chat \in Seq(Messages)
  <2> DEFINE row == [who |-> CHOOSE s \in Senders : TRUE, born |-> 0, plain |-> TRUE]
  <2>1. row \in Messages
      BY AnySender, ARow
  <2>2. chat = <<>> \/ chat = <<row>>
      BY DEF ChatInit
  <2> HIDE DEF row
  <2>3. <<>> \in Seq(Messages) /\ <<row>> \in Seq(Messages)
      BY <2>1
  <2> QED BY <2>2, <2>3
<1>2. ChatTypes
    BY <1>1 DEF ChatInit, ChatTypes, Passes, NoPass
<1>3. CursorFits /\ FiredFits /\ NoticeFits
    BY <1>1 DEF ChatInit, CursorFits, FiredFits, NoticeFits, NoPass
<1>4. HistoryNeverFires /\ NothingPassedOver /\ StaysClosed
    BY DEF ChatInit, HistoryNeverFires, NothingPassedOver, StaysClosed
<1> QED BY <1>2, <1>3, <1>4 DEF ChatInv

LEMMA ArrivesKeeps == \A s \in Senders, plain \in BOOLEAN : ChatInv /\ Arrives(s, plain) => ChatInv'
<1> SUFFICES ASSUME NEW s \in Senders, NEW plain \in BOOLEAN, ChatInv, Arrives(s, plain)
             PROVE  ChatInv'
    OBVIOUS
<1>1. [who |-> s, born |-> hour, plain |-> plain] \in Messages
    BY ARow DEF ChatInv, ChatTypes
<1>2. chat' \in Seq(Messages) /\ Len(chat') = Len(chat) + 1 /\ Len(chat) \in Nat
    BY <1>1 DEF Arrives, ChatInv, ChatTypes
<1>3. UNCHANGED <<readable, hour, wanted, watcher, open, cursor, hasCursor, pass, stopped,
                  toldOf, marker, since, firedFor, excused, notices, wrong, upsets>>
    BY DEF Arrives
<1>4. ChatTypes' /\ NoticeFits'
    BY <1>2, <1>3 DEF ChatInv, ChatTypes, NoticeFits
<1>5. CursorFits' /\ FiredFits'
    BY <1>2, <1>3 DEF ChatInv, ChatTypes, CursorFits, FiredFits, Passes
<1>6. HistoryNeverFires' /\ NothingPassedOver' /\ StaysClosed'
    BY <1>3 DEF ChatInv, HistoryNeverFires, NothingPassedOver, StaysClosed
<1> QED BY <1>4, <1>5, <1>6 DEF ChatInv

LEMMA ReplacedKeeps == \A n \in 0..MaxRows : ChatInv /\ Replaced(n) => ChatInv'
<1> SUFFICES ASSUME NEW n \in 0..MaxRows, ChatInv, Replaced(n) PROVE ChatInv' OBVIOUS
<1>1. n \in Nat
    BY WatcherAssumption DEF WatcherAssumption
<1> DEFINE row == [who |-> CHOOSE s \in Senders : TRUE, born |-> 0, plain |-> TRUE]
<1>2. row \in Messages
    BY AnySender, ARow
<1>3. chat' = [i \in 1..n |-> row]
    BY DEF Replaced
<1> HIDE DEF row
<1>4. chat' \in Seq(Messages)
    BY <1>1, <1>2, <1>3
<1>5. /\ pass = NoPass /\ since' = cursor /\ firedFor' = {} /\ open' = FALSE
      /\ toldOf' = "error" \/ toldOf' = toldOf
      /\ UNCHANGED <<hour, wanted, cursor, hasCursor, pass, stopped, marker, notices, wrong>>
    BY DEF Replaced
<1>6. ChatTypes' /\ NoticeFits'
    BY <1>4, <1>5 DEF ChatInv, ChatTypes, NoticeFits
<1>7. CursorFits' /\ FiredFits'
    BY <1>5 DEF ChatInv, ChatTypes, CursorFits, FiredFits, NoPass
<1>8. HistoryNeverFires' /\ NothingPassedOver' /\ StaysClosed'
    BY <1>5 DEF ChatInv, ChatTypes, HistoryNeverFires, NothingPassedOver, StaysClosed
<1> QED BY <1>6, <1>7, <1>8 DEF ChatInv

LEMMA ConsumeFits ==
  ASSUME NoticeFits, notices \in Nat, NEW d, ConsumeMarker(d)
  PROVE  marker' = FALSE /\ notices' \in Nat /\ notices' <= 1
  BY DEF NoticeFits, ConsumeMarker

LEMMA PassBeginsKeeps == ChatInv /\ PassBegins => ChatInv'
<1> SUFFICES ASSUME ChatInv, PassBegins PROVE ChatInv' OBVIOUS
<1>1. /\ pass' = [NoPass EXCEPT !.phase = "begun", !.want = wanted]
      /\ UNCHANGED <<chat, hour, wanted, open, cursor, hasCursor, stopped,
                     toldOf, since, firedFor, excused, wrong>>
    BY DEF PassBegins
<1>2. /\ pass' \in Passes /\ pass'.phase = "begun" /\ pass'.rows = {}
      /\ pass.rows = {}
    BY <1>1 DEF PassBegins, ChatInv, ChatTypes, NoPass, Passes
<1>3. (marker' = FALSE /\ notices' \in Nat /\ notices' <= 1) \/ UNCHANGED <<marker, notices>>
    BY ConsumeFits DEF PassBegins, ChatInv, ChatTypes
<1>4. ChatTypes' /\ NoticeFits'
    BY <1>1, <1>2, <1>3 DEF ChatInv, ChatTypes, NoticeFits
<1>5. CursorFits' /\ FiredFits'
    BY <1>1, <1>2 DEF ChatInv, ChatTypes, CursorFits, FiredFits
<1>6. HistoryNeverFires' /\ NothingPassedOver' /\ StaysClosed'
    BY <1>1, <1>2 DEF ChatInv, HistoryNeverFires, NothingPassedOver, StaysClosed
<1> QED BY <1>4, <1>5, <1>6 DEF ChatInv

LEMMA NoPassFits == NoPass \in Passes /\ NoPass.phase = "none" /\ NoPass.rows = {}
  BY DEF NoPass, Passes

LEMMA WatcherGoesKeeps == ChatInv /\ WatcherGoes => ChatInv'
<1> SUFFICES ASSUME ChatInv, WatcherGoes PROVE ChatInv' OBVIOUS
<1>1. /\ pass' = NoPass /\ pass.phase = "begun" /\ pass.rows = {}
      /\ UNCHANGED <<chat, hour, wanted, stopped, marker, since, firedFor, excused, notices, wrong>>
    BY DEF WatcherGoes, ChatInv, CursorFits
<1>2. \/ open' = FALSE /\ cursor' = 0 /\ hasCursor' = FALSE /\ toldOf' = "none"
      \/ UNCHANGED <<open, cursor, hasCursor, toldOf>>
    BY DEF WatcherGoes
<1>3. ChatTypes' /\ NoticeFits'
    BY <1>1, <1>2, NoPassFits DEF ChatInv, ChatTypes, NoticeFits
<1>4. CursorFits' /\ FiredFits'
    BY <1>1, <1>2, NoPassFits DEF ChatInv, ChatTypes, CursorFits, FiredFits
<1>5. HistoryNeverFires' /\ NothingPassedOver' /\ StaysClosed'
    BY <1>1, <1>2, NoPassFits DEF ChatInv, HistoryNeverFires, NothingPassedOver, StaysClosed
<1> QED BY <1>3, <1>4, <1>5 DEF ChatInv

LEMMA OpensKeeps == ChatInv /\ Opens => ChatInv'
<1> SUFFICES ASSUME ChatInv, Opens PROVE ChatInv' OBVIOUS
<1>1. /\ pass' = [pass EXCEPT !.phase = "read"] /\ pass.phase = "begun" /\ ~stopped
      /\ open' = TRUE /\ hasCursor' = TRUE /\ toldOf' = "connected"
      /\ cursor' = StartsAt
      /\ since' = IF ~hasCursor \/ Len(chat) < cursor THEN Len(chat) ELSE since
      /\ UNCHANGED <<chat, hour, wanted, stopped, firedFor, excused, wrong>>
    BY DEF Opens
<1>2. pass' \in Passes /\ pass'.phase = "read" /\ pass'.rows = {} /\ pass.rows = {}
    BY <1>1 DEF ChatInv, ChatTypes, CursorFits, Passes
<1>3. marker' = FALSE /\ notices' \in Nat /\ notices' <= 1
    BY ConsumeFits DEF Opens, ChatInv, ChatTypes
<1>4. Len(chat) \in Nat /\ cursor \in Nat /\ since \in Nat
    BY DEF ChatInv, ChatTypes
<1>5. CASE ~hasCursor \/ Len(chat) < cursor
  <2>1. cursor' = Len(chat) /\ since' = Len(chat)
      BY <1>1, <1>5 DEF StartsAt
  <2>2. ChatTypes' /\ NoticeFits'
      BY <1>1, <1>2, <1>3, <1>4, <2>1 DEF ChatInv, ChatTypes, NoticeFits
  <2>3. CursorFits' /\ FiredFits'
      BY <1>1, <1>2, <1>4, <2>1 DEF ChatInv, ChatTypes, CursorFits, FiredFits
  <2>4. HistoryNeverFires' /\ NothingPassedOver' /\ StaysClosed'
      BY <1>1, <1>4, <2>1 DEF ChatInv, HistoryNeverFires, NothingPassedOver, StaysClosed
  <2> QED BY <2>2, <2>3, <2>4 DEF ChatInv
<1>6. CASE ~(~hasCursor \/ Len(chat) < cursor)
  <2>1. cursor' = cursor /\ since' = since /\ hasCursor /\ cursor <= Len(chat)
      BY <1>1, <1>4, <1>6 DEF StartsAt
  <2>2. ChatTypes' /\ NoticeFits'
      BY <1>1, <1>2, <1>3, <1>4, <2>1 DEF ChatInv, ChatTypes, NoticeFits
  <2>3. CursorFits' /\ FiredFits'
      BY <1>1, <1>2, <1>4, <2>1 DEF ChatInv, ChatTypes, CursorFits, FiredFits
  <2>4. HistoryNeverFires' /\ NothingPassedOver' /\ StaysClosed'
      BY <1>1, <1>2, <2>1 DEF ChatInv, HistoryNeverFires, NothingPassedOver, StaysClosed
  <2> QED BY <2>2, <2>3, <2>4 DEF ChatInv
<1> QED BY <1>5, <1>6

LEMMA OpenDeniedKeeps == ChatInv /\ OpenDenied => ChatInv'
<1> SUFFICES ASSUME ChatInv, OpenDenied PROVE ChatInv' OBVIOUS
<1>1. /\ pass' = NoPass /\ pass.phase = "begun" /\ pass.rows = {} /\ toldOf' = "error"
      /\ UNCHANGED <<chat, hour, wanted, open, cursor, hasCursor, stopped,
                     since, firedFor, excused, wrong>>
    BY DEF OpenDenied, ChatInv, CursorFits
<1>2. marker' = FALSE /\ notices' \in Nat /\ notices' <= 1
    BY ConsumeFits DEF OpenDenied, ChatInv, ChatTypes
<1>3. ChatTypes' /\ NoticeFits'
    BY <1>1, <1>2, NoPassFits DEF ChatInv, ChatTypes, NoticeFits
<1>4. CursorFits' /\ FiredFits'
    BY <1>1, NoPassFits DEF ChatInv, ChatTypes, CursorFits, FiredFits
<1>5. HistoryNeverFires' /\ NothingPassedOver' /\ StaysClosed'
    BY <1>1, NoPassFits DEF ChatInv, HistoryNeverFires, NothingPassedOver, StaysClosed
<1> QED BY <1>3, <1>4, <1>5 DEF ChatInv

\* The steps that move the pass on, or end it, with no row in it.
LEMMA EmptyPassKeeps ==
  ASSUME ChatInv, pass.rows = {}, pass' \in Passes, pass'.rows = {},
         pass'.phase \in {"none", "read", "rows"},
         pass'.phase \in {"read", "rows"} => open \/ pass.phase = "read",
         pass'.phase = "rows" => pass'.top = Len(chat),
         open' = open \/ open' = FALSE, toldOf' = toldOf \/ toldOf' = "error",
         UNCHANGED <<chat, hour, wanted, cursor, hasCursor, stopped,
                     marker, since, firedFor, excused, notices, wrong>>
  PROVE  ChatInv'
<1>1. ChatTypes' /\ NoticeFits'
    BY DEF ChatInv, ChatTypes, NoticeFits
<1>2. CursorFits' /\ FiredFits'
    BY DEF ChatInv, ChatTypes, CursorFits, FiredFits
<1>3. HistoryNeverFires' /\ NothingPassedOver' /\ StaysClosed'
    BY DEF ChatInv, HistoryNeverFires, NothingPassedOver, StaysClosed
<1> QED BY <1>1, <1>2, <1>3 DEF ChatInv

LEMMA PassMovesKeeps == ChatInv /\ (StillOpen \/ TopRead \/ ReadFails \/ PassEnds) => ChatInv'
<1> SUFFICES ASSUME ChatInv, StillOpen \/ TopRead \/ ReadFails \/ PassEnds PROVE ChatInv'
    OBVIOUS
<1>1. pass \in Passes /\ pass.rows = {} /\ Len(chat) \in Nat
    BY DEF ChatInv, ChatTypes, CursorFits, StillOpen, TopRead, ReadFails, PassEnds
<1>2. CASE StillOpen
  <2>1. pass' \in Passes /\ pass'.rows = {} /\ pass'.phase = "read"
      BY <1>1, <1>2 DEF StillOpen, Passes
  <2> QED BY <1>1, <1>2, <2>1, EmptyPassKeeps DEF StillOpen
<1>3. CASE TopRead
  <2>1. pass' \in Passes /\ pass'.rows = {} /\ pass'.phase = "rows" /\ pass'.top = Len(chat)
      BY <1>1, <1>3 DEF TopRead, Passes
  <2> QED BY <1>1, <1>3, <2>1, EmptyPassKeeps DEF TopRead
<1>4. CASE ReadFails
    BY <1>1, <1>4, NoPassFits, EmptyPassKeeps DEF ReadFails
<1>5. CASE PassEnds
    BY <1>1, <1>5, NoPassFits, EmptyPassKeeps DEF PassEnds
<1> QED BY <1>2, <1>3, <1>4, <1>5

LEMMA RowsReadKeeps == ChatInv /\ RowsRead => ChatInv'
<1> SUFFICES ASSUME ChatInv, RowsRead PROVE ChatInv' OBVIOUS
<1> DEFINE taken == {i \in cursor + 1..pass.top : Taken(i)}
<1>1. /\ pass' = [pass EXCEPT !.phase = "dispatch", !.rows = taken] /\ cursor' = pass.top
      /\ excused' = excused \cup {i \in cursor + 1..pass.top : ~Taken(i)}
      /\ pass.phase = "rows"
      /\ UNCHANGED <<chat, hour, wanted, open, hasCursor, stopped,
                     toldOf, marker, since, firedFor, notices, wrong>>
    BY DEF RowsRead
<1>2. /\ pass \in Passes /\ pass.top \in Nat /\ cursor \in Nat /\ since \in Nat /\ Len(chat) \in Nat
      /\ cursor <= pass.top /\ pass.top <= Len(chat) /\ pass.rows = {} /\ hasCursor
      /\ since <= cursor /\ \A i \in firedFor : i \in Nat /\ i <= cursor
    BY <1>1 DEF ChatInv, ChatTypes, CursorFits, FiredFits, Passes
<1>3. taken \subseteq cursor + 1..pass.top /\ taken \subseteq Nat
    BY <1>2
<1>4. \A i \in cursor + 1..pass.top : i \in taken \/ i \in excused'
    BY <1>1
<1> HIDE DEF taken
<1>5. pass' \in Passes /\ pass'.phase = "dispatch" /\ pass'.rows = taken
    BY <1>1, <1>2, <1>3 DEF Passes
<1>6. ChatTypes' /\ NoticeFits'
    BY <1>1, <1>2, <1>5 DEF ChatInv, ChatTypes, NoticeFits
<1>7. CursorFits'
    BY <1>1, <1>2, <1>5 DEF ChatInv, CursorFits
<1>8. FiredFits'
    BY <1>1, <1>2, <1>3, <1>5 DEF ChatInv, FiredFits
<1>9. NothingPassedOver'
  <2> SUFFICES ASSUME NEW i \in since + 1..pass.top
               PROVE  i \in firedFor \/ i \in excused' \/ i \in taken
      BY <1>1, <1>5 DEF NothingPassedOver
  <2>1. CASE i <= cursor
    <3>1. i \in since + 1..cursor
        BY <1>2, <2>1
    <3> QED BY <1>1, <1>2, <3>1 DEF ChatInv, NothingPassedOver
  <2>2. CASE ~(i <= cursor)
    <3>1. i \in cursor + 1..pass.top
        BY <1>2, <2>2
    <3> QED BY <1>4, <3>1
  <2> QED BY <2>1, <2>2
<1>10. HistoryNeverFires' /\ StaysClosed'
    BY <1>1 DEF ChatInv, HistoryNeverFires, StaysClosed
<1> QED BY <1>6, <1>7, <1>8, <1>9, <1>10 DEF ChatInv

LEMMA DispatchesKeeps == ChatInv /\ Dispatches => ChatInv'
<1> SUFFICES ASSUME ChatInv, Dispatches PROVE ChatInv' OBVIOUS
<1> DEFINE i == CHOOSE i \in pass.rows : \A j \in pass.rows : i <= j
<1>1. /\ pass.phase = "dispatch" /\ pass.rows # {} /\ pass \in Passes
      /\ pass.rows \subseteq Nat
    BY DEF Dispatches, ChatInv, ChatTypes, Passes
<1>2. i \in pass.rows
  <2>1. \E n \in pass.rows : \A j \in pass.rows : n <= j
      BY <1>1, LeastRow
  <2> QED BY <2>1
<1>3. /\ pass' = [pass EXCEPT !.rows = pass.rows \ {i}]
      /\ \/ /\ firedFor' = firedFor \cup {i} /\ excused' = excused
            /\ wrong' = (wrong \/ i \in firedFor \/ i <= since)
         \/ excused' = excused \cup {i} /\ UNCHANGED <<firedFor, wrong>>
      /\ UNCHANGED <<chat, hour, wanted, open, cursor, hasCursor, stopped,
                     toldOf, marker, since, notices>>
    BY DEF Dispatches
<1> HIDE DEF i
<1>4. /\ i \in Nat /\ since < i /\ i <= cursor /\ i \notin firedFor
      /\ since \in Nat /\ cursor \in Nat /\ hasCursor /\ cursor <= Len(chat) /\ Len(chat) \in Nat
    BY <1>1, <1>2 DEF ChatInv, ChatTypes, CursorFits, FiredFits
<1>5. pass' \in Passes /\ pass'.phase = "dispatch" /\ pass'.rows = pass.rows \ {i}
    BY <1>1, <1>3 DEF Passes
<1>6. ChatTypes' /\ NoticeFits'
    BY <1>3, <1>4, <1>5 DEF ChatInv, ChatTypes, NoticeFits
<1>7. CursorFits'
    BY <1>3, <1>4, <1>5 DEF ChatInv, CursorFits
<1>8. FiredFits'
    BY <1>3, <1>4, <1>5 DEF ChatInv, ChatTypes, FiredFits
<1>9. HistoryNeverFires'
  <2>1. ~wrong /\ ~(i \in firedFor) /\ ~(i <= since)
      BY <1>4 DEF ChatInv, HistoryNeverFires
  <2>2. wrong' = (wrong \/ i \in firedFor \/ i <= since) \/ wrong' = wrong
      BY <1>3
  <2> QED BY <2>1, <2>2, Zenon DEF HistoryNeverFires
<1>10. NothingPassedOver' /\ StaysClosed'
    BY <1>3, <1>5 DEF ChatInv, NothingPassedOver, StaysClosed
<1> QED BY <1>6, <1>7, <1>8, <1>9, <1>10 DEF ChatInv

LEMMA WatcherStopsKeeps == ChatInv /\ WatcherStops => ChatInv'
<1> SUFFICES ASSUME ChatInv, WatcherStops PROVE ChatInv' OBVIOUS
<1>1. /\ stopped' = TRUE /\ open' = FALSE
      /\ UNCHANGED <<chat, hour, wanted, cursor, hasCursor, pass,
                     toldOf, marker, since, firedFor, excused, notices, wrong>>
    BY DEF WatcherStops
<1>2. ChatTypes' /\ NoticeFits'
    BY <1>1 DEF ChatInv, ChatTypes, NoticeFits
<1>3. CursorFits' /\ FiredFits'
    BY <1>1 DEF ChatInv, CursorFits, FiredFits
<1>4. HistoryNeverFires' /\ NothingPassedOver' /\ StaysClosed'
    BY <1>1 DEF ChatInv, HistoryNeverFires, NothingPassedOver, StaysClosed
<1> QED BY <1>2, <1>3, <1>4 DEF ChatInv

\* The clock, the access and the triggers: nothing the watcher keeps changes.
LEMMA WorldKeeps ==
  ASSUME ChatInv, hour' \in Nat, wanted' \subseteq Senders,
         UNCHANGED <<chat, open, cursor, hasCursor, pass, stopped,
                     toldOf, marker, since, firedFor, excused, notices, wrong>>
  PROVE  ChatInv'
  BY DEF ChatInv, ChatTypes, CursorFits, FiredFits, NoticeFits,
         HistoryNeverFires, NothingPassedOver, StaysClosed

LEMMA ChatKeeps == ChatInv /\ [ChatNext]_chatVars => ChatInv'
<1> SUFFICES ASSUME ChatInv, [ChatNext]_chatVars PROVE ChatInv' OBVIOUS
<1>1. hour \in Nat /\ wanted \subseteq Senders
    BY DEF ChatInv, ChatTypes
<1>2. CASE HourPasses
    BY <1>1, <1>2, WorldKeeps DEF HourPasses
<1>3. CASE AccessFlips
    BY <1>1, <1>3, WorldKeeps DEF AccessFlips
<1>4. CASE \E s \in Senders : Wants(s)
    BY <1>1, <1>4, WorldKeeps DEF Wants
<1>5. CASE UNCHANGED chatVars
    BY <1>1, <1>5, WorldKeeps DEF chatVars
<1> QED BY <1>2, <1>3, <1>4, <1>5, ArrivesKeeps, ReplacedKeeps, PassBeginsKeeps, WatcherGoesKeeps,
           OpensKeeps, OpenDeniedKeeps, PassMovesKeeps, RowsReadKeeps, DispatchesKeeps,
           WatcherStopsKeeps
    DEF ChatNext

-----------------------------------------------------------------------------
(***************************************************************************)
(* App launches.  A launch that has not been forgotten has at most one        *)
(* request at work, and what that request has still to fire has not fired.    *)
(***************************************************************************)
LaunchRequests == [of : LaunchIds, n : Nat, todo : SUBSET Starters]

LaunchTypes ==
  /\ served \in Seq(LaunchIds) /\ requests \subseteq LaunchRequests
  /\ starts \in [LaunchIds \X Starters -> Nat] /\ sends \in Nat

Known(l) == l \in Range(served) \/ l \in crowded

LaunchesFit ==
  /\ \A r \in requests : Known(r.of)
  /\ \A r, q \in requests : r.of = q.of /\ r.of \notin crowded => r = q
  /\ \A l \in LaunchIds, a \in Starters :
        /\ starts[<<l, a>>] # 0 => Known(l)
        /\ l \notin crowded => starts[<<l, a>>] <= 1
  /\ \A r \in requests : \A a \in r.todo : r.of \notin crowded => starts[<<r.of, a>>] = 0

LaunchInv == LaunchTypes /\ LaunchesFit

LEMMA LaunchInvGives == LaunchInv => LaunchStartsOnce
  BY DEF LaunchInv, LaunchesFit, LaunchStartsOnce

LEMMA LaunchStarts == LaunchInit => LaunchInv
  BY DEF LaunchInit, LaunchInv, LaunchTypes, LaunchesFit

\* What the memory drops is counted as crowded out, so nothing becomes unknown.
LEMMA MemoryKeeps ==
  ASSUME NEW s \in Seq(LaunchIds), NEW l \in LaunchIds
  PROVE  /\ Recent(Append(s, l)) \in Seq(LaunchIds)
         /\ Range(Append(s, l)) = Range(s) \cup {l}
<1>1. Append(s, l) \in Seq(LaunchIds) /\ Append(s, l) # <<>>
  <2>1. Append(s, l) \in Seq(LaunchIds) /\ Len(Append(s, l)) = Len(s) + 1 /\ Len(s) \in Nat
      OBVIOUS
  <2>2. Len(Append(s, l)) # 0
      BY <2>1
  <2> QED BY <2>1, <2>2
<1>2. Tail(Append(s, l)) \in Seq(LaunchIds)
    BY <1>1
<1>3. Recent(Append(s, l)) \in Seq(LaunchIds)
    BY <1>1, <1>2 DEF Recent
<1>4. Range(Append(s, l)) = Range(s) \cup {l}
  <2>1. DOMAIN s = 1..Len(s) /\ Len(s) \in Nat /\ DOMAIN Append(s, l) = 1..(Len(s) + 1)
        /\ Append(s, l)[Len(s) + 1] = l /\ \A i \in 1..Len(s) : Append(s, l)[i] = s[i]
      OBVIOUS
  <2>2. ASSUME NEW x \in Range(Append(s, l)) PROVE x \in Range(s) \cup {l}
    <3>1. PICK i \in 1..(Len(s) + 1) : x = Append(s, l)[i]
        BY <2>1 DEF Range
    <3>2. CASE i = Len(s) + 1
        BY <2>1, <3>1, <3>2
    <3>3. CASE i # Len(s) + 1
      <4>1. i \in 1..Len(s)
          BY <2>1, <3>3
      <4> QED BY <2>1, <3>1, <4>1 DEF Range
    <3> QED BY <3>2, <3>3
  <2>3. ASSUME NEW x \in Range(s) PROVE x \in Range(Append(s, l))
    <3>1. PICK i \in 1..Len(s) : x = s[i]
        BY <2>1 DEF Range
    <3>2. i \in 1..(Len(s) + 1) /\ Append(s, l)[i] = x
        BY <2>1, <3>1
    <3> QED BY <2>1, <3>2 DEF Range
  <2>4. l \in Range(Append(s, l))
    <3>1. Len(s) + 1 \in 1..(Len(s) + 1)
        BY <2>1
    <3> QED BY <2>1, <3>1 DEF Range
  <2> QED BY <2>2, <2>3, <2>4
<1> QED BY <1>3, <1>4

LEMMA ArriveKeeps ==
  \A l \in LaunchIds, dropped \in BOOLEAN : LaunchInv /\ Arrive(l, dropped) => LaunchInv'
<1> SUFFICES ASSUME NEW l \in LaunchIds, NEW dropped \in BOOLEAN, LaunchInv, Arrive(l, dropped)
             PROVE  LaunchInv'
    OBVIOUS
<1>1. sends' = sends + 1 /\ starts' = starts /\ served \in Seq(LaunchIds) /\ sends \in Nat
    BY DEF Arrive, LaunchInv, LaunchTypes
<1>2. CASE Served(l)
  <2>1. UNCHANGED <<served, requests, crowded>>
      BY <1>2 DEF Arrive
  <2> QED BY <1>1, <2>1 DEF LaunchInv, LaunchTypes, LaunchesFit, Known
<1>3. CASE ~Served(l)
  <2> DEFINE all == Append(served, l)
             new == [of |-> l, n |-> sends + 1, todo |-> Starters]
  <2>1. /\ served' = Recent(all) /\ requests' = requests \cup {new}
        /\ crowded' = crowded \cup (Range(all) \ Range(served'))
      BY <1>3 DEF Arrive
  <2>2. served' \in Seq(LaunchIds) /\ Range(all) = Range(served) \cup {l}
      BY <1>1, <2>1, MemoryKeeps
  <2>3. new \in LaunchRequests /\ new.of = l /\ new.todo = Starters
      BY <1>1 DEF LaunchRequests
  <2>4. l \notin Range(served)
    <3>1. DOMAIN served = 1..Len(served)
        BY <1>1
    <3> QED BY <1>3, <3>1 DEF Served, Contains, Range
  <2> HIDE DEF all, new
  <2>5. LaunchTypes'
      BY <1>1, <2>1, <2>2, <2>3 DEF LaunchInv, LaunchTypes
  <2>6. Known(l)' /\ \A k : Known(k) => Known(k)'
      BY <2>1, <2>2 DEF Known
  <2>7. \A k : k \notin crowded' => k \notin crowded
      BY <2>1
  <2>8. l \notin crowded =>
          /\ \A r \in requests : r.of # l
          /\ \A a \in Starters : starts[<<l, a>>] = 0
      BY <2>4 DEF LaunchInv, LaunchTypes, LaunchesFit, Known
  <2>9. \A r \in requests' : Known(r.of)'
      BY <2>1, <2>3, <2>6 DEF LaunchInv, LaunchesFit
  <2>10. \A r, q \in requests' : r.of = q.of /\ r.of \notin crowded' => r = q
      BY <2>1, <2>3, <2>7, <2>8 DEF LaunchInv, LaunchesFit
  <2>11. \A k \in LaunchIds, a \in Starters :
           /\ starts'[<<k, a>>] # 0 => Known(k)'
           /\ k \notin crowded' => starts'[<<k, a>>] <= 1
      BY <1>1, <2>6, <2>7 DEF LaunchInv, LaunchesFit
  <2>12. \A r \in requests' : \A a \in r.todo : r.of \notin crowded' => starts'[<<r.of, a>>] = 0
      BY <1>1, <2>1, <2>3, <2>7, <2>8 DEF LaunchInv, LaunchesFit
  <2> QED BY <2>5, <2>9, <2>10, <2>11, <2>12 DEF LaunchInv, LaunchesFit
<1> QED BY <1>2, <1>3

LEMMA FireStarterKeeps ==
  ASSUME LaunchInv, NEW r \in requests, NEW a \in Starters, NEW fails, FireStarter(r, a, fails)
  PROVE  LaunchInv'
<1> DEFINE less == [r EXCEPT !.todo = r.todo \ {a}]
<1>1. /\ a \in r.todo /\ requests' = (requests \ {r}) \cup {less}
      /\ starts' = starts \/ starts' = [starts EXCEPT ![<<r.of, a>>] = starts[<<r.of, a>>] + 1]
      /\ UNCHANGED <<served, sends, crowded>>
    BY DEF FireStarter
<1>2. r \in LaunchRequests /\ r.of \in LaunchIds /\ Known(r.of)
    BY DEF LaunchInv, LaunchTypes, LaunchRequests, LaunchesFit
<1>3. less \in LaunchRequests /\ less.of = r.of /\ less.todo = r.todo \ {a}
    BY <1>2 DEF LaunchRequests
<1> HIDE DEF less
<1>4. starts' \in [LaunchIds \X Starters -> Nat]
  <2> DEFINE p == <<r.of, a>>
  <2>1. p \in LaunchIds \X Starters
      BY <1>2
  <2>2. starts' = starts \/ starts' = [starts EXCEPT ![p] = starts[p] + 1]
      BY <1>1
  <2> HIDE DEF p
  <2> QED BY <2>1, <2>2 DEF LaunchInv, LaunchTypes
<1>5. LaunchTypes'
    BY <1>1, <1>3, <1>4 DEF LaunchInv, LaunchTypes
<1>6. \A k \in LaunchIds, b \in Starters :
        starts'[<<k, b>>] = starts[<<k, b>>]
        \/ (k = r.of /\ b = a /\ starts'[<<k, b>>] = starts[<<k, b>>] + 1)
    BY <1>1, <1>2 DEF LaunchInv, LaunchTypes
<1>7. r.of \notin crowded => starts[<<r.of, a>>] = 0
    BY <1>1 DEF LaunchInv, LaunchesFit
<1>8. \A k : Known(k)' <=> Known(k)
    BY <1>1 DEF Known
<1>9. \A q \in requests' : Known(q.of)'
    BY <1>1, <1>2, <1>3, <1>8 DEF LaunchInv, LaunchesFit
<1>10. \A p, q \in requests' : p.of = q.of /\ p.of \notin crowded' => p = q
    BY <1>1, <1>3 DEF LaunchInv, LaunchesFit
<1>11. ASSUME NEW k \in LaunchIds, NEW b \in Starters
       PROVE  /\ starts'[<<k, b>>] # 0 => Known(k)'
              /\ k \notin crowded' => starts'[<<k, b>>] <= 1
  <2>1. starts[<<k, b>>] \in Nat
      BY DEF LaunchInv, LaunchTypes
  <2>2. /\ starts[<<k, b>>] # 0 => Known(k)
        /\ k \notin crowded => starts[<<k, b>>] <= 1
      BY DEF LaunchInv, LaunchesFit
  <2>3. CASE starts'[<<k, b>>] = starts[<<k, b>>]
      BY <1>1, <1>8, <2>2, <2>3
  <2>4. CASE k = r.of /\ b = a /\ starts'[<<k, b>>] = starts[<<k, b>>] + 1
      BY <1>1, <1>2, <1>7, <1>8, <2>1, <2>4
  <2> QED BY <1>6, <2>3, <2>4
<1>12. ASSUME NEW q \in requests', NEW b \in q.todo, q.of \notin crowded'
       PROVE  starts'[<<q.of, b>>] = 0
  <2>1. q \in LaunchRequests /\ q.of \in LaunchIds /\ b \in Starters
      BY <1>5 DEF LaunchTypes, LaunchRequests
  <2>2. CASE q = less
    <3>1. q.of = r.of /\ b \in r.todo /\ b # a
        BY <1>3, <2>2
    <3>2. starts[<<q.of, b>>] = 0
        BY <1>1, <1>12, <3>1 DEF LaunchInv, LaunchesFit
    <3> QED BY <1>6, <2>1, <3>1, <3>2
  <2>3. CASE q # less
    <3>1. q \in requests /\ q # r
        BY <1>1, <2>3
    <3>2. q.of # r.of /\ starts[<<q.of, b>>] = 0
        BY <1>1, <1>12, <3>1 DEF LaunchInv, LaunchesFit
    <3> QED BY <1>6, <2>1, <3>2
  <2> QED BY <2>2, <2>3
<1> QED BY <1>5, <1>9, <1>10, <1>11, <1>12 DEF LaunchInv, LaunchesFit

LEMMA LaunchKeeps == LaunchInv /\ [LaunchNext]_launchVars => LaunchInv'
<1> SUFFICES ASSUME LaunchInv, [LaunchNext]_launchVars PROVE LaunchInv' OBVIOUS
<1>1. CASE \E r \in requests : \E dropped \in BOOLEAN : Reply(r, dropped)
  <2>1. requests' \subseteq requests /\ UNCHANGED <<served, starts, sends, crowded>>
      BY <1>1 DEF Reply
  <2>2. \A k : Known(k)' <=> Known(k)
      BY <2>1 DEF Known
  <2> QED BY <2>1, <2>2 DEF LaunchInv, LaunchTypes, LaunchesFit
<1>2. CASE (\E a \in Starters : Switch(a)) \/ UNCHANGED launchVars
    BY <1>2 DEF Switch, launchVars, LaunchInv, LaunchTypes, LaunchesFit, Known
<1> QED BY <1>1, <1>2, ArriveKeeps, FireStarterKeeps DEF LaunchNext

-----------------------------------------------------------------------------
(***************************************************************************)
(* What a trigger's text means: fields, lengths and badges, each for any      *)
(* length of field, any schedule and any zone.                               *)
(***************************************************************************)
TextInv ==
  /\ field \in Seq(Items)
  /\ parts = NoText \/ parts \in Lengths
  /\ badge = NoText \/ badge \in BadgeStarts

LEMMA TextKeeps == (TextInit => TextInv) /\ (TextInv /\ [TextNext]_textVars => TextInv')
<1>1. TextInit => TextInv
    BY DEF TextInit, TextInv
<1>2. ASSUME TextInv, TextNext PROVE TextInv'
  <2>1. PICK item \in Items : ItemTyped(item)
      BY <1>2 DEF TextNext
  <2>2. field \in Seq(Items) /\ field' = Append(field, item) /\ parts' = parts /\ badge' = badge
      BY <1>2, <2>1 DEF ItemTyped, TextInv
  <2>3. field' \in Seq(Items)
    <3> HIDE DEF Items
    <3> QED BY <2>2
  <2> QED BY <1>2, <2>2, <2>3 DEF TextInv
<1>3. TextInv /\ UNCHANGED textVars => TextInv'
    BY DEF TextInv, textVars
<1> QED BY <1>1, <1>2, <1>3

\* A stepped bare number a released version stored becomes the range it fired.
LEMMA LegacyItem ==
  ASSUME NEW item \in Items, ReleasedOk(item), NEW new,
         new = IF item.form = "one" /\ item.step # 0
               THEN [form |-> "range", a |-> item.a, b |-> Hi, step |-> item.step] ELSE item
  PROVE  ItemOk(new, 0, Hi) /\ ItemValues(new, 0, Hi) = ReleasedValues(item)
<1>1. Hi \in Nat
    BY TextAssumption DEF TextAssumption
<1>2. CASE item.form = "one" /\ item.step # 0
  <2>1. item.a \in 0..Hi
      BY <1>1, <1>2 DEF Items, ReleasedOk, ItemOk
  <2>2. new = [form |-> "range", a |-> item.a, b |-> Hi, step |-> item.step]
      BY <1>2
  <2>3. ItemOk(new, 0, Hi)
      BY <1>1, <2>1, <2>2 DEF ItemOk
  <2>4. ItemValues(new, 0, Hi) = {n \in item.a..Hi : (n - item.a) % item.step = 0}
      BY <1>2, <2>2 DEF ItemValues
  <2> QED BY <1>2, <2>3, <2>4 DEF ReleasedValues
<1>3. CASE ~(item.form = "one" /\ item.step # 0)
  <2>1. new = item
      BY <1>3
  <2>2. ItemOk(item, 0, Hi)
    <3>1. CASE item.form = "one"
        BY <1>3, <3>1 DEF ReleasedOk, ItemOk, Items
    <3>2. CASE item.form # "one"
        BY <3>2 DEF ReleasedOk
    <3> QED BY <3>1, <3>2
  <2> QED BY <1>3, <2>1, <2>2 DEF ReleasedValues
<1> QED BY <1>2, <1>3

LEMMA FieldsKeepFiring == TextInv => LegacyFieldsKeepFiring
<1> DEFINE old == Legacy(field, Hi)
<1> SUFFICES ASSUME TextInv, field # <<>>, {i \in DOMAIN field : ReleasedOk(field[i])} = DOMAIN field
             PROVE  /\ FieldOk(old, 0, Hi)
                    /\ FieldValues(old, 0, Hi) = UNION {ReleasedValues(field[i]) : i \in DOMAIN field}
                    /\ FieldOk(field, 0, Hi) => old = field
    BY DEF LegacyFieldsKeepFiring
<1>1. /\ field \in Seq(Items) /\ \A i \in DOMAIN field : ReleasedOk(field[i]) /\ field[i] \in Items
      /\ DOMAIN field = 1..Len(field) /\ Len(field) \in Nat /\ Len(field) # 0
  <2> HIDE DEF Items
  <2> QED BY DEF TextInv
<1>2. old = [i \in DOMAIN field |-> IF field[i].form = "one" /\ field[i].step # 0
                THEN [form |-> "range", a |-> field[i].a, b |-> Hi, step |-> field[i].step]
                ELSE field[i]]
    BY DEF Legacy
<1> HIDE DEF old
<1>3. DOMAIN old = DOMAIN field
    BY <1>2
<1>4. \A i \in DOMAIN field :
        ItemOk(old[i], 0, Hi) /\ ItemValues(old[i], 0, Hi) = ReleasedValues(field[i])
  <2> TAKE i \in DOMAIN field
  <2>1. field[i] \in Items /\ ReleasedOk(field[i])
      BY <1>1
  <2>2. old[i] = IF field[i].form = "one" /\ field[i].step # 0
                 THEN [form |-> "range", a |-> field[i].a, b |-> Hi, step |-> field[i].step]
                 ELSE field[i]
      BY <1>2
  <2> QED BY <2>1, <2>2, LegacyItem
<1>5. old # <<>>
    BY <1>1, <1>3
<1>6. FieldOk(old, 0, Hi)
    BY <1>3, <1>4, <1>5 DEF FieldOk
<1>7. FieldValues(old, 0, Hi) = UNION {ReleasedValues(field[i]) : i \in DOMAIN field}
    BY <1>3, <1>4 DEF FieldValues
<1>8. ASSUME FieldOk(field, 0, Hi) PROVE old = field
  <2>1. \A i \in DOMAIN field : old[i] = field[i]
      BY <1>2, <1>8 DEF FieldOk, ItemOk
  <2>2. old = [i \in DOMAIN field |-> field[i]]
      BY <1>2, <2>1
  <2>3. field = [i \in DOMAIN field |-> field[i]]
    <3> HIDE DEF Items
    <3> QED BY <1>1
  <2> QED BY <2>2, <2>3
<1> QED BY <1>6, <1>7, <1>8

LEMMA CanonicalKeeps ==
  ASSUME NEW ps \in [1..4 -> Nat], DurationOk(ps)
  PROVE  /\ Canonical(ps) \in [1..4 -> Nat] /\ Seconds(Canonical(ps)) = Seconds(ps)
         /\ \E u \in 1..4 : {i \in 1..4 : Canonical(ps)[i] # 0} = {u}
<1> DEFINE s == Seconds(ps)  u == CanonicalUnit(s)  c == Canonical(ps)
           whole == {i \in 1..4 : s % Units[i] = 0}
<1>1. s \in Nat /\ s > 0 /\ s = ps[1] * 86400 + ps[2] * 3600 + ps[3] * 60 + ps[4]
  <2>1. ps[1] \in Nat /\ ps[2] \in Nat /\ ps[3] \in Nat /\ ps[4] \in Nat
      OBVIOUS
  <2>2. s = ps[1] * 86400 + ps[2] * 3600 + ps[3] * 60 + ps[4]
      BY <2>1 DEF Seconds, Units
  <2>3. s \in 15..IntervalMax
      BY DEF DurationOk, IntervalMin
  <2>4. IntervalMax \in Int
      BY DEF IntervalMax
  <2> HIDE DEF s, IntervalMax
  <2> QED BY <2>2, <2>3, <2>4
<1>2. c = [i \in 1..4 |-> IF i = u THEN s \div Units[u] ELSE 0]
    BY DEF Canonical
<1>3. u \in 1..4 /\ s % Units[u] = 0
  <2> HIDE DEF s
  <2>1. 4 \in whole /\ whole \subseteq Nat
      BY <1>1 DEF Units
  <2>2. \E n \in whole : \A j \in whole : n <= j
    <3> HIDE DEF whole
    <3> QED BY <2>1, LeastRow
  <2>3. u = Min(whole)
      BY DEF CanonicalUnit
  <2>4. Min(whole) \in whole
    <3> HIDE DEF whole
    <3> QED BY <2>2 DEF Min
  <2> QED BY <2>3, <2>4
<1> HIDE DEF s, u, c
<1>4. c[1] * 86400 + c[2] * 3600 + c[3] * 60 + c[4] = s /\ c[u] # 0 /\ c[u] \in Nat
  <2>1. CASE u = 1
    <3>1. s % 86400 = 0
        BY <1>3, <2>1 DEF Units
    <3>2. \A m \in Nat : m > 0 /\ m % 86400 = 0 => (m \div 86400) * 86400 = m /\ m \div 86400 \in Nat /\ m \div 86400 # 0
        OBVIOUS
    <3>3. c[1] = s \div 86400 /\ \A i \in 1..4 : i # 1 => c[i] = 0
        BY <1>2, <2>1 DEF Units
    <3>4. c[1] * 86400 = s /\ c[1] \in Nat /\ c[1] # 0
        BY <1>1, <3>1, <3>2, <3>3
    <3> QED BY <2>1, <3>3, <3>4
  <2>2. CASE u = 2
    <3>1. s % 3600 = 0
        BY <1>3, <2>2 DEF Units
    <3>2. \A m \in Nat : m > 0 /\ m % 3600 = 0 => (m \div 3600) * 3600 = m /\ m \div 3600 \in Nat /\ m \div 3600 # 0
        OBVIOUS
    <3>3. c[2] = s \div 3600 /\ \A i \in 1..4 : i # 2 => c[i] = 0
        BY <1>2, <2>2 DEF Units
    <3>4. c[2] * 3600 = s /\ c[2] \in Nat /\ c[2] # 0
        BY <1>1, <3>1, <3>2, <3>3
    <3> QED BY <2>2, <3>3, <3>4
  <2>3. CASE u = 3
    <3>1. s % 60 = 0
        BY <1>3, <2>3 DEF Units
    <3>2. \A m \in Nat : m > 0 /\ m % 60 = 0 => (m \div 60) * 60 = m /\ m \div 60 \in Nat /\ m \div 60 # 0
        OBVIOUS
    <3>3. c[3] = s \div 60 /\ \A i \in 1..4 : i # 3 => c[i] = 0
        BY <1>2, <2>3 DEF Units
    <3>4. c[3] * 60 = s /\ c[3] \in Nat /\ c[3] # 0
        BY <1>1, <3>1, <3>2, <3>3
    <3> QED BY <2>3, <3>3, <3>4
  <2>4. CASE u = 4
      BY <1>1, <1>2, <2>4 DEF Units
  <2> QED BY <1>3, <2>1, <2>2, <2>3, <2>4
<1>5. \A i \in 1..4 : i # u => c[i] = 0
    BY <1>2
<1>6. c \in [1..4 -> Nat]
    BY <1>2, <1>4, <1>5
<1>7. Seconds(c) = c[1] * 86400 + c[2] * 3600 + c[3] * 60 + c[4]
  <2>1. c[1] \in Nat /\ c[2] \in Nat /\ c[3] \in Nat /\ c[4] \in Nat
      BY <1>6
  <2> QED BY <2>1 DEF Seconds, Units
<1>8. {i \in 1..4 : c[i] # 0} = {u}
    BY <1>3, <1>4, <1>5
<1>9. c \in [1..4 -> Nat] /\ Seconds(c) = s /\ \E v \in 1..4 : {i \in 1..4 : c[i] # 0} = {v}
  <2>1. Seconds(c) = s
      BY <1>4, <1>7
  <2>2. \E v \in 1..4 : {i \in 1..4 : c[i] # 0} = {v}
      BY <1>3, <1>8
  <2> QED BY <1>6, <2>1, <2>2
<1> QED BY <1>9 DEF c, s

LEMMA LengthsKeep == TextInv => LengthsKeepTheirSeconds
<1> SUFFICES ASSUME TextInv, parts # NoText, DurationOk(parts)
             PROVE  /\ Seconds(Canonical(parts)) = Seconds(parts)
                    /\ Cardinality({i \in 1..4 : Canonical(parts)[i] # 0}) = 1
                    /\ Canonical(Canonical(parts)) = Canonical(parts)
    BY DEF LengthsKeepTheirSeconds
<1>1. parts \in [1..4 -> Nat]
    BY TextAssumption DEF TextAssumption, TextInv
<1>2. Seconds(Canonical(parts)) = Seconds(parts)
    BY <1>1, CanonicalKeeps
<1>3. PICK u \in 1..4 : {i \in 1..4 : Canonical(parts)[i] # 0} = {u}
    BY <1>1, CanonicalKeeps
<1>4. Cardinality({u}) = 1
    BY FS_Singleton
<1>5. Canonical(Canonical(parts)) = Canonical(parts)
    BY <1>2 DEF Canonical
<1> QED BY <1>2, <1>3, <1>4, <1>5

LEMMA LeastIsOne == ASSUME NEW S, S \subseteq Nat, S # {} PROVE Min(S) \in S
  BY LeastRow DEF Min

\* The next moment of a cron is one of its moments, and a later one.
LEMMA NextIsMoment ==
  ASSUME NEW z \in BadgeZones, NEW W, W \subseteq Nat, NEW after \in Int,
         CronNext(z, W, after) # NoTime
  PROVE  /\ CronNext(z, W, after) \in Instants(z) /\ CronNext(z, W, after) > after
         /\ \E w \in W : CronNext(z, W, after) \in Moments(z, w)
<1> DEFINE ws == {w \in W : w > Wall(z, after) /\ ReadingAfter(z, w, after) # NoTime}
           w == Min(ws)
           later == {u \in Moments(z, w) : u > after}
<1>1. ws # {} /\ CronNext(z, W, after) = ReadingAfter(z, w, after)
    BY DEF CronNext
<1>2. w \in ws
  <2>1. ws \subseteq Nat
      OBVIOUS
  <2> HIDE DEF ws
  <2> QED BY <1>1, <2>1, LeastIsOne
<1>3. w \in W /\ ReadingAfter(z, w, after) # NoTime
    BY <1>2
<1> HIDE DEF ws, w
<1>4. Moments(z, w) \subseteq Instants(z)
    BY DEF Moments, Readings, Shifted, Instants
<1>5. Instants(z) \subseteq Nat
    BY TextAssumption DEF TextAssumption
<1>6. later # {} /\ ReadingAfter(z, w, after) = Min(later)
    BY <1>3 DEF ReadingAfter
<1>7. Min(later) \in later
  <2>1. later \subseteq Nat
      BY <1>4, <1>5
  <2> HIDE DEF later
  <2> QED BY <1>6, <2>1, LeastIsOne
<1> QED BY <1>1, <1>3, <1>4, <1>6, <1>7

\* What the badge starts from is the later of what is known.
LEMMA BadgeStart ==
  ASSUME badge \in BadgeStarts, LastSeen \in Nat, badge.now # 0
  PROVE  Anchor(badge.stamp, badge.ran, NoTime, badge.now, badge.now) = LastSeen
<1>1. /\ badge.stamp \in {NoTime, 1} /\ badge.ran \in {NoTime, 0, 1, 2}
      /\ badge.now \in Nat /\ badge.now >= 1
    BY TextAssumption DEF BadgeStarts, TextAssumption
<1>2. /\ Credible(badge.stamp, badge.now, badge.now) = badge.stamp
      /\ Credible(badge.ran, badge.now, badge.now) = badge.ran
    BY <1>1 DEF Credible, NoTime
<1>3. {badge.stamp, badge.ran} \ {NoTime} # {}
    BY DEF LastSeen, NoTime
<1> QED BY <1>2, <1>3 DEF Anchor, LastSeen

\* What is_overdue looks at: the two moments after the start.
LEMMA BadgeMoments ==
  ASSUME badge \in BadgeStarts, LastSeen \in Nat
  PROVE  \E origin \in Int :
           LET next(after) == NextOccurrence(badge.of, badge.zone, after, badge.stamp, badge.ran,
                                             badge.now, badge.now)
           IN /\ origin = Anchor(badge.stamp, badge.ran, NoTime, badge.now, badge.now)
              /\ badge.now # 0 => origin = LastSeen
              /\ origin = NoTime \/ origin \in Nat
              /\ Overdue(badge.of, badge.zone, badge.stamp, badge.ran, badge.now, badge.now) <=>
                   /\ origin # NoTime /\ next(origin) # NoTime /\ next(origin) \in DOMAIN badge.zone
                   /\ next(next(origin)) # NoTime /\ next(next(origin)) < badge.now
<1> DEFINE origin == Anchor(badge.stamp, badge.ran, NoTime, badge.now, badge.now)
<1>1. badge.stamp \in {NoTime, 1} /\ badge.ran \in {NoTime, 0, 1, 2} /\ badge.of \in Badged
    BY DEF BadgeStarts
<1>2. origin \in {NoTime, 0, 1, 2}
  <2> DEFINE S == {Credible(badge.stamp, badge.now, badge.now),
                   Credible(badge.ran, badge.now, badge.now)} \ {NoTime}
  <2>1. S \subseteq {0, 1, 2}
      BY <1>1 DEF Credible
  <2>2. S # {} => Max(S) \in S
    <3>1. CASE 2 \in S
        BY <2>1, <3>1 DEF Max
    <3>2. CASE 2 \notin S /\ 1 \in S
        BY <2>1, <3>2 DEF Max
    <3>3. CASE 2 \notin S /\ 1 \notin S
        BY <2>1, <3>3 DEF Max
    <3> QED BY <3>1, <3>2, <3>3
  <2> QED BY <2>1, <2>2 DEF Anchor
<1>3. badge.now # 0 => origin = LastSeen
    BY BadgeStart
<1>4. badge.of.kind \in {"cron", "interval"} /\ badge.of.missed = TRUE
    BY <1>1, TextAssumption DEF TextAssumption
<1>5. origin \in Int /\ (origin = NoTime \/ origin \in Nat)
    BY <1>2 DEF NoTime
<1>6. Overdue(badge.of, badge.zone, badge.stamp, badge.ran, badge.now, badge.now) <=>
        LET next(after) == NextOccurrence(badge.of, badge.zone, after, badge.stamp, badge.ran,
                                          badge.now, badge.now)
        IN /\ origin # NoTime /\ next(origin) # NoTime /\ next(origin) \in DOMAIN badge.zone
           /\ next(next(origin)) # NoTime /\ next(next(origin)) < badge.now
    BY <1>4 DEF Overdue
<1> HIDE DEF origin
<1> QED BY <1>3, <1>5, <1>6 DEF origin

LEMMA CronBadge ==
  ASSUME badge \in BadgeStarts, LastSeen \in Nat, badge.of.kind = "cron",
         Overdue(badge.of, badge.zone, badge.stamp, badge.ran, badge.now, badge.now)
  PROVE  Cardinality(MomentsBetween) >= 2
<1> DEFINE next(after) == NextOccurrence(badge.of, badge.zone, after, badge.stamp, badge.ran,
                                         badge.now, badge.now)
<1>1. /\ badge.of \in Badged /\ badge.zone \in BadgeZones /\ badge.of.at \subseteq Nat
      /\ BadgeZone \in BadgeZones /\ badge.now \in Nat
  <2>1. \E z \in BadgeZones : badge.zone = z /\ badge.of \in Badged /\ badge.now \in Instants(z)
      BY DEF BadgeStarts
  <2>2. badge.of.zoned \subseteq BadgeZones /\ badge.of.at \subseteq Nat
      BY <2>1, TextAssumption DEF TextAssumption
  <2> QED BY <2>1, <2>2, TextAssumption DEF BadgeZone, TextAssumption
<1>2. \A after : next(after) = CronNext(BadgeZone, badge.of.at, after)
    BY DEF NextOccurrence, BadgeZone
<1>3. PICK origin \in Int :
        /\ badge.now # 0 => origin = LastSeen
        /\ origin = NoTime \/ origin \in Nat
        /\ origin # NoTime /\ next(origin) # NoTime
        /\ next(next(origin)) # NoTime /\ next(next(origin)) < badge.now
    BY BadgeMoments
<1> DEFINE first == next(origin)  second == next(first)
<1>4. /\ first \in Instants(BadgeZone) /\ first > origin
      /\ \E w \in badge.of.at : first \in Moments(BadgeZone, w)
  <2> HIDE DEF next
  <2> QED BY <1>1, <1>2, <1>3, NextIsMoment
<1>5. first \in Nat
    BY <1>1, <1>4, TextAssumption DEF TextAssumption
<1>6. /\ second \in Instants(BadgeZone) /\ second > first
      /\ \E w \in badge.of.at : second \in Moments(BadgeZone, w)
  <2> HIDE DEF next
  <2> QED BY <1>1, <1>2, <1>3, <1>5, NextIsMoment
<1>7. second \in Nat
    BY <1>1, <1>6, TextAssumption DEF TextAssumption
<1> HIDE DEF next
<1>8. origin = LastSeen /\ second < badge.now
    BY <1>1, <1>3, <1>7
<1> HIDE DEF first, second
<1>9. first \in MomentsBetween /\ second \in MomentsBetween /\ first # second
  <2>1. first \in LastSeen + 1..badge.now - 1 /\ second \in LastSeen + 1..badge.now - 1
      BY <1>1, <1>4, <1>5, <1>6, <1>7, <1>8
  <2>2. first # second
      BY <1>5, <1>6, <1>7
  <2> QED BY <1>4, <1>6, <2>1, <2>2 DEF MomentsBetween
<1>10. IsFiniteSet(MomentsBetween)
  <2>1. IsFiniteSet(LastSeen + 1..badge.now - 1)
      BY <1>1, FS_Interval
  <2>2. MomentsBetween \subseteq LastSeen + 1..badge.now - 1
      BY DEF MomentsBetween
  <2> QED BY <2>1, <2>2, FS_Subset
<1>11. Cardinality({first, second}) = 2
  <2>1. Cardinality({first}) = 1 /\ IsFiniteSet({first})
      BY FS_Singleton
  <2>2. second \notin {first} /\ {first} \cup {second} = {first, second}
      BY <1>9
  <2>3. Cardinality({first} \cup {second}) = Cardinality({first}) + 1
      BY <2>1, <2>2, FS_AddElement
  <2> QED BY <2>1, <2>2, <2>3
<1>12. Cardinality({first, second}) <= Cardinality(MomentsBetween)
    BY <1>9, <1>10, FS_Subset
<1> QED BY <1>10, <1>11, <1>12, FS_CardinalityType

LEMMA IntervalBadge ==
  ASSUME badge \in BadgeStarts, LastSeen \in Instants(badge.zone), badge.of.kind # "cron"
  PROVE  Overdue(badge.of, badge.zone, badge.stamp, badge.ran, badge.now, badge.now)
           <=> \A e \in badge.of.at : LastSeen + 2 * e < badge.now
<1> DEFINE next(after) == NextOccurrence(badge.of, badge.zone, after, badge.stamp, badge.ran,
                                         badge.now, badge.now)
<1>1. /\ badge.of \in Badged /\ badge.zone \in BadgeZones /\ badge.now \in Instants(badge.zone)
      /\ badge.stamp \in {NoTime, 1} /\ badge.ran \in {NoTime, 0, 1, 2}
    BY DEF BadgeStarts
<1>2. /\ LastSeen \in Nat /\ badge.now \in Nat /\ 0..badge.now \subseteq Instants(badge.zone)
      /\ badge.of.kind = "interval"
    BY <1>1, TextAssumption DEF TextAssumption
<1>3. PICK e \in Nat : e > 0 /\ badge.of.at = {e}
    BY <1>1, <1>2, TextAssumption DEF TextAssumption
<1>4. PICK origin \in Int :
        /\ origin = Anchor(badge.stamp, badge.ran, NoTime, badge.now, badge.now)
        /\ badge.now # 0 => origin = LastSeen
        /\ origin = NoTime \/ origin \in Nat
        /\ Overdue(badge.of, badge.zone, badge.stamp, badge.ran, badge.now, badge.now) <=>
             /\ origin # NoTime /\ next(origin) # NoTime /\ next(origin) \in DOMAIN badge.zone
             /\ next(next(origin)) # NoTime /\ next(next(origin)) < badge.now
    BY <1>2, BadgeMoments
<1>5. (CHOOSE x \in badge.of.at : TRUE) = e
    BY <1>3
<1>6. \A after : next(after) =
        IntervalNext(e, Anchor(badge.stamp, badge.ran, after, badge.now, badge.now), after)
    BY <1>2, <1>5 DEF NextOccurrence
<1>7. origin # NoTime => \A after : Anchor(badge.stamp, badge.ran, after, badge.now, badge.now) = origin
    BY <1>4 DEF Anchor
<1> HIDE DEF next
<1>8. ASSUME origin # NoTime PROVE next(origin) = origin + e /\ next(next(origin)) = origin + 2 * e
  <2>1. origin \in Nat
      BY <1>4, <1>8
  <2>2. (origin - origin) \div e = 0 /\ (origin + e - origin) \div e = 1
    <3>1. origin - origin = 0 /\ origin + e - origin = e
        BY <2>1
    <3>2. 0 \div e = 0 /\ e \div e = 1
        BY <1>3
    <3> QED BY <3>1, <3>2
  <2>3. next(origin) = origin + e
    <3>1. next(origin) = IntervalNext(e, origin, origin)
        BY <1>6, <1>7, <1>8
    <3>2. IntervalNext(e, origin, origin) = origin + (0 + 1) * e
        BY <2>1, <2>2 DEF IntervalNext
    <3> QED BY <2>1, <3>1, <3>2
  <2>4. next(origin + e) = origin + 2 * e
    <3>1. next(origin + e) = IntervalNext(e, origin, origin + e)
        BY <1>6, <1>7, <1>8
    <3>2. IntervalNext(e, origin, origin + e) = origin + (1 + 1) * e
        BY <1>3, <2>1, <2>2 DEF IntervalNext
    <3> QED BY <2>1, <3>1, <3>2
  <2> QED BY <2>3, <2>4
<1>9. CASE badge.now = 0
    BY <1>2, <1>3, <1>4, <1>8, <1>9
<1>10. CASE badge.now # 0
  <2>1. origin = LastSeen /\ origin # NoTime
      BY <1>2, <1>4, <1>10 DEF NoTime
  <2>2. origin + e # NoTime /\ origin + 2 * e # NoTime
      BY <1>2, <2>1 DEF NoTime
  <2>3. origin + 2 * e < badge.now => origin + e \in DOMAIN badge.zone
      BY <1>2, <2>1 DEF Instants
  <2> QED BY <1>3, <1>4, <1>8, <2>1, <2>2, <2>3
<1> QED BY <1>9, <1>10

LEMMA BadgesMean == TextInv => BadgeMeansTwoMissed
<1> SUFFICES ASSUME TextInv, badge # NoText, LastSeen \in Instants(badge.zone)
             PROVE  CASE badge.of.kind = "cron" ->
                           Overdue(badge.of, badge.zone, badge.stamp, badge.ran, badge.now, badge.now)
                             => Cardinality(MomentsBetween) >= 2
                      [] OTHER ->
                           Overdue(badge.of, badge.zone, badge.stamp, badge.ran, badge.now, badge.now)
                             <=> \A e \in badge.of.at : LastSeen + 2 * e < badge.now
    BY DEF BadgeMeansTwoMissed
<1>1. badge \in BadgeStarts
    BY DEF TextInv
<1>2. LastSeen \in Nat
    BY <1>1, TextAssumption DEF BadgeStarts, TextAssumption
<1> QED BY <1>1, <1>2, CronBadge, IntervalBadge

-----------------------------------------------------------------------------
(***************************************************************************)
(* The scheduler's types.  A baseline is one of the instants at hand - the     *)
(* tick's, the previous tick's, a stamp, a firing or the baseline before - so   *)
(* what a tick remembers while it scans is typed with what is kept between.    *)
(***************************************************************************)
TickFields == {"phase", "now", "keys", "snap", "due", "dropped", "prior", "fired"}
TickTimes == NoTime..MaxTime
Books == [Ids -> [here : BOOLEAN, on : BOOLEAN, stamp : TickTimes]]

TickTypes ==
  /\ DOMAIN tick = TickFields /\ tick.now \in TickTimes
  /\ tick.phase \in {"rest", "begun", "scan", "fire", "firing", "raised", "settle", "end"}
  /\ tick.phase = "scan" => tick.snap \in Books
  /\ tick.phase \in {"scan", "fire", "firing", "settle"} => tick.prior \in [Ids -> TickTimes]

BaseTypes ==
  /\ base \in [Ids -> TickTimes] /\ lastFired \in [Ids -> TickTimes]
  /\ prev.at \in TickTimes

BookTypes == book \in Books /\ \A t \in Ids : book[t].on => book[t].here

SchedInv == /\ utc \in 0..MaxTime /\ zone \in Zones
            /\ BookTypes /\ BaseTypes /\ TickTypes

LEMMA SchedInvGives == SchedInv => SchedTypeOK
<1> SUFFICES ASSUME SchedInv PROVE SchedTypeOK OBVIOUS
<1>1. book \in [Ids -> [here : BOOLEAN, on : BOOLEAN, stamp : NoTime..MaxTime]]
    BY DEF SchedInv, BookTypes, Books, TickTimes
<1>2. \A t \in Ids : base[t] \in NoTime..MaxTime /\ lastFired[t] \in NoTime..MaxTime
    BY DEF SchedInv, BaseTypes, TickTimes
<1> QED BY <1>1, <1>2 DEF SchedInv, SchedTypeOK, BookTypes, TickTypes

LEMMA InstantsFit == MaxTime \in Nat /\ NoTime \in TickTimes /\ 0..MaxTime \subseteq TickTimes
  BY SchedulerAssumption DEF SchedulerAssumption, TickTimes, NoTime

LEMMA SchedStarts == SchedInit => SchedInv
<1> SUFFICES ASSUME SchedInit PROVE SchedInv OBVIOUS
<1>1. utc \in 0..MaxTime /\ zone \in Zones /\ prev.at \in TickTimes
    BY InstantsFit, SchedulerAssumption DEF SchedulerAssumption, SchedInit
<1>2. BookTypes
    BY InstantsFit DEF SchedInit, BookTypes, Books
<1>3. BaseTypes
    BY <1>1, InstantsFit DEF SchedInit, BaseTypes
<1>4. TickTypes
    BY InstantsFit DEF SchedInit, TickTypes, TickFields, Rest
<1> QED BY <1>1, <1>2, <1>3, <1>4 DEF SchedInv

LEMMA WithoutFits == ASSUME BookTypes, NEW ts PROVE Without(ts) \in Books /\ \A t \in Ids : Without(ts)[t].on => Without(ts)[t].here
<1>1. ASSUME NEW t \in Ids
      PROVE  /\ [book[t] EXCEPT !.here = FALSE, !.on = FALSE] \in [here : BOOLEAN, on : BOOLEAN, stamp : TickTimes]
             /\ [book[t] EXCEPT !.here = FALSE, !.on = FALSE].on = FALSE
    BY DEF BookTypes, Books
<1>2. CASE there
    BY <1>1, <1>2 DEF BookTypes, Books, Without
<1>3. CASE ~there
    BY <1>3 DEF BookTypes, Without
<1> QED BY <1>2, <1>3

(* Time, edits, shutdown and restart.                                        *)
LEMMA OutsideFits ==
  ASSUME SchedInv,
         \/ TimePasses \/ DeleteBegins \/ Shutdown \/ Restart
         \/ \E removed \in BOOLEAN : DeleteEnds(removed)
         \/ \E k \in 1..(Hold + 2) : ClockSteps(k)
         \/ \E z \in Zones : ZoneChanges(z)
         \/ \E t \in Ids : SwitchOn(t) \/ SwitchOff(t)
  PROVE  SchedInv'
<1>1. CASE TimePasses
    BY <1>1, InstantsFit DEF TimePasses, SchedInv, BookTypes, BaseTypes, TickTypes
<1>2. CASE DeleteBegins \/ \E removed \in BOOLEAN : DeleteEnds(removed)
    BY <1>2 DEF DeleteBegins, DeleteEnds, SchedInv, BookTypes, BaseTypes, TickTypes
<1>3. CASE Shutdown
    BY <1>3 DEF Shutdown, SchedInv, BookTypes, BaseTypes, TickTypes
<1>4. CASE Restart
  <2>1. BaseTypes'
      BY <1>4, InstantsFit DEF Restart, SchedInv, BaseTypes
  <2>2. TickTypes'
      BY <1>4, InstantsFit DEF Restart, Rest, TickTypes, TickFields
  <2> QED BY <1>4, <2>1, <2>2 DEF Restart, SchedInv, BookTypes
<1>5. CASE \E k \in 1..(Hold + 2) : ClockSteps(k)
  <2> PICK k \in 1..(Hold + 2) : ClockSteps(k) BY <1>5
  <2>1. utc' \in 0..MaxTime
      BY InstantsFit, SchedulerAssumption DEF SchedulerAssumption, ClockSteps, SchedInv
  <2> QED BY <2>1 DEF ClockSteps, SchedInv, BookTypes, BaseTypes, TickTypes
<1>6. CASE \E z \in Zones : ZoneChanges(z)
    BY <1>6 DEF ZoneChanges, SchedInv, BookTypes, BaseTypes, TickTypes
<1>7. CASE \E t \in Ids : SwitchOn(t)
  <2> PICK t \in Ids : SwitchOn(t) BY <1>7
  <2>1. [here |-> TRUE, on |-> TRUE, stamp |-> utc] \in [here : BOOLEAN, on : BOOLEAN, stamp : TickTimes]
      BY InstantsFit DEF SchedInv
  <2>2. BookTypes'
      BY <2>1 DEF SwitchOn, SchedInv, BookTypes, Books
  <2> QED BY <2>2 DEF SwitchOn, SchedInv, BaseTypes, TickTypes
<1>8. CASE \E t \in Ids : SwitchOff(t)
  <2> PICK t \in Ids : SwitchOff(t) BY <1>8
  <2>2. book[t] \in [here : BOOLEAN, on : BOOLEAN, stamp : TickTimes]
      BY DEF SchedInv, BookTypes, Books
  <2>3. /\ [book[t] EXCEPT !.on = FALSE] \in [here : BOOLEAN, on : BOOLEAN, stamp : TickTimes]
        /\ [book[t] EXCEPT !.on = FALSE].on = FALSE
      BY <2>2
  <2>1. BookTypes'
      BY <2>3 DEF SwitchOff, SchedInv, BookTypes, Books
  <2> QED BY <2>1 DEF SwitchOff, SchedInv, BaseTypes, TickTypes
<1> QED BY <1>1, <1>2, <1>3, <1>4, <1>5, <1>6, <1>7, <1>8

(* A baseline read in a scan is one of the instants at hand.                   *)
LEMMA BaselineFits ==
  ASSUME SchedInv, tick.phase = "scan", NEW t \in Ids
  PROVE  /\ OldBase(t) \in TickTimes
         /\ ClampedBase(tick.snap[t], OldBase(t)) \in TickTimes
<1> DEFINE row == tick.snap[t]
<1>1. row.stamp \in TickTimes /\ tick.now \in TickTimes /\ prev.at \in TickTimes
      /\ base[t] \in TickTimes /\ lastFired[t] \in TickTimes
    BY DEF SchedInv, TickTypes, BaseTypes, Books
<1>2. Since(row) \in TickTimes
    BY <1>1, InstantsFit DEF Since, Credible
<1>3. FirstBase(row) \in TickTimes
    BY <1>1, <1>2 DEF FirstBase
<1>4. OldBase(t) \in TickTimes
    BY <1>1, <1>3 DEF OldBase, HeldBase
<1>5. ClampedBase(row, OldBase(t)) \in TickTimes
    BY <1>2, <1>4 DEF ClampedBase
<1> QED BY <1>4, <1>5

LEMMA ScanFits == ASSUME SchedInv, NEW t \in Ids, ScanOne(t) PROVE SchedInv'
<1> PICK ok \in BOOLEAN : ScanOff(t, ok) \/ ScanDue(t, ok) \/ ScanNotDue(t, ok)
    BY DEF ScanOne
<1>1. UNCHANGED <<utc, zone, lastFired, prev>> /\ tick.phase = "scan"
    BY DEF ScanOne
<1>2. BookTypes /\ TickTypes /\ BaseTypes
    BY DEF SchedInv
<1>3. book' = book \/ \E ts : book' = Without(ts)
    BY <1>1 DEF ScanOff, ScanDue, ScanNotDue, Consumes
<1>4. BookTypes'
    BY <1>2, <1>3, WithoutFits DEF BookTypes
<1>5. \E b \in TickTimes : base' = [base EXCEPT ![t] = b]
    BY <1>1, <1>2, BaselineFits DEF ScanOff, ScanDue, ScanNotDue, TickTypes
<1>6. BaseTypes'
    BY <1>1, <1>2, <1>5 DEF BaseTypes
<1>7. TickTypes'
  <2>1. Phase(ok) \in {"scan", "raised"}
      BY DEF Phase
  <2>2. CASE ScanOff(t, ok) \/ ScanNotDue(t, ok)
    <3>1. tick' = [tick EXCEPT !.phase = Phase(ok)]
        BY <2>2 DEF ScanOff, ScanNotDue
    <3> QED BY <1>1, <1>2, <2>1, <3>1 DEF TickTypes, TickFields
  <2>3. CASE ScanDue(t, ok)
    <3>1. /\ tick'.phase = Phase(ok) /\ tick'.now = tick.now /\ DOMAIN tick' = DOMAIN tick
          /\ tick'.snap = tick.snap
          /\ tick'.prior = [tick.prior EXCEPT ![t] = ClampedBase(tick.snap[t], OldBase(t))]
        BY <1>2, <2>3 DEF ScanDue, TickTypes, TickFields
    <3> QED BY <1>1, <1>2, <2>1, <3>1, BaselineFits DEF TickTypes
  <2> QED BY <2>2, <2>3
<1> QED BY <1>1, <1>4, <1>6, <1>7 DEF SchedInv

(* The other steps of a tick.                                                  *)
LEMMA TickFits ==
  ASSUME SchedInv,
         \/ TickStarts \/ SessionCutOff \/ TakeTriggers \/ ScanEnds \/ Abandons
         \/ NotAttempted \/ LooksFresh \/ CalledOff \/ Refused
         \/ (\E busy \in BOOLEAN : Attempted(busy))
         \/ StartFails \/ SkipFails
         \/ NothingToFire \/ SettleFired \/ SettleUnfired \/ TickEnds
  PROVE  SchedInv'
<1>0. BookTypes /\ TickTypes /\ BaseTypes
    BY DEF SchedInv
<1>1. CASE TickStarts
  <2>1. TickTypes'
      BY <1>1, InstantsFit DEF TickStarts, Rest, SchedInv, TickTypes, TickFields
  <2> QED BY <1>1, <2>1 DEF TickStarts, SchedInv, BookTypes, BaseTypes
<1>2. CASE SessionCutOff
  <2>1. TickTypes'
      BY <1>0, <1>2 DEF SessionCutOff, TickTypes, TickFields
  <2>2. BaseTypes'
      BY <1>0, <1>2 DEF SessionCutOff, BaseTypes, TickTypes
  <2> QED BY <1>2, <2>1, <2>2 DEF SessionCutOff, SchedInv, BookTypes
<1>3. CASE TakeTriggers
  <2>1. TickTypes'
      BY <1>0, <1>3, InstantsFit DEF TakeTriggers, TickTypes, TickFields, BookTypes
  <2> QED BY <1>3, <2>1 DEF TakeTriggers, SchedInv, BookTypes, BaseTypes
<1>4. CASE ScanEnds
  <2>1. TickTypes'
      BY <1>0, <1>4 DEF ScanEnds, TickTypes, TickFields
  <2> QED BY <1>4, <2>1 DEF ScanEnds, SchedInv, BookTypes, BaseTypes
<1>5. CASE NotAttempted
    BY <1>5 DEF NotAttempted, SchedInv, BookTypes, BaseTypes, TickTypes
<1>6. CASE \/ LooksFresh \/ CalledOff \/ Refused \/ StartFails \/ SkipFails \/ Abandons
           \/ NothingToFire \/ \E busy \in BOOLEAN : Attempted(busy)
  <2>1. /\ \/ tick.phase \in {"fire", "firing"}
           \/ tick.phase = "raised" /\ tick' = [tick EXCEPT !.phase = "end"]
        /\ \/ \E p \in {"fire", "firing", "raised", "settle", "end"} : tick' = [tick EXCEPT !.phase = p]
           \/ tick' = [tick EXCEPT !.fired = TRUE, !.phase = "settle"]
        /\ UNCHANGED <<utc, zone, book, base, lastFired, prev>>
      BY <1>6 DEF LooksFresh, CalledOff, Refused, StartFails, SkipFails, Abandons, NothingToFire,
                  Attempted, CountsAsFired
  <2>2. TickTypes'
      BY <1>0, <2>1 DEF TickTypes, TickFields
  <2> QED BY <2>1, <2>2 DEF SchedInv, BookTypes, BaseTypes
<1>7. CASE SettleUnfired
  <2>1. TickTypes'
      BY <1>0, <1>7 DEF SettleUnfired, TickTypes, TickFields
  <2>2. BaseTypes'
      BY <1>0, <1>7 DEF SettleUnfired, BaseTypes, TickTypes
  <2> QED BY <1>7, <2>1, <2>2 DEF SettleUnfired, SchedInv, BookTypes
<1>8. CASE SettleFired
  <2>1. TickTypes'
      BY <1>0, <1>8 DEF SettleFired, TickTypes, TickFields
  <2>2. BaseTypes'
      BY <1>0, <1>8 DEF SettleFired, BaseTypes, TickTypes
  <2>3. \E ts : book' = Without(ts)
      BY <1>8 DEF SettleFired
  <2>4. BookTypes'
      BY <1>0, <2>3, WithoutFits DEF BookTypes
  <2> QED BY <1>8, <2>1, <2>2, <2>4 DEF SettleFired, SchedInv
<1>9. CASE TickEnds
  <2>1. TickTypes'
      BY <1>9, InstantsFit DEF TickEnds, Rest, TickTypes, TickFields
  <2>2. BaseTypes'
      BY <1>0, <1>9, InstantsFit DEF TickEnds, BaseTypes, TickTypes
  <2> QED BY <1>9, <2>1, <2>2 DEF TickEnds, SchedInv, BookTypes
<1> QED BY <1>1, <1>2, <1>3, <1>4, <1>5, <1>6, <1>7, <1>8, <1>9

LEMMA SchedKeeps == SchedInv /\ [SchedNext]_schedVars => SchedInv'
<1> SUFFICES ASSUME SchedInv, [SchedNext]_schedVars PROVE SchedInv' OBVIOUS
<1>1. CASE UNCHANGED schedVars
    BY <1>1 DEF schedVars, SchedInv, BookTypes, BaseTypes, TickTypes
<1>2. CASE \E t \in Ids : ScanOne(t)
    BY <1>2, ScanFits
<1>3. CASE SchedNext /\ ~\E t \in Ids : ScanOne(t)
    BY <1>3, OutsideFits, TickFits DEF SchedNext
<1> QED BY <1>1, <1>2, <1>3

(* What is left of the types of the other parts: the retention thread, what the  *)
(* watcher shows and how far its cursor goes, and how many launches are kept.     *)
Sweeping == sweeper \in {"none", "deleting"}

WatcherShows ==
  /\ Len(chat) <= MaxRows /\ cursor <= MaxRows
  /\ toldOf \in {"none", "connected", "error"} /\ (open => watcher)

LaunchesKept == Len(served) <= LaunchMemory /\ answeredIds \subseteq LaunchIds

LEMMA SweepingKeeps ==
  /\ SweepInit => Sweeping
  /\ Sweeping /\ [SweepNext]_sweepVars => Sweeping'
<1>1. SweepInit => Sweeping
    BY DEF SweepInit, Sweeping
<1>2. ASSUME Sweeping, [SweepNext]_sweepVars PROVE sweeper' \in {sweeper, "none", "deleting"}
    BY <1>2 DEF SweepNext, HourlyTick, RetentionEnds, StepsBack, Changes, MuteChanges, sweepVars
<1> QED BY <1>1, <1>2 DEF Sweeping

LEMMA WatcherShowsFirst == ChatInit => WatcherShows
<1> SUFFICES ASSUME ChatInit PROVE WatcherShows OBVIOUS
<1>1. Len(chat) <= 1
  <2>1. chat = <<>> \/ \E m : chat = <<m>>
      BY DEF ChatInit
  <2>2. CASE \E m : chat = <<m>>
    <3> PICK m : chat = <<m>> BY <2>2
    <3>1. Len(chat) = 1
        OBVIOUS
    <3> QED BY <3>1
  <2>3. CASE chat = <<>>
    <3>1. Len(chat) = 0
        BY <2>3
    <3> QED BY <3>1
  <2> QED BY <2>1, <2>2, <2>3
<1>2. Len(chat) <= MaxRows /\ 0 <= MaxRows
    BY <1>1, WatcherAssumption, ChatStarts DEF WatcherAssumption, ChatInv, ChatTypes
<1> QED BY <1>2 DEF ChatInit, WatcherShows

LEMMA WatcherShowsKeeps == ChatInv /\ WatcherShows /\ [ChatNext]_chatVars => WatcherShows'
<1> SUFFICES ASSUME ChatInv, WatcherShows, [ChatNext]_chatVars PROVE WatcherShows' OBVIOUS
<1>1. /\ chat \in Seq(Messages) /\ Len(chat) \in Nat /\ cursor \in Nat /\ MaxRows \in Nat
      /\ pass.phase = "rows" => pass.top <= Len(chat) /\ pass.top \in Nat
    BY WatcherAssumption DEF WatcherAssumption, ChatInv, ChatTypes, CursorFits, Passes
<1>2. CASE \E s \in Senders, plain \in BOOLEAN : Arrives(s, plain)
  <2> PICK s \in Senders, plain \in BOOLEAN : Arrives(s, plain) BY <1>2
  <2>1. Len(chat') = Len(chat) + 1
      BY <1>1 DEF Arrives
  <2> QED BY <1>1, <2>1 DEF Arrives, WatcherShows
<1>3. CASE \E n \in 0..MaxRows : Replaced(n)
  <2> PICK n \in 0..MaxRows : Replaced(n) BY <1>3
  <2>1. Len(chat') = n
      BY <1>1 DEF Replaced
  <2> QED BY <1>1, <2>1 DEF Replaced, WatcherShows
<1>8. CASE Opens
    BY <1>1, <1>8 DEF Opens, StartsAt, WatcherShows
<1>9. CASE WatcherGoes
    BY <1>1, <1>9 DEF WatcherGoes, WatcherShows
<1>4. CASE OpenDenied \/ ReadFails \/ WatcherStops
    BY <1>4 DEF OpenDenied, ReadFails, WatcherStops, WatcherShows
<1>5. CASE RowsRead
    BY <1>1, <1>5 DEF RowsRead, WatcherShows
<1>6. CASE UNCHANGED <<chat, cursor, toldOf, open, watcher>>
    BY <1>6 DEF WatcherShows
<1>7. CASE \/ HourPasses \/ AccessFlips \/ PassBegins \/ StillOpen \/ TopRead \/ Dispatches \/ PassEnds
           \/ (\E s \in Senders : Wants(s)) \/ UNCHANGED chatVars
    BY <1>6, <1>7 DEF HourPasses, AccessFlips, PassBegins, StillOpen, TopRead, Dispatches, PassEnds,
       Wants, chatVars
<1> QED BY <1>2, <1>3, <1>4, <1>5, <1>7, <1>8, <1>9 DEF ChatNext

LEMMA LaunchesKeptFirst == LaunchInit => LaunchesKept
  BY LaunchesAssumption DEF LaunchesAssumption, LaunchInit, LaunchesKept

LEMMA LaunchesKeptKeeps == LaunchInv /\ LaunchesKept /\ [LaunchNext]_launchVars => LaunchesKept'
<1> SUFFICES ASSUME LaunchInv, LaunchesKept, [LaunchNext]_launchVars PROVE LaunchesKept' OBVIOUS
<1>1. served \in Seq(LaunchIds) /\ Len(served) \in Nat /\ LaunchMemory \in Nat \ {0}
    BY LaunchesAssumption DEF LaunchesAssumption, LaunchInv, LaunchTypes
<1>2. CASE \E l \in LaunchIds, dropped \in BOOLEAN : Arrive(l, dropped)
  <2> PICK l \in LaunchIds, dropped \in BOOLEAN : Arrive(l, dropped) BY <1>2
  <2>1. answeredIds' \subseteq LaunchIds
      BY DEF Arrive, LaunchesKept
  <2>2. Len(Append(served, l)) = Len(served) + 1 /\ Append(served, l) \in Seq(LaunchIds)
      BY <1>1
  <2>3. Append(served, l) # <<>> => Len(Tail(Append(served, l))) = Len(served)
      BY <1>1, <2>2
  <2>4. Len(Recent(Append(served, l))) <= LaunchMemory
      BY <1>1, <2>2, <2>3 DEF Recent, LaunchesKept
  <2>5. served' = served \/ served' = Recent(Append(served, l))
      BY DEF Arrive
  <2> QED BY <2>1, <2>4, <2>5 DEF LaunchesKept
<1>3. CASE \E r \in requests : \E dropped \in BOOLEAN : Reply(r, dropped)
  <2> PICK r \in requests, dropped \in BOOLEAN : Reply(r, dropped) BY <1>3
  <2>1. r.of \in LaunchIds
      BY DEF LaunchInv, LaunchTypes, LaunchRequests
  <2> QED BY <2>1 DEF Reply, LaunchesKept
<1>4. CASE UNCHANGED <<served, answeredIds>>
    BY <1>4 DEF LaunchesKept
<1>5. CASE \/ \E r \in requests : \E a \in Starters, fails \in BOOLEAN : FireStarter(r, a, fails)
           \/ (\E a \in Starters : Switch(a)) \/ UNCHANGED launchVars
    BY <1>4, <1>5 DEF FireStarter, Switch, launchVars
<1> QED BY <1>2, <1>3, <1>5 DEF LaunchNext

-----------------------------------------------------------------------------
(***************************************************************************)
(* Together: a behaviour is about one part, and the others stand still.       *)
(***************************************************************************)
IntakeInv ==
  /\ part \in {"schedule", "sweeps", "gateway", "messages", "launches", "texts"}
  /\ part = "schedule" => SchedInv
  /\ part = "sweeps" => SweepInv /\ Sweeping
  /\ part = "gateway" => GateInv /\ RecallInv
  /\ part = "messages" => ChatInv /\ WatcherShows
  /\ part = "launches" => LaunchInv /\ LaunchesKept
  /\ part = "texts" => TextInv

LEMMA IntakeStarts == Init => IntakeInv
  BY SchedStarts, SweepStarts, SweepingKeeps, WatcherShowsFirst, LaunchesKeptFirst, GateStarts, RecallStarts, ChatStarts, LaunchStarts, TextKeeps DEF Init, IntakeInv

LEMMA IntakeKeeps == IntakeInv /\ [Next]_allVars => IntakeInv'
<1> SUFFICES ASSUME IntakeInv, [Next]_allVars PROVE IntakeInv' OBVIOUS
<1>1. part' = part
    BY DEF Next, Still, allVars
<1>2. part = "sweeps" => [SweepNext]_sweepVars
    BY DEF Next, Still, allVars
<1>7. part = "schedule" => [SchedNext]_schedVars
    BY DEF Next, Still, allVars
<1>3. part = "gateway" => [GateNext]_gateVars
    BY DEF Next, Still, allVars
<1>4. part = "messages" => [ChatNext]_chatVars
    BY DEF Next, Still, allVars
<1>5. part = "launches" => [LaunchNext]_launchVars
    BY DEF Next, Still, allVars
<1>6. part = "texts" => [TextNext]_textVars
    BY DEF Next, Still, allVars
<1> QED BY <1>1, <1>2, <1>3, <1>4, <1>5, <1>6, <1>7, SchedKeeps, SweepKeeps, SweepingKeeps, WatcherShowsKeeps,
       LaunchesKeptKeeps, GateKeeps, RecallStep, ChatKeeps,
       LaunchKeeps, TextKeeps DEF IntakeInv

THEOREM IntakeInvariant == Spec => []IntakeInv
  BY IntakeStarts, IntakeKeeps, PTL DEF Spec

LEMMA TypesGiven ==
  /\ SweepInv /\ Sweeping => SweepTypeOK
  /\ GateInv /\ RecallInv => GateTypeOK
  /\ ChatInv /\ WatcherShows => ChatTypeOK
  /\ LaunchInv /\ LaunchesKept => LaunchTypeOK
<1>1. SweepInv /\ Sweeping => SweepTypeOK
    BY DEF SweepInv, Sweeping, StretchFits, SweepTypeOK
<1>2. GateInv /\ RecallInv => GateTypeOK
    BY DEF GateInv, TableFits, ConnsFit, ConnStates, RecallInv, RecallTypes, RecallFits, GateTypeOK
<1>3. ChatInv /\ WatcherShows => ChatTypeOK
    BY WatcherAssumption DEF WatcherAssumption, ChatInv, ChatTypes, WatcherShows, ChatTypeOK
<1>4. LaunchInv /\ LaunchesKept => LaunchTypeOK
    BY DEF LaunchesKept, LaunchInv, LaunchTypes, LaunchRequests, LaunchTypeOK
<1> QED BY <1>1, <1>2, <1>3, <1>4

(* Every variable of every part keeps its type, whatever the schedules, zones and  *)
(* messages: a trigger's baseline is an instant that passed, the table names a       *)
(* connection there is, and the two memories stay within their limits               *)
(* (scheduler.py:172-438, listeners.py:231-723, api.py:1812-1850).                  *)
THEOREM IntakeAlwaysTyped == Spec => []IntakeTypeOK
<1>1. IntakeInv => IntakeTypeOK
    BY SchedInvGives, TypesGiven DEF IntakeInv, IntakeTypeOK
<1> QED BY <1>1, IntakeInvariant, PTL

(* Whatever the clock does, a step back holds a sweep off for no more than an     *)
(* hour on top of the hour it may wait anyway, and an overdue automation is told   *)
(* of once a stretch (scheduler.py:83-166, 440-497).                               *)
THEOREM SweepsAlwaysGo == Spec => []SweepsKeepGoing
<1>1. IntakeInv => SweepsKeepGoing
    BY SweepInvGives DEF IntakeInv, SweepsKeepGoing
<1> QED BY <1>1, IntakeInvariant, PTL

(* No bot ever has two connections that mean to stay, none outlives stop(), the    *)
(* database stays closed after it, and a notice is shown once                       *)
(* (listeners.py:231-655).                                                          *)
THEOREM ListenersAlwaysStop == Spec => []ListenersStop
<1>1. IntakeInv => ListenersStop
    BY GateInvGives, ChatInvGives DEF IntakeInv, ListenersStop
<1> QED BY <1>1, IntakeInvariant, PTL

(* A message is fired for an automation once however many connections carry it,    *)
(* and again only when its place in the memory has gone to SeenLimit others; history *)
(* never fires and no row of the Messages database is passed over without a reason;   *)
(* a launch starts an automation once while it is remembered (listeners.py:436-489,   *)
(* 682-723, api.py:1812-1850).                                                      *)
THEOREM MessagesAlwaysOnce == Spec => []MessagesFireOnce
<1>1. IntakeInv => MessagesFireOnce
    BY RecallGives, ChatInvGives, LaunchInvGives DEF IntakeInv, MessagesFireOnce
<1> QED BY <1>1, IntakeInvariant, PTL

(* A field an earlier release stored is read and fires at the very times it did,   *)
(* a length keeps its seconds in one unit, and a badge means that two moments went  *)
(* by, for any field, any schedule and any zone (triggers.py:57-87, 237-288,         *)
(* 857-905).                                                                        *)
THEOREM TextsAlwaysMean == Spec => []TextsMeanWhatTheySay
<1>1. IntakeInv => TextsMeanWhatTheySay
    BY FieldsKeepFiring, LengthsKeep, BadgesMean DEF IntakeInv, TextsMeanWhatTheySay
<1> QED BY <1>1, IntakeInvariant, PTL
===============================================================================
