------------------------------ MODULE ChatWatcher ------------------------------
(***************************************************************************)
(* The iMessage watcher (backend/autowright/listeners.py _ImsgWatcher and    *)
(* imessage.py): a ROWID cursor over the Messages database, polled by the    *)
(* reconcile loop, with the database denied, failing or replaced under it.   *)
(* A row is a record [who, born, plain]: its sender, the moment it arrived,  *)
(* and whether the query would take it at all (incoming, not a reaction, not *)
(* a group event, with a text that decodes, from a direct chat).             *)
(***************************************************************************)
EXTENDS Integers, Sequences, FiniteSets

CONSTANTS Senders,          \* handles the triggers could name
          MaxAge,           \* MAX_AGE_S: an older row never fires
          MaxRows, MaxHour, MaxUpsets   \* bounds
ASSUME WatcherAssumption == MaxAge \in Nat /\ MaxRows \in Nat \ {0} /\ Senders # {}

VARIABLES chat,             \* the database: its rows in ROWID order
          readable,         \* the database can be opened and read
          hour,             \* the clock
          wanted,           \* senders of the enabled triggers
          watcher,          \* the _ImsgWatcher object exists
          open,             \* _db
          cursor, hasCursor,
          pass,             \* the tick in progress
          stopped,          \* the manager was stopped
          toldOf,             \* connection state shown for the watcher
          marker,           \* the backend-renamed marker is still owed
          since,            \* ghost: the watch began at this row
          firedFor,            \* ghost: rows of this database that fired
          excused,          \* ghost: rows passed over for a reason
          notices,          \* ghost: re-grant notices posted
          wrong,            \* ghost: a row of history fired, or one fired twice
          upsets

chatVars == <<chat, readable, hour, wanted, watcher, open, cursor, hasCursor, pass, stopped,
              toldOf, marker, since, firedFor, excused, notices, wrong, upsets>>

NoPass == [phase |-> "none", want |-> {}, top |-> 0, rows |-> {}]

ChatInit ==
  /\ chat \in {<<>>, <<[who |-> CHOOSE s \in Senders : TRUE, born |-> 0, plain |-> TRUE]>>}
  /\ readable \in BOOLEAN /\ hour = 0
  /\ wanted \in SUBSET Senders
  /\ watcher = FALSE /\ open = FALSE /\ cursor = 0 /\ hasCursor = FALSE /\ pass = NoPass
  /\ stopped = FALSE /\ toldOf = "none" /\ marker \in BOOLEAN
  /\ since = 0 /\ firedFor = {} /\ excused = {} /\ notices = 0 /\ wrong = FALSE /\ upsets = 0

(***************************************************************************)
(* The world: messages arrive, time passes, access comes and goes, the       *)
(* database is replaced by an older copy, triggers are switched.             *)
(***************************************************************************)
Arrives(s, plain) ==
  /\ Len(chat) < MaxRows
  /\ chat' = Append(chat, [who |-> s, born |-> hour, plain |-> plain])
  /\ UNCHANGED <<readable, hour, wanted, watcher, open, cursor, hasCursor, pass, stopped,
                 toldOf, marker, since, firedFor, excused, notices, wrong, upsets>>

HourPasses ==
  /\ hour < MaxHour
  /\ hour' = hour + 1
  /\ UNCHANGED <<chat, readable, wanted, watcher, open, cursor, hasCursor, pass, stopped,
                 toldOf, marker, since, firedFor, excused, notices, wrong, upsets>>

AccessFlips ==
  /\ upsets < MaxUpsets
  /\ readable' = ~readable /\ upsets' = upsets + 1
  /\ UNCHANGED <<chat, hour, wanted, watcher, open, cursor, hasCursor, pass, stopped,
                 toldOf, marker, since, firedFor, excused, notices, wrong>>

(* A restored copy holds old rows only; an open handle on the old file fails *)
(* its next read.                                                            *)
Replaced(n) ==
  /\ upsets < MaxUpsets /\ pass = NoPass /\ hour > MaxAge
  /\ chat' = [i \in 1..n |-> [who |-> CHOOSE s \in Senders : TRUE, born |-> 0, plain |-> TRUE]]
  /\ upsets' = upsets + 1
  /\ since' = cursor /\ firedFor' = {} /\ excused' = {}
  /\ open' = FALSE /\ toldOf' = IF open THEN "error" ELSE toldOf
  /\ UNCHANGED <<readable, hour, wanted, watcher, cursor, hasCursor, pass, stopped,
                 marker, notices, wrong>>

Wants(s) ==
  /\ upsets < MaxUpsets
  /\ wanted' = IF s \in wanted THEN wanted \ {s} ELSE wanted \cup {s}
  /\ upsets' = upsets + 1
  /\ UNCHANGED <<chat, readable, hour, watcher, open, cursor, hasCursor, pass, stopped,
                 toldOf, marker, since, firedFor, excused, notices, wrong>>

(***************************************************************************)
(* One tick of the manager (_reconcile's watcher half and _ImsgWatcher.tick), *)
(* under the lock stop() closes the watcher under.                           *)
(***************************************************************************)
(* consume_renamed_marker: settled once, with a notice only for a denial that *)
(* still concerns a trigger.                                                 *)
MutKeepsMarker(denied) ==
  /\ marker' = (marker /\ denied)
  /\ notices' = IF marker /\ denied /\ wanted # {} THEN notices + 1 ELSE notices
ConsumeMarker(denied) ==
  /\ marker' = FALSE
  /\ notices' = IF marker /\ denied /\ wanted # {} THEN notices + 1 ELSE notices

PassBegins ==
  /\ pass = NoPass /\ ~stopped
  /\ pass' = [NoPass EXCEPT !.phase = "begun", !.want = wanted]
  /\ IF wanted = {} THEN ConsumeMarker(FALSE) ELSE UNCHANGED <<marker, notices>>
  /\ UNCHANGED <<chat, readable, hour, wanted, watcher, open, cursor, hasCursor, stopped,
                 toldOf, since, firedFor, excused, wrong, upsets>>

(* The last trigger went: the watcher is closed and forgotten.               *)
WatcherGoes ==
  /\ pass.phase = "begun" /\ (stopped \/ pass.want = {})
  /\ pass' = NoPass
  /\ IF ~stopped /\ watcher
     THEN watcher' = FALSE /\ open' = FALSE /\ cursor' = 0 /\ hasCursor' = FALSE /\ toldOf' = "none"
     ELSE UNCHANGED <<watcher, open, cursor, hasCursor, toldOf>>
  /\ UNCHANGED <<chat, readable, hour, wanted, stopped,
                 marker, since, firedFor, excused, notices, wrong, upsets>>

(* Opening: a first open starts at the newest row; a reopen keeps its cursor *)
(* unless the database no longer reaches it.                                 *)
RestartsAt == Len(chat)
KeepsCursor == cursor
StartsAt == IF ~hasCursor \/ Len(chat) < cursor THEN Len(chat) ELSE cursor
Opens ==
  /\ pass.phase = "begun" /\ ~stopped /\ pass.want # {} /\ ~open /\ readable
  /\ watcher' = TRUE /\ open' = TRUE /\ hasCursor' = TRUE
  /\ cursor' = StartsAt
  /\ since' = IF ~hasCursor \/ Len(chat) < cursor THEN Len(chat) ELSE since
  /\ toldOf' = "connected" /\ ConsumeMarker(FALSE)
  /\ pass' = [pass EXCEPT !.phase = "read"]
  /\ UNCHANGED <<chat, readable, hour, wanted, stopped, firedFor, excused, wrong, upsets>>

(* A denied open parks; the first denial after the rename owes one notice.   *)
OpenDenied ==
  /\ pass.phase = "begun" /\ ~stopped /\ pass.want # {} /\ ~open /\ ~readable
  /\ watcher' = TRUE /\ toldOf' = "error" /\ ConsumeMarker(TRUE)
  /\ pass' = NoPass
  /\ UNCHANGED <<chat, readable, hour, wanted, open, cursor, hasCursor, stopped,
                 since, firedFor, excused, wrong, upsets>>

StillOpen ==
  /\ pass.phase = "begun" /\ ~stopped /\ pass.want # {} /\ open
  /\ pass' = [pass EXCEPT !.phase = "read"]
  /\ UNCHANGED <<chat, readable, hour, wanted, watcher, open, cursor, hasCursor, stopped,
                 toldOf, marker, since, firedFor, excused, notices, wrong, upsets>>

(* The newest row is read first and bounds the query; a failing read closes  *)
(* the database and leaves the cursor.                                       *)
TopRead ==
  /\ pass.phase = "read" /\ readable
  /\ pass' = [pass EXCEPT !.phase = "rows", !.top = Len(chat)]
  /\ UNCHANGED <<chat, readable, hour, wanted, watcher, open, cursor, hasCursor, stopped,
                 toldOf, marker, since, firedFor, excused, notices, wrong, upsets>>

ReadFails ==
  /\ pass.phase \in {"read", "rows"} /\ ~readable
  /\ open' = FALSE /\ toldOf' = "error" /\ pass' = NoPass
  /\ UNCHANGED <<chat, readable, hour, wanted, watcher, cursor, hasCursor, stopped,
                 marker, since, firedFor, excused, notices, wrong, upsets>>

NeverStale(i) == FALSE
TooOld(i) == hour - chat[i].born > MaxAge
Taken(i) == chat[i].who \in pass.want /\ chat[i].plain
RowsRead ==
  /\ pass.phase = "rows" /\ readable
  /\ pass' = [pass EXCEPT !.phase = "dispatch",
                          !.rows = {i \in cursor + 1..pass.top : Taken(i)}]
  /\ cursor' = pass.top
  /\ excused' = excused \cup {i \in cursor + 1..pass.top : ~Taken(i)}
  /\ UNCHANGED <<chat, readable, hour, wanted, watcher, open, hasCursor, stopped,
                 toldOf, marker, since, firedFor, notices, wrong, upsets>>

(* dispatch_imessage: stale rows are fenced off, the rest matched against    *)
(* the triggers enabled by now.                                              *)
Fires(i) == ~TooOld(i) /\ chat[i].who \in wanted
Dispatches ==
  /\ pass.phase = "dispatch" /\ pass.rows # {}
  /\ LET i == CHOOSE i \in pass.rows : \A j \in pass.rows : i <= j
     IN /\ pass' = [pass EXCEPT !.rows = @ \ {i}]
        /\ IF Fires(i)
           THEN /\ firedFor' = firedFor \cup {i} /\ UNCHANGED excused
                /\ wrong' = (wrong \/ i \in firedFor \/ i <= since)
           ELSE excused' = excused \cup {i} /\ UNCHANGED <<firedFor, wrong>>
  /\ UNCHANGED <<chat, readable, hour, wanted, watcher, open, cursor, hasCursor, stopped,
                 toldOf, marker, since, notices, upsets>>

PassEnds ==
  /\ pass.phase = "dispatch" /\ pass.rows = {}
  /\ pass' = NoPass
  /\ UNCHANGED <<chat, readable, hour, wanted, watcher, open, cursor, hasCursor, stopped,
                 toldOf, marker, since, firedFor, excused, notices, wrong, upsets>>

(* stop() waits for the lock a tick holds.                                   *)
WatcherStops ==
  /\ ~stopped /\ pass.phase \in {"none", "begun"}
  /\ stopped' = TRUE /\ open' = FALSE
  /\ UNCHANGED <<chat, readable, hour, wanted, watcher, cursor, hasCursor, pass,
                 toldOf, marker, since, firedFor, excused, notices, wrong, upsets>>

ChatNext ==
  \/ (\E s \in Senders, plain \in BOOLEAN : Arrives(s, plain))
  \/ HourPasses \/ AccessFlips \/ PassBegins \/ WatcherGoes \/ Opens \/ OpenDenied \/ StillOpen
  \/ TopRead \/ ReadFails \/ RowsRead \/ Dispatches \/ PassEnds \/ WatcherStops
  \/ (\E n \in 0..MaxRows : Replaced(n)) \/ (\E s \in Senders : Wants(s))

ChatSpec == ChatInit /\ [][ChatNext]_chatVars

ChatTypeOK ==
  /\ cursor \in 0..MaxRows /\ wanted \subseteq Senders /\ toldOf \in {"none", "connected", "error"}
  /\ open => watcher

(* Only what arrived while the watcher was watching fires, once: history -    *)
(* rows there before the first open, and those of a restored copy - never      *)
(* does (listeners.py:436-485, imessage.py:253-256).                           *)
HistoryNeverFires == ~wrong

(* No row that arrived since the watch began is skipped by the cursor without  *)
(* firing, unless nobody wanted it or it was stale: not by a read that failed  *)
(* half-way, nor by a database denied for a while (listeners.py:449-489).      *)
NothingPassedOver ==
  hasCursor => \A i \in since + 1..cursor :
                 i \in firedFor \/ i \in excused \/ i \in pass.rows

(* After stop() the database is never open again (listeners.py:551-574).      *)
StaysClosed == stopped => ~open

(* The re-grant notice is posted at most once, and never once the database    *)
(* could be opened (listeners.py:521-549).                                    *)
NoticedOnce == notices <= 1 /\ (toldOf = "connected" => ~marker)
================================================================================
