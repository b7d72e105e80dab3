-------------------------------- MODULE Launches --------------------------------
(***************************************************************************)
(* POST /app-started (backend/autowright/api.py): the desktop shell reports  *)
(* each of its launches under an id and retries until it is answered; every  *)
(* automation with an enabled app-start trigger fires once per launch.        *)
(***************************************************************************)
EXTENDS Integers, Sequences, FiniteSets, SequencesExt

CONSTANTS LaunchIds, Starters,   \* automations that hold an app-start trigger
          LaunchMemory,          \* _LAUNCH_MEMORY
          MaxSends               \* bound on requests
ASSUME LaunchesAssumption == LaunchMemory \in Nat \ {0} /\ MaxSends \in Nat

VARIABLES served,        \* _served_launches, oldest first
          requests,      \* requests being handled: id -> automations still to fire
          answeredIds,   \* launches whose caller got its answer
          starts,        \* ghost: <<launch, automation>> -> firings
          off,           \* automations whose trigger is switched off
          sends,
          crowded        \* ghost: launches forgotten while their caller still retried

launchVars == <<served, requests, answeredIds, starts, off, sends, crowded>>

LaunchInit ==
  /\ served = <<>> /\ requests = {} /\ answeredIds = {} /\ sends = 0 /\ crowded = {}
  /\ starts = [p \in LaunchIds \X Starters |-> 0]
  /\ off \in SUBSET Starters

NeverServed(l) == FALSE
Served(l) == Contains(served, l)

KeepsEvery(all) == all
Recent(all) == IF Len(all) > LaunchMemory THEN Tail(all) ELSE all

(* The first lock hold: a launch already served is answered at once.          *)
Arrive(l, lost) ==
  /\ sends < MaxSends /\ l \notin answeredIds
  /\ sends' = sends + 1
  /\ IF Served(l)
     THEN /\ answeredIds' = IF lost THEN answeredIds ELSE answeredIds \cup {l}
          /\ UNCHANGED <<served, requests, crowded>>
     ELSE LET all == Append(served, l)
              kept == Recent(all)
          IN /\ served' = kept
             /\ requests' = requests \cup {[of |-> l, n |-> sends + 1, todo |-> Starters]}
             /\ crowded' = crowded \cup (Range(all) \ Range(kept))
             /\ UNCHANGED answeredIds
  /\ UNCHANGED <<starts, off>>

(* Then every automation in turn; one that cannot start costs no other one.   *)
FireStarter(r, a, fails) ==
  /\ r \in requests /\ a \in r.todo
  /\ requests' = (requests \ {r}) \cup {[r EXCEPT !.todo = @ \ {a}]}
  /\ starts' = IF a \in off \/ fails THEN starts ELSE [starts EXCEPT ![<<r.of, a>>] = @ + 1]
  /\ UNCHANGED <<served, answeredIds, off, sends, crowded>>

(* The reply, which may be lost on its way: then the caller sends again.      *)
Reply(r, lost) ==
  /\ r \in requests /\ r.todo = {}
  /\ requests' = requests \ {r}
  /\ answeredIds' = IF lost THEN answeredIds ELSE answeredIds \cup {r.of}
  /\ UNCHANGED <<served, starts, off, sends, crowded>>

Switch(a) ==
  /\ off' = IF a \in off THEN off \ {a} ELSE off \cup {a}
  /\ UNCHANGED <<served, requests, answeredIds, starts, sends, crowded>>

LaunchNext ==
  \/ \E l \in LaunchIds, lost \in BOOLEAN : Arrive(l, lost)
  \/ \E r \in requests : \/ \E a \in Starters, fails \in BOOLEAN : FireStarter(r, a, fails)
                         \/ \E lost \in BOOLEAN : Reply(r, lost)
  \/ \E a \in Starters : Switch(a)

LaunchSpec == LaunchInit /\ [][LaunchNext]_launchVars

LaunchTypeOK ==
  /\ Len(served) <= LaunchMemory /\ answeredIds \subseteq LaunchIds
  /\ \A r \in requests : r.of \in LaunchIds /\ r.todo \subseteq Starters

(* However often a launch is reported, no automation starts twice for it, as   *)
(* long as its id has not fallen out of the memory (api.py:1815-1850).         *)
LaunchStartsOnce ==
  \A l \in LaunchIds \ crowded, a \in Starters : starts[<<l, a>>] <= 1
=================================================================================
