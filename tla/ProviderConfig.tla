---------------------------- MODULE ProviderConfig ----------------------------
(***************************************************************************)
(* The shared opencode.json (harness.sync_opencode_ollama): agent calls of *)
(* the backend and of the executor processes merge the local model they    *)
(* need into one user file, under a thread lock of their process and an    *)
(* advisory lock beside the file; and the sign-in probe with its cache     *)
(* (harness.signed_in), one lock per provider.                             *)
(***************************************************************************)
EXTENDS Naturals

CONSTANTS Callers,      \* calls, each for a local model of its own
          ProcessOf,    \* [Callers -> process]: the backend, the executors
          Fresh,        \* _SIGNIN_CACHE_S, in ticks
          MaxProbes, MaxTime

ASSUME CallersAssumption == "nobody" \notin Callers /\ MaxProbes \in Nat /\ MaxTime \in Nat

VARIABLES file,         \* opencode.json: [kind, models]
          writable,     \* its directory can be written
          merge,        \* where each call is in the merge
          threadLock, fileLock,
          read,         \* what a call read
          truth,        \* whether the account is signed in right now
          poller,       \* where each poll of the sign-in state is
          probeLock, cache, probes, wall

mergeVars == <<file, writable, merge, threadLock, fileLock, read>>
probeVars == <<truth, poller, probeLock, cache, probes, wall>>
providerVars == <<mergeVars, probeVars>>

Nobody == "nobody"
Processes == {ProcessOf[c] : c \in Callers}
MergeSteps == {"start", "thread", "locked", "read", "ok", "failed"}

ProviderTypeOK ==
    /\ file \in [kind : {"absent", "json", "jsonc"}, models : SUBSET Callers]
    /\ writable \in BOOLEAN /\ merge \in [Callers -> MergeSteps]
    /\ threadLock \in [Processes -> Callers \cup {Nobody}]
    /\ fileLock \in Callers \cup {Nobody}
    /\ read \in [Callers -> SUBSET Callers]
    /\ truth \in BOOLEAN
    /\ poller \in [Callers -> {"away", "waiting", "probing", "yes", "no"}]
    /\ probeLock \in Callers \cup {Nobody}
    /\ cache \in [at : 0..MaxTime + 1, yes : BOOLEAN] /\ probes \in 0..MaxProbes
    /\ wall \in 0..MaxTime

ProviderInit ==
    /\ file \in [kind : {"absent", "json", "jsonc"}, models : {{}}]
    /\ writable \in BOOLEAN
    /\ merge = [c \in Callers |-> "start"]
    /\ threadLock = [p \in Processes |-> Nobody] /\ fileLock = Nobody
    /\ read = [c \in Callers |-> {}]
    /\ truth = FALSE /\ poller = [c \in Callers |-> "away"] /\ probeLock = Nobody
    /\ cache = [at |-> MaxTime + 1, yes |-> FALSE] /\ probes = 0 /\ wall = 0

Moves(c, from, to) == merge[c] = from /\ merge' = [merge EXCEPT ![c] = to]

-----------------------------------------------------------------------------
TakeThreadLock(c) ==
    /\ threadLock[ProcessOf[c]] = Nobody
    /\ Moves(c, "start", "thread")
    /\ threadLock' = [threadLock EXCEPT ![ProcessOf[c]] = c]
    /\ UNCHANGED <<file, writable, fileLock, read, probeVars>>

NoFileLock == TRUE
FileFree == fileLock = Nobody

\* A lock file that cannot be created leaves the body unlocked: the write
\* into the same directory then fails as well.
TakeFileLock(c) ==
    /\ Moves(c, "thread", "locked")
    /\ IF writable THEN FileFree /\ fileLock' = c ELSE UNCHANGED fileLock
    /\ UNCHANGED <<file, writable, threadLock, read, probeVars>>

Unlock(c) ==
    /\ threadLock' = [threadLock EXCEPT ![ProcessOf[c]] = Nobody]
    /\ fileLock' = IF fileLock = c THEN Nobody ELSE fileLock

\* A file with comments is left alone and the call fails; an entry already
\* there needs no write.
ReadConfig(c) ==
    /\ read' = [read EXCEPT ![c] = file.models]
    /\ \/ /\ file.kind = "jsonc" /\ Moves(c, "locked", "failed") /\ Unlock(c)
       \/ /\ file.kind /= "jsonc" /\ c \in file.models /\ Moves(c, "locked", "ok") /\ Unlock(c)
       \/ /\ file.kind /= "jsonc" /\ c \notin file.models /\ Moves(c, "locked", "read")
          /\ UNCHANGED <<threadLock, fileLock>>
    /\ UNCHANGED <<file, writable, probeVars>>

\* Everything read is written back with the one entry added, atomically.
WriteConfig(c) ==
    /\ IF writable
          THEN Moves(c, "read", "ok") /\ file' = [kind |-> "json", models |-> read[c] \cup {c}]
          ELSE Moves(c, "read", "failed") /\ UNCHANGED file
    /\ Unlock(c)
    /\ UNCHANGED <<writable, read, probeVars>>

\* The process of a call dies: the kernel drops its file lock.
Dies(c) ==
    /\ merge[c] \in {"locked", "read"}
    /\ merge' = [merge EXCEPT ![c] = "failed"] /\ Unlock(c)
    /\ UNCHANGED <<file, writable, read, probeVars>>

-----------------------------------------------------------------------------
(* The sign-in poll.                                                       *)

Ask(c) ==
    /\ poller[c] \in {"away", "yes", "no"} /\ probes < MaxProbes
    /\ poller' = [poller EXCEPT ![c] = "waiting"]
    /\ UNCHANGED <<mergeVars, truth, probeLock, cache, probes, wall>>

NoProbeLock == TRUE
LockFree == probeLock = Nobody
StillFresh == cache.at =< MaxTime /\ wall - cache.at < Fresh
Says(yes) == IF yes THEN "yes" ELSE "no"

FromCache(c) ==
    /\ poller[c] = "waiting" /\ LockFree /\ StillFresh
    /\ poller' = [poller EXCEPT ![c] = Says(cache.yes)]
    /\ UNCHANGED <<mergeVars, truth, probeLock, cache, probes, wall>>

Probe(c) ==
    /\ poller[c] = "waiting" /\ LockFree /\ ~StillFresh /\ probes < MaxProbes
    /\ probeLock' = c /\ probes' = probes + 1
    /\ poller' = [poller EXCEPT ![c] = "probing"]
    /\ UNCHANGED <<mergeVars, truth, cache, wall>>

\* The CLI answers, or is killed after its timeout and reads as signed out.
ProbeEnds(c) ==
    /\ poller[c] = "probing"
    /\ \E yes \in {truth, FALSE} :
          /\ cache' = [at |-> wall, yes |-> yes]
          /\ poller' = [poller EXCEPT ![c] = Says(yes)]
    /\ probeLock' = IF probeLock = c THEN Nobody ELSE probeLock
    /\ UNCHANGED <<mergeVars, truth, probes, wall>>

SignsIn ==
    /\ ~truth /\ truth' = TRUE
    /\ UNCHANGED <<mergeVars, poller, probeLock, cache, probes, wall>>

WallTick ==
    /\ wall < MaxTime /\ wall' = wall + 1
    /\ UNCHANGED <<mergeVars, truth, poller, probeLock, cache, probes>>

ProviderNext ==
    \/ \E c \in Callers : \/ TakeThreadLock(c) \/ TakeFileLock(c) \/ ReadConfig(c)
                          \/ WriteConfig(c) \/ Dies(c)
                          \/ Ask(c) \/ FromCache(c) \/ Probe(c) \/ ProbeEnds(c)
    \/ SignsIn \/ WallTick

ProviderSpec == ProviderInit /\ [][ProviderNext]_providerVars

-----------------------------------------------------------------------------
(* Calls of several processes merge their models at the same time and none *)
(* drops the entry another call was told is in place.                      *)
NoEntryIsDropped == \A c \in Callers : merge[c] = "ok" => c \in file.models

(* However many polls overlap, one probe process per provider runs.        *)
OneProbeRuns == \A c, d \in Callers : poller[c] = "probing" /\ poller[d] = "probing" => c = d
=============================================================================
