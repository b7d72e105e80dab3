----------------------------- MODULE DraftSwap -----------------------------
(***************************************************************************)
(* The draft's working copy on disk, src/backend/autowright/storage.py:    *)
(* save_draft writes the new copy whole beside the old one and swaps it in *)
(* with two renames, _recover_draft_swap repairs what a crash left of      *)
(* that, delete_draft removes the container.  A container belongs to an    *)
(* automation (its directory goes in one rename, its draft is also held in *)
(* memory) or is the pending slot of the create flow (its children go one  *)
(* by one, its draft is read from disk each time).                         *)
(*                                                                         *)
(* A copy is the number of the save that wrote it; Part stands for a copy  *)
(* still being written.                                                    *)
(***************************************************************************)
EXTENDS Integers

CONSTANTS MaxSaves,         \* saves ever made
          MaxSwapUpsets     \* failed renames or writes, and crashes

ASSUME SwapAssumption == MaxSaves \in Nat /\ MaxSwapUpsets \in Nat

Gone == 0
Part == -1
Copies == {Gone, Part} \cup 1..MaxSaves

VARIABLES
  owner,       \* "automation" or "pending"
  dd,          \* draft/automation
  asideCopy,   \* draft/.ad-old-automation
  staged,      \* draft/.ad-new-automation
  draft,       \* in memory: a["draft"]
  swap,        \* the next write of the operation under way
  saved,       \* copies made so far
  answered,    \* the copy last answered as saved, Gone after a delete
  doubtful,    \* copies whose save failed or was cut off since then
  swapUpsets

swapVars == <<owner, dd, asideCopy, staged, draft, swap, saved, answered, doubtful,
              swapUpsets>>

SwapInit ==
  /\ owner \in {"automation", "pending"}
  /\ dd = Gone /\ asideCopy = Gone /\ staged = Gone /\ draft = Gone
  /\ swap = "none" /\ saved = 0 /\ answered = Gone /\ doubtful = {} /\ swapUpsets = 0

(* _recover_draft_swap: the copy set aside comes back when the other never *)
(* took its place; what else is left over is stale.                        *)
NeverRecovered == dd
RecoveredDraft == IF dd = Gone THEN asideCopy ELSE dd
Recover == dd' = RecoveredDraft /\ asideCopy' = Gone /\ staged' = Gone

SaveDraft ==
  /\ swap = "none" /\ saved < MaxSaves
  /\ Recover
  /\ saved' = saved + 1 /\ doubtful' = doubtful \cup {saved'} /\ swap' = "write"
  /\ UNCHANGED <<owner, draft, answered, swapUpsets>>

WriteNew ==
  /\ swap = "write" /\ staged' = Part /\ swap' = "manifest"
  /\ UNCHANGED <<owner, dd, asideCopy, draft, saved, answered, doubtful, swapUpsets>>

WholeNew ==
  /\ swap = "manifest" /\ staged' = saved /\ swap' = "aside"
  /\ UNCHANGED <<owner, dd, asideCopy, draft, saved, answered, doubtful, swapUpsets>>

SetOldAside ==
  /\ swap = "aside" /\ asideCopy' = dd /\ dd' = Gone /\ swap' = "move"
  /\ UNCHANGED <<owner, staged, draft, saved, answered, doubtful, swapUpsets>>

MoveNewIn ==
  /\ swap = "move" /\ dd' = staged /\ staged' = Gone /\ swap' = "reap"
  /\ UNCHANGED <<owner, asideCopy, draft, saved, answered, doubtful, swapUpsets>>

ReapOld ==
  /\ swap = "reap" /\ asideCopy' = Gone /\ swap' = "none"
  /\ draft' = IF owner = "automation" THEN dd ELSE Gone
  /\ answered' = saved /\ doubtful' = {}
  /\ UNCHANGED <<owner, dd, staged, saved, swapUpsets>>

(* delete_draft: an automation's container is renamed away whole.          *)
DeleteContainer ==
  /\ swap = "none" /\ owner = "automation"
  /\ dd' = Gone /\ asideCopy' = Gone /\ staged' = Gone /\ draft' = Gone
  /\ answered' = Gone /\ doubtful' = {}
  /\ UNCHANGED <<owner, swap, saved, swapUpsets>>

(* The pending slot's children, in the order the directory lists them.     *)
DeleteStarts ==
  /\ swap = "none" /\ owner = "pending" /\ swap' = "empty"
  /\ UNCHANGED <<owner, dd, asideCopy, staged, draft, saved, answered, doubtful, swapUpsets>>

DeleteChild ==
  /\ swap = "empty"
  /\ \/ dd # Gone /\ dd' = Gone /\ UNCHANGED <<asideCopy, staged>>
     \/ asideCopy # Gone /\ asideCopy' = Gone /\ UNCHANGED <<dd, staged>>
     \/ staged # Gone /\ staged' = Gone /\ UNCHANGED <<dd, asideCopy>>
  /\ doubtful' = doubtful \cup {Gone}
  /\ UNCHANGED <<owner, draft, swap, saved, answered, swapUpsets>>

DeleteEnds ==
  /\ swap = "empty" /\ <<dd, asideCopy, staged>> = <<Gone, Gone, Gone>>
  /\ swap' = "none" /\ answered' = Gone /\ doubtful' = {}
  /\ UNCHANGED <<owner, dd, asideCopy, staged, draft, saved, swapUpsets>>

(* load_pending_draft, pending_draft_summary: recovered, then read.        *)
ReadPending ==
  /\ swap = "none" /\ owner = "pending" /\ Recover
  /\ UNCHANGED <<owner, draft, swap, saved, answered, doubtful, swapUpsets>>

(* A write or a rename fails: the operation ends there, with an error.     *)
SwapFails ==
  /\ swap # "none" /\ swapUpsets < MaxSwapUpsets
  /\ swap' = "none" /\ swapUpsets' = swapUpsets + 1
  /\ UNCHANGED <<owner, dd, asideCopy, staged, draft, saved, answered, doubtful>>

(* The process dies and starts again: an automation's load recovers and    *)
(* reads its draft, the pending slot waits for its first reader.           *)
SwapCrash ==
  /\ swapUpsets < MaxSwapUpsets /\ swapUpsets' = swapUpsets + 1
  /\ swap' = "none"
  /\ IF owner = "automation" THEN Recover /\ draft' = RecoveredDraft
                             ELSE UNCHANGED <<dd, asideCopy, staged, draft>>
  /\ UNCHANGED <<owner, saved, answered, doubtful>>

SwapNext ==
  \/ SaveDraft \/ WriteNew \/ WholeNew \/ SetOldAside \/ MoveNewIn \/ ReapOld
  \/ DeleteContainer \/ DeleteStarts \/ DeleteChild \/ DeleteEnds
  \/ ReadPending \/ SwapFails \/ SwapCrash

SwapSpec == SwapInit /\ [][SwapNext]_swapVars

-----------------------------------------------------------------------------
(* Every variable has its type.                                            *)
SwapTypeOK ==
  /\ owner \in {"automation", "pending"}
  /\ {dd, asideCopy, staged, draft, answered} \subseteq Copies
  /\ swap \in {"none", "write", "manifest", "aside", "move", "reap", "empty"}
  /\ saved \in 0..MaxSaves /\ doubtful \subseteq Copies /\ swapUpsets \in 0..MaxSwapUpsets

(* Whatever fails and wherever the process dies, the draft a reader would  *)
(* be given is the one last answered as saved or one whose save never got  *)
(* its answer; never a part of one, never nothing, never an older or a     *)
(* deleted one; and the copy held in memory is one of those too.           *)
DraftSurvives ==
  /\ RecoveredDraft \in {answered} \cup doubtful /\ RecoveredDraft # Part
  /\ owner = "automation" => draft \in {answered} \cup doubtful

=============================================================================
