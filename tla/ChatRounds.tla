------------------------------ MODULE ChatRounds ------------------------------
(***************************************************************************)
(* A chat call with its repair rounds (drafting._chat_call,                *)
(* _chat_classify, validate_chat_files): each response's blocks are merged *)
(* over the valid ones kept from earlier rounds, the merged set is         *)
(* validated as a whole, and only what failed is asked for again.          *)
(***************************************************************************)
EXTENDS Naturals

CONSTANT RepairRounds    \* AUTOWRIGHT_REPAIR_ROUNDS

ASSUME RoundsAssumption == RepairRounds \in Nat

VARIABLES round,         \* the round being asked, 0 for the first call
          kept,          \* the valid blocks carried forward
          answer,        \* the carried prose: the round it came in
          outcome,       \* where the call stands
          payload,       \* what it settled with
          sent,          \* the newest block of each name a parsed response held
          spoke          \* the last round whose reply had prose and blocks to go with

chatVars == <<round, kept, answer, outcome, payload, sent, spoke>>

NoAnswer == [in |-> 0, is |-> "none"]
Names == {"spec.md", "notes.md", "actions.yaml", "stray"}
ChatFiles == Names \ {"stray"}

\* What a block of each name may be: actions that undo the draft, or that name
\* a parameter only a spec rewrite can bring, are judged with their company.
Kinds(f) == CASE f = "spec.md" -> {"none", "good", "bad"}
              [] f = "notes.md" -> {"none", "good"}
              [] f = "actions.yaml" -> {"none", "good", "bad", "undo", "early"}
              [] f = "stray" -> {"none", "bad"}

FencedBlock == {NoAnswer} \cup [in : 1..RepairRounds + 1, is : {"good", "bad", "undo", "early"}]
Outcomes == {"asking", "done", "blocked", "diagnosing", "diagnosed", "empty", "cancelled"}

ChatTypeOK ==
    /\ round \in 1..RepairRounds + 1
    /\ kept \in [Names -> FencedBlock] /\ sent \in [Names -> FencedBlock]
    /\ answer \in 0..RepairRounds + 1 /\ spoke \in 0..RepairRounds + 1
    /\ outcome \in Outcomes
    /\ payload.blocks \in [Names -> FencedBlock] /\ payload.answer \in 0..RepairRounds + 1

Nothing == [f \in Names |-> NoAnswer]

ChatInit == /\ round = 1 /\ kept = Nothing /\ answer = 0 /\ outcome = "asking"
            /\ payload = [blocks |-> Nothing, answer |-> 0]
            /\ sent = Nothing /\ spoke = 0

-----------------------------------------------------------------------------
(* validate_chat_files over a set of blocks.                               *)

Has(b, f) == b[f] /= NoAnswer

Conflict(b) == b["actions.yaml"].is = "undo" /\ (Has(b, "spec.md") \/ Has(b, "notes.md"))
TooEarly(b) == b["actions.yaml"].is = "early" /\ ~Has(b, "spec.md")

Bad(b) == {f \in Names : b[f].is = "bad"}
          \cup (IF Conflict(b) \/ TooEarly(b) THEN {"actions.yaml"} ELSE {})

Good(b) == [f \in Names |-> IF f \in ChatFiles \ Bad(b) THEN b[f] ELSE NoAnswer]

\* Latest wins.
Merge(old, new) == [f \in Names |-> IF Has(new, f) THEN new[f] ELSE old[f]]

\* The set the validator sees.
OnlyNew(new) == new
Judged(new) == Merge(kept, new)

-----------------------------------------------------------------------------
(* One response.                                                           *)

OneTooMany == round =< RepairRounds + 1
RoundsLeft == round =< RepairRounds

\* The next repair round, or the diagnosis when the rounds are used up.
AskAgain ==
    IF RoundsLeft THEN round' = round + 1 /\ outcome' = "asking"
    ELSE outcome' = "diagnosing" /\ UNCHANGED round

\* The envelope itself does not parse: everything is carried over as it was.
Malformed ==
    /\ outcome = "asking" /\ AskAgain
    /\ UNCHANGED <<kept, answer, payload, sent, spoke>>

\* A valid blocker envelope ends the call.
Blocked ==
    /\ outcome = "asking" /\ outcome' = "blocked"
    /\ UNCHANGED <<round, kept, answer, payload, sent, spoke>>

Settle(blocks, prose) ==
    /\ payload' = [blocks |-> blocks, answer |-> prose]
    /\ outcome' = IF blocks = Nothing /\ prose = 0 THEN "empty" ELSE "done"

\* No marker outside a fence: an answer, or the answer that settles what was kept.
ProseOnly == \E prose \in BOOLEAN :
    /\ outcome = "asking"
    /\ answer' = IF prose THEN round ELSE answer
    /\ spoke' = IF prose THEN round ELSE spoke
    /\ IF kept = Nothing
          THEN Settle(Nothing, IF prose THEN round ELSE 0) /\ UNCHANGED <<round, kept>>
          ELSE IF Bad(kept) = {}
               THEN Settle(kept, answer') /\ UNCHANGED <<round, kept>>
               ELSE AskAgain /\ kept' = Good(kept) /\ UNCHANGED payload
    /\ UNCHANGED sent

Offered(is) == [f \in Names |-> IF is[f] = "none" THEN NoAnswer ELSE [in |-> round, is |-> is[f]]]
ReplyKinds == {is \in [Names -> {"none", "good", "bad", "undo", "early"}] :
                  \A f \in Names : is[f] \in Kinds(f)}
Responses == {Offered(is) : is \in ReplyKinds} \ {Nothing}

WithBlocks == \E b \in Responses, prose \in BOOLEAN :
    /\ outcome = "asking"
    /\ answer' = IF prose THEN round ELSE answer
    /\ spoke' = IF prose THEN round ELSE spoke
    /\ sent' = Merge(sent, b)
    /\ IF Bad(Judged(b)) = {}
          THEN /\ Settle(Merge(kept, b), answer') /\ kept' = Merge(kept, b) /\ UNCHANGED round
          ELSE /\ AskAgain /\ kept' = Good(Merge(kept, b)) /\ UNCHANGED payload

\* The diagnosis answers with blockers, or the fallback one is built.
Diagnose ==
    /\ outcome = "diagnosing" /\ outcome' = "diagnosed"
    /\ UNCHANGED <<round, kept, answer, payload, sent, spoke>>

Cancel ==
    /\ outcome \in {"asking", "diagnosing"} /\ outcome' = "cancelled"
    /\ UNCHANGED <<round, kept, answer, payload, sent, spoke>>

ChatNext == Malformed \/ Blocked \/ ProseOnly \/ WithBlocks \/ Diagnose \/ Cancel
ChatSpec == ChatInit /\ [][ChatNext]_chatVars

-----------------------------------------------------------------------------
(* Whatever rounds it took, what settles is consistent as a whole: nothing *)
(* invalid, no undo beside a rewrite, no parameter without its spec.       *)
SettledIsValid == outcome = "done" => Bad(payload.blocks) = {}

(* The repair loses no block and revives none: a block that settles is the *)
(* newest the agent sent, and one that was sent last in good form settles. *)
NewestGoodBlockSettles ==
    outcome = "done" => \A f \in Names :
        /\ Has(payload.blocks, f) => payload.blocks[f] = sent[f]
        /\ f /= "actions.yaml" /\ sent[f].is = "good" => Has(payload.blocks, f)

(* The last prose the agent gave accompanies what settles.                 *)
LastProseSettles == outcome = "done" => payload.answer = spoke
=============================================================================
