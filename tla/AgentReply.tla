------------------------------ MODULE AgentReply ------------------------------
(***************************************************************************)
(* The text an agent answers with: lines, of which only the markers and    *)
(* the code fences matter.  A file-writing CLI prints its prose and writes *)
(* its documents; harness._recombine joins them into one envelope, which   *)
(* drafting.parse_blockers and parse_envelope then read back.  The reply   *)
(* grows a line at a time, so every bounded reply is reached.  The second   *)
(* half scans the same text for the progress feed while it still arrives.   *)
(***************************************************************************)
EXTENDS Naturals, Sequences, FiniteSets, FiniteSetsExt, SequencesExt

CONSTANTS MaxLines,    \* lines the agent prints
          MaxBody      \* lines of its documents, together

ASSUME ReplyAssumption == MaxLines \in Nat /\ MaxBody \in Nat \ {0}

VARIABLES stdout,      \* what was printed, a sequence of lines
          docs         \* [Files -> body or None]

replyVars == <<stdout, docs>>

NoneFound == <<"none">>
Files == {"spec.md", "notes.md"}
Lines == {"text", "fence", "end", "blocked"} \cup Files   \* a file name: its ===FILE: line

ReplyTypeOK ==
    /\ stdout \in SeqOf(Lines, MaxLines)
    /\ docs \in [Files -> {NoneFound} \cup SeqOf(Lines, MaxBody)]

ReplyInit == stdout = <<>> /\ docs = [f \in Files |-> NoneFound]

Prints == /\ Len(stdout) < MaxLines
          /\ \E l \in Lines : stdout' = Append(stdout, l)
          /\ UNCHANGED docs

Size(f) == IF docs[f] = NoneFound THEN 0 ELSE Len(docs[f])

\* A document is any text: it may hold a line that reads as a marker.
Writes == \E f \in Files, l \in Lines :
    /\ Size("spec.md") + Size("notes.md") < MaxBody
    /\ docs' = [docs EXCEPT ![f] = IF @ = NoneFound THEN <<l>> ELSE Append(@, l)]
    /\ UNCHANGED stdout

ReplyNext == Prints \/ Writes
ReplySpec == ReplyInit /\ [][ReplyNext]_replyVars

-----------------------------------------------------------------------------
(* Markers.                                                                *)

Count(s, l) == Cardinality({i \in DOMAIN s : s[i] = l})
Fenced(s, i) == Count(SubSeq(s, 1, i - 1), "fence") % 2 = 1
LeftOpen(s) == Count(s, "fence") % 2 = 1

\* The first of the marks that stands outside every code fence; 0 when none.
First(set) == IF set = {} THEN 0 ELSE Min(set)
Outside(s, marks) == First({i \in DOMAIN s : s[i] \in marks /\ ~Fenced(s, i)})
FileMark(s) == Outside(s, Files)
BlockedMark(s) == Outside(s, {"blocked"})
EndAfter(s, i) == First({j \in DOMAIN s : j > i /\ s[j] = "end"})

-----------------------------------------------------------------------------
(* drafting.parse_envelope.                                                *)

\* A block wrapped in one code fence loses the two fence lines.
StripFence(c) ==
    IF Len(c) >= 2 /\ Head(c) = "fence" /\ Last(c) = "fence"
       THEN SubSeq(c, 2, Len(c) - 1) ELSE c

Marks(s) == {i \in DOMAIN s : i >= FileMark(s) /\ s[i] \in Files}
ParseOK(s) == FileMark(s) > 0 /\ EndAfter(s, Max(Marks(s))) > 0

Stops(s, m) == {j \in DOMAIN s : j > m /\ (s[j] = "end" \/ s[j] \in Files)}
Block(s, m) == StripFence(SubSeq(s, m + 1, Min(Stops(s, m)) - 1))
ParseEnvelope(s) ==
    [f \in Files |-> LET mine == {m \in Marks(s) : s[m] = f}
                     IN IF mine = {} THEN NoneFound ELSE Block(s, Max(mine))]

-----------------------------------------------------------------------------
(* drafting.parse_blockers: none, malformed, or blocked with the notes     *)
(* that ride beside it.                                                    *)

Beside(s) == LET m == BlockedMark(s) IN SubSeq(s, 1, m - 1) \o SubSeq(s, EndAfter(s, m) + 1, Len(s))
Body(s) == LET m == BlockedMark(s) IN SubSeq(s, m + 1, EndAfter(s, m) - 1)
OnlyNotes(s) == ParseOK(s) /\ ParseEnvelope(s)["spec.md"] = NoneFound

ParseBlockers(s) ==
    IF BlockedMark(s) = 0 THEN [is |-> "none", notes |-> NoneFound]
    ELSE IF \/ EndAfter(s, BlockedMark(s)) = 0
            \/ FileMark(Beside(s)) > 0 /\ ~OnlyNotes(Beside(s))
            \/ Body(s) = <<>> \/ ToSet(Body(s)) /= {"text"}
       THEN [is |-> "malformed", notes |-> NoneFound]
       ELSE [is |-> "blocked",
             notes |-> IF FileMark(Beside(s)) = 0 THEN NoneFound
                       ELSE ParseEnvelope(Beside(s))["notes.md"]]

-----------------------------------------------------------------------------
(* harness._recombine.                                                     *)

Prose(s) == IF FileMark(s) = 0 THEN s ELSE SubSeq(s, 1, FileMark(s) - 1)
LeavesOpen(p) == p
CloseFence(p) == IF LeftOpen(p) THEN Append(p, "fence") ELSE p
Framed(f) == IF docs[f] = NoneFound THEN <<>> ELSE <<f>> \o docs[f]

Recombine(s) ==
    IF BlockedMark(s) > 0
    THEN IF docs["notes.md"] = NoneFound THEN s ELSE s \o Framed("notes.md") \o <<"end">>
    ELSE IF docs["spec.md"] = NoneFound /\ docs["notes.md"] = NoneFound THEN s
    ELSE CloseFence(Prose(s)) \o Framed("notes.md") \o Framed("spec.md") \o <<"end">>

Canonical == Recombine(stdout)

-----------------------------------------------------------------------------
(* A document is framed as it stands: its own ===END=== line ends its block. *)
UpToEnd(c) == LET e == EndAfter(c, 0) IN IF e = 0 THEN c ELSE SubSeq(c, 1, e - 1)
Read(f) == IF docs[f] = NoneFound THEN NoneFound ELSE StripFence(UpToEnd(docs[f]))

\* It holds no line that opens another block, or a blocker.
Unmarked(f) == \A i \in DOMAIN docs[f] : docs[f][i] \notin Files \cup {"blocked"}

(* Whatever the agent printed beside them - a quoted marker, a fence left    *)
(* open, an envelope of its own - each document it wrote is what the         *)
(* validator reads, up to the document's own ===END=== line, unless the      *)
(* print is a blocker or a document holds a ===FILE: or ===BLOCKED=== line.  *)
DocumentsAreReadBack ==
    /\ BlockedMark(stdout) = 0
    /\ docs /= [f \in Files |-> NoneFound] /\ \A f \in Files : Unmarked(f)
    => /\ ParseBlockers(Canonical).is = "none"
       /\ ParseOK(Canonical)
       /\ ParseEnvelope(Canonical) = [f \in Files |-> Read(f)]

(* Notes written beside a printed blocker arrive with it, whatever the other *)
(* document holds: a well-formed blocker stays one and carries them (its     *)
(* print left no fence open).                                                *)
NotesRideTheBlocker ==
    /\ ParseBlockers(stdout) = [is |-> "blocked", notes |-> NoneFound]
    /\ docs["notes.md"] /= NoneFound /\ Unmarked("notes.md")
    /\ ~LeftOpen(Beside(stdout)) /\ FileMark(Beside(stdout)) = 0
    => ParseBlockers(Canonical) = [is |-> "blocked", notes |-> Read("notes.md")]

-----------------------------------------------------------------------------
(* The incremental marker scan behind the drafting progress feed           *)
(* (drafting._StreamScanner): chunks arrive cut anywhere, only an overlap   *)
(* window is looked at again, and a mark that touches the end of the text  *)
(* is provisional.  A marker line begins with an opener and ends with a    *)
(* closer ("===FILE: name" and "===").                                     *)

CONSTANTS MaxText, MaxChunk,
          Overlap        \* _OVERLAP
ASSUME ScanAssumption == MaxText \in Nat /\ MaxChunk \in Nat /\ Overlap \in Nat

VARIABLES text,          \* everything fed so far
          marks,         \* the marks found: start, and end (exclusive)
          tailStart      \* where the retained tail begins

scanVars == <<text, marks, tailStart>>
Tokens == {"open", "close", "newline"}

ScanTypeOK ==
    /\ text \in SeqOf(Tokens, MaxText)
    /\ \A i \in DOMAIN marks : marks[i] \in [at : 1..MaxText, to : 1..MaxText + 1]
    /\ tailStart \in 1..MaxText + 1

ScanInit == text = <<>> /\ marks = <<>> /\ tailStart = 1

-----------------------------------------------------------------------------
LineStart(t, i) == i = 1 \/ t[i - 1] = "newline"
LineEnd(t, i) == CHOOSE e \in i..Len(t) : (e = Len(t) \/ t[e + 1] = "newline")
                                         /\ \A k \in i..e : t[k] /= "newline"

\* FILE_MARK_RE at i.
Matches(t, i) ==
    i \in DOMAIN t /\ LineStart(t, i) /\ t[i] = "open" /\ t[LineEnd(t, i)] = "close"

\* Its \s*$ runs over the blank lines that follow, up to the end of the text
\* or to the last line break before the next word.
MatchEnd(t, i) ==
    LET last == LineEnd(t, i)
        run == {k \in last + 1..Len(t) : \A n \in last + 1..k : t[n] = "newline"}
    IN IF run = {} THEN last + 1
       ELSE IF Max(run) = Len(t) THEN Len(t) + 1 ELSE Max(run)

Found(t, from) == {i \in from..Len(t) : Matches(t, i)}
Mark(t, i) == [at |-> i, to |-> MatchEnd(t, i)]

\* The last mark touched the old end: matched again, it grows or is dropped.
KeepsMarks(t, ms) == ms
Reverify(t, ms) ==
    IF ms = <<>> \/ Last(ms).to =< Len(text) THEN ms
    ELSE IF Matches(t, Last(ms).at)
         THEN Append(Front(ms), Mark(t, Last(ms).at))
         ELSE Front(ms)

\* The window: the overlap, back to a line start inside the tail.
WindowStart(t) ==
    LET cut == IF Len(text) > Overlap THEN Len(text) - Overlap + 1 ELSE 1
        starts == {i \in tailStart..cut : LineStart(t, i)}
    IN IF starts = {} THEN tailStart ELSE Max(starts)

\* The members of a set of positions from the first to the last.
InOrder(S) == {q \in [1..Cardinality(S) -> S] : \A i, j \in DOMAIN q : i < j => q[i] < q[j]}

Feed == \E n \in 1..MaxChunk, c \in [1..MaxChunk -> Tokens] :
    LET t == text \o SubSeq(c, 1, n)
        kept == Reverify(t, marks)
        seen == IF kept = <<>> THEN 0 ELSE Last(kept).at
        new == {i \in Found(t, WindowStart(t)) : i > seen}
    IN /\ Len(text) + n =< MaxText
       /\ text' = t
       /\ \E q \in InOrder(new) : marks' = kept \o [k \in DOMAIN q |-> Mark(t, q[k])]
       /\ tailStart' = WindowStart(t)

ScanNext == Feed
ScanSpec == ScanInit /\ [][ScanNext]_scanVars

-----------------------------------------------------------------------------
(* However the stream is cut into chunks, the marks are those a scan of    *)
(* the whole text finds, in order.                                         *)
ScanAgrees ==
    /\ ToSet(marks) = {Mark(text, i) : i \in Found(text, 1)}
    /\ \A i, j \in DOMAIN marks : i < j => marks[i].at < marks[j].at
=============================================================================
