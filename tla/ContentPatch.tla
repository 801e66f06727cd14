---------------------------- MODULE ContentPatch ----------------------------
(***************************************************************************)
(* Revisions kept as line diffs (rblog-content: patch.rs and               *)
(* content_wrapper.rs).  A head snapshot holds what turns the text of the  *)
(* base into its own, as diff packed it into deltas; compose applies them. *)
(* diff takes a text as lines that may end in a newline, a carriage return *)
(* or both, apply as what is between newlines.  Raw text and rendered      *)
(* content go the same way, so that one text stands for both.              *)
(***************************************************************************)
EXTENDS Server, Sorting

CONSTANTS
    Heads,      \* names of snapshots that are not the base
    Words,      \* what lines have but their ends
    Blank,      \* the empty word
    Pieces,     \* bound: the pieces that texts are made of
    MaxTokens   \* bound: the longest text

\* A word and, perhaps, the carriage return behind it. What is between newlines is
\* one piece, or several: all but the last of them have a return.
Piece == [text : Words \cup {Blank}, return : BOOLEAN]
Line == Seq(Piece)
EmptyLine == <<[text |-> Blank, return |-> FALSE]>>

\* What TextDiff::from_lines makes of a text: pieces, all of them with a newline or a
\* return but the last one, which may have neither if it is not empty. A return and
\* the newline behind it are one end.
Token == [line : {<<p>> : p \in Pieces}, newline : BOOLEAN]
Documents ==
    {t \in UNION {[1..n -> Token] : n \in 0..MaxTokens} :
        \A i \in DOMAIN t : ~t[i].newline =>
            /\ t[i].line[1].return \/ (i = Len(t) /\ t[i].line # EmptyLine)
            /\ i < Len(t) => t[i + 1] # [line |-> EmptyLine, newline |-> TRUE]}

\* No return is an end by itself but the last one.
Unbroken(t) == \A i \in DOMAIN t : i < Len(t) => t[i].newline

\* The deltas of a head: where each one is in the two texts, and its chunks.
Deltas == Seq([source : Nat, target : Nat, deleted : Seq(Line), inserted : Seq(Line)])

ASSUME ContentPatchAssumption ==
    /\ MaxTokens \in Nat
    /\ Blank \notin Words
    /\ Pieces \subseteq Piece
    /\ None \notin Documents
    /\ None \notin Deltas

VARIABLES
    base,       \* the text of the base snapshot
    heads,      \* the deltas of the others, None before they are saved
    meant       \* history: the text each was saved with

patchVars == <<base, heads, meant>>

EndsInNewline(t) == t # <<>> /\ t[Len(t)].newline

LinesOf(t) == [i \in DOMAIN t |-> t[i].line]

\* What is between the newlines: a token without one goes on in the next.
BetweenNewlines(t) ==
    LET lines[i \in 0..Len(t)] ==
            IF i = 0 THEN <<>>
            ELSE IF i = 1 \/ t[i - 1].newline THEN Append(lines[i - 1], t[i].line)
            ELSE Append(Front(lines[i - 1]), Last(lines[i - 1]) \o t[i].line)
    IN lines[Len(t)]

\* Mutant: a newline at the end begins no line.
SplitLines_NoLast(t) == BetweenNewlines(t)

\* split('\n'), of which a text that ends in a newline has an empty line last.
SplitLines(t) == BetweenNewlines(t) \o (IF EndsInNewline(t) THEN <<EmptyLine>> ELSE <<>>)

\* The tokens of a line, of which the last one gets the newline.
TokensOf(line, newline) ==
    [i \in DOMAIN line |-> [line |-> <<line[i]>>, newline |-> newline /\ i = Len(line)]]

\* join("\n"): an empty last line is the newline before it.
JoinLines(lines) ==
    LET tokens == FlattenSeq([i \in DOMAIN lines |-> TokensOf(lines[i], i < Len(lines))])
    IN IF lines # <<>> /\ Last(lines) = EmptyLine THEN Front(tokens) ELSE tokens

-----------------------------------------------------------------------------
\* What a diff of two texts may leave as equal: pairs of equal lines, in order.
\* Which ones it takes is up to the `similar' crate.
Alignments(old, new) ==
    {a \in SeqOf({p \in (DOMAIN old) \X (DOMAIN new) : old[p[1]] = new[p[2]]}, Len(old)) :
        \A i, j \in DOMAIN a : i < j => a[i][1] < a[j][1] /\ a[i][2] < a[j][2]}

\* A Delta: where its chunks are in the two texts, and their lines, which lose their
\* newline (strip_trailing_newline). Its kind is that of its two chunks: INSERT if
\* nothing is deleted, DELETE if nothing is inserted, CHANGE otherwise.
Delta(source, target, deleted, inserted) ==
    [source |-> source, target |-> target,
     deleted |-> LinesOf(deleted), inserted |-> LinesOf(inserted)]

\* diff: a delta for each block between lines that are equal, flushed at the next one
\* or at the end.
Diff(old, new, aligned) ==
    LET cuts == <<<<0, 0>>>> \o aligned \o <<<<Len(old) + 1, Len(new) + 1>>>>
        deltas[i \in 1..Len(cuts)] ==
            IF i = 1 THEN <<>>
            ELSE LET from == cuts[i - 1]
                     to == cuts[i]
                     deleted == SubSeq(old, from[1] + 1, to[1] - 1)
                     inserted == SubSeq(new, from[2] + 1, to[2] - 1)
                 IN IF deleted = <<>> /\ inserted = <<>> THEN deltas[i - 1]
                    ELSE Append(deltas[i - 1],
                                Delta(from[1], from[2], deleted, inserted))
    IN deltas[Len(cuts)]

\* apply_deltas has come to a delta: the lines before it, then what it inserts.
ApplyDelta(s, d, lines) ==
    LET from == Max({s.cursor, d.source})
        to == from + Len(d.deleted)
    IN IF s.failed \/ d.source > Len(lines) \/ to > Len(lines)
       THEN [s EXCEPT !.failed = TRUE]
       ELSE [failed |-> FALSE, cursor |-> to,
             output |-> s.output \o SubSeq(lines, s.cursor + 1, d.source) \o d.inserted]

\* apply_deltas; None stands for PatchError::Apply.
ApplyDeltas(t, deltas) ==
    LET lines == SplitLines(t)
        sorted == StableSort(deltas, {p \in ToSet(deltas) \X ToSet(deltas) : p[1].source < p[2].source})
        applied[i \in 0..Len(sorted)] ==
            IF i = 0 THEN [failed |-> FALSE, cursor |-> 0, output |-> <<>>]
            ELSE ApplyDelta(applied[i - 1], sorted[i], lines)
        end == applied[Len(sorted)]
    IN IF end.failed THEN None
       ELSE JoinLines(end.output \o SubSeq(lines, end.cursor + 1, Len(lines)))

\* compose_snapshot of a head and the base it was saved on.
ComposeSnapshot(h) == ApplyDeltas(base, heads[h])

PatchInit ==
    /\ base \in Documents
    /\ heads = [h \in Heads |-> None]
    /\ meant = heads

\* A head is saved as the diff from the base.
SaveHead ==
    \E h \in Heads, new \in Documents :
        \E aligned \in Alignments(base, new) :
            /\ heads' = [heads EXCEPT ![h] = Diff(base, new, aligned)]
            /\ meant' = [meant EXCEPT ![h] = new]
            /\ UNCHANGED base

PatchSpec == PatchInit /\ [][SaveHead]_patchVars

-----------------------------------------------------------------------------
(* Properties.                                                             *)

PatchTypeOK ==
    /\ base \in Documents
    /\ heads \in [Heads -> Deltas \cup {None}]
    /\ meant \in [Heads -> Documents \cup {None}]
    /\ \A h \in Heads : heads[h] = None <=> meant[h] = None

\* Whatever lines the diff matched, its deltas apply and give the text that the
\* head was saved with (diff_then_apply_round_trips), provided that no return in the
\* two texts is an end by itself, and that both end in a newline or neither does:
\* otherwise the last newline is that of the base.
RoundTrips ==
    \A h \in Heads : heads[h] # None /\ Unbroken(base) /\ Unbroken(meant[h]) =>
        IF EndsInNewline(base) = EndsInNewline(meant[h])
        THEN ComposeSnapshot(h) = meant[h]
        ELSE LinesOf(ComposeSnapshot(h)) \in
                 {LinesOf(meant[h]), Front(LinesOf(meant[h]))}
=============================================================================
