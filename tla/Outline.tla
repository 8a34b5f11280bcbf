------------------------------ MODULE Outline ------------------------------
(***************************************************************************)
(* From a story's raw text to its document tree: domain/chunking.py, the   *)
(* paragraph rule of domain/parsing.py, and the splicing the chunking      *)
(* coordinator does around a model's proposal (agents/                     *)
(* chunking_coordinator.py).  Pure operators, no state.                    *)
(*                                                                         *)
(* A text is a sequence of lines.  A line is prose (its id names its       *)
(* words), blank, or a heading: "story" (#), "chapter" (##), "scene" (###),*)
(* whose id is its title, NoTitle when nothing follows the hashes.         *)
(***************************************************************************)
EXTENDS Integers, Sequences, FiniteSets, SequencesExt

NoTitle == 0

\* The title a model gives to a scene it proposes: it has no place in the text.
Proposed == -1

Line == [kind : {"prose", "blank", "story", "chapter", "scene"}, id : Nat]

IsBlank(line) == line.kind = "blank"

\* split_paragraphs: the maximal runs of lines that are not blank, in order.
Blocks(text) ==
    LET starts == {i \in DOMAIN text : ~IsBlank(text[i]) /\ (i = 1 \/ IsBlank(text[i - 1]))}
        end(i) == CHOOSE j \in i..Len(text) :
                     /\ \A k \in i..j : ~IsBlank(text[k])
                     /\ j = Len(text) \/ IsBlank(text[j + 1])
        order == SetToSortSeq(starts, <) IN
    [k \in DOMAIN order |-> SubSeq(text, order[k], end(order[k]))]

Scene(title, paragraphs) == [title |-> title, paragraphs |-> paragraphs]
Chapter(title, scenes) == [title |-> title, scenes |-> scenes]

-----------------------------------------------------------------------------
(* parse_manual_outline *)

\* current_chapter, current_scene: the last one, opened untitled when there is none yet.
WithChapter(chapters) == IF chapters = <<>> THEN <<Chapter(NoTitle, <<>>)>> ELSE chapters
WithScene(scenes) == IF scenes = <<>> THEN <<Scene(NoTitle, <<>>)>> ELSE scenes

\* The last chapter of a tree with f of its scenes, the last scene with more paragraphs.
AddScene(chapters, scene) ==
    LET open == WithChapter(chapters)
        last == Last(open) IN
    Append(Front(open), Chapter(last.title, Append(last.scenes, scene)))

AddParagraphs(chapters, paragraphs) ==
    LET open == WithChapter(chapters)
        last == Last(open)
        scenes == WithScene(last.scenes)
        scene == Scene(Last(scenes).title, Last(scenes).paragraphs \o paragraphs) IN
    Append(Front(open), Chapter(last.title, Append(Front(scenes), scene)))

\* flush: the buffered prose becomes paragraphs of the scene in hand; nothing opens for
\* a buffer of blank lines.
Flush(acc) ==
    LET paragraphs == Blocks(acc.buffer) IN
    [chapters |-> IF paragraphs = <<>> THEN acc.chapters
                  ELSE AddParagraphs(acc.chapters, paragraphs),
     buffer |-> <<>>]

\* One line: a # line is dropped without a flush, so the prose around it joins up.
ReadLine(acc, line) ==
    CASE line.kind \in {"prose", "blank"} -> [acc EXCEPT !.buffer = Append(@, line)]
      [] line.kind = "story"   -> acc
      [] line.kind = "chapter" -> LET f == Flush(acc) IN
            [f EXCEPT !.chapters = Append(@, Chapter(line.id, <<>>))]
      [] line.kind = "scene"   -> LET f == Flush(acc) IN
            [f EXCEPT !.chapters = AddScene(@, Scene(line.id, <<>>))]

ParseManual(text) ==
    Flush(FoldLeft(ReadLine, [chapters |-> <<>>, buffer |-> <<>>], text)).chapters

-----------------------------------------------------------------------------
(* A model's proposal: chapters of scenes, each a range of paragraph numbers from 0 *)

\* The schema: a range is ordered and not negative.
WellFormed(proposal) ==
    \A c \in DOMAIN proposal : \A s \in DOMAIN proposal[c] :
        LET range == proposal[c][s] IN 0 <= range[1] /\ range[1] <= range[2]

\* paragraph_range_problem: a range past the end, or a paragraph in no range.
RangeProblem(proposal, count) ==
    LET ranges == UNION {ToSet(proposal[c]) : c \in DOMAIN proposal} IN
    \/ \E range \in ranges : range[2] >= count
    \/ \E p \in 0..(count - 1) : \A range \in ranges : p \notin range[1]..range[2]

\* proposal_to_outline
ToOutline(proposal, blocks) ==
    [c \in DOMAIN proposal |-> Chapter(Proposed,
       [s \in DOMAIN proposal[c] |->
          Scene(Proposed, SubSeq(blocks, proposal[c][s][1] + 1, proposal[c][s][2] + 1))])]

AllScenes(chapters) == FlattenSeq([c \in DOMAIN chapters |-> chapters[c].scenes])

\* The scenes _fill_untitled gives to the model, in the order it asks.
IsUntitled(scene) == scene.title = NoTitle /\ scene.paragraphs # <<>>
Untitled(chapters) == SelectSeq(AllScenes(chapters), IsUntitled)

\* What is proposed one after the other: the whole text, or each untitled scene's
\* paragraphs; nothing at all for a manual outline.  parsed is ParseManual(text).
ToPropose(mode, text, parsed) ==
    CASE mode = "manual" -> <<>>
      [] mode = "auto"   -> <<Blocks(text)>>
      [] mode = "hybrid" -> LET scenes == Untitled(parsed) IN
                            [i \in DOMAIN scenes |-> scenes[i].paragraphs]

\* _fill_untitled with the outlines proposed for the untitled scenes, in order.
FillUntitled(chapters, fills) ==
    LET rank(c, s) == Len(Untitled(SubSeq(chapters, 1, c - 1))) +
            Cardinality({i \in 1..s : IsUntitled(chapters[c].scenes[i])})
        filled(c) == Chapter(chapters[c].title,
            FlattenSeq([s \in DOMAIN chapters[c].scenes |->
                IF IsUntitled(chapters[c].scenes[s]) THEN AllScenes(fills[rank(c, s)])
                ELSE <<chapters[c].scenes[s]>>]))
        keeps(chapter) == chapter.scenes # <<>> \/ chapter.title # NoTitle IN
    SelectSeq([c \in DOMAIN chapters |-> filled(c)], keeps)

\* build_outline once every proposal is in.
BuildOutline(mode, parsed, fills) ==
    CASE mode = "manual" -> parsed
      [] mode = "auto"   -> fills[1]
      [] mode = "hybrid" -> FillUntitled(parsed, fills)

-----------------------------------------------------------------------------
(* What a tree must keep of its text, said without the parser *)

\* Every line of content of a tree, in reading order (list_story_paragraphs).
Content(tree) ==
    LET scenes == AllScenes(tree) IN
    FlattenSeq(FlattenSeq([s \in DOMAIN scenes |-> scenes[s].paragraphs]))

IsProse(line) == line.kind = "prose"
ProseOf(text) == SelectSeq(text, IsProse)

\* The heading of this kind that a line of the text stands under: the last one before it
\* with no heading of a higher kind in between.
TitleAt(text, i, kind, higher) ==
    LET above == {j \in 1..(i - 1) : /\ text[j].kind = kind
                                     /\ \A k \in j..i : text[k].kind \notin higher} IN
    IF above = {} THEN NoTitle ELSE text[CHOOSE j \in above : \A k \in above : k <= j].id

\* Each line of prose is in the tree in a chapter and a scene of its own headings' titles; a
\* scene without one may have got the model's.
UnderItsHeadings(tree, text) ==
    \A i \in DOMAIN text : IsProse(text[i]) =>
        \E c \in DOMAIN tree : \E s \in DOMAIN tree[c].scenes :
            LET scene == tree[c].scenes[s]
                title == TitleAt(text, i, "scene", {"chapter"}) IN
            /\ tree[c].title = TitleAt(text, i, "chapter", {})
            /\ scene.title = title \/ (title = NoTitle /\ scene.title = Proposed)
            /\ \E p \in DOMAIN scene.paragraphs : text[i] \in ToSet(scene.paragraphs[p])

\* Manual chunking keeps the prose in its order; a model may reorder or repeat paragraphs
\* but loses none, and hybrid chunking keeps the prose under the author's headings.
TreeKeepsText(tree, text, mode) ==
    CASE mode = "manual" -> Content(tree) = ProseOf(text) /\ UnderItsHeadings(tree, text)
      [] mode = "hybrid" -> UnderItsHeadings(tree, text)
      [] mode = "auto"   -> \A i \in DOMAIN text :
                               IsBlank(text[i]) \/ text[i] \in ToSet(Content(tree))

\* The author's titled chapters and scenes, in order.
Anchors(text, kind) ==
    SelectSeq(text, LAMBDA line : line.kind = kind /\ line.id # NoTitle)
=============================================================================
