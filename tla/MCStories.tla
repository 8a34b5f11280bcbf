----------------------------- MODULE MCStories -----------------------------
(* Instances of Stories for TLC. *)
EXTENDS Stories

CONSTANTS u1, p0, r1, r2

L(kind, id) == [kind |-> kind, id |-> id]
P(id) == L("prose", id)
Blank == L("blank", 0)

\* Two unmarked paragraphs.
Unmarked == <<P(1), Blank, P(2)>>

\* Prose before the first heading, a titled chapter with prose of its own, a scene with a
\* title and a second line of # inside it.
Marked == <<P(1), L("chapter", 7), P(2), Blank, L("scene", 8), P(3), L("story", 9), P(4)>>

\* A titled scene before any chapter, a chapter with neither title nor text, and one with an
\* untitled scene of two paragraphs.
Half == <<L("scene", 8), P(1), P(4), L("chapter", 0), L("chapter", 7), L("scene", 0),
          P(2), Blank, P(3)>>

\* Nothing but a title: no chapter comes of it.
Empty == <<L("story", 9)>>

MCTexts == {Unmarked, Marked, Half}

\* With a text that leaves its story free to be structured again.
WithEmpty == {Unmarked, Empty}

MCProposals ==
    { <<>>,                             \* no chapter
      << << <<0, 0>> >> >>,             \* the first paragraph only
      << << <<0, 1>>, <<1, 1>> >> >>,   \* two paragraphs, the second one twice
      << << <<1, 1>> >>, << <<0, 0>> >> >>,   \* two chapters, in the wrong order
      << << <<1, 0>> >> >> }            \* not a range

\* The hypothesis of the theorem about whole stories holds of these texts.
ASSUME MCChunkingIsFaithful == Texts = MCTexts => ChunkingIsFaithful
=============================================================================
