------------------------------- MODULE Bbcode -------------------------------
(***************************************************************************)
(* bbcode.c: the text of a post is turned into HTML in one pass, with a    *)
(* stack of the tags that are open.  A step is a turn of the loop; what    *)
(* stands next in the text is anything.  Left out: the characters that are *)
(* printed, and post_id of a reference.                                    *)
(***************************************************************************)
EXTENDS Naturals, Sequences, SequencesExt

CONSTANTS Tag,       \* TAGS without "code", and without ">", the tag of a quote
          MaxOpen    \* bound: tags open, and levels of a quote

ASSUME BbcodeAssumption == Tag \cap {"code", ">"} = {} /\ MaxOpen \in Nat

VARIABLES stack,     \* tag_stack
          code,      \* inside [code]
          depth,     \* quote_depth
          newline,   \* a line starts here
          html,      \* elements open in the output, the innermost last
          torn,      \* an element was closed that is not the innermost
          done       \* the text has ended

textVars == <<stack, code, depth, newline, html, torn, done>>

TextInit == /\ stack = <<>> /\ code = FALSE /\ depth = 0 /\ newline = TRUE
            /\ html = <<>> /\ torn = FALSE /\ done = FALSE

\* write_bbcode_tag, in work of the form [stack, html, torn].
Opened(w, t) == [w EXCEPT !.html = Append(@, t)]
Closed(w, t) == IF w.html # <<>> /\ Last(w.html) = t THEN [w EXCEPT !.html = Front(@)]
                ELSE [w EXCEPT !.torn = TRUE]

OpenTag(w, t) == Opened([w EXCEPT !.stack = Append(@, t)], t)

\* Mutant of CloseTag: tags that overlap are not closed first.
CloseTag_Overlaps(w, t) ==
    LET where == {i \in DOMAIN w.stack : w.stack[i] = t}
    IN IF where = {} THEN w
       ELSE [Closed(w, t) EXCEPT !.stack =
                RemoveAt(@, CHOOSE i \in where : \A j \in where : j <= i)]

\* CLOSE_TAG: the tags above it are closed before it and opened again after it.
CloseTag(w, t) ==
    LET where == {i \in DOMAIN w.stack : w.stack[i] = t}
        top   == CHOOSE i \in where : \A j \in where : j <= i
        above == SubSeq(w.stack, top + 1, Len(w.stack))
        below == FoldLeft(Closed, w, Reverse(above) \o <<t>>)
    IN IF where = {} THEN w
       ELSE FoldLeft(Opened, [below EXCEPT !.stack = RemoveAt(@, top)], above)

CloseAll(w) == FoldLeft(Closed, [w EXCEPT !.stack = <<>>], Reverse(w.stack))

Writes(w) == /\ Len(w.stack) <= MaxOpen
             /\ stack' = w.stack /\ html' = w.html /\ torn' = w.torn

Work == [stack |-> stack, html |-> html, torn |-> torn]

\* A line starts, with scan_quote finding d levels.
StartLine(d) ==
    /\ ~done /\ newline
    /\ Writes(IF d < depth
                THEN FoldLeft(CloseTag, Work, [j \in 1..depth - d |-> ">"])
                ELSE FoldLeft(OpenTag, Work, [j \in 1..d - depth |-> ">"]))
    /\ depth' = d /\ newline' = FALSE
    /\ UNCHANGED <<code, done>>

\* A newline is a character like others inside [code].
EndLine == /\ ~done /\ ~newline /\ ~code
           /\ newline' = TRUE
           /\ UNCHANGED <<stack, code, depth, html, torn, done>>

\* "[t]" and "[/t]".  Inside [code] only its end is a tag.
Bracket(t, open) ==
    /\ ~done /\ ~newline
    /\ code => t = "code" /\ ~open
    /\ LET w == IF t = "code" /\ open THEN CloseAll(Work) ELSE Work
       IN Writes(IF open THEN OpenTag(w, t) ELSE CloseTag(w, t))
    /\ newline' = (t = "code" /\ ~open /\ code)
    /\ code' = IF t = "code" THEN open ELSE code
    /\ UNCHANGED <<depth, done>>

\* The text ends; it may do so where a line would start.
End == /\ ~done /\ done' = TRUE
       /\ Writes(CloseAll(Work))
       /\ UNCHANGED <<code, depth, newline>>

TextNext == \/ \E d \in 0..MaxOpen : StartLine(d)
            \/ EndLine
            \/ \E t \in Tag \cup {"code"}, open \in BOOLEAN : Bracket(t, open)
            \/ End

TextSpec == TextInit /\ [][TextNext]_textVars

-----------------------------------------------------------------------------
\* However tags overlap, the page around a post keeps its shape: elements are closed
\* from the innermost outwards ("Close overlapping tags"), those that are open are the
\* tags of the stack, none is left open at the end, and a <pre> holds no other.
WellNested == /\ ~torn /\ html = stack
              /\ done => html = <<>>
              /\ "code" \in ToSet(html) => code /\ html = <<"code">>
=============================================================================
