---------------------------- MODULE HttpMessage ----------------------------
(***************************************************************************)
(* The requests that the parser of http.c is given, and what they mean,     *)
(* said without the parser: a request is encoded from a form, and           *)
(* Meaning(form) lists the callbacks of the page that the form stands for.  *)
(*                                                                         *)
(* A "byte" is a symbol: "r" and "n" are CR and LF, "-" and "b" make up the *)
(* multipart boundary, "&" separates parameters, and a header line starts   *)
(* with one symbol for its whole text ("x" pads it).                        *)
(***************************************************************************)
EXTENDS Integers, Sequences, SequencesExt, FiniteSetsExt

CRLF  == <<"r", "n">>
Real  == <<"-", "-", "b">>        \* multipart_real_boundary
Full  == CRLF \o Real             \* multipart_full_boundary

-----------------------------------------------------------------------------
(* Forms: [method, lines, kind, items].  kind is "none", "raw", "params" or *)
(* "parts"; an item is [lines, data], and is a file if its lines say so.    *)
IsFile(item) == \E i \in DOMAIN item.lines : item.lines[i][1] \in {"filename", "type"}

Line(text) == text \o CRLF

Part(item) == Real \o CRLF \o FlattenSeq([i \in DOMAIN item.lines |-> Line(item.lines[i])])
                   \o CRLF \o item.data \o CRLF

Param(item) == Append(item.data, "&")

Body(f) ==
    CASE f.kind = "parts"  -> FlattenSeq([i \in DOMAIN f.items |-> Part(f.items[i])])
                                \o Real \o <<"-", "-">> \o CRLF
      [] f.kind = "params" -> Front(FlattenSeq([i \in DOMAIN f.items |-> Param(f.items[i])]))
      [] f.kind = "raw"    -> f.items[1].data
      [] f.kind = "none"   -> <<>>

Preface(f) == <<f.method>> \o CRLF
            \o FlattenSeq([i \in DOMAIN f.lines |-> Line(f.lines[i])]) \o CRLF

Encode(f) == Preface(f) \o Body(f)

\* Everything up to the first error.
UpToError(s) == LET errors == {i \in DOMAIN s : s[i] = <<"error">>}
                IN IF errors = {} THEN s ELSE SubSeq(s, 1, Min(errors))

LineCall(line) == IF line[1] = "bad" THEN <<"error">> ELSE <<"header", line[1]>>

ItemCalls(f, item) ==
    IF f.kind = "params" THEN <<<<"param", item.data>>>>
    ELSE IF \E i \in DOMAIN item.lines : item.lines[i][1] = "bad" THEN <<<<"error">>>>
    ELSE IF ~IsFile(item) THEN <<<<"param", item.data>>>>
    ELSE <<<<"begin">>>> \o (IF item.data = <<>> THEN <<>> ELSE <<<<"content", item.data>>>>)
                         \o <<<<"end">>>>

Meaning(f) ==
    UpToError(
        <<IF f.method \in {"GET", "POST"} THEN <<"request", f.method>> ELSE <<"error">>>>
        \o [i \in DOMAIN f.lines |-> LineCall(f.lines[i])]
        \o (IF f.kind \in {"params", "parts"}
            THEN FlattenSeq([i \in DOMAIN f.items |-> ItemCalls(f, f.items[i])]) ELSE <<>>)
        \o <<<<"finish">>>>)

\* No line and no parameter is long enough for a limit to refuse it.
Fits(f, MaxLine, MaxParam) == /\ \A i \in DOMAIN f.lines : Len(f.lines[i]) + 1 < MaxLine
           /\ \A i \in DOMAIN f.items :
                 /\ \A j \in DOMAIN f.items[i].lines : Len(f.items[i].lines[j]) + 1 < MaxLine
                 /\ IsFile(f.items[i]) \/ f.kind = "raw"
                       \/ Len(f.items[i].data) + Len(Full) - 1 < MaxParam
=============================================================================
