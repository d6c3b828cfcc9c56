----------------------------- MODULE HttpParser -----------------------------
(***************************************************************************)
(* The parser of http.c: a state machine that is given the bytes of one     *)
(* request in whatever pieces the socket delivers them, keeps in            *)
(* read_buffer what it cannot use yet, and calls the page's callbacks.      *)
(*                                                                         *)
(* Each C function is a function from http_context to http_context; the     *)
(* number it returns is left in .consumed.  Left out: the parsing inside a  *)
(* line, and callbacks that refuse what they are given (UploadPost).        *)
(***************************************************************************)
EXTENDS HttpMessage

CONSTANTS Forms,      \* the requests that clients send
          MaxLine,    \* MAX_HEADER_LENGTH and MAX_REQUEST_LINE_LENGTH
          MaxParam    \* MAX_POST_PARAM_LENGTH

ASSUME HttpAssumption == MaxLine \in Nat \ {0} /\ MaxParam \in Nat \ {0}

VARIABLES form,    \* the request
          sent,    \* how many of its bytes the socket has delivered
          closed,  \* the connection has been closed
          http     \* the http_context

vars == <<form, sent, closed, http>>

AGAIN == -1
ERROR == -2

\* http_init
Init == /\ form \in Forms
        /\ sent = 0
        /\ closed = FALSE
        /\ http = [state |-> "REQUEST", multipart |-> "NONE", method |-> "GET",
                   readBuffer |-> <<>>, searchOffset |-> 0, consumed |-> 0,
                   contentLength |-> 0, contentReceived |-> 0,
                   isFile |-> FALSE,    \* multipart_filename or _content_type is set
                   errorStatus |-> FALSE,
                   error |-> FALSE,     \* context.error
                   calls |-> <<>>]      \* history: the callbacks made

Fail(h)   == [h EXCEPT !.errorStatus = TRUE, !.consumed = ERROR]    \* HTTP_FAIL
Call(h, c) == [h EXCEPT !.calls = Append(@, c)]

\* file_content; consecutive pieces of a file are one.
Content(h, bytes) ==
    IF bytes = <<>> THEN h
    ELSE IF Last(h.calls)[1] = "content"
    THEN [h EXCEPT !.calls = Append(Front(@), <<"content", Last(@)[2] \o bytes>>)]
    ELSE Call(h, <<"content", bytes>>)

-----------------------------------------------------------------------------
\* Where str starts in buf, at offset or later; Len(buf) if it does not.
Find(buf, offset, str) ==
    LET Least(hits) == IF hits = {} THEN Len(buf) ELSE Min(hits)
    IN Least({i \in offset..(Len(buf) - Len(str)) : SubSeq(buf, i + 1, i + Len(str)) = str})

\* Where the next search starts: what is before it does not contain str.
Resume(buf, str) == IF Len(buf) > Len(str) THEN Len(buf) - Len(str) ELSE 0

\* Mutant of ReadUntil: an incomplete line is never too long.
ReadUntil_NoLimit(h, buf, str, max) ==
    LET Found(pos) == IF pos < Len(buf)
                      THEN [h EXCEPT !.searchOffset = 0, !.consumed = pos]
                      ELSE [h EXCEPT !.searchOffset = Resume(buf, str), !.consumed = AGAIN]
    IN Found(Find(buf, h.searchOffset, str))

\* http_read_until_string; max = 0 is no limit.
ReadUntil(h, buf, str, max) ==
    LET Found(pos) ==
          IF pos < Len(buf) THEN [h EXCEPT !.searchOffset = 0, !.consumed = pos]
          ELSE IF max > 0 /\ pos >= max
          THEN Fail([h EXCEPT !.searchOffset = Resume(buf, str)])
          ELSE [h EXCEPT !.searchOffset = Resume(buf, str), !.consumed = AGAIN]
    IN Found(Find(buf, h.searchOffset, str))

\* http_read_line
ReadLine(h, buf, max) ==
    LET Ended(r) == IF r.consumed < 0 THEN r ELSE [r EXCEPT !.consumed = @ + 2]
    IN Ended(ReadUntil(h, buf, CRLF, max))

Text(r, buf) == SubSeq(buf, 1, r.consumed - 2)

ReadRequest(h, buf) ==
    LET Parse(r) == IF r.consumed < 0 THEN r
                    ELSE IF buf[1] \notin {"GET", "POST"} THEN Fail(r)
                    ELSE Call([r EXCEPT !.method = buf[1], !.state = "HEADERS"],
                              <<"request", buf[1]>>)
    IN Parse(ReadLine(h, buf, MaxLine))

\* http_process_header and http_parse_content_type
ProcessHeader(h, key) ==
    IF key = "bad" THEN Fail(h)
    ELSE Call([h EXCEPT !.contentLength = IF key = "length" THEN Len(Body(form)) ELSE @,
                        !.multipart = IF key = "multipart" THEN "BOUNDARY" ELSE @],
              <<"header", key>>)

Finish(h) == Call([h EXCEPT !.state = "EOF"], <<"finish">>)

ReadHeader(h, buf) ==
    LET Parse(r) == IF r.consumed < 0 THEN r
                    ELSE IF Text(r, buf) # <<>> THEN ProcessHeader(r, buf[1])
                    ELSE IF r.contentLength > 0 THEN [r EXCEPT !.state = "BODY"]
                    ELSE Finish(r)
    IN Parse(ReadLine(h, buf, MaxLine))

-----------------------------------------------------------------------------
\* A parameter of length n, and skip bytes after it.
PostParam(h, buf, n, skip) ==
    Call([h EXCEPT !.consumed = n + skip], <<"param", SubSeq(buf, 1, n)>>)

\* Mutant of ReadPostData: only a "&" ends a parameter.
ReadPostData_OnlyAmp(h, buf) ==
    LET Ended(r) == IF r.consumed < 0 THEN r ELSE PostParam(r, buf, r.consumed, 1)
    IN Ended(ReadUntil(h, buf, <<"&">>, MaxParam))

\* http_read_post_data: the last parameter, which no "&" follows, ends with the body.
ReadPostData(h, buf) ==
    LET left == h.contentLength - h.contentReceived
        Ended(r) == IF r.consumed >= 0 THEN PostParam(r, buf, r.consumed, 1)
                    ELSE IF r.consumed = AGAIN /\ Len(buf) >= left
                    THEN PostParam(r, buf, left, 0)
                    ELSE r
    IN Ended(ReadUntil(h, buf, <<"&">>, MaxParam))

ReadBoundary(h, buf) ==
    IF \E i \in 1..Min({Len(buf), Len(Real)}) : buf[i] # Real[i] THEN Fail(h)
    ELSE IF Len(buf) < Len(Real) THEN [h EXCEPT !.consumed = AGAIN]
    ELSE [h EXCEPT !.multipart = "AFTER_BOUNDARY", !.consumed = Len(Real)]

\* Mutant of ReadAfterBoundary: the file name of the last part is not dropped.
ReadAfterBoundary_KeepsFile(h, buf) ==
    LET Parse(r) == IF r.consumed < 0 THEN r
                    ELSE IF r.consumed > 2 /\ SubSeq(buf, 1, 2) # <<"-", "-">> THEN Fail(r)
                    ELSE [r EXCEPT !.multipart = "HEADERS"]
    IN Parse(ReadLine(h, buf, 4))

ReadAfterBoundary(h, buf) ==
    LET Parse(r) == IF r.consumed < 0 THEN r
                    ELSE IF r.consumed > 2 /\ SubSeq(buf, 1, 2) # <<"-", "-">> THEN Fail(r)
                    ELSE [r EXCEPT !.isFile = FALSE, !.multipart = "HEADERS"]
    IN Parse(ReadLine(h, buf, 4))

\* http_read_multipart_header and the functions it calls on a line
ReadPartHeader(h, buf) ==
    LET Begin(r) == IF r.isFile THEN Call(r, <<"begin">>) ELSE r
        Parse(r) == IF r.consumed < 0 THEN r
                    ELSE IF Text(r, buf) = <<>> THEN Begin([r EXCEPT !.multipart = "CONTENT"])
                    ELSE IF buf[1] = "bad" THEN Fail(r)
                    ELSE [r EXCEPT !.isFile = @ \/ buf[1] \in {"filename", "type"}]
    IN Parse(ReadLine(h, buf, MaxLine))

\* A field, whose whole value is waited for.
ReadField(h, buf) ==
    LET Ended(r) == IF r.consumed < 0 THEN r
                    ELSE PostParam([r EXCEPT !.multipart = "BOUNDARY"], buf, r.consumed, 2)
    IN Ended(ReadUntil(h, buf, Full, MaxParam))

\* A file, of which all that cannot be part of a boundary is passed on.
ReadFile(h, buf) ==
    LET Pass(r, n) == Content([r EXCEPT !.searchOffset = 0, !.consumed = n],
                              SubSeq(buf, 1, n))
        Ended(r) == Call([Pass(r, r.consumed) EXCEPT !.multipart = "BOUNDARY",
                                                     !.consumed = @ + 2], <<"end">>)
        Read(r) == IF r.consumed >= 0 THEN Ended(r)
                   ELSE IF r.searchOffset > 0 THEN Pass(r, r.searchOffset) ELSE r
    IN Read(ReadUntil(h, buf, Full, 0))

ReadPart(h, buf) ==
    CASE h.multipart = "BOUNDARY"       -> ReadBoundary(h, buf)
      [] h.multipart = "AFTER_BOUNDARY" -> ReadAfterBoundary(h, buf)
      [] h.multipart = "HEADERS"        -> ReadPartHeader(h, buf)
      [] h.multipart = "CONTENT"        -> IF h.isFile THEN ReadFile(h, buf)
                                                       ELSE ReadField(h, buf)
      [] h.multipart = "NONE"           -> IF h.method = "POST" THEN ReadPostData(h, buf)
                                           ELSE [h EXCEPT !.consumed = Len(buf)]

ReadBody(h, buf) ==
    LET Count(r) == IF r.consumed < 0 THEN r
                    ELSE [r EXCEPT !.contentReceived = @ + r.consumed]
        Ended(r) == IF r.contentReceived = r.contentLength THEN Finish(r) ELSE r
    IN IF h.contentReceived > h.contentLength THEN [h EXCEPT !.consumed = ERROR]
       ELSE Ended(Count(ReadPart(h, buf)))

-----------------------------------------------------------------------------
\* The end of http_read: what has been used leaves the buffer.
Leave(h, offset) ==
    LET r == [h EXCEPT !.readBuffer = SubSeq(@, offset + 1, Len(@)), !.consumed = 0,
                       !.error = h.consumed = ERROR]
    IN IF h.consumed = ERROR /\ h.errorStatus THEN Call(r, <<"error">>) ELSE r

\* The loop of http_read.
RECURSIVE ReadOn(_, _)
ReadOn(h, offset) ==
    LET buf == SubSeq(h.readBuffer, offset + 1, Len(h.readBuffer))
        end == Len(h.readBuffer)
        Continue(r) ==
          IF r.consumed > 0 /\ offset + r.consumed < end THEN ReadOn(r, offset + r.consumed)
          ELSE Leave(r, offset + Max({r.consumed, 0}))
    IN IF h.state = "EOF" THEN h
       ELSE Continue(CASE h.state = "REQUEST" -> ReadRequest(h, buf)
                       [] h.state = "HEADERS" -> ReadHeader(h, buf)
                       [] h.state = "BODY"    -> ReadBody(h, buf))

\* read_data and http_read: the socket delivers the next n bytes.
Receive(n) ==
    /\ ~closed /\ n <= Len(Encode(form)) - sent
    /\ sent' = sent + n
    /\ http' = IF http.error THEN http
               ELSE ReadOn([http EXCEPT !.readBuffer =
                                @ \o SubSeq(Encode(form), sent + 1, sent + n)], 0)
    /\ UNCHANGED <<form, closed>>

\* The connection ends: http_read is called with length 0.
Close ==
    /\ ~closed /\ closed' = TRUE
    /\ http' = IF http.error THEN http ELSE ReadOn([http EXCEPT !.state = "EOF"], 0)
    /\ UNCHANGED <<form, sent>>

Next == Close \/ \E n \in 1..(Len(Encode(form)) - sent) : Receive(n)

Spec == Init /\ [][Next]_vars

-----------------------------------------------------------------------------
\* The fields of http_context.
TypeOK ==
    /\ form \in Forms /\ sent \in 0..Len(Encode(form)) /\ closed \in BOOLEAN
    /\ http.state \in {"REQUEST", "HEADERS", "BODY", "EOF"}
    /\ http.multipart \in {"NONE", "BOUNDARY", "AFTER_BOUNDARY", "HEADERS", "CONTENT"}
    /\ http.contentReceived \in 0..http.contentLength
    /\ http.contentLength \in {0, Len(Body(form))}
    /\ http.state # "EOF" => http.searchOffset \in 0..Len(http.readBuffer)
    /\ http.consumed = 0

OneFile(c) == c[1] = "content"

\* The calls so far are the first of those the request stands for; of the file
\* that is being read, any number of bytes may have been passed on.
Begun(calls, whole) ==
    \/ IsPrefix(calls, whole)
    \/ /\ calls # <<>> /\ Len(calls) <= Len(whole)
       /\ IsPrefix(Front(calls), whole)
       /\ Last(calls)[1] = "content" /\ whole[Len(calls)][1] = "content"
       /\ IsPrefix(Last(calls)[2], whole[Len(calls)][2])

\* Whatever the pieces in which its bytes arrive, and wherever the connection ends,
\* a request causes the callbacks it stands for, in their order, and no others; a
\* field or the content of a file is what was sent (http_read_until_string starts
\* each search where the last one ended).
Delivered == Fits(form, MaxLine, MaxParam) => Begun(http.calls, Meaning(form))

\* When the last byte has arrived nothing is left to wait for: all the callbacks have
\* been made, "finish" included (http_read_body, http_read_post_data).
Complete ==
    Fits(form, MaxLine, MaxParam) /\ ~closed /\ sent = Len(Encode(form))
        => http.calls = Meaning(form)

\* Until a request is complete or refused, the buffer holds no more than the limits
\* allow: of a file, no more than could be a boundary; of a line or a field, less
\* than its maximum.
Buffered ==
    /\ TypeOK
    /\ http.state # "EOF" /\ ~http.error =>
        Len(http.readBuffer) <=
            IF http.state # "BODY" THEN MaxLine - 1
            ELSE CASE http.multipart = "NONE" -> MaxParam - 1
                   [] http.multipart = "BOUNDARY" -> Len(Real) - 1
                   [] http.multipart = "AFTER_BOUNDARY" -> 3
                   [] http.multipart = "HEADERS" -> MaxLine - 1
                   [] http.multipart = "CONTENT" ->
                        IF http.isFile THEN Len(Full) ELSE MaxParam - 1
=============================================================================
