------------------------------- MODULE Output -------------------------------
(***************************************************************************)
(* context.c, print.c: what pages print on the way to the sockets.  Text   *)
(* is written to chunks of memory, which a context takes from a common     *)
(* list and gives back when it is destroyed; the batch of libowfat refers  *)
(* to that memory and sends it when the socket can take it.  The k-th byte *)
(* printed on connection c is <<c, k>>.                                    *)
(***************************************************************************)
EXTENDS Integers, Sequences, SequencesExt

CONSTANTS Conn,        \* connections, each used again after it was closed
          ChunkSize,   \* chunk_size, 40960 in the code
          Esc,         \* FMT_ESC_HTML_CHAR: the longest an escaped character gets
          Grab,        \* chunks allocated at a time, 10 in the code
          Lengths,     \* how much is printed at once
          Texts,       \* texts to be escaped, as the widths of their characters
          MaxWritten,  \* bound: bytes printed on all open connections
          MaxChunks    \* bound: chunks allocated

ASSUME OutputAssumption ==
    /\ {ChunkSize, Esc, Grab, MaxWritten, MaxChunks} \subseteq Nat \ {0}
    /\ Lengths \subseteq Nat /\ Texts \subseteq Seq(1..Esc)

VARIABLES free,      \* the list of chunk_sentinel
          memory,    \* the bytes of each chunk allocated so far
          ctx,       \* the context of each connection
          written,   \* history: bytes printed on each connection
          received   \* history: the bytes that each client got

outputVars == <<free, memory, ctx, written, received>>

Unwritten == [p \in 1..ChunkSize |-> <<>>]

NewContext == [open |-> TRUE, chunks |-> <<>>, offset |-> 0, size |-> 0, batch |-> <<>>,
               eof |-> FALSE, error |-> FALSE, wantwrite |-> FALSE]

OutputInit == /\ free = <<>> /\ memory = <<>>
              /\ ctx = [c \in Conn |-> NewContext]
              /\ written = [c \in Conn |-> 0]
              /\ received = [c \in Conn |-> <<>>]

-----------------------------------------------------------------------------
\* A write is worked on as [free, memory, c, x, n]: the context x is that of the
\* connection c, and the bytes up to the n-th have been put somewhere.
Printing(c) == [free |-> free, memory |-> memory, c |-> c, x |-> ctx[c], n |-> written[c]]

AllocateMoreChunks(w) ==
    LET have == Len(w.memory)
    IN [w EXCEPT !.free   = @ \o [i \in 1..Grab |-> have + i],
                 !.memory = @ \o [i \in 1..Grab |-> Unwritten]]

\* get_chunk: the first free chunk is linked behind those of the context.
GetChunk(w) ==
    LET v == IF w.free = <<>> THEN AllocateMoreChunks(w) ELSE w
    IN [v EXCEPT !.free = Tail(@), !.x.chunks = Append(@, Head(v.free))]

\* context_get_buffer: afterwards there is room in the newest chunk.
GetBuffer(w) ==
    IF w.x.offset # w.x.size THEN w
    ELSE [GetChunk(w) EXCEPT !.x.offset = 0, !.x.size = ChunkSize]

\* What is in the buffer is added to the batch, as places where to find the bytes.
Batched(x) == IF x.chunks = <<>> THEN x
              ELSE [x EXCEPT !.batch  = @ \o [i \in 1..x.offset |-> <<Last(x.chunks), i>>],
                             !.offset = 0,
                             !.size   = 0]

\* The next bytes are copied into the buffer of x.
Filled(chunk, w, bytes) ==
    [p \in 1..ChunkSize |-> IF p \in w.x.offset + 1..w.x.offset + bytes
                              THEN <<w.c, w.n + p - w.x.offset>> ELSE chunk[p]]

\* memcpy and context_consume_buffer.
Consume(w, bytes) ==
    LET v == [w EXCEPT !.memory[Last(w.x.chunks)] = Filled(@, w, bytes),
                       !.n        = @ + bytes,
                       !.x.offset = @ + bytes]
    IN IF v.x.offset = v.x.size THEN [v EXCEPT !.x = Batched(@)] ELSE v

\* A turn of context_write_data.  Data that just fills the buffer makes it take another.
WriteTurn(s, i) ==
    LET g         == GetBuffer(s.w)
        available == g.x.size - g.x.offset
    IN IF s.done THEN s
       ELSE IF available > s.left
         THEN [w |-> Consume(g, s.left), left |-> 0, done |-> TRUE]
         ELSE [w |-> Consume(g, available), left |-> s.left - available, done |-> FALSE]

\* context_write_data
WriteData(w, length) ==
    FoldLeft(WriteTurn, [w |-> w, left |-> length, done |-> FALSE],
             [i \in 1..length + 1 |-> i]).w

\* The width of characters when they are escaped.
Width(q) == FoldLeft(+, 0, q)

\* How many of them are put straight into a buffer with room for a: while any would fit.
HasRoom(q, a, k) == \A i \in 1..k : a - Width(SubSeq(q, 1, i - 1)) >= Esc
Direct(q, a)  == CHOOSE k \in 0..Len(q) : HasRoom(q, a, k) /\ (k < Len(q) => ~HasRoom(q, a, k + 1))

\* A turn of _print_esc_html: what fits, then the next Esc characters as a copy.
PrintTurn(s, i) ==
    LET g      == GetBuffer(s.w)
        direct == Direct(s.left, g.x.size - g.x.offset)
        v      == Consume(g, Width(SubSeq(s.left, 1, direct)))
        rest   == SubSeq(s.left, direct + 1, Len(s.left))
        next   == IF Len(rest) < Esc THEN Len(rest) ELSE Esc
    IN IF s.left = <<>> THEN s
       ELSE IF rest = <<>> THEN [w |-> v, left |-> <<>>]
       ELSE [w    |-> WriteData(v, Width(SubSeq(rest, 1, next))),
             left |-> SubSeq(rest, next + 1, Len(rest))]

\* _print_esc_html
PrintEscaped(w, widths) ==
    FoldLeft(PrintTurn, [w |-> w, left |-> widths], [i \in 1..Len(widths) |-> i]).w

\* context_write_file: of a file, which has no chunk, the k-th byte printed is the k-th.
PrintFile(w, length) ==
    LET y == Batched(w.x)
    IN [w EXCEPT !.x = [y EXCEPT !.batch = @ \o [i \in 1..length |-> <<0, w.n + i>>]],
                 !.n = @ + length]

-----------------------------------------------------------------------------
\* Printing n bytes on the connection c has come to w.
Prints(c, n, w) ==
    /\ ctx[c].open /\ ~ctx[c].eof
    /\ FoldFunction(+, n, written) <= MaxWritten
    /\ Len(w.memory) <= MaxChunks
    /\ free' = w.free /\ memory' = w.memory
    /\ ctx' = [ctx EXCEPT ![c] = w.x]
    /\ written' = [written EXCEPT ![c] = @ + n]
    /\ UNCHANGED received

Write(c, length)     == Prints(c, length, WriteData(Printing(c), length))
Escaped(c, widths)   == Prints(c, Width(widths), PrintEscaped(Printing(c), widths))
WriteFile(c, length) == Prints(c, length, PrintFile(Printing(c), length))

\* What the batch of the connection c refers to.
Byte(m, c, place) == IF place[1] = 0 THEN <<c, place[2]>> ELSE m[place[1]][place[2]]

\* context_flush, in which iob_send sends k bytes before it stops: because nothing is
\* left, because the socket takes no more, or because of an error.
Flush(c, x, k, failing) ==
    LET y == Batched(x)
    IN /\ k <= Len(y.batch) /\ (x.error => k = 0 /\ failing)
       /\ received' = [received EXCEPT ![c] = @ \o [i \in 1..k |-> Byte(memory, c, y.batch[i])]]
       /\ ctx' = [ctx EXCEPT ![c] =
                    [y EXCEPT !.batch     = SubSeq(@, k + 1, Len(@)),
                              !.error     = failing,
                              !.wantwrite = ~failing /\ ~(k = Len(y.batch) /\ y.eof)]]
       /\ UNCHANGED <<free, memory, written>>

\* handle_write_events
CanWrite(c, k, failing) == ctx[c].open /\ ctx[c].wantwrite /\ Flush(c, ctx[c], k, failing)

\* context_eof
Eof(c, k, failing) == /\ ctx[c].open /\ ~ctx[c].eof
                      /\ Flush(c, [ctx[c] EXCEPT !.eof = TRUE], k, failing)

\* Mutant of GivenBack: the ring of chunks is not cut where the newest one is.
GivenBack_Newest(list, chunks) == list \o chunks \o <<Last(chunks)>>

\* The ring of chunks is put at the end of the list, the newest of them first.
GivenBack(list, chunks) == list \o <<Last(chunks)>> \o Front(chunks)

\* The last context_unref, at any time: the client may leave.  What was in the chunks
\* is forgotten here.
Unref(c) == /\ ctx[c].open
            /\ free' = IF ctx[c].chunks = <<>> THEN free ELSE GivenBack(free, ctx[c].chunks)
            /\ ctx' = [ctx EXCEPT ![c] = [NewContext EXCEPT !.open = FALSE]]
            /\ memory' = [i \in DOMAIN memory |-> IF i \in ToSet(ctx[c].chunks)
                                                     THEN Unwritten ELSE memory[i]]
            /\ written' = [written EXCEPT ![c] = 0]
            /\ received' = [received EXCEPT ![c] = <<>>]

\* http_new
Accept(c) == /\ ~ctx[c].open
             /\ ctx' = [ctx EXCEPT ![c] = NewContext]
             /\ UNCHANGED <<free, memory, written, received>>

OutputNext ==
    \E c \in Conn :
        \/ \E length \in Lengths : Write(c, length) \/ WriteFile(c, length)
        \/ \E widths \in Texts : Escaped(c, widths)
        \/ \E k \in 0..MaxWritten, failing \in BOOLEAN : CanWrite(c, k, failing)
        \/ \E k \in 0..MaxWritten, failing \in BOOLEAN : Eof(c, k, failing)
        \/ Unref(c) \/ Accept(c)

OutputSpec == OutputInit /\ [][OutputNext]_outputVars

-----------------------------------------------------------------------------
\* "We cache allocated chunks": no chunk is used by two connections or used and free.
\* However the sockets stop and go on, a client gets just what was printed for it, in
\* that order: what was sent, what the batch refers to and what is in the buffer.  What
\* is left of an answer is waiting for the socket.
SentAsWritten ==
    /\ \A c \in Conn : /\ IsInjective(free \o ctx[c].chunks)
                       /\ \A d \in Conn \ {c} :
                             ToSet(ctx[c].chunks) \cap ToSet(ctx[d].chunks) = {}
    /\ \A c \in Conn :
          ctx[c].open =>
             LET places == Batched(ctx[c]).batch
             IN received[c] \o [i \in DOMAIN places |-> Byte(memory, c, places[i])]
                   = [k \in 1..written[c] |-> <<c, k>>]
    /\ \A c \in Conn : ctx[c].eof /\ ~ctx[c].error =>
                         (ctx[c].batch # <<>> <=> ctx[c].wantwrite)
=============================================================================
