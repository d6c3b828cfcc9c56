------------------------------- MODULE MCWire -------------------------------
(***************************************************************************)
(* Instances for TLC of what lies between a page and its client: the       *)
(* parser of requests (HttpParser), the printing of texts (Bbcode) and the *)
(* buffers of a response (Output), one after the other: a behaviour moves  *)
(* the component that its first state has picked.                          *)
(***************************************************************************)
EXTENDS HttpParser, Bbcode, Output, TLC

CONSTANTS MaxData,   \* bound on the length of a file
          c1, c2

VARIABLE part

Item(lines, data) == [lines |-> lines, data |-> data]
Get(lines)        == [method |-> "GET", lines |-> lines, kind |-> "none", items |-> <<>>]
Params(datas)     == [method |-> "POST", lines |-> <<<<"length">>>>, kind |-> "params",
                      items |-> [i \in DOMAIN datas |-> Item(<<>>, datas[i])]]
Parts(items)      == [method |-> "POST", lines |-> <<<<"multipart">>, <<"length">>>>,
                      kind |-> "parts", items |-> items]

Field(data) == Item(<<<<"name">>>>, data)
File(data)  == Item(<<<<"filename">>, <<"type">>>>, data)
x(n)        == [i \in 1..n |-> "x"]

\* Everything that could be taken for the boundary or for a part of it.
Data == UNION {[1..n -> {"r", "n", "-", "b"}] : n \in 0..MaxData}

MCForms ==
    {Parts(<<File(d), Field(x(1))>>) : d \in Data}
    \cup {Parts(<<Field(d), File(x(1))>>) : d \in {e \in Data : Len(e) < MaxData - 1}}
    \cup {Get(<<>>), Get(<<x(1), x(2)>>), Get(<<x(1), <<"bad">>, x(1)>>),
          [Get(<<>>) EXCEPT !.method = "PUT"],
          [Get(<<<<"length">>>>) EXCEPT !.kind = "raw", !.items = <<Item(<<>>, x(3))>>],
          Params(<<x(2)>>), Params(<<x(1), x(2), x(1)>>),
          Parts(<<File(x(MaxParam)), File(x(2))>>),
          Parts(<<Field(x(1)), Item(<<<<"name">>, <<"bad">>>>, x(1))>>),
          \* Too long for a line, a parameter, a field.
          Get(<<x(2 * MaxLine)>>), Params(<<x(2 * MaxParam)>>),
          Parts(<<Field(x(2 * MaxParam))>>)}

MCTexts == {<<1, Esc>>, <<Esc, 1>>}

-----------------------------------------------------------------------------
Symmetry == Permutations({c1, c2})

MCInit == /\ part \in {"requests", "texts", "sockets"}
          /\ Init /\ TextInit /\ OutputInit
          /\ part # "requests" => form = Get(<<>>)   \* any one

MCNext ==
    /\ part' = part
    /\ \/ part = "requests" /\ Next /\ UNCHANGED <<textVars, outputVars>>
       \/ part = "texts" /\ TextNext /\ UNCHANGED <<vars, outputVars>>
       \/ part = "sockets" /\ OutputNext /\ UNCHANGED <<vars, textVars>>

MCSpec == MCInit /\ [][MCNext]_<<part, vars, textVars, outputVars>>

=============================================================================
