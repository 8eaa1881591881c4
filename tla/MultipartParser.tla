--------------------------- MODULE MultipartParser ---------------------------
(***************************************************************************)
(* The multipart/form-data parser of the image server,                     *)
(* engine/src/MultipartParser.cpp over engine/src/HTTPServer.cpp, and the  *)
(* loop its callers run it in (DBServer.cpp:372-388).                      *)
(*                                                                         *)
(* A client sends a form; the connection hands it over in reads that may   *)
(* end anywhere.  A read is what read_data returns: the rest of the        *)
(* buffer, refilled first if it is used up.  Every action is one read of   *)
(* read_line or process_part and everything up to the next one.            *)
(*                                                                         *)
(* Abstractions.  Header lines carry no text but <<"h">>: of a header only *)
(* matters whether it arrives whole.  Positions count from the start of    *)
(* the body, so m_bytes_read is pos and the content length is the length   *)
(* of the body.  A memcpy that overlaps itself copies as memmove does.     *)
(***************************************************************************)
EXTENDS Integers, Sequences, SequencesExt

CONSTANTS
    Bytes,        \* what a body is made of
    Boundary,     \* m_boundary, a sequence of bytes
    Forms,        \* forms a client sends: sequences of the contents of parts
    BufferSize    \* of the connection

CRLF == <<"CR", "LF">>
Dashes == <<"-", "-">>
Delimiter == CRLF \o Boundary
D == Len(Delimiter)

\* my_memmem: the places in data where pattern begins.
Places(pattern, data) ==
    {p \in 1..(Len(data) - Len(pattern) + 1) :
        SubSeq(data, p, p + Len(pattern) - 1) = pattern}
FirstOf(places) == CHOOSE p \in places : \A q \in places : p <= q

ASSUME BufferAssumption == BufferSize \in Nat \ {0}

\* A form has a part, and what separates its parts is not in one of them: whoever
\* sends it has to choose such a boundary (lib/multipart.rb takes a fixed one).
ASSUME FormAssumption ==
    /\ {"CR", "LF", "-", "h", "ff"} \subseteq Bytes
    /\ Boundary \in Seq(Bytes) /\ \A j \in 1..Len(Boundary) : Boundary[j] # "CR"
    /\ \A f \in Forms :
         /\ f \in Seq(Seq(Bytes)) /\ Len(f) > 0
         /\ \A j \in 1..Len(f) : Places(Delimiter, f[j]) = {}

VARIABLES
    form, body,     \* what the client sends, and as it sends it
    pos,            \* bytes of the body the parser has consumed
    base, end,      \* the bytes base+1..end are in the connection's buffer
    pc,             \* the loop it is in, or how it ended
    line,           \* read_line: the line so far
    ends_with_CR,   \*   and whether the last read ended in a CR
    carry,          \* process_part: the first bytes of raw_buffer
    first,          \*   and whether this part has not been read from yet
    delivered,      \* what the callback got of each part
    starts,         \* history: where in the body each of them began
    garbled,        \* history: some header was not read as it was sent
    clean           \* history: no read failed or ended in an awkward place

reader == <<pos, base, end>>
message == <<form, body>>
part == <<carry, first, delivered, starts>>
vars == <<message, reader, pc, line, ends_with_CR, part, garbled, clean>>

Lines == {"preamble", "header", "more headers", "after delimiter"}
Ended == {"done", "assert line", "assert rewind", "negative length"}

\* What lies between two delimiters: a header, an empty line and the content.
PartSent(content) == CRLF \o <<"h">> \o CRLF \o CRLF \o content \o Delimiter

\* The body up to the delimiter behind the n-th part.
SentUpTo(f) ==
    LET text[n \in 0..Len(f)] ==
            IF n = 0 THEN Boundary ELSE text[n - 1] \o PartSent(f[n])
    IN  text

Body(f) == SentUpTo(f)[Len(f)] \o Dashes

\* Browsers end the form with a line break, lib/multipart.rb does not.
Bodies(f) == {Body(f), Body(f) \o CRLF}

\* Where a read may end: the rest of the buffer, or what the connection has.
ReadEnds ==
    IF pos < end THEN {end}
    ELSE {e \in (pos + 1)..(pos + BufferSize) : e <= Len(body)}

Refilled(e) ==
    /\ end' = e
    /\ base' = IF pos < end THEN base ELSE pos

-----------------------------------------------------------------------------
(* read_line.                                                              *)

NewLine == line' = <<>> /\ ends_with_CR' = FALSE

\* What to do with the line: parse_init looks for the boundary,
\* read_part_headers reads up to an empty line, process_part has an assertion.
LineRead(text) ==
    /\ NewLine
    /\ CASE pc = "preamble" ->
              /\ pc' = IF IsPrefix(Boundary, text) THEN "header" ELSE "preamble"
              /\ UNCHANGED <<part, garbled>>
         [] pc = "header" ->
              /\ pc' = IF text = <<>> THEN "done" ELSE "more headers"
              /\ garbled' = (garbled \/ text # <<"h">>)
              /\ UNCHANGED part
         [] pc = "more headers" ->
              IF text # <<>>
              THEN garbled' = TRUE /\ UNCHANGED <<pc, part>>
              ELSE /\ pc' = "part"                    \* process_part begins
                   /\ delivered' = Append(delivered, <<>>)
                   /\ starts' = Append(starts, pos')
                   /\ carry' = [i \in 1..D |-> "ff"]
                   /\ first' = TRUE
                   /\ UNCHANGED garbled
         [] pc = "after delimiter" ->
              /\ pc' = IF text \in {<<>>, Dashes} THEN "header" ELSE "assert line"
              /\ UNCHANGED <<part, garbled>>

Aborts(how) ==
    /\ pc' = how
    /\ NewLine
    /\ UNCHANGED <<part, garbled>>

\* One turn of read_line's loop with the data of one read.  A read that ends in
\* a CR is appended to the line twice, and the branch that finds the LF of a CR
\* in the read before goes on to look for another CRLF.
ReadLine ==
    /\ pc \in Lines
    /\ \E e \in ReadEnds :
         LET data == SubSeq(body, pos + 1, e)
             finishes == ends_with_CR /\ data[1] = "LF"
             cancels == ends_with_CR /\ data[1] # "LF"
             crlfs == Places(CRLF, data)
             appended == line \o (IF cancels THEN <<"CR">> ELSE <<>>)
                              \o (IF Last(data) = "CR" THEN Front(data) ELSE <<>>)
             text == appended \o (IF crlfs = {} THEN data
                                  ELSE SubSeq(data, 1, FirstOf(crlfs) - 1))
             rewound == (IF finishes THEN Len(data) - 1 ELSE 0)
                        + (IF crlfs = {} THEN 0 ELSE Len(data) - FirstOf(crlfs) - 1)
         IN  /\ Refilled(e)
             /\ pos' = e - rewound
             /\ clean' = (clean /\ Last(data) # "CR")
             /\ IF pos' < base' THEN Aborts("assert rewind")
                ELSE IF finishes \/ crlfs # {} THEN LineRead(text)
                ELSE /\ line' = text
                     /\ ends_with_CR' = (Last(data) = "CR" \/ (ends_with_CR /\ ~cancels))
                     /\ UNCHANGED <<pc, part, garbled>>
    /\ UNCHANGED message

\* Mutant of the next: no caller looks at what read_line returned.
ReadLineFailsUnnoticed ==
    /\ pc \in Lines
    /\ pos = end
    /\ UNCHANGED <<message, reader>>
    /\ clean' = (clean /\ pos = Len(body))
    /\ LineRead(line)

\* All of the body was read, or the connection timed out or ended.
ReadLineFails ==
    /\ pc \in Lines
    /\ pos = end
    /\ clean' = (clean /\ pos = Len(body))
    /\ IF pc = "after delimiter"        \* process_part does not look
       THEN LineRead(line)
       ELSE /\ pc' = "done"
            /\ NewLine
            /\ UNCHANGED <<part, garbled>>
    /\ UNCHANGED <<message, reader>>

-----------------------------------------------------------------------------
(* process_part.                                                           *)

Deliver(bytes) ==
    delivered' = [delivered EXCEPT ![Len(delivered)] = @ \o bytes]

\* Mutants of the next three: each read is delivered as the first of its part;
\* one byte less is kept; the line break before the boundary is not counted.
AlwaysAtBuffer == D + 1
OneByteLess(raw_buffer, data_len) == SubSeq(raw_buffer, data_len + 1, data_len + D - 1)
BoundaryOnly(place) == place - 1 + Len(Boundary)

\* Where the bytes to deliver begin in raw_buffer, the bytes kept back behind
\* those, and how much of the read a delimiter found in it uses up.
buffer_to_process == IF first THEN D + 1 ELSE 1
last_buffer_bytes(raw_buffer, data_len) == SubSeq(raw_buffer, data_len + 1, data_len + D)
BehindDelimiter(place) == place - 1 + D

\* The delimiter is looked for in the data of this read alone.  Without one
\* all but as many bytes as it has are delivered, and those kept for the next
\* read; the first read of a part has no kept bytes before it.
ProcessPart ==
    /\ pc = "part"
    /\ \E e \in ReadEnds :
         LET data == SubSeq(body, pos + 1, e)
             raw_buffer == carry \o data
             found == Places(Delimiter, data)
             partEnd == starts[Len(starts)] + Len(form[Len(starts)])
         IN  /\ Refilled(e)
             /\ \/ /\ found = {}
                   /\ first /\ Len(data) < D
                   /\ pc' = "negative length"
                   /\ pos' = e
                   /\ clean' = FALSE
                   /\ UNCHANGED <<delivered, carry, first>>
                \/ /\ found = {}
                   /\ ~first \/ Len(data) >= D
                   /\ Deliver(SubSeq(raw_buffer, buffer_to_process, Len(data)))
                   /\ carry' = last_buffer_bytes(raw_buffer, Len(data))
                   /\ first' = FALSE
                   /\ pos' = e
                   /\ clean' = (clean /\ e <= partEnd)
                   /\ UNCHANGED pc
                \/ /\ found # {}
                   /\ Deliver(SubSeq(raw_buffer, buffer_to_process,
                                     D + FirstOf(found) - 1))
                   /\ pos' = pos + BehindDelimiter(FirstOf(found))
                   /\ pc' = "after delimiter"
                   /\ UNCHANGED <<carry, first, clean>>
    /\ UNCHANGED <<message, line, ends_with_CR, starts, garbled>>

\* No data, or the callback returned false: nobody parses on.
ProcessPartFails ==
    /\ pc = "part"
    /\ pc' = "done"
    /\ clean' = FALSE
    /\ UNCHANGED <<message, reader, line, ends_with_CR, part, garbled>>

Init ==
    /\ form \in Forms /\ body \in Bodies(form)
    /\ pos = 0 /\ base = 0
    /\ end = 0
    /\ pc = "preamble"
    /\ line = <<>> /\ ends_with_CR = FALSE
    /\ carry = <<>> /\ first = TRUE
    /\ delivered = <<>> /\ starts = <<>>
    /\ garbled = FALSE /\ clean = TRUE

Next == ReadLine \/ ReadLineFails \/ ProcessPart \/ ProcessPartFails

Spec == Init /\ [][Next]_vars /\ WF_vars(Next)

-----------------------------------------------------------------------------
(* Properties.                                                             *)

TypeOK ==
    /\ form \in Forms /\ body \in Bodies(form)
    /\ 0 <= base /\ pos <= end /\ end <= Len(body)
    /\ pc \in Lines \union Ended \union {"part"}
    /\ Len(delivered) = Len(starts)
    /\ {first, ends_with_CR, garbled, clean} \subseteq BOOLEAN
    /\ pc = "part" => Len(carry) = D

\* Wherever the reads end, what the callback gets of a part is one piece of the
\* body from where the part began: bytes kept back in raw_buffer are delivered
\* once and in their place (MultipartParser.cpp:223-236).
DeliveredInOrder ==
    \A k \in 1..Len(delivered) :
        delivered[k] = SubSeq(body, starts[k] + 1, starts[k] + Len(delivered[k]))

\* A form is parsed as it was sent if no read ends in a CR of a line, inside a
\* delimiter, or within a delimiter's length of the start of a part it does not
\* end in: these are all the reads the parser gets wrong.
CleanReadsParse ==
    clean =>
        /\ pc \in Ended => pc = "done" /\ delivered = form
        /\ \A k \in 1..Len(delivered) : IsPrefix(delivered[k], form[k])
        /\ ~garbled

\* The parser comes to an end: what it rewinds never makes it read in circles.
ParserStops == <>(pc \in Ended)

\* "Copy last N bytes of buffer to beginning for cross-buffer boundary
\* detection." (MultipartParser.cpp:232-233): a part ends at its delimiter.
DelimiterIsDetected ==
    \A k \in 1..Len(delivered) :
        k \in 1..Len(form) /\ IsPrefix(delivered[k], form[k])

\* assert(line.size() == 0 || line == "--") (MultipartParser.cpp:261): a line
\* that follows a delimiter is empty or the end of the form.
LineAfterDelimiter == pc # "assert line"
=============================================================================
