----------------------------- MODULE MessageLog ------------------------------
(***************************************************************************)
(* msgparser.c of SysNet2/P1/bbpeer: the message file, line by line.  A    *)
(* line is an opening tag with its number, a closing tag, a text that      *)
(* contains a '>' or one that does not; n tells texts apart.               *)
(***************************************************************************)
EXTENDS Integers, Sequences, FiniteSetsExt, Ordered

Line == [tag : {"open", "close", "gt", "text"}, n : Int]

Open(id) == [tag |-> "open", n |-> id]
Close    == [tag |-> "close", n |-> 0]

FIRST_MESSAGE_INDEX == 1

\* searchFileForChar for '>' and then for '\n', from the start of line k on:
\* the line after the first one that has a '>'.
AfterBracket(log, k) ==
    1 + Min({j \in k..Len(log) : log[j].tag # "text"} \cup {Len(log)})

\* The headers the scan of searchLogByID comes upon, in order.  It tries a
\* line for a header, then goes on behind the next '>', whether it found one
\* or not; a header's own '>' is behind it already.
Headers(log) ==
    LET From[k \in 1 .. Len(log) + 2] ==
          IF k > Len(log) THEN << >>
          ELSE IF log[k].tag = "open"
               THEN <<[id |-> log[k].n, body |-> k + 1]>>
                        \o From[AfterBracket(log, k + 1)]
               ELSE From[AfterBracket(log, k)]
    IN From[1]

\* What searchLogByID returns for a number that is not there.
LastId(log) ==
    IF Headers(log) = << >> THEN FIRST_MESSAGE_INDEX - 1
                            ELSE Headers(log)[Len(Headers(log))].id

\* The lines readMessageByID prints: from the body's start to the line before
\* the closing tag.
BodyAt(log, start) ==
    SubSeq(log, start,
           Min({j \in start..Len(log) : log[j].tag = "close"} \cup {Len(log) + 1}) - 1)

\* readMessageByID: the first header with the number, or "Message not found".
Found(log, id) == {k \in DOMAIN Headers(log) : Headers(log)[k].id = id}

MessageByID(log, id) ==
    IF Found(log, id) = {}
    THEN [kind |-> "missing", count |-> id, body |-> << >>]
    ELSE [kind |-> "message", count |-> id,
          body |-> BodyAt(log, Headers(log)[Min(Found(log, id))].body)]

\* The messages of a log, as a reader of the file sees them.
Entries(log) ==
    [k \in DOMAIN Headers(log) |->
        [id |-> Headers(log)[k].id, body |-> BodyAt(log, Headers(log)[k].body)]]

\* appendMsg writes a message only to an empty file or behind other messages.
NotCorrupt(log, count) == count > FIRST_MESSAGE_INDEX - 1 \/ log = << >>

\* A mutant: the message gets the number of the last one.
AppendedSameId(log, count, msg) == log \o <<Open(count)>> \o msg \o <<Close>>

\* appendMsg's header, body and footer, in one write when the file is closed.
Appended(log, count, msg) == log \o <<Open(count + 1)>> \o msg \o <<Close>>

\* handleMessageInput keeps the typed lines but for those with a closing tag.
MessageInput(lines) ==
    PickedFrom(lines, {k \in DOMAIN lines : lines[k].tag # "close"})

\* A file of whole messages; and a text that has no line the scan would take
\* for a header: it tries the first line behind each line with a '>'.
Whole(f)    == f # << >> => f[Len(f)].tag = "close"
Clean(body) == /\ \A k \in 1..Len(body) : body[k].tag # "close"
               /\ \A k \in 1..(Len(body) - 1) :
                     body[k].tag # "text" => body[k + 1].tag # "open"

=============================================================================
