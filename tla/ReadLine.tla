------------------------------- MODULE ReadLine -------------------------------
(***************************************************************************)
(* Util::ReadLine of myHttp (src/myHttp/Util.hpp), called over and over by  *)
(* RecvHttpRequestLine and RecvHttpRequestHeader (Protocol.hpp) until the   *)
(* blank line. It takes one byte at a time and, after a carriage return,    *)
(* peeks at the next byte to see whether a line feed belongs to it. The     *)
(* client sends its bytes when it likes and closes when it likes.           *)
(***************************************************************************)
EXTENDS Naturals, Sequences, FiniteSets, FiniteSetsExt

CONSTANTS Streams   \* the byte sequences a client may send, over Bytes

Bytes == {"x", "CR", "LF"}
ASSUME StreamsAssumption == Streams \subseteq Seq(Bytes)

VARIABLES stream,    \* what this client sends
          sent,      \* how much of it has arrived
          closed,    \* the client has closed: nothing more will arrive
          consumed,  \* how much of it was taken out of the socket
          pc,        \* "recv", "peek", "take"; "complete" after the blank line, "stop"
          out,       \* the line being read
          lines      \* the lines returned, without their terminator

vars == <<stream, sent, closed, consumed, pc, out, lines>>

Init == /\ stream \in Streams
        /\ sent = 0 /\ closed = FALSE
        /\ consumed = 0 /\ pc = "recv" /\ out = <<>> /\ lines = <<>>

Send == /\ sent < Len(stream) /\ ~closed
        /\ sent' = sent + 1
        /\ UNCHANGED <<stream, closed, consumed, pc, out, lines>>
Shut == /\ ~closed
        /\ closed' = TRUE
        /\ UNCHANGED <<stream, sent, consumed, pc, out, lines>>

\* Mutant: the caller does not clear the line it passes to the next call.
ReturnLineKept == /\ lines' = Append(lines, out)
                  /\ out' = out
                  /\ pc' = IF out = <<>> /\ lines # <<>> THEN "complete" ELSE "recv"

\* A line has ended. The caller's loop stops at the blank one, which is never
\* the first: that is the request line.
ReturnLine == /\ lines' = Append(lines, out)
              /\ out' = <<>>
              /\ pc' = IF out = <<>> /\ lines # <<>> THEN "complete" ELSE "recv"

\* Mutant: the carriage return becomes part of the line.
RecvKeepsCr == /\ pc = "recv"
               /\ consumed < sent
               /\ consumed' = consumed + 1
               /\ CASE stream[consumed'] = "LF" -> ReturnLine
                    [] stream[consumed'] = "CR" -> /\ pc' = "peek"
                                                   /\ out' = Append(out, "CR")
                                                   /\ UNCHANGED lines
                    [] OTHER -> out' = Append(out, "x") /\ UNCHANGED <<pc, lines>>
               /\ UNCHANGED <<stream, sent, closed>>

Recv == /\ pc = "recv"
        /\ consumed < sent
        /\ consumed' = consumed + 1
        /\ CASE stream[consumed'] = "LF" -> ReturnLine
             [] stream[consumed'] = "CR" -> pc' = "peek" /\ UNCHANGED <<out, lines>>
             [] OTHER -> out' = Append(out, "x") /\ UNCHANGED <<pc, lines>>
        /\ UNCHANGED <<stream, sent, closed>>

\* recv returns 0: the partial line is dropped and the caller sets stop.
RecvClosed == /\ pc = "recv"
              /\ consumed = sent /\ closed
              /\ pc' = "stop"
              /\ UNCHANGED <<stream, sent, closed, consumed, out, lines>>

\* Mutants: the line feed is left in the socket; the byte after a carriage
\* return is taken whatever it is.
PeekLeaves == /\ pc = "peek"
              /\ consumed < sent \/ closed
              /\ ReturnLine
              /\ UNCHANGED <<stream, sent, closed, consumed>>
PeekTakes == /\ pc = "peek"
             /\ IF consumed < sent THEN pc' = "take" /\ UNCHANGED <<out, lines>>
                                   ELSE closed /\ ReturnLine
             /\ UNCHANGED <<stream, sent, closed, consumed>>

\* recv(MSG_PEEK) blocks until the next byte is there. Its result is not looked
\* at: at the end of the stream ch keeps the carriage return, which ends the line.
Peek == /\ pc = "peek"
        /\ IF consumed < sent
             THEN IF stream[consumed + 1] = "LF" THEN pc' = "take" /\ UNCHANGED <<out, lines>>
                                                ELSE ReturnLine
             ELSE closed /\ ReturnLine
        /\ UNCHANGED <<stream, sent, closed, consumed>>

Take == /\ pc = "take"
        /\ consumed' = consumed + 1
        /\ ReturnLine
        /\ UNCHANGED <<stream, sent, closed>>

Server == Recv \/ RecvClosed \/ Peek \/ Take
Next == Send \/ Shut \/ Server

SafeSpec == Init /\ [][Next]_vars
\* The worker runs whenever recv can return; the client sends all it has unless
\* it closes, and need not close.
Spec == SafeSpec /\ WF_vars(Server) /\ WF_vars(Send)

(***************************************************************************)
(* The reference: where lines end in a finished sequence of bytes, what is  *)
(* between one end and the terminator of the next, and that a sequence of   *)
(* lines is all of these in their order.                                    *)
(***************************************************************************)
LineEnds(s) == {i \in 1..Len(s) : \/ s[i] = "LF"
                                  \/ s[i] = "CR" /\ (i = Len(s) \/ s[i + 1] # "LF")}
LineStart(s, i) == Max({0} \cup {j \in LineEnds(s) : j < i})
Terminator(s, i) == IF i > 1 /\ s[i] = "LF" /\ s[i - 1] = "CR" THEN 2 ELSE 1
Line(s, i) == SubSeq(s, LineStart(s, i) + 1, i - Terminator(s, i))
Number(s, i) == Cardinality({j \in LineEnds(s) : j <= i})
AreLines(ls, s) == /\ Len(ls) = Cardinality(LineEnds(s))
                   /\ \A i \in LineEnds(s) : ls[Number(s, i)] = Line(s, i)

\* The type of the state.
TypeOK == /\ stream \in Streams
          /\ sent \in 0..Len(stream) /\ consumed \in 0..sent
          /\ closed \in BOOLEAN
          /\ pc \in {"recv", "peek", "take", "complete", "stop"}
          /\ out \in Seq({"x"}) /\ lines \in Seq(Seq({"x"}))

\* Between two calls the lines returned are those of the bytes consumed, however
\* the bytes trickled in: no terminator is counted twice and none is missed.
LinesMatch == pc \in {"recv", "complete"} /\ out = <<>> =>
                AreLines(lines, SubSeq(stream, 1, consumed))

\* The head ends at the first blank line after the request line, and not one
\* byte of the body behind it has been consumed.
HeadEnds(s) == {i \in LineEnds(s) : Line(s, i) = <<>> /\ \E j \in LineEnds(s) : j < i}
Arriving == IF closed THEN SubSeq(stream, 1, sent) ELSE stream
BodyUntouched == pc = "complete" => /\ consumed \in HeadEnds(Arriving)
                                    /\ \A i \in HeadEnds(Arriving) : consumed <= i

\* Liveness: a client that has sent a head whose blank line ends in a line feed is
\* past the head, and one that has closed is either past it or stopped.
HeadCompletes ==
    /\ (\E i \in HeadEnds(stream) : sent >= i /\ stream[i] = "LF") ~> pc = "complete"
    /\ closed ~> pc \in {"complete", "stop"}

\* The safety half of HeadCompletes: the reader comes to rest only where recv has
\* no byte for it, and never there when all of such a head has been sent.
Resting == \/ pc \in {"complete", "stop"}
           \/ pc \in {"recv", "peek"} /\ consumed = sent /\ ~closed
RestIsDone == Resting /\ (\E i \in HeadEnds(stream) : sent >= i /\ stream[i] = "LF") =>
                pc = "complete"

\* What the comment in Util.hpp says of a lone carriage return ("\r->\n or
\* \r\n->\n"): it ends a line as the pair does. Then a client that has sent a
\* head ending in one has sent the head.
LoneCrEndsLine == (\E i \in HeadEnds(stream) : sent >= i) ~> pc = "complete"
==============================================================================
