------------------------------ MODULE HttpParser ------------------------------
(***************************************************************************)
(* src/HTTP/http.c: a server that reads one request of one client, cut     *)
(* into pieces by the network in any way, parses each line as soon as it   *)
(* is there, and answers.                                                  *)
(*                                                                         *)
(* Text is a sequence of symbols: "CR", "LF", "SP" (a blank or a tab),     *)
(* "NUL" (byte 0, which a client can send too), the words the parser       *)
(* knows, and "x" for others.  Nothing in the parser cuts a word, except   *)
(* recv, and there it makes no difference: only line ends are looked for   *)
(* before a line is complete.                                              *)
(*                                                                         *)
(* parse_line goes through the buffer by index; the parsers of a line take *)
(* a C string.  So the text of a line ends at the first byte 0 in it, and  *)
(* what the client sent behind that is not looked at.                      *)
(***************************************************************************)
EXTENDS Integers, Sequences, SequencesExt, FiniteSetsExt

CONSTANTS Streams,      \* bound: what the client may send
          BUFFER_SIZE

Symbols == {"CR", "LF", "SP", "NUL", "GET", "/", "http://", "HTTP/1.1", "x"}

ASSUME StreamsAssumption == Streams \subseteq Seq(Symbols)
ASSUME BufferAssumption == BUFFER_SIZE \in Nat

VARIABLES stream,         \* what the client sends in all
          buffer,         \* what was received; parse_line ends lines with "NUL" in it
          checked_index, start_line, checkstate,
          pc,             \* "recv", "parse", "closed"
          answer          \* "good", "bad", or "none" yet

vars == <<stream, buffer, checked_index, start_line, checkstate, pc, answer>>

read_index == Len(buffer)

Init ==
  /\ stream \in Streams
  /\ buffer = <<>>
  /\ checked_index = 0
  /\ start_line = 0
  /\ checkstate = "REQUESTLINE"
  /\ pc = "recv"
  /\ answer = "none"

-------------------------------------------------------------------------------
From(t, i) == SubSeq(t, i, Len(t))

\* The C string a text begins with.
UpToNul(t) ==
  LET i == SelectInSeq(t, LAMBDA c : c = "NUL")
  IN IF i = 0 THEN t ELSE SubSeq(t, 1, i - 1)

\* The string that begins in buf after index start.
Text(buf, start) == UpToNul(From(buf, start + 1))

\* parse_line: whether a line is complete, and checked_index after it.  (In the
\* last case LF follows a CR that parse_line has passed, which it never does.)
ParseLine ==
  LET breaks == {i \in checked_index + 1 .. read_index : buffer[i] \in {"CR", "LF"}}
      k == Min(breaks)
  IN CASE breaks = {} -> [status |-> "OPEN", checked |-> read_index]
       [] breaks # {} /\ buffer[k] = "CR" /\ k = read_index ->
            [status |-> "OPEN", checked |-> k - 1]
       [] breaks # {} /\ buffer[k] = "CR" /\ k < read_index ->
            IF buffer[k + 1] = "LF" THEN [status |-> "OK", checked |-> k + 1]
                                    ELSE [status |-> "BAD", checked |-> k - 1]
       [] breaks # {} /\ buffer[k] = "LF" ->
            IF k > 2 /\ buffer[k - 1] = "CR" THEN [status |-> "OK", checked |-> k]
                                             ELSE [status |-> "BAD", checked |-> k - 1]

HasSlash == {"/", "http://", "HTTP/1.1"}

FirstBlank(t) == SelectInSeq(t, LAMBDA c : c = "SP")
SkipBlanks(t) == LET i == SelectInSeq(t, LAMBDA c : c # "SP")
                 IN IF i = 0 THEN <<>> ELSE From(t, i)

\* Mutant: the blanks before the version are not skipped.
ParseRequestLineOneBlank(t) ==
  LET method == SubSeq(t, 1, FirstBlank(t) - 1)
      rest == SkipBlanks(From(t, FirstBlank(t)))
      url == SubSeq(rest, 1, FirstBlank(rest) - 1)
      version == From(rest, FirstBlank(rest) + 1)
  IN /\ FirstBlank(t) # 0 /\ method = <<"GET">>
     /\ FirstBlank(rest) # 0 /\ version = <<"HTTP/1.1">>
     /\ IF url[1] = "http://" THEN \E i \in 2 .. Len(url) : url[i] \in HasSlash
                              ELSE url[1] = "/"

\* parse_requestline: whether it is accepted.
ParseRequestLine(t) ==
  LET method == SubSeq(t, 1, FirstBlank(t) - 1)
      rest == SkipBlanks(From(t, FirstBlank(t)))
      url == SubSeq(rest, 1, FirstBlank(rest) - 1)
      version == SkipBlanks(From(rest, FirstBlank(rest)))
  IN /\ FirstBlank(t) # 0 /\ method = <<"GET">>
     /\ FirstBlank(rest) # 0 /\ version = <<"HTTP/1.1">>
     /\ IF url[1] = "http://" THEN \E i \in 2 .. Len(url) : url[i] \in HasSlash
                              ELSE url[1] = "/"

-------------------------------------------------------------------------------
\* recv returns the next n symbols.
Recv(n) ==
  /\ pc = "recv"
  /\ read_index + n <= BUFFER_SIZE
  /\ read_index + n <= Len(stream)
  /\ buffer' = buffer \o SubSeq(stream, read_index + 1, read_index + n)
  /\ pc' = "parse"
  /\ UNCHANGED <<stream, checked_index, start_line, checkstate, answer>>

\* recv returns 0 or fails, at any time: the client has closed or reset the
\* connection, or there is no room left.
RecvNothing ==
  /\ pc = "recv"
  /\ pc' = "closed"
  /\ UNCHANGED <<stream, buffer, checked_index, start_line, checkstate, answer>>

\* The answer is sent, and the connection closed.
Answer(a) ==
  /\ answer' = a
  /\ pc' = "closed"

\* The buffer with the complete line ended.
Ended == [buffer EXCEPT ![ParseLine.checked - 1] = "NUL", ![ParseLine.checked] = "NUL"]

\* Mutant: start_line stays at the line that was parsed.
NextLineKeepsStart ==
  /\ pc = "parse"
  /\ ParseLine.status = "OK"
  /\ buffer' = Ended
  /\ checked_index' = ParseLine.checked
  /\ UNCHANGED <<stream, start_line>>

\* A line is complete: it is ended in the buffer, and the next one begins.
NextLine ==
  /\ pc = "parse"
  /\ ParseLine.status = "OK"
  /\ buffer' = Ended
  /\ checked_index' = ParseLine.checked
  /\ start_line' = ParseLine.checked
  /\ UNCHANGED stream

RequestLine ==
  /\ NextLine
  /\ checkstate = "REQUESTLINE"
  /\ IF ParseRequestLine(Text(Ended, start_line))
     THEN checkstate' = "HEADER" /\ UNCHANGED <<pc, answer>>
     ELSE Answer("bad") /\ UNCHANGED checkstate

\* Headers are all accepted, and the empty line ends the request.
Header ==
  /\ NextLine
  /\ checkstate = "HEADER"
  /\ IF Text(Ended, start_line) = <<>> THEN Answer("good") ELSE UNCHANGED <<pc, answer>>
  /\ UNCHANGED checkstate

LineOpen ==
  /\ pc = "parse"
  /\ ParseLine.status = "OPEN"
  /\ checked_index' = ParseLine.checked
  /\ pc' = "recv"
  /\ UNCHANGED <<stream, buffer, start_line, checkstate, answer>>

LineBad ==
  /\ pc = "parse"
  /\ ParseLine.status = "BAD"
  /\ Answer("bad")
  /\ UNCHANGED <<stream, buffer, checked_index, start_line, checkstate>>

Parse == RequestLine \/ Header \/ LineOpen \/ LineBad

Next ==
  \/ \E n \in 1 .. BUFFER_SIZE : Recv(n)
  \/ RecvNothing
  \/ Parse

Spec == Init /\ [][Next]_vars

-------------------------------------------------------------------------------
TypeOK ==
  /\ stream \in Seq(Symbols)
  /\ buffer \in Seq(Symbols)
  /\ read_index <= BUFFER_SIZE
  /\ checked_index \in 0 .. read_index /\ start_line \in 0 .. checked_index
  /\ checkstate \in {"REQUESTLINE", "HEADER"}
  /\ pc \in {"recv", "parse", "closed"}
  /\ answer \in {"good", "bad", "none"}

\* What a request line is, as a pattern.
IsRequestLine(t) ==
  \E i \in 2 .. Len(t), j \in 2 .. Len(t) :
    /\ t[1] = "GET" /\ t[Len(t)] = "HTTP/1.1"
    /\ i <= j
    /\ LET url == SubSeq(t, i, j)
       IN /\ i > 2 /\ \A k \in 2 .. i - 1 : t[k] = "SP"
          /\ j < Len(t) - 1 /\ \A k \in j + 1 .. Len(t) - 1 : t[k] = "SP"
          /\ "SP" \notin {url[k] : k \in DOMAIN url}
          /\ \/ url[1] = "/"
             \/ url[1] = "http://" /\ {url[k] : k \in 2 .. Len(url)} \cap HasSlash # {}

\* parse_requestline is given the client's first line, up to a byte 0 in it, and
\* accepts what the pattern describes.
RequestLineIsPattern ==
  pc = "parse" /\ checkstate = "REQUESTLINE" /\ ParseLine.status = "OK" =>
    LET n == ParseLine.checked - 2
        line == SubSeq(stream, 1, n)
    IN /\ \A i \in 1 .. n : stream[i] \notin {"CR", "LF"}
       /\ stream[n + 1] = "CR" /\ stream[n + 2] = "LF"
       /\ ParseRequestLine(Text(Ended, start_line)) <=> IsRequestLine(UpToNul(line))

\* What the text s is as a request, all of it at once: CR and LF only come in
\* pairs, which end the lines; the first line is a request line, and the first line
\* after it whose text is empty is the end.  (A line's text ends at a byte 0: a first
\* line is good whatever follows a byte 0 in it, and a line that begins with one is
\* empty.)  The first thing to be wrong or complete counts.
Verdict(s) ==
  LET flaws == {i \in DOMAIN s : \/ s[i] = "LF" /\ (i = 1 \/ s[i - 1] # "CR")
                                 \/ s[i] = "CR" /\ i < Len(s) /\ s[i + 1] # "LF"}
      ends == {i \in DOMAIN s : s[i] = "LF" /\ \A f \in flaws : i < f}
      first == UpToNul(SubSeq(s, 1, Min(ends) - 2))
  IN CASE ends # {} /\ ~IsRequestLine(first) -> "bad"
       [] ends # {} /\ IsRequestLine(first) ->
            IF \E i, j \in ends : i < j /\ s[i + 1] \in {"CR", "NUL"} THEN "good"
            ELSE IF flaws # {} THEN "bad" ELSE "none"
       [] ends = {} -> IF flaws # {} THEN "bad" ELSE "none"

\* Whenever the parser waits or has ended, its answer is the verdict on all that
\* was received: so it does not depend on how the text was cut into pieces, and
\* is given as soon as it can be.
AnswerIsVerdict ==
  /\ TypeOK
  /\ pc \in {"recv", "closed"} => answer = Verdict(SubSeq(stream, 1, read_index))

===============================================================================
