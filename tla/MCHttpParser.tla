----------------------------- MODULE MCHttpParser -----------------------------
(***************************************************************************)
(* Instance of HttpParser for TLC.  Streams are, first, every text of up   *)
(* to five symbols as a request line (the shortest good one has five),     *)
(* with the end of a request; and then every sequence of up to five parts  *)
(* out of a good request line, another text, a byte 0, an end of line, and *)
(* the two halves of one.  All are received in every way they can be cut,  *)
(* and the longest do not fit into the buffer.                             *)
(***************************************************************************)
EXTENDS HttpParser

Texts == SeqOf({"SP", "NUL", "GET", "/", "http://", "HTTP/1.1", "x"}, 5)

Longer == {<<"GET", "SP", "SP", "/", "x", "SP", "HTTP/1.1">>,
           <<"GET", "SP", "http://", "x", "/", "SP", "HTTP/1.1">>,
           <<"GET", "SP", "http://", "x", "SP", "SP", "HTTP/1.1">>,
           <<"GET", "SP", "/", "SP", "SP", "HTTP/1.1">>,
           <<"GET", "SP", "/", "SP", "HTTP/1.1", "SP">>,
           <<"GET", "SP", "/", "SP", "HTTP/1.1", "NUL", "x">>}

Parts == {<<"GET", "SP", "/", "SP", "HTTP/1.1">>, <<"x">>, <<"NUL">>, <<"CR", "LF">>,
          <<"CR">>, <<"LF">>}

MCStreams == {t \o <<"CR", "LF", "CR", "LF">> : t \in Texts \cup Longer}
             \cup {FlattenSeq(parts) : parts \in SeqOf(Parts, 5)}
===============================================================================
