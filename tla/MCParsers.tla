----------------------------- MODULE MCParsers -----------------------------
(* Files for Parsers.                                                      *)
EXTENDS Parsers

Join(parts, between) ==
  IF parts = <<>> THEN "" ELSE FoldLeft(LAMBDA s, part : s \o between \o part, parts[1], Tail(parts))

Chars(text) == [i \in 1 .. Len(text) |-> SubSeq(text, i, i)]

Line(sort, text, means) == [sort |-> sort, text |-> Chars(text), means |-> means]

Valid(text, means) == Line("valid", text \o "\n", means)

KeyLists == {<<"a">>, <<"abcdefg">>, <<"a", "bc">>}
PairLists == {<<<<"a", "x">>>>, <<<<"bc", "tuvwxyz">>, <<"a", "x">>>>}

\* Well-formed lines, written from what they mean.
Lists(words, ls) ==
  {Valid(w \o " [" \o Join(l, ",") \o "]", <<<<w, [i \in DOMAIN l |-> Chars(l[i])]>>>>) :
    w \in words, l \in ls}
Alones(words)    == {Valid(w, <<<<w, <<>>>>>>) : w \in words}
Numbers(word)    == {Valid(word \o " 0", <<<<word, <<0>>>>>>), Valid(word \o " 12", <<<<word, <<12>>>>>>)}
Blanks           == {Valid("", <<>>), Valid("# SHOW", <<>>)}
Writes ==
  {Valid("WRITE [" \o Join([i \in DOMAIN l |-> "(" \o l[i][1] \o "," \o l[i][2] \o ")"], "") \o "]",
         <<<<"WRITE", [i \in DOMAIN l |-> <<Chars(l[i][1]), Chars(l[i][2])>>]>>>>) : l \in PairLists}

\* Lines that are taken although they are not well formed: a thread after WAIT, a
\* list of one empty key, text after the number of DELAY.
ServerLines ==
  Writes \cup Lists({"READ", "DELETE"}, KeyLists) \cup Alones({"SHOW", "BACKUP", "HELP"})
    \cup Numbers("WAIT") \cup Blanks
    \cup {Valid("WAIT 5 1", <<<<"WAIT", <<5>>>>>>), Valid("READ []", <<<<"READ", <<<<>>>>>>>>)}

ClientLines ==
  Lists({"SUBSCRIBE", "UNSUBSCRIBE"}, {<<"a">>, <<"bc">>}) \cup Numbers("DELAY") \cup Blanks
    \cup {Valid("DELAY 5 x", <<<<"DELAY", <<5>>>>>>)}

Faults(sort, texts) == {Line(sort, text, <<>>) : text \in texts}

\* Batches of MAX_WRITE_SIZE, with what they would mean if they were taken.
Full ==
  {Line("full", "WRITE [(a,x)(a,x)(a,x)]\n", <<<<"WRITE", [i \in 1 .. 3 |-> <<<<"a">>, <<"x">>>>]>>>>),
   Line("full", "READ [a,b,a]\n", <<<<"READ", <<<<"a">>, <<"b">>, <<"a">>>>>>>>)}

\* Comments that a list which was left open may run into, and end in.
Closing == {Valid("#]", <<>>), Valid("#,b]", <<>>), Valid("#,x)]", <<>>), Valid("#)]", <<>>)}

\* Short words, which take part of the next line with them; wrong brackets; names
\* that are too long; batches of more than MAX_WRITE_SIZE; numbers too large.
ServerFaults ==
  Faults("closed",
    {"x\n", "W\n", "WAIT\n", "READ\n", "D\n", "SHO\n", "SHOWS\n", "BACKUP \n", "HELP x\n",
     "WAIT x\n", "WAIT 1x\n", "WAIT 1000\n", "WAIT 1000 1\n",
     "WRITE \n", "WRITE (a,x)\n", "WRITE [\n", "WRITE [a,x]\n", "WRITE [()]\n", "WRITE [(a)]\n",
     "WRITE [(a,x,y)]\n", "WRITE [(abcdefgh,x)]\n", "WRITE [(a,stuvwxyz)]\n", "WRITE [(a,x)] \n",
     "WRITE [(a,x),(bc,x)]\n", "WRITE [(a,x)(a,x)(a,x)(a,x)]\n",
     "READ \n", "READ a]\n", "READ [(a)]\n", "READ [a,bc,a,bc]\n",
     "READ [abcdefgh]\n", "DELETE [a bc]\n", "READ [a]]\n", "READ [a]SHOW\n"})
  \cup Faults("open",
    {"WRITE [(a\n", "WRITE [(a,x\n", "WRITE [(a,x)\n", "WRITE [(a,x)(\n", "READ [\n", "READ [a\n",
     "READ [a,\n"})
  \cup Full

ClientFaults ==
  Faults("closed",
    {"x\n", "S\n", "U\n", "DIS\n", "SHOW\n", "DISCONNECT x\n", "DELAY 1000\n", "SUBSCRIBE a\n",
     "SUBSCRIBE \n", "SUBSCRIBE [a,bc]\n", "UNSUBSCRIBE [abcdefgh]\n", "SUBSCRIBE [a]x\n"})
  \cup Faults("open", {"SUBSCRIBE [\n", "UNSUBSCRIBE [a\n"})

\* Last lines that the file ends.
Unterminated(texts, kept) ==
  Faults("closed", texts) \cup {Line("valid", w, <<<<w, <<>>>>>>) : w \in kept}

Ends(prog) ==
  IF prog = "server"
  THEN Unterminated({"READ [a]", "WRITE [(a,x)]", "DELETE [a", "RE", "WRITE [(a"}, {"SHOW"})
         \cup {Line("undefined", "WAIT 1", <<>>)}
  ELSE {Line("valid", "DISCONNECT", <<>>), Valid("DISCONNECT", <<>>), Line("closed", "SUBSCRIBE [a]", <<>>),
        Line("undefined", "DELAY 1", <<>>)}

Upto(set, n) == UNION {[1 .. m -> set] : m \in 0 .. n}

\* Well-formed files; files with one faulty line, followed by up to three lines.
MCFiles ==
  LET Of(valid, faults, few, prog) ==
        {ls \o end : ls \in Upto(valid, 2), end \in {<<>>} \cup {<<l>> : l \in Ends(prog)}}
          \cup {before \o <<l>> \o after :
                 before \in Upto(few, 1), l \in faults,
                 after \in Upto(few, 3) \cup Upto(few \cup Closing, 2)}
  IN [server |-> Of(ServerLines, ServerFaults,
                    Alones({"SHOW"}) \cup Lists({"READ"}, {<<"a", "bc">>}) \cup Writes
                      \cup {Valid("", <<>>)}, "server"),
      client |-> Of(ClientLines, ClientFaults,
                    Lists({"SUBSCRIBE"}, {<<"bc">>}) \cup {Valid("", <<>>)}
                      \cup Numbers("DELAY"), "client")]
\* What may follow the digits of a number.
MCJunk == {<<>>, <<"9">>, <<"9", "9", "9">>}
=============================================================================
