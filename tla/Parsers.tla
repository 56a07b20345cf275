------------------------------ MODULE Parsers ------------------------------
(***************************************************************************)
(* The parsers of job files (server/parser.c, called by run_job) and of    *)
(* the client's commands (client/parser.c, called by main).  A file is     *)
(* read character by character with no way back: what one call has         *)
(* consumed no other call sees, and a command that is refused leaves the   *)
(* file wherever its parser stopped.                                       *)
(*                                                                         *)
(* A file is a sequence of characters, without NUL.  Reads are not short:  *)
(* the client's commands come from a file as well.  One action is one      *)
(* round of the loop, get_next with the parser of the command, up to the   *)
(* bracket that opens a list, or one round of the loop over a list.        *)
(***************************************************************************)
EXTENDS Integers, FiniteSets, FiniteSetsExt, Sequences, SequencesExt

CONSTANTS
  Files,            \* for each program, the files it may be given: sequences of lines
  MAX_STRING_SIZE,
  MAX_WRITE_SIZE,
  UINT_MAX,
  Junk              \* what may follow a number in its buffer

Nothing == ""   \* what a read at the end of the file returns
Blank   == " "
Comma   == ","

Characters == STRING \ {Nothing}

\* The file that lines make.
Texts(some) == [i \in DOMAIN some |-> some[i].text]
Text(some)  == FlattenSeq(Texts(some))

ASSUME FileAssumption ==
  \A prog \in {"server", "client"} : \A some \in Files[prog] :
    some \in Seq(ToSet(some)) /\ \A i \in DOMAIN some : some[i].text \in Seq(Characters)
ASSUME SizeAssumption == {MAX_STRING_SIZE, MAX_WRITE_SIZE, UINT_MAX} \subseteq Nat \ {0}

\* read_string ends a string that has no delimiter in time with a NUL behind its
\* array char key[max_string_size].  The compiler gives such an array a multiple of
\* 16 bytes, so the NUL does no harm and the string is refused like any other, unless
\* this assumption fails (MAX_STRING_SIZE is 40).
ASSUME PaddingAssumption == MAX_STRING_SIZE % 16 # 0

VARIABLES
  program,   \* "server" or "client"
  lines,     \* the lines of the file: the text of each, and what it is to do
  file,      \* their text
  pos,       \* the next character
  cmd,       \* the command whose list is being read
  batch,     \* what was read of the list
  done,      \* the commands executed
  over       \* the loop has ended

vars == <<program, lines, file, pos, cmd, batch, done, over>>

None == "none"

Init ==
  /\ program \in {"server", "client"}
  /\ lines \in Files[program]
  /\ file = Text(lines)
  /\ pos = 1 /\ cmd = None /\ batch = <<>>
  /\ done = <<>> /\ over = FALSE

-----------------------------------------------------------------------------
(* Reading.                                                                *)

\* The character at p; nothing at the end of the file.
Char(p) == IF p > Len(file) THEN Nothing ELSE file[p]

\* Where n more characters take the reader.
After(p, n) == Min({p + n, Len(file) + 1})

\* Skip the rest of the line.
cleanup(p) ==
  LET ends == {i \in p .. Len(file) : Char(i) = "\n"}
  IN IF ends = {} THEN Len(file) + 1 ELSE Min(ends) + 1

\* Mutant: one character more is taken (i <= max).
read_string_OneMore(p) ==
  LET stops == {i \in p .. After(p, MAX_STRING_SIZE + 1) - 1 : Char(i) \in {Blank, Comma, ")", "]"}}
      stop  == Min(stops)
  IN IF stops = {}
     THEN [stop |-> Nothing, str |-> <<>>, pos |-> After(p, MAX_STRING_SIZE + 1)]
     ELSE [stop |-> Char(stop), str |-> SubSeq(file, p, stop - 1), pos |-> stop + 1]

\* At most MAX_STRING_SIZE characters, the delimiter included.  The end of a line
\* does not delimit a string.
read_string(p) ==
  LET stops == {i \in p .. After(p, MAX_STRING_SIZE) - 1 : Char(i) \in {Blank, Comma, ")", "]"}}
      stop  == Min(stops)
  IN IF stops = {}
     THEN [stop |-> Nothing, str |-> <<>>, pos |-> After(p, MAX_STRING_SIZE)]
     ELSE [stop |-> Char(stop), str |-> SubSeq(file, p, stop - 1), pos |-> stop + 1]

Digits == <<"0", "1", "2", "3", "4", "5", "6", "7", "8", "9">>

\* More than 15 digits in a row would be written behind read_uint's buf[16]: what
\* becomes of them is left out.
ASSUME DigitsAssumption ==
  \A prog \in {"server", "client"} : \A some \in Files[prog] :
    LET text == Text(some)
    IN \A i \in 1 .. Len(text) - 15 : \E j \in i .. i + 15 : text[j] \notin ToSet(Digits)

Number(digits) ==
  FoldLeft(LAMBDA n, digit : 10 * n + SelectInSeq(Digits, LAMBDA d : d = digit) - 1, 0, digits)

\* The digits, which may be none, and the character after them.  At the end of the
\* file nothing ends the number in its buffer: junk goes on.
read_uint(p, junk) ==
  LET stop   == Min({i \in p .. Len(file) + 1 : Char(i) \notin ToSet(Digits)})
      digits == SubSeq(file, p, stop - 1)
  IN [value |-> Number(IF stop > Len(file) THEN digits \o junk ELSE digits),
      next |-> Char(stop), pos |-> After(stop, 1)]

-----------------------------------------------------------------------------
(* get_next.                                                               *)

\* What get_next compares with: a blank ends the words that have arguments.
Spelled ==
  [WAIT |-> <<"W", "A", "I", "T", Blank>>,
   WRITE |-> <<"W", "R", "I", "T", "E", Blank>>,
   READ |-> <<"R", "E", "A", "D", Blank>>,
   DELETE |-> <<"D", "E", "L", "E", "T", "E", Blank>>,
   SHOW |-> <<"S", "H", "O", "W">>,
   BACKUP |-> <<"B", "A", "C", "K", "U", "P">>,
   HELP |-> <<"H", "E", "L", "P">>,
   SUBSCRIBE |-> <<"S", "U", "B", "S", "C", "R", "I", "B", "E", Blank>>,
   UNSUBSCRIBE |-> <<"U", "N", "S", "U", "B", "S", "C", "R", "I", "B", "E", Blank>>,
   DELAY |-> <<"D", "E", "L", "A", "Y", Blank>>,
   DISCONNECT |-> <<"D", "I", "S", "C", "O", "N", "N", "E", "C", "T">>]

WordsOf(prog) ==
  IF prog = "server"
  THEN {"WAIT", "WRITE", "READ", "DELETE", "SHOW", "BACKUP", "HELP"}
  ELSE {"SUBSCRIBE", "UNSUBSCRIBE", "DELAY", "DISCONNECT"}

Words == WordsOf(program)

\* The words that stand alone on their line.
Single == {"SHOW", "BACKUP", "HELP", "DISCONNECT"}

Length(word) == Len(Spelled[word])

Stands(p, word) ==
  /\ p + Length(word) <= Len(file) + 1
  /\ \A i \in 1 .. Length(word) : file[p + i - 1] = Spelled[word][i]

\* As many characters are read as the longest word with this initial has, before
\* the rest of the line is skipped: both may well be part of the next line.
get_next(p) ==
  LET words == {w \in Words : Spelled[w][1] = Char(p)}
      found == {w \in words : Stands(p, w)}
      word  == CHOOSE w \in found : TRUE
      end   == p + Length(word)
  IN CASE p > Len(file)   -> [cmd |-> "EOC", pos |-> p]
       [] Char(p) = "\n"  -> [cmd |-> "EMPTY", pos |-> p + 1]
       [] Char(p) = "#"   -> [cmd |-> "EMPTY", pos |-> cleanup(p + 1)]
       [] p <= Len(file) /\ Char(p) \notin {"\n", "#"} ->
            IF found = {}
            THEN [cmd |-> "INVALID", pos |-> cleanup(After(p, Max({1} \cup {Length(w) : w \in words})))]
            ELSE IF word \notin Single THEN [cmd |-> word, pos |-> end]
            ELSE IF Char(end) \in {"\n", Nothing} THEN [cmd |-> word, pos |-> After(end, 1)]
            ELSE [cmd |-> "INVALID", pos |-> cleanup(end + 1)]

-----------------------------------------------------------------------------
(* What becomes of a command: refused, or to be executed with a batch; and  *)
(* where its parser leaves off.                                            *)

\* One character is read, and the rest of the line skipped: of the next line, if
\* that character was the end of this one.
Refused(p) == [ok |-> FALSE, batch |-> <<>>, pos |-> cleanup(After(p, 1))]

\* parse_pair skips to the end of the line, and parse_write again.
RefusedTwice(p) == [ok |-> FALSE, batch |-> <<>>, pos |-> cleanup(cleanup(p))]

\* Mutant: the rest of the line is not skipped.
EndOfLine_Stays(p, some) ==
  IF Char(p) = "\n" THEN [ok |-> TRUE, batch |-> some, pos |-> p + 1]
                    ELSE [ok |-> FALSE, batch |-> <<>>, pos |-> p]

\* The end of the file does not end the line of a list.
EndOfLine(p, some) ==
  IF Char(p) = "\n" THEN [ok |-> TRUE, batch |-> some, pos |-> p + 1] ELSE Refused(p)

\* What follows a blank after the number is skipped.
parse_wait(p, junk) ==
  LET n == read_uint(p, junk)
  IN [ok    |-> n.value <= UINT_MAX /\ n.next \in {Blank, "\n", Nothing},
      batch |-> <<n.value>>,
      pos   |-> IF n.value <= UINT_MAX /\ n.next \in {"\n", Nothing} THEN n.pos ELSE cleanup(n.pos)]

\* What follows the number is the next command.
parse_delay(p, junk) ==
  LET n == read_uint(p, junk)
  IN [ok    |-> n.value <= UINT_MAX,
      batch |-> <<n.value>>,
      pos   |-> IF n.value <= UINT_MAX THEN n.pos ELSE cleanup(n.pos)]

\* A command is executed with what was parsed, or refused.
Execute(command, result) ==
  /\ pos' = result.pos
  /\ done' = IF result.ok THEN Append(done, <<command, result.batch>>) ELSE done
  /\ cmd' = None /\ batch' = <<>>
  /\ UNCHANGED <<program, lines, file, over>>

-----------------------------------------------------------------------------
(* Lists.                                                                  *)

\* The list of a command begins at p, or goes on there.
Continue(command, some, p) ==
  /\ cmd' = command /\ batch' = some /\ pos' = p
  /\ UNCHANGED <<program, lines, file, done, over>>

\* parse_write: one pair and what follows it.
Pair ==
  /\ cmd = "WRITE"
  /\ LET key   == read_string(pos)
         value == read_string(key.pos)
         pairs == Append(batch, <<key.str, value.str>>)
         next  == Char(value.pos)
     IN \/ key.stop # Comma /\ Execute(cmd, RefusedTwice(key.pos))
        \/ key.stop = Comma /\ value.stop # ")" /\ Execute(cmd, RefusedTwice(value.pos))
        \/ /\ key.stop = Comma /\ value.stop = ")"
           /\ \/ /\ next \notin {"(", "]"} \/ Len(pairs) = MAX_WRITE_SIZE
                 /\ Execute(cmd, Refused(value.pos))
              \/ /\ next = "]" /\ Len(pairs) # MAX_WRITE_SIZE
                 /\ Execute(cmd, EndOfLine(value.pos + 1, pairs))
              \/ /\ next = "(" /\ Len(pairs) # MAX_WRITE_SIZE
                 /\ Continue(cmd, pairs, value.pos + 1)

\* Mutant: the client's list may not have max_keys keys either.
IsFull_Both(keys, stop) == Len(keys) = IF program = "server" THEN MAX_WRITE_SIZE ELSE 1

\* The server takes fewer than max_keys keys, the client, whose max_keys is 1, as many.
IsFull(keys, stop) ==
  IF program = "server" THEN Len(keys) = MAX_WRITE_SIZE ELSE Len(keys) = 1 /\ stop # "]"

\* parse_read_delete, parse_list: one key.
Key ==
  /\ cmd \in {"READ", "DELETE", "SUBSCRIBE", "UNSUBSCRIBE"}
  /\ LET key  == read_string(pos)
         keys == Append(batch, key.str)
         bad  == key.stop \notin {Comma, "]"} \/ IsFull(keys, key.stop)
     IN \/ bad /\ Execute(cmd, [ok |-> FALSE, batch |-> <<>>, pos |-> cleanup(key.pos)])
        \/ ~bad /\ key.stop = "]" /\ Execute(cmd, EndOfLine(key.pos, keys))
        \/ ~bad /\ key.stop = Comma /\ Continue(cmd, keys, key.pos)

-----------------------------------------------------------------------------
(* The loops of run_job and of the client's main.                          *)

\* The next command is one of these, and its arguments begin at p.
Gets(commands) == ~over /\ cmd = None /\ get_next(pos).cmd \in commands
Arguments      == get_next(pos).pos

Skip ==
  /\ Gets({"EMPTY", "INVALID"})
  /\ pos' = Arguments
  /\ UNCHANGED <<program, lines, file, cmd, batch, done, over>>

Alone ==
  /\ Gets({"SHOW", "BACKUP", "HELP"})
  /\ Execute(get_next(pos).cmd, [ok |-> TRUE, batch |-> <<>>, pos |-> Arguments])

\* WRITE wants two brackets.
Write ==
  /\ Gets({"WRITE"})
  /\ \/ Char(Arguments) # "[" /\ Execute("WRITE", Refused(Arguments))
     \/ /\ Char(Arguments) = "[" /\ Char(Arguments + 1) # "("
        /\ Execute("WRITE", Refused(Arguments + 1))
     \/ /\ Char(Arguments) = "[" /\ Char(Arguments + 1) = "("
        /\ Continue("WRITE", <<>>, Arguments + 2)

OpenList(commands) ==
  /\ Gets(commands)
  /\ \/ Char(Arguments) # "[" /\ Execute(get_next(pos).cmd, Refused(Arguments))
     \/ Char(Arguments) = "[" /\ Continue(get_next(pos).cmd, <<>>, Arguments + 1)

ReadOrDelete == OpenList({"READ", "DELETE"})

Subscription == OpenList({"SUBSCRIBE", "UNSUBSCRIBE"})

Wait ==
  /\ Gets({"WAIT"})
  /\ \E junk \in Junk : Execute("WAIT", parse_wait(Arguments, junk))

Delay ==
  /\ Gets({"DELAY"})
  /\ \E junk \in Junk : Execute("DELAY", parse_delay(Arguments, junk))

\* DISCONNECT ends the client, the end of the file either program.
End ==
  /\ Gets({"EOC", "DISCONNECT"})
  /\ over' = TRUE
  /\ UNCHANGED <<program, lines, file, pos, cmd, batch, done>>

Next ==
  \/ Skip \/ Alone \/ Write \/ ReadOrDelete \/ Subscription \/ Wait \/ Delay \/ End
  \/ Pair \/ Key

Spec == Init /\ [][Next]_vars

-----------------------------------------------------------------------------
(* The lines that are called valid, written from what they mean.  The code *)
(* takes some that its HELP does not tell of: text behind a number, a list *)
(* of one empty key.                                                       *)

Name(name) ==
  Len(name) < MAX_STRING_SIZE /\ ToSet(name) \cap {Blank, Comma, ")", "]"} = {}

\* The only end of a line in text is its last character.
OneLine(text) ==
  text # <<>> /\ \A i \in 1 .. Len(text) : text[i] = "\n" <=> i = Len(text)

\* The keys of a list, each with what delimits it.
Listed(keys) == [i \in DOMAIN keys |-> Append(keys[i], IF i = Len(keys) THEN "]" ELSE Comma)]
Paired(pairs) ==
  [i \in DOMAIN pairs |-> <<"(">> \o pairs[i][1] \o <<Comma>> \o pairs[i][2] \o <<")">>]

EmptyLine(text) == OneLine(text) /\ text[1] \in {"\n", "#"}

AloneLine(text, word, args) ==
  /\ word \in Single \ {"DISCONNECT"}
  /\ args = <<>> /\ text = Append(Spelled[word], "\n")

\* The number ends where a remark begins, which for DELAY is a line of its own that
\* must not look like a command.
NumberLine(text, word, args) ==
  /\ word \in {"WAIT", "DELAY"}
  /\ \E n \in 1 .. Len(text) - Length(word) - 1 :
       LET digits == SubSeq(text, Length(word) + 1, Length(word) + n)
           remark == SubSeq(text, Length(word) + n + 1, Len(text))
       IN /\ text = Spelled[word] \o digits \o remark
          /\ ToSet(digits) \subseteq ToSet(Digits) /\ Number(digits) <= UINT_MAX
          /\ args = <<Number(digits)>>
          /\ OneLine(remark)
          /\ \/ remark[1] = "\n"
             \/ word = "WAIT" /\ remark[1] = Blank
             \/ /\ word = "DELAY" /\ remark[1] \notin ToSet(Digits)
                /\ remark[2] \notin {"S", "U", "D"}

ListLine(text, word, keys) ==
  /\ word \in {"READ", "DELETE", "SUBSCRIBE", "UNSUBSCRIBE"}
  /\ keys \in Seq(Seq(Characters)) /\ Len(keys) > 0
  /\ IF word \in {"READ", "DELETE"} THEN Len(keys) < MAX_WRITE_SIZE ELSE Len(keys) = 1
  /\ \A i \in 1 .. Len(keys) : Name(keys[i])
  /\ text = Spelled[word] \o <<"[">> \o FlattenSeq(Listed(keys)) \o <<"\n">>

WriteLine(text, word, pairs) ==
  /\ word = "WRITE"
  /\ pairs \in Seq(Seq(Characters) \X Seq(Characters)) /\ Len(pairs) \in 1 .. MAX_WRITE_SIZE - 1
  /\ \A i \in 1 .. Len(pairs) : Name(pairs[i][1]) /\ Name(pairs[i][2])
  /\ text = Spelled.WRITE \o <<"[">> \o FlattenSeq(Paired(pairs)) \o <<"]", "\n">>

OneList(text, word, args) == ListLine(text, word, args) \/ WriteLine(text, word, args)

\* A line that other lines may follow.
InnerLine(line, words) ==
  \/ line.means = <<>> /\ EmptyLine(line.text)
  \/ /\ line.means # <<>>
     /\ LET word == line.means[1][1]
            args == line.means[1][2]
        IN /\ line.means = <<<<word, args>>>> /\ word \in words
           /\ \/ AloneLine(line.text, word, args)
              \/ NumberLine(line.text, word, args)
              \/ ListLine(line.text, word, args)
              \/ WriteLine(line.text, word, args)

\* A last line: a word that stands alone may do without the end of the line, and
\* nothing is read after DISCONNECT.
LastLine(line, words) ==
  \E word \in words \cap Single :
    /\ line.means = IF word = "DISCONNECT" THEN <<>> ELSE <<<<word, <<>>>>>>
    /\ line.text = Spelled[word] \/ line.text = Append(Spelled[word], "\n")

ASSUME LineAssumption ==
  \A prog \in {"server", "client"} : \A some \in Files[prog] : \A i \in DOMAIN some :
    some[i].sort = "valid" =>
      InnerLine(some[i], WordsOf(prog)) \/ (i = Len(some) /\ LastLine(some[i], WordsOf(prog)))

-----------------------------------------------------------------------------
(* Correctness.                                                            *)

\* What is parsed of a command's arguments fits the arrays of run_job and of the
\* client's main, names with the NUL that ends them.
Fits(command, args) ==
  LET Short(name) == Len(name) < MAX_STRING_SIZE
  IN CASE command = "WRITE" ->
            /\ Len(args) < MAX_WRITE_SIZE
            /\ \A j \in 1 .. Len(args) : Short(args[j][1]) /\ Short(args[j][2])
       [] command \in {"READ", "DELETE"} ->
            Len(args) < MAX_WRITE_SIZE /\ \A j \in 1 .. Len(args) : Short(args[j])
       [] command \in {"SUBSCRIBE", "UNSUBSCRIBE"} ->
            Len(args) <= 1 /\ \A j \in 1 .. Len(args) : Short(args[j])
       [] OTHER -> TRUE

\* Every variable keeps its type.  What a list has so far and what is executed fits
\* the arrays of run_job and of the client's main that strcpy fills.  (The local
\* array of one string is PaddingAssumption's.)
TypeOK ==
  /\ program \in {"server", "client"}
  /\ file \in Seq(Characters)
  /\ pos \in 1 .. Len(file) + 1
  /\ cmd \in {None} \cup (Words \ Single)
  /\ over \in BOOLEAN
  /\ batch \in Seq(ToSet(batch)) /\ done \in Seq(ToSet(done))
  /\ cmd # None => Len(batch) < IF program = "server" THEN MAX_WRITE_SIZE ELSE 1
  /\ Fits(cmd, batch)
  /\ \A i \in 1 .. Len(done) : done[i][1] \in Words /\ Fits(done[i][1], done[i][2])

\* What the lines ask for.
Means(some)   == [i \in DOMAIN some |-> some[i].means]
Meaning(some) == FlattenSeq(Means(some))

Sort(sort) == {i \in DOMAIN lines : lines[i].sort = sort}

\* A file of well-formed lines is executed: each command once, in the order of the
\* lines, with the keys and values that the line lists.
RoundTrip ==
  Sort("valid") = DOMAIN lines =>
    /\ IsPrefix(done, Meaning(lines))
    /\ over => done = Meaning(lines)

\* get_next is called at the start of a line only, whatever was refused before;
\* except that the client's DELAY leaves what follows its number.
LineAligned ==
  \/ cmd # None \/ pos = 1 \/ pos > Len(file) \/ Char(pos - 1) = "\n"
  \/ (done # <<>> /\ Last(done)[1] = "DELAY")

\* One faulty line in a file: the commands before it are executed, and those after
\* it, except some that follow it immediately.  Not more than two commands are lost
\* when the brackets of the line, if it has any, are closed.  The line itself is
\* executed only in two cases.  A batch of MAX_WRITE_SIZE ("full") may be taken or
\* refused, but not in part.  A list that its line leaves open may run on: then the
\* line, with those it has swallowed, reads as one list, and that is executed.
ErrorContained ==
  \A i \in DOMAIN lines :
    over /\ DOMAIN lines \ Sort("valid") = {i} /\ lines[i].sort # "undefined" =>
      \E j \in i .. Len(lines) :
        LET before == Meaning(SubSeq(lines, 1, i - 1))
            lost   == Meaning(SubSeq(lines, i + 1, j))
            after  == Meaning(SubSeq(lines, j + 1, Len(lines)))
        IN \/ /\ done \in {before \o after, before \o lines[i].means \o after}
              /\ lines[i].sort # "open" => Len(lost) <= 2
           \/ /\ lines[i].sort = "open" /\ Len(done) > Len(before)
              /\ LET run == done[Len(before) + 1]
                 IN /\ done = before \o <<run>> \o after
                    /\ OneList(Text(SubSeq(lines, i, j)), run[1], run[2])

-----------------------------------------------------------------------------
(* The inductive invariant of RoundTrip (ParsersProofs).                   *)

\* The file is the one that was opened.
FileRead == lines \in Files[program] /\ file = Text(lines)

Part(seqs, m) == FlattenSeq(SubSeq(seqs, 1, m))

\* Where line k begins, and what the lines up to it ask for.
Start(k) == Len(Part(Texts(lines), k - 1)) + 1
Meant(k) == Part(Means(lines), k)

\* The reader is at the start of line k.
Between(k) == cmd = None /\ pos = Start(k) /\ done = Meant(k - 1)

\* It is behind the number of a DELAY, in a remark that begins no word.
InRemark(k) ==
  /\ k <= Len(lines) /\ program = "client" /\ cmd = None /\ done = Meant(k)
  /\ pos \in Start(k) .. Start(k + 1) - 1 /\ Char(pos) \notin {"S", "U", "D"}
  /\ \A i \in pos .. Start(k + 1) - 1 : Char(i) = "\n" <=> i = Start(k + 1) - 1

\* It is in the list of line k, and what it has read of it is in batch.
InList(k) ==
  /\ k <= Len(lines) /\ done = Meant(k - 1)
  /\ lines[k].means # <<>> /\ cmd = lines[k].means[1][1] /\ cmd \in Words
  /\ LET args == lines[k].means[1][2]
         n    == Len(batch)
     IN /\ lines[k].means = <<<<cmd, args>>>> /\ n < Len(args) /\ batch = SubSeq(args, 1, n)
        /\ \/ /\ ListLine(lines[k].text, cmd, args)
              /\ pos = Start(k) + Length(cmd) + 1 + Len(Part(Listed(args), n))
           \/ /\ WriteLine(lines[k].text, cmd, args)
              /\ pos = Start(k) + Length(cmd) + 2 + Len(Part(Paired(args), n))

InStep ==
  Sort("valid") = DOMAIN lines =>
    IF over THEN cmd = None /\ done = Meaning(lines)
    ELSE \E k \in 1 .. Len(lines) + 1 : Between(k) \/ InRemark(k) \/ InList(k)
=============================================================================
