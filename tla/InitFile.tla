------------------------------ MODULE InitFile ------------------------------
(***************************************************************************)
(* An init.rc from its text to the loop of init: parser.c reads the text,  *)
(* and the action queue runs what the tables say.  The text is forgotten   *)
(* when the first action is triggered: nothing reads it but through them.  *)
(***************************************************************************)
EXTENDS ActionQueue, InitParser

CONSTANTS
    InitRcs,        \* the files, see FileOf
    Unescapable     \* the symbols that begin with n, r or t

VARIABLE
    file            \* the file until the first of its actions is triggered

fileVars == <<vars, file>>
Forgotten == [lines |-> <<>>, tables |-> NoTables]

-----------------------------------------------------------------------------
(* Writing a file: the syntax of readme.txt.                               *)

Between(parts, glue) ==
    FlattenSeq([i \in DOMAIN parts |-> IF i = 1 THEN parts[i] ELSE glue \o parts[i]])

\* A word with blanks in it needs quotes, any may have them, also around a part
\* of it; a backslash in front of any other letter than n, r, t and itself is
\* dropped, in front of the end of a line both are.
WriteWord(word, style) ==
    CASE style = "quoted" \/ word = <<>> \/ \E i \in DOMAIN word : word[i] \in Blank \union {HASH} ->
            <<QUOTE>> \o word \o <<QUOTE>>
      [] style = "partly" -> <<QUOTE, word[1], QUOTE>> \o Tail(word)
      [] style = "escaped" -> FlattenSeq([i \in DOMAIN word |->
            IF word[i] \in Unescapable THEN <<word[i]>> ELSE <<BACKSLASH, word[i]>>])
      [] OTHER -> word
WriteLine(line, style) ==
    Between([i \in DOMAIN line |-> WriteWord(line[i], style)],
            CASE style = "folded" -> <<SP, BACKSLASH, LF, SP, TAB>>
              [] style = "quoted" -> <<TAB, CR, SP>>
              [] OTHER -> <<SP>>)
Ending(style) ==
    CASE style = "commented" -> <<SP, HASH, "on", QUOTE, BACKSLASH, LF, HASH, LF>>
      [] style = "folded" -> <<LF, LF>>
      [] OTHER -> <<LF>>

\* The last line may lack its end.  In the style "open" a quotation that does not
\* end follows.
Write(lines, style) ==
    Between([i \in DOMAIN lines |-> WriteLine(lines[i], style)], Ending(style))
        \o IF style = "open" THEN <<LF, "on", SP, QUOTE, "boot", LF>> ELSE <<>>

\* A file: its lines, each a sequence of words, and what the parser makes of them
\* when they are written in one style.
FileOf(lines, style) == [lines |-> lines, tables |-> parse_config_file(Write(lines, style))]

-----------------------------------------------------------------------------
(* What the lines of a file mean, by readme.txt and the parser's messages.  *)

KeywordOf(line) == lookup_keyword(line[1])
IsSection(line) == KeywordOf(line) \in Sections
DefinesService(line) == KeywordOf(line) = "service" /\ Len(line) >= 3 /\ valid_name(line[2])
IsCommand(words) ==
    words # <<>> /\ KeywordOf(words) \in Commands /\ Len(words) >= kw_nargs(KeywordOf(words))

DefinesAction(line) == KeywordOf(line) = "on" /\ Len(line) = 2

\* "If a second Action or Service is declared with the same name as an existing one,
\* it is ignored as an error."
IsFirst(lines, i, Defines(_)) ==
    Defines(lines[i]) /\ ~\E k \in 1..(i - 1) : Defines(lines[k]) /\ lines[k][2] = lines[i][2]
Opens(lines, i) == IsFirst(lines, i, DefinesAction) \/ IsFirst(lines, i, DefinesService)

\* The lines of a section: up to the next one.
Body(lines, i) ==
    LET end == CHOOSE j \in i..Len(lines) :
                  /\ \A k \in (i + 1)..j : ~IsSection(lines[k])
                  /\ j = Len(lines) \/ IsSection(lines[j + 1])
    IN  SubSeq(lines, i + 1, end)
Saying(body, kw) == SelectSeq(body, LAMBDA l : KeywordOf(l) = kw)

Cut(words, n) == SubSeq(words, 1, IF Len(words) > n THEN n ELSE Len(words))
LastOf(seq) == IF seq = <<>> THEN <<>> ELSE <<Tail(Last(seq))>>
Tails(seq) == [k \in DOMAIN seq |-> Tail(seq[k])]

Service(lines, i) ==
    LET body == Body(lines, i)
        Long(kw, least, most) ==
            SelectSeq(Saying(body, kw), LAMBDA l : Len(l) >= least /\ Len(l) <= most)
        env == Long("setenv", 3, SVC_MAXARGS)  \* it "requires name and value arguments"
    IN  [name |-> lines[i][2], args |-> Tail(Tail(lines[i])),
         flags |-> {KeywordOf(l) : l \in Range(body)} \intersect
                       {"console", "disabled", "oneshot", "critical"},
         says |-> [class |-> LastOf(Long("class", 2, 2)),
                   user |-> LastOf(Long("user", 2, 2)),
                   group |-> LastOf(Long("group", 2, NR_SVC_SUPP_GIDS + 2)),
                   keycodes |-> LastOf(Long("keycodes", 2, SVC_MAXARGS)),
                   onrestart |-> SelectSeq(Tails(Saying(body, "onrestart")), IsCommand),
                   setenv |-> Reverse([k \in DOMAIN env |-> Cut(Tail(env[k]), 2)]),
                   socket |-> Reverse(Tails(SelectSeq([k \in DOMAIN body |-> Cut(body[k], 6)],
                       LAMBDA l : KeywordOf(l) = "socket" /\ Len(l) >= 4
                                  /\ l[3] \in {<<"dgram">>, <<"stream">>})))]]

\* No more than SVC_MAXARGS words of a line count.
Meaning(all) ==
    LET lines == [i \in DOMAIN all |-> Cut(all[i], SVC_MAXARGS)]
        Opened(kw) == SelectSeq([i \in DOMAIN lines |-> i],
                                LAMBDA i : KeywordOf(lines[i]) = kw /\ Opens(lines, i))
        services == Opened("service")
        actions == Opened("on")
    IN  [services |-> [k \in DOMAIN services |-> Service(lines, services[k])],
         actions |-> [k \in DOMAIN actions |->
            [name |-> lines[actions[k]][2],
             commands |-> SelectSeq(Body(lines, actions[k]), IsCommand)]]]

-----------------------------------------------------------------------------
(* From the tables to the queue.                                           *)

TriggerWords(t) == IF t \in PropTriggers THEN <<"property:", t.name, "=", t.value>> ELSE <<t.name>>
CommandOf(words) ==
    CASE KeywordOf(words) = "setprop" -> [op |-> "setprop", arg |-> on_property(words[2][1], words[3][1])]
      [] KeywordOf(words) = "trigger" ->
            [op |-> "trigger", arg |-> CHOOSE t \in Triggers : TriggerWords(t) = words[2]]
      [] OTHER -> [op |-> "other", arg |-> AllHolding]

\* The commands of every action: of the actions of one name, the n-th section with
\* that name is the n-th.  One that the file lacks has none.
CommandsIn(tables) ==
    [a \in Actions |->
        LET namesakes == SelectSeq(ActionList, LAMBDA b : TriggerOf[b] = TriggerOf[a])
            n == CHOOSE i \in DOMAIN namesakes : namesakes[i] = a
            sections == SelectSeq(tables.actions, LAMBDA s : s.name = TriggerWords(TriggerOf[a]))
        IN  IF n \notin DOMAIN sections THEN <<>>
            ELSE FoldLeft(LAMBDA cs, words : Append(cs, CommandOf(words)), <<>>, sections[n].commands)]

FileInit ==
    /\ file \in InitRcs
    /\ commands = CommandsIn(file.tables)
    /\ QueueInit

FileNext == Next /\ file' = Forgotten

\* init is scheduled; nothing is assumed of the clients.
FileSpec == FileInit /\ [][FileNext]_fileVars /\ WF_fileVars(InitNext /\ file' = Forgotten)

\* The parser departs from the documents in two ways.  It asks no action whether there
\* is one of its name (parse_action: "XXX add to hash"), and takes a setenv without a
\* value, which it says it requires, with the third word of an earlier line.
Documented(lines) ==
    /\ \A i \in DOMAIN lines : DefinesAction(lines[i]) => IsFirst(lines, i, DefinesAction)
    /\ \A i \in DOMAIN lines : KeywordOf(lines[i]) = "setenv" => Len(lines[i]) # 2

\* However a file is written, in any mixture of quotes, folded lines, comments
\* and lines that are refused, init has the services and actions its lines mean,
\* word by word, when all of the text has been read and moved about in place, but
\* for files with two actions of a name or a setenv without a value.
ReadAsWritten ==
    file # Forgotten /\ Documented(file.lines) => file.tables = Meaning(file.lines)

=============================================================================
