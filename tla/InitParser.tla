----------------------------- MODULE InitParser -----------------------------
(***************************************************************************)
(* parser.c: the text of an init.rc turned into services and actions.  The *)
(* text is read and written in place: a token is moved over the quotes and *)
(* backslashes before it and ended where it stands, and what commands and  *)
(* services keep are pointers into the text.                               *)
(*                                                                         *)
(* A symbol is one of the characters the scanner tells apart or a word,    *)
(* which stands for the characters between them.                           *)
(***************************************************************************)
EXTENDS Naturals, SequencesExt

CONSTANTS
    SVC_MAXARGS,        \* words of a line that are kept
    NR_SVC_SUPP_GIDS,   \* supplementary groups of a service
    NameMax,            \* length of the name of a service
    NameSymbols         \* what it is made of

ASSUME ParserAssumption ==
    /\ SVC_MAXARGS \in Nat /\ SVC_MAXARGS >= 3 /\ NR_SVC_SUPP_GIDS \in Nat /\ NameMax \in Nat

EOS == "\\0"
LF == "\n"
CR == "\r"
TAB == "\t"
SP == " "
QUOTE == "\""
BACKSLASH == "\\"
HASH == "#"
Blank == {SP, TAB, CR}

-----------------------------------------------------------------------------
(* next_token: the text m is read at x and written at s.                   *)

T_EOF == 0
T_TEXT == 1
T_NEWLINE == 2

\* What a call leaves: the token, the text, ptr and nexttoken.
Token(t, m, x, next) == [t |-> t, m |-> m, ptr |-> x, nexttoken |-> next]
TextDone(m, x, s, next) == Token(T_TEXT, [m EXCEPT ![s] = EOS], x, next)

SkipBlanks(m, x) == CHOOSE y \in x..Len(m) :
    m[y] \notin {SP, TAB} /\ \A z \in x..(y - 1) : m[z] \in {SP, TAB}

RECURSIVE Text(_, _, _), Quoted(_, _, _)

\* The letter of an escape that is known is not stepped over: it is copied too.
\* After backslash and CR the LF stays where it is and ends the line.
Escape(m, x, s) ==
    CASE m[x] = EOS -> TextDone(m, x, s, 0)
      [] m[x] = "n" -> Text([m EXCEPT ![s] = LF], x, s + 1)
      [] m[x] = "r" -> Text([m EXCEPT ![s] = CR], x, s + 1)
      [] m[x] = "t" -> Text([m EXCEPT ![s] = TAB], x, s + 1)
      [] m[x] = BACKSLASH -> Text([m EXCEPT ![s] = BACKSLASH], x, s + 1)
      [] m[x] = CR -> Text(m, x + 1, s)
      [] m[x] = LF -> Text(m, SkipBlanks(m, x + 1), s)
      [] OTHER -> Text([m EXCEPT ![s] = m[x]], x + 1, s + 1)

Text(m, x, s) ==
    CASE m[x] = EOS -> TextDone(m, x, s, 0)
      [] m[x] \in Blank -> TextDone(m, x + 1, s, 0)
      [] m[x] = LF -> TextDone(m, x + 1, s, T_NEWLINE)
      [] m[x] = QUOTE -> Quoted(m, x + 1, s)
      [] m[x] = BACKSLASH -> Escape(m, x + 1, s)
      [] OTHER -> Text([m EXCEPT ![s] = m[x]], x + 1, s + 1)

\* Without its end a quoted text takes the rest of the file with it.
Quoted(m, x, s) ==
    CASE m[x] = EOS -> Token(T_EOF, m, x, 0)
      [] m[x] = QUOTE -> Text(m, x + 1, s)
      [] OTHER -> Quoted([m EXCEPT ![s] = m[x]], x + 1, s + 1)

Starts(m, x) == CHOOSE y \in x..Len(m) :
    m[y] \notin Blank /\ \A z \in x..(y - 1) : m[z] \in Blank
EndOfComment(m, x) == CHOOSE y \in x..Len(m) :
    m[y] \in {EOS, LF} /\ \A z \in x..(y - 1) : m[z] \notin {EOS, LF}

next_token(m, ptr, nexttoken) ==
    LET x == Starts(m, ptr)
    IN  CASE nexttoken # 0 -> Token(nexttoken, m, ptr, 0)
          [] m[x] = EOS -> Token(T_EOF, m, x, 0)
          [] m[x] = LF -> Token(T_NEWLINE, m, x + 1, 0)
          [] m[x] = HASH -> Token(T_NEWLINE, m, EndOfComment(m, x), 0)
          [] OTHER -> Text(m, x, x)

\* What a pointer points to.
String(m, p) ==
    LET end == CHOOSE y \in p..Len(m) : m[y] = EOS /\ \A z \in p..(y - 1) : m[z] # EOS
    IN  SubSeq(m, p, end - 1)

-----------------------------------------------------------------------------
(* keywords.h: the commands with the number of arguments they need.        *)

NoArgs == {"setkey"}
OneArg == {"chdir", "chroot", "class_start", "class_stop", "domainname", "exec", "hostname",
    "ifup", "insmod", "import", "mkdir", "restart", "start", "stop", "trigger", "symlink",
    "sysclktz", "loglevel"}
TwoArgs == {"export", "setprop", "write", "copy", "chown", "chmod"}
ThreeArgs == {"mount", "setrlimit"}
FourArgs == {"device"}
Commands == NoArgs \union OneArg \union TwoArgs \union ThreeArgs \union FourArgs
Sections == {"on", "service"}

kw_nargs(kw) == 1 + (CASE kw \in NoArgs -> 0 [] kw \in OneArg -> 1 [] kw \in TwoArgs -> 2
                       [] kw \in ThreeArgs -> 3 [] kw \in FourArgs -> 4)

lookup_keyword(string) == IF Len(string) = 1 THEN string[1] ELSE "unknown"

-----------------------------------------------------------------------------
(* Sections and their lines.  args are pointers, of which nargs belong to  *)
(* this line and the rest to lines before.                                 *)

Words(args, nargs) == SubSeq(args, 1, nargs)

\* service_list and action_list; says of a service are its options with words.
Options == {"class", "group", "keycodes", "user", "onrestart", "setenv", "socket"}
NoTables == [services |-> <<>>, actions |-> <<>>]

valid_name(name) == Len(name) <= NameMax /\ \A i \in DOMAIN name : name[i] \in NameSymbols

service_find_by_name(m, services, name) ==
    \E i \in DOMAIN services : String(m, services[i].name) = name

\* Mutant: a service may be defined twice.
parse_service_Twice(m, tables, args, nargs) ==
    IF nargs < 3 \/ ~valid_name(String(m, args[2])) THEN tables
    ELSE [tables EXCEPT !.services = Append(@, [name |-> args[2], args |-> SubSeq(args, 3, nargs),
             flags |-> {}, says |-> [o \in Options |-> <<>>]])]

parse_service(m, tables, args, nargs) ==
    IF \/ nargs < 3
       \/ ~valid_name(String(m, args[2]))
       \/ service_find_by_name(m, tables.services, String(m, args[2]))
    THEN tables
    ELSE [tables EXCEPT !.services = Append(@, [name |-> args[2], args |-> SubSeq(args, 3, nargs),
             flags |-> {}, says |-> [o \in Options |-> <<>>]])]

parse_action(tables, args, nargs) ==
    IF nargs # 2 THEN tables
    ELSE [tables EXCEPT !.actions = Append(@, [name |-> args[2], commands |-> <<>>])]

\* A command is kept when it is one and has the words it needs.
Accepted(m, args, nargs) ==
    LET kw == lookup_keyword(String(m, args[1])) IN kw \in Commands /\ nargs >= kw_nargs(kw)

parse_line_action(m, act, args, nargs) ==
    IF Accepted(m, args, nargs)
    THEN [act EXCEPT !.commands = Append(@, Words(args, nargs))] ELSE act

\* The last class, group, keycodes and user count; the others add up, setenv and
\* socket in front.  setenv asks for one word and takes two, the second of an
\* earlier line; onrestart without a word looks at one of those too, but never
\* accepts it.
parse_line_service(m, svc, args, nargs) ==
    LET kw == lookup_keyword(String(m, args[1]))
        rest == SubSeq(args, 2, nargs)
        Set(words) == [svc EXCEPT !.says[kw] = <<words>>]
        Push(words) == [svc EXCEPT !.says[kw] = <<words>> \o @]
    IN  CASE kw \in {"console", "disabled", "oneshot", "critical"} ->
                [svc EXCEPT !.flags = @ \union {kw}]
          [] kw \in {"class", "user"} /\ nargs = 2 -> Set(rest)
          [] kw = "group" /\ nargs >= 2 /\ nargs <= NR_SVC_SUPP_GIDS + 2 -> Set(rest)
          [] kw = "keycodes" /\ nargs >= 2 -> Set(rest)
          [] kw = "onrestart" /\ nargs > 1 /\ Accepted(m, Tail(args), nargs - 1) ->
                [svc EXCEPT !.says[kw] = Append(@, rest)]
          [] kw = "setenv" /\ nargs >= 2 -> Push(SubSeq(args, 2, 3))
          [] kw = "socket" /\ nargs >= 4 /\ String(m, args[3]) \in {<<"dgram">>, <<"stream">>} ->
                Push(SubSeq(args, 2, IF nargs > 6 THEN 6 ELSE nargs))
          [] OTHER -> svc

-----------------------------------------------------------------------------
(* parse_config.                                                           *)

\* parse_line is the function that reads the next lines: of a service, of an
\* action, or none after a section that was refused.
parse_new_section(m, tables, kw, args, nargs) ==
    LET new == IF kw = "service" THEN parse_service(m, tables, args, nargs)
               ELSE parse_action(tables, args, nargs)
    IN  [tables |-> new, parse_line |-> IF new = tables THEN "no_op" ELSE kw]

parse_line(m, tables, section, args, nargs) ==
    CASE section = "service" -> [tables EXCEPT !.services =
             ReplaceAt(@, Len(@), parse_line_service(m, Last(@), args, nargs))]
      [] section = "on" -> [tables EXCEPT !.actions =
             ReplaceAt(@, Len(@), parse_line_action(m, Last(@), args, nargs))]
      [] section = "no_op" -> tables

Line(m, c) ==
    LET kw == lookup_keyword(String(m, c.args[1]))
    IN  IF kw \in Sections THEN parse_new_section(m, c.tables, kw, c.args, c.nargs)
        ELSE [tables |-> parse_line(m, c.tables, c.parse_line, c.args, c.nargs),
              parse_line |-> c.parse_line]

\* One more word of the line.
Put(args, n, p) == IF n > Len(args) THEN Append(args, p) ELSE ReplaceAt(args, n, p)

\* c: tables, parse_line, args, nargs.
RECURSIVE Config(_, _, _)
Config(c, ptr, token) ==
    LET r == next_token(token.m, ptr, token.nexttoken)
    IN  CASE r.t = T_EOF -> [tables |-> c.tables, m |-> r.m]
          [] r.t = T_NEWLINE /\ c.nargs = 0 -> Config(c, r.ptr, r)
          [] r.t = T_NEWLINE /\ c.nargs > 0 ->
                LET l == Line(r.m, c)
                IN  Config([c EXCEPT !.tables = l.tables, !.parse_line = l.parse_line, !.nargs = 0],
                           r.ptr, r)
          [] r.t = T_TEXT /\ c.nargs = SVC_MAXARGS -> Config(c, r.ptr, r)
          [] r.t = T_TEXT /\ c.nargs < SVC_MAXARGS ->
                Config([c EXCEPT !.args = Put(@, c.nargs + 1, Starts(token.m, ptr)), !.nargs = @ + 1],
                       r.ptr, r)

\* read_file ends the text with a newline whether it has one or not.
read_file(text) == text \o <<LF, EOS>>

parse_config(text) ==
    LET m == read_file(text)
    IN  Config([tables |-> NoTables, parse_line |-> "no_op",
                args |-> <<>>, nargs |-> 0],
               1, Token(T_NEWLINE, m, 1, 0))

\* The tables as they read when the whole text has been parsed.
parse_config_file(text) ==
    LET r == parse_config(text)
        At(p) == String(r.m, p)
        All(words) == [i \in DOMAIN words |-> At(words[i])]
    IN  [services |-> [i \in DOMAIN r.tables.services |->
            LET svc == r.tables.services[i]
            IN  [name |-> At(svc.name), args |-> All(svc.args), flags |-> svc.flags,
                 says |-> [o \in Options |-> [k \in DOMAIN svc.says[o] |-> All(svc.says[o][k])]]]],
         actions |-> [i \in DOMAIN r.tables.actions |->
            LET act == r.tables.actions[i]
            IN  [name |-> At(act.name),
                 commands |-> [k \in DOMAIN act.commands |-> All(act.commands[k])]]]]

=============================================================================
