--------------------------- MODULE MCActionQueue ----------------------------
(* Instances of InitFile for TLC: small init.rc files. *)
EXTENDS InitFile

CONSTANTS e1, e2, b1, p1, p2, q1

trigger(t) == [op |-> "trigger", arg |-> t]
setprop(p, v) == [op |-> "setprop", arg |-> on_property(p, v)]
other == [op |-> "other", arg |-> AllHolding]

Files6 == <<e1, e2, b1, p1, p2, q1>>

FileTriggers ==
    (e1 :> event("early-boot")) @@ (e2 :> event("early-boot")) @@ (b1 :> event("boot"))
    @@ (p1 :> on_property("p", "1")) @@ (p2 :> on_property("p", "1"))
    @@ (q1 :> on_property("q", "1"))
FewTriggers == [a \in Actions |-> FileTriggers[a]]

NothingLoaded == [p \in Props |-> NoValue]
AnyClients == {on_property("p", "1"), on_property("q", "1")}

\* The files of these actions with one or no command each that can make a
\* difference there, and the same with a longer boot action.
OneCommand == {<<>>, <<setprop("p", "1")>>, <<setprop("q", "1")>>, <<setprop("p", "2")>>,
               <<trigger(event("boot"))>>, <<trigger(on_property("p", "1"))>>}
FilesWith(commandsOfE2) ==
    {(e1 :> x) @@ (e2 :> y) @@ (b1 :> b) @@ (p1 :> p) @@ (p2 :> o) @@ (q1 :> q) :
        x \in OneCommand \ {<<setprop("p", "2")>>, <<trigger(on_property("p", "1"))>>},
        y \in commandsOfE2,
        b \in OneCommand \ {<<setprop("p", "2")>>},
        p \in OneCommand \ {<<trigger(event("boot"))>>},
        o \in OneCommand \ {<<setprop("p", "1")>>, <<trigger(event("boot"))>>},
        q \in {<<>>, <<setprop("p", "1")>>}}
AllFiles == FilesWith({<<>>, <<trigger(on_property("p", "1"))>>})
            \cup {[f EXCEPT ![b1] = f[b1] \o <<other>> \o f[e1]] : f \in FilesWith({<<>>})}

-----------------------------------------------------------------------------
(* The lines of these files. *)

W(words) == [i \in DOMAIN words |-> <<words[i]>>]
CommandLine(c) ==
    CASE c.op = "setprop" -> W(<<"setprop", c.arg.name, c.arg.value>>)
      [] c.op = "trigger" -> << <<"trigger">>, TriggerWords(c.arg)>>
      [] c.op = "other" -> W(<<"write", "a", "b">>)
LinesOf(acts, f) == FlattenSeq([k \in DOMAIN acts |->
    << << <<"on">>, TriggerWords(TriggerOf[acts[k]])>> >>
        \o [n \in DOMAIN f[acts[k]] |-> CommandLine(f[acts[k]][n])]])
AllStyles == {"plain", "quoted", "partly", "escaped", "folded", "commented", "open"}

\* One more line anywhere in a file of four actions with names of their own, and a service with two lines before or
\* after a section: refused sections, lines with too few words and too many,
\* empty words and words with blanks, options of every kind.
OneFile == [a \in Actions |->
    CASE a = e1 -> <<setprop("p", "2")>> [] a = b1 -> <<setprop("q", "1"), other>>
      [] a = p1 -> <<other>> [] OTHER -> <<>>]
ServiceLine == W(<<"service", "s", "prog", "arg">>)
ServiceLines == {ServiceLine, W(<<"service", "u", "prog">>), W(<<"service", "s">>),
    W(<<"service", "!", "prog">>), << <<"service">>, <<"s", "s", "s">>, <<"prog">> >>}
OtherLines == {W(<<"on">>), W(<<"on", "boot", "x">>), W(<<"setprop", "p">>),
    W(<<"class_start", "s">>), W(<<"class_stop">>), W(<<"setkey">>), W(<<"chmod", "a">>),
    W(<<"mount", "a", "b", "c">>), W(<<"mount", "a", "b">>), W(<<"device", "a", "b", "c", "d">>),
    W(<<"exec", "1", "2", "3", "4", "5", "6", "7">>), W(<<"bogus">>),
    << <<"write">>, <<>>, <<"a", SP, HASH, "b">> >>, << <<"set", "prop">>, <<"p">>, <<"2">> >>}
OptionLines == {W(<<"class">>), W(<<"class", "a">>), W(<<"class", "b">>), W(<<"user", "a">>),
    W(<<"user", "a", "b">>), W(<<"group">>), W(<<"group", "a", "b">>), W(<<"group", "a", "b", "c">>),
    W(<<"keycodes", "1", "2", "3">>), W(<<"oneshot">>), W(<<"critical", "x">>),
    W(<<"onrestart">>), W(<<"onrestart", "restart">>), W(<<"onrestart", "restart", "s">>),
    W(<<"onrestart", "class", "s">>), W(<<"setenv", "a", "b", "c">>), W(<<"setenv", "a", "b">>),
    W(<<"setenv">>), W(<<"socket", "a", "dgram", "1">>), W(<<"socket", "a", "raw", "1">>),
    W(<<"socket", "b", "stream", "1", "2", "3", "4">>)}
Insert(lines, i, more) == SubSeq(lines, 1, i) \o more \o SubSeq(lines, i + 1, Len(lines))
OneLines == LinesOf(<<e1, b1, p1, q1>>, OneFile)
OneMore == {Insert(OneLines, i, <<l>>) : i \in 0..Len(OneLines), l \in ServiceLines \cup OtherLines}
ServiceMore == {Insert(OneLines, 2, <<ServiceLine, l, k>>) :
                    l \in OptionLines, k \in OptionLines \cup ServiceLines}

WrittenFiles == {FileOf(LinesOf(Files6, f), "plain") : f \in AllFiles}
                \cup {FileOf(l, style) : l \in OneMore, style \in AllStyles}
                \cup {FileOf(l, style) : l \in ServiceMore, style \in {"quoted", "folded"}}

=============================================================================
