--------------------------- MODULE MCPropertyService ---------------------------
(***************************************************************************)
(* The names, the permissions they need and the instances on which         *)
(* PropertyService is checked.                                             *)
(***************************************************************************)
EXTENDS PropertyService

MCNames == {"ro.hw", "sys.x", "net.x", "net.dns", "net.change", "persist.sys.p", "persist.sys.q", "ctl.start"}
SHELL == 2000  RADIO == 1001  LOG == 1007
MCPropertyPerms ==
    ({"ro.hw", "sys.x", "net.x", "net.dns", "net.change", "persist.sys.p", "persist.sys.q"} \X {SYSTEM})
    \union {<<"net.dns", RADIO>>}
MCControlPerms == {<<"dumpstate", SHELL, LOG>>, <<"pppd_gprs", RADIO, LOG>>}
MCNameValue == [n \in {"net.x", "net.dns"} |-> IF n = "net.x" THEN <<"x">> ELSE <<"d", "n">>]

Message(name, value, uid) == [kind |-> "set", name |-> name, value |-> value, uid |-> uid]
Control(service, uid, gid) == [kind |-> "set", name |-> "ctl.start", service |-> service, uid |-> uid, gid |-> gid]

Instance == [early |-> <<>>, defaults |-> <<>>, files |-> <<>>, messages |-> {}, clients |-> 0,
             reads |-> 0, losses |-> 0, faults |-> 0]

\* Values of different lengths under a reader; the counter comes round.
Reading ==
    [Instance EXCEPT !.early = <<<<"ro.hw", <<"a">>>>, <<"sys.x", <<>>>>, <<"ro.hw", <<"b">>>>>>,
                     !.messages = {Message("sys.x", v, SYSTEM) : v \in {<<"a", "a">>, <<"b">>}}
                            \union {Message("ro.hw", <<"b", "b">>, SYSTEM)},
                     !.clients = 4, !.reads = 2]
\* Two saved properties, a default for one, failing calls, data not yet written
\* back when the power fails.
Saving ==
    [Instance EXCEPT !.early = <<<<"persist.sys.p", <<"b", "b">>>>>>,
                     !.defaults = <<<<"sys.x", <<"a", "a", "a">>>>, <<"persist.sys.p", <<"d">>>>>>,
                     !.files = ("persist.sys.p" :> <<"a", "a">>),
                     !.messages = {Message("persist.sys.p", <<"c", "c">>, SYSTEM),
                                   Message("persist.sys.p", <<"x">>, SHELL),
                                   Message("persist.sys.q", <<"x">>, SYSTEM),
                                   Message("persist.sys.p", <<>>, ROOT)},
                     !.clients = 2, !.losses = 2, !.faults = 1]
\* The defaults leave no room for net.change or for a saved property.
Full ==
    [Instance EXCEPT !.early = <<<<"persist.sys.p", <<"b">>>>>>,
                     !.defaults = <<<<"sys.x", <<"a">>>>, <<"ro.hw", <<"a">>>>, <<"net.x", <<"a">>>>>>,
                     !.files = ("persist.sys.p" :> <<"a", "a">> @@ "persist.sys.q" :> <<"x">>),
                     !.messages = {Message("persist.sys.p", <<"c">>, SYSTEM),
                                   Message("persist.sys.q", <<>>, SYSTEM), Message("net.x", <<"b">>, SYSTEM)},
                     !.clients = 2, !.losses = 1]
\* net.change, clients of several users, a full table.
Asking ==
    [Instance EXCEPT !.defaults = <<<<"net.x", <<"a">>>>, <<"ro.hw", <<"a">>>>>>,
                     !.messages = {Message("net.x", <<"b">>, SYSTEM), Message("net.change", <<"b">>, SYSTEM),
                                   Message("net.dns", <<"a">>, RADIO),
                                   Message("sys.x", <<"a">>, SYSTEM), Message("sys.x", <<"a">>, RADIO),
                                   Control("dumpstate", SHELL, 1), Control("dumpstate", SHELL + 1, SHELL + 1),
                                   Control("pppd_gprs", SHELL, LOG), [kind |-> "partial"], [kind |-> "silent"]},
                     !.clients = 3, !.losses = 1]

MCScenarios == {Reading, Saving, Full, Asking}
=============================================================================
