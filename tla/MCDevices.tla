------------------------------- MODULE MCDevices -------------------------------
(***************************************************************************)
(* A small sysfs, the rules that overlap, and the instances on which        *)
(* Devices is checked.                                                      *)
(***************************************************************************)
EXTENDS Devices

MCDirs == {"class", "sound", "dsp", "misc", "log_main", "firmware", "wlan", "nofile",
           "block", "mmcblk0", "part", "devices", "usb", "usb2", "bus", "lone"}
MCParent == [d \in MCDirs |->
    CASE d \in {"class", "block", "devices", "bus"} -> Null
      [] d = "dsp" -> "sound" [] d = "log_main" -> "misc" [] d \in {"wlan", "nofile"} -> "firmware"
      [] d = "mmcblk0" -> "block" [] d = "part" -> "mmcblk0" [] d \in {"usb", "usb2"} -> "devices" [] d = "lone" -> "bus"
      [] OTHER -> "class"]
MCRoots == <<"class", "block", "devices">>

Device(subsystem, name) == [subsystem |-> subsystem, name |-> name, log |-> FALSE, numbered |-> TRUE,
                            long |-> FALSE, pages |-> Null]
MCInfo == [d \in MCDirs |->
    CASE d = "dsp" -> Device("sound", "dsp")
      [] d = "log_main" -> [Device("misc", "main") EXCEPT !.log = TRUE]
      [] d = "wlan" -> [Device("firmware", "wlan") EXCEPT !.numbered = FALSE, !.pages = 2]
      [] d = "nofile" -> [Device("firmware", "nofile") EXCEPT !.numbered = FALSE]
      [] d = "mmcblk0" -> Device("block", "mmcblk0")
      [] d = "part" -> [Device("block", "part") EXCEPT !.long = TRUE]
      [] d \in {"usb", "usb2"} -> Device("usb", "usb")
      [] d = "lone" -> Device("usb", "lone")
      [] OTHER -> Null]

Rule(paths, mode, owner) == [covers |-> paths, mode |-> mode, owner |-> owner]
MCdevperms == <<Rule({<<"/dev/snd/", "dsp">>}, "0660", "audio"),
                Rule({<<"/dev/log/", "main">>}, "0662", "log"),
                Rule({<<"/dev/snd/", "dsp">>}, "0660", "system")>>
MCDefault == Rule({}, "0600", "root")

Instance == [there |-> {"class", "block", "devices"}, hot |-> {}, number |-> 3, changes |-> 0, capacity |-> 3,
             qemu |-> <<>>, partners |-> <<>>, late |-> <<>>, faults |-> 0, shorts |-> 0]

\* Devices that come and go while init walks a tree with more events than the
\* socket holds.
Walking ==
    [Instance EXCEPT !.there = {"class", "sound", "dsp", "misc", "log_main", "block", "mmcblk0", "part", "devices"},
                     !.hot = {"usb", "part", "dsp"}, !.changes = 2, !.capacity = 3,
                     !.qemu = <<Rule({<<"/dev/", "usb">>}, "0660", "radio"), Rule({<<"/dev/", "usb">>, <<"/dev/snd/", "dsp">>}, "0666", "root")>>,
                     !.partners = <<Rule({<<"/dev/", "usb">>, <<"/dev/block/", "mmcblk0">>}, "0640", "system")>>]
\* More changes than the socket holds, and a rule that comes late.
Plugging ==
    [Instance EXCEPT !.there = {"class", "misc", "log_main", "devices"}, !.hot = {"usb", "log_main"},
                     !.changes = 4, !.capacity = 2,
                     !.late = <<Rule({<<"/dev/", "usb">>}, "0666", "system")>>]
\* Requests for firmware, before the socket, during the walk and after it.
Loading ==
    [Instance EXCEPT !.there = {"class", "firmware", "wlan", "nofile"}, !.hot = {"wlan"}, !.changes = 2,
                     !.faults = 1, !.shorts = 1]

\* Two devices that share a node, one outside the trees, and a directory that
\* comes and goes without an event.
Sharing ==
    [Instance EXCEPT !.there = {"class", "misc", "devices", "usb", "bus", "lone"}, !.hot = {"usb", "usb2", "misc", "log_main"},
                     !.changes = 2]

MCScenarios == {Walking, Plugging, Loading, Sharing}
=============================================================================
