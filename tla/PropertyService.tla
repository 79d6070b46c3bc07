----------------------------- MODULE PropertyService -----------------------------
(***************************************************************************)
(* property_service.c: the table of system properties, which init alone    *)
(* writes and which every process reads from shared memory; the requests   *)
(* to set a property; and the files that keep the persistent ones.         *)
(*                                                                         *)
(* What init has still to do is a stack of instructions, as far apart as a *)
(* reader can tell.  A value is a sequence of characters, copied one by    *)
(* one; the serial of an entry holds its length and a counter of 24 bits,  *)
(* odd during an update.  The reader is bionic's, outside this repository. *)
(***************************************************************************)
EXTENDS Naturals, Sequences, FiniteSets, TLC

CONSTANTS
    Null,
    PA_COUNT_MAX,     \* entries of the table: 247
    PROP_VALUE_MAX,   \* 92: longest value, and its terminator
    SerialMod,        \* 2^24
    PropertyNames,    \* the names that occur
    property_perms,   \* the pairs <<name, user>> that the table of that name allows
    control_perms,    \* and the entries <<service, user, group>> of its own
    Ro, Net, Persist, \* the names that begin with "ro.", "net." and "persist."
    Controls,         \* the names that begin with "ctl."
    NetChange,        \* "net.change"
    NameValue,        \* a name, as the value of net.change
    Characters,       \* of values
    Scenarios         \* the instances: see below

\* An instance: what the property files of the ramdisk, the kernel's variables
\* and the init actions set before the service starts; what the other property
\* files set; the files of /data/property; the messages clients may send and
\* how many; how often the power fails, a system call on a file fails, and a
\* reader reads.
Value == Seq(Characters)
Request ==
    [kind : {"set"}, name : PropertyNames \ Controls, value : Value, uid : Nat]
    \union [kind : {"set"}, name : Controls, service : STRING, uid : Nat, gid : Nat]
    \union [kind : {"partial", "silent"}]

\* A name is shorter than a value may be (PROP_NAME_MAX is 32), and what is in
\* /data/property init has once written there.
ASSUME PropertyAssumption ==
    /\ PA_COUNT_MAX \in Nat \ {0} /\ PROP_VALUE_MAX \in Nat \ {0}
    /\ SerialMod \in Nat /\ SerialMod % 2 = 0 /\ SerialMod > 2
    /\ Null \notin PropertyNames \union Value
    /\ Net \subseteq PropertyNames /\ Persist \subseteq PropertyNames
    /\ NetChange \in Net /\ Net \intersect Persist = {} /\ Ro \intersect (Net \union Persist) = {}
    /\ \A n \in Net \ {NetChange} : NameValue[n] \in Value /\ Len(NameValue[n]) < PROP_VALUE_MAX
    /\ \A s \in Scenarios :
        /\ {s.clients, s.reads, s.losses, s.faults} \subseteq Nat
        /\ s.early \in Seq(PropertyNames \X Value) /\ s.defaults \in Seq(PropertyNames \X Value)
        /\ s.messages \subseteq Request
        /\ DOMAIN s.files \subseteq Persist
        /\ s.files = [f \in DOMAIN s.files |-> s.files[f]]
        /\ \A f \in DOMAIN s.files : s.files[f] \in Value /\ Len(s.files[f]) < PROP_VALUE_MAX

VARIABLES
    scenario,
    work,                        \* instructions init has left
    slot, count,                 \* the prop_infos; pa->count
    loaded,                      \* persistent_properties_loaded
    files, temp,                 \* /data/property as init sees it, and .temp in it
    disk,                        \* by name, what may be left of the file without power
    backlog, sent,               \* clients that have connected; how many so far
    controls,                    \* what handle_control_message was given last
    reader, reads,               \* a process that reads a property
    faults, losses,              \* failed calls, power failures
    committed,                   \* history: by slot, the value last written whole
    had, wanted,                 \* history: values a persistent property has had,
                                 \* and the one to be saved
    cut,                         \* history: the files that a short write or the power cut
    missed,                      \* history: the properties last not saved or not loaded
    lastNet, changed             \* history: the net. property set last, as net.change
                                 \* has it; the last property_changed

tableVars == <<slot, count, committed>>
diskVars == <<files, temp, disk, faults, had, wanted, cut, missed>>
serviceVars == <<loaded, backlog, sent, controls, losses, lastNet, changed>>
readerVars == <<reader, reads>>
vars == <<scenario, work, tableVars, diskVars, serviceVars, readerVars>>

Slots == 1..PA_COUNT_MAX
Nul == "nul"
Cells == 0..(PROP_VALUE_MAX - 1)
Cell(value, i) == IF i < Len(value) THEN value[i + 1] ELSE Nul
Unused == [name |-> Null, len |-> 0, n |-> 0, value |-> [i \in Cells |-> Nul]]
NotReading == [at |-> "idle", slot |-> Null, len |-> 0, n |-> 0, copy |-> <<>>, seen |-> {}, updates |-> 0]

\* A directory after a file of this name has been put there.
WithFile(dir, name, content) ==
    [f \in DOMAIN dir \union {name} |-> IF f = name THEN content ELSE dir[f]]

\* What a file holds, and what may be left of a content that was being written.
Content(dir, name) == IF name \in DOMAIN dir THEN dir[name] ELSE Null
Beginnings(content) == {SubSeq(content, 1, n) : n \in 0..Len(content)}

I(op) == [op |-> op]
property_set(name, value) == <<[op |-> "set", name |-> name, value |-> value]>>
Sets(assignments) ==
    [i \in DOMAIN assignments |->
        [op |-> "set", name |-> assignments[i][1], value |-> assignments[i][2]]]

\* property_init, the kernel's variables, the actions run before the service,
\* start_property_service.
boot(s) == Sets(s.early) \o Sets(s.defaults) \o <<I("opendir")>>

Init ==
    /\ scenario \in Scenarios
    /\ work = boot(scenario)
    /\ slot = [i \in Slots |-> Unused] /\ count = 0 /\ committed = [i \in Slots |-> Null]
    /\ loaded = FALSE
    /\ files = scenario.files /\ temp = Null /\ had = {<<f, files[f]>> : f \in DOMAIN files}
    /\ wanted = scenario.files /\ disk = [f \in Persist |-> {Content(files, f)}]
    /\ cut = {} /\ missed = {}
    /\ backlog = <<>> /\ sent = 0 /\ controls = Null
    /\ reader = NotReading /\ reads = 0
    /\ faults = 0 /\ losses = 0 /\ lastNet = Null /\ changed = Null

At(op) == work # <<>> /\ Head(work).op = op
Goes(instructions) == work' = instructions \o Tail(work)
Now == Head(work)

-----------------------------------------------------------------------------
(* property_set *)

Found(name) == {i \in 1..count : slot[i].name = name}
SlotOf(name) == CHOOSE i \in Found(name) : \A k \in Found(name) : i <= k

\* After the table: net.change follows a net. name, a persistent property is
\* saved once those saved before are loaded, and the triggers are told.  A
\* change of net.change itself is not reported.
\* Mutant: whatever is set is saved, also while the defaults are loaded.
afterwards_Always(name, value) ==
    IF name = NetChange THEN <<>>
    ELSE (IF name \in Net THEN property_set(NetChange, NameValue[name])
          ELSE IF name \in Persist
               THEN <<[op |-> "saveTemp", name |-> name, value |-> value]>> ELSE <<>>)
         \o <<[op |-> "property_changed", name |-> name, value |-> value]>>
afterwards(name, value) ==
    IF name = NetChange THEN <<>>
    ELSE (IF name \in Net THEN property_set(NetChange, NameValue[name])
          ELSE IF loaded /\ name \in Persist
               THEN <<[op |-> "saveTemp", name |-> name, value |-> value]>> ELSE <<>>)
         \o <<[op |-> "property_changed", name |-> name, value |-> value]>>

\* Mutant: the counter is written once, after the value.
update_prop_info_NotDirty(i, value) ==
    <<[op |-> "memcpy", slot |-> i, value |-> value, i |-> 0],
      [op |-> "clean", slot |-> i, value |-> value]>>
update_prop_info(i, value) ==
    <<[op |-> "dirty", slot |-> i],
      [op |-> "memcpy", slot |-> i, value |-> value, i |-> 0],
      [op |-> "clean", slot |-> i, value |-> value]>>

add_prop_info(name, value) ==
    <<[op |-> "fill", name |-> name, value |-> value], [op |-> "publish", value |-> value]>>

\* What is too long is refused, and so is a second value of a ro. name and a
\* new name when the table is full.
Set ==
    /\ At("set")
    /\ LET name == Now.name
           value == Now.value
           refused == \/ Len(value) >= PROP_VALUE_MAX
                      \/ Found(name) # {} /\ name \in Ro
                      \/ Found(name) = {} /\ count = PA_COUNT_MAX
       IN  /\ Goes(IF refused THEN <<>>
                   ELSE (IF Found(name) # {} THEN update_prop_info(SlotOf(name), value)
                                             ELSE add_prop_info(name, value))
                        \o afterwards(name, value))
           /\ IF refused THEN UNCHANGED <<lastNet, had, wanted>>
              ELSE /\ lastNet' = IF name = NetChange THEN (IF value = lastNet THEN value ELSE Null)
                                 ELSE IF name \in Net THEN NameValue[name] ELSE lastNet
                   /\ had' = IF name \in Persist THEN had \union {<<name, value>>} ELSE had
                   /\ wanted' = IF loaded /\ name \in Persist THEN WithFile(wanted, name, value) ELSE wanted
    /\ UNCHANGED <<tableVars, files, temp, disk, faults, cut, missed, loaded, backlog, sent, controls, losses,
                   changed, readerVars>>

WriteSlot(i, s) == slot' = [slot EXCEPT ![i] = s]
UnchangedRest == UNCHANGED <<diskVars, serviceVars, readerVars>>

\* pi->serial |= 1
Dirty ==
    /\ At("dirty")
    /\ LET s == slot[Now.slot] IN WriteSlot(Now.slot, [s EXCEPT !.n = IF @ % 2 = 0 THEN @ + 1 ELSE @])
    /\ Goes(<<>>)
    /\ UNCHANGED <<count, committed>> /\ UnchangedRest

Memcpy ==
    /\ At("memcpy")
    /\ WriteSlot(Now.slot, [slot[Now.slot] EXCEPT !.value[Now.i] = Cell(Now.value, Now.i)])
    /\ IF Now.i < Len(Now.value) THEN work' = [work EXCEPT ![1].i = @ + 1] ELSE Goes(<<>>)
    /\ UNCHANGED <<count, committed>> /\ UnchangedRest

\* The length and the next even counter.  Who reads this entry sees one update
\* more.
Clean ==
    /\ At("clean")
    /\ LET s == slot[Now.slot]
       IN  WriteSlot(Now.slot, [s EXCEPT !.len = Len(Now.value), !.n = (@ + 1) % SerialMod])
    /\ committed' = [committed EXCEPT ![Now.slot] = Now.value]
    /\ reader' = IF reader.slot = Now.slot /\ reader.at # "idle"
                 THEN [reader EXCEPT !.seen = @ \union {Now.value}, !.updates = @ + 1]
                 ELSE reader
    /\ Goes(<<>>)
    /\ UNCHANGED <<count, diskVars, serviceVars, reads>>

Fill ==
    /\ At("fill")
    /\ WriteSlot(count + 1, [name |-> Now.name, len |-> Len(Now.value), n |-> 0,
                             value |-> [i \in Cells |-> Cell(Now.value, i)]])
    /\ Goes(<<>>)
    /\ UNCHANGED <<count, committed>> /\ UnchangedRest

Publish ==
    /\ At("publish")
    /\ count' = count + 1
    /\ committed' = [committed EXCEPT ![count + 1] = Now.value]
    /\ Goes(<<>>)
    /\ UNCHANGED slot /\ UnchangedRest

property_changed ==
    /\ At("property_changed")
    /\ changed' = <<Now.name, Now.value>>
    /\ Goes(<<>>)
    /\ UNCHANGED <<tableVars, diskVars, loaded, backlog, sent, controls, losses, lastNet, readerVars>>

-----------------------------------------------------------------------------
(* Persistent properties *)

Fails == faults < scenario.faults /\ faults' = faults + 1
UnchangedButDisk == UNCHANGED <<tableVars, serviceVars, readerVars, had, wanted>>
Misses(names) == missed' = missed \union names
save(name, value) == [op |-> "write", name |-> name, value |-> value]

\* open(.temp, O_TRUNC)
OpenTemp ==
    /\ At("saveTemp")
    /\ \/ Fails /\ Goes(<<>>) /\ Misses({Now.name}) /\ UNCHANGED temp
       \/ temp' = <<>> /\ Goes(<<save(Now.name, Now.value)>>) /\ UNCHANGED <<faults, missed>>
    /\ UNCHANGED <<files, disk, cut>> /\ UnchangedButDisk

\* The result of write() is not looked at.
WriteTemp ==
    /\ At("write")
    /\ \/ temp' = Now.value /\ UNCHANGED faults
       \/ Fails /\ temp' \in Beginnings(Now.value) \ {Now.value}
    /\ Goes(<<[op |-> "rename", name |-> Now.name]>>)
    /\ UNCHANGED <<files, disk, cut, missed>> /\ UnchangedButDisk

\* Nothing was synced before: until the kernel has written the data back, a loss
\* of power may leave the old content, the new one or a part of it.  When the
\* rename fails the temporary file is removed.
Rename ==
    /\ At("rename")
    /\ temp' = Null
    /\ LET name == Now.name
           short == IF temp = Content(wanted, name) THEN {} ELSE {name}
       IN  \/ Fails /\ Misses({name}) /\ UNCHANGED <<files, disk, cut>>
           \/ /\ files' = WithFile(files, name, temp)
              /\ disk' = [disk EXCEPT ![name] = @ \union Beginnings(temp)]
              /\ cut' = (cut \ {name}) \union short
              /\ missed' = (missed \ {name}) \union short
              /\ UNCHANGED faults
    /\ Goes(<<>>)
    /\ UnchangedButDisk

\* load_persistent_properties: the files in any order, but those that cannot be
\* read; the flag is set even if the directory cannot.
Opendir ==
    /\ At("opendir")
    /\ \/ Fails /\ Goes(<<I("loaded")>>) /\ Misses(Persist)
       \/ Goes(<<[op |-> "readdir", left |-> DOMAIN files]>>) /\ UNCHANGED <<faults, missed>>
    /\ UNCHANGED <<files, temp, disk, cut>> /\ UnchangedButDisk

Readdir ==
    /\ At("readdir")
    /\ IF Now.left = {} THEN Goes(<<I("loaded")>>) /\ UNCHANGED <<faults, missed>>
       ELSE \E f \in Now.left :
            LET rest == <<[op |-> "readdir", left |-> Now.left \ {f}]>>
            IN  \/ Fails /\ Goes(rest) /\ Misses({f})
                \/ Goes(property_set(f, files[f]) \o rest) /\ UNCHANGED <<faults, missed>>
    /\ UNCHANGED <<files, temp, disk, cut>> /\ UnchangedButDisk

Loaded ==
    /\ At("loaded")
    /\ loaded' = TRUE
    /\ Goes(<<I("poll")>>)
    /\ UNCHANGED <<tableVars, diskVars, backlog, sent, controls, losses, lastNet, changed, readerVars>>

-----------------------------------------------------------------------------
(* Requests *)

ROOT == 0
SYSTEM == 1000

\* The table gives no group, so only the user counts.
check_perms(name, uid) == uid = ROOT \/ <<name, uid>> \in property_perms

check_control_perms(service, uid, gid) ==
    \/ uid \in {SYSTEM, ROOT}
    \/ \E p \in control_perms : p[1] = service /\ (p[2] = uid \/ (gid # 0 /\ p[3] = gid))

\* A client connects, with its message or with nothing.
Connect ==
    /\ sent < scenario.clients
    /\ \E m \in scenario.messages :
        backlog' = Append(backlog, m)
    /\ sent' = sent + 1
    /\ UNCHANGED <<work, tableVars, diskVars, loaded, controls, losses, lastNet, changed, readerVars>>

\* A client that has sent nothing goes.
Hangup ==
    /\ backlog # <<>> /\ Head(backlog).kind = "silent"
    /\ backlog' = <<[Head(backlog) EXCEPT !.kind = "partial"]>> \o Tail(backlog)
    /\ UNCHANGED <<work, tableVars, diskVars, loaded, sent, controls, losses, lastNet, changed, readerVars>>

\* accept(), recv() and what the message asks for.  recv() blocks: init waits
\* for a client that sends nothing.  A message of another size is dropped.
\* Mutant: a message of another size stays in the queue.
handle_property_set_fd_KeepsPartial ==
    /\ At("poll") /\ backlog # <<>> /\ Head(backlog).kind = "set"
    /\ backlog' = Tail(backlog)
    /\ LET m == Head(backlog) IN
       work' = (IF check_perms(m.name, m.uid) THEN property_set(m.name, m.value) ELSE <<>>) \o work
    /\ UNCHANGED <<tableVars, diskVars, loaded, sent, controls, losses, lastNet, changed, readerVars>>
handle_property_set_fd ==
    /\ At("poll") /\ backlog # <<>> /\ Head(backlog).kind # "silent"
    /\ LET m == Head(backlog) IN
        /\ backlog' = Tail(backlog)
        /\ CASE m.kind # "set" -> UNCHANGED <<work, controls>>
             [] m.name \in Controls ->
                    /\ controls' = IF check_control_perms(m.service, m.uid, m.gid)
                                   THEN <<m.name, m.service>> ELSE controls
                    /\ UNCHANGED work
             [] OTHER ->
                    /\ work' = (IF check_perms(m.name, m.uid) THEN property_set(m.name, m.value) ELSE <<>>)
                               \o work
                    /\ UNCHANGED controls
    /\ UNCHANGED <<tableVars, diskVars, loaded, sent, losses, lastNet, changed, readerVars>>

-----------------------------------------------------------------------------
(* A reader: __system_property_find and __system_property_read. *)

Read ==
    /\ reader.at = "idle" /\ reads < scenario.reads
    /\ \E i \in 1..count :
        reader' = [NotReading EXCEPT !.at = "serial", !.slot = i, !.seen = {committed[i]}]
    /\ reads' = reads + 1
    /\ UNCHANGED <<work, tableVars, diskVars, serviceVars>>

\* While the counter is odd the reader sleeps.
ReadSerial ==
    /\ reader.at = "serial" /\ slot[reader.slot].n % 2 = 0
    /\ reader' = [reader EXCEPT !.at = "copy", !.len = slot[reader.slot].len, !.n = slot[reader.slot].n,
                                !.copy = <<>>]
    /\ UNCHANGED <<work, tableVars, diskVars, serviceVars, reads>>

CopyCell ==
    /\ reader.at = "copy"
    /\ LET i == Len(reader.copy)
       IN  reader' = IF i <= reader.len
                     THEN [reader EXCEPT !.copy = Append(@, slot[reader.slot].value[i])]
                     ELSE [reader EXCEPT !.at = IF slot[reader.slot].n = reader.n
                                                   /\ slot[reader.slot].len = reader.len
                                                THEN "returned" ELSE "serial"]
    /\ UNCHANGED <<work, tableVars, diskVars, serviceVars, reads>>

Return ==
    /\ reader.at = "returned"
    /\ reader' = NotReading
    /\ UNCHANGED <<work, tableVars, diskVars, serviceVars, reads>>

-----------------------------------------------------------------------------
(* The kernel writes the files back when it likes.  The power fails: of     *)
(* each file something is left that had reached the disk; .temp is         *)
(* truncated before it is used, so what it holds does not matter.          *)

WriteBack(f) ==
    /\ disk[f] # {Content(files, f)}
    /\ disk' = [disk EXCEPT ![f] = {Content(files, f)}]
    /\ UNCHANGED <<work, tableVars, files, temp, faults, had, wanted, cut, missed, serviceVars, readerVars>>

PowerLoss ==
    /\ losses < scenario.losses
    /\ losses' = losses + 1
    /\ work' = boot(scenario)
    /\ slot' = [i \in Slots |-> Unused] /\ count' = 0 /\ committed' = [i \in Slots |-> Null]
    /\ loaded' = FALSE /\ backlog' = <<>> /\ controls' = Null /\ lastNet' = Null /\ changed' = Null
    /\ reader' = NotReading
    /\ \E left \in [Persist -> UNION {disk[f] : f \in Persist}] :
        /\ \A f \in Persist : left[f] \in disk[f]
        /\ files' = [f \in {g \in Persist : left[g] # Null} |-> left[f]]
        /\ disk' = [f \in Persist |-> {left[f]}]
    /\ temp' = Null
    /\ cut' = cut \union {f \in Persist : disk[f] # {Content(files, f)}}
    /\ wanted' = files' /\ missed' = {}
    /\ UNCHANGED <<faults, had, sent, reads>>

Service ==
    \/ Set \/ Dirty \/ Memcpy \/ Clean \/ Fill \/ Publish \/ property_changed
    \/ OpenTemp \/ WriteTemp \/ Rename \/ Opendir \/ Readdir \/ Loaded \/ handle_property_set_fd

Next ==
    /\ UNCHANGED scenario
    /\ \/ Service
       \/ Connect \/ Hangup
       \/ Read \/ ReadSerial \/ CopyCell \/ Return
       \/ \E f \in Persist : WriteBack(f)
       \/ PowerLoss

\* init is a process of its own and never sleeps but in poll() and recv().
Spec == Init /\ [][Next]_vars /\ WF_vars(UNCHANGED scenario /\ Service)

-----------------------------------------------------------------------------
(* Properties *)

TypeOK ==
    /\ scenario \in Scenarios
    /\ count \in 0..PA_COUNT_MAX
    /\ \A i \in Slots : /\ slot[i].name \in PropertyNames \union {Null}
                        /\ slot[i].len \in Cells /\ slot[i].n \in 0..(SerialMod - 1)
    /\ loaded \in BOOLEAN
    /\ DOMAIN files \subseteq Persist /\ cut \subseteq Persist /\ missed \subseteq Persist
    /\ reader.at \in {"idle", "serial", "copy", "returned"}
    /\ faults \in 0..scenario.faults /\ losses \in 0..scenario.losses

\* What a reader returns is one value, whole, that the property had at some
\* moment of the read, however the copy of init and its own interleave; unless
\* the counter has come round during the read.
ReadWhole ==
    reader.at = "returned" /\ reader.updates < SerialMod \div 2 =>
        SubSeq(reader.copy, 1, reader.len) \in reader.seen /\ reader.copy[reader.len + 1] = Nul

\* A reader finds finished entries only, and no name twice.
EntriesFinished ==
    \A i \in 1..count :
        /\ slot[i].name # Null
        /\ \A k \in 1..count : slot[k].name = slot[i].name => k = i

\* A process that reads the table while init writes it reads what init has set.
TableWhole == TypeOK /\ ReadWhole /\ EntriesFinished

\* The saved value of a property is one the property has had, whatever is being
\* saved and however often the power fails.  The exceptions are the files whose
\* own write() was cut short, for its result is not looked at, and those that the
\* power caught between the rename and the writing back of their data, for
\* nothing syncs them: both may be left with a part of a value.
PersistWhole == \A f \in DOMAIN files \ cut : <<f, files[f]>> \in had

\* The value of a slot, when it is not being written.
ValueOf(i) == SubSeq([k \in 1..PROP_VALUE_MAX |-> slot[i].value[k - 1]], 1, slot[i].len)
\* Readers find the value in the table, or the table has had no room for it.
InTable(name, value) ==
    \/ \E i \in 1..count : slot[i].name = name /\ ValueOf(i) = value
    \/ Found(name) = {} /\ count = PA_COUNT_MAX

\* When init is back in poll(), what the last start found in its file, or what
\* was set since, is what the file of a property and the table have: a default
\* read at boot has not taken its place.  The exceptions are the properties that
\* a failing call kept from being loaded, or from being saved the last time.
SavedIsCurrent ==
    At("poll") =>
        \A f \in Persist \ missed :
            /\ Content(files, f) = Content(wanted, f)
            /\ f \in DOMAIN files => InTable(f, files[f])

\* When init is back in poll(), net.change names the net. property set last.  The
\* exception is a net.change that a client or a property file set to something
\* else since, which the comment in property_set says does not happen.
NetChangeCurrent == At("poll") /\ lastNet # Null => InTable(NetChange, lastNet)

\* A saved value is not torn, a default does not take its place and net.change
\* keeps up, with the exceptions that the three parts name.
ValuesKept == PersistWhole /\ SavedIsCurrent /\ NetChangeCurrent

\* Clients that have connected are served, in turn, whatever becomes of the
\* files and of the messages, unless one of them sends nothing.
Silent == \E i \in DOMAIN backlog : backlog[i].kind = "silent"
ClientsServed == (backlog # <<>> /\ ~Silent) ~> (backlog = <<>> \/ Silent)

=============================================================================
