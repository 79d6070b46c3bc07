------------------------- MODULE PropertyServiceProofs -------------------------
(***************************************************************************)
(* Proofs about PropertyService, for every table, every counter and every  *)
(* instance that PropertyAssumption allows: what a reader returns is whole *)
(* and was the value of the property during the read, and no value is      *)
(* lost, from its file, to a default or from net.change, but for the       *)
(* exceptions that ValuesKept names.                                       *)
(*                                                                         *)
(* The work of init is a stack whose neighbours fit each other (Stack).    *)
(* TableInv says what is in the table while the instruction on top is      *)
(* carried out, and how far a reader is behind; ValuesInv says which value *)
(* each property has, or is about to have.                                 *)
(***************************************************************************)
EXTENDS PropertyService, SequenceTheorems, TLAPS

\* The values that update_prop_info and add_prop_info are given.
Stored == {v \in Value : Len(v) < PROP_VALUE_MAX}
\* What a cell of a value may hold.
Symbols == Characters \union {Nul}

\* What is under everything else: how far start_property_service is.
Bottom == {"opendir", "readdir", "loaded", "poll"}
\* The instructions and their arguments.
Instruction ==
    [op : {"set"}, name : PropertyNames, value : Value]
    \union [op : {"dirty"}, slot : Slots]
    \union [op : {"memcpy"}, slot : Slots, value : Stored, i : Cells]
    \union [op : {"clean"}, slot : Slots, value : Stored]
    \union [op : {"fill"}, name : PropertyNames, value : Stored]
    \union [op : {"publish"}, value : Stored]
    \union [op : {"property_changed"}, name : PropertyNames, value : Value]
    \union [op : {"saveTemp", "write"}, name : Persist, value : Stored]
    \union [op : {"rename"}, name : Persist]
    \union [op : {"opendir", "loaded", "poll"}]
    \union [op : {"readdir"}, left : SUBSET Persist]

\* Instruction b may come after instruction a.
Needs(a, b) ==
    \/ a.op = "dirty" /\ b.op = "memcpy" /\ b.slot = a.slot /\ b.i = 0
    \/ a.op = "memcpy" /\ b.op = "clean" /\ b.slot = a.slot /\ b.value = a.value
    \/ a.op = "fill" /\ b.op = "publish" /\ b.value = a.value
    \/ a.op \in {"clean", "publish"} /\ b.op = "saveTemp"
    \/ /\ a.op \in {"set", "clean", "publish", "property_changed", "saveTemp", "write", "rename"}
       /\ b.op \in {"set", "property_changed"} \union Bottom

Stack(w) ==
    /\ w \in Seq(Instruction) /\ w # <<>>
    /\ w[Len(w)].op \in Bottom
    /\ \A i \in 1..(Len(w) - 1) : Needs(w[i], w[i + 1])
Last(w) == w[Len(w)]
Items(w) == {w[i] : i \in 1..Len(w)}

\* A prop_info; a reader; /data/property.
Entry == [name : PropertyNames \union {Null}, len : Cells, n : 0..(SerialMod - 1),
          value : [Cells -> Symbols]]
Reading ==
    [at : {"idle", "serial", "copy", "returned"}, slot : Slots \union {Null}, len : Cells,
     n : 0..(SerialMod - 1), copy : Seq(Symbols), seen : SUBSET Value, updates : Nat]
Disk(d) == DOMAIN d \subseteq Persist /\ d \in [DOMAIN d -> Stored]

\* The types, stronger than TypeOK: those of the stack and of the copies too.
TypeInv ==
    /\ scenario \in Scenarios
    /\ Stack(work)
    /\ slot \in [Slots -> Entry] /\ count \in 0..PA_COUNT_MAX
    /\ committed \in [Slots -> Stored \union {Null}]
    /\ loaded \in BOOLEAN
    /\ Disk(files) /\ Disk(wanted) /\ temp \in Stored \union {Null}
    /\ backlog \in Seq(Request)
    /\ reader \in Reading
    /\ disk \in [Persist -> SUBSET (Stored \union {Null})]
    /\ cut \subseteq Persist /\ missed \subseteq Persist
    /\ faults \in 0..scenario.faults /\ losses \in 0..scenario.losses
    /\ lastNet \in Stored \union {Null}

\* The instruction that is next; the first n cells of a slot hold the value's;
\* a slot holds a value; a slot is being written.
Top == work[1]
Copied(value, i, n) == \A k \in Cells : k < n => slot[i].value[k] = Cell(value, k)
Holds(i, value) == slot[i].len = Len(value) /\ Copied(value, i, Len(value) + 1)
Writing(i) == Top.op \in {"memcpy", "clean"} /\ Top.slot = i

\* What the instruction on top relies on.
HeadInv ==
    /\ Top.op \in {"dirty", "memcpy", "clean"} => Top.slot \in 1..count
    /\ Top.op = "memcpy" => Top.i <= Len(Top.value) /\ Copied(Top.value, Top.slot, Top.i)
    /\ Top.op = "clean" => Copied(Top.value, Top.slot, Len(Top.value) + 1)
    /\ Top.op = "fill" => count < PA_COUNT_MAX /\ Found(Top.name) = {}
    /\ Top.op = "publish" =>
        /\ count < PA_COUNT_MAX /\ slot[count + 1].name # Null /\ Found(slot[count + 1].name) = {}
        /\ slot[count + 1].n = 0 /\ Holds(count + 1, Top.value)
    /\ Top.op = "rename" => temp # Null

\* The entries have names, each its own, the counter is odd just while init
\* writes, and what is not being written is what was last written.
EntriesInv ==
    \A i \in 1..count :
        /\ slot[i].name # Null
        /\ \A k \in 1..count : slot[k].name = slot[i].name => k = i
        /\ committed[i] # Null
        /\ Writing(i) <=> slot[i].n % 2 = 1
        /\ ~Writing(i) => Holds(i, committed[i])

\* A reader is behind by k updates.  If by none, what it has copied is what is
\* there.
Wrapped(n) == IF n < SerialMod THEN n ELSE n - SerialMod
Behind(k) ==
    /\ slot[reader.slot].n \in {Wrapped(reader.n + 2 * k), Wrapped(reader.n + 2 * k) + 1}
    /\ k = 0 /\ slot[reader.slot].n = reader.n =>
        /\ reader.len = Len(committed[reader.slot])
        /\ \A j \in 1..Len(reader.copy) : reader.copy[j] = Cell(committed[reader.slot], j - 1)
ReaderInv ==
    /\ reader.at # "idle" => reader.slot \in 1..count /\ committed[reader.slot] \in reader.seen
    /\ reader.at \in {"copy", "returned"} => reader.n % 2 = 0 /\ Len(reader.copy) <= reader.len + 1
    /\ reader.at = "returned" => Len(reader.copy) = reader.len + 1
    /\ reader.at = "copy" /\ reader.updates < SerialMod \div 2 =>
        \E k \in 0..reader.updates : Behind(k)

\* What is being loaded is what the files have; nothing is saved before all
\* are loaded.
Saves == {"saveTemp", "write", "rename"}
WorkInv ==
    /\ loaded <=> Last(work).op = "poll"
    /\ Last(work).op = "loaded" => Len(work) = 1
    /\ \A x \in Items(work) : x.op \in Saves => loaded
    /\ Last(work).op = "readdir" =>
        /\ Last(work).left \subseteq DOMAIN files
        /\ \A x \in Items(work) : x.op = "set" /\ x.name \in Persist =>
                                  x.name \in DOMAIN files /\ x.value = files[x.name]

\* The inductive invariant of the table.
TableInv == TypeInv /\ WorkInv /\ HeadInv /\ EntriesInv /\ ReaderInv /\ ReadWhole

-----------------------------------------------------------------------------
\* What is on its way into a file is a value the property has had.
PersistInv ==
    /\ \A x \in Items(work) : x.op \in {"saveTemp", "write"} => <<x.name, x.value>> \in had
    /\ Top.op = "rename" /\ temp = Content(wanted, Top.name) => <<Top.name, temp>> \in had
    /\ PersistWhole

\* The value a property has, or will have once init has written it.
BeingWritten(name) ==
    \/ Top.op \in {"dirty", "memcpy", "clean"} /\ slot[Top.slot].name = name
    \/ Top.op = "fill" /\ Top.name = name
    \/ Top.op = "publish" /\ slot[count + 1].name = name
Has(name, value) ==
    IF BeingWritten(name) THEN (IF Top.op = "dirty" THEN work[2].value ELSE Top.value) = value
    ELSE \E i \in 1..count : slot[i].name = name /\ committed[i] = value
Present(name) == BeingWritten(name) \/ Found(name) # {}

\* The instruction after the table is written.
Then == work[IF Top.op = "dirty" THEN 4
             ELSE IF Top.op \in {"memcpy", "fill"} THEN 3
             ELSE IF Top.op \in {"clean", "publish"} THEN 2 ELSE 1]

\* There is no room for a property.
NoRoom(name) == ~Present(name) /\ count = PA_COUNT_MAX

\* net.change has its value, or will be set to it next.
NetInv ==
    lastNet # Null =>
        \/ Has(NetChange, lastNet)
        \/ Then.op = "set" /\ Then.name = NetChange /\ Then.value = lastNet
        \/ NoRoom(NetChange)

\* What is being saved is what is wanted, and the files are what is wanted but
\* for that, and for what a failing call kept from it.
Saving(f) == Then.op \in Saves /\ Then.name = f
SavedInv ==
    /\ Then.op \in {"saveTemp", "write"} => Content(wanted, Then.name) = Then.value
    /\ \A f \in Persist \ missed : Saving(f) \/ Content(files, f) = Content(wanted, f)

\* Of what is wanted, all but the files not yet read have their value, unless
\* a call failed or the table has no room for them.
Left == IF Last(work).op = "readdir" THEN Last(work).left ELSE {}
LoadedInv ==
    Last(work).op # "opendir" =>
        \A f \in DOMAIN wanted \ Left :
            \/ f \in missed /\ ~Saving(f)
            \/ NoRoom(f) \/ Has(f, wanted[f])
            \/ ~loaded /\ Top.op = "set" /\ Top.name = f

\* The inductive invariant of the values.
ValuesInv == PersistInv /\ NetInv /\ SavedInv /\ LoadedInv

-----------------------------------------------------------------------------
(* The stack. *)

LEMMA PushedWork ==
    ASSUME NEW w, Stack(w), NEW x \in Instruction, Needs(x, w[1])
    PROVE  /\ Stack(<<x>> \o w)
           /\ Last(<<x>> \o w) = Last(w)
           /\ Len(<<x>> \o w) = Len(w) + 1
           /\ (<<x>> \o w)[1] = x /\ (<<x>> \o w)[2] = w[1]
           /\ Items(<<x>> \o w) = {x} \union Items(w)
           /\ \A i \in 1..Len(w) : (<<x>> \o w)[i + 1] = w[i]
<1> DEFINE v == <<x>> \o w
<1>1. w \in Seq(Instruction) /\ Len(w) \in Nat \ {0}
  BY DEF Stack
<1>2. v \in Seq(Instruction) /\ Len(v) = Len(w) + 1
  BY <1>1
<1>3. v[1] = x /\ \A i \in 1..Len(w) : v[i + 1] = w[i]
  BY <1>1
<1>4. v # <<>>
  BY <1>1, <1>2
<1>5. v[Len(v)] = w[Len(w)]
  BY <1>1, <1>2, <1>3
<1>6. ASSUME NEW i \in 1..(Len(v) - 1)  PROVE Needs(v[i], v[i + 1])
  <2>1. CASE i = 1
    BY <2>1, <1>1, <1>3
  <2>2. CASE i > 1
    <3>1. i - 1 \in 1..(Len(w) - 1) /\ i \in 1..Len(w)
      BY <1>1, <1>2, <2>2
    <3>2. v[(i - 1) + 1] = w[i - 1] /\ v[i + 1] = w[i]
      BY <1>1, <1>3, <3>1
    <3>3. Needs(w[i - 1], w[(i - 1) + 1])
      BY <3>1 DEF Stack
    <3> QED  BY <3>1, <3>2, <3>3
  <2> QED  BY <2>1, <2>2
<1>7. Items(v) = {x} \union Items(w)
  <2>1. ASSUME NEW y \in Items(v)  PROVE y \in {x} \union Items(w)
    <3>1. PICK i \in 1..Len(v) : y = v[i]
      BY <2>1 DEF Items
    <3>2. CASE i = 1
      BY <3>1, <3>2, <1>3
    <3>3. CASE i > 1
      <4>1. i - 1 \in 1..Len(w) /\ (i - 1) + 1 = i
        BY <3>3, <1>1, <1>2
      <4>2. v[(i - 1) + 1] = w[i - 1]
        BY <4>1, <1>3
      <4> QED  BY <4>1, <4>2, <3>1 DEF Items
    <3> QED  BY <3>2, <3>3, <1>1, <1>2
  <2>2. x \in Items(v)
    BY <1>1, <1>2, <1>3 DEF Items
  <2>3. ASSUME NEW y \in Items(w)  PROVE y \in Items(v)
    <3>1. PICK i \in 1..Len(w) : y = w[i]
      BY <2>3 DEF Items
    <3>2. i + 1 \in 1..Len(v) /\ v[i + 1] = y
      BY <3>1, <1>1, <1>2, <1>3
    <3> QED  BY <3>2 DEF Items
  <2> QED  BY <2>1, <2>2, <2>3
<1>8. v[2] = w[1]
  BY <1>1, <1>3
<1> QED  BY <1>2, <1>3, <1>4, <1>5, <1>6, <1>7, <1>8 DEF Stack, Last

LEMMA PoppedWork ==
    ASSUME NEW w, Stack(w), w[1].op \notin Bottom
    PROVE  /\ Stack(Tail(w))
           /\ Last(Tail(w)) = Last(w)
           /\ Head(w) = w[1] /\ w[1] \in Instruction /\ Needs(w[1], Tail(w)[1])
           /\ Len(Tail(w)) = Len(w) - 1
           /\ Items(Tail(w)) \subseteq Items(w) /\ w[1] \in Items(w)
           /\ Tail(w)[1] = w[2]
           /\ \A i \in 1..(Len(w) - 1) : Tail(w)[i] = w[i + 1]
<1>1. w \in Seq(Instruction) /\ Len(w) \in Nat \ {0}
  BY DEF Stack
<1>2. Len(w) > 1
  BY <1>1 DEF Stack
<1>3. Tail(w) \in Seq(Instruction) /\ Len(Tail(w)) = Len(w) - 1 /\ Tail(w) # <<>>
  <2>1. w # <<>>
    BY DEF Stack
  <2>2. Tail(w) \in Seq(Instruction) /\ Len(Tail(w)) = Len(w) - 1
    BY <1>1, <2>1, HeadTailProperties
  <2>3. Len(Tail(w)) # 0
    BY <1>1, <1>2, <2>2
  <2> QED  BY <2>2, <2>3, EmptySeq
<1>4. \A i \in 1..(Len(w) - 1) : Tail(w)[i] = w[i + 1]
  BY <1>1, <1>2
<1>5. Tail(w)[Len(Tail(w))] = w[Len(w)]
  BY <1>1, <1>2, <1>3, <1>4
<1>6. ASSUME NEW i \in 1..(Len(Tail(w)) - 1)  PROVE Needs(Tail(w)[i], Tail(w)[i + 1])
  <2>1. i \in 1..(Len(w) - 1) /\ i + 1 \in 1..(Len(w) - 1)
    BY <1>1, <1>3
  <2>2. Needs(w[i + 1], w[(i + 1) + 1])
    BY <2>1 DEF Stack
  <2> QED  BY <2>1, <2>2, <1>4
<1>7. Needs(w[1], w[1 + 1])
  BY <1>1, <1>2 DEF Stack
<1>8. Head(w) = w[1] /\ w[1] \in Instruction
  BY <1>1, <1>2
<1>9. Needs(w[1], Tail(w)[1])
  BY <1>1, <1>2, <1>4, <1>7
<1>10. Items(Tail(w)) \subseteq Items(w) /\ w[1] \in Items(w)
  <2>1. ASSUME NEW i \in 1..Len(Tail(w))  PROVE Tail(w)[i] \in Items(w)
    <3>1. i + 1 \in 1..Len(w) /\ i \in 1..(Len(w) - 1)
      BY <1>1, <1>3
    <3> QED  BY <3>1, <1>4 DEF Items
  <2>2. 1 \in 1..Len(w)
    BY <1>1
  <2> QED  BY <2>1, <2>2 DEF Items
<1>11. Tail(w)[1] = w[2]
  BY <1>1, <1>2, <1>4
<1> QED  BY <1>3, <1>4, <1>5, <1>6, <1>8, <1>9, <1>10, <1>11 DEF Stack, Last

LEMMA LastWork ==
    ASSUME NEW w, Stack(w), w[1].op \in Bottom
    PROVE  /\ Len(w) = 1 /\ Head(w) = w[1] /\ w[1] \in Instruction /\ Last(w) = w[1] /\ w = <<w[1]>>
           /\ \A x : <<x>> \o Tail(w) = <<x>>
<1>1. w \in Seq(Instruction) /\ Len(w) \in Nat \ {0}
  BY DEF Stack
<1>2. Len(w) = 1
  <2>1. CASE Len(w) > 1
    <3>1. Needs(w[1], w[1 + 1])
      BY <1>1, <2>1 DEF Stack
    <3> QED  BY <3>1 DEF Needs, Bottom
  <2>2. Len(w) \in Nat /\ Len(w) # 0
    BY <1>1
  <2>3. \A n \in Nat : n # 0 /\ ~(n > 1) => n = 1
    OBVIOUS
  <2> QED  BY <2>1, <2>2, <2>3
<1>3. w = <<w[1]>> /\ Head(w) = w[1] /\ w[1] \in Instruction
  BY <1>1, <1>2
<1>4. ASSUME NEW x PROVE <<x>> \o Tail(w) = <<x>>
  <2>1. Tail(w) = <<>>
    <3>1. w # <<>>
      BY DEF Stack
    <3>2. Tail(w) \in Seq(Instruction) /\ Len(Tail(w)) = Len(w) - 1
      BY <1>1, <3>1, HeadTailProperties
    <3>3. Len(Tail(w)) = 0
      BY <1>2, <3>2
    <3> QED  BY <3>2, <3>3, EmptySeq
  <2>2. <<x>> \in Seq({x})
    OBVIOUS
  <2> QED  BY <2>1, <2>2, ConcatEmptySeq
<1> QED  BY <1>2, <1>3, <1>4 DEF Last

LEMMA NewBottom ==
    ASSUME NEW x \in Instruction, x.op \in Bottom
    PROVE  Stack(<<x>>) /\ Last(<<x>>) = x /\ Len(<<x>>) = 1 /\ <<x>>[1] = x
BY DEF Stack, Last

LEMMA InstructionForms ==
    ASSUME NEW x \in Instruction
    PROVE  /\ x.op = "set" => x \in [op : {"set"}, name : PropertyNames, value : Value]
           /\ x.op = "dirty" => x \in [op : {"dirty"}, slot : Slots]
           /\ x.op = "memcpy" => x \in [op : {"memcpy"}, slot : Slots, value : Stored, i : Cells]
           /\ x.op = "clean" => x \in [op : {"clean"}, slot : Slots, value : Stored]
           /\ x.op = "fill" => x \in [op : {"fill"}, name : PropertyNames, value : Stored]
           /\ x.op = "publish" => x \in [op : {"publish"}, value : Stored]
           /\ x.op = "property_changed" =>
                  x \in [op : {"property_changed"}, name : PropertyNames, value : Value]
           /\ x.op \in {"saveTemp", "write"} =>
                  x \in [op : {"saveTemp", "write"}, name : Persist, value : Stored]
           /\ x.op = "rename" => x \in [op : {"rename"}, name : Persist]
           /\ x.op \in {"opendir", "loaded", "poll"} => x \in [op : {"opendir", "loaded", "poll"}]
           /\ x.op = "readdir" => x \in [op : {"readdir"}, left : SUBSET Persist]
BY DEF Instruction

\* Concatenation, where no prover is to look into it.
Cat(s, t) == s \o t
LEMMA CatAssociative ==
    /\ \A s, t \in Seq(Instruction) : Cat(s, t) \in Seq(Instruction)
    /\ \A s, t, u \in Seq(Instruction) : Cat(Cat(s, t), u) = Cat(s, Cat(t, u))
<1>1. \A s, t \in Seq(Instruction) : s \o t \in Seq(Instruction)
  BY ConcatProperties
<1>2. \A s, t, u \in Seq(Instruction) : (s \o t) \o u = s \o (t \o u)
  BY ConcatAssociative
<1> QED  BY <1>1, <1>2 DEF Cat

LEMMA CatTwo ==
    \A p, q, d, t \in Seq(Instruction) : Cat(Cat(Cat(p, q), d), t) = Cat(p, Cat(q, Cat(d, t)))
<1> TAKE p, q, d, t \in Seq(Instruction)
<1>1. Cat(p, q) \in Seq(Instruction) /\ Cat(d, t) \in Seq(Instruction)
  BY CatAssociative
<1>2. Cat(Cat(Cat(p, q), d), t) = Cat(Cat(p, q), Cat(d, t))
  BY <1>1, CatAssociative
<1>3. Cat(Cat(p, q), Cat(d, t)) = Cat(p, Cat(q, Cat(d, t)))
  BY <1>1, CatAssociative
<1> QED  BY <1>2, <1>3

LEMMA CatThree ==
    \A p, q, r, d, t \in Seq(Instruction) :
        Cat(Cat(Cat(Cat(p, q), r), d), t) = Cat(p, Cat(q, Cat(r, Cat(d, t))))
<1> TAKE p, q, r, d, t \in Seq(Instruction)
<1>1. Cat(p, q) \in Seq(Instruction) /\ Cat(r, Cat(d, t)) \in Seq(Instruction)
  BY CatAssociative
<1>2. Cat(Cat(Cat(Cat(p, q), r), d), t) = Cat(Cat(p, q), Cat(r, Cat(d, t)))
  BY <1>1, CatTwo
<1>3. Cat(Cat(p, q), Cat(r, Cat(d, t))) = Cat(p, Cat(q, Cat(r, Cat(d, t))))
  BY <1>1, CatAssociative
<1> QED  BY <1>2, <1>3

\* What property_set leaves on the stack, one instruction on the other.
Afterwards(name, value, t) == afterwards(name, value) \o t
Update(i, value, t) ==
    <<[op |-> "dirty", slot |-> i]>>
    \o (<<[op |-> "memcpy", slot |-> i, value |-> value, i |-> 0]>>
    \o (<<[op |-> "clean", slot |-> i, value |-> value]>> \o t))
Add(name, value, t) ==
    <<[op |-> "fill", name |-> name, value |-> value]>> \o (<<[op |-> "publish", value |-> value]>> \o t)

LEMMA AfterwardsWork ==
    ASSUME NEW t, Stack(t), t[1].op \in {"set", "property_changed"} \union Bottom,
           NEW name \in PropertyNames, NEW value \in Stored
    PROVE  LET w == Afterwards(name, value, t) IN
           /\ afterwards(name, value) \in Seq(Instruction)
           /\ Stack(w) /\ Last(w) = Last(t)
           /\ w[1].op \in {"set", "saveTemp", "property_changed"} \union Bottom
           /\ name = NetChange => w = t
           /\ name \in Net \ {NetChange} =>
                  w[1] = [op |-> "set", name |-> NetChange, value |-> NameValue[name]]
           /\ name \notin Net /\ loaded /\ name \in Persist =>
                  w[1] = [op |-> "saveTemp", name |-> name, value |-> value]
           /\ name \notin Net /\ ~(loaded /\ name \in Persist) => w[1].op = "property_changed"
           /\ \A x \in Items(w) : \/ x \in Items(t) \/ x.op = "property_changed"
                                  \/ x.op = "set" /\ x.name = NetChange
                                  \/ /\ loaded /\ name \in Persist
                                     /\ x = [op |-> "saveTemp", name |-> name, value |-> value]
<1> DEFINE w == Afterwards(name, value, t)
           changes == [op |-> "property_changed", name |-> name, value |-> value]
           follows == [op |-> "set", name |-> NetChange, value |-> NameValue[name]]
           saves == [op |-> "saveTemp", name |-> name, value |-> value]
<1>1. t \in Seq(Instruction) /\ NetChange \in Net /\ NetChange \in PropertyNames
  BY PropertyAssumption DEF Stack
<1>2. changes \in Instruction /\ changes.op = "property_changed"
  BY DEF Instruction, Stored
<1>3. Needs(changes, t[1])
  BY <1>2 DEF Needs
<1>4. /\ Stack(<<changes>> \o t) /\ Last(<<changes>> \o t) = Last(t)
      /\ (<<changes>> \o t)[1] = changes /\ Items(<<changes>> \o t) = {changes} \union Items(t)
  BY <1>2, <1>3, PushedWork
<1>5. <<changes>> \o t \in Seq(Instruction)
  BY <1>4 DEF Stack
<1> HIDE DEF changes, follows, saves
<1>w. w = afterwards(name, value) \o t
  BY DEF Afterwards
<1> HIDE DEF w
<1>6. CASE name = NetChange
  <2>1. afterwards(name, value) = <<>>
    BY <1>6 DEF afterwards
  <2>2. w = t /\ <<>> \in Seq(Instruction)
    BY <1>w, <2>1, <1>1, ConcatEmptySeq, EmptySeq
  <2> QED  BY <2>1, <2>2, <1>1, <1>6 DEF w
<1>7. CASE name \in Net \ {NetChange}
  <2>1. afterwards(name, value) = <<follows>> \o <<changes>>
    BY <1>7 DEF afterwards, property_set, follows, changes
  <2>2. follows \in Instruction /\ follows.op = "set" /\ follows.name = NetChange
    BY <1>1, <1>7, PropertyAssumption DEF follows, Instruction
  <2>3. <<follows>> \in Seq(Instruction) /\ <<changes>> \in Seq(Instruction)
    BY <2>2, <1>2
  <2>4. w = <<follows>> \o (<<changes>> \o t)
    BY <1>w, <2>1, <2>3, <1>1, ConcatAssociative
  <2>5. Needs(follows, (<<changes>> \o t)[1])
    BY <2>2, <1>2, <1>4 DEF Needs
  <2>6. Stack(w) /\ Last(w) = Last(t) /\ w[1] = follows /\ Items(w) = {follows} \union ({changes} \union Items(t))
    <3> DEFINE u == <<changes>> \o t
    <3>1. Stack(u) /\ Last(u) = Last(t) /\ Items(u) = {changes} \union Items(t) /\ w = <<follows>> \o u
      BY <2>4, <1>4
    <3> HIDE DEF u
    <3>2. /\ Stack(<<follows>> \o u) /\ Last(<<follows>> \o u) = Last(u)
          /\ (<<follows>> \o u)[1] = follows /\ Items(<<follows>> \o u) = {follows} \union Items(u)
      <4>1. Needs(follows, u[1])
        BY <2>5 DEF u
      <4> QED  BY <2>2, <3>1, <4>1, PushedWork
    <3> QED  BY <3>1, <3>2
  <2>7. afterwards(name, value) \in Seq(Instruction)
    BY <2>1, <2>3, ConcatProperties
  <2> QED  BY <2>2, <2>6, <2>7, <1>2, <1>7 DEF follows, w
<1>8. CASE name \notin Net /\ loaded /\ name \in Persist
  <2>1. afterwards(name, value) = <<saves>> \o <<changes>>
    BY <1>1, <1>8 DEF afterwards, saves, changes
  <2>2. saves \in Instruction /\ saves.op = "saveTemp"
    BY <1>8 DEF saves, Instruction
  <2>3. <<saves>> \in Seq(Instruction) /\ <<changes>> \in Seq(Instruction)
    BY <2>2, <1>2
  <2>4. w = <<saves>> \o (<<changes>> \o t)
    BY <1>w, <2>1, <2>3, <1>1, ConcatAssociative
  <2>5. Needs(saves, (<<changes>> \o t)[1])
    BY <2>2, <1>2, <1>4 DEF Needs
  <2>6. Stack(w) /\ Last(w) = Last(t) /\ w[1] = saves /\ Items(w) = {saves} \union ({changes} \union Items(t))
    <3> DEFINE u == <<changes>> \o t
    <3>1. Stack(u) /\ Last(u) = Last(t) /\ Items(u) = {changes} \union Items(t) /\ w = <<saves>> \o u
      BY <2>4, <1>4
    <3> HIDE DEF u
    <3>2. /\ Stack(<<saves>> \o u) /\ Last(<<saves>> \o u) = Last(u)
          /\ (<<saves>> \o u)[1] = saves /\ Items(<<saves>> \o u) = {saves} \union Items(u)
      <4>1. Needs(saves, u[1])
        BY <2>5 DEF u
      <4> QED  BY <2>2, <3>1, <4>1, PushedWork
    <3> QED  BY <3>1, <3>2
  <2>7. afterwards(name, value) \in Seq(Instruction)
    BY <2>1, <2>3, ConcatProperties
  <2> QED  BY <2>2, <2>6, <2>7, <1>1, <1>2, <1>8 DEF saves, w
<1>9. CASE name \notin Net /\ ~(loaded /\ name \in Persist)
  <2>1. afterwards(name, value) = <<>> \o <<changes>>
    BY <1>1, <1>9 DEF afterwards, changes
  <2>2. <<changes>> \in Seq(Instruction)
    BY <1>2
  <2>3. afterwards(name, value) = <<changes>>
    BY <2>1, <2>2, ConcatEmptySeq
  <2>4. w = <<changes>> \o t
    BY <1>w, <2>3
  <2> QED  BY <2>2, <2>3, <2>4, <1>1, <1>2, <1>4, <1>9 DEF w
<1> QED  BY <1>6, <1>7, <1>8, <1>9 DEF w

LEMMA StackHead ==
    ASSUME NEW w, Stack(w)
    PROVE  /\ w # <<>> /\ Len(w) \in Nat \ {0} /\ w \in Seq(Instruction)
           /\ Head(w) = w[1] /\ w[1] \in Instruction /\ w[1] \in Items(w)
           /\ Items(w) \subseteq Instruction
<1>1. w # <<>> /\ Len(w) \in Nat \ {0} /\ w \in Seq(Instruction)
  BY DEF Stack
<1>2. Head(w) = w[1] /\ w[1] \in Instruction /\ w[1] \in Items(w)
  BY <1>1 DEF Items
<1>3. Items(w) \subseteq Instruction
  BY <1>1 DEF Items
<1> QED  BY <1>1, <1>2, <1>3

LEMMA Updated ==
    ASSUME NEW w, Stack(w), w[1].op \in {"set", "saveTemp", "property_changed"} \union Bottom,
           NEW i \in Slots, NEW value \in Stored
    PROVE  LET x == [op |-> "dirty", slot |-> i]
               y == [op |-> "memcpy", slot |-> i, value |-> value, i |-> 0]
               z == [op |-> "clean", slot |-> i, value |-> value]
               v == Update(i, value, w) IN
           /\ {x, y, z} \subseteq Instruction
           /\ Stack(v) /\ Last(v) = Last(w) /\ Items(v) = {x, y, z} \union Items(w)
           /\ v[1] = x /\ v[2] = y /\ v[3] = z /\ v[4] = w[1]
<1> DEFINE x == [op |-> "dirty", slot |-> i]
           y == [op |-> "memcpy", slot |-> i, value |-> value, i |-> 0]
           z == [op |-> "clean", slot |-> i, value |-> value]
           w1 == <<z>> \o w
           w2 == <<y>> \o w1
           w3 == <<x>> \o w2
<1>1. x \in Instruction /\ y \in Instruction /\ z \in Instruction
  BY PropertyAssumption DEF Instruction, Cells
<1>2. Needs(z, w[1]) /\ Needs(y, z) /\ Needs(x, y)
  BY DEF Needs
<1> HIDE DEF x, y, z
<1>3. /\ Stack(w1) /\ Last(w1) = Last(w) /\ Items(w1) = {z} \union Items(w) /\ w1[1] = z
      /\ Len(w1) = Len(w) + 1 /\ w1[1 + 1] = w[1]
  <2>1. 1 \in 1..Len(w)
    BY StackHead
  <2> QED  BY <1>1, <1>2, <2>1, PushedWork
<1> HIDE DEF w1
<1>4. /\ Stack(w2) /\ Last(w2) = Last(w1) /\ Items(w2) = {y} \union Items(w1) /\ w2[1] = y
      /\ Len(w2) = Len(w1) + 1 /\ w2[1 + 1] = w1[1] /\ w2[2 + 1] = w1[2]
  <2>1. 1 \in 1..Len(w1) /\ 2 \in 1..Len(w1)
    BY <1>3, StackHead
  <2> QED  BY <1>1, <1>2, <1>3, <2>1, PushedWork
<1> HIDE DEF w2
<1>5. /\ Stack(w3) /\ Last(w3) = Last(w2) /\ Items(w3) = {x} \union Items(w2) /\ w3[1] = x
      /\ w3[1 + 1] = w2[1] /\ w3[2 + 1] = w2[2] /\ w3[3 + 1] = w2[3]
  <2>1. 1 \in 1..Len(w2) /\ 2 \in 1..Len(w2) /\ 3 \in 1..Len(w2)
    BY <1>3, <1>4, StackHead
  <2> QED  BY <1>1, <1>2, <1>4, <2>1, PushedWork
<1>6. /\ {x, y, z} \subseteq Instruction
      /\ Stack(w3) /\ Last(w3) = Last(w) /\ Items(w3) = {x, y, z} \union Items(w)
      /\ w3[1] = x /\ w3[2] = y /\ w3[3] = z /\ w3[4] = w[1]
  <2> HIDE DEF w3
  <2>1. w3[2] = w2[1] /\ w3[3] = w2[2] /\ w3[4] = w2[3] /\ w2[2] = w1[1] /\ w2[3] = w1[2] /\ w1[2] = w[1]
    BY <1>3, <1>4, <1>5
  <2>2. Items(w3) = {x, y, z} \union Items(w)
    BY <1>3, <1>4, <1>5
  <2>3. Last(w3) = Last(w)
    BY <1>3, <1>4, <1>5
  <2> QED  BY <1>1, <1>3, <1>4, <1>5, <2>1, <2>2, <2>3
<1> QED  BY <1>6 DEF w1, w2, w3, x, y, z, Update

LEMMA Added ==
    ASSUME NEW w, Stack(w), w[1].op \in {"set", "saveTemp", "property_changed"} \union Bottom,
           NEW name \in PropertyNames, NEW value \in Stored
    PROVE  LET x == [op |-> "fill", name |-> name, value |-> value]
               y == [op |-> "publish", value |-> value]
               v == Add(name, value, w) IN
           /\ {x, y} \subseteq Instruction
           /\ Stack(v) /\ Last(v) = Last(w) /\ Items(v) = {x, y} \union Items(w)
           /\ v[1] = x /\ v[2] = y /\ v[3] = w[1]
<1> DEFINE x == [op |-> "fill", name |-> name, value |-> value]
           y == [op |-> "publish", value |-> value]
           w1 == <<y>> \o w
           w2 == <<x>> \o w1
<1>1. x \in Instruction /\ y \in Instruction
  BY DEF Instruction
<1>2. Needs(y, w[1]) /\ Needs(x, y)
  BY DEF Needs
<1> HIDE DEF x, y
<1>3. /\ Stack(w1) /\ Last(w1) = Last(w) /\ Items(w1) = {y} \union Items(w) /\ w1[1] = y
      /\ Len(w1) = Len(w) + 1 /\ w1[1 + 1] = w[1]
  <2>1. 1 \in 1..Len(w)
    BY StackHead
  <2> QED  BY <1>1, <1>2, <2>1, PushedWork
<1> HIDE DEF w1
<1>4. /\ Stack(w2) /\ Last(w2) = Last(w1) /\ Items(w2) = {x} \union Items(w1) /\ w2[1] = x
      /\ w2[1 + 1] = w1[1] /\ w2[2 + 1] = w1[2]
  <2>1. 1 \in 1..Len(w1) /\ 2 \in 1..Len(w1)
    BY <1>3, StackHead
  <2> QED  BY <1>1, <1>2, <1>3, <2>1, PushedWork
<1>5. /\ {x, y} \subseteq Instruction
      /\ Stack(w2) /\ Last(w2) = Last(w) /\ Items(w2) = {x, y} \union Items(w)
      /\ w2[1] = x /\ w2[2] = y /\ w2[3] = w[1]
  <2> HIDE DEF w2
  <2>1. w2[2] = w1[1] /\ w2[3] = w1[2] /\ w1[2] = w[1]
    BY <1>3, <1>4
  <2>2. Items(w2) = {x, y} \union Items(w)
    BY <1>3, <1>4
  <2> QED  BY <1>1, <1>3, <1>4, <2>1, <2>2
<1> QED  BY <1>5 DEF w1, w2, x, y, Add

\* property_set returns an error.
Refused(name, value) ==
    \/ Len(value) >= PROP_VALUE_MAX
    \/ Found(name) # {} /\ name \in Ro
    \/ Found(name) = {} /\ count = PA_COUNT_MAX

LEMMA SetWork ==
    ASSUME TypeInv, EntriesInv, Set
    PROVE  LET name == work[1].name
               value == work[1].value
               rest == Afterwards(name, value, Tail(work))
           IN  /\ work[1] \in [op : {"set"}, name : PropertyNames, value : Value]
               /\ Refused(name, value) => work' = Tail(work) /\ UNCHANGED <<lastNet, had, wanted>>
               /\ ~Refused(name, value) =>
                    /\ value \in Stored
                    /\ IF Found(name) # {}
                       THEN \E i \in Found(name) :
                            work' = Update(i, value, rest)
                       ELSE /\ count < PA_COUNT_MAX
                            /\ work' = Add(name, value, rest)
                    /\ lastNet' = IF name = NetChange THEN (IF value = lastNet THEN value ELSE Null)
                                  ELSE IF name \in Net THEN NameValue[name] ELSE lastNet
                    /\ had' = IF name \in Persist THEN had \union {<<name, value>>} ELSE had
                    /\ wanted' = IF loaded /\ name \in Persist THEN WithFile(wanted, name, value) ELSE wanted
<1> DEFINE name == work[1].name
           value == work[1].value
           rest == Afterwards(name, value, Tail(work))
<1>1. Stack(work)
  BY DEF TypeInv
<1>2. Head(work) = work[1] /\ work[1] \in Instruction /\ work # <<>>
  BY <1>1, StackHead
<1>3. At("set") /\ work[1].op = "set"
  BY <1>2 DEF Set, At
<1>4. work[1] \in [op : {"set"}, name : PropertyNames, value : Value]
  BY <1>2, <1>3, InstructionForms
<1>5. work[1].op \notin Bottom
  BY <1>3 DEF Bottom
<1>6. Stack(Tail(work)) /\ Needs(work[1], Tail(work)[1])
  BY <1>1, <1>5, PoppedWork
<1>7. Tail(work) \in Seq(Instruction) /\ Tail(work)[1].op \in {"set", "property_changed"} \union Bottom
  BY <1>3, <1>6 DEF Stack, Needs
<1>8. ASSUME Refused(name, value)
      PROVE  work' = Tail(work) /\ UNCHANGED <<lastNet, had, wanted>>
  <2>1. work' = <<>> \o Tail(work) /\ UNCHANGED <<lastNet, had, wanted>>
    BY <1>2, <1>8 DEF Set, Now, Refused, Goes
  <2> QED  BY <2>1, <1>7, ConcatEmptySeq
<1>9. ASSUME ~Refused(name, value)
      PROVE  /\ value \in Stored
             /\ IF Found(name) # {}
                THEN \E i \in Found(name) :
                     work' = Update(i, value, rest)
                ELSE /\ count < PA_COUNT_MAX
                     /\ work' = Add(name, value, rest)
             /\ lastNet' = IF name = NetChange THEN (IF value = lastNet THEN value ELSE Null)
                           ELSE IF name \in Net THEN NameValue[name] ELSE lastNet
             /\ had' = IF name \in Persist THEN had \union {<<name, value>>} ELSE had
             /\ wanted' = IF loaded /\ name \in Persist THEN WithFile(wanted, name, value) ELSE wanted
  <2>1. value \in Stored /\ name \in PropertyNames
    <3>1. value \in Value /\ name \in PropertyNames
      BY <1>4
    <3>2. Len(value) \in Nat /\ PROP_VALUE_MAX \in Nat
      BY <3>1, PropertyAssumption DEF Value
    <3>3. ~(Len(value) >= PROP_VALUE_MAX)
      BY <1>9 DEF Refused
    <3> QED  BY <3>1, <3>2, <3>3 DEF Stored
  <2>2. /\ lastNet' = IF name = NetChange THEN (IF value = lastNet THEN value ELSE Null)
                           ELSE IF name \in Net THEN NameValue[name] ELSE lastNet
        /\ had' = IF name \in Persist THEN had \union {<<name, value>>} ELSE had
        /\ wanted' = IF loaded /\ name \in Persist THEN WithFile(wanted, name, value) ELSE wanted
    BY <1>2, <1>9 DEF Set, Now, Refused
  <2>3. work' = ((IF Found(name) # {} THEN update_prop_info(SlotOf(name), value)
                                      ELSE add_prop_info(name, value))
                 \o afterwards(name, value)) \o Tail(work)
    BY <1>2, <1>9 DEF Set, Now, Refused, Goes
  <2>4. afterwards(name, value) \in Seq(Instruction)
    BY <1>6, <1>7, <2>1, AfterwardsWork
  <2>5. CASE Found(name) # {}
    <3>1. SlotOf(name) \in Found(name) /\ SlotOf(name) \in Slots
      <4>1. PICK i \in Found(name) : TRUE
        BY <2>5
      <4>2. \A k \in Found(name) : k = i
        BY <4>1 DEF Found, EntriesInv
      <4>3. i \in 1..count /\ count \in 0..PA_COUNT_MAX /\ PA_COUNT_MAX \in Nat
        BY <4>1, PropertyAssumption DEF Found, TypeInv
      <4>4. \A k \in Found(name) : i <= k
        BY <4>2, <4>3
      <4>5. SlotOf(name) \in Found(name)
        BY <4>1, <4>4 DEF SlotOf
      <4>6. i \in Slots
        BY <4>3 DEF Slots
      <4>7. SlotOf(name) = i
        BY <4>2, <4>5
      <4> QED  BY <4>5, <4>6, <4>7
    <3> DEFINE x == [op |-> "dirty", slot |-> SlotOf(name)]
               y == [op |-> "memcpy", slot |-> SlotOf(name), value |-> value, i |-> 0]
               z == [op |-> "clean", slot |-> SlotOf(name), value |-> value]
    <3>2. x \in Instruction /\ y \in Instruction /\ z \in Instruction
      BY <3>1, <2>1, PropertyAssumption DEF Instruction, Cells
    <3>3. work' = (<<x, y, z>> \o afterwards(name, value)) \o Tail(work)
      BY <2>3, <2>5 DEF update_prop_info
    <3> HIDE DEF x, y, z, rest
    <3>4. work' = <<x>> \o (<<y>> \o (<<z>> \o rest))
      <4> DEFINE d == afterwards(name, value)
                 t == Tail(work)
                 p == <<x>>
                 q == <<y>>
                 r == <<z>>
      <4>1. d \in Seq(Instruction) /\ t \in Seq(Instruction) /\ rest = d \o t /\ work' = (<<x, y, z>> \o d) \o t
        BY <1>7, <2>4, <3>3 DEF rest, Afterwards
      <4> HIDE DEF d, t, p, q, r
      <4>2. <<x, y, z>> = (p \o q) \o r
        <5>1. <<x>> \in Seq(Instruction) /\ <<x, y>> = Append(<<x>>, y)
          BY <3>2
        <5>2. <<x, y>> \in Seq(Instruction) /\ <<x, y, z>> = Append(<<x, y>>, z)
          BY <3>2
        <5> QED  BY <3>2, <5>1, <5>2, AppendIsConcat DEF p, q, r
      <4>3. p \in Seq(Instruction) /\ q \in Seq(Instruction) /\ r \in Seq(Instruction)
        BY <3>2 DEF p, q, r
      <4>4. (((p \o q) \o r) \o d) \o t = p \o (q \o (r \o (d \o t)))
        <5>1. Cat(Cat(Cat(Cat(p, q), r), d), t) = Cat(p, Cat(q, Cat(r, Cat(d, t))))
          BY <4>1, <4>3, CatThree
        <5> QED  BY <5>1, Zenon DEF Cat
      <4> QED  BY <4>1, <4>2, <4>4 DEF p, q, r
    <3> QED  BY <2>1, <2>2, <2>5, <3>1, <3>4 DEF x, y, z, rest, Update
  <2>6. CASE Found(name) = {}
    <3>1. count < PA_COUNT_MAX
      <4>1. count # PA_COUNT_MAX
        BY <1>9, <2>6 DEF Refused
      <4> QED  BY <4>1, PropertyAssumption DEF TypeInv
    <3> DEFINE x == [op |-> "fill", name |-> name, value |-> value]
               y == [op |-> "publish", value |-> value]
    <3>2. x \in Instruction /\ y \in Instruction
      BY <2>1 DEF Instruction
    <3>3. work' = (<<x, y>> \o afterwards(name, value)) \o Tail(work)
      BY <2>3, <2>6 DEF add_prop_info
    <3> HIDE DEF x, y, rest
    <3>4. work' = <<x>> \o (<<y>> \o rest)
      <4> DEFINE d == afterwards(name, value)
                 t == Tail(work)
                 p == <<x>>
                 q == <<y>>
      <4>1. d \in Seq(Instruction) /\ t \in Seq(Instruction) /\ rest = d \o t /\ work' = (<<x, y>> \o d) \o t
        BY <1>7, <2>4, <3>3 DEF rest, Afterwards
      <4> HIDE DEF d, t, p, q
      <4>2. <<x, y>> = p \o q
        <5>1. <<x>> \in Seq(Instruction) /\ <<x, y>> = Append(<<x>>, y)
          BY <3>2
        <5> QED  BY <3>2, <5>1, AppendIsConcat DEF p, q
      <4>3. p \in Seq(Instruction) /\ q \in Seq(Instruction)
        BY <3>2 DEF p, q
      <4>4. ((p \o q) \o d) \o t = p \o (q \o (d \o t))
        <5>1. Cat(Cat(Cat(p, q), d), t) = Cat(p, Cat(q, Cat(d, t)))
          BY <4>1, <4>3, CatTwo
        <5> QED  BY <5>1, Zenon DEF Cat
      <4> QED  BY <4>1, <4>2, <4>4 DEF p, q
    <3> QED  BY <2>1, <2>2, <2>6, <3>1, <3>4 DEF x, y, rest, Add
  <2> QED  BY <2>5, <2>6
<1> QED  BY <1>4, <1>8, <1>9

LEMMA Popped ==
    ASSUME Stack(work), work[1].op \notin Bottom, Goes(<<>>)
    PROVE  /\ Stack(work') /\ Last(work') = Last(work) /\ Items(work') \subseteq Items(work)
           /\ Needs(work[1], work'[1]) /\ Len(work') = Len(work) - 1
           /\ \A i \in 1..(Len(work) - 1) : work'[i] = work[i + 1]
<1>1. Tail(work) \in Seq(Instruction)
  BY PoppedWork DEF Stack
<1>2. work' = Tail(work)
  BY <1>1, ConcatEmptySeq DEF Goes
<1> QED  BY <1>2, PoppedWork

LEMMA Replaced ==
    ASSUME Stack(work), work[1].op \notin Bottom, NEW x \in Instruction,
           Needs(x, work[2]), Goes(<<x>>)
    PROVE  /\ Stack(work') /\ Last(work') = Last(work)
           /\ Items(work') \subseteq {x} \union Items(work)
           /\ work'[1] = x /\ work'[2] = work[2]
<1>1. Stack(Tail(work)) /\ Last(Tail(work)) = Last(work) /\ Items(Tail(work)) \subseteq Items(work)
  BY PoppedWork
<1>2. Tail(work)[1] = work[2]
  BY PoppedWork
<1>3. work' = <<x>> \o Tail(work)
  BY DEF Goes
<1> DEFINE t == Tail(work)
<1>4. Stack(t) /\ Needs(x, t[1]) /\ t[1] = work[2]
  BY <1>1, <1>2
<1>5. work' = <<x>> \o t /\ Last(t) = Last(work) /\ Items(t) \subseteq Items(work)
  BY <1>1, <1>3
<1> HIDE DEF t
<1>6. /\ Stack(<<x>> \o t) /\ Last(<<x>> \o t) = Last(t) /\ Items(<<x>> \o t) = {x} \union Items(t)
      /\ (<<x>> \o t)[1] = x /\ (<<x>> \o t)[2] = t[1]
  BY <1>4, PushedWork
<1> QED  BY <1>4, <1>5, <1>6

LEMMA ReplacedLast ==
    ASSUME Stack(work), work[1].op \in Bottom, NEW x \in Instruction, x.op \in Bottom, Goes(<<x>>)
    PROVE  /\ work' = <<x>> /\ Stack(work') /\ Last(work') = x /\ work'[1] = x /\ Len(work') = 1
           /\ Last(work) = work[1]
<1>1. work' = <<x>> /\ Last(work) = work[1]
  BY LastWork DEF Goes
<1>2. Stack(<<x>>) /\ Last(<<x>>) = x /\ Len(<<x>>) = 1 /\ <<x>>[1] = x
  BY NewBottom
<1> QED  BY <1>1, <1>2

LEMMA Advanced ==
    ASSUME Stack(work), work[1].op = "memcpy", work[1].i + 1 \in Cells,
           work' = [work EXCEPT ![1].i = @ + 1]
    PROVE  /\ Stack(work') /\ Last(work') = Last(work) /\ Items(work') \subseteq {work'[1]} \union Items(work)
           /\ work'[1] = [work[1] EXCEPT !.i = @ + 1]
           /\ work'[1] \in [op : {"memcpy"}, slot : Slots, value : Stored, i : Cells]
           /\ work'[1].slot = work[1].slot /\ work'[1].value = work[1].value
           /\ work'[1].i = work[1].i + 1
           /\ \A i \in 2..Len(work) : work'[i] = work[i]
           /\ Len(work') = Len(work) /\ Len(work) > 1
<1> DEFINE x == [work[1] EXCEPT !.i = @ + 1]
<1>1. work \in Seq(Instruction) /\ Len(work) \in Nat \ {0} /\ work[1] \in Instruction
  BY StackHead
<1>2. work[1] \in [op : {"memcpy"}, slot : Slots, value : Stored, i : Cells]
  BY <1>1, InstructionForms
<1>3. /\ x \in [op : {"memcpy"}, slot : Slots, value : Stored, i : Cells]
      /\ x.slot = work[1].slot /\ x.value = work[1].value /\ x.i = work[1].i + 1
      /\ x.op = "memcpy"
  BY <1>2
<1>4. x \in Instruction
  BY <1>3 DEF Instruction
<1> HIDE DEF x
<1>5. /\ work' \in Seq(Instruction) /\ Len(work') = Len(work) /\ work'[1] = x
      /\ \A i \in 2..Len(work) : work'[i] = work[i]
  <2>1. work' = [work EXCEPT ![1] = x]
    BY DEF x
  <2>2. 1 \in 1..Len(work)
    BY <1>1
  <2> QED  BY <1>1, <1>4, <2>1, <2>2, ExceptSeq
<1>6. Len(work) > 1
  <2>1. work[Len(work)].op # "memcpy"
    BY DEF Stack, Bottom
  <2> QED  BY <1>1, <2>1
<1>7. work' # <<>> /\ work'[Len(work')] = work[Len(work)]
  BY <1>1, <1>5, <1>6
<1>8. ASSUME NEW i \in 1..(Len(work) - 1) PROVE Needs(work'[i], work'[i + 1])
  <2>1. Needs(work[i], work[i + 1])
    BY <1>8 DEF Stack
  <2>2. work'[i + 1] = work[i + 1]
    BY <1>1, <1>5
  <2>3. CASE i = 1
    BY <2>1, <2>2, <2>3, <1>2, <1>3, <1>5 DEF Needs
  <2>4. CASE i # 1
    <3>1. work'[i] = work[i]
      BY <1>1, <1>5, <2>4
    <3> QED  BY <3>1, <2>1, <2>2
  <2> QED  BY <2>3, <2>4
<1>9. Items(work') \subseteq {work'[1]} \union Items(work)
  <2>1. ASSUME NEW i \in 1..Len(work') PROVE work'[i] \in {work'[1]} \union Items(work)
    <3>1. CASE i = 1
      BY <3>1
    <3>2. CASE i # 1
      <4>1. i \in 2..Len(work) /\ i \in 1..Len(work)
        BY <1>1, <1>5, <3>2
      <4> QED  BY <4>1, <1>5 DEF Items
    <3> QED  BY <3>1, <3>2
  <2> QED  BY <2>1 DEF Items
<1>10. Stack(work')
  BY <1>5, <1>7, <1>8 DEF Stack
<1> QED  BY <1>3, <1>5, <1>6, <1>7, <1>9, <1>10 DEF Last, x

\* What may follow when a property has been set; what leaves the table alone.
Later == {"set", "property_changed"} \union Bottom
Quiet == Later \union Saves

LEMMA TopIsHead ==
    ASSUME Stack(work)
    PROVE  Now = Top /\ Top \in Instruction /\ \A op : At(op) <=> Top.op = op
BY StackHead DEF Now, Top, At

\* The top has gone; the top has been replaced.
PoppedTo ==
    /\ Stack(work') /\ Last(work') = Last(work) /\ Items(work') \subseteq Items(work)
    /\ Needs(Top, Top') /\ Len(work') = Len(work) - 1
    /\ \A i \in 1..(Len(work) - 1) : work'[i] = work[i + 1]
ReplacedBy(x) ==
    /\ Stack(work') /\ Last(work') = Last(work) /\ Items(work') \subseteq {x} \union Items(work)
    /\ Top' = x /\ work'[2] = work[2]

LEMMA TableSteps ==
    ASSUME Stack(work)
    PROVE  /\ Dirty => /\ Top \in [op : {"dirty"}, slot : Slots] /\ PoppedTo
                       /\ Top'.op = "memcpy" /\ Top'.slot = Top.slot /\ Top'.i = 0
           /\ Clean => /\ Top \in [op : {"clean"}, slot : Slots, value : Stored] /\ PoppedTo
                       /\ Top'.op \in {"saveTemp"} \union Later
           /\ Fill => /\ Top \in [op : {"fill"}, name : PropertyNames, value : Stored] /\ PoppedTo
                      /\ Top'.op = "publish" /\ Top'.value = Top.value
           /\ Publish => /\ Top \in [op : {"publish"}, value : Stored] /\ PoppedTo
                         /\ Top'.op \in {"saveTemp"} \union Later
           /\ property_changed => Top.op = "property_changed" /\ PoppedTo /\ Top'.op \in Later
<1>1. Now = Top /\ Top \in Instruction /\ \A op : At(op) <=> Top.op = op
  BY TopIsHead
<1>2. ASSUME Dirty PROVE /\ Top \in [op : {"dirty"}, slot : Slots] /\ PoppedTo
                         /\ Top'.op = "memcpy" /\ Top'.slot = Top.slot /\ Top'.i = 0
  <2>1. Top.op = "dirty" /\ Top.op \notin Bottom /\ Goes(<<>>)
    BY <1>1, <1>2 DEF Dirty, Bottom
  <2>2. PoppedTo
    BY <2>1, Popped DEF PoppedTo, Top
  <2> QED  BY <1>1, <2>1, <2>2, InstructionForms DEF PoppedTo, Needs
<1>3. ASSUME Clean PROVE /\ Top \in [op : {"clean"}, slot : Slots, value : Stored] /\ PoppedTo
                         /\ Top'.op \in {"saveTemp"} \union Later
  <2>1. Top.op = "clean" /\ Top.op \notin Bottom /\ Goes(<<>>)
    BY <1>1, <1>3 DEF Clean, Bottom
  <2>2. PoppedTo
    BY <2>1, Popped DEF PoppedTo, Top
  <2> QED  BY <1>1, <2>1, <2>2, InstructionForms DEF PoppedTo, Needs, Later
<1>4. ASSUME Fill PROVE /\ Top \in [op : {"fill"}, name : PropertyNames, value : Stored] /\ PoppedTo
                        /\ Top'.op = "publish" /\ Top'.value = Top.value
  <2>1. Top.op = "fill" /\ Top.op \notin Bottom /\ Goes(<<>>)
    BY <1>1, <1>4 DEF Fill, Bottom
  <2>2. PoppedTo
    BY <2>1, Popped DEF PoppedTo, Top
  <2> QED  BY <1>1, <2>1, <2>2, InstructionForms DEF PoppedTo, Needs
<1>5. ASSUME Publish PROVE /\ Top \in [op : {"publish"}, value : Stored] /\ PoppedTo
                           /\ Top'.op \in {"saveTemp"} \union Later
  <2>1. Top.op = "publish" /\ Top.op \notin Bottom /\ Goes(<<>>)
    BY <1>1, <1>5 DEF Publish, Bottom
  <2>2. PoppedTo
    BY <2>1, Popped DEF PoppedTo, Top
  <2> QED  BY <1>1, <2>1, <2>2, InstructionForms DEF PoppedTo, Needs, Later
<1>6. ASSUME property_changed PROVE Top.op = "property_changed" /\ PoppedTo /\ Top'.op \in Later
  <2>1. Top.op = "property_changed" /\ Top.op \notin Bottom /\ Goes(<<>>)
    BY <1>1, <1>6 DEF property_changed, Bottom
  <2>2. PoppedTo
    BY <2>1, Popped DEF PoppedTo, Top
  <2> QED  BY <2>1, <2>2 DEF PoppedTo, Needs, Later
<1> QED  BY <1>2, <1>3, <1>4, <1>5, <1>6

LEMMA MemcpyStep ==
    ASSUME Stack(work), Memcpy
    PROVE  /\ Top \in [op : {"memcpy"}, slot : Slots, value : Stored, i : Cells]
           /\ Top.i < Len(Top.value) =>
                /\ Stack(work') /\ Last(work') = Last(work) /\ Items(work') \subseteq {Top'} \union Items(work)
                /\ Top' \in [op : {"memcpy"}, slot : Slots, value : Stored, i : Cells]
                /\ Top'.slot = Top.slot /\ Top'.value = Top.value /\ Top'.i = Top.i + 1
                /\ Len(work') = Len(work) /\ Len(work) > 1
                /\ \A i \in 2..Len(work) : work'[i] = work[i]
           /\ ~(Top.i < Len(Top.value)) =>
                PoppedTo /\ Top'.op = "clean" /\ Top'.slot = Top.slot /\ Top'.value = Top.value
<1>1. Now = Top /\ Top \in Instruction /\ \A op : At(op) <=> Top.op = op
  BY TopIsHead
<1>2. Top.op = "memcpy" /\ Top \in [op : {"memcpy"}, slot : Slots, value : Stored, i : Cells]
  BY <1>1, InstructionForms DEF Memcpy
<1>3. CASE Top.i < Len(Top.value)
  <2>1. work' = [work EXCEPT ![1].i = @ + 1]
    BY <1>1, <1>3 DEF Memcpy
  <2>2. work[1].i + 1 \in Cells
    <3>1. Top.i \in Cells /\ Top.value \in Value /\ Len(Top.value) < PROP_VALUE_MAX
      BY <1>2 DEF Stored
    <3>2. Len(Top.value) \in Nat /\ PROP_VALUE_MAX \in Nat
      BY <3>1, PropertyAssumption DEF Value
    <3> QED  BY <3>1, <3>2, <1>3 DEF Cells, Top
  <2> QED  BY <1>2, <1>3, <2>1, <2>2, Advanced DEF Top
<1>4. CASE ~(Top.i < Len(Top.value))
  <2>1. Goes(<<>>) /\ Top.op \notin Bottom
    BY <1>1, <1>2, <1>4 DEF Memcpy, Bottom
  <2>2. PoppedTo
    BY <2>1, Popped DEF PoppedTo, Top
  <2> QED  BY <1>2, <1>4, <2>2 DEF PoppedTo, Needs
<1> QED  BY <1>2, <1>3, <1>4

LEMMA SaveSteps ==
    ASSUME Stack(work)
    PROVE  /\ OpenTemp => /\ Top \in [op : {"saveTemp"}, name : Persist, value : Stored]
                          /\ \/ PoppedTo /\ Top'.op \in Later /\ Fails /\ temp' = temp
                             \/ /\ ReplacedBy([op |-> "write", name |-> Top.name, value |-> Top.value])
                                /\ temp' = <<>> /\ faults' = faults
           /\ WriteTemp => /\ Top \in [op : {"write"}, name : Persist, value : Stored]
                           /\ ReplacedBy([op |-> "rename", name |-> Top.name])
           /\ Rename => Top \in [op : {"rename"}, name : Persist] /\ PoppedTo /\ Top'.op \in Later
<1>1. Now = Top /\ Top \in Instruction /\ \A op : At(op) <=> Top.op = op
  BY TopIsHead
<1>2. Top.op \in Saves => work[2].op \in Later
  <2> SUFFICES ASSUME Top.op \in Saves PROVE work[2].op \in Later
    OBVIOUS
  <2>1. Needs(work[1], work[2])
    BY PoppedWork DEF Saves, Bottom, Top
  <2> QED  BY <2>1 DEF Needs, Top, Saves, Later
<1>3. ASSUME OpenTemp PROVE /\ Top \in [op : {"saveTemp"}, name : Persist, value : Stored]
                            /\ \/ PoppedTo /\ Top'.op \in Later /\ Fails /\ temp' = temp
                               \/ /\ ReplacedBy([op |-> "write", name |-> Top.name, value |-> Top.value])
                                  /\ temp' = <<>> /\ faults' = faults
  <2>1. Top.op = "saveTemp" /\ Top.op \notin Bottom
    BY <1>1, <1>3 DEF OpenTemp, Bottom
  <2>2. Top \in [op : {"saveTemp"}, name : Persist, value : Stored]
    BY <1>1, <2>1, InstructionForms
  <2>3. CASE Fails /\ Goes(<<>>) /\ UNCHANGED temp
    <3>1. PoppedTo
      BY <2>1, <2>3, Popped DEF PoppedTo, Top
    <3> QED  BY <2>1, <2>2, <2>3, <3>1 DEF PoppedTo, Needs, Later
  <2>4. CASE temp' = <<>> /\ Goes(<<save(Now.name, Now.value)>>) /\ UNCHANGED faults
    <3> DEFINE x == [op |-> "write", name |-> Top.name, value |-> Top.value]
    <3>1. x \in Instruction
      BY <2>2 DEF Instruction
    <3>2. Needs(x, work[2])
      BY <1>2, <2>1 DEF Needs, Saves, Later
    <3>3. Goes(<<x>>)
      BY <1>1, <2>4 DEF save
    <3> HIDE DEF x
    <3>4. ReplacedBy(x)
      BY <2>1, <3>1, <3>2, <3>3, Replaced DEF ReplacedBy, Top
    <3> QED  BY <2>2, <2>4, <3>4 DEF x
  <2> QED  BY <1>3, <2>3, <2>4 DEF OpenTemp
<1>4. ASSUME WriteTemp PROVE /\ Top \in [op : {"write"}, name : Persist, value : Stored]
                             /\ ReplacedBy([op |-> "rename", name |-> Top.name])
  <2>1. Top.op = "write" /\ Top.op \notin Bottom
    BY <1>1, <1>4 DEF WriteTemp, Bottom
  <2>2. Top \in [op : {"write"}, name : Persist, value : Stored]
    BY <1>1, <2>1, InstructionForms
  <2> DEFINE x == [op |-> "rename", name |-> Top.name]
  <2>3. x \in Instruction
    BY <2>2 DEF Instruction
  <2>4. Needs(x, work[2])
    BY <1>2, <2>1 DEF Needs, Saves, Later
  <2>5. Goes(<<x>>)
    BY <1>1, <1>4 DEF WriteTemp
  <2> HIDE DEF x
  <2>6. ReplacedBy(x)
    BY <2>1, <2>3, <2>4, <2>5, Replaced DEF ReplacedBy, Top
  <2> QED  BY <2>2, <2>6 DEF x
<1>5. ASSUME Rename PROVE Top \in [op : {"rename"}, name : Persist] /\ PoppedTo /\ Top'.op \in Later
  <2>1. Top.op = "rename" /\ Top.op \notin Bottom /\ Goes(<<>>)
    BY <1>1, <1>5 DEF Rename, Bottom
  <2>2. PoppedTo
    BY <2>1, Popped DEF PoppedTo, Top
  <2> QED  BY <1>1, <2>1, <2>2, InstructionForms DEF PoppedTo, Needs, Later
<1> QED  BY <1>3, <1>4, <1>5

LEMMA LoadSteps ==
    ASSUME Stack(work), Disk(files)
    PROVE  /\ Opendir => /\ Top.op = "opendir" /\ Last(work) = Top /\ Len(work) = 1
                         /\ \/ Fails /\ work' = <<I("loaded")>>
                            \/ work' = <<[op |-> "readdir", left |-> DOMAIN files]>> /\ faults' = faults
                         /\ Stack(work') /\ Last(work') = Top' /\ Len(work') = 1
                         /\ Top'.op \in {"readdir", "loaded"}
           /\ Loaded => /\ Top.op = "loaded" /\ Last(work) = Top /\ Len(work) = 1
                        /\ work' = <<I("poll")>>
                        /\ Stack(work') /\ Last(work') = Top' /\ Len(work') = 1 /\ Top'.op = "poll"
<1>1. Now = Top /\ Top \in Instruction /\ \A op : At(op) <=> Top.op = op
  BY TopIsHead
<1>2. /\ I("loaded") \in Instruction /\ I("loaded").op = "loaded"
      /\ I("poll") \in Instruction /\ I("poll").op = "poll"
  BY DEF I, Instruction
<1> DEFINE r == [op |-> "readdir", left |-> DOMAIN files]
<1>3. r \in Instruction /\ r.op = "readdir"
  BY DEF Instruction, Disk
<1>4. ASSUME Opendir
      PROVE  /\ Top.op = "opendir" /\ Last(work) = Top /\ Len(work) = 1
             /\ \/ Fails /\ work' = <<I("loaded")>>
                \/ work' = <<r>> /\ faults' = faults
             /\ Stack(work') /\ Last(work') = Top' /\ Len(work') = 1
             /\ Top'.op \in {"readdir", "loaded"}
  <2>1. Top.op = "opendir" /\ Top.op \in Bottom
    BY <1>1, <1>4 DEF Opendir, Bottom
  <2>2. Last(work) = Top /\ Len(work) = 1
    BY <2>1, LastWork DEF Top
  <2>3. CASE Fails /\ Goes(<<I("loaded")>>)
    BY <1>2, <2>1, <2>2, <2>3, ReplacedLast DEF Bottom, Top
  <2>4. CASE Goes(<<r>>) /\ UNCHANGED faults
    <3> HIDE DEF r
    <3> QED  BY <1>3, <2>1, <2>2, <2>4, ReplacedLast DEF Bottom, Top
  <2> QED  BY <1>4, <2>3, <2>4 DEF Opendir
<1>5. ASSUME Loaded
      PROVE  /\ Top.op = "loaded" /\ Last(work) = Top /\ Len(work) = 1
             /\ work' = <<I("poll")>>
             /\ Stack(work') /\ Last(work') = Top' /\ Len(work') = 1 /\ Top'.op = "poll"
  <2>1. Top.op = "loaded" /\ Top.op \in Bottom
    BY <1>1, <1>5 DEF Loaded, Bottom
  <2>2. Last(work) = Top /\ Len(work) = 1
    BY <2>1, LastWork DEF Top
  <2>3. Goes(<<I("poll")>>)
    BY <1>5 DEF Loaded
  <2> QED  BY <1>2, <2>1, <2>2, <2>3, ReplacedLast DEF Bottom, Top
<1> QED  BY <1>4, <1>5

LEMMA ReaddirStep ==
    ASSUME Stack(work), Disk(files), Readdir,
           Top.left \subseteq DOMAIN files
    PROVE  /\ Top \in [op : {"readdir"}, left : SUBSET Persist] /\ Last(work) = Top /\ Len(work) = 1
           /\ Stack(work') /\ Top'.op \in Later
           /\ \/ Top.left = {} /\ work' = <<I("loaded")>> /\ Last(work') = Top' /\ faults' = faults
                 /\ Top'.op = "loaded" /\ Len(work') = 1
              \/ \E f \in Top.left :
                  LET r == [op |-> "readdir", left |-> Top.left \ {f}]
                      x == [op |-> "set", name |-> f, value |-> files[f]]
                  IN  /\ Last(work') = r
                      /\ \/ Fails /\ work' = <<r>>
                         \/ Top' = x /\ Items(work') = {x, r} /\ faults' = faults
<1>1. Now = Top /\ Top \in Instruction /\ \A op : At(op) <=> Top.op = op
  BY TopIsHead
<1>2. Top.op = "readdir" /\ Top.op \in Bottom /\ Top \in [op : {"readdir"}, left : SUBSET Persist]
  BY <1>1, InstructionForms DEF Readdir, Bottom
<1>3. Last(work) = Top /\ Len(work) = 1 /\ \A x : <<x>> \o Tail(work) = <<x>>
  BY <1>2, LastWork DEF Top
<1>4. CASE Top.left = {}
  <2>1. Goes(<<I("loaded")>>) /\ faults' = faults
    BY <1>1, <1>4 DEF Readdir
  <2>2. I("loaded") \in Instruction /\ I("loaded").op = "loaded"
    BY DEF I, Instruction
  <2> QED  BY <1>2, <1>3, <1>4, <2>1, <2>2, ReplacedLast DEF Top, Bottom, Later
<1>5. CASE Top.left # {}
  <2>1. PICK f \in Top.left :
          \/ Fails /\ Goes(<<[op |-> "readdir", left |-> Top.left \ {f}]>>)
          \/ /\ Goes(property_set(f, files[f]) \o <<[op |-> "readdir", left |-> Top.left \ {f}]>>)
             /\ faults' = faults
    BY <1>1, <1>5 DEF Readdir
  <2> DEFINE r == [op |-> "readdir", left |-> Top.left \ {f}]
             x == [op |-> "set", name |-> f, value |-> files[f]]
  <2>2. r \in Instruction /\ r.op = "readdir" /\ x \in Instruction /\ x.op = "set"
    <3>1. f \in DOMAIN files /\ f \in Persist /\ files[f] \in Value
      BY DEF Disk, Stored
    <3>2. f \in PropertyNames
      BY <3>1, PropertyAssumption
    <3> QED  BY <1>2, <3>1, <3>2 DEF Instruction
  <2>3. Stack(<<r>>) /\ Last(<<r>>) = r /\ Len(<<r>>) = 1 /\ <<r>>[1] = r
    <3> HIDE DEF r
    <3> QED  BY <2>2, NewBottom DEF Bottom
  <2>4. CASE Fails /\ Goes(<<r>>)
    <3> HIDE DEF r, x
    <3>1. work' = <<r>>
      BY <1>3, <2>4 DEF Goes
    <3> QED  BY <1>2, <1>3, <2>2, <2>3, <2>4, <3>1 DEF r, x, Top, Later, Bottom
  <2>5. CASE Goes(<<x>> \o <<r>>) /\ faults' = faults
    <3>1. work' = <<x>> \o <<r>>
      <4> HIDE DEF r, x
      <4>1. Tail(work) = <<>>
        <5>1. Tail(work) \in Seq(Instruction) /\ Len(Tail(work)) = 0
          BY <1>3, StackHead, HeadTailProperties
        <5> QED  BY <5>1, EmptySeq
      <4>2. <<x>> \o <<r>> \in Seq(Instruction)
        BY <2>2
      <4> QED  BY <2>5, <4>1, <4>2, ConcatEmptySeq DEF Goes
    <3>2. Needs(x, r)
      BY DEF Needs, Bottom
    <3> HIDE DEF x, r
    <3>3. /\ Stack(<<x>> \o <<r>>) /\ Last(<<x>> \o <<r>>) = r /\ (<<x>> \o <<r>>)[1] = x
          /\ Items(<<x>> \o <<r>>) = {x} \union Items(<<r>>)
      BY <2>2, <2>3, <3>2, PushedWork
    <3>4. Items(<<r>>) = {r}
      BY <2>3 DEF Items
    <3>5. Items(work') = {x, r} /\ Top' = x
      BY <3>1, <3>3, <3>4 DEF Top
    <3> QED  BY <1>2, <1>3, <2>2, <2>5, <3>1, <3>3, <3>5 DEF r, x, Top, Later
  <2> QED  BY <2>1, <2>4, <2>5 DEF property_set
<1> QED  BY <1>4, <1>5

LEMMA RequestStep ==
    ASSUME Stack(work), backlog \in Seq(Request), handle_property_set_fd
    PROVE  /\ Top.op = "poll" /\ Last(work) = Top /\ Len(work) = 1 /\ backlog' \in Seq(Request)
           /\ \/ work' = work
              \/ \E name \in PropertyNames, value \in Value :
                  LET x == [op |-> "set", name |-> name, value |-> value]
                  IN  /\ Stack(work') /\ Last(work') = Last(work) /\ Top' = x
                      /\ Items(work') = {x} \union Items(work)
<1>1. Now = Top /\ Top \in Instruction /\ \A op : At(op) <=> Top.op = op
  BY TopIsHead
<1>2. Top.op = "poll" /\ Top.op \in Bottom
  BY <1>1 DEF handle_property_set_fd, Bottom
<1>3. Last(work) = Top /\ Len(work) = 1
  BY <1>2, LastWork DEF Top
<1> DEFINE m == Head(backlog)
<1>4. m \in Request /\ backlog' \in Seq(Request) /\ m.kind # "silent"
  BY HeadTailProperties DEF handle_property_set_fd
<1>5. CASE work' = work
  BY <1>2, <1>3, <1>4, <1>5
<1>6. CASE work' # work
  <2>1. /\ m.kind = "set" /\ m.name \notin Controls
        /\ work' = (IF check_perms(m.name, m.uid) THEN property_set(m.name, m.value) ELSE <<>>) \o work
    BY <1>6 DEF handle_property_set_fd
  <2>2. m.name \in PropertyNames /\ m.value \in Value
    BY <1>4, <2>1 DEF Request
  <2>3. check_perms(m.name, m.uid)
    <3> SUFFICES ASSUME ~check_perms(m.name, m.uid) PROVE work' = work
      BY <1>6
    <3>1. work' = <<>> \o work /\ work \in Seq(Instruction)
      BY <2>1 DEF Stack
    <3> QED  BY <3>1, ConcatEmptySeq
  <2> DEFINE x == [op |-> "set", name |-> m.name, value |-> m.value]
  <2>4. work' = <<x>> \o work
    BY <2>1, <2>3 DEF property_set
  <2>5. x \in Instruction /\ Needs(x, work[1])
    BY <1>2, <2>2 DEF Instruction, Needs, Top
  <2> HIDE DEF x
  <2>6. /\ Stack(<<x>> \o work) /\ Last(<<x>> \o work) = Last(work) /\ (<<x>> \o work)[1] = x
        /\ Items(<<x>> \o work) = {x} \union Items(work)
    BY <2>5, PushedWork
  <2>7. Stack(work') /\ Last(work') = Last(work) /\ Top' = x /\ Items(work') = {x} \union Items(work)
    BY <2>4, <2>6 DEF Top
  <2> QED  BY <1>2, <1>3, <1>4, <2>2, <2>7 DEF x
<1> QED  BY <1>5, <1>6

LEMMA BootWork ==
    ASSUME NEW s \in Scenarios
    PROVE  /\ Stack(boot(s)) /\ Last(boot(s)).op = "opendir"
           /\ \A x \in Items(boot(s)) : x.op \in {"set", "opendir"}
           /\ boot(s)[1].op \in {"set", "opendir"}
<1> DEFINE Assignment == [op : {"set"}, name : PropertyNames, value : Value]
           o == I("opendir")
           u == Sets(s.early) \o Sets(s.defaults)
<1>1. ASSUME NEW a \in Seq(PropertyNames \X Value)  PROVE Sets(a) \in Seq(Assignment)
  <2>1. Len(a) \in Nat /\ DOMAIN a = 1..Len(a) /\ \A i \in 1..Len(a) : a[i] \in PropertyNames \X Value
    BY <1>1
  <2>2. \A i \in 1..Len(a) : [op |-> "set", name |-> a[i][1], value |-> a[i][2]] \in Assignment
    BY <2>1
  <2>3. Sets(a) \in [1..Len(a) -> Assignment]
    BY <2>1, <2>2 DEF Sets
  <2>4. [1..Len(a) -> Assignment] \in {[1..n -> Assignment] : n \in Nat}
    BY <2>1
  <2> HIDE DEF Assignment
  <2>5. Seq(Assignment) = UNION {[1..n -> Assignment] : n \in Nat}
    BY SeqDef
  <2> QED  BY <2>3, <2>4, <2>5
<1>2. u \in Seq(Assignment)
  BY <1>1, PropertyAssumption, ConcatProperties
<1>3. boot(s) = u \o <<o>>
  BY DEF boot
<1>4. o \in Instruction /\ o.op = "opendir" /\ Assignment \subseteq Instruction
  BY DEF I, Instruction
<1>5. \A x \in Assignment : x.op = "set"
  OBVIOUS
<1> HIDE DEF u, Assignment, o
<1> DEFINE w == u \o <<o>>
<1>6. u \in Seq(Instruction) /\ Len(u) \in Nat
  BY <1>2, <1>4, SeqMonotonic
<1>7. /\ w \in Seq(Instruction) /\ Len(w) = Len(u) + 1 /\ w[Len(u) + 1] = o
      /\ \A i \in 1..Len(u) : w[i] = u[i]
  BY <1>4, <1>6
<1> HIDE DEF w
<1>8. \A i \in 1..Len(u) : w[i].op = "set"
  BY <1>2, <1>5, <1>7, ElementOfSeq
<1>9. Last(w) = o /\ w # <<>>
  BY <1>6, <1>7 DEF Last
<1>10. ASSUME NEW i \in 1..(Len(w) - 1)  PROVE Needs(w[i], w[i + 1])
  <2>1. i \in 1..Len(u) /\ w[i].op = "set"
    BY <1>6, <1>7, <1>8
  <2>2. w[i + 1].op \in {"set", "opendir"}
    <3>1. CASE i = Len(u)
      BY <3>1, <1>4, <1>7
    <3>2. CASE i # Len(u)
      <4>1. i + 1 \in 1..Len(u)
        BY <2>1, <3>2, <1>6
      <4> QED  BY <4>1, <1>8
    <3> QED  BY <3>1, <3>2
  <2> QED  BY <2>1, <2>2 DEF Needs, Bottom
<1>11. \A i \in 1..Len(w) : w[i].op \in {"set", "opendir"}
  <2> TAKE i \in 1..Len(w)
  <2>1. CASE i = Len(u) + 1
    BY <2>1, <1>4, <1>7
  <2>2. CASE i # Len(u) + 1
    <3>1. i \in 1..Len(u)
      BY <2>2, <1>6, <1>7
    <3> QED  BY <3>1, <1>8
  <2> QED  BY <2>1, <2>2
<1>12. w[1].op \in {"set", "opendir"}
  BY <1>6, <1>7, <1>11
<1>13. Stack(w)
  BY <1>4, <1>7, <1>9, <1>10 DEF Stack, Last, Bottom
<1>14. boot(s) = w
  BY <1>3 DEF w
<1> QED  BY <1>4, <1>9, <1>11, <1>12, <1>13, <1>14 DEF Items

LEMMA SetStep ==
    ASSUME TypeInv, EntriesInv, Set
    PROVE  /\ Top \in [op : {"set"}, name : PropertyNames, value : Value]
           /\ Refused(Top.name, Top.value) =>
                PoppedTo /\ Top'.op \in Later /\ UNCHANGED <<lastNet, had, wanted>>
           /\ ~Refused(Top.name, Top.value) =>
                /\ Top.value \in Stored /\ Stack(work') /\ Last(work') = Last(work)
                /\ IF Found(Top.name) # {}
                   THEN Top'.op = "dirty" /\ Top'.slot \in Found(Top.name) /\ work'[2].value = Top.value
                   ELSE /\ Top'.op = "fill" /\ Top'.name = Top.name /\ Top'.value = Top.value
                        /\ count < PA_COUNT_MAX
                /\ Then'.op \in {"saveTemp"} \union Later
                /\ Top.name \in Net \ {NetChange} =>
                     Then' = [op |-> "set", name |-> NetChange, value |-> NameValue[Top.name]]
                /\ loaded /\ Top.name \in Persist =>
                     Then' = [op |-> "saveTemp", name |-> Top.name, value |-> Top.value]
                /\ ~(loaded /\ Top.name \in Persist) => Then'.op # "saveTemp"
                /\ \A x \in Items(work') :
                     \/ x \in Items(work) \/ x.op \notin Saves \union {"set"} \union Bottom
                     \/ x.op = "set" /\ x.name = NetChange
                     \/ /\ loaded /\ Top.name \in Persist
                        /\ x = [op |-> "saveTemp", name |-> Top.name, value |-> Top.value]
                /\ lastNet' = IF Top.name = NetChange
                              THEN (IF Top.value = lastNet THEN Top.value ELSE Null)
                              ELSE IF Top.name \in Net THEN NameValue[Top.name] ELSE lastNet
                /\ had' = IF Top.name \in Persist THEN had \union {<<Top.name, Top.value>>} ELSE had
                /\ wanted' = IF loaded /\ Top.name \in Persist
                             THEN WithFile(wanted, Top.name, Top.value) ELSE wanted
<1> DEFINE name == work[1].name
           value == work[1].value
           t == Tail(work)
           rest == Afterwards(name, value, t)
<1>1. Stack(work) /\ Top = work[1]
  BY DEF TypeInv, Top
<1>2. Top \in [op : {"set"}, name : PropertyNames, value : Value] /\ Top.op \notin Bottom
  BY SetWork DEF Top, Bottom
<1>3. /\ Stack(t) /\ Last(t) = Last(work) /\ Items(t) \subseteq Items(work) /\ Needs(Top, t[1])
      /\ Len(t) = Len(work) - 1 /\ \A i \in 1..(Len(work) - 1) : t[i] = work[i + 1]
  BY <1>1, <1>2, PoppedWork
<1>4. t[1].op \in Later
  BY <1>2, <1>3 DEF Needs, Later
<1>5. CASE Refused(name, value)
  <2>1. work' = t /\ UNCHANGED <<lastNet, had, wanted>>
    BY <1>5, SetWork
  <2>2. PoppedTo /\ Top'.op \in Later
    BY <1>3, <1>4, <2>1 DEF PoppedTo, Top
  <2> QED  BY <1>2, <1>5, <2>1, <2>2 DEF Top
<1>6. CASE ~Refused(name, value)
  <2>1. /\ value \in Stored /\ name \in PropertyNames
        /\ lastNet' = IF name = NetChange THEN (IF value = lastNet THEN value ELSE Null)
                      ELSE IF name \in Net THEN NameValue[name] ELSE lastNet
        /\ had' = IF name \in Persist THEN had \union {<<name, value>>} ELSE had
        /\ wanted' = IF loaded /\ name \in Persist THEN WithFile(wanted, name, value) ELSE wanted
    BY <1>2, <1>6, SetWork DEF Top
  <2>2. IF Found(name) # {}
        THEN \E i \in Found(name) :
             work' = Update(i, value, rest)
        ELSE /\ count < PA_COUNT_MAX
             /\ work' = Add(name, value, rest)
    BY <1>6, SetWork
  <2> HIDE DEF name, value, t
  <2>3. /\ Stack(rest) /\ Last(rest) = Last(t)
        /\ rest[1].op \in {"set", "saveTemp", "property_changed"} \union Bottom
        /\ name = NetChange => rest = t
        /\ name \in Net \ {NetChange} =>
               rest[1] = [op |-> "set", name |-> NetChange, value |-> NameValue[name]]
        /\ name \notin Net /\ loaded /\ name \in Persist =>
               rest[1] = [op |-> "saveTemp", name |-> name, value |-> value]
        /\ name \notin Net /\ ~(loaded /\ name \in Persist) => rest[1].op = "property_changed"
        /\ \A x \in Items(rest) : \/ x \in Items(t) \/ x.op = "property_changed"
                                  \/ x.op = "set" /\ x.name = NetChange
                                  \/ /\ loaded /\ name \in Persist
                                     /\ x = [op |-> "saveTemp", name |-> name, value |-> value]
    <3>1. Stack(t) /\ t[1].op \in {"set", "property_changed"} \union Bottom
      BY <1>3, <1>4 DEF Later
    <3>2. name \in PropertyNames /\ value \in Stored
      BY <2>1
    <3> HIDE DEF rest
    <3>3. rest = Afterwards(name, value, t)
      BY DEF rest
    <3> QED  BY <3>1, <3>2, <3>3, AfterwardsWork, SMTT(30)
  <2> HIDE DEF rest
  <2>4. ~(loaded /\ name \in Persist) => rest[1].op # "saveTemp"
    <3>1. CASE name = NetChange
      BY <1>4, <2>3, <3>1 DEF Later, Bottom
    <3>2. CASE name \in Net \ {NetChange}
      BY <2>3, <3>2
    <3>3. CASE name \notin Net
      BY <2>3, <3>3
    <3> QED  BY <3>1, <3>2, <3>3
  <2>5. loaded /\ name \in Persist => rest[1] = [op |-> "saveTemp", name |-> name, value |-> value]
    BY <2>3, PropertyAssumption
  <2>6. /\ Stack(work') /\ Last(work') = Last(rest) /\ Then' = rest[1]
        /\ IF Found(name) # {}
           THEN Top'.op = "dirty" /\ Top'.slot \in Found(name) /\ work'[2].value = value
           ELSE /\ Top'.op = "fill" /\ Top'.name = name /\ Top'.value = value
                /\ count < PA_COUNT_MAX
        /\ \A x \in Items(work') :
             x \in Items(rest) \/ x.op \in {"dirty", "memcpy", "clean", "fill", "publish"}
    <3>1. CASE Found(name) # {}
      <4>1. PICK i \in Found(name) :
               work' = Update(i, value, rest)
        BY <2>2, <3>1
      <4>2. i \in Slots
        BY PropertyAssumption DEF Found, Slots, TypeInv
      <4> DEFINE x == [op |-> "dirty", slot |-> i]
                 y == [op |-> "memcpy", slot |-> i, value |-> value, i |-> 0]
                 z == [op |-> "clean", slot |-> i, value |-> value]
      <4>3. /\ Stack(work') /\ Last(work') = Last(rest) /\ Items(work') = {x, y, z} \union Items(rest)
            /\ work'[1] = x /\ work'[2] = y /\ work'[3] = z /\ work'[4] = rest[1]
        BY <2>1, <2>3, <4>1, <4>2, Updated
      <4>4. Then' = rest[1]
        BY <4>3 DEF Then, Top
      <4> QED  BY <3>1, <4>1, <4>3, <4>4 DEF Top
    <3>2. CASE Found(name) = {}
      <4> DEFINE x == [op |-> "fill", name |-> name, value |-> value]
                 y == [op |-> "publish", value |-> value]
      <4>1. work' = Add(name, value, rest) /\ count < PA_COUNT_MAX
        BY <2>2, <3>2
      <4>2. /\ Stack(work') /\ Last(work') = Last(rest) /\ Items(work') = {x, y} \union Items(rest)
            /\ work'[1] = x /\ work'[2] = y /\ work'[3] = rest[1]
        BY <2>1, <2>3, <4>1, Added
      <4>3. Then' = rest[1]
        BY <4>2 DEF Then, Top
      <4> QED  BY <3>2, <4>1, <4>2, <4>3 DEF Top
    <3> QED  BY <3>1, <3>2
  <2>7. \A x \in Items(work') :
             \/ x \in Items(work) \/ x.op \notin Saves \union {"set"} \union Bottom
             \/ x.op = "set" /\ x.name = NetChange
             \/ /\ loaded /\ name \in Persist
                /\ x = [op |-> "saveTemp", name |-> name, value |-> value]
    BY <1>3, <2>3, <2>6 DEF Saves, Bottom
  <2>8. Then'.op \in {"saveTemp"} \union Later
    BY <2>3, <2>6 DEF Later
  <2>9. name = Top.name /\ value = Top.value
    BY DEF Top, name, value
  <2> QED  BY <1>2, <1>3, <1>6, <2>1, <2>3, <2>4, <2>5, <2>6, <2>7, <2>8, <2>9
<1> QED  BY <1>5, <1>6

\* What the proofs use of PropertyAssumption.
LEMMA Constants ==
    /\ PA_COUNT_MAX \in Nat \ {0} /\ PROP_VALUE_MAX \in Nat \ {0}
    /\ SerialMod \in Nat /\ SerialMod > 2
    /\ \A v \in Stored : v \in Value /\ v \in Seq(Characters) /\ Len(v) \in Nat /\ Len(v) < PROP_VALUE_MAX
    /\ \A v \in Stored : Len(v) \in Cells
    /\ Null \notin Stored /\ Null \notin PropertyNames
    /\ <<>> \in Stored
    /\ \A v \in Stored, i \in Cells : Cell(v, i) \in Symbols
    /\ \A s \in Scenarios : s.faults \in Nat /\ s.losses \in Nat /\ s.messages \subseteq Request
                            /\ Disk(s.files)
<1>1. /\ PA_COUNT_MAX \in Nat \ {0} /\ PROP_VALUE_MAX \in Nat \ {0}
      /\ SerialMod \in Nat /\ SerialMod > 2
  BY PropertyAssumption
<1>2. \A v \in Stored : v \in Value /\ v \in Seq(Characters) /\ Len(v) \in Nat /\ Len(v) < PROP_VALUE_MAX
  BY DEF Stored, Value
<1>3. \A v \in Stored : Len(v) \in Cells
  BY <1>1, <1>2 DEF Cells
<1>4. Null \notin Stored /\ Null \notin PropertyNames
  BY <1>2, PropertyAssumption
<1>5. <<>> \in Stored
  BY <1>1, EmptySeq DEF Stored, Value
<1>6. \A v \in Stored, i \in Cells : Cell(v, i) \in Symbols
  <2> TAKE v \in Stored, i \in Cells
  <2>1. i \in Nat /\ v \in Seq(Characters) /\ Len(v) \in Nat
    BY <1>1, <1>2 DEF Cells
  <2>2. CASE i < Len(v)
    <3>1. v[i + 1] \in Characters
      <4>1. i + 1 \in 1..Len(v)
        BY <2>1, <2>2
      <4> QED  BY <2>1, <4>1, ElementOfSeq
    <3> QED  BY <2>2, <3>1 DEF Cell, Symbols
  <2>3. CASE ~(i < Len(v))
    BY <2>3 DEF Cell, Symbols
  <2> QED  BY <2>2, <2>3
<1>7. ASSUME NEW s \in Scenarios
      PROVE  s.faults \in Nat /\ s.losses \in Nat /\ s.messages \subseteq Request /\ Disk(s.files)
  <2>1. s.faults \in Nat /\ s.losses \in Nat /\ s.messages \subseteq Request
    BY PropertyAssumption
  <2>2. /\ DOMAIN s.files \subseteq Persist
        /\ s.files = [f \in DOMAIN s.files |-> s.files[f]]
        /\ \A f \in DOMAIN s.files : s.files[f] \in Value /\ Len(s.files[f]) < PROP_VALUE_MAX
    BY PropertyAssumption
  <2>3. \A f \in DOMAIN s.files : s.files[f] \in Stored
    BY <2>2 DEF Stored
  <2>4. s.files \in [DOMAIN s.files -> Stored]
    BY <2>2, <2>3
  <2> QED  BY <2>1, <2>2, <2>4 DEF Disk
<1> QED  BY <1>1, <1>2, <1>3, <1>4, <1>5, <1>6, <1>7

LEMMA DiskUpdate ==
    ASSUME NEW d, Disk(d), NEW f \in Persist, NEW v \in Stored
    PROVE  /\ Disk(WithFile(d, f, v)) /\ DOMAIN WithFile(d, f, v) = {f} \union DOMAIN d
           /\ WithFile(d, f, v)[f] = v
           /\ \A g \in DOMAIN d \ {f} : WithFile(d, f, v)[g] = d[g]
<1>1. WithFile(d, f, v) = [g \in DOMAIN d \union {f} |-> IF g = f THEN v ELSE d[g]]
  BY DEF WithFile
<1>2. DOMAIN WithFile(d, f, v) = {f} \union DOMAIN d
  BY <1>1
<1>3. /\ WithFile(d, f, v)[f] = v
      /\ \A g \in DOMAIN d \ {f} : WithFile(d, f, v)[g] = d[g]
  BY <1>1
<1>4. Disk(WithFile(d, f, v))
  BY <1>1, <1>2 DEF Disk
<1> QED  BY <1>2, <1>3, <1>4

LEMMA BeginningsStored ==
    ASSUME NEW v \in Stored
    PROVE  Beginnings(v) \subseteq Stored
<1> SUFFICES ASSUME NEW n \in 0..Len(v) PROVE SubSeq(v, 1, n) \in Stored
  BY DEF Beginnings
<1>1. v \in Seq(Characters) /\ Len(v) \in Nat /\ Len(v) < PROP_VALUE_MAX /\ PROP_VALUE_MAX \in Nat
  BY Constants
<1>2. SubSeq(v, 1, n) \in Seq(Characters) /\ Len(SubSeq(v, 1, n)) = n
  BY <1>1
<1> QED  BY <1>1, <1>2 DEF Stored, Value

LEMMA ContentType ==
    ASSUME NEW d, Disk(d), NEW f
    PROVE  /\ Content(d, f) \in Stored \union {Null}
           /\ Content(d, f) # Null <=> f \in DOMAIN d
           /\ f \in DOMAIN d => Content(d, f) = d[f] /\ d[f] \in Stored /\ f \in Persist
BY Constants DEF Disk, Content

LEMMA InitTable == Init => TypeInv /\ WorkInv /\ HeadInv /\ EntriesInv /\ ReaderInv
<1> SUFFICES ASSUME Init PROVE TypeInv /\ WorkInv /\ HeadInv /\ EntriesInv /\ ReaderInv
  OBVIOUS
<1>1. scenario \in Scenarios /\ work = boot(scenario)
  BY DEF Init
<1>2. /\ Stack(work) /\ Last(work).op = "opendir" /\ Top.op \in {"set", "opendir"}
      /\ \A x \in Items(work) : x.op \in {"set", "opendir"}
  BY <1>1, BootWork DEF Top
<1>3. Unused \in Entry
  BY Constants DEF Unused, Entry, Cells, Symbols
<1>4. NotReading \in Reading
  BY Constants, EmptySeq DEF NotReading, Reading, Cells
<1>5. TypeInv
  <2>1. slot \in [Slots -> Entry] /\ committed \in [Slots -> Stored \union {Null}] /\ reader \in Reading
    BY <1>3, <1>4 DEF Init
  <2>2. Disk(files) /\ Disk(wanted)
    BY Constants DEF Init
  <2>3. faults \in 0..scenario.faults /\ losses \in 0..scenario.losses
    BY Constants DEF Init
  <2>7. disk \in [Persist -> SUBSET (Stored \union {Null})] /\ cut \subseteq Persist /\ missed \subseteq Persist
    <3>1. \A f \in Persist : {Content(files, f)} \in SUBSET (Stored \union {Null})
      BY <2>2, ContentType
    <3>2. disk = [f \in Persist |-> {Content(files, f)}] /\ cut = {} /\ missed = {}
      BY DEF Init
    <3> QED  BY <3>1, <3>2
  <2>4. backlog \in Seq(Request)
    BY EmptySeq DEF Init
  <2>5. count \in 0..PA_COUNT_MAX /\ temp \in Stored \union {Null} /\ lastNet \in Stored \union {Null}
    BY Constants DEF Init
  <2>6. loaded \in BOOLEAN
    BY DEF Init
  <2> QED  BY <1>1, <1>2, <2>1, <2>2, <2>3, <2>4, <2>5, <2>6, <2>7 DEF TypeInv
<1>6. WorkInv
  BY <1>2 DEF Init, WorkInv, Saves
<1>7. HeadInv /\ EntriesInv /\ ReaderInv
  BY <1>2 DEF Init, HeadInv, EntriesInv, ReaderInv, NotReading
<1> QED  BY <1>5, <1>6, <1>7

-----------------------------------------------------------------------------
(* Types. *)

LEMMA TableType ==
    ASSUME TypeInv, HeadInv, scenario' = scenario, Dirty \/ Memcpy \/ Clean \/ Fill \/ Publish
    PROVE  /\ slot' \in [Slots -> Entry] /\ count' \in 0..PA_COUNT_MAX
           /\ committed' \in [Slots -> Stored \union {Null}]
           /\ reader' \in Reading
<1>1. Stack(work) /\ slot \in [Slots -> Entry] /\ count \in 0..PA_COUNT_MAX
      /\ committed \in [Slots -> Stored \union {Null}] /\ reader \in Reading
  BY DEF TypeInv
<1>2. Now = Top
  BY <1>1, TopIsHead
<1>3. CASE Dirty
  <2>1. Top.slot \in Slots
    BY <1>1, <1>3, TableSteps
  <2>2. slot[Top.slot] \in Entry
    BY <1>1, <2>1
  <2> DEFINE e == [slot[Top.slot] EXCEPT !.n = IF @ % 2 = 0 THEN @ + 1 ELSE @]
  <2>3. slot[Top.slot].n \in 0..(SerialMod - 1)
    BY <2>2 DEF Entry
  <2>4. slot[Top.slot].n % 2 = 0 => slot[Top.slot].n + 1 \in 0..(SerialMod - 1)
    BY <2>3, PropertyAssumption
  <2>5. e \in Entry
    BY <2>2, <2>3, <2>4 DEF Entry
  <2>6. slot' = [slot EXCEPT ![Top.slot] = e] /\ UNCHANGED <<count, committed, reader>>
    BY <1>2, <1>3 DEF Dirty, WriteSlot, UnchangedRest, readerVars
  <2> HIDE DEF e
  <2> QED  BY <1>1, <2>1, <2>5, <2>6
<1>4. CASE Memcpy
  <2>1. Top \in [op : {"memcpy"}, slot : Slots, value : Stored, i : Cells]
    BY <1>1, <1>4, MemcpyStep
  <2>2. slot[Top.slot] \in Entry /\ Cell(Top.value, Top.i) \in Symbols
    BY <1>1, <2>1, Constants
  <2> DEFINE e == [slot[Top.slot] EXCEPT !.value[Top.i] = Cell(Top.value, Top.i)]
  <2>3. e \in Entry
    BY <2>1, <2>2 DEF Entry
  <2>4. slot' = [slot EXCEPT ![Top.slot] = e] /\ UNCHANGED <<count, committed, reader>>
    BY <1>2, <1>4 DEF Memcpy, WriteSlot, UnchangedRest, readerVars
  <2> HIDE DEF e
  <2> QED  BY <1>1, <2>1, <2>3, <2>4
<1>5. CASE Clean
  <2>1. Top \in [op : {"clean"}, slot : Slots, value : Stored]
    BY <1>1, <1>5, TableSteps
  <2>2. slot[Top.slot] \in Entry /\ Len(Top.value) \in Cells /\ Top.value \in Value
    BY <1>1, <2>1, Constants
  <2> DEFINE e == [slot[Top.slot] EXCEPT !.len = Len(Top.value), !.n = (@ + 1) % SerialMod]
  <2>3. slot[Top.slot].n \in Nat
    BY <2>2, Constants DEF Entry
  <2>4. (slot[Top.slot].n + 1) % SerialMod \in 0..(SerialMod - 1)
    BY <2>3, Constants
  <2>5. e \in Entry
    BY <2>2, <2>4 DEF Entry
  <2>6. /\ slot' = [slot EXCEPT ![Top.slot] = e] /\ count' = count
        /\ committed' = [committed EXCEPT ![Top.slot] = Top.value]
        /\ reader' = IF reader.slot = Top.slot /\ reader.at # "idle"
                     THEN [reader EXCEPT !.seen = @ \union {Top.value}, !.updates = @ + 1]
                     ELSE reader
    BY <1>2, <1>5 DEF Clean, WriteSlot
  <2> HIDE DEF e
  <2>7. reader' \in Reading
    <3>1. reader.seen \union {Top.value} \in SUBSET Value /\ reader.updates + 1 \in Nat
      BY <1>1, <2>2 DEF Reading
    <3>2. [reader EXCEPT !.seen = @ \union {Top.value}, !.updates = @ + 1] \in Reading
      BY <1>1, <3>1 DEF Reading
    <3> QED  BY <1>1, <2>6, <3>2
  <2> QED  BY <1>1, <2>1, <2>5, <2>6, <2>7
<1>6. CASE Fill
  <2>1. Top \in [op : {"fill"}, name : PropertyNames, value : Stored] /\ Top.op = "fill"
    BY <1>1, <1>6, TableSteps
  <2>2. count + 1 \in Slots
    BY <1>1, <2>1, Constants DEF HeadInv, Slots
  <2> DEFINE e == [name |-> Top.name, len |-> Len(Top.value), n |-> 0,
                   value |-> [i \in Cells |-> Cell(Top.value, i)]]
  <2>3. e \in Entry
    BY <2>1, Constants DEF Entry
  <2>4. slot' = [slot EXCEPT ![count + 1] = e] /\ UNCHANGED <<count, committed, reader>>
    BY <1>2, <1>6 DEF Fill, WriteSlot, UnchangedRest, readerVars
  <2> HIDE DEF e
  <2> QED  BY <1>1, <2>2, <2>3, <2>4
<1>7. CASE Publish
  <2>1. Top \in [op : {"publish"}, value : Stored] /\ Top.op = "publish"
    BY <1>1, <1>7, TableSteps
  <2>2. count + 1 \in Slots /\ count + 1 \in 0..PA_COUNT_MAX
    BY <1>1, <2>1, Constants DEF HeadInv, Slots
  <2>3. /\ count' = count + 1 /\ committed' = [committed EXCEPT ![count + 1] = Top.value]
        /\ slot' = slot /\ reader' = reader
    BY <1>2, <1>7 DEF Publish, UnchangedRest, readerVars
  <2> QED  BY <1>1, <2>1, <2>2, <2>3
<1> QED  BY <1>3, <1>4, <1>5, <1>6, <1>7

LEMMA TableWork ==
    ASSUME TypeInv, Dirty \/ Memcpy \/ Clean \/ Fill \/ Publish
    PROVE  /\ Stack(work') /\ Last(work') = Last(work)
           /\ UNCHANGED <<files, wanted, temp, backlog, faults, disk, cut, missed, losses, lastNet, loaded, had>>
           /\ \A x \in Items(work') : x \in Items(work) \/ x.op = "memcpy"
<1>1. Stack(work)
  BY DEF TypeInv
<1>2. UNCHANGED <<files, wanted, temp, backlog, faults, disk, cut, missed, losses, lastNet, loaded, had>>
  BY DEF Dirty, Memcpy, Clean, Fill, Publish, UnchangedRest, diskVars, serviceVars
<1>3. /\ Stack(work') /\ Last(work') = Last(work)
      /\ \A x \in Items(work') : x \in Items(work) \/ x.op = "memcpy"
  <2>1. CASE Memcpy
    BY <1>1, <2>1, MemcpyStep DEF PoppedTo
  <2>2. CASE Dirty \/ Clean \/ Fill \/ Publish
    BY <1>1, <2>2, TableSteps DEF PoppedTo
  <2> QED  BY <2>1, <2>2
<1> QED  BY <1>2, <1>3

\* What the three steps of a save leave of the files.
LEMMA SaveFiles ==
    ASSUME TypeInv
    PROVE  /\ OpenTemp => /\ UNCHANGED <<files, disk, cut>>
                          /\ \/ Fails /\ missed' = missed \union {Top.name}
                             \/ temp' = <<>> /\ missed' = missed
           /\ WriteTemp => /\ UNCHANGED <<files, disk, cut, missed>>
                           /\ \/ temp' = Top.value /\ faults' = faults
                              \/ Fails /\ temp' \in Beginnings(Top.value) \ {Top.value}
           /\ Rename =>
                /\ temp' = Null
                /\ \/ Fails /\ missed' = missed \union {Top.name} /\ UNCHANGED <<files, disk, cut>>
                   \/ /\ files' = WithFile(files, Top.name, temp) /\ faults' = faults
                      /\ disk' = [disk EXCEPT ![Top.name] = @ \union Beginnings(temp)]
                      /\ IF temp = Content(wanted, Top.name)
                         THEN cut' = cut \ {Top.name} /\ missed' = missed \ {Top.name}
                         ELSE cut' = cut \union {Top.name} /\ missed' = missed \union {Top.name}
<1>1. Stack(work)
  BY DEF TypeInv
<1>2. Now = Top
  BY <1>1, TopIsHead
<1>3. ASSUME NEW X, NEW n PROVE (X \ {n}) \union {} = X \ {n} /\ (X \ {n}) \union {n} = X \union {n}
  OBVIOUS
<1>4. ASSUME OpenTemp PROVE /\ UNCHANGED <<files, disk, cut>>
                            /\ \/ Fails /\ missed' = missed \union {Top.name}
                               \/ temp' = <<>> /\ missed' = missed
  BY <1>2, <1>4 DEF OpenTemp, Misses
<1>5. ASSUME WriteTemp PROVE /\ UNCHANGED <<files, disk, cut, missed>>
                             /\ \/ temp' = Top.value /\ faults' = faults
                                \/ Fails /\ temp' \in Beginnings(Top.value) \ {Top.value}
  BY <1>2, <1>5 DEF WriteTemp
<1>6. ASSUME Rename
      PROVE  /\ temp' = Null
             /\ \/ Fails /\ missed' = missed \union {Top.name} /\ UNCHANGED <<files, disk, cut>>
                \/ /\ files' = WithFile(files, Top.name, temp) /\ faults' = faults
                   /\ disk' = [disk EXCEPT ![Top.name] = @ \union Beginnings(temp)]
                   /\ IF temp = Content(wanted, Top.name)
                      THEN cut' = cut \ {Top.name} /\ missed' = missed \ {Top.name}
                      ELSE cut' = cut \union {Top.name} /\ missed' = missed \union {Top.name}
  BY <1>2, <1>3, <1>6, Zenon DEF Rename, Misses
<1> QED  BY <1>4, <1>5, <1>6

LEMMA SaveType ==
    ASSUME TypeInv, HeadInv, scenario' = scenario, OpenTemp \/ WriteTemp \/ Rename
    PROVE  /\ Stack(work') /\ Last(work') = Last(work)
           /\ Disk(files') /\ temp' \in Stored \union {Null}
           /\ disk' \in [Persist -> SUBSET (Stored \union {Null})]
           /\ cut' \subseteq Persist /\ missed' \subseteq Persist
           /\ faults' \in 0..scenario.faults
           /\ Top'.op = "rename" => temp' # Null
           /\ Top.op \in Saves /\ (DOMAIN files \subseteq DOMAIN files')
           /\ Top \in Items(work)
           /\ \A x \in Items(work') : x \in Items(work) \/ x.op \in Saves
<1>1. /\ Stack(work) /\ Disk(files) /\ temp \in Stored \union {Null}
      /\ disk \in [Persist -> SUBSET (Stored \union {Null})] /\ cut \subseteq Persist /\ missed \subseteq Persist
  BY DEF TypeInv
<1>2. Top \in Items(work)
  BY <1>1, StackHead DEF Top
<1>3. faults \in 0..scenario.faults /\ scenario.faults \in Nat
  BY Constants DEF TypeInv
<1>4. Fails => faults' \in 0..scenario.faults /\ faults' = faults + 1
  BY <1>3 DEF Fails
<1>5. CASE OpenTemp
  <2>1. /\ Top \in [op : {"saveTemp"}, name : Persist, value : Stored]
        /\ \/ PoppedTo /\ Top'.op \in Later /\ Fails /\ temp' = temp
           \/ /\ ReplacedBy([op |-> "write", name |-> Top.name, value |-> Top.value])
              /\ temp' = <<>> /\ faults' = faults
    BY <1>1, <1>5, SaveSteps
  <2>2. UNCHANGED <<files, disk, cut>> /\ missed' \subseteq Persist
    BY <1>1, <1>5, <2>1, SaveFiles
  <2>3. CASE PoppedTo /\ Top'.op \in Later /\ Fails /\ temp' = temp
    BY <1>1, <1>2, <1>3, <1>4, <2>1, <2>2, <2>3 DEF PoppedTo, Later, Bottom, Saves
  <2>4. CASE /\ ReplacedBy([op |-> "write", name |-> Top.name, value |-> Top.value])
             /\ temp' = <<>> /\ faults' = faults
    <3>1. <<>> \in Stored /\ Null \notin Stored
      BY Constants
    <3> QED  BY <1>1, <1>2, <1>3, <2>1, <2>2, <2>4, <3>1 DEF ReplacedBy, Saves
  <2> QED  BY <2>1, <2>3, <2>4
<1>6. CASE WriteTemp
  <2>1. /\ Top \in [op : {"write"}, name : Persist, value : Stored]
        /\ ReplacedBy([op |-> "rename", name |-> Top.name])
    BY <1>1, <1>6, SaveSteps
  <2>2. UNCHANGED <<files, disk, cut, missed>>
    BY <1>6, SaveFiles
  <2>3. \/ temp' = Top.value /\ faults' = faults
        \/ Fails /\ temp' \in Beginnings(Top.value)
    BY <1>6, SaveFiles
  <2>4. temp' \in Stored
    BY <2>1, <2>3, BeginningsStored
  <2>5. faults' \in 0..scenario.faults
    BY <1>3, <1>4, <2>3
  <2>6. Null \notin Stored
    BY Constants
  <2> QED  BY <1>1, <1>2, <2>1, <2>2, <2>4, <2>5, <2>6 DEF ReplacedBy, Saves
<1>7. CASE Rename
  <2>1. Top \in [op : {"rename"}, name : Persist] /\ PoppedTo /\ Top'.op \in Later
    BY <1>1, <1>7, SaveSteps
  <2>2. /\ temp' = Null
        /\ \/ Fails /\ UNCHANGED <<files, disk>>
           \/ /\ files' = WithFile(files, Top.name, temp) /\ faults' = faults
              /\ disk' = [disk EXCEPT ![Top.name] = @ \union Beginnings(temp)]
    BY <1>7, SaveFiles
  <2>3. temp \in Stored
    BY <1>1, <2>1 DEF HeadInv
  <2>4. Disk(files') /\ DOMAIN files \subseteq DOMAIN files'
    <3>1. Disk(WithFile(files, Top.name, temp))
          /\ DOMAIN WithFile(files, Top.name, temp) = {Top.name} \union DOMAIN files
      BY <1>1, <2>1, <2>3, DiskUpdate
    <3> QED  BY <1>1, <2>2, <3>1
  <2>5. faults' \in 0..scenario.faults
    BY <1>3, <1>4, <2>2
  <2>6. disk' \in [Persist -> SUBSET (Stored \union {Null})]
    <3>1. Beginnings(temp) \subseteq Stored /\ Top.name \in Persist
      BY <2>1, <2>3, BeginningsStored
    <3>2. disk[Top.name] \union Beginnings(temp) \in SUBSET (Stored \union {Null})
      BY <1>1, <3>1
    <3> DEFINE both == disk[Top.name] \union Beginnings(temp)
    <3>3. disk' = disk \/ disk' = [disk EXCEPT ![Top.name] = both]
      BY <2>2
    <3> HIDE DEF both
    <3>4. both \in SUBSET (Stored \union {Null})
      BY <3>2 DEF both
    <3> QED  BY <1>1, <3>1, <3>3, <3>4
  <2>7. cut' \subseteq Persist /\ missed' \subseteq Persist
    <3>1. Top.name \in Persist
      BY <2>1
    <3>2. /\ cut' = cut \/ cut' = cut \ {Top.name} \/ cut' = cut \union {Top.name}
          /\ missed' = missed \ {Top.name} \/ missed' = missed \union {Top.name}
      BY <1>7, SaveFiles
    <3> QED  BY <1>1, <3>1, <3>2
  <2> QED  BY <1>2, <2>1, <2>2, <2>4, <2>5, <2>6, <2>7 DEF PoppedTo, Later, Bottom, Saves
<1> QED  BY <1>5, <1>6, <1>7

LEMMA SetType ==
    ASSUME TypeInv, EntriesInv, Set
    PROVE  /\ Stack(work') /\ Last(work') = Last(work) /\ Disk(wanted')
           /\ lastNet' \in Stored \union {Null}
<1>1. Stack(work) /\ Disk(wanted) /\ lastNet \in Stored \union {Null}
  BY DEF TypeInv
<1>2. Top \in [op : {"set"}, name : PropertyNames, value : Value]
  BY SetStep
<1>3. CASE Refused(Top.name, Top.value)
  BY <1>1, <1>3, SetStep DEF PoppedTo
<1>4. CASE ~Refused(Top.name, Top.value)
  <2>1. /\ Top.value \in Stored /\ Stack(work') /\ Last(work') = Last(work)
        /\ lastNet' = IF Top.name = NetChange THEN (IF Top.value = lastNet THEN Top.value ELSE Null)
                      ELSE IF Top.name \in Net THEN NameValue[Top.name] ELSE lastNet
        /\ wanted' = IF loaded /\ Top.name \in Persist
                     THEN WithFile(wanted, Top.name, Top.value) ELSE wanted
    BY <1>4, SetStep
  <2>2. Disk(wanted')
    BY <1>1, <2>1, DiskUpdate
  <2>3. Top.name \in Net \ {NetChange} => NameValue[Top.name] \in Stored
    BY PropertyAssumption DEF Stored
  <2>4. lastNet' \in Stored \union {Null}
    BY <1>1, <2>1, <2>3
  <2> QED  BY <1>1, <2>1, <2>2, <2>4
<1> QED  BY <1>3, <1>4

ReaderSteps == Read \/ ReadSerial \/ CopyCell \/ Return

LEMMA ReaderType ==
    ASSUME TypeInv, EntriesInv, ReaderInv, ReaderSteps
    PROVE  reader' \in Reading
<1>1. reader \in Reading /\ slot \in [Slots -> Entry] /\ count \in 0..PA_COUNT_MAX
      /\ committed \in [Slots -> Stored \union {Null}] /\ PA_COUNT_MAX \in Nat
  BY Constants DEF TypeInv
<1>2. NotReading \in Reading
  BY Constants, EmptySeq DEF NotReading, Reading, Cells
<1>3. reader.at # "idle" => reader.slot \in 1..count /\ reader.slot \in Slots /\ slot[reader.slot] \in Entry
  BY <1>1 DEF ReaderInv, Slots
<1>4. CASE Return
  BY <1>2, <1>4 DEF Return
<1>5. CASE ReadSerial
  <2>1. reader.at # "idle"
    BY <1>5 DEF ReadSerial
  <2>2. <<>> \in Seq(Symbols)
    BY EmptySeq
  <2> QED  BY <1>1, <1>3, <1>5, <2>1, <2>2 DEF ReadSerial, Reading, Entry
<1>6. CASE CopyCell
  <2>1. reader.at = "copy" /\ reader.at # "idle" /\ reader.copy \in Seq(Symbols) /\ reader.len \in Cells
    BY <1>1, <1>6 DEF CopyCell, Reading
  <2>2. CASE Len(reader.copy) <= reader.len
    <3>1. Len(reader.copy) \in Cells
      BY <2>1, <2>2, Constants DEF Cells
    <3>2. Append(reader.copy, slot[reader.slot].value[Len(reader.copy)]) \in Seq(Symbols)
      BY <1>3, <2>1, <3>1 DEF Entry
    <3> QED  BY <1>1, <1>6, <2>2, <3>2 DEF CopyCell, Reading
  <2>3. CASE ~(Len(reader.copy) <= reader.len)
    BY <1>1, <1>6, <2>3 DEF CopyCell, Reading
  <2> QED  BY <2>2, <2>3
<1>7. CASE Read
  <2>1. PICK i \in 1..count :
          reader' = [NotReading EXCEPT !.at = "serial", !.slot = i, !.seen = {committed[i]}]
    BY <1>7 DEF Read
  <2>2. i \in Slots
    BY <1>1 DEF Slots
  <2>3. committed[i] \in Value
    BY <1>1, <2>2, Constants DEF EntriesInv
  <2> QED  BY <1>2, <2>1, <2>2, <2>3 DEF Reading
<1> QED  BY <1>4, <1>5, <1>6, <1>7 DEF ReaderSteps

\* The steps, by what they do to the table and the files.
TableWrites == Dirty \/ Memcpy \/ Clean \/ Fill \/ Publish
FileSteps == OpenTemp \/ WriteTemp \/ Rename
LoadingSteps == Opendir \/ Readdir \/ Loaded
OtherSteps == Connect \/ Hangup \/ \E f \in Persist : WriteBack(f)

LEMMA NextIs ==
    [Next]_vars <=> \/ UNCHANGED scenario /\ Set
                    \/ UNCHANGED scenario /\ TableWrites
                    \/ UNCHANGED scenario /\ property_changed
                    \/ UNCHANGED scenario /\ FileSteps
                    \/ UNCHANGED scenario /\ LoadingSteps
                    \/ UNCHANGED scenario /\ handle_property_set_fd
                    \/ UNCHANGED scenario /\ OtherSteps
                    \/ UNCHANGED scenario /\ ReaderSteps
                    \/ UNCHANGED scenario /\ PowerLoss
                    \/ UNCHANGED vars
BY DEF Next, Service, TableWrites, FileSteps, LoadingSteps, OtherSteps, ReaderSteps

LEMMA LoadingType ==
    ASSUME TypeInv, WorkInv, scenario' = scenario, LoadingSteps
    PROVE  /\ Stack(work') /\ Top'.op \in Later /\ Top.op \in Bottom /\ faults' \in 0..scenario.faults
           /\ missed \subseteq missed' /\ missed' \subseteq Persist
           /\ UNCHANGED <<slot, count, committed, files, wanted, temp, disk, cut, backlog, losses, lastNet,
                          reader, had>>
<1>1. Stack(work) /\ Disk(files)
  BY DEF TypeInv
<1>2. faults \in 0..scenario.faults /\ scenario.faults \in Nat /\ missed \subseteq Persist
  BY Constants DEF TypeInv
<1>3. Fails => faults' \in 0..scenario.faults
  BY <1>2 DEF Fails
<1>4. UNCHANGED <<slot, count, committed, files, wanted, temp, disk, cut, backlog, losses, lastNet, reader, had>>
  BY DEF LoadingSteps, Opendir, Readdir, Loaded, UnchangedButDisk, tableVars, diskVars, serviceVars, readerVars
<1>5. CASE Opendir
  <2>1. (Fails \/ faults' = faults) /\ (missed' = missed \/ missed' = missed \union Persist)
    BY <1>5 DEF Opendir, Misses
  <2>2. Top.op = "opendir" /\ Stack(work') /\ Top'.op \in {"readdir", "loaded"}
    BY <1>1, <1>5, LoadSteps
  <2> QED  BY <1>2, <1>3, <1>4, <2>1, <2>2 DEF Later, Bottom
<1>6. CASE Readdir
  <2>1. At("readdir")
    BY <1>6 DEF Readdir
  <2>2. Top.op = "readdir" /\ Top.op \in Bottom
    BY <1>1, <2>1, TopIsHead DEF Bottom
  <2>3. Top.left \subseteq DOMAIN files
    BY <1>1, <2>2, LastWork DEF WorkInv, Top
  <2>4. Stack(work') /\ Top'.op \in Later
    BY <1>1, <1>6, <2>3, ReaddirStep
  <2>5. Fails \/ faults' = faults
    BY <1>6 DEF Readdir
  <2>6. missed' = missed \/ \E f \in Top.left : missed' = missed \union {f}
    BY <1>1, <1>6, TopIsHead DEF Readdir, Misses
  <2>7. missed \subseteq missed' /\ missed' \subseteq Persist
    BY <1>1, <1>2, <2>3, <2>6 DEF Disk
  <2> QED  BY <1>2, <1>3, <1>4, <2>2, <2>4, <2>5, <2>7
<1>7. CASE Loaded
  <2>1. faults' = faults /\ missed' = missed
    BY <1>7 DEF Loaded, diskVars
  <2>2. Top.op = "loaded" /\ Stack(work') /\ Top'.op = "poll"
    BY <1>1, <1>7, LoadSteps
  <2> QED  BY <1>2, <1>4, <2>1, <2>2 DEF Later, Bottom
<1> QED  BY <1>5, <1>6, <1>7 DEF LoadingSteps

LEMMA PowerLossFacts ==
    ASSUME TypeInv, scenario' = scenario, PowerLoss
    PROVE  /\ Stack(work') /\ Last(work').op = "opendir" /\ Top'.op \in {"set", "opendir"}
           /\ \A x \in Items(work') : x.op \in {"set", "opendir"}
           /\ losses' \in 0..scenario.losses /\ count' = 0 /\ reader' = NotReading /\ lastNet' = Null
           /\ slot' = [i \in Slots |-> Unused] /\ committed' = [i \in Slots |-> Null]
           /\ loaded' = FALSE /\ backlog' = <<>>
           /\ temp' = Null /\ wanted' = files' /\ missed' = {} /\ UNCHANGED <<faults, had>>
           /\ cut' = cut \union {f \in Persist : disk[f] # {Content(files, f)}}
           /\ \E left \in [Persist -> Stored \union {Null}] :
                /\ \A f \in Persist : left[f] \in disk[f]
                /\ files' = [f \in {g \in Persist : left[g] # Null} |-> left[f]]
                /\ disk' = [f \in Persist |-> {left[f]}]
<1>1. work' = boot(scenario) /\ scenario \in Scenarios
  BY DEF PowerLoss, TypeInv
<1>2. /\ Stack(work') /\ Last(work').op = "opendir" /\ Top'.op \in {"set", "opendir"}
      /\ \A x \in Items(work') : x.op \in {"set", "opendir"}
  BY <1>1, BootWork DEF Top
<1>3. losses' \in 0..scenario.losses
  <2>1. losses \in 0..scenario.losses /\ scenario.losses \in Nat
    BY Constants DEF TypeInv
  <2> QED  BY <2>1 DEF PowerLoss
<1>4. \E left \in [Persist -> Stored \union {Null}] :
        /\ \A f \in Persist : left[f] \in disk[f]
        /\ files' = [f \in {g \in Persist : left[g] # Null} |-> left[f]]
        /\ disk' = [f \in Persist |-> {left[f]}]
  <2>1. PICK left \in [Persist -> UNION {disk[f] : f \in Persist}] :
          /\ \A f \in Persist : left[f] \in disk[f]
          /\ files' = [f \in {g \in Persist : left[g] # Null} |-> left[f]]
          /\ disk' = [f \in Persist |-> {left[f]}]
    BY DEF PowerLoss
  <2>2. \A f \in Persist : disk[f] \subseteq Stored \union {Null}
    BY DEF TypeInv
  <2>3. left \in [Persist -> Stored \union {Null}]
    BY <2>1, <2>2
  <2> QED  BY <2>1, <2>3
<1>5. /\ temp' = Null /\ wanted' = files' /\ missed' = {} /\ UNCHANGED <<faults, had>>
      /\ cut' = cut \union {f \in Persist : disk[f] # {Content(files, f)}}
  BY DEF PowerLoss
<1> QED  BY <1>2, <1>3, <1>4, <1>5 DEF PowerLoss

LEMMA NextType == TypeInv /\ WorkInv /\ HeadInv /\ EntriesInv /\ ReaderInv /\ [Next]_vars => TypeInv'
<1> SUFFICES ASSUME TypeInv, WorkInv, HeadInv, EntriesInv, ReaderInv, [Next]_vars PROVE TypeInv'
  OBVIOUS
<1>1. /\ scenario \in Scenarios /\ Stack(work) /\ slot \in [Slots -> Entry] /\ count \in 0..PA_COUNT_MAX
      /\ committed \in [Slots -> Stored \union {Null}] /\ loaded \in BOOLEAN
      /\ Disk(files) /\ Disk(wanted) /\ temp \in Stored \union {Null}
      /\ backlog \in Seq(Request) /\ reader \in Reading
      /\ disk \in [Persist -> SUBSET (Stored \union {Null})]
      /\ cut \subseteq Persist /\ missed \subseteq Persist
      /\ faults \in 0..scenario.faults /\ losses \in 0..scenario.losses
      /\ lastNet \in Stored \union {Null}
  BY DEF TypeInv
<1>2. CASE UNCHANGED scenario /\ Set
  <2>1. Stack(work') /\ Disk(wanted') /\ lastNet' \in Stored \union {Null}
    BY <1>2, SetType
  <2>2. UNCHANGED <<scenario, slot, count, committed, loaded, files, temp, backlog, reader, faults, disk, cut,
                    missed, losses>>
    BY <1>2 DEF Set, tableVars, readerVars
  <2> QED  BY <1>1, <2>1, <2>2 DEF TypeInv
<1>3. CASE UNCHANGED scenario /\ TableWrites
  <2>1. /\ slot' \in [Slots -> Entry] /\ count' \in 0..PA_COUNT_MAX
        /\ committed' \in [Slots -> Stored \union {Null}] /\ reader' \in Reading
    BY <1>3, TableType DEF TableWrites
  <2>2. /\ Stack(work')
        /\ UNCHANGED <<scenario, files, wanted, temp, backlog, faults, disk, cut, missed, losses, lastNet, loaded>>
    BY <1>3, TableWork DEF TableWrites
  <2> QED  BY <1>1, <2>1, <2>2 DEF TypeInv
<1>4. CASE UNCHANGED scenario /\ property_changed
  <2>1. Stack(work')
    BY <1>1, <1>4, TableSteps DEF PoppedTo
  <2>2. UNCHANGED <<scenario, slot, count, committed, loaded, files, wanted, temp, backlog, reader, faults, disk, cut, missed,
                    losses, lastNet>>
    BY <1>4 DEF property_changed, tableVars, diskVars, readerVars
  <2> QED  BY <1>1, <2>1, <2>2 DEF TypeInv
<1>5. CASE UNCHANGED scenario /\ FileSteps
  <2>1. /\ Stack(work') /\ Disk(files') /\ temp' \in Stored \union {Null}
        /\ disk' \in [Persist -> SUBSET (Stored \union {Null})] /\ cut' \subseteq Persist
        /\ missed' \subseteq Persist /\ faults' \in 0..scenario.faults
    BY <1>5, SaveType DEF FileSteps
  <2>2. UNCHANGED <<scenario, slot, count, committed, loaded, wanted, backlog, reader, losses, lastNet>>
    BY <1>5 DEF FileSteps, OpenTemp, WriteTemp, Rename, UnchangedButDisk, tableVars, serviceVars, readerVars
  <2> QED  BY <1>1, <2>1, <2>2 DEF TypeInv
<1>6. CASE UNCHANGED scenario /\ LoadingSteps
  <2>1. /\ Stack(work') /\ faults' \in 0..scenario.faults /\ missed' \subseteq Persist
        /\ UNCHANGED <<slot, count, committed, files, wanted, temp, disk, cut, backlog, losses, lastNet, reader>>
    BY <1>6, LoadingType
  <2>3. loaded' \in BOOLEAN
    BY <1>1, <1>6 DEF LoadingSteps, Opendir, Readdir, Loaded, UnchangedButDisk, serviceVars
  <2> QED  BY <1>1, <1>6, <2>1, <2>3 DEF TypeInv
<1>7. CASE UNCHANGED scenario /\ handle_property_set_fd
  <2>1. Stack(work') /\ backlog' \in Seq(Request)
    BY <1>1, <1>7, RequestStep
  <2>2. UNCHANGED <<scenario, slot, count, committed, loaded, files, wanted, temp, reader, faults, disk, cut, missed,
                    losses, lastNet>>
    BY <1>7 DEF handle_property_set_fd, tableVars, diskVars, readerVars
  <2> QED  BY <1>1, <2>1, <2>2 DEF TypeInv
<1>8. CASE UNCHANGED scenario /\ OtherSteps
  <2>1. backlog' \in Seq(Request)
    <3>1. CASE Connect
      <4>1. scenario.messages \subseteq Request
        BY <1>1, Constants
      <4> QED  BY <1>1, <3>1, <4>1 DEF Connect
    <3>2. CASE Hangup
      <4>1. Head(backlog) \in Request /\ Tail(backlog) \in Seq(Request) /\ Head(backlog).kind = "silent"
        BY <1>1, <3>2, HeadTailProperties DEF Hangup
      <4>2. [Head(backlog) EXCEPT !.kind = "partial"] \in Request
        BY <4>1 DEF Request
      <4>3. backlog' = <<[Head(backlog) EXCEPT !.kind = "partial"]>> \o Tail(backlog)
        BY <3>2 DEF Hangup
      <4> DEFINE m == [Head(backlog) EXCEPT !.kind = "partial"]
      <4> HIDE DEF m
      <4>4. <<m>> \in Seq(Request)
        BY <4>2 DEF m
      <4> QED  BY <4>1, <4>3, <4>4, ConcatProperties DEF m
    <3>3. CASE \E f \in Persist : WriteBack(f)
      BY <1>1, <3>3 DEF WriteBack, serviceVars
    <3> QED  BY <1>8, <3>1, <3>2, <3>3 DEF OtherSteps
  <2>2. UNCHANGED <<scenario, work, slot, count, committed, loaded, files, wanted, temp, reader, faults, cut, missed,
                    losses, lastNet>>
    BY <1>8 DEF OtherSteps, Connect, Hangup, WriteBack, tableVars, diskVars, serviceVars, readerVars
  <2>3. disk' \in [Persist -> SUBSET (Stored \union {Null})]
    <3>1. CASE Connect \/ Hangup
      BY <1>1, <3>1 DEF Connect, Hangup, diskVars
    <3>2. ASSUME NEW f \in Persist, WriteBack(f) PROVE disk' \in [Persist -> SUBSET (Stored \union {Null})]
      <4>1. {Content(files, f)} \in SUBSET (Stored \union {Null})
        BY <1>1, ContentType
      <4> QED  BY <1>1, <3>2, <4>1 DEF WriteBack
    <3> QED  BY <1>8, <3>1, <3>2 DEF OtherSteps
  <2> QED  BY <1>1, <2>1, <2>2, <2>3 DEF TypeInv
<1>9. CASE UNCHANGED scenario /\ ReaderSteps
  <2>1. reader' \in Reading
    BY <1>9, ReaderType
  <2>2. UNCHANGED <<scenario, work, slot, count, committed, loaded, files, wanted, temp, backlog, faults, disk, cut, missed,
                    losses, lastNet>>
    BY <1>9 DEF ReaderSteps, Read, ReadSerial, CopyCell, Return, tableVars, diskVars, serviceVars
  <2> QED  BY <1>1, <2>1, <2>2 DEF TypeInv
<1>10. CASE UNCHANGED scenario /\ PowerLoss
  <2>1. /\ Stack(work') /\ losses' \in 0..scenario.losses /\ count' = 0 /\ reader' = NotReading
        /\ lastNet' = Null /\ slot' = [i \in Slots |-> Unused] /\ committed' = [i \in Slots |-> Null]
        /\ loaded' = FALSE /\ wanted' = files' /\ backlog' = <<>> /\ temp' = Null /\ missed' = {}
        /\ faults' = faults /\ cut' = cut \union {f \in Persist : disk[f] # {Content(files, f)}}
    BY <1>10, PowerLossFacts
  <2>5. Disk(files') /\ disk' \in [Persist -> SUBSET (Stored \union {Null})]
    <3>1. PICK left \in [Persist -> Stored \union {Null}] :
            /\ files' = [f \in {g \in Persist : left[g] # Null} |-> left[f]]
            /\ disk' = [f \in Persist |-> {left[f]}]
      BY <1>10, PowerLossFacts
    <3>2. Disk(files')
      BY <3>1 DEF Disk
    <3>3. \A f \in Persist : {left[f]} \in SUBSET (Stored \union {Null})
      BY <3>1
    <3> QED  BY <3>1, <3>2, <3>3
  <2>6. cut' \subseteq Persist /\ missed' \subseteq Persist
    BY <1>1, <2>1
  <2>2. NotReading \in Reading /\ Unused \in Entry
    BY Constants, EmptySeq DEF NotReading, Reading, Cells, Unused, Entry, Symbols
  <2>3. slot' \in [Slots -> Entry] /\ committed' \in [Slots -> Stored \union {Null}] /\ count' \in 0..PA_COUNT_MAX
    BY <2>1, <2>2, Constants
  <2>4. backlog' \in Seq(Request) /\ loaded' \in BOOLEAN /\ lastNet' \in Stored \union {Null}
    BY <2>1, EmptySeq
  <2> QED  BY <1>1, <1>10, <2>1, <2>2, <2>3, <2>4, <2>5, <2>6 DEF TypeInv
<1>11. CASE UNCHANGED vars
  <2>1. UNCHANGED <<scenario, work, slot, count, committed, loaded, files, wanted, temp, backlog, reader, faults,
                    disk, cut, missed, losses, lastNet>>
    BY <1>11 DEF vars, tableVars, diskVars, serviceVars, readerVars
  <2> QED  BY <1>1, <2>1 DEF TypeInv
<1> QED  BY <1>2, <1>3, <1>4, <1>5, <1>6, <1>7, <1>8, <1>9, <1>10, <1>11, NextIs

\* The last instruction stays, files and loaded too: what is new must be no
\* other save and, while the saved properties are loaded, no other set.
LEMMA SameLast ==
    ASSUME TypeInv, WorkInv, Top.op \notin Bottom, Last(work') = Last(work), UNCHANGED <<loaded, files>>,
           \A x \in Items(work') :
              \/ x \in Items(work) \/ x.op \notin Saves \union {"set"}
              \/ x.op = "set" /\ x.name = NetChange
              \/ loaded /\ x.op \in Saves
    PROVE  WorkInv'
<1>1. Last(work).op # "loaded"
  <2>1. ASSUME Last(work).op = "loaded" PROVE FALSE
    <3>1. Len(work) = 1
      BY <2>1 DEF WorkInv
    <3>2. Last(work) = Top
      BY <3>1 DEF Last, Top
    <3> QED  BY <2>1, <3>2 DEF Bottom
  <2> QED  BY <2>1
<1>2. NetChange \notin Persist
  BY PropertyAssumption
<1>3. \A x \in Items(work') : x.op \in Saves => loaded'
  BY DEF WorkInv, Saves
<1>4. ASSUME Last(work').op = "readdir", NEW x \in Items(work'), x.op = "set", x.name \in Persist
      PROVE  x.name \in DOMAIN files' /\ x.value = files'[x.name]
  <2>1. x \in Items(work)
    BY <1>2, <1>4 DEF Saves
  <2> QED  BY <1>4, <2>1 DEF WorkInv
<1> QED  BY <1>1, <1>3, <1>4 DEF WorkInv

LEMMA NextWork == TypeInv /\ WorkInv /\ HeadInv /\ EntriesInv /\ [Next]_vars => WorkInv'
<1> SUFFICES ASSUME TypeInv, WorkInv, HeadInv, EntriesInv, [Next]_vars PROVE WorkInv'
  OBVIOUS
<1>1. Stack(work) /\ Disk(files) /\ backlog \in Seq(Request)
  BY DEF TypeInv
<1>2. CASE UNCHANGED scenario /\ Set
  <2>1. Top.op \notin Bottom /\ Last(work') = Last(work)
    BY <1>2, SetStep, SetType DEF Bottom
  <2>2. UNCHANGED <<loaded, files>>
    BY <1>2 DEF Set
  <2>3. ASSUME NEW x \in Items(work')
        PROVE  \/ x \in Items(work) \/ x.op \notin Saves \union {"set"}
               \/ x.op = "set" /\ x.name = NetChange
               \/ loaded /\ x.op \in Saves
    <3>1. CASE Refused(Top.name, Top.value)
      BY <1>2, <2>3, <3>1, SetStep DEF PoppedTo
    <3>2. CASE ~Refused(Top.name, Top.value)
      <4>1. \/ x \in Items(work) \/ x.op \notin Saves \union {"set"} \union Bottom
            \/ x.op = "set" /\ x.name = NetChange
            \/ /\ loaded /\ Top.name \in Persist
               /\ x = [op |-> "saveTemp", name |-> Top.name, value |-> Top.value]
        BY <1>2, <2>3, <3>2, SetStep
      <4> QED  BY <4>1 DEF Saves
    <3> QED  BY <3>1, <3>2
  <2> QED  BY <2>1, <2>2, <2>3, SameLast
<1>3. CASE UNCHANGED scenario /\ TableWrites
  <2>1. Top.op \notin Bottom
    BY <1>1, <1>3, TableSteps, MemcpyStep DEF TableWrites, Bottom
  <2>2. /\ Last(work') = Last(work) /\ UNCHANGED <<loaded, files>>
        /\ \A x \in Items(work') : x \in Items(work) \/ x.op = "memcpy"
    BY <1>3, TableWork DEF TableWrites
  <2>3. "memcpy" \notin Saves \union {"set"}
    BY DEF Saves
  <2> QED  BY <2>1, <2>2, <2>3, SameLast
<1>4. CASE UNCHANGED scenario /\ property_changed
  <2>1. Top.op = "property_changed" /\ PoppedTo
    BY <1>1, <1>4, TableSteps
  <2>2. UNCHANGED <<loaded, files>>
    BY <1>4 DEF property_changed, diskVars
  <2> QED  BY <2>1, <2>2, SameLast DEF PoppedTo, Bottom
<1>5. CASE UNCHANGED scenario /\ FileSteps
  <2>1. /\ Last(work') = Last(work) /\ Top.op \in Saves /\ Top \in Items(work)
        /\ \A x \in Items(work') : x \in Items(work) \/ x.op \in Saves
    BY <1>5, SaveType DEF FileSteps
  <2>2. loaded /\ loaded' = loaded
    BY <1>5, <2>1 DEF WorkInv, FileSteps, OpenTemp, WriteTemp, Rename, UnchangedButDisk, serviceVars
  <2>3. Last(work).op = "poll"
    BY <2>2 DEF WorkInv
  <2> QED  BY <2>1, <2>2, <2>3 DEF WorkInv
<1>6. CASE UNCHANGED scenario /\ LoadingSteps
  <2>1. CASE Opendir
    <3>1. /\ Top.op = "opendir" /\ Last(work) = Top
          /\ Stack(work') /\ Last(work') = Top' /\ Len(work') = 1
          /\ Top'.op \in {"readdir", "loaded"}
          /\ work' = <<I("loaded")>> \/ work' = <<[op |-> "readdir", left |-> DOMAIN files]>>
      BY <1>1, <2>1, LoadSteps
    <3>2. UNCHANGED <<loaded, files>> /\ ~loaded
      BY <2>1, <3>1 DEF Opendir, UnchangedButDisk, serviceVars, WorkInv
    <3>3. Items(work') = {Top'}
      BY <3>1 DEF Items, Top
    <3>4. Top'.op = "readdir" => Top'.left = DOMAIN files
      BY <3>1 DEF Top, I
    <3> QED  BY <3>1, <3>2, <3>3, <3>4 DEF WorkInv, Saves
  <2>2. CASE Loaded
    <3>1. /\ Stack(work') /\ Last(work') = Top' /\ Len(work') = 1 /\ Top'.op = "poll"
      BY <1>1, <2>2, LoadSteps
    <3>2. loaded' = TRUE
      BY <2>2 DEF Loaded
    <3> QED  BY <3>1, <3>2 DEF WorkInv
  <2>3. CASE Readdir
    <3>1. Top.op = "readdir" /\ Last(work) = Top /\ Top.left \subseteq DOMAIN files
      <4>1. Top.op = "readdir"
        BY <1>1, <2>3, TopIsHead DEF Readdir
      <4>2. Last(work) = Top
        BY <1>1, <4>1, LastWork DEF Bottom, Top
      <4> QED  BY <4>1, <4>2 DEF WorkInv
    <3>2. UNCHANGED <<loaded, files>> /\ ~loaded
      BY <2>3, <3>1 DEF Readdir, UnchangedButDisk, serviceVars, WorkInv
    <3>3. \/ Stack(work') /\ Last(work') = Top' /\ Top'.op = "loaded" /\ Len(work') = 1
          \/ \E f \in Top.left :
               LET r == [op |-> "readdir", left |-> Top.left \ {f}]
                   x == [op |-> "set", name |-> f, value |-> files[f]]
               IN  Last(work') = r /\ (work' = <<r>> \/ Items(work') = {x, r})
      BY <1>1, <2>3, <3>1, ReaddirStep
    <3>4. CASE Stack(work') /\ Last(work') = Top' /\ Top'.op = "loaded" /\ Len(work') = 1
      <4>1. Items(work') = {Top'}
        BY <3>4 DEF Items, Top
      <4> QED  BY <3>2, <3>4, <4>1 DEF WorkInv, Saves
    <3>5. ASSUME NEW f \in Top.left,
                 LET r == [op |-> "readdir", left |-> Top.left \ {f}]
                     x == [op |-> "set", name |-> f, value |-> files[f]]
                 IN  Last(work') = r /\ (work' = <<r>> \/ Items(work') = {x, r})
          PROVE  WorkInv'
      <4> DEFINE r == [op |-> "readdir", left |-> Top.left \ {f}]
                 x == [op |-> "set", name |-> f, value |-> files[f]]
      <4>1. r.op = "readdir" /\ r.left \subseteq DOMAIN files /\ x.op = "set" /\ x.name = f /\ x.value = files[f]
            /\ f \in DOMAIN files
        BY <3>1
      <4>2. Last(work') = r /\ Items(work') \subseteq {x, r}
        BY <3>5 DEF Items
      <4> HIDE DEF r, x
      <4> QED  BY <3>2, <4>1, <4>2 DEF WorkInv, Saves
    <3> QED  BY <3>3, <3>4, <3>5
  <2> QED  BY <1>6, <2>1, <2>2, <2>3 DEF LoadingSteps
<1>7. CASE UNCHANGED scenario /\ handle_property_set_fd
  <2>1. Top.op = "poll" /\ Last(work) = Top /\ Last(work') = Last(work)
    BY <1>1, <1>7, RequestStep
  <2>2. loaded /\ loaded' = loaded
    BY <1>7, <2>1 DEF handle_property_set_fd, WorkInv
  <2> QED  BY <2>1, <2>2 DEF WorkInv
<1>8. CASE UNCHANGED scenario /\ PowerLoss
  <2>1. /\ Last(work').op = "opendir" /\ loaded' = FALSE
        /\ \A x \in Items(work') : x.op \in {"set", "opendir"}
    BY <1>8, PowerLossFacts
  <2> QED  BY <2>1 DEF WorkInv, Saves
<1>9. CASE UNCHANGED scenario /\ (OtherSteps \/ ReaderSteps)
  <2>1. UNCHANGED <<work, loaded, files>>
    BY <1>9 DEF OtherSteps, Connect, Hangup, WriteBack, ReaderSteps, Read, ReadSerial, CopyCell, Return, diskVars, serviceVars
  <2> QED  BY <2>1 DEF WorkInv
<1>10. CASE UNCHANGED vars
  <2>1. UNCHANGED <<work, loaded, files>>
    BY <1>10 DEF vars, diskVars, serviceVars
  <2> QED  BY <2>1 DEF WorkInv
<1> QED  BY <1>2, <1>3, <1>4, <1>5, <1>6, <1>7, <1>8, <1>9, <1>10, NextIs

-----------------------------------------------------------------------------
(* The table. *)

LEMMA QuietSteps ==
    ASSUME TypeInv, WorkInv, HeadInv, scenario' = scenario,
           property_changed \/ FileSteps \/ LoadingSteps \/ handle_property_set_fd
    PROVE  /\ UNCHANGED <<slot, count, committed, reader>>
           /\ Top.op \in Quiet /\ Top'.op \in Quiet /\ (Top'.op = "rename" => temp' # Null)
<1>1. Stack(work) /\ backlog \in Seq(Request)
  BY DEF TypeInv
<1>2. UNCHANGED <<slot, count, committed, reader>>
  BY DEF property_changed, FileSteps, OpenTemp, WriteTemp, Rename, LoadingSteps, Opendir, Readdir, Loaded,
         handle_property_set_fd, UnchangedButDisk, tableVars, readerVars
<1>3. CASE property_changed
  <2>1. Top.op = "property_changed" /\ Top'.op \in Later
    BY <1>1, <1>3, TableSteps
  <2> QED  BY <1>2, <2>1 DEF Quiet, Later, Bottom
<1>4. CASE FileSteps
  <2>1. Top.op \in Saves /\ (Top'.op = "rename" => temp' # Null)
    BY <1>4, SaveType DEF FileSteps
  <2>2. Top'.op \in Quiet
    BY <1>1, <1>4, SaveSteps DEF FileSteps, Quiet, ReplacedBy, Saves
  <2> QED  BY <1>2, <2>1, <2>2 DEF Quiet
<1>5. CASE LoadingSteps
  <2>1. Top'.op \in Later /\ Top.op \in Bottom
    BY <1>5, LoadingType
  <2> QED  BY <1>2, <2>1 DEF Quiet, Later, Bottom
<1>6. CASE handle_property_set_fd
  <2>1. Top.op = "poll"
    BY <1>1, <1>6, RequestStep
  <2>2. Top'.op \in {"poll", "set"}
    <3>1. CASE work' = work
      BY <2>1, <3>1 DEF Top
    <3>2. CASE work' # work
      BY <1>1, <1>6, <3>2, RequestStep
    <3> QED  BY <3>1, <3>2
  <2> QED  BY <1>2, <2>1, <2>2 DEF Quiet, Later, Bottom
<1> QED  BY <1>3, <1>4, <1>5, <1>6

LEMMA SetTable ==
    ASSUME TypeInv, EntriesInv, Set
    PROVE  /\ UNCHANGED <<slot, count, committed, reader>>
           /\ Top.op = "set" /\ Top'.op \in {"dirty", "fill"} \union Later
           /\ HeadInv'
<1>1. UNCHANGED <<slot, count, committed, reader>>
  BY DEF Set, tableVars, readerVars
<1>2. Top.op = "set"
  BY SetStep
<1>3. CASE Refused(Top.name, Top.value)
  <2>1. Top'.op \in Later
    BY <1>3, SetStep
  <2> QED  BY <1>1, <1>2, <2>1 DEF HeadInv, Later, Bottom
<1>4. CASE ~Refused(Top.name, Top.value) /\ Found(Top.name) # {}
  <2>1. Top'.op = "dirty" /\ Top'.slot \in Found(Top.name)
    BY <1>4, SetStep
  <2>2. Top'.slot \in 1..count
    BY <2>1 DEF Found
  <2> QED  BY <1>1, <1>2, <2>1, <2>2 DEF HeadInv
<1>5. CASE ~Refused(Top.name, Top.value) /\ Found(Top.name) = {}
  <2>1. Top'.op = "fill" /\ Top'.name = Top.name /\ count < PA_COUNT_MAX
    BY <1>5, SetStep
  <2>2. Found(Top.name)' = {}
    BY <1>1, <1>5, <2>1 DEF Found
  <2> QED  BY <1>1, <1>2, <2>1, <2>2 DEF HeadInv, Found
<1> QED  BY <1>3, <1>4, <1>5

\* What each of the writes to the table does.
LEMMA DirtyWrites ==
    ASSUME TypeInv, HeadInv, EntriesInv, Dirty
    PROVE  /\ Top.op = "dirty" /\ Top.slot \in 1..count /\ Top.slot \in Slots
           /\ Top'.op = "memcpy" /\ Top'.slot = Top.slot /\ Top'.i = 0
           /\ UNCHANGED <<count, committed, reader>>
           /\ slot[Top.slot].n % 2 = 0 /\ slot'[Top.slot].n = slot[Top.slot].n + 1
           /\ slot'[Top.slot].name = slot[Top.slot].name
           /\ \A i \in Slots \ {Top.slot} : slot'[i] = slot[i]
<1>1. Stack(work) /\ slot \in [Slots -> Entry]
  BY DEF TypeInv
<1>2. Now = Top
  BY <1>1, TopIsHead
<1>3. Top \in [op : {"dirty"}, slot : Slots] /\ Top'.op = "memcpy" /\ Top'.slot = Top.slot /\ Top'.i = 0
  BY <1>1, TableSteps
<1>4. Top.slot \in 1..count
  BY <1>3 DEF HeadInv
<1>5. ~Writing(Top.slot) /\ slot[Top.slot] \in Entry
  BY <1>1, <1>3 DEF Writing
<1>6. slot[Top.slot].n % 2 = 0
  <2>1. slot[Top.slot].n \in Nat
    BY <1>5, Constants DEF Entry
  <2>2. ~(slot[Top.slot].n % 2 = 1)
    BY <1>4, <1>5 DEF EntriesInv
  <2> QED  BY <2>1, <2>2
<1> DEFINE e == [slot[Top.slot] EXCEPT !.n = IF @ % 2 = 0 THEN @ + 1 ELSE @]
<1>7. e.n = slot[Top.slot].n + 1 /\ e.name = slot[Top.slot].name
  BY <1>5, <1>6 DEF Entry
<1>8. slot' = [slot EXCEPT ![Top.slot] = e] /\ UNCHANGED <<count, committed, reader>>
  BY <1>2 DEF Dirty, WriteSlot, UnchangedRest, readerVars
<1> HIDE DEF e
<1>9. slot'[Top.slot] = e /\ \A i \in Slots \ {Top.slot} : slot'[i] = slot[i]
  BY <1>1, <1>3, <1>8
<1> QED  BY <1>3, <1>4, <1>6, <1>7, <1>8, <1>9

LEMMA MemcpyWrites ==
    ASSUME TypeInv, HeadInv, EntriesInv, Memcpy
    PROVE  /\ Top.op = "memcpy" /\ Top.slot \in 1..count /\ Top.slot \in Slots /\ Top.value \in Stored
           /\ Top.i \in Cells /\ Top.i <= Len(Top.value)
           /\ Top'.slot = Top.slot /\ Top'.value = Top.value
           /\ \/ Top'.op = "memcpy" /\ Top.i < Len(Top.value) /\ Top'.i = Top.i + 1
              \/ Top'.op = "clean" /\ Top.i = Len(Top.value)
           /\ UNCHANGED <<count, committed, reader>>
           /\ slot'[Top.slot].n = slot[Top.slot].n /\ slot'[Top.slot].name = slot[Top.slot].name
           /\ slot'[Top.slot].value[Top.i] = Cell(Top.value, Top.i)
           /\ \A c \in Cells \ {Top.i} : slot'[Top.slot].value[c] = slot[Top.slot].value[c]
           /\ \A i \in Slots \ {Top.slot} : slot'[i] = slot[i]
<1>1. Stack(work) /\ slot \in [Slots -> Entry]
  BY DEF TypeInv
<1>2. Now = Top
  BY <1>1, TopIsHead
<1>3. Top \in [op : {"memcpy"}, slot : Slots, value : Stored, i : Cells]
  BY <1>1, MemcpyStep
<1>4. Top.op = "memcpy" /\ Top.slot \in 1..count /\ Top.i <= Len(Top.value)
  BY <1>3 DEF HeadInv
<1>5. /\ Top'.slot = Top.slot /\ Top'.value = Top.value
      /\ \/ Top'.op = "memcpy" /\ Top.i < Len(Top.value) /\ Top'.i = Top.i + 1
         \/ Top'.op = "clean" /\ ~(Top.i < Len(Top.value))
  <2>1. CASE Top.i < Len(Top.value)
    BY <1>1, <2>1, MemcpyStep
  <2>2. CASE ~(Top.i < Len(Top.value))
    BY <1>1, <2>2, MemcpyStep
  <2> QED  BY <2>1, <2>2
<1>6. Len(Top.value) \in Nat /\ Top.i \in Nat
  BY <1>3, Constants DEF Cells
<1>7. slot[Top.slot] \in Entry
  BY <1>1, <1>3
<1> DEFINE e == [slot[Top.slot] EXCEPT !.value[Top.i] = Cell(Top.value, Top.i)]
<1>8. /\ e.n = slot[Top.slot].n /\ e.name = slot[Top.slot].name
      /\ e.value = [slot[Top.slot].value EXCEPT ![Top.i] = Cell(Top.value, Top.i)]
  BY <1>7 DEF Entry
<1>9. /\ e.value[Top.i] = Cell(Top.value, Top.i)
      /\ \A c \in Cells \ {Top.i} : e.value[c] = slot[Top.slot].value[c]
  <2>1. slot[Top.slot].value \in [Cells -> Symbols]
    BY <1>7 DEF Entry
  <2> HIDE DEF e
  <2> QED  BY <1>3, <1>8, <2>1
<1>10. slot' = [slot EXCEPT ![Top.slot] = e] /\ UNCHANGED <<count, committed, reader>>
  BY <1>2 DEF Memcpy, WriteSlot, UnchangedRest, readerVars
<1> HIDE DEF e
<1>11. slot'[Top.slot] = e /\ \A i \in Slots \ {Top.slot} : slot'[i] = slot[i]
  BY <1>1, <1>3, <1>10
<1>12. Top'.op = "clean" => Top.i = Len(Top.value)
  BY <1>4, <1>5, <1>6
<1> QED  BY <1>3, <1>4, <1>5, <1>8, <1>9, <1>10, <1>11, <1>12

LEMMA CleanWrites ==
    ASSUME TypeInv, HeadInv, EntriesInv, Clean
    PROVE  /\ Top.op = "clean" /\ Top.slot \in 1..count /\ Top.slot \in Slots /\ Top.value \in Stored
           /\ Top'.op \in {"saveTemp"} \union Later
           /\ count' = count
           /\ committed'[Top.slot] = Top.value
           /\ \A i \in Slots \ {Top.slot} : committed'[i] = committed[i]
           /\ reader' = IF reader.slot = Top.slot /\ reader.at # "idle"
                        THEN [reader EXCEPT !.seen = @ \union {Top.value}, !.updates = @ + 1]
                        ELSE reader
           /\ slot[Top.slot].n % 2 = 1 /\ slot'[Top.slot].n = (slot[Top.slot].n + 1) % SerialMod
           /\ slot'[Top.slot].name = slot[Top.slot].name
           /\ slot'[Top.slot].len = Len(Top.value) /\ slot'[Top.slot].value = slot[Top.slot].value
           /\ \A i \in Slots \ {Top.slot} : slot'[i] = slot[i]
<1>1. Stack(work) /\ slot \in [Slots -> Entry] /\ committed \in [Slots -> Stored \union {Null}]
  BY DEF TypeInv
<1>2. Now = Top
  BY <1>1, TopIsHead
<1>3. Top \in [op : {"clean"}, slot : Slots, value : Stored] /\ Top'.op \in {"saveTemp"} \union Later
  BY <1>1, TableSteps
<1>4. Top.op = "clean" /\ Top.slot \in 1..count
  BY <1>3 DEF HeadInv
<1>5. Writing(Top.slot) /\ slot[Top.slot] \in Entry
  BY <1>1, <1>3, <1>4 DEF Writing
<1>6. slot[Top.slot].n % 2 = 1
  BY <1>4, <1>5 DEF EntriesInv
<1> DEFINE e == [slot[Top.slot] EXCEPT !.len = Len(Top.value), !.n = (@ + 1) % SerialMod]
<1>7. /\ e.n = (slot[Top.slot].n + 1) % SerialMod /\ e.name = slot[Top.slot].name
      /\ e.len = Len(Top.value) /\ e.value = slot[Top.slot].value
  BY <1>5 DEF Entry
<1>8. /\ slot' = [slot EXCEPT ![Top.slot] = e] /\ count' = count
      /\ committed' = [committed EXCEPT ![Top.slot] = Top.value]
      /\ reader' = IF reader.slot = Top.slot /\ reader.at # "idle"
                   THEN [reader EXCEPT !.seen = @ \union {Top.value}, !.updates = @ + 1]
                   ELSE reader
  BY <1>2 DEF Clean, WriteSlot
<1> HIDE DEF e
<1>9. slot'[Top.slot] = e /\ \A i \in Slots \ {Top.slot} : slot'[i] = slot[i]
  BY <1>1, <1>3, <1>8
<1>10. committed'[Top.slot] = Top.value /\ \A i \in Slots \ {Top.slot} : committed'[i] = committed[i]
  BY <1>1, <1>3, <1>8
<1> QED  BY <1>3, <1>4, <1>6, <1>7, <1>8, <1>9, <1>10

LEMMA FillWrites ==
    ASSUME TypeInv, HeadInv, Fill
    PROVE  /\ Top.op = "fill" /\ Top.name \in PropertyNames /\ Top.value \in Stored
           /\ count < PA_COUNT_MAX /\ Found(Top.name) = {} /\ count + 1 \in Slots
           /\ Top'.op = "publish" /\ Top'.value = Top.value
           /\ UNCHANGED <<count, committed, reader>>
           /\ slot'[count + 1].name = Top.name /\ slot'[count + 1].n = 0
           /\ slot'[count + 1].len = Len(Top.value)
           /\ \A c \in Cells : slot'[count + 1].value[c] = Cell(Top.value, c)
           /\ \A i \in Slots \ {count + 1} : slot'[i] = slot[i]
<1>1. Stack(work) /\ slot \in [Slots -> Entry] /\ count \in 0..PA_COUNT_MAX
  BY DEF TypeInv
<1>2. Now = Top
  BY <1>1, TopIsHead
<1>3. /\ Top \in [op : {"fill"}, name : PropertyNames, value : Stored] /\ Top'.op = "publish"
      /\ Top'.value = Top.value
  BY <1>1, TableSteps
<1>4. Top.op = "fill" /\ count < PA_COUNT_MAX /\ Found(Top.name) = {}
  BY <1>3 DEF HeadInv
<1>5. count + 1 \in Slots
  BY <1>1, <1>4, Constants DEF Slots
<1> DEFINE e == [name |-> Top.name, len |-> Len(Top.value), n |-> 0,
                 value |-> [i \in Cells |-> Cell(Top.value, i)]]
<1>6. /\ e.name = Top.name /\ e.n = 0 /\ e.len = Len(Top.value)
      /\ \A c \in Cells : e.value[c] = Cell(Top.value, c)
  OBVIOUS
<1>7. slot' = [slot EXCEPT ![count + 1] = e] /\ UNCHANGED <<count, committed, reader>>
  BY <1>2 DEF Fill, WriteSlot, UnchangedRest, readerVars
<1> HIDE DEF e
<1>8. slot'[count + 1] = e /\ \A i \in Slots \ {count + 1} : slot'[i] = slot[i]
  BY <1>1, <1>5, <1>7
<1> QED  BY <1>3, <1>4, <1>5, <1>6, <1>7, <1>8

LEMMA PublishWrites ==
    ASSUME TypeInv, HeadInv, Publish
    PROVE  /\ Top.op = "publish" /\ Top.value \in Stored /\ Top'.op \in {"saveTemp"} \union Later
           /\ count < PA_COUNT_MAX /\ count + 1 \in Slots /\ count' = count + 1
           /\ slot[count + 1].name # Null /\ Found(slot[count + 1].name) = {}
           /\ slot[count + 1].n = 0 /\ Holds(count + 1, Top.value)
           /\ committed'[count + 1] = Top.value
           /\ \A i \in Slots \ {count + 1} : committed'[i] = committed[i]
           /\ UNCHANGED <<slot, reader>>
<1>1. Stack(work) /\ count \in 0..PA_COUNT_MAX /\ committed \in [Slots -> Stored \union {Null}]
  BY DEF TypeInv
<1>2. Now = Top
  BY <1>1, TopIsHead
<1>3. Top \in [op : {"publish"}, value : Stored] /\ Top'.op \in {"saveTemp"} \union Later
  BY <1>1, TableSteps
<1>4. /\ Top.op = "publish" /\ count < PA_COUNT_MAX
      /\ slot[count + 1].name # Null /\ Found(slot[count + 1].name) = {}
      /\ slot[count + 1].n = 0 /\ Holds(count + 1, Top.value)
  BY <1>3 DEF HeadInv
<1>5. count + 1 \in Slots
  BY <1>1, <1>4, Constants DEF Slots
<1>6. /\ count' = count + 1 /\ committed' = [committed EXCEPT ![count + 1] = Top.value]
      /\ UNCHANGED <<slot, reader>>
  BY <1>2 DEF Publish, UnchangedRest, readerVars
<1>7. committed'[count + 1] = Top.value /\ \A i \in Slots \ {count + 1} : committed'[i] = committed[i]
  BY <1>1, <1>5, <1>6
<1> QED  BY <1>3, <1>4, <1>5, <1>6, <1>7

LEMMA SlotNumbers == TypeInv => \A i \in 1..count : i \in Slots /\ i # count + 1 /\ i \in Nat
BY Constants DEF TypeInv, Slots

LEMMA NextHead == TypeInv /\ WorkInv /\ HeadInv /\ EntriesInv /\ [Next]_vars => HeadInv'
<1> SUFFICES ASSUME TypeInv, WorkInv, HeadInv, EntriesInv, [Next]_vars PROVE HeadInv'
  OBVIOUS
<1>1. CASE UNCHANGED scenario /\ Set
  BY <1>1, SetTable
<1>2. CASE Dirty
  <2>1. /\ Top.slot \in 1..count /\ Top'.op = "memcpy" /\ Top'.slot = Top.slot /\ Top'.i = 0
        /\ UNCHANGED <<count, committed, reader>>
    BY <1>2, DirtyWrites
  <2>2. \A c \in Cells : ~(c < 0)
    BY DEF Cells
  <2>3. Stack(work') /\ Top' \in Instruction
    BY <1>2, TableWork, StackHead DEF Top
  <2>4. Len(Top'.value) \in Nat
    BY <2>1, <2>3, InstructionForms, Constants
  <2> QED  BY <2>1, <2>2, <2>4 DEF HeadInv, Copied
<1>3. CASE Memcpy
  <2> DEFINE s == Top.slot
             v == Top.value
  <2>1. /\ s \in 1..count /\ v \in Stored /\ Top.i \in Cells /\ Top.i <= Len(v)
        /\ Top'.slot = s /\ Top'.value = v /\ UNCHANGED count
        /\ \/ Top'.op = "memcpy" /\ Top.i < Len(v) /\ Top'.i = Top.i + 1
           \/ Top'.op = "clean" /\ Top.i = Len(v)
        /\ slot'[s].value[Top.i] = Cell(v, Top.i)
        /\ \A c \in Cells \ {Top.i} : slot'[s].value[c] = slot[s].value[c]
    BY <1>3, MemcpyWrites
  <2>2. Copied(v, s, Top.i)
    BY <1>3, MemcpyWrites DEF HeadInv
  <2>3. \A c \in Cells : c \in Nat
    BY DEF Cells
  <2>4. \A c \in Cells : c < Top.i + 1 => slot'[s].value[c] = Cell(v, c)
    <3> TAKE c \in Cells
    <3>1. CASE c = Top.i
      BY <2>1, <3>1
    <3>2. CASE c # Top.i
      <4>1. slot'[s].value[c] = slot[s].value[c]
        BY <2>1, <3>2
      <4>2. c < Top.i + 1 => c < Top.i
        BY <2>1, <2>3, <3>2
      <4> QED  BY <2>2, <4>1, <4>2 DEF Copied
    <3> QED  BY <3>1, <3>2
  <2>5. Top'.slot \in 1..count'
    BY <2>1
  <2>6. CASE Top'.op = "memcpy" /\ Top.i < Len(v) /\ Top'.i = Top.i + 1
    <3>1. Top'.i <= Len(Top'.value)
      <4>1. Len(v) \in Nat /\ Top.i \in Nat
        BY <2>1, <2>3, Constants
      <4> QED  BY <2>1, <2>6, <4>1
    <3>2. \A c \in Cells : c < Top'.i => slot'[Top'.slot].value[c] = Cell(Top'.value, c)
      BY <2>1, <2>4, <2>6
    <3> QED  BY <2>5, <2>6, <3>1, <3>2 DEF HeadInv, Copied, Cell
  <2>7. CASE Top'.op = "clean" /\ Top.i = Len(v)
    <3>1. \A c \in Cells : c < Len(Top'.value) + 1 => slot'[Top'.slot].value[c] = Cell(Top'.value, c)
      BY <2>1, <2>4, <2>7
    <3> QED  BY <2>5, <2>7, <3>1 DEF HeadInv, Copied, Cell
  <2> QED  BY <2>1, <2>6, <2>7
<1>4. CASE Clean
  <2>1. Top'.op \in {"saveTemp"} \union Later
    BY <1>4, CleanWrites
  <2> QED  BY <2>1 DEF HeadInv, Later, Bottom
<1>5. CASE Fill
  <2>1. /\ Top.name \in PropertyNames /\ Top.value \in Stored
        /\ count < PA_COUNT_MAX /\ Found(Top.name) = {} /\ count + 1 \in Slots
        /\ Top'.op = "publish" /\ Top'.value = Top.value /\ UNCHANGED count
        /\ slot'[count + 1].name = Top.name /\ slot'[count + 1].n = 0
        /\ slot'[count + 1].len = Len(Top.value)
        /\ \A c \in Cells : slot'[count + 1].value[c] = Cell(Top.value, c)
        /\ \A i \in Slots \ {count + 1} : slot'[i] = slot[i]
    BY <1>5, FillWrites
  <2>2. Top.name # Null
    BY <2>1, Constants
  <2>3. \A i \in 1..count : slot'[i] = slot[i]
    BY <2>1, SlotNumbers
  <2>4. Found(slot[count + 1].name)' = {}
    BY <2>1, <2>3 DEF Found
  <2>5. Holds(count + 1, Top.value)'
    BY <2>1 DEF Holds, Copied, Cell
  <2> QED  BY <2>1, <2>2, <2>4, <2>5 DEF HeadInv, Found, Holds, Copied, Cell
<1>6. CASE Publish
  <2>1. Top'.op \in {"saveTemp"} \union Later
    BY <1>6, PublishWrites
  <2> QED  BY <2>1 DEF HeadInv, Later, Bottom
<1>7. CASE UNCHANGED scenario /\ (property_changed \/ FileSteps \/ LoadingSteps \/ handle_property_set_fd)
  <2>1. Top'.op \in Quiet /\ (Top'.op = "rename" => temp' # Null)
    BY <1>7, QuietSteps
  <2> QED  BY <2>1 DEF HeadInv, Quiet, Later, Bottom, Saves
<1>8. CASE UNCHANGED scenario /\ PowerLoss
  <2>1. Top'.op \in {"set", "opendir"}
    BY <1>8, PowerLossFacts
  <2> QED  BY <2>1 DEF HeadInv
<1>9. CASE OtherSteps \/ ReaderSteps \/ UNCHANGED vars
  <2>1. UNCHANGED <<work, slot, count, temp>>
    BY <1>9 DEF OtherSteps, Connect, Hangup, WriteBack, ReaderSteps, Read, ReadSerial, CopyCell, Return, vars, diskVars,
                tableVars
  <2> QED  BY <2>1 DEF HeadInv, Top, Copied, Holds, Found
<1> QED  BY <1>1, <1>2, <1>3, <1>4, <1>5, <1>6, <1>7, <1>8, <1>9, NextIs DEF TableWrites

\* Nothing of the table is written, and nothing was being written.
LEMMA SameEntries ==
    ASSUME UNCHANGED <<slot, count, committed>>, {Top.op, Top'.op} \intersect {"memcpy", "clean"} = {}, EntriesInv
    PROVE  EntriesInv'
<1>1. \A i : ~Writing(i) /\ ~Writing(i)'
  BY DEF Writing
<1>2. \A i, v : Holds(i, v)' <=> Holds(i, v)
  BY DEF Holds, Copied, Cell
<1> QED  BY <1>1, <1>2 DEF EntriesInv, Writing, Holds, Copied, Cell

LEMMA NextEntries == TypeInv /\ WorkInv /\ HeadInv /\ EntriesInv /\ [Next]_vars => EntriesInv'
<1> SUFFICES ASSUME TypeInv, WorkInv, HeadInv, EntriesInv, [Next]_vars PROVE EntriesInv'
  OBVIOUS
<1>n. \A i \in 1..count : i \in Slots /\ i # count + 1 /\ i \in Nat
  BY SlotNumbers
<1>t. slot \in [Slots -> Entry] /\ count \in 0..PA_COUNT_MAX
  BY DEF TypeInv
<1>1. CASE UNCHANGED scenario /\ Set
  <2>1. /\ UNCHANGED <<slot, count, committed>>
        /\ Top.op = "set" /\ Top'.op \in {"dirty", "fill"} \union Later
    BY <1>1, SetTable
  <2> QED  BY <2>1, SameEntries DEF Later, Bottom
<1>2. CASE Dirty
  <2> DEFINE s == Top.slot
  <2>1. /\ Top.op = "dirty" /\ s \in 1..count /\ s \in Slots
        /\ Top'.op = "memcpy" /\ Top'.slot = s
        /\ UNCHANGED <<count, committed, reader>>
        /\ slot[s].n % 2 = 0 /\ slot'[s].n = slot[s].n + 1 /\ slot'[s].name = slot[s].name
        /\ \A i \in Slots \ {s} : slot'[i] = slot[i]
    BY <1>2, DirtyWrites
  <2>2. slot'[s].n % 2 = 1
    <3>1. slot[s].n \in Nat
      BY <1>t, <2>1, Constants DEF Entry
    <3> QED  BY <2>1, <3>1
  <2>3. \A i : ~Writing(i) /\ (Writing(i)' <=> i = s)
    BY <2>1 DEF Writing
  <2>4. \A i \in 1..count : slot'[i].name = slot[i].name
    BY <1>n, <2>1
  <2>5. ASSUME NEW i \in 1..count, i # s
        PROVE  slot'[i] = slot[i] /\ ~(slot[i].n % 2 = 1) /\ Holds(i, committed[i])
    BY <1>n, <2>1, <2>3, <2>5 DEF EntriesInv
  <2> QED  BY <2>1, <2>2, <2>3, <2>4, <2>5 DEF EntriesInv, Holds, Copied, Cell, Writing
<1>3. CASE Memcpy
  <2> DEFINE s == Top.slot
  <2>1. /\ Top.op = "memcpy" /\ s \in 1..count /\ s \in Slots
        /\ Top'.op \in {"memcpy", "clean"} /\ Top'.slot = s
        /\ UNCHANGED <<count, committed, reader>>
        /\ slot'[s].n = slot[s].n /\ slot'[s].name = slot[s].name
        /\ \A i \in Slots \ {s} : slot'[i] = slot[i]
    BY <1>3, MemcpyWrites
  <2>2. \A i : (Writing(i) <=> i = s) /\ (Writing(i)' <=> i = s)
    BY <2>1 DEF Writing
  <2>3. \A i \in 1..count : slot'[i].name = slot[i].name
    BY <1>n, <2>1
  <2>4. ASSUME NEW i \in 1..count, i # s
        PROVE  slot'[i] = slot[i] /\ ~(slot[i].n % 2 = 1) /\ Holds(i, committed[i])
    BY <1>n, <2>1, <2>2, <2>4 DEF EntriesInv
  <2>5. slot[s].n % 2 = 1
    BY <2>1, <2>2 DEF EntriesInv
  <2> QED  BY <2>1, <2>2, <2>3, <2>4, <2>5 DEF EntriesInv, Holds, Copied, Cell, Writing
<1>4. CASE Clean
  <2> DEFINE s == Top.slot
             v == Top.value
  <2>1. /\ Top.op = "clean" /\ s \in 1..count /\ s \in Slots /\ v \in Stored
        /\ Top'.op \notin {"memcpy", "clean"} /\ count' = count
        /\ committed'[s] = v
        /\ \A i \in Slots \ {s} : committed'[i] = committed[i]
        /\ slot[s].n % 2 = 1 /\ slot'[s].n = (slot[s].n + 1) % SerialMod
        /\ slot'[s].name = slot[s].name
        /\ slot'[s].len = Len(v) /\ slot'[s].value = slot[s].value
        /\ \A i \in Slots \ {s} : slot'[i] = slot[i]
    BY <1>4, CleanWrites DEF Later, Bottom
  <2>2. slot'[s].n % 2 = 0
    <3>1. slot[s].n \in 0..(SerialMod - 1)
      BY <1>t, <2>1 DEF Entry
    <3>2. CASE slot[s].n + 1 = SerialMod
      <4>1. (slot[s].n + 1) % SerialMod = 0
        BY <3>2, PropertyAssumption
      <4> QED  BY <2>1, <4>1
    <3>3. CASE slot[s].n + 1 # SerialMod
      <4>1. (slot[s].n + 1) % SerialMod = slot[s].n + 1
        BY <3>1, <3>3, PropertyAssumption
      <4> QED  BY <2>1, <3>1, <4>1
    <3> QED  BY <3>2, <3>3
  <2>3. \A i : (Writing(i) <=> i = s) /\ ~Writing(i)'
    BY <2>1 DEF Writing
  <2>4. \A i \in 1..count : slot'[i].name = slot[i].name
    BY <1>n, <2>1
  <2>5. ASSUME NEW i \in 1..count, i # s
        PROVE  slot'[i] = slot[i] /\ ~(slot[i].n % 2 = 1) /\ Holds(i, committed[i]) /\ committed'[i] = committed[i]
    BY <1>n, <2>1, <2>3, <2>5 DEF EntriesInv
  <2>6. Copied(v, s, Len(v) + 1) /\ v # Null
    BY <2>1, Constants DEF HeadInv
  <2>7. ASSUME NEW i \in 1..count
        PROVE  /\ slot'[i].name # Null /\ committed'[i] # Null /\ ~(slot'[i].n % 2 = 1)
               /\ slot'[i].len = Len(committed'[i])
               /\ \A c \in Cells : c < Len(committed'[i]) + 1 => slot'[i].value[c] = Cell(committed'[i], c)
               /\ \A k \in 1..count : slot'[k].name = slot'[i].name => k = i
    <3>1. CASE i = s
      BY <2>1, <2>2, <2>4, <2>6, <3>1 DEF EntriesInv, Copied
    <3>2. CASE i # s
      BY <2>4, <2>5, <3>2 DEF EntriesInv, Holds, Copied
    <3> QED  BY <3>1, <3>2
  <2> QED  BY <2>1, <2>3, <2>7 DEF EntriesInv, Holds, Copied, Cell, Writing
<1>5. CASE Fill
  <2>1. /\ Top.op = "fill" /\ Top'.op = "publish" /\ UNCHANGED <<count, committed>>
        /\ \A i \in Slots \ {count + 1} : slot'[i] = slot[i]
    BY <1>5, FillWrites
  <2>2. \A i \in 1..count : slot'[i] = slot[i]
    BY <1>n, <2>1
  <2>3. \A i : ~Writing(i) /\ ~Writing(i)'
    BY <2>1 DEF Writing
  <2> QED  BY <2>1, <2>2, <2>3 DEF EntriesInv, Holds, Copied, Cell, Writing
<1>6. CASE Publish
  <2> DEFINE s == count + 1
  <2>1. /\ Top.op = "publish" /\ Top.value \in Stored /\ Top'.op \notin {"memcpy", "clean"}
        /\ count' = count + 1
        /\ slot[s].name # Null /\ Found(slot[s].name) = {} /\ slot[s].n = 0 /\ Holds(s, Top.value)
        /\ committed'[s] = Top.value /\ \A i \in Slots \ {s} : committed'[i] = committed[i]
        /\ UNCHANGED slot
    BY <1>6, PublishWrites DEF Later, Bottom
  <2>2. \A i : ~Writing(i) /\ ~Writing(i)'
    BY <2>1 DEF Writing
  <2>3. \A i \in 1..count' : i = s \/ i \in 1..count
    BY <1>t, <2>1
  <2>4. \A i \in 1..count : slot[i].name # slot[s].name /\ committed'[i] = committed[i]
    BY <1>n, <2>1 DEF Found
  <2>5. Top.value # Null /\ ~(slot[s].n % 2 = 1)
    BY <2>1, Constants
  <2>6. ASSUME NEW i \in 1..count
        PROVE  /\ slot[i].name # Null /\ committed[i] # Null /\ ~(slot[i].n % 2 = 1) /\ Holds(i, committed[i])
               /\ \A k \in 1..count : slot[k].name = slot[i].name => k = i
    BY <2>2, <2>6 DEF EntriesInv
  <2>7. ASSUME NEW i \in 1..count'
        PROVE  /\ slot'[i].name # Null /\ committed'[i] # Null /\ ~(slot'[i].n % 2 = 1) /\ Holds(i, committed'[i])
               /\ \A k \in 1..count' : slot'[k].name = slot'[i].name => k = i
    <3>1. CASE i = s
      BY <2>1, <2>3, <2>4, <2>5, <3>1
    <3>2. CASE i # s
      BY <2>1, <2>3, <2>4, <2>6, <3>2
    <3> QED  BY <3>1, <3>2
  <2> QED  BY <2>1, <2>2, <2>7 DEF EntriesInv, Holds, Copied, Cell, Writing
<1>7. CASE UNCHANGED scenario /\ (property_changed \/ FileSteps \/ LoadingSteps \/ handle_property_set_fd)
  <2>1. UNCHANGED <<slot, count, committed>> /\ Top.op \in Quiet /\ Top'.op \in Quiet
    BY <1>7, QuietSteps
  <2> QED  BY <2>1, SameEntries DEF Quiet, Later, Bottom, Saves
<1>8. CASE UNCHANGED scenario /\ PowerLoss
  <2>1. count' = 0
    BY <1>8, PowerLossFacts
  <2> QED  BY <2>1 DEF EntriesInv
<1>9. CASE OtherSteps \/ ReaderSteps \/ UNCHANGED vars
  <2>1. UNCHANGED <<work, slot, count, committed>>
    BY <1>9 DEF OtherSteps, Connect, Hangup, WriteBack, ReaderSteps, Read, ReadSerial, CopyCell, Return, vars, tableVars
  <2> QED  BY <2>1 DEF EntriesInv, Top, Copied, Holds, Writing, Cell
<1> QED  BY <1>1, <1>2, <1>3, <1>4, <1>5, <1>6, <1>7, <1>8, <1>9, NextIs DEF TableWrites

-----------------------------------------------------------------------------
(* The reader. *)

\* While the counter is even, nothing that a reader has copied is stale.
LEMMA ReaderFacts ==
    ASSUME TypeInv, EntriesInv, ReaderInv, reader.at # "idle"
    PROVE  /\ reader.slot \in 1..count /\ reader.slot \in Slots /\ slot[reader.slot] \in Entry
           /\ slot[reader.slot].n \in 0..(SerialMod - 1)
           /\ reader.n \in 0..(SerialMod - 1) /\ reader.len \in Cells /\ reader.updates \in Nat
           /\ reader.copy \in Seq(Symbols) /\ Len(reader.copy) \in Nat /\ reader.seen \subseteq Value
           /\ committed[reader.slot] \in Stored /\ committed[reader.slot] \in reader.seen
           /\ slot[reader.slot].n % 2 = 0 => Holds(reader.slot, committed[reader.slot])
<1>1. reader \in Reading /\ slot \in [Slots -> Entry] /\ committed \in [Slots -> Stored \union {Null}]
  BY DEF TypeInv
<1>2. reader.slot \in 1..count /\ committed[reader.slot] \in reader.seen
  BY DEF ReaderInv
<1>3. reader.slot \in Slots
  BY <1>2, SlotNumbers
<1>4. slot[reader.slot] \in Entry /\ committed[reader.slot] \in Stored
  BY <1>1, <1>2, <1>3 DEF EntriesInv
<1>5. slot[reader.slot].n \in 0..(SerialMod - 1)
  BY <1>4 DEF Entry
<1>6. ASSUME slot[reader.slot].n % 2 = 0 PROVE Holds(reader.slot, committed[reader.slot])
  <2>1. ~(slot[reader.slot].n % 2 = 1)
    BY <1>6
  <2> QED  BY <1>2, <2>1 DEF EntriesInv
<1>7. /\ reader.n \in 0..(SerialMod - 1) /\ reader.len \in Cells /\ reader.updates \in Nat
      /\ reader.copy \in Seq(Symbols) /\ reader.seen \subseteq Value
  BY <1>1 DEF Reading
<1>8. Len(reader.copy) \in Nat
  BY <1>7
<1> QED  BY <1>2, <1>3, <1>4, <1>5, <1>6, <1>7, <1>8

\* The arithmetic of the counter.
LEMMA HalfSerial ==
    /\ 2 * (SerialMod \div 2) = SerialMod /\ SerialMod \div 2 \in Nat
    /\ \A u \in Nat : u < SerialMod \div 2 => 2 * u < SerialMod
BY PropertyAssumption

LEMMA WrappedEven ==
    ASSUME NEW r \in 0..(SerialMod - 1), r % 2 = 0, NEW k \in Nat, k < SerialMod \div 2
    PROVE  Wrapped(r + 2 * k) \in 0..(SerialMod - 1) /\ Wrapped(r + 2 * k) % 2 = 0
<1>1. 2 * k < SerialMod /\ SerialMod \in Nat /\ SerialMod % 2 = 0
  BY HalfSerial, PropertyAssumption
<1>2. PICK h \in Nat : r = 2 * h
  <2>1. r = 2 * (r \div 2) /\ r \div 2 \in Nat
    OBVIOUS
  <2> QED  BY <2>1
<1>3. PICK m \in Nat : SerialMod = 2 * m
  BY HalfSerial
<1>4. CASE r + 2 * k < SerialMod
  BY <1>1, <1>2, <1>4 DEF Wrapped
<1>5. CASE ~(r + 2 * k < SerialMod)
  <2>1. Wrapped(r + 2 * k) = 2 * (h + k - m) /\ h + k - m \in Nat
    BY <1>1, <1>2, <1>3, <1>5 DEF Wrapped
  <2>2. Wrapped(r + 2 * k) < SerialMod
    BY <1>1, <1>5 DEF Wrapped
  <2> QED  BY <1>1, <2>1, <2>2
<1> QED  BY <1>4, <1>5

LEMMA WrappedNext ==
    ASSUME NEW r \in 0..(SerialMod - 1), NEW k \in Nat, k + 1 < SerialMod \div 2,
           NEW n \in 0..(SerialMod - 1), n = Wrapped(r + 2 * k) + 1
    PROVE  (n + 1) % SerialMod = Wrapped(r + 2 * (k + 1))
<1>1. 2 * (k + 1) < SerialMod /\ SerialMod \in Nat /\ SerialMod > 2
  BY HalfSerial, PropertyAssumption
<1>2. CASE n + 1 < SerialMod
  <2>1. (n + 1) % SerialMod = n + 1
    BY <1>1, <1>2
  <2> QED  BY <1>1, <1>2, <2>1 DEF Wrapped
<1>3. CASE ~(n + 1 < SerialMod)
  <2>1. n + 1 = SerialMod
    BY <1>1, <1>3
  <2>2. (n + 1) % SerialMod = 0
    BY <1>1, <2>1
  <2> QED  BY <1>1, <2>1, <2>2 DEF Wrapped
<1> QED  BY <1>2, <1>3

\* Neither the reader nor what it reads changes.
LEMMA SameReader ==
    ASSUME UNCHANGED reader, ReaderInv, ReadWhole,
           reader.at # "idle" =>
              /\ reader.slot \in 1..count'
              /\ UNCHANGED <<slot[reader.slot], committed[reader.slot]>>
    PROVE  ReaderInv' /\ ReadWhole'
<1>1. ReadWhole'
  BY DEF ReadWhole
<1>2. ASSUME reader.at = "copy", reader.updates < SerialMod \div 2
      PROVE  \E k \in 0..reader.updates : Behind(k)'
  <2>1. PICK k \in 0..reader.updates : Behind(k)
    BY <1>2 DEF ReaderInv
  <2>2. Behind(k)'
    BY <1>2, <2>1 DEF Behind, Wrapped, Cell
  <2> QED  BY <2>2
<1>3. ReaderInv'
  BY <1>2 DEF ReaderInv
<1> QED  BY <1>1, <1>3

LEMMA ReaderMoves ==
    ASSUME TypeInv, EntriesInv, ReaderInv, ReadWhole, ReaderSteps
    PROVE  ReaderInv' /\ ReadWhole'
<1>1. UNCHANGED <<slot, count, committed>>
  BY DEF ReaderSteps, Read, ReadSerial, CopyCell, Return, tableVars
<1>2. CASE Return
  BY <1>2 DEF Return, NotReading, ReaderInv, ReadWhole
<1>3. CASE Read
  <2>1. PICK i \in 1..count :
          reader' = [NotReading EXCEPT !.at = "serial", !.slot = i, !.seen = {committed[i]}]
    BY <1>3 DEF Read
  <2>2. reader'.at = "serial" /\ reader'.slot = i /\ reader'.seen = {committed[i]}
    BY <2>1 DEF NotReading
  <2> QED  BY <1>1, <2>2 DEF ReaderInv, ReadWhole
<1>4. CASE ReadSerial
  <2>0. reader.at = "serial" /\ reader.at # "idle"
    BY <1>4 DEF ReadSerial
  <2> DEFINE s == reader.slot
  <2>1. /\ s \in 1..count /\ slot[s].n \in 0..(SerialMod - 1) /\ reader.updates \in Nat
        /\ committed[s] \in Stored /\ committed[s] \in reader.seen
        /\ slot[s].n % 2 = 0 => Holds(s, committed[s])
    BY <2>0, ReaderFacts
  <2>2. /\ reader'.at = "copy" /\ reader'.len = slot[s].len /\ reader'.n = slot[s].n
        /\ reader'.copy = <<>> /\ reader'.slot = s /\ reader'.seen = reader.seen
        /\ reader'.updates = reader.updates /\ slot[s].n % 2 = 0
    BY <1>4 DEF ReadSerial, TypeInv, Reading
  <2>3. Len(committed[s]) \in Nat /\ reader'.len = Len(committed[s])
    BY <2>1, <2>2, Constants DEF Holds
  <2>4. Len(reader'.copy) = 0
    BY <2>2
  <2>5. Wrapped(slot[s].n + 2 * 0) = slot[s].n
    BY <2>1, Constants DEF Wrapped
  <2>6. Behind(0)'
    BY <1>1, <2>2, <2>3, <2>4, <2>5 DEF Behind, Wrapped, Cell
  <2>7. 0 \in 0..reader'.updates
    BY <2>1, <2>2
  <2>8. \E k \in 0..reader'.updates : Behind(k)'
    BY <2>6, <2>7
  <2> QED  BY <1>1, <2>1, <2>2, <2>3, <2>4, <2>8 DEF ReaderInv, ReadWhole
<1>5. CASE CopyCell
  <2>0. reader.at = "copy" /\ reader.at # "idle"
    BY <1>5 DEF CopyCell
  <2> DEFINE s == reader.slot
             i == Len(reader.copy)
             v == committed[s]
  <2>1. /\ s \in 1..count /\ slot[s] \in Entry /\ slot[s].n \in 0..(SerialMod - 1)
        /\ reader.n \in 0..(SerialMod - 1) /\ reader.len \in Cells /\ reader.updates \in Nat
        /\ reader.copy \in Seq(Symbols) /\ i \in Nat
        /\ v \in Stored /\ v \in reader.seen
        /\ slot[s].n % 2 = 0 => Holds(s, v)
    BY <2>0, ReaderFacts
  <2>2. reader.n % 2 = 0 /\ i <= reader.len + 1 /\ reader.len \in Nat
    BY <2>0, <2>1 DEF ReaderInv, Cells
  <2>3. CASE i <= reader.len
    <3>1. i \in Cells
      BY <2>1, <2>3, Constants DEF Cells
    <3> DEFINE c == slot[s].value[i]
    <3>2. c \in Symbols
      BY <2>1, <3>1 DEF Entry
    <3>3. reader' = [reader EXCEPT !.copy = Append(@, c)]
      BY <1>5, <2>3 DEF CopyCell
    <3> HIDE DEF c
    <3>4. /\ reader'.at = "copy" /\ reader'.slot = s /\ reader'.len = reader.len /\ reader'.n = reader.n
          /\ reader'.seen = reader.seen /\ reader'.updates = reader.updates
          /\ reader'.copy = Append(reader.copy, c)
      BY <2>0, <3>3 DEF TypeInv, Reading
    <3>5. /\ Len(reader'.copy) = i + 1 /\ reader'.copy[i + 1] = c
          /\ \A j \in 1..i : reader'.copy[j] = reader.copy[j]
      BY <2>1, <3>2, <3>4
    <3>6. ASSUME reader.updates < SerialMod \div 2
          PROVE  \E k \in 0..reader'.updates : Behind(k)'
      <4>1. PICK k \in 0..reader.updates : Behind(k)
        BY <2>0, <3>6 DEF ReaderInv
      <4>2. ASSUME k = 0, slot[s].n = reader.n
            PROVE  /\ reader.len = Len(v)
                   /\ \A j \in 1..(i + 1) : reader'.copy[j] = Cell(v, j - 1)
        <5>1. reader.len = Len(v) /\ \A j \in 1..i : reader.copy[j] = Cell(v, j - 1)
          BY <4>1, <4>2 DEF Behind
        <5>2. Holds(s, v)
          BY <2>1, <2>2, <4>2
        <5>3. c = Cell(v, i)
          <6>1. i < Len(v) + 1
            BY <2>1, <2>2, <2>3, <5>1
          <6> QED  BY <3>1, <5>2, <6>1 DEF Holds, Copied, c
        <5>4. \A j \in 1..(i + 1) : j \in 1..i \/ (j = i + 1 /\ j - 1 = i)
          BY <2>1
        <5> QED  BY <3>5, <5>1, <5>3, <5>4
      <4>3. Behind(k)'
        BY <1>1, <3>4, <3>5, <4>1, <4>2 DEF Behind, Wrapped, Cell
      <4> QED  BY <3>4, <4>1, <4>3
    <3> QED  BY <1>1, <2>1, <2>2, <2>3, <3>4, <3>5, <3>6 DEF ReaderInv, ReadWhole
  <2>4. CASE ~(i <= reader.len)
    <3>1. i = reader.len + 1
      BY <2>1, <2>2, <2>4
    <3> DEFINE same == slot[s].n = reader.n /\ slot[s].len = reader.len
    <3>2. reader' = [reader EXCEPT !.at = IF same THEN "returned" ELSE "serial"]
      BY <1>5, <2>4 DEF CopyCell
    <3>3. /\ reader'.at = (IF same THEN "returned" ELSE "serial")
          /\ reader'.slot = s /\ reader'.len = reader.len /\ reader'.n = reader.n
          /\ reader'.seen = reader.seen /\ reader'.updates = reader.updates
          /\ reader'.copy = reader.copy
      BY <3>2 DEF TypeInv, Reading
    <3>4. ReaderInv'
      BY <1>1, <2>1, <2>2, <3>1, <3>3 DEF ReaderInv
    <3>5. ASSUME same, reader.updates < SerialMod \div 2
          PROVE  SubSeq(reader.copy, 1, reader.len) \in reader.seen /\ reader.copy[reader.len + 1] = Nul
      <4>1. PICK k \in 0..reader.updates : Behind(k)
        BY <2>0, <3>5 DEF ReaderInv
      <4>2. k \in Nat /\ k < SerialMod \div 2
        BY <2>1, <3>5, <4>1, HalfSerial
      <4>3. Wrapped(reader.n + 2 * k) \in 0..(SerialMod - 1) /\ Wrapped(reader.n + 2 * k) % 2 = 0
        BY <2>1, <2>2, <4>2, WrappedEven
      <4>4. reader.n = Wrapped(reader.n + 2 * k)
        <5>1. reader.n \in {Wrapped(reader.n + 2 * k), Wrapped(reader.n + 2 * k) + 1}
          BY <3>5, <4>1 DEF Behind
        <5> DEFINE n == Wrapped(reader.n + 2 * k)
        <5>2. n \in Nat /\ n % 2 = 0
          BY <4>3, Constants
        <5> HIDE DEF n
        <5>3. (n + 1) % 2 = 1
          BY <5>2
        <5> QED  BY <2>2, <5>1, <5>3 DEF n
      <4>5. k = 0
        <5>1. 2 * k < SerialMod /\ SerialMod \in Nat
          BY <4>2, HalfSerial, Constants
        <5> QED  BY <2>1, <4>2, <4>4, <5>1 DEF Wrapped
      <4>6. reader.len = Len(v) /\ \A j \in 1..i : reader.copy[j] = Cell(v, j - 1)
        BY <3>5, <4>1, <4>5 DEF Behind
      <4>7. v \in Seq(Characters) /\ Len(v) \in Nat
        BY <2>1, Constants
      <4>8. reader.copy[reader.len + 1] = Nul
        <5>1. reader.len + 1 \in 1..i /\ (reader.len + 1) - 1 = reader.len
          BY <2>2, <3>1
        <5>2. reader.copy[reader.len + 1] = Cell(v, reader.len)
          BY <4>6, <5>1
        <5> QED  BY <4>6, <4>7, <5>2 DEF Cell
      <4>9. SubSeq(reader.copy, 1, reader.len) = v
        <5> DEFINE w == SubSeq(reader.copy, 1, reader.len)
        <5>1. w \in Seq(Symbols) /\ Len(w) = reader.len /\ \A j \in 1..reader.len : w[j] = reader.copy[j]
          BY <2>1, <2>2, <3>1
        <5>2. \A j \in 1..reader.len : w[j] = v[j]
          <6> TAKE j \in 1..reader.len
          <6>1. j \in 1..i /\ j - 1 < Len(v) /\ (j - 1) + 1 = j
            BY <2>2, <3>1, <4>6, <4>7
          <6>2. reader.copy[j] = Cell(v, j - 1)
            BY <4>6, <6>1
          <6>3. Cell(v, j - 1) = v[j]
            BY <6>1 DEF Cell
          <6> QED  BY <5>1, <6>2, <6>3
        <5> HIDE DEF w
        <5>3. v \in Seq(Characters \union Symbols) /\ w \in Seq(Characters \union Symbols)
          BY <4>7, <5>1 DEF Symbols
        <5> QED  BY <4>6, <5>1, <5>2, <5>3, SeqEqual
      <4> QED  BY <2>1, <4>8, <4>9
    <3>6. ReadWhole'
      BY <3>3, <3>5 DEF ReadWhole
    <3> QED  BY <3>4, <3>6
  <2> QED  BY <2>1, <2>2, <2>3, <2>4
<1> QED  BY <1>2, <1>3, <1>4, <1>5 DEF ReaderSteps

LEMMA NextReader == TypeInv /\ WorkInv /\ HeadInv /\ EntriesInv /\ ReaderInv /\ ReadWhole /\ [Next]_vars
                        => ReaderInv' /\ ReadWhole'
<1> SUFFICES ASSUME TypeInv, WorkInv, HeadInv, EntriesInv, ReaderInv, ReadWhole, [Next]_vars
             PROVE  ReaderInv' /\ ReadWhole'
  OBVIOUS
<1>i. reader.at # "idle" => reader.slot \in 1..count /\ reader.slot \in Slots /\ reader.slot # count + 1
  BY ReaderFacts, SlotNumbers
<1>1. CASE UNCHANGED <<reader, slot, count, committed>>
  BY <1>i, <1>1, SameReader
<1>2. CASE UNCHANGED scenario /\ Set
  BY <1>1, <1>2, SetTable
<1>3. CASE Dirty
  <2> DEFINE s == Top.slot
  <2>1. /\ s \in 1..count /\ s \in Slots /\ UNCHANGED <<count, committed, reader>>
        /\ slot[s].n % 2 = 0 /\ slot'[s].n = slot[s].n + 1
        /\ \A i \in Slots \ {s} : slot'[i] = slot[i]
    BY <1>3, DirtyWrites
  <2>2. CASE reader.at # "idle" => reader.slot # s
    BY <1>i, <2>1, <2>2, SameReader
  <2>3. CASE reader.at # "idle" /\ reader.slot = s
    <3>1. ReadWhole'
      BY <2>1 DEF ReadWhole
    <3>2. ASSUME reader.at = "copy", reader.updates < SerialMod \div 2
          PROVE  \E k \in 0..reader.updates : Behind(k)'
      <4>1. PICK k \in 0..reader.updates : Behind(k)
        BY <3>2 DEF ReaderInv
      <4> DEFINE n == slot[s].n
                 w == Wrapped(reader.n + 2 * k)
      <4>2. /\ n \in 0..(SerialMod - 1) /\ reader.n \in 0..(SerialMod - 1) /\ reader.updates \in Nat
            /\ reader.n % 2 = 0
        BY <2>3, <3>2, ReaderFacts DEF ReaderInv
      <4>3. w \in 0..(SerialMod - 1) /\ w % 2 = 0
        <5>1. k \in Nat /\ k < SerialMod \div 2
          BY <3>2, <4>1, <4>2, HalfSerial
        <5> QED  BY <4>2, <5>1, WrappedEven
      <4>4. n \in {w, w + 1}
        BY <2>3, <4>1 DEF Behind
      <4>5. k = 0 => w = reader.n
        BY <4>2, Constants DEF Wrapped
      <4> HIDE DEF w, n
      <4>6. n \in Nat /\ w \in Nat /\ n % 2 = 0
        BY <2>1, <4>2, <4>3, Constants DEF n
      <4>7. (w + 1) % 2 = 1
        BY <4>3, <4>6
      <4>8. n = w
        BY <4>4, <4>6, <4>7
      <4>9. slot'[s].n = w + 1 /\ ~(k = 0 /\ slot'[s].n = reader.n)
        BY <2>1, <4>5, <4>6, <4>8 DEF n
      <4>10. Behind(k)'
        BY <2>1, <2>3, <4>9 DEF Behind, Wrapped, Cell, w
      <4> QED  BY <4>10
    <3>3. ReaderInv'
      BY <2>1, <3>2 DEF ReaderInv
    <3> QED  BY <3>1, <3>3
  <2> QED  BY <2>2, <2>3
<1>4. CASE Memcpy
  <2> DEFINE s == Top.slot
  <2>1. /\ Top.op = "memcpy" /\ s \in 1..count /\ s \in Slots /\ UNCHANGED <<count, committed, reader>>
        /\ slot'[s].n = slot[s].n
        /\ \A i \in Slots \ {s} : slot'[i] = slot[i]
    BY <1>4, MemcpyWrites
  <2>2. CASE reader.at # "idle" => reader.slot # s
    BY <1>i, <2>1, <2>2, SameReader
  <2>3. CASE reader.at # "idle" /\ reader.slot = s
    <3>1. ReadWhole'
      BY <2>1 DEF ReadWhole
    <3>2. slot[s].n % 2 = 1
      BY <2>1 DEF EntriesInv, Writing
    <3>3. ASSUME reader.at = "copy", reader.updates < SerialMod \div 2
          PROVE  \E k \in 0..reader.updates : Behind(k)'
      <4>1. PICK k \in 0..reader.updates : Behind(k)
        BY <3>3 DEF ReaderInv
      <4>2. slot'[s].n # reader.n
        BY <2>1, <3>2, <3>3 DEF ReaderInv
      <4>3. Behind(k)'
        BY <2>1, <2>3, <4>1, <4>2 DEF Behind, Wrapped, Cell
      <4> QED  BY <4>3
    <3>4. ReaderInv'
      BY <2>1, <3>3 DEF ReaderInv
    <3> QED  BY <3>1, <3>4
  <2> QED  BY <2>2, <2>3
<1>5. CASE Clean
  <2> DEFINE s == Top.slot
             v == Top.value
  <2>1. /\ s \in 1..count /\ s \in Slots /\ v \in Stored /\ count' = count
        /\ committed'[s] = v /\ \A i \in Slots \ {s} : committed'[i] = committed[i]
        /\ reader' = IF reader.slot = s /\ reader.at # "idle"
                     THEN [reader EXCEPT !.seen = @ \union {v}, !.updates = @ + 1]
                     ELSE reader
        /\ slot[s].n % 2 = 1 /\ slot'[s].n = (slot[s].n + 1) % SerialMod
        /\ \A i \in Slots \ {s} : slot'[i] = slot[i]
    BY <1>5, CleanWrites
  <2>2. CASE reader.at # "idle" => reader.slot # s
    <3>1. reader' = reader
      BY <2>1, <2>2
    <3> QED  BY <1>i, <2>1, <2>2, <3>1, SameReader
  <2>3. CASE reader.at # "idle" /\ reader.slot = s
    <3>1. /\ reader'.at = reader.at /\ reader'.slot = reader.slot /\ reader'.len = reader.len
          /\ reader'.n = reader.n /\ reader'.copy = reader.copy
          /\ reader'.seen = reader.seen \union {v} /\ reader'.updates = reader.updates + 1
      BY <2>1, <2>3 DEF TypeInv, Reading
    <3>2. reader.updates \in Nat /\ slot[s].n \in 0..(SerialMod - 1) /\ reader.n \in 0..(SerialMod - 1)
      BY <2>3, ReaderFacts
    <3>3. reader'.updates < SerialMod \div 2 => reader.updates < SerialMod \div 2
      BY <3>1, <3>2, HalfSerial
    <3>4. ReadWhole'
      BY <3>1, <3>3 DEF ReadWhole
    <3>5. ASSUME reader.at = "copy", reader'.updates < SerialMod \div 2
          PROVE  \E k \in 0..reader'.updates : Behind(k)'
      <4>1. PICK k \in 0..reader.updates : Behind(k)
        BY <3>3, <3>5 DEF ReaderInv
      <4>2. reader.n % 2 = 0 /\ k \in Nat /\ k + 1 \in 0..reader'.updates /\ k + 1 < SerialMod \div 2
            /\ k < SerialMod \div 2
        BY <3>1, <3>2, <3>5, <4>1, HalfSerial DEF ReaderInv
      <4> DEFINE n == slot[s].n
                 w == Wrapped(reader.n + 2 * k)
      <4>3. w \in 0..(SerialMod - 1) /\ w % 2 = 0
        BY <3>2, <4>2, WrappedEven
      <4>4. n \in {w, w + 1}
        BY <2>3, <4>1 DEF Behind
      <4>5. n = w + 1
        BY <2>1, <4>3, <4>4
      <4>6. (n + 1) % SerialMod = Wrapped(reader.n + 2 * (k + 1))
        BY <3>2, <4>2, <4>5, WrappedNext
      <4>7. slot'[s].n = Wrapped(reader.n + 2 * (k + 1))
        BY <2>1, <4>6
      <4>8. ~(k + 1 = 0)
        BY <4>2
      <4> DEFINE m == k + 1
      <4>9. slot'[s].n = Wrapped(reader.n + 2 * m) /\ m # 0 /\ m \in 0..reader'.updates
        BY <4>2, <4>7, <4>8
      <4> HIDE DEF m, n, w
      <4>10. Behind(m)'
        BY <2>3, <3>1, <4>9 DEF Behind, Wrapped
      <4> QED  BY <4>9, <4>10
    <3>6. ReaderInv'
      BY <2>1, <2>3, <3>1, <3>5 DEF ReaderInv
    <3> QED  BY <3>4, <3>6
  <2> QED  BY <2>2, <2>3
<1>6. CASE Fill
  <2>1. UNCHANGED <<count, committed, reader>> /\ \A i \in Slots \ {count + 1} : slot'[i] = slot[i]
    BY <1>6, FillWrites
  <2> QED  BY <1>i, <2>1, SameReader
<1>7. CASE Publish
  <2>1. /\ UNCHANGED <<slot, reader>> /\ \A i \in Slots \ {count + 1} : committed'[i] = committed[i]
        /\ count' = count + 1 /\ count \in Nat
    BY <1>7, PublishWrites, Constants DEF TypeInv
  <2>2. reader.at # "idle" => reader.slot \in 1..count'
    BY <1>i, <2>1
  <2> QED  BY <1>i, <2>1, <2>2, SameReader
<1>8. CASE UNCHANGED scenario /\ (property_changed \/ FileSteps \/ LoadingSteps \/ handle_property_set_fd)
  BY <1>1, <1>8, QuietSteps
<1>9. CASE UNCHANGED scenario /\ PowerLoss
  <2>1. reader' = NotReading
    BY <1>9, PowerLossFacts
  <2> QED  BY <2>1 DEF NotReading, ReaderInv, ReadWhole
<1>10. CASE ReaderSteps
  BY <1>10, ReaderMoves
<1>11. CASE OtherSteps \/ UNCHANGED vars
  <2>1. UNCHANGED <<reader, slot, count, committed>>
    BY <1>11 DEF OtherSteps, Connect, Hangup, WriteBack, vars, tableVars, readerVars
  <2> QED  BY <1>1, <2>1
<1> QED  BY <1>2, <1>3, <1>4, <1>5, <1>6, <1>7, <1>8, <1>9, <1>10, <1>11, NextIs DEF TableWrites

\* TableInv is an invariant: of init's stack of instructions, the entries it
\* writes in update_prop_info and add_prop_info, and a reader between any two
\* of them.
THEOREM TableInvariant == Spec => []TableInv
<1>1. Init => TableInv
  BY InitTable DEF TableInv, Init, NotReading, ReadWhole
<1>2. TableInv /\ [Next]_vars => TableInv'
  BY NextType, NextWork, NextHead, NextEntries, NextReader DEF TableInv
<1> QED  BY <1>1, <1>2, PTL DEF Spec

\* A process that reads the shared table while init writes it reads a value
\* that init has set, whole, and finds finished entries only: for every size of
\* the table and of the values, and every counter.
THEOREM TableIsWhole == Spec => []TableWhole
<1>1. TableInv => TableWhole
  <2> SUFFICES ASSUME TableInv PROVE TypeOK /\ ReadWhole /\ EntriesFinished
    BY DEF TableWhole
  <2>1. TypeInv /\ EntriesInv /\ ReadWhole
    BY DEF TableInv
  <2>2. EntriesFinished
    BY <2>1 DEF EntriesInv, EntriesFinished
  <2>3. \A i \in Slots : /\ slot[i].name \in PropertyNames \union {Null}
                         /\ slot[i].len \in Cells /\ slot[i].n \in 0..(SerialMod - 1)
    BY <2>1 DEF TypeInv, Entry
  <2>4. TypeOK
    BY <2>1, <2>3 DEF TypeInv, TypeOK, Disk, Reading
  <2> QED  BY <2>1, <2>2, <2>4
<1> QED  BY <1>1, TableInvariant, PTL

-----------------------------------------------------------------------------
(* The values. *)

\* How many instructions are left while the table is written.
LEMMA Depth ==
    ASSUME NEW w, Stack(w)
    PROVE  /\ w[1].op = "dirty" => /\ Len(w) > 3 /\ w[2].op = "memcpy" /\ w[2].slot = w[1].slot
                                   /\ w[3].op = "clean"
           /\ w[1].op = "memcpy" => Len(w) > 2 /\ w[2].op = "clean"
           /\ w[1].op = "clean" => Len(w) > 1
           /\ w[1].op = "fill" => Len(w) > 2 /\ w[2].op = "publish"
           /\ w[1].op = "publish" => Len(w) > 1
           /\ Len(w) \in Nat \ {0}
<1>1. Len(w) \in Nat \ {0} /\ w[Len(w)].op \in Bottom
  BY DEF Stack
<1>2. ASSUME NEW i \in 1..Len(w), w[i].op \notin Bottom
      PROVE  i < Len(w) /\ Needs(w[i], w[i + 1])
  <2>1. i # Len(w)
    BY <1>1, <1>2
  <2>2. i \in 1..(Len(w) - 1)
    BY <1>1, <2>1
  <2> QED  BY <1>1, <2>2 DEF Stack
<1>3. {"dirty", "memcpy", "clean", "fill", "publish"} \intersect Bottom = {}
  BY DEF Bottom
<1>4. w[1].op \in {"dirty", "memcpy", "clean", "fill", "publish"} => 1 < Len(w) /\ Needs(w[1], w[2])
  <2>1. 1 \in 1..Len(w)
    BY <1>1
  <2>2. w[1].op \in {"dirty", "memcpy", "clean", "fill", "publish"} => 1 < Len(w) /\ Needs(w[1], w[1 + 1])
    BY <1>2, <1>3, <2>1
  <2> QED  BY <2>2
<1>5. 1 < Len(w) /\ w[2].op \in {"memcpy", "clean", "publish"} => 2 < Len(w) /\ Needs(w[2], w[3])
  <2>1. 1 < Len(w) => 2 \in 1..Len(w)
    BY <1>1
  <2>2. 1 < Len(w) /\ w[2].op \in {"memcpy", "clean", "publish"} => 2 < Len(w) /\ Needs(w[2], w[2 + 1])
    BY <1>2, <1>3, <2>1
  <2> QED  BY <2>2
<1>6. 2 < Len(w) /\ w[3].op = "clean" => 3 < Len(w)
  <2>1. 2 < Len(w) => 3 \in 1..Len(w)
    BY <1>1
  <2> QED  BY <1>2, <1>3, <2>1
<1>7. CASE w[1].op = "dirty"
  <2>1. w[2].op = "memcpy" /\ w[2].slot = w[1].slot /\ 1 < Len(w)
    BY <1>4, <1>7 DEF Needs
  <2>2. w[3].op = "clean" /\ 2 < Len(w)
    BY <1>5, <2>1 DEF Needs
  <2> QED  BY <1>1, <1>6, <1>7, <2>1, <2>2
<1>8. CASE w[1].op = "memcpy"
  BY <1>1, <1>4, <1>5, <1>8 DEF Needs
<1>9. CASE w[1].op = "fill"
  BY <1>1, <1>4, <1>5, <1>9 DEF Needs
<1>10. CASE w[1].op \in {"clean", "publish"}
  BY <1>1, <1>4, <1>10
<1> QED  BY <1>1, <1>7, <1>8, <1>9, <1>10

\* While init is at something else, a property has the value its entry has.
LEMMA NotWritten ==
    ASSUME Top.op \notin {"dirty", "memcpy", "clean", "fill", "publish"}
    PROVE  /\ Then = Top
           /\ \A name : ~BeingWritten(name) /\ (Present(name) <=> Found(name) # {})
           /\ \A name, value :
                Has(name, value) <=> \E i \in 1..count : slot[i].name = name /\ committed[i] = value
<1>1. \A name : ~BeingWritten(name)
  BY DEF BeingWritten
<1>2. Then = Top
  BY DEF Then, Top
<1> QED  BY <1>1, <1>2 DEF Present, Has

LEMMA Keeps ==
    ASSUME UNCHANGED <<slot, count, committed>>,
           Top.op \in Quiet, Top'.op \in Quiet
    PROVE  /\ Then = Top /\ Then' = Top'
           /\ \A name : Present(name)' <=> Present(name)
           /\ \A name, value : Has(name, value)' <=> Has(name, value)
<1>1. /\ Top.op \notin {"dirty", "memcpy", "clean", "fill", "publish"}
      /\ Top'.op \notin {"dirty", "memcpy", "clean", "fill", "publish"}
  BY DEF Quiet, Later, Bottom, Saves
<1>2. Then = Top /\ Then' = Top'
  BY <1>1 DEF Then, Top
<1>3. \A name : ~BeingWritten(name) /\ ~BeingWritten(name)'
  BY <1>1 DEF BeingWritten
<1>4. \A name : Present(name)' <=> Present(name)
  BY <1>3 DEF Present, Found, BeingWritten
<1>5. \A name, value : Has(name, value)' <=> Has(name, value)
  BY <1>3 DEF Has, BeingWritten
<1> QED  BY <1>2, <1>4, <1>5

\* The steps that write the table change no value.
LEMMA WritesKeepEach ==
    ASSUME TypeInv, HeadInv, EntriesInv, TableWrites
    PROVE  /\ Then' = Then /\ Top.op # "set" /\ Top'.op # "rename"
           /\ count = PA_COUNT_MAX => count' = PA_COUNT_MAX
           /\ \A name \in PropertyNames : Present(name)' <=> Present(name)
           /\ \A name \in PropertyNames : \A value : Has(name, value)' <=> Has(name, value)
<1>s. Stack(work) /\ count \in Nat
  BY Constants DEF TypeInv
<1>n. \A i \in 1..count : i \in Slots /\ i # count + 1 /\ i \in Nat
  BY SlotNumbers
<1>1. CASE Dirty
  <2>1. /\ Top.op = "dirty" /\ Top.slot \in 1..count /\ Top.slot \in Slots
        /\ Top'.op = "memcpy" /\ Top'.slot = Top.slot
        /\ UNCHANGED <<count, committed>> /\ slot'[Top.slot].name = slot[Top.slot].name
        /\ \A i \in Slots \ {Top.slot} : slot'[i] = slot[i]
    BY <1>1, DirtyWrites
  <2>2. Len(work) \in Nat /\ Len(work) > 3
    BY <1>s, <2>1, Depth DEF Top
  <2>3. work'[1] = work[2] /\ work'[3] = work[4]
    <3>1. \A i \in 1..(Len(work) - 1) : work'[i] = work[i + 1]
      BY <1>s, <1>1, TableSteps DEF PoppedTo
    <3>2. 1 \in 1..(Len(work) - 1) /\ 3 \in 1..(Len(work) - 1)
      BY <2>2
    <3>3. work'[1] = work[1 + 1] /\ work'[3] = work[3 + 1]
      BY <3>1, <3>2
    <3> QED  BY <3>3
  <2>4. Then' = Then
    BY <2>1, <2>3 DEF Then, Top
  <2>5. \A i \in 1..count : slot'[i].name = slot[i].name
    BY <1>n, <2>1
  <2>6. \A name : (BeingWritten(name) <=> slot[Top.slot].name = name)
                  /\ (BeingWritten(name)' <=> slot[Top.slot].name = name)
    BY <2>1 DEF BeingWritten
  <2>7. \A name : Present(name)' <=> Present(name)
    BY <2>1, <2>5, <2>6 DEF Present, Found, BeingWritten
  <2>8. \A name, value : Has(name, value)' <=> Has(name, value)
    <3>1. Top'.value = work[2].value
      BY <2>3 DEF Top
    <3> QED  BY <2>1, <2>5, <2>6, <3>1 DEF Has, BeingWritten
  <2> QED  BY <2>1, <2>4, <2>7, <2>8
<1>2. CASE Memcpy
  <2>1. /\ Top.op = "memcpy" /\ Top.slot \in 1..count /\ Top.slot \in Slots
        /\ Top'.op \in {"memcpy", "clean"} /\ Top'.slot = Top.slot /\ Top'.value = Top.value
        /\ UNCHANGED <<count, committed>> /\ slot'[Top.slot].name = slot[Top.slot].name
        /\ \A i \in Slots \ {Top.slot} : slot'[i] = slot[i]
    BY <1>2, MemcpyWrites
  <2>2. Len(work) \in Nat /\ Len(work) > 2
    BY <1>s, <2>1, Depth DEF Top
  <2>3. Then' = Then
    <3>1. CASE Top.i < Len(Top.value)
      <4>1. /\ Top' \in [op : {"memcpy"}, slot : Slots, value : Stored, i : Cells]
            /\ \A i \in 2..Len(work) : work'[i] = work[i]
        BY <1>s, <1>2, <3>1, MemcpyStep
      <4>2. Top'.op = "memcpy" /\ work'[3] = work[3]
        BY <2>2, <4>1
      <4> QED  BY <2>1, <4>2 DEF Then, Top
    <3>2. CASE ~(Top.i < Len(Top.value))
      <4>1. PoppedTo /\ Top'.op = "clean"
        BY <1>s, <1>2, <3>2, MemcpyStep
      <4>2. 2 \in 1..(Len(work) - 1)
        BY <2>2
      <4>3. work'[2] = work[2 + 1]
        BY <4>1, <4>2 DEF PoppedTo
      <4>4. work'[2] = work[3]
        BY <4>3
      <4> QED  BY <2>1, <4>1, <4>4 DEF Then, Top
    <3> QED  BY <3>1, <3>2
  <2>4. \A i \in 1..count : slot'[i].name = slot[i].name
    BY <1>n, <2>1
  <2>5. \A name : (BeingWritten(name) <=> slot[Top.slot].name = name)
                  /\ (BeingWritten(name)' <=> slot[Top.slot].name = name)
    BY <2>1 DEF BeingWritten
  <2>6. \A name : Present(name)' <=> Present(name)
    BY <2>1, <2>4, <2>5 DEF Present, Found, BeingWritten
  <2>7. \A name, value : Has(name, value)' <=> Has(name, value)
    BY <2>1, <2>4, <2>5 DEF Has, BeingWritten
  <2> QED  BY <2>1, <2>3, <2>6, <2>7
<1>3. CASE Clean
  <2> DEFINE s == Top.slot
  <2>1. /\ Top.op = "clean" /\ s \in 1..count /\ s \in Slots
        /\ Top'.op \in {"saveTemp"} \union Later
        /\ count' = count /\ committed'[s] = Top.value
        /\ \A i \in Slots \ {s} : committed'[i] = committed[i]
        /\ slot'[s].name = slot[s].name
        /\ \A i \in Slots \ {s} : slot'[i] = slot[i]
    BY <1>3, CleanWrites
  <2>2. Len(work) \in Nat /\ Len(work) > 1
    BY <1>s, <2>1, Depth DEF Top
  <2>3. Then' = Then
    <3>1. \A i \in 1..(Len(work) - 1) : work'[i] = work[i + 1]
      BY <1>s, <1>3, TableSteps DEF PoppedTo
    <3>2. 1 \in 1..(Len(work) - 1)
      BY <2>2
    <3>3. work'[1] = work[1 + 1]
      BY <3>1, <3>2
    <3>4. work'[1] = work[2]
      BY <3>3
    <3> QED  BY <2>1, <3>4 DEF Then, Top, Later, Bottom
  <2>4. \A i \in 1..count : slot'[i].name = slot[i].name
    BY <1>n, <2>1
  <2>5. \A name : (BeingWritten(name) <=> slot[s].name = name) /\ ~BeingWritten(name)'
    BY <2>1 DEF BeingWritten, Later, Bottom
  <2>6. \A name : Present(name)' <=> Present(name)
    BY <2>1, <2>4, <2>5 DEF Present, Found, BeingWritten
  <2>7. \A i \in 1..count : slot[i].name = slot[s].name => i = s
    BY <2>1 DEF EntriesInv
  <2>8. \A i \in 1..count : i # s => committed'[i] = committed[i]
    BY <1>n, <2>1
  <2>9. ASSUME NEW name, NEW value PROVE Has(name, value)' <=> Has(name, value)
    <3>1. CASE slot[s].name = name
      BY <2>1, <2>4, <2>5, <2>7, <3>1 DEF Has, BeingWritten
    <3>2. CASE slot[s].name # name
      BY <2>1, <2>4, <2>5, <2>8, <3>2 DEF Has, BeingWritten
    <3> QED  BY <3>1, <3>2
  <2> QED  BY <2>1, <2>3, <2>6, <2>9 DEF Later, Bottom
<1>4. CASE Fill
  <2>1. /\ Top.op = "fill" /\ Top.name \in PropertyNames /\ Found(Top.name) = {} /\ count + 1 \in Slots
        /\ Top'.op = "publish" /\ Top'.value = Top.value
        /\ UNCHANGED <<count, committed>>
        /\ slot'[count + 1].name = Top.name
        /\ \A i \in Slots \ {count + 1} : slot'[i] = slot[i]
    BY <1>4, FillWrites
  <2>2. Len(work) \in Nat /\ Len(work) > 2
    BY <1>s, <2>1, Depth DEF Top
  <2>3. Then' = Then
    <3>1. \A i \in 1..(Len(work) - 1) : work'[i] = work[i + 1]
      BY <1>s, <1>4, TableSteps DEF PoppedTo
    <3>2. 2 \in 1..(Len(work) - 1)
      BY <2>2
    <3>3. work'[2] = work[2 + 1]
      BY <3>1, <3>2
    <3>4. work'[2] = work[3]
      BY <3>3
    <3> QED  BY <2>1, <3>4 DEF Then, Top
  <2>4. \A i \in 1..count : slot'[i] = slot[i]
    BY <1>n, <2>1
  <2>5. \A name : (BeingWritten(name) <=> Top.name = name) /\ (BeingWritten(name)' <=> Top.name = name)
    BY <2>1 DEF BeingWritten
  <2>6. \A name : Present(name)' <=> Present(name)
    BY <2>1, <2>4, <2>5 DEF Present, Found, BeingWritten
  <2>7. \A name, value : Has(name, value)' <=> Has(name, value)
    BY <2>1, <2>4, <2>5 DEF Has, BeingWritten
  <2> QED  BY <2>1, <2>3, <2>6, <2>7
<1>5. CASE Publish
  <2> DEFINE s == count + 1
  <2>1. /\ Top.op = "publish" /\ Top'.op \in {"saveTemp"} \union Later
        /\ s \in Slots /\ count' = count + 1
        /\ Found(slot[s].name) = {}
        /\ committed'[s] = Top.value
        /\ \A i \in Slots \ {s} : committed'[i] = committed[i]
        /\ UNCHANGED slot /\ count < PA_COUNT_MAX
    BY <1>5, PublishWrites
  <2>2. Len(work) \in Nat /\ Len(work) > 1
    BY <1>s, <2>1, Depth DEF Top
  <2>3. Then' = Then
    <3>1. \A i \in 1..(Len(work) - 1) : work'[i] = work[i + 1]
      BY <1>s, <1>5, TableSteps DEF PoppedTo
    <3>2. 1 \in 1..(Len(work) - 1)
      BY <2>2
    <3>3. work'[1] = work[1 + 1]
      BY <3>1, <3>2
    <3>4. work'[1] = work[2]
      BY <3>3
    <3> QED  BY <2>1, <3>4 DEF Then, Top, Later, Bottom
  <2>4. \A i : i \in 1..count' <=> i \in 1..count \/ i = s
    BY <1>s, <2>1
  <2>5. \A name : (BeingWritten(name) <=> slot[s].name = name) /\ ~BeingWritten(name)'
    BY <2>1 DEF BeingWritten, Later, Bottom
  <2>6. ASSUME NEW name PROVE Present(name)' <=> Present(name)
    <3>1. Present(name)' <=> \E i \in 1..count' : slot[i].name = name
      BY <2>1, <2>5 DEF Present, Found, BeingWritten
    <3>2. Present(name) <=> slot[s].name = name \/ \E i \in 1..count : slot[i].name = name
      BY <2>5 DEF Present, Found
    <3> QED  BY <2>4, <3>1, <3>2
  <2>7. \A i \in 1..count : slot[i].name # slot[s].name /\ committed'[i] = committed[i]
    BY <1>n, <2>1 DEF Found
  <2>8. ASSUME NEW name, NEW value PROVE Has(name, value)' <=> Has(name, value)
    <3>1. Has(name, value)' <=> \E i \in 1..count' : slot[i].name = name /\ committed'[i] = value
      BY <2>1, <2>5 DEF Has, BeingWritten
    <3>2. CASE slot[s].name = name
      BY <2>1, <2>4, <2>5, <2>7, <3>1, <3>2 DEF Has
    <3>3. CASE slot[s].name # name
      BY <2>1, <2>4, <2>5, <2>7, <3>1, <3>3 DEF Has
    <3> QED  BY <3>2, <3>3
  <2>9. count # PA_COUNT_MAX
    BY <1>s, <2>1, Constants
  <2> QED  BY <2>1, <2>3, <2>6, <2>8, <2>9 DEF Later, Bottom
<1> QED  BY <1>1, <1>2, <1>3, <1>4, <1>5 DEF TableWrites

LEMMA WritesKeep ==
    ASSUME TypeInv, HeadInv, EntriesInv, TableWrites
    PROVE  /\ Then' = Then /\ Top.op # "set" /\ Top'.op # "rename"
           /\ \A name \in PropertyNames : Present(name)' <=> Present(name)
           /\ \A name \in PropertyNames : NoRoom(name) => NoRoom(name)'
           /\ \A name \in PropertyNames : \A value : Has(name, value)' <=> Has(name, value)
BY WritesKeepEach DEF NoRoom, Present, Found, BeingWritten

\* What a value that is not refused replaces, and what it leaves alone.
LEMMA SetValues ==
    ASSUME TypeInv, EntriesInv, Set
    PROVE  /\ Then = Top /\ Top.op = "set"
           /\ Refused(Top.name, Top.value) =>
                /\ Then' = Top' /\ Top'.op \in Later
                /\ \A name : Present(name)' <=> Present(name)
                /\ \A name, value : Has(name, value)' <=> Has(name, value)
           /\ ~Refused(Top.name, Top.value) =>
                /\ \A name, value : name = Top.name /\ value = Top.value => Has(name, value)'
                /\ \A name : name # Top.name => (Present(name)' <=> Present(name))
                /\ \A name, value : name # Top.name => (Has(name, value)' <=> Has(name, value))
<1>1. UNCHANGED <<slot, count, committed>> /\ Top.op = "set"
  BY SetTable
<1>2. /\ Then = Top
      /\ \A name : ~BeingWritten(name) /\ (Present(name) <=> Found(name) # {})
      /\ \A name, value :
            Has(name, value) <=> \E i \in 1..count : slot[i].name = name /\ committed[i] = value
  BY <1>1, NotWritten
<1>3. CASE Refused(Top.name, Top.value)
  <2>1. Top'.op \in Later
    BY <1>3, SetStep
  <2>2. Top.op \in Quiet /\ Top'.op \in Quiet
    BY <1>1, <2>1 DEF Quiet, Later
  <2> QED  BY <1>1, <1>2, <1>3, <2>1, <2>2, Keeps
<1>4. CASE ~Refused(Top.name, Top.value)
  <2>1. CASE Found(Top.name) # {}
    <3>1. Top'.op = "dirty" /\ Top'.slot \in Found(Top.name) /\ work'[2].value = Top.value
      BY <1>4, <2>1, SetStep
    <3>2. slot[Top'.slot].name = Top.name
      BY <3>1 DEF Found
    <3>3. \A name : BeingWritten(name)' <=> name = Top.name
      BY <1>1, <3>1, <3>2 DEF BeingWritten
    <3>4. \A name : name # Top.name => (Present(name)' <=> Present(name))
      BY <1>1, <1>2, <3>3 DEF Present, Found, BeingWritten
    <3>5. \A name, value : name # Top.name => (Has(name, value)' <=> Has(name, value))
      BY <1>1, <1>2, <3>3 DEF Has, BeingWritten
    <3>6. \A name, value : name = Top.name /\ value = Top.value => Has(name, value)'
      BY <1>1, <3>1, <3>3 DEF Has, BeingWritten
    <3> QED  BY <1>1, <1>2, <1>4, <3>4, <3>5, <3>6
  <2>2. CASE Found(Top.name) = {}
    <3>1. Top'.op = "fill" /\ Top'.name = Top.name /\ Top'.value = Top.value
      BY <1>4, <2>2, SetStep
    <3>2. \A name : BeingWritten(name)' <=> name = Top.name
      BY <3>1 DEF BeingWritten
    <3>3. \A name : name # Top.name => (Present(name)' <=> Present(name))
      BY <1>1, <1>2, <3>2 DEF Present, Found, BeingWritten
    <3>4. \A name, value : name # Top.name => (Has(name, value)' <=> Has(name, value))
      BY <1>1, <1>2, <3>2 DEF Has, BeingWritten
    <3>5. \A name, value : name = Top.name /\ value = Top.value => Has(name, value)'
      BY <3>1, <3>2 DEF Has, BeingWritten
    <3> QED  BY <1>1, <1>2, <1>4, <3>3, <3>4, <3>5
  <2> QED  BY <2>1, <2>2
<1> QED  BY <1>3, <1>4

\* The other steps of init.
LEMMA QuietValues ==
    ASSUME TypeInv, WorkInv, HeadInv, scenario' = scenario,
           property_changed \/ FileSteps \/ LoadingSteps \/ handle_property_set_fd
    PROVE  /\ Then = Top /\ Then' = Top' /\ Top.op # "set" /\ UNCHANGED <<count, lastNet, wanted, had>>
           /\ \A name : Present(name)' <=> Present(name)
           /\ \A name, value : Has(name, value)' <=> Has(name, value)
           /\ \/ FileSteps
              \/ /\ Top.op \notin Saves /\ Top'.op \in Later
                 /\ missed \subseteq missed' /\ UNCHANGED <<files, temp, disk, cut>>
           /\ \A f : f \in missed /\ ~Saving(f) => f \in missed' /\ ~Saving(f)'
<1>1. Stack(work) /\ backlog \in Seq(Request) /\ Disk(files) /\ faults \in Nat
  BY Constants DEF TypeInv
<1>2. UNCHANGED <<slot, count, committed>> /\ Top.op \in Quiet /\ Top'.op \in Quiet
  BY QuietSteps
<1>3. /\ Then = Top /\ Then' = Top'
      /\ \A name : Present(name)' <=> Present(name)
      /\ \A name, value : Has(name, value)' <=> Has(name, value)
  BY <1>2, Keeps
<1>4. UNCHANGED <<count, lastNet, wanted, had>>
  BY DEF property_changed, FileSteps, OpenTemp, WriteTemp, Rename, LoadingSteps, Opendir, Readdir, Loaded,
         handle_property_set_fd, UnchangedButDisk, tableVars, diskVars, serviceVars
<1>5. ASSUME Top.op \notin Saves, Top'.op \in Later, missed \subseteq missed'
      PROVE  \A f : f \in missed /\ ~Saving(f) => f \in missed' /\ ~Saving(f)'
  BY <1>3, <1>5 DEF Saving, Saves, Later, Bottom
<1>6. CASE property_changed
  <2>1. Top.op = "property_changed" /\ Top'.op \in Later
    BY <1>1, <1>6, TableSteps
  <2>2. UNCHANGED <<files, temp, disk, cut, missed>>
    BY <1>6 DEF property_changed, diskVars
  <2>3. Top.op \notin Saves
    BY <2>1 DEF Saves
  <2> QED  BY <1>3, <1>4, <1>5, <2>1, <2>2, <2>3
<1>7. CASE FileSteps
  <2>1. Top.op \in Saves
    BY <1>7, SaveType DEF FileSteps
  <2>2. Top.op # "set"
    BY <2>1 DEF Saves
  <2>3. ASSUME NEW f, f \in missed, ~Saving(f)
        PROVE  f \in missed' /\ ~Saving(f)'
    <3>1. f # Top.name
      BY <1>3, <2>1, <2>3 DEF Saving
    <3>2. f \in missed'
      BY <1>7, <2>3, <3>1, SaveFiles DEF FileSteps
    <3>3. Top'.op \in Later \/ Top'.name = Top.name
      BY <1>1, <1>7, SaveSteps DEF FileSteps, ReplacedBy
    <3> QED  BY <1>3, <3>1, <3>2, <3>3 DEF Saving, Saves, Later, Bottom
  <2> QED  BY <1>3, <1>4, <1>7, <2>2, <2>3
<1>8. CASE LoadingSteps
  <2>1. /\ Top'.op \in Later /\ Top.op \in Bottom
        /\ missed \subseteq missed' /\ UNCHANGED <<files, temp, disk, cut>>
    BY <1>8, LoadingType
  <2>2. Top.op \notin Saves /\ Top.op # "set"
    BY <2>1 DEF Saves, Bottom
  <2> QED  BY <1>3, <1>4, <1>5, <2>1, <2>2
<1>9. CASE handle_property_set_fd
  <2>1. Top.op = "poll" /\ Top.op \notin Saves
    BY <1>1, <1>9, RequestStep DEF Saves
  <2>2. Top'.op \in Later
    <3>1. CASE work' = work
      BY <2>1, <3>1 DEF Top, Later, Bottom
    <3>2. CASE work' # work
      BY <1>1, <1>9, <3>2, RequestStep DEF Later
    <3> QED  BY <3>1, <3>2
  <2>3. UNCHANGED <<files, temp, disk, cut, missed>>
    BY <1>9 DEF handle_property_set_fd, diskVars
  <2> QED  BY <1>3, <1>4, <1>5, <2>1, <2>2, <2>3
<1> QED  BY <1>6, <1>7, <1>8, <1>9

\* What a step of the clients or of the reader leaves alone.
LEMMA OthersKeep ==
    ASSUME OtherSteps \/ ReaderSteps \/ UNCHANGED vars
    PROVE  UNCHANGED <<work, slot, count, committed, loaded, files, temp, cut, missed, had, wanted, lastNet>>
BY DEF OtherSteps, Connect, Hangup, WriteBack, ReaderSteps, Read, ReadSerial, CopyCell, Return, vars, tableVars, diskVars,
       serviceVars

LEMMA HasNet ==
    ASSUME \E v : v = lastNet' /\ Has(NetChange, v)'
    PROVE  Has(NetChange, lastNet)'
BY DEF Has, BeingWritten

LEMMA NextNet == TypeInv /\ WorkInv /\ HeadInv /\ EntriesInv /\ NetInv /\ [Next]_vars => NetInv'
<1> SUFFICES ASSUME TypeInv, WorkInv, HeadInv, EntriesInv, NetInv, [Next]_vars, lastNet' # Null
             PROVE  \/ Has(NetChange, lastNet)'
                    \/ (Then.op = "set" /\ Then.name = NetChange /\ Then.value = lastNet)'
                    \/ NoRoom(NetChange)'
  BY DEF NetInv
<1>c. NetChange \in PropertyNames /\ NetChange \in Net /\ NetChange \notin Ro
  BY PropertyAssumption
<1>1. CASE UNCHANGED scenario /\ Set
  <2>1. UNCHANGED count /\ Then = Top /\ Top.op = "set"
    BY <1>1, SetTable, SetValues
  <2>2. CASE Refused(Top.name, Top.value)
    <3>1. /\ lastNet' = lastNet /\ \A v : Has(NetChange, v)' <=> Has(NetChange, v)
          /\ Present(NetChange)' <=> Present(NetChange)
      BY <1>1, <2>2, SetStep, SetValues
    <3>2. CASE Then.op = "set" /\ Then.name = NetChange /\ Then.value = lastNet
      <4>1. lastNet \in Stored
        BY <3>1 DEF TypeInv
      <4>2. ~(Len(lastNet) >= PROP_VALUE_MAX)
        BY <4>1, Constants
      <4>3. Found(NetChange) = {} /\ count = PA_COUNT_MAX
        BY <1>c, <2>1, <2>2, <3>2, <4>2 DEF Refused
      <4>4. ~Present(NetChange)
        BY <2>1, <4>3, NotWritten
      <4> QED  BY <2>1, <3>1, <4>3, <4>4 DEF NoRoom
    <3>3. CASE Has(NetChange, lastNet)
      <4>1. \E v : v = lastNet' /\ Has(NetChange, v)'
        BY <3>1, <3>3
      <4> QED  BY <4>1, HasNet
    <3>4. CASE NoRoom(NetChange)
      BY <2>1, <3>1, <3>4 DEF NoRoom
    <3> QED  BY <3>1, <3>2, <3>3, <3>4 DEF NetInv
  <2>3. CASE ~Refused(Top.name, Top.value)
    <3>1. /\ lastNet' = IF Top.name = NetChange THEN (IF Top.value = lastNet THEN Top.value ELSE Null)
                        ELSE IF Top.name \in Net THEN NameValue[Top.name] ELSE lastNet
          /\ Top.name \in Net \ {NetChange} =>
               Then' = [op |-> "set", name |-> NetChange, value |-> NameValue[Top.name]]
      BY <1>1, <2>3, SetStep
    <3>2. /\ \A name, value : name = Top.name /\ value = Top.value => Has(name, value)'
          /\ \A name : name # Top.name => (Present(name)' <=> Present(name))
          /\ \A name, value : name # Top.name => (Has(name, value)' <=> Has(name, value))
      BY <1>1, <2>3, SetValues
    <3>3. CASE Top.name = NetChange
      <4>1. \E v : v = lastNet' /\ Has(NetChange, v)'
        BY <3>1, <3>2, <3>3
      <4> QED  BY <4>1, HasNet
    <3>4. CASE Top.name \in Net \ {NetChange}
      BY <3>1, <3>4
    <3>5. CASE Top.name \notin Net
      <4>1. lastNet' = lastNet /\ NetChange # Top.name
        BY <1>c, <3>1, <3>5
      <4>2. CASE Has(NetChange, lastNet)
        <5>1. \E v : v = lastNet' /\ Has(NetChange, v)'
          BY <3>2, <4>1, <4>2
        <5> QED  BY <5>1, HasNet
      <4>3. CASE NoRoom(NetChange)
        <5>1. Present(NetChange)' <=> Present(NetChange)
          BY <3>2, <4>1
        <5> QED  BY <2>1, <4>3, <5>1 DEF NoRoom
      <4> QED  BY <2>1, <4>1, <4>2, <4>3 DEF NetInv
    <3> QED  BY <3>3, <3>4, <3>5
  <2> QED  BY <2>2, <2>3
<1>2. CASE TableWrites
  <2>1. /\ Then' = Then /\ (NoRoom(NetChange) => NoRoom(NetChange)')
        /\ \A value : Has(NetChange, value)' <=> Has(NetChange, value)
    BY <1>c, <1>2, WritesKeep
  <2>2. lastNet' = lastNet
    BY <1>2, TableWork DEF TableWrites
  <2>3. CASE Has(NetChange, lastNet)
    <3>1. \E v : v = lastNet' /\ Has(NetChange, v)'
      BY <2>1, <2>2, <2>3
    <3> QED  BY <3>1, HasNet
  <2> QED  BY <2>1, <2>2, <2>3 DEF NetInv
<1>3. CASE UNCHANGED scenario /\ (property_changed \/ FileSteps \/ LoadingSteps \/ handle_property_set_fd)
  <2>1. /\ Then = Top /\ Top.op # "set" /\ UNCHANGED <<count, lastNet>>
        /\ Present(NetChange)' <=> Present(NetChange)
        /\ \A value : Has(NetChange, value)' <=> Has(NetChange, value)
    BY <1>3, QuietValues
  <2>2. CASE NoRoom(NetChange)
    BY <2>1, <2>2 DEF NoRoom
  <2>3. CASE Has(NetChange, lastNet)
    <3>1. \E v : v = lastNet' /\ Has(NetChange, v)'
      BY <2>1, <2>3
    <3> QED  BY <3>1, HasNet
  <2> QED  BY <2>1, <2>2, <2>3 DEF NetInv
<1>4. CASE UNCHANGED scenario /\ PowerLoss
  BY <1>4, PowerLossFacts
<1>5. CASE OtherSteps \/ ReaderSteps \/ UNCHANGED vars
  BY <1>5, OthersKeep DEF NetInv, Has, NoRoom, Present, Found, BeingWritten, Then, Top
<1> QED  BY <1>1, <1>2, <1>3, <1>4, <1>5, NextIs

\* The file that a step does not put in place holds what it held.
LEMMA OtherContent ==
    ASSUME NEW d, NEW n, NEW v, NEW f
    PROVE  Content(WithFile(d, n, v), f) = IF f = n THEN v ELSE Content(d, f)
<1> DEFINE w == WithFile(d, n, v)
<1>1. DOMAIN w = DOMAIN d \union {n} /\ \A g \in DOMAIN w : w[g] = IF g = n THEN v ELSE d[g]
  BY DEF WithFile
<1> HIDE DEF w
<1>2. Content(w, f) = IF f = n THEN v ELSE Content(d, f)
  BY <1>1 DEF Content
<1> QED  BY <1>2 DEF w

LEMMA NextSaved == TypeInv /\ WorkInv /\ HeadInv /\ EntriesInv /\ SavedInv /\ [Next]_vars => SavedInv'
<1> SUFFICES ASSUME TypeInv, WorkInv, HeadInv, EntriesInv, SavedInv, [Next]_vars PROVE SavedInv'
  OBVIOUS
<1>s. Stack(work)
  BY DEF TypeInv
<1>k. ASSUME Then'.op \notin Saves, UNCHANGED <<files, wanted>>, missed \subseteq missed', Then.op \notin Saves
      PROVE  SavedInv'
  <2>1. \A f \in Persist \ missed' : Content(files', f) = Content(wanted', f)
    BY <1>k DEF SavedInv, Saving, Content
  <2> QED  BY <1>k, <2>1 DEF SavedInv, Saves, Content
<1>1. CASE UNCHANGED scenario /\ Set
  <2>1. Then = Top /\ Top.op = "set" /\ Then.op \notin Saves /\ UNCHANGED <<files, missed, loaded>>
    BY <1>1, SetValues DEF Set, Saves
  <2>2. CASE Refused(Top.name, Top.value)
    <3>1. Then'.op \in Later /\ wanted' = wanted
      BY <1>1, <2>2, SetValues, SetStep
    <3>2. Then'.op \notin Saves
      BY <3>1 DEF Later, Bottom, Saves
    <3> QED  BY <1>k, <2>1, <3>1, <3>2
  <2>3. CASE ~Refused(Top.name, Top.value)
    <3>1. /\ Then'.op \in {"saveTemp"} \union Later
          /\ loaded /\ Top.name \in Persist =>
               Then' = [op |-> "saveTemp", name |-> Top.name, value |-> Top.value]
          /\ ~(loaded /\ Top.name \in Persist) => Then'.op # "saveTemp"
          /\ wanted' = IF loaded /\ Top.name \in Persist
                       THEN WithFile(wanted, Top.name, Top.value) ELSE wanted
      BY <1>1, <2>3, SetStep
    <3>2. CASE loaded /\ Top.name \in Persist
      <4>1. Then'.op = "saveTemp" /\ Then'.name = Top.name /\ Then'.value = Top.value
        BY <3>1, <3>2
      <4>2. wanted' = WithFile(wanted, Top.name, Top.value)
        BY <3>1, <3>2
      <4>3. \A f : Content(wanted', f) = IF f = Top.name THEN Top.value ELSE Content(wanted, f)
        BY <4>2, OtherContent
      <4>4. \A f \in Persist \ missed : Content(files, f) = Content(wanted, f)
        BY <2>1 DEF SavedInv, Saving
      <4>5. Content(wanted', Then'.name) = Then'.value
        BY <4>1, <4>3
      <4>6. ASSUME NEW f \in Persist \ missed' PROVE Saving(f)' \/ Content(files', f) = Content(wanted', f)
        <5>1. CASE f = Top.name
          BY <4>1, <5>1 DEF Saving, Saves
        <5>2. CASE f # Top.name
          BY <2>1, <4>3, <4>4, <4>6, <5>2
        <5> QED  BY <5>1, <5>2
      <4> QED  BY <4>5, <4>6 DEF SavedInv, Content
    <3>3. CASE ~(loaded /\ Top.name \in Persist)
      <4>1. Then'.op \notin Saves /\ wanted' = wanted
        BY <3>1, <3>3 DEF Later, Bottom, Saves
      <4> QED  BY <1>k, <2>1, <4>1
    <3> QED  BY <3>2, <3>3
  <2> QED  BY <2>2, <2>3
<1>2. CASE TableWrites
  <2>1. Then' = Then /\ UNCHANGED <<files, wanted, missed>>
    BY <1>2, WritesKeep, TableWork DEF TableWrites
  <2> QED  BY <2>1 DEF SavedInv, Saving, Content
<1>3. CASE UNCHANGED scenario /\ (property_changed \/ FileSteps \/ LoadingSteps \/ handle_property_set_fd)
  <2>1. /\ Then = Top /\ Then' = Top' /\ UNCHANGED wanted
        /\ \/ FileSteps
           \/ Top.op \notin Saves /\ Top'.op \in Later /\ missed \subseteq missed' /\ UNCHANGED files
    BY <1>3, QuietValues
  <2>2. CASE OpenTemp
    <3>1. Top \in [op : {"saveTemp"}, name : Persist, value : Stored]
      BY <1>s, <2>2, SaveSteps
    <3>2. files' = files /\ (missed' = missed \/ missed' = missed \union {Top.name})
      BY <2>2, SaveFiles
    <3>7. \/ Top'.op \in Later /\ missed' = missed \union {Top.name}
          \/ Top' = [op |-> "write", name |-> Top.name, value |-> Top.value]
      <4>1. \/ PoppedTo /\ Top'.op \in Later /\ Fails /\ temp' = temp
            \/ /\ ReplacedBy([op |-> "write", name |-> Top.name, value |-> Top.value])
               /\ temp' = <<>> /\ faults' = faults
        BY <1>s, <2>2, SaveSteps
      <4>2. \/ Fails /\ missed' = missed \union {Top.name}
            \/ UNCHANGED faults /\ work' = <<save(Now.name, Now.value)>> \o Tail(work)
        BY <1>s, <2>2, TopIsHead DEF OpenTemp, Misses, Goes
      <4>3. Fails => faults' # faults
        <5>1. faults \in Nat
          BY Constants DEF TypeInv
        <5> QED  BY <5>1 DEF Fails
      <4> QED  BY <4>1, <4>2, <4>3 DEF ReplacedBy
    <3>3. Content(wanted, Top.name) = Top.value
      BY <2>1, <3>1 DEF SavedInv
    <3>4. \A f \in Persist \ missed : f = Top.name \/ Content(files, f) = Content(wanted, f)
      BY <2>1 DEF SavedInv, Saving
    <3>5. CASE Top'.op \in Later /\ missed' = missed \union {Top.name}
      <4>1. Top'.op \notin {"saveTemp", "write"}
        BY <3>5 DEF Later, Bottom
      <4>2. \A f \in Persist \ missed' : Content(files', f) = Content(wanted', f)
        BY <2>1, <3>2, <3>4, <3>5
      <4> QED  BY <2>1, <4>1, <4>2 DEF SavedInv, Content
    <3>6. CASE Top' = [op |-> "write", name |-> Top.name, value |-> Top.value]
      <4>1. Top'.op = "write" /\ Top'.name = Top.name /\ Top'.value = Top.value
        BY <3>6
      <4>2. Content(wanted', Then'.name) = Then'.value
        BY <2>1, <3>3, <4>1
      <4>3. \A f \in Persist \ missed' : Saving(f)' \/ Content(files', f) = Content(wanted', f)
        BY <2>1, <3>2, <3>4, <4>1 DEF Saving, Saves
      <4> QED  BY <4>2, <4>3 DEF SavedInv, Content
    <3> QED  BY <3>5, <3>6, <3>7
  <2>3. CASE WriteTemp
    <3>1. /\ Top \in [op : {"write"}, name : Persist, value : Stored]
          /\ ReplacedBy([op |-> "rename", name |-> Top.name])
      BY <1>s, <2>3, SaveSteps
    <3>2. files' = files /\ missed' = missed
      BY <2>3, SaveFiles
    <3>3. Top'.op = "rename" /\ Top'.name = Top.name
      BY <3>1 DEF ReplacedBy
    <3>4. \A f \in Persist \ missed' : Saving(f)' \/ Content(files', f) = Content(wanted', f)
      BY <2>1, <3>2, <3>3 DEF SavedInv, Saving, Saves
    <3> QED  BY <2>1, <3>3, <3>4 DEF SavedInv, Content
  <2>4. CASE Rename
    <3>1. Top.op = "rename" /\ Top'.op \in Later
      BY <1>s, <2>4, SaveSteps
    <3>2. \A f \in Persist \ missed : f = Top.name \/ Content(files, f) = Content(wanted, f)
      BY <2>1 DEF SavedInv, Saving
    <3>3. Top'.op \notin {"saveTemp", "write"}
      BY <3>1 DEF Later, Bottom
    <3>4. ASSUME NEW f \in Persist \ missed' PROVE Content(files', f) = Content(wanted', f)
      <4>1. CASE missed' = missed \union {Top.name} /\ files' = files
        BY <2>1, <3>2, <3>4, <4>1
      <4>2. CASE /\ files' = WithFile(files, Top.name, temp)
                 /\ IF temp = Content(wanted, Top.name) THEN missed' = missed \ {Top.name}
                                                       ELSE missed' = missed \union {Top.name}
        <5>1. Content(files', f) = IF f = Top.name THEN temp ELSE Content(files, f)
          BY <4>2, OtherContent
        <5> QED  BY <2>1, <3>2, <3>4, <4>2, <5>1
      <4> QED  BY <2>4, <4>1, <4>2, SaveFiles
    <3> QED  BY <2>1, <3>3, <3>4 DEF SavedInv, Content
  <2>5. CASE ~FileSteps
    <3>1. Top'.op \notin Saves
      BY <2>1, <2>5 DEF Later, Bottom, Saves
    <3> QED  BY <1>k, <2>1, <2>5, <3>1
  <2> QED  BY <2>2, <2>3, <2>4, <2>5 DEF FileSteps
<1>4. CASE UNCHANGED scenario /\ PowerLoss
  <2>1. wanted' = files' /\ Top'.op \in {"set", "opendir"}
    BY <1>4, PowerLossFacts
  <2>2. Then' = Top'
    BY <2>1 DEF Then, Top
  <2> QED  BY <2>1, <2>2 DEF SavedInv, Content
<1>5. CASE OtherSteps \/ ReaderSteps \/ UNCHANGED vars
  BY <1>5, OthersKeep DEF SavedInv, Saving, Content, Then, Top
<1> QED  BY <1>1, <1>2, <1>3, <1>4, <1>5, NextIs

LEMMA NextPersist == TypeInv /\ WorkInv /\ HeadInv /\ EntriesInv /\ WorkInv' /\ SavedInv /\ PersistInv /\ [Next]_vars => PersistInv'
<1> SUFFICES ASSUME TypeInv, WorkInv, HeadInv, EntriesInv, WorkInv', SavedInv, PersistInv, [Next]_vars
             PROVE  PersistInv'
  OBVIOUS
<1>s. Stack(work) /\ Disk(files)
  BY DEF TypeInv
<1>k. ASSUME UNCHANGED <<files, cut>>, had \subseteq had', Top'.op # "rename",
             \A x \in Items(work') : x.op \in {"saveTemp", "write"} =>
                x \in Items(work) \/ <<x.name, x.value>> \in had'
      PROVE  PersistInv'
  <2>1. PersistWhole'
    BY <1>k DEF PersistInv, PersistWhole
  <2>2. \A x \in Items(work') : x.op \in {"saveTemp", "write"} => <<x.name, x.value>> \in had'
    BY <1>k DEF PersistInv
  <2> QED  BY <1>k, <2>1, <2>2 DEF PersistInv
<1>1. CASE UNCHANGED scenario /\ Set
  <2>1. UNCHANGED <<files, cut>> /\ Top'.op # "rename"
    BY <1>1, SetTable DEF Set, Later, Bottom
  <2>2. CASE Refused(Top.name, Top.value)
    <3>1. had' = had /\ Items(work') \subseteq Items(work)
      BY <1>1, <2>2, SetStep DEF PoppedTo
    <3> QED  BY <1>k, <2>1, <3>1
  <2>3. CASE ~Refused(Top.name, Top.value)
    <3>1. /\ had' = IF Top.name \in Persist THEN had \union {<<Top.name, Top.value>>} ELSE had
          /\ \A x \in Items(work') :
               \/ x \in Items(work) \/ x.op \notin Saves \union {"set"} \union Bottom
               \/ x.op = "set" /\ x.name = NetChange
               \/ /\ loaded /\ Top.name \in Persist
                  /\ x = [op |-> "saveTemp", name |-> Top.name, value |-> Top.value]
      BY <1>1, <2>3, SetStep
    <3>2. ASSUME NEW x \in Items(work'), x.op \in {"saveTemp", "write"}
          PROVE  x \in Items(work) \/ <<x.name, x.value>> \in had'
      <4>1. CASE Top.name \in Persist /\ x = [op |-> "saveTemp", name |-> Top.name, value |-> Top.value]
        BY <3>1, <4>1
      <4>2. CASE ~(Top.name \in Persist /\ x = [op |-> "saveTemp", name |-> Top.name, value |-> Top.value])
        BY <3>1, <3>2, <4>2 DEF Saves
      <4> QED  BY <4>1, <4>2
    <3>3. had \subseteq had'
      BY <3>1
    <3> QED  BY <1>k, <2>1, <3>2, <3>3
  <2> QED  BY <2>2, <2>3
<1>2. CASE UNCHANGED scenario /\ TableWrites
  <2>1. /\ UNCHANGED <<files, cut, had>>
        /\ \A x \in Items(work') : x \in Items(work) \/ x.op = "memcpy"
    BY <1>2, TableWork DEF TableWrites
  <2>2. Top'.op # "rename"
    BY <1>2, WritesKeep
  <2> QED  BY <1>k, <2>1, <2>2
<1>3. CASE UNCHANGED scenario /\ property_changed
  <2>1. PoppedTo /\ Top'.op \in Later
    BY <1>s, <1>3, TableSteps
  <2>2. UNCHANGED <<files, cut, had>>
    BY <1>3 DEF property_changed, diskVars
  <2> QED  BY <1>k, <2>1, <2>2 DEF PoppedTo, Later, Bottom
<1>4. CASE UNCHANGED scenario /\ OpenTemp
  <2>1. UNCHANGED <<files, cut, had>>
    BY <1>4 DEF OpenTemp, UnchangedButDisk
  <2>2. /\ Top \in [op : {"saveTemp"}, name : Persist, value : Stored]
        /\ \/ PoppedTo /\ Top'.op \in Later /\ Fails /\ temp' = temp
           \/ /\ ReplacedBy([op |-> "write", name |-> Top.name, value |-> Top.value])
              /\ temp' = <<>> /\ faults' = faults
    BY <1>s, <1>4, SaveSteps
  <2>3. CASE PoppedTo /\ Top'.op \in Later
    BY <1>k, <2>1, <2>3 DEF PoppedTo, Later, Bottom
  <2>4. CASE ReplacedBy([op |-> "write", name |-> Top.name, value |-> Top.value])
    <3> DEFINE y == [op |-> "write", name |-> Top.name, value |-> Top.value]
    <3>1. y.op = "write" /\ y.name = Top.name /\ y.value = Top.value
      OBVIOUS
    <3>2. Top' = y /\ Items(work') \subseteq {y} \union Items(work)
      BY <2>4 DEF ReplacedBy
    <3> HIDE DEF y
    <3>3. <<Top.name, Top.value>> \in had
      <4>1. Top \in Items(work) /\ Top.op = "saveTemp"
        BY <1>s, <2>2, StackHead DEF Top
      <4> QED  BY <4>1 DEF PersistInv
    <3> QED  BY <1>k, <2>1, <3>1, <3>2, <3>3
  <2> QED  BY <2>2, <2>3, <2>4
<1>5. CASE UNCHANGED scenario /\ WriteTemp
  <2>1. UNCHANGED <<files, cut, had, wanted>>
    BY <1>5 DEF WriteTemp, UnchangedButDisk
  <2>2. /\ Top \in [op : {"write"}, name : Persist, value : Stored]
        /\ ReplacedBy([op |-> "rename", name |-> Top.name])
    BY <1>s, <1>5, SaveSteps
  <2> DEFINE y == [op |-> "rename", name |-> Top.name]
  <2>3. y.op = "rename" /\ y.name = Top.name /\ Top' = y /\ Items(work') \subseteq {y} \union Items(work)
    BY <2>2 DEF ReplacedBy
  <2> HIDE DEF y
  <2>4. <<Top.name, Top.value>> \in had
    <3>1. Top \in Items(work) /\ Top.op = "write"
      BY <1>s, <2>2, StackHead DEF Top
    <3> QED  BY <3>1 DEF PersistInv
  <2>5. Content(wanted, Top.name) = Top.value
    <3>1. Then = Top
      BY <2>2 DEF Then, Top
    <3> QED  BY <2>2, <3>1 DEF SavedInv
  <2>6. PersistWhole'
    BY <2>1 DEF PersistInv, PersistWhole
  <2>7. \A x \in Items(work') : x.op \in {"saveTemp", "write"} => <<x.name, x.value>> \in had'
    BY <2>1, <2>3 DEF PersistInv
  <2>8. temp' = Content(wanted', Top'.name) => <<Top'.name, temp'>> \in had'
    <3>1. Content(wanted', Top'.name) = Top.value /\ Top'.name = Top.name
      BY <2>1, <2>3, <2>5
    <3> QED  BY <2>1, <2>4, <3>1
  <2> QED  BY <2>6, <2>7, <2>8 DEF PersistInv, Content
<1>6. CASE UNCHANGED scenario /\ Rename
  <2>1. had' = had
    BY <1>6 DEF Rename, UnchangedButDisk
  <2>2. Top \in [op : {"rename"}, name : Persist] /\ PoppedTo /\ Top'.op \in Later
    BY <1>s, <1>6, SaveSteps
  <2>3. ASSUME NEW f \in DOMAIN files' \ cut' PROVE <<f, files'[f]>> \in had
    <3>1. \A g \in DOMAIN files \ cut : <<g, files[g]>> \in had
      BY DEF PersistInv, PersistWhole
    <3>2. CASE UNCHANGED <<files, cut>>
      BY <3>1, <3>2, <2>3
    <3>3. CASE /\ files' = WithFile(files, Top.name, temp)
               /\ IF temp = Content(wanted, Top.name) THEN cut' = cut \ {Top.name}
                                                     ELSE cut' = cut \union {Top.name}
      <4>1. /\ DOMAIN files' = {Top.name} \union DOMAIN files /\ files'[Top.name] = temp
            /\ \A g \in DOMAIN files \ {Top.name} : files'[g] = files[g]
        <5> DEFINE d == WithFile(files, Top.name, temp)
        <5>1. /\ DOMAIN d = {Top.name} \union DOMAIN files /\ d[Top.name] = temp
              /\ \A g \in DOMAIN files \ {Top.name} : d[g] = files[g]
          BY DEF WithFile
        <5> HIDE DEF d
        <5> QED  BY <3>3, <5>1 DEF d
      <4>2. CASE f = Top.name
        <5>1. temp = Content(wanted, Top.name)
          BY <2>3, <3>3, <4>2
        <5>2. <<Top.name, temp>> \in had
          BY <2>2, <5>1 DEF PersistInv
        <5> QED  BY <4>1, <4>2, <5>2
      <4>3. CASE f # Top.name
        <5>1. f \in DOMAIN files \ cut /\ files'[f] = files[f]
          BY <2>3, <3>3, <4>1, <4>3
        <5> QED  BY <3>1, <5>1
      <4> QED  BY <4>2, <4>3
    <3> QED  BY <1>6, <3>2, <3>3, SaveFiles
  <2>4. PersistWhole'
    BY <2>1, <2>3 DEF PersistWhole
  <2>5. \A x \in Items(work') : x.op \in {"saveTemp", "write"} => <<x.name, x.value>> \in had'
    BY <2>1, <2>2 DEF PersistInv, PoppedTo
  <2> QED  BY <2>2, <2>4, <2>5 DEF PersistInv, Later, Bottom
<1>7. CASE UNCHANGED scenario /\ LoadingSteps
  <2>1. Top'.op \in Later /\ UNCHANGED <<files, cut, had>>
    BY <1>7, LoadingType
  <2>2. ASSUME NEW x \in Items(work') PROVE x.op \notin {"saveTemp", "write"}
    <3>1. CASE Opendir \/ Readdir
      <4>1. Last(work).op # "poll"
        <5>1. Top.op \in {"opendir", "readdir"} /\ Top.op \in Bottom
          BY <1>s, <3>1, TopIsHead DEF Opendir, Readdir, Bottom
        <5>2. Last(work) = Top
          BY <1>s, <5>1, LastWork DEF Top
        <5> QED  BY <5>1, <5>2
      <4>2. ~loaded /\ loaded' = loaded
        BY <3>1, <4>1 DEF WorkInv, Opendir, Readdir, UnchangedButDisk, serviceVars
      <4> QED  BY <2>2, <4>2 DEF WorkInv, Saves
    <3>2. CASE Loaded
      <4>1. Top'.op = "poll" /\ Len(work') = 1
        BY <1>s, <3>2, LoadSteps
      <4>2. x = Top'
        BY <2>2, <4>1 DEF Items, Top
      <4> QED  BY <4>1, <4>2
    <3> QED  BY <1>7, <3>1, <3>2 DEF LoadingSteps
  <2> QED  BY <1>k, <2>1, <2>2 DEF Later, Bottom
<1>8. CASE UNCHANGED scenario /\ handle_property_set_fd
  <2>1. Top'.op \in Later /\ UNCHANGED <<files, cut, had>> /\ Top.op = "poll"
    <3>1. FileSteps \/ (Top'.op \in Later /\ UNCHANGED <<files, temp, cut>>)
      BY <1>8, QuietValues
    <3>2. Top.op = "poll"
      BY <1>s, <1>8, RequestStep DEF TypeInv
    <3>3. ~FileSteps
      BY <3>2, SaveType DEF FileSteps, OpenTemp, WriteTemp, Rename, At, Now, Saves, Top, TypeInv
    <3> QED  BY <1>8, <3>1, <3>2, <3>3 DEF handle_property_set_fd, diskVars
  <2>2. \A x \in Items(work') : x.op \in {"saveTemp", "write"} => x \in Items(work)
    <3>1. CASE work' = work
      BY <3>1 DEF Items
    <3>2. CASE work' # work
      <4>1. PICK name \in PropertyNames, value \in Value :
              Items(work') = {[op |-> "set", name |-> name, value |-> value]} \union Items(work)
        BY <1>s, <1>8, <3>2, RequestStep DEF TypeInv
      <4> QED  BY <4>1
    <3> QED  BY <3>1, <3>2
  <2> QED  BY <1>k, <2>1, <2>2 DEF Later, Bottom
<1>9. CASE UNCHANGED scenario /\ PowerLoss
  <2>1. /\ had' = had /\ Top'.op \in {"set", "opendir"}
        /\ \A x \in Items(work') : x.op \in {"set", "opendir"}
        /\ cut' = cut \union {f \in Persist : disk[f] # {Content(files, f)}}
    BY <1>9, PowerLossFacts
  <2>2. PICK left \in [Persist -> Stored \union {Null}] :
           /\ \A f \in Persist : left[f] \in disk[f]
           /\ files' = [f \in {g \in Persist : left[g] # Null} |-> left[f]]
    BY <1>9, PowerLossFacts
  <2>3. ASSUME NEW f \in DOMAIN files' \ cut' PROVE <<f, files'[f]>> \in had
    <3>1. f \in Persist /\ left[f] # Null /\ files'[f] = left[f]
      BY <2>2
    <3>2. f \notin cut /\ left[f] = Content(files, f)
      BY <2>1, <2>2, <2>3, <3>1
    <3>3. f \in DOMAIN files /\ files[f] = left[f]
      BY <3>1, <3>2 DEF Content
    <3> QED  BY <3>1, <3>2, <3>3 DEF PersistInv, PersistWhole
  <2>4. PersistWhole'
    BY <2>1, <2>3 DEF PersistWhole
  <2> QED  BY <2>1, <2>4 DEF PersistInv
<1>10. CASE OtherSteps \/ ReaderSteps \/ UNCHANGED vars
  BY <1>10, OthersKeep DEF PersistInv, PersistWhole, Content, Top, Items
<1> QED  BY <1>1, <1>2, <1>3, <1>4, <1>5, <1>6, <1>7, <1>8, <1>9, <1>10, NextIs DEF FileSteps

\* What the file of a property that is being loaded holds is what it is set to.
LEMMA LoadingSet ==
    ASSUME TypeInv, WorkInv, SavedInv, Top.op = "set", Then = Top, ~loaded,
           Last(work).op # "opendir", Top.name \in Persist \ missed
    PROVE  Top.name \in DOMAIN wanted /\ Top.value = wanted[Top.name] /\ Top.value \in Stored
<1>1. Stack(work) /\ Disk(wanted) /\ Disk(files)
  BY DEF TypeInv
<1>2. Last(work).op \in Bottom /\ Top \in Items(work)
  BY <1>1, StackHead DEF Stack, Last, Top
<1>3. Last(work).op # "loaded"
  <2>1. ASSUME Len(work) = 1 PROVE Last(work) = Top
    BY <2>1 DEF Last, Top
  <2> QED  BY <2>1 DEF WorkInv
<1>4. Last(work).op = "readdir"
  BY <1>2, <1>3 DEF WorkInv, Bottom
<1>5. Top.name \in DOMAIN files /\ Top.value = files[Top.name]
  BY <1>2, <1>4 DEF WorkInv
<1>6. Content(wanted, Top.name) = Content(files, Top.name)
  BY DEF SavedInv, Saving, Saves
<1> QED  BY <1>1, <1>5, <1>6, ContentType

\* A file that cannot be read is missed.
LEMMA MissedFile ==
    ASSUME TypeInv, WorkInv, Readdir, Fails, Top.left \subseteq DOMAIN files
    PROVE  \E h \in Top.left : Left' = Top.left \ {h} /\ missed' = missed \union {h}
<1>1. Stack(work) /\ faults \in Nat
  BY Constants DEF TypeInv
<1>2. Now = Top /\ Top.op = "readdir" /\ Top.op \in Bottom
  BY <1>1, TopIsHead DEF Readdir, Bottom
<1>3. faults' # faults
  BY <1>1 DEF Fails
<1>4. PICK h \in Top.left :
        /\ missed' = missed \union {h} /\ Goes(<<[op |-> "readdir", left |-> Top.left \ {h}]>>)
  BY <1>2, <1>3 DEF Readdir, Misses
<1> DEFINE r == [op |-> "readdir", left |-> Top.left \ {h}]
<1>5. work' = <<r>>
  <2> HIDE DEF r
  <2> QED  BY <1>1, <1>2, <1>4, LastWork DEF Goes, Top, r
<1>6. Left' = Top.left \ {h}
  BY <1>5 DEF Left, Last
<1> QED  BY <1>4, <1>6

LEMMA NextLoaded == TypeInv /\ WorkInv /\ HeadInv /\ EntriesInv /\ SavedInv /\ LoadedInv /\ [Next]_vars => LoadedInv'
<1> SUFFICES ASSUME TypeInv, WorkInv, HeadInv, EntriesInv, SavedInv, LoadedInv, [Next]_vars,
                    Last(work').op # "opendir",
                    NEW f \in DOMAIN wanted' \ Left'
             PROVE  \/ f \in missed' /\ ~Saving(f)'
                    \/ NoRoom(f)' \/ (\E v : v = wanted'[f] /\ Has(f, v)')
                    \/ ~loaded' /\ Top'.op = "set" /\ Top'.name = f
  BY DEF LoadedInv, Last, Has, NoRoom, Present, Found, BeingWritten, Saving, Then, Top
<1>s. Stack(work) /\ Disk(files) /\ Disk(wanted) /\ faults \in Nat /\ count \in 0..PA_COUNT_MAX
  BY Constants DEF TypeInv
<1>p. Persist \subseteq PropertyNames /\ Ro \intersect Persist = {}
  BY PropertyAssumption
<1>k. ASSUME Last(work).op # "opendir", f \in DOMAIN wanted \ Left, wanted'[f] = wanted[f],
             loaded \/ ~(Top.op = "set" /\ Top.name = f),
             NoRoom(f) => NoRoom(f)', \A v : Has(f, v)' <=> Has(f, v),
             f \in missed /\ ~Saving(f) => f \in missed' /\ ~Saving(f)'
      PROVE  \/ f \in missed' /\ ~Saving(f)'
             \/ NoRoom(f)' \/ (\E v : v = wanted'[f] /\ Has(f, v)')
  <2>1. (f \in missed /\ ~Saving(f)) \/ NoRoom(f) \/ Has(f, wanted[f])
    BY <1>k DEF LoadedInv
  <2>2. CASE f \in missed /\ ~Saving(f)
    BY <1>k, <2>2
  <2>3. CASE NoRoom(f)
    BY <1>k, <2>3
  <2>4. CASE Has(f, wanted[f])
    BY <1>k, <2>4
  <2> QED  BY <2>1, <2>2, <2>3, <2>4
<1>1. CASE UNCHANGED scenario /\ Set
  <2>1. /\ Top \in [op : {"set"}, name : PropertyNames, value : Value]
        /\ Then = Top /\ Top.op = "set" /\ UNCHANGED <<files, missed, loaded, count, slot>>
    BY <1>1, SetStep, SetTable, SetValues DEF Set
  <2>2. Last(work') = Last(work) /\ Left' = Left
    BY <1>1, <2>1, SetType DEF Left
  <2>3. CASE Refused(Top.name, Top.value)
    <3>1. /\ wanted' = wanted /\ Top'.op \in Later /\ Then' = Top'
          /\ Present(f)' <=> Present(f)
          /\ \A value : Has(f, value)' <=> Has(f, value)
      BY <1>1, <2>3, SetStep, SetValues
    <3>2. (NoRoom(f) => NoRoom(f)') /\ ~Saving(f)'
      BY <2>1, <3>1 DEF NoRoom, Saving, Saves, Later, Bottom
    <3>3. CASE loaded \/ Top.name # f
      BY <1>k, <2>1, <2>2, <3>1, <3>2, <3>3
    <3>4. CASE ~loaded /\ Top.name = f /\ f \in missed
      BY <2>1, <3>2, <3>4
    <3>5. CASE ~loaded /\ Top.name = f /\ f \notin missed
      <4>1. f \in Persist
        BY <1>s, <3>1 DEF Disk
      <4>2. Top.value \in Stored
        BY <2>1, <2>2, <3>5, <4>1, LoadingSet
      <4>3. ~(Len(Top.value) >= PROP_VALUE_MAX) /\ f \notin Ro
        BY <1>p, <4>1, <4>2, Constants
      <4>4. Found(f) = {} /\ count = PA_COUNT_MAX
        BY <2>3, <3>5, <4>3 DEF Refused
      <4>5. ~Present(f)
        BY <2>1, <4>4 DEF Present, BeingWritten
      <4> QED  BY <2>1, <3>1, <4>4, <4>5 DEF NoRoom
    <3> QED  BY <3>3, <3>4, <3>5
  <2>4. CASE ~Refused(Top.name, Top.value)
    <3>1. /\ wanted' = IF loaded /\ Top.name \in Persist
                       THEN WithFile(wanted, Top.name, Top.value) ELSE wanted
          /\ Top.value \in Stored
          /\ Then'.op \in {"saveTemp"} \union Later
          /\ loaded /\ Top.name \in Persist =>
               Then' = [op |-> "saveTemp", name |-> Top.name, value |-> Top.value]
          /\ ~(loaded /\ Top.name \in Persist) => Then'.op # "saveTemp"
      BY <1>1, <2>4, SetStep
    <3>2. /\ \A name, value : name = Top.name /\ value = Top.value => Has(name, value)'
          /\ \A name : name # Top.name => (Present(name)' <=> Present(name))
          /\ \A name, value : name # Top.name => (Has(name, value)' <=> Has(name, value))
      BY <1>1, <2>4, SetValues
    <3> DEFINE d == WithFile(wanted, Top.name, Top.value)
    <3>3. Top.name \in Persist => /\ DOMAIN d = {Top.name} \union DOMAIN wanted /\ d[Top.name] = Top.value
                                  /\ \A g \in DOMAIN wanted \ {Top.name} : d[g] = wanted[g]
      BY DEF WithFile
    <3>4. wanted' = IF loaded /\ Top.name \in Persist THEN d ELSE wanted
      BY <3>1
    <3> HIDE DEF d
    <3>5. CASE f # Top.name
      <4>1. f \in DOMAIN wanted /\ wanted'[f] = wanted[f]
        BY <3>3, <3>4, <3>5
      <4>2. ~Saving(f)'
        BY <3>1, <3>5 DEF Saving, Saves, Later, Bottom
      <4>3. (Present(f)' <=> Present(f)) /\ \A value : Has(f, value)' <=> Has(f, value)
        BY <3>2, <3>5
      <4>4. NoRoom(f) => NoRoom(f)'
        BY <2>1, <4>3 DEF NoRoom
      <4> QED  BY <1>k, <2>1, <2>2, <3>5, <4>1, <4>2, <4>3, <4>4
    <3>6. CASE f = Top.name
      <4>1. f \in Persist
        BY <1>s, <3>3, <3>4, <3>6 DEF Disk
      <4>2. CASE ~loaded /\ f \in missed
        <5>1. ~Saving(f)'
          BY <3>1, <4>2 DEF Saving, Saves, Later, Bottom
        <5> QED  BY <2>1, <4>2, <5>1
      <4>3. CASE loaded \/ f \notin missed
        <5>1. wanted'[f] = Top.value
          <6>1. CASE loaded
            BY <3>3, <3>4, <3>6, <4>1, <6>1
          <6>2. CASE ~loaded
            BY <2>1, <2>2, <3>4, <3>6, <4>1, <4>3, <6>2, LoadingSet
          <6> QED  BY <6>1, <6>2
        <5> QED  BY <3>2, <3>6, <5>1
      <4> QED  BY <4>2, <4>3
    <3> QED  BY <3>5, <3>6
  <2> QED  BY <2>3, <2>4
<1>2. CASE UNCHANGED scenario /\ TableWrites
  <2>1. /\ Top.op # "set" /\ Then' = Then
        /\ \A name \in PropertyNames : NoRoom(name) => NoRoom(name)'
        /\ \A name \in PropertyNames : \A value : Has(name, value)' <=> Has(name, value)
    BY <1>2, WritesKeep
  <2>2. Last(work') = Last(work) /\ UNCHANGED <<wanted, missed>>
    BY <1>2, TableWork DEF TableWrites
  <2>3. f \in PropertyNames /\ Left' = Left /\ (Saving(f)' <=> Saving(f))
    BY <1>s, <1>p, <2>1, <2>2 DEF Disk, Left, Saving
  <2> QED  BY <1>k, <2>1, <2>2, <2>3
<1>3. CASE UNCHANGED scenario /\ (property_changed \/ FileSteps \/ LoadingSteps \/ handle_property_set_fd)
  <2>1. /\ Then = Top /\ Then' = Top' /\ Top.op # "set" /\ UNCHANGED <<wanted, count>>
        /\ Present(f)' <=> Present(f)
        /\ \A value : Has(f, value)' <=> Has(f, value)
        /\ f \in missed /\ ~Saving(f) => f \in missed' /\ ~Saving(f)'
    BY <1>3, QuietValues
  <2>r. NoRoom(f) => NoRoom(f)'
    BY <2>1 DEF NoRoom
  <2>2. CASE f \in DOMAIN wanted \ Left /\ Last(work).op # "opendir"
    BY <1>k, <2>1, <2>2, <2>r
  <2>3. ASSUME f \in Left
        PROVE  (f \in missed' /\ ~Saving(f)') \/ (~loaded' /\ Top'.op = "set" /\ Top'.name = f)
    <3>1. Last(work).op = "readdir"
      BY <2>3 DEF Left
    <3>2. CASE Last(work') = Last(work)
      BY <2>3, <3>2 DEF Left
    <3>3. CASE Last(work') # Last(work)
      <4>1. CASE property_changed
        BY <1>s, <3>3, <4>1, TableSteps DEF PoppedTo
      <4>2. CASE FileSteps
        BY <3>3, <4>2, SaveType, <1>3 DEF FileSteps
      <4>3. CASE Opendir \/ Loaded
        BY <1>s, <3>1, <4>3, LoadSteps
      <4>4. CASE handle_property_set_fd
        BY <1>s, <3>3, <4>4, RequestStep DEF TypeInv
      <4>5. CASE Readdir
        <5>1. Top.op = "readdir" /\ Last(work) = Top /\ Top.left \subseteq DOMAIN files
          <6>1. Top.op = "readdir"
            BY <1>s, <4>5, TopIsHead DEF Readdir
          <6>2. Last(work) = Top
            BY <1>s, <6>1, LastWork DEF Bottom, Top
          <6> QED  BY <6>1, <6>2 DEF WorkInv
        <5>2. ~loaded /\ loaded' = loaded
          BY <4>5, <5>1 DEF Readdir, UnchangedButDisk, serviceVars, WorkInv
        <5>3. Left = Top.left
          BY <5>1 DEF Left
        <5>4. PICK g \in Top.left :
                 LET r == [op |-> "readdir", left |-> Top.left \ {g}]
                     x == [op |-> "set", name |-> g, value |-> files[g]]
                 IN  /\ Last(work') = r
                     /\ \/ Fails /\ work' = <<r>>
                        \/ Top' = x /\ Items(work') = {x, r} /\ faults' = faults
          BY <1>s, <2>3, <4>5, <5>1, <5>3, ReaddirStep
        <5>5. Left' = Top.left \ {g} /\ f = g
          BY <2>3, <5>3, <5>4 DEF Left
        <5>6. CASE Top' = [op |-> "set", name |-> g, value |-> files[g]]
          BY <5>2, <5>5, <5>6
        <5>7. CASE Fails /\ work' = <<[op |-> "readdir", left |-> Top.left \ {g}]>>
          <6>1. Top'.op = "readdir" /\ ~Saving(f)'
            BY <2>1, <5>7 DEF Top, Saving, Saves
          <6>2. \E h \in Top.left : /\ Left' = Top.left \ {h}
                                    /\ missed' = missed \union {h}
            BY <4>5, <5>1, <5>7, MissedFile
          <6>3. f \in missed'
            BY <2>3, <5>3, <6>2
          <6> QED  BY <6>1, <6>3
        <5> QED  BY <5>4, <5>6, <5>7
      <4> QED  BY <1>3, <4>1, <4>2, <4>3, <4>4, <4>5 DEF LoadingSteps
    <3> QED  BY <3>2, <3>3
  <2>4. ASSUME Last(work).op = "opendir" PROVE f \in missed' /\ ~Saving(f)'
    <3>1. CASE Last(work') = Last(work)
      BY <2>4, <3>1
    <3>2. CASE Last(work') # Last(work)
      <4>1. CASE property_changed
        BY <1>s, <3>2, <4>1, TableSteps DEF PoppedTo
      <4>2. CASE FileSteps
        BY <3>2, <4>2, SaveType, <1>3 DEF FileSteps
      <4>3. CASE Loaded
        BY <1>s, <2>4, <4>3, LoadSteps
      <4>4. CASE handle_property_set_fd
        BY <1>s, <3>2, <4>4, RequestStep DEF TypeInv
      <4>5. CASE Readdir
        <5>1. Top.op = "readdir"
          BY <1>s, <4>5, TopIsHead DEF Readdir
        <5>2. Last(work) = Top
          BY <1>s, <5>1, LastWork DEF Bottom, Top
        <5> QED  BY <2>4, <5>1, <5>2
      <4>6. CASE Opendir
        <5>1. Top.op = "opendir" /\ Top'.op \in {"readdir", "loaded"}
          BY <1>s, <4>6, LoadSteps
        <5>2. f \in DOMAIN wanted /\ f \in Persist /\ ~Saving(f) /\ ~Saving(f)'
          BY <1>s, <2>1, <5>1 DEF Disk, Saving, Saves
        <5>3. CASE Misses(Persist)
          BY <5>2, <5>3 DEF Misses
        <5>4. CASE work' = <<[op |-> "readdir", left |-> DOMAIN files]>> /\ missed' = missed
          <6>1. Left' = DOMAIN files
            BY <5>4 DEF Left, Last
          <6>2. Content(files, f) # Content(wanted, f)
            BY <1>s, <5>2, <6>1, ContentType
          <6> QED  BY <5>2, <5>4, <6>2 DEF SavedInv
        <5>5. Goes(<<[op |-> "readdir", left |-> DOMAIN files]>>) => work' = <<[op |-> "readdir", left |-> DOMAIN files]>>
          BY <1>s, <5>1, LastWork DEF Goes, Bottom, Top
        <5> QED  BY <4>6, <5>3, <5>4, <5>5 DEF Opendir
      <4> QED  BY <1>3, <4>1, <4>2, <4>3, <4>4, <4>5, <4>6 DEF LoadingSteps
    <3> QED  BY <3>1, <3>2
  <2> QED  BY <2>1, <2>2, <2>3, <2>4
<1>4. CASE UNCHANGED scenario /\ PowerLoss
  BY <1>4, PowerLossFacts
<1>5. CASE OtherSteps \/ ReaderSteps \/ UNCHANGED vars
  <2>1. UNCHANGED <<work, slot, count, committed, loaded, files, missed, wanted>>
    BY <1>5, OthersKeep
  <2>2. Left' = Left /\ Last(work') = Last(work) /\ Top' = Top /\ (Saving(f)' <=> Saving(f))
    BY <2>1 DEF Left, Last, Top, Saving, Then
  <2>3. /\ NoRoom(f)' <=> NoRoom(f)
        /\ \A v : Has(f, v)' <=> Has(f, v)
    BY <2>1, <2>2 DEF NoRoom, Present, Found, Has, BeingWritten
  <2>4. CASE ~loaded /\ Top.op = "set" /\ Top.name = f
    BY <2>1, <2>2, <2>4
  <2>5. CASE loaded \/ ~(Top.op = "set" /\ Top.name = f)
    BY <1>k, <2>1, <2>2, <2>3, <2>5
  <2> QED  BY <2>4, <2>5
<1> QED  BY <1>1, <1>2, <1>3, <1>4, <1>5, NextIs

LEMMA InitValues == Init => ValuesInv
<1> SUFFICES ASSUME Init PROVE ValuesInv
  OBVIOUS
<1>1. scenario \in Scenarios /\ work = boot(scenario)
  BY DEF Init
<1>2. /\ Stack(work) /\ Last(work).op = "opendir" /\ Top.op \in {"set", "opendir"}
      /\ \A x \in Items(work) : x.op \in {"set", "opendir"}
  BY <1>1, BootWork DEF Top
<1>3. PersistInv
  <2>1. cut = {} /\ \A f \in DOMAIN files : <<f, files[f]>> \in had
    BY DEF Init
  <2> QED  BY <1>2, <2>1 DEF PersistInv, PersistWhole
<1>4. Then = Top
  BY <1>2 DEF Then, Top
<1>5. SavedInv
  BY <1>2, <1>4 DEF Init, SavedInv
<1>6. NetInv /\ LoadedInv
  BY <1>2 DEF Init, NetInv, LoadedInv
<1> QED  BY <1>3, <1>5, <1>6 DEF ValuesInv

LEMMA ValueIs ==
    ASSUME TypeInv, EntriesInv, NEW i \in 1..count, Top.op \notin {"memcpy", "clean"}
    PROVE  ValueOf(i) = committed[i]
<1> DEFINE v == committed[i]
           cells == [k \in 1..PROP_VALUE_MAX |-> slot[i].value[k - 1]]
<1>1. i \in Slots
  BY SlotNumbers
<1>2. v \in Stored
  BY <1>1 DEF TypeInv, EntriesInv
<1>3. v \in Seq(Characters) /\ Len(v) \in Nat /\ Len(v) < PROP_VALUE_MAX /\ PROP_VALUE_MAX \in Nat
  BY <1>2, Constants
<1>4. slot[i].len = Len(v) /\ \A k \in Cells : k < Len(v) + 1 => slot[i].value[k] = Cell(v, k)
  BY DEF EntriesInv, Writing, Holds, Copied
<1>5. cells \in Seq(Symbols) /\ Len(cells) = PROP_VALUE_MAX
  <2>1. slot[i].value \in [Cells -> Symbols]
    BY <1>1 DEF TypeInv, Entry
  <2>2. \A k \in 1..PROP_VALUE_MAX : k - 1 \in Cells
    BY <1>3 DEF Cells
  <2>3. cells \in [1..PROP_VALUE_MAX -> Symbols]
    BY <2>1, <2>2
  <2> HIDE DEF cells
  <2> QED  BY <1>3, <2>3
<1>6. \A k \in 1..Len(v) : cells[k] = v[k]
  <2> TAKE k \in 1..Len(v)
  <2>1. k - 1 \in Cells /\ k - 1 < Len(v) /\ k \in 1..PROP_VALUE_MAX /\ (k - 1) + 1 = k
    BY <1>3 DEF Cells
  <2>2. slot[i].value[k - 1] = Cell(v, k - 1)
    BY <1>3, <1>4, <2>1
  <2>3. Cell(v, k - 1) = v[k]
    BY <2>1 DEF Cell
  <2> QED  BY <2>1, <2>2, <2>3
<1> DEFINE w == SubSeq(cells, 1, Len(v))
<1>7. ValueOf(i) = w
  BY <1>4 DEF ValueOf
<1> HIDE DEF cells
<1>8. w \in Seq(Symbols) /\ Len(w) = Len(v) /\ \A k \in 1..Len(v) : w[k] = cells[k]
  BY <1>3, <1>5
<1> HIDE DEF w
<1>9. v \in Seq(Symbols)
  BY <1>3 DEF Symbols
<1>10. \A k \in 1..Len(v) : w[k] = v[k]
  BY <1>6, <1>8
<1>11. w = v
  BY <1>8, <1>9, <1>10, SeqEqual
<1> QED  BY <1>7, <1>11

\* ValuesInv is an invariant too, of property_set, write_persistent_property,
\* load_persistent_properties and the loss of power between any two steps.
THEOREM ValuesInvariant == Spec => [](TableInv /\ ValuesInv)
<1>1. Init => ValuesInv
  BY InitValues
<1>2. TableInv /\ TableInv' /\ ValuesInv /\ [Next]_vars => ValuesInv'
  BY NextPersist, NextNet, NextSaved, NextLoaded DEF TableInv, ValuesInv
<1> QED  BY <1>1, <1>2, TableInvariant, PTL DEF Spec

\* Whatever clients set, whatever fails and whenever the power is lost: a file
\* holds a value its property has had, unless its write() was cut short or the
\* power caught it before its data was written back (write_persistent_property
\* does not look at the one and does not sync for the other); what the files
\* hold when init waits again is what was last set or loaded, and readers have it
\* too, for each property that no failing call kept from it and that the table
\* has room for; and so is net.change the net. property set last, unless a client
\* or a file set net.change itself to something else.
THEOREM NoValueIsLost == Spec => []ValuesKept
<1>1. TableInv /\ ValuesInv => ValuesKept
  <2> SUFFICES ASSUME TableInv, ValuesInv PROVE PersistWhole /\ SavedIsCurrent /\ NetChangeCurrent
    BY DEF ValuesKept
  <2>1. TypeInv /\ WorkInv /\ EntriesInv /\ PersistInv /\ NetInv /\ SavedInv /\ LoadedInv /\ Stack(work)
    BY DEF TableInv, ValuesInv, TypeInv
  <2>2. At("poll") <=> Top.op = "poll"
    BY <2>1, TopIsHead
  <2>3. ASSUME Top.op = "poll"
        PROVE  /\ Last(work) = Top /\ loaded /\ Then = Top /\ Left = {}
               /\ \A name : Present(name) <=> Found(name) # {}
               /\ \A name, value :
                    Has(name, value) <=> \E i \in 1..count : slot[i].name = name /\ committed[i] = value
               /\ \A i \in 1..count : ValueOf(i) = committed[i]
    <3>1. Last(work) = Top
      BY <2>1, <2>3, LastWork DEF Bottom, Top
    <3>2. loaded /\ Left = {}
      BY <2>1, <2>3, <3>1 DEF WorkInv, Left
    <3>3. \A i \in 1..count : ValueOf(i) = committed[i]
      BY <2>1, <2>3, ValueIs
    <3>4. Top.op \notin {"dirty", "memcpy", "clean", "fill", "publish"}
      BY <2>3
    <3> QED  BY <3>1, <3>2, <3>3, <3>4, NotWritten
  <2>4. PersistWhole
    BY <2>1 DEF PersistInv
  <2>5. ASSUME NEW name, NEW value, At("poll"), Has(name, value) \/ NoRoom(name)
        PROVE  InTable(name, value)
    <3>1. CASE Has(name, value)
      <4>1. PICK i \in 1..count : slot[i].name = name /\ committed[i] = value
        BY <2>2, <2>3, <2>5, <3>1
      <4>2. ValueOf(i) = value
        BY <2>2, <2>3, <2>5, <4>1
      <4> QED  BY <4>1, <4>2 DEF InTable
    <3>2. CASE NoRoom(name)
      BY <2>2, <2>3, <2>5, <3>2 DEF NoRoom, InTable
    <3> QED  BY <2>5, <3>1, <3>2
  <2>6. SavedIsCurrent
    <3> SUFFICES ASSUME At("poll"), NEW f \in Persist \ missed
                 PROVE  /\ Content(files, f) = Content(wanted, f)
                        /\ f \in DOMAIN files => InTable(f, files[f])
      BY DEF SavedIsCurrent
    <3>1. Content(files, f) = Content(wanted, f)
      BY <2>1, <2>2, <2>3 DEF SavedInv, Saving, Saves
    <3>2. ASSUME f \in DOMAIN files PROVE InTable(f, files[f])
      <4>1. f \in DOMAIN wanted /\ wanted[f] = files[f]
        BY <2>1, <3>1, <3>2, ContentType DEF TypeInv
      <4>2. NoRoom(f) \/ Has(f, files[f])
        BY <2>1, <2>2, <2>3, <4>1 DEF LoadedInv
      <4> QED  BY <2>5, <4>2
    <3> QED  BY <3>1, <3>2
  <2>7. NetChangeCurrent
    <3> SUFFICES ASSUME At("poll"), lastNet # Null PROVE InTable(NetChange, lastNet)
      BY DEF NetChangeCurrent
    <3>1. Has(NetChange, lastNet) \/ NoRoom(NetChange)
      BY <2>1, <2>2, <2>3 DEF NetInv
    <3> QED  BY <2>5, <3>1
  <2> QED  BY <2>4, <2>6, <2>7
<1> QED  BY <1>1, ValuesInvariant, PTL

=============================================================================
