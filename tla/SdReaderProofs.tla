---------------------------- MODULE SdReaderProofs ----------------------------
(***************************************************************************)
(* Proofs about SdReader, for every kind of card, every number of words,   *)
(* blocks and faults, every volume and every order of the tests: card and  *)
(* host agree on every transfer (TransfersWhole).                          *)
(*                                                                         *)
(* The program is a stack of instructions, so the inductive invariant      *)
(* SdInv lists the stacks it can have (Point): the program is finding the  *)
(* card (Locating), reading, writing or streaming (Transferring), in the   *)
(* loop of the screens or between two tests (Resting), or at the end       *)
(* (Ending).  Each point says what has been agreed with the card by then   *)
(* (Agreed), what of the data is on its way (Started and NotStarted for a  *)
(* read; Accounts, with Takes and HasTaken, for a write), and which flags  *)
(* of the controller may be up.  Two sets of points are exempt, as the     *)
(* properties are: reads after a stream test has failed (Calm), and writes *)
(* after the second read or after a fault of the data line (Exact).        *)
(* Always is what holds between instructions too: where the bytes in the   *)
(* buffers are, and how many faults are left.                              *)
(*                                                                         *)
(* The order: the definitions; what a command does to the card; the stack; *)
(* which points an instruction is found at; the steps of the card, of a    *)
(* command, of finding the card, of each transfer, and of the display      *)
(* loop; the theorems.                                                     *)
(***************************************************************************)
EXTENDS SdReader, Integers, WellFoundedInduction, TLAPS

-----------------------------------------------------------------------------
(* Types. *)

Sectors == Int \cup {Null}
WordSet == Sectors \X Int
CardSet ==
    [kind: {"none", "SD", "SDHS", "MMC"}, st: {"idle", "ready", "ident", "stby"} \union Selected,
     rca: 0..3, wide: BOOLEAN, app: BOOLEAN, sector: Int, index: 0..(Words + 1), multi: BOOLEAN]
Room == Words * Blocks
Total == Words * block
CtlSet == [left: 0..Room, fin: BOOLEAN, tmo: BOOLEAN, busy: BOOLEAN]

Typed ==
    /\ scenario \in Scenarios
    /\ card \in CardSet /\ card.kind = scenario.kind
    /\ rsp \in [is: {"none", "r1", "ocr", "rca", "garbled"}, rca: (0..3) \cup {Garbled}]
    /\ ctl \in CtlSet
    /\ fifo \in Seq(WordSet) /\ Len(fifo) <= FifoDepth
    /\ RCA \in (0..3) \union {Garbled} /\ MMC \in BOOLEAN /\ Wide \in BOOLEAN
    /\ block \in 0..Blocks
    /\ rd_cnt \in 0..Room /\ wt_cnt \in 0..Room /\ tx \in Nat
    /\ Rx \in [0..(Room - 1) -> WordSet] /\ Data_buffer \in [0..(Bytes - 1) -> WordSet]
    /\ asked \in Sectors
    /\ j \in 0..2
    /\ faults \in 0..scenario.faults /\ operations \in 0..scenario.operations
    /\ dataFaults \in 0..(scenario.dataFaults + operations)

ReaderTyped ==
    /\ h \in 0..12 /\ Len(remainder) \in 0..2 /\ page_addr \in Nat
    /\ Root_Directory.cluster \in Nat
    /\ scenario.operations = 0 /\ work[Len(work)].op \notin {"Read_BPB", "BPB"} =>
        /\ SecPerClus = volume.SecPerClus /\ RsvdSec = volume.RsvdSec /\ RootDirNum = volume.RootDirNum
        /\ RootDirAddr = volume.Fatsz16 * 2 + volume.RsvdSec + RootBase
        /\ Data_start_Addr = RootDirAddr + RootDirNum \div Words

-----------------------------------------------------------------------------
(* What the parts rest on. *)

\* The tests of an MMC card, in which reads may be streams.
MmcTests == scenario.kind = "MMC" /\ scenario.operations > 0
Calm == MmcTests => dataFaults = 0
Exact == j # 2 /\ dataFaults = 0

Listening ==
    \/ At("Rd_Block") \/ At("receive") \/ At("Rd_Stream") \/ At("CMD11") \/ At("stream")
    \/ At("cmd") /\ Head(work).n \in {17, 18}
Asking == At("receive") \/ (At("cmd") /\ Head(work).n \in {17, 18})
InPlace(f, n) == \A k \in 0..(n - 1) : f[k][2] = k
WholeBuffer == dataFaults = 0 /\ asked # Null => \A n \in 0..(Bytes - 1) : Data_buffer[n] = <<asked, n>>

Always ==
    /\ ctl.tmo => dataFaults > 0
    /\ card.kind = "MMC" => ~card.wide
    /\ MMC => card.kind = "MMC"
    /\ scenario.operations > 0 /\ ~ctl.tmo /\ Listening => dataFaults < scenario.dataFaults + operations
    /\ ~MmcTests => InPlace(Rx, Words)
    /\ Calm => InPlace(Data_buffer, Bytes)
    /\ Asking \/ WholeBuffer

-----------------------------------------------------------------------------
(* The points of the program. *)

Bottom == work[Len(work)]
BottomOps == {"tests", "Read_BPB", "BPB", "screen", "key", "paused", "stopped", "root", "rootLook",
              "dir", "first", "cluster", "pixels", "FAT", "shown"}
IsStack(w) == w \in Seq({w[i] : i \in DOMAIN w})
On(s) ==
    /\ work # <<>> /\ Bottom.op \in BottomOps /\ (Bottom.op = "tests" <=> scenario.operations > 0)
    /\ Len(work) = Len(s) + 1 /\ \A i \in 1..Len(s) : work[i] = s[i]
Early == Bottom.op \in {"tests", "Read_BPB"}

Agreed == RCA # 0 => card.rca = RCA /\ card.st \in Selected /\ (card.kind # "SDHS" => card.wide = Wide)

\* No word of the card is on its way.
Silent == card.st = "data" => card.index >= Words /\ (card.multi => card.index > Words)
Quiet == Calm => ~ctl.tmo /\ Silent
Over == card.st \in {"data", "rcv"} => card.index > Words
FinIsOver == ctl.fin => ctl.left = 0 /\ Over
NoneLeft == ~ctl.fin /\ card.st # "rcv" /\ Over
Still == Quiet /\ (Exact => NoneLeft)

Ending == scenario.operations > 0 /\ work \in {<<I("deselect"), Once(9)>>, <<Once(9)>>, <<>>}
Resting == On(<<>>) /\ (block >= 1 \/ Early) /\ Agreed /\ Still

Finds == On(<<I("Test_SDI")>>)
TriesOcr ==
    /\ RCA = 0 /\ ~MMC
    /\ \/ At("ocr") /\ On(<<work[1]>>) /\ work[1].n \in {1, 41}
       \/ On(<<Once(55), work[2]>>) /\ work[2].op = "ocr" /\ work[2].n = 41
Known == card.kind # "none" /\ (MMC <=> card.kind = "MMC")
FollowsOcr == On(<<Cmd(2, 0), I("CMD3"), I("published")>>) /\ card.st \in {"ready", "ident"}
AsksAddress ==
    /\ \/ On(<<I("CMD3"), I("published")>>)
       \/ On(<<Cmd(3, IF MMC THEN 1 ELSE 0), I("published")>>)
    /\ card.st \in {"ident", "stby"}
HasAddress ==
    /\ On(<<I("published")>>)
    /\ card.st = "stby" /\ (IF MMC THEN card.rca = 1 ELSE rsp.rca \in {card.rca, Garbled})
Selects ==
    /\ On(<<Cmd(7, 0), I("selected"), I("Set_bus"), I("TR_Buf_new")>>)
    /\ card.st \in {"stby", "tran"} /\ RCA \in {card.rca, Garbled}
IsSelected ==
    /\ \/ On(<<I("selected"), I("Set_bus"), I("TR_Buf_new")>>)
       \/ On(<<I("Set_bus"), I("TR_Buf_new")>>)
    /\ card.st = "tran" /\ RCA = card.rca
SetsBus ==
    /\ \/ On(<<Once(55), I("SetBus"), I("TR_Buf_new")>>)
       \/ On(<<I("SetBus"), I("TR_Buf_new")>>)
    /\ card.st = "tran" /\ RCA = card.rca /\ Wide /\ ~MMC
IsReady == On(<<I("TR_Buf_new")>>) /\ Agreed
Locating ==
    /\ Early /\ Still
    /\ \/ Finds \/ TriesOcr
       \/ Known /\ (FollowsOcr \/ AsksAddress \/ HasAddress \/ Selects \/ IsSelected \/ SetsBus)
       \/ IsReady

-----------------------------------------------------------------------------
(* A read. *)

NotStarted == ctl.left = Total /\ fifo = <<>> /\ rd_cnt = 0 /\ Silent
Started ==
    /\ ctl.left + Len(fifo) + rd_cnt = Total
    /\ \A k \in 1..Len(fifo) : rd_cnt + k - 1 < Words => fifo[k] = <<asked, rd_cnt + k - 1>>
    /\ \A p \in 0..(Words - 1) : p < rd_cnt => Rx[p] = <<asked, p>>
    /\ card.st = "data" => (card.multi <=> block >= 2)
    /\ IF ctl.left > 0
       THEN /\ card.st = "data" /\ card.index <= Words
            /\ Total - ctl.left < Words => card.sector = asked /\ card.index = Total - ctl.left
       ELSE block < 2 /\ card.st = "data" => card.index >= Words

StartsRead == At("Rd_Block") /\ On(<<work[1]>>) /\ work[1].sector \in Int /\ Still
SendsRead ==
    /\ asked \in Int /\ On(<<Cmd(IF block < 2 THEN 17 ELSE 18, asked), I("receive")>>)
    /\ Calm => ~ctl.tmo /\ (NotStarted \/ Started)
    /\ Exact => card.st # "rcv" /\ FinIsOver
Receives ==
    /\ On(<<I("receive")>>)
    /\ Calm => IF ctl.tmo THEN ctl.left = 0 /\ rd_cnt < Total /\ (block >= 2 \/ Silent) ELSE Started
    /\ Exact => card.st # "rcv" /\ FinIsOver
AwaitsEnd ==
    /\ IF block < 2 THEN On(<<I("Chk_DATend"), I("DATclear")>>)
       ELSE On(<<I("Chk_DATend"), I("DATclear"), Cmd(12, 0)>>)
    /\ Calm => ~ctl.tmo /\ (block >= 2 \/ Silent)
    /\ Exact => card.st # "rcv" /\ FinIsOver
ClearsEnd ==
    /\ IF block < 2 THEN On(<<I("DATclear")>>) ELSE On(<<I("DATclear"), Cmd(12, 0)>>)
    /\ Calm => ~ctl.tmo /\ (block >= 2 \/ Silent)
    /\ Exact => card.st # "rcv" /\ Over
Stops == On(<<Cmd(12, 0)>>) /\ (Calm => ~ctl.tmo) /\ (Exact => ~ctl.fin /\ Over)
Reading == StartsRead \/ SendsRead \/ Receives \/ AwaitsEnd \/ ClearsEnd \/ Stops

-----------------------------------------------------------------------------
(* A write. *)

Origin == tx - wt_cnt
Gone == Total - ctl.left
Before(b) == Words * (b - 1)
Stored(b, n) == b \in DOMAIN store /\ store[b] = [i \in 1..n |-> Origin + Before(b) + i - 1]
AllStored == \A b \in 1..block : Stored(b, Words)
Takes ==
    /\ card.st = "rcv" /\ card.index <= Words /\ (card.multi <=> block >= 2) /\ ~ctl.fin
    /\ card.sector \in 1..block /\ Gone = Before(card.sector) + card.index
    /\ \A b \in 1..(card.sector - 1) : Stored(b, Words)
    /\ card.index > 0 => Stored(card.sector, card.index)
HasTaken ==
    /\ ctl.left = 0 /\ card.st # "data" /\ (card.st = "rcv" => card.index > Words /\ block >= 2)
    /\ AllStored
Accounts ==
    /\ Gone + Len(fifo) = wt_cnt /\ Origin >= 0
    /\ \A k \in 1..Len(fifo) : fifo[k] = <<Null, Origin + Gone + k - 1>>
    /\ Takes \/ HasTaken

StartsWrite == On(<<I("Wt_Block")>>) /\ Still
SendsWrite ==
    /\ IF block < 2
       THEN On(<<Cmd(24, 1), I("transmit"), I("Chk_DATend"), I("DATclear"), I("written")>>)
       ELSE On(<<Cmd(25, 1), I("transmit"), I("Chk_DATend"), I("DATclear"), Cmd(12, 0), I("Chk_BUSYend"),
                 I("written")>>)
    /\ Quiet
    /\ Exact => /\ fifo = <<>> /\ ctl.left = Total /\ wt_cnt = 0
                /\ NoneLeft \/ (Takes /\ card.index = 0)
Transmits ==
    /\ IF block < 2
       THEN On(<<I("transmit"), I("Chk_DATend"), I("DATclear"), I("written")>>)
       ELSE On(<<I("transmit"), I("Chk_DATend"), I("DATclear"), Cmd(12, 0), I("Chk_BUSYend"), I("written")>>)
    /\ Quiet
    /\ Exact => Accounts /\ wt_cnt <= Total
AwaitsWritten ==
    /\ IF block < 2
       THEN On(<<I("Chk_DATend"), I("DATclear"), I("written")>>)
       ELSE On(<<I("Chk_DATend"), I("DATclear"), Cmd(12, 0), I("Chk_BUSYend"), I("written")>>)
    /\ Quiet
    /\ Exact => Accounts /\ wt_cnt = Total
ClearsWritten ==
    /\ IF block < 2 THEN On(<<I("DATclear"), I("written")>>)
       ELSE On(<<I("DATclear"), Cmd(12, 0), I("Chk_BUSYend"), I("written")>>)
    /\ Quiet
    /\ Exact => HasTaken /\ wt_cnt = Total
StopsWrite ==
    /\ block >= 2 /\ On(<<Cmd(12, 0), I("Chk_BUSYend"), I("written")>>)
    /\ Quiet
    /\ Exact => ~ctl.fin /\ Over /\ AllStored /\ wt_cnt = Total
Programs ==
    /\ On(<<I("Chk_BUSYend"), I("written")>>) \/ On(<<I("written")>>)
    /\ Still
    /\ Exact => AllStored /\ wt_cnt = Total
Writing == StartsWrite \/ SendsWrite \/ Transmits \/ AwaitsWritten \/ ClearsWritten \/ StopsWrite \/ Programs

-----------------------------------------------------------------------------
(* Streams of an MMC card, and the other tests. *)

Sends == card.st = "data" /\ card.multi
StartsStream ==
    /\ At("Rd_Stream") /\ On(<<work[1]>>) /\ work[1].taken \in Nat
    /\ IF MMC THEN Exact => Sends \/ NoneLeft ELSE Still
SendsStream ==
    /\ MMC /\ At("CMD11") /\ On(<<work[1]>>) /\ work[1].taken \in Nat
    /\ Exact => Sends \/ NoneLeft
Streams ==
    /\ MMC /\ At("stream") /\ On(<<work[1]>>) /\ work[1].taken \in Nat /\ work[1].end \in BOOLEAN
    /\ Exact => IF work[1].end THEN Sends /\ FinIsOver ELSE Sends \/ NoneLeft
StartsStreamOut == On(<<I("Wt_Stream")>>) /\ Still
Absorbs == card.st = "rcv" /\ card.multi /\ FinIsOver
SendsStreamOut ==
    /\ MMC /\ On(<<Cmd(20, 1), [op |-> "streamOut", sent |-> 0], Cmd(12, 0), I("Chk_BUSYend")>>)
    /\ Quiet
    /\ Exact => NoneLeft \/ Absorbs
StreamsOut ==
    /\ MMC /\ At("streamOut") /\ On(<<work[1], Cmd(12, 0), I("Chk_BUSYend")>>) /\ work[1].sent \in Nat
    /\ Quiet
    /\ Exact => Absorbs
StopsStreamOut ==
    /\ On(<<Cmd(12, 0), I("Chk_BUSYend")>>)
    /\ Quiet
    /\ Exact => ~ctl.fin /\ Over
Flushes == On(<<I("Chk_BUSYend")>>) /\ Still
Streaming ==
    /\ Bottom.op = "tests"
    /\ \/ StartsStream \/ SendsStream \/ Streams
       \/ StartsStreamOut \/ SendsStreamOut \/ StreamsOut \/ StopsStreamOut \/ Flushes

OtherTests ==
    /\ Bottom.op = "tests" /\ Still
    /\ On(<<I("CMD13")>>) \/ On(<<Cmd(28, 0)>>) \/ On(<<Cmd(29, 0)>>) \/ On(<<I("View_Rx_buf")>>)

Transferring == block >= 1 /\ Agreed /\ (Reading \/ Writing \/ Streaming \/ OtherTests)

Point ==
    /\ IsStack(work)
    /\ Ending \/ Resting \/ Locating \/ Transferring

SdInv == Typed /\ ReaderTyped /\ Always /\ Point

-----------------------------------------------------------------------------
(* What a command can come to. *)

LEMMA Sizes == Words \in Nat /\ Words >= 1 /\ Blocks \in Nat /\ Blocks >= 1 /\ FifoDepth \in Nat /\ FifoDepth >= 1
               /\ Bytes \in Nat /\ Bytes = 4 * Words
  BY SdAssumption DEF SdAssumption, Bytes

LEMMA Times == ASSUME NEW a \in Nat, NEW b \in Nat, NEW c \in Nat, a <= b PROVE c * a \in Nat /\ c * b \in Nat /\ c * a <= c * b
  OBVIOUS

LEMMA TotalSize ==
    ASSUME Typed
    PROVE  /\ Total \in 0..Room /\ Room \in Nat
           /\ block >= 1 => Total >= Words
           /\ block = 1 => Total = Words
           /\ block = 0 => Total = 0
  <1>1. block \in Nat /\ block <= Blocks
    BY Sizes DEF Typed
  <1>2. Words * block <= Words * Blocks /\ Words * block \in Nat
    BY <1>1, Times, Sizes
  <1>3. block >= 1 => Words * 1 <= Words * block
    BY <1>1, Times, Sizes
  <1> QED BY <1>1, <1>2, <1>3, Sizes DEF Total, Room

LEMMA ExchangeCases ==
    ASSUME NEW n, NEW arg, NEW o \in Chk_CMDend(n, arg), Typed
    PROVE  /\ o.end \in BOOLEAN
           /\ o.faults \in 0..scenario.faults
           /\ o.end => \E d \in CardDoes(n, arg) :
                        o.card = d.card /\ o.rsp \in {d.rsp, [is |-> "garbled", rca |-> Garbled]}
           /\ ~o.end => /\ o.rsp = rsp
                        /\ \/ o.card = card \/ o.card = [card EXCEPT !.app = FALSE]
                           \/ \E d \in CardDoes(n, arg) : o.card = d.card
  <1>1. faults \in 0..scenario.faults /\ scenario.faults \in Nat
    BY SdAssumption DEF Typed, SdAssumption
  <1> DEFINE does == CardDoes(n, arg)
  <1>2. CASE \E d \in does : o = [card |-> d.card, rsp |-> d.rsp, end |-> TRUE, faults |-> faults]
    <2>1. PICK d \in does : o = [card |-> d.card, rsp |-> d.rsp, end |-> TRUE, faults |-> faults]
      BY <1>2
    <2> QED BY <1>1, <2>1
  <1>3. CASE o = [card |-> [card EXCEPT !.app = FALSE], rsp |-> rsp, end |-> FALSE, faults |-> faults]
    BY <1>1, <1>3
  <1>4. CASE faults < scenario.faults
             /\ \E c \in {d.card : d \in does} \union {card} : o = [card |-> c, rsp |-> rsp, end |-> FALSE, faults |-> faults + 1]
    BY <1>1, <1>4
  <1>5. CASE faults < scenario.faults
             /\ \E d \in does : o = [card |-> d.card, rsp |-> [is |-> "garbled", rca |-> Garbled], end |-> TRUE, faults |-> faults + 1]
    BY <1>1, <1>5
  <1> QED BY <1>2, <1>3, <1>4, <1>5 DEF Chk_CMDend

MovedTo(c, st) ==
    /\ c.kind = card.kind /\ c.st = st /\ c.rca = card.rca /\ c.wide = card.wide
    /\ c.sector = card.sector /\ c.index = card.index /\ c.multi = card.multi
RspSet == [is: {"none", "r1", "ocr", "rca", "garbled"}, rca: (0..3) \cup {Garbled}]

\* What the card answers to each command.
Unmarked == [card EXCEPT !.app = FALSE]
R1Of(c) == [card |-> c, rsp |-> [is |-> "r1", rca |-> 0]]
OcrOf(c) == [card |-> c, rsp |-> [is |-> "ocr", rca |-> 0]]

LEMMA AskDoes ==
    ASSUME NEW n \in {9, 13, 28, 29}, NEW arg, NEW d \in CardDoes(n, arg)
    PROVE  d = R1Of(Unmarked)
  BY DEF CardDoes, R1Of, Unmarked

LEMMA Does55 ==
    ASSUME NEW arg, NEW d \in CardDoes(55, arg)
    PROVE  d = R1Of([Unmarked EXCEPT !.app = TRUE])
  BY DEF CardDoes, R1Of, Unmarked

LEMMA Does1 ==
    ASSUME NEW arg, NEW d \in CardDoes(1, arg)
    PROVE  Unmarked.kind = "MMC" /\ Unmarked.st = "idle" /\ d \in {R1Of(Unmarked), OcrOf([Unmarked EXCEPT !.st = "ready"])}
  BY DEF CardDoes, R1Of, Unmarked, OcrOf

LEMMA Does41 ==
    ASSUME NEW arg, NEW d \in CardDoes(41, arg)
    PROVE  Unmarked.kind \in {"SD", "SDHS"} /\ Unmarked.st = "idle" /\ d \in {R1Of(Unmarked), OcrOf([Unmarked EXCEPT !.st = "ready"])}
  BY DEF CardDoes, R1Of, Unmarked, OcrOf

LEMMA Does2 ==
    ASSUME NEW arg, NEW d \in CardDoes(2, arg)
    PROVE  Unmarked.st = "ready" /\ d = R1Of([Unmarked EXCEPT !.st = "ident"])
  BY DEF CardDoes, R1Of, Unmarked

LEMMA Does3 ==
    ASSUME NEW arg, NEW d \in CardDoes(3, arg)
    PROVE
   \/ Unmarked.kind \in {"SD", "SDHS"} /\ d = [card |-> [Unmarked EXCEPT !.st = "stby", !.rca = Publishes(Unmarked)], rsp |-> [is |-> "rca", rca |-> Publishes(Unmarked)]]
   \/ Unmarked.kind \notin {"SD", "SDHS"} /\ d = R1Of([Unmarked EXCEPT !.st = "stby", !.rca = arg])
  BY DEF CardDoes, R1Of, Unmarked

LEMMA Does7 ==
    ASSUME NEW arg, NEW d \in CardDoes(7, arg)
    PROVE  Unmarked.st = "stby" /\ Unmarked.rca = arg /\ d = R1Of([Unmarked EXCEPT !.st = "tran"])
  BY DEF CardDoes, R1Of, Unmarked

LEMMA Does6 ==
    ASSUME NEW arg, NEW d \in CardDoes(6, arg)
    PROVE  Unmarked.st = "tran" /\ Unmarked.kind \in {"SD", "SDHS"} /\ (card.app \/ Unmarked.kind = "SDHS")
    /\ d = R1Of(IF card.app THEN [Unmarked EXCEPT !.wide = (arg = 1)] ELSE Unmarked)
  BY DEF CardDoes, R1Of, Unmarked

LEMMA Does12 ==
    ASSUME NEW arg, NEW d \in CardDoes(12, arg)
    PROVE
   \/ Unmarked.st = "data" /\ d = R1Of([Unmarked EXCEPT !.st = "tran"])
   \/ Unmarked.st \in {"rcv", "prg"} /\ d = R1Of([Unmarked EXCEPT !.st = "prg"])
  BY DEF CardDoes, R1Of, Unmarked
To(st, multi, arg) == [Unmarked EXCEPT !.st = st, !.sector = arg, !.multi = multi, !.index = IF ctl.left > 0 THEN 0 ELSE Words + 1]

LEMMA ReadDoes ==
    ASSUME NEW n \in {11, 18}, NEW arg, NEW d \in CardDoes(n, arg)
    PROVE  Unmarked.st = "tran" /\ d = R1Of(To("data", TRUE, arg))
  BY DEF CardDoes, R1Of, Unmarked, To

LEMMA WriteDoes ==
    ASSUME NEW n \in {20, 25}, NEW arg, NEW d \in CardDoes(n, arg)
    PROVE  Unmarked.st = "tran" /\ d = R1Of(To("rcv", TRUE, arg))
  BY DEF CardDoes, R1Of, Unmarked, To

LEMMA Does17 ==
    ASSUME NEW arg, NEW d \in CardDoes(17, arg)
    PROVE  Unmarked.st = "tran" /\ d = R1Of(To("data", FALSE, arg))
  BY DEF CardDoes, R1Of, Unmarked, To

LEMMA Does24 ==
    ASSUME NEW arg, NEW d \in CardDoes(24, arg)
    PROVE  Unmarked.st = "tran" /\ d = R1Of(To("rcv", FALSE, arg))
  BY DEF CardDoes, R1Of, Unmarked, To

LEMMA UnmarkedTyped == Typed => Unmarked \in CardSet /\ MovedTo(Unmarked, card.st)
  BY DEF Typed, CardSet, Unmarked, MovedTo

LEMMA DoesAsk ==
    ASSUME Typed, NEW n \in {9, 13, 28, 29, 55}, NEW arg, NEW d \in CardDoes(n, arg)
    PROVE  d.card \in CardSet /\ MovedTo(d.card, card.st) /\ d.rsp = [is |-> "r1", rca |-> 0]
  <1>1. d \in {R1Of(Unmarked), R1Of([Unmarked EXCEPT !.app = TRUE])}
    BY AskDoes, Does55
  <1>2. Unmarked \in CardSet /\ MovedTo(Unmarked, card.st)
    BY UnmarkedTyped
  <1>3. CASE d = R1Of(Unmarked)
    BY <1>2, <1>3 DEF R1Of
  <1>4. CASE d = R1Of([Unmarked EXCEPT !.app = TRUE])
    <2>1. [Unmarked EXCEPT !.app = TRUE] \in CardSet /\ MovedTo([Unmarked EXCEPT !.app = TRUE], card.st)
      BY <1>2 DEF CardSet, MovedTo
    <2> QED BY <1>4, <2>1 DEF R1Of
  <1> QED BY <1>1, <1>3, <1>4

LEMMA DoesPowerUp ==
    ASSUME Typed, NEW n \in {1, 41}, NEW arg, NEW d \in CardDoes(n, arg)
    PROVE  /\ d.card \in CardSet /\ d.rsp \in RspSet
           /\ \/ MovedTo(d.card, card.st) /\ d.rsp.is # "ocr"
              \/ MovedTo(d.card, "ready") /\ card.st = "idle" /\ card.kind # "none" /\ (n = 1 <=> card.kind = "MMC")
  <1>1. /\ Unmarked.st = "idle" /\ d \in {R1Of(Unmarked), OcrOf([Unmarked EXCEPT !.st = "ready"])}
        /\ Unmarked.kind # "none" /\ (n = 1 <=> Unmarked.kind = "MMC")
    BY Does1, Does41
  <1> QED BY <1>1, UnmarkedTyped DEF R1Of, OcrOf, CardSet, MovedTo, RspSet

LEMMA DoesFollow ==
    ASSUME Typed, NEW arg, NEW d \in CardDoes(2, arg)
    PROVE  d.card \in CardSet /\ d.rsp \in RspSet /\ card.st = "ready" /\ MovedTo(d.card, "ident")
  BY Does2, UnmarkedTyped DEF R1Of, CardSet, MovedTo, RspSet

LEMMA DoesAddress ==
    ASSUME Typed, NEW arg \in 0..3, NEW d \in CardDoes(3, arg)
    PROVE  /\ d.card \in CardSet /\ d.rsp \in RspSet /\ d.card.st = "stby"
           /\ d.card.kind = card.kind /\ d.card.wide = card.wide
           /\ IF card.kind = "MMC" THEN d.card.rca = arg ELSE card.kind # "none" => d.rsp.rca = d.card.rca
  <1>1. Publishes(Unmarked) \in 0..3
    BY DEF Publishes
  <1>2. Unmarked \in CardSet /\ MovedTo(Unmarked, card.st)
    BY UnmarkedTyped
  <1>3. CASE d = R1Of([Unmarked EXCEPT !.st = "stby", !.rca = arg]) /\ Unmarked.kind \notin {"SD", "SDHS"}
    <2> DEFINE c == [Unmarked EXCEPT !.st = "stby", !.rca = arg]
    <2>1. c \in CardSet /\ c.st = "stby" /\ c.kind = card.kind /\ c.wide = card.wide /\ c.rca = arg
      BY <1>2 DEF CardSet, MovedTo
    <2>2. d.card = c /\ d.rsp = [is |-> "r1", rca |-> 0]
      BY <1>3 DEF R1Of
    <2>3. Unmarked.kind \in {"none", "SD", "SDHS", "MMC"} /\ Unmarked.kind = card.kind
      BY <1>2 DEF CardSet, MovedTo
    <2> HIDE DEF c
    <2> QED BY <1>3, <2>1, <2>2, <2>3 DEF RspSet
  <1>4. CASE /\ Unmarked.kind \in {"SD", "SDHS"}
             /\ d = [card |-> [Unmarked EXCEPT !.st = "stby", !.rca = Publishes(Unmarked)],
                     rsp |-> [is |-> "rca", rca |-> Publishes(Unmarked)]]
    <2> DEFINE p == Publishes(Unmarked)
               c == [Unmarked EXCEPT !.st = "stby", !.rca = p]
    <2> HIDE DEF p
    <2>1. c \in CardSet /\ c.st = "stby" /\ c.kind = card.kind /\ c.wide = card.wide /\ c.rca = p
      BY <1>1, <1>2 DEF CardSet, MovedTo, p
    <2>2. d = [card |-> c, rsp |-> [is |-> "rca", rca |-> p]]
      BY <1>4 DEF p
    <2>3. d.card = c /\ d.rsp = [is |-> "rca", rca |-> p]
      BY <2>2
    <2>4. Unmarked.kind = card.kind /\ p \in 0..3
      BY <1>1, <1>2 DEF MovedTo, p
    <2> HIDE DEF c
    <2> QED BY <1>4, <2>1, <2>3, <2>4 DEF RspSet
  <1> QED BY <1>3, <1>4, Does3

LEMMA DoesSelect ==
    ASSUME Typed, NEW arg, NEW d \in CardDoes(7, arg)
    PROVE  /\ d.card \in CardSet /\ d.rsp \in RspSet
           /\ card.st = "stby" /\ card.rca = arg /\ MovedTo(d.card, "tran")
  BY Does7, UnmarkedTyped DEF R1Of, CardSet, MovedTo, RspSet, Selected

LEMMA DoesSetBus ==
    ASSUME Typed, NEW arg \in {0, 1}, NEW d \in CardDoes(6, arg)
    PROVE  /\ d.card \in CardSet /\ d.rsp \in RspSet /\ card.kind \in {"SD", "SDHS"}
           /\ d.card.kind = card.kind /\ d.card.st = card.st /\ card.st = "tran" /\ d.card.rca = card.rca
           /\ d.card.index = card.index /\ d.card.multi = card.multi
           /\ card.kind = "SD" => d.card.wide = (arg = 1)
  <1>1. Unmarked \in CardSet /\ MovedTo(Unmarked, card.st)
    BY UnmarkedTyped
  <1>2. /\ Unmarked.st = "tran" /\ Unmarked.kind \in {"SD", "SDHS"} /\ (card.app \/ Unmarked.kind = "SDHS")
        /\ d = R1Of(IF card.app THEN [Unmarked EXCEPT !.wide = (arg = 1)] ELSE Unmarked)
    BY Does6
  <1>3. CASE card.app
    <2> DEFINE w == (arg = 1)
               c == [Unmarked EXCEPT !.wide = w]
    <2>1. w \in BOOLEAN
      OBVIOUS
    <2> HIDE DEF w
    <2>2. c \in CardSet /\ c.wide = w /\ c.st = card.st /\ c.kind = card.kind /\ c.rca = card.rca
          /\ c.index = card.index /\ c.multi = card.multi
      BY <1>1, <2>1 DEF CardSet, MovedTo
    <2>3. d = R1Of(c)
      BY <1>2, <1>3 DEF w
    <2>4. d.card = c /\ d.rsp = [is |-> "r1", rca |-> 0]
      BY <2>3 DEF R1Of
    <2> HIDE DEF c
    <2> QED BY <1>1, <1>2, <2>2, <2>4 DEF RspSet, MovedTo, w
  <1>4. CASE ~card.app
    <2>1. d.card = Unmarked /\ d.rsp = [is |-> "r1", rca |-> 0]
      BY <1>2, <1>4 DEF R1Of
    <2> QED BY <1>1, <1>2, <1>4, <2>1 DEF RspSet, MovedTo
  <1> QED BY <1>3, <1>4

LEMMA DoesStop ==
    ASSUME Typed, NEW arg, NEW d \in CardDoes(12, arg)
    PROVE  /\ d.card \in CardSet /\ d.rsp \in RspSet
           /\ \/ card.st = "data" /\ MovedTo(d.card, "tran")
              \/ card.st \in {"rcv", "prg"} /\ MovedTo(d.card, "prg")
  BY Does12, UnmarkedTyped DEF R1Of, CardSet, MovedTo, RspSet, Selected

LEMMA DoesTransfer ==
    ASSUME Typed, NEW n \in {11, 17, 18, 20, 24, 25}, NEW arg \in Int, NEW d \in CardDoes(n, arg)
    PROVE  /\ d.card \in CardSet /\ d.rsp \in RspSet /\ card.st = "tran"
           /\ d.card.kind = card.kind /\ d.card.rca = card.rca /\ d.card.wide = card.wide
           /\ d.card.st = IF n \in {11, 17, 18} THEN "data" ELSE "rcv"
           /\ d.card.multi <=> n \notin {17, 24}
           /\ d.card.sector = arg /\ d.card.index = IF ctl.left > 0 THEN 0 ELSE Words + 1
  <1>1. Words + 1 \in 0..(Words + 1) /\ 0 \in 0..(Words + 1)
    BY Sizes
  <1>2. ASSUME NEW st \in {"data", "rcv"}, NEW multi \in BOOLEAN
        PROVE  LET c == To(st, multi, arg)
               IN  /\ c \in CardSet /\ c.kind = card.kind /\ c.rca = card.rca /\ c.wide = card.wide
                   /\ c.st = st /\ c.multi = multi /\ c.sector = arg
                   /\ c.index = IF ctl.left > 0 THEN 0 ELSE Words + 1
    BY <1>1, UnmarkedTyped DEF To, CardSet, MovedTo, Selected
  <1>3. Unmarked.st = card.st /\ [is |-> "r1", rca |-> 0] \in RspSet
    BY UnmarkedTyped DEF MovedTo, RspSet
  <1>4. ASSUME NEW st \in {"data", "rcv"}, NEW multi \in BOOLEAN, Unmarked.st = "tran", d = R1Of(To(st, multi, arg)),
               st = (IF n \in {11, 17, 18} THEN "data" ELSE "rcv"), multi <=> n \notin {17, 24}
        PROVE  /\ d.card \in CardSet /\ d.rsp \in RspSet /\ card.st = "tran"
               /\ d.card.kind = card.kind /\ d.card.rca = card.rca /\ d.card.wide = card.wide
               /\ d.card.st = IF n \in {11, 17, 18} THEN "data" ELSE "rcv"
               /\ d.card.multi <=> n \notin {17, 24}
               /\ d.card.sector = arg /\ d.card.index = IF ctl.left > 0 THEN 0 ELSE Words + 1
    <2> DEFINE c == To(st, multi, arg)
    <2>1. d.card = c /\ d.rsp = [is |-> "r1", rca |-> 0]
      BY <1>4 DEF R1Of
    <2>2. /\ c \in CardSet /\ c.kind = card.kind /\ c.rca = card.rca /\ c.wide = card.wide
          /\ c.st = st /\ c.multi = multi /\ c.sector = arg
          /\ c.index = IF ctl.left > 0 THEN 0 ELSE Words + 1
      BY <1>2
    <2> HIDE DEF c
    <2> QED BY <1>3, <1>4, <2>1, <2>2
  <1>5. CASE n \in {11, 18}
    <2>1. Unmarked.st = "tran" /\ d = R1Of(To("data", TRUE, arg))
      BY <1>5, ReadDoes
    <2>2. "data" = (IF n \in {11, 17, 18} THEN "data" ELSE "rcv") /\ (n \notin {17, 24})
      BY <1>5
    <2> QED BY <1>4, <2>1, <2>2
  <1>6. CASE n \in {20, 25}
    <2>1. Unmarked.st = "tran" /\ d = R1Of(To("rcv", TRUE, arg))
      BY <1>6, WriteDoes
    <2>2. "rcv" = (IF n \in {11, 17, 18} THEN "data" ELSE "rcv") /\ (n \notin {17, 24})
      BY <1>6
    <2> QED BY <1>4, <2>1, <2>2
  <1>7. CASE n = 17
    <2>1. Unmarked.st = "tran" /\ d = R1Of(To("data", FALSE, arg))
      BY <1>7, Does17
    <2>2. "data" = (IF n \in {11, 17, 18} THEN "data" ELSE "rcv") /\ ~(n \notin {17, 24})
      BY <1>7
    <2> QED BY <1>4, <2>1, <2>2
  <1>8. CASE n = 24
    <2>1. Unmarked.st = "tran" /\ d = R1Of(To("rcv", FALSE, arg))
      BY <1>8, Does24
    <2>2. "rcv" = (IF n \in {11, 17, 18} THEN "data" ELSE "rcv") /\ ~(n \notin {17, 24})
      BY <1>8
    <2> QED BY <1>4, <2>1, <2>2
  <1> QED BY <1>5, <1>6, <1>7, <1>8

DoneCommands == {1, 2, 3, 6, 7, 9, 11, 12, 13, 17, 18, 20, 24, 25, 28, 29, 41, 55}

\* Whatever comes of a command, card, response and count have their types.
LEMMA OutcomeTyped ==
    ASSUME Typed, NEW n \in DoneCommands, NEW arg \in Int, n = 3 => arg \in 0..3, n = 6 => arg \in {0, 1},
           NEW o \in Chk_CMDend(n, arg)
    PROVE  o.card \in CardSet /\ o.card.kind = card.kind /\ o.rsp \in RspSet /\ o.faults \in 0..scenario.faults
  <1>1. ASSUME NEW d \in CardDoes(n, arg) PROVE d.card \in CardSet /\ d.card.kind = card.kind /\ d.rsp \in RspSet
    <2>1. CASE n \in {9, 13, 28, 29, 55}
      <3>1. d.card \in CardSet /\ d.card.kind = card.kind /\ d.rsp = [is |-> "r1", rca |-> 0]
        BY <2>1, DoesAsk DEF MovedTo
      <3> QED BY <3>1 DEF RspSet
    <2>2. CASE n \in {1, 41}
      BY <2>2, DoesPowerUp DEF MovedTo
    <2>3. CASE n \in {2, 3, 7, 6, 12}
      BY <2>3, DoesFollow, DoesAddress, DoesSelect, DoesSetBus, DoesStop DEF MovedTo
    <2>4. CASE n \in {11, 17, 18, 20, 24, 25}
      BY <2>4, DoesTransfer
    <2> QED BY <2>1, <2>2, <2>3, <2>4 DEF DoneCommands
  <1>2. card \in CardSet /\ [card EXCEPT !.app = FALSE] \in CardSet /\ [card EXCEPT !.app = FALSE].kind = card.kind
        /\ rsp \in RspSet
    BY DEF Typed, CardSet, RspSet
  <1>3. [is |-> "garbled", rca |-> Garbled] \in RspSet
    BY DEF RspSet
  <1>4. /\ o.end \in BOOLEAN /\ o.faults \in 0..scenario.faults
        /\ o.end => \E d \in CardDoes(n, arg) : o.card = d.card /\ o.rsp \in {d.rsp, [is |-> "garbled", rca |-> Garbled]}
        /\ ~o.end => /\ o.rsp = rsp
                     /\ \/ o.card = card \/ o.card = [card EXCEPT !.app = FALSE]
                        \/ \E d \in CardDoes(n, arg) : o.card = d.card
    BY ExchangeCases
  <1>5. CASE o.end
    BY <1>1, <1>3, <1>4, <1>5
  <1>6. CASE ~o.end
    BY <1>1, <1>2, <1>4, <1>6 DEF Typed
  <1> QED BY <1>4, <1>5, <1>6

-----------------------------------------------------------------------------
(* The instruction on top, and the point it is at. *)

LEMMA TagsFinding ==
    /\ Resting => work # <<>> /\ Head(work).op \in BottomOps
    /\ Ending => work = <<>> \/ Head(work).op = "deselect" \/ (Head(work).op = "cmd" /\ Head(work).n = 9)
    /\ Finds => Head(work).op = "Test_SDI"
    /\ TriesOcr => Head(work).op = "ocr" \/ (Head(work).op = "cmd" /\ Head(work).n = 55)
    /\ FollowsOcr => Head(work).op = "cmd" /\ Head(work).n = 2
    /\ AsksAddress => Head(work).op = "CMD3" \/ (Head(work).op = "cmd" /\ Head(work).n = 3)
    /\ HasAddress => Head(work).op = "published"
    /\ Selects => Head(work).op = "cmd" /\ Head(work).n = 7
    /\ IsSelected => Head(work).op = "selected" \/ Head(work).op = "Set_bus"
    /\ SetsBus => Head(work).op = "SetBus" \/ (Head(work).op = "cmd" /\ Head(work).n = 55)
    /\ IsReady => Head(work).op = "TR_Buf_new"
  <1>1. Resting => work # <<>> /\ Head(work).op \in BottomOps
    <2>1. ASSUME Resting PROVE work # <<>> /\ Head(work).op \in BottomOps
      <3>1. Len(work) = 1 /\ work # <<>> /\ work[Len(work)].op \in BottomOps
        BY <2>1 DEF Resting, On, Bottom
      <3> QED BY <3>1
    <2> QED BY <2>1
  <1>2. Ending => work = <<>> \/ Head(work).op = "deselect" \/ (Head(work).op = "cmd" /\ Head(work).n = 9)
    BY DEF Ending, I, Once
  <1>3. Finds => Head(work).op = "Test_SDI"
    BY DEF Finds, On, I
  <1>4. TriesOcr => Head(work).op = "ocr" \/ (Head(work).op = "cmd" /\ Head(work).n = 55)
    BY DEF TriesOcr, On, At, Once
  <1>5. FollowsOcr => Head(work).op = "cmd" /\ Head(work).n = 2
    BY DEF FollowsOcr, On, Cmd
  <1>6. AsksAddress => Head(work).op = "CMD3" \/ (Head(work).op = "cmd" /\ Head(work).n = 3)
    BY DEF AsksAddress, On, Cmd, I
  <1>7. HasAddress => Head(work).op = "published"
    BY DEF HasAddress, On, I
  <1>8. Selects => Head(work).op = "cmd" /\ Head(work).n = 7
    BY DEF Selects, On, Cmd
  <1>9. IsSelected => Head(work).op = "selected" \/ Head(work).op = "Set_bus"
    BY DEF IsSelected, On, I
  <1>10. SetsBus => Head(work).op = "SetBus" \/ (Head(work).op = "cmd" /\ Head(work).n = 55)
    BY DEF SetsBus, On, I, Once
  <1>11. IsReady => Head(work).op = "TR_Buf_new"
    BY DEF IsReady, On, I
  <1> QED BY <1>1, <1>2, <1>3, <1>4, <1>5, <1>6, <1>7, <1>8, <1>9, <1>10, <1>11

LEMMA TagsReading ==
    /\ StartsRead => Head(work).op = "Rd_Block"
    /\ SendsRead => Head(work).op = "cmd" /\ Head(work).n = (IF block < 2 THEN 17 ELSE 18)
    /\ Receives => Head(work).op = "receive"
    /\ AwaitsEnd => Head(work).op = "Chk_DATend"
    /\ ClearsEnd => Head(work).op = "DATclear"
    /\ Stops => Head(work).op = "cmd" /\ Head(work).n = 12
  <1>1. StartsRead => Head(work).op = "Rd_Block"
    BY DEF StartsRead, At
  <1>2. SendsRead => Head(work).op = "cmd" /\ Head(work).n = (IF block < 2 THEN 17 ELSE 18)
    BY DEF SendsRead, On, Cmd
  <1>3. Receives => Head(work).op = "receive"
    BY DEF Receives, On, I
  <1>4. AwaitsEnd => Head(work).op = "Chk_DATend"
    BY DEF AwaitsEnd, On, I
  <1>5. ClearsEnd => Head(work).op = "DATclear"
    BY DEF ClearsEnd, On, I
  <1>6. Stops => Head(work).op = "cmd" /\ Head(work).n = 12
    BY DEF Stops, On, Cmd
  <1> QED BY <1>1, <1>2, <1>3, <1>4, <1>5, <1>6

LEMMA TagsWriting ==
    /\ StartsWrite => Head(work).op = "Wt_Block"
    /\ SendsWrite => Head(work).op = "cmd" /\ Head(work).n = (IF block < 2 THEN 24 ELSE 25)
    /\ Transmits => Head(work).op = "transmit"
    /\ AwaitsWritten => Head(work).op = "Chk_DATend"
    /\ ClearsWritten => Head(work).op = "DATclear"
    /\ StopsWrite => Head(work).op = "cmd" /\ Head(work).n = 12
    /\ Programs => Head(work).op \in {"Chk_BUSYend", "written"}
  <1>1. StartsWrite => Head(work).op = "Wt_Block"
    BY DEF StartsWrite, On, I
  <1>2. SendsWrite => Head(work).op = "cmd" /\ Head(work).n = (IF block < 2 THEN 24 ELSE 25)
    BY DEF SendsWrite, On, Cmd
  <1>3. Transmits => Head(work).op = "transmit"
    BY DEF Transmits, On, I
  <1>4. AwaitsWritten => Head(work).op = "Chk_DATend"
    BY DEF AwaitsWritten, On, I
  <1>5. ClearsWritten => Head(work).op = "DATclear"
    BY DEF ClearsWritten, On, I
  <1>6. StopsWrite => Head(work).op = "cmd" /\ Head(work).n = 12
    BY DEF StopsWrite, On, Cmd
  <1>7. Programs => Head(work).op \in {"Chk_BUSYend", "written"}
    BY DEF Programs, On, I
  <1> QED BY <1>1, <1>2, <1>3, <1>4, <1>5, <1>6, <1>7

LEMMA TagsStreaming ==
    /\ StartsStream => Head(work).op = "Rd_Stream"
    /\ SendsStream => Head(work).op = "CMD11"
    /\ Streams => Head(work).op = "stream"
    /\ StartsStreamOut => Head(work).op = "Wt_Stream"
    /\ SendsStreamOut => Head(work).op = "cmd" /\ Head(work).n = 20
    /\ StreamsOut => Head(work).op = "streamOut"
    /\ StopsStreamOut => Head(work).op = "cmd" /\ Head(work).n = 12
    /\ Flushes => Head(work).op = "Chk_BUSYend"
    /\ OtherTests => Head(work).op \in {"CMD13", "View_Rx_buf"} \/ (Head(work).op = "cmd" /\ Head(work).n \in {28, 29})
  <1>1. (StartsStream => Head(work).op = "Rd_Stream") /\ (SendsStream => Head(work).op = "CMD11")
        /\ (Streams => Head(work).op = "stream") /\ (StreamsOut => Head(work).op = "streamOut")
    BY DEF StartsStream, SendsStream, Streams, StreamsOut, At
  <1>2. StartsStreamOut => Head(work).op = "Wt_Stream"
    BY DEF StartsStreamOut, On, I
  <1>3. SendsStreamOut => Head(work).op = "cmd" /\ Head(work).n = 20
    BY DEF SendsStreamOut, On, Cmd
  <1>4. StopsStreamOut => Head(work).op = "cmd" /\ Head(work).n = 12
    BY DEF StopsStreamOut, On, Cmd
  <1>5. Flushes => Head(work).op = "Chk_BUSYend"
    BY DEF Flushes, On, I
  <1>6. OtherTests => Head(work).op \in {"CMD13", "View_Rx_buf"} \/ (Head(work).op = "cmd" /\ Head(work).n \in {28, 29})
    <2> SUFFICES ASSUME OtherTests
                    PROVE  Head(work).op \in {"CMD13", "View_Rx_buf"} \/ (Head(work).op = "cmd" /\ Head(work).n \in {28, 29})
      OBVIOUS
    <2>1. CASE On(<<I("CMD13")>>)
      <3>1. Head(work).op = "CMD13"
        BY <2>1 DEF On, I
      <3> QED BY <3>1
    <2>2. CASE On(<<Cmd(28, 0)>>)
      BY <2>2 DEF On, Cmd
    <2>3. CASE On(<<Cmd(29, 0)>>)
      BY <2>3 DEF On, Cmd
    <2>4. CASE On(<<I("View_Rx_buf")>>)
      <3>1. Head(work).op = "View_Rx_buf"
        BY <2>4 DEF On, I
      <3> QED BY <3>1
    <2> QED BY <2>1, <2>2, <2>3, <2>4 DEF OtherTests
  <1> QED BY <1>1, <1>2, <1>3, <1>4, <1>5, <1>6

-----------------------------------------------------------------------------
(* The stack. *)

LEMMA OwnStack == ASSUME NEW S, NEW w \in Seq(S) PROVE IsStack(w)
  <1>1. \A i \in 1..Len(w) : w[i] \in {w[k] : k \in DOMAIN w}
    OBVIOUS
  <1> QED BY <1>1 DEF IsStack

Grown(w, ins, v) ==
    /\ IsStack(v) /\ Len(v) = Len(ins) + Len(w) - 1
    /\ \A i \in 1..Len(ins) : v[i] = ins[i]
    /\ \A i \in 2..Len(w) : v[Len(ins) + i - 1] = w[i]
    /\ Len(w) >= 2 => v[Len(v)] = w[Len(w)]
    /\ v = <<>> <=> Len(v) = 0

\* What replacing the top of a stack by some instructions gives.
LEMMA Pushed ==
    ASSUME NEW w, IsStack(w), Len(w) >= 1, NEW ins, IsStack(ins), NEW v, v = ins \o Tail(w)
    PROVE  Grown(w, ins, v)
  <1> DEFINE W == {w[k] : k \in DOMAIN w}
             S == {ins[k] : k \in DOMAIN ins}
             T == W \cup S
             t == Tail(w)
             l == Len(ins)
             n == Len(w)
  <1>1. w \in Seq(W) /\ n \in Nat /\ ins \in Seq(S) /\ l \in Nat
    BY DEF IsStack
  <1> HIDE DEF W, S
  <1>2. t \in Seq(W) /\ Len(t) = n - 1 /\ \A i \in 1..(n - 1) : t[i] = w[i + 1]
    BY <1>1
  <1>3. t \in Seq(T) /\ ins \in Seq(T)
    BY <1>1, <1>2
  <1> HIDE DEF t, l, T
  <1>4. v \in Seq(T) /\ Len(v) = l + (n - 1) /\ \A i \in 1..(l + (n - 1)) : v[i] = IF i <= l THEN ins[i] ELSE t[i - l]
    BY <1>1, <1>2, <1>3 DEF t, l
  <1>5. \A i \in 2..n : v[l + i - 1] = w[i]
    <2>1. SUFFICES ASSUME NEW i \in 2..n PROVE v[l + i - 1] = w[i]
      OBVIOUS
    <2>2. l + i - 1 \in 1..(l + (n - 1)) /\ ~(l + i - 1 <= l) /\ (l + i - 1) - l = i - 1 /\ i - 1 \in 1..(n - 1)
      BY <1>1
    <2>3. v[l + i - 1] = t[i - 1]
      BY <1>4, <2>2
    <2>4. t[i - 1] = w[i - 1 + 1] /\ i - 1 + 1 = i
      BY <1>2, <2>2
    <2> QED BY <2>3, <2>4
  <1>6. IsStack(v)
    BY <1>4, OwnStack
  <1>7. n >= 2 => v[Len(v)] = w[n]
    BY <1>1, <1>4, <1>5
  <1>8. \A i \in 1..l : v[i] = ins[i]
    BY <1>1, <1>4
  <1> QED BY <1>1, <1>4, <1>5, <1>6, <1>7, <1>8 DEF l, Grown

LEMMA Goes0 ==
    ASSUME IsStack(work), work # <<>>, Goes(<<>>)
    PROVE  /\ IsStack(work') /\ Len(work') = Len(work) - 1
           /\ \A i \in 2..Len(work) : work'[i - 1] = work[i]
           /\ Len(work) >= 2 => Bottom' = Bottom /\ work' # <<>>
  <1>1. Len(work) \in Nat /\ Len(work) >= 1
    BY DEF IsStack
  <1> DEFINE ins == <<>>
  <1>2. ins \in Seq({}) /\ Len(ins) = 0 /\ work' = ins \o Tail(work)
    BY DEF Goes
  <1>0. IsStack(ins)
    BY <1>2, OwnStack
  <1> HIDE DEF ins
  <1>3. Grown(work, ins, work')
    BY <1>1, <1>2, <1>0, Pushed
  <1>4. \A i \in 2..Len(work) : work'[i - 1] = work[i]
    <2>1. \A i \in 2..Len(work) : Len(ins) + i - 1 = i - 1
      BY <1>1, <1>2
    <2> QED BY <1>3, <2>1 DEF Grown
  <1> QED BY <1>1, <1>2, <1>3, <1>4 DEF Bottom, Grown

LEMMA Goes1 ==
    ASSUME IsStack(work), work # <<>>, NEW a, Goes(<<a>>)
    PROVE  /\ IsStack(work') /\ Len(work') = Len(work)
           /\ work' # <<>> /\ work'[1] = a
           /\ \A i \in 2..Len(work) : work'[i] = work[i]
           /\ Len(work) >= 2 => Bottom' = Bottom
  <1>1. Len(work) \in Nat /\ Len(work) >= 1
    BY DEF IsStack
  <1> DEFINE ins == <<a>>
  <1>2. ins \in Seq({a}) /\ Len(ins) = 1 /\ work' = ins \o Tail(work) /\ ins[1] = a
    BY DEF Goes
  <1>0. IsStack(ins)
    BY <1>2, OwnStack
  <1> HIDE DEF ins
  <1>3. Grown(work, ins, work')
    BY <1>1, <1>2, <1>0, Pushed
  <1>4. \A i \in 2..Len(work) : work'[i] = work[i]
    <2>1. \A i \in 2..Len(work) : Len(ins) + i - 1 = i
      BY <1>1, <1>2
    <2> QED BY <1>3, <2>1 DEF Grown
  <1> QED BY <1>1, <1>2, <1>3, <1>4 DEF Bottom, Grown

LEMMA Goes2 ==
    ASSUME IsStack(work), work # <<>>, NEW a, NEW b, Goes(<<a, b>>)
    PROVE  /\ IsStack(work') /\ Len(work') = Len(work) + 1
           /\ work' # <<>> /\ work'[1] = a /\ work'[2] = b
           /\ \A i \in 2..Len(work) : work'[i + 1] = work[i]
           /\ Len(work) >= 2 => Bottom' = Bottom
  <1>1. Len(work) \in Nat /\ Len(work) >= 1
    BY DEF IsStack
  <1> DEFINE ins == <<a, b>>
  <1>2. ins \in Seq({a, b}) /\ Len(ins) = 2 /\ work' = ins \o Tail(work) /\ ins[1] = a /\ ins[2] = b
    BY DEF Goes
  <1>0. IsStack(ins)
    BY <1>2, OwnStack
  <1> HIDE DEF ins
  <1>3. Grown(work, ins, work')
    BY <1>1, <1>2, <1>0, Pushed
  <1>4. \A i \in 2..Len(work) : work'[i + 1] = work[i]
    <2>1. \A i \in 2..Len(work) : Len(ins) + i - 1 = i + 1
      BY <1>1, <1>2
    <2> QED BY <1>3, <2>1 DEF Grown
  <1> QED BY <1>1, <1>2, <1>3, <1>4 DEF Bottom, Grown

LEMMA Goes3 ==
    ASSUME IsStack(work), work # <<>>, NEW a, NEW b, NEW c, Goes(<<a, b, c>>)
    PROVE  /\ IsStack(work') /\ Len(work') = Len(work) + 2
           /\ work' # <<>> /\ work'[1] = a /\ work'[2] = b /\ work'[3] = c
           /\ \A i \in 2..Len(work) : work'[i + 2] = work[i]
           /\ Len(work) >= 2 => Bottom' = Bottom
  <1>1. Len(work) \in Nat /\ Len(work) >= 1
    BY DEF IsStack
  <1> DEFINE ins == <<a, b, c>>
  <1>2. ins \in Seq({a, b, c}) /\ Len(ins) = 3 /\ work' = ins \o Tail(work) /\ ins[1] = a /\ ins[2] = b /\ ins[3] = c
    BY DEF Goes
  <1>0. IsStack(ins)
    BY <1>2, OwnStack
  <1> HIDE DEF ins
  <1>3. Grown(work, ins, work')
    BY <1>1, <1>2, <1>0, Pushed
  <1>4. \A i \in 2..Len(work) : work'[i + 2] = work[i]
    <2>1. \A i \in 2..Len(work) : Len(ins) + i - 1 = i + 2
      BY <1>1, <1>2
    <2> QED BY <1>3, <2>1 DEF Grown
  <1> QED BY <1>1, <1>2, <1>3, <1>4 DEF Bottom, Grown

LEMMA Goes4 ==
    ASSUME IsStack(work), work # <<>>, NEW a, NEW b, NEW c, NEW d, Goes(<<a, b, c, d>>)
    PROVE  /\ IsStack(work') /\ Len(work') = Len(work) + 3
           /\ work' # <<>> /\ work'[1] = a /\ work'[2] = b /\ work'[3] = c /\ work'[4] = d
           /\ \A i \in 2..Len(work) : work'[i + 3] = work[i]
           /\ Len(work) >= 2 => Bottom' = Bottom
  <1>1. Len(work) \in Nat /\ Len(work) >= 1
    BY DEF IsStack
  <1> DEFINE ins == <<a, b, c, d>>
  <1>2. ins \in Seq({a, b, c, d}) /\ Len(ins) = 4 /\ work' = ins \o Tail(work) /\ ins[1] = a /\ ins[2] = b /\ ins[3] = c /\ ins[4] = d
    BY DEF Goes
  <1>0. IsStack(ins)
    BY <1>2, OwnStack
  <1> HIDE DEF ins
  <1>3. Grown(work, ins, work')
    BY <1>1, <1>2, <1>0, Pushed
  <1>4. \A i \in 2..Len(work) : work'[i + 3] = work[i]
    <2>1. \A i \in 2..Len(work) : Len(ins) + i - 1 = i + 3
      BY <1>1, <1>2
    <2> QED BY <1>3, <2>1 DEF Grown
  <1> QED BY <1>1, <1>2, <1>3, <1>4 DEF Bottom, Grown

LEMMA Goes5 ==
    ASSUME IsStack(work), work # <<>>, NEW a, NEW b, NEW c, NEW d, NEW e, Goes(<<a, b, c, d, e>>)
    PROVE  /\ IsStack(work') /\ Len(work') = Len(work) + 4
           /\ work' # <<>> /\ work'[1] = a /\ work'[2] = b /\ work'[3] = c /\ work'[4] = d /\ work'[5] = e
           /\ \A i \in 2..Len(work) : work'[i + 4] = work[i]
           /\ Len(work) >= 2 => Bottom' = Bottom
  <1>1. Len(work) \in Nat /\ Len(work) >= 1
    BY DEF IsStack
  <1> DEFINE ins == <<a, b, c, d, e>>
  <1>2. ins \in Seq({a, b, c, d, e}) /\ Len(ins) = 5 /\ work' = ins \o Tail(work) /\ ins[1] = a /\ ins[2] = b /\ ins[3] = c /\ ins[4] = d /\ ins[5] = e
    BY DEF Goes
  <1>0. IsStack(ins)
    BY <1>2, OwnStack
  <1> HIDE DEF ins
  <1>3. Grown(work, ins, work')
    BY <1>1, <1>2, <1>0, Pushed
  <1>4. \A i \in 2..Len(work) : work'[i + 4] = work[i]
    <2>1. \A i \in 2..Len(work) : Len(ins) + i - 1 = i + 4
      BY <1>1, <1>2
    <2> QED BY <1>3, <2>1 DEF Grown
  <1> QED BY <1>1, <1>2, <1>3, <1>4 DEF Bottom, Grown

LEMMA Goes7 ==
    ASSUME IsStack(work), work # <<>>, NEW a, NEW b, NEW c, NEW d, NEW e, NEW f, NEW g, Goes(<<a, b, c, d, e, f, g>>)
    PROVE  /\ IsStack(work') /\ Len(work') = Len(work) + 6
           /\ work' # <<>> /\ work'[1] = a /\ work'[2] = b /\ work'[3] = c /\ work'[4] = d /\ work'[5] = e /\ work'[6] = f /\ work'[7] = g
           /\ \A i \in 2..Len(work) : work'[i + 6] = work[i]
           /\ Len(work) >= 2 => Bottom' = Bottom
  <1>1. Len(work) \in Nat /\ Len(work) >= 1
    BY DEF IsStack
  <1> DEFINE ins == <<a, b, c, d, e, f, g>>
  <1>2. ins \in Seq({a, b, c, d, e, f, g}) /\ Len(ins) = 7 /\ work' = ins \o Tail(work) /\ ins[1] = a /\ ins[2] = b /\ ins[3] = c /\ ins[4] = d /\ ins[5] = e /\ ins[6] = f /\ ins[7] = g
    BY DEF Goes
  <1>0. IsStack(ins)
    BY <1>2, OwnStack
  <1> HIDE DEF ins
  <1>3. Grown(work, ins, work')
    BY <1>1, <1>2, <1>0, Pushed
  <1>4. \A i \in 2..Len(work) : work'[i + 6] = work[i]
    <2>1. \A i \in 2..Len(work) : Len(ins) + i - 1 = i + 6
      BY <1>1, <1>2
    <2> QED BY <1>3, <2>1 DEF Grown
  <1> QED BY <1>1, <1>2, <1>3, <1>4 DEF Bottom, Grown

-----------------------------------------------------------------------------
(* Where the instruction on top is found. *)

Tag == Head(work).op
Number == Head(work).n
LEMMA PointFinding ==
    ASSUME Point, work # <<>>
    PROVE  /\ Tag = "Test_SDI" => Locating /\ Finds
           /\ Tag = "ocr" => Locating /\ TriesOcr
           /\ Tag = "CMD3" => Locating /\ Known /\ AsksAddress
           /\ Tag = "published" => Locating /\ Known /\ HasAddress
           /\ Tag \in {"selected", "Set_bus"} => Locating /\ Known /\ IsSelected
           /\ Tag = "SetBus" => Locating /\ Known /\ SetsBus
           /\ Tag = "TR_Buf_new" => Locating /\ IsReady
           /\ Tag = "deselect" => Ending
           /\ Tag \in BottomOps => Resting
  BY TagsFinding, TagsReading, TagsWriting, TagsStreaming
     DEF Point, Locating, Transferring, Reading, Writing, Streaming, Tag, BottomOps

LEMMA PointTransferring ==
    ASSUME Point, work # <<>>
    PROVE  /\ Tag = "Rd_Block" => Transferring /\ StartsRead
           /\ Tag = "receive" => Transferring /\ Receives
           /\ Tag = "Chk_DATend" => Transferring /\ (AwaitsEnd \/ AwaitsWritten)
           /\ Tag = "DATclear" => Transferring /\ (ClearsEnd \/ ClearsWritten)
           /\ Tag = "Wt_Block" => Transferring /\ StartsWrite
           /\ Tag = "transmit" => Transferring /\ Transmits
           /\ Tag = "written" => Transferring /\ Programs
           /\ Tag = "Chk_BUSYend" => Transferring /\ (Programs \/ (Streaming /\ Flushes))
           /\ Tag = "Rd_Stream" => Transferring /\ Streaming /\ StartsStream
           /\ Tag = "CMD11" => Transferring /\ Streaming /\ SendsStream
           /\ Tag = "stream" => Transferring /\ Streaming /\ Streams
           /\ Tag = "Wt_Stream" => Transferring /\ Streaming /\ StartsStreamOut
           /\ Tag = "streamOut" => Transferring /\ Streaming /\ StreamsOut
           /\ Tag \in {"CMD13", "View_Rx_buf"} => Transferring /\ OtherTests
  BY TagsFinding, TagsReading, TagsWriting, TagsStreaming
     DEF Point, Locating, Transferring, Reading, Writing, Streaming, Tag, BottomOps

LEMMA PointCommand ==
    ASSUME Point, work # <<>>, Tag = "cmd"
    PROVE  \/ Number = 9 /\ Ending
           \/ Number = 55 /\ Locating /\ (TriesOcr \/ (Known /\ SetsBus))
           \/ Number = 2 /\ Locating /\ Known /\ FollowsOcr
           \/ Number = 3 /\ Locating /\ Known /\ AsksAddress
           \/ Number = 7 /\ Locating /\ Known /\ Selects
           \/ Number = (IF block < 2 THEN 17 ELSE 18) /\ Transferring /\ SendsRead
           \/ Number = (IF block < 2 THEN 24 ELSE 25) /\ Transferring /\ SendsWrite
           \/ Number = 12 /\ Transferring /\ (Stops \/ StopsWrite \/ (Streaming /\ StopsStreamOut))
           \/ Number = 20 /\ Transferring /\ Streaming /\ SendsStreamOut
           \/ Number \in {28, 29} /\ Transferring /\ OtherTests
  BY TagsFinding, TagsReading, TagsWriting, TagsStreaming
     DEF Point, Locating, Transferring, Reading, Writing, Streaming, Tag, Number, BottomOps

-----------------------------------------------------------------------------
(* The card goes on. *)

CardGoesOn == CardSends \/ CardEndsBlock \/ CardTakes \/ CardTakesBlock \/ CardReady

LEMMA HostTypes ==
    ASSUME Typed
    PROVE  /\ Words \in Nat /\ Words >= 1 /\ Room \in Nat /\ card \in CardSet /\ ctl \in CtlSet
           /\ fifo \in Seq(WordSet) /\ Len(fifo) <= FifoDepth /\ FifoDepth \in Nat /\ Total \in 0..Room
           /\ card.st \in {"idle", "ready", "ident", "stby", "tran", "data", "rcv", "prg"}
           /\ card.index \in 0..(Words + 1) /\ card.multi \in BOOLEAN /\ card.sector \in Int
           /\ ctl.left \in 0..Room /\ ctl.fin \in BOOLEAN /\ ctl.tmo \in BOOLEAN
           /\ rd_cnt \in 0..Room /\ wt_cnt \in 0..Room /\ tx \in Nat /\ block \in Nat
           /\ dataFaults \in Nat /\ operations \in Nat /\ scenario.operations \in Nat
  <1>1. scenario.dataFaults \in Nat /\ scenario.operations \in Nat
    BY SdAssumption DEF SdAssumption, Typed
  <1>2. operations \in Nat /\ dataFaults \in Nat /\ block \in Nat
    BY <1>1, Sizes DEF Typed
  <1> QED BY <1>1, <1>2, Sizes, TotalSize DEF Typed, CardSet, CtlSet, Selected

LEMMA CardTypes ==
    Typed => /\ card \in CardSet /\ card.index \in 0..(Words + 1) /\ card.multi \in BOOLEAN /\ card.sector \in Int
             /\ card.st \in {"idle", "ready", "ident", "stby", "tran", "data", "rcv", "prg"} /\ Words \in Nat
  BY HostTypes

LEMMA CtlTypes ==
    Typed => /\ ctl \in CtlSet /\ ctl.left \in 0..Room /\ Room \in Nat
             /\ ctl.left \in Nat /\ ctl.fin \in BOOLEAN /\ ctl.tmo \in BOOLEAN
  BY HostTypes

LEMMA FifoTypes ==
    Typed => fifo \in Seq(WordSet) /\ Len(fifo) <= FifoDepth /\ FifoDepth \in Nat /\ Len(fifo) \in Nat
  BY HostTypes

LEMMA CountTypes ==
    Typed => /\ rd_cnt \in Nat /\ rd_cnt <= Room /\ wt_cnt \in Nat /\ wt_cnt <= Room /\ Room \in Nat
             /\ tx \in Nat /\ block \in Nat /\ Total \in Nat /\ Total <= Room /\ Words \in Nat /\ Words >= 1
  BY HostTypes

LEMMA FaultTypes ==
    Typed => dataFaults \in Nat /\ operations \in Nat /\ scenario.operations \in Nat
  BY HostTypes

\* The card and the controller with one field changed.
CardStates == {"idle", "ready", "ident", "stby"} \union Selected
Alike(c, d) == c.kind = d.kind /\ c.rca = d.rca /\ c.wide = d.wide /\ c.multi = d.multi

LEMMA CardIndexed ==
    ASSUME NEW c \in CardSet, NEW index \in 0..(Words + 1),
           NEW d, d = [c EXCEPT !.index = index]
    PROVE  d \in CardSet /\ Alike(d, c) /\ d.st = c.st /\ d.sector = c.sector /\ d.index = index
  BY DEF CardSet, Alike

LEMMA CardTurned ==
    ASSUME NEW c \in CardSet, NEW st \in CardStates,
           NEW d, d = [c EXCEPT !.st = st]
    PROVE  d \in CardSet /\ Alike(d, c) /\ d.st = st /\ d.sector = c.sector /\ d.index = c.index
  BY DEF CardSet, Alike, CardStates

LEMMA CtlCounted ==
    ASSUME NEW c \in CtlSet, NEW left \in 0..Room,
           NEW d, d = [c EXCEPT !.left = left]
    PROVE  d \in CtlSet /\ d.left = left /\ d.fin = c.fin /\ d.tmo = c.tmo /\ d.busy = c.busy
  BY DEF CtlSet

\* One step of the card each.
LEMMA SendsStep ==
    ASSUME Typed, CardSends
    PROVE  /\ card' \in CardSet /\ ctl' \in CtlSet
           /\ card'.kind = card.kind /\ card'.rca = card.rca /\ card'.wide = card.wide /\ card'.multi = card.multi
           /\ card'.st = "data" /\ card.st = "data" /\ card.index < Words /\ card'.index = card.index + 1
           /\ card'.sector = card.sector
           /\ ctl.left > 0 /\ ctl'.left = ctl.left - 1 /\ ctl'.fin = ctl.fin /\ ctl'.tmo = ctl.tmo
           /\ fifo' \in Seq(WordSet) /\ Len(fifo') = Len(fifo) + 1 /\ Len(fifo') <= FifoDepth
           /\ \A k \in 1..Len(fifo') : fifo'[k] = IF k <= Len(fifo) THEN fifo[k] ELSE <<card.sector, card.index>>
           /\ UNCHANGED <<work, hostVars, store, rsp, countVars>>
  <1>1. <<card.sector, card.index>> \in WordSet
    BY HostTypes DEF WordSet, Sectors
  <1>2. /\ fifo' \in Seq(WordSet) /\ Len(fifo') = Len(fifo) + 1 /\ Len(fifo') <= FifoDepth
        /\ \A k \in 1..Len(fifo') : fifo'[k] = IF k <= Len(fifo) THEN fifo[k] ELSE <<card.sector, card.index>>
    <2> DEFINE w == <<card.sector, card.index>>
    <2>1. fifo \in Seq(WordSet) /\ w \in WordSet /\ fifo' = Append(fifo, w) /\ Len(fifo) < FifoDepth /\ FifoDepth \in Nat
      BY <1>1, HostTypes DEF CardSends
    <2> HIDE DEF w
    <2>2. /\ fifo' \in Seq(WordSet) /\ Len(fifo') = Len(fifo) + 1 /\ Len(fifo') <= FifoDepth
          /\ \A k \in 1..Len(fifo') : fifo'[k] = IF k <= Len(fifo) THEN fifo[k] ELSE w
      BY <2>1
    <2> QED BY <2>2 DEF w
  <1>3. /\ ctl' \in CtlSet /\ ctl.left > 0 /\ ctl'.left = ctl.left - 1 /\ ctl'.fin = ctl.fin /\ ctl'.tmo = ctl.tmo
    <2>1. ctl.left > 0
      BY DEF CardSends
    <2>2. ctl \in CtlSet /\ ctl.left - 1 \in 0..Room
      BY <2>1, CtlTypes
    <2>3. ctl' = [ctl EXCEPT !.left = ctl.left - 1]
      BY DEF CardSends
    <2> QED BY <2>1, <2>2, <2>3, CtlCounted
  <1>4. /\ card' \in CardSet
        /\ card'.kind = card.kind /\ card'.rca = card.rca /\ card'.wide = card.wide /\ card'.multi = card.multi
        /\ card'.st = "data" /\ card.st = "data" /\ card.index < Words /\ card'.index = card.index + 1
        /\ card'.sector = card.sector
    <2>1. card.index < Words /\ card.st = "data"
      BY DEF CardSends
    <2>2. card \in CardSet /\ card.index + 1 \in 0..(Words + 1)
      BY <2>1, CardTypes
    <2>3. card' = [card EXCEPT !.index = card.index + 1]
      BY DEF CardSends
    <2> QED BY <2>1, <2>2, <2>3, CardIndexed DEF Alike
  <1> QED BY <1>2, <1>3, <1>4 DEF CardSends

LEMMA EndsBlockStep ==
    ASSUME Typed, CardEndsBlock
    PROVE  /\ card' \in CardSet /\ ctl' \in CtlSet
           /\ card'.kind = card.kind /\ card'.rca = card.rca /\ card'.wide = card.wide /\ card'.multi = card.multi
           /\ card.st = "data" /\ card.index >= Words /\ (card.index > Words => ~card.multi)
           /\ IF card.multi
              THEN /\ card'.st = "data"
                   /\ IF ctl.left > 0 THEN card'.index = 0 /\ card'.sector = card.sector + 1 ELSE card'.index = Words + 1
              ELSE card'.st = "tran"
           /\ ctl'.left = ctl.left /\ ctl'.tmo = ctl.tmo
           /\ (ctl'.fin <=> ctl.fin \/ (ctl.left = 0 /\ card.index = Words))
           /\ UNCHANGED <<work, hostVars, store, rsp, fifo, countVars>>
  <1>0. card.st = "data"
    BY DEF CardEndsBlock
  <1>1. /\ ctl' \in CtlSet /\ ctl'.left = ctl.left /\ ctl'.tmo = ctl.tmo
        /\ (ctl'.fin <=> ctl.fin \/ (ctl.left = 0 /\ card.index = Words))
    <2> DEFINE f == (ctl.fin \/ (ctl.left = 0 /\ card.index = Words))
    <2>1. f \in BOOLEAN
      OBVIOUS
    <2>2. ctl' = [ctl EXCEPT !.fin = f]
      BY DEF CardEndsBlock
    <2> HIDE DEF f
    <2>3. ctl' \in CtlSet /\ ctl'.left = ctl.left /\ ctl'.tmo = ctl.tmo /\ ctl'.fin = f
      BY <2>1, <2>2, HostTypes DEF CtlSet
    <2> QED BY <2>3 DEF f
  <1>2. /\ card' \in CardSet
        /\ card'.kind = card.kind /\ card'.rca = card.rca /\ card'.wide = card.wide /\ card'.multi = card.multi
        /\ IF card.multi
           THEN /\ card'.st = "data"
                /\ IF ctl.left > 0 THEN card'.index = 0 /\ card'.sector = card.sector + 1 ELSE card'.index = Words + 1
           ELSE card'.st = "tran"
    <2>1. CASE ~card.multi
      <3>1. card' = [card EXCEPT !.st = "tran"]
        BY <2>1 DEF CardEndsBlock, Ended
      <3>2. card \in CardSet /\ "tran" \in CardStates
        BY HostTypes DEF CardStates, Selected
      <3> QED BY <2>1, <3>1, <3>2, CardTurned DEF Alike
    <2>2. CASE card.multi /\ ctl.left > 0
      <3> DEFINE s == card.sector + 1
                 i == 0
      <3>1. card' = [card EXCEPT !.sector = s, !.index = i]
        BY <2>2 DEF CardEndsBlock
      <3>2. card \in CardSet /\ s \in Int /\ i \in 0..(Words + 1)
        BY CardTypes
      <3> HIDE DEF s, i
      <3>3. card' \in CardSet /\ Alike(card', card) /\ card'.st = card.st /\ card'.sector = s /\ card'.index = i
        BY <3>1, <3>2 DEF CardSet, Alike
      <3> QED BY <2>2, <3>3, <1>0 DEF Alike, s, i
    <2>3. CASE card.multi /\ ~(ctl.left > 0)
      <3> DEFINE i == Words + 1
      <3>1. card' = [card EXCEPT !.index = i]
        BY <2>3 DEF CardEndsBlock, Ended
      <3>2. card \in CardSet /\ i \in 0..(Words + 1)
        BY CardTypes
      <3> HIDE DEF i
      <3>3. card' \in CardSet /\ Alike(card', card) /\ card'.st = card.st /\ card'.sector = card.sector /\ card'.index = i
        BY <3>1, <3>2, CardIndexed
      <3> QED BY <2>3, <3>3, <1>0 DEF Alike, i
    <2> QED BY <2>1, <2>2, <2>3
  <1>3. card.st = "data" /\ card.index >= Words /\ (card.index > Words => ~card.multi)
    BY HostTypes DEF CardEndsBlock
  <1> QED BY <1>1, <1>2, <1>3 DEF CardEndsBlock

LEMMA TakesStep ==
    ASSUME Typed, CardTakes
    PROVE  /\ card' \in CardSet /\ ctl' \in CtlSet
           /\ card'.kind = card.kind /\ card'.rca = card.rca /\ card'.wide = card.wide /\ card'.multi = card.multi
           /\ card'.st = "rcv" /\ card.st = "rcv" /\ card.index < Words /\ card'.index = card.index + 1
           /\ card'.sector = card.sector
           /\ ctl.left > 0 /\ ctl'.left = ctl.left - 1 /\ ctl'.fin = ctl.fin /\ ctl'.tmo = ctl.tmo
           /\ fifo # <<>> /\ fifo' \in Seq(WordSet) /\ Len(fifo') = Len(fifo) - 1 /\ Len(fifo') <= FifoDepth
           /\ \A k \in 1..Len(fifo') : fifo'[k] = fifo[k + 1]
           /\ store' = [s \in DOMAIN store \union {card.sector} |->
                          IF s = card.sector
                          THEN Append(IF card.index = 0 THEN <<>> ELSE store[s], fifo[1][2])
                          ELSE store[s]]
           /\ UNCHANGED <<work, hostVars, rsp, countVars>>
  <1>1. /\ fifo # <<>> /\ fifo' \in Seq(WordSet) /\ Len(fifo') = Len(fifo) - 1 /\ Len(fifo') <= FifoDepth
        /\ \A k \in 1..Len(fifo') : fifo'[k] = fifo[k + 1]
    <2>1. fifo \in Seq(WordSet) /\ Len(fifo) <= FifoDepth /\ fifo # <<>> /\ fifo' = Tail(fifo) /\ FifoDepth \in Nat
      BY HostTypes DEF CardTakes
    <2> QED BY <2>1
  <1>2. /\ ctl' \in CtlSet /\ ctl.left > 0 /\ ctl'.left = ctl.left - 1 /\ ctl'.fin = ctl.fin /\ ctl'.tmo = ctl.tmo
    <2>1. ctl.left > 0
      BY DEF CardTakes
    <2>2. ctl \in CtlSet /\ ctl.left - 1 \in 0..Room
      BY <2>1, CtlTypes
    <2>3. ctl' = [ctl EXCEPT !.left = ctl.left - 1]
      BY DEF CardTakes
    <2> QED BY <2>1, <2>2, <2>3, CtlCounted
  <1>3. /\ card' \in CardSet
        /\ card'.kind = card.kind /\ card'.rca = card.rca /\ card'.wide = card.wide /\ card'.multi = card.multi
        /\ card'.st = "rcv" /\ card.st = "rcv" /\ card.index < Words /\ card'.index = card.index + 1
        /\ card'.sector = card.sector
    <2>1. card.index < Words /\ card.st = "rcv"
      BY DEF CardTakes
    <2>2. card \in CardSet /\ card.index + 1 \in 0..(Words + 1)
      BY <2>1, CardTypes
    <2>3. card' = [card EXCEPT !.index = card.index + 1]
      BY DEF CardTakes
    <2> QED BY <2>1, <2>2, <2>3, CardIndexed DEF Alike
  <1> QED BY <1>1, <1>2, <1>3 DEF CardTakes

LEMMA TakesBlockStep ==
    ASSUME Typed, CardTakesBlock
    PROVE  /\ card' \in CardSet /\ ctl' \in CtlSet
           /\ card'.kind = card.kind /\ card'.rca = card.rca /\ card'.wide = card.wide /\ card'.multi = card.multi
           /\ card.st = "rcv" /\ card.index = Words
           /\ IF card.multi
              THEN /\ card'.st = "rcv"
                   /\ IF ctl.left > 0 THEN card'.index = 0 /\ card'.sector = card.sector + 1 ELSE card'.index = Words + 1
              ELSE card'.st = "prg"
           /\ ctl'.left = ctl.left /\ ctl'.tmo = ctl.tmo /\ (ctl'.fin <=> ctl.fin \/ ctl.left = 0)
           /\ UNCHANGED <<work, hostVars, store, rsp, fifo, countVars>>
  <1>0. card.st = "rcv"
    BY DEF CardTakesBlock
  <1>1. /\ ctl' \in CtlSet /\ ctl'.left = ctl.left /\ ctl'.tmo = ctl.tmo /\ (ctl'.fin <=> ctl.fin \/ ctl.left = 0)
    <2> DEFINE f == (ctl.fin \/ ctl.left = 0)
    <2>1. f \in BOOLEAN
      OBVIOUS
    <2>2. ctl' = [ctl EXCEPT !.fin = f]
      BY DEF CardTakesBlock
    <2> HIDE DEF f
    <2>3. ctl' \in CtlSet /\ ctl'.left = ctl.left /\ ctl'.tmo = ctl.tmo /\ ctl'.fin = f
      BY <2>1, <2>2, HostTypes DEF CtlSet
    <2> QED BY <2>3 DEF f
  <1>2. /\ card' \in CardSet
        /\ card'.kind = card.kind /\ card'.rca = card.rca /\ card'.wide = card.wide /\ card'.multi = card.multi
        /\ IF card.multi
           THEN /\ card'.st = "rcv"
                /\ IF ctl.left > 0 THEN card'.index = 0 /\ card'.sector = card.sector + 1 ELSE card'.index = Words + 1
           ELSE card'.st = "prg"
    <2>1. CASE ~card.multi
      <3>1. card' = [card EXCEPT !.st = "prg"]
        BY <2>1 DEF CardTakesBlock
      <3>2. card \in CardSet /\ "prg" \in CardStates
        BY HostTypes DEF CardStates, Selected
      <3> QED BY <2>1, <3>1, <3>2, CardTurned DEF Alike
    <2>2. CASE card.multi /\ ctl.left > 0
      <3> DEFINE s == card.sector + 1
                 i == 0
      <3>1. card' = [card EXCEPT !.sector = s, !.index = i]
        BY <2>2 DEF CardTakesBlock
      <3>2. card \in CardSet /\ s \in Int /\ i \in 0..(Words + 1)
        BY CardTypes
      <3> HIDE DEF s, i
      <3>3. card' \in CardSet /\ Alike(card', card) /\ card'.st = card.st /\ card'.sector = s /\ card'.index = i
        BY <3>1, <3>2 DEF CardSet, Alike
      <3> QED BY <2>2, <3>3, <1>0 DEF Alike, s, i
    <2>3. CASE card.multi /\ ~(ctl.left > 0)
      <3> DEFINE i == Words + 1
      <3>1. card' = [card EXCEPT !.index = i]
        BY <2>3 DEF CardTakesBlock
      <3>2. card \in CardSet /\ i \in 0..(Words + 1)
        BY CardTypes
      <3> HIDE DEF i
      <3>3. card' \in CardSet /\ Alike(card', card) /\ card'.st = card.st /\ card'.sector = card.sector /\ card'.index = i
        BY <3>1, <3>2, CardIndexed
      <3> QED BY <2>3, <3>3, <1>0 DEF Alike, i
    <2> QED BY <2>1, <2>2, <2>3
  <1> QED BY <1>1, <1>2 DEF CardTakesBlock

LEMMA ReadyStep ==
    ASSUME Typed, CardReady
    PROVE  /\ card' \in CardSet /\ ctl' \in CtlSet
           /\ card'.kind = card.kind /\ card'.rca = card.rca /\ card'.wide = card.wide /\ card'.multi = card.multi
           /\ card'.sector = card.sector /\ card'.index = card.index
           /\ card.st = "prg" /\ card'.st = "tran"
           /\ ctl'.left = ctl.left /\ ctl'.tmo = ctl.tmo /\ ctl'.fin = ctl.fin
           /\ UNCHANGED <<work, hostVars, store, rsp, fifo, countVars>>
  <1>1. ctl' \in CtlSet /\ ctl'.left = ctl.left /\ ctl'.tmo = ctl.tmo /\ ctl'.fin = ctl.fin
    <2> DEFINE f == (ctl.busy \/ card.multi)
    <2>1. f \in BOOLEAN
      OBVIOUS
    <2>2. ctl' = [ctl EXCEPT !.busy = f]
      BY DEF CardReady
    <2> HIDE DEF f
    <2> QED BY <2>1, <2>2, HostTypes DEF CtlSet
  <1> QED BY <1>1, HostTypes DEF CardReady, CardSet, Selected

\* What no step of the card changes.
LEMMA CardKeeps ==
    ASSUME Typed, CardGoesOn
    PROVE  /\ UNCHANGED <<work, hostVars, rsp, countVars>>
           /\ card' \in CardSet /\ ctl' \in CtlSet /\ Alike(card', card) /\ ctl'.tmo = ctl.tmo
           /\ fifo' \in Seq(WordSet) /\ Len(fifo') <= FifoDepth
           /\ \/ card'.st = card.st
              \/ card.st = "data" /\ card'.st = "tran"
              \/ card.st = "rcv" /\ card'.st = "prg"
              \/ card.st = "prg" /\ card'.st = "tran"
  BY SendsStep, EndsBlockStep, TakesStep, TakesBlockStep, ReadyStep, FifoTypes DEF CardGoesOn, Alike

LEMMA CardKeepsAgreed ==
    ASSUME Typed, CardGoesOn, Agreed PROVE Agreed'
  BY CardKeeps DEF Agreed, Alike, hostVars, busWidth, Selected

LEMMA CardKeepsSilent ==
    ASSUME Typed, CardGoesOn, Silent PROVE Silent'
  <1>1. CASE CardSends
    BY <1>1, SendsStep, CardTypes DEF Silent
  <1>2. CASE CardEndsBlock
    BY <1>2, EndsBlockStep, CardTypes DEF Silent
  <1>3. CASE CardTakes
    BY <1>3, TakesStep, CardTypes DEF Silent
  <1>4. CASE CardTakesBlock
    BY <1>4, TakesBlockStep, CardTypes DEF Silent
  <1>5. CASE CardReady
    BY <1>5, ReadyStep, CardTypes DEF Silent
  <1> QED BY <1>1, <1>2, <1>3, <1>4, <1>5 DEF CardGoesOn

LEMMA CardKeepsQuiet ==
    ASSUME Typed, CardGoesOn, UNCHANGED scenario
    PROVE  (Calm' <=> Calm) /\ (Exact' <=> Exact) /\ (Quiet => Quiet')
  <1>1. (Calm' <=> Calm) /\ (Exact' <=> Exact)
    <2>1. scenario' = scenario /\ dataFaults' = dataFaults /\ j' = j
      BY CardKeeps DEF hostVars, readVars, countVars
    <2> QED BY <2>1 DEF Calm, Exact, MmcTests
  <1> QED BY <1>1, CardKeeps, CardKeepsSilent DEF Quiet

\* No read is going on, and the end of data is not seen too early.
LEMMA CardKeepsOver ==
    ASSUME Typed, CardGoesOn, card.st # "rcv" \/ ~ctl.fin, Over
    PROVE  Over' /\ ((ctl'.fin <=> ctl.fin) \/ card.st = "rcv") /\ store' = store
           /\ (card.st # "rcv" => card'.st # "rcv") /\ (card'.st = "data" => card.st = "data")
  <1>1. CASE CardSends
    BY <1>1, SendsStep, CardTypes DEF Over
  <1>2. CASE CardEndsBlock
    BY <1>2, EndsBlockStep, CardTypes DEF Over
  <1>3. CASE CardTakes
    BY <1>3, TakesStep, CardTypes DEF Over
  <1>4. CASE CardTakesBlock
    BY <1>4, TakesBlockStep, CardTypes DEF Over
  <1>5. CASE CardReady
    BY <1>5, ReadyStep, CardTypes DEF Over
  <1> QED BY <1>1, <1>2, <1>3, <1>4, <1>5 DEF CardGoesOn

LEMMA CardKeepsDone ==
    ASSUME Typed, CardGoesOn
    PROVE  /\ NoneLeft => NoneLeft'
           /\ ~ctl.fin /\ Over => (~ctl.fin /\ Over)'
           /\ card.st # "rcv" /\ Over => (card.st # "rcv" /\ Over)'
           /\ card.st # "rcv" /\ FinIsOver => (card.st # "rcv" /\ FinIsOver)'
  <1>1. CASE CardSends
    BY <1>1, SendsStep, CardTypes, CtlTypes DEF Over, FinIsOver, NoneLeft
  <1>2. CASE CardEndsBlock
    BY <1>2, EndsBlockStep, CardTypes, CtlTypes DEF Over, FinIsOver, NoneLeft
  <1>3. CASE CardTakes
    BY <1>3, TakesStep, CardTypes, CtlTypes DEF Over, FinIsOver, NoneLeft
  <1>4. CASE CardTakesBlock
    BY <1>4, TakesBlockStep, CardTypes, CtlTypes DEF Over, FinIsOver, NoneLeft
  <1>5. CASE CardReady
    BY <1>5, ReadyStep, CardTypes, CtlTypes DEF Over, FinIsOver, NoneLeft
  <1> QED BY <1>1, <1>2, <1>3, <1>4, <1>5 DEF CardGoesOn

LEMMA CardKeepsStreams ==
    ASSUME Typed, CardGoesOn
    PROVE  /\ Sends => Sends'
           /\ Sends /\ FinIsOver => (Sends /\ FinIsOver)'
           /\ Absorbs => Absorbs'
  <1>1. CASE CardSends
    BY <1>1, SendsStep, CardTypes, CtlTypes DEF Over, FinIsOver, Sends, Absorbs
  <1>2. CASE CardEndsBlock
    BY <1>2, EndsBlockStep, CardTypes, CtlTypes DEF Over, FinIsOver, Sends, Absorbs
  <1>3. CASE CardTakes
    BY <1>3, TakesStep, CardTypes, CtlTypes DEF Over, FinIsOver, Sends, Absorbs
  <1>4. CASE CardTakesBlock
    BY <1>4, TakesBlockStep, CardTypes, CtlTypes DEF Over, FinIsOver, Sends, Absorbs
  <1>5. CASE CardReady
    BY <1>5, ReadyStep, CardTypes, CtlTypes DEF Over, FinIsOver, Sends, Absorbs
  <1> QED BY <1>1, <1>2, <1>3, <1>4, <1>5 DEF CardGoesOn

\* What has been stored stays, where the card has taken every word of it.
LEMMA CardKeepsStored ==
    ASSUME Typed, CardGoesOn, ~ctl.fin, Over
    PROVE  AllStored => AllStored'
  <1>1. store' = store /\ block' = block /\ tx' = tx /\ wt_cnt' = wt_cnt
    BY CardKeeps, CardKeepsOver DEF hostVars, writeVars
  <1> QED BY <1>1 DEF AllStored, Stored, Origin

LEMMA CardKeepsNotStarted ==
    ASSUME Typed, CardGoesOn, NotStarted PROVE NotStarted'
  <1>0. Total' = Total /\ rd_cnt' = rd_cnt
    BY CardKeeps DEF hostVars, readVars, Total
  <1>1. CASE CardSends
    BY <1>0, CardKeepsSilent, <1>1, SendsStep, CardTypes, CtlTypes DEF NotStarted, Silent
  <1>2. CASE CardEndsBlock
    BY <1>0, CardKeepsSilent, <1>2, EndsBlockStep, CardTypes, CtlTypes DEF NotStarted, Silent
  <1>3. CASE CardTakes
    BY <1>0, CardKeepsSilent, <1>3, TakesStep, CardTypes, CtlTypes DEF NotStarted, Silent
  <1>4. CASE CardTakesBlock
    BY <1>0, CardKeepsSilent, <1>4, TakesBlockStep, CardTypes, CtlTypes DEF NotStarted, Silent
  <1>5. CASE CardReady
    BY <1>0, CardKeepsSilent, <1>5, ReadyStep, CardTypes, CtlTypes DEF NotStarted, Silent
  <1> QED BY <1>1, <1>2, <1>3, <1>4, <1>5 DEF CardGoesOn

LEMMA CardKeepsStarted ==
    ASSUME Typed, CardGoesOn, Started, block >= 1 PROVE Started'
  <1>0. /\ Total' = Total /\ rd_cnt' = rd_cnt /\ asked' = asked /\ Rx' = Rx /\ block' = block
    BY CardKeeps DEF hostVars, readVars, Total
  <1>02. /\ Total \in Nat /\ rd_cnt \in Nat /\ Words \in Nat /\ Words >= 1 /\ block \in Nat
        /\ ctl.left \in Nat /\ Len(fifo) \in Nat /\ card.index \in Nat /\ card.multi \in BOOLEAN
    BY CountTypes, CtlTypes, FifoTypes, CardTypes
  <1>00. block < 2 => Total = Words
    BY <1>02, TotalSize
  <1>1. CASE CardSends
    <2>0. /\ card'.multi = card.multi /\ card'.st = "data" /\ card.st = "data"
          /\ card.index < Words /\ card'.index = card.index + 1 /\ card'.sector = card.sector
          /\ ctl.left > 0 /\ ctl'.left = ctl.left - 1 /\ Len(fifo') = Len(fifo) + 1
      BY <1>1, SendsStep DEF Alike
    <2>00. \A k \in 1..Len(fifo') : fifo'[k] = IF k <= Len(fifo) THEN fifo[k] ELSE <<card.sector, card.index>>
      BY <1>1, SendsStep
    <2>1. /\ ctl.left + Len(fifo) + rd_cnt = Total /\ (card.multi <=> block >= 2)
          /\ Total - ctl.left < Words => card.sector = asked /\ card.index = Total - ctl.left
      BY <2>0 DEF Started
    <2>2. ctl'.left + Len(fifo') + rd_cnt' = Total'
      <3>1. ctl'.left = ctl.left - 1 /\ Len(fifo') = Len(fifo) + 1 /\ ctl.left + Len(fifo) + rd_cnt = Total
        BY <2>0, <2>1
      <3>2. ctl.left \in Nat /\ Len(fifo) \in Nat /\ rd_cnt \in Nat
        BY <1>02
      <3>3. (ctl.left - 1) + (Len(fifo) + 1) + rd_cnt = Total
        BY <3>1, <3>2
      <3> QED BY <1>0, <3>1, <3>3
    <2>3. \A k \in 1..Len(fifo') : rd_cnt' + k - 1 < Words => fifo'[k] = <<asked', rd_cnt' + k - 1>>
      <3> SUFFICES ASSUME NEW k \in 1..Len(fifo'), rd_cnt + k - 1 < Words PROVE fifo'[k] = <<asked, rd_cnt + k - 1>>
        BY <1>0
      <3>1. CASE k <= Len(fifo)
        <4>1. k \in 1..Len(fifo)
          BY <1>02, <2>0, <3>1
        <4>2. fifo[k] = <<asked, rd_cnt + k - 1>>
          BY <4>1 DEF Started
        <4> QED BY <2>00, <3>1, <4>2
      <3>2. CASE ~(k <= Len(fifo))
        <4>1. k = Len(fifo) + 1 /\ rd_cnt + k - 1 = Total - ctl.left
          BY <1>02, <2>0, <2>1, <3>2
        <4>2. card.sector = asked /\ card.index = rd_cnt + k - 1
          BY <2>1, <4>1
        <4>3. fifo'[k] = <<card.sector, card.index>>
          BY <2>00, <3>2
        <4> QED BY <4>2, <4>3
      <3> QED BY <3>1, <3>2
    <2>4. \A p \in 0..(Words - 1) : p < rd_cnt' => Rx'[p] = <<asked', p>>
      BY <1>0 DEF Started
    <2>5. Total - ctl'.left < Words => card'.sector = asked /\ card'.index = Total - ctl'.left
      <3>1. Total - (ctl.left - 1) = (Total - ctl.left) + 1
        BY <1>02
      <3> QED BY <1>02, <2>0, <2>1, <3>1
    <2>6. ctl'.left > 0 => card'.index <= Words
      BY <1>02, <2>0
    <2>7. ~(ctl'.left > 0) /\ block < 2 => card'.index >= Words
      <3> HAVE ~(ctl'.left > 0) /\ block < 2
      <3>1. ctl.left = 1 /\ Total = Words
        BY <1>00, <1>02, <2>0
      <3>2. Total - ctl.left < Words /\ Total - ctl.left = Words - 1
        BY <1>02, <3>1
      <3>3. card.index = Words - 1
        BY <2>1, <3>2
      <3> QED BY <1>02, <2>0, <3>3
    <2> QED BY <1>0, <2>0, <2>1, <2>2, <2>3, <2>4, <2>5, <2>6, <2>7 DEF Started
  <1>6. ASSUME ctl'.left = ctl.left, fifo' = fifo, card'.multi = card.multi,
               card'.st = "data" => card.st = "data",
               IF ctl.left > 0
               THEN /\ card'.st = "data" /\ card'.index <= Words
                    /\ Total - ctl.left < Words => card'.sector = asked /\ card'.index = Total - ctl.left
               ELSE block < 2 /\ card'.st = "data" => card'.index >= Words
        PROVE  Started'
    BY <1>0, <1>6 DEF Started
  <1>2. CASE CardEndsBlock
    <2>0. /\ card.st = "data" /\ card.index >= Words /\ (card.index > Words => ~card.multi)
          /\ IF card.multi
             THEN /\ card'.st = "data"
                  /\ IF ctl.left > 0 THEN card'.index = 0 /\ card'.sector = card.sector + 1 ELSE card'.index = Words + 1
             ELSE card'.st = "tran"
          /\ card'.multi = card.multi /\ ctl'.left = ctl.left /\ fifo' = fifo
      BY <1>2, EndsBlockStep
    <2>1. /\ card.multi <=> block >= 2
          /\ ctl.left > 0 => /\ card.index <= Words
                             /\ Total - ctl.left < Words => card.index = Total - ctl.left
      BY <2>0 DEF Started
    <2>2. CASE ctl.left > 0
      <3>1. ~(Total - ctl.left < Words) /\ block >= 2
        BY <1>0, <1>02, <1>00, <2>0, <2>1, <2>2
      <3> QED BY <1>02, <1>6, <2>0, <2>1, <2>2, <3>1
    <2>3. CASE ~(ctl.left > 0)
      BY <1>02, <1>6, <2>0, <2>1, <2>3
    <2> QED BY <2>2, <2>3
  <1>3. CASE CardTakes
    BY <1>3, TakesStep DEF Started
  <1>4. CASE CardTakesBlock
    <2>1. card.st = "rcv" /\ card'.st \in {"rcv", "prg"} /\ ctl'.left = ctl.left /\ fifo' = fifo /\ card'.multi = card.multi
      BY <1>4, TakesBlockStep
    <2>2. ~(ctl.left > 0)
      BY <2>1 DEF Started
    <2> QED BY <1>6, <2>1, <2>2
  <1>5. CASE CardReady
    <2>1. card.st = "prg" /\ card'.st = "tran" /\ ctl'.left = ctl.left /\ fifo' = fifo /\ card'.multi = card.multi
      BY <1>5, ReadyStep
    <2>2. ~(ctl.left > 0)
      BY <2>1 DEF Started
    <2> QED BY <1>6, <2>1, <2>2
  <1> QED BY <1>1, <1>2, <1>3, <1>4, <1>5 DEF CardGoesOn

\* What has already come, or is not to come, does not come again.
LEMMA CardKeepsNothingLeft ==
    ASSUME Typed, CardGoesOn, ctl.left = 0 PROVE ctl'.left = 0
  BY SendsStep, EndsBlockStep, TakesStep, TakesBlockStep, ReadyStep DEF CardGoesOn

-----------------------------------------------------------------------------
(* The card takes a block. *)

LEMMA Befores ==
    ASSUME Typed
    PROVE  /\ \A b \in Nat : b >= 1 => Before(b) \in Nat /\ Before(b + 1) = Before(b) + Words
           /\ Total = Before(block + 1) /\ Before(1) = 0
           /\ \A a, b \in Nat : 1 <= a /\ a < b => Before(a) + Words <= Before(b)
  <1>0. Words \in Nat /\ Words >= 1 /\ block \in Nat
    BY CountTypes
  <1>1. ASSUME NEW b \in Nat, b >= 1 PROVE Before(b) \in Nat /\ Before(b + 1) = Before(b) + Words
    <2>1. b - 1 \in Nat /\ (b + 1) - 1 = (b - 1) + 1
      BY <1>1
    <2>2. Words * (b - 1) \in Nat /\ Words * ((b - 1) + 1) = Words * (b - 1) + Words
      BY <1>0, <2>1
    <2> QED BY <2>1, <2>2 DEF Before
  <1>2. Total = Before(block + 1) /\ Before(1) = 0
    <2>1. (block + 1) - 1 = block /\ 1 - 1 = 0 /\ Words * 0 = 0
      BY <1>0
    <2> QED BY <2>1 DEF Before, Total
  <1>3. ASSUME NEW a \in Nat, NEW b \in Nat, 1 <= a, a < b PROVE Before(a) + Words <= Before(b)
    <2>1. a \in Nat /\ b - 1 \in Nat /\ a <= b - 1
      BY <1>3
    <2>2. Words * a <= Words * (b - 1)
      BY <1>0, <2>1, Times
    <2>3. Before(a + 1) = Words * a
      <3>1. (a + 1) - 1 = a
        OBVIOUS
      <3> QED BY <3>1 DEF Before
    <2> QED BY <1>1, <1>3, <2>2, <2>3 DEF Before
  <1> QED BY <1>1, <1>2, <1>3

LEMMA CardKeepsHasTaken ==
    ASSUME Typed, CardGoesOn, HasTaken PROVE HasTaken'
  <1>0. block' = block /\ tx' = tx /\ wt_cnt' = wt_cnt
    BY CardKeeps DEF hostVars, writeVars
  <1>1. CASE CardSends
    BY <1>1, SendsStep DEF HasTaken
  <1>2. CASE CardEndsBlock
    BY <1>2, EndsBlockStep DEF HasTaken
  <1>3. CASE CardTakes
    BY <1>3, TakesStep DEF HasTaken
  <1>4. CASE CardTakesBlock
    BY <1>4, TakesBlockStep, CardTypes DEF HasTaken
  <1>5. CASE CardReady
    <2>1. card'.st = "tran" /\ ctl'.left = ctl.left /\ store' = store
      BY <1>5, ReadyStep
    <2>2. AllStored'
      BY <1>0, <2>1 DEF HasTaken, AllStored, Stored, Origin
    <2> QED BY <2>1, <2>2 DEF HasTaken
  <1> QED BY <1>1, <1>2, <1>3, <1>4, <1>5 DEF CardGoesOn

\* The sector store with one word more.
LEMMA OneMore ==
    ASSUME NEW f, NEW d, NEW s, NEW g, g = [e \in DOMAIN f \union {d} |-> IF e = d THEN s ELSE f[e]]
    PROVE  /\ d \in DOMAIN g /\ g[d] = s
           /\ \A e : e \in DOMAIN f /\ e # d => e \in DOMAIN g /\ g[e] = f[e]
  OBVIOUS

LEMMA AppendedWords ==
    ASSUME NEW n \in Nat, NEW base \in Nat, NEW v, v = base + n
    PROVE  Append([i \in 1..n |-> base + i - 1], v) = [i \in 1..(n + 1) |-> base + i - 1]
  <1> DEFINE s == [i \in 1..n |-> base + i - 1]
             t == [i \in 1..(n + 1) |-> base + i - 1]
  <1>1. s \in Seq(Int) /\ Len(s) = n /\ \A i \in 1..n : s[i] = base + i - 1
    OBVIOUS
  <1>2. t \in Seq(Int) /\ Len(t) = n + 1 /\ \A i \in 1..(n + 1) : t[i] = base + i - 1
    OBVIOUS
  <1>3. v \in Int /\ v = base + (n + 1) - 1
    OBVIOUS
  <1> HIDE DEF s, t
  <1>4. Append(s, v) \in Seq(Int) /\ Len(Append(s, v)) = n + 1
        /\ \A i \in 1..(n + 1) : Append(s, v)[i] = IF i <= n THEN s[i] ELSE v
    BY <1>1, <1>3
  <1>5. \A i \in 1..(n + 1) : Append(s, v)[i] = t[i]
    BY <1>1, <1>2, <1>3, <1>4
  <1> QED BY <1>2, <1>4, <1>5 DEF s, t

LEMMA CardKeepsAccounts ==
    ASSUME Typed, CardGoesOn, Accounts, block >= 1 PROVE Accounts'
  <1>0. block' = block /\ tx' = tx /\ wt_cnt' = wt_cnt /\ Total' = Total /\ Origin' = Origin
    BY CardKeeps DEF hostVars, writeVars, Total, Origin
  <1>02. /\ Total \in Nat /\ Words \in Nat /\ Words >= 1 /\ block \in Nat /\ wt_cnt \in Nat /\ tx \in Nat
         /\ ctl.left \in Nat /\ Len(fifo) \in Nat /\ card.index \in Nat /\ card.multi \in BOOLEAN
    BY CountTypes, CtlTypes, FifoTypes, CardTypes
  <1>03. Gone \in Int /\ Origin \in Nat /\ Gone + Len(fifo) = wt_cnt
    BY <1>02 DEF Gone, Origin, Accounts
  <1>04. \A k \in 1..Len(fifo) : fifo[k] = <<Null, Origin + Gone + k - 1>>
    BY DEF Accounts
  <1>05. card.st = "data" => FALSE
    BY DEF Accounts, Takes, HasTaken
  <1>1. CASE CardSends
    BY <1>05, <1>1, SendsStep
  <1>2. CASE CardEndsBlock
    BY <1>05, <1>2, EndsBlockStep
  <1>3. CASE CardTakes
    <2>0. /\ Alike(card', card) /\ card'.st = "rcv" /\ card.st = "rcv" /\ card.index < Words
          /\ card'.index = card.index + 1 /\ card'.sector = card.sector
          /\ ctl.left > 0 /\ ctl'.left = ctl.left - 1 /\ ctl'.fin = ctl.fin
      BY <1>3, TakesStep DEF Alike
    <2>1. fifo # <<>> /\ Len(fifo') = Len(fifo) - 1 /\ \A k \in 1..Len(fifo') : fifo'[k] = fifo[k + 1]
      BY <1>3, TakesStep
    <2>2. store' = [s \in DOMAIN store \union {card.sector} |->
                      IF s = card.sector
                      THEN Append(IF card.index = 0 THEN <<>> ELSE store[card.sector], fifo[1][2])
                      ELSE store[s]]
      BY <1>3, TakesStep
    <2>3. Takes
      BY <2>0 DEF Accounts, HasTaken
    <2>4. Gone' = Gone + 1
      BY <1>0, <1>02, <2>0 DEF Gone
    <2>5. Gone' + Len(fifo') = wt_cnt'
      <3>1. Len(fifo') = Len(fifo) - 1
        BY <2>1
      <3>2. (Gone + 1) + (Len(fifo) - 1) = wt_cnt
        BY <1>02, <1>03
      <3> QED BY <1>0, <2>4, <3>1, <3>2
    <2>6. \A k \in 1..Len(fifo') : fifo'[k] = <<Null, Origin' + Gone' + k - 1>>
      <3> SUFFICES ASSUME NEW k \in 1..Len(fifo') PROVE fifo'[k] = <<Null, Origin + (Gone + 1) + k - 1>>
        BY <1>0, <2>4
      <3>1. k + 1 \in 1..Len(fifo) /\ fifo'[k] = fifo[k + 1]
        BY <1>02, <2>1
      <3>2. fifo[k + 1] = <<Null, Origin + Gone + (k + 1) - 1>>
        BY <1>04, <3>1
      <3>3. Origin + Gone + (k + 1) - 1 = Origin + (Gone + 1) + k - 1
        BY <1>03
      <3> QED BY <3>1, <3>2, <3>3
    <2>7. card.sector \in 1..block /\ Gone = Before(card.sector) + card.index /\ card.sector \in Nat /\ card.sector >= 1
      BY <1>02, <2>3 DEF Takes
    <2>8. Before(card.sector) \in Nat
      BY <2>7, Befores
    <2> DEFINE s == card.sector
               base == Origin + Before(s)
               old == IF card.index = 0 THEN <<>> ELSE store[s]
    <2>9. old = [i \in 1..card.index |-> base + i - 1]
      <3>1. CASE card.index = 0
        BY <3>1
      <3>2. CASE card.index # 0
        <4>1. Stored(s, card.index)
          BY <1>02, <2>3, <3>2 DEF Takes
        <4> QED BY <3>2, <4>1 DEF Stored
      <3> QED BY <3>1, <3>2
    <2>10. fifo[1][2] = base + card.index
      <3>1. fifo[1] = <<Null, Origin + Gone + 1 - 1>>
        <4>1. 1 \in 1..Len(fifo)
          BY <1>02, <2>1, FifoTypes
        <4> QED BY <1>04, <4>1
      <3>2. Origin + Gone + 1 - 1 = Origin + Before(s) + card.index
        BY <1>02, <1>03, <2>7, <2>8
      <3> QED BY <3>1, <3>2
    <2>11. base \in Nat
      BY <1>03, <2>8
    <2> DEFINE new == Append(old, fifo[1][2])
    <2>12. new = [i \in 1..(card.index + 1) |-> base + i - 1]
      <3> HIDE DEF base, old
      <3> QED BY <1>02, <2>9, <2>10, <2>11, AppendedWords
    <2>13. store' = [e \in DOMAIN store \union {s} |-> IF e = s THEN new ELSE store[e]]
      BY <2>2
    <2> HIDE DEF new, old
    <2>14. /\ s \in DOMAIN store' /\ store'[s] = new
           /\ \A e : e \in DOMAIN store /\ e # s => e \in DOMAIN store' /\ store'[e] = store[e]
      BY <2>13, OneMore
    <2>15. s \in DOMAIN store' /\ store'[s] = [i \in 1..(card.index + 1) |-> Origin + Before(s) + i - 1]
      BY <2>12, <2>14
    <2>16. \A b \in 1..(s - 1) : Stored(b, Words)'
      <3> SUFFICES ASSUME NEW b \in 1..(s - 1) PROVE Stored(b, Words)'
        OBVIOUS
      <3>1. b # s /\ Stored(b, Words)
        BY <2>3, <2>7 DEF Takes
      <3> QED BY <1>0, <2>14, <3>1 DEF Stored
    <2>17. Takes'
      <3>1. Gone' = Before(card'.sector) + card'.index
        BY <1>0, <1>02, <2>0, <2>4, <2>7, <2>8
      <3>2. card'.index <= Words
        BY <1>02, <2>0
      <3>3. card'.st = "rcv" /\ (card'.multi <=> block' >= 2) /\ ~ctl'.fin /\ card'.sector \in 1..block'
        BY <1>0, <2>0, <2>3 DEF Takes, Alike
      <3>4. \A b \in 1..(card'.sector - 1) : Stored(b, Words)'
        BY <2>0, <2>16
      <3>5. Stored(card.sector, card.index)'
        <4>1. s = card.sector /\ card'.sector = card.sector /\ card'.index = card.index + 1 /\ Origin' = Origin
          BY <1>0, <2>0
        <4> HIDE DEF s
        <4> QED BY <2>15, <4>1 DEF Stored
      <3> QED BY <2>0, <3>1, <3>2, <3>3, <3>4, <3>5 DEF Takes
    <2> QED BY <1>0, <1>03, <2>5, <2>6, <2>17 DEF Accounts
  <1>4. CASE CardTakesBlock
    <2>0. /\ card.st = "rcv" /\ card.index = Words /\ card'.multi = card.multi
          /\ IF card.multi
             THEN /\ card'.st = "rcv"
                  /\ IF ctl.left > 0 THEN card'.index = 0 /\ card'.sector = card.sector + 1 ELSE card'.index = Words + 1
             ELSE card'.st = "prg"
          /\ ctl'.left = ctl.left /\ (ctl'.fin <=> ctl.fin \/ ctl.left = 0) /\ store' = store /\ fifo' = fifo
      BY <1>4, TakesBlockStep
    <2>1. Takes
      BY <1>02, <2>0 DEF Accounts, HasTaken
    <2> DEFINE s == card.sector
    <2>2. /\ s \in 1..block /\ s \in Nat /\ s >= 1 /\ Gone = Before(s) + Words /\ (card.multi <=> block >= 2) /\ ~ctl.fin
      BY <1>02, <2>0, <2>1 DEF Takes
    <2>3. \A b \in 1..s : Stored(b, Words)
      <3> SUFFICES ASSUME NEW b \in 1..s PROVE Stored(b, Words)
        OBVIOUS
      <3>1. CASE b = s
        BY <1>02, <2>0, <2>1, <3>1 DEF Takes
      <3>2. CASE b # s
        <4>1. b \in 1..(s - 1)
          BY <2>2, <3>2
        <4> QED BY <2>1, <4>1 DEF Takes
      <3> QED BY <3>1, <3>2
    <2>4. Gone' = Gone /\ \A b, n : Stored(b, n) => b \in DOMAIN store' /\ store'[b] = [i \in 1..n |-> Origin' + Before(b) + i - 1]
      BY <1>0, <2>0 DEF Gone, Stored
    <2>5. Gone = Before(s + 1) /\ Before(s + 1) \in Nat
      <3>1. Before(s + 1) = Before(s) + Words /\ Before(s + 1) \in Nat
        BY <2>2, Befores
      <3> QED BY <2>2, <3>1
    <2>6. CASE ctl.left > 0
      <3>1. s < block
        <4>1. Gone < Total
          BY <1>02, <2>6 DEF Gone
        <4>2. Total = Before(block + 1)
          BY Befores
        <4>3. s # block
          BY <1>02, <2>5, <4>1, <4>2
        <4> QED BY <1>02, <2>2, <4>3
      <3>2. card.multi /\ card'.st = "rcv" /\ card'.index = 0 /\ card'.sector = s + 1 /\ ~ctl'.fin
        BY <1>02, <2>0, <2>2, <2>6, <3>1
      <3>3. Takes'
        <4>1. card'.sector \in 1..block' /\ card'.index <= Words /\ (card'.multi <=> block' >= 2)
          BY <1>0, <1>02, <2>0, <2>2, <3>1, <3>2
        <4>2. Gone' = Before(card'.sector) + card'.index
          BY <2>4, <2>5, <3>2
        <4>3. \A b \in 1..(card'.sector - 1) : Stored(b, Words)'
          <5> SUFFICES ASSUME NEW b \in 1..(card'.sector - 1) PROVE Stored(b, Words)'
            OBVIOUS
          <5>1. b \in 1..s
            BY <2>2, <3>2
          <5> QED BY <2>3, <2>4, <5>1 DEF Stored
        <4> QED BY <1>02, <3>2, <4>1, <4>2, <4>3 DEF Takes
      <3> QED BY <1>0, <1>03, <1>04, <2>0, <2>4, <3>3 DEF Accounts
    <2>7. CASE ~(ctl.left > 0)
      <3>1. ctl.left = 0 /\ ctl'.left = 0
        BY <1>02, <2>0, <2>7
      <3>2. s = block
        <4>1. Gone = Total
          BY <1>02, <3>1 DEF Gone
        <4>2. Total = Before(block + 1)
          BY Befores
        <4>3. ASSUME s < block PROVE FALSE
          <5>0. s + 1 \in Nat /\ block + 1 \in Nat /\ 1 <= s + 1 /\ s + 1 < block + 1
            BY <1>02, <2>2, <4>3
          <5>1. Before(s + 1) + Words <= Before(block + 1)
            BY <5>0, Befores
          <5> QED BY <1>02, <2>5, <4>1, <4>2, <5>1
        <4> QED BY <1>02, <2>2, <4>3
      <3>3. AllStored'
        BY <1>0, <2>3, <2>4, <3>2 DEF AllStored, Stored
      <3>4. card'.st # "data" /\ (card'.st = "rcv" => card'.index > Words /\ block' >= 2)
        BY <1>0, <1>02, <2>0, <2>2, <2>7
      <3>5. HasTaken'
        BY <3>1, <3>3, <3>4 DEF HasTaken
      <3> QED BY <1>0, <1>03, <1>04, <2>0, <2>4, <3>5 DEF Accounts
    <2> QED BY <2>6, <2>7
  <1>5. CASE CardReady
    <2>1. card.st = "prg" /\ ctl'.left = ctl.left /\ fifo' = fifo
      BY <1>5, ReadyStep
    <2>2. HasTaken'
      BY <2>1, CardKeepsHasTaken DEF Accounts, Takes
    <2>3. Gone' = Gone
      BY <1>0, <2>1 DEF Gone
    <2> QED BY <1>0, <1>03, <1>04, <2>1, <2>2, <2>3 DEF Accounts
  <1> QED BY <1>1, <1>2, <1>3, <1>4, <1>5 DEF CardGoesOn

-----------------------------------------------------------------------------
(* A step of the card leads from a point of the program to the same. *)

Step == UNCHANGED scenario /\ CardGoesOn /\ UNCHANGED readerVars

LEMMA CardStepFrame ==
    ASSUME Typed, Step
    PROVE  /\ work' = work /\ scenario' = scenario /\ block' = block /\ asked' = asked /\ MMC' = MMC /\ RCA' = RCA
           /\ Wide' = Wide /\ rsp' = rsp /\ tx' = tx /\ wt_cnt' = wt_cnt /\ rd_cnt' = rd_cnt /\ Rx' = Rx
           /\ Data_buffer' = Data_buffer /\ j' = j /\ faults' = faults /\ dataFaults' = dataFaults
           /\ operations' = operations /\ Total' = Total
  BY CardKeeps DEF Step, hostVars, busWidth, readVars, writeVars, countVars, Total

LEMMA CardStepTyped ==
    ASSUME Typed, ReaderTyped, Always, Step
    PROVE  Typed' /\ ReaderTyped' /\ Always'
  <1>1. /\ card' \in CardSet /\ card'.kind = card.kind /\ card'.wide = card.wide
        /\ ctl' \in CtlSet /\ ctl'.tmo = ctl.tmo /\ fifo' \in Seq(WordSet) /\ Len(fifo') <= FifoDepth
    BY CardKeeps DEF Alike, Step
  <1>2. Typed'
    BY <1>1, CardStepFrame DEF Typed
  <1>3. ReaderTyped'
    BY CardStepFrame DEF Step, ReaderTyped, readerVars, bpbVars, volume
  <1>4. Always'
    BY <1>1, CardStepFrame DEF Always, MmcTests, Listening, At, InPlace, Calm, Asking, WholeBuffer
  <1> QED BY <1>2, <1>3, <1>4

LEMMA CardStepFinding ==
    ASSUME Typed, Step, Point
    PROVE  /\ Ending => Ending'
           /\ Resting => Resting'
           /\ Locating => Locating'
  <1>0. /\ work' = work /\ scenario' = scenario /\ block' = block /\ MMC' = MMC /\ RCA' = RCA
        /\ Wide' = Wide /\ rsp' = rsp
    BY CardStepFrame
  <1>1. card'.kind = card.kind /\ card'.rca = card.rca /\ card'.wide = card.wide
        /\ (card.st \in {"ready", "ident", "stby", "tran"} => card'.st = card.st)
    BY CardKeeps DEF Alike, Step
  <1>2. (Agreed => Agreed') /\ (Still => Still')
    BY CardKeepsAgreed, CardKeepsQuiet, CardKeepsDone DEF Still, Step
  <1>3. Ending => Ending'
    BY <1>0 DEF Ending
  <1>4. Resting => Resting'
    BY <1>0, <1>2 DEF Resting, On, Early, Bottom
  <1>5. (Finds => Finds') /\ (IsReady => IsReady')
    BY <1>0, <1>2 DEF Finds, IsReady, On, Bottom
  <1>6. TriesOcr => TriesOcr'
    BY <1>0 DEF TriesOcr, On, Bottom, At
  <1>7. Known => Known'
    BY <1>0, <1>1 DEF Known
  <1>8. (FollowsOcr => FollowsOcr') /\ (HasAddress => HasAddress')
    BY <1>0, <1>1 DEF FollowsOcr, HasAddress, On, Bottom
  <1>9. AsksAddress => AsksAddress'
    BY <1>0, <1>1 DEF AsksAddress, On, Bottom
  <1>10. Selects => Selects'
    BY <1>0, <1>1 DEF Selects, On, Bottom
  <1>11. IsSelected => IsSelected'
    BY <1>0, <1>1 DEF IsSelected, On, Bottom
  <1>12. SetsBus => SetsBus'
    BY <1>0, <1>1 DEF SetsBus, On, Bottom
  <1>13. Early => Early'
    BY <1>0 DEF Early, Bottom
  <1>14. Locating => Locating'
    BY <1>2, <1>5, <1>6, <1>7, <1>8, <1>9, <1>10, <1>11, <1>12, <1>13 DEF Locating
  <1> QED BY <1>3, <1>4, <1>14

LEMMA CardStepTransferring ==
    ASSUME Typed, Step, Transferring
    PROVE  Transferring'
  <1>0. /\ work' = work /\ scenario' = scenario /\ block' = block /\ asked' = asked /\ MMC' = MMC /\ Total' = Total
        /\ wt_cnt' = wt_cnt /\ rd_cnt' = rd_cnt /\ block >= 1 /\ CardGoesOn
    BY CardStepFrame DEF Transferring, Step
  <1>1. (Agreed => Agreed') /\ (Still => Still') /\ (Quiet => Quiet') /\ (Calm' <=> Calm) /\ (Exact' <=> Exact)
    BY <1>0, CardKeepsAgreed, CardKeepsQuiet, CardKeepsDone DEF Still
  <1>2. ctl'.tmo = ctl.tmo /\ (Silent => Silent') /\ (NotStarted => NotStarted') /\ (Started => Started')
        /\ (ctl.left = 0 => ctl'.left = 0)
    BY <1>0, CardKeeps, CardKeepsSilent, CardKeepsNotStarted, CardKeepsStarted, CardKeepsNothingLeft
  <1>3. /\ NoneLeft => NoneLeft'
        /\ ~ctl.fin /\ Over => (~ctl.fin /\ Over)'
        /\ card.st # "rcv" /\ Over => (card.st # "rcv" /\ Over)'
        /\ card.st # "rcv" /\ FinIsOver => (card.st # "rcv" /\ FinIsOver)'
        /\ Sends => Sends'
        /\ Sends /\ FinIsOver => (Sends /\ FinIsOver)'
        /\ Absorbs => Absorbs'
    BY <1>0, CardKeepsDone, CardKeepsStreams
  <1>4. /\ Accounts => Accounts'
        /\ HasTaken => HasTaken'
        /\ ~ctl.fin /\ Over /\ AllStored => AllStored'
    BY <1>0, CardKeepsAccounts, CardKeepsHasTaken, CardKeepsStored
  <1>5. Reading => Reading'
    <2>1. StartsRead => StartsRead'
      BY <1>0, <1>1 DEF StartsRead, On, Bottom, At
    <2>2. SendsRead => SendsRead'
      BY <1>0, <1>1, <1>2, <1>3 DEF SendsRead, On, Bottom
    <2>3. Receives => Receives'
      BY <1>0, <1>1, <1>2, <1>3 DEF Receives, On, Bottom
    <2>4. AwaitsEnd => AwaitsEnd'
      BY <1>0, <1>1, <1>2, <1>3 DEF AwaitsEnd, On, Bottom
    <2>5. ClearsEnd => ClearsEnd'
      BY <1>0, <1>1, <1>2, <1>3 DEF ClearsEnd, On, Bottom
    <2>6. Stops => Stops'
      BY <1>0, <1>1, <1>2, <1>3 DEF Stops, On, Bottom
    <2> QED BY <2>1, <2>2, <2>3, <2>4, <2>5, <2>6 DEF Reading
  <1>6. Writing => Writing'
    <2>1. StartsWrite => StartsWrite'
      BY <1>0, <1>1 DEF StartsWrite, On, Bottom
    <2>2. SendsWrite => SendsWrite'
      <3>1. ASSUME fifo = <<>>, ctl.left = Total, NoneLeft \/ (Takes /\ card.index = 0)
            PROVE  /\ fifo' = <<>> /\ ctl'.left = Total'
                   /\ NoneLeft' \/ (Takes /\ card.index = 0)'
        <4>1. ~(Takes /\ card.index = 0)
          <5> SUFFICES ASSUME card.st = "rcv", card.index = 0 PROVE FALSE
            BY DEF Takes
          <5> QED BY <1>0, <3>1, SendsStep, EndsBlockStep, TakesStep, TakesBlockStep, ReadyStep, CountTypes DEF CardGoesOn
        <4>2. NoneLeft'
          BY <1>3, <3>1, <4>1
        <4>3. fifo' = fifo /\ ctl'.left = ctl.left
          <5>1. ~CardSends
            BY <3>1, <4>1, SendsStep, CardTypes DEF NoneLeft, Over
          <5>2. ~CardTakes
            BY <3>1, TakesStep
          <5> QED BY <1>0, <5>1, <5>2, EndsBlockStep, TakesBlockStep, ReadyStep DEF CardGoesOn
        <4> QED BY <1>0, <3>1, <4>2, <4>3
      <3> QED BY <1>0, <1>1, <3>1 DEF SendsWrite, On, Bottom
    <2>3. Transmits => Transmits'
      BY <1>0, <1>1, <1>4 DEF Transmits, On, Bottom
    <2>4. AwaitsWritten => AwaitsWritten'
      BY <1>0, <1>1, <1>4 DEF AwaitsWritten, On, Bottom
    <2>5. ClearsWritten => ClearsWritten'
      BY <1>0, <1>1, <1>4 DEF ClearsWritten, On, Bottom
    <2>6. StopsWrite => StopsWrite'
      BY <1>0, <1>1, <1>3, <1>4 DEF StopsWrite, On, Bottom
    <2>7. Programs => Programs'
      <3>1. Exact /\ Still => ~ctl.fin /\ Over
        BY DEF Still, NoneLeft
      <3> QED BY <1>0, <1>1, <1>4, <3>1 DEF Programs, On, Bottom
    <2> QED BY <2>1, <2>2, <2>3, <2>4, <2>5, <2>6, <2>7 DEF Writing
  <1>7. Streaming => Streaming'
    <2>1. StartsStream => StartsStream'
      BY <1>0, <1>1, <1>3 DEF StartsStream, On, Bottom, At
    <2>2. SendsStream => SendsStream'
      BY <1>0, <1>1, <1>3 DEF SendsStream, On, Bottom, At
    <2>3. Streams => Streams'
      BY <1>0, <1>1, <1>3 DEF Streams, On, Bottom, At
    <2>4. (StartsStreamOut => StartsStreamOut') /\ (Flushes => Flushes')
      BY <1>0, <1>1 DEF StartsStreamOut, Flushes, On, Bottom
    <2>5. SendsStreamOut => SendsStreamOut'
      BY <1>0, <1>1, <1>3 DEF SendsStreamOut, On, Bottom
    <2>6. StreamsOut => StreamsOut'
      BY <1>0, <1>1, <1>3 DEF StreamsOut, On, Bottom, At
    <2>7. StopsStreamOut => StopsStreamOut'
      BY <1>0, <1>1, <1>3 DEF StopsStreamOut, On, Bottom
    <2>8. Bottom' = Bottom
      BY <1>0 DEF Bottom
    <2> QED BY <2>1, <2>2, <2>3, <2>4, <2>5, <2>6, <2>7, <2>8 DEF Streaming
  <1>8. OtherTests => OtherTests'
    BY <1>0, <1>1 DEF OtherTests, On, Bottom
  <1> QED BY <1>0, <1>1, <1>5, <1>6, <1>7, <1>8 DEF Transferring

-----------------------------------------------------------------------------
(* The data stops. *)

LEMMA EndedCard ==
    ASSUME Typed, card.st = "data"
    PROVE  /\ Ended(card) \in CardSet /\ Alike(Ended(card), card)
           /\ Ended(card).st \in {"data", "tran"}
           /\ Ended(card).st = "data" => Ended(card).index > Words
  <1>0. card \in CardSet /\ card.index \in 0..(Words + 1) /\ Words \in Nat
    BY CardTypes
  <1>1. CASE card.multi
    <2> DEFINE i == Words + 1
    <2>1. i \in 0..(Words + 1) /\ Ended(card) = [card EXCEPT !.index = i] /\ i > Words
      BY <1>0, <1>1 DEF Ended
    <2> HIDE DEF i
    <2>2. LET d == Ended(card) IN d \in CardSet /\ Alike(d, card) /\ d.st = card.st /\ d.index = i
      BY <1>0, <2>1, CardIndexed
    <2> QED BY <2>1, <2>2
  <1>2. CASE ~card.multi
    <2>1. Ended(card) = [card EXCEPT !.st = "tran"] /\ "tran" \in CardStates
      BY <1>2 DEF Ended, CardStates, Selected
    <2>2. LET d == Ended(card) IN d \in CardSet /\ Alike(d, card) /\ d.st = "tran"
      BY <1>0, <2>1, CardTurned
    <2> QED BY <2>2
  <1> QED BY <1>1, <1>2

LEMMA TimeoutFrame ==
    ASSUME Typed, DataTimeout
    PROVE  /\ card' \in CardSet /\ Alike(card', card)
           /\ card'.st = card.st \/ (card.st = "data" /\ card'.st = "tran")
           /\ card.st = "data" /\ card.index <= Words =>
                /\ dataFaults < scenario.dataFaults
                /\ card'.st = "data" => card'.index > Words
           /\ ctl' \in CtlSet /\ ctl'.left = 0 /\ ctl'.tmo = TRUE /\ ctl.left > 0 /\ ~ctl.tmo
           /\ dataFaults' = dataFaults + 1
           /\ UNCHANGED <<work, hostVars, store, rsp, fifo, faults, operations>>
  <1>1. ctl' \in CtlSet /\ ctl'.left = 0 /\ ctl'.tmo = TRUE
    <2>1. ctl' = [ctl EXCEPT !.left = 0, !.tmo = TRUE] /\ 0 \in 0..Room /\ ctl \in CtlSet
      BY CtlTypes DEF DataTimeout
    <2> QED BY <2>1 DEF CtlSet
  <1>2. CASE card.st = "data" /\ card.index <= Words
    <2>1. card' = Ended(card) /\ dataFaults < scenario.dataFaults
      BY <1>2 DEF DataTimeout
    <2> QED BY <1>1, <1>2, <2>1, EndedCard DEF DataTimeout
  <1>3. CASE ~(card.st = "data" /\ card.index <= Words)
    <2>1. card' = card
      BY <1>3 DEF DataTimeout
    <2> QED BY <1>1, <1>3, <2>1, CardTypes DEF DataTimeout, Alike
  <1> QED BY <1>2, <1>3

LEMMA TimeoutStep ==
    ASSUME SdInv, DataTimeout, UNCHANGED scenario, UNCHANGED readerVars
    PROVE  SdInv'
  <1>0. Typed /\ ReaderTyped /\ Always /\ Point
    BY DEF SdInv
  <1>1. /\ card' \in CardSet /\ Alike(card', card)
        /\ card'.st = card.st \/ (card.st = "data" /\ card'.st = "tran")
        /\ card.st = "data" /\ card.index <= Words => (card'.st = "data" => card'.index > Words)
        /\ ctl' \in CtlSet /\ ctl'.left = 0 /\ ctl'.tmo = TRUE /\ ctl.left > 0 /\ ~ctl.tmo
        /\ dataFaults' = dataFaults + 1
    BY <1>0, TimeoutFrame
  <1>01. card.st = "data" /\ card.index <= Words => dataFaults < scenario.dataFaults
    BY <1>0, TimeoutFrame
  <1>2. /\ work' = work /\ scenario' = scenario /\ block' = block /\ asked' = asked /\ MMC' = MMC /\ RCA' = RCA
        /\ Wide' = Wide /\ rsp' = rsp /\ tx' = tx /\ wt_cnt' = wt_cnt /\ rd_cnt' = rd_cnt /\ Rx' = Rx
        /\ Data_buffer' = Data_buffer /\ j' = j /\ faults' = faults /\ fifo' = fifo /\ operations' = operations
    BY <1>0, TimeoutFrame DEF hostVars, busWidth, readVars, writeVars
  <1>3. dataFaults \in Nat /\ operations \in Nat /\ scenario.operations \in Nat /\ scenario.dataFaults \in Nat
    BY <1>0, FaultTypes, SdAssumption DEF SdAssumption, Typed
  <1>4. At("receive") => Transferring /\ Receives
    BY <1>0, PointTransferring DEF At, Tag
  <1>5. At("stream") => Transferring /\ Streaming /\ Streams
    BY <1>0, PointTransferring DEF At, Tag
  <1>6. At("receive") \/ At("stream")
    BY DEF DataTimeout
  <1>7. Agreed' /\ IsStack(work)'
    <2>1. Agreed /\ IsStack(work)
      BY <1>0, <1>4, <1>5, <1>6 DEF Transferring, Point
    <2> QED BY <1>1, <1>2, <2>1 DEF Agreed, Alike, Selected
  <1>8. ~Exact' /\ (Calm' => ~MmcTests) /\ (Calm' => Calm)
    BY <1>1, <1>2, <1>3 DEF Exact, Calm, MmcTests
  <1>9. dataFaults < scenario.dataFaults + operations
    <2>1. CASE scenario.operations > 0
      BY <1>0, <1>1, <1>6, <2>1 DEF Always, Listening
    <2>2. CASE scenario.operations = 0
      <3>1. At("receive")
        <4>1. ~At("stream")
          BY <1>3, <1>5, <2>2 DEF Streaming, Streams, On
        <4> QED BY <1>6, <4>1
      <3>2. Started
        BY <1>1, <1>4, <2>2, <3>1 DEF Receives, Calm, MmcTests
      <3>3. card.st = "data" /\ card.index <= Words
        BY <1>1, <3>2 DEF Started
      <3> QED BY <1>01, <1>3, <3>3
    <2> QED BY <1>3, <2>1, <2>2
  <1>10. Typed'
    <2>1. dataFaults' \in 0..(scenario'.dataFaults + operations')
      BY <1>1, <1>2, <1>3, <1>9
    <2> QED BY <1>0, <1>1, <1>2, <2>1 DEF Typed, Alike
  <1>11. ReaderTyped'
    BY <1>0, <1>2 DEF ReaderTyped, readerVars, bpbVars, volume
  <1>12. Always'
    <2>1. dataFaults' > 0 /\ dataFaults' # 0
      BY <1>1, <1>3
    <2> QED BY <1>0, <1>1, <1>2, <1>8, <2>1 DEF Always, Alike, MmcTests, InPlace, WholeBuffer
  <1>13. CASE At("receive")
    <2>1. Receives'
      <3>1. On(<<I("receive")>>)'
        BY <1>2, <1>4, <1>13 DEF Receives, On, Bottom
      <3>2. Calm' => Silent' /\ rd_cnt' < Total'
        <4> HAVE Calm'
        <4>1. Started
          BY <1>1, <1>4, <1>8, <1>13 DEF Receives
        <4>2. card.st = "data" /\ card.index <= Words
          BY <1>1, <4>1 DEF Started
        <4>3. rd_cnt < Total
          <5>1. ctl.left + Len(fifo) + rd_cnt = Total /\ ctl.left > 0
            BY <1>1, <4>1 DEF Started
          <5> QED BY <1>0, <5>1, CtlTypes, FifoTypes, CountTypes
        <4>4. rd_cnt' < Total'
          BY <1>2, <4>3 DEF Total
        <4> QED BY <1>0, <1>1, <4>2, <4>4, CardTypes DEF Silent, Alike, CardSet
      <3> QED BY <1>1, <1>8, <3>1, <3>2 DEF Receives
    <2> QED BY <1>2, <1>4, <1>7, <1>10, <1>11, <1>12, <1>13, <2>1 DEF SdInv, Point, Transferring, Reading
  <1>14. CASE At("stream")
    <2>1. Streams'
      BY <1>2, <1>5, <1>8, <1>14 DEF Streams, On, Bottom, At
    <2>2. Bottom' = Bottom
      BY <1>2 DEF Bottom
    <2> QED BY <1>2, <1>5, <1>7, <1>10, <1>11, <1>12, <1>14, <2>1, <2>2 DEF SdInv, Point, Transferring, Streaming
  <1> QED BY <1>6, <1>13, <1>14

LEMMA CardStep ==
    ASSUME SdInv, Card, UNCHANGED scenario, UNCHANGED readerVars
    PROVE  SdInv'
  <1>0. Typed /\ ReaderTyped /\ Always /\ Point
    BY DEF SdInv
  <1>1. CASE DataTimeout
    BY <1>1, TimeoutStep
  <1>2. CASE CardGoesOn
    <2>1. Step
      BY <1>2 DEF Step
    <2>2. IsStack(work)'
      BY <1>0, <2>1, CardStepFrame DEF Point
    <2>3. Typed' /\ ReaderTyped' /\ Always'
      BY <1>0, <2>1, CardStepTyped
    <2>4. Ending' \/ Resting' \/ Locating' \/ Transferring'
      BY <1>0, <2>1, CardStepFinding, CardStepTransferring DEF Point
    <2> QED BY <2>2, <2>3, <2>4 DEF SdInv, Point
  <1> QED BY <1>1, <1>2 DEF Card, CardGoesOn

-----------------------------------------------------------------------------
(* What a command does to the card, whether or not it ends. *)

\* Nothing but the mark of CMD55.
Unmoved(c) == MovedTo(c, card.st)

\* Either it has no effect and does not end, or it has the card's.
LEMMA EffectCases ==
    ASSUME Typed, NEW n, NEW arg, NEW o \in Chk_CMDend(n, arg)
    PROVE  \/ Unmoved(o.card) /\ o.rsp = rsp /\ ~o.end
           \/ \E d \in CardDoes(n, arg) :
                /\ o.card = d.card
                /\ o.rsp \in {d.rsp, [is |-> "garbled", rca |-> Garbled], rsp}
                /\ o.end => o.rsp # rsp \/ o.rsp = d.rsp \/ o.rsp = [is |-> "garbled", rca |-> Garbled]
                /\ o.end => o.rsp \in {d.rsp, [is |-> "garbled", rca |-> Garbled]}
  <1>1. card \in CardSet /\ MovedTo(card, card.st) /\ MovedTo([card EXCEPT !.app = FALSE], card.st)
    BY UnmarkedTyped DEF Typed, MovedTo, Unmarked
  <1>2. CASE o.end
    <2>1. PICK d \in CardDoes(n, arg) : o.card = d.card /\ o.rsp \in {d.rsp, [is |-> "garbled", rca |-> Garbled]}
      BY <1>2, ExchangeCases
    <2> QED BY <2>1
  <1>3. CASE ~o.end
    <2>1. o.rsp = rsp /\ (o.card = card \/ o.card = [card EXCEPT !.app = FALSE] \/ \E d \in CardDoes(n, arg) : o.card = d.card)
      BY <1>3, ExchangeCases
    <2> QED BY <1>1, <1>3, <2>1 DEF Unmoved
  <1> QED BY <1>2, <1>3

LEMMA EffectAsk ==
    ASSUME Typed, NEW n \in {9, 13, 28, 29, 55}, NEW arg, NEW o \in Chk_CMDend(n, arg)
    PROVE  Unmoved(o.card)
  BY EffectCases, DoesAsk DEF Unmoved

LEMMA EffectPowerUp ==
    ASSUME Typed, NEW n \in {1, 41}, NEW arg, NEW o \in Chk_CMDend(n, arg)
    PROVE  /\ Unmoved(o.card) \/ MovedTo(o.card, "ready")
           /\ o.end /\ o.rsp.is = "ocr" => MovedTo(o.card, "ready") /\ card.kind # "none" /\ (n = 1 <=> card.kind = "MMC")
  <1>1. CASE Unmoved(o.card) /\ ~o.end
    BY <1>1
  <1>2. ASSUME NEW d \in CardDoes(n, arg), o.card = d.card,
               o.end => o.rsp \in {d.rsp, [is |-> "garbled", rca |-> Garbled]}
        PROVE  /\ Unmoved(o.card) \/ MovedTo(o.card, "ready")
               /\ o.end /\ o.rsp.is = "ocr" => MovedTo(o.card, "ready") /\ card.kind # "none" /\ (n = 1 <=> card.kind = "MMC")
    <2>1. \/ MovedTo(d.card, card.st) /\ d.rsp.is # "ocr"
          \/ MovedTo(d.card, "ready") /\ card.st = "idle" /\ card.kind # "none" /\ (n = 1 <=> card.kind = "MMC")
      BY DoesPowerUp
    <2>2. o.end /\ o.rsp.is = "ocr" => d.rsp.is = "ocr"
      BY <1>2
    <2> QED BY <1>2, <2>1, <2>2 DEF Unmoved
  <1> QED BY <1>1, <1>2, EffectCases

LEMMA EffectFollow ==
    ASSUME Typed, NEW arg, NEW o \in Chk_CMDend(2, arg)
    PROVE  /\ Unmoved(o.card) \/ MovedTo(o.card, "ident")
           /\ o.end => MovedTo(o.card, "ident")
  BY EffectCases, DoesFollow

LEMMA EffectAddress ==
    ASSUME Typed, NEW arg \in 0..3, NEW o \in Chk_CMDend(3, arg)
    PROVE  /\ o.card.kind = card.kind /\ o.card.wide = card.wide
           /\ Unmoved(o.card) \/ o.card.st = "stby"
           /\ o.end => /\ o.card.st = "stby"
                       /\ card.kind = "MMC" => o.card.rca = arg
                       /\ card.kind \in {"SD", "SDHS"} => o.rsp.rca \in {o.card.rca, Garbled}
  <1>1. CASE Unmoved(o.card) /\ ~o.end
    BY <1>1 DEF Unmoved, MovedTo
  <1>2. ASSUME NEW d \in CardDoes(3, arg), o.card = d.card,
               o.end => o.rsp \in {d.rsp, [is |-> "garbled", rca |-> Garbled]}
        PROVE  /\ o.card.kind = card.kind /\ o.card.wide = card.wide /\ o.card.st = "stby"
               /\ o.end => /\ card.kind = "MMC" => o.card.rca = arg
                           /\ card.kind \in {"SD", "SDHS"} => o.rsp.rca \in {o.card.rca, Garbled}
    <2>1. /\ d.card.st = "stby" /\ d.card.kind = card.kind /\ d.card.wide = card.wide
          /\ card.kind = "MMC" => d.card.rca = arg
          /\ card.kind \in {"SD", "SDHS"} => d.rsp.rca = d.card.rca
      BY DoesAddress
    <2>2. o.end => o.rsp.rca \in {d.rsp.rca, Garbled}
      BY <1>2
    <2> QED BY <1>2, <2>1, <2>2
  <1> QED BY <1>1, <1>2, EffectCases

LEMMA EffectSelect ==
    ASSUME Typed, NEW arg, NEW o \in Chk_CMDend(7, arg)
    PROVE  /\ Unmoved(o.card) \/ (card.st = "stby" /\ card.rca = arg /\ MovedTo(o.card, "tran"))
           /\ o.end => card.rca = arg /\ MovedTo(o.card, "tran")
  BY EffectCases, DoesSelect

LEMMA EffectSetBus ==
    ASSUME Typed, NEW arg \in {0, 1}, NEW o \in Chk_CMDend(6, arg)
    PROVE  /\ o.card.kind = card.kind /\ o.card.st = card.st /\ o.card.rca = card.rca
           /\ o.card.index = card.index /\ o.card.multi = card.multi
           /\ o.card.wide # card.wide => card.kind # "MMC"
           /\ o.end /\ card.kind = "SD" => o.card.wide = (arg = 1)
  <1>1. CASE Unmoved(o.card) /\ ~o.end
    BY <1>1 DEF Unmoved, MovedTo
  <1>2. ASSUME NEW d \in CardDoes(6, arg), o.card = d.card
        PROVE  /\ o.card.kind = card.kind /\ o.card.st = card.st /\ o.card.rca = card.rca
               /\ o.card.index = card.index /\ o.card.multi = card.multi
               /\ card.kind # "MMC"
               /\ card.kind = "SD" => o.card.wide = (arg = 1)
    BY <1>2, DoesSetBus
  <1> QED BY <1>1, <1>2, EffectCases

LEMMA EffectStop ==
    ASSUME Typed, NEW arg, NEW o \in Chk_CMDend(12, arg)
    PROVE  /\ \/ Unmoved(o.card)
              \/ card.st = "data" /\ MovedTo(o.card, "tran")
              \/ card.st \in {"rcv", "prg"} /\ MovedTo(o.card, "prg")
           /\ o.end => MovedTo(o.card, "tran") \/ MovedTo(o.card, "prg")
  BY EffectCases, DoesStop

\* The card has begun a transfer.
Begun(c, n, arg) ==
    /\ card.st = "tran" /\ c.kind = card.kind /\ c.rca = card.rca /\ c.wide = card.wide
    /\ c.st = IF n \in {11, 17, 18} THEN "data" ELSE "rcv"
    /\ c.multi <=> n \notin {17, 24}
    /\ c.sector = arg /\ c.index = IF ctl.left > 0 THEN 0 ELSE Words + 1

LEMMA EffectTransfer ==
    ASSUME Typed, NEW n \in {11, 17, 18, 20, 24, 25}, NEW arg \in Int, NEW o \in Chk_CMDend(n, arg)
    PROVE  /\ Unmoved(o.card) \/ Begun(o.card, n, arg)
           /\ o.end => Begun(o.card, n, arg)
  BY EffectCases, DoesTransfer DEF Begun

-----------------------------------------------------------------------------
(* Steps that leave the data alone. *)

\* All but the program, the card's answer and the counts of faults.
DataKept == UNCHANGED <<scenario, hostVars, store, ctl, fifo, dataFaults, operations>>

LEMMA KeptParts ==
    ASSUME DataKept
    PROVE  /\ scenario' = scenario /\ block' = block /\ asked' = asked /\ MMC' = MMC /\ RCA' = RCA
           /\ Wide' = Wide /\ tx' = tx /\ wt_cnt' = wt_cnt /\ rd_cnt' = rd_cnt /\ Rx' = Rx
           /\ Data_buffer' = Data_buffer /\ j' = j /\ dataFaults' = dataFaults /\ operations' = operations
           /\ store' = store /\ ctl' = ctl /\ fifo' = fifo /\ Total' = Total /\ Origin' = Origin /\ Gone' = Gone
           /\ (Calm' <=> Calm) /\ (Exact' <=> Exact) /\ (WholeBuffer' <=> WholeBuffer) /\ (MmcTests' <=> MmcTests)
  <1>1. /\ scenario' = scenario /\ block' = block /\ asked' = asked /\ MMC' = MMC /\ RCA' = RCA
        /\ Wide' = Wide /\ tx' = tx /\ wt_cnt' = wt_cnt /\ rd_cnt' = rd_cnt /\ Rx' = Rx
        /\ Data_buffer' = Data_buffer /\ j' = j /\ dataFaults' = dataFaults /\ operations' = operations
        /\ store' = store /\ ctl' = ctl /\ fifo' = fifo
    BY DEF DataKept, hostVars, busWidth, readVars, writeVars
  <1>2. Total' = Total /\ Origin' = Origin /\ Gone' = Gone
    BY <1>1 DEF Total, Origin, Gone
  <1>3. (MmcTests' <=> MmcTests) /\ (Calm' <=> Calm) /\ (Exact' <=> Exact) /\ (WholeBuffer' <=> WholeBuffer)
    BY <1>1 DEF MmcTests, Calm, Exact, WholeBuffer
  <1> QED BY <1>1, <1>2, <1>3

LEMMA UnmovedKeeps ==
    ASSUME DataKept, Unmoved(card')
    PROVE  /\ (Agreed => Agreed') /\ (Still => Still') /\ (Quiet => Quiet') /\ (Silent => Silent') /\ (Known => Known')
           /\ (NoneLeft => NoneLeft') /\ (Over => Over') /\ (FinIsOver => FinIsOver')
           /\ (Sends => Sends') /\ (Absorbs => Absorbs')
           /\ (NotStarted => NotStarted') /\ (Started => Started')
           /\ (Takes => Takes') /\ (HasTaken => HasTaken') /\ (Accounts => Accounts') /\ (AllStored => AllStored')
           /\ card'.st = card.st /\ card'.index = card.index
  <1>1. /\ card'.kind = card.kind /\ card'.st = card.st /\ card'.rca = card.rca /\ card'.wide = card.wide
        /\ card'.sector = card.sector /\ card'.index = card.index /\ card'.multi = card.multi
    BY DEF Unmoved, MovedTo
  <1>2. (Agreed => Agreed') /\ (Known => Known') /\ (Silent => Silent') /\ (Over => Over')
    BY <1>1, KeptParts DEF Agreed, Known, Silent, Over
  <1>3. (Quiet => Quiet') /\ (NoneLeft => NoneLeft') /\ (Still => Still') /\ (FinIsOver => FinIsOver')
    BY <1>1, <1>2, KeptParts DEF Quiet, NoneLeft, Still, FinIsOver
  <1>4. (Sends => Sends') /\ (Absorbs => Absorbs')
    BY <1>1, <1>3, KeptParts DEF Sends, Absorbs
  <1>5. (NotStarted => NotStarted') /\ (Started => Started')
    BY <1>1, <1>2, KeptParts DEF NotStarted, Started
  <1>6. (AllStored => AllStored') /\ (Takes => Takes') /\ (HasTaken => HasTaken')
    BY <1>1, KeptParts DEF AllStored, Takes, HasTaken, Stored
  <1>7. Accounts => Accounts'
    BY <1>6, KeptParts DEF Accounts
  <1> QED BY <1>1, <1>2, <1>3, <1>4, <1>5, <1>6, <1>7

LEMMA AlwaysKept ==
    ASSUME Always, DataKept, card'.kind = card.kind, card'.wide = card.wide \/ card.kind # "MMC",
           Listening' => Listening, Asking => Asking'
    PROVE  Always'
  <1>1. InPlace(Rx, Words)' <=> InPlace(Rx, Words)
    BY KeptParts DEF InPlace
  <1>2. InPlace(Data_buffer, Bytes)' <=> InPlace(Data_buffer, Bytes)
    BY KeptParts DEF InPlace
  <1> QED BY <1>1, <1>2, KeptParts DEF Always

\* What is above the bottom is not changed by what happens to the bottom.
LEMMA ReaderKept ==
    ASSUME ReaderTyped, UNCHANGED readerVars, UNCHANGED scenario, scenario.operations = 0 => Bottom' = Bottom
    PROVE  ReaderTyped'
  BY DEF ReaderTyped, readerVars, bpbVars, volume, Bottom

\* The instructions that neither wait for data nor ask for it.
Plain(w) ==
    w = <<>> \/ (w[1].op \notin {"Rd_Block", "receive", "Rd_Stream", "CMD11", "stream"}
                    /\ (w[1].op = "cmd" => w[1].n \notin {17, 18}))

LEMMA PlainIs ==
    ASSUME IsStack(work'), Plain(work')
    PROVE  ~Listening' /\ ~Asking'
  <1>1. work' # <<>> => Head(work') = work'[1]
    OBVIOUS
  <1> QED BY <1>1 DEF Listening, Asking, At, Plain

LEMMA PlainWas ==
    ASSUME Plain(work) PROVE ~Asking
  <1>1. work # <<>> => Head(work) = work[1]
    OBVIOUS
  <1> QED BY <1>1 DEF Asking, At, Plain

-----------------------------------------------------------------------------
(* Commands. *)

LEMMA CommandStart ==
    ASSUME Command
    PROVE  /\ At("cmd") /\ work # <<>> /\ Head(work) = work[1] /\ Tag = "cmd" /\ Number = work[1].n
           /\ \E o \in Chk_CMDend(work[1].n, ArgOf(work[1])) :
                /\ card' = o.card /\ rsp' = o.rsp /\ faults' = o.faults
                /\ IF o.end \/ ~work[1].retry THEN Goes(<<>>) ELSE work' = work
  BY DEF Command, At, Tag, Number, Exchange

\* Types, and what holds everywhere.
LEMMA CommandTyped ==
    ASSUME Typed, Command, UNCHANGED scenario, NEW n \in DoneCommands \ {6}, NEW arg \in Int, n = 3 => arg \in 0..3,
           NEW o \in Chk_CMDend(n, arg), card' = o.card, rsp' = o.rsp, faults' = o.faults
    PROVE  Typed' /\ DataKept /\ card'.kind = card.kind /\ card'.wide = card.wide
  <1>1. DataKept
    BY DEF Command, DataKept
  <1>2. o.card \in CardSet /\ o.card.kind = card.kind /\ o.rsp \in RspSet /\ o.faults \in 0..scenario.faults
    BY OutcomeTyped
  <1>3. Typed'
    BY <1>1, <1>2, KeptParts DEF Typed, RspSet
  <1>4. CASE n \in {9, 13, 28, 29, 55}
    <2>1. Unmoved(o.card)
      BY <1>4, EffectAsk
    <2> QED BY <1>1, <1>3, <2>1 DEF Unmoved, MovedTo
  <1>5. CASE n \in {1, 41}
    <2>1. Unmoved(o.card) \/ MovedTo(o.card, "ready")
      BY <1>5, EffectPowerUp
    <2> QED BY <1>1, <1>3, <2>1 DEF Unmoved, MovedTo
  <1>6. CASE n = 2
    <2>1. Unmoved(o.card) \/ MovedTo(o.card, "ident")
      BY <1>6, EffectFollow
    <2> QED BY <1>1, <1>3, <2>1 DEF Unmoved, MovedTo
  <1>7. CASE n = 3
    <2>1. arg \in 0..3 /\ o \in Chk_CMDend(3, arg)
      BY <1>7
    <2> QED BY <1>1, <1>3, <2>1, EffectAddress
  <1>8. CASE n = 7
    <2>1. Unmoved(o.card) \/ MovedTo(o.card, "tran")
      BY <1>8, EffectSelect
    <2> QED BY <1>1, <1>3, <2>1 DEF Unmoved, MovedTo
  <1>9. CASE n = 12
    <2>1. Unmoved(o.card) \/ MovedTo(o.card, "tran") \/ MovedTo(o.card, "prg")
      BY <1>9, EffectStop
    <2> QED BY <1>1, <1>3, <2>1 DEF Unmoved, MovedTo
  <1>10. CASE n \in {11, 17, 18, 20, 24, 25}
    <2>1. Unmoved(o.card) \/ Begun(o.card, n, arg)
      BY <1>10, EffectTransfer
    <2> QED BY <1>1, <1>3, <2>1 DEF Unmoved, MovedTo, Begun
  <1> QED BY <1>4, <1>5, <1>6, <1>7, <1>8, <1>9, <1>10 DEF DoneCommands

LEMMA Popped ==
    ASSUME IsStack(work), work # <<>>, Goes(<<>>)
    PROVE  /\ IsStack(work') /\ Len(work') = Len(work) - 1 /\ Len(work) \in Nat
           /\ Len(work) >= 2 => work' # <<>> /\ work'[1] = work[2] /\ Bottom' = Bottom
           /\ Len(work) >= 3 => work'[2] = work[3]
           /\ Len(work) >= 4 => work'[3] = work[4]
           /\ Len(work) >= 5 => work'[4] = work[5]
           /\ Len(work) >= 6 => work'[5] = work[6]
           /\ Len(work) >= 7 => work'[6] = work[7]
           /\ Len(work) = 1 => work' = <<>>
  <1>1. /\ IsStack(work') /\ Len(work') = Len(work) - 1
        /\ \A i \in 2..Len(work) : work'[i - 1] = work[i]
        /\ Len(work) >= 2 => Bottom' = Bottom /\ work' # <<>>
    BY Goes0
  <1>2. Len(work) \in Nat
    BY DEF IsStack
  <1>3. Len(work) = 1 => work' = <<>>
    BY <1>1, <1>2 DEF IsStack
  <1>4. /\ Len(work) >= 2 => work'[2 - 1] = work[2]
        /\ Len(work) >= 3 => work'[3 - 1] = work[3]
        /\ Len(work) >= 4 => work'[4 - 1] = work[4]
        /\ Len(work) >= 5 => work'[5 - 1] = work[5]
        /\ Len(work) >= 6 => work'[6 - 1] = work[6]
        /\ Len(work) >= 7 => work'[7 - 1] = work[7]
    BY <1>1, <1>2
  <1> QED BY <1>1, <1>2, <1>3, <1>4

\* A command that has been sent and leads to a point of the program.
LEMMA CommandInv ==
    ASSUME SdInv, Command, UNCHANGED scenario, UNCHANGED readerVars,
           NEW n \in DoneCommands \ {6}, NEW arg \in Int, n = 3 => arg \in 0..3,
           NEW o \in Chk_CMDend(n, arg), card' = o.card, rsp' = o.rsp, faults' = o.faults,
           Point', Listening' => Listening, Asking => Asking', scenario.operations = 0 => Bottom' = Bottom
    PROVE  SdInv'
  <1>1. Typed /\ ReaderTyped /\ Always
    BY DEF SdInv
  <1>2. Typed' /\ DataKept /\ card'.kind = card.kind /\ card'.wide = card.wide
    BY <1>1, CommandTyped
  <1>3. Always' /\ ReaderTyped'
    BY <1>1, <1>2, AlwaysKept, ReaderKept
  <1> QED BY <1>2, <1>3 DEF SdInv

LEMMA CommandLast ==
    ASSUME SdInv, Command, UNCHANGED scenario, UNCHANGED readerVars, Ending
    PROVE  SdInv'
  <1>0. Point /\ IsStack(work)
    BY DEF SdInv, Point
  <1>1. work = <<Once(9)>> /\ scenario.operations > 0
    BY CommandStart DEF Ending, I, Once, At
  <1>2. work[1] = Once(9) /\ Once(9).n = 9 /\ ArgOf(Once(9)) = RCA /\ Once(9).retry = FALSE /\ Len(work) = 1
    BY <1>1 DEF Once, ArgOf
  <1>3. PICK o \in Chk_CMDend(9, RCA) : card' = o.card /\ rsp' = o.rsp /\ faults' = o.faults /\ Goes(<<>>)
    BY <1>2, CommandStart
  <1>4. work' = <<>> /\ IsStack(work')
    BY <1>0, <1>2, <1>3, Popped, CommandStart
  <1>5. Point'
    BY <1>1, <1>4 DEF Point, Ending
  <1>6. ~Listening' /\ ~Asking' /\ ~Asking
    <2>1. Plain(work') /\ Plain(work)
      BY <1>2, <1>4 DEF Plain, Once
    <2> QED BY <1>4, <2>1, PlainIs, PlainWas
  <1>7. 9 \in DoneCommands \ {6} /\ RCA \in Int /\ scenario.operations # 0
    BY <1>1, SdAssumption DEF DoneCommands, SdInv, Typed, Garbled, SdAssumption
  <1> QED BY <1>3, <1>5, <1>6, <1>7, CommandInv

\* CMD55, sent once: before a try for the operating conditions, or before ACMD6.
LEMMA CommandMark ==
    ASSUME SdInv, Command, UNCHANGED scenario, UNCHANGED readerVars, Number = 55
    PROVE  SdInv'
  <1>0. Point /\ IsStack(work) /\ work # <<>> /\ Tag = "cmd" /\ Typed
    BY CommandStart DEF SdInv, Point
  <1>1. Locating /\ (TriesOcr \/ (Known /\ SetsBus))
    BY <1>0, PointCommand
  <1>2. work[1] = Once(55) /\ (\/ TriesOcr /\ On(<<Once(55), work[2]>>) /\ work[2].op = "ocr" /\ work[2].n = 41
                               \/ Known /\ SetsBus /\ On(<<Once(55), I("SetBus"), I("TR_Buf_new")>>))
    <2>1. CASE TriesOcr
      <3>1. ~At("ocr")
        BY CommandStart DEF At
      <3> QED BY <2>1, <3>1 DEF TriesOcr, On
    <2>2. CASE Known /\ SetsBus
      <3>1. ~On(<<I("SetBus"), I("TR_Buf_new")>>)
        BY CommandStart DEF On, At, I
      <3> QED BY <2>2, <3>1 DEF SetsBus, On
    <2> QED BY <1>1, <2>1, <2>2
  <1>3. work[1] = Once(55) /\ Once(55).n = 55 /\ ArgOf(Once(55)) = RCA /\ Once(55).retry = FALSE
    BY <1>2 DEF Once, ArgOf
  <1>4. PICK o \in Chk_CMDend(55, RCA) : card' = o.card /\ rsp' = o.rsp /\ faults' = o.faults /\ Goes(<<>>)
    BY <1>3, CommandStart
  <1>5. Unmoved(card') /\ DataKept
    BY <1>0, <1>4, EffectAsk DEF Command, DataKept
  <1>6. Len(work) >= 2 /\ Early
    BY <1>1, <1>2 DEF On, Locating
  <1>7. /\ IsStack(work') /\ Len(work') = Len(work) - 1 /\ work' # <<>> /\ work'[1] = work[2] /\ Bottom' = Bottom
        /\ Len(work) >= 3 => work'[2] = work[3]
    BY <1>0, <1>4, <1>6, Popped
  <1>8. Early' /\ Still'
    BY <1>1, <1>5, <1>6, <1>7, UnmovedKeeps DEF Locating, Early
  <1>9. ASSUME TriesOcr /\ On(<<Once(55), work[2]>>) /\ work[2].op = "ocr" /\ work[2].n = 41
        PROVE  Point'
    <2>1. work'[1].op = "ocr" /\ work'[1].n = 41 /\ Len(work') = 2
      BY <1>7, <1>9 DEF On
    <2>2. On(<<work[1]>>)'
      BY <1>7, <1>9, <2>1 DEF On
    <2>3. At("ocr")'
      BY <1>7, <2>1 DEF At
    <2>4. TriesOcr'
      BY <1>5, <1>9, <2>1, <2>2, <2>3, KeptParts DEF TriesOcr
    <2> QED BY <1>7, <1>8, <2>4 DEF Point, Locating
  <1>10. ASSUME Known /\ SetsBus /\ On(<<Once(55), I("SetBus"), I("TR_Buf_new")>>)
         PROVE  Point'
    <2>1. On(<<I("SetBus"), I("TR_Buf_new")>>)'
      BY <1>7, <1>10 DEF On
    <2>2. SetsBus'
      BY <1>5, <1>10, <2>1, KeptParts DEF SetsBus, Unmoved, MovedTo
    <2>3. Known'
      BY <1>5, <1>10, UnmovedKeeps
    <2> QED BY <1>7, <1>8, <2>2, <2>3 DEF Point, Locating
  <1>11. ~Listening' /\ ~Asking' /\ ~Asking
    <2>1. Plain(work)
      BY <1>3 DEF Plain, Once
    <2>2. work'[1].op \in {"ocr", "SetBus"}
      BY <1>2, <1>7 DEF On, I
    <2>3. Plain(work')
      BY <2>2 DEF Plain
    <2> QED BY <1>7, <2>1, <2>3, PlainIs, PlainWas
  <1>12. 55 \in DoneCommands \ {6} /\ RCA \in Int
    BY <1>0 DEF DoneCommands, Typed, Garbled
  <1> QED BY <1>2, <1>4, <1>7, <1>9, <1>10, <1>11, <1>12, CommandInv

LEMMA CommandFollow ==
    ASSUME SdInv, Command, UNCHANGED scenario, UNCHANGED readerVars, Number = 2
    PROVE  SdInv'
  <1>0. Point /\ IsStack(work) /\ work # <<>> /\ Tag = "cmd" /\ Typed
    BY CommandStart DEF SdInv, Point
  <1>1. Locating /\ Known /\ FollowsOcr
    BY <1>0, PointCommand
  <1>2. On(<<Cmd(2, 0), I("CMD3"), I("published")>>) /\ Len(work) = 4 /\ work[1] = Cmd(2, 0) /\ work[2] = I("CMD3")
        /\ work[3] = I("published")
    BY <1>1 DEF FollowsOcr, On
  <1>3. Cmd(2, 0).n = 2 /\ ArgOf(Cmd(2, 0)) = 0 /\ Cmd(2, 0).retry = TRUE
    BY DEF Cmd, ArgOf
  <1>4. PICK o \in Chk_CMDend(2, 0) : /\ card' = o.card /\ rsp' = o.rsp /\ faults' = o.faults
                                      /\ IF o.end THEN Goes(<<>>) ELSE work' = work
    BY <1>2, <1>3, CommandStart
  <1>5. (Unmoved(card') \/ MovedTo(card', "ident")) /\ (o.end => MovedTo(card', "ident")) /\ DataKept
    BY <1>0, <1>4, EffectFollow DEF Command, DataKept
  <1>6. card.st \in {"ready", "ident"} /\ Early /\ Still
    BY <1>1 DEF FollowsOcr, Locating
  <1>7. Known' /\ Still' /\ card'.st \in {"ready", "ident"} /\ (o.end => card'.st = "ident")
    <2>1. card'.kind = card.kind /\ card'.st \in {"ready", "ident"} /\ (o.end => card'.st = "ident")
      BY <1>5, <1>6 DEF Unmoved, MovedTo
    <2>2. Known'
      BY <1>1, <1>5, <2>1, KeptParts DEF Known
    <2>3. Still'
      BY <1>5, <1>6, <2>1, KeptParts DEF Still, Quiet, Silent, NoneLeft, Over
    <2> QED BY <2>1, <2>2, <2>3
  <1>8. ASSUME o.end PROVE Point' /\ Bottom' = Bottom /\ IsStack(work') /\ Plain(work')
    <2>1. /\ IsStack(work') /\ Len(work') = Len(work) - 1 /\ work' # <<>> /\ work'[1] = work[2] /\ Bottom' = Bottom
          /\ work'[2] = work[3]
      BY <1>0, <1>2, <1>4, <1>8, Popped
    <2>2. On(<<I("CMD3"), I("published")>>)'
      BY <1>2, <2>1 DEF On
    <2>3. AsksAddress' /\ Early'
      BY <1>6, <1>7, <1>8, <2>1, <2>2 DEF AsksAddress, Early
    <2>4. Point'
      BY <1>7, <2>1, <2>3 DEF Point, Locating
    <2>5. Plain(work')
      BY <1>2, <2>1 DEF Plain, I
    <2> QED BY <2>1, <2>4, <2>5
  <1>9. ASSUME ~o.end PROVE Point' /\ Bottom' = Bottom /\ IsStack(work') /\ Plain(work')
    <2>1. work' = work /\ Bottom' = Bottom
      BY <1>4, <1>9 DEF Bottom
    <2>2. FollowsOcr' /\ Early'
      BY <1>1, <1>6, <1>7, <2>1 DEF FollowsOcr, On, Early, Bottom
    <2>3. IsStack(work')
      BY <1>0, <2>1
    <2>4. Point'
      BY <1>7, <2>2, <2>3 DEF Point, Locating
    <2>5. Plain(work')
      BY <1>2, <2>1 DEF Plain, Cmd
    <2> QED BY <2>1, <2>3, <2>4, <2>5
  <1>10. Point' /\ Bottom' = Bottom /\ IsStack(work') /\ Plain(work')
    BY <1>8, <1>9, <1>4
  <1>11. ~Listening' /\ ~Asking' /\ ~Asking
    <2>1. Plain(work)
      BY <1>2 DEF Plain, Cmd
    <2> QED BY <1>10, <2>1, PlainIs, PlainWas
  <1>12. 2 \in DoneCommands \ {6} /\ 0 \in Int
    BY DEF DoneCommands
  <1> QED BY <1>4, <1>10, <1>11, <1>12, CommandInv

\* What is left of the stack.
PoppedStack ==
    /\ Len(work') = Len(work) - 1 /\ work'[1] = work[2]
    /\ Len(work) >= 3 => work'[2] = work[3]
    /\ Len(work) >= 4 => work'[3] = work[4]
    /\ Len(work) >= 5 => work'[4] = work[5]
    /\ Len(work) >= 6 => work'[5] = work[6]
    /\ Len(work) >= 7 => work'[6] = work[7]

\* A command that is sent again until it ends.
LEMMA Retried ==
    ASSUME SdInv, Command, UNCHANGED scenario, NEW n, NEW a, NEW arg, work[1] = Cmd(n, a), ArgOf(Cmd(n, a)) = arg, Len(work) >= 2
    PROVE  /\ \E o \in Chk_CMDend(n, arg) :
                /\ card' = o.card /\ rsp' = o.rsp /\ faults' = o.faults
                /\ IF o.end THEN PoppedStack ELSE work' = work
           /\ IsStack(work') /\ Bottom' = Bottom /\ work' # <<>> /\ DataKept /\ Typed /\ Point
  <1>0. Point /\ IsStack(work) /\ work # <<>> /\ Typed
    BY CommandStart DEF SdInv, Point
  <1>1. Cmd(n, a).n = n /\ Cmd(n, a).retry = TRUE
    BY DEF Cmd
  <1>2. PICK o \in Chk_CMDend(n, arg) : /\ card' = o.card /\ rsp' = o.rsp /\ faults' = o.faults
                                        /\ IF o.end THEN Goes(<<>>) ELSE work' = work
    BY <1>1, CommandStart
  <1>3. DataKept
    BY DEF Command, DataKept
  <1>4. CASE o.end
    <2>1. PoppedStack /\ IsStack(work') /\ Bottom' = Bottom /\ work' # <<>>
      BY <1>0, <1>2, <1>4, Popped DEF PoppedStack
    <2> QED BY <1>0, <1>2, <1>3, <1>4, <2>1
  <1>5. CASE ~o.end
    <2>1. work' = work
      BY <1>2, <1>5
    <2>2. IsStack(work') /\ Bottom' = Bottom /\ work' # <<>>
      BY <1>0, <2>1 DEF Bottom
    <2> QED BY <1>0, <1>2, <1>3, <1>5, <2>1, <2>2
  <1> QED BY <1>4, <1>5

LEMMA RetryInv ==
    ASSUME SdInv, Command, UNCHANGED scenario, UNCHANGED readerVars,
           NEW n \in DoneCommands \ {6, 17, 18}, NEW a, NEW arg \in Int, n = 3 => arg \in 0..3,
           work[1] = Cmd(n, a), ArgOf(Cmd(n, a)) = arg, Len(work) >= 2,
           NEW o \in Chk_CMDend(n, arg), card' = o.card, rsp' = o.rsp, faults' = o.faults,
           IF o.end THEN PoppedStack ELSE work' = work,
           work[2].op \notin {"Rd_Block", "receive", "Rd_Stream", "CMD11", "stream", "cmd"},
           Resting' \/ Locating' \/ Transferring'
    PROVE  SdInv'
  <1>1. IsStack(work') /\ Bottom' = Bottom /\ work' # <<>>
    BY Retried
  <1>2. Point'
    BY <1>1 DEF Point
  <1>3. Cmd(n, a).op = "cmd" /\ Cmd(n, a).n = n
    BY DEF Cmd
  <1>4. Plain(work)
    BY <1>3 DEF Plain
  <1>5. Plain(work')
    <2>1. CASE o.end
      BY <2>1 DEF Plain, PoppedStack
    <2>2. CASE ~o.end
      BY <1>4, <2>2
    <2> QED BY <2>1, <2>2
  <1>6. ~Listening' /\ ~Asking' /\ ~Asking
    BY <1>1, <1>4, <1>5, PlainIs, PlainWas
  <1>7. n \in DoneCommands \ {6}
    OBVIOUS
  <1> QED BY <1>1, <1>2, <1>6, <1>7, CommandInv

LEMMA CommandAddress ==
    ASSUME SdInv, Command, UNCHANGED scenario, UNCHANGED readerVars, Number = 3
    PROVE  SdInv'
  <1>0. Point /\ work # <<>> /\ Tag = "cmd" /\ Typed /\ Always
    BY CommandStart DEF SdInv, Point
  <1> DEFINE a == IF MMC THEN 1 ELSE 0
  <1>1. Locating /\ Known /\ AsksAddress
    BY <1>0, PointCommand
  <1>2. On(<<Cmd(3, a), I("published")>>) /\ Len(work) = 3 /\ work[1] = Cmd(3, a) /\ work[2] = I("published")
    <2>1. ~On(<<I("CMD3"), I("published")>>)
      BY CommandStart DEF On, At, I
    <2>2. On(<<Cmd(3, a), I("published")>>)
      BY <1>1, <2>1 DEF AsksAddress
    <2> QED BY <2>2 DEF On
  <1>3. a \in 0..3 /\ a \in Int /\ MMC \in BOOLEAN /\ card.kind \in {"none", "SD", "SDHS", "MMC"}
    BY <1>0 DEF Typed, CardSet
  <1>4. ArgOf(Cmd(3, a)) = a
    BY DEF ArgOf, Cmd
  <1>5. PICK o \in Chk_CMDend(3, a) : /\ card' = o.card /\ rsp' = o.rsp /\ faults' = o.faults
                                      /\ IF o.end THEN PoppedStack ELSE work' = work
    BY <1>2, <1>4, Retried
  <1>6. IsStack(work') /\ Bottom' = Bottom /\ work' # <<>> /\ DataKept
    BY <1>2, <1>4, Retried
  <1>7. /\ card'.kind = card.kind /\ card'.wide = card.wide
        /\ Unmoved(card') \/ card'.st = "stby"
        /\ o.end => /\ card'.st = "stby"
                    /\ card.kind = "MMC" => card'.rca = a
                    /\ card.kind \in {"SD", "SDHS"} => rsp'.rca \in {card'.rca, Garbled}
    BY <1>0, <1>3, <1>5, EffectAddress
  <1>8. card.st \in {"ident", "stby"} /\ Early /\ Still
    BY <1>1 DEF AsksAddress, Locating
  <1>9. Known' /\ Still' /\ Early' /\ card'.st \in {"ident", "stby"}
    <2>1. card'.st \in {"ident", "stby"}
      BY <1>7, <1>8 DEF Unmoved, MovedTo
    <2>2. Known'
      BY <1>1, <1>6, <1>7, KeptParts DEF Known
    <2>3. Still'
      BY <1>6, <1>8, <2>1, KeptParts DEF Still, Quiet, Silent, NoneLeft, Over
    <2>4. Early'
      BY <1>6, <1>8 DEF Early
    <2> QED BY <2>1, <2>2, <2>3, <2>4
  <1>10. o.end => HasAddress'
    <2> HAVE o.end
    <2>1. On(<<I("published")>>)'
      BY <1>2, <1>5, <1>6 DEF On, PoppedStack
    <2>2. IF MMC' THEN card'.rca = 1 ELSE rsp'.rca \in {card'.rca, Garbled}
      BY <1>1, <1>3, <1>6, <1>7, KeptParts DEF Known
    <2> QED BY <1>7, <2>1, <2>2 DEF HasAddress
  <1>11. ~o.end => AsksAddress'
    <2> HAVE ~o.end
    <2>1. On(<<Cmd(3, IF MMC THEN 1 ELSE 0), I("published")>>)'
      BY <1>2, <1>5, <1>6, KeptParts DEF On
    <2> QED BY <1>9, <2>1 DEF AsksAddress
  <1>12. Locating'
    BY <1>9, <1>10, <1>11 DEF Locating
  <1>13. work[2].op \notin {"Rd_Block", "receive", "Rd_Stream", "CMD11", "stream", "cmd"} /\ 3 \in DoneCommands \ {6, 17, 18}
    BY <1>2 DEF I, DoneCommands
  <1> HIDE DEF a
  <1> QED BY <1>2, <1>3, <1>4, <1>5, <1>12, <1>13, RetryInv

LEMMA CommandSelect ==
    ASSUME SdInv, Command, UNCHANGED scenario, UNCHANGED readerVars, Number = 7
    PROVE  SdInv'
  <1>0. Point /\ work # <<>> /\ Tag = "cmd" /\ Typed /\ Always
    BY CommandStart DEF SdInv, Point
  <1>1. Locating /\ Known /\ Selects
    BY <1>0, PointCommand
  <1>2. On(<<Cmd(7, 0), I("selected"), I("Set_bus"), I("TR_Buf_new")>>)
        /\ Len(work) = 5 /\ work[1] = Cmd(7, 0) /\ work[2] = I("selected")
    BY <1>1 DEF Selects, On
  <1>3. RCA \in Int /\ RCA \in (0..3) \union {Garbled}
    BY <1>0 DEF Typed, Garbled
  <1>4. ArgOf(Cmd(7, 0)) = RCA
    BY DEF ArgOf, Cmd
  <1>5. PICK o \in Chk_CMDend(7, RCA) : /\ card' = o.card /\ rsp' = o.rsp /\ faults' = o.faults
                                        /\ IF o.end THEN PoppedStack ELSE work' = work
    BY <1>2, <1>4, Retried
  <1>6. IsStack(work') /\ Bottom' = Bottom /\ work' # <<>> /\ DataKept
    BY <1>2, <1>4, Retried
  <1>7. /\ Unmoved(card') \/ MovedTo(card', "tran")
        /\ o.end => card.rca = RCA /\ MovedTo(card', "tran")
    BY <1>0, <1>5, EffectSelect
  <1>8. card.st \in {"stby", "tran"} /\ RCA \in {card.rca, Garbled} /\ Early /\ Still
    BY <1>1 DEF Selects, Locating
  <1>9. card'.st \in {"stby", "tran"} /\ card'.kind = card.kind /\ card'.rca = card.rca
    BY <1>7, <1>8 DEF Unmoved, MovedTo
  <1>10. Known' /\ Still' /\ Early'
    <2>1. Known'
      BY <1>1, <1>6, <1>9, KeptParts DEF Known
    <2>2. Still'
      BY <1>6, <1>8, <1>9, KeptParts DEF Still, Quiet, Silent, NoneLeft, Over
    <2>3. Early'
      BY <1>6, <1>8 DEF Early
    <2> QED BY <2>1, <2>2, <2>3
  <1>11. o.end => IsSelected'
    <2> HAVE o.end
    <2>1. On(<<I("selected"), I("Set_bus"), I("TR_Buf_new")>>)'
      BY <1>2, <1>5, <1>6 DEF On, PoppedStack
    <2>2. card'.st = "tran" /\ RCA' = card'.rca
      BY <1>6, <1>7, <1>9, KeptParts DEF MovedTo
    <2> QED BY <2>1, <2>2 DEF IsSelected
  <1>12. ~o.end => Selects'
    <2> HAVE ~o.end
    <2>1. On(<<Cmd(7, 0), I("selected"), I("Set_bus"), I("TR_Buf_new")>>)'
      BY <1>2, <1>5, <1>6, KeptParts DEF On
    <2> QED BY <1>6, <1>8, <1>9, <2>1, KeptParts DEF Selects
  <1>13. Locating'
    BY <1>10, <1>11, <1>12 DEF Locating
  <1>14. work[2].op \notin {"Rd_Block", "receive", "Rd_Stream", "CMD11", "stream", "cmd"} /\ 7 \in DoneCommands \ {6, 17, 18}
    BY <1>2 DEF I, DoneCommands
  <1> QED BY <1>2, <1>3, <1>4, <1>5, <1>13, <1>14, RetryInv

LEMMA CommandErase ==
    ASSUME SdInv, Command, UNCHANGED scenario, UNCHANGED readerVars, Number \in {28, 29}
    PROVE  SdInv'
  <1>0. Point /\ work # <<>> /\ Tag = "cmd" /\ Typed
    BY CommandStart DEF SdInv, Point
  <1>1. Transferring /\ OtherTests
    BY <1>0, PointCommand
  <1>2. PICK n \in {28, 29} : On(<<Cmd(n, 0)>>)
    <2>1. ~On(<<I("CMD13")>>) /\ ~On(<<I("View_Rx_buf")>>)
      BY CommandStart DEF On, At, I
    <2> QED BY <1>1, <2>1 DEF OtherTests
  <1>3. Len(work) = 2 /\ work[1] = Cmd(n, 0) /\ work[2] = Bottom /\ Bottom.op \in BottomOps
    BY <1>2 DEF On, Bottom
  <1>4. ArgOf(Cmd(n, 0)) = 0
    BY DEF ArgOf, Cmd
  <1>5. PICK o \in Chk_CMDend(n, 0) : /\ card' = o.card /\ rsp' = o.rsp /\ faults' = o.faults
                                      /\ IF o.end THEN PoppedStack ELSE work' = work
    BY <1>3, <1>4, Retried
  <1>6. IsStack(work') /\ Bottom' = Bottom /\ work' # <<>> /\ DataKept
    BY <1>3, <1>4, Retried
  <1>7. Unmoved(card')
    BY <1>0, <1>5, EffectAsk
  <1>8. Agreed' /\ Still' /\ block' >= 1
    BY <1>1, <1>6, <1>7, UnmovedKeeps, KeptParts DEF Transferring, OtherTests
  <1>9. o.end => Resting'
    <2> HAVE o.end
    <2>1. On(<<>>)'
      BY <1>2, <1>3, <1>5, <1>6, KeptParts DEF On, PoppedStack
    <2> QED BY <1>8, <2>1 DEF Resting
  <1>10. ~o.end => Transferring'
    <2> HAVE ~o.end
    <2>1. On(<<Cmd(n, 0)>>)'
      BY <1>2, <1>5, <1>6, KeptParts DEF On
    <2>2. OtherTests'
      BY <1>1, <1>6, <1>8, <2>1 DEF OtherTests
    <2> QED BY <1>8, <2>2 DEF Transferring
  <1>11. work[2].op \notin {"Rd_Block", "receive", "Rd_Stream", "CMD11", "stream", "cmd"} /\ n \in DoneCommands \ {6, 17, 18}
    BY <1>3 DEF BottomOps, DoneCommands
  <1> QED BY <1>3, <1>4, <1>5, <1>9, <1>10, <1>11, RetryInv

\* The card has left the transfer, or has not heard.
LEMMA Stopped ==
    ASSUME Typed, DataKept, NEW arg, NEW o \in Chk_CMDend(12, arg), card' = o.card
    PROVE  /\ Agreed => Agreed'
           /\ Silent => Silent'
           /\ Over => Over'
           /\ o.end => Over' /\ Silent' /\ card'.st # "rcv"
  <1>1. /\ Unmoved(card') \/ (card.st = "data" /\ MovedTo(card', "tran"))
              \/ (card.st \in {"rcv", "prg"} /\ MovedTo(card', "prg"))
        /\ o.end => MovedTo(card', "tran") \/ MovedTo(card', "prg")
    BY EffectStop
  <1>2. CASE Unmoved(card')
    <2>1. (Agreed => Agreed') /\ (Silent => Silent') /\ (Over => Over')
      BY <1>2, UnmovedKeeps
    <2>2. o.end => Over' /\ Silent' /\ card'.st # "rcv"
      BY <1>1 DEF MovedTo, Over, Silent
    <2> QED BY <2>1, <2>2
  <1>3. CASE ~Unmoved(card')
    <2>1. /\ card'.st \in {"tran", "prg"} /\ card.st \in {"data", "rcv", "prg"}
          /\ card'.kind = card.kind /\ card'.rca = card.rca /\ card'.wide = card.wide
      BY <1>1, <1>3 DEF MovedTo
    <2>2. Agreed => Agreed'
      BY <2>1, KeptParts DEF Agreed, Selected
    <2> QED BY <2>1, <2>2 DEF Over, Silent
  <1> QED BY <1>2, <1>3

LEMMA CommandStop ==
    ASSUME SdInv, Command, UNCHANGED scenario, UNCHANGED readerVars, Number = 12
    PROVE  SdInv'
  <1>0. Point /\ work # <<>> /\ Tag = "cmd" /\ Typed
    BY CommandStart DEF SdInv, Point
  <1>1. Transferring /\ (Stops \/ StopsWrite \/ (Streaming /\ StopsStreamOut))
    BY <1>0, PointCommand
  <1>2. /\ work[1] = Cmd(12, 0) /\ Len(work) >= 2 /\ Bottom.op \in BottomOps
        /\ \/ Stops /\ Len(work) = 2
           \/ StopsWrite /\ Len(work) = 4 /\ work[2] = I("Chk_BUSYend") /\ work[3] = I("written")
           \/ Streaming /\ StopsStreamOut /\ Len(work) = 3 /\ work[2] = I("Chk_BUSYend")
    BY <1>1 DEF Stops, StopsWrite, StopsStreamOut, On
  <1>4. ArgOf(Cmd(12, 0)) = 0
    BY DEF ArgOf, Cmd
  <1>5. PICK o \in Chk_CMDend(12, 0) : /\ card' = o.card /\ rsp' = o.rsp /\ faults' = o.faults
                                       /\ IF o.end THEN PoppedStack ELSE work' = work
    BY <1>2, <1>4, Retried
  <1>6. IsStack(work') /\ Bottom' = Bottom /\ work' # <<>> /\ DataKept
    BY <1>2, <1>4, Retried
  <1>7. /\ Agreed' /\ block' >= 1 /\ (Silent => Silent') /\ (Over => Over')
        /\ o.end => Over' /\ Silent' /\ card'.st # "rcv"
    BY <1>0, <1>1, <1>5, <1>6, Stopped, KeptParts DEF Transferring
  <1>8. /\ ctl' = ctl /\ (Calm' <=> Calm) /\ (Exact' <=> Exact) /\ (AllStored => AllStored') /\ wt_cnt' = wt_cnt /\ Total' = Total
        /\ block' = block
    BY <1>6, KeptParts DEF AllStored, Stored
  <1>9. ASSUME o.end, Calm => ~ctl.tmo, Exact => ~ctl.fin PROVE Still'
    BY <1>7, <1>8, <1>9 DEF Still, Quiet, NoneLeft
  <1>10. ASSUME Stops, Len(work) = 2 PROVE Resting' \/ Transferring'
    <2>1. CASE o.end
      <3>1. On(<<>>)'
        BY <1>5, <1>6, <1>10, <2>1, KeptParts DEF On, PoppedStack, Stops
      <3>2. Still'
        BY <1>9, <1>10, <2>1 DEF Stops
      <3> QED BY <1>7, <3>1, <3>2 DEF Resting
    <2>2. CASE ~o.end
      <3>1. On(<<Cmd(12, 0)>>)'
        BY <1>5, <1>6, <1>10, <2>2, KeptParts DEF On, Stops
      <3>2. Stops'
        BY <1>7, <1>8, <1>10, <3>1 DEF Stops
      <3> QED BY <1>7, <3>2 DEF Transferring, Reading
    <2> QED BY <2>1, <2>2
  <1>11. ASSUME StopsWrite, Len(work) = 4, work[2] = I("Chk_BUSYend"), work[3] = I("written") PROVE Transferring'
    <2>1. CASE o.end
      <3>1. On(<<I("Chk_BUSYend"), I("written")>>)'
        BY <1>5, <1>6, <1>11, <2>1, KeptParts DEF On, PoppedStack, StopsWrite
      <3>2. Still'
        BY <1>9, <1>11, <2>1 DEF StopsWrite, Quiet
      <3>3. Programs'
        BY <1>8, <1>11, <3>1, <3>2 DEF StopsWrite, Programs
      <3> QED BY <1>7, <3>3 DEF Transferring, Writing
    <2>2. CASE ~o.end
      <3>1. On(<<Cmd(12, 0), I("Chk_BUSYend"), I("written")>>)'
        BY <1>5, <1>6, <1>11, <2>2, KeptParts DEF On, StopsWrite
      <3>2. StopsWrite'
        BY <1>7, <1>8, <1>11, <3>1 DEF StopsWrite, Quiet
      <3> QED BY <1>7, <3>2 DEF Transferring, Writing
    <2> QED BY <2>1, <2>2
  <1>12. ASSUME Streaming, StopsStreamOut, Len(work) = 3, work[2] = I("Chk_BUSYend") PROVE Transferring'
    <2>0. Bottom'.op = "tests"
      BY <1>6, <1>12 DEF Streaming
    <2>1. CASE o.end
      <3>1. On(<<I("Chk_BUSYend")>>)'
        BY <1>5, <1>6, <1>12, <2>1, KeptParts DEF On, PoppedStack, StopsStreamOut
      <3>2. Still'
        BY <1>9, <1>12, <2>1 DEF StopsStreamOut, Quiet
      <3>3. Flushes'
        BY <3>1, <3>2 DEF Flushes
      <3> QED BY <1>7, <2>0, <3>3 DEF Transferring, Streaming
    <2>2. CASE ~o.end
      <3>1. On(<<Cmd(12, 0), I("Chk_BUSYend")>>)'
        BY <1>5, <1>6, <1>12, <2>2, KeptParts DEF On, StopsStreamOut
      <3>2. StopsStreamOut'
        BY <1>7, <1>8, <1>12, <3>1 DEF StopsStreamOut, Quiet
      <3> QED BY <1>7, <2>0, <3>2 DEF Transferring, Streaming
    <2> QED BY <2>1, <2>2
  <1>13. work[2].op \notin {"Rd_Block", "receive", "Rd_Stream", "CMD11", "stream", "cmd"} /\ 12 \in DoneCommands \ {6, 17, 18}
    BY <1>2 DEF I, DoneCommands, BottomOps, Bottom
  <1>14. Resting' \/ Transferring'
    BY <1>2, <1>10, <1>11, <1>12
  <1> QED BY <1>2, <1>4, <1>5, <1>13, <1>14, RetryInv

\* A read begins.
LEMMA BegunRead ==
    ASSUME Typed, DataKept, block >= 1, Begun(card', IF block < 2 THEN 17 ELSE 18, asked), NotStarted \/ Started
    PROVE  Started'
  <1> DEFINE n == IF block < 2 THEN 17 ELSE 18
  <1>0. /\ card.st = "tran" /\ card'.st = "data" /\ (card'.multi <=> block >= 2) /\ card'.sector = asked
        /\ card'.index = IF ctl.left > 0 THEN 0 ELSE Words + 1
    BY CountTypes DEF Begun
  <1>1. /\ Total \in Nat /\ rd_cnt \in Nat /\ ctl.left \in Nat /\ Len(fifo) \in Nat /\ Words \in Nat /\ Words >= 1
        /\ Total >= Words
    BY CountTypes, CtlTypes, FifoTypes, TotalSize
  <1>2. /\ ctl' = ctl /\ fifo' = fifo /\ rd_cnt' = rd_cnt /\ Total' = Total /\ asked' = asked /\ Rx' = Rx /\ block' = block
    BY KeptParts
  <1>3. CASE NotStarted
    <2>1. ctl.left = Total /\ Len(fifo) = 0 /\ rd_cnt = 0 /\ ctl.left > 0
      BY <1>1, <1>3 DEF NotStarted
    <2>2. ctl.left + Len(fifo) + rd_cnt = Total /\ Total - ctl.left = 0
      BY <1>1, <2>1
    <2>3. \A k \in 1..Len(fifo) : FALSE
      BY <2>1
    <2>4. \A p \in 0..(Words - 1) : ~(p < rd_cnt)
      BY <1>1, <2>1
    <2> QED BY <1>0, <1>1, <1>2, <2>1, <2>2, <2>3, <2>4 DEF Started
  <1>4. CASE Started
    <2>1. ~(ctl.left > 0)
      BY <1>0, <1>4 DEF Started
    <2>2. card'.index >= Words
      BY <1>0, <1>1, <2>1
    <2>3. /\ ctl.left + Len(fifo) + rd_cnt = Total
          /\ \A k \in 1..Len(fifo) : rd_cnt + k - 1 < Words => fifo[k] = <<asked, rd_cnt + k - 1>>
          /\ \A p \in 0..(Words - 1) : p < rd_cnt => Rx[p] = <<asked, p>>
      BY <1>4 DEF Started
    <2> QED BY <1>0, <1>2, <2>1, <2>2, <2>3 DEF Started
  <1> QED BY <1>3, <1>4

LEMMA CommandRead ==
    ASSUME SdInv, Command, UNCHANGED scenario, UNCHANGED readerVars, Transferring, SendsRead
    PROVE  SdInv'
  <1> DEFINE n == IF block < 2 THEN 17 ELSE 18
  <1>0. Point /\ work # <<>> /\ Tag = "cmd" /\ Typed /\ Always
    BY CommandStart DEF SdInv, Point
  <1>1. On(<<Cmd(n, asked), I("receive")>>) /\ Len(work) = 3 /\ work[1] = Cmd(n, asked) /\ work[2] = I("receive") /\ asked \in Int
    BY DEF SendsRead, On
  <1>2. n \in {17, 18} /\ n \in {11, 17, 18, 20, 24, 25} /\ n \in DoneCommands \ {6} /\ n # 3
    BY DEF DoneCommands
  <1>4. ArgOf(Cmd(n, asked)) = asked
    BY <1>2 DEF ArgOf, Cmd
  <1>5. PICK o \in Chk_CMDend(n, asked) : /\ card' = o.card /\ rsp' = o.rsp /\ faults' = o.faults
                                          /\ IF o.end THEN PoppedStack ELSE work' = work
    <2> HIDE DEF n
    <2> QED BY <1>1, <1>4, Retried
  <1>6. IsStack(work') /\ Bottom' = Bottom /\ work' # <<>> /\ DataKept
    <2> HIDE DEF n
    <2> QED BY <1>1, <1>4, Retried
  <1>7. /\ Unmoved(card') \/ Begun(card', n, asked)
        /\ o.end => Begun(card', n, asked)
    <2> HIDE DEF n
    <2> QED BY <1>0, <1>1, <1>2, <1>5, EffectTransfer
  <1>8. block >= 1 /\ Agreed /\ (Calm => ~ctl.tmo /\ (NotStarted \/ Started)) /\ (Exact => card.st # "rcv" /\ FinIsOver)
    BY DEF Transferring, SendsRead
  <1>9. /\ Agreed' /\ block' >= 1
        /\ Calm' => ~ctl'.tmo /\ (NotStarted' \/ Started')
        /\ Exact' => card'.st # "rcv" /\ FinIsOver'
        /\ Begun(card', n, asked) /\ Calm' => Started'
    <2>1. CASE Unmoved(card')
      <3>1. ~Begun(card', n, asked)
        BY <2>1 DEF Unmoved, MovedTo, Begun
      <3> HIDE DEF n
      <3> QED BY <1>6, <1>8, <2>1, <3>1, UnmovedKeeps, KeptParts
    <2>2. CASE Begun(card', n, asked)
      <3>1. card'.st = "data" /\ card.st = "tran" /\ card'.rca = card.rca /\ card'.wide = card.wide /\ card'.kind = card.kind
            /\ card'.index = IF ctl.left > 0 THEN 0 ELSE Words + 1
        BY <2>2 DEF Begun
      <3>2. Agreed'
        BY <1>6, <1>8, <3>1, KeptParts DEF Agreed, Selected
      <3>3. Calm => Started'
        BY <1>0, <1>6, <1>8, <2>2, BegunRead
      <3>4. FinIsOver => FinIsOver'
        BY <1>0, <1>6, <3>1, KeptParts, CtlTypes, CountTypes DEF FinIsOver, Over
      <3> HIDE DEF n
      <3> QED BY <1>6, <1>8, <3>1, <3>2, <3>3, <3>4, KeptParts
    <2> HIDE DEF n
    <2> QED BY <1>7, <2>1, <2>2
  <1>10. ASSUME o.end PROVE Point' /\ At("receive")'
    <2>1. On(<<I("receive")>>)'
      BY <1>1, <1>5, <1>6, <1>10, KeptParts DEF On, PoppedStack
    <2>2. Receives'
      <3> HIDE DEF n
      <3> QED BY <1>6, <1>7, <1>9, <1>10, <2>1 DEF Receives
    <2>3. At("receive")'
      BY <1>1, <1>5, <1>6, <1>10 DEF PoppedStack, At, I
    <2> QED BY <1>6, <1>9, <2>2, <2>3 DEF Point, Transferring, Reading
  <1>11. ASSUME ~o.end PROVE Point' /\ work' = work
    <2>1. On(<<Cmd(IF block < 2 THEN 17 ELSE 18, asked), I("receive")>>)' /\ work' = work
      BY <1>1, <1>5, <1>6, <1>11, KeptParts DEF On
    <2>2. SendsRead'
      BY <1>1, <1>6, <1>9, <2>1, KeptParts DEF SendsRead
    <2> QED BY <1>6, <1>9, <2>1, <2>2 DEF Point, Transferring, Reading
  <1>12. Listening /\ Asking
    <2>1. At("cmd") /\ Head(work).n \in {17, 18}
      BY <1>1, <1>2, CommandStart DEF Cmd
    <2> QED BY <2>1 DEF Listening, Asking
  <1>13. Asking'
    <2>1. CASE o.end
      BY <1>10, <2>1 DEF Asking
    <2>2. CASE ~o.end
      <3>1. work' = work
        BY <1>11, <2>2
      <3> QED BY <1>12, <3>1 DEF Asking, At
    <2> QED BY <2>1, <2>2
  <1>14. Point'
    BY <1>10, <1>11
  <1> HIDE DEF n
  <1> QED BY <1>1, <1>2, <1>5, <1>6, <1>12, <1>13, <1>14, CommandInv

\* A write begins: the card takes the first word of the first sector next.
LEMMA BegunWrite ==
    ASSUME Typed, DataKept, block >= 1, Begun(card', IF block < 2 THEN 24 ELSE 25, 1), ctl.left = Total, ~ctl.fin
    PROVE  Takes' /\ card'.index = 0
  <1>0. /\ card'.st = "rcv" /\ (card'.multi <=> block >= 2) /\ card'.sector = 1
        /\ card'.index = IF ctl.left > 0 THEN 0 ELSE Words + 1
    BY CountTypes DEF Begun
  <1>1. /\ Total \in Nat /\ ctl.left \in Nat /\ Words \in Nat /\ Words >= 1 /\ Total >= Words /\ block \in Nat
    BY CountTypes, CtlTypes, TotalSize
  <1>2. ctl' = ctl /\ Total' = Total /\ block' = block /\ Gone' = Gone
    BY KeptParts
  <1>3. card'.index = 0
    BY <1>0, <1>1
  <1>4. Gone' = Before(1) + card'.index
    <2>1. Gone = 0
      BY <1>1 DEF Gone
    <2>2. Before(1) = 0
      BY Befores
    <2> QED BY <1>2, <1>3, <2>1, <2>2
  <1>5. 1 \in 1..block' /\ (1..(1 - 1)) = {} /\ card'.index <= Words /\ (card'.multi <=> block' >= 2) /\ ~ctl'.fin
    BY <1>0, <1>1, <1>2, <1>3
  <1>6. (\A b \in 1..(card.sector - 1) : Stored(b, Words))'
    BY <1>0, <1>5
  <1>7. (card.index > 0 => Stored(card.sector, card.index))'
    BY <1>3
  <1>8. (Gone = Before(card.sector) + card.index)'
    BY <1>0, <1>4 DEF Before
  <1> QED BY <1>0, <1>3, <1>5, <1>6, <1>7, <1>8 DEF Takes

LEMMA CommandWrite ==
    ASSUME SdInv, Command, UNCHANGED scenario, UNCHANGED readerVars, Transferring, SendsWrite
    PROVE  SdInv'
  <1> DEFINE n == IF block < 2 THEN 24 ELSE 25
  <1>0. Point /\ work # <<>> /\ Typed
    BY CommandStart DEF SdInv, Point
  <1>1. work[1] = Cmd(n, 1) /\ work[2] = I("transmit") /\ Len(work) >= 2
    BY DEF SendsWrite, On
  <1>2. n \in {11, 17, 18, 20, 24, 25} /\ n \in DoneCommands \ {6, 17, 18} /\ n # 3 /\ 1 \in Int
    BY DEF DoneCommands
  <1>4. ArgOf(Cmd(n, 1)) = 1
    BY <1>2 DEF ArgOf, Cmd
  <1>5. PICK o \in Chk_CMDend(n, 1) : /\ card' = o.card /\ rsp' = o.rsp /\ faults' = o.faults
                                      /\ IF o.end THEN PoppedStack ELSE work' = work
    <2> HIDE DEF n
    <2> QED BY <1>1, <1>4, Retried
  <1>6. IsStack(work') /\ Bottom' = Bottom /\ work' # <<>> /\ DataKept
    <2> HIDE DEF n
    <2> QED BY <1>1, <1>4, Retried
  <1>7. /\ Unmoved(card') \/ Begun(card', n, 1)
        /\ o.end => Begun(card', n, 1)
    <2> HIDE DEF n
    <2> QED BY <1>0, <1>2, <1>5, EffectTransfer
  <1>8. /\ block >= 1 /\ Agreed /\ Quiet
        /\ Exact => /\ fifo = <<>> /\ ctl.left = Total /\ wt_cnt = 0 /\ ~ctl.fin
                    /\ NoneLeft \/ (Takes /\ card.index = 0)
    BY DEF Transferring, SendsWrite, NoneLeft, Takes
  <1>9. Begun(card', n, 1) => Agreed' /\ Quiet' /\ (Exact => Takes' /\ card'.index = 0)
    <2> SUFFICES ASSUME Begun(card', n, 1) PROVE Agreed' /\ Quiet' /\ (Exact => Takes' /\ card'.index = 0)
      OBVIOUS
    <2>1. card'.st = "rcv" /\ card.st = "tran" /\ card'.rca = card.rca /\ card'.wide = card.wide /\ card'.kind = card.kind
      BY DEF Begun
    <2>2. Agreed'
      BY <1>6, <1>8, <2>1, KeptParts DEF Agreed, Selected
    <2>3. Quiet'
      BY <1>6, <1>8, <2>1, KeptParts DEF Quiet, Silent
    <2>4. Exact => Takes' /\ card'.index = 0
      BY <1>0, <1>6, <1>8, BegunWrite
    <2> QED BY <2>2, <2>3, <2>4
  <1>10. Unmoved(card') => Agreed' /\ Quiet' /\ (Exact => NoneLeft' \/ (Takes' /\ card'.index = 0))
    <2> HIDE DEF n
    <2> QED BY <1>6, <1>8, UnmovedKeeps
  <1>11. /\ block' = block /\ fifo' = fifo /\ ctl' = ctl /\ Total' = Total /\ wt_cnt' = wt_cnt /\ tx' = tx /\ (Exact' <=> Exact)
         /\ Gone' = Gone /\ Origin' = Origin
    BY <1>6, KeptParts
  <1>12. /\ Agreed' /\ Quiet' /\ block' >= 1
         /\ Exact' => NoneLeft' \/ (Takes' /\ card'.index = 0)
         /\ o.end /\ Exact' => Takes' /\ card'.index = 0
    <2> HIDE DEF n
    <2> QED BY <1>7, <1>8, <1>9, <1>10, <1>11
  <1>13. ASSUME o.end PROVE Transferring'
    <2>1. IF block' < 2
          THEN On(<<I("transmit"), I("Chk_DATend"), I("DATclear"), I("written")>>)'
          ELSE On(<<I("transmit"), I("Chk_DATend"), I("DATclear"), Cmd(12, 0), I("Chk_BUSYend"), I("written")>>)'
      <3>1. CASE block < 2
        <4>1. On(<<Cmd(24, 1), I("transmit"), I("Chk_DATend"), I("DATclear"), I("written")>>)
          BY <3>1 DEF SendsWrite
        <4> QED BY <1>5, <1>6, <1>11, <1>13, <3>1, <4>1 DEF On, PoppedStack
      <3>2. CASE ~(block < 2)
        <4>1. On(<<Cmd(25, 1), I("transmit"), I("Chk_DATend"), I("DATclear"), Cmd(12, 0), I("Chk_BUSYend"), I("written")>>)
          BY <3>2 DEF SendsWrite
        <4> QED BY <1>5, <1>6, <1>11, <1>13, <3>2, <4>1 DEF On, PoppedStack
      <3> QED BY <3>1, <3>2
    <2>2. Exact' => Accounts' /\ wt_cnt' <= Total'
      <3> HAVE Exact'
      <3>1. fifo' = <<>> /\ wt_cnt = 0 /\ ctl.left = Total /\ Takes'
        BY <1>8, <1>11, <1>12, <1>13
      <3>2. Total \in Nat /\ tx \in Nat
        BY <1>0, CountTypes
      <3>3. Gone' = 0 /\ Origin' >= 0 /\ wt_cnt' = 0 /\ Len(fifo') = 0
        BY <1>11, <3>1, <3>2 DEF Gone, Origin
      <3>4. \A k \in 1..Len(fifo') : FALSE
        BY <3>3
      <3> QED BY <1>11, <3>1, <3>2, <3>3, <3>4 DEF Accounts
    <2>3. Transmits'
      BY <1>12, <2>1, <2>2 DEF Transmits
    <2> QED BY <1>12, <2>3 DEF Transferring, Writing
  <1>14. ASSUME ~o.end PROVE Transferring'
    <2>1. work' = work
      BY <1>5, <1>14
    <2>2. SendsWrite'
      <3>1. /\ block < 2 => On(<<Cmd(24, 1), I("transmit"), I("Chk_DATend"), I("DATclear"), I("written")>>)'
            /\ ~(block < 2) => On(<<Cmd(25, 1), I("transmit"), I("Chk_DATend"), I("DATclear"), Cmd(12, 0), I("Chk_BUSYend"),
                 I("written")>>)'
        BY <1>6, <2>1 DEF On, SendsWrite
      <3>2. Exact' => /\ fifo' = <<>> /\ ctl'.left = Total' /\ wt_cnt' = 0
                      /\ NoneLeft' \/ (Takes' /\ card'.index = 0)
        BY <1>8, <1>11, <1>12
      <3> QED BY <1>11, <1>12, <3>1, <3>2 DEF SendsWrite
    <2> QED BY <1>12, <2>2 DEF Transferring, Writing
  <1>15. work[2].op \notin {"Rd_Block", "receive", "Rd_Stream", "CMD11", "stream", "cmd"}
    BY <1>1 DEF I
  <1>16. Transferring'
    BY <1>13, <1>14
  <1> HIDE DEF n
  <1> QED BY <1>1, <1>2, <1>4, <1>5, <1>15, <1>16, RetryInv

LEMMA CommandStreamOut ==
    ASSUME SdInv, Command, UNCHANGED scenario, UNCHANGED readerVars, Transferring, Bottom.op = "tests", SendsStreamOut
    PROVE  SdInv'
  <1> DEFINE s == [op |-> "streamOut", sent |-> 0]
  <1>0. Point /\ work # <<>> /\ Typed
    BY CommandStart DEF SdInv, Point
  <1>1. On(<<Cmd(20, 1), s, Cmd(12, 0), I("Chk_BUSYend")>>) /\ work[1] = Cmd(20, 1) /\ work[2] = s /\ Len(work) = 5
    BY DEF SendsStreamOut, On
  <1>4. ArgOf(Cmd(20, 1)) = 1 /\ 1 \in Int /\ 20 \in DoneCommands \ {6, 17, 18}
    BY DEF ArgOf, Cmd, DoneCommands
  <1>5. PICK o \in Chk_CMDend(20, 1) : /\ card' = o.card /\ rsp' = o.rsp /\ faults' = o.faults
                                       /\ IF o.end THEN PoppedStack ELSE work' = work
    BY <1>1, <1>4, Retried
  <1>6. IsStack(work') /\ Bottom' = Bottom /\ work' # <<>> /\ DataKept
    BY <1>1, <1>4, Retried
  <1>7. /\ Unmoved(card') \/ Begun(card', 20, 1)
        /\ o.end => Begun(card', 20, 1)
    BY <1>0, <1>4, <1>5, EffectTransfer
  <1>8. block >= 1 /\ Agreed /\ Quiet /\ (Exact => NoneLeft \/ Absorbs) /\ MMC
    BY DEF Transferring, SendsStreamOut
  <1>9. Begun(card', 20, 1) => Agreed' /\ Quiet' /\ (Exact => Absorbs')
    <2> SUFFICES ASSUME Begun(card', 20, 1) PROVE Agreed' /\ Quiet' /\ (Exact => Absorbs')
      OBVIOUS
    <2>1. card'.st = "rcv" /\ card'.multi /\ card.st = "tran" /\ card'.rca = card.rca /\ card'.wide = card.wide
          /\ card'.kind = card.kind
      BY DEF Begun
    <2>2. Agreed'
      BY <1>6, <1>8, <2>1, KeptParts DEF Agreed, Selected
    <2>3. Quiet'
      BY <1>6, <1>8, <2>1, KeptParts DEF Quiet, Silent
    <2>4. Exact => ~ctl.fin
      BY <1>8, <2>1 DEF NoneLeft, Absorbs
    <2>5. Exact => Absorbs'
      BY <1>6, <2>1, <2>4, KeptParts DEF Absorbs, FinIsOver
    <2> QED BY <2>2, <2>3, <2>5
  <1>10. Unmoved(card') => Agreed' /\ Quiet' /\ (Exact => NoneLeft' \/ Absorbs')
    BY <1>6, <1>8, UnmovedKeeps
  <1>11. block' = block /\ MMC' = MMC /\ (Exact' <=> Exact)
    BY <1>6, KeptParts
  <1>12. /\ Agreed' /\ Quiet' /\ block' >= 1 /\ MMC'
         /\ Exact' => NoneLeft' \/ Absorbs'
         /\ o.end /\ Exact' => Absorbs'
    BY <1>7, <1>8, <1>9, <1>10, <1>11
  <1>13. ASSUME o.end PROVE Transferring'
    <2>1. work'[1] = s /\ On(<<work[1], Cmd(12, 0), I("Chk_BUSYend")>>)'
      BY <1>1, <1>5, <1>6, <1>13, KeptParts DEF On, PoppedStack
    <2>2. At("streamOut")' /\ work'[1].sent \in Nat
      BY <1>6, <2>1 DEF At
    <2>3. StreamsOut'
      BY <1>12, <1>13, <2>1, <2>2 DEF StreamsOut
    <2> QED BY <1>6, <1>12, <2>3 DEF Transferring, Streaming
  <1>14. ASSUME ~o.end PROVE Transferring'
    <2>1. On(<<Cmd(20, 1), s, Cmd(12, 0), I("Chk_BUSYend")>>)'
      BY <1>1, <1>5, <1>6, <1>14, KeptParts DEF On
    <2>2. SendsStreamOut'
      BY <1>12, <2>1 DEF SendsStreamOut
    <2> QED BY <1>6, <1>12, <2>2 DEF Transferring, Streaming
  <1>15. work[2].op \notin {"Rd_Block", "receive", "Rd_Stream", "CMD11", "stream", "cmd"} /\ Len(work) >= 2
    BY <1>1
  <1>16. Transferring'
    BY <1>13, <1>14
  <1> HIDE DEF s
  <1> QED BY <1>1, <1>4, <1>5, <1>15, <1>16, RetryInv

LEMMA CommandStep ==
    ASSUME SdInv, Command, UNCHANGED scenario, UNCHANGED readerVars
    PROVE  SdInv'
  <1>1. Point /\ work # <<>> /\ Tag = "cmd"
    BY CommandStart DEF SdInv, Point
  <1>2. CASE Number = 12
    BY <1>2, CommandStop
  <1>3. CASE Number = 55
    BY <1>3, CommandMark
  <1>4. CASE Number = 20 /\ Transferring /\ Streaming /\ SendsStreamOut
    BY <1>4, CommandStreamOut DEF Streaming
  <1> QED BY <1>1, <1>2, <1>3, <1>4, PointCommand, CommandLast, CommandFollow, CommandAddress, CommandSelect, CommandErase,
             CommandRead, CommandWrite

-----------------------------------------------------------------------------
(* Finding the card. *)

\* A step between instructions that neither wait for data nor ask for it.
LEMMA PlainStep ==
    ASSUME SdInv, UNCHANGED scenario, UNCHANGED readerVars, Typed', Point', Plain(work'), ~Asking,
           card'.kind = card.kind, card'.wide => card.wide \/ card.kind # "MMC", MMC' => card.kind = "MMC",
           ctl'.tmo => ctl.tmo, dataFaults' = dataFaults, Rx' = Rx \/ Rx' = Blank, Data_buffer' = Data_buffer, asked' = asked,
           scenario.operations = 0 => Bottom' = Bottom
    PROVE  SdInv'
  <1>1. Typed /\ ReaderTyped /\ Always
    BY DEF SdInv
  <1>2. ReaderTyped'
    BY <1>1, ReaderKept
  <1>3. ~Listening' /\ ~Asking' /\ WholeBuffer
    BY <1>1, PlainIs DEF Point, Always
  <1>4. ~MmcTests => InPlace(Rx', Words)
    <2>1. CASE Rx' = Rx
      BY <1>1, <2>1 DEF Always
    <2>2. CASE Rx' = Blank
      <3>1. \A k \in 0..(Words - 1) : k \in 0..(Words * Blocks - 1)
        BY Sizes, Times
      <3>2. \A k \in 0..(Words * Blocks - 1) : Blank[k] = <<Null, k>>
        BY DEF Blank
      <3> QED BY <2>2, <3>1, <3>2 DEF InPlace
    <2> QED BY <2>1, <2>2
  <1>5. (MmcTests' <=> MmcTests) /\ (Calm' <=> Calm)
    BY DEF MmcTests, Calm
  <1>6. (Calm => InPlace(Data_buffer', Bytes)) /\ WholeBuffer'
    BY <1>1, <1>3 DEF Always, WholeBuffer
  <1>7. Always'
    BY <1>1, <1>3, <1>4, <1>5, <1>6 DEF Always, InPlace
  <1> QED BY <1>2, <1>7 DEF SdInv

\* One instruction after another: nothing but the program moves on.
Onward == UNCHANGED <<scenario, hostVars, busVars, countVars>>

LEMMA OnwardParts ==
    ASSUME Onward
    PROVE  /\ scenario' = scenario /\ card' = card /\ store' = store /\ rsp' = rsp /\ ctl' = ctl /\ fifo' = fifo
           /\ RCA' = RCA /\ MMC' = MMC /\ Wide' = Wide /\ block' = block
           /\ rd_cnt' = rd_cnt /\ Rx' = Rx /\ Data_buffer' = Data_buffer /\ asked' = asked /\ j' = j
           /\ wt_cnt' = wt_cnt /\ tx' = tx
           /\ faults' = faults /\ dataFaults' = dataFaults /\ operations' = operations
           /\ (Typed => Typed') /\ (Still => Still') /\ (Agreed => Agreed') /\ (Known => Known')
           /\ (Calm' <=> Calm) /\ (Exact' <=> Exact)
  <1>1. /\ scenario' = scenario /\ card' = card /\ store' = store /\ rsp' = rsp /\ ctl' = ctl /\ fifo' = fifo
        /\ RCA' = RCA /\ MMC' = MMC /\ Wide' = Wide /\ block' = block
        /\ rd_cnt' = rd_cnt /\ Rx' = Rx /\ Data_buffer' = Data_buffer /\ asked' = asked /\ j' = j
        /\ wt_cnt' = wt_cnt /\ tx' = tx
        /\ faults' = faults /\ dataFaults' = dataFaults /\ operations' = operations
    BY DEF Onward, hostVars, busVars, countVars, busWidth, readVars, writeVars
  <1>2. Typed => Typed'
    BY <1>1 DEF Typed
  <1>3. (Still => Still') /\ (Agreed => Agreed') /\ (Known => Known') /\ (Calm' <=> Calm) /\ (Exact' <=> Exact)
    BY <1>1 DEF Still, Quiet, Silent, NoneLeft, Over, Agreed, Known, Calm, Exact, MmcTests
  <1> QED BY <1>1, <1>2, <1>3

LEMMA TopIs == ASSUME work # <<>> PROVE Head(work) = work[1]
  OBVIOUS

ResetTo(c, st, rca, off) == [c EXCEPT !.st = st, !.rca = rca, !.wide = off, !.app = off]
LEMMA CardReset ==
    ASSUME NEW c \in CardSet, NEW st \in CardStates, NEW rca \in 0..3, NEW off \in BOOLEAN
    PROVE  LET d == ResetTo(c, st, rca, off)
           IN  d \in CardSet /\ d.kind = c.kind /\ d.st = st /\ (d.wide <=> off)
  BY DEF CardSet, CardStates, ResetTo
LEMMA CardIdle ==
    ASSUME NEW c \in CardSet, NEW d, d = [c EXCEPT !.st = "idle", !.rca = 0, !.wide = FALSE, !.app = FALSE]
    PROVE  d \in CardSet /\ d.kind = c.kind /\ d.st = "idle" /\ ~d.wide
  <1> DEFINE off == FALSE
  <1>1. off \in BOOLEAN /\ "idle" \in CardStates /\ 0 \in 0..3 /\ ~off
    BY DEF CardStates
  <1>2. d = ResetTo(c, "idle", 0, off)
    BY DEF ResetTo
  <1> HIDE DEF off
  <1>3. ResetTo(c, "idle", 0, off) \in CardSet
    BY <1>1, CardReset
  <1>4. d.kind = c.kind /\ d.st = "idle"
    BY <1>1, <1>2, CardReset
  <1>5. d.wide <=> off
    BY <1>1, <1>2, CardReset
  <1> QED BY <1>1, <1>2, <1>3, <1>4, <1>5

LEMMA Initialises ==
    ASSUME SdInv, SD_card_init, UNCHANGED scenario, UNCHANGED readerVars
    PROVE  SdInv'
  <1>0. Point /\ Typed /\ Always /\ work # <<>> /\ Tag = "Test_SDI" /\ IsStack(work)
    BY DEF SdInv, SD_card_init, At, Tag, Point
  <1>1. Locating /\ Finds
    BY <1>0, PointFinding
  <1>2. On(<<I("Test_SDI")>>) /\ Len(work) = 2 /\ Early /\ Still /\ work[1] = I("Test_SDI")
    BY <1>1 DEF Finds, On, Locating
  <1>3. IsStack(work') /\ Len(work') = 2 /\ work' # <<>> /\ work'[1] = Ocr(1, OcrTries) /\ Bottom' = Bottom
    BY <1>0, <1>2, Goes1 DEF SD_card_init
  <1>4. /\ RCA' = 0 /\ MMC' = FALSE /\ fifo' = <<>> /\ ctl' = [ctl EXCEPT !.left = 0]
        /\ store' = store /\ rsp' = rsp /\ Wide' = Wide /\ block' = block /\ dataFaults' = dataFaults /\ operations' = operations
        /\ rd_cnt' = rd_cnt /\ Rx' = Rx /\ Data_buffer' = Data_buffer /\ asked' = asked /\ j' = j /\ wt_cnt' = wt_cnt /\ tx' = tx
    BY DEF SD_card_init, readVars, writeVars
  <1>5. /\ ctl' \in CtlSet /\ ctl'.fin = ctl.fin /\ ctl'.tmo = ctl.tmo
    <2>1. ctl \in CtlSet /\ 0 \in 0..Room
      BY <1>0, CtlTypes
    <2> QED BY <1>4, <2>1, CtlCounted
  <1>6. /\ card' \in CardSet /\ card'.kind = card.kind /\ (card'.wide => card.wide) /\ (card' = card \/ card'.st = "idle")
    <2>1. PICK lost \in BOOLEAN : card' = IF lost THEN card
                   ELSE [card EXCEPT !.st = "idle", !.rca = 0, !.wide = FALSE, !.app = FALSE]
      BY DEF SD_card_init
    <2>2. card \in CardSet
      BY <1>0, CardTypes
    <2>3. CASE lost
      BY <2>1, <2>2, <2>3
    <2>4. CASE ~lost
      <3>1. card' = [card EXCEPT !.st = "idle", !.rca = 0, !.wide = FALSE, !.app = FALSE]
        BY <2>1, <2>4
      <3> QED BY <2>2, <3>1, CardIdle
    <2> QED BY <2>3, <2>4
  <1>7. faults' \in 0..scenario.faults
    <2>1. PICK lost \in BOOLEAN : (lost => faults < scenario.faults) /\ faults' = faults + (IF lost THEN 1 ELSE 0)
      BY DEF SD_card_init
    <2>2. faults \in 0..scenario.faults /\ scenario.faults \in Nat
      BY <1>0, SdAssumption DEF Typed, SdAssumption
    <2>3. CASE lost
      BY <2>1, <2>2, <2>3
    <2>4. CASE ~lost
      <3>1. faults' = faults
        BY <2>1, <2>2, <2>4
      <3> QED BY <2>2, <3>1
    <2> QED BY <2>3, <2>4
  <1>8. Typed'
    <2>1. fifo' \in Seq(WordSet) /\ Len(fifo') <= FifoDepth
      BY <1>4, Sizes
    <2>2. RCA' \in (0..3) \union {Garbled}
      BY <1>4
    <2>3. MMC' \in BOOLEAN
      BY <1>4
    <2>4. card'.kind = scenario.kind
      BY <1>0, <1>6 DEF Typed
    <2> QED BY <1>0, <1>4, <1>5, <1>6, <1>7, <2>1, <2>2, <2>3, <2>4 DEF Typed
  <1>9. Still' /\ Early'
    <2>1. (Calm' <=> Calm) /\ (Exact' <=> Exact)
      BY <1>4 DEF Calm, Exact, MmcTests
    <2> QED BY <1>2, <1>3, <1>5, <1>6, <2>1 DEF Still, Quiet, Silent, NoneLeft, Over, Early
  <1>10. TriesOcr'
    <2>1. On(<<work[1]>>)' /\ At("ocr")' /\ work'[1].n = 1
      BY <1>2, <1>3 DEF On, At, Ocr
    <2> QED BY <1>4, <2>1 DEF TriesOcr
  <1>11. Point'
    BY <1>3, <1>9, <1>10 DEF Point, Locating
  <1>12. Plain(work') /\ ~Asking
    <2>1. Plain(work)
      BY <1>2 DEF Plain, I
    <2>2. Plain(work')
      BY <1>3 DEF Plain, Ocr
    <2> QED BY <2>1, <2>2, PlainWas
  <1>13. /\ card'.kind = card.kind /\ (card'.wide => card.wide \/ card.kind # "MMC") /\ (MMC' => card.kind = "MMC")
         /\ (ctl'.tmo => ctl.tmo)
    <2>1. ~MMC'
      BY <1>4
    <2> QED BY <1>5, <1>6, <2>1
  <1> QED BY <1>3, <1>4, <1>8, <1>11, <1>12, <1>13, PlainStep

LEMMA AsksForAddress ==
    ASSUME SdInv, CMD3, UNCHANGED scenario, UNCHANGED readerVars
    PROVE  SdInv'
  <1>0. Point /\ Typed /\ Always /\ work # <<>> /\ Tag = "CMD3" /\ IsStack(work) /\ Onward
    BY DEF SdInv, CMD3, At, Tag, Point, Onward
  <1> DEFINE c == Cmd(3, IF MMC THEN 1 ELSE 0)
  <1>1. Locating /\ Known /\ AsksAddress
    BY <1>0, PointFinding
  <1>2. On(<<I("CMD3"), I("published")>>) /\ Len(work) = 3 /\ work[1] = I("CMD3")
    <2>1. ~On(<<Cmd(3, IF MMC THEN 1 ELSE 0), I("published")>>)
      BY <1>0 DEF On, Tag, Cmd
    <2> QED BY <1>1, <2>1 DEF AsksAddress, On
  <1>3. IsStack(work') /\ Len(work') = 3 /\ work' # <<>> /\ work'[1] = c /\ work'[2] = work[2] /\ Bottom' = Bottom
    <2>1. Goes(<<c>>)
      BY DEF CMD3
    <2> HIDE DEF c
    <2> QED BY <1>0, <1>2, <2>1, Goes1
  <1>4. On(<<Cmd(3, IF MMC THEN 1 ELSE 0), I("published")>>)'
    BY <1>0, <1>2, <1>3, OnwardParts DEF On
  <1>5. AsksAddress' /\ Early' /\ Still' /\ Known'
    BY <1>0, <1>1, <1>3, <1>4, OnwardParts DEF AsksAddress, Locating, Early
  <1>6. Point'
    BY <1>3, <1>5 DEF Point, Locating
  <1>7. Plain(work') /\ ~Asking
    <2>1. Plain(work)
      BY <1>2 DEF Plain, I
    <2>2. Plain(work')
      BY <1>3 DEF Plain, Cmd
    <2> QED BY <2>1, <2>2, PlainWas
  <1>8. MMC => card.kind = "MMC"
    BY <1>0 DEF Always
  <1> HIDE DEF c
  <1> QED BY <1>0, <1>3, <1>6, <1>7, <1>8, OnwardParts, PlainStep

LEMMA TwoAndTwo == ASSUME NEW a, NEW b, NEW c, NEW d PROVE <<a, b>> \o <<c, d>> = <<a, b, c, d>>
  <1> DEFINE S == {a, b, c, d}
             x == <<a, b>>
             y == <<c, d>>
             z == <<a, b, c, d>>
  <1>1. x \in Seq(S) /\ y \in Seq(S) /\ z \in Seq(S)
    OBVIOUS
  <1>2. Len(x) = 2 /\ Len(y) = 2 /\ Len(z) = 4 /\ x[1] = a /\ x[2] = b /\ y[1] = c /\ y[2] = d /\ z[1] = a /\ z[2] = b /\ z[3] = c /\ z[4] = d
    OBVIOUS
  <1> HIDE DEF x, y, z, S
  <1>3. x \o y \in Seq(S) /\ Len(x \o y) = 4 /\ \A i \in 1..4 : (x \o y)[i] = IF i <= 2 THEN x[i] ELSE y[i - 2]
    <2>1. x \o y \in Seq(S) /\ Len(x \o y) = Len(x) + Len(y)
      BY <1>1
    <2>2. \A i \in 1..(Len(x) + Len(y)) : (x \o y)[i] = IF i <= Len(x) THEN x[i] ELSE y[i - Len(x)]
      BY <1>1
    <2>3. Len(x) + Len(y) = 4
      BY <1>2
    <2> QED BY <1>2, <2>1, <2>2, <2>3
  <1>4. (x \o y)[1] = a /\ (x \o y)[2] = b /\ (x \o y)[3] = c /\ (x \o y)[4] = d
    BY <1>2, <1>3
  <1>5. \A i \in 1..4 : (x \o y)[i] = z[i]
    <2>1. \A i \in 1..4 : i = 1 \/ i = 2 \/ i = 3 \/ i = 4
      OBVIOUS
    <2> QED BY <1>2, <1>4, <2>1
  <1>6. x \o y = z
    BY <1>1, <1>2, <1>3, <1>5
  <1> QED BY <1>6 DEF x, y, z

LEMMA PublishesAddress ==
    ASSUME SdInv, RCA_published, UNCHANGED scenario, UNCHANGED readerVars
    PROVE  SdInv'
  <1>0. Point /\ Typed /\ Always /\ work # <<>> /\ Tag = "published" /\ IsStack(work)
    BY DEF SdInv, RCA_published, At, Tag, Point
  <1>1. Locating /\ Known /\ HasAddress
    BY <1>0, PointFinding
  <1>2. On(<<I("published")>>) /\ Len(work) = 2 /\ work[1] = I("published") /\ Early /\ Still
    BY <1>1 DEF HasAddress, On, Locating
  <1>3. /\ RCA' = (IF MMC THEN 1 ELSE rsp.rca)
        /\ card' = card /\ store' = store /\ rsp' = rsp /\ ctl' = ctl /\ fifo' = fifo
        /\ MMC' = MMC /\ Wide' = Wide /\ block' = block
        /\ rd_cnt' = rd_cnt /\ Rx' = Rx /\ Data_buffer' = Data_buffer /\ asked' = asked /\ j' = j
        /\ wt_cnt' = wt_cnt /\ tx' = tx
        /\ faults' = faults /\ dataFaults' = dataFaults /\ operations' = operations
    BY DEF RCA_published, busVars, countVars, readVars, writeVars
  <1>4. RCA' \in (0..3) \union {Garbled} /\ RCA' \in {card.rca, Garbled} /\ card.st = "stby"
    BY <1>0, <1>1, <1>3 DEF HasAddress, Typed
  <1>5. Typed'
    BY <1>0, <1>3, <1>4 DEF Typed
  <1>6. Known' /\ Still'
    BY <1>1, <1>2, <1>3 DEF Known, Still, Quiet, Silent, NoneLeft, Over, Calm, Exact, MmcTests
  <1>7. \/ Goes(<<Cmd(7, 0), I("selected"), I("Set_bus"), I("TR_Buf_new")>>)
        \/ Goes(<<I("CMD3"), I("published")>>)
    <2>1. Card_select \o <<I("Set_bus"), I("TR_Buf_new")>> = <<Cmd(7, 0), I("selected"), I("Set_bus"), I("TR_Buf_new")>>
      BY TwoAndTwo DEF Card_select
    <2> QED BY <2>1 DEF RCA_published
  <1>8. ASSUME Goes(<<Cmd(7, 0), I("selected"), I("Set_bus"), I("TR_Buf_new")>>)
        PROVE  Point' /\ Plain(work') /\ Bottom' = Bottom
    <2>1. /\ IsStack(work') /\ Len(work') = 5 /\ work' # <<>> /\ Bottom' = Bottom
          /\ work'[1] = Cmd(7, 0) /\ work'[2] = I("selected") /\ work'[3] = I("Set_bus") /\ work'[4] = I("TR_Buf_new")
      BY <1>0, <1>2, <1>8, Goes4
    <2>2. On(<<Cmd(7, 0), I("selected"), I("Set_bus"), I("TR_Buf_new")>>)'
      BY <1>2, <2>1 DEF On
    <2>3. Selects' /\ Early'
      BY <1>2, <1>3, <1>4, <2>1, <2>2 DEF Selects, Early
    <2>4. Plain(work')
      BY <2>1 DEF Plain, Cmd
    <2> QED BY <1>6, <2>1, <2>3, <2>4 DEF Point, Locating
  <1>9. ASSUME Goes(<<I("CMD3"), I("published")>>)
        PROVE  Point' /\ Plain(work') /\ Bottom' = Bottom
    <2>1. /\ IsStack(work') /\ Len(work') = 3 /\ work' # <<>> /\ Bottom' = Bottom
          /\ work'[1] = I("CMD3") /\ work'[2] = I("published")
      BY <1>0, <1>2, <1>9, Goes2
    <2>2. On(<<I("CMD3"), I("published")>>)'
      BY <1>2, <2>1 DEF On
    <2>3. AsksAddress' /\ Early'
      BY <1>2, <1>3, <1>4, <2>1, <2>2 DEF AsksAddress, Early
    <2>4. Plain(work')
      BY <2>1 DEF Plain, I
    <2> QED BY <1>6, <2>1, <2>3, <2>4 DEF Point, Locating
  <1>10. ~Asking /\ (MMC => card.kind = "MMC")
    <2>1. Plain(work)
      BY <1>2 DEF Plain, I
    <2> QED BY <1>0, <2>1, PlainWas DEF Always
  <1> QED BY <1>3, <1>5, <1>7, <1>8, <1>9, <1>10, PlainStep

LEMMA SelectsCard ==
    ASSUME SdInv, Card_selected, UNCHANGED scenario, UNCHANGED readerVars
    PROVE  SdInv'
  <1>0. Point /\ Typed /\ Always /\ work # <<>> /\ Tag = "selected" /\ IsStack(work) /\ Onward
    BY DEF SdInv, Card_selected, At, Tag, Point, Onward
  <1>1. Locating /\ Known /\ IsSelected
    BY <1>0, PointFinding
  <1>2. On(<<I("selected"), I("Set_bus"), I("TR_Buf_new")>>) /\ Len(work) = 4 /\ work[1] = I("selected") /\ Early
    <2>1. ~On(<<I("Set_bus"), I("TR_Buf_new")>>)
      BY <1>0 DEF On, Tag, I
    <2> QED BY <1>1, <2>1 DEF IsSelected, On, Locating
  <1>3. Known' /\ Still' /\ card' = card /\ RCA' = RCA
    BY <1>0, <1>1, OnwardParts DEF Locating
  <1>4. Goes(<<>>) \/ Goes(<<Cmd(7, 0), I("selected")>>)
    BY DEF Card_selected, Card_select
  <1>5. ASSUME Goes(<<>>) PROVE Point' /\ Plain(work') /\ Bottom' = Bottom
    <2>1. /\ IsStack(work') /\ work' # <<>> /\ Len(work') = 3 /\ work'[1] = work[2] /\ work'[2] = work[3] /\ Bottom' = Bottom
      BY <1>0, <1>2, <1>5, Popped
    <2>2. On(<<I("Set_bus"), I("TR_Buf_new")>>)'
      BY <1>0, <1>2, <2>1, OnwardParts DEF On
    <2>3. IsSelected' /\ Early'
      BY <1>1, <1>2, <1>3, <2>1, <2>2 DEF IsSelected, Early
    <2>4. Plain(work')
      BY <1>2, <2>1 DEF Plain, I, On
    <2> QED BY <1>3, <2>1, <2>3, <2>4 DEF Point, Locating
  <1>6. ASSUME Goes(<<Cmd(7, 0), I("selected")>>) PROVE Point' /\ Plain(work') /\ Bottom' = Bottom
    <2>1. /\ IsStack(work') /\ Len(work') = 5 /\ work' # <<>> /\ Bottom' = Bottom
          /\ work'[1] = Cmd(7, 0) /\ work'[2] = I("selected") /\ work'[2 + 1] = work[2] /\ work'[3 + 1] = work[3]
      BY <1>0, <1>2, <1>6, Goes2
    <2>2. On(<<Cmd(7, 0), I("selected"), I("Set_bus"), I("TR_Buf_new")>>)'
      BY <1>0, <1>2, <2>1, OnwardParts DEF On
    <2>3. Selects' /\ Early'
      BY <1>1, <1>2, <1>3, <2>1, <2>2 DEF IsSelected, Selects, Early
    <2>4. Plain(work')
      BY <2>1 DEF Plain, Cmd
    <2> QED BY <1>3, <2>1, <2>3, <2>4 DEF Point, Locating
  <1>7. ~Asking /\ (MMC => card.kind = "MMC")
    <2>1. Plain(work)
      BY <1>2 DEF Plain, I
    <2> QED BY <1>0, <2>1, PlainWas DEF Always
  <1> QED BY <1>0, <1>4, <1>5, <1>6, <1>7, OnwardParts, PlainStep

LEMMA SetsWidth ==
    ASSUME SdInv, Set_bus_width, UNCHANGED scenario, UNCHANGED readerVars
    PROVE  SdInv'
  <1>0. Point /\ Typed /\ Always /\ work # <<>> /\ Tag = "Set_bus" /\ IsStack(work)
    BY DEF SdInv, Set_bus_width, At, Tag, Point
  <1>1. Locating /\ Known /\ IsSelected
    BY <1>0, PointFinding
  <1>2. On(<<I("Set_bus"), I("TR_Buf_new")>>) /\ Len(work) = 3 /\ work[1] = I("Set_bus") /\ work[2] = I("TR_Buf_new")
        /\ Early /\ Still
    <2>1. ~On(<<I("selected"), I("Set_bus"), I("TR_Buf_new")>>)
      BY <1>0 DEF On, Tag, I
    <2> QED BY <1>1, <2>1 DEF IsSelected, On, Locating
  <1>3. /\ card' = card /\ store' = store /\ rsp' = rsp /\ ctl' = ctl /\ fifo' = fifo
        /\ RCA' = RCA /\ MMC' = MMC /\ block' = block
        /\ rd_cnt' = rd_cnt /\ Rx' = Rx /\ Data_buffer' = Data_buffer /\ asked' = asked /\ j' = j
        /\ wt_cnt' = wt_cnt /\ tx' = tx
        /\ faults' = faults /\ dataFaults' = dataFaults /\ operations' = operations
    BY DEF Set_bus_width, busVars, countVars, readVars, writeVars
  <1>4. MMC \in BOOLEAN /\ (MMC <=> card.kind = "MMC") /\ card.st = "tran" /\ RCA = card.rca /\ (MMC => ~card.wide)
    BY <1>0, <1>1 DEF IsSelected, Known, Typed, Always
  <1>5. (Wide' <=> ~MMC) /\ Wide' \in BOOLEAN
    BY <1>4 DEF Set_bus_width
  <1>6. Typed'
    BY <1>0, <1>3, <1>5 DEF Typed
  <1>7. Known' /\ Still'
    BY <1>1, <1>2, <1>3 DEF Known, Still, Quiet, Silent, NoneLeft, Over, Calm, Exact, MmcTests
  <1>8. ASSUME MMC PROVE Point' /\ Plain(work') /\ Bottom' = Bottom
    <2>0. Goes(<<>>)
      BY <1>8 DEF Set_bus_width
    <2>1. /\ IsStack(work') /\ work' # <<>> /\ Len(work') = 2 /\ work'[1] = work[2] /\ Bottom' = Bottom
      BY <1>0, <1>2, <2>0, Popped
    <2>2. On(<<I("TR_Buf_new")>>)'
      BY <1>2, <2>1 DEF On
    <2>3. Agreed'
      <3>1. card'.wide \in BOOLEAN /\ ~card'.wide /\ ~Wide'
        BY <1>0, <1>3, <1>4, <1>5, <1>8, CardTypes DEF CardSet
      <3>2. card'.wide = Wide'
        BY <1>5, <3>1
      <3> QED BY <1>3, <1>4, <3>2 DEF Agreed, Selected
    <2>4. IsReady' /\ Early'
      BY <1>2, <2>1, <2>2, <2>3 DEF IsReady, Early
    <2>5. Plain(work')
      BY <1>2, <2>1 DEF Plain, I
    <2> QED BY <1>7, <2>1, <2>4, <2>5 DEF Point, Locating
  <1>9. ASSUME ~MMC PROVE Point' /\ Plain(work') /\ Bottom' = Bottom
    <2>0. Goes(<<Once(55), I("SetBus")>>)
      BY <1>9 DEF Set_bus_width
    <2>1. /\ IsStack(work') /\ work' # <<>> /\ Len(work') = 4 /\ work'[1] = Once(55) /\ work'[2] = I("SetBus") /\ Bottom' = Bottom
          /\ work'[2 + 1] = work[2]
      BY <1>0, <1>2, <2>0, Goes2
    <2>2. On(<<Once(55), I("SetBus"), I("TR_Buf_new")>>)'
      BY <1>2, <2>1 DEF On
    <2>3. SetsBus' /\ Early'
      BY <1>2, <1>3, <1>4, <1>5, <1>9, <2>1, <2>2 DEF SetsBus, Early
    <2>4. Plain(work')
      BY <2>1 DEF Plain, Once
    <2> QED BY <1>7, <2>1, <2>3, <2>4 DEF Point, Locating
  <1>10. ~Asking
    <2>1. Plain(work)
      BY <1>2 DEF Plain, I
    <2> QED BY <2>1, PlainWas
  <1> QED BY <1>3, <1>4, <1>6, <1>8, <1>9, <1>10, PlainStep

LEMMA SetsBusOfCard ==
    ASSUME SdInv, ACMD6, UNCHANGED scenario, UNCHANGED readerVars
    PROVE  SdInv'
  <1>0. Point /\ Typed /\ Always /\ work # <<>> /\ Tag = "SetBus" /\ IsStack(work) /\ DataKept
    BY DEF SdInv, ACMD6, At, Tag, Point, DataKept, DataIdle
  <1> DEFINE arg == IF Wide THEN 1 ELSE 0
  <1>1. Locating /\ Known /\ SetsBus
    BY <1>0, PointFinding
  <1>2. On(<<I("SetBus"), I("TR_Buf_new")>>) /\ Len(work) = 3 /\ work[1] = I("SetBus") /\ work[2] = I("TR_Buf_new")
        /\ Early /\ Still
    <2>1. ~On(<<Once(55), I("SetBus"), I("TR_Buf_new")>>)
      BY <1>0 DEF On, Tag, Once
    <2> QED BY <1>1, <2>1 DEF SetsBus, On, Locating
  <1>3. PICK o \in Chk_CMDend(6, arg) : /\ card' = o.card /\ rsp' = o.rsp /\ faults' = o.faults
                                        /\ IF o.end THEN Goes(<<>>) ELSE Goes(<<Once(55), I("SetBus")>>)
    BY DEF ACMD6, Exchange
  <1>4. arg \in {0, 1} /\ arg \in Int /\ arg = 1 /\ 6 \in DoneCommands
    BY <1>1 DEF SetsBus, DoneCommands
  <1>5. card' \in CardSet /\ card'.kind = card.kind /\ rsp' \in RspSet /\ faults' \in 0..scenario.faults
    BY <1>0, <1>3, <1>4, OutcomeTyped
  <1>6. /\ card'.st = card.st /\ card'.rca = card.rca /\ card'.index = card.index /\ card'.multi = card.multi
        /\ card'.wide # card.wide => card.kind # "MMC"
        /\ o.end /\ card.kind = "SD" => card'.wide = (arg = 1)
    BY <1>0, <1>3, <1>4, EffectSetBus
  <1>7. Typed'
    BY <1>0, <1>5, KeptParts DEF Typed, RspSet
  <1>8. /\ Known' /\ Still' /\ ~MMC' /\ Wide' /\ card'.st = "tran" /\ RCA' = card'.rca
        /\ MMC \in BOOLEAN /\ Wide \in BOOLEAN /\ card.kind \in {"SD", "SDHS"}
    <2>1. Known' /\ Still'
      BY <1>0, <1>1, <1>2, <1>5, <1>6, KeptParts DEF Known, Still, Quiet, Silent, NoneLeft, Over
    <2>2. card.kind \in {"none", "SD", "SDHS", "MMC"}
      BY <1>0, CardTypes DEF CardSet
    <2> QED BY <1>0, <1>1, <1>6, <2>1, <2>2, KeptParts DEF SetsBus, Known, Typed
  <1>9. ASSUME o.end PROVE Point' /\ Plain(work') /\ Bottom' = Bottom
    <2>1. /\ IsStack(work') /\ work' # <<>> /\ Len(work') = 2 /\ work'[1] = work[2] /\ Bottom' = Bottom
      BY <1>0, <1>2, <1>3, <1>9, Popped
    <2>2. On(<<I("TR_Buf_new")>>)'
      BY <1>0, <1>2, <2>1, KeptParts DEF On
    <2>3. Agreed'
      <3>1. card.kind = "SD" => card'.wide = TRUE
        BY <1>4, <1>6, <1>9
      <3>2. Wide' = TRUE
        BY <1>0, <1>8, KeptParts
      <3> QED BY <1>5, <1>8, <3>1, <3>2 DEF Agreed, Selected
    <2>4. IsReady' /\ Early'
      BY <1>2, <2>1, <2>2, <2>3 DEF IsReady, Early
    <2>5. Plain(work')
      BY <1>2, <2>1 DEF Plain, I
    <2> QED BY <1>8, <2>1, <2>4, <2>5 DEF Point, Locating
  <1>10. ASSUME ~o.end PROVE Point' /\ Plain(work') /\ Bottom' = Bottom
    <2>1. /\ IsStack(work') /\ work' # <<>> /\ Len(work') = 4 /\ work'[1] = Once(55) /\ work'[2] = I("SetBus") /\ Bottom' = Bottom
          /\ work'[2 + 1] = work[2]
      BY <1>0, <1>2, <1>3, <1>10, Goes2
    <2>2. On(<<Once(55), I("SetBus"), I("TR_Buf_new")>>)'
      BY <1>0, <1>2, <2>1, KeptParts DEF On
    <2>3. SetsBus' /\ Early'
      BY <1>2, <1>8, <2>1, <2>2 DEF SetsBus, Early
    <2>4. Plain(work')
      BY <2>1 DEF Plain, Once
    <2> QED BY <1>8, <2>1, <2>3, <2>4 DEF Point, Locating
  <1>11. ~Asking
    <2>1. Plain(work)
      BY <1>2 DEF Plain, I
    <2> QED BY <2>1, PlainWas
  <1>12. (card'.wide => card.wide \/ card.kind # "MMC") /\ (MMC' => card.kind = "MMC")
    BY <1>8
  <1> HIDE DEF arg
  <1> QED BY <1>0, <1>5, <1>7, <1>9, <1>10, <1>11, <1>12, KeptParts, PlainStep

LEMMA Flushing ==
    ASSUME SdInv, Flush_Rx_buf, UNCHANGED scenario, UNCHANGED readerVars
    PROVE  SdInv'
  <1>0. Point /\ Typed /\ Always /\ work # <<>> /\ Tag = "TR_Buf_new" /\ IsStack(work)
    BY DEF SdInv, Flush_Rx_buf, At, Tag, Point
  <1>1. Locating /\ IsReady
    BY <1>0, PointFinding
  <1>2. On(<<I("TR_Buf_new")>>) /\ Len(work) = 2 /\ work[1] = I("TR_Buf_new") /\ Early /\ Still /\ Agreed /\ Bottom = work[2]
    BY <1>1 DEF IsReady, On, Locating, Bottom
  <1>3. /\ card' = card /\ store' = store /\ rsp' = rsp /\ ctl' = ctl /\ fifo' = fifo
        /\ RCA' = RCA /\ MMC' = MMC /\ Wide' = Wide /\ block' = block
        /\ rd_cnt' = rd_cnt /\ Rx' = Blank /\ Data_buffer' = Data_buffer /\ asked' = asked /\ j' = j
        /\ wt_cnt' = wt_cnt /\ tx' = 0
        /\ faults' = faults /\ dataFaults' = dataFaults /\ operations' = operations
    BY DEF Flush_Rx_buf, busVars, countVars, busWidth
  <1>4. Typed'
    <2>1. \A i \in 0..(Words * Blocks - 1) : <<Null, i>> \in WordSet
      BY DEF WordSet, Sectors
    <2>2. Blank \in [0..(Room - 1) -> WordSet]
      BY <2>1 DEF Blank, Room
    <2> QED BY <1>0, <1>3, <2>2 DEF Typed
  <1>5. IsStack(work') /\ work' # <<>> /\ Len(work') = 1 /\ work'[1] = work[2] /\ Bottom' = Bottom
    BY <1>0, <1>2, Popped DEF Flush_Rx_buf
  <1>6. On(<<>>)'
    BY <1>2, <1>3, <1>5 DEF On
  <1>7. Still' /\ Agreed' /\ Early'
    BY <1>2, <1>3, <1>5 DEF Still, Quiet, Silent, NoneLeft, Over, Calm, Exact, MmcTests, Agreed, Early
  <1>8. Point'
    BY <1>5, <1>6, <1>7 DEF Point, Resting
  <1>9. Plain(work') /\ ~Asking
    <2>1. Plain(work)
      BY <1>2 DEF Plain, I
    <2>2. work'[1].op \in BottomOps
      BY <1>2, <1>5 DEF On
    <2>3. Plain(work')
      BY <2>2 DEF Plain, BottomOps
    <2> QED BY <2>1, <2>3, PlainWas
  <1>10. MMC => card.kind = "MMC"
    BY <1>0 DEF Always
  <1> QED BY <1>3, <1>4, <1>5, <1>8, <1>9, <1>10, PlainStep

LEMMA TriesConditions ==
    ASSUME SdInv, Chk_OCR, UNCHANGED scenario, UNCHANGED readerVars
    PROVE  SdInv'
  <1>0. Point /\ Typed /\ Always /\ work # <<>> /\ Tag = "ocr" /\ IsStack(work) /\ Head(work) = work[1]
    BY TopIs DEF SdInv, Chk_OCR, At, Tag, Point
  <1> DEFINE n == work[1].n
             left == work[1].tries - 1
  <1>1. Locating /\ TriesOcr
    BY <1>0, PointFinding
  <1>2. On(<<work[1]>>) /\ n \in {1, 41} /\ Len(work) = 2 /\ work[1].op = "ocr" /\ Early /\ Still /\ RCA = 0 /\ ~MMC
    <2>1. ~On(<<Once(55), work[2]>>)
      BY <1>0 DEF On, Tag, Once
    <2> QED BY <1>0, <1>1, <2>1 DEF TriesOcr, On, Locating, Tag
  <1>3. PICK o \in Chk_CMDend(n, 0) :
            /\ card' = o.card /\ rsp' = o.rsp /\ faults' = o.faults
            /\ IF o.end /\ o.rsp.is = "ocr"
               THEN Goes(<<Cmd(2, 0), I("CMD3"), I("published")>>) /\ MMC' = (n = 1)
               ELSE /\ MMC' = MMC
                    /\ \/ Goes(<<Ocr(1, left)>>) \/ Goes(<<Once(55), Ocr(41, left)>>)
                       \/ Goes(<<Once(55), Ocr(41, OcrTries)>>) \/ Goes(<<>>)
    BY <1>0 DEF Chk_OCR, Exchange, identify
  <1>4. /\ RCA' = RCA /\ Wide' = Wide /\ block' = block /\ store' = store /\ ctl' = ctl /\ fifo' = fifo
        /\ rd_cnt' = rd_cnt /\ Rx' = Rx /\ Data_buffer' = Data_buffer /\ asked' = asked /\ j' = j
        /\ wt_cnt' = wt_cnt /\ tx' = tx /\ dataFaults' = dataFaults /\ operations' = operations
    BY DEF Chk_OCR, DataIdle, readVars, writeVars
  <1>5. n \in DoneCommands /\ n \notin {3, 6} /\ 0 \in Int
    BY <1>2 DEF DoneCommands
  <1> HIDE DEF n, left
  <1>6. card' \in CardSet /\ card'.kind = card.kind /\ rsp' \in RspSet /\ faults' \in 0..scenario.faults
    BY <1>0, <1>3, <1>5, OutcomeTyped
  <1>7. /\ Unmoved(card') \/ MovedTo(card', "ready")
        /\ o.end /\ rsp'.is = "ocr" => card'.st = "ready" /\ card.kind # "none" /\ (n = 1 <=> card.kind = "MMC")
    <2>1. /\ Unmoved(card') \/ MovedTo(card', "ready")
          /\ o.end /\ rsp'.is = "ocr" => MovedTo(card', "ready") /\ card.kind # "none" /\ (n = 1 <=> card.kind = "MMC")
      BY <1>0, <1>2, <1>3, EffectPowerUp
    <2> QED BY <2>1 DEF MovedTo
  <1>8. card'.wide = card.wide /\ Still'
    <2>1. card'.wide = card.wide
      BY <1>7 DEF Unmoved, MovedTo
    <2>2. (card'.st = card.st /\ card'.index = card.index /\ card'.multi = card.multi) \/ card'.st = "ready"
      BY <1>7 DEF Unmoved, MovedTo
    <2>3. (Calm' <=> Calm) /\ (Exact' <=> Exact)
      BY <1>4 DEF Calm, Exact, MmcTests
    <2> QED BY <1>2, <1>4, <2>1, <2>2, <2>3 DEF Still, Quiet, Silent, NoneLeft, Over
  <1>9. MMC' \in BOOLEAN /\ (MMC' => card.kind = "MMC")
    <2>1. CASE o.end /\ o.rsp.is = "ocr"
      BY <1>3, <1>7, <2>1
    <2>2. CASE ~(o.end /\ o.rsp.is = "ocr")
      BY <1>0, <1>2, <1>3, <2>2 DEF Typed
    <2> QED BY <2>1, <2>2
  <1>10. Typed'
    BY <1>0, <1>4, <1>6, <1>9 DEF Typed, RspSet
  <1>11. ASSUME o.end, o.rsp.is = "ocr" PROVE Point' /\ Plain(work') /\ Bottom' = Bottom
    <2>0. Goes(<<Cmd(2, 0), I("CMD3"), I("published")>>) /\ (MMC' <=> n = 1)
      BY <1>3, <1>11
    <2>1. /\ IsStack(work') /\ work' # <<>> /\ Len(work') = 4 /\ Bottom' = Bottom
          /\ work'[1] = Cmd(2, 0) /\ work'[2] = I("CMD3") /\ work'[3] = I("published")
      BY <1>0, <1>2, <2>0, Goes3
    <2>2. On(<<Cmd(2, 0), I("CMD3"), I("published")>>)'
      BY <1>2, <2>1 DEF On
    <2>3. FollowsOcr' /\ Early' /\ Known'
      BY <1>2, <1>3, <1>6, <1>7, <1>11, <2>0, <2>1, <2>2 DEF FollowsOcr, Early, Known
    <2>4. Plain(work')
      BY <2>1 DEF Plain, Cmd
    <2> QED BY <1>8, <2>1, <2>3, <2>4 DEF Point, Locating
  <1>12. ASSUME ~(o.end /\ o.rsp.is = "ocr") PROVE Point' /\ Plain(work') /\ Bottom' = Bottom
    <2>0. RCA' = 0 /\ ~MMC'
      BY <1>2, <1>3, <1>4, <1>12
    <2>1. ASSUME NEW tries, Goes(<<Ocr(1, tries)>>) PROVE Point' /\ Plain(work') /\ Bottom' = Bottom
      <3>1. IsStack(work') /\ work' # <<>> /\ Len(work') = 2 /\ Bottom' = Bottom /\ work'[1] = Ocr(1, tries)
        BY <1>0, <1>2, <2>1, Goes1
      <3>2. On(<<work[1]>>)' /\ At("ocr")' /\ work'[1].n = 1
        BY <1>2, <3>1 DEF On, At, Ocr
      <3>3. TriesOcr' /\ Early'
        BY <1>2, <2>0, <3>1, <3>2 DEF TriesOcr, Early
      <3>4. Plain(work')
        BY <3>1 DEF Plain, Ocr
      <3> QED BY <1>8, <3>1, <3>3, <3>4 DEF Point, Locating
    <2>2. ASSUME NEW tries, Goes(<<Once(55), Ocr(41, tries)>>) PROVE Point' /\ Plain(work') /\ Bottom' = Bottom
      <3>1. IsStack(work') /\ work' # <<>> /\ Len(work') = 3 /\ Bottom' = Bottom /\ work'[1] = Once(55) /\ work'[2] = Ocr(41, tries)
        BY <1>0, <1>2, <2>2, Goes2
      <3>2. On(<<Once(55), work[2]>>)' /\ work'[2].op = "ocr" /\ work'[2].n = 41
        BY <1>2, <3>1 DEF On, Ocr
      <3>3. TriesOcr' /\ Early'
        BY <1>2, <2>0, <3>1, <3>2 DEF TriesOcr, Early
      <3>4. Plain(work')
        BY <3>1 DEF Plain, Once
      <3> QED BY <1>8, <3>1, <3>3, <3>4 DEF Point, Locating
    <2>3. ASSUME Goes(<<>>) PROVE Point' /\ Plain(work') /\ Bottom' = Bottom
      <3>1. IsStack(work') /\ work' # <<>> /\ Len(work') = 1 /\ Bottom' = Bottom /\ work'[1] = Bottom'
        BY <1>0, <1>2, <2>3, Popped DEF Bottom
      <3>2. On(<<>>)' /\ work'[1].op \in BottomOps
        BY <1>2, <3>1 DEF On
      <3>3. Resting'
        BY <1>2, <1>8, <2>0, <3>1, <3>2 DEF Resting, Agreed, Early
      <3>4. Plain(work')
        BY <3>2 DEF Plain, BottomOps
      <3> QED BY <3>1, <3>3, <3>4 DEF Point
    <2> QED BY <1>3, <1>12, <2>1, <2>2, <2>3
  <1>13. ~Asking
    <2>1. Plain(work)
      BY <1>2 DEF Plain
    <2> QED BY <2>1, PlainWas
  <1> QED BY <1>4, <1>6, <1>8, <1>9, <1>10, <1>11, <1>12, <1>13, PlainStep

-----------------------------------------------------------------------------
(* Transfers. *)

LEMMA HostStep ==
    ASSUME SdInv, UNCHANGED scenario, UNCHANGED readerVars, Typed', Point',
           card'.kind = card.kind, card'.wide = card.wide, MMC' = MMC, dataFaults' = dataFaults, operations' = operations,
           ctl'.tmo => ctl.tmo, Listening' => Listening /\ (ctl.tmo => ctl'.tmo),
           ~MmcTests => InPlace(Rx', Words), Calm => InPlace(Data_buffer', Bytes),
           \/ Asking'
           \/ ~Asking /\ Data_buffer' = Data_buffer /\ asked' = asked
           \/ WholeBuffer',
           scenario.operations = 0 => Bottom' = Bottom
    PROVE  SdInv'
  <1>1. Typed /\ ReaderTyped /\ Always
    BY DEF SdInv
  <1>2. ReaderTyped'
    BY <1>1, ReaderKept
  <1>3. (MmcTests' <=> MmcTests) /\ (Calm' <=> Calm)
    BY DEF MmcTests, Calm
  <1>4. Asking' \/ WholeBuffer'
    BY <1>1 DEF Always, WholeBuffer
  <1>5. Always'
    <2>1. (~MmcTests => InPlace(Rx, Words))' /\ (Calm => InPlace(Data_buffer, Bytes))'
      BY <1>3 DEF InPlace
    <2>2. /\ ctl'.tmo => dataFaults' > 0
          /\ card'.kind = "MMC" => ~card'.wide
          /\ MMC' => card'.kind = "MMC"
      BY <1>1 DEF Always
    <2>3. scenario'.operations > 0 /\ ~ctl'.tmo /\ Listening' => dataFaults' < scenario'.dataFaults + operations'
      BY <1>1 DEF Always
    <2> QED BY <1>4, <2>1, <2>2, <2>3 DEF Always
  <1> QED BY <1>2, <1>5 DEF SdInv

LEMMA Joined ==
    ASSUME NEW S, NEW x \in Seq(S), NEW y \in Seq(S), NEW z \in Seq(S), Len(z) = Len(x) + Len(y),
           \A i \in 1..Len(x) : z[i] = x[i], \A i \in 1..Len(y) : z[Len(x) + i] = y[i]
    PROVE  x \o y = z
  <1>1. x \o y \in Seq(S) /\ Len(x \o y) = Len(z) /\ Len(x) \in Nat /\ Len(y) \in Nat /\ Len(z) \in Nat
    OBVIOUS
  <1>2. \A i \in 1..(Len(x) + Len(y)) : (x \o y)[i] = IF i <= Len(x) THEN x[i] ELSE y[i - Len(x)]
    OBVIOUS
  <1>3. ASSUME NEW i \in 1..Len(z) PROVE (x \o y)[i] = z[i]
    <2>1. CASE i <= Len(x)
      BY <1>1, <1>2, <2>1
    <2>2. CASE ~(i <= Len(x))
      <3> DEFINE k == i - Len(x)
      <3>1. k \in 1..Len(y) /\ Len(x) + k = i
        BY <1>1, <2>2
      <3> HIDE DEF k
      <3>2. z[Len(x) + k] = y[k]
        BY <3>1
      <3>3. (x \o y)[i] = y[i - Len(x)]
        BY <1>1, <1>2, <2>2
      <3>4. i - Len(x) = k
        BY <1>1, <3>1
      <3> QED BY <3>1, <3>2, <3>3, <3>4
    <2> QED BY <2>1, <2>2
  <1> QED BY <1>1, <1>3

\* Only the flags and the count of the controller, and the program, change.
Flagging == UNCHANGED <<scenario, hostVars, card, store, rsp, fifo, countVars>>

LEMMA FlaggingParts ==
    ASSUME Flagging
    PROVE  /\ scenario' = scenario /\ card' = card /\ store' = store /\ rsp' = rsp /\ fifo' = fifo
           /\ RCA' = RCA /\ MMC' = MMC /\ Wide' = Wide /\ block' = block
           /\ rd_cnt' = rd_cnt /\ Rx' = Rx /\ Data_buffer' = Data_buffer /\ asked' = asked /\ j' = j
           /\ wt_cnt' = wt_cnt /\ tx' = tx /\ Total' = Total /\ Origin' = Origin
           /\ faults' = faults /\ dataFaults' = dataFaults /\ operations' = operations
           /\ (Typed /\ ctl' \in CtlSet => Typed') /\ (Agreed => Agreed') /\ (Silent => Silent') /\ (Over => Over')
           /\ (AllStored => AllStored')
           /\ (Calm' <=> Calm) /\ (Exact' <=> Exact)
  <1>1. /\ scenario' = scenario /\ card' = card /\ store' = store /\ rsp' = rsp /\ fifo' = fifo
        /\ RCA' = RCA /\ MMC' = MMC /\ Wide' = Wide /\ block' = block
        /\ rd_cnt' = rd_cnt /\ Rx' = Rx /\ Data_buffer' = Data_buffer /\ asked' = asked /\ j' = j
        /\ wt_cnt' = wt_cnt /\ tx' = tx
        /\ faults' = faults /\ dataFaults' = dataFaults /\ operations' = operations
    BY DEF Flagging, hostVars, countVars, busWidth, readVars, writeVars
  <1>2. Typed /\ ctl' \in CtlSet => Typed'
    BY <1>1 DEF Typed
  <1>3. Total' = Total /\ Origin' = Origin
    BY <1>1 DEF Total, Origin
  <1>4. (Silent => Silent') /\ (Over => Over') /\ (Agreed => Agreed') /\ (Calm' <=> Calm) /\ (Exact' <=> Exact)
    BY <1>1 DEF Silent, Over, Agreed, Calm, Exact, MmcTests
  <1>5. AllStored => AllStored'
    BY <1>1 DEF AllStored, Stored, Origin, Before
  <1> QED BY <1>1, <1>2, <1>3, <1>4, <1>5

LEMMA FlaggingStep ==
    ASSUME SdInv, Flagging, UNCHANGED readerVars, ctl' \in CtlSet, ctl'.tmo => ctl.tmo, Point', ~Asking,
           Listening' => Listening /\ (ctl.tmo => ctl'.tmo), scenario.operations = 0 => Bottom' = Bottom
    PROVE  SdInv'
  <1>1. Typed /\ Always
    BY DEF SdInv
  <1>2. (~MmcTests => InPlace(Rx', Words)) /\ (Calm => InPlace(Data_buffer', Bytes))
    BY <1>1, FlaggingParts DEF Always
  <1> QED BY <1>1, <1>2, FlaggingParts, HostStep

LEMMA PlainWorks ==
    ASSUME IsStack(work'), Plain(work), Plain(work')
    PROVE  ~Asking /\ ~Asking' /\ (Listening' => Listening /\ (ctl.tmo => ctl'.tmo))
  BY PlainIs, PlainWas

LEMMA FlagsOff ==
    ASSUME NEW c \in CtlSet, NEW d, d = [c EXCEPT !.fin = FALSE, !.tmo = FALSE]
    PROVE  d \in CtlSet /\ d.left = c.left /\ ~d.fin /\ ~d.tmo
  <1> DEFINE off == FALSE
  <1>1. off \in BOOLEAN /\ ~off /\ d = [c EXCEPT !.fin = off, !.tmo = off]
    OBVIOUS
  <1> HIDE DEF off
  <1>2. d \in CtlSet
    BY <1>1 DEF CtlSet
  <1>3. d.left = c.left
    BY <1>1 DEF CtlSet
  <1>4. (d.fin <=> off) /\ (d.tmo <=> off)
    BY <1>1 DEF CtlSet
  <1> QED BY <1>1, <1>2, <1>3, <1>4

LEMMA FinOff ==
    ASSUME NEW c \in CtlSet, NEW d, d = [c EXCEPT !.fin = FALSE]
    PROVE  d \in CtlSet /\ d.left = c.left /\ ~d.fin /\ (d.tmo <=> c.tmo)
  <1> DEFINE off == FALSE
  <1>1. off \in BOOLEAN /\ ~off /\ d = [c EXCEPT !.fin = off]
    OBVIOUS
  <1> HIDE DEF off
  <1>2. d \in CtlSet
    BY <1>1 DEF CtlSet
  <1>3. d.left = c.left
    BY <1>1 DEF CtlSet
  <1>4. (d.fin <=> off) /\ (d.tmo <=> c.tmo)
    BY <1>1 DEF CtlSet
  <1> QED BY <1>1, <1>2, <1>3, <1>4

LEMMA TmoOff ==
    ASSUME NEW c \in CtlSet, NEW d, d = [c EXCEPT !.tmo = FALSE]
    PROVE  d \in CtlSet /\ d.left = c.left /\ (d.fin <=> c.fin) /\ ~d.tmo
  <1> DEFINE off == FALSE
  <1>1. off \in BOOLEAN /\ ~off /\ d = [c EXCEPT !.tmo = off]
    OBVIOUS
  <1> HIDE DEF off
  <1>2. d \in CtlSet
    BY <1>1 DEF CtlSet
  <1>3. d.left = c.left
    BY <1>1 DEF CtlSet
  <1>4. (d.tmo <=> off) /\ (d.fin <=> c.fin)
    BY <1>1 DEF CtlSet
  <1> QED BY <1>1, <1>2, <1>3, <1>4

LEMMA BusyOff ==
    ASSUME NEW c \in CtlSet, NEW d, d = [c EXCEPT !.busy = FALSE, !.tmo = FALSE]
    PROVE  d \in CtlSet /\ d.left = c.left /\ (d.fin <=> c.fin) /\ ~d.tmo
  <1> DEFINE off == FALSE
  <1>1. off \in BOOLEAN /\ ~off /\ d = [c EXCEPT !.busy = off, !.tmo = off]
    OBVIOUS
  <1> HIDE DEF off
  <1>2. d \in CtlSet
    BY <1>1 DEF CtlSet
  <1>3. d.left = c.left
    BY <1>1 DEF CtlSet
  <1>4. (d.tmo <=> off) /\ (d.fin <=> c.fin)
    BY <1>1 DEF CtlSet
  <1> QED BY <1>1, <1>2, <1>3, <1>4

LEMMA AllOff ==
    ASSUME NEW c \in CtlSet, NEW d, d = [c EXCEPT !.fin = FALSE, !.tmo = FALSE, !.busy = FALSE]
    PROVE  d \in CtlSet /\ d.left = c.left /\ ~d.fin /\ ~d.tmo
  <1> DEFINE off == FALSE
  <1>1. off \in BOOLEAN /\ ~off /\ d = [c EXCEPT !.fin = off, !.tmo = off, !.busy = off]
    OBVIOUS
  <1> HIDE DEF off
  <1>2. d \in CtlSet
    BY <1>1 DEF CtlSet
  <1>3. d.left = c.left
    BY <1>1 DEF CtlSet
  <1>4. (d.fin <=> off) /\ (d.tmo <=> off)
    BY <1>1 DEF CtlSet
  <1> QED BY <1>1, <1>2, <1>3, <1>4

LEMMA BeginsRead ==
    ASSUME SdInv, Rd_Block, UNCHANGED scenario, UNCHANGED readerVars
    PROVE  SdInv'
  <1>0. Point /\ Typed /\ Always /\ work # <<>> /\ Tag = "Rd_Block" /\ IsStack(work) /\ Head(work) = work[1]
    BY TopIs DEF SdInv, Rd_Block, At, Tag, Point
  <1>1. Transferring /\ StartsRead
    BY <1>0, PointTransferring
  <1>2. On(<<work[1]>>) /\ Len(work) = 2 /\ work[1].sector \in Int /\ Still /\ block >= 1 /\ Agreed
    BY <1>1 DEF StartsRead, On, Transferring
  <1> DEFINE n == IF block < 2 THEN 17 ELSE 18
             c == Cmd(n, work[1].sector)
  <1>3. /\ card' = card /\ store' = store /\ rsp' = rsp /\ fifo' = <<>> /\ ctl' = [ctl EXCEPT !.left = Total]
        /\ RCA' = RCA /\ MMC' = MMC /\ Wide' = Wide /\ block' = block
        /\ rd_cnt' = 0 /\ Rx' = Rx /\ Data_buffer' = Data_buffer /\ asked' = work[1].sector /\ j' = j
        /\ wt_cnt' = wt_cnt /\ tx' = tx
        /\ faults' = faults /\ dataFaults' = dataFaults /\ operations' = operations
    BY <1>0 DEF Rd_Block, busWidth, writeVars, countVars, Arms, Total
  <1>4. ctl' \in CtlSet /\ ctl'.left = Total /\ (ctl'.fin <=> ctl.fin) /\ (ctl'.tmo <=> ctl.tmo) /\ Total' = Total /\ Total \in 0..Room
    <2>1. ctl \in CtlSet /\ Total \in 0..Room
      BY <1>0, CtlTypes, TotalSize
    <2>2. Total' = Total
      BY <1>3 DEF Total
    <2> QED BY <1>3, <2>1, <2>2, CtlCounted
  <1>5. Typed'
    <2>1. fifo' \in Seq(WordSet) /\ Len(fifo') <= FifoDepth /\ rd_cnt' \in 0..Room /\ asked' \in Sectors
      BY <1>0, <1>2, <1>3, Sizes, CtlTypes DEF Sectors
    <2> QED BY <1>0, <1>3, <1>4, <2>1 DEF Typed
  <1>6. /\ IsStack(work') /\ work' # <<>> /\ Len(work') = 3 /\ Bottom' = Bottom /\ work'[1] = c /\ work'[2] = I("receive")
    <2>1. Goes(<<c, I("receive")>>)
      BY <1>0 DEF Rd_Block
    <2> HIDE DEF c
    <2> QED BY <1>0, <1>2, <2>1, Goes2
  <1>7. On(<<Cmd(IF block < 2 THEN 17 ELSE 18, asked), I("receive")>>)'
    BY <1>2, <1>3, <1>6 DEF On
  <1>8. (Calm' <=> Calm) /\ (Exact' <=> Exact)
    BY <1>3 DEF Calm, Exact, MmcTests
  <1>9. Calm' => ~ctl'.tmo /\ NotStarted'
    <2> HAVE Calm'
    <2>1. ~ctl.tmo /\ Silent
      BY <1>2, <1>8 DEF Still, Quiet
    <2>2. Silent'
      BY <1>3, <2>1 DEF Silent
    <2> QED BY <1>3, <1>4, <2>1, <2>2 DEF NotStarted
  <1>10. Exact' => card'.st # "rcv" /\ FinIsOver'
    BY <1>2, <1>3, <1>4, <1>8 DEF Still, NoneLeft, FinIsOver
  <1>11. SendsRead'
    BY <1>2, <1>3, <1>7, <1>9, <1>10 DEF SendsRead
  <1>12. Agreed' /\ block' >= 1
    BY <1>2, <1>3 DEF Agreed
  <1>13. Point'
    BY <1>6, <1>11, <1>12 DEF Point, Transferring, Reading
  <1>14. Listening /\ Asking'
    <2>1. At("cmd")' /\ work'[1].n \in {17, 18}
      BY <1>6 DEF At, Cmd
    <2>2. Head(work') = work'[1]
      BY <1>6
    <2> QED BY <1>0, <2>1, <2>2 DEF Listening, Asking, At, Tag
  <1>15. (~MmcTests => InPlace(Rx', Words)) /\ (Calm => InPlace(Data_buffer', Bytes))
    BY <1>0, <1>3 DEF Always
  <1> HIDE DEF n, c
  <1> QED BY <1>3, <1>4, <1>5, <1>6, <1>13, <1>14, <1>15, HostStep

LEMMA AwaitsData ==
    ASSUME SdInv, Chk_DATend, UNCHANGED scenario, UNCHANGED readerVars
    PROVE  SdInv'
  <1>0. Point /\ Typed /\ Always /\ work # <<>> /\ Tag = "Chk_DATend" /\ IsStack(work) /\ Flagging
    BY DEF SdInv, Chk_DATend, At, Tag, Point, Flagging
  <1>1. Transferring /\ (AwaitsEnd \/ AwaitsWritten)
    BY <1>0, PointTransferring
  <1>2. (ctl.fin \/ ctl.tmo) /\ Goes(<<>>) /\ ctl' = IF ctl.tmo THEN [ctl EXCEPT !.fin = FALSE, !.tmo = FALSE] ELSE ctl
    BY DEF Chk_DATend
  <1>3. ctl' \in CtlSet /\ ctl'.left = ctl.left /\ ~ctl'.tmo
    <2>1. ctl \in CtlSet
      BY <1>0, CtlTypes
    <2>2. CASE ctl.tmo
      BY <1>2, <2>1, <2>2, FlagsOff
    <2>3. CASE ~ctl.tmo
      BY <1>2, <2>1, <2>3
    <2> QED BY <2>2, <2>3
  <1>4. Exact => ctl.fin /\ ctl' = ctl
    <2>1. Exact => ~ctl.tmo
      BY <1>0, FaultTypes DEF Exact, Always
    <2> QED BY <1>2, <2>1
  <1>5. /\ (Agreed => Agreed') /\ (Silent => Silent') /\ (Over => Over') /\ (AllStored => AllStored') /\ (Calm' <=> Calm)
        /\ (Exact' <=> Exact) /\ block' = block /\ Total' = Total /\ wt_cnt' = wt_cnt /\ scenario' = scenario /\ card' = card
    BY <1>0, FlaggingParts
  <1>6. work[1] = I("Chk_DATend") /\ work[2] = I("DATclear") /\ Len(work) >= 3
    BY <1>1 DEF AwaitsEnd, AwaitsWritten, On
  <1>7. IsStack(work') /\ work' # <<>> /\ Bottom' = Bottom /\ PoppedStack /\ work'[1] = I("DATclear")
    BY <1>0, <1>2, <1>6, Popped DEF PoppedStack
  <1>8. AwaitsEnd => ClearsEnd'
    <2> HAVE AwaitsEnd
    <2>1. CASE block < 2
      <3>1. On(<<I("Chk_DATend"), I("DATclear")>>)
        BY <2>1 DEF AwaitsEnd
      <3>2. On(<<I("DATclear")>>)'
        BY <1>5, <1>7, <3>1 DEF On, PoppedStack
      <3> QED BY <1>3, <1>4, <1>5, <2>1, <3>2 DEF AwaitsEnd, ClearsEnd, FinIsOver
    <2>2. CASE ~(block < 2)
      <3>1. On(<<I("Chk_DATend"), I("DATclear"), Cmd(12, 0)>>)
        BY <2>2 DEF AwaitsEnd
      <3>2. On(<<I("DATclear"), Cmd(12, 0)>>)'
        BY <1>5, <1>7, <3>1 DEF On, PoppedStack
      <3> QED BY <1>3, <1>4, <1>5, <2>2, <3>2 DEF AwaitsEnd, ClearsEnd, FinIsOver
    <2> QED BY <2>1, <2>2
  <1>9. AwaitsWritten => ClearsWritten'
    <2> HAVE AwaitsWritten
    <2>1. Quiet'
      BY <1>3, <1>5 DEF AwaitsWritten, Quiet
    <2>2. Exact' => HasTaken' /\ wt_cnt' = Total'
      <3> HAVE Exact'
      <3>1. HasTaken /\ wt_cnt = Total
        BY <1>4, <1>5 DEF AwaitsWritten, Accounts, Takes
      <3> QED BY <1>3, <1>5, <3>1 DEF HasTaken
    <2>3. CASE block < 2
      <3>1. On(<<I("Chk_DATend"), I("DATclear"), I("written")>>)
        BY <2>3 DEF AwaitsWritten
      <3>2. On(<<I("DATclear"), I("written")>>)'
        BY <1>5, <1>7, <3>1 DEF On, PoppedStack
      <3> QED BY <1>5, <2>1, <2>2, <2>3, <3>2 DEF ClearsWritten
    <2>4. CASE ~(block < 2)
      <3>1. On(<<I("Chk_DATend"), I("DATclear"), Cmd(12, 0), I("Chk_BUSYend"), I("written")>>)
        BY <2>4 DEF AwaitsWritten
      <3>2. On(<<I("DATclear"), Cmd(12, 0), I("Chk_BUSYend"), I("written")>>)'
        BY <1>5, <1>7, <3>1 DEF On, PoppedStack
      <3> QED BY <1>5, <2>1, <2>2, <2>4, <3>2 DEF ClearsWritten
    <2> QED BY <2>3, <2>4
  <1>10. Point'
    BY <1>1, <1>5, <1>7, <1>8, <1>9 DEF Point, Transferring, Reading, Writing
  <1>11. ~Asking /\ (Listening' => Listening /\ (ctl.tmo => ctl'.tmo))
    <2>1. Plain(work) /\ Plain(work')
      BY <1>6, <1>7 DEF Plain, I
    <2> QED BY <1>7, <2>1, PlainWorks
  <1> QED BY <1>0, <1>3, <1>7, <1>10, <1>11, FlaggingStep

LEMMA ClearsData ==
    ASSUME SdInv, DATclear, UNCHANGED scenario, UNCHANGED readerVars
    PROVE  SdInv'
  <1>0. Point /\ Typed /\ Always /\ work # <<>> /\ Tag = "DATclear" /\ IsStack(work) /\ Flagging
    BY DEF SdInv, DATclear, At, Tag, Point, Flagging
  <1>1. Transferring /\ (ClearsEnd \/ ClearsWritten)
    BY <1>0, PointTransferring
  <1>2. Goes(<<>>)
    BY DEF DATclear
  <1>3. ctl' \in CtlSet /\ ctl'.left = ctl.left /\ ~ctl'.fin /\ (ctl'.tmo <=> ctl.tmo)
    <2>1. ctl \in CtlSet /\ ctl' = [ctl EXCEPT !.fin = FALSE]
      BY <1>0, CtlTypes DEF DATclear
    <2> QED BY <2>1, FinOff
  <1>5. /\ (Agreed => Agreed') /\ (Silent => Silent') /\ (Over => Over') /\ (AllStored => AllStored') /\ (Calm' <=> Calm)
        /\ (Exact' <=> Exact) /\ block' = block /\ Total' = Total /\ wt_cnt' = wt_cnt /\ scenario' = scenario /\ card' = card
    BY <1>0, FlaggingParts
  <1>6. work[1] = I("DATclear") /\ Len(work) >= 2 /\ (work[2] \in {I("written"), Cmd(12, 0)} \/ work[2].op \in BottomOps)
    BY <1>1 DEF ClearsEnd, ClearsWritten, On, Bottom
  <1>7. IsStack(work') /\ work' # <<>> /\ Bottom' = Bottom /\ PoppedStack /\ work'[1] = work[2]
    BY <1>0, <1>2, <1>6, Popped DEF PoppedStack
  <1>8. (Quiet => Quiet') /\ block' >= 1 /\ Agreed'
    BY <1>1, <1>3, <1>5 DEF Quiet, Transferring
  <1>9. ClearsEnd => Resting' \/ Stops'
    <2> HAVE ClearsEnd
    <2>1. CASE block < 2
      <3>1. On(<<I("DATclear")>>)
        BY <2>1 DEF ClearsEnd
      <3>2. On(<<>>)'
        BY <1>5, <1>7, <3>1 DEF On, PoppedStack
      <3>3. Calm' => ~ctl'.tmo /\ Silent'
        <4> HAVE Calm'
        <4>1. ~ctl.tmo /\ (block >= 2 \/ Silent) /\ block \in Nat
          BY <1>0, <1>5, CountTypes DEF ClearsEnd
        <4> QED BY <1>3, <1>5, <2>1, <4>1
      <3>4. Still'
        BY <1>3, <1>5, <3>3 DEF ClearsEnd, Still, Quiet, NoneLeft
      <3> QED BY <1>8, <3>2, <3>4 DEF Resting
    <2>2. CASE ~(block < 2)
      <3>1. On(<<I("DATclear"), Cmd(12, 0)>>)
        BY <2>2 DEF ClearsEnd
      <3>2. On(<<Cmd(12, 0)>>)'
        BY <1>5, <1>7, <3>1 DEF On, PoppedStack
      <3> QED BY <1>3, <1>5, <3>2 DEF ClearsEnd, Stops
    <2> QED BY <2>1, <2>2
  <1>10. ClearsWritten => Programs' \/ StopsWrite'
    <2> HAVE ClearsWritten
    <2>0. block \in Nat
      BY <1>0, CountTypes
    <2>1. Quiet' /\ (Exact' => HasTaken /\ wt_cnt' = Total')
      BY <1>5, <1>8 DEF ClearsWritten
    <2>2. CASE block < 2
      <3>1. On(<<I("DATclear"), I("written")>>)
        BY <2>2 DEF ClearsWritten
      <3>2. On(<<I("written")>>)'
        BY <1>5, <1>7, <3>1 DEF On, PoppedStack
      <3>3. Exact' => NoneLeft' /\ AllStored'
        <4> HAVE Exact'
        <4>1. card.st # "data" /\ card.st # "rcv" /\ AllStored
          BY <2>0, <2>1, <2>2 DEF HasTaken
        <4> QED BY <1>3, <1>5, <4>1 DEF NoneLeft, Over
      <3> QED BY <2>1, <3>2, <3>3 DEF Programs, Still
    <2>3. CASE ~(block < 2)
      <3>1. On(<<I("DATclear"), Cmd(12, 0), I("Chk_BUSYend"), I("written")>>)
        BY <2>3 DEF ClearsWritten
      <3>2. On(<<Cmd(12, 0), I("Chk_BUSYend"), I("written")>>)'
        BY <1>5, <1>7, <3>1 DEF On, PoppedStack
      <3>3. Exact' => Over' /\ AllStored'
        <4> HAVE Exact'
        <4>1. Over /\ AllStored
          BY <2>1 DEF HasTaken, Over
        <4> QED BY <1>5, <4>1
      <3>4. block' >= 2
        BY <1>5, <2>0, <2>3
      <3> QED BY <1>3, <2>1, <3>2, <3>3, <3>4 DEF StopsWrite
    <2> QED BY <2>2, <2>3
  <1>11. Point'
    BY <1>1, <1>7, <1>8, <1>9, <1>10 DEF Point, Transferring, Reading, Writing
  <1>12. ~Asking /\ (Listening' => Listening /\ (ctl.tmo => ctl'.tmo))
    <2>1. Plain(work) /\ Plain(work')
      BY <1>6, <1>7 DEF Plain, I, Cmd, BottomOps
    <2> QED BY <1>7, <2>1, PlainWorks
  <1> QED BY <1>0, <1>3, <1>7, <1>11, <1>12, FlaggingStep

LEMMA AwaitsProgramming ==
    ASSUME SdInv, Chk_BUSYend, UNCHANGED scenario, UNCHANGED readerVars
    PROVE  SdInv'
  <1>0. Point /\ Typed /\ Always /\ work # <<>> /\ Tag = "Chk_BUSYend" /\ IsStack(work) /\ Flagging
    BY DEF SdInv, Chk_BUSYend, At, Tag, Point, Flagging
  <1>1. Transferring /\ (Programs \/ (Streaming /\ Flushes))
    BY <1>0, PointTransferring
  <1>2. Goes(<<>>)
    BY DEF Chk_BUSYend
  <1>3. ctl' \in CtlSet /\ ctl'.left = ctl.left /\ (ctl'.fin <=> ctl.fin) /\ ~ctl'.tmo
    <2>1. ctl \in CtlSet /\ ctl' = [ctl EXCEPT !.busy = FALSE, !.tmo = FALSE]
      BY <1>0, CtlTypes DEF Chk_BUSYend
    <2> QED BY <2>1, BusyOff
  <1>4. work[1] = I("Chk_BUSYend") /\ Len(work) >= 2 /\ (work[2] = I("written") \/ work[2].op \in BottomOps)
        /\ (\/ Programs /\ On(<<I("Chk_BUSYend"), I("written")>>)
            \/ Flushes /\ On(<<I("Chk_BUSYend")>>))
    <2>1. ~On(<<I("written")>>)
      BY <1>0 DEF On, Tag, I
    <2>2. CASE Programs
      <3>1. On(<<I("Chk_BUSYend"), I("written")>>)
        BY <2>1, <2>2 DEF Programs
      <3> QED BY <2>2, <3>1 DEF On
    <2>3. CASE Flushes
      <3>1. On(<<I("Chk_BUSYend")>>)
        BY <2>3 DEF Flushes
      <3> QED BY <2>3, <3>1 DEF On, Bottom
    <2> QED BY <1>1, <2>2, <2>3
  <1>5. /\ (Agreed => Agreed') /\ (Silent => Silent') /\ (Over => Over') /\ (AllStored => AllStored') /\ (Calm' <=> Calm)
        /\ (Exact' <=> Exact) /\ block' = block /\ Total' = Total /\ wt_cnt' = wt_cnt /\ scenario' = scenario /\ card' = card
    BY <1>0, FlaggingParts
  <1>6. IsStack(work') /\ work' # <<>> /\ Bottom' = Bottom /\ PoppedStack /\ work'[1] = work[2]
    BY <1>0, <1>2, <1>4, Popped DEF PoppedStack
  <1>7. Still' /\ block' >= 1 /\ Agreed'
    BY <1>1, <1>3, <1>5 DEF Programs, Flushes, Still, Quiet, NoneLeft, Transferring
  <1>8. ASSUME Programs, On(<<I("Chk_BUSYend"), I("written")>>) PROVE Point'
    <2>1. On(<<I("written")>>)'
      BY <1>5, <1>6, <1>8 DEF On, PoppedStack
    <2>2. Programs'
      BY <1>5, <1>7, <1>8, <2>1 DEF Programs
    <2> QED BY <1>6, <1>7, <2>2 DEF Point, Transferring, Writing
  <1>9. ASSUME Flushes, On(<<I("Chk_BUSYend")>>) PROVE Point'
    <2>1. On(<<>>)'
      BY <1>5, <1>6, <1>9 DEF On, PoppedStack
    <2> QED BY <1>6, <1>7, <2>1 DEF Point, Resting
  <1>10. ~Asking /\ (Listening' => Listening /\ (ctl.tmo => ctl'.tmo))
    <2>1. Plain(work) /\ Plain(work')
      BY <1>4, <1>6 DEF Plain, I, BottomOps
    <2> QED BY <1>6, <2>1, PlainWorks
  <1> QED BY <1>0, <1>3, <1>4, <1>6, <1>8, <1>9, <1>10, FlaggingStep

LEMMA EndsWrite ==
    ASSUME SdInv, Written, UNCHANGED scenario, UNCHANGED readerVars
    PROVE  SdInv'
  <1>0. Point /\ Typed /\ Always /\ work # <<>> /\ Tag = "written" /\ IsStack(work) /\ Onward /\ Goes(<<>>)
    BY DEF SdInv, Written, At, Tag, Point, Onward
  <1>1. Transferring /\ Programs
    BY <1>0, PointTransferring
  <1>2. On(<<I("written")>>) /\ work[1] = I("written") /\ Len(work) = 2 /\ work[2].op \in BottomOps
    <2>1. ~On(<<I("Chk_BUSYend"), I("written")>>)
      BY <1>0 DEF On, Tag, I
    <2> QED BY <1>1, <2>1 DEF Programs, On, Bottom
  <1>3. IsStack(work') /\ work' # <<>> /\ Bottom' = Bottom /\ Len(work') = 1 /\ work'[1] = work[2]
    BY <1>0, <1>2, Popped
  <1>4. Still' /\ Agreed' /\ block' >= 1
    BY <1>0, <1>1, OnwardParts DEF Programs, Transferring
  <1>5. On(<<>>)'
    BY <1>0, <1>2, <1>3, OnwardParts DEF On
  <1>6. Point'
    BY <1>3, <1>4, <1>5 DEF Point, Resting
  <1>7. Plain(work') /\ ~Asking /\ (MMC => card.kind = "MMC")
    <2>1. Plain(work) /\ Plain(work')
      BY <1>2, <1>3 DEF Plain, I, BottomOps
    <2> QED BY <1>0, <2>1, PlainWas DEF Always
  <1> QED BY <1>0, <1>3, <1>6, <1>7, OnwardParts, PlainStep

LEMMA FourAndTwo ==
    ASSUME NEW a, NEW b, NEW c, NEW d, NEW e, NEW f
    PROVE  <<a, b, c, d>> \o <<e, f>> = <<a, b, c, d, e, f>>
  <1> DEFINE S == {a, b, c, d, e, f}
             x == <<a, b, c, d>>
             y == <<e, f>>
             z == <<a, b, c, d, e, f>>
  <1>1. x \in Seq(S) /\ y \in Seq(S) /\ z \in Seq(S) /\ Len(x) = 4 /\ Len(y) = 2 /\ Len(z) = 6
    OBVIOUS
  <1>2. (\A i \in 1..4 : i = 1 \/ i = 2 \/ i = 3 \/ i = 4) /\ (\A i \in 1..2 : i = 1 \/ i = 2)
    OBVIOUS
  <1>3. /\ x[1] = z[1] /\ x[2] = z[2] /\ x[3] = z[3] /\ x[4] = z[4]
        /\ z[4 + 1] = y[1] /\ z[4 + 2] = y[2]
    OBVIOUS
  <1> HIDE DEF x, y, z, S
  <1>4. \A i \in 1..Len(x) : z[i] = x[i]
    BY <1>1, <1>2, <1>3
  <1>5. \A i \in 1..Len(y) : z[Len(x) + i] = y[i]
    BY <1>1, <1>2, <1>3
  <1>6. Len(z) = Len(x) + Len(y)
    BY <1>1
  <1>7. x \o y = z
    BY <1>1, <1>4, <1>5, <1>6, Joined
  <1> QED BY <1>7 DEF x, y, z

LEMMA FourAndOne ==
    ASSUME NEW a, NEW b, NEW c, NEW d, NEW e
    PROVE  <<a, b, c, d>> \o <<e>> = <<a, b, c, d, e>> /\ <<a, b, c, d>> \o <<>> = <<a, b, c, d>>
  <1> DEFINE S == {a, b, c, d, e}
             x == <<a, b, c, d>>
             y == <<e>>
             z == <<a, b, c, d, e>>
  <1>1. x \in Seq(S) /\ y \in Seq(S) /\ z \in Seq(S) /\ Len(x) = 4 /\ Len(y) = 1 /\ Len(z) = 5
    OBVIOUS
  <1>2. (\A i \in 1..4 : i = 1 \/ i = 2 \/ i = 3 \/ i = 4) /\ (\A i \in 1..1 : i = 1)
    OBVIOUS
  <1>3. x[1] = z[1] /\ x[2] = z[2] /\ x[3] = z[3] /\ x[4] = z[4] /\ z[4 + 1] = y[1]
    OBVIOUS
  <1> HIDE DEF x, y, z, S
  <1>4. \A i \in 1..Len(x) : z[i] = x[i]
    BY <1>1, <1>2, <1>3
  <1>5. \A i \in 1..Len(y) : z[Len(x) + i] = y[i]
    BY <1>1, <1>2, <1>3
  <1>6. Len(z) = Len(x) + Len(y)
    BY <1>1
  <1>7. x \o y = z
    BY <1>1, <1>4, <1>5, <1>6, Joined
  <1>8. x \o <<>> = x
    BY <1>1
  <1> QED BY <1>7, <1>8 DEF x, y, z

LEMMA SixAndOne ==
    ASSUME NEW a, NEW b, NEW c, NEW d, NEW e, NEW f, NEW g
    PROVE  <<a, b, c, d, e, f>> \o <<g>> = <<a, b, c, d, e, f, g>>
  <1> DEFINE S == {a, b, c, d, e, f, g}
             x == <<a, b, c, d, e, f>>
             y == <<g>>
             z == <<a, b, c, d, e, f, g>>
  <1>1. x \in Seq(S) /\ y \in Seq(S) /\ z \in Seq(S) /\ Len(x) = 6 /\ Len(y) = 1 /\ Len(z) = 7
    OBVIOUS
  <1>2. (\A i \in 1..6 : i = 1 \/ i = 2 \/ i = 3 \/ i = 4 \/ i = 5 \/ i = 6) /\ (\A i \in 1..1 : i = 1)
    OBVIOUS
  <1>3. x[1] = z[1] /\ x[2] = z[2] /\ x[3] = z[3] /\ x[4] = z[4] /\ x[5] = z[5] /\ x[6] = z[6] /\ z[6 + 1] = y[1]
    OBVIOUS
  <1> HIDE DEF x, y, z, S
  <1>4. \A i \in 1..Len(x) : z[i] = x[i]
    BY <1>1, <1>2, <1>3
  <1>5. \A i \in 1..Len(y) : z[Len(x) + i] = y[i]
    BY <1>1, <1>2, <1>3
  <1>6. Len(z) = Len(x) + Len(y)
    BY <1>1
  <1>7. x \o y = z
    BY <1>1, <1>4, <1>5, <1>6, Joined
  <1> QED BY <1>7 DEF x, y, z

LEMMA BeginsWrite ==
    ASSUME SdInv, Wt_Block, UNCHANGED scenario, UNCHANGED readerVars
    PROVE  SdInv'
  <1>0. Point /\ Typed /\ Always /\ work # <<>> /\ Tag = "Wt_Block" /\ IsStack(work)
    BY DEF SdInv, Wt_Block, At, Tag, Point
  <1>1. Transferring /\ StartsWrite
    BY <1>0, PointTransferring
  <1>2. On(<<I("Wt_Block")>>) /\ Len(work) = 2 /\ work[1] = I("Wt_Block") /\ Still /\ block >= 1 /\ block \in Nat /\ Agreed
    BY <1>0, <1>1, CountTypes DEF StartsWrite, On, Transferring
  <1>3. /\ card' = card /\ store' = store /\ rsp' = rsp /\ fifo' = <<>> /\ ctl' = [ctl EXCEPT !.left = Total]
        /\ RCA' = RCA /\ MMC' = MMC /\ Wide' = Wide /\ block' = block
        /\ rd_cnt' = rd_cnt /\ Rx' = Rx /\ Data_buffer' = Data_buffer /\ asked' = asked /\ j' = j
        /\ wt_cnt' = 0 /\ tx' = tx
        /\ faults' = faults /\ dataFaults' = dataFaults /\ operations' = operations
    BY DEF Wt_Block, busWidth, readVars, countVars, Arms, Total
  <1>4. ctl' \in CtlSet /\ ctl'.left = Total /\ (ctl'.fin <=> ctl.fin) /\ (ctl'.tmo <=> ctl.tmo) /\ Total' = Total /\ Total \in 0..Room
    <2>1. ctl \in CtlSet /\ Total \in 0..Room
      BY <1>0, CtlTypes, TotalSize
    <2>2. Total' = Total
      BY <1>3 DEF Total
    <2> QED BY <1>3, <2>1, <2>2, CtlCounted
  <1>5. Typed'
    <2>1. fifo' \in Seq(WordSet) /\ Len(fifo') <= FifoDepth /\ wt_cnt' \in 0..Room
      BY <1>0, <1>3, Sizes, CtlTypes
    <2> QED BY <1>0, <1>3, <1>4, <2>1 DEF Typed
  <1>6. (Calm' <=> Calm) /\ (Exact' <=> Exact)
    BY <1>3 DEF Calm, Exact, MmcTests
  <1>7. Quiet' /\ (Exact' => NoneLeft')
    BY <1>2, <1>3, <1>4, <1>6 DEF Still, Quiet, NoneLeft, Silent, Over
  <1>8. /\ IsStack(work') /\ work' # <<>> /\ Bottom' = Bottom /\ Plain(work')
        /\ IF block < 2
           THEN On(<<Cmd(24, 1), I("transmit"), I("Chk_DATend"), I("DATclear"), I("written")>>)'
           ELSE On(<<Cmd(25, 1), I("transmit"), I("Chk_DATend"), I("DATclear"), Cmd(12, 0), I("Chk_BUSYend"), I("written")>>)'
    <2>1. CASE block < 2
      <3>1. Goes(<<Cmd(24, 1), I("transmit"), I("Chk_DATend"), I("DATclear"), I("written")>>)
        <4>1. ~(block > 1)
          BY <1>2, <2>1
        <4> QED BY <2>1, <4>1, FourAndOne DEF Wt_Block
      <3>2. /\ IsStack(work') /\ work' # <<>> /\ Len(work') = 6 /\ Bottom' = Bottom
            /\ work'[1] = Cmd(24, 1) /\ work'[2] = I("transmit") /\ work'[3] = I("Chk_DATend") /\ work'[4] = I("DATclear")
            /\ work'[5] = I("written")
        BY <1>0, <1>2, <3>1, Goes5
      <3>3. On(<<Cmd(24, 1), I("transmit"), I("Chk_DATend"), I("DATclear"), I("written")>>)'
        BY <1>2, <3>2 DEF On
      <3> QED BY <2>1, <3>2, <3>3 DEF Plain, Cmd
    <2>2. CASE ~(block < 2)
      <3>1. Goes(<<Cmd(25, 1), I("transmit"), I("Chk_DATend"), I("DATclear"), Cmd(12, 0), I("Chk_BUSYend"), I("written")>>)
        <4>1. block > 1
          BY <1>2, <2>2
        <4>2. <<Cmd(25, 1), I("transmit"), I("Chk_DATend"), I("DATclear")>> \o <<Cmd(12, 0), I("Chk_BUSYend")>>
              = <<Cmd(25, 1), I("transmit"), I("Chk_DATend"), I("DATclear"), Cmd(12, 0), I("Chk_BUSYend")>>
          BY FourAndTwo
        <4>3. <<Cmd(25, 1), I("transmit"), I("Chk_DATend"), I("DATclear"), Cmd(12, 0), I("Chk_BUSYend")>> \o <<I("written")>>
              = <<Cmd(25, 1), I("transmit"), I("Chk_DATend"), I("DATclear"), Cmd(12, 0), I("Chk_BUSYend"), I("written")>>
          BY SixAndOne
        <4> QED BY <2>2, <4>1, <4>2, <4>3, Zenon DEF Wt_Block
      <3>2. /\ IsStack(work') /\ work' # <<>> /\ Len(work') = 8 /\ Bottom' = Bottom
            /\ work'[1] = Cmd(25, 1) /\ work'[2] = I("transmit") /\ work'[3] = I("Chk_DATend") /\ work'[4] = I("DATclear")
            /\ work'[5] = Cmd(12, 0) /\ work'[6] = I("Chk_BUSYend") /\ work'[6 + 1] = I("written")
        BY <1>0, <1>2, <3>1, Goes7
      <3>3. On(<<Cmd(25, 1), I("transmit"), I("Chk_DATend"), I("DATclear"), Cmd(12, 0), I("Chk_BUSYend"), I("written")>>)'
        BY <1>2, <3>2 DEF On
      <3> QED BY <2>2, <3>2, <3>3 DEF Plain, Cmd
    <2> QED BY <2>1, <2>2
  <1>9. SendsWrite'
    <2>1. (block < 2)' <=> block < 2
      BY <1>3
    <2> QED BY <1>3, <1>4, <1>7, <1>8, <2>1 DEF SendsWrite
  <1>10. Agreed' /\ block' >= 1
    BY <1>2, <1>3 DEF Agreed
  <1>11. Point'
    BY <1>8, <1>9, <1>10 DEF Point, Transferring, Writing
  <1>12. ~Asking /\ (MMC => card.kind = "MMC")
    <2>1. Plain(work)
      BY <1>2 DEF Plain, I
    <2> QED BY <1>0, <2>1, PlainWas DEF Always
  <1> QED BY <1>3, <1>4, <1>5, <1>8, <1>11, <1>12, PlainStep

LEMMA ViewsBuffer ==
    ASSUME SdInv, View_Rx_buf, UNCHANGED scenario, UNCHANGED readerVars
    PROVE  SdInv'
  <1>0. Point /\ Typed /\ Always /\ work # <<>> /\ Tag = "View_Rx_buf" /\ IsStack(work) /\ Goes(<<>>)
    BY DEF SdInv, View_Rx_buf, At, Tag, Point
  <1>1. Transferring /\ OtherTests
    BY <1>0, PointTransferring
  <1>2. On(<<I("View_Rx_buf")>>) /\ work[1] = I("View_Rx_buf") /\ Len(work) = 2 /\ work[2].op \in BottomOps /\ Still
    <2>1. ~On(<<I("CMD13")>>) /\ ~On(<<Cmd(28, 0)>>) /\ ~On(<<Cmd(29, 0)>>)
      BY <1>0 DEF On, Tag, I, Cmd
    <2> QED BY <1>1, <2>1 DEF OtherTests, On, Bottom
  <1>3. /\ card' = card /\ store' = store /\ rsp' = rsp /\ ctl' = ctl /\ fifo' = fifo
        /\ RCA' = RCA /\ MMC' = MMC /\ Wide' = Wide /\ block' = block
        /\ rd_cnt' = rd_cnt /\ Rx' = Rx /\ Data_buffer' = Data_buffer /\ asked' = asked /\ j' = j
        /\ wt_cnt' = wt_cnt /\ tx' = 0
        /\ faults' = faults /\ dataFaults' = dataFaults /\ operations' = operations
    BY DEF View_Rx_buf, busWidth, readVars, busVars, countVars
  <1>4. Typed'
    BY <1>0, <1>3 DEF Typed
  <1>5. IsStack(work') /\ work' # <<>> /\ Bottom' = Bottom /\ Len(work') = 1 /\ work'[1] = work[2]
    BY <1>0, <1>2, Popped
  <1>6. Still' /\ Agreed' /\ block' >= 1
    BY <1>1, <1>2, <1>3 DEF Still, Quiet, Silent, NoneLeft, Over, Calm, Exact, MmcTests, Agreed, Transferring
  <1>7. On(<<>>)'
    BY <1>2, <1>3, <1>5 DEF On
  <1>8. Point'
    BY <1>5, <1>6, <1>7 DEF Point, Resting
  <1>9. Plain(work') /\ ~Asking /\ (MMC => card.kind = "MMC")
    <2>1. Plain(work) /\ Plain(work')
      BY <1>2, <1>5 DEF Plain, I, BottomOps
    <2> QED BY <1>0, <2>1, PlainWas DEF Always
  <1> QED BY <1>3, <1>4, <1>5, <1>8, <1>9, PlainStep

LEMMA Deselects ==
    ASSUME SdInv, Card_deselect, UNCHANGED scenario, UNCHANGED readerVars
    PROVE  SdInv'
  <1>0. Point /\ Typed /\ Always /\ work # <<>> /\ Tag = "deselect" /\ IsStack(work) /\ Goes(<<>>)
    BY DEF SdInv, Card_deselect, At, Tag, Point
  <1>1. work = <<I("deselect"), Once(9)>> /\ scenario.operations > 0
    <2>1. Ending
      BY <1>0, PointFinding
    <2>2. work # <<Once(9)>>
      BY <1>0 DEF Tag, Once
    <2> QED BY <1>0, <2>1, <2>2 DEF Ending
  <1>2. Len(work) = 2 /\ work[1] = I("deselect") /\ work[2] = Once(9)
    BY <1>1
  <1>3. /\ card' = [card EXCEPT !.app = FALSE, !.st = IF card.st = "tran" THEN "stby" ELSE card.st]
        /\ store' = store /\ rsp' = rsp /\ ctl' = ctl /\ fifo' = fifo
        /\ RCA' = RCA /\ MMC' = MMC /\ Wide' = Wide /\ block' = block
        /\ rd_cnt' = rd_cnt /\ Rx' = Rx /\ Data_buffer' = Data_buffer /\ asked' = asked /\ j' = j
        /\ wt_cnt' = wt_cnt /\ tx' = tx
        /\ faults' = faults /\ dataFaults' = dataFaults /\ operations' = operations
    BY DEF Card_deselect, hostVars, busWidth, readVars, writeVars, countVars
  <1>4. card' \in CardSet /\ card'.kind = card.kind /\ (card'.wide <=> card.wide)
    <2> DEFINE off == FALSE
               st == IF card.st = "tran" THEN "stby" ELSE card.st
    <2>1. off \in BOOLEAN /\ card \in CardSet /\ st \in CardStates
      BY <1>0, CardTypes DEF CardStates, CardSet
    <2>2. card' = [card EXCEPT !.app = off, !.st = st]
      BY <1>3
    <2> HIDE DEF off, st
    <2>3. card' \in CardSet
      BY <2>1, <2>2 DEF CardSet, CardStates
    <2>4. card'.kind = card.kind
      BY <2>1, <2>2 DEF CardSet
    <2>5. card'.wide <=> card.wide
      BY <2>1, <2>2 DEF CardSet
    <2> QED BY <2>3, <2>4, <2>5
  <1>5. Typed'
    BY <1>0, <1>3, <1>4 DEF Typed
  <1>6. IsStack(work') /\ Len(work') = 1 /\ work'[1] = Once(9) /\ work' # <<>>
    BY <1>0, <1>2, Popped
  <1>7. work' = <<Once(9)>>
    BY <1>6 DEF IsStack
  <1>8. Point'
    BY <1>1, <1>6, <1>7 DEF Point, Ending
  <1>9. Plain(work') /\ ~Asking /\ (MMC => card.kind = "MMC") /\ scenario.operations # 0
    <2>1. Plain(work) /\ Plain(work')
      BY <1>2, <1>6 DEF Plain, I, Once
    <2>2. scenario.operations \in Nat
      BY <1>0, FaultTypes
    <2> QED BY <1>0, <1>1, <2>1, <2>2, PlainWas DEF Always
  <1> QED BY <1>3, <1>4, <1>5, <1>8, <1>9, PlainStep

-----------------------------------------------------------------------------
(* Words and bytes. *)

LEMMA ByteOfByte ==
    ASSUME NEW n \in Nat
    PROVE  4 * (n \div 4) + 3 - (24 - 8 * (n % 4)) \div 8 = n
  <1>1. n = 4 * (n \div 4) + (n % 4) /\ n % 4 \in 0..3 /\ n \div 4 \in Nat
    <2>1. n \div 4 \in Nat
      OBVIOUS
    <2>2. n % 4 \in 0..3
      OBVIOUS
    <2>3. n = 4 * (n \div 4) + (n % 4)
      OBVIOUS
    <2> QED BY <2>1, <2>2, <2>3
  <1> DEFINE m == n % 4
             q == n \div 4
  <1>2. m \in 0..3 /\ q \in Nat /\ n = 4 * q + m
    BY <1>1
  <1> HIDE DEF m, q
  <1>3. (24 - 8 * m) \div 8 = 3 - m
    <2>1. m = 0 \/ m = 1 \/ m = 2 \/ m = 3
      BY <1>2
    <2>2. /\ (24 - 8 * 0) \div 8 = 3 /\ (24 - 8 * 1) \div 8 = 2 /\ (24 - 8 * 2) \div 8 = 1 /\ (24 - 8 * 3) \div 8 = 0
      OBVIOUS
    <2> QED BY <2>1, <2>2
  <1>4. 4 * q + 3 - (24 - 8 * m) \div 8 = n
    BY <1>2, <1>3
  <1> QED BY <1>4 DEF m, q

LEMMA WordOfByte ==
    ASSUME NEW n \in 0..(Bytes - 1)
    PROVE  n \in Nat /\ n \div 4 \in 0..(Words - 1) /\ n \div 4 \in 0..(Room - 1) /\ 24 - 8 * (n % 4) \in Int /\ (24 - 8 * (n % 4)) \div 8 \in Int
  <1>1. n \in Nat /\ n < 4 * Words /\ Words \in Nat
    BY Sizes
  <1>2. n \div 4 \in Nat /\ n \div 4 < Words
    BY <1>1
  <1>3. n % 4 \in 0..3
    BY <1>1
  <1>4. 24 - 8 * (n % 4) \in Int /\ (24 - 8 * (n % 4)) \div 8 \in Int
    BY <1>3
  <1>5. Words <= Room /\ Room \in Nat
    BY Sizes, Times DEF Room
  <1> QED BY <1>1, <1>2, <1>4, <1>5

\* What is copied comes from where it belongs when the words do.
LEMMA CopiedIs ==
    ASSUME Typed
    PROVE  /\ Copied \in [0..(Bytes - 1) -> WordSet]
           /\ InPlace(Rx, Words) => InPlace(Copied, Bytes)
           /\ (\A p \in 0..(Words - 1) : Rx[p] = <<asked, p>>) => \A n \in 0..(Bytes - 1) : Copied[n] = <<asked, n>>
  <1>1. ASSUME NEW n \in 0..(Bytes - 1)
        PROVE  /\ Copied[n] = <<Rx[n \div 4][1], 4 * Rx[n \div 4][2] + 3 - (24 - 8 * (n % 4)) \div 8>>
               /\ Rx[n \div 4] \in WordSet /\ n \div 4 \in 0..(Words - 1)
    BY WordOfByte DEF Copied, ByteOfWord, Typed
  <1>2. Copied \in [0..(Bytes - 1) -> WordSet]
    <2>1. ASSUME NEW n \in 0..(Bytes - 1) PROVE Copied[n] \in WordSet
      <3>1. Rx[n \div 4][1] \in Sectors /\ Rx[n \div 4][2] \in Int
        BY <1>1 DEF WordSet
      <3>2. 4 * Rx[n \div 4][2] + 3 - (24 - 8 * (n % 4)) \div 8 \in Int
        BY <3>1, WordOfByte
      <3> QED BY <1>1, <3>1, <3>2 DEF WordSet
    <2>2. Copied = [n \in 0..(Bytes - 1) |-> Copied[n]]
      BY DEF Copied
    <2> QED BY <2>1, <2>2
  <1>3. ASSUME InPlace(Rx, Words), NEW n \in 0..(Bytes - 1) PROVE Copied[n][2] = n
    <2>1. Rx[n \div 4][2] = n \div 4
      BY <1>1, <1>3 DEF InPlace
    <2>2. Copied[n][2] = 4 * (n \div 4) + 3 - (24 - 8 * (n % 4)) \div 8
      BY <1>1, <2>1
    <2> QED BY <2>2, ByteOfByte, WordOfByte
  <1>4. ASSUME \A p \in 0..(Words - 1) : Rx[p] = <<asked, p>>, NEW n \in 0..(Bytes - 1) PROVE Copied[n] = <<asked, n>>
    <2>1. Rx[n \div 4][1] = asked /\ Rx[n \div 4][2] = n \div 4
      BY <1>1, <1>4
    <2>2. Copied[n] = <<asked, 4 * (n \div 4) + 3 - (24 - 8 * (n % 4)) \div 8>>
      BY <1>1, <2>1
    <2> QED BY <2>2, ByteOfByte, WordOfByte
  <1> QED BY <1>2, <1>3, <1>4 DEF InPlace

-----------------------------------------------------------------------------
(* The loop of Rd_Block. *)

LEMMA OneAndOne == ASSUME NEW a, NEW b PROVE <<a>> \o <<b>> = <<a, b>> /\ <<a>> \o <<>> = <<a>> /\ <<>> \o <<a>> = <<a>>
  <1> DEFINE S == {a, b}
             x == <<a>>
             y == <<b>>
             z == <<a, b>>
  <1>1. x \in Seq(S) /\ y \in Seq(S) /\ z \in Seq(S) /\ Len(x) = 1 /\ Len(y) = 1 /\ Len(z) = 2
    OBVIOUS
  <1>2. (\A i \in 1..1 : i = 1)
    OBVIOUS
  <1>3. x[1] = z[1] /\ z[1 + 1] = y[1]
    OBVIOUS
  <1> HIDE DEF x, y, z, S
  <1>4. \A i \in 1..Len(x) : z[i] = x[i]
    BY <1>1, <1>2, <1>3
  <1>5. \A i \in 1..Len(y) : z[Len(x) + i] = y[i]
    BY <1>1, <1>2, <1>3
  <1>6. Len(z) = Len(x) + Len(y)
    BY <1>1
  <1>7. x \o y = z
    BY <1>1, <1>4, <1>5, <1>6, Joined
  <1>8. x \o <<>> = x /\ <<>> \o x = x
    BY <1>1
  <1> QED BY <1>7, <1>8 DEF x, y, z

LEMMA TwoAndOne == ASSUME NEW a, NEW b, NEW c PROVE <<a, b>> \o <<c>> = <<a, b, c>> /\ <<a, b>> \o <<>> = <<a, b>>
  <1> DEFINE S == {a, b, c}
             x == <<a, b>>
             y == <<c>>
             z == <<a, b, c>>
  <1>1. x \in Seq(S) /\ y \in Seq(S) /\ z \in Seq(S) /\ Len(x) = 2 /\ Len(y) = 1 /\ Len(z) = 3
    OBVIOUS
  <1>2. (\A i \in 1..2 : i = 1 \/ i = 2) /\ (\A i \in 1..1 : i = 1)
    OBVIOUS
  <1>3. x[1] = z[1] /\ x[2] = z[2] /\ z[2 + 1] = y[1]
    OBVIOUS
  <1> HIDE DEF x, y, z, S
  <1>4. \A i \in 1..Len(x) : z[i] = x[i]
    BY <1>1, <1>2, <1>3
  <1>5. \A i \in 1..Len(y) : z[Len(x) + i] = y[i]
    BY <1>1, <1>2, <1>3
  <1>6. Len(z) = Len(x) + Len(y)
    BY <1>1
  <1>7. x \o y = z
    BY <1>1, <1>4, <1>5, <1>6, Joined
  <1>8. x \o <<>> = x
    BY <1>1
  <1> QED BY <1>7, <1>8 DEF x, y, z

LEMMA AfterData ==
    afterData = IF j = 0
                THEN IF block > 1 THEN <<I("Chk_DATend"), I("DATclear"), Cmd(12, 0)>> ELSE <<I("Chk_DATend"), I("DATclear")>>
                ELSE IF block > 1 THEN <<I("DATclear"), Cmd(12, 0)>> ELSE <<I("DATclear")>>
  <1> DEFINE a == I("Chk_DATend")
             b == I("DATclear")
             c == Cmd(12, 0)
  <1>1. afterData = (IF j = 0 THEN <<a>> ELSE <<>>) \o <<b>> \o (IF block > 1 THEN <<c>> ELSE <<>>)
    BY DEF afterData
  <1> HIDE DEF a, b, c
  <1>2. <<a>> \o <<b>> = <<a, b>> /\ <<>> \o <<b>> = <<b>>
    BY OneAndOne
  <1>3. <<b>> \o <<c>> = <<b, c>> /\ <<b>> \o <<>> = <<b>>
    BY OneAndOne
  <1>4. <<a, b>> \o <<>> = <<a, b>> /\ <<a, b>> \o <<c>> = <<a, b, c>>
    BY TwoAndOne
  <1>5. afterData = IF j = 0 THEN IF block > 1 THEN <<a, b, c>> ELSE <<a, b>>
                    ELSE IF block > 1 THEN <<b, c>> ELSE <<b>>
    BY <1>1, <1>2, <1>3, <1>4, Zenon
  <1> QED BY <1>5 DEF a, b, c

\* How the read goes on when its loop is over.
LEMMA ReceiveGoes ==
    ASSUME Point, On(<<I("receive")>>), Goes(afterData), UNCHANGED scenario, block' = block, block \in Nat
    PROVE  /\ IsStack(work') /\ work' # <<>> /\ Bottom' = Bottom /\ Plain(work')
           /\ IF j = 0
              THEN IF block < 2 THEN On(<<I("Chk_DATend"), I("DATclear")>>)'
                   ELSE On(<<I("Chk_DATend"), I("DATclear"), Cmd(12, 0)>>)'
              ELSE IF block < 2 THEN On(<<I("DATclear")>>)' ELSE On(<<I("DATclear"), Cmd(12, 0)>>)'
  <1>0. IsStack(work) /\ work # <<>> /\ Len(work) = 2
    BY DEF Point, On
  <1>1. CASE j = 0 /\ block < 2
    <2>1. Goes(<<I("Chk_DATend"), I("DATclear")>>)
      BY <1>1, AfterData
    <2>2. /\ IsStack(work') /\ work' # <<>> /\ Bottom' = Bottom /\ Len(work') = 3
          /\ work'[1] = I("Chk_DATend") /\ work'[2] = I("DATclear")
      BY <1>0, <2>1, Goes2
    <2>3. On(<<I("Chk_DATend"), I("DATclear")>>)' /\ Plain(work')
      BY <2>2 DEF On, Plain, I
    <2> QED BY <1>1, <2>2, <2>3
  <1>2. CASE j = 0 /\ ~(block < 2)
    <2>1. Goes(<<I("Chk_DATend"), I("DATclear"), Cmd(12, 0)>>)
      BY <1>2, AfterData
    <2>2. /\ IsStack(work') /\ work' # <<>> /\ Bottom' = Bottom /\ Len(work') = 4
          /\ work'[1] = I("Chk_DATend") /\ work'[2] = I("DATclear") /\ work'[3] = Cmd(12, 0)
      BY <1>0, <2>1, Goes3
    <2>3. On(<<I("Chk_DATend"), I("DATclear"), Cmd(12, 0)>>)' /\ Plain(work')
      BY <2>2 DEF On, Plain, I
    <2> QED BY <1>2, <2>2, <2>3
  <1>3. CASE j # 0 /\ block < 2
    <2>1. Goes(<<I("DATclear")>>)
      BY <1>3, AfterData
    <2>2. /\ IsStack(work') /\ work' # <<>> /\ Bottom' = Bottom /\ Len(work') = 2 /\ work'[1] = I("DATclear")
      BY <1>0, <2>1, Goes1
    <2>3. On(<<I("DATclear")>>)' /\ Plain(work')
      BY <2>2 DEF On, Plain, I
    <2> QED BY <1>3, <2>2, <2>3
  <1>4. CASE j # 0 /\ ~(block < 2)
    <2>1. Goes(<<I("DATclear"), Cmd(12, 0)>>)
      BY <1>4, AfterData
    <2>2. /\ IsStack(work') /\ work' # <<>> /\ Bottom' = Bottom /\ Len(work') = 3
          /\ work'[1] = I("DATclear") /\ work'[2] = Cmd(12, 0)
      BY <1>0, <2>1, Goes2
    <2>3. On(<<I("DATclear"), Cmd(12, 0)>>)' /\ Plain(work')
      BY <2>2 DEF On, Plain, I
    <2> QED BY <1>4, <2>2, <2>3
  <1> QED BY <1>1, <1>2, <1>3, <1>4

\* What does not change while the words come.
ReceiveKeeps == UNCHANGED <<scenario, busWidth, block, asked, writeVars, card, store, rsp, countVars>>

LEMMA ReceiveParts ==
    ASSUME ReceiveKeeps
    PROVE  /\ scenario' = scenario /\ card' = card /\ store' = store /\ rsp' = rsp
           /\ RCA' = RCA /\ MMC' = MMC /\ Wide' = Wide /\ block' = block /\ asked' = asked
           /\ wt_cnt' = wt_cnt /\ tx' = tx /\ Total' = Total
           /\ faults' = faults /\ dataFaults' = dataFaults /\ operations' = operations
           /\ (Agreed => Agreed') /\ (Silent => Silent') /\ (Over => Over')
           /\ (Calm' <=> Calm) /\ (MmcTests' <=> MmcTests)
  <1>1. /\ scenario' = scenario /\ card' = card /\ store' = store /\ rsp' = rsp
        /\ RCA' = RCA /\ MMC' = MMC /\ Wide' = Wide /\ block' = block /\ asked' = asked
        /\ wt_cnt' = wt_cnt /\ tx' = tx
        /\ faults' = faults /\ dataFaults' = dataFaults /\ operations' = operations
    BY DEF ReceiveKeeps, busWidth, writeVars, countVars
  <1> QED BY <1>1 DEF Total, Agreed, Silent, Over, Calm, MmcTests

\* The loop is over: the words are copied.
LEMMA ReceiveEnds ==
    ASSUME SdInv, At("receive"), ReceiveKeeps, UNCHANGED readerVars, Goes(afterData), j' = readsCounted, Data_buffer' = Copied,
           UNCHANGED <<rd_cnt, Rx, fifo>>,
           \/ ctl.tmo /\ ctl' = [ctl EXCEPT !.tmo = FALSE]
           \/ ctl' = ctl /\ rd_cnt = Total
    PROVE  SdInv'
  <1>0. Point /\ Typed /\ Always /\ work # <<>> /\ Tag = "receive" /\ IsStack(work)
    BY DEF SdInv, At, Tag, Point
  <1>1. Transferring /\ Receives /\ On(<<I("receive")>>)
    BY <1>0, PointTransferring DEF Receives
  <1>2. /\ scenario' = scenario /\ card' = card /\ store' = store /\ rsp' = rsp /\ MMC' = MMC /\ block' = block /\ asked' = asked
        /\ Total' = Total /\ dataFaults' = dataFaults /\ operations' = operations
        /\ (Agreed => Agreed') /\ (Silent => Silent') /\ (Over => Over') /\ (Calm' <=> Calm) /\ (MmcTests' <=> MmcTests)
    BY ReceiveParts
  <1>3. ctl' \in CtlSet /\ ctl'.left = ctl.left /\ (ctl'.fin <=> ctl.fin) /\ (ctl'.tmo => ctl.tmo) /\ (ctl' = ctl \/ ~ctl'.tmo)
    <2>1. ctl \in CtlSet
      BY <1>0, CtlTypes
    <2> QED BY <2>1, TmoOff
  <1>4. j \in 0..2 /\ j' \in 0..2 /\ (Exact' => j = 0 /\ Exact) /\ dataFaults \in Nat
    <2>1. j \in 0..2 /\ dataFaults \in Nat
      BY <1>0, FaultTypes DEF Typed
    <2>2. j' = IF j = 0 THEN 1 ELSE 2
      BY DEF readsCounted
    <2> QED BY <1>2, <2>1, <2>2 DEF Exact
  <1>5. /\ IsStack(work') /\ work' # <<>> /\ Bottom' = Bottom /\ Plain(work')
        /\ IF j = 0
           THEN IF block < 2 THEN On(<<I("Chk_DATend"), I("DATclear")>>)'
                ELSE On(<<I("Chk_DATend"), I("DATclear"), Cmd(12, 0)>>)'
           ELSE IF block < 2 THEN On(<<I("DATclear")>>)' ELSE On(<<I("DATclear"), Cmd(12, 0)>>)'
    <2>1. block \in Nat
      BY <1>0, CountTypes
    <2> QED BY <1>0, <1>1, <1>2, <2>1, ReceiveGoes
  <1>6. Calm => ~ctl'.tmo /\ (block >= 2 \/ Silent)
    <2> HAVE Calm
    <2>1. CASE ctl.tmo
      <3>1. rd_cnt < Total /\ (block >= 2 \/ Silent)
        BY <1>1, <2>1 DEF Receives
      <3>2. ~ctl'.tmo
        <4>1. rd_cnt # Total
          BY <1>0, <3>1, CountTypes
        <4>2. ctl \in CtlSet /\ ctl' = [ctl EXCEPT !.tmo = FALSE]
          BY <1>0, <4>1, CtlTypes
        <4> QED BY <4>2, TmoOff
      <3> QED BY <3>1, <3>2
    <2>2. CASE ~ctl.tmo
      <3>1. Started /\ rd_cnt = Total
        BY <1>1, <2>2 DEF Receives
      <3>2. ctl.left + Len(fifo) + rd_cnt = Total
        BY <3>1 DEF Started
      <3>3. ~(ctl.left > 0)
        <4>1. ctl.left \in Nat /\ Len(fifo) \in Nat /\ rd_cnt \in Nat
          BY <1>0, CtlTypes, FifoTypes, CountTypes
        <4> QED BY <3>1, <3>2, <4>1
      <3>4. block < 2 /\ card.st = "data" => card.index >= Words /\ ~card.multi
        <4>1. block \in Nat
          BY <1>0, CountTypes
        <4> QED BY <3>1, <3>3, <4>1 DEF Started
      <3>5. block >= 2 \/ block < 2
        BY <1>0, CountTypes
      <3> QED BY <1>3, <2>2, <3>4, <3>5 DEF Silent
    <2> QED BY <2>1, <2>2
  <1>7. Exact' => card'.st # "rcv" /\ FinIsOver'
    BY <1>1, <1>2, <1>3, <1>4 DEF Receives, FinIsOver
  <1>8. AwaitsEnd' \/ ClearsEnd'
    <2>1. (block < 2)' <=> block < 2
      BY <1>2
    <2>2. Calm' => ~ctl'.tmo /\ (block' >= 2 \/ Silent')
      BY <1>2, <1>6
    <2>3. CASE j = 0
      <3>1. IF block < 2 THEN On(<<I("Chk_DATend"), I("DATclear")>>)'
                         ELSE On(<<I("Chk_DATend"), I("DATclear"), Cmd(12, 0)>>)'
        BY <1>5, <2>3
      <3> QED BY <1>7, <2>1, <2>2, <3>1 DEF AwaitsEnd
    <2>4. CASE j # 0
      <3>1. IF block < 2 THEN On(<<I("DATclear")>>)' ELSE On(<<I("DATclear"), Cmd(12, 0)>>)'
        BY <1>5, <2>4
      <3>2. ~Exact'
        BY <1>4, <2>4
      <3> QED BY <2>1, <2>2, <3>1, <3>2 DEF ClearsEnd
    <2> QED BY <2>3, <2>4
  <1>9. Point'
    BY <1>1, <1>2, <1>5, <1>8 DEF Point, Transferring, Reading
  <1>10. Calm /\ ~ctl.tmo => \A p \in 0..(Words - 1) : Rx[p] = <<asked, p>>
    <2> HAVE Calm /\ ~ctl.tmo
    <2>1. Started /\ rd_cnt = Total
      BY <1>1 DEF Receives
    <2>2. \A p \in 0..(Words - 1) : p < rd_cnt
      <3>1. Total >= Words /\ rd_cnt \in Nat /\ Words \in Nat
        BY <1>0, <1>1, TotalSize, CountTypes DEF Transferring
      <3> QED BY <2>1, <3>1
    <2> QED BY <2>1, <2>2 DEF Started
  <1>11. InPlace(Rx, Words) \/ ~Calm
    <2>1. CASE ~MmcTests
      BY <1>0, <2>1 DEF Always
    <2>2. CASE MmcTests /\ Calm
      <3>1. ~ctl.tmo
        BY <1>0, <1>4, <2>2 DEF Calm, Always
      <3> QED BY <1>10, <2>2, <3>1 DEF InPlace
    <2> QED BY <2>1, <2>2
  <1>12. WholeBuffer'
    <2> SUFFICES ASSUME dataFaults' = 0 PROVE \A n \in 0..(Bytes - 1) : Data_buffer'[n] = <<asked', n>>
      BY DEF WholeBuffer
    <2>1. Calm /\ ~ctl.tmo
      BY <1>0, <1>2, <1>4 DEF Calm, Always
    <2>2. \A p \in 0..(Words - 1) : Rx[p] = <<asked, p>>
      BY <1>10, <2>1
    <2>3. \A n \in 0..(Bytes - 1) : Copied[n] = <<asked, n>>
      BY <1>0, <2>2, CopiedIs
    <2> QED BY <1>2, <2>3
  <1>13. Typed'
    <2>1. /\ RCA' = RCA /\ Wide' = Wide /\ wt_cnt' = wt_cnt /\ tx' = tx /\ faults' = faults /\ rd_cnt' = rd_cnt /\ Rx' = Rx
          /\ fifo' = fifo /\ Data_buffer' \in [0..(Bytes - 1) -> WordSet]
      BY <1>0, ReceiveParts, CopiedIs
    <2> QED BY <1>0, <1>2, <1>3, <1>4, <2>1 DEF Typed
  <1>14. ~Listening'
    BY <1>5, PlainIs
  <1>15. (~MmcTests => InPlace(Rx', Words)) /\ (Calm => InPlace(Data_buffer', Bytes))
    BY <1>0, <1>11, CopiedIs DEF Always
  <1> QED BY <1>2, <1>3, <1>5, <1>9, <1>12, <1>13, <1>14, <1>15, HostStep

\* A word out of the FIFO.
LEMMA ReceiveWord ==
    ASSUME SdInv, At("receive"), ReceiveKeeps, UNCHANGED readerVars, rd_cnt < Total, ~ctl.tmo, fifo # <<>>,
           Rx' = [Rx EXCEPT ![rd_cnt] = Head(fifo)], fifo' = Tail(fifo), rd_cnt' = rd_cnt + 1,
           UNCHANGED <<work, ctl, j, Data_buffer>>
    PROVE  SdInv'
  <1>0. Point /\ Typed /\ Always /\ work # <<>> /\ Tag = "receive" /\ IsStack(work) /\ Head(work) = work[1]
    BY TopIs DEF SdInv, At, Tag, Point
  <1>1. Transferring /\ Receives /\ On(<<I("receive")>>)
    BY <1>0, PointTransferring DEF Receives
  <1>2. /\ scenario' = scenario /\ card' = card /\ store' = store /\ rsp' = rsp /\ MMC' = MMC /\ block' = block /\ asked' = asked
        /\ Total' = Total /\ dataFaults' = dataFaults /\ operations' = operations /\ ctl' = ctl /\ j' = j /\ work' = work
        /\ (Agreed => Agreed') /\ (Silent => Silent') /\ (Over => Over') /\ (Calm' <=> Calm) /\ (MmcTests' <=> MmcTests)
    BY ReceiveParts
  <1>3. /\ fifo' \in Seq(WordSet) /\ Len(fifo') = Len(fifo) - 1 /\ Len(fifo) \in Nat /\ Len(fifo) <= FifoDepth /\ FifoDepth \in Nat
        /\ Len(fifo) >= 1 /\ Head(fifo) = fifo[1] /\ fifo[1] \in WordSet
        /\ \A k \in 1..Len(fifo') : fifo'[k] = fifo[k + 1]
    BY <1>0, FifoTypes
  <1>4. /\ rd_cnt \in Nat /\ Total \in Nat /\ Total <= Room /\ Room \in Nat /\ Words \in Nat /\ ctl.left \in Nat
        /\ rd_cnt \in 0..(Room - 1) /\ rd_cnt' \in 0..Room
    BY <1>0, CountTypes, CtlTypes
  <1>5. Rx' \in [0..(Room - 1) -> WordSet] /\ Rx'[rd_cnt] = fifo[1] /\ \A p \in 0..(Room - 1) : p # rd_cnt => Rx'[p] = Rx[p]
    <2>1. Rx \in [0..(Room - 1) -> WordSet]
      BY <1>0 DEF Typed
    <2> QED BY <1>3, <1>4, <2>1
  <1>6. Typed'
    <2>1. RCA' = RCA /\ Wide' = Wide /\ wt_cnt' = wt_cnt /\ tx' = tx /\ faults' = faults /\ Data_buffer' = Data_buffer
      BY ReceiveParts
    <2>2. Len(fifo') <= FifoDepth
      BY <1>3
    <2> QED BY <1>0, <1>2, <1>3, <1>4, <1>5, <2>1, <2>2 DEF Typed
  <1>7. \A p \in 0..(Words - 1) : p \in 0..(Room - 1)
    <2>1. Words <= Room /\ Room \in Nat
      BY Sizes, Times DEF Room
    <2> QED BY <1>4, <2>1
  <1>8. ASSUME Started PROVE Started' /\ (rd_cnt < Words => fifo[1] = <<asked, rd_cnt>>)
    <2>1. ctl'.left + Len(fifo') + rd_cnt' = Total'
      <3>1. ctl.left + Len(fifo) + rd_cnt = Total
        BY <1>8 DEF Started
      <3> QED BY <1>2, <1>3, <1>4, <3>1
    <2>2. ASSUME NEW k \in 1..Len(fifo'), rd_cnt' + k - 1 < Words PROVE fifo'[k] = <<asked', rd_cnt' + k - 1>>
      <3> DEFINE i == k + 1
      <3>1. i \in 1..Len(fifo) /\ rd_cnt + i - 1 < Words /\ rd_cnt' + k - 1 = rd_cnt + i - 1
        BY <1>3, <1>4, <2>2
      <3>2. fifo'[k] = fifo[i]
        BY <1>3
      <3> HIDE DEF i
      <3>3. fifo[i] = <<asked, rd_cnt + i - 1>>
        BY <1>8, <3>1 DEF Started
      <3> QED BY <1>2, <3>1, <3>2, <3>3
    <2>3. rd_cnt < Words => fifo[1] = <<asked, rd_cnt>>
      <3> HAVE rd_cnt < Words
      <3>1. 1 \in 1..Len(fifo) /\ rd_cnt + 1 - 1 = rd_cnt
        BY <1>3, <1>4
      <3>2. fifo[1] = <<asked, rd_cnt + 1 - 1>>
        BY <1>8, <3>1 DEF Started
      <3> QED BY <3>1, <3>2
    <2>4. ASSUME NEW p \in 0..(Words - 1), p < rd_cnt' PROVE Rx'[p] = <<asked', p>>
      <3>1. CASE p = rd_cnt
        <4>1. rd_cnt < Words
          BY <1>4, <3>1
        <4> QED BY <1>2, <1>5, <2>3, <3>1, <4>1
      <3>2. CASE p # rd_cnt
        <4>1. p < rd_cnt
          BY <1>4, <2>4, <3>2
        <4>2. Rx[p] = <<asked, p>>
          BY <1>8, <4>1 DEF Started
        <4> QED BY <1>2, <1>5, <1>7, <3>2, <4>2
      <3> QED BY <3>1, <3>2
    <2>5. /\ card'.st = "data" => (card'.multi <=> block' >= 2)
          /\ IF ctl'.left > 0
             THEN /\ card'.st = "data" /\ card'.index <= Words
                  /\ Total' - ctl'.left < Words => card'.sector = asked' /\ card'.index = Total' - ctl'.left
             ELSE block' < 2 /\ card'.st = "data" => card'.index >= Words
      BY <1>2, <1>8 DEF Started
    <2> QED BY <2>1, <2>2, <2>3, <2>4, <2>5 DEF Started
  <1>9. Calm => Started
    BY <1>1 DEF Receives
  <1>10. Receives'
    <2>1. On(<<I("receive")>>)'
      BY <1>1, <1>2 DEF On, Bottom
    <2>2. Exact' => card'.st # "rcv" /\ FinIsOver'
      BY <1>1, <1>2 DEF Receives, FinIsOver, Exact
    <2> QED BY <1>2, <1>8, <1>9, <2>1, <2>2 DEF Receives
  <1>11. Point'
    BY <1>0, <1>1, <1>2, <1>10 DEF Point, Transferring, Reading
  <1>12. ~MmcTests => InPlace(Rx', Words)
    <2> SUFFICES ASSUME ~MmcTests, NEW p \in 0..(Words - 1) PROVE Rx'[p][2] = p
      BY DEF InPlace
    <2>1. Started
      BY <1>9 DEF Calm
    <2>2. CASE p = rd_cnt
      <3>1. rd_cnt < Words
        BY <1>4, <2>2
      <3> QED BY <1>5, <1>8, <2>1, <2>2, <3>1
    <2>3. CASE p # rd_cnt
      BY <1>0, <1>5, <1>7, <2>3 DEF Always, InPlace
    <2> QED BY <2>2, <2>3
  <1>13. Asking' /\ Bottom' = Bottom /\ (Listening' => Listening) /\ (Calm => InPlace(Data_buffer', Bytes))
    <2>1. Asking' /\ Listening
      BY <1>2 DEF Asking, Listening, At
    <2> QED BY <1>0, <1>2, <2>1 DEF Bottom, Always
  <1> QED BY <1>2, <1>6, <1>11, <1>12, <1>13, HostStep

LEMMA Receiving ==
    ASSUME SdInv, Receive, UNCHANGED scenario, UNCHANGED readerVars
    PROVE  SdInv'
  <1>1. At("receive") /\ ReceiveKeeps
    BY DEF Receive, ReceiveKeeps
  <1>2. Words * block = Total
    BY DEF Total
  <1>3. \/ /\ ctl.tmo /\ ctl' = [ctl EXCEPT !.tmo = FALSE]
           /\ Goes(afterData) /\ j' = readsCounted /\ Data_buffer' = Copied /\ UNCHANGED <<rd_cnt, Rx, fifo>>
        \/ /\ rd_cnt < Total /\ ~ctl.tmo /\ fifo # <<>>
           /\ Rx' = [Rx EXCEPT ![rd_cnt] = Head(fifo)] /\ fifo' = Tail(fifo) /\ rd_cnt' = rd_cnt + 1
           /\ UNCHANGED <<work, ctl, j, Data_buffer>>
        \/ /\ ctl' = ctl /\ rd_cnt = Total
           /\ Goes(afterData) /\ j' = readsCounted /\ Data_buffer' = Copied /\ UNCHANGED <<rd_cnt, Rx, fifo>>
    BY <1>2, Zenon DEF Receive, receiveTimeout
  <1> QED BY <1>1, <1>3, ReceiveEnds, ReceiveWord

-----------------------------------------------------------------------------
(* The loop of Wt_Block. *)

\* A word into the FIFO.
LEMMA TransmitWord ==
    ASSUME SdInv, Transmit, UNCHANGED scenario, UNCHANGED readerVars, wt_cnt < Total
    PROVE  SdInv'
  <1>0. Point /\ Typed /\ Always /\ work # <<>> /\ Tag = "transmit" /\ IsStack(work) /\ Head(work) = work[1]
    BY TopIs DEF SdInv, Transmit, At, Tag, Point
  <1>1. Transferring /\ Transmits
    BY <1>0, PointTransferring
  <1>2. /\ Len(fifo) < FifoDepth /\ fifo' = Append(fifo, <<Null, tx>>) /\ tx' = tx + 1 /\ wt_cnt' = wt_cnt + 1 /\ work' = work
        /\ card' = card /\ store' = store /\ rsp' = rsp /\ ctl' = ctl
        /\ RCA' = RCA /\ MMC' = MMC /\ Wide' = Wide /\ block' = block
        /\ rd_cnt' = rd_cnt /\ Rx' = Rx /\ Data_buffer' = Data_buffer /\ asked' = asked /\ j' = j
        /\ faults' = faults /\ dataFaults' = dataFaults /\ operations' = operations
    BY DEF Transmit, busWidth, readVars, countVars, Total
  <1>3. Total' = Total /\ Gone' = Gone /\ (Calm' <=> Calm) /\ (Exact' <=> Exact) /\ (Silent => Silent')
    BY <1>2 DEF Total, Gone, Calm, MmcTests, Exact, Silent
  <1>4. tx \in Nat /\ wt_cnt \in Nat /\ Total \in Nat /\ Total <= Room /\ Room \in Nat /\ Len(fifo) \in Nat /\ FifoDepth \in Nat /\ ctl.left \in Nat
        /\ fifo \in Seq(WordSet) /\ <<Null, tx>> \in WordSet
    BY <1>0, CountTypes, FifoTypes, CtlTypes DEF WordSet, Sectors
  <1>5. /\ fifo' \in Seq(WordSet) /\ Len(fifo') = Len(fifo) + 1 /\ fifo'[Len(fifo) + 1] = <<Null, tx>>
        /\ \A k \in 1..Len(fifo) : fifo'[k] = fifo[k]
    BY <1>2, <1>4
  <1>6. Origin' = Origin /\ Origin = tx - wt_cnt
    BY <1>2, <1>4 DEF Origin
  <1>7. Typed'
    <2>1. Len(fifo') <= FifoDepth /\ tx' \in Nat /\ wt_cnt' \in 0..Room
      BY <1>2, <1>4, <1>5
    <2> QED BY <1>0, <1>2, <1>5, <2>1 DEF Typed
  <1>8. (AllStored => AllStored') /\ (Takes => Takes') /\ (HasTaken => HasTaken')
    BY <1>2, <1>3, <1>6 DEF AllStored, Takes, HasTaken, Stored, Before
  <1>9. Accounts => Accounts'
    <2> HAVE Accounts
    <2>0. Gone \in Int /\ Gone + Len(fifo) = wt_cnt
      BY <1>4 DEF Gone, Accounts
    <2>1. Gone' + Len(fifo') = wt_cnt'
      BY <1>2, <1>3, <1>4, <1>5, <2>0
    <2>2. ASSUME NEW k \in 1..Len(fifo') PROVE fifo'[k] = <<Null, Origin' + Gone' + k - 1>>
      <3>1. CASE k \in 1..Len(fifo)
        <4>1. fifo[k] = <<Null, Origin + Gone + k - 1>>
          BY <3>1 DEF Accounts
        <4> QED BY <1>3, <1>5, <1>6, <3>1, <4>1
      <3>2. CASE k \notin 1..Len(fifo)
        <4>1. k = Len(fifo) + 1
          BY <1>4, <1>5, <3>2
        <4>2. Origin + Gone + k - 1 = tx
          BY <1>4, <1>6, <2>0, <4>1
        <4> QED BY <1>3, <1>5, <1>6, <4>1, <4>2
      <3> QED BY <3>1, <3>2
    <2> QED BY <1>6, <1>8, <2>1, <2>2 DEF Accounts
  <1>10. Transmits'
    <2>1. IF block < 2
          THEN On(<<I("transmit"), I("Chk_DATend"), I("DATclear"), I("written")>>)'
          ELSE On(<<I("transmit"), I("Chk_DATend"), I("DATclear"), Cmd(12, 0), I("Chk_BUSYend"), I("written")>>)'
      BY <1>1, <1>2 DEF Transmits, On, Bottom
    <2>2. Quiet'
      BY <1>1, <1>2, <1>3 DEF Transmits, Quiet
    <2>3. wt_cnt' <= Total'
      BY <1>2, <1>3, <1>4
    <2> QED BY <1>1, <1>2, <1>3, <1>9, <2>1, <2>2, <2>3 DEF Transmits
  <1>11. Point'
    BY <1>0, <1>1, <1>2, <1>10 DEF Point, Transferring, Writing, Agreed
  <1>12. Plain(work') /\ ~Asking /\ Bottom' = Bottom /\ (MMC => card.kind = "MMC")
    <2>1. work[1].op = "transmit"
      BY <1>0 DEF Tag
    <2>2. Plain(work)
      BY <2>1 DEF Plain
    <2>3. Plain(work')
      BY <1>2, <2>2
    <2> QED BY <1>0, <1>2, <2>2, <2>3, PlainWas DEF Bottom, Always
  <1> QED BY <1>2, <1>7, <1>11, <1>12, PlainStep

\* All words are in the FIFO.
LEMMA TransmitEnds ==
    ASSUME SdInv, Transmit, UNCHANGED scenario, UNCHANGED readerVars, ~(wt_cnt < Total)
    PROVE  SdInv'
  <1>0. Point /\ Typed /\ Always /\ work # <<>> /\ Tag = "transmit" /\ IsStack(work)
    BY DEF SdInv, Transmit, At, Tag, Point
  <1>1. Transferring /\ Transmits
    BY <1>0, PointTransferring
  <1>2. Onward /\ Goes(<<>>)
    BY DEF Transmit, Onward, hostVars, writeVars, busVars, Total
  <1>3. wt_cnt \in Nat /\ Total \in Nat
    BY <1>0, CountTypes
  <1>4. /\ scenario' = scenario /\ card' = card /\ store' = store /\ ctl' = ctl /\ fifo' = fifo /\ MMC' = MMC
        /\ block' = block /\ Rx' = Rx /\ Data_buffer' = Data_buffer /\ asked' = asked /\ dataFaults' = dataFaults
        /\ wt_cnt' = wt_cnt /\ tx' = tx /\ Typed' /\ (Calm' <=> Calm) /\ (Exact' <=> Exact)
    BY <1>0, <1>2, OnwardParts
  <1>5. Total' = Total /\ Gone' = Gone /\ Origin' = Origin /\ (Silent => Silent')
    BY <1>4 DEF Total, Gone, Origin, Silent
  <1>6. (AllStored => AllStored') /\ (Takes => Takes') /\ (HasTaken => HasTaken')
    BY <1>4, <1>5 DEF AllStored, Takes, HasTaken, Stored, Before
  <1>7. Accounts => Accounts'
    BY <1>4, <1>5, <1>6 DEF Accounts
  <1>8. Agreed' /\ block' >= 1 /\ (Quiet => Quiet')
    BY <1>1, <1>2, <1>4, <1>5, OnwardParts DEF Transferring, Quiet
  <1>9. work[1] = I("transmit") /\ work[2] = I("Chk_DATend") /\ Len(work) >= 3
    BY <1>1 DEF Transmits, On
  <1>10. IsStack(work') /\ work' # <<>> /\ Bottom' = Bottom /\ PoppedStack /\ work'[1] = I("Chk_DATend")
    BY <1>0, <1>2, <1>9, Popped DEF PoppedStack
  <1>11. AwaitsWritten'
    <2>1. Quiet' /\ (Exact' => Accounts' /\ wt_cnt' = Total')
      BY <1>1, <1>3, <1>4, <1>5, <1>7, <1>8 DEF Transmits
    <2>2. CASE block < 2
      <3>1. On(<<I("transmit"), I("Chk_DATend"), I("DATclear"), I("written")>>)
        BY <1>1, <2>2 DEF Transmits
      <3>2. On(<<I("Chk_DATend"), I("DATclear"), I("written")>>)'
        BY <1>4, <1>10, <3>1 DEF On, PoppedStack
      <3> QED BY <1>4, <2>1, <2>2, <3>2 DEF AwaitsWritten
    <2>3. CASE ~(block < 2)
      <3>1. On(<<I("transmit"), I("Chk_DATend"), I("DATclear"), Cmd(12, 0), I("Chk_BUSYend"), I("written")>>)
        BY <1>1, <2>3 DEF Transmits
      <3>2. On(<<I("Chk_DATend"), I("DATclear"), Cmd(12, 0), I("Chk_BUSYend"), I("written")>>)'
        BY <1>4, <1>10, <3>1 DEF On, PoppedStack
      <3> QED BY <1>4, <2>1, <2>3, <3>2 DEF AwaitsWritten
    <2> QED BY <2>2, <2>3
  <1>12. Point'
    BY <1>8, <1>10, <1>11 DEF Point, Transferring, Writing
  <1>13. Plain(work') /\ ~Asking /\ (MMC => card.kind = "MMC")
    <2>1. Plain(work) /\ Plain(work')
      BY <1>9, <1>10 DEF Plain, I
    <2> QED BY <1>0, <2>1, PlainWas DEF Always
  <1> QED BY <1>4, <1>10, <1>12, <1>13, PlainStep

-----------------------------------------------------------------------------
(* The other tests. *)

LEMMA AsksStatus ==
    ASSUME SdInv, CMD13, UNCHANGED scenario, UNCHANGED readerVars
    PROVE  SdInv'
  <1>0. Point /\ Typed /\ Always /\ ReaderTyped /\ work # <<>> /\ Tag = "CMD13" /\ IsStack(work)
    BY DEF SdInv, CMD13, At, Tag, Point
  <1>1. Transferring /\ OtherTests
    BY <1>0, PointTransferring
  <1>2. On(<<I("CMD13")>>) /\ work[1] = I("CMD13") /\ Len(work) = 2 /\ work[2].op \in BottomOps /\ Still /\ Bottom.op = "tests"
    <2>1. ~On(<<I("View_Rx_buf")>>) /\ ~On(<<Cmd(28, 0)>>) /\ ~On(<<Cmd(29, 0)>>)
      BY <1>0 DEF On, Tag, I, Cmd
    <2> QED BY <1>1, <2>1 DEF OtherTests, On, Bottom
  <1>3. DataKept
    BY DEF CMD13, DataIdle, DataKept
  <1>4. PICK o \in Chk_CMDend(13, RCA) : card' = o.card /\ rsp' = o.rsp /\ faults' = o.faults /\ (Goes(<<>>) \/ Goes(<<I("Test_SDI")>>))
    BY Zenon DEF CMD13, Exchange, Test_SDI
  <1>5. o.card \in CardSet /\ o.card.kind = card.kind /\ o.rsp \in RspSet /\ o.faults \in 0..scenario.faults /\ Unmoved(o.card)
    <2>1. RCA \in Int /\ 13 \in DoneCommands /\ 13 \in {9, 13, 28, 29, 55}
      BY <1>0 DEF Typed, Garbled, DoneCommands
    <2>2. o.card \in CardSet /\ o.card.kind = card.kind /\ o.rsp \in RspSet /\ o.faults \in 0..scenario.faults
      BY <1>0, <2>1, OutcomeTyped
    <2>3. Unmoved(o.card)
      BY <1>0, <2>1, EffectAsk
    <2> QED BY <2>2, <2>3
  <1>6. Typed'
    BY <1>0, <1>3, <1>4, <1>5, KeptParts DEF Typed, RspSet
  <1>7. Still' /\ Agreed' /\ block' >= 1 /\ scenario' = scenario
    <2>1. Unmoved(card')
      BY <1>4, <1>5
    <2> QED BY <1>1, <1>2, <1>3, <2>1, UnmovedKeeps, KeptParts DEF Transferring
  <1>8. CASE Goes(<<>>)
    <2>1. IsStack(work') /\ work' # <<>> /\ Bottom' = Bottom /\ Len(work') = 1 /\ work'[1] = work[2]
      BY <1>0, <1>2, <1>8, Popped
    <2>2. On(<<>>)'
      BY <1>2, <1>7, <2>1 DEF On
    <2>3. Point' /\ Plain(work') /\ Bottom' = Bottom
      BY <1>2, <1>7, <2>1, <2>2 DEF Point, Resting, Plain, BottomOps
    <2>4. Plain(work)
      BY <1>2 DEF Plain, I
    <2> QED BY <1>0, <1>3, <1>4, <1>5, <1>6, <1>7, <2>3, <2>4, PlainIs, PlainWas, AlwaysKept, ReaderKept DEF SdInv, Point, Unmoved, MovedTo
  <1>9. CASE Goes(<<I("Test_SDI")>>)
    <2>1. IsStack(work') /\ work' # <<>> /\ Bottom' = Bottom /\ Len(work') = 2 /\ work'[1] = I("Test_SDI")
      BY <1>0, <1>2, <1>9, Goes1
    <2>2. On(<<I("Test_SDI")>>)'
      BY <1>2, <1>7, <2>1 DEF On
    <2>3. Locating' /\ Plain(work')
      BY <1>2, <1>7, <2>1, <2>2 DEF Locating, Finds, Early, Plain, I
    <2>4. Point' /\ Plain(work') /\ Bottom' = Bottom
      BY <2>1, <2>3 DEF Point
    <2>5. Plain(work)
      BY <1>2 DEF Plain, I
    <2> QED BY <1>0, <1>3, <1>4, <1>5, <1>6, <1>7, <2>4, <2>5, PlainIs, PlainWas, AlwaysKept, ReaderKept DEF SdInv, Point, Unmoved, MovedTo
  <1> QED BY <1>4, <1>8, <1>9

LEMMA Concatenation ==
    ASSUME NEW T, NEW x \in Seq(T), NEW y \in Seq(T)
    PROVE  /\ x \o y \in Seq(T) /\ Len(x \o y) = Len(x) + Len(y)
           /\ \A i \in 1..(Len(x) + Len(y)) : (x \o y)[i] = IF i <= Len(x) THEN x[i] ELSE y[i - Len(x)]
  OBVIOUS

\* One more instruction on the stack.
LEMMA Stacked ==
    ASSUME IsStack(work), Len(work) = 1, NEW a, work' = <<a>> \o work
    PROVE  /\ IsStack(work') /\ Len(work') = 2 /\ work' # <<>> /\ work'[1] = a /\ Bottom' = Bottom
  <1> DEFINE W == {work[i] : i \in DOMAIN work}
             b == work[1]
             T == {a, b}
             x == <<a>>
  <1>1. work \in Seq(W) /\ W = {b}
    BY DEF IsStack
  <1>2. work \in Seq(T) /\ x \in Seq(T) /\ Len(x) = 1 /\ x[1] = a
    BY <1>1
  <1> HIDE DEF W, T, x
  <1>3. x \o work \in Seq(T) /\ Len(x \o work) = 2
    <2>1. x \o work \in Seq(T) /\ Len(x \o work) = Len(x) + Len(work)
      BY <1>2, Concatenation
    <2> QED BY <1>2, <2>1
  <1>4. (x \o work)[1] = a /\ (x \o work)[2] = b
    <2>1. \A i \in 1..(Len(x) + Len(work)) : (x \o work)[i] = IF i <= Len(x) THEN x[i] ELSE work[i - Len(x)]
      BY <1>2, Concatenation
    <2>2. Len(x) + Len(work) = 2 /\ 1 \in 1..2 /\ 2 \in 1..2 /\ 1 <= Len(x) /\ ~(2 <= Len(x)) /\ 2 - Len(x) = 1
      BY <1>2
    <2>3. (x \o work)[1] = x[1]
      BY <2>1, <2>2
    <2>4. (x \o work)[2] = work[2 - Len(x)]
      BY <2>1, <2>2
    <2> QED BY <1>2, <2>2, <2>3, <2>4
  <1>5. work' = x \o work
    BY DEF x
  <1>6. IsStack(work')
    BY <1>3, <1>5, OwnStack
  <1> QED BY <1>3, <1>4, <1>5, <1>6 DEF Bottom

\* A test begins.
LEMMA TestBegins ==
    ASSUME SdInv, At("tests"), UNCHANGED scenario, UNCHANGED readerVars,
           operations < scenario.operations, operations' = operations + 1, block' \in 1..Blocks,
           NEW a, work' = <<a>> \o work,
           \/ a.op = "Rd_Block" /\ a.sector \in Int
           \/ a.op = "Rd_Stream" /\ a.taken \in Nat
           \/ a \in {I("Wt_Block"), I("View_Rx_buf"), I("Wt_Stream"), I("CMD13"), Cmd(28, 0), Cmd(29, 0)},
           UNCHANGED <<busWidth, readVars, writeVars, busVars, faults, dataFaults>>
    PROVE  SdInv'
  <1>0. Point /\ Typed /\ Always /\ ReaderTyped /\ work # <<>> /\ Tag = "tests" /\ IsStack(work) /\ Head(work) = work[1]
    BY TopIs DEF SdInv, At, Tag, Point
  <1>1. Resting
    BY <1>0, PointFinding DEF BottomOps
  <1>2. On(<<>>) /\ Len(work) = 1 /\ Bottom.op = "tests" /\ scenario.operations > 0 /\ Agreed /\ Still
    BY <1>0, <1>1 DEF Resting, On, Bottom, Tag
  <1>3. /\ card' = card /\ store' = store /\ rsp' = rsp /\ ctl' = ctl /\ fifo' = fifo
        /\ RCA' = RCA /\ MMC' = MMC /\ Wide' = Wide
        /\ rd_cnt' = rd_cnt /\ Rx' = Rx /\ Data_buffer' = Data_buffer /\ asked' = asked /\ j' = j
        /\ wt_cnt' = wt_cnt /\ tx' = tx
        /\ faults' = faults /\ dataFaults' = dataFaults
    BY DEF busWidth, readVars, writeVars, busVars
  <1>4. /\ operations \in Nat /\ scenario.operations \in Nat /\ scenario.dataFaults \in Nat /\ dataFaults \in Nat
        /\ dataFaults <= scenario.dataFaults + operations /\ Blocks \in Nat /\ block' >= 1 /\ block' \in 0..Blocks
    BY <1>0, FaultTypes, Sizes, SdAssumption DEF SdAssumption, Typed
  <1>5. Typed'
    <2>1. operations' \in 0..scenario.operations /\ dataFaults' \in 0..(scenario.dataFaults + operations')
      BY <1>3, <1>4
    <2> QED BY <1>0, <1>3, <1>4, <2>1 DEF Typed
  <1>6. IsStack(work') /\ Len(work') = 2 /\ work' # <<>> /\ work'[1] = a /\ Bottom' = Bottom /\ Head(work') = work'[1]
    <2>1. IsStack(work') /\ Len(work') = 2 /\ work' # <<>> /\ work'[1] = a /\ Bottom' = Bottom
      BY <1>0, <1>2, Stacked
    <2> QED BY <2>1
  <1>7. ASSUME NEW s, Len(s) = 1, s[1] = a PROVE On(s)'
    BY <1>2, <1>6, <1>7 DEF On
  <1>8. Still' /\ Agreed' /\ (MmcTests' <=> MmcTests) /\ (Calm' <=> Calm) /\ (Exact' <=> Exact)
    BY <1>2, <1>3 DEF Still, Quiet, Silent, NoneLeft, Over, Calm, Exact, MmcTests, Agreed
  <1>9. Point'
    <2>1. CASE a.op = "Rd_Block" /\ a.sector \in Int
      <3>1. On(<<work[1]>>)' /\ At("Rd_Block")'
        BY <1>6, <1>7, <2>1 DEF At
      <3>2. StartsRead'
        BY <1>6, <1>8, <2>1, <3>1 DEF StartsRead
      <3> QED BY <1>4, <1>6, <1>8, <3>2 DEF Point, Transferring, Reading
    <2>2. CASE a.op = "Rd_Stream" /\ a.taken \in Nat
      <3>1. On(<<work[1]>>)' /\ At("Rd_Stream")'
        BY <1>6, <1>7, <2>2 DEF At
      <3>2. StartsStream'
        BY <1>6, <1>8, <2>2, <3>1 DEF StartsStream, Still
      <3> QED BY <1>2, <1>4, <1>6, <1>8, <3>2 DEF Point, Transferring, Streaming
    <2>3. CASE a = I("Wt_Block")
      <3>1. On(<<I("Wt_Block")>>)'
        BY <1>7, <2>3
      <3> QED BY <1>4, <1>6, <1>8, <3>1 DEF Point, Transferring, Writing, StartsWrite
    <2>4. CASE a = I("Wt_Stream")
      <3>1. On(<<I("Wt_Stream")>>)'
        BY <1>7, <2>4
      <3> QED BY <1>2, <1>4, <1>6, <1>8, <3>1 DEF Point, Transferring, Streaming, StartsStreamOut
    <2>5. CASE a \in {I("View_Rx_buf"), I("CMD13"), Cmd(28, 0), Cmd(29, 0)}
      <3>1. On(<<a>>)'
        BY <1>7
      <3>2. OtherTests'
        BY <1>2, <1>6, <1>8, <2>5, <3>1 DEF OtherTests
      <3> QED BY <1>4, <1>6, <1>8, <3>2 DEF Point, Transferring
    <2> QED BY <2>1, <2>2, <2>3, <2>4, <2>5
  <1>10. WholeBuffer'
    <2>1. ~Asking
      BY <1>0 DEF Asking, At, Tag
    <2> QED BY <1>0, <1>3, <2>1 DEF Always, WholeBuffer
  <1>11. Always'
    <2>1. (InPlace(Rx, Words)' <=> InPlace(Rx, Words)) /\ (InPlace(Data_buffer, Bytes)' <=> InPlace(Data_buffer, Bytes))
      BY <1>3 DEF InPlace
    <2>2. dataFaults' < scenario'.dataFaults + operations'
      BY <1>3, <1>4
    <2>3. /\ ctl'.tmo => dataFaults' > 0
          /\ card'.kind = "MMC" => ~card'.wide
          /\ MMC' => card'.kind = "MMC"
          /\ ~MmcTests' => InPlace(Rx, Words)'
          /\ Calm' => InPlace(Data_buffer, Bytes)'
      BY <1>0, <1>3, <1>8, <2>1 DEF Always
    <2> QED BY <1>10, <2>2, <2>3 DEF Always
  <1>12. ReaderTyped'
    BY <1>0, <1>2, ReaderKept
  <1> QED BY <1>5, <1>9, <1>11, <1>12 DEF SdInv

LEMMA TestsEnd ==
    ASSUME SdInv, At("tests"), UNCHANGED scenario, UNCHANGED readerVars, Onward, Goes(<<I("deselect"), Once(9)>>)
    PROVE  SdInv'
  <1>0. Point /\ Typed /\ Always /\ work # <<>> /\ Tag = "tests" /\ IsStack(work) /\ Head(work) = work[1]
    BY TopIs DEF SdInv, At, Tag, Point
  <1>1. Resting
    BY <1>0, PointFinding DEF BottomOps
  <1>2. On(<<>>) /\ Len(work) = 1 /\ Bottom.op = "tests" /\ scenario.operations > 0
    BY <1>0, <1>1 DEF Resting, On, Bottom, Tag
  <1>3. IsStack(work') /\ Len(work') = 2 /\ work' # <<>> /\ work'[1] = I("deselect") /\ work'[2] = Once(9)
    BY <1>0, <1>2, Goes2
  <1>4. work' = <<I("deselect"), Once(9)>>
    BY <1>3 DEF IsStack
  <1>5. Point'
    BY <1>2, <1>3, <1>4 DEF Point, Ending
  <1>6. Plain(work') /\ ~Asking /\ (MMC => card.kind = "MMC") /\ scenario.operations # 0
    <2>1. Plain(work) /\ Plain(work')
      BY <1>0, <1>3 DEF Plain, I, Tag
    <2>2. scenario.operations \in Nat
      BY <1>0, FaultTypes
    <2> QED BY <1>0, <1>2, <2>1, <2>2, PlainWas DEF Always
  <1> QED BY <1>0, <1>5, <1>6, OnwardParts, PlainStep

LEMMA Testing ==
    ASSUME SdInv, Test, UNCHANGED scenario, UNCHANGED readerVars
    PROVE  SdInv'
  <1>1. At("tests") /\ UNCHANGED <<busWidth, readVars, writeVars, busVars, faults, dataFaults>>
    BY DEF Test
  <1>2. CASE Goes(<<I("deselect"), Once(9)>>) /\ UNCHANGED <<operations, block>>
    <2>1. Onward
      BY <1>1, <1>2 DEF Onward, hostVars, countVars
    <2> QED BY <1>1, <1>2, <2>1, TestsEnd
  <1>3. CASE /\ operations < scenario.operations /\ operations' = operations + 1 /\ block' \in 1..Blocks
             /\ \E t \in Tests : work' = t \o work
    <2>1. PICK t \in Tests : work' = t \o work
      BY <1>3
    <2>2. \/ \E s \in {1, 4} : t = <<Start(s)>>
          \/ \E a \in {I("Wt_Block"), I("View_Rx_buf"), I("Wt_Stream"), I("CMD13"), Cmd(28, 0), Cmd(29, 0)} : t = <<a>>
          \/ t = <<[op |-> "Rd_Stream", taken |-> 0]>>
      BY <2>1, Zenon DEF Tests, TestSectors
    <2>3. CASE \E s \in {1, 4} : t = <<Start(s)>>
      <3>1. PICK s \in {1, 4} : t = <<Start(s)>>
        BY <2>3
      <3>2. Start(s).op = "Rd_Block" /\ Start(s).sector \in Int
        BY DEF Start
      <3> DEFINE a == Start(s)
      <3> HIDE DEF a
      <3>3. work' = <<a>> \o work /\ a.op = "Rd_Block" /\ a.sector \in Int
        BY <2>1, <3>1, <3>2 DEF a
      <3> QED BY <1>1, <1>3, <3>3, TestBegins
    <2>4. CASE \E a \in {I("Wt_Block"), I("View_Rx_buf"), I("Wt_Stream"), I("CMD13"), Cmd(28, 0), Cmd(29, 0)} : t = <<a>>
      BY <1>1, <1>3, <2>1, <2>4, TestBegins
    <2>5. CASE t = <<[op |-> "Rd_Stream", taken |-> 0]>>
      <3> DEFINE a == [op |-> "Rd_Stream", taken |-> 0]
      <3>1. a.op = "Rd_Stream" /\ a.taken \in Nat
        OBVIOUS
      <3>2. work' = <<a>> \o work
        BY <2>1, <2>5
      <3> HIDE DEF a
      <3> QED BY <1>1, <1>3, <3>1, <3>2, TestBegins
    <2> QED BY <2>2, <2>3, <2>4, <2>5
  <1> QED BY <1>2, <1>3 DEF Test

-----------------------------------------------------------------------------
(* Streams. *)

\* Only the tests of an MMC card have streams.
LEMMA StreamsAreTests ==
    ASSUME Typed, Always, Transferring, Streaming, MMC
    PROVE  MmcTests /\ (Calm => dataFaults = 0) /\ scenario.operations > 0
  <1>1. card.kind = "MMC" /\ scenario.kind = "MMC"
    BY DEF Typed, Always
  <1>2. scenario.operations > 0
    BY DEF Streaming, StartsStream, SendsStream, Streams, StartsStreamOut, SendsStreamOut, StreamsOut, StopsStreamOut, Flushes, On
  <1> QED BY <1>1, <1>2 DEF MmcTests, Calm

LEMMA StreamParts ==
    ASSUME Flagging
    PROVE  (Sends => Sends') /\ (Quiet /\ ~ctl'.tmo => Quiet')
           /\ (NoneLeft /\ ~ctl'.fin => NoneLeft') /\ (Quiet /\ (ctl'.tmo <=> ctl.tmo) => Quiet')
  <1>1. card' = card /\ (Silent => Silent') /\ (Over => Over') /\ (Calm' <=> Calm)
    BY FlaggingParts
  <1> QED BY <1>1 DEF Sends, Quiet, NoneLeft

LEMMA ArmsIs ==
    ASSUME Typed, ctl' = Arms(Words * block)
    PROVE  ctl' \in CtlSet /\ ctl'.left = Total /\ (ctl'.fin <=> ctl.fin) /\ (ctl'.tmo <=> ctl.tmo)
  <1>1. ctl \in CtlSet /\ Total \in 0..Room /\ ctl' = [ctl EXCEPT !.left = Total]
    BY CtlTypes, TotalSize DEF Arms, Total
  <1> QED BY <1>1, CtlCounted

LEMMA BeginsStream ==
    ASSUME SdInv, Rd_Stream, UNCHANGED scenario, UNCHANGED readerVars
    PROVE  SdInv'
  <1>0. Point /\ Typed /\ Always /\ work # <<>> /\ Tag = "Rd_Stream" /\ IsStack(work) /\ Flagging /\ Head(work) = work[1]
    BY TopIs DEF SdInv, Rd_Stream, At, Tag, Point, Flagging
  <1>1. Transferring /\ Streaming /\ StartsStream
    BY <1>0, PointTransferring
  <1>2. On(<<work[1]>>) /\ Len(work) = 2 /\ work[2].op \in BottomOps /\ work[1].taken \in Nat /\ Bottom.op = "tests"
    BY <1>1 DEF StartsStream, On, Bottom, Streaming
  <1>3. /\ (Agreed => Agreed') /\ (Calm' <=> Calm) /\ (Exact' <=> Exact) /\ block' = block /\ scenario' = scenario /\ MMC' = MMC
        /\ (Over => Over') /\ card' = card
    BY <1>0, FlaggingParts
  <1>4. CASE MMC
    <2> DEFINE a == [op |-> "CMD11", taken |-> work[1].taken]
    <2>1. ctl' = Arms(Words * block) /\ Goes(<<a>>) /\ a.op = "CMD11" /\ a.taken = work[1].taken
      BY <1>0, <1>4 DEF Rd_Stream
    <2> HIDE DEF a
    <2>2. IsStack(work') /\ Len(work') = 2 /\ work' # <<>> /\ work'[1] = a /\ Bottom' = Bottom
      BY <1>0, <1>2, <2>1, Goes1
    <2>3. ctl' \in CtlSet /\ (ctl'.fin <=> ctl.fin) /\ (ctl'.tmo <=> ctl.tmo)
      BY <1>0, <2>1, ArmsIs
    <2>4. On(<<work[1]>>)' /\ At("CMD11")' /\ work'[1].taken \in Nat
      BY <1>2, <1>3, <2>1, <2>2 DEF On, At
    <2>5. Exact' => Sends' \/ NoneLeft'
      BY <1>0, <1>1, <1>3, <1>4, <2>3, StreamParts DEF StartsStream, NoneLeft
    <2>6. SendsStream'
      BY <1>3, <1>4, <2>4, <2>5 DEF SendsStream
    <2>7. Point'
      BY <1>1, <1>2, <1>3, <2>2, <2>6 DEF Point, Transferring, Streaming
    <2>8. ~Asking /\ Listening
      BY <1>0 DEF Asking, Listening, At, Tag
    <2> QED BY <1>0, <2>2, <2>3, <2>7, <2>8, FlaggingStep
  <1>5. CASE ~MMC
    <2>1. ctl' = ctl /\ Goes(<<>>) /\ Still
      BY <1>1, <1>5 DEF Rd_Stream, StartsStream
    <2>2. IsStack(work') /\ Len(work') = 1 /\ work' # <<>> /\ work'[1] = work[2] /\ Bottom' = Bottom
      BY <1>0, <1>2, <2>1, Popped
    <2>3. On(<<>>)'
      BY <1>2, <1>3, <2>2 DEF On
    <2>4. Still'
      BY <1>0, <1>3, <2>1, StreamParts DEF Still, NoneLeft
    <2>5. Point'
      BY <1>1, <1>3, <2>2, <2>3, <2>4 DEF Point, Resting, Transferring
    <2>6. ~Asking /\ ~Listening'
      <3>1. Plain(work')
        BY <1>2, <2>2 DEF Plain, BottomOps
      <3> QED BY <1>0, <2>2, <3>1, PlainIs DEF Asking, At, Tag
    <2>7. ctl' \in CtlSet
      BY <1>0, <2>1, CtlTypes
    <2> QED BY <1>0, <2>1, <2>2, <2>5, <2>6, <2>7, FlaggingStep
  <1> QED BY <1>4, <1>5

LEMMA CommandsStream ==
    ASSUME SdInv, CMD11, UNCHANGED scenario, UNCHANGED readerVars
    PROVE  SdInv'
  <1>0. Point /\ Typed /\ Always /\ ReaderTyped /\ work # <<>> /\ Tag = "CMD11" /\ IsStack(work) /\ Head(work) = work[1]
    BY TopIs DEF SdInv, CMD11, At, Tag, Point
  <1>1. Transferring /\ Streaming /\ SendsStream
    BY <1>0, PointTransferring
  <1>2. On(<<work[1]>>) /\ Len(work) = 2 /\ work[1].taken \in Nat /\ Bottom.op = "tests" /\ MMC
    BY <1>1 DEF SendsStream, On, Streaming
  <1>3. DataKept
    BY DEF CMD11, DataIdle, DataKept
  <1> DEFINE A(e) == [op |-> "stream", end |-> e, taken |-> work[1].taken]
  <1>4. PICK o \in Chk_CMDend(11, 0) : card' = o.card /\ rsp' = o.rsp /\ faults' = o.faults /\ Goes(<<A(o.end)>>)
    BY <1>0, Zenon DEF CMD11, Exchange
  <1>5. o.card \in CardSet /\ o.card.kind = card.kind /\ o.rsp \in RspSet /\ o.faults \in 0..scenario.faults /\ o.end \in BOOLEAN
    <2>1. 0 \in Int /\ 11 \in DoneCommands
      BY DEF DoneCommands
    <2> QED BY <1>0, <2>1, OutcomeTyped, ExchangeCases
  <1>6. (Unmoved(card') \/ Begun(card', 11, 0)) /\ (o.end => Begun(card', 11, 0))
    <2>1. 0 \in Int /\ 11 \in {11, 17, 18, 20, 24, 25}
      OBVIOUS
    <2> QED BY <1>0, <1>4, <2>1, EffectTransfer
  <1>7. Typed'
    BY <1>0, <1>3, <1>4, <1>5, KeptParts DEF Typed, RspSet
  <1>8. A(o.end).op = "stream" /\ (A(o.end).end <=> o.end) /\ A(o.end).end \in BOOLEAN /\ A(o.end).taken \in Nat
    BY <1>2, <1>5
  <1> HIDE DEF A
  <1>9. IsStack(work') /\ Len(work') = 2 /\ work' # <<>> /\ work'[1] = A(o.end) /\ Bottom' = Bottom
    BY <1>0, <1>2, <1>4, Goes1
  <1>10. On(<<work[1]>>)' /\ At("stream")' /\ work'[1].taken \in Nat /\ work'[1].end \in BOOLEAN
    BY <1>2, <1>8, <1>9 DEF On, At
  <1>11. Begun(card', 11, 0) => Sends' /\ Agreed' /\ (Exact' => FinIsOver')
    <2> HAVE Begun(card', 11, 0)
    <2>1. /\ card.st = "tran" /\ card'.kind = card.kind /\ card'.rca = card.rca /\ card'.wide = card.wide
          /\ card'.st = "data" /\ card'.multi
      BY DEF Begun
    <2>2. Agreed'
      BY <1>1, <1>3, <2>1, KeptParts DEF Transferring, Agreed, Selected
    <2>3. Exact' => ~ctl.fin
      BY <1>1, <1>3, <2>1, KeptParts DEF SendsStream, Sends, NoneLeft
    <2> QED BY <1>3, <2>1, <2>2, <2>3, KeptParts DEF Sends, FinIsOver
  <1>12. Exact' => IF o.end THEN Sends' /\ FinIsOver' ELSE Sends' \/ NoneLeft'
    <2>1. Unmoved(card') => (Exact' => Sends' \/ NoneLeft')
      BY <1>1, <1>3, UnmovedKeeps, KeptParts DEF SendsStream
    <2> QED BY <1>6, <1>11, <2>1
  <1>13. Streams'
    <2>1. MMC'
      BY <1>2, <1>3, KeptParts
    <2>2. Exact' => IF work'[1].end THEN Sends' /\ FinIsOver' ELSE Sends' \/ NoneLeft'
      BY <1>8, <1>9, <1>12
    <2> QED BY <1>10, <2>1, <2>2 DEF Streams
  <1>14. Agreed' /\ block' >= 1
    BY <1>1, <1>3, <1>6, <1>11, UnmovedKeeps, KeptParts DEF Transferring
  <1>15. Point'
    BY <1>2, <1>9, <1>13, <1>14 DEF Point, Transferring, Streaming
  <1>16. ~Asking /\ Listening
    BY <1>0 DEF Asking, Listening, At, Tag
  <1>17. card'.kind = card.kind /\ card'.wide = card.wide
    BY <1>6 DEF Unmoved, MovedTo, Begun
  <1>18. Always' /\ ReaderTyped'
    BY <1>0, <1>3, <1>9, <1>16, <1>17, AlwaysKept, ReaderKept
  <1> QED BY <1>7, <1>15, <1>18 DEF SdInv

LEMMA FlagsAndCountOff ==
    ASSUME NEW c \in CtlSet, NEW d, d = [c EXCEPT !.left = 0, !.fin = FALSE, !.tmo = FALSE, !.busy = FALSE]
    PROVE  d \in CtlSet /\ ~d.fin /\ ~d.tmo
  <1> DEFINE off == FALSE
             none == 0
  <1>1. off \in BOOLEAN /\ ~off /\ none \in 0..Room /\ d = [c EXCEPT !.left = none, !.fin = off, !.tmo = off, !.busy = off]
    BY Sizes DEF Room
  <1> HIDE DEF off, none
  <1>2. d \in CtlSet
    BY <1>1 DEF CtlSet
  <1>3. (d.fin <=> off) /\ (d.tmo <=> off)
    BY <1>1 DEF CtlSet
  <1> QED BY <1>1, <1>2, <1>3

\* The stream goes on: the timeout, the end without a response, or the next word.
LEMMA StreamBreaks ==
    ASSUME SdInv, At("stream"), UNCHANGED scenario, UNCHANGED readerVars, Onward, ctl.tmo, Goes(<<>>)
    PROVE  SdInv'
  <1>0. Point /\ Typed /\ Always /\ work # <<>> /\ Tag = "stream" /\ IsStack(work)
    BY DEF SdInv, At, Tag, Point
  <1>1. Transferring /\ Streaming /\ Streams /\ MMC
    BY <1>0, PointTransferring DEF Streams
  <1>2. On(<<work[1]>>) /\ Len(work) = 2 /\ work[2].op \in BottomOps
    BY <1>1 DEF Streams, On, Bottom
  <1>3. IsStack(work') /\ Len(work') = 1 /\ work' # <<>> /\ work'[1] = work[2] /\ Bottom' = Bottom
    BY <1>0, <1>2, Popped
  <1>4. On(<<>>)'
    BY <1>0, <1>2, <1>3, OnwardParts DEF On
  <1>5. ~Calm /\ ~Exact
    <2>1. dataFaults > 0 /\ dataFaults \in Nat
      BY <1>0, FaultTypes DEF Always
    <2> QED BY <1>0, <1>1, <2>1, StreamsAreTests DEF Exact
  <1>6. Still' /\ Agreed' /\ block' >= 1
    BY <1>1, <1>5, OnwardParts DEF Still, Quiet, Transferring
  <1>7. Point'
    BY <1>3, <1>4, <1>6 DEF Point, Resting
  <1>8. Plain(work') /\ ~Asking /\ (MMC => card.kind = "MMC")
    BY <1>0, <1>2, <1>3 DEF Plain, BottomOps, Asking, At, Tag, Always
  <1> QED BY <1>0, <1>3, <1>7, <1>8, OnwardParts, PlainStep

LEMMA StreamAgain ==
    ASSUME SdInv, At("stream"), UNCHANGED scenario, UNCHANGED readerVars, Onward, ~work[1].end,
           NEW a, a.op = "Rd_Stream", a.taken \in Nat, Goes(<<a>>)
    PROVE  SdInv'
  <1>0. Point /\ Typed /\ Always /\ work # <<>> /\ Tag = "stream" /\ IsStack(work)
    BY DEF SdInv, At, Tag, Point
  <1>1. Transferring /\ Streaming /\ Streams /\ MMC /\ Bottom.op = "tests"
    BY <1>0, PointTransferring DEF Streams, Streaming
  <1>2. On(<<work[1]>>) /\ Len(work) = 2
    BY <1>1 DEF Streams, On
  <1>3. IsStack(work') /\ Len(work') = 2 /\ work' # <<>> /\ work'[1] = a /\ Bottom' = Bottom
    BY <1>0, <1>2, Goes1
  <1>4. /\ scenario' = scenario /\ card' = card /\ ctl' = ctl /\ MMC' = MMC /\ block' = block /\ Rx' = Rx /\ Data_buffer' = Data_buffer
        /\ asked' = asked /\ dataFaults' = dataFaults /\ operations' = operations /\ Typed' /\ Agreed' /\ (Exact' <=> Exact) /\ (Calm' <=> Calm)
    BY <1>0, <1>1, OnwardParts DEF Transferring
  <1>5. On(<<work[1]>>)' /\ At("Rd_Stream")' /\ work'[1].taken \in Nat
    BY <1>2, <1>3, <1>4 DEF On, At
  <1>6. Exact' => Sends' \/ NoneLeft'
    BY <1>1, <1>4 DEF Streams, Sends, NoneLeft, Over
  <1>7. StartsStream'
    BY <1>1, <1>4, <1>5, <1>6 DEF StartsStream
  <1>8. Point'
    BY <1>1, <1>3, <1>4, <1>7 DEF Point, Transferring, Streaming
  <1>9. ~Asking /\ Listening
    BY <1>0 DEF Asking, Listening, At, Tag
  <1>10. (~MmcTests => InPlace(Rx', Words)) /\ (Calm => InPlace(Data_buffer', Bytes))
    BY <1>0, <1>4 DEF Always
  <1> QED BY <1>3, <1>4, <1>8, <1>9, <1>10, HostStep

LEMMA StreamWord ==
    ASSUME SdInv, At("stream"), UNCHANGED scenario, UNCHANGED readerVars, work[1].taken < Total, ~ctl.tmo, fifo # <<>>,
           Rx' = [Rx EXCEPT ![work[1].taken] = Head(fifo)], fifo' = Tail(fifo),
           NEW a, a.op = "stream", a.taken \in Nat, a.end = work[1].end, Goes(<<a>>),
           UNCHANGED <<busWidth, block, rd_cnt, Data_buffer, asked, j, writeVars, ctl, card, store, rsp, countVars>>
    PROVE  SdInv'
  <1>0. Point /\ Typed /\ Always /\ work # <<>> /\ Tag = "stream" /\ IsStack(work)
    BY DEF SdInv, At, Tag, Point
  <1>1. Transferring /\ Streaming /\ Streams /\ MMC /\ Bottom.op = "tests"
    BY <1>0, PointTransferring DEF Streams, Streaming
  <1>2. On(<<work[1]>>) /\ Len(work) = 2 /\ work[1].taken \in Nat /\ work[1].end \in BOOLEAN
    BY <1>1 DEF Streams, On
  <1>3. IsStack(work') /\ Len(work') = 2 /\ work' # <<>> /\ work'[1] = a /\ Bottom' = Bottom
    BY <1>0, <1>2, Goes1
  <1>4. /\ scenario' = scenario /\ card' = card /\ ctl' = ctl /\ store' = store /\ rsp' = rsp
        /\ RCA' = RCA /\ MMC' = MMC /\ Wide' = Wide /\ block' = block
        /\ rd_cnt' = rd_cnt /\ Data_buffer' = Data_buffer /\ asked' = asked /\ j' = j
        /\ wt_cnt' = wt_cnt /\ tx' = tx
        /\ faults' = faults /\ dataFaults' = dataFaults /\ operations' = operations
    BY DEF busWidth, writeVars, countVars
  <1>5. /\ fifo' \in Seq(WordSet) /\ Len(fifo') <= FifoDepth /\ Head(fifo) \in WordSet
    <2>1. fifo \in Seq(WordSet) /\ Len(fifo) <= FifoDepth /\ FifoDepth \in Nat
      BY <1>0, FifoTypes
    <2>2. Tail(fifo) \in Seq(WordSet) /\ Len(Tail(fifo)) = Len(fifo) - 1 /\ Len(fifo) \in Nat /\ Head(fifo) \in WordSet
      BY <2>1
    <2> QED BY <2>1, <2>2
  <1>6. Rx' \in [0..(Room - 1) -> WordSet]
    BY <1>0, <1>5 DEF Typed
  <1>7. Typed'
    BY <1>0, <1>4, <1>5, <1>6 DEF Typed
  <1>8. On(<<work[1]>>)' /\ At("stream")' /\ work'[1].taken \in Nat /\ work'[1].end = work[1].end
    BY <1>2, <1>3, <1>4 DEF On, At
  <1>9. Streams'
    <2>1. Exact' => IF work[1].end THEN Sends' /\ FinIsOver' ELSE Sends' \/ NoneLeft'
      BY <1>1, <1>4 DEF Streams, Sends, NoneLeft, Over, FinIsOver, Exact
    <2> QED BY <1>1, <1>2, <1>4, <1>8, <2>1 DEF Streams
  <1>10. Point'
    BY <1>1, <1>3, <1>4, <1>9 DEF Point, Transferring, Streaming, Agreed
  <1>11. ~Asking /\ Listening
    BY <1>0 DEF Asking, Listening, At, Tag
  <1>12. MmcTests /\ (Calm => InPlace(Data_buffer', Bytes))
    BY <1>0, <1>1, <1>4, StreamsAreTests DEF Always
  <1> QED BY <1>3, <1>4, <1>7, <1>10, <1>11, <1>12, HostStep

LEMMA StreamStops ==
    ASSUME SdInv, At("stream"), UNCHANGED readerVars, Flagging, work[1].end, ctl.fin \/ card.st # "data", Goes(<<Cmd(12, 0)>>),
           ctl' = [ctl EXCEPT !.left = 0, !.fin = FALSE, !.tmo = FALSE, !.busy = FALSE]
    PROVE  SdInv'
  <1>0. Point /\ Typed /\ Always /\ work # <<>> /\ Tag = "stream" /\ IsStack(work)
    BY DEF SdInv, At, Tag, Point
  <1>1. Transferring /\ Streaming /\ Streams
    BY <1>0, PointTransferring
  <1>2. On(<<work[1]>>) /\ Len(work) = 2
    BY <1>1 DEF Streams, On
  <1>3. IsStack(work') /\ Len(work') = 2 /\ work' # <<>> /\ work'[1] = Cmd(12, 0) /\ Bottom' = Bottom
    BY <1>0, <1>2, Goes1
  <1>4. ctl' \in CtlSet /\ ~ctl'.fin /\ ~ctl'.tmo
    <2>1. ctl \in CtlSet
      BY <1>0, CtlTypes
    <2> QED BY <2>1, FlagsAndCountOff
  <1>5. /\ (Agreed => Agreed') /\ (Calm' <=> Calm) /\ (Exact' <=> Exact) /\ block' = block /\ scenario' = scenario /\ (Over => Over')
    BY FlaggingParts
  <1>6. On(<<Cmd(12, 0)>>)'
    BY <1>2, <1>3, <1>5 DEF On
  <1>7. Exact => Over
    BY <1>1 DEF Streams, Sends, FinIsOver
  <1>8. Stops'
    BY <1>4, <1>5, <1>6, <1>7 DEF Stops
  <1>9. Point'
    BY <1>1, <1>3, <1>5, <1>8 DEF Point, Transferring, Reading
  <1>10. Plain(work') /\ ~Asking
    BY <1>0, <1>3 DEF Plain, Cmd, Asking, At, Tag
  <1>11. ~Listening'
    BY <1>3, <1>10, PlainIs
  <1> QED BY <1>3, <1>4, <1>9, <1>10, <1>11, FlaggingStep

LEMMA Streamed ==
    ASSUME SdInv, Stream, UNCHANGED scenario, UNCHANGED readerVars
    PROVE  SdInv'
  <1>0. At("stream") /\ Head(work) = work[1] /\ Words * block = Total /\ work[1].taken \in Nat
    <2>1. At("stream") /\ work # <<>> /\ Point /\ Tag = "stream"
      BY DEF Stream, At, SdInv, Tag
    <2>2. Streams
      BY <2>1, PointTransferring
    <2> QED BY <2>1, <2>2, TopIs DEF Total, Streams
  <1>1. UNCHANGED <<busWidth, block, rd_cnt, Data_buffer, asked, j, writeVars, card, store, rsp, countVars>>
    BY DEF Stream
  <1> DEFINE a == [op |-> "stream", end |-> work[1].end, taken |-> work[1].taken + 1]
             b == [op |-> "Rd_Stream", taken |-> work[1].taken]
  <1>2. a.op = "stream" /\ a.taken \in Nat /\ a.end = work[1].end /\ b.op = "Rd_Stream" /\ b.taken \in Nat
    BY <1>0
  <1>3. \/ /\ ctl.tmo /\ Goes(<<>>) /\ UNCHANGED <<Rx, fifo, ctl>>
        \/ /\ work[1].taken < Total /\ ~ctl.tmo /\ fifo # <<>>
           /\ Rx' = [Rx EXCEPT ![work[1].taken] = Head(fifo)] /\ fifo' = Tail(fifo)
           /\ Goes(<<a>>)
           /\ UNCHANGED ctl
        \/ /\ work[1].end
           /\ ctl.fin \/ card.st # "data"
           /\ Goes(<<Cmd(12, 0)>>)
           /\ ctl' = [ctl EXCEPT !.left = 0, !.fin = FALSE, !.tmo = FALSE, !.busy = FALSE]
           /\ UNCHANGED <<Rx, fifo>>
        \/ /\ ~work[1].end
           /\ Goes(<<b>>) /\ UNCHANGED <<Rx, fifo, ctl>>
    BY <1>0, Zenon DEF Stream
  <1> HIDE DEF a, b
  <1>4. CASE ctl.tmo /\ Goes(<<>>) /\ UNCHANGED <<Rx, fifo, ctl>>
    <2>1. Onward
      BY <1>1, <1>4 DEF Onward, hostVars, busVars, readVars
    <2> QED BY <1>0, <1>4, <2>1, StreamBreaks
  <1>5. CASE ~work[1].end /\ Goes(<<b>>) /\ UNCHANGED <<Rx, fifo, ctl>>
    <2>1. Onward
      BY <1>1, <1>5 DEF Onward, hostVars, busVars, readVars
    <2> QED BY <1>0, <1>2, <1>5, <2>1, StreamAgain
  <1>6. CASE /\ work[1].end /\ (ctl.fin \/ card.st # "data") /\ Goes(<<Cmd(12, 0)>>)
             /\ ctl' = [ctl EXCEPT !.left = 0, !.fin = FALSE, !.tmo = FALSE, !.busy = FALSE]
             /\ UNCHANGED <<Rx, fifo>>
    <2>1. Flagging
      BY <1>1, <1>6 DEF Flagging, hostVars, readVars
    <2> QED BY <1>0, <1>6, <2>1, StreamStops
  <1>7. CASE /\ work[1].taken < Total /\ ~ctl.tmo /\ fifo # <<>>
             /\ Rx' = [Rx EXCEPT ![work[1].taken] = Head(fifo)] /\ fifo' = Tail(fifo)
             /\ Goes(<<a>>)
             /\ UNCHANGED ctl
    <2>1. UNCHANGED <<busWidth, block, rd_cnt, Data_buffer, asked, j, writeVars, ctl, card, store, rsp, countVars>>
      BY <1>1, <1>7
    <2> QED BY <1>0, <1>2, <1>7, <2>1, StreamWord
  <1> QED BY <1>3, <1>4, <1>5, <1>6, <1>7

LEMMA BeginsStreamOut ==
    ASSUME SdInv, Wt_Stream, UNCHANGED scenario, UNCHANGED readerVars
    PROVE  SdInv'
  <1>0. Point /\ Typed /\ Always /\ work # <<>> /\ Tag = "Wt_Stream" /\ IsStack(work) /\ Flagging /\ Head(work) = work[1]
    BY TopIs DEF SdInv, Wt_Stream, At, Tag, Point, Flagging
  <1>1. Transferring /\ Streaming /\ StartsStreamOut
    BY <1>0, PointTransferring
  <1>2. On(<<I("Wt_Stream")>>) /\ Len(work) = 2 /\ work[1] = I("Wt_Stream") /\ work[2].op \in BottomOps /\ Bottom.op = "tests" /\ Still
    BY <1>1 DEF StartsStreamOut, On, Bottom, Streaming
  <1>3. /\ (Agreed => Agreed') /\ (Calm' <=> Calm) /\ (Exact' <=> Exact) /\ block' = block /\ scenario' = scenario /\ MMC' = MMC
        /\ card' = card
    BY <1>0, FlaggingParts
  <1>4. CASE MMC
    <2> DEFINE s == [op |-> "streamOut", sent |-> 0]
    <2>1. ctl' = Arms(Words * block) /\ Goes(<<Cmd(20, 1), s, Cmd(12, 0), I("Chk_BUSYend")>>)
      BY <1>4 DEF Wt_Stream
    <2> HIDE DEF s
    <2>2. /\ IsStack(work') /\ Len(work') = 5 /\ work' # <<>> /\ Bottom' = Bottom
          /\ work'[1] = Cmd(20, 1) /\ work'[2] = s /\ work'[3] = Cmd(12, 0) /\ work'[4] = I("Chk_BUSYend")
      BY <1>0, <1>2, <2>1, Goes4
    <2>3. ctl' \in CtlSet /\ (ctl'.fin <=> ctl.fin) /\ (ctl'.tmo <=> ctl.tmo)
      BY <1>0, <2>1, ArmsIs
    <2>4. On(<<Cmd(20, 1), s, Cmd(12, 0), I("Chk_BUSYend")>>)'
      BY <1>2, <1>3, <2>2 DEF On
    <2>5. Quiet' /\ (Exact' => NoneLeft')
      BY <1>0, <1>2, <1>3, <2>3, StreamParts DEF Still, NoneLeft
    <2>6. SendsStreamOut'
      BY <1>3, <1>4, <2>4, <2>5 DEF SendsStreamOut, s
    <2>7. Point'
      BY <1>1, <1>2, <1>3, <2>2, <2>6 DEF Point, Transferring, Streaming
    <2>8. ~Asking /\ ~Listening'
      <3>1. Plain(work')
        BY <2>2 DEF Plain, Cmd
      <3> QED BY <1>0, <2>2, <3>1, PlainIs DEF Asking, At, Tag
    <2> QED BY <1>0, <2>2, <2>3, <2>7, <2>8, FlaggingStep
  <1>5. CASE ~MMC
    <2>1. ctl' = ctl /\ Goes(<<>>)
      BY <1>5 DEF Wt_Stream
    <2>2. IsStack(work') /\ Len(work') = 1 /\ work' # <<>> /\ work'[1] = work[2] /\ Bottom' = Bottom
      BY <1>0, <1>2, <2>1, Popped
    <2>3. On(<<>>)'
      BY <1>2, <1>3, <2>2 DEF On
    <2>4. Still'
      BY <1>0, <1>2, <1>3, <2>1, StreamParts DEF Still, NoneLeft
    <2>5. Point'
      BY <1>1, <1>3, <2>2, <2>3, <2>4 DEF Point, Resting, Transferring
    <2>6. ~Asking /\ ~Listening'
      <3>1. Plain(work')
        BY <1>2, <2>2 DEF Plain, BottomOps
      <3> QED BY <1>0, <2>2, <3>1, PlainIs DEF Asking, At, Tag
    <2>7. ctl' \in CtlSet
      BY <1>0, <2>1, CtlTypes
    <2> QED BY <1>0, <2>1, <2>2, <2>5, <2>6, <2>7, FlaggingStep
  <1> QED BY <1>4, <1>5

\* What a stream to the card does not change.
OutKept == UNCHANGED <<scenario, hostVars, card, store, rsp, countVars>>

LEMMA StreamOutWord ==
    ASSUME SdInv, At("streamOut"), OutKept, UNCHANGED ctl, UNCHANGED readerVars, Len(fifo) < FifoDepth, NEW word \in WordSet,
           fifo' = Append(fifo, word), NEW a, a.op = "streamOut", a.sent \in Nat, Goes(<<a>>)
    PROVE  SdInv'
  <1>0. Point /\ Typed /\ Always /\ work # <<>> /\ Tag = "streamOut" /\ IsStack(work)
    BY DEF SdInv, At, Tag, Point
  <1>1. Transferring /\ Streaming /\ StreamsOut /\ Bottom.op = "tests"
    BY <1>0, PointTransferring DEF Streaming
  <1>2. /\ On(<<work[1], Cmd(12, 0), I("Chk_BUSYend")>>) /\ Len(work) = 4
        /\ work[2] = Cmd(12, 0) /\ work[3] = I("Chk_BUSYend")
    BY <1>1 DEF StreamsOut, On
  <1>3. /\ IsStack(work') /\ Len(work') = 4 /\ work' # <<>> /\ work'[1] = a /\ work'[2] = work[2] /\ work'[3] = work[3] /\ Bottom' = Bottom
    BY <1>0, <1>2, Goes1
  <1>4. /\ scenario' = scenario /\ card' = card /\ ctl' = ctl /\ store' = store /\ rsp' = rsp
        /\ RCA' = RCA /\ MMC' = MMC /\ Wide' = Wide /\ block' = block
        /\ rd_cnt' = rd_cnt /\ Rx' = Rx /\ Data_buffer' = Data_buffer /\ asked' = asked /\ j' = j
        /\ wt_cnt' = wt_cnt /\ tx' = tx
        /\ faults' = faults /\ dataFaults' = dataFaults /\ operations' = operations
    BY DEF OutKept, hostVars, busWidth, readVars, writeVars, countVars
  <1>5. Typed'
    <2>1. fifo' \in Seq(WordSet) /\ Len(fifo') <= FifoDepth
      <3>1. fifo \in Seq(WordSet) /\ Len(fifo) \in Nat /\ FifoDepth \in Nat
        BY <1>0, FifoTypes
      <3> QED BY <3>1
    <2> QED BY <1>0, <1>4, <2>1 DEF Typed
  <1>6. On(<<work[1], Cmd(12, 0), I("Chk_BUSYend")>>)' /\ At("streamOut")' /\ work'[1].sent \in Nat
    BY <1>2, <1>3, <1>4 DEF On, At
  <1>7. StreamsOut'
    <2>1. Quiet' /\ (Exact' => Absorbs')
      BY <1>1, <1>4 DEF StreamsOut, Quiet, Silent, Calm, MmcTests, Exact, Absorbs, FinIsOver, Over
    <2>2. MMC'
      BY <1>1, <1>4 DEF StreamsOut
    <2> QED BY <1>6, <2>1, <2>2 DEF StreamsOut
  <1>8. Point'
    BY <1>1, <1>3, <1>4, <1>7 DEF Point, Transferring, Streaming, Agreed
  <1>9. Plain(work') /\ ~Asking /\ (MMC => card.kind = "MMC")
    BY <1>0, <1>3 DEF Plain, Asking, At, Tag, Always
  <1> QED BY <1>3, <1>4, <1>5, <1>8, <1>9, PlainStep

LEMMA StreamOutEnds ==
    ASSUME SdInv, At("streamOut"), Flagging, UNCHANGED readerVars, ctl.fin \/ card.st # "rcv", Goes(<<>>),
           ctl' = [ctl EXCEPT !.fin = FALSE, !.tmo = FALSE, !.busy = FALSE]
    PROVE  SdInv'
  <1>0. Point /\ Typed /\ Always /\ work # <<>> /\ Tag = "streamOut" /\ IsStack(work)
    BY DEF SdInv, At, Tag, Point
  <1>1. Transferring /\ Streaming /\ StreamsOut /\ Bottom.op = "tests"
    BY <1>0, PointTransferring DEF Streaming
  <1>2. /\ On(<<work[1], Cmd(12, 0), I("Chk_BUSYend")>>) /\ Len(work) = 4
        /\ work[2] = Cmd(12, 0) /\ work[3] = I("Chk_BUSYend")
    BY <1>1 DEF StreamsOut, On
  <1>3. /\ IsStack(work') /\ Len(work') = 3 /\ work' # <<>> /\ work'[1] = Cmd(12, 0) /\ work'[2] = I("Chk_BUSYend") /\ Bottom' = Bottom
    BY <1>0, <1>2, Popped
  <1>4. ctl' \in CtlSet /\ ~ctl'.fin /\ ~ctl'.tmo
    <2>1. ctl \in CtlSet
      BY <1>0, CtlTypes
    <2> QED BY <2>1, AllOff
  <1>5. /\ (Agreed => Agreed') /\ (Calm' <=> Calm) /\ (Exact' <=> Exact) /\ block' = block /\ scenario' = scenario /\ (Over => Over')
    BY FlaggingParts
  <1>6. On(<<Cmd(12, 0), I("Chk_BUSYend")>>)'
    BY <1>2, <1>3, <1>5 DEF On
  <1>7. Exact => Over
    BY <1>1 DEF StreamsOut, Absorbs, FinIsOver
  <1>8. Quiet'
    BY <1>1, <1>4, StreamParts DEF StreamsOut
  <1>9. StopsStreamOut'
    BY <1>4, <1>5, <1>6, <1>7, <1>8 DEF StopsStreamOut
  <1>10. Point'
    BY <1>1, <1>3, <1>5, <1>9 DEF Point, Transferring, Streaming
  <1>11. Plain(work') /\ ~Asking
    BY <1>0, <1>3 DEF Plain, Cmd, Asking, At, Tag
  <1>12. ~Listening'
    BY <1>3, <1>11, PlainIs
  <1> QED BY <1>3, <1>4, <1>10, <1>11, <1>12, FlaggingStep

LEMMA StreamedOut ==
    ASSUME SdInv, StreamOut, UNCHANGED scenario, UNCHANGED readerVars
    PROVE  SdInv'
  <1>0. At("streamOut") /\ Head(work) = work[1] /\ work[1].sent \in Nat /\ tx \in Nat
    <2>1. At("streamOut") /\ work # <<>> /\ Point /\ Tag = "streamOut" /\ Typed
      BY DEF StreamOut, At, SdInv, Tag
    <2>2. StreamsOut
      BY <2>1, PointTransferring
    <2> QED BY <2>1, <2>2, TopIs, CountTypes DEF StreamsOut
  <1>1. OutKept
    BY DEF StreamOut, OutKept
  <1> DEFINE a == [op |-> "streamOut", sent |-> work[1].sent + 1]
             word == <<Null, tx + work[1].sent>>
  <1>2. a.op = "streamOut" /\ a.sent \in Nat /\ word \in WordSet
    BY <1>0 DEF WordSet, Sectors
  <1>3. \/ Len(fifo) < FifoDepth /\ fifo' = Append(fifo, word) /\ Goes(<<a>>) /\ UNCHANGED ctl
        \/ /\ ctl.fin \/ card.st # "rcv"
           /\ ctl' = [ctl EXCEPT !.fin = FALSE, !.tmo = FALSE, !.busy = FALSE] /\ Goes(<<>>) /\ UNCHANGED fifo
    BY <1>0, Zenon DEF StreamOut
  <1> HIDE DEF a, word
  <1>4. CASE Len(fifo) < FifoDepth /\ fifo' = Append(fifo, word) /\ Goes(<<a>>) /\ UNCHANGED ctl
    BY <1>0, <1>1, <1>2, <1>4, StreamOutWord
  <1>5. CASE /\ ctl.fin \/ card.st # "rcv"
             /\ ctl' = [ctl EXCEPT !.fin = FALSE, !.tmo = FALSE, !.busy = FALSE] /\ Goes(<<>>) /\ UNCHANGED fifo
    <2>1. Flagging
      BY <1>1, <1>5 DEF Flagging, OutKept
    <2> QED BY <1>0, <1>5, <2>1, StreamOutEnds
  <1> QED BY <1>3, <1>4, <1>5

-----------------------------------------------------------------------------
(* Every step of the host. *)

LEMMA HostSteps ==
    ASSUME SdInv, Host, UNCHANGED scenario, UNCHANGED readerVars
    PROVE  SdInv'
  BY CommandStep, Initialises, TriesConditions, AsksForAddress, PublishesAddress, SelectsCard, SetsWidth, SetsBusOfCard, Flushing,
     BeginsRead, Receiving, AwaitsData, ClearsData, BeginsStream, CommandsStream, Streamed,
     BeginsWrite, TransmitWord, TransmitEnds, BeginsStreamOut, StreamedOut, AwaitsProgramming, EndsWrite,
     AsksStatus, Deselects, ViewsBuffer, Testing DEF Host

-----------------------------------------------------------------------------
(* The display loop. *)

ReaderOps == BottomOps \ {"tests"}
ReaderKeeps == UNCHANGED <<scenario, busWidth, readVars, wt_cnt, busVars, countVars>>

\* Where the loop stands when it has no call under way.
LEMMA AtReader ==
    ASSUME SdInv, work # <<>>, Tag \in ReaderOps
    PROVE  /\ IsStack(work) /\ Len(work) = 1 /\ Bottom = work[1] /\ Head(work) = work[1] /\ Bottom.op = Tag
           /\ scenario.operations = 0 /\ (block >= 1 \/ Tag = "Read_BPB") /\ block \in 0..Blocks
           /\ Agreed /\ Still /\ ~Asking
  <1>1. Resting /\ IsStack(work) /\ Head(work) = work[1]
    BY PointFinding, TopIs DEF ReaderOps, SdInv, Point
  <1>2. Len(work) = 1 /\ Bottom = work[1] /\ (Bottom.op = "tests" <=> scenario.operations > 0)
    BY <1>1 DEF Resting, On, Bottom
  <1>3. scenario.operations \in Nat
    BY FaultTypes DEF SdInv
  <1>4. Tag # "tests" /\ Tag # "receive" /\ Tag # "cmd"
    BY DEF ReaderOps, BottomOps
  <1>5. ~Asking /\ Bottom.op = Tag
    BY <1>1, <1>2, <1>4 DEF Asking, At, Tag
  <1>6. block \in 0..Blocks
    BY DEF SdInv, Typed
  <1>7. scenario.operations = 0
    BY <1>2, <1>3, <1>4, <1>5
  <1> QED BY <1>1, <1>2, <1>4, <1>5, <1>6, <1>7 DEF Resting, Early

LEMMA KeepsParts ==
    ASSUME ReaderKeeps
    PROVE  /\ scenario' = scenario /\ card' = card /\ store' = store /\ rsp' = rsp /\ ctl' = ctl /\ fifo' = fifo
           /\ RCA' = RCA /\ MMC' = MMC /\ Wide' = Wide
           /\ rd_cnt' = rd_cnt /\ Rx' = Rx /\ Data_buffer' = Data_buffer /\ asked' = asked /\ j' = j
           /\ wt_cnt' = wt_cnt /\ faults' = faults /\ dataFaults' = dataFaults /\ operations' = operations
           /\ (Still => Still') /\ (Agreed => Agreed')
           /\ (Calm' <=> Calm) /\ (Exact' <=> Exact) /\ (MmcTests' <=> MmcTests)
  <1>1. /\ scenario' = scenario /\ card' = card /\ store' = store /\ rsp' = rsp /\ ctl' = ctl /\ fifo' = fifo
        /\ RCA' = RCA /\ MMC' = MMC /\ Wide' = Wide
        /\ rd_cnt' = rd_cnt /\ Rx' = Rx /\ Data_buffer' = Data_buffer /\ asked' = asked /\ j' = j
        /\ wt_cnt' = wt_cnt /\ faults' = faults /\ dataFaults' = dataFaults /\ operations' = operations
    BY DEF ReaderKeeps, busWidth, readVars, busVars, countVars
  <1>2. (Still => Still') /\ (Agreed => Agreed') /\ (Calm' <=> Calm) /\ (Exact' <=> Exact) /\ (MmcTests' <=> MmcTests)
    BY <1>1 DEF Still, Quiet, Silent, NoneLeft, Over, Calm, Exact, MmcTests, Agreed
  <1> QED BY <1>1, <1>2

\* Whatever it does next, the loop leaves the host and the card alone.
LEMMA ReaderStep ==
    ASSUME SdInv, work # <<>>, Tag \in ReaderOps, ReaderKeeps, tx' \in Nat, block' \in 1..Blocks, ReaderTyped', Point'
    PROVE  SdInv'
  <1>1. Typed /\ Always
    BY DEF SdInv
  <1>2. Blocks \in Nat /\ block' \in 0..Blocks
    BY Sizes
  <1>3. Typed'
    BY <1>1, <1>2, KeepsParts DEF Typed
  <1>4. scenario.operations = 0 /\ ~Asking
    BY AtReader
  <1>5. WholeBuffer'
    BY <1>1, <1>4, KeepsParts DEF Always, WholeBuffer
  <1>6. (InPlace(Rx, Words)' <=> InPlace(Rx, Words)) /\ (InPlace(Data_buffer, Bytes)' <=> InPlace(Data_buffer, Bytes))
    BY KeepsParts DEF InPlace
  <1>7. ~(scenario'.operations > 0)
    BY <1>4, KeepsParts
  <1>8. /\ ctl'.tmo => dataFaults' > 0
        /\ card'.kind = "MMC" => ~card'.wide
        /\ MMC' => card'.kind = "MMC"
        /\ ~MmcTests' => InPlace(Rx, Words)'
        /\ Calm' => InPlace(Data_buffer, Bytes)'
    BY <1>1, <1>6, KeepsParts DEF Always
  <1>9. Always'
    BY <1>5, <1>7, <1>8 DEF Always
  <1> QED BY <1>3, <1>9 DEF SdInv

LEMMA ReaderGoesOn ==
    ASSUME SdInv, work # <<>>, Tag \in ReaderOps, ReaderKeeps, tx' \in Nat, block' \in 1..Blocks, ReaderTyped',
           NEW a, a.op \in ReaderOps, Goes(<<a>>)
    PROVE  SdInv'
  <1>1. IsStack(work) /\ Len(work) = 1 /\ scenario.operations = 0 /\ Agreed /\ Still
    BY AtReader
  <1>2. IsStack(work') /\ Len(work') = 1 /\ work' # <<>> /\ work'[1] = a
    BY <1>1, Goes1
  <1>3. Agreed' /\ Still' /\ scenario'.operations = 0
    BY <1>1, KeepsParts
  <1>4. On(<<>>)'
    <2>1. Bottom' = a /\ Bottom'.op \in BottomOps /\ Bottom'.op # "tests" /\ ~(scenario'.operations > 0)
      BY <1>2, <1>3 DEF Bottom, ReaderOps
    <2> QED BY <1>2, <2>1 DEF On
  <1>5. block' >= 1
    BY Sizes
  <1>6. Point'
    BY <1>2, <1>3, <1>4, <1>5 DEF Point, Resting
  <1> QED BY <1>6, ReaderStep

LEMMA ReaderCalls ==
    ASSUME SdInv, work # <<>>, Tag \in ReaderOps, ReaderKeeps, tx' \in Nat, block' \in 1..Blocks, ReaderTyped',
           NEW s \in Int, NEW a, a.op \in ReaderOps, Reads(s, a)
    PROVE  SdInv'
  <1> DEFINE b == Start(s)
  <1>1. IsStack(work) /\ Len(work) = 1 /\ scenario.operations = 0 /\ Agreed /\ Still
    BY AtReader
  <1>2. Goes(<<b, a>>) /\ b.op = "Rd_Block" /\ b.sector = s
    BY DEF Reads, Read, Start
  <1> HIDE DEF b
  <1>3. IsStack(work') /\ Len(work') = 2 /\ work' # <<>> /\ work'[1] = b /\ work'[2] = a /\ Head(work') = work'[1]
    <2>1. IsStack(work') /\ Len(work') = 2 /\ work' # <<>> /\ work'[1] = b /\ work'[2] = a
      BY <1>1, <1>2, Goes2
    <2> QED BY <2>1
  <1>4. Agreed' /\ Still' /\ scenario'.operations = 0
    BY <1>1, KeepsParts
  <1>5. On(<<work[1]>>)'
    <2>1. Bottom' = a /\ Bottom'.op \in BottomOps /\ Bottom'.op # "tests" /\ ~(scenario'.operations > 0)
      BY <1>3, <1>4 DEF Bottom, ReaderOps
    <2> QED BY <1>3, <2>1 DEF On
  <1>6. At("Rd_Block")'
    BY <1>2, <1>3 DEF At
  <1>7. StartsRead' /\ block' >= 1
    BY <1>2, <1>3, <1>4, <1>5, <1>6, Sizes DEF StartsRead
  <1>8. Point'
    BY <1>3, <1>4, <1>7 DEF Point, Transferring, Reading
  <1> QED BY <1>8, ReaderStep

\* The addresses of the volume, once its first sector has been read.
LEMMA Geometry ==
    ASSUME SdInv, work # <<>>, Tag \in ReaderOps \ {"Read_BPB", "BPB"}
    PROVE  /\ SecPerClus \in Nat \ {0} /\ RsvdSec \in Nat /\ RootDirNum \in Nat /\ RootDirAddr \in Nat
           /\ Data_start_Addr \in Nat /\ DirOffset \in Nat /\ FileOffset \in Nat /\ FatBase \in Nat
           /\ DirOffset <= Data_start_Addr /\ FileOffset <= Data_start_Addr
           /\ page_addr \in Nat /\ h \in 0..12 /\ Len(remainder) \in 0..2 /\ Root_Directory.cluster \in Nat
  <1>1. scenario.operations = 0 /\ Bottom.op = Tag /\ scenario \in Scenarios /\ ReaderTyped
    BY AtReader DEF SdInv, Typed, ReaderOps
  <1>2. /\ SecPerClus = volume.SecPerClus /\ RsvdSec = volume.RsvdSec /\ RootDirNum = volume.RootDirNum
        /\ RootDirAddr = volume.Fatsz16 * 2 + volume.RsvdSec + RootBase
        /\ Data_start_Addr = RootDirAddr + RootDirNum \div Words
    BY <1>1 DEF ReaderTyped, Bottom
  <1> DEFINE data == volume.Fatsz16 * 2 + volume.RsvdSec + RootBase + volume.RootDirNum \div Words
  <1>3. /\ volume.SecPerClus \in Nat \ {0} /\ {volume.RsvdSec, volume.RootDirNum, volume.Fatsz16} \subseteq Nat
        /\ DirOffset <= data /\ FileOffset <= data
    BY <1>1, ReaderAssumption DEF ReaderAssumption, volume
  <1>4. volume.RsvdSec \in Nat /\ volume.RootDirNum \in Nat /\ volume.Fatsz16 \in Nat
    BY <1>3
  <1>5. RootBase \in Nat /\ DirOffset \in Nat /\ FileOffset \in Nat /\ FatBase \in Nat
    BY ReaderAssumption DEF ReaderAssumption
  <1>6. volume.RootDirNum \div Words \in Nat
    BY <1>4, Sizes
  <1>7. Data_start_Addr = data /\ data \in Nat /\ RootDirAddr \in Nat
    <2> DEFINE r == volume.RootDirNum \div Words
               f == volume.Fatsz16
               v == volume.RsvdSec
    <2>1. f \in Nat /\ v \in Nat /\ r \in Nat
      BY <1>4, <1>6
    <2>2. RootDirAddr = f * 2 + v + RootBase /\ Data_start_Addr = RootDirAddr + r /\ data = f * 2 + v + RootBase + r
      BY <1>2
    <2> HIDE DEF f, v, r, data
    <2> QED BY <1>5, <2>1, <2>2
  <1> HIDE DEF data
  <1> QED BY <1>1, <1>2, <1>3, <1>4, <1>5, <1>7 DEF ReaderTyped

LEMMA ReaderTypes ==
    ASSUME SdInv, work # <<>>, Tag \in ReaderOps \ {"Read_BPB", "BPB"}, UNCHANGED <<scenario, bpbVars>>,
           h' \in 0..12, Len(remainder') \in 0..2, page_addr' \in Nat, Root_Directory'.cluster \in Nat
    PROVE  ReaderTyped'
  <1>1. scenario.operations = 0 /\ Bottom.op = Tag /\ ReaderTyped
    BY AtReader DEF SdInv, ReaderOps
  <1>2. /\ SecPerClus = volume.SecPerClus /\ RsvdSec = volume.RsvdSec /\ RootDirNum = volume.RootDirNum
        /\ RootDirAddr = volume.Fatsz16 * 2 + volume.RsvdSec + RootBase
        /\ Data_start_Addr = RootDirAddr + RootDirNum \div Words
    BY <1>1 DEF ReaderTyped, Bottom
  <1>3. /\ SecPerClus' = SecPerClus /\ RsvdSec' = RsvdSec /\ RootDirNum' = RootDirNum
        /\ RootDirAddr' = RootDirAddr /\ Data_start_Addr' = Data_start_Addr /\ volume' = volume
    BY DEF bpbVars, volume
  <1> QED BY <1>2, <1>3 DEF ReaderTyped

LEMMA ReadsVolume ==
    ASSUME SdInv, Read_BPB, UNCHANGED scenario
    PROVE  SdInv'
  <1>1. work # <<>> /\ Tag = "Read_BPB" /\ Tag \in ReaderOps /\ block' = 1 /\ Reads(FatBase, I("BPB"))
    BY DEF Read_BPB, At, Tag, ReaderOps, BottomOps
  <1>2. ReaderKeeps /\ tx' = tx
    BY DEF Read_BPB, ReaderKeeps, writeVars
  <1>3. tx \in Nat /\ Blocks \in Nat /\ Blocks >= 1 /\ FatBase \in Int /\ ReaderTyped
    BY Sizes, ReaderAssumption DEF SdInv, Typed, ReaderAssumption
  <1> DEFINE a == I("BPB")
             b == Start(FatBase)
  <1>4. a.op = "BPB" /\ a.op \in ReaderOps
    BY DEF I, ReaderOps, BottomOps
  <1>5. Goes(<<b, a>>) /\ Reads(FatBase, a)
    BY <1>1 DEF Reads, Read
  <1> HIDE DEF a, b
  <1>6. Bottom'.op = "BPB"
    <2>1. IsStack(work) /\ Len(work) = 1
      BY <1>1, AtReader
    <2>2. Len(work') = 2 /\ work'[2] = a
      BY <1>1, <1>5, <2>1, Goes2
    <2> QED BY <1>4, <2>2 DEF Bottom
  <1>7. ReaderTyped'
    <2>1. h' = h /\ remainder' = remainder /\ page_addr' = page_addr /\ Root_Directory' = Root_Directory
      BY DEF Read_BPB, readerVars
    <2> QED BY <1>3, <1>6, <2>1 DEF ReaderTyped, Bottom
  <1>8. tx' \in Nat /\ block' \in 1..Blocks
    BY <1>1, <1>2, <1>3
  <1> QED BY <1>1, <1>2, <1>3, <1>4, <1>5, <1>7, <1>8, ReaderCalls

LEMMA HostUnchanged ==
    ASSUME SdInv, work # <<>>, Tag \in ReaderOps \ {"Read_BPB"}, UNCHANGED scenario, UnchangedHost
    PROVE  ReaderKeeps /\ tx' \in Nat /\ block' \in 1..Blocks
  <1>1. ReaderKeeps /\ tx' = tx /\ block' = block
    BY DEF UnchangedHost, hostVars, writeVars, ReaderKeeps
  <1>2. tx \in Nat /\ block >= 1 /\ block \in 0..Blocks /\ Blocks \in Nat
    BY AtReader, Sizes DEF SdInv, Typed
  <1> QED BY <1>1, <1>2

LEMMA ReadsGeometry ==
    ASSUME SdInv, BPB, UNCHANGED scenario
    PROVE  SdInv'
  <1>1. work # <<>> /\ Tag = "BPB" /\ Tag \in ReaderOps \ {"Read_BPB"} /\ UnchangedHost
    BY DEF BPB, At, Tag, ReaderOps, BottomOps
  <1> DEFINE a == I("screen")
  <1>2. a.op \in ReaderOps /\ Goes(<<a>>)
    BY DEF BPB, I, ReaderOps, BottomOps
  <1> HIDE DEF a
  <1>3. ReaderTyped'
    <2>1. h' = h /\ remainder' = remainder /\ page_addr' = page_addr /\ Root_Directory' = Root_Directory
      BY DEF BPB
    <2>2. /\ SecPerClus' = volume.SecPerClus /\ RsvdSec' = volume.RsvdSec /\ RootDirNum' = volume.RootDirNum
          /\ RootDirAddr' = volume.Fatsz16 * 2 + RsvdSec' + RootBase
          /\ Data_start_Addr' = RootDirAddr' + RootDirNum' \div Words
      BY DEF BPB
    <2>3. volume' = volume /\ ReaderTyped
      BY DEF volume, SdInv
    <2> QED BY <2>1, <2>2, <2>3 DEF ReaderTyped
  <1> QED BY <1>1, <1>2, <1>3, HostUnchanged, ReaderGoesOn

\* The actions that leave what the loop knows of the volume alone.
LEMMA LoopGoesOn ==
    ASSUME SdInv, work # <<>>, Tag \in ReaderOps \ {"Read_BPB", "BPB"}, UNCHANGED scenario, UnchangedHost, UNCHANGED bpbVars,
           h' \in 0..12, Len(remainder') \in 0..2, page_addr' \in Nat, Root_Directory'.cluster \in Nat,
           NEW a, a.op \in ReaderOps, \/ Goes(<<a>>)
                                      \/ \E s \in Int : Reads(s, a)
    PROVE  SdInv'
  <1>1. ReaderKeeps /\ tx' \in Nat /\ block' \in 1..Blocks /\ ReaderTyped' /\ Tag \in ReaderOps
    BY HostUnchanged, ReaderTypes
  <1> QED BY <1>1, ReaderGoesOn, ReaderCalls

LEMMA ShowsScreen ==
    ASSUME SdInv, Screen, UNCHANGED scenario
    PROVE  SdInv'
  <1>1. /\ work # <<>> /\ Tag = "screen" /\ Tag \in ReaderOps \ {"Read_BPB", "BPB"} /\ UnchangedHost /\ UNCHANGED bpbVars
        /\ h' = h /\ remainder' = remainder /\ Root_Directory' = Root_Directory
    BY DEF Screen, At, Tag, ReaderOps, BottomOps
  <1>2. h \in 0..12 /\ Len(remainder) \in 0..2 /\ page_addr \in Nat /\ Root_Directory.cluster \in Nat /\ RootDirAddr \in Nat
    BY <1>1, Geometry
  <1>3. page_addr' \in Nat
    BY <1>2 DEF Screen
  <1>4. \E a : a.op \in ReaderOps /\ Goes(<<a>>)
    <2>1. CASE Goes(<<[op |-> "root", k |-> 0]>>)
      <3> DEFINE a == [op |-> "root", k |-> 0]
      <3>1. a.op \in ReaderOps
        BY DEF ReaderOps, BottomOps
      <3> QED BY <2>1, <3>1
    <2>2. CASE Goes(<<I("stopped")>>)
      <3>1. I("stopped").op \in ReaderOps
        BY DEF I, ReaderOps, BottomOps
      <3> QED BY <2>2, <3>1
    <2>3. CASE Goes(<<I("key")>>)
      <3>1. I("key").op \in ReaderOps
        BY DEF I, ReaderOps, BottomOps
      <3> QED BY <2>3, <3>1
    <2> QED BY <2>1, <2>2, <2>3 DEF Screen
  <1> QED BY <1>1, <1>2, <1>3, <1>4, LoopGoesOn

LEMMA PressesKey ==
    ASSUME SdInv, Key, UNCHANGED scenario
    PROVE  SdInv'
  <1>1. /\ work # <<>> /\ Tag \in ReaderOps \ {"Read_BPB", "BPB"} /\ UnchangedHost /\ UNCHANGED bpbVars
        /\ remainder' = remainder /\ Root_Directory' = Root_Directory /\ page_addr' = page_addr
    BY DEF Key, At, Tag, ReaderOps, BottomOps
  <1>2. h \in 0..12 /\ Len(remainder) \in 0..2 /\ page_addr \in Nat /\ Root_Directory.cluster \in Nat
    BY <1>1, Geometry
  <1>3. h' = h \/ h' = (h + 1) % 13
    BY DEF Key
  <1>4. h' \in 0..12
    BY <1>2, <1>3
  <1>5. \E a : a.op \in ReaderOps /\ Goes(<<a>>)
    <2>1. I("paused").op \in ReaderOps /\ I("screen").op \in ReaderOps
      BY DEF I, ReaderOps, BottomOps
    <2>2. Goes(<<I("paused")>>) \/ Goes(<<I("screen")>>)
      BY DEF Key
    <2> QED BY <2>1, <2>2
  <1> QED BY <1>1, <1>2, <1>4, <1>5, LoopGoesOn

-----------------------------------------------------------------------------
(* The directories. *)

Less == {ss \in Nat \X Nat : ss[1] < ss[2]}
LEMMA LessWF == IsWellFoundedOn(Less, Nat)
  BY ONLY NatLessThanWellFounded DEF OpToRel, Less

LEMMA FirstIs ==
    ASSUME NEW S \in SUBSET Nat, S # {}
    PROVE  FirstOf(S) \in S
  <1>1. PICK x \in S : \A y \in S : ~(<<y, x>> \in Less)
    BY LessWF, WFMin
  <1>2. ASSUME NEW y \in S PROVE x <= y
    <2>1. x \in Nat /\ y \in Nat /\ <<y, x>> \notin Less
      BY <1>1
    <2>2. ~(y < x)
      BY <2>1 DEF Less
    <2> QED BY <2>1, <2>2
  <1> QED BY <1>2 DEF FirstOf

LEMMA EntryIs ==
    ASSUME SdInv, scenario.operations = 0, NEW i \in 0..(Words - 1)
    PROVE  EntryOf(i).cluster \in Nat
  <1>1. scenario \in Scenarios /\ volume = scenario.volume /\ i + 1 \in 1..Words
    BY Sizes DEF SdInv, Typed, volume
  <1>2. \A p \in DOMAIN volume.entries : \A n \in 1..Words : volume.entries[p][n].cluster \in Nat
    BY <1>1, ReaderAssumption DEF ReaderAssumption
  <1>3. NoEntry.cluster = 0
    BY DEF NoEntry
  <1> QED BY <1>1, <1>2, <1>3 DEF EntryOf

LEMMA FoundIs ==
    ASSUME SdInv, scenario.operations = 0, NEW name
    PROVE  Found(name).cluster \in Nat
  <1>1. Words - 1 \in 0..(Words - 1) /\ Matches(name) \subseteq 0..(Words - 1) /\ 0..(Words - 1) \subseteq Nat
    BY Sizes DEF Matches
  <1>2. Matches(name) # {} => FirstOf(Matches(name)) \in 0..(Words - 1)
    BY <1>1, FirstIs
  <1> DEFINE i == IF Matches(name) = {} THEN Words - 1 ELSE FirstOf(Matches(name))
  <1>3. i \in 0..(Words - 1)
    BY <1>1, <1>2
  <1>4. Found(name) = EntryOf(i)
    BY DEF Found
  <1> HIDE DEF i
  <1> QED BY <1>3, <1>4, EntryIs

LEMMA AddrIs ==
    ASSUME SdInv, work # <<>>, Tag \in ReaderOps \ {"Read_BPB", "BPB"}, NEW e, e.cluster \in Nat, NEW offset \in {DirOffset, FileOffset}
    PROVE  ClusterAddr(e, offset) \in Nat
  <1> DEFINE n == e.cluster
  <1>1. /\ Data_start_Addr \in Nat /\ offset \in Nat /\ offset <= Data_start_Addr /\ SecPerClus \in Nat /\ n \in Nat
    BY Geometry
  <1>2. n * SecPerClus \in Nat
    BY <1>1
  <1>3. ClusterAddr(e, offset) = Data_start_Addr + n * SecPerClus - offset
    BY DEF ClusterAddr
  <1> HIDE DEF n
  <1> QED BY <1>1, <1>2, <1>3

\* What the steps through the directories have in common.
LEMMA DirectoryStep ==
    ASSUME SdInv, work # <<>>, Tag \in ReaderOps \ {"Read_BPB", "BPB"}, UNCHANGED scenario, UnchangedHost,
           UNCHANGED <<bpbVars, h, image, remainder>>, page_addr' \in Nat, Root_Directory'.cluster \in Nat,
           NEW a, a.op \in ReaderOps, Goes(<<a>>) \/ Reads(page_addr, a) \/ Reads(page_addr', a)
    PROVE  SdInv'
  <1>1. h' = h /\ remainder' = remainder /\ UNCHANGED bpbVars
    OBVIOUS
  <1>2. h \in 0..12 /\ Len(remainder) \in 0..2 /\ page_addr \in Nat
    BY Geometry
  <1>3. Goes(<<a>>) \/ \E s \in Int : Reads(s, a)
    BY <1>2
  <1> QED BY <1>1, <1>2, <1>3, LoopGoesOn

LEMMA ScanIs ==
    ASSUME NEW name, Goes(scan(name))
    PROVE  \E a : a.op \in ReaderOps /\ Reads(page_addr', a)
  <1> DEFINE a == [op |-> "dir", name |-> name]
  <1>1. Reads(page_addr', a) /\ a.op \in ReaderOps
    BY DEF scan, Reads, ReaderOps, BottomOps
  <1> QED BY <1>1

LEMMA ScansRoot ==
    ASSUME SdInv, ScanRoot, UNCHANGED scenario
    PROVE  SdInv'
  <1>1. /\ work # <<>> /\ Tag = "root" /\ Tag \in ReaderOps \ {"Read_BPB", "BPB"} /\ UnchangedHost
        /\ UNCHANGED <<bpbVars, h, image, remainder>> /\ Root_Directory' = Root_Directory
    BY DEF ScanRoot, At, Tag, ReaderOps, BottomOps
  <1>2. page_addr \in Nat /\ Root_Directory.cluster \in Nat
    BY <1>1, Geometry
  <1>3. Root_Directory'.cluster \in Nat
    BY <1>1, <1>2
  <1>4. CASE Reads(page_addr, [op |-> "rootLook", k |-> Head(work).k]) /\ UNCHANGED page_addr
    <2> DEFINE a == [op |-> "rootLook", k |-> Head(work).k]
    <2>1. a.op \in ReaderOps /\ Reads(page_addr, a)
      BY <1>4 DEF ReaderOps, BottomOps
    <2> HIDE DEF a
    <2> QED BY <1>1, <1>2, <1>3, <1>4, <2>1, DirectoryStep
  <1>5. CASE page_addr' = ClusterAddr(Root_Directory, DirOffset) /\ Goes(scan("2432"))
    <2>1. page_addr' \in Nat
      BY <1>1, <1>2, <1>5, AddrIs
    <2>2. PICK a : a.op \in ReaderOps /\ Reads(page_addr', a)
      BY <1>5, ScanIs
    <2> QED BY <1>1, <1>3, <2>1, <2>2, DirectoryStep
  <1> QED BY <1>4, <1>5 DEF ScanRoot

LEMMA LooksInRoot ==
    ASSUME SdInv, LookRoot, UNCHANGED scenario
    PROVE  SdInv'
  <1>1. /\ work # <<>> /\ Tag = "rootLook" /\ Tag \in ReaderOps \ {"Read_BPB", "BPB"} /\ UnchangedHost
        /\ UNCHANGED <<bpbVars, h, image, remainder>> /\ Root_Directory' = Found("BMP ")
    BY DEF LookRoot, At, Tag, ReaderOps, BottomOps
  <1>2. page_addr \in Nat /\ scenario.operations = 0
    BY <1>1, Geometry, AtReader
  <1>3. Root_Directory'.cluster \in Nat
    BY <1>1, <1>2, FoundIs
  <1>4. CASE page_addr' = ClusterAddr(Root_Directory', DirOffset) /\ Goes(scan("2432"))
    <2>1. page_addr' \in Nat
      BY <1>1, <1>3, <1>4, AddrIs
    <2>2. PICK a : a.op \in ReaderOps /\ Reads(page_addr', a)
      BY <1>4, ScanIs
    <2> QED BY <1>1, <1>3, <2>1, <2>2, DirectoryStep
  <1>5. CASE page_addr' = page_addr + 1 /\ Goes(<<[op |-> "root", k |-> Head(work).k + 1]>>)
    <2> DEFINE a == [op |-> "root", k |-> Head(work).k + 1]
    <2>1. a.op \in ReaderOps /\ Goes(<<a>>)
      BY <1>5 DEF ReaderOps, BottomOps
    <2>2. page_addr' \in Nat
      BY <1>2, <1>5
    <2> HIDE DEF a
    <2> QED BY <1>1, <1>3, <2>1, <2>2, DirectoryStep
  <1> QED BY <1>4, <1>5 DEF LookRoot

LEMMA LooksInDirectory ==
    ASSUME SdInv, LookDir, UNCHANGED scenario
    PROVE  SdInv'
  <1> DEFINE name == Head(work).name
  <1>1. /\ work # <<>> /\ Tag = "dir" /\ Tag \in ReaderOps \ {"Read_BPB", "BPB"} /\ UnchangedHost
        /\ UNCHANGED <<bpbVars, h, image, remainder>> /\ Root_Directory' = Found(name)
    BY DEF LookDir, At, Tag, ReaderOps, BottomOps
  <1>2. page_addr \in Nat /\ scenario.operations = 0
    BY <1>1, Geometry, AtReader
  <1>3. Root_Directory'.cluster \in Nat
    BY <1>1, <1>2, FoundIs
  <1>4. \/ page_addr' = page_addr + 1 /\ \E n : Goes(scan(n))
        \/ page_addr' = ClusterAddr(Root_Directory', DirOffset) /\ \E n : Goes(scan(n))
        \/ page_addr' = ClusterAddr(Root_Directory', FileOffset) /\ Reads(page_addr', I("first"))
        \/ page_addr' = ClusterAddr(Root_Directory', FileOffset) /\ Reads(page_addr, I("first"))
    BY DEF LookDir
  <1>5. page_addr' \in Nat
    <2>1. ClusterAddr(Root_Directory', DirOffset) \in Nat /\ ClusterAddr(Root_Directory', FileOffset) \in Nat
      BY <1>1, <1>3, AddrIs
    <2> QED BY <1>2, <1>4, <2>1
  <1>6. \E a : a.op \in ReaderOps /\ (Reads(page_addr', a) \/ Reads(page_addr, a))
    <2>1. I("first").op \in ReaderOps
      BY DEF I, ReaderOps, BottomOps
    <2> QED BY <1>4, <2>1, ScanIs
  <1> QED BY <1>1, <1>3, <1>5, <1>6, DirectoryStep

-----------------------------------------------------------------------------
(* The picture. *)

LEMMA PicturePart ==
    ASSUME SdInv, work # <<>>, Tag \in ReaderOps \ {"Read_BPB", "BPB"}, UNCHANGED scenario, UnchangedHost,
           UNCHANGED <<bpbVars, h, page_addr, Root_Directory>>, Len(remainder') \in 0..2,
           NEW a, a.op \in ReaderOps, Goes(<<a>>)
    PROVE  SdInv'
  <1>1. h' = h /\ page_addr' = page_addr /\ Root_Directory' = Root_Directory /\ UNCHANGED bpbVars
    OBVIOUS
  <1>2. h \in 0..12 /\ page_addr \in Nat /\ Root_Directory.cluster \in Nat
    BY Geometry
  <1> QED BY <1>1, <1>2, LoopGoesOn

LEMMA LastBytesIs == ASSUME NEW n \in Nat PROVE Len(LastBytes(n)) = n
  BY DEF LastBytes

LEMMA TakesFirst ==
    ASSUME SdInv, FirstSector, UNCHANGED scenario
    PROVE  SdInv'
  <1>1. /\ work # <<>> /\ Tag = "first" /\ Tag \in ReaderOps \ {"Read_BPB", "BPB"} /\ Tag \in ReaderOps
        /\ UNCHANGED <<bpbVars, h, page_addr, Root_Directory>> /\ ReaderKeeps /\ tx' = 0 /\ block' = block
    BY DEF FirstSector, At, Tag, ReaderOps, BottomOps, ReaderKeeps
  <1>2. PICK header_size \in HeaderSizes : remainder' = LastBytes((Bytes - header_size) % 3)
    BY DEF FirstSector
  <1>3. h \in 0..12 /\ page_addr \in Nat /\ Root_Directory.cluster \in Nat /\ scenario.operations = 0 /\ scenario \in Scenarios
    BY <1>1, Geometry, AtReader DEF SdInv, Typed
  <1>4. header_size \in 0..Bytes
    <2>1. \A p \in DOMAIN volume.header : volume.header[p] \in 0..Bytes
      BY <1>3, ReaderAssumption DEF ReaderAssumption, volume
    <2> QED BY <1>2, <2>1 DEF HeaderSizes
  <1>5. (Bytes - header_size) % 3 \in 0..2
    BY <1>4, Sizes
  <1>6. Len(remainder') \in 0..2
    <2> DEFINE r == (Bytes - header_size) % 3
    <2>1. remainder' = LastBytes(r) /\ r \in 0..2 /\ r \in Nat
      BY <1>2, <1>5
    <2> HIDE DEF r
    <2>2. Len(LastBytes(r)) = r
      BY <2>1, LastBytesIs
    <2> QED BY <2>1, <2>2
  <1>7. ReaderTyped'
    <2>1. h' = h /\ page_addr' = page_addr /\ Root_Directory' = Root_Directory /\ UNCHANGED bpbVars
      BY <1>1
    <2> QED BY <1>1, <1>3, <1>6, <2>1, ReaderTypes
  <1>8. block' \in 1..Blocks /\ tx' \in Nat
    <2>1. block >= 1 /\ block \in 0..Blocks /\ Blocks \in Nat
      BY <1>1, AtReader, Sizes
    <2> QED BY <1>1, <2>1
  <1> DEFINE a == [op |-> "cluster", n |-> 0]
  <1>9. a.op \in ReaderOps /\ Goes(<<a>>)
    BY DEF FirstSector, ReaderOps, BottomOps
  <1> HIDE DEF a
  <1> QED BY <1>1, <1>7, <1>8, <1>9, ReaderGoesOn

LEMMA RestIs ==
    ASSUME Len(remainder) \in 0..2
    PROVE  Len(SectorPixels.rest) \in 0..2
  <1>1. Len(LastBytes(2)) = 2 /\ Len(LastBytes(1)) = 1 /\ Len(<<>>) = 0
    BY LastBytesIs
  <1>2. SectorPixels.rest \in {LastBytes(2), LastBytes(1), <<>>}
    <2>1. CASE Len(remainder) = 0
      BY <2>1 DEF SectorPixels
    <2>2. CASE Len(remainder) = 1
      BY <2>2 DEF SectorPixels
    <2>3. CASE Len(remainder) = 2
      BY <2>3 DEF SectorPixels
    <2> QED BY <2>1, <2>2, <2>3
  <1> QED BY <1>1, <1>2

LEMMA TakesPixels ==
    ASSUME SdInv, Pixels, UNCHANGED scenario
    PROVE  SdInv'
  <1>1. /\ work # <<>> /\ Tag \in ReaderOps \ {"Read_BPB", "BPB"} /\ UnchangedHost
        /\ UNCHANGED <<bpbVars, h, page_addr, Root_Directory>> /\ remainder' = SectorPixels.rest
    BY DEF Pixels, At, Tag, ReaderOps, BottomOps
  <1> DEFINE a == [op |-> "cluster", n |-> Head(work).n]
  <1>2. a.op \in ReaderOps /\ Goes(<<a>>)
    BY DEF Pixels, ReaderOps, BottomOps
  <1> HIDE DEF a
  <1>3. Len(remainder') \in 0..2
    BY <1>1, Geometry, RestIs
  <1> QED BY <1>1, <1>2, <1>3, PicturePart

LEMMA ShowsPicture ==
    ASSUME SdInv, Shown, UNCHANGED scenario
    PROVE  SdInv'
  <1>1. /\ work # <<>> /\ Tag \in ReaderOps \ {"Read_BPB", "BPB"} /\ UnchangedHost
        /\ UNCHANGED <<bpbVars, h, page_addr, Root_Directory>> /\ remainder' = <<>>
    BY DEF Shown, At, Tag, ReaderOps, BottomOps
  <1> DEFINE a == I("key")
  <1>2. a.op \in ReaderOps /\ Goes(<<a>>)
    BY DEF Shown, I, ReaderOps, BottomOps
  <1> HIDE DEF a
  <1>3. Len(remainder') \in 0..2
    BY <1>1
  <1> QED BY <1>1, <1>2, <1>3, PicturePart

\* Reading on, at whatever sector.
LEMMA ReadsOn ==
    ASSUME SdInv, work # <<>>, Tag \in ReaderOps \ {"Read_BPB", "BPB"}, UNCHANGED scenario, UnchangedHost,
           UNCHANGED <<bpbVars, h, Root_Directory, image, remainder>>, page_addr' \in Nat,
           NEW s \in Int, NEW a, a.op \in ReaderOps, Goes(<<a>>) \/ Reads(s, a)
    PROVE  SdInv'
  <1>1. h' = h /\ remainder' = remainder /\ Root_Directory' = Root_Directory /\ UNCHANGED bpbVars
    OBVIOUS
  <1>2. h \in 0..12 /\ Len(remainder) \in 0..2 /\ Root_Directory.cluster \in Nat
    BY Geometry
  <1> QED BY <1>1, <1>2, LoopGoesOn

LEMMA Quotient == ASSUME NEW a \in Int, NEW b \in Nat \ {0} PROVE a \div b \in Int
  OBVIOUS

LEMMA ReadsCluster ==
    ASSUME SdInv, Cluster, UNCHANGED scenario
    PROVE  SdInv'
  <1>1. /\ work # <<>> /\ Tag \in ReaderOps \ {"Read_BPB", "BPB"} /\ UnchangedHost
        /\ UNCHANGED <<bpbVars, h, Root_Directory, image, remainder>>
    BY DEF Cluster, At, Tag, ReaderOps, BottomOps
  <1>2. /\ page_addr \in Nat /\ Data_start_Addr \in Nat /\ FileOffset \in Nat /\ FatBase \in Nat
        /\ SecPerClus \in Nat \ {0} /\ RsvdSec \in Nat
    BY <1>1, Geometry
  <1> DEFINE n == Head(work).n
  <1>3. CASE page_addr' = page_addr + 1 /\ Reads(page_addr', [op |-> "pixels", n |-> n + 1])
    <2> DEFINE a == [op |-> "pixels", n |-> n + 1]
    <2>1. a.op \in ReaderOps /\ Reads(page_addr', a)
      BY <1>3 DEF ReaderOps, BottomOps
    <2>2. page_addr' \in Nat /\ page_addr' \in Int
      BY <1>2, <1>3
    <2> HIDE DEF a
    <2> QED BY <1>1, <2>1, <2>2, ReadsOn
  <1> DEFINE current == (page_addr - Data_start_Addr + FileOffset) \div SecPerClus
             entries == Bytes \div 2
             s == RsvdSec + current \div entries + FatBase
  <1>4. CASE Reads(s, [op |-> "FAT", entry |-> current % entries]) /\ UNCHANGED page_addr
    <2> DEFINE a == [op |-> "FAT", entry |-> current % entries]
    <2>1. a.op \in ReaderOps /\ Reads(s, a)
      BY <1>4 DEF ReaderOps, BottomOps
    <2>2. current \in Int
      <3>1. page_addr - Data_start_Addr + FileOffset \in Int
        BY <1>2
      <3> QED BY <1>2, <3>1, Quotient
    <2>3. entries \in Nat \ {0}
      BY Sizes
    <2> HIDE DEF current, entries
    <2>4. current \div entries \in Int
      BY <2>2, <2>3, Quotient
    <2> DEFINE q == current \div entries
    <2>5. RsvdSec + q + FatBase \in Int
      <3> HIDE DEF q
      <3>1. q \in Int
        BY <2>4 DEF q
      <3> QED BY <1>2, <3>1
    <2>6. s \in Int
      BY <2>5
    <2>7. page_addr' \in Nat
      BY <1>2, <1>4
    <2> HIDE DEF a, s, q
    <2> QED BY <1>1, <2>1, <2>6, <2>7, ReadsOn
  <1> QED BY <1>3, <1>4 DEF Cluster

LEMMA FindsCluster ==
    ASSUME SdInv, NextCluster, UNCHANGED scenario
    PROVE  SdInv'
  <1>1. /\ work # <<>> /\ Tag \in ReaderOps \ {"Read_BPB", "BPB"} /\ UnchangedHost /\ Tag \in ReaderOps
        /\ UNCHANGED <<bpbVars, h, Root_Directory, image, remainder>>
    BY DEF NextCluster, At, Tag, ReaderOps, BottomOps
  <1>2. /\ page_addr \in Nat /\ Data_start_Addr \in Nat /\ FileOffset \in Nat /\ FileOffset <= Data_start_Addr
        /\ SecPerClus \in Nat /\ scenario.operations = 0 /\ scenario \in Scenarios
    BY <1>1, Geometry, AtReader DEF SdInv, Typed
  <1>3. PICK next \in NextClusters(Head(work).entry) :
            IF next = EndOfChain THEN Goes(<<I("shown")>>) /\ UNCHANGED page_addr
            ELSE /\ page_addr' = SecPerClus * next + Data_start_Addr - FileOffset
                 /\ Reads(page_addr', [op |-> "pixels", n |-> 0])
    BY DEF NextCluster
  <1>4. next \in Nat
    <2>1. \A c \in DOMAIN volume.fat : volume.fat[c] \in Nat
      BY <1>2, ReaderAssumption DEF ReaderAssumption, volume
    <2> QED BY <1>3, <2>1 DEF NextClusters
  <1>5. CASE Goes(<<I("shown")>>) /\ UNCHANGED page_addr
    <2> DEFINE a == I("shown")
    <2>1. a.op \in ReaderOps /\ Goes(<<a>>)
      BY <1>5 DEF I, ReaderOps, BottomOps
    <2>2. page_addr' \in Nat /\ page_addr' \in Int
      BY <1>2, <1>5
    <2> HIDE DEF a
    <2> QED BY <1>1, <2>1, <2>2, ReadsOn
  <1>6. CASE page_addr' = SecPerClus * next + Data_start_Addr - FileOffset /\ Reads(page_addr', [op |-> "pixels", n |-> 0])
    <2> DEFINE a == [op |-> "pixels", n |-> 0]
    <2>1. a.op \in ReaderOps /\ Reads(page_addr', a)
      BY <1>6 DEF ReaderOps, BottomOps
    <2>2. SecPerClus * next \in Nat
      BY <1>2, <1>4
    <2>3. page_addr' \in Nat /\ page_addr' \in Int
      <3> DEFINE p == SecPerClus * next
      <3>1. p \in Nat /\ page_addr' = p + Data_start_Addr - FileOffset
        BY <1>6, <2>2
      <3> HIDE DEF p
      <3> QED BY <1>2, <3>1
    <2> HIDE DEF a
    <2> QED BY <1>1, <2>1, <2>3, ReadsOn
  <1> QED BY <1>3, <1>5, <1>6

LEMMA ReaderSteps ==
    ASSUME SdInv, Reader, UNCHANGED scenario
    PROVE  SdInv'
  BY ReadsVolume, ReadsGeometry, ShowsScreen, PressesKey, ScansRoot, LooksInRoot, LooksInDirectory,
     TakesFirst, ReadsCluster, TakesPixels, FindsCluster, ShowsPicture DEF Reader

-----------------------------------------------------------------------------
(* The invariant of the specification. *)

LEMMA SdInvInit == Init => SdInv
  <1> SUFFICES ASSUME Init PROVE SdInv
    OBVIOUS
  <1>1. HostInit /\ scenario \in Scenarios
    BY DEF Init, HostInit
  <1>2. /\ scenario.kind \in {"none", "SD", "SDHS", "MMC"}
        /\ scenario.faults \in Nat /\ scenario.dataFaults \in Nat /\ scenario.operations \in Nat
    BY <1>1, SdAssumption DEF SdAssumption
  <1>3. /\ card = [kind |-> scenario.kind, st |-> "idle", rca |-> 0, wide |-> FALSE, app |-> FALSE,
                   sector |-> 0, index |-> 0, multi |-> FALSE]
        /\ rsp = NoResponse /\ ctl = [left |-> 0, fin |-> FALSE, tmo |-> FALSE, busy |-> FALSE] /\ fifo = <<>>
        /\ RCA = 0 /\ MMC = FALSE /\ Wide = TRUE /\ block = 0
        /\ rd_cnt = 0 /\ wt_cnt = 0 /\ tx = 0
        /\ Rx = Blank /\ Data_buffer = [n \in 0..(Bytes - 1) |-> <<Null, n>>]
        /\ asked = Null /\ j = 0 /\ faults = 0 /\ dataFaults = 0 /\ operations = 0
    BY <1>1 DEF HostInit
  <1>4. Typed
    <2>1. card \in CardSet
      <3>1. 0 \in 0..3 /\ 0 \in 0..(Words + 1) /\ 0 \in Int /\ FALSE \in BOOLEAN
        BY Sizes
      <3> QED BY <1>2, <1>3, <3>1 DEF CardSet
    <2>2. ctl \in CtlSet /\ Room \in Nat
      <3>1. Room \in Nat /\ 0 \in 0..Room
        BY Sizes DEF Room
      <3> QED BY <1>3, <3>1 DEF CtlSet
    <2>3. Rx \in [0..(Room - 1) -> WordSet]
      <3>1. \A i \in 0..(Room - 1) : <<Null, i>> \in WordSet
        BY DEF WordSet, Sectors
      <3> QED BY <1>3, <3>1 DEF Blank, Room
    <2>4. Data_buffer \in [0..(Bytes - 1) -> WordSet]
      <3>1. \A i \in 0..(Bytes - 1) : <<Null, i>> \in WordSet
        BY DEF WordSet, Sectors
      <3> QED BY <1>3, <3>1
    <2>5. fifo \in Seq(WordSet) /\ Len(fifo) <= FifoDepth
      BY <1>3, Sizes
    <2>6. rsp \in [is: {"none", "r1", "ocr", "rca", "garbled"}, rca: (0..3) \cup {Garbled}]
      BY <1>3 DEF NoResponse
    <2>7. card.kind = scenario.kind /\ asked \in Sectors
      BY <1>3 DEF Sectors
    <2>8. /\ RCA \in (0..3) \union {Garbled} /\ MMC \in BOOLEAN /\ Wide \in BOOLEAN
          /\ block \in 0..Blocks /\ rd_cnt \in 0..Room /\ wt_cnt \in 0..Room /\ tx \in Nat /\ j \in 0..2
      <3>1. MMC \in BOOLEAN /\ Wide \in BOOLEAN
        BY <1>3
      <3>2. RCA = 0 /\ block = 0 /\ rd_cnt = 0 /\ wt_cnt = 0 /\ tx = 0 /\ j = 0 /\ Blocks \in Nat /\ Room \in Nat
        BY <1>3, <2>2, Sizes
      <3> QED BY <3>1, <3>2
    <2>9. faults \in 0..scenario.faults /\ operations \in 0..scenario.operations /\ dataFaults \in 0..(scenario.dataFaults + operations)
      BY <1>2, <1>3
    <2> QED BY <1>1, <2>1, <2>2, <2>3, <2>4, <2>5, <2>6, <2>7, <2>8, <2>9 DEF Typed
  <1> DEFINE a == IF scenario.operations > 0 THEN I("tests") ELSE I("Read_BPB")
             f == I("Test_SDI")
  <1>5. work = <<f, a>>
    <2>1. work = <<f>> \o <<a>>
      BY DEF Init, Test_SDI
    <2> HIDE DEF a, f
    <2> QED BY <2>1, OneAndOne, Zenon
  <1>6. a.op \in {"tests", "Read_BPB"} /\ (a.op = "tests" <=> scenario.operations > 0) /\ f = I("Test_SDI")
    BY DEF I
  <1> HIDE DEF a, f
  <1>7. IsStack(work) /\ Len(work) = 2 /\ work # <<>> /\ work[1] = f /\ work[2] = a /\ Head(work) = f /\ Bottom = a
    <2>1. Len(work) = 2 /\ work # <<>> /\ work[1] = f /\ work[2] = a /\ Head(work) = f
      BY <1>5
    <2>2. work \in Seq({f, a})
      BY <1>5
    <2>3. IsStack(work)
      <3>1. DOMAIN work = 1..2
        BY <1>5
      <3>2. {work[i] : i \in DOMAIN work} = {f, a}
        BY <2>1, <3>1
      <3> QED BY <2>2, <3>2 DEF IsStack
    <2> QED BY <2>1, <2>3 DEF Bottom
  <1>8. ReaderTyped
    <2>1. h = 0 /\ remainder = <<>> /\ page_addr = 0 /\ Root_Directory.cluster = 0
      BY DEF Init, NoEntry
    <2>2. scenario.operations = 0 => Bottom.op = "Read_BPB"
      BY <1>6, <1>7
    <2> QED BY <2>1, <2>2 DEF ReaderTyped, Bottom
  <1>9. Point
    <2>1. Finds
      <3> DEFINE s == <<I("Test_SDI")>>
      <3>1. Len(s) = 1 /\ s[1] = f
        BY <1>6
      <3> HIDE DEF s
      <3>2. On(s)
        BY <1>6, <1>7, <3>1 DEF On, BottomOps
      <3> QED BY <3>2 DEF Finds, s
    <2>2. Early /\ Still
      BY <1>3, <1>6, <1>7 DEF Early, Still, Quiet, Silent, NoneLeft, Over
    <2> QED BY <1>7, <2>1, <2>2 DEF Point, Locating
  <1>10. Always
    <2>1. ~Listening
      <3>1. Head(work).op = "Test_SDI"
        BY <1>6, <1>7 DEF I
      <3> QED BY <3>1 DEF Listening, At
    <2>2. InPlace(Rx, Words)
      <3>1. \A k \in 0..(Words - 1) : k \in 0..(Words * Blocks - 1)
        <4>1. Words * 1 <= Words * Blocks /\ Words * Blocks \in Nat
          BY Sizes, Times
        <4> QED BY <4>1, Sizes
      <3> QED BY <1>3, <3>1 DEF InPlace, Blank
    <2>3. InPlace(Data_buffer, Bytes)
      BY <1>3 DEF InPlace
    <2>4. WholeBuffer
      BY <1>3 DEF WholeBuffer
    <2> QED BY <1>3, <2>1, <2>2, <2>3, <2>4 DEF Always
  <1> QED BY <1>4, <1>8, <1>9, <1>10 DEF SdInv

LEMMA SdInvStays ==
    ASSUME SdInv, UNCHANGED vars
    PROVE  SdInv'
  <1>1. /\ UNCHANGED scenario /\ work' = work /\ UNCHANGED readerVars /\ DataKept /\ card' = card /\ rsp' = rsp /\ faults' = faults
    BY DEF vars, sdVars, busVars, countVars, DataKept
  <1>2. /\ scenario' = scenario /\ block' = block /\ asked' = asked /\ MMC' = MMC /\ RCA' = RCA
        /\ Wide' = Wide /\ tx' = tx /\ wt_cnt' = wt_cnt /\ rd_cnt' = rd_cnt /\ Rx' = Rx
        /\ Data_buffer' = Data_buffer /\ j' = j /\ dataFaults' = dataFaults /\ operations' = operations
        /\ store' = store /\ ctl' = ctl /\ fifo' = fifo
    BY <1>1, KeptParts
  <1>3. Typed'
    BY <1>1, <1>2 DEF SdInv, Typed
  <1>4. ReaderTyped'
    BY <1>1, ReaderKept DEF SdInv, Bottom
  <1>5. Always'
    BY <1>1, AlwaysKept DEF SdInv, Listening, Asking, At
  <1>6. (Calm' <=> Calm) /\ (Exact' <=> Exact) /\ Total' = Total /\ Origin' = Origin /\ Gone' = Gone /\ work' = work
    BY <1>1, KeptParts
  <1>7. (Agreed <=> Agreed') /\ (Still <=> Still') /\ (Quiet <=> Quiet') /\ (Silent <=> Silent') /\ (Over <=> Over')
        /\ (FinIsOver <=> FinIsOver') /\ (NoneLeft <=> NoneLeft') /\ Bottom' = Bottom /\ (Early <=> Early')
    BY <1>1, <1>2, <1>6 DEF Agreed, Still, Quiet, Silent, Over, FinIsOver, NoneLeft, Bottom, Early
  <1>8. Ending \/ Resting => Ending' \/ Resting'
    BY <1>1, <1>2, <1>6, <1>7 DEF Ending, Resting, On
  <1>9. Locating => Locating'
    BY <1>1, <1>2, <1>6, <1>7 DEF Locating, Finds, TriesOcr, Known, FollowsOcr, AsksAddress,
          HasAddress, Selects, IsSelected, SetsBus, IsReady, On, At
  <1>10. Reading => Reading'
    <2>1. StartsRead => StartsRead'
      BY <1>1, <1>2, <1>6, <1>7 DEF StartsRead, On, At
    <2>2. SendsRead => SendsRead'
      BY <1>1, <1>2, <1>6, <1>7 DEF SendsRead, On, NotStarted, Started
    <2>3. Receives => Receives'
      BY <1>1, <1>2, <1>6, <1>7 DEF Receives, On, Started
    <2>4. AwaitsEnd => AwaitsEnd'
      BY <1>1, <1>2, <1>6, <1>7 DEF AwaitsEnd, On
    <2>5. ClearsEnd => ClearsEnd'
      BY <1>1, <1>2, <1>6, <1>7 DEF ClearsEnd, On
    <2>6. Stops => Stops'
      BY <1>1, <1>2, <1>6, <1>7 DEF Stops, On
    <2> QED BY <2>1, <2>2, <2>3, <2>4, <2>5, <2>6 DEF Reading
  <1>11. Writing => Writing'
    <2>0. (Takes <=> Takes') /\ (HasTaken <=> HasTaken') /\ (Accounts <=> Accounts') /\ (AllStored <=> AllStored')
      BY <1>1, <1>2, <1>6, <1>7 DEF Takes, HasTaken, Accounts, AllStored, Stored, Before
    <2>1. StartsWrite => StartsWrite'
      BY <1>1, <1>2, <1>6, <1>7, <2>0 DEF StartsWrite, On
    <2>2. SendsWrite => SendsWrite'
      BY <1>1, <1>2, <1>6, <1>7, <2>0 DEF SendsWrite, On
    <2>3. Transmits => Transmits'
      BY <1>1, <1>2, <1>6, <1>7, <2>0 DEF Transmits, On
    <2>4. AwaitsWritten => AwaitsWritten'
      BY <1>1, <1>2, <1>6, <1>7, <2>0 DEF AwaitsWritten, On
    <2>5. ClearsWritten => ClearsWritten'
      BY <1>1, <1>2, <1>6, <1>7, <2>0 DEF ClearsWritten, On
    <2>6. StopsWrite => StopsWrite'
      BY <1>1, <1>2, <1>6, <1>7, <2>0 DEF StopsWrite, On
    <2>7. Programs => Programs'
      BY <1>1, <1>2, <1>6, <1>7, <2>0 DEF Programs, On
    <2> QED BY <2>1, <2>2, <2>3, <2>4, <2>5, <2>6, <2>7 DEF Writing
  <1>12. Streaming => Streaming'
    <2>1. StartsStream => StartsStream'
      BY <1>1, <1>2, <1>6, <1>7 DEF StartsStream, On, At, Sends, Absorbs
    <2>2. SendsStream => SendsStream'
      BY <1>1, <1>2, <1>6, <1>7 DEF SendsStream, On, At, Sends, Absorbs
    <2>3. Streams => Streams'
      BY <1>1, <1>2, <1>6, <1>7 DEF Streams, On, At, Sends, Absorbs
    <2>4. StartsStreamOut => StartsStreamOut'
      BY <1>1, <1>2, <1>6, <1>7 DEF StartsStreamOut, On, At, Sends, Absorbs
    <2>5. SendsStreamOut => SendsStreamOut'
      BY <1>1, <1>2, <1>6, <1>7 DEF SendsStreamOut, On, At, Sends, Absorbs
    <2>6. StreamsOut => StreamsOut'
      BY <1>1, <1>2, <1>6, <1>7 DEF StreamsOut, On, At, Sends, Absorbs
    <2>7. StopsStreamOut => StopsStreamOut'
      BY <1>1, <1>2, <1>6, <1>7 DEF StopsStreamOut, On, At, Sends, Absorbs
    <2>8. Flushes => Flushes'
      BY <1>1, <1>2, <1>6, <1>7 DEF Flushes, On, At, Sends, Absorbs
    <2> QED BY <1>7, <2>1, <2>2, <2>3, <2>4, <2>5, <2>6, <2>7, <2>8 DEF Streaming
  <1>13. OtherTests => OtherTests'
    BY <1>1, <1>2, <1>6, <1>7 DEF OtherTests, On
  <1>14. Transferring => Transferring'
    BY <1>2, <1>7, <1>10, <1>11, <1>12, <1>13 DEF Transferring
  <1>15. Point'
    BY <1>1, <1>8, <1>9, <1>14 DEF SdInv, Point, IsStack
  <1> QED BY <1>3, <1>4, <1>5, <1>15 DEF SdInv

LEMMA SdNext == SdInv /\ [Next]_vars => SdInv'
  <1>1. ASSUME SdInv, Next PROVE SdInv'
    BY <1>1, HostSteps, CardStep, ReaderSteps DEF Next
  <1>2. ASSUME SdInv, UNCHANGED vars PROVE SdInv'
    BY <1>2, SdInvStays
  <1> QED BY <1>1, <1>2

LEMMA Distributes == ASSUME NEW w \in Int, NEW a \in Int, NEW b \in Int PROVE w * (a + 1 - b) = w * a - w * (b - 1)
  OBVIOUS

\* What a write leaves on the card, counted from the end of what was sent.
LEMMA StoredIs ==
    ASSUME Typed, wt_cnt = Total, NEW b \in 1..block, Stored(b, Words)
    PROVE  b \in DOMAIN store /\ store[b] = [i \in 1..Words |-> tx - Words * (block + 1 - b) + i - 1]
  <1>1. tx \in Int /\ Words \in Int /\ block \in Int /\ b \in Int
    BY Sizes DEF Typed
  <1> DEFINE t == Words * block
             u == Words * (b - 1)
             v == Words * (block + 1 - b)
  <1>2. t \in Int /\ u \in Int /\ v = t - u
    BY <1>1, Distributes
  <1>3. store[b] = [i \in 1..Words |-> tx - t + u + i - 1] /\ b \in DOMAIN store
    BY DEF Stored, Origin, Before, Total
  <1> HIDE DEF t, u, v
  <1>4. \A i \in 1..Words : tx - t + u + i - 1 = tx - v + i - 1
    BY <1>1, <1>2
  <1>5. store[b] = [i \in 1..Words |-> tx - v + i - 1]
    BY <1>3, <1>4
  <1> QED BY <1>3, <1>5 DEF v

LEMMA SdInvImplies == SdInv => TransfersWhole
  <1> SUFFICES ASSUME SdInv PROVE TransfersWhole
    OBVIOUS
  <1>0. Typed /\ ReaderTyped /\ Always /\ Point
    BY DEF SdInv
  <1>1. SdTypeOK
    <2>1. /\ card.rca \in 0..3 /\ card.wide \in BOOLEAN /\ card.app \in BOOLEAN /\ card.index \in 0..(Words + 1)
          /\ card.st \in {"idle", "ready", "ident", "stby"} \union Selected
      BY <1>0 DEF Typed, CardSet
    <2>2. ctl.left \in 0..(Words * Blocks) /\ Len(fifo) <= FifoDepth
      BY <1>0 DEF Typed, CtlSet, Room
    <2>3. DOMAIN Rx = 0..(Words * Blocks - 1) /\ DOMAIN Data_buffer = 0..(Bytes - 1)
      BY <1>0 DEF Typed, Room
    <2>4. dataFaults \in 0..(scenario.dataFaults + scenario.operations)
      <3>1. scenario.dataFaults \in Nat /\ scenario.operations \in Nat
        BY <1>0, SdAssumption DEF SdAssumption, Typed
      <3> QED BY <1>0, <3>1 DEF Typed
    <2> QED BY <1>0, <2>1, <2>2, <2>3, <2>4 DEF Typed, SdTypeOK, Room
  <1>2. TypeOK
    BY <1>0, <1>1 DEF TypeOK, ReaderTyped
  <1>3. BusAgreed
    <2> SUFFICES ASSUME At("Rd_Block") \/ At("Wt_Block") \/ At("Rd_Stream") \/ At("Wt_Stream"), RCA # 0
                 PROVE  card.rca = RCA /\ card.st \in Selected /\ (card.kind # "SDHS" => card.wide = Wide)
      BY DEF BusAgreed
    <2>1. work # <<>> /\ Tag \in {"Rd_Block", "Wt_Block", "Rd_Stream", "Wt_Stream"}
      BY DEF At, Tag
    <2>2. Agreed
      BY <1>0, <2>1, PointTransferring DEF Transferring
    <2> QED BY <2>2 DEF Agreed
  <1>4. BytesInPlace
    <2> SUFFICES ASSUME scenario.kind = "MMC" /\ scenario.operations > 0 => dataFaults = 0,
                        NEW n \in 0..(Bytes - 1)
                 PROVE  Data_buffer[n][2] = n
      BY DEF BytesInPlace
    <2>1. InPlace(Data_buffer, Bytes)
      BY <1>0 DEF Always, Calm, MmcTests
    <2> QED BY <2>1 DEF InPlace
  <1>5. ReadIsWhole
    <2> SUFFICES ASSUME At("DATclear"), dataFaults = 0, asked # Null
                 PROVE  \A n \in 0..(Bytes - 1) : Data_buffer[n] = <<asked, n>>
      BY DEF ReadIsWhole
    <2>1. ~Asking
      BY DEF Asking, At
    <2> QED BY <1>0, <2>1 DEF Always, WholeBuffer
  <1>6. WrittenWhole
    <2> SUFFICES ASSUME At("written"), j # 2, dataFaults = 0, NEW b \in 1..block
                 PROVE  b \in DOMAIN store /\ store[b] = [i \in 1..Words |-> tx - Words * (block + 1 - b) + i - 1]
      BY DEF WrittenWhole
    <2>1. work # <<>> /\ Tag = "written" /\ Exact
      BY DEF At, Tag, Exact
    <2>2. Programs
      BY <1>0, <2>1, PointTransferring
    <2>3. AllStored /\ wt_cnt = Total
      BY <2>1, <2>2 DEF Programs
    <2> QED BY <1>0, <2>3, StoredIs DEF AllStored
  <1> QED BY <1>2, <1>3, <1>4, <1>5, <1>6 DEF TransfersWhole

-----------------------------------------------------------------------------

\* The invariant holds, for every card, every number of words, blocks and
\* faults, and whatever is read and written in whatever order.
THEOREM SdInvariant == Spec => []SdInv
  BY SdInvInit, SdNext, PTL DEF Spec

\* TransfersWhole.
THEOREM Transfers == Spec => []TransfersWhole
  BY SdInvariant, SdInvImplies, PTL

=============================================================================
