--------------------------------- MODULE SdHost ---------------------------------
(***************************************************************************)
(* sdi.c: the SD/MMC host of the display board, and the card it talks to.  *)
(*                                                                         *)
(* The program is sequential.  What it has still to do is a stack of       *)
(* instructions; a C function is the operator of its name and gives the    *)
(* instructions of its body.  One exchange of command and response is one  *)
(* step; the words of a block cross the FIFO one by one, with the card and *)
(* the host each going at its own pace.                                    *)
(*                                                                         *)
(* The bus may lose a command, lose the response to it, or garble the      *)
(* response, and the card may stop in the middle of a block.               *)
(***************************************************************************)
EXTENDS Naturals, Sequences, FiniteSets, TLC

CONSTANTS
    Null,
    Words,        \* words of a block: 128
    Blocks,       \* blocks of the Rx and Tx buffers: 16
    FifoDepth,    \* words of the controller's FIFO
    OcrTries,     \* 15
    Scenarios     \* the instances: the kind of card, how many faults on the
                  \* command line and on the data line, what the program does

ASSUME SdAssumption ==
    /\ Words \in Nat \ {0} /\ Blocks \in Nat \ {0}
    /\ FifoDepth \in Nat \ {0} /\ OcrTries \in Nat \ {0}
    /\ \A s \in Scenarios :
        /\ s.kind \in {"none", "SD", "SDHS", "MMC"}   \* SDHS: version 1.10 on
        /\ s.faults \in Nat /\ s.dataFaults \in Nat /\ s.operations \in Nat

VARIABLES
    scenario,
    work,                 \* instructions left to do
    card,                 \* the card
    store,                \* sectors written: what the card holds there
    rsp,                  \* SDIRSP0
    ctl,                  \* the controller's data side: words it expects, DatFin,
                          \* DatTimeout and BusyFin of SDIDSTA
    fifo,
    RCA, MMC, Wide, block,
    rd_cnt, wt_cnt, tx,   \* tx: how far Tx_buffer is from its start
    Rx,                   \* the words at 0x31800000
    Data_buffer,
    asked,                \* the sector of the last Rd_Block
    j,                    \* the static j of Rd_Block
    faults, dataFaults, operations

busWidth == <<RCA, MMC, Wide>>
readVars == <<rd_cnt, Rx, Data_buffer, asked, j>>
writeVars == <<wt_cnt, tx>>
hostVars == <<busWidth, block, readVars, writeVars>>
busVars == <<card, store, rsp, ctl, fifo>>
countVars == <<faults, dataFaults, operations>>
sdVars == <<scenario, work, hostVars, busVars, countVars>>

\* A word of the card is <<sector, index>>; its byte n is byte n of the sector.
Blank == [i \in 0..(Words * Blocks - 1) |-> <<Null, i>>]
Bytes == 4 * Words
Garbled == 9
NoResponse == [is |-> "none", rca |-> 0]

I(op) == [op |-> op]
Start(sector) == [op |-> "Rd_Block", sector |-> sector]
Cmd(n, arg) == [op |-> "cmd", n |-> n, arg |-> arg, retry |-> TRUE]
Once(n) == [op |-> "cmd", n |-> n, arg |-> 0, retry |-> FALSE]
Ocr(n, tries) == [op |-> "ocr", n |-> n, tries |-> tries]

HostInit ==
    /\ scenario \in Scenarios
    /\ card = [kind |-> scenario.kind, st |-> "idle", rca |-> 0, wide |-> FALSE, app |-> FALSE,
               sector |-> 0, index |-> 0, multi |-> FALSE]
    /\ store = <<>> /\ rsp = NoResponse
    /\ ctl = [left |-> 0, fin |-> FALSE, tmo |-> FALSE, busy |-> FALSE] /\ fifo = <<>>
    /\ RCA = 0 /\ MMC = FALSE /\ Wide = TRUE /\ block = 0
    /\ rd_cnt = 0 /\ wt_cnt = 0 /\ tx = 0
    /\ Rx = Blank /\ Data_buffer = [n \in 0..(Bytes - 1) |-> <<Null, n>>]
    /\ asked = Null /\ j = 0
    /\ faults = 0 /\ dataFaults = 0 /\ operations = 0

At(op) == work # <<>> /\ Head(work).op = op
Goes(instructions) == work' = instructions \o Tail(work)

-----------------------------------------------------------------------------
(* The card: the state it goes to and what it answers, if it answers. *)

Selected == {"tran", "data", "rcv", "prg"}
\* Its published address; each time it is asked it takes another one.
Publishes(c) == IF c.rca = 2 THEN 3 ELSE 2

CardDoes(n, arg) ==
    LET c == [card EXCEPT !.app = FALSE]
        sd == c.kind \in {"SD", "SDHS"}
        mmc == c.kind = "MMC"
        Answers(condition, next, is, rca) ==
            IF c.kind # "none" /\ condition THEN {[card |-> next, rsp |-> [is |-> is, rca |-> rca]]} ELSE {}
        R1(condition, next) == Answers(condition, next, "r1", 0)
        PowersUp(condition) == R1(condition, c)
            \union Answers(condition, [c EXCEPT !.st = "ready"], "ocr", 0)
        Transfers(st, multi) == R1(c.st = "tran",
            [c EXCEPT !.st = st, !.sector = arg, !.multi = multi,
                      !.index = IF ctl.left > 0 THEN 0 ELSE Words + 1])
    IN  CASE n = 1  -> PowersUp(mmc /\ c.st = "idle")
          [] n = 55 -> R1(sd /\ c.rca = arg, [c EXCEPT !.app = TRUE])
          [] n = 41 -> PowersUp(sd /\ card.app /\ c.st = "idle")
          [] n = 2  -> R1(c.st = "ready", [c EXCEPT !.st = "ident"])
          [] n = 3  ->
                IF sd THEN Answers(c.st \in {"ident", "stby"},
                                   [c EXCEPT !.st = "stby", !.rca = Publishes(c)], "rca", Publishes(c))
                      ELSE R1(c.st = "ident", [c EXCEPT !.st = "stby", !.rca = arg])
          [] n = 7  -> R1(c.st = "stby" /\ c.rca = arg, [c EXCEPT !.st = "tran"])
          [] n = 6  -> \* without CMD55 it is SWITCH_FUNC, which SDHS knows
                R1(sd /\ c.st = "tran" /\ (card.app \/ c.kind = "SDHS"),
                   IF card.app THEN [c EXCEPT !.wide = (arg = 1)] ELSE c)
          [] n \in {11, 18} -> IF n = 11 /\ ~mmc THEN {} ELSE Transfers("data", TRUE)
          [] n = 17 -> Transfers("data", FALSE)
          [] n \in {20, 25} -> IF n = 20 /\ ~mmc THEN {} ELSE Transfers("rcv", TRUE)
          [] n = 24 -> Transfers("rcv", FALSE)
          [] n = 12 -> R1(c.st = "data", [c EXCEPT !.st = "tran"])
                \union R1(c.st \in {"rcv", "prg"}, [c EXCEPT !.st = "prg"])
          [] n = 13 -> R1(c.rca = arg /\ c.st \in Selected \union {"stby"}, c)
          [] n = 9  -> R1(c.rca = arg /\ c.st = "stby", c)
          [] n \in {28, 29} -> R1(c.st = "tran", c)

\* One command and the response to it.  end is what Chk_CMDend returns: FALSE
\* only when no response comes in time, TRUE for a response with a bad CRC too.
Chk_CMDend(n, arg) ==
    LET does == CardDoes(n, arg)
        Timeout(c) == [card |-> c, rsp |-> rsp, end |-> FALSE]
        answered == {[card |-> d.card, rsp |-> d.rsp, end |-> TRUE, faults |-> faults] : d \in does}
        silent == {[card |-> [card EXCEPT !.app = FALSE], rsp |-> rsp, end |-> FALSE, faults |-> faults]}
        lost == {[card |-> c, rsp |-> rsp, end |-> FALSE, faults |-> faults + 1] :
                    c \in {d.card : d \in does} \union {card}}
        garbled == {[card |-> d.card, rsp |-> [is |-> "garbled", rca |-> Garbled],
                     end |-> TRUE, faults |-> faults + 1] : d \in does}
    IN  (IF does = {} THEN silent ELSE answered)
        \union (IF faults < scenario.faults THEN lost \union garbled ELSE {})

Exchange(o) == card' = o.card /\ rsp' = o.rsp /\ faults' = o.faults
ArgOf(i) == IF i.n \in {7, 9, 13, 55} THEN RCA ELSE i.arg

\* A command that is sent again until it ends, or once.
Command ==
    /\ At("cmd")
    /\ \E o \in Chk_CMDend(Head(work).n, ArgOf(Head(work))) :
        /\ Exchange(o)
        /\ IF o.end \/ ~Head(work).retry THEN Goes(<<>>) ELSE UNCHANGED work
    /\ UNCHANGED <<hostVars, store, ctl, fifo, dataFaults, operations>>

\* The data side of SDICMD and the words on their way.
DataIdle == UNCHANGED <<store, ctl, fifo, dataFaults, operations>>

-----------------------------------------------------------------------------
(* Finding the card, and making it ready for transfers. *)

Card_select == <<Cmd(7, 0), I("selected")>>
identify == <<Cmd(2, 0), I("CMD3"), I("published")>>
Test_SDI == <<I("Test_SDI")>>

SD_card_init ==
    /\ At("Test_SDI")
    /\ RCA' = 0 /\ MMC' = FALSE
    /\ \E lost \in {FALSE, TRUE} :          \* CMD0 has no response to miss
        /\ lost => faults < scenario.faults
        /\ faults' = faults + (IF lost THEN 1 ELSE 0)
        /\ card' = IF lost THEN card
                   ELSE [card EXCEPT !.st = "idle", !.rca = 0, !.wide = FALSE, !.app = FALSE]
    /\ fifo' = <<>> /\ ctl' = [ctl EXCEPT !.left = 0]
    /\ Goes(<<Ocr(1, OcrTries)>>)
    /\ UNCHANGED <<store, rsp, Wide, block, readVars, writeVars, dataFaults, operations>>

\* Chk_MMC_OCR and Chk_SD_OCR: the latter sends CMD55, whose result it ignores,
\* before each try.
Chk_OCR ==
    /\ At("ocr")
    /\ \E o \in Chk_CMDend(Head(work).n, 0) :
        LET n == Head(work).n
            left == Head(work).tries - 1
            again == IF n = 1 THEN <<Ocr(1, left)>> ELSE <<Once(55), Ocr(41, left)>>
        IN  /\ Exchange(o)
            /\ IF o.end /\ o.rsp.is = "ocr"
               THEN Goes(identify) /\ MMC' = (n = 1)
               ELSE /\ Goes(IF left > 0 THEN again
                            ELSE IF n = 1 THEN <<Once(55), Ocr(41, OcrTries)>> ELSE <<>>)
                    /\ UNCHANGED MMC
    /\ DataIdle
    /\ UNCHANGED <<RCA, Wide, block, readVars, writeVars>>

\* CMD3 sets the address of an MMC card and asks an SD card for its own.
CMD3 == At("CMD3") /\ Goes(<<Cmd(3, IF MMC THEN 1 ELSE 0)>>) /\ UNCHANGED <<hostVars, busVars, countVars>>

\* The state check reads rSDIRSP0 & (0x1e00 != 0x600): bit 0, which only a
\* garbled response sets.
RCA_published ==
    /\ At("published")
    /\ RCA' = IF MMC THEN 1 ELSE rsp.rca
    /\ \/ Goes(Card_select \o <<I("Set_bus"), I("TR_Buf_new")>>)
       \/ rsp.is = "garbled" /\ Goes(<<I("CMD3"), I("published")>>)
    /\ UNCHANGED <<MMC, Wide, block, readVars, writeVars, busVars, countVars>>

Card_selected ==
    /\ At("selected")
    /\ \/ Goes(<<>>)
       \/ rsp.is = "garbled" /\ Goes(Card_select)
    /\ UNCHANGED <<hostVars, busVars, countVars>>

\* Set_1bit_bus for MMC, Set_4bit_bus for SD.
Set_bus_width ==
    /\ At("Set_bus")
    /\ Wide' = ~MMC
    /\ Goes(IF MMC THEN <<>> ELSE <<Once(55), I("SetBus")>>)
    /\ UNCHANGED <<RCA, MMC, block, readVars, writeVars, busVars, countVars>>

\* Mutant: ACMD6 is not sent again.
SetBus_Once ==
    /\ At("SetBus")
    /\ \E o \in Chk_CMDend(6, IF Wide THEN 1 ELSE 0) : Exchange(o)
    /\ Goes(<<>>)
    /\ DataIdle /\ UNCHANGED hostVars
ACMD6 ==
    /\ At("SetBus")
    /\ \E o \in Chk_CMDend(6, IF Wide THEN 1 ELSE 0) :
        Exchange(o) /\ Goes(IF o.end THEN <<>> ELSE <<Once(55), I("SetBus")>>)
    /\ DataIdle /\ UNCHANGED hostVars

Flush_Rx_buf ==
    /\ At("TR_Buf_new")
    /\ tx' = 0 /\ Rx' = Blank
    /\ Goes(<<>>)
    /\ UNCHANGED <<busWidth, block, rd_cnt, wt_cnt, Data_buffer, asked, j, busVars, countVars>>

-----------------------------------------------------------------------------
(* Reading blocks. *)

\* The words the controller still expects, and the FIFO emptied.
Arms(words) == [ctl EXCEPT !.left = words]

Rd_Block ==
    /\ At("Rd_Block")
    /\ rd_cnt' = 0 /\ asked' = Head(work).sector
    /\ fifo' = <<>> /\ ctl' = Arms(Words * block)
    /\ Goes(<<Cmd(IF block < 2 THEN 17 ELSE 18, Head(work).sector), I("receive")>>)
    /\ UNCHANGED <<busWidth, block, Rx, Data_buffer, j, writeVars, card, store, rsp, countVars>>

\* Byte n of a word that came most significant byte first.
ByteOfWord(word, shift) == <<word[1], 4 * word[2] + 3 - shift \div 8>>
\* The first block is copied, whatever has been received.
Copied == [n \in 0..(Bytes - 1) |-> ByteOfWord(Rx[n \div 4], 24 - 8 * (n % 4))]

readsCounted == IF j = 0 THEN 1 ELSE 2

\* Only the first read of all waits for the end of the data.
afterData ==
    (IF j = 0 THEN <<I("Chk_DATend")>> ELSE <<>>) \o <<I("DATclear")>>
        \o (IF block > 1 THEN <<Cmd(12, 0)>> ELSE <<>>)

\* Mutant: a data timeout does not end the loop.
receiveTimeout_GoesOn == ctl' = [ctl EXCEPT !.tmo = FALSE] /\ UNCHANGED <<work, j, Data_buffer>>
receiveTimeout ==
    /\ ctl' = [ctl EXCEPT !.tmo = FALSE]
    /\ Goes(afterData) /\ j' = readsCounted /\ Data_buffer' = Copied

\* The loop of Rd_Block: the timeout is looked at before the FIFO.
Receive ==
    /\ At("receive")
    /\ \/ /\ rd_cnt < Words * block /\ ctl.tmo
          /\ receiveTimeout
          /\ UNCHANGED <<rd_cnt, Rx, fifo>>
       \/ /\ rd_cnt < Words * block /\ ~ctl.tmo /\ fifo # <<>>
          /\ Rx' = [Rx EXCEPT ![rd_cnt] = Head(fifo)] /\ fifo' = Tail(fifo)
          /\ rd_cnt' = rd_cnt + 1
          /\ UNCHANGED <<work, ctl, j, Data_buffer>>
       \/ /\ rd_cnt = Words * block
          /\ Goes(afterData) /\ j' = readsCounted /\ Data_buffer' = Copied
          /\ UNCHANGED <<rd_cnt, Rx, fifo, ctl>>
    /\ UNCHANGED <<busWidth, block, asked, writeVars, card, store, rsp, countVars>>

\* Either flag ends the wait; a timeout clears both.
Chk_DATend ==
    /\ At("Chk_DATend") /\ (ctl.fin \/ ctl.tmo)
    /\ ctl' = IF ctl.tmo THEN [ctl EXCEPT !.fin = FALSE, !.tmo = FALSE] ELSE ctl
    /\ Goes(<<>>)
    /\ UNCHANGED <<hostVars, card, store, rsp, fifo, countVars>>

DATclear ==
    /\ At("DATclear")
    /\ ctl' = [ctl EXCEPT !.fin = FALSE]
    /\ Goes(<<>>)
    /\ UNCHANGED <<hostVars, card, store, rsp, fifo, countVars>>

\* Rd_Stream expects the words, sends its command, takes the words, and looks at
\* the end of the command only then.  It does not empty the FIFO.
Rd_Stream ==
    /\ At("Rd_Stream")
    /\ IF MMC THEN ctl' = Arms(Words * block) /\ Goes(<<[op |-> "CMD11", taken |-> Head(work).taken]>>)
       ELSE Goes(<<>>) /\ UNCHANGED ctl
    /\ UNCHANGED <<hostVars, card, store, rsp, fifo, countVars>>

CMD11 ==
    /\ At("CMD11")
    /\ \E o \in Chk_CMDend(11, 0) :
        Exchange(o) /\ Goes(<<[op |-> "stream", end |-> o.end, taken |-> Head(work).taken]>>)
    /\ DataIdle /\ UNCHANGED hostVars

Stream ==
    /\ At("stream")
    /\ LET taken == Head(work).taken IN
       \/ /\ taken < Words * block /\ ctl.tmo
          /\ Goes(<<>>)                          \* returns, with no CMD12
          /\ UNCHANGED <<Rx, fifo, ctl>>
       \/ /\ taken < Words * block /\ ~ctl.tmo /\ fifo # <<>>
          /\ Rx' = [Rx EXCEPT ![taken] = Head(fifo)] /\ fifo' = Tail(fifo)
          /\ Goes(<<[op |-> "stream", end |-> Head(work).end, taken |-> taken + 1]>>)
          /\ UNCHANGED ctl
       \/ /\ taken = Words * block
          /\ IF Head(work).end
             THEN /\ ctl.fin \/ card.st # "data"   \* no data is being received
                  /\ Goes(<<Cmd(12, 0)>>)
                  /\ ctl' = [ctl EXCEPT !.left = 0, !.fin = FALSE, !.tmo = FALSE, !.busy = FALSE]
             ELSE Goes(<<[op |-> "Rd_Stream", taken |-> taken]>>) /\ UNCHANGED ctl
          /\ UNCHANGED <<Rx, fifo>>
    /\ UNCHANGED <<busWidth, block, rd_cnt, Data_buffer, asked, j, writeVars, card, store, rsp, countVars>>

-----------------------------------------------------------------------------
(* Writing blocks, by polling: mode is 0. *)

Wt_Block ==
    /\ At("Wt_Block")
    /\ wt_cnt' = 0
    /\ fifo' = <<>> /\ ctl' = Arms(Words * block)
    /\ Goes(<<Cmd(IF block < 2 THEN 24 ELSE 25, 1), I("transmit"), I("Chk_DATend"), I("DATclear")>>
            \o (IF block > 1 THEN <<Cmd(12, 0), I("Chk_BUSYend")>> ELSE <<>>) \o <<I("written")>>)
    /\ UNCHANGED <<busWidth, block, readVars, tx, card, store, rsp, countVars>>

\* Only for MMC.  It counts the words itself and leaves Tx_buffer where it is.
Wt_Stream ==
    /\ At("Wt_Stream")
    /\ IF ~MMC THEN Goes(<<>>) /\ UNCHANGED ctl
       ELSE /\ ctl' = Arms(Words * block)
            /\ Goes(<<Cmd(20, 1), [op |-> "streamOut", sent |-> 0], Cmd(12, 0), I("Chk_BUSYend")>>)
    /\ UNCHANGED <<hostVars, card, store, rsp, fifo, countVars>>

\* When the FIFO is empty and the data line is, every flag is cleared.
StreamOut ==
    /\ At("streamOut")
    /\ LET sent == Head(work).sent IN
       IF sent < Words * block
       THEN /\ Len(fifo) < FifoDepth
            /\ fifo' = Append(fifo, <<Null, tx + sent>>)
            /\ Goes(<<[op |-> "streamOut", sent |-> sent + 1]>>)
            /\ UNCHANGED ctl
       ELSE /\ fifo = <<>> /\ (ctl.fin \/ card.st # "rcv")
            /\ ctl' = [ctl EXCEPT !.fin = FALSE, !.tmo = FALSE, !.busy = FALSE]
            /\ Goes(<<>>) /\ UNCHANGED fifo
    /\ UNCHANGED <<hostVars, card, store, rsp, countVars>>

Transmit ==
    /\ At("transmit")
    /\ IF wt_cnt < Words * block
       THEN /\ Len(fifo) < FifoDepth
            /\ fifo' = Append(fifo, <<Null, tx>>)
            /\ tx' = tx + 1 /\ wt_cnt' = wt_cnt + 1
            /\ UNCHANGED work
       ELSE Goes(<<>>) /\ UNCHANGED <<fifo, tx, wt_cnt>>
    /\ UNCHANGED <<busWidth, block, readVars, card, store, rsp, ctl, countVars>>

Chk_BUSYend ==
    /\ At("Chk_BUSYend") /\ (ctl.busy \/ ctl.tmo)
    /\ ctl' = [ctl EXCEPT !.busy = FALSE, !.tmo = FALSE]
    /\ Goes(<<>>)
    /\ UNCHANGED <<hostVars, card, store, rsp, fifo, countVars>>

Written == At("written") /\ Goes(<<>>) /\ UNCHANGED <<hostVars, busVars, countVars>>

-----------------------------------------------------------------------------
(* The card's side of a transfer. *)

Ended(c) == IF c.multi THEN [c EXCEPT !.index = Words + 1] ELSE [c EXCEPT !.st = "tran"]

\* One word into the FIFO.
CardSends ==
    /\ card.st = "data" /\ card.index < Words
    /\ ctl.left > 0 /\ Len(fifo) < FifoDepth
    /\ fifo' = Append(fifo, <<card.sector, card.index>>)
    /\ ctl' = [ctl EXCEPT !.left = @ - 1]
    /\ card' = [card EXCEPT !.index = @ + 1]
    /\ UNCHANGED <<work, hostVars, store, rsp, countVars>>

\* The end of a block: the controller sees the end of the data some time after
\* the last word.  A block that the controller did not expect when its command
\* came, since it has had it already, goes by unseen.
CardEndsBlock ==
    /\ card.st = "data" /\ (card.index = Words \/ (card.index > Words /\ ~card.multi))
    /\ card' = IF card.multi /\ ctl.left > 0 THEN [card EXCEPT !.sector = @ + 1, !.index = 0]
               ELSE Ended(card)
    /\ ctl' = [ctl EXCEPT !.fin = (@ \/ (ctl.left = 0 /\ card.index = Words))]
    /\ UNCHANGED <<work, hostVars, store, rsp, fifo, countVars>>

\* The controller's timer: the card stops sending, or has never started.
DataTimeout ==
    /\ At("receive") \/ At("stream")
    /\ ctl.left > 0 /\ ~ctl.tmo
    /\ IF card.st = "data" /\ card.index <= Words
       THEN dataFaults < scenario.dataFaults /\ card' = Ended(card)
       ELSE fifo = <<>> /\ UNCHANGED card
    /\ dataFaults' = dataFaults + 1
    /\ ctl' = [ctl EXCEPT !.left = 0, !.tmo = TRUE]
    /\ UNCHANGED <<work, hostVars, store, rsp, fifo, faults, operations>>

\* A word out of the FIFO into the sector being written.
CardTakes ==
    /\ card.st = "rcv" /\ card.index < Words /\ fifo # <<>> /\ ctl.left > 0
    /\ store' = [s \in DOMAIN store \union {card.sector} |->
                    IF s = card.sector
                    THEN Append(IF card.index = 0 THEN <<>> ELSE store[s], Head(fifo)[2])
                    ELSE store[s]]
    /\ fifo' = Tail(fifo)
    /\ ctl' = [ctl EXCEPT !.left = @ - 1]
    /\ card' = [card EXCEPT !.index = @ + 1]
    /\ UNCHANGED <<work, hostVars, rsp, countVars>>

CardTakesBlock ==
    /\ card.st = "rcv" /\ card.index = Words
    /\ card' = IF ~card.multi THEN [card EXCEPT !.st = "prg"]
               ELSE IF ctl.left > 0 THEN [card EXCEPT !.sector = @ + 1, !.index = 0]
               ELSE [card EXCEPT !.index = Words + 1]
    /\ ctl' = [ctl EXCEPT !.fin = (@ \/ ctl.left = 0)]
    /\ UNCHANGED <<work, hostVars, store, rsp, fifo, countVars>>

\* The card has programmed its flash.
CardReady ==
    /\ card.st = "prg"
    /\ card' = [card EXCEPT !.st = "tran"]
    /\ ctl' = [ctl EXCEPT !.busy = (@ \/ card.multi)]
    /\ UNCHANGED <<work, hostVars, store, rsp, fifo, countVars>>

Card == CardSends \/ CardEndsBlock \/ DataTimeout \/ CardTakes \/ CardTakesBlock \/ CardReady

-----------------------------------------------------------------------------
(* The other entry points, as the tests of Test_SDI call them. *)

\* State 6, and 7 since the mask drops the lowest bit: the card is found again.
CMD13 ==
    /\ At("CMD13")
    /\ \E o \in Chk_CMDend(13, RCA) :
        /\ Exchange(o)
        /\ \/ Goes(IF o.end /\ o.rsp.is = "r1" /\ card.st \in {"rcv", "prg"} THEN Test_SDI ELSE <<>>)
           \/ o.end /\ o.rsp.is = "garbled" /\ Goes(Test_SDI)
    /\ DataIdle /\ UNCHANGED hostVars

\* Card_sel_desel(0): CMD7 to nobody, without a response.
Card_deselect ==
    /\ At("deselect")
    /\ card' = [card EXCEPT !.app = FALSE, !.st = IF @ = "tran" THEN "stby" ELSE @]
    /\ Goes(<<>>)
    /\ UNCHANGED <<hostVars, store, rsp, ctl, fifo, countVars>>

View_Rx_buf ==
    /\ At("View_Rx_buf")
    /\ tx' = 0
    /\ Goes(<<>>)
    /\ UNCHANGED <<busWidth, block, readVars, wt_cnt, busVars, countVars>>

TestSectors == {1, 4}
Tests == {<<Start(s)>> : s \in TestSectors} \union
    {<<I("Wt_Block")>>, <<I("View_Rx_buf")>>, <<I("Wt_Stream")>>,
     <<[op |-> "Rd_Stream", taken |-> 0]>>, <<I("CMD13")>>, <<Cmd(28, 0)>>, <<Cmd(29, 0)>>}

\* Some of the tests, in any order, on 1 to Blocks blocks, then deselect and CMD9.
Test ==
    /\ At("tests")
    /\ \/ /\ operations < scenario.operations
          /\ operations' = operations + 1
          /\ block' \in 1..Blocks
          /\ \E t \in Tests : work' = t \o work
       \/ /\ Goes(<<I("deselect"), Once(9)>>)
          /\ UNCHANGED <<operations, block>>
    /\ UNCHANGED <<busWidth, readVars, writeVars, busVars, faults, dataFaults>>

Host ==
    \/ Command \/ SD_card_init \/ Chk_OCR \/ CMD3 \/ RCA_published \/ Card_selected
    \/ Set_bus_width \/ ACMD6 \/ Flush_Rx_buf
    \/ Rd_Block \/ Receive \/ Chk_DATend \/ DATclear \/ Rd_Stream \/ CMD11 \/ Stream
    \/ Wt_Block \/ Transmit \/ Wt_Stream \/ StreamOut \/ Chk_BUSYend \/ Written
    \/ CMD13 \/ Card_deselect \/ View_Rx_buf \/ Test

-----------------------------------------------------------------------------
(* Properties *)

SdTypeOK ==
    /\ scenario \in Scenarios
    /\ card.st \in {"idle", "ready", "ident", "stby"} \union Selected
    /\ card.rca \in 0..3 /\ card.wide \in BOOLEAN /\ card.app \in BOOLEAN
    /\ card.index \in 0..(Words + 1)
    /\ ctl.left \in 0..(Words * Blocks) /\ Len(fifo) <= FifoDepth
    /\ RCA \in (0..3) \union {Garbled} /\ MMC \in BOOLEAN /\ Wide \in BOOLEAN
    /\ rd_cnt \in 0..(Words * Blocks) /\ wt_cnt \in 0..(Words * Blocks)
    /\ DOMAIN Rx = 0..(Words * Blocks - 1) /\ DOMAIN Data_buffer = 0..(Bytes - 1)
    /\ j \in 0..2
    /\ faults \in 0..scenario.faults /\ dataFaults \in 0..(scenario.dataFaults + scenario.operations)

\* When a transfer begins with a card that has been found, the card is the one
\* selected and drives as many data lines as the host samples, whatever the
\* bus has lost on the way.  A card that knows SWITCH_FUNC answers CMD6 even
\* if the CMD55 before it was lost, and is left out: there the host does go on
\* with four lines and the card with one.
BusAgreed ==
    (At("Rd_Block") \/ At("Wt_Block") \/ At("Rd_Stream") \/ At("Wt_Stream")) /\ RCA # 0 =>
        /\ card.rca = RCA /\ card.st \in Selected
        /\ card.kind # "SDHS" => card.wide = Wide

\* Even when a block is cut short, or comes for a command whose response is
\* lost and that is sent again, no byte is read at another place than its own:
\* what a broken read leaves is bytes of an earlier read at the same places.
\* Only the test of stream reads, for MMC, may break it, after a fault of the
\* data line: it does not empty the FIFO, and returns from a timeout with the
\* flag set and the card still sending.
BytesInPlace ==
    (scenario.kind = "MMC" /\ scenario.operations > 0 => dataFaults = 0) =>
        \A n \in 0..(Bytes - 1) : Data_buffer[n][2] = n

\* As long as the data line has not failed, a read that is over has given the
\* whole sector asked for: errors on the command line, and the blocks sent
\* twice or dropped because of them, do not show.
ReadIsWhole ==
    At("DATclear") /\ dataFaults = 0 /\ asked # Null =>
        \A n \in 0..(Bytes - 1) : Data_buffer[n] = <<asked, n>>

\* Wt_Block is over only when the card has taken every word, unless it began
\* with a flag that another call left in SDIDSTA: the second read and those
\* after it do not wait for the end of their data (j = 2), and Rd_Stream
\* returns with the timeout that ended it.
WrittenWhole ==
    At("written") /\ j # 2 /\ dataFaults = 0 =>
        \A b \in 1..block : b \in DOMAIN store /\ store[b] = [i \in 1..Words |-> tx - Words * (block + 1 - b) + i - 1]

=============================================================================
