-------------------------------- MODULE SdReader --------------------------------
(***************************************************************************)
(* The display loop of the board: main.c walks through its screens, and    *)
(* sdi_display.c and sdi_function.c find a picture on the card's FAT16     *)
(* volume and read it, sector by sector, through Rd_Block of SdHost.       *)
(*                                                                         *)
(* A directory entry takes one word here, and a sector as many entries.    *)
(* The addresses are computed with constants that fit one card: they are   *)
(* parameters, and the volumes are the ones they fit.                      *)
(***************************************************************************)
EXTENDS SdHost

CONSTANTS
    FatBase,      \* 249: the sector at which the volume begins
    RootBase,     \* 231
    DirOffset,    \* 64: two clusters
    FileOffset,   \* 46
    EndOfChain    \* 0xffff

\* A volume: sectors of a cluster, reserved sectors, root entries and sectors
\* of a FAT; what its directory sectors hold; the FAT; by first sector, how
\* long a picture's header is; the chain of each picture; the last sector.
ASSUME ReaderAssumption ==
    /\ {FatBase, RootBase, DirOffset, FileOffset} \subseteq Nat
    /\ FileOffset + FatBase = DirOffset + RootBase
    /\ Bytes % 3 = 2
    /\ \A s \in Scenarios : s.operations = 0 =>
        LET v == s.volume
            data == v.Fatsz16 * 2 + v.RsvdSec + RootBase + v.RootDirNum \div Words
        IN  /\ v.SecPerClus \in Nat \ {0} /\ {v.RsvdSec, v.RootDirNum, v.Fatsz16} \subseteq Nat
            /\ DirOffset = 2 * v.SecPerClus
            /\ DirOffset <= data /\ FileOffset <= data
            /\ \A p \in DOMAIN v.header : v.header[p] \in 0..Bytes
            /\ \A c \in DOMAIN v.fat : v.fat[c] \in Nat
            /\ \A p \in DOMAIN v.entries : \A i \in 1..Words : v.entries[p][i].cluster \in Nat

VARIABLES
    SecPerClus, RsvdSec, RootDirNum, RootDirAddr, Data_start_Addr,
    h,              \* the screen
    page_addr,
    Root_Directory, \* the entry looked at last
    image,          \* pixels read into Image_data
    remainder

bpbVars == <<SecPerClus, RsvdSec, RootDirNum, RootDirAddr, Data_start_Addr>>
readerVars == <<bpbVars, h, page_addr, Root_Directory, image, remainder>>
vars == <<sdVars, readerVars>>

volume == scenario.volume
NoEntry == [name |-> "", cluster |-> 0]
Read(sector, then) == <<Start(sector), then>>

\* Main, or the tests that Test_SDI has commented out.
Init ==
    /\ HostInit
    /\ work = Test_SDI \o (IF scenario.operations > 0 THEN <<I("tests")>> ELSE <<I("Read_BPB")>>)
    /\ SecPerClus = 0 /\ RsvdSec = 0 /\ RootDirNum = 0 /\ RootDirAddr = 0 /\ Data_start_Addr = 0
    /\ h = 0 /\ page_addr = 0 /\ Root_Directory = NoEntry /\ image = <<>> /\ remainder = <<>>

Reads(sector, then) == Goes(Read(sector, then))
UnchangedHost == UNCHANGED <<hostVars, busVars, countVars>>

\* Every caller of the reader sets block to 1.
Read_BPB ==
    /\ At("Read_BPB")
    /\ block' = 1
    /\ Reads(FatBase, I("BPB"))
    /\ UNCHANGED <<busWidth, readVars, writeVars, busVars, countVars, readerVars>>

BPB ==
    /\ At("BPB")
    /\ SecPerClus' = volume.SecPerClus /\ RsvdSec' = volume.RsvdSec /\ RootDirNum' = volume.RootDirNum
    /\ RootDirAddr' = volume.Fatsz16 * 2 + RsvdSec' + RootBase
    /\ Data_start_Addr' = RootDirAddr' + RootDirNum' \div Words
    /\ Goes(<<I("screen")>>)
    /\ UnchangedHost /\ UNCHANGED <<h, page_addr, Root_Directory, image, remainder>>

-----------------------------------------------------------------------------
(* Display_logo *)

\* The picture of a screen.
PictureOf == [s \in 6..11 |-> IF s = 6 THEN 6 ELSE s - 6]

\* Screens 0 to 5 are patterns; after screen 12 the program stops.
Screen ==
    /\ At("screen")
    /\ IF h \in DOMAIN PictureOf
       THEN /\ page_addr' = RootDirAddr
            /\ Goes(<<[op |-> "root", k |-> 0]>>)
       ELSE /\ Goes(IF h = 12 THEN <<I("stopped")>> ELSE <<I("key")>>)
            /\ UNCHANGED page_addr
    /\ UnchangedHost /\ UNCHANGED <<bpbVars, h, Root_Directory, image, remainder>>

\* The key s4 stops the loop until it is pressed again.
Key ==
    /\ At("key") \/ At("paused")
    /\ \/ /\ At("key") /\ Goes(<<I("paused")>>) /\ UNCHANGED h
       \/ /\ Goes(<<I("screen")>>) /\ h' = (h + 1) % 13
    /\ UnchangedHost /\ UNCHANGED <<bpbVars, page_addr, Root_Directory, image, remainder>>

\* The entries of the sector in Data_buffer.
EntryOf(i) ==
    LET sector == Data_buffer[4 * i][1] IN
    IF sector \in DOMAIN volume.entries THEN volume.entries[sector][i + 1] ELSE NoEntry
Matches(name) == {i \in 0..(Words - 1) : EntryOf(i).name = name}
FirstOf(S) == CHOOSE i \in S : \A k \in S : i <= k
\* The entry the search stops at: the first that matches, or the last.
Found(name) == EntryOf(IF Matches(name) = {} THEN Words - 1 ELSE FirstOf(Matches(name)))

ClusterAddr(entry, offset) == Data_start_Addr + entry.cluster * SecPerClus - offset

\* From the page on, sector after sector: the FAT is not looked at.
scan(name) == Read(page_addr', [op |-> "dir", name |-> name])

\* RootDirNum/16 sectors; with no match the last entry read is used.
ScanRoot ==
    /\ At("root")
    /\ IF Head(work).k < RootDirNum \div Words
       THEN /\ Reads(page_addr, [op |-> "rootLook", k |-> Head(work).k])
            /\ UNCHANGED page_addr
       ELSE /\ page_addr' = ClusterAddr(Root_Directory, DirOffset)
            /\ Goes(scan("2432"))
    /\ UnchangedHost /\ UNCHANGED <<bpbVars, h, Root_Directory, image, remainder>>

LookRoot ==
    /\ At("rootLook")
    /\ Root_Directory' = Found("BMP ")
    /\ IF Matches("BMP ") # {}
       THEN page_addr' = ClusterAddr(Root_Directory', DirOffset) /\ Goes(scan("2432"))
       ELSE page_addr' = page_addr + 1 /\ Goes(<<[op |-> "root", k |-> Head(work).k + 1]>>)
    /\ UnchangedHost /\ UNCHANGED <<bpbVars, h, image, remainder>>

FileName(n) == <<"001", "002", "003", "004", "005", "006">>[n]

\* A search that has left the volume goes on for ever: the model ends there.
LookDir ==
    /\ At("dir")
    /\ Root_Directory' = Found(Head(work).name)
    /\ IF Matches(Head(work).name) = {}
       THEN /\ page_addr < volume.last
            /\ page_addr' = page_addr + 1 /\ Goes(scan(Head(work).name))
       ELSE IF Head(work).name = "2432"
            THEN /\ page_addr' = ClusterAddr(Root_Directory', DirOffset)
                 /\ Goes(scan(FileName(PictureOf[h])))
            ELSE /\ page_addr' = ClusterAddr(Root_Directory', FileOffset)
                 /\ Reads(page_addr', I("first"))
    /\ UnchangedHost /\ UNCHANGED <<bpbVars, h, image, remainder>>

-----------------------------------------------------------------------------
(* BMP_data_from_flash *)

\* Whole pixels of the sector in Data_buffer, from byte n on.
PixelsFrom(n) ==
    [k \in 1..((Bytes - n) \div 3) |-> [c \in 0..2 |-> Data_buffer[n + 3 * (k - 1) + c]]]
LastBytes(n) == [k \in 1..n |-> Data_buffer[Bytes - n + k - 1]]

\* The pixel that begins in the bytes left over and ends in this sector.
AcrossPixel(rest) ==
    [c \in 0..2 |-> IF c < Len(rest) THEN rest[c + 1] ELSE Data_buffer[c - Len(rest)]]

\* Mutant: two left-over bytes leave none.
SectorPixels_NoRest ==
    CASE Len(remainder) = 0 -> [pixels |-> PixelsFrom(0), rest |-> LastBytes(2)]
      [] Len(remainder) = 1 -> [pixels |-> <<AcrossPixel(remainder)>> \o PixelsFrom(2), rest |-> <<>>]
      [] Len(remainder) = 2 -> [pixels |-> <<AcrossPixel(remainder)>> \o PixelsFrom(1), rest |-> <<>>]

\* 512 % 3 = 2: with 0, 1 and 2 bytes left over, 2, 0 and 1 are left after it.
SectorPixels ==
    CASE Len(remainder) = 0 -> [pixels |-> PixelsFrom(0), rest |-> LastBytes(2)]
      [] Len(remainder) = 1 -> [pixels |-> <<AcrossPixel(remainder)>> \o PixelsFrom(2), rest |-> <<>>]
      [] Len(remainder) = 2 -> [pixels |-> <<AcrossPixel(remainder)>> \o PixelsFrom(1), rest |-> LastBytes(1)]

\* header_size is in bytes 10 to 13 of the first sector.
HeaderSizes ==
    LET sector == Data_buffer[0][1] IN
    IF sector \in DOMAIN volume.header THEN {volume.header[sector]}
    ELSE {volume.header[s] : s \in DOMAIN volume.header}

FirstSector ==
    /\ At("first")
    /\ tx' = 0                                  \* View_Rx_buf
    /\ \E header_size \in HeaderSizes :
        /\ image' = PixelsFrom(header_size)
        /\ remainder' = LastBytes((Bytes - header_size) % 3)
    /\ Goes(<<[op |-> "cluster", n |-> 0]>>)
    /\ UNCHANGED <<busWidth, block, readVars, wt_cnt, busVars, countVars, bpbVars, h, page_addr, Root_Directory>>

\* The rest of the cluster, then the FAT entry of it.
Cluster ==
    /\ At("cluster")
    /\ IF Head(work).n < SecPerClus - 1
       THEN /\ page_addr' = page_addr + 1
            /\ Reads(page_addr', [op |-> "pixels", n |-> Head(work).n + 1])
       ELSE LET current == (page_addr - Data_start_Addr + FileOffset) \div SecPerClus
                entries == Bytes \div 2
            IN  /\ Reads(RsvdSec + current \div entries + FatBase, [op |-> "FAT", entry |-> current % entries])
                /\ UNCHANGED page_addr
    /\ UnchangedHost /\ UNCHANGED <<bpbVars, h, Root_Directory, image, remainder>>

Pixels ==
    /\ At("pixels")
    /\ image' = image \o SectorPixels.pixels
    /\ remainder' = SectorPixels.rest
    /\ Goes(<<[op |-> "cluster", n |-> Head(work).n]>>)
    /\ UnchangedHost /\ UNCHANGED <<bpbVars, h, page_addr, Root_Directory>>

\* What the two bytes of a FAT entry say; bytes of another sector may say anything.
NextClusters(entry) ==
    LET fat == Data_buffer[2 * entry][1] - (FatBase + volume.RsvdSec)
        cluster == fat * (Bytes \div 2) + entry
    IN  IF Data_buffer[2 * entry][1] >= FatBase + volume.RsvdSec /\ cluster \in DOMAIN volume.fat
        THEN {volume.fat[cluster]}
        ELSE {volume.fat[c] : c \in DOMAIN volume.fat}

\* 0xffff ends the chain, and nothing else does.
NextCluster ==
    /\ At("FAT")
    /\ \E next \in NextClusters(Head(work).entry) :
        IF next = EndOfChain THEN Goes(<<I("shown")>>) /\ UNCHANGED page_addr
        ELSE /\ page_addr' = SecPerClus * next + Data_start_Addr - FileOffset
             /\ Reads(page_addr', [op |-> "pixels", n |-> 0])
    /\ UnchangedHost /\ UNCHANGED <<bpbVars, h, Root_Directory, image, remainder>>

\* Ramchange shows the picture.
Shown ==
    /\ At("shown")
    /\ Goes(<<I("key")>>)
    /\ image' = <<>> /\ remainder' = <<>>
    /\ UnchangedHost /\ UNCHANGED <<bpbVars, h, page_addr, Root_Directory>>

Reader ==
    \/ Read_BPB \/ BPB \/ Screen \/ Key \/ ScanRoot \/ LookRoot \/ LookDir
    \/ FirstSector \/ Cluster \/ Pixels \/ NextCluster \/ Shown

Next ==
    /\ UNCHANGED scenario
    /\ \/ Host /\ UNCHANGED readerVars
       \/ Card /\ UNCHANGED readerVars
       \/ Reader

\* The processor, the card and the controller's timer each go on.
Spec == Init /\ [][Next]_vars /\ WF_vars(Next)

-----------------------------------------------------------------------------
(* Properties *)

TypeOK ==
    /\ SdTypeOK
    /\ h \in 0..12 /\ Len(remainder) \in 0..2
    /\ page_addr \in Nat

\* Card and host agree on every transfer: on who is selected and over how many
\* lines, on where each byte goes, and on when a block is over.
TransfersWhole == TypeOK /\ BusAgreed /\ BytesInPlace /\ ReadIsWhole /\ WrittenWhole

FirstDataSector == FatBase + volume.RsvdSec + 2 * volume.Fatsz16 + volume.RootDirNum \div Words
SectorOf(chain, b) ==
    FirstDataSector + (chain[1 + (b \div Bytes) \div volume.SecPerClus] - 2) * volume.SecPerClus
        + ((b \div Bytes) % volume.SecPerClus)

\* The picture on the screen is the file's: pixel after pixel the three bytes
\* that follow the header in the clusters of the file, in the order of its
\* chain, across sectors and clusters, whatever the length of the header; and
\* when it is shown no pixel is missing.  Errors on the command line change
\* nothing about it.
PictureIsFile ==
    image # <<>> /\ dataFaults = 0 =>
        LET file == PictureOf[h]
            chain == volume.chain[file]
            header == volume.header[SectorOf(chain, 0)]
            length == Len(chain) * volume.SecPerClus * Bytes
            Byte(b) == <<SectorOf(chain, b), b % Bytes>>
        IN  /\ \A k \in 1..Len(image) : \A c \in 0..2 : image[k][c] = Byte(header + 3 * (k - 1) + c)
            /\ At("shown") => Len(image) = (length - header) \div 3

\* Each read of the display loop returns, however many commands have to be
\* sent again and whether or not the data comes.  Only the first read of all
\* may wait for ever: after a data timeout Chk_DATend waits for a flag that the
\* loop has just cleared.
ReadReturns ==
    (At("Rd_Block") /\ RCA # 0 /\ scenario.operations = 0)
        ~> (At("DATclear") \/ (At("Chk_DATend") /\ j = 1))

=============================================================================
