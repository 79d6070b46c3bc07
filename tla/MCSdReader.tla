------------------------------- MODULE MCSdReader -------------------------------
(***************************************************************************)
(* One small volume, laid out as a FAT16 formatter does, and the instances *)
(* on which SdReader is checked.                                           *)
(***************************************************************************)
EXTENDS SdReader

\* Sectors: 3 boot, 4-6 and 7-9 FAT, 10-11 root, from 12 on clusters 2, 3, ...
Entry(name, cluster) == [name |-> name, cluster |-> cluster]
Dots == <<Entry(".", 0), Entry("..", 0)>>
Volume ==
    [SecPerClus |-> 2, RsvdSec |-> 1, RootDirNum |-> 4, Fatsz16 |-> 3, last |-> 31,
     entries |-> 10 :> <<Entry("LABEL", 0), Entry("BMP ", 2)>> @@ 11 :> <<NoEntry, NoEntry>>
              @@ 12 :> Dots @@ 13 :> <<Entry("2432", 3), NoEntry>>
              @@ 14 :> Dots @@ 15 :> <<Entry("006", 5), Entry("001", 6)>>
              @@ 16 :> <<Entry("002", 7), Entry("003", 10)>> @@ 17 :> <<Entry("004", 11), Entry("005", 8)>>,
     fat |-> 2 :> 65535 @@ 3 :> 4 @@ 4 :> 65535 @@ 5 :> 65535 @@ 6 :> 65535 @@ 7 :> 65535
          @@ 8 :> 65535 @@ 9 :> 65535 @@ 10 :> 9 @@ 11 :> 65535,
     chain |-> <<<<6>>, <<7>>, <<10, 9>>, <<11>>, <<8>>, <<5>>>>,
     header |-> 18 :> 2 @@ 20 :> 4 @@ 22 :> 4 @@ 28 :> 3 @@ 30 :> 5 @@ 24 :> 1]

Scenario(kind, faultsMax, dataMax, ops) ==
    [kind |-> kind, faults |-> faultsMax, dataFaults |-> dataMax, operations |-> ops, volume |-> Volume]

MCScenarios ==
    {Scenario("SD", 1, 1, 0), Scenario("MMC", 1, 0, 0), Scenario("none", 0, 0, 0)}
        \union {Scenario("SD", 1, 1, 3), Scenario("SDHS", 1, 0, 1), Scenario("MMC", 1, 1, 3)}
=============================================================================
