---------------------------- MODULE MCWorkbench ----------------------------
(* Undo: two actors; one-byte values at each of two bytes and a value over   *)
(* both.  Snapshots: three addresses, reads from one byte to over the limit. *)
(* Pointers: four words in two segments of a module and a heap, every content*)
(* of each, three scans, two placements.                                     *)
(* Records: two users, lists of up to two, a cheat table with good and bad   *)
(* entries and one without a good one.  Device: two devices, reads of up to  *)
(* three pieces.  Values: bytes at the ends and the middle of the range,     *)
(* numbers at and past the ends of every type, decimals between floats.      *)
(* Filter: regions side by side and apart, with a hole anywhere, one or two  *)
(* candidates anywhere.                                                      *)
EXTENDS Workbench

CONSTANTS main, h1, reader, None, coins, lives, noLabel, usb, wifi, nan

TwoActors == {main, h1}
TwoCells == {1, 2}
Widths == {{1}, {2}, {1, 2}}
Bits == {0, 1}
ThreeRegions == {1, 2, 3}
ReadLengths == {1, 2, 4}

Ptr(r, o) == [region |-> r, offset |-> o]
Three == {"data", "bss", "heap"}
Sizes == [data |-> 2, bss |-> 2, heap |-> 4]
Names == [data |-> "lib", bss |-> "lib", heap |-> "[heap]"]
Lib == {"lib"}
TwoPlacements ==
    {[data |-> 10, bss |-> 14, heap |-> 16], [data |-> 40, bss |-> 44, heap |-> 30]}
SomePointees == {None} \cup
    {Ptr("data", 0), Ptr("bss", 0), Ptr("heap", 0), Ptr("heap", 1), Ptr("heap", 2)}
SomeRequests ==
    {[target |-> Ptr("heap", 2), maxDepth |-> 3, maxOffset |-> 2],
     [target |-> Ptr("heap", 3), maxDepth |-> 2, maxOffset |-> 3],
     [target |-> Ptr("bss", 0), maxDepth |-> 2, maxOffset |-> 4]}

OneLabel == {coins}
TwoTypes == {"int32", "int64"}
OneResult == {{1}}
Entry(prefix, offset, label, long) ==
    [prefix |-> prefix, offset |-> offset, label |-> label, long |-> long]
TwoTables ==
    {<<Entry("module", 1, lives, TRUE), Entry("number", 1, lives, FALSE),
       Entry("none", 2, noLabel, FALSE)>>,
     <<Entry("none", None, lives, FALSE)>>}

TwoDevices == {usb, wifi}
OneReader == {reader}

EdgeBytes == {0, 1, 6, 7, 8, 15}
\* Ends of the integers; a quarter, a half and more between floats, from zero and
\* up to the infinities, 24 and 384; no number.
EdgeNumbers ==
    {-129, -128, -9, -8, -7, 0, 1, 7, 8, 15, 16, 127, 128, 255, 256} \cup
    {-26, -25, -24, -23, -22, -3, -2, -1, 2, 3, 4, 5, 6, 21, 22, 23, 24, 25} \cup
    {-385, -384, -383, -382, 381, 382, 383, 384, 385, nan}

Area(s, e) == [start |-> s, end |-> e]
Layouts == {<<Area(1, 4), Area(4, 7), Area(8, 9)>>, <<Area(0, 2), Area(5, 8)>>}
CandidateSets == {{}} \cup {{a, b} : a, b \in 0..9}
ShortAndLong == {1, 3}

TwoUsers == Permutations(TwoActors)
=============================================================================
