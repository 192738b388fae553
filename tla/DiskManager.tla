---------------------------- MODULE DiskManager ----------------------------
(***************************************************************************)
(* The page half of storage/disk/disk_manager.cpp, as operators on the     *)
(* database file and its stream db_io_: a record with the contents of the  *)
(* file, its length and whether the stream is in the failed state.         *)
(* Lengths and offsets are counted in pages.  A page's contents are a      *)
(* number, 0 standing for PAGE_SIZE zero bytes.                            *)
(***************************************************************************)
EXTENDS Integers

CONSTANTS PageIds,     \* the page_id_t values in use
          IntPages     \* pages addressed by an int offset: 2^31 / PAGE_SIZE

ASSUME DiskAssumption ==
    /\ IntPages \in Nat \ {0}
    /\ PageIds \subseteq 0 .. 2 * IntPages - 1

EmptyFile == [file |-> [p \in PageIds |-> 0], size |-> 0, fail |-> FALSE]

\* Mutants of the definitions below.
BeyondOrAt(d, p) == p >= d.size

\* A byte offset or length of n pages stored in an int.
AsInt(n) == IF n < IntPages THEN n ELSE n - 2 * IntPages

\* The length of the file once page p has been written.
Grown(d, p) == IF p < d.size THEN d.size ELSE p + 1

\* A stream in the failed state ignores both the seek and the write, and only
\* bad() is tested.  A gap before the page reads as zeros.
WritePage(d, p, x) ==
    IF d.fail THEN d ELSE [d EXCEPT !.file[p] = x, !.size = Grown(d, p)]

\* Line 99: the int offset is compared with the int length of the file.
Beyond(d, p) == AsInt(p) > AsInt(d.size)

\* Lines 105-110: the read delivers nothing when the stream has failed, when it
\* seeks to a negative offset and at the end of the file.
Short(d, p) == d.fail \/ AsInt(p) < 0 \/ p >= d.size

\* The buffer after ReadPage: untouched beyond the end, zero-filled when short.
ReadPage(d, p, buf) ==
    IF Beyond(d, p) THEN buf ELSE IF Short(d, p) THEN 0 ELSE d.file[AsInt(p)]

\* A short read leaves the stream failed: nothing calls db_io_.clear().
AfterRead(d, p) ==
    IF ~Beyond(d, p) /\ Short(d, p) THEN [d EXCEPT !.fail = TRUE] ELSE d

\* A new DiskManager opens a fresh stream on the same file.
Reopened(d) == [d EXCEPT !.fail = FALSE]
=============================================================================
