---------------------------- MODULE UndoRecords ----------------------------
(***************************************************************************)
(* The undo records of one page and the operations gschem performs on      *)
(* them: libgeda/src/struct/s_undo.c and the list handling of              *)
(* gschem/src/object/o_undo.c.  The module has no state: the modules that  *)
(* hold a page keep its stack in a variable and apply these operators.     *)
(*                                                                         *)
(* The doubly linked list from undo_bottom to undo_tos is the sequence     *)
(* `list'; undo_current is the index `current', 0 when the pointer is      *)
(* NULL.  undo_bottom is index 1 and undo_tos is Len(list): in the code    *)
(* only o_undo_savestate moves undo_tos, always to the record it appended. *)
(*                                                                         *)
(* A page's contents are one value of Content: two pages are the same      *)
(* value when they would be written as the same schematic file.            *)
(***************************************************************************)
EXTENDS Integers, Sequences, FiniteSets

CONSTANTS
    Content,      \* what a page can hold
    Empty,        \* a page without objects, when Content has it
    NULL,         \* the C NULL of filename and object_list
    UndoLevels,   \* undo-levels of the settings dialog (a spin from 0 to 99)
    UndoPadding,  \* UNDO_PADDING, 5 in the code
    CheckEvery    \* the history is checked every CheckEvery saves, 10 in the code

ASSUME NullAssumption == NULL \notin Content
ASSUME LimitAssumption ==
    UndoLevels \in Nat /\ UndoPadding \in Nat \ {0} /\ CheckEvery \in Nat \ {0}

UNDO_TYPE == {"NONE", "DISK", "MEMORY"}
RecordType == {"UNDO_ALL", "UNDO_VIEWPORT_ONLY"}

(* struct st_undo.  `filename' stands for the contents of the undo file of *)
(* that name.  `page' is a history field: what the page held when the      *)
(* record was made.  The code has no such field; properties compare it     *)
(* with what the code restores.                                            *)
UNDO == [type : RecordType, filename : Content \cup {NULL},
         object_list : Content \cup {NULL}, modified : BOOLEAN, page : Content]

Stack == {s \in [list : Seq(UNDO), current : Nat] : s.current <= Len(s.list)}

(* s_undo_init, and what s_undo_free_all leaves. *)
NoUndo == [list |-> << >>, current |-> 0]

(* Definitions named ...Wrong are slips a change of the code could make;    *)
(* the checks must notice each of them.                                     *)

(* s_undo_add_disk without the line that copies page->CHANGED. *)
NewRecordWrong(undo_type, flag, c, changed) ==
    [type        |-> flag,
     filename    |-> IF undo_type = "DISK" /\ flag = "UNDO_ALL" THEN c ELSE NULL,
     object_list |-> IF undo_type = "MEMORY" /\ c # Empty THEN c ELSE NULL,
     modified    |-> FALSE,
     page        |-> c]

(* s_undo_add_disk and s_undo_add_memory.  o_undo_savestate has a file     *)
(* name for an UNDO_ALL record on disk only; a memory record always copies *)
(* the objects, and the copy of an empty page is NULL.                     *)
NewRecord(undo_type, flag, c, changed) ==
    [type        |-> flag,
     filename    |-> IF undo_type = "DISK" /\ flag = "UNDO_ALL" THEN c ELSE NULL,
     object_list |-> IF undo_type = "MEMORY" /\ c # Empty THEN c ELSE NULL,
     modified    |-> changed,
     page        |-> c]

(* "Clear Anything above current", then the new record becomes tos and     *)
(* current.  With undo-type none the records above are still cleared but   *)
(* no record is added.                                                     *)
ClearAbove(s) == [s EXCEPT !.list = SubSeq(s.list, 1, s.current)]

(* The records above undo_current are left in the list. *)
PushWrong(s, u) == [list |-> Append(s.list, u), current |-> s.current + 1]

Push(s, u) == [list |-> Append(SubSeq(s.list, 1, s.current), u),
               current |-> s.current + 1]

(* s_undo_levels counts the records that have data. *)
HasData(u) == u.filename # NULL \/ u.object_list # NULL
s_undo_levels(list) == Cardinality({i \in DOMAIN list : HasData(list[i])})

(* `>' for `>='. *)
ExcessLateWrong(list, undo_file_index) ==
    IF /\ undo_file_index % CheckEvery = 0
       /\ s_undo_levels(list) > UndoLevels + UndoPadding
    THEN s_undo_levels(list) - UndoLevels
    ELSE 0

(* One record too many. *)
ExcessOneWrong(list, undo_file_index) ==
    IF /\ undo_file_index % CheckEvery = 0
       /\ s_undo_levels(list) >= UndoLevels + UndoPadding
    THEN s_undo_levels(list) - UndoLevels + 1
    ELSE 0

(* `levels' is not reduced by the levels to keep. *)
ExcessAllWrong(list, undo_file_index) ==
    IF /\ undo_file_index % CheckEvery = 0
       /\ s_undo_levels(list) >= UndoLevels + UndoPadding
    THEN s_undo_levels(list)
    ELSE 0

(* The number of records the trimming loop of o_undo_savestate removes     *)
(* from the bottom: it is computed from the records with data, but the     *)
(* loop frees records of any kind.                                         *)
Excess(list, undo_file_index) ==
    IF /\ undo_file_index % CheckEvery = 0
       /\ s_undo_levels(list) >= UndoLevels + UndoPadding
    THEN s_undo_levels(list) - UndoLevels
    ELSE 0

(* The loop stops at the end of the list; when nothing is left the code    *)
(* reports a bug and leaves undo_bottom at freed memory.                   *)
Exhausts(s, n) == n > 0 /\ n >= Len(s.list)

(* undo_current is left at a freed record. *)
DropBottomWrong(s, n) ==
    [list |-> SubSeq(s.list, n + 1, Len(s.list)), current |-> s.current]

DropBottom(s, n) == [list |-> SubSeq(s.list, n + 1, Len(s.list)),
                     current |-> s.current - n]

(* What a record of the current undo-type restores. *)
Stored(u, undo_type) ==
    CASE undo_type = "DISK"   -> u.filename
      [] undo_type = "MEMORY" -> u.object_list
      [] OTHER                -> NULL

(* The search goes on to the oldest record with data. *)
PrevStoredWrong(list, i, undo_type) ==
    LET below == {j \in 1..(i - 1) : Stored(list[j], undo_type) # NULL}
    IN  IF below = {} THEN NULL
        ELSE Stored(list[CHOOSE j \in below : \A k \in below : j <= k], undo_type)

(* o_undo_find_prev_filename and o_undo_find_prev_object_head *)
PrevStored(list, i, undo_type) ==
    LET below == {j \in 1..(i - 1) : Stored(list[j], undo_type) # NULL}
    IN  IF below = {} THEN NULL
        ELSE Stored(list[CHOOSE j \in below : \A k \in below : k <= j], undo_type)

(* find_prev_data is never set. *)
BorrowsWrong(s, target) == FALSE

(* o_undo_callback: stepping from an UNDO_ALL record to a viewport record  *)
(* borrows the data of a record below.                                     *)
Borrows(s, target) ==
    /\ s.list[s.current].type = "UNDO_ALL"
    /\ s.list[target].type = "UNDO_VIEWPORT_ONLY"

RestoredFrom(s, target, undo_type) ==
    IF Borrows(s, target) THEN PrevStored(s.list, target, undo_type)
    ELSE Stored(s.list[target], undo_type)

(* After a borrow the code clears both data pointers of the record, also   *)
(* the object list a memory record had of its own.                         *)
StepTo(s, target) ==
    [list |-> IF Borrows(s, target)
              THEN [s.list EXCEPT ![target].filename = NULL,
                                  ![target].object_list = NULL]
              ELSE s.list,
     current |-> target]

(* Without the test that the record has a previous one. *)
RemoveLastWrong(s) ==
    [s EXCEPT !.current = IF s.current > 0 THEN s.current - 1 ELSE s.current]

(* o_undo_remove_last_undo: only undo_current moves. *)
RemoveLast(s) ==
    [s EXCEPT !.current = IF s.current > 1 THEN s.current - 1 ELSE s.current]

(* The loop that marks the other records as modified is missing. *)
UpdateModifiedWrong(s) ==
    IF s.current = 0 THEN s ELSE [s EXCEPT !.list[s.current].modified = FALSE]

(* s_undo_update_modified: every record is modified, the current one not. *)
UpdateModified(s) ==
    [s EXCEPT !.list = [i \in DOMAIN s.list |->
                          [s.list[i] EXCEPT !.modified = (i # s.current)]]]

(***************************************************************************)
(* o_undo_savestate as one operation.  `ok' is FALSE when o_save fails to  *)
(* write the undo file: the code then switches to type MEMORY and frees    *)
(* the whole history of the page.  The result has the new stack, undo type *)
(* and file index, and whether the trimming loop ran off the list.         *)
(***************************************************************************)
Savestate(s, undo_type, index, flag, c, changed, ok) ==
    LET disk == undo_type = "DISK" /\ flag = "UNDO_ALL"
        type == IF disk /\ ~ok THEN "MEMORY" ELSE undo_type
        next == IF disk THEN (index + 1) % CheckEvery ELSE index
        kept == IF disk /\ ~ok THEN NoUndo ELSE s
        full == IF type = "NONE" THEN ClearAbove(kept)
                ELSE Push(kept, NewRecord(type, flag, c, changed))
        n    == Excess(full.list, next)
    IN  [undo      |-> IF Exhausts(full, n) THEN full ELSE DropBottom(full, n),
         undo_type |-> type,
         index     |-> next,
         dangling  |-> Exhausts(full, n)]
=============================================================================
