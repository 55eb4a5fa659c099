------------------------------ MODULE FileSave ------------------------------
(***************************************************************************)
(* One schematic file `name', the copy `name~' of the version a session    *)
(* found, and the autosave backup `#name#', at the granularity of the      *)
(* system calls that change them.  A process may die between any two, and  *)
(* the next session opens what it finds.                                   *)
(*                                                                         *)
(* Pages takes a save for one step and follows many pages; here there is   *)
(* one page and the steps of a save.  Only the death of the process is     *)
(* modelled, not of the machine: what was written stays written.           *)
(***************************************************************************)
CONSTANTS
    Content,            \* what a page can hold and a file can hold whole
    Empty,              \* the page without objects
    Damaged,            \* what is read from a file cut off between two objects
    NULL,
    Blank,              \* a file of zero bytes
    Torn,               \* a file with the first part of what was to be written
    make_backup_files,  \* TRUE or FALSE, as in the rc file
    UserActs            \* a subset of Acts

(* "crash"      the process dies, at any step                               *)
(* "stuck"      an old `name~' can be neither changed nor removed           *)
(* "full_disk"  the disk fills up, and is freed again                       *)
Acts == {"crash", "stuck", "full_disk"}

ASSUME FileSaveAssumption ==
    /\ {Empty, Damaged} \subseteq Content
    /\ NULL \notin Content /\ Blank \notin Content /\ Torn \notin Content
    /\ Blank # NULL /\ Torn # NULL /\ Blank # Torn
    /\ make_backup_files \in BOOLEAN
    /\ UserActs \subseteq Acts

VARIABLES
    page,   \* the open page, or NULL
    disk,   \* the three files, which one of two is newer, and the space left
    step,   \* where the running command is
    kept,   \* history variable: the version that must not get lost, or NULL
    unnoticed  \* history variable: what went wrong on a full disk, a subset
               \* of {"copy", "write"}; the program reported success

vars == <<page, disk, step, kept, unnoticed>>

PAGE == [content : Content, CHANGED : BOOLEAN, saved_since_first_loaded : BOOLEAN,
         ops_since_last_backup : BOOLEAN]
FILE == Content \cup {NULL, Blank, Torn}

ASSUME PageIsNotNull == NULL \notin PAGE

(* Where f_save and o_save_auto_backup are: "backup" removes the old copy,  *)
(* "copy" makes the new one, "copying" and "spinning" are in its loop,      *)
(* "truncate" and "write" are fopen and fputs of o_save.                    *)
Steps == {"idle", "backup", "copy", "copying", "spinning", "truncate", "write",
          "autosave"}

TypeOK ==
    /\ page \in PAGE \cup {NULL}
    /\ disk \in [file : FILE, tilde : FILE, sharp : FILE,
                 newer : BOOLEAN,  \* the backup is newer than the file
                 full : BOOLEAN]
    /\ step \in Steps
    /\ kept \in Content \cup {NULL}
    /\ unnoticed \subseteq {"copy", "write"}

Init ==
    /\ page = NULL
    /\ disk \in [file : Content \cup {NULL}, tilde : Content \cup {NULL},
                 sharp : {NULL}, newer : {FALSE}, full : {FALSE}]
    /\ step = "idle"
    /\ kept = NULL
    /\ unnoticed = {}

NewPage(c, changed) ==
    [content |-> c, CHANGED |-> changed, saved_since_first_loaded |-> FALSE,
     ops_since_last_backup |-> FALSE]

-----------------------------------------------------------------------------
(* f_has_active_autosave, of a file that exists. *)
ActiveAutosave == disk.sharp # NULL /\ disk.newer

(* A file cut off is read like any other. *)
o_read_Wrong(f) == IF f = Blank THEN {Empty} ELSE {f}

(* What o_read can make of a file: NULL when the parser stops. *)
o_read(f) ==
    IF f = Torn THEN {NULL, Damaged} ELSE IF f = Blank THEN {Empty} ELSE {f}

(* A session promises to keep the version it found.  A file of zero bytes   *)
(* is no version: the one before it is still the one to keep.  Whoever goes *)
(* on with a damaged file keeps that.                                       *)
Promise ==
    IF ~make_backup_files \/ disk.file \in {NULL, Torn} THEN NULL
    ELSE IF disk.file = Blank THEN kept ELSE disk.file

(* What the user can answer: load the file, load the backup, or load the    *)
(* file and remove the backup.                                              *)
LoadNewerBackup == {"original", "backup", "discard"}

(* f_open under x_window_open_page.  A page whose file cannot be read is    *)
(* deleted again, and its backup file with it.                              *)
f_open ==
    /\ page = NULL /\ step = "idle" /\ disk.file # NULL
    /\ \E load \in IF ActiveAutosave THEN LoadNewerBackup ELSE {"original"} :
         \E c \in o_read(IF load = "backup" THEN disk.sharp ELSE disk.file) :
            /\ page' = IF c = NULL THEN NULL ELSE NewPage(c, load # "original")
            /\ kept' = IF c = NULL THEN kept ELSE Promise
            /\ disk' = IF c = NULL \/ load = "discard"
                       THEN [disk EXCEPT !.sharp = NULL, !.newer = FALSE] ELSE disk
    /\ UNCHANGED <<step, unnoticed>>

(* A name without a file opens an empty page; a backup is not looked for. *)
empty_page ==
    /\ page = NULL /\ step = "idle" /\ disk.file = NULL
    /\ page' = NewPage(Empty, FALSE)
    /\ kept' = Promise
    /\ UNCHANGED <<disk, step, unnoticed>>

(* Only the first change after a save counts as one to back up. *)
EditWrong ==
    /\ page # NULL /\ step = "idle"
    /\ \E c \in Content \ {page.content} :
          page' = [page EXCEPT !.content = c, !.CHANGED = TRUE,
                               !.ops_since_last_backup = ~page.CHANGED]
    /\ UNCHANGED <<disk, step, kept, unnoticed>>

Edit ==
    /\ page # NULL /\ step = "idle"
    /\ \E c \in Content \ {page.content} :
          page' = [page EXCEPT !.content = c, !.CHANGED = TRUE,
                               !.ops_since_last_backup = TRUE]
    /\ UNCHANGED <<disk, step, kept, unnoticed>>

(* s_page_delete removes the backup file, whether the page was saved or not. *)
s_page_delete ==
    /\ page # NULL /\ step = "idle"
    /\ page' = NULL
    /\ disk' = [disk EXCEPT !.sharp = NULL, !.newer = FALSE]
    /\ UNCHANGED <<step, kept, unnoticed>>

-----------------------------------------------------------------------------
(* Every file that exists is copied, also one of zero bytes. *)
NeedsBackupWrong ==
    /\ make_backup_files /\ ~page.saved_since_first_loaded
    /\ disk.file # NULL

(* Only the first save of a session copies, and never an empty file. *)
NeedsBackup ==
    /\ make_backup_files /\ ~page.saved_since_first_loaded
    /\ disk.file \notin {NULL, Blank}

f_save ==
    /\ page # NULL /\ step = "idle"
    /\ step' = IF NeedsBackup THEN "backup" ELSE "truncate"
    /\ UNCHANGED <<page, disk, kept, unnoticed>>

(* The copy of the session before goes; when chmod fails it stays. *)
RemoveTilde ==
    /\ step = "backup"
    /\ \/ disk' = [disk EXCEPT !.tilde = NULL]
       \/ "stuck" \in UserActs /\ disk.tilde # NULL /\ UNCHANGED disk
    /\ step' = "copy"
    /\ UNCHANGED <<page, kept, unnoticed>>

(* O_EXCL without a way out when the file is there. *)
CopyOpen_Wrong ==
    /\ step = "copy"
    /\ disk.tilde = NULL
    /\ \E f \in {Blank, Torn} : disk' = [disk EXCEPT !.tilde = f]
    /\ step' = "copying"
    /\ UNCHANGED <<page, kept, unnoticed>>

(* f_file_copy opens with O_EXCL.  When the old copy is still there the     *)
(* failure is logged, the save goes on, and the promise is off.             *)
CopyOpen ==
    /\ step = "copy"
    /\ \/ /\ disk.tilde = NULL
          /\ \E f \in {Blank, Torn} : disk' = [disk EXCEPT !.tilde = f]
          /\ step' = "copying"
          /\ UNCHANGED kept
       \/ /\ disk.tilde # NULL
          /\ step' = "truncate" /\ kept' = NULL
          /\ UNCHANGED disk
    /\ UNCHANGED <<page, unnoticed>>

(* write returns -1 on a full disk; nwritten is unsigned, so the loop takes *)
(* it for progress, moves back one byte and tries again, with one byte more *)
(* to write.                                                                *)
CopyWrite ==
    /\ step = "copying"
    /\ \/ ~disk.full /\ disk' = [disk EXCEPT !.tilde = disk.file] /\ step' = "truncate"
       \/ disk.full /\ step' = "spinning" /\ UNCHANGED disk
    /\ UNCHANGED <<page, kept, unnoticed>>

(* Once there is space again the loop goes on from the wrong place. *)
CopySpins ==
    /\ step = "spinning" /\ ~disk.full
    /\ disk' = [disk EXCEPT !.tilde = Torn]
    /\ step' = "truncate"
    /\ unnoticed' = unnoticed \cup {"copy"}
    /\ UNCHANGED <<page, kept>>

(* fopen "w": from here until fclose the file holds nothing or a part. *)
Truncate ==
    /\ step = "truncate"
    /\ \E f \in {Blank, Torn} : disk' = [disk EXCEPT !.file = f, !.newer = FALSE]
    /\ step' = "write"
    /\ UNCHANGED <<page, kept, unnoticed>>

(* o_save checks neither fputs nor fclose. *)
Written == IF disk.full THEN {Blank, Torn} ELSE {page.content}
Unnoticed == unnoticed' = IF disk.full THEN unnoticed \cup {"write"} ELSE unnoticed

Write ==
    /\ step = "write"
    /\ \E f \in Written : disk' = [disk EXCEPT !.file = f]
    /\ page' = [page EXCEPT !.saved_since_first_loaded = TRUE, !.CHANGED = FALSE,
                            !.ops_since_last_backup = FALSE]
    /\ step' = "idle" /\ Unnoticed
    /\ UNCHANGED kept

(* A backup made counts as a save. *)
AutosaveWrite_Wrong ==
    /\ step = "autosave"
    /\ \E f \in Written : disk' = [disk EXCEPT !.sharp = f]
    /\ page' = [page EXCEPT !.saved_since_first_loaded = TRUE, !.CHANGED = FALSE,
                            !.ops_since_last_backup = FALSE]
    /\ step' = "idle" /\ Unnoticed
    /\ UNCHANGED kept

(* o_save_auto_backup truncates the last backup before it writes the next.  *)
(* When it runs is for Pages.                                               *)
o_save_auto_backup ==
    /\ page # NULL /\ step = "idle" /\ page.ops_since_last_backup
    /\ \E f \in {Blank, Torn} : disk' = [disk EXCEPT !.sharp = f, !.newer = TRUE]
    /\ step' = "autosave"
    /\ UNCHANGED <<page, kept, unnoticed>>

AutosaveWrite ==
    /\ step = "autosave"
    /\ \E f \in Written : disk' = [disk EXCEPT !.sharp = f]
    /\ page' = [page EXCEPT !.ops_since_last_backup = FALSE]
    /\ step' = "idle" /\ Unnoticed
    /\ UNCHANGED kept

-----------------------------------------------------------------------------
Crash ==
    /\ "crash" \in UserActs
    /\ page # NULL
    /\ page' = NULL /\ step' = "idle"
    /\ UNCHANGED <<disk, kept, unnoticed>>

DiskFills ==
    /\ "full_disk" \in UserActs
    /\ disk' = [disk EXCEPT !.full = ~@]
    /\ UNCHANGED <<page, step, kept, unnoticed>>

(* The next step of a command that runs. *)
Proceed ==
    \/ RemoveTilde \/ CopyOpen \/ CopyWrite \/ CopySpins
    \/ Truncate \/ Write \/ AutosaveWrite

Next ==
    \/ f_open \/ empty_page \/ Edit \/ s_page_delete
    \/ f_save \/ o_save_auto_backup
    \/ Proceed
    \/ Crash \/ DiskFills

(* A command that runs goes on: nothing in it waits for anybody. *)
Spec == Init /\ [][Next]_vars /\ WF_vars(Proceed)

-----------------------------------------------------------------------------
(* The version a session finds is on the disk, whole, from then on: in the  *)
(* file until the first save has copied it, and in `name~' after that,      *)
(* whatever the later saves of the session, a crash at any point of them,   *)
(* and the sessions that find an empty file after it do.                    *)
VersionKept ==
    kept # NULL /\ "copy" \notin unnoticed => kept \in {disk.file, disk.tilde}

(* As long as the disk never was full at a write, a page that was saved and *)
(* not changed since is in its file, whole.                                 *)
SavedIsWritten ==
    page # NULL /\ step = "idle" /\ page.saved_since_first_loaded /\ ~page.CHANGED
    /\ "write" \notin unnoticed
    => disk.file = page.content

(* When no autosave is due, a crash loses nothing: what is on the page is   *)
(* in the file, or in a backup newer than the file, which the next session  *)
(* offers.                                                                  *)
NothingDueNothingLost ==
    /\ page # NULL /\ step = "idle" /\ ~page.ops_since_last_backup
    /\ page.content \notin {Empty, Damaged} /\ "write" \notin unnoticed
    => \/ disk.file = page.content
       \/ disk.sharp = page.content /\ disk.newer

(* f_save and o_save_auto_backup come to their end, unless the disk is full. *)
CommandsEnd == (step # "idle") ~> (step = "idle" \/ disk.full)

(* o_save says it returns "1 on success, 0 on failure", and f_save clears   *)
(* CHANGED when it returned 1.                                              *)
SuccessIsWritten ==
    page # NULL /\ step = "idle" /\ page.saved_since_first_loaded /\ ~page.CHANGED
    => disk.file = page.content
=============================================================================
