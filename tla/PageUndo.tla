------------------------------ MODULE PageUndo ------------------------------
(***************************************************************************)
(* One page of gschem being edited: what the page holds, its CHANGED flag, *)
(* its file, and the undo history that edits, moves, zooms, saves and      *)
(* reverts push on and walk through.                                       *)
(*                                                                         *)
(* Each action is one command or event handler; gschem runs them one at a  *)
(* time on the GTK main loop.  What makes the history hard is that a move  *)
(* spans several of them: o_move_start records the page, and until         *)
(* o_move_end or a cancel every other command may still run.               *)
(*                                                                         *)
(* o_undo_savestate also calls o_save_auto_backup first.  With one page    *)
(* that writes a backup file and leaves every variable here unchanged.     *)
(***************************************************************************)
EXTENDS UndoRecords

CONSTANTS
    UndoTypes,     \* undo-type values the settings dialog is used with
    UndoControls,  \* undo-control values the settings dialog is used with
    UserActs,      \* what else the user and the system do, a subset of Acts
    RecordBound    \* bound: no command records on a stack this long

(* "move"           moves and rotates selections                           *)
(* "save_in_move"   saves while a move is under way                        *)
(* "zoom"           zooms or pans with undo-panzoom enabled                *)
(* "zoom_in_move"   the same while a move is under way                     *)
(* "revert"         reverts the page to its file                           *)
(* "settings"       applies the settings dialog                            *)
(* "other_page"     edits another page, which has a history of its own     *)
(* "faults"         file system calls fail                                 *)
Acts == {"move", "save_in_move", "zoom", "zoom_in_move", "revert", "settings",
         "other_page", "faults"}

ASSUME SettingsAssumption ==
    /\ UndoTypes \subseteq UNDO_TYPE
    /\ UndoControls \subseteq BOOLEAN
    /\ UserActs \subseteq Acts
    /\ RecordBound \in Nat
ASSUME EmptyAssumption == "faults" \in UserActs => Empty \in Content

VARIABLES
    content,          \* what the page holds
    CHANGED,          \* page->CHANGED
    filename,         \* page->filename: the page's own file or an undo file
    file,             \* what the page's own file holds
    undo,             \* undo_bottom .. undo_tos and undo_current
    undo_type,        \* w_current->undo_type
    undo_control,     \* w_current->undo_control
    undo_file_index,  \* modulo CheckEvery; one counter for every page
    inside_action,    \* w_current->inside_action, in a move
    event_state,      \* w_current->event_state
    dangling,         \* the trimming loop has freed the whole list
    before            \* history variable: what the page held at o_move_start

history  == <<undo, undo_type, undo_file_index, dangling>>
page     == <<content, CHANGED, filename>>
move     == <<inside_action, event_state, before>>
vars     == <<content, CHANGED, filename, file, undo, undo_type, undo_control,
              undo_file_index, inside_action, event_state, dangling,
              before>>

TypeOK ==
    /\ content \in Content /\ file \in Content /\ before \in Content
    /\ CHANGED \in BOOLEAN
    /\ filename \in {"page", "undo"}
    /\ undo \in Stack
    /\ undo_type \in UNDO_TYPE
    /\ undo_control \in BOOLEAN
    /\ undo_file_index \in 0..(CheckEvery - 1)
    /\ inside_action \in BOOLEAN
    /\ event_state \in {"SELECT", "MOVEMODE"}
    /\ dangling \in BOOLEAN

-----------------------------------------------------------------------------
(* x_window_open_page: the page is read from its file, or is a new one, and *)
(* its first state is saved.                                                *)
Init ==
    \E c \in Content, type \in UndoTypes :
        LET first == Savestate(NoUndo, type, 0, "UNDO_ALL", c, FALSE, TRUE)
        IN  /\ content = c /\ file = c /\ before = c
            /\ CHANGED = FALSE
            /\ filename = "page"
            /\ undo_control = TRUE
            /\ undo = first.undo
            /\ undo_type = first.undo_type
            /\ undo_file_index = first.index
            /\ dangling = first.dangling
            /\ inside_action = FALSE
            /\ event_state = "SELECT"

Room == Len(undo.list) < RecordBound

Outcomes == IF "faults" \in UserActs THEN BOOLEAN ELSE {TRUE}

(* o_undo_savestate on the stack s of a page that holds c. *)
o_undo_savestate(flag, s, c, changed) ==
    IF undo_control
    THEN \E ok \in Outcomes :
            LET r == Savestate(s, undo_type, undo_file_index, flag, c, changed, ok)
            IN  /\ undo' = r.undo
                /\ undo_type' = r.undo_type
                /\ undo_file_index' = r.index
                /\ dangling' = r.dangling
    ELSE /\ undo' = s
         /\ UNCHANGED <<undo_type, undo_file_index, dangling>>

(* f_open reads an undo file back into the emptied page.  When it fails the *)
(* handler returns early: the page stays empty, the stack pointers it took  *)
(* off the page are not put back, and page->filename is the undo file if    *)
(* f_open came as far as setting it.                                        *)
UndoFileLost(s, data, changed) ==
    /\ "faults" \in UserActs
    /\ undo_type = "DISK" /\ data # NULL
    /\ undo' = NoUndo
    /\ content' = Empty
    /\ CHANGED' = changed
    /\ filename' \in {filename, "undo"}

(* o_undo_callback on the stack s of a page that holds c, stepping to the   *)
(* record at index target.                                                  *)
o_undo_callback(s, target, c, changed) ==
    IF ~undo_control \/ s.current = 0 \/ target \notin DOMAIN s.list
    THEN /\ undo' = s /\ content' = c /\ CHANGED' = changed
         /\ UNCHANGED filename
    ELSE LET data == RestoredFrom(s, target, undo_type)
         IN  \/ /\ undo' = StepTo(s, target)
                /\ content' = IF data = NULL THEN c ELSE data
                /\ CHANGED' = IF data = NULL THEN changed
                              ELSE s.list[target].modified
                /\ UNCHANGED filename
             \/ UndoFileLost(s, data, changed)

-----------------------------------------------------------------------------
(* Any command that edits the page outside a move and then saves its state: *)
(* placing, deleting, attributes, a rotation of the selection.  They all    *)
(* set CHANGED first, but several also save a state when nothing changed.   *)
Edit ==
    /\ ~inside_action /\ Room
    /\ \E c \in Content, changed \in {TRUE, CHANGED} :
        /\ c # content => changed
        /\ content' = c
        /\ CHANGED' = changed
        /\ o_undo_savestate("UNDO_ALL", undo, c, changed)
    /\ UNCHANGED <<filename, file, undo_control, move>>

(* The zoom, pan and scroll commands when undo-panzoom is enabled. *)
Zoom ==
    /\ "zoom" \in UserActs /\ Room
    /\ inside_action => "zoom_in_move" \in UserActs
    /\ o_undo_savestate("UNDO_VIEWPORT_ONLY", undo, content, CHANGED)
    /\ UNCHANGED <<page, file, undo_control, move>>

(* No state is saved before the objects move. *)
o_move_start_Wrong ==
    /\ "move" \in UserActs
    /\ ~inside_action /\ content # Empty /\ Room
    /\ inside_action' = TRUE
    /\ event_state' = "MOVEMODE"
    /\ before' = content
    /\ UNCHANGED <<page, file, history, undo_control>>

(* o_move_start, o_move_start_drag: a page with a selection is not empty. *)
o_move_start ==
    /\ "move" \in UserActs
    /\ ~inside_action /\ content # Empty /\ Room
    /\ o_undo_savestate("UNDO_ALL", undo, content, CHANGED)
    /\ inside_action' = TRUE
    /\ event_state' = "MOVEMODE"
    /\ before' = content
    /\ UNCHANGED <<page, file, undo_control>>

(* do_rotate inside a move turns the objects in place and saves no state. *)
o_place_rotate ==
    /\ inside_action
    /\ content' \in Content \ {Empty}
    /\ CHANGED' = TRUE
    /\ UNCHANGED <<filename, file, history, undo_control, move>>

(* The handler is installed for the event state of the action only.  The   *)
(* record of o_move_start is given up whatever undo_control says.          *)
o_move_end ==
    /\ inside_action /\ event_state = "MOVEMODE" /\ Room
    /\ \E c \in Content \ {Empty} :
        /\ content' = c
        /\ o_undo_savestate("UNDO_ALL", RemoveLast(undo), c, TRUE)
    /\ CHANGED' = TRUE
    /\ inside_action' = FALSE
    /\ event_state' = "SELECT"
    /\ UNCHANGED <<filename, file, undo_control, before>>

(* The cancel callback inside a move, which is also what do_undo and        *)
(* closing the window run.  The place list holds the page's own objects:    *)
(* freeing it takes them off the page.  In state MOVEMODE o_move_cancel     *)
(* then goes back one record; in any other state nothing does.              *)
i_callback_cancel ==
    /\ inside_action
    /\ \E stripped \in Content \ {content} :
        IF event_state = "MOVEMODE"
        THEN o_undo_callback(undo, undo.current - 1, stripped, TRUE)
        ELSE /\ content' = stripped
             /\ CHANGED' = TRUE
             /\ UNCHANGED <<undo, filename>>
    /\ inside_action' = FALSE
    /\ event_state' = "SELECT"
    /\ UNCHANGED <<file, undo_type, undo_control, undo_file_index, dangling, before>>

(* do_undo cancels instead when inside an action. *)
do_undo ==
    /\ ~inside_action
    /\ o_undo_callback(undo, undo.current - 1, content, CHANGED)
    /\ UNCHANGED <<file, undo_type, undo_control, undo_file_index, dangling, move>>

(* do_redo has no such test. *)
do_redo ==
    /\ o_undo_callback(undo, undo.current + 1, content, CHANGED)
    /\ UNCHANGED <<file, undo_type, undo_control, undo_file_index, dangling, move>>

(* do_save, x_window_save_page, f_save.  The event state becomes SELECT     *)
(* even inside a move, which stays under way.                               *)
do_save ==
    /\ inside_action => "save_in_move" \in UserActs
    /\ file' = IF filename = "page" THEN content ELSE file
    /\ CHANGED' = FALSE
    /\ undo' = UpdateModified(undo)
    /\ event_state' = "SELECT"
    /\ UNCHANGED <<content, filename, undo_type, undo_file_index, dangling,
                   undo_control, inside_action, before>>

(* i_window_revert_page with a file that opens: the state is saved "just in *)
(* case", the page is emptied and read again.                               *)
i_window_revert_page ==
    /\ "revert" \in UserActs
    /\ ~inside_action /\ Room
    /\ o_undo_savestate("UNDO_ALL", undo, content, CHANGED)
    /\ content' \in IF filename = "page" THEN {file} ELSE Content
    /\ CHANGED' = FALSE
    /\ UNCHANGED <<filename, file, undo_control, move>>

(* The same when f_open fails: the emptied page is to be recovered by an    *)
(* undo of the state just saved.  The savestate is one that succeeded.      *)
RevertFails ==
    /\ {"revert", "faults"} \subseteq UserActs
    /\ ~inside_action /\ Room
    /\ LET r == IF undo_control
                THEN Savestate(undo, undo_type, undo_file_index, "UNDO_ALL",
                               content, CHANGED, TRUE)
                ELSE [undo |-> undo, undo_type |-> undo_type,
                      index |-> undo_file_index, dangling |-> FALSE]
       IN  /\ o_undo_callback(r.undo, r.undo.current - 1, Empty, CHANGED)
           /\ undo_file_index' = r.index
           /\ dangling' = r.dangling
    /\ UNCHANGED <<file, undo_type, undo_control, move>>

(* The settings dialog.  Choosing type none also clears undo_control, but   *)
(* the switch of the dialog then overwrites it.                             *)
GatherSettings ==
    /\ "settings" \in UserActs
    /\ ~inside_action
    /\ undo_type' \in UndoTypes
    /\ undo_control' \in UndoControls
    /\ UNCHANGED <<page, file, undo, undo_file_index, dangling, move>>

(* An edit of another page: it counts in the shared undo_file_index.        *)
OtherPage ==
    /\ "other_page" \in UserActs
    /\ undo_control /\ undo_type = "DISK"
    /\ undo_file_index' = (undo_file_index + 1) % CheckEvery
    /\ UNCHANGED <<page, file, undo, undo_type, dangling, undo_control, move>>

(* Once the list dangles the program's behaviour is undefined: no step.     *)
Next ==
    /\ ~dangling
    /\ \/ Edit \/ Zoom
       \/ o_move_start \/ o_place_rotate \/ o_move_end \/ i_callback_cancel
       \/ do_undo \/ do_redo
       \/ do_save \/ i_window_revert_page \/ RevertFails
       \/ GatherSettings \/ OtherPage

Spec == Init /\ [][Next]_vars
-----------------------------------------------------------------------------
(* undo_current is NULL exactly when the page has no records; s_undo.c and  *)
(* o_undo.c test the one where they mean the other.                         *)
Shape == undo.current = 0 <=> undo.list = << >>

(* o_undo_callback "restores the current page to the previous state": the   *)
(* page always is what it was when the current record was made, however     *)
(* edits, undos, redos, moves and trimming follow one another.              *)
PageMatchesCursor ==
    ~inside_action /\ undo.current # 0 => content = undo.list[undo.current].page

(* A record not marked modified is the page as it is in the file: going     *)
(* back to it may clear CHANGED.                                            *)
CleanRecordsMatchFile ==
    \A i \in DOMAIN undo.list :
        ~undo.list[i].modified => undo.list[i].page = file

(* A page whose CHANGED is not set is what its file holds: it is closed     *)
(* without asking, so the flag must survive every undo, redo and save.      *)
SavedFlagSound == ~inside_action /\ ~CHANGED => content = file

(* Inside a move undo_current is the newest record, so that redo, which     *)
(* does not test inside_action, finds nothing to restore under the move.    *)
NoRedoDuringMove == inside_action /\ undo_control => undo.current = Len(undo.list)

(* Trimming never frees the record undo_current points to, nor the whole    *)
(* list: "Because we use a pad we are always guaranteed to never exhaust    *)
(* the list".                                                               *)
NeverExhausted == ~dangling

(* The history stays "within the limits" although it is checked only at     *)
(* every CheckEvery-th undo file: at most the saves since the last check    *)
(* are on top of what the check would not trim.                             *)
HistoryBounded ==
    s_undo_levels(undo.list) <= UndoLevels + UndoPadding + CheckEvery - 2

(* Going back and forth loses no record: "save UNDO structures so they do   *)
(* not get released".                                                       *)
UndoKeepsHistory ==
    [][do_undo \/ do_redo => Len(undo'.list) = Len(undo.list)]_vars

(* Cancelling a move gives the page back as it was before the move, also    *)
(* after rotating the objects in it.                                        *)
CancelRewinds == [][i_callback_cancel => content' = before]_vars

-----------------------------------------------------------------------------
(* While a move is under way the document is what the move started from:    *)
(* the move takes effect, or leaves no trace, when it ends.                 *)
History == INSTANCE UndoHistory WITH
    Levels <- UndoLevels,
    doc    <- IF inside_action THEN before ELSE content,
    hist   <- [i \in DOMAIN undo.list |-> undo.list[i].page],
    pos    <- undo.current,
    dirty  <- CHANGED

(* The page, its records and its flag behave as the history the user is     *)
(* promised: every command is one step of it or leaves it alone.            *)
ImplementsHistory == History!Spec
=============================================================================
