------------------------------- MODULE Pages -------------------------------
(***************************************************************************)
(* The pages of one gschem window, their files, and the backup files the   *)
(* autosave writes: opening, editing, saving and closing pages, the timer  *)
(* that asks for backups, and a crash with the restart that follows.       *)
(*                                                                         *)
(* The autosave has no step of its own.  The timer only flags pages; the   *)
(* next o_undo_savestate, of whatever page, writes the backups.  That ties *)
(* every command on one page to the state of all the others.               *)
(*                                                                         *)
(* A page is known by its file name.  A name has at most one schematic     *)
(* file and one backup file.  Undo is on disk and enabled; moves, viewport *)
(* records and failing undo files are in PageUndo.                         *)
(***************************************************************************)
EXTENDS UndoRecords, SequencesExt

CONSTANTS
    Names,      \* file names
    Untitled,   \* those that contain toplevel->untitled_name
    AutoSave,   \* auto_save_interval # 0
    UserActs,   \* what else the user and the system do, a subset of Acts
    MaxPages    \* bound: no more pages are opened

(* "goto"       makes any open page the current one                        *)
(* "undo"       undoes and redoes                                          *)
(* "save_many"  saves all pages, or all that changed, with one command     *)
(* "discard"    closes a changed page without saving it                    *)
(* "crash"      the program dies and is started again                      *)
(* "faults"     schematic files cannot be written                          *)
Acts == {"goto", "undo", "save_many", "discard", "crash", "faults"}

(* A backup that cannot be written is not modelled: o_save_auto_backup then *)
(* uses a GError pointer it has not initialized.                            *)
ASSUME PagesAssumption ==
    /\ Untitled \subseteq Names /\ NULL \notin Names
    /\ Empty \in Content
    /\ AutoSave \in BOOLEAN
    /\ UserActs \subseteq Acts
    /\ "faults" \in UserActs => ~AutoSave
    /\ MaxPages \in Nat \ {0}
ASSUME TrimAssumption == UndoLevels > 0

VARIABLES
    toplevel,  \* GedaToplevel and what of GschemToplevel its pages need
    disk,      \* the files: schematics, backups, and which one is newer
    since      \* history variable: what a page held since its file was written

vars == <<toplevel, disk, since>>

PAGE == [content : Content, CHANGED : BOOLEAN,
         ops_since_last_backup : BOOLEAN,  \* only compared with zero
         do_autosave_backup : BOOLEAN, undo : Stack]

NewPage(c, changed) ==
    [content |-> c, CHANGED |-> changed, ops_since_last_backup |-> FALSE,
     do_autosave_backup |-> FALSE, undo |-> NoUndo]

Open(t) == ToSet(t.pages)

TypeOK ==
    /\ toplevel \in [pages : Seq(Names), page_current : Names \cup {NULL},
                     page : [Names -> PAGE], force_save_as : BOOLEAN,
                     undo_file_index : 0..(CheckEvery - 1)]
    /\ disk \in [file : [Names -> Content \cup {NULL}],
                 backup : [Names -> Content \cup {NULL}],
                 newer : [Names -> BOOLEAN]]
    /\ since \in [Names -> SUBSET Content]

(* gschem just started, before it opens its first page. *)
Started == [pages |-> << >>, page_current |-> NULL,
            page |-> [n \in Names |-> NewPage(Empty, FALSE)],
            force_save_as |-> FALSE, undo_file_index |-> 0]

Init ==
    /\ toplevel = Started
    /\ disk \in [file : {f \in [Names -> Content \cup {NULL}] :
                            \A n \in Untitled : f[n] = NULL},
                 backup : {[n \in Names |-> NULL]},
                 newer : {[n \in Names |-> FALSE]}]
    /\ since = [n \in Names |-> {}]

(* What each open page has held, now that the files in `saved' are written. *)
Remember(saved) ==
    since' = [n \in Names |->
        IF n \notin Open(toplevel') THEN IF disk'.newer[n] THEN since[n] ELSE {}
        ELSE (IF n \in saved THEN {} ELSE since[n])
                 \cup {toplevel'.page[n].content}]

-----------------------------------------------------------------------------
(* Backups are due only for the page that is being edited. *)
DueWrong(t) ==
    {n \in Open(t) : t.page[n].do_autosave_backup /\ t.page[n].ops_since_last_backup
                     /\ n = t.page_current}

Due(t) == {n \in Open(t) : t.page[n].do_autosave_backup
                           /\ t.page[n].ops_since_last_backup}

(* The objects written are those of the page current before. *)
o_save_auto_backup_Wrong(t, d) ==
    [toplevel |->
        IF Due(t) = {} THEN t
        ELSE [t EXCEPT
                !.page = [n \in Names |->
                    IF n \in Due(t)
                    THEN [@[n] EXCEPT !.ops_since_last_backup = FALSE,
                                      !.do_autosave_backup = FALSE]
                    ELSE @[n]],
                !.page_current = Last(t.pages)],
     disk |-> [d EXCEPT
        !.backup = [n \in Names |-> IF n \in Due(t) THEN t.page[t.page_current].content
                                    ELSE @[n]],
        !.newer = [n \in Names |-> @[n] \/ n \in Due(t)]]]

(* Every page that is due becomes current in turn and is written to its     *)
(* backup file.  When that was done for any page, the loop variable goes to *)
(* s_page_goto: the last page of the list ends up as the current one.       *)
o_save_auto_backup(t, d) ==
    [toplevel |->
        IF Due(t) = {} THEN t
        ELSE [t EXCEPT
                !.page = [n \in Names |->
                    IF n \in Due(t)
                    THEN [@[n] EXCEPT !.ops_since_last_backup = FALSE,
                                      !.do_autosave_backup = FALSE]
                    ELSE @[n]],
                !.page_current = Last(t.pages)],
     disk |-> [d EXCEPT
        !.backup = [n \in Names |-> IF n \in Due(t) THEN t.page[n].content ELSE @[n]],
        !.newer = [n \in Names |-> @[n] \/ n \in Due(t)]]]

(* o_undo_savestate with UNDO_ALL: it looks for the current page only after *)
(* the backups.                                                             *)
o_undo_savestate(t, d) ==
    LET b   == o_save_auto_backup(t, d)
        cur == b.toplevel.page_current
        p   == b.toplevel.page[cur]
        r   == Savestate(p.undo, "DISK", t.undo_file_index, "UNDO_ALL",
                         p.content, p.CHANGED, TRUE)
    IN  /\ toplevel' = [b.toplevel EXCEPT
                          !.page[cur].undo = r.undo,
                          !.page[cur].ops_since_last_backup = @ \/ AutoSave,
                          !.undo_file_index = r.index]
        /\ disk' = b.disk

RemoveBackup(d, n) == [d EXCEPT !.backup[n] = NULL, !.newer[n] = FALSE]

AddPage(t, n, p) ==
    [t EXCEPT !.pages = Append(@, n), !.page_current = n, !.page[n] = p]

Room == Len(toplevel.pages) < MaxPages

(* What f_open may load: it asks when the backup is newer than the file,    *)
(* and the answer "delete" loads the file but counts as a change.           *)
Answers(n) == IF disk.newer[n] THEN {"original", "backup", "delete"} ELSE {"original"}

(* x_window_open_page of a file that is not open yet *)
OpenFile ==
    /\ Room
    /\ \E n \in Names \ Open(toplevel) :
        /\ disk.file[n] # NULL
        /\ \E choice \in Answers(n) :
            o_undo_savestate(
                AddPage(toplevel, n,
                        NewPage(IF choice = "backup" THEN disk.backup[n]
                                ELSE disk.file[n], choice # "original")),
                IF choice = "delete" THEN RemoveBackup(disk, n) ELSE disk)
    /\ Remember({})

(* x_window_open_page without a name, or with one that has no file.  A      *)
(* backup of that name is not looked for.                                   *)
NewFile ==
    /\ Room
    /\ \E n \in Names \ Open(toplevel) :
        /\ disk.file[n] = NULL
        /\ o_undo_savestate(AddPage(toplevel, n, NewPage(Empty, FALSE)), disk)
    /\ Remember({})

(* x_window_open_page of a file that is open: its state is saved again. *)
OpenAgain ==
    /\ "goto" \in UserActs
    /\ \E n \in Open(toplevel) :
        /\ disk.file[n] # NULL
        /\ o_undo_savestate([toplevel EXCEPT !.page_current = n], disk)
    /\ Remember({})

(* x_window_set_current_page from the page manager and the page commands *)
x_window_set_current_page ==
    /\ "goto" \in UserActs
    /\ \E n \in Open(toplevel) : toplevel' = [toplevel EXCEPT !.page_current = n]
    /\ UNCHANGED <<disk, since>>

(* Any command that edits the current page and saves its state. *)
Edit ==
    /\ toplevel.pages # << >>
    /\ \E c \in Content, changed \in {TRUE, toplevel.page[toplevel.page_current].CHANGED} :
        /\ c # toplevel.page[toplevel.page_current].content => changed
        /\ o_undo_savestate(
              [toplevel EXCEPT !.page[toplevel.page_current].content = c,
                               !.page[toplevel.page_current].CHANGED = changed],
              disk)
    /\ Remember({})

(* o_undo_callback of the current page *)
StepUndo(by) ==
    LET cur == toplevel.page_current
        s   == toplevel.page[cur].undo
        u   == s.list[s.current + by]
    IN  /\ s.current + by \in DOMAIN s.list
        /\ toplevel' = [toplevel EXCEPT
                          !.page[cur].undo = StepTo(s, s.current + by),
                          !.page[cur].content = RestoredFrom(s, s.current + by, "DISK"),
                          !.page[cur].CHANGED = u.modified]
        /\ UNCHANGED disk
        /\ Remember({})

do_undo == "undo" \in UserActs /\ toplevel.pages # << >> /\ StepUndo(-1)
do_redo == "undo" \in UserActs /\ toplevel.pages # << >> /\ StepUndo(1)

-----------------------------------------------------------------------------
(* What a successful f_save of each page of a list does to the toplevel     *)
(* while its current page is cur: the records marked are those of cur.      *)
f_save(t, list, cur) ==
    [t EXCEPT !.page = [n \in Names |->
        LET p == IF n \in list
                 THEN [@[n] EXCEPT !.CHANGED = FALSE,
                                   !.ops_since_last_backup = FALSE,
                                   !.do_autosave_backup = FALSE]
                 ELSE @[n]
        IN  IF n = cur /\ list # {} THEN [p EXCEPT !.undo = UpdateModified(@)]
            ELSE p]]

(* What it writes: the page n to the file of name m. *)
WriteFile(d, m, c) == [d EXCEPT !.file[m] = c, !.newer[m] = FALSE]

WriteFiles(d, page, list) ==
    [d EXCEPT !.file = [n \in Names |-> IF n \in list THEN page[n].content ELSE @[n]],
              !.newer = [n \in Names |-> @[n] /\ n \notin list]]

(* The page of name n is called m from now on. *)
Rename(t, n, m) ==
    IF m = n THEN t
    ELSE [t EXCEPT !.pages = [i \in DOMAIN @ |-> IF @[i] = n THEN m ELSE @[i]],
                   !.page_current = IF @ = n THEN m ELSE @,
                   !.page = [t.page EXCEPT ![m] = t.page[n],
                                         ![n] = NewPage(Empty, FALSE)]]

(* The page is current while it is saved. *)
x_window_save_page(t, n, m) == Rename(f_save(t, {n}, n), n, m)

(* Names the save dialog is answered with.  Writing over the file of        *)
(* another open page is left out, and so is choosing one of the program's   *)
(* own untitled names.                                                      *)
Targets == {m \in Names \ Untitled : m = toplevel.page_current \/ m \notin Open(toplevel)}

(* do_save: a name the program has chosen forces the dialog, from then on   *)
(* for every page.  Only do_save_as removes the backup of the old name.     *)
do_save ==
    /\ toplevel.pages # << >>
    /\ LET cur    == toplevel.page_current
           forced == toplevel.force_save_as \/ cur \in Untitled
       IN  \E m \in IF forced THEN Targets ELSE {cur} :
            /\ toplevel' = [x_window_save_page(toplevel, cur, m)
                              EXCEPT !.force_save_as = forced]
            /\ disk' = WriteFile(disk, m, toplevel.page[cur].content)
            /\ Remember({m})

do_save_as ==
    /\ toplevel.pages # << >>
    /\ LET cur == toplevel.page_current
       IN  \E m \in Targets :
            /\ toplevel' = x_window_save_page(toplevel, cur, m)
            /\ disk' = LET d == WriteFile(disk, m, toplevel.page[cur].content)
                       IN  IF m = cur THEN d ELSE RemoveBackup(d, cur)
            /\ Remember({m})

(* s_page_save_all and s_page_save_all_changed save one page after the      *)
(* other while the current page stays what it is; some may fail.            *)
SaveMany(list) ==
    /\ "save_many" \in UserActs
    /\ \E ok \in IF "faults" \in UserActs THEN SUBSET list ELSE {list} :
        /\ toplevel' = f_save(toplevel, ok, toplevel.page_current)
        /\ disk' = WriteFiles(disk, toplevel.page, ok)
        /\ Remember(ok)

Changed(t) == {n \in Open(t) : t.page[n].CHANGED}

do_save_all  == SaveMany(Open(toplevel))
do_save_mods == SaveMany(Changed(toplevel))

-----------------------------------------------------------------------------
(* The first page of the list is forgotten. *)
s_page_delete_Wrong(t, n) ==
    [t EXCEPT !.pages = Tail(@), !.page[n] = NewPage(Empty, FALSE)]

(* Where n is in the list. *)
Place(list, n) == CHOOSE k \in DOMAIN list : list[k] = n

s_page_delete(t, n) ==
    [t EXCEPT !.pages = RemoveAt(@, Place(@, n)), !.page[n] = NewPage(Empty, FALSE)]

(* The page before n in the list, or else the page after it. *)
Neighbour(list, n) ==
    LET i == Place(list, n)
    IN  IF i > 1 THEN list[i - 1] ELSE list[i + 1]

(* The backup file removed is that of the page that becomes current. *)
x_window_close_page_Wrong ==
    LET n    == toplevel.page_current
        next == Neighbour(toplevel.pages, n)
    IN  /\ Len(toplevel.pages) > 1
        /\ toplevel' = [s_page_delete(toplevel, n) EXCEPT !.page_current = next]
        /\ disk' = RemoveBackup(disk, next)

(* x_window_close_page of the current page.  A page goes with its backup    *)
(* file; after the last one a new untitled page is opened.                  *)
x_window_close_page ==
    LET n    == toplevel.page_current
        left == s_page_delete(toplevel, n)
        d    == RemoveBackup(disk, n)
    IN  IF Len(toplevel.pages) > 1
        THEN /\ toplevel' = [left EXCEPT !.page_current = Neighbour(toplevel.pages, n)]
             /\ disk' = d
        ELSE \E u \in Untitled :
             /\ disk.file[u] = NULL
             /\ o_undo_savestate(AddPage(left, u, NewPage(Empty, FALSE)), d)

(* do_page_discard closes without asking.  i_window_close_page does so for  *)
(* a page that is not changed, and for the answer "no".                     *)
i_window_close_page ==
    /\ toplevel.pages # << >>
    /\ toplevel.page[toplevel.page_current].CHANGED => "discard" \in UserActs
    /\ x_window_close_page
    /\ Remember({})

(* The answer "yes" of x_confirm_close_changed_page: the page is saved and  *)
(* stays open; when it cannot be saved the page is closed.                  *)
CloseAndSave ==
    LET n == toplevel.page_current
    IN  /\ toplevel.pages # << >>
        /\ toplevel.page[n].CHANGED
        /\ \/ /\ toplevel' = x_window_save_page(toplevel, n, n)
              /\ disk' = WriteFile(disk, n, toplevel.page[n].content)
              /\ Remember({n})
           \/ /\ "faults" \in UserActs
              /\ x_window_close_page
              /\ Remember({})

(* The pages are saved without being made current. *)
SaveEachWrong(t, list) == f_save(t, list, t.page_current)

(* x_confirm_close_window saves the selected pages, each as the current one, *)
(* and goes back to the page that was current.                               *)
SaveEach(t, list) ==
    [t EXCEPT !.page = [n \in Names |->
        IF n \in list THEN f_save(t, {n}, n).page[n] ELSE @[n]]]

(* x_window_close of the last window.  When a selected page cannot be saved *)
(* the window stays; otherwise all pages are deleted with their backups.    *)
x_window_close ==
    \E list \in SUBSET Changed(toplevel) :
        \/ /\ LET d == WriteFiles(disk, toplevel.page, list)
              IN  disk' = [d EXCEPT
                    !.backup = [n \in Names |-> IF n \in Open(toplevel) THEN NULL ELSE @[n]],
                    !.newer = [n \in Names |-> @[n] /\ n \notin Open(toplevel)]]
           /\ toplevel' = Started
           /\ Remember({})
        \/ /\ "faults" \in UserActs
           /\ list # Changed(toplevel)
           /\ toplevel' = SaveEach(toplevel, list)
           /\ disk' = WriteFiles(disk, toplevel.page, list)
           /\ Remember(list)

(* What is in memory is gone; the files are as they were. *)
Crash ==
    /\ "crash" \in UserActs
    /\ toplevel' = Started
    /\ UNCHANGED disk
    /\ Remember({})

(* The timer callback. *)
s_page_autosave ==
    /\ AutoSave
    /\ toplevel' = [toplevel EXCEPT !.page = [n \in Names |->
          IF n \in Changed(toplevel) /\ @[n].ops_since_last_backup
          THEN [@[n] EXCEPT !.do_autosave_backup = TRUE] ELSE @[n]]]
    /\ UNCHANGED <<disk, since>>

Next ==
    \/ OpenFile \/ NewFile \/ OpenAgain \/ x_window_set_current_page
    \/ Edit \/ do_undo \/ do_redo
    \/ do_save \/ do_save_as \/ do_save_all \/ do_save_mods
    \/ i_window_close_page \/ CloseAndSave \/ x_window_close
    \/ Crash \/ s_page_autosave

(* The timer is a GLib source that the main loop dispatches again and again *)
(* as long as the interval is not zero.  Nothing else has to happen.        *)
Spec == Init /\ [][Next]_vars /\ WF_vars(s_page_autosave)
-----------------------------------------------------------------------------
(* The current page is one of the open ones, each of which is listed once:  *)
(* closing, renaming and backing up other pages never leave                 *)
(* toplevel->page_current at a page that is gone.                           *)
CurrentIsOpen ==
    /\ toplevel.pages # << >> => toplevel.page_current \in Open(toplevel)
    /\ IsInjective(toplevel.pages)

(* A backup that f_open would offer holds the unsaved work of its own page: *)
(* a state this page had since its file was last written, whichever page    *)
(* was being edited when the backup was made.                               *)
BackupHoldsUnsavedWork ==
    \A n \in Names : disk.newer[n] => disk.backup[n] \in since[n]

(* ops_since_last_backup, which decides whether a page is backed up again,  *)
(* is zero only when the backup or the file already is the page as it is.   *)
(* A crash then loses nothing of the page.                                  *)
NothingToBackUp ==
    \A n \in Open(toplevel) :
        LET p == toplevel.page[n]
        IN  p.CHANGED /\ ~p.ops_since_last_backup =>
                disk.newer[n] /\ disk.backup[n] = p.content

(* A page without CHANGED is what its file holds, whichever pages were      *)
(* edited, undone, saved and closed in between; closing it asks nothing.    *)
SavedFlagsSound ==
    \A n \in Open(toplevel) :
        ~toplevel.page[n].CHANGED =>
            toplevel.page[n].content = IF disk.file[n] = NULL THEN Empty ELSE disk.file[n]

(* Each page is what its own current undo record says: no command records   *)
(* the state of one page in the history of another.                         *)
RecordsMatchPages ==
    \A n \in Open(toplevel) :
        LET u == toplevel.page[n].undo
        IN  u.current # 0 => u.list[u.current].page = toplevel.page[n].content

(* While edits go on, a page with changes to back up is flagged by the      *)
(* timer, and a flagged page is backed up, also when it is another page     *)
(* that is edited.                                                          *)
Pending(n) == n \in Changed(toplevel) /\ toplevel.page[n].ops_since_last_backup
Flagged(n) == n \in Open(toplevel) /\ toplevel.page[n].do_autosave_backup
BackupsHappen ==
    []<><<Edit>>_vars =>
        \A n \in Names :
            /\ Pending(n) ~> Flagged(n) \/ ~Pending(n)
            /\ Flagged(n) ~> ~Flagged(n)

(* "Restore current page if any backups were performed": the page an edit   *)
(* changes stays the current one.                                           *)
EditStaysOnPage ==
    [][\A n \in Open(toplevel) \cap Open(toplevel') :
          toplevel'.page[n].content # toplevel.page[n].content =>
              toplevel'.page_current = n]_vars

(* "gschem will ask you if you wish to save them before closing the page":  *)
(* after the answer "yes" the page is closed only when it was saved.        *)
CloseSavesFirst ==
    [][CloseAndSave =>
        LET n == toplevel.page_current
        IN  n \in Open(toplevel') \/ disk'.file[n] = toplevel.page[n].content]_vars
=============================================================================
