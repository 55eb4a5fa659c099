# Verification of gEDA/gaf in TLA+

gEDA/gaf is a suite for electronic design: the schematic editor `gschem`, the
netlister `gnetlist`, the attribute editor `gattrib`, the checker `gsymcheck`, a
number of utilities, and `libgeda`, the library they share. This directory
holds TLA+ models of the parts of it whose correctness depends on the order in
which things happen, the TLC runs that check them on small instances, and
proofs of the main results for every instance.

All line numbers in `PROJECT.json` refer to the sources beside this directory
(`src/...`). Names in the models are those of the code wherever TLA+ allows.

## 1. Inventory

| component | state | operations | hard behaviours | what makes it correct |
|---|---|---|---|---|
| undo records (`s_undo.c`, `o_undo.c`) | list of UNDO per page, `undo_current`, `undo_type`, one `undo_file_index` | savestate, undo, redo, remove last, update modified, trim | deferred trimming, viewport records without data, records and CHANGED tied to saves, failing undo files | going back restores what was recorded, CHANGED stays honest, trimming never frees what is in use |
| move and cancel (`o_move.c`, `i_callbacks.c`) | `inside_action`, `event_state`, place list | start, rotate, end, cancel | spans several events; zoom, redo, save in between | cancel leaves no trace |
| pages, autosave (`s_page.c`, `o_save.c`, `x_window.c`, `x_confirm_close.c`) | page list, `page_current`, CHANGED, backup counters | open, goto, edit, save, save all, close, timer | the timer flags, another page's edit writes; close dialogs; crash | each backup is its own page's unsaved work, nothing pending is forgotten, no unsaved page is closed unasked |
| files (`f_basic.c`, `f_file.c`, `o_save`) | schematic, `name~`, `#name#` | open with backup check, save, copy, autosave, remove backup | several system calls, crash between them, a disk that fills up | the version found, the saved page and the backed up work are each whole in one of the files |
| connectivity (`s_conn.c`, `s_tile.c`, `o_net_basic.c`) | CONN lists on objects, cached counts, tiles | insert, remove, update, stretch, extend, consolidate | updated from many callers | connections are symmetric, complete and name live objects; the counts are those of a new search |
| netlister (`gnetlist/src`) | netlist, cpins, nets, rename pairs | traverse, name, rename, hierarchy | naming through chains of renames, in the order of the pins | pins share a net name iff connected |
| component library (`s_clib.c`) | sources, symbols, cache of searches, cache of data | add, refresh, search, get data, invalidate | sources change and fail, symbols are freed and their memory used again, eviction | the caches answer as the sources would, and stay small |
| notification (`geda_notify.c`, `o_notify.c`) | freeze count, hooks | freeze, thaw, notify | early returns | freeze and thaw balance |
| weak references, smobs (`s_weakref.c`, `scheme_smob.c`) | weak reference lists | add, notify, GC | the collector runs at any time | a smob never reaches a freed object |
| configuration (`geda_config.c`) | contexts with parents | load, get, set, save | inheritance, trust | a value is read from the nearest context that sets it |
| autonumbering (`x_autonumber.c`, `o_slot.c`) | lists of used numbers, free and used slots, per page or for the hierarchy | collect, number, reslot, remove, page by page | the texts to number and the numbers to skip come from six settings; slots are shared between packages; each new slot saves an undo state | nothing is given twice, nothing is left out, attributes stay on their page |
| attributes, slots, embedding; hierarchy; refdes utilities; selection, clipboard; events; sessions; drawing, printing; geometry; Scheme; gattrib; gsymcheck; utilities | see `PROJECT.json` | | mostly sequential | |

gschem runs its handlers one at a time on the GTK main loop. What interleaves
is therefore whole handlers: commands, mouse events, idle and timer callbacks.
Components interact by direct calls and shared structures: nearly every edit
ends in `o_undo_savestate`, which calls `o_save_auto_backup`, which walks over
the pages of `GedaToplevel`; undo and revert call `f_open`; saves call
`s_undo_update_modified`.

## 2. Modules

| module | models | kind |
|---|---|---|
| `UndoRecords` | the records of a page and every operation on them | operators |
| `UndoHistory` | what undo promises: a document, its states, a flag | abstract specification |
| `PageUndo` | one page under editing: commands, moves, cancel, save, revert, settings, faults | state machine, refines `UndoHistory` |
| `Pages` | all pages of a window, files, backups, autosave, close, crash | state machine with fairness |
| `FileSave` | one file, its copy and its backup, at the granularity of system calls; crashes, full disks | state machine with fairness |
| `Connectivity` | connection lists and cached counts under the commands that draw, move, extend, delete and merge | state machine |
| `Netlist` | naming of nets and the renames | state machine |
| `SymbolLibrary` | sources, symbols and both caches of the component library | state machine |
| `Autonumber` | one run of the autonumber dialog over the pages of a hierarchy | state machine |
| `MCPageUndo`, `MCPages`, `MCFileSave`, `MCConnectivity`, `MCNetlist`, `MCSymbolLibrary`, `MCAutonumber` | symmetry for TLC, the symbols of `Connectivity` and `Autonumber` | |
| `UndoRecords_proofs`, `PageUndo_proofs`, `Pages_proofs`, `FileSave_proofs`, `Connectivity_proofs`, `Netlist_proofs`, `SymbolLibrary_proofs`, `Autonumber_proofs` | lemmas and theorems | proofs |

**UndoRecords.** The doubly linked list from `undo_bottom` to `undo_tos` is a
sequence, `undo_current` an index into it. A page's contents are one abstract
value; an undo file or object list is the value it holds. A record also carries
the field `page`, which the code does not have: what the page held when the
record was made. Properties compare it with what the code restores.
`Savestate` is all of `o_undo_savestate` after the autosave: clear above
current, append, and every `CheckEvery` undo files trim to `UndoLevels` once
there are `UndoLevels + UndoPadding` records.

**PageUndo.** One action per command or handler (`Edit` stands for every
command that edits and saves a state). A move is three actions, with
`inside_action` in between; `before` remembers what the page held at its start.
Which optional behaviour is in a run is chosen by `UserActs`.

**UndoHistory.** The refinement mapping takes the document to be the page, or,
in a move, the page before the move, and the history to be the `page` fields.
Then `o_move_start` and `o_move_end` are a record and an amendment of it, and
a cancelled move is a step back.

**Pages.** `toplevel` is GedaToplevel and `disk` the files. Each name has at
most one schematic and one backup; `newer` is what the comparison of
modification times in `f_has_active_autosave` finds. `since` remembers which
contents a page had since its file was last written. The autosave is modelled
as it is: the timer only sets `do_autosave_backup`; `o_save_auto_backup` runs
inside `o_undo_savestate` of any command and leaves the last page of the list
current.

**FileSave.** Where `Pages` takes a save for one step, `step` says which system
call of `f_save`, `f_file_copy`, `o_save` or the autosave comes next. A file is
missing, empty (`Blank`), cut off (`Torn`) or holds a content; what `o_read`
makes of a cut off file is `Damaged`, or nothing. The process may die between
any two calls, the old copy may refuse to go away, and the disk may fill up and
be freed again. `kept` remembers the version the session found, which the copy
is there to keep; `unnoticed` what went wrong on a full disk while the program
reported success. Only the process dies: what was written stays written.

**Connectivity.** A pin is its connectable end, a net or bus the set of its two
ends, on a paper of `Width` by `Height` grid points. `conn_list` is the lists
that `s_conn_update_linear_object` and `s_conn_remove_object` keep, with the
code's three kinds of contact, `net_num_connected` the cached counts, written by
`o_net_refresh_conn_cache` to every net a search comes by. A command changes
lines and lists and then lets `o_net_consolidate` merge nets, one pair at a
time, in whatever order. `o_move` is a whole move, from the nets of no length
that are inserted between pins, over the ends that are stretched, to the nets
that are deleted because they have no length in the end. `Touch` compares every
two objects of the page: the code first looks up the tiles the object crosses,
which only narrows the search.

**Netlist.** The schematic is the initial state: which wire each pin is on, which
records of a wire carry a name, and which name the head record of a pin has. The
records of a wire are its netname= attributes and the net= attributes of power
symbols, and every pin of the wire comes by them. A net= attribute of a component
with a refdes is put into the head record of its pin, drawn or not
(`s_netattrib_create_pins`), which only the search from this pin meets.
`s_net_name` names one pin after the other; the search meets the head record first
and then the records of the wire in any order, and every second name goes through
`s_rename_add`, whose loop over the list it appends to is a step per entry. Then
`s_rename_all` applies the list from the front. A search that meets no name looks at
the other pins of the wire: their head records and the names they were given
(`PinNames`). The code takes the first pin of its list that has one, the model any.
Two names mean one net
(`Linked`) when no labelling that agrees along each wire tells them apart, a
definition that knows nothing of renames.

**SymbolLibrary.** A symbol is a memory address: what `symbols` says of it is
which source listed it under which name. Listing a source again frees its
symbols and puts the new ones at any free addresses, the old ones included.
`held` is what a source holds, which changes at any time; `changed` remembers
what changed since it was cached, so that `DataFresh` blames the cache for what
the program did and not for what the world did. `unlisted` is set when a refresh
listed no source at all (see section 5). Cleaning out the data cache reads an
entry it has freed; from what it finds there, each round after the first removes
the oldest entry or nothing, and the model takes both.

**Autonumber.** The settings of the dialog and the schematic are the initial
state. Each text is an attribute of a component of its own, whose slot is its
own slot= or the one inside its symbol. `NextPage` is the head of the loop over
the pages, which collects the texts to number and, unless the numbers of the whole
hierarchy are skipped, starts the lists anew; `autonumber_get_used` then
takes the texts to respect one by one, and the three actions after it the texts to
number. Both go in any order, which stands for the six sort orders and for the
order of the objects. The lists are sets: `First` is what a search of the sorted
list may come by first. `Renumber` and `Respect` are evaluated when the code
evaluates them, so the history variable `done` keeps the texts just numbered apart
from those that had a number.

## 3. Runs

| run | expects | question | bounds |
|---|---|---|---|
| `sessions` | pass | do edits, moves, cancels, undo, redo, save and trimming keep page, records and CHANGED consistent, and refine `UndoHistory`? | 3 contents, undo on disk and in memory, levels 2, padding 2, check every 3; the record bound is never reached |
| `panzoom` | pass | do sessions with viewport records still refine `UndoHistory`, whose document, history and flag are the properties of `sessions`, and does cancel rewind? | 3 contents, up to 5 records |
| `all_settings` | pass | every command and setting with failing undo files: is the list well formed, is it never exhausted, does redo stay idle in a move? | 2 contents, levels 1, padding 1, up to 3 records |
| `backups` | pass | under autosave with crashes: does each backup hold its own page's unsaved work, is nothing hidden from the autosave, does a backup happen? | 2 names, 2 contents, 1 record per page |
| `records` | pass | several pages with undo, without autosave: current page, flags and records | 3 names, 2 pages open, 2 contents, 2 records per page |
| `files` | pass | through crashes, a stuck copy and full disks: is the version found always kept, a saved page in its file, backed up work safe, and does every save end? | 4 contents (empty, damaged, two more) |
| `connections` | pass | do placing, deleting, dragging, extending, moving and merging leave the lists symmetric, complete and without deleted objects, and the counts right? | 2 pins of two symbols, 2 nets, paper of 3 by 2 points |
| `netlist` | pass | are pins of different nets ever given one name, and do the pins of a net always get one where there is one conflict of names and the search of a pin meets both? | 2 pins, 2 wires, 3 names, at most 3 named records on a wire (`MaxRecords`), all 254016 such schematics, up to symmetry |
| `library` | pass | do the caches answer as the sources would, within their limit, whatever fails, changes and is freed, except after a refresh that listed no source (divergence 12)? | 2 sources, 2 names, 2 data, 3 symbols, caches of 2 cleaned out to 1, 2 times |
| `autonumber` | pass | does numbering skip what is in use, leave nothing out and fill packages before it opens new ones? | 3 texts, 2 pages, a symbol of 2 slots and one without, numbers 1 and 2 or none, from 1, every setting |
| `edit_stays`, `merge` | violation | the divergences of section 5 with a run | the smallest that show them |

`CheckEvery`, `UndoPadding` and `UndoLevels` stand for 10, 5 and the setting of
the dialog (20 by default): only the order of the limits matters for what the
properties say, and the runs go several times around the trimming. Two or
three contents suffice because the code never compares contents; two tell a
right page from a wrong one, the third a wrong record from a right one. Two
pages suffice for "this page" and "another page": no handler relates three.
`records` uses three names so that a page can be saved under the name of a
file that exists while another page is open.

In `files` nothing is bounded: the contents are finite and the sessions go on
for ever. `connections` has room for what the code tells apart: a T, a corner,
a crossing and two lines in a row fit on six points, two pins can face each
other so that a net is inserted between them, two nets can merge and come apart.
`MCConnectivity_buses.cfg` puts a bus in the place of one pin and holds too. Only nets
and buses that are not part of a symbol are dragged by a grip, extended or looked at for
a merge: the page's own list has the symbols and not their parts (`InNoSymbol`). In
`netlist` three names make a chain of renames, and three records let a wire have
two names, one of them with and without priority. `library` has one symbol more
than the cache takes and one more than one source fills, so that addresses are
used again. In `autonumber` three texts are a package, the one that fills it and
the one that opens the next, or one text on the root page and two on another.

**Fairness.** Two modules assume any. `FileSave`: weak fairness of the next step
of a command that runs, which waits for nothing but the disk (`Proceed`); the
user, the crash and the disk owe nothing. `CommandsEnd` allows a command not to
end while the disk is full, since the copy loop then does not. `Pages`: weak
fairness of `s_page_autosave`, a GLib timeout source that returns a non-zero
interval and so is dispatched again and again. The user owes nothing:
`BackupsHappen` has "edits go on forever" as
a premise, since without another `o_undo_savestate` no backup is written.

Every property of a passing run has a mutant: a plausible slip in a modelled
function that TLC finds to violate it. The mutated operators stand before the
right ones, with names ending in `Wrong`.

## 4. Proofs

Every type invariant, safety invariant and action property of a passing run is
also a theorem that TLAPS proves for every value of the constants, and so is the
refinement of `UndoHistory`. Where a theorem needs more than the assumptions of the
module, it has a hypothesis on the constants, with a name; each is listed
below with what happens without it. Each inductive invariant was first checked by
TLC on the instances of the runs.

**`UndoRecords_proofs`.** What push, trim, step, remove-last and mark preserve
(types, `Shape`, the newest records, how many records with data there are).

**`PageUndo_proofs`.** In every setting and with every fault `TypeOK`, `Shape`,
`NoRedoDuringMove` and, for `UndoLevels >= 1`, `NeverExhausted`. The inductive
invariant `IInv` is their conjunction; `NoRedoDuringMove` needs that nothing but
`do_undo` and cancel moves `undo_current` down, and neither leaves `inside_action`
set.

In an `OrdinarySession` (undo enabled with two levels or more, one undo type that can
restore every page, edits, moves, undo, redo, saves and, as long as nothing is
trimmed, pan-zoom records, without revert or faults) also `PageMatchesCursor`,
`CleanRecordsMatchFile`, `SavedFlagSound` and `CancelRewinds`. None is inductive
alone. `SessionInv` adds
that every record is restorable (`RecordsGood`), and that within a
move the current record is the page before it (`MoveRecorded`), which
trimming keeps because it removes from the bottom only. A record of the whole page is
restorable when it has its data. A viewport record has it or none, and some record of
the whole page below it is the same page, as are all records in between:
from that and from where the search for data stops (`PrevStoredFound`) follows what an
undo onto the viewport record restores (`RestoresPage`). The invariant does not say
that a viewport record keeps its data, because the step that borrows clears it.
Trimming could free the record that is repeated, and then divergence 17 occurs; hence
the hypothesis on pan-zoom sessions, which is that their lists stay below the limit
and the pad. On `SessionInv` rest two more results:

* `HistoryIsBounded`, for `OnePage` and without pan-zoom records, which on disk are
  not counted: the list is at most the limit, the pad and the
  undo files written since the last check (`Bounded`, with the file index in it,
  since the bound without it is not inductive). Without `OnePage` it is false: the
  index counts the files of all pages, and one page may be checked rarely.
* `SessionsAreHistories`: ordinary sessions refine `UndoHistory`. The initial state maps
  to its initial state, and per action: an edit and the start of a move record, the
  end of a move amends or records, undo and redo go to a state, cancel goes back one,
  save saves, a zoom records the document once more, and the rest stutter.

**`Pages_proofs`.** For any number of names, pages and contents. The inductive
invariant `Inv` says of a window (`toplevel`) and its files (`disk`) what every
command keeps (`Holds`): no page is listed twice, all records can be restored, a
counted operation means that autosave is on; and, conditional on the hypotheses below,
that the current record is what the page holds, that a page without CHANGED and the
records marked clean are what the file holds, and that unsaved work is backed up or
counted. Where the current page is in the list is a conjunct of its own (`Located`).
A command edits a page and then saves an undo state, so that in between one page has no
record of what it holds: `Holds` takes that page as an argument, the lemma about an
edit introduces it and the lemma about `o_undo_savestate` discharges it.
`PagesTyped`, `CurrentStaysOpen` and `BackupsHoldUnsavedWork` need nothing
else. The others are false in general, and TLC refutes them as soon as their
hypothesis is weakened:

* `RecordsStayWithPages` needs `OneAtATime`: no autosave, or the user never goes
  back to an earlier page, so that the page at which an autosave leaves the window is
  the one that was edited. Otherwise divergence 1 records the wrong page.
* `UnchangedPagesAreSaved` needs `OwnRecordsMarked`: with undo, no save of several
  pages at once, which marks the records of the current page only (`f_basic.c:476`).
* `NothingIsLeftToBackUp` needs `Watched`: autosave is on, the same about going back,
  and no undo, which changes a page without counting an operation.

**`FileSave_proofs`.** `TypeOK`, `VersionKept`, `SavedIsWritten` and
`NothingDueNothingLost`, with every fault. The invariant adds what holds between
two system calls: a save that copies runs in a session that has not saved
(`StepsSound`), and which of the two files holds the version to keep at each step
(`WhereKept`), since `VersionKept` alone does not say which of them the next
step may overwrite. For the other two, `WholeSave` says of the autosave's
steps what `SavedIsWritten` says of the idle program.

**`Connectivity_proofs`.** For every paper and any number of objects:

* `TypeOK`, `Symmetric`, `NoDangling` and `Complete`. None of the last three is
  inductive alone: `s_conn_remove_object` finds the lists to change by the one it
  empties, which is enough only if both ends know of each connection. The lemmas say
  that removal and update each preserve them, for any objects and lines,
  although `s_conn_uniq` compares the kind of a contact and not its side; the
  commands are compositions of the two. `Complete` needs that an update is done
  for everything whose line changed: what touches afterwards either touched before, or
  is found by the update of one of the two.
* `CacheFresh` (`CountsFresh`). A count is what a search of the lists reaches
  (`Reach`, a recursive function of the number of steps). Each command is a series of
  changes of the lists, each followed by the searches its hook makes. A net whose
  count a change makes stale is connected, before the change, with one whose list
  is changed, and the first of these on the way is still connected with it afterwards
  (`SearchBehind`, `SearchBack`); so a search from what the command touched
  comes by every stale count. The induction over the number of steps is an
  argument about the least counterexample (`LeastNumber`, from the well-foundedness
  of the naturals), since the library's induction theorems cannot be instantiated.
* `LinesSound` (`LinesStaySound`), for `NetPins`: no pin is for buses. The
  invariant adds that what is connected is connected somewhere along its line
  (`AllAlong`), not necessarily at an end, since an object that was extended keeps its
  connections; a merge therefore needs that two lines in a row that share a
  point, wherever it is, make a longer one. Without `NetPins` it is
  false, as TLC shows when a pin of `MCConnectivity_buses.cfg` is made a bus pin: a
  rubber-banded move inserts a net of no length between two connected pins, also
  between bus pins (`o_move.c:532`); the net is not connected with them, so "only
  picked up for stretching later" (`o_move.c:538`) does not come true, and it stays on
  the page.

**`Netlist_proofs`.** All for `NamesApart`: users give none of the automatic
names. Without it a user's `netname=unnamed_net1` can be the name of another net.

* `TypeOK` and `NoShort`. The invariant says that every name ever
  written stands for a wire: the name a search holds, both ends of every entry
  of the list and of what the running loop looks for, and each pin's name carry
  one label in every labelling that agrees along each wire. A rename then never
  changes the label of a pin.
* `NoOpenOfOneConflict` (`OneConflictIsSettled`). Of the two names x and y that the
  one wire has, the invariant `TwoInv` says what the order of the pins cannot change:
  the rename list is empty or has one entry from one of them to the other
  (`OneEntry`), the loop of `s_rename_add` finds nothing to append (`LoopOfTwo`), a
  search has met one name only or there is that entry (`Seen`), and a named pin
  has a name of its net, or the number of its wire (`NamedPins`). The premise
  `ConflictSeen` says that the search of one pin meets both names, in its own head
  record and the records of the wire (`NamesMet`); then the wire comes to have the
  entry. Without it the property is false. gnetlist comes by a wire from its pins, so a
  wire with two names and no pin makes two nets one on the schematic and leaves two in
  the netlist; and it comes by a head record from its own pin only, so two net=
  attributes on one wire are never compared (divergence 18).

**`SymbolLibrary_proofs`.** `TypeOK`, `SearchFresh`, `DataFresh` and `CacheBounded`,
together inductive with `Owned` (every symbol is of a source that was added) and
`Unique` (no two are the same name of the same source).

**`Autonumber_proofs`.** `TypeOK`, and for `NoZeros` `NumbersSkipped` and
`NothingLeftOut`. The invariant ties the lists to the texts they were made for: each
listed number is in `used_numbers`, all texts with the number of a free slot are other
slots of its package (`FreeSound`), and, as long as numbers are still being
collected, every slot of a package that was seen is free or has its text
(`PackagesSound`), so that a package is never opened a second time. That the
respected texts stay the same while others are numbered (`RespectedStay`) needs
that every text to be numbered still matches the criteria (`PagesSound`). For
`NothingLeftOut` the other direction is needed as well: a text that got a number of its
own found every smaller number and every slot of its symbol's packages taken, and
later steps only add texts that take them (`NothingLeft`). Without `NoZeros` see divergences 14 and
15.

`OrdinarySession` is necessary, too: divergences 4, 5, 6, 17 and 19 below are
counterexamples outside it. The runs `sessions` and `panzoom` are instances of it.

Only model-checked: the two liveness properties, `BackupsHappen` and `CommandsEnd`,
which are out of the prover's reach. `NoOpen` is false of conflicts that no search
meets (divergence 18) and of more than one conflict (divergence 3).

## 5. Where the code diverges from what it says

Two have a run in `PROJECT.json` that TLC refutes:

1. *edit_stays.* `o_save_auto_backup` returns to the last page of the list
   instead of the edited one (`o_save.c:170`).
2. *merge.* The net that a merge keeps is updated but not first removed from the
   lists (`o_net_basic.c:528`). Where its old end lay on the middle of another
   object the connection stays in both lists although the merged line now
   crosses without an end: the editor shows the two as connected, the file,
   read again, does not. `o_extend_object` (`o_extend.c:1924`) does the same.

The others are shown by `tlc -config <cfg> <module>`:

3. `MCNetlist_two_conflicts.cfg`. Without priority `s_net_name_search` skips a rename
   when either name is the source of any earlier one (`s_net.c:351`); with two
   wires of two names each, pins of one net can end with different names, although
   the searches meet all the names (`NoOpenOfSeenConflicts`). "If two connected nets
   have different 'netname' attributes, then gnetlist will merge all the nets with
   either of those names together" (`geda-gnetlist_ug-basic_netlisting.html:49`).
4. `MCPageUndo_memory_empty.cfg`. With undo in memory, undoing to an empty page
   moves `undo_current` and leaves the objects: a NULL object list means both
   "empty" and "no data" (`o_undo.c:512`, `s_undo.c:181`).
5. `MCPageUndo_save_in_move.cfg`. Saving inside a move sets the state to SELECT;
   the cancel that follows frees the place list without rewinding
   (`x_window.c:1137`).
6. `MCPageUndo_revert.cfg`. The records keep the flags that described the old
   file, so an undo after a revert can clear CHANGED on a page that differs from
   its file.
7. `MCPageUndo_undo_fails.cfg`. The early return of `o_undo_callback` drops the
   history, leaves logging off, notifications frozen and `open_flags` without
   the backup check (`o_undo.c:549`).
8. `MCPages_close_saves.cfg`. The test after the save in
   `x_confirm_close_changed_page` is inverted: a page that could not be saved is
   closed (`x_confirm_close.c:697`).
9. `MCFileSave_full_disk.cfg`. `o_save` promises "1 on success, 0 on failure"
   (`o_save.c:338`) and checks neither `fputs` nor `fclose`: on a full disk the
   page is marked saved and is not in the file. In `f_file_copy` the result -1 of
   `write` is kept in an unsigned number (`f_file.c:154`): the loop does not end
   while the disk is full and goes on from the wrong place afterwards.
10. `MCConnectivity_rubberband.cfg`. "Controls if net connections are maintained
    when you move" (`system-gschemrc.scm:557`): of a net that has both ends on
    what moves, `o_move_stretch_add` lists one end only (`o_move.c:51-62`), so
    that the other connection is lost.
11. `MCNetlist_priority.cfg`. A net= and a netname= on one wire: which one wins
    depends on the order they are met in and not on the setting
    (`s_net.c:340-358`; `docs/wiki/geda-gaf_utility.html:355-358`).
12. `MCSymbolLibrary_flush.cfg`. "All functions which invalidate the cache are
    supposed to make sure it is flushed" (`s_clib.c:194`): a refresh that fails
    for all sources has freed their symbols and returns before the flush
    (`s_clib.c:676`, `713`, `776`). After a refresh that lists one of them the
    caches are flushed, and the properties of `library` hold again.
13. `MCSymbolLibrary_remove.cfg`. "When symbol cache gets full, remove down to
    this level" (`s_clib.c:148`): the rounds of cleaning out start from the entry
    the first one freed (`s_clib.c:1361`) and may remove nothing.
14. `MCAutonumber_zero.cfg`. "If some numbers are already in use, autonumbering
    will skip them" (`geda-gschem_ug-autonumbering.html:50`): `freeslot_compare`
    takes a number 0 for a wildcard (`x_autonumber.c:381`), so that slot 2 of U0
    looks like a duplicate of slot 1 and is given to another component.
15. `MCAutonumber_no_slot.cfg`. "slot=0 is valid" (`x_autonumber.c:764`), and is
    a wildcard there, too: two components in slots 0 and 1 of one package, and slot 1
    is handed out again.
16. `MCAutonumber_slot_page.cfg`. `o_slot_end` appends a new slot= to the current
    page and saves an undo state (`o_slot.c:158`, `169`), after which an
    autosave leaves another page current (divergence 1): the next slot= of the
    same page's components is put on that other page.
17. `MCPageUndo_panzoom_trimmed.cfg`. "Restores the current page to the previous
    state" (`o_undo.c:426`): the trimming loop counts the records with data and frees
    records of any kind (`o_undo.c:307-330`). When it frees the record whose page
    a viewport record repeats, an undo back to the viewport record finds no data
    (`o_undo.c:485`), moves `undo_current` and leaves the objects as they are.
18. `MCNetlist_net_pins.cfg`. A net= of a component with a refdes names the head
    record of its own pin (`s_netattrib.c:180-204`), and other pins of the wire do not
    come by it: only parts without a refdes give the wire a record with the name of
    their net= (`s_traverse.c:621-633`). U1 with net=VCC:1 and U2 with net=GND:1, both
    pins drawn and on one wire, end as VCC and GND, and no rename is noted, although
    the two are connected. `geda-na_howto.html:98` lists "Outside or inside a symbol to
    connect a net to a visible pin automatically" as a use, "still untested", to be
    used "with caution".
19. `MCPageUndo_zoom_in_move.cfg`. With undo-panzoom every zoom in a move saves a
    viewport record, which the cancel then goes back by instead of the record of
    `o_move_start` (`o_move.c:316`). After one zoom the page is still restored; after
    two, the record that the cancel steps onto is a viewport record without data, and
    the objects that were moved, freed with the place list, are not put back.

Met while reading: `f_save` marks the records of the current page, so save-all
leaves those of the other saved pages stale (`f_basic.c:476`); `do_save` of an
untitled page strands its backup, which `do_save_as` removes; `force_save_as` is
never reset; a backup of a page whose file does not exist is never offered
(`x_window.c:848`); a file cut off by a crash that cannot be read is closed again
together with the newer backup (`x_window.c:897`); undo-levels 0 exhausts the
list; choosing undo-type none clears `undo_control` and the switch overwrites it;
the file index is shared by all pages, so a page may be trimmed rarely; the rc
keyword `net-naming-priority` (`g_rc.c:75`) sets a value that
`s_net_name_search` does not read (`s_net.c:295`); plain numbers, the automatic
net names of the SPICE back ends (`s_net.c:522`), are names a user gives easily;
autonumbering a hierarchy changes many pages and saves an undo state and counts an
edit on the root page only, apart from the pages where a slot was given
(`x_autonumber.c:1010`); a number with a letter after it (`R10A`) is found and loses
the letter.

## 6. What is not modelled

In a move the model lets the user rotate, zoom, save, redo, end and cancel; other
commands, which the code does not block, are left out. `Pages` leaves out the
page hierarchy, several windows, saving over the file of another open page or
under the program's own untitled name, opening twice a name that has no file (which
makes two pages of one name), files that cannot be read,
backups that cannot be written (the code then reads an uninitialized GError),
and file names that differ in case only. Opening and saving are single steps
there; what a crash does inside them is in `FileSave`. Modification times are
taken as exact in both; the code compares whole seconds. Viewport contents,
wording, logging and drawing are not told apart by any property. 

`FileSave` leaves out symbolic links, permissions, two programs on one file, and
files and directories that are read-only (`f_save` then fails and changes
nothing). `Connectivity` leaves out tiles, cues, bus rippers, attributes, colours
and the events between the start and the end of a move (`PageUndo` has those);
its lines are orthogonal or have no middle, as in `s_conn_check_midpoint`. Extending
is in the runs that hold and not in `merge`, where it alone would violate
`FileHasSameNets` (divergence 2). `Netlist` leaves out hierarchy, buses, slots, graphical pins and
`MAX_UNNAMED_NETS`, and starts where the traversal has ended. `SymbolLibrary` leaves
out the order of the sources, names a source lists twice, globbing and the use
of a symbol by its owner after it was freed.

`Autonumber` leaves out letters after numbers, texts that match a
prefix by chance, the search for the prefixes, and texts without a component.

The components
without a module are listed with the reason in `PROJECT.json`.

## 7. Plan

1. done: `UndoRecords`, `UndoHistory`, `PageUndo`, `Pages`, `FileSave`,
   `Connectivity`, `Netlist`, `SymbolLibrary`, `Autonumber`, their runs and proofs.
2. `Notify`: freeze and thaw of the change notifications, whose balance the early
   return of `o_undo_callback` breaks; `WeakRef`; `ConfigCascade`: small state machines.
3. Hierarchy and buses in `Netlist`; tiles, bus rippers and cues in `Connectivity`;
   the other designator utilities (`u_refdes.c`, `grenum.c`).
4. `Pages` over `FileSave`: a save as several steps with other pages between a crash
   and the next session.
5. Proofs: `NoOpen` for as many conflicts as do not share a name; a save of
   `Pages` as a series of steps of `FileSave`. The modules to be proved about use no
   RECURSIVE operator.
