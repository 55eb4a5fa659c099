---------------------------- MODULE Pages_proofs ----------------------------
(***************************************************************************)
(* What holds of the pages of a window, their files and backups for any    *)
(* number of pages, any contents and histories, and sessions of any        *)
(* length, crashes and restarts included.                                  *)
(***************************************************************************)
EXTENDS Pages, UndoRecords_proofs

USE PagesAssumption, LimitAssumption, NullAssumption

Toplevel == [pages : Seq(Names), page_current : Names \cup {NULL},
             page : [Names -> PAGE], force_save_as : BOOLEAN,
             undo_file_index : 0..(CheckEvery - 1)]

Disk == [file : [Names -> Content \cup {NULL}],
         backup : [Names -> Content \cup {NULL}],
         newer : [Names -> BOOLEAN]]

(* CurrentIsOpen, of the toplevel a command works on. *)
Focused(t) ==
    /\ t.pages # << >> => t.page_current \in Open(t)
    /\ IsInjective(t.pages)

-----------------------------------------------------------------------------
(* Fields of pages, of the toplevel and of the disk. *)
LEMMA PageFields ==
    ASSUME NEW p \in PAGE
    PROVE  /\ p.content \in Content /\ p.CHANGED \in BOOLEAN
           /\ p.ops_since_last_backup \in BOOLEAN
           /\ p.do_autosave_backup \in BOOLEAN /\ p.undo \in Stack
BY DEF PAGE

LEMMA PageIntro ==
    ASSUME NEW c \in Content, NEW changed \in BOOLEAN, NEW ops \in BOOLEAN,
           NEW due \in BOOLEAN, NEW s \in Stack
    PROVE  [content |-> c, CHANGED |-> changed, ops_since_last_backup |-> ops,
            do_autosave_backup |-> due, undo |-> s] \in PAGE
BY DEF PAGE

LEMMA NewPageFields ==
    ASSUME NEW c \in Content, NEW changed \in BOOLEAN
    PROVE  /\ NewPage(c, changed) \in PAGE
           /\ NewPage(c, changed).content = c
           /\ NewPage(c, changed).CHANGED = changed
           /\ NewPage(c, changed).ops_since_last_backup = FALSE
           /\ NewPage(c, changed).do_autosave_backup = FALSE
           /\ NewPage(c, changed).undo = NoUndo
<1>1. NewPage(c, changed) \in PAGE
  BY NoUndoType, PageIntro DEF NewPage
<1> QED
  BY <1>1 DEF NewPage

LEMMA ToplevelFields ==
    ASSUME NEW t \in Toplevel
    PROVE  /\ t.pages \in Seq(Names) /\ Len(t.pages) \in Nat
           /\ t.page_current \in Names \cup {NULL}
           /\ t.page \in [Names -> PAGE]
           /\ t.force_save_as \in BOOLEAN
           /\ t.undo_file_index \in 0..(CheckEvery - 1)
           /\ \A n \in Names : t.page[n] \in PAGE
BY DEF Toplevel

LEMMA ToplevelIntro ==
    ASSUME NEW pages \in Seq(Names), NEW cur \in Names \cup {NULL},
           NEW page \in [Names -> PAGE], NEW force \in BOOLEAN,
           NEW index \in 0..(CheckEvery - 1)
    PROVE  [pages |-> pages, page_current |-> cur, page |-> page,
            force_save_as |-> force, undo_file_index |-> index] \in Toplevel
BY DEF Toplevel

LEMMA DiskFields ==
    ASSUME NEW d \in Disk
    PROVE  /\ d.file \in [Names -> Content \cup {NULL}]
           /\ d.backup \in [Names -> Content \cup {NULL}]
           /\ d.newer \in [Names -> BOOLEAN]
BY DEF Disk

LEMMA DiskIntro ==
    ASSUME NEW file \in [Names -> Content \cup {NULL}],
           NEW backup \in [Names -> Content \cup {NULL}],
           NEW newer \in [Names -> BOOLEAN]
    PROVE  [file |-> file, backup |-> backup, newer |-> newer] \in Disk
BY DEF Disk

LEMMA OpenPages ==
    ASSUME NEW t \in Toplevel
    PROVE  /\ Open(t) \subseteq Names
           /\ Open(t) = {t.pages[i] : i \in 1..Len(t.pages)}
           /\ Open(t) = {} <=> t.pages = << >>
           /\ t.pages # << >> => Last(t.pages) \in Open(t)
<1>1. t.pages \in Seq(Names) /\ Len(t.pages) \in Nat
  BY ToplevelFields
<1>2. Open(t) = {t.pages[i] : i \in 1..Len(t.pages)}
  BY <1>1 DEF Open, ToSet
<1>3. /\ t.pages = << >> => Len(t.pages) = 0
      /\ t.pages # << >> => Len(t.pages) \in 1..Len(t.pages)
      /\ \A i \in 1..Len(t.pages) : t.pages[i] \in Names
  BY <1>1
<1>4. t.pages # << >> => t.pages[Len(t.pages)] \in Open(t)
  BY <1>2, <1>3
<1>5. t.pages = << >> => Open(t) = {}
  BY <1>1, <1>2, <1>3
<1> QED
  BY <1>2, <1>3, <1>4, <1>5 DEF Last

-----------------------------------------------------------------------------
(* o_save_auto_backup writes backups and lowers flags; what the pages hold, *)
(* their CHANGED and their records stay.                                    *)
LEMMA BackupResult ==
    ASSUME NEW t \in Toplevel, NEW d \in Disk, Focused(t), t.pages # << >>
    PROVE  LET r == o_save_auto_backup(t, d)
           IN  /\ r.toplevel \in Toplevel /\ r.disk \in Disk
               /\ r.toplevel.pages = t.pages
               /\ r.toplevel.page_current =
                    IF Due(t) = {} THEN t.page_current ELSE Last(t.pages)
               /\ r.toplevel.force_save_as = t.force_save_as
               /\ r.toplevel.undo_file_index = t.undo_file_index
               /\ \A n \in Names :
                    /\ r.toplevel.page[n].content = t.page[n].content
                    /\ r.toplevel.page[n].CHANGED = t.page[n].CHANGED
                    /\ r.toplevel.page[n].undo = t.page[n].undo
                    /\ r.toplevel.page[n].ops_since_last_backup =
                         (t.page[n].ops_since_last_backup /\ n \notin Due(t))
               /\ r.disk.file = d.file
               /\ \A n \in Names :
                    /\ r.disk.backup[n] = IF n \in Due(t) THEN t.page[n].content
                                          ELSE d.backup[n]
                    /\ r.disk.newer[n] = (d.newer[n] \/ n \in Due(t))
<1> DEFINE lowered == [n \in Names |->
              IF n \in Due(t)
              THEN [t.page[n] EXCEPT !.ops_since_last_backup = FALSE,
                                     !.do_autosave_backup = FALSE]
              ELSE t.page[n]]
           backup == [n \in Names |-> IF n \in Due(t) THEN t.page[n].content
                                      ELSE d.backup[n]]
           newer == [n \in Names |-> d.newer[n] \/ n \in Due(t)]
           after == [t EXCEPT !.page = lowered, !.page_current = Last(t.pages)]
           saved == [d EXCEPT !.backup = backup, !.newer = newer]
           r == o_save_auto_backup(t, d)
<1>1. /\ t.page \in [Names -> PAGE] /\ \A n \in Names : t.page[n] \in PAGE
      /\ d.backup \in [Names -> Content \cup {NULL}]
      /\ d.newer \in [Names -> BOOLEAN]
  BY ToplevelFields, DiskFields
<1>2. Last(t.pages) \in Names
  BY OpenPages
<1>3. r.toplevel = (IF Due(t) = {} THEN t ELSE after) /\ r.disk = saved
  BY Zenon DEF o_save_auto_backup
<1>4. ASSUME NEW n \in Names
      PROVE  /\ lowered[n] \in PAGE
             /\ lowered[n].content = t.page[n].content
             /\ lowered[n].CHANGED = t.page[n].CHANGED
             /\ lowered[n].undo = t.page[n].undo
             /\ lowered[n].ops_since_last_backup =
                  (t.page[n].ops_since_last_backup /\ n \notin Due(t))
  BY <1>1, PageFields DEF PAGE
<1>5. lowered \in [Names -> PAGE]
  BY <1>4
<1>6. /\ backup \in [Names -> Content \cup {NULL}] /\ newer \in [Names -> BOOLEAN]
      /\ \A n \in Names :
           /\ backup[n] = IF n \in Due(t) THEN t.page[n].content ELSE d.backup[n]
           /\ newer[n] = (d.newer[n] \/ n \in Due(t))
  BY <1>1, PageFields
<1> HIDE DEF lowered, backup, newer
<1>7. /\ saved \in Disk /\ saved.file = d.file
      /\ saved.backup = backup /\ saved.newer = newer
  BY <1>6 DEF Disk
<1>8. /\ after \in Toplevel /\ after.pages = t.pages /\ after.page = lowered
      /\ after.page_current = Last(t.pages)
      /\ after.force_save_as = t.force_save_as
      /\ after.undo_file_index = t.undo_file_index
  BY <1>2, <1>5 DEF Toplevel
<1> HIDE DEF after, saved, r
<1>9. CASE Due(t) = {}
  <2>1. r.toplevel = t
    BY <1>3, <1>9
  <2>2. \A n \in Names :
           /\ n \notin Due(t)
           /\ t.page[n].ops_since_last_backup \in BOOLEAN
    BY <1>1, <1>9, PageFields
  <2> QED
    BY <1>3, <1>6, <1>7, <1>9, <2>1, <2>2 DEF r
<1>10. CASE Due(t) # {}
  <2>1. r.toplevel = after
    BY <1>3, <1>10
  <2> QED
    BY <1>3, <1>4, <1>6, <1>7, <1>8, <1>10, <2>1 DEF r
<1> QED
  BY <1>9, <1>10

(* Putting the saved state back into the page. *)
SavedIn(t, cur, s, index) ==
    [t EXCEPT !.page[cur].undo = s,
              !.page[cur].ops_since_last_backup = @ \/ AutoSave,
              !.undo_file_index = index]

PagesSaved(t, e, cur, s) ==
    \A n \in Names :
        /\ e.page[n].content = t.page[n].content
        /\ e.page[n].CHANGED = t.page[n].CHANGED
        /\ e.page[n].undo = IF n = cur THEN s ELSE t.page[n].undo
        /\ e.page[n].ops_since_last_backup =
             (t.page[n].ops_since_last_backup \/ (n = cur /\ AutoSave))

LEMMA SaveInPage ==
    ASSUME NEW t \in Toplevel, NEW cur \in Names, NEW s \in Stack,
           NEW index \in 0..(CheckEvery - 1)
    PROVE  LET e == SavedIn(t, cur, s, index)
           IN  /\ e \in Toplevel
               /\ e.pages = t.pages /\ e.page_current = t.page_current
               /\ PagesSaved(t, e, cur, s)
<1> DEFINE old == t.page[cur]
           new == [old EXCEPT !.undo = s, !.ops_since_last_backup = @ \/ AutoSave]
           page == [t.page EXCEPT ![cur] = new]
           e == SavedIn(t, cur, s, index)
<1>1. t.page \in [Names -> PAGE] /\ \A n \in Names : t.page[n] \in PAGE
  BY ToplevelFields
<1>2. /\ new \in PAGE /\ new.content = old.content /\ new.CHANGED = old.CHANGED
      /\ new.undo = s
      /\ new.ops_since_last_backup = (old.ops_since_last_backup \/ AutoSave)
  BY <1>1, PageFields DEF PAGE
<1>3. e.pages = t.pages /\ e.page_current = t.page_current /\ e.page = page
  BY <1>1 DEF SavedIn, Toplevel, PAGE
<1>4. /\ page \in [Names -> PAGE] /\ page[cur] = new
      /\ \A n \in Names : n # cur => page[n] = t.page[n]
  BY <1>1, <1>2
<1> HIDE DEF new, page
<1>5. e \in Toplevel
  BY <1>3, <1>4 DEF SavedIn, Toplevel
<1> HIDE DEF e
<1>6. ASSUME NEW n \in Names
      PROVE  /\ e.page[n].content = t.page[n].content
             /\ e.page[n].CHANGED = t.page[n].CHANGED
             /\ e.page[n].undo = IF n = cur THEN s ELSE t.page[n].undo
             /\ e.page[n].ops_since_last_backup =
                  (t.page[n].ops_since_last_backup \/ (n = cur /\ AutoSave))
  <2>1. t.page[n].ops_since_last_backup \in BOOLEAN
    BY <1>1, PageFields
  <2> QED
    BY <1>2, <1>3, <1>4, <2>1
<1> QED
  BY <1>3, <1>5, <1>6 DEF e, PagesSaved

LEMMA SavestateOnDisk ==
    ASSUME NEW s \in Stack, NEW index \in 0..(CheckEvery - 1),
           NEW c \in Content, NEW changed \in BOOLEAN
    PROVE  LET r == Savestate(s, "DISK", index, "UNDO_ALL", c, changed, TRUE)
           IN  /\ r.undo \in Stack /\ r.index \in 0..(CheckEvery - 1)
               /\ Recorded(s, r.undo, NewRecord("DISK", "UNDO_ALL", c, changed))
<1>1. /\ "DISK" \in UNDO_TYPE /\ "DISK" # "NONE" /\ "UNDO_ALL" \in RecordType
      /\ TRUE \in Success
  BY DEF UNDO_TYPE, RecordType, Success
<1>2. UndoLevels >= 1
  BY TrimAssumption
<1> QED
  BY <1>1, <1>2, SavestateRecords, Zenon

(* o_undo_savestate, of whichever page is current once the backups are      *)
(* written: the pages hold what they held, and that page has a record more. *)
LEMMA SavestateStep ==
    ASSUME NEW t \in Toplevel, NEW d \in Disk, Focused(t), t.pages # << >>,
           o_undo_savestate(t, d)
    PROVE  LET cur == toplevel'.page_current
           IN  /\ toplevel' \in Toplevel /\ disk' \in Disk
               /\ toplevel'.pages = t.pages /\ Open(toplevel') = Open(t)
               /\ cur = IF Due(t) = {} THEN t.page_current ELSE Last(t.pages)
               /\ cur \in Open(t) /\ cur \in Names
               /\ Focused(toplevel')
               /\ \A n \in Names :
                    /\ toplevel'.page[n].content = t.page[n].content
                    /\ toplevel'.page[n].CHANGED = t.page[n].CHANGED
                    /\ n # cur => toplevel'.page[n].undo = t.page[n].undo
                    /\ toplevel'.page[n].ops_since_last_backup =
                         \/ t.page[n].ops_since_last_backup /\ n \notin Due(t)
                         \/ n = cur /\ AutoSave
               /\ Recorded(t.page[cur].undo, toplevel'.page[cur].undo,
                           NewRecord("DISK", "UNDO_ALL", t.page[cur].content,
                                     t.page[cur].CHANGED))
               /\ disk'.file = d.file
               /\ \A n \in Names :
                    /\ disk'.backup[n] = IF n \in Due(t) THEN t.page[n].content
                                         ELSE d.backup[n]
                    /\ disk'.newer[n] = (d.newer[n] \/ n \in Due(t))
<1> DEFINE b   == o_save_auto_backup(t, d)
           cur == b.toplevel.page_current
           p   == b.toplevel.page[cur]
           r   == Savestate(p.undo, "DISK", t.undo_file_index, "UNDO_ALL",
                            p.content, p.CHANGED, TRUE)
<1>1. /\ b.toplevel \in Toplevel /\ b.disk \in Disk
      /\ b.toplevel.pages = t.pages
      /\ cur = IF Due(t) = {} THEN t.page_current ELSE Last(t.pages)
      /\ \A n \in Names :
           /\ b.toplevel.page[n].content = t.page[n].content
           /\ b.toplevel.page[n].CHANGED = t.page[n].CHANGED
           /\ b.toplevel.page[n].undo = t.page[n].undo
           /\ b.toplevel.page[n].ops_since_last_backup =
                (t.page[n].ops_since_last_backup /\ n \notin Due(t))
      /\ b.disk.file = d.file
      /\ \A n \in Names :
           /\ b.disk.backup[n] = IF n \in Due(t) THEN t.page[n].content
                                 ELSE d.backup[n]
           /\ b.disk.newer[n] = (d.newer[n] \/ n \in Due(t))
  BY BackupResult
<1>2. /\ toplevel' = [b.toplevel EXCEPT
                        !.page[cur].undo = r.undo,
                        !.page[cur].ops_since_last_backup = @ \/ AutoSave,
                        !.undo_file_index = r.index]
      /\ disk' = b.disk
  BY Zenon DEF o_undo_savestate
<1> HIDE DEF b
<1>3. cur \in Open(t) /\ cur \in Names
  BY <1>1, OpenPages DEF Focused
<1>4. p \in PAGE /\ t.undo_file_index \in 0..(CheckEvery - 1)
  BY <1>1, <1>3, ToplevelFields
<1>5. p.undo \in Stack /\ p.content \in Content /\ p.CHANGED \in BOOLEAN
  BY <1>4, PageFields
<1> HIDE DEF cur, p
<1>6. /\ r.undo \in Stack /\ r.index \in 0..(CheckEvery - 1)
      /\ Recorded(p.undo, r.undo,
                  NewRecord("DISK", "UNDO_ALL", p.content, p.CHANGED))
  BY <1>4, <1>5, SavestateOnDisk
<1> HIDE DEF r
<1>7. /\ toplevel' \in Toplevel
      /\ toplevel'.pages = b.toplevel.pages
      /\ toplevel'.page_current = b.toplevel.page_current
      /\ PagesSaved(b.toplevel, toplevel', cur, r.undo)
  <2>1. toplevel' = SavedIn(b.toplevel, cur, r.undo, r.index)
    BY <1>2 DEF SavedIn
  <2> DEFINE e == SavedIn(b.toplevel, cur, r.undo, r.index)
  <2>2. /\ e \in Toplevel /\ e.pages = b.toplevel.pages
        /\ e.page_current = b.toplevel.page_current
        /\ PagesSaved(b.toplevel, e, cur, r.undo)
    BY <1>1, <1>3, <1>6, SaveInPage
  <2> HIDE DEF e
  <2> QED
    BY <2>1, <2>2 DEF e
<1>8. toplevel'.page_current = cur /\ toplevel'.pages = t.pages
  BY <1>1, <1>7 DEF cur
<1>9. Open(toplevel') = Open(t) /\ Focused(toplevel')
  BY <1>3, <1>8 DEF Open, Focused
<1>10. Recorded(t.page[cur].undo, toplevel'.page[cur].undo,
                NewRecord("DISK", "UNDO_ALL", t.page[cur].content,
                          t.page[cur].CHANGED))
  BY <1>1, <1>3, <1>6, <1>7 DEF p, PagesSaved
<1>11. ASSUME NEW n \in Names
       PROVE  /\ toplevel'.page[n].content = t.page[n].content
              /\ toplevel'.page[n].CHANGED = t.page[n].CHANGED
              /\ n # cur => toplevel'.page[n].undo = t.page[n].undo
              /\ toplevel'.page[n].ops_since_last_backup =
                   \/ t.page[n].ops_since_last_backup /\ n \notin Due(t)
                   \/ n = cur /\ AutoSave
  BY <1>1, <1>7 DEF PagesSaved
<1>12. /\ cur = IF Due(t) = {} THEN t.page_current ELSE Last(t.pages)
       /\ disk' \in Disk /\ disk'.file = d.file
       /\ \A n \in Names :
            /\ disk'.backup[n] = IF n \in Due(t) THEN t.page[n].content
                                 ELSE d.backup[n]
            /\ disk'.newer[n] = (d.newer[n] \/ n \in Due(t))
  BY <1>1, <1>2
<1> HIDE DEF o_undo_savestate
<1> QED
  BY <1>3, <1>7, <1>8, <1>9, <1>10, <1>11, <1>12

-----------------------------------------------------------------------------
(* The list of pages when a page is added, deleted or renamed. *)
LEMMA AddPageResult ==
    ASSUME NEW t \in Toplevel, Focused(t), NEW n \in Names \ Open(t), NEW p \in PAGE
    PROVE  LET e == AddPage(t, n, p)
           IN  /\ e \in Toplevel /\ Focused(e) /\ e.pages # << >>
               /\ Open(e) = Open(t) \cup {n}
               /\ e.page_current = n /\ Last(e.pages) = n
               /\ e.page = [t.page EXCEPT ![n] = p]
<1> DEFINE pages == Append(t.pages, n)
           page  == [t.page EXCEPT ![n] = p]
           e     == AddPage(t, n, p)
<1>1. /\ t.pages \in Seq(Names) /\ Len(t.pages) \in Nat /\ t.page \in [Names -> PAGE]
      /\ Open(t) = {t.pages[i] : i \in 1..Len(t.pages)}
  BY ToplevelFields, OpenPages
<1>2. /\ pages \in Seq(Names) /\ Len(pages) = Len(t.pages) + 1
      /\ \A i \in 1..Len(t.pages) : pages[i] = t.pages[i]
      /\ pages[Len(t.pages) + 1] = n
  BY <1>1, AppendProperties
<1>3. page \in [Names -> PAGE]
  BY <1>1
<1> HIDE DEF pages
<1>4. /\ e.pages = pages /\ e.page_current = n /\ e.page = page /\ e \in Toplevel
  BY <1>2, <1>3 DEF AddPage, Toplevel, pages
<1> HIDE DEF e, page
<1>5. Open(e) = {pages[i] : i \in 1..(Len(t.pages) + 1)}
  BY <1>2, <1>4, OpenPages
<1>6. Open(e) = Open(t) \cup {n}
  <2>1. ASSUME NEW i \in 1..(Len(t.pages) + 1)
        PROVE  pages[i] \in Open(t) \cup {n}
    <3>1. i \in 1..Len(t.pages) \/ i = Len(t.pages) + 1
      BY <1>1
    <3> QED
      BY <1>1, <1>2, <3>1
  <2>2. ASSUME NEW i \in 1..Len(t.pages)
        PROVE  t.pages[i] \in Open(e)
    <3>1. i \in 1..(Len(t.pages) + 1)
      BY <1>1
    <3> QED
      BY <1>2, <1>5, <3>1
  <2>3. n \in Open(e)
    <3>1. Len(t.pages) + 1 \in 1..(Len(t.pages) + 1)
      BY <1>1
    <3> QED
      BY <1>2, <1>5, <3>1
  <2> QED
    BY <1>1, <1>5, <2>1, <2>2, <2>3
<1>7. IsInjective(pages)
  <2>1. DOMAIN pages = 1..(Len(t.pages) + 1) /\ DOMAIN t.pages = 1..Len(t.pages)
    BY <1>1, <1>2
  <2> SUFFICES ASSUME NEW i \in 1..(Len(t.pages) + 1), NEW j \in 1..(Len(t.pages) + 1),
                      pages[i] = pages[j]
               PROVE  i = j
    BY <2>1 DEF IsInjective
  <2>2. ASSUME NEW k \in 1..(Len(t.pages) + 1)
        PROVE  \/ k \in 1..Len(t.pages) /\ pages[k] = t.pages[k] /\ pages[k] # n
               \/ k = Len(t.pages) + 1 /\ pages[k] = n
    <3>1. k \in 1..Len(t.pages) \/ k = Len(t.pages) + 1
      BY <1>1
    <3> QED
      BY <1>1, <1>2, <3>1
  <2>3. i \in 1..Len(t.pages) /\ j \in 1..Len(t.pages) => i = j
    BY <1>2, <2>1 DEF Focused, IsInjective
  <2> QED
    BY <2>2, <2>3
<1>8. pages # << >> /\ Last(pages) = n
  BY <1>1, <1>2 DEF Last
<1> QED
  BY <1>4, <1>6, <1>7, <1>8 DEF Focused, e, page

LEMMA PlaceResult ==
    ASSUME NEW t \in Toplevel, Focused(t), NEW n \in Open(t)
    PROVE  /\ Place(t.pages, n) \in 1..Len(t.pages)
           /\ t.pages[Place(t.pages, n)] = n
           /\ \A i \in 1..Len(t.pages) : t.pages[i] = n => i = Place(t.pages, n)
<1>1. DOMAIN t.pages = 1..Len(t.pages) /\ \E i \in DOMAIN t.pages : t.pages[i] = n
  BY ToplevelFields, OpenPages
<1>2. Place(t.pages, n) \in DOMAIN t.pages /\ t.pages[Place(t.pages, n)] = n
  BY <1>1 DEF Place
<1> QED
  BY <1>1, <1>2 DEF Focused, IsInjective

LEMMA RemoveAtResult ==
    ASSUME NEW S, NEW s \in Seq(S), NEW k \in 1..Len(s)
    PROVE  /\ RemoveAt(s, k) \in Seq(S) /\ Len(RemoveAt(s, k)) = Len(s) - 1
           /\ \A i \in 1..(Len(s) - 1) :
                RemoveAt(s, k)[i] = IF i < k THEN s[i] ELSE s[i + 1]
<1> DEFINE left  == SubSeq(s, 1, k - 1)
           right == SubSeq(s, k + 1, Len(s))
<1>1. Len(s) \in Nat /\ k \in Nat /\ \A i \in 1..Len(s) : s[i] \in S
  OBVIOUS
<1>2. /\ left \in Seq(S) /\ Len(left) = k - 1
      /\ \A i \in 1..(k - 1) : left[i] = s[i]
  <2>1. \A i \in 1..(k - 1) : s[i] \in S
    BY <1>1
  <2> QED
    BY <1>1, <2>1, SubSeqProperties
<1>3. /\ right \in Seq(S) /\ Len(right) = Len(s) - k
      /\ \A i \in 1..(Len(s) - k) : right[i] = s[k + i]
  <2>1. \A i \in (k + 1)..Len(s) : s[i] \in S
    BY <1>1
  <2>2. /\ right \in Seq(S)
        /\ Len(right) = IF k + 1 <= Len(s) THEN Len(s) - (k + 1) + 1 ELSE 0
        /\ \A i \in 1..(Len(s) - (k + 1) + 1) : right[i] = s[(k + 1) + i - 1]
    BY <1>1, <2>1, SubSeqProperties
  <2>3. Len(right) = Len(s) - k
    BY <1>1, <2>2
  <2>4. ASSUME NEW i \in 1..(Len(s) - k)
        PROVE  right[i] = s[k + i]
    <3>1. i \in 1..(Len(s) - (k + 1) + 1) /\ (k + 1) + i - 1 = k + i
      BY <1>1
    <3> QED
      BY <2>2, <3>1
  <2> QED
    BY <2>2, <2>3, <2>4
<1> HIDE DEF left, right
<1>4. /\ left \o right \in Seq(S) /\ Len(left \o right) = Len(s) - 1
      /\ \A i \in 1..(Len(s) - 1) :
           (left \o right)[i] = IF i <= k - 1 THEN left[i] ELSE right[i - (k - 1)]
  <2>1. Len(left) + Len(right) = Len(s) - 1
    BY <1>1, <1>2, <1>3
  <2>2. /\ left \o right \in Seq(S)
        /\ Len(left \o right) = Len(left) + Len(right)
        /\ \A i \in 1..(Len(left) + Len(right)) :
             (left \o right)[i] =
                IF i <= Len(left) THEN left[i] ELSE right[i - Len(left)]
    BY <1>2, <1>3, ConcatProperties
  <2> QED
    BY <1>2, <2>1, <2>2
<1>5. ASSUME NEW i \in 1..(Len(s) - 1)
      PROVE  (left \o right)[i] = IF i < k THEN s[i] ELSE s[i + 1]
  <2>1. CASE i < k
    <3>1. i <= k - 1 /\ i \in 1..(k - 1)
      BY <1>1, <2>1
    <3> QED
      BY <1>2, <1>4, <2>1, <3>1
  <2>2. CASE ~(i < k)
    <3>1. ~(i <= k - 1) /\ i - (k - 1) \in 1..(Len(s) - k) /\ k + (i - (k - 1)) = i + 1
      BY <1>1, <2>2
    <3> QED
      BY <1>3, <1>4, <2>2, <3>1
  <2> QED
    BY <2>1, <2>2
<1> QED
  BY <1>4, <1>5 DEF RemoveAt, left, right

(* s_page_delete takes one page off the list. *)
LEMMA DeleteResult ==
    ASSUME NEW t \in Toplevel, Focused(t), NEW n \in Open(t)
    PROVE  LET e == s_page_delete(t, n)
           IN  /\ e \in Toplevel /\ IsInjective(e.pages)
               /\ Open(e) = Open(t) \ {n}
               /\ Len(e.pages) = Len(t.pages) - 1
               /\ \A i \in 1..(Len(t.pages) - 1) :
                    e.pages[i] = IF i < Place(t.pages, n) THEN t.pages[i]
                                 ELSE t.pages[i + 1]
               /\ e.page = [t.page EXCEPT ![n] = NewPage(Empty, FALSE)]
<1> DEFINE k == Place(t.pages, n)
           pages == RemoveAt(t.pages, k)
           page == [t.page EXCEPT ![n] = NewPage(Empty, FALSE)]
           e == s_page_delete(t, n)
<1>1. /\ t.pages \in Seq(Names) /\ Len(t.pages) \in Nat /\ t.page \in [Names -> PAGE]
      /\ Open(t) = {t.pages[i] : i \in 1..Len(t.pages)} /\ n \in Names
      /\ DOMAIN t.pages = 1..Len(t.pages)
  BY ToplevelFields, OpenPages
<1>2. /\ k \in 1..Len(t.pages) /\ t.pages[k] = n
      /\ \A i \in 1..Len(t.pages) : t.pages[i] = n => i = k
  BY PlaceResult
<1> HIDE DEF k
<1>3. /\ pages \in Seq(Names) /\ Len(pages) = Len(t.pages) - 1
      /\ \A i \in 1..(Len(t.pages) - 1) :
           pages[i] = IF i < k THEN t.pages[i] ELSE t.pages[i + 1]
  BY <1>1, <1>2, RemoveAtResult
<1>4. page \in [Names -> PAGE]
  BY <1>1, NewPageFields
<1> HIDE DEF pages
<1>5. e.pages = pages /\ e.page = page /\ e \in Toplevel
  BY <1>3, <1>4 DEF s_page_delete, Toplevel, pages, k
<1> HIDE DEF e, page
<1>6. Open(e) = {pages[i] : i \in 1..(Len(t.pages) - 1)}
  BY <1>3, <1>5, OpenPages
<1>7. ASSUME NEW i \in 1..(Len(t.pages) - 1)
      PROVE  \E j \in 1..Len(t.pages) :
                pages[i] = t.pages[j] /\ j # k /\ j = (IF i < k THEN i ELSE i + 1)
  BY <1>1, <1>2, <1>3
<1>8. Open(e) = Open(t) \ {n}
  <2>1. ASSUME NEW m \in Open(t) \ {n}
        PROVE  m \in Open(e)
    <3>1. PICK j \in 1..Len(t.pages) : m = t.pages[j]
      BY <1>1
    <3>2. j # k
      BY <1>2, <3>1
    <3>3. CASE j < k
      <4>1. j \in 1..(Len(t.pages) - 1)
        BY <1>1, <1>2, <3>3
      <4> QED
        BY <1>3, <1>6, <3>1, <3>3, <4>1
    <3>4. CASE ~(j < k)
      <4>1. j - 1 \in 1..(Len(t.pages) - 1) /\ ~(j - 1 < k) /\ (j - 1) + 1 = j
        BY <1>1, <1>2, <3>2, <3>4
      <4>2. pages[j - 1] = t.pages[j]
        BY <1>3, <4>1
      <4> QED
        BY <1>6, <3>1, <4>1, <4>2
    <3> QED
      BY <3>3, <3>4
  <2>2. ASSUME NEW i \in 1..(Len(t.pages) - 1)
        PROVE  pages[i] \in Open(t) \ {n}
    BY <1>1, <1>2, <1>7
  <2> QED
    BY <1>6, <2>1, <2>2
<1>9. IsInjective(pages)
  <2>1. DOMAIN pages = 1..(Len(t.pages) - 1)
    BY <1>1, <1>3
  <2> SUFFICES ASSUME NEW i \in 1..(Len(t.pages) - 1), NEW j \in 1..(Len(t.pages) - 1),
                      pages[i] = pages[j]
               PROVE  i = j
    BY <2>1 DEF IsInjective
  <2>2. PICK a \in 1..Len(t.pages) :
           pages[i] = t.pages[a] /\ a # k /\ a = (IF i < k THEN i ELSE i + 1)
    BY <1>7
  <2>3. PICK b \in 1..Len(t.pages) :
           pages[j] = t.pages[b] /\ b # k /\ b = (IF j < k THEN j ELSE j + 1)
    BY <1>7
  <2>4. a = b
    BY <1>1, <2>2, <2>3 DEF Focused, IsInjective
  <2> QED
    BY <1>1, <1>2, <2>2, <2>3, <2>4
<1> QED
  BY <1>3, <1>5, <1>8, <1>9 DEF e, page, k

LEMMA NeighbourResult ==
    ASSUME NEW t \in Toplevel, Focused(t), NEW n \in Open(t), Len(t.pages) > 1
    PROVE  /\ Neighbour(t.pages, n) \in Open(t) \ {n}
           /\ n = Last(t.pages) =>
                Neighbour(t.pages, n) = t.pages[Len(t.pages) - 1]
<1> DEFINE k == Place(t.pages, n)
<1>1. /\ k \in 1..Len(t.pages) /\ t.pages[k] = n
      /\ \A i \in 1..Len(t.pages) : t.pages[i] = n => i = k
  BY PlaceResult
<1>2. Len(t.pages) \in Nat /\ Open(t) = {t.pages[i] : i \in 1..Len(t.pages)}
  BY ToplevelFields, OpenPages
<1>3. Neighbour(t.pages, n) = IF k > 1 THEN t.pages[k - 1] ELSE t.pages[k + 1]
  BY DEF Neighbour
<1> HIDE DEF k
<1>4. n = Last(t.pages) => k = Len(t.pages)
  BY <1>1, <1>2 DEF Last
<1>5. CASE k > 1
  <2>1. k - 1 \in 1..Len(t.pages) /\ k - 1 # k
    BY <1>1, <1>2, <1>5
  <2> QED
    BY <1>1, <1>2, <1>3, <1>4, <1>5, <2>1
<1>6. CASE ~(k > 1)
  <2>1. k + 1 \in 1..Len(t.pages) /\ k + 1 # k /\ k # Len(t.pages)
    BY <1>1, <1>2, <1>6
  <2> QED
    BY <1>1, <1>2, <1>3, <1>4, <1>6, <2>1
<1> QED
  BY <1>5, <1>6

(* The page that is saved under another name keeps its place in the list.  *)
Renamed(t, n, m, e) ==
    /\ e \in Toplevel /\ Focused(e) /\ e.pages # << >>
    /\ Open(e) = (Open(t) \ {n}) \cup {m}
    /\ e.page_current = m
    /\ n = Last(t.pages) => m = Last(e.pages)
    /\ e.page[m] = t.page[n]
    /\ n # m => e.page[n] = NewPage(Empty, FALSE)
    /\ \A p \in Names \ {n, m} : e.page[p] = t.page[p]

LEMMA RenameResult ==
    ASSUME NEW t \in Toplevel, Focused(t), NEW n \in Open(t), n = t.page_current,
           NEW m \in Names, m = n \/ m \notin Open(t)
    PROVE  Renamed(t, n, m, Rename(t, n, m))
<1> DEFINE pages == [i \in DOMAIN t.pages |-> IF t.pages[i] = n THEN m ELSE t.pages[i]]
           cur   == IF t.page_current = n THEN m ELSE t.page_current
           page  == [t.page EXCEPT ![m] = t.page[n], ![n] = NewPage(Empty, FALSE)]
           e     == Rename(t, n, m)
<1>1. /\ t.pages \in Seq(Names) /\ Len(t.pages) \in Nat /\ t.page \in [Names -> PAGE]
      /\ Open(t) = {t.pages[i] : i \in 1..Len(t.pages)} /\ n \in Names
      /\ DOMAIN t.pages = 1..Len(t.pages) /\ t.pages # << >>
  BY ToplevelFields, OpenPages
<1>2. CASE m = n
  <2>1. e = t
    BY <1>2 DEF Rename
  <2> QED
    BY <1>1, <1>2, <2>1 DEF Renamed
<1>3. CASE m # n
  <2>1. \A i \in 1..Len(t.pages) :
           /\ t.pages[i] \in Names /\ t.pages[i] # m
           /\ pages[i] = IF t.pages[i] = n THEN m ELSE t.pages[i]
    BY <1>1, <1>3
  <2>2. pages \in Seq(Names) /\ Len(pages) = Len(t.pages)
    BY <1>1, <2>1
  <2>3. page \in [Names -> PAGE]
    BY <1>1, NewPageFields
  <2>4. /\ page[m] = t.page[n] /\ page[n] = NewPage(Empty, FALSE)
        /\ \A p \in Names \ {n, m} : page[p] = t.page[p]
    BY <1>1, <1>3
  <2>5. cur = m
    OBVIOUS
  <2>6. e = [t EXCEPT !.pages = pages, !.page_current = cur, !.page = page]
    BY <1>3 DEF Rename
  <2> HIDE DEF pages, page, cur
  <2>7. e \in Toplevel /\ e.pages = pages /\ e.page_current = m /\ e.page = page
    BY <2>2, <2>3, <2>5, <2>6 DEF Toplevel
  <2> HIDE DEF e
  <2>8. Open(e) = {pages[i] : i \in 1..Len(t.pages)}
    BY <2>2, <2>7, OpenPages
  <2>9. PICK k \in 1..Len(t.pages) : t.pages[k] = n
    BY <1>1
  <2>10. Open(e) = (Open(t) \ {n}) \cup {m}
    <3>1. m \in Open(e)
      BY <2>1, <2>8, <2>9
    <3> QED
      BY <1>1, <2>1, <2>8, <3>1
  <2>11. IsInjective(pages)
    <3>1. DOMAIN pages = 1..Len(t.pages)
      BY <1>1, <2>2
    <3> QED
      BY <1>1, <2>1, <3>1 DEF IsInjective, Focused
  <2>12. n = Last(t.pages) => m = Last(pages)
    <3>1. Len(t.pages) \in 1..Len(t.pages)
      BY <1>1
    <3> QED
      BY <2>1, <2>2, <3>1 DEF Last
  <2>13. pages # << >>
    BY <1>1, <2>2
  <2> QED
    BY <2>4, <2>7, <2>10, <2>11, <2>12, <2>13 DEF Focused, Renamed, e
<1> QED
  BY <1>2, <1>3

-----------------------------------------------------------------------------
(* Going to a page, editing it, stepping through its history. *)
LEMMA GotoResult ==
    ASSUME NEW t \in Toplevel, NEW n \in Names
    PROVE  LET e == [t EXCEPT !.page_current = n]
           IN  e \in Toplevel /\ e.pages = t.pages /\ e.page_current = n
               /\ e.page = t.page
BY DEF Toplevel

Edited(t, cur, c, changed) ==
    [t EXCEPT !.page[cur].content = c, !.page[cur].CHANGED = changed]

LEMMA EditResult ==
    ASSUME NEW t \in Toplevel, NEW cur \in Names, NEW c \in Content,
           NEW changed \in BOOLEAN
    PROVE  LET e == Edited(t, cur, c, changed)
           IN  /\ e \in Toplevel /\ e.pages = t.pages
               /\ e.page_current = t.page_current
               /\ e.page[cur].content = c /\ e.page[cur].CHANGED = changed
               /\ e.page[cur].undo = t.page[cur].undo
               /\ e.page[cur].ops_since_last_backup =
                    t.page[cur].ops_since_last_backup
               /\ \A n \in Names : n # cur => e.page[n] = t.page[n]
<1> DEFINE new  == [t.page[cur] EXCEPT !.content = c, !.CHANGED = changed]
           page == [t.page EXCEPT ![cur] = new]
           e    == Edited(t, cur, c, changed)
<1>1. t.page \in [Names -> PAGE] /\ t.page[cur] \in PAGE
  BY ToplevelFields
<1>2. /\ new \in PAGE /\ new.content = c /\ new.CHANGED = changed
      /\ new.undo = t.page[cur].undo
      /\ new.ops_since_last_backup = t.page[cur].ops_since_last_backup
  BY <1>1 DEF PAGE
<1>3. e.pages = t.pages /\ e.page_current = t.page_current /\ e.page = page
  BY <1>1 DEF Edited, Toplevel, PAGE
<1>4. /\ page \in [Names -> PAGE] /\ page[cur] = new
      /\ \A n \in Names : n # cur => page[n] = t.page[n]
  BY <1>1, <1>2
<1> HIDE DEF new, page
<1>5. e \in Toplevel
  BY <1>3, <1>4 DEF Edited, Toplevel
<1> HIDE DEF e
<1> QED
  BY <1>2, <1>3, <1>4, <1>5 DEF e

Stepped(t, cur, s, c, changed) ==
    [t EXCEPT !.page[cur].undo = s, !.page[cur].content = c,
              !.page[cur].CHANGED = changed]

LEMMA StepResult ==
    ASSUME NEW t \in Toplevel, NEW cur \in Names, NEW s \in Stack,
           NEW c \in Content, NEW changed \in BOOLEAN
    PROVE  LET e == Stepped(t, cur, s, c, changed)
           IN  /\ e \in Toplevel /\ e.pages = t.pages
               /\ e.page_current = t.page_current
               /\ e.page[cur].content = c /\ e.page[cur].CHANGED = changed
               /\ e.page[cur].undo = s
               /\ \A n \in Names : n # cur => e.page[n] = t.page[n]
<1> DEFINE new  == [t.page[cur] EXCEPT !.undo = s, !.content = c, !.CHANGED = changed]
           page == [t.page EXCEPT ![cur] = new]
           e    == Stepped(t, cur, s, c, changed)
<1>1. t.page \in [Names -> PAGE] /\ t.page[cur] \in PAGE
  BY ToplevelFields
<1>2. /\ new \in PAGE /\ new.content = c /\ new.CHANGED = changed /\ new.undo = s
  BY <1>1 DEF PAGE
<1>3. e.pages = t.pages /\ e.page_current = t.page_current /\ e.page = page
  BY <1>1 DEF Stepped, Toplevel, PAGE
<1>4. /\ page \in [Names -> PAGE] /\ page[cur] = new
      /\ \A n \in Names : n # cur => page[n] = t.page[n]
  BY <1>1, <1>2
<1> HIDE DEF new, page
<1>5. e \in Toplevel
  BY <1>3, <1>4 DEF Stepped, Toplevel
<1> HIDE DEF e
<1> QED
  BY <1>2, <1>3, <1>4, <1>5 DEF e

(* Saving pages lowers their flags and marks the records of one page. *)
PagesWritten(t, e, list, cur) ==
    \A n \in Names :
        /\ e.page[n].content = t.page[n].content
        /\ e.page[n].CHANGED = (n \notin list /\ t.page[n].CHANGED)
        /\ e.page[n].ops_since_last_backup =
             (n \notin list /\ t.page[n].ops_since_last_backup)
        /\ e.page[n].undo = IF n = cur /\ list # {}
                            THEN UpdateModified(t.page[n].undo)
                            ELSE t.page[n].undo

LEMMA SaveResult ==
    ASSUME NEW t \in Toplevel, NEW list \in SUBSET Names, NEW cur
    PROVE  LET e == f_save(t, list, cur)
           IN  /\ e \in Toplevel /\ e.pages = t.pages
               /\ e.page_current = t.page_current
               /\ PagesWritten(t, e, list, cur)
<1> DEFINE lowered(p, n) ==
             IF n \in list
             THEN [p EXCEPT !.CHANGED = FALSE, !.ops_since_last_backup = FALSE,
                            !.do_autosave_backup = FALSE]
             ELSE p
           saved(n) == IF n = cur /\ list # {}
                       THEN [lowered(t.page[n], n) EXCEPT !.undo = UpdateModified(@)]
                       ELSE lowered(t.page[n], n)
           page == [n \in Names |-> saved(n)]
           e == f_save(t, list, cur)
<1>1. e = [t EXCEPT !.page = page]
  BY DEF f_save
<1>2. ASSUME NEW n \in Names
      PROVE  /\ lowered(t.page[n], n) \in PAGE
             /\ lowered(t.page[n], n).content = t.page[n].content
             /\ lowered(t.page[n], n).undo = t.page[n].undo
             /\ lowered(t.page[n], n).CHANGED = (n \notin list /\ t.page[n].CHANGED)
             /\ lowered(t.page[n], n).ops_since_last_backup =
                  (n \notin list /\ t.page[n].ops_since_last_backup)
  <2>1. t.page[n] \in PAGE
    BY ToplevelFields
  <2>2. t.page[n].CHANGED \in BOOLEAN /\ t.page[n].ops_since_last_backup \in BOOLEAN
    BY <2>1, PageFields
  <2>3. CASE n \in list
    BY <2>1, <2>3 DEF PAGE
  <2>4. CASE n \notin list
    BY <2>1, <2>2, <2>4
  <2> QED
    BY <2>3, <2>4
<1> HIDE DEF lowered
<1>3. ASSUME NEW n \in Names
      PROVE  /\ saved(n) \in PAGE
             /\ saved(n).content = t.page[n].content
             /\ saved(n).CHANGED = (n \notin list /\ t.page[n].CHANGED)
             /\ saved(n).ops_since_last_backup =
                  (n \notin list /\ t.page[n].ops_since_last_backup)
             /\ saved(n).undo = IF n = cur /\ list # {}
                                THEN UpdateModified(t.page[n].undo)
                                ELSE t.page[n].undo
  <2> DEFINE q == lowered(t.page[n], n)
  <2>1. /\ q \in PAGE /\ q.content = t.page[n].content /\ q.undo = t.page[n].undo
        /\ q.CHANGED = (n \notin list /\ t.page[n].CHANGED)
        /\ q.ops_since_last_backup =
             (n \notin list /\ t.page[n].ops_since_last_backup)
    BY <1>2
  <2>2. saved(n) = IF n = cur /\ list # {}
                   THEN [q EXCEPT !.undo = UpdateModified(@)] ELSE q
    OBVIOUS
  <2> HIDE DEF q, saved
  <2>3. CASE n = cur /\ list # {}
    <3>1. UpdateModified(q.undo) \in Stack
      BY <2>1, PageFields, UpdateModifiedResult
    <3> QED
      BY <2>1, <2>2, <2>3, <3>1 DEF PAGE
  <2>4. CASE ~(n = cur /\ list # {})
    BY <2>1, <2>2, <2>4
  <2> QED
    BY <2>3, <2>4
<1> HIDE DEF saved
<1>4. page \in [Names -> PAGE] /\ \A n \in Names : page[n] = saved(n)
  BY <1>3
<1> HIDE DEF page
<1>5. /\ e \in Toplevel /\ e.pages = t.pages /\ e.page_current = t.page_current
      /\ e.page = page
  BY <1>1, <1>4 DEF Toplevel
<1> HIDE DEF e
<1>6. PagesWritten(t, e, list, cur)
  BY <1>3, <1>4, <1>5 DEF PagesWritten
<1> QED
  BY <1>5, <1>6 DEF e

-----------------------------------------------------------------------------
(* Writing and removing files. *)
LEMMA RemoveBackupResult ==
    ASSUME NEW d \in Disk, NEW n \in Names
    PROVE  LET e == RemoveBackup(d, n)
           IN  /\ e \in Disk /\ e.file = d.file
               /\ e.backup[n] = NULL /\ e.newer[n] = FALSE
               /\ \A m \in Names : m # n =>
                    e.backup[m] = d.backup[m] /\ e.newer[m] = d.newer[m]
<1>1. d.backup \in [Names -> Content \cup {NULL}] /\ d.newer \in [Names -> BOOLEAN]
  BY DiskFields
<1> QED
  BY <1>1 DEF RemoveBackup, Disk

Written(d, n, c, e) ==
    /\ e \in Disk /\ e.backup = d.backup
    /\ e.file[n] = c /\ e.newer[n] = FALSE
    /\ \A m \in Names : m # n => e.file[m] = d.file[m] /\ e.newer[m] = d.newer[m]

LEMMA WriteFileResult ==
    ASSUME NEW d \in Disk, NEW n \in Names, NEW c \in Content
    PROVE  Written(d, n, c, WriteFile(d, n, c))
<1>1. d.file \in [Names -> Content \cup {NULL}] /\ d.newer \in [Names -> BOOLEAN]
  BY DiskFields
<1> QED
  BY <1>1 DEF WriteFile, Written, Disk

LEMMA WriteFilesResult ==
    ASSUME NEW d \in Disk, NEW list \in SUBSET Names, NEW page \in [Names -> PAGE]
    PROVE  LET e == WriteFiles(d, page, list)
           IN  /\ e \in Disk /\ e.backup = d.backup
               /\ \A n \in Names :
                    /\ e.file[n] = IF n \in list THEN page[n].content ELSE d.file[n]
                    /\ e.newer[n] = (d.newer[n] /\ n \notin list)
<1> DEFINE file  == [n \in Names |-> IF n \in list THEN page[n].content ELSE d.file[n]]
           newer == [n \in Names |-> d.newer[n] /\ n \notin list]
           e == WriteFiles(d, page, list)
<1>1. d.file \in [Names -> Content \cup {NULL}] /\ d.newer \in [Names -> BOOLEAN]
  BY DiskFields
<1>2. \A n \in Names : page[n].content \in Content
  BY PageFields
<1>3. /\ file \in [Names -> Content \cup {NULL}] /\ newer \in [Names -> BOOLEAN]
      /\ \A n \in Names :
           /\ file[n] = IF n \in list THEN page[n].content ELSE d.file[n]
           /\ newer[n] = (d.newer[n] /\ n \notin list)
  BY <1>1, <1>2
<1>4. e = [d EXCEPT !.file = file, !.newer = newer]
  BY DEF WriteFiles
<1> HIDE DEF file, newer
<1>5. e \in Disk /\ e.backup = d.backup /\ e.file = file /\ e.newer = newer
  BY <1>3, <1>4 DEF Disk
<1> HIDE DEF e
<1> QED
  BY <1>3, <1>5 DEF e

(* The window closes: no page is open any more, and the backups are gone. *)
WithoutBackups(d, closed) ==
    [d EXCEPT !.backup = [n \in Names |-> IF n \in closed THEN NULL ELSE @[n]],
              !.newer = [n \in Names |-> @[n] /\ n \notin closed]]

LEMMA WithoutBackupsResult ==
    ASSUME NEW d \in Disk, NEW closed
    PROVE  LET e == WithoutBackups(d, closed)
           IN  /\ e \in Disk /\ e.file = d.file
               /\ \A n \in Names :
                    /\ e.backup[n] = IF n \in closed THEN NULL ELSE d.backup[n]
                    /\ e.newer[n] = (d.newer[n] /\ n \notin closed)
<1> DEFINE backup == [n \in Names |-> IF n \in closed THEN NULL ELSE d.backup[n]]
           newer  == [n \in Names |-> d.newer[n] /\ n \notin closed]
           e == WithoutBackups(d, closed)
<1>1. d.backup \in [Names -> Content \cup {NULL}] /\ d.newer \in [Names -> BOOLEAN]
  BY DiskFields
<1>2. /\ backup \in [Names -> Content \cup {NULL}] /\ newer \in [Names -> BOOLEAN]
      /\ \A n \in Names :
           /\ backup[n] = IF n \in closed THEN NULL ELSE d.backup[n]
           /\ newer[n] = (d.newer[n] /\ n \notin closed)
  BY <1>1
<1>3. e = [d EXCEPT !.backup = backup, !.newer = newer]
  BY DEF WithoutBackups
<1> HIDE DEF backup, newer
<1>4. e \in Disk /\ e.file = d.file /\ e.backup = backup /\ e.newer = newer
  BY <1>2, <1>3 DEF Disk
<1> HIDE DEF e
<1> QED
  BY <1>2, <1>4 DEF e

LEMMA StartedResult ==
    /\ Started \in Toplevel /\ Started.pages = << >> /\ Open(Started) = {}
    /\ Started.page_current = NULL
    /\ Focused(Started)
    /\ \A n \in Names : Started.page[n] = NewPage(Empty, FALSE)
<1>1. NewPage(Empty, FALSE) \in PAGE
  BY NewPageFields
<1>2. << >> \in Seq(Names) /\ 0 \in 0..(CheckEvery - 1)
  OBVIOUS
<1>3. Started \in Toplevel /\ Started.pages = << >> /\ Started.page_current = NULL
  BY <1>1, <1>2, ToplevelIntro DEF Started
<1>4. \A n \in Names : Started.page[n] = NewPage(Empty, FALSE)
  BY DEF Started
<1>5. Open(Started) = {}
  BY <1>3, OpenPages
<1>6. IsInjective(Started.pages)
  <2>1. DOMAIN Started.pages = {}
    BY <1>3
  <2> QED
    BY <2>1 DEF IsInjective
<1> QED
  BY <1>3, <1>4, <1>5, <1>6 DEF Focused

-----------------------------------------------------------------------------
(* What the settings and the user's habits rule out.                        *)

(* The page an edit changes is the page whose state is saved: the autosave  *)
(* is off, or no command goes to an earlier page of the list, so that the   *)
(* last page, at which o_save_auto_backup leaves page_current, is the one   *)
(* that was edited.                                                         *)
OneAtATime == AutoSave => "goto" \notin UserActs

(* The records that a save marks are those of the page that was saved.      *)
OwnRecordsMarked ==
    "undo" \in UserActs => "save_many" \notin UserActs /\ OneAtATime

(* Pages change by edits alone while the autosave watches them. *)
Watched == AutoSave /\ OneAtATime /\ "undo" \notin UserActs

FileOf(d, n) == IF d.file[n] = NULL THEN Empty ELSE d.file[n]

(* Each record can be restored from its undo file, to what the page held. *)
Restorable(s) ==
    \A i \in 1..Len(s.list) :
        s.list[i].type = "UNDO_ALL" /\ s.list[i].filename = s.list[i].page

Matches(s, c) == s.current # 0 => s.list[s.current].page = c

(* A record that is not marked as modified is what the file f holds. *)
Clean(s, f) ==
    \A i \in 1..Len(s.list) : ~s.list[i].modified => s.list[i].page = f

(* What holds of page n, open or not, of the toplevel t and the disk d.  A  *)
(* page `but' that is being edited has no record of what it holds yet, and  *)
(* no operation counted.                                                    *)
PageHolds(t, d, n, but) ==
    /\ Restorable(t.page[n].undo)
    /\ t.page[n].ops_since_last_backup => AutoSave
    /\ OneAtATime /\ n # but => Matches(t.page[n].undo, t.page[n].content)
    /\ n \in Open(t) /\ OwnRecordsMarked =>
          /\ ~t.page[n].CHANGED => t.page[n].content = FileOf(d, n)
          /\ "undo" \in UserActs => Clean(t.page[n].undo, FileOf(d, n))
    /\ n \in Open(t) /\ n # but /\ Watched =>
          \/ ~t.page[n].CHANGED \/ t.page[n].ops_since_last_backup
          \/ d.newer[n] /\ d.backup[n] = t.page[n].content

Holds(t, d, but) ==
    /\ t \in Toplevel /\ d \in Disk
    /\ IsInjective(t.pages)
    /\ \A n \in Names : PageHolds(t, d, n, but)

(* Without the command that goes to any page, the last one of the list is   *)
(* current: pages are added at the end, and closing goes to the one before. *)
Located(t) ==
    t.pages # << >> => /\ t.page_current \in Open(t)
                       /\ "goto" \notin UserActs => t.page_current = Last(t.pages)

Inv ==
    /\ Holds(toplevel, disk, NULL)
    /\ Located(toplevel)
    /\ since \in [Names -> SUBSET Content]
    /\ BackupHoldsUnsavedWork

-----------------------------------------------------------------------------
(* The records of one page. *)
LEMMA RecordOnDisk ==
    ASSUME NEW c \in Content, NEW changed \in BOOLEAN
    PROVE  LET u == NewRecord("DISK", "UNDO_ALL", c, changed)
           IN  u.type = "UNDO_ALL" /\ u.filename = c /\ u.page = c
               /\ u.modified = changed
BY DEF NewRecord

LEMMA RecordedKeeps ==
    ASSUME NEW s \in Stack, NEW e \in Stack, NEW c \in Content,
           NEW changed \in BOOLEAN, Restorable(s),
           Recorded(s, e, NewRecord("DISK", "UNDO_ALL", c, changed))
    PROVE  /\ Restorable(e) /\ Matches(e, c)
           /\ \A f : Clean(s, f) /\ (~changed => c = f) => Clean(e, f)
<1> DEFINE u == NewRecord("DISK", "UNDO_ALL", c, changed)
<1>1. /\ u.type = "UNDO_ALL" /\ u.filename = c /\ u.page = c
      /\ u.modified = changed
  BY RecordOnDisk
<1> HIDE DEF u
<1>2. PICK k \in 0..s.current :
        /\ Len(e.list) = s.current + 1 - k
        /\ e.current = s.current + 1 - k
        /\ \A i \in 1..(s.current - k) : e.list[i] = s.list[i + k]
        /\ e.list[s.current + 1 - k] = u
  BY DEF Recorded, u
<1>3. s.current \in Nat /\ s.current <= Len(s.list) /\ Len(s.list) \in Nat
  BY StackFields
<1>4. ASSUME NEW i \in 1..Len(e.list)
      PROVE  \/ e.list[i] = u
             \/ \E j \in 1..Len(s.list) : e.list[i] = s.list[j]
  <2>1. i = s.current + 1 - k \/ i \in 1..(s.current - k)
    BY <1>2, <1>3
  <2>2. CASE i \in 1..(s.current - k)
    <3>1. i + k \in 1..Len(s.list)
      BY <1>2, <1>3, <2>2
    <3> QED
      BY <1>2, <2>2, <3>1
  <2> QED
    BY <1>2, <2>1, <2>2
<1>5. Restorable(e)
  BY <1>1, <1>4 DEF Restorable
<1>6. Matches(e, c)
  BY <1>1, <1>2 DEF Matches
<1>7. ASSUME NEW f, Clean(s, f), ~changed => c = f
      PROVE  Clean(e, f)
  BY <1>1, <1>4, <1>7 DEF Clean
<1> QED
  BY <1>5, <1>6, <1>7

LEMMA MarkedKeeps ==
    ASSUME NEW s \in Stack, Restorable(s)
    PROVE  LET e == UpdateModified(s)
           IN  /\ Restorable(e)
               /\ \A c : Matches(s, c) => Matches(e, c) /\ Clean(e, c)
<1> DEFINE e == UpdateModified(s)
<1>1. /\ e \in Stack /\ e.current = s.current /\ Len(e.list) = Len(s.list)
      /\ \A i \in 1..Len(s.list) :
            e.list[i] = [s.list[i] EXCEPT !.modified = (i # s.current)]
  BY UpdateModifiedResult
<1> HIDE DEF e
<1>2. ASSUME NEW i \in 1..Len(s.list)
      PROVE  /\ e.list[i].type = s.list[i].type
             /\ e.list[i].filename = s.list[i].filename
             /\ e.list[i].page = s.list[i].page
             /\ e.list[i].modified = (i # s.current)
  <2>1. s.list[i] \in UNDO
    BY StackFields
  <2> DEFINE b == (i # s.current)
  <2>2. b \in BOOLEAN /\ e.list[i] = [s.list[i] EXCEPT !.modified = b]
    BY <1>1
  <2> HIDE DEF b
  <2>3. /\ e.list[i].type = s.list[i].type
        /\ e.list[i].filename = s.list[i].filename
        /\ e.list[i].page = s.list[i].page
        /\ e.list[i].modified = b
    BY <2>1, <2>2 DEF UNDO
  <2> QED
    BY <2>3 DEF b
<1>3. Restorable(e)
  BY <1>1, <1>2 DEF Restorable
<1>4. s.current # 0 => s.current \in 1..Len(s.list)
  BY StackFields
<1>5. ASSUME NEW c, Matches(s, c)
      PROVE  Matches(e, c) /\ Clean(e, c)
  <2>1. Matches(e, c)
    BY <1>1, <1>2, <1>4, <1>5 DEF Matches
  <2>2. ASSUME NEW i \in 1..Len(s.list), ~e.list[i].modified
        PROVE  e.list[i].page = c
    <3>1. i = s.current
      BY <1>2, <2>2, Zenon
    <3>2. i # 0
      OBVIOUS
    <3> QED
      BY <1>2, <1>5, <3>1, <3>2 DEF Matches
  <2> QED
    BY <1>1, <2>1, <2>2 DEF Clean
<1> QED
  BY <1>3, <1>5 DEF e

LEMMA StepRestores ==
    ASSUME NEW s \in Stack, Restorable(s), NEW target \in 1..Len(s.list)
    PROVE  /\ StepTo(s, target) \in Stack
           /\ StepTo(s, target).list = s.list
           /\ StepTo(s, target).current = target
           /\ RestoredFrom(s, target, "DISK") = s.list[target].page
<1>1. ~Borrows(s, target)
  BY DEF Borrows, Restorable
<1>2. RestoredFrom(s, target, "DISK") = s.list[target].filename
  BY <1>1 DEF RestoredFrom, Stored
<1> QED
  BY <1>1, <1>2, StepToResult DEF Restorable

LEMMA NothingRecorded ==
    /\ Restorable(NoUndo) /\ \A c : Matches(NoUndo, c) /\ Clean(NoUndo, c)
<1>1. Len(NoUndo.list) = 0 /\ NoUndo.current = 0
  BY DEF NoUndo
<1> QED
  BY <1>1 DEF Restorable, Matches, Clean

-----------------------------------------------------------------------------
(* A page that an operation leaves alone. *)
SamePage(p, q) ==
    /\ p.content = q.content /\ p.CHANGED = q.CHANGED /\ p.undo = q.undo
    /\ p.ops_since_last_backup = q.ops_since_last_backup

LEMMA PageSame ==
    ASSUME NEW t, NEW d, NEW e, NEW f, NEW n, NEW but, NEW other,
           PageHolds(t, d, n, but), SamePage(e.page[n], t.page[n]),
           n = but => n = other,
           n \in Open(e) => /\ n \in Open(t)
                            /\ f.file[n] = d.file[n] /\ f.backup[n] = d.backup[n]
                            /\ d.newer[n] => f.newer[n]
    PROVE  PageHolds(e, f, n, other)
<1>1. /\ Restorable(e.page[n].undo)
      /\ e.page[n].ops_since_last_backup => AutoSave
      /\ OneAtATime /\ n # other => Matches(e.page[n].undo, e.page[n].content)
  BY Zenon DEF PageHolds, SamePage
<1>2. ASSUME n \in Open(e), OwnRecordsMarked
      PROVE  /\ ~e.page[n].CHANGED => e.page[n].content = FileOf(f, n)
             /\ "undo" \in UserActs => Clean(e.page[n].undo, FileOf(f, n))
  <2>1. FileOf(f, n) = FileOf(d, n)
    BY <1>2 DEF FileOf
  <2> QED
    BY <1>2, <2>1, Zenon DEF PageHolds, SamePage
<1>3. ASSUME n \in Open(e), n # other, Watched
      PROVE  \/ ~e.page[n].CHANGED \/ e.page[n].ops_since_last_backup
             \/ f.newer[n] /\ f.backup[n] = e.page[n].content
  BY <1>3, Zenon DEF PageHolds, SamePage
<1> QED
  BY <1>1, <1>2, <1>3, Zenon DEF PageHolds

LEMMA HoldsFields ==
    ASSUME NEW t, NEW d, NEW but, Holds(t, d, but), Located(t)
    PROVE  /\ t \in Toplevel /\ d \in Disk /\ Focused(t)
           /\ \A n \in Names : PageHolds(t, d, n, but)
BY DEF Holds, Located, Focused

(* Where the state is saved when one page at a time is worked on. *)
LEMMA SavedWhereEdited ==
    ASSUME NEW t, NEW d, NEW but, Holds(t, d, but), Located(t), t.pages # << >>,
           OneAtATime
    PROVE  (IF Due(t) = {} THEN t.page_current ELSE Last(t.pages)) = t.page_current
<1> SUFFICES ASSUME Due(t) # {}
             PROVE  t.page_current = Last(t.pages)
  OBVIOUS
<1>1. PICK n \in Open(t) : t.page[n].ops_since_last_backup
  BY DEF Due
<1>2. n \in Names
  BY OpenPages DEF Holds
<1>3. PageHolds(t, d, n, but)
  BY <1>2 DEF Holds
<1>4. AutoSave
  BY <1>1, <1>3 DEF PageHolds
<1> QED
  BY <1>4 DEF OneAtATime, Located

LEMMA SavestateHolds ==
    ASSUME NEW t, NEW d, Holds(t, d, t.page_current), Located(t), t.pages # << >>,
           o_undo_savestate(t, d)
    PROVE  /\ Holds(toplevel', disk', NULL) /\ Located(toplevel')
           /\ Open(toplevel') = Open(t)
           /\ \A n \in Names : toplevel'.page[n].content = t.page[n].content
           /\ \A n \in Names :
                \/ disk'.backup[n] = d.backup[n] /\ disk'.newer[n] = d.newer[n]
                \/ n \in Open(t) /\ disk'.backup[n] = t.page[n].content
<1> DEFINE cur == toplevel'.page_current
<1>1. /\ t \in Toplevel /\ d \in Disk /\ Focused(t)
      /\ \A n \in Names : PageHolds(t, d, n, t.page_current)
  BY HoldsFields
<1>2. /\ toplevel' \in Toplevel /\ disk' \in Disk
      /\ toplevel'.pages = t.pages /\ Open(toplevel') = Open(t)
      /\ cur = IF Due(t) = {} THEN t.page_current ELSE Last(t.pages)
      /\ cur \in Open(t) /\ cur \in Names /\ Focused(toplevel')
      /\ \A n \in Names :
           /\ toplevel'.page[n].content = t.page[n].content
           /\ toplevel'.page[n].CHANGED = t.page[n].CHANGED
           /\ n # cur => toplevel'.page[n].undo = t.page[n].undo
           /\ toplevel'.page[n].ops_since_last_backup =
                \/ t.page[n].ops_since_last_backup /\ n \notin Due(t)
                \/ n = cur /\ AutoSave
      /\ Recorded(t.page[cur].undo, toplevel'.page[cur].undo,
                  NewRecord("DISK", "UNDO_ALL", t.page[cur].content,
                            t.page[cur].CHANGED))
      /\ disk'.file = d.file
      /\ \A n \in Names :
           /\ disk'.backup[n] = IF n \in Due(t) THEN t.page[n].content
                                ELSE d.backup[n]
           /\ disk'.newer[n] = (d.newer[n] \/ n \in Due(t))
  BY <1>1, SavestateStep
<1>3. OneAtATime => cur = t.page_current
  BY <1>2, SavedWhereEdited
<1> HIDE DEF cur
<1>4. /\ t.page[cur] \in PAGE /\ toplevel'.page[cur] \in PAGE
      /\ t.page[cur].undo \in Stack /\ toplevel'.page[cur].undo \in Stack
      /\ t.page[cur].content \in Content /\ t.page[cur].CHANGED \in BOOLEAN
  BY <1>1, <1>2, ToplevelFields, PageFields
<1>5. Restorable(t.page[cur].undo)
  BY <1>1, <1>2 DEF PageHolds
<1>6. /\ Restorable(toplevel'.page[cur].undo)
      /\ Matches(toplevel'.page[cur].undo, t.page[cur].content)
      /\ \A f : Clean(t.page[cur].undo, f) /\ (~t.page[cur].CHANGED => t.page[cur].content = f)
                => Clean(toplevel'.page[cur].undo, f)
  <2> DEFINE before == t.page[cur].undo
             after  == toplevel'.page[cur].undo
             c      == t.page[cur].content
             ch     == t.page[cur].CHANGED
  <2>1. /\ before \in Stack /\ after \in Stack /\ c \in Content /\ ch \in BOOLEAN
        /\ Restorable(before)
        /\ Recorded(before, after, NewRecord("DISK", "UNDO_ALL", c, ch))
    BY <1>2, <1>4, <1>5
  <2> HIDE DEF before, after, c, ch
  <2>2. /\ Restorable(after) /\ Matches(after, c)
        /\ \A f : Clean(before, f) /\ (~ch => c = f) => Clean(after, f)
    BY <2>1, RecordedKeeps, Zenon
  <2> QED
    BY <2>2 DEF before, after, c, ch
<1>7. ASSUME NEW n \in Names
      PROVE  PageHolds(toplevel', disk', n, NULL)
  <2>1. PageHolds(t, d, n, t.page_current)
    BY <1>1
  <2>2. /\ toplevel'.page[n].content = t.page[n].content
        /\ toplevel'.page[n].CHANGED = t.page[n].CHANGED
        /\ n # cur => toplevel'.page[n].undo = t.page[n].undo
    BY <1>2
  <2>3. toplevel'.page[n].ops_since_last_backup =
           (\/ t.page[n].ops_since_last_backup /\ n \notin Due(t)
            \/ n = cur /\ AutoSave)
    BY <1>2
  <2>4. Restorable(toplevel'.page[n].undo)
    BY <1>6, <2>1, <2>2 DEF PageHolds
  <2>5. toplevel'.page[n].ops_since_last_backup => AutoSave
    BY <2>1, <2>3, Zenon DEF PageHolds
  <2>6. ASSUME OneAtATime
        PROVE  Matches(toplevel'.page[n].undo, toplevel'.page[n].content)
    <3>1. CASE n = cur
      BY <1>6, <2>2, <3>1
    <3>2. CASE n # cur
      BY <1>3, <2>1, <2>2, <2>6, <3>2 DEF PageHolds
    <3> QED
      BY <3>1, <3>2
  <2>7. ASSUME n \in Open(toplevel'), OwnRecordsMarked
        PROVE  /\ ~toplevel'.page[n].CHANGED =>
                     toplevel'.page[n].content = FileOf(disk', n)
               /\ "undo" \in UserActs =>
                     Clean(toplevel'.page[n].undo, FileOf(disk', n))
    <3>1. FileOf(disk', n) = FileOf(d, n)
      BY <1>2 DEF FileOf
    <3>2. /\ ~t.page[n].CHANGED => t.page[n].content = FileOf(d, n)
          /\ "undo" \in UserActs => Clean(t.page[n].undo, FileOf(d, n))
      BY <1>2, <2>1, <2>7, Zenon DEF PageHolds
    <3>3. "undo" \in UserActs => Clean(toplevel'.page[n].undo, FileOf(d, n))
      <4>1. CASE n = cur
        BY <1>6, <3>2, <4>1, Zenon
      <4>2. CASE n # cur
        BY <2>2, <3>2, <4>2
      <4> QED
        BY <4>1, <4>2
    <3> QED
      BY <2>2, <3>1, <3>2, <3>3
  <2>8. ASSUME n \in Open(toplevel'), Watched
        PROVE  \/ ~toplevel'.page[n].CHANGED
               \/ toplevel'.page[n].ops_since_last_backup
               \/ /\ disk'.newer[n]
                  /\ disk'.backup[n] = toplevel'.page[n].content
    <3>1. AutoSave /\ cur = t.page_current
      BY <1>3, <2>8 DEF Watched
    <3>2. CASE n = cur
      <4>1. toplevel'.page[n].ops_since_last_backup
        BY <2>3, <3>1, <3>2, Zenon
      <4> QED
        BY <4>1
    <3>3. CASE n \in Due(t)
      <4>1. disk'.newer[n] /\ disk'.backup[n] = t.page[n].content
        BY <1>2, <3>3
      <4> QED
        BY <2>2, <4>1
    <3>4. CASE n # cur /\ n \notin Due(t)
      <4>1. \/ ~t.page[n].CHANGED \/ t.page[n].ops_since_last_backup
            \/ d.newer[n] /\ d.backup[n] = t.page[n].content
        BY <1>2, <2>1, <2>8, <3>1, <3>4, Zenon DEF PageHolds
      <4>2. d.newer[n] => disk'.newer[n]
        BY <1>2
      <4>3. disk'.backup[n] = d.backup[n]
        BY <1>2, <3>4
      <4>4. t.page[n].ops_since_last_backup => toplevel'.page[n].ops_since_last_backup
        BY <2>3, <3>4, Zenon
      <4> QED
        BY <2>2, <4>1, <4>2, <4>3, <4>4, Zenon
    <3> QED
      BY <3>2, <3>3, <3>4
  <2> QED
    BY <2>4, <2>5, <2>6, <2>7, <2>8, Zenon DEF PageHolds
<1>8. Holds(toplevel', disk', NULL)
  BY <1>2, <1>7 DEF Holds, Focused
<1>9. Located(toplevel')
  <2>1. "goto" \notin UserActs => OneAtATime
    BY DEF OneAtATime
  <2> QED
    BY <1>2, <1>3, <2>1 DEF Located, cur
<1>10. ASSUME NEW n \in Names
       PROVE  \/ disk'.backup[n] = d.backup[n] /\ disk'.newer[n] = d.newer[n]
              \/ n \in Open(t) /\ disk'.backup[n] = t.page[n].content
  <2>1. CASE n \in Due(t)
    BY <1>2, <2>1 DEF Due
  <2>2. CASE n \notin Due(t)
    <3>1. d.newer[n] \in BOOLEAN
      BY <1>1, DiskFields
    <3> QED
      BY <1>2, <2>2, <3>1
  <2> QED
    BY <2>1, <2>2
<1> HIDE DEF o_undo_savestate
<1> QED
  BY <1>2, <1>8, <1>9, <1>10

-----------------------------------------------------------------------------
(* A page that is not open and has no history. *)
LEMMA BlankHolds ==
    ASSUME NEW e, NEW f, NEW n, NEW but, n \notin Open(e),
           e.page[n] = NewPage(Empty, FALSE)
    PROVE  PageHolds(e, f, n, but)
<1>1. /\ e.page[n].undo = NoUndo
      /\ e.page[n].ops_since_last_backup = FALSE
  BY NewPageFields
<1> QED
  BY <1>1, NothingRecorded, Zenon DEF PageHolds

(* A page that was just saved. *)
LEMMA SavedHolds ==
    ASSUME NEW t, NEW d, NEW e, NEW f, NEW n, NEW x, NEW but,
           PageHolds(t, d, n, NULL), n # NULL, t.page[n] \in PAGE,
           e.page[x].content = t.page[n].content,
           e.page[x].CHANGED = FALSE, e.page[x].ops_since_last_backup = FALSE,
           e.page[x].undo = UpdateModified(t.page[n].undo),
           FileOf(f, x) = t.page[n].content
    PROVE  PageHolds(e, f, x, but)
<1> DEFINE s == t.page[n].undo
           c == t.page[n].content
<1>1. s \in Stack /\ Restorable(s) /\ (OneAtATime => Matches(s, c))
  BY PageFields, Zenon DEF PageHolds
<1>2. /\ e.page[x].undo = UpdateModified(s) /\ e.page[x].content = c
      /\ FileOf(f, x) = c
  OBVIOUS
<1> HIDE DEF s, c
<1>3. /\ Restorable(e.page[x].undo)
      /\ OneAtATime => /\ Matches(e.page[x].undo, c)
                       /\ Clean(e.page[x].undo, c)
  BY <1>1, <1>2, MarkedKeeps, Zenon
<1>4. OwnRecordsMarked /\ "undo" \in UserActs => OneAtATime
  BY Zenon DEF OwnRecordsMarked
<1> QED
  BY <1>2, <1>3, <1>4, Zenon DEF PageHolds

LEMMA Exempt ==
    ASSUME NEW t, NEW d, NEW but, Holds(t, d, NULL)
    PROVE  Holds(t, d, but)
<1>1. ASSUME NEW n \in Names
      PROVE  PageHolds(t, d, n, but)
  <2>1. PageHolds(t, d, n, NULL) /\ n # NULL
    BY DEF Holds
  <2>2. SamePage(t.page[n], t.page[n])
    BY DEF SamePage
  <2> QED
    BY <2>1, <2>2, PageSame
<1> QED
  BY <1>1 DEF Holds

(* Files and backups of other names may change. *)
LEMMA OtherFiles ==
    ASSUME NEW t, NEW d, NEW but, Holds(t, d, but), NEW f \in Disk,
           \A n \in Open(t) :
              /\ f.file[n] = d.file[n] /\ f.backup[n] = d.backup[n]
              /\ f.newer[n] = d.newer[n]
    PROVE  Holds(t, f, but)
<1>1. ASSUME NEW n \in Names
      PROVE  PageHolds(t, f, n, but)
  <2>1. PageHolds(t, d, n, but)
    BY DEF Holds
  <2>2. SamePage(t.page[n], t.page[n])
    BY DEF SamePage
  <2> QED
    BY <2>1, <2>2, PageSame
<1> QED
  BY <1>1 DEF Holds

(* The toplevel with the same pages, whichever of them is current. *)
LEMMA SamePages ==
    ASSUME NEW t, NEW d, NEW but, Holds(t, d, but), NEW e \in Toplevel,
           e.pages = t.pages, e.page = t.page
    PROVE  Holds(e, d, but) /\ Open(e) = Open(t)
<1>1. Open(e) = Open(t)
  BY DEF Open
<1>2. ASSUME NEW n \in Names
      PROVE  PageHolds(e, d, n, but)
  <2>1. PageHolds(t, d, n, but)
    BY DEF Holds
  <2>2. SamePage(e.page[n], t.page[n])
    BY DEF SamePage
  <2> QED
    BY <1>1, <2>1, <2>2, PageSame
<1> QED
  BY <1>1, <1>2 DEF Holds

LEMMA StartedHolds ==
    ASSUME NEW d \in Disk
    PROVE  Holds(Started, d, NULL) /\ Located(Started)
<1>1. \A n \in Names : PageHolds(Started, d, n, NULL)
  BY StartedResult, BlankHolds
<1> QED
  BY <1>1, StartedResult DEF Holds, Focused, Located

(* A page is opened, as its file is or marked as changed. *)
LEMMA EnterHolds ==
    ASSUME NEW t, NEW d, Holds(t, d, NULL), Located(t), NEW n \in Names \ Open(t),
           NEW c \in Content, NEW changed \in BOOLEAN,
           ~changed => c = FileOf(d, n)
    PROVE  LET e == AddPage(t, n, NewPage(c, changed))
           IN  /\ Holds(e, d, e.page_current) /\ Located(e) /\ e.pages # << >>
               /\ Open(e) = Open(t) \cup {n}
<1> DEFINE p == NewPage(c, changed)
           e == AddPage(t, n, p)
<1>1. /\ t \in Toplevel /\ d \in Disk /\ Focused(t)
      /\ \A m \in Names : PageHolds(t, d, m, NULL)
  BY HoldsFields
<1>2. /\ p \in PAGE /\ p.content = c /\ p.CHANGED = changed
      /\ p.ops_since_last_backup = FALSE /\ p.undo = NoUndo
  BY NewPageFields
<1> HIDE DEF p
<1>3. /\ e \in Toplevel /\ Focused(e) /\ e.pages # << >>
      /\ Open(e) = Open(t) \cup {n} /\ e.page_current = n /\ Last(e.pages) = n
      /\ e.page = [t.page EXCEPT ![n] = p]
  BY <1>1, <1>2, AddPageResult
<1> HIDE DEF e
<1>4. e.page[n] = p /\ \A m \in Names : m # n => e.page[m] = t.page[m]
  BY <1>1, <1>3, ToplevelFields
<1>5. PageHolds(e, d, n, n)
  <2>1. /\ Restorable(p.undo) /\ \A f : Clean(p.undo, f)
    BY <1>2, NothingRecorded
  <2>2. ~p.CHANGED => p.content = FileOf(d, n)
    BY <1>2
  <2> QED
    BY <1>2, <1>4, <2>1, <2>2, Zenon DEF PageHolds
<1>6. ASSUME NEW m \in Names, m # n
      PROVE  PageHolds(e, d, m, n)
  <2>1. PageHolds(t, d, m, NULL) /\ m # NULL
    BY <1>1
  <2>2. SamePage(e.page[m], t.page[m])
    BY <1>4, <1>6 DEF SamePage
  <2>3. m \in Open(e) => m \in Open(t)
    BY <1>3, <1>6
  <2> QED
    BY <2>1, <2>2, <2>3, PageSame
<1>7. \A m \in Names : PageHolds(e, d, m, n)
  BY <1>5, <1>6
<1>8. Holds(e, d, e.page_current)
  BY <1>1, <1>3, <1>7 DEF Holds, Focused
<1>9. Located(e)
  BY <1>3 DEF Located
<1> QED
  BY <1>3, <1>8, <1>9 DEF e, p

(* Going to an open page. *)
LEMMA GotoHolds ==
    ASSUME NEW t, NEW d, Holds(t, d, NULL), NEW n \in Open(t), "goto" \in UserActs
    PROVE  LET e == [t EXCEPT !.page_current = n]
           IN  Holds(e, d, NULL) /\ Located(e) /\ Open(e) = Open(t)
               /\ e.page = t.page /\ e.pages = t.pages
<1> DEFINE e == [t EXCEPT !.page_current = n]
<1>1. t \in Toplevel /\ n \in Names
  BY OpenPages DEF Holds
<1>2. e \in Toplevel /\ e.pages = t.pages /\ e.page_current = n /\ e.page = t.page
  BY <1>1, GotoResult
<1> HIDE DEF e
<1>3. Holds(e, d, NULL) /\ Open(e) = Open(t)
  BY <1>2, SamePages
<1> QED
  BY <1>2, <1>3 DEF Located, e

(* The current page is edited. *)
LEMMA EditHolds ==
    ASSUME NEW t, NEW d, Holds(t, d, NULL), Located(t), t.pages # << >>,
           NEW c \in Content, NEW changed \in BOOLEAN,
           changed = TRUE \/ changed = t.page[t.page_current].CHANGED,
           c # t.page[t.page_current].content => changed
    PROVE  LET e == Edited(t, t.page_current, c, changed)
           IN  /\ Holds(e, d, e.page_current) /\ Located(e) /\ e.pages # << >>
               /\ Open(e) = Open(t)
<1> DEFINE cur == t.page_current
           e == Edited(t, t.page_current, c, changed)
<1>1. /\ t \in Toplevel /\ d \in Disk /\ cur \in Open(t) /\ cur \in Names
      /\ \A n \in Names : PageHolds(t, d, n, NULL) /\ n # NULL
  BY OpenPages DEF Holds, Located
<1>2. /\ e \in Toplevel /\ e.pages = t.pages
      /\ e.page_current = cur
      /\ e.page[cur].content = c /\ e.page[cur].CHANGED = changed
      /\ e.page[cur].undo = t.page[cur].undo
      /\ e.page[cur].ops_since_last_backup = t.page[cur].ops_since_last_backup
      /\ \A n \in Names : n # cur => e.page[n] = t.page[n]
  BY <1>1, EditResult
<1>3. c # t.page[cur].content => changed
  OBVIOUS
<1>4. changed = TRUE \/ changed = t.page[cur].CHANGED
  OBVIOUS
<1> HIDE DEF e, cur
<1>5. Open(e) = Open(t)
  BY <1>2 DEF Open
<1>6. PageHolds(e, d, cur, cur)
  <2>1. PageHolds(t, d, cur, NULL) /\ cur # NULL
    BY <1>1
  <2>2. /\ Restorable(e.page[cur].undo)
        /\ e.page[cur].ops_since_last_backup => AutoSave
    BY <1>2, <2>1, Zenon DEF PageHolds
  <2>3. ASSUME OwnRecordsMarked
        PROVE  /\ ~e.page[cur].CHANGED => e.page[cur].content = FileOf(d, cur)
               /\ "undo" \in UserActs => Clean(e.page[cur].undo, FileOf(d, cur))
    <3>1. /\ ~t.page[cur].CHANGED => t.page[cur].content = FileOf(d, cur)
          /\ "undo" \in UserActs => Clean(t.page[cur].undo, FileOf(d, cur))
      BY <1>1, <2>1, <2>3, Zenon DEF PageHolds
    <3> QED
      BY <1>2, <1>3, <1>4, <3>1, Zenon
  <2> QED
    BY <2>2, <2>3, Zenon DEF PageHolds
<1>7. ASSUME NEW n \in Names, n # cur
      PROVE  PageHolds(e, d, n, cur)
  <2>1. PageHolds(t, d, n, NULL) /\ n # NULL
    BY <1>1
  <2>2. SamePage(e.page[n], t.page[n])
    BY <1>2, <1>7 DEF SamePage
  <2> QED
    BY <1>5, <2>1, <2>2, PageSame
<1>8. Holds(e, d, e.page_current)
  BY <1>1, <1>2, <1>6, <1>7 DEF Holds
<1>9. Located(e) /\ e.pages # << >>
  BY <1>2, <1>5 DEF Located, cur
<1> QED
  BY <1>5, <1>8, <1>9 DEF e

(* The current page takes the state of a record. *)
LEMMA StepHolds ==
    ASSUME NEW t, NEW d, Holds(t, d, NULL), Located(t), t.pages # << >>,
           "undo" \in UserActs, NEW s, s = t.page[t.page_current].undo,
           NEW target \in 1..Len(s.list)
    PROVE  LET e == Stepped(t, t.page_current, StepTo(s, target),
                            RestoredFrom(s, target, "DISK"), s.list[target].modified)
           IN  Holds(e, d, NULL) /\ Located(e) /\ Open(e) = Open(t)
<1> DEFINE cur == t.page_current
           c == s.list[target].page
           m == s.list[target].modified
           after == StepTo(s, target)
           v == RestoredFrom(s, target, "DISK")
           e == Stepped(t, cur, after, v, m)
<1>1. /\ t \in Toplevel /\ d \in Disk /\ cur \in Open(t) /\ cur \in Names
      /\ \A n \in Names : PageHolds(t, d, n, NULL) /\ n # NULL
  BY OpenPages DEF Holds, Located
<1>2. s \in Stack /\ Restorable(s)
  BY <1>1, ToplevelFields, PageFields, Zenon DEF PageHolds
<1>3. /\ after \in Stack /\ after.list = s.list
      /\ after.current = target /\ v = c
  BY <1>2, StepRestores
<1>4. c \in Content /\ m \in BOOLEAN
  BY <1>2, StackFields, RecordFields
<1>5. s = t.page[cur].undo
  OBVIOUS
<1> HIDE DEF cur, v, after, m
<1>6. /\ e \in Toplevel /\ e.pages = t.pages /\ e.page_current = t.page_current
      /\ e.page[cur].content = c /\ e.page[cur].CHANGED = m
      /\ e.page[cur].undo = after
      /\ \A n \in Names : n # cur => e.page[n] = t.page[n]
  <2>1. v \in Content
    BY <1>3, <1>4
  <2> HIDE DEF c
  <2> QED
    BY <1>1, <1>3, <1>4, <2>1, StepResult
<1>7. e.page[cur].ops_since_last_backup = t.page[cur].ops_since_last_backup
  <2>1. t.page \in [Names -> PAGE] /\ t.page[cur] \in PAGE
    BY <1>1, ToplevelFields
  <2> QED
    BY <1>1, <2>1 DEF Stepped, Toplevel, PAGE
<1> HIDE DEF e
<1>8. Open(e) = Open(t)
  BY <1>6 DEF Open
<1>9. PageHolds(e, d, cur, NULL)
  <2>1. PageHolds(t, d, cur, NULL)
    BY <1>1
  <2>2. Restorable(after) /\ Matches(after, c)
    BY <1>2, <1>3 DEF Restorable, Matches
  <2>3. ASSUME OwnRecordsMarked
        PROVE  (~m => c = FileOf(d, cur)) /\ Clean(after, FileOf(d, cur))
    <3>1. Clean(s, FileOf(d, cur))
      BY <1>1, <1>5, <2>1, <2>3, Zenon DEF PageHolds
    <3> QED
      BY <1>3, <3>1 DEF Clean, m
  <2>4. ~Watched
    BY DEF Watched
  <2>5. e.page[cur].ops_since_last_backup => AutoSave
    BY <1>7, <2>1, Zenon DEF PageHolds
  <2> HIDE DEF c
  <2> QED
    BY <1>6, <2>2, <2>3, <2>4, <2>5, Zenon DEF PageHolds
<1>10. ASSUME NEW n \in Names, n # cur
       PROVE  PageHolds(e, d, n, NULL)
  <2>1. PageHolds(t, d, n, NULL)
    BY <1>1
  <2>2. SamePage(e.page[n], t.page[n])
    BY <1>6, <1>10 DEF SamePage
  <2> QED
    BY <1>8, <2>1, <2>2, PageSame
<1>11. Holds(e, d, NULL)
  BY <1>1, <1>6, <1>9, <1>10 DEF Holds
<1>12. Located(e)
  BY <1>6, <1>8 DEF Located
<1> QED
  BY <1>8, <1>11, <1>12 DEF e, v, m, after, cur

(* The current page is saved to the file m, which becomes its name. *)
LEMMA SaveHolds ==
    ASSUME NEW t, NEW d, Holds(t, d, NULL), Located(t), t.pages # << >>,
           NEW m \in Names, m = t.page_current \/ m \notin Open(t),
           NEW f \in Disk, f.file[m] = t.page[t.page_current].content,
           \A n \in Names \ {m, t.page_current} :
              /\ f.file[n] = d.file[n] /\ f.backup[n] = d.backup[n]
              /\ f.newer[n] = d.newer[n]
    PROVE  LET e == x_window_save_page(t, t.page_current, m)
           IN  /\ Holds(e, f, NULL) /\ Located(e)
               /\ Open(e) = (Open(t) \ {t.page_current}) \cup {m}
<1> DEFINE cur == t.page_current
           w == f_save(t, {cur}, cur)
           e == Rename(w, cur, m)
<1>1. /\ t \in Toplevel /\ d \in Disk /\ cur \in Open(t) /\ cur \in Names
      /\ \A n \in Names : PageHolds(t, d, n, NULL) /\ n # NULL /\ t.page[n] \in PAGE
      /\ IsInjective(t.pages)
      /\ "goto" \notin UserActs => cur = Last(t.pages)
  BY OpenPages, ToplevelFields DEF Holds, Located
<1>2. m = cur \/ m \notin Open(t)
  OBVIOUS
<1>3. /\ f.file[m] = t.page[cur].content
      /\ \A n \in Names \ {m, cur} : /\ f.file[n] = d.file[n]
                                     /\ f.backup[n] = d.backup[n]
                                     /\ f.newer[n] = d.newer[n]
  OBVIOUS
<1>4. cur = t.page_current
  OBVIOUS
<1> HIDE DEF cur
<1>5. /\ w \in Toplevel /\ w.pages = t.pages /\ w.page_current = t.page_current
      /\ PagesWritten(t, w, {cur}, cur)
  BY <1>1, SaveResult
<1> HIDE DEF w
<1>6. Open(w) = Open(t) /\ Focused(w) /\ Last(w.pages) = Last(t.pages)
  BY <1>1, <1>4, <1>5 DEF Open, Focused
<1>7. /\ e \in Toplevel /\ Focused(e) /\ e.pages # << >>
      /\ Open(e) = (Open(w) \ {cur}) \cup {m}
      /\ e.page_current = m
      /\ cur = Last(w.pages) => m = Last(e.pages)
      /\ e.page[m] = w.page[cur]
      /\ cur # m => e.page[cur] = NewPage(Empty, FALSE)
      /\ \A p \in Names \ {cur, m} : e.page[p] = w.page[p]
  <2>1. /\ w \in Toplevel /\ Focused(w) /\ cur \in Open(w) /\ cur = w.page_current
        /\ m \in Names /\ (m = cur \/ m \notin Open(w))
    BY <1>1, <1>2, <1>4, <1>5, <1>6
  <2>2. /\ e \in Toplevel /\ Focused(e) /\ e.pages # << >>
        /\ Open(e) = (Open(w) \ {cur}) \cup {m}
        /\ e.page_current = m
        /\ cur = Last(w.pages) => m = Last(e.pages)
        /\ e.page[m] = w.page[cur]
        /\ cur # m => e.page[cur] = NewPage(Empty, FALSE)
        /\ \A p \in Names \ {cur, m} : e.page[p] = w.page[p]
    <3>1. Renamed(w, cur, m, e)
      BY <2>1, RenameResult
    <3> HIDE DEF e
    <3> QED
      BY <3>1 DEF Renamed
  <2> QED
    BY <2>2
<1> HIDE DEF e
<1>8. PageHolds(e, f, m, NULL)
  <2>1. /\ e.page[m].content = t.page[cur].content
        /\ e.page[m].CHANGED = FALSE
        /\ e.page[m].ops_since_last_backup = FALSE
        /\ e.page[m].undo = UpdateModified(t.page[cur].undo)
    BY <1>1, <1>5, <1>7 DEF PagesWritten
  <2>2. FileOf(f, m) = t.page[cur].content
    BY <1>1, <1>3, PageFields DEF FileOf
  <2> QED
    BY <1>1, <2>1, <2>2, SavedHolds
<1>9. ASSUME cur # m
      PROVE  PageHolds(e, f, cur, NULL)
  <2>1. cur \notin Open(e)
    BY <1>7, <1>9
  <2> QED
    BY <1>7, <1>9, <2>1, BlankHolds
<1>10. ASSUME NEW n \in Names, n # cur, n # m
       PROVE  PageHolds(e, f, n, NULL)
  <2>1. PageHolds(t, d, n, NULL) /\ t.page[n] \in PAGE
    BY <1>1
  <2>2. /\ t.page[n].CHANGED \in BOOLEAN /\ t.page[n].ops_since_last_backup \in BOOLEAN
    BY <2>1, PageFields
  <2>3. SamePage(w.page[n], t.page[n])
    BY <1>5, <1>10, <2>2 DEF SamePage, PagesWritten
  <2>4. SamePage(e.page[n], t.page[n])
    BY <1>7, <1>10, <2>3
  <2>5. n \in Open(e) => n \in Open(t)
    BY <1>6, <1>7, <1>10
  <2>6. f.file[n] = d.file[n] /\ f.backup[n] = d.backup[n] /\ f.newer[n] = d.newer[n]
    BY <1>3, <1>10
  <2> QED
    BY <2>1, <2>4, <2>5, <2>6, PageSame
<1>11. Holds(e, f, NULL)
  BY <1>7, <1>8, <1>9, <1>10 DEF Holds, Focused
<1>12. Located(e)
  BY <1>1, <1>6, <1>7 DEF Located, Focused
<1> QED
  BY <1>6, <1>7, <1>11, <1>12 DEF e, w, cur, x_window_save_page

(* Several pages are saved while the current one stays. *)
LEMMA SaveManyHolds ==
    ASSUME NEW t, NEW d, Holds(t, d, NULL), Located(t), NEW list \in SUBSET Open(t),
           "save_many" \in UserActs
    PROVE  LET e == f_save(t, list, t.page_current)
           IN  /\ Holds(e, WriteFiles(d, t.page, list), NULL) /\ Located(e)
               /\ Open(e) = Open(t)
               /\ WriteFiles(d, t.page, list) \in Disk
<1> DEFINE e == f_save(t, list, t.page_current)
           f == WriteFiles(d, t.page, list)
<1>1. /\ t \in Toplevel /\ d \in Disk /\ t.page \in [Names -> PAGE]
      /\ \A n \in Names : PageHolds(t, d, n, NULL) /\ n # NULL /\ t.page[n] \in PAGE
      /\ list \in SUBSET Names /\ IsInjective(t.pages)
  BY OpenPages, ToplevelFields DEF Holds
<1>2. /\ e \in Toplevel /\ e.pages = t.pages /\ e.page_current = t.page_current
      /\ PagesWritten(t, e, list, t.page_current)
  BY <1>1, SaveResult
<1>3. /\ f \in Disk /\ f.backup = d.backup
      /\ \A n \in Names :
           /\ f.file[n] = IF n \in list THEN t.page[n].content ELSE d.file[n]
           /\ f.newer[n] = (d.newer[n] /\ n \notin list)
  BY <1>1, WriteFilesResult
<1> HIDE DEF e, f
<1>4. Open(e) = Open(t)
  BY <1>2 DEF Open
<1>5. ASSUME NEW n \in Names
      PROVE  PageHolds(e, f, n, NULL)
  <2>1. PageHolds(t, d, n, NULL) /\ t.page[n] \in PAGE /\ n # NULL
    BY <1>1
  <2>2. /\ t.page[n].CHANGED \in BOOLEAN /\ t.page[n].ops_since_last_backup \in BOOLEAN
        /\ t.page[n].undo \in Stack /\ t.page[n].content \in Content
    BY <2>1, PageFields
  <2>3. /\ e.page[n].content = t.page[n].content
        /\ e.page[n].CHANGED = (n \notin list /\ t.page[n].CHANGED)
        /\ e.page[n].ops_since_last_backup =
             (n \notin list /\ t.page[n].ops_since_last_backup)
        /\ \/ e.page[n].undo = UpdateModified(t.page[n].undo)
           \/ e.page[n].undo = t.page[n].undo
    BY <1>2 DEF PagesWritten
  <2>4. /\ Restorable(t.page[n].undo)
        /\ OneAtATime => Matches(t.page[n].undo, t.page[n].content)
        /\ t.page[n].ops_since_last_backup => AutoSave
    BY <2>1, Zenon DEF PageHolds
  <2>5. /\ Restorable(e.page[n].undo)
        /\ OneAtATime => Matches(e.page[n].undo, t.page[n].content)
    BY <2>2, <2>3, <2>4, MarkedKeeps
  <2>6. e.page[n].ops_since_last_backup => AutoSave
    BY <2>3, <2>4, Zenon
  <2>7. OwnRecordsMarked => "undo" \notin UserActs
    BY DEF OwnRecordsMarked
  <2>8. ASSUME n \in Open(e), OwnRecordsMarked
        PROVE  ~e.page[n].CHANGED => e.page[n].content = FileOf(f, n)
    <3>1. CASE n \in list
      BY <1>3, <2>2, <2>3, <3>1 DEF FileOf
    <3>2. CASE n \notin list
      <4>1. FileOf(f, n) = FileOf(d, n)
        BY <1>3, <3>2 DEF FileOf
      <4>2. ~t.page[n].CHANGED => t.page[n].content = FileOf(d, n)
        BY <1>4, <2>1, <2>8, Zenon DEF PageHolds
      <4> QED
        BY <2>3, <3>2, <4>1, <4>2, Zenon
    <3> QED
      BY <3>1, <3>2
  <2>9. ASSUME n \in Open(e), Watched
        PROVE  \/ ~e.page[n].CHANGED \/ e.page[n].ops_since_last_backup
               \/ f.newer[n] /\ f.backup[n] = e.page[n].content
    <3>1. CASE n \in list
      BY <2>3, <3>1
    <3>2. CASE n \notin list
      <4>1. \/ ~t.page[n].CHANGED \/ t.page[n].ops_since_last_backup
            \/ d.newer[n] /\ d.backup[n] = t.page[n].content
        BY <1>4, <2>1, <2>9, Zenon DEF PageHolds
      <4>2. d.newer[n] => f.newer[n]
        BY <1>3, <3>2
      <4> QED
        BY <1>3, <2>3, <3>2, <4>1, <4>2, Zenon
    <3> QED
      BY <3>1, <3>2
  <2> QED
    BY <2>3, <2>5, <2>6, <2>7, <2>8, <2>9, Zenon DEF PageHolds
<1>6. Holds(e, f, NULL)
  BY <1>1, <1>2, <1>3, <1>5 DEF Holds
<1>7. Located(e)
  BY <1>2, <1>4 DEF Located
<1> QED
  BY <1>3, <1>4, <1>6, <1>7 DEF e, f

(* Each page of a list is saved as the current one. *)
LEMMA SaveEachHolds ==
    ASSUME NEW t, NEW d, Holds(t, d, NULL), Located(t), NEW list \in SUBSET Open(t)
    PROVE  LET e == SaveEach(t, list)
           IN  /\ Holds(e, WriteFiles(d, t.page, list), NULL) /\ Located(e)
               /\ Open(e) = Open(t)
               /\ WriteFiles(d, t.page, list) \in Disk
<1> DEFINE saved(n) == f_save(t, {n}, n)
           page == [n \in Names |-> IF n \in list THEN saved(n).page[n] ELSE t.page[n]]
           e == SaveEach(t, list)
           f == WriteFiles(d, t.page, list)
<1>1. /\ t \in Toplevel /\ d \in Disk /\ t.page \in [Names -> PAGE]
      /\ \A n \in Names : PageHolds(t, d, n, NULL) /\ n # NULL /\ t.page[n] \in PAGE
      /\ list \in SUBSET Names /\ IsInjective(t.pages)
  BY OpenPages, ToplevelFields DEF Holds
<1>2. ASSUME NEW n \in Names
      PROVE  /\ saved(n) \in Toplevel /\ saved(n).page[n] \in PAGE
             /\ PagesWritten(t, saved(n), {n}, n)
  <2>1. saved(n) \in Toplevel /\ PagesWritten(t, saved(n), {n}, n)
    BY <1>1, SaveResult
  <2> QED
    BY <2>1, ToplevelFields
<1>3. e = [t EXCEPT !.page = page]
  BY DEF SaveEach
<1> HIDE DEF saved
<1>4. /\ page \in [Names -> PAGE]
      /\ \A n \in Names : page[n] = IF n \in list THEN saved(n).page[n] ELSE t.page[n]
  BY <1>1, <1>2
<1> HIDE DEF page
<1>5. /\ e \in Toplevel /\ e.pages = t.pages /\ e.page_current = t.page_current
      /\ e.page = page
  BY <1>1, <1>3, <1>4 DEF Toplevel
<1> HIDE DEF e
<1>6. /\ f \in Disk /\ f.backup = d.backup
      /\ \A n \in Names :
           /\ f.file[n] = IF n \in list THEN t.page[n].content ELSE d.file[n]
           /\ f.newer[n] = (d.newer[n] /\ n \notin list)
  <2>1. d \in Disk /\ list \in SUBSET Names /\ t.page \in [Names -> PAGE]
    BY <1>1
  <2> QED
    BY <2>1, WriteFilesResult
<1> HIDE DEF f
<1>7. Open(e) = Open(t)
  BY <1>5 DEF Open
<1>8. ASSUME NEW n \in list
      PROVE  PageHolds(e, f, n, NULL)
  <2>1. n \in Names /\ e.page[n] = saved(n).page[n]
    BY <1>1, <1>4, <1>5
  <2>2. /\ e.page[n].content = t.page[n].content
        /\ e.page[n].CHANGED = FALSE
        /\ e.page[n].ops_since_last_backup = FALSE
        /\ e.page[n].undo = UpdateModified(t.page[n].undo)
    <3> DEFINE w == saved(n)
    <3>1. PagesWritten(t, w, {n}, n) /\ e.page[n] = w.page[n] /\ n \in Names
      BY <1>2, <2>1
    <3> HIDE DEF w
    <3> QED
      BY <3>1 DEF PagesWritten
  <2>3. FileOf(f, n) = t.page[n].content
    BY <1>1, <1>6, <2>1, PageFields DEF FileOf
  <2> QED
    BY <1>1, <2>1, <2>2, <2>3, SavedHolds
<1>9. ASSUME NEW n \in Names, n \notin list
      PROVE  PageHolds(e, f, n, NULL)
  <2>1. PageHolds(t, d, n, NULL)
    BY <1>1
  <2>2. SamePage(e.page[n], t.page[n])
    BY <1>4, <1>5, <1>9 DEF SamePage
  <2>3. f.file[n] = d.file[n] /\ f.backup[n] = d.backup[n] /\ (d.newer[n] => f.newer[n])
    BY <1>6, <1>9
  <2> QED
    BY <1>7, <2>1, <2>2, <2>3, PageSame
<1>10. Holds(e, f, NULL)
  BY <1>1, <1>5, <1>6, <1>8, <1>9 DEF Holds
<1>11. Located(e)
  BY <1>5, <1>7 DEF Located
<1> QED
  BY <1>6, <1>7, <1>10, <1>11 DEF e, f

(* The current page is taken off the list; its files do not matter then. *)
LEMMA DeleteHolds ==
    ASSUME NEW t, NEW d, Holds(t, d, NULL), Located(t), t.pages # << >>,
           NEW f \in Disk,
           \A n \in Names \ {t.page_current} :
              /\ f.file[n] = d.file[n] /\ f.backup[n] = d.backup[n]
              /\ f.newer[n] = d.newer[n]
    PROVE  LET left == s_page_delete(t, t.page_current)
           IN  /\ Holds(left, f, NULL) /\ left \in Toplevel
               /\ Open(left) = Open(t) \ {t.page_current}
               /\ Len(left.pages) = Len(t.pages) - 1
               /\ \A i \in 1..(Len(t.pages) - 1) :
                    left.pages[i] = IF i < Place(t.pages, t.page_current)
                                    THEN t.pages[i] ELSE t.pages[i + 1]
               /\ \A n \in Names \ {t.page_current} : left.page[n] = t.page[n]
<1> DEFINE cur == t.page_current
           left == s_page_delete(t, cur)
<1>1. /\ t \in Toplevel /\ d \in Disk /\ cur \in Open(t) /\ cur \in Names
      /\ \A n \in Names : PageHolds(t, d, n, NULL)
      /\ Focused(t) /\ t.page \in [Names -> PAGE]
  BY OpenPages, ToplevelFields DEF Holds, Located, Focused
<1>2. \A n \in Names \ {cur} : /\ f.file[n] = d.file[n] /\ f.backup[n] = d.backup[n]
                               /\ f.newer[n] = d.newer[n]
  OBVIOUS
<1> HIDE DEF cur
<1>3. /\ left \in Toplevel /\ IsInjective(left.pages)
      /\ Open(left) = Open(t) \ {cur}
      /\ Len(left.pages) = Len(t.pages) - 1
      /\ \A i \in 1..(Len(t.pages) - 1) :
           left.pages[i] = IF i < Place(t.pages, cur) THEN t.pages[i]
                           ELSE t.pages[i + 1]
      /\ left.page = [t.page EXCEPT ![cur] = NewPage(Empty, FALSE)]
  BY <1>1, DeleteResult
<1> HIDE DEF left
<1>4. /\ left.page[cur] = NewPage(Empty, FALSE)
      /\ \A n \in Names \ {cur} : left.page[n] = t.page[n]
  BY <1>1, <1>3
<1>5. PageHolds(left, f, cur, NULL)
  BY <1>3, <1>4, BlankHolds
<1>6. ASSUME NEW n \in Names, n # cur
      PROVE  PageHolds(left, f, n, NULL)
  <2>1. PageHolds(t, d, n, NULL)
    BY <1>1
  <2>2. SamePage(left.page[n], t.page[n])
    BY <1>4, <1>6 DEF SamePage
  <2>3. f.file[n] = d.file[n] /\ f.backup[n] = d.backup[n] /\ (d.newer[n] => f.newer[n])
    BY <1>2, <1>6
  <2>4. n \in Open(left) => n \in Open(t)
    BY <1>3
  <2> QED
    BY <2>1, <2>2, <2>3, <2>4, PageSame
<1>7. Holds(left, f, NULL)
  BY <1>3, <1>5, <1>6 DEF Holds
<1> QED
  BY <1>3, <1>4, <1>7 DEF left, cur

(* Closing goes to a neighbour, to the new last page after the last one. *)
LEMMA CloseHolds ==
    ASSUME NEW t, NEW d, Holds(t, d, NULL), Located(t), t.pages # << >>,
           Len(t.pages) > 1, NEW f \in Disk,
           \A n \in Names \ {t.page_current} :
              /\ f.file[n] = d.file[n] /\ f.backup[n] = d.backup[n]
              /\ f.newer[n] = d.newer[n]
    PROVE  LET e == [s_page_delete(t, t.page_current) EXCEPT
                        !.page_current = Neighbour(t.pages, t.page_current)]
           IN  /\ Holds(e, f, NULL) /\ Located(e)
               /\ Open(e) = Open(t) \ {t.page_current}
               /\ \A n \in Names \ {t.page_current} : e.page[n] = t.page[n]
<1> DEFINE cur == t.page_current
           left == s_page_delete(t, cur)
           next == Neighbour(t.pages, cur)
           e == [left EXCEPT !.page_current = next]
<1>1. /\ t \in Toplevel /\ cur \in Open(t) /\ cur \in Names /\ Focused(t)
      /\ "goto" \notin UserActs => cur = Last(t.pages)
  BY OpenPages DEF Holds, Located, Focused
<1>2. /\ Holds(left, f, NULL) /\ left \in Toplevel
      /\ Open(left) = Open(t) \ {cur}
      /\ Len(left.pages) = Len(t.pages) - 1
      /\ \A i \in 1..(Len(t.pages) - 1) :
           left.pages[i] = IF i < Place(t.pages, cur) THEN t.pages[i]
                           ELSE t.pages[i + 1]
      /\ \A n \in Names \ {cur} : left.page[n] = t.page[n]
  BY DeleteHolds
<1> HIDE DEF cur, left
<1>3. /\ next \in Open(t) \ {cur}
      /\ cur = Last(t.pages) => next = t.pages[Len(t.pages) - 1]
  BY <1>1, NeighbourResult
<1> HIDE DEF next
<1>4. /\ e \in Toplevel /\ e.pages = left.pages /\ e.page = left.page
      /\ e.page_current = next
  <2>1. next \in Names
    BY <1>1, <1>3, OpenPages
  <2> QED
    BY <1>2, <2>1, GotoResult
<1> HIDE DEF e
<1>5. Holds(e, f, NULL) /\ Open(e) = Open(left)
  BY <1>2, <1>4, SamePages
<1>6. cur = Last(t.pages) => next = Last(e.pages)
  <2> SUFFICES ASSUME cur = Last(t.pages)
               PROVE  next = Last(e.pages)
    OBVIOUS
  <2>1. /\ Len(t.pages) \in Nat /\ Len(t.pages) - 1 \in 1..(Len(t.pages) - 1)
        /\ Len(t.pages) \in 1..Len(t.pages) /\ t.pages[Len(t.pages)] = cur
    BY <1>1, ToplevelFields DEF Last
  <2>2. Place(t.pages, cur) = Len(t.pages)
    BY <1>1, <2>1, PlaceResult
  <2>3. Last(e.pages) = left.pages[Len(t.pages) - 1]
    BY <1>2, <1>4 DEF Last
  <2> QED
    BY <1>2, <1>3, <2>1, <2>2, <2>3
<1>7. Located(e)
  BY <1>1, <1>2, <1>3, <1>4, <1>5, <1>6 DEF Located
<1> QED
  BY <1>2, <1>4, <1>5, <1>7 DEF e, left, next, cur

(* The timer flags pages. *)
LEMMA FlagHolds ==
    ASSUME NEW t, NEW d, Holds(t, d, NULL), Located(t)
    PROVE  LET e == [t EXCEPT !.page = [n \in Names |->
                        IF n \in Changed(t) /\ @[n].ops_since_last_backup
                        THEN [@[n] EXCEPT !.do_autosave_backup = TRUE] ELSE @[n]]]
           IN  Holds(e, d, NULL) /\ Located(e) /\ Open(e) = Open(t)
<1> DEFINE page == [n \in Names |->
              IF n \in Changed(t) /\ t.page[n].ops_since_last_backup
              THEN [t.page[n] EXCEPT !.do_autosave_backup = TRUE] ELSE t.page[n]]
           e == [t EXCEPT !.page = page]
<1>1. /\ t \in Toplevel /\ d \in Disk /\ IsInjective(t.pages)
      /\ \A n \in Names : PageHolds(t, d, n, NULL) /\ t.page[n] \in PAGE
  BY ToplevelFields DEF Holds
<1>2. ASSUME NEW n \in Names
      PROVE  page[n] \in PAGE /\ SamePage(page[n], t.page[n])
  <2>1. t.page[n] \in PAGE
    BY <1>1
  <2>2. /\ [t.page[n] EXCEPT !.do_autosave_backup = TRUE] \in PAGE
        /\ SamePage([t.page[n] EXCEPT !.do_autosave_backup = TRUE], t.page[n])
    BY <2>1 DEF PAGE, SamePage
  <2>3. SamePage(t.page[n], t.page[n])
    BY DEF SamePage
  <2> QED
    BY <2>1, <2>2, <2>3
<1>3. page \in [Names -> PAGE]
  BY <1>2
<1> HIDE DEF page
<1>4. /\ e \in Toplevel /\ e.pages = t.pages /\ e.page_current = t.page_current
      /\ e.page = page
  BY <1>1, <1>3 DEF Toplevel
<1> HIDE DEF e
<1>5. Open(e) = Open(t)
  BY <1>4 DEF Open
<1>6. \A n \in Names : PageHolds(e, d, n, NULL)
  BY <1>1, <1>2, <1>4, <1>5, PageSame
<1>7. Holds(e, d, NULL) /\ Located(e)
  BY <1>1, <1>4, <1>5, <1>6 DEF Holds, Located
<1> QED
  BY <1>5, <1>7 DEF e, page

-----------------------------------------------------------------------------
(* What the pages have held, and the backups that are newer than a file. *)
BackupsKept(saved) ==
    \A n \in Names : disk'.newer[n] =>
        \/ n \in Open(toplevel') /\ disk'.backup[n] = toplevel'.page[n].content
        \/ /\ disk.newer[n] /\ disk'.backup[n] = disk.backup[n]
           /\ n \in saved => n \notin Open(toplevel')

LEMMA RememberKeeps ==
    ASSUME NEW saved, toplevel' \in Toplevel, since \in [Names -> SUBSET Content],
           BackupHoldsUnsavedWork, Remember(saved), BackupsKept(saved)
    PROVE  since' \in [Names -> SUBSET Content] /\ BackupHoldsUnsavedWork'
<1>1. \A n \in Names : toplevel'.page[n].content \in Content /\ since[n] \subseteq Content
  BY ToplevelFields, PageFields
<1>2. /\ since' \in [Names -> SUBSET Content]
      /\ \A n \in Names : since'[n] =
           IF n \notin Open(toplevel') THEN IF disk'.newer[n] THEN since[n] ELSE {}
           ELSE (IF n \in saved THEN {} ELSE since[n]) \cup {toplevel'.page[n].content}
  BY <1>1 DEF Remember
<1>3. ASSUME NEW n \in Names, disk'.newer[n]
      PROVE  disk'.backup[n] \in since'[n]
  <2>1. disk.newer[n] => disk.backup[n] \in since[n]
    BY DEF BackupHoldsUnsavedWork
  <2>2. CASE n \in Open(toplevel') /\ disk'.backup[n] = toplevel'.page[n].content
    BY <1>2, <2>2
  <2>3. CASE /\ disk.newer[n] /\ disk'.backup[n] = disk.backup[n]
             /\ n \in saved => n \notin Open(toplevel')
    BY <1>2, <1>3, <2>1, <2>3
  <2> QED
    BY <1>3, <2>2, <2>3 DEF BackupsKept
<1> QED
  BY <1>2, <1>3 DEF BackupHoldsUnsavedWork

LEMMA InvParts ==
    ASSUME Inv
    PROVE  /\ Holds(toplevel, disk, NULL) /\ Located(toplevel)
           /\ toplevel \in Toplevel /\ disk \in Disk /\ Focused(toplevel)
           /\ Open(toplevel) \subseteq Names
           /\ toplevel.page \in [Names -> PAGE]
           /\ toplevel.pages # << >> => toplevel.page_current \in Open(toplevel)
           /\ since \in [Names -> SUBSET Content] /\ BackupHoldsUnsavedWork
<1>1. Holds(toplevel, disk, NULL) /\ Located(toplevel)
  BY DEF Inv
<1>2. toplevel \in Toplevel /\ disk \in Disk /\ Focused(toplevel)
  BY <1>1, HoldsFields
<1> QED
  BY <1>1, <1>2, OpenPages, ToplevelFields DEF Inv, Located

(* Every command that ends in o_undo_savestate. *)
LEMMA SavestateKeeps ==
    ASSUME Inv, NEW t, NEW d, Holds(t, d, t.page_current), Located(t),
           t.pages # << >>, o_undo_savestate(t, d), Remember({}),
           \A n \in Names : d.newer[n] => disk.newer[n] /\ d.backup[n] = disk.backup[n]
    PROVE  Inv'
<1>1. /\ Holds(toplevel', disk', NULL) /\ Located(toplevel')
      /\ Open(toplevel') = Open(t)
      /\ \A n \in Names : toplevel'.page[n].content = t.page[n].content
      /\ \A n \in Names :
           \/ disk'.backup[n] = d.backup[n] /\ disk'.newer[n] = d.newer[n]
           \/ n \in Open(t) /\ disk'.backup[n] = t.page[n].content
  BY SavestateHolds
<1>2. BackupsKept({})
  BY <1>1 DEF BackupsKept
<1>3. toplevel' \in Toplevel
  BY <1>1 DEF Holds
<1>4. since' \in [Names -> SUBSET Content] /\ BackupHoldsUnsavedWork'
  BY <1>2, <1>3, InvParts, RememberKeeps
<1> QED
  BY <1>1, <1>4 DEF Inv

(* Commands that change pages and files otherwise. *)
LEMMA OtherwiseKeeps ==
    ASSUME Inv, Holds(toplevel', disk', NULL), Located(toplevel'),
           NEW saved, Remember(saved), BackupsKept(saved)
    PROVE  Inv'
<1>1. toplevel' \in Toplevel
  BY DEF Holds
<1>2. since' \in [Names -> SUBSET Content] /\ BackupHoldsUnsavedWork'
  BY <1>1, InvParts, RememberKeeps
<1> QED
  BY <1>2 DEF Inv

LEMMA InitInv == Init => Inv
<1> SUFFICES ASSUME Init
             PROVE  Inv
  OBVIOUS
<1>1. toplevel = Started
  BY DEF Init
<1>2. disk \in Disk /\ \A n \in Names : disk.newer[n] = FALSE
  <2>1. /\ disk \in [file : {f \in [Names -> Content \cup {NULL}] :
                               \A n \in Untitled : f[n] = NULL},
                     backup : {[n \in Names |-> NULL]},
                     newer : {[n \in Names |-> FALSE]}]
    BY DEF Init
  <2>2. /\ disk.backup = [n \in Names |-> NULL] /\ disk.newer = [n \in Names |-> FALSE]
        /\ disk.file \in [Names -> Content \cup {NULL}]
        /\ disk = [file |-> disk.file, backup |-> disk.backup, newer |-> disk.newer]
    BY <2>1
  <2>3. /\ disk.backup \in [Names -> Content \cup {NULL}]
        /\ disk.newer \in [Names -> BOOLEAN]
    BY <2>2
  <2> DEFINE file == disk.file
             backup == disk.backup
             newer == disk.newer
  <2>4. /\ file \in [Names -> Content \cup {NULL}]
        /\ backup \in [Names -> Content \cup {NULL}] /\ newer \in [Names -> BOOLEAN]
        /\ disk = [file |-> file, backup |-> backup, newer |-> newer]
    BY <2>2, <2>3
  <2> HIDE DEF file, backup, newer
  <2>5. disk \in Disk
    BY <2>4, DiskIntro
  <2> QED
    BY <2>2, <2>5
<1>3. Holds(toplevel, disk, NULL) /\ Located(toplevel)
  BY <1>1, <1>2, StartedHolds
<1>4. since \in [Names -> SUBSET Content]
  BY DEF Init
<1>5. BackupHoldsUnsavedWork
  BY <1>2 DEF BackupHoldsUnsavedWork
<1> QED
  BY <1>3, <1>4, <1>5 DEF Inv

-----------------------------------------------------------------------------
LEMMA OpenFileKeeps ==
    ASSUME Inv, OpenFile
    PROVE  Inv'
<1>1. PICK n \in Names \ Open(toplevel) :
         /\ disk.file[n] # NULL
         /\ \E choice \in Answers(n) :
              o_undo_savestate(
                  AddPage(toplevel, n,
                          NewPage(IF choice = "backup" THEN disk.backup[n]
                                  ELSE disk.file[n], choice # "original")),
                  IF choice = "delete" THEN RemoveBackup(disk, n) ELSE disk)
  BY DEF OpenFile
<1>2. PICK choice \in Answers(n) :
         o_undo_savestate(
             AddPage(toplevel, n,
                     NewPage(IF choice = "backup" THEN disk.backup[n]
                             ELSE disk.file[n], choice # "original")),
             IF choice = "delete" THEN RemoveBackup(disk, n) ELSE disk)
  BY <1>1
<1> DEFINE c == IF choice = "backup" THEN disk.backup[n] ELSE disk.file[n]
           changed == (choice # "original")
           d == IF choice = "delete" THEN RemoveBackup(disk, n) ELSE disk
           t == AddPage(toplevel, n, NewPage(c, changed))
<1>3. o_undo_savestate(t, d)
  BY <1>2
<1>4. /\ disk.file[n] \in Content
      /\ choice \in {"original", "backup", "delete"}
      /\ choice = "backup" => disk.newer[n]
      /\ disk.newer[n] => disk.backup[n] \in Content
  <2>1. disk.file[n] \in Content
    BY <1>1, InvParts, DiskFields
  <2>2. disk.newer[n] => disk.backup[n] \in Content
    BY InvParts DEF BackupHoldsUnsavedWork
  <2> QED
    BY <2>1, <2>2 DEF Answers
<1>5. c \in Content /\ changed \in BOOLEAN
  BY <1>4
<1>6. ~changed => c = FileOf(disk, n)
  BY <1>1, <1>4 DEF FileOf
<1>7. /\ d \in Disk /\ d.file = disk.file
      /\ \A m \in Names :
           m # n => d.backup[m] = disk.backup[m] /\ d.newer[m] = disk.newer[m]
      /\ \A m \in Names :
           d.newer[m] => disk.newer[m] /\ d.backup[m] = disk.backup[m]
  <2>1. CASE choice = "delete"
    <3>1. d = RemoveBackup(disk, n) /\ disk \in Disk /\ n \in Names
      BY <2>1, InvParts
    <3> DEFINE e == RemoveBackup(disk, n)
    <3>2. /\ e \in Disk /\ e.file = disk.file
          /\ e.backup[n] = NULL /\ e.newer[n] = FALSE
          /\ \A m \in Names : m # n =>
               e.backup[m] = disk.backup[m] /\ e.newer[m] = disk.newer[m]
      BY <3>1, RemoveBackupResult
    <3>3. d = e
      BY <3>1
    <3> HIDE DEF d, e
    <3> QED
      BY <3>2, <3>3
  <2>2. CASE choice # "delete"
    BY <2>2, InvParts
  <2> QED
    BY <2>1, <2>2
<1> HIDE DEF d, c, changed
<1>8. Holds(toplevel, d, NULL) /\ Located(toplevel)
  <2>1. Holds(toplevel, disk, NULL) /\ Located(toplevel)
    BY InvParts
  <2>2. \A m \in Open(toplevel) :
           /\ d.file[m] = disk.file[m] /\ d.backup[m] = disk.backup[m]
           /\ d.newer[m] = disk.newer[m]
    BY <1>7, InvParts
  <2> QED
    BY <1>7, <2>1, <2>2, OtherFiles
<1>9. ~changed => c = FileOf(d, n)
  BY <1>6, <1>7 DEF FileOf
<1>10. Holds(t, d, t.page_current) /\ Located(t) /\ t.pages # << >>
  BY <1>5, <1>8, <1>9, EnterHolds
<1>11. Remember({})
  BY DEF OpenFile
<1> HIDE DEF t
<1> QED
  BY <1>3, <1>7, <1>10, <1>11, SavestateKeeps

LEMMA NewFileKeeps ==
    ASSUME Inv, NewFile
    PROVE  Inv'
<1>1. PICK n \in Names \ Open(toplevel) :
         /\ disk.file[n] = NULL
         /\ o_undo_savestate(AddPage(toplevel, n, NewPage(Empty, FALSE)), disk)
  BY DEF NewFile
<1> DEFINE changed == FALSE
           t == AddPage(toplevel, n, NewPage(Empty, changed))
<1>2. o_undo_savestate(t, disk)
  BY <1>1
<1>3. Empty = FileOf(disk, n) /\ Empty \in Content /\ changed \in BOOLEAN
  BY <1>1 DEF FileOf
<1> HIDE DEF changed
<1>4. Holds(t, disk, t.page_current) /\ Located(t) /\ t.pages # << >>
  BY <1>3, InvParts, EnterHolds
<1>5. Remember({})
  BY DEF NewFile
<1> HIDE DEF t
<1> QED
  BY <1>2, <1>4, <1>5, SavestateKeeps

LEMMA OpenAgainKeeps ==
    ASSUME Inv, OpenAgain
    PROVE  Inv'
<1>1. PICK n \in Open(toplevel) :
         o_undo_savestate([toplevel EXCEPT !.page_current = n], disk)
  BY DEF OpenAgain
<1> DEFINE t == [toplevel EXCEPT !.page_current = n]
<1>2. /\ Holds(t, disk, NULL) /\ Located(t) /\ Open(t) = Open(toplevel)
      /\ t.pages = toplevel.pages
  BY InvParts, GotoHolds DEF OpenAgain
<1>3. o_undo_savestate(t, disk) /\ Remember({})
  BY <1>1 DEF OpenAgain
<1> HIDE DEF t
<1>4. Holds(t, disk, t.page_current)
  BY <1>2, Exempt
<1>5. t.pages # << >>
  BY <1>2, InvParts, OpenPages DEF Holds
<1> QED
  BY <1>2, <1>3, <1>4, <1>5, SavestateKeeps

LEMMA GotoKeeps ==
    ASSUME Inv, x_window_set_current_page
    PROVE  Inv'
<1>1. PICK n \in Open(toplevel) : toplevel' = [toplevel EXCEPT !.page_current = n]
  BY DEF x_window_set_current_page
<1> DEFINE t == [toplevel EXCEPT !.page_current = n]
<1>2. Holds(t, disk, NULL) /\ Located(t)
  BY InvParts, GotoHolds DEF x_window_set_current_page
<1>3. toplevel' = t /\ disk' = disk /\ since' = since
  BY <1>1 DEF x_window_set_current_page
<1> HIDE DEF t
<1>4. since' \in [Names -> SUBSET Content] /\ BackupHoldsUnsavedWork'
  BY <1>3, InvParts DEF BackupHoldsUnsavedWork
<1> QED
  BY <1>2, <1>3, <1>4 DEF Inv

LEMMA EditKeeps ==
    ASSUME Inv, Edit
    PROVE  Inv'
<1> DEFINE cur == toplevel.page_current
<1>1. toplevel.pages # << >> /\ cur \in Names
  BY InvParts DEF Edit
<1>2. PICK c \in Content, changed \in {TRUE, toplevel.page[cur].CHANGED} :
         /\ c # toplevel.page[cur].content => changed
         /\ o_undo_savestate(
               [toplevel EXCEPT !.page[cur].content = c,
                                !.page[cur].CHANGED = changed], disk)
  BY Zenon DEF Edit
<1> DEFINE t == Edited(toplevel, cur, c, changed)
<1>3. o_undo_savestate(t, disk)
  BY <1>2 DEF Edited
<1>4. /\ changed \in BOOLEAN
      /\ changed = TRUE \/ changed = toplevel.page[cur].CHANGED
  BY <1>1, InvParts, PageFields
<1>5. Holds(t, disk, t.page_current) /\ Located(t) /\ t.pages # << >>
  BY <1>1, <1>2, <1>4, InvParts, EditHolds
<1>6. Remember({})
  BY DEF Edit
<1> HIDE DEF t
<1> QED
  BY <1>3, <1>5, <1>6, SavestateKeeps

LEMMA StepUndoKeeps ==
    ASSUME Inv, do_undo \/ do_redo
    PROVE  Inv'
<1>1. PICK by \in {-1, 1} : StepUndo(by)
  BY DEF do_undo, do_redo
<1>2. "undo" \in UserActs /\ toplevel.pages # << >>
  BY DEF do_undo, do_redo
<1> DEFINE cur == toplevel.page_current
           s == toplevel.page[cur].undo
           target == s.current + by
           e == Stepped(toplevel, cur, StepTo(s, target),
                        RestoredFrom(s, target, "DISK"), s.list[target].modified)
<1>3. /\ target \in DOMAIN s.list /\ toplevel' = e /\ disk' = disk
      /\ Remember({})
  BY <1>1, Zenon DEF StepUndo, Stepped
<1>4. s \in Stack
  BY <1>2, InvParts, PageFields
<1>5. target \in 1..Len(s.list)
  <2>1. s.list \in Seq(UNDO)
    BY <1>4, StackFields
  <2> HIDE DEF target, s
  <2> QED
    BY <1>3, <2>1
<1>6. Holds(e, disk, NULL) /\ Located(e)
  BY <1>2, <1>5, InvParts, StepHolds
<1> HIDE DEF e
<1>7. BackupsKept({})
  BY <1>3 DEF BackupsKept
<1> QED
  BY <1>3, <1>6, <1>7, OtherwiseKeeps

(* Saving the current page, under its name or another one. *)
LEMMA SavePageKeeps ==
    ASSUME Inv, toplevel.pages # << >>,
           NEW m \in Names, m = toplevel.page_current \/ m \notin Open(toplevel),
           NEW e, e = x_window_save_page(toplevel, toplevel.page_current, m),
           toplevel' \in Toplevel, toplevel'.pages = e.pages,
           toplevel'.page = e.page, toplevel'.page_current = e.page_current,
           disk' \in Disk, disk'.file[m] = toplevel.page[toplevel.page_current].content,
           disk'.newer[m] = FALSE,
           \A n \in Names \ {m, toplevel.page_current} :
              /\ disk'.file[n] = disk.file[n] /\ disk'.backup[n] = disk.backup[n]
              /\ disk'.newer[n] = disk.newer[n],
           toplevel.page_current # m /\ disk'.newer[toplevel.page_current] =>
                 /\ disk.newer[toplevel.page_current]
                 /\ disk'.backup[toplevel.page_current] =
                       disk.backup[toplevel.page_current],
           Remember({m})
    PROVE  Inv'
<1> DEFINE cur == toplevel.page_current
<1>1. /\ Holds(e, disk', NULL) /\ Located(e)
      /\ Open(e) = (Open(toplevel) \ {cur}) \cup {m}
  BY InvParts, SaveHolds
<1>2. Holds(toplevel', disk', NULL) /\ Open(toplevel') = Open(e)
  BY <1>1, SamePages
<1>3. Located(toplevel')
  BY <1>1, <1>2 DEF Located
<1>4. ASSUME NEW n \in Names, disk'.newer[n]
      PROVE  /\ disk.newer[n] /\ disk'.backup[n] = disk.backup[n]
             /\ n \in {m} => n \notin Open(toplevel')
  BY <1>4
<1>5. BackupsKept({m})
  BY <1>4 DEF BackupsKept
<1> QED
  BY <1>2, <1>3, <1>5, OtherwiseKeeps

LEMMA DoSaveKeeps ==
    ASSUME Inv, do_save
    PROVE  Inv'
<1> DEFINE cur == toplevel.page_current
           forced == toplevel.force_save_as \/ cur \in Untitled
<1>1. /\ toplevel.pages # << >> /\ cur \in Names /\ cur \in Open(toplevel)
      /\ toplevel \in Toplevel /\ disk \in Disk /\ Holds(toplevel, disk, NULL)
      /\ Located(toplevel) /\ toplevel.page[cur].content \in Content
  BY InvParts, PageFields DEF do_save
<1>2. PICK m \in IF forced THEN Targets ELSE {cur} :
         /\ toplevel' = [x_window_save_page(toplevel, cur, m)
                           EXCEPT !.force_save_as = forced]
         /\ disk' = WriteFile(disk, m, toplevel.page[cur].content)
         /\ Remember({m})
  BY Zenon DEF do_save
<1>3. m \in Names /\ (m = cur \/ m \notin Open(toplevel))
  BY <1>1, <1>2 DEF Targets
<1>4. forced \in BOOLEAN
  OBVIOUS
<1> DEFINE e == x_window_save_page(toplevel, cur, m)
           c == toplevel.page[cur].content
           d == WriteFile(disk, m, c)
<1>5. toplevel' = [e EXCEPT !.force_save_as = forced] /\ disk' = d
  BY <1>2
<1>6. /\ d \in Disk /\ d.backup = disk.backup
      /\ d.file[m] = c /\ d.newer[m] = FALSE
      /\ \A n \in Names : n # m =>
           d.file[n] = disk.file[n] /\ d.newer[n] = disk.newer[n]
  <2>1. disk \in Disk /\ m \in Names /\ c \in Content
    BY <1>1, <1>3
  <2>2. Written(disk, m, c, d)
    BY <2>1, WriteFileResult
  <2> HIDE DEF d
  <2> QED
    BY <2>2 DEF Written
<1> HIDE DEF d, forced
<1>7. e \in Toplevel
  <2>1. Holds(e, d, NULL)
    BY <1>1, <1>3, <1>6, SaveHolds
  <2> QED
    BY <2>1 DEF Holds
<1>8. e = x_window_save_page(toplevel, cur, m)
  OBVIOUS
<1> HIDE DEF e
<1>9. /\ toplevel' \in Toplevel /\ toplevel'.pages = e.pages
      /\ toplevel'.page = e.page /\ toplevel'.page_current = e.page_current
  BY <1>4, <1>5, <1>7 DEF Toplevel
<1>10. Remember({m})
  BY <1>2
<1> QED
  BY <1>1, <1>3, <1>5, <1>6, <1>8, <1>9, <1>10, SavePageKeeps

LEMMA DoSaveAsKeeps ==
    ASSUME Inv, do_save_as
    PROVE  Inv'
<1> DEFINE cur == toplevel.page_current
<1>1. /\ toplevel.pages # << >> /\ cur \in Names /\ cur \in Open(toplevel)
      /\ toplevel \in Toplevel /\ disk \in Disk /\ Holds(toplevel, disk, NULL)
      /\ Located(toplevel) /\ toplevel.page[cur].content \in Content
  BY InvParts, PageFields DEF do_save_as
<1>2. PICK m \in Targets :
         /\ toplevel' = x_window_save_page(toplevel, cur, m)
         /\ disk' = LET d == WriteFile(disk, m, toplevel.page[cur].content)
                    IN  IF m = cur THEN d ELSE RemoveBackup(d, cur)
         /\ Remember({m})
  BY Zenon DEF do_save_as
<1>3. m \in Names /\ (m = cur \/ m \notin Open(toplevel))
  BY <1>1, <1>2 DEF Targets
<1> DEFINE e == x_window_save_page(toplevel, cur, m)
           c == toplevel.page[cur].content
           d == WriteFile(disk, m, c)
           f == RemoveBackup(d, cur)
<1>4. toplevel' = e /\ disk' = IF m = cur THEN d ELSE f
  BY <1>2
<1>5. /\ d \in Disk /\ d.backup = disk.backup
      /\ d.file[m] = c /\ d.newer[m] = FALSE
      /\ \A n \in Names : n # m =>
           d.file[n] = disk.file[n] /\ d.newer[n] = disk.newer[n]
  <2>1. disk \in Disk /\ m \in Names /\ c \in Content
    BY <1>1, <1>3
  <2>2. Written(disk, m, c, d)
    BY <2>1, WriteFileResult
  <2> HIDE DEF d
  <2> QED
    BY <2>2 DEF Written
<1> HIDE DEF d
<1>6. /\ f \in Disk /\ f.file = d.file
      /\ f.backup[cur] = NULL /\ f.newer[cur] = FALSE
      /\ \A n \in Names : n # cur =>
           f.backup[n] = d.backup[n] /\ f.newer[n] = d.newer[n]
  BY <1>1, <1>5, RemoveBackupResult
<1> HIDE DEF f
<1>7. /\ disk' \in Disk /\ disk'.file[m] = c /\ disk'.newer[m] = FALSE
      /\ \A n \in Names \ {m, cur} :
           /\ disk'.file[n] = disk.file[n] /\ disk'.backup[n] = disk.backup[n]
           /\ disk'.newer[n] = disk.newer[n]
      /\ cur # m => disk'.newer[cur] = FALSE
  <2>1. CASE m = cur
    BY <1>4, <1>5, <2>1
  <2>2. CASE m # cur
    BY <1>1, <1>3, <1>4, <1>5, <1>6, <2>2
  <2> QED
    BY <2>1, <2>2
<1>8. e \in Toplevel
  <2>1. Holds(e, disk', NULL)
    BY <1>1, <1>3, <1>7, SaveHolds
  <2> QED
    BY <2>1 DEF Holds
<1>9. e = x_window_save_page(toplevel, cur, m)
  OBVIOUS
<1> HIDE DEF e
<1>10. Remember({m})
  BY <1>2
<1> QED
  BY <1>1, <1>3, <1>4, <1>7, <1>8, <1>9, <1>10, SavePageKeeps

LEMMA SaveManyKeeps ==
    ASSUME Inv, NEW list \in SUBSET Open(toplevel), SaveMany(list)
    PROVE  Inv'
<1>1. PICK ok \in SUBSET list :
         /\ toplevel' = f_save(toplevel, ok, toplevel.page_current)
         /\ disk' = WriteFiles(disk, toplevel.page, ok)
         /\ Remember(ok)
  <2>1. PICK ok \in IF "faults" \in UserActs THEN SUBSET list ELSE {list} :
           /\ toplevel' = f_save(toplevel, ok, toplevel.page_current)
           /\ disk' = WriteFiles(disk, toplevel.page, ok)
           /\ Remember(ok)
    BY Zenon DEF SaveMany
  <2> QED
    BY <2>1
<1> DEFINE e == f_save(toplevel, ok, toplevel.page_current)
           f == WriteFiles(disk, toplevel.page, ok)
<1>2. /\ Holds(toplevel, disk, NULL) /\ Located(toplevel)
      /\ ok \in SUBSET Open(toplevel) /\ ok \in SUBSET Names
      /\ "save_many" \in UserActs /\ disk \in Disk /\ toplevel.page \in [Names -> PAGE]
  BY InvParts DEF SaveMany
<1>3. Holds(e, f, NULL) /\ Located(e)
  BY <1>2, SaveManyHolds
<1>4. /\ f \in Disk /\ f.backup = disk.backup
      /\ \A n \in Names : f.newer[n] = (disk.newer[n] /\ n \notin ok)
  BY <1>2, WriteFilesResult
<1>5. toplevel' = e /\ disk' = f /\ Remember(ok)
  BY <1>1
<1> HIDE DEF e, f
<1>6. BackupsKept(ok)
  BY <1>4, <1>5 DEF BackupsKept
<1> QED
  BY <1>3, <1>5, <1>6, OtherwiseKeeps

LEMMA ClosePageKeeps ==
    ASSUME Inv, toplevel.pages # << >>, x_window_close_page, Remember({})
    PROVE  Inv'
<1> DEFINE n == toplevel.page_current
           left == s_page_delete(toplevel, n)
           d == RemoveBackup(disk, n)
<1>1. /\ n \in Names /\ n \in Open(toplevel) /\ toplevel \in Toplevel
      /\ disk \in Disk /\ Holds(toplevel, disk, NULL) /\ Located(toplevel)
      /\ Len(toplevel.pages) \in Nat
  BY InvParts, ToplevelFields
<1>2. /\ d \in Disk /\ d.file = disk.file /\ d.backup[n] = NULL /\ d.newer[n] = FALSE
      /\ \A m \in Names : m # n =>
           d.backup[m] = disk.backup[m] /\ d.newer[m] = disk.newer[m]
  BY <1>1, RemoveBackupResult
<1> HIDE DEF d
<1>3. \A m \in Names : d.newer[m] => disk.newer[m] /\ d.backup[m] = disk.backup[m]
  BY <1>2
<1>4. \A m \in Names \ {n} :
         /\ d.file[m] = disk.file[m] /\ d.backup[m] = disk.backup[m]
         /\ d.newer[m] = disk.newer[m]
  BY <1>2
<1>5. CASE Len(toplevel.pages) > 1
  <2> DEFINE e == [left EXCEPT !.page_current = Neighbour(toplevel.pages, n)]
  <2>1. toplevel' = e /\ disk' = d
    BY <1>5 DEF x_window_close_page, d
  <2>2. Holds(e, d, NULL) /\ Located(e)
    BY <1>1, <1>2, <1>4, <1>5, CloseHolds
  <2> HIDE DEF e
  <2>3. BackupsKept({})
    BY <1>3, <2>1 DEF BackupsKept
  <2> QED
    BY <2>1, <2>2, <2>3, OtherwiseKeeps
<1>6. CASE ~(Len(toplevel.pages) > 1)
  <2>1. PICK u \in Untitled :
           /\ disk.file[u] = NULL
           /\ o_undo_savestate(AddPage(left, u, NewPage(Empty, FALSE)), d)
    BY <1>6, Zenon DEF x_window_close_page, d
  <2>2. /\ Holds(left, d, NULL) /\ left \in Toplevel
        /\ Len(left.pages) = Len(toplevel.pages) - 1
    BY <1>1, <1>2, <1>4, DeleteHolds
  <2> DEFINE changed == FALSE
             t == AddPage(left, u, NewPage(Empty, changed))
  <2> HIDE DEF left
  <2>3. left.pages = << >>
    <3>1. left.pages \in Seq(Names) /\ Len(left.pages) \in Nat
      BY <2>2, ToplevelFields
    <3>2. Len(left.pages) = 0
      <4>1. Len(toplevel.pages) # 0
        BY <1>1, ToplevelFields
      <4>2. Len(toplevel.pages) = 1
        <5>1. Len(toplevel.pages) \in Nat
          BY <1>1
        <5>2. \A k \in Nat : k # 0 /\ ~(k > 1) => k = 1
          OBVIOUS
        <5> QED
          BY <1>6, <4>1, <5>1, <5>2
      <4> HIDE DEF n
      <4> QED
        BY <2>2, <3>1, <4>2
    <3> QED
      BY <3>1, <3>2
  <2>4. Located(left) /\ Open(left) = {}
    BY <2>2, <2>3, OpenPages DEF Located
  <2>5. u \in Names \ Open(left) /\ Empty = FileOf(d, u) /\ Empty \in Content
    BY <1>2, <2>1, <2>4 DEF FileOf
  <2>6. o_undo_savestate(t, d) /\ changed \in BOOLEAN
    BY <2>1
  <2> HIDE DEF changed
  <2>7. Holds(t, d, t.page_current) /\ Located(t) /\ t.pages # << >>
    BY <2>2, <2>4, <2>5, <2>6, EnterHolds
  <2> HIDE DEF t
  <2> QED
    BY <1>3, <2>6, <2>7, SavestateKeeps
<1> QED
  BY <1>5, <1>6

LEMMA CloseAndSaveKeeps ==
    ASSUME Inv, CloseAndSave
    PROVE  Inv'
<1> DEFINE cur == toplevel.page_current
           c == toplevel.page[cur].content
           e == x_window_save_page(toplevel, cur, cur)
           d == WriteFile(disk, cur, c)
<1>1. /\ toplevel.pages # << >> /\ cur \in Names /\ cur \in Open(toplevel)
      /\ toplevel \in Toplevel /\ disk \in Disk /\ Holds(toplevel, disk, NULL)
      /\ Located(toplevel) /\ c \in Content
  BY InvParts, PageFields DEF CloseAndSave
<1>2. CASE toplevel' = e /\ disk' = d /\ Remember({cur})
  <2>1. Written(disk, cur, c, d)
    BY <1>1, WriteFileResult
  <2>2. /\ toplevel' = e /\ disk' = d /\ Remember({cur})
        /\ e = x_window_save_page(toplevel, cur, cur)
    BY <1>2
  <2> HIDE DEF d
  <2>3. /\ disk' \in Disk /\ disk'.file[cur] = c /\ disk'.newer[cur] = FALSE
        /\ \A n \in Names \ {cur, cur} :
             /\ disk'.file[n] = disk.file[n] /\ disk'.backup[n] = disk.backup[n]
             /\ disk'.newer[n] = disk.newer[n]
    BY <2>1, <2>2 DEF Written
  <2>4. e \in Toplevel
    <3>1. Holds(e, disk', NULL)
      BY <1>1, <2>3, SaveHolds
    <3> QED
      BY <3>1 DEF Holds
  <2> HIDE DEF e
  <2> QED
    BY <1>1, <2>2, <2>3, <2>4, SavePageKeeps
<1>3. CASE x_window_close_page /\ Remember({})
  BY <1>1, <1>3, ClosePageKeeps
<1> QED
  BY <1>2, <1>3 DEF CloseAndSave

LEMMA CloseWindowKeeps ==
    ASSUME Inv, x_window_close
    PROVE  Inv'
<1>1. /\ Holds(toplevel, disk, NULL) /\ Located(toplevel)
      /\ Changed(toplevel) \subseteq Open(toplevel) /\ Open(toplevel) \subseteq Names
      /\ disk \in Disk /\ toplevel.page \in [Names -> PAGE]
  BY InvParts DEF Changed
<1>2. PICK list \in SUBSET Changed(toplevel) :
        \/ /\ disk' = WithoutBackups(WriteFiles(disk, toplevel.page, list), Open(toplevel))
           /\ toplevel' = Started
           /\ Remember({})
        \/ /\ toplevel' = SaveEach(toplevel, list)
           /\ disk' = WriteFiles(disk, toplevel.page, list)
           /\ Remember(list)
  BY Zenon DEF x_window_close, WithoutBackups
<1> DEFINE d == WriteFiles(disk, toplevel.page, list)
           f == WithoutBackups(d, Open(toplevel))
           e == SaveEach(toplevel, list)
<1>3. list \in SUBSET Open(toplevel) /\ list \in SUBSET Names
  BY <1>1
<1>4. /\ d \in Disk /\ d.backup = disk.backup
      /\ \A n \in Names : d.newer[n] = (disk.newer[n] /\ n \notin list)
  BY <1>1, <1>3, WriteFilesResult
<1>5. CASE toplevel' = Started /\ disk' = f /\ Remember({})
  <2> HIDE DEF d
  <2>1. /\ f \in Disk
        /\ \A n \in Names :
             /\ f.backup[n] = IF n \in Open(toplevel) THEN NULL ELSE d.backup[n]
             /\ f.newer[n] = (d.newer[n] /\ n \notin Open(toplevel))
    BY <1>4, WithoutBackupsResult
  <2>2. toplevel' = Started /\ disk' = f /\ Remember({})
    BY <1>5
  <2> HIDE DEF f
  <2>3. Holds(toplevel', disk', NULL) /\ Located(toplevel')
    BY <2>1, <2>2, StartedHolds
  <2>4. BackupsKept({})
    BY <1>4, <2>1, <2>2 DEF BackupsKept
  <2> QED
    BY <2>2, <2>3, <2>4, OtherwiseKeeps
<1>6. CASE toplevel' = e /\ disk' = d /\ Remember(list)
  <2>1. Holds(e, d, NULL) /\ Located(e)
    BY <1>1, <1>3, SaveEachHolds
  <2>2. toplevel' = e /\ disk' = d /\ Remember(list)
    BY <1>6
  <2> HIDE DEF d, e
  <2>3. BackupsKept(list)
    BY <1>4, <2>2 DEF BackupsKept
  <2> QED
    BY <2>1, <2>2, <2>3, OtherwiseKeeps
<1> QED
  BY <1>2, <1>5, <1>6

LEMMA CrashKeeps ==
    ASSUME Inv, Crash
    PROVE  Inv'
<1>1. toplevel' = Started /\ disk' = disk /\ Remember({})
  BY DEF Crash
<1>2. Holds(toplevel', disk', NULL) /\ Located(toplevel')
  BY <1>1, InvParts, StartedHolds
<1>3. BackupsKept({})
  BY <1>1 DEF BackupsKept
<1> QED
  BY <1>1, <1>2, <1>3, OtherwiseKeeps

LEMMA AutosaveKeeps ==
    ASSUME Inv, s_page_autosave
    PROVE  Inv'
<1> DEFINE e == [toplevel EXCEPT !.page = [n \in Names |->
                    IF n \in Changed(toplevel) /\ @[n].ops_since_last_backup
                    THEN [@[n] EXCEPT !.do_autosave_backup = TRUE] ELSE @[n]]]
<1>1. toplevel' = e /\ disk' = disk /\ since' = since
  BY Zenon DEF s_page_autosave
<1>2. Holds(e, disk, NULL) /\ Located(e)
  BY InvParts, FlagHolds
<1> HIDE DEF e
<1>3. since' \in [Names -> SUBSET Content] /\ BackupHoldsUnsavedWork'
  BY <1>1, InvParts DEF BackupHoldsUnsavedWork
<1> QED
  BY <1>1, <1>2, <1>3 DEF Inv

LEMMA NextInv == Inv /\ [Next]_vars => Inv'
<1> SUFFICES ASSUME Inv, [Next]_vars
             PROVE  Inv'
  OBVIOUS
<1>1. CASE OpenFile
  BY <1>1, OpenFileKeeps
<1>2. CASE NewFile
  BY <1>2, NewFileKeeps
<1>3. CASE OpenAgain
  BY <1>3, OpenAgainKeeps
<1>4. CASE x_window_set_current_page
  BY <1>4, GotoKeeps
<1>5. CASE Edit
  BY <1>5, EditKeeps
<1>6. CASE do_undo \/ do_redo
  BY <1>6, StepUndoKeeps
<1>7. CASE do_save
  BY <1>7, DoSaveKeeps
<1>8. CASE do_save_as
  BY <1>8, DoSaveAsKeeps
<1>9. CASE do_save_all
  BY <1>9, SaveManyKeeps DEF do_save_all
<1>10. CASE do_save_mods
  <2>1. Changed(toplevel) \in SUBSET Open(toplevel)
    BY DEF Changed
  <2> QED
    BY <1>10, <2>1, SaveManyKeeps DEF do_save_mods
<1>11. CASE i_window_close_page
  BY <1>11, ClosePageKeeps DEF i_window_close_page
<1>12. CASE CloseAndSave
  BY <1>12, CloseAndSaveKeeps
<1>13. CASE x_window_close
  BY <1>13, CloseWindowKeeps
<1>14. CASE Crash
  BY <1>14, CrashKeeps
<1>15. CASE s_page_autosave
  BY <1>15, AutosaveKeeps
<1>16. CASE UNCHANGED vars
  <2>1. toplevel' = toplevel /\ disk' = disk /\ since' = since
    BY <1>16 DEF vars
  <2> QED
    BY <2>1, InvParts DEF Inv, BackupHoldsUnsavedWork
<1> QED
  BY <1>1, <1>2, <1>3, <1>4, <1>5, <1>6, <1>7, <1>8, <1>9, <1>10, <1>11, <1>12,
     <1>13, <1>14, <1>15, <1>16 DEF Next

LEMMA InvHolds == Spec => []Inv
BY InitInv, NextInv, PTL DEF Spec

-----------------------------------------------------------------------------
(* The pages, their records, the files and the backups are always of the    *)
(* types the code gives them, whatever is opened, saved, closed or lost.    *)
THEOREM PagesTyped == Spec => []TypeOK
<1>1. Inv => TypeOK
  BY DEF Inv, Holds, Toplevel, Disk, TypeOK
<1> QED
  BY <1>1, InvHolds, PTL

(* toplevel->page_current is an open page and no page is listed twice,      *)
(* after any sequence of openings, renamings, closings and backups.         *)
THEOREM CurrentStaysOpen == Spec => []CurrentIsOpen
<1>1. Inv => CurrentIsOpen
  BY DEF Inv, Holds, Located, CurrentIsOpen
<1> QED
  BY <1>1, InvHolds, PTL

(* A backup file newer than its schematic, which f_open offers, holds a     *)
(* state that this page had since its file was written: o_save_auto_backup  *)
(* never writes the objects of one page to the backup of another, and no    *)
(* save leaves an older backup that passes for newer.                       *)
THEOREM BackupsHoldUnsavedWork == Spec => []BackupHoldsUnsavedWork
<1>1. Inv => BackupHoldsUnsavedWork
  BY DEF Inv
<1> QED
  BY <1>1, InvHolds, PTL

(* Where the page that is edited is the page whose state is saved, the      *)
(* current record of each page is what the page holds, and undo and redo    *)
(* go between states of that page.                                          *)
THEOREM RecordsStayWithPages == OneAtATime /\ Spec => []RecordsMatchPages
<1>1. Inv /\ OneAtATime => RecordsMatchPages
  <2> SUFFICES ASSUME Inv, OneAtATime, NEW n \in Open(toplevel)
               PROVE  LET u == toplevel.page[n].undo
                      IN  u.current # 0 => u.list[u.current].page = toplevel.page[n].content
    BY DEF RecordsMatchPages
  <2>1. PageHolds(toplevel, disk, n, NULL) /\ n # NULL
    BY InvParts DEF Holds
  <2>2. Matches(toplevel.page[n].undo, toplevel.page[n].content)
    BY <2>1, Zenon DEF PageHolds
  <2> QED
    BY <2>2 DEF Matches
<1>2. OneAtATime => OneAtATime'
  BY DEF OneAtATime
<1> QED
  BY <1>1, <1>2, InvHolds, PTL

(* While the records a save marks are those of the page it saved, a page    *)
(* without CHANGED is what its file holds, so that closing it without a     *)
(* question loses nothing; after undo and redo as well.                     *)
THEOREM UnchangedPagesAreSaved == OwnRecordsMarked /\ Spec => []SavedFlagsSound
<1>1. Inv /\ OwnRecordsMarked => SavedFlagsSound
  <2> SUFFICES ASSUME Inv, OwnRecordsMarked, NEW n \in Open(toplevel),
                      ~toplevel.page[n].CHANGED
               PROVE  toplevel.page[n].content =
                        IF disk.file[n] = NULL THEN Empty ELSE disk.file[n]
    BY DEF SavedFlagsSound
  <2>1. PageHolds(toplevel, disk, n, NULL)
    BY InvParts DEF Holds
  <2>2. toplevel.page[n].content = FileOf(disk, n)
    BY <2>1, Zenon DEF PageHolds
  <2> QED
    BY <2>2 DEF FileOf
<1>2. OwnRecordsMarked => OwnRecordsMarked'
  BY DEF OwnRecordsMarked, OneAtATime
<1> QED
  BY <1>1, <1>2, InvHolds, PTL

(* While pages change by edits alone and the page edited is the one whose   *)
(* state is saved, a changed page that counts no operation since its last   *)
(* backup is exactly what its backup file holds: a crash loses nothing.     *)
THEOREM NothingIsLeftToBackUp == Watched /\ Spec => []NothingToBackUp
<1>1. Inv /\ Watched => NothingToBackUp
  <2> SUFFICES ASSUME Inv, Watched, NEW n \in Open(toplevel),
                      toplevel.page[n].CHANGED,
                      ~toplevel.page[n].ops_since_last_backup
               PROVE  disk.newer[n] /\ disk.backup[n] = toplevel.page[n].content
    BY DEF NothingToBackUp
  <2>1. PageHolds(toplevel, disk, n, NULL) /\ n # NULL
    BY InvParts DEF Holds
  <2> QED
    BY <2>1, Zenon DEF PageHolds
<1>2. Watched => Watched'
  BY DEF Watched, OneAtATime
<1> QED
  BY <1>1, <1>2, InvHolds, PTL
=============================================================================
