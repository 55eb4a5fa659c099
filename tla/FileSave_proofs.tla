--------------------------- MODULE FileSave_proofs ---------------------------
(***************************************************************************)
(* The version a session found is never lost, for any contents, setting    *)
(* and choice of crashes and failures.                                     *)
(***************************************************************************)
EXTENDS FileSave, TLAPS

(* The steps of the copy. *)
CopySteps == {"backup", "copy", "copying", "spinning"}

(* A save that copies runs in a session that has not saved, on a file that  *)
(* is there and not empty.                                                  *)
StepsSound ==
    /\ step # "idle" => page # NULL
    /\ step \in CopySteps =>
         ~page.saved_since_first_loaded /\ disk.file \notin {NULL, Blank}

(* Where the version to keep is, at each step: VersionKept alone says       *)
(* nothing of which of the two files the next step may overwrite.           *)
WhereKept ==
    kept # NULL =>
        /\ make_backup_files /\ disk.file # NULL
        /\ \/ "copy" \in unnoticed
           \/ disk.tilde = kept
           \/ disk.file = kept /\ step \notin {"truncate", "write"}
        /\ step \in CopySteps => disk.file = kept
        /\ page # NULL /\ step \in {"idle", "autosave"} =>
             IF page.saved_since_first_loaded
             THEN disk.tilde = kept \/ "copy" \in unnoticed
             ELSE disk.file \in {kept, Blank}

IInv == TypeOK /\ StepsSound /\ WhereKept

DISK == [file : FILE, tilde : FILE, sharp : FILE, newer : BOOLEAN, full : BOOLEAN]

LEMMA NoContent == \A c \in Content : c # NULL /\ c # Blank /\ c # Torn
BY FileSaveAssumption

(* A session starts with all that the specification assumes of it.          *)
LEMMA InitInv == Init => IInv
BY FileSaveAssumption, PageIsNotNull
   DEF Init, IInv, TypeOK, StepsSound, WhereKept, CopySteps, FILE, Steps

(* Whatever is on the disk, opening it promises to keep what is there.      *)
LEMMA OpenInv == IInv /\ f_open => IInv'
<1> SUFFICES ASSUME IInv, f_open PROVE IInv'
  OBVIOUS
<1> USE NoContent, PageIsNotNull DEF IInv, TypeOK, FILE
<1>1. PICK load \in LoadNewerBackup :
        /\ load = "backup" => disk.sharp # NULL
        /\ \E c \in o_read(IF load = "backup" THEN disk.sharp ELSE disk.file) :
              /\ page' = IF c = NULL THEN NULL ELSE NewPage(c, load # "original")
              /\ kept' = IF c = NULL THEN kept ELSE Promise
              /\ disk' = IF c = NULL \/ load = "discard"
                         THEN [disk EXCEPT !.sharp = NULL, !.newer = FALSE] ELSE disk
  BY DEF f_open, LoadNewerBackup, ActiveAutosave
<1> DEFINE read == IF load = "backup" THEN disk.sharp ELSE disk.file
<1>0. PICK c \in o_read(read) :
        /\ page' = IF c = NULL THEN NULL ELSE NewPage(c, load # "original")
        /\ kept' = IF c = NULL THEN kept ELSE Promise
        /\ disk' = IF c = NULL \/ load = "discard"
                   THEN [disk EXCEPT !.sharp = NULL, !.newer = FALSE] ELSE disk
  BY <1>1
<1>u. /\ disk.file # NULL /\ page = NULL /\ step = "idle"
      /\ UNCHANGED <<step, unnoticed>>
  BY DEF f_open
<1>2. c \in Content \cup {NULL}
  BY <1>0, <1>u, <1>1, FileSaveAssumption DEF o_read
<1>3. TypeOK'
  BY <1>0, <1>u, <1>1, <1>2 DEF NewPage, PAGE, Promise
<1>4. StepsSound'
  BY <1>0, <1>u, <1>1 DEF StepsSound, CopySteps
<1>5. disk'.file = disk.file /\ disk'.tilde = disk.tilde
  BY <1>0, <1>u, <1>1
<1>6. CASE c = NULL
  BY <1>0, <1>u, <1>1, <1>3, <1>4, <1>5, <1>6 DEF WhereKept, CopySteps
<1>7. CASE c # NULL
  <2>1. ~page'.saved_since_first_loaded
    BY <1>0, <1>u, <1>1, <1>7 DEF NewPage
  <2>2. kept' # NULL => kept' = disk.file \/ (kept' = kept /\ disk.file = Blank)
    BY <1>0, <1>u, <1>1, <1>7 DEF Promise
  <2>3. kept' # NULL => make_backup_files
    BY <1>0, <1>u, <1>1, <1>7 DEF Promise
  <2> QED BY <1>0, <1>u, <1>1, <1>3, <1>4, <1>5, <2>1, <2>2, <2>3 DEF WhereKept, CopySteps
<1> QED BY <1>3, <1>4, <1>6, <1>7

LEMMA NextInv == IInv /\ [Next]_vars => IInv'
<1> SUFFICES ASSUME IInv, [Next]_vars PROVE IInv'
  OBVIOUS
<1> USE NoContent, PageIsNotNull, FileSaveAssumption
    DEF IInv, TypeOK, FILE, Steps, StepsSound, WhereKept, CopySteps
<1>1. CASE f_open
  BY <1>1, OpenInv
<1>2. CASE empty_page
  BY <1>2 DEF empty_page, Promise, NewPage, PAGE
<1>3. CASE Edit
  <2>1. PICK c \in Content :
          page' = [page EXCEPT !.content = c, !.CHANGED = TRUE,
                               !.ops_since_last_backup = TRUE]
    BY <1>3 DEF Edit
  <2>2. page \in PAGE /\ UNCHANGED <<disk, step, kept, unnoticed>> /\ step = "idle"
    BY <1>3 DEF Edit
  <2>3. page' \in PAGE /\ page'.saved_since_first_loaded = page.saved_since_first_loaded
    BY <2>1, <2>2 DEF PAGE
  <2> QED BY <2>2, <2>3, PageIsNotNull
<1>4. CASE s_page_delete
  BY <1>4 DEF s_page_delete
<1>5. CASE f_save
  BY <1>5 DEF f_save, NeedsBackup
<1>6. CASE o_save_auto_backup
  BY <1>6 DEF o_save_auto_backup
<1>7. CASE RemoveTilde
  BY <1>7 DEF RemoveTilde
<1>8. CASE CopyOpen
  BY <1>8 DEF CopyOpen
<1>9. CASE CopyWrite
  BY <1>9 DEF CopyWrite
<1>10. CASE CopySpins
  BY <1>10 DEF CopySpins
<1>11. CASE Truncate
  BY <1>11 DEF Truncate
<1>12. CASE Write
  BY <1>12 DEF Write, Written, Unnoticed, PAGE
<1>13. CASE AutosaveWrite
  BY <1>13 DEF AutosaveWrite, Written, Unnoticed, PAGE
<1>14. CASE Crash
  BY <1>14 DEF Crash
<1>15. CASE DiskFills
  BY <1>15 DEF DiskFills
<1>16. CASE UNCHANGED vars
  BY <1>16 DEF vars
<1> QED
  BY <1>1, <1>2, <1>3, <1>4, <1>5, <1>6, <1>7, <1>8, <1>9, <1>10, <1>11, <1>12,
     <1>13, <1>14, <1>15, <1>16 DEF Next, Proceed

LEMMA AlwaysInv == Spec => []IInv
<1>1. Init => IInv  BY InitInv
<1>2. IInv /\ [Next]_vars => IInv'  BY NextInv
<1> QED BY <1>1, <1>2, PTL DEF Spec

(* Every command leaves pages, files and steps of their types.              *)
THEOREM FileTypeOK == Spec => []TypeOK
<1>1. IInv => TypeOK  BY DEF IInv
<1> QED BY <1>1, AlwaysInv, PTL

(* What f_save's copy is for: the version a session found stays on the disk *)
(* whole, whatever is saved, autosaved and closed, and wherever a crash     *)
(* falls, in that session and in those after it that find an empty file.    *)
THEOREM VersionIsKept == Spec => []VersionKept
<1>1. IInv => VersionKept
  BY DEF IInv, WhereKept, VersionKept
<1> QED BY <1>1, AlwaysInv, PTL

-----------------------------------------------------------------------------
(* What was saved and what was backed up, also while the next backup is     *)
(* being written.  A save in its course says nothing of the file.           *)
WholeSave ==
    page # NULL /\ step \in {"idle", "autosave"} /\ page.saved_since_first_loaded
    /\ ~page.CHANGED /\ "write" \notin unnoticed
    => disk.file = page.content

BackupNewer == step = "autosave" => disk.newer /\ page # NULL

SavedInv == WholeSave /\ BackupNewer /\ NothingDueNothingLost

LEMMA SavedStep == IInv /\ SavedInv /\ [Next]_vars => SavedInv'
<1> SUFFICES ASSUME IInv, SavedInv, [Next]_vars PROVE SavedInv'
  OBVIOUS
<1> USE NoContent, PageIsNotNull, FileSaveAssumption
    DEF IInv, TypeOK, FILE, Steps, StepsSound, CopySteps,
        SavedInv, WholeSave, BackupNewer, NothingDueNothingLost
<1>1. CASE f_open
  <2>1. PICK load \in LoadNewerBackup :
          /\ load = "backup" => disk.sharp # NULL /\ disk.newer
          /\ \E c \in o_read(IF load = "backup" THEN disk.sharp ELSE disk.file) :
                /\ page' = IF c = NULL THEN NULL ELSE NewPage(c, load # "original")
                /\ disk' = IF c = NULL \/ load = "discard"
                           THEN [disk EXCEPT !.sharp = NULL, !.newer = FALSE] ELSE disk
    BY <1>1 DEF f_open, LoadNewerBackup, ActiveAutosave
  <2>2. PICK c \in o_read(IF load = "backup" THEN disk.sharp ELSE disk.file) :
          /\ page' = IF c = NULL THEN NULL ELSE NewPage(c, load # "original")
          /\ disk' = IF c = NULL \/ load = "discard"
                     THEN [disk EXCEPT !.sharp = NULL, !.newer = FALSE] ELSE disk
    BY <2>1
  <2>3. UNCHANGED <<step, unnoticed>> /\ step = "idle" /\ disk.file # NULL
    BY <1>1 DEF f_open
  <2>4. c \in {NULL, Damaged, Empty} \/ c = IF load = "backup" THEN disk.sharp ELSE disk.file
    BY <2>2 DEF o_read
  <2>5. CASE c = NULL
    BY <2>2, <2>3, <2>5
  <2>6. CASE c # NULL
    <3>1. ~page'.saved_since_first_loaded /\ page'.content = c
      BY <2>2, <2>6 DEF NewPage
    <3>2. load = "backup" => disk' = disk
      BY <2>2, <2>6
    <3>3. disk'.file = disk.file
      BY <2>2, <2>6
    <3>4. page'.content \in {Empty, Damaged} \/ page'.content = disk'.file
            \/ (page'.content = disk'.sharp /\ disk'.newer)
      BY <2>1, <2>4, <2>6, <3>1, <3>2, <3>3
    <3> QED BY <2>3, <3>1, <3>4
  <2> QED BY <2>5, <2>6
<1>2. CASE empty_page
  BY <1>2 DEF empty_page, NewPage
<1>3. CASE Edit
  <2>1. PICK c \in Content :
          page' = [page EXCEPT !.content = c, !.CHANGED = TRUE,
                               !.ops_since_last_backup = TRUE]
    BY <1>3 DEF Edit
  <2>2. page \in PAGE /\ UNCHANGED <<disk, step, kept, unnoticed>> /\ step = "idle"
    BY <1>3 DEF Edit
  <2>3. page'.CHANGED /\ page'.ops_since_last_backup
    BY <2>1, <2>2 DEF PAGE
  <2> QED BY <2>2, <2>3
<1>4. CASE s_page_delete
  BY <1>4 DEF s_page_delete
<1>5. CASE f_save
  BY <1>5 DEF f_save
<1>6. CASE o_save_auto_backup
  BY <1>6 DEF o_save_auto_backup
<1>7. CASE RemoveTilde
  BY <1>7 DEF RemoveTilde
<1>8. CASE CopyOpen
  BY <1>8 DEF CopyOpen
<1>9. CASE CopyWrite
  BY <1>9 DEF CopyWrite
<1>10. CASE CopySpins
  BY <1>10 DEF CopySpins
<1>11. CASE Truncate
  BY <1>11 DEF Truncate
<1>12. CASE Write
  BY <1>12 DEF Write, Written, Unnoticed, PAGE
<1>13. CASE AutosaveWrite
  BY <1>13 DEF AutosaveWrite, Written, Unnoticed, PAGE
<1>14. CASE Crash
  BY <1>14 DEF Crash
<1>15. CASE DiskFills
  BY <1>15 DEF DiskFills
<1>16. CASE UNCHANGED vars
  BY <1>16 DEF vars
<1> QED
  BY <1>1, <1>2, <1>3, <1>4, <1>5, <1>6, <1>7, <1>8, <1>9, <1>10, <1>11, <1>12,
     <1>13, <1>14, <1>15, <1>16 DEF Next, Proceed

LEMMA AlwaysSaved == Spec => []SavedInv
<1>1. Init => SavedInv
  BY DEF Init, SavedInv, WholeSave, BackupNewer, NothingDueNothingLost
<1>2. IInv /\ SavedInv /\ [Next]_vars => SavedInv'  BY SavedStep
<1> QED BY <1>1, <1>2, AlwaysInv, PTL DEF Spec

(* A page that was saved and not changed since is in its file, whole,       *)
(* whatever happened in between, unless the disk was full at a write.       *)
THEOREM SavedPageIsWritten == Spec => []SavedIsWritten
<1>1. SavedInv => SavedIsWritten
  BY DEF SavedInv, WholeSave, SavedIsWritten
<1> QED BY <1>1, AlwaysSaved, PTL

(* When no autosave is due, a crash loses nothing.                          *)
THEOREM NothingDueMeansSafe == Spec => []NothingDueNothingLost
<1>1. SavedInv => NothingDueNothingLost
  BY DEF SavedInv
<1> QED BY <1>1, AlwaysSaved, PTL
=============================================================================
