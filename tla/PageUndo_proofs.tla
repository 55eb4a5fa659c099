-------------------------- MODULE PageUndo_proofs --------------------------
(***************************************************************************)
(* What holds of one page's editing session in every setting, for every    *)
(* page content, every limit on the history, whatever the user does and    *)
(* whichever file system call fails; and then what more holds of ordinary  *)
(* sessions.                                                               *)
(***************************************************************************)
EXTENDS PageUndo, UndoRecords_proofs

(* The list and undo_current agree on whether there is a record. *)
WellShaped(s) == s.current = 0 <=> s.list = << >>

LEMMA AtTopWellShaped ==
    ASSUME NEW s \in Stack, s.current = Len(s.list)
    PROVE  WellShaped(s)
BY StackFields DEF WellShaped

(* Saving a state, for the provers: what its outcome is and what it keeps.  *)
LEMMA SavestateStep ==
    ASSUME TypeOK, NEW s \in Stack, NEW flag \in RecordType, NEW c \in Content,
           NEW changed \in BOOLEAN, o_undo_savestate(flag, s, c, changed)
    PROVE  /\ undo' \in Stack /\ undo_type' \in UNDO_TYPE
           /\ undo_file_index' \in 0..(CheckEvery - 1)
           /\ dangling' \in BOOLEAN
           /\ undo_control => undo'.current = Len(undo'.list)
           /\ WellShaped(s) => WellShaped(undo')
           /\ UndoLevels >= 1 /\ ~dangling => ~dangling'
<1>1. CASE undo_control
  <2>1. PICK ok \in Outcomes :
           LET r == Savestate(s, undo_type, undo_file_index, flag, c, changed, ok)
           IN  /\ undo' = r.undo
               /\ undo_type' = r.undo_type
               /\ undo_file_index' = r.index
               /\ dangling' = r.dangling
    BY <1>1 DEF o_undo_savestate
  <2>2. ok \in BOOLEAN
    BY DEF Outcomes
  <2>3. undo_type \in UNDO_TYPE /\ undo_file_index \in 0..(CheckEvery - 1)
    BY DEF TypeOK
  <2> DEFINE r == Savestate(s, undo_type, undo_file_index, flag, c, changed, ok)
  <2>4. /\ r.undo \in Stack /\ r.undo.current = Len(r.undo.list)
        /\ r.undo_type \in UNDO_TYPE /\ r.index \in 0..(CheckEvery - 1)
        /\ r.dangling \in BOOLEAN
        /\ UndoLevels >= 1 => ~r.dangling
    BY <2>2, <2>3, SavestateType
  <2>5. undo' = r.undo /\ undo_type' = r.undo_type /\ undo_file_index' = r.index
        /\ dangling' = r.dangling
    BY <2>1
  <2> HIDE DEF r
  <2>6. undo' \in Stack /\ undo'.current = Len(undo'.list)
    BY <2>4, <2>5
  <2> QED
    BY <2>4, <2>5, <2>6, AtTopWellShaped
<1>2. CASE ~undo_control
  BY <1>2 DEF o_undo_savestate, TypeOK
<1> QED
  BY <1>1, <1>2

(* Going to another record, or trying to. *)
LEMMA CallbackStep ==
    ASSUME TypeOK, NEW s \in Stack, NEW target \in Int, NEW c \in Content,
           NEW changed \in BOOLEAN, o_undo_callback(s, target, c, changed)
    PROVE  /\ undo' \in Stack /\ content' \in Content /\ CHANGED' \in BOOLEAN
           /\ filename' \in {"page", "undo"}
           /\ WellShaped(s) => WellShaped(undo')
           /\ ~undo_control \/ target \notin DOMAIN s.list
                => undo' = s /\ content' = c
<1>1. filename \in {"page", "undo"}
  BY DEF TypeOK
<1>2. CASE ~undo_control \/ s.current = 0 \/ target \notin DOMAIN s.list
  BY <1>1, <1>2 DEF o_undo_callback
<1>3. CASE ~(~undo_control \/ s.current = 0 \/ target \notin DOMAIN s.list)
  <2> DEFINE data == RestoredFrom(s, target, undo_type)
  <2>1. target \in 1..Len(s.list)
    BY <1>3, StackFields
  <2>2. data \in Content \cup {NULL}
    BY <2>1, RestoredFromType
  <2>3. s.list[target].modified \in BOOLEAN
    BY <2>1, StackFields, RecordFields
  <2> HIDE DEF data
  <2>4. CASE /\ undo' = StepTo(s, target)
             /\ content' = IF data = NULL THEN c ELSE data
             /\ CHANGED' = IF data = NULL THEN changed ELSE s.list[target].modified
             /\ UNCHANGED filename
    <3>1. StepTo(s, target) \in Stack /\ StepTo(s, target).current = target
      BY <2>1, StepToResult
    <3>2. WellShaped(StepTo(s, target))
      <4>1. StepTo(s, target).current # 0
        BY <2>1, <3>1, StackFields
      <4>2. StepTo(s, target).list # << >>
        <5>1. Len(StepTo(s, target).list) \in Nat /\ target <= Len(StepTo(s, target).list)
          BY <3>1, StackFields
        <5>2. Len(StepTo(s, target).list) # 0
          BY <2>1, <5>1, StackFields
        <5> QED
          BY <5>2
      <4> QED
        BY <4>1, <4>2 DEF WellShaped
    <3>3. content' \in Content /\ CHANGED' \in BOOLEAN /\ filename' \in {"page", "undo"}
      BY <1>1, <2>2, <2>3, <2>4
    <3>4. undo' \in Stack /\ WellShaped(undo')
      BY <2>4, <3>1, <3>2
    <3> QED
      BY <1>3, <3>3, <3>4
  <2>5. CASE UndoFileLost(s, data, changed)
    <3>1. undo' = NoUndo /\ content' = Empty /\ CHANGED' = changed
          /\ filename' \in {filename, "undo"} /\ "faults" \in UserActs
      BY <2>5 DEF UndoFileLost
    <3>2. WellShaped(NoUndo) /\ NoUndo \in Stack
      BY NoUndoType, AtTopWellShaped
    <3> QED
      BY <1>1, <1>3, <3>1, <3>2, EmptyAssumption
  <2> QED
    BY <1>3, <2>4, <2>5 DEF o_undo_callback, data
<1> QED
  BY <1>2, <1>3

-----------------------------------------------------------------------------
(* The invariant: the type, the agreement of list and undo_current, and     *)
(* that a move has its record on top.  The last needs the first two, for    *)
(* the record is on top because o_undo_savestate put it there.              *)
IInv == TypeOK /\ Shape /\ NoRedoDuringMove

LEMMA InitIInv == Init => IInv /\ (UndoLevels >= 1 => NeverExhausted)
<1> SUFFICES ASSUME Init
             PROVE  IInv /\ (UndoLevels >= 1 => NeverExhausted)
  OBVIOUS
<1>1. PICK c \in Content, type \in UndoTypes :
         LET first == Savestate(NoUndo, type, 0, "UNDO_ALL", c, FALSE, TRUE)
         IN  /\ content = c /\ file = c /\ before = c
             /\ CHANGED = FALSE
             /\ filename = "page"
             /\ undo_control = TRUE
             /\ undo = first.undo
             /\ undo_type = first.undo_type
             /\ undo_file_index = first.index
             /\ dangling = first.dangling
             /\ inside_action = FALSE
             /\ event_state = "SELECT"
  BY DEF Init
<1> DEFINE first == Savestate(NoUndo, type, 0, "UNDO_ALL", c, FALSE, TRUE)
<1>2. /\ type \in UNDO_TYPE /\ 0 \in 0..(CheckEvery - 1) /\ "UNDO_ALL" \in RecordType
      /\ NoUndo \in Stack
  BY SettingsAssumption, LimitAssumption, NoUndoType DEF RecordType
<1>3. /\ first.undo \in Stack /\ first.undo.current = Len(first.undo.list)
      /\ first.undo_type \in UNDO_TYPE /\ first.index \in 0..(CheckEvery - 1)
      /\ first.dangling \in BOOLEAN
      /\ UndoLevels >= 1 => ~first.dangling
  BY <1>2, SavestateType
<1>4. /\ undo = first.undo /\ undo_type = first.undo_type
      /\ undo_file_index = first.index /\ dangling = first.dangling
  BY <1>1
<1> HIDE DEF first
<1>5. undo \in Stack /\ undo.current = Len(undo.list)
  BY <1>3, <1>4
<1>6. TypeOK
  BY <1>1, <1>3, <1>4, <1>5 DEF TypeOK
<1>7. Shape
  BY <1>5, AtTopWellShaped DEF Shape, WellShaped
<1>8. NoRedoDuringMove
  BY <1>5 DEF NoRedoDuringMove
<1> QED
  BY <1>3, <1>4, <1>6, <1>7, <1>8 DEF IInv, NeverExhausted

LEMMA NextIInv ==
    IInv /\ [Next]_vars =>
        IInv' /\ (UndoLevels >= 1 /\ NeverExhausted => NeverExhausted')
<1> SUFFICES ASSUME IInv, [Next]_vars
             PROVE  IInv' /\ (UndoLevels >= 1 /\ NeverExhausted => NeverExhausted')
  OBVIOUS
<1>0. /\ TypeOK /\ undo \in Stack /\ WellShaped(undo)
      /\ content \in Content /\ file \in Content /\ CHANGED \in BOOLEAN
      /\ undo.current \in Nat
      /\ "UNDO_ALL" \in RecordType /\ "UNDO_VIEWPORT_ONLY" \in RecordType
  BY StackFields DEF IInv, TypeOK, Shape, WellShaped, RecordType
<1>1. CASE Edit
  <2>1. PICK c \in Content, changed \in {TRUE, CHANGED} :
           /\ content' = c /\ CHANGED' = changed
           /\ o_undo_savestate("UNDO_ALL", undo, c, changed)
    BY <1>1 DEF Edit
  <2>2. changed \in BOOLEAN
    BY <1>0
  <2>3. /\ undo' \in Stack /\ undo_type' \in UNDO_TYPE
        /\ undo_file_index' \in 0..(CheckEvery - 1) /\ dangling' \in BOOLEAN
        /\ WellShaped(undo')
        /\ UndoLevels >= 1 /\ ~dangling => ~dangling'
    BY <1>0, <2>1, <2>2, SavestateStep
  <2>4. /\ ~inside_action /\ inside_action' = inside_action
        /\ UNCHANGED <<filename, file, undo_control, event_state, before>>
    BY <1>1 DEF Edit, move
  <2> QED
    BY <1>0, <2>1, <2>2, <2>3, <2>4
    DEF IInv, TypeOK, Shape, WellShaped, NoRedoDuringMove, NeverExhausted
<1>2. CASE Zoom
  <2>1. o_undo_savestate("UNDO_VIEWPORT_ONLY", undo, content, CHANGED)
    BY <1>2 DEF Zoom
  <2>2. /\ undo' \in Stack /\ undo_type' \in UNDO_TYPE
        /\ undo_file_index' \in 0..(CheckEvery - 1) /\ dangling' \in BOOLEAN
        /\ WellShaped(undo')
        /\ undo_control => undo'.current = Len(undo'.list)
        /\ UndoLevels >= 1 /\ ~dangling => ~dangling'
    BY <1>0, <2>1, SavestateStep
  <2>3. UNCHANGED <<content, CHANGED, filename, file, undo_control,
                    inside_action, event_state, before>>
    BY <1>2 DEF Zoom, page, move
  <2> QED
    BY <1>0, <2>2, <2>3
    DEF IInv, TypeOK, Shape, WellShaped, NoRedoDuringMove, NeverExhausted
<1>3. CASE o_move_start
  <2>1. o_undo_savestate("UNDO_ALL", undo, content, CHANGED)
    BY <1>3 DEF o_move_start
  <2>2. /\ undo' \in Stack /\ undo_type' \in UNDO_TYPE
        /\ undo_file_index' \in 0..(CheckEvery - 1) /\ dangling' \in BOOLEAN
        /\ WellShaped(undo')
        /\ undo_control => undo'.current = Len(undo'.list)
        /\ UndoLevels >= 1 /\ ~dangling => ~dangling'
    BY <1>0, <2>1, SavestateStep
  <2>3. /\ inside_action' = TRUE /\ event_state' = "MOVEMODE" /\ before' = content
        /\ UNCHANGED <<content, CHANGED, filename, file, undo_control>>
    BY <1>3 DEF o_move_start, page
  <2> QED
    BY <1>0, <2>2, <2>3
    DEF IInv, TypeOK, Shape, WellShaped, NoRedoDuringMove, NeverExhausted
<1>4. CASE o_place_rotate
  BY <1>0, <1>4 DEF o_place_rotate, history, move, IInv, TypeOK, Shape,
                    WellShaped, NoRedoDuringMove, NeverExhausted
<1>5. CASE o_move_end
  <2>1. PICK c \in Content :
           content' = c /\ o_undo_savestate("UNDO_ALL", RemoveLast(undo), c, TRUE)
    BY <1>5 DEF o_move_end
  <2>2. RemoveLast(undo) \in Stack /\ WellShaped(RemoveLast(undo))
    BY <1>0, RemoveLastResult DEF WellShaped
  <2>3. /\ undo' \in Stack /\ undo_type' \in UNDO_TYPE
        /\ undo_file_index' \in 0..(CheckEvery - 1) /\ dangling' \in BOOLEAN
        /\ WellShaped(undo')
        /\ UndoLevels >= 1 /\ ~dangling => ~dangling'
    BY <1>0, <2>1, <2>2, SavestateStep
  <2>4. /\ CHANGED' = TRUE /\ inside_action' = FALSE /\ event_state' = "SELECT"
        /\ UNCHANGED <<filename, file, undo_control, before>>
    BY <1>5 DEF o_move_end
  <2> QED
    BY <1>0, <2>1, <2>3, <2>4
    DEF IInv, TypeOK, Shape, WellShaped, NoRedoDuringMove, NeverExhausted
<1>6. CASE i_callback_cancel
  <2>1. /\ undo' \in Stack /\ content' \in Content /\ CHANGED' \in BOOLEAN
        /\ filename' \in {"page", "undo"} /\ WellShaped(undo')
    <3>1. PICK stripped \in Content \ {content} :
            IF event_state = "MOVEMODE"
            THEN o_undo_callback(undo, undo.current - 1, stripped, TRUE)
            ELSE /\ content' = stripped
                 /\ CHANGED' = TRUE
                 /\ UNCHANGED <<undo, filename>>
      BY <1>6 DEF i_callback_cancel
    <3>2. CASE event_state = "MOVEMODE"
      <4>1. o_undo_callback(undo, undo.current - 1, stripped, TRUE)
        BY <3>1, <3>2
      <4>2. undo.current - 1 \in Int
        BY <1>0
      <4> QED
        BY <1>0, <4>1, <4>2, CallbackStep
    <3>3. CASE event_state # "MOVEMODE"
      BY <1>0, <3>1, <3>3 DEF TypeOK
    <3> QED
      BY <3>2, <3>3
  <2>2. /\ inside_action' = FALSE /\ event_state' = "SELECT"
        /\ UNCHANGED <<file, undo_type, undo_control, undo_file_index, dangling, before>>
    BY <1>6 DEF i_callback_cancel
  <2> QED
    BY <1>0, <2>1, <2>2
    DEF IInv, TypeOK, Shape, WellShaped, NoRedoDuringMove, NeverExhausted
<1>7. CASE do_undo
  <2>1. o_undo_callback(undo, undo.current - 1, content, CHANGED)
        /\ undo.current - 1 \in Int
    BY <1>0, <1>7 DEF do_undo
  <2>2. /\ undo' \in Stack /\ content' \in Content /\ CHANGED' \in BOOLEAN
        /\ filename' \in {"page", "undo"} /\ WellShaped(undo')
    BY <1>0, <2>1, CallbackStep
  <2>3. /\ ~inside_action
        /\ UNCHANGED <<file, undo_type, undo_control, undo_file_index, dangling,
                       inside_action, event_state, before>>
    BY <1>7 DEF do_undo, move
  <2> QED
    BY <1>0, <2>2, <2>3
    DEF IInv, TypeOK, Shape, WellShaped, NoRedoDuringMove, NeverExhausted
<1>8. CASE do_redo
  <2>1. o_undo_callback(undo, undo.current + 1, content, CHANGED)
        /\ undo.current + 1 \in Int
    BY <1>0, <1>8 DEF do_redo
  <2>2. /\ undo' \in Stack /\ content' \in Content /\ CHANGED' \in BOOLEAN
        /\ filename' \in {"page", "undo"} /\ WellShaped(undo')
        /\ ~undo_control \/ undo.current + 1 \notin DOMAIN undo.list => undo' = undo
    BY <1>0, <2>1, CallbackStep
  <2>3. UNCHANGED <<file, undo_type, undo_control, undo_file_index, dangling,
                    inside_action, event_state, before>>
    BY <1>8 DEF do_redo, move
  <2>4. NoRedoDuringMove'
    <3>1. CASE inside_action /\ undo_control
      <4>1. undo.current = Len(undo.list)
        BY <3>1 DEF IInv, NoRedoDuringMove
      <4>2. undo.current + 1 \notin DOMAIN undo.list
        BY <1>0, <4>1, StackFields
      <4> QED
        BY <2>2, <4>1, <4>2 DEF NoRedoDuringMove
    <3>2. CASE ~(inside_action /\ undo_control)
      BY <2>3, <3>2 DEF NoRedoDuringMove
    <3> QED
      BY <3>1, <3>2
  <2> QED
    BY <1>0, <2>2, <2>3, <2>4 DEF IInv, TypeOK, Shape, WellShaped, NeverExhausted
<1>9. CASE do_save
  <2>1. /\ undo' = UpdateModified(undo) /\ file' \in Content /\ CHANGED' = FALSE
        /\ event_state' = "SELECT"
        /\ UNCHANGED <<content, filename, undo_type, undo_file_index, dangling,
                       undo_control, inside_action, before>>
    BY <1>0, <1>9 DEF do_save
  <2>2. /\ undo' \in Stack /\ undo'.current = undo.current
        /\ Len(undo'.list) = Len(undo.list)
    BY <1>0, <2>1, UpdateModifiedResult
  <2>3. WellShaped(undo')
    <3>1. undo.list \in Seq(UNDO) /\ undo'.list \in Seq(UNDO)
      BY <1>0, <2>2, StackFields
    <3>2. /\ undo.list = << >> <=> Len(undo.list) = 0
          /\ undo'.list = << >> <=> Len(undo'.list) = 0
      BY <3>1
    <3> QED
      BY <1>0, <2>2, <3>2 DEF WellShaped
  <2> QED
    BY <1>0, <2>1, <2>2, <2>3
    DEF IInv, TypeOK, Shape, WellShaped, NoRedoDuringMove, NeverExhausted
<1>10. CASE i_window_revert_page
  <2>1. o_undo_savestate("UNDO_ALL", undo, content, CHANGED)
    BY <1>10 DEF i_window_revert_page
  <2>2. /\ undo' \in Stack /\ undo_type' \in UNDO_TYPE
        /\ undo_file_index' \in 0..(CheckEvery - 1) /\ dangling' \in BOOLEAN
        /\ WellShaped(undo')
        /\ UndoLevels >= 1 /\ ~dangling => ~dangling'
    BY <1>0, <2>1, SavestateStep
  <2>3. /\ content' \in Content /\ CHANGED' = FALSE /\ ~inside_action
        /\ UNCHANGED <<filename, file, undo_control, inside_action, event_state, before>>
    BY <1>0, <1>10 DEF i_window_revert_page, move
  <2> QED
    BY <1>0, <2>2, <2>3
    DEF IInv, TypeOK, Shape, WellShaped, NoRedoDuringMove, NeverExhausted
<1>11. CASE RevertFails
  <2> DEFINE r == IF undo_control
                  THEN Savestate(undo, undo_type, undo_file_index, "UNDO_ALL",
                                 content, CHANGED, TRUE)
                  ELSE [undo |-> undo, undo_type |-> undo_type,
                        index |-> undo_file_index, dangling |-> FALSE]
  <2>1. /\ o_undo_callback(r.undo, r.undo.current - 1, Empty, CHANGED)
        /\ undo_file_index' = r.index /\ dangling' = r.dangling
        /\ Empty \in Content
        /\ ~inside_action
        /\ UNCHANGED <<file, undo_type, undo_control, inside_action, event_state, before>>
    BY <1>11, EmptyAssumption DEF RevertFails, move, r
  <2> HIDE DEF r
  <2>2. /\ r.undo \in Stack /\ WellShaped(r.undo)
        /\ r.index \in 0..(CheckEvery - 1) /\ r.dangling \in BOOLEAN
        /\ UndoLevels >= 1 => ~r.dangling
    <3>1. CASE undo_control
      <4> DEFINE t == Savestate(undo, undo_type, undo_file_index, "UNDO_ALL",
                                content, CHANGED, TRUE)
      <4>1. /\ undo \in Stack /\ undo_type \in UNDO_TYPE
            /\ undo_file_index \in 0..(CheckEvery - 1) /\ "UNDO_ALL" \in RecordType
            /\ content \in Content /\ CHANGED \in BOOLEAN /\ TRUE \in BOOLEAN
        BY <1>0 DEF TypeOK
      <4>2. /\ t.undo \in Stack /\ t.undo.current = Len(t.undo.list)
            /\ t.index \in 0..(CheckEvery - 1) /\ t.dangling \in BOOLEAN
            /\ UndoLevels >= 1 => ~t.dangling
        BY <4>1, SavestateType
      <4>3. r = t
        BY <3>1 DEF r
      <4> HIDE DEF t
      <4> QED
        BY <4>2, <4>3, AtTopWellShaped
    <3>2. CASE ~undo_control
      <4>1. r = [undo |-> undo, undo_type |-> undo_type,
                 index |-> undo_file_index, dangling |-> FALSE]
        BY <3>2 DEF r
      <4>2. r.undo = undo /\ r.index = undo_file_index /\ r.dangling = FALSE
        BY <4>1
      <4> QED
        BY <1>0, <4>2 DEF TypeOK
    <3> QED
      BY <3>1, <3>2
  <2>3. r.undo.current - 1 \in Int
    BY <2>2, StackFields
  <2>4. /\ undo' \in Stack /\ content' \in Content /\ CHANGED' \in BOOLEAN
        /\ filename' \in {"page", "undo"} /\ WellShaped(undo')
    BY <1>0, <2>1, <2>2, <2>3, CallbackStep
  <2> QED
    BY <1>0, <2>1, <2>2, <2>4
    DEF IInv, TypeOK, Shape, WellShaped, NoRedoDuringMove, NeverExhausted
<1>12. CASE GatherSettings
  <2>1. /\ undo_type' \in UNDO_TYPE /\ undo_control' \in BOOLEAN /\ ~inside_action
        /\ UNCHANGED <<content, CHANGED, filename, file, undo, undo_file_index,
                       dangling, inside_action, event_state, before>>
    BY <1>12, SettingsAssumption DEF GatherSettings, page, move
  <2> QED
    BY <1>0, <2>1
    DEF IInv, TypeOK, Shape, WellShaped, NoRedoDuringMove, NeverExhausted
<1>13. CASE OtherPage
  <2>1. /\ undo_file_index' \in 0..(CheckEvery - 1)
        /\ UNCHANGED <<content, CHANGED, filename, file, undo, undo_type, dangling,
                       undo_control, inside_action, event_state, before>>
    BY <1>0, <1>13, LimitAssumption DEF OtherPage, page, move, TypeOK
  <2> QED
    BY <1>0, <2>1
    DEF IInv, TypeOK, Shape, WellShaped, NoRedoDuringMove, NeverExhausted
<1>14. CASE UNCHANGED vars
  BY <1>0, <1>14
  DEF vars, IInv, TypeOK, Shape, WellShaped, NoRedoDuringMove, NeverExhausted
<1> QED
  BY <1>1, <1>2, <1>3, <1>4, <1>5, <1>6, <1>7, <1>8, <1>9, <1>10, <1>11, <1>12,
     <1>13, <1>14 DEF Next

-----------------------------------------------------------------------------
THEOREM InvariantHolds == Spec => []IInv
<1>1. Init => IInv
  BY InitIInv
<1>2. IInv /\ [Next]_vars => IInv'
  BY NextIInv
<1> QED
  BY <1>1, <1>2, PTL DEF Spec

(* The variables keep their types in every setting: undo_current is always  *)
(* NULL or a record of the list (o_undo.c, s_undo.c).                       *)
THEOREM TypeCorrect == Spec => []TypeOK
<1>1. IInv => TypeOK
  BY DEF IInv
<1> QED
  BY <1>1, InvariantHolds, PTL

(* undo_current is NULL exactly when the page has no records, also after an *)
(* undo file could not be read or written (o_undo_savestate).               *)
THEOREM ShapeHolds == Spec => []Shape
<1>1. IInv => Shape
  BY DEF IInv
<1> QED
  BY <1>1, InvariantHolds, PTL

(* do_redo needs no test of inside_action: inside a move there is no record *)
(* above undo_current, whatever was saved, zoomed or lost meanwhile.        *)
THEOREM RedoIdleInMove == Spec => []NoRedoDuringMove
<1>1. IInv => NoRedoDuringMove
  BY DEF IInv
<1> QED
  BY <1>1, InvariantHolds, PTL

(* The comment in o_undo_savestate, "Because we use a pad we are always     *)
(* guaranteed to never exhaust the list", is right for every history limit  *)
(* of one level or more.                                                    *)
THEOREM NeverExhaustedHolds ==
    ASSUME UndoLevels >= 1
    PROVE  Spec => []NeverExhausted
<1>1. Init => IInv /\ NeverExhausted
  BY InitIInv
<1>2. IInv /\ NeverExhausted /\ [Next]_vars => IInv' /\ NeverExhausted'
  BY NextIInv
<1> QED
  BY <1>1, <1>2, PTL DEF Spec
-----------------------------------------------------------------------------
(***************************************************************************)
(* Ordinary editing sessions: edits, moves and cancelled moves, undo, redo *)
(* and saves, in one of several pages, without failing calls.  For every   *)
(* history limit of two levels or more and sessions of any length, undo    *)
(* and redo restore what they should and CHANGED can be relied on.  With   *)
(* undo-panzoom enabled the same holds as long as nothing is trimmed.      *)
(***************************************************************************)

(* Zooming and panning push viewport records.                               *)
Panned == "zoom" \in UserActs

(* With undo in memory a page that is empty cannot be restored, so there    *)
(* the pages considered are those that are never empty.  A viewport record  *)
(* on disk has no data: once the trimming loop has freed the record below   *)
(* that it repeats, nothing can be restored from it.                        *)
OrdinarySession ==
    /\ UserActs \subseteq {"move", "zoom", "other_page"}
    /\ UndoTypes \subseteq {"DISK", "MEMORY"}
    /\ "MEMORY" \in UndoTypes => Empty \notin Content
    /\ UndoLevels >= 2
    /\ Panned => RecordBound < UndoLevels + UndoPadding

(* A record of the whole page has its data.  A viewport record has the same *)
(* or none, and repeats the page of the nearest record of the whole page    *)
(* below it, as do the records in between.                                  *)
RecordGood(list, i, type, saved) ==
    /\ list[i].type = "UNDO_ALL" => Stored(list[i], type) = list[i].page
    /\ list[i].type # "UNDO_ALL" => Panned
    /\ Stored(list[i], type) \in {NULL, list[i].page}
    /\ \E j \in 1..i : /\ list[j].type = "UNDO_ALL"
                       /\ \A k \in j..i : list[k].page = list[i].page
    /\ ~list[i].modified => list[i].page = saved

AllGood(list, type, saved) ==
    \A i \in 1..Len(list) : RecordGood(list, i, type, saved)

RecordsGood == AllGood(undo.list, undo_type, file)

(* A move started from the page as the record below its own has it.         *)
MoveRecorded ==
    inside_action =>
        /\ event_state = "MOVEMODE"
        /\ undo.current = Len(undo.list) /\ undo.current >= 2
        /\ undo.list[undo.current].type = "UNDO_ALL"
        /\ undo.list[undo.current].page = before
        /\ undo.list[undo.current - 1].page = before

SessionInv ==
    /\ TypeOK
    /\ undo_control /\ undo_type \in UndoTypes /\ filename = "page"
    /\ undo.current >= 1
    /\ RecordsGood
    /\ MoveRecorded
    /\ ~inside_action => content = undo.list[undo.current].page
    /\ ~CHANGED => content = file

LEMMA NewRecordGood ==
    ASSUME OrdinarySession, NEW type \in UndoTypes, NEW flag \in RecordType,
           NEW c \in Content, NEW changed \in BOOLEAN
    PROVE  LET u == NewRecord(type, flag, c, changed)
           IN  /\ u.type = flag /\ u.page = c /\ u.modified = changed
               /\ flag = "UNDO_ALL" => Stored(u, type) = c
               /\ Stored(u, type) \in {NULL, c}
<1>1. /\ type \in {"DISK", "MEMORY"} /\ (type = "MEMORY" => c # Empty)
      /\ "DISK" # "MEMORY"
  BY DEF OrdinarySession
<1> DEFINE u == NewRecord(type, flag, c, changed)
<1>2. /\ u.type = flag /\ u.page = c /\ u.modified = changed
      /\ u.filename = IF type = "DISK" /\ flag = "UNDO_ALL" THEN c ELSE NULL
      /\ u.object_list = IF type = "MEMORY" /\ c # Empty THEN c ELSE NULL
  BY DEF NewRecord
<1> HIDE DEF u
<1>3. Stored(u, type) = IF type = "DISK" THEN u.filename ELSE u.object_list
  BY <1>1 DEF Stored
<1> QED
  BY <1>1, <1>2, <1>3 DEF u

(* A viewport record has a record below that is the same page.              *)
LEMMA ViewportRepeats ==
    ASSUME NEW list, NEW i \in Nat, NEW type, NEW saved,
           RecordGood(list, i, type, saved), list[i].type # "UNDO_ALL"
    PROVE  i >= 2 /\ list[i - 1].page = list[i].page
<1>1. PICK j \in 1..i : /\ list[j].type = "UNDO_ALL"
                        /\ \A k \in j..i : list[k].page = list[i].page
  BY DEF RecordGood
<1>2. j # i
  BY <1>1
<1>3. j <= i - 1 /\ i - 1 \in j..i /\ i >= 2
  BY <1>2
<1> QED
  BY <1>1, <1>3

(* Lists that restore the same, but for data a viewport record had.         *)
SameRecords(l, m, type) ==
    /\ Len(m) = Len(l)
    /\ \A i \in 1..Len(l) :
         /\ m[i].type = l[i].type
         /\ m[i].page = l[i].page
         /\ m[i].modified = l[i].modified
         /\ \/ Stored(m[i], type) = Stored(l[i], type)
            \/ l[i].type # "UNDO_ALL" /\ Stored(m[i], type) = NULL

LEMMA SameRecordsGood ==
    ASSUME NEW l \in Seq(UNDO), NEW m, NEW type, NEW saved,
           SameRecords(l, m, type), AllGood(l, type, saved)
    PROVE  AllGood(m, type, saved)
<1> SUFFICES ASSUME NEW i \in 1..Len(m)
             PROVE  RecordGood(m, i, type, saved)
  BY DEF AllGood
<1>1. Len(l) \in Nat /\ i \in 1..Len(l)
  BY DEF SameRecords
<1>2. /\ m[i].type = l[i].type /\ m[i].page = l[i].page
      /\ m[i].modified = l[i].modified
      /\ \/ Stored(m[i], type) = Stored(l[i], type)
         \/ l[i].type # "UNDO_ALL" /\ Stored(m[i], type) = NULL
  BY <1>1 DEF SameRecords
<1>3. RecordGood(l, i, type, saved)
  BY <1>1 DEF AllGood
<1>4. PICK j \in 1..i : /\ l[j].type = "UNDO_ALL"
                        /\ \A k \in j..i : l[k].page = l[i].page
  BY <1>3 DEF RecordGood
<1>5. m[j].type = "UNDO_ALL" /\ \A k \in j..i : m[k].page = m[i].page
  <2>1. j \in 1..Len(l) /\ \A k \in j..i : k \in 1..Len(l)
    BY <1>1
  <2> QED
    BY <1>2, <1>4, <2>1 DEF SameRecords
<1> QED
  BY <1>2, <1>3, <1>5 DEF RecordGood

(* What undo, redo and cancel restore: the page of the record they go to.   *)
LEMMA RestoresPage ==
    ASSUME NEW s \in Stack, NEW target \in 1..Len(s.list), NEW type, NEW saved,
           AllGood(s.list, type, saved)
    PROVE  /\ RestoredFrom(s, target, type) \in {NULL, s.list[target].page}
           /\ (s.list[s.current].type = "UNDO_ALL" \/ s.list[target].type = "UNDO_ALL")
                => RestoredFrom(s, target, type) = s.list[target].page
<1>1. /\ Len(s.list) \in Nat /\ RecordGood(s.list, target, type, saved)
      /\ \A i \in 1..Len(s.list) :
           s.list[i].page # NULL /\ s.list[i].type \in RecordType
  BY StackFields, RecordFields, NullAssumption DEF AllGood
<1>2. CASE ~Borrows(s, target)
  <2>1. RestoredFrom(s, target, type) = Stored(s.list[target], type)
    BY <1>2 DEF RestoredFrom
  <2>2. s.list[s.current].type = "UNDO_ALL" => s.list[target].type = "UNDO_ALL"
    BY <1>1, <1>2 DEF Borrows, RecordType
  <2> QED
    BY <1>1, <2>1, <2>2 DEF RecordGood
<1>3. CASE Borrows(s, target)
  <2>1. /\ RestoredFrom(s, target, type) = PrevStored(s.list, target, type)
        /\ s.list[target].type # "UNDO_ALL"
    BY <1>3 DEF RestoredFrom, Borrows
  <2>2. PICK j \in 1..target :
           /\ s.list[j].type = "UNDO_ALL"
           /\ \A k \in j..target : s.list[k].page = s.list[target].page
    BY <1>1 DEF RecordGood
  <2>3. j # target
    BY <2>1, <2>2
  <2>4. j \in 1..(target - 1) /\ j \in 1..Len(s.list)
    BY <1>1, <2>3
  <2>5. Stored(s.list[j], type) # NULL
    BY <1>1, <2>2, <2>4 DEF AllGood, RecordGood
  <2>6. PICK k \in j..(target - 1) :
           /\ Stored(s.list[k], type) # NULL
           /\ PrevStored(s.list, target, type) = Stored(s.list[k], type)
    BY <2>4, <2>5, PrevStoredFound
  <2>7. k \in j..target /\ k \in 1..Len(s.list)
    BY <1>1, <2>4
  <2>8. Stored(s.list[k], type) = s.list[k].page
    BY <2>6, <2>7 DEF AllGood, RecordGood
  <2>9. s.list[k].page = s.list[target].page
    BY <2>2, <2>7
  <2> QED
    BY <2>1, <2>6, <2>8, <2>9
<1> QED
  BY <1>2, <1>3

(* Undo, redo and cancel in an ordinary session: to the record below or     *)
(* above, and from a page that is what the current record says or on which  *)
(* that record does not matter.                                             *)
LEMMA SessionCallback ==
    ASSUME OrdinarySession, SessionInv, NEW target \in Int, NEW c \in Content,
           NEW changed \in BOOLEAN,
           target = undo.current - 1 \/ target = undo.current + 1,
           \/ c = undo.list[undo.current].page
           \/ undo.list[undo.current].type = "UNDO_ALL",
           changed # TRUE => c = file,
           o_undo_callback(undo, target, c, changed)
    PROVE  /\ undo' \in Stack /\ SameRecords(undo.list, undo'.list, undo_type)
           /\ UNCHANGED filename
           /\ ~CHANGED' => content' = file
           /\ IF target \in 1..Len(undo.list)
              THEN undo'.current = target /\ content' = undo.list[target].page
              ELSE undo' = undo /\ content' = c /\ CHANGED' = changed
<1>1. /\ undo \in Stack /\ DOMAIN undo.list = 1..Len(undo.list)
      /\ undo.current \in 1..Len(undo.list) /\ undo_control
      /\ Len(undo.list) \in Nat /\ undo.list \in Seq(UNDO)
      /\ AllGood(undo.list, undo_type, file)
  BY StackFields DEF SessionInv, TypeOK, RecordsGood
<1>2. CASE target \notin 1..Len(undo.list)
  <2>1. undo' = undo /\ content' = c /\ CHANGED' = changed /\ UNCHANGED filename
    BY <1>1, <1>2 DEF o_undo_callback
  <2>2. SameRecords(undo.list, undo.list, undo_type)
    BY DEF SameRecords
  <2> QED
    BY <1>1, <1>2, <2>1, <2>2
<1>3. CASE target \in 1..Len(undo.list)
  <2> DEFINE data == RestoredFrom(undo, target, undo_type)
  <2>1. /\ data \in {NULL, undo.list[target].page}
        /\ undo.list[undo.current].type = "UNDO_ALL" => data = undo.list[target].page
        /\ undo.list[target].type = "UNDO_ALL" => data = undo.list[target].page
    BY <1>1, <1>3, RestoresPage
  <2>2. undo.list[target].page # NULL
    BY <1>1, <1>3, StackFields, RecordFields, NullAssumption
  <2> HIDE DEF data
  <2>3. data = NULL => c = undo.list[target].page
    <3> SUFFICES ASSUME data = NULL
                 PROVE  c = undo.list[target].page
      OBVIOUS
    <3>1. /\ undo.list[undo.current].type # "UNDO_ALL"
          /\ undo.list[target].type # "UNDO_ALL"
          /\ c = undo.list[undo.current].page
      BY <2>1, <2>2
    <3>2. undo.list[undo.current - 1].page = undo.list[undo.current].page
      BY <1>1, <3>1, ViewportRepeats DEF AllGood
    <3>3. undo.list[target - 1].page = undo.list[target].page
      BY <1>1, <1>3, <3>1, ViewportRepeats DEF AllGood
    <3>4. target = undo.current + 1 => target - 1 = undo.current
      BY <1>1
    <3> QED
      BY <3>1, <3>2, <3>3, <3>4
  <2>4. /\ undo' = StepTo(undo, target)
        /\ content' = IF data = NULL THEN c ELSE data
        /\ CHANGED' = IF data = NULL THEN changed ELSE undo.list[target].modified
        /\ UNCHANGED filename
    BY <1>1, <1>3 DEF o_undo_callback, UndoFileLost, OrdinarySession, data
  <2>5. content' = undo.list[target].page
    BY <2>1, <2>3, <2>4
  <2>6. ~CHANGED' => content' = file
    <3>1. ~undo.list[target].modified => undo.list[target].page = file
      BY <1>1, <1>3 DEF AllGood, RecordGood
    <3> QED
      BY <2>4, <2>5, <3>1
  <2>7. /\ undo' \in Stack /\ undo'.current = target
        /\ Len(undo'.list) = Len(undo.list)
    BY <1>1, <1>3, <2>4, StepToResult
  <2>8. SameRecords(undo.list, undo'.list, undo_type)
    <3> SUFFICES ASSUME NEW i \in 1..Len(undo.list)
                 PROVE  /\ undo'.list[i].type = undo.list[i].type
                        /\ undo'.list[i].page = undo.list[i].page
                        /\ undo'.list[i].modified = undo.list[i].modified
                        /\ \/ Stored(undo'.list[i], undo_type)
                                = Stored(undo.list[i], undo_type)
                           \/ /\ undo.list[i].type # "UNDO_ALL"
                              /\ Stored(undo'.list[i], undo_type) = NULL
      BY <2>7 DEF SameRecords
    <3> DEFINE u == undo'.list[i]
    <3>1. /\ u.type = undo.list[i].type
          /\ u.page = undo.list[i].page
          /\ u.modified = undo.list[i].modified
          /\ \/ u = undo.list[i]
             \/ /\ undo.list[i].type = "UNDO_VIEWPORT_ONLY"
                /\ u.filename = NULL /\ u.object_list = NULL
      BY <1>1, <1>3, <2>4, StepToKeeps
    <3> HIDE DEF u
    <3>2. \/ u = undo.list[i]
          \/ undo.list[i].type # "UNDO_ALL" /\ Stored(u, undo_type) = NULL
      BY <3>1 DEF Stored
    <3> QED
      BY <3>1, <3>2 DEF u
  <2> QED
    BY <1>3, <2>4, <2>5, <2>6, <2>7, <2>8
<1> QED
  BY <1>2, <1>3

(* Saving a state in an ordinary session, on the page's stack with          *)
(* undo_current where it is or, at the end of a move, one record lower.  A  *)
(* viewport record is of the page as it is.                                 *)
LEMMA SessionSavestate ==
    ASSUME OrdinarySession, SessionInv, NEW s \in Stack, s.list = undo.list,
           NEW flag \in RecordType, NEW c \in Content, NEW changed \in BOOLEAN,
           ~changed => c = file,
           \/ flag = "UNDO_ALL"
           \/ Panned /\ s.current >= 1 /\ c = s.list[s.current].page,
           Room,
           o_undo_savestate(flag, s, c, changed)
    PROVE  /\ undo' \in Stack /\ undo_type' = undo_type
           /\ undo'.current = Len(undo'.list) /\ undo'.current >= 1
           /\ AllGood(undo'.list, undo_type, file)
           /\ undo'.list[undo'.current].page = c
           /\ undo'.list[undo'.current].type = flag
           /\ s.current >= 1 =>
                /\ undo'.current >= 2
                /\ undo'.list[undo'.current - 1].page = s.list[s.current].page
<1>1. "faults" \notin UserActs /\ undo_control
  BY DEF OrdinarySession, SessionInv
<1>2. PICK ok \in Success :
         LET r == Savestate(s, undo_type, undo_file_index, flag, c, changed, ok)
         IN  undo' = r.undo /\ undo_type' = r.undo_type
  BY <1>1, Zenon DEF o_undo_savestate, Outcomes, Success
<1> DEFINE r == Savestate(s, undo_type, undo_file_index, flag, c, changed, ok)
           u == NewRecord(undo_type, flag, c, changed)
<1>3. /\ undo_type \in UNDO_TYPE /\ undo_type # "NONE" /\ undo_type \in UndoTypes
      /\ undo_file_index \in 0..(CheckEvery - 1)
      /\ UndoLevels >= 1 /\ UndoLevels \in Nat /\ UndoLevels >= 2
      /\ UndoPadding \in Nat /\ UndoPadding >= 1 /\ RecordBound \in Nat
  <2>1. /\ undo_type \in UNDO_TYPE /\ undo_type # "NONE" /\ undo_type \in UndoTypes
        /\ undo_file_index \in 0..(CheckEvery - 1) /\ UndoLevels >= 2
    BY DEF OrdinarySession, SessionInv, TypeOK
  <2>2. /\ UndoLevels \in Nat /\ UndoLevels >= 1
        /\ UndoPadding \in Nat /\ UndoPadding >= 1 /\ RecordBound \in Nat
    BY <2>1, LimitAssumption, SettingsAssumption
  <2> QED
    BY <2>1, <2>2
<1>4. /\ u.type = flag /\ u.page = c /\ u.modified = changed
      /\ flag = "UNDO_ALL" => Stored(u, undo_type) = c
      /\ Stored(u, undo_type) \in {NULL, c}
  BY <1>3, NewRecordGood
<1>5. r.undo_type = undo_type /\ r.undo \in Stack
  BY <1>3, SavestateAdds
<1>6. \E n \in 0..s.current :
         /\ n > 0 => s.current + 1 - n >= UndoLevels
         /\ n > 0 => s.current + 1 >= UndoLevels + UndoPadding
         /\ Len(r.undo.list) = s.current + 1 - n
         /\ r.undo.current = s.current + 1 - n
         /\ \A i \in 1..(s.current - n) : r.undo.list[i] = s.list[i + n]
         /\ r.undo.list[s.current + 1 - n] = u
  BY <1>3, SavestateAdds
<1>7. undo' = r.undo /\ undo_type' = r.undo_type
  BY <1>2, Zenon
<1> HIDE DEF r, u
<1>8. PICK n \in 0..s.current :
           /\ n > 0 => s.current + 1 - n >= UndoLevels
           /\ n > 0 => s.current + 1 >= UndoLevels + UndoPadding
           /\ Len(undo'.list) = s.current + 1 - n
           /\ undo'.current = s.current + 1 - n
           /\ \A i \in 1..(s.current - n) : undo'.list[i] = s.list[i + n]
           /\ undo'.list[s.current + 1 - n] = u
  BY <1>6, <1>7
<1>9. /\ s.current \in Nat /\ s.current <= Len(undo.list) /\ Len(undo.list) \in Nat
      /\ AllGood(undo.list, undo_type, file)
  BY StackFields DEF SessionInv, RecordsGood
<1>10. Panned => n = 0
  <2>1. Panned => Len(undo.list) < RecordBound /\ RecordBound < UndoLevels + UndoPadding
    BY DEF OrdinarySession, Room
  <2>2. Panned => ~(s.current + 1 >= UndoLevels + UndoPadding)
    BY <1>3, <1>9, <2>1
  <2> QED
    BY <1>8, <2>2
<1>11. ASSUME NEW i \in 1..(s.current - n)
       PROVE  RecordGood(undo'.list, i, undo_type, file)
  <2>1. i + n \in 1..Len(undo.list) /\ undo'.list[i] = undo.list[i + n]
    BY <1>8, <1>9
  <2>2. RecordGood(undo.list, i + n, undo_type, file)
    BY <1>9, <2>1 DEF AllGood
  <2>3. CASE Panned
    <3>1. i + n = i /\ \A k \in 1..i : undo'.list[k] = undo.list[k]
      <4>1. n = 0
        BY <1>10, <2>3
      <4>2. \A k \in 1..i : k \in 1..(s.current - n) /\ k + n = k
        BY <1>9, <4>1
      <4> QED
        BY <1>8, <4>2
    <3>2. PICK j \in 1..i : /\ undo.list[j].type = "UNDO_ALL"
                            /\ \A k \in j..i : undo.list[k].page = undo.list[i].page
      BY <2>2, <3>1 DEF RecordGood
    <3>3. \A k \in j..i : k \in 1..i
      OBVIOUS
    <3>4. undo'.list[j].type = "UNDO_ALL"
          /\ \A k \in j..i : undo'.list[k].page = undo'.list[i].page
      BY <3>1, <3>2, <3>3
    <3> QED
      BY <2>1, <2>2, <3>1, <3>4 DEF RecordGood
  <2>4. CASE ~Panned
    <3>1. undo'.list[i].type = "UNDO_ALL"
      BY <2>1, <2>2, <2>4 DEF RecordGood
    <3>2. i \in 1..i /\ \A k \in i..i : k = i
      BY <1>8, <1>9
    <3>3. \E j \in 1..i : /\ undo'.list[j].type = "UNDO_ALL"
                          /\ \A k \in j..i : undo'.list[k].page = undo'.list[i].page
      BY <3>1, <3>2
    <3> QED
      BY <2>1, <2>2, <3>1, <3>3 DEF RecordGood
  <2> QED
    BY <2>3, <2>4
<1>12. undo'.list[s.current + 1 - n].page = c /\ undo'.list[s.current + 1 - n].type = flag
  BY <1>4, <1>8
<1>13. RecordGood(undo'.list, s.current + 1 - n, undo_type, file)
  <2> DEFINE top == s.current + 1 - n
  <2>1. top \in 1..top /\ top \in Nat /\ \A k \in top..top : k = top
    BY <1>8, <1>9
  <2>2. CASE flag = "UNDO_ALL"
    <3>1. \E j \in 1..top : /\ undo'.list[j].type = "UNDO_ALL"
                            /\ \A k \in j..top : undo'.list[k].page = undo'.list[top].page
      BY <1>12, <2>1, <2>2
    <3> QED
      BY <1>4, <1>8, <2>2, <3>1 DEF RecordGood
  <2>3. CASE flag # "UNDO_ALL"
    <3>1. Panned /\ s.current >= 1 /\ c = s.list[s.current].page /\ n = 0
      BY <1>10, <2>3
    <3>2. /\ s.current \in 1..(s.current - n) /\ s.current + n = s.current
          /\ top = s.current + 1
      BY <1>9, <3>1
    <3>3. undo'.list[s.current].page = c /\ RecordGood(undo'.list, s.current, undo_type, file)
      BY <1>8, <1>11, <3>1, <3>2
    <3>4. PICK j \in 1..s.current :
             /\ undo'.list[j].type = "UNDO_ALL"
             /\ \A k \in j..s.current : undo'.list[k].page = undo'.list[s.current].page
      BY <3>3 DEF RecordGood
    <3>5. j \in 1..top /\ \A k \in j..top : k = top \/ k \in j..s.current
      BY <1>9, <3>2
    <3>6. \A k \in j..top : undo'.list[k].page = undo'.list[top].page
      BY <1>12, <3>3, <3>4, <3>5
    <3> HIDE DEF top
    <3>7. \E i \in 1..top : /\ undo'.list[i].type = "UNDO_ALL"
                            /\ \A k \in i..top : undo'.list[k].page = undo'.list[top].page
      BY <3>4, <3>5, <3>6
    <3>8. undo'.list[top] = u
      BY <1>8 DEF top
    <3> QED
      BY <1>4, <2>3, <3>1, <3>7, <3>8 DEF RecordGood, top
  <2> QED
    BY <2>2, <2>3
<1>14. AllGood(undo'.list, undo_type, file)
  <2> SUFFICES ASSUME NEW i \in 1..Len(undo'.list)
               PROVE  RecordGood(undo'.list, i, undo_type, file)
    BY DEF AllGood
  <2>1. i \in 1..(s.current - n) \/ i = s.current + 1 - n
    BY <1>8, <1>9
  <2> QED
    BY <1>11, <1>13, <2>1
<1>15. ASSUME s.current >= 1
       PROVE  /\ undo'.current >= 2
              /\ undo'.list[undo'.current - 1].page = s.list[s.current].page
  <2>1. s.current + 1 - n >= 2
    BY <1>3, <1>8, <1>9, <1>15
  <2>2. /\ n \in 0..s.current /\ s.current \in Nat
        /\ undo'.current = s.current + 1 - n
    BY <1>8, <1>9
  <2>3. /\ undo'.current - 1 = s.current - n /\ s.current - n \in 1..(s.current - n)
        /\ (s.current - n) + n = s.current
    BY <2>1, <2>2
  <2>4. undo'.list[s.current - n] = s.list[s.current]
    BY <1>8, <2>3
  <2> QED
    BY <2>1, <2>2, <2>3, <2>4
<1>16. undo'.current = Len(undo'.list) /\ undo'.current >= 1
  BY <1>8, <1>9
<1> QED
  BY <1>5, <1>7, <1>8, <1>12, <1>14, <1>15, <1>16

(* The page and its first record when it is opened. *)
LEMMA InitSession == OrdinarySession /\ Init => SessionInv
<1> SUFFICES ASSUME OrdinarySession, Init
             PROVE  SessionInv
  OBVIOUS
<1>1. PICK c \in Content, type \in UndoTypes, ok \in Success :
         LET first == Savestate(NoUndo, type, 0, "UNDO_ALL", c, FALSE, ok)
         IN  /\ content = c /\ file = c
             /\ filename = "page"
             /\ undo_control = TRUE
             /\ undo = first.undo
             /\ undo_type = first.undo_type
             /\ inside_action = FALSE
  BY Zenon DEF Init, Success
<1> DEFINE first == Savestate(NoUndo, type, 0, "UNDO_ALL", c, FALSE, ok)
           u     == NewRecord(type, "UNDO_ALL", c, FALSE)
<1>2. /\ type \in UNDO_TYPE /\ type # "NONE" /\ 0 \in 0..(CheckEvery - 1)
      /\ "UNDO_ALL" \in RecordType /\ UndoLevels >= 1 /\ NoUndo \in Stack
  BY SettingsAssumption, LimitAssumption, NoUndoType
  DEF OrdinarySession, RecordType
<1>3. NoUndo.current = 0
  BY DEF NoUndo
<1>4. first.undo_type = type
  BY DEF Savestate, Success
<1>5. \E n \in 0..NoUndo.current :
         /\ Len(first.undo.list) = NoUndo.current + 1 - n
         /\ first.undo.current = NoUndo.current + 1 - n
         /\ first.undo.list[NoUndo.current + 1 - n] = u
  <2>1. \A changed \in BOOLEAN : \E n \in 0..NoUndo.current :
           LET r == Savestate(NoUndo, type, 0, "UNDO_ALL", c, changed, ok)
           IN  /\ Len(r.undo.list) = NoUndo.current + 1 - n
               /\ r.undo.current = NoUndo.current + 1 - n
               /\ r.undo.list[NoUndo.current + 1 - n] =
                    NewRecord(type, "UNDO_ALL", c, changed)
    BY <1>2, SavestateAdds
  <2> QED
    BY <2>1, Zenon
<1>6. undo = first.undo /\ undo_type = type
  BY <1>1, <1>4
<1>7. /\ u.type = "UNDO_ALL" /\ u.page = c
      /\ Stored(u, type) = c
  <2>1. \A changed \in BOOLEAN :
           LET v == NewRecord(type, "UNDO_ALL", c, changed)
           IN  v.type = "UNDO_ALL" /\ v.page = c /\ Stored(v, type) = c
    BY <1>2, NewRecordGood
  <2> QED
    BY <2>1, Zenon
<1> HIDE DEF first, u
<1>8. undo.current = 1 /\ Len(undo.list) = 1 /\ undo.list[1] = u
  BY <1>3, <1>5, <1>6
<1>9. /\ content = c /\ file = c /\ filename = "page"
      /\ undo_control /\ ~inside_action
  BY <1>1
<1>10. RecordsGood
  <2>1. \A i \in 1..1 : i = 1
    OBVIOUS
  <2>2. RecordGood(undo.list, 1, undo_type, file)
    BY <1>6, <1>7, <1>8, <1>9, <2>1 DEF RecordGood
  <2> QED
    BY <1>8, <2>1, <2>2 DEF RecordsGood, AllGood
<1>11. TypeOK
  BY InitIInv DEF IInv
<1> QED
  BY <1>6, <1>7, <1>8, <1>9, <1>10, <1>11 DEF SessionInv, MoveRecorded

(* Every step of an ordinary session keeps its records good.                *)
LEMMA NextSession ==
    OrdinarySession /\ IInv /\ SessionInv /\ [Next]_vars => SessionInv'
<1> SUFFICES ASSUME OrdinarySession, IInv, SessionInv, [Next]_vars
             PROVE  SessionInv'
  OBVIOUS
<1>0. /\ TypeOK' /\ undo \in Stack /\ undo.current >= 1 /\ undo.current \in Nat
      /\ undo.current <= Len(undo.list) /\ Len(undo.list) \in Nat
      /\ content \in Content /\ CHANGED \in BOOLEAN
      /\ undo_control /\ undo_type \in UndoTypes /\ filename = "page"
  <2>1. TypeOK' /\ TypeOK
    BY NextIInv DEF IInv
  <2> QED
    BY <2>1, StackFields DEF TypeOK, SessionInv
<1>01. /\ ~inside_action => content = undo.list[undo.current].page
       /\ ~CHANGED => content = file
       /\ AllGood(undo.list, undo_type, file)
       /\ undo.list \in Seq(UNDO) /\ "UNDO_ALL" \in RecordType
       /\ "UNDO_VIEWPORT_ONLY" \in RecordType
  BY StackFields DEF SessionInv, RecordsGood, TypeOK, RecordType
<1>1. CASE Edit
  <2>1. PICK c \in Content, changed \in {TRUE, CHANGED} :
           /\ c # content => changed
           /\ content' = c /\ CHANGED' = changed
           /\ o_undo_savestate("UNDO_ALL", undo, c, changed)
           /\ Room
    BY <1>1 DEF Edit
  <2>2. changed \in BOOLEAN /\ (~changed => c = file)
    BY <1>0, <1>01, <2>1
  <2>3. /\ undo_type' = undo_type /\ undo'.current >= 1
        /\ AllGood(undo'.list, undo_type, file)
        /\ undo'.list[undo'.current].page = c
    BY <1>0, <1>01, <2>1, <2>2, SessionSavestate
  <2>4. ~inside_action' /\ UNCHANGED <<filename, file, undo_control>>
    BY <1>1 DEF Edit, move
  <2> QED
    BY <1>0, <2>1, <2>2, <2>3, <2>4 DEF SessionInv, RecordsGood, MoveRecorded
<1>2. CASE o_move_start
  <2>1. o_undo_savestate("UNDO_ALL", undo, content, CHANGED) /\ ~inside_action
        /\ Room
    BY <1>2 DEF o_move_start
  <2>2. /\ undo_type' = undo_type
        /\ undo'.current = Len(undo'.list) /\ undo'.current >= 2
        /\ AllGood(undo'.list, undo_type, file)
        /\ undo'.list[undo'.current].type = "UNDO_ALL"
        /\ undo'.list[undo'.current].page = content
        /\ undo'.list[undo'.current - 1].page = content
    <3>1. content = undo.list[undo.current].page
      BY <1>01, <2>1
    <3> QED
      BY <1>0, <1>01, <2>1, <3>1, SessionSavestate
  <2>3. /\ inside_action' = TRUE /\ event_state' = "MOVEMODE" /\ before' = content
        /\ UNCHANGED <<content, CHANGED, filename, file, undo_control>>
    BY <1>2 DEF o_move_start, page
  <2>4. undo'.current >= 1
    BY <1>0, <2>2, StackFields DEF TypeOK
  <2> QED
    BY <1>0, <1>01, <2>2, <2>3, <2>4
    DEF SessionInv, RecordsGood, MoveRecorded
<1>3. CASE o_place_rotate
  <2>1. /\ inside_action /\ CHANGED' = TRUE
        /\ UNCHANGED <<filename, file, undo, undo_type, undo_control,
                       inside_action, event_state, before>>
    BY <1>3 DEF o_place_rotate, history, move
  <2>2. RecordsGood' /\ MoveRecorded'
    BY <2>1 DEF SessionInv, RecordsGood, MoveRecorded
  <2> QED
    BY <1>0, <2>1, <2>2 DEF SessionInv
<1>4. CASE o_move_end
  <2>1. PICK c \in Content :
           /\ content' = c /\ Room
           /\ o_undo_savestate("UNDO_ALL", RemoveLast(undo), c, TRUE)
    BY <1>4 DEF o_move_end
  <2>2. RemoveLast(undo) \in Stack /\ RemoveLast(undo).list = undo.list
    BY <1>0, RemoveLastResult
  <2>3. /\ undo_type' = undo_type /\ undo'.current >= 1
        /\ AllGood(undo'.list, undo_type, file)
        /\ undo'.list[undo'.current].page = c
    <3>1. \A changed \in BOOLEAN :
             changed /\ o_undo_savestate("UNDO_ALL", RemoveLast(undo), c, changed) =>
               /\ undo_type' = undo_type /\ undo'.current >= 1
               /\ AllGood(undo'.list, undo_type, file)
               /\ undo'.list[undo'.current].page = c
      BY <1>01, <2>1, <2>2, SessionSavestate
    <3> QED
      BY <2>1, <3>1, Zenon
  <2>4. CHANGED' = TRUE /\ ~inside_action' /\ UNCHANGED <<filename, file, undo_control>>
    BY <1>4 DEF o_move_end
  <2>5. RecordsGood' /\ MoveRecorded'
    BY <2>3, <2>4 DEF RecordsGood, MoveRecorded
  <2> QED
    BY <1>0, <2>1, <2>3, <2>4, <2>5 DEF SessionInv
<1>5. CASE i_callback_cancel
  <2>1. /\ inside_action /\ event_state = "MOVEMODE" /\ undo.current >= 2
        /\ undo.list[undo.current].type = "UNDO_ALL"
    BY <1>5 DEF i_callback_cancel, SessionInv, MoveRecorded
  <2>2. PICK stripped \in Content :
           o_undo_callback(undo, undo.current - 1, stripped, TRUE)
    BY <1>5, <2>1 DEF i_callback_cancel
  <2>3. undo.current - 1 \in 1..Len(undo.list) /\ undo.current - 1 \in Int
    BY <1>0, <2>1
  <2>4. /\ SameRecords(undo.list, undo'.list, undo_type) /\ UNCHANGED filename
        /\ undo'.current = undo.current - 1
        /\ content' = undo.list[undo.current - 1].page
        /\ ~CHANGED' => content' = file
    <3>1. \A changed \in BOOLEAN :
             changed = TRUE /\ o_undo_callback(undo, undo.current - 1, stripped, changed) =>
               /\ SameRecords(undo.list, undo'.list, undo_type) /\ UNCHANGED filename
               /\ undo'.current = undo.current - 1
               /\ content' = undo.list[undo.current - 1].page
               /\ ~CHANGED' => content' = file
      BY <2>1, <2>2, <2>3, SessionCallback
    <3> QED
      BY <2>2, <3>1, Zenon
  <2>5. ~inside_action' /\ UNCHANGED <<file, undo_type, undo_control>>
    BY <1>5 DEF i_callback_cancel
  <2>6. RecordsGood' /\ MoveRecorded'
    BY <1>01, <2>4, <2>5, SameRecordsGood DEF RecordsGood, MoveRecorded
  <2>7. /\ undo'.current >= 1 /\ content' = undo'.list[undo'.current].page
        /\ ~CHANGED' => content' = file'
    BY <2>3, <2>4, <2>5 DEF SameRecords
  <2> QED
    BY <1>0, <2>4, <2>5, <2>6, <2>7 DEF SessionInv
<1>6. CASE do_undo
  <2>1. o_undo_callback(undo, undo.current - 1, content, CHANGED) /\ ~inside_action
        /\ undo.current - 1 \in Int
    BY <1>0, <1>6 DEF do_undo
  <2>2. /\ SameRecords(undo.list, undo'.list, undo_type) /\ UNCHANGED filename
        /\ ~CHANGED' => content' = file
        /\ IF undo.current - 1 \in 1..Len(undo.list)
           THEN /\ undo'.current = undo.current - 1
                /\ content' = undo.list[undo.current - 1].page
           ELSE undo' = undo /\ content' = content /\ CHANGED' = CHANGED
    BY <1>0, <1>01, <2>1, SessionCallback
  <2>3. ~inside_action' /\ UNCHANGED <<file, undo_type, undo_control>>
    BY <1>6 DEF do_undo, move
  <2>4. RecordsGood' /\ MoveRecorded'
    BY <1>01, <2>2, <2>3, SameRecordsGood DEF RecordsGood, MoveRecorded
  <2>5. /\ undo'.current >= 1 /\ content' = undo'.list[undo'.current].page
        /\ ~CHANGED' => content' = file'
    BY <1>0, <1>01, <2>1, <2>2, <2>3 DEF SameRecords
  <2> QED
    BY <1>0, <2>2, <2>3, <2>4, <2>5 DEF SessionInv
<1>7. CASE do_redo
  <2>1. o_undo_callback(undo, undo.current + 1, content, CHANGED)
        /\ undo.current + 1 \in Int
    BY <1>0, <1>7 DEF do_redo
  <2>2. inside_action =>
           /\ undo.current = Len(undo.list)
           /\ undo.list[undo.current].type = "UNDO_ALL"
    BY DEF SessionInv, MoveRecorded
  <2>3. /\ SameRecords(undo.list, undo'.list, undo_type) /\ UNCHANGED filename
        /\ ~CHANGED' => content' = file
        /\ IF undo.current + 1 \in 1..Len(undo.list)
           THEN /\ undo'.current = undo.current + 1
                /\ content' = undo.list[undo.current + 1].page
           ELSE undo' = undo /\ content' = content /\ CHANGED' = CHANGED
    BY <1>0, <1>01, <2>1, <2>2, SessionCallback
  <2>4. UNCHANGED <<file, undo_type, undo_control, inside_action, event_state, before>>
    BY <1>7 DEF do_redo, move
  <2>5. RecordsGood'
    BY <1>01, <2>3, <2>4, SameRecordsGood DEF RecordsGood
  <2>6. CASE inside_action
    <3>1. undo' = undo /\ content' = content /\ CHANGED' = CHANGED
      BY <1>0, <2>2, <2>3, <2>6
    <3>2. MoveRecorded'
      BY <2>4, <3>1 DEF SessionInv, MoveRecorded
    <3> QED
      BY <1>0, <1>01, <2>3, <2>4, <2>5, <2>6, <3>1, <3>2 DEF SessionInv
  <2>7. CASE ~inside_action
    <3>1. MoveRecorded'
      BY <2>4, <2>7 DEF MoveRecorded
    <3>2. /\ undo'.current >= 1 /\ content' = undo'.list[undo'.current].page
          /\ ~CHANGED' => content' = file'
      BY <1>0, <1>01, <2>3, <2>4, <2>7 DEF SameRecords
    <3> QED
      BY <1>0, <2>3, <2>4, <2>5, <2>7, <3>1, <3>2 DEF SessionInv
  <2> QED
    BY <2>6, <2>7
<1>8. CASE do_save
  <2>1. ~inside_action
    BY <1>8 DEF do_save, OrdinarySession
  <2>2. /\ file' = content /\ CHANGED' = FALSE /\ undo' = UpdateModified(undo)
        /\ UNCHANGED <<content, filename, undo_type, undo_control, inside_action>>
    BY <1>0, <1>8 DEF do_save
  <2>3. /\ undo'.current = undo.current /\ Len(undo'.list) = Len(undo.list)
        /\ \A i \in 1..Len(undo.list) :
             undo'.list[i] = [undo.list[i] EXCEPT !.modified = (i # undo.current)]
    BY <1>0, <2>2, UpdateModifiedResult
  <2>4. ASSUME NEW i \in 1..Len(undo.list)
        PROVE  /\ undo'.list[i].type = undo.list[i].type
               /\ undo'.list[i].filename = undo.list[i].filename
               /\ undo'.list[i].object_list = undo.list[i].object_list
               /\ undo'.list[i].page = undo.list[i].page
               /\ undo'.list[i].modified = (i # undo.current)
    <3>1. undo.list[i] \in UNDO
      BY <1>0, StackFields
    <3>2. undo'.list[i] = [undo.list[i] EXCEPT !.modified = (i # undo.current)]
      BY <2>3
    <3> QED
      BY <3>1, <3>2 DEF UNDO
  <2>5. content = undo.list[undo.current].page
    BY <1>01, <2>1
  <2>6. RecordsGood'
    <3> SUFFICES ASSUME NEW i \in 1..Len(undo.list)
                 PROVE  RecordGood(undo'.list, i, undo_type, file')
      BY <2>2, <2>3 DEF RecordsGood, AllGood
    <3>1. RecordGood(undo.list, i, undo_type, file)
      BY <1>01 DEF AllGood
    <3>2. PICK j \in 1..i : /\ undo.list[j].type = "UNDO_ALL"
                            /\ \A k \in j..i : undo.list[k].page = undo.list[i].page
      BY <3>1 DEF RecordGood
    <3>3. j \in 1..Len(undo.list) /\ \A k \in j..i : k \in 1..Len(undo.list)
      BY <1>0
    <3>4. /\ undo'.list[j].type = "UNDO_ALL"
          /\ \A k \in j..i : undo'.list[k].page = undo'.list[i].page
      BY <2>4, <3>2, <3>3
    <3>5. Stored(undo'.list[i], undo_type) = Stored(undo.list[i], undo_type)
      BY <2>4 DEF Stored
    <3>6. ~undo'.list[i].modified => undo'.list[i].page = file'
      BY <2>2, <2>4, <2>5
    <3> QED
      BY <2>4, <3>1, <3>4, <3>5, <3>6 DEF RecordGood
  <2>7. undo'.list[undo'.current].page = content
    BY <1>0, <2>3, <2>4, <2>5
  <2> QED
    BY <1>0, <2>1, <2>2, <2>3, <2>6, <2>7 DEF SessionInv, MoveRecorded
<1>9. CASE OtherPage
  <2>1. UNCHANGED <<content, CHANGED, filename, file, undo, undo_type, undo_control,
                    inside_action, event_state, before>>
    BY <1>9 DEF OtherPage, page, move
  <2> QED
    BY <1>0, <2>1 DEF SessionInv, RecordsGood, MoveRecorded
<1>10. CASE UNCHANGED vars
  BY <1>0, <1>10 DEF vars, SessionInv, RecordsGood, MoveRecorded
<1>11. CASE Zoom
  <2>1. /\ o_undo_savestate("UNDO_VIEWPORT_ONLY", undo, content, CHANGED)
        /\ Panned /\ ~inside_action /\ Room
        /\ UNCHANGED <<content, CHANGED, filename, file, undo_control, inside_action>>
    BY <1>11 DEF Zoom, OrdinarySession, Panned, page, move
  <2>2. /\ undo_type' = undo_type /\ undo'.current >= 1
        /\ AllGood(undo'.list, undo_type, file)
        /\ undo'.list[undo'.current].page = content
    BY <1>0, <1>01, <2>1, SessionSavestate
  <2> QED
    BY <1>0, <1>01, <2>1, <2>2 DEF SessionInv, RecordsGood, MoveRecorded
<1>12. ~i_window_revert_page /\ ~RevertFails /\ ~GatherSettings
  BY DEF OrdinarySession, i_window_revert_page, RevertFails, GatherSettings
<1> QED
  BY <1>1, <1>2, <1>3, <1>4, <1>5, <1>6, <1>7, <1>8, <1>9, <1>10, <1>11, <1>12 DEF Next

(* The inductive invariant of ordinary sessions: o_undo_savestate,          *)
(* o_undo_callback and s_undo_update_modified keep every record restorable, *)
(* from its own data or from that of a record below it, the clean ones      *)
(* equal to the file, and a move's starting state below undo_current.       *)
THEOREM SessionInvariant == OrdinarySession /\ Spec => []SessionInv
<1>1. OrdinarySession /\ Init => IInv /\ SessionInv
  BY InitIInv, InitSession
<1>2. OrdinarySession /\ IInv /\ SessionInv /\ [Next]_vars => IInv' /\ SessionInv'
  BY NextIInv, NextSession
<1>3. OrdinarySession => OrdinarySession'
  BY DEF OrdinarySession
<1> QED
  BY <1>1, <1>2, <1>3, PTL DEF Spec

(* o_undo_callback "restores the current page to the previous state": in    *)
(* every ordinary session the page is what its current record says.         *)
THEOREM UndoRestores ==
    ASSUME OrdinarySession
    PROVE  Spec => []PageMatchesCursor
<1>1. SessionInv => PageMatchesCursor
  BY DEF SessionInv, PageMatchesCursor
<1> QED
  BY <1>1, SessionInvariant, PTL

(* s_undo_update_modified: a record is left unmodified by a save only when  *)
(* it is the page that was saved.                                           *)
THEOREM CleanRecords ==
    ASSUME OrdinarySession
    PROVE  Spec => []CleanRecordsMatchFile
<1>1. SessionInv => CleanRecordsMatchFile
  <2> SUFFICES ASSUME SessionInv, NEW i \in DOMAIN undo.list, ~undo.list[i].modified
               PROVE  undo.list[i].page = file
    BY DEF CleanRecordsMatchFile
  <2>1. undo \in Stack
    BY DEF SessionInv, TypeOK
  <2>2. i \in 1..Len(undo.list)
    BY <2>1, StackFields
  <2> QED
    BY <2>2 DEF SessionInv, RecordsGood, AllGood, RecordGood
<1> QED
  BY <1>1, SessionInvariant, PTL

(* page->CHANGED: no sequence of edits, undos, redos, moves and saves makes *)
(* gschem close a page without asking when its file holds something else.   *)
THEOREM SavedFlagIsSound ==
    ASSUME OrdinarySession
    PROVE  Spec => []SavedFlagSound
<1>1. SessionInv => SavedFlagSound
  BY DEF SessionInv, SavedFlagSound
<1> QED
  BY <1>1, SessionInvariant, PTL

(* o_move_cancel undoes the move: the state o_move_start saved is the one   *)
(* below undo_current, and trimming has kept it.                            *)
THEOREM CancelRewindsMove ==
    ASSUME OrdinarySession
    PROVE  Spec => CancelRewinds
<1>1. SessionInv /\ i_callback_cancel => content' = before
  <2> SUFFICES ASSUME SessionInv, i_callback_cancel
               PROVE  content' = before
    OBVIOUS
  <2>1. /\ event_state = "MOVEMODE" /\ undo.current >= 2
        /\ undo.list[undo.current].type = "UNDO_ALL"
        /\ undo.list[undo.current - 1].page = before
    BY DEF i_callback_cancel, SessionInv, MoveRecorded
  <2>2. PICK stripped \in Content :
           o_undo_callback(undo, undo.current - 1, stripped, TRUE)
    BY <2>1 DEF i_callback_cancel
  <2>3. undo.current - 1 \in 1..Len(undo.list) /\ undo.current - 1 \in Int
    BY <2>1, StackFields DEF SessionInv, TypeOK
  <2>4. \A changed \in BOOLEAN :
           changed = TRUE /\ o_undo_callback(undo, undo.current - 1, stripped, changed) =>
             content' = undo.list[undo.current - 1].page
    BY <2>1, <2>2, <2>3, SessionCallback
  <2> QED
    BY <2>1, <2>2, <2>4, Zenon
<1>2. SessionInv => [i_callback_cancel => content' = before]_vars
  BY <1>1
<1> QED
  BY <1>2, SessionInvariant, PTL DEF CancelRewinds
-----------------------------------------------------------------------------
(***************************************************************************)
(* How long the history of one page gets.                                  *)
(***************************************************************************)

(* Only one page is edited: undo_file_index counts the undo files of every  *)
(* page, and a page is not checked when another one's save is the tenth.    *)
OnePage == "other_page" \notin UserActs

(* The list may be over the limit by the pad and by the undo files written  *)
(* since the last check.  In memory every save is checked.                  *)
Bounded ==
    /\ Len(undo.list) <= UndoLevels + UndoPadding - 1 + undo_file_index
    /\ undo_type = "MEMORY" => undo_file_index = 0

LEMMA SessionHasData ==
    ASSUME OrdinarySession, SessionInv, ~Panned
    PROVE  \A i \in 1..Len(undo.list) : HasData(undo.list[i])
<1> SUFFICES ASSUME NEW i \in 1..Len(undo.list)
             PROVE  HasData(undo.list[i])
  OBVIOUS
<1>1. undo.list[i].page # NULL
  BY StackFields, RecordFields, NullAssumption DEF SessionInv, TypeOK
<1>2. Stored(undo.list[i], undo_type) = undo.list[i].page
  BY DEF SessionInv, RecordsGood, AllGood, RecordGood
<1>3. undo_type \in {"DISK", "MEMORY"}
  BY DEF SessionInv, OrdinarySession
<1> QED
  BY <1>1, <1>2, <1>3 DEF Stored, HasData

LEMMA NewRecordHasData ==
    ASSUME OrdinarySession, NEW type \in UndoTypes, NEW c \in Content,
           NEW changed \in BOOLEAN
    PROVE  HasData(NewRecord(type, "UNDO_ALL", c, changed))
<1>1. c # NULL /\ type \in {"DISK", "MEMORY"} /\ (type = "MEMORY" => c # Empty)
  BY NullAssumption DEF OrdinarySession
<1> DEFINE u == NewRecord(type, "UNDO_ALL", c, changed)
<1>2. /\ type = "DISK" => u.filename = c
      /\ type = "MEMORY" => u.object_list = c
  BY <1>1 DEF NewRecord
<1> HIDE DEF u
<1>3. HasData(u)
  BY <1>1, <1>2 DEF HasData
<1> QED
  BY <1>3 DEF u

(* Saving a state keeps the list within the bound.                          *)
LEMMA SavestateKeepsBound ==
    ASSUME OrdinarySession, ~Panned, SessionInv, Bounded,
           NEW s \in Stack, s.list = undo.list,
           NEW c \in Content, NEW changed \in BOOLEAN,
           o_undo_savestate("UNDO_ALL", s, c, changed)
    PROVE  Bounded'
<1>1. "faults" \notin UserActs /\ undo_control
  BY DEF OrdinarySession, SessionInv
<1>2. PICK ok \in Success :
         LET r == Savestate(s, undo_type, undo_file_index, "UNDO_ALL", c, changed, ok)
         IN  /\ undo' = r.undo
             /\ undo_type' = r.undo_type
             /\ undo_file_index' = r.index
  BY <1>1, Zenon DEF o_undo_savestate, Outcomes, Success
<1> DEFINE r == Savestate(s, undo_type, undo_file_index, "UNDO_ALL", c, changed, ok)
<1>3. /\ undo_type \in {"DISK", "MEMORY"} /\ undo_type \in UNDO_TYPE
      /\ undo_type \in UndoTypes /\ undo_type # "NONE"
      /\ undo_file_index \in 0..(CheckEvery - 1)
      /\ UndoLevels >= 1 /\ "UNDO_ALL" \in RecordType
  BY LimitAssumption DEF OrdinarySession, SessionInv, TypeOK, RecordType
<1>4. r.undo_type = undo_type
  BY <1>3, SavestateAdds
<1>5. s.current <= UndoLevels + UndoPadding - 1 + undo_file_index
  BY <1>3, StackFields, LimitAssumption DEF Bounded
<1>6. \A i \in 1..Len(s.list) : HasData(s.list[i])
  BY SessionHasData
<1>7. HasData(NewRecord(undo_type, "UNDO_ALL", c, changed))
  BY <1>3, NewRecordHasData
<1>8. undo_type = "MEMORY" => undo_file_index = 0
  BY DEF Bounded
<1>9. /\ Len(r.undo.list) <= UndoLevels + UndoPadding - 1 + r.index
      /\ undo_type = "MEMORY" => r.index = 0
  BY <1>3, <1>5, <1>6, <1>7, <1>8, SavestateBounded
<1>10. undo' = r.undo /\ undo_type' = r.undo_type /\ undo_file_index' = r.index
  BY <1>2, Zenon
<1> HIDE DEF r
<1> QED
  BY <1>4, <1>9, <1>10 DEF Bounded

LEMMA InitBounded == OrdinarySession /\ Init => Bounded
<1> SUFFICES ASSUME OrdinarySession, Init
             PROVE  Bounded
  OBVIOUS
<1>1. PICK c \in Content, type \in UndoTypes, ok \in Success, changed \in {FALSE} :
         LET first == Savestate(NoUndo, type, 0, "UNDO_ALL", c, changed, ok)
         IN  /\ undo = first.undo
             /\ undo_type = first.undo_type
             /\ undo_file_index = first.index
  BY Zenon DEF Init, Success
<1> DEFINE first == Savestate(NoUndo, type, 0, "UNDO_ALL", c, changed, ok)
<1>2. /\ type \in {"DISK", "MEMORY"} /\ type \in UNDO_TYPE /\ type # "NONE"
      /\ 0 \in 0..(CheckEvery - 1) /\ changed \in BOOLEAN
      /\ "UNDO_ALL" \in RecordType /\ UndoLevels >= 1 /\ NoUndo \in Stack
  BY SettingsAssumption, LimitAssumption, NoUndoType DEF OrdinarySession, RecordType
<1>3. NoUndo.current = 0 /\ Len(NoUndo.list) = 0
  BY DEF NoUndo
<1>4. NoUndo.current <= UndoLevels + UndoPadding - 1 + 0
  BY <1>2, <1>3, LimitAssumption
<1>5. HasData(NewRecord(type, "UNDO_ALL", c, changed))
  BY <1>2, NewRecordHasData
<1>6. first.undo_type = type
  BY DEF Savestate, Success
<1>7. \A i \in 1..Len(NoUndo.list) : HasData(NoUndo.list[i])
  BY <1>3
<1>8. /\ Len(first.undo.list) <= UndoLevels + UndoPadding - 1 + first.index
      /\ type = "MEMORY" => first.index = 0
  BY <1>2, <1>4, <1>5, <1>7, SavestateBounded
<1>9. undo = first.undo /\ undo_type = first.undo_type /\ undo_file_index = first.index
  BY <1>1, Zenon
<1> HIDE DEF first
<1> QED
  BY <1>6, <1>8, <1>9 DEF Bounded

LEMMA CallbackKeepsLength ==
    ASSUME "faults" \notin UserActs, undo \in Stack, NEW target, NEW c, NEW changed,
           o_undo_callback(undo, target, c, changed)
    PROVE  Len(undo'.list) = Len(undo.list)
<1>1. CASE undo' = undo
  BY <1>1
<1>2. CASE target \in 1..Len(undo.list) /\ undo' = StepTo(undo, target)
  BY <1>2, StepToResult
<1> QED
  BY <1>1, <1>2, StackFields DEF o_undo_callback, UndoFileLost

(* Undo, redo and a save neither add a record nor count an undo file.       *)
LEMMA NextBounded ==
    OrdinarySession /\ OnePage /\ ~Panned /\ SessionInv /\ Bounded /\ [Next]_vars
        => Bounded'
<1> SUFFICES ASSUME OrdinarySession, OnePage, ~Panned, SessionInv, Bounded, [Next]_vars
             PROVE  Bounded'
  OBVIOUS
<1>0. undo \in Stack /\ undo.current \in Nat /\ content \in Content
      /\ CHANGED \in BOOLEAN
  BY StackFields DEF SessionInv, TypeOK
<1>1. CASE Edit
  <2>1. PICK c \in Content, changed \in {TRUE, CHANGED} :
           o_undo_savestate("UNDO_ALL", undo, c, changed)
    BY <1>1 DEF Edit
  <2> QED
    BY <1>0, <2>1, SavestateKeepsBound
<1>2. CASE o_move_start
  <2>1. o_undo_savestate("UNDO_ALL", undo, content, CHANGED)
    BY <1>2 DEF o_move_start
  <2> QED
    BY <1>0, <2>1, SavestateKeepsBound
<1>3. CASE o_move_end
  <2>1. PICK c \in Content : o_undo_savestate("UNDO_ALL", RemoveLast(undo), c, TRUE)
    BY <1>3 DEF o_move_end
  <2>2. RemoveLast(undo) \in Stack /\ RemoveLast(undo).list = undo.list
    BY <1>0, RemoveLastResult
  <2>3. \A changed \in BOOLEAN :
           o_undo_savestate("UNDO_ALL", RemoveLast(undo), c, changed) => Bounded'
    BY <2>2, SavestateKeepsBound
  <2> QED
    BY <2>1, <2>3, Zenon
<1>4. CASE i_callback_cancel \/ do_undo \/ do_redo
  <2>1. \E target \in Int, c \in Content, changed \in BOOLEAN :
           o_undo_callback(undo, target, c, changed)
    <3>1. CASE i_callback_cancel
      <4>1. PICK stripped \in Content :
               o_undo_callback(undo, undo.current - 1, stripped, TRUE)
        BY <3>1 DEF i_callback_cancel, SessionInv, MoveRecorded
      <4>2. undo.current - 1 \in Int
        BY <1>0
      <4> QED
        BY <4>1, <4>2, Zenon
    <3>2. CASE do_undo
      <4>1. undo.current - 1 \in Int
        BY <1>0
      <4>2. o_undo_callback(undo, undo.current - 1, content, CHANGED)
        BY <3>2 DEF do_undo
      <4> QED
        BY <1>0, <4>1, <4>2, Zenon
    <3>3. CASE do_redo
      <4>1. undo.current + 1 \in Int
        BY <1>0
      <4>2. o_undo_callback(undo, undo.current + 1, content, CHANGED)
        BY <3>3 DEF do_redo
      <4> QED
        BY <1>0, <4>1, <4>2, Zenon
    <3> QED
      BY <1>4, <3>1, <3>2, <3>3
  <2>2. Len(undo'.list) = Len(undo.list)
    <3>1. PICK target \in Int, c \in Content, changed \in BOOLEAN :
             o_undo_callback(undo, target, c, changed)
      BY <2>1
    <3> QED
      BY <1>0, <3>1, CallbackKeepsLength DEF OrdinarySession
  <2>3. UNCHANGED <<undo_type, undo_file_index>>
    BY <1>4 DEF i_callback_cancel, do_undo, do_redo
  <2> QED
    BY <2>2, <2>3 DEF Bounded
<1>5. CASE do_save
  <2>1. undo' = UpdateModified(undo) /\ UNCHANGED <<undo_type, undo_file_index>>
    BY <1>5 DEF do_save
  <2>2. Len(undo'.list) = Len(undo.list)
    BY <1>0, <2>1, UpdateModifiedResult
  <2> QED
    BY <2>1, <2>2 DEF Bounded
<1>6. CASE o_place_rotate \/ UNCHANGED vars
  <2>1. UNCHANGED <<undo, undo_type, undo_file_index>>
    BY <1>6 DEF o_place_rotate, history, vars
  <2> QED
    BY <2>1 DEF Bounded
<1>7. /\ ~Zoom /\ ~i_window_revert_page /\ ~RevertFails /\ ~GatherSettings
      /\ ~OtherPage
  BY DEF OrdinarySession, OnePage, Panned, Zoom, i_window_revert_page, RevertFails,
         GatherSettings, OtherPage
<1> QED
  BY <1>1, <1>2, <1>3, <1>4, <1>5, <1>6, <1>7 DEF Next

(* o_undo_savestate looks at the length of the history at every tenth undo  *)
(* file only; the history still stays "within the limits" of the dialog,    *)
(* the pad and the saves between two looks.  Viewport records are left out: *)
(* on disk they have no data and do not count.                              *)
THEOREM HistoryIsBounded ==
    ASSUME OrdinarySession, OnePage, ~Panned
    PROVE  Spec => []HistoryBounded
<1>1. OrdinarySession /\ Init => Bounded
  BY InitBounded
<1>2. OrdinarySession /\ OnePage /\ ~Panned /\ SessionInv /\ Bounded /\ [Next]_vars
        => Bounded'
  BY NextBounded
<1>3. SessionInv /\ Bounded => HistoryBounded
  <2> SUFFICES ASSUME SessionInv, Bounded
               PROVE  HistoryBounded
    OBVIOUS
  <2>1. /\ undo.list \in Seq(UNDO) /\ Len(undo.list) \in Nat
        /\ undo_file_index \in 0..(CheckEvery - 1)
    BY StackFields DEF SessionInv, TypeOK
  <2>2. s_undo_levels(undo.list) \in Nat /\ s_undo_levels(undo.list) <= Len(undo.list)
    BY <2>1, LevelsBound
  <2> QED
    BY <2>1, <2>2, LimitAssumption DEF Bounded, HistoryBounded
<1> QED
  BY <1>1, <1>2, <1>3, SessionInvariant, PTL DEF Spec
-----------------------------------------------------------------------------
(***************************************************************************)
(* An ordinary session is a behaviour of UndoHistory: each of its steps is *)
(* a step of the history the user is promised, or leaves that alone.       *)
(***************************************************************************)

(* The states of a list of records, and the document: what History has for  *)
(* hist and doc.                                                            *)
States(list) == [i \in DOMAIN list |-> list[i].page]
Document == IF inside_action THEN before ELSE content

(* Adding a record to a list adds a state, and forgets old ones as History  *)
(* allows it.                                                               *)
LEMMA RecordedIsRecent ==
    ASSUME NEW s \in Stack, NEW t \in Stack, NEW u \in UNDO, Recorded(s, t, u)
    PROVE  /\ States(t.list) \in
                 History!Recent(Append(SubSeq(States(s.list), 1, s.current), u.page))
           /\ t.current = Len(States(t.list))
<1> DEFINE n    == s.current
           kept == SubSeq(States(s.list), 1, n)
           h    == Append(kept, u.page)
<1>1. /\ n \in Nat /\ n <= Len(s.list) /\ Len(s.list) \in Nat /\ s.list \in Seq(UNDO)
      /\ t.list \in Seq(UNDO) /\ Len(t.list) \in Nat
      /\ \A i \in 1..Len(s.list) : s.list[i].page \in Content
      /\ u.page \in Content
  BY StackFields, RecordFields
<1>2. PICK k \in 0..n :
           /\ k > 0 => n + 1 - k >= UndoLevels
           /\ Len(t.list) = n + 1 - k
           /\ t.current = n + 1 - k
           /\ \A i \in 1..(n - k) : t.list[i] = s.list[i + k]
           /\ t.list[n + 1 - k] = u
  BY Zenon DEF Recorded
<1> HIDE DEF n
<1>3. /\ kept \in Seq(Content) /\ Len(kept) = n
      /\ \A i \in 1..n : kept[i] = s.list[i].page
  <2>1. /\ DOMAIN s.list = 1..Len(s.list)
        /\ \A i \in 1..Len(s.list) : States(s.list)[i] = s.list[i].page
    BY <1>1 DEF States
  <2>2. \A i \in 1..n : States(s.list)[i] \in Content
    BY <1>1, <2>1
  <2>3. /\ kept \in Seq(Content)
        /\ Len(kept) = IF 1 <= n THEN n - 1 + 1 ELSE 0
        /\ \A i \in 1..(n - 1 + 1) : kept[i] = States(s.list)[1 + i - 1]
    BY <1>1, <2>2, SubSeqProperties
  <2>4. \A i \in 1..n : 1 + i - 1 = i /\ i \in 1..Len(s.list)
    BY <1>1
  <2> QED
    BY <1>1, <2>1, <2>3, <2>4
<1> HIDE DEF kept
<1>4. /\ h \in Seq(Content) /\ Len(h) = n + 1
      /\ \A i \in 1..n : h[i] = s.list[i].page
      /\ h[n + 1] = u.page
  BY <1>1, <1>3
<1> HIDE DEF h
<1> DEFINE rest == SubSeq(h, k + 1, Len(h))
<1>5. /\ rest \in Seq(Content) /\ Len(rest) = n + 1 - k
      /\ \A i \in 1..(n + 1 - k) : rest[i] = h[i + k]
  <2>1. \A i \in (k + 1)..(n + 1) : h[i] \in Content
    BY <1>1, <1>4
  <2>2. k + 1 \in Int /\ n + 1 \in Int /\ k + 1 <= n + 1
    BY <1>1
  <2>3. /\ rest \in Seq(Content)
        /\ Len(rest) = IF k + 1 <= n + 1 THEN (n + 1) - (k + 1) + 1 ELSE 0
        /\ \A i \in 1..((n + 1) - (k + 1) + 1) : rest[i] = h[(k + 1) + i - 1]
    BY <1>4, <2>1, <2>2, SubSeqProperties
  <2>4. /\ (n + 1) - (k + 1) + 1 = n + 1 - k
        /\ \A i \in 1..(n + 1 - k) : (k + 1) + i - 1 = i + k
    BY <1>1
  <2> QED
    BY <2>2, <2>3, <2>4
<1>6. rest \in History!Recent(h)
  <2>1. k \in {0} \cup {j \in 1..(Len(h) - 1) : Len(h) - j >= UndoLevels}
    BY <1>1, <1>2, <1>4
  <2> QED
    BY <2>1 DEF History!Recent
<1> HIDE DEF rest
<1>7. States(t.list) = rest
  <2>1. /\ DOMAIN t.list = 1..(n + 1 - k)
        /\ DOMAIN rest = 1..(n + 1 - k)
    BY <1>1, <1>2, <1>5
  <2>2. ASSUME NEW i \in 1..(n + 1 - k)
        PROVE  t.list[i].page = rest[i]
    <3>1. CASE i = n + 1 - k
      <4>1. i + k = n + 1
        BY <1>1, <3>1
      <4> QED
        BY <1>2, <1>4, <1>5, <3>1, <4>1
    <3>2. CASE i # n + 1 - k
      <4>1. i \in 1..(n - k) /\ i + k \in 1..n
        BY <1>1, <3>2
      <4> QED
        BY <1>2, <1>4, <1>5, <4>1
    <3> QED
      BY <3>1, <3>2
  <2>3. rest = [i \in 1..(n + 1 - k) |-> rest[i]]
    BY <1>5, <2>1
  <2> QED
    BY <2>1, <2>2, <2>3 DEF States
<1> QED
  BY <1>2, <1>5, <1>6, <1>7 DEF h, kept, n

(* What o_undo_savestate does in an ordinary session, for History.          *)
LEMMA SavestateIsAdd ==
    ASSUME OrdinarySession, SessionInv, NEW s \in Stack, s.list = undo.list,
           NEW flag \in RecordType, NEW c \in Content, NEW changed \in BOOLEAN,
           o_undo_savestate(flag, s, c, changed),
           UNCHANGED file, Document' = c, CHANGED' \/ c = file
    PROVE  History!Add(s.current, c)
<1>1. "faults" \notin UserActs /\ undo_control
  BY DEF OrdinarySession, SessionInv
<1>2. PICK ok \in Success :
         LET r == Savestate(s, undo_type, undo_file_index, flag, c, changed, ok)
         IN  undo' = r.undo
  BY <1>1, Zenon DEF o_undo_savestate, Outcomes, Success
<1> DEFINE r == Savestate(s, undo_type, undo_file_index, flag, c, changed, ok)
           u == NewRecord(undo_type, flag, c, changed)
<1>3. /\ undo_type \in UNDO_TYPE /\ undo_type # "NONE"
      /\ undo_file_index \in 0..(CheckEvery - 1)
      /\ UndoLevels >= 1
  BY LimitAssumption DEF OrdinarySession, SessionInv, TypeOK
<1>4. r.undo \in Stack /\ Recorded(s, r.undo, u)
  BY <1>3, SavestateRecords
<1>5. u \in UNDO /\ u.page = c
  BY <1>3, NewRecordType DEF NewRecord
<1>6. undo' = r.undo
  BY <1>2, Zenon
<1> HIDE DEF r, u
<1>7. /\ States(undo'.list) \in
            History!Recent(Append(SubSeq(States(undo.list), 1, s.current), c))
      /\ undo'.current = Len(States(undo'.list))
  BY <1>4, <1>5, <1>6, RecordedIsRecent
<1> QED
  BY <1>7 DEF History!Add, History!HonestFlag, States, Document

(* Undo and redo in an ordinary session, for History.                       *)
LEMMA CallbackIsGoTo ==
    ASSUME OrdinarySession, SessionInv, NEW target \in Int, NEW c \in Content,
           NEW changed \in BOOLEAN,
           target = undo.current - 1 \/ target = undo.current + 1,
           \/ c = undo.list[undo.current].page
           \/ undo.list[undo.current].type = "UNDO_ALL",
           changed # TRUE => c = file,
           o_undo_callback(undo, target, c, changed),
           UNCHANGED file, ~inside_action', target \in 1..Len(undo.list)
    PROVE  History!GoTo(target)
<1>1. undo \in Stack /\ undo.list \in Seq(UNDO) /\ DOMAIN undo.list = 1..Len(undo.list)
  BY StackFields DEF SessionInv, TypeOK
<1>2. /\ undo' \in Stack /\ SameRecords(undo.list, undo'.list, undo_type)
      /\ ~CHANGED' => content' = file
      /\ undo'.current = target
      /\ content' = undo.list[target].page
  BY SessionCallback
<1>3. States(undo'.list) = States(undo.list)
  <2>1. DOMAIN undo'.list = 1..Len(undo.list)
    BY <1>2, StackFields DEF SameRecords
  <2>2. \A i \in 1..Len(undo.list) : undo'.list[i].page = undo.list[i].page
    BY <1>2 DEF SameRecords
  <2> QED
    BY <1>1, <2>1, <2>2 DEF States
<1> QED
  BY <1>1, <1>2, <1>3 DEF History!GoTo, History!HonestFlag, States

LEMMA InitHistory == OrdinarySession /\ Init => History!Init
<1> SUFFICES ASSUME OrdinarySession, Init
             PROVE  History!Init
  OBVIOUS
<1>1. PICK c \in Content, type \in UndoTypes, ok \in Success, changed \in {FALSE} :
         LET first == Savestate(NoUndo, type, 0, "UNDO_ALL", c, changed, ok)
         IN  /\ content = c /\ file = c /\ before = c
             /\ CHANGED = FALSE
             /\ undo = first.undo
  BY Zenon DEF Init, Success
<1> DEFINE first == Savestate(NoUndo, type, 0, "UNDO_ALL", c, changed, ok)
           u     == NewRecord(type, "UNDO_ALL", c, changed)
<1>2. /\ type \in UNDO_TYPE /\ type # "NONE" /\ changed \in BOOLEAN
      /\ 0 \in 0..(CheckEvery - 1)
      /\ "UNDO_ALL" \in RecordType /\ UndoLevels >= 1 /\ NoUndo \in Stack
  BY SettingsAssumption, LimitAssumption, NoUndoType DEF OrdinarySession, RecordType
<1>3. first.undo \in Stack /\ Recorded(NoUndo, first.undo, u)
  BY <1>2, SavestateRecords
<1>4. u \in UNDO /\ u.page = c
  BY <1>2, NewRecordType DEF NewRecord
<1> HIDE DEF u
<1>5. undo = first.undo
  BY <1>1, Zenon
<1> HIDE DEF first
<1>6. /\ undo \in Stack /\ Len(undo.list) = 1 /\ undo.current = 1
      /\ undo.list[1] = u
  <2>1. NoUndo.current = 0
    BY DEF NoUndo
  <2> QED
    BY <1>3, <1>5, <2>1 DEF Recorded
<1>7. [i \in DOMAIN undo.list |-> undo.list[i].page] = <<c>>
  <2>1. undo.list \in Seq(UNDO) /\ DOMAIN undo.list = 1..1
    BY <1>6, StackFields
  <2> QED
    BY <1>4, <1>6, <2>1
<1> QED
  BY <1>1, <1>6, <1>7 DEF History!Init

LEMMA NextHistory ==
    OrdinarySession /\ SessionInv /\ SessionInv' /\ [Next]_vars
        => [History!Next]_(History!vars)
<1> SUFFICES ASSUME OrdinarySession, SessionInv, SessionInv', [Next]_vars
             PROVE  History!Next \/ UNCHANGED History!vars
  OBVIOUS
<1>0. /\ undo \in Stack /\ undo.current \in Nat /\ undo.current >= 1
      /\ undo.current <= Len(undo.list) /\ Len(undo.list) \in Nat
      /\ undo.list \in Seq(UNDO) /\ DOMAIN undo.list = 1..Len(undo.list)
      /\ content \in Content /\ CHANGED \in BOOLEAN
      /\ "UNDO_ALL" \in RecordType /\ "UNDO_VIEWPORT_ONLY" \in RecordType
  BY StackFields DEF SessionInv, TypeOK, RecordType
<1>01. /\ ~CHANGED => content = file
       /\ ~inside_action => content = undo.list[undo.current].page
  BY DEF SessionInv
<1>1. CASE Edit
  <2>1. PICK c \in Content, changed \in {TRUE, CHANGED} :
           /\ c # content => changed
           /\ content' = c /\ CHANGED' = changed
           /\ o_undo_savestate("UNDO_ALL", undo, c, changed)
    BY <1>1 DEF Edit
  <2>2. Document' = c /\ UNCHANGED file
    BY <1>1, <2>1 DEF Edit, move, Document
  <2>3. CHANGED' \/ c = file
    BY <1>0, <1>01, <2>1, Zenon
  <2>4. History!Add(undo.current, c)
    BY <1>0, <2>1, <2>2, <2>3, SavestateIsAdd
  <2>5. History!Record
    BY <2>4 DEF History!Record
  <2> QED
    BY <2>5 DEF History!Next
<1>2. CASE o_move_start
  <2>1. PICK c \in Content, changed \in BOOLEAN :
           /\ o_undo_savestate("UNDO_ALL", undo, c, changed)
           /\ Document' = c /\ UNCHANGED file
           /\ CHANGED' \/ c = file
    BY <1>0, <1>01, <1>2 DEF o_move_start, page, Document
  <2>2. History!Add(undo.current, c)
    BY <1>0, <2>1, SavestateIsAdd
  <2>3. History!Record
    BY <2>2 DEF History!Record
  <2> QED
    BY <2>3 DEF History!Next
<1>3. CASE o_place_rotate
  <2>1. History!Touch
    BY <1>3 DEF o_place_rotate, history, move, History!Touch
  <2> QED
    BY <2>1 DEF History!Next
<1>4. CASE o_move_end
  <2>1. PICK c \in Content :
           content' = c /\ o_undo_savestate("UNDO_ALL", RemoveLast(undo), c, TRUE)
    BY <1>4 DEF o_move_end
  <2>2. undo.current >= 2
    BY <1>4 DEF o_move_end, SessionInv, MoveRecorded
  <2>3. /\ RemoveLast(undo) \in Stack /\ RemoveLast(undo).list = undo.list
        /\ RemoveLast(undo).current = undo.current - 1
    BY <1>0, <2>2, RemoveLastResult
  <2>4. Document' = c /\ UNCHANGED file /\ CHANGED'
    BY <1>4, <2>1 DEF o_move_end, Document
  <2>5. History!Add(RemoveLast(undo).current, c)
    <3>1. \A changed \in BOOLEAN :
             o_undo_savestate("UNDO_ALL", RemoveLast(undo), c, changed) =>
               History!Add(RemoveLast(undo).current, c)
      BY <1>0, <2>3, <2>4, SavestateIsAdd
    <3> QED
      BY <2>1, <3>1, Zenon
  <2>6. History!Amend
    BY <1>0, <2>2, <2>3, <2>5 DEF History!Amend
  <2> QED
    BY <2>6 DEF History!Next
<1>5. CASE i_callback_cancel
  <2>1. /\ event_state = "MOVEMODE" /\ undo.current >= 2
        /\ undo.list[undo.current].type = "UNDO_ALL"
    BY <1>5 DEF i_callback_cancel, SessionInv, MoveRecorded
  <2>2. PICK stripped \in Content :
           o_undo_callback(undo, undo.current - 1, stripped, TRUE)
    BY <1>5, <2>1 DEF i_callback_cancel
  <2>3. undo.current - 1 \in 1..Len(undo.list) /\ undo.current - 1 \in Int
    BY <1>0, <2>1
  <2>4. UNCHANGED file /\ ~inside_action'
    BY <1>5 DEF i_callback_cancel
  <2>5. History!GoTo(undo.current - 1)
    <3>1. \A changed \in BOOLEAN :
             changed = TRUE /\ o_undo_callback(undo, undo.current - 1, stripped, changed) =>
               History!GoTo(undo.current - 1)
      BY <2>1, <2>3, <2>4, CallbackIsGoTo
    <3> QED
      BY <2>2, <3>1, Zenon
  <2> QED
    BY <2>5 DEF History!Next, History!Undo
<1>6. CASE do_undo
  <2>1. /\ o_undo_callback(undo, undo.current - 1, content, CHANGED)
        /\ undo.current - 1 \in Int
        /\ UNCHANGED <<file, inside_action, before>>
        /\ ~inside_action /\ ~inside_action'
    BY <1>0, <1>6 DEF do_undo, move
  <2>2. CASE undo.current - 1 \in 1..Len(undo.list)
    <3>1. History!GoTo(undo.current - 1)
      BY <1>0, <1>01, <2>1, <2>2, CallbackIsGoTo
    <3> QED
      BY <3>1 DEF History!Next, History!Undo
  <2>3. CASE undo.current - 1 \notin 1..Len(undo.list)
    <3>1. undo' = undo /\ content' = content /\ CHANGED' = CHANGED
      BY <1>0, <2>1, <2>3 DEF o_undo_callback
    <3> QED
      BY <2>1, <3>1 DEF History!vars
  <2> QED
    BY <2>2, <2>3
<1>7. CASE do_redo
  <2>1. /\ o_undo_callback(undo, undo.current + 1, content, CHANGED)
        /\ undo.current + 1 \in Int
        /\ UNCHANGED <<file, inside_action, before>>
    BY <1>0, <1>7 DEF do_redo, move
  <2>2. CASE undo.current + 1 \in 1..Len(undo.list)
    <3>1. ~inside_action'
      BY <1>0, <2>1, <2>2 DEF SessionInv, MoveRecorded
    <3>2. History!GoTo(undo.current + 1)
      BY <1>0, <1>01, <2>1, <2>2, <3>1, CallbackIsGoTo
    <3> QED
      BY <3>2 DEF History!Next, History!Redo
  <2>3. CASE undo.current + 1 \notin 1..Len(undo.list)
    <3>1. undo' = undo /\ content' = content /\ CHANGED' = CHANGED
      BY <1>0, <2>1, <2>3 DEF o_undo_callback
    <3> QED
      BY <2>1, <3>1 DEF History!vars
  <2> QED
    BY <2>2, <2>3
<1>8. CASE do_save
  <2>1. ~inside_action
    BY <1>8 DEF do_save, OrdinarySession
  <2>2. /\ file' = content /\ CHANGED' = FALSE /\ undo' = UpdateModified(undo)
        /\ UNCHANGED <<content, inside_action, before>>
    BY <1>8 DEF do_save, SessionInv
  <2>3. /\ undo' \in Stack /\ undo'.current = undo.current
        /\ Len(undo'.list) = Len(undo.list)
        /\ \A i \in 1..Len(undo.list) :
             undo'.list[i] = [undo.list[i] EXCEPT !.modified = (i # undo.current)]
    BY <1>0, <2>2, UpdateModifiedResult
  <2>4. States(undo'.list) = States(undo.list)
    <3>1. DOMAIN undo'.list = 1..Len(undo.list)
      <4>1. undo'.list \in Seq(UNDO)
        BY <2>3, StackFields
      <4> QED
        BY <2>3, <4>1
    <3>2. ASSUME NEW i \in 1..Len(undo.list)
          PROVE  undo'.list[i].page = undo.list[i].page
      <4>1. undo.list[i] \in UNDO
        BY <1>0, StackFields
      <4>2. undo'.list[i] = [undo.list[i] EXCEPT !.modified = (i # undo.current)]
        BY <2>3
      <4> QED
        BY <4>1, <4>2 DEF UNDO
    <3> QED
      BY <1>0, <3>1, <3>2 DEF States
  <2>5. History!Save
    BY <2>1, <2>2, <2>3, <2>4 DEF History!Save, States
  <2> QED
    BY <2>5 DEF History!Next
<1>9. CASE OtherPage
  <2>1. UNCHANGED <<content, CHANGED, file, undo, inside_action, before>>
    BY <1>9 DEF OtherPage, page, move
  <2> QED
    BY <2>1 DEF History!vars
<1>10. CASE UNCHANGED vars
  <2>1. UNCHANGED <<content, CHANGED, file, undo, inside_action, before>>
    BY <1>10 DEF vars
  <2> QED
    BY <2>1 DEF History!vars
<1>11. CASE Zoom
  <2>1. ~inside_action /\ ~inside_action' /\ UNCHANGED <<content, CHANGED, file>>
    BY <1>11 DEF Zoom, OrdinarySession, page, move
  <2>2. PICK c \in Content, changed \in BOOLEAN :
           /\ o_undo_savestate("UNDO_VIEWPORT_ONLY", undo, c, changed)
           /\ Document' = c /\ UNCHANGED file
           /\ CHANGED' \/ c = file
    <3>1. Document' = content /\ (CHANGED' \/ content = file)
      BY <1>01, <2>1 DEF Document
    <3>2. o_undo_savestate("UNDO_VIEWPORT_ONLY", undo, content, CHANGED)
      BY <1>11 DEF Zoom
    <3> QED
      BY <1>0, <2>1, <3>1, <3>2, Zenon
  <2>3. History!Add(undo.current, c)
    BY <1>0, <2>2, SavestateIsAdd
  <2>4. History!Record
    BY <2>3 DEF History!Record
  <2> QED
    BY <2>4 DEF History!Next
<1>12. ~i_window_revert_page /\ ~RevertFails /\ ~GatherSettings
  BY DEF OrdinarySession, i_window_revert_page, RevertFails, GatherSettings
<1> QED
  BY <1>1, <1>2, <1>3, <1>4, <1>5, <1>6, <1>7, <1>8, <1>9, <1>10, <1>11, <1>12 DEF Next

(* Saving, undoing and moving as gschem does them, with provisional records *)
(* for moves, a pad on the limit and no undo inside an action, is the undo  *)
(* that UndoHistory promises: every command of an ordinary session adds,    *)
(* replaces or goes to a state, saves, or changes nothing the user sees.    *)
THEOREM SessionsAreHistories ==
    ASSUME OrdinarySession
    PROVE  Spec => ImplementsHistory
<1>1. OrdinarySession /\ Init => History!Init
  BY InitHistory
<1>2. OrdinarySession /\ SessionInv /\ SessionInv' /\ [Next]_vars
        => [History!Next]_(History!vars)
  BY NextHistory
<1> QED
  BY <1>1, <1>2, SessionInvariant, PTL DEF Spec, ImplementsHistory, History!Spec
=============================================================================
