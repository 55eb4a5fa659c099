------------------------ MODULE UndoRecords_proofs ------------------------
(***************************************************************************)
(* What the operations on a page's undo records return, for every page     *)
(* content, every limit on the history and a history of any length.        *)
(***************************************************************************)
EXTENDS UndoRecords, TLAPS, FiniteSetTheorems, SequenceTheorems,
        WellFoundedInduction

(* Records and stacks as the provers need them. *)
LEMMA RecordFields ==
    ASSUME NEW u \in UNDO
    PROVE  /\ u.type \in RecordType
           /\ u.filename \in Content \cup {NULL}
           /\ u.object_list \in Content \cup {NULL}
           /\ u.modified \in BOOLEAN
           /\ u.page \in Content
BY DEF UNDO

LEMMA StackFields ==
    ASSUME NEW s \in Stack
    PROVE  /\ s = [list |-> s.list, current |-> s.current]
           /\ s.list \in Seq(UNDO)
           /\ s.current \in Nat /\ s.current <= Len(s.list)
           /\ Len(s.list) \in Nat
           /\ \A i \in 1..Len(s.list) : s.list[i] \in UNDO
BY DEF Stack

LEMMA StackIntro ==
    ASSUME NEW l \in Seq(UNDO), NEW n \in Nat, n <= Len(l)
    PROVE  [list |-> l, current |-> n] \in Stack
BY DEF Stack

LEMMA NoUndoType == NoUndo \in Stack /\ NoUndo.current = Len(NoUndo.list)
<1>1. << >> \in Seq(UNDO) /\ Len(<< >>) = 0 /\ 0 \in Nat /\ 0 <= 0
  OBVIOUS
<1>2. NoUndo = [list |-> << >>, current |-> 0]
  BY DEF NoUndo
<1>3. NoUndo.list = << >> /\ NoUndo.current = 0
  BY <1>2
<1> QED
  BY <1>1, <1>2, <1>3, StackIntro

(* s_undo_add_disk and s_undo_add_memory make a record. *)
LEMMA NewRecordType ==
    ASSUME NEW undo_type, NEW flag \in RecordType, NEW c \in Content,
           NEW changed \in BOOLEAN
    PROVE  NewRecord(undo_type, flag, c, changed) \in UNDO
BY DEF NewRecord, UNDO

(* Saving a state clears what is above undo_current and adds one record. *)
LEMMA PushResult ==
    ASSUME NEW s \in Stack, NEW u \in UNDO
    PROVE  /\ Push(s, u) \in Stack
           /\ Push(s, u).current = s.current + 1
           /\ Len(Push(s, u).list) = s.current + 1
           /\ \A i \in 1..s.current : Push(s, u).list[i] = s.list[i]
           /\ Push(s, u).list[s.current + 1] = u
<1> DEFINE kept == SubSeq(s.list, 1, s.current)
<1>1. /\ kept \in Seq(UNDO) /\ Len(kept) = s.current
      /\ \A i \in 1..s.current : kept[i] = s.list[i]
  <2>1. \A i \in 1..s.current : s.list[i] \in UNDO
    BY StackFields
  <2> QED
    BY <2>1, StackFields, SubSeqProperties
<1> HIDE DEF kept
<1>2. /\ Append(kept, u) \in Seq(UNDO) /\ Len(Append(kept, u)) = s.current + 1
      /\ \A i \in 1..s.current : Append(kept, u)[i] = kept[i]
      /\ Append(kept, u)[s.current + 1] = u
  BY <1>1, AppendProperties
<1>3. Push(s, u) = [list |-> Append(kept, u), current |-> s.current + 1]
  BY DEF Push, kept
<1>4. Push(s, u).list = Append(kept, u) /\ Push(s, u).current = s.current + 1
  BY <1>3
<1>5. s.current + 1 \in Nat /\ s.current + 1 <= Len(Append(kept, u))
  BY <1>2, StackFields
<1>6. Push(s, u) \in Stack
  BY <1>2, <1>3, <1>5, StackIntro
<1> QED
  BY <1>1, <1>2, <1>4, <1>6

LEMMA ClearAboveResult ==
    ASSUME NEW s \in Stack
    PROVE  /\ ClearAbove(s) \in Stack
           /\ ClearAbove(s).current = s.current
           /\ Len(ClearAbove(s).list) = s.current
<1> DEFINE kept == SubSeq(s.list, 1, s.current)
<1>1. \A i \in 1..s.current : s.list[i] \in UNDO
  BY StackFields
<1>2. kept \in Seq(UNDO) /\ Len(kept) = s.current
  BY <1>1, StackFields, SubSeqProperties
<1>3. ClearAbove(s) = [list |-> kept, current |-> s.current]
  BY DEF ClearAbove, Stack
<1> HIDE DEF kept
<1>4. ClearAbove(s).list = kept /\ ClearAbove(s).current = s.current
  BY <1>3
<1>5. s.current \in Nat /\ s.current <= Len(kept)
  BY <1>2, StackFields
<1>6. ClearAbove(s) \in Stack
  BY <1>2, <1>3, <1>5, StackIntro
<1> QED
  BY <1>2, <1>4, <1>6

(* There are no more records with data than records. *)
LEMMA LevelsBound ==
    ASSUME NEW l \in Seq(UNDO)
    PROVE  s_undo_levels(l) \in Nat /\ s_undo_levels(l) <= Len(l)
<1>1. Len(l) \in Nat /\ DOMAIN l = 1..Len(l)
  OBVIOUS
<1>2. IsFiniteSet(1..Len(l)) /\ Cardinality(1..Len(l)) = Len(l)
  BY <1>1, FS_Interval
<1>3. {i \in DOMAIN l : HasData(l[i])} \subseteq 1..Len(l)
  BY <1>1
<1>4. /\ IsFiniteSet({i \in DOMAIN l : HasData(l[i])})
      /\ Cardinality({i \in DOMAIN l : HasData(l[i])}) <= Len(l)
  BY <1>2, <1>3, FS_Subset
<1> QED
  BY <1>4, FS_CardinalityType DEF s_undo_levels

(* The trimming loop is asked for no more than leaves UndoLevels records,   *)
(* and for nothing while the list is shorter than the limit and the pad.    *)
LEMMA ExcessBound ==
    ASSUME NEW l \in Seq(UNDO), NEW index \in Nat
    PROVE  /\ Excess(l, index) \in Nat
           /\ Excess(l, index) > 0 =>
                /\ Excess(l, index) <= Len(l) - UndoLevels
                /\ Len(l) >= UndoLevels + UndoPadding
<1>1. s_undo_levels(l) \in Nat /\ s_undo_levels(l) <= Len(l) /\ Len(l) \in Nat
  BY LevelsBound
<1> QED
  BY <1>1, LimitAssumption DEF Excess

(* Trimming keeps the newest records in place below undo_current. *)
LEMMA DropBottomResult ==
    ASSUME NEW s \in Stack, NEW n \in Nat, n <= s.current
    PROVE  /\ DropBottom(s, n) \in Stack
           /\ DropBottom(s, n).current = s.current - n
           /\ Len(DropBottom(s, n).list) = Len(s.list) - n
           /\ \A i \in 1..(Len(s.list) - n) :
                DropBottom(s, n).list[i] = s.list[i + n]
<1> DEFINE rest == SubSeq(s.list, n + 1, Len(s.list))
<1>1. \A i \in (n + 1)..Len(s.list) : s.list[i] \in UNDO
  BY StackFields
<1>2. Len(s.list) \in Nat /\ s.current \in Nat /\ s.current <= Len(s.list)
  BY StackFields
<1>3. /\ rest \in Seq(UNDO)
      /\ Len(rest) = IF n + 1 <= Len(s.list) THEN Len(s.list) - (n + 1) + 1 ELSE 0
      /\ \A i \in 1..(Len(s.list) - (n + 1) + 1) : rest[i] = s.list[(n + 1) + i - 1]
  BY <1>1, <1>2, SubSeqProperties
<1> HIDE DEF rest
<1>4. /\ Len(rest) = Len(s.list) - n
      /\ \A i \in 1..(Len(s.list) - n) : rest[i] = s.list[i + n]
  <2>1. Len(rest) = Len(s.list) - n
    BY <1>2, <1>3
  <2>2. ASSUME NEW i \in 1..(Len(s.list) - n)
        PROVE  rest[i] = s.list[i + n]
    <3>1. i \in 1..(Len(s.list) - (n + 1) + 1) /\ (n + 1) + i - 1 = i + n
      BY <1>2
    <3> QED
      BY <1>3, <3>1
  <2> QED
    BY <2>1, <2>2
<1>5. DropBottom(s, n) = [list |-> rest, current |-> s.current - n]
  BY DEF DropBottom, rest
<1> QED
  BY <1>2, <1>3, <1>4, <1>5, StackIntro

(* The outcomes of writing an undo file that works. *)
Success == {TRUE}

(* o_undo_savestate with a history type: the new state is the newest record *)
(* and the current one, and below it are the newest of the states that led  *)
(* to it, UndoLevels records at least when any are forgotten.               *)
LEMMA SavestateAdds ==
    ASSUME NEW s \in Stack, NEW type \in UNDO_TYPE, type # "NONE",
           NEW index \in 0..(CheckEvery - 1), NEW flag \in RecordType,
           NEW c \in Content, NEW changed \in BOOLEAN,
           NEW ok \in Success, UndoLevels >= 1
    PROVE  LET r == Savestate(s, type, index, flag, c, changed, ok)
               u == NewRecord(type, flag, c, changed)
           IN  /\ r.undo_type = type
               /\ r.index \in 0..(CheckEvery - 1)
               /\ r.undo \in Stack
               /\ \E n \in 0..s.current :
                    /\ n > 0 => s.current + 1 - n >= UndoLevels
                    /\ n > 0 => s.current + 1 >= UndoLevels + UndoPadding
                    /\ Len(r.undo.list) = s.current + 1 - n
                    /\ r.undo.current = s.current + 1 - n
                    /\ \A i \in 1..(s.current - n) : r.undo.list[i] = s.list[i + n]
                    /\ r.undo.list[s.current + 1 - n] = u
<1> DEFINE u    == NewRecord(type, flag, c, changed)
           next == IF type = "DISK" /\ flag = "UNDO_ALL"
                   THEN (index + 1) % CheckEvery ELSE index
           full == Push(s, u)
           n    == Excess(full.list, next)
           r    == Savestate(s, type, index, flag, c, changed, ok)
<1>1. u \in UNDO
  BY NewRecordType
<1>2. next \in 0..(CheckEvery - 1)
  BY LimitAssumption
<1>3. /\ full \in Stack /\ full.current = s.current + 1
      /\ Len(full.list) = s.current + 1
      /\ \A i \in 1..s.current : full.list[i] = s.list[i]
      /\ full.list[s.current + 1] = u
  BY <1>1, PushResult
<1>4. r = [undo      |-> IF Exhausts(full, n) THEN full ELSE DropBottom(full, n),
           undo_type |-> type,
           index     |-> next,
           dangling  |-> Exhausts(full, n)]
  BY DEF Savestate, Success
<1> HIDE DEF u, next, full, r
<1>5. s.current \in Nat /\ full.list \in Seq(UNDO)
  BY <1>3, StackFields
<1>6. /\ n \in Nat
      /\ n > 0 => n <= Len(full.list) - UndoLevels
      /\ n > 0 => Len(full.list) >= UndoLevels + UndoPadding
  <2>1. next \in Nat
    BY <1>2, LimitAssumption
  <2> QED
    BY <1>5, <2>1, ExcessBound
<1> HIDE DEF n
<1>7. /\ n \in 0..s.current
      /\ n > 0 => s.current + 1 - n >= UndoLevels
      /\ n > 0 => s.current + 1 >= UndoLevels + UndoPadding
  BY <1>3, <1>5, <1>6, LimitAssumption
<1>8. Exhausts(full, n) = FALSE
  BY <1>3, <1>5, <1>7 DEF Exhausts
<1>9. r.undo = DropBottom(full, n) /\ r.undo_type = type /\ r.index = next
  <2>1. /\ r.undo = IF Exhausts(full, n) THEN full ELSE DropBottom(full, n)
        /\ r.undo_type = type /\ r.index = next
    BY <1>4
  <2>2. r.dangling = Exhausts(full, n)
    BY <1>4, Zenon
  <2> QED
    BY <1>8, <2>1, <2>2
<1>10. n \in Nat /\ n <= full.current
  BY <1>3, <1>5, <1>7
<1>11. /\ r.undo \in Stack /\ r.undo.current = s.current + 1 - n
       /\ Len(r.undo.list) = s.current + 1 - n
       /\ \A i \in 1..(s.current + 1 - n) : r.undo.list[i] = full.list[i + n]
  <2>1. /\ DropBottom(full, n) \in Stack
        /\ DropBottom(full, n).current = full.current - n
        /\ Len(DropBottom(full, n).list) = Len(full.list) - n
        /\ \A i \in 1..(Len(full.list) - n) :
             DropBottom(full, n).list[i] = full.list[i + n]
    BY <1>3, <1>10, DropBottomResult
  <2>2. full.current - n = s.current + 1 - n /\ Len(full.list) - n = s.current + 1 - n
    <3>1. full.current = s.current + 1 /\ Len(full.list) = s.current + 1
      BY <1>3
    <3> QED
      BY <1>5, <1>10, <3>1
  <2>3. r.undo = DropBottom(full, n)
    BY <1>9
  <2>4. /\ r.undo \in Stack /\ r.undo.current = full.current - n
        /\ Len(r.undo.list) = Len(full.list) - n
        /\ \A i \in 1..(Len(full.list) - n) : r.undo.list[i] = full.list[i + n]
    BY <2>1, <2>3
  <2> QED
    BY <2>2, <2>4
<1>12. \A i \in 1..(s.current - n) : r.undo.list[i] = s.list[i + n]
  <2>1. ASSUME NEW i \in 1..(s.current - n)
        PROVE  r.undo.list[i] = s.list[i + n]
    <3>1. i \in 1..(s.current + 1 - n) /\ i + n \in 1..s.current
      BY <1>5, <1>7
    <3> QED
      BY <1>3, <1>11, <3>1
  <2> QED
    BY <2>1
<1>13. r.undo.list[s.current + 1 - n] = u
  <2>1. /\ s.current + 1 - n \in 1..(s.current + 1 - n)
        /\ (s.current + 1 - n) + n = s.current + 1
    BY <1>5, <1>7
  <2> QED
    BY <1>3, <1>11, <2>1
<1>14. \E k \in 0..s.current :
          /\ k > 0 => s.current + 1 - k >= UndoLevels
          /\ k > 0 => s.current + 1 >= UndoLevels + UndoPadding
          /\ Len(r.undo.list) = s.current + 1 - k
          /\ r.undo.current = s.current + 1 - k
          /\ \A i \in 1..(s.current - k) : r.undo.list[i] = s.list[i + k]
          /\ r.undo.list[s.current + 1 - k] = u
  BY <1>7, <1>11, <1>12, <1>13
<1> QED
  BY <1>2, <1>9, <1>11, <1>14 DEF r, u

(* A history s to which the record u was added: the newest records up to    *)
(* the current one, and the new one on top.                                 *)
Recorded(s, after, u) ==
    \E k \in 0..s.current :
        /\ k > 0 => s.current + 1 - k >= UndoLevels
        /\ Len(after.list) = s.current + 1 - k
        /\ after.current = s.current + 1 - k
        /\ \A i \in 1..(s.current - k) : after.list[i] = s.list[i + k]
        /\ after.list[s.current + 1 - k] = u

LEMMA SavestateRecords ==
    ASSUME NEW s \in Stack, NEW type \in UNDO_TYPE, type # "NONE",
           NEW index \in 0..(CheckEvery - 1), NEW flag \in RecordType,
           NEW c \in Content, NEW changed \in BOOLEAN,
           NEW ok \in Success, UndoLevels >= 1
    PROVE  LET r == Savestate(s, type, index, flag, c, changed, ok)
           IN  /\ r.undo_type = type /\ r.undo \in Stack
               /\ r.index \in 0..(CheckEvery - 1)
               /\ Recorded(s, r.undo, NewRecord(type, flag, c, changed))
<1> DEFINE r == Savestate(s, type, index, flag, c, changed, ok)
<1>1. r.undo_type = type /\ r.undo \in Stack /\ r.index \in 0..(CheckEvery - 1)
  BY SavestateAdds
<1>2. \E k \in 0..s.current :
         /\ k > 0 => s.current + 1 - k >= UndoLevels
         /\ Len(r.undo.list) = s.current + 1 - k
         /\ r.undo.current = s.current + 1 - k
         /\ \A i \in 1..(s.current - k) : r.undo.list[i] = s.list[i + k]
         /\ r.undo.list[s.current + 1 - k] = NewRecord(type, flag, c, changed)
  BY SavestateAdds
<1>3. Recorded(s, r.undo, NewRecord(type, flag, c, changed))
  BY <1>2, Zenon DEF Recorded
<1> QED
  BY <1>1, <1>3

(* o_undo_savestate in any setting and whether or not the undo file could   *)
(* be written: the records still are a list with undo_current at its end.   *)
LEMMA SavestateType ==
    ASSUME NEW s \in Stack, NEW undo_type \in UNDO_TYPE,
           NEW index \in 0..(CheckEvery - 1), NEW flag \in RecordType,
           NEW c \in Content, NEW changed \in BOOLEAN, NEW ok \in BOOLEAN
    PROVE  LET r == Savestate(s, undo_type, index, flag, c, changed, ok)
           IN  /\ r.undo \in Stack
               /\ r.undo.current = Len(r.undo.list)
               /\ r.undo_type \in UNDO_TYPE
               /\ r.index \in 0..(CheckEvery - 1)
               /\ r.dangling \in BOOLEAN
               /\ UndoLevels >= 1 => ~r.dangling
<1> DEFINE disk == undo_type = "DISK" /\ flag = "UNDO_ALL"
           type == IF disk /\ ~ok THEN "MEMORY" ELSE undo_type
           next == IF disk THEN (index + 1) % CheckEvery ELSE index
           kept == IF disk /\ ~ok THEN NoUndo ELSE s
           full == IF type = "NONE" THEN ClearAbove(kept)
                   ELSE Push(kept, NewRecord(type, flag, c, changed))
           n    == Excess(full.list, next)
           r    == Savestate(s, undo_type, index, flag, c, changed, ok)
<1>1. type \in UNDO_TYPE
  BY DEF UNDO_TYPE
<1>2. next \in 0..(CheckEvery - 1)
  BY LimitAssumption
<1>3. kept \in Stack
  BY NoUndoType
<1>4. r = [undo      |-> IF Exhausts(full, n) THEN full ELSE DropBottom(full, n),
           undo_type |-> type,
           index     |-> next,
           dangling  |-> Exhausts(full, n)]
  BY DEF Savestate
<1> HIDE DEF type, next, kept, r
<1>5. full \in Stack /\ full.current = Len(full.list)
  <2>1. kept.current \in Nat
    BY <1>3, StackFields
  <2>2. CASE type = "NONE"
    BY <1>3, <2>1, <2>2, ClearAboveResult
  <2>3. CASE type # "NONE"
    <3>1. NewRecord(type, flag, c, changed) \in UNDO
      BY NewRecordType
    <3> QED
      BY <1>3, <2>1, <2>3, <3>1, PushResult
  <2> QED
    BY <2>2, <2>3
<1> HIDE DEF full
<1>6. full.list \in Seq(UNDO) /\ Len(full.list) \in Nat
  BY <1>5, StackFields
<1>7. n \in Nat /\ (n > 0 => n <= Len(full.list) - UndoLevels)
  BY <1>2, <1>6, LimitAssumption, ExcessBound
<1> HIDE DEF n
<1>8. Exhausts(full, n) \in BOOLEAN
  BY DEF Exhausts
<1>9. UndoLevels >= 1 => ~Exhausts(full, n)
  BY <1>6, <1>7, LimitAssumption DEF Exhausts
<1>10. CASE Exhausts(full, n)
  BY <1>1, <1>2, <1>4, <1>5, <1>8, <1>9, <1>10 DEF r
<1>11. CASE ~Exhausts(full, n)
  <2>1. n <= full.current
    BY <1>5, <1>6, <1>7, <1>11 DEF Exhausts
  <2>2. /\ DropBottom(full, n) \in Stack
        /\ DropBottom(full, n).current = Len(DropBottom(full, n).list)
    BY <1>5, <1>7, <2>1, DropBottomResult
  <2> QED
    BY <1>1, <1>2, <1>4, <1>8, <1>9, <1>11, <2>2 DEF r
<1> QED
  BY <1>10, <1>11

(* Bounded sets of numbers have a largest element, which the search for a   *)
(* record with data comes upon first.                                       *)
LEMMA HasMinimum ==
    ASSUME NEW S \in SUBSET Nat, S # {}
    PROVE  \E m \in S : \A k \in S : m <= k
<1> DEFINE less == OpToRel(<, Nat)
<1>1. \A i, j \in Nat : i < j => <<i, j>> \in less
  BY DEF OpToRel
<1>2. IsWellFoundedOn(less, Nat)
  BY NatLessThanWellFounded
<1> HIDE DEF less
<1>3. PICK m \in S : \A k \in S : ~ (<<k, m>> \in less)
  BY <1>2, WFMin
<1>4. ASSUME NEW k \in S
      PROVE  m <= k
  <2>1. m \in Nat /\ k \in Nat
    OBVIOUS
  <2>2. ~(k < m)
    BY <1>1, <1>3, <2>1
  <2> QED
    BY <2>1, <2>2
<1> QED
  BY <1>4

LEMMA HasMaximum ==
    ASSUME NEW n \in Nat, NEW S \in SUBSET (1..n), S # {}
    PROVE  \E m \in S : \A k \in S : k <= m
<1> DEFINE mirror == {n - k : k \in S}
<1>1. mirror \in SUBSET Nat /\ mirror # {}
  <2>1. \A k \in S : k \in 1..n
    OBVIOUS
  <2>2. \A k \in S : n - k \in Nat
    BY <2>1
  <2> QED
    BY <2>2
<1>2. PICK d \in mirror : \A e \in mirror : d <= e
  BY <1>1, HasMinimum
<1>3. PICK m \in S : d = n - m
  OBVIOUS
<1>4. ASSUME NEW k \in S
      PROVE  k <= m
  <2>1. k \in 1..n /\ m \in 1..n
    OBVIOUS
  <2>2. n - m <= n - k
    BY <1>2, <1>3
  <2> QED
    BY <2>1, <2>2
<1> QED
  BY <1>4

(* What undo and redo put back is something the page once held, if anything. *)
LEMMA StoredType ==
    ASSUME NEW u \in UNDO, NEW undo_type
    PROVE  Stored(u, undo_type) \in Content \cup {NULL}
<1>1. u.filename \in Content \cup {NULL} /\ u.object_list \in Content \cup {NULL}
  BY RecordFields
<1> QED
  BY <1>1 DEF Stored

LEMMA PrevStoredType ==
    ASSUME NEW s \in Stack, NEW target \in 1..Len(s.list), NEW undo_type
    PROVE  PrevStored(s.list, target, undo_type) \in Content \cup {NULL}
<1> DEFINE below == {j \in 1..(target - 1) : Stored(s.list[j], undo_type) # NULL}
           top   == CHOOSE j \in below : \A k \in below : k <= j
<1>1. CASE below = {}
  BY <1>1 DEF PrevStored
<1>2. CASE below # {}
  <2>1. below \in SUBSET (1..(target - 1)) /\ target - 1 \in Nat
    BY StackFields
  <2>2. \E j \in below : \A k \in below : k <= j
    BY <1>2, <2>1, HasMaximum
  <2>3. top \in below
    BY <2>2
  <2>4. top \in 1..Len(s.list)
    BY <2>3, StackFields
  <2>5. Stored(s.list[top], undo_type) \in Content \cup {NULL}
    BY <2>4, StackFields, StoredType
  <2> QED
    BY <1>2, <2>5 DEF PrevStored
<1> QED
  BY <1>1, <1>2

(* The search stops at the first record below that has data: not below any  *)
(* record j that has.                                                       *)
LEMMA PrevStoredFound ==
    ASSUME NEW s \in Stack, NEW target \in 1..Len(s.list), NEW undo_type,
           NEW j \in 1..(target - 1), Stored(s.list[j], undo_type) # NULL
    PROVE  \E k \in j..(target - 1) :
              /\ Stored(s.list[k], undo_type) # NULL
              /\ PrevStored(s.list, target, undo_type) = Stored(s.list[k], undo_type)
<1> DEFINE below == {i \in 1..(target - 1) : Stored(s.list[i], undo_type) # NULL}
           top   == CHOOSE i \in below : \A k \in below : k <= i
<1>1. j \in below /\ below # {}
  OBVIOUS
<1>2. below \in SUBSET (1..(target - 1)) /\ target - 1 \in Nat
  BY StackFields
<1>3. \E i \in below : \A k \in below : k <= i
  BY <1>1, <1>2, HasMaximum
<1>4. top \in below /\ j <= top
  BY <1>1, <1>3
<1>5. PrevStored(s.list, target, undo_type) = Stored(s.list[top], undo_type)
  BY <1>1 DEF PrevStored
<1>6. top \in 1..(target - 1) /\ Stored(s.list[top], undo_type) # NULL
  BY <1>4
<1> HIDE DEF top
<1>7. top \in j..(target - 1)
  BY <1>4, <1>6, StackFields
<1> QED
  BY <1>5, <1>6, <1>7

LEMMA RestoredFromType ==
    ASSUME NEW s \in Stack, NEW target \in 1..Len(s.list), NEW undo_type
    PROVE  RestoredFrom(s, target, undo_type) \in Content \cup {NULL}
<1>1. Stored(s.list[target], undo_type) \in Content \cup {NULL}
  BY StackFields, StoredType
<1> QED
  BY <1>1, PrevStoredType DEF RestoredFrom

(* Undo, redo, giving up a record and saving the page change no record's    *)
(* place: the list keeps its length, and undo_current stays in it.          *)
LEMMA StepToResult ==
    ASSUME NEW s \in Stack, NEW target \in 1..Len(s.list)
    PROVE  /\ StepTo(s, target) \in Stack
           /\ StepTo(s, target).current = target
           /\ Len(StepTo(s, target).list) = Len(s.list)
           /\ ~Borrows(s, target) => StepTo(s, target).list = s.list
<1> DEFINE cleared == [s.list EXCEPT ![target].filename = NULL,
                                     ![target].object_list = NULL]
           next    == IF Borrows(s, target) THEN cleared ELSE s.list
<1>1. s.list \in Seq(UNDO) /\ s.list[target] \in UNDO
  BY StackFields
<1>2. cleared \in Seq(UNDO) /\ Len(cleared) = Len(s.list)
  <2> DEFINE u == [s.list[target] EXCEPT !.filename = NULL, !.object_list = NULL]
  <2>1. u \in UNDO
    BY <1>1 DEF UNDO
  <2>2. cleared = [s.list EXCEPT ![target] = u]
    BY <1>1
  <2> HIDE DEF u
  <2>3. /\ [s.list EXCEPT ![target] = u] \in Seq(UNDO)
        /\ Len([s.list EXCEPT ![target] = u]) = Len(s.list)
    BY <1>1, <2>1, ExceptSeq
  <2> QED
    BY <2>2, <2>3
<1> HIDE DEF cleared
<1>3. next \in Seq(UNDO) /\ Len(next) = Len(s.list)
  BY <1>1, <1>2
<1>4. StepTo(s, target) = [list |-> next, current |-> target]
  BY DEF StepTo, cleared
<1>5. ~Borrows(s, target) => next = s.list
  OBVIOUS
<1> HIDE DEF next
<1>6. StepTo(s, target).list = next /\ StepTo(s, target).current = target
  BY <1>4
<1>7. target \in Nat /\ target <= Len(next)
  BY <1>3, StackFields
<1>8. StepTo(s, target) \in Stack
  BY <1>3, <1>4, <1>7, StackIntro
<1> QED
  BY <1>3, <1>5, <1>6, <1>8

(* A step takes at most the data of the record it goes to, and that only    *)
(* when it is a viewport record.                                            *)
LEMMA StepToKeeps ==
    ASSUME NEW s \in Stack, NEW target \in 1..Len(s.list), NEW i \in 1..Len(s.list)
    PROVE  LET u == StepTo(s, target).list[i]
           IN  /\ u.type = s.list[i].type
               /\ u.page = s.list[i].page
               /\ u.modified = s.list[i].modified
               /\ \/ u = s.list[i]
                  \/ /\ s.list[i].type = "UNDO_VIEWPORT_ONLY"
                     /\ u.filename = NULL /\ u.object_list = NULL
<1> DEFINE cleared == [s.list EXCEPT ![target].filename = NULL,
                                     ![target].object_list = NULL]
           v == [s.list[target] EXCEPT !.filename = NULL, !.object_list = NULL]
<1>1. /\ s.list \in Seq(UNDO) /\ s.list[target] \in UNDO
      /\ DOMAIN s.list = 1..Len(s.list)
  BY StackFields
<1>2. CASE ~Borrows(s, target)
  BY <1>2, StepToResult
<1>3. CASE Borrows(s, target)
  <2>1. StepTo(s, target).list = cleared /\ s.list[target].type = "UNDO_VIEWPORT_ONLY"
    BY <1>3 DEF StepTo, Borrows
  <2>2. cleared = [s.list EXCEPT ![target] = v]
    BY <1>1
  <2>3. /\ v.type = s.list[target].type /\ v.page = s.list[target].page
        /\ v.modified = s.list[target].modified
        /\ v.filename = NULL /\ v.object_list = NULL
    BY <1>1 DEF UNDO
  <2> HIDE DEF cleared, v
  <2>4. cleared[i] = IF i = target THEN v ELSE s.list[i]
    BY <1>1, <2>2
  <2> QED
    BY <2>1, <2>3, <2>4
<1> QED
  BY <1>2, <1>3

LEMMA RemoveLastResult ==
    ASSUME NEW s \in Stack
    PROVE  /\ RemoveLast(s) \in Stack
           /\ RemoveLast(s).list = s.list
           /\ RemoveLast(s).current = IF s.current > 1 THEN s.current - 1 ELSE s.current
<1> DEFINE n == IF s.current > 1 THEN s.current - 1 ELSE s.current
<1>1. n \in Nat /\ n <= Len(s.list) /\ s.list \in Seq(UNDO)
  BY StackFields
<1>2. RemoveLast(s) = [list |-> s.list, current |-> n]
  BY DEF RemoveLast, Stack
<1> HIDE DEF n
<1>3. RemoveLast(s).list = s.list /\ RemoveLast(s).current = n
  BY <1>2
<1>4. RemoveLast(s) \in Stack
  BY <1>1, <1>2, StackIntro
<1> QED
  BY <1>3, <1>4 DEF n

LEMMA UpdateModifiedResult ==
    ASSUME NEW s \in Stack
    PROVE  /\ UpdateModified(s) \in Stack
           /\ UpdateModified(s).current = s.current
           /\ Len(UpdateModified(s).list) = Len(s.list)
           /\ \A i \in 1..Len(s.list) :
                UpdateModified(s).list[i] =
                    [s.list[i] EXCEPT !.modified = (i # s.current)]
<1> DEFINE marked == [i \in DOMAIN s.list |->
                        [s.list[i] EXCEPT !.modified = (i # s.current)]]
<1>1. /\ s.list \in Seq(UNDO) /\ Len(s.list) \in Nat
      /\ DOMAIN s.list = 1..Len(s.list)
      /\ \A i \in 1..Len(s.list) : s.list[i] \in UNDO
  BY StackFields
<1>2. \A i \in 1..Len(s.list) :
         [s.list[i] EXCEPT !.modified = (i # s.current)] \in UNDO
  BY <1>1 DEF UNDO
<1>3. marked \in [1..Len(s.list) -> UNDO]
  BY <1>1, <1>2
<1>4. /\ marked \in Seq(UNDO) /\ Len(marked) = Len(s.list)
      /\ \A i \in 1..Len(s.list) :
           marked[i] = [s.list[i] EXCEPT !.modified = (i # s.current)]
  BY <1>1, <1>3
<1>5. UpdateModified(s) = [list |-> marked, current |-> s.current]
  BY DEF UpdateModified, Stack
<1> HIDE DEF marked
<1>6. UpdateModified(s).list = marked /\ UpdateModified(s).current = s.current
  BY <1>5
<1>7. s.current \in Nat /\ s.current <= Len(marked)
  BY <1>4, StackFields
<1>8. UpdateModified(s) \in Stack
  BY <1>4, <1>5, <1>7, StackIntro
<1> QED
  BY <1>4, <1>6, <1>8

(* When every record has data, counting those with data counts them all.    *)
LEMMA AllLevels ==
    ASSUME NEW l \in Seq(UNDO), \A i \in 1..Len(l) : HasData(l[i])
    PROVE  s_undo_levels(l) = Len(l)
<1>1. Len(l) \in Nat /\ DOMAIN l = 1..Len(l)
  OBVIOUS
<1>2. Cardinality(1..Len(l)) = Len(l)
  BY <1>1, FS_Interval
<1>3. {i \in DOMAIN l : HasData(l[i])} = 1..Len(l)
  BY <1>1
<1> QED
  BY <1>2, <1>3 DEF s_undo_levels

(* o_undo_savestate on a list of records with data only: the list is never  *)
(* longer than the limit, the pad, and the saves since the last check.      *)
LEMMA SavestateBounded ==
    ASSUME NEW s \in Stack, NEW type \in {"DISK", "MEMORY"},
           NEW index \in 0..(CheckEvery - 1), type = "MEMORY" => index = 0,
           NEW c \in Content, NEW changed \in BOOLEAN,
           NEW ok \in Success, UndoLevels >= 1,
           \A i \in 1..Len(s.list) : HasData(s.list[i]),
           HasData(NewRecord(type, "UNDO_ALL", c, changed)),
           s.current <= UndoLevels + UndoPadding - 1 + index
    PROVE  LET r == Savestate(s, type, index, "UNDO_ALL", c, changed, ok)
           IN  /\ Len(r.undo.list) <= UndoLevels + UndoPadding - 1 + r.index
               /\ type = "MEMORY" => r.index = 0
<1> DEFINE u    == NewRecord(type, "UNDO_ALL", c, changed)
           next == IF type = "DISK" THEN (index + 1) % CheckEvery ELSE index
           full == Push(s, u)
           n    == Excess(full.list, next)
           r    == Savestate(s, type, index, "UNDO_ALL", c, changed, ok)
<1>1. u \in UNDO /\ HasData(u)
  BY NewRecordType DEF RecordType
<1>2. /\ next \in 0..(CheckEvery - 1)
      /\ next = 0 \/ next = index + 1
      /\ type = "MEMORY" => next = 0
  BY LimitAssumption
<1>3. /\ full \in Stack /\ full.current = s.current + 1
      /\ Len(full.list) = s.current + 1
      /\ \A i \in 1..s.current : full.list[i] = s.list[i]
      /\ full.list[s.current + 1] = u
  BY <1>1, PushResult
<1>4. r.undo = IF Exhausts(full, n) THEN full ELSE DropBottom(full, n)
  BY DEF Savestate, Success
<1>5. r.index = next
  BY DEF Savestate, Success
<1> HIDE DEF u, next, full, r
<1>6. s.current \in Nat /\ s.current <= Len(s.list) /\ Len(s.list) \in Nat
      /\ full.list \in Seq(UNDO)
  BY <1>3, StackFields
<1>7. \A i \in 1..Len(full.list) : HasData(full.list[i])
  <2> SUFFICES ASSUME NEW i \in 1..Len(full.list)
               PROVE  HasData(full.list[i])
    OBVIOUS
  <2>1. CASE i = s.current + 1
    BY <1>1, <1>3, <2>1
  <2>2. CASE i # s.current + 1
    <3>1. i \in 1..s.current /\ i \in 1..Len(s.list)
      BY <1>3, <1>6, <2>2
    <3>2. full.list[i] = s.list[i]
      BY <1>3, <3>1
    <3> QED
      BY <3>1, <3>2
  <2> QED
    BY <2>1, <2>2
<1>8. s_undo_levels(full.list) = s.current + 1
  BY <1>3, <1>6, <1>7, AllLevels
<1>9. n = IF next = 0 /\ s.current + 1 >= UndoLevels + UndoPadding
          THEN s.current + 1 - UndoLevels ELSE 0
  <2>1. next % CheckEvery = next
    BY <1>2, LimitAssumption
  <2>2. n = IF next % CheckEvery = 0
               /\ s_undo_levels(full.list) >= UndoLevels + UndoPadding
            THEN s_undo_levels(full.list) - UndoLevels ELSE 0
    BY DEF Excess
  <2> HIDE DEF n
  <2> QED
    BY <1>2, <1>6, <1>8, <2>1, <2>2, LimitAssumption
<1> HIDE DEF n
<1>10. n \in Nat /\ n <= s.current
  BY <1>6, <1>9, LimitAssumption
<1>11. ~Exhausts(full, n)
  BY <1>3, <1>6, <1>10 DEF Exhausts
<1>12. Len(r.undo.list) = s.current + 1 - n
  <2>1. n <= full.current
    BY <1>3, <1>6, <1>10
  <2>2. Len(DropBottom(full, n).list) = Len(full.list) - n
    BY <1>3, <1>10, <2>1, DropBottomResult
  <2>3. r.undo = DropBottom(full, n)
    BY <1>4, <1>11
  <2>4. Len(full.list) - n = s.current + 1 - n
    BY <1>3, <1>6, <1>10
  <2> QED
    BY <2>2, <2>3, <2>4
<1>13. s.current + 1 - n <= UndoLevels + UndoPadding - 1 + next
  BY <1>2, <1>6, <1>9, LimitAssumption
<1> QED
  BY <1>2, <1>5, <1>12, <1>13 DEF r
=============================================================================
