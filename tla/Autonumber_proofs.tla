------------------------- MODULE Autonumber_proofs -------------------------
(***************************************************************************)
(* For any pages, symbols, texts and settings: no number and no slot is    *)
(* given twice, if no number and no slot is zero.                          *)
(*                                                                         *)
(* The argument is that the lists know the texts they were made for: the   *)
(* number of each listed text is in used_numbers, and a free slot is one   *)
(* of a package that all texts with its number belong to, in other slots.  *)
(* Each slot of a package that was seen is free or has its text, so that   *)
(* no package is opened twice.                                             *)
(***************************************************************************)
EXTENDS Autonumber, FiniteSetTheorems, TLAPS

(* The texts whose numbers are in the lists. *)
InScope(o) == dialog.scope_skip = "hierarchy" \/ page[o] = at
Listed == {o \in (Respected \ to_respect) \cup done : InScope(o)}

(* Each page is dealt with once, and so is each text. *)
PagesSound ==
    /\ at \notin pages
    /\ \A o \in done : page[o] \notin pages
    /\ o_list \cap done = {}
    /\ \A o \in o_list : page[o] = at /\ Renumber(o)
    /\ \A o \in to_respect : o \in Respected /\ InScope(o)
    /\ to_respect # {} => \A o \in done : ~InScope(o)

TypeInv == TypeOK /\ IsFiniteSet(used_numbers)

NonZero ==
    /\ 0 \notin used_numbers /\ \A f \in free_slots : f.number # 0
    /\ \A o \in Objects : number[o] # 0 /\ slot[o] \in {NULL} \cup 1..numslots[symbol[o]]

UsedSound ==
    /\ \A o \in Listed : number[o] \in used_numbers
    /\ \A n \in used_numbers : \E o \in Listed : number[o] = n

FreeSound ==
    \A f \in free_slots :
        /\ dialog.slotting /\ f.number \in used_numbers
        /\ \E o \in Listed : number[o] = f.number
        /\ \A o \in Listed : number[o] = f.number =>
            symbol[o] = f.symbolname /\ Slot(o) \notin {NULL, f.slotnr}

SlotSeen(u) == \E o \in Listed :
    symbol[o] = u.symbolname /\ number[o] = u.number /\ Slot(o) = u.slotnr

SlotKnown(o, i) ==
    \/ [symbolname |-> symbol[o], number |-> number[o], slotnr |-> i] \in free_slots
    \/ \E p \in Listed : number[p] = number[o] /\ Slot(p) = i

PackagesSound ==
    /\ \A u \in used_slots : SlotSeen(u)
    /\ \A o \in Listed \cap Respected : Slotted(o) /\ Slot(o) # NULL =>
            \A i \in 1..numslots[symbol[o]] : SlotKnown(o, i)

ListsSound == UsedSound /\ FreeSound /\ PackagesSound

InOrder == NoClashBefore /\ ~dialog.removenum

IInv ==
    /\ TypeInv /\ PagesSound /\ NonZero
    /\ InOrder => ListsSound /\ NumbersSkipped

USE AutonumberAssumption

-----------------------------------------------------------------------------
(* The types.                                                               *)
LEMMA TypeInit == Init => TypeInv
<1> SUFFICES ASSUME Init PROVE TypeInv
  OBVIOUS
<1>1. \A s \in Symbols : Slots(s) \subseteq Nat \cup {NULL}
  BY DEF Slots
<1>2. number \in [Objects -> Nat \cup {NULL}] /\ slot \in [Objects -> Nat \cup {NULL}]
  BY <1>1 DEF Init
<1>3. page \in [Objects -> Pages] /\ symbol \in [Objects -> Symbols] /\ selected \subseteq Objects
  BY DEF Init
<1> QED BY <1>2, <1>3, FS_EmptySet DEF Init, TypeInv, TypeOK

LEMMA SlotType ==
    ASSUME TypeOK, NEW o \in Objects
    PROVE  Slot(o) \in Nat \cup {NULL}
BY DEF TypeOK, Slot

LEMMA UsedSlotType ==
    ASSUME TypeOK, NEW s \in AUTONUMBER_SLOT, UsedSlot(s)
    PROVE  /\ used_slots' \subseteq AUTONUMBER_SLOT
           /\ free_slots' \subseteq free_slots \cup OtherSlots(s)
BY DEF TypeOK, UsedSlot, First

LEMMA PackageType ==
    ASSUME NEW s \in Symbols, NEW n \in Nat, NEW S \in SUBSET (1..numslots[s])
    PROVE  /\ Package(s, n, S) \subseteq AUTONUMBER_SLOT
           /\ \A f \in Package(s, n, S) :
                f.symbolname = s /\ f.number = n /\ f.slotnr \in S
BY DEF Package, AUTONUMBER_SLOT

(* A number that is taken is one of a number line.                          *)
LEMMA NewNumberType ==
    ASSUME TypeInv, NEW n \in dialog.startnum..(dialog.startnum + Cardinality(used_numbers))
    PROVE  dialog.startnum \in StartNumbers /\ n \in Nat /\ n >= dialog.startnum
<1>1. dialog.startnum \in StartNumbers
  BY DEF TypeInv, TypeOK, AUTONUMBER_TEXT
<1>2. Cardinality(used_numbers) \in Nat
  BY FS_CardinalityType DEF TypeInv
<1>3. dialog.startnum \in Nat
  BY <1>1
<1>4. n \in Nat /\ n >= dialog.startnum
  BY <1>2, <1>3
<1> QED BY <1>1, <1>4

LEMMA TypeStep == TypeInv /\ PagesSound /\ [Next]_vars => TypeInv'
<1> SUFFICES ASSUME TypeInv, PagesSound, [Next]_vars PROVE TypeInv'
  OBVIOUS
<1> USE DEF TypeInv
<1>1. CASE NextPage
  <2>1. at' \in Pages /\ page_current' \in Pages /\ pages' \subseteq Pages
    BY <1>1 DEF NextPage, TypeOK
  <2> QED BY <1>1, <2>1, FS_EmptySet DEF NextPage, TypeOK, schematic, lists
<1>2. ASSUME NEW o \in Objects, autonumber_get_used(o) PROVE TypeInv'
  <2> DEFINE s == [symbolname |-> symbol[o], number |-> number[o], slotnr |-> Slot(o)]
  <2>1. number[o] \in Nat
    BY <1>2 DEF autonumber_get_used, TypeOK, PagesSound, Respected, Respect, isnumbered
  <2>2. IsFiniteSet(used_numbers') /\ used_numbers' \subseteq Nat
    BY <1>2, <2>1, FS_AddElement DEF autonumber_get_used, TypeOK
  <2>3. /\ free_slots' \subseteq AUTONUMBER_SLOT /\ used_slots' \subseteq AUTONUMBER_SLOT
        /\ \A f \in free_slots' : f.slotnr \in 1..numslots[f.symbolname]
    <3>1. CASE Slotted(o) /\ Slot(o) # NULL
      <4>1. UsedSlot(s)
        BY <1>2, <3>1 DEF autonumber_get_used
      <4>2. s \in AUTONUMBER_SLOT /\ s.symbolname \in Symbols /\ s.number \in Nat
        BY <2>1, <3>1, SlotType DEF TypeOK, AUTONUMBER_SLOT
      <4>3. /\ OtherSlots(s) \subseteq AUTONUMBER_SLOT
            /\ \A f \in OtherSlots(s) : f.slotnr \in 1..numslots[f.symbolname]
        BY <4>2, PackageType DEF OtherSlots
      <4> QED BY <4>1, <4>2, <4>3, UsedSlotType DEF TypeOK
    <3>2. CASE ~(Slotted(o) /\ Slot(o) # NULL)
      BY <1>2, <3>2 DEF autonumber_get_used, TypeOK
    <3> QED BY <3>1, <3>2
  <2> QED BY <1>2, <2>2, <2>3 DEF autonumber_get_used, TypeOK, schematic
<1>3. ASSUME NEW o \in Objects, TakeFreeSlot(o) PROVE TypeInv'
  <2>1. PICK f \in free_slots :
        /\ number' = [number EXCEPT ![o] = f.number]
        /\ free_slots' = free_slots \ {f}
        /\ o_slot_end(o, f.slotnr)
    BY <1>3 DEF TakeFreeSlot, First, FreeFor
  <2>2. f.number \in Nat /\ f.slotnr \in Nat
    BY DEF TypeOK, AUTONUMBER_SLOT
  <2> QED BY <1>3, <2>1, <2>2
          DEF TakeFreeSlot, Numbering, o_slot_end, TypeOK, schematic
<1>4. ASSUME NEW o \in Objects, TakeNewNumber(o) PROVE TypeInv'
  <2>1. PICK n \in dialog.startnum..(dialog.startnum + Cardinality(used_numbers)) :
        /\ number' = [number EXCEPT ![o] = n]
        /\ used_numbers' = used_numbers \cup {n}
        /\ IF Slotted(o) THEN OpenPackage(o, n)
           ELSE UNCHANGED <<slot, stray, page_current, free_slots>>
    BY <1>4 DEF TakeNewNumber
  <2>2. n \in Nat
    BY NewNumberType
  <2>3. IsFiniteSet(used_numbers') /\ used_numbers' \subseteq Nat
    BY <2>1, <2>2, FS_AddElement DEF TypeOK
  <2>4. number' \in [Objects -> Nat \cup {NULL}]
    BY <2>1, <2>2 DEF TypeOK
  <2>5. /\ slot' \in [Objects -> Nat \cup {NULL}]
        /\ stray' \subseteq Objects /\ page_current' \in Pages
        /\ free_slots' \subseteq AUTONUMBER_SLOT
        /\ \A f \in free_slots' : f.slotnr \in 1..numslots[f.symbolname]
    <3>1. CASE Slotted(o)
      <4>1. symbol[o] \in Symbols /\ numslots[symbol[o]] \in Nat
        BY DEF TypeOK
      <4>2. \A f \in Package(symbol[o], n, 2..numslots[symbol[o]]) :
                f \in AUTONUMBER_SLOT /\ f.slotnr \in 1..numslots[f.symbolname]
        BY <2>2, <4>1 DEF Package, AUTONUMBER_SLOT
      <4>3. /\ free_slots' = free_slots \cup Package(symbol[o], n, 2..numslots[symbol[o]])
            /\ slot' = [slot EXCEPT ![o] = 1]
            /\ stray' \in {stray, stray \cup {o}}
            /\ page_current' \in Pages
        BY <2>1, <3>1 DEF OpenPackage, o_slot_end, TypeOK
      <4> QED BY <4>2, <4>3 DEF TypeOK
    <3>2. CASE ~Slotted(o)
      BY <2>1, <3>2 DEF TypeOK
    <3> QED BY <3>1, <3>2
  <2> QED BY <1>4, <2>3, <2>4, <2>5 DEF TakeNewNumber, Numbering, TypeOK, schematic
<1>5. ASSUME NEW o \in Objects, autonumber_remove_number(o) PROVE TypeInv'
  BY <1>5 DEF autonumber_remove_number, Numbering, TypeOK, schematic
<1>6. CASE UNCHANGED vars
  BY <1>6 DEF vars, schematic, lists, TypeOK
<1> QED BY <1>1, <1>2, <1>3, <1>4, <1>5, <1>6 DEF Next

-----------------------------------------------------------------------------
(* The texts that are respected stay the same, with their numbers and slots. *)

(* What numbering, or removing the number of, o changes.                    *)
Renumbered(o) ==
    /\ Numbering(o)
    /\ \A p \in Objects \ {o} : number'[p] = number[p] /\ slot'[p] = slot[p]

LEMMA StepKinds ==
    ASSUME TypeInv, PagesSound, [Next]_vars
    PROVE  \/ NextPage \/ \E o \in Objects : autonumber_get_used(o)
           \/ \E o \in Objects : Renumbered(o)
           \/ UNCHANGED vars
<1>1. ASSUME NEW o \in Objects, TakeFreeSlot(o) PROVE Renumbered(o)
  BY <1>1 DEF TakeFreeSlot, o_slot_end, Renumbered, TypeInv, TypeOK
<1>2. ASSUME NEW o \in Objects, TakeNewNumber(o) PROVE Renumbered(o)
  BY <1>2 DEF TakeNewNumber, OpenPackage, o_slot_end, Renumbered, TypeInv, TypeOK
<1>3. ASSUME NEW o \in Objects, autonumber_remove_number(o) PROVE Renumbered(o)
  BY <1>3 DEF autonumber_remove_number, Renumbered, TypeInv, TypeOK
<1> QED BY <1>1, <1>2, <1>3 DEF Next

LEMMA RespectedStay ==
    ASSUME TypeInv, PagesSound, [Next]_vars
    PROVE  /\ Respected' = Respected
           /\ \A o \in Respected : number'[o] = number[o] /\ slot'[o] = slot[o]
           /\ dialog' = dialog /\ schematic' = schematic
<1> USE DEF Respected, Respect, Renumber, isnumbered, root_page, schematic
<1>1. CASE NextPage
  BY <1>1 DEF NextPage
<1>2. ASSUME NEW o \in Objects, autonumber_get_used(o)
      PROVE  /\ Respected' = Respected
             /\ \A p \in Respected : number'[p] = number[p] /\ slot'[p] = slot[p]
             /\ dialog' = dialog /\ schematic' = schematic
  BY <1>2 DEF autonumber_get_used
<1>3. ASSUME NEW o \in Objects, Renumbered(o)
      PROVE  /\ Respected' = Respected
             /\ \A p \in Respected : number'[p] = number[p] /\ slot'[p] = slot[p]
             /\ dialog' = dialog /\ schematic' = schematic
  <2>1. o \notin Respected /\ done' = done \cup {o} /\ UNCHANGED <<dialog, page, selected>>
    BY <1>3 DEF Renumbered, Numbering, PagesSound
  <2>2. \A p \in Objects \ {o} : number'[p] = number[p] /\ slot'[p] = slot[p]
    BY <1>3 DEF Renumbered
  <2> QED BY <1>3, <2>1, <2>2 DEF Renumbered, Numbering
<1>4. CASE UNCHANGED vars
  BY <1>4 DEF vars
<1> QED BY <1>1, <1>2, <1>3, <1>4, StepKinds

LEMMA PagesInit == Init => PagesSound
BY DEF Init, PagesSound, Respected, InScope

LEMMA PagesStep == TypeInv /\ PagesSound /\ [Next]_vars => PagesSound'
<1> SUFFICES ASSUME TypeInv, PagesSound, [Next]_vars PROVE PagesSound'
  OBVIOUS
<1>0. Respected' = Respected /\ dialog' = dialog /\ page' = page /\ selected' = selected
  BY RespectedStay DEF schematic
<1>1. CASE NextPage
  <2>1. PICK p \in pages :
        /\ at' = p
        /\ pages' = IF dialog.scope_number = "hierarchy" THEN pages \ {p} ELSE {}
        /\ o_list' = {o \in Objects : page[o] = p /\ Renumber(o)}
        /\ IF dialog.scope_skip = "hierarchy" THEN UNCHANGED <<to_respect, lists>>
           ELSE to_respect' = {o \in Objects : page[o] = p /\ Respect(o)}
    BY <1>1 DEF NextPage
  <2>2. done' = done /\ number' = number
    BY <1>1 DEF NextPage
  <2>3. \A o \in done : page[o] # p
    BY <2>1 DEF PagesSound
  <2>4. \A o \in o_list' : page'[o] = at' /\ Renumber(o)'
    BY <1>0, <2>1, <2>2 DEF Renumber, root_page, isnumbered
  <2>5. \A o \in to_respect' : o \in Respected' /\ InScope(o)'
    <3>1. CASE dialog.scope_skip = "hierarchy"
      BY <1>0, <2>1, <3>1 DEF PagesSound, InScope
    <3>2. CASE dialog.scope_skip # "hierarchy"
      BY <1>0, <2>1, <2>3, <3>2 DEF InScope, Respected
    <3> QED BY <3>1, <3>2
  <2>6. to_respect' # {} => \A o \in done' : ~InScope(o)'
    <3>1. CASE dialog.scope_skip = "hierarchy"
      BY <1>1, <2>1, <3>1 DEF NextPage
    <3>2. CASE dialog.scope_skip # "hierarchy"
      BY <1>0, <2>1, <2>2, <2>3, <3>2 DEF InScope
    <3> QED BY <3>1, <3>2
  <2> QED BY <1>0, <2>1, <2>2, <2>3, <2>4, <2>5, <2>6 DEF PagesSound
<1>2. ASSUME NEW o \in Objects, autonumber_get_used(o) PROVE PagesSound'
  BY <1>0, <1>2 DEF autonumber_get_used, PagesSound, InScope, Renumber, root_page, isnumbered
<1>3. ASSUME NEW o \in Objects, Renumbered(o) PROVE PagesSound'
  BY <1>0, <1>3 DEF Renumbered, Numbering, PagesSound, InScope, Renumber, root_page,
     isnumbered, TypeInv, TypeOK
<1>4. CASE UNCHANGED vars
  BY <1>0, <1>4 DEF vars, PagesSound, InScope, Renumber, root_page, isnumbered
<1> QED BY <1>1, <1>2, <1>3, <1>4, StepKinds

-----------------------------------------------------------------------------
(* Zeros do not come up by themselves.                                      *)
NoZeros == "no_slot" \notin UserActs /\ 0 \notin Numbers \cup StartNumbers

LEMMA NonZeroInit == NoZeros /\ Init => NonZero
<1> SUFFICES ASSUME NoZeros, Init PROVE NonZero
  OBVIOUS
<1>1. \A o \in Objects : number[o] # 0
  BY DEF Init, NoZeros
<1>2. \A o \in Objects : slot[o] \in {NULL} \cup 1..numslots[symbol[o]]
  BY DEF Init, NoZeros, Slots
<1> QED BY <1>1, <1>2 DEF Init, NonZero

LEMMA NonZeroStep ==
    ASSUME NoZeros, TypeInv, PagesSound, NonZero, [Next]_vars
    PROVE  NonZero'
<1>0. symbol' = symbol
  BY RespectedStay DEF schematic
<1>1. CASE NextPage
  BY <1>1, <1>0 DEF NextPage, lists, NonZero
<1>2. ASSUME NEW o \in Objects, autonumber_get_used(o) PROVE NonZero'
  <2>1. number[o] # 0
    BY DEF NonZero
  <2>2. \A f \in free_slots' : f.number # 0
    <3>1. ASSUME NEW f \in OtherSlots([symbolname |-> symbol[o], number |-> number[o],
                                       slotnr |-> Slot(o)])
          PROVE  f.number # 0
      BY <2>1, <3>1 DEF OtherSlots, Package
    <3> QED BY <1>2, <3>1 DEF autonumber_get_used, UsedSlot, First, NonZero
  <2> QED BY <1>0, <1>2, <2>1, <2>2 DEF autonumber_get_used, NonZero
<1>3. ASSUME NEW o \in Objects, TakeFreeSlot(o) PROVE NonZero'
  <2>1. PICK f \in free_slots :
        /\ f.symbolname = symbol[o]
        /\ number' = [number EXCEPT ![o] = f.number]
        /\ free_slots' = free_slots \ {f}
        /\ slot' = [slot EXCEPT ![o] = f.slotnr]
    BY <1>3 DEF TakeFreeSlot, First, FreeFor, o_slot_end
  <2>2. f.slotnr \in 1..numslots[symbol[o]] /\ f.number # 0
    BY <2>1 DEF TypeInv, TypeOK, NonZero
  <2> QED BY <1>0, <1>3, <2>1, <2>2 DEF TakeFreeSlot, NonZero, TypeInv, TypeOK
<1>4. ASSUME NEW o \in Objects, TakeNewNumber(o) PROVE NonZero'
  <2>1. PICK n \in dialog.startnum..(dialog.startnum + Cardinality(used_numbers)) :
        /\ number' = [number EXCEPT ![o] = n]
        /\ used_numbers' = used_numbers \cup {n}
        /\ IF Slotted(o) THEN OpenPackage(o, n)
           ELSE UNCHANGED <<slot, stray, page_current, free_slots>>
    BY <1>4 DEF TakeNewNumber
  <2>2. n \in Nat /\ n # 0
    <3>1. dialog.startnum \in StartNumbers /\ n \in Nat /\ n >= dialog.startnum
      BY NewNumberType
    <3>2. dialog.startnum \in Nat /\ dialog.startnum # 0
      BY <3>1 DEF NoZeros
    <3> QED BY <3>1, <3>2
  <2>3. \A f \in free_slots' : f.number # 0
    <3>1. \A f \in Package(symbol[o], n, 2..numslots[symbol[o]]) : f.number # 0
      BY <2>2 DEF Package
    <3> QED BY <2>1, <3>1 DEF OpenPackage, NonZero
  <2>4. \A p \in Objects : slot'[p] \in {NULL} \cup 1..numslots[symbol[p]]
    <3>1. CASE Slotted(o)
      <4>1. 1 \in 1..numslots[symbol[o]]
        BY <3>1 DEF Slotted, TypeInv, TypeOK
      <4> QED BY <2>1, <3>1, <4>1 DEF OpenPackage, o_slot_end, NonZero, TypeInv, TypeOK
    <3>2. CASE ~Slotted(o)
      BY <2>1, <3>2 DEF NonZero
    <3> QED BY <3>1, <3>2
  <2> QED BY <1>0, <2>1, <2>2, <2>3, <2>4 DEF NonZero, TypeInv, TypeOK
<1>5. ASSUME NEW o \in Objects, autonumber_remove_number(o) PROVE NonZero'
  BY <1>0, <1>5 DEF autonumber_remove_number, NonZero, TypeInv, TypeOK
<1>6. CASE UNCHANGED vars
  BY <1>0, <1>6 DEF vars, lists, NonZero
<1> QED BY <1>1, <1>2, <1>3, <1>4, <1>5, <1>6 DEF Next

-----------------------------------------------------------------------------
(* The lists.                                                               *)
LEMMA OrderStays ==
    ASSUME TypeInv, PagesSound, [Next]_vars, InOrder'
    PROVE  InOrder
<1>1. /\ Respected' = Respected
      /\ \A o \in Respected : number'[o] = number[o] /\ slot'[o] = slot[o]
      /\ dialog' = dialog /\ page' = page /\ symbol' = symbol
  BY RespectedStay DEF schematic
<1>2. Respected \subseteq Objects
  BY DEF Respected
<1>3. \A o, p \in Respected : Clash(o, p)' <=> Clash(o, p)
  BY <1>1, <1>2 DEF Clash, Slot, isnumbered
<1> QED BY <1>1, <1>2, <1>3 DEF InOrder, NoClashBefore, OneList

(* Two texts of a list that are both respected do not clash.                *)
LEMMA RespectedDiffer ==
    ASSUME InOrder, NEW o \in Respected, NEW p \in Respected, o # p,
           InScope(o), InScope(p), number[o] = number[p]
    PROVE  symbol[o] = symbol[p] /\ NULL \notin {Slot(o), Slot(p)} /\ Slot(o) # Slot(p)
BY DEF InOrder, NoClashBefore, OneList, InScope, Clash, Respected, Respect

(* While there is a text to respect, the lists hold respected ones only.    *)
LEMMA ListedWhileLooking ==
    ASSUME PagesSound, to_respect # {}, NEW p \in Listed
    PROVE  p \in Respected \ to_respect /\ InScope(p)
BY DEF PagesSound, Listed

(* Slots that are not zero are the same for freeslot_compare only if they are. *)
LEMMA SameSlotIsEqual ==
    ASSUME NEW a \in AUTONUMBER_SLOT, NEW b \in AUTONUMBER_SLOT,
           0 \notin {a.number, b.number, a.slotnr, b.slotnr}
    PROVE  SameSlot(a, b) <=> a = b
BY DEF SameSlot, AUTONUMBER_SLOT

LEMMA SlotRange ==
    ASSUME TypeInv, NonZero, NEW o \in Objects
    PROVE  Slot(o) \in {NULL} \cup 1..numslots[symbol[o]]
BY DEF TypeInv, TypeOK, NonZero, Slot

LEMMA GetUsedStep ==
    ASSUME TypeInv, PagesSound, NonZero, InOrder, ListsSound,
           NEW o \in Objects, autonumber_get_used(o)
    PROVE  ListsSound'
<1> DEFINE s == [symbolname |-> symbol[o], number |-> number[o], slotnr |-> Slot(o)]
<1>1. /\ o \in to_respect /\ to_respect' = to_respect \ {o}
      /\ used_numbers' = used_numbers \cup {number[o]}
      /\ UNCHANGED <<dialog, page, symbol, selected, number, slot, at, done>>
  BY DEF autonumber_get_used, schematic
<1>2. o \in Respected /\ InScope(o) /\ o \notin Listed
  BY <1>1 DEF PagesSound, Listed
<1>3. Listed' = Listed \cup {o}
  BY <1>1, <1>2 DEF Listed, Respected, Respect, Renumber, root_page, isnumbered, InScope
<1>4. \A p \in Objects : Slot(p)' = Slot(p) /\ (Slotted(p)' <=> Slotted(p))
  BY <1>1 DEF Slot, Slotted
<1>5. /\ Listed \subseteq Objects /\ Listed \subseteq Respected /\ Respected' = Respected
      /\ \A p \in Listed : Slotted(p) /\ Slot(p) # NULL =>
            \A i \in 1..numslots[symbol[p]] :
                \/ [symbolname |-> symbol[p], number |-> number[p], slotnr |-> i] \in free_slots
                \/ \E q \in Listed : number[q] = number[p] /\ Slot(q) = i
  <2>1. Listed \subseteq Objects /\ Listed \subseteq Respected
    BY <1>1, ListedWhileLooking DEF Listed, Respected, TypeInv, TypeOK
  <2>2. Respected' = Respected
    BY <1>1 DEF Respected, Respect, Renumber, root_page, isnumbered
  <2> QED BY <2>1, <2>2 DEF ListsSound, PackagesSound, SlotKnown
<1>6. number[o] \in Nat \ {0} /\ symbol[o] \in Symbols
  BY <1>2 DEF Respected, Respect, isnumbered, NonZero, TypeInv, TypeOK
(* A listed text with the number of o is in another slot of its package.    *)
<1>7. \A p \in Listed : number[p] = number[o] =>
        symbol[p] = symbol[o] /\ NULL \notin {Slot(o), Slot(p)} /\ Slot(p) # Slot(o)
  BY <1>1, <1>2, ListedWhileLooking, RespectedDiffer
(* ... and a free slot with it is of the symbol of o, which is slotted.     *)
<1>8. \A f \in free_slots : f.number = number[o] =>
        f.symbolname = symbol[o] /\ Slotted(o) /\ Slot(o) # NULL
  <2> SUFFICES ASSUME NEW f \in free_slots, f.number = number[o]
               PROVE  f.symbolname = symbol[o] /\ Slotted(o) /\ Slot(o) # NULL
    OBVIOUS
  <2>1. PICK p \in Listed : number[p] = f.number
    BY DEF ListsSound, FreeSound
  <2>2. symbol[p] = f.symbolname /\ symbol[p] = symbol[o] /\ Slot(o) # NULL
    BY <1>7, <2>1 DEF ListsSound, FreeSound
  <2>3. numslots[symbol[o]] > 0
    <3>1. f.slotnr \in 1..numslots[symbol[o]]
      BY <2>2 DEF TypeInv, TypeOK
    <3>2. numslots[symbol[o]] \in Nat
      BY <1>6
    <3> QED BY <3>1, <3>2
  <2> QED BY <2>2, <2>3 DEF Slotted, ListsSound, FreeSound
<1>9. UsedSound'
  BY <1>1, <1>3 DEF ListsSound, UsedSound
<1>10. CASE ~(Slotted(o) /\ Slot(o) # NULL)
  <2>1. UNCHANGED <<free_slots, used_slots>>
    BY <1>10 DEF autonumber_get_used
  <2>2. FreeSound'
    BY <1>1, <1>3, <1>4, <1>5, <1>8, <1>10, <2>1 DEF ListsSound, FreeSound
  <2>3. PackagesSound'
    <3>1. \A u \in used_slots' : SlotSeen(u)'
      BY <1>1, <1>3, <1>4, <1>5, <2>1 DEF ListsSound, PackagesSound, SlotSeen
    <3>2. \A p \in Listed' : Slotted(p)' /\ Slot(p)' # NULL =>
            \A i \in 1..numslots[symbol'[p]] : SlotKnown(p, i)'
      BY <1>1, <1>3, <1>4, <1>5, <1>10, <2>1 DEF SlotKnown
    <3> QED BY <3>1, <3>2 DEF PackagesSound
  <2> QED BY <1>9, <2>2, <2>3 DEF ListsSound
<1>11. CASE Slotted(o) /\ Slot(o) # NULL
  <2>1. Slot(o) \in 1..numslots[symbol[o]] /\ numslots[symbol[o]] \in Nat
    BY <1>6, <1>11, SlotRange
  <2>2. s \in AUTONUMBER_SLOT
    BY <1>6, <2>1 DEF AUTONUMBER_SLOT
  <2>3. \A u \in used_slots : ~SameSlot(u, s)
    <3> SUFFICES ASSUME NEW u \in used_slots, SameSlot(u, s) PROVE FALSE
      OBVIOUS
    <3>1. PICK p \in Listed :
            symbol[p] = u.symbolname /\ number[p] = u.number /\ Slot(p) = u.slotnr
      BY DEF ListsSound, PackagesSound, SlotSeen
    <3>2. number[p] # 0 /\ Slot(p) # 0
      <4>1. p \in Objects /\ Slot(p) \in {NULL} \cup 1..numslots[symbol[p]]
        BY <1>5, SlotRange
      <4> QED BY <4>1 DEF NonZero
    <3>3. u.number = number[o] /\ u.slotnr = Slot(o)
      BY <1>6, <2>1, <3>1, <3>2 DEF SameSlot
    <3> QED BY <1>7, <3>1, <3>3
  <2>4. \A f \in free_slots : SameSlot(f, s) <=> f = s
    <3> SUFFICES ASSUME NEW f \in free_slots PROVE SameSlot(f, s) <=> f = s
      OBVIOUS
    <3>1. f \in AUTONUMBER_SLOT /\ f.number # 0 /\ f.slotnr # 0
      BY DEF TypeInv, TypeOK, NonZero
    <3> QED BY <1>6, <2>1, <2>2, <3>1, SameSlotIsEqual
  <2>5. UsedSlot(s)
    BY <1>11 DEF autonumber_get_used
  <2>6. used_slots' = used_slots \cup {s}
    BY <2>3, <2>5 DEF UsedSlot
  <2>7. CASE s \in free_slots
    <3>1. free_slots' = free_slots \ {s}
      <4>1. {f \in free_slots : SameSlot(f, s)} = {s}
        BY <2>4, <2>7
      <4> QED BY <2>3, <2>5, <4>1 DEF UsedSlot, First
    <3>2. FreeSound'
      <4>1. ASSUME NEW f \in free_slots', f.number = number[o]
            PROVE  symbol[o] = f.symbolname /\ Slot(o) \notin {NULL, f.slotnr}
        <5>1. f \in AUTONUMBER_SLOT /\ f # s
          BY <3>1 DEF TypeInv, TypeOK
        <5> QED BY <1>8, <1>11, <3>1, <4>1, <5>1 DEF AUTONUMBER_SLOT
      <4> QED BY <1>1, <1>3, <1>4, <1>5, <3>1, <4>1 DEF ListsSound, FreeSound
    <3>3. PackagesSound'
      <4>1. \A u \in used_slots' : \E p \in Listed' :
                symbol[p] = u.symbolname /\ number[p] = u.number /\ Slot(p) = u.slotnr
        BY <1>1, <1>3, <2>6 DEF ListsSound, PackagesSound, SlotSeen
      <4>2. ASSUME NEW p \in Listed, Slotted(p), Slot(p) # NULL, NEW i \in 1..numslots[symbol[p]]
            PROVE  \/ [symbolname |-> symbol[p], number |-> number[p], slotnr |-> i] \in free_slots'
                   \/ \E q \in Listed' : number[q] = number[p] /\ Slot(q) = i
        BY <1>3, <1>5, <3>1, <4>2
      <4>3. ASSUME NEW i \in 1..numslots[symbol[o]]
            PROVE  \/ [symbolname |-> symbol[o], number |-> number[o], slotnr |-> i] \in free_slots'
                   \/ \E q \in Listed' : number[q] = number[o] /\ Slot(q) = i
        <5>1. PICK p \in Listed : number[p] = number[o]
          BY <2>7 DEF ListsSound, FreeSound
        <5>2. symbol[p] = symbol[o] /\ Slot(p) # NULL /\ Slotted(p)
          BY <1>7, <1>11, <5>1 DEF Slotted
        <5> QED BY <4>2, <5>1, <5>2
      <4>4. \A u \in used_slots' : SlotSeen(u)'
        BY <1>1, <1>3, <1>4, <1>5, <4>1 DEF SlotSeen
      <4>5. \A p \in Listed' : Slotted(p)' /\ Slot(p)' # NULL =>
              \A i \in 1..numslots[symbol'[p]] : SlotKnown(p, i)'
        BY <1>1, <1>3, <1>4, <1>5, <4>2, <4>3 DEF SlotKnown
      <4> QED BY <4>4, <4>5 DEF PackagesSound
    <3> QED BY <1>9, <3>2, <3>3 DEF ListsSound
  <2>8. CASE s \notin free_slots
    <3>1. free_slots' = free_slots \cup OtherSlots(s)
      BY <2>3, <2>4, <2>5, <2>8 DEF UsedSlot
    <3>2. \A p \in Listed : number[p] # number[o]
      <4> SUFFICES ASSUME NEW p \in Listed, number[p] = number[o] PROVE FALSE
        OBVIOUS
      <4>1. symbol[p] = symbol[o] /\ Slot(p) # NULL /\ Slotted(p)
        BY <1>7, <1>11 DEF Slotted
      <4>2. PICK q \in Listed : number[q] = number[o] /\ Slot(q) = Slot(o)
        BY <1>5, <2>1, <2>8, <4>1
      <4> QED BY <1>7, <4>2
    <3>3. \A f \in free_slots : f.number # number[o]
      BY <3>2 DEF ListsSound, FreeSound
    <3>4. \A f \in OtherSlots(s) :
            f.symbolname = symbol[o] /\ f.number = number[o] /\ f.slotnr # Slot(o)
      BY DEF OtherSlots, Package
    <3>5. \A i \in 1..numslots[symbol[o]] :
            i # Slot(o) => [symbolname |-> symbol[o], number |-> number[o], slotnr |-> i]
                                \in OtherSlots(s)
      BY DEF OtherSlots, Package
    <3>6. ASSUME NEW f \in free_slots'
          PROVE  /\ dialog.slotting /\ f.number \in used_numbers'
                 /\ \E p \in Listed' : number[p] = f.number
                 /\ \A p \in Listed' : number[p] = f.number =>
                        symbol[p] = f.symbolname /\ Slot(p) \notin {NULL, f.slotnr}
      <4>1. CASE f \in free_slots
        BY <1>1, <1>3, <3>3, <4>1 DEF ListsSound, FreeSound
      <4>2. CASE f \in OtherSlots(s)
        BY <1>1, <1>3, <1>11, <3>2, <3>4, <4>2 DEF Slotted
      <4> QED BY <3>1, <4>1, <4>2
    <3>7. FreeSound'
      BY <1>1, <1>3, <1>4, <1>5, <3>6 DEF FreeSound
    <3>8. PackagesSound'
      <4>1. \A u \in used_slots' : \E p \in Listed' :
                symbol[p] = u.symbolname /\ number[p] = u.number /\ Slot(p) = u.slotnr
        BY <1>1, <1>3, <2>6 DEF ListsSound, PackagesSound, SlotSeen
      <4>2. ASSUME NEW p \in Listed', Slotted(p), Slot(p) # NULL, NEW i \in 1..numslots[symbol[p]]
            PROVE  \/ [symbolname |-> symbol[p], number |-> number[p], slotnr |-> i] \in free_slots'
                   \/ \E q \in Listed' : number[q] = number[p] /\ Slot(q) = i
        <5>1. CASE p \in Listed
          BY <1>3, <1>5, <3>1, <4>2, <5>1
        <5>2. CASE p = o
          BY <1>3, <3>1, <3>5, <4>2, <5>2
        <5> QED BY <1>3, <5>1, <5>2
      <4>3. \A u \in used_slots' : SlotSeen(u)'
        BY <1>1, <1>3, <1>4, <1>5, <4>1 DEF SlotSeen
      <4>4. \A p \in Listed' : Slotted(p)' /\ Slot(p)' # NULL =>
              \A i \in 1..numslots[symbol'[p]] : SlotKnown(p, i)'
        BY <1>1, <1>3, <1>4, <1>5, <4>2 DEF SlotKnown
      <4> QED BY <4>3, <4>4 DEF PackagesSound
    <3> QED BY <1>9, <3>7, <3>8 DEF ListsSound
  <2> QED BY <2>7, <2>8
<1> QED BY <1>10, <1>11

NumbersDistinct == \A o \in done : \A p \in Skipped(o) : ~Clash(o, p)

LEMMA NumberingScope ==
    ASSUME TypeInv, PagesSound, [Next]_vars, NEW o \in Objects, Renumbered(o)
    PROVE  /\ to_respect = {} /\ to_respect' = {} /\ InScope(o) /\ o \notin Listed
           /\ Listed \subseteq Objects /\ Listed' = Listed \cup {o}
           /\ Skipped(o)' = Listed
           /\ done' = done \cup {o}
           /\ \A q \in done : Skipped(q)' \subseteq Skipped(q) \cup {o}
           /\ \A q \in done : o \in Skipped(q)' => q \in Listed
           /\ UNCHANGED <<dialog, page, symbol, used_slots>>
           /\ \A p \in Objects \ {o} : Slot(p)' = Slot(p) /\ number'[p] = number[p]
<1>1. /\ Respected' = Respected /\ dialog' = dialog /\ page' = page /\ symbol' = symbol
      /\ to_respect = {} /\ to_respect' = {} /\ done' = done \cup {o} /\ at' = at
      /\ used_slots' = used_slots
  BY RespectedStay DEF schematic, Renumbered, Numbering
<1>2. o \notin Respected /\ o \notin done /\ page[o] = at
  BY DEF Renumbered, Numbering, PagesSound, Respected, Respect
<1>3. Listed \subseteq Objects
  BY DEF Listed, Respected, TypeInv, TypeOK
<1>4. InScope(o) /\ o \notin Listed /\ Listed' = Listed \cup {o}
  BY <1>1, <1>2 DEF Listed, InScope
<1>5. Skipped(o)' = Listed
  BY <1>1, <1>2 DEF Skipped, OneList, Listed, InScope
<1>6. ASSUME NEW q \in done
      PROVE  /\ Skipped(q)' \subseteq Skipped(q) \cup {o}
             /\ o \in Skipped(q)' => q \in Listed
  BY <1>1, <1>2 DEF Skipped, OneList, Listed, InScope
<1>7. \A p \in Objects \ {o} : Slot(p)' = Slot(p) /\ number'[p] = number[p]
  BY <1>1 DEF Renumbered, Slot
<1> QED BY <1>1, <1>3, <1>4, <1>5, <1>6, <1>7

(* A number that no listed text clashes with keeps the numbers distinct.    *)
LEMMA DistinctStep ==
    ASSUME TypeInv, PagesSound, [Next]_vars, NEW o \in Objects, Renumbered(o),
           NumbersDistinct,
           \A p \in Listed : number[p] = number'[o] =>
                symbol[p] = symbol[o] /\ NULL \notin {Slot(o)', Slot(p)} /\ Slot(p) # Slot(o)'
    PROVE  NumbersDistinct'
<1>1. /\ Listed \subseteq Objects /\ o \notin Listed /\ Skipped(o)' = Listed
      /\ done' = done \cup {o} /\ symbol' = symbol
      /\ \A q \in done : Skipped(q)' \subseteq Skipped(q) \cup {o}
      /\ \A q \in done : o \in Skipped(q)' => q \in Listed
      /\ \A p \in Objects \ {o} : Slot(p)' = Slot(p) /\ number'[p] = number[p]
  BY NumberingScope
<1>2. \A p \in Listed : ~Clash(o, p)' /\ ~Clash(p, o)'
  BY <1>1 DEF Clash, isnumbered
<1>3. o \notin done /\ done \subseteq Objects
  BY DEF Renumbered, Numbering, PagesSound, TypeInv, TypeOK
<1>4. ASSUME NEW q \in done, NEW p \in Skipped(q)' PROVE ~Clash(q, p)'
  <2>1. CASE p = o
    BY <1>1, <1>2, <2>1
  <2>2. CASE p # o
    <3>1. p \in Skipped(q) /\ p \in Objects /\ q # o
      BY <1>1, <1>3, <2>2 DEF Skipped, Respected
    <3>2. ~Clash(q, p)
      BY <3>1 DEF NumbersDistinct
    <3> QED BY <1>1, <1>3, <2>2, <3>1, <3>2 DEF Clash, isnumbered
  <2> QED BY <2>1, <2>2
<1> QED BY <1>1, <1>2, <1>4 DEF NumbersDistinct

(* Numbering a text takes at most its own slot off the free ones.           *)
LEMMA PackagesKept ==
    ASSUME TypeInv, PagesSound, [Next]_vars, NEW o \in Objects, Renumbered(o),
           PackagesSound,
           \A f \in free_slots : f \notin free_slots' =>
                f.number = number'[o] /\ f.slotnr = Slot(o)'
    PROVE  PackagesSound'
<1>1. /\ Listed \subseteq Objects /\ o \notin Listed /\ Listed' = Listed \cup {o}
      /\ UNCHANGED <<dialog, symbol, used_slots>>
      /\ \A p \in Objects \ {o} : Slot(p)' = Slot(p) /\ number'[p] = number[p]
  BY NumberingScope
<1>2. \A p \in Listed : Slot(p)' = Slot(p) /\ number'[p] = number[p] /\ symbol'[p] = symbol[p]
  BY <1>1
<1>3. Respected' = Respected /\ o \notin Respected
  BY RespectedStay DEF Renumbered, Numbering, PagesSound, Respected, Respect
<1>4. \A u \in used_slots' : SlotSeen(u)'
  BY <1>1, <1>2 DEF PackagesSound, SlotSeen
<1>5. ASSUME NEW p \in Listed' \cap Respected', Slotted(p)', Slot(p)' # NULL,
             NEW i \in 1..numslots[symbol'[p]]
      PROVE  SlotKnown(p, i)'
  <2>1. p \in Listed \cap Respected
    BY <1>1, <1>3
  <2>2. SlotKnown(p, i)
    BY <1>1, <1>2, <1>5, <2>1 DEF PackagesSound, Slotted
  <2>3. CASE \E q \in Listed : number[q] = number[p] /\ Slot(q) = i
    BY <1>1, <1>2, <2>1, <2>3 DEF SlotKnown
  <2> DEFINE f == [symbolname |-> symbol[p], number |-> number[p], slotnr |-> i]
  <2>4. CASE f \in free_slots /\ f \in free_slots'
    BY <1>2, <2>1, <2>4 DEF SlotKnown
  <2>5. CASE f \in free_slots /\ f \notin free_slots'
    <3>1. f.number = number[p] /\ f.slotnr = i
      OBVIOUS
    <3>2. number'[o] = number[p] /\ Slot(o)' = i
      BY <2>5, <3>1
    <3> QED BY <1>1, <1>2, <2>1, <3>2 DEF SlotKnown
  <2> QED BY <2>2, <2>3, <2>4, <2>5 DEF SlotKnown
<1> QED BY <1>4, <1>5 DEF PackagesSound

LEMMA TakeFreeSlotStep ==
    ASSUME TypeInv, PagesSound, NonZero, ListsSound, NumbersDistinct, [Next]_vars,
           NEW o \in Objects, Renumbered(o), TakeFreeSlot(o)
    PROVE  ListsSound' /\ NumbersDistinct'
<1>1. PICK f \in free_slots :
        /\ f.symbolname = symbol[o]
        /\ number' = [number EXCEPT ![o] = f.number]
        /\ free_slots' = free_slots \ {f}
        /\ slot' = [slot EXCEPT ![o] = f.slotnr]
  BY DEF TakeFreeSlot, First, FreeFor, o_slot_end
<1>2. used_numbers' = used_numbers
  BY DEF TakeFreeSlot
<1>3. /\ Listed \subseteq Objects /\ o \notin Listed /\ Listed' = Listed \cup {o}
      /\ to_respect' = {} /\ UNCHANGED <<dialog, symbol>>
      /\ \A p \in Objects \ {o} : Slot(p)' = Slot(p) /\ number'[p] = number[p]
  BY NumberingScope
<1>4. f \in AUTONUMBER_SLOT /\ f.slotnr \in Nat
  BY DEF TypeInv, TypeOK, AUTONUMBER_SLOT
<1>5. number'[o] = f.number /\ Slot(o)' = f.slotnr /\ f.slotnr # NULL
  BY <1>1, <1>4 DEF TypeInv, TypeOK, Slot
<1>6. \A p \in Listed : number[p] = number'[o] =>
        symbol[p] = symbol[o] /\ NULL \notin {Slot(o)', Slot(p)} /\ Slot(p) # Slot(o)'
  BY <1>1, <1>5 DEF ListsSound, FreeSound
<1>7. NumbersDistinct'
  BY <1>6, DistinctStep
<1>8. UsedSound'
  BY <1>2, <1>3, <1>5 DEF ListsSound, UsedSound, FreeSound
<1>9. ASSUME NEW g \in free_slots'
      PROVE  /\ dialog.slotting /\ g.number \in used_numbers'
             /\ \E p \in Listed' : number'[p] = g.number
             /\ \A p \in Listed' : number'[p] = g.number =>
                    symbol[p] = g.symbolname /\ Slot(p)' \notin {NULL, g.slotnr}
  <2>1. g \in free_slots /\ g # f /\ g \in AUTONUMBER_SLOT
    BY <1>1 DEF TypeInv, TypeOK
  <2>2. PICK p \in Listed : number[p] = g.number
    BY <2>1 DEF ListsSound, FreeSound
  <2>3. g.number = f.number => symbol[o] = g.symbolname /\ f.slotnr # g.slotnr
    <3>1. g.number = f.number => symbol[p] = g.symbolname /\ symbol[p] = f.symbolname
      BY <2>1, <2>2 DEF ListsSound, FreeSound
    <3> QED BY <1>1, <1>4, <2>1, <3>1 DEF AUTONUMBER_SLOT
  <2>4. dialog.slotting /\ g.number \in used_numbers
    BY <2>1 DEF ListsSound, FreeSound
  <2>5. \A q \in Listed : number[q] = g.number =>
            symbol[q] = g.symbolname /\ Slot(q) \notin {NULL, g.slotnr}
    BY <2>1 DEF ListsSound, FreeSound
  <2> QED BY <1>2, <1>3, <1>5, <2>2, <2>3, <2>4, <2>5
<1>10. FreeSound'
  BY <1>3, <1>9 DEF FreeSound
<1>11. PackagesSound'
  BY <1>1, <1>5, PackagesKept DEF ListsSound
<1> QED BY <1>7, <1>8, <1>10, <1>11 DEF ListsSound

LEMMA TakeNewNumberStep ==
    ASSUME TypeInv, PagesSound, NonZero, ListsSound, NumbersDistinct, [Next]_vars,
           NEW o \in Objects, Renumbered(o), TakeNewNumber(o)
    PROVE  ListsSound' /\ NumbersDistinct'
<1>1. PICK n \in dialog.startnum..(dialog.startnum + Cardinality(used_numbers)) :
        /\ n \notin used_numbers
        /\ number' = [number EXCEPT ![o] = n]
        /\ used_numbers' = used_numbers \cup {n}
        /\ IF Slotted(o) THEN OpenPackage(o, n)
           ELSE UNCHANGED <<slot, stray, page_current, free_slots>>
  BY DEF TakeNewNumber, NewNumber
<1>2. /\ Listed \subseteq Objects /\ o \notin Listed /\ Listed' = Listed \cup {o}
      /\ to_respect' = {} /\ UNCHANGED <<dialog, symbol>>
      /\ \A p \in Objects \ {o} : Slot(p)' = Slot(p) /\ number'[p] = number[p]
  BY NumberingScope
<1>3. number'[o] = n
  BY <1>1 DEF TypeInv, TypeOK
<1>4. \A p \in Listed : number[p] # n
  BY <1>1 DEF ListsSound, UsedSound
<1>5. NumbersDistinct'
  BY <1>3, <1>4, DistinctStep
<1>6. UsedSound'
  BY <1>1, <1>2, <1>3 DEF ListsSound, UsedSound
<1>7. ASSUME NEW f \in free_slots'
      PROVE  /\ dialog.slotting /\ f.number \in used_numbers'
             /\ \E p \in Listed' : number'[p] = f.number
             /\ \A p \in Listed' : number'[p] = f.number =>
                    symbol[p] = f.symbolname /\ Slot(p)' \notin {NULL, f.slotnr}
  <2>1. CASE f \in free_slots
    <3>1. dialog.slotting /\ f.number \in used_numbers /\ f.number # n
      BY <1>1, <2>1 DEF ListsSound, FreeSound
    <3>2. \E p \in Listed : number[p] = f.number
      BY <2>1 DEF ListsSound, FreeSound
    <3>3. \A p \in Listed : number[p] = f.number =>
            symbol[p] = f.symbolname /\ Slot(p) \notin {NULL, f.slotnr}
      BY <2>1 DEF ListsSound, FreeSound
    <3> QED BY <1>1, <1>2, <1>3, <3>1, <3>2, <3>3
  <2>2. CASE f \notin free_slots
    <3>1. Slotted(o) /\ f \in Package(symbol[o], n, 2..numslots[symbol[o]])
      BY <1>1, <2>2 DEF OpenPackage
    <3>2. slot'[o] = 1 /\ Slot(o)' = 1
      BY <1>1, <3>1 DEF OpenPackage, o_slot_end, TypeInv, TypeOK, Slot
    <3>3. f.symbolname = symbol[o] /\ f.number = n /\ f.slotnr # 1
      <4>1. numslots[symbol[o]] \in Nat
        BY DEF TypeInv, TypeOK
      <4> QED BY <3>1, <4>1 DEF Package
    <3> QED BY <1>1, <1>2, <1>3, <1>4, <3>1, <3>2, <3>3 DEF Slotted
  <2> QED BY <2>1, <2>2
<1>8. FreeSound'
  BY <1>2, <1>7 DEF FreeSound
<1>9. PackagesSound'
  <2>1. free_slots \subseteq free_slots'
    BY <1>1 DEF OpenPackage
  <2> QED BY <2>1, PackagesKept DEF ListsSound
<1> QED BY <1>5, <1>6, <1>8, <1>9 DEF ListsSound

LEMMA ListsInit == Init => ListsSound /\ NumbersDistinct
<1> SUFFICES ASSUME Init PROVE ListsSound /\ NumbersDistinct
  OBVIOUS
<1>1. Listed = {}
  BY DEF Init, Listed, Respected, InScope
<1> QED BY <1>1 DEF Init, ListsSound, UsedSound, FreeSound, PackagesSound, NumbersDistinct

LEMMA ListsStep ==
    ASSUME TypeInv, PagesSound, NonZero, InOrder, ListsSound, NumbersDistinct, [Next]_vars
    PROVE  ListsSound' /\ NumbersDistinct'
<1>0. /\ Respected' = Respected /\ dialog' = dialog /\ page' = page /\ symbol' = symbol
  BY RespectedStay DEF schematic
<1>1. ASSUME UNCHANGED <<number, slot, done>> PROVE NumbersDistinct'
  BY <1>0, <1>1 DEF NumbersDistinct, Skipped, OneList, Clash, isnumbered, Slot
<1>2. ASSUME UNCHANGED <<number, slot, done, to_respect, lists>>,
             dialog.scope_skip = "hierarchy" \/ at' = at
      PROVE  ListsSound'
  <2>1. Listed' = Listed
    BY <1>0, <1>2 DEF Listed, InScope
  <2> QED BY <1>0, <1>2, <2>1
          DEF lists, ListsSound, UsedSound, FreeSound, PackagesSound, SlotSeen,
              SlotKnown, Slot, Slotted
<1>3. CASE NextPage
  <2>1. CASE dialog.scope_skip = "hierarchy"
    BY <1>1, <1>2, <1>3, <2>1 DEF NextPage
  <2>2. CASE dialog.scope_skip # "hierarchy"
    <3>1. PICK p \in pages :
            /\ at' = p
            /\ to_respect' = {o \in Objects : page[o] = p /\ Respect(o)}
            /\ used_numbers' = {} /\ free_slots' = {} /\ used_slots' = {}
      BY <1>3, <2>2 DEF NextPage
    <3>2. UNCHANGED <<number, slot, done>>
      BY <1>3 DEF NextPage
    <3>3. Listed' = {}
      BY <1>0, <2>2, <3>1, <3>2 DEF Listed, InScope, Respected, PagesSound
    <3> QED BY <1>1, <3>1, <3>2, <3>3 DEF ListsSound, UsedSound, FreeSound, PackagesSound
  <2> QED BY <2>1, <2>2
<1>4. ASSUME NEW o \in Objects, autonumber_get_used(o) PROVE ListsSound' /\ NumbersDistinct'
  BY <1>1, <1>4, GetUsedStep DEF autonumber_get_used
<1>5. ASSUME NEW o \in Objects, TakeFreeSlot(o) PROVE ListsSound' /\ NumbersDistinct'
  <2>1. Renumbered(o)
    BY <1>5 DEF TakeFreeSlot, o_slot_end, Renumbered, TypeInv, TypeOK
  <2> QED BY <1>5, <2>1, TakeFreeSlotStep
<1>6. ASSUME NEW o \in Objects, TakeNewNumber(o) PROVE ListsSound' /\ NumbersDistinct'
  <2>1. Renumbered(o)
    BY <1>6 DEF TakeNewNumber, OpenPackage, o_slot_end, Renumbered, TypeInv, TypeOK
  <2> QED BY <1>6, <2>1, TakeNewNumberStep
<1>7. ASSUME NEW o \in Objects, autonumber_remove_number(o) PROVE FALSE
  BY <1>7 DEF autonumber_remove_number, InOrder
<1>8. CASE UNCHANGED vars
  BY <1>1, <1>2, <1>8 DEF vars
<1> QED BY <1>3, <1>4, <1>5, <1>6, <1>7, <1>8 DEF Next

-----------------------------------------------------------------------------
(* The lists, the pages to come and the free slots keep their types, also   *)
(* if components have slot=0 (struct autonumber_text_t).                    *)
THEOREM AutonumberTyped == Spec => []TypeOK
<1>1. Init => TypeInv /\ PagesSound
  BY TypeInit, PagesInit
<1>2. TypeInv /\ PagesSound /\ [Next]_vars => TypeInv' /\ PagesSound'
  BY TypeStep, PagesStep
<1>3. TypeInv => TypeOK
  BY DEF TypeInv
<1> QED BY <1>1, <1>2, <1>3, PTL DEF Spec

(* However many pages, symbols and texts there are, and whatever the dialog *)
(* is set to, no text is given a number or a slot that a text it looks at   *)
(* has, or that it gave before (autonumber_get_used,                        *)
(* autonumber_get_new_numbers).                                             *)
THEOREM NumbersAreSkipped ==
    ASSUME NoZeros
    PROVE  Spec => []NumbersSkipped
<1>1. Init => IInv
  <2> SUFFICES ASSUME Init PROVE IInv
    OBVIOUS
  <2>1. TypeInv /\ PagesSound /\ NonZero
    BY TypeInit, PagesInit, NonZeroInit
  <2>2. ListsSound /\ NumbersDistinct
    BY ListsInit
  <2> QED BY <2>1, <2>2 DEF IInv, NumbersSkipped, NumbersDistinct
<1>2. IInv /\ [Next]_vars => IInv'
  <2> SUFFICES ASSUME IInv, [Next]_vars PROVE IInv'
    OBVIOUS
  <2>1. TypeInv /\ PagesSound /\ NonZero
    BY DEF IInv
  <2>2. TypeInv' /\ PagesSound' /\ NonZero'
    BY <2>1, TypeStep, PagesStep, NonZeroStep
  <2>3. ASSUME InOrder' PROVE ListsSound' /\ NumbersDistinct'
    <3>1. InOrder
      BY <2>1, <2>3, OrderStays
    <3>2. ListsSound /\ NumbersDistinct
      BY <3>1 DEF IInv, NumbersSkipped, NumbersDistinct, InOrder
    <3> QED BY <2>1, <3>1, <3>2, ListsStep
  <2>4. InOrder' => NumbersSkipped'
    BY <2>3 DEF NumbersSkipped, NumbersDistinct
  <2> QED BY <2>2, <2>3, <2>4 DEF IInv
<1>3. IInv => NumbersSkipped
  BY DEF IInv, InOrder, NumbersSkipped
<1> QED BY <1>1, <1>2, <1>3, PTL DEF Spec

-----------------------------------------------------------------------------
(* No number and no slot is left out.  A text that opened a package, or got *)
(* a number of its own, found every smaller number and every slot of its    *)
(* symbol's packages taken: the lists are exact, so each of them has a text *)
(* that is looked at.  Later steps only add such texts.                     *)
NumbersTaken(o) ==
    \A k \in dialog.startnum..(number[o] - 1) : \E p \in Skipped(o) : number[p] = k

SlotsTaken(o) ==
    \A p \in Skipped(o) \cap Respected :
        Slotted(o) /\ symbol[p] = symbol[o] /\ Slot(p) # NULL =>
            \A i \in 1..numslots[symbol[p]] :
                \E q \in Skipped(o) : number[q] = number[p] /\ Slot(q) = i

LeavesNothing(o) ==
    (\A p \in Skipped(o) : number[p] # number[o]) => NumbersTaken(o) /\ SlotsTaken(o)

NothingLeft == \A o \in done : LeavesNothing(o)

LEMMA LeavesNothingStays ==
    ASSUME TypeInv, PagesSound, [Next]_vars, NEW o \in Objects, Renumbered(o),
           NEW q \in done, LeavesNothing(q)
    PROVE  LeavesNothing(q)'
<1>1. /\ Respected' = Respected /\ done' = done \cup {o} /\ o \notin done
      /\ o \notin Respected /\ done \subseteq Objects
      /\ UNCHANGED <<dialog, page, symbol>>
      /\ \A p \in Objects \ {o} : Slot(p)' = Slot(p) /\ number'[p] = number[p]
  BY RespectedStay, NumberingScope
  DEF Renumbered, Numbering, PagesSound, Respected, Respect, TypeInv, TypeOK
<1>2. /\ Skipped(q) \subseteq Skipped(q)' /\ Skipped(q) \subseteq Objects \ {o}
      /\ Skipped(q)' \cap Respected' = Skipped(q) \cap Respected
      /\ q \in Objects \ {o}
  BY <1>1 DEF Skipped, OneList, Respected
<1>3. /\ number'[q] = number[q] /\ (Slotted(q)' <=> Slotted(q))
      /\ \A p \in Skipped(q) : Slot(p)' = Slot(p) /\ number'[p] = number[p]
  BY <1>1, <1>2 DEF Slotted
<1> SUFFICES ASSUME \A p \in Skipped(q)' : number'[p] # number'[q]
             PROVE  NumbersTaken(q)' /\ SlotsTaken(q)'
  BY DEF LeavesNothing
<1>4. NumbersTaken(q) /\ SlotsTaken(q)
  BY <1>2, <1>3 DEF LeavesNothing
<1>5. NumbersTaken(q)'
  BY <1>1, <1>2, <1>3, <1>4 DEF NumbersTaken
<1>6. SlotsTaken(q)'
  BY <1>1, <1>2, <1>3, <1>4 DEF SlotsTaken
<1> QED BY <1>5, <1>6

(* A slot of a package that is there is taken before a number is.           *)
LEMMA FreeSlotLeavesNothing ==
    ASSUME TypeInv, PagesSound, ListsSound, [Next]_vars,
           NEW o \in Objects, Renumbered(o), TakeFreeSlot(o)
    PROVE  LeavesNothing(o)'
<1>1. PICK f \in free_slots : number' = [number EXCEPT ![o] = f.number]
  BY DEF TakeFreeSlot, First, FreeFor
<1>2. PICK p \in Listed : number[p] = f.number
  BY DEF ListsSound, FreeSound
<1>3. /\ o \notin Listed /\ Listed \subseteq Objects /\ Skipped(o)' = Listed
      /\ \A q \in Objects \ {o} : number'[q] = number[q]
  BY NumberingScope
<1>4. number'[p] = number'[o] /\ p \in Skipped(o)'
  BY <1>1, <1>2, <1>3 DEF TypeInv, TypeOK
<1> QED BY <1>4 DEF LeavesNothing

LEMMA NewNumberLeavesNothing ==
    ASSUME TypeInv, PagesSound, ListsSound, [Next]_vars,
           NEW o \in Objects, Renumbered(o), TakeNewNumber(o)
    PROVE  LeavesNothing(o)'
<1>1. PICK n \in dialog.startnum..(dialog.startnum + Cardinality(used_numbers)) :
        /\ \A k \in dialog.startnum..(n - 1) : k \in used_numbers
        /\ number' = [number EXCEPT ![o] = n]
  BY DEF TakeNewNumber, NewNumber
<1>2. /\ o \notin Listed /\ Listed \subseteq Objects /\ Skipped(o)' = Listed
      /\ UNCHANGED <<dialog, page, symbol>>
      /\ \A q \in Objects \ {o} : Slot(q)' = Slot(q) /\ number'[q] = number[q]
  BY NumberingScope
<1>3. /\ number'[o] = n /\ Respected' = Respected
      /\ \A q \in Listed : Slot(q)' = Slot(q) /\ number'[q] = number[q]
  BY <1>1, <1>2, RespectedStay DEF TypeInv, TypeOK
<1>4. NumbersTaken(o)'
  BY <1>1, <1>2, <1>3 DEF NumbersTaken, ListsSound, UsedSound
<1>5. ASSUME NEW p \in Listed \cap Respected,
             Slotted(o), symbol[p] = symbol[o], Slot(p) # NULL,
             NEW i \in 1..numslots[symbol[p]]
      PROVE  \E q \in Listed : number[q] = number[p] /\ Slot(q) = i
  <2> DEFINE f == [symbolname |-> symbol[p], number |-> number[p], slotnr |-> i]
  <2>1. f.symbolname = symbol[o] /\ dialog.slotting
    BY <1>5 DEF Slotted
  <2>2. f \notin free_slots
    BY <2>1 DEF TakeNewNumber, FreeFor
  <2>3. SlotKnown(p, i)
    BY <1>5 DEF ListsSound, PackagesSound, Slotted
  <2> QED BY <2>2, <2>3 DEF SlotKnown
<1>6. Slotted(o)' <=> Slotted(o)
  BY <1>2 DEF Slotted
<1>7. SlotsTaken(o)'
  BY <1>2, <1>3, <1>5, <1>6 DEF SlotsTaken
<1> QED BY <1>4, <1>7 DEF LeavesNothing

LEMMA NothingLeftStep ==
    ASSUME TypeInv, PagesSound, InOrder, ListsSound, NothingLeft, [Next]_vars
    PROVE  NothingLeft'
<1>0. /\ Respected' = Respected /\ dialog' = dialog /\ page' = page /\ symbol' = symbol
  BY RespectedStay DEF schematic
<1>1. ASSUME UNCHANGED <<number, slot, done>> PROVE NothingLeft'
  BY <1>0, <1>1
  DEF NothingLeft, LeavesNothing, NumbersTaken, SlotsTaken, Skipped, OneList, Slot, Slotted
<1>2. ASSUME NEW o \in Objects, Renumbered(o), LeavesNothing(o)' PROVE NothingLeft'
  <2>1. done' = done \cup {o}
    BY <1>2 DEF Renumbered, Numbering
  <2> QED BY <1>2, <2>1, LeavesNothingStays DEF NothingLeft
<1>3. CASE NextPage
  BY <1>1, <1>3 DEF NextPage
<1>4. ASSUME NEW o \in Objects, autonumber_get_used(o) PROVE NothingLeft'
  BY <1>1, <1>4 DEF autonumber_get_used
<1>5. ASSUME NEW o \in Objects, TakeFreeSlot(o) PROVE NothingLeft'
  <2>1. Renumbered(o)
    BY <1>5 DEF TakeFreeSlot, o_slot_end, Renumbered, TypeInv, TypeOK
  <2> QED BY <1>2, <1>5, <2>1, FreeSlotLeavesNothing
<1>6. ASSUME NEW o \in Objects, TakeNewNumber(o) PROVE NothingLeft'
  <2>1. Renumbered(o)
    BY <1>6 DEF TakeNewNumber, OpenPackage, o_slot_end, Renumbered, TypeInv, TypeOK
  <2> QED BY <1>2, <1>6, <2>1, NewNumberLeavesNothing
<1>7. ASSUME NEW o \in Objects, autonumber_remove_number(o) PROVE FALSE
  BY <1>7 DEF autonumber_remove_number, InOrder
<1>8. CASE UNCHANGED vars
  BY <1>1, <1>8 DEF vars
<1> QED BY <1>3, <1>4, <1>5, <1>6, <1>7, <1>8 DEF Next

(* However many texts there are, a new number is the first one that none of *)
(* the others has, and a new package is opened only when the slots of the   *)
(* symbol's other ones are taken (autonumber_get_new_numbers).              *)
THEOREM NothingIsLeftOut ==
    ASSUME NoZeros
    PROVE  Spec => []NothingLeftOut
<1> DEFINE Kept == /\ TypeInv /\ PagesSound /\ NonZero
                   /\ InOrder => ListsSound /\ NumbersDistinct /\ NothingLeft
<1>1. Init => Kept
  <2>1. Init => NothingLeft
    BY DEF Init, NothingLeft
  <2> QED BY <2>1, TypeInit, PagesInit, NonZeroInit, ListsInit
<1>2. Kept /\ [Next]_vars => Kept'
  <2> SUFFICES ASSUME Kept, [Next]_vars PROVE Kept'
    OBVIOUS
  <2>1. TypeInv' /\ PagesSound' /\ NonZero'
    BY TypeStep, PagesStep, NonZeroStep
  <2>2. ASSUME InOrder' PROVE ListsSound' /\ NumbersDistinct' /\ NothingLeft'
    <3>1. InOrder
      BY <2>2, OrderStays
    <3> QED BY <3>1, ListsStep, NothingLeftStep
  <2> QED BY <2>1, <2>2
<1>3. Kept => NothingLeftOut
  BY DEF InOrder, NothingLeftOut, NothingLeft, LeavesNothing, NumbersTaken, SlotsTaken
<1> HIDE DEF Kept
<1> QED BY <1>1, <1>2, <1>3, PTL DEF Spec
=============================================================================
