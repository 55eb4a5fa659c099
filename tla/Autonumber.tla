----------------------------- MODULE Autonumber -----------------------------
(***************************************************************************)
(* One run of the autonumber dialog over the pages of a hierarchy, for the *)
(* texts with one prefix: which numbers are skipped, which texts are       *)
(* numbered, and which slots of which packages the components get.         *)
(*                                                                         *)
(* Texts are taken in any order, which stands for the six sort orders and  *)
(* for the order of the objects on their pages.  Each prefix that a search *)
(* for `*' finds has a run of its own.  Letters after a number, and texts  *)
(* that the prefix matches by chance, are not modelled.                    *)
(***************************************************************************)
EXTENDS Integers, FiniteSets

CONSTANTS
    Objects,        \* the texts, each an attribute of a component
    Pages, root,    \* of the hierarchy, and the one the dialog was opened on
    Symbols,
    numslots,       \* of each symbol, 0 without the attribute
    inherited_slot, \* the slot= inside each symbol, or NULL
    Numbers,        \* given so far
    StartNumbers,   \* that the dialog is set to
    NULL,
    UserActs        \* a subset of {"no_slot", "autosave"}: components may have
                    \* slot=0; an autosave may be due

ASSUME AutonumberAssumption ==
    /\ root \in Pages /\ NULL \notin Pages
    /\ numslots \in [Symbols -> Nat]
    /\ inherited_slot \in [Symbols -> Nat \cup {NULL}]
    /\ \A s \in Symbols : inherited_slot[s] # NULL => inherited_slot[s] \in 1..numslots[s]
    /\ Numbers \subseteq Nat /\ StartNumbers \subseteq Nat /\ NULL \notin Nat
    /\ UserActs \subseteq {"no_slot", "autosave"}

VARIABLES
    dialog,         \* its settings
    page, symbol,   \* of each text
    selected,       \* texts of the root page; selections of others are not asked for
    number, slot,   \* what each text says, or NULL, and its component's own slot=
    at,             \* the page whose numbers the lists hold, or NULL
    pages,          \* ... and those to come
    to_respect,     \* texts that autonumber_get_used has yet to see
    o_list,         \* texts to be numbered
    used_numbers, free_slots, used_slots,
    done,           \* history variable: the texts that were numbered
    page_current,
    stray           \* history variable: slot= attributes on the page of another

schematic == <<page, symbol, selected>>
lists == <<used_numbers, free_slots, used_slots>>
vars == <<dialog, schematic, number, slot, at, pages, to_respect, o_list, lists, done,
          page_current, stray>>

Scopes == {"selected", "page", "hierarchy"}

(* Removing numbers sets the overwrite flag. *)
AUTONUMBER_TEXT ==
    {d \in [scope_number : Scopes, scope_skip : Scopes, scope_overwrite : BOOLEAN,
            removenum : BOOLEAN, slotting : BOOLEAN, startnum : StartNumbers] :
        d.removenum => d.scope_overwrite}

AUTONUMBER_SLOT == [symbolname : Symbols, number : Nat, slotnr : Nat]

TypeOK ==
    /\ dialog \in AUTONUMBER_TEXT
    /\ page \in [Objects -> Pages] /\ symbol \in [Objects -> Symbols]
    /\ selected \subseteq Objects
    /\ number \in [Objects -> Nat \cup {NULL}]
    /\ slot \in [Objects -> Nat \cup {NULL}]
    /\ at \in Pages \cup {NULL} /\ pages \subseteq Pages
    /\ to_respect \subseteq Objects /\ o_list \subseteq Objects
    /\ used_numbers \subseteq Nat
    /\ free_slots \subseteq AUTONUMBER_SLOT /\ used_slots \subseteq AUTONUMBER_SLOT
    /\ \A f \in free_slots : f.slotnr \in 1..numslots[f.symbolname]
    /\ done \subseteq Objects
    /\ page_current \in Pages /\ stray \subseteq Objects

-----------------------------------------------------------------------------
isnumbered(o) == number[o] # NULL
root_page(o) == page[o] = root

(* autonumber_match: AUTONUMBER_RENUMBER, and AUTONUMBER_RESPECT. *)
Renumber(o) ==
    /\ root_page(o) \/ dialog.scope_number = "hierarchy"
    /\ o \in selected \/ dialog.scope_number # "selected"
    /\ isnumbered(o) => dialog.scope_overwrite

Respect(o) ==
    /\ ~Renumber(o) /\ isnumbered(o)
    /\ root_page(o) /\ dialog.scope_skip = "selected" => o \in selected

(* The component's slot: its own attribute or the one of its symbol. *)
Slot(o) == IF slot[o] # NULL THEN slot[o] ELSE inherited_slot[symbol[o]]

Slotted(o) == dialog.slotting /\ numslots[symbol[o]] > 0

-----------------------------------------------------------------------------
(* freeslot_compare gives 0: a zero is a wildcard. *)
SameSlot(a, b) ==
    /\ a.symbolname = b.symbolname
    /\ \/ 0 \in {a.number, b.number}
       \/ a.number = b.number /\ (0 \in {a.slotnr, b.slotnr} \/ a.slotnr = b.slotnr)

Before(a, b) ==
    /\ a.symbolname = b.symbolname /\ ~SameSlot(a, b)
    /\ a.number < b.number \/ (a.number = b.number /\ a.slotnr < b.slotnr)

(* The slots of S that a sorted list may have first. *)
First(S) == {f \in S : ~\E g \in S : Before(g, f)}

Package(s, n, slots) ==
    {[symbolname |-> s, number |-> n, slotnr |-> i] : i \in slots}

(* The slots before the one in use are taken for used, too.                 *)
OtherSlotsWrong(s) ==
    Package(s.symbolname, s.number, (s.slotnr + 1)..numslots[s.symbolname])

OtherSlots(s) ==
    Package(s.symbolname, s.number, (1..numslots[s.symbolname]) \ {s.slotnr})

(* A slot in use is not taken off the list of free ones.                    *)
UsedSlotWrong(s) ==
    IF \E u \in used_slots : SameSlot(u, s) THEN UNCHANGED <<free_slots, used_slots>>
    ELSE /\ used_slots' = used_slots \cup {s}
         /\ IF \E f \in free_slots : SameSlot(f, s) THEN UNCHANGED free_slots
            ELSE free_slots' = free_slots \cup OtherSlots(s)

(* The first slot of a package that is seen lists the others as free. *)
UsedSlot(s) ==
    LET free == {f \in free_slots : SameSlot(f, s)}
    IN  IF \E u \in used_slots : SameSlot(u, s) THEN UNCHANGED <<free_slots, used_slots>>
        ELSE /\ used_slots' = used_slots \cup {s}
             /\ IF free # {} THEN \E f \in First(free) : free_slots' = free_slots \ {f}
                ELSE free_slots' = free_slots \cup OtherSlots(s)

autonumber_get_used(o) ==
    /\ o \in to_respect
    /\ to_respect' = to_respect \ {o}
    /\ used_numbers' = used_numbers \cup {number[o]}
    /\ IF Slotted(o) /\ Slot(o) # NULL
       THEN UsedSlot([symbolname |-> symbol[o], number |-> number[o], slotnr |-> Slot(o)])
       ELSE UNCHANGED <<free_slots, used_slots>>
    /\ UNCHANGED <<dialog, schematic, number, slot, at, pages, o_list, done,
                   page_current, stray>>

(* The next page.  Without a list for the whole hierarchy each page starts  *)
(* with empty lists and its own numbers; unless the whole hierarchy is to   *)
(* be numbered the root page is the only one.                               *)
NextPage ==
    /\ to_respect = {} /\ o_list = {}
    /\ \E p \in IF root \in pages THEN {root} ELSE pages :
        /\ at' = p /\ page_current' = p
        /\ pages' = IF dialog.scope_number = "hierarchy" THEN pages \ {p} ELSE {}
        /\ o_list' = {o \in Objects : page[o] = p /\ Renumber(o)}
        /\ IF dialog.scope_skip = "hierarchy" THEN UNCHANGED <<to_respect, lists>>
           ELSE /\ to_respect' = {o \in Objects : page[o] = p /\ Respect(o)}
                /\ used_numbers' = {} /\ free_slots' = {} /\ used_slots' = {}
    /\ UNCHANGED <<dialog, schematic, number, slot, done, stray>>

-----------------------------------------------------------------------------
(* o_slot_end changes the component's own slot= or adds one, to the current *)
(* page.  Its o_undo_savestate may write backups, and leaves another page   *)
(* current then (o_save_auto_backup in Pages).                              *)
o_slot_end(o, i) ==
    /\ slot' = [slot EXCEPT ![o] = i]
    /\ stray' = IF slot[o] = NULL /\ page_current # page[o] THEN stray \cup {o} ELSE stray
    /\ page_current' \in IF "autosave" \in UserActs THEN Pages ELSE {page_current}

Numbering(o) ==
    /\ to_respect = {} /\ o \in o_list /\ o_list' = o_list \ {o}
    /\ done' = done \cup {o}
    /\ UNCHANGED <<dialog, schematic, at, pages, to_respect, used_slots>>

FreeFor(o) == {f \in free_slots : dialog.slotting /\ f.symbolname = symbol[o]}

(* autonumber_get_new_numbers and autonumber_apply_new_text: a free slot of *)
(* a package, whatever its number ...                                       *)
TakeFreeSlot(o) ==
    /\ Numbering(o) /\ ~dialog.removenum
    /\ \E f \in First(FreeFor(o)) :
        /\ number' = [number EXCEPT ![o] = f.number]
        /\ free_slots' = free_slots \ {f}
        /\ o_slot_end(o, f.slotnr)
    /\ UNCHANGED used_numbers

(* The loop over the sorted numbers. *)
NewNumber(n) ==
    /\ n \notin used_numbers
    /\ \A k \in dialog.startnum..(n - 1) : k \in used_numbers

(* One slot too many is listed as free. *)
OpenPackageWrong(o, n) ==
    /\ o_slot_end(o, 1)
    /\ free_slots' = free_slots \cup Package(symbol[o], n, 2..(numslots[symbol[o]] + 1))

OpenPackage(o, n) ==
    /\ o_slot_end(o, 1)
    /\ free_slots' = free_slots \cup Package(symbol[o], n, 2..numslots[symbol[o]])

(* ... or a number that is not used, with slot 1 of a new package.          *)
TakeNewNumber(o) ==
    /\ Numbering(o) /\ ~dialog.removenum
    /\ FreeFor(o) = {}
    /\ \E n \in dialog.startnum..(dialog.startnum + Cardinality(used_numbers)) :
        /\ NewNumber(n)
        /\ number' = [number EXCEPT ![o] = n]
        /\ used_numbers' = used_numbers \cup {n}
        /\ IF Slotted(o) THEN OpenPackage(o, n)
           ELSE UNCHANGED <<slot, stray, page_current, free_slots>>

autonumber_remove_number(o) ==
    /\ Numbering(o) /\ dialog.removenum
    /\ number' = [number EXCEPT ![o] = NULL]
    /\ slot' = IF dialog.slotting THEN [slot EXCEPT ![o] = NULL] ELSE slot
    /\ UNCHANGED <<used_numbers, free_slots, page_current, stray>>

-----------------------------------------------------------------------------
Slots(s) == {NULL} \cup 1..numslots[s] \cup (IF "no_slot" \in UserActs THEN {0} ELSE {})

Init ==
    /\ dialog \in AUTONUMBER_TEXT
    /\ page \in [Objects -> Pages] /\ symbol \in [Objects -> Symbols]
    /\ selected \in SUBSET {o \in Objects : page[o] = root}
    /\ number \in [Objects -> Numbers \cup {NULL}]
    /\ slot \in [Objects -> UNION {Slots(s) : s \in Symbols}]
    /\ \A o \in Objects : slot[o] \in Slots(symbol[o])
    /\ at = NULL /\ pages = Pages /\ o_list = {}
    /\ to_respect = IF dialog.scope_skip = "hierarchy"
                    THEN {o \in Objects : Respect(o)} ELSE {}
    /\ used_numbers = {} /\ free_slots = {} /\ used_slots = {}
    /\ done = {} /\ page_current = root /\ stray = {}

Next ==
    \/ NextPage
    \/ \E o \in Objects :
        \/ autonumber_get_used(o)
        \/ TakeFreeSlot(o) \/ TakeNewNumber(o) \/ autonumber_remove_number(o)

Spec == Init /\ [][Next]_vars

-----------------------------------------------------------------------------
(* Two components cannot have one number, unless each is a slot of its own  *)
(* in one package.                                                          *)
Clash(o, p) ==
    /\ isnumbered(o) /\ number[o] = number[p]
    /\ ~(symbol[o] = symbol[p] /\ NULL \notin {Slot(o), Slot(p)} /\ Slot(o) # Slot(p))

(* The texts whose numbers are to be skipped when o is numbered. *)
OneList(o, p) == dialog.scope_skip = "hierarchy" \/ page[o] = page[p]
Respected == {o \in Objects \ done : Respect(o)}
Skipped(o) == {p \in (done \cup Respected) \ {o} : OneList(o, p)}

NoClashBefore ==
    \A o, p \in Respected : o # p /\ OneList(o, p) => ~Clash(o, p)

(* "If some numbers are already in use, autonumbering will skip them": as   *)
(* long as the numbers it looks at are in order, no text is given a number, *)
(* or a slot, that one of them has or that was given before                 *)
(* (docs/wiki/geda-gschem_ug-autonumbering.html:50).                        *)
NumbersSkipped ==
    NoClashBefore /\ ~dialog.removenum =>
        \A o \in done : \A p \in Skipped(o) : ~Clash(o, p)

(* No number is left out from the starting number on, and no package is     *)
(* opened while there is a free slot in another one of the symbol.          *)
NothingLeftOut ==
    NoClashBefore /\ ~dialog.removenum =>
        \A o \in done :
            (\A p \in Skipped(o) : number[p] # number[o]) =>
                /\ \A k \in dialog.startnum..(number[o] - 1) :
                        \E p \in Skipped(o) : number[p] = k
                /\ \A p \in Skipped(o) \cap Respected :
                    Slotted(o) /\ symbol[p] = symbol[o] /\ Slot(p) # NULL =>
                        \A i \in 1..numslots[symbol[p]] :
                            \E q \in Skipped(o) : number[q] = number[p] /\ Slot(q) = i

(* A component's attributes are on its page. *)
SlotsOnPage == stray = {}
=============================================================================
