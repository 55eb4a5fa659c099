--------------------------- MODULE Netlist_proofs ---------------------------
(***************************************************************************)
(* For any schematic and any number of pins, wires and names, in either    *)
(* naming priority: pins are given one name only when they are one net,    *)
(* and, where one wire has two names that one of its pins comes by, all    *)
(* the pins of a net are in the end.                                       *)
(*                                                                         *)
(* The argument for the first is that every name ever written stands for   *)
(* the net of a pin: the name a search holds, each end of each entry of    *)
(* the rename list, and what the loop of s_rename_add looks for all carry  *)
(* the label of the net they were found on, in every labelling of the      *)
(* names that is the same along each wire.  A rename then never changes a  *)
(* pin's label.                                                            *)
(***************************************************************************)
EXTENDS Netlist, SequenceTheorems, FiniteSetTheorems, TLAPS

(* The name x is one of those the net of the pin p goes by. *)
Means(x, p) ==
    /\ NetNames(p) # {}
    /\ \A f \in Labelling : \A y \in NetNames(p) : f[x] = f[y]

RenamesLink ==
    \A f \in Labelling : \A i \in 1..Len(renames) :
        f[renames[i].src] = f[renames[i].dest]

AddingLinks ==
    adding # NULL => \A f \in Labelling : f[adding.src] = f[adding.dest]

SearchSound ==
    /\ pin = NULL => todo = {}
    /\ pin # NULL =>
        /\ wire[pin] = NULL => todo = {}
        /\ wire[pin] # NULL => todo \subseteq names[wire[pin]]
        /\ name # NULL => Means(name, pin)

PinsSound ==
    \A p \in Pins :
        /\ net_name[p] \in Names => Means(net_name[p], p)
        /\ \A n \in Nat :
            /\ net_name[p] = UnnamedNet(n) => n < unnamed_net_counter /\ wire[p] # NULL
            /\ net_name[p] = UnconnectedPin(n) => n < unnamed_pin_counter

NumbersUnique ==
    \A p, q \in Pins :
        p # q /\ net_name[p] \in Numbered /\ net_name[p] = net_name[q] =>
            wire[p] = wire[q] /\ wire[p] # NULL

IInv ==
    TypeOK /\ RenamesLink /\ AddingLinks /\ SearchSound /\ PinsSound /\ NumbersUnique

(* The user gives no name that gnetlist makes up. *)
NamesApart == Names \cap Numbered = {}

-----------------------------------------------------------------------------
(* Nothing but the schematic says what the names mean.                      *)
LEMMA MeaningKept ==
    ASSUME UNCHANGED <<wire, names, head>>
    PROVE  /\ Labelling' = Labelling
           /\ \A w : NameOf(w)' = NameOf(w) /\ WireNames(w)' = WireNames(w)
           /\ \A p : NetNames(p)' = NetNames(p)
           /\ \A x, p : Means(x, p)' <=> Means(x, p)
<1>1. \A w : NameOf(w)' = NameOf(w)
  BY DEF NameOf
<1>2. \A w : WireNames(w)' = WireNames(w)
  BY <1>1 DEF WireNames
<1>3. \A p : NetNames(p)' = NetNames(p)
  BY <1>2 DEF NetNames
<1>4. Labelling' = Labelling
  BY <1>2 DEF Labelling
<1>5. \A x, p : Means(x, p)' <=> Means(x, p)
  BY <1>3, <1>4 DEF Means
<1> QED BY <1>1, <1>2, <1>3, <1>4, <1>5

(* An appended entry that links keeps a list that links.                    *)
LEMMA AppendLinks ==
    ASSUME NEW list \in Seq(RENAME), NEW e \in RENAME,
           NEW f, f[e.src] = f[e.dest],
           \A i \in 1..Len(list) : f[list[i].src] = f[list[i].dest]
    PROVE  /\ Append(list, e) \in Seq(RENAME)
           /\ \A i \in 1..Len(Append(list, e)) :
                f[Append(list, e)[i].src] = f[Append(list, e)[i].dest]
<1>1. Append(list, e) \in Seq(RENAME) /\ Len(Append(list, e)) = Len(list) + 1
      /\ Len(list) \in Nat
  OBVIOUS
<1>2. ASSUME NEW i \in 1..(Len(list) + 1)
      PROVE  f[Append(list, e)[i].src] = f[Append(list, e)[i].dest]
  <2>1. CASE i = Len(list) + 1
    <3>1. Append(list, e)[i] = e
      BY <1>1, <2>1
    <3> QED BY <3>1
  <2>2. CASE i # Len(list) + 1
    <3>1. i \in 1..Len(list) /\ Append(list, e)[i] = list[i]
      BY <1>1, <2>2
    <3> QED BY <3>1
  <2> QED BY <2>1, <2>2
<1> QED BY <1>1, <1>2

(* What a step leaves of the list.                                          *)
ListSound ==
    /\ renames' \in Seq(RENAME)
    /\ \/ adding' = NULL
       \/ adding' \in [src : Names, dest : Names, temp : Nat \ {0}, last : Nat]
          /\ adding'.temp <= adding'.last /\ adding'.last <= Len(renames')
    /\ RenamesLink' /\ AddingLinks'
    /\ Len(renames') >= Len(renames)

(* s_rename_add of two names that mean the same.                            *)
LEMMA AddInv ==
    ASSUME TypeOK, RenamesLink, adding = NULL,
           NEW x \in Names, NEW y \in Names, Linked(x, y),
           s_rename_add(x, y), UNCHANGED schematic
    PROVE  ListSound
<1>0. Labelling' = Labelling /\ renames \in Seq(RENAME) /\ Len(renames) \in Nat
  BY MeaningKept DEF schematic, TypeOK
<1>1. CASE s_rename_search(x, y)
  <2>1. Len(renames) # 0
    BY <1>0, <1>1 DEF s_rename_search
  <2>2. adding' = [src |-> x, dest |-> y, temp |-> 1, last |-> Len(renames)]
        /\ renames' = renames
    BY <1>1 DEF s_rename_add
  <2>3. RenamesLink'
    BY <1>0, <2>2 DEF RenamesLink
  <2>4. AddingLinks'
    BY <1>0, <2>2 DEF AddingLinks, Linked
  <2> QED BY <1>0, <2>1, <2>2, <2>3, <2>4 DEF ListSound
<1>2. CASE ~s_rename_search(x, y)
  <2>1. renames' = Append(renames, Rename(x, y)) /\ adding' = NULL
    BY <1>2 DEF s_rename_add
  <2>2. Rename(x, y) \in RENAME /\ Rename(x, y).src = x /\ Rename(x, y).dest = y
    BY DEF Rename, RENAME
  <2>3. RenamesLink'
    <3> SUFFICES ASSUME NEW f \in Labelling
                 PROVE  \A i \in 1..Len(renames') : f[renames'[i].src] = f[renames'[i].dest]
      BY <1>0 DEF RenamesLink
    <3>1. f[x] = f[y]
      BY DEF Linked
    <3>2. \A i \in 1..Len(renames) : f[renames[i].src] = f[renames[i].dest]
      BY DEF RenamesLink
    <3> QED BY <1>0, <2>1, <2>2, <3>1, <3>2, AppendLinks
  <2>4. AddingLinks'
    BY <2>1 DEF AddingLinks
  <2> QED BY <1>0, <2>1, <2>2, <2>3, <2>4 DEF ListSound
<1> QED BY <1>1, <1>2

(* Names that one net goes by mean the same.                                *)
LEMMA MeansLinked ==
    ASSUME NEW x, NEW y, NEW p, Means(x, p), y \in NetNames(p)
    PROVE  Linked(x, y) /\ Linked(y, x)
BY DEF Means, Linked

(* The names of a wire, and the names of the net of a pin: that of its head *)
(* record, and those of its wire, which all pins of the wire share.         *)
LEMMA NamesOfWire ==
    ASSUME TypeOK, NEW w \in Wires
    PROVE  /\ NameOf(w) \subseteq WireNames(w) /\ WireNames(w) \subseteq Names
           /\ \A p \in Pins : wire[p] = w /\ head[p] # NULL => head[p] \in WireNames(w)
<1>1. NameOf(w) \subseteq Names /\ NULL \notin Names /\ \A p \in Pins : head[p] \in Names \cup {NULL}
  BY NetlistAssumption DEF TypeOK, NET, Heads, NameOf
<1> QED BY <1>1 DEF WireNames

LEMMA NamesOfNet ==
    ASSUME TypeOK, NEW p \in Pins
    PROVE  /\ NetNames(p) \subseteq Names
           /\ head[p] # NULL => head[p] \in NetNames(p)
           /\ wire[p] # NULL => wire[p] \in Wires /\ NetNames(p) = WireNames(wire[p])
                               /\ NameOf(wire[p]) \subseteq NetNames(p)
           /\ \A x \in NetNames(p) : Means(x, p)
<1>1. head[p] \in Names \cup {NULL} /\ wire[p] \in Wires \cup {NULL}
  BY DEF TypeOK, Heads
<1>2. wire[p] # NULL => wire[p] \in Wires /\ NetNames(p) = WireNames(wire[p])
  BY <1>1 DEF NetNames
<1>3. wire[p] = NULL => NetNames(p) = {head[p]} \ {NULL}
  BY DEF NetNames
<1>4. NetNames(p) \subseteq Names /\ (head[p] # NULL => head[p] \in NetNames(p))
  BY <1>1, <1>2, <1>3, NamesOfWire
<1>5. wire[p] # NULL => NameOf(wire[p]) \subseteq NetNames(p)
  BY <1>2, NamesOfWire
<1>6. ASSUME NEW x \in NetNames(p) PROVE Means(x, p)
  BY <1>2, <1>3 DEF Means, Labelling
<1> QED BY <1>2, <1>4, <1>5, <1>6

LEMMA InitInv == ASSUME Init PROVE IInv
<1>1. TypeOK
  BY NetlistAssumption DEF Init, TypeOK
<1>2. RenamesLink /\ AddingLinks
  BY DEF Init, RenamesLink, AddingLinks
<1>3. SearchSound
  BY DEF Init, SearchSound
<1>4. NULL \notin Names /\ NULL \notin Numbered
      /\ \A n \in Nat : UnnamedNet(n) \in Numbered /\ UnconnectedPin(n) \in Numbered
  BY NetlistAssumption DEF Numbered, UnnamedNet, UnconnectedPin
<1>5. \A p \in Pins : net_name[p] = NULL
  BY DEF Init
<1>6. PinsSound /\ NumbersUnique
  BY <1>4, <1>5 DEF PinsSound, NumbersUnique
<1> QED BY <1>1, <1>2, <1>3, <1>6 DEF IInv

LEMMA StartInv ==
    ASSUME IInv, NEW p \in Pins, s_net_name(p)
    PROVE  IInv'
<1>1. UNCHANGED <<wire, names, head, net_name, renames, adding, unnamed_net_counter,
                  unnamed_pin_counter, renamed>>
      /\ pin' = p /\ name' = head[p] /\ adding = NULL
      /\ todo' = IF wire[p] = NULL THEN {} ELSE names[wire[p]]
  BY DEF s_net_name, Idle, schematic, counters
<1>2. TypeOK'
  BY <1>1 DEF IInv, TypeOK, Heads
<1>3. RenamesLink' /\ AddingLinks'
  BY <1>1, MeaningKept DEF IInv, RenamesLink, AddingLinks
<1>4. SearchSound'
  BY <1>1, MeaningKept, NamesOfNet, NetlistAssumption DEF SearchSound, IInv
<1>5. PinsSound' /\ NumbersUnique'
  BY <1>1, MeaningKept DEF IInv, PinsSound, NumbersUnique
<1> QED BY <1>2, <1>3, <1>4, <1>5 DEF IInv

(* The two names of a rename are of the net of the pin that is named.       *)
LEMMA SearchInv ==
    ASSUME IInv, NEW r \in todo, s_net_name_search(r)
    PROVE  IInv'
<1> DEFINE x == r.net_name
           w == wire[pin]
<1>1. /\ UNCHANGED schematic
      /\ UNCHANGED <<wire, names, head, net_name, pin, unnamed_net_counter,
                     unnamed_pin_counter, renamed>>
      /\ pin # NULL /\ adding = NULL /\ todo' = todo \ {r}
  BY DEF s_net_name_search, schematic, counters
<1>2. TypeOK /\ RenamesLink /\ AddingLinks /\ SearchSound /\ PinsSound /\ NumbersUnique
  BY DEF IInv
<1>3. pin \in Pins /\ w \in Wires /\ r \in names[w] /\ r \in NET /\ x \in Names
  BY <1>1, <1>2, NetlistAssumption DEF TypeOK, SearchSound, NET
<1>4. x \in NetNames(pin) /\ Means(x, pin)
  <2>1. x \in NameOf(w) /\ w # NULL
    BY <1>3, NetlistAssumption DEF NameOf
  <2> QED BY <1>2, <1>3, <2>1, NamesOfNet
<1>5. name \in Names \cup {NULL} /\ (name # NULL => Means(name, pin))
  BY <1>1, <1>2 DEF TypeOK, SearchSound
<1>6. /\ name' \in Names /\ Means(name', pin)
      /\ \/ UNCHANGED <<renames, adding>>
         \/ \E src, dest \in Names : Linked(src, dest) /\ s_rename_add(src, dest)
  <2>1. CASE name \in {NULL, x} /\ name' = x /\ UNCHANGED <<renames, adding>>
    BY <1>3, <1>4, <2>1
  <2>2. CASE name \notin {NULL, x} /\ SecondName(r)
    <3>1. name \in Names /\ Means(name, pin)
      BY <1>5, <2>2
    <3>2. Linked(name, x) /\ Linked(x, name)
      BY <1>4, <3>1, MeansLinked
    <3>3. \/ s_rename_add(name, x) /\ name' = x
          \/ s_rename_add(x, name) /\ name' = name
          \/ UNCHANGED <<renames, adding, name>>
      BY <2>2 DEF SecondName
    <3> QED BY <1>3, <1>4, <3>1, <3>2, <3>3
  <2> QED BY <2>1, <2>2 DEF s_net_name_search
<1>7. ListSound
  <2>1. CASE UNCHANGED <<renames, adding>>
    <3>1. RenamesLink' /\ AddingLinks'
      BY <1>1, <1>2, <2>1, MeaningKept DEF RenamesLink, AddingLinks
    <3>2. Len(renames) \in Nat
      BY <1>2 DEF TypeOK
    <3> QED BY <1>1, <1>2, <2>1, <3>1, <3>2 DEF TypeOK, ListSound
  <2>2. ASSUME NEW src \in Names, NEW dest \in Names, Linked(src, dest),
               s_rename_add(src, dest)
        PROVE  ListSound
    BY <1>1, <1>2, <2>2, AddInv
  <2> QED BY <1>6, <2>1, <2>2
<1>8. TypeOK'
  <2>1. Len(renames) \in Nat /\ Len(renames') \in Nat
    BY <1>2, <1>7 DEF TypeOK, ListSound
  <2>2. renamed' \in Nat \cup {NULL} /\ (renamed' # NULL => renamed' <= Len(renames'))
    BY <1>1, <1>2, <1>7, <2>1, NetlistAssumption DEF TypeOK, ListSound
  <2> QED BY <1>1, <1>2, <1>6, <1>7, <2>2 DEF TypeOK, ListSound
<1>9. SearchSound'
  BY <1>1, <1>2, <1>6, MeaningKept DEF SearchSound
<1>10. PinsSound' /\ NumbersUnique'
  BY <1>1, <1>2, MeaningKept DEF PinsSound, NumbersUnique
<1> QED BY <1>7, <1>8, <1>9, <1>10 DEF IInv, ListSound

(* What the loop appends follows from an entry and the rename it is for.    *)
LEMMA LoopInv ==
    ASSUME IInv, s_rename_add_loop
    PROVE  IInv'
<1>1. UNCHANGED <<wire, names, head, net_name, pin, name, todo, unnamed_net_counter,
                  unnamed_pin_counter, renamed>>
      /\ adding # NULL /\ renames' = renames \o Unifies
      /\ adding' = IF adding.temp = adding.last THEN NULL
                   ELSE [adding EXCEPT !.temp = @ + 1]
  BY DEF s_rename_add_loop, schematic, search, counters
<1>2. TypeOK /\ RenamesLink /\ AddingLinks /\ SearchSound /\ PinsSound /\ NumbersUnique
  BY DEF IInv
<1>3. /\ adding \in [src : Names, dest : Names, temp : Nat \ {0}, last : Nat]
      /\ adding.temp <= adding.last /\ adding.last <= Len(renames)
      /\ renames \in Seq(RENAME) /\ Len(renames) \in Nat
  BY <1>1, <1>2 DEF TypeOK
<1>4. adding.temp \in 1..Len(renames) /\ Entry \in RENAME
  BY <1>3 DEF Entry
<1>5. \A f \in Labelling : f[Entry.src] = f[Entry.dest] /\ f[adding.src] = f[adding.dest]
  BY <1>1, <1>2, <1>4 DEF RenamesLink, AddingLinks, Entry
<1>6. renames' = renames \/ \E e \in RENAME :
        renames' = Append(renames, e) /\ \A f \in Labelling : f[e.src] = f[e.dest]
  <2>1. CASE Unifies = <<>>
    BY <1>1, <1>3, <2>1
  <2>2. CASE adding.dest = Entry.src /\ Unifies = <<Rename(adding.src, Entry.dest)>>
    <3> DEFINE e == Rename(adding.src, Entry.dest)
    <3>1. e \in RENAME /\ e.src = adding.src /\ e.dest = Entry.dest
      BY <1>3, <1>4 DEF Rename, RENAME
    <3>2. renames' = Append(renames, e)
      BY <1>1, <1>3, <2>2, <3>1
    <3> QED BY <1>5, <2>2, <3>1, <3>2
  <2>3. CASE adding.src = Entry.src /\ Unifies = <<Rename(adding.dest, Entry.dest)>>
    <3> DEFINE e == Rename(adding.dest, Entry.dest)
    <3>1. e \in RENAME /\ e.src = adding.dest /\ e.dest = Entry.dest
      BY <1>3, <1>4 DEF Rename, RENAME
    <3>2. renames' = Append(renames, e)
      BY <1>1, <1>3, <2>3, <3>1
    <3> QED BY <1>5, <2>3, <3>1, <3>2
  <2> QED BY <2>1, <2>2, <2>3 DEF Unifies
<1>7. renames' \in Seq(RENAME) /\ Len(renames') \in Nat /\ Len(renames') >= Len(renames)
  BY <1>3, <1>6
<1>8. RenamesLink'
  <2>1. Labelling' = Labelling
    BY <1>1, MeaningKept
  <2>2. CASE renames' = renames
    BY <1>2, <2>1, <2>2 DEF RenamesLink
  <2>3. ASSUME NEW e \in RENAME, renames' = Append(renames, e),
               \A f \in Labelling : f[e.src] = f[e.dest]
        PROVE  RenamesLink'
    <3> SUFFICES ASSUME NEW f \in Labelling
                 PROVE  \A i \in 1..Len(renames') : f[renames'[i].src] = f[renames'[i].dest]
      BY <2>1 DEF RenamesLink
    <3>1. \A i \in 1..Len(renames) : f[renames[i].src] = f[renames[i].dest]
      BY <1>2 DEF RenamesLink
    <3> QED BY <1>3, <2>3, <3>1, AppendLinks
  <2> QED BY <1>6, <2>2, <2>3
<1>9. \/ adding' = NULL
      \/ /\ adding' \in [src : Names, dest : Names, temp : Nat \ {0}, last : Nat]
         /\ adding'.temp <= adding'.last /\ adding'.last <= Len(renames')
         /\ adding'.src = adding.src /\ adding'.dest = adding.dest
  <2> DEFINE a == [adding EXCEPT !.temp = @ + 1]
  <2>1. CASE adding.temp = adding.last
    BY <1>1, <2>1
  <2>2. CASE adding.temp # adding.last
    <3>1. adding' = a
      BY <1>1, <2>2
    <3>2. /\ a \in [src : Names, dest : Names, temp : Nat \ {0}, last : Nat]
          /\ a.temp = adding.temp + 1 /\ a.last = adding.last
          /\ a.src = adding.src /\ a.dest = adding.dest
      BY <1>3
    <3>3. a.temp <= a.last /\ a.last <= Len(renames')
      BY <1>3, <1>7, <2>2, <3>2
    <3> QED BY <3>1, <3>2, <3>3
  <2> QED BY <2>1, <2>2
<1>10. AddingLinks'
  BY <1>1, <1>5, <1>9, MeaningKept DEF AddingLinks
<1>11. TypeOK'
  <2>1. renamed' \in Nat \cup {NULL} /\ (renamed' # NULL => renamed' <= Len(renames'))
    BY <1>1, <1>2, <1>3, <1>7, NetlistAssumption DEF TypeOK
  <2> QED BY <1>1, <1>2, <1>7, <1>9, <2>1 DEF TypeOK
<1>12. SearchSound' /\ PinsSound' /\ NumbersUnique'
  BY <1>1, <1>2, MeaningKept DEF SearchSound, PinsSound, NumbersUnique
<1> QED BY <1>8, <1>10, <1>11, <1>12 DEF IInv

-----------------------------------------------------------------------------
(* The pin that is named gets x; what x has to be for the invariant.        *)
LEMMA NamedInv ==
    ASSUME IInv, Searched, NEW x \in Names \cup Numbered, Named(x), NamesApart,
           unnamed_net_counter' \in Nat \ {0}, unnamed_net_counter <= unnamed_net_counter',
           unnamed_pin_counter' \in Nat \ {0}, unnamed_pin_counter <= unnamed_pin_counter',
           x \in Names => Means(x, pin),
           \A n \in Nat :
                /\ x = UnnamedNet(n) => n < unnamed_net_counter' /\ wire[pin] # NULL
                /\ x = UnconnectedPin(n) => n < unnamed_pin_counter',
           \A q \in Pins : q # pin /\ x \in Numbered /\ net_name[q] = x =>
                wire[q] = wire[pin] /\ wire[q] # NULL
    PROVE  IInv'
<1>1. UNCHANGED <<wire, names, head, todo, renames, adding, renamed>>
      /\ net_name' = [net_name EXCEPT ![pin] = x] /\ pin' = NULL /\ name' = NULL
      /\ todo = {} /\ adding = NULL /\ pin # NULL
  BY DEF Named, Searched, schematic
<1>2. TypeOK /\ RenamesLink /\ AddingLinks /\ SearchSound /\ PinsSound /\ NumbersUnique
  BY DEF IInv
<1>3. pin \in Pins /\ net_name'[pin] = x
      /\ \A q \in Pins \ {pin} : net_name'[q] = net_name[q]
  BY <1>1, <1>2 DEF TypeOK
<1>4. TypeOK'
  <2>1. net_name' \in [Pins -> Names \cup {NULL} \cup Numbered]
    BY <1>1, <1>2 DEF TypeOK
  <2> QED BY <1>1, <1>2, <2>1 DEF TypeOK
<1>5. RenamesLink' /\ AddingLinks'
  BY <1>1, <1>2, MeaningKept DEF RenamesLink, AddingLinks
<1>6. SearchSound'
  BY <1>1 DEF SearchSound
<1>7. PinsSound'
  <2> SUFFICES ASSUME NEW p \in Pins
               PROVE  /\ net_name'[p] \in Names => Means(net_name'[p], p)
                      /\ \A n \in Nat :
                            /\ net_name'[p] = UnnamedNet(n) =>
                                    n < unnamed_net_counter' /\ wire[p] # NULL
                            /\ net_name'[p] = UnconnectedPin(n) => n < unnamed_pin_counter'
    BY <1>1, MeaningKept DEF PinsSound
  <2>1. CASE p = pin
    BY <1>3, <2>1
  <2>2. CASE p # pin
    <3>1. net_name'[p] = net_name[p]
      BY <1>3, <2>2
    <3>2. unnamed_net_counter \in Nat /\ unnamed_pin_counter \in Nat
      BY <1>2 DEF TypeOK
    <3> QED BY <1>2, <3>1, <3>2 DEF PinsSound
  <2> QED BY <2>1, <2>2
<1>8. NumbersUnique'
  BY <1>1, <1>2, <1>3 DEF NumbersUnique
<1> QED BY <1>4, <1>5, <1>6, <1>7, <1>8 DEF IInv

(* No name is a number of gnetlist, and no two numbers are the same name.   *)
LEMMA NumbersDiffer ==
    ASSUME NEW m \in Nat, NEW n \in Nat
    PROVE  /\ UnnamedNet(n) \in Numbered /\ UnconnectedPin(n) \in Numbered
           /\ UnnamedNet(m) # UnconnectedPin(n)
           /\ UnnamedNet(m) = UnnamedNet(n) => m = n
           /\ UnconnectedPin(m) = UnconnectedPin(n) => m = n
BY DEF UnnamedNet, UnconnectedPin, Numbered

LEMMA EndInv ==
    ASSUME IInv, NamesApart, FoundName \/ FoundPin \/ DanglingPin \/ NewNet
    PROVE  IInv'
<1>1. TypeOK /\ SearchSound /\ PinsSound /\ NumbersUnique
  BY DEF IInv
<1>2. /\ unnamed_net_counter \in Nat \ {0} /\ unnamed_pin_counter \in Nat \ {0}
      /\ NULL \notin Names /\ NULL \notin Numbered /\ Names \cap Numbered = {}
  BY <1>1, NetlistAssumption DEF TypeOK, NamesApart
<1>3. CASE FoundName
  <2>1. Searched /\ name # NULL /\ Named(name) /\ pin # NULL
        /\ UNCHANGED <<unnamed_net_counter, unnamed_pin_counter>>
    BY <1>3 DEF FoundName, Searched, counters
  <2>2. name \in Names /\ name \notin Numbered /\ Means(name, pin)
    BY <1>1, <1>2, <2>1 DEF TypeOK, SearchSound
  <2>3. \A n \in Nat : name # UnnamedNet(n) /\ name # UnconnectedPin(n)
    BY <2>2, NumbersDiffer
  <2> HIDE DEF NamesApart
  <2> QED BY <1>2, <2>1, <2>2, <2>3, NamedInv
<1>4. CASE FoundPin
  <2>1. Searched /\ pin \in Pins /\ UNCHANGED <<unnamed_net_counter, unnamed_pin_counter>>
    BY <1>1, <1>4 DEF FoundPin, Searched, counters, TypeOK
  <2>2. PICK x \in PinNames : Named(x)
    BY <1>4 DEF FoundPin
  <2>3. PICK q \in SameWire : x \in {net_name[q], head[q]} /\ x # NULL
    BY DEF PinNames
  <2>4. q \in Pins /\ wire[q] = wire[pin] /\ wire[pin] # NULL /\ wire[q] # NULL
    BY DEF SameWire
  <2>5. NetNames(q) = NetNames(pin) /\ \A n : Means(n, q) <=> Means(n, pin)
    BY <2>4 DEF NetNames, Means
  <2>6. CASE x = net_name[q]
    <3>1. x \in Names \cup Numbered
      BY <1>1, <2>3, <2>4, <2>6 DEF TypeOK
    <3>2. /\ x \in Names => Means(x, pin)
          /\ \A n \in Nat :
              /\ x = UnnamedNet(n) => n < unnamed_net_counter /\ wire[pin] # NULL
              /\ x = UnconnectedPin(n) => n < unnamed_pin_counter
      BY <1>1, <2>4, <2>5, <2>6 DEF PinsSound
    <3>3. \A o \in Pins : o # pin /\ x \in Numbered /\ net_name[o] = x =>
              wire[o] = wire[pin] /\ wire[o] # NULL
      BY <1>1, <2>4, <2>6 DEF NumbersUnique
    <3> QED BY <1>2, <2>1, <2>2, <3>1, <3>2, <3>3, NamedInv
  <2>7. CASE x = head[q]
    <3>1. x \in Names /\ x \notin Numbered
      BY <1>1, <1>2, <2>3, <2>4, <2>7 DEF TypeOK, Heads
    <3>2. Means(x, pin)
      BY <1>1, <2>3, <2>4, <2>5, <2>7, NamesOfNet
    <3>3. \A n \in Nat : x # UnnamedNet(n) /\ x # UnconnectedPin(n)
      BY <3>1, NumbersDiffer
    <3> HIDE DEF NamesApart
    <3> QED BY <1>2, <2>1, <2>2, <3>1, <3>2, <3>3, NamedInv
  <2> QED BY <2>3, <2>6, <2>7
<1>5. CASE DanglingPin
  <2> DEFINE x == UnconnectedPin(unnamed_pin_counter)
  <2>1. Searched /\ Named(x) /\ unnamed_pin_counter' = unnamed_pin_counter + 1
        /\ unnamed_net_counter' = unnamed_net_counter
    BY <1>5 DEF DanglingPin
  <2>2. x \in Numbered /\ x \notin Names
    BY <1>2, NumbersDiffer
  <2>3. \A n \in Nat : x # UnnamedNet(n) /\ (x = UnconnectedPin(n) => n < unnamed_pin_counter')
    BY <1>2, <2>1, NumbersDiffer
  <2>4. \A q \in Pins : net_name[q] # x
    <3> SUFFICES ASSUME NEW q \in Pins, net_name[q] = x PROVE FALSE
      OBVIOUS
    <3>1. unnamed_pin_counter < unnamed_pin_counter
      BY <1>1, <1>2 DEF PinsSound
    <3> QED BY <1>2, <3>1
  <2>5. unnamed_pin_counter' \in Nat \ {0} /\ unnamed_pin_counter <= unnamed_pin_counter'
        /\ unnamed_net_counter' \in Nat \ {0} /\ unnamed_net_counter <= unnamed_net_counter'
    BY <1>2, <2>1
  <2> HIDE DEF x
  <2> QED BY <2>1, <2>2, <2>3, <2>4, <2>5, NamedInv
<1>6. CASE NewNet
  <2> DEFINE x == UnnamedNet(unnamed_net_counter)
  <2>1. Searched /\ Named(x) /\ unnamed_net_counter' = unnamed_net_counter + 1
        /\ unnamed_pin_counter' = unnamed_pin_counter /\ wire[pin] # NULL
    BY <1>6 DEF NewNet
  <2>2. x \in Numbered /\ x \notin Names
    BY <1>2, NumbersDiffer
  <2>3. \A n \in Nat : x # UnconnectedPin(n) /\ (x = UnnamedNet(n) => n < unnamed_net_counter')
    BY <1>2, <2>1, NumbersDiffer
  <2>4. \A q \in Pins : net_name[q] # x
    <3> SUFFICES ASSUME NEW q \in Pins, net_name[q] = x PROVE FALSE
      OBVIOUS
    <3>1. unnamed_net_counter < unnamed_net_counter
      BY <1>1, <1>2 DEF PinsSound
    <3> QED BY <1>2, <3>1
  <2>5. unnamed_pin_counter' \in Nat \ {0} /\ unnamed_pin_counter <= unnamed_pin_counter'
        /\ unnamed_net_counter' \in Nat \ {0} /\ unnamed_net_counter <= unnamed_net_counter'
    BY <1>2, <2>1
  <2> HIDE DEF x
  <2> QED BY <2>1, <2>2, <2>3, <2>4, <2>5, NamedInv
<1> QED BY <1>3, <1>4, <1>5, <1>6

LEMMA StartRenamesInv == ASSUME IInv, StartRenames PROVE IInv'
<1>1. UNCHANGED <<wire, names, head, net_name, pin, name, todo, renames, adding,
                  unnamed_net_counter, unnamed_pin_counter>> /\ renamed' = 0
  BY DEF StartRenames, schematic, search, counters
<1>2. TypeOK'
  <2>1. Len(renames) \in Nat
    BY DEF IInv, TypeOK
  <2> QED BY <1>1, <2>1 DEF IInv, TypeOK
<1>3. RenamesLink' /\ AddingLinks' /\ SearchSound' /\ PinsSound' /\ NumbersUnique'
  BY <1>1, MeaningKept DEF IInv, RenamesLink, AddingLinks, SearchSound, PinsSound,
                           NumbersUnique
<1> QED BY <1>2, <1>3 DEF IInv

(* A rename takes a name of a net to another of its names.                  *)
LEMMA RenameInv == ASSUME IInv, NamesApart, s_rename_all PROVE IInv'
<1> DEFINE e == renames[renamed + 1]
<1>1. /\ UNCHANGED <<wire, names, head, pin, name, todo, renames, adding,
                     unnamed_net_counter, unnamed_pin_counter>>
      /\ renamed' = renamed + 1 /\ renamed # NULL /\ renamed < Len(renames)
      /\ net_name' = [p \in Pins |-> IF net_name[p] = e.src THEN e.dest ELSE net_name[p]]
  BY DEF s_rename_all, schematic, search, counters
<1>2. TypeOK /\ RenamesLink /\ AddingLinks /\ SearchSound /\ PinsSound /\ NumbersUnique
  BY DEF IInv
<1>3. renamed \in Nat /\ Len(renames) \in Nat /\ renamed + 1 \in 1..Len(renames)
      /\ e \in RENAME
  BY <1>1, <1>2 DEF TypeOK
<1>4. e.src \in Names /\ e.dest \in Names
      /\ \A f \in Labelling : f[e.src] = f[e.dest]
  BY <1>2, <1>3 DEF RENAME, RenamesLink
<1>5. NULL \notin Names /\ Names \cap Numbered = {}
  BY NetlistAssumption DEF NamesApart
<1>6. \A p \in Pins : \/ net_name'[p] = net_name[p]
                      \/ net_name[p] = e.src /\ net_name'[p] = e.dest
  BY <1>1
<1>7. TypeOK'
  <2>1. net_name' \in [Pins -> Names \cup {NULL} \cup Numbered]
    BY <1>1, <1>2, <1>4 DEF TypeOK
  <2>2. renamed' \in Nat /\ renamed' <= Len(renames)
    BY <1>1, <1>3
  <2> QED BY <1>1, <1>2, <2>1, <2>2 DEF TypeOK
<1>8. RenamesLink' /\ AddingLinks' /\ SearchSound'
  BY <1>1, <1>2, MeaningKept DEF RenamesLink, AddingLinks, SearchSound
<1>9. PinsSound'
  <2> SUFFICES ASSUME NEW p \in Pins
               PROVE  /\ net_name'[p] \in Names => Means(net_name'[p], p)
                      /\ \A n \in Nat :
                            /\ net_name'[p] = UnnamedNet(n) =>
                                    n < unnamed_net_counter /\ wire[p] # NULL
                            /\ net_name'[p] = UnconnectedPin(n) => n < unnamed_pin_counter
    BY <1>1, MeaningKept DEF PinsSound
  <2>1. CASE net_name'[p] = net_name[p]
    BY <1>2, <2>1 DEF PinsSound
  <2>2. CASE net_name[p] = e.src /\ net_name'[p] = e.dest
    <3>1. Means(e.src, p)
      BY <1>2, <1>4, <2>2 DEF PinsSound
    <3>2. Means(e.dest, p)
      BY <1>4, <3>1 DEF Means
    <3>3. \A n \in Nat : e.dest # UnnamedNet(n) /\ e.dest # UnconnectedPin(n)
      BY <1>4, <1>5, NumbersDiffer
    <3> QED BY <2>2, <3>2, <3>3
  <2> QED BY <1>6, <2>1, <2>2
<1>10. NumbersUnique'
  <2>1. \A p \in Pins : net_name'[p] \in Numbered => net_name'[p] = net_name[p]
    BY <1>4, <1>5, <1>6
  <2> QED BY <1>1, <1>2, <2>1 DEF NumbersUnique
<1> QED BY <1>7, <1>8, <1>9, <1>10 DEF IInv

LEMMA NextInv == ASSUME IInv, NamesApart, [Next]_vars PROVE IInv'
<1>1. CASE UNCHANGED vars
  BY <1>1, MeaningKept DEF vars, schematic, search, counters, IInv, TypeOK, RenamesLink,
                           AddingLinks, SearchSound, PinsSound, NumbersUnique
<1>2. CASE Next
  BY <1>2, StartInv, SearchInv, LoopInv, EndInv, StartRenamesInv, RenameInv DEF Next
<1> QED BY <1>1, <1>2

(* A name that two pins share is a name of both their nets.                 *)
LEMMA InvNoShort == ASSUME IInv PROVE NoShort
<1> SUFFICES ASSUME NEW p \in Pins, NEW q \in Pins, p # q,
                    net_name[p] # NULL, net_name[p] = net_name[q]
             PROVE  OneNet(p, q)
  BY DEF NoShort
<1>1. TypeOK /\ PinsSound /\ NumbersUnique
  BY DEF IInv
<1>2. CASE net_name[p] \in Numbered
  BY <1>1, <1>2 DEF NumbersUnique, OneNet
<1>3. CASE net_name[p] \in Names
  <2> DEFINE x == net_name[p]
  <2>1. Means(x, p) /\ Means(x, q)
    BY <1>1, <1>3 DEF PinsSound
  <2>2. PICK y \in NetNames(p) : TRUE
    BY <2>1 DEF Means
  <2>3. PICK z \in NetNames(q) : TRUE
    BY <2>1 DEF Means
  <2>4. Linked(y, z)
    BY <2>1, <2>2, <2>3 DEF Means, Linked
  <2> QED BY <2>2, <2>3, <2>4 DEF OneNet
<1> QED BY <1>1, <1>2, <1>3 DEF TypeOK

-----------------------------------------------------------------------------
LEMMA AlwaysInv == ASSUME NamesApart PROVE Spec => []IInv
BY InitInv, NextInv, PTL DEF Spec

(* The variables keep their types: the loop of s_rename_add, above all,     *)
(* stays within the list it lengthens.                                      *)
THEOREM NetlistTyped == ASSUME NamesApart PROVE Spec => []TypeOK
<1>1. IInv => TypeOK
  BY DEF IInv
<1> QED BY <1>1, AlwaysInv, PTL

(* Pins of different nets never get one name, while the nets are named and  *)
(* while the renames are applied (s_netlist_post_process).                  *)
THEOREM NetsAreNotShorted == ASSUME NamesApart PROVE Spec => []NoShort
BY AlwaysInv, InvNoShort, PTL

-----------------------------------------------------------------------------
(* Where one wire is known by two names, the search of a pin comes by both, *)
(* and no other wire is known by more than one, the pins of a net end with  *)
(* one name.  For the two names x and y, the invariant follows what becomes *)
(* of them: the rename list is empty or has one entry from one of them to   *)
(* the other, the search of a pin has either seen one name only or left     *)
(* that entry, and no loop of s_rename_add ever finds anything to append.   *)

(* No wire has two names other than x and y, and when these differ the      *)
(* search of a pin comes by both.                                           *)
Two(x, y) ==
    /\ \A w \in Wires : \A u, v \in WireNames(w) : u = v \/ {u, v} = {x, y}
    /\ x # y => \E p \in Pins : {x, y} \subseteq NamesMet(p)

OneEntry(x, y) ==
    renames # <<>> => x # y /\ renames \in {<<Rename(x, y)>>, <<Rename(y, x)>>}

LoopOfTwo(x, y) ==
    adding # NULL =>
        /\ renames # <<>> /\ adding.temp = 1 /\ adding.last = 1
        /\ \/ adding.src = x /\ adding.dest = y
           \/ adding.src = y /\ adding.dest = x

(* All that the search has seen is the name so far, or there is a rename.   *)
Seen ==
    pin # NULL =>
        /\ name # NULL => name \in NamesMet(pin)
        /\ \A u \in NamesMet(pin) :
            \/ \E r \in todo : r.net_name = u
            \/ name # NULL /\ (u = name \/ renames # <<>>)

(* What the renames that are applied make of a name.                        *)
After(u) ==
    IF renamed \notin {NULL, 0} /\ renames # <<>> /\ u = renames[1].src THEN renames[1].dest ELSE u

NamedPins ==
    \A p \in Pins : net_name[p] # NULL =>
        /\ NetNames(p) # {} => \E u \in NetNames(p) : net_name[p] = After(u)
        /\ renames = <<>> => \A u, v \in NamesMet(p) : u = v
        /\ NetNames(p) = {} /\ wire[p] # NULL =>
             /\ net_name[p] \in Numbered
             /\ \A q \in Pins : wire[q] = wire[p] /\ net_name[q] # NULL
                                => net_name[q] = net_name[p]

RenamedLate ==
    renamed # NULL =>
        pin = NULL /\ adding = NULL /\ renamed \in {0, 1} /\ \A p \in Pins : net_name[p] # NULL

TwoInv(x, y) ==
    Two(x, y) /\ OneEntry(x, y) /\ LoopOfTwo(x, y) /\ Seen /\ NamedPins /\ RenamedLate

(* Whatever the schematic: it has no such two names, or the invariant holds *)
(* of two.                                                                  *)
ConflictInv ==
    OneConflict /\ ConflictSeen => \E x, y \in Names \cup {NULL} : TwoInv(x, y)

LEMMA TwoKept ==
    ASSUME UNCHANGED schematic
    PROVE  /\ \A p : NamesMet(p)' = NamesMet(p)
           /\ \A x, y : Two(x, y) => Two(x, y)'
<1>1. \A p : NamesMet(p)' = NamesMet(p)
  BY MeaningKept DEF NamesMet, schematic
<1>2. \A w : WireNames(w)' = WireNames(w)
  BY MeaningKept DEF schematic
<1> QED BY <1>1, <1>2 DEF Two

(* What a pin comes by is of its net: a head record, or a record of the     *)
(* wire.                                                                    *)
LEMMA MetOfNet ==
    ASSUME TypeOK, NEW p \in Pins
    PROVE  /\ NamesMet(p) \subseteq NetNames(p) /\ NULL \notin NamesMet(p)
           /\ head[p] # NULL => head[p] \in NamesMet(p)
           /\ wire[p] # NULL => NameOf(wire[p]) \subseteq NamesMet(p)
           /\ \A u \in NamesMet(p) : u = head[p] \/ (wire[p] # NULL /\ u \in NameOf(wire[p]))
<1>1. NULL \notin Names /\ NetNames(p) \subseteq Names
      /\ (head[p] # NULL => head[p] \in NetNames(p))
      /\ (wire[p] # NULL => NameOf(wire[p]) \subseteq NetNames(p))
  BY NamesOfNet, NetlistAssumption
<1>2. CASE wire[p] = NULL
  <2>1. NamesMet(p) = {head[p]} \ {NULL}
    BY <1>2 DEF NamesMet
  <2> QED BY <1>1, <1>2, <2>1
<1>3. CASE wire[p] # NULL
  <2>1. NamesMet(p) = ({head[p]} \cup NameOf(wire[p])) \ {NULL}
    BY <1>3 DEF NamesMet
  <2> QED BY <1>1, <1>3, <2>1
<1> QED BY <1>2, <1>3

LEMMA NetOfTwo ==
    ASSUME TypeOK, NEW x, NEW y, Two(x, y), NEW p \in Pins
    PROVE  \A u, v \in NetNames(p) : u = v \/ {u, v} = {x, y}
BY DEF TypeOK, Two, NetNames

LEMMA ListLength ==
    ASSUME NEW x, NEW y, OneEntry(x, y), renames # <<>>
    PROVE  /\ x # y /\ Len(renames) = 1
           /\ \/ renames[1] = Rename(x, y) /\ renames = <<Rename(x, y)>>
              \/ renames[1] = Rename(y, x) /\ renames = <<Rename(y, x)>>
BY DEF OneEntry

LEMMA InitTwo ==
    ASSUME Init, NEW x, NEW y, Two(x, y)
    PROVE  TwoInv(x, y)
BY NetlistAssumption DEF Init, TwoInv, OneEntry, LoopOfTwo, Seen, NamedPins, RenamedLate

(* A step that leaves the pins, the list and the renaming alone.            *)
LEMMA NamedPinsKept ==
    ASSUME NamedPins, UNCHANGED schematic, UNCHANGED <<net_name, renames>>,
           renamed' = renamed \/ {renamed, renamed'} \subseteq {NULL, 0}
    PROVE  NamedPins'
<1>1. \A u : After(u)' = After(u)
  BY DEF After
<1>2. \A p : NetNames(p)' = NetNames(p) /\ NamesMet(p)' = NamesMet(p)
  BY MeaningKept, TwoKept DEF schematic
<1>3. UNCHANGED <<wire, net_name, renames>>
  BY DEF schematic
<1> QED BY <1>1, <1>2, <1>3 DEF NamedPins

LEMMA StartTwo ==
    ASSUME IInv, NEW x, NEW y, TwoInv(x, y), NEW p \in Pins, s_net_name(p)
    PROVE  TwoInv(x, y)'
<1>1. /\ UNCHANGED schematic /\ UNCHANGED <<wire, net_name, renames, adding, renamed>>
      /\ pin' = p /\ name' = head[p] /\ adding = NULL /\ renamed = NULL
      /\ todo' = IF wire[p] = NULL THEN {} ELSE names[wire[p]]
  BY DEF s_net_name, Idle, schematic, counters
<1>2. Two(x, y)' /\ NamedPins'
  BY <1>1, TwoKept, NamedPinsKept DEF TwoInv
<1>3. OneEntry(x, y)' /\ LoopOfTwo(x, y)' /\ RenamedLate'
  BY <1>1 DEF TwoInv, OneEntry, LoopOfTwo, RenamedLate
<1>4. Seen'
  <2>1. NamesMet(p)' = NamesMet(p)
    BY <1>1, TwoKept
  <2>2. head[p] # NULL => head[p] \in NamesMet(p)
    BY MetOfNet DEF IInv
  <2>3. ASSUME NEW u \in NamesMet(p), u # head[p]
        PROVE  \E r \in todo' : r.net_name = u
    BY <1>1, <2>3, MetOfNet DEF IInv, NameOf
  <2>4. \A u \in NamesMet(p) : u # NULL
    BY MetOfNet DEF IInv
  <2> QED BY <1>1, <2>1, <2>2, <2>3, <2>4 DEF Seen
<1> QED BY <1>2, <1>3, <1>4 DEF TwoInv

(* A rename of the two names: it is the first, or the loop starts.          *)
LEMMA AddTwo ==
    ASSUME NEW x \in Names, NEW y \in Names, x # y, renames \in Seq(RENAME), adding = NULL,
           OneEntry(x, y), NEW a, NEW b,
           (a = x /\ b = y) \/ (a = y /\ b = x), s_rename_add(a, b)
    PROVE  OneEntry(x, y)' /\ LoopOfTwo(x, y)' /\ renames' # <<>>
<1>1. CASE renames = <<>>
  <2>1. ~ s_rename_search(a, b)
    BY <1>1 DEF s_rename_search
  <2>2. renames' = <<Rename(a, b)>> /\ adding' = NULL
    BY <1>1, <2>1 DEF s_rename_add
  <2> QED BY <2>2 DEF OneEntry, LoopOfTwo
<1>2. CASE renames # <<>>
  <2>1. Len(renames) = 1 /\ (renames[1] = Rename(x, y) \/ renames[1] = Rename(y, x))
    BY <1>2, ListLength
  <2>2. s_rename_search(a, b)
    <3>1. renames[1].src \in {a, b}
      BY <2>1 DEF Rename
    <3>2. 1 \in DOMAIN renames
      BY <2>1
    <3> QED BY <3>1, <3>2 DEF s_rename_search
  <2>3. adding' = [src |-> a, dest |-> b, temp |-> 1, last |-> 1] /\ renames' = renames
    BY <2>1, <2>2 DEF s_rename_add
  <2> QED BY <1>2, <2>3 DEF OneEntry, LoopOfTwo
<1> QED BY <1>1, <1>2

LEMMA SearchTwo ==
    ASSUME IInv, NEW x, NEW y, TwoInv(x, y), NEW r \in todo, s_net_name_search(r)
    PROVE  TwoInv(x, y)'
<1> DEFINE n == r.net_name
           w == wire[pin]
<1>1. /\ UNCHANGED schematic /\ UNCHANGED <<wire, net_name, pin, renamed>>
      /\ pin # NULL /\ adding = NULL /\ todo' = todo \ {r}
  BY DEF s_net_name_search, schematic, counters
<1>2. TypeOK /\ SearchSound /\ OneEntry(x, y) /\ Seen /\ NamedPins /\ RenamedLate /\ Two(x, y)
  BY DEF IInv, TwoInv
<1>3. /\ pin \in Pins /\ n \in NamesMet(pin) /\ n # NULL /\ renames \in Seq(RENAME)
      /\ NamesMet(pin) \subseteq NetNames(pin) /\ NetNames(pin) \subseteq Names
  <2>1. pin \in Pins /\ w # NULL /\ r \in names[w] /\ renames \in Seq(RENAME)
    BY <1>1, <1>2 DEF TypeOK, SearchSound
  <2>2. n \in NameOf(w)
    BY <2>1 DEF NameOf
  <2> QED BY <1>2, <2>1, <2>2, MetOfNet, NamesOfNet
<1>4. renamed = NULL
  BY <1>1, <1>2 DEF RenamedLate
<1>5. /\ name' \in NamesMet(pin) /\ name' # NULL
      /\ OneEntry(x, y)' /\ LoopOfTwo(x, y)'
      /\ \/ renames' # <<>>
         \/ renames' = renames /\ name' = n /\ name \in {NULL, n}
      /\ renames # <<>> => renames' # <<>>
  <2>1. CASE name \in {NULL, n} /\ name' = n /\ UNCHANGED <<renames, adding>>
    BY <1>1, <1>2, <1>3, <2>1 DEF OneEntry, LoopOfTwo
  <2>2. CASE name \notin {NULL, n} /\ SecondName(r)
    <3>1. name \in NamesMet(pin) /\ name # n /\ name # NULL
      BY <1>1, <1>2, <1>3, <2>2 DEF Seen
    <3>2. {name, n} = {x, y}
      <4>1. \A u, v \in NetNames(pin) : u = v \/ {u, v} = {x, y}
        BY <1>2, <1>3, NetOfTwo
      <4>2. name \in NetNames(pin) /\ n \in NetNames(pin)
        BY <1>3, <3>1
      <4> HIDE DEF n
      <4> QED BY <3>1, <4>1, <4>2
    <3>3. x # y /\ x \in Names /\ y \in Names
          /\ ((name = x /\ n = y) \/ (name = y /\ n = x))
      <4>1. name \in {x, y} /\ n \in {x, y} /\ x \in {name, n} /\ y \in {name, n}
        BY <3>2
      <4>2. name \in Names /\ n \in Names
        BY <1>3, <3>1
      <4> HIDE DEF n
      <4> QED BY <3>1, <4>1, <4>2
    <3>4. CASE \/ s_rename_add(name, n) /\ name' = n
               \/ s_rename_add(n, name) /\ name' = name
      <4>1. OneEntry(x, y)' /\ LoopOfTwo(x, y)' /\ renames' # <<>>
        BY <1>1, <1>2, <1>3, <3>3, <3>4, AddTwo
      <4> QED BY <1>3, <3>1, <3>4, <4>1
    <3>5. CASE s_rename_search(name, n) /\ UNCHANGED <<renames, adding, name>>
      <4>1. renames # <<>>
        BY <3>5 DEF s_rename_search
      <4> QED BY <1>1, <1>2, <3>1, <3>5, <4>1 DEF OneEntry, LoopOfTwo
    <3> QED BY <2>2, <3>4, <3>5 DEF SecondName
  <2> QED BY <2>1, <2>2 DEF s_net_name_search
<1>6. Seen'
  <2>1. ASSUME NEW u \in NamesMet(pin), renames' = <<>>
        PROVE  (\E s \in todo' : s.net_name = u) \/ u = name'
    <3>1. CASE \E s \in todo : s.net_name = u
      BY <1>1, <1>5, <2>1, <3>1
    <3>2. CASE name # NULL /\ (u = name \/ renames # <<>>)
      BY <1>5, <2>1, <3>2
    <3> QED BY <1>1, <1>2, <3>1, <3>2 DEF Seen
  <2>2. NamesMet(pin)' = NamesMet(pin)
    BY <1>1, TwoKept
  <2> QED BY <1>1, <1>5, <2>1, <2>2 DEF Seen
<1>7. NamedPins'
  <2>1. \A u : After(u) = u /\ After(u)' = u
    BY <1>1, <1>4 DEF After
  <2>2. \A p : NetNames(p)' = NetNames(p) /\ NamesMet(p)' = NamesMet(p)
    BY <1>1, MeaningKept, TwoKept DEF schematic
  <2>3. renames' = <<>> => renames = <<>>
    BY <1>5
  <2> QED BY <1>1, <1>2, <2>1, <2>2, <2>3 DEF NamedPins
<1>8. Two(x, y)' /\ RenamedLate'
  BY <1>1, <1>2, <1>4, TwoKept DEF RenamedLate
<1> QED BY <1>5, <1>6, <1>7, <1>8 DEF TwoInv

LEMMA LoopTwo ==
    ASSUME IInv, NEW x, NEW y, TwoInv(x, y), s_rename_add_loop
    PROVE  TwoInv(x, y)'
<1>1. /\ UNCHANGED schematic /\ UNCHANGED <<wire, net_name, pin, name, todo, renamed>>
      /\ adding # NULL /\ renames' = renames \o Unifies
      /\ adding' = IF adding.temp = adding.last THEN NULL
                   ELSE [adding EXCEPT !.temp = @ + 1]
  BY DEF s_rename_add_loop, schematic, search, counters
<1>2. /\ OneEntry(x, y) /\ renames # <<>> /\ adding.temp = 1 /\ adding.last = 1
      /\ \/ adding.src = x /\ adding.dest = y
         \/ adding.src = y /\ adding.dest = x
      /\ renames \in Seq(RENAME)
  BY <1>1 DEF TwoInv, LoopOfTwo, IInv, TypeOK
<1>3. Unifies = <<>>
  <2>1. x # y /\ ((Entry.src = x /\ Entry.dest = y) \/ (Entry.src = y /\ Entry.dest = x))
    <3>1. x # y /\ (renames[1] = Rename(x, y) \/ renames[1] = Rename(y, x))
      BY <1>2, ListLength
    <3> QED BY <1>2, <3>1 DEF Entry, Rename
  <2> QED BY <1>2, <2>1 DEF Unifies
<1>4. renames' = renames /\ adding' = NULL
  BY <1>1, <1>2, <1>3
<1>5. Two(x, y)' /\ NamedPins'
  BY <1>1, <1>4, TwoKept, NamedPinsKept DEF TwoInv
<1>6. OneEntry(x, y)' /\ LoopOfTwo(x, y)' /\ Seen' /\ RenamedLate'
  BY <1>1, <1>4, TwoKept DEF TwoInv, OneEntry, LoopOfTwo, Seen, RenamedLate
<1> QED BY <1>5, <1>6 DEF TwoInv

(* The pin that is named gets a name of its net, or the number of its       *)
(* wire.                                                                    *)
LEMMA NamedTwo ==
    ASSUME IInv, NEW x, NEW y, TwoInv(x, y), Searched, NEW v, Named(v),
           NetNames(pin) # {} => v \in NetNames(pin),
           NetNames(pin) = {} /\ wire[pin] # NULL =>
                v \in Numbered /\ \A q \in SameWire : net_name[q] # NULL => net_name[q] = v
    PROVE  TwoInv(x, y)'
<1>1. /\ UNCHANGED schematic /\ UNCHANGED <<wire, todo, renames, adding, renamed>>
      /\ net_name' = [net_name EXCEPT ![pin] = v] /\ pin' = NULL
      /\ pin # NULL /\ adding = NULL /\ todo = {}
  BY DEF Named, Searched, schematic
<1>2. TypeOK /\ OneEntry(x, y) /\ Seen /\ NamedPins /\ RenamedLate /\ Two(x, y)
  BY DEF IInv, TwoInv
<1>3. pin \in Pins /\ net_name'[pin] = v /\ \A q \in Pins \ {pin} : net_name'[q] = net_name[q]
  BY <1>1, <1>2 DEF TypeOK
<1>4. renamed = NULL /\ renamed' = NULL
  BY <1>1, <1>2 DEF RenamedLate
<1>5. \A u : After(u) = u /\ After(u)' = u
  BY <1>4 DEF After
<1>6. NamedPins'
  <2>1. \A p : NetNames(p)' = NetNames(p) /\ NamesMet(p)' = NamesMet(p)
    BY <1>1, MeaningKept, TwoKept DEF schematic
  <2> SUFFICES ASSUME NEW p \in Pins, net_name'[p] # NULL
               PROVE  /\ NetNames(p) # {} => net_name'[p] \in NetNames(p)
                      /\ renames = <<>> => \A u, z \in NamesMet(p) : u = z
                      /\ NetNames(p) = {} /\ wire[p] # NULL =>
                           /\ net_name'[p] \in Numbered
                           /\ \A q \in Pins : wire[q] = wire[p] /\ net_name'[q] # NULL
                                              => net_name'[q] = net_name'[p]
    BY <1>1, <1>5, <2>1 DEF NamedPins
  <2>2. NetNames(p) # {} => net_name'[p] \in NetNames(p)
    BY <1>2, <1>3, <1>5 DEF NamedPins
  <2>3. renames = <<>> => \A u, z \in NamesMet(p) : u = z
    <3>1. CASE p = pin
      BY <1>1, <1>2, <3>1 DEF Seen
    <3>2. CASE p # pin
      BY <1>2, <1>3, <3>2 DEF NamedPins
    <3> QED BY <3>1, <3>2
  <2>4. ASSUME NetNames(p) = {}, wire[p] # NULL, wire[p] = wire[pin]
        PROVE  /\ net_name'[p] \in Numbered
               /\ \A q \in Pins : wire[q] = wire[p] /\ net_name'[q] # NULL
                                  => net_name'[q] = net_name'[p]
    <3>1. NetNames(pin) = {}
      BY <2>4 DEF NetNames
    <3>2. v \in Numbered /\ \A q \in Pins : wire[q] = wire[p] /\ net_name[q] # NULL => net_name[q] = v
      BY <2>4, <3>1 DEF SameWire
    <3>3. \A q \in Pins : wire[q] = wire[p] /\ net_name'[q] # NULL => net_name'[q] = v
      BY <1>3, <3>2
    <3> QED BY <3>2, <3>3
  <2>5. ASSUME NetNames(p) = {}, wire[p] # NULL, wire[p] # wire[pin]
        PROVE  /\ net_name'[p] \in Numbered
               /\ \A q \in Pins : wire[q] = wire[p] /\ net_name'[q] # NULL
                                  => net_name'[q] = net_name'[p]
    <3>1. \A q \in Pins : wire[q] = wire[p] => net_name'[q] = net_name[q]
      BY <1>3, <2>5
    <3> QED BY <1>2, <2>5, <3>1 DEF NamedPins
  <2> QED BY <2>2, <2>3, <2>4, <2>5
<1>7. OneEntry(x, y)' /\ LoopOfTwo(x, y)' /\ Seen' /\ RenamedLate' /\ Two(x, y)'
  BY <1>1, <1>2, <1>4, TwoKept DEF OneEntry, LoopOfTwo, Seen, RenamedLate
<1> QED BY <1>6, <1>7 DEF TwoInv

LEMMA EndTwo ==
    ASSUME IInv, NEW x, NEW y, TwoInv(x, y), FoundName \/ FoundPin \/ DanglingPin \/ NewNet
    PROVE  TwoInv(x, y)'
<1>1. Searched /\ pin # NULL /\ pin \in Pins /\ adding = NULL /\ todo = {}
  BY NetlistAssumption DEF FoundName, FoundPin, DanglingPin, NewNet, Searched, IInv, TypeOK
<1>2. TypeOK /\ Seen /\ NamedPins /\ RenamedLate
  BY DEF IInv, TwoInv
<1>3. \A u : After(u) = u
  BY <1>1, <1>2 DEF After, RenamedLate
<1>4. CASE FoundName
  <2>1. name \in NetNames(pin)
    BY <1>1, <1>2, <1>4, MetOfNet DEF Seen, FoundName
  <2> QED BY <1>1, <1>4, <2>1, NamedTwo DEF FoundName
<1>5. CASE FoundPin
  <2>1. PICK u \in PinNames : Named(u)
    BY <1>5 DEF FoundPin
  <2>2. PICK q \in SameWire : u \in {net_name[q], head[q]} /\ u # NULL
    BY DEF PinNames
  <2>3. q \in Pins /\ wire[q] = wire[pin] /\ wire[q] # NULL /\ NetNames(q) = NetNames(pin)
    BY <2>2 DEF SameWire, NetNames
  <2>4. NetNames(pin) # {} => u \in NetNames(pin)
    BY <1>2, <1>3, <2>2, <2>3, NamesOfNet DEF NamedPins
  <2>5. NetNames(pin) = {} => u = net_name[q]
    BY <1>2, <2>2, <2>3, NamesOfNet
  <2>6. NetNames(pin) = {} => u \in Numbered /\ \A s \in SameWire : net_name[s] # NULL => net_name[s] = u
    BY <1>2, <2>2, <2>3, <2>5 DEF NamedPins, SameWire
  <2> QED BY <1>1, <2>1, <2>4, <2>6, NamedTwo
<1>6. ASSUME name = NULL, \A u \in NetNames(pin) : u \in NamesMet(pin)
      PROVE  NetNames(pin) = {}
  BY <1>1, <1>2, <1>6 DEF Seen
<1>7. CASE DanglingPin
  <2>1. NetNames(pin) \subseteq NamesMet(pin)
    BY <1>7 DEF DanglingPin, NetNames, NamesMet
  <2>2. NetNames(pin) = {}
    BY <1>6, <1>7, <2>1 DEF DanglingPin
  <2> QED BY <1>1, <1>7, <2>2, NamedTwo DEF DanglingPin
<1>8. CASE NewNet
  <2>1. UnnamedNet(unnamed_net_counter) \in Numbered
    BY <1>2 DEF TypeOK, Numbered, UnnamedNet
  <2>2. \A q \in SameWire : net_name[q] = NULL /\ head[q] = NULL
    BY <1>8 DEF NewNet, PinNames
  <2>3. WireNames(wire[pin]) \subseteq NameOf(wire[pin]) /\ wire[pin] # NULL
    BY <1>8, <2>2 DEF WireNames, SameWire, NewNet
  <2>4. NetNames(pin) \subseteq NamesMet(pin)
    BY <1>1, <1>2, <2>3, MetOfNet DEF NetNames
  <2>5. NetNames(pin) = {}
    BY <1>6, <1>8, <2>4 DEF NewNet
  <2> QED BY <1>1, <1>8, <2>1, <2>2, <2>5, NamedTwo DEF NewNet
<1> QED BY <1>4, <1>5, <1>7, <1>8

LEMMA StartRenamesTwo ==
    ASSUME NEW x, NEW y, TwoInv(x, y), StartRenames
    PROVE  TwoInv(x, y)'
<1>1. /\ UNCHANGED schematic /\ UNCHANGED <<wire, net_name, pin, name, todo, renames, adding>>
      /\ renamed' = 0 /\ renamed = NULL /\ pin = NULL /\ adding = NULL
      /\ \A p \in Pins : net_name[p] # NULL
  BY DEF StartRenames, Idle, schematic, search, counters
<1>2. Two(x, y)' /\ NamedPins'
  BY <1>1, TwoKept, NamedPinsKept DEF TwoInv
<1>3. OneEntry(x, y)' /\ LoopOfTwo(x, y)' /\ Seen' /\ RenamedLate'
  BY <1>1 DEF TwoInv, OneEntry, LoopOfTwo, Seen, RenamedLate
<1> QED BY <1>2, <1>3 DEF TwoInv

(* The one rename there is takes every pin from its end to the other.       *)
LEMMA RenameTwo ==
    ASSUME IInv, NamesApart, NEW x, NEW y, TwoInv(x, y), s_rename_all
    PROVE  TwoInv(x, y)'
<1>1. /\ UNCHANGED schematic /\ UNCHANGED <<wire, pin, name, todo, renames, adding>>
      /\ renamed # NULL /\ renamed < Len(renames) /\ renamed' = renamed + 1
      /\ net_name' = [p \in Pins |-> IF net_name[p] = renames[renamed + 1].src
                                     THEN renames[renamed + 1].dest ELSE net_name[p]]
  BY DEF s_rename_all, schematic, search, counters
<1>2. TypeOK /\ OneEntry(x, y) /\ LoopOfTwo(x, y) /\ NamedPins /\ RenamedLate /\ Two(x, y)
  BY DEF IInv, TwoInv
<1>3. renamed \in {0, 1} /\ pin = NULL /\ adding = NULL /\ \A p \in Pins : net_name[p] # NULL
  BY <1>1, <1>2 DEF RenamedLate
<1>4. renames # <<>>
  BY <1>1, <1>3
<1>5. Len(renames) = 1
  BY <1>2, <1>4, ListLength
<1>6. renamed = 0 /\ renamed' = 1
  BY <1>1, <1>3, <1>5
<1>7. renames[1].src \in Names /\ renames[1].dest \in Names /\ NULL \notin Names
  <2>1. renames \in Seq(RENAME) /\ 1 \in 1..Len(renames)
    BY <1>2, <1>5 DEF TypeOK
  <2>2. renames[1] \in RENAME
    BY <2>1
  <2> QED BY <2>2, NetlistAssumption DEF RENAME
<1>8. \A p \in Pins : net_name'[p] = IF net_name[p] = renames[1].src THEN renames[1].dest
                                     ELSE net_name[p]
  BY <1>1, <1>6
<1>9. \A u : /\ After(u) = u
             /\ After(u)' = IF u = renames[1].src THEN renames[1].dest ELSE u
  BY <1>1, <1>4, <1>6, NetlistAssumption DEF After
<1>10. \A p : NetNames(p)' = NetNames(p) /\ NamesMet(p)' = NamesMet(p)
  BY <1>1, MeaningKept, TwoKept DEF schematic
<1>11. NamedPins'
  <2> SUFFICES ASSUME NEW p \in Pins
               PROVE  /\ NetNames(p) # {} =>
                           \E u \in NetNames(p) :
                              net_name'[p] = IF u = renames[1].src THEN renames[1].dest ELSE u
                      /\ NetNames(p) = {} /\ wire[p] # NULL =>
                           /\ net_name'[p] \in Numbered
                           /\ \A q \in Pins : wire[q] = wire[p] => net_name'[q] = net_name'[p]
    BY <1>1, <1>4, <1>9, <1>10 DEF NamedPins
  <2>1. CASE NetNames(p) # {}
    BY <1>2, <1>3, <1>8, <1>9, <2>1 DEF NamedPins
  <2>2. CASE NetNames(p) = {} /\ wire[p] # NULL
    <3>1. net_name[p] \in Numbered
          /\ \A q \in Pins : wire[q] = wire[p] => net_name[q] = net_name[p]
      BY <1>2, <1>3, <2>2 DEF NamedPins
    <3>2. net_name[p] # renames[1].src
      BY <1>7, <3>1 DEF NamesApart
    <3> QED BY <1>8, <2>2, <3>1, <3>2
  <2> QED BY <2>1, <2>2
<1>12. OneEntry(x, y)' /\ LoopOfTwo(x, y)' /\ Seen' /\ Two(x, y)'
  BY <1>1, <1>2, <1>3, TwoKept DEF OneEntry, LoopOfTwo, Seen
<1>13. RenamedLate'
  BY <1>1, <1>3, <1>6, <1>7, <1>8 DEF RenamedLate
<1> QED BY <1>11, <1>12, <1>13 DEF TwoInv

LEMMA NextTwo ==
    ASSUME IInv, NamesApart, NEW x, NEW y, TwoInv(x, y), [Next]_vars
    PROVE  TwoInv(x, y)'
<1>1. CASE UNCHANGED vars
  <2>1. UNCHANGED schematic /\ UNCHANGED <<wire, net_name, pin, name, todo, renames, adding, renamed>>
    BY <1>1 DEF vars, schematic, search
  <2>2. Two(x, y)' /\ NamedPins'
    BY <2>1, TwoKept, NamedPinsKept DEF TwoInv
  <2>3. OneEntry(x, y)' /\ LoopOfTwo(x, y)' /\ Seen' /\ RenamedLate'
    BY <2>1, TwoKept DEF TwoInv, OneEntry, LoopOfTwo, Seen, RenamedLate
  <2> QED BY <2>2, <2>3 DEF TwoInv
<1>2. CASE Next
  BY <1>2, StartTwo, SearchTwo, LoopTwo, EndTwo, StartRenamesTwo, RenameTwo DEF Next
<1> QED BY <1>1, <1>2

-----------------------------------------------------------------------------
LEMMA OneOfAFew ==
    ASSUME NEW S, IsFiniteSet(S), Cardinality(S) < 2
    PROVE  \A u, v \in S : u = v
<1> SUFFICES ASSUME NEW u \in S, NEW v \in S, u # v
             PROVE  FALSE
  OBVIOUS
<1>1. IsFiniteSet({u}) /\ Cardinality({u}) = 1
  BY FS_Singleton
<1>2. Cardinality({u} \cup {v}) = 2
  BY <1>1, FS_AddElement
<1>3. {u} \cup {v} \in SUBSET S
  OBVIOUS
<1>4. Cardinality({u} \cup {v}) <= Cardinality(S) /\ Cardinality(S) \in Nat
  BY <1>3, FS_Subset, FS_CardinalityType
<1> QED BY <1>2, <1>4

LEMMA APair ==
    ASSUME NEW S, IsFiniteSet(S), Cardinality(S) = 2
    PROVE  \E u, v : u # v /\ S = {u, v}
<1>1. S # {}
  BY FS_EmptySet
<1>2. PICK u : u \in S
  BY <1>1
<1>3. IsFiniteSet(S \ {u}) /\ Cardinality(S \ {u}) = 1
  BY <1>2, FS_RemoveElement
<1>4. PICK v : S \ {u} = {v}
  BY <1>3, FS_Singleton
<1> QED BY <1>2, <1>4

LEMMA HasTwo ==
    ASSUME TypeOK, OneConflict, ConflictSeen
    PROVE  \E x, y \in Names \cup {NULL} : Two(x, y)
<1>1. \A w \in Wires : /\ WireNames(w) \subseteq Names /\ IsFiniteSet(WireNames(w))
                       /\ Cardinality(WireNames(w)) \in Nat
  <2> SUFFICES ASSUME NEW w \in Wires
               PROVE  /\ WireNames(w) \in SUBSET Names /\ IsFiniteSet(WireNames(w))
                      /\ Cardinality(WireNames(w)) \in Nat
    OBVIOUS
  <2>1. WireNames(w) \in SUBSET Names
    BY NamesOfWire
  <2>2. IsFiniteSet(WireNames(w))
    BY <2>1, FS_Subset, NetlistAssumption
  <2> QED BY <2>1, <2>2, FS_CardinalityType
<1>2. CASE \A w \in Wires : Cardinality(WireNames(w)) < 2
  <2>1. Two(NULL, NULL)
    BY <1>1, <1>2, OneOfAFew DEF Two
  <2> QED BY <2>1
<1>3. CASE \E w \in Wires : ~ (Cardinality(WireNames(w)) < 2)
  <2>1. PICK w \in Wires : ~ (Cardinality(WireNames(w)) < 2)
    BY <1>3
  <2>2. Cardinality(WireNames(w)) <= 2
    BY DEF ConflictSeen
  <2>3. Cardinality(WireNames(w)) = 2
    BY <1>1, <2>1, <2>2
  <2>4. PICK x, y : x # y /\ WireNames(w) = {x, y}
    BY <1>1, <2>3, APair
  <2>5. x \in Names /\ y \in Names
    BY <1>1, <2>4
  <2>6. \A v \in Wires \ {w} : \A a, b \in WireNames(v) : a = b
    <3> SUFFICES ASSUME NEW v \in Wires \ {w}
                 PROVE  \A a, b \in WireNames(v) : a = b
      OBVIOUS
    <3>1. Cardinality(WireNames(v)) < 2
      BY <2>1 DEF OneConflict
    <3> QED BY <1>1, <3>1, OneOfAFew
  <2>7. \E p \in Pins : {x, y} \subseteq NamesMet(p)
    <3>1. PICK p \in Pins : NamesMet(p) = WireNames(w)
      BY <2>3 DEF ConflictSeen
    <3> QED BY <2>4, <3>1
  <2>8. Two(x, y)
    BY <2>4, <2>6, <2>7 DEF Two
  <2> QED BY <2>5, <2>8
<1> QED BY <1>2, <1>3

(* The names that the schematic makes one.                                  *)
SameOfTwo(x, y, a, b) == a = b \/ {a, b} \subseteq {x, y}

LEMMA LinkedOfTwo ==
    ASSUME TypeOK, NEW x, NEW y, Two(x, y), NEW a \in Names, NEW b \in Names, Linked(a, b)
    PROVE  SameOfTwo(x, y, a, b)
<1> DEFINE f == [n \in Names |-> IF x \in Names /\ n \in {x, y} THEN x ELSE n]
<1>1. f \in [Names -> Names] /\ \A n \in Names : f[n] = IF x \in Names /\ n \in {x, y} THEN x ELSE n
  OBVIOUS
<1>2. ASSUME NEW w \in Wires, NEW u \in WireNames(w), NEW v \in WireNames(w)
      PROVE  f[u] = f[v]
  <2>1. u \in Names /\ v \in Names
    BY NamesOfWire
  <2>2. u = v \/ {u, v} = {x, y}
    BY DEF Two
  <2> HIDE DEF f
  <2>3. CASE u = v
    BY <2>3
  <2>4. CASE {u, v} = {x, y}
    <3>1. u \in {x, y} /\ v \in {x, y} /\ x \in Names
      BY <2>1, <2>4
    <3> QED BY <1>1, <2>1, <3>1
  <2> QED BY <2>2, <2>3, <2>4
<1> HIDE DEF f
<1>3. f \in Labelling
  BY <1>1, <1>2 DEF Labelling
<1>4. f[a] = f[b]
  BY <1>3 DEF Linked
<1> QED BY <1>1, <1>4 DEF SameOfTwo

(* In the end the two names have become one.                                *)
LEMMA Settled ==
    ASSUME NEW x, NEW y, TwoInv(x, y), Finished, NEW a, NEW b, SameOfTwo(x, y, a, b)
    PROVE  After(a) = After(b)
<1>1. OneEntry(x, y) /\ RenamedLate /\ NamedPins /\ Two(x, y)
  BY DEF TwoInv
<1>2. renamed # NULL /\ renamed = Len(renames) /\ \A p \in Pins : net_name[p] # NULL
  BY <1>1 DEF Finished, RenamedLate
<1>3. CASE a = b
  BY <1>3
<1>4. CASE renames = <<>> /\ a # b
  <2>1. x # y
    BY <1>4 DEF SameOfTwo
  <2>2. PICK p \in Pins : {x, y} \subseteq NamesMet(p)
    BY <1>1, <2>1 DEF Two
  <2>3. \A u, v \in NamesMet(p) : u = v
    BY <1>1, <1>2, <1>4 DEF NamedPins
  <2> QED BY <2>1, <2>2, <2>3
<1>5. CASE renames # <<>> /\ a # b
  <2>1. /\ x # y /\ Len(renames) = 1
        /\ (renames[1] = Rename(x, y) \/ renames[1] = Rename(y, x))
    BY <1>1, <1>5, ListLength
  <2>2. renamed \notin {NULL, 0}
    BY <1>2, <2>1
  <2>3. {renames[1].src, renames[1].dest} = {x, y}
    BY <2>1 DEF Rename
  <2>4. \A u \in {x, y} : After(u) = renames[1].dest
    BY <1>5, <2>2, <2>3 DEF After
  <2> QED BY <1>5, <2>4 DEF SameOfTwo
<1> QED BY <1>3, <1>4, <1>5

LEMMA TwoNoOpen ==
    ASSUME IInv, NEW x, NEW y, TwoInv(x, y)
    PROVE  NoOpen
<1> SUFFICES ASSUME Finished, NEW p \in Pins, NEW q \in Pins, OneNet(p, q)
             PROVE  net_name[p] = net_name[q]
  BY DEF NoOpen
<1>1. TypeOK /\ RenamedLate /\ NamedPins /\ Two(x, y)
  BY DEF IInv, TwoInv
<1>2. \A s \in Pins : net_name[s] # NULL
  BY <1>1 DEF Finished, RenamedLate
<1>3. CASE wire[p] = wire[q] /\ wire[p] # NULL /\ NetNames(p) = {}
  BY <1>1, <1>2, <1>3 DEF NamedPins
<1>4. CASE \E a \in NetNames(p), b \in NetNames(q) : Linked(a, b)
  <2>1. PICK a \in NetNames(p), b \in NetNames(q) : Linked(a, b)
    BY <1>4
  <2>2. a \in Names /\ b \in Names
    BY <1>1, NamesOfNet
  <2>3. SameOfTwo(x, y, a, b)
    BY <1>1, <2>1, <2>2, LinkedOfTwo
  <2>4. PICK u \in NetNames(p) : net_name[p] = After(u)
    BY <1>1, <1>2 DEF NamedPins
  <2>5. PICK v \in NetNames(q) : net_name[q] = After(v)
    BY <1>1, <1>2 DEF NamedPins
  <2>6. (u = a \/ {u, a} = {x, y}) /\ (v = b \/ {v, b} = {x, y})
    BY <1>1, NetOfTwo
  <2>7. SameOfTwo(x, y, u, a) /\ SameOfTwo(x, y, b, v)
    BY <2>6 DEF SameOfTwo
  <2>8. After(u) = After(a) /\ After(a) = After(b) /\ After(b) = After(v)
    BY <2>3, <2>7, Settled
  <2> QED BY <2>4, <2>5, <2>8
<1>5. CASE wire[p] = wire[q] /\ wire[p] # NULL /\ NetNames(p) # {}
  <2>1. PICK a \in NetNames(p) : TRUE
    BY <1>5
  <2>2. NetNames(q) = NetNames(p) /\ Linked(a, a)
    BY <1>5 DEF NetNames, Linked
  <2> QED BY <1>4, <2>1, <2>2
<1> QED BY <1>3, <1>4, <1>5 DEF OneNet

LEMMA InitConflict == ASSUME Init PROVE ConflictInv
<1>1. TypeOK
  BY InitInv DEF IInv
<1> QED BY <1>1, HasTwo, InitTwo DEF ConflictInv

LEMMA NextConflict ==
    ASSUME IInv, ConflictInv, NamesApart, [Next]_vars
    PROVE  ConflictInv'
<1>1. UNCHANGED schematic /\ UNCHANGED <<wire, names, head>>
  BY DEF vars, Next, schematic, s_net_name, s_net_name_search, s_rename_add_loop, FoundName,
         FoundPin, DanglingPin, NewNet, Named, StartRenames, s_rename_all
<1>2. (OneConflict /\ ConflictSeen)' => OneConflict /\ ConflictSeen
  <2>1. \A w : WireNames(w)' = WireNames(w)
    BY <1>1, MeaningKept
  <2>2. \A p : NamesMet(p)' = NamesMet(p)
    BY <1>1, TwoKept
  <2> QED BY <1>1, <2>1, <2>2 DEF OneConflict, ConflictSeen
<1>3. ASSUME NEW x \in Names \cup {NULL}, NEW y \in Names \cup {NULL}, TwoInv(x, y)
      PROVE  ConflictInv'
  <2>1. TwoInv(x, y)'
    BY <1>3, NextTwo
  <2> QED BY <2>1 DEF ConflictInv
<1> QED BY <1>2, <1>3 DEF ConflictInv

(* When one wire is known by two names, and a pin of it comes by both in    *)
(* its head record and the records of the wire, and no other wire is known  *)
(* by more than one, all pins of a net have one name in the end, whichever  *)
(* names, on however many wires, the two are                                *)
(* (docs/wiki/geda-gnetlist_ug-basic_netlisting.html:49, s_rename_all).     *)
THEOREM OneConflictIsSettled == ASSUME NamesApart PROVE Spec => []NoOpenOfOneConflict
<1>1. IInv /\ ConflictInv => NoOpenOfOneConflict
  BY TwoNoOpen DEF ConflictInv, NoOpenOfOneConflict
<1>2. Spec => []ConflictInv
  BY AlwaysInv, InitConflict, NextConflict, PTL DEF Spec
<1> QED BY <1>1, <1>2, AlwaysInv, PTL
=============================================================================
