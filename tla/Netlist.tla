------------------------------- MODULE Netlist -------------------------------
(***************************************************************************)
(* How gnetlist names nets: s_netlist_post_process gives every pin the     *)
(* name of the net it is on, one pin after the other, and notes a rename   *)
(* whenever a net turns out to have several names; then the renames are    *)
(* applied to all the pins.  Nets that are not connected but have a name   *)
(* in common are one net of the netlist.                                   *)
(*                                                                         *)
(* A wire is what is connected on the schematic; its records are the       *)
(* netname= attributes of its nets and the net= attributes of the power    *)
(* symbols on it, which each pin comes by in an order of its own.  A net=  *)
(* attribute of a component with a refdes goes into the head record of its *)
(* pin, which only this pin comes by; it may make a pin that is not drawn, *)
(* too.  Hierarchy and buses are not modelled, nor MAX_UNNAMED_NETS.       *)
(***************************************************************************)
EXTENDS Integers, Sequences, FiniteSets

CONSTANTS
    Pins,       \* of the components with a refdes, drawn or made by a net=
    Wires,
    Names,      \* that the user gives
    NULL,
    net_naming_priority   \* the setting, "netattrib" or "netname"

(* The names gnetlist makes up.  Nothing keeps the user from giving them    *)
(* too: NoShort holds of users who do not.                                  *)
UnnamedNet(n) == <<"unnamed_net", n>>
UnconnectedPin(n) == <<"unconnected_pin", n>>
Numbered == {"unnamed_net", "unconnected_pin"} \X Nat

ASSUME NetlistAssumption ==
    /\ NULL \notin Pins \cup Wires \cup Names \cup Numbered \cup Nat
    /\ IsFiniteSet(Names)
    /\ net_naming_priority \in {"netattrib", "netname"}

VARIABLES
    wire,       \* the wire each pin is on, or NULL
    names,      \* the records of each wire that have a name
    head,       \* the name in the head record of each pin, or NULL
    net_name,   \* the name of each pin's net
    pin,        \* the pin that is being named, or NULL
    name,       \* s_net_name_search: the name so far, or NULL
    todo,       \* ... and the records it has yet to see
    renames,    \* the rename list
    adding,     \* the loop s_rename_add is in, or NULL
    unnamed_net_counter, unnamed_pin_counter,
    renamed     \* s_rename_all: how many renames are applied, or NULL

schematic == <<wire, names, head>>
search == <<pin, name, todo>>
counters == <<unnamed_net_counter, unnamed_pin_counter>>
vars == <<schematic, net_name, search, renames, adding, counters, renamed>>

(* A net= attribute has priority. *)
NET == [net_name : Names, net_name_has_priority : BOOLEAN]
RENAME == [src : Names, dest : Names]
(* The head record of a pin has the name of the component's net=, if any.   *)
Heads == [Pins -> Names \cup {NULL}]

TypeOK ==
    /\ wire \in [Pins -> Wires \cup {NULL}]
    /\ names \in [Wires -> SUBSET NET]
    /\ head \in Heads
    /\ net_name \in [Pins -> Names \cup {NULL} \cup Numbered]
    /\ pin \in Pins \cup {NULL}
    /\ name \in Names \cup {NULL}
    /\ todo \subseteq NET
    /\ renames \in Seq(RENAME)
    /\ \/ adding = NULL
       \/ adding \in [src : Names, dest : Names, temp : Nat \ {0}, last : Nat]
          /\ adding.temp <= adding.last /\ adding.last <= Len(renames)
    /\ unnamed_net_counter \in Nat \ {0} /\ unnamed_pin_counter \in Nat \ {0}
    /\ renamed \in Nat \cup {NULL}
    /\ renamed # NULL => renamed <= Len(renames)

-----------------------------------------------------------------------------
Idle == pin = NULL /\ adding = NULL /\ renamed = NULL

Rename(src, dest) == [src |-> src, dest |-> dest]

s_rename_search(src, dest) ==
    \E i \in DOMAIN renames : renames[i].src \in {src, dest}

(* Without an entry for either name the rename is appended; otherwise a     *)
(* loop over the entries so far looks for what it leads to.                 *)
s_rename_add(src, dest) ==
    IF s_rename_search(src, dest)
    THEN /\ adding' = [src |-> src, dest |-> dest, temp |-> 1, last |-> Len(renames)]
         /\ UNCHANGED renames
    ELSE /\ renames' = Append(renames, Rename(src, dest))
         /\ UNCHANGED adding

Entry == renames[adding.temp]

(* What the loop appends when it comes by an entry. *)
Unifies ==
    IF adding.dest = Entry.src /\ adding.src # Entry.dest
    THEN <<Rename(adding.src, Entry.dest)>>
    ELSE IF adding.src = Entry.src /\ adding.dest # Entry.dest
    THEN <<Rename(adding.dest, Entry.dest)>>
    ELSE <<>>

(* The loop goes one entry too far. *)
s_rename_add_loop_Wrong ==
    /\ adding # NULL
    /\ renames' = renames \o Unifies
    /\ adding' = IF adding.temp > adding.last THEN NULL
                 ELSE [adding EXCEPT !.temp = @ + 1]
    /\ UNCHANGED <<schematic, net_name, search, counters, renamed>>

s_rename_add_loop ==
    /\ adding # NULL
    /\ renames' = renames \o Unifies
    /\ adding' = IF adding.temp = adding.last THEN NULL
                 ELSE [adding EXCEPT !.temp = @ + 1]
    /\ UNCHANGED <<schematic, net_name, search, counters, renamed>>

-----------------------------------------------------------------------------
(* s_net_name for a pin: the search meets the head record first. *)
s_net_name(p) ==
    /\ Idle
    /\ net_name[p] = NULL
    /\ pin' = p /\ name' = head[p]
    /\ todo' = IF wire[p] = NULL THEN {} ELSE names[wire[p]]
    /\ UNCHANGED <<schematic, net_name, renames, adding, counters, renamed>>

(* A name that differs from the one so far: the net is renamed to it, or,   *)
(* when netname= wins over a net=, from it.  Without priority there is no   *)
(* rename when one is listed already.                                       *)
SecondName(r) ==
    IF r.net_name_has_priority
    THEN IF net_naming_priority = "netattrib"
         THEN s_rename_add(name, r.net_name) /\ name' = r.net_name
         ELSE s_rename_add(r.net_name, name) /\ name' = name
    ELSE IF s_rename_search(name, r.net_name)
         THEN UNCHANGED <<renames, adding, name>>
         ELSE s_rename_add(name, r.net_name) /\ name' = r.net_name

s_net_name_search(r) ==
    /\ pin # NULL /\ adding = NULL
    /\ todo' = todo \ {r}
    /\ \/ name \in {NULL, r.net_name}
          /\ name' = r.net_name
          /\ UNCHANGED <<renames, adding>>
       \/ name \notin {NULL, r.net_name} /\ SecondName(r)
    /\ UNCHANGED <<schematic, net_name, pin, counters, renamed>>

(* The search ends at the first name. *)
Searched_Wrong == pin # NULL /\ adding = NULL /\ (name # NULL \/ todo = {})

Searched == pin # NULL /\ adding = NULL /\ todo = {}

Named(x) ==
    /\ net_name' = [net_name EXCEPT ![pin] = x]
    /\ pin' = NULL /\ name' = NULL
    /\ UNCHANGED <<schematic, todo, renames, adding, renamed>>

FoundName ==
    /\ Searched /\ name # NULL
    /\ Named(name)
    /\ UNCHANGED counters

(* Pins that are not connected are not told apart. *)
SameWireWrong == {q \in Pins : wire[q] = wire[pin]}

(* The pins on the wire. *)
SameWire == {q \in Pins : wire[q] = wire[pin] /\ wire[q] # NULL}

(* A wire without names: what a search from another of its pins meets is    *)
(* the name in that pin's head record and the name the pin was given.       *)
PinNames == ({net_name[q] : q \in SameWire} \cup {head[q] : q \in SameWire}) \ {NULL}

(* One of them, of the pin that is first in the list. *)
FoundPin ==
    /\ Searched /\ name = NULL
    /\ \E x \in PinNames : Named(x)
    /\ UNCHANGED counters

DanglingPin ==
    /\ Searched /\ name = NULL /\ wire[pin] = NULL
    /\ Named(UnconnectedPin(unnamed_pin_counter))
    /\ unnamed_pin_counter' = unnamed_pin_counter + 1
    /\ UNCHANGED unnamed_net_counter

NewNet ==
    /\ Searched /\ name = NULL /\ wire[pin] # NULL /\ PinNames = {}
    /\ Named(UnnamedNet(unnamed_net_counter))
    /\ unnamed_net_counter' = unnamed_net_counter + 1
    /\ UNCHANGED unnamed_pin_counter

-----------------------------------------------------------------------------
StartRenames ==
    /\ Idle /\ \A p \in Pins : net_name[p] # NULL
    /\ renamed' = 0
    /\ UNCHANGED <<schematic, net_name, search, renames, adding, counters>>

s_rename_all ==
    /\ renamed # NULL /\ renamed < Len(renames)
    /\ LET e == renames[renamed + 1]
       IN  net_name' = [p \in Pins |-> IF net_name[p] = e.src THEN e.dest ELSE net_name[p]]
    /\ renamed' = renamed + 1
    /\ UNCHANGED <<schematic, search, renames, adding, counters>>

Finished == renamed # NULL /\ renamed = Len(renames)

-----------------------------------------------------------------------------
Init ==
    /\ wire \in [Pins -> Wires \cup {NULL}]
    /\ names \in [Wires -> SUBSET NET]
    /\ head \in Heads
    /\ net_name = [p \in Pins |-> NULL]
    /\ pin = NULL /\ name = NULL /\ todo = {}
    /\ renames = <<>> /\ adding = NULL
    /\ unnamed_net_counter = 1 /\ unnamed_pin_counter = 1
    /\ renamed = NULL

Next ==
    \/ \E p \in Pins : s_net_name(p)
    \/ \E r \in todo : s_net_name_search(r)
    \/ s_rename_add_loop
    \/ FoundName \/ FoundPin \/ DanglingPin \/ NewNet
    \/ StartRenames \/ s_rename_all

Spec == Init /\ [][Next]_vars

-----------------------------------------------------------------------------
(* Safety. *)

(* The names a wire goes by, and those of the net of a pin. *)
NameOf(w) == {r.net_name : r \in names[w]}
WireNames(w) == (NameOf(w) \cup {head[p] : p \in {q \in Pins : wire[q] = w}}) \ {NULL}
NetNames(p) == IF wire[p] = NULL THEN {head[p]} \ {NULL} ELSE WireNames(wire[p])

(* Two names mean the same net when every labelling of the names that is    *)
(* the same along each wire gives them one label.                           *)
Labelling == {f \in [Names -> Names] :
    \A w \in Wires : \A x, y \in WireNames(w) : f[x] = f[y]}
Linked(x, y) == \A f \in Labelling : f[x] = f[y]

(* The pins are on one net as far as the schematic says: on the same wire,  *)
(* or with names that mean the same net.                                    *)
OneNet(p, q) ==
    \/ wire[p] = wire[q] /\ wire[p] # NULL
    \/ \E x \in NetNames(p), y \in NetNames(q) : Linked(x, y)

(* No two pins are given one name, before or during the renames, unless     *)
(* they are one net (s_net_name, s_rename_add, s_rename_all).               *)
NoShort ==
    \A p, q \in Pins :
        p # q /\ net_name[p] # NULL /\ net_name[p] = net_name[q] => OneNet(p, q)

(* All pins of one net have one name in the end                             *)
(* (docs/wiki/geda-gnetlist_ug-basic_netlisting.html:49).                   *)
NoOpen ==
    Finished => \A p, q \in Pins : OneNet(p, q) => net_name[p] = net_name[q]

(* All the names the search of a pin comes by. *)
NamesMet(p) ==
    ({head[p]} \cup (IF wire[p] = NULL THEN {} ELSE NameOf(wire[p]))) \ {NULL}

(* At most one wire has more names than one. *)
OneConflict ==
    \A v, w \in Wires :
        v # w => Cardinality(WireNames(v)) < 2 \/ Cardinality(WireNames(w)) < 2

(* ... and it has two, and a pin whose search comes by both: gnetlist comes *)
(* by a wire from its pins, and by a head record from its own pin only.     *)
ConflictSeen ==
    \A w \in Wires :
        /\ Cardinality(WireNames(w)) <= 2
        /\ Cardinality(WireNames(w)) = 2 =>
              \E p \in Pins : wire[p] = w /\ NamesMet(p) = WireNames(w)

NoOpenOfOneConflict == OneConflict /\ ConflictSeen => NoOpen

(* Conflicts that are all come by, and yet two names in the end.            *)
NoOpenOfSeenConflicts == ConflictSeen => NoOpen

(* All pins of one wire have one name in the end, also when net= attributes *)
(* of several components name it.                                           *)
NoOpenWire ==
    Finished =>
        \A p, q \in Pins : wire[p] = wire[q] /\ wire[p] # NULL => net_name[p] = net_name[q]

(* The only conflict there is, between the net= x of a power symbol and a   *)
(* netname= y, goes to the one the setting prefers                          *)
(* (docs/wiki/geda-gaf_utility.html:355-358).                               *)
PriorityNames ==
    \A w \in Wires : \A x, y \in Names :
        /\ Finished /\ x # y
        /\ names[w] = {[net_name |-> x, net_name_has_priority |-> TRUE],
                       [net_name |-> y, net_name_has_priority |-> FALSE]}
        /\ \A v \in Wires \ {w} : names[v] = {}
        /\ \A p \in Pins : head[p] = NULL
        => \A p \in Pins : wire[p] = w =>
                net_name[p] = IF net_naming_priority = "netattrib" THEN x ELSE y
=============================================================================
