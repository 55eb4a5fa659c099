---------------------------- MODULE Connectivity ----------------------------
(***************************************************************************)
(* The electrical connections of a page: every pin, net and bus keeps a    *)
(* list of the objects it touches, both of two touching objects keep one,  *)
(* and every command that places, deletes, moves or reshapes objects has   *)
(* to bring all the lists up to date.  After each command nets are merged. *)
(*                                                                         *)
(* A net or bus is the set of its end points; which of them comes first is *)
(* left out, as is the order of a list.  A pin is its connectable end.     *)
(* Attributes and what lies on other pages are not modelled.               *)
(***************************************************************************)
EXTENDS Integers, FiniteSets

CONSTANTS
    Pins, Nets, Buses,  \* the objects that can be on the page
    BusRelated,         \* the buses, and pins of type bus
    complex,            \* the symbol an object is part of, or NULL
    NULL,
    Width, Height,      \* of the paper
    netconn_rubberband, net_consolidate,  \* the settings, TRUE or FALSE
    UserActs            \* what else the user does, a subset of {"extend"}

Obj == Pins \cup Nets \cup Buses

ASSUME ConnectivityAssumption ==
    /\ IsFiniteSet(Obj) /\ NULL \notin Obj
    /\ Pins \cap (Nets \cup Buses) = {} /\ Nets \cap Buses = {}
    /\ Buses \subseteq BusRelated /\ BusRelated \subseteq Buses \cup Pins
    /\ NULL \notin Nat
    /\ Width \in Nat /\ Height \in Nat
    /\ DOMAIN complex = Obj
    /\ netconn_rubberband \in BOOLEAN /\ net_consolidate \in BOOLEAN
    /\ UserActs \subseteq {"extend"}

VARIABLES
    objects,      \* the objects on the page
    line,         \* the end points of each
    conn_list,    \* the connections of each
    net_num_connected,  \* each net's cached count, or NULL
    consolidating \* o_undo_savestate is merging nets

vars == <<objects, line, conn_list, net_num_connected, consolidating>>

Points == (0..Width) \X (0..Height)
Lines == {{p, q} : p, q \in Points}

(* A connection: with whom, where, and what touches: the end points of      *)
(* both, an end point of this object on the middle of the other, or an end  *)
(* point of the other under it.  The last two are CONN_MIDPOINT in the      *)
(* code, with other_whichone or whichone -1.                                *)
CONN == [other_object : Obj, type : {"ENDPOINT", "ON", "UNDER"}, at : Points]

TypeOK ==
    /\ objects \subseteq Obj
    /\ line \in [Obj -> SUBSET Points]
    /\ conn_list \in [Obj -> SUBSET CONN]
    /\ net_num_connected \in [Obj -> Nat \cup {NULL}]
    /\ consolidating \in BOOLEAN

-----------------------------------------------------------------------------
(* s_conn_check_midpoint: only orthogonal lines have a middle. *)
Between(a, b, i) == (a < i /\ i < b) \/ (b < i /\ i < a)
Middle(l) ==
    {p \in Points : \E a, b \in l :
        \/ a[1] = p[1] /\ b[1] = p[1] /\ Between(a[2], b[2], p[2])
        \/ a[2] = p[2] /\ b[2] = p[2] /\ Between(a[1], b[1], p[1])}

(* s_page_get_objects has the symbols but not their parts. *)
InNoSymbol == {o \in Obj : complex[o] = NULL}

(* What is inside a symbol connects to the outside only with pins. *)
MayConnect(o, p) ==
    \/ complex[o] = complex[p]
    \/ (complex[o] # NULL => o \in Pins) /\ (complex[p] # NULL => p \in Pins)

check_direct_compat(o, p) == o \in BusRelated <=> p \in BusRelated

(* Whether an end point of o on the middle of p connects them. *)
MayEndOn(o, p) ==
    p \notin Pins /\ ((o \in Nets /\ p \in Buses) \/ check_direct_compat(o, p))

Conns(o, type, points) ==
    {[other_object |-> o, type |-> type, at |-> x] : x \in points}

(* The connections o has with p, by where their lines are. *)
Touch(o, p, ln) ==
    IF ~MayConnect(o, p) THEN {}
    ELSE Conns(p, "ENDPOINT", IF check_direct_compat(o, p) THEN ln[o] \cap ln[p] ELSE {})
         \cup Conns(p, "ON", IF MayEndOn(o, p) THEN ln[o] \cap Middle(ln[p]) ELSE {})
         \cup Conns(p, "UNDER", IF MayEndOn(p, o) THEN ln[p] \cap Middle(ln[o]) ELSE {})

(* The code compares the kind without the side. *)
s_conn_uniq(c, list) ==
    ~\E d \in list : /\ d.other_object = c.other_object /\ d.at = c.at
                     /\ (d.type = "ENDPOINT") = (c.type = "ENDPOINT")

(* The connections are only removed from the object itself. *)
s_conn_remove_Wrong(cn, S) == [o \in Obj |-> IF o \in S THEN {} ELSE cn[o]]

(* s_conn_remove_object for all of S: the others are found by the lists of  *)
(* those removed.                                                           *)
s_conn_remove(cn, S) ==
    LET Others == {c.other_object : c \in UNION {cn[o] : o \in S}}
    IN  [o \in Obj |->
            IF o \in S THEN {}
            ELSE IF o \in Others THEN {c \in cn[o] : c.other_object \notin S}
            ELSE cn[o]]

(* Only the updated objects learn of their new connections. *)
s_conn_update_Wrong(cn, S, ln, page) ==
    [o \in Obj |->
        IF o \notin page \cap S THEN cn[o]
        ELSE cn[o] \cup
            {c \in UNION {Touch(o, p, ln) : p \in page \ {o}} : s_conn_uniq(c, cn[o])}]

(* s_conn_update_linear_object for all of S: what it adds to an object's    *)
(* list it adds to the list of the other.                                   *)
s_conn_update(cn, S, ln, page) ==
    [o \in Obj |->
        IF o \notin page THEN cn[o]
        ELSE cn[o] \cup
            {c \in UNION {Touch(o, p, ln) : p \in {p \in page \ {o} : o \in S \/ p \in S}} :
                s_conn_uniq(c, cn[o])}]

-----------------------------------------------------------------------------
(* All nets reached from the nets S, through nets only. *)
Reach(S, cn) ==
    LET More[k \in 0..Cardinality(Nets)] ==
            IF k = 0 THEN S
            ELSE More[k - 1] \cup
                 ({c.other_object : c \in UNION {cn[n] : n \in More[k - 1]}} \cap Nets)
    IN  More[Cardinality(Nets)]

(* The net that is asked for is taken to be among those counted. *)
Count_Wrong(S, cn) ==
    Cardinality({p \in Obj \ Nets : \E n \in S : \E c \in cn[n] : c.other_object = p}) - 1

(* Pins and buses connected to any of the nets. *)
Count(S, cn) ==
    Cardinality({p \in Obj \ Nets : \E n \in S : \E c \in cn[n] : c.other_object = p})

(* The count is kept up to date only for the net that was changed itself.   *)
Refresh_Wrong(cn, page) ==
    LET Told == {n \in Nets \cap page : cn[n] # conn_list[n]}
    IN  [o \in Obj |->
            IF o \notin page THEN NULL
            ELSE IF o \in Told THEN Count(Reach({o}, cn), cn)
            ELSE net_num_connected[o]]

(* conns_changed_hooks: o_net_refresh_conn_cache for each net whose list    *)
(* was changed, which writes the count to every net it comes by.  An object *)
(* that comes to the page has no count yet.                                 *)
Refresh(cn, page) ==
    LET Told == {n \in Nets \cap page : cn[n] # conn_list[n]}
    IN  [o \in Obj |->
            IF o \notin page THEN NULL
            ELSE IF o \in Reach(Told, cn) THEN Count(Reach({o}, cn), cn)
            ELSE net_num_connected[o]]

(* An object that is not on the page has a line that nobody reads. *)
Nowhere == {<<0, 0>>}
OnPage(ln, page) == [o \in Obj |-> IF o \in page THEN ln[o] ELSE Nowhere]

(* What is left of a command when the lines and the lists are changed: the  *)
(* hooks have run, and o_undo_savestate merges nets.                        *)
Change(page, ln, cn) ==
    /\ objects' = page /\ line' = OnPage(ln, page) /\ conn_list' = cn
    /\ net_num_connected' = Refresh(cn, page)
    /\ consolidating' = net_consolidate

-----------------------------------------------------------------------------
(* A symbol is placed, deleted and moved as a whole. *)
Whole(S) == \A o, p \in Obj : complex[o] # NULL /\ complex[o] = complex[p]
                              => (o \in S <=> p \in S)

Shift(l, d) == {<<p[1] + d[1], p[2] + d[2]>> : p \in l}
Moves == ((-Width)..Width) \X ((-Height)..Height)

Init ==
    /\ objects = {} /\ line = [o \in Obj |-> Nowhere]
    /\ conn_list = [o \in Obj |-> {}]
    /\ net_num_connected = [o \in Obj |-> NULL]
    /\ consolidating = FALSE

(* A net or bus that is drawn, or a symbol that is placed. *)
PartsWith(o) == {p \in Obj : p = o \/ (complex[p] # NULL /\ complex[p] = complex[o])}

o_place_end(S, at) ==
    /\ ~consolidating
    /\ S \cap objects = {}
    /\ \A o \in S : Cardinality(at[o]) = IF o \in Pins THEN 1 ELSE 2
    /\ LET ln == [o \in Obj |-> IF o \in S THEN at[o] ELSE line[o]]
       IN  Change(objects \cup S, ln, s_conn_update(conn_list, S, ln, objects \cup S))

o_delete_selected(S) ==
    /\ ~consolidating
    /\ S # {} /\ S \subseteq objects /\ Whole(S)
    /\ Change(objects \ S, line, s_conn_remove(conn_list, S))

(* One end of a net or bus is dragged somewhere else, but not to the other. *)
o_grips_end(o, p, q) ==
    /\ ~consolidating
    /\ o \in (objects \cap InNoSymbol) \ Pins /\ p \in line[o] /\ line[o] \ {p} # {q}
    /\ LET ln == [line EXCEPT ![o] = (@ \ {p}) \cup {q}]
       IN  Change(objects, ln,
                  s_conn_update(s_conn_remove(conn_list, {o}), {o}, ln, objects))

(* The lists are not told. *)
o_extend_object_Wrong(o, p, q) ==
    /\ "extend" \in UserActs /\ ~consolidating
    /\ o \in (objects \cap InNoSymbol) \ Pins
    /\ p \in line[o] /\ p \in Middle({q} \cup (line[o] \ {p}))
    /\ Change(objects, [line EXCEPT ![o] = (@ \ {p}) \cup {q}], conn_list)

(* One end is drawn out along the line; the old connections stay. *)
o_extend_object(o, p, q) ==
    /\ "extend" \in UserActs /\ ~consolidating
    /\ o \in (objects \cap InNoSymbol) \ Pins
    /\ p \in line[o] /\ p \in Middle({q} \cup (line[o] \ {p}))
    /\ LET ln == [line EXCEPT ![o] = (@ \ {p}) \cup {q}]
       IN  Change(objects, ln, s_conn_update(conn_list, {o}, ln, objects))

(* What o_move_check_endpoint finds on the selected objects S: the ends of  *)
(* other nets and buses that are to be stretched.                           *)
Ends(S, page, ln, cn) ==
    {<<c.other_object, c.at>> : c \in
        {c \in UNION {cn[o] : o \in S} : /\ c.type # "ON"
                                         /\ c.other_object \in page \ (S \cup Pins)
                                         /\ c.at \in ln[c.other_object]}}

(* o_move_stretch_add refuses an object that is listed already, so that     *)
(* one end is stretched of a line that has both on S; which one depends on  *)
(* the order of the lists.                                                  *)
StretchLists(ends) ==
    {L \in SUBSET ends : /\ {e[1] : e \in L} = {e[1] : e \in ends}
                         /\ \A e, f \in L : e[1] = f[1] => e = f}

(* The end moves along; a net of no length gets one. *)
Stretch(l, p, d) == (IF l = {p} THEN l ELSE l \ {p}) \cup Shift({p}, d)

(* The nets that were inserted are taken for nets. *)
o_move_zero_length_Wrong(l) == FALSE

o_move_zero_length(l) == Cardinality(l) = 1

MovedLine(o, S, L, ln, d) ==
    IF o \in S THEN Shift(ln[o], d)
    ELSE IF \E e \in L : e[1] = o
    THEN Stretch(ln[o], (CHOOSE e \in L : e[1] = o)[2], d)
    ELSE ln[o]

(* S moves and the stretched ends with it; what is left without length is   *)
(* deleted.                                                                 *)
o_move_end(S, d, page, ln, cn) ==
    \E L \in StretchLists(IF netconn_rubberband THEN Ends(S, page, ln, cn) ELSE {}) :
        LET after   == [o \in Obj |-> MovedLine(o, S, L, ln, d)]
            stretched == {e[1] : e \in L}
            moved   == S \cup stretched
            gone    == {o \in stretched : o_move_zero_length(after[o])}
        IN  /\ \A o \in moved : after[o] \subseteq Points
            /\ Change(page \ gone, after,
                      s_conn_update(s_conn_remove(cn, moved), moved \ gone,
                                    after, page \ gone))

(* The connections of the moved pins with pins that stay behind. *)
PinPairs(S) ==
    {oc \in (S \cap Pins) \X UNION {conn_list[o] : o \in S \cap Pins} :
        oc[2] \in conn_list[oc[1]] /\ oc[2].other_object \in Pins \ S}

(* o_move_start and o_move_end, with nothing else to disturb the lists in   *)
(* between: PageUndo has what can happen there, and the cancelled move.     *)
(* Between each pair of pins a net of no length is inserted, for the move   *)
(* to draw out.                                                             *)
o_move(S, d) ==
    /\ ~consolidating
    /\ S # {} /\ S \subseteq objects /\ Whole(S)
    /\ \A o \in S : Shift(line[o], d) \subseteq Points
    /\ LET pairs == IF netconn_rubberband THEN PinPairs(S) ELSE {}
       IN  \E new \in [pairs -> (Nets \cap InNoSymbol) \ objects] :
            LET added == {new[oc] : oc \in pairs}
                ln    == [o \in Obj |->
                            IF o \in added THEN {oc[2].at : oc \in {oc \in pairs : new[oc] = o}}
                            ELSE line[o]]
            IN  /\ \A x, y \in pairs : new[x] = new[y] => x = y
                /\ o_move_end(S, d, objects \cup added, ln,
                              s_conn_update(conn_list, added, ln, objects \cup added))

-----------------------------------------------------------------------------
(* o_net_orientation *)
Horizontal(l) == \A p, q \in l : p[2] = q[2]
Vertical(l) == \A p, q \in l : p[1] = q[1]
SameOrientation(l, m) ==
    \/ Horizontal(l) /\ Horizontal(m)
    \/ Vertical(l) /\ ~Horizontal(l) /\ Vertical(m) /\ ~Horizontal(m)

o_net_consolidate_nomidpoint(n, x) ==
    ~\E c \in conn_list[n] : c.type # "ENDPOINT" /\ c.at = x

Mergeable ==
    {nm \in (Nets \cap InNoSymbol \cap objects) \X (Nets \cap objects) :
        /\ SameOrientation(line[nm[1]], line[nm[2]])
        /\ \E c \in conn_list[nm[1]] :
              /\ c.type = "ENDPOINT" /\ c.other_object = nm[2]
              /\ o_net_consolidate_nomidpoint(nm[1], c.at)}

(* The two points farthest from each other. *)
Outer(l) == {p \in l : ~\E a, b \in l : p \in Middle({a, b})}

(* One round of o_net_consolidate.  The net that is kept is not removed     *)
(* from the lists before it is updated.                                     *)
o_net_consolidate_segments ==
    /\ consolidating
    /\ \E nm \in Mergeable :
        LET n == nm[1]
            m == nm[2]
            page == objects \ {m}
            ln == [line EXCEPT ![n] = Outer(@ \cup line[m])]
            cn == s_conn_update(s_conn_remove(conn_list, {m}), {n}, ln, page)
        IN  /\ objects' = page /\ line' = OnPage(ln, page) /\ conn_list' = cn
            /\ net_num_connected' = Refresh(cn, page)
    /\ UNCHANGED consolidating

o_net_consolidate_done ==
    /\ consolidating /\ Mergeable = {}
    /\ consolidating' = FALSE
    /\ UNCHANGED <<objects, line, conn_list, net_num_connected>>

Next ==
    \/ \E o \in Obj \ objects : \E at \in [PartsWith(o) -> Lines] :
        o_place_end(PartsWith(o), at)
    \/ \E S \in SUBSET objects :
        o_delete_selected(S) \/ \E d \in Moves : o_move(S, d)
    \/ \E o \in Nets \cup Buses, p, q \in Points :
        o_grips_end(o, p, q) \/ o_extend_object(o, p, q)
    \/ o_net_consolidate_segments \/ o_net_consolidate_done

Spec == Init /\ [][Next]_vars

-----------------------------------------------------------------------------
Opposite(type) == CASE type = "ENDPOINT" -> "ENDPOINT"
                    [] type = "ON" -> "UNDER"
                    [] type = "UNDER" -> "ON"

(* Both ends of a connection know of it. *)
Symmetric ==
    \A o \in Obj : \A c \in conn_list[o] :
        [other_object |-> o, type |-> Opposite(c.type), at |-> c.at]
            \in conn_list[c.other_object]

(* Connections are between objects of the page: an object that was deleted  *)
(* is in no list, where its memory would be used again.                     *)
NoDangling ==
    \A o \in Obj : \A c \in conn_list[o] :
        o \in objects /\ c.other_object \in objects \ {o}

(* All that touches is connected. *)
Complete ==
    \A o \in objects : \A p \in objects \ {o} : \A c \in Touch(o, p, line) :
        \E d \in conn_list[o] : d.other_object = p /\ d.at = c.at

(* A pin has one connectable end and a net or bus two that differ: the nets *)
(* without length that a move inserts between pins are found again by the   *)
(* move itself, and none of them stays on the page.                         *)
LinesSound ==
    \A o \in objects : Cardinality(line[o]) = IF o \in Pins THEN 1 ELSE 2

(* The count that decides whether a net's ends are drawn as unconnected is  *)
(* the one a new search would find.                                         *)
CacheFresh ==
    \A n \in Nets \cap objects :
        net_num_connected[n] # NULL =>
            net_num_connected[n] = Count(Reach({n}, conn_list), conn_list)

(* What the lists would be if the page were read from its file. *)
Reread == s_conn_update([o \in Obj |-> {}], objects, line, objects)

(* The nets and pins that are one electrical net with o. *)
SameNet(o, cn) ==
    LET direct == {c.other_object : c \in cn[o]} \cup {o}
        nets   == Reach(direct \cap Nets, cn)
    IN  direct \cup nets \cup {c.other_object : c \in UNION {cn[n] : n \in nets}}

(* The pins the editor shows as connected are those the netlister, which    *)
(* reads the file, will find connected.                                     *)
FileHasSameNets ==
    ~consolidating => \A o \in objects : SameNet(o, conn_list) = SameNet(o, Reread)

(* "Controls if net connections are maintained when you move a connecting   *)
(* component or net."                                                       *)
MoveKeepsConnections ==
    [][\A S \in SUBSET Pins, d \in Moves :
        o_move(S, d) => \A o \in Pins :
            SameNet(o, conn_list) \cap Pins \subseteq SameNet(o, conn_list')]_vars
=============================================================================
