------------------------ MODULE Connectivity_proofs ------------------------
(***************************************************************************)
(* For any pins, nets and buses, on paper of any size: the connection      *)
(* lists of both ends of a connection agree, no list names an object that  *)
(* is not on the page, what touches is in the lists, the cached counts are *)
(* those of a new search, and lines keep a length.                         *)
(*                                                                         *)
(* Every command changes the lists with s_conn_remove and s_conn_update    *)
(* only, so that the argument for the lists is two lemmas about these, and *)
(* the observation that each command removes what leaves the page and      *)
(* updates all of what changed on it and nothing that is not there.  None  *)
(* of the three properties of the lists is inductive alone: s_conn_remove  *)
(* finds the lists to change by those it empties, which is enough only     *)
(* when both ends know of each connection, and a contact that was removed  *)
(* at one end only would be missing at the other.                          *)
(*                                                                         *)
(* For the counts, each command is taken apart into the changes after      *)
(* which the code searches again: a net that a change can make stale is    *)
(* connected, before the change, with one of those it searches from.       *)
(***************************************************************************)
EXTENDS Connectivity, FiniteSetTheorems, WellFoundedInduction, TLAPS

Opp(o, c) == [other_object |-> o, type |-> Opposite(c.type), at |-> c.at]

(* Lists as Symmetric and NoDangling describe them, for the objects of page. *)
Typed(cn) == cn \in [Obj -> SUBSET CONN]
Sym(cn) == \A o \in Obj : \A c \in cn[o] : Opp(o, c) \in cn[c.other_object]
Within(cn, page) ==
    \A o \in Obj : \A c \in cn[o] : o \in page /\ c.other_object \in page \ {o}
Good(cn, page) == Typed(cn) /\ Sym(cn) /\ Within(cn, page)

LEMMA TouchTyped ==
    ASSUME NEW o \in Obj, NEW p \in Obj, NEW ln,
           ln[o] \subseteq Points, ln[p] \subseteq Points,
           NEW c \in Touch(o, p, ln)
    PROVE  c \in CONN /\ c.other_object = p
<1>1. PICK type \in {"ENDPOINT", "ON", "UNDER"}, x \in Points :
        c = [other_object |-> p, type |-> type, at |-> x]
  BY DEF Touch, Conns
<1> QED BY <1>1 DEF CONN

(* What one of two lines touches of the other, the other touches of it.     *)
LEMMA TouchSym ==
    ASSUME NEW o \in Obj, NEW p \in Obj, NEW ln, NEW c \in Touch(o, p, ln)
    PROVE  Opp(o, c) \in Touch(p, o, ln)
<1>1. MayConnect(o, p) /\ MayConnect(p, o)
  BY DEF Touch, MayConnect
<1>2. check_direct_compat(o, p) <=> check_direct_compat(p, o)
  BY DEF check_direct_compat
<1>3. CASE c \in Conns(p, "ENDPOINT",
                       IF check_direct_compat(o, p) THEN ln[o] \cap ln[p] ELSE {})
  BY <1>1, <1>2, <1>3 DEF Touch, Conns, Opp, Opposite
<1>4. CASE c \in Conns(p, "ON", IF MayEndOn(o, p) THEN ln[o] \cap Middle(ln[p]) ELSE {})
  BY <1>1, <1>4 DEF Touch, Conns, Opp, Opposite
<1>5. CASE c \in Conns(p, "UNDER", IF MayEndOn(p, o) THEN ln[p] \cap Middle(ln[o]) ELSE {})
  BY <1>1, <1>5 DEF Touch, Conns, Opp, Opposite
<1> QED BY <1>1, <1>3, <1>4, <1>5 DEF Touch

(* A connection is new to both ends or to none.                             *)
LEMMA UniqSym ==
    ASSUME NEW cn, Typed(cn), Sym(cn), NEW o \in Obj, NEW c \in CONN
    PROVE  s_conn_uniq(c, cn[o]) <=> s_conn_uniq(Opp(o, c), cn[c.other_object])
<1> DEFINE p == c.other_object
<1>1. p \in Obj
  BY DEF CONN
<1>2. ASSUME NEW d \in cn[o], d.other_object = p, d.at = c.at,
             (d.type = "ENDPOINT") <=> (c.type = "ENDPOINT")
      PROVE  ~s_conn_uniq(Opp(o, c), cn[p])
  <2>1. Opp(o, d) \in cn[p] /\ d \in CONN
    BY <1>2 DEF Sym, Typed
  <2> QED BY <1>2, <2>1 DEF s_conn_uniq, Opp, Opposite, CONN
<1>3. ASSUME NEW d \in cn[p], d.other_object = o, d.at = c.at,
             (d.type = "ENDPOINT") <=> (Opp(o, c).type = "ENDPOINT")
      PROVE  ~s_conn_uniq(c, cn[o])
  <2>1. Opp(p, d) \in cn[o] /\ d \in CONN
    BY <1>1, <1>3 DEF Sym, Typed
  <2> QED BY <1>3, <2>1 DEF s_conn_uniq, Opp, Opposite, CONN
<1> QED BY <1>2, <1>3 DEF s_conn_uniq, Opp

(* What is removed is in no list any more.                                  *)
LEMMA RemoveGood ==
    ASSUME NEW cn, NEW page, NEW S, Good(cn, page)
    PROVE  Good(s_conn_remove(cn, S), page \ S)
<1> DEFINE Others == {c.other_object : c \in UNION {cn[o] : o \in S}}
           new == s_conn_remove(cn, S)
<1>1. \A o \in Obj : new[o] = IF o \in S THEN {}
                              ELSE IF o \in Others THEN {c \in cn[o] : c.other_object \notin S}
                              ELSE cn[o]
  BY DEF s_conn_remove
<1>2. \A o \in Obj : new[o] \subseteq cn[o]
  BY <1>1
<1>3. Typed(new)
  BY <1>2 DEF Good, Typed, s_conn_remove
<1>4. ASSUME NEW o \in Obj, NEW c \in new[o]
      PROVE  o \notin S /\ c.other_object \notin S
  <2>1. o \notin S /\ c \in cn[o]
    BY <1>1, <1>4
  <2>2. CASE c.other_object \in S
    <3>1. Opp(o, c) \in cn[c.other_object]
      BY <2>1 DEF Good, Sym
    <3>2. o \in Others
      BY <3>1, <2>2 DEF Opp
    <3> QED BY <1>1, <1>4, <2>1, <2>2, <3>2
  <2> QED BY <2>1, <2>2
<1>5. Within(new, page \ S)
  BY <1>2, <1>4 DEF Good, Within
<1>6. Sym(new)
  <2> SUFFICES ASSUME NEW o \in Obj, NEW c \in new[o]
               PROVE  Opp(o, c) \in new[c.other_object]
    BY DEF Sym
  <2>1. c \in cn[o] /\ c \in CONN /\ Opp(o, c) \in cn[c.other_object]
    BY <1>2 DEF Good, Typed, Sym
  <2>2. o \notin S /\ c.other_object \notin S /\ c.other_object \in Obj
    BY <1>4, <2>1 DEF CONN
  <2> QED BY <1>1, <2>1, <2>2 DEF Opp
<1> QED BY <1>3, <1>5, <1>6 DEF Good

(* What is added, is added to both.                                         *)
LEMMA UpdateGood ==
    ASSUME NEW cn, NEW page, NEW page0, NEW S, NEW ln,
           Good(cn, page0), page0 \subseteq page, page \subseteq Obj,
           \A o \in page : ln[o] \subseteq Points
    PROVE  Good(s_conn_update(cn, S, ln, page), page)
<1> DEFINE new == s_conn_update(cn, S, ln, page)
           Added(o, p, c) == /\ o \in page /\ p \in page \ {o} /\ (o \in S \/ p \in S)
                             /\ c \in Touch(o, p, ln) /\ s_conn_uniq(c, cn[o])
<1>1. ASSUME NEW o \in Obj
      PROVE  \A c : c \in new[o] <=> c \in cn[o] \/ \E p \in page : Added(o, p, c)
  BY DEF s_conn_update
<1>2. ASSUME NEW o \in Obj, NEW p \in page, NEW c, Added(o, p, c)
      PROVE  c \in CONN /\ c.other_object = p /\ Opp(o, c) \in new[p]
  <2>1. c \in CONN /\ c.other_object = p
    BY <1>2, TouchTyped
  <2>2. Opp(o, c) \in Touch(p, o, ln)
    BY <1>2, TouchSym
  <2>3. s_conn_uniq(Opp(o, c), cn[p])
    BY <1>2, <2>1, UniqSym DEF Good
  <2> QED BY <1>1, <1>2, <2>1, <2>2, <2>3
<1>3. Typed(new)
  <2>1. \A o \in Obj : new[o] \subseteq CONN
    BY <1>1, <1>2 DEF Good, Typed
  <2> QED BY <2>1 DEF Typed, s_conn_update
<1>4. ASSUME NEW o \in Obj, NEW c \in new[o]
      PROVE  /\ o \in page /\ c.other_object \in page \ {o}
             /\ Opp(o, c) \in new[c.other_object]
  <2>1. CASE c \in cn[o]
    <3>1. o \in page /\ c.other_object \in page \ {o}
      BY <2>1 DEF Good, Within
    <3>2. Opp(o, c) \in cn[c.other_object] /\ c.other_object \in Obj
      BY <2>1, <3>1 DEF Good, Sym
    <3> QED BY <1>1, <3>1, <3>2
  <2>2. CASE \E p \in page : Added(o, p, c)
    BY <1>2, <2>2
  <2> QED BY <1>1, <1>4, <2>1, <2>2
<1> QED BY <1>3, <1>4 DEF Good, Sym, Within

(* What the objects of page touch, with their lines as in ln, is in cn.      *)
CompleteOn(cn, page, ln) ==
    \A o \in page : \A p \in page \ {o} : \A c \in Touch(o, p, ln) :
        \E d \in cn[o] : d.other_object = p /\ d.at = c.at

(* What two objects touch of each other depends on their own lines only.    *)
LEMMA TouchSame ==
    ASSUME NEW o, NEW p, NEW ln, NEW ln0, ln[o] = ln0[o], ln[p] = ln0[p]
    PROVE  Touch(o, p, ln) = Touch(o, p, ln0)
BY DEF Touch

LEMMA TouchOther ==
    ASSUME NEW o, NEW p, NEW ln, NEW c \in Touch(o, p, ln)
    PROVE  c.other_object = p
BY DEF Touch, Conns

(* Between the objects that stay nothing is taken away.                     *)
LEMMA RemoveComplete ==
    ASSUME NEW cn, NEW page, NEW S, NEW ln, page \subseteq Obj, CompleteOn(cn, page, ln)
    PROVE  CompleteOn(s_conn_remove(cn, S), page \ S, ln)
<1> DEFINE new == s_conn_remove(cn, S)
<1> SUFFICES ASSUME NEW o \in page \ S, NEW p \in (page \ S) \ {o}, NEW c \in Touch(o, p, ln)
             PROVE  \E d \in new[o] : d.other_object = p /\ d.at = c.at
  BY DEF CompleteOn
<1>1. PICK d \in cn[o] : d.other_object = p /\ d.at = c.at
  BY DEF CompleteOn
<1>2. d \in new[o]
  BY <1>1 DEF s_conn_remove
<1> QED BY <1>1, <1>2

(* An update of all that came to the page or has another line makes the     *)
(* lists complete again; what s_conn_uniq keeps out is there already.       *)
LEMMA UpdateComplete ==
    ASSUME NEW cn, NEW page, NEW page0, NEW S, NEW ln, NEW ln0,
           page \subseteq Obj, CompleteOn(cn, page0, ln0),
           \A o \in page \ S : o \in page0 /\ ln[o] = ln0[o]
    PROVE  CompleteOn(s_conn_update(cn, S, ln, page), page, ln)
<1> DEFINE new == s_conn_update(cn, S, ln, page)
<1> SUFFICES ASSUME NEW o \in page, NEW p \in page \ {o}, NEW c \in Touch(o, p, ln)
             PROVE  \E d \in new[o] : d.other_object = p /\ d.at = c.at
  BY DEF CompleteOn
<1>1. \A d \in cn[o] : d \in new[o]
  BY DEF s_conn_update
<1>2. c.other_object = p
  BY TouchOther
<1>3. CASE o \in S \/ p \in S
  <2>1. CASE s_conn_uniq(c, cn[o])
    <3>1. c \in new[o]
      BY <1>3, <2>1 DEF s_conn_update
    <3> QED BY <1>2, <3>1
  <2>2. CASE ~s_conn_uniq(c, cn[o])
    BY <1>1, <1>2, <2>2 DEF s_conn_uniq
  <2> QED BY <2>1, <2>2
<1>4. CASE o \notin S /\ p \notin S
  <2>1. c \in Touch(o, p, ln0)
    BY <1>4, TouchSame
  <2>2. PICK d \in cn[o] : d.other_object = p /\ d.at = c.at
    BY <1>4, <2>1 DEF CompleteOn
  <2> QED BY <1>1, <2>2
<1> QED BY <1>3, <1>4

-----------------------------------------------------------------------------
(* The inductive invariant: the lists are good for what is on the page, and *)
(* complete.                                                                *)
IInv == TypeOK /\ Good(conn_list, objects) /\ CompleteOn(conn_list, objects, line)

LEMMA CountNat == ASSUME NEW S, NEW cn PROVE Count(S, cn) \in Nat
<1> DEFINE counted == {p \in Obj \ Nets : \E n \in S : \E c \in cn[n] : c.other_object = p}
<1>1. IsFiniteSet(counted)
  BY FS_Subset, ConnectivityAssumption
<1> QED BY <1>1, FS_CardinalityType DEF Count

LEMMA RefreshTyped ==
    ASSUME TypeOK, NEW cn, NEW page
    PROVE  Refresh(cn, page) \in [Obj -> Nat \cup {NULL}]
BY CountNat DEF Refresh, TypeOK

(* The lines of the objects on the page are all that counts.                *)
LEMMA OnPageComplete ==
    ASSUME NEW cn, NEW page, NEW ln, page \subseteq Obj, CompleteOn(cn, page, ln)
    PROVE  CompleteOn(cn, page, OnPage(ln, page))
<1> SUFFICES ASSUME NEW o \in page, NEW p \in page \ {o},
                    NEW c \in Touch(o, p, OnPage(ln, page))
             PROVE  \E d \in cn[o] : d.other_object = p /\ d.at = c.at
  BY DEF CompleteOn
<1>1. OnPage(ln, page)[o] = ln[o] /\ OnPage(ln, page)[p] = ln[p]
  BY DEF OnPage
<1>2. c \in Touch(o, p, ln)
  BY <1>1, TouchSame
<1> QED BY <1>2 DEF CompleteOn

LEMMA CompletePrimed ==
    ASSUME CompleteOn(conn_list', objects', line')
    PROVE  CompleteOn(conn_list, objects, line)'
BY DEF CompleteOn, Touch, Conns, Middle

(* A command that ends with good and complete lists keeps the invariant.    *)
LEMMA ChangeInv ==
    ASSUME TypeOK, NEW page, NEW ln, NEW cn, page \subseteq Obj,
           \A o \in page : ln[o] \subseteq Points, Good(cn, page),
           CompleteOn(cn, page, ln), Change(page, ln, cn)
    PROVE  IInv'
<1>1. OnPage(ln, page) \in [Obj -> SUBSET Points]
  BY ConnectivityAssumption DEF OnPage, Nowhere, Points
<1>2. TypeOK'
  BY <1>1, RefreshTyped, ConnectivityAssumption DEF TypeOK, Change, Good, Typed
<1>3. Good(conn_list, objects)'
  BY DEF Change, Good, Typed, Sym, Within
<1>4. CompleteOn(cn, page, OnPage(ln, page))
  BY OnPageComplete
<1>5. CompleteOn(conn_list, objects, line)'
  BY <1>4, CompletePrimed DEF Change
<1> QED BY <1>2, <1>3, <1>5 DEF IInv

-----------------------------------------------------------------------------
LEMMA InitInv == Init => IInv
<1> SUFFICES ASSUME Init PROVE IInv
  OBVIOUS
<1>1. TypeOK
  <2>1. Nowhere \in SUBSET Points
    BY ConnectivityAssumption DEF Nowhere, Points
  <2>2. line \in [Obj -> SUBSET Points]
    BY <2>1 DEF Init
  <2> QED BY <2>2 DEF Init, TypeOK
<1>2. Good(conn_list, objects)
  BY DEF Init, Good, Typed, Sym, Within
<1>3. CompleteOn(conn_list, objects, line)
  BY DEF Init, CompleteOn
<1> QED BY <1>1, <1>2, <1>3 DEF IInv

LEMMA PlaceInv ==
    ASSUME IInv, NEW o \in Obj, NEW at \in [PartsWith(o) -> Lines],
           o_place_end(PartsWith(o), at)
    PROVE  IInv'
<1> DEFINE S == PartsWith(o)
           ln == [x \in Obj |-> IF x \in S THEN at[x] ELSE line[x]]
           page == objects \cup S
           cn == s_conn_update(conn_list, S, ln, page)
<1>1. S \subseteq Obj /\ page \subseteq Obj
  BY DEF PartsWith, IInv, TypeOK
<1>2. \A x \in page : ln[x] \subseteq Points
  <2>1. \A l \in Lines : l \subseteq Points
    BY DEF Lines
  <2> QED BY <1>1, <2>1 DEF IInv, TypeOK
<1>3. Good(cn, page)
  BY <1>1, <1>2, UpdateGood DEF IInv
<1>4. CompleteOn(cn, page, ln)
  <2>1. \A x \in page \ S : x \in objects /\ ln[x] = line[x]
    BY <1>1
  <2> HIDE DEF page, ln, S
  <2> QED BY <1>1, <2>1, UpdateComplete DEF IInv
<1>5. Change(page, ln, cn)
  BY DEF o_place_end
<1> QED BY <1>1, <1>2, <1>3, <1>4, <1>5, ChangeInv DEF IInv

LEMMA DeleteInv ==
    ASSUME IInv, NEW S, o_delete_selected(S)
    PROVE  IInv'
<1>1. Good(s_conn_remove(conn_list, S), objects \ S)
  BY RemoveGood DEF IInv
<1>2. objects \ S \subseteq Obj /\ \A o \in objects \ S : line[o] \subseteq Points
  BY DEF IInv, TypeOK
<1>3. CompleteOn(s_conn_remove(conn_list, S), objects \ S, line)
  BY RemoveComplete DEF IInv, TypeOK
<1> QED BY <1>1, <1>2, <1>3, ChangeInv DEF IInv, o_delete_selected

(* A line with one end somewhere else.                                      *)
LEMMA DraggedOnPaper ==
    ASSUME TypeOK, NEW o \in Obj, NEW p, NEW q \in Points
    PROVE  \A x \in Obj : [line EXCEPT ![o] = (@ \ {p}) \cup {q}][x] \subseteq Points
BY DEF TypeOK

LEMMA DragInv ==
    ASSUME IInv, NEW o \in Obj, NEW p, NEW q \in Points, o_grips_end(o, p, q)
    PROVE  IInv'
<1> DEFINE ln == [line EXCEPT ![o] = (@ \ {p}) \cup {q}]
           removed == s_conn_remove(conn_list, {o})
           cn == s_conn_update(removed, {o}, ln, objects)
<1>1. objects \subseteq Obj /\ \A x \in objects : ln[x] \subseteq Points
  BY DraggedOnPaper DEF IInv, TypeOK
<1>2. Good(removed, objects \ {o})
  BY RemoveGood DEF IInv
<1>3. Good(cn, objects)
  <2> HIDE DEF ln, removed
  <2> QED BY <1>1, <1>2, UpdateGood
<1>4. CompleteOn(cn, objects, ln)
  <2>1. CompleteOn(removed, objects \ {o}, line)
    BY <1>1, RemoveComplete DEF IInv
  <2>2. \A x \in objects \ {o} : x \in objects \ {o} /\ ln[x] = line[x]
    BY <1>1 DEF IInv, TypeOK
  <2> HIDE DEF ln, removed
  <2> QED BY <1>1, <2>1, <2>2, UpdateComplete
<1>5. Change(objects, ln, cn)
  BY DEF o_grips_end
<1> QED BY <1>1, <1>3, <1>4, <1>5, ChangeInv DEF IInv

LEMMA ExtendInv ==
    ASSUME IInv, NEW o \in Obj, NEW p, NEW q \in Points, o_extend_object(o, p, q)
    PROVE  IInv'
<1> DEFINE ln == [line EXCEPT ![o] = (@ \ {p}) \cup {q}]
           cn == s_conn_update(conn_list, {o}, ln, objects)
<1>1. objects \subseteq Obj /\ \A x \in objects : ln[x] \subseteq Points
  BY DraggedOnPaper DEF IInv, TypeOK
<1>2. Good(cn, objects)
  BY <1>1, UpdateGood DEF IInv
<1>3. CompleteOn(cn, objects, ln)
  <2>1. \A x \in objects \ {o} : x \in objects /\ ln[x] = line[x]
    BY <1>1 DEF IInv, TypeOK
  <2> HIDE DEF ln
  <2> QED BY <1>1, <2>1, UpdateComplete DEF IInv
<1>4. Change(objects, ln, cn)
  BY DEF o_extend_object
<1> QED BY <1>1, <1>2, <1>3, <1>4, ChangeInv DEF IInv

(* The second half of a move, from good lists of a page with more nets.     *)
LEMMA MoveEndInv ==
    ASSUME TypeOK, NEW S, NEW d, NEW page, NEW ln, NEW cn,
           page \subseteq Obj, \A o \in page : ln[o] \subseteq Points,
           Good(cn, page), CompleteOn(cn, page, ln), o_move_end(S, d, page, ln, cn)
    PROVE  IInv'
<1>1. PICK L \in StretchLists(IF netconn_rubberband THEN Ends(S, page, ln, cn) ELSE {}) :
        LET after   == [o \in Obj |-> MovedLine(o, S, L, ln, d)]
            stretched == {e[1] : e \in L}
            moved   == S \cup stretched
            gone    == {o \in stretched : o_move_zero_length(after[o])}
        IN  /\ \A o \in moved : after[o] \subseteq Points
            /\ Change(page \ gone, after,
                      s_conn_update(s_conn_remove(cn, moved), moved \ gone,
                                    after, page \ gone))
  BY DEF o_move_end
<1> DEFINE after   == [o \in Obj |-> MovedLine(o, S, L, ln, d)]
           stretched == {e[1] : e \in L}
           moved   == S \cup stretched
           gone    == {o \in stretched : o_move_zero_length(after[o])}
           left    == page \ gone
           removed == s_conn_remove(cn, moved)
           new     == s_conn_update(removed, moved \ gone, after, left)
<1>2. left \subseteq Obj /\ page \ moved \subseteq left
  OBVIOUS
<1>3. \A o \in left : after[o] \subseteq Points
  <2> SUFFICES ASSUME NEW o \in left, o \notin moved PROVE after[o] \subseteq Points
    BY <1>1
  <2>1. after[o] = ln[o]
    BY DEF MovedLine
  <2> QED BY <2>1
<1>4. Good(removed, page \ moved)
  BY RemoveGood
<1>5. Good(new, left)
  <2> HIDE DEF left, removed, after, moved, gone
  <2> QED BY <1>2, <1>3, <1>4, UpdateGood
<1>6. CompleteOn(new, left, after)
  <2>1. CompleteOn(removed, page \ moved, ln)
    BY RemoveComplete
  <2>2. \A o \in left \ (moved \ gone) : o \in page \ moved /\ after[o] = ln[o]
    <3> SUFFICES ASSUME NEW o \in page, o \notin moved PROVE after[o] = ln[o]
      OBVIOUS
    <3> QED BY DEF MovedLine
  <2> HIDE DEF left, removed, after, moved, gone
  <2> QED BY <1>2, <2>1, <2>2, UpdateComplete
<1>7. Change(left, after, new)
  BY <1>1
<1> HIDE DEF left, new, after
<1> QED BY <1>2, <1>3, <1>5, <1>6, <1>7, ChangeInv

LEMMA MoveInv ==
    ASSUME IInv, NEW S, NEW d, o_move(S, d)
    PROVE  IInv'
<1> DEFINE pairs == IF netconn_rubberband THEN PinPairs(S) ELSE {}
<1>1. PICK new \in [pairs -> (Nets \cap InNoSymbol) \ objects] :
        LET added == {new[oc] : oc \in pairs}
            ln    == [o \in Obj |->
                        IF o \in added THEN {oc[2].at : oc \in {oc \in pairs : new[oc] = o}}
                        ELSE line[o]]
        IN  o_move_end(S, d, objects \cup added, ln,
                       s_conn_update(conn_list, added, ln, objects \cup added))
  BY DEF o_move
<1> DEFINE added == {new[oc] : oc \in pairs}
           page  == objects \cup added
           ln    == [o \in Obj |->
                       IF o \in added THEN {oc[2].at : oc \in {oc \in pairs : new[oc] = o}}
                       ELSE line[o]]
           cn    == s_conn_update(conn_list, added, ln, page)
<1>2. page \subseteq Obj /\ objects \subseteq page
  BY DEF IInv, TypeOK, Obj
<1>3. \A oc \in pairs : oc[2].at \in Points
  <2>1. \A o \in Obj : \A c \in conn_list[o] : c.at \in Points
    BY DEF IInv, TypeOK, CONN
  <2> QED BY <2>1 DEF PinPairs, Obj
<1>4. \A o \in page : ln[o] \subseteq Points
  BY <1>2, <1>3 DEF IInv, TypeOK
<1>5. Good(cn, page)
  <2> HIDE DEF page, ln, added
  <2> QED BY <1>2, <1>4, UpdateGood DEF IInv
<1>6. CompleteOn(cn, page, ln)
  <2>1. \A o \in page \ added : o \in objects /\ ln[o] = line[o]
    BY <1>2
  <2> HIDE DEF page, ln, added
  <2> QED BY <1>2, <2>1, UpdateComplete DEF IInv
<1>7. o_move_end(S, d, page, ln, cn)
  BY <1>1
<1> HIDE DEF page, ln, cn
<1> QED BY <1>2, <1>4, <1>5, <1>6, <1>7, MoveEndInv DEF IInv

LEMMA ConsolidateInv ==
    ASSUME IInv, o_net_consolidate_segments
    PROVE  IInv'
<1>1. PICK nm \in Mergeable :
        LET n == nm[1]
            m == nm[2]
            page == objects \ {m}
            ln == [line EXCEPT ![n] = Outer(@ \cup line[m])]
            cn == s_conn_update(s_conn_remove(conn_list, {m}), {n}, ln, page)
        IN  /\ objects' = page /\ line' = OnPage(ln, page) /\ conn_list' = cn
            /\ net_num_connected' = Refresh(cn, page)
  BY DEF o_net_consolidate_segments
<1> DEFINE n == nm[1]
           m == nm[2]
           page == objects \ {m}
           ln == [line EXCEPT ![n] = Outer(@ \cup line[m])]
           removed == s_conn_remove(conn_list, {m})
           cn == s_conn_update(removed, {n}, ln, page)
<1>2. n \in objects /\ m \in objects /\ page \subseteq Obj
  BY DEF Mergeable, IInv, TypeOK
<1>3. \A o \in Obj : ln[o] \subseteq Points
  BY <1>2 DEF Outer, IInv, TypeOK
<1>4. Good(removed, page)
  BY RemoveGood DEF IInv
<1>5. Good(cn, page)
  BY <1>2, <1>3, <1>4, UpdateGood
<1>6. /\ objects' = page /\ line' = OnPage(ln, page) /\ conn_list' = cn
      /\ net_num_connected' = Refresh(cn, page) /\ UNCHANGED consolidating
  BY <1>1 DEF o_net_consolidate_segments
<1>7. Good(conn_list, objects)'
  BY <1>5, <1>6 DEF Good, Typed, Sym, Within
<1>8. OnPage(ln, page) \in [Obj -> SUBSET Points]
  <2>1. Nowhere \subseteq Points
    BY ConnectivityAssumption DEF Nowhere, Points
  <2> HIDE DEF ln
  <2> QED BY <1>3, <2>1 DEF OnPage
<1>9. TypeOK'
  BY <1>2, <1>5, <1>6, <1>8, RefreshTyped DEF IInv, TypeOK, Good, Typed
<1>10. CompleteOn(cn, page, ln)
  <2>1. CompleteOn(removed, objects \ {m}, line)
    BY RemoveComplete DEF IInv, TypeOK
  <2>2. \A x \in page \ {n} : x \in objects \ {m} /\ ln[x] = line[x]
    BY <1>2 DEF IInv, TypeOK
  <2> HIDE DEF ln, removed, page
  <2> QED BY <1>2, <2>1, <2>2, UpdateComplete
<1>11. CompleteOn(conn_list, objects, line)'
  <2> HIDE DEF ln, cn, page
  <2>1. CompleteOn(cn, page, OnPage(ln, page))
    BY <1>2, <1>10, OnPageComplete
  <2> QED BY <1>6, <2>1, CompletePrimed
<1> QED BY <1>7, <1>9, <1>11 DEF IInv

LEMMA NextInv == IInv /\ [Next]_vars => IInv'
<1> SUFFICES ASSUME IInv, [Next]_vars PROVE IInv'
  OBVIOUS
<1>1. CASE \E o \in Obj \ objects : \E at \in [PartsWith(o) -> Lines] :
             o_place_end(PartsWith(o), at)
  BY <1>1, PlaceInv
<1>2. CASE \E S \in SUBSET objects : o_delete_selected(S)
  BY <1>2, DeleteInv
<1>3. CASE \E S \in SUBSET objects, d \in Moves : o_move(S, d)
  BY <1>3, MoveInv
<1>4. CASE \E o \in Nets \cup Buses, p, q \in Points : o_grips_end(o, p, q)
  BY <1>4, DragInv DEF Obj
<1>5. CASE \E o \in Nets \cup Buses, p, q \in Points : o_extend_object(o, p, q)
  BY <1>5, ExtendInv DEF Obj
<1>6. CASE o_net_consolidate_segments
  BY <1>6, ConsolidateInv
<1>7. CASE o_net_consolidate_done \/ UNCHANGED vars
  <2>1. /\ objects' = objects /\ line' = line /\ conn_list' = conn_list
        /\ net_num_connected' = net_num_connected /\ consolidating' \in {consolidating, FALSE}
    BY <1>7 DEF o_net_consolidate_done, vars
  <2>2. TypeOK' /\ Good(conn_list, objects)'
    BY <2>1 DEF IInv, TypeOK, Good, Typed, Sym, Within
  <2>3. CompleteOn(conn_list', objects', line')
    BY <2>1 DEF IInv
  <2> QED BY <2>2, <2>3, CompletePrimed DEF IInv
<1> QED BY <1>1, <1>2, <1>3, <1>4, <1>5, <1>6, <1>7 DEF Next

LEMMA AlwaysInv == Spec => []IInv
<1>1. Init => IInv  BY InitInv
<1>2. IInv /\ [Next]_vars => IInv'  BY NextInv
<1> QED BY <1>1, <1>2, PTL DEF Spec

(* Every command leaves the page, the lines, the lists and the cached       *)
(* counts of their types.                                                   *)
THEOREM ConnectionsTyped == Spec => []TypeOK
<1>1. IInv => TypeOK  BY DEF IInv
<1> QED BY <1>1, AlwaysInv, PTL

(* Each of two connected objects has the other in its list.                 *)
THEOREM ConnectionsSymmetric == Spec => []Symmetric
<1>1. IInv => Symmetric
  BY DEF IInv, Good, Sym, Opp, Symmetric
<1> QED BY <1>1, AlwaysInv, PTL

(* No list names an object that was deleted, or merged into another.        *)
THEOREM NoDanglingConnections == Spec => []NoDangling
<1>1. IInv => NoDangling
  BY DEF IInv, Good, Within, NoDangling
<1> QED BY <1>1, AlwaysInv, PTL

(* Whatever the commands did to the page, what touches is in the lists.      *)
THEOREM ConnectionsComplete == Spec => []Complete
<1>1. IInv => Complete
  BY DEF IInv, CompleteOn, Complete
<1> QED BY <1>1, AlwaysInv, PTL

-----------------------------------------------------------------------------
(* The cached counts.  Reach is what a search finds in as many rounds as    *)
(* there are nets: Round(S, cn)[k] is what is found in k of them.  None of  *)
(* the library's induction theorems can be used, so that the four           *)
(* inductions below argue from the least number for which a claim fails.    *)

(* A set of numbers that is not empty has a least one.                      *)
LEMMA LeastNumber ==
    ASSUME NEW T, T \subseteq Nat, T # {}
    PROVE  \E m \in T : \A k \in T : m <= k
<1>1. PICK m \in T : \A k \in T : ~ (<<k, m>> \in OpToRel(<, Nat))
  BY NatLessThanWellFounded, WFMin
<1>2. \A k \in T : ~ (k < m)
  BY <1>1 DEF OpToRel
<1> QED BY <1>2

(* The nets that are one connection away from those of T.                   *)
Ahead(T, cn) == {c.other_object : c \in UNION {cn[n] : n \in T}} \cap Nets

(* f[k] is what is found from S in k rounds, for all k up to m.             *)
Searches(f, m, S, cn) ==
    f = [k \in 0..m |-> IF k = 0 THEN S ELSE f[k - 1] \cup Ahead(f[k - 1], cn)]

LEMMA SearchSteps ==
    ASSUME NEW f, NEW n \in Nat, NEW S, NEW cn, Searches(f, n, S, cn)
    PROVE  /\ f[0] = S
           /\ \A k \in 1..n : f[k] = f[k - 1] \cup Ahead(f[k - 1], cn)
<1> DEFINE e(k) == IF k = 0 THEN S ELSE f[k - 1] \cup Ahead(f[k - 1], cn)
<1>1. f = [k \in 0..n |-> e(k)]
  BY DEF Searches
<1>2. \A k \in 0..n : f[k] = e(k)
  BY <1>1
<1>3. f[0] = S
  <2>1. 0 \in 0..n
    OBVIOUS
  <2> QED BY <1>2, <2>1
<1>4. ASSUME NEW k \in 1..n PROVE f[k] = f[k - 1] \cup Ahead(f[k - 1], cn)
  <2>1. k \in 0..n /\ k # 0
    OBVIOUS
  <2> QED BY <1>2, <2>1
<1> QED BY <1>3, <1>4

LEMMA SearchExists ==
    ASSUME NEW S, NEW cn, NEW n \in Nat
    PROVE  \E f : Searches(f, n, S, cn)
<1> DEFINE T == {i \in Nat : ~ \E f : Searches(f, i, S, cn)}
<1>1. SUFFICES ASSUME T # {} PROVE FALSE
  OBVIOUS
<1>2. PICK m \in T : \A k \in T : m <= k
  BY <1>1, LeastNumber
<1>3. CASE m = 0
  <2> DEFINE f == [k \in 0..0 |-> S]
  <2>1. f = [k \in 0..0 |-> IF k = 0 THEN S ELSE f[k - 1] \cup Ahead(f[k - 1], cn)]
    OBVIOUS
  <2> HIDE DEF f
  <2>2. Searches(f, 0, S, cn)
    BY <2>1 DEF Searches
  <2> QED BY <1>2, <1>3, <2>2
<1>4. CASE m # 0
  <2>1. m - 1 \in Nat /\ m - 1 \notin T
    BY <1>2, <1>4
  <2>2. PICK g : Searches(g, m - 1, S, cn)
    BY <2>1
  <2>3. /\ g[0] = S
        /\ \A k \in 1..(m - 1) : g[k] = g[k - 1] \cup Ahead(g[k - 1], cn)
    BY <2>1, <2>2, SearchSteps
  <2> DEFINE f == [k \in 0..m |-> IF k = m THEN g[m - 1] \cup Ahead(g[m - 1], cn) ELSE g[k]]
  <2>4. \A k \in 0..m : f[k] = IF k = 0 THEN S ELSE f[k - 1] \cup Ahead(f[k - 1], cn)
    <3> SUFFICES ASSUME NEW k \in 0..m
                 PROVE  f[k] = IF k = 0 THEN S ELSE f[k - 1] \cup Ahead(f[k - 1], cn)
      OBVIOUS
    <3>1. CASE k = 0
      BY <1>4, <2>3, <3>1
    <3>2. CASE k # 0
      <4>1. f[k - 1] = g[k - 1]
        BY <3>2
      <4>2. f[k] = g[k - 1] \cup Ahead(g[k - 1], cn)
        BY <2>3, <3>2
      <4> QED BY <3>2, <4>1, <4>2
    <3> QED BY <3>1, <3>2
  <2>5. f = [k \in 0..m |-> f[k]]
    OBVIOUS
  <2> HIDE DEF f
  <2>6. f = [k \in 0..m |-> IF k = 0 THEN S ELSE f[k - 1] \cup Ahead(f[k - 1], cn)]
    BY <2>4, <2>5
  <2>7. Searches(f, m, S, cn)
    BY <2>6 DEF Searches
  <2> QED BY <1>2, <2>7
<1> QED BY <1>3, <1>4

LEMMA ReachSearches ==
    ASSUME NEW S, NEW cn
    PROVE  \E f : /\ Searches(f, Cardinality(Nets), S, cn)
                  /\ Reach(S, cn) = f[Cardinality(Nets)]
<1> DEFINE N == Cardinality(Nets)
           f == CHOOSE f : Searches(f, N, S, cn)
<1>1. N \in Nat
  <2>1. IsFiniteSet(Nets)
    BY FS_Subset, ConnectivityAssumption DEF Obj
  <2> QED BY <2>1, FS_CardinalityType
<1>2. Searches(f, N, S, cn)
  <2>1. \E g : Searches(g, N, S, cn)
    BY <1>1, SearchExists
  <2> QED BY <2>1
<1>3. Reach(S, cn) = f[N]
  BY DEF Reach, Searches, Ahead
<1> QED BY <1>2, <1>3

LEMMA AheadGrows ==
    ASSUME NEW A, NEW B, NEW cn, A \subseteq B
    PROVE  Ahead(A, cn) \subseteq Ahead(B, cn)
BY DEF Ahead

(* More rounds find no less.                                                *)
LEMMA SearchGrows ==
    ASSUME NEW f, NEW n \in Nat, NEW S, NEW cn, Searches(f, n, S, cn), NEW j \in 0..n
    PROVE  f[j] \subseteq f[n]
<1> DEFINE T == {i \in Nat : j <= i /\ i <= n /\ ~ f[j] \subseteq f[i]}
<1>1. SUFFICES ASSUME T # {} PROVE FALSE
  <2>1. n \notin T => f[j] \subseteq f[n]
    OBVIOUS
  <2> QED BY <1>1, <2>1
<1>2. PICK m \in T : \A k \in T : m <= k
  BY <1>1, LeastNumber
<1>3. m # j /\ m \in 1..n /\ m - 1 \in Nat /\ m - 1 \notin T
  <2>1. m # j
    BY <1>2
  <2> QED BY <1>2, <2>1
<1>4. f[j] \subseteq f[m - 1]
  BY <1>2, <1>3
<1>5. f[m - 1] \subseteq f[m]
  BY <1>3, SearchSteps
<1> QED BY <1>2, <1>4, <1>5

(* A search that starts j rounds later from less never gets ahead.          *)
LEMMA SearchBehind ==
    ASSUME NEW f, NEW g, NEW n \in Nat, NEW S, NEW T, NEW cn, NEW j \in {0, 1},
           Searches(f, n, S, cn), Searches(g, n, T, cn), j <= n, T \subseteq f[j]
    PROVE  \A k \in 0..(n - j) : g[k] \subseteq f[k + j]
<1> DEFINE Bad == {i \in Nat : i <= n - j /\ ~ g[i] \subseteq f[i + j]}
<1>1. SUFFICES ASSUME Bad # {} PROVE FALSE
  <2>1. \A k \in 0..(n - j) : k \in Nat /\ k <= n - j
    OBVIOUS
  <2> QED BY <1>1, <2>1
<1>2. PICK m \in Bad : \A k \in Bad : m <= k
  BY <1>1, LeastNumber
<1>3. m # 0
  <2>1. g[0] = T
    BY SearchSteps
  <2> QED BY <1>2, <2>1
<1>4. /\ m - 1 \in Nat /\ m - 1 \notin Bad /\ m \in 1..n /\ m + j \in 1..n
      /\ (m + j) - 1 = (m - 1) + j
  BY <1>2, <1>3
<1>5. g[m - 1] \subseteq f[(m - 1) + j]
  BY <1>2, <1>4
<1>6. /\ g[m] = g[m - 1] \cup Ahead(g[m - 1], cn)
      /\ f[m + j] = f[(m - 1) + j] \cup Ahead(f[(m - 1) + j], cn)
  BY <1>4, SearchSteps
<1>7. g[m] \subseteq f[m + j]
  BY <1>5, <1>6, AheadGrows
<1> QED BY <1>2, <1>7

(* What is found from a net finds that net in as many rounds.               *)
LEMMA SearchBack ==
    ASSUME NEW cn, Sym(cn), NEW o \in Nets, NEW f, NEW n \in Nat, Searches(f, n, {o}, cn)
    PROVE  \A k \in 0..n : \A x \in f[k] :
             /\ x \in Nets
             /\ \A g : Searches(g, n, {x}, cn) => o \in g[k]
<1> DEFINE Back(k) == \A x \in f[k] : /\ x \in Nets
                                      /\ \A g : Searches(g, n, {x}, cn) => o \in g[k]
           Bad == {i \in Nat : i <= n /\ ~ Back(i)}
<1>1. SUFFICES ASSUME Bad # {} PROVE FALSE
  <2>1. \A k \in 0..n : k \in Nat /\ k <= n
    OBVIOUS
  <2> HIDE DEF Back
  <2>2. \A k \in 0..n : Back(k)
    BY <1>1, <2>1
  <2> QED BY <2>2 DEF Back
<1>2. PICK m \in Bad : \A k \in Bad : m <= k
  BY <1>1, LeastNumber
<1>3. m # 0
  <2>1. SUFFICES ASSUME m = 0 PROVE Back(0)
    BY <1>2
  <2>2. f[0] = {o}
    BY SearchSteps
  <2>3. \A g : Searches(g, n, {o}, cn) => g[0] = {o}
    BY SearchSteps
  <2> QED BY <2>2, <2>3
<1>4. m - 1 \in Nat /\ m - 1 \notin Bad /\ m - 1 \in 0..(n - 1) /\ m \in 1..n
  BY <1>2, <1>3
<1>5. Back(m - 1)
  <2> HIDE DEF Back
  <2> QED BY <1>4
<1>6. ASSUME NEW x \in f[m]
      PROVE  x \in Nets /\ \A g : Searches(g, n, {x}, cn) => o \in g[m]
  <2>1. f[m] = f[m - 1] \cup Ahead(f[m - 1], cn)
    BY <1>4, SearchSteps
  <2>2. CASE x \in f[m - 1]
    <3> SUFFICES ASSUME NEW g, Searches(g, n, {x}, cn) PROVE o \in g[m]
      BY <1>5, <2>2
    <3>1. o \in g[m - 1]
      BY <1>5, <2>2
    <3>2. g[m] = g[m - 1] \cup Ahead(g[m - 1], cn)
      BY <1>4, SearchSteps
    <3> QED BY <3>1, <3>2
  <2>3. CASE x \in Ahead(f[m - 1], cn)
    <3>1. PICK y \in f[m - 1] : \E c \in cn[y] : c.other_object = x
      BY <2>3 DEF Ahead
    <3>2. PICK c \in cn[y] : c.other_object = x
      BY <3>1
    <3>3. x \in Nets /\ y \in Nets
      BY <1>5, <2>3 DEF Ahead
    <3>4. Opp(y, c) \in cn[x] /\ Opp(y, c).other_object = y
      BY <3>2, <3>3 DEF Sym, Opp, Obj
    <3>5. y \in Ahead({x}, cn)
      BY <3>3, <3>4 DEF Ahead
    <3> SUFFICES ASSUME NEW g, Searches(g, n, {x}, cn) PROVE o \in g[m]
      BY <3>3
    <3>6. PICK h : Searches(h, n, {y}, cn)
      BY SearchExists
    <3>7. o \in h[m - 1]
      BY <1>5, <3>6
    <3>8. g[0] = {x} /\ g[1] = g[0] \cup Ahead(g[0], cn)
      <4>1. 1 \in 1..n /\ 1 - 1 = 0
        BY <1>4
      <4> QED BY <4>1, SearchSteps
    <3>9. {y} \subseteq g[1]
      BY <3>5, <3>8
    <3>10. h[m - 1] \subseteq g[(m - 1) + 1]
      BY <1>4, <3>6, <3>9, SearchBehind
    <3> QED BY <1>4, <3>7, <3>10
  <2> QED BY <2>1, <2>2, <2>3
<1>7. Back(m)
  BY <1>6
<1> QED BY <1>2, <1>7

LEMMA RoundsNat == Cardinality(Nets) \in Nat
<1>1. IsFiniteSet(Nets)
  BY FS_Subset, ConnectivityAssumption DEF Obj
<1> QED BY <1>1, FS_CardinalityType

(* From a net that no net of Told leads to, a search finds what it found    *)
(* when only the lists of the nets Told were others.                        *)
LEMMA SameSearch ==
    ASSUME NEW cn, NEW old, NEW page, NEW Told, Good(cn, page),
           \A y \in (Nets \cap page) \ Told : cn[y] = old[y],
           NEW o \in Nets \cap page, o \notin Reach(Told, cn)
    PROVE  /\ Reach({o}, cn) = Reach({o}, old)
           /\ Reach({o}, cn) \subseteq (Nets \cap page) \ Told
<1> DEFINE N == Cardinality(Nets)
<1>1. PICK h : Searches(h, N, Told, cn) /\ Reach(Told, cn) = h[N]
  BY ReachSearches
<1>2. PICK f : Searches(f, N, {o}, cn) /\ Reach({o}, cn) = f[N]
  BY ReachSearches
<1>3. PICK g : Searches(g, N, {o}, old) /\ Reach({o}, old) = g[N]
  BY ReachSearches
<1>4. N \in Nat
  BY RoundsNat
<1> HIDE DEF N
<1>5. ASSUME NEW k \in 0..N, NEW x \in f[k] PROVE x \notin Told
  <2>1. SUFFICES ASSUME x \in Told PROVE FALSE
    OBVIOUS
  <2>2. PICK b : Searches(b, N, {x}, cn)
    BY <1>4, SearchExists
  <2>3. o \in b[k]
    BY <1>2, <1>4, <2>2, SearchBack DEF Good
  <2>4. b[k] \subseteq h[k]
    <3>1. h[0] = Told
      BY <1>1, <1>4, SearchSteps
    <3>2. {x} \subseteq h[0] /\ 0 \in {0, 1} /\ 0 <= N /\ k \in 0..(N - 0) /\ k + 0 = k
      BY <1>4, <2>1, <3>1
    <3> QED BY <1>1, <1>4, <2>2, <3>2, SearchBehind
  <2>5. h[k] \subseteq h[N]
    BY <1>1, <1>4, SearchGrows
  <2> QED BY <1>1, <2>3, <2>4, <2>5
<1> DEFINE Same(k) == f[k] = g[k] /\ f[k] \subseteq Nets \cap page
           Bad == {i \in Nat : i <= N /\ ~ Same(i)}
<1>6. SUFFICES ASSUME Bad # {} PROVE FALSE
  <2>1. N \notin Bad => Same(N)
    BY <1>4
  <2>2. N \in 0..N
    BY <1>4
  <2> QED BY <1>2, <1>3, <1>5, <1>6, <2>1, <2>2
<1>7. PICK m \in Bad : \A k \in Bad : m <= k
  BY <1>6, LeastNumber
<1>8. m # 0
  <2>1. f[0] = {o} /\ g[0] = {o}
    BY <1>2, <1>3, <1>4, SearchSteps
  <2> QED BY <1>7, <2>1
<1>9. m - 1 \in Nat /\ m - 1 \notin Bad /\ m - 1 \in 0..N /\ m \in 1..N
  BY <1>4, <1>7, <1>8
<1>10. Same(m - 1)
  <2> HIDE DEF Same
  <2> QED BY <1>4, <1>9
<1>11. \A y \in f[m - 1] : cn[y] = old[y]
  BY <1>5, <1>9, <1>10
<1>12. Ahead(f[m - 1], cn) = Ahead(g[m - 1], old)
  BY <1>10, <1>11 DEF Ahead
<1>13. Ahead(f[m - 1], cn) \subseteq Nets \cap page
  <2>1. \A y \in f[m - 1] : \A c \in cn[y] : c.other_object \in page
    BY <1>10 DEF Good, Within, Obj
  <2> QED BY <2>1 DEF Ahead
<1>14. /\ f[m] = f[m - 1] \cup Ahead(f[m - 1], cn)
       /\ g[m] = g[m - 1] \cup Ahead(g[m - 1], old)
  BY <1>2, <1>3, <1>4, <1>9, SearchSteps
<1>15. Same(m)
  BY <1>10, <1>12, <1>13, <1>14
<1> QED BY <1>7, <1>15

(* Counts that were those a search would find with the lists old are so     *)
(* with the lists cn, when Told are the nets of page that cn has others of. *)
LEMMA CountsStay ==
    ASSUME NEW cn, NEW old, NEW page, NEW Told, Good(cn, page),
           \A y \in (Nets \cap page) \ Told : cn[y] = old[y],
           NEW o \in Nets \cap page, o \notin Reach(Told, cn)
    PROVE  Count(Reach({o}, cn), cn) = Count(Reach({o}, old), old)
<1>1. /\ Reach({o}, cn) = Reach({o}, old)
      /\ Reach({o}, cn) \subseteq (Nets \cap page) \ Told
  BY SameSearch
<1>2. \A n \in Reach({o}, cn) : cn[n] = old[n]
  BY <1>1
<1> QED BY <1>1, <1>2 DEF Count

(* An object off the page has no count: the one it gets when it comes to    *)
(* the page is from a search.                                               *)
Fresh(count, cn, page) ==
    /\ \A o \in Obj \ page : count[o] = NULL
    /\ \A n \in Nets \cap page :
         count[n] # NULL => count[n] = Count(Reach({n}, cn), cn)

LEMMA RefreshFresh ==
    ASSUME NEW cn, NEW page, Good(cn, page), Fresh(net_num_connected, conn_list, objects)
    PROVE  Fresh(Refresh(cn, page), cn, page)
<1> DEFINE Told == {n \in Nets \cap page : cn[n] # conn_list[n]}
           new == Refresh(cn, page)
<1>1. \A o \in Obj : new[o] = IF o \notin page THEN NULL
                              ELSE IF o \in Reach(Told, cn) THEN Count(Reach({o}, cn), cn)
                              ELSE net_num_connected[o]
  BY DEF Refresh
<1>2. ASSUME NEW n \in Nets \cap page, new[n] # NULL
      PROVE  new[n] = Count(Reach({n}, cn), cn)
  <2>1. n \in Obj
    BY DEF Obj
  <2>2. CASE n \in Reach(Told, cn)
    BY <1>1, <2>1, <2>2
  <2>3. CASE n \notin Reach(Told, cn)
    <3>1. new[n] = net_num_connected[n]
      BY <1>1, <2>1, <2>3
    <3>2. n \in objects
      BY <1>2, <2>1, <3>1 DEF Fresh
    <3>3. net_num_connected[n] = Count(Reach({n}, conn_list), conn_list)
      BY <1>2, <3>1, <3>2 DEF Fresh
    <3>4. \A y \in (Nets \cap page) \ Told : cn[y] = conn_list[y]
      OBVIOUS
    <3> HIDE DEF Told, new
    <3>5. Count(Reach({n}, cn), cn) = Count(Reach({n}, conn_list), conn_list)
      BY <2>3, <3>4, CountsStay
    <3> QED BY <3>1, <3>3, <3>5
  <2> QED BY <2>2, <2>3
<1> QED BY <1>1, <1>2 DEF Fresh

(* Every command that changes the lists lets the hooks run on the result.   *)
Hooked == net_num_connected' = Refresh(conn_list', objects')

LEMMA EveryStepHooked ==
    ASSUME Next
    PROVE  Hooked \/ UNCHANGED <<objects, conn_list, net_num_connected>>
<1>1. ASSUME NEW page, NEW ln, NEW cn, Change(page, ln, cn) PROVE Hooked
  BY <1>1 DEF Change, Hooked
<1>2. CASE \E o \in Obj \ objects : \E at \in [PartsWith(o) -> Lines] :
             o_place_end(PartsWith(o), at)
  BY <1>1, <1>2 DEF o_place_end
<1>3. CASE \E S \in SUBSET objects : o_delete_selected(S)
  BY <1>1, <1>3 DEF o_delete_selected
<1>4. CASE \E S \in SUBSET objects, d \in Moves : o_move(S, d)
  <2>1. PICK S \in SUBSET objects, d \in Moves : o_move(S, d)
    BY <1>4
  <2>2. PICK page, ln, cn : o_move_end(S, d, page, ln, cn)
    BY <2>1 DEF o_move
  <2> QED BY <1>1, <2>2 DEF o_move_end
<1>5. CASE \E o \in Nets \cup Buses, p, q \in Points : o_grips_end(o, p, q)
  BY <1>1, <1>5 DEF o_grips_end
<1>6. CASE \E o \in Nets \cup Buses, p, q \in Points : o_extend_object(o, p, q)
  BY <1>1, <1>6 DEF o_extend_object
<1>7. CASE o_net_consolidate_segments
  BY <1>7 DEF o_net_consolidate_segments, Hooked
<1>8. CASE o_net_consolidate_done
  BY <1>8 DEF o_net_consolidate_done
<1> QED BY <1>2, <1>3, <1>4, <1>5, <1>6, <1>7, <1>8 DEF Next

LEMMA FreshPrimed ==
    ASSUME Fresh(net_num_connected', conn_list', objects')
    PROVE  Fresh(net_num_connected, conn_list, objects)'
BY DEF Fresh, Count, Reach

LEMMA FreshInv ==
    IInv' /\ Fresh(net_num_connected, conn_list, objects) /\ [Next]_vars
    => Fresh(net_num_connected, conn_list, objects)'
<1> SUFFICES ASSUME IInv', Fresh(net_num_connected, conn_list, objects), [Next]_vars
             PROVE  Fresh(net_num_connected', conn_list', objects')
  BY FreshPrimed
<1>1. CASE Hooked
  <2>1. Good(conn_list', objects')
    BY DEF IInv, Good, Typed, Sym, Within
  <2> QED BY <1>1, <2>1, RefreshFresh DEF Hooked
<1>2. CASE UNCHANGED <<objects, conn_list, net_num_connected>>
  BY <1>2
<1> QED BY <1>1, <1>2, EveryStepHooked DEF vars

(* A count that is kept is the one a new search would find: the nets whose  *)
(* count a change can make stale are all reached from those whose list it   *)
(* changed, where the hooks search again.                                   *)
THEOREM CountsFresh == Spec => []CacheFresh
<1>1. Init => Fresh(net_num_connected, conn_list, objects)
  BY DEF Init, Fresh
<1>2. Fresh(net_num_connected, conn_list, objects) => CacheFresh
  BY DEF Fresh, CacheFresh
<1> QED BY <1>1, <1>2, FreshInv, AlwaysInv, PTL DEF Spec

-----------------------------------------------------------------------------
(* The lines.  A pin has one point and a net or bus two, and what is        *)
(* connected is connected somewhere along its line: an object that was      *)
(* drawn out keeps its connections, so that they need not be at an end.     *)
Sound(o, l) ==
    IF o \in Pins THEN \E p \in Points : l = {p}
    ELSE \E p, q \in Points : p # q /\ l = {p, q}
Along(l) == l \cup Middle(l)
AllSound(page, ln) == \A o \in page : Sound(o, ln[o])
AllAlong(cn, page, ln) == \A o \in page : \A c \in cn[o] : c.at \in Along(ln[o])

LEMMA PointsNat ==
    /\ Points \subseteq Nat \X Nat
    /\ \A p, q \in Points : p[1] = q[1] /\ p[2] = q[2] => p = q
BY ConnectivityAssumption DEF Points

LEMMA TwoPoints ==
    ASSUME NEW p, NEW q
    PROVE  Cardinality({p, q}) = IF p = q THEN 1 ELSE 2
<1>1. IsFiniteSet({p}) /\ Cardinality({p}) = 1
  BY FS_Singleton
<1>2. {p, q} = {p} \cup {q}
  OBVIOUS
<1>3. Cardinality({p} \cup {q}) = IF q \in {p} THEN Cardinality({p}) ELSE Cardinality({p}) + 1
  BY <1>1, FS_AddElement
<1> QED BY <1>1, <1>2, <1>3

LEMMA SoundCounts ==
    ASSUME NEW o \in Obj, NEW l \in SUBSET Points, Sound(o, l)
    PROVE  Cardinality(l) = IF o \in Pins THEN 1 ELSE 2
<1>1. CASE o \in Pins
  BY <1>1, FS_Singleton DEF Sound
<1>2. CASE o \notin Pins
  <2>1. PICK p, q \in Points : p # q /\ l = {p, q}
    BY <1>2 DEF Sound
  <2>2. Cardinality({p, q}) = 2
    BY <2>1, TwoPoints
  <2> QED BY <1>2, <2>1, <2>2
<1> QED BY <1>1, <1>2

LEMMA CountsSound ==
    ASSUME NEW o \in Obj, NEW l \in Lines, Cardinality(l) = IF o \in Pins THEN 1 ELSE 2
    PROVE  Sound(o, l)
<1>1. PICK p, q \in Points : l = {p, q}
  BY DEF Lines
<1>2. Cardinality(l) = IF p = q THEN 1 ELSE 2
  BY <1>1, TwoPoints
<1>3. o \in Pins <=> p = q
  BY <1>2
<1> QED BY <1>1, <1>3 DEF Sound

(* What is touched is along the own line.                                   *)
LEMMA TouchAlong ==
    ASSUME NEW o, NEW p, NEW ln, NEW c \in Touch(o, p, ln)
    PROVE  c.at \in Along(ln[o])
BY DEF Touch, Conns, Along

LEMMA RemoveAlong ==
    ASSUME NEW cn, NEW page, NEW S, NEW ln, page \subseteq Obj, AllAlong(cn, page, ln)
    PROVE  AllAlong(s_conn_remove(cn, S), page \ S, ln)
BY DEF AllAlong, s_conn_remove

LEMMA UpdateAlong ==
    ASSUME NEW cn, NEW page, NEW page0, NEW S, NEW ln, NEW ln0, page \subseteq Obj,
           Within(cn, page0), AllAlong(cn, page0, ln0),
           \A o \in page \cap page0 : Along(ln0[o]) \subseteq Along(ln[o])
    PROVE  AllAlong(s_conn_update(cn, S, ln, page), page, ln)
<1> SUFFICES ASSUME NEW o \in page, NEW c \in s_conn_update(cn, S, ln, page)[o]
             PROVE  c.at \in Along(ln[o])
  BY DEF AllAlong
<1>1. CASE c \in cn[o]
  BY <1>1 DEF Within, AllAlong
<1>2. CASE c \notin cn[o]
  <2>1. PICK p \in page : c \in Touch(o, p, ln)
    BY <1>2 DEF s_conn_update
  <2> QED BY <2>1, TouchAlong
<1> QED BY <1>1, <1>2

(* The inductive invariant, on top of the one above.                        *)
LInv == AllSound(objects, line) /\ AllAlong(conn_list, objects, line)

LEMMA LInvPrimed ==
    ASSUME AllSound(objects', line'), AllAlong(conn_list', objects', line')
    PROVE  LInv'
BY DEF LInv, AllSound, AllAlong, Along, Middle, Sound

LEMMA OnPageLines ==
    ASSUME NEW page, NEW ln, NEW cn, page \subseteq Obj,
           AllSound(page, ln), AllAlong(cn, page, ln)
    PROVE  AllSound(page, OnPage(ln, page)) /\ AllAlong(cn, page, OnPage(ln, page))
<1>1. \A o \in page : OnPage(ln, page)[o] = ln[o]
  BY DEF OnPage
<1> QED BY <1>1 DEF AllSound, AllAlong

LEMMA ChangeLines ==
    ASSUME NEW page, NEW ln, NEW cn, page \subseteq Obj,
           AllSound(page, ln), AllAlong(cn, page, ln), Change(page, ln, cn)
    PROVE  LInv'
<1>1. AllSound(page, OnPage(ln, page)) /\ AllAlong(cn, page, OnPage(ln, page))
  BY OnPageLines
<1> QED BY <1>1, LInvPrimed DEF Change

LEMMA PlaceLines ==
    ASSUME IInv, LInv, NEW o \in Obj, NEW at \in [PartsWith(o) -> Lines],
           o_place_end(PartsWith(o), at)
    PROVE  LInv'
<1> DEFINE S == PartsWith(o)
           ln == [x \in Obj |-> IF x \in S THEN at[x] ELSE line[x]]
           page == objects \cup S
           cn == s_conn_update(conn_list, S, ln, page)
<1>1. S \subseteq Obj /\ page \subseteq Obj /\ S \cap objects = {}
  BY DEF PartsWith, IInv, TypeOK, o_place_end
<1>2. AllSound(page, ln)
  <2>1. ASSUME NEW x \in S PROVE Sound(x, at[x])
    <3>1. x \in Obj /\ at[x] \in Lines
      BY <1>1
    <3>2. Cardinality(at[x]) = IF x \in Pins THEN 1 ELSE 2
      BY <2>1 DEF o_place_end
    <3> QED BY <3>1, <3>2, CountsSound
  <2>2. ASSUME NEW x \in page PROVE Sound(x, ln[x])
    <3>1. CASE x \in S
      BY <1>1, <2>1, <3>1
    <3>2. CASE x \notin S
      BY <1>1, <3>2 DEF LInv, AllSound
    <3> QED BY <3>1, <3>2
  <2> QED BY <2>2 DEF AllSound
<1>3. AllAlong(cn, page, ln)
  <2>1. \A x \in page \cap objects : Along(line[x]) \subseteq Along(ln[x])
    BY <1>1
  <2>2. Within(conn_list, objects) /\ AllAlong(conn_list, objects, line)
    BY DEF IInv, Good, LInv
  <2> HIDE DEF page, ln, S
  <2> QED BY <1>1, <2>1, <2>2, UpdateAlong
<1>4. Change(page, ln, cn)
  BY DEF o_place_end
<1> QED BY <1>1, <1>2, <1>3, <1>4, ChangeLines

LEMMA DeleteLines ==
    ASSUME IInv, LInv, NEW S, o_delete_selected(S)
    PROVE  LInv'
<1>1. AllAlong(s_conn_remove(conn_list, S), objects \ S, line)
  BY RemoveAlong DEF IInv, TypeOK, LInv
<1>2. AllSound(objects \ S, line) /\ objects \ S \subseteq Obj
  BY DEF IInv, TypeOK, LInv, AllSound
<1> QED BY <1>1, <1>2, ChangeLines DEF o_delete_selected

(* The other end of a line.                                                 *)
LEMMA OtherEnd ==
    ASSUME IInv, LInv, NEW o \in objects, o \notin Pins, NEW p \in line[o]
    PROVE  \E r \in Points : p \in Points /\ r # p /\ line[o] = {p, r} /\ line[o] \ {p} = {r}
BY DEF LInv, AllSound, Sound

LEMMA DragLines ==
    ASSUME IInv, LInv, NEW o \in Obj, NEW p, NEW q \in Points, o_grips_end(o, p, q)
    PROVE  LInv'
<1> DEFINE ln == [line EXCEPT ![o] = (@ \ {p}) \cup {q}]
           removed == s_conn_remove(conn_list, {o})
           cn == s_conn_update(removed, {o}, ln, objects)
<1>1. o \in objects /\ o \notin Pins /\ p \in line[o] /\ line[o] \ {p} # {q}
  BY DEF o_grips_end
<1>2. objects \subseteq Obj /\ \A x \in objects : ln[x] = IF x = o THEN (line[o] \ {p}) \cup {q}
                                                         ELSE line[x]
  BY DEF IInv, TypeOK
<1>3. Sound(o, (line[o] \ {p}) \cup {q})
  <2>1. PICK r \in Points : line[o] \ {p} = {r}
    BY <1>1, OtherEnd
  <2>2. r # q /\ (line[o] \ {p}) \cup {q} = {r, q}
    BY <1>1, <2>1
  <2> QED BY <1>1, <2>2 DEF Sound
<1> HIDE DEF ln
<1>4. AllSound(objects, ln)
  BY <1>2, <1>3 DEF LInv, AllSound
<1>5. AllAlong(cn, objects, ln)
  <2>1. AllAlong(removed, objects \ {o}, line)
    BY <1>2, RemoveAlong DEF LInv
  <2>2. Within(removed, objects \ {o})
    BY RemoveGood DEF IInv, Good
  <2>3. \A x \in objects \cap (objects \ {o}) : Along(line[x]) \subseteq Along(ln[x])
    BY <1>2
  <2> HIDE DEF removed
  <2> QED BY <1>2, <2>1, <2>2, <2>3, UpdateAlong
<1>6. Change(objects, ln, cn)
  BY DEF o_grips_end, ln
<1> QED BY <1>2, <1>4, <1>5, <1>6, ChangeLines

(* A line that is drawn out past its end p goes on along all it went along. *)
LEMMA DrawnOut ==
    ASSUME NEW p \in Points, NEW q \in Points, NEW r \in Points, p \in Middle({q, r})
    PROVE  q # r /\ Along({p, r}) \subseteq Along({q, r})
<1>1. /\ p[1] \in Nat /\ p[2] \in Nat /\ q[1] \in Nat /\ q[2] \in Nat
      /\ r[1] \in Nat /\ r[2] \in Nat
  BY PointsNat
<1>2. \/ q[1] = p[1] /\ r[1] = p[1] /\ (Between(q[2], r[2], p[2]) \/ Between(r[2], q[2], p[2]))
      \/ q[2] = p[2] /\ r[2] = p[2] /\ (Between(q[1], r[1], p[1]) \/ Between(r[1], q[1], p[1]))
  BY <1>1 DEF Middle, Between
<1>3. q # r
  BY <1>1, <1>2 DEF Between
<1>4. ASSUME NEW x \in Middle({p, r}) PROVE x \in Middle({q, r})
  <2>1. x \in Points /\ x[1] \in Nat /\ x[2] \in Nat
    BY PointsNat DEF Middle
  <2>2. \/ p[1] = x[1] /\ r[1] = x[1] /\ (Between(p[2], r[2], x[2]) \/ Between(r[2], p[2], x[2]))
        \/ p[2] = x[2] /\ r[2] = x[2] /\ (Between(p[1], r[1], x[1]) \/ Between(r[1], p[1], x[1]))
    BY <1>1, <1>4, <2>1 DEF Middle, Between
  <2>3. \/ q[1] = x[1] /\ r[1] = x[1] /\ Between(q[2], r[2], x[2])
        \/ q[2] = x[2] /\ r[2] = x[2] /\ Between(q[1], r[1], x[1])
    BY <1>1, <1>2, <2>1, <2>2 DEF Between
  <2> QED BY <2>1, <2>3 DEF Middle
<1> QED BY <1>3, <1>4 DEF Along

LEMMA ExtendLines ==
    ASSUME IInv, LInv, NEW o \in Obj, NEW p, NEW q \in Points, o_extend_object(o, p, q)
    PROVE  LInv'
<1> DEFINE ln == [line EXCEPT ![o] = (@ \ {p}) \cup {q}]
           cn == s_conn_update(conn_list, {o}, ln, objects)
<1>1. /\ o \in objects /\ o \notin Pins /\ p \in line[o]
      /\ p \in Middle({q} \cup (line[o] \ {p}))
  BY DEF o_extend_object
<1>2. objects \subseteq Obj /\ \A x \in objects : ln[x] = IF x = o THEN (line[o] \ {p}) \cup {q}
                                                         ELSE line[x]
  BY DEF IInv, TypeOK
<1>3. PICK r \in Points : p \in Points /\ line[o] = {p, r} /\ line[o] \ {p} = {r}
  BY <1>1, OtherEnd
<1>4. /\ (line[o] \ {p}) \cup {q} = {q, r}
      /\ {q} \cup (line[o] \ {p}) = {q, r}
  BY <1>3
<1>5. q # r /\ Along(line[o]) \subseteq Along({q, r})
  BY <1>1, <1>3, <1>4, DrawnOut
<1> HIDE DEF ln
<1>6. AllSound(objects, ln)
  <2>1. Sound(o, {q, r})
    BY <1>1, <1>5 DEF Sound
  <2> QED BY <1>2, <1>4, <2>1 DEF LInv, AllSound
<1>7. AllAlong(cn, objects, ln)
  <2>1. \A x \in objects \cap objects : Along(line[x]) \subseteq Along(ln[x])
    BY <1>2, <1>4, <1>5
  <2>2. Within(conn_list, objects) /\ AllAlong(conn_list, objects, line)
    BY DEF IInv, Good, LInv
  <2> QED BY <1>2, <2>1, <2>2, UpdateAlong
<1>8. Change(objects, ln, cn)
  BY DEF o_extend_object, ln
<1> QED BY <1>2, <1>6, <1>7, <1>8, ChangeLines

LEMMA ShiftSound ==
    ASSUME NEW o, NEW l, Sound(o, l), NEW d \in Moves, Shift(l, d) \subseteq Points
    PROVE  Sound(o, Shift(l, d))
<1> DEFINE at(p) == <<p[1] + d[1], p[2] + d[2]>>
<1>0. d[1] \in Int /\ d[2] \in Int
  BY ConnectivityAssumption DEF Moves
<1>1. CASE o \in Pins
  <2>1. PICK p \in Points : l = {p}
    BY <1>1 DEF Sound
  <2>2. Shift(l, d) = {at(p)}
    BY <2>1 DEF Shift
  <2> HIDE DEF at
  <2> QED BY <1>1, <2>2 DEF Sound
<1>2. CASE o \notin Pins
  <2>1. PICK p, q \in Points : p # q /\ l = {p, q}
    BY <1>2 DEF Sound
  <2>2. Shift(l, d) = {at(p), at(q)}
    BY <2>1 DEF Shift
  <2>3. p[1] \in Nat /\ p[2] \in Nat /\ q[1] \in Nat /\ q[2] \in Nat
    BY PointsNat
  <2>4. p[1] # q[1] \/ p[2] # q[2]
    BY <2>1, PointsNat
  <2>5. p[1] + d[1] # q[1] + d[1] \/ p[2] + d[2] # q[2] + d[2]
    BY <1>0, <2>3, <2>4
  <2>6. at(p) # at(q)
    BY <2>5
  <2> HIDE DEF at
  <2> QED BY <1>2, <2>2, <2>6 DEF Sound
<1> QED BY <1>1, <1>2

(* A line of one or two points has two or one when an end of it has moved.  *)
LEMMA StretchSound ==
    ASSUME NEW o, o \notin Pins, NEW x \in Points, NEW y \in Points, NEW p \in {x, y}, NEW d,
           Stretch({x, y}, p, d) \subseteq Points,
           ~ o_move_zero_length(Stretch({x, y}, p, d))
    PROVE  Sound(o, Stretch({x, y}, p, d))
<1> DEFINE to == <<p[1] + d[1], p[2] + d[2]>>
           l  == Stretch({x, y}, p, d)
<1>1. Shift({p}, d) = {to}
  BY DEF Shift
<1> HIDE DEF to
<1>2. \E r \in Points : l = {r, to}
  <2>1. CASE {x, y} = {p}
    BY <1>1, <2>1 DEF Stretch
  <2>2. CASE {x, y} # {p}
    <3>1. \E r \in Points : {x, y} \ {p} = {r}
      BY <2>2
    <3> QED BY <1>1, <2>2, <3>1 DEF Stretch
  <2> QED BY <2>1, <2>2
<1>3. PICK r \in Points : l = {r, to}
  BY <1>2
<1>4. r # to
  BY <1>3, TwoPoints DEF o_move_zero_length
<1>5. to \in Points
  BY <1>3
<1> QED BY <1>3, <1>4, <1>5 DEF Sound

(* What is moved or stretched is sound after the move or gone, so that only *)
(* what is neither has to be sound before.                                  *)
LEMMA MoveEndLines ==
    ASSUME NEW S, NEW d \in Moves, NEW page, NEW ln, NEW cn,
           page \subseteq Obj, S \subseteq page, Good(cn, page), AllAlong(cn, page, ln),
           \A o \in S : Sound(o, ln[o]),
           \A o \in page \ Pins : \E x, y \in Points : ln[o] = {x, y},
           \A o \in page \ S :
              Sound(o, ln[o]) \/ (netconn_rubberband /\ \E e \in Ends(S, page, ln, cn) : e[1] = o),
           o_move_end(S, d, page, ln, cn)
    PROVE  LInv'
<1> DEFINE ends == IF netconn_rubberband THEN Ends(S, page, ln, cn) ELSE {}
<1>1. PICK L \in StretchLists(ends) :
        LET after   == [o \in Obj |-> MovedLine(o, S, L, ln, d)]
            stretched == {e[1] : e \in L}
            moved   == S \cup stretched
            gone    == {o \in stretched : o_move_zero_length(after[o])}
        IN  /\ \A o \in moved : after[o] \subseteq Points
            /\ Change(page \ gone, after,
                      s_conn_update(s_conn_remove(cn, moved), moved \ gone,
                                    after, page \ gone))
  BY DEF o_move_end
<1> DEFINE after   == [o \in Obj |-> MovedLine(o, S, L, ln, d)]
           stretched == {e[1] : e \in L}
           moved   == S \cup stretched
           gone    == {o \in stretched : o_move_zero_length(after[o])}
           left    == page \ gone
           removed == s_conn_remove(cn, moved)
           new     == s_conn_update(removed, moved \ gone, after, left)
<1>2. left \subseteq Obj
  OBVIOUS
<1>3. L \subseteq ends /\ stretched = {e[1] : e \in ends}
  BY DEF StretchLists
<1>4. \A e \in L : e[1] \in page \ (S \cup Pins) /\ e[2] \in ln[e[1]]
  BY <1>3 DEF Ends
<1>5. ASSUME NEW o \in left PROVE Sound(o, after[o])
  <2>1. CASE o \in S
    <3>1. after[o] = Shift(ln[o], d)
      BY <1>2, <2>1 DEF MovedLine
    <3>2. after[o] \subseteq Points
      BY <1>1, <2>1
    <3> HIDE DEF after
    <3> QED BY <2>1, <3>1, <3>2, ShiftSound
  <2>2. CASE o \in stretched
    <3>1. o \notin S /\ o \notin Pins
      BY <1>4, <2>2
    <3> DEFINE e == CHOOSE e \in L : e[1] = o
    <3>2. e \in L /\ e[1] = o
      BY <2>2
    <3>3. after[o] = Stretch(ln[o], e[2], d)
      BY <1>2, <2>2, <3>1 DEF MovedLine
    <3>4. e[2] \in ln[o]
      BY <1>4, <3>2
    <3>5. PICK x, y \in Points : ln[o] = {x, y}
      BY <3>1
    <3>6. after[o] \subseteq Points
      BY <1>1, <2>2
    <3>7. ~ o_move_zero_length(after[o])
      BY <2>2
    <3> HIDE DEF after, e
    <3>8. /\ e[2] \in {x, y} /\ Stretch({x, y}, e[2], d) \subseteq Points
          /\ ~ o_move_zero_length(Stretch({x, y}, e[2], d))
      BY <3>3, <3>4, <3>5, <3>6, <3>7
    <3>9. Sound(o, Stretch({x, y}, e[2], d))
      BY <3>1, <3>8, StretchSound
    <3> QED BY <3>3, <3>5, <3>9
  <2>3. CASE o \notin moved
    <3>1. after[o] = ln[o]
      BY <1>2, <2>3 DEF MovedLine
    <3>2. ~ \E e \in ends : e[1] = o
      BY <1>3, <2>3
    <3> HIDE DEF after
    <3> QED BY <2>3, <3>1, <3>2
  <2> QED BY <2>1, <2>2, <2>3
<1>6. AllSound(left, after)
  BY <1>5 DEF AllSound
<1>7. AllAlong(new, left, after)
  <2>1. AllAlong(removed, page \ moved, ln)
    BY RemoveAlong
  <2>2. Within(removed, page \ moved)
    BY RemoveGood DEF Good
  <2>3. \A o \in left \cap (page \ moved) : Along(ln[o]) \subseteq Along(after[o])
    <3> SUFFICES ASSUME NEW o \in page, o \notin moved PROVE after[o] = ln[o]
      OBVIOUS
    <3> QED BY DEF MovedLine
  <2> HIDE DEF left, removed, after, moved, gone
  <2> QED BY <1>2, <2>1, <2>2, <2>3, UpdateAlong
<1>8. Change(left, after, new)
  BY <1>1
<1> HIDE DEF left, new, after
<1> QED BY <1>2, <1>6, <1>7, <1>8, ChangeLines

(* A net can be connected with every pin: none is for buses.                *)
NetPins == Pins \cap BusRelated = {}

LEMMA MoveLines ==
    ASSUME NetPins, IInv, LInv, NEW S \in SUBSET objects, NEW d \in Moves, o_move(S, d)
    PROVE  LInv'
<1> DEFINE pairs == IF netconn_rubberband THEN PinPairs(S) ELSE {}
<1>1. PICK new \in [pairs -> (Nets \cap InNoSymbol) \ objects] :
        LET added == {new[oc] : oc \in pairs}
            ln    == [o \in Obj |->
                        IF o \in added THEN {oc[2].at : oc \in {oc \in pairs : new[oc] = o}}
                        ELSE line[o]]
        IN  /\ \A x, y \in pairs : new[x] = new[y] => x = y
            /\ o_move_end(S, d, objects \cup added, ln,
                          s_conn_update(conn_list, added, ln, objects \cup added))
  BY DEF o_move
<1> DEFINE added == {new[oc] : oc \in pairs}
           page  == objects \cup added
           ln    == [o \in Obj |->
                       IF o \in added THEN {oc[2].at : oc \in {oc \in pairs : new[oc] = o}}
                       ELSE line[o]]
           cn    == s_conn_update(conn_list, added, ln, page)
<1>2. /\ page \subseteq Obj /\ added \cap objects = {} /\ added \subseteq Nets
      /\ objects \subseteq Obj
  BY DEF IInv, TypeOK, Obj
<1>3. \A o \in objects : ln[o] = line[o]
  BY <1>2
<1>4. ASSUME NEW oc \in pairs
      PROVE  /\ netconn_rubberband /\ oc[1] \in S /\ oc[1] \in Pins
             /\ oc[2].at \in line[oc[1]] /\ oc[2].at \in Points
             /\ new[oc] \in Nets /\ new[oc] \in InNoSymbol /\ new[oc] \notin objects
             /\ ln[new[oc]] = {oc[2].at}
  <2>1. netconn_rubberband /\ oc \in PinPairs(S)
    BY <1>4
  <2>2. /\ oc[1] \in S /\ oc[1] \in Pins /\ oc[1] \in objects /\ oc[1] \in Obj
        /\ oc[2] \in conn_list[oc[1]]
    BY <1>2, <2>1 DEF PinPairs
  <2>3. oc[2].at \in Along(line[oc[1]])
    BY <2>2 DEF LInv, AllAlong
  <2>4. PICK p \in Points : line[oc[1]] = {p}
    BY <2>2 DEF LInv, AllSound, Sound
  <2>5. Middle({p}) = {}
    <3> SUFFICES ASSUME NEW x \in Middle({p}) PROVE FALSE
      OBVIOUS
    <3>1. Between(p[2], p[2], x[2]) \/ Between(p[1], p[1], x[1])
      BY DEF Middle
    <3>2. p[1] \in Nat /\ p[2] \in Nat /\ x[1] \in Nat /\ x[2] \in Nat
      BY PointsNat DEF Middle
    <3> QED BY <3>1, <3>2 DEF Between
  <2>6. oc[2].at = p
    BY <2>3, <2>4, <2>5 DEF Along
  <2>7. new[oc] \in Nets /\ new[oc] \in InNoSymbol /\ new[oc] \notin objects
    BY <1>4
  <2>8. {x \in pairs : new[x] = new[oc]} = {oc}
    BY <1>1
  <2>9. ln[new[oc]] = {x[2].at : x \in {x \in pairs : new[x] = new[oc]}}
    BY <1>2
  <2>10. ln[new[oc]] = {oc[2].at}
    BY <2>8, <2>9
  <2> HIDE DEF ln, pairs
  <2> QED BY <2>1, <2>2, <2>4, <2>6, <2>7, <2>10
<1>5. ASSUME NEW oc \in pairs
      PROVE  \E e \in Ends(S, page, ln, cn) : e[1] = new[oc]
  <2> DEFINE x == oc[1]
             o == new[oc]
             c == [other_object |-> o, type |-> "ENDPOINT", at |-> oc[2].at]
  <2>1. /\ x \in S /\ x \in Pins /\ x \in objects /\ x \in Obj /\ x \in page /\ x \notin added
        /\ o \in Nets /\ o \in added /\ o \notin objects /\ o \in Obj /\ o \in page
        /\ o \in InNoSymbol /\ x # o /\ oc[2].at \in line[x] /\ ln[o] = {oc[2].at}
    BY <1>2, <1>4, <1>5
  <2>2. o \notin Pins
    BY <2>1, ConnectivityAssumption
  <2> HIDE DEF ln, added, page, x, o
  <2>3. check_direct_compat(x, o) /\ MayConnect(x, o)
    <3>1. o \notin BusRelated /\ x \notin BusRelated
      BY <2>1, <2>2, ConnectivityAssumption DEF NetPins
    <3> QED BY <2>1, <3>1 DEF check_direct_compat, MayConnect, InNoSymbol
  <2>4. ln[x] = line[x]
    BY <1>3, <2>1
  <2>5. c \in Touch(x, o, ln)
    <3>1. oc[2].at \in ln[x] \cap ln[o]
      BY <2>1, <2>4
    <3>2. c \in Conns(o, "ENDPOINT", ln[x] \cap ln[o])
      BY <3>1 DEF Conns
    <3> HIDE DEF c
    <3> QED BY <2>3, <3>2 DEF Touch
  <2>6. s_conn_uniq(c, conn_list[x])
    BY <2>1 DEF s_conn_uniq, IInv, Good, Within
  <2>7. c \in cn[x]
    <3> HIDE DEF c
    <3> QED BY <2>1, <2>5, <2>6 DEF s_conn_update
  <2>8. /\ c.type # "ON" /\ c.other_object \in page \ (S \cup Pins)
        /\ c.at \in ln[c.other_object] /\ c.other_object = o
    BY <2>1, <2>2
  <2> HIDE DEF c, cn
  <2>9. <<c.other_object, c.at>> \in Ends(S, page, ln, cn)
    BY <2>1, <2>7, <2>8 DEF Ends
  <2> QED BY <2>8, <2>9 DEF o
<1>6. AllAlong(cn, page, ln)
  <2>1. \A o \in page \cap objects : Along(line[o]) \subseteq Along(ln[o])
    BY <1>3
  <2>2. Within(conn_list, objects) /\ AllAlong(conn_list, objects, line)
    BY DEF IInv, Good, LInv
  <2> HIDE DEF page, ln, added
  <2> QED BY <1>2, <2>1, <2>2, UpdateAlong
<1>7. \A o \in S : Sound(o, ln[o])
  BY <1>3 DEF LInv, AllSound
<1>8. \A o \in page \ Pins : \E x, y \in Points : ln[o] = {x, y}
  <2> SUFFICES ASSUME NEW o \in page, o \notin Pins
               PROVE  \E x, y \in Points : ln[o] = {x, y}
    OBVIOUS
  <2>1. CASE o \in objects
    <3>1. ln[o] = line[o]
      BY <1>3, <2>1
    <3> HIDE DEF ln
    <3> QED BY <2>1, <3>1 DEF LInv, AllSound, Sound
  <2>2. CASE o \in added
    <3>1. PICK oc \in pairs : o = new[oc]
      BY <2>2
    <3>2. ln[o] = {oc[2].at} /\ oc[2].at \in Points
      BY <1>4, <3>1
    <3> HIDE DEF ln
    <3> QED BY <3>2
  <2> QED BY <2>1, <2>2
<1>9. \A o \in page \ S :
         Sound(o, ln[o]) \/ (netconn_rubberband /\ \E e \in Ends(S, page, ln, cn) : e[1] = o)
  <2> SUFFICES ASSUME NEW o \in page
               PROVE  Sound(o, ln[o])
                      \/ (netconn_rubberband /\ \E e \in Ends(S, page, ln, cn) : e[1] = o)
    OBVIOUS
  <2>1. CASE o \in objects
    <3>1. ln[o] = line[o]
      BY <1>3, <2>1
    <3> QED BY <2>1, <3>1 DEF LInv, AllSound
  <2>2. CASE o \in added
    <3>1. PICK oc \in pairs : o = new[oc]
      BY <2>2
    <3> QED BY <1>4, <1>5, <3>1
  <2> QED BY <2>1, <2>2
<1>10. Good(cn, page)
  <2>1. \A o \in page : ln[o] \subseteq Points
    <3> SUFFICES ASSUME NEW o \in page PROVE ln[o] \subseteq Points
      OBVIOUS
    <3>1. CASE o \in objects
      <4>1. ln[o] = line[o]
        BY <1>3, <3>1
      <4> QED BY <1>2, <3>1, <4>1 DEF IInv, TypeOK
    <3>2. CASE o \in added
      <4>1. PICK oc \in pairs : o = new[oc]
        BY <3>2
      <4>2. ln[o] = {oc[2].at} /\ oc[2].at \in Points
        BY <1>4, <4>1
      <4> HIDE DEF ln
      <4> QED BY <4>2
    <3> QED BY <3>1, <3>2
  <2>2. objects \subseteq page
    OBVIOUS
  <2> HIDE DEF page, ln, added
  <2> QED BY <1>2, <2>1, <2>2, UpdateGood DEF IInv
<1>11. o_move_end(S, d, page, ln, cn)
  BY <1>1
<1>12. S \subseteq page
  OBVIOUS
<1> HIDE DEF page, ln, cn
<1> QED BY <1>2, <1>6, <1>7, <1>8, <1>9, <1>10, <1>11, <1>12, MoveEndLines

(* Merging.  On a line along coordinate i, where j is the other one, only   *)
(* the numbers along i matter.                                              *)
LEMMA MiddleOfLevel ==
    ASSUME NEW i \in {1, 2}, NEW j \in {1, 2}, i # j,
           NEW l \in SUBSET Points, NEW v, \A p \in l : p[j] = v, NEW x \in Points
    PROVE  x \in Middle(l) <=> x[j] = v /\ \E a, b \in l : Between(a[i], b[i], x[i])
<1>1. \A p \in Points : p[1] \in Nat /\ p[2] \in Nat
  BY PointsNat
<1>2. CASE i = 1
  <2>1. j = 2 /\ \A a, b \in l : ~ Between(a[2], b[2], x[2])
    BY <1>1, <1>2 DEF Between
  <2> QED BY <1>2, <2>1 DEF Middle
<1>3. CASE i = 2
  <2>1. j = 1 /\ \A a, b \in l : ~ Between(a[1], b[1], x[1])
    BY <1>1, <1>3 DEF Between
  <2> QED BY <1>3, <2>1 DEF Middle
<1> QED BY <1>2, <1>3

LEMMA LeastOfFour ==
    ASSUME NEW a \in Int, NEW b \in Int, NEW c \in Int, NEW d \in Int
    PROVE  /\ \E x \in {a, b, c, d} : x <= a /\ x <= b /\ x <= c /\ x <= d
           /\ \E x \in {a, b, c, d} : a <= x /\ b <= x /\ c <= x /\ d <= x
OBVIOUS

Level(l, i, j) == i # j /\ \A p, q \in l : p[j] = q[j]

(* The line ab grows to the outer two of four points.                       *)
Grows(a, b, c, d) ==
    \E lo, hi \in Points : /\ lo # hi /\ Outer({a, b, c, d}) = {lo, hi}
                           /\ Along({a, b}) \subseteq Along({lo, hi})

LEMMA OuterOfLevel ==
    ASSUME NEW i \in {1, 2}, NEW j \in {1, 2},
           NEW a \in Points, NEW b \in Points, NEW c \in Points, NEW d \in Points, a # b,
           Level({a, b, c, d}, i, j)
    PROVE  Grows(a, b, c, d)
<1> DEFINE l == {a, b, c, d}
           v == a[j]
<1>0. i # j /\ \A p \in l : p[j] = v
  BY DEF Level
<1>1. \A p \in Points : p[i] \in Nat /\ p[j] \in Nat
  BY PointsNat
<1>2. \A p, q \in l : p[i] = q[i] => p = q
  BY <1>0, PointsNat
<1>3. PICK lo \in l : \A p \in l : lo[i] <= p[i]
  BY <1>1, LeastOfFour
<1>4. PICK hi \in l : \A p \in l : p[i] <= hi[i]
  BY <1>1, LeastOfFour
<1>5. lo[i] < hi[i]
  <2>1. a[i] # b[i] /\ a[i] \in Nat /\ b[i] \in Nat /\ lo[i] \in Nat /\ hi[i] \in Nat
    BY <1>1, <1>2
  <2>2. lo[i] <= a[i] /\ lo[i] <= b[i] /\ a[i] <= hi[i] /\ b[i] <= hi[i]
    BY <1>3, <1>4
  <2> QED BY <2>1, <2>2
<1>6. /\ l \subseteq Points /\ lo \in Points /\ hi \in Points
      /\ i # j /\ \A p \in l : p[j] = v
  BY <1>0
<1>7. ASSUME NEW p \in l
      PROVE  (\E e, f \in l : p \in Middle({e, f})) <=> p # lo /\ p # hi
  <2>1. ASSUME NEW e \in l, NEW f \in l, p \in Middle({e, f})
        PROVE  p # lo /\ p # hi
    <3>1. \E g, h \in {e, f} : Between(g[i], h[i], p[i])
      <4>1. {e, f} \in SUBSET Points /\ \A q \in {e, f} : q[j] = v
        BY <1>6
      <4> HIDE DEF l, v
      <4> QED BY <1>6, <2>1, <4>1, <1>0, MiddleOfLevel
    <3>2. PICK g \in l, h \in l : Between(g[i], h[i], p[i])
      BY <3>1
    <3>3. g[i] \in Nat /\ h[i] \in Nat /\ p[i] \in Nat /\ lo[i] \in Nat /\ hi[i] \in Nat
      BY <1>1, <1>6
    <3>4. lo[i] <= g[i] /\ lo[i] <= h[i] /\ g[i] <= hi[i] /\ h[i] <= hi[i]
      BY <1>3, <1>4
    <3> QED BY <3>2, <3>3, <3>4 DEF Between
  <2>2. ASSUME p # lo, p # hi PROVE p \in Middle({lo, hi})
    <3>1. p[i] # lo[i] /\ p[i] # hi[i] /\ lo[i] <= p[i] /\ p[i] <= hi[i]
      BY <1>2, <1>3, <1>4, <2>2
    <3>2. p[i] \in Nat /\ lo[i] \in Nat /\ hi[i] \in Nat
      BY <1>1, <1>6
    <3>3. Between(lo[i], hi[i], p[i])
      BY <3>1, <3>2 DEF Between
    <3>4. {lo, hi} \in SUBSET Points /\ (\A q \in {lo, hi} : q[j] = v) /\ p[j] = v
      BY <1>6
    <3> HIDE DEF l, v
    <3> QED BY <1>6, <3>3, <3>4, <1>0, MiddleOfLevel
  <2> HIDE DEF l
  <2> QED BY <1>3, <1>4, <2>1, <2>2
<1>8. Outer(l) = {lo, hi}
  <2> HIDE DEF l
  <2> QED BY <1>3, <1>4, <1>7 DEF Outer
<1>9. ASSUME NEW x \in Along({a, b}) PROVE x \in Along({lo, hi})
  <2>1. CASE x \in {a, b}
    <3>1. x = lo \/ x = hi \/ x \in Middle({lo, hi})
      <4>1. x \in l
        BY <2>1
      <4>2. x # lo /\ x # hi => lo[i] < x[i] /\ x[i] < hi[i]
        <5>1. x[i] \in Nat /\ lo[i] \in Nat /\ hi[i] \in Nat
          BY <1>1, <1>6, <4>1
        <5>2. lo[i] <= x[i] /\ x[i] <= hi[i]
          BY <1>3, <1>4, <4>1
        <5> QED BY <1>2, <4>1, <5>1, <5>2
      <4>3. {lo, hi} \in SUBSET Points /\ (\A q \in {lo, hi} : q[j] = v) /\ x[j] = v
        BY <1>6, <4>1
      <4>4. x \in Points
        BY <1>6, <4>1
      <4> HIDE DEF l, v
      <4> QED BY <4>2, <4>3, <4>4, <1>0, MiddleOfLevel DEF Between
    <3> QED BY <3>1 DEF Along
  <2>2. CASE x \in Middle({a, b})
    <3>1. x \in Points
      BY <2>2 DEF Middle
    <3>2. {a, b} \in SUBSET Points /\ (\A q \in {a, b} : q[j] = v)
      BY <1>6
    <3>3. x[j] = v /\ \E g, h \in {a, b} : Between(g[i], h[i], x[i])
      <4> HIDE DEF v
      <4> QED BY <2>2, <3>1, <3>2, <1>0, MiddleOfLevel
    <3>4. PICK g \in l, h \in l : Between(g[i], h[i], x[i])
      BY <3>3
    <3>5. /\ g[i] \in Nat /\ h[i] \in Nat /\ x[i] \in Nat /\ lo[i] \in Nat /\ hi[i] \in Nat
          /\ lo[i] <= g[i] /\ lo[i] <= h[i] /\ g[i] <= hi[i] /\ h[i] <= hi[i]
      BY <1>1, <1>3, <1>4, <1>6, <3>1
    <3>6. Between(lo[i], hi[i], x[i])
      BY <3>4, <3>5 DEF Between
    <3>7. {lo, hi} \in SUBSET Points /\ (\A q \in {lo, hi} : q[j] = v)
      BY <1>6
    <3>8. x \in Middle({lo, hi})
      <4> HIDE DEF v
      <4> QED BY <3>1, <3>3, <3>6, <3>7, <1>0, MiddleOfLevel
    <3> QED BY <3>8 DEF Along
  <2> QED BY <2>1, <2>2 DEF Along
<1>10. lo # hi
  BY <1>1, <1>5, <1>6
<1> QED BY <1>6, <1>8, <1>9, <1>10 DEF Grows

(* Two lines of one orientation that have a point in common lie on one.     *)
LEMMA MergedLevel ==
    ASSUME NEW i \in {1, 2}, NEW j \in {1, 2}, i # j,
           NEW a \in Points, NEW b \in Points, NEW c \in Points, NEW d \in Points,
           a[j] = b[j], c[j] = d[j], NEW z \in Along({a, b}), z \in Along({c, d})
    PROVE  \A p \in {a, b, c, d} : p[j] = a[j]
<1>1. ASSUME NEW p \in Points, NEW q \in Points, p[j] = q[j], z \in Along({p, q})
      PROVE  z[j] = p[j]
  <2>1. CASE z \in {p, q}
    BY <1>1, <2>1
  <2>2. CASE z \in Middle({p, q})
    <3>1. z \in Points
      BY <2>2 DEF Middle
    <3>2. {p, q} \in SUBSET Points /\ \A x \in {p, q} : x[j] = p[j]
      BY <1>1
    <3> QED BY <2>2, <3>1, <3>2, MiddleOfLevel
  <2> QED BY <1>1, <2>1, <2>2 DEF Along
<1>2. z[j] = a[j] /\ z[j] = c[j]
  BY <1>1
<1> QED BY <1>2

LEMMA MergedSound ==
    ASSUME NEW l, NEW m, NEW o, o \notin Pins, NEW w, w \notin Pins, Sound(o, l), Sound(w, m),
           SameOrientation(l, m), NEW z \in Along(l), z \in Along(m)
    PROVE  Sound(o, Outer(l \cup m)) /\ Along(l) \subseteq Along(Outer(l \cup m))
<1>1. PICK a, b \in Points : a # b /\ l = {a, b}
  BY DEF Sound
<1>2. PICK c, d \in Points : c # d /\ m = {c, d}
  BY DEF Sound
<1>3. \E i, j \in {1, 2} : i # j /\ a[j] = b[j] /\ c[j] = d[j]
  <2>1. CASE Horizontal(l) /\ Horizontal(m)
    <3>1. a[2] = b[2] /\ c[2] = d[2]
      BY <1>1, <1>2, <2>1 DEF Horizontal
    <3> QED BY <3>1
  <2>2. CASE Vertical(l) /\ Vertical(m)
    <3>1. a[1] = b[1] /\ c[1] = d[1]
      BY <1>1, <1>2, <2>2 DEF Vertical
    <3> QED BY <3>1
  <2> QED BY <2>1, <2>2 DEF SameOrientation
<1>4. PICK i \in {1, 2}, j \in {1, 2} : i # j /\ a[j] = b[j] /\ c[j] = d[j]
  BY <1>3
<1>5. \A p \in {a, b, c, d} : p[j] = a[j]
  BY <1>1, <1>2, <1>4, MergedLevel
<1>6. l \cup m = {a, b, c, d}
  BY <1>1, <1>2
<1>7. Grows(a, b, c, d)
  <2>1. a # b /\ Level({a, b, c, d}, i, j)
    BY <1>1, <1>4, <1>5 DEF Level
  <2> QED BY <2>1, OuterOfLevel
<1> QED BY <1>1, <1>6, <1>7 DEF Sound, Grows

LEMMA ConsolidateLines ==
    ASSUME IInv, LInv, o_net_consolidate_segments
    PROVE  LInv'
<1>1. PICK nm \in Mergeable :
        LET n == nm[1]
            m == nm[2]
            page == objects \ {m}
            ln == [line EXCEPT ![n] = Outer(@ \cup line[m])]
            cn == s_conn_update(s_conn_remove(conn_list, {m}), {n}, ln, page)
        IN  /\ objects' = page /\ line' = OnPage(ln, page) /\ conn_list' = cn
            /\ net_num_connected' = Refresh(cn, page)
  BY DEF o_net_consolidate_segments
<1> DEFINE n == nm[1]
           m == nm[2]
           page == objects \ {m}
           ln == [line EXCEPT ![n] = Outer(@ \cup line[m])]
           removed == s_conn_remove(conn_list, {m})
           cn == s_conn_update(removed, {n}, ln, page)
<1>2. /\ n \in Nets /\ n \in objects /\ n \in Obj /\ n \notin Pins
      /\ m \in Nets /\ m \in objects /\ m \in Obj /\ m \notin Pins
      /\ page \subseteq Obj /\ objects \subseteq Obj
      /\ SameOrientation(line[n], line[m])
  BY ConnectivityAssumption DEF Mergeable, IInv, TypeOK, Obj
<1>3. PICK c \in conn_list[n] : c.other_object = m
  BY DEF Mergeable
<1>4. c.at \in Along(line[n]) /\ c.at \in Along(line[m])
  <2>1. Opp(n, c) \in conn_list[m] /\ Opp(n, c).at = c.at
    BY <1>2, <1>3 DEF IInv, Good, Sym, Opp
  <2> QED BY <1>2, <1>3, <2>1 DEF LInv, AllAlong
<1>5. /\ Sound(n, Outer(line[n] \cup line[m]))
      /\ Along(line[n]) \subseteq Along(Outer(line[n] \cup line[m]))
  <2>1. Sound(n, line[n]) /\ Sound(m, line[m])
    BY <1>2 DEF LInv, AllSound
  <2> HIDE DEF n, m
  <2> QED BY <1>2, <1>4, <2>1, MergedSound
<1>6. \A x \in objects : ln[x] = IF x = n THEN Outer(line[n] \cup line[m]) ELSE line[x]
  BY <1>2 DEF IInv, TypeOK
<1> HIDE DEF ln
<1>7. AllSound(page, ln)
  BY <1>5, <1>6 DEF LInv, AllSound
<1>8. AllAlong(cn, page, ln)
  <2>1. AllAlong(removed, objects \ {m}, line)
    BY <1>2, RemoveAlong DEF LInv
  <2>2. Within(removed, objects \ {m})
    BY RemoveGood DEF IInv, Good
  <2>3. \A x \in page \cap (objects \ {m}) : Along(line[x]) \subseteq Along(ln[x])
    BY <1>5, <1>6
  <2> HIDE DEF removed, page, n, m
  <2> QED BY <1>2, <2>1, <2>2, <2>3, UpdateAlong
<1>9. objects' = page /\ line' = OnPage(ln, page) /\ conn_list' = cn
  BY <1>1 DEF ln
<1> HIDE DEF page, cn
<1>10. AllSound(page, OnPage(ln, page)) /\ AllAlong(cn, page, OnPage(ln, page))
  BY <1>2, <1>7, <1>8, OnPageLines
<1> QED BY <1>9, <1>10, LInvPrimed

LEMMA NextLines == NetPins /\ IInv /\ LInv /\ [Next]_vars => LInv'
<1> SUFFICES ASSUME NetPins, IInv, LInv, [Next]_vars PROVE LInv'
  OBVIOUS
<1>1. CASE \E o \in Obj \ objects : \E at \in [PartsWith(o) -> Lines] :
             o_place_end(PartsWith(o), at)
  BY <1>1, PlaceLines
<1>2. CASE \E S \in SUBSET objects : o_delete_selected(S)
  BY <1>2, DeleteLines
<1>3. CASE \E S \in SUBSET objects, d \in Moves : o_move(S, d)
  BY <1>3, MoveLines
<1>4. CASE \E o \in Nets \cup Buses, p, q \in Points : o_grips_end(o, p, q)
  BY <1>4, DragLines DEF Obj
<1>5. CASE \E o \in Nets \cup Buses, p, q \in Points : o_extend_object(o, p, q)
  BY <1>5, ExtendLines DEF Obj
<1>6. CASE o_net_consolidate_segments
  BY <1>6, ConsolidateLines
<1>7. CASE o_net_consolidate_done \/ UNCHANGED vars
  <2>1. objects' = objects /\ line' = line /\ conn_list' = conn_list
    BY <1>7 DEF o_net_consolidate_done, vars
  <2> QED BY <2>1, LInvPrimed DEF LInv
<1> QED BY <1>1, <1>2, <1>3, <1>4, <1>5, <1>6, <1>7 DEF Next

(* No net or bus without length stays on the page and none gets a third     *)
(* end, whatever is stretched, drawn out or merged, as long as no pin is    *)
(* for buses: the net that a move inserts between two such pins is not      *)
(* connected with them, is not found for stretching and stays.              *)
THEOREM LinesStaySound ==
    ASSUME NetPins
    PROVE  Spec => []LinesSound
<1>1. Init => LInv
  BY DEF Init, LInv, AllSound, AllAlong
<1>2. IInv /\ LInv => LinesSound
  <2> SUFFICES ASSUME IInv, LInv, NEW o \in objects
               PROVE  Cardinality(line[o]) = IF o \in Pins THEN 1 ELSE 2
    BY DEF LinesSound
  <2>1. o \in Obj /\ line[o] \in SUBSET Points /\ Sound(o, line[o])
    BY DEF IInv, TypeOK, LInv, AllSound
  <2> QED BY <2>1, SoundCounts
<1>3. IInv /\ LInv /\ [Next]_vars => LInv'
  BY NextLines
<1> QED BY <1>1, <1>2, <1>3, AlwaysInv, PTL DEF Spec
=============================================================================
