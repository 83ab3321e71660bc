----------------------------- MODULE WindowTree -----------------------------
(***************************************************************************)
(* Windows that hold pointers to each other. A Window is an address: it    *)
(* can be destroyed while others point to it, and made again. (A child     *)
(* that is no Window is only a pointer in children_, and left out.)        *)
(***************************************************************************)
CONSTANTS Window,
          None            (* the null pointer                                *)

ASSUME TreeAssumption == None \notin Window

VARIABLES alive,
          parent_, children_,
          readded,        (* added again to their parent, and not moved since*)
          misremoved,     (* removed by a window that is not their parent    *)
          outlived,       (* their parent was destroyed before them          *)
          undefined       (* a destroyed window was used, or a circle entered*)

treeVars  == <<alive, parent_, children_>>
pastVars  == <<readded, misremoved, outlived>>
vars == <<treeVars, pastVars, undefined>>

Init ==
  /\ alive = {}
  /\ parent_ = [w \in Window |-> None] /\ children_ = [w \in Window |-> {}]
  /\ readded = {} /\ misremoved = {} /\ outlived = {} /\ undefined = FALSE

Follow(pointer) == undefined' = (pointer \notin alive \cup {None})
-----------------------------------------------------------------------------
EnteredOnly(p, c) ==               (* mutant: stays in the old parent *)
  [q \in Window |-> children_[q] \cup (IF q = p THEN {c} ELSE {})]

(* Window::add enters the child first and has it removed by its parent     *)
(* then; both may be the same window.                                      *)
Entered(p, c) ==
  [q \in Window |->
     (children_[q] \cup (IF q = p THEN {c} ELSE {})) \ (IF q = parent_[c] THEN {c} ELSE {})]

Add(p, w) ==
  /\ {p, w} \subseteq alive
  /\ Follow(parent_[w])
  /\ children_' = Entered(p, w)
  /\ parent_' = [parent_ EXCEPT ![w] = p]
  /\ readded' = IF parent_[w] = p THEN readded \cup {w} ELSE readded \ {w}
  /\ UNCHANGED <<alive, misremoved, outlived>>

(* The constructor, with or without a parent.                              *)
Create(w, p) ==
  /\ w \notin alive /\ p \in alive \cup {None}
  /\ alive' = alive \cup {w}
  /\ parent_' = [parent_ EXCEPT ![w] = p]
  /\ children_' = [q \in Window |-> IF q = p THEN children_[q] \cup {w} ELSE children_[q]]
  /\ outlived' = outlived \ {w}
  /\ UNCHANGED <<readded, misremoved, undefined>>

Remove(p, w) ==
  /\ {p, w} \subseteq alive
  /\ children_' = [children_ EXCEPT ![p] = @ \ {w}]
  /\ parent_' = [parent_ EXCEPT ![w] = None]
  /\ readded' = readded \ {w}
  /\ misremoved' = IF parent_[w] = p THEN misremoved ELSE misremoved \cup {w}
  /\ UNCHANGED <<alive, outlived, undefined>>

(* Window::move sets the position of the child in its parent, and enters   *)
(* it there if it was missing.                                             *)
Move(w) ==
  /\ w \in alive /\ parent_[w] # None
  /\ Follow(parent_[w])
  /\ children_' = [children_ EXCEPT ![parent_[w]] = @ \cup {w}]
  /\ readded' = readded \ {w}
  /\ UNCHANGED <<alive, parent_, misremoved, outlived>>

GoneSilently(w) == [children_ EXCEPT ![w] = {}]       (* mutant: tells nobody *)
(* ~Window tells its parent, not its children.                             *)
Gone(w) ==
  [q \in Window |-> IF q = w THEN {} ELSE children_[q] \ (IF q = parent_[w] THEN {w} ELSE {})]

Destroy(w) ==
  /\ w \in alive
  /\ alive' = alive \ {w}
  /\ Follow(parent_[w])
  /\ children_' = Gone(w)
  /\ parent_' = [parent_ EXCEPT ![w] = None]
  /\ readded' = readded \ {w}
  /\ outlived' = outlived \cup {c \in alive \ {w} : parent_[c] = w}
  /\ UNCHANGED <<misremoved>>

(* led() descends to the children it finds, and never returns from a       *)
(* circle.                                                                 *)
Below(w) ==
  {v \in Window : \A S \in SUBSET Window :
     children_[w] \subseteq S /\ (\A c \in S : children_[c] \subseteq S) => v \in S}

Led(w) ==
  /\ w \in alive
  /\ undefined' = \E v \in {w} \cup Below(w) : children_[v] \ alive # {} \/ v \in Below(v)
  /\ UNCHANGED <<treeVars, pastVars>>

(* x() and y() ask the parent for the position.                            *)
Position(w) ==
  /\ w \in alive
  /\ Follow(parent_[w])
  /\ UNCHANGED <<treeVars, pastVars>>

WindowStep(w) ==
  \/ \E p \in Window : Add(p, w) \/ Remove(p, w)
  \/ \E p \in Window \cup {None} : Create(w, p)
  \/ Move(w) \/ Destroy(w) \/ Led(w) \/ Position(w)

(* After undefined behaviour nothing is known.                             *)
Next == ~undefined /\ \E w \in Window : WindowStep(w)

Spec == Init /\ [][Next]_vars
-----------------------------------------------------------------------------
TypeOK ==
  /\ alive \subseteq Window
  /\ parent_ \in [Window -> Window \cup {None}]
  /\ children_ \in [Window -> SUBSET Window]
  /\ readded \subseteq Window /\ misremoved \subseteq Window /\ outlived \subseteq Window
  /\ undefined \in BOOLEAN

(* A child and its parent point at each other. Three things part them: the *)
(* child is added to its own parent again, which a move() repairs; another *)
(* window removes it; the parent is destroyed first.                       *)
TreeAgrees ==
  ~undefined =>
  \A w \in alive :
    /\ parent_[w] # None =>
         w \in outlived \/ (parent_[w] \in alive /\ (w \in children_[parent_[w]] \/ w \in readded))
    /\ \A c \in children_[w] : c \in misremoved \/ (c \in alive /\ parent_[c] = w)

(* A pointer to a destroyed window is followed only after a parent that    *)
(* was destroyed before its children, or a remove() by another window; and *)
(* led() recurses without end only among windows inside each other.        *)
UndefinedOnlyByMisuse ==
  undefined => outlived # {} \/ misremoved # {} \/ \E w \in Window : w \in Below(w)
=============================================================================
