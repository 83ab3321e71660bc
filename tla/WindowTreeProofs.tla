-------------------------- MODULE WindowTreeProofs --------------------------
(***************************************************************************)
(* The safety of WindowTree, for any set of windows.                       *)
(***************************************************************************)
EXTENDS WindowTree, TLAPS

(* A window that is gone points at nobody: its destructor let go of its    *)
(* parent, and its children went with it.                                  *)
DeadAreLoose == ~undefined => \A w \in Window \ alive : children_[w] = {} /\ parent_[w] = None

(* The inductive invariant.                                                *)
IInv == TypeOK /\ TreeAgrees /\ DeadAreLoose /\ UndefinedOnlyByMisuse
-----------------------------------------------------------------------------
(* Below depends on the children alone.                                    *)
LEMMA BelowKept ==
  ASSUME children_' = children_, NEW w \in Window
  PROVE  Below(w)' = Below(w)
  BY DEF Below

LEMMA TypeStep ==
  ASSUME TypeOK, Next
  PROVE  TypeOK'
<1> USE TreeAssumption DEF TypeOK
<1>1. PICK w \in Window : WindowStep(w)
  BY DEF Next
<1>2. CASE \E p \in Window : Add(p, w)
  BY <1>2 DEF Add, Entered, Follow
<1>3. CASE \E p \in Window : Remove(p, w)
  BY <1>3 DEF Remove
<1>4. CASE \E p \in Window \cup {None} : Create(w, p)
  BY <1>4 DEF Create
<1>5. CASE Move(w)
  BY <1>5 DEF Move, Follow
<1>6. CASE Destroy(w)
  BY <1>6 DEF Destroy, Gone, Follow
<1>7. CASE Led(w)
  BY <1>7 DEF Led, treeVars, pastVars
<1>8. CASE Position(w)
  BY <1>8 DEF Position, Follow, treeVars, pastVars
<1> QED
  BY <1>1, <1>2, <1>3, <1>4, <1>5, <1>6, <1>7, <1>8 DEF WindowStep

(* A window whose parent is gone has outlived it.                          *)
LEMMA FollowedDead ==
  ASSUME TypeOK, TreeAgrees, ~undefined, NEW w \in alive, Follow(parent_[w]), undefined'
  PROVE  w \in outlived
  BY TreeAssumption DEF TypeOK, TreeAgrees, Follow

LEMMA AgreementStep ==
  ASSUME IInv, Next, TypeOK'
  PROVE  TreeAgrees' /\ DeadAreLoose'
<1> USE TreeAssumption DEF IInv, TypeOK
<1> SUFFICES ASSUME ~undefined'
             PROVE  TreeAgrees' /\ DeadAreLoose'
  BY DEF TreeAgrees, DeadAreLoose
<1> USE DEF TreeAgrees, DeadAreLoose
<1>0. ~undefined
  BY DEF Next
<1>1. PICK w \in Window : WindowStep(w)
  BY DEF Next
<1>2. CASE \E p \in Window : Add(p, w)
  BY <1>0, <1>2 DEF Add, Entered, Follow
<1>3. CASE \E p \in Window : Remove(p, w)
  BY <1>0, <1>3 DEF Remove
<1>4. CASE \E p \in Window \cup {None} : Create(w, p)
  <2>1. PICK p \in Window \cup {None} : Create(w, p)
    BY <1>4
  <2>2. TreeAgrees'
    <3>1. SUFFICES ASSUME NEW v \in alive'
                   PROVE  /\ parent_'[v] # None =>
                               \/ v \in outlived'
                               \/ parent_'[v] \in alive' /\ (v \in children_'[parent_'[v]] \/ v \in readded')
                          /\ \A c \in children_'[v] : c \in misremoved' \/ (c \in alive' /\ parent_'[c] = v)
      OBVIOUS
    <3>2. CASE v = w
      BY <1>0, <2>1, <3>2 DEF Create
    <3>3. CASE v # w
      BY <1>0, <2>1, <3>1, <3>3 DEF Create
    <3> QED
      BY <3>2, <3>3
  <2>3. DeadAreLoose'
    BY <1>0, <2>1 DEF Create
  <2> QED
    BY <2>2, <2>3
<1>5. CASE Move(w)
  <2>1. parent_[w] \in alive
    BY <1>5 DEF Move, Follow
  <2>2. /\ children_' = [children_ EXCEPT ![parent_[w]] = @ \cup {w}]
        /\ readded' = readded \ {w} /\ UNCHANGED <<alive, parent_, misremoved, outlived>>
    BY <1>5 DEF Move
  <2>3. TreeAgrees'
    BY <1>0, <1>5, <2>1, <2>2 DEF Move
  <2>4. DeadAreLoose'
    BY <1>0, <2>1, <2>2
  <2> QED
    BY <2>3, <2>4
<1>6. CASE Destroy(w)
  <2>1. /\ alive' = alive \ {w} /\ outlived' = outlived \cup {c \in alive \ {w} : parent_[c] = w}
        /\ parent_' = [parent_ EXCEPT ![w] = None] /\ readded' = readded \ {w}
        /\ misremoved' = misremoved /\ w \in alive
    BY <1>6 DEF Destroy
  <2>2. \A v \in Window : children_'[v] =
          IF v = w THEN {} ELSE children_[v] \ (IF v = parent_[w] THEN {w} ELSE {})
    BY <1>6 DEF Destroy, Gone
  <2>3. ASSUME NEW v \in alive', parent_'[v] # None
        PROVE  \/ v \in outlived'
               \/ parent_'[v] \in alive' /\ (v \in children_'[parent_'[v]] \/ v \in readded')
    <3>1. v # w /\ v \in alive /\ v \in Window /\ parent_'[v] = parent_[v]
      BY <2>1, <2>3
    <3> QED
      BY <1>0, <2>1, <2>2, <2>3, <3>1
  <2>4. ASSUME NEW v \in alive', NEW c \in children_'[v]
        PROVE  c \in misremoved' \/ (c \in alive' /\ parent_'[c] = v)
    <3>1. v # w /\ v \in alive /\ v \in Window /\ c \in children_[v]
      BY <2>1, <2>2, <2>4
    <3> QED
      BY <1>0, <2>1, <2>2, <2>4, <3>1
  <2>5. DeadAreLoose'
    BY <1>0, <2>1, <2>2
  <2> QED
    BY <2>3, <2>4, <2>5
<1>7. CASE Led(w)
  BY <1>0, <1>7 DEF Led, treeVars, pastVars
<1>8. CASE Position(w)
  BY <1>0, <1>8 DEF Position, Follow, treeVars, pastVars
<1> QED
  BY <1>1, <1>2, <1>3, <1>4, <1>5, <1>6, <1>7, <1>8 DEF WindowStep

LEMMA MisuseStep ==
  ASSUME IInv, Next
  PROVE  UndefinedOnlyByMisuse'
<1> USE TreeAssumption DEF IInv
<1> SUFFICES ASSUME undefined'
             PROVE  outlived' # {} \/ misremoved' # {} \/ \E v \in Window : v \in Below(v)'
  BY DEF UndefinedOnlyByMisuse
<1>0. ~undefined
  BY DEF Next
<1>1. PICK w \in Window : WindowStep(w)
  BY DEF Next
<1>2. CASE \E p \in Window : Add(p, w)
  BY <1>0, <1>2, FollowedDead DEF Add
<1>3. CASE Move(w) \/ Destroy(w) \/ Position(w)
  BY <1>0, <1>3, FollowedDead DEF Move, Destroy, Position, treeVars, pastVars
<1>4. CASE Led(w)
  <2>1. PICK v \in {w} \cup Below(w) : children_[v] \ alive # {} \/ v \in Below(v)
    BY <1>4 DEF Led
  <2>2. v \in Window
    BY <2>1 DEF Below
  <2>3. CASE children_[v] \ alive # {}
    <3>1. v \in alive /\ v \in Window
      BY <1>0, <2>2, <2>3 DEF DeadAreLoose
    <3>2. misremoved # {}
      BY <1>0, <2>3, <3>1 DEF TreeAgrees
    <3> QED
      BY <1>4, <3>2 DEF Led, pastVars
  <2>4. CASE v \in Below(v)
    <3>1. children_' = children_
      BY <1>4 DEF Led, treeVars
    <3> QED
      BY <2>2, <2>4, <3>1, BelowKept
  <2> QED
    BY <2>1, <2>3, <2>4
<1>5. CASE \E p \in Window : Remove(p, w)
  BY <1>0, <1>5 DEF Remove
<1>6. CASE \E p \in Window \cup {None} : Create(w, p)
  BY <1>0, <1>6 DEF Create
<1> QED
  BY <1>1, <1>2, <1>3, <1>4, <1>5, <1>6 DEF WindowStep

(* The inductive invariant holds in every state.                           *)
THEOREM WindowSafety == Spec => []IInv
<1>1. Init => IInv
  BY TreeAssumption DEF Init, IInv, TypeOK, TreeAgrees, DeadAreLoose, UndefinedOnlyByMisuse
<1>2. IInv /\ [Next]_vars => IInv'
  <2> SUFFICES ASSUME IInv, [Next]_vars
               PROVE  IInv'
    OBVIOUS
  <2>1. CASE Next
    BY <2>1, TypeStep, AgreementStep, MisuseStep DEF IInv
  <2>2. CASE UNCHANGED vars
    BY <2>2, BelowKept DEF IInv, TypeOK, TreeAgrees, DeadAreLoose, UndefinedOnlyByMisuse, vars,
       treeVars, pastVars
  <2> QED
    BY <2>1, <2>2
<1> QED
  BY <1>1, <1>2, PTL DEF Spec

(* Every variable keeps its type.                                          *)
THEOREM WindowTypes == Spec => []TypeOK
<1>1. IInv => TypeOK
  BY DEF IInv
<1> QED
  BY <1>1, WindowSafety, PTL

(* add, remove, move and ~Window leave a child and its parent pointing at  *)
(* each other, save after the three misuses.                               *)
THEOREM Agreement == Spec => []TreeAgrees
<1>1. IInv => TreeAgrees
  BY DEF IInv
<1> QED
  BY <1>1, WindowSafety, PTL

(* No window that is gone is used, and led() returns, save after them.     *)
THEOREM Misuse == Spec => []UndefinedOnlyByMisuse
<1>1. IInv => UndefinedOnlyByMisuse
  BY DEF IInv
<1> QED
  BY <1>1, WindowSafety, PTL
=============================================================================
