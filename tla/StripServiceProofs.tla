------------------------- MODULE StripServiceProofs -------------------------
(***************************************************************************)
(* What holds of StripService for every panel, every set of threads, every *)
(* set of handlers in use, and any texts, numbers, offsets and rotations.  *)
(***************************************************************************)
EXTENDS StripService, TLAPS, StripIndexProofs

USE DEF geometry, settings

(* A job that was idle, or that a handler starts with. *)
LEMMA IdleJob == Idle \in Job /\ JobOK(Idle)
<1>1. 0 \in Ints
  BY ServiceAssumption DEF Ints
<1> QED BY <1>1, ServiceAssumption, PanelAssumption
        DEF Idle, Job, JobOK, Upright, Rotations, Degrees, Unlit, Handlers, Painters, Drawing

(* A thread between two handlers runs none.                                *)
LEMMA IdleOp == Idle.op = "none" /\ Idle.pc = "idle"
BY DEF Idle

(* A text or a number is a rectangle of cells, each with a colour.         *)
LEMMA ImageType ==
  ASSUME NEW i \in Images
  PROVE  /\ i.width \in Nat /\ i.height \in Nat
         /\ i.led \in [Cells(i) -> Color]
<1>1. PICK g \in Glyphs, c \in Color, b \in Color : i = Coloured(g, c, b)
  BY DEF Images
<1> QED BY <1>1, ServiceAssumption DEF Coloured, Cells

(* The loops of draw() over a source meet its cells only.                  *)
LEMMA CellBounds ==
  ASSUME NEW i \in Images, NEW x, NEW y, <<x, y>> \in Cells(i)
  PROVE  x \in Nat /\ x < i.width /\ y \in Nat /\ y < i.height
<1>1. i.width \in Nat /\ i.height \in Nat
  BY ImageType
<1>2. x \in 0 .. i.width - 1 /\ y \in 0 .. i.height - 1
  BY DEF Cells
<1> QED BY <1>1, <1>2

(* The history of the others stays a history. *)
LEMMA NotedType ==
  ASSUME TypeOK, NEW t \in Threads, NEW op \in Handlers
  PROVE  Noted(t, op) \in [Threads -> SUBSET Handlers]
BY DEF TypeOK, Noted

(* Taking up a handler leaves every thread with a job.                     *)
LEMMA StartType ==
  ASSUME TypeOK, NEW t \in Threads, NEW j \in Job, JobOK(j), j.op \in Handlers, Start(t, j)
  PROVE  /\ job' \in [Threads -> Job] /\ \A u \in Threads : JobOK(job'[u])
         /\ met' \in [Threads -> SUBSET Handlers]
<1>1. Noted(t, j.op) \in [Threads -> SUBSET Handlers]
  BY NotedType
<1>2. {job[u].op : u \in {v \in Threads \ {t} : Busy(v)}} \subseteq Handlers
  <2>1. ASSUME NEW v \in Threads, Busy(v) PROVE job[v].op \in Handlers
    <3>1. job[v].op \in Handlers \cup {"none"}
      BY DEF TypeOK, Job
    <3>2. job[v].op # "none"
      <4>1. JobOK(job[v]) /\ job[v].pc # "idle"
        BY <2>1 DEF TypeOK, Busy
      <4> QED BY <4>1, IdleOp DEF JobOK
    <3> QED BY <3>1, <3>2
  <2> QED BY <2>1
<1> QED BY <1>1, <1>2 DEF Start, TypeOK

(* So does going on with it.                                               *)
LEMMA ContinueType ==
  ASSUME TypeOK, NEW t \in Threads, NEW j \in Job, JobOK(j), Continue(t, j)
  PROVE  /\ job' \in [Threads -> Job] /\ \A u \in Threads : JobOK(job'[u])
         /\ met' \in [Threads -> SUBSET Handlers]
BY DEF Continue, TypeOK

(* So does returning from it.                                              *)
LEMMA ReturnType ==
  ASSUME TypeOK, NEW t \in Threads, Return(t)
  PROVE  /\ job' \in [Threads -> Job] /\ \A u \in Threads : JobOK(job'[u])
         /\ met' \in [Threads -> SUBSET Handlers]
BY IdleJob DEF Return, TypeOK

(* The clients' coordinates suit the strip in every orientation.           *)
Suited ==
  /\ \A p \in Pixels : {p[1], p[2]} \subseteq (0 .. W - 1) \cap (0 .. H - 1)
  /\ \A o \in Offsets, g \in Glyphs :
       /\ o[1] >= 0 /\ o[1] + g.width - 1 <= MaxInt
       /\ o[2] >= 0 /\ o[2] + g.height - 1 <= MaxInt

(* So do those of a handler that is under way.                             *)
Fits(j) ==
  /\ j.op \in {"draw_pixel", "pixel"} => {j.ox, j.oy} \subseteq (0 .. W - 1) \cap (0 .. H - 1)
  /\ Drawing(j) => /\ j.ox >= 0 /\ j.ox + j.image.width - 1 <= MaxInt
                   /\ j.oy >= 0 /\ j.oy + j.image.height - 1 <= MaxInt

(* What a request starts with: a job at the beginning of its loop, and not  *)
(* a rotation; a pixel is inside the panel if its coordinates suit it.      *)
Fresh(j) ==
  /\ j \in Job /\ JobOK(j)
  /\ j.op \in Handlers \ {"set_rotate"} /\ j.pc \in {"row", "load", "scan"}
  /\ j.pc = "row" => j.y = 0
  /\ j.pc = "scan" => j.x = 0
  /\ j.pc = "load" => j.op \in {"draw_pixel", "pixel"}
  /\ j.pc = "load" /\ Placed(j) =>
       j.oy + j.y \in 0 .. logic_height - 1 /\ j.ox + j.x \in 0 .. logic_width - 1
  /\ Suited => Fits(j)

(* The render handler and the render thread start with a scan.             *)
LEMMA FreshRender == Fresh([Idle EXCEPT !.op = "render", !.pc = "scan"])
BY IdleJob DEF Fresh, Idle, Job, JobOK, Drawing, Handlers, Painters, Fits

(* Every request that Receive takes up starts a job of that kind.          *)
LEMMA ReceiveStarts ==
  ASSUME TypeOK, NEW t \in IoThreads, Receive(t)
  PROVE  \E j : Fresh(j) /\ Start(t, j)
<1>1. CASE Start(t, [Idle EXCEPT !.op = "clear", !.pc = "row"])
  <2> DEFINE j == [Idle EXCEPT !.op = "clear", !.pc = "row"]
  <2>1. Fresh(j)
    BY IdleJob DEF Fresh, Idle, Job, JobOK, Drawing, Handlers, Painters, Fits
  <2> HIDE DEF j
  <2> QED BY <1>1, <2>1 DEF j
<1>2. ASSUME NEW g \in Glyphs, NEW o \in Offsets, NEW c \in Color, NEW b \in Color,
             NEW op \in {"draw_text", "draw_number"},
             Start(t, [Idle EXCEPT !.op = op, !.pc = "row", !.ox = o[1], !.oy = o[2],
                                   !.image = Coloured(g, c, b)])
      PROVE  \E j : Fresh(j) /\ Start(t, j)
  <2> DEFINE i == Coloured(g, c, b)
             j == [Idle EXCEPT !.op = op, !.pc = "row", !.ox = o[1], !.oy = o[2], !.image = i]
  <2>1. i \in Images /\ o[1] \in Ints /\ o[2] \in Ints
    BY ServiceAssumption DEF Images
  <2>3. i.width = g.width /\ i.height = g.height
    BY DEF Coloured
  <2> HIDE DEF i
  <2>4. /\ j \in Job /\ JobOK(j) /\ j.op = op /\ j.pc = "row" /\ j.y = 0
        /\ j.ox = o[1] /\ j.oy = o[2] /\ j.image = i
    BY <2>1, IdleJob DEF Idle, Job, JobOK, Drawing, Handlers, Painters
  <2> HIDE DEF j
  <2>2. Fresh(j)
    BY <2>3, <2>4 DEF Fresh, Handlers, Painters, Suited, Fits
  <2> QED BY <1>2, <2>2 DEF i, j
<1>3. ASSUME NEW q \in Pixels, NEW op \in {"draw_pixel", "pixel"}, NEW c \in Color,
             Start(t, [Idle EXCEPT !.op = op, !.pc = "load", !.ox = q[1], !.oy = q[2], !.ink = c])
      PROVE  \E j : Fresh(j) /\ Start(t, j)
  <2> DEFINE j == [Idle EXCEPT !.op = op, !.pc = "load", !.ox = q[1], !.oy = q[2], !.ink = c]
  <2>1. q[1] \in Ints /\ q[2] \in Ints /\ q[1] + 0 = q[1] /\ q[2] + 0 = q[2]
    BY ServiceAssumption DEF Ints
  <2>2. j \in Job /\ JobOK(j) /\ j.op = op /\ j.pc = "load"
    BY <2>1, IdleJob DEF Idle, Job, JobOK, Drawing, Handlers, Painters
  <2>3. j.ox = q[1] /\ j.oy = q[2] /\ j.x = 0 /\ j.y = 0
    BY DEF Idle
  <2> HIDE DEF j
  <2>4. Fresh(j)
    BY <2>1, <2>2, <2>3 DEF Fresh, Handlers, Painters, Placed, Suited, Fits, Drawing
  <2> QED BY <1>3, <2>4 DEF j
<1>4. CASE Start(t, [Idle EXCEPT !.op = "render", !.pc = "scan"])
  BY <1>4, FreshRender
<1> QED BY <1>1, <1>2, <1>3, <1>4 DEF Receive

-----------------------------------------------------------------------------
(* The program main() sets up has its types.                               *)
LEMMA TypeInit == Init => TypeOK
<1> SUFFICES ASSUME Init PROVE TypeOK
  OBVIOUS
<1>1. Unlit \in [Positions -> Color] /\ Upright \in Rotations
  BY ServiceAssumption DEF Unlit, Upright, Rotations, Degrees
<1> QED BY <1>1, IdleJob, ServiceAssumption DEF Init, TypeOK

(* And every step of every thread keeps them.                              *)
LEMMA TypeNext == TypeOK /\ [Next]_vars => TypeOK'
<1> SUFFICES ASSUME TypeOK, [Next]_vars PROVE TypeOK'
  OBVIOUS
<1> DEFINE JobsOK == /\ job' \in [Threads -> Job] /\ \A u \in Threads : JobOK(job'[u])
                     /\ met' \in [Threads -> SUBSET Handlers]
<1>1. CASE AutoRender
  <2>1. JobsOK
    <3> DEFINE j == [Idle EXCEPT !.op = "render", !.pc = "scan"]
    <3>1. Fresh(j) /\ Start(RenderThread, j) /\ RenderThread \in Threads
      BY <1>1, FreshRender DEF AutoRender, Threads
    <3> HIDE DEF j
    <3> QED BY <3>1, StartType DEF Fresh
  <2> QED BY <1>1, <2>1 DEF AutoRender, TypeOK
<1>2. ASSUME NEW t \in IoThreads, Request(t) PROVE TypeOK'
  <2> t \in Threads
    BY DEF Threads
  <2>1. CASE Receive(t)
    <3>1. JobsOK
      BY <2>1, ReceiveStarts, StartType DEF Fresh
    <3> QED BY <2>1, <3>1 DEF Receive, TypeOK
  <2>2. CASE SetRotate(t)
    <3>1. PICK r \in Turns :
            Start(t, [Idle EXCEPT !.op = "set_rotate", !.pc = "store", !.rotation = r])
      BY <2>2 DEF SetRotate
    <3> DEFINE j == [Idle EXCEPT !.op = "set_rotate", !.pc = "store", !.rotation = r]
    <3>2. j \in Job /\ JobOK(j) /\ j.op \in Handlers
      BY IdleJob, ServiceAssumption DEF Idle, Job, JobOK, Drawing, Handlers
    <3> HIDE DEF j
    <3>3. JobsOK
      BY <3>1, <3>2, StartType DEF j
    <3> QED BY <2>2, <3>3 DEF SetRotate, TypeOK
  <2>3. CASE SetTransparent(t)
    BY <2>3, NotedType DEF SetTransparent, TypeOK, Handlers
  <2>4. CASE SetBackground(t)
    BY <2>4, NotedType DEF SetBackground, TypeOK, Handlers
  <2>5. CASE SetAutoRender(t)
    BY <2>5, NotedType DEF SetAutoRender, TypeOK, Handlers
  <2> QED BY <1>2, <2>1, <2>2, <2>3, <2>4, <2>5 DEF Request
<1>3. ASSUME NEW t \in Threads, Proceed(t) PROVE TypeOK'
  <2> DEFINE j == job[t]
  <2>0. j \in Job /\ JobOK(j) /\ (j.pc # "idle" => j.op # "none")
    BY IdleOp DEF TypeOK, JobOK
  <2>1. CASE ClearRow(t)
    <3>1. [j EXCEPT !.pc = "col", !.x = 0] \in Job /\ JobOK([j EXCEPT !.pc = "col", !.x = 0])
      BY <2>0, <2>1 DEF ClearRow, Job, JobOK, Drawing
    <3>2. JobsOK
      BY <2>1, <3>1, ContinueType, ReturnType DEF ClearRow
    <3> QED BY <2>1, <3>2 DEF ClearRow, TypeOK
  <2>2. CASE ClearCol(t)
    <3>1. [j EXCEPT !.pc = "ink"] \in Job /\ JobOK([j EXCEPT !.pc = "ink"])
      BY <2>0, <2>2 DEF ClearCol, Job, JobOK, Drawing
    <3>2. [j EXCEPT !.pc = "row", !.y = @ + 1] \in Job /\ JobOK([j EXCEPT !.pc = "row", !.y = @ + 1])
      <4>1. j.y + 1 \in Nat
        BY <2>0 DEF Job
      <4> QED BY <2>0, <2>2, <4>1 DEF ClearCol, Job, JobOK, Drawing
    <3>3. JobsOK
      BY <2>2, <3>1, <3>2, ContinueType DEF ClearCol
    <3> QED BY <2>2, <3>3 DEF ClearCol, TypeOK
  <2>3. CASE ClearInk(t)
    <3>1. [j EXCEPT !.pc = "load", !.ink = back] \in Job /\ JobOK([j EXCEPT !.pc = "load", !.ink = back])
      BY <2>0, <2>3 DEF ClearInk, Job, JobOK, Drawing, TypeOK
    <3>2. JobsOK
      BY <2>3, <3>1, ContinueType DEF ClearInk
    <3> QED BY <2>3, <3>2 DEF ClearInk, TypeOK
  <2>4. CASE DrawRow(t)
    <3>1. [j EXCEPT !.y = @ + 1] \in Job /\ JobOK([j EXCEPT !.y = @ + 1])
      <4>1. j.y + 1 \in Nat
        BY <2>0 DEF Job
      <4> QED BY <2>0, <2>4, <4>1 DEF DrawRow, Job, JobOK, Drawing
    <3>2. ASSUME j.y < j.image.height
          PROVE  [j EXCEPT !.pc = "col", !.x = 0] \in Job /\ JobOK([j EXCEPT !.pc = "col", !.x = 0])
      BY <2>0, <2>4, <3>2 DEF DrawRow, Job, JobOK, Drawing
    <3>0. j.y \in Nat /\ j.image.height \in Nat
      BY <2>0, <2>4, ImageType DEF DrawRow, Job, JobOK
    <3>3. JobsOK
      BY <2>4, <3>0, <3>1, <3>2, ContinueType, ReturnType DEF DrawRow
    <3> QED BY <2>4, <3>3 DEF DrawRow, TypeOK
  <2>5. CASE DrawCol(t)
    <3>1. [j EXCEPT !.pc = "row", !.y = @ + 1] \in Job /\ JobOK([j EXCEPT !.pc = "row", !.y = @ + 1])
      <4>1. j.y + 1 \in Nat
        BY <2>0 DEF Job
      <4> QED BY <2>0, <2>5, <4>1 DEF DrawCol, Job, JobOK, Drawing
    <3>2. [j EXCEPT !.x = @ + 1] \in Job /\ JobOK([j EXCEPT !.x = @ + 1])
      <4>1. j.x + 1 \in Nat
        BY <2>0 DEF Job
      <4> QED BY <2>0, <2>5, <4>1 DEF DrawCol, Job, JobOK, Drawing
    <3>0. j.x \in Nat /\ j.y \in Nat /\ j.image.width \in Nat /\ j.image.height \in Nat
      BY <2>0, <2>5, ImageType DEF DrawCol, Job, JobOK
    <3>3. ASSUME j.x < j.image.width
          PROVE  [j EXCEPT !.pc = "ink"] \in Job /\ JobOK([j EXCEPT !.pc = "ink"])
      <4>1. <<j.x, j.y>> \in Cells(j.image)
        BY <2>0, <2>5, <3>0, <3>3 DEF DrawCol, JobOK, Cells
      <4> QED BY <2>0, <2>5, <4>1 DEF DrawCol, Job, JobOK, Drawing
    <3>4. JobsOK
      BY <2>5, <3>0, <3>1, <3>2, <3>3, ContinueType DEF DrawCol
    <3> QED BY <2>5, <3>4 DEF DrawCol, TypeOK
  <2>6. CASE DrawInk(t)
    <3>1. [j EXCEPT !.pc = "test"] \in Job /\ JobOK([j EXCEPT !.pc = "test"])
      BY <2>0, <2>6 DEF DrawInk, Job, JobOK, Drawing
    <3>2. [j EXCEPT !.pc = "load", !.ink = Cell(j)] \in Job /\ JobOK([j EXCEPT !.pc = "load", !.ink = Cell(j)])
      <4>1. Cell(j) \in Color
        BY <2>0, <2>6, ImageType DEF DrawInk, JobOK, Cell
      <4> QED BY <2>0, <2>6, <4>1 DEF DrawInk, Job, JobOK, Drawing
    <3>3. JobsOK
      BY <2>6, <3>1, <3>2, ContinueType DEF DrawInk
    <3> QED BY <2>6, <3>3 DEF DrawInk, TypeOK
  <2>16. CASE DrawTest(t)
    <3>0. Drawing(j) /\ j.pc = "test"
      BY <2>0, <2>16 DEF DrawTest, JobOK
    <3>1. [j EXCEPT !.pc = "col", !.x = @ + 1] \in Job /\ JobOK([j EXCEPT !.pc = "col", !.x = @ + 1])
      <4>1. j.x + 1 \in Nat /\ j.y < j.image.height
        BY <2>0, <3>0, CellBounds DEF JobOK
      <4> QED BY <2>0, <3>0, <4>1 DEF Job, JobOK, Drawing
    <3>2. [j EXCEPT !.pc = "load", !.ink = Cell(j)] \in Job /\ JobOK([j EXCEPT !.pc = "load", !.ink = Cell(j)])
      <4>1. Cell(j) \in Color
        BY <2>0, <3>0, ImageType DEF JobOK, Cell
      <4> QED BY <2>0, <3>0, <4>1 DEF Job, JobOK, Drawing
    <3>3. JobsOK
      BY <2>16, <3>1, <3>2, ContinueType DEF DrawTest
    <3> QED BY <2>16, <3>3 DEF DrawTest, TypeOK
  <2>17. CASE Overflow(t)
    <3>1. [j EXCEPT !.pc = "undefined"] \in Job /\ JobOK([j EXCEPT !.pc = "undefined"])
      BY <2>0, <2>17 DEF Overflow, Job, JobOK, Drawing
    <3>2. JobsOK
      BY <2>17, <3>1, ContinueType DEF Overflow
    <3> QED BY <2>17, <3>2 DEF Overflow, TypeOK
  <2>7. CASE LoadHelper(t)
    <3>1. [j EXCEPT !.pc = "access", !.held = helper, !.freed = FALSE] \in Job /\ JobOK([j EXCEPT !.pc = "access", !.held = helper, !.freed = FALSE])
      <4>1. helper \in Rotations
        BY DEF TypeOK
      <4> QED BY <2>0, <2>7, <4>1 DEF LoadHelper, Job, JobOK, Drawing
    <3>2. JobsOK
      BY <2>7, <3>1, ContinueType DEF LoadHelper
    <3> QED BY <2>7, <3>2 DEF LoadHelper, TypeOK
  <2>8. CASE Access(t)
    <3>1. ASSUME j.op \notin {"pixel", "draw_pixel"}
          PROVE  [j EXCEPT !.pc = "col", !.x = @ + 1] \in Job /\ JobOK([j EXCEPT !.pc = "col", !.x = @ + 1])
      <4>1. j.x + 1 \in Nat /\ j.pc = "access" /\ (Drawing(j) => j.y < j.image.height)
        <5>1. j.x \in Nat
          BY <2>0 DEF Job
        <5>2. Drawing(j) => j.y < j.image.height
          BY <2>0, <2>8, CellBounds DEF Access, JobOK
        <5> QED BY <2>8, <5>1, <5>2 DEF Access
      <4> QED BY <2>0, <2>8, <3>1, <4>1 DEF Access, Job, JobOK, Drawing
    <3>2. JobsOK
      BY <2>8, <3>1, ContinueType, ReturnType DEF Access
    <3>3. j.ink \in Color
      BY <2>0 DEF Job
    <3>4. leds' \in [Positions -> Color]
      BY <2>8, <3>3 DEF Access, TypeOK
    <3> QED BY <2>8, <3>2, <3>4 DEF Access, TypeOK
  <2>9. CASE Stray(t)
    <3>1. [j EXCEPT !.pc = "undefined"] \in Job /\ JobOK([j EXCEPT !.pc = "undefined"])
      BY <2>0, <2>9 DEF Stray, Job, JobOK, Drawing
    <3>2. JobsOK
      BY <2>9, <3>1, ContinueType DEF Stray
    <3> QED BY <2>9, <3>2 DEF Stray, TypeOK
  <2>10. CASE DoubleRelease(t)
    <3>1. [j EXCEPT !.pc = "undefined"] \in Job /\ JobOK([j EXCEPT !.pc = "undefined"])
      BY <2>0, <2>10 DEF DoubleRelease, Job, JobOK, Drawing
    <3>2. JobsOK
      BY <2>10, <3>1, ContinueType DEF DoubleRelease
    <3> QED BY <2>10, <3>2 DEF DoubleRelease, TypeOK
  <2>11. CASE SetLogicWidth(t)
    <3>1. [j EXCEPT !.pc = "lh"] \in Job /\ JobOK([j EXCEPT !.pc = "lh"])
      BY <2>0, <2>11 DEF SetLogicWidth, Job, JobOK, Drawing
    <3>2. JobsOK
      BY <2>11, <3>1, ContinueType DEF SetLogicWidth
    <3> QED BY <2>11, <3>2 DEF SetLogicWidth, TypeOK, LogicWidth
  <2>12. CASE SetLogicHeight(t)
    BY <2>12, ReturnType DEF SetLogicHeight, TypeOK, LogicHeight
  <2>13. CASE StoreHelper(t)
    <3>1. [j EXCEPT !.pc = "lw"] \in Job /\ JobOK([j EXCEPT !.pc = "lw"])
      BY <2>0, <2>13 DEF StoreHelper, Job, JobOK, Drawing
    <3>2. ASSUME NEW u \in Threads, Holding(u)
          PROVE  [job[u] EXCEPT !.freed = TRUE] \in Job /\ JobOK([job[u] EXCEPT !.freed = TRUE])
      <4>1. job[u] \in Job /\ JobOK(job[u]) /\ job[u].pc \in {"access", "store"}
        BY <3>2 DEF TypeOK, Holding
      <4>2. job[u].op # "none"
        BY <4>1, IdleOp DEF JobOK
      <4> QED BY <4>1, <4>2 DEF Job, JobOK, Drawing
    <3>3. j.rotation \in Rotations
      BY <2>0 DEF Job
    <3>4. JobsOK
      BY <2>13, <3>1, <3>2 DEF StoreHelper, TypeOK
    <3> QED BY <2>13, <3>3, <3>4 DEF StoreHelper, TypeOK
  <2>14. CASE Scan(t)
    <3>1. [j EXCEPT !.x = @ + 1, !.frame[j.x] = leds[j.x]] \in Job /\ JobOK([j EXCEPT !.x = @ + 1, !.frame[j.x] = leds[j.x]])
      <4>1. j.x + 1 \in Nat /\ [j.frame EXCEPT ![j.x] = leds[j.x]] \in [Positions -> Color]
        BY <2>0, <2>14 DEF Job, Scan, TypeOK
      <4> QED BY <2>0, <2>14, <4>1 DEF Scan, Job, JobOK, Drawing
    <3>2. JobsOK
      BY <2>14, <3>1, ContinueType DEF Scan
    <3> QED BY <2>14, <3>2 DEF Scan, TypeOK
  <2>15. CASE Show(t)
    <3>1. j.frame \in [Positions -> Color]
      BY <2>0 DEF Job
    <3> QED BY <2>15, <3>1, ReturnType DEF Show, TypeOK
  <2> QED BY <1>3, <2>1, <2>2, <2>3, <2>4, <2>5, <2>6, <2>7, <2>8, <2>9, <2>10, <2>11, <2>12, <2>13, <2>14, <2>15, <2>16, <2>17
          DEF Proceed, Paint, Rotate
<1>4. CASE UNCHANGED vars
  BY <1>4 DEF vars, TypeOK, JobOK
<1> QED BY <1>1, <1>2, <1>3, <1>4 DEF Next, Halted

(* Every variable keeps its type and every thread stays where its handler  *)
(* goes, whatever the interleaving.                                        *)
THEOREM TypeCorrect == Spec => []TypeOK
BY TypeInit, TypeNext, PTL DEF Spec
-----------------------------------------------------------------------------
(* The inductive invariant: each part needs the others. *)
SafetyInv == Support /\ GeometryAgrees /\ StrayOnlyByMisuse

(* How the parts of SafetyInv survive each kind of step. *)
LEMMA StartSafe ==
  ASSUME TypeOK, SafetyInv, NEW t \in Threads, NEW j \in Job, Start(t, j),
         UNCHANGED <<geometry, mixed>>,
         j.pc \in {"row", "load", "store", "scan"},
         j.op = "set_rotate" => j.pc = "store" /\ ~j.freed,
         j.pc = "load" /\ Placed(j) =>
           j.oy + j.y \in 0 .. logic_height - 1 /\ j.ox + j.x \in 0 .. logic_width - 1
  PROVE  SafetyInv'
<1>1. /\ job'[t] = j
      /\ \A u \in Threads : u # t => job'[u] = job[u]
  BY DEF Start, TypeOK
<1>2. /\ \A u \in Threads : u # t => (Torn(u) => Torn(u)')
      /\ \A u \in Threads : u # t /\ Busy(u) /\ j.op = "set_rotate" => Torn(u)'
      /\ \A u \in Threads : u # t /\ Busy(u) /\ job[u].op = "set_rotate" => Torn(t)'
  <2>1. ASSUME NEW u \in Threads, u # t
        PROVE  met'[u] = IF Busy(u) THEN met[u] \cup {j.op} ELSE met[u]
    BY <2>1 DEF Start, Noted, TypeOK
  <2>2. met'[t] = {job[u].op : u \in {v \in Threads \ {t} : Busy(v)}}
    BY DEF Start, Noted, TypeOK
  <2> QED BY <2>1, <2>2 DEF Torn
<1>3. RotatorsMeet'
  <2> SUFFICES ASSUME NEW u \in Threads, NEW v \in Threads, u # v, Rotating(u)', Busy(v)'
               PROVE  Torn(v)'
    BY DEF RotatorsMeet
  <2>1. CASE u = t
    BY <2>1, <1>1, <1>2 DEF Rotating, Busy
  <2>2. CASE v = t
    <3>1. job[u] = job'[u] /\ job[u].op = "set_rotate"
      BY <2>2, <1>1 DEF Rotating
    <3>2. Busy(u)
      BY <3>1, IdleOp DEF TypeOK, JobOK, Busy
    <3> QED BY <2>2, <3>1, <3>2, <1>2
  <2>3. CASE u # t /\ v # t
    BY <2>3, <1>1, <1>2 DEF SafetyInv, Support, RotatorsMeet, Rotating, Busy
  <2> QED BY <2>1, <2>2, <2>3
<1>4. RotationStaged'
  BY <1>1, <1>2 DEF SafetyInv, Support, RotationStaged, Rotating
<1>5. CursorInside'
  <2> SUFFICES ASSUME NEW u \in Threads, ~Torn(u)', ~mixed, Placed(job'[u])
               PROVE  LET k == job'[u] IN
                      /\ k.pc \in {"col", "ink", "test", "load", "access"} => k.oy + k.y \in 0 .. logic_height - 1
                      /\ k.pc \in {"ink", "test", "load", "access"} => k.ox + k.x \in 0 .. logic_width - 1
                      /\ k.pc = "access" => k.held = helper /\ ~k.freed
    BY DEF CursorInside, Placed
  <2> QED BY <1>1, <1>2 DEF SafetyInv, Support, CursorInside
<1>6. GeometryAgrees'
  <2>1. (\A u \in Threads : ~Rotating(u))' => \A u \in Threads : ~Rotating(u)
    <3>1. ~Rotating(t)
      BY IdleOp DEF Start, Busy, TypeOK, JobOK, Rotating
    <3> QED BY <3>1, <1>1 DEF Rotating
  <2> QED BY <2>1 DEF SafetyInv, GeometryAgrees
<1>7. StrayOnlyByMisuse'
  BY <1>1, <1>2 DEF SafetyInv, StrayOnlyByMisuse, Placed
<1> QED BY <1>3, <1>4, <1>5, <1>6, <1>7 DEF SafetyInv, Support

(* What a step inside a handler leaves alone. *)
Alike(k, j) == k.op = j.op /\ k.ox = j.ox /\ k.oy = j.oy /\ k.image = j.image

(* A handler that nothing excuses. *)
Clean(t) == ~Torn(t) /\ ~mixed /\ Placed(job[t])

(* The coordinates of a handler keep suiting the strip while the geometry  *)
(* stays.                                                                  *)
LEMMA AlikePlaced ==
  ASSUME NEW j, NEW k, Alike(k, j)
  PROVE  Placed(k) <=> Placed(j)
BY DEF Alike, Placed, Drawing

(* A step inside a handler that leaves the geometry alone keeps the        *)
(* invariant, if it checks the coordinate that it goes on with.            *)
LEMMA ContinueSafe ==
  ASSUME TypeOK, SafetyInv, NEW t \in Threads, NEW j \in Job, Continue(t, j),
         UNCHANGED <<geometry, mixed>>,
         Busy(t), j.pc # "idle", Alike(j, job[t]),
         Rotating(t) => j.pc = "undefined",
         j.pc = "undefined" => Torn(t) \/ mixed \/ ~Placed(job[t]),
         Clean(t) =>
           /\ j.pc \in {"col", "ink", "test", "load", "access"} => j.oy + j.y \in 0 .. logic_height - 1
           /\ j.pc \in {"ink", "test", "load", "access"} => j.ox + j.x \in 0 .. logic_width - 1
           /\ j.pc = "access" => j.held = helper /\ ~j.freed
  PROVE  SafetyInv'
<1>1. /\ job'[t] = j
      /\ \A u \in Threads : u # t => job'[u] = job[u]
      /\ met' = met
  BY DEF Continue, TypeOK
<1>2. \A u \in Threads : (Rotating(u)' <=> Rotating(u)) /\ (Torn(u)' <=> Torn(u)) /\ (Busy(u)' <=> Busy(u))
  BY <1>1 DEF Rotating, Torn, Busy, Alike
<1>0. \A u \in Threads : Placed(job[u])' <=> Placed(job[u])
  <2>1. ASSUME NEW u \in Threads PROVE Placed(job'[u]) <=> Placed(job[u])
    BY <1>1, AlikePlaced
  <2>2. ASSUME NEW u \in Threads PROVE Placed(job[u])' <=> Placed(job'[u])
    BY DEF Placed
  <2> QED BY <2>1, <2>2
<1>3. RotatorsMeet'
  BY <1>2 DEF SafetyInv, Support, RotatorsMeet
<1>4. RotationStaged'
  BY <1>1, <1>2 DEF SafetyInv, Support, RotationStaged
<1>5. CursorInside'
  BY <1>0, <1>1, <1>2 DEF SafetyInv, Support, CursorInside, Clean
<1>6. GeometryAgrees'
  BY <1>2 DEF SafetyInv, GeometryAgrees
<1>7. StrayOnlyByMisuse'
  BY <1>0, <1>1, <1>2 DEF SafetyInv, StrayOnlyByMisuse
<1> QED BY <1>3, <1>4, <1>5, <1>6, <1>7 DEF SafetyInv, Support

(* A handler other than set_rotate can return at any point.                *)
LEMMA ReturnSafe ==
  ASSUME TypeOK, SafetyInv, NEW t \in Threads, Return(t), ~Rotating(t),
         UNCHANGED <<geometry, mixed>>
  PROVE  SafetyInv'
<1>1. /\ job'[t] = Idle
      /\ \A u \in Threads : u # t => job'[u] = job[u] /\ met'[u] = met[u]
  BY DEF Return, TypeOK
<1>2. \A u \in Threads : u # t =>
        (Rotating(u)' <=> Rotating(u)) /\ (Torn(u)' <=> Torn(u)) /\ (Busy(u)' <=> Busy(u))
  BY <1>1 DEF Rotating, Torn, Busy
<1>3. ~Rotating(t)' /\ ~Busy(t)' /\ job'[t].pc = "idle"
  BY <1>1, IdleOp DEF Rotating, Busy
<1>4. RotatorsMeet'
  BY <1>2, <1>3 DEF SafetyInv, Support, RotatorsMeet
<1>5. RotationStaged'
  BY <1>1, <1>2, <1>3 DEF SafetyInv, Support, RotationStaged
<1>0. \A u \in Threads : u # t => (Placed(job[u])' <=> Placed(job[u]))
  BY <1>1 DEF Placed
<1>6. CursorInside'
  BY <1>0, <1>1, <1>2, <1>3 DEF SafetyInv, Support, CursorInside
<1>7. GeometryAgrees'
  BY <1>2 DEF SafetyInv, GeometryAgrees
<1>8. StrayOnlyByMisuse'
  BY <1>0, <1>1, <1>2, <1>3 DEF SafetyInv, StrayOnlyByMisuse
<1> QED BY <1>4, <1>5, <1>6, <1>7, <1>8 DEF SafetyInv, Support

(* A handler that sets one variable at once only adds to the history.      *)
LEMMA NotedSafe ==
  ASSUME TypeOK, SafetyInv, NEW t \in Threads, NEW op, met' = Noted(t, op),
         UNCHANGED <<geometry, mixed, job>>
  PROVE  SafetyInv'
<1>1. \A u \in Threads : (Rotating(u)' <=> Rotating(u)) /\ (Torn(u) => Torn(u)') /\ (Busy(u)' <=> Busy(u))
  BY DEF Rotating, Torn, Busy, Noted
<1>2. RotatorsMeet'
  BY <1>1 DEF SafetyInv, Support, RotatorsMeet
<1>3. RotationStaged'
  BY <1>1 DEF SafetyInv, Support, RotationStaged
<1>0. \A u \in Threads : Placed(job[u])' <=> Placed(job[u])
  BY DEF Placed
<1>4. CursorInside'
  BY <1>0, <1>1 DEF SafetyInv, Support, CursorInside
<1>5. GeometryAgrees'
  BY <1>1 DEF SafetyInv, GeometryAgrees
<1>6. StrayOnlyByMisuse'
  BY <1>0, <1>1 DEF SafetyInv, StrayOnlyByMisuse
<1> QED BY <1>2, <1>3, <1>4, <1>5, <1>6 DEF SafetyInv, Support

(* The steps of set_rotate: whoever is busy meanwhile is Torn, so only the *)
(* rotating thread itself has something to show.                           *)
LEMMA StoreSafe ==
  ASSUME TypeOK, SafetyInv, NEW t \in Threads, StoreHelper(t)
  PROVE  SafetyInv'
<1>1. /\ job[t].pc = "store" /\ job'[t] = [job[t] EXCEPT !.pc = "lw"]
      /\ Rotating(t) /\ Busy(t)
  BY DEF StoreHelper, TypeOK, JobOK, Rotating, Busy
<1>2. ASSUME NEW u \in Threads, u # t
      PROVE  job'[u].pc = job[u].pc /\ job'[u].op = job[u].op /\ (Busy(u) => Torn(u))
  <2>1. job'[u] = job[u] \/ job'[u] = [job[u] EXCEPT !.freed = TRUE]
    BY <1>2 DEF StoreHelper
  <2>2. job[u] \in Job
    BY DEF TypeOK
  <2> QED BY <1>1, <1>2, <2>1, <2>2 DEF SafetyInv, Support, RotatorsMeet, Job
<1>3. job'[t].op = job[t].op /\ job'[t].pc = "lw" /\ job'[t].rotation = job[t].rotation
  <2>1. job[t] \in Job
    BY DEF TypeOK
  <2> QED BY <1>1, <2>1 DEF Job
<1>4. \A u \in Threads : (Rotating(u)' <=> Rotating(u)) /\ (Torn(u)' <=> Torn(u)) /\ (Busy(u)' <=> Busy(u))
  BY <1>1, <1>2, <1>3 DEF StoreHelper, Rotating, Torn, Busy
<1>5. RotatorsMeet'
  BY <1>4 DEF SafetyInv, Support, RotatorsMeet
<1>6. RotationStaged'
  <2> SUFFICES ASSUME NEW u \in Threads, Rotating(u)', ~Torn(u)'
               PROVE  /\ job'[u].pc = "store" => ~job'[u].freed
                      /\ job'[u].pc \in {"lw", "lh"} => helper' = job'[u].rotation
                      /\ job'[u].pc = "lh" => logic_width' = LogicWidth(job'[u].rotation)
    BY DEF RotationStaged
  <2>1. CASE u = t
    BY <2>1, <1>3 DEF StoreHelper
  <2>2. CASE u # t
    <3>1. job[u].op = "set_rotate" /\ job[u].pc = "idle"
      BY <2>2, <1>2, <1>4 DEF Rotating, Busy
    <3> QED BY <2>2, <3>1, <1>2
  <2> QED BY <2>1, <2>2
<1>7. CursorInside'
  BY <1>2, <1>3, <1>4 DEF CursorInside, Busy
<1>8. GeometryAgrees'
  BY <1>1, <1>4 DEF GeometryAgrees
<1>9. StrayOnlyByMisuse'
  BY <1>2, <1>3, <1>4 DEF StrayOnlyByMisuse, Busy
<1> QED BY <1>5, <1>6, <1>7, <1>8, <1>9 DEF SafetyInv, Support

(* set_rotate stores the logical width.                                    *)
LEMMA WidthSafe ==
  ASSUME TypeOK, SafetyInv, NEW t \in Threads, SetLogicWidth(t)
  PROVE  SafetyInv'
<1>1. /\ job[t].pc = "lw" /\ Rotating(t) /\ Busy(t) /\ met' = met
      /\ \A u \in Threads : u # t => job'[u] = job[u]
  BY DEF SetLogicWidth, Continue, TypeOK, JobOK, Rotating, Busy
<1>2. job'[t].op = job[t].op /\ job'[t].pc = "lh" /\ job'[t].rotation = job[t].rotation
  BY DEF SetLogicWidth, Continue, TypeOK, Job
<1>3. \A u \in Threads : u # t /\ Busy(u) => Torn(u)
  BY <1>1 DEF SafetyInv, Support, RotatorsMeet
<1>4. \A u \in Threads : (Rotating(u)' <=> Rotating(u)) /\ (Torn(u)' <=> Torn(u)) /\ (Busy(u)' <=> Busy(u))
  BY <1>1, <1>2 DEF Rotating, Torn, Busy
<1>5. RotatorsMeet'
  BY <1>4 DEF SafetyInv, Support, RotatorsMeet
<1>6. RotationStaged'
  <2> SUFFICES ASSUME NEW u \in Threads, Rotating(u)', ~Torn(u)'
               PROVE  /\ job'[u].pc = "store" => ~job'[u].freed
                      /\ job'[u].pc \in {"lw", "lh"} => helper' = job'[u].rotation
                      /\ job'[u].pc = "lh" => logic_width' = LogicWidth(job'[u].rotation)
    BY DEF RotationStaged
  <2>1. CASE u = t
    <3>1. helper = job[t].rotation
      BY <2>1, <1>1, <1>4 DEF SafetyInv, Support, RotationStaged
    <3> QED BY <2>1, <3>1, <1>2 DEF SetLogicWidth
  <2>2. CASE u # t
    BY <2>2, <1>1, <1>3, <1>4 DEF Busy
  <2> QED BY <2>1, <2>2
<1>7. CursorInside'
  BY <1>1, <1>2, <1>3, <1>4 DEF CursorInside, Busy
<1>8. GeometryAgrees'
  BY <1>1, <1>4 DEF GeometryAgrees
<1>9. StrayOnlyByMisuse'
  BY <1>1, <1>2, <1>3, <1>4 DEF StrayOnlyByMisuse, Busy
<1> QED BY <1>5, <1>6, <1>7, <1>8, <1>9 DEF SafetyInv, Support

(* set_rotate stores the logical height and returns: the geometry agrees   *)
(* again, unless another set_rotate took part.                             *)
LEMMA HeightSafe ==
  ASSUME TypeOK, SafetyInv, NEW t \in Threads, SetLogicHeight(t)
  PROVE  SafetyInv'
<1>1. /\ job[t].pc = "lh" /\ Rotating(t) /\ Busy(t) /\ job'[t] = Idle
      /\ \A u \in Threads : u # t => job'[u] = job[u] /\ met'[u] = met[u]
  BY DEF SetLogicHeight, Return, TypeOK, JobOK, Rotating, Busy
<1>2. ~Rotating(t)' /\ ~Busy(t)' /\ job'[t].pc = "idle"
  BY <1>1, IdleOp DEF Rotating, Busy
<1>3. \A u \in Threads : u # t /\ Busy(u) => Torn(u)
  BY <1>1 DEF SafetyInv, Support, RotatorsMeet
<1>4. \A u \in Threads : u # t =>
        (Rotating(u)' <=> Rotating(u)) /\ (Torn(u)' <=> Torn(u)) /\ (Busy(u)' <=> Busy(u))
  BY <1>1 DEF Rotating, Torn, Busy
<1>5. RotatorsMeet'
  BY <1>2, <1>4 DEF SafetyInv, Support, RotatorsMeet
<1>6. RotationStaged'
  BY <1>1, <1>2, <1>3, <1>4 DEF RotationStaged, Busy
<1>7. CursorInside'
  BY <1>1, <1>2, <1>3, <1>4 DEF CursorInside, Busy
<1>8. GeometryAgrees'
  <2>1. ~mixed' => logic_width = LogicWidth(helper) /\ logic_height' = LogicHeight(helper)
    BY <1>1 DEF SetLogicHeight, Torn, SafetyInv, Support, RotationStaged
  <2> QED BY <2>1 DEF GeometryAgrees, SetLogicHeight
<1>9. StrayOnlyByMisuse'
  BY <1>1, <1>2, <1>3, <1>4 DEF StrayOnlyByMisuse, Busy
<1> QED BY <1>5, <1>6, <1>7, <1>8, <1>9 DEF SafetyInv, Support

(* Where a handler that nothing excuses accesses the strip. *)
LEMMA AccessInside ==
  ASSUME TypeOK, SafetyInv, NEW t \in Threads, job[t].pc = "access", Clean(t)
  PROVE  /\ <<job[t].ox + job[t].x, job[t].oy + job[t].y>> \in Logical(helper)
         /\ job[t].held = helper /\ ~job[t].freed
         /\ IndexOf(job[t]) \in Positions
<1> DEFINE x == job[t].ox + job[t].x
           y == job[t].oy + job[t].y
<1>1. /\ x \in 0 .. logic_width - 1 /\ y \in 0 .. logic_height - 1
      /\ job[t].held = helper /\ ~job[t].freed
  BY DEF SafetyInv, Support, CursorInside, Clean
<1>2. \A u \in Threads : ~Rotating(u)
  <2>1. Busy(t) /\ ~Rotating(t)
    BY DEF Busy, Rotating, TypeOK, JobOK
  <2> QED BY <2>1 DEF SafetyInv, Support, RotatorsMeet, Clean
<1>3. logic_width = LogicWidth(helper) /\ logic_height = LogicHeight(helper)
  BY <1>2 DEF SafetyInv, GeometryAgrees, Clean
<1>5. helper \in Rotations /\ LogicWidth(helper) \in Nat /\ LogicHeight(helper) \in Nat
  BY PanelAssumption DEF TypeOK, LogicWidth, LogicHeight
<1> HIDE DEF x, y
<1>6. x \in 0 .. LogicWidth(helper) - 1 /\ y \in 0 .. LogicHeight(helper) - 1
  BY <1>1, <1>3, <1>5
<1>7. SnakeLed(helper, x, y) \in Positions
  BY <1>5, <1>6, SnakeLedInside
<1> QED BY <1>1, <1>6, <1>7 DEF IndexOf, Logical, x, y
-----------------------------------------------------------------------------
(* The strip as main() constructs it, in its upright rotation, is safe.    *)
LEMMA SafetyInit == Init => SafetyInv
<1> SUFFICES ASSUME Init PROVE SafetyInv
  OBVIOUS
<1>1. \A t \in Threads : job[t].op = "none" /\ job[t].pc = "idle" /\ ~Torn(t)
  BY IdleOp DEF Init, Torn
<1>2. logic_width = LogicWidth(helper) /\ logic_height = LogicHeight(helper)
  BY DEF Init, LogicWidth, LogicHeight, QuarterTurn, Upright
<1> QED BY <1>1, <1>2 DEF SafetyInv, Support, RotatorsMeet, RotationStaged, CursorInside, GeometryAgrees,
             StrayOnlyByMisuse, Rotating, Busy

(* A request that comes in disturbs nobody, or marks whom it disturbs.     *)
LEMMA RequestSafe ==
  ASSUME TypeOK, SafetyInv, NEW t \in IoThreads, Request(t)
  PROVE  SafetyInv'
<1> t \in Threads
  BY DEF Threads
<1>1. CASE Receive(t)
  <2>1. UNCHANGED <<geometry, mixed>>
    BY <1>1 DEF Receive
  <2>2. PICK j : Fresh(j) /\ Start(t, j)
    BY <1>1, ReceiveStarts
  <2> QED BY <2>1, <2>2, StartSafe DEF Fresh
<1>2. CASE SetRotate(t)
  <2>1. PICK r \in Turns :
          Start(t, [Idle EXCEPT !.op = "set_rotate", !.pc = "store", !.rotation = r])
    BY <1>2 DEF SetRotate
  <2> DEFINE j == [Idle EXCEPT !.op = "set_rotate", !.pc = "store", !.rotation = r]
  <2>2. j \in Job /\ j.op = "set_rotate" /\ j.pc = "store" /\ ~j.freed
    BY IdleJob, ServiceAssumption DEF Idle, Job, Handlers
  <2> HIDE DEF j
  <2> QED BY <1>2, <2>1, <2>2, StartSafe DEF SetRotate, j
<1>3. CASE SetTransparent(t) \/ SetBackground(t) \/ SetAutoRender(t)
  BY <1>3, NotedSafe DEF SetTransparent, SetBackground, SetAutoRender
<1> QED BY <1>1, <1>2, <1>3 DEF Request

(* The invariant is inductive: one step per action of the program.         *)
LEMMA SafetyNext == TypeOK /\ SafetyInv /\ [Next]_vars => SafetyInv'
<1> SUFFICES ASSUME TypeOK, SafetyInv, [Next]_vars PROVE SafetyInv'
  OBVIOUS
<1>1. CASE AutoRender
  <2> DEFINE j == [Idle EXCEPT !.op = "render", !.pc = "scan"]
  <2>1. Fresh(j) /\ Start(RenderThread, j) /\ UNCHANGED <<geometry, mixed>> /\ RenderThread \in Threads
    BY <1>1, FreshRender DEF AutoRender, Threads
  <2> HIDE DEF j
  <2> QED BY <2>1, StartSafe DEF Fresh
<1>2. ASSUME NEW t \in IoThreads, Request(t) PROVE SafetyInv'
  BY <1>2, RequestSafe
<1>3. ASSUME NEW t \in Threads, Proceed(t) PROVE SafetyInv'
  <2> DEFINE j == job[t]
  <2>0. j \in Job /\ JobOK(j)
    BY DEF TypeOK
  <2>1. CASE ClearRow(t)
    <3> UNCHANGED <<geometry, mixed>>
      BY <2>1 DEF ClearRow
    <3> DEFINE k == [j EXCEPT !.pc = "col", !.x = 0]
    <3>1. k \in Job /\ Alike(k, j) /\ k.pc = "col" /\ k.oy = 0 /\ k.y = j.y
      BY <2>0, <2>1 DEF ClearRow, Job, JobOK, Alike
    <3>2. ~Rotating(t) /\ Busy(t) /\ j.y \in Nat /\ logic_height \in Nat /\ 0 + j.y = j.y
      BY <2>0, <2>1, PanelAssumption DEF ClearRow, Rotating, Busy, Job, TypeOK
    <3>3. (Continue(t, k) /\ j.y < logic_height) \/ Return(t)
      BY <2>1 DEF ClearRow
    <3> HIDE DEF k
    <3> QED BY <3>1, <3>2, <3>3, ContinueSafe, ReturnSafe
  <2>2. CASE ClearCol(t)
    <3> UNCHANGED <<geometry, mixed>>
      BY <2>2 DEF ClearCol
    <3> DEFINE k == [j EXCEPT !.pc = "ink"]
               l == [j EXCEPT !.pc = "row", !.y = @ + 1]
    <3>1. k \in Job /\ Alike(k, j) /\ k.pc = "ink" /\ k.ox = 0 /\ k.oy = j.oy /\ k.x = j.x /\ k.y = j.y
      BY <2>0, <2>2 DEF ClearCol, Job, JobOK, Alike
    <3>2. j.y + 1 \in Nat /\ j.x \in Nat /\ logic_width \in Nat /\ 0 + j.x = j.x
      BY <2>0, PanelAssumption DEF Job, TypeOK
    <3>3. l \in Job /\ Alike(l, j) /\ l.pc = "row"
      BY <2>0, <2>2, <3>2 DEF ClearCol, Job, Alike
    <3>4. ~Rotating(t) /\ Busy(t) /\ (Clean(t) => j.oy + j.y \in 0 .. logic_height - 1)
      BY <2>0, <2>2 DEF ClearCol, Rotating, Busy, SafetyInv, Support, CursorInside, Clean
    <3>5. (Continue(t, k) /\ j.x < logic_width) \/ Continue(t, l)
      BY <2>2 DEF ClearCol
    <3> HIDE DEF k, l
    <3> QED BY <3>1, <3>2, <3>3, <3>4, <3>5, ContinueSafe
  <2>3. CASE ClearInk(t)
    <3> DEFINE k == [j EXCEPT !.pc = "load", !.ink = back]
    <3>1. /\ k \in Job /\ Alike(k, j) /\ k.pc = "load"
          /\ k.ox = j.ox /\ k.oy = j.oy /\ k.x = j.x /\ k.y = j.y
      BY <2>0, <2>3 DEF ClearInk, Job, TypeOK, Alike
    <3>2. ~Rotating(t) /\ Busy(t) /\ (Clean(t) => j.oy + j.y \in 0 .. logic_height - 1 /\ j.ox + j.x \in 0 .. logic_width - 1)
      BY <2>3 DEF ClearInk, Rotating, Busy, SafetyInv, Support, CursorInside, Clean
    <3>3. Continue(t, k) /\ UNCHANGED <<geometry, mixed>>
      BY <2>3 DEF ClearInk
    <3> HIDE DEF k
    <3> QED BY <3>1, <3>2, <3>3, ContinueSafe
  <2>4. CASE DrawRow(t)
    <3> UNCHANGED <<geometry, mixed>>
      BY <2>4 DEF DrawRow
    <3> DEFINE k == [j EXCEPT !.y = @ + 1]
               l == [j EXCEPT !.pc = "col", !.x = 0]
    <3>1. j.y + 1 \in Nat /\ j.y \in Nat /\ j.oy \in Int /\ j.oy + j.y \in Int /\ logic_height \in Int
      BY <2>0, PanelAssumption DEF Job, TypeOK, Ints
    <3>2. k \in Job /\ Alike(k, j) /\ k.pc = "row"
      BY <2>0, <2>4, <3>1 DEF DrawRow, Job, Alike
    <3>3. l \in Job /\ Alike(l, j) /\ l.pc = "col" /\ l.oy = j.oy /\ l.y = j.y
      BY <2>0, <2>4 DEF Job, Alike
    <3>4. ~Rotating(t) /\ Busy(t)
      BY <2>4 DEF DrawRow, Drawing, Rotating, Busy
    <3>5. Return(t) \/ Continue(t, k) \/ (Continue(t, l) /\ j.oy + j.y < logic_height)
      BY <2>4, <3>1 DEF DrawRow
    <3>6. Clean(t) => j.oy >= 0
      BY <2>4 DEF DrawRow, Clean, Placed
    <3>7. Clean(t) /\ Continue(t, l) /\ j.oy + j.y < logic_height => j.oy + j.y \in 0 .. logic_height - 1
      BY <3>1, <3>6
    <3> HIDE DEF k, l
    <3> QED BY <3>2, <3>3, <3>4, <3>5, <3>7, ContinueSafe, ReturnSafe
  <2>5. CASE DrawCol(t)
    <3> UNCHANGED <<geometry, mixed>>
      BY <2>5 DEF DrawCol
    <3> DEFINE k == [j EXCEPT !.pc = "row", !.y = @ + 1]
               l == [j EXCEPT !.x = @ + 1]
               m == [j EXCEPT !.pc = "ink"]
    <3>1. j.x + 1 \in Nat /\ j.y + 1 \in Nat /\ j.x \in Nat /\ j.ox \in Int /\ j.ox + j.x \in Int /\ logic_width \in Int
      BY <2>0, PanelAssumption DEF Job, TypeOK, Ints
    <3>2. k \in Job /\ Alike(k, j) /\ k.pc = "row"
      BY <2>0, <2>5, <3>1 DEF Job, Alike
    <3>3. l \in Job /\ Alike(l, j) /\ l.pc = "col" /\ l.oy = j.oy /\ l.y = j.y
      BY <2>0, <2>5, <3>1 DEF DrawCol, Job, Alike
    <3>4. m \in Job /\ Alike(m, j) /\ m.pc = "ink" /\ m.ox = j.ox /\ m.x = j.x /\ m.oy = j.oy /\ m.y = j.y
      BY <2>0, <2>5 DEF Job, Alike
    <3>5. ~Rotating(t) /\ Busy(t) /\ (Clean(t) => j.oy + j.y \in 0 .. logic_height - 1)
      BY <2>5 DEF DrawCol, Drawing, Rotating, Busy, SafetyInv, Support, CursorInside, Clean
    <3>6. Continue(t, k) \/ Continue(t, l) \/ (Continue(t, m) /\ j.ox + j.x < logic_width)
      BY <2>5, <3>1 DEF DrawCol
    <3>7. Clean(t) => j.ox >= 0
      BY <2>5 DEF DrawCol, Clean, Placed
    <3>8. Clean(t) /\ j.ox + j.x < logic_width => j.ox + j.x \in 0 .. logic_width - 1
      BY <3>1, <3>7
    <3> HIDE DEF k, l, m
    <3> QED BY <3>2, <3>3, <3>4, <3>5, <3>6, <3>8, ContinueSafe
  <2>6. CASE DrawInk(t)
    <3> UNCHANGED <<geometry, mixed>>
      BY <2>6 DEF DrawInk
    <3> DEFINE k == [j EXCEPT !.pc = "test"]
               l == [j EXCEPT !.pc = "load", !.ink = Cell(j)]
    <3>1. Cell(j) \in Color
      BY <2>0, <2>6, ImageType DEF DrawInk, JobOK, Cell
    <3>2. /\ k \in Job /\ Alike(k, j) /\ k.pc = "test"
          /\ k.ox = j.ox /\ k.oy = j.oy /\ k.x = j.x /\ k.y = j.y
      BY <2>0 DEF Job, Alike
    <3>3. /\ l \in Job /\ Alike(l, j) /\ l.pc = "load"
          /\ l.ox = j.ox /\ l.oy = j.oy /\ l.x = j.x /\ l.y = j.y
      BY <2>0, <3>1 DEF Job, Alike
    <3>4. ~Rotating(t) /\ Busy(t) /\ (Clean(t) => j.oy + j.y \in 0 .. logic_height - 1 /\ j.ox + j.x \in 0 .. logic_width - 1)
      BY <2>6 DEF DrawInk, Drawing, Rotating, Busy, SafetyInv, Support, CursorInside, Clean
    <3>5. Continue(t, k) \/ Continue(t, l)
      BY <2>6 DEF DrawInk
    <3> HIDE DEF k, l
    <3> QED BY <3>2, <3>3, <3>4, <3>5, ContinueSafe
  <2>13. CASE DrawTest(t)
    <3> UNCHANGED <<geometry, mixed>>
      BY <2>13 DEF DrawTest
    <3> DEFINE k == [j EXCEPT !.pc = "col", !.x = @ + 1]
               l == [j EXCEPT !.pc = "load", !.ink = Cell(j)]
    <3>0. Drawing(j) /\ j.pc = "test" /\ j.x + 1 \in Nat
      BY <2>0, <2>13 DEF DrawTest, JobOK, Job
    <3>1. Cell(j) \in Color
      BY <2>0, <3>0, ImageType DEF JobOK, Cell
    <3>2. k \in Job /\ Alike(k, j) /\ k.pc = "col" /\ k.oy = j.oy /\ k.y = j.y
      BY <2>0, <3>0 DEF Job, Alike
    <3>3. /\ l \in Job /\ Alike(l, j) /\ l.pc = "load"
          /\ l.ox = j.ox /\ l.oy = j.oy /\ l.x = j.x /\ l.y = j.y
      BY <2>0, <3>1 DEF Job, Alike
    <3>4. ~Rotating(t) /\ Busy(t) /\ (Clean(t) => j.oy + j.y \in 0 .. logic_height - 1 /\ j.ox + j.x \in 0 .. logic_width - 1)
      BY <3>0 DEF Drawing, Rotating, Busy, SafetyInv, Support, CursorInside, Clean
    <3>5. Continue(t, k) \/ Continue(t, l)
      BY <2>13 DEF DrawTest
    <3> HIDE DEF k, l
    <3> QED BY <3>2, <3>3, <3>4, <3>5, ContinueSafe
  <2>14. CASE Overflow(t)
    <3> DEFINE k == [j EXCEPT !.pc = "undefined"]
    <3>1. k \in Job /\ Alike(k, j) /\ k.pc = "undefined"
      BY <2>0 DEF Job, Alike
    <3>2. Busy(t)
      BY <2>14 DEF Overflow, Busy
    <3>3. ~Placed(j)
      <4>1. j.image.width \in Nat /\ j.image.height \in Nat
        BY <2>0, <2>14, ImageType DEF Overflow, JobOK
      <4>2. j.x \in Nat /\ j.y \in Nat /\ j.ox \in Int /\ j.oy \in Int /\ MaxInt \in Int
        BY <2>0, ServiceAssumption DEF Job, Ints
      <4> QED BY <2>14, <4>1, <4>2 DEF Overflow, Placed
    <3>4. Continue(t, k) /\ UNCHANGED <<geometry, mixed>>
      BY <2>14 DEF Overflow
    <3> HIDE DEF k
    <3> QED BY <3>1, <3>2, <3>3, <3>4, ContinueSafe
  <2>7. CASE LoadHelper(t)
    <3> DEFINE k == [j EXCEPT !.pc = "access", !.held = helper, !.freed = FALSE]
    <3>1. /\ k \in Job /\ Alike(k, j) /\ k.pc = "access" /\ k.held = helper /\ ~k.freed
          /\ k.ox = j.ox /\ k.oy = j.oy /\ k.x = j.x /\ k.y = j.y
      BY <2>0, <2>7 DEF Job, TypeOK, Alike
    <3>2. ~Rotating(t) /\ Busy(t) /\ (Clean(t) => j.oy + j.y \in 0 .. logic_height - 1 /\ j.ox + j.x \in 0 .. logic_width - 1)
      BY <2>0, <2>7 DEF LoadHelper, JobOK, Rotating, Busy, SafetyInv, Support, CursorInside, Clean
    <3>3. Continue(t, k) /\ UNCHANGED <<geometry, mixed>>
      BY <2>7 DEF LoadHelper
    <3> HIDE DEF k
    <3> QED BY <3>1, <3>2, <3>3, ContinueSafe
  <2>8. CASE Access(t)
    <3> UNCHANGED <<geometry, mixed>>
      BY <2>8 DEF Access
    <3> DEFINE k == [j EXCEPT !.pc = "col", !.x = @ + 1]
    <3>1. j.x + 1 \in Nat
      BY <2>0 DEF Job
    <3>2. k \in Job /\ Alike(k, j) /\ k.pc = "col" /\ k.oy = j.oy /\ k.y = j.y
      BY <2>0, <3>1 DEF Job, Alike
    <3>3. ~Rotating(t) /\ Busy(t) /\ (Clean(t) => j.oy + j.y \in 0 .. logic_height - 1)
      BY <2>0, <2>8 DEF Access, JobOK, Rotating, Busy, SafetyInv, Support, CursorInside, Clean
    <3>4. Continue(t, k) \/ Return(t)
      BY <2>8 DEF Access
    <3> HIDE DEF k
    <3> QED BY <3>2, <3>3, <3>4, ContinueSafe, ReturnSafe
  <2>9. CASE Stray(t)
    <3> DEFINE k == [j EXCEPT !.pc = "undefined"]
    <3>1. k \in Job /\ Alike(k, j) /\ k.pc = "undefined"
      BY <2>0 DEF Job, Alike
    <3>2. Busy(t) /\ ~Clean(t)
      BY <2>9, AccessInside DEF Stray, Busy
    <3>3. Continue(t, k) /\ UNCHANGED <<geometry, mixed>>
      BY <2>9 DEF Stray
    <3> HIDE DEF k
    <3> QED BY <3>1, <3>2, <3>3, ContinueSafe DEF Clean
  <2>10. CASE DoubleRelease(t)
    <3> DEFINE k == [j EXCEPT !.pc = "undefined"]
    <3>1. k \in Job /\ Alike(k, j) /\ k.pc = "undefined"
      BY <2>0 DEF Job, Alike
    <3>2. Busy(t) /\ Torn(t)
      BY <2>0, <2>10 DEF DoubleRelease, Busy, JobOK, Rotating, SafetyInv, Support, RotationStaged
    <3>3. Continue(t, k) /\ UNCHANGED <<geometry, mixed>>
      BY <2>10 DEF DoubleRelease
    <3> HIDE DEF k
    <3> QED BY <3>1, <3>2, <3>3, ContinueSafe
  <2>11. CASE Scan(t)
    <3> DEFINE k == [j EXCEPT !.x = @ + 1, !.frame[j.x] = leds[j.x]]
    <3>1. j.x + 1 \in Nat /\ [j.frame EXCEPT ![j.x] = leds[j.x]] \in [Positions -> Color]
      BY <2>0, <2>11 DEF Job, Scan, TypeOK
    <3>2. k \in Job /\ Alike(k, j) /\ k.pc = "scan"
      BY <2>0, <2>11, <3>1 DEF Scan, Job, Alike
    <3>3. ~Rotating(t) /\ Busy(t)
      BY <2>0, <2>11 DEF Scan, JobOK, Rotating, Busy
    <3>4. Continue(t, k) /\ UNCHANGED <<geometry, mixed>>
      BY <2>11 DEF Scan
    <3> HIDE DEF k
    <3> QED BY <3>2, <3>3, <3>4, ContinueSafe
  <2>12. CASE Show(t)
    <3>1. ~Rotating(t)
      BY <2>0, <2>12 DEF Show, JobOK, Rotating
    <3> QED BY <2>12, <3>1, ReturnSafe DEF Show
  <2> QED BY <1>3, <2>1, <2>2, <2>3, <2>4, <2>5, <2>6, <2>7, <2>8, <2>9, <2>10, <2>11, <2>12,
             <2>13, <2>14, StoreSafe, WidthSafe, HeightSafe
          DEF Proceed, Paint, Rotate
<1>4. CASE UNCHANGED vars
  BY <1>4 DEF vars, SafetyInv, Support, RotatorsMeet, RotationStaged, CursorInside, GeometryAgrees,
              StrayOnlyByMisuse, Placed, Rotating, Torn, Busy
<1> QED BY <1>1, <1>2, <1>3, <1>4 DEF Next, Halted

(* The inductive invariant of the service. *)
THEOREM Safety == Spec => [](TypeOK /\ SafetyInv)
<1>1. Init => TypeOK /\ SafetyInv
  BY TypeInit, SafetyInit
<1>2. TypeOK /\ SafetyInv /\ [Next]_vars => (TypeOK /\ SafetyInv)'
  BY TypeNext, SafetyNext
<1> QED BY <1>1, <1>2, PTL DEF Spec

(* set_rotate leaves the three variables of the geometry in agreement      *)
(* unless two of them overlapped.                                          *)
THEOREM GeometryAgreement == Spec => []GeometryAgrees
<1>1. TypeOK /\ SafetyInv => GeometryAgrees
  BY DEF SafetyInv
<1> QED BY <1>1, Safety, PTL

(* Nothing but an overlapping set_rotate, or coordinates that do not suit  *)
(* the strip, can take an access of a handler outside the LED array or     *)
(* through a destroyed helper.                                             *)
THEOREM StraysOnlyByMisuse == Spec => []StrayOnlyByMisuse
<1>1. TypeOK /\ SafetyInv => StrayOnlyByMisuse
  BY DEF SafetyInv
<1> QED BY <1>1, Safety, PTL

(* Every LED that changes is one of the cells the handler is to paint.     *)
THEOREM PaintInside == Spec => PaintStaysInside
<1> DEFINE Cause(p) ==
             \E t \in Threads : /\ job[t].pc = "access"
                                /\ \/ Torn(t) \/ mixed \/ ~Placed(job[t])
                                   \/ \E c \in Region(t) : p = SnakeLed(helper, c[1], c[2])
           Inside == \A p \in Positions : leds'[p] # leds[p] => Cause(p)
<1>0. ASSUME TypeOK, SafetyInv, Next PROVE Inside
  <2> SUFFICES ASSUME NEW p \in Positions, leds'[p] # leds[p] PROVE Cause(p)
    <3> HIDE DEF Cause
    <3> QED OBVIOUS
  <2>1. PICK t \in Threads : Access(t)
    BY <1>0 DEF Next, AutoRender, Request, Receive, SetRotate, SetTransparent, SetBackground, SetAutoRender,
           Proceed, Paint, ClearRow, ClearCol, ClearInk, DrawRow, DrawCol, Overflow, DrawInk, DrawTest, LoadHelper, Stray,
           Rotate, StoreHelper, DoubleRelease, SetLogicWidth, SetLogicHeight, Scan, Show, Halted, vars
  <2>2. job[t].pc = "access" /\ p = IndexOf(job[t]) /\ job[t].op # "pixel"
    BY <1>0, <2>1 DEF Access, TypeOK
  <2>3. ASSUME Clean(t) PROVE \E c \in Region(t) : p = SnakeLed(helper, c[1], c[2])
    <3> DEFINE c == <<job[t].ox + job[t].x, job[t].oy + job[t].y>>
    <3>1. c \in Logical(helper) /\ job[t].held = helper
      BY <1>0, <2>2, <2>3, AccessInside
    <3>2. p = SnakeLed(helper, c[1], c[2])
      BY <2>2, <3>1 DEF IndexOf
    <3>3. job[t] \in Job /\ JobOK(job[t])
      BY <1>0 DEF TypeOK
    <3>4. c \in Region(t)
      <4>1. CASE job[t].op = "clear"
        BY <3>1, <4>1 DEF Region
      <4>2. CASE job[t].op = "draw_pixel"
        <5>1. c = <<job[t].ox, job[t].oy>>
          BY <3>3, <4>2 DEF Job, JobOK, Ints
        <5> QED BY <3>1, <4>2, <5>1 DEF Region
      <4>3. CASE Drawing(job[t])
        <5>1. <<job[t].x, job[t].y>> \in Cells(job[t].image)
          BY <2>2, <3>3, <4>3 DEF JobOK
        <5>2. c \in {<<job[t].ox + d[1], job[t].oy + d[2]>> : d \in Cells(job[t].image)}
          BY <5>1
        <5> QED BY <3>1, <4>3, <5>2 DEF Region, Drawing
      <4>4. job[t].op \in Painters
        BY <2>2, <3>3 DEF JobOK
      <4> QED BY <4>1, <4>2, <4>3, <4>4 DEF Painters, Drawing
    <3> QED BY <3>2, <3>4
  <2> QED BY <2>2, <2>3 DEF Clean
<1>1. TypeOK /\ SafetyInv /\ [Next]_vars => [Inside]_vars
  <2> HIDE DEF Inside
  <2> QED BY <1>0
<1> QED BY <1>1, Safety, PTL DEF Spec, PaintStaysInside
-----------------------------------------------------------------------------
(* The render thread renders, and meets a set_rotate without harm.         *)
RenderOnly == job[RenderThread].pc \in {"idle", "scan"}

(* The render thread does nothing but render.                              *)
LEMMA RenderOnlyNext == TypeOK /\ RenderOnly /\ [Next]_vars => RenderOnly'
<1> SUFFICES ASSUME TypeOK, RenderOnly, [Next]_vars PROVE RenderOnly'
  OBVIOUS
<1> DEFINE R == RenderThread
<1>0. R \in Threads /\ \A t \in IoThreads : t # R
  BY ServiceAssumption DEF Threads
<1>1. CASE AutoRender
  <2>1. [Idle EXCEPT !.op = "render", !.pc = "scan"].pc = "scan"
    BY DEF Idle
  <2> QED BY <1>0, <1>1, <2>1 DEF AutoRender, Start, TypeOK, RenderOnly
<1>2. ASSUME NEW t \in IoThreads, Request(t) PROVE RenderOnly'
  <2>1. job'[R] = job[R]
    BY <1>0, <1>2 DEF Request, Receive, Start, SetRotate, SetTransparent, SetBackground, SetAutoRender, TypeOK
  <2> QED BY <2>1 DEF RenderOnly
<1>3. ASSUME NEW t \in Threads, Proceed(t), t # R PROVE RenderOnly'
  <2>1. job[R].pc \in {"idle", "scan"}
    BY DEF RenderOnly
  <2>2. job'[R] = job[R]
    BY <1>0, <1>3, <2>1
       DEF Proceed, Paint, ClearRow, ClearCol, ClearInk, DrawRow, DrawCol, Overflow, DrawInk, DrawTest, LoadHelper, Access, Stray,
           Rotate, StoreHelper, Holding, DoubleRelease, SetLogicWidth, SetLogicHeight, Scan, Show,
           Continue, Return, TypeOK
  <2> QED BY <2>1, <2>2 DEF RenderOnly
<1>4. CASE Proceed(R)
  <2>1. job[R] \in Job /\ job[R].pc \in {"idle", "scan"}
    BY <1>0 DEF RenderOnly, TypeOK
  <2>2. Scan(R) \/ Show(R)
    BY <1>4, <2>1
       DEF Proceed, Paint, ClearRow, ClearCol, ClearInk, DrawRow, DrawCol, Overflow, DrawInk, DrawTest, LoadHelper, Access, Stray,
           Rotate, StoreHelper, DoubleRelease, SetLogicWidth, SetLogicHeight
  <2>3. CASE Scan(R)
    <3>1. job'[R].pc = job[R].pc
      BY <1>0, <2>1, <2>3 DEF Scan, Continue, TypeOK, Job
    <3> QED BY <2>1, <3>1 DEF RenderOnly
  <2>4. CASE Show(R)
    BY <1>0, <2>4, IdleOp DEF Show, Return, TypeOK, RenderOnly
  <2> QED BY <2>2, <2>3, <2>4
<1>5. CASE UNCHANGED vars
  BY <1>5 DEF vars, RenderOnly
<1> QED BY <1>0, <1>1, <1>2, <1>3, <1>4, <1>5 DEF Next, Halted

(* A server with one io thread, however often it rotates, strays only with *)
(* coordinates that do not suit the strip as it is: the handlers take      *)
(* turns on that thread and the render thread uses no helper.              *)
THEOREM OneIoThread ==
  ASSUME NEW io, IoThreads = {io}
  PROVE  Spec => []StrayOnlyIfMisplaced
<1> DEFINE Alone == RenderOnly /\ ~Torn(io) /\ ~mixed
<1>0. io \in Threads /\ Threads = {io, RenderThread} /\ io # RenderThread
  BY ServiceAssumption DEF Threads
<1>1. Init => Alone
  BY <1>0, IdleOp DEF Init, RenderOnly, Torn
<1>2. TypeOK /\ Alone /\ [Next]_vars => Alone'
  <2> SUFFICES ASSUME TypeOK, Alone, [Next]_vars PROVE Alone'
    OBVIOUS
  <2>1. RenderOnly'
    BY RenderOnlyNext
  <2>2. job[RenderThread].op # "set_rotate"
    BY <1>0 DEF TypeOK, JobOK, RenderOnly
  <2>3. ASSUME Proceed(io) \/ Proceed(RenderThread) PROVE ~Torn(io)' /\ ~mixed'
    <3>1. met'[io] = met[io] \/ met'[io] = {}
      BY <1>0, <2>3
         DEF Proceed, Paint, ClearRow, ClearCol, ClearInk, DrawRow, DrawCol, Overflow, DrawInk, DrawTest, LoadHelper, Access, Stray,
             Rotate, StoreHelper, DoubleRelease, SetLogicWidth, SetLogicHeight, Scan, Show,
             Continue, Return, TypeOK
    <3>2. mixed' = mixed \/ mixed' = ("set_rotate" \in met[io])
      <4>1. ~SetLogicHeight(RenderThread)
        BY DEF SetLogicHeight, RenderOnly
      <4> QED BY <2>3, <4>1
         DEF Proceed, Paint, ClearRow, ClearCol, ClearInk, DrawRow, DrawCol, Overflow, DrawInk, DrawTest, LoadHelper, Access, Stray,
             Rotate, StoreHelper, DoubleRelease, SetLogicWidth, SetLogicHeight, Scan, Show
    <3>3. ~Torn(io)'
      BY <3>1 DEF Torn
    <3>4. ~mixed'
      BY <3>2, Zenon DEF Torn
    <3> QED BY <3>3, <3>4
  <2>4. CASE AutoRender
    <3>1. "set_rotate" # [Idle EXCEPT !.op = "render", !.pc = "scan"].op
      BY DEF Idle
    <3> DEFINE j == [Idle EXCEPT !.op = "render", !.pc = "scan"]
    <3> HIDE DEF j
    <3>2. Start(RenderThread, j) /\ j.op # "set_rotate" /\ mixed' = mixed
      BY <2>4, <3>1 DEF AutoRender, j
    <3>3. met'[io] = met[io] \/ met'[io] = met[io] \cup {j.op}
      BY <1>0, <3>2 DEF Start, Noted, TypeOK
    <3> QED BY <2>1, <3>2, <3>3 DEF Torn
  <2>5. CASE Request(io)
    <3>1. ASSUME NEW j, Start(io, j) PROVE ~Torn(io)'
      <4>1. met'[io] = {job[u].op : u \in {v \in Threads \ {io} : Busy(v)}}
        BY <1>0, <3>1 DEF Start, Noted, TypeOK
      <4> QED BY <1>0, <2>2, <4>1 DEF Torn
    <3>2. ASSUME NEW op, met' = Noted(io, op) PROVE ~Torn(io)'
      BY <1>0, <3>2 DEF Noted, Torn
    <3>3. mixed' = mixed
      BY <2>5 DEF Request, Receive, SetRotate, SetTransparent, SetBackground, SetAutoRender
    <3>4. ~Torn(io)'
      <4>1. (\E j : Start(io, j)) \/ (\E op : met' = Noted(io, op))
        BY <2>5 DEF Request, Receive, SetRotate, SetTransparent, SetBackground, SetAutoRender
      <4> QED BY <3>1, <3>2, <4>1
    <3> QED BY <2>1, <3>3, <3>4
  <2>6. CASE UNCHANGED vars
    BY <2>1, <2>6 DEF vars, Torn
  <2> QED BY <1>0, <2>1, <2>3, <2>4, <2>5, <2>6 DEF Next, Halted
<1>3. TypeOK /\ SafetyInv /\ Alone => StrayOnlyIfMisplaced
  BY <1>0 DEF SafetyInv, StrayOnlyByMisuse, StrayOnlyIfMisplaced, RenderOnly
<1> QED BY <1>1, <1>2, <1>3, Safety, PTL DEF Spec

(* A thread that goes on stays in the same handler.                        *)
LEMMA KeepsOp ==
  ASSUME TypeOK, NEW t \in Threads, NEW j, Continue(t, j), j.op = job[t].op
  PROVE  met' = met /\ \A u \in Threads : job'[u].op = job[u].op
BY DEF Continue, TypeOK

(* So does a server whose clients never call set_rotate, with any number   *)
(* of io threads: painting and rendering need no lock to stay on the panel. *)
THEOREM Unrotated ==
  ASSUME "set_rotate" \notin Ops
  PROVE  Spec => []StrayOnlyIfMisplaced
<1> DEFINE Calm == ~mixed /\ \A t \in Threads : ~Rotating(t) /\ ~Torn(t)
<1>1. Init => Calm
  BY IdleOp DEF Init, Torn, Rotating
<1>2. TypeOK /\ Calm /\ [Next]_vars => Calm'
  <2> SUFFICES ASSUME TypeOK, Calm, [Next]_vars PROVE Calm'
    OBVIOUS
  <2>1. ASSUME NEW t \in Threads, NEW j, Start(t, j), j.op # "set_rotate", mixed' = mixed PROVE Calm'
    <3>1. job'[t] = j /\ \A u \in Threads : u # t => job'[u] = job[u]
      BY <2>1 DEF Start, TypeOK
    <3>2. met'[t] = {job[u].op : u \in {v \in Threads \ {t} : Busy(v)}}
      BY <2>1 DEF Start, Noted, TypeOK
    <3>3. \A u \in Threads : u # t => met'[u] = met[u] \/ met'[u] = met[u] \cup {j.op}
      BY <2>1 DEF Start, Noted, TypeOK
    <3>4. ASSUME NEW u \in Threads PROVE ~Rotating(u)' /\ ~Torn(u)'
      BY <2>1, <3>1, <3>2, <3>3 DEF Rotating, Torn
    <3> QED BY <2>1, <3>4
  <2>2. ASSUME NEW t \in Threads, Proceed(t) PROVE Calm'
    <3>0. ~Rotate(t)
      BY DEF Rotate, StoreHelper, DoubleRelease, SetLogicWidth, SetLogicHeight, TypeOK, JobOK, Rotating
    <3>1. mixed' = mixed
      BY <2>2, <3>0
         DEF Proceed, Paint, ClearRow, ClearCol, ClearInk, DrawRow, DrawCol, Overflow, DrawInk, DrawTest, LoadHelper, Access, Stray,
             Scan, Show
    <3>2. job[t] \in Job
      BY DEF TypeOK
    <3>3. Return(t) \/ (met' = met /\ \A u \in Threads : job'[u].op = job[u].op)
      <4>1. CASE ClearRow(t)
        BY <3>2, <4>1, KeepsOp DEF ClearRow, Job
      <4>2. CASE ClearCol(t)
        BY <3>2, <4>2, KeepsOp DEF ClearCol, Job
      <4>3. CASE ClearInk(t)
        BY <3>2, <4>3, KeepsOp DEF ClearInk, Job
      <4>4. CASE DrawRow(t)
        BY <3>2, <4>4, KeepsOp DEF DrawRow, Job
      <4>5. CASE DrawCol(t)
        BY <3>2, <4>5, KeepsOp DEF DrawCol, Job
      <4>6. CASE DrawInk(t)
        BY <3>2, <4>6, KeepsOp DEF DrawInk, Job
      <4>7. CASE LoadHelper(t)
        BY <3>2, <4>7, KeepsOp DEF LoadHelper, Job
      <4>8. CASE Access(t)
        BY <3>2, <4>8, KeepsOp DEF Access, Job
      <4>9. CASE Stray(t)
        BY <3>2, <4>9, KeepsOp DEF Stray, Job
      <4>10. CASE Scan(t)
        BY <3>2, <4>10, KeepsOp DEF Scan, Job
      <4>11. CASE Show(t)
        BY <3>2, <4>11, KeepsOp DEF Show, Job
      <4>12. CASE DrawTest(t)
        BY <3>2, <4>12, KeepsOp DEF DrawTest, Job
      <4>13. CASE Overflow(t)
        BY <3>2, <4>13, KeepsOp DEF Overflow, Job
      <4> QED BY <2>2, <3>0, <4>1, <4>2, <4>3, <4>4, <4>5, <4>6, <4>7, <4>8, <4>9, <4>10, <4>11, <4>12, <4>13
          DEF Proceed, Paint
    <3>4. ASSUME NEW u \in Threads PROVE ~Rotating(u)' /\ ~Torn(u)'
      <4>1. CASE Return(t)
        BY <4>1, IdleOp DEF Return, Rotating, Torn, TypeOK
      <4>2. CASE met' = met /\ \A v \in Threads : job'[v].op = job[v].op
        BY <4>2 DEF Rotating, Torn
      <4> QED BY <3>3, <4>1, <4>2
    <3> QED BY <3>1, <3>4
  <2>3. CASE AutoRender
    <3> DEFINE j == [Idle EXCEPT !.op = "render", !.pc = "scan"]
    <3>1. j.op # "set_rotate"
      BY DEF Idle
    <3>2. Start(RenderThread, j) /\ mixed' = mixed /\ RenderThread \in Threads
      BY <2>3 DEF AutoRender, Threads
    <3> HIDE DEF j
    <3> QED BY <2>1, <3>1, <3>2
  <2>4. ASSUME NEW t \in IoThreads, Request(t) PROVE Calm'
    <3> t \in Threads
      BY DEF Threads
    <3>1. CASE Receive(t)
      <4>1. \E j : Start(t, j) /\ j.op # "set_rotate"
        BY <3>1, ReceiveStarts DEF Fresh
      <4>2. mixed' = mixed
        BY <3>1 DEF Receive
      <4> QED BY <2>1, <4>1, <4>2
    <3>2. ~SetRotate(t)
      BY DEF SetRotate
    <3>3. CASE SetTransparent(t) \/ SetBackground(t) \/ SetAutoRender(t)
      <4>1. /\ job' = job /\ mixed' = mixed
            /\ \E op \in Handlers \ {"set_rotate"} : met' = Noted(t, op)
        BY <3>3 DEF SetTransparent, SetBackground, SetAutoRender, Handlers
      <4>2. ASSUME NEW u \in Threads PROVE ~Rotating(u)' /\ ~Torn(u)'
        BY <4>1 DEF Noted, Rotating, Torn
      <4> QED BY <4>1, <4>2
    <3> QED BY <2>4, <3>1, <3>2, <3>3 DEF Request
  <2>5. CASE UNCHANGED vars
    BY <2>5 DEF vars, Rotating, Torn
  <2> QED BY <2>2, <2>3, <2>4, <2>5 DEF Next, Halted
<1>3. TypeOK /\ SafetyInv /\ Calm => StrayOnlyIfMisplaced
  BY DEF SafetyInv, StrayOnlyByMisuse, StrayOnlyIfMisplaced
<1> QED BY <1>1, <1>2, <1>3, Safety, PTL DEF Spec
-----------------------------------------------------------------------------
(***************************************************************************)
(* What the pictures show: a loop of clear() or draw() that no conflicting *)
(* handler overlaps has painted, at each of its steps, all the cells it    *)
(* has passed, and a render that no painting overlaps holds the LEDs it    *)
(* has read.                                                               *)
(***************************************************************************)
Picture == {"clear", "draw_text", "draw_number"}

InLoop(j) == j.pc \in {"row", "col", "ink", "test", "load", "access"}

(* A handler that is to put on the strip exactly what it was asked to.     *)
Sound(t) == Undisturbed(t) /\ Placed(job[t])

(* The cells the loops of clear() and draw() go over, and what each is to  *)
(* look like.                                                              *)
Wanted(j) == IF j.op = "clear" THEN Logical(helper) ELSE Cells(j.image)

Colour(j, c) == IF j.op = "clear" THEN back ELSE j.image.led[c]

Passed(j, c) == c[2] < j.y \/ (c[2] = j.y /\ j.pc # "row" /\ c[1] < j.x)

Visible(j, c) == /\ <<j.ox + c[1], j.oy + c[2]>> \in Logical(helper)
                 /\ ~(Drawing(j) /\ transparent /\ Colour(j, c) = back)

Shows(j, c) == Visible(j, c) => leds[SnakeLed(helper, j.ox + c[1], j.oy + c[2])] = Colour(j, c)

(* The cells a loop has passed show, and it holds the colour of the cell   *)
(* it is about to paint.                                                   *)
Painted(t) ==
  LET j == job[t] IN
  j.op \in Picture /\ InLoop(j) /\ Sound(t) =>
    /\ \A c \in Wanted(j) : Passed(j, c) => Shows(j, c)
    /\ j.pc = "test" => transparent
    /\ j.pc \in {"load", "access"} => j.ink = Colour(j, <<j.x, j.y>>)

(* What a render has read so far is still what the LEDs hold.              *)
Framed(t) ==
  job[t].pc = "scan" /\ met[t] \cap Painters = {} =>
    \A p \in Positions : p < job[t].x => job[t].frame[p] = leds[p]

(* Of two handlers that overlap, each knows of the other.                  *)
OverlapKnown ==
  \A t, u \in Threads : t # u /\ Busy(t) /\ Busy(u) => job[u].op \in met[t]

PaintInv == OverlapKnown /\ \A t \in Threads : Painted(t) /\ Framed(t)
-----------------------------------------------------------------------------
(* The cells of a picture are pairs of natural numbers.                    *)
LEMMA CellsOf ==
  ASSUME helper \in Rotations, NEW j, JobOK(j), j.op \in Picture, NEW c \in Wanted(j)
  PROVE  c[1] \in Nat /\ c[2] \in Nat /\ c = <<c[1], c[2]>>
<1>1. CASE j.op = "clear"
  <2>1. LogicWidth(helper) \in Nat /\ LogicHeight(helper) \in Nat
    BY PanelAssumption DEF LogicWidth, LogicHeight
  <2> QED BY <1>1, <2>1 DEF Wanted, Logical
<1>2. CASE Drawing(j)
  <2>1. j.image \in Images /\ j.op # "clear"
    BY <1>2 DEF JobOK, Drawing
  <2>2. j.image.width \in Nat /\ j.image.height \in Nat
    BY <2>1, ImageType
  <2> QED BY <2>1, <2>2 DEF Wanted, Cells
<1> QED BY <1>1, <1>2 DEF Picture, Drawing

(* In particular those of a thread's.                                      *)
LEMMA WantedCells ==
  ASSUME TypeOK, NEW t \in Threads, job[t].op \in Picture, NEW c \in Wanted(job[t])
  PROVE  c[1] \in Nat /\ c[2] \in Nat /\ c = <<c[1], c[2]>>
BY CellsOf DEF TypeOK

(* While no set_rotate overlaps a handler, the sizes are those of the      *)
(* helper.                                                                 *)
LEMMA Settled ==
  ASSUME TypeOK, SafetyInv, NEW t \in Threads, Busy(t), ~Rotating(t), ~Torn(t), ~mixed
  PROVE  /\ logic_width = LogicWidth(helper) /\ logic_height = LogicHeight(helper)
         /\ logic_width \in Nat /\ logic_height \in Nat
<1>1. \A u \in Threads : ~Rotating(u)
  BY DEF SafetyInv, Support, RotatorsMeet
<1> QED BY <1>1, PanelAssumption DEF SafetyInv, GeometryAgrees, TypeOK

(* A step of a handler that does not return from it.                       *)
Stays(t) ==
  /\ met' = met
  /\ Alike(job'[t], job[t])
  /\ \A u \in Threads : u # t => job'[u] = job[u]

(* Going on with a handler is such a step.                                 *)
LEMMA ContinueStays ==
  ASSUME TypeOK, NEW t \in Threads, NEW j, Continue(t, j), Alike(j, job[t])
  PROVE  Stays(t)
BY DEF Continue, TypeOK, Stays

(* A thread that proceeds is in a handler, and stays in it or returns.     *)
LEMMA ProceedShape ==
  ASSUME TypeOK, NEW t \in Threads, Proceed(t)
  PROVE  Busy(t) /\ (Return(t) \/ StoreHelper(t) \/ Stays(t))
<1>0. job[t] \in Job
  BY DEF TypeOK
<1>1. Busy(t)
  BY DEF Busy, Proceed, Paint, ClearRow, ClearCol, ClearInk, DrawRow, DrawCol, Overflow, DrawInk, DrawTest, LoadHelper, Access, Stray,
         Rotate, StoreHelper, DoubleRelease, SetLogicWidth, SetLogicHeight, Scan, Show
<1>2. Return(t) \/ StoreHelper(t) \/ Stays(t)
  <2>1. CASE ClearRow(t)
    BY <1>0, <2>1, ContinueStays DEF ClearRow, Job, Alike
  <2>2. CASE ClearCol(t)
    BY <1>0, <2>2, ContinueStays DEF ClearCol, Job, Alike
  <2>3. CASE ClearInk(t)
    BY <1>0, <2>3, ContinueStays DEF ClearInk, Job, Alike
  <2>4. CASE DrawRow(t)
    BY <1>0, <2>4, ContinueStays DEF DrawRow, Job, Alike
  <2>5. CASE DrawCol(t)
    BY <1>0, <2>5, ContinueStays DEF DrawCol, Job, Alike
  <2>6. CASE DrawInk(t)
    BY <1>0, <2>6, ContinueStays DEF DrawInk, Job, Alike
  <2>7. CASE LoadHelper(t)
    BY <1>0, <2>7, ContinueStays DEF LoadHelper, Job, Alike
  <2>8. CASE Access(t)
    BY <1>0, <2>8, ContinueStays DEF Access, Job, Alike
  <2>9. CASE Stray(t)
    BY <1>0, <2>9, ContinueStays DEF Stray, Job, Alike
  <2>10. CASE DoubleRelease(t)
    BY <1>0, <2>10, ContinueStays DEF DoubleRelease, Job, Alike
  <2>11. CASE SetLogicWidth(t)
    BY <1>0, <2>11, ContinueStays DEF SetLogicWidth, Job, Alike
  <2>12. CASE SetLogicHeight(t)
    BY <2>12 DEF SetLogicHeight
  <2>13. CASE Scan(t)
    BY <1>0, <2>13, ContinueStays DEF Scan, Job, Alike
  <2>14. CASE Show(t)
    BY <2>14 DEF Show
  <2>15. CASE DrawTest(t)
    BY <1>0, <2>15, ContinueStays DEF DrawTest, Job, Alike
  <2>16. CASE Overflow(t)
    BY <1>0, <2>16, ContinueStays DEF Overflow, Job, Alike
  <2> QED BY <2>1, <2>2, <2>3, <2>4, <2>5, <2>6, <2>7, <2>8, <2>9, <2>10, <2>11, <2>12, <2>13, <2>14, <2>15, <2>16
          DEF Proceed, Paint, Rotate
<1> QED BY <1>1, <1>2

(* A thread that takes up a handler begins it, at the top of its loop.     *)
LEMMA RequestShape ==
  ASSUME TypeOK, NEW t \in Threads,
         (t = RenderThread /\ AutoRender) \/ (t \in IoThreads /\ Request(t))
  PROVE  \/ \E op \in Handlers : /\ met' = Noted(t, op) /\ ~Busy(t)
                                 /\ UNCHANGED <<leds, geometry, job, mixed>>
                                 /\ back' # back => op = "set_background"
                                 /\ transparent' # transparent => op = "set_transparent"
         \/ \E j : /\ Start(t, j) /\ UNCHANGED <<leds, geometry, settings, mixed>>
                   /\ Fresh(j) \/ j.pc = "store"
<1>1. CASE t = RenderThread /\ AutoRender
  BY <1>1, FreshRender DEF AutoRender
<1>2. CASE t \in IoThreads /\ Receive(t)
  BY <1>2, ReceiveStarts DEF Receive
<1>3. CASE SetRotate(t)
  <2>1. \A r \in Turns : [Idle EXCEPT !.op = "set_rotate", !.pc = "store", !.rotation = r].pc = "store"
    BY DEF Idle
  <2> QED BY <1>3, <2>1 DEF SetRotate
<1>4. CASE SetTransparent(t) \/ SetBackground(t) \/ SetAutoRender(t)
  BY <1>4 DEF SetTransparent, SetBackground, SetAutoRender, Handlers
<1> QED BY <1>1, <1>2, <1>3, <1>4 DEF Request

(* A handler keeps the coordinates it began with.                          *)
LEMMA FitsNext ==
  ASSUME Suited
  PROVE  TypeOK /\ (\A t \in Threads : Fits(job[t])) /\ [Next]_vars => (\A t \in Threads : Fits(job[t]))'
<1> SUFFICES ASSUME TypeOK, \A t \in Threads : Fits(job[t]), [Next]_vars, NEW t \in Threads
             PROVE  Fits(job'[t])
  BY DEF Fits, Drawing
<1>1. ASSUME Alike(job'[t], job[t]) PROVE Fits(job'[t])
  BY <1>1 DEF Alike, Fits, Drawing
<1>2. ASSUME NEW u \in Threads, (u = RenderThread /\ AutoRender) \/ (u \in IoThreads /\ Request(u))
      PROVE  Fits(job'[t])
  <2>1. ASSUME NEW j, Start(u, j), Fresh(j) \/ SetRotate(u) PROVE Fits(job'[t])
    <3>1. job'[t] = IF t = u THEN j ELSE job[t]
      BY <2>1 DEF Start, TypeOK
    <3>2. CASE t = u /\ Fresh(j)
      BY <3>1, <3>2 DEF Fresh
    <3>3. CASE t = u /\ SetRotate(u)
      <4>1. PICK r \in Turns :
              Start(u, [Idle EXCEPT !.op = "set_rotate", !.pc = "store", !.rotation = r])
        BY <3>3 DEF SetRotate
      <4>2. job'[t].op = "set_rotate"
        <5>1. [Idle EXCEPT !.op = "set_rotate", !.pc = "store", !.rotation = r].op = "set_rotate"
          BY DEF Idle
        <5> QED BY <3>3, <4>1, <5>1 DEF Start, TypeOK
      <4> QED BY <4>2 DEF Fits, Drawing
    <3> QED BY <2>1, <3>1, <3>2, <3>3
  <2>2. CASE u = RenderThread /\ AutoRender
    BY <2>1, <2>2, FreshRender DEF AutoRender
  <2>3. CASE u \in IoThreads /\ Receive(u)
    BY <2>1, <2>3, ReceiveStarts
  <2>4. CASE SetRotate(u)
    <3>1. \E j : Start(u, j)
      BY <2>4 DEF SetRotate
    <3> QED BY <2>1, <2>4, <3>1
  <2>5. CASE SetTransparent(u) \/ SetBackground(u) \/ SetAutoRender(u)
    BY <2>5 DEF SetTransparent, SetBackground, SetAutoRender
  <2> QED BY <1>2, <2>2, <2>3, <2>4, <2>5 DEF Request
<1>3. ASSUME NEW u \in Threads, Proceed(u) PROVE Fits(job'[t])
  <2>0. job[t] \in Job
    BY DEF TypeOK
  <2>1. CASE Return(u)
    <3>1. Fits(Idle)
      BY DEF Fits, Drawing, Idle
    <3> QED BY <2>1, <3>1 DEF Return, TypeOK
  <2>2. CASE StoreHelper(u)
    <3>1. \/ job'[t] = job[t]
          \/ job'[t] = [job[t] EXCEPT !.freed = TRUE]
          \/ job'[t] = [job[t] EXCEPT !.pc = "lw"]
      BY <2>2 DEF StoreHelper
    <3> QED BY <1>1, <2>0, <3>1 DEF Job, Alike
  <2>3. CASE Stays(u)
    BY <1>1, <2>3 DEF Stays, Alike
  <2> QED BY <1>3, <2>1, <2>2, <2>3, ProceedShape
<1>4. CASE UNCHANGED vars
  BY <1>4 DEF vars
<1> QED BY <1>2, <1>3, <1>4 DEF Next, Halted, Threads

(* What a client can rely on: one io thread, and coordinates that lie on   *)
(* the strip in every orientation.  Then no access ever goes wrong, however *)
(* often the strip is rotated and whoever's request comes in between.      *)
THEOREM SuitedNeverStrays ==
  ASSUME NEW io, IoThreads = {io}, Suited
  PROVE  Spec => []Running
<1> DEFINE AllFit == \A t \in Threads : Fits(job[t])
<1>1. Init => AllFit
  BY IdleOp DEF Init, Fits, Drawing
<1>2. TypeOK /\ AllFit /\ [Next]_vars => AllFit'
  BY FitsNext
<1>3. TypeOK /\ AllFit /\ StrayOnlyIfMisplaced => Running
  <2> SUFFICES ASSUME TypeOK, AllFit, StrayOnlyIfMisplaced, NEW t \in Threads PROVE job[t].pc # "undefined"
    BY DEF Running
  <2>1. Fits(job[t]) /\ logic_width \in {W, H} /\ logic_height \in {W, H}
    BY DEF TypeOK
  <2>2. Placed(job[t])
    BY <2>1 DEF Fits, Placed
  <2> QED BY <2>2 DEF StrayOnlyIfMisplaced
<1> HIDE DEF AllFit
<1> QED BY <1>1, <1>2, <1>3, TypeCorrect, OneIoThread, PTL DEF Spec
-----------------------------------------------------------------------------
(* Overlapping handlers know each other from the start of the later one to *)
(* the end of the earlier one.                                             *)
LEMMA OverlapNext == TypeOK /\ OverlapKnown /\ [Next]_vars => OverlapKnown'
<1> SUFFICES ASSUME TypeOK, OverlapKnown, [Next]_vars PROVE OverlapKnown'
  OBVIOUS
<1>1. ASSUME NEW u \in Threads, NEW j, Start(u, j) PROVE OverlapKnown'
  <2>1. job'[u] = j /\ \A t \in Threads : t # u => job'[t] = job[t]
    BY <1>1 DEF Start, TypeOK
  <2>2. met'[u] = {job[t].op : t \in {v \in Threads \ {u} : Busy(v)}}
    BY <1>1 DEF Start, Noted, TypeOK
  <2>3. \A t \in Threads : t # u => met'[t] = IF Busy(t) THEN met[t] \cup {j.op} ELSE met[t]
    BY <1>1 DEF Start, Noted, TypeOK
  <2>4. SUFFICES ASSUME NEW t \in Threads, NEW v \in Threads, t # v, Busy(t)', Busy(v)'
                 PROVE  job'[v].op \in met'[t]
    BY DEF OverlapKnown
  <2>5. CASE t = u
    BY <2>1, <2>2, <2>4, <2>5 DEF Busy
  <2>6. CASE v = u
    BY <2>1, <2>3, <2>4, <2>6 DEF Busy
  <2>7. CASE t # u /\ v # u
    BY <2>1, <2>3, <2>4, <2>7 DEF Busy, OverlapKnown
  <2> QED BY <2>5, <2>6, <2>7
<1>2. ASSUME NEW u \in Threads, NEW op, met' = Noted(u, op), job' = job PROVE OverlapKnown'
  BY <1>2 DEF Noted, OverlapKnown, Busy
<1>3. ASSUME NEW u \in Threads, Proceed(u) PROVE OverlapKnown'
  <2>0. Busy(u) /\ (Return(u) \/ StoreHelper(u) \/ Stays(u))
    BY <1>3, ProceedShape
  <2>1. CASE Return(u)
    <3>1. ~Busy(u)' /\ \A t \in Threads : t # u => job'[t] = job[t] /\ met'[t] = met[t]
      BY <2>1, IdleOp DEF Return, TypeOK, Busy
    <3> QED BY <3>1 DEF OverlapKnown, Busy
  <2>2. CASE StoreHelper(u)
    <3>1. met' = met /\ \A t \in Threads : job'[t].op = job[t].op /\ (Busy(t)' <=> Busy(t))
      <4>1. ASSUME NEW t \in Threads PROVE job'[t].op = job[t].op /\ (Busy(t)' <=> Busy(t))
        <5>1. job[t] \in Job
          BY DEF TypeOK
        <5>2. \/ job'[t] = job[t]
              \/ job'[t] = [job[t] EXCEPT !.freed = TRUE]
              \/ t = u /\ job'[t] = [job[t] EXCEPT !.pc = "lw"]
          BY <2>2 DEF StoreHelper
        <5> QED BY <2>0, <5>1, <5>2 DEF Busy, Job
      <4> QED BY <2>2, <4>1 DEF StoreHelper
    <3> QED BY <3>1 DEF OverlapKnown
  <2>3. CASE Stays(u)
    BY <2>0, <2>3 DEF OverlapKnown, Busy, Stays, Alike
  <2> QED BY <2>0, <2>1, <2>2, <2>3
<1>4. CASE UNCHANGED vars
  BY <1>4 DEF vars, OverlapKnown, Busy
<1>5. ASSUME NEW u \in Threads, (u = RenderThread /\ AutoRender) \/ (u \in IoThreads /\ Request(u))
      PROVE  OverlapKnown'
  BY <1>1, <1>2, <1>5, RequestShape
<1> QED BY <1>3, <1>4, <1>5 DEF Next, Halted, Threads
-----------------------------------------------------------------------------
Bystanding(t) ==
  /\ met[t] \subseteq met'[t]
  /\ job'[t].pc = job[t].pc
  /\ ~Holding(t) \/ ~Torn(t) => job'[t] = job[t]
  /\ ~Torn(t) => UNCHANGED <<geometry, mixed>>
  /\ met'[t] \cap Painters = {} => leds' = leds
  /\ "set_background" \notin met'[t] => back' = back
  /\ "set_transparent" \notin met'[t] => transparent' = transparent

(* What the steps of one thread do to another one that is in a handler:    *)
(* whatever they change is recorded in its history.                        *)
LEMMA Bystander ==
  ASSUME TypeOK, SafetyInv, OverlapKnown, NEW t \in Threads, NEW u \in Threads, t # u, Busy(t),
         \/ (u = RenderThread /\ AutoRender) \/ (u \in IoThreads /\ Request(u))
         \/ Proceed(u)
  PROVE  Bystanding(t)
<1>1. ASSUME NEW op, met' = Noted(u, op), UNCHANGED <<leds, geometry, job, mixed>>,
             back' # back => op = "set_background",
             transparent' # transparent => op = "set_transparent"
      PROVE  Bystanding(t)
  <2>1. met'[t] = met[t] \cup {op}
    BY <1>1 DEF Noted
  <2> QED BY <1>1, <2>1 DEF Bystanding
<1>2. ASSUME NEW j, Start(u, j), UNCHANGED <<leds, geometry, settings, mixed>> PROVE Bystanding(t)
  <2>1. job'[t] = job[t] /\ met'[t] = met[t] \cup {j.op}
    BY <1>2 DEF Start, Noted, TypeOK
  <2> QED BY <1>2, <2>1 DEF Bystanding
<1>3. CASE Proceed(u)
  <2>0. Busy(u) /\ (Return(u) \/ StoreHelper(u) \/ Stays(u))
    BY <1>3, ProceedShape
  <2>1. met'[t] = met[t]
    BY <2>0 DEF Return, StoreHelper, Stays, TypeOK
  <2>2. ASSUME Rotate(u) PROVE Torn(t)
    <3>1. job[u].op = "set_rotate"
      BY <2>2 DEF Rotate, StoreHelper, DoubleRelease, SetLogicWidth, SetLogicHeight, TypeOK, JobOK
    <3> QED BY <3>1 DEF SafetyInv, Support, RotatorsMeet, Rotating
  <2>3. ~Holding(t) \/ ~Torn(t) => job'[t] = job[t]
    <3>1. CASE StoreHelper(u)
      <4>1. Torn(t)
        BY <2>2, <3>1 DEF Rotate
      <4> QED BY <3>1, <4>1 DEF StoreHelper
    <3>2. CASE Return(u) \/ Stays(u)
      BY <3>2 DEF Return, Stays, TypeOK
    <3> QED BY <2>0, <3>1, <3>2
  <2>4. ~Torn(t) => UNCHANGED <<geometry, mixed>>
    <3>1. CASE Rotate(u)
      BY <2>2, <3>1
    <3> QED BY <1>3, <3>1
         DEF Proceed, Paint, ClearRow, ClearCol, ClearInk, DrawRow, DrawCol, Overflow, DrawInk, DrawTest, LoadHelper, Access, Stray,
             Scan, Show
  <2>5. UNCHANGED <<back, transparent>>
    BY <1>3
       DEF Proceed, Paint, ClearRow, ClearCol, ClearInk, DrawRow, DrawCol, Overflow, DrawInk, DrawTest, LoadHelper, Access, Stray,
           Rotate, StoreHelper, DoubleRelease, SetLogicWidth, SetLogicHeight, Scan, Show
  <2>6. leds' # leds => met'[t] \cap Painters # {}
    <3>1. SUFFICES ASSUME leds' # leds PROVE met'[t] \cap Painters # {}
      OBVIOUS
    <3>2. Access(u)
      BY <1>3, <3>1
         DEF Proceed, Paint, ClearRow, ClearCol, ClearInk, DrawRow, DrawCol, Overflow, DrawInk, DrawTest, LoadHelper, Stray,
             Rotate, StoreHelper, DoubleRelease, SetLogicWidth, SetLogicHeight, Scan, Show
    <3>3. job[u].op \in Painters
      BY <3>1, <3>2 DEF Access, TypeOK, JobOK
    <3>4. job[u].op \in met[t]
      BY <2>0 DEF OverlapKnown
    <3> QED BY <2>1, <3>3, <3>4
  <2>7. job'[t].pc = job[t].pc
    <3>1. job[t] \in Job
      BY DEF TypeOK
    <3>2. job'[t] = job[t] \/ job'[t] = [job[t] EXCEPT !.freed = TRUE]
      BY <2>0 DEF Return, Stays, StoreHelper, TypeOK
    <3> QED BY <3>1, <3>2 DEF Job
  <2> QED BY <2>1, <2>3, <2>4, <2>5, <2>6, <2>7 DEF Bystanding
<1> QED BY <1>1, <1>2, <1>3, RequestShape

(* So a picture that stays undisturbed keeps what it has painted, and a    *)
(* frame what it has read.                                                 *)
LEMMA OthersPaint ==
  ASSUME TypeOK, NEW t \in Threads, Busy(t), Bystanding(t), Painted(t), Framed(t)
  PROVE  Painted(t)' /\ Framed(t)'
<1>1. Painted(t)'
  <2>1. SUFFICES ASSUME Sound(t)' PROVE Painted(t)'
    BY DEF Painted
  <2>2. ~Torn(t)
    BY <2>1 DEF Bystanding, Sound, Undisturbed, Torn
  <2>3. UNCHANGED <<leds, geometry, back, transparent, mixed>> /\ job'[t] = job[t]
    BY <2>1, <2>2 DEF Bystanding, Sound, Undisturbed
  <2>4. Sound(t)
    BY <2>1, <2>3 DEF Bystanding, Sound, Undisturbed, Placed
  <2> QED BY <2>3, <2>4 DEF Painted, InLoop, Wanted, Colour, Passed, Visible, Shows
<1>2. Framed(t)'
  <2>1. SUFFICES ASSUME job'[t].pc = "scan", met'[t] \cap Painters = {} PROVE Framed(t)'
    BY DEF Framed
  <2>2. leds' = leds /\ met[t] \cap Painters = {}
    BY <2>1 DEF Bystanding
  <2>3. job'[t] = job[t]
    BY <2>1 DEF Bystanding, Holding
  <2> QED BY <2>1, <2>2, <2>3 DEF Framed
<1> QED BY <1>1, <1>2
-----------------------------------------------------------------------------
(* A step of a loop that paints nothing keeps the picture, if it passes    *)
(* only cells that show, or need not.                                      *)
LEMMA Advance ==
  ASSUME TypeOK, NEW t \in Threads, Painted(t), NEW k, Continue(t, k),
         UNCHANGED <<leds, geometry, settings, mixed>>,
         Alike(k, job[t]), InLoop(job[t]), k.pc # "scan",
         InLoop(k) /\ Sound(t) /\ k.op \in Picture =>
           /\ \A c \in Wanted(job[t]) : Passed(k, c) /\ ~Passed(job[t], c) => ~Visible(job[t], c)
           /\ k.pc = "test" => transparent
           /\ k.pc \in {"load", "access"} => k.ink = Colour(job[t], <<k.x, k.y>>)
  PROVE  Painted(t)' /\ Framed(t)'
<1>1. job'[t] = k /\ met' = met
  BY DEF Continue, TypeOK
<1>2. Painted(t)'
  <2>0. Placed(job[t])' => Placed(job[t])
    <3>1. Placed(k) <=> Placed(job[t])
      BY AlikePlaced
    <3> QED BY <1>1, <3>1 DEF Placed
  <2>1. SUFFICES ASSUME k.op \in Picture, InLoop(k), Sound(t)
                 PROVE  Painted(t)'
    BY <1>1, <2>0 DEF Painted, Sound, Undisturbed, InLoop
  <2>2. \A c \in Wanted(job[t]) : Passed(k, c) => Shows(job[t], c)
    BY <2>1 DEF Painted, Alike, Shows
  <2>3. /\ Wanted(k) = Wanted(job[t])
        /\ \A c : Colour(k, c) = Colour(job[t], c) /\ (Shows(k, c) <=> Shows(job[t], c))
    BY DEF Alike, Wanted, Colour, Shows, Visible, Drawing
  <2>4. /\ \A c \in Wanted(k) : Passed(k, c) => Shows(k, c)
        /\ k.pc = "test" => transparent
        /\ k.pc \in {"load", "access"} => k.ink = Colour(k, <<k.x, k.y>>)
    BY <2>1, <2>2, <2>3
  <2> QED BY <1>1, <2>4 DEF Painted, InLoop, Wanted, Colour, Passed, Visible, Shows
<1>3. Framed(t)'
  BY <1>1 DEF Framed
<1> QED BY <1>2, <1>3

(* Which cells the steps of a loop pass.                                   *)
LEMMA PassedSteps ==
  ASSUME TypeOK, NEW t \in Threads, job[t].op \in Picture, NEW c \in Wanted(job[t]), NEW k
  PROVE  /\ k.pc = "col" /\ k.x = 0 /\ k.y = job[t].y /\ Passed(k, c) => Passed(job[t], c)
         /\ k.pc # "row" /\ k.x = job[t].x /\ k.y = job[t].y /\ job[t].pc # "row" /\ Passed(k, c) =>
              Passed(job[t], c)
         /\ k.pc = "row" /\ k.y = job[t].y + 1 /\ Passed(k, c) /\ ~Passed(job[t], c) =>
              c[2] = job[t].y /\ (job[t].pc # "row" => c[1] >= job[t].x)
         /\ k.pc = "col" /\ k.x = job[t].x + 1 /\ k.y = job[t].y /\ job[t].pc # "row"
              /\ Passed(k, c) /\ ~Passed(job[t], c) => c = <<job[t].x, job[t].y>>
<1>1. c[1] \in Nat /\ c[2] \in Nat /\ c = <<c[1], c[2]>>
  BY WantedCells
<1>2. job[t].x \in Nat /\ job[t].y \in Nat
  BY DEF TypeOK, Job
<1> QED BY <1>1, <1>2 DEF Passed
(* The steps of clear() keep its picture.                                  *)
LEMMA ClearPaints ==
  ASSUME TypeOK, SafetyInv, NEW t \in Threads, Painted(t),
         ClearRow(t) \/ ClearCol(t) \/ ClearInk(t)
  PROVE  Painted(t)' /\ Framed(t)'
<1> DEFINE j == job[t]
<1>0. j \in Job /\ JobOK(j)
  BY DEF TypeOK
<1>1. CASE Return(t)
  BY <1>1, IdleOp DEF Return, TypeOK, Painted, Framed, InLoop
<1>2. j.op = "clear" /\ j.op \in Picture /\ InLoop(j) /\ UNCHANGED <<leds, geometry, settings, mixed>>
  BY DEF ClearRow, ClearCol, ClearInk, Picture, InLoop
<1>3. \A c : Colour(j, c) = back
  BY <1>2 DEF Colour
<1>4. ASSUME ClearRow(t), ~Return(t) PROVE Painted(t)' /\ Framed(t)'
  <2> DEFINE k == [j EXCEPT !.pc = "col", !.x = 0]
  <2>1. Alike(k, j) /\ k.pc = "col" /\ k.x = 0 /\ k.y = j.y
    BY <1>0 DEF Job, Alike
  <2>2. Continue(t, k)
    BY <1>4 DEF ClearRow
  <2> HIDE DEF k
  <2>3. \A c \in Wanted(j) : Passed(k, c) => Passed(j, c)
    BY <1>2, <2>1, PassedSteps
  <2> QED BY <1>2, <2>1, <2>2, <2>3, Advance
<1>5. CASE ClearCol(t)
  <2> DEFINE k == [j EXCEPT !.pc = "ink"]
             l == [j EXCEPT !.pc = "row", !.y = @ + 1]
  <2>1. Alike(k, j) /\ k.pc = "ink" /\ k.x = j.x /\ k.y = j.y
    BY <1>0 DEF Job, Alike
  <2>2. Alike(l, j) /\ l.pc = "row" /\ l.y = j.y + 1
    BY <1>0 DEF Job, Alike
  <2>3. Continue(t, k) \/ (Continue(t, l) /\ ~(j.x < logic_width))
    BY <1>5 DEF ClearCol
  <2>4. j.pc = "col"
    BY <1>5 DEF ClearCol
  <2> HIDE DEF k, l
  <2>5. CASE Continue(t, k)
    <3>1. \A c \in Wanted(j) : Passed(k, c) => Passed(j, c)
      BY <1>2, <2>1, <2>4, PassedSteps
    <3> QED BY <1>2, <2>1, <2>5, <3>1, Advance
  <2>6. CASE Continue(t, l) /\ ~(j.x < logic_width)
    <3>1. ASSUME Sound(t), NEW c \in Wanted(j), Passed(l, c), ~Passed(j, c) PROVE FALSE
      <4>1. logic_width = LogicWidth(helper) /\ logic_width \in Nat
        BY <1>2, <2>4, <3>1, Settled DEF Busy, Rotating, Sound, Undisturbed, Torn
      <4>2. c[1] < logic_width
        BY <1>2, <4>1 DEF Wanted, Logical
      <4>3. c[1] >= j.x /\ c[1] \in Nat /\ j.x \in Nat
        BY <1>0, <1>2, <2>2, <2>4, <3>1, PassedSteps, WantedCells DEF Job
      <4> QED BY <2>6, <4>1, <4>2, <4>3
    <3> QED BY <1>2, <2>2, <2>6, <3>1, Advance
  <2> QED BY <2>3, <2>5, <2>6
<1>6. CASE ClearInk(t)
  <2> DEFINE k == [j EXCEPT !.pc = "load", !.ink = back]
  <2>1. Alike(k, j) /\ k.pc = "load" /\ k.x = j.x /\ k.y = j.y /\ k.ink = back
    BY <1>0 DEF Job, Alike
  <2>2. Continue(t, k) /\ j.pc = "ink"
    BY <1>6 DEF ClearInk
  <2> HIDE DEF k
  <2>3. \A c \in Wanted(j) : Passed(k, c) => Passed(j, c)
    BY <1>2, <2>1, <2>2, PassedSteps
  <2> QED BY <1>2, <1>3, <2>1, <2>2, <2>3, Advance
<1> QED BY <1>1, <1>4, <1>5, <1>6

(* The steps of draw() keep its picture: what it cuts off lies beyond the  *)
(* edges, and what it skips is transparent.                                *)
LEMMA DrawPaints ==
  ASSUME TypeOK, SafetyInv, NEW t \in Threads, Painted(t),
         DrawRow(t) \/ DrawCol(t) \/ DrawInk(t) \/ DrawTest(t)
  PROVE  Painted(t)' /\ Framed(t)'
<1> DEFINE j == job[t]
<1>0. j \in Job /\ JobOK(j)
  BY DEF TypeOK
<1>1. CASE Return(t)
  BY <1>1, IdleOp DEF Return, TypeOK, Painted, Framed, InLoop
<1>2. /\ Drawing(j) /\ j.op \in Picture /\ j.op # "clear" /\ InLoop(j) /\ Wanted(j) = Cells(j.image)
      /\ Busy(t) /\ ~Rotating(t) /\ UNCHANGED <<leds, geometry, settings, mixed>>
  BY <1>0 DEF DrawRow, DrawCol, DrawInk, DrawTest, JobOK, Drawing, Picture, InLoop, Wanted, Busy, Rotating
<1>3. /\ j.image.width \in Nat /\ j.image.height \in Nat /\ j.x \in Nat /\ j.y \in Nat
      /\ j.ox \in Int /\ j.oy \in Int
  BY <1>0, <1>2, ImageType DEF JobOK, Job, Ints
<1>4. ASSUME Sound(t)
      PROVE  /\ logic_width = LogicWidth(helper) /\ logic_width \in Nat
             /\ logic_height = LogicHeight(helper) /\ logic_height \in Nat
  BY <1>2, <1>4, Settled DEF Sound, Undisturbed, Torn
<1>5. ASSUME DrawRow(t), ~Return(t) PROVE Painted(t)' /\ Framed(t)'
  <2> DEFINE k == [j EXCEPT !.y = @ + 1]
             l == [j EXCEPT !.pc = "col", !.x = 0]
  <2>0. j.pc = "row"
    BY <1>5 DEF DrawRow
  <2>1. Alike(k, j) /\ k.pc = "row" /\ k.y = j.y + 1
    BY <1>0, <2>0 DEF Job, Alike
  <2>2. Alike(l, j) /\ l.pc = "col" /\ l.x = 0 /\ l.y = j.y
    BY <1>0 DEF Job, Alike
  <2>3. (Continue(t, k) /\ j.oy + j.y >= logic_height) \/ Continue(t, l)
    BY <1>5 DEF DrawRow
  <2> HIDE DEF k, l
  <2>4. CASE Continue(t, k) /\ j.oy + j.y >= logic_height
    <3>1. ASSUME Sound(t), NEW c \in Wanted(j), Passed(k, c), ~Passed(j, c) PROVE ~Visible(j, c)
      <4>1. c[2] = j.y
        BY <1>2, <2>1, <3>1, PassedSteps
      <4>2. ~(j.oy + c[2] < LogicHeight(helper))
        BY <1>3, <1>4, <2>4, <3>1, <4>1
      <4> QED BY <1>4, <3>1, <4>2 DEF Visible, Logical
    <3> QED BY <1>2, <2>1, <2>4, <3>1, Advance
  <2>5. CASE Continue(t, l)
    <3>1. \A c \in Wanted(j) : Passed(l, c) => Passed(j, c)
      BY <1>2, <2>2, PassedSteps
    <3> QED BY <1>2, <2>2, <2>5, <3>1, Advance
  <2> QED BY <2>3, <2>4, <2>5
<1>6. CASE DrawCol(t)
  <2> DEFINE k == [j EXCEPT !.pc = "row", !.y = @ + 1]
             l == [j EXCEPT !.x = @ + 1]
             m == [j EXCEPT !.pc = "ink"]
  <2>0. j.pc = "col"
    BY <1>6 DEF DrawCol
  <2>1. Alike(k, j) /\ k.pc = "row" /\ k.y = j.y + 1
    BY <1>0 DEF Job, Alike
  <2>2. Alike(l, j) /\ l.pc = "col" /\ l.x = j.x + 1 /\ l.y = j.y
    BY <1>0, <2>0 DEF Job, Alike
  <2>3. Alike(m, j) /\ m.pc = "ink" /\ m.x = j.x /\ m.y = j.y
    BY <1>0 DEF Job, Alike
  <2>4. \/ Continue(t, k) /\ j.x >= j.image.width
        \/ Continue(t, l) /\ j.ox + j.x >= logic_width
        \/ Continue(t, m)
    BY <1>6 DEF DrawCol
  <2> HIDE DEF k, l, m
  <2>5. CASE Continue(t, k) /\ j.x >= j.image.width
    <3>1. ASSUME NEW c \in Wanted(j), Passed(k, c), ~Passed(j, c) PROVE FALSE
      <4>1. c[1] >= j.x /\ c[1] \in Nat
        BY <1>2, <2>0, <2>1, <3>1, PassedSteps, WantedCells
      <4>2. c[1] < j.image.width
        BY <1>2, <1>3 DEF Cells
      <4> QED BY <1>3, <2>5, <4>1, <4>2
    <3> QED BY <1>2, <2>1, <2>5, <3>1, Advance
  <2>6. CASE Continue(t, l) /\ j.ox + j.x >= logic_width
    <3>1. ASSUME Sound(t), NEW c \in Wanted(j), Passed(l, c), ~Passed(j, c) PROVE ~Visible(j, c)
      <4>1. c = <<j.x, j.y>>
        BY <1>2, <2>0, <2>2, <3>1, PassedSteps
      <4>2. ~(j.ox + c[1] < LogicWidth(helper))
        BY <1>3, <1>4, <2>6, <3>1, <4>1
      <4> QED BY <1>4, <3>1, <4>2 DEF Visible, Logical
    <3> QED BY <1>2, <2>2, <2>6, <3>1, Advance
  <2>7. CASE Continue(t, m)
    <3>1. \A c \in Wanted(j) : Passed(m, c) => Passed(j, c)
      BY <1>2, <2>0, <2>3, PassedSteps
    <3> QED BY <1>2, <2>3, <2>7, <3>1, Advance
  <2> QED BY <2>4, <2>5, <2>6, <2>7
<1>7. CASE DrawInk(t)
  <2> DEFINE led == Cell(j)
             k == [j EXCEPT !.pc = "test"]
             l == [j EXCEPT !.pc = "load", !.ink = led]
  <2>0. j.pc = "ink" /\ led = Colour(j, <<j.x, j.y>>)
    BY <1>2, <1>7 DEF DrawInk, Colour, Cell
  <2>1. Alike(k, j) /\ k.pc = "test" /\ k.x = j.x /\ k.y = j.y
    BY <1>0 DEF Job, Alike
  <2>2. Alike(l, j) /\ l.pc = "load" /\ l.x = j.x /\ l.y = j.y /\ l.ink = led
    BY <1>0 DEF Job, Alike
  <2>3. (Continue(t, k) /\ transparent) \/ Continue(t, l)
    BY <1>7 DEF DrawInk
  <2> HIDE DEF k, l, led
  <2>4. CASE Continue(t, k) /\ transparent
    <3>1. \A c \in Wanted(j) : Passed(k, c) => Passed(j, c)
      BY <1>2, <2>0, <2>1, PassedSteps
    <3> QED BY <1>2, <2>1, <2>4, <3>1, Advance
  <2>5. CASE Continue(t, l)
    <3>1. \A c \in Wanted(j) : Passed(l, c) => Passed(j, c)
      BY <1>2, <2>0, <2>2, PassedSteps
    <3> QED BY <1>2, <2>0, <2>2, <2>5, <3>1, Advance
  <2> QED BY <2>3, <2>4, <2>5
<1>8. CASE DrawTest(t)
  <2> DEFINE led == Cell(j)
             k == [j EXCEPT !.pc = "col", !.x = @ + 1]
             l == [j EXCEPT !.pc = "load", !.ink = led]
  <2>0. j.pc = "test" /\ led = Colour(j, <<j.x, j.y>>)
    BY <1>2, <1>8 DEF DrawTest, Colour, Cell
  <2>1. Alike(k, j) /\ k.pc = "col" /\ k.x = j.x + 1 /\ k.y = j.y
    BY <1>0 DEF Job, Alike
  <2>2. Alike(l, j) /\ l.pc = "load" /\ l.x = j.x /\ l.y = j.y /\ l.ink = led
    BY <1>0 DEF Job, Alike
  <2>3. (Continue(t, k) /\ led = back) \/ Continue(t, l)
    BY <1>8 DEF DrawTest
  <2> HIDE DEF k, l, led
  <2>4. CASE Continue(t, k) /\ led = back
    <3>1. ASSUME Sound(t), NEW c \in Wanted(j), Passed(k, c), ~Passed(j, c) PROVE ~Visible(j, c)
      <4>1. c = <<j.x, j.y>>
        BY <1>2, <2>0, <2>1, <3>1, PassedSteps
      <4>2. transparent
        BY <1>2, <2>0, <3>1 DEF Painted
      <4> QED BY <1>2, <2>0, <2>4, <4>1, <4>2 DEF Visible
    <3> QED BY <1>2, <2>1, <2>4, <3>1, Advance
  <2>5. CASE Continue(t, l)
    <3>1. \A c \in Wanted(j) : Passed(l, c) => Passed(j, c)
      BY <1>2, <2>0, <2>2, PassedSteps
    <3> QED BY <1>2, <2>0, <2>2, <2>5, <3>1, Advance
  <2> QED BY <2>3, <2>4, <2>5
<1> QED BY <1>1, <1>5, <1>6, <1>7, <1>8
(* An access paints the cell the loop has come to, and no other: no two    *)
(* cells share a LED.                                                      *)
LEMMA AccessPaints ==
  ASSUME TypeOK, SafetyInv, NEW t \in Threads, Painted(t), Access(t)
  PROVE  Painted(t)' /\ Framed(t)'
<1> DEFINE j == job[t]
           k == [j EXCEPT !.pc = "col", !.x = @ + 1]
           here == <<j.x, j.y>>
<1>0. j \in Job /\ JobOK(j) /\ j.pc = "access" /\ helper \in Rotations /\ leds \in [Positions -> Color]
  BY DEF TypeOK, Access
<1>1. CASE Return(t)
  BY <1>1, IdleOp DEF Return, TypeOK, Painted, Framed, InLoop
<1>2. ASSUME ~Return(t) PROVE Painted(t)' /\ Framed(t)'
  <2>1. Alike(k, j) /\ k.pc = "col" /\ k.x = j.x + 1 /\ k.y = j.y
    BY <1>0 DEF Job, Alike
  <2>2. /\ Continue(t, k) /\ UNCHANGED <<geometry, settings, mixed>>
        /\ j.op # "pixel" /\ leds' = [leds EXCEPT ![IndexOf(j)] = j.ink]
    BY <1>2 DEF Access
  <2> HIDE DEF k
  <2>3. job'[t] = k /\ met' = met
    BY <2>2 DEF Continue, TypeOK
  <2>4. Painted(t)'
    <3>0. Placed(job[t])' => Placed(job[t])
      <4>1. Placed(k) <=> Placed(job[t])
        BY <2>1, AlikePlaced
      <4> QED BY <2>2, <2>3, <4>1 DEF Placed
    <3>1. SUFFICES ASSUME k.op \in Picture, Sound(t) PROVE Painted(t)'
      BY <2>2, <2>3, <3>0 DEF Painted, Sound, Undisturbed
    <3>2. /\ j.op \in Picture /\ InLoop(j) /\ j.ink = Colour(j, here)
          /\ \A c \in Wanted(j) : Passed(j, c) => Shows(j, c)
      BY <1>0, <2>1, <3>1 DEF Painted, Alike, InLoop
    <3>3. /\ <<j.ox + j.x, j.oy + j.y>> \in Logical(helper)
          /\ IndexOf(j) = SnakeLed(helper, j.ox + j.x, j.oy + j.y) /\ IndexOf(j) \in Positions
      BY <1>0, <3>1, AccessInside DEF Clean, Sound, Undisturbed, Torn, IndexOf
    <3>4. ASSUME NEW c \in Wanted(j), Passed(k, c), Visible(j, c)
          PROVE  leds'[SnakeLed(helper, j.ox + c[1], j.oy + c[2])] = Colour(j, c)
      <4>1. CASE c = here
        BY <1>0, <2>2, <3>2, <3>3, <4>1
      <4>2. CASE c # here
        <5>1. Passed(j, c)
          BY <1>0, <2>1, <3>2, <3>4, <4>2, PassedSteps
        <5>2. leds[SnakeLed(helper, j.ox + c[1], j.oy + c[2])] = Colour(j, c)
          BY <3>2, <3>4, <5>1 DEF Shows
        <5>3. /\ c[1] \in Nat /\ c[2] \in Nat /\ c = <<c[1], c[2]>>
              /\ j.x \in Nat /\ j.y \in Nat /\ j.ox \in Int /\ j.oy \in Int
          BY <1>0, <3>2, WantedCells DEF Job, Ints
        <5>4. /\ j.ox + c[1] \in 0 .. LogicWidth(helper) - 1 /\ j.oy + c[2] \in 0 .. LogicHeight(helper) - 1
              /\ j.ox + j.x \in 0 .. LogicWidth(helper) - 1 /\ j.oy + j.y \in 0 .. LogicHeight(helper) - 1
          BY <3>3, <3>4 DEF Visible, Logical
        <5>5. SnakeLed(helper, j.ox + c[1], j.oy + c[2]) # IndexOf(j)
          <6>1. ASSUME SnakeLed(helper, j.ox + c[1], j.oy + c[2]) = SnakeLed(helper, j.ox + j.x, j.oy + j.y)
                PROVE  FALSE
            <7>1. j.ox + c[1] = j.ox + j.x /\ j.oy + c[2] = j.oy + j.y
              BY <1>0, <5>4, <6>1, SnakeLedInjective
            <7>2. \A a, b, o \in Int : o + a = o + b => a = b
              OBVIOUS
            <7>3. c[1] = j.x /\ c[2] = j.y
              <8>1. c[1] \in Int /\ c[2] \in Int /\ j.x \in Int /\ j.y \in Int
                BY <5>3
              <8>2. j.ox \in Int /\ j.oy \in Int
                BY <5>3
              <8> QED BY <7>1, <7>2, <8>1, <8>2, Zenon
            <7> QED BY <4>2, <5>3, <7>3
          <6> QED BY <3>3, <6>1
        <5>6. SnakeLed(helper, j.ox + c[1], j.oy + c[2]) \in Positions
          BY <1>0, <5>4, SnakeLedInside
        <5> QED BY <1>0, <2>2, <5>2, <5>5, <5>6
      <4> QED BY <4>1, <4>2
    <3>5. \A c \in Wanted(k) : Passed(k, c) /\ Visible(k, c) =>
             leds'[SnakeLed(helper, k.ox + c[1], k.oy + c[2])] = Colour(k, c)
      <4>1. Wanted(k) = Wanted(j) /\ \A c : Colour(k, c) = Colour(j, c) /\ (Visible(k, c) <=> Visible(j, c))
        BY <2>1 DEF Alike, Wanted, Colour, Visible, Drawing
      <4> QED BY <2>1, <3>4, <4>1 DEF Alike
    <3> QED BY <2>1, <2>2, <2>3, <3>5 DEF Painted, InLoop, Wanted, Colour, Passed, Visible, Shows
  <2> QED BY <2>1, <2>3, <2>4 DEF Framed
<1> QED BY <1>1, <1>2

(* The steps of a handler keep its own picture and its own frame.          *)
LEMMA OwnPaint ==
  ASSUME TypeOK, SafetyInv, NEW t \in Threads, Painted(t), Framed(t), Proceed(t)
  PROVE  Painted(t)' /\ Framed(t)'
<1> DEFINE j == job[t]
<1>0. j \in Job /\ JobOK(j)
  BY DEF TypeOK
<1>1. CASE ClearRow(t) \/ ClearCol(t) \/ ClearInk(t)
  BY <1>1, ClearPaints
<1>2. CASE DrawRow(t) \/ DrawCol(t) \/ DrawInk(t) \/ DrawTest(t)
  BY <1>2, DrawPaints
<1>3. CASE LoadHelper(t)
  <2> DEFINE k == [j EXCEPT !.pc = "access", !.held = helper, !.freed = FALSE]
  <2>1. Alike(k, j) /\ k.pc = "access" /\ k.x = j.x /\ k.y = j.y /\ k.ink = j.ink
    BY <1>0 DEF Job, Alike
  <2>2. Continue(t, k) /\ j.pc = "load" /\ UNCHANGED <<leds, geometry, settings, mixed>>
    BY <1>3 DEF LoadHelper
  <2> HIDE DEF k
  <2>3. ASSUME k.op \in Picture, Sound(t)
        PROVE  /\ \A c \in Wanted(j) : Passed(k, c) => Passed(j, c)
               /\ k.ink = Colour(j, <<k.x, k.y>>)
    <3>1. j.op \in Picture
      BY <2>1, <2>3 DEF Alike
    <3> QED BY <2>1, <2>2, <2>3, <3>1, PassedSteps DEF Painted, InLoop
  <2> QED BY <2>1, <2>2, <2>3, Advance DEF InLoop
<1>4. CASE Access(t)
  BY <1>4, AccessPaints
<1>5. CASE Stray(t) \/ Overflow(t)
  <2> DEFINE k == [j EXCEPT !.pc = "undefined"]
  <2>1. k.pc = "undefined" /\ job'[t] = k
    BY <1>0, <1>5 DEF Job, Stray, Overflow, Continue, TypeOK
  <2> QED BY <2>1 DEF Painted, Framed, InLoop
<1>6. CASE Rotate(t)
  <2>1. job'[t].pc \in {"idle", "lw", "lh", "undefined"}
    BY <1>0, <1>6, IdleOp DEF Rotate, StoreHelper, DoubleRelease, SetLogicWidth, SetLogicHeight,
       Continue, Return, TypeOK, Job
  <2> QED BY <2>1 DEF Painted, Framed, InLoop
<1>7. CASE Scan(t)
  <2> DEFINE k == [j EXCEPT !.x = @ + 1, !.frame[j.x] = leds[j.x]]
  <2>1. k.pc = "scan" /\ k.x = j.x + 1 /\ k.frame = [j.frame EXCEPT ![j.x] = leds[j.x]]
    BY <1>0, <1>7 DEF Job, Scan
  <2>2. job'[t] = k /\ met' = met /\ leds' = leds /\ j.pc = "scan" /\ j.x \in Positions
    BY <1>7 DEF Scan, Continue, TypeOK
  <2> HIDE DEF k
  <2>3. j.frame \in [Positions -> Color] /\ \A p \in Positions : p \in Int
    BY <1>0 DEF Job, Positions
  <2>4. Framed(t)'
    <3>1. SUFFICES ASSUME met[t] \cap Painters = {}, NEW p \in Positions, p < j.x + 1
                   PROVE  k.frame[p] = leds[p]
      BY <2>1, <2>2 DEF Framed
    <3>2. p = j.x \/ p < j.x
      BY <2>2, <2>3, <3>1
    <3> QED BY <2>1, <2>2, <2>3, <3>1, <3>2 DEF Framed
  <2> QED BY <2>1, <2>2, <2>4 DEF Painted, InLoop
<1>8. CASE Show(t)
  BY <1>8, IdleOp DEF Show, Return, TypeOK, Painted, Framed, InLoop
<1> QED BY <1>1, <1>2, <1>3, <1>4, <1>5, <1>6, <1>7, <1>8 DEF Proceed, Paint
(* A handler that begins has passed no cell and read no LED.               *)
LEMMA StartPaint ==
  ASSUME TypeOK, NEW t \in Threads,
         (t = RenderThread /\ AutoRender) \/ (t \in IoThreads /\ Request(t))
  PROVE  Painted(t)' /\ Framed(t)'
<1>1. ASSUME ~Busy(t), job' = job PROVE Painted(t)' /\ Framed(t)'
  BY <1>1 DEF Busy, Painted, Framed, InLoop
<1>2. ASSUME NEW j, Start(t, j), Fresh(j), UNCHANGED geometry PROVE Painted(t)' /\ Framed(t)'
  <2>1. job'[t] = j
    BY <1>2 DEF Start, TypeOK
  <2>2. Painted(t)'
    <3>1. SUFFICES ASSUME j.op \in Picture, InLoop(j) PROVE Painted(t)'
      BY <2>1 DEF Painted, InLoop
    <3>2. j.pc = "row" /\ j.y = 0
      BY <1>2, <3>1 DEF Fresh, Picture, InLoop
    <3>3. \A c \in Wanted(j) : c[2] \in Nat
      BY <1>2, <3>1, CellsOf DEF TypeOK, Fresh
    <3>4. \A c \in Wanted(j) : ~Passed(j, c)
      BY <3>2, <3>3 DEF Passed
    <3>5. Wanted(job[t])' = Wanted(j)
      BY <1>2, <2>1 DEF Wanted
    <3> QED BY <2>1, <3>2, <3>4, <3>5 DEF Painted, Passed
  <2>3. Framed(t)'
    <3>1. j.pc = "scan" => \A p \in Positions : ~(p < j.x)
      BY <1>2 DEF Fresh, Positions
    <3> QED BY <2>1, <3>1 DEF Framed
  <2> QED BY <2>2, <2>3
<1>3. ASSUME NEW j, Start(t, j), j.pc = "store" PROVE Painted(t)' /\ Framed(t)'
  BY <1>3 DEF Start, TypeOK, Painted, Framed, InLoop
<1> QED BY <1>1, <1>2, <1>3, RequestShape

(* Nothing is painted before the first request.                            *)
LEMMA PaintInit == Init => PaintInv
BY IdleOp DEF Init, PaintInv, OverlapKnown, Busy, Painted, Framed, InLoop

(* The invariant of the pictures is inductive.                             *)
LEMMA PaintNext == TypeOK /\ SafetyInv /\ PaintInv /\ [Next]_vars => PaintInv'
<1> SUFFICES ASSUME TypeOK, SafetyInv, PaintInv, [Next]_vars PROVE PaintInv'
  OBVIOUS
<1>1. OverlapKnown'
  BY OverlapNext DEF PaintInv
<1>2. SUFFICES ASSUME NEW t \in Threads PROVE Painted(t)' /\ Framed(t)'
  BY <1>1 DEF PaintInv
<1>3. Painted(t) /\ Framed(t) /\ OverlapKnown
  BY DEF PaintInv
<1>4. CASE UNCHANGED vars
  BY <1>3, <1>4 DEF vars, Painted, Framed, InLoop, Sound, Undisturbed, Placed, Wanted, Colour, Passed, Visible, Shows
<1>5. ASSUME NEW u \in Threads,
             \/ (u = RenderThread /\ AutoRender) \/ (u \in IoThreads /\ Request(u))
             \/ Proceed(u)
      PROVE  Painted(t)' /\ Framed(t)'
  <2>1. CASE u = t
    BY <1>3, <1>5, <2>1, OwnPaint, StartPaint
  <2>2. CASE u # t /\ Busy(t)
    BY <1>3, <1>5, <2>2, Bystander, OthersPaint
  <2>3. CASE u # t /\ ~Busy(t)
    <3>1. job'[t] = job[t]
      <4>1. CASE Proceed(u)
        BY <2>3, <4>1, ProceedShape DEF Return, StoreHelper, Stays, Holding, Busy, TypeOK
      <4>2. CASE ~Proceed(u)
        BY <1>5, <2>3, <4>2, RequestShape DEF Start, TypeOK
      <4> QED BY <4>1, <4>2
    <3> QED BY <2>3, <3>1 DEF Busy, Painted, Framed, InLoop
  <2> QED BY <2>1, <2>2, <2>3
<1> QED BY <1>4, <1>5 DEF Next, Halted, Threads

(* At each step of each loop, whatever the interleaving.                   *)
THEOREM Pictures == Spec => [](TypeOK /\ SafetyInv /\ PaintInv)
<1>1. Init => TypeOK /\ SafetyInv /\ PaintInv
  BY TypeInit, SafetyInit, PaintInit
<1>2. TypeOK /\ SafetyInv /\ PaintInv /\ [Next]_vars => (TypeOK /\ SafetyInv /\ PaintInv)'
  BY TypeNext, SafetyNext, PaintNext
<1> QED BY <1>1, <1>2, PTL DEF Spec
-----------------------------------------------------------------------------
(* A step of one thread leaves the job of another, but for the helper that *)
(* was freed under it.                                                     *)
LEMMA OthersJob ==
  ASSUME TypeOK, NEW t \in Threads, NEW u \in Threads, u # t, Proceed(u)
  PROVE  job'[t] = job[t] \/ job'[t] = [job[t] EXCEPT !.freed = TRUE]
<1>0. job \in [Threads -> Job]
  BY DEF TypeOK
<1>1. CASE Return(u)
  BY <1>0, <1>1 DEF Return
<1>2. CASE StoreHelper(u)
  BY <1>0, <1>2 DEF StoreHelper
<1>3. CASE Stays(u)
  BY <1>0, <1>3 DEF Stays
<1> QED BY <1>1, <1>2, <1>3, ProceedShape

(* The step with which a handler of a picture returns finds its loop over. *)
LEMMA LastRow ==
  ASSUME TypeOK, SafetyInv, NEW t \in Threads, Next, Finishes(t, Picture)
  PROVE  /\ \/ ClearRow(t) /\ job[t].y >= logic_height
            \/ DrawRow(t) /\ job[t].y >= job[t].image.height
         /\ job[t].pc = "row"
<1>0. job[t] \in Job /\ JobOK(job[t]) /\ Busy(t) /\ job[t].op \in Picture /\ job'[t].pc = "idle"
  BY DEF TypeOK, Finishes, Busy
<1>1. Proceed(t)
  <2>1. ASSUME NEW u \in Threads, Proceed(u), u # t PROVE FALSE
    <3>1. job'[t].pc = job[t].pc
      <4>1. job'[t] = job[t] \/ job'[t] = [job[t] EXCEPT !.freed = TRUE]
        BY <2>1, OthersJob
      <4> QED BY <1>0, <4>1 DEF Job
    <3> QED BY <1>0, <3>1 DEF Busy
  <2>2. ASSUME NEW u \in Threads, (u = RenderThread /\ AutoRender) \/ (u \in IoThreads /\ Request(u))
        PROVE  FALSE
    <3>1. job'[t] = job[t]
      BY <1>0, <2>2, RequestShape DEF Start, TypeOK
    <3> QED BY <1>0, <3>1 DEF Busy
  <2> QED BY <1>0, <2>1, <2>2 DEF Next, Halted, vars, Threads, Busy
<1>2. ~StoreHelper(t)
  BY <1>0 DEF StoreHelper, JobOK, Picture
<1>3. ASSUME NEW k, Continue(t, k), k.pc # "idle" PROVE FALSE
  BY <1>0, <1>3 DEF Continue, TypeOK
<1>4. CASE ClearRow(t)
  <2>1. [job[t] EXCEPT !.pc = "col", !.x = 0].pc # "idle"
    BY <1>0 DEF Job
  <2>2. job[t].pc = "row" /\ ~(job[t].y < logic_height)
    BY <1>3, <1>4, <2>1 DEF ClearRow
  <2>3. job[t].y \in Int /\ logic_height \in Int
    BY <1>0, PanelAssumption DEF Job, TypeOK
  <2> QED BY <1>4, <2>2, <2>3, SMT
<1>5. CASE DrawRow(t)
  <2>1. [job[t] EXCEPT !.pc = "col", !.x = 0].pc # "idle" /\ [job[t] EXCEPT !.y = @ + 1].pc # "idle"
    BY <1>0, <1>5 DEF Job, DrawRow
  <2> QED BY <1>3, <1>5, <2>1 DEF DrawRow
<1>6. ASSUME ~ClearRow(t), ~DrawRow(t) PROVE FALSE
  <2>1. ~SetLogicHeight(t) /\ ~Show(t)
    BY <1>0 DEF SetLogicHeight, Show, JobOK, Picture
  <2>2. CASE ClearCol(t)
    <3>1. [job[t] EXCEPT !.pc = "ink"].pc # "idle" /\ [job[t] EXCEPT !.pc = "row", !.y = @ + 1].pc # "idle"
      BY <1>0 DEF Job
    <3> QED BY <1>3, <2>2, <3>1 DEF ClearCol
  <2>3. CASE ClearInk(t)
    BY <1>0, <1>3, <2>3 DEF ClearInk, Job
  <2>4. CASE DrawCol(t)
    <3>1. /\ [job[t] EXCEPT !.pc = "row", !.y = @ + 1].pc # "idle" /\ [job[t] EXCEPT !.pc = "ink"].pc # "idle"
          /\ [job[t] EXCEPT !.x = @ + 1].pc = job[t].pc
      BY <1>0 DEF Job
    <3> QED BY <1>0, <1>3, <2>4, <3>1 DEF DrawCol, Busy
  <2>5. CASE DrawInk(t) \/ DrawTest(t)
    <3>1. /\ [job[t] EXCEPT !.pc = "col", !.x = @ + 1].pc # "idle"
          /\ [job[t] EXCEPT !.pc = "test"].pc # "idle"
          /\ \A led : [job[t] EXCEPT !.pc = "load", !.ink = led].pc # "idle"
      BY <1>0 DEF Job
    <3> QED BY <1>3, <2>5, <3>1 DEF DrawInk, DrawTest
  <2>6. CASE LoadHelper(t)
    BY <1>0, <1>3, <2>6 DEF LoadHelper, Job
  <2>7. CASE Access(t)
    <3>1. [job[t] EXCEPT !.pc = "col", !.x = @ + 1].pc # "idle" /\ job[t].op \notin {"pixel", "draw_pixel"}
      BY <1>0 DEF Job, Picture
    <3> QED BY <1>3, <2>7, <3>1 DEF Access
  <2>8. CASE Stray(t) \/ Overflow(t)
    BY <1>0, <1>3, <2>8 DEF Stray, Overflow, Job
  <2>9. CASE DoubleRelease(t) \/ SetLogicWidth(t)
    BY <1>0, <1>3, <2>9 DEF DoubleRelease, SetLogicWidth, Job
  <2>10. CASE Scan(t)
    BY <1>0, <2>10 DEF Scan, JobOK, Picture
  <2> QED BY <1>1, <1>2, <1>6, <2>1, <2>2, <2>3, <2>4, <2>5, <2>6, <2>7, <2>8, <2>9, <2>10
          DEF Proceed, Paint, Rotate
<1> QED BY <1>4, <1>5, <1>6
(* The cells of a picture that is done show.                               *)
LEMMA DonePicture ==
  ASSUME TypeOK, SafetyInv, PaintInv, NEW t \in Threads, Next, Finishes(t, Picture), Sound(t)
  PROVE  /\ \A c \in Wanted(job[t]) : Shows(job[t], c)
         /\ job[t].op = "clear" => job[t].ox = 0 /\ job[t].oy = 0
<1> DEFINE j == job[t]
<1>1. j \in Job /\ JobOK(j) /\ j.op \in Picture /\ j.pc = "row"
  BY LastRow DEF TypeOK, Finishes
<1>2. SUFFICES ASSUME NEW c \in Wanted(j) PROVE Passed(j, c)
  BY <1>1 DEF PaintInv, Painted, InLoop, JobOK
<1>3. c[1] \in Nat /\ c[2] \in Nat /\ c = <<c[1], c[2]>> /\ j.y \in Nat
  BY <1>1, WantedCells DEF Job
<1>4. CASE ClearRow(t) /\ j.y >= logic_height
  <2>1. j.op = "clear"
    BY <1>4 DEF ClearRow
  <2>2. logic_height = LogicHeight(helper) /\ logic_height \in Nat
    BY <1>1, <2>1, Settled DEF Busy, Rotating, Sound, Undisturbed, Torn
  <2>3. c[2] < logic_height
    BY <2>1, <2>2 DEF Wanted, Logical
  <2> QED BY <1>3, <1>4, <2>2, <2>3 DEF Passed
<1>5. CASE DrawRow(t) /\ j.y >= j.image.height
  <2>1. Drawing(j) /\ j.image \in Images /\ Wanted(j) = Cells(j.image)
    BY <1>1, <1>5 DEF DrawRow, JobOK, Drawing, Wanted
  <2>2. j.image.height \in Nat
    BY <2>1, ImageType
  <2>3. c[2] < j.image.height
    BY <2>1, <2>2 DEF Cells
  <2> QED BY <1>3, <1>5, <2>2, <2>3 DEF Passed
<1> QED BY <1>4, <1>5, LastRow

(* clear() reaches every LED of the strip under every rotation and flip,   *)
(* however its steps interleave with handlers that do not conflict.        *)
THEOREM ClearReachesAll == Spec => ClearPaintsAll
<1> DEFINE Cleared ==
             \A t \in Threads : Finishes(t, {"clear"}) /\ Undisturbed(t) =>
               \A p \in Positions : leds[p] = back
<1>0. ASSUME TypeOK, SafetyInv, PaintInv, Next PROVE Cleared
  <2> SUFFICES ASSUME NEW t \in Threads, Finishes(t, {"clear"}), Undisturbed(t), NEW p \in Positions
               PROVE  leds[p] = back
    OBVIOUS
  <2>1. job[t].op = "clear" /\ Finishes(t, Picture) /\ Sound(t)
    BY DEF Finishes, Picture, Sound, Placed, Drawing
  <2>2. PICK x \in 0 .. LogicWidth(helper) - 1, y \in 0 .. LogicHeight(helper) - 1 :
               SnakeLed(helper, x, y) = p
    <3>1. helper \in Rotations
      BY <1>0 DEF TypeOK
    <3> QED BY <3>1, SnakeLedOnto
  <2>3. <<x, y>> \in Logical(helper)
    BY DEF Logical
  <2>4. Shows(job[t], <<x, y>>) /\ job[t].ox + x = x /\ job[t].oy + y = y
    <3>1. job[t].ox = 0 /\ job[t].oy = 0 /\ x \in Int /\ y \in Int
      BY <1>0, <2>1, DonePicture
    <3>2. Shows(job[t], <<x, y>>)
      BY <1>0, <2>1, <2>3, DonePicture DEF Wanted
    <3> QED BY <3>1, <3>2
  <2> QED BY <2>1, <2>2, <2>3, <2>4 DEF Shows, Visible, Colour, Drawing
<1>1. TypeOK /\ SafetyInv /\ PaintInv /\ [Next]_vars => [Cleared]_vars
  <2> HIDE DEF Cleared
  <2> QED BY <1>0
<1> QED BY <1>1, Pictures, PTL DEF Spec, ClearPaintsAll

(* draw() shows each cell of the text or number that lies on the strip, at *)
(* any offset that suits it and under every rotation, save those it skips  *)
(* as transparent.                                                         *)
THEOREM DrawShows == Spec => DrawShowsImage
<1> DEFINE Drawn ==
             \A t \in Threads : Finishes(t, {"draw_text", "draw_number"}) /\ Undisturbed(t) /\ Placed(job[t]) =>
               \A c \in Cells(job[t].image) :
                 LET x == job[t].ox + c[1]
                     y == job[t].oy + c[2]
                     led == job[t].image.led[c]
                 IN  <<x, y>> \in Logical(helper) /\ ~(transparent /\ led = back)
                       => leds[SnakeLed(helper, x, y)] = led
<1>0. ASSUME TypeOK, SafetyInv, PaintInv, Next PROVE Drawn
  <2> SUFFICES ASSUME NEW t \in Threads, Finishes(t, {"draw_text", "draw_number"}), Undisturbed(t),
                      Placed(job[t]), NEW c \in Cells(job[t].image),
                      <<job[t].ox + c[1], job[t].oy + c[2]>> \in Logical(helper),
                      ~(transparent /\ job[t].image.led[c] = back)
               PROVE  leds[SnakeLed(helper, job[t].ox + c[1], job[t].oy + c[2])] = job[t].image.led[c]
    OBVIOUS
  <2>1. job[t].op # "clear" /\ Finishes(t, Picture) /\ Sound(t)
    BY DEF Finishes, Picture, Sound
  <2>2. Shows(job[t], c)
    BY <1>0, <2>1, DonePicture DEF Wanted
  <2> QED BY <2>1, <2>2 DEF Shows, Visible, Colour
<1>1. TypeOK /\ SafetyInv /\ PaintInv /\ [Next]_vars => [Drawn]_vars
  <2> HIDE DEF Drawn
  <2> QED BY <1>0
<1> QED BY <1>1, Pictures, PTL DEF Spec, DrawShowsImage

(* A render that no painting overlapped displays exactly the LED array.    *)
THEOREM FramesFaithful == Spec => FrameFaithful
<1> DEFINE Faithful ==
             \A t \in Threads : Finishes(t, {"render"}) /\ met[t] \cap Painters = {} => shown' = leds
<1>0. ASSUME TypeOK, SafetyInv, PaintInv, Next PROVE Faithful
  <2> SUFFICES ASSUME NEW t \in Threads, Finishes(t, {"render"}), met[t] \cap Painters = {}
               PROVE  shown' = leds
    OBVIOUS
  <2>0. job[t] \in Job /\ JobOK(job[t]) /\ Busy(t) /\ job[t].op = "render" /\ job'[t].pc = "idle"
    BY <1>0 DEF TypeOK, Finishes, Busy
  <2>1. Show(t)
    <3>1. ASSUME NEW u \in Threads, Proceed(u), u # t PROVE FALSE
      <4>1. job'[t] = job[t] \/ job'[t] = [job[t] EXCEPT !.freed = TRUE]
        BY <1>0, <3>1, OthersJob
      <4>2. job'[t].pc = job[t].pc
        BY <2>0, <4>1 DEF Job
      <4> QED BY <2>0, <4>2 DEF Busy
    <3>2. ASSUME NEW u \in Threads, (u = RenderThread /\ AutoRender) \/ (u \in IoThreads /\ Request(u))
          PROVE  FALSE
      <4>1. job'[t] = job[t]
        BY <1>0, <2>0, <3>2, RequestShape DEF Start, TypeOK
      <4> QED BY <2>0, <4>1 DEF Busy
    <3>3. Proceed(t)
      BY <1>0, <2>0, <3>1, <3>2 DEF Next, Halted, vars, Threads, Busy
    <3>4. ~Paint(t) /\ ~Rotate(t)
      BY <2>0 DEF Paint, ClearRow, ClearCol, ClearInk, DrawRow, DrawCol, Overflow, DrawInk, DrawTest, LoadHelper, Access, Stray,
         Rotate, StoreHelper, DoubleRelease, SetLogicWidth, SetLogicHeight, Drawing, JobOK, Painters
    <3>5. ~Scan(t)
      <4>1. ASSUME Scan(t) PROVE job'[t].pc = "scan"
        BY <1>0, <2>0, <4>1 DEF Scan, Continue, TypeOK, Job
      <4> QED BY <2>0, <4>1
    <3> QED BY <3>3, <3>4, <3>5 DEF Proceed
  <2>2. job[t].pc = "scan" /\ job[t].x \notin Positions /\ shown' = job[t].frame
    BY <2>1 DEF Show
  <2>3. \A p \in Positions : p < job[t].x
    BY <2>0, <2>2, PanelAssumption DEF Positions, Job
  <2>4. \A p \in Positions : job[t].frame[p] = leds[p]
    BY <1>0, <2>2, <2>3 DEF PaintInv, Framed
  <2>5. job[t].frame \in [Positions -> Color] /\ leds \in [Positions -> Color]
    BY <1>0, <2>0 DEF Job, TypeOK
  <2>6. job[t].frame = leds
    BY <2>4, <2>5
  <2> QED BY <2>2, <2>6
<1>1. TypeOK /\ SafetyInv /\ PaintInv /\ [Next]_vars => [Faithful]_vars
  <2> HIDE DEF Faithful
  <2> QED BY <1>0
<1> QED BY <1>1, Pictures, PTL DEF Spec, FrameFaithful
=============================================================================
