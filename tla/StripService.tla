---------------------------- MODULE StripService ----------------------------
(***************************************************************************)
(* The program of main.cpp: one WS2811Strip, shared without a lock by the  *)
(* handlers of an RPC server and by a thread that renders every 10 ms.     *)
(*                                                                         *)
(* Each io thread of the server runs one handler at a time, to its end;    *)
(* handlers of different io threads interleave.  A step is one access to   *)
(* the memory the threads share.                                           *)
(*                                                                         *)
(* The one pointer among that memory is rotate_helper_.  index() loads it  *)
(* and calls through it; set_rotate replaces it and destroys the object it *)
(* pointed to.  A thread that has loaded the pointer and not yet used it   *)
(* may thus hold an object that is gone: held and freed of its job.        *)
(*                                                                         *)
(* No handler checks the coordinates it is given: any int reaches the      *)
(* arithmetic of draw() and of index().  An access outside the LED array,  *)
(* a sum of draw() beyond the largest int, a call on a destroyed object    *)
(* whose memory was reused, and a second release of one object leave the   *)
(* thread at "undefined", where the model stops.  (A sum that overflows    *)
(* inside index() belongs to a coordinate off the panel; what the build    *)
(* makes of it is the wrapped sum, an access outside or astray anyway.)    *)
(***************************************************************************)
EXTENDS StripIndex

CONSTANTS
  IoThreads,       (* the threads that run handlers *)
  RenderThread,    (* the thread main starts *)
  Color, Black,
  Ops,             (* the handlers the clients call *)
  Turns,           (* the rotations they ask for *)
  Glyphs,          (* the texts and numbers they draw: which cells are lit *)
  Offsets,         (* where they draw them *)
  Pixels,          (* the coordinates they give to draw_pixel and pixel *)
  MaxInt           (* the largest int *)

Painters == {"clear", "draw_text", "draw_number", "draw_pixel"}

Handlers == Painters \cup {"pixel", "render", "set_rotate", "set_background",
                           "set_transparent", "set_auto_render"}

Ints == -MaxInt - 1 .. MaxInt

ASSUME ServiceAssumption ==
  /\ RenderThread \notin IoThreads
  /\ Black \in Color
  /\ Ops \subseteq Handlers
  /\ Turns \subseteq Rotations
  /\ MaxInt \in Nat /\ W <= MaxInt /\ H <= MaxInt
  /\ Offsets \subseteq Ints \X Ints /\ Pixels \subseteq Ints \X Ints
  /\ \A g \in Glyphs : g.width \in Nat /\ g.height \in Nat

Threads == IoThreads \cup {RenderThread}

VARIABLES
  leds,                        (* channel[0].leds *)
  helper,                      (* the rotation *rotate_helper_ implements *)
  logic_width, logic_height,
  transparent, back,
  auto_render,
  shown,                       (* what the LEDs display *)
  job,                         (* what each thread is executing *)
  met,                         (* history: the handlers that overlapped a thread's *)
  mixed                        (* history: the last set_rotate to end met another *)

geometry == <<helper, logic_width, logic_height>>
settings == <<transparent, back, auto_render>>
vars == <<leds, geometry, settings, shown, job, met, mixed>>
-----------------------------------------------------------------------------
(* What a Text4x8 or a DigitGroup3x5 looks like to draw(). *)
Cells(g) == (0 .. g.width - 1) \X (0 .. g.height - 1)

Coloured(g, color, background) ==
  [width |-> g.width, height |-> g.height,
   led |-> [c \in Cells(g) |-> IF c \in g.lit THEN color ELSE background]]

Images == {Coloured(g, c, b) : g \in Glyphs, c \in Color, b \in Color}

NoImage == [width |-> 0, height |-> 0, led |-> <<>>]

Unlit == [p \in Positions |-> Black]

(* (x, y) counts the cells of a loop and (ox, oy) is the offset they are   *)
(* painted at, or the one pixel asked for; ink is the colour about to be   *)
(* written; frame is what a render has read so far, x LEDs of it.          *)
Idle == [op |-> "none", pc |-> "idle", ox |-> 0, oy |-> 0, x |-> 0, y |-> 0,
         image |-> NoImage, ink |-> Black, rotation |-> Upright,
         held |-> Upright, freed |-> FALSE, frame |-> Unlit]

Busy(t) == job[t].pc # "idle"

Running == \A t \in Threads : job[t].pc # "undefined"

(* The history of everyone else when thread t runs a handler. *)
Noted(t, op) == [u \in Threads |-> IF u # t /\ Busy(u) THEN met[u] \cup {op} ELSE met[u]]

Start(t, j) ==
  /\ ~Busy(t)
  /\ job' = [job EXCEPT ![t] = j]
  /\ met' = [Noted(t, j.op) EXCEPT ![t] = {job[u].op : u \in {v \in Threads \ {t} : Busy(v)}}]

Continue(t, j) == job' = [job EXCEPT ![t] = j] /\ UNCHANGED met

Return(t) == job' = [job EXCEPT ![t] = Idle] /\ met' = [met EXCEPT ![t] = {}]
-----------------------------------------------------------------------------
Init ==
  /\ leds = Unlit
  /\ helper = Upright /\ logic_width = W /\ logic_height = H
  /\ transparent = FALSE /\ back = Black
  /\ auto_render = FALSE
  /\ shown = Unlit
  /\ job = [t \in Threads |-> Idle]
  /\ met = [t \in Threads |-> {}]
  /\ mixed = FALSE

(* An io thread takes up a request, with whatever coordinates it brings.   *)
(* A client that read the size before another client's set_rotate sends    *)
(* them in good faith.                                                     *)
Receive(t) ==
  /\ \/ /\ "clear" \in Ops
        /\ Start(t, [Idle EXCEPT !.op = "clear", !.pc = "row"])
     \/ \E g \in Glyphs, o \in Offsets, c \in Color, b \in Color, op \in {"draw_text", "draw_number"} \cap Ops :
          /\ op = "draw_number" => b = Black       (* the handler drops the argument *)
          /\ Start(t, [Idle EXCEPT !.op = op, !.pc = "row", !.ox = o[1], !.oy = o[2],
                                   !.image = Coloured(g, c, b)])
     \/ \E p \in Pixels, c \in Color, op \in {"draw_pixel", "pixel"} \cap Ops :
          /\ op = "pixel" => c = Black            (* it brings no colour *)
          /\ Start(t, [Idle EXCEPT !.op = op, !.pc = "load", !.ox = p[1], !.oy = p[2], !.ink = c])
     \/ /\ "render" \in Ops
        /\ Start(t, [Idle EXCEPT !.op = "render", !.pc = "scan"])
  /\ UNCHANGED <<leds, geometry, settings, shown, mixed>>

(* clear(): for each y below height(), for each x below width(). *)
ClearRow(t) ==
  /\ job[t].op = "clear" /\ job[t].pc = "row"
  /\ IF job[t].y < logic_height
     THEN Continue(t, [job[t] EXCEPT !.pc = "col", !.x = 0])
     ELSE Return(t)
  /\ UNCHANGED <<leds, geometry, settings, shown, mixed>>

(* Mutants: one column too many, one too few. *)
ClearColTo(t, limit) ==
  /\ job[t].op = "clear" /\ job[t].pc = "col"
  /\ IF job[t].x < limit
     THEN Continue(t, [job[t] EXCEPT !.pc = "ink"])
     ELSE Continue(t, [job[t] EXCEPT !.pc = "row", !.y = @ + 1])
  /\ UNCHANGED <<leds, geometry, settings, shown, mixed>>

ClearColInclusive(t) == ClearColTo(t, logic_width + 1)

ClearColShort(t) == ClearColTo(t, logic_width - 1)

ClearCol(t) ==
  /\ job[t].op = "clear" /\ job[t].pc = "col"
  /\ IF job[t].x < logic_width
     THEN Continue(t, [job[t] EXCEPT !.pc = "ink"])
     ELSE Continue(t, [job[t] EXCEPT !.pc = "row", !.y = @ + 1])
  /\ UNCHANGED <<leds, geometry, settings, shown, mixed>>

ClearInk(t) ==
  /\ job[t].op = "clear" /\ job[t].pc = "ink"
  /\ Continue(t, [job[t] EXCEPT !.pc = "load", !.ink = back])
  /\ UNCHANGED <<leds, geometry, settings, shown, mixed>>

(* draw(): each row and each cell of the source that is not cut off by the *)
(* lower or the right edge.                                                *)
Drawing(j) == j.op \in {"draw_text", "draw_number"}

(* y + dy and x + dx, the sums draw() compares with the size, leave int.   *)
(* Negative offsets pass both comparisons.                                 *)
Overflow(t) ==
  LET j == job[t] IN
  /\ Drawing(j)
  /\ \/ j.pc = "row" /\ j.y < j.image.height /\ j.oy + j.y > MaxInt
     \/ j.pc = "col" /\ j.x < j.image.width /\ j.ox + j.x > MaxInt
  /\ Continue(t, [j EXCEPT !.pc = "undefined"])
  /\ UNCHANGED <<leds, geometry, settings, shown, mixed>>

(* Mutant: cuts off the bottom row of the strip. *)
DrawRowClipsEarly(t) ==
  LET j == job[t] IN
  /\ Drawing(j) /\ j.pc = "row"
  /\ IF j.y >= j.image.height THEN Return(t)
     ELSE IF j.oy + j.y + 1 >= logic_height
     THEN Continue(t, [j EXCEPT !.y = @ + 1])
     ELSE Continue(t, [j EXCEPT !.pc = "col", !.x = 0])
  /\ UNCHANGED <<leds, geometry, settings, shown, mixed>>

DrawRow(t) ==
  LET j == job[t] IN
  /\ Drawing(j) /\ j.pc = "row"
  /\ j.y < j.image.height => j.oy + j.y <= MaxInt
  /\ IF j.y >= j.image.height THEN Return(t)
     ELSE IF j.oy + j.y >= logic_height
     THEN Continue(t, [j EXCEPT !.y = @ + 1])
     ELSE Continue(t, [j EXCEPT !.pc = "col", !.x = 0])
  /\ UNCHANGED <<leds, geometry, settings, shown, mixed>>

(* Mutant: does not look at the right edge. *)
DrawColUnclipped(t) ==
  LET j == job[t] IN
  /\ Drawing(j) /\ j.pc = "col"
  /\ IF j.x >= j.image.width
     THEN Continue(t, [j EXCEPT !.pc = "row", !.y = @ + 1])
     ELSE Continue(t, [j EXCEPT !.pc = "ink"])
  /\ UNCHANGED <<leds, geometry, settings, shown, mixed>>

DrawCol(t) ==
  LET j == job[t] IN
  /\ Drawing(j) /\ j.pc = "col"
  /\ j.x < j.image.width => j.ox + j.x <= MaxInt
  /\ IF j.x >= j.image.width
     THEN Continue(t, [j EXCEPT !.pc = "row", !.y = @ + 1])
     ELSE IF j.ox + j.x >= logic_width
     THEN Continue(t, [j EXCEPT !.x = @ + 1])
     ELSE Continue(t, [j EXCEPT !.pc = "ink"])
  /\ UNCHANGED <<leds, geometry, settings, shown, mixed>>

(* transparent_ && src_led == back: back is read after transparent_.       *)
Cell(j) == j.image.led[<<j.x, j.y>>]

DrawInk(t) ==
  LET j == job[t] IN
  /\ Drawing(j) /\ j.pc = "ink"
  /\ IF transparent
     THEN Continue(t, [j EXCEPT !.pc = "test"])
     ELSE Continue(t, [j EXCEPT !.pc = "load", !.ink = Cell(j)])
  /\ UNCHANGED <<leds, geometry, settings, shown, mixed>>

(* Mutant: a transparent cell is looked at again and again. *)
DrawTestSticks(t) ==
  LET j == job[t] IN
  /\ j.pc = "test"
  /\ IF Cell(j) = back
     THEN Continue(t, [j EXCEPT !.pc = "col"])
     ELSE Continue(t, [j EXCEPT !.pc = "load", !.ink = Cell(j)])
  /\ UNCHANGED <<leds, geometry, settings, shown, mixed>>

DrawTest(t) ==
  LET j == job[t] IN
  /\ j.pc = "test"
  /\ IF Cell(j) = back
     THEN Continue(t, [j EXCEPT !.pc = "col", !.x = @ + 1])
     ELSE Continue(t, [j EXCEPT !.pc = "load", !.ink = Cell(j)])
  /\ UNCHANGED <<leds, geometry, settings, shown, mixed>>

(* led() and led_ref(): load rotate_helper_, then index through it.        *)
LoadHelper(t) ==
  /\ job[t].pc = "load"
  /\ Continue(t, [job[t] EXCEPT !.pc = "access", !.held = helper, !.freed = FALSE])
  /\ UNCHANGED <<leds, geometry, settings, shown, mixed>>

IndexOf(j) == SnakeLed(j.held, j.ox + j.x, j.oy + j.y)

(* The LED is written, or read by pixel; a destroyed helper whose memory   *)
(* is intact still answers.                                                *)
Access(t) ==
  LET j == job[t] IN
  /\ j.pc = "access"
  /\ IndexOf(j) \in Positions
  /\ leds' = IF j.op = "pixel" THEN leds ELSE [leds EXCEPT ![IndexOf(j)] = j.ink]
  /\ IF j.op \in {"pixel", "draw_pixel"} THEN Return(t)
     ELSE Continue(t, [j EXCEPT !.pc = "col", !.x = @ + 1])
  /\ UNCHANGED <<geometry, settings, shown, mixed>>

Stray(t) ==
  LET j == job[t] IN
  /\ j.pc = "access"
  /\ j.freed \/ IndexOf(j) \notin Positions
  /\ Continue(t, [j EXCEPT !.pc = "undefined"])
  /\ UNCHANGED <<leds, geometry, settings, shown, mixed>>

(* set_rotate: the shared_ptr is exchanged (load the old pointer, store    *)
(* the new one, release the old object), then the two sizes are set.  A    *)
(* degree outside Degrees throws before anything is touched.               *)
SetRotate(t) ==
  /\ "set_rotate" \in Ops
  /\ \E r \in Turns :
       Start(t, [Idle EXCEPT !.op = "set_rotate", !.pc = "store", !.rotation = r])
  /\ UNCHANGED <<leds, geometry, settings, shown, mixed>>

(* Whoever holds the old pointer, to call through it or to release it      *)
(* again, is left with a destroyed object.  What is held and not freed is  *)
(* always the object in place, so one flag tells.                          *)
Holding(u) == job[u].pc \in {"access", "store"}

StoreHelper(t) ==
  /\ job[t].pc = "store" /\ ~job[t].freed
  /\ helper' = job[t].rotation
  /\ job' = [u \in Threads |-> IF u = t THEN [job[u] EXCEPT !.pc = "lw"]
                               ELSE IF Holding(u) THEN [job[u] EXCEPT !.freed = TRUE]
                               ELSE job[u]]
  /\ UNCHANGED <<leds, logic_width, logic_height, settings, shown, met, mixed>>

DoubleRelease(t) ==
  /\ job[t].pc = "store" /\ job[t].freed
  /\ Continue(t, [job[t] EXCEPT !.pc = "undefined"])
  /\ UNCHANGED <<leds, geometry, settings, shown, mixed>>

SetLogicWidth(t) ==
  /\ job[t].pc = "lw"
  /\ logic_width' = LogicWidth(job[t].rotation)
  /\ Continue(t, [job[t] EXCEPT !.pc = "lh"])
  /\ UNCHANGED <<leds, helper, logic_height, settings, shown, mixed>>

(* Mutant: a quarter turn leaves the height as it was. *)
SetLogicHeightUnturned(t) ==
  /\ job[t].pc = "lh"
  /\ logic_height' = H
  /\ mixed' = ("set_rotate" \in met[t])
  /\ Return(t)
  /\ UNCHANGED <<leds, helper, logic_width, settings, shown>>

SetLogicHeight(t) ==
  /\ job[t].pc = "lh"
  /\ logic_height' = LogicHeight(job[t].rotation)
  /\ mixed' = ("set_rotate" \in met[t])
  /\ Return(t)
  /\ UNCHANGED <<leds, helper, logic_width, settings, shown>>

(* The handlers that write one variable. *)
SetTransparent(t) ==
  /\ "set_transparent" \in Ops /\ ~Busy(t)
  /\ \E b \in BOOLEAN : transparent' = b
  /\ met' = Noted(t, "set_transparent")
  /\ UNCHANGED <<leds, geometry, back, auto_render, shown, job, mixed>>

SetBackground(t) ==
  /\ "set_background" \in Ops /\ ~Busy(t)
  /\ \E c \in Color : back' = c
  /\ met' = Noted(t, "set_background")
  /\ UNCHANGED <<leds, geometry, transparent, auto_render, shown, job, mixed>>

SetAutoRender(t) ==
  /\ "set_auto_render" \in Ops /\ ~Busy(t)
  /\ \E b \in BOOLEAN : auto_render' = b
  /\ met' = Noted(t, "set_auto_render")
  /\ UNCHANGED <<leds, geometry, transparent, back, shown, job, mixed>>

(* ws2811_render, called by the render handler and by the render thread:   *)
(* it reads the LEDs one after the other and then sends what it read.      *)
Scan(t) ==
  LET j == job[t] IN
  /\ j.pc = "scan" /\ j.x \in Positions
  /\ Continue(t, [j EXCEPT !.x = @ + 1, !.frame[j.x] = leds[j.x]])
  /\ UNCHANGED <<leds, geometry, settings, shown, mixed>>

(* Mutant: sends the frame before it has read the last LED. *)
ShowShort(t) ==
  /\ job[t].pc = "scan" /\ job[t].x + 1 \notin Positions
  /\ shown' = job[t].frame
  /\ Return(t)
  /\ UNCHANGED <<leds, geometry, settings, mixed>>

Show(t) ==
  /\ job[t].pc = "scan" /\ job[t].x \notin Positions
  /\ shown' = job[t].frame
  /\ Return(t)
  /\ UNCHANGED <<leds, geometry, settings, mixed>>

(* Mutant: the loop takes the flag the wrong way round. *)
AutoRenderInverted ==
  /\ ~auto_render
  /\ Start(RenderThread, [Idle EXCEPT !.op = "render", !.pc = "scan"])
  /\ UNCHANGED <<leds, geometry, settings, shown, mixed>>

(* The loop of the render thread finds auto_render set. *)
AutoRender ==
  /\ auto_render
  /\ Start(RenderThread, [Idle EXCEPT !.op = "render", !.pc = "scan"])
  /\ UNCHANGED <<leds, geometry, settings, shown, mixed>>

Request(t) == Receive(t) \/ SetRotate(t) \/ SetTransparent(t) \/ SetBackground(t) \/ SetAutoRender(t)

Paint(t) ==
  \/ ClearRow(t) \/ ClearCol(t) \/ ClearInk(t)
  \/ DrawRow(t) \/ DrawCol(t) \/ Overflow(t) \/ DrawInk(t) \/ DrawTest(t)
  \/ LoadHelper(t) \/ Access(t) \/ Stray(t)

Rotate(t) == StoreHelper(t) \/ DoubleRelease(t) \/ SetLogicWidth(t) \/ SetLogicHeight(t)

(* A thread goes on with the handler it is in. *)
Proceed(t) == Running /\ (Paint(t) \/ Rotate(t) \/ Scan(t) \/ Show(t))

Halted == ~Running /\ UNCHANGED vars

Next ==
  \/ Running /\ (AutoRender \/ \E t \in IoThreads : Request(t))
  \/ \E t \in Threads : Proceed(t)
  \/ Halted

Spec == Init /\ [][Next]_vars

(* The operating system runs every thread, so a handler that was started   *)
(* goes on and the render loop comes round.  Nobody is obliged to call.    *)
FairSpec == Spec /\ WF_vars(Running /\ AutoRender) /\ \A t \in Threads : WF_vars(Proceed(t))
-----------------------------------------------------------------------------
Job == [op : Handlers \cup {"none"},
        pc : {"idle", "row", "col", "ink", "test", "load", "access",
              "store", "lw", "lh", "scan", "undefined"},
        ox : Ints, oy : Ints, x : Nat, y : Nat,
        image : Images \cup {NoImage}, ink : Color, rotation : Rotations,
        held : Rotations, freed : BOOLEAN, frame : [Positions -> Color]]

(* A job is only where its handler goes: the loops of draw() stay on the    *)
(* image they read.                                                         *)
JobOK(j) ==
  /\ j.pc = "idle" \/ j.op = "none" => j = Idle
  /\ j.op = "set_rotate" /\ j.pc # "undefined" <=> j.pc \in {"store", "lw", "lh"}
  /\ j.pc \in {"row", "col", "ink", "test", "load", "access"} => j.op \in Painters \cup {"pixel"}
  /\ j.pc = "scan" => j.op = "render"
  /\ j.pc = "test" => Drawing(j)
  /\ j.op = "clear" => j.ox = 0 /\ j.oy = 0
  /\ j.op \in {"draw_pixel", "pixel"} => j.x = 0 /\ j.y = 0
  /\ Drawing(j) =>
       /\ j.image \in Images
       /\ j.pc = "col" => j.y < j.image.height
       /\ j.pc \in {"ink", "test", "load", "access"} => <<j.x, j.y>> \in Cells(j.image)

(* Every variable has its type and every thread is where its handler goes.  *)
TypeOK ==
  /\ leds \in [Positions -> Color] /\ shown \in [Positions -> Color]
  /\ helper \in Rotations /\ logic_width \in {W, H} /\ logic_height \in {W, H}
  /\ transparent \in BOOLEAN /\ back \in Color /\ auto_render \in BOOLEAN
  /\ job \in [Threads -> Job]
  /\ \A t \in Threads : JobOK(job[t])
  /\ met \in [Threads -> SUBSET Handlers]
  /\ mixed \in BOOLEAN

Rotating(t) == job[t].op = "set_rotate"

(* A set_rotate of another thread overlapped the handler t is in. *)
Torn(t) == "set_rotate" \in met[t]

(* set_rotate leaves the three variables of the geometry agreeing with each *)
(* other, although it sets them one by one and unlocked, unless the last    *)
(* set_rotate to end overlapped another one: then the size of one rotation  *)
(* may stay with the helper of the other until the next set_rotate.         *)
GeometryAgrees ==
  (\A t \in Threads : ~Rotating(t)) /\ ~mixed =>
    logic_width = LogicWidth(helper) /\ logic_height = LogicHeight(helper)

(* The coordinates of a handler suit the strip: a pixel lies on it, and a   *)
(* text or number begins at or after its first row and column and ends      *)
(* within int.  (It may end beyond the strip: draw() cuts it off.)          *)
Placed(j) ==
  /\ j.op \in {"draw_pixel", "pixel"} => j.ox \in 0 .. logic_width - 1 /\ j.oy \in 0 .. logic_height - 1
  /\ Drawing(j) => /\ j.ox >= 0 /\ j.ox + j.image.width - 1 <= MaxInt
                   /\ j.oy >= 0 /\ j.oy + j.image.height - 1 <= MaxInt

(* The handlers index leds and call through rotate_helper_ without a check  *)
(* or a lock.  That goes wrong only in a handler that another thread's      *)
(* set_rotate overlapped, on a geometry two of them left mixed, or with     *)
(* coordinates that do not suit the strip as it is by then: those of a      *)
(* client that read the size before a set_rotate that is long over (for a   *)
(* handler that none overlapped, the size is what it was at the request).   *)
StrayOnlyByMisuse ==
  \A t \in Threads : job[t].pc = "undefined" => Torn(t) \/ mixed \/ ~Placed(job[t])

(* Where a single io thread runs all the handlers, and where nobody calls   *)
(* set_rotate, nothing overlaps and nothing is mixed: what remains is the   *)
(* unchecked coordinates.                                                   *)
StrayOnlyIfMisplaced ==
  \A t \in Threads : job[t].pc = "undefined" => ~Placed(job[t])

(* Whoever runs a handler while another thread is in set_rotate knows it.   *)
RotatorsMeet ==
  \A t, u \in Threads : t # u /\ Rotating(t) /\ Busy(u) => Torn(u)

(* A set_rotate that overlaps no other is the only one to write, and owns   *)
(* the object it will release.                                              *)
RotationStaged ==
  \A t \in Threads : Rotating(t) /\ ~Torn(t) =>
    LET j == job[t] IN
    /\ j.pc = "store" => ~j.freed
    /\ j.pc \in {"lw", "lh"} => helper = j.rotation
    /\ j.pc = "lh" => logic_width = LogicWidth(j.rotation)

(* A handler that overlaps no set_rotate and whose coordinates suit the     *)
(* strip stays on it between the check of a coordinate and its use, and     *)
(* calls through a live helper.                                             *)
CursorInside ==
  \A t \in Threads : ~Torn(t) /\ ~mixed /\ Placed(job[t]) =>
    LET j == job[t] IN
    /\ j.pc \in {"col", "ink", "test", "load", "access"} => j.oy + j.y \in 0 .. logic_height - 1
    /\ j.pc \in {"ink", "test", "load", "access"} => j.ox + j.x \in 0 .. logic_width - 1
    /\ j.pc = "access" => j.held = helper /\ ~j.freed

(* What the threads know of each other while the geometry is set and used:  *)
(* with it, GeometryAgrees and StrayOnlyByMisuse are inductive.             *)
Support == RotatorsMeet /\ RotationStaged /\ CursorInside

(* The cells that the handler of t is to paint, in logical coordinates.     *)
Region(t) ==
  LET j == job[t]
      wanted == IF j.op = "clear" THEN Logical(helper)
                ELSE IF j.op = "draw_pixel" THEN {<<j.ox, j.oy>>}
                ELSE {<<j.ox + c[1], j.oy + c[2]>> : c \in Cells(j.image)}
  IN  wanted \cap Logical(helper)

(* A LED changes only under a handler whose picture covers it: draw() cuts  *)
(* off what lies beyond the right edge instead of letting the snake carry   *)
(* it on into the next row.  What lies before the left edge it does not cut *)
(* off, so the coordinates must suit the strip.                             *)
PaintStaysInside ==
  [][\A p \in Positions : leds'[p] # leds[p] =>
       \E t \in Threads : /\ job[t].pc = "access"
                          /\ \/ Torn(t) \/ mixed \/ ~Placed(job[t])
                             \/ \E c \in Region(t) : p = SnakeLed(helper, c[1], c[2])]_vars

Finishes(t, ops) == job[t].op \in ops /\ job[t].pc # "idle" /\ job'[t].pc = "idle"

(* No handler that could change what t sees or paints overlapped it. *)
Undisturbed(t) ==
  met[t] \cap (Painters \cup {"set_rotate", "set_background", "set_transparent"}) = {} /\ ~mixed

(* clear() reaches every LED of the strip under every rotation and flip. *)
ClearPaintsAll ==
  [][\A t \in Threads : Finishes(t, {"clear"}) /\ Undisturbed(t) =>
       \A p \in Positions : leds[p] = back]_vars

(* When draw() returns, each cell of the text or number that lies on the   *)
(* strip shows its colour, save those it skips as transparent.  The offset *)
(* must suit the strip: a cell left of it would be painted over another.   *)
DrawShowsImage ==
  [][\A t \in Threads : Finishes(t, {"draw_text", "draw_number"}) /\ Undisturbed(t) /\ Placed(job[t]) =>
       \A c \in Cells(job[t].image) :
         LET x == job[t].ox + c[1]
             y == job[t].oy + c[2]
             led == job[t].image.led[c]
         IN  <<x, y>> \in Logical(helper) /\ ~(transparent /\ led = back)
               => leds[SnakeLed(helper, x, y)] = led]_vars

(* A render that no painting overlapped displays exactly the LED array.     *)
FrameFaithful ==
  [][\A t \in Threads : Finishes(t, {"render"}) /\ met[t] \cap Painters = {} => shown' = leds]_vars

(* Every handler returns, whatever the others do to the loop bounds it      *)
(* reads again on each turn.                                                *)
HandlersReturn == \A t \in Threads : Busy(t) ~> ~Busy(t) \/ ~Running

(* "no need to call render due to auto render" (README.md): once painting   *)
(* ceases with auto_render on, the strip comes to display the LED array.    *)
AutoRenderShows ==
  <>[](Running /\ auto_render /\ \A t \in Threads : job[t].op \notin Painters) => <>[](shown = leds)
=============================================================================
