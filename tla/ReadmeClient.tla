---------------------------- MODULE ReadmeClient ----------------------------
(***************************************************************************)
(* The client program of README.md against the service: one connection,    *)
(* whose calls run one after the other on one io thread, and no other      *)
(* client.                                                                 *)
(***************************************************************************)
EXTENDS StripService

CONSTANTS Connection,      (* the io thread that serves the client *)
          Hello, World,    (* the two texts *)
          Blue, Red

ASSUME ClientAssumption ==
  /\ IoThreads = {Connection}
  /\ {Hello, World} \subseteq Glyphs /\ {Blue, Red} \subseteq Color

VARIABLES step,      (* the next line of the program *)
          height     (* what its call of height returned *)

clientVars == <<vars, step, height>>

ClientInit == Init /\ step = "height" /\ height = 0

(* A call returns before the program goes on. *)
At(line, next) == Running /\ step = line /\ ~Busy(Connection) /\ step' = next

AskHeight ==
  /\ At("height", "clear")
  /\ height' = logic_height
  /\ UNCHANGED vars

CallClear ==
  /\ At("clear", "auto_render")
  /\ Receive(Connection) /\ job'[Connection].op = "clear"
  /\ UNCHANGED height

CallAutoRender ==
  /\ At("auto_render", "rotate")
  /\ SetAutoRender(Connection) /\ auto_render'
  /\ UNCHANGED height

CallRotate ==
  /\ At("rotate", "hello")
  /\ SetRotate(Connection)
  /\ job'[Connection].rotation = [degree |-> 270, flip_x |-> FALSE, flip_y |-> FALSE]
  /\ UNCHANGED height

DrawText(x, y, text, color) ==
  /\ Receive(Connection)
  /\ LET j == job'[Connection] IN
       /\ j.op = "draw_text"
       /\ j.ox = x /\ j.oy = y /\ j.image = Coloured(text, color, Black)
  /\ UNCHANGED height

CallHello == At("hello", "world") /\ DrawText(0, height \div 2, Hello, Blue)

CallWorld == At("world", "done") /\ DrawText(0, 0, World, Red)

ClientNext ==
  \/ AskHeight \/ CallClear \/ CallAutoRender \/ CallRotate \/ CallHello \/ CallWorld
  \/ /\ (Running /\ AutoRender) \/ \E t \in Threads : Proceed(t)
     /\ UNCHANGED <<step, height>>

(* The client, too, keeps going. *)
ClientSpec ==
  /\ ClientInit /\ [][ClientNext]_clientVars
  /\ WF_clientVars(ClientNext /\ step' # step)
  /\ WF_clientVars(Running /\ AutoRender /\ UNCHANGED <<step, height>>)
  /\ \A t \in Threads : WF_clientVars(Proceed(t) /\ UNCHANGED <<step, height>>)

Finished == step = "done" /\ ~Busy(Connection)

(* draw_text(0, height / 2, "Hello", 0x0000ff, 0), README.md: when the      *)
(* program is through, the text is on the strip.                            *)
HelloDrawn == Finished => \E p \in Positions : leds[p] = Blue

(* draw_text(0, 0, "World", 0xff0000, 0) with "no need to call render due   *)
(* to auto render", README.md: the strip ends up displaying the text.       *)
WorldShown == <>[](shown = leds /\ \E p \in Positions : shown[p] = Red)
=============================================================================
