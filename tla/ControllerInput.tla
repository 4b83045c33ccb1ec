--------------------------- MODULE ControllerInput ---------------------------
(***************************************************************************)
(* Pad and touch screen turned into the one Android pointer the game knows *)
(* (source/platform.c): a touch, the free cursor, the held seed packet of  *)
(* the lawn focus and the shovel and Plant Food shortcuts all drive        *)
(* pointer id 8.  A frame reads the pad and the panel once and runs the    *)
(* whole of padUpdate_all; the game drains the events before the next.     *)
(* Places are a lawn cell or a packet; speeds, geometry and the repeat     *)
(* rate of the D-pad are left out.                                         *)
(***************************************************************************)
EXTENDS Integers, Sequences, FiniteSets

CONSTANTS
  Buttons,       \* subset of {"A","B","X","L","R","ZL","Plus","Minus","Dpad"}
  Cells,         \* lawn cells the focus can be on
  Packets,       \* NAV_SEED_SLOTS
  MaxHeld,       \* bound: buttons held at once
  MaxEvents      \* capacity of s_events

InputConstants ==
  /\ Packets \in Nat \ {0} /\ MaxHeld \in Nat /\ "packet" \notin Cells
  /\ MaxEvents \in Nat /\ MaxEvents >= 16

VARIABLES
  held,          \* buttons held in the last frame
  pad,           \* the s_* variables of platform.c, the frame's events and, as a ghost,
                 \* the finger as the game is told: "up", "down", or "broken"
  switched       \* ghost: the player changed the way of input in mid gesture

inputVars == <<held, pad, switched>>

Init ==
  /\ held = {} /\ switched = FALSE
  /\ \E c \in Cells :
       pad = [context |-> "menu", override |-> FALSE, focus |-> FALSE, cell |-> c, slot |-> -1,
              drag |-> FALSE, at |-> "packet", needsMove |-> FALSE, rearm |-> 0, pending |-> FALSE,
              taps |-> {}, action |-> "none", stage |-> 0, delay |-> 0,
              touch |-> FALSE, aDown |-> FALSE, policy |-> "auto", shown |-> FALSE,
              back |-> FALSE, start |-> FALSE, out |-> << >>, finger |-> "up"]

-----------------------------------------------------------------------------
(* The held packet *)

(* What the game makes of an event: a DOWN while down, or a MOVE or UP      *)
(* while up, is no gesture of one finger.                                   *)
After(finger, phase) ==
  CASE phase = "down" /\ finger = "up" -> "down"
    [] phase = "move" /\ finger = "down" -> "down"
    [] phase = "up" /\ finger = "down" -> "up"
    [] OTHER -> "broken"

Emit(s, phase, by) ==
  IF Len(s.out) = MaxEvents THEN s
  ELSE [s EXCEPT !.out = Append(@, [phase |-> phase, by |-> by]), !.finger = After(@, phase)]

Lawn(s) == s.context = "level" /\ ~s.override
AutoShow(s) == [s EXCEPT !.shown = @ \/ s.policy # "hidden"]

DragBegin(s) ==
  IF ~Lawn(s) \/ s.drag THEN s
  ELSE [Emit(s, "down", "drag") EXCEPT !.slot = IF @ < 0 THEN 0 ELSE @, !.drag = TRUE,
                                       !.needsMove = TRUE, !.rearm = 0, !.at = "packet"]

DragMove(s) ==
  IF ~s.drag \/ ~Lawn(s) \/ s.at = s.cell THEN s
  ELSE [Emit(s, "move", "drag") EXCEPT !.at = s.cell]

Quiet(s) == [s EXCEPT !.needsMove = FALSE, !.rearm = 0]

(* Mutant: the packet is dropped without a release. *)
DragCancel_NoUp(s) == [Quiet(s) EXCEPT !.drag = FALSE]

(* Released outside the view. *)
DragCancel(s) ==
  IF ~s.drag THEN Quiet(s)
  ELSE [Quiet(Emit(Emit(s, "move", "drag"), "up", "drag")) EXCEPT !.drag = FALSE]

DragPlace(s) ==
  IF ~Lawn(s) THEN s
  ELSE IF ~s.drag THEN DragBegin(s)
  ELSE [Emit(DragMove(s), "up", "drag") EXCEPT !.drag = FALSE, !.needsMove = FALSE, !.rearm = 2]

-----------------------------------------------------------------------------
(* The shortcuts *)

NoTool(s) == [s EXCEPT !.action = "none", !.stage = 0, !.delay = 0]

ToolDone(s) == [NoTool(s) EXCEPT !.rearm = IF Lawn(s) /\ s.slot >= 0 THEN 2 ELSE @]

ToolBegin(s, tool) ==
  IF ~Lawn(s) \/ ~s.focus \/ s.action # "none" THEN s
  ELSE [AutoShow(DragCancel(s)) EXCEPT !.pending = FALSE, !.taps = {}, !.action = tool,
                                       !.stage = 0, !.delay = 1, !.focus = TRUE]

(* The gesture of each tool, a frame an entry: tap the shovel and then the  *)
(* plant, or drag from the Plant Food bank to the plant.                    *)
Gesture(tool) == IF tool = "shovel" THEN <<"down", "up", "none", "down", "up">>
                                    ELSE <<"down", "move", "up">>

(* nav_special_pump: whether a tool has the pointer, and what it does. *)
ToolBusy(s) == s.action # "none" /\ Lawn(s)
ToolPump(s) ==
  LET gesture == Gesture(s.action)
      phase == gesture[s.stage + 1]
      told == IF phase = "none" THEN s ELSE Emit(s, phase, "tool") IN
  IF s.delay > 0 THEN [s EXCEPT !.delay = @ - 1]
  ELSE IF s.stage + 1 = Len(gesture) THEN ToolDone(told)
  ELSE [told EXCEPT !.stage = @ + 1]

(* nav_handle_double_tap_shortcuts; late: the first taps that expired. *)
Tap(s, button, tool, pressed) ==
  IF button \notin pressed THEN s
  ELSE IF button \in s.taps THEN ToolBegin([s EXCEPT !.taps = @ \ {button}], tool)
  ELSE [s EXCEPT !.taps = @ \cup {button}]

DoubleTaps(s, pressed, down, late) ==
  LET fresh == [s EXCEPT !.taps = @ \ late] IN
  IF s.action # "none" THEN [s EXCEPT !.taps = {}]
  ELSE IF s.context # "level" THEN [s EXCEPT !.taps = {}, !.back = @ \/ "B" \in pressed]
  ELSE IF s.override \/ "ZL" \in down \/ ~s.focus THEN [s EXCEPT !.taps = {}]
  ELSE Tap(Tap(fresh, "B", "shovel", pressed), "X", "plantfood", pressed)

-----------------------------------------------------------------------------
(* Context, pause, overlay *)

(* platform_set_navigation_context: the gesture state is dropped. *)
SetContext(s, context) ==
  IF context = s.context THEN s
  ELSE [NoTool(Quiet(s)) EXCEPT !.drag = FALSE, !.pending = FALSE, !.taps = {}, !.override = FALSE,
          !.focus = context # "menu", !.context = context,
          !.slot = IF context = "level" THEN -1 ELSE @]

(* Plus in a level: pause or resume through the stock Back key. *)
LevelBack(s) ==
  IF s.action # "none" THEN [s EXCEPT !.taps = {}]
  ELSE [NoTool(DragCancel(s)) EXCEPT !.pending = FALSE, !.taps = {}, !.back = TRUE,
          !.override = ~@, !.focus = s.override]

Overlay(s) ==
  IF s.shown THEN [s EXCEPT !.shown = FALSE, !.policy = "hidden"]
             ELSE [s EXCEPT !.shown = TRUE, !.policy = "shown"]

-----------------------------------------------------------------------------
(* Touch, shoulder buttons, D-pad, stick and A *)

(* collect_touch_events on a contact (the tracked one, once there is one);  *)
(* hit: the touch was let go over the chooser's confirmation.               *)
Touch(s, contact, hit) ==
  LET taken == IF ~s.touch /\ contact /\ s.drag
               THEN [DragCancel(s) EXCEPT !.focus = FALSE] ELSE s IN
  IF contact THEN [Emit(taken, IF s.touch THEN "move" ELSE "down", "touch") EXCEPT
                     !.touch = TRUE,
                     !.shown = @ /\ (s.touch \/ s.policy # "auto")]
  ELSE IF s.touch THEN [Emit(s, "up", "touch") EXCEPT !.touch = FALSE,
                          !.start = @ \/ (hit /\ s.context = "select")]
  ELSE s

TouchOwns(s, down) ==
  [NoTool(Quiet(s)) EXCEPT !.focus = FALSE, !.pending = FALSE, !.taps = {}, !.aDown = "A" \in down]

Shoulder(s, pressed) ==
  LET left == "L" \in pressed
      next == IF s.slot < 0 THEN 0
              ELSE IF left THEN (IF s.slot > 0 THEN s.slot - 1 ELSE 0)
              ELSE IF s.slot + 1 < Packets THEN s.slot + 1 ELSE s.slot
      moved == [AutoShow(DragCancel(s)) EXCEPT !.slot = next, !.rearm = 0, !.focus = TRUE,
                                               !.pending = s.drag] IN
  IF ~Lawn(s) \/ left = ("R" \in pressed) \/ (next = s.slot /\ s.drag) THEN s
  ELSE IF s.drag THEN moved ELSE DragBegin(moved)

(* A step of the D-pad, or of the stick where it brings the focus to a cell.*)
BeginOrMove(s, moved) ==
  IF ~s.drag /\ ~s.pending /\ s.rearm = 0 THEN DragBegin(s)
  ELSE IF moved THEN DragMove(s) ELSE s

Dpad(s, cell) ==
  IF Lawn(s) THEN BeginOrMove([AutoShow(s) EXCEPT !.focus = TRUE, !.cell = cell], TRUE)
  ELSE [AutoShow(s) EXCEPT !.focus = s.context = "select"]

CursorPhase(s, down) == IF down THEN (IF s.aDown THEN "move" ELSE "down") ELSE "up"

Cursor(s, down, pressed, stick, cell) ==
  LET shown == IF stick THEN AutoShow(s) ELSE s
      moved == IF stick THEN BeginOrMove([shown EXCEPT !.focus = TRUE, !.cell = cell], cell # s.cell)
                        ELSE s
      free == IF Lawn(s) /\ "ZL" \in down
              THEN [DragCancel(shown) EXCEPT !.pending = FALSE, !.focus = FALSE] ELSE shown
      press == "A" \in down /\ ~(Lawn(s) /\ s.drag)
      told == IF press \/ s.aDown THEN Emit(free, CursorPhase(s, press), "cursor") ELSE free IN
  IF Lawn(s) /\ "ZL" \notin down
  THEN [(IF "A" \in pressed THEN DragPlace(moved) ELSE moved) EXCEPT !.aDown = FALSE]
  ELSE [told EXCEPT !.aDown = press]

(* The packet's DOWN, its MOVE onto the lawn, and the DOWN of the next      *)
(* packet each get a frame of their own.                                    *)
Packet(s, pressed, down) ==
  LET calm == Lawn(s) /\ pressed \cap {"L", "R", "B"} = {} /\ "ZL" \notin down
      a == IF s.needsMove /\ s.drag /\ calm THEN DragMove([s EXCEPT !.needsMove = FALSE]) ELSE s
      b == IF a.pending /\ calm THEN DragBegin([a EXCEPT !.pending = FALSE]) ELSE a
      c == [b EXCEPT !.rearm = @ - 1] IN
  IF b.rearm = 0 THEN b ELSE IF c.rearm = 0 /\ calm /\ c.focus THEN DragBegin(c) ELSE c

-----------------------------------------------------------------------------

(* padUpdate_all after the context is set, in its order. *)
Update(s, in) ==
  LET pressed == in.down \ held
      a == IF "Minus" \in pressed THEN Overlay(s) ELSE s
      b == IF "Plus" \in pressed /\ a.context = "level" THEN LevelBack(a) ELSE a
      c == [b EXCEPT !.start = "A" \in held \ in.down /\ in.hit /\ b.context = "select"]
      d == DoubleTaps(c, pressed, in.down, in.late)
      e == IF in.touch = "docked" THEN d ELSE Touch(d, in.touch = "contact", in.hit)
      f == Packet(e, pressed, in.down)
      g == Shoulder(f, pressed)
      h == IF "Dpad" \in pressed \/ (in.repeat /\ "Dpad" \in in.down) THEN Dpad(g, in.cell) ELSE g
  IN IF in.touch # "docked" /\ (d.touch \/ in.touch = "contact") THEN TouchOwns(e, in.down)
     ELSE IF ToolBusy(e) THEN [ToolPump(e) EXCEPT !.aDown = FALSE]
     ELSE Cursor(h, in.down, pressed, in.stick, in.cell)

(* The way of input: changing it in mid gesture, touching the panel or      *)
(* docking then, takes the finger away from whatever holds it; so does A    *)
(* under a touch, or a button of the lawn focus while ZL asks for the free  *)
(* pointer.                                                                 *)
Way(s, down) == <<s.context, s.override, "ZL" \in down>>

Interrupts(in) ==
  \/ Way(pad, held) # Way(pad', in.down)
  \/ in.touch = "docked"
  \/ ~pad.touch /\ pad'.touch

Frame(in) ==
  LET set == [SetContext(pad, in.context) EXCEPT !.out = << >>, !.back = FALSE] IN
  /\ pad' = Update(set, in)
  /\ held' = in.down
  /\ switched' = (\/ switched
                  \/ pad.finger = "down" /\ Interrupts(in)
                  \/ (pad.touch \/ pad'.touch) /\ pad'.aDown
                  \/ "ZL" \in in.down /\ in.down \cap {"L", "R", "Dpad"} # {})

(* An input that a frame does not look at is given one value.               *)
Next ==
  \E down \in {d \in SUBSET Buttons : Cardinality(d) <= MaxHeld},
     context \in {"menu", "select", "level"},
     touch \in {"none", "contact"} \cup (IF pad.touch THEN {"docked"} ELSE {}),
     late \in SUBSET pad.taps, stick \in BOOLEAN :
    \E hit \in IF context = "select" THEN BOOLEAN ELSE {FALSE},
       repeat \in IF "Dpad" \in held \cap down THEN BOOLEAN ELSE {FALSE},
       cell \in IF context = "level" /\ (stick \/ "Dpad" \in down) THEN Cells ELSE {pad.cell} :
      Frame([down |-> down, context |-> context, touch |-> touch, late |-> late, hit |-> hit,
             repeat |-> repeat, stick |-> stick, cell |-> cell])

Spec == Init /\ [][Next]_inputVars

-----------------------------------------------------------------------------
(* Properties *)

(* A bound: runs stop where the player first changes the way of input in    *)
(* mid gesture, after which nothing is claimed.                             *)
BeforeSwitch == ~switched

(* The game sees one finger that goes down, moves and comes up, whatever    *)
(* the buttons, unless the player changes the way of input in mid gesture.  *)
OneFinger == pad.finger = "broken" => switched

(* Nothing is lost to a full event queue, so no UP is.                      *)
NothingDropped == Len(pad.out) < MaxEvents

(* The seed chooser is left only after its button came up.                  *)
ChooserSeesRelease == pad.start /\ ~pad.touch /\ ~switched => pad.finger = "up"

(* What makes them inductive: the finger is down while one of its four      *)
(* owners, a packet, a tool, a touch or the cursor, has it, and none takes  *)
(* it from another.                                                         *)
Pads ==
  [context : {"menu", "select", "level"}, override : BOOLEAN, focus : BOOLEAN, cell : Cells,
   slot : Int, drag : BOOLEAN, at : Cells \cup {"packet"}, needsMove : BOOLEAN, rearm : Nat,
   pending : BOOLEAN, taps : SUBSET {"B", "X"}, action : {"none", "shovel", "plantfood"},
   stage : Nat, delay : Nat, touch : BOOLEAN, aDown : BOOLEAN,
   policy : {"auto", "hidden", "shown"}, shown : BOOLEAN, back : BOOLEAN, start : BOOLEAN,
   out : Seq([phase : {"down", "move", "up"}, by : {"drag", "tool", "touch", "cursor"}]),
   finger : {"up", "down", "broken"}]

TypeOK ==
  /\ held \subseteq Buttons /\ switched \in BOOLEAN
  /\ pad \in Pads /\ pad.stage < Len(Gesture(pad.action))

ToolDown(s) == (s.action = "shovel" /\ s.stage \in {1, 4}) \/ (s.action = "plantfood" /\ s.stage > 0)

OneOwner(s) ==
  /\ s.finger = IF s.drag \/ ToolDown(s) \/ s.touch \/ s.aDown THEN "down" ELSE "up"
  /\ s.drag => Lawn(s) /\ s.action = "none" /\ ~s.touch /\ ~s.aDown
  /\ s.action # "none" => Lawn(s) /\ ~s.aDown
  /\ s.touch => ~ToolDown(s) /\ ~s.aDown

Owned == ~switched => OneOwner(pad) /\ (pad.aDown => ~Lawn(pad) \/ "ZL" \in held)

IInv == TypeOK /\ Owned /\ NothingDropped /\ ChooserSeesRelease

(* The comment in platform_set_navigation_context: never carry an Android   *)
(* synthetic finger across a change of context.                             *)
NoCarriedFinger ==
  [][pad'.context # pad.context /\ pad.drag => \E i \in DOMAIN pad'.out : pad'.out[i].phase = "up"]_inputVars

(* The comment above nav_drag_begin: every seed change gets a clean UP-only *)
(* frame before the next packet begins.                                     *)
UpOnlyFrame ==
  \A i, j \in DOMAIN pad.out :
    i < j /\ pad.out[i] = [phase |-> "up", by |-> "drag"] => pad.out[j] # [phase |-> "down", by |-> "drag"]
=============================================================================
