---------------------------- MODULE NavContext ----------------------------
(***************************************************************************)
(* Which of three sets of controls the frame loop of main.c hands to the   *)
(* input layer: menu, seed chooser or lawn.  It is decided once a frame,   *)
(* from observers planted in the game's chooser and from the game's board, *)
(* while the game goes on creating and destroying both.                    *)
(***************************************************************************)
EXTENDS Naturals

CONSTANTS
  Choosers,    \* addresses of SeedChooser objects
  Boards,      \* addresses of Board objects
  None,        \* no object
  Grace,       \* frames a board may be new (2)
  MaxEvents    \* bound: what the game does

VARIABLES
  chooser,     \* the game's chooser, if it has one
  board,       \* the game's board in state 3, 4 or 5, if it has one
  object,      \* g_nav_seedchooser_object
  visible,     \* g_nav_seedchooser_visible
  rock,        \* g_nav_lets_rock_seen
  latched,     \* g_nav_level_latched
  edge,        \* g_nav_level_entered_edge
  known,       \* g_nav_board
  age,         \* g_nav_board_age, no further than past the grace
  mode,        \* the context of this frame
  fpc,         \* where the frame is
  probes,      \* the observers that could be installed
  entered,     \* edges raised since a chooser was last observed
  committed,   \* a chooser has been left for its level
  events

navVars == <<chooser, board, object, visible, rock, latched, edge, known, age, mode, fpc,
             probes, entered, committed, events>>

NavConstants == Grace \in Nat /\ MaxEvents \in Nat /\ None \notin Choosers \cup Boards

Init ==
  /\ chooser = None
  /\ board = None
  /\ object = None
  /\ visible = FALSE
  /\ rock = FALSE
  /\ latched = FALSE
  /\ edge = FALSE
  /\ known = None
  /\ age = 0
  /\ mode = "menu"
  /\ fpc = "context"
  /\ probes \in SUBSET {"chooser", "rock"}
  /\ entered = 0
  /\ committed = FALSE
  /\ events = 0

-----------------------------------------------------------------------------
(* The observed object still has the chooser's virtual table. *)
ObjectAlive == visible /\ object # None /\ chooser = object

(* A board that forgets the level whenever it is replaced. *)
LatchOver_Board(new) == IF new THEN FALSE ELSE latched

LatchOver(new) == latched

Enter == edge' = TRUE /\ entered' = entered + 1
Stay == UNCHANGED <<edge, entered>>

(* controller_navigation_context *)
DecideChooser ==
  /\ ObjectAlive
  /\ mode' = "chooser"
  /\ UNCHANGED <<object, visible, latched, edge, known, age, entered>>

DecideNoBoard ==
  /\ ~ ObjectAlive /\ board = None
  /\ known' = None
  /\ age' = 0
  /\ mode' = "menu"
  /\ visible' = FALSE /\ object' = IF visible THEN None ELSE object
  /\ UNCHANGED <<latched, edge, entered>>

DecideBoard ==
  LET new == board # known
      aged == IF new THEN 1 ELSE IF age <= Grace THEN age + 1 ELSE age
      kept == LatchOver(new)
  IN /\ ~ ObjectAlive /\ board # None
     /\ known' = board
     /\ age' = aged
     /\ visible' = FALSE /\ object' = IF visible THEN None ELSE object
     /\ IF rock \/ kept \/ aged > Grace
          THEN /\ mode' = "level"
               /\ latched' = TRUE
               /\ IF kept THEN Stay ELSE Enter
          ELSE mode' = "menu" /\ latched' = kept /\ Stay

Decide ==
  /\ fpc = "context"
  /\ DecideChooser \/ DecideNoBoard \/ DecideBoard
  /\ fpc' = "input"
  /\ UNCHANGED <<chooser, board, rock, probes, committed, events>>

(* controller_seedchooser_commit_observed *)
Commit ==
  /\ visible' = FALSE
  /\ object' = None
  /\ rock' = TRUE
  /\ latched' = TRUE
  /\ IF latched THEN Stay ELSE Enter
  /\ committed' = TRUE

(* padUpdate_all with the context of this frame: a confirmation in the      *)
(* chooser's corner is a commit of its own.                                 *)
Input(confirms) ==
  /\ fpc = "input"
  /\ confirms => mode = "chooser"
  /\ IF confirms THEN Commit
     ELSE UNCHANGED <<visible, object, rock, latched, edge, entered, committed>>
  /\ fpc' = "native"
  /\ UNCHANGED <<chooser, board, known, age, mode, probes, events>>

-----------------------------------------------------------------------------
(* The game, during draw_frame *)

Native == fpc = "native" /\ events < MaxEvents /\ events' = events + 1

Construct(c) ==
  /\ Native
  /\ chooser = None
  /\ chooser' = c
  /\ IF "chooser" \in probes
       THEN /\ object' = c /\ visible' = TRUE
            /\ rock' = FALSE /\ latched' = FALSE
            /\ entered' = 0 /\ committed' = FALSE
       ELSE UNCHANGED <<object, visible, rock, latched, entered, committed>>
  /\ UNCHANGED <<board, edge, known, age, mode, fpc, probes>>

(* The chooser's own button: heard before the game leaves the chooser. *)
LetsRock ==
  /\ Native
  /\ chooser # None
  /\ IF "rock" \in probes THEN Commit
     ELSE UNCHANGED <<visible, object, rock, latched, edge, entered, committed>>
  /\ UNCHANGED <<chooser, board, known, age, mode, fpc, probes>>

Destroy ==
  /\ Native
  /\ chooser # None
  /\ chooser' = None
  /\ UNCHANGED <<board, object, visible, rock, latched, edge, known, age, mode, fpc, probes,
                 entered, committed>>

ChangeBoard(b) ==
  /\ Native
  /\ board' = b
  /\ b # board
  /\ UNCHANGED <<chooser, object, visible, rock, latched, edge, known, age, mode, fpc,
                 probes, entered, committed>>

(* The end of the frame takes the edge. *)
EndFrame ==
  /\ fpc = "native"
  /\ edge' = FALSE
  /\ fpc' = "context"
  /\ UNCHANGED <<chooser, board, object, visible, rock, latched, known, age, mode, probes,
                 entered, committed, events>>

Next ==
  \/ Decide \/ LetsRock \/ Destroy \/ EndFrame
  \/ \E confirms \in BOOLEAN : Input(confirms)
  \/ \E c \in Choosers : Construct(c)
  \/ \E b \in Boards \cup {None} : ChangeBoard(b)

Spec == Init /\ [][Next]_navVars

-----------------------------------------------------------------------------
(* Once a chooser has been left for its level, every frame with a board is  *)
(* a level frame until the next chooser, whatever loading does to the board.*)
LevelKept ==
  [][ Decide /\ committed /\ board # None /\ ~ ObjectAlive => mode' = "level" ]_navVars

(* An observed chooser that is alive has its own controls, board or not. *)
ChooserWins ==
  [][ Decide /\ visible /\ chooser = object => mode' = "chooser" ]_navVars

(* A level is entered once, whichever of its signals come, and a chooser   *)
(* whose button was heard is not mistaken for a live one again.            *)
EnteredOnce == entered <= 1
CommitForgets == committed => ~ visible

NavSound == [](EnteredOnce /\ CommitForgets) /\ LevelKept /\ ChooserWins

(* The comment on the board fallback: a chooser has two frames to arrive    *)
(* before a board without one is taken for a lawn.                          *)
GraceGiven ==
  [][ Decide /\ mode' = "level" /\ ~ committed => age' > Grace ]_navVars

-----------------------------------------------------------------------------
(* The inductive invariant *)

(* The level has been entered exactly when its latch is set, a chooser that *)
(* was left has set it, and a visible chooser is an object.                 *)
IInv ==
  /\ entered \in {0, 1} /\ (~ latched => entered = 0)
  /\ committed => ~ visible /\ latched
  /\ visible => object # None
=============================================================================
