------------------------------- MODULE Shell -------------------------------
(***************************************************************************)
(* The shell (shell-user/src/main.rs): a screen with four icons and a      *)
(* pointer, two of them views of the shell, two of them programs the       *)
(* screen is lent to.  Keyboard and mouse arrive on one completion queue,  *)
(* are staged in the reactor's table and taken with select2.               *)
(*                                                                         *)
(* The screen is a grid of blocks as large as the pointer, each with the   *)
(* colour painted last.  An event's content is chosen when it is taken:    *)
(* nothing before depends on it.                                           *)
(***************************************************************************)
EXTENDS Integers, Sequences

CONSTANTS
  ScreenW, ScreenH,  \* the screen, in pointer sizes
  IconSide, IconGap, \* ICON_W = ICON_H and ICON_GAP
  TitleOffset,       \* how much lower than the middle the icons are
  ShellCq,           \* entries of the completion queue
  ShellTable,        \* entries of the reactor's staging table
  MaxLate            \* bound: completions posted while one reap runs

ASSUME ShellAssumption ==
  /\ {ScreenW, ScreenH, IconGap, TitleOffset} \subseteq Nat /\ IconSide \in Nat \ {0}
  /\ ScreenW >= 2 * IconSide + IconGap
  /\ ScreenH >= 2 * (IconSide + TitleOffset) + IconGap
  /\ {ShellCq, ShellTable} \subseteq Nat \ {0} /\ MaxLate \in Nat

VARIABLES
  screen,        \* the blocks, and the Cursor: place, shown or not, save-under
  mode,          \* "home", "view", "app" (the screen is lent) or "gone"
  sel,           \* the selected icon
  over,          \* the icon the pointer is over, as last reported
  buttons_prev,  \* a button was down in the last packet heard at home
  extended,      \* Keymap: the prefix 0xE0 has been fed
  shellCq,       \* the completion queue: "key" and "mouse"
  staged,        \* how many of each the reactor has staged
  reaping        \* reap is running; posted and thrown away since it began

shellVars == <<screen, mode, sel, over, buttons_prev, extended, shellCq, staged,
               reaping>>

Icons  == 0 .. 3
NoIcon == 4
Blocks == (0 .. ScreenW - 1) \X (0 .. ScreenH - 1)

\* ICON_APPS: INFO and BARS are views; CRASH and APP get the screen.
Apps == {2, 3}

\* icon_rect: its top left block.
IconAt(i) ==
  LET grid == 2 * IconSide + IconGap
      ox   == (ScreenW - grid) \div 2
      oy   == (ScreenH - grid) \div 2 + TitleOffset
  IN <<ox + (i % 2) * (IconSide + IconGap), oy + (i \div 2) * (IconSide + IconGap)>>

IconCells(i) == {b \in Blocks : \A d \in 1 .. 2 : b[d] \in IconAt(i)[d] .. IconAt(i)[d] + IconSide - 1}

HitTest(b) == IF \E i \in Icons : b \in IconCells(i)
              THEN CHOOSE i \in Icons : b \in IconCells(i) ELSE NoIcon

----------------------------------------------------------------------------
(* Painting.  s is a screen: what is painted and the Cursor.               *)

\* draw_home and draw_view, as pictures.
HomePicture(selected) ==
  [b \in Blocks |-> CASE HitTest(b) = NoIcon   -> "background"
                      [] HitTest(b) = selected -> "selected"
                      [] OTHER                 -> "icon"]
ViewPicture == [b \in Blocks |-> "view"]
AppPicture  == [b \in Blocks |-> "app"]

\* Cursor::show captures what it covers.
Show(s) == IF s.shown THEN s
           ELSE [pix |-> [s.pix EXCEPT ![s.at] = "pointer"], at |-> s.at, shown |-> TRUE,
                 save |-> s.pix[s.at]]

\* Cursor::hide writes the captured block back.
Hide(s) == IF s.shown THEN [pix |-> [s.pix EXCEPT ![s.at] = s.save], at |-> s.at,
                            shown |-> FALSE, save |-> s.save] ELSE s

\* Mutant: the captured block is kept although the screen changes hands.
InvalidateNot(s) == s

\* Cursor::invalidate forgets it.
Invalidate(s) == [s EXCEPT !.shown = FALSE]

\* Cursor::refresh.
Refresh(s) == IF s.shown THEN [s EXCEPT !.pix = [s.pix EXCEPT ![s.at] = "pointer"]] ELSE s

Draw(s, picture) == [s EXCEPT !.pix = picture]

\* draw_icon.
DrawIcon(s, i, selected) ==
  [s EXCEPT !.pix = [b \in Blocks |-> IF b \notin IconCells(i) THEN s.pix[b]
                                      ELSE IF selected THEN "selected" ELSE "icon"]]

\* Mutant: the two cells are repainted under the pointer.
MoveSelectionUnder(s, prev, new) ==
  IF prev = new THEN s ELSE DrawIcon(DrawIcon(s, prev, FALSE), new, TRUE)

\* move_selection: only the two cells that change.
MoveSelection(s, prev, new) ==
  IF prev = new THEN s
  ELSE Show(DrawIcon(DrawIcon(Hide(s), prev, FALSE), new, TRUE))

\* The pointer's new place: accumulated and clamped; +Y of the mouse is up.
Clamped(v, limit) == IF v < 0 THEN 0 ELSE IF v > limit THEN limit ELSE v
Moved2D(b, dx, dy) == <<Clamped(b[1] + dx, ScreenW - 1), Clamped(b[2] - dy, ScreenH - 1)>>

\* A packet at home: the pointer moves, or is painted over itself.
PointerMoved(s, to) == IF to = s.at THEN Refresh(s) ELSE Show([Hide(s) EXCEPT !.at = to])

----------------------------------------------------------------------------
(* The two streams and the reactor, as the shell uses them.                *)

\* A completion posted by the kernel, at any time; a full queue drops it.
Posted(stream) ==
  /\ mode # "gone" /\ Len(shellCq) < ShellCq
  /\ shellCq' = Append(shellCq, stream)
  /\ IF reaping.on THEN /\ reaping.late < MaxLate
                        /\ reaping' = [reaping EXCEPT !.late = @ + 1]
     ELSE UNCHANGED reaping
  /\ UNCHANGED <<screen, mode, sel, over, buttons_prev, extended, staged>>

\* Mutant: a view listens to the keyboard only.
ServicedKeysInView == IF mode = "view" THEN {"key"} ELSE {"key", "mouse"}

\* The streams select2 is given: both, in a view too.
Serviced == {"key", "mouse"}

Listening == mode \in {"home", "view"}

NotReaping == [on |-> FALSE, late |-> 0, lost |-> 0]

Unpainted == UNCHANGED <<screen, mode, sel, over, buttons_prev, extended>>

\* block_on finds neither stream ready, waits until there is a completion, and
\* starts to reap.
ReapBegins ==
  /\ Listening /\ ~reaping.on /\ \A stream \in Serviced : staged[stream] = 0
  /\ shellCq # <<>>
  /\ reaping' = [on |-> TRUE, late |-> 0, lost |-> 0]
  /\ UNCHANGED <<shellCq, staged>> /\ Unpainted

\* An entry leaves the queue for the table, or finds it full and is lost.
ReapEntry ==
  /\ reaping.on /\ shellCq # <<>>
  /\ shellCq' = Tail(shellCq)
  /\ IF staged["key"] + staged["mouse"] < ShellTable
     THEN staged' = [staged EXCEPT ![Head(shellCq)] = @ + 1] /\ UNCHANGED reaping
     ELSE reaping' = [reaping EXCEPT !.lost = @ + 1] /\ UNCHANGED staged
  /\ Unpainted

\* The tail has been read once more, and there is nothing left.
ReapEnds ==
  /\ reaping.on /\ shellCq = <<>>
  /\ reaping' = NotReaping
  /\ UNCHANGED <<shellCq, staged>> /\ Unpainted

\* select2 polls the keyboard first.
NextOf(stream) ==
  /\ Listening /\ ~reaping.on /\ stream \in Serviced /\ staged[stream] > 0
  /\ stream = "mouse" => staged["key"] = 0
  /\ staged' = [staged EXCEPT ![stream] = @ - 1]
  /\ UNCHANGED <<shellCq, reaping>>

----------------------------------------------------------------------------
(* The keys.                                                               *)

\* Scancodes the keymap tells apart (a character other than q is "other").
Codes == {"prefix", "enter", "backspace", "q", "updown", "leftright", "other"}

\* Keymap::feed.  The arrows need the prefix, the others must not have it, and
\* only a press counts.  The case of a letter makes no difference here.
KeyOf(code, press) ==
  IF ~press \/ code = "prefix" THEN "none"
  ELSE IF extended THEN IF code \in {"updown", "leftright"} THEN code ELSE "none"
  ELSE IF code \in {"enter", "backspace", "q"} THEN code ELSE "none"

\* open_icon: the screen goes to an app, or becomes a view.
OpenIcon(i, s) ==
  IF i \in Apps THEN mode' = "app" /\ screen' = Invalidate(s)
  ELSE mode' = "view" /\ screen' = Draw(Hide(s), ViewPicture)

\* An arrow: up and down change the row, left and right the column.
Beside(i, key) == IF key = "updown" THEN (i + 2) % 4
                  ELSE IF i % 2 = 0 THEN i + 1 ELSE i - 1

KeyAtHome(code, press) ==
  LET key == KeyOf(code, press)
  IN /\ mode = "home" /\ NextOf("key")
     /\ extended' = (code = "prefix")
     /\ \/ /\ key \in {"updown", "leftright"}
           /\ sel' = Beside(sel, key)
           /\ screen' = MoveSelection(screen, sel, Beside(sel, key))
           /\ UNCHANGED mode
        \/ key = "enter" /\ OpenIcon(sel, screen) /\ UNCHANGED sel
        \/ key = "q" /\ mode' = "gone" /\ UNCHANGED <<screen, sel>>
        \/ key \in {"none", "backspace"} /\ UNCHANGED <<screen, sel, mode>>
     /\ UNCHANGED <<over, buttons_prev>>

\* In a view Backspace goes home and q quits.
KeyInView(code, press) ==
  LET key == KeyOf(code, press)
  IN /\ mode = "view" /\ NextOf("key")
     /\ extended' = (code = "prefix")
     /\ \/ /\ key = "backspace" /\ mode' = "home"
           /\ screen' = Show(Draw(screen, HomePicture(sel)))
           /\ over' = HitTest(screen.at)
        \/ key = "q" /\ mode' = "gone" /\ UNCHANGED <<screen, over>>
        \/ key \notin {"backspace", "q"} /\ UNCHANGED <<screen, over, mode>>
     /\ UNCHANGED <<sel, buttons_prev>>

----------------------------------------------------------------------------
(* The mouse.                                                              *)

\* A packet at home.  Crossing onto an icon selects it; a press, not a button
\* held, opens the icon under the pointer.
MouseAtHome(dx, dy, down) ==
  LET to      == Moved2D(screen.at, dx, dy)
      hit     == HitTest(to)
      hovered == IF hit # over /\ hit # NoIcon THEN hit ELSE sel
      clicked == down /\ ~buttons_prev /\ hit # NoIcon
      chosen  == IF clicked THEN hit ELSE hovered
      painted == MoveSelection(MoveSelection(PointerMoved(screen, to), sel, hovered),
                               hovered, chosen)
  IN /\ mode = "home" /\ NextOf("mouse")
     /\ over' = hit /\ sel' = chosen /\ buttons_prev' = down
     /\ IF clicked THEN OpenIcon(chosen, painted)
        ELSE screen' = painted /\ UNCHANGED mode
     /\ UNCHANGED extended

\* A packet in a view: the pointer moves unseen, the buttons are not looked at.
MouseInView(dx, dy) ==
  /\ mode = "view" /\ NextOf("mouse")
  /\ screen' = [screen EXCEPT !.at = Moved2D(screen.at, dx, dy)]
  /\ UNCHANGED <<mode, sel, over, buttons_prev, extended>>

----------------------------------------------------------------------------
(* The screen on loan (launch_app; module Demos has the capabilities).     *)

\* The app paints.
AppPaints ==
  /\ mode = "app" /\ screen.pix # AppPicture
  /\ screen' = Draw(screen, AppPicture)
  /\ UNCHANGED <<mode, sel, over, buttons_prev, extended, shellCq, staged, reaping>>

\* The screen is back, handed over or reclaimed: mapped anew, painted anew.
AppEnds ==
  /\ mode = "app"
  /\ mode' = "home"
  /\ screen' = Show(Draw(screen, HomePicture(sel)))
  /\ UNCHANGED <<sel, over, buttons_prev, extended, shellCq, staged, reaping>>

\* The spawn fails, or the screen does not come back: the shell exits.
LaunchFails ==
  /\ mode = "app" /\ screen.pix # AppPicture
  /\ mode' = "gone"
  /\ UNCHANGED <<screen, sel, over, buttons_prev, extended, shellCq, staged, reaping>>

\* _start: the splash, home, the pointer in the middle of the selected icon.
ShellInit ==
  LET at == <<IconAt(0)[1] + IconSide \div 2, IconAt(0)[2] + IconSide \div 2>>
  IN /\ screen = Show([pix |-> HomePicture(0), at |-> at, shown |-> FALSE, save |-> "none"])
     /\ mode = "home" /\ sel = 0 /\ over = HitTest(at)
     /\ buttons_prev = FALSE /\ extended = FALSE
     /\ shellCq = <<>> /\ staged = [stream \in {"key", "mouse"} |-> 0]
     /\ reaping = NotReaping

\* A packet of the mouse: still, or one block in some direction.
Deltas == {<<0, 0>>, <<1, 0>>, <<-1, 0>>, <<0, 1>>, <<0, -1>>}

ShellNext ==
  \/ \E stream \in {"key", "mouse"} : Posted(stream)
  \/ ReapBegins \/ ReapEntry \/ ReapEnds
  \/ \E code \in Codes, press \in BOOLEAN : KeyAtHome(code, press) \/ KeyInView(code, press)
  \/ \E d \in Deltas : MouseInView(d[1], d[2])
  \/ \E d \in Deltas, down \in BOOLEAN : MouseAtHome(d[1], d[2], down)
  \/ AppPaints \/ AppEnds \/ LaunchFails

ShellSpec == ShellInit /\ [][ShellNext]_shellVars

----------------------------------------------------------------------------
(* Properties.                                                             *)

\* The save-under and the partial repaints never leave a trace: with the
\* pointer lifted, the screen is exactly what a full redraw of the current
\* page with the current selection would paint, and away from home the pointer
\* is not painted.  No sequence of moves, hovers, clicks, arrows, views and
\* crashed apps restores a block that has meanwhile changed.
PictureIntact ==
  /\ mode = "home" => /\ screen.shown /\ screen.pix[screen.at] = "pointer"
                      /\ Hide(screen).pix = HomePicture(sel)
  /\ mode = "view" => ~screen.shown /\ screen.pix = ViewPicture

\* A backlog is never thrown away: however many completions piled up while the
\* shell drew a view or had lent the screen, a reap loses no more of them than
\* were posted while it ran.  The table is empty when a reap begins, since a view
\* listens to the mouse too and drops what it hears (the hang the code calls
\* K-027); reap reads the tail again and again, so a burst can still overrun it.
BacklogKept == reaping.lost <= reaping.late

============================================================================
