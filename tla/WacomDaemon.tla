---------------------------- MODULE WacomDaemon ----------------------------
(***************************************************************************)
(* The daemon of the drawing tablet (wacom/wacom-daemon2.c).  The second   *)
(* stylus button alone is a middle click.  Together with the touching pen  *)
(* it begins a move: mostly up or down it scrolls, to a side it is a       *)
(* gesture, told apart by where it ends, that runs a command.              *)
(*                                                                         *)
(* The kernel sends one event per key and per axis, in any order.  A key   *)
(* that is down when the daemon starts is only seen when it goes up.       *)
(***************************************************************************)
EXTENDS Integers

CONSTANTS Xs, Ys        \* positions of the pen

TABLET == 21600         \* its width; its height is less

ASSUME WacomAssumption == Xs \subseteq 0 .. TABLET /\ Ys \subseteq 0 .. TABLET

Axes == {0, 1}
K0 == 330               \* the pen touches
K2 == 332               \* the second button of the stylus
Keys == {K0, K2}

SCROLLSIZE == 40
MODECHSIZE == 500
MINGEST    == 1000

Modes == {"MNO", "MBUT", "MCLICK", "MSCROLL", "MGEST"}

VARIABLES down,         \* the keys as they are
          key,          \* the keys as the daemon knows them
          mode,
          p, origp, scrolorigp,  \* the pen now, and where moves began
          lasts,        \* steps of scrolling that have been sent
          plugged,
          acted,        \* history: clicks and commands since the last press
          scrolled      \* history: clicks of the wheel since scrolling began

penVars == <<down, key, mode, p, origp, scrolorigp, lasts, plugged, acted, scrolled>>

Zero == [i \in Axes |-> 0]

PenInit == /\ down \in [Keys -> BOOLEAN]
           /\ key = [k \in Keys |-> FALSE]
           /\ mode = "MNO"
           /\ p = Zero /\ origp = Zero /\ scrolorigp = Zero /\ lasts = Zero
           /\ plugged = TRUE
           /\ acted = 0
           /\ scrolled = Zero

-----------------------------------------------------------------------------
Abs(n) == IF n < 0 THEN -n ELSE n

\* The command for a gesture that ends x to the right and y below its
\* beginning; "none" for one that came back.
Gesture(x, y) ==
  LET side  == IF x > 0 THEN "R" ELSE "L"
      steep == CASE y < -3 * Abs(x)   -> "UU"
                 [] y > 3 * Abs(x)    -> "DD"
                 [] 2 * y < - Abs(x)  -> "U"
                 [] 2 * y > Abs(x)    -> "D"
                 [] OTHER             -> ""
  IN  IF x * x + y * y > MINGEST THEN <<side, steep>> ELSE <<"none", "">>

\* LDD has no command.
Runs(g) == g # <<"none", "">> /\ g # <<"L", "DD">>

\* What is done when the buttons are no longer together: a click or a command.
Done == CASE mode = "MBUT" -> 1
          [] mode = "MGEST" /\ Runs(Gesture(p[0] - origp[0], p[1] - origp[1])) -> 1
          [] OTHER -> 0

BothDown == key'[K0] /\ key'[K2]

Begin == /\ mode' = "MCLICK"
         /\ origp' = p
         /\ lasts' = Zero

ToButton(k) == key'[K2] /\ k = K2 /\ mode = "MNO"

\* Slip for checking OneActionPerPress: the move ends with its second button.
NoMoveAfterStylus(k) == IF key'[K2] THEN mode ELSE "MNO"

\* A move ends when either button goes up.
NoMove(k) == "MNO"

\* A key goes down or up.
EvKey(k) ==
  /\ plugged
  /\ down' = [down EXCEPT ![k] = ~ @]
  /\ key' = [key EXCEPT ![k] = down'[k]]
  /\ LET base == IF down'[k] THEN 0 ELSE acted
     IN  \/ BothDown /\ Begin /\ acted' = base
         \/ /\ ~BothDown
            /\ IF ToButton(k) THEN mode' = "MBUT" /\ acted' = base
                              ELSE mode' = NoMove(k) /\ acted' = base + Done
            /\ UNCHANGED <<origp, lasts>>
  /\ UNCHANGED <<p, scrolorigp, plugged, scrolled>>

\* Slip for checking ScrollFollowsPen: without the offset C rounds to zero.
StepsToZero(d) == LET n == d + SCROLLSIZE \div 2
                  IN  IF n < 0 THEN -((-n) \div SCROLLSIZE) ELSE n \div SCROLLSIZE

\* Rounded to the next step; the offset keeps what is divided positive, where
\* the division of C rounds down.
Steps(d) == (d + SCROLLSIZE \div 2 + 1000 * SCROLLSIZE) \div SCROLLSIZE - 1000

Scroll == LET s == [i \in Axes |-> Steps(p'[i] - scrolorigp[i])]
          IN  /\ lasts' = s
              /\ scrolled' = [i \in Axes |-> scrolled[i] + (s[i] - lasts[i])]

Moved(i) == Abs(p'[i] - origp[i]) > MODECHSIZE

\* The pen moves along one axis.
EvAbs(i, v) ==
  /\ plugged
  /\ v # p[i]
  /\ p' = [p EXCEPT ![i] = v]
  /\ \/ mode = "MSCROLL" /\ Scroll /\ UNCHANGED <<mode, scrolorigp>>
     \/ /\ mode = "MCLICK" /\ ~Moved(0) /\ Moved(1)
        /\ mode' = "MSCROLL"
        /\ scrolorigp' = p'
        /\ scrolled' = Zero
        /\ UNCHANGED lasts
     \/ /\ mode # "MSCROLL" /\ ~(mode = "MCLICK" /\ ~Moved(0) /\ Moved(1))
        /\ mode' = IF mode = "MCLICK" /\ Moved(0) THEN "MGEST" ELSE mode
        /\ UNCHANGED <<scrolorigp, lasts, scrolled>>
  /\ UNCHANGED <<down, key, origp, plugged, acted>>

\* read() fails: the tablet is unplugged.
Unplug == /\ plugged
          /\ plugged' = FALSE
          /\ UNCHANGED <<down, key, mode, p, origp, scrolorigp, lasts, acted, scrolled>>

PenNext == \/ \E k \in Keys : EvKey(k)
           \/ \E v \in Xs : EvAbs(0, v)
           \/ \E v \in Ys : EvAbs(1, v)
           \/ Unplug

PenSpec == PenInit /\ [][PenNext]_penVars

-----------------------------------------------------------------------------
(* Properties *)

Position == [Axes -> 0 .. TABLET]

PenTypeOK == /\ down \in [Keys -> BOOLEAN] /\ key \in [Keys -> BOOLEAN]
             /\ mode \in Modes
             /\ p \in Position /\ origp \in Position /\ scrolorigp \in Position
             /\ lasts \in [Axes -> Int] /\ scrolled \in [Axes -> Int]
             /\ plugged \in BOOLEAN
             /\ acted \in Nat

\* While scrolling, what has been scrolled in all is never more than half a
\* step from where the pen is, in both directions: no click of the wheel is
\* lost or sent twice, whatever was scrolled before and wherever it began.
ScrollFollowsPen ==
  mode = "MSCROLL" => \A i \in Axes :
    2 * Abs(SCROLLSIZE * scrolled[i] - (p[i] - scrolorigp[i])) <= SCROLLSIZE

\* A press of a button leads to at most one middle click or command, in
\* whatever order the buttons are released; and without one of them held
\* nothing is still being clicked, scrolled or drawn.
OneActionPerPress == /\ acted <= 1
                     /\ mode \in {"MCLICK", "MSCROLL", "MGEST"} => \A k \in Keys : key[k]
                     /\ mode = "MBUT" => key[K2] /\ ~key[K0]
=============================================================================
