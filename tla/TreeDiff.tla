------------------------------ MODULE TreeDiff ------------------------------
(***************************************************************************)
(* The terminal interface of treediff (run_tui in scripts/treediff.py).    *)
(* The tree is what the directories were at the last reload: meanwhile the *)
(* editor that Enter, h and l start, or anybody else, may change them.     *)
(* One step is one key with the frame that is drawn after it: the frame    *)
(* puts the selection back into the list and the window over it.           *)
(*                                                                         *)
(* sel and top count from 0, as in the code.  A terminal has BodyHeights   *)
(* rows between its header and its footer.                                 *)
(***************************************************************************)
EXTENDS FileTree

CONSTANTS Disks,        \* pairs of sides the directories may hold
          NameRank,     \* the place of a name in alphabetical order
          Filters,      \* filters that are typed, each the set of paths it matches
          NoFilter,     \* no filter is set
          BodyHeights

FileNames == DOMAIN NameRank

ASSUME TreeDiffAssumption ==
  /\ BodyHeights \subseteq Nat \ {0}
  /\ NoFilter \notin Filters
  /\ \E d \in Disks : DOMAIN d[1] \cup DOMAIN d[2] # {}
  /\ \A d \in Disks, i \in {1, 2} : /\ DOMAIN d[i] \subseteq Seq(FileNames) \ {<< >>}
                                    /\ IsFiniteSet(DOMAIN d[i])
  /\ \A a, b \in FileNames : NameRank[a] \in Nat /\ (NameRank[a] = NameRank[b] => a = b)

VARIABLES disk,       \* what the two directories hold
          tree,       \* the files that were found and the verdicts on them
          expanded,   \* directories that are unfolded
          hideSame, hideOnly, filt,
          view,       \* the rows of the list
          sel, top,   \* the selected row and the first one of the window
          body,       \* the height of the window
          running     \* "tui", "left" after q, "died" by an exception

tuiVars == <<disk, tree, expanded, hideSame, hideOnly, filt, view, sel, top, body, running>>

Loaded(d) == BuildTree(BuildEntries(d[1], d[2]))

FileHidden(t, hs, ho, f) == \/ hs /\ t[f].status = "same"
                            \/ ho /\ t[f].status \in {"onlyA", "onlyB"}

\* A slip: hiding files leaves their directories.
ViewOfAllDirs(t, ex, hs, ho, ft) ==
  LET shown == {f \in DOMAIN t : ~FileHidden(t, hs, ho, f)}
      above(n) == {SubSeq(n, 1, i) : i \in 1 .. Len(n) - 1}
  IN  Walk(t, NameRank,
           IF ft # NoFilter THEN shown \cap ft
           ELSE {n \in shown \cup Dirs(t) : above(n) \subseteq ex})

\* The rows there are to be seen, in their order.
BuildView(t, ex, hs, ho, ft) ==
  LET shown == {f \in DOMAIN t : ~FileHidden(t, hs, ho, f)}
      above(n) == {SubSeq(n, 1, i) : i \in 1 .. Len(n) - 1}
  IN  Walk(t, NameRank,
           IF ft # NoFilter THEN shown \cap ft
           ELSE {n \in Nodes(t) : /\ \E f \in shown : IsPrefix(n, f)
                                  /\ above(n) \subseteq ex})

AtRow(i) == view[i + 1]

\* A slip: a list that has got shorter is not noticed.
SelKept(s, n) == s

ClampSel(s, n) == IF s >= n THEN IF n = 0 THEN 0 ELSE n - 1 ELSE s

ClampTop(t, s, b) == CASE s < t      -> s
                       [] s >= t + b -> s - b + 1
                       [] OTHER      -> t

\* The top of the loop: it ends with an IndexError when the window would
\* begin before the first row of an empty list.
Frame(s, t, b) ==
  LET n  == Len(view')
      s1 == ClampSel(s, n)
      t1 == ClampTop(t, s1, b)
  IN  /\ view' = BuildView(tree', expanded', hideSame', hideOnly', filt')
      /\ sel' = s1
      /\ top' = t1
      /\ running' = IF t1 < 0 /\ n = 0 THEN "died" ELSE "tui"

-----------------------------------------------------------------------------
TuiInit ==
  /\ disk \in {d \in Disks : DOMAIN d[1] \cup DOMAIN d[2] # {}}
  /\ tree = Loaded(disk)
  /\ expanded = {}
  /\ hideSame = FALSE /\ hideOnly = FALSE /\ filt = NoFilter
  /\ view = BuildView(tree, {}, FALSE, FALSE, NoFilter)
  /\ sel = 0 /\ top = 0
  /\ body \in BodyHeights
  /\ running = "tui"

Least(a, b) == IF a < b THEN a ELSE b

Settings == <<hideSame, hideOnly, filt>>

\* Keys that only move the selection.
MoveTo(s) ==
  /\ running = "tui"
  /\ UNCHANGED <<disk, tree, expanded, Settings, body>>
  /\ Frame(s, top, body)

Down     == MoveTo(Least(Len(view) - 1, sel + 1))
Up       == MoveTo(IF sel = 0 THEN 0 ELSE sel - 1)
NextPage == MoveTo(Least(Len(view) - 1, sel + body))
PrevPage == MoveTo(IF sel < body THEN 0 ELSE sel - body)
Home     == MoveTo(0)
End      == MoveTo(Len(view) - 1)

Fold(ex, s) ==
  /\ running = "tui"
  /\ expanded' = ex
  /\ UNCHANGED <<disk, tree, Settings, body>>
  /\ Frame(s, top, body)

DirAt(i) == 0 <= i /\ i < Len(view) /\ AtRow(i) \in Dirs(tree)

Unfolded(n) == IF n \in expanded THEN expanded \ {n} ELSE expanded \cup {n}

Right == DirAt(sel) /\ Fold(expanded \cup {AtRow(sel)}, sel)

Left == DirAt(sel) /\ Fold(expanded \ {AtRow(sel)}, sel)

\* Enter, or a click on a row of the window; on a file it is Edit.
Activate == DirAt(sel) /\ Fold(Unfolded(AtRow(sel)), sel)

Click(row) ==
  /\ row < body
  /\ top + row < Len(view)
  /\ Fold(IF DirAt(top + row) THEN Unfolded(AtRow(top + row)) ELSE expanded,
          top + row)

\* Unfolds everything unless a directory of the first level is unfolded.
ToggleAll ==
  Fold(IF \E n \in expanded : Len(n) = 1 THEN {} ELSE Dirs(tree), sel)

Hide(same, only) ==
  /\ running = "tui"
  /\ hideSame' = same
  /\ hideOnly' = only
  /\ UNCHANGED <<disk, tree, expanded, filt, body>>
  /\ Frame(0, 0, body)

HideSame == Hide(~hideSame, hideOnly)
HideOnly == Hide(hideSame, ~hideOnly)

PromptFilter(f) ==
  /\ running = "tui"
  /\ filt' = f
  /\ UNCHANGED <<disk, tree, expanded, hideSame, hideOnly, body>>
  /\ Frame(0, 0, body)

\* A slip: the new tree begins folded.
AllFolded(t) == {}

\* What was unfolded stays so, as far as it is still a directory.
KeepExpanded(t) == expanded \cap Dirs(t)

Reload ==
  /\ running = "tui"
  /\ tree' = Loaded(disk)
  /\ expanded' = KeepExpanded(tree')
  /\ UNCHANGED <<disk, Settings, body>>
  /\ Frame(IF view' = << >> THEN 0 ELSE Least(sel, Len(view') - 1), top, body)

\* A file is edited, from here (Enter, h, l) or by somebody else.
Edit(d) ==
  /\ running = "tui"
  /\ disk' = d
  /\ UNCHANGED <<tree, expanded, Settings, view, sel, top, body, running>>

Resize(b) ==
  /\ running = "tui"
  /\ body' = b
  /\ UNCHANGED <<disk, tree, expanded, Settings>>
  /\ Frame(sel, top, b)

Quit ==
  /\ running = "tui"
  /\ filt = NoFilter
  /\ running' = "left"
  /\ UNCHANGED <<disk, tree, expanded, Settings, view, sel, top, body>>

Move == Down \/ Up \/ NextPage \/ PrevPage \/ Home \/ End

TuiNext == \/ Move
           \/ Right \/ Left \/ Activate \/ ToggleAll
           \/ \E row \in 0 .. body - 1 : Click(row)
           \/ HideSame \/ HideOnly
           \/ \E f \in Filters \cup {NoFilter} : PromptFilter(f)
           \/ Reload
           \/ \E d \in Disks : Edit(d)
           \/ \E b \in BodyHeights : Resize(b)
           \/ Quit

TuiSpec == TuiInit /\ [][TuiNext]_tuiVars

-----------------------------------------------------------------------------
(* Properties *)

TuiTypeOK == /\ disk \in Disks
             /\ \A f \in DOMAIN tree : tree[f].status \in
                   {"onlyA", "onlyB", "same", "diff", "bindiff"}
             /\ expanded \subseteq Dirs(tree)
             /\ hideSame \in BOOLEAN /\ hideOnly \in BOOLEAN
             /\ filt \in Filters \cup {NoFilter}
             /\ sel \in -1 .. Cardinality(Nodes(tree))
             /\ top \in Int
             /\ body \in BodyHeights
             /\ running \in {"tui", "left", "died"}

\* Whatever folding, hiding, reloading and resizing has made of the list, the
\* frame shows the selected row, and what Enter then acts on is that row; only
\* on an empty list does a key end the program.
SelectionOnScreen ==
  IF running = "died" THEN view = << >>
  ELSE /\ 0 <= top /\ top <= sel /\ sel < top + body
       /\ view # << >> => sel < Len(view)

\* Hiding takes away exactly the files it names: every other file is in the
\* list or below a row of it that can be unfolded, and no row is left that
\* leads to hidden files only.
NothingLost ==
  filt = NoFilter =>
    LET rows == {view[i] : i \in DOMAIN view}
    IN  /\ \A f \in DOMAIN tree :
             ~FileHidden(tree, hideSame, hideOnly, f)
                => \E n \in rows : IsPrefix(n, f) /\ (n = f \/ n \notin expanded)
        /\ \A n \in rows : \E f \in DOMAIN tree :
             IsPrefix(n, f) /\ ~FileHidden(tree, hideSame, hideOnly, f)

\* Reading directories again in which nothing has changed changes nothing of
\* what is shown: the unfolded directories, the selection and the window.
ReloadKeepsPlace ==
  [][Reload /\ tree' = tree => view' = view /\ UNCHANGED <<sel, top, expanded>>]_tuiVars

\* The interface ends by q, and by no movement key.
OnlyQuitEnds == running # "died"
=============================================================================
