--------------------------- MODULE LtopWindowsProofs ---------------------------
(***************************************************************************)
(* Theorems about LtopWindows, for every terminal size and every list.     *)
(***************************************************************************)
EXTENDS LtopWindows, TLAPS

(* The two layouts of ltop.c, for a terminal of any height and any counts. *)

(* The share of the MDTs is a rounded quotient; all the clamps need is that*)
(* it is an integer.                                                       *)
LEMMA Quotient ==
  ASSUME NEW d \in Int, NEW m \in Nat, NEW o \in Nat, m >= 2
  PROVE  (d * m) \div (m + o) \in Int
<1>1. d * m \in Int
  BY SMT
<1>2. m + o \in Int /\ m + o > 0
  BY SMT
<1> QED BY <1>1, <1>2, SMT

LEMMA ProportionalFits ==
  ASSUME NEW t \in Nat, NEW m \in Nat, NEW o \in Nat
  PROVE  LET z == size_windows_proportional(t, m, o)
         IN /\ z \in [Win -> Int]
            /\ \A w \in Win : z[w] >= 0
            /\ z["ost"] + z["mdt"] + TopLines <= t \/ z = Both(0, 0)
            /\ z["mdt"] > 0 => z["mdt"] >= 3 /\ z["ost"] >= 3
<1>1. CASE t <= TopLines + 2
  <2>1. size_windows_proportional(t, m, o) = Both(0, 0)
    BY <1>1 DEF size_windows_proportional
  <2> QED BY <2>1 DEF Both, Win
<1>2. CASE ~(t <= TopLines + 2) /\ (m < 2 \/ t <= TopLines + 5)
  <2>1. size_windows_proportional(t, m, o) = Both(0, t - (TopLines + 0))
    BY <1>2 DEF size_windows_proportional
  <2> QED BY <1>2, <2>1 DEF Both, Win, TopLines
<1>3. CASE ~(t <= TopLines + 5) /\ ~(m < 2)
  <2> DEFINE q     == ((t - TopLines) * m) \div (m + o)
             share == 2 + q
             least == IF share < 3 THEN 3 ELSE share
             room  == IF (t - TopLines) - least < 3 THEN (t - TopLines) - 3 ELSE least
             n     == IF room > m + 2 THEN m + 2 ELSE room
  <2>1. q \in Int
    BY <1>3, Quotient DEF TopLines
  <2>2. ~(t <= TopLines + 2)
    BY <1>3 DEF TopLines
  <2>3. size_windows_proportional(t, m, o) = Both(n, t - (TopLines + n))
    BY <1>3, <2>2 DEF size_windows_proportional
  <2> HIDE DEF q
  <2>4. n \in Int /\ n >= 3 /\ n <= t - TopLines - 3
    BY <1>3, <2>1 DEF TopLines
  <2> HIDE DEF n
  <2> QED BY <2>3, <2>4 DEF Both, Win, TopLines
<1> QED BY <1>1, <1>2, <1>3

LEMMA PrioritizeFits ==
  ASSUME NEW t \in Nat, NEW m \in Nat, NEW o \in Nat, NEW a \in Win
  PROVE  LET z == size_windows_prioritize(t, m, o, a)
         IN /\ z \in [Win -> Int]
            /\ \A w \in Win : z[w] >= 0
            /\ z["ost"] + z["mdt"] + TopLines <= t \/ z = Both(0, 0)
<1>1. CASE t <= TopLines + 2
  <2>1. size_windows_prioritize(t, m, o, a) = Both(0, 0)
    BY <1>1 DEF size_windows_prioritize
  <2> QED BY <2>1 DEF Both, Win
<1>2. CASE ~(t <= TopLines + 2) /\ a = "ost"
  <2> DEFINE y == min_or_zero(o + 1, t - TopLines)
             x == min_or_zero(min_or_zero(m + 1, t - TopLines), t - TopLines - y)
  <2>1. size_windows_prioritize(t, m, o, a) = Both(x, y)
    BY <1>2 DEF size_windows_prioritize
  <2>2. x \in Int /\ y \in Int /\ x >= 0 /\ y >= 0 /\ x + y <= t - TopLines
    BY <1>2 DEF min_or_zero, TopLines
  <2> HIDE DEF x, y
  <2> QED BY <2>1, <2>2 DEF Both, Win, TopLines
<1>3. CASE ~(t <= TopLines + 2) /\ a # "ost"
  <2> DEFINE x == min_or_zero(m + 1, t - TopLines)
             y == min_or_zero(min_or_zero(o + 1, t - TopLines), t - TopLines - x)
  <2>1. size_windows_prioritize(t, m, o, a) = Both(x, y)
    BY <1>3 DEF size_windows_prioritize
  <2>2. x \in Int /\ y \in Int /\ x >= 0 /\ y >= 0 /\ x + y <= t - TopLines
    BY <1>3 DEF min_or_zero, TopLines
  <2> HIDE DEF x, y
  <2> QED BY <2>1, <2>2 DEF Both, Win, TopLines
<1> QED BY <1>1, <1>2, <1>3

LEMMA SizesFit ==
  ASSUME NEW t \in Nat, NEW c \in [Win -> Nat], NEW p \in BOOLEAN, NEW a \in Win
  PROVE  LET z == Sizes(t, c, p, a)
         IN /\ z \in [Win -> Int]
            /\ \A w \in Win : z[w] >= 0
            /\ z["ost"] + z["mdt"] + TopLines <= t \/ z = Both(0, 0)
            /\ p /\ z["mdt"] > 0 => z["mdt"] >= 3 /\ z["ost"] >= 3
<1>1. c["mdt"] \in Nat /\ c["ost"] \in Nat
  BY DEF Win
<1>2. CASE p
  <2>1. Sizes(t, c, p, a) = size_windows_proportional(t, c["mdt"], c["ost"])
    BY <1>2 DEF Sizes
  <2> QED BY <1>1, <2>1, ProportionalFits
<1>3. CASE ~p
  <2>1. Sizes(t, c, p, a) = size_windows_prioritize(t, c["mdt"], c["ost"], a)
    BY <1>3 DEF Sizes
  <2> DEFINE z == Sizes(t, c, p, a)
  <2>2. /\ z \in [Win -> Int]
        /\ \A w \in Win : z[w] >= 0
        /\ z["ost"] + z["mdt"] + TopLines <= t \/ z = Both(0, 0)
    <3> DEFINE y == size_windows_prioritize(t, c["mdt"], c["ost"], a)
    <3>1. /\ y \in [Win -> Int]
          /\ \A w \in Win : y[w] >= 0
          /\ y["ost"] + y["mdt"] + TopLines <= t \/ y = Both(0, 0)
      BY <1>1, PrioritizeFits
    <3>2. z = y
      BY <2>1
    <3> QED BY <3>1, <3>2, Zenon
  <2> HIDE DEF z
  <2>3. p /\ z["mdt"] > 0 => z["mdt"] >= 3 /\ z["ost"] >= 3
    BY <1>3, Zenon
  <2>4. /\ z \in [Win -> Int]
        /\ \A w \in Win : z[w] >= 0
        /\ z["ost"] + z["mdt"] + TopLines <= t \/ z = Both(0, 0)
        /\ p /\ z["mdt"] > 0 => z["mdt"] >= 3 /\ z["ost"] >= 3
    BY <2>2, <2>3, Zenon
  <2> QED BY <2>4, Zenon DEF z
<1> QED BY <1>2, <1>3

-------------------------------------------------------------------------------
(* The inductive invariant.                                                *)
LEMMA HeightNat == ASSUME NEW h \in Heights PROVE h \in Nat
BY WindowsAssumption

LEMMA DataType ==
  /\ NewLists \subseteq [Win -> [n : Nat, servers : Nat]]
  /\ Emptied \in [Win -> [n : Nat, servers : Nat]]
<1>1. ASSUME NEW d \in NewLists PROVE d \in [Win -> [n : Nat, servers : Nat]]
  <2>1. ASSUME NEW w \in Win PROVE d[w] \in [n : Nat, servers : Nat]
    BY WindowsAssumption DEF NewLists
  <2> QED BY <2>1 DEF NewLists
<1> QED BY <1>1 DEF Emptied

LEMMA WindowType ==
  ASSUME NEW z \in [Win -> Int]
  PROVE  [w \in Win |-> create_target_window(z[w])] \in [Win -> Int]
BY DEF create_target_window

LEMMA InitIInv == Init => IInv
<1> SUFFICES ASSUME Init PROVE IInv
  OBVIOUS
<1> USE DEF Init
<1>1. height \in Nat
  BY HeightNat
<1>2. data \in [Win -> [n : Nat, servers : Nat]]
  BY DataType
<1>3. count \in [Win -> Nat]
  BY <1>2 DEF Both, Win
<1>4. lines \in [Win -> Int]
  BY <1>1, <1>3, SizesFit DEF Win
<1>5. win \in [Win -> Int]
  BY <1>4, WindowType
<1>6. summary \in [Win -> Nat] /\ view \in [Win -> BOOLEAN]
      /\ sel \in [Win -> Int] /\ min \in [Win -> Int]
  BY DEF Both
<1>7. active \in Win /\ proportional \in BOOLEAN /\ SizesCurrent
  BY DEF Win, SizesCurrent
<1> QED BY <1>2, <1>3, <1>4, <1>5, <1>6, <1>7 DEF IInv, TypeOK

(* The rest of an iteration counts, sizes and sums up whatever the key has *)
(* left.                                                                   *)
LEMMA RestIInv ==
  ASSUME IInv, NEW r \in BOOLEAN, Rest(r),
         height' \in Heights, pause' \in BOOLEAN, pause' => Playback,
         data' \in [Win -> [n : Nat, servers : Nat]],
         active' \in Win, proportional' \in BOOLEAN, view' \in [Win -> BOOLEAN],
         sel' \in [Win -> Int], min' \in [Win -> Int]
  PROVE  IInv'
<1> USE DEF IInv, TypeOK
<1>1. count' \in [Win -> Nat]
  BY DEF Rest
<1>2. lines' \in [Win -> Int] /\ SizesCurrent'
  <2>1. height' \in Nat
    BY HeightNat
  <2>2. lines' = Sizes(height', count', proportional', active')
    BY DEF Rest
  <2> QED BY <1>1, <2>1, <2>2, SizesFit DEF SizesCurrent
<1>3. win' \in [Win -> Int]
  BY <1>2, WindowType DEF Rest
<1>4. summary' \in [Win -> Nat]
  BY DEF Rest
<1> QED BY <1>1, <1>2, <1>3, <1>4

LEMMA PageTypes ==
  ASSUME IInv
  PROVE  PagedUp \in [Win -> Int] /\ PagedDown \in [Win -> Int]
BY DEF IInv, TypeOK, PagedUp, PagedDown

LEMMA NextIInv == IInv /\ [Next]_vars => IInv'
<1> SUFFICES ASSUME IInv, [Next]_vars PROVE IInv'
  OBVIOUS
<1>0. TypeOK
  BY DEF IInv
<1>1. CASE UNCHANGED vars
  BY <1>1 DEF vars, IInv, TypeOK, SizesCurrent
<1>2. CASE Sample
  <2>1. data' \in [Win -> [n : Nat, servers : Nat]]
    BY <1>0, <1>2, DataType DEF Sample, TypeOK
  <2> QED BY <1>0, <1>2, <2>1, RestIInv DEF Sample, TypeOK
<1>3. CASE Resize
  BY <1>0, <1>3, RestIInv DEF Resize, TypeOK
<1>4. CASE SwitchWindow
  BY <1>0, <1>4, RestIInv DEF SwitchWindow, TypeOK, Win
<1>5. CASE ToggleProportional
  BY <1>0, <1>5, RestIInv DEF ToggleProportional, TypeOK
<1>6. CASE ParkCursor
  <2>1. sel' \in [Win -> Int]
    BY <1>6 DEF ParkCursor, Both
  <2> QED BY <1>0, <1>6, <2>1, RestIInv DEF ParkCursor, Paging, TypeOK
<1>7. CASE PageUp
  BY <1>0, <1>7, RestIInv, PageTypes DEF PageUp, Paging, TypeOK
<1>8. CASE PageDown
  BY <1>0, <1>8, RestIInv, PageTypes DEF PageDown, Paging, TypeOK
<1>9. CASE CursorUp
  <2>1. sel' \in [Win -> Int]
    BY <1>0, <1>9 DEF CursorUp, TypeOK
  <2>2. min' \in [Win -> Int]
    BY <1>0, <1>9, PageTypes DEF CursorUp, TypeOK
  <2>3. Rest(FALSE) /\ Paging
    BY <1>9 DEF CursorUp
  <2> QED BY <1>0, <2>1, <2>2, <2>3, RestIInv DEF Paging, TypeOK
<1>10. CASE CursorDown
  <2>1. sel' \in [Win -> Int]
    BY <1>0, <1>10 DEF CursorDown, TypeOK
  <2>2. min' \in [Win -> Int]
    BY <1>0, <1>10, PageTypes DEF CursorDown, TypeOK
  <2>3. Rest(FALSE) /\ Paging
    BY <1>10 DEF CursorDown
  <2> QED BY <1>0, <2>1, <2>2, <2>3, RestIInv DEF Paging, TypeOK
<1>11. CASE ToggleView
  <2>1. /\ view' \in [Win -> BOOLEAN] /\ sel' \in [Win -> Int] /\ min' \in [Win -> Int]
    BY <1>0, <1>11 DEF ToggleView, TypeOK
  <2> QED BY <1>0, <1>11, <2>1, RestIInv DEF ToggleView, TypeOK
<1>12. CASE ChooseFs
  <2>1. data' \in [Win -> [n : Nat, servers : Nat]]
    <3>1. data' \in NewLists \/ data' = Emptied
      BY <1>12, Zenon DEF ChooseFs
    <3> QED BY <3>1, DataType
  <2>2. sel' \in [Win -> Int] /\ min' \in [Win -> Int] /\ active' \in Win
    BY <1>12 DEF ChooseFs, Both, Win
  <2>3. (~pause) \in BOOLEAN /\ Rest(~pause)
    BY <1>12 DEF ChooseFs
  <2>4. /\ height' \in Heights /\ pause' \in BOOLEAN /\ (pause' => Playback)
        /\ proportional' \in BOOLEAN /\ view' \in [Win -> BOOLEAN]
    BY <1>0, <1>12 DEF ChooseFs, TypeOK
  <2> QED BY <2>1, <2>2, <2>3, <2>4, RestIInv
<1>13. CASE PlaybackKey
  <2>1. data' \in [Win -> [n : Nat, servers : Nat]]
    BY <1>0, <1>13, DataType DEF PlaybackKey, TypeOK
  <2> QED BY <1>0, <1>13, <2>1, RestIInv DEF PlaybackKey, TypeOK
<1>14. CASE Pause
  BY <1>0, <1>14, RestIInv DEF Pause, TypeOK
<1> QED BY <1>1, <1>2, <1>3, <1>4, <1>5, <1>6, <1>7, <1>8, <1>9, <1>10, <1>11, <1>12,
           <1>13, <1>14
        DEF Next

(* The sizes always belong to the counts, for every terminal and list.     *)
THEOREM Inductive == Spec => []IInv
BY InitIInv, NextIInv, PTL DEF Spec

(* Both layouts of ltop.c fit every terminal: no negative height, no       *)
(* overlap, and three lines for each window of the proportional layout.    *)
THEOREM Fits == Spec => []WindowsFit
<1>1. IInv => WindowsFit
  <2> SUFFICES ASSUME IInv PROVE WindowsFit
    OBVIOUS
  <2>1. height \in Nat
    BY HeightNat DEF IInv, TypeOK
  <2>2. lines = Sizes(height, count, proportional, active)
    BY DEF IInv, SizesCurrent
  <2>3. count \in [Win -> Nat] /\ proportional \in BOOLEAN /\ active \in Win
    BY DEF IInv, TypeOK
  <2> QED BY <2>1, <2>2, <2>3, SizesFit DEF WindowsFit
<1> QED BY <1>1, Inductive, PTL

(* UP and DOWN, which fall through into the page keys, keep a visible      *)
(* cursor on its page, for every list and page size.                       *)
THEOREM CursorVisible == Spec => CursorStaysOnPage
<1> DEFINE Kept == (CursorUp \/ CursorDown) /\ OnPage(active) /\ lines' = lines
                   /\ sel[active] < count[active] => OnPage(active)'
<1>1. ASSUME TypeOK PROVE Kept
  <2> SUFFICES ASSUME CursorUp \/ CursorDown, OnPage(active), lines' = lines,
                      sel[active] < count[active]
               PROVE  OnPage(active)'
    OBVIOUS
  <2> DEFINE a == active
  <2>1. active' = a
    BY DEF CursorUp, CursorDown, Paging
  <2>2. /\ a \in Win /\ sel[a] \in Int /\ min[a] \in Int /\ lines[a] \in Int
        /\ count[a] \in Nat /\ sel \in [Win -> Int] /\ min \in [Win -> Int]
    BY <1>1 DEF TypeOK
  <2>3. sel[a] - min[a] >= 0 /\ sel[a] - min[a] <= lines[a] - 2
    BY <2>2 DEF OnPage
  <2>4. SUFFICES sel'[a] - min'[a] \in 0..(lines[a] - 2)
    BY <2>1 DEF OnPage
  <2>5. CASE CursorUp
    <3> DEFINE s == IF sel[a] > 0 THEN sel[a] - 1 ELSE sel[a]
               m == min[a] - (lines[a] - 1)
    <3>1. sel'[a] = s /\ min' = IF s >= min[a] THEN min ELSE PagedUp
      BY <2>2, <2>5 DEF CursorUp
    <3>2. PagedUp[a] = IF m < 0 THEN 0 ELSE m
      BY <2>2 DEF PagedUp
    <3>3. min'[a] = IF s >= min[a] THEN min[a] ELSE IF m < 0 THEN 0 ELSE m
      BY <3>1, <3>2
    <3> HIDE DEF a
    <3> QED BY <2>2, <2>3, <3>1, <3>3
  <2>6. CASE CursorDown
    <3> DEFINE s == IF sel[a] < count[a] - 1 THEN sel[a] + 1 ELSE sel[a]
    <3>1. sel'[a] = s /\ min' = IF s - min[a] < lines[a] - 1 THEN min ELSE PagedDown
      BY <2>2, <2>6 DEF CursorDown
    <3>2. PagedDown[a] = IF min[a] + lines[a] <= count[a] THEN min[a] + (lines[a] - 1)
                         ELSE min[a]
      BY <2>2 DEF PagedDown
    <3>3. min'[a] = IF s - min[a] < lines[a] - 1 THEN min[a]
                    ELSE IF min[a] + lines[a] <= count[a] THEN min[a] + (lines[a] - 1)
                    ELSE min[a]
      BY <3>1, <3>2
    <3> HIDE DEF a
    <3> QED BY <2>2, <2>3, <3>1, <3>3
  <2> QED BY <2>5, <2>6
<1>2. TypeOK /\ [Next]_vars => [Kept]_vars
  BY <1>1
<1> HIDE DEF Kept
<1>3. IInv => TypeOK
  BY DEF IInv
<1>4. Spec => [][Kept]_vars
  BY <1>2, <1>3, Inductive, PTL DEF Spec
<1> QED BY <1>4 DEF CursorStaysOnPage, Kept
===============================================================================
