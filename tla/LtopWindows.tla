------------------------------ MODULE LtopWindows -----------------------------
(***************************************************************************)
(* The two target windows of ltop (src/utils/ltop.c, main): their sizes,   *)
(* the page and the cursor in each, and the order in which an iteration of *)
(* the main loop counts, sizes and sums up the lists shown in them.        *)
(*                                                                         *)
(* Of a list only its length matters here: the records of target_data and, *)
(* for the server view, how many servers a summary would have and how many *)
(* the last one had.  One action is one iteration: what the key does, then *)
(* the rest of the loop (Rest).  SPACE and the sort keys leave all this    *)
(* alone.                                                                  *)
(***************************************************************************)
EXTENDS Integers

CONSTANTS Heights,      \* values of LINES, the height of the terminal
          Lists,        \* window -> the lengths [n, servers] its lists can have
          Playback,     \* is a recording played back
          OffsetBound   \* bound on how far a page offset strays

Win == {"ost", "mdt"}
TopLines == 7           \* TOPWIN_LINES

ASSUME WindowsAssumption ==
  /\ Heights \subseteq Nat
  /\ Lists \in [Win -> SUBSET [n : Nat, servers : Nat]]
  /\ Playback \in BOOLEAN
  /\ OffsetBound \in Nat

VARIABLES height,       \* LINES
          pause,        \* playback is paused
          data,         \* window -> lengths of its lists now
          summary,      \* window -> records of oss_data, mds_data
          active,       \* the window in_ostwin selects
          proportional, \* proportional_view
          view,         \* ostview, mdtview: targets (TRUE) or servers
          count,        \* ostcount, mdtcount
          lines,        \* ostlines, mdtlines
          win,          \* heights of the windows on screen, 0 for NULL
          sel, min      \* selost, selmdt and minost, minmdt

vars == <<height, pause, data, summary, active, proportional, view, count, lines,
          win, sel, min>>

-------------------------------------------------------------------------------
(* Lists with something in them, and after _list_empty_out.                *)
NewLists == {d \in [Win -> UNION {Lists[w] : w \in Win}] : \A w \in Win : d[w] \in Lists[w]}
Emptied == [w \in Win |-> [n |-> 0, servers |-> 0]]

Both(m, o) == [w \in Win |-> IF w = "mdt" THEN m ELSE o]

min_or_zero(x, y) == LET m == IF x < y THEN x ELSE y IN IF m < 0 THEN 0 ELSE m

(* Without the clamp that leaves three lines to the OST window.            *)
MutNoRoomForOsts(total, mdts, osts) ==
  LET detail == total - TopLines
      share  == 2 + (detail * mdts) \div (mdts + osts)
  IN IF total <= TopLines + 2 THEN Both(0, 0)
     ELSE LET m == IF mdts < 2 \/ total <= TopLines + 5 THEN 0
                   ELSE IF share > mdts + 2 THEN mdts + 2 ELSE share
          IN Both(m, total - (TopLines + m))

(* The quotient of floats is truncated when it is stored.                  *)
size_windows_proportional(total, mdts, osts) ==
  LET detail == total - TopLines
      share  == 2 + (detail * mdts) \div (mdts + osts)
      least  == IF share < 3 THEN 3 ELSE share
      room   == IF detail - least < 3 THEN detail - 3 ELSE least
      m      == IF mdts < 2 \/ total <= TopLines + 5 THEN 0
                ELSE IF room > mdts + 2 THEN mdts + 2 ELSE room
  IN IF total <= TopLines + 2 THEN Both(0, 0)
     ELSE Both(m, total - (TopLines + m))

(* The selected window gets the lines it needs, the other what is left.    *)
size_windows_prioritize(total, mdts, osts, a) ==
  LET detail == total - TopLines
      m == min_or_zero(mdts + 1, detail)
      o == min_or_zero(osts + 1, detail)
  IN IF total <= TopLines + 2 THEN Both(0, 0)
     ELSE IF a = "ost" THEN Both(min_or_zero(m, detail - o), o)
     ELSE Both(m, min_or_zero(o, detail - m))

Sizes(h, c, prop, a) == IF prop THEN size_windows_proportional(h, c["mdt"], c["ost"])
                        ELSE size_windows_prioritize(h, c["mdt"], c["ost"], a)

create_target_window(n) == IF n >= 2 THEN n ELSE 0

-------------------------------------------------------------------------------
Init == /\ height \in Heights
        /\ pause = FALSE
        /\ data \in NewLists
        /\ summary = Both(0, 0)
        /\ active = "ost" /\ proportional = FALSE
        /\ view = Both(TRUE, TRUE)
        /\ count = Both(data["mdt"].n, data["ost"].n)
        /\ lines = Sizes(height, count, FALSE, "ost")
        /\ win = [w \in Win |-> create_target_window(lines[w])]
        /\ sel = Both(-1, -1) /\ min = Both(0, 0)


(* The rest of an iteration.  Lists are counted before the server lists    *)
(* are summed up again; windows are replaced only with recompute, but      *)
(* their sizes are computed in every iteration.                            *)
Rest(recompute) ==
  /\ count' = IF recompute
              THEN [w \in Win |-> IF view'[w] THEN data'[w].n ELSE summary[w]]
              ELSE count
  /\ lines' = Sizes(height', count', proportional', active')
  /\ win' = IF recompute THEN [w \in Win |-> create_target_window(lines'[w])] ELSE win
  /\ summary' = IF recompute
                THEN [w \in Win |-> IF view'[w] THEN summary[w] ELSE data'[w].servers]
                ELSE summary

Paging == /\ UNCHANGED <<height, pause, data, active, proportional, view>>
          /\ \A w \in Win : min'[w] \in -OffsetBound..OffsetBound

(* The sample period is over: the lists are as the poll or the next batch  *)
(* makes them, or as they were if there is none.  Nothing in paused        *)
(* playback.                                                               *)
Sample == /\ ~pause
          /\ data' \in NewLists \cup {data}
          /\ UNCHANGED <<height, pause, active, proportional, view, sel, min>>
          /\ Rest(TRUE)

(* LEFT, RIGHT, TAB and BACKSPACE, paused or not: other lists, or none     *)
(* when they are emptied and there is no batch to read.                    *)
PlaybackKey == /\ Playback
               /\ data' \in NewLists \cup {data, Emptied}
               /\ UNCHANGED <<height, pause, active, proportional, view, sel, min>>
               /\ Rest(TRUE)

(* p *)
Pause == /\ Playback
         /\ pause' = ~pause
         /\ UNCHANGED <<height, data, active, proportional, view, sel, min>>
         /\ Rest(FALSE)

(* The terminal changes its size; getch returns KEY_RESIZE.                *)
Resize == /\ \E h \in Heights : height' = h
          /\ UNCHANGED <<pause, data, active, proportional, view, sel, min>>
          /\ Rest(FALSE)

(* z *)
SwitchWindow == /\ proportional => win["mdt"] # 0
                /\ active' = IF active = "ost" THEN "mdt" ELSE "ost"
                /\ UNCHANGED <<pause, height, data, proportional, view, sel, min>>
                /\ Rest(TRUE)

(* P *)
ToggleProportional == /\ proportional' = ~proportional
                      /\ UNCHANGED <<pause, height, data, active, view, sel, min>>
                      /\ Rest(TRUE)

(* DELETE *)
ParkCursor == /\ sel' = Both(-1, -1)
              /\ UNCHANGED min /\ Paging
              /\ Rest(FALSE)

(* PAGE UP and the end of UP: back by a page, not below 0.                 *)
PagedUp == LET m == min[active] - (lines[active] - 1)
           IN [min EXCEPT ![active] = IF m < 0 THEN 0 ELSE m]

(* PAGE DOWN and the end of DOWN.                                          *)
PagedDown == IF min[active] + lines[active] <= count[active]
             THEN [min EXCEPT ![active] = @ + (lines[active] - 1)]
             ELSE min

PageUp == /\ min' = PagedUp /\ UNCHANGED sel /\ Paging
          /\ Rest(FALSE)

PageDown == /\ min' = PagedDown /\ UNCHANGED sel /\ Paging
            /\ Rest(FALSE)

CursorUp == LET s == IF sel[active] > 0 THEN sel[active] - 1 ELSE sel[active]
            IN /\ sel' = [sel EXCEPT ![active] = s]
               /\ min' = IF s >= min[active] THEN min ELSE PagedUp
               /\ Paging /\ Rest(FALSE)

(* DOWN pages only when the cursor has left the page by more than a line.  *)
MutPagesLate == LET s == IF sel[active] < count[active] - 1
                         THEN sel[active] + 1 ELSE sel[active]
                IN /\ sel' = [sel EXCEPT ![active] = s]
                   /\ min' = IF s - min[active] <= lines[active] - 1 THEN min ELSE PagedDown
                   /\ Paging /\ Rest(FALSE)

CursorDown == LET s == IF sel[active] < count[active] - 1
                       THEN sel[active] + 1 ELSE sel[active]
              IN /\ sel' = [sel EXCEPT ![active] = s]
                 /\ min' = IF s - min[active] < lines[active] - 1 THEN min ELSE PagedDown
                 /\ Paging /\ Rest(FALSE)

(* c *)
ToggleView == /\ view' = [view EXCEPT ![active] = ~@]
              /\ min' = [min EXCEPT ![active] = 0]
              /\ sel' = [sel EXCEPT ![active] = -1]
              /\ UNCHANGED <<pause, height, data, active, proportional>>
              /\ Rest(TRUE)

(* f, with another file system: the lists are emptied and filled at once,  *)
(* as far as there is an answer -- but in paused playback they stay empty, *)
(* and nothing is counted.                                                 *)
ChooseFs == /\ data' \in IF pause THEN {Emptied} ELSE NewLists \cup {Emptied}
            /\ sel' = Both(-1, -1) /\ min' = Both(0, 0)
            /\ active' = "ost"
            /\ UNCHANGED <<height, pause, proportional, view>>
            /\ Rest(~pause)

Next == \/ Sample \/ PlaybackKey \/ Pause \/ Resize \/ SwitchWindow \/ ToggleProportional
        \/ ParkCursor \/ PageUp \/ PageDown \/ CursorUp \/ CursorDown
        \/ ToggleView \/ ChooseFs

(* getch times out after a sample period; then the loop samples, unless    *)
(* playback is paused.                                                     *)
Spec == Init /\ [][Next]_vars
FairSpec == Spec /\ WF_vars(Sample)

-------------------------------------------------------------------------------
TypeOK == /\ height \in Heights /\ pause \in BOOLEAN /\ (pause => Playback)
          /\ data \in [Win -> [n : Nat, servers : Nat]]
          /\ summary \in [Win -> Nat] /\ count \in [Win -> Nat]
          /\ active \in Win /\ proportional \in BOOLEAN /\ view \in [Win -> BOOLEAN]
          /\ lines \in [Win -> Int] /\ win \in [Win -> Int]
          /\ sel \in [Win -> Int] /\ min \in [Win -> Int]

(* The sizes are those of the counts, the layout and the terminal as they  *)
(* are at the end of the iteration.  With TypeOK, the inductive invariant. *)
SizesCurrent == lines = Sizes(height, count, proportional, active)
IInv == TypeOK /\ SizesCurrent

(* Both layouts leave the top window its lines and never overlap or run    *)
(* off the terminal, whatever the counts, also when a size is computed     *)
(* from the count of an older summary.                                     *)
WindowsFit ==
  /\ \A w \in Win : lines[w] >= 0
  /\ lines["ost"] + lines["mdt"] + TopLines <= height \/ lines = Both(0, 0)
  /\ proportional /\ lines["mdt"] > 0 => lines["mdt"] >= 3 /\ lines["ost"] >= 3

(* The cursor keys keep a visible cursor visible: it turns the page when   *)
(* the cursor crosses its edge, in both directions and at both ends.       *)
OnPage(w) == sel[w] - min[w] \in 0..(lines[w] - 2)
CursorStaysOnPage ==
  [][ (CursorUp \/ CursorDown) /\ OnPage(active) /\ lines' = lines
      /\ sel[active] < count[active] => OnPage(active)' ]_vars

(* Windows are sized with the count of the previous summary, but only for  *)
(* a while: once the lists stay the same, the counts again and again are   *)
(* those of the lists shown, and the windows have the sizes computed --    *)
(* unless playback stays paused: then nothing counts them again, and the   *)
(* window of key c keeps a size that is not the one it needs.              *)
Shown(w) == IF view[w] THEN data[w].n ELSE summary[w]
CaughtUp == \A w \in Win : /\ count[w] = Shown(w)
                           /\ win[w] = create_target_window(lines[w])

===============================================================================
