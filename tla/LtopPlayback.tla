----------------------------- MODULE LtopPlayback -----------------------------
(***************************************************************************)
(* ltop -r and ltop -p (src/utils/ltop.c).  A live ltop writes every       *)
(* metric it polls to a file (_record_file); a second ltop plays the file  *)
(* back, a batch of records with one wall clock time per sample period,    *)
(* and keeps a list of (offset, time) pairs to rewind with (time_series).  *)
(*                                                                         *)
(* An offset is the number of records before it.  A record keeps what the  *)
(* keys depend on: the time of the poll, the time cerebro received the     *)
(* metric, and the target; a target's row is the receive time of what it   *)
(* shows, 0 for no row.  The trailing "\n" of the scanf format makes feof  *)
(* true as soon as the last record has been read.                          *)
(***************************************************************************)
EXTENDS Integers, Sequences

CONSTANTS Target, Fs, FsOf,   \* targets and their file systems
          Mdt,                \* the targets that are MDTs
          Order,              \* the order in which libcerebro lists the targets
          Interval,           \* LMT_UPDATE_INTERVAL, seconds between metrics of a target
          MaxTime,            \* bound on the clock of the recording session
          MaxRecords,         \* bound on the length of a recording
          Minute,             \* the 60 seconds of TAB and BACKSPACE
          None

ASSUME PlaybackAssumption ==
  /\ FsOf \in [Target -> Fs] /\ Mdt \subseteq Target
  /\ Order \in Seq(Target)
  /\ MaxTime \in Nat /\ MaxRecords \in Nat /\ Interval \in Nat \ {0}
  /\ Minute \in Nat \ {0}
  /\ None \notin Fs

Record == [t : Nat \ {0}, trcv : Nat \ {0}, target : Target]
Mark   == [p : Nat, t : Nat]

VARIABLES phase,      \* "record", "play", or "exit" after msg_exit
          now, heard, \* the clock and cerebro's latest metric of each target
          recf,       \* is the recording file open
          file,       \* the records in the file
          pos, eof,   \* ftell (playf), feof (playf)
          series,     \* time_series, newest first
          rows,       \* ost_data and mdt_data
          tcycle, sample_period,
          fs, pause,
          until       \* t1 of TAB while its loop runs, else 0

recording == <<now, heard, recf>>
player    == <<pos, eof, series, rows, tcycle, sample_period>>
vars      == <<phase, recording, file, player, fs, pause, until>>

NoRows == [x \in Target |-> 0]

TypeOK == /\ phase \in {"record", "play", "exit"}
          /\ now \in Nat \ {0} /\ heard \in [Target -> Nat] /\ recf \in BOOLEAN
          /\ file \in Seq(Record)
          /\ pos \in 0..Len(file) /\ eof \in BOOLEAN
          /\ series \in Seq(Mark)
          /\ rows \in [Target -> Nat]
          /\ tcycle \in Nat /\ sample_period \in Nat \ {0}
          /\ fs \in Fs \cup {None}
          /\ pause \in BOOLEAN
          /\ until \in Nat

Init == /\ phase = "record"
        /\ now = Interval /\ heard = NoRows /\ recf = TRUE
        /\ file = << >>
        /\ pos = 0 /\ eof = FALSE /\ series = << >>
        /\ rows = NoRows /\ tcycle = 0 /\ sample_period = 2
        /\ fs = None /\ pause = FALSE /\ until = 0

-------------------------------------------------------------------------------
(* The recording session.                                                  *)
Tick == /\ phase = "record" /\ now < MaxTime
        /\ now' = now + 1
        /\ UNCHANGED <<phase, heard, recf, file, player, fs, pause, until>>

Report(x) == /\ phase = "record" /\ heard[x] + Interval <= now
             /\ heard' = [heard EXCEPT ![x] = now]
             /\ UNCHANGED <<phase, now, recf, file, player, fs, pause, until>>

(* The answers of a poll: the targets cerebro knows, all of them or those  *)
(* listed before libcerebro failed, as increasing places in Order.         *)
Known == {k \in 1..Len(Order) : heard[Order[k]] # 0}
Answer(n) == {at \in [1..n -> Known] :
                /\ \A j, k \in 1..n : j < k => at[j] < at[k]
                /\ \A i \in Known : i < at[n] => \E k \in 1..n : at[k] = i}

(* _record_file: every metric of the poll, under the time of the poll.     *)
Recorded(at, n) == [k \in 1..n |-> [t |-> now, trcv |-> heard[Order[at[k]]],
                                    target |-> Order[at[k]]]]

Poll == /\ phase = "record" /\ recf
        /\ \E n \in 1..Len(Order) :
             \E at \in Answer(n) : file' = file \o Recorded(at, n)
        /\ Len(file') <= MaxRecords
        /\ UNCHANGED <<phase, recording, player, fs, pause, until>>

(* Key R: the file is opened with "w+", which empties it.                  *)
ToggleRecord == /\ phase = "record"
                /\ recf' = ~recf
                /\ file' = IF recf THEN file ELSE << >>
                /\ UNCHANGED <<phase, now, heard, player, fs, pause, until>>

-------------------------------------------------------------------------------
(* Playback.                                                               *)
Player == [pos |-> pos, eof |-> eof, series |-> series, rows |-> rows,
           tcycle |-> tcycle, period |-> sample_period, dead |-> FALSE]

Becomes(m) == /\ pos' = m.pos /\ eof' = m.eof /\ series' = m.series
              /\ rows' = m.rows /\ tcycle' = m.tcycle /\ sample_period' = m.period

(* The records from offset p on that have the time of the first of them.   *)
InBatch(p, k)  == k \in (p + 1)..Len(file) /\ \A j \in (p + 1)..k : file[j].t = file[p + 1].t
BatchEnd(p) == CHOOSE e \in (p + 1)..Len(file) : InBatch(p, e) /\ ~InBatch(p, e + 1)

(* A target's row after the records p+1..e: the latest receive time, of    *)
(* records of the file system only.  Same rule as in LtopTargets!Update.   *)
Decoded(r, f, p, e) ==
  [x \in Target |->
     LET seen == {file[k].trcv : k \in {j \in (p + 1)..e : file[j].target = x}} \cup {r[x]}
     IN IF FsOf[x] = f THEN CHOOSE v \in seen : \A w \in seen : w <= v ELSE r[x]]

(* The offset stays where the batch began: it is read again and again.     *)
MutReadsAgain(m, f) ==
  IF m.eof \/ m.pos = Len(file) THEN m
  ELSE [m EXCEPT !.rows   = Decoded(m.rows, f, m.pos, BatchEnd(m.pos)),
                 !.series = <<[p |-> m.pos + 1, t |-> file[m.pos + 1].t]>> \o @,
                 !.tcycle = file[m.pos + 1].t]

(* The mark is taken after the batch, with the time of the next one.       *)
MutMarkLate(m, f) ==
  IF m.eof \/ m.pos = Len(file) THEN m
  ELSE LET e == BatchEnd(m.pos)
       IN [m EXCEPT !.pos    = e,
                    !.eof    = e = Len(file),
                    !.rows   = Decoded(m.rows, f, m.pos, e),
                    !.series = <<[p |-> e, t |-> file[IF e < Len(file) THEN e + 1 ELSE e].t]>> \o @,
                    !.tcycle = file[m.pos + 1].t]

(* The first record of the next batch is not put back with fseek.          *)
MutNoSeek(m, f) ==
  IF m.eof \/ m.pos = Len(file) THEN m
  ELSE LET e == BatchEnd(m.pos)
       IN [m EXCEPT !.pos    = IF e < Len(file) THEN e + 1 ELSE e,
                    !.eof    = e = Len(file),
                    !.rows   = Decoded(m.rows, f, m.pos, e),
                    !.series = <<[p |-> m.pos + 1, t |-> file[m.pos + 1].t]>> \o @,
                    !.tcycle = file[m.pos + 1].t]

(* _play_file: one batch.  The mark is the offset after its first record.  *)
(* Reading nothing where end of file has not been seen ends the program.   *)
_play_file(m, f) ==
  IF m.eof \/ m.dead THEN m
  ELSE IF m.pos = Len(file) THEN [m EXCEPT !.dead = TRUE, !.eof = TRUE]
  ELSE LET e == BatchEnd(m.pos)
           t == file[m.pos + 1].t
       IN [m EXCEPT !.pos    = e,
                    !.eof    = e = Len(file),
                    !.rows   = Decoded(m.rows, f, m.pos, e),
                    !.series = <<[p |-> m.pos + 1, t |-> t]>> \o @,
                    !.tcycle = t,
                    !.period = IF e < Len(file) THEN file[e + 1].t - t ELSE @]

(* The menu hands its time_series on.                                      *)
MutPeekMarks(m) == LET n == _play_file(m, None)
                   IN [m EXCEPT !.pos = n.pos, !.eof = n.eof, !.dead = n.dead,
                                !.series = n.series]

(* A batch read by _find_all_fs: into lists of its own, without a mark.    *)
Peeked(m) == LET n == _play_file(m, None)
             IN [m EXCEPT !.pos = n.pos, !.eof = n.eof, !.dead = n.dead]

(* The file systems in that batch.                                         *)
FsIn(m) == IF m.eof \/ m.pos = Len(file) THEN {}
           ELSE {FsOf[file[k].target] : k \in (m.pos + 1)..BatchEnd(m.pos)}

(* One record past the mark.                                               *)
MutSeeksPast(m, k) == IF k = 0 THEN m
                      ELSE [m EXCEPT !.pos = m.series[k].p + 1, !.eof = FALSE,
                                     !.series = SubSeq(@, k + 1, Len(@))]

(* Seek to the k-th mark and drop it with all newer ones.                  *)
BackTo(m, k) == IF k = 0 THEN m
                ELSE [m EXCEPT !.pos = m.series[k].p, !.eof = FALSE,
                               !.series = SubSeq(@, k + 1, Len(@))]

_rewind_file(m, n) == BackTo(m, IF n < Len(m.series) THEN n ELSE Len(m.series))

_rewind_file_to(m, target) ==
  LET reached == {k \in 1..Len(m.series) : m.series[k].t <= target}
  IN BackTo(m, IF reached = {} THEN Len(m.series)
               ELSE CHOOSE k \in reached : \A j \in reached : k <= j)

_list_empty_out(m) == [m EXCEPT !.rows = NoRows]

Ends(m) == /\ Becomes(m)
           /\ phase' = IF m.dead THEN "exit" ELSE "play"
           /\ UNCHANGED <<recording, file>>

Idle == phase = "play" /\ until = 0

(* Start: the file system is an option, or the first of a batch read ahead *)
(* for that; a file of one batch, or no target to show, ends the program.  *)
Started(m, f) ==
  LET n == _play_file(m, f)
  IN /\ phase = "record"
     /\ fs' = f
     /\ Becomes(n)
     /\ phase' = IF n.dead \/ n.eof \/ n.rows = NoRows THEN "exit" ELSE "play"
     /\ now' = Interval /\ heard' = NoRows /\ recf' = FALSE
     /\ UNCHANGED <<file, pause, until>>

(* The default file system: of the first MDT of the batch, else of the     *)
(* first OST.                                                              *)
DefaultFs == LET batch == 1..BatchEnd(0)
                 mdts  == {k \in batch : file[k].target \in Mdt}
                 from  == IF mdts = {} THEN batch ELSE mdts
             IN IF file = << >> THEN None
                ELSE FsOf[file[CHOOSE k \in from : \A j \in from : k <= j].target]

StartWithFs(f) == Started(Player, f)
_find_first_fs == Started(Peeked(Player), DefaultFs)

(* The sample period has passed.                                           *)
Sample == /\ Idle /\ ~pause
          /\ Ends(_play_file(Player, fs))
          /\ UNCHANGED <<fs, pause, until>>

(* RIGHT *)
Right == /\ Idle
         /\ Ends(_play_file(_list_empty_out(Player), fs))
         /\ UNCHANGED <<fs, pause, until>>

(* LEFT without emptying the lists.                                        *)
MutKeepsRows ==
  LET k == IF Len(series) < 3 THEN Len(series) ELSE 3
      m == BackTo(Player, k)
  IN /\ Idle
     /\ Ends(CASE k <= 1 -> m
               [] k = 2  -> _play_file(m, fs)
               [] k = 3  -> _play_file(_play_file(m, fs), fs))
     /\ UNCHANGED <<fs, pause, until>>

(* LEFT: three marks back, and all but one of the batches again.           *)
Left == LET back == _rewind_file(Player, 3)
            k    == Len(series) - Len(back.series)
            m    == IF k > 0 THEN _list_empty_out(back) ELSE back
        IN /\ Idle
           /\ Ends(CASE k <= 1 -> m
                     [] k = 2  -> _play_file(m, fs)
                     [] k = 3  -> _play_file(_play_file(m, fs), fs))
           /\ UNCHANGED <<fs, pause, until>>

(* BACKSPACE *)
Backspace ==
  LET back == _rewind_file(_rewind_file_to(_list_empty_out(Player), tcycle - Minute), 1)
  IN /\ Idle
     /\ Ends(_play_file(_play_file(back, fs), fs))
     /\ UNCHANGED <<fs, pause, until>>

(* TAB plays at least one batch, until a minute has passed.                *)
Tab == /\ Idle
       /\ until' = tcycle + Minute
       /\ UNCHANGED <<phase, recording, file, player, fs, pause>>

TabStep == /\ phase = "play" /\ until # 0
           /\ LET m == _play_file(Player, fs)
              IN /\ Ends(m)
                 /\ until' = IF m.tcycle < until /\ ~m.eof THEN until ELSE 0
           /\ UNCHANGED <<fs, pause>>

Pause == /\ Idle
         /\ pause' = ~pause
         /\ UNCHANGED <<phase, recording, file, player, fs, until>>

(* Key f: the menu reads a batch ahead.  Another file system empties the   *)
(* lists and samples at once, unless paused; leaving the menu does neither.*)
ChooseFs ==
  /\ Idle
  /\ LET m == Peeked(Player)
     IN \/ /\ Ends(m)                      \* cancelled, the same one, or empty
           /\ UNCHANGED fs
        \/ \E f \in FsIn(Player) \ {fs} :
             /\ fs' = f
             /\ Ends(IF pause THEN _list_empty_out(m)
                     ELSE _play_file(_list_empty_out(m), f))
  /\ UNCHANGED <<pause, until>>

Recording == Tick \/ Poll \/ ToggleRecord \/ \E x \in Target : Report(x)
Key == Right \/ Left \/ Backspace \/ Tab \/ Pause \/ ChooseFs
Start == _find_first_fs \/ \E f \in Fs : StartWithFs(f)

Next == Recording \/ Start \/ Sample \/ TabStep \/ Key

(* The main loop always comes round to its sample, and TAB's loop runs.    *)
Spec == Init /\ [][Next]_vars
FairSpec == Spec /\ WF_vars(Sample) /\ WF_vars(TabStep)

-------------------------------------------------------------------------------
(* time_series leads back through the file: each mark lies within the      *)
(* batch of its time, marks get older and lie strictly earlier, and none   *)
(* is ahead of what is on screen -- through any mix of rewinding, skipping *)
(* and batches read by the file system menu.                               *)
SeriesSound ==
  /\ \A k \in 1..Len(series) : /\ series[k].p \in 1..pos
                               /\ file[series[k].p].t = series[k].t
                               /\ series[k].t <= tcycle
  /\ \A j, k \in 1..Len(series) : j < k => /\ series[j].p > series[k].p
                                           /\ series[j].t > series[k].t

(* Nothing on screen is from the future of the time displayed: rows hold   *)
(* only data that the live ltop had at tcycle, also after going back.      *)
NoFuture ==
  \A x \in Target : rows[x] # 0 =>
    /\ FsOf[x] = fs
    /\ \E k \in 1..Len(file) : /\ file[k].target = x
                               /\ file[k].trcv = rows[x]
                               /\ file[k].t <= tcycle

(* Playback stops only between two batches: what it read of the next one   *)
(* is put back -- or, with nothing on screen and no mark left, where a     *)
(* rewind that found a single mark leaves it, behind the record the mark   *)
(* was taken at.                                                           *)
BetweenBatches ==
  phase = "play" /\ pos < Len(file) /\ pos > 0 =>
    \/ file[pos].t # file[pos + 1].t
    \/ series = << >> /\ rows = NoRows

(* What is on screen is of the batch of the newest mark, and it is all     *)
(* that was recorded of the file system at that time from the mark on,     *)
(* through any mix of rewinding, skipping and the menu.  The mark is not   *)
(* where ltop.c:2297 has a rewind seek to, "(position at beginning of      *)
(* batch)": it is taken when one record has been read (ltop.c:2280), so    *)
(* each time a batch is rewound to it loses one more record.               *)
BatchShown ==
  rows # NoRows =>
    /\ series # << >> /\ series[1].t = tcycle
    /\ \A k \in 1..Len(file) :
         /\ file[k].t = tcycle /\ FsOf[file[k].target] = fs
         /\ k >= series[1].p
         => rows[file[k].target] >= file[k].trcv

(* What makes the invariants above inductive.  The clock of the recording  *)
(* does not go back, so times never decrease along the file; until         *)
(* playback starts there is nothing to show; what is played next is later  *)
(* than every mark, and not earlier than what is on screen.                *)
FileOrdered ==
  /\ \A j, k \in 1..Len(file) : j <= k => file[j].t <= file[k].t
  /\ phase = "record" => /\ \A k \in 1..Len(file) : file[k].t <= now
                         /\ \A x \in Target : heard[x] <= now
NotStarted ==
  phase = "record" => /\ pos = 0 /\ ~eof /\ series = << >> /\ rows = NoRows
                      /\ tcycle = 0
MarksBehind ==
  pos < Len(file) => \A k \in 1..Len(series) : series[k].t < file[pos + 1].t
RowsBehind ==
  pos < Len(file) /\ rows # NoRows => tcycle <= file[pos + 1].t
IInv == /\ TypeOK /\ FileOrdered /\ NotStarted
        /\ SeriesSound /\ MarksBehind /\ NoFuture /\ RowsBehind /\ BetweenBatches
        /\ BatchShown

(* Left alone, playback comes to an end: no rewind, skip or menu leaves a  *)
(* position from which it plays on forever or no longer moves.  It is the  *)
(* end of the file, or ltop ends with "Error parsing playback file"        *)
(* (ltop.c:2286): the mark of the last record is the end of the file, and  *)
(* a rewind to it clears the end of file condition.                        *)
ComesToEnd ==
  (<>(phase # "record") /\ <>[]~pause /\ <>[][~Key]_vars)
    => <>[](eof \/ phase = "exit")

(* ltop.1.in:233, "LEFT Rewind playback by one sample period": with three  *)
(* batches behind it, LEFT shows an earlier one.                           *)
LeftGoesBack == [][Left /\ Len(series) >= 3 => tcycle' < tcycle]_vars
===============================================================================
